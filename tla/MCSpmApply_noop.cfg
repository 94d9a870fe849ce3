SPECIFICATION Spec
CONSTANTS
    Templates = {t1}
    Plans = {p0, p1, p2}
    DefaultPlan = p0
    NoTemplate = NoTemplate
    NoPlan = NoPlan
    PlanDrift = FALSE
    MaxTasks = 3
    MaxFaults = 1
INVARIANT NoopMeansSamePlans
CHECK_DEADLOCK FALSE
