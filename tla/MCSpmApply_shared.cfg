SPECIFICATION FairSpec
CONSTANTS
    Templates = {t1, t2}
    Plans = {p0, p1}
    DefaultPlan = p0
    NoTemplate = NoTemplate
    NoPlan = NoPlan
    PlanDrift = TRUE
    MaxTasks = 1
    MaxFaults = 1
INVARIANT BlacklistedQuiescent
PROPERTY BatchFinishes DisableTakesEffect
CHECK_DEADLOCK FALSE
