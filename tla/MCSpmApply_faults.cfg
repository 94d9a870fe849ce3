SPECIFICATION Spec
CONSTANTS
    Templates = {t1}
    Plans = {p0, p1, p2}
    DefaultPlan = p0
    NoTemplate = NoTemplate
    NoPlan = NoPlan
    PlanDrift = FALSE
    MaxTasks = 3
    MaxFaults = 2
INVARIANT TypeOK SuccessAccounted OnlineMatchesRecord
PROPERTY HistoryAlternates
CHECK_DEADLOCK FALSE
