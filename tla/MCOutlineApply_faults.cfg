SPECIFICATION Spec
CONSTANTS
    Templates = {t1, t2}
    Plans = {p1, p2}
    Timeouts = {1, 2}
    NoTemplate = NoTemplate
    MaxTasks = 2
    MaxFaults = 2
SYMMETRY Symmetry
INVARIANT TypeOK SuccessLasts RulesBoundedByFaults DecisionInForce
CHECK_DEADLOCK FALSE
