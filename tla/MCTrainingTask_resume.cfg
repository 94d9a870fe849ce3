SPECIFICATION Spec
CONSTANTS
    Templates = {t1, t2}
    NoTemplate = NoTemplate
    Workers = 2
    TemplateLimit = 0
    MaxTasks = 2
    MaxSignals = 2
    MaxFaults = 1
SYMMETRY Symmetry
INVARIANT RoundCovers
CHECK_DEADLOCK FALSE
