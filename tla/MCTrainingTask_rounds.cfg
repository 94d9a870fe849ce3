SPECIFICATION Spec
CONSTANTS
    Templates = {t1}
    NoTemplate = NoTemplate
    Workers = 1
    TemplateLimit = 0
    MaxTasks = 4
    MaxSignals = 2
    MaxFaults = 0
INVARIANT TypeOK ProgressWithinWorkload
PROPERTY TrainsInRounds
CHECK_DEADLOCK FALSE
