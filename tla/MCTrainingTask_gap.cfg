SPECIFICATION Spec
CONSTANTS
    Templates = {t1}
    NoTemplate = NoTemplate
    Workers = 1
    TemplateLimit = 0
    MaxTasks = 1
    MaxSignals = 1
    MaxFaults = 0
INVARIANT NoSignalLost
CHECK_DEADLOCK FALSE
