SPECIFICATION FairSpec
CONSTANTS
    Templates = {t1, t2, t3}
    NoTemplate = NoTemplate
    Workers = 2
    TemplateLimit = 2
    MaxTasks = 1
    MaxSignals = 2
    MaxFaults = 1
INVARIANT SignalInterrupts NoWorkerAfterPool StoredIsApplied
PROPERTY TaskEnds
CHECK_DEADLOCK FALSE
