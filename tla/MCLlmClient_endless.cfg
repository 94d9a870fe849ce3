SPECIFICATION ClientFairSpec
CONSTANTS
    Endpoint = {e1, e2}
    Caller = {c1}
    NoEndpoint = NoEndpoint
    Cooldown = 1
    FailedWait = 2
    CallTimeout = 2
    Prompt = TRUE
    MaxRetries = 1
    MaxFailures = 2
PROPERTY CompletionEnds
CHECK_DEADLOCK FALSE
