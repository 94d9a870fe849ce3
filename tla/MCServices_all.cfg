SPECIFICATION ServicesSpec
CONSTANTS
    \* MctsSearch
    Hint <- MCHint
    Slot <- MCSlot
    Plan <- MCPlan
    PlanOf <- MCPlanOf
    DefaultPlan = "default"
    None = None
    Times = {1, 3}
    Baseline = 2
    TimeoutTime = 4
    Outputs <- MCOutputs
    Bundles <- MCBundles
    ActionType <- MCActions
    MaxDepth = 2
    LimitGlobalDepth = TRUE
    Iterations = 2
    Threshold = 2
    TokenBudget = 0
    \* LlmClient
    Endpoint = {e1, e2}
    Caller = {c1, c2}
    NoEndpoint = NoEndpoint
    Cooldown = 2
    FailedWait = 2
    CallTimeout = 2
    Prompt = FALSE
    MaxRetries = 2
    MaxFailures = 4
    \* RemoteCache
    Measurer = {"w1", "w2"}
    HintSet = {"h0", "h1", "h2"}
    DefaultHints = "h0"
    CachePlan <- MCCachePlan
    PlanTime <- MCPlanTime
    NoPlan = "none"
    CacheTimeout = 5
    Capped = {"w1"}
    Amplifier = 1
    MaxMeasurements = 2
    MaxCacheFaults = 2
    \* DbAccess
    Database = {"d1", "d2"}
    HomeDatabase = "d1"
    MaxCalls = 3
    MaxLinkFaults = 3
    \* RagStore
    Searcher = {"s1", "s2"}
    Config = {"c1", "c2", "c3"}
    QueryOf <- MCQueryOf
    RuntimeOf <- MCRuntimeOf
    BaselineTimeOf <- MCBaselineTimeOf
    SchematicType = {"sql"}
    Similarity <- MCSimilarity
    MinSimilarity = 2
    TopK = 1
    PerTypeK = 1
    MaxPerQuery = 1
    MaxSearches = 3
    MaxDeaths = 1
    \* Decision
    Sample <- MCSample
    CandidatePlan = {"A", "B", "C"}
    DefaultPlans = {"A", "B"}
    PlanTimes = {2, 4}
    Never = 1000
    Ratio = 20
    MinQueryTime = 3
    MaxCandidates = 2
    \* Workload
    Log <- MCLog
    TimeLimit = 2
    MaxAttempts = 3
    WorkloadSet = {{}, {"d1"}, {"d2", "d4"}}
    \* Posterior
    TreeSize = 2
    ParentOf <- MCParentOf
    EntryBaseline = 2
    AnalyzedPlan = {"p1"}
    JudgeWorkers = 2
    MaxPasses = 3
    MaxPosteriorDeaths = 2
    \* BatchRunner
    Instance = {"i1", "i2"}
    BenchQuery = {"b1", "b2", "b3"}
    InstanceOf <- MCInstanceOf
    BenchWorker = {"v1", "v2", "v3"}
    WorksFor <- MCWorksFor
    LastRoundOf <- MCLastRoundOf
    MaxProcessDeaths = 1
INVARIANT ServicesTypeOK TrailGivesHints OneTimePerPlan  ResultComplete RoundsAreFailures CacheTruthful EntriesAccounted StatementAccounted StatementInContext RowsResolveRight RulesSafe StoredAsAsked SamplesAccounted BatchAccounted
PROPERTY WriteOnce
CHECK_DEADLOCK FALSE
