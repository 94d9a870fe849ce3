SPECIFICATION FairSpec
CONSTANTS
    Templates = {t1}
    Plans = {p1}
    NoTemplate = NoTemplate
    Jobs = {j1, j2}
    Lookback = 30
    MaxTime = 3
    MaxFaults = 1
INVARIANT TypeOK FinalizedIsTrue PeriodsInOrder SuccessCovers
PROPERTY BecomesUpToDate
CHECK_DEADLOCK FALSE
