SPECIFICATION FairSpec
CONSTANTS
    Callers = {c1, c2}
    Query <- MCQuery
    Amounts <- MCAmounts
    Limits <- MCSmallLimits
    MaxNow = 4
    MaxTasks = 4
INVARIANTS
    TypeOK
    RateBound
    NoTaskAfterStop
PROPERTIES
    ImplementsTokenBucket
    EveryTaskIsPaid
CHECK_DEADLOCK FALSE
