SPECIFICATION FairSpec
CONSTANTS
    Callers = {c1, c2}
    Query <- MCQuery
    Amounts <- MCAmounts
    Limits <- MCLimits
    MaxNow = 2
    MaxTasks = 2
PROPERTIES
    EveryAcquireReturns
CHECK_DEADLOCK FALSE
