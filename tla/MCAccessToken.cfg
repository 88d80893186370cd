SPECIFICATION FairSpec
CONSTANTS
    a = a
    b = b
    Callers <- MCCallers
    Kinds <- MCKinds
    Attempts = 2
    MinInterval = 2
    Early = 1
    AuthTimeout = 1
    Lifetime = 3
    MaxCalls = 1
    MaxNow = 6
INVARIANTS TypeOK RefreshedOnce RetryUsesNewToken
PROPERTIES EveryCallEnds
CHECK_DEADLOCK FALSE
