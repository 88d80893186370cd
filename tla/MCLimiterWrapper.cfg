SPECIFICATION FairSpec
CONSTANTS
    Threads = {t1, t2}
    Coroutines = {c1}
    Limiters = {v1, v2}
    Keys = {k1}
    None = None
    Setups <- MCSetups
    Uses <- MCUses
    k1 = k1
    v1 = v1
    v2 = v2
    Reported <- MCReported
    MaxCalls = 1
INVARIANTS
    TypeOK
    OneWrapperPerKey
    NoMissingLimiter
    LimitInForce
PROPERTIES
    EveryCallReturns
CHECK_DEADLOCK FALSE
