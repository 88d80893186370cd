SPECIFICATION StreamFairSpec
CONSTANTS
    Streams = {s1, s2}
    Modes <- MCModes
    Length = 2
    PoolSize = 1
INVARIANTS
    StreamTypeOK
    NothingReorderedOrLost
    DrainedWhenFinished
PROPERTIES
    ClosedStreamEnds
CHECK_DEADLOCK FALSE
