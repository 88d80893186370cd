SPECIFICATION FairSpec
CONSTANTS
    Threads = {t1, t2}
    NoThread = none
    Needs <- MCNeeds
    Usages <- MCUsages
    Tpms <- MCTpms
    BufferNum = 3
    BufferDen = 4
    MaxMinute = 2
    MaxRequests = 3
INVARIANTS
    TypeOK
    MinuteBudget
    RaisesOnlyWhenLowered
PROPERTIES
    OneReset
    EveryDeclineEnds
CHECK_DEADLOCK FALSE
