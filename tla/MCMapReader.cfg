SPECIFICATION FairSpec
CONSTANTS
    Workers = {w1, w2}
    Total = 3
    Sizes = {1, 2}
    Orders = {TRUE, FALSE}
    Results = {"rows", "nothing", "raise"}
    None = None
INVARIANTS
    TypeOK
    DealtOnce
    OnlyLateBatchesMissed
PROPERTIES
    ReadingEnds
CHECK_DEADLOCK FALSE
