SPECIFICATION Spec
CONSTANTS
    t1 = t1
    t2 = t2
    p1 = p1
    p2 = p2
    Threads <- MCThreads
    Processes <- MCProcesses
    Placements <- MCPlacements
    Setups <- MCSetups
    Reported <- MCReported
    Minute = 6
    None = None
    MaxUses = 2
    MaxFaults = 1
    MaxNow = 1
SYMMETRY MCSymmetry
INVARIANTS
    TypeOK
    WindowBound
    StrictestInForce
    NothingRaisedOnceSet
CHECK_DEADLOCK FALSE
