SPECIFICATION Spec
CONSTANTS
    Workers = {w1, w2}
    Total = 2
    Sizes = {2}
    Orders = {TRUE}
    Results = {"rows"}
    None = None
INVARIANT WholeTableGiven
CHECK_DEADLOCK FALSE
