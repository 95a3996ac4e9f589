CONSTANTS
    a = a
    b = b
    d = d
    Conn = {a, b, d}
    Flow = {a, b, d}
    Tuple <- MCTuple
    Link <- MCLink
    Ends <- MCEnds
    Path <- MCPath
    MaxPkts = 2
SPECIFICATION Spec
INVARIANTS RecordedIsPrefix PathKnown CountersBalance
CHECK_DEADLOCK FALSE
