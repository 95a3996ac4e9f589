SPECIFICATION FairSpec
CONSTANTS
    Packet = {p1, p2, p3}
    TxTimes <- MCTxTimes
    Delays <- MCDelays
    Limits <- MCLimits
    AvoidReordering = TRUE
INVARIANTS Busy WireInOrder IdleAccepts
PROPERTIES ImplementsLossyFifo Drains
