SPECIFICATION FairSpec
CONSTANTS
    s = s  a = a  z = z  t = t  q = q  x = x  y = y  u = u
    None = None
    Node <- MCNode
    Nbr <- MCNbr
    Dest <- MCDest
    INFINITY = 4
    Dynamic <- MCDynamic
    MaxInFlight = 1
    MaxChanges = 3
INVARIANTS
    NeverTooShort
    NoLoops
    SlotsAreNextHops
    HashFindsSlot
PROPERTIES
    Converges
