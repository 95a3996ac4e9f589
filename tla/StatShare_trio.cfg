SPECIFICATION Spec
CONSTANTS
    h1 = h1  h2 = h2
    e1 = e1  e2 = e2  c1 = c1  c2 = c2
    f1 = f1  f2 = f2  f3 = f3
    Host <- MCHost
    Link <- MCLink
    Flow <- TrioFlow
    Src <- TrioSrc
    Edge <- TrioEdge
    Core <- TrioCore
    Resp <- MCResp
    Capacity <- MCCapacity
    MaxWnd = 20
    InitWnd = 1
    MaxInFlight = 1
    Lossy = FALSE
SYMMETRY TrioSymmetry
INVARIANTS
    CounterExact
    NoRequestIgnored
    EndedIsSilent
    NoStarvation
PROPERTIES
    ImplementsSubscription
