SPECIFICATION FairSpec
CONSTANTS
    Shares <- MCShares
    MaxWnd = 20
    InitWnd = 1
    NumDupAcks = 3
    MaxData = 6
    MaxNet = 4
    MaxLosses = 2
INVARIANTS
    AckedIsReceived
    TimerCovers
PROPERTIES
    WithinWindow
    Progress
