SPECIFICATION Spec
CONSTANTS
    Shares <- MCShares
    MaxWnd = 20
    InitWnd = 1
    NumDupAcks = 3
    MaxData = 5
    MaxNet = 4
    MaxLosses = 1
PROPERTIES
    NoNewDataAfterEnd
