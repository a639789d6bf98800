CONSTANTS
    MaxOrders = 4
    EntrySize = 2
    AddSize = 1
    MaxTimeouts = 1
    AdjustPrice = TRUE
    PosAdjust = TRUE
    Trims = TRUE
    Ioc = TRUE
    Reload = TRUE
SPECIFICATION FairSpec
INVARIANT
    OneLiveOrder
PROPERTY
    EndedIsSettled
