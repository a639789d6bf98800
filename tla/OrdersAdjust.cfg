CONSTANTS
    MaxOrders = 5
    EntrySize = 2
    AddSize = 1
    MaxTimeouts = 1
    AdjustPrice = FALSE
    PosAdjust = TRUE
    Trims = TRUE
    Ioc = FALSE
    Reload = FALSE
SPECIFICATION Spec
INVARIANTS
    TypeOK
    NoAbandonedOrder
    GoneIsFlat
    LedgerExact
