CONSTANTS
    MaxOrders = 3
    MaxTrades = 2
    MaxTime = 1
    MaxLost = 1
    Window = 1
SPECIFICATION FairSpec
INVARIANTS
    NoStrangers
    OrphansCounted
PROPERTIES
    OwnershipImmutable
    BookedInTheEnd
CHECK_DEADLOCK FALSE
