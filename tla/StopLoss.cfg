CONSTANTS
    MaxOrders = 3
    Size = 2
    AddSize = 1
    MaxStop = 2
    MaxFaults = 1
SPECIFICATION FairSpec
INVARIANTS
    StopsAccounted
    Covers
    ClosedIsFlat
PROPERTIES
    StopIsNoticed
    Protected
