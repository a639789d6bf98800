CONSTANTS
    Strategies <- MCStrategies
    Low = 1
    High = 4
    Timeframe = 2
    MaxDur = 2
    MaxFills = 2
    NoPrice = NoPrice
SPECIFICATION Spec
INVARIANTS
    LowFirst
    InRow
PROPERTY
    Ratchet
