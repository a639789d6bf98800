CONSTANTS
    Pairs = {p1}
    All = all
    Tf = 2
    Day = 4
    Hedge = TRUE
    Protections <- MCProtections
    Asked <- MCAsked
    Outcomes <- MCOutcomes
    MaxTime = 4
    MaxTrades = 2
    MaxLocks = 1
    MaxReleased = 1
SPECIFICATION Spec
INVARIANTS
    QueriesAgree
PROPERTIES
    NoReentryOnOldSignal
    ProtectionsHold
    OtherLegFree
CHECK_DEADLOCK FALSE
