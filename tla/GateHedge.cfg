CONSTANTS
    Pairs = {p1}
    TradeIds = {t1, t2, t3, t4}
    Rpc = {r1}
    Worker = Worker
    NoTrade = NoTrade
    MaxOpenTrades = 2
    HedgeMode = TRUE
    PosAdjust = TRUE
SPECIFICATION Spec
SYMMETRY Symmetry
INVARIANTS
    SlotBound
    LegBound
