CONSTANTS
    Pairs = {p1}
    TradeIds = {t1, t2}
    Rpc = {r1}
    Worker = Worker
    NoTrade = NoTrade
    MaxOpenTrades = 2
    HedgeMode = TRUE
    PosAdjust = FALSE
SPECIFICATION Spec
INVARIANT NeverTwoOnLeg
