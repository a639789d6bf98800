CONSTANTS
    Pairs = {p1, p2}
    TradeIds = {t1, t2}
    Rpc = {r1}
    Worker = Worker
    NoTrade = NoTrade
    MaxOpenTrades = 1
    HedgeMode = FALSE
    PosAdjust = FALSE
SPECIFICATION FairSpec
PROPERTIES
    WhitelistOnly
    IterationEnds
    RequestAnswered
