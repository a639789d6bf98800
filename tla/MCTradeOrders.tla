--------------------------- MODULE MCTradeOrders ---------------------------
(* TradeOrders for TLC; the constants are all numbers and switches.         *)
EXTENDS TradeOrders
=============================================================================
