---------------------------- MODULE MCPairLocks ----------------------------
(* Instances of PairLocks for TLC. *)
EXTENDS PairLocks

Guard(perSide) ==
    [method |-> "StoplossGuard", limit |-> 2, lookback |-> 3, stop |-> 3, unlockAt |-> -1,
     perSide |-> perSide, perPair |-> FALSE]
UntilHour ==
    [method |-> "CooldownPeriod", limit |-> 0, lookback |-> 2, stop |-> 0, unlockAt |-> 1,
     perSide |-> FALSE, perPair |-> FALSE]
Losses ==
    [method |-> "LowProfitPairs", limit |-> 1, lookback |-> 2, stop |-> 2, unlockAt |-> -1,
     perSide |-> FALSE, perPair |-> FALSE]
Deep ==
    [method |-> "MaxDrawdown", limit |-> 1, lookback |-> 4, stop |-> 2, unlockAt |-> -1,
     perSide |-> FALSE, perPair |-> FALSE]

MCProtections == <<UntilHour, Guard(TRUE), Losses, Deep>>
MCOutcomes ==
    {[profit |-> -1, stop |-> TRUE, by |-> "worker"],
     [profit |-> 1, stop |-> TRUE, by |-> "nobody"]}
MCAsked ==
    {[pair |-> All, side |-> "*", reason |-> <<"user", 0>>],
     [pair |-> CHOOSE p \in Pairs : TRUE, side |-> "*", reason |-> <<"user", 0>>]}
=============================================================================
