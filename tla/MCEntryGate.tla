---------------------------- MODULE MCEntryGate ----------------------------
(* EntryGate for TLC: trade rows and request threads are interchangeable.   *)
EXTENDS EntryGate, TLC

Symmetry == Permutations(TradeIds) \cup Permutations(Rpc) \cup Permutations(Pairs)
=============================================================================
