------------------------------ MODULE MCBacktest ------------------------------
(* Instances of Backtest for TLC. *)
EXTENDS Backtest

Config(mode, pairs, max) == [mode |-> mode, pairs |-> pairs, maxOpen |-> max]

\* A spot and a futures backtest whose pairs compete for a slot, and a pair with both
\* legs.
MCConfigs ==
    {Config("spot", <<"a", "b">>, 1), Config("one_way", <<"a", "b">>, 1),
     Config("hedge", <<"a">>, 2)}
==============================================================================
