------------------------------- MODULE MCExits -------------------------------
(* Instances of Exits for TLC. *)
EXTENDS Exits, TLC

Plain == [stoploss |-> 2, leverage |-> 1, custom |-> {}, afterFill |-> FALSE,
          trailing |-> FALSE, positive |-> 0, offset |-> 0, onlyOffset |-> FALSE,
          roi |-> (0 :> 2 @@ 2 :> 1)]

\* A fixed stop, trailing stops without and with a positive stop and its offset, leverage,
\* and custom stops with and without the adjustment after a fill.
MCStrategies ==
    {Plain,
     [Plain EXCEPT !.trailing = TRUE, !.roi = (2 :> -1)],
     [Plain EXCEPT !.trailing = TRUE, !.positive = 1, !.offset = 2, !.onlyOffset = TRUE],
     [Plain EXCEPT !.leverage = 2, !.trailing = TRUE, !.stoploss = 4, !.positive = 2, !.offset = 3, !.roi = (1 :> 2)],
     [Plain EXCEPT !.custom = {1, 3}],
     [Plain EXCEPT !.custom = {3}, !.afterFill = TRUE, !.trailing = TRUE]}
==============================================================================
