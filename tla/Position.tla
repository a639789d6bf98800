------------------------------ MODULE Position ------------------------------
(***************************************************************************)
(* What a trade promises whoever asks for it, however its orders are cut,  *)
(* repeated, cancelled or refused: it never buys more than it was asked    *)
(* for and never sells more than it bought.                                *)
(***************************************************************************)
EXTENDS Integers

VARIABLES
    asked,  \* the amount asked for since the position was opened
    bought, \* the amount its entries bought
    sold    \* the amount its exits sold

vars == <<asked, bought, sold>>

Init == asked = 0 /\ bought = 0 /\ sold = 0

\* More is asked for, bought or sold, in one step when an order is cancelled for
\* another one.
Trade ==
    /\ asked' \in Nat /\ asked' >= asked
    /\ bought' \in bought..asked'
    /\ sold' \in sold..bought'

\* The position is gone, and another one may start.
End == bought = sold /\ asked' \in Nat /\ bought' = 0 /\ sold' = 0

Next == Trade \/ End

Spec == Init /\ [][Next]_vars
=============================================================================
