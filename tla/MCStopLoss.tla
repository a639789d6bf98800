----------------------------- MODULE MCStopLoss -----------------------------
(* Instances of StopLoss for TLC. *)
EXTENDS StopLoss
=============================================================================
