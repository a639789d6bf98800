----------------------------- MODULE MCIceberg -----------------------------
(* Instances of Iceberg for TLC. *)
EXTENDS Iceberg
=============================================================================
