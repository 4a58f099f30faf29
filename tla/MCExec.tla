------------------------------- MODULE MCExec -------------------------------
(* Small instances of Exec for TLC. *)
EXTENDS Exec
=============================================================================
