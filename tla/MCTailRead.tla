----------------------------- MODULE MCTailRead -----------------------------
(* Small instances of TailRead for TLC. *)
EXTENDS TailRead
=============================================================================
