---------------------------- MODULE MCConnection ----------------------------
(* A small instance of Connection for TLC. *)
EXTENDS Connection

Watches == [async |-> 0, blocking |-> 2, nested |-> 1]
Deaths == [async |-> 3, blocking |-> 1, nested |-> 1]
=============================================================================
