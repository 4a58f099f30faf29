---------------------------- MODULE MCServerLoop ----------------------------
(* Small instances of ServerLoop for TLC. *)
EXTENDS ServerLoop
=============================================================================
