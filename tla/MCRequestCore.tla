--------------------------- MODULE MCRequestCore ---------------------------
(* Small instances of RequestCore for TLC. *)
EXTENDS RequestCore
=============================================================================
