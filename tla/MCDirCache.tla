----------------------------- MODULE MCDirCache -----------------------------
(* Small instances of DirCache for TLC. *)
EXTENDS DirCache
=============================================================================
