-------------------------- MODULE MCRevisionStore --------------------------
(* Small instances of RevisionStore for TLC. *)
EXTENDS RevisionStoreRefinement, TLC

CONSTANTS a, u

MCContents == {Empty, u, a}
TokenOps == {"read", "conditional_write"}
MixedOps == TokenOps \cup {"rename_away"}
WorkerSymmetry == Permutations(Workers)
=============================================================================
