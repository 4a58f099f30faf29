----------------------- MODULE RevisionStoreRefinement -----------------------
(* RevisionStore implements AtomicRegister. *)
EXTENDS RevisionStore

\* A file that hard_link has published gets its final revision, and can be
\* read, when remove_file has dropped its other name: until then the register
\* has nothing at the path.
RegisterState == IF \E w \in Workers : pc[w] = "unlink" THEN Missing ELSE Current

\* Workers that have published and not yet replied.
HasReplaced == {w \in Workers : ret[w] = "verify"}

NotCalling == [NoCall EXCEPT !.op = "none"]
RegisterCall == [w \in Workers |-> IF pc[w] = "idle" THEN NotCalling ELSE call[w]]

Register == INSTANCE AtomicRegister WITH
  Callers <- Workers, NoCall <- NotCalling,
  state <- RegisterState, calling <- RegisterCall, replaced <- HasReplaced, reply <- sent

\* The revision layer is an atomic compare-and-swap register, although it
\* checks twice, writes a temporary file, renames or links, unlinks and reads
\* back in separate system calls, next to reads and legacy mutations: a save
\* replaces the revision it expects in one step, its success is reported with
\* the revision that is then current, every reported conflict is real, and a
\* call that fails has changed nothing.
ImplementsRegister == Register!RSpec
=============================================================================
