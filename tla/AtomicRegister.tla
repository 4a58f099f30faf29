--------------------------- MODULE AtomicRegister ---------------------------
(***************************************************************************)
(* What the server's revision layer promises its callers about one path:   *)
(* a register whose state is compared and replaced in one step.  Callers   *)
(* of other operations may change it too.  Module RevisionStoreRefinement  *)
(* shows that RevisionStore implements it as long as nothing outside the   *)
(* server changes the path and its system calls succeed.                   *)
(***************************************************************************)
CONSTANTS
  Callers,     \* those who may have a call in progress
  NoCall,      \* the call of a caller that has none
  NoReply

VARIABLES
  state,       \* the revision of the path
  calling,     \* per caller: the call in progress, [op, exp, bytes]
  replaced,    \* callers whose conditional write has replaced the state
  reply        \* the reply sent by the last step, [to, kind, rev], or NoReply

rvars == <<state, calling, replaced, reply>>

InProgress(w, op) == calling[w] # NoCall /\ calling[w].op = op
Changer(w) == calling[w] # NoCall /\ calling[w].op \notin {"read", "conditional_write"}

Conflicts == {"changed", "appeared", "deleted", "type_changed"}
Failures == {"io", "unsupported_file_type", "unsupported_encoding", "unstable_read"}

Reply(w, kinds) ==
  /\ reply' # NoReply /\ reply'.to = w /\ reply'.kind \in kinds
  /\ calling' = [calling EXCEPT ![w] = NoCall]
  /\ replaced' = replaced \ {w}

Begin(w) ==
  /\ calling[w] = NoCall /\ calling'[w] # NoCall
  /\ calling' = [calling EXCEPT ![w] = calling'[w]]
  /\ reply' = NoReply
  /\ UNCHANGED <<state, replaced>>

\* Compare and replace.
Replace(w) ==
  /\ InProgress(w, "conditional_write") /\ w \notin replaced
  /\ state = calling[w].exp
  /\ state'.bytes = calling[w].bytes
  /\ replaced' = replaced \cup {w}
  /\ reply' = NoReply
  /\ UNCHANGED calling

\* The reply to a save that happened names the state it made.
Confirm(w) ==
  /\ w \in replaced
  /\ Reply(w, {"ok"})
  /\ reply'.rev = state /\ state.bytes = calling[w].bytes
  /\ UNCHANGED state

\* A conflict is real, and its reply carries the revision that is in the way.
Refuse(w) ==
  /\ InProgress(w, "conditional_write") /\ w \notin replaced
  /\ state # calling[w].exp
  /\ Reply(w, Conflicts)
  /\ reply'.kind \in {"changed", "appeared"} => reply'.rev = state
  /\ UNCHANGED state

\* A call that fails has changed nothing, and a save whose token is current
\* fails only if it cannot save such bytes.
Fail(w) ==
  /\ w \notin replaced /\ Reply(w, Failures)
  /\ InProgress(w, "conditional_write") /\ state = calling[w].exp
       => reply'.kind = "unsupported_encoding"
  /\ UNCHANGED state

Read(w) ==
  /\ InProgress(w, "read") /\ Reply(w, {"ok"})
  /\ UNCHANGED state

\* The other operations may take several steps.
Change(w) ==
  /\ Changer(w)
  /\ \/ reply' = NoReply /\ UNCHANGED <<calling, replaced>>
     \/ Reply(w, {"done"})

\* The reply has been seen.
Seen == reply' = NoReply /\ UNCHANGED <<state, calling, replaced>>

RInit == (\A w \in Callers : calling[w] = NoCall) /\ replaced = {} /\ reply = NoReply

RNext ==
  \/ Seen
  \/ \E w \in Callers :
       \/ Begin(w) \/ Replace(w) \/ Confirm(w) \/ Refuse(w) \/ Fail(w) \/ Read(w) \/ Change(w)

RSpec == RInit /\ [][RNext]_rvars
=============================================================================
