----------------------------- MODULE AsyncSave -----------------------------
(***************************************************************************)
(* The asynchronous save of one visited buffer (lisp/relay-save.el with    *)
(* the conflict state of lisp/relay-conflict.el) against a server that     *)
(* compares and swaps revisions (module RevisionStore).                    *)
(*                                                                         *)
(* Emacs runs one command or one callback at a time, so each is one        *)
(* action; between them the user edits, other programs change the remote   *)
(* file, requests time out, and a write the client gave up on may still be *)
(* carried out.  Two remote paths matter: the visited one and the target   *)
(* of "save as".                                                           *)
(***************************************************************************)
EXTENDS Integers

CONSTANTS
  Contents,      \* byte strings
  Empty,         \* the empty one
  Nil,           \* Lisp's nil where bytes or a revision could be
  Choices,       \* conflict resolutions the user picks from
  MaxEdits,      \* bound: edits of the buffer
  MaxSaves,      \* bound: C-x C-s, conflict choices and applied merges
  MaxExternal,   \* bound: changes made by others to the remote files
  MaxFaults      \* bound: lost replies, timeouts and server errors

ASSUME SaveAssumption ==
  /\ Empty \in Contents
  /\ Nil \notin Contents
  /\ Choices \subseteq {"keep-local", "keep-remote", "restore-base", "save-as", "merge"}
  /\ MaxEdits \in Nat /\ MaxSaves \in Nat /\ MaxExternal \in Nat /\ MaxFaults \in Nat

Paths == {"file", "other"}

\* A version of a remote path; rev stands for the whole revision token.
Missing == [rev |-> 0, bytes |-> Empty]
Special == [rev |-> -1, bytes |-> Empty]    \* a directory, a symlink, ...
NilVersion == [rev |-> Nil, bytes |-> Nil]

\* relay-conflict--state; `status' is "retry" after a read that proved the
\* write did not happen, "open" for every other snapshot.
NoState == [status |-> "nil", reason |-> "none", base |-> NilVersion,
            local |-> Nil, remote |-> NilVersion]

\* A captured operation: what it writes, over which revision, the conflict
\* snapshot it resolves, and the callback that waits for its request.
NoOp == [kind |-> "none", bytes |-> Nil, base |-> NilVersion, exp |-> Nil,
         snap |-> NoState, stage |-> "none", reason |-> "none"]

\* The request an operation waits for, with its reply once there is one.
Pending == [result |-> "none", rev |-> Nil, bytes |-> Nil]
Failed(why) == [Pending EXCEPT !.result = why]
Idle == [op |-> "none", path |-> "file", bytes |-> Nil, exp |-> Nil, reply |-> Pending]

VARIABLES
  remote,      \* the server's two files
  nextRev,     \* a revision never used
  rpc,         \* the active operation's request
  late,        \* writes the client gave up on that the server may still do
  buf,         \* bytes of the buffer
  modified,    \* buffer-modified-p
  base,        \* relay-conflict--base
  cstate,      \* relay-conflict--state
  active,      \* relay-save--active
  queued,      \* relay-save--queued
  status,      \* relay-save--status
  merging,     \* the snapshot of an open Ediff merge, or NoState
  recovery,    \* bytes kept in recovery buffers
  edits, saves, ext, faults,
  \* History:
  past,        \* per path: the versions it has had
  asked        \* bytes of the last save the user asked for

server == <<remote, nextRev, past>>
counters == <<edits, saves, ext, faults>>
vars == <<server, rpc, late, buf, modified, base, cstate, active, queued, status,
          merging, recovery, counters, asked>>

-----------------------------------------------------------------------------
(* The server, as the client relies on it *)

Put(p, v) ==
  /\ remote' = [remote EXCEPT ![p] = v]
  /\ past' = [past EXCEPT ![p] = @ \cup {v}]

\* conditional_write publishes under a revision nobody has seen.
Publish(p, b) ==
  /\ Put(p, [rev |-> nextRev, bytes |-> b])
  /\ nextRev' = nextRev + 1

\* The conflict kind of a write that is refused (relay-conflict--reply-reason
\* files unsupported files under "type_changed").
ConflictKind(p, exp) ==
  IF remote[p] = Special THEN "type_changed"
  ELSE IF remote[p] = Missing THEN "deleted"
  ELSE IF exp = Missing.rev THEN "appeared" ELSE "changed"

Reply(r) == rpc' = [rpc EXCEPT !.reply = r]
Waiting == rpc.op # "none" /\ rpc.reply = Pending
Client == <<buf, modified, base, cstate, active, queued, status, merging, recovery, asked>>

ServeRead ==
  /\ Waiting /\ rpc.op = "read"
  /\ LET v == remote[rpc.path] IN
       Reply(IF v.rev > 0 THEN [result |-> "ok", rev |-> v.rev, bytes |-> v.bytes]
             ELSE Failed("error"))
  /\ UNCHANGED <<server, late, Client, counters>>

ServeWrite ==
  /\ Waiting /\ rpc.op = "write"
  /\ IF remote[rpc.path].rev = rpc.exp
     THEN /\ Publish(rpc.path, rpc.bytes)
          /\ Reply([result |-> "ok", rev |-> nextRev, bytes |-> Nil])
     ELSE /\ Reply(Failed(ConflictKind(rpc.path, rpc.exp)))
          /\ UNCHANGED server
  /\ UNCHANGED <<late, Client, counters>>

\* Any other error, before or after the file was published.
ServerError ==
  /\ Waiting /\ faults < MaxFaults
  /\ faults' = faults + 1
  /\ Reply(Failed("error"))
  /\ \/ rpc.op = "write" /\ remote[rpc.path].rev = rpc.exp /\ Publish(rpc.path, rpc.bytes)
     \/ UNCHANGED server
  /\ UNCHANGED <<late, Client, edits, saves, ext>>

\* The connection dies or relay-request-timeout passes: the callback gets a
\* :transport failure, and nobody knows whether the server saw the write.  Or
\* the callback is never called: relay-connect-async has put it on the list of
\* a blocking connect, which tells no waiter, or the queue that held it was
\* full or lost the rest of its batch to an error.
LoseReply ==
  \E why \in {"transport", "lost"} :
    /\ rpc.op # "none" /\ rpc.reply.result \notin {why, "lost"} /\ faults < MaxFaults
    /\ faults' = faults + 1
    /\ Reply(Failed(why))
    /\ \/ late' = late \cup {[path |-> rpc.path, bytes |-> rpc.bytes, exp |-> rpc.exp]}
          /\ rpc.op = "write" /\ rpc.reply = Pending
       \/ UNCHANGED late
    /\ UNCHANGED <<server, Client, edits, saves, ext>>

\* The server gets to a write after the client stopped waiting for it.
LateWrite ==
  \E r \in late :
    /\ late' = late \ {r}
    /\ IF remote[r.path].rev = r.exp THEN Publish(r.path, r.bytes) ELSE UNCHANGED server
    /\ UNCHANGED <<rpc, Client, counters>>

External ==
  /\ ext < MaxExternal
  /\ ext' = ext + 1
  /\ \E p \in Paths :
       \/ \E b \in Contents : Publish(p, b)
       \/ \E v \in {Missing, Special} \ {remote[p]} : Put(p, v) /\ UNCHANGED nextRev
  /\ UNCHANGED <<rpc, late, Client, edits, saves, faults>>

-----------------------------------------------------------------------------
(* Requests and the ends of an operation *)

Target(op) == IF op.kind = "save-as" THEN "other" ELSE "file"

\* relay-conflict--rpc-async.  Bytes that are nil cannot be encoded: the
\* callback gets the error as a transport failure.
SendWrite(op, exp) ==
  rpc' = [op |-> "write", path |-> Target(op), bytes |-> op.bytes, exp |-> exp,
          reply |-> IF op.bytes = Nil THEN Failed("transport") ELSE Pending]

\* Mutant: the read is never sent.
SendNothing(op) == rpc' = Idle

SendRead(op) == rpc' = [Idle EXCEPT !.op = "read", !.path = Target(op)]

\* relay-save--dispatch
Dispatch(op) ==
  /\ active' = [op EXCEPT !.stage = "write"]
  /\ status' = "saving"
  /\ modified' = TRUE
  /\ SendWrite(op, op.exp)

\* The operation goes on with a fresh read of its target.
ReadNext(stage, reason) ==
  /\ active' = [active EXCEPT !.stage = stage, !.reason = reason]
  /\ SendRead(active)
  /\ UNCHANGED <<buf, modified, base, cstate, queued, status, merging, recovery, asked>>

Classify(b, l, r) ==
  IF l = r THEN "convergent" ELSE IF l = b THEN "remote-only"
  ELSE IF r = b THEN "local-only" ELSE "divergent"

\* relay-save--snapshot-conflict: a resolution keeps the BASE and LOCAL of the
\* snapshot it was resolving.
ConflictState(op, reason, v) ==
  [status |-> "open", reason |-> reason, remote |-> v,
   base |-> IF op.snap.base = NilVersion THEN op.base ELSE op.snap.base,
   local |-> IF op.snap.local = Nil THEN op.bytes ELSE op.snap.local]

Done == active' = NoOp /\ queued' = NoOp /\ rpc' = Idle

\* relay-save--finish-nonsuccess; cs is the conflict state it leaves.
FinishNonsuccess(st, cs) ==
  /\ Done
  /\ cstate' = cs
  /\ modified' = TRUE
  /\ status' = st
  /\ UNCHANGED <<buf, base, merging, recovery, asked>>

\* Mutant: the buffer is marked unmodified without a look at its bytes.
AlwaysClean(op) == FALSE

\* The live buffer no longer holds what was saved.
NewerEdits(op) == buf # op.bytes

\* Mutant: a queued save keeps the revision it was captured with.
KeepExpected(op, v) == op

\* Mutant: a queued save gets the new token but keeps its old BASE.
TokenOnly(op, v) == [op EXCEPT !.exp = v.rev]

\* A queued save builds on the save that was just confirmed.
Rebase(op, v) == [op EXCEPT !.base = v, !.exp = v.rev]

\* relay-save--finish-success for an ordinary save or a resolution.
FinishSuccess(op, rev) ==
  LET v == [rev |-> rev, bytes |-> op.bytes]
      restored == op.kind = "restore-base" /\ buf = op.snap.local
  IN
  \/ /\ op.kind = "save-as"
     /\ Done
     /\ modified' = TRUE
     /\ status' = "conflict"
     /\ UNCHANGED <<buf, base, cstate, merging, recovery, asked>>
  \/ /\ restored
     /\ Done
     /\ buf' = op.bytes /\ modified' = FALSE /\ status' = "saved"
     /\ base' = v /\ cstate' = NoState
     /\ UNCHANGED <<merging, recovery, asked>>
  \/ /\ op.kind # "save-as" /\ ~restored
     /\ base' = v /\ cstate' = NoState
     /\ IF queued = NoOp
        THEN /\ Done
             /\ modified' = NewerEdits(op)
             /\ status' = IF NewerEdits(op) THEN "saved-newer" ELSE "saved"
        ELSE Dispatch(Rebase(queued, v)) /\ queued' = NoOp
     /\ UNCHANGED <<buf, merging, recovery, asked>>

\* The reply of the active operation's request in the given stage.
Callback(stage) ==
  /\ active.stage = stage /\ rpc.reply # Pending /\ rpc.reply.result # "lost"
  /\ UNCHANGED <<server, late, counters>>

Got == [rev |-> rpc.reply.rev, bytes |-> rpc.reply.bytes]
Ok == rpc.reply.result = "ok"
Refused == rpc.reply.result \in {"changed", "deleted", "appeared", "type_changed"}

WriteDone ==
  /\ Callback("write")
  /\ \/ Ok /\ FinishSuccess(active, rpc.reply.rev)
     \/ rpc.reply.result = "transport" /\ ReadNext("reconcile", "none")
     \/ Refused /\ ReadNext("conflict", rpc.reply.result)
     \/ rpc.reply.result = "error" /\ FinishNonsuccess("failed", cstate)

\* Mutant: any version but BASE is taken for the saved one.
NotBase(b, l, r) == IF b = r THEN "retry" ELSE "saved"

\* relay-conflict--reconcile-uncertain
ReconcileUncertain(b, l, r) ==
  IF l = r THEN "saved" ELSE IF b = r THEN "retry" ELSE "conflict"

RetryState(b, l, v) ==
  [status |-> "retry", reason |-> "none", base |-> b, local |-> l, remote |-> v]

\* relay-save--reconcile-transport: the write is never repeated.
ReconcileDone ==
  /\ Callback("reconcile")
  /\ LET outcome == ReconcileUncertain(active.base.bytes, active.bytes, Got.bytes) IN
     \/ ~Ok /\ FinishNonsuccess("unknown", cstate)
     \/ Ok /\ outcome = "saved" /\ FinishSuccess(active, Got.rev)
     \/ /\ Ok /\ outcome = "retry"
        /\ FinishNonsuccess("unknown", RetryState(active.base, active.bytes, Got))
     \/ /\ Ok /\ outcome = "conflict"
        /\ FinishNonsuccess("conflict", ConflictState(active, "changed", Got))

\* relay-save--handle-conflict: a file that was deleted counts as empty.
ConflictReadDone ==
  /\ Callback("conflict")
  /\ LET v == IF Ok THEN Got ELSE Missing
         cs == ConflictState(active, active.reason, v)
     IN
     \/ ~Ok /\ active.reason # "deleted" /\ FinishNonsuccess("failed", cstate)
     \/ /\ Ok \/ active.reason = "deleted"
        /\ IF Classify(cs.base.bytes, cs.local, v.bytes) = "convergent"
           THEN FinishSuccess(active, v.rev)
           ELSE FinishNonsuccess("conflict", cs)

\* relay-save--inspect-unknown's callback.
InspectDone ==
  /\ Callback("inspect")
  /\ LET outcome == ReconcileUncertain(active.base.bytes, active.bytes, Got.bytes) IN
     \/ ~Ok /\ FinishNonsuccess("unknown", cstate)
     \/ Ok /\ outcome = "saved" /\ FinishSuccess(active, Got.rev)
     \/ /\ Ok /\ outcome = "retry"
        /\ FinishNonsuccess("unknown", [cstate EXCEPT !.status = "retry", !.remote = Got])
     \/ /\ Ok /\ outcome = "conflict"
        /\ FinishNonsuccess("conflict", ConflictState(active, "changed", Got))

-----------------------------------------------------------------------------
(* Commands *)

\* What every command leaves alone.
Command == saves < MaxSaves /\ saves' = saves + 1
             /\ UNCHANGED <<server, late, edits, ext, faults>>

Capture(b, exp) == [NoOp EXCEPT !.kind = "save", !.bytes = buf, !.base = b, !.exp = exp]

\* relay-save--same-request-p: one file is visited, so the bytes decide.
SameRequest(op, other) == other # NoOp /\ other.bytes = op.bytes

\* Mutant: a request for the bytes in flight leaves an older one queued.
KeepQueue(op) == queued

\* What is queued once op has been asked for while another is in flight.
Coalesce(op) ==
  IF SameRequest(op, active) THEN NoOp
  ELSE IF SameRequest(op, queued) THEN queued ELSE op

QueueOrDispatch(op) ==
  /\ asked' = op.bytes
  /\ IF active = NoOp
     THEN Dispatch(op) /\ UNCHANGED queued
     ELSE queued' = Coalesce(op) /\ UNCHANGED <<active, status, modified, rpc>>
  /\ UNCHANGED <<buf, base, cstate, merging, recovery>>

\* relay-save-buffer-async where there is something to save.
SaveBuffer ==
  /\ Command
  /\ status \notin {"conflict", "unknown"}
  /\ active # NoOp \/ modified \/ status = "failed"
  /\ QueueOrDispatch(Capture(base, base.rev))

\* relay-save--retry-state-operation: edits void the revision the read proved.
RetrySave ==
  /\ Command
  /\ status = "unknown" /\ cstate.status = "retry"
  /\ QueueOrDispatch(Capture(cstate.base, IF buf = cstate.local THEN cstate.remote.rev
                                          ELSE cstate.base.rev))

\* relay-save--inspect-unknown
InspectUnknown ==
  /\ Command
  /\ status = "unknown" /\ cstate.status # "retry"
  /\ active' = [NoOp EXCEPT !.kind = "inspect", !.bytes = cstate.local,
                            !.base = cstate.base, !.stage = "inspect"]
  /\ status' = "saving"
  /\ SendRead(active')
  /\ UNCHANGED <<buf, modified, base, cstate, queued, merging, recovery, asked>>

\* The conflict menu, and relay-conflict--menu-state: what cannot be replaced
\* can only be saved elsewhere.
Choose(choice) ==
  /\ Command
  /\ choice \in Choices
  /\ status = "conflict"
  /\ choice # "save-as" => cstate.reason # "type_changed"

\* Mutant: a recovery buffer is opened whatever LOCAL is.
AnyLocal == TRUE

\* Opening a recovery buffer (or an Ediff buffer) for nil signals an error.
HasLocal == cstate.local # Nil

LocalRecovery == recovery \cup {cstate.local}

KeepRemote ==
  /\ Choose("keep-remote")
  /\ HasLocal
  /\ buf' = cstate.remote.bytes
  /\ base' = cstate.remote
  /\ cstate' = NoState
  /\ modified' = FALSE
  /\ status' = "saved"
  /\ recovery' = LocalRecovery
  /\ UNCHANGED <<active, queued, rpc, merging, asked>>

Resolution(choice) ==
  [NoOp EXCEPT !.kind = choice, !.base = cstate.base, !.snap = cstate,
     !.bytes = IF choice = "restore-base" THEN cstate.base.bytes ELSE cstate.local,
     !.exp = IF choice = "save-as" THEN Missing.rev ELSE cstate.remote.rev]

\* relay-save--resolution-operation and its dispatch.
Resolve ==
  \E choice \in {"keep-local", "restore-base", "save-as"} :
    /\ Choose(choice)
    /\ choice = "restore-base" => HasLocal
    /\ Dispatch(Resolution(choice))
    /\ recovery' = IF choice = "restore-base"
                   THEN LocalRecovery \cup {cstate.remote.bytes} ELSE recovery
    /\ UNCHANGED <<buf, base, cstate, queued, merging, asked>>

\* relay-conflict--start-ediff; one Ediff session at a time.
StartMerge ==
  /\ Choose("merge")
  /\ HasLocal /\ merging = NoState
  /\ merging' = cstate
  /\ UNCHANGED <<buf, modified, base, cstate, active, queued, status, recovery, asked, rpc>>

-----------------------------------------------------------------------------
(* Publishing a merge *)

\* relay-save--merge-refusal: the result goes to a recovery buffer and the
\* conflict is refreshed with the live buffer and, if it was read, the remote.
MergeRefusal(op, st, reason, v) ==
  /\ Done
  /\ cstate' = [status |-> "open", reason |-> reason, base |-> op.snap.base, local |-> buf,
                remote |-> IF v = NilVersion THEN op.snap.remote ELSE v]
  /\ recovery' = recovery \cup {op.bytes}
  /\ modified' = TRUE
  /\ status' = st
  /\ UNCHANGED <<buf, base, merging, asked>>

\* relay-save-apply-merge-async
ApplyMerge ==
  \E merged \in Contents :
    LET op == [NoOp EXCEPT !.kind = "merge", !.bytes = merged, !.base = merging.base,
                           !.snap = merging, !.stage = "verify"] IN
    /\ Command
    /\ merging # NoState /\ active = NoOp
    /\ IF buf # merging.local THEN MergeRefusal(op, "failed", "live_changed", NilVersion)
       ELSE /\ active' = op /\ status' = "saving" /\ modified' = TRUE
            /\ SendRead(op)
            /\ UNCHANGED <<buf, base, cstate, queued, merging, recovery, asked>>

\* Mutant: any remote version will do.
AnyRemote == TRUE

\* The remote is still the version the user merged with.
RemoteUnmoved == Got.rev = active.snap.remote.rev

\* relay-save--merge-verified: neither side may have moved.
MergeVerified ==
  /\ Callback("verify")
  /\ \/ buf # active.snap.local /\ MergeRefusal(active, "failed", "live_changed", NilVersion)
     \/ /\ buf = active.snap.local /\ ~Ok
        /\ MergeRefusal(active, "unknown", "transport", NilVersion)
     \/ /\ buf = active.snap.local /\ Ok /\ ~RemoteUnmoved
        /\ MergeRefusal(active, "conflict", "changed", Got)
     \/ /\ buf = active.snap.local /\ Ok /\ RemoteUnmoved
        /\ active' = [active EXCEPT !.stage = "publish"]
        /\ SendWrite(active, Got.rev)
        /\ UNCHANGED <<buf, modified, base, cstate, queued, status, merging, recovery, asked>>

\* relay-save--merge-success: newer edits in the live buffer stay.
MergeSuccess(rev) ==
  LET newer == buf # active.snap.local IN
  /\ Done
  /\ base' = [rev |-> rev, bytes |-> active.bytes]
  /\ cstate' = NoState
  /\ buf' = IF newer THEN buf ELSE active.bytes
  /\ modified' = newer
  /\ status' = IF newer THEN "saved-newer" ELSE "saved"
  /\ merging' = NoState
  /\ UNCHANGED <<recovery, asked>>

\* relay-save--merge-write-done
MergeWriteDone ==
  /\ Callback("publish")
  /\ \/ Ok /\ MergeSuccess(rpc.reply.rev)
     \/ rpc.reply.result = "transport" /\ ReadNext("merge-reconcile", "none")
     \/ Refused /\ ReadNext("merge-conflict", rpc.reply.result)
     \/ /\ rpc.reply.result = "error"
        /\ MergeRefusal(active, "failed", "server_error", NilVersion)

MergeReadDone ==
  LET v == IF Ok THEN Got ELSE NilVersion IN
  \/ /\ Callback("merge-reconcile")
     /\ IF v.bytes = active.bytes THEN MergeSuccess(v.rev)
        ELSE MergeRefusal(active, "unknown", "transport", v)
  \/ /\ Callback("merge-conflict")
     /\ MergeRefusal(active, "conflict", active.reason, v)

\* relay-conflict-abandon-merge
AbandonMerge ==
  /\ Command
  /\ merging # NoState
  /\ merging' = NoState
  /\ cstate' = IF cstate = NoState THEN merging ELSE cstate
  /\ UNCHANGED <<buf, modified, base, active, queued, status, recovery, asked, rpc>>

-----------------------------------------------------------------------------
Edit ==
  /\ edits < MaxEdits
  /\ edits' = edits + 1
  /\ \E b \in Contents \ {buf} : buf' = b
  /\ modified' = TRUE
  /\ UNCHANGED <<server, rpc, late, base, cstate, active, queued, status, merging,
                 recovery, saves, ext, faults, asked>>

\* relay-save--expire-success
ExpireSuccess ==
  /\ status = "saved"
  /\ status' = "none"
  /\ UNCHANGED <<server, rpc, late, buf, modified, base, cstate, active, queued,
                 merging, recovery, counters, asked>>

Callbacks ==
  \/ WriteDone \/ ReconcileDone \/ ConflictReadDone \/ InspectDone
  \/ MergeVerified \/ MergeWriteDone \/ MergeReadDone

User ==
  \/ Edit \/ SaveBuffer \/ RetrySave \/ InspectUnknown \/ KeepRemote \/ Resolve
  \/ StartMerge \/ ApplyMerge \/ AbandonMerge

Serve == ServeRead \/ ServeWrite

Next ==
  \/ User \/ Callbacks \/ ExpireSuccess
  \/ Serve \/ ServerError \/ LoseReply \/ LateWrite \/ External

\* relay-conflict--install-buffer after a successful visit.
Init ==
  \E b \in Contents :
    LET v == [rev |-> 1, bytes |-> b] IN
    /\ remote = [p \in Paths |-> IF p = "file" THEN v ELSE Missing]
    /\ past = [p \in Paths |-> {remote[p]}]
    /\ nextRev = 2
    /\ rpc = Idle /\ late = {}
    /\ buf = b /\ modified = FALSE /\ base = v
    /\ cstate = NoState /\ active = NoOp /\ queued = NoOp
    /\ status = "none" /\ merging = NoState
    /\ recovery = {}
    /\ edits = 0 /\ saves = 0 /\ ext = 0 /\ faults = 0
    /\ asked = b

Spec == Init /\ [][Next]_vars

\* Emacs runs the callbacks it has scheduled, and a request that has reached
\* the request layer is answered or fails by relay-request-timeout.  One whose
\* callback is lost owes nothing.
FairSpec == Spec /\ WF_vars(Serve) /\ WF_vars(Callbacks)

-----------------------------------------------------------------------------
(* Properties *)

Versions == [rev : 1 .. nextRev, bytes : Contents] \cup {Missing, Special}
MaybeBytes == Contents \cup {Nil}
States == [status : {"nil", "open", "retry"},
           reason : {"none", "changed", "deleted", "appeared", "type_changed",
                     "live_changed", "transport", "server_error"},
           base : Versions \cup {NilVersion}, local : MaybeBytes,
           remote : Versions \cup {NilVersion}]
Stages == {"none", "write", "reconcile", "conflict", "inspect", "verify", "publish",
           "merge-reconcile", "merge-conflict"}

OpOK(op) ==
  /\ op.kind \in {"none", "save", "inspect", "keep-local", "restore-base", "save-as", "merge"}
  /\ op.bytes \in MaybeBytes
  /\ op.base \in Versions \cup {NilVersion}
  /\ op.exp \in 0 .. nextRev \cup {Nil}
  /\ op.snap \in States
  /\ op.stage \in Stages

\* Type invariant of the buffer's save state; bytes in recovery buffers are
\* always real bytes.
TypeOK ==
  /\ remote \in [Paths -> Versions]
  /\ nextRev \in Nat
  /\ rpc.op \in {"none", "read", "write"} /\ rpc.path \in Paths
  /\ late \subseteq [path : Paths, bytes : Contents, exp : 0 .. nextRev]
  /\ buf \in Contents
  /\ modified \in BOOLEAN
  /\ base \in Versions
  /\ cstate \in States /\ merging \in States
  /\ OpOK(active) /\ OpOK(queued)
  /\ (active # NoOp) = (status = "saving") /\ (queued # NoOp => active # NoOp)
  /\ status \in {"none", "saving", "saved", "saved-newer", "conflict", "unknown", "failed"}
  /\ recovery \subseteq Contents

\* README: "The normal modified marker remains set until the current buffer
\* contents are confirmed saved."  A buffer shown as unmodified holds exactly
\* the bytes of BASE, whatever was edited while requests were under way.
CleanIsBase == ~modified => buf = base.bytes

\* BASE is a version the visited file really had, with these bytes under this
\* revision, also after lost replies, late writes and conflicts.
BaseIsReal == base \in past["file"]

\* The token of a save belongs to the BASE its user edited: the save can only
\* replace a version with BASE's bytes, also when it waited in the queue or is
\* a retry after an unknown outcome.  And it is the newest such token: a user
\* who edits and saves alone never gets a conflict, because queued saves build
\* on the revision their predecessor returned.
ExpectsItsBase ==
  /\ active.kind = "save" /\ active.stage = "write" =>
       \E v \in past["file"] : v.rev = active.exp /\ v.bytes = active.base.bytes
  /\ status = "conflict" => ext > 0 \/ faults > 0

\* README: "Repeated interactive saves coalesce to the newest requested
\* snapshot".  When a save ends with success and nothing follows it, it saved
\* the bytes asked for last.
LatestRequestWins ==
  [][active.kind = "save" /\ active' = NoOp /\ status' \in {"saved", "saved-newer"}
       => active.bytes = asked]_vars

\* README: "Whole-file choices remain conditional on the fetched REMOTE
\* revision", and a merge is applied only over the REMOTE it was made from.
\* What a resolution replaces is the very version the user was shown.
ResolutionReplacesShown ==
  [][/\ active.kind \in {"keep-local", "restore-base", "merge"}
     /\ rpc.op = "write" /\ rpc.reply = Pending /\ rpc'.reply.result = "ok"
     => remote["file"] = active.snap.remote]_vars

\* The callback of the active operation's request will never be called.
Abandoned == rpc.reply.result = "lost"

\* Every operation comes to an end and releases the buffer's save slot: each
\* callback either finishes or sends one more request, and no retry, conflict
\* or merge keeps it going for ever.  Only a callback that is never called
\* leaves the buffer "saving", because nothing but the reply ends an operation.
SavesEnd == status = "saving" ~> status # "saving" \/ Abandoned

\* README: "Discarded versions are retained in visible read-only recovery
\* buffers."  When a resolution replaces the buffer's bytes, they are kept.
EditsAreKept == [][buf' # buf /\ edits' = edits => buf \in recovery']_vars
=============================================================================
