---------------------------- MODULE RequestCore ----------------------------
(***************************************************************************)
(* The request layer of one connection (lisp/relay-core.el): the pending   *)
(* table, the process filter's routing of replies, the deferred callback   *)
(* queue and its drain, timeouts, cancellation, blocking requests that     *)
(* re-enter the event loop, and the death of the transport process.        *)
(*                                                                         *)
(* Emacs runs Lisp on one thread.  Timers, the filter and the sentinel run *)
(* only while Emacs waits for events: at top level, or inside the          *)
(* accept-process-output of relay--request and relay--readdir-all-sync.    *)
(* The stack holds the blocking calls and the callbacks that Lisp is       *)
(* inside of, and the callbacks that suspended drains have yet to call.    *)
(* accept-process-output returns once it has read output of the process,   *)
(* so timers no longer run when the innermost relay--request has its       *)
(* reply; the filter may still find more frames in the same chunk.         *)
(***************************************************************************)
EXTENDS Integers, FiniteSets, SequencesExt

CONSTANTS
  MaxRequests,   \* bound: requests made on the connection
  MaxChunks,     \* bound: intermediate replies of one stream
  QueueMax,      \* relay-callback-queue-max-length
  MaxErrors,     \* bound: callbacks that signal an error
  MaxDeaths      \* 1 if the transport process may die

ASSUME CoreAssumption ==
  /\ MaxRequests \in Nat /\ MaxChunks \in Nat /\ QueueMax \in Nat \ {0}
  /\ MaxErrors \in Nat /\ MaxDeaths \in {0, 1}

Ids == 1 .. MaxRequests
Deferred == {"async", "stream"}
Kinds == {"sync"} \cup Deferred

\* On the stack: Lisp waits in relay--request or in relay--readdir-all-sync.
Waits == {"request", "listing"}

\* In the queue, and on the stack when a drain has taken it: a callback to call.
ThunkKinds == {"chunk", "done", "timeout"}
IsThunk(f) == f.what \in ThunkKinds
Completes(f) == f.what \in {"done", "timeout"}

VARIABLES
  nextId,      \* relay-conn-next-id
  kind,        \* per id: what kind of request it is
  pending,     \* the pending table: "none", "waiting" (blocked), "reply" (the
               \* reply installed for a blocked request), "async" or "stream"
  answered,    \* ids whose final reply the server has sent
  chunks,      \* per id: intermediate replies sent
  queue,       \* relay-conn-callback-queue, oldest first: [id, what]
  drain,       \* the drain timer: "none", "soon" (0 s) or "delayed" (0.05 s)
  timers,      \* ids with an armed timeout
  failing,     \* ids whose callback is scheduled with a transport failure
  stack,       \* what Lisp is inside of, innermost first: [id, what] with what one of
               \* Waits, "call" (a callback is running) or ThunkKinds (to be called)
  proc,        \* the process: "live", "dead", or "gone" (sentinel has run)
  cancelled,   \* ids cancelled by relay--cancel-request
  refused,     \* ids whose sending signalled an error to the caller
  fired,       \* per id: how often its completion callback was called
  errors,
  overtaken    \* ids with chunks that a suspended drain had yet to deliver when
               \* another drain started

vars == <<nextId, kind, pending, answered, chunks, queue, drain, timers, failing,
          stack, proc, cancelled, refused, fired, errors, overtaken>>

Waiting(id) == pending[id] = "waiting"
Top == Head(stack)

\* Emacs waits for events, and runs filters and sentinels.
Reads == IF stack = <<>> THEN TRUE ELSE Top.what \in Waits

\* It runs timers, commands and event handlers as well.
EventLoop ==
  IF stack = <<>> THEN TRUE
  ELSE Top.what = "listing" \/ (Top.what = "request" /\ Waiting(Top.id))

\* Lisp that may use the connection runs: a command, a timer or an event
\* handler, or a callback called by the drain.
LispRuns == EventLoop \/ (stack # <<>> /\ Top.what = "call")

-----------------------------------------------------------------------------
(* Requests *)

\* Mutant: the request stays in the table.
KeepEntry(id) == pending

Removed(id) == [pending EXCEPT ![id] = "none"]

NewId(k) ==
  /\ LispRuns
  /\ nextId \in Ids
  /\ nextId' = nextId + 1
  /\ kind' = [kind EXCEPT ![nextId] = k]
  /\ UNCHANGED <<answered, chunks, queue, drain, failing, proc, cancelled,
                 fired, errors, overtaken>>

\* relay--request-async and relay--request-stream.  The id is entered before
\* the frame is sent, and stays when sending to a dead process fails.
RequestDeferred ==
  \E k \in Deferred, timed \in BOOLEAN :
    /\ NewId(k)
    /\ pending' = [pending EXCEPT ![nextId] = k]
    /\ timers' = IF timed /\ proc = "live" THEN timers \cup {nextId} ELSE timers
    /\ refused' = IF proc = "live" THEN refused ELSE refused \cup {nextId}
    /\ UNCHANGED stack

\* relay--request: a failed send removes the id and signals.
RequestSync ==
  /\ NewId("sync")
  /\ IF proc = "live"
     THEN /\ pending' = [pending EXCEPT ![nextId] = "waiting"]
          /\ stack' = <<[id |-> nextId, what |-> "request"]>> \o stack
          /\ UNCHANGED refused
     ELSE refused' = refused \cup {nextId} /\ UNCHANGED <<pending, stack>>
  /\ UNCHANGED timers

\* relay--readdir-all-sync: a stream whose completion ends the wait.  Nothing in
\* the pending table says that Lisp is blocked.
ReaddirSync ==
  /\ NewId("stream")
  /\ pending' = [pending EXCEPT ![nextId] = "stream"]
  /\ IF proc = "live"
     THEN stack' = <<[id |-> nextId, what |-> "listing"]>> \o stack /\ UNCHANGED refused
     ELSE refused' = refused \cup {nextId} /\ UNCHANGED stack
  /\ UNCHANGED timers

\* The blocked call sees its reply, or gives up at its deadline and leaves the
\* table.  Only the innermost one runs.
BlockedDone ==
  /\ stack # <<>> /\ Top.what \in Waits
  /\ pending' = [pending EXCEPT ![Top.id] = "none"]
  /\ cancelled' = IF pending[Top.id] \in Deferred THEN cancelled \cup {Top.id} ELSE cancelled
  /\ stack' = Tail(stack)
  /\ UNCHANGED <<nextId, kind, answered, chunks, queue, drain, timers, failing,
                 proc, refused, fired, errors, overtaken>>

\* Process death is seen before the sentinel ran.
SyncSeesDeath ==
  /\ stack # <<>> /\ Top.what = "request" /\ Waiting(Top.id) /\ proc = "dead"
  /\ pending' = [pending EXCEPT ![Top.id] = "reply"]
  /\ UNCHANGED <<nextId, kind, answered, chunks, queue, drain, timers, failing,
                 stack, proc, cancelled, refused, fired, errors, overtaken>>

\* relay--cancel-request
Cancel ==
  \E id \in Ids :
    /\ LispRuns
    /\ pending[id] \in Deferred
    /\ pending' = Removed(id)
    /\ cancelled' = cancelled \cup {id}
    /\ UNCHANGED <<nextId, kind, answered, chunks, queue, drain, timers, failing,
                   stack, proc, refused, fired, errors, overtaken>>

-----------------------------------------------------------------------------
(* The callback queue *)

\* relay--sentinel and relay--fail-pending on the table p: blocked requests
\* get the failure in place, callbacks a timer of their own, past the queue.
FailPending(p) ==
  /\ proc' = "gone"
  /\ pending' = [id \in Ids |-> CASE p[id] = "waiting" -> "reply"
                                 [] p[id] \in Deferred -> "none"
                                 [] OTHER -> p[id]]
  /\ failing' = failing \cup {id \in Ids : p[id] \in Deferred}

\* Mutant: one callback too many.
QueueOverfull == Len(queue) > QueueMax

QueueFull == Len(queue) >= QueueMax

\* relay--enqueue-callback, when the table has become p.  A full queue closes
\* the connection: delete-process runs the sentinel, and the callback is lost.
Enqueue(id, what, p) ==
  IF QueueFull
  THEN FailPending(p) /\ UNCHANGED <<queue, drain>>
  ELSE /\ queue' = Append(queue, [id |-> id, what |-> what])
       /\ drain' = IF drain = "none" THEN "soon" ELSE drain
       /\ pending' = p
       /\ UNCHANGED <<proc, failing>>

\* Mutant: the drain does not look for blocked requests.
NeverBlocked == FALSE

\* relay--conn-has-blocked-waiter-p
HasBlockedWaiter == \E id \in Ids : Waiting(id)

\* Mutant: the newest callback is called first.
NewestFirst(q) == Reverse(q)

ArrivalOrder(q) == q

\* Mutant: a drain that finds a blocked request is not tried again.
NoRetry == "none"

\* relay--blocked-drain-retry-delay
Retry == "delayed"

\* relay--drain-callback-queue.  Nothing keeps it from starting underneath a
\* callback of an earlier drain that waits in relay--readdir-all-sync.
StartDrain ==
  /\ EventLoop /\ drain # "none"
  /\ \/ queue = <<>> /\ drain' = "none" /\ UNCHANGED <<queue, stack, overtaken>>
     \/ /\ queue # <<>> /\ HasBlockedWaiter
        /\ drain' = Retry /\ UNCHANGED <<queue, stack, overtaken>>
     \/ /\ queue # <<>> /\ ~HasBlockedWaiter
        /\ drain' = "none"
        /\ stack' = ArrivalOrder(queue) \o stack /\ queue' = <<>>
        /\ overtaken' = overtaken \cup {stack[i].id : i \in {j \in DOMAIN stack : stack[j].what = "chunk"}}
  /\ UNCHANGED <<nextId, kind, pending, answered, chunks, timers, failing, proc, cancelled,
                 refused, fired, errors>>

\* The drain calls the next thunk.
RunThunk ==
  /\ stack # <<>> /\ IsThunk(Top)
  /\ fired' = IF Completes(Top) THEN [fired EXCEPT ![Top.id] = @ + 1] ELSE fired
  /\ stack' = [stack EXCEPT ![1].what = "call"]
  /\ UNCHANGED <<nextId, kind, pending, answered, chunks, queue, drain, timers, failing,
                 proc, cancelled, refused, errors, overtaken>>

\* The callback returns.  An error that it signals ends the drain: the thunks
\* down to the wait, or the top level, under which the drain was started go.
CallbackDone ==
  /\ stack # <<>> /\ Top.what = "call"
  /\ \/ stack' = Tail(stack) /\ UNCHANGED errors
     \/ /\ errors < MaxErrors /\ errors' = errors + 1
        /\ \E n \in 1 .. Len(stack) :
             /\ \A i \in 2 .. n : IsThunk(stack[i])
             /\ n < Len(stack) => ~IsThunk(stack[n + 1])
             /\ stack' = SubSeq(stack, n + 1, Len(stack))
  /\ UNCHANGED <<nextId, kind, pending, answered, chunks, queue, drain, timers, failing,
                 proc, cancelled, refused, fired, overtaken>>

-----------------------------------------------------------------------------
(* Frames, timeouts and the end of the process *)

\* The server answers a request that reached it; relay--dispatch routes the
\* frame.  A reply for an id that is no longer pending is dropped.
Frame(id, more) ==
  /\ Reads /\ proc # "gone"
  /\ id < nextId /\ id \notin answered \cup refused
  /\ more => kind[id] = "stream" /\ chunks[id] < MaxChunks
  /\ chunks' = [chunks EXCEPT ![id] = IF more THEN @ + 1 ELSE @]
  /\ answered' = IF more THEN answered ELSE answered \cup {id}
  /\ UNCHANGED <<nextId, kind, timers, stack, cancelled, refused, fired,
                 errors, overtaken>>

Dispatch ==
  \E id \in Ids, more \in BOOLEAN :
    /\ Frame(id, more)
    /\ \/ /\ pending[id] = "stream" /\ more
          /\ Enqueue(id, "chunk", pending)
       \/ /\ pending[id] \in Deferred /\ ~more
          /\ Enqueue(id, "done", Removed(id))
       \/ /\ Waiting(id)
          /\ pending' = [pending EXCEPT ![id] = "reply"]
          /\ UNCHANGED <<queue, drain, proc, failing>>
       \/ /\ pending[id] \in {"none", "reply"}
          /\ UNCHANGED <<pending, queue, drain, proc, failing>>

\* relay--timeout-request
Timeout ==
  \E id \in timers :
    /\ EventLoop
    /\ timers' = timers \ {id}
    /\ IF pending[id] \in Deferred
       THEN Enqueue(id, "timeout", Removed(id))
       ELSE UNCHANGED <<pending, queue, drain, proc, failing>>
    /\ UNCHANGED <<nextId, kind, answered, chunks, stack, cancelled, refused, fired,
                   errors, overtaken>>

Die ==
  /\ proc = "live" /\ MaxDeaths = 1
  /\ proc' = "dead"
  /\ UNCHANGED <<nextId, kind, pending, answered, chunks, queue, drain, timers, failing,
                 stack, cancelled, refused, fired, errors, overtaken>>

\* Output that was read before the end is dispatched first.
Sentinel ==
  /\ Reads /\ proc = "dead"
  /\ FailPending(pending)
  /\ UNCHANGED <<nextId, kind, answered, chunks, queue, drain, timers, stack, cancelled,
                 refused, fired, errors, overtaken>>

\* Timers that are due run in order: a drain that was due first goes first.
FireFailure ==
  \E id \in failing :
    /\ EventLoop /\ drain # "soon"
    /\ failing' = failing \ {id}
    /\ fired' = [fired EXCEPT ![id] = @ + 1]
    /\ UNCHANGED <<nextId, kind, pending, answered, chunks, queue, drain, timers, stack,
                   proc, cancelled, refused, errors, overtaken>>

-----------------------------------------------------------------------------
Init ==
  /\ nextId = 1
  /\ kind = [id \in Ids |-> "sync"]
  /\ pending = [id \in Ids |-> "none"]
  /\ answered = {} /\ chunks = [id \in Ids |-> 0]
  /\ queue = <<>> /\ drain = "none"
  /\ timers = {} /\ failing = {} /\ stack = <<>> /\ proc = "live"
  /\ cancelled = {} /\ refused = {}
  /\ fired = [id \in Ids |-> 0]
  /\ errors = 0 /\ overtaken = {}

Next ==
  \/ RequestDeferred \/ RequestSync \/ ReaddirSync \/ BlockedDone \/ SyncSeesDeath \/ Cancel
  \/ StartDrain \/ RunThunk \/ CallbackDone \/ Dispatch \/ Timeout \/ Die \/ Sentinel \/ FireFailure

Spec == Init /\ [][Next]_vars

\* Emacs runs due timers, notices a dead process and lets Lisp go on; a
\* blocked call has a deadline.  The server owes no reply.
FairSpec ==
  Spec /\ WF_vars(BlockedDone) /\ WF_vars(StartDrain) /\ WF_vars(RunThunk) /\ WF_vars(CallbackDone)
       /\ WF_vars(Timeout) /\ WF_vars(Sentinel) /\ WF_vars(FireFailure)

-----------------------------------------------------------------------------
(* Properties *)

Thunks == [id : Ids, what : ThunkKinds]
Frames == [id : Ids, what : Waits \cup {"call"} \cup ThunkKinds]

\* Type invariant of the connection; the queue respects its limit.
TypeOK ==
  /\ nextId \in 1 .. MaxRequests + 1
  /\ kind \in [Ids -> Kinds]
  /\ pending \in [Ids -> {"none", "waiting", "reply"} \cup Deferred]
  /\ answered \subseteq Ids /\ chunks \in [Ids -> 0 .. MaxChunks]
  /\ queue \in Seq(Thunks) /\ Len(queue) <= QueueMax
  /\ drain \in {"none", "soon", "delayed"}
  /\ timers \subseteq Ids /\ failing \subseteq Ids
  /\ stack \in Seq(Frames)
  /\ proc \in {"live", "dead", "gone"}
  /\ cancelled \subseteq Ids /\ refused \subseteq Ids
  /\ fired \in [Ids -> Nat]
  /\ errors \in 0 .. MaxErrors /\ overtaken \subseteq Ids

\* How many completions of id are still due.
Due(id) ==
  LET Finals(q) == Cardinality({i \in DOMAIN q : q[i].id = id /\ Completes(q[i])})
      In(S) == IF id \in S THEN 1 ELSE 0
  IN Finals(queue) + Finals(stack) + In(failing)
       + IF pending[id] \in Deferred THEN 1 ELSE 0

Deferring(id) == id < nextId /\ kind[id] \in Deferred

\* A completion callback is never called twice, and the one of a cancelled
\* request never, also when callbacks signal errors, the queue overflows and
\* the connection is closed.
CompletesAtMostOnce ==
  \A id \in Ids : Due(id) + fired[id] <= IF id \in cancelled THEN 0 ELSE 1

\* A callback is called once: whatever replies, timeouts, cancellations and
\* process deaths race, every asynchronous request that was sent and not
\* cancelled has had its completion or has exactly one on its way, in the
\* pending table, in the queue or on a timer.
CompletionsAccounted ==
  \A id \in Ids : Deferring(id) /\ id \notin cancelled \cup refused => Due(id) + fired[id] = 1

\* The callback at the top of the stack is called.
Calls == stack # <<>> /\ IsThunk(Top) /\ stack' # stack

\* No callback of the queue is called underneath a blocked relay--request, so
\* that code which waits there sees nothing else happen, also when callbacks and
\* event handlers make blocking calls of their own.  It does not extend to
\* relay--readdir-all-sync, which waits for such a callback.
NoCallbackUnderWaiter == [][Calls => \A id \in Ids : ~Waiting(id)]_vars

\* A stream's intermediate replies are delivered before its completion, in
\* arrival order, as long as the transport lives (header comment of the
\* callback queue), also when callbacks block, fail or time out; unless a drain
\* was suspended before it had called them, by a callback that waits in
\* relay--readdir-all-sync, and another drain started underneath.
DoneIsLast ==
  [][Calls /\ ~Completes(Top) /\ proc = "live" /\ Top.id \notin overtaken => fired[Top.id] = 0]_vars

\* Lisp is inside of the blocking call that made request id.
Blocks(id) == \E i \in DOMAIN stack : stack[i].id = id /\ stack[i].what \in Waits

\* Every blocking call returns, and every request with a timeout that was
\* sent is completed or cancelled, whether or not the server ever replies.
RequestsSettle ==
  \A id \in Ids :
    /\ Blocks(id) ~> ~Blocks(id)
    /\ id \in timers ~> (fired[id] = 1 \/ id \in cancelled)
=============================================================================
