------------------------- MODULE RequestCoreProofs -------------------------
(***************************************************************************)
(* Proofs about RequestCore for any number of requests, chunks and errors  *)
(* and every length of the callback queue.                                 *)
(***************************************************************************)
EXTENDS RequestCore, FiniteSetTheorems, SequenceTheorems, TLAPS

-----------------------------------------------------------------------------
(* The inductive invariants *)

\* Frame i of the stack s is a relay--request that made request id.
Asks(s, i, id) == s[i].what = "request" /\ s[i].id = id

\* Whoever waits is on the stack, and nobody waits below a callback, neither
\* below one that runs nor below one that is yet to be called.
StackInv ==
  /\ \A id \in Ids : Waiting(id) => \E i \in 1 .. Len(stack) : Asks(stack, i, id)
  /\ \A i \in 1 .. Len(stack) : stack[i].what = "request" => stack[i].id < nextId
  /\ \A i, j \in 1 .. Len(stack) : \A id \in Ids :
       stack[i].what \notin Waits /\ i < j /\ Asks(stack, j, id) => ~Waiting(id)

Final(q, i, id) == q[i].id = id /\ Completes(q[i])
Chunk(q, i, id) == q[i].id = id /\ q[i].what = "chunk"
HasFinal(q, id) == \E i \in 1 .. Len(q) : Final(q, i, id)
HasChunk(q, id) == \E i \in 1 .. Len(q) : Chunk(q, i, id)
OneFinal(q, id) == \A i, j \in 1 .. Len(q) : Final(q, i, id) /\ Final(q, j, id) => i = j

\* The completion of a request is in at most one place: in the table, on a
\* failure timer, in the queue, in what a drain has yet to call, or done.  A
\* cancelled request and one not made yet have none.
OnceInv ==
  \A id \in Ids :
    /\ OneFinal(queue, id) /\ OneFinal(stack, id) /\ fired[id] <= 1
    /\ pending[id] \in Deferred => id \notin failing /\ ~HasFinal(queue, id) /\ ~HasFinal(stack, id) /\ fired[id] = 0
    /\ id \in failing => ~HasFinal(queue, id) /\ ~HasFinal(stack, id) /\ fired[id] = 0
    /\ HasFinal(queue, id) => ~HasFinal(stack, id) /\ fired[id] = 0
    /\ HasFinal(stack, id) => fired[id] = 0
    /\ id \in cancelled \/ id >= nextId =>
         /\ pending[id] \notin Deferred /\ id \notin failing /\ ~HasFinal(queue, id) /\ ~HasFinal(stack, id)
         /\ fired[id] = 0
    /\ id >= nextId => id \notin cancelled

\* No chunk comes after the completion of its stream.
ChunksBefore(q, id) == \A i, j \in 1 .. Len(q) : Final(q, i, id) /\ i < j => ~Chunk(q, j, id)

\* Chunks come first everywhere on the way of a stream that no nested drain
\* has overtaken.
LastInv ==
  proc = "live" =>
    /\ failing = {}
    /\ \A id \in Ids \ overtaken :
         /\ ChunksBefore(queue, id) /\ ChunksBefore(stack, id)
         /\ HasFinal(stack, id) => ~HasChunk(queue, id)
         /\ fired[id] > 0 => ~HasChunk(queue, id) /\ ~HasChunk(stack, id)

-----------------------------------------------------------------------------
(* Types *)

Entries == {"none", "waiting", "reply"} \cup Deferred

\* What the sentinel leaves of the table p.
LEMMA FailPendingEffect ==
  ASSUME NEW p \in [Ids -> Entries], FailPending(p), failing \subseteq Ids
  PROVE  /\ proc' = "gone" /\ pending' \in [Ids -> Entries] /\ failing' \subseteq Ids
         /\ \A id \in Ids : /\ pending'[id] \notin Deferred \cup {"waiting"}
                            /\ id \in failing' <=> id \in failing \/ p[id] \in Deferred
<1>1. pending' = [id \in Ids |-> CASE p[id] = "waiting" -> "reply" [] p[id] \in Deferred -> "none" [] OTHER -> p[id]]
  BY DEF FailPending
<1>2. \A id \in Ids : p[id] \in Entries
  OBVIOUS
<1>3. \A id \in Ids : pending'[id] \in Entries /\ pending'[id] \notin Deferred \cup {"waiting"}
  BY <1>1, <1>2 DEF Entries, Deferred
<1>4. pending' \in [Ids -> Entries]
  BY <1>1, <1>3
<1> QED
  BY <1>3, <1>4 DEF FailPending

LEMMA Appended ==
  ASSUME NEW T, NEW s \in Seq(T), NEW x \in T
  PROVE  /\ Append(s, x) \in Seq(T) /\ Len(Append(s, x)) = Len(s) + 1 /\ Append(s, x)[Len(s) + 1] = x
         /\ \A i \in 1 .. Len(s) : Append(s, x)[i] = s[i]
BY AppendProperties

LEMMA EnqueueType ==
  ASSUME TypeOK, NEW id \in Ids, NEW what \in {"chunk", "done", "timeout"}, NEW p \in [Ids -> Entries], Enqueue(id, what, p)
  PROVE  /\ pending' \in [Ids -> Entries] /\ queue' \in Seq(Thunks) /\ Len(queue') <= QueueMax
         /\ drain' \in {"none", "soon", "delayed"} /\ proc' \in {"live", "dead", "gone"} /\ failing' \subseteq Ids
<1>1. CASE QueueFull
  <2>1. FailPending(p) /\ UNCHANGED <<queue, drain>>
    BY <1>1 DEF Enqueue
  <2> QED
    BY <2>1, FailPendingEffect DEF TypeOK
<1>2. CASE ~QueueFull
  <2>1. [id |-> id, what |-> what] \in Thunks
    BY DEF Thunks, ThunkKinds
  <2>2. queue' \in Seq(Thunks) /\ Len(queue') = Len(queue) + 1
    <3>1. PICK t : t = [id |-> id, what |-> what]
      OBVIOUS
    <3>2. t \in Thunks /\ queue' = Append(queue, t) /\ queue \in Seq(Thunks)
      BY <1>2, <2>1, <3>1 DEF Enqueue, TypeOK
    <3> QED
      BY <3>2, Appended
  <2>3. Len(queue) < QueueMax
    BY <1>2, CoreAssumption DEF QueueFull, TypeOK
  <2>4. Len(queue') <= QueueMax
    BY <2>2, <2>3, CoreAssumption DEF TypeOK
  <2> QED
    BY <1>2, <2>2, <2>4 DEF Enqueue, TypeOK
<1> QED
  BY <1>1, <1>2

LEMMA RemovedType ==
  ASSUME TypeOK, NEW id \in Ids
  PROVE  /\ Removed(id) \in [Ids -> Entries] /\ Removed(id)[id] = "none"
         /\ \A k \in Ids : k # id => Removed(id)[k] = pending[k]
BY DEF Removed, TypeOK, Entries

\* The stack t is s without its first d frames.
Below(t, s, d) ==
  /\ d \in 0 .. Len(s) /\ Len(t) = Len(s) - d
  /\ \A i \in 1 .. Len(t) : t[i] = s[i + d]

LEMMA PushedFrame ==
  ASSUME NEW s \in Seq(Frames), NEW x \in Frames
  PROVE  <<x>> \o s \in Seq(Frames) /\ Below(s, <<x>> \o s, 1) /\ (<<x>> \o s)[1] = x
<1>1. <<x>> \in Seq(Frames) /\ Len(<<x>>) = 1 /\ <<x>>[1] = x
  OBVIOUS
<1>2. PICK t : t = <<x>> \o s
  OBVIOUS
<1>3. /\ t \in Seq(Frames) /\ Len(t) = 1 + Len(s)
      /\ \A i \in 1 .. 1 + Len(s) : t[i] = IF i <= 1 THEN <<x>>[i] ELSE s[i - 1]
  BY <1>1, <1>2, ConcatProperties
<1>4. t[1] = x /\ \A i \in 1 .. Len(s) : t[i + 1] = s[i]
  BY <1>1, <1>3
<1> QED
  BY <1>2, <1>3, <1>4 DEF Below

LEMMA PoppedFrame ==
  ASSUME NEW s \in Seq(Frames), s # <<>>
  PROVE  /\ Tail(s) \in Seq(Frames) /\ Below(Tail(s), s, 1) /\ Head(s) = s[1] /\ Head(s) \in Frames
         /\ 1 \in 1 .. Len(s)
<1>1. Len(s) > 0 /\ Len(Tail(s)) = Len(s) - 1 /\ \A i \in 1 .. Len(s) - 1 : Tail(s)[i] = s[i + 1]
  OBVIOUS
<1> QED
  BY <1>1 DEF Below

\* An error takes n frames off the stack.
LEMMA UnwoundFrames ==
  ASSUME NEW s \in Seq(Frames), NEW n \in 1 .. Len(s)
  PROVE  SubSeq(s, n + 1, Len(s)) \in Seq(Frames) /\ Below(SubSeq(s, n + 1, Len(s)), s, n)
<1>1. \A i \in n + 1 .. Len(s) : s[i] \in Frames
  OBVIOUS
<1>2. PICK t, m : t = SubSeq(s, n + 1, Len(s)) /\ m = Len(s)
  OBVIOUS
<1>3. m \in Nat /\ n \in 1 .. m
  BY <1>2
<1>4. /\ t \in Seq(Frames) /\ Len(t) = IF n + 1 <= m THEN m - (n + 1) + 1 ELSE 0
      /\ \A i \in 1 .. m - (n + 1) + 1 : t[i] = s[(n + 1) + i - 1]
  BY <1>1, <1>2, <1>3, SubSeqProperties
<1>5. Len(t) = m - n /\ \A i \in 1 .. m - n : (n + 1) + i - 1 = i + n
  BY <1>3, <1>4
<1>6. \A i \in 1 .. m - n : t[i] = s[i + n]
  <2>1. m - (n + 1) + 1 = m - n
    BY <1>3
  <2> QED
    BY <1>4, <1>5, <2>1
<1>7. Below(t, s, n)
  BY <1>2, <1>3, <1>5, <1>6 DEF Below
<1> QED
  BY <1>2, <1>4, <1>7

LEMMA JoinedFrames ==
  ASSUME NEW q \in Seq(Thunks), NEW s \in Seq(Frames)
  PROVE  /\ q \o s \in Seq(Frames) /\ Below(s, q \o s, Len(q))
         /\ \A i \in 1 .. Len(q) : (q \o s)[i] = q[i]
<1>1. q \in Seq(Frames)
  <2>1. Thunks \subseteq Frames
    BY DEF Thunks, Frames
  <2> QED
    BY <2>1, SeqMonotonic
<1>2. PICK t, m, n : t = q \o s /\ m = Len(q) /\ n = Len(s)
  OBVIOUS
<1>3. m \in Nat /\ n \in Nat
  BY <1>2
<1>4. t \in Seq(Frames) /\ Len(t) = m + n /\ \A i \in 1 .. m + n : t[i] = IF i <= m THEN q[i] ELSE s[i - m]
  BY <1>1, <1>2, ConcatProperties
<1>5. \A i \in 1 .. m : t[i] = q[i]
  BY <1>3, <1>4
<1>6. \A i \in 1 .. n : t[i + m] = s[i]
  BY <1>3, <1>4
<1>7. Below(s, t, m)
  BY <1>2, <1>3, <1>4, <1>6 DEF Below
<1> QED
  BY <1>2, <1>4, <1>5, <1>7

\* The frame on top is called.
LEMMA CalledFrame ==
  ASSUME NEW s \in Seq(Frames), s # <<>>
  PROVE  /\ [s EXCEPT ![1].what = "call"] \in Seq(Frames) /\ Len([s EXCEPT ![1].what = "call"]) = Len(s)
         /\ [s EXCEPT ![1].what = "call"][1].what = "call"
         /\ \A i \in 2 .. Len(s) : [s EXCEPT ![1].what = "call"][i] = s[i]
<1>1. s[1] \in Frames /\ 1 \in 1 .. Len(s)
  BY PoppedFrame
<1>2. PICK g : g = [s[1] EXCEPT !.what = "call"]
  OBVIOUS
<1>3. g \in Frames /\ g.what = "call"
  BY <1>1, <1>2 DEF Frames
<1>4. [s EXCEPT ![1].what = "call"] = [s EXCEPT ![1] = g]
  BY <1>2
<1> QED
  BY <1>1, <1>3, <1>4, ExceptSeq

LEMMA CallbackDoneEffect ==
  ASSUME TypeOK, CallbackDone
  PROVE  \E d \in 1 .. Len(stack) :
           /\ stack' \in Seq(Frames) /\ Below(stack', stack, d)
           /\ \A i \in 1 .. d : stack[i].what \notin Waits
           /\ errors' = errors => d = 1
           /\ stack[1].what = "call" /\ 1 \in 1 .. Len(stack)
<1>1. stack \in Seq(Frames) /\ stack # <<>> /\ Top.what = "call" /\ errors \in Int
  BY DEF TypeOK, CallbackDone
<1>2. 1 \in 1 .. Len(stack) /\ stack[1].what = "call"
  BY <1>1, PoppedFrame DEF Top
<1>3. CASE stack' = Tail(stack)
  BY <1>1, <1>2, <1>3, PoppedFrame DEF Waits
<1>4. CASE /\ errors' = errors + 1
           /\ \E n \in 1 .. Len(stack) : /\ \A i \in 2 .. n : IsThunk(stack[i])
                                         /\ stack' = SubSeq(stack, n + 1, Len(stack))
  <2>1. PICK n \in 1 .. Len(stack) : /\ \A i \in 2 .. n : IsThunk(stack[i])
                                     /\ stack' = SubSeq(stack, n + 1, Len(stack))
    BY <1>4
  <2>2. stack' \in Seq(Frames) /\ Below(stack', stack, n)
    BY <1>1, <2>1, UnwoundFrames
  <2>3. \A i \in 1 .. n : stack[i].what \notin Waits
    <3>1. \A i \in 1 .. n : i = 1 \/ i \in 2 .. n
      OBVIOUS
    <3> QED
      BY <1>2, <2>1, <3>1 DEF IsThunk, ThunkKinds, Waits
  <2>4. errors' # errors
    BY <1>1, <1>4
  <2> QED
    BY <1>2, <2>2, <2>3, <2>4
<1> QED
  BY <1>3, <1>4 DEF CallbackDone

LEMMA InitTypes == Init => TypeOK
<1> SUFFICES ASSUME Init PROVE TypeOK
  OBVIOUS
<1>1. <<>> \in Seq(Thunks) /\ <<>> \in Seq(Frames) /\ Len(<<>>) = 0
  OBVIOUS
<1> QED
  BY <1>1, CoreAssumption DEF Init, TypeOK, Kinds, Ids

LEMMA NextTypes == TypeOK /\ [Next]_vars => TypeOK'
<1> SUFFICES ASSUME TypeOK, [Next]_vars PROVE TypeOK'
  OBVIOUS
<1> USE DEF Entries
<1>1. /\ nextId \in 1 .. MaxRequests + 1 /\ kind \in [Ids -> Kinds] /\ pending \in [Ids -> Entries]
      /\ chunks \in [Ids -> 0 .. MaxChunks] /\ queue \in Seq(Thunks) /\ stack \in Seq(Frames)
      /\ timers \subseteq Ids /\ failing \subseteq Ids /\ fired \in [Ids -> Nat] /\ errors \in 0 .. MaxErrors
  BY DEF TypeOK
<1>2. \A k : NewId(k) => nextId \in Ids /\ nextId' \in 1 .. MaxRequests + 1
  BY CoreAssumption, <1>1 DEF NewId, Ids
<1>3. CASE RequestDeferred
  <2>1. PICK k \in Deferred, timed \in BOOLEAN :
          /\ NewId(k) /\ pending' = [pending EXCEPT ![nextId] = k]
          /\ timers' = IF timed /\ proc = "live" THEN timers \cup {nextId} ELSE timers
          /\ refused' = IF proc = "live" THEN refused ELSE refused \cup {nextId}
          /\ UNCHANGED stack
    BY <1>3 DEF RequestDeferred
  <2>2. kind' \in [Ids -> Kinds] /\ pending' \in [Ids -> Entries] /\ timers' \subseteq Ids /\ refused' \subseteq Ids
    BY <1>1, <1>2, <2>1 DEF NewId, Kinds, TypeOK
  <2> QED
    BY <1>2, <2>1, <2>2 DEF NewId, TypeOK
<1>4. CASE RequestSync \/ ReaddirSync
  <2>1. PICK k \in {"sync", "stream"}, w \in Waits :
          /\ NewId(k) /\ UNCHANGED timers /\ refused' \in {refused, refused \cup {nextId}}
          /\ pending' \in {pending, [pending EXCEPT ![nextId] = "waiting"], [pending EXCEPT ![nextId] = "stream"]}
          /\ stack' \in {stack, <<[id |-> nextId, what |-> w]>> \o stack}
    BY <1>4 DEF RequestSync, ReaddirSync, Waits
  <2>2. kind' \in [Ids -> Kinds] /\ nextId \in Ids
    BY <1>1, <1>2, <2>1 DEF NewId, Kinds, Deferred
  <2>3. PICK x : x = [id |-> nextId, what |-> w]
    OBVIOUS
  <2>4. x \in Frames
    BY <2>1, <2>2, <2>3 DEF Frames
  <2>5. stack' \in Seq(Frames)
    BY <1>1, <2>1, <2>3, <2>4, PushedFrame
  <2>6. pending' \in [Ids -> Entries] /\ refused' \subseteq Ids
    BY <1>1, <2>1, <2>2 DEF TypeOK, Deferred
  <2> QED
    BY <1>2, <2>1, <2>2, <2>5, <2>6 DEF NewId, TypeOK
<1>5. CASE BlockedDone
  <2>1. Top \in Frames /\ stack' \in Seq(Frames)
    BY <1>1, <1>5, PoppedFrame DEF BlockedDone, Top
  <2>2. PICK k : k = Top.id
    OBVIOUS
  <2>3. k \in Ids
    BY <2>1, <2>2 DEF Frames
  <2>4. pending' = [pending EXCEPT ![k] = "none"] /\ cancelled' \in {cancelled, cancelled \cup {k}}
    BY <1>5, <2>2 DEF BlockedDone
  <2>5. pending' \in [Ids -> Entries] /\ cancelled' \subseteq Ids
    BY <1>1, <2>3, <2>4 DEF TypeOK
  <2> QED
    BY <1>5, <2>1, <2>5 DEF BlockedDone, TypeOK
<1>6. CASE SyncSeesDeath \/ Cancel \/ Die
  <2>1. pending' \in [Ids -> Entries]
    BY <1>1, <1>6, RemovedType DEF SyncSeesDeath, Cancel, Die
  <2>2. cancelled' \subseteq Ids /\ proc' \in {"live", "dead", "gone"}
    BY <1>6 DEF SyncSeesDeath, Cancel, Die, TypeOK
  <2> QED
    BY <1>6, <2>1, <2>2 DEF SyncSeesDeath, Cancel, Die, TypeOK
<1>7. CASE StartDrain
  <2>1. <<>> \in Seq(Thunks) /\ Len(<<>>) = 0
    OBVIOUS
  <2>2. queue \o stack \in Seq(Frames)
    BY <1>1, JoinedFrames
  <2>3. /\ queue' \in {queue, <<>>} /\ stack' \in {stack, queue \o stack} /\ drain' \in {"none", "delayed"}
        /\ overtaken' \in {overtaken, overtaken \cup {stack[i].id : i \in {j \in DOMAIN stack : stack[j].what = "chunk"}}}
    BY <1>7 DEF StartDrain, Retry, ArrivalOrder
  <2>4. Len(queue) <= QueueMax /\ 0 <= QueueMax
    BY CoreAssumption DEF TypeOK
  <2>5. \A i \in DOMAIN stack : stack[i].id \in Ids
    <3>1. \A i \in DOMAIN stack : stack[i] \in Frames
      BY <1>1
    <3> QED
      BY <3>1 DEF Frames
  <2>6. overtaken' \subseteq Ids
    <3>1. {stack[i].id : i \in {j \in DOMAIN stack : stack[j].what = "chunk"}} \subseteq Ids
      BY <2>5
    <3> QED
      BY <2>3, <3>1 DEF TypeOK
  <2>7. queue' \in Seq(Thunks) /\ stack' \in Seq(Frames) /\ Len(queue') <= QueueMax /\ drain' \in {"none", "soon", "delayed"}
    BY <1>1, <2>1, <2>2, <2>3, <2>4
  <2> QED
    BY <1>7, <2>6, <2>7 DEF StartDrain, TypeOK
<1>8. CASE RunThunk
  <2>1. stack # <<>> /\ stack' = [stack EXCEPT ![1].what = "call"]
    BY <1>8 DEF RunThunk
  <2>2. Top \in Frames /\ stack' \in Seq(Frames)
    BY <1>1, <2>1, PoppedFrame, CalledFrame DEF Top
  <2>3. PICK k : k = Top.id
    OBVIOUS
  <2>4. k \in Ids /\ fired' \in {fired, [fired EXCEPT ![k] = @ + 1]}
    BY <1>8, <2>2, <2>3 DEF RunThunk, Frames
  <2>5. fired' \in [Ids -> Nat]
    <3>1. fired[k] + 1 \in Nat
      BY <1>1, <2>4
    <3>2. [fired EXCEPT ![k] = fired[k] + 1] \in [Ids -> Nat]
      BY <1>1, <3>1
    <3> QED
      BY <1>1, <2>4, <3>2
  <2> QED
    BY <1>8, <2>2, <2>5 DEF RunThunk, TypeOK
<1>9. CASE Dispatch
  <2>1. PICK id \in Ids, more \in BOOLEAN :
    /\ Frame(id, more)
    /\ \/ /\ pending[id] = "stream" /\ more
          /\ Enqueue(id, "chunk", pending)
       \/ /\ pending[id] \in Deferred /\ ~more
          /\ Enqueue(id, "done", Removed(id))
       \/ /\ Waiting(id)
          /\ pending' = [pending EXCEPT ![id] = "reply"]
          /\ UNCHANGED <<queue, drain, proc, failing>>
       \/ /\ pending[id] \in {"none", "reply"}
          /\ UNCHANGED <<pending, queue, drain, proc, failing>>
    BY <1>9 DEF Dispatch
  <2>2. chunks' \in [Ids -> 0 .. MaxChunks] /\ answered' \subseteq Ids
    <3>1. more => chunks[id] + 1 \in 0 .. MaxChunks
      BY <1>1, <2>1, CoreAssumption DEF Frame
    <3> QED
      BY <1>1, <2>1, <3>1 DEF Frame, TypeOK
  <2>3. PICK p, r : p = pending /\ r = Removed(id)
    OBVIOUS
  <2>4. p \in [Ids -> Entries] /\ r \in [Ids -> Entries]
    BY <1>1, <2>3, RemovedType
  <2>5. /\ pending' \in [Ids -> Entries] /\ queue' \in Seq(Thunks) /\ Len(queue') <= QueueMax
        /\ drain' \in {"none", "soon", "delayed"} /\ proc' \in {"live", "dead", "gone"} /\ failing' \subseteq Ids
    <3>1. CASE \E what \in {"chunk", "done"} : Enqueue(id, what, p) \/ Enqueue(id, what, r)
      BY <2>4, <3>1, EnqueueType
    <3>2. CASE pending' \in {pending, [pending EXCEPT ![id] = "reply"]} /\ UNCHANGED <<queue, drain, proc, failing>>
      BY <1>1, <3>2 DEF TypeOK
    <3> QED
      BY <2>1, <2>3, <3>1, <3>2
  <2> QED
    BY <2>1, <2>2, <2>5 DEF Frame, TypeOK
<1>10. CASE Timeout
  <2>1. PICK id \in timers :
    /\ timers' = timers \ {id}
    /\ IF pending[id] \in Deferred
       THEN Enqueue(id, "timeout", Removed(id))
       ELSE UNCHANGED <<pending, queue, drain, proc, failing>>
    BY <1>10 DEF Timeout
  <2>2. PICK r : r = Removed(id)
    OBVIOUS
  <2>3. id \in Ids /\ r \in [Ids -> Entries] /\ timers' \subseteq Ids
    BY <1>1, <2>1, <2>2, RemovedType
  <2>4. /\ pending' \in [Ids -> Entries] /\ queue' \in Seq(Thunks) /\ Len(queue') <= QueueMax
        /\ drain' \in {"none", "soon", "delayed"} /\ proc' \in {"live", "dead", "gone"} /\ failing' \subseteq Ids
    <3>1. CASE Enqueue(id, "timeout", r)
      BY <2>3, <3>1, EnqueueType
    <3> QED
      BY <2>1, <2>2, <3>1 DEF TypeOK
  <2> QED
    BY <1>10, <2>3, <2>4 DEF Timeout, TypeOK
<1>11. CASE Sentinel
  <2>1. PICK p : p = pending
    OBVIOUS
  <2>2. proc' = "gone" /\ pending' \in [Ids -> Entries] /\ failing' \subseteq Ids
    BY <1>1, <1>11, <2>1, FailPendingEffect DEF Sentinel
  <2> QED
    BY <1>11, <2>2 DEF Sentinel, TypeOK
<1>12. CASE FireFailure
  BY <1>1, <1>12 DEF FireFailure, TypeOK
<1>13. CASE CallbackDone
  <2>1. stack' \in Seq(Frames)
    BY <1>13, CallbackDoneEffect
  <2>2. errors' \in 0 .. MaxErrors
    BY <1>1, <1>13, CoreAssumption DEF CallbackDone
  <2> QED
    BY <1>13, <2>1, <2>2 DEF CallbackDone, TypeOK
<1>14. CASE UNCHANGED vars
  BY <1>14 DEF vars, TypeOK
<1> QED
  BY <1>3, <1>4, <1>5, <1>6, <1>7, <1>8, <1>9, <1>10, <1>11, <1>12, <1>13, <1>14 DEF Next

\* Every step keeps the type of the connection's state, and the callback queue
\* stays within its limit.
THEOREM TypeCorrect == Spec => []TypeOK
BY InitTypes, NextTypes, PTL DEF Spec

-----------------------------------------------------------------------------
(* Blocked requests and the drain *)

\* The waits on the stack stay where they are.
LEMMA StackKept ==
  ASSUME TypeOK, StackInv, Len(stack') = Len(stack), nextId' \in Nat, nextId' >= nextId,
         \A i \in 1 .. Len(stack) : stack'[i] = stack[i] \/ (stack'[i].what \notin Waits /\ stack[i].what \notin Waits),
         \A id \in Ids : Waiting(id)' => Waiting(id)
  PROVE  StackInv'
<1>1. PICK s, t, n : s = stack /\ t = stack' /\ n = Len(s)
  OBVIOUS
<1>2. \A i \in 1 .. n : s[i].id \in Ids
  <2>1. \A i \in 1 .. n : s[i] \in Frames
    BY <1>1 DEF TypeOK
  <2> QED
    BY <2>1 DEF Frames
<1>3. \A i \in 1 .. n : /\ t[i].what \notin Waits => s[i].what \notin Waits
                        /\ t[i].what = "request" => s[i] = t[i]
                        /\ s[i].what = "request" => s[i] = t[i]
  BY <1>1 DEF Waits
<1>4. \A i \in 1 .. n : \A id \in Ids : Asks(s, i, id) <=> Asks(t, i, id)
  BY <1>3 DEF Asks
<1>5. \A id \in Ids : Waiting(id)' => \E i \in 1 .. n : Asks(t, i, id)
  BY <1>1, <1>4 DEF StackInv
<1>6. \A i \in 1 .. n : t[i].what = "request" => t[i].id < nextId'
  <2>1. SUFFICES ASSUME NEW i \in 1 .. n, t[i].what = "request" PROVE t[i].id < nextId'
    OBVIOUS
  <2>2. s[i] = t[i] /\ s[i].id < nextId /\ s[i].id \in Ids
    BY <1>1, <1>2, <1>3, <2>1 DEF StackInv
  <2> QED
    BY <2>2 DEF TypeOK, Ids
<1>7. \A i, j \in 1 .. n : \A id \in Ids : t[i].what \notin Waits /\ i < j /\ Asks(t, j, id) => ~Waiting(id)'
  BY <1>1, <1>3, <1>4 DEF StackInv
<1> QED
  BY <1>1, <1>5, <1>6, <1>7 DEF StackInv

\* The first d frames go, and with them what waited there.
LEMMA StackPopped ==
  ASSUME TypeOK, StackInv, NEW d \in 1 .. Len(stack), Below(stack', stack, d), nextId' = nextId,
         \A id \in Ids : Waiting(id)' => Waiting(id) /\ \A i \in 1 .. d : ~Asks(stack, i, id)
  PROVE  StackInv'
<1>1. PICK s, t, m, n : s = stack /\ t = stack' /\ m = Len(s) /\ n = Len(t)
  OBVIOUS
<1>2. m \in Nat /\ n \in Nat /\ d \in 1 .. m /\ n = m - d /\ \A i \in 1 .. n : t[i] = s[i + d] /\ i + d \in 1 .. m
  BY <1>1 DEF Below, TypeOK
<1>3. \A i \in 1 .. n : \A id \in Ids : Asks(s, i + d, id) <=> Asks(t, i, id)
  BY <1>2 DEF Asks
<1>4. \A id \in Ids : Waiting(id)' => \E i \in 1 .. n : Asks(t, i, id)
  <2>1. SUFFICES ASSUME NEW id \in Ids, Waiting(id)' PROVE \E i \in 1 .. n : Asks(t, i, id)
    OBVIOUS
  <2>2. PICK i \in 1 .. m : Asks(s, i, id)
    BY <1>1, <2>1 DEF StackInv
  <2>3. i \notin 1 .. d
    BY <1>1, <2>1, <2>2
  <2>4. i - d \in 1 .. n /\ (i - d) + d = i
    BY <1>2, <2>3
  <2> QED
    BY <1>3, <2>2, <2>4
<1>5. \A i \in 1 .. n : t[i].what = "request" => t[i].id < nextId
  BY <1>1, <1>2 DEF StackInv
<1>6. \A i, j \in 1 .. n : \A id \in Ids : t[i].what \notin Waits /\ i < j /\ Asks(t, j, id) => ~Waiting(id)'
  <2>1. SUFFICES ASSUME NEW i \in 1 .. n, NEW j \in 1 .. n, NEW id \in Ids, t[i].what \notin Waits, i < j, Asks(t, j, id)
                 PROVE  ~Waiting(id)'
    OBVIOUS
  <2>2. i + d \in 1 .. m /\ j + d \in 1 .. m /\ i + d < j + d /\ s[i + d].what \notin Waits /\ Asks(s, j + d, id)
    BY <1>2, <1>3, <2>1
  <2>3. ~Waiting(id)
    BY <1>1, <2>2 DEF StackInv
  <2> QED
    BY <2>3
<1> QED
  BY <1>1, <1>4, <1>5, <1>6 DEF StackInv

\* A blocking call is made.
LEMMA StackPushed ==
  ASSUME TypeOK, StackInv, NEW x \in Frames, x.what \in Waits, x.id = nextId, nextId \in Ids,
         stack' = <<x>> \o stack, nextId' = nextId + 1,
         \A id \in Ids : Waiting(id)' => Waiting(id) \/ (x.what = "request" /\ id = nextId)
  PROVE  StackInv'
<1>1. PICK s, t, n : s = stack /\ t = stack' /\ n = Len(s)
  OBVIOUS
<1>2. s \in Seq(Frames) /\ n \in Nat /\ nextId \in Int
  BY <1>1 DEF TypeOK
<1>3. Below(s, t, 1) /\ t[1] = x
  BY <1>1, <1>2, PushedFrame
<1>4. Len(t) = n + 1 /\ \A i \in 1 .. n : s[i] = t[i + 1]
  <2>1. t \in Seq(Frames)
    BY <1>1, <1>2, PushedFrame
  <2>2. Len(t) \in Nat
    BY <2>1
  <2> QED
    BY <1>1, <1>2, <1>3, <2>2 DEF Below
<1>5. \A i \in 1 .. n + 1 : i = 1 \/ (i - 1 \in 1 .. n /\ t[i] = s[i - 1])
  <2>1. SUFFICES ASSUME NEW i \in 1 .. n + 1, i # 1 PROVE i - 1 \in 1 .. n /\ t[i] = s[i - 1]
    OBVIOUS
  <2>2. i - 1 \in 1 .. n /\ (i - 1) + 1 = i
    BY <1>2, <2>1
  <2> QED
    BY <1>4, <2>2
<1>6. \A id \in Ids : Waiting(id)' => \E i \in 1 .. n + 1 : Asks(t, i, id)
  <2>1. SUFFICES ASSUME NEW id \in Ids, Waiting(id)' PROVE \E i \in 1 .. n + 1 : Asks(t, i, id)
    OBVIOUS
  <2>2. CASE Waiting(id)
    <3>1. PICK i \in 1 .. n : Asks(s, i, id)
      BY <1>1, <2>2 DEF StackInv
    <3>2. i + 1 \in 1 .. n + 1 /\ Asks(t, i + 1, id)
      BY <1>2, <1>4, <3>1 DEF Asks
    <3> QED
      BY <3>2
  <2>3. CASE x.what = "request" /\ id = nextId
    <3>1. 1 \in 1 .. n + 1 /\ Asks(t, 1, id)
      BY <1>2, <1>3, <2>3 DEF Asks
    <3> QED
      BY <3>1
  <2> QED
    BY <2>1, <2>2, <2>3
<1>7. \A i \in 1 .. n : s[i].what = "request" => s[i].id < nextId /\ s[i].id \in Int
  <2>1. \A i \in 1 .. n : s[i] \in Frames
    BY <1>1, <1>2
  <2>2. \A i \in 1 .. n : s[i].id \in Int
    BY <2>1 DEF Frames, Ids
  <2> QED
    BY <1>1, <2>2 DEF StackInv
<1>8. \A i \in 1 .. n + 1 : t[i].what = "request" => t[i].id < nextId'
  <2>1. SUFFICES ASSUME NEW i \in 1 .. n + 1, t[i].what = "request" PROVE t[i].id < nextId'
    OBVIOUS
  <2>2. CASE i = 1
    BY <1>2, <1>3, <2>2
  <2>3. CASE i - 1 \in 1 .. n /\ t[i] = s[i - 1]
    BY <1>2, <1>7, <2>1, <2>3
  <2> QED
    BY <1>5, <2>2, <2>3
<1>9. \A i, j \in 1 .. n + 1 : \A id \in Ids : t[i].what \notin Waits /\ i < j /\ Asks(t, j, id) => ~Waiting(id)'
  <2>1. SUFFICES ASSUME NEW i \in 1 .. n + 1, NEW j \in 1 .. n + 1, NEW id \in Ids,
                        t[i].what \notin Waits, i < j, Asks(t, j, id)
                 PROVE  ~Waiting(id)'
    OBVIOUS
  <2>2. i # 1 /\ j # 1
    BY <1>2, <1>3, <2>1
  <2>3. /\ i - 1 \in 1 .. n /\ j - 1 \in 1 .. n /\ i - 1 < j - 1 /\ t[i] = s[i - 1] /\ t[j] = s[j - 1]
    BY <1>2, <1>5, <2>1, <2>2
  <2>4. s[i - 1].what \notin Waits /\ Asks(s, j - 1, id)
    BY <2>1, <2>3 DEF Asks
  <2>5. ~Waiting(id)
    BY <1>1, <2>3, <2>4 DEF StackInv
  <2>6. id # nextId
    BY <1>2, <1>7, <2>3, <2>4 DEF Asks
  <2> QED
    BY <2>5, <2>6
<1> QED
  BY <1>1, <1>4, <1>6, <1>8, <1>9 DEF StackInv

\* A drain starts where nobody waits.
LEMMA StackJoined ==
  ASSUME TypeOK, StackInv, stack' = queue \o stack, nextId' = nextId, \A id \in Ids : ~Waiting(id)'
  PROVE  StackInv'
<1>1. PICK s, t, q, n : s = stack /\ t = stack' /\ q = queue /\ n = Len(q)
  OBVIOUS
<1>2. s \in Seq(Frames) /\ q \in Seq(Thunks) /\ n \in Nat /\ t = q \o s
  BY <1>1 DEF TypeOK
<1>3. t \in Seq(Frames) /\ Below(s, t, n) /\ \A i \in 1 .. n : t[i] = q[i]
  BY <1>1, <1>2, JoinedFrames
<1>4. \A i \in 1 .. n : t[i].what # "request"
  <2>1. \A i \in 1 .. n : q[i] \in Thunks
    BY <1>1, <1>2
  <2> QED
    BY <1>3, <2>1 DEF Thunks, ThunkKinds
<1>5. \A i \in 1 .. Len(t) : i \in 1 .. n \/ (i - n \in 1 .. Len(s) /\ t[i] = s[i - n])
  <2>1. SUFFICES ASSUME NEW i \in 1 .. Len(t), i \notin 1 .. n PROVE i - n \in 1 .. Len(s) /\ t[i] = s[i - n]
    OBVIOUS
  <2>2. Len(t) \in Nat /\ Len(s) = Len(t) - n
    BY <1>3 DEF Below
  <2>3. i - n \in 1 .. Len(s) /\ (i - n) + n = i
    BY <1>2, <2>1, <2>2
  <2> QED
    BY <1>3, <2>3 DEF Below
<1>6. \A i \in 1 .. Len(t) : t[i].what = "request" => t[i].id < nextId
  BY <1>1, <1>4, <1>5 DEF StackInv
<1> QED
  BY <1>1, <1>6 DEF StackInv

LEMMA InitStack == Init => StackInv
<1> SUFFICES ASSUME Init PROVE StackInv
  OBVIOUS
<1>1. Len(stack) = 0 /\ \A id \in Ids : ~Waiting(id)
  BY DEF Init, Waiting
<1> QED
  BY <1>1 DEF StackInv

\* Nobody starts to wait when a callback is queued.
LEMMA EnqueueWaiting ==
  ASSUME TypeOK, NEW id \in Ids, NEW what, NEW p \in [Ids -> Entries], Enqueue(id, what, p)
  PROVE  \A k \in Ids : Waiting(k)' => p[k] = "waiting"
<1>1. CASE FailPending(p)
  BY <1>1, FailPendingEffect DEF Waiting, TypeOK
<1>2. CASE pending' = p
  BY <1>2 DEF Waiting
<1> QED
  BY <1>1, <1>2 DEF Enqueue

LEMMA NextStack == TypeOK /\ StackInv /\ [Next]_vars => StackInv'
<1> SUFFICES ASSUME TypeOK, StackInv, [Next]_vars PROVE StackInv'
  OBVIOUS
<1>1. /\ nextId \in Nat /\ pending \in [Ids -> Entries] /\ stack \in Seq(Frames) /\ timers \subseteq Ids
  BY DEF TypeOK, Entries
<1>2. CASE stack' = stack /\ nextId' = nextId /\ \A id \in Ids : Waiting(id)' => Waiting(id)
  BY <1>1, <1>2, StackKept
<1>3. CASE RequestDeferred
  <2>1. PICK k \in Deferred : NewId(k) /\ pending' = [pending EXCEPT ![nextId] = k] /\ stack' = stack
    BY <1>3 DEF RequestDeferred
  <2>2. nextId' = nextId + 1 /\ nextId \in Ids
    BY <2>1 DEF NewId
  <2>3. \A id \in Ids : Waiting(id)' => Waiting(id)
    BY <1>1, <2>1, <2>2 DEF Waiting, Deferred
  <2> QED
    BY <1>1, <2>1, <2>2, <2>3, StackKept
<1>4. CASE RequestSync \/ ReaddirSync
  <2>1. nextId' = nextId + 1 /\ nextId \in Ids
    BY <1>4 DEF RequestSync, ReaddirSync, NewId
  <2>2. PICK n : n = nextId
    OBVIOUS
  <2>3. CASE proc = "live"
    <3>1. PICK w \in Waits : /\ stack' = <<[id |-> n, what |-> w]>> \o stack
                             /\ \/ w = "request" /\ pending' = [pending EXCEPT ![n] = "waiting"]
                                \/ w = "listing" /\ pending' = [pending EXCEPT ![n] = "stream"]
      BY <1>4, <2>2, <2>3 DEF RequestSync, ReaddirSync, Waits
    <3>2. PICK x : x = [id |-> n, what |-> w]
      OBVIOUS
    <3>3. x \in Frames /\ x.what = w /\ x.id = nextId /\ stack' = <<x>> \o stack
      BY <2>1, <2>2, <3>1, <3>2 DEF Frames
    <3>4. \A id \in Ids : Waiting(id)' => Waiting(id) \/ (x.what = "request" /\ id = nextId)
      BY <1>1, <2>2, <3>1, <3>3 DEF Waiting
    <3> QED
      BY <2>1, <3>1, <3>3, <3>4, StackPushed
  <2>4. CASE proc # "live"
    <3>1. stack' = stack /\ pending' \in {pending, [pending EXCEPT ![n] = "stream"]}
      BY <1>4, <2>2, <2>4 DEF RequestSync, ReaddirSync
    <3>2. \A id \in Ids : Waiting(id)' => Waiting(id)
      BY <1>1, <3>1 DEF Waiting
    <3> QED
      BY <1>1, <2>1, <3>1, <3>2, StackKept
  <2> QED
    BY <2>3, <2>4
<1>5. CASE BlockedDone
  <2>1. stack # <<>> /\ stack' = Tail(stack) /\ pending' = [pending EXCEPT ![Top.id] = "none"] /\ nextId' = nextId
    BY <1>5 DEF BlockedDone
  <2>2. PICK k : k = Top.id
    OBVIOUS
  <2>3. Top = stack[1] /\ 1 \in 1 .. Len(stack) /\ Below(stack', stack, 1)
    BY <1>1, <2>1, PoppedFrame DEF Top
  <2>4. \A id \in Ids : Waiting(id)' => Waiting(id) /\ id # k
    BY <1>1, <2>1, <2>2 DEF Waiting
  <2>5. \A id \in Ids : Waiting(id)' => Waiting(id) /\ \A i \in 1 .. 1 : ~Asks(stack, i, id)
    BY <2>2, <2>3, <2>4 DEF Asks
  <2> QED
    BY <2>1, <2>3, <2>5, StackPopped
<1>6. CASE SyncSeesDeath \/ Cancel \/ Die \/ FireFailure \/ UNCHANGED vars
  <2>1. stack' = stack /\ nextId' = nextId
    BY <1>6 DEF SyncSeesDeath, Cancel, Die, FireFailure, vars
  <2>2. \A id \in Ids : Waiting(id)' => Waiting(id)
    BY <1>1, <1>6 DEF SyncSeesDeath, Cancel, Removed, Die, FireFailure, vars, Waiting
  <2> QED
    BY <1>2, <2>1, <2>2
<1>7. CASE StartDrain
  <2>1. UNCHANGED <<pending, nextId>>
    BY <1>7 DEF StartDrain
  <2>2. CASE stack' = stack
    BY <1>2, <2>1, <2>2 DEF Waiting
  <2>3. CASE stack' = queue \o stack /\ ~HasBlockedWaiter
    BY <1>1, <2>1, <2>3, StackJoined DEF Waiting, HasBlockedWaiter
  <2> QED
    BY <1>7, <2>2, <2>3 DEF StartDrain, ArrivalOrder
<1>8. CASE RunThunk
  <2>1. UNCHANGED <<pending, nextId>> /\ stack # <<>> /\ IsThunk(Top) /\ stack' = [stack EXCEPT ![1].what = "call"]
    BY <1>8 DEF RunThunk
  <2>2. /\ Len(stack') = Len(stack) /\ stack'[1].what = "call" /\ Top = stack[1]
        /\ \A i \in 2 .. Len(stack) : stack'[i] = stack[i]
    BY <1>1, <2>1, CalledFrame, PoppedFrame DEF Top
  <2>3. stack'[1].what \notin Waits /\ stack[1].what \notin Waits
    BY <2>1, <2>2 DEF IsThunk, ThunkKinds, Waits
  <2>4. \A i \in 1 .. Len(stack) : stack'[i] = stack[i] \/ (stack'[i].what \notin Waits /\ stack[i].what \notin Waits)
    <3>1. \A i \in 1 .. Len(stack) : i = 1 \/ i \in 2 .. Len(stack)
      OBVIOUS
    <3> QED
      BY <2>2, <2>3, <3>1
  <2>5. \A id \in Ids : Waiting(id)' => Waiting(id)
    BY <2>1 DEF Waiting
  <2> QED
    BY <1>1, <2>1, <2>2, <2>4, <2>5, StackKept
<1>13. CASE CallbackDone
  <2>1. UNCHANGED <<pending, nextId>>
    BY <1>13 DEF CallbackDone
  <2>2. PICK d \in 1 .. Len(stack) : Below(stack', stack, d) /\ \A i \in 1 .. d : stack[i].what \notin Waits
    BY <1>13, CallbackDoneEffect
  <2>3. \A id \in Ids : Waiting(id)' => Waiting(id) /\ \A i \in 1 .. d : ~Asks(stack, i, id)
    BY <2>1, <2>2 DEF Waiting, Asks, Waits
  <2> QED
    BY <2>1, <2>2, <2>3, StackPopped
<1>9. PICK p : p = pending
  OBVIOUS
<1>10. CASE Dispatch
  <2>1. PICK id \in Ids, more \in BOOLEAN :
    /\ Frame(id, more)
    /\ \/ Enqueue(id, "chunk", p)
       \/ Enqueue(id, "done", Removed(id))
       \/ pending' = [pending EXCEPT ![id] = "reply"]
       \/ UNCHANGED pending
    BY <1>9, <1>10 DEF Dispatch
  <2>2. PICK r : r = Removed(id)
    OBVIOUS
  <2>3. r \in [Ids -> Entries] /\ \A k \in Ids : r[k] = "waiting" => Waiting(k)
    BY <1>1, <2>2, RemovedType DEF Waiting
  <2>4. \A k \in Ids : Waiting(k)' => Waiting(k)
    <3>1. CASE Enqueue(id, "chunk", p)
      BY <1>1, <1>9, <3>1, EnqueueWaiting DEF Waiting
    <3>2. CASE Enqueue(id, "done", r)
      BY <2>3, <3>2, EnqueueWaiting
    <3>3. CASE pending' = [pending EXCEPT ![id] = "reply"] \/ UNCHANGED pending
      BY <1>1, <3>3 DEF Waiting
    <3> QED
      BY <2>1, <2>2, <3>1, <3>2, <3>3
  <2> QED
    BY <1>2, <2>1, <2>4 DEF Frame
<1>11. CASE Timeout
  <2>1. PICK id \in timers : Enqueue(id, "timeout", Removed(id)) \/ UNCHANGED pending
    BY <1>11 DEF Timeout
  <2>2. PICK r : r = Removed(id)
    OBVIOUS
  <2>3. id \in Ids /\ r \in [Ids -> Entries] /\ \A k \in Ids : r[k] = "waiting" => Waiting(k)
    BY <1>1, <2>2, RemovedType DEF Waiting
  <2>4. \A k \in Ids : Waiting(k)' => Waiting(k)
    BY <2>1, <2>2, <2>3, EnqueueWaiting DEF Waiting
  <2> QED
    BY <1>2, <1>11, <2>4 DEF Timeout
<1>12. CASE Sentinel
  <2>1. FailPending(p) /\ UNCHANGED <<stack, nextId>>
    BY <1>9, <1>12 DEF Sentinel
  <2>2. \A k \in Ids : Waiting(k)' => Waiting(k)
    BY <1>1, <1>9, <2>1, FailPendingEffect DEF TypeOK, Waiting
  <2> QED
    BY <1>2, <2>1, <2>2
<1> QED
  BY <1>3, <1>4, <1>5, <1>6, <1>7, <1>8, <1>10, <1>11, <1>12, <1>13 DEF Next

LEMMA CallbackNotUnder ==
  ASSUME TypeOK, StackInv, [Next]_vars, Calls
  PROVE  \A id \in Ids : ~Waiting(id)
<1> SUFFICES ASSUME NEW id \in Ids, Waiting(id) PROVE FALSE
  OBVIOUS
<1>1. stack \in Seq(Frames) /\ stack # <<>> /\ IsThunk(Top)
  BY DEF Calls, TypeOK
<1>2. Len(stack) \in Nat /\ 1 \in 1 .. Len(stack) /\ IsThunk(stack[1])
  BY <1>1, PoppedFrame DEF Top
<1>3. PICK j \in 1 .. Len(stack) : Asks(stack, j, id)
  BY DEF StackInv
<1>4. stack[1].what \notin Waits /\ stack[1].what # "request"
  BY <1>2 DEF IsThunk, ThunkKinds, Waits
<1>5. 1 < j
  BY <1>2, <1>3, <1>4 DEF Asks
<1> QED
  BY <1>2, <1>3, <1>4, <1>5 DEF StackInv

\* No callback of the queue runs underneath a blocking request, for any
\* nesting of requests, listings, drains and event handlers.
THEOREM NothingUnderWaiter == Spec => NoCallbackUnderWaiter
<1>1. TypeOK /\ StackInv /\ [Next]_vars => [Calls => \A id \in Ids : ~Waiting(id)]_vars
  BY CallbackNotUnder
<1> QED
  BY <1>1, InitTypes, NextTypes, InitStack, NextStack, PTL DEF Spec, NoCallbackUnderWaiter

-----------------------------------------------------------------------------
(* Completions *)

LEMMA EmptyThunks ==
  ASSUME NEW id
  PROVE  /\ ~HasFinal(<<>>, id) /\ ~HasChunk(<<>>, id) /\ OneFinal(<<>>, id) /\ ChunksBefore(<<>>, id)
<1>1. Len(<<>>) = 0
  OBVIOUS
<1> QED
  BY <1>1 DEF HasFinal, HasChunk, OneFinal, ChunksBefore

LEMMA AppendThunk ==
  ASSUME NEW q \in Seq(Thunks), NEW t \in Thunks, NEW r, r = Append(q, t), NEW id
  PROVE  /\ HasFinal(r, id) <=> HasFinal(q, id) \/ (t.id = id /\ Completes(t))
         /\ HasChunk(r, id) <=> HasChunk(q, id) \/ (t.id = id /\ t.what = "chunk")
         /\ OneFinal(q, id) /\ ~(HasFinal(q, id) /\ t.id = id /\ Completes(t)) => OneFinal(r, id)
         /\ ChunksBefore(q, id) /\ ~(HasFinal(q, id) /\ t.id = id /\ t.what = "chunk") => ChunksBefore(r, id)
<1>1. PICK n : n = Len(q)
  OBVIOUS
<1>2. n \in Nat /\ Len(r) = n + 1 /\ r[n + 1] = t /\ \A i \in 1 .. n : r[i] = q[i]
  BY <1>1, Appended
<1>3. \A i \in 1 .. n + 1 : i \in 1 .. n \/ i = n + 1
  BY <1>2
<1>4. \A i \in 1 .. n : i \in 1 .. n + 1 /\ (Final(r, i, id) <=> Final(q, i, id)) /\ (Chunk(r, i, id) <=> Chunk(q, i, id))
  BY <1>2 DEF Final, Chunk
<1>5. n + 1 \in 1 .. n + 1 /\ (Final(r, n + 1, id) <=> t.id = id /\ Completes(t)) /\ (Chunk(r, n + 1, id) <=> t.id = id /\ t.what = "chunk")
  BY <1>2 DEF Final, Chunk
<1>6. HasFinal(r, id) <=> HasFinal(q, id) \/ (t.id = id /\ Completes(t))
  BY <1>1, <1>2, <1>3, <1>4, <1>5 DEF HasFinal
<1>7. HasChunk(r, id) <=> HasChunk(q, id) \/ (t.id = id /\ t.what = "chunk")
  BY <1>1, <1>2, <1>3, <1>4, <1>5 DEF HasChunk
<1>8. OneFinal(q, id) /\ ~(HasFinal(q, id) /\ t.id = id /\ Completes(t)) => OneFinal(r, id)
  BY <1>1, <1>2, <1>3, <1>4, <1>5 DEF OneFinal, HasFinal
<1>9. ChunksBefore(q, id) /\ ~(HasFinal(q, id) /\ t.id = id /\ t.what = "chunk") => ChunksBefore(r, id)
  <2>1. SUFFICES ASSUME ChunksBefore(q, id), ~(HasFinal(q, id) /\ t.id = id /\ t.what = "chunk"),
                        NEW i \in 1 .. n + 1, NEW j \in 1 .. n + 1, Final(r, i, id), i < j
                 PROVE  ~Chunk(r, j, id)
    BY <1>2 DEF ChunksBefore
  <2>2. i \in 1 .. n
    BY <1>2, <2>1
  <2>3. CASE j \in 1 .. n
    BY <1>1, <1>4, <2>1, <2>2, <2>3 DEF ChunksBefore
  <2>4. CASE j = n + 1
    BY <1>1, <1>4, <1>5, <2>1, <2>2, <2>4 DEF HasFinal
  <2> QED
    BY <1>3, <2>3, <2>4
<1> QED
  BY <1>6, <1>7, <1>8, <1>9

\* Thunks leave the stack together with what is above them.
LEMMA BelowThunks ==
  ASSUME NEW s \in Seq(Frames), NEW t \in Seq(Frames), NEW d, Below(t, s, d), NEW id
  PROVE  /\ HasFinal(t, id) => HasFinal(s, id)
         /\ HasChunk(t, id) => HasChunk(s, id)
         /\ OneFinal(s, id) => OneFinal(t, id)
         /\ ChunksBefore(s, id) => ChunksBefore(t, id)
<1>1. PICK m, n : m = Len(s) /\ n = Len(t)
  OBVIOUS
<1>2. m \in Nat /\ n \in Nat /\ d \in 0 .. m /\ n = m - d /\ \A i \in 1 .. n : t[i] = s[i + d] /\ i + d \in 1 .. m
  BY <1>1 DEF Below
<1>3. \A i \in 1 .. n : (Final(t, i, id) <=> Final(s, i + d, id)) /\ (Chunk(t, i, id) <=> Chunk(s, i + d, id))
  BY <1>2 DEF Final, Chunk
<1>4. HasFinal(t, id) => HasFinal(s, id)
  BY <1>1, <1>2, <1>3 DEF HasFinal
<1>5. HasChunk(t, id) => HasChunk(s, id)
  BY <1>1, <1>2, <1>3 DEF HasChunk
<1>6. OneFinal(s, id) => OneFinal(t, id)
  <2>1. SUFFICES ASSUME OneFinal(s, id), NEW i \in 1 .. n, NEW j \in 1 .. n, Final(t, i, id), Final(t, j, id) PROVE i = j
    BY <1>1 DEF OneFinal
  <2>2. i + d = j + d
    BY <1>1, <1>2, <1>3, <2>1 DEF OneFinal
  <2> QED
    BY <1>2, <2>2
<1>7. ChunksBefore(s, id) => ChunksBefore(t, id)
  <2>1. SUFFICES ASSUME ChunksBefore(s, id), NEW i \in 1 .. n, NEW j \in 1 .. n, Final(t, i, id), i < j PROVE ~Chunk(t, j, id)
    BY <1>1 DEF ChunksBefore
  <2>2. i + d < j + d
    BY <1>2, <2>1
  <2> QED
    BY <1>1, <1>2, <1>3, <2>1, <2>2 DEF ChunksBefore
<1> QED
  BY <1>4, <1>5, <1>6, <1>7

\* A frame that is no thunk comes or goes.
LEMMA SameThunks ==
  ASSUME NEW s \in Seq(Frames), NEW t \in Seq(Frames), Below(t, s, 1), ~IsThunk(s[1]), NEW id
  PROVE  /\ HasFinal(t, id) <=> HasFinal(s, id)
         /\ HasChunk(t, id) <=> HasChunk(s, id)
         /\ OneFinal(t, id) <=> OneFinal(s, id)
         /\ ChunksBefore(t, id) <=> ChunksBefore(s, id)
<1>1. PICK m, n : m = Len(s) /\ n = Len(t)
  OBVIOUS
<1>2. m \in Nat /\ n \in Nat /\ m = n + 1 /\ \A i \in 1 .. n : t[i] = s[i + 1]
  BY <1>1 DEF Below
<1>3. ~Final(s, 1, id) /\ ~Chunk(s, 1, id)
  BY DEF Final, Chunk, IsThunk, ThunkKinds, Completes
<1>4. \A i \in 1 .. m : /\ Final(s, i, id) => i - 1 \in 1 .. n /\ Final(t, i - 1, id)
                        /\ Chunk(s, i, id) => i - 1 \in 1 .. n /\ Chunk(t, i - 1, id)
  <2>1. SUFFICES ASSUME NEW i \in 1 .. m, i # 1 PROVE i - 1 \in 1 .. n /\ t[i - 1] = s[i]
    BY <1>3 DEF Final, Chunk
  <2>2. i - 1 \in 1 .. n /\ (i - 1) + 1 = i
    BY <1>2, <2>1
  <2> QED
    BY <1>2, <2>2
<1>5. HasFinal(s, id) => HasFinal(t, id)
  BY <1>1, <1>4 DEF HasFinal
<1>6. HasChunk(s, id) => HasChunk(t, id)
  BY <1>1, <1>4 DEF HasChunk
<1>7. OneFinal(t, id) => OneFinal(s, id)
  <2>1. SUFFICES ASSUME OneFinal(t, id), NEW i \in 1 .. m, NEW j \in 1 .. m, Final(s, i, id), Final(s, j, id) PROVE i = j
    BY <1>1 DEF OneFinal
  <2>2. i - 1 = j - 1
    BY <1>1, <1>4, <2>1 DEF OneFinal
  <2> QED
    BY <1>2, <2>2
<1>8. ChunksBefore(t, id) => ChunksBefore(s, id)
  <2>1. SUFFICES ASSUME ChunksBefore(t, id), NEW i \in 1 .. m, NEW j \in 1 .. m, Final(s, i, id), i < j PROVE ~Chunk(s, j, id)
    BY <1>1 DEF ChunksBefore
  <2>2. i - 1 < j - 1
    BY <1>2, <2>1
  <2> QED
    BY <1>1, <1>4, <2>1, <2>2 DEF ChunksBefore
<1> QED
  BY <1>5, <1>6, <1>7, <1>8, BelowThunks

\* The thunk on top is called.
LEMMA CalledThunk ==
  ASSUME NEW s \in Seq(Frames), s # <<>>, NEW t, t = [s EXCEPT ![1].what = "call"], NEW h, h = Head(s), NEW id
  PROVE  /\ HasFinal(t, id) => HasFinal(s, id)
         /\ HasChunk(t, id) => HasChunk(s, id)
         /\ OneFinal(s, id) => OneFinal(t, id)
         /\ ChunksBefore(s, id) => ChunksBefore(t, id)
         /\ h.id = id /\ Completes(h) => /\ HasFinal(s, id)
                                         /\ OneFinal(s, id) => ~HasFinal(t, id)
                                         /\ ChunksBefore(s, id) => ~HasChunk(t, id)
         /\ h.id = id /\ h.what = "chunk" => HasChunk(s, id)
         /\ HasFinal(s, id) /\ ~(h.id = id /\ Completes(h)) => HasFinal(t, id)
<1>1. PICK n : n = Len(s)
  OBVIOUS
<1>2. /\ n \in Nat /\ 1 \in 1 .. n /\ Len(t) = n /\ h = s[1] /\ t[1].what = "call"
      /\ \A i \in 2 .. n : t[i] = s[i]
  BY <1>1, CalledFrame, PoppedFrame
<1>3. \A i \in 1 .. n : i = 1 \/ i \in 2 .. n
  BY <1>2
<1>4. ~Final(t, 1, id) /\ ~Chunk(t, 1, id)
  BY <1>2 DEF Final, Chunk, Completes
<1>5. \A i \in 2 .. n : i \in 1 .. n /\ 1 < i /\ (Final(t, i, id) <=> Final(s, i, id)) /\ (Chunk(t, i, id) <=> Chunk(s, i, id))
  BY <1>2 DEF Final, Chunk
<1>6. \A i \in 1 .. n : /\ Final(t, i, id) => Final(s, i, id) /\ i \in 2 .. n
                        /\ Chunk(t, i, id) => Chunk(s, i, id) /\ i \in 2 .. n
  BY <1>3, <1>4, <1>5
<1>7. (Final(s, 1, id) <=> h.id = id /\ Completes(h)) /\ (Chunk(s, 1, id) <=> h.id = id /\ h.what = "chunk")
  BY <1>2 DEF Final, Chunk
<1>8. HasFinal(t, id) => HasFinal(s, id)
  BY <1>1, <1>2, <1>6 DEF HasFinal
<1>9. HasChunk(t, id) => HasChunk(s, id)
  BY <1>1, <1>2, <1>6 DEF HasChunk
<1>10. OneFinal(s, id) => OneFinal(t, id)
  BY <1>1, <1>2, <1>6 DEF OneFinal
<1>11. ChunksBefore(s, id) => ChunksBefore(t, id)
  BY <1>1, <1>2, <1>6 DEF ChunksBefore
<1>12. ASSUME h.id = id, Completes(h)
       PROVE  HasFinal(s, id) /\ (OneFinal(s, id) => ~HasFinal(t, id)) /\ (ChunksBefore(s, id) => ~HasChunk(t, id))
  <2>1. HasFinal(s, id)
    BY <1>1, <1>2, <1>7, <1>12 DEF HasFinal
  <2>2. OneFinal(s, id) => ~HasFinal(t, id)
    <3>1. SUFFICES ASSUME OneFinal(s, id), NEW i \in 1 .. n, Final(t, i, id) PROVE FALSE
      BY <1>2 DEF HasFinal
    <3>2. Final(s, 1, id) /\ Final(s, i, id) /\ 1 < i
      BY <1>5, <1>6, <1>7, <1>12, <3>1
    <3>3. 1 = i
      BY <1>1, <1>2, <3>1, <3>2 DEF OneFinal
    <3> QED
      BY <3>2, <3>3
  <2>3. ChunksBefore(s, id) => ~HasChunk(t, id)
    BY <1>1, <1>2, <1>5, <1>6, <1>7, <1>12 DEF ChunksBefore, HasChunk
  <2> QED
    BY <2>1, <2>2, <2>3
<1>13. h.id = id /\ h.what = "chunk" => HasChunk(s, id)
  BY <1>1, <1>2, <1>7 DEF HasChunk
<1>14. HasFinal(s, id) /\ ~(h.id = id /\ Completes(h)) => HasFinal(t, id)
  BY <1>1, <1>2, <1>3, <1>5, <1>7 DEF HasFinal
<1> QED
  BY <1>8, <1>9, <1>10, <1>11, <1>12, <1>13, <1>14

\* A drain puts the queue on the stack.
LEMMA JoinedThunks ==
  ASSUME NEW q \in Seq(Thunks), NEW s \in Seq(Frames), NEW t, t = q \o s, NEW id
  PROVE  /\ HasFinal(t, id) <=> HasFinal(q, id) \/ HasFinal(s, id)
         /\ HasChunk(t, id) <=> HasChunk(q, id) \/ HasChunk(s, id)
         /\ OneFinal(q, id) /\ OneFinal(s, id) /\ ~(HasFinal(q, id) /\ HasFinal(s, id)) => OneFinal(t, id)
         /\ ChunksBefore(q, id) /\ ~HasChunk(s, id) => ChunksBefore(t, id)
<1>1. PICK m, n : m = Len(q) /\ n = Len(s)
  OBVIOUS
<1>2. t \in Seq(Frames) /\ Below(s, t, m) /\ \A i \in 1 .. m : t[i] = q[i]
  BY <1>1, JoinedFrames
<1>3. m \in Nat /\ n \in Nat /\ Len(t) = m + n /\ \A i \in 1 .. n : s[i] = t[i + m]
  <2>1. Len(t) \in Nat /\ n = Len(t) - m /\ m \in Nat /\ n \in Nat
    BY <1>1, <1>2 DEF Below
  <2> QED
    BY <1>1, <1>2, <2>1 DEF Below
<1>4. \A i \in 1 .. m : i \in 1 .. m + n /\ (Final(t, i, id) <=> Final(q, i, id)) /\ (Chunk(t, i, id) <=> Chunk(q, i, id))
  BY <1>2, <1>3 DEF Final, Chunk
<1>5. \A i \in 1 .. m + n : i \in 1 .. m \/ (i - m \in 1 .. n /\ t[i] = s[i - m])
  <2>1. SUFFICES ASSUME NEW i \in 1 .. m + n, i \notin 1 .. m PROVE i - m \in 1 .. n /\ t[i] = s[i - m]
    OBVIOUS
  <2>2. i - m \in 1 .. n /\ (i - m) + m = i
    BY <1>3, <2>1
  <2> QED
    BY <1>3, <2>2
<1>6. \A i \in 1 .. m + n : \/ i \in 1 .. m
                            \/ /\ i - m \in 1 .. n
                               /\ (Final(t, i, id) <=> Final(s, i - m, id)) /\ (Chunk(t, i, id) <=> Chunk(s, i - m, id))
  BY <1>5 DEF Final, Chunk
<1>7. HasFinal(t, id) <=> HasFinal(q, id) \/ HasFinal(s, id)
  <2>1. HasFinal(t, id) => HasFinal(q, id) \/ HasFinal(s, id)
    BY <1>1, <1>3, <1>4, <1>6 DEF HasFinal
  <2>2. HasFinal(q, id) => HasFinal(t, id)
    BY <1>1, <1>3, <1>4 DEF HasFinal
  <2> QED
    BY <1>2, <2>1, <2>2, BelowThunks
<1>8. HasChunk(t, id) <=> HasChunk(q, id) \/ HasChunk(s, id)
  <2>1. HasChunk(t, id) => HasChunk(q, id) \/ HasChunk(s, id)
    BY <1>1, <1>3, <1>4, <1>6 DEF HasChunk
  <2>2. HasChunk(q, id) => HasChunk(t, id)
    BY <1>1, <1>3, <1>4 DEF HasChunk
  <2> QED
    BY <1>2, <2>1, <2>2, BelowThunks
<1>9. OneFinal(q, id) /\ OneFinal(s, id) /\ ~(HasFinal(q, id) /\ HasFinal(s, id)) => OneFinal(t, id)
  <2>1. SUFFICES ASSUME OneFinal(q, id), OneFinal(s, id), ~(HasFinal(q, id) /\ HasFinal(s, id)),
                        NEW i \in 1 .. m + n, NEW j \in 1 .. m + n, Final(t, i, id), Final(t, j, id)
                 PROVE  i = j
    BY <1>3 DEF OneFinal
  <2>2. CASE i \in 1 .. m /\ j \in 1 .. m
    BY <1>1, <1>4, <2>1, <2>2 DEF OneFinal
  <2>3. CASE i \notin 1 .. m /\ j \notin 1 .. m
    <3>1. i - m = j - m
      BY <1>1, <1>6, <2>1, <2>3 DEF OneFinal
    <3> QED
      BY <1>3, <3>1
  <2>4. CASE (i \in 1 .. m /\ j \notin 1 .. m) \/ (i \notin 1 .. m /\ j \in 1 .. m)
    BY <1>1, <1>4, <1>6, <2>1, <2>4 DEF HasFinal
  <2> QED
    BY <2>2, <2>3, <2>4
<1>10. ChunksBefore(q, id) /\ ~HasChunk(s, id) => ChunksBefore(t, id)
  <2>1. SUFFICES ASSUME ChunksBefore(q, id), ~HasChunk(s, id),
                        NEW i \in 1 .. m + n, NEW j \in 1 .. m + n, Final(t, i, id), i < j, Chunk(t, j, id)
                 PROVE  FALSE
    BY <1>3 DEF ChunksBefore
  <2>2. j \in 1 .. m
    BY <1>1, <1>6, <2>1 DEF HasChunk
  <2>3. i \in 1 .. m
    BY <1>3, <2>1, <2>2
  <2> QED
    BY <1>1, <1>4, <2>1, <2>2, <2>3 DEF ChunksBefore
<1> QED
  BY <1>7, <1>8, <1>9, <1>10

LEMMA InitOnce == Init => OnceInv /\ LastInv
<1> SUFFICES ASSUME Init PROVE OnceInv /\ LastInv
  OBVIOUS
<1>1. /\ queue = <<>> /\ stack = <<>> /\ failing = {} /\ cancelled = {}
      /\ \A id \in Ids : pending[id] = "none" /\ fired[id] = 0
  BY DEF Init
<1> QED
  BY <1>1, EmptyThunks DEF OnceInv, LastInv, Deferred

\* Nothing happens to the queue; entries may leave the table or be blocked.
LEMMA OnceKept ==
  ASSUME TypeOK, OnceInv, UNCHANGED <<queue, stack, failing, cancelled, fired>>, nextId' \in Nat, nextId' >= nextId,
         \A id \in Ids : pending'[id] \in Deferred => pending[id] \in Deferred
  PROVE  OnceInv'
<1>1. \A id \in Ids : id \in Int /\ nextId \in Int /\ (id >= nextId' => id >= nextId)
  BY DEF TypeOK, Ids
<1> QED
  BY <1>1 DEF OnceInv

\* The process is gone: completions in the table move to failure timers.
LEMMA FailOnce ==
  ASSUME TypeOK, OnceInv, NEW p \in [Ids -> Entries], FailPending(p), UNCHANGED <<queue, stack, cancelled, fired, nextId>>,
         \A id \in Ids : p[id] \in Deferred => pending[id] \in Deferred
  PROVE  OnceInv'
<1>1. \A id \in Ids : /\ pending'[id] \notin Deferred
                      /\ id \in failing' <=> id \in failing \/ p[id] \in Deferred
  BY FailPendingEffect DEF TypeOK
<1> QED
  BY <1>1 DEF OnceInv

LEMMA EnqueueOnce ==
  ASSUME TypeOK, OnceInv, NEW id \in Ids, pending[id] \in Deferred, NEW what \in {"chunk", "done", "timeout"},
         NEW p \in [Ids -> Entries], p = IF what = "chunk" THEN pending ELSE Removed(id),
         Enqueue(id, what, p), UNCHANGED <<stack, cancelled, fired, nextId>>
  PROVE  OnceInv'
<1>1. \A k \in Ids : /\ p[k] \in Deferred => pending[k] \in Deferred
                     /\ what # "chunk" => p[id] = "none"
  BY RemovedType
<1>2. CASE QueueFull
  BY <1>1, <1>2, FailOnce DEF Enqueue
<1>3. CASE ~QueueFull
  <2>1. PICK q, t, r : q = queue /\ t = [id |-> id, what |-> what] /\ r = Append(q, t)
    OBVIOUS
  <2>2. /\ q \in Seq(Thunks) /\ t \in Thunks /\ queue' = r /\ pending' = p /\ failing' = failing
        /\ t.id = id /\ (Completes(t) <=> what # "chunk")
    BY <1>3, <2>1 DEF Enqueue, TypeOK, Thunks, ThunkKinds, Completes
  <2>3. \A k \in Ids : /\ HasFinal(r, k) <=> HasFinal(q, k) \/ (id = k /\ what # "chunk")
                       /\ OneFinal(q, k) /\ ~(HasFinal(q, k) /\ id = k /\ what # "chunk") => OneFinal(r, k)
    <3>1. SUFFICES ASSUME NEW k \in Ids
                   PROVE  /\ HasFinal(r, k) <=> HasFinal(q, k) \/ (id = k /\ what # "chunk")
                          /\ OneFinal(q, k) /\ ~(HasFinal(q, k) /\ id = k /\ what # "chunk") => OneFinal(r, k)
      OBVIOUS
    <3>2. /\ HasFinal(r, k) <=> HasFinal(q, k) \/ (t.id = k /\ Completes(t))
          /\ OneFinal(q, k) /\ ~(HasFinal(q, k) /\ t.id = k /\ Completes(t)) => OneFinal(r, k)
      <4>1. q \in Seq(Thunks) /\ t \in Thunks /\ r = Append(q, t)
        BY <2>1, <2>2
      <4> QED
        BY <4>1, AppendThunk
    <3> QED
      BY <2>2, <3>2
  <2>4. \A k \in Ids : OneFinal(queue, k)' /\ (HasFinal(queue, k)' => HasFinal(queue, k) \/ (id = k /\ what # "chunk"))
    <3>1. \A k \in Ids : OneFinal(r, k) /\ (HasFinal(r, k) => HasFinal(queue, k) \/ (id = k /\ what # "chunk"))
      BY <2>1, <2>3 DEF OnceInv
    <3> QED
      BY <2>2, <3>1
  <2>5. \A k \in Ids : pending'[k] \in Deferred => pending[k] \in Deferred /\ (k = id => what = "chunk")
    BY <1>1, <2>2 DEF Deferred
  <2> QED
    BY <2>2, <2>4, <2>5 DEF OnceInv
<1> QED
  BY <1>2, <1>3

LEMMA EnqueueLast ==
  ASSUME TypeOK, OnceInv, LastInv, NEW id \in Ids, pending[id] \in Deferred, NEW what \in {"chunk", "done", "timeout"},
         NEW p \in [Ids -> Entries], Enqueue(id, what, p), UNCHANGED <<stack, fired, overtaken>>
  PROVE  LastInv'
<1>1. CASE QueueFull
  BY <1>1 DEF Enqueue, FailPending, LastInv
<1>2. CASE ~QueueFull
  <2>1. PICK q, t, r : q = queue /\ t = [id |-> id, what |-> what] /\ r = Append(q, t)
    OBVIOUS
  <2>2. /\ q \in Seq(Thunks) /\ t \in Thunks /\ queue' = r /\ failing' = failing /\ proc' = proc
        /\ t.id = id /\ (Completes(t) <=> what # "chunk")
    BY <1>2, <2>1 DEF Enqueue, TypeOK, Thunks, ThunkKinds, Completes
  <2>3. ~HasFinal(q, id) /\ ~HasFinal(stack, id) /\ fired[id] = 0
    BY <2>1 DEF OnceInv
  <2>4. \A k \in Ids : /\ HasChunk(r, k) => HasChunk(q, k) \/ id = k
                       /\ ChunksBefore(q, k) => ChunksBefore(r, k)
    <3>1. SUFFICES ASSUME NEW k \in Ids
                   PROVE  (HasChunk(r, k) => HasChunk(q, k) \/ id = k) /\ (ChunksBefore(q, k) => ChunksBefore(r, k))
      OBVIOUS
    <3>2. /\ HasChunk(r, k) <=> HasChunk(q, k) \/ (t.id = k /\ t.what = "chunk")
          /\ ChunksBefore(q, k) /\ ~(HasFinal(q, k) /\ t.id = k /\ t.what = "chunk") => ChunksBefore(r, k)
      <4>1. q \in Seq(Thunks) /\ t \in Thunks /\ r = Append(q, t)
        BY <2>1, <2>2
      <4> QED
        BY <4>1, AppendThunk
    <3> QED
      BY <2>2, <2>3, <3>2
  <2>5. \A k \in Ids : /\ HasChunk(queue, k)' => HasChunk(queue, k) \/ id = k
                       /\ ChunksBefore(queue, k) => ChunksBefore(queue, k)'
    BY <2>1, <2>2, <2>4
  <2> QED
    BY <2>2, <2>3, <2>5 DEF LastInv
<1> QED
  BY <1>1, <1>2

\* The thunks on the stack stay, or some of them go.
LEMMA ThunksKept ==
  ASSUME TypeOK, OnceInv, LastInv, UNCHANGED <<queue, failing, cancelled, fired, overtaken>>, proc' = proc \/ proc' # "live",
         nextId' \in Nat, nextId' >= nextId,
         \A id \in Ids : pending'[id] \in Deferred => pending[id] \in Deferred,
         \A id \in Ids : /\ HasFinal(stack, id)' => HasFinal(stack, id)
                         /\ HasChunk(stack, id)' => HasChunk(stack, id)
                         /\ OneFinal(stack, id) => OneFinal(stack, id)'
                         /\ ChunksBefore(stack, id) => ChunksBefore(stack, id)'
  PROVE  OnceInv' /\ LastInv'
<1>1. \A id \in Ids : id \in Int /\ nextId \in Int /\ (id >= nextId' => id >= nextId)
  BY DEF TypeOK, Ids
<1>2. OnceInv'
  BY <1>1 DEF OnceInv
<1>3. LastInv'
  BY DEF LastInv
<1> QED
  BY <1>2, <1>3

LEMMA NextOnce == TypeOK /\ OnceInv /\ LastInv /\ [Next]_vars => OnceInv' /\ LastInv'
<1> SUFFICES ASSUME TypeOK, OnceInv, LastInv, [Next]_vars PROVE OnceInv' /\ LastInv'
  OBVIOUS
<1>1. /\ nextId \in Nat /\ pending \in [Ids -> Entries] /\ stack \in Seq(Frames) /\ timers \subseteq Ids
      /\ queue \in Seq(Thunks) /\ fired \in [Ids -> Nat] /\ failing \subseteq Ids
  BY DEF TypeOK, Entries
<1>2. ASSUME UNCHANGED <<queue, stack, failing, fired, overtaken>>, proc' = proc \/ proc' # "live" PROVE LastInv'
  BY <1>2 DEF LastInv
<1>3. CASE RequestDeferred \/ RequestSync \/ ReaddirSync
  <2>1. PICK k \in Kinds : NewId(k) /\ \/ k \in Deferred /\ pending' = [pending EXCEPT ![nextId] = k]
                                       \/ pending' \in {pending, [pending EXCEPT ![nextId] = "waiting"]}
    BY <1>3 DEF RequestDeferred, RequestSync, ReaddirSync, Kinds, Deferred
  <2>2. nextId \in Ids /\ nextId' = nextId + 1 /\ UNCHANGED <<queue, failing, fired, cancelled, proc, overtaken>>
    BY <2>1 DEF NewId
  <2>3. \A id \in Ids : /\ id \in Int /\ (id >= nextId' => id >= nextId /\ id # nextId)
                        /\ id # nextId => pending'[id] = pending[id]
    <3>1. \A id \in Ids : id # nextId => pending'[id] = pending[id]
      BY <1>1, <2>1, <2>2
    <3> QED
      BY <1>1, <2>2, <3>1 DEF Ids
  <2>4. nextId >= nextId
    BY <1>1
  <2>5. stack' = stack \/ \E w \in Waits : stack' = <<[id |-> nextId, what |-> w]>> \o stack
    BY <1>3 DEF RequestDeferred, RequestSync, ReaddirSync, Waits
  <2>6. PICK s, t : s = stack /\ t = stack'
    OBVIOUS
  <2>7. \A id \in Ids : /\ HasFinal(t, id) <=> HasFinal(s, id)
                        /\ HasChunk(t, id) <=> HasChunk(s, id)
                        /\ OneFinal(t, id) <=> OneFinal(s, id)
                        /\ ChunksBefore(t, id) <=> ChunksBefore(s, id)
    <3>1. CASE \E w \in Waits : stack' = <<[id |-> nextId, what |-> w]>> \o stack
      <4>1. PICK w \in Waits : stack' = <<[id |-> nextId, what |-> w]>> \o stack
        BY <3>1
      <4>2. PICK x : x = [id |-> nextId, what |-> w]
        OBVIOUS
      <4>3. x \in Frames /\ ~IsThunk(x) /\ t = <<x>> \o s /\ s \in Seq(Frames)
        BY <1>1, <2>2, <2>6, <4>1, <4>2 DEF Frames, Waits, IsThunk, ThunkKinds
      <4>4. t \in Seq(Frames) /\ Below(s, t, 1) /\ t[1] = x
        BY <4>3, PushedFrame
      <4> QED
        BY <4>3, <4>4, SameThunks
    <3> QED
      BY <2>5, <2>6, <3>1
  <2>8. \A id \in Ids : /\ HasFinal(stack, id)' <=> HasFinal(stack, id)
                        /\ HasChunk(stack, id)' <=> HasChunk(stack, id)
                        /\ OneFinal(stack, id)' <=> OneFinal(stack, id)
                        /\ ChunksBefore(stack, id)' <=> ChunksBefore(stack, id)
    BY <2>6, <2>7
  <2>9. OnceInv'
    BY <2>2, <2>3, <2>4, <2>8 DEF OnceInv
  <2>10. LastInv'
    BY <2>2, <2>8 DEF LastInv
  <2> QED
    BY <2>9, <2>10
<1>4. CASE BlockedDone
  <2>1. /\ stack # <<>> /\ Top.what \in Waits /\ stack' = Tail(stack)
        /\ UNCHANGED <<nextId, queue, failing, fired, proc, overtaken>>
    BY <1>4 DEF BlockedDone
  <2>2. PICK s, t, k : s = stack /\ t = stack' /\ k = Top.id
    OBVIOUS
  <2>3. /\ pending' = [pending EXCEPT ![k] = "none"]
        /\ cancelled' = IF pending[k] \in Deferred THEN cancelled \cup {k} ELSE cancelled
    BY <1>4, <2>2 DEF BlockedDone
  <2>4. s \in Seq(Frames) /\ t \in Seq(Frames) /\ Below(t, s, 1) /\ s[1] = Top
    BY <1>1, <2>1, <2>2, PoppedFrame DEF Top
  <2>5. ~IsThunk(s[1])
    BY <2>1, <2>4 DEF IsThunk, ThunkKinds, Waits
  <2>6. \A id \in Ids : /\ HasFinal(stack, id)' <=> HasFinal(stack, id)
                        /\ HasChunk(stack, id)' <=> HasChunk(stack, id)
                        /\ OneFinal(stack, id)' <=> OneFinal(stack, id)
                        /\ ChunksBefore(stack, id)' <=> ChunksBefore(stack, id)
    <3>1. \A id \in Ids : /\ HasFinal(t, id) <=> HasFinal(s, id)
                          /\ HasChunk(t, id) <=> HasChunk(s, id)
                          /\ OneFinal(t, id) <=> OneFinal(s, id)
                          /\ ChunksBefore(t, id) <=> ChunksBefore(s, id)
      BY <2>4, <2>5, SameThunks
    <3> QED
      BY <2>2, <3>1
  <2>7. \A id \in Ids : pending'[id] = IF id = k THEN "none" ELSE pending[id]
    BY <1>1, <2>3
  <2>8. "none" \notin Deferred
    BY DEF Deferred
  <2>9. OnceInv'
    BY <2>1, <2>3, <2>6, <2>7, <2>8 DEF OnceInv
  <2>10. LastInv'
    BY <2>1, <2>6 DEF LastInv
  <2> QED
    BY <2>9, <2>10
<1>5. CASE SyncSeesDeath
  <2>1. UNCHANGED <<nextId, queue, stack, failing, fired, cancelled, proc, overtaken>>
    BY <1>5 DEF SyncSeesDeath
  <2>2. \A id \in Ids : pending'[id] \in Deferred => pending[id] \in Deferred
    BY <1>1, <1>5 DEF SyncSeesDeath, Deferred
  <2> QED
    BY <1>1, <1>2, <2>1, <2>2, OnceKept
<1>6. CASE Cancel
  <2>1. PICK id \in Ids : pending[id] \in Deferred /\ pending' = Removed(id) /\ cancelled' = cancelled \cup {id}
    BY <1>6 DEF Cancel
  <2>2. UNCHANGED <<nextId, queue, stack, failing, fired, proc, overtaken>>
    BY <1>6 DEF Cancel
  <2>3. \A k \in Ids : pending'[k] = IF k = id THEN "none" ELSE pending[k]
    BY <2>1, RemovedType
  <2>4. "none" \notin Deferred
    BY DEF Deferred
  <2>5. OnceInv'
    BY <2>1, <2>2, <2>3, <2>4 DEF OnceInv
  <2> QED
    BY <1>2, <2>2, <2>5
<1>7. CASE Die \/ UNCHANGED vars
  <2>1. UNCHANGED <<nextId, pending, queue, stack, failing, fired, cancelled, overtaken>> /\ (proc' = proc \/ proc' # "live")
    BY <1>7 DEF Die, vars
  <2> QED
    BY <1>1, <1>2, <2>1, OnceKept
<1>8. CASE StartDrain
  <2>1. UNCHANGED <<nextId, pending, failing, fired, cancelled, proc>>
    BY <1>8 DEF StartDrain
  <2>2. CASE UNCHANGED <<queue, stack, overtaken>>
    BY <1>1, <1>2, <2>1, <2>2, OnceKept
  <2>3. CASE /\ stack' = queue \o stack /\ queue' = <<>>
             /\ overtaken' = overtaken \cup {stack[i].id : i \in {j \in DOMAIN stack : stack[j].what = "chunk"}}
    <3>1. PICK q, s, t : q = queue /\ s = stack /\ t = stack'
      OBVIOUS
    <3>2. \A id \in Ids : ~HasFinal(queue, id)' /\ ~HasChunk(queue, id)' /\ OneFinal(queue, id)' /\ ChunksBefore(queue, id)'
      BY <2>3, EmptyThunks
    <3>3. \A id \in Ids : /\ HasFinal(t, id) <=> HasFinal(q, id) \/ HasFinal(s, id)
                          /\ HasChunk(t, id) <=> HasChunk(q, id) \/ HasChunk(s, id)
                          /\ OneFinal(q, id) /\ OneFinal(s, id) /\ ~(HasFinal(q, id) /\ HasFinal(s, id)) => OneFinal(t, id)
                          /\ ChunksBefore(q, id) /\ ~HasChunk(s, id) => ChunksBefore(t, id)
      BY <1>1, <2>3, <3>1, JoinedThunks
    <3>4. \A id \in Ids : /\ HasFinal(stack, id)' <=> HasFinal(queue, id) \/ HasFinal(stack, id)
                          /\ HasChunk(stack, id)' <=> HasChunk(queue, id) \/ HasChunk(stack, id)
                          /\ OneFinal(queue, id) /\ OneFinal(stack, id) /\ ~(HasFinal(queue, id) /\ HasFinal(stack, id)) => OneFinal(stack, id)'
                          /\ ChunksBefore(queue, id) /\ ~HasChunk(stack, id) => ChunksBefore(stack, id)'
      BY <3>1, <3>3
    <3>5. \A id \in Ids : HasChunk(stack, id) => id \in overtaken'
      <4>1. DOMAIN stack = 1 .. Len(stack)
        BY <1>1
      <4> QED
        BY <2>3, <4>1 DEF HasChunk, Chunk
    <3>6. OnceInv'
      BY <2>1, <3>2, <3>4 DEF OnceInv
    <3>7. overtaken \subseteq overtaken'
      BY <2>3
    <3>8. LastInv'
      BY <2>1, <3>2, <3>4, <3>5, <3>7 DEF LastInv
    <3> QED
      BY <3>6, <3>8
  <2> QED
    BY <1>8, <2>2, <2>3 DEF StartDrain, ArrivalOrder
<1>9. CASE RunThunk
  <2>1. /\ stack # <<>> /\ stack' = [stack EXCEPT ![1].what = "call"]
        /\ UNCHANGED <<nextId, pending, queue, failing, cancelled, proc, overtaken>>
    BY <1>9 DEF RunThunk
  <2>2. PICK s, h, t, k : s = stack /\ h = Head(s) /\ t = stack' /\ k = h.id
    OBVIOUS
  <2>3. h \in Frames /\ k \in Ids
    BY <1>1, <2>1, <2>2, PoppedFrame DEF Frames
  <2>4. fired' = IF Completes(h) THEN [fired EXCEPT ![k] = @ + 1] ELSE fired
    BY <1>9, <2>2 DEF RunThunk, Top
  <2>5. \A id \in Ids : /\ fired[id] \in Nat
                        /\ fired'[id] = IF Completes(h) /\ id = k THEN fired[id] + 1 ELSE fired[id]
    BY <1>1, <2>3, <2>4
  <2>6. \A id \in Ids : /\ HasFinal(t, id) => HasFinal(s, id)
                        /\ HasChunk(t, id) => HasChunk(s, id)
                        /\ OneFinal(s, id) => OneFinal(t, id)
                        /\ ChunksBefore(s, id) => ChunksBefore(t, id)
                        /\ k = id /\ Completes(h) => /\ HasFinal(s, id)
                                                     /\ OneFinal(s, id) => ~HasFinal(t, id)
                                                     /\ ChunksBefore(s, id) => ~HasChunk(t, id)
    <3>1. s \in Seq(Frames) /\ s # <<>> /\ t = [s EXCEPT ![1].what = "call"] /\ h = Head(s)
      BY <1>1, <2>1, <2>2
    <3>2. SUFFICES ASSUME NEW id \in Ids
                   PROVE  /\ HasFinal(t, id) => HasFinal(s, id)
                          /\ HasChunk(t, id) => HasChunk(s, id)
                          /\ OneFinal(s, id) => OneFinal(t, id)
                          /\ ChunksBefore(s, id) => ChunksBefore(t, id)
                          /\ k = id /\ Completes(h) => /\ HasFinal(s, id)
                                                       /\ OneFinal(s, id) => ~HasFinal(t, id)
                                                       /\ ChunksBefore(s, id) => ~HasChunk(t, id)
      OBVIOUS
    <3> QED
      BY <2>2, <3>1, CalledThunk
  <2>7. \A id \in Ids : /\ HasFinal(stack, id)' => HasFinal(stack, id)
                        /\ HasChunk(stack, id)' => HasChunk(stack, id)
                        /\ OneFinal(stack, id) => OneFinal(stack, id)'
                        /\ ChunksBefore(stack, id) => ChunksBefore(stack, id)'
                        /\ k = id /\ Completes(h) => /\ HasFinal(stack, id)
                                                     /\ OneFinal(stack, id) => ~HasFinal(stack, id)'
                                                     /\ ChunksBefore(stack, id) => ~HasChunk(stack, id)'
    BY <2>2, <2>6
  <2>8. OnceInv'
    <3>2. CASE Completes(h)
      <4>1. HasFinal(stack, k) /\ ~HasFinal(stack, k)' /\ fired[k] = 0 /\ fired'[k] = 1
        BY <2>3, <2>5, <2>7, <3>2 DEF OnceInv
      <4>2. \A id \in Ids : id # k => fired'[id] = fired[id]
        BY <2>5
      <4>3. /\ pending[k] \notin Deferred /\ k \notin failing /\ ~HasFinal(queue, k) /\ k \notin cancelled /\ ~(k >= nextId)
            /\ OneFinal(queue, k) /\ OneFinal(stack, k)
        BY <2>3, <4>1 DEF OnceInv
      <4>4. /\ OneFinal(queue, k)' /\ OneFinal(stack, k)' /\ fired'[k] <= 1
            /\ pending'[k] \notin Deferred /\ k \notin failing' /\ ~HasFinal(queue, k)' /\ k \notin cancelled' /\ ~(k >= nextId')
        <5>1. fired'[k] <= 1
          BY <4>1
        <5>2. OneFinal(stack, k)'
          BY <2>3, <2>7, <4>3
        <5>3. OneFinal(queue, k)' /\ ~HasFinal(queue, k)'
          BY <2>1, <4>3
        <5> QED
          BY <2>1, <4>3, <5>1, <5>2, <5>3
      <4>5. \A id \in Ids \ {k} :
              /\ UNCHANGED <<pending[id], failing, fired[id], cancelled, nextId, queue>>
              /\ HasFinal(stack, id)' => HasFinal(stack, id)
              /\ OneFinal(stack, id) => OneFinal(stack, id)'
        BY <2>1, <2>7, <4>2
      <4> QED
        BY <4>1, <4>4, <4>5 DEF OnceInv
    <3>3. CASE ~Completes(h)
      <4>1. fired' = fired
        BY <2>4, <3>3
      <4> QED
        BY <2>1, <2>7, <4>1 DEF OnceInv
    <3> QED
      BY <3>2, <3>3
  <2>9. LastInv'
    BY <2>1, <2>5, <2>7 DEF LastInv
  <2> QED
    BY <2>8, <2>9
<1>14. CASE CallbackDone
  <2>1. UNCHANGED <<nextId, pending, queue, failing, cancelled, fired, proc, overtaken>>
    BY <1>14 DEF CallbackDone
  <2>2. PICK d \in 1 .. Len(stack) : stack' \in Seq(Frames) /\ Below(stack', stack, d)
    BY <1>14, CallbackDoneEffect
  <2>3. PICK s, t : s = stack /\ t = stack'
    OBVIOUS
  <2>4. \A id \in Ids : /\ HasFinal(t, id) => HasFinal(s, id)
                        /\ HasChunk(t, id) => HasChunk(s, id)
                        /\ OneFinal(s, id) => OneFinal(t, id)
                        /\ ChunksBefore(s, id) => ChunksBefore(t, id)
    BY <1>1, <2>2, <2>3, BelowThunks
  <2>5. \A id \in Ids : /\ HasFinal(stack, id)' => HasFinal(stack, id)
                        /\ HasChunk(stack, id)' => HasChunk(stack, id)
                        /\ OneFinal(stack, id) => OneFinal(stack, id)'
                        /\ ChunksBefore(stack, id) => ChunksBefore(stack, id)'
    BY <2>3, <2>4
  <2>6. nextId' \in Nat /\ nextId' >= nextId /\ \A id \in Ids : pending'[id] \in Deferred => pending[id] \in Deferred
    BY <1>1, <2>1
  <2> QED
    BY <2>1, <2>5, <2>6, ThunksKept
<1>10. CASE Dispatch
  <2>1. PICK id \in Ids, more \in BOOLEAN :
    /\ Frame(id, more)
    /\ \/ /\ pending[id] = "stream" /\ more
          /\ Enqueue(id, "chunk", pending)
       \/ /\ pending[id] \in Deferred /\ ~more
          /\ Enqueue(id, "done", Removed(id))
       \/ /\ Waiting(id)
          /\ pending' = [pending EXCEPT ![id] = "reply"]
          /\ UNCHANGED <<queue, drain, proc, failing>>
       \/ /\ pending[id] \in {"none", "reply"}
          /\ UNCHANGED <<pending, queue, drain, proc, failing>>
    BY <1>10 DEF Dispatch
  <2>2. UNCHANGED <<nextId, stack, fired, cancelled, overtaken>>
    BY <2>1 DEF Frame
  <2>3. PICK p, r : p = pending /\ r = Removed(id)
    OBVIOUS
  <2>4. p \in [Ids -> Entries] /\ r \in [Ids -> Entries] /\ "stream" \in Deferred
    BY <1>1, <2>3, RemovedType DEF Deferred
  <2>5. CASE pending[id] \in Deferred /\ Enqueue(id, "chunk", p)
    BY <2>2, <2>3, <2>4, <2>5, EnqueueOnce, EnqueueLast
  <2>6. CASE pending[id] \in Deferred /\ Enqueue(id, "done", r)
    BY <2>2, <2>3, <2>4, <2>6, EnqueueOnce, EnqueueLast
  <2>7. CASE pending' \in {pending, [pending EXCEPT ![id] = "reply"]} /\ UNCHANGED <<queue, proc, failing>>
    <3>1. \A k \in Ids : pending'[k] \in Deferred => pending[k] \in Deferred
      BY <1>1, <2>7 DEF Deferred
    <3> QED
      BY <1>1, <1>2, <2>2, <2>7, <3>1, OnceKept
  <2> QED
    BY <2>1, <2>3, <2>4, <2>5, <2>6, <2>7
<1>11. CASE Timeout
  <2>1. PICK id \in timers :
    IF pending[id] \in Deferred
    THEN Enqueue(id, "timeout", Removed(id))
    ELSE UNCHANGED <<pending, queue, drain, proc, failing>>
    BY <1>11 DEF Timeout
  <2>2. UNCHANGED <<nextId, stack, fired, cancelled, overtaken>>
    BY <1>11 DEF Timeout
  <2>3. PICK r : r = Removed(id)
    OBVIOUS
  <2>4. id \in Ids /\ r \in [Ids -> Entries]
    BY <1>1, <2>3, RemovedType
  <2>5. CASE pending[id] \in Deferred /\ Enqueue(id, "timeout", r)
    BY <2>2, <2>3, <2>4, <2>5, EnqueueOnce, EnqueueLast
  <2>6. CASE UNCHANGED <<pending, queue, proc, failing>>
    BY <1>1, <1>2, <2>2, <2>6, OnceKept
  <2> QED
    BY <2>1, <2>3, <2>5, <2>6
<1>12. CASE Sentinel
  <2>1. PICK p : p = pending
    OBVIOUS
  <2>2. FailPending(p) /\ UNCHANGED <<queue, stack, cancelled, fired, nextId, overtaken>> /\ proc' = "gone"
    BY <1>12, <2>1 DEF Sentinel, FailPending
  <2> QED
    BY <1>1, <2>1, <2>2, FailOnce DEF LastInv
<1>13. CASE FireFailure
  <2>1. PICK id \in failing : failing' = failing \ {id} /\ fired' = [fired EXCEPT ![id] = @ + 1]
    BY <1>13 DEF FireFailure
  <2>2. UNCHANGED <<nextId, pending, queue, stack, cancelled, proc, overtaken>>
    BY <1>13 DEF FireFailure
  <2>3. \A k \in Ids : fired[k] \in Nat /\ fired'[k] = IF k = id THEN fired[k] + 1 ELSE fired[k]
    BY <1>1, <2>1
  <2>4. OnceInv'
    BY <1>1, <2>1, <2>2, <2>3 DEF OnceInv
  <2>5. LastInv'
    BY <2>1, <2>2 DEF LastInv
  <2> QED
    BY <2>4, <2>5
<1> QED
  BY <1>3, <1>4, <1>5, <1>6, <1>7, <1>8, <1>9, <1>10, <1>11, <1>12, <1>13, <1>14 DEF Next

\* The number of completions of id in q.
Finals(q, id) == Cardinality({i \in DOMAIN q : q[i].id = id /\ Completes(q[i])})

LEMMA FinalsCount ==
  ASSUME NEW T, NEW q \in Seq(T), NEW id, OneFinal(q, id)
  PROVE  Finals(q, id) = IF HasFinal(q, id) THEN 1 ELSE 0
<1>1. DOMAIN q = 1 .. Len(q)
  OBVIOUS
<1>2. CASE HasFinal(q, id)
  <2>1. PICK k \in 1 .. Len(q) : Final(q, k, id)
    BY <1>2 DEF HasFinal
  <2>2. {i \in DOMAIN q : q[i].id = id /\ Completes(q[i])} = {k}
    BY <1>1, <2>1 DEF OneFinal, Final
  <2> QED
    BY <1>2, <2>2, FS_Singleton DEF Finals
<1>3. CASE ~HasFinal(q, id)
  <2>1. {i \in DOMAIN q : q[i].id = id /\ Completes(q[i])} = {}
    BY <1>1, <1>3 DEF HasFinal, Final
  <2> QED
    BY <1>3, <2>1, FS_EmptySet DEF Finals
<1> QED
  BY <1>2, <1>3

LEMMA OnceCounts ==
  ASSUME TypeOK, OnceInv, NEW id \in Ids
  PROVE  Due(id) + fired[id] <= IF id \in cancelled THEN 0 ELSE 1
<1>1. /\ Due(id) = Finals(queue, id) + Finals(stack, id) + (IF id \in failing THEN 1 ELSE 0)
                     + IF pending[id] \in Deferred THEN 1 ELSE 0
  BY DEF Due, Finals
<1>2. Finals(queue, id) = (IF HasFinal(queue, id) THEN 1 ELSE 0) /\ Finals(stack, id) = IF HasFinal(stack, id) THEN 1 ELSE 0
  BY FinalsCount DEF TypeOK, OnceInv
<1>3. fired[id] \in Nat
  BY DEF TypeOK
<1> QED
  BY <1>1, <1>2, <1>3 DEF OnceInv

\* A completion callback is called at most once and the one of a cancelled
\* request never, for every race of replies, timeouts, cancellations, callback
\* errors, a full queue and the death of the process.
THEOREM CompletesOnce == Spec => []CompletesAtMostOnce
<1>1. TypeOK /\ OnceInv => CompletesAtMostOnce
  BY OnceCounts DEF CompletesAtMostOnce
<1> QED
  BY <1>1, InitTypes, NextTypes, InitOnce, NextOnce, PTL DEF Spec

LEMMA ChunkFirst ==
  ASSUME TypeOK, LastInv, Calls, ~Completes(Top), proc = "live", Top.id \notin overtaken
  PROVE  fired[Top.id] = 0
<1>1. PICK s, h, k : s = stack /\ h = Head(s) /\ k = h.id
  OBVIOUS
<1>2. s \in Seq(Frames) /\ s # <<>> /\ fired \in [Ids -> Nat] /\ h = Top
  BY <1>1 DEF TypeOK, Calls, Top
<1>3. h \in Frames /\ h.what = "chunk"
  BY <1>1, <1>2, PoppedFrame DEF Calls, IsThunk, ThunkKinds, Completes
<1>4. k \in Ids \ overtaken /\ fired[k] \in Nat
  BY <1>1, <1>2, <1>3 DEF Frames
<1>5. HasChunk(s, k)
  <2>1. PICK t : t = [s EXCEPT ![1].what = "call"]
    OBVIOUS
  <2> QED
    BY <1>1, <1>2, <1>3, <2>1, CalledThunk
<1>6. ~(fired[k] > 0)
  BY <1>1, <1>4, <1>5 DEF LastInv
<1> QED
  BY <1>1, <1>2, <1>4, <1>6

\* While the transport lives, the chunks of a stream that no nested drain has
\* overtaken are delivered before its completion, for any interleaving of
\* replies, drains, errors and timeouts.
THEOREM ChunksComeFirst == Spec => DoneIsLast
<1>1. TypeOK /\ LastInv /\ [Next]_vars
      => [Calls /\ ~Completes(Top) /\ proc = "live" /\ Top.id \notin overtaken => fired[Top.id] = 0]_vars
  BY ChunkFirst
<1> QED
  BY <1>1, InitTypes, NextTypes, InitOnce, NextOnce, PTL DEF Spec, DoneIsLast

-----------------------------------------------------------------------------
(* No completion is lost *)

\* What may lose a completion: a full callback queue, which closes the
\* connection, and a callback that signals an error, which ends its batch.
Unhindered == ~QueueFull /\ errors = 0

Owed(id) == Deferring(id) /\ id \notin cancelled \cup refused

Somewhere(id) ==
  pending[id] \in Deferred \/ id \in failing \/ HasFinal(queue, id) \/ HasFinal(stack, id) \/ fired[id] = 1

\* The completion of a request that was sent and not cancelled is somewhere.
AccountedInv == \A id \in Ids : Owed(id) => Somewhere(id)

LEMMA InitAccounted == Init => AccountedInv
<1> SUFFICES ASSUME Init PROVE AccountedInv
  OBVIOUS
<1>1. \A id \in Ids : ~(id < nextId)
  BY DEF Init, Ids
<1> QED
  BY <1>1 DEF AccountedInv, Owed, Deferring

\* A completion that enters a queue with room is in it.
LEMMA EnqueueHolds ==
  ASSUME TypeOK, ~QueueFull, NEW id \in Ids, NEW what \in {"chunk", "done", "timeout"},
         NEW p \in [Ids -> Entries], p = IF what = "chunk" THEN pending ELSE Removed(id),
         Enqueue(id, what, p), UNCHANGED <<stack, fired>>, NEW k \in Ids, Somewhere(k)
  PROVE  Somewhere(k)'
<1>1. PICK q, t, r : q = queue /\ t = [id |-> id, what |-> what] /\ r = Append(q, t)
  OBVIOUS
<1>2. /\ q \in Seq(Thunks) /\ t \in Thunks /\ queue' = r /\ pending' = p /\ failing' = failing
      /\ t.id = id /\ (Completes(t) <=> what # "chunk")
  BY <1>1 DEF Enqueue, TypeOK, Thunks, ThunkKinds, Completes
<1>3. HasFinal(r, k) <=> HasFinal(q, k) \/ (t.id = k /\ Completes(t))
  <2>1. q \in Seq(Thunks) /\ t \in Thunks /\ r = Append(q, t)
    BY <1>1, <1>2
  <2> QED
    BY <2>1, AppendThunk
<1>4. HasFinal(queue, k)' <=> HasFinal(queue, k) \/ (id = k /\ what # "chunk")
  BY <1>1, <1>2, <1>3
<1>5. pending[k] \in Deferred => pending'[k] \in Deferred \/ (id = k /\ what # "chunk")
  BY <1>2, RemovedType
<1> QED
  BY <1>2, <1>4, <1>5 DEF Somewhere

LEMMA NextAccounted ==
  ASSUME TypeOK, OnceInv, AccountedInv, Unhindered, Unhindered', [Next]_vars
  PROVE  AccountedInv'
<1>1. /\ nextId \in Nat /\ pending \in [Ids -> Entries] /\ stack \in Seq(Frames) /\ timers \subseteq Ids
      /\ queue \in Seq(Thunks) /\ fired \in [Ids -> Nat] /\ failing \subseteq Ids
      /\ kind \in [Ids -> Kinds]
  BY DEF TypeOK, Entries
<1>2. ASSUME UNCHANGED <<nextId, kind, refused>>, cancelled \subseteq cancelled',
             \A id \in Ids : Owed(id) /\ Somewhere(id) => Somewhere(id)' \/ id \in cancelled'
      PROVE  AccountedInv'
  <2>1. \A id \in Ids : Owed(id)' => Owed(id) /\ id \notin cancelled'
    BY <1>2 DEF Owed, Deferring
  <2> QED
    BY <1>2, <2>1 DEF AccountedInv
<1>3. CASE RequestDeferred \/ RequestSync \/ ReaddirSync
  <2>1. PICK k : NewId(k) /\ \/ k \in Deferred /\ pending' = [pending EXCEPT ![nextId] = k]
                             \/ k = "sync" /\ pending' \in {pending, [pending EXCEPT ![nextId] = "waiting"]}
    BY <1>3 DEF RequestDeferred, RequestSync, ReaddirSync, Deferred
  <2>2. nextId \in Ids /\ nextId' = nextId + 1 /\ kind' = [kind EXCEPT ![nextId] = k]
    BY <2>1 DEF NewId
  <2>3. UNCHANGED <<cancelled, queue, failing, fired>> /\ refused \subseteq refused'
    BY <1>3 DEF RequestDeferred, RequestSync, ReaddirSync, NewId
  <2>4. \A id \in Ids : id # nextId => /\ kind'[id] = kind[id] /\ pending'[id] = pending[id]
                                       /\ id < nextId' => id < nextId
    <3>1. \A id \in Ids : id \in Int /\ (id # nextId /\ id < nextId' => id < nextId)
      BY <1>1, <2>2 DEF Ids
    <3>2. \A id \in Ids : id # nextId => kind'[id] = kind[id]
      BY <1>1, <2>2
    <3>3. \A id \in Ids : id # nextId => pending'[id] = pending[id]
      BY <1>1, <2>1
    <3> QED
      BY <3>1, <3>2, <3>3
  <2>5. kind'[nextId] = k /\ (k \in Deferred => pending'[nextId] \in Deferred)
    BY <1>1, <2>1, <2>2 DEF Deferred
  <2>6. \A id \in Ids : id # nextId /\ Owed(id)' => Owed(id)
    BY <2>3, <2>4 DEF Owed, Deferring
  <2>7. stack' = stack \/ \E w \in Waits : stack' = <<[id |-> nextId, what |-> w]>> \o stack
    BY <1>3 DEF RequestDeferred, RequestSync, ReaddirSync, Waits
  <2>8. PICK s, t : s = stack /\ t = stack'
    OBVIOUS
  <2>9. \A id \in Ids : HasFinal(s, id) => HasFinal(t, id)
    <3>1. CASE \E w \in Waits : stack' = <<[id |-> nextId, what |-> w]>> \o stack
      <4>1. PICK w \in Waits : stack' = <<[id |-> nextId, what |-> w]>> \o stack
        BY <3>1
      <4>2. PICK x : x = [id |-> nextId, what |-> w]
        OBVIOUS
      <4>3. x \in Frames /\ t = <<x>> \o s /\ s \in Seq(Frames)
        BY <1>1, <2>2, <2>8, <4>1, <4>2 DEF Frames
      <4>4. t \in Seq(Frames) /\ Below(s, t, 1)
        BY <4>3, PushedFrame
      <4> QED
        BY <4>3, <4>4, BelowThunks
    <3> QED
      BY <2>7, <2>8, <3>1
  <2>10. \A id \in Ids : id # nextId /\ Somewhere(id) => Somewhere(id)'
    BY <2>3, <2>4, <2>8, <2>9 DEF Somewhere
  <2>11. \A id \in Ids : id = nextId /\ Owed(id)' => Somewhere(id)'
    BY <2>2, <2>5 DEF Owed, Deferring, Somewhere
  <2> QED
    BY <2>6, <2>10, <2>11 DEF AccountedInv
<1>4. ASSUME UNCHANGED <<nextId, kind, refused, cancelled, queue, stack, failing, fired>>,
             \A id \in Ids : Owed(id) /\ pending[id] \in Deferred => pending'[id] \in Deferred
      PROVE  AccountedInv'
  <2>1. \A id \in Ids : Owed(id) /\ Somewhere(id) => Somewhere(id)'
    BY <1>4 DEF Somewhere
  <2> QED
    BY <1>2, <1>4, <2>1
<1>5. CASE BlockedDone
  <2>1. /\ stack # <<>> /\ Top.what \in Waits /\ stack' = Tail(stack)
        /\ UNCHANGED <<nextId, kind, refused, queue, failing, fired>>
    BY <1>5 DEF BlockedDone
  <2>2. PICK s, t, k : s = stack /\ t = stack' /\ k = Top.id
    OBVIOUS
  <2>3. /\ pending' = [pending EXCEPT ![k] = "none"]
        /\ cancelled' = IF pending[k] \in Deferred THEN cancelled \cup {k} ELSE cancelled
    BY <1>5, <2>2 DEF BlockedDone
  <2>4. s \in Seq(Frames) /\ t \in Seq(Frames) /\ Below(t, s, 1) /\ s[1] = Top
    BY <1>1, <2>1, <2>2, PoppedFrame DEF Top
  <2>5. ~IsThunk(s[1])
    BY <2>1, <2>4 DEF IsThunk, ThunkKinds, Waits
  <2>6. \A id \in Ids : HasFinal(s, id) => HasFinal(t, id)
    BY <2>4, <2>5, SameThunks
  <2>7. \A id \in Ids : pending[id] \in Deferred => pending'[id] \in Deferred \/ id \in cancelled'
    BY <1>1, <2>3
  <2>8. \A id \in Ids : Somewhere(id) => Somewhere(id)' \/ id \in cancelled'
    BY <2>1, <2>2, <2>6, <2>7 DEF Somewhere
  <2> QED
    BY <1>2, <2>1, <2>3, <2>8
<1>14. CASE SyncSeesDeath
  <2>1. UNCHANGED <<nextId, kind, refused, cancelled, queue, stack, failing, fired>>
    BY <1>14 DEF SyncSeesDeath
  <2>2. \A id \in Ids : pending[id] \in Deferred => pending'[id] \in Deferred
    BY <1>1, <1>14 DEF SyncSeesDeath, Waiting, Deferred
  <2> QED
    BY <1>4, <2>1, <2>2
<1>6. CASE Cancel
  <2>1. PICK id \in Ids : pending' = Removed(id) /\ cancelled' = cancelled \cup {id}
    BY <1>6 DEF Cancel
  <2>2. UNCHANGED <<nextId, kind, refused, queue, stack, failing, fired>>
    BY <1>6 DEF Cancel
  <2>3. \A k \in Ids : k # id => pending'[k] = pending[k]
    BY <2>1, RemovedType
  <2>4. \A k \in Ids : Somewhere(k) => Somewhere(k)' \/ k \in cancelled'
    BY <2>1, <2>2, <2>3 DEF Somewhere
  <2> QED
    BY <1>2, <2>1, <2>2, <2>4
<1>7. CASE Die \/ UNCHANGED vars
  BY <1>4, <1>7 DEF Die, vars
<1>8. CASE StartDrain
  <2>1. UNCHANGED <<nextId, kind, refused, cancelled, pending, failing, fired>>
    BY <1>8 DEF StartDrain
  <2>2. CASE UNCHANGED <<queue, stack>>
    BY <1>4, <2>1, <2>2
  <2>3. CASE stack' = queue \o stack
    <3>1. PICK q, s, t : q = queue /\ s = stack /\ t = stack'
      OBVIOUS
    <3>2. \A id \in Ids : HasFinal(t, id) <=> HasFinal(q, id) \/ HasFinal(s, id)
      BY <1>1, <2>3, <3>1, JoinedThunks
    <3>3. \A id \in Ids : Somewhere(id) => Somewhere(id)'
      BY <2>1, <3>1, <3>2 DEF Somewhere
    <3> QED
      BY <1>2, <2>1, <3>3
  <2> QED
    BY <1>8, <2>2, <2>3 DEF StartDrain, ArrivalOrder
<1>9. CASE RunThunk
  <2>1. /\ stack # <<>> /\ stack' = [stack EXCEPT ![1].what = "call"]
        /\ UNCHANGED <<nextId, kind, refused, cancelled, pending, queue, failing>>
    BY <1>9 DEF RunThunk
  <2>2. PICK s, h, t, k : s = stack /\ h = Head(s) /\ t = stack' /\ k = h.id
    OBVIOUS
  <2>3. k \in Ids /\ s \in Seq(Frames) /\ s # <<>> /\ t = [s EXCEPT ![1].what = "call"] /\ h = Head(s)
    BY <1>1, <2>1, <2>2, PoppedFrame DEF Frames
  <2>4. fired' = IF Completes(h) THEN [fired EXCEPT ![k] = @ + 1] ELSE fired
    BY <1>9, <2>2 DEF RunThunk, Top
  <2>5. \A id \in Ids : fired[id] = 1 => fired'[id] = 1 \/ (Completes(h) /\ id = k)
    BY <1>1, <2>3, <2>4
  <2>6. Completes(h) => fired'[k] = 1
    <3>1. SUFFICES ASSUME Completes(h) PROVE fired'[k] = 1
      OBVIOUS
    <3>2. HasFinal(s, k)
      BY <2>2, <2>3, <3>1, CalledThunk
    <3>3. fired[k] = 0
      BY <2>2, <2>3, <3>2 DEF OnceInv
    <3> QED
      BY <1>1, <2>3, <2>4, <3>1, <3>3
  <2>7. \A id \in Ids : HasFinal(s, id) /\ ~(k = id /\ Completes(h)) => HasFinal(t, id)
    BY <2>2, <2>3, CalledThunk
  <2>8. \A id \in Ids : Somewhere(id) => Somewhere(id)'
    <3>1. \A id \in Ids : HasFinal(stack, id) => HasFinal(stack, id)' \/ fired'[id] = 1
      BY <2>2, <2>6, <2>7
    <3>2. \A id \in Ids : fired[id] = 1 => fired'[id] = 1
      BY <2>5, <2>6
    <3> QED
      BY <2>1, <3>1, <3>2 DEF Somewhere
  <2> QED
    BY <1>2, <2>1, <2>8
<1>15. CASE CallbackDone
  <2>1. UNCHANGED <<nextId, kind, refused, cancelled, pending, queue, failing, fired>> /\ errors' = errors
    BY <1>15 DEF CallbackDone, Unhindered
  <2>2. /\ stack' \in Seq(Frames) /\ Below(stack', stack, 1) /\ stack[1].what = "call"
    BY <1>15, <2>1, CallbackDoneEffect
  <2>3. PICK s, t : s = stack /\ t = stack'
    OBVIOUS
  <2>4. ~IsThunk(s[1])
    BY <2>2, <2>3 DEF IsThunk, ThunkKinds
  <2>5. \A id \in Ids : HasFinal(s, id) => HasFinal(t, id)
    BY <1>1, <2>2, <2>3, <2>4, SameThunks
  <2>6. \A id \in Ids : Somewhere(id) => Somewhere(id)'
    BY <2>1, <2>3, <2>5 DEF Somewhere
  <2> QED
    BY <1>2, <2>1, <2>6
<1>10. CASE Dispatch
  <2>1. PICK id \in Ids, more \in BOOLEAN :
    /\ Frame(id, more)
    /\ \/ /\ pending[id] = "stream" /\ more
          /\ Enqueue(id, "chunk", pending)
       \/ /\ pending[id] \in Deferred /\ ~more
          /\ Enqueue(id, "done", Removed(id))
       \/ /\ Waiting(id)
          /\ pending' = [pending EXCEPT ![id] = "reply"]
          /\ UNCHANGED <<queue, drain, proc, failing>>
       \/ /\ pending[id] \in {"none", "reply"}
          /\ UNCHANGED <<pending, queue, drain, proc, failing>>
    BY <1>10 DEF Dispatch
  <2>2. UNCHANGED <<nextId, kind, refused, cancelled, stack, fired>>
    BY <2>1 DEF Frame
  <2>3. PICK p, r : p = pending /\ r = Removed(id)
    OBVIOUS
  <2>4. p \in [Ids -> Entries] /\ r \in [Ids -> Entries] /\ ~QueueFull
    BY <1>1, <2>3, RemovedType DEF Unhindered
  <2>5. CASE Enqueue(id, "chunk", p)
    <3>1. \A k \in Ids : Somewhere(k) => Somewhere(k)'
      BY <2>2, <2>3, <2>4, <2>5, EnqueueHolds
    <3> QED
      BY <1>2, <2>2, <3>1
  <2>6. CASE Enqueue(id, "done", r)
    <3>1. \A k \in Ids : Somewhere(k) => Somewhere(k)'
      BY <2>2, <2>3, <2>4, <2>6, EnqueueHolds
    <3> QED
      BY <1>2, <2>2, <3>1
  <2>7. CASE UNCHANGED <<queue, failing>> /\ (pending' = pending \/ (Waiting(id) /\ pending' = [pending EXCEPT ![id] = "reply"]))
    <3>1. \A k \in Ids : pending[k] \in Deferred => pending'[k] \in Deferred
      BY <1>1, <2>7 DEF Deferred, Waiting
    <3> QED
      BY <1>4, <2>2, <2>7, <3>1
  <2> QED
    BY <2>1, <2>3, <2>5, <2>6, <2>7
<1>11. CASE Timeout
  <2>1. PICK id \in timers :
    IF pending[id] \in Deferred
    THEN Enqueue(id, "timeout", Removed(id))
    ELSE UNCHANGED <<pending, queue, drain, proc, failing>>
    BY <1>11 DEF Timeout
  <2>2. UNCHANGED <<nextId, kind, refused, cancelled, stack, fired>>
    BY <1>11 DEF Timeout
  <2>3. PICK r : r = Removed(id)
    OBVIOUS
  <2>4. id \in Ids /\ r \in [Ids -> Entries] /\ ~QueueFull
    BY <1>1, <2>3, RemovedType DEF Unhindered
  <2>5. CASE Enqueue(id, "timeout", r)
    <3>1. \A k \in Ids : Somewhere(k) => Somewhere(k)'
      BY <2>2, <2>3, <2>4, <2>5, EnqueueHolds
    <3> QED
      BY <1>2, <2>2, <3>1
  <2>6. CASE UNCHANGED <<pending, queue, failing>>
    BY <1>4, <2>2, <2>6
  <2> QED
    BY <2>1, <2>3, <2>5, <2>6
<1>12. CASE Sentinel
  <2>1. PICK p : p = pending
    OBVIOUS
  <2>2. FailPending(p) /\ UNCHANGED <<nextId, kind, refused, cancelled, queue, stack, fired>>
    BY <1>12, <2>1 DEF Sentinel
  <2>3. \A id \in Ids : id \in failing \/ pending[id] \in Deferred => id \in failing'
    BY <1>1, <2>1, <2>2, FailPendingEffect
  <2>4. \A id \in Ids : Somewhere(id) => Somewhere(id)'
    BY <2>2, <2>3 DEF Somewhere
  <2> QED
    BY <1>2, <2>2, <2>4
<1>13. CASE FireFailure
  <2>1. PICK id \in failing : failing' = failing \ {id} /\ fired' = [fired EXCEPT ![id] = @ + 1]
    BY <1>13 DEF FireFailure
  <2>2. UNCHANGED <<nextId, kind, refused, cancelled, pending, queue, stack>>
    BY <1>13 DEF FireFailure
  <2>3. fired[id] = 0
    BY <1>1, <2>1 DEF OnceInv
  <2>4. \A k \in Ids : fired'[k] = IF k = id THEN 1 ELSE fired[k]
    BY <1>1, <2>1, <2>3
  <2>5. \A k \in Ids : Somewhere(k) => Somewhere(k)'
    BY <2>1, <2>2, <2>4 DEF Somewhere
  <2> QED
    BY <1>2, <2>2, <2>5
<1> QED
  BY <1>3, <1>5, <1>6, <1>7, <1>8, <1>9, <1>10, <1>11, <1>12, <1>13, <1>14, <1>15 DEF Next

\* What is somewhere and nowhere twice counts as one.
LEMMA AccountedCounts ==
  ASSUME TypeOK, OnceInv, AccountedInv, NEW id \in Ids, Owed(id)
  PROVE  Due(id) + fired[id] = 1
<1>1. Due(id) = Finals(queue, id) + Finals(stack, id) + (IF id \in failing THEN 1 ELSE 0)
                  + IF pending[id] \in Deferred THEN 1 ELSE 0
  BY DEF Due, Finals
<1>2. Finals(queue, id) = (IF HasFinal(queue, id) THEN 1 ELSE 0) /\ Finals(stack, id) = IF HasFinal(stack, id) THEN 1 ELSE 0
  BY FinalsCount DEF TypeOK, OnceInv
<1>3. Somewhere(id) /\ fired[id] \in Nat
  BY DEF TypeOK, AccountedInv
<1> QED
  BY <1>1, <1>2, <1>3 DEF OnceInv, Somewhere

\* As long as the callback queue has room and no callback signals an error,
\* every asynchronous request that was sent and not cancelled has had its
\* completion or has exactly one on its way, whatever replies, timeouts and
\* the death of the process do.
THEOREM CompletionsKept == Spec /\ []Unhindered => []CompletionsAccounted
<1>1. TypeOK /\ OnceInv /\ AccountedInv /\ Unhindered /\ Unhindered' /\ [Next]_vars => AccountedInv'
  BY NextAccounted
<1>2. TypeOK /\ OnceInv /\ AccountedInv => CompletionsAccounted
  BY AccountedCounts DEF CompletionsAccounted, Owed
<1> QED
  BY <1>1, <1>2, InitTypes, NextTypes, InitOnce, NextOnce, InitAccounted, PTL DEF Spec
=============================================================================
