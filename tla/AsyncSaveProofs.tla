-------------------------- MODULE AsyncSaveProofs --------------------------
(***************************************************************************)
(* Proofs about AsyncSave for every set of contents and any number of      *)
(* edits, commands, outside changes and faults.                            *)
(***************************************************************************)
EXTENDS AsyncSave, TLAPS

\* The resolutions that leave BASE well defined.  The others do not: a convergent
\* restore-base takes LOCAL's twin for the saved bytes, and a conflict on the
\* target of save-as puts that file's version where the visited file's was.
Tame == Choices \subseteq {"keep-local", "keep-remote", "merge"}

\* Every version that has been on the server.
Seen == past["file"] \cup past["other"]

Token == Int \cup {Nil}
OpKinds == {"none", "save", "inspect", "keep-local", "restore-base", "save-as", "merge"}
Reasons == {"none", "changed", "deleted", "appeared", "type_changed", "live_changed", "transport", "server_error"}
Results == {"none", "ok", "error", "transport", "lost", "changed", "deleted", "appeared", "type_changed"}

VType == [rev : Token, bytes : MaybeBytes]
StateType == [status : {"nil", "open", "retry"}, reason : Reasons, base : VType, local : MaybeBytes, remote : VType]
OpType == [kind : OpKinds, bytes : MaybeBytes, base : VType, exp : Token, snap : StateType, stage : Stages,
           reason : Reasons]
ReplyType == [result : Results, rev : Token, bytes : MaybeBytes]
RpcType == [op : {"none", "read", "write"}, path : Paths, bytes : MaybeBytes, exp : Token, reply : ReplyType]
LateType == [path : Paths, bytes : Contents, exp : Token]

\* Shapes of the state; bytes that are sent are real ones.
ShapeInv ==
  /\ rpc \in RpcType /\ (rpc.op = "write" /\ rpc.reply = Pending => rpc.bytes \in Contents)
  /\ late \subseteq LateType
  /\ buf \in MaybeBytes /\ base \in VType
  /\ cstate \in StateType /\ merging \in StateType /\ active \in OpType /\ queued \in OpType

VersionType == [rev : Int, bytes : Contents]

\* A revision names one version, and the next one is new.
ServerInv ==
  /\ nextRev \in Nat /\ nextRev > 0
  /\ remote \in [Paths -> VersionType] /\ past \in [Paths -> SUBSET VersionType]
  /\ \A p \in Paths : remote[p] \in past[p]
  /\ \A v \in Seen : v.rev < nextRev /\ (v.rev <= 0 => v \in {Missing, Special})
  /\ \A u, v \in Seen : u.rev = v.rev => u = v

WriteStages == {"write", "publish"}
ReadStages == {"reconcile", "conflict", "inspect", "verify", "merge-reconcile", "merge-conflict"}
SaveStages == {"write", "reconcile", "conflict"}
MergeStages == {"verify", "publish", "merge-reconcile", "merge-conflict"}
Resolutions == {"keep-local", "restore-base", "merge"}

\* The request belongs to the active operation, and its kind to its stage.
OpInv ==
  /\ active.stage \in WriteStages => rpc.op = "write" /\ rpc.bytes = active.bytes
  /\ active.stage \in ReadStages => rpc.op = "read"
  /\ active.stage # "none" => rpc.path = Target(active)
  /\ active.stage = "none" => active = NoOp /\ rpc = Idle
  /\ active.stage \in WriteStages \cup ReadStages \cup {"none"}
  /\ active.stage \in SaveStages => active.kind \in {"save", "keep-local", "restore-base", "save-as"}
  /\ active.stage \in MergeStages => active.kind = "merge" /\ active.bytes \in Contents
  /\ active.stage = "inspect" => active.kind = "inspect"
  /\ active.stage # "none" <=> status = "saving"
  /\ queued = NoOp \/ (queued.kind = "save" /\ queued.snap = NoState)

\* What a successful reply, or one that says "deleted", stands for.
ReplyInv ==
  /\ rpc.reply.result = "ok" =>
       IF rpc.op = "write" THEN [rev |-> rpc.reply.rev, bytes |-> rpc.bytes] \in past[rpc.path]
       ELSE [rev |-> rpc.reply.rev, bytes |-> rpc.reply.bytes] \in past[rpc.path]
  /\ rpc.reply.result = "deleted" => Missing \in past[rpc.path]
  /\ active.stage = "conflict" /\ active.reason = "deleted" => Missing \in past[rpc.path]
  /\ rpc.reply = Pending \/ rpc.reply.result # "none"

\* What the user is shown, or is merging with, is a version that was there.
ShownInv ==
  /\ status = "conflict" => cstate.remote \in Seen
  /\ merging = NoState \/ merging.remote \in Seen
  /\ active.kind = "save-as" => cstate.remote \in Seen
  /\ active.kind \in Resolutions => active.snap.remote \in Seen
  /\ active.kind \in Resolutions /\ active.stage \in WriteStages => rpc.exp = active.snap.remote.rev

GeneralInv == ShapeInv /\ ServerInv /\ OpInv /\ ReplyInv /\ ShownInv

-----------------------------------------------------------------------------
(* The buffer's modified marker *)

LEMMA InitClean == Init => CleanIsBase
BY DEF Init, CleanIsBase

LEMMA FinishClean ==
  ASSUME NEW op, NEW rev, FinishSuccess(op, rev), CleanIsBase
  PROVE  CleanIsBase'
<1>1. CASE op.kind = "save-as" /\ modified' = TRUE
  BY <1>1 DEF CleanIsBase
<1>2. CASE buf' = op.bytes /\ base' = [rev |-> rev, bytes |-> op.bytes]
  BY <1>2 DEF CleanIsBase
<1>3. CASE /\ base' = [rev |-> rev, bytes |-> op.bytes] /\ UNCHANGED buf
           /\ modified' = NewerEdits(op) \/ modified' = TRUE
  BY <1>3 DEF CleanIsBase, NewerEdits
<1> QED
  BY <1>1, <1>2, <1>3 DEF FinishSuccess, Dispatch

LEMMA NextClean == CleanIsBase /\ [Next]_vars => CleanIsBase'
<1> SUFFICES ASSUME CleanIsBase, [Next]_vars PROVE CleanIsBase'
  OBVIOUS
<1>1. ASSUME NEW st, NEW cs, FinishNonsuccess(st, cs) PROVE CleanIsBase'
  BY <1>1 DEF FinishNonsuccess, CleanIsBase
<1>2. ASSUME NEW stage, NEW reason, ReadNext(stage, reason) PROVE CleanIsBase'
  BY <1>2 DEF ReadNext, CleanIsBase
<1>3. ASSUME NEW op, NEW st, NEW reason, NEW v, MergeRefusal(op, st, reason, v) PROVE CleanIsBase'
  BY <1>3 DEF MergeRefusal, CleanIsBase
<1>4. ASSUME NEW rev, MergeSuccess(rev) PROVE CleanIsBase'
  BY <1>4 DEF MergeSuccess, CleanIsBase
<1>5. CASE Callbacks
  BY <1>1, <1>2, <1>3, <1>4, <1>5, FinishClean
     DEF Callbacks, WriteDone, ReconcileDone, ConflictReadDone, InspectDone, MergeVerified, MergeWriteDone,
         MergeReadDone, CleanIsBase
<1>6. CASE User
  <2>1. CASE Edit
    BY <2>1 DEF Edit, CleanIsBase
  <2>2. CASE SaveBuffer \/ RetrySave
    BY <2>2 DEF SaveBuffer, RetrySave, QueueOrDispatch, Dispatch, CleanIsBase
  <2>3. CASE InspectUnknown \/ StartMerge \/ AbandonMerge
    BY <2>3 DEF InspectUnknown, StartMerge, AbandonMerge, CleanIsBase
  <2>4. CASE KeepRemote
    BY <2>4 DEF KeepRemote, CleanIsBase
  <2>5. CASE Resolve
    BY <2>5 DEF Resolve, Dispatch, CleanIsBase
  <2>6. CASE ApplyMerge
    BY <1>3, <2>6 DEF ApplyMerge, CleanIsBase
  <2> QED
    BY <1>6, <2>1, <2>2, <2>3, <2>4, <2>5, <2>6 DEF User
<1>7. CASE Serve \/ ServerError \/ LoseReply \/ LateWrite \/ External
  <2>1. UNCHANGED Client
    BY <1>7 DEF Serve, ServeRead, ServeWrite, ServerError, LoseReply, LateWrite, External
  <2> QED
    BY <2>1 DEF Client, CleanIsBase
<1>8. CASE ExpireSuccess \/ UNCHANGED vars
  BY <1>8 DEF ExpireSuccess, vars, CleanIsBase
<1> QED
  BY <1>5, <1>6, <1>7, <1>8 DEF Next

\* "The normal modified marker remains set until the current buffer contents
\* are confirmed saved": for every mix of edits, saves, resolutions, merges and
\* failures, a buffer shown as unmodified holds the bytes of BASE.
THEOREM CleanMarker == Spec => []CleanIsBase
BY InitClean, NextClean, PTL DEF Spec

-----------------------------------------------------------------------------
(* The server *)

LEMMA SpecialVersions ==
  /\ Missing \in VersionType /\ Special \in VersionType /\ Missing.rev = 0 /\ Special.rev = -1
  /\ Missing.bytes = Empty /\ VersionType \subseteq VType /\ NilVersion \in VType /\ NilVersion.bytes = Nil
  /\ NoState \in StateType /\ NoOp \in OpType /\ Idle \in RpcType /\ Pending \in ReplyType
  /\ Pending.result = "none" /\ NoState.remote = NilVersion /\ NoState.base = NilVersion
<1>1. Empty \in Contents /\ Empty \in MaybeBytes /\ Nil \in MaybeBytes /\ Nil \in Token /\ Contents \subseteq MaybeBytes
  BY SaveAssumption DEF MaybeBytes, Token
<1>2. Missing \in VersionType /\ Special \in VersionType /\ Missing.rev = 0 /\ Special.rev = -1 /\ Missing.bytes = Empty
  BY <1>1 DEF Missing, Special, VersionType
<1>3. VersionType \subseteq VType /\ NilVersion \in VType /\ NilVersion.bytes = Nil
  BY <1>1 DEF VersionType, VType, NilVersion, Token
<1>4. NoState \in StateType /\ NoState.remote = NilVersion /\ NoState.base = NilVersion
  BY <1>1, <1>3 DEF NoState, StateType, Reasons
<1>5. NoOp \in OpType
  BY <1>1, <1>3, <1>4 DEF NoOp, OpType, OpKinds, Stages, Reasons
<1>6. Pending \in ReplyType /\ Pending.result = "none"
  BY <1>1 DEF Pending, ReplyType, Results
<1>7. Idle \in RpcType
  BY <1>1, <1>6 DEF Idle, RpcType, Paths
<1> QED
  BY <1>2, <1>3, <1>4, <1>5, <1>6, <1>7

LEMMA ServerShape ==
  ASSUME ServerInv
  PROVE  /\ \A v \in Seen : v \in VersionType /\ v.rev \in Int /\ v.bytes \in Contents /\ v # NilVersion
         /\ \A p \in Paths : past[p] \subseteq Seen /\ remote[p] \in Seen
  BY SaveAssumption, SpecialVersions DEF ServerInv, Seen, VersionType, Paths

\* The server's history grows.
Grows == \A p \in Paths : past[p] \subseteq past'[p]

LEMMA PutServer ==
  ASSUME ServerInv, NEW p \in Paths, NEW v \in VersionType, Put(p, v), nextRev' \in Nat, nextRev' >= nextRev,
         v.rev < nextRev', v.rev <= 0 => v \in {Missing, Special}, v.rev > 0 => v.rev >= nextRev
  PROVE  ServerInv' /\ Grows /\ v \in past'[p]
<1>1. /\ remote' = [remote EXCEPT ![p] = v] /\ past' = [past EXCEPT ![p] = @ \cup {v}]
      /\ remote \in [Paths -> VersionType] /\ past \in [Paths -> SUBSET VersionType]
  BY DEF Put, ServerInv
<1>2. /\ past'[p] = past[p] \cup {v} /\ \A q \in Paths : q # p => past'[q] = past[q] /\ remote'[q] = remote[q]
      /\ remote'[p] = v /\ remote' \in [Paths -> VersionType] /\ past' \in [Paths -> SUBSET VersionType]
  BY <1>1
<1>3. \A u \in Seen' : u \in Seen \/ u = v
  BY <1>2 DEF Seen, Paths
<1>4. nextRev > 0 /\ nextRev \in Nat /\ \A u \in Seen : u.rev \in Int /\ u.rev < nextRev /\ (u.rev <= 0 => u \in {Missing, Special})
  BY ServerShape DEF ServerInv
<1>5. \A u \in Seen' : u.rev < nextRev' /\ (u.rev <= 0 => u \in {Missing, Special})
  BY <1>3, <1>4
<1>6. \A u \in Seen : u.rev = v.rev => u = v
  <2>1. v.rev \in Int
    BY DEF VersionType
  <2> QED
    BY <1>4, <2>1, SpecialVersions
<1>7. \A u, w \in Seen' : u.rev = w.rev => u = w
  BY <1>3, <1>6 DEF ServerInv
<1>8. \A q \in Paths : remote'[q] \in past'[q]
  BY <1>2 DEF ServerInv
<1>9. ServerInv'
  BY <1>2, <1>4, <1>5, <1>7, <1>8 DEF ServerInv
<1> QED
  BY <1>2, <1>9 DEF Grows

LEMMA PublishServer ==
  ASSUME ServerInv, NEW p \in Paths, NEW b \in Contents, Publish(p, b)
  PROVE  ServerInv' /\ Grows /\ [rev |-> nextRev, bytes |-> b] \in past'[p] /\ nextRev > 0
<1>1. PICK n : n = nextRev
  OBVIOUS
<1>2. n \in Nat /\ n > 0 /\ nextRev' = n + 1 /\ Put(p, [rev |-> n, bytes |-> b])
  BY <1>1 DEF Publish, ServerInv
<1>3. [rev |-> n, bytes |-> b] \in VersionType /\ [rev |-> n, bytes |-> b].rev = n
  BY <1>2 DEF VersionType
<1>4. ServerInv' /\ Grows /\ [rev |-> n, bytes |-> b] \in past'[p]
  BY <1>1, <1>2, <1>3, PutServer
<1> QED
  BY <1>1, <1>2, <1>4

LEMMA SpecialPut ==
  ASSUME ServerInv, NEW p \in Paths, NEW v \in {Missing, Special}, Put(p, v), nextRev' = nextRev
  PROVE  ServerInv' /\ Grows
<1>1. v \in VersionType /\ (v.rev = 0 \/ v.rev = -1) /\ nextRev \in Nat /\ nextRev > 0
  BY SpecialVersions DEF ServerInv
<1>2. v.rev < nextRev /\ ~(v.rev > 0)
  BY <1>1
<1> QED
  BY <1>1, <1>2, PutServer

LEMMA SameServer ==
  ASSUME UNCHANGED server
  PROVE  (ServerInv => ServerInv') /\ Grows /\ Seen' = Seen
BY DEF server, ServerInv, Grows, Seen

LEMMA SeenGrows ==
  ASSUME Grows
  PROVE  Seen \subseteq Seen'
BY DEF Grows, Seen, Paths

\* What a reply that the server gives to the active request must satisfy.
Truthful(r) ==
  /\ r \in ReplyType /\ r.result # "none"
  /\ r.result = "ok" =>
       IF rpc.op = "write" THEN [rev |-> r.rev, bytes |-> rpc.bytes] \in past'[rpc.path]
       ELSE [rev |-> r.rev, bytes |-> r.bytes] \in past'[rpc.path]
  /\ r.result = "deleted" => Missing \in past'[rpc.path]

LEMMA ServedGeneral ==
  ASSUME GeneralInv, UNCHANGED Client, ServerInv', Grows, late' \subseteq LateType,
         \/ rpc' = rpc
         \/ rpc.op # "none" /\ \E r : Truthful(r) /\ rpc' = [rpc EXCEPT !.reply = r]
  PROVE  GeneralInv'
<1> USE DEF GeneralInv
<1>1. UNCHANGED <<buf, modified, base, cstate, active, queued, status, merging>>
  BY DEF Client
<1>2. rpc \in RpcType /\ rpc.path \in Paths
  BY DEF ShapeInv, RpcType
<1>3. /\ rpc'.op = rpc.op /\ rpc'.path = rpc.path /\ rpc'.bytes = rpc.bytes /\ rpc'.exp = rpc.exp /\ rpc' \in RpcType
      /\ rpc' = rpc \/ rpc.op # "none"
      /\ rpc'.reply = rpc.reply \/ Truthful(rpc'.reply)
  BY <1>2 DEF RpcType, Truthful
<1>4. ShapeInv'
  <2>1. Truthful(rpc'.reply) => rpc'.reply # Pending
    BY DEF Truthful, Pending
  <2> QED
    BY <1>1, <1>3, <2>1 DEF ShapeInv
<1>5. OpInv'
  <2>1. rpc.op # "none" => active.stage # "none"
    BY DEF OpInv, Idle
  <2> QED
    BY <1>1, <1>3, <2>1 DEF OpInv, Target
<1>6. past[rpc.path] \subseteq past'[rpc.path]
  BY <1>2 DEF Grows
<1>7. ReplyInv'
  <2>1. CASE rpc'.reply = rpc.reply
    BY <1>1, <1>3, <1>6, <2>1 DEF ReplyInv
  <2>2. CASE Truthful(rpc'.reply)
    BY <1>1, <1>3, <1>6, <2>2 DEF ReplyInv, Truthful
  <2> QED
    BY <1>3, <2>1, <2>2
<1>8. ShownInv'
  BY <1>1, <1>3, SeenGrows DEF ShownInv
<1> QED
  BY <1>4, <1>5, <1>7, <1>8

LEMMA FailedFacts ==
  ASSUME NEW why \in Results
  PROVE  Failed(why) \in ReplyType /\ Failed(why).result = why /\ Failed(why).rev = Nil
BY SpecialVersions DEF Failed, Pending, ReplyType, MaybeBytes, Token

LEMMA ServerStepGeneral ==
  ASSUME GeneralInv, Serve \/ ServerError \/ LoseReply \/ LateWrite \/ External
  PROVE  GeneralInv'
<1> USE DEF GeneralInv
<1>1. UNCHANGED Client
  BY DEF Serve, ServeRead, ServeWrite, ServerError, LoseReply, LateWrite, External
<1>2. rpc \in RpcType /\ rpc.path \in Paths /\ rpc.bytes \in MaybeBytes /\ rpc.exp \in Token
  BY DEF ShapeInv, RpcType
<1>3. PICK n, p, b : n = nextRev /\ p = rpc.path /\ b = rpc.bytes
  OBVIOUS
<1>4. n \in Nat /\ n > 0 /\ n \in Token
  BY <1>3 DEF ServerInv, Token
<1>5. CASE ServeRead
  <2>1. UNCHANGED server /\ late' = late /\ rpc.op = "read"
    BY <1>5 DEF ServeRead
  <2>2. PICK v : v = remote[rpc.path]
    OBVIOUS
  <2>3. v \in past[rpc.path] /\ v \in VersionType /\ v.rev \in Token /\ v.bytes \in MaybeBytes /\ v = [rev |-> v.rev, bytes |-> v.bytes]
    BY <1>2, <2>2 DEF ServerInv, VersionType, Token, MaybeBytes
  <2>4. ServerInv' /\ Grows /\ v \in past'[rpc.path]
    BY <1>2, <2>1, <2>3, SameServer DEF Grows
  <2>5. Truthful([result |-> "ok", rev |-> v.rev, bytes |-> v.bytes])
    BY <2>1, <2>3, <2>4 DEF Truthful, ReplyType, Results
  <2>6. Truthful(Failed("error"))
    BY FailedFacts DEF Truthful, Results
  <2>7. PICK r : Truthful(r) /\ rpc' = [rpc EXCEPT !.reply = r]
    BY <1>5, <2>2, <2>5, <2>6 DEF ServeRead, Reply
  <2> QED
    BY <1>1, <2>1, <2>4, <2>7, ServedGeneral DEF ShapeInv
<1>6. CASE ServeWrite
  <2>1. late' = late /\ rpc.op = "write" /\ b \in Contents
    BY <1>3, <1>6 DEF ServeWrite, Waiting, ShapeInv
  <2>2. CASE remote[rpc.path].rev = rpc.exp
    <3>1. Publish(p, b) /\ rpc' = [rpc EXCEPT !.reply = [result |-> "ok", rev |-> n, bytes |-> Nil]]
      BY <1>3, <1>6, <2>2 DEF ServeWrite, Reply
    <3>2. ServerInv' /\ Grows /\ [rev |-> n, bytes |-> b] \in past'[p]
      BY <1>2, <1>3, <2>1, <3>1, PublishServer
    <3>3. Truthful([result |-> "ok", rev |-> n, bytes |-> Nil])
      BY <1>3, <1>4, <2>1, <3>2 DEF Truthful, ReplyType, Results, MaybeBytes
    <3> QED
      BY <1>1, <2>1, <3>1, <3>2, <3>3, ServedGeneral DEF ShapeInv
  <2>3. CASE remote[rpc.path].rev # rpc.exp
    <3>1. PICK k : k = ConflictKind(rpc.path, rpc.exp)
      OBVIOUS
    <3>2. UNCHANGED server /\ rpc' = [rpc EXCEPT !.reply = Failed(k)]
      BY <1>6, <2>3, <3>1 DEF ServeWrite, Reply
    <3>3. ServerInv' /\ Grows
      BY <3>2, SameServer
    <3>4. k \in Results /\ k # "ok" /\ k # "none" /\ (k = "deleted" => remote[rpc.path] = Missing)
      BY <3>1 DEF ConflictKind, Results
    <3>5. Truthful(Failed(k))
      BY <1>2, <3>3, <3>4, FailedFacts DEF Truthful, ServerInv, Grows
    <3> QED
      BY <1>1, <2>1, <3>2, <3>3, <3>5, ServedGeneral DEF ShapeInv
  <2> QED
    BY <2>2, <2>3
<1>7. CASE ServerError
  <2>1. late' = late /\ rpc.op # "none" /\ rpc' = [rpc EXCEPT !.reply = Failed("error")] /\ rpc.reply = Pending
    BY <1>7 DEF ServerError, Waiting, Reply
  <2>2. Truthful(Failed("error"))
    BY FailedFacts DEF Truthful, Results
  <2>3. ServerInv' /\ Grows
    <3>1. CASE UNCHANGED server
      BY <3>1, SameServer
    <3>2. CASE rpc.op = "write" /\ Publish(rpc.path, rpc.bytes)
      BY <1>2, <1>3, <2>1, <3>2, PublishServer DEF ShapeInv
    <3> QED
      BY <1>7, <3>1, <3>2 DEF ServerError
  <2> QED
    BY <1>1, <2>1, <2>2, <2>3, ServedGeneral DEF ShapeInv
<1>8. CASE LoseReply
  <2>1. PICK why \in {"transport", "lost"} :
          UNCHANGED server /\ rpc.op # "none" /\ rpc' = [rpc EXCEPT !.reply = Failed(why)]
    BY <1>8 DEF LoseReply, Reply
  <2>2. Truthful(Failed(why))
    BY FailedFacts DEF Truthful, Results
  <2>3. late' \subseteq LateType
    <3>1. late \subseteq LateType
      BY DEF ShapeInv
    <3>2. CASE late' = late \cup {[path |-> rpc.path, bytes |-> rpc.bytes, exp |-> rpc.exp]} /\ rpc.op = "write" /\ rpc.reply = Pending
      BY <1>2, <3>1, <3>2 DEF ShapeInv, LateType
    <3> QED
      BY <1>8, <3>1, <3>2 DEF LoseReply
  <2> QED
    BY <1>1, <2>1, <2>2, <2>3, SameServer, ServedGeneral
<1>9. CASE LateWrite
  <2>1. PICK r \in late : /\ late' = late \ {r} /\ rpc' = rpc
                          /\ Publish(r.path, r.bytes) \/ UNCHANGED server
    BY <1>9 DEF LateWrite
  <2>2. r.path \in Paths /\ r.bytes \in Contents /\ late' \subseteq LateType
    BY <2>1 DEF ShapeInv, LateType
  <2>3. ServerInv' /\ Grows
    BY <2>1, <2>2, PublishServer, SameServer
  <2> QED
    BY <1>1, <2>1, <2>2, <2>3, ServedGeneral
<1>10. CASE External
  <2>1. rpc' = rpc /\ late' = late
    BY <1>10 DEF External
  <2>2. PICK q \in Paths : \/ \E c \in Contents : Publish(q, c)
                           \/ \E v \in {Missing, Special} : Put(q, v) /\ UNCHANGED nextRev
    BY <1>10 DEF External
  <2>3. ServerInv' /\ Grows
    BY <2>2, PublishServer, SpecialPut
  <2> QED
    BY <1>1, <2>1, <2>3, ServedGeneral DEF ShapeInv
<1> QED
  BY <1>5, <1>6, <1>7, <1>8, <1>9, <1>10 DEF Serve

-----------------------------------------------------------------------------
(* Steps of the client *)

LEMMA DoneGeneral ==
  ASSUME GeneralInv, Done, UNCHANGED <<server, late>>, status' # "saving",
         buf' \in MaybeBytes, base' \in VType, cstate' \in StateType, merging' \in StateType,
         status' = "conflict" => cstate'.remote \in Seen,
         merging' = NoState \/ merging'.remote \in Seen
  PROVE  GeneralInv'
<1> USE DEF GeneralInv
<1>1. active' = NoOp /\ queued' = NoOp /\ rpc' = Idle
  BY DEF Done
<1>2. NoOp.stage = "none" /\ NoOp.kind = "none" /\ Idle.op = "none" /\ Idle.reply = Pending /\ Pending.result = "none"
  BY DEF NoOp, Idle, Pending
<1>3. ServerInv' /\ Seen' = Seen
  BY SameServer
<1>4. ShapeInv'
  BY <1>1, <1>2, SpecialVersions DEF ShapeInv
<1>5. OpInv'
  BY <1>1, <1>2 DEF OpInv, WriteStages, ReadStages, SaveStages, MergeStages
<1>6. ReplyInv'
  BY <1>1, <1>2 DEF ReplyInv
<1>7. ShownInv'
  BY <1>1, <1>2, <1>3 DEF ShownInv, Resolutions
<1> QED
  BY <1>3, <1>4, <1>5, <1>6, <1>7

\* op is sent.
LEMMA DispatchGeneral ==
  ASSUME GeneralInv, NEW op \in OpType, Dispatch(op), UNCHANGED <<server, late, merging>>,
         queued' = NoOp \/ queued' = queued, buf' \in MaybeBytes, base' \in VType, cstate' \in StateType,
         op.kind \in {"save", "keep-local", "restore-base", "save-as"},
         op.kind = "save-as" => cstate'.remote \in Seen,
         op.kind \in Resolutions => op.snap.remote \in Seen /\ op.exp = op.snap.remote.rev
  PROVE  GeneralInv'
<1> USE DEF GeneralInv
<1>1. /\ active' \in OpType /\ active'.stage = "write" /\ active'.kind = op.kind /\ active'.bytes = op.bytes
      /\ active'.snap = op.snap /\ status' = "saving"
  BY DEF Dispatch, OpType, Stages
<1>2. Failed("transport") \in ReplyType /\ Failed("transport").result = "transport" /\ Failed("transport") # Pending
  BY FailedFacts, SpecialVersions DEF Results
<1>3. /\ rpc'.op = "write" /\ rpc'.bytes = op.bytes /\ rpc'.exp = op.exp /\ rpc'.path = Target(op)
      /\ rpc'.reply = IF op.bytes = Nil THEN Failed("transport") ELSE Pending
  BY DEF Dispatch, SendWrite
<1>4. Target(op) \in Paths /\ Target(op) = Target(active)'
  BY <1>1 DEF Target, Paths
<1>5. rpc' \in RpcType
  BY <1>2, <1>4, SpecialVersions DEF Dispatch, SendWrite, RpcType, OpType
<1>6. ShapeInv'
  <2>1. op.bytes # Nil => op.bytes \in Contents
    BY DEF OpType, MaybeBytes
  <2>2. rpc'.reply = Pending => op.bytes # Nil
    BY <1>2, <1>3
  <2>3. queued' \in OpType
    BY SpecialVersions DEF ShapeInv
  <2> QED
    BY <1>1, <1>3, <1>5, <2>1, <2>2, <2>3 DEF ShapeInv
<1>7. OpInv'
  BY <1>1, <1>3, <1>4 DEF OpInv, WriteStages, ReadStages, SaveStages, MergeStages
<1>8. ReplyInv'
  BY <1>1, <1>2, <1>3, SpecialVersions DEF ReplyInv
<1>9. ServerInv' /\ Seen' = Seen
  BY SameServer
<1>10. ShownInv'
  BY <1>1, <1>3, <1>9 DEF ShownInv, Resolutions
<1> QED
  BY <1>6, <1>7, <1>8, <1>9, <1>10

\* The active operation goes on to a read.
LEMMA ReadNextGeneral ==
  ASSUME GeneralInv, NEW stage, NEW reason \in Reasons, ReadNext(stage, reason), UNCHANGED <<server, late>>,
         \/ active.stage = "write" /\ stage \in {"reconcile", "conflict"}
         \/ active.stage = "publish" /\ stage \in {"merge-reconcile", "merge-conflict"},
         reason = "deleted" => Missing \in past[rpc.path]
  PROVE  GeneralInv'
<1> USE DEF GeneralInv
<1>1. /\ active' = [active EXCEPT !.stage = stage, !.reason = reason] /\ rpc' = [Idle EXCEPT !.op = "read", !.path = Target(active)]
      /\ UNCHANGED <<buf, modified, base, cstate, queued, status, merging>>
  BY DEF ReadNext, SendRead
<1>2. /\ active \in OpType /\ active' \in OpType /\ active'.stage = stage /\ active'.kind = active.kind /\ active'.bytes = active.bytes
      /\ active'.snap = active.snap /\ active'.reason = reason
  BY <1>1 DEF ShapeInv, OpType, Stages
<1>3. rpc.path = Target(active) /\ Target(active)' = Target(active) /\ Target(active) \in Paths
  BY <1>2 DEF OpInv, Target, Paths
<1>4. /\ rpc'.op = "read" /\ rpc'.path = Target(active) /\ rpc'.reply = Pending /\ Pending.result = "none" /\ rpc' \in RpcType
  BY <1>1, <1>3, SpecialVersions DEF Idle, RpcType
<1>5. ShapeInv'
  BY <1>1, <1>2, <1>4 DEF ShapeInv
<1>6. OpInv'
  BY <1>1, <1>2, <1>3, <1>4 DEF OpInv, WriteStages, ReadStages, SaveStages, MergeStages
<1>7. ServerInv' /\ Seen' = Seen /\ past' = past
  BY SameServer DEF server
<1>8. ReplyInv'
  BY <1>2, <1>3, <1>4, <1>7 DEF ReplyInv
<1>9. ShownInv'
  BY <1>1, <1>2, <1>7 DEF ShownInv, WriteStages, ReadStages
<1> QED
  BY <1>5, <1>6, <1>7, <1>8, <1>9

LEMMA FinishGeneral ==
  ASSUME GeneralInv, NEW op, op = active, NEW rev \in Token, FinishSuccess(op, rev), UNCHANGED <<server, late>>
  PROVE  GeneralInv'
<1> USE DEF GeneralInv
<1>1. op \in OpType /\ op.bytes \in MaybeBytes /\ [rev |-> rev, bytes |-> op.bytes] \in VType
  BY DEF ShapeInv, OpType, VType
<1>2. NoState \in StateType /\ cstate \in StateType /\ merging \in StateType /\ buf \in MaybeBytes /\ base \in VType
  BY SpecialVersions DEF ShapeInv
<1>3. merging = NoState \/ merging.remote \in Seen
  BY DEF ShownInv
<1>4. CASE /\ op.kind = "save-as" /\ Done /\ status' = "conflict" /\ UNCHANGED <<buf, base, cstate, merging>>
  BY <1>2, <1>3, <1>4, DoneGeneral DEF ShownInv
<1>5. CASE /\ Done /\ buf' = op.bytes /\ status' = "saved" /\ base' = [rev |-> rev, bytes |-> op.bytes]
           /\ cstate' = NoState /\ UNCHANGED merging
  BY <1>1, <1>2, <1>3, <1>5, DoneGeneral
<1>6. CASE /\ Done /\ status' \in {"saved", "saved-newer"} /\ base' = [rev |-> rev, bytes |-> op.bytes]
           /\ cstate' = NoState /\ UNCHANGED <<buf, merging>>
  BY <1>1, <1>2, <1>3, <1>6, DoneGeneral
<1>7. CASE /\ queued # NoOp /\ Dispatch(Rebase(queued, [rev |-> rev, bytes |-> op.bytes])) /\ queued' = NoOp
           /\ base' = [rev |-> rev, bytes |-> op.bytes] /\ cstate' = NoState /\ UNCHANGED <<buf, merging>>
  <2>1. PICK o : o = Rebase(queued, [rev |-> rev, bytes |-> op.bytes])
    OBVIOUS
  <2>2. o \in OpType /\ o.kind = "save"
    BY <1>1, <1>7, <2>1 DEF Rebase, ShapeInv, OpType, OpInv
  <2> QED
    BY <1>1, <1>2, <1>7, <2>1, <2>2, DispatchGeneral DEF Resolutions
<1> QED
  BY <1>4, <1>5, <1>6, <1>7 DEF FinishSuccess

LEMMA NonsuccessGeneral ==
  ASSUME GeneralInv, NEW st, NEW cs \in StateType, FinishNonsuccess(st, cs), UNCHANGED <<server, late>>,
         st # "saving", st = "conflict" => cs.remote \in Seen
  PROVE  GeneralInv'
<1>1. Done /\ cstate' = cs /\ status' = st /\ UNCHANGED <<buf, base, merging>>
  BY DEF FinishNonsuccess
<1> QED
  BY <1>1, DoneGeneral DEF GeneralInv, ShapeInv, ShownInv

LEMMA RefusalGeneral ==
  ASSUME GeneralInv, NEW op \in OpType, NEW st, NEW reason \in Reasons, NEW v \in VType,
         MergeRefusal(op, st, reason, v), UNCHANGED <<server, late>>,
         st # "saving", op.snap.remote \in Seen, v = NilVersion \/ v \in Seen
  PROVE  GeneralInv'
<1>1. /\ Done /\ status' = st /\ UNCHANGED <<buf, base, merging>>
      /\ cstate' = [status |-> "open", reason |-> reason, base |-> op.snap.base, local |-> buf,
                    remote |-> IF v = NilVersion THEN op.snap.remote ELSE v]
  BY DEF MergeRefusal
<1>2. op.snap \in StateType /\ op.snap.base \in VType /\ op.snap.remote \in VType /\ buf \in MaybeBytes
  BY DEF OpType, StateType, GeneralInv, ShapeInv
<1>3. cstate' \in StateType /\ cstate'.remote \in Seen
  BY <1>1, <1>2 DEF StateType
<1> QED
  BY <1>1, <1>3, DoneGeneral DEF GeneralInv, ShapeInv, ShownInv

LEMMA MergedGeneral ==
  ASSUME GeneralInv, NEW rev \in Token, MergeSuccess(rev), UNCHANGED <<server, late>>
  PROVE  GeneralInv'
<1>1. /\ Done /\ base' = [rev |-> rev, bytes |-> active.bytes] /\ cstate' = NoState /\ buf' \in {buf, active.bytes}
      /\ status' \in {"saved", "saved-newer"} /\ merging' = NoState
  BY DEF MergeSuccess
<1>2. base' \in VType /\ buf' \in MaybeBytes
  BY <1>1 DEF GeneralInv, ShapeInv, OpType, VType
<1> QED
  BY <1>1, <1>2, SpecialVersions, DoneGeneral

\* A read that succeeded has found a version of the operation's path.
LEMMA ReplyFacts ==
  ASSUME GeneralInv
  PROVE  /\ Got \in VType /\ rpc.reply.rev \in Token /\ rpc.reply.result \in Results
         /\ Ok /\ rpc.op = "read" => Got \in past[rpc.path] /\ Got \in Seen
         /\ Ok /\ rpc.op = "write" => [rev |-> rpc.reply.rev, bytes |-> rpc.bytes] \in past[rpc.path]
         /\ active \in OpType /\ active.snap \in StateType /\ cstate \in StateType /\ active.reason \in Reasons
<1>1. rpc \in RpcType /\ rpc.reply \in ReplyType /\ rpc.path \in Paths
  BY DEF GeneralInv, ShapeInv, RpcType
<1>2. Got \in VType /\ rpc.reply.rev \in Token /\ rpc.reply.result \in Results
  BY <1>1 DEF Got, ReplyType, VType
<1>3. Ok /\ rpc.op = "read" => Got \in past[rpc.path]
  BY DEF GeneralInv, ReplyInv, Ok, Got
<1>4. Ok /\ rpc.op = "write" => [rev |-> rpc.reply.rev, bytes |-> rpc.bytes] \in past[rpc.path]
  BY DEF GeneralInv, ReplyInv, Ok
<1>5. past[rpc.path] \subseteq Seen
  BY <1>1, ServerShape DEF GeneralInv
<1>6. active \in OpType /\ active.snap \in StateType /\ cstate \in StateType /\ active.reason \in Reasons
  BY DEF GeneralInv, ShapeInv, OpType
<1> QED
  BY <1>2, <1>3, <1>4, <1>5, <1>6

LEMMA ConflictStateType ==
  ASSUME NEW op \in OpType, NEW reason \in Reasons, NEW v \in VType
  PROVE  /\ ConflictState(op, reason, v) \in StateType /\ ConflictState(op, reason, v).remote = v
         /\ RetryState(op.base, op.bytes, v) \in StateType
<1>1. op.base \in VType /\ op.bytes \in MaybeBytes /\ op.snap.base \in VType /\ op.snap.local \in MaybeBytes
  BY DEF OpType, StateType
<1> QED
  BY <1>1 DEF ConflictState, RetryState, StateType, Reasons

LEMMA CallbackGeneral ==
  ASSUME GeneralInv, Callbacks
  PROVE  GeneralInv'
<1>1. UNCHANGED <<server, late>>
  BY DEF Callbacks, WriteDone, ReconcileDone, ConflictReadDone, InspectDone, MergeVerified, MergeWriteDone,
     MergeReadDone, Callback
<1>2. PICK a, g, r, cs : a = active /\ g = Got /\ r = rpc.reply.result /\ cs = cstate
  OBVIOUS
<1>3. /\ g \in VType /\ g.rev \in Token /\ rpc.reply.rev \in Token /\ a \in OpType /\ cs \in StateType /\ a.reason \in Reasons
      /\ r \in Results /\ a.base \in VType /\ a.bytes \in MaybeBytes
  BY <1>2, ReplyFacts DEF VType, OpType
<1>4. active.stage \in ReadStages /\ Ok => g \in Seen
  BY <1>2, ReplyFacts DEF GeneralInv, OpInv
<1>5. Missing \in VType /\ NilVersion \in VType /\ Missing.rev \in Token
  BY SpecialVersions DEF Token
<1>6. CASE WriteDone
  <2>1. active.stage = "write" /\ (r = "deleted" => Missing \in past[rpc.path])
    BY <1>2, <1>6 DEF WriteDone, Callback, GeneralInv, ReplyInv
  <2>2. CASE Ok /\ FinishSuccess(active, rpc.reply.rev)
    BY <1>1, <1>2, <1>3, <2>2, FinishGeneral
  <2>3. CASE ReadNext("reconcile", "none")
    BY <1>1, <2>1, <2>3, ReadNextGeneral DEF Reasons
  <2>4. CASE Refused /\ ReadNext("conflict", r)
    <3>1. r \in Reasons
      BY <1>2, <2>4 DEF Refused, Reasons
    <3> QED
      BY <1>1, <2>1, <2>4, <3>1, ReadNextGeneral
  <2>5. CASE FinishNonsuccess("failed", cs)
    BY <1>1, <1>3, <2>5, NonsuccessGeneral
  <2> QED
    BY <1>2, <1>6, <2>2, <2>3, <2>4, <2>5 DEF WriteDone
<1>7. ASSUME NEW w \in VType, w \in Seen PROVE ConflictState(a, "changed", w) \in StateType /\ ConflictState(a, "changed", w).remote \in Seen
  BY <1>3, <1>7, ConflictStateType DEF Reasons
<1>8. CASE ReconcileDone
  <2>1. active.stage = "reconcile"
    BY <1>8 DEF ReconcileDone, Callback
  <2>2. CASE FinishNonsuccess("unknown", cs)
    BY <1>1, <1>3, <2>2, NonsuccessGeneral
  <2>3. CASE FinishSuccess(active, Got.rev)
    BY <1>1, <1>2, <1>3, <2>3, FinishGeneral
  <2>4. CASE FinishNonsuccess("unknown", RetryState(a.base, a.bytes, g))
    BY <1>1, <1>3, <2>4, ConflictStateType, NonsuccessGeneral DEF Reasons
  <2>5. CASE Ok /\ FinishNonsuccess("conflict", ConflictState(a, "changed", g))
    BY <1>1, <1>3, <1>4, <1>7, <2>1, <2>5, NonsuccessGeneral DEF ReadStages
  <2> QED
    BY <1>2, <1>8, <2>2, <2>3, <2>4, <2>5 DEF ReconcileDone
<1>9. CASE ConflictReadDone
  <2>1. active.stage = "conflict" /\ (active.reason = "deleted" => Missing \in past[rpc.path])
    BY <1>9 DEF ConflictReadDone, Callback, GeneralInv, ReplyInv
  <2>2. PICK v, s : v = (IF Ok THEN Got ELSE Missing) /\ s = ConflictState(active, active.reason, v)
    OBVIOUS
  <2>3. v \in VType /\ s \in StateType /\ s.remote = v /\ v.rev \in Token
    BY <1>2, <1>3, <1>5, <2>2, ConflictStateType
  <2>4. Ok \/ active.reason = "deleted" => v \in Seen
    <3>1. past[rpc.path] \subseteq Seen
      BY ServerShape DEF GeneralInv, ShapeInv, RpcType
    <3> QED
      BY <1>2, <1>4, <2>1, <2>2, <3>1 DEF ReadStages
  <2>5. CASE FinishNonsuccess("failed", cs)
    BY <1>1, <1>3, <2>5, NonsuccessGeneral
  <2>6. CASE FinishSuccess(active, v.rev)
    BY <1>1, <1>2, <2>3, <2>6, FinishGeneral
  <2>7. CASE (Ok \/ active.reason = "deleted") /\ FinishNonsuccess("conflict", s)
    BY <1>1, <2>3, <2>4, <2>7, NonsuccessGeneral
  <2> QED
    BY <1>2, <1>9, <2>2, <2>5, <2>6, <2>7 DEF ConflictReadDone
<1>10. CASE InspectDone
  <2>1. active.stage = "inspect"
    BY <1>10 DEF InspectDone, Callback
  <2>2. CASE FinishNonsuccess("unknown", cs)
    BY <1>1, <1>3, <2>2, NonsuccessGeneral
  <2>3. CASE FinishSuccess(active, Got.rev)
    BY <1>1, <1>2, <1>3, <2>3, FinishGeneral
  <2>4. CASE FinishNonsuccess("unknown", [cs EXCEPT !.status = "retry", !.remote = g])
    <3>1. [cs EXCEPT !.status = "retry", !.remote = g] \in StateType
      BY <1>3 DEF StateType
    <3> QED
      BY <1>1, <2>4, <3>1, NonsuccessGeneral
  <2>5. CASE Ok /\ FinishNonsuccess("conflict", ConflictState(a, "changed", g))
    BY <1>1, <1>3, <1>4, <1>7, <2>1, <2>5, NonsuccessGeneral DEF ReadStages
  <2> QED
    BY <1>2, <1>10, <2>2, <2>3, <2>4, <2>5 DEF InspectDone
<1>11. ASSUME active.kind = "merge", NEW st \in {"failed", "unknown", "conflict"}, NEW reason \in Reasons,
              NEW v \in VType, v = NilVersion \/ v \in Seen, MergeRefusal(active, st, reason, v)
       PROVE  GeneralInv'
  <2>1. a.snap.remote \in Seen
    BY <1>2, <1>11 DEF GeneralInv, ShownInv, Resolutions
  <2> QED
    BY <1>1, <1>2, <1>3, <1>11, <2>1, RefusalGeneral
<1>12. CASE MergeVerified
  <2>1. active.stage = "verify" /\ active.kind = "merge" /\ active.bytes \in Contents /\ rpc.path = "file"
    BY <1>12 DEF MergeVerified, Callback, GeneralInv, OpInv, MergeStages, Target
  <2>2. CASE MergeRefusal(active, "failed", "live_changed", NilVersion)
    BY <1>5, <1>11, <2>1, <2>2 DEF Reasons
  <2>3. CASE MergeRefusal(active, "unknown", "transport", NilVersion)
    BY <1>5, <1>11, <2>1, <2>3 DEF Reasons
  <2>4. CASE Ok /\ MergeRefusal(active, "conflict", "changed", Got)
    BY <1>2, <1>3, <1>4, <1>11, <2>1, <2>4 DEF Reasons, ReadStages
  <2>5. CASE /\ Ok /\ RemoteUnmoved /\ active' = [active EXCEPT !.stage = "publish"] /\ SendWrite(active, Got.rev)
             /\ UNCHANGED <<buf, modified, base, cstate, queued, status, merging>>
    <3>1. /\ active' \in OpType /\ active'.stage = "publish" /\ active'.kind = "merge" /\ active'.bytes = active.bytes
          /\ active'.snap = active.snap
      BY <1>2, <1>3, <2>1, <2>5 DEF OpType, Stages
    <3>2. /\ rpc'.op = "write" /\ rpc'.path = "file" /\ rpc'.bytes = active.bytes /\ rpc'.exp = Got.rev
          /\ rpc'.reply = Pending /\ rpc' \in RpcType
      BY <1>2, <1>3, <2>1, <2>5, SpecialVersions, SaveAssumption DEF SendWrite, Target, RpcType, Paths
    <3>3. Got.rev = active'.snap.remote.rev
      BY <2>5, <3>1 DEF RemoteUnmoved
    <3>4. ServerInv' /\ Seen' = Seen
      BY <1>1, SameServer DEF GeneralInv
    <3>5. ShapeInv'
      BY <1>1, <2>1, <2>5, <3>1, <3>2 DEF GeneralInv, ShapeInv
    <3>6. OpInv'
      BY <2>1, <2>5, <3>1, <3>2 DEF GeneralInv, OpInv, WriteStages, ReadStages, SaveStages, MergeStages, Target
    <3>7. ReplyInv'
      BY <3>1, <3>2, SpecialVersions DEF ReplyInv
    <3>8. ShownInv'
      BY <2>1, <2>5, <3>1, <3>2, <3>3, <3>4 DEF GeneralInv, ShownInv, Resolutions
    <3> QED
      BY <3>4, <3>5, <3>6, <3>7, <3>8 DEF GeneralInv
  <2> QED
    BY <1>12, <2>2, <2>3, <2>4, <2>5 DEF MergeVerified
<1>13. CASE MergeWriteDone
  <2>1. active.stage = "publish" /\ active.kind = "merge" /\ (r = "deleted" => Missing \in past[rpc.path])
    BY <1>2, <1>13 DEF MergeWriteDone, Callback, GeneralInv, ReplyInv, OpInv, MergeStages
  <2>2. CASE MergeSuccess(rpc.reply.rev)
    BY <1>1, <1>2, <1>3, <2>2, MergedGeneral
  <2>3. CASE ReadNext("merge-reconcile", "none")
    BY <1>1, <2>1, <2>3, ReadNextGeneral DEF Reasons
  <2>4. CASE Refused /\ ReadNext("merge-conflict", r)
    <3>1. r \in Reasons
      BY <1>2, <2>4 DEF Refused, Reasons
    <3> QED
      BY <1>1, <2>1, <2>4, <3>1, ReadNextGeneral
  <2>5. CASE MergeRefusal(active, "failed", "server_error", NilVersion)
    BY <1>5, <1>11, <2>1, <2>5 DEF Reasons
  <2> QED
    BY <1>2, <1>13, <2>2, <2>3, <2>4, <2>5 DEF MergeWriteDone
<1>14. CASE MergeReadDone
  <2>1. active.stage \in ReadStages /\ active.kind = "merge"
    BY <1>14 DEF MergeReadDone, Callback, GeneralInv, OpInv, MergeStages, ReadStages
  <2>2. PICK v : v = (IF Ok THEN Got ELSE NilVersion)
    OBVIOUS
  <2>3. v \in VType /\ (v = NilVersion \/ v \in Seen) /\ v.rev \in Token
    BY <1>2, <1>3, <1>4, <1>5, <2>1, <2>2 DEF VType
  <2>4. CASE MergeSuccess(v.rev)
    BY <1>1, <2>3, <2>4, MergedGeneral
  <2>5. CASE MergeRefusal(active, "unknown", "transport", v)
    BY <1>11, <2>1, <2>3, <2>5 DEF Reasons
  <2>6. CASE MergeRefusal(active, "conflict", active.reason, v)
    BY <1>2, <1>3, <1>11, <2>1, <2>3, <2>6
  <2> QED
    BY <1>14, <2>2, <2>4, <2>5, <2>6 DEF MergeReadDone
<1> QED
  BY <1>6, <1>8, <1>9, <1>10, <1>12, <1>13, <1>14 DEF Callbacks

\* Steps that change neither the operation nor its request.
LEMMA AsideGeneral ==
  ASSUME GeneralInv, UNCHANGED <<server, late, rpc, active>>, status' = status \/ (status # "saving" /\ status' # "saving"),
         queued' = queued \/ (queued' \in OpType /\ queued'.kind = "save" /\ queued'.snap = NoState) \/ queued' = NoOp,
         buf' \in MaybeBytes, base' \in VType, cstate' \in StateType, merging' \in StateType,
         status' = "conflict" => cstate'.remote \in Seen, active.kind = "save-as" => cstate'.remote \in Seen,
         merging' = NoState \/ merging'.remote \in Seen
  PROVE  GeneralInv'
<1> USE DEF GeneralInv
<1>1. ServerInv' /\ Seen' = Seen /\ past' = past
  BY SameServer DEF server
<1>2. ShapeInv'
  BY SpecialVersions DEF ShapeInv
<1>3. OpInv' /\ ReplyInv'
  BY <1>1 DEF OpInv, ReplyInv, Target
<1>4. ShownInv'
  BY <1>1 DEF ShownInv
<1> QED
  BY <1>1, <1>2, <1>3, <1>4

LEMMA CaptureType ==
  ASSUME GeneralInv, NEW b \in VType, NEW exp \in Token
  PROVE  /\ Capture(b, exp) \in OpType /\ Capture(b, exp).kind = "save" /\ Capture(b, exp).snap = NoState
         /\ Capture(b, exp).bytes = buf /\ Capture(b, exp).base = b /\ Capture(b, exp).exp = exp
<1>1. buf \in MaybeBytes /\ NoState \in StateType
  BY SpecialVersions DEF GeneralInv, ShapeInv
<1> QED
  BY <1>1 DEF Capture, NoOp, OpType, OpKinds, Stages, Reasons

LEMMA AskGeneral ==
  ASSUME GeneralInv, NEW op \in OpType, op.kind = "save", op.snap = NoState, QueueOrDispatch(op), UNCHANGED <<server, late>>
  PROVE  GeneralInv'
<1>1. UNCHANGED <<buf, base, cstate, merging>> /\ buf \in MaybeBytes /\ base \in VType /\ cstate \in StateType /\ merging \in StateType
  BY DEF QueueOrDispatch, GeneralInv, ShapeInv
<1>2. CASE active = NoOp
  <2>1. Dispatch(op) /\ queued' = queued
    BY <1>2 DEF QueueOrDispatch
  <2> QED
    BY <1>1, <2>1, DispatchGeneral DEF Resolutions
<1>3. CASE active # NoOp
  <2>1. UNCHANGED <<active, status, rpc>> /\ queued' \in {NoOp, queued, op}
    BY <1>3 DEF QueueOrDispatch, Coalesce
  <2> QED
    BY <1>1, <2>1, AsideGeneral DEF GeneralInv, ShownInv
<1> QED
  BY <1>2, <1>3

LEMMA UserGeneral ==
  ASSUME GeneralInv, User \/ ExpireSuccess \/ UNCHANGED vars
  PROVE  GeneralInv'
<1>1. /\ buf \in MaybeBytes /\ base \in VType /\ cstate \in StateType /\ merging \in StateType /\ active \in OpType
      /\ cstate.base \in VType /\ cstate.remote \in VType /\ cstate.local \in MaybeBytes /\ cstate.base.rev \in Token
      /\ cstate.remote.rev \in Token /\ cstate.remote.bytes \in MaybeBytes /\ base.rev \in Token /\ cstate.base.bytes \in MaybeBytes
      /\ merging.base \in VType /\ merging.remote \in VType
  BY DEF GeneralInv, ShapeInv, StateType, VType
<1>2. /\ status = "conflict" => cstate.remote \in Seen
      /\ merging = NoState \/ merging.remote \in Seen
      /\ active.kind = "save-as" => cstate.remote \in Seen
      /\ active = NoOp <=> status # "saving"
      /\ NoOp.kind = "none"
  BY DEF GeneralInv, ShownInv, OpInv, NoOp
<1>3. UNCHANGED vars \/ UNCHANGED <<server, late>>
  BY DEF User, Edit, SaveBuffer, RetrySave, InspectUnknown, KeepRemote, Resolve, StartMerge, ApplyMerge, AbandonMerge,
     ExpireSuccess, Command, Choose
<1>4. CASE UNCHANGED vars \/ ExpireSuccess
  BY <1>1, <1>2, <1>3, <1>4, AsideGeneral DEF vars, ExpireSuccess
<1>5. CASE Edit
  BY <1>1, <1>2, <1>5, AsideGeneral DEF Edit, MaybeBytes
<1>6. CASE SaveBuffer
  <2>1. PICK o : o = Capture(base, base.rev)
    OBVIOUS
  <2>2. o \in OpType /\ o.kind = "save" /\ o.snap = NoState
    BY <1>1, <2>1, CaptureType
  <2> QED
    BY <1>6, <2>1, <2>2, AskGeneral DEF SaveBuffer, Command
<1>7. CASE RetrySave
  <2>1. PICK o : o = Capture(cstate.base, IF buf = cstate.local THEN cstate.remote.rev ELSE cstate.base.rev)
    OBVIOUS
  <2>2. o \in OpType /\ o.kind = "save" /\ o.snap = NoState
    BY <1>1, <2>1, CaptureType
  <2> QED
    BY <1>7, <2>1, <2>2, AskGeneral DEF RetrySave, Command
<1>8. CASE InspectUnknown
  <2>1. /\ UNCHANGED <<server, late, buf, modified, base, cstate, queued, merging>> /\ status' = "saving"
        /\ active' = [NoOp EXCEPT !.kind = "inspect", !.bytes = cstate.local, !.base = cstate.base, !.stage = "inspect"]
        /\ rpc' = [Idle EXCEPT !.op = "read", !.path = Target(active')]
    BY <1>8 DEF InspectUnknown, Command, SendRead
  <2>2. active' \in OpType /\ active'.kind = "inspect" /\ active'.stage = "inspect" /\ active'.snap = NoState
    BY <1>1, <2>1, SpecialVersions DEF NoOp, OpType, OpKinds, Stages, Reasons
  <2>3. Target(active)' = "file" /\ Target(active') = "file"
    BY <2>2 DEF Target
  <2>4. rpc'.op = "read" /\ rpc'.path = "file" /\ rpc'.reply = Pending /\ rpc' \in RpcType
    BY <2>1, <2>3, SpecialVersions DEF Idle, RpcType, Paths
  <2>5. ServerInv' /\ Seen' = Seen
    BY <2>1, SameServer DEF GeneralInv
  <2>6. ShapeInv'
    BY <2>1, <2>2, <2>4 DEF GeneralInv, ShapeInv
  <2>7. OpInv'
    BY <2>1, <2>2, <2>3, <2>4 DEF GeneralInv, OpInv, WriteStages, ReadStages, SaveStages, MergeStages
  <2>8. ReplyInv'
    BY <2>2, <2>4, SpecialVersions DEF ReplyInv
  <2>9. ShownInv'
    BY <1>2, <2>1, <2>2, <2>5 DEF ShownInv, Resolutions
  <2> QED
    BY <2>5, <2>6, <2>7, <2>8, <2>9 DEF GeneralInv
<1>9. CASE KeepRemote
  <2>1. /\ status = "conflict" /\ status' = "saved" /\ UNCHANGED <<server, late, active, queued, rpc, merging>>
        /\ buf' = cstate.remote.bytes /\ base' = cstate.remote /\ cstate' = NoState
    BY <1>9 DEF KeepRemote, Choose, Command
  <2> QED
    BY <1>1, <1>2, <2>1, SpecialVersions, AsideGeneral
<1>10. CASE Resolve
  <2>1. PICK choice \in {"keep-local", "restore-base", "save-as"} :
          /\ Dispatch(Resolution(choice)) /\ status = "conflict"
          /\ UNCHANGED <<server, late, buf, base, cstate, queued, merging>>
    BY <1>10 DEF Resolve, Choose, Command
  <2>2. PICK o : o = Resolution(choice)
    OBVIOUS
  <2>3. /\ o \in OpType /\ o.kind = choice /\ o.snap = cstate
        /\ choice # "save-as" => o.exp = cstate.remote.rev
    <3>1. PICK b, e : /\ b = (IF choice = "restore-base" THEN cstate.base.bytes ELSE cstate.local)
                      /\ e = (IF choice = "save-as" THEN Missing.rev ELSE cstate.remote.rev)
      OBVIOUS
    <3>2. b \in MaybeBytes /\ e \in Token
      BY <1>1, <3>1, SpecialVersions DEF Token
    <3>3. o = [kind |-> choice, bytes |-> b, base |-> cstate.base, exp |-> e, snap |-> cstate, stage |-> "none", reason |-> "none"]
      BY <2>2, <3>1 DEF Resolution, NoOp
    <3>4. o \in OpType
      BY <1>1, <3>2, <3>3 DEF OpType, OpKinds, Stages, Reasons
    <3> QED
      BY <3>1, <3>3, <3>4
  <2> QED
    BY <1>1, <1>2, <2>1, <2>2, <2>3, DispatchGeneral DEF Resolutions
<1>11. CASE StartMerge
  <2>1. status = "conflict" /\ merging' = cstate /\ UNCHANGED <<server, late, buf, base, cstate, active, queued, status, rpc>>
    BY <1>11 DEF StartMerge, Choose, Command
  <2> QED
    BY <1>1, <1>2, <2>1, AsideGeneral
<1>12. CASE ApplyMerge
  <2>1. PICK merged \in Contents :
          LET op == [NoOp EXCEPT !.kind = "merge", !.bytes = merged, !.base = merging.base,
                                 !.snap = merging, !.stage = "verify"]
          IN /\ merging # NoState /\ active = NoOp /\ UNCHANGED <<server, late>>
             /\ IF buf # merging.local THEN MergeRefusal(op, "failed", "live_changed", NilVersion)
                ELSE /\ active' = op /\ status' = "saving" /\ SendRead(op)
                     /\ UNCHANGED <<buf, base, cstate, queued, merging>>
    BY <1>12 DEF ApplyMerge, Command
  <2>2. PICK op : op = [NoOp EXCEPT !.kind = "merge", !.bytes = merged, !.base = merging.base,
                                    !.snap = merging, !.stage = "verify"]
    OBVIOUS
  <2>3. op \in OpType /\ op.kind = "merge" /\ op.bytes = merged /\ op.snap = merging /\ op.stage = "verify" /\ op.snap.remote \in Seen
    BY <1>1, <1>2, <2>1, <2>2, SpecialVersions DEF NoOp, OpType, OpKinds, Stages, Reasons, MaybeBytes
  <2>4. CASE MergeRefusal(op, "failed", "live_changed", NilVersion)
    BY <2>1, <2>3, <2>4, SpecialVersions, RefusalGeneral DEF Reasons
  <2>5. CASE active' = op /\ status' = "saving" /\ SendRead(op) /\ UNCHANGED <<buf, base, cstate, queued, merging>>
    <3>1. rpc' = [Idle EXCEPT !.op = "read", !.path = "file"] /\ Target(active)' = "file"
      BY <2>3, <2>5 DEF SendRead, Target
    <3>2. rpc'.op = "read" /\ rpc'.path = "file" /\ rpc'.reply = Pending /\ rpc' \in RpcType
      BY <3>1, SpecialVersions DEF Idle, RpcType, Paths
    <3>3. ServerInv' /\ Seen' = Seen
      BY <2>1, SameServer DEF GeneralInv
    <3>4. ShapeInv'
      BY <2>1, <2>3, <2>5, <3>2 DEF GeneralInv, ShapeInv
    <3>5. OpInv'
      BY <2>3, <2>5, <3>1, <3>2 DEF GeneralInv, OpInv, WriteStages, ReadStages, SaveStages, MergeStages
    <3>6. ReplyInv'
      BY <2>3, <2>5, <3>2, SpecialVersions DEF ReplyInv
    <3>7. ShownInv'
      BY <1>2, <2>1, <2>3, <2>5, <3>3 DEF ShownInv, WriteStages
    <3> QED
      BY <3>3, <3>4, <3>5, <3>6, <3>7 DEF GeneralInv
  <2> QED
    BY <2>1, <2>2, <2>4, <2>5
<1>13. CASE AbandonMerge
  <2>1. /\ merging # NoState /\ merging' = NoState /\ cstate' \in {cstate, merging} /\ (cstate' # cstate => cstate' = merging)
        /\ UNCHANGED <<server, late, buf, base, active, queued, status, rpc>>
    BY <1>13 DEF AbandonMerge, Command
  <2> QED
    BY <1>1, <1>2, <2>1, SpecialVersions, AsideGeneral
<1> QED
  BY <1>4, <1>5, <1>6, <1>7, <1>8, <1>9, <1>10, <1>11, <1>12, <1>13 DEF User

LEMMA InitGeneral == Init => GeneralInv
<1> SUFFICES ASSUME Init PROVE GeneralInv
  OBVIOUS
<1>1. PICK b \in Contents :
        LET v == [rev |-> 1, bytes |-> b] IN
        /\ remote = [p \in Paths |-> IF p = "file" THEN v ELSE Missing] /\ past = [p \in Paths |-> {remote[p]}]
        /\ nextRev = 2 /\ rpc = Idle /\ late = {} /\ buf = b /\ base = v /\ cstate = NoState /\ active = NoOp
        /\ queued = NoOp /\ status = "none" /\ merging = NoState
  BY DEF Init
<1>2. PICK v : v = [rev |-> 1, bytes |-> b]
  OBVIOUS
<1>3. v \in VersionType /\ v.rev = 1 /\ v \in VType /\ b \in MaybeBytes
  BY <1>2, SpecialVersions DEF VersionType, MaybeBytes
<1>4. /\ remote["file"] = v /\ remote["other"] = Missing /\ past["file"] = {v} /\ past["other"] = {Missing}
      /\ remote \in [Paths -> VersionType] /\ past \in [Paths -> SUBSET VersionType]
  BY <1>1, <1>2, <1>3, SpecialVersions DEF Paths
<1>5. Seen = {v, Missing}
  BY <1>4 DEF Seen
<1>6. ServerInv
  BY <1>1, <1>3, <1>4, <1>5, SpecialVersions DEF ServerInv, Paths
<1>7. ShapeInv
  BY <1>1, <1>2, <1>3, SpecialVersions DEF ShapeInv, Idle
<1>8. OpInv /\ ReplyInv /\ ShownInv
  BY <1>1 DEF OpInv, ReplyInv, ShownInv, NoOp, Idle, Pending, WriteStages, ReadStages, SaveStages, MergeStages, Resolutions
<1> QED
  BY <1>6, <1>7, <1>8 DEF GeneralInv

LEMMA NextGeneral == GeneralInv /\ [Next]_vars => GeneralInv'
BY UserGeneral, CallbackGeneral, ServerStepGeneral DEF Next

\* What a resolution replaces.
LEMMA ReplacesShown ==
  ASSUME GeneralInv, [Next]_vars
  PROVE  /\ active.kind \in {"keep-local", "restore-base", "merge"}
         /\ rpc.op = "write" /\ rpc.reply = Pending /\ rpc'.reply.result = "ok"
         => remote["file"] = active.snap.remote
<1> SUFFICES ASSUME active.kind \in Resolutions, rpc.op = "write", rpc.reply = Pending, rpc'.reply.result = "ok"
             PROVE  remote["file"] = active.snap.remote
  BY DEF Resolutions
<1>1. /\ active.stage \in WriteStages /\ status = "saving" /\ active # NoOp /\ Pending.result = "none" /\ Idle.reply = Pending
      /\ rpc.path = "file" /\ Failed("error").result = "error" /\ Failed("transport").result = "transport"
      /\ Failed("lost").result = "lost" /\ rpc \in RpcType
  BY SpecialVersions, FailedFacts DEF GeneralInv, OpInv, ShapeInv, Resolutions, Idle, NoOp, WriteStages, ReadStages, Target, Results
<1>2. rpc' # rpc /\ rpc'.reply # Pending
  BY <1>1
<1>3. ~Callbacks
  BY DEF Callbacks, WriteDone, ReconcileDone, ConflictReadDone, InspectDone, MergeVerified, MergeWriteDone,
     MergeReadDone, Callback
<1>4. ~User
  BY <1>1, <1>2 DEF User, Edit, SaveBuffer, RetrySave, QueueOrDispatch, InspectUnknown, KeepRemote, Resolve, StartMerge,
     ApplyMerge, AbandonMerge, Choose
<1>5. ~ServerError /\ ~LoseReply
  BY <1>1 DEF ServerError, LoseReply, Reply, RpcType
<1>6. ServeWrite
  BY <1>2, <1>3, <1>4, <1>5 DEF Next, vars, ExpireSuccess, LateWrite, External, Serve, ServeRead
<1>7. remote["file"].rev = rpc.exp
  <2>1. SUFFICES ASSUME remote["file"].rev # rpc.exp PROVE FALSE
    OBVIOUS
  <2>2. PICK k : k = ConflictKind(rpc.path, rpc.exp)
    OBVIOUS
  <2>3. k \in Results /\ k # "ok" /\ rpc' = [rpc EXCEPT !.reply = Failed(k)]
    BY <1>1, <1>6, <2>1, <2>2 DEF ServeWrite, ConflictKind, Reply, Results
  <2> QED
    BY <1>1, <2>3, FailedFacts DEF RpcType
<1>8. active.snap.remote \in Seen /\ rpc.exp = active.snap.remote.rev
  BY <1>1 DEF GeneralInv, ShownInv
<1>9. remote["file"] \in Seen
  BY ServerShape DEF GeneralInv, Paths
<1> QED
  BY <1>7, <1>8, <1>9 DEF GeneralInv, ServerInv

\* "Whole-file choices remain conditional on the fetched REMOTE revision": for
\* every choice of resolutions and any number of edits, outside changes, lost
\* replies and late writes, what a resolution or a merge replaces is the very
\* version the user was shown.
THEOREM ReplacesWhatWasShown == Spec => ResolutionReplacesShown
<1>1. GeneralInv /\ [Next]_vars
      => [/\ active.kind \in {"keep-local", "restore-base", "merge"}
          /\ rpc.op = "write" /\ rpc.reply = Pending /\ rpc'.reply.result = "ok"
          => remote["file"] = active.snap.remote]_vars
  BY ReplacesShown
<1> QED
  BY <1>1, InitGeneral, NextGeneral, PTL DEF Spec, ResolutionReplacesShown

-----------------------------------------------------------------------------
(* BASE, under the resolutions that write LOCAL or a merge to the visited file *)

\* Versions of the visited file that can be read or were written.
Proper == {v \in past["file"] : v.rev >= 0}

RealState(s) ==
  /\ s.base \in Proper \cup {NilVersion} /\ s.remote \in Proper \cup {NilVersion}
  /\ s.status = "retry" => s.base \in Proper /\ s.remote \in Proper /\ s.remote.bytes = s.base.bytes

RealToken(rev) == \E v \in Proper : v.rev = rev

RealOp(op) ==
  /\ op.kind \in {"none", "save", "inspect", "keep-local", "merge"}
  /\ op.base \in Proper \cup {NilVersion} /\ RealState(op.snap)
  /\ op.exp = Nil \/ RealToken(op.exp)
  /\ op.kind = "save" => /\ op.bytes \in Contents
                         /\ \E v \in Proper : v.rev = op.exp /\ v.bytes = op.base.bytes
  /\ op.kind \in {"save", "keep-local"} => op.snap.local \in {Nil, op.bytes}
  /\ op.kind = "inspect" => op.snap = NoState

\* Every version the client keeps is one the file has had; the token of a save
\* goes with its BASE; what is inspected is still in the conflict state.
RealInv ==
  /\ base \in Proper /\ buf \in Contents /\ recovery \subseteq Contents /\ modified \in BOOLEAN
  /\ status \in {"none", "saving", "saved", "saved-newer", "conflict", "unknown", "failed"}
  /\ RealState(cstate) /\ RealState(merging) /\ RealOp(active) /\ RealOp(queued)
  /\ active.stage = "inspect" => active.base \in {NilVersion, cstate.base}
  /\ rpc.reply.result = "ok" => rpc.reply.rev \in Nat
  /\ rpc.op = "write" => RealToken(rpc.exp)
  /\ \A r \in late : RealToken(r.exp)
  /\ queued # NoOp => active # NoOp

\* Without outside changes and faults there is nothing but saves, and each
\* expects what is there.
CalmInv ==
  /\ ext \in Nat /\ faults \in Nat
  /\ ext = 0 /\ faults = 0 =>
       /\ late = {} /\ cstate = NoState /\ merging = NoState
       /\ status \in {"none", "saving", "saved", "saved-newer"}
       /\ active.stage \in {"none", "write"}
       /\ active.stage = "none" => remote["file"] = base
       /\ active.stage = "write" =>
            /\ active.kind = "save"
            /\ IF rpc.reply = Pending THEN remote["file"] = base /\ rpc.exp = base.rev
               ELSE rpc.reply.result = "ok" /\ remote["file"] = [rev |-> rpc.reply.rev, bytes |-> active.bytes]

-----------------------------------------------------------------------------
(* RealInv is inductive *)

Statuses == {"none", "saving", "saved", "saved-newer", "conflict", "unknown", "failed"}

LEMMA RealGrows ==
  ASSUME Grows
  PROVE  /\ Proper \subseteq Proper' /\ \A t : RealToken(t) => RealToken(t)'
         /\ \A s : RealState(s) => RealState(s)'
         /\ \A o : RealOp(o) => RealOp(o)'
<1>1. Proper \subseteq Proper'
  BY DEF Grows, Proper, Paths
<1>2. \A t : RealToken(t) => RealToken(t)'
  BY <1>1 DEF RealToken
<1>3. \A s : RealState(s) => RealState(s)'
  BY <1>1 DEF RealState
<1>4. \A o : RealOp(o) => RealOp(o)'
  BY <1>1, <1>2, <1>3 DEF RealOp
<1> QED
  BY <1>1, <1>2, <1>3, <1>4

LEMMA ProperFacts ==
  ASSUME GeneralInv
  PROVE  /\ \A v \in Proper : /\ v.rev \in Nat /\ v.rev \in Int /\ v.bytes \in Contents /\ v \in Seen /\ v # NilVersion
                              /\ v \in VersionType /\ RealToken(v.rev) /\ v = [rev |-> v.rev, bytes |-> v.bytes]
         /\ RealState(NoState) /\ RealOp(NoOp)
<1>1. \A v \in Proper : v \in Seen /\ v.rev >= 0
  BY DEF Proper, Seen
<1>2. \A v \in Seen : v \in VersionType /\ v.rev \in Int /\ v.bytes \in Contents /\ v # NilVersion
  BY ServerShape DEF GeneralInv
<1>3. RealState(NoState)
  BY DEF RealState, NoState
<1>4. NoOp.kind = "none" /\ NoOp.base = NilVersion /\ NoOp.snap = NoState /\ NoOp.exp = Nil
  BY DEF NoOp
<1>5. RealOp(NoOp)
  BY <1>3, <1>4 DEF RealOp
<1>6. \A v \in Proper : v \in VersionType /\ v.rev \in Nat
  BY <1>1, <1>2
<1>7. \A v \in VersionType : v = [rev |-> v.rev, bytes |-> v.bytes]
  BY DEF VersionType
<1> QED
  BY <1>1, <1>2, <1>3, <1>5, <1>6, <1>7 DEF RealToken

\* The client does not move; the server answers or its files change.
LEMMA ServedReal ==
  ASSUME GeneralInv, RealInv, UNCHANGED Client, Grows, rpc'.op = rpc.op, rpc'.exp = rpc.exp,
         rpc'.reply.result = "ok" => rpc'.reply.rev \in Nat, \A r \in late' : RealToken(r.exp)
  PROVE  RealInv'
<1>1. UNCHANGED <<buf, modified, base, cstate, active, queued, status, merging, recovery>>
  BY DEF Client
<1>2. PICK b, cs, m, a, q : b = base /\ cs = cstate /\ m = merging /\ a = active /\ q = queued
  OBVIOUS
<1>3. b \in Proper' /\ RealState(cs)' /\ RealState(m)' /\ RealOp(a)' /\ RealOp(q)'
  BY <1>2, RealGrows DEF RealInv
<1>4. base' \in Proper' /\ RealState(cstate)' /\ RealState(merging)' /\ RealOp(active)' /\ RealOp(queued)'
  BY <1>1, <1>2, <1>3
<1>5. rpc'.op = "write" => RealToken(rpc.exp)'
  <2>1. PICK e : e = rpc.exp
    OBVIOUS
  <2>2. rpc'.op = "write" => RealToken(e)'
    BY <2>1, RealGrows DEF RealInv
  <2> QED
    BY <2>1, <2>2
<1>6. \A r \in late' : RealToken(r.exp)'
  BY RealGrows
<1> QED
  BY <1>1, <1>4, <1>5, <1>6 DEF RealInv

LEMMA ServerStepReal ==
  ASSUME GeneralInv, RealInv, Serve \/ ServerError \/ LoseReply \/ LateWrite \/ External
  PROVE  RealInv'
<1>1. UNCHANGED Client
  BY DEF Serve, ServeRead, ServeWrite, ServerError, LoseReply, LateWrite, External
<1>2. rpc \in RpcType /\ rpc.path \in Paths /\ rpc.bytes \in MaybeBytes /\ rpc.exp \in Token
  BY DEF GeneralInv, ShapeInv, RpcType
<1>3. \A r \in late : RealToken(r.exp) /\ r.path \in Paths /\ r.bytes \in Contents
  BY DEF RealInv, GeneralInv, ShapeInv, LateType
<1>4. ServerInv /\ nextRev \in Nat
  BY DEF GeneralInv, ServerInv
<1>5. \A p \in Paths : \A b \in Contents : Publish(p, b) => Grows
  BY <1>4, PublishServer
<1>6. UNCHANGED server => Grows
  BY SameServer
<1>7. rpc.op = "write" /\ rpc.reply = Pending => rpc.bytes \in Contents
  BY DEF GeneralInv, ShapeInv
<1>8. ASSUME NEW r, rpc' = [rpc EXCEPT !.reply = r] PROVE rpc'.op = rpc.op /\ rpc'.exp = rpc.exp /\ rpc'.reply = r
  BY <1>2, <1>8 DEF RpcType
<1>9. Failed("error").result = "error" /\ Failed("transport").result = "transport" /\ Failed("lost").result = "lost"
  BY FailedFacts DEF Results
<1>10. CASE ServeRead
  <2>1. PICK v : v = remote[rpc.path]
    OBVIOUS
  <2>2. v.rev \in Int
    BY <1>2, <1>4, <2>1 DEF ServerInv, VersionType
  <2>3. PICK r : /\ rpc' = [rpc EXCEPT !.reply = r]
                 /\ \/ r = Failed("error")
                    \/ v.rev > 0 /\ r = [result |-> "ok", rev |-> v.rev, bytes |-> v.bytes]
    BY <1>10, <2>1 DEF ServeRead, Reply
  <2>4. r.result = "ok" => r.rev \in Nat
    BY <1>9, <2>2, <2>3
  <2>5. UNCHANGED server /\ late' = late
    BY <1>10 DEF ServeRead
  <2> QED
    BY <1>1, <1>3, <1>6, <1>8, <2>3, <2>4, <2>5, ServedReal
<1>11. CASE ServeWrite
  <2>1. late' = late /\ Waiting /\ rpc.op = "write"
    BY <1>11 DEF ServeWrite
  <2>2. Grows
    BY <1>2, <1>5, <1>6, <1>7, <1>11 DEF ServeWrite, Waiting
  <2>3. PICK k : k = ConflictKind(rpc.path, rpc.exp)
    OBVIOUS
  <2>4. k \in Results /\ k # "ok"
    BY <2>3 DEF ConflictKind, Results
  <2>5. PICK n : n = nextRev
    OBVIOUS
  <2>6. PICK r : /\ rpc' = [rpc EXCEPT !.reply = r]
                 /\ r = Failed(k) \/ r = [result |-> "ok", rev |-> n, bytes |-> Nil]
    BY <1>11, <2>3, <2>5 DEF ServeWrite, Reply
  <2>7. r.result = "ok" => r.rev \in Nat
    BY <1>4, <2>4, <2>5, <2>6, FailedFacts
  <2> QED
    BY <1>1, <1>3, <1>8, <2>1, <2>2, <2>6, <2>7, ServedReal
<1>12. CASE ServerError
  <2>1. late' = late /\ rpc' = [rpc EXCEPT !.reply = Failed("error")]
    BY <1>12 DEF ServerError, Reply
  <2>2. Grows
    BY <1>2, <1>5, <1>6, <1>7, <1>12 DEF ServerError, Waiting
  <2> QED
    BY <1>1, <1>3, <1>8, <1>9, <2>1, <2>2, ServedReal
<1>13. CASE LoseReply
  <2>1. PICK why \in {"transport", "lost"} : UNCHANGED server /\ rpc' = [rpc EXCEPT !.reply = Failed(why)]
    BY <1>13 DEF LoseReply, Reply
  <2>2. \A r \in late' : RealToken(r.exp)
    <3>1. CASE late' = late \cup {[path |-> rpc.path, bytes |-> rpc.bytes, exp |-> rpc.exp]} /\ rpc.op = "write"
      BY <1>3, <3>1 DEF RealInv
    <3> QED
      BY <1>3, <1>13, <3>1 DEF LoseReply
  <2> QED
    BY <1>1, <1>6, <1>8, <1>9, <2>1, <2>2, ServedReal
<1>14. CASE LateWrite
  <2>1. PICK r \in late : /\ late' = late \ {r} /\ rpc' = rpc
                          /\ Publish(r.path, r.bytes) \/ UNCHANGED server
    BY <1>14 DEF LateWrite
  <2>2. Grows
    BY <1>3, <1>5, <1>6, <2>1
  <2> QED
    BY <1>1, <1>3, <2>1, <2>2, ServedReal DEF RealInv
<1>15. CASE External
  <2>1. rpc' = rpc /\ late' = late
    BY <1>15 DEF External
  <2>2. PICK q \in Paths : \/ \E c \in Contents : Publish(q, c)
                           \/ \E v \in {Missing, Special} : Put(q, v) /\ UNCHANGED nextRev
    BY <1>15 DEF External
  <2>3. Grows
    BY <1>4, <1>5, <2>2, SpecialPut
  <2> QED
    BY <1>1, <1>3, <2>1, <2>3, ServedReal DEF RealInv
<1> QED
  BY <1>10, <1>11, <1>12, <1>13, <1>14, <1>15 DEF Serve

\* The server and the writes the client gave up on do not move.
LEMMA SameReal ==
  ASSUME RealInv, UNCHANGED <<server, late>>
  PROVE  /\ Proper' = Proper /\ (\A t : RealToken(t)' <=> RealToken(t)) /\ (\A s : RealState(s)' <=> RealState(s))
         /\ (\A o : RealOp(o)' <=> RealOp(o)) /\ \A r \in late' : RealToken(r.exp)'
<1>1. Proper' = Proper
  BY DEF Proper, server
<1>2. \A t : RealToken(t)' <=> RealToken(t)
  BY <1>1 DEF RealToken
<1>3. \A s : RealState(s)' <=> RealState(s)
  BY <1>1 DEF RealState
<1>4. \A o : RealOp(o)' <=> RealOp(o)
  BY <1>1, <1>2, <1>3 DEF RealOp
<1> QED
  BY <1>1, <1>2, <1>3, <1>4 DEF RealInv

LEMMA DoneReal ==
  ASSUME GeneralInv, RealInv, Done, UNCHANGED <<server, late>>, base' \in Proper, buf' \in Contents,
         recovery' \subseteq Contents, modified' \in BOOLEAN, status' \in Statuses,
         NEW cs, cstate' = cs, RealState(cs), NEW m, merging' = m, RealState(m)
  PROVE  RealInv'
<1>1. active' = NoOp /\ queued' = NoOp /\ rpc' = Idle
  BY DEF Done
<1>2. NoOp.stage = "none" /\ Idle.op = "none" /\ Idle.reply.result = "none"
  BY DEF NoOp, Idle, Pending
<1>3. RealOp(NoOp)'
  BY ProperFacts, SameReal
<1>4. RealState(cs)' /\ RealState(m)'
  BY SameReal
<1>5. RealState(cstate)' /\ RealState(merging)' /\ RealOp(active)' /\ RealOp(queued)'
  BY <1>1, <1>3, <1>4
<1>6. Proper' = Proper /\ \A r \in late' : RealToken(r.exp)'
  BY SameReal
<1> QED
  BY <1>1, <1>2, <1>5, <1>6 DEF RealInv, Statuses

LEMMA StageReal ==
  ASSUME NEW op \in OpType, RealOp(op), NEW stage, NEW reason
  PROVE  RealOp([op EXCEPT !.stage = stage]) /\ RealOp([op EXCEPT !.stage = stage, !.reason = reason])
BY DEF RealOp, OpType

LEMMA DispatchReal ==
  ASSUME GeneralInv, RealInv, NEW op \in OpType, RealOp(op), Dispatch(op), RealToken(op.exp), UNCHANGED <<server, late, merging>>,
         NEW q, queued' = q, RealOp(q), base' \in Proper, buf' \in Contents, recovery' \subseteq Contents,
         NEW cs, cstate' = cs, RealState(cs)
  PROVE  RealInv'
<1>1. PICK a : a = [op EXCEPT !.stage = "write"]
  OBVIOUS
<1>2. active' = a /\ status' = "saving" /\ modified' = TRUE /\ RealOp(a) /\ a.stage = "write" /\ a # NoOp
  BY <1>1, StageReal DEF Dispatch, OpType, NoOp
<1>3. rpc'.op = "write" /\ rpc'.exp = op.exp /\ rpc'.reply.result # "ok"
  <2>1. Pending.result = "none" /\ Failed("transport").result = "transport"
    BY FailedFacts, SpecialVersions DEF Results
  <2> QED
    BY <2>1 DEF Dispatch, SendWrite
<1>4. PICK e, m : e = op.exp /\ m = merging
  OBVIOUS
<1>5. RealToken(e)' /\ RealState(cs)' /\ RealState(m)' /\ RealOp(a)' /\ RealOp(q)'
  BY <1>2, <1>4, SameReal DEF RealInv
<1>6. RealState(cstate)' /\ RealState(merging)' /\ RealOp(active)' /\ RealOp(queued)' /\ RealToken(rpc.exp)'
  BY <1>2, <1>3, <1>4, <1>5
<1>7. Proper' = Proper /\ \A r \in late' : RealToken(r.exp)'
  BY SameReal
<1> QED
  BY <1>2, <1>3, <1>6, <1>7 DEF RealInv

LEMMA ReadNextReal ==
  ASSUME GeneralInv, RealInv, NEW stage, stage \notin {"inspect", "none"}, NEW reason, ReadNext(stage, reason), UNCHANGED <<server, late>>
  PROVE  RealInv'
<1>1. PICK a, o : a = active /\ o = [a EXCEPT !.stage = stage, !.reason = reason]
  OBVIOUS
<1>2. a \in OpType /\ RealOp(a) /\ RealOp(o) /\ o.stage = stage /\ o # NoOp
  BY <1>1, StageReal DEF GeneralInv, ShapeInv, RealInv, OpType, NoOp
<1>3. /\ active' = o /\ rpc' = [Idle EXCEPT !.op = "read", !.path = Target(active)]
      /\ UNCHANGED <<buf, modified, base, cstate, queued, status, merging, recovery>>
  BY <1>1 DEF ReadNext, SendRead
<1>4. rpc'.op = "read" /\ rpc'.reply.result = "none"
  BY <1>3 DEF Idle, Pending
<1>5. PICK cs, m, q : cs = cstate /\ m = merging /\ q = queued
  OBVIOUS
<1>6. RealState(cs)' /\ RealState(m)' /\ RealOp(o)' /\ RealOp(q)'
  BY <1>2, <1>5, SameReal DEF RealInv
<1>7. RealState(cstate)' /\ RealState(merging)' /\ RealOp(active)' /\ RealOp(queued)'
  BY <1>3, <1>5, <1>6
<1>8. Proper' = Proper /\ \A r \in late' : RealToken(r.exp)'
  BY SameReal
<1> QED
  BY <1>2, <1>3, <1>4, <1>7, <1>8 DEF RealInv

LEMMA FinishReal ==
  ASSUME GeneralInv, RealInv, NEW op, op = active, NEW rev, [rev |-> rev, bytes |-> op.bytes] \in Proper,
         FinishSuccess(op, rev), UNCHANGED <<server, late>>
  PROVE  RealInv'
<1>1. PICK v, m : v = [rev |-> rev, bytes |-> op.bytes] /\ m = merging
  OBVIOUS
<1>2. v \in Proper /\ v.rev = rev /\ v.bytes \in Contents /\ v \in VType /\ v.rev \in Token /\ RealToken(v.rev)
  BY <1>1, ProperFacts, SpecialVersions DEF Token
<1>3. op.kind \notin {"save-as", "restore-base"}
  BY DEF RealInv, RealOp
<1>4. RealState(NoState) /\ RealState(m) /\ buf \in Contents /\ recovery \subseteq Contents /\ RealOp(NoOp)
  BY <1>1, ProperFacts DEF RealInv
<1>5. base' = v /\ cstate' = NoState /\ UNCHANGED <<buf, merging, recovery>>
  BY <1>1, <1>3 DEF FinishSuccess
<1>6. CASE Done /\ modified' = NewerEdits(op) /\ status' \in {"saved", "saved-newer"}
  BY <1>1, <1>2, <1>4, <1>5, <1>6, DoneReal DEF NewerEdits, Statuses
<1>7. CASE queued # NoOp /\ Dispatch(Rebase(queued, v)) /\ queued' = NoOp
  <2>1. PICK q, o : q = queued /\ o = [q EXCEPT !.base = v, !.exp = v.rev]
    OBVIOUS
  <2>2. q \in OpType /\ RealOp(q) /\ q.kind = "save"
    BY <1>7, <2>1 DEF GeneralInv, ShapeInv, OpInv, RealInv
  <2>3. /\ o \in OpType /\ o.kind = "save" /\ o.bytes = q.bytes /\ o.snap = q.snap /\ o.base = v /\ o.exp = v.rev
    BY <1>2, <2>1, <2>2 DEF OpType
  <2>4. RealOp(o) /\ RealToken(o.exp)
    BY <1>2, <2>2, <2>3 DEF RealOp
  <2>5. Dispatch(o)
    BY <1>7, <2>1 DEF Rebase
  <2> QED
    BY <1>2, <1>4, <1>5, <1>7, <2>3, <2>4, <2>5, DispatchReal
<1> QED
  BY <1>1, <1>3, <1>6, <1>7 DEF FinishSuccess

LEMMA NonsuccessReal ==
  ASSUME GeneralInv, RealInv, NEW st \in Statuses, NEW cs, RealState(cs), FinishNonsuccess(st, cs), UNCHANGED <<server, late>>
  PROVE  RealInv'
<1>1. Done /\ cstate' = cs /\ status' = st /\ modified' = TRUE /\ UNCHANGED <<buf, base, merging, recovery>>
  BY DEF FinishNonsuccess
<1>2. PICK m : m = merging
  OBVIOUS
<1>3. RealState(m) /\ base \in Proper /\ buf \in Contents /\ recovery \subseteq Contents
  BY <1>2 DEF RealInv
<1> QED
  BY <1>1, <1>2, <1>3, DoneReal

LEMMA RefusalReal ==
  ASSUME GeneralInv, RealInv, NEW op \in OpType, RealOp(op), op.bytes \in Contents, NEW st \in Statuses, NEW reason,
         NEW v \in Proper \cup {NilVersion}, MergeRefusal(op, st, reason, v), UNCHANGED <<server, late>>
  PROVE  RealInv'
<1>1. PICK m, w, b : m = merging /\ w = (IF v = NilVersion THEN op.snap.remote ELSE v) /\ b = buf
  OBVIOUS
<1>2. PICK cs : cs = [status |-> "open", reason |-> reason, base |-> op.snap.base, local |-> b, remote |-> w]
  OBVIOUS
<1>3. /\ Done /\ status' = st /\ UNCHANGED <<buf, base, merging>> /\ modified' = TRUE /\ cstate' = cs
      /\ recovery' = recovery \cup {op.bytes}
  BY <1>1, <1>2 DEF MergeRefusal
<1>4. RealState(cs)
  BY <1>1, <1>2 DEF RealOp, RealState
<1>5. RealState(m) /\ base \in Proper /\ buf \in Contents /\ recovery \subseteq Contents
  BY <1>1 DEF RealInv
<1> QED
  BY <1>1, <1>3, <1>4, <1>5, DoneReal

LEMMA MergedReal ==
  ASSUME GeneralInv, RealInv, NEW rev, [rev |-> rev, bytes |-> active.bytes] \in Proper, active.bytes \in Contents,
         MergeSuccess(rev), UNCHANGED <<server, late>>
  PROVE  RealInv'
<1>1. /\ Done /\ base' = [rev |-> rev, bytes |-> active.bytes] /\ cstate' = NoState /\ buf' \in {buf, active.bytes}
      /\ status' \in {"saved", "saved-newer"} /\ merging' = NoState /\ modified' \in BOOLEAN /\ recovery' = recovery
  BY DEF MergeSuccess
<1>2. buf' \in Contents /\ recovery' \subseteq Contents /\ RealState(NoState)
  BY <1>1, ProperFacts DEF RealInv
<1> QED
  BY <1>1, <1>2, DoneReal DEF Statuses

\* A command that leaves the operation and its request alone.
LEMMA AsideReal ==
  ASSUME GeneralInv, RealInv, UNCHANGED <<server, late, active, rpc>>, base' \in Proper, buf' \in Contents,
         recovery' \subseteq Contents, modified' \in BOOLEAN, status' \in Statuses, NEW q, queued' = q, RealOp(q),
         NEW cs, cstate' = cs, RealState(cs), NEW m, merging' = m, RealState(m),
         active.stage = "inspect" => active.base \in {NilVersion, cs.base}, q # NoOp => active # NoOp
  PROVE  RealInv'
<1>1. PICK a, e : a = active /\ e = rpc.exp
  OBVIOUS
<1>2. RealOp(a)' /\ RealOp(q)' /\ RealState(cs)' /\ RealState(m)' /\ (rpc.op = "write" => RealToken(e)')
  BY <1>1, SameReal DEF RealInv
<1>3. RealOp(active)' /\ RealOp(queued)' /\ RealState(cstate)' /\ RealState(merging)' /\ (rpc.op = "write" => RealToken(rpc.exp)')
  BY <1>1, <1>2
<1>4. Proper' = Proper /\ \A r \in late' : RealToken(r.exp)'
  BY SameReal
<1> QED
  BY <1>3, <1>4 DEF RealInv, Statuses

\* What the replies of the visited file's requests stand for.
LEMMA ReplyReal ==
  ASSUME GeneralInv, RealInv
  PROVE  /\ active.stage # "none" => rpc.path = "file"
         /\ active.stage \in ReadStages /\ Ok => Got \in Proper
         /\ active.stage \in WriteStages /\ Ok => [rev |-> rpc.reply.rev, bytes |-> active.bytes] \in Proper
         /\ active.stage = "conflict" /\ active.reason = "deleted" => Missing \in Proper
<1>1. active.stage # "none" => rpc.path = "file"
  BY DEF GeneralInv, OpInv, Target, RealInv, RealOp
<1>2. Ok => rpc.reply.rev \in Nat
  BY DEF RealInv, Ok
<1>3. active.stage \in ReadStages => rpc.op = "read" /\ active.stage # "none"
  BY DEF GeneralInv, OpInv, ReadStages
<1>4. active.stage \in ReadStages /\ Ok => Got \in past["file"] /\ Got.rev = rpc.reply.rev
  BY <1>1, <1>3, ReplyFacts DEF Got
<1>5. active.stage \in WriteStages => rpc.op = "write" /\ active.stage # "none" /\ rpc.bytes = active.bytes
  BY DEF GeneralInv, OpInv, WriteStages
<1>6. active.stage \in WriteStages /\ Ok => [rev |-> rpc.reply.rev, bytes |-> active.bytes] \in past["file"]
  BY <1>1, <1>5, ReplyFacts
<1>7. active.stage = "conflict" /\ active.reason = "deleted" => Missing \in past["file"] /\ Missing.rev = 0
  BY <1>1, SpecialVersions DEF GeneralInv, ReplyInv
<1> QED
  BY <1>1, <1>2, <1>4, <1>6, <1>7 DEF Proper

LEMMA ConflictReal ==
  ASSUME NEW op, RealOp(op), NEW reason, NEW v \in Proper
  PROVE  RealState(ConflictState(op, reason, v))
BY DEF RealOp, RealState, ConflictState

\* A read that shows the operation's own bytes, or those of its BASE.
LEMMA OutcomeReal ==
  ASSUME GeneralInv, RealInv, active.stage \in ReadStages, Ok
  PROVE  /\ ReconcileUncertain(active.base.bytes, active.bytes, Got.bytes) = "saved"
              => [rev |-> Got.rev, bytes |-> active.bytes] \in Proper
         /\ ReconcileUncertain(active.base.bytes, active.bytes, Got.bytes) = "retry"
              => active.base \in Proper /\ Got.bytes = active.base.bytes
<1>1. PICK g : g = Got
  OBVIOUS
<1>2. g \in Proper /\ g = [rev |-> g.rev, bytes |-> g.bytes] /\ g.bytes \in Contents
  BY <1>1, ReplyReal, ProperFacts
<1>3. active.base \in Proper \cup {NilVersion} /\ NilVersion.bytes = Nil /\ Nil \notin Contents
  BY SaveAssumption, SpecialVersions DEF RealInv, RealOp
<1> QED
  BY <1>1, <1>2, <1>3 DEF ReconcileUncertain

LEMMA CallbackReal ==
  ASSUME GeneralInv, RealInv, Callbacks
  PROVE  RealInv'
<1>1. UNCHANGED <<server, late>>
  BY DEF Callbacks, WriteDone, ReconcileDone, ConflictReadDone, InspectDone, MergeVerified, MergeWriteDone,
     MergeReadDone, Callback
<1>2. PICK a, g, cs : a = active /\ g = Got /\ cs = cstate
  OBVIOUS
<1>3. a \in OpType /\ RealOp(a) /\ RealState(cs) /\ cs \in StateType
  BY <1>2 DEF GeneralInv, ShapeInv, RealInv
<1>4. a.stage \in ReadStages /\ Ok => g \in Proper
  BY <1>2, ReplyReal
<1>5. \A st \in Statuses : FinishNonsuccess(st, cs) => RealInv'
  BY <1>1, <1>3, NonsuccessReal
<1>6. CASE WriteDone
  <2>1. a.stage = "write"
    BY <1>2, <1>6 DEF WriteDone, Callback
  <2>2. CASE Ok /\ FinishSuccess(active, rpc.reply.rev)
    BY <1>1, <1>2, <2>1, <2>2, ReplyReal, FinishReal DEF WriteStages
  <2>3. CASE \E reason : ReadNext("reconcile", reason) \/ ReadNext("conflict", reason)
    BY <1>1, <2>3, ReadNextReal
  <2> QED
    BY <1>2, <1>5, <1>6, <2>2, <2>3 DEF WriteDone, Statuses
<1>7. CASE ReconcileDone
  <2>1. a.stage \in ReadStages
    BY <1>2, <1>7 DEF ReconcileDone, Callback, ReadStages
  <2>2. CASE Ok /\ ReconcileUncertain(a.base.bytes, a.bytes, g.bytes) = "saved" /\ FinishSuccess(a, g.rev)
    BY <1>1, <1>2, <2>1, <2>2, OutcomeReal, FinishReal
  <2>3. CASE /\ Ok /\ ReconcileUncertain(a.base.bytes, a.bytes, g.bytes) = "retry"
             /\ FinishNonsuccess("unknown", RetryState(a.base, a.bytes, g))
    <3>1. RealState(RetryState(a.base, a.bytes, g))
      BY <1>2, <1>4, <2>1, <2>3, OutcomeReal DEF RealState, RetryState
    <3> QED
      BY <1>1, <2>3, <3>1, NonsuccessReal DEF Statuses
  <2>4. CASE Ok /\ FinishNonsuccess("conflict", ConflictState(a, "changed", g))
    <3>1. RealState(ConflictState(a, "changed", g))
      BY <1>3, <1>4, <2>1, <2>4, ConflictReal
    <3> QED
      BY <1>1, <2>4, <3>1, NonsuccessReal DEF Statuses
  <2> QED
    BY <1>2, <1>5, <1>7, <2>2, <2>3, <2>4 DEF ReconcileDone, Statuses
<1>8. CASE ConflictReadDone
  <2>1. a.stage = "conflict"
    BY <1>2, <1>8 DEF ConflictReadDone, Callback
  <2>2. PICK v : v = (IF Ok THEN g ELSE Missing)
    OBVIOUS
  <2>3. PICK c : c = ConflictState(a, a.reason, v)
    OBVIOUS
  <2>4. CASE /\ Ok \/ a.reason = "deleted"
             /\ IF Classify(c.base.bytes, c.local, v.bytes) = "convergent" THEN FinishSuccess(a, v.rev)
                ELSE FinishNonsuccess("conflict", c)
    <3>1. v \in Proper
      BY <1>2, <1>4, <2>1, <2>2, <2>4, ReplyReal DEF ReadStages
    <3>2. CASE FinishNonsuccess("conflict", c)
      BY <1>1, <1>3, <2>3, <3>1, <3>2, ConflictReal, NonsuccessReal DEF Statuses
    <3>3. CASE c.local = v.bytes /\ FinishSuccess(a, v.rev)
      <4>1. a.kind \in {"save", "keep-local"}
        BY <1>2, <1>3, <2>1 DEF GeneralInv, OpInv, SaveStages, RealOp
      <4>2. c.local = a.bytes
        BY <1>3, <2>3, <4>1 DEF ConflictState, RealOp
      <4>3. [rev |-> v.rev, bytes |-> a.bytes] \in Proper
        BY <3>1, <3>3, <4>2, ProperFacts
      <4> QED
        BY <1>1, <1>2, <3>3, <4>3, FinishReal
    <3> QED
      BY <2>4, <3>2, <3>3 DEF Classify
  <2> QED
    BY <1>2, <1>5, <1>8, <2>2, <2>3, <2>4 DEF ConflictReadDone, Statuses
<1>9. CASE InspectDone
  <2>1. a.stage = "inspect" /\ a.stage \in ReadStages
    BY <1>2, <1>9 DEF InspectDone, Callback, ReadStages
  <2>2. CASE Ok /\ ReconcileUncertain(a.base.bytes, a.bytes, g.bytes) = "saved" /\ FinishSuccess(a, g.rev)
    BY <1>1, <1>2, <2>1, <2>2, OutcomeReal, FinishReal
  <2>3. CASE /\ Ok /\ ReconcileUncertain(a.base.bytes, a.bytes, g.bytes) = "retry"
             /\ FinishNonsuccess("unknown", [cs EXCEPT !.status = "retry", !.remote = g])
    <3>1. a.base \in Proper /\ g.bytes = a.base.bytes /\ g \in Proper
      BY <1>2, <1>4, <2>1, <2>3, OutcomeReal
    <3>2. cs.base = a.base
      BY <1>2, <2>1, <3>1, ProperFacts DEF RealInv
    <3>3. PICK c : c = [cs EXCEPT !.status = "retry", !.remote = g]
      OBVIOUS
    <3>4. c.base = cs.base /\ c.remote = g
      BY <1>3, <3>3 DEF StateType
    <3>5. RealState(c)
      BY <3>1, <3>2, <3>4 DEF RealState
    <3> QED
      BY <1>1, <2>3, <3>3, <3>5, NonsuccessReal DEF Statuses
  <2>4. CASE Ok /\ FinishNonsuccess("conflict", ConflictState(a, "changed", g))
    <3>1. RealState(ConflictState(a, "changed", g))
      BY <1>3, <1>4, <2>1, <2>4, ConflictReal
    <3> QED
      BY <1>1, <2>4, <3>1, NonsuccessReal DEF Statuses
  <2> QED
    BY <1>2, <1>5, <1>9, <2>2, <2>3, <2>4 DEF InspectDone, Statuses
<1>10. a.stage \in MergeStages => a.bytes \in Contents
  BY <1>2 DEF GeneralInv, OpInv
<1>11. ASSUME a.stage \in MergeStages, NEW st \in Statuses, NEW reason, NEW v \in Proper \cup {NilVersion},
              MergeRefusal(a, st, reason, v)
       PROVE  RealInv'
  BY <1>1, <1>3, <1>10, <1>11, RefusalReal
<1>12. CASE MergeVerified
  <2>1. a.stage = "verify" /\ a.stage \in MergeStages /\ a.stage \in ReadStages
    BY <1>2, <1>12 DEF MergeVerified, Callback, MergeStages, ReadStages
  <2>2. CASE \E st \in Statuses, reason \in Reasons : MergeRefusal(a, st, reason, NilVersion)
    BY <1>11, <2>1, <2>2
  <2>3. CASE Ok /\ MergeRefusal(a, "conflict", "changed", g)
    BY <1>4, <1>11, <2>1, <2>3 DEF Statuses
  <2>4. CASE /\ Ok /\ active' = [a EXCEPT !.stage = "publish"] /\ SendWrite(a, g.rev)
             /\ UNCHANGED <<buf, modified, base, cstate, queued, status, merging, recovery>>
    <3>1. PICK o : o = [a EXCEPT !.stage = "publish"]
      OBVIOUS
    <3>2. RealOp(o) /\ o.stage = "publish" /\ o # NoOp
      BY <1>3, <3>1, StageReal DEF OpType, NoOp
    <3>3. PICK e : e = g.rev
      OBVIOUS
    <3>4. RealToken(e)
      BY <1>4, <2>1, <2>4, <3>3, ProperFacts
    <3>5. rpc'.op = "write" /\ rpc'.exp = e /\ rpc'.reply.result # "ok"
      <4>1. Pending.result = "none" /\ Failed("transport").result = "transport"
        BY FailedFacts, SpecialVersions DEF Results
      <4> QED
        BY <2>4, <3>3, <4>1 DEF SendWrite
    <3>6. PICK m, q : m = merging /\ q = queued
      OBVIOUS
    <3>7. RealToken(e)' /\ RealOp(o)' /\ RealOp(q)' /\ RealState(cs)' /\ RealState(m)'
      BY <1>1, <1>3, <3>2, <3>4, <3>6, SameReal DEF RealInv
    <3>8. RealToken(rpc.exp)' /\ RealOp(active)' /\ RealOp(queued)' /\ RealState(cstate)' /\ RealState(merging)'
      BY <1>2, <2>4, <3>1, <3>5, <3>6, <3>7
    <3>9. Proper' = Proper /\ \A r \in late' : RealToken(r.exp)'
      BY <1>1, SameReal
    <3> QED
      BY <2>4, <3>1, <3>2, <3>5, <3>8, <3>9 DEF RealInv
  <2> QED
    BY <1>2, <1>12, <2>2, <2>3, <2>4 DEF MergeVerified, Statuses, Reasons
<1>13. CASE MergeWriteDone
  <2>1. a.stage = "publish" /\ a.stage \in MergeStages
    BY <1>2, <1>13 DEF MergeWriteDone, Callback, MergeStages
  <2>2. CASE Ok /\ MergeSuccess(rpc.reply.rev)
    BY <1>1, <1>2, <1>10, <2>1, <2>2, ReplyReal, MergedReal DEF WriteStages
  <2>3. CASE \E reason : ReadNext("merge-reconcile", reason) \/ ReadNext("merge-conflict", reason)
    BY <1>1, <2>3, ReadNextReal
  <2>4. CASE MergeRefusal(a, "failed", "server_error", NilVersion)
    BY <1>11, <2>1, <2>4 DEF Statuses
  <2> QED
    BY <1>2, <1>13, <2>2, <2>3, <2>4 DEF MergeWriteDone
<1>14. CASE MergeReadDone
  <2>1. PICK v : v = (IF Ok THEN g ELSE NilVersion)
    OBVIOUS
  <2>2. a.stage \in MergeStages /\ a.stage \in ReadStages
    BY <1>2, <1>14 DEF MergeReadDone, Callback, MergeStages, ReadStages
  <2>3. v \in Proper \cup {NilVersion}
    BY <1>4, <2>1, <2>2
  <2>4. CASE v.bytes = a.bytes /\ MergeSuccess(v.rev)
    <3>1. v \in Proper
      BY <1>10, <2>2, <2>3, <2>4, SaveAssumption, SpecialVersions
    <3>2. [rev |-> v.rev, bytes |-> active.bytes] \in Proper
      BY <1>2, <2>4, <3>1, ProperFacts
    <3> QED
      BY <1>1, <1>2, <1>10, <2>2, <2>4, <3>2, MergedReal
  <2>5. CASE \E st \in Statuses, reason \in Reasons : MergeRefusal(a, st, reason, v)
    BY <1>11, <2>2, <2>3, <2>5
  <2>6. a.reason \in Reasons
    BY <1>3 DEF OpType
  <2> QED
    BY <1>2, <1>14, <2>1, <2>4, <2>5, <2>6 DEF MergeReadDone, Statuses, Reasons
<1> QED
  BY <1>6, <1>7, <1>8, <1>9, <1>12, <1>13, <1>14 DEF Callbacks

LEMMA AskReal ==
  ASSUME GeneralInv, RealInv, NEW op \in OpType, RealOp(op), RealToken(op.exp), QueueOrDispatch(op), UNCHANGED <<server, late>>
  PROVE  RealInv'
<1>1. UNCHANGED <<buf, base, cstate, merging, recovery>>
  BY DEF QueueOrDispatch
<1>2. PICK cs, m, q, n : cs = cstate /\ m = merging /\ q = queued /\ n = queued'
  OBVIOUS
<1>3. /\ RealState(cs) /\ RealState(m) /\ RealOp(q) /\ RealOp(NoOp) /\ base \in Proper /\ buf \in Contents
      /\ recovery \subseteq Contents /\ modified \in BOOLEAN /\ status \in Statuses
      /\ active.stage = "inspect" => active.base \in {NilVersion, cs.base}
  BY <1>2, ProperFacts DEF RealInv, Statuses
<1>4. CASE active = NoOp
  <2>1. Dispatch(op) /\ queued' = queued
    BY <1>4 DEF QueueOrDispatch
  <2> QED
    BY <1>1, <1>2, <1>3, <2>1, DispatchReal
<1>5. CASE active # NoOp
  <2>1. UNCHANGED <<active, status, modified, rpc>> /\ n \in {NoOp, q, op}
    BY <1>2, <1>5 DEF QueueOrDispatch, Coalesce
  <2>2. RealOp(n)
    BY <1>3, <2>1
  <2> QED
    BY <1>1, <1>2, <1>3, <1>5, <2>1, <2>2, AsideReal
<1> QED
  BY <1>4, <1>5

LEMMA CaptureReal ==
  ASSUME GeneralInv, RealInv, NEW b \in Proper, NEW v \in Proper, v.bytes = b.bytes, NEW o, o = Capture(b, v.rev)
  PROVE  o \in OpType /\ RealOp(o) /\ RealToken(o.exp)
<1>1. b \in VType /\ v.rev \in Token /\ RealToken(v.rev) /\ NoState.local = Nil /\ RealState(NoState)
  BY ProperFacts, SpecialVersions DEF Token, NoState
<1>2. /\ o \in OpType /\ o.kind = "save" /\ o.snap = NoState /\ o.bytes = buf /\ o.base = b /\ o.exp = v.rev
  BY <1>1, CaptureType
<1>3. buf \in Contents
  BY DEF RealInv
<1> QED
  BY <1>1, <1>2, <1>3 DEF RealOp

LEMMA UserReal ==
  ASSUME Tame, GeneralInv, RealInv, User \/ ExpireSuccess \/ UNCHANGED vars
  PROVE  RealInv'
<1>1. PICK a, cs, m, q : a = active /\ cs = cstate /\ m = merging /\ q = queued
  OBVIOUS
<1>2. /\ RealState(cs) /\ RealState(m) /\ RealOp(q) /\ RealOp(NoOp) /\ RealState(NoState) /\ base \in Proper /\ buf \in Contents
      /\ recovery \subseteq Contents /\ modified \in BOOLEAN /\ status \in Statuses
      /\ active.stage = "inspect" => active.base \in {NilVersion, cs.base}
      /\ q # NoOp => active # NoOp
      /\ cs \in StateType /\ m \in StateType
  BY <1>1, ProperFacts DEF RealInv, Statuses, GeneralInv, ShapeInv
<1>3. /\ active = NoOp <=> status # "saving"
      /\ NoOp.stage = "none" /\ NoState.base = NilVersion
      /\ status = "conflict" => cs.remote \in Proper
  <2>1. status = "conflict" => cs.remote \in Seen
    BY <1>1 DEF GeneralInv, ShownInv
  <2>2. \A v \in Seen : v # NilVersion
    BY ServerShape DEF GeneralInv
  <2> QED
    BY <1>2, <2>1, <2>2, SpecialVersions DEF GeneralInv, OpInv, NoOp, RealState
<1>4. CASE UNCHANGED vars \/ ExpireSuccess
  <2>1. UNCHANGED <<server, late, active, rpc, base, buf, recovery, modified, queued, cstate, merging>> /\ status' \in Statuses
    BY <1>2, <1>4 DEF vars, ExpireSuccess, Statuses
  <2> QED
    BY <1>1, <1>2, <2>1, AsideReal
<1>5. CASE Edit
  <2>1. UNCHANGED <<server, late, active, rpc, base, recovery, status, queued, cstate, merging>> /\ modified' = TRUE /\ buf' \in Contents
    BY <1>5 DEF Edit
  <2> QED
    BY <1>1, <1>2, <2>1, AsideReal
<1>6. CASE SaveBuffer
  <2>1. PICK o, b : b = base /\ o = Capture(b, b.rev)
    OBVIOUS
  <2>2. o \in OpType /\ RealOp(o) /\ RealToken(o.exp)
    BY <1>2, <2>1, CaptureReal
  <2>3. QueueOrDispatch(o) /\ UNCHANGED <<server, late>>
    BY <1>6, <2>1 DEF SaveBuffer, Command
  <2> QED
    BY <2>2, <2>3, AskReal
<1>7. CASE RetrySave
  <2>1. PICK b, v : b = cs.base /\ v = (IF buf = cs.local THEN cs.remote ELSE cs.base)
    OBVIOUS
  <2>2. PICK o : o = Capture(b, v.rev)
    OBVIOUS
  <2>3. b \in Proper /\ v \in Proper /\ v.bytes = b.bytes
    BY <1>1, <1>2, <1>7, <2>1 DEF RetrySave, RealState
  <2>4. o \in OpType /\ RealOp(o) /\ RealToken(o.exp)
    BY <2>2, <2>3, CaptureReal
  <2>5. QueueOrDispatch(o) /\ UNCHANGED <<server, late>>
    BY <1>1, <1>7, <2>1, <2>2 DEF RetrySave, Command
  <2> QED
    BY <2>4, <2>5, AskReal
<1>8. CASE InspectUnknown
  <2>1. PICK o : o = [NoOp EXCEPT !.kind = "inspect", !.bytes = cs.local, !.base = cs.base, !.stage = "inspect"]
    OBVIOUS
  <2>2. /\ UNCHANGED <<server, late, buf, modified, base, cstate, queued, merging, recovery>> /\ status' = "saving" /\ active' = o
        /\ rpc' = [Idle EXCEPT !.op = "read", !.path = Target(active')]
    BY <1>1, <1>8, <2>1 DEF InspectUnknown, Command, SendRead
  <2>3. /\ o.kind = "inspect" /\ o.base = cs.base /\ o.exp = Nil /\ o.snap = NoState /\ o.stage = "inspect" /\ o # NoOp
        /\ rpc'.op = "read" /\ rpc'.reply.result = "none"
    BY <2>1, <2>2 DEF NoOp, Idle, Pending
  <2>4. RealOp(o)
    BY <1>2, <2>3 DEF RealOp, RealState
  <2>5. RealOp(o)' /\ RealOp(q)' /\ RealState(cs)' /\ RealState(m)'
    BY <1>2, <2>2, <2>4, SameReal
  <2>6. RealOp(active)' /\ RealOp(queued)' /\ RealState(cstate)' /\ RealState(merging)'
    BY <1>1, <2>2, <2>5
  <2>7. Proper' = Proper /\ \A r \in late' : RealToken(r.exp)'
    BY <2>2, SameReal
  <2> QED
    BY <1>1, <2>2, <2>3, <2>6, <2>7 DEF RealInv
<1>9. CASE KeepRemote
  <2>1. /\ status = "conflict" /\ status' = "saved" /\ UNCHANGED <<server, late, active, queued, rpc, merging>> /\ modified' = FALSE
        /\ buf' = cs.remote.bytes /\ base' = cs.remote /\ cstate' = NoState /\ recovery' = recovery \cup {cs.local} /\ cs.local # Nil
    BY <1>1, <1>9 DEF KeepRemote, Choose, Command, LocalRecovery, HasLocal
  <2>2. cs.local \in Contents
    BY <1>2, <2>1 DEF StateType, MaybeBytes
  <2>3. cs.remote \in Proper /\ cs.remote.bytes \in Contents /\ active.stage = "none"
    BY <1>3, <2>1, ProperFacts
  <2> QED
    BY <1>1, <1>2, <2>1, <2>2, <2>3, AsideReal DEF Statuses
<1>10. CASE Resolve
  <2>1. PICK o : o = Resolution("keep-local")
    OBVIOUS
  <2>2. Dispatch(o) /\ status = "conflict" /\ UNCHANGED <<server, late, buf, base, cstate, queued, merging, recovery>>
    BY <1>10, <2>1 DEF Resolve, Choose, Command, Tame
  <2>3. o = [kind |-> "keep-local", bytes |-> cs.local, base |-> cs.base, exp |-> cs.remote.rev, snap |-> cs,
             stage |-> "none", reason |-> "none"]
    BY <1>1, <2>1 DEF Resolution, NoOp
  <2>4. cs.remote.rev \in Token /\ RealToken(cs.remote.rev)
    BY <1>3, <2>2, ProperFacts DEF Token
  <2>5. o \in OpType
    BY <1>2, <2>3, <2>4 DEF OpType, OpKinds, Stages, Reasons, StateType
  <2>6. RealOp(o) /\ RealToken(o.exp)
    BY <1>2, <2>3, <2>4 DEF RealOp, RealState
  <2> QED
    BY <1>1, <1>2, <2>2, <2>5, <2>6, DispatchReal
<1>11. CASE StartMerge
  <2>1. merging' = cs /\ UNCHANGED <<server, late, buf, modified, base, cstate, active, queued, status, recovery, rpc>>
    BY <1>1, <1>11 DEF StartMerge, Choose, Command
  <2> QED
    BY <1>1, <1>2, <2>1, AsideReal
<1>12. CASE ApplyMerge
  <2>1. PICK merged \in Contents :
          LET op == [NoOp EXCEPT !.kind = "merge", !.bytes = merged, !.base = m.base,
                                 !.snap = m, !.stage = "verify"]
          IN /\ merging # NoState /\ active = NoOp /\ UNCHANGED <<server, late>>
             /\ IF buf # merging.local THEN MergeRefusal(op, "failed", "live_changed", NilVersion)
                ELSE /\ active' = op /\ status' = "saving" /\ modified' = TRUE /\ SendRead(op)
                     /\ UNCHANGED <<buf, base, cstate, queued, merging, recovery>>
    BY <1>1, <1>12 DEF ApplyMerge, Command
  <2>2. PICK op : op = [NoOp EXCEPT !.kind = "merge", !.bytes = merged, !.base = m.base,
                                    !.snap = m, !.stage = "verify"]
    OBVIOUS
  <2>3. /\ op = [kind |-> "merge", bytes |-> merged, base |-> m.base, exp |-> Nil, snap |-> m, stage |-> "verify", reason |-> "none"]
        /\ op # NoOp
    BY <2>2 DEF NoOp
  <2>4. op \in OpType
    BY <1>2, <2>3 DEF OpType, OpKinds, Stages, Reasons, StateType, MaybeBytes, Token
  <2>5. RealOp(op)
    BY <1>2, <2>3 DEF RealOp, RealState
  <2>6. CASE MergeRefusal(op, "failed", "live_changed", NilVersion)
    BY <2>1, <2>3, <2>4, <2>5, <2>6, RefusalReal DEF Statuses
  <2>7. CASE active' = op /\ status' = "saving" /\ modified' = TRUE /\ SendRead(op) /\ UNCHANGED <<buf, base, cstate, queued, merging, recovery>>
    <3>1. rpc'.op = "read" /\ rpc'.reply.result = "none"
      BY <2>7 DEF SendRead, Idle, Pending
    <3>2. RealOp(op)' /\ RealOp(q)' /\ RealState(cs)' /\ RealState(m)'
      BY <1>2, <2>1, <2>5, SameReal
    <3>3. RealOp(active)' /\ RealOp(queued)' /\ RealState(cstate)' /\ RealState(merging)'
      BY <1>1, <2>7, <3>2
    <3>4. Proper' = Proper /\ \A r \in late' : RealToken(r.exp)'
      BY <2>1, SameReal
    <3> QED
      BY <2>3, <2>7, <3>1, <3>3, <3>4 DEF RealInv
  <2> QED
    BY <2>1, <2>2, <2>6, <2>7
<1>13. CASE AbandonMerge
  <2>1. PICK c : c = (IF cs = NoState THEN m ELSE cs)
    OBVIOUS
  <2>2. /\ merging' = NoState /\ cstate' = c
        /\ UNCHANGED <<server, late, buf, modified, base, active, queued, status, recovery, rpc>>
    BY <1>1, <1>13, <2>1 DEF AbandonMerge, Command
  <2>3. RealState(c) /\ (active.stage = "inspect" => active.base \in {NilVersion, c.base})
    BY <1>2, <1>3, <2>1
  <2> QED
    BY <1>1, <1>2, <2>2, <2>3, AsideReal
<1> QED
  BY <1>4, <1>5, <1>6, <1>7, <1>8, <1>9, <1>10, <1>11, <1>12, <1>13 DEF User

LEMMA InitReal == Init => RealInv
<1> SUFFICES ASSUME Init PROVE RealInv
  OBVIOUS
<1>1. PICK b \in Contents :
        LET v == [rev |-> 1, bytes |-> b] IN
        /\ remote = [p \in Paths |-> IF p = "file" THEN v ELSE Missing] /\ past = [p \in Paths |-> {remote[p]}]
        /\ rpc = Idle /\ late = {} /\ buf = b /\ modified = FALSE /\ base = v /\ cstate = NoState /\ active = NoOp
        /\ queued = NoOp /\ status = "none" /\ merging = NoState /\ recovery = {}
  BY DEF Init
<1>2. base \in past["file"] /\ base.rev = 1
  BY <1>1 DEF Paths
<1>3. base \in Proper
  BY <1>2 DEF Proper
<1>4. RealState(NoState) /\ RealOp(NoOp) /\ NoOp.stage = "none" /\ Idle.op = "none" /\ Idle.reply.result = "none"
  BY InitGeneral, ProperFacts DEF NoOp, Idle, Pending
<1> QED
  BY <1>1, <1>3, <1>4 DEF RealInv

LEMMA NextReal == Tame /\ GeneralInv /\ RealInv /\ [Next]_vars => RealInv'
BY UserReal, CallbackReal, ServerStepReal DEF Next

\* Under the resolutions that write LOCAL or a merge, BASE is always a version
\* the visited file had, after any number of edits, saves, retries, outside
\* changes, lost replies and late writes.
THEOREM BaseReal ==
  ASSUME Tame
  PROVE  Spec => []BaseIsReal
<1>1. RealInv => BaseIsReal
  BY DEF RealInv, BaseIsReal, Proper
<1>2. GeneralInv /\ RealInv /\ [Next]_vars => RealInv'
  BY NextReal
<1> QED
  BY <1>1, <1>2, InitGeneral, NextGeneral, InitReal, PTL DEF Spec

-----------------------------------------------------------------------------
(* Types, and the tokens of saves *)

LEMMA RealTypes ==
  ASSUME GeneralInv, RealInv
  PROVE  TypeOK
<1>1. nextRev \in Nat /\ nextRev > 0
  BY DEF GeneralInv, ServerInv
<1>2. Seen \subseteq Versions
  <2>1. SUFFICES ASSUME NEW v \in Seen PROVE v \in Versions
    OBVIOUS
  <2>2. v \in VersionType /\ v.rev \in Int /\ v.bytes \in Contents /\ v.rev < nextRev /\ (v.rev <= 0 => v \in {Missing, Special})
    BY ServerShape DEF GeneralInv, ServerInv
  <2>3. v = [rev |-> v.rev, bytes |-> v.bytes]
    BY <2>2 DEF VersionType
  <2>4. v.rev > 0 => v.rev \in 1 .. nextRev
    BY <1>1, <2>2
  <2> QED
    BY <2>2, <2>3, <2>4 DEF Versions
<1>3. Proper \subseteq Versions /\ \A t : RealToken(t) => t \in 0 .. nextRev
  <2>1. \A v \in Proper : v \in Seen /\ v.rev \in Nat /\ v.rev < nextRev
    BY ProperFacts DEF GeneralInv, ServerInv
  <2> QED
    BY <1>1, <1>2, <2>1 DEF RealToken
<1>4. \A s \in StateType : RealState(s) => s \in States
  <2>1. SUFFICES ASSUME NEW s \in StateType, RealState(s) PROVE s \in States
    OBVIOUS
  <2>2. s.base \in Versions \cup {NilVersion} /\ s.remote \in Versions \cup {NilVersion}
    BY <1>3, <2>1 DEF RealState
  <2> QED
    BY <2>2 DEF StateType, States, Reasons
<1>5. \A o \in OpType : RealOp(o) => OpOK(o)
  <2>1. SUFFICES ASSUME NEW o \in OpType, RealOp(o) PROVE OpOK(o)
    OBVIOUS
  <2>2. o.base \in Versions \cup {NilVersion} /\ o.exp \in 0 .. nextRev \cup {Nil} /\ o.snap \in States
    BY <1>3, <1>4, <2>1 DEF RealOp, OpType
  <2> QED
    BY <2>2 DEF OpOK, OpType, OpKinds
<1>6. remote \in [Paths -> Versions]
  BY <1>2, ServerShape DEF GeneralInv, ServerInv
<1>7. late \subseteq [path : Paths, bytes : Contents, exp : 0 .. nextRev]
  <2>1. SUFFICES ASSUME NEW r \in late PROVE r \in [path : Paths, bytes : Contents, exp : 0 .. nextRev]
    OBVIOUS
  <2>2. r \in LateType /\ r.exp \in 0 .. nextRev
    BY <1>3 DEF GeneralInv, ShapeInv, RealInv
  <2> QED
    BY <2>2 DEF LateType
<1>8. cstate \in States /\ merging \in States /\ OpOK(active) /\ OpOK(queued) /\ base \in Versions
  BY <1>3, <1>4, <1>5 DEF GeneralInv, ShapeInv, RealInv
<1>9. rpc.op \in {"none", "read", "write"} /\ rpc.path \in Paths
  BY DEF GeneralInv, ShapeInv, RpcType
<1>10. (active # NoOp) = (status = "saving") /\ (queued # NoOp => active # NoOp)
  <2>1. active # NoOp <=> status = "saving"
    BY DEF GeneralInv, OpInv, NoOp
  <2> QED
    BY <2>1 DEF RealInv
<1>11. buf \in Contents /\ modified \in BOOLEAN /\ recovery \subseteq Contents /\ status \in Statuses
  BY DEF RealInv, Statuses
<1> QED
  BY <1>1, <1>6, <1>7, <1>8, <1>9, <1>10, <1>11 DEF TypeOK, Statuses

\* The save state keeps its type: under the same resolutions the buffer and
\* the recovery buffers hold real bytes, and a buffer has an operation exactly
\* while its status says "saving".
THEOREM TypeCorrect ==
  ASSUME Tame
  PROVE  Spec => []TypeOK
<1>1. GeneralInv /\ RealInv => TypeOK
  BY RealTypes
<1>2. GeneralInv /\ RealInv /\ [Next]_vars => RealInv'
  BY NextReal
<1> QED
  BY <1>1, <1>2, InitGeneral, NextGeneral, InitReal, PTL DEF Spec

LEMMA CalmServer ==
  ASSUME GeneralInv, RealInv, CalmInv, Serve \/ ServerError \/ LoseReply \/ LateWrite \/ External
  PROVE  CalmInv'
<1>1. ext \in Nat /\ faults \in Nat /\ ext' \in Nat /\ faults' \in Nat /\ ext' >= ext /\ faults' >= faults
  BY DEF CalmInv, Serve, ServeRead, ServeWrite, ServerError, LoseReply, LateWrite, External, counters
<1> SUFFICES ASSUME ext' = 0, faults' = 0 PROVE CalmInv'
  BY <1>1 DEF CalmInv
<1>2. ext = 0 /\ faults = 0
  BY <1>1
<1>3. ~ServerError /\ ~LoseReply /\ ~External
  BY <1>2 DEF ServerError, LoseReply, External
<1>4. ~LateWrite
  BY <1>2 DEF LateWrite, CalmInv
<1>5. ~ServeRead
  BY <1>2 DEF ServeRead, CalmInv, GeneralInv, OpInv, Idle, WriteStages
<1>6. ServeWrite
  BY <1>3, <1>4, <1>5 DEF Serve
<1>7. rpc \in RpcType /\ rpc.path \in Paths /\ rpc.bytes \in MaybeBytes
  BY DEF GeneralInv, ShapeInv, RpcType
<1>8. active.stage = "write" /\ active.kind = "save" /\ rpc.reply = Pending /\ remote["file"] = base /\ rpc.exp = base.rev
  BY <1>2, <1>6 DEF ServeWrite, Waiting, CalmInv, GeneralInv, OpInv, Idle
<1>9. rpc.path = "file" /\ rpc.bytes = active.bytes
  BY <1>8, ReplyReal DEF GeneralInv, OpInv, WriteStages
<1>10. PICK n : n = nextRev
  OBVIOUS
<1>11. rpc' = [rpc EXCEPT !.reply = [result |-> "ok", rev |-> n, bytes |-> Nil]] /\ Publish("file", active.bytes)
  BY <1>6, <1>8, <1>9, <1>10 DEF ServeWrite, Reply
<1>12. rpc'.reply.result = "ok" /\ rpc'.reply.rev = n /\ rpc'.reply # Pending
  BY <1>7, <1>11, SpecialVersions DEF RpcType
<1>13. remote'["file"] = [rev |-> n, bytes |-> active.bytes]
  BY <1>10, <1>11 DEF Publish, Put, GeneralInv, ServerInv, Paths
<1>14. UNCHANGED <<late, cstate, merging, status, active, base>>
  BY <1>6 DEF ServeWrite, Client
<1> QED
  BY <1>1, <1>2, <1>8, <1>12, <1>13, <1>14 DEF CalmInv

\* Dispatching a save that builds on what is there.
LEMMA CalmDispatch ==
  ASSUME GeneralInv, NEW op \in OpType, op.kind = "save", op.bytes \in Contents, Dispatch(op), UNCHANGED <<server, late, merging, ext, faults>>,
         late = {}, merging = NoState, cstate' = NoState, ext \in Nat, faults \in Nat, base' = remote["file"], op.exp = base'.rev
  PROVE  CalmInv'
<1>1. active'.stage = "write" /\ active'.kind = "save" /\ status' = "saving"
  BY DEF Dispatch, OpType
<1>2. rpc'.exp = base'.rev /\ rpc'.reply = Pending
  BY SaveAssumption DEF Dispatch, SendWrite
<1> QED
  BY <1>1, <1>2 DEF CalmInv, server

LEMMA CalmClient ==
  ASSUME Tame, GeneralInv, RealInv, CalmInv, User \/ Callbacks \/ ExpireSuccess \/ UNCHANGED vars
  PROVE  CalmInv'
<1>1. ext \in Nat /\ faults \in Nat /\ UNCHANGED <<ext, faults, server, late>>
  BY DEF CalmInv, User, Edit, SaveBuffer, RetrySave, InspectUnknown, KeepRemote, Resolve, StartMerge, ApplyMerge, AbandonMerge,
     ExpireSuccess, Command, Choose, counters, vars, Callbacks, WriteDone, ReconcileDone, ConflictReadDone, InspectDone,
     MergeVerified, MergeWriteDone, MergeReadDone, Callback
<1> SUFFICES ASSUME ext = 0, faults = 0 PROVE CalmInv'
  BY <1>1 DEF CalmInv
<1>2. /\ late = {} /\ cstate = NoState /\ merging = NoState /\ status \in {"none", "saving", "saved", "saved-newer"}
      /\ active.stage \in {"none", "write"} /\ remote' = remote
  BY <1>1 DEF CalmInv, server
<1>3. active \in OpType /\ queued \in OpType /\ (active.stage = "none" <=> active = NoOp)
  BY DEF GeneralInv, ShapeInv, OpInv, NoOp
<1>4. CASE UNCHANGED <<active, rpc, base, cstate, merging>> /\ (status' = status \/ status' = "none")
  BY <1>1, <1>2, <1>4 DEF CalmInv
<1>5. CASE ExpireSuccess \/ UNCHANGED vars \/ Edit
  BY <1>4, <1>5 DEF ExpireSuccess, vars, Edit
<1>6. CASE SaveBuffer
  <2>1. PICK o, b : b = base /\ o = Capture(b, b.rev)
    OBVIOUS
  <2>2. o \in OpType /\ o.kind = "save" /\ o.bytes = buf /\ o.exp = b.rev /\ buf \in Contents
    <3>1. b \in VType /\ b.rev \in Token /\ buf \in Contents
      BY <2>1 DEF GeneralInv, ShapeInv, VType, RealInv
    <3> QED
      BY <2>1, <3>1, CaptureType
  <2>3. QueueOrDispatch(o)
    BY <1>6, <2>1 DEF SaveBuffer
  <2>4. CASE active = NoOp
    <3>1. Dispatch(o) /\ UNCHANGED <<base, cstate, merging>> /\ remote["file"] = base
      BY <1>3, <2>3, <2>4 DEF QueueOrDispatch, CalmInv
    <3> QED
      BY <1>1, <1>2, <2>1, <2>2, <3>1, CalmDispatch
  <2>5. CASE active # NoOp
    BY <1>4, <2>3, <2>5 DEF QueueOrDispatch
  <2> QED
    BY <2>4, <2>5
<1>7. ~RetrySave /\ ~InspectUnknown /\ ~KeepRemote /\ ~Resolve /\ ~StartMerge /\ ~ApplyMerge /\ ~AbandonMerge
  BY <1>2 DEF RetrySave, InspectUnknown, KeepRemote, Resolve, StartMerge, ApplyMerge, AbandonMerge, Choose
<1>8. CASE Callbacks
  <2>1. WriteDone
    BY <1>2, <1>8 DEF Callbacks, ReconcileDone, ConflictReadDone, InspectDone, MergeVerified, MergeWriteDone, MergeReadDone, Callback
  <2>2. active.stage = "write" /\ rpc.reply # Pending
    BY <2>1 DEF WriteDone, Callback
  <2>3. Ok /\ active.kind = "save" /\ remote["file"] = [rev |-> rpc.reply.rev, bytes |-> active.bytes]
    BY <2>2 DEF CalmInv, Ok
  <2>4. FinishSuccess(active, rpc.reply.rev)
    BY <2>1, <2>3 DEF WriteDone, Ok, Refused
  <2>5. PICK v : v = [rev |-> rpc.reply.rev, bytes |-> active.bytes]
    OBVIOUS
  <2>6. base' = v /\ cstate' = NoState /\ UNCHANGED merging
    BY <2>3, <2>4, <2>5 DEF FinishSuccess
  <2>7. CASE Done /\ status' \in {"saved", "saved-newer"}
    BY <1>1, <1>2, <2>3, <2>5, <2>6, <2>7 DEF Done, NoOp, CalmInv
  <2>8. CASE queued # NoOp /\ Dispatch(Rebase(queued, v))
    <3>1. PICK q, o : q = queued /\ o = [q EXCEPT !.base = v, !.exp = v.rev]
      OBVIOUS
    <3>2. q.kind = "save" /\ q.bytes \in Contents /\ v \in VType /\ v.rev \in Token /\ q \in OpType
      <4>1. v \in Proper
        BY <2>2, <2>3, <2>5, ReplyReal DEF WriteStages
      <4>2. v \in VType /\ v.rev \in Token
        BY <4>1, ProperFacts, SpecialVersions DEF Token
      <4>3. q \in OpType /\ q.kind = "save"
        BY <1>3, <2>8, <3>1 DEF GeneralInv, OpInv
      <4>4. q.bytes \in Contents
        BY <3>1, <4>3 DEF RealInv, RealOp
      <4> QED
        BY <4>2, <4>3, <4>4
    <3>3. o \in OpType /\ o.kind = "save" /\ o.bytes \in Contents /\ o.exp = v.rev
      BY <3>1, <3>2 DEF OpType
    <3>4. Dispatch(o)
      BY <2>8, <3>1 DEF Rebase
    <3> QED
      BY <1>1, <1>2, <2>3, <2>5, <2>6, <3>3, <3>4, CalmDispatch
  <2> QED
    BY <2>3, <2>4, <2>5, <2>7, <2>8 DEF FinishSuccess
<1> QED
  BY <1>5, <1>6, <1>7, <1>8 DEF User

LEMMA InitCalm == Init => CalmInv
BY DEF Init, CalmInv, NoOp, Paths

\* The token of a save goes with the BASE its user edited, also after waiting
\* in the queue and on a retry; and without outside changes or faults no save
\* ever ends in a conflict.
THEOREM SavesExpectBase ==
  ASSUME Tame
  PROVE  Spec => []ExpectsItsBase
<1>1. GeneralInv /\ RealInv /\ CalmInv => ExpectsItsBase
  BY DEF RealInv, RealOp, CalmInv, ExpectsItsBase, Proper
<1>2. GeneralInv /\ RealInv /\ [Next]_vars => RealInv'
  BY NextReal
<1>3. GeneralInv /\ RealInv /\ CalmInv /\ [Next]_vars => CalmInv'
  BY CalmServer, CalmClient DEF Next
<1> QED
  BY <1>1, <1>2, <1>3, InitGeneral, NextGeneral, InitReal, InitCalm, PTL DEF Spec

-----------------------------------------------------------------------------
(* Repeated saves *)

\* What was asked for last is what waits in the queue or, if nothing does,
\* what the save in flight writes.
AskedInv ==
  /\ queued # NoOp => active # NoOp /\ queued.bytes = asked
  /\ active.kind = "save" /\ queued = NoOp => active.bytes = asked

LEMMA NextAsked ==
  ASSUME GeneralInv, AskedInv, [Next]_vars
  PROVE  AskedInv'
<1>1. active \in OpType /\ queued \in OpType /\ (active # NoOp <=> status = "saving") /\ (active = NoOp => queued = NoOp)
  BY DEF GeneralInv, ShapeInv, OpInv, NoOp, AskedInv
<1>2. NoOp.kind = "none" /\ NoOp.stage = "none"
  BY DEF NoOp
<1>3. CASE UNCHANGED <<active, queued, asked>>
  BY <1>3 DEF AskedInv
<1>4. CASE Done
  BY <1>2, <1>4 DEF Done, AskedInv
<1>5. ASSUME NEW op \in OpType, Dispatch(op), queued' = NoOp, op.kind = "save" => op.bytes = asked'
      PROVE  AskedInv'
  BY <1>2, <1>5 DEF Dispatch, AskedInv, OpType
<1>6. ASSUME NEW stage, NEW reason, stage # "none", ReadNext(stage, reason) PROVE AskedInv'
  <2>1. UNCHANGED <<queued, asked>> /\ active'.kind = active.kind /\ active'.bytes = active.bytes /\ active' # NoOp
    BY <1>1, <1>2, <1>6 DEF ReadNext, OpType
  <2> QED
    BY <2>1 DEF AskedInv
<1>7. ASSUME NEW op, NEW rev, FinishSuccess(op, rev) PROVE AskedInv'
  <2>1. CASE queued # NoOp /\ Dispatch(Rebase(queued, [rev |-> rev, bytes |-> op.bytes])) /\ queued' = NoOp /\ UNCHANGED asked
    <3>1. active'.kind = queued.kind /\ active'.bytes = queued.bytes
      BY <1>1, <2>1 DEF Dispatch, Rebase, OpType
    <3> QED
      BY <2>1, <3>1 DEF AskedInv
  <2> QED
    BY <1>4, <1>7, <2>1 DEF FinishSuccess
<1>8. CASE Callbacks
  <2>1. CASE WriteDone
    BY <1>4, <1>6, <1>7, <2>1 DEF WriteDone, FinishNonsuccess
  <2>2. CASE ReconcileDone \/ ConflictReadDone \/ InspectDone
    BY <1>4, <1>7, <2>2 DEF ReconcileDone, ConflictReadDone, InspectDone, FinishNonsuccess
  <2>3. CASE MergeVerified
    <3>1. CASE active' = [active EXCEPT !.stage = "publish"] /\ UNCHANGED <<queued, asked>>
      <4>1. active'.kind = active.kind /\ active'.bytes = active.bytes /\ active' # NoOp
        BY <1>1, <1>2, <3>1 DEF OpType
      <4> QED
        BY <3>1, <4>1 DEF AskedInv
    <3> QED
      BY <1>4, <2>3, <3>1 DEF MergeVerified, MergeRefusal
  <2>4. CASE MergeWriteDone \/ MergeReadDone
    BY <1>4, <1>6, <2>4 DEF MergeWriteDone, MergeReadDone, MergeRefusal, MergeSuccess
  <2> QED
    BY <1>8, <2>1, <2>2, <2>3, <2>4 DEF Callbacks
<1>9. ASSUME NEW b \in VType, NEW exp \in Token, QueueOrDispatch(Capture(b, exp)) PROVE AskedInv'
  <2>1. PICK o : o = Capture(b, exp)
    OBVIOUS
  <2>2. o \in OpType /\ o.kind = "save" /\ o # NoOp /\ asked' = o.bytes
    BY <1>2, <1>9, <2>1, CaptureType DEF QueueOrDispatch
  <2>3. CASE active = NoOp
    BY <1>1, <1>5, <1>9, <2>1, <2>2, <2>3 DEF QueueOrDispatch
  <2>4. CASE active # NoOp
    <3>1. active' = active /\ queued' = Coalesce(o)
      BY <1>9, <2>1, <2>4 DEF QueueOrDispatch
    <3> QED
      BY <2>2, <2>4, <3>1 DEF AskedInv, Coalesce, SameRequest
  <2> QED
    BY <2>3, <2>4
<1>10. /\ base \in VType /\ base.rev \in Token /\ cstate \in StateType /\ cstate.base \in VType
       /\ cstate.base.rev \in Token /\ cstate.remote.rev \in Token
  BY DEF GeneralInv, ShapeInv, StateType, VType
<1>11. CASE SaveBuffer \/ RetrySave
  BY <1>9, <1>10, <1>11 DEF SaveBuffer, RetrySave
<1>12. CASE InspectUnknown \/ Resolve \/ ApplyMerge
  <2>1. active = NoOp /\ queued = NoOp
    BY <1>1, <1>12 DEF InspectUnknown, Resolve, ApplyMerge, Choose
  <2>2. CASE queued' = queued /\ active'.kind # "save"
    BY <2>1, <2>2 DEF AskedInv
  <2>3. InspectUnknown => queued' = queued /\ active'.kind # "save"
    BY DEF InspectUnknown, NoOp
  <2>4. Resolve => queued' = queued /\ active'.kind # "save"
    BY DEF Resolve, Dispatch, Resolution, NoOp
  <2>5. ApplyMerge => Done \/ (queued' = queued /\ active'.kind # "save")
    BY DEF ApplyMerge, MergeRefusal, NoOp
  <2> QED
    BY <1>4, <1>12, <2>2, <2>3, <2>4, <2>5
<1>13. CASE Edit \/ KeepRemote \/ StartMerge \/ AbandonMerge \/ ExpireSuccess \/ UNCHANGED vars
  BY <1>3, <1>13 DEF Edit, KeepRemote, StartMerge, AbandonMerge, ExpireSuccess, vars
<1>14. CASE Serve \/ ServerError \/ LoseReply \/ LateWrite \/ External
  BY <1>3, <1>14 DEF Serve, ServeRead, ServeWrite, ServerError, LoseReply, LateWrite, External, Client
<1> QED
  BY <1>8, <1>11, <1>12, <1>13, <1>14 DEF Next, User

LEMMA InitAsked == Init => AskedInv
BY DEF Init, AskedInv, NoOp

LEMMA LatestWins ==
  ASSUME GeneralInv, AskedInv, [Next]_vars
  PROVE  active.kind = "save" /\ active' = NoOp /\ status' \in {"saved", "saved-newer"} => active.bytes = asked
<1> SUFFICES ASSUME active.kind = "save", active' = NoOp, status' \in {"saved", "saved-newer"}, queued # NoOp
             PROVE  FALSE
  BY DEF AskedInv
<1>1. active \in OpType /\ queued \in OpType /\ active # NoOp /\ status = "saving" /\ active.stage \notin MergeStages
  BY DEF GeneralInv, ShapeInv, OpInv, NoOp
<1>2. ~User /\ ~ExpireSuccess /\ ~(UNCHANGED vars)
  BY <1>1 DEF User, Edit, SaveBuffer, RetrySave, QueueOrDispatch, InspectUnknown, KeepRemote, Resolve, StartMerge, ApplyMerge,
     AbandonMerge, Choose, ExpireSuccess, vars
<1>3. Callbacks
  BY <1>1, <1>2 DEF Next, Serve, ServeRead, ServeWrite, ServerError, LoseReply, LateWrite, External, Client
<1>4. ~MergeVerified /\ ~MergeWriteDone /\ ~MergeReadDone
  BY <1>1 DEF MergeVerified, MergeWriteDone, MergeReadDone, Callback, MergeStages
<1>5. \A rev : ~FinishSuccess(active, rev)
  <2>1. SUFFICES ASSUME NEW rev, FinishSuccess(active, rev) PROVE FALSE
    OBVIOUS
  <2>2. Dispatch(Rebase(queued, [rev |-> rev, bytes |-> active.bytes]))
    BY <2>1 DEF FinishSuccess
  <2> QED
    BY <1>1, <2>2 DEF Dispatch, Rebase, OpType, NoOp
<1>6. \A st, cs : FinishNonsuccess(st, cs) => status' = st
  BY DEF FinishNonsuccess
<1> QED
  BY <1>1, <1>3, <1>4, <1>5, <1>6 DEF Callbacks, WriteDone, ReconcileDone, ConflictReadDone, InspectDone, ReadNext

\* "Repeated interactive saves coalesce to the newest requested snapshot": for
\* any number of saves, edits, conflicts and faults, a save that ends with
\* success and nothing after it has saved the bytes asked for last.
THEOREM NewestSnapshotSaved == Spec => LatestRequestWins
<1>1. GeneralInv /\ AskedInv /\ [Next]_vars
      => [active.kind = "save" /\ active' = NoOp /\ status' \in {"saved", "saved-newer"} => active.bytes = asked]_vars
  BY LatestWins
<1>2. GeneralInv /\ AskedInv /\ [Next]_vars => AskedInv'
  BY NextAsked
<1> QED
  BY <1>1, <1>2, InitGeneral, NextGeneral, InitAsked, PTL DEF Spec, LatestRequestWins
=============================================================================
