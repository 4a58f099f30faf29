-------------------------- MODULE ConnectionProofs --------------------------
(***************************************************************************)
(* Proofs about Connection for every set of waiting callers and every      *)
(* number of processes, watches, deaths and refusals.                      *)
(***************************************************************************)
EXTENDS Connection, TLAPS

ConnType ==
  [proc : {"none", "live", "dead", "gone"}, mode : {"sync", "async"}, ready : BOOLEAN,
   waiters : SUBSET Waiters, hello : {"sent", "ok", "bad", "fail", "done", "signalled"},
   watch : {"off", "on", "refused", "listed"}]

FrameType ==
  [op : {"connect", "watch"}, conn : Conns, then : {"watch", "done"}, id : Nat,
   answer : {"ok", "fail"}, reply : {"none", "ok", "fail"}]

CountsOK ==
  /\ started \in 0 .. MaxConns /\ added \in Nat
  /\ watches \subseteq 1 .. added /\ asked \subseteq Waiters /\ told \in [Waiters -> Nat]
  /\ use \in Uses /\ deaths \in 0 .. MaxDeaths[use] /\ refusals \in 0 .. MaxRefusals

\* Connection objects are made in order; those not yet made are as at first.
ConnsOK ==
  /\ conn \in [Conns -> ConnType]
  /\ table \in 0 .. started
  /\ \A c \in Conns : c > started => conn[c] = Unused

\* A frame refers to a descriptor and a connection that have been made.  Every
\* blocking handshake has a connection of its own, whose reply it waits for.
FrameOK(f) ==
  /\ f.id <= added /\ f.conn <= started
  /\ f.op = "watch" \/ f.then = "watch" => f.id # 0
  /\ f.op = "connect" => conn[f.conn].mode = "sync" /\ conn[f.conn].hello # "done"

Frames(s) ==
  /\ s \in Seq(FrameType)
  /\ \A i \in 1 .. Len(s) : FrameOK(s[i])
  /\ \A i, j \in 1 .. Len(s) :
       s[i].op = "connect" /\ s[j].op = "connect" /\ s[i].conn = s[j].conn => i = j

TypeInv == CountsOK /\ ConnsOK /\ Frames(stack)

\* Unless blocking operations nest, Lisp is inside of one at most.  While it adds
\* a watch, no other connection is made, so the live one has been asked to watch.
WatchInv ==
  use # "nested" =>
    /\ Len(stack) <= 1
    /\ stack # <<>> /\ Top.op = "watch" /\ Live(table) =>
         table = Top.conn /\ conn[table].watch # "off"
    /\ Live(table) /\ conn[table].ready /\ watches # {} => conn[table].watch # "off"

\* A caller that is still on the list of an asynchronous handshake will be told: a
\* live connection that is not ready has its answer before it.  Each caller has
\* been told, or is on one list, or was lost with a process that died.
HandshakeOK(k) ==
  /\ k.mode = "async" /\ k.hello \in {"done", "signalled"} =>
       k.waiters = {} /\ (k.proc = "live" => k.ready)
  /\ k.hello = "signalled" => k.mode = "async"

Counted(w) ==
  \/ told[w] = 1 /\ Listing(w) = {}
  \/ told[w] = 0 /\ \E c \in Conns : Listing(w) = {c}
  \/ told[w] = 0 /\ Listing(w) = {} /\ Signalled

WaitersInv ==
  /\ \A c \in Conns : HandshakeOK(conn[c])
  /\ \A w \in Waiters \ asked : told[w] = 0 /\ Listing(w) = {}
  /\ refusals = 0 => \A w \in asked : Counted(w)

-----------------------------------------------------------------------------
(* Connection objects and the stack *)

LEMMA ConstantFacts ==
  /\ MaxConns \in Nat /\ Conns \subseteq Nat /\ None \notin Conns
  /\ Unused \in ConnType /\ Unused.proc = "none" /\ Unused.hello = "done"
BY ConnectionAssumption DEF Conns, None, Unused, ConnType

LEMMA OpeningType ==
  ASSUME NEW mode \in {"sync", "async"}, NEW ws \in SUBSET Waiters
  PROVE  /\ Opening(mode, ws) \in ConnType
         /\ Opening(mode, ws).proc = "live" /\ Opening(mode, ws).mode = mode
         /\ ~Opening(mode, ws).ready /\ Opening(mode, ws).waiters = ws
         /\ Opening(mode, ws).hello = "sent" /\ Opening(mode, ws).watch = "off"
BY DEF Opening, Unused, ConnType

LEMMA ClosedType ==
  ASSUME NEW k \in ConnType
  PROVE  /\ Closed(k) \in ConnType /\ Closed(k).proc = "gone" /\ Closed(k).mode = k.mode
         /\ Closed(k).waiters = k.waiters /\ Closed(k).ready = k.ready
         /\ Closed(k).hello = IF k.hello = "sent" THEN "fail" ELSE k.hello
BY DEF Closed, ConnType

\* What a request of "watch" may leave and answer.
LEMMA WatchedType ==
  ASSUME NEW v \in {"off", "on", "refused", "listed"}, NEW o \in Watched(v)
  PROVE  o[1] \in {"on", "refused", "listed"} /\ o[2] \in {"ok", "fail"}
BY DEF Watched

LEMMA RewatchedType ==
  ASSUME NEW k \in ConnType, NEW n \in Rewatched(k)
  PROVE  /\ n \in ConnType /\ n.proc = k.proc /\ n.mode = k.mode
         /\ n.waiters = k.waiters /\ n.ready = k.ready /\ n.hello = k.hello
         /\ watches # {} \/ k.watch # "off" => n.watch # "off"
<1>1. CASE watches = {}
  BY <1>1 DEF Rewatched
<1>2. CASE watches # {}
  <2>1. PICK o \in Watched(k.watch) : n = [k EXCEPT !.watch = o[1]]
    BY <1>2 DEF Rewatched
  <2>2. PICK v : v = o[1]
    OBVIOUS
  <2>3. v \in {"on", "refused", "listed"}
    BY <2>1, <2>2, WatchedType DEF ConnType
  <2>4. n = [k EXCEPT !.watch = v]
    BY <2>1, <2>2
  <2> QED
    BY <2>3, <2>4 DEF ConnType
<1> QED
  BY <1>1, <1>2

\* A connection somebody uses has been made.
LEMMA Made ==
  ASSUME ConnsOK, CountsOK, NEW c \in Conns, conn[c].proc # "none" \/ conn[c].hello # "done"
  PROVE  c <= started
BY ConstantFacts DEF ConnsOK, CountsOK, Conns

LEMMA ConnOnly ==
  ASSUME CountsOK, CountsOK', ConnsOK, NEW c \in Conns, NEW k \in ConnType,
         conn' = [conn EXCEPT ![c] = k],
         c <= started', started' >= started, table' \in 0 .. started'
  PROVE  /\ ConnsOK' /\ conn'[c] = k
         /\ \A d \in Conns \ {c} : conn'[d] = conn[d]
<1>1. conn' \in [Conns -> ConnType] /\ conn'[c] = k /\ \A d \in Conns \ {c} : conn'[d] = conn[d]
  BY DEF ConnsOK
<1>2. \A d \in Conns : d > started' => d # c /\ d > started
  BY ConstantFacts DEF CountsOK
<1> QED
  BY <1>1, <1>2 DEF ConnsOK, Conns

LEMMA FramesStay ==
  ASSUME CountsOK, CountsOK', NEW s, Frames(s), started' >= started, added' >= added,
         \A i \in 1 .. Len(s) : s[i].op = "connect" =>
            conn'[s[i].conn].mode = "sync" /\ conn'[s[i].conn].hello # "done"
  PROVE  Frames(s)'
<1>1. ASSUME NEW i \in 1 .. Len(s) PROVE FrameOK(s[i])'
  <2>1. s[i] \in FrameType /\ FrameOK(s[i])
    BY DEF Frames
  <2>2. s[i].id \in Nat /\ s[i].conn \in Nat
    BY <2>1, ConstantFacts DEF FrameType
  <2> QED
    BY <2>1, <2>2 DEF FrameOK, CountsOK
<1> QED
  BY <1>1 DEF Frames, FrameType, Conns

LEMMA FramesPush ==
  ASSUME NEW s, Frames(s)', NEW f \in FrameType, FrameOK(f)',
         f.op = "connect" => \A i \in 1 .. Len(s) : s[i].op = "connect" => s[i].conn # f.conn
  PROVE  Frames(<<f>> \o s)'
<1> DEFINE t == <<f>> \o s
<1>1. s \in Seq(FrameType) /\ Len(s) \in Nat
  BY DEF Frames, FrameType, Conns
<1>2. t \in Seq(FrameType) /\ Len(t) = Len(s) + 1 /\ t[1] = f
  BY <1>1
<1>3. \A i \in 2 .. Len(t) : i - 1 \in 1 .. Len(s) /\ t[i] = s[i - 1]
  BY <1>1
<1> HIDE DEF t
<1>4. \A i \in 1 .. Len(t) : FrameOK(t[i])'
  BY <1>1, <1>2, <1>3 DEF Frames
<1>5. \A i, j \in 1 .. Len(t) :
        t[i].op = "connect" /\ t[j].op = "connect" /\ t[i].conn = t[j].conn => i = j
  <2>1. SUFFICES ASSUME NEW i \in 1 .. Len(t), NEW j \in 1 .. Len(t),
                        t[i].op = "connect", t[j].op = "connect", t[i].conn = t[j].conn
                 PROVE  i = j
    OBVIOUS
  <2>2. CASE i = 1 /\ j # 1
    BY <2>1, <2>2, <1>1, <1>2, <1>3
  <2>3. CASE i # 1 /\ j = 1
    BY <2>1, <2>3, <1>1, <1>2, <1>3
  <2>4. CASE i # 1 /\ j # 1
    <3>1. i - 1 \in 1 .. Len(s) /\ j - 1 \in 1 .. Len(s) /\ t[i] = s[i - 1] /\ t[j] = s[j - 1]
      BY <2>4, <1>1, <1>2, <1>3
    <3>2. i - 1 = j - 1
      BY <2>1, <3>1 DEF Frames
    <3> QED
      BY <3>2
  <2> QED
    BY <2>2, <2>3, <2>4
<1>6. Frames(t)'
  BY <1>2, <1>4, <1>5 DEF Frames, FrameType, Conns
<1> QED
  BY <1>6 DEF t

LEMMA FramesPop ==
  ASSUME NEW s, Frames(s), s # <<>>
  PROVE  /\ Frames(Tail(s)) /\ s[1] = Head(s) /\ Head(s) \in FrameType /\ FrameOK(Head(s))
         /\ Head(s).op = "connect" =>
              \A i \in 1 .. Len(Tail(s)) : Tail(s)[i].op = "connect" => Tail(s)[i].conn # Head(s).conn
<1> DEFINE t == Tail(s)
<1>1. s \in Seq(FrameType) /\ Len(s) \in Nat /\ Len(s) >= 1 /\ s[1] = Head(s) /\ 1 \in 1 .. Len(s)
  BY DEF Frames
<1>2. t \in Seq(FrameType) /\ Len(t) = Len(s) - 1
        /\ \A i \in 1 .. Len(t) : t[i] = s[i + 1] /\ i + 1 \in 1 .. Len(s)
  BY <1>1
<1> HIDE DEF t
<1>3. Head(s) \in FrameType /\ FrameOK(Head(s))
  BY <1>1 DEF Frames
<1>4. \A i \in 1 .. Len(t) : FrameOK(t[i])
  BY <1>2 DEF Frames
<1>5. ASSUME NEW i \in 1 .. Len(t), NEW j \in 1 .. Len(t),
             t[i].op = "connect", t[j].op = "connect", t[i].conn = t[j].conn
      PROVE  i = j
  <2>1. i + 1 = j + 1
    BY <1>2, <1>5 DEF Frames
  <2> QED
    BY <2>1
<1>6. Frames(t)
  BY <1>2, <1>4, <1>5 DEF Frames
<1>7. ASSUME NEW i \in 1 .. Len(t), Head(s).op = "connect", t[i].op = "connect", t[i].conn = Head(s).conn
      PROVE  FALSE
  <2>1. i + 1 = 1
    BY <1>1, <1>2, <1>7 DEF Frames
  <2> QED
    BY <2>1
<1> QED
  BY <1>1, <1>3, <1>6, <1>7 DEF t

LEMMA FailedFacts ==
  ASSUME NEW s \in Seq(FrameType), NEW c
  PROVE  /\ Failed(c, s) \in Seq(FrameType) /\ Len(Failed(c, s)) = Len(s)
         /\ \A i \in 1 .. Len(s) : /\ Failed(c, s)[i].op = s[i].op
                                   /\ Failed(c, s)[i].conn = s[i].conn
                                   /\ Failed(c, s)[i].id = s[i].id
                                   /\ Failed(c, s)[i].then = s[i].then
<1>1. DOMAIN s = 1 .. Len(s) /\ Len(s) \in Nat /\ \A i \in 1 .. Len(s) : s[i] \in FrameType
  OBVIOUS
<1>2. \A i \in 1 .. Len(s) : /\ Failed(c, s)[i] \in FrameType
                             /\ Failed(c, s)[i].op = s[i].op
                             /\ Failed(c, s)[i].conn = s[i].conn
                             /\ Failed(c, s)[i].id = s[i].id
                             /\ Failed(c, s)[i].then = s[i].then
  BY <1>1 DEF Failed, FrameType
<1>3. DOMAIN Failed(c, s) = 1 .. Len(s) /\ Failed(c, s) = [i \in 1 .. Len(s) |-> Failed(c, s)[i]]
  BY <1>1 DEF Failed
<1>4. Failed(c, s) \in [1 .. Len(s) -> FrameType]
  BY <1>2, <1>3
<1> QED
  BY <1>1, <1>2, <1>3, <1>4

LEMMA FramesFail ==
  ASSUME NEW s, Frames(s)', NEW c
  PROVE  Frames(Failed(c, s))'
<1>1. s \in Seq(FrameType)
  BY DEF Frames, FrameType, Conns
<1> DEFINE t == Failed(c, s)
<1>2. t \in Seq(FrameType) /\ Len(t) = Len(s)
      /\ \A i \in 1 .. Len(s) : t[i].op = s[i].op /\ t[i].conn = s[i].conn
                                     /\ t[i].id = s[i].id /\ t[i].then = s[i].then
  BY <1>1, FailedFacts
<1> HIDE DEF t
<1>3. \A i \in 1 .. Len(s) : FrameOK(t[i])'
  BY <1>2 DEF Frames, FrameOK
<1>4. Frames(t)'
  BY <1>2, <1>3 DEF Frames, FrameType, Conns
<1> QED
  BY <1>4 DEF t

-----------------------------------------------------------------------------
LEMMA TypeInit == Init => TypeInv
<1> SUFFICES ASSUME Init PROVE TypeInv
  OBVIOUS
<1>1. CountsOK
  BY ConnectionAssumption DEF Init, CountsOK, Uses
<1>2. ConnsOK
  BY ConstantFacts DEF Init, ConnsOK, None
<1>3. Frames(stack)
  BY DEF Init, Frames
<1> QED
  BY <1>1, <1>2, <1>3 DEF TypeInv

\* The connection objects an action leaves alone serve the frames as before.
LEMMA FramesElsewhere ==
  ASSUME CountsOK, CountsOK', ConnsOK, NEW s, Frames(s), started' >= started, added' >= added,
         NEW c, \A d \in Conns \ {c} : conn'[d] = conn[d],
         \A i \in 1 .. Len(s) : s[i].op = "connect" /\ s[i].conn = c =>
            conn'[c].mode = "sync" /\ conn'[c].hello # "done"
  PROVE  Frames(s)'
<1>1. ASSUME NEW i \in 1 .. Len(s), s[i].op = "connect"
      PROVE  conn'[s[i].conn].mode = "sync" /\ conn'[s[i].conn].hello # "done"
  <2>1. s[i] \in FrameType /\ FrameOK(s[i])
    BY DEF Frames
  <2>2. s[i].conn \in Conns
    BY <2>1 DEF FrameType
  <2> QED
    BY <1>1, <2>1, <2>2 DEF FrameOK
<1> QED
  BY <1>1, FramesStay

\* No frame is about a connection that has not been made.
LEMMA FramesOlder ==
  ASSUME CountsOK, NEW s, Frames(s), NEW i \in 1 .. Len(s)
  PROVE  s[i].conn # started + 1
<1>1. s[i] \in FrameType /\ FrameOK(s[i])
  BY DEF Frames
<1>2. s[i].conn \in Nat
  BY <1>1, ConstantFacts DEF FrameType
<1> QED
  BY <1>1, <1>2 DEF FrameOK, CountsOK

\* A new connection object.
LEMMA NewConn ==
  ASSUME TypeInv, CountsOK', NEW k \in ConnType, started < MaxConns, started' = started + 1,
         conn' = [conn EXCEPT ![started'] = k], table' \in 0 .. started', added' >= added, NEW s, Frames(s)
  PROVE  /\ ConnsOK' /\ Frames(s)' /\ started + 1 \in Conns /\ conn'[started + 1] = k
         /\ \A d \in Conns \ {started + 1} : conn'[d] = conn[d]
<1>1. CountsOK /\ ConnsOK
  BY DEF TypeInv
<1>2. started + 1 \in Conns /\ started' >= started /\ started + 1 <= started'
  BY <1>1, ConstantFacts DEF CountsOK, Conns
<1>3. ConnsOK' /\ conn'[started + 1] = k /\ \A d \in Conns \ {started + 1} : conn'[d] = conn[d]
  BY <1>1, <1>2, ConnOnly
<1>4. \A i \in 1 .. Len(s) : s[i].conn # started + 1
  BY <1>1, FramesOlder
<1> QED
  BY <1>1, <1>2, <1>3, <1>4, FramesElsewhere

LEMMA NotifiedType ==
  ASSUME told \in [Waiters -> Nat], NEW ws
  PROVE  /\ Notified(ws) \in [Waiters -> Nat]
         /\ \A w \in Waiters : Notified(ws)[w] = IF w \in ws THEN told[w] + 1 ELSE told[w]
BY DEF Notified

\* Asynchronous establishment keeps the types.
LEMMA AsyncType ==
  ASSUME TypeInv, NEW w \in Waiters, ConnectAsync(w)
  PROVE  TypeInv'
<1>a. CountsOK /\ ConnsOK /\ Frames(stack) /\ stack' = stack
  BY DEF TypeInv, ConnectAsync
<1>b. \A ws : Notified(ws) \in [Waiters -> Nat]
  BY <1>a, NotifiedType DEF CountsOK
<1>c. UNCHANGED <<watches, added, deaths, use>> /\ asked' = asked \cup {w}
  BY DEF ConnectAsync
<1>d. ASSUME started' \in 0 .. MaxConns, told' \in [Waiters -> Nat], refusals' \in 0 .. MaxRefusals
      PROVE  CountsOK'
  BY <1>a, <1>c, <1>d DEF CountsOK
<1>1. CASE told' = Notified({w}) /\ UNCHANGED <<conn, table, started, refusals>>
  <2>1. CountsOK'
    BY <1>1, <1>a, <1>b, <1>d DEF CountsOK
  <2>2. Frames(stack)' /\ ConnsOK'
    BY <1>1, <1>a, <1>c DEF Frames, FrameOK, FrameType, ConnsOK, Conns
  <2> QED
    BY <2>1, <2>2 DEF TypeInv
<1>2. CASE /\ Live(table) /\ conn' = [conn EXCEPT ![table].waiters = @ \cup {w}]
           /\ UNCHANGED <<told, table, started, refusals>>
  <2> DEFINE k == [conn[table] EXCEPT !.waiters = @ \cup {w}]
  <2>1. CountsOK' /\ added' >= added
    BY <1>2, <1>a, <1>c, <1>d DEF CountsOK
  <2>2. table \in Conns /\ table <= started' /\ started' >= started /\ table' \in 0 .. started'
    BY <1>2, <1>a, ConstantFacts DEF Live, ConnsOK, CountsOK, Conns, None
  <2>3. k \in ConnType /\ k.mode = conn[table].mode /\ k.hello = conn[table].hello
    BY <2>2, <1>a DEF ConnsOK, ConnType
  <2>4. conn' = [conn EXCEPT ![table] = k]
    BY <1>2
  <2> HIDE DEF k
  <2>5. ConnsOK' /\ conn'[table] = k /\ \A d \in Conns \ {table} : conn'[d] = conn[d]
    BY <2>1, <2>2, <2>3, <2>4, <1>a, ConnOnly
  <2>6. \A i \in 1 .. Len(stack) : stack[i].op = "connect" /\ stack[i].conn = table =>
            conn'[table].mode = "sync" /\ conn'[table].hello # "done"
    BY <2>3, <2>5, <1>a DEF Frames, FrameOK
  <2>7. Frames(stack)'
    BY <2>1, <2>2, <2>5, <2>6, <1>a, FramesElsewhere
  <2> QED
    BY <2>1, <2>5, <2>7 DEF TypeInv
<1>3. ASSUME NEW k \in ConnType, started < MaxConns, started' = started + 1,
             conn' = [conn EXCEPT ![started'] = k], table' \in {None, started'},
             told' \in [Waiters -> Nat], refusals' \in 0 .. MaxRefusals
      PROVE  TypeInv'
  <2>1. started' \in 0 .. MaxConns /\ table' \in 0 .. started' /\ added' >= added
    BY <1>3, <1>a, <1>c, ConstantFacts DEF CountsOK, None
  <2>2. CountsOK'
    BY <1>3, <2>1, <1>d
  <2>3. ConnsOK' /\ Frames(stack)'
    BY <1>3, <2>1, <2>2, <1>a, NewConn
  <2> QED
    BY <2>2, <2>3 DEF TypeInv
<1>4. Opening("async", {w}) \in ConnType /\ Closed(Opening("async", {w})) \in ConnType
  BY OpeningType, ClosedType
<1>5. CASE StartAsync(w)
  BY <1>3, <1>4, <1>5, <1>a DEF StartAsync, CountsOK
<1>6. CASE StartRefused(w)
  <2>1. refusals' \in 0 .. MaxRefusals /\ told' = Notified({w})
    BY <1>6, <1>a, ConnectionAssumption DEF StartRefused, CountsOK
  <2>2. CASE UNCHANGED <<started, conn, table>>
    <3>1. CountsOK'
      BY <2>1, <2>2, <1>a, <1>b, <1>d DEF CountsOK
    <3>2. Frames(stack)' /\ ConnsOK'
      BY <2>2, <1>a, <1>c DEF Frames, FrameOK, FrameType, ConnsOK, Conns
    <3> QED
      BY <3>1, <3>2 DEF TypeInv
  <2> QED
    BY <1>6, <2>1, <2>2, <1>3, <1>4, <1>b DEF StartRefused
<1> QED
  BY <1>1, <1>2, <1>5, <1>6 DEF ConnectAsync

\* Object k can take the place of c for the calls s.
Serves(k, c, s) ==
  \A i \in 1 .. Len(s) :
    s[i].op = "connect" /\ s[i].conn = c => k.mode = "sync" /\ k.hello # "done"

\* A step that changes one object and no counter keeps the types, if frames
\* that wait for the object find it as before.
LEMMA ObjectType ==
  ASSUME TypeInv, NEW c \in Conns, c <= started, NEW k \in ConnType,
         conn' = [conn EXCEPT ![c] = k], table' \in {None, table},
         UNCHANGED <<started, added, asked, refusals, use>>,
         watches' \subseteq watches, told' \in [Waiters -> Nat], deaths' \in 0 .. MaxDeaths[use],
         NEW s, Frames(s), Serves(k, c, s)
  PROVE  /\ CountsOK' /\ ConnsOK' /\ Frames(s)' /\ conn'[c] = k
         /\ \A d \in Conns \ {c} : conn'[d] = conn[d]
<1>1. CountsOK /\ ConnsOK
  BY DEF TypeInv
<1>2. CountsOK' /\ started' >= started /\ added' >= added /\ c <= started'
  BY <1>1 DEF CountsOK
<1>3. table' \in 0 .. started'
  BY <1>1 DEF CountsOK, ConnsOK, None
<1>4. ConnsOK' /\ conn'[c] = k /\ \A d \in Conns \ {c} : conn'[d] = conn[d]
  BY <1>1, <1>2, <1>3, ConnOnly
<1>5. \A i \in 1 .. Len(s) : s[i].op = "connect" /\ s[i].conn = c =>
        conn'[c].mode = "sync" /\ conn'[c].hello # "done"
  BY <1>4 DEF Serves
<1> QED
  BY <1>1, <1>2, <1>4, <1>5, FramesElsewhere

\* The handshake callback and the sentinel close a connection or open it.
LEMMA HelloDoneType ==
  ASSUME TypeInv, NEW c \in Conns, HelloDone(c)
  PROVE  TypeInv'
<1>a. CountsOK /\ ConnsOK /\ Frames(stack) /\ conn[c] \in ConnType
  BY DEF TypeInv, ConnsOK
<1>b. c <= started /\ conn[c].mode = "async"
  BY <1>a, Made DEF HelloDone, HelloQueued
<1>c. \A i \in 1 .. Len(stack) : ~(stack[i].op = "connect" /\ stack[i].conn = c)
  BY <1>a, <1>b DEF Frames, FrameOK
<1>d. UNCHANGED <<started, added, asked, refusals, use>> /\ watches' \subseteq watches
        /\ table' \in {None, table} /\ told' \in [Waiters -> Nat]
        /\ deaths' \in 0 .. MaxDeaths[use]
  BY <1>a, NotifiedType DEF HelloDone, Unregister, CountsOK
<1> DEFINE handled == [conn[c] EXCEPT !.waiters = {}, !.hello = "done"]
           ready == [handled EXCEPT !.ready = TRUE]
<1>1. handled \in ConnType /\ ready \in ConnType /\ [ready EXCEPT !.hello = "signalled"] \in ConnType
  BY <1>a DEF ConnType
<1>2. (\A k \in Rewatched(ready) : k \in ConnType) /\ Closed(handled) \in ConnType
  BY <1>1, RewatchedType, ClosedType
<1>3. PICK k \in ConnType : conn' = [conn EXCEPT ![c] = k]
  BY <1>1, <1>2 DEF HelloDone
<1>s. PICK s : s = stack
  OBVIOUS
<1>x. Frames(s) /\ Serves(k, c, s)
  BY <1>a, <1>c, <1>s DEF Serves
<1>4. CountsOK' /\ ConnsOK' /\ Frames(s)'
  BY <1>b, <1>d, <1>3, <1>x, ObjectType
<1>5. stack' = s \/ stack' = Failed(c, s)
  BY <1>s DEF HelloDone
<1>6. Frames(stack)'
  BY <1>4, <1>5, FramesFail
<1> QED
  BY <1>4, <1>6 DEF TypeInv

\* Replies, timeouts and the end of a process.
LEMMA ProcessType ==
  ASSUME TypeInv, NEW c \in Conns, HelloTimeout(c) \/ HelloReply(c) \/ Die(c) \/ Sentinel(c)
  PROVE  TypeInv'
<1>a. CountsOK /\ ConnsOK /\ Frames(stack) /\ conn[c] \in ConnType
  BY DEF TypeInv, ConnsOK
<1>b. c <= started
  BY <1>a, Made DEF HelloTimeout, TimedOut, HelloReply, Die, Sentinel
<1>c. \A i \in 1 .. Len(stack) : stack[i].op = "connect" /\ stack[i].conn = c =>
         conn[c].mode = "sync" /\ conn[c].hello # "done"
  BY <1>a DEF Frames, FrameOK
<1>d. UNCHANGED <<started, added, asked, refusals, use>> /\ watches' \subseteq watches
        /\ table' \in {None, table} /\ told' \in [Waiters -> Nat]
  BY <1>a DEF HelloTimeout, HelloReply, Die, Sentinel, Unregister, CountsOK
<1>e. deaths' \in 0 .. MaxDeaths[use]
  BY <1>a, ConnectionAssumption DEF HelloTimeout, HelloReply, Die, Sentinel, CountsOK
<1>1. PICK k \in ConnType : /\ conn' = [conn EXCEPT ![c] = k]
                           /\ k.mode = conn[c].mode /\ (k.hello = "done" => conn[c].hello = "done")
  <2>h. ASSUME NEW h \in {"ok", "bad", "fail"}
        PROVE  [conn[c] EXCEPT !.hello = h] \in ConnType /\ [conn[c] EXCEPT !.hello = h].mode = conn[c].mode
                 /\ [conn[c] EXCEPT !.hello = h].hello = h
    BY <1>a DEF ConnType
  <2>1. CASE HelloTimeout(c)
    BY <2>1, <2>h DEF HelloTimeout
  <2>2. CASE HelloReply(c)
    BY <2>2, <2>h DEF HelloReply
  <2>3. CASE Die(c)
    <3>1. [conn[c] EXCEPT !.proc = "dead"] \in ConnType
            /\ [conn[c] EXCEPT !.proc = "dead"].mode = conn[c].mode
            /\ [conn[c] EXCEPT !.proc = "dead"].hello = conn[c].hello
      BY <1>a DEF ConnType
    <3> QED
      BY <2>3, <3>1 DEF Die
  <2>4. CASE Sentinel(c)
    BY <2>4, <1>a, ClosedType DEF Sentinel
  <2> QED
    BY <2>1, <2>2, <2>3, <2>4
<1>s. PICK s : s = stack
  OBVIOUS
<1>x. Frames(s) /\ Serves(k, c, s)
  BY <1>a, <1>c, <1>s, <1>1 DEF Serves
<1>y. conn' = [conn EXCEPT ![c] = k]
  BY <1>1
<1>2. CountsOK' /\ ConnsOK' /\ Frames(s)'
  BY <1>b, <1>d, <1>e, <1>y, <1>x, ObjectType
<1>3. stack' = s \/ stack' = Failed(c, s)
  BY <1>s DEF HelloTimeout, HelloReply, Die, Sentinel
<1>4. Frames(stack)'
  BY <1>2, <1>3, FramesFail
<1> QED
  BY <1>2, <1>4 DEF TypeInv

\* The start of a blocking handshake.
LEMMA ConnectType ==
  ASSUME TypeInv, NEW then \in {"watch", "done"}, NEW d \in Nat, Connect(then, d),
         then = "watch" => d # 0, added' >= added, d <= added', added' \in Nat,
         UNCHANGED <<watches, asked, told, deaths, refusals, use>>
  PROVE  TypeInv'
<1>a. CountsOK /\ ConnsOK /\ Frames(stack)
  BY DEF TypeInv
<1> DEFINE k == Opening("sync", {})
<1>f. PICK f : f = Frame("connect", started + 1, then, d)
  OBVIOUS
<1>s. PICK s : s = stack
  OBVIOUS
<1>1. started' = started + 1 /\ started < MaxConns /\ table' = started'
        /\ conn' = [conn EXCEPT ![started'] = k] /\ stack' = <<f>> \o s
  BY <1>f, <1>s DEF Connect
<1>2. CountsOK' /\ table' \in 0 .. started'
  BY <1>1, <1>a, ConstantFacts DEF CountsOK
<1>3. k \in ConnType /\ k.mode = "sync" /\ k.hello = "sent"
  BY OpeningType
<1> HIDE DEF k
<1>4. ConnsOK' /\ started + 1 \in Conns /\ conn'[started + 1] = k
        /\ Frames(s)'
  BY <1>1, <1>2, <1>3, <1>a, <1>s, NewConn
<1>5. f \in FrameType /\ f.op = "connect" /\ f.conn = started + 1 /\ f.id = d /\ f.then = then
  BY <1>4, <1>f DEF Frame, FrameType
<1>6. FrameOK(f)'
  BY <1>1, <1>3, <1>4, <1>5, <1>2 DEF FrameOK, CountsOK
<1>7. \A i \in 1 .. Len(s) : s[i].conn # f.conn
  BY <1>5, <1>a, <1>s, FramesOlder
<1>8. Frames(stack)'
  BY <1>1, <1>4, <1>5, <1>6, <1>7, FramesPush
<1> QED
  BY <1>2, <1>4, <1>8 DEF TypeInv

\* A request of "watch" on top of the calls s.
LEMMA SendWatchType ==
  ASSUME TypeInv, NEW c \in Conns, c <= started, NEW k \in ConnType, NEW d \in Nat, d # 0, NEW s, Frames(s),
         SendWatch(c, k, d, s), added' >= added, d <= added', added' \in Nat,
         UNCHANGED <<started, table, watches, asked, told, deaths, refusals, use>>,
         Serves(k, c, s)
  PROVE  TypeInv'
<1>a. CountsOK /\ ConnsOK
  BY DEF TypeInv
<1>o. PICK v, e : v \in {"on", "refused", "listed"} /\ e \in {"ok", "fail"} /\
              /\ conn' = [conn EXCEPT ![c] = [k EXCEPT !.watch = v]]
              /\ stack' = <<[Frame("watch", c, "done", d) EXCEPT !.answer = e]>> \o s
  BY WatchedType DEF SendWatch, ConnType
<1>n. PICK n : n = [k EXCEPT !.watch = v]
  OBVIOUS
<1>f. PICK f : f = [Frame("watch", c, "done", d) EXCEPT !.answer = e]
  OBVIOUS
<1>1. conn' = [conn EXCEPT ![c] = n] /\ stack' = <<f>> \o s
  BY <1>o, <1>n, <1>f
<1>2. n \in ConnType /\ n.mode = k.mode /\ n.hello = k.hello
  BY <1>o, <1>n DEF ConnType
<1>3. CountsOK' /\ started' >= started /\ c <= started' /\ table' \in 0 .. started'
  BY <1>a, ConstantFacts DEF CountsOK, ConnsOK
<1>4. ConnsOK' /\ conn'[c] = n /\ \A b \in Conns \ {c} : conn'[b] = conn[b]
  BY <1>a, <1>1, <1>2, <1>3, ConnOnly
<1>5. Frames(s)'
  BY <1>a, <1>2, <1>3, <1>4, FramesElsewhere DEF Serves
<1>6. f \in FrameType /\ f.conn = c /\ f.id = d /\ f.op = "watch" /\ f.then = "done"
  BY <1>o, <1>f DEF Frame, FrameType
<1>7. FrameOK(f)'
  BY <1>3, <1>6 DEF FrameOK
<1>8. Frames(stack)'
  BY <1>1, <1>5, <1>6, <1>7, FramesPush
<1> QED
  BY <1>3, <1>4, <1>8 DEF TypeInv

\* relay--connect after its wait.
LEMMA ConnectDoneType ==
  ASSUME TypeInv, ConnectDone
  PROVE  TypeInv'
<1>a. CountsOK /\ ConnsOK /\ Frames(stack) /\ stack # <<>> /\ Top.op = "connect"
  BY DEF TypeInv, ConnectDone
<1>c. PICK c : c = Top.conn
  OBVIOUS
<1>s. PICK s : s = Tail(stack)
  OBVIOUS
<1>b. Top \in FrameType /\ FrameOK(Top) /\ Frames(s)
        /\ \A i \in 1 .. Len(s) : s[i].op = "connect" => s[i].conn # c
  BY <1>a, <1>c, <1>s, FramesPop DEF Top
<1>d. c \in Conns /\ c <= started /\ conn[c] \in ConnType
  BY <1>a, <1>b, <1>c DEF FrameType, FrameOK, ConnsOK
<1>e. \A k : Serves(k, c, s)
  BY <1>b DEF Serves
<1>f. UNCHANGED <<started, watches, added, asked, told, deaths, refusals, use>>
  BY DEF ConnectDone
<1>g. UNCHANGED <<started, added, asked, refusals, use>> /\ watches' \subseteq watches
        /\ told' \in [Waiters -> Nat] /\ deaths' \in 0 .. MaxDeaths[use]
  BY <1>a, <1>f DEF CountsOK
<1> DEFINE opened == [conn[c] EXCEPT !.ready = TRUE, !.hello = "done"]
<1>1. opened \in ConnType
  BY <1>d DEF ConnType
<1>2. \A k \in Rewatched(opened) : k \in ConnType
  BY <1>1, RewatchedType
<1>3. [Closed(conn[c]) EXCEPT !.hello = "done"] \in ConnType
  <2>1. Closed(conn[c]) \in ConnType
    BY <1>d, ClosedType
  <2> QED
    BY <2>1 DEF ConnType
<1>4. ASSUME NEW k \in ConnType, conn' = [conn EXCEPT ![c] = k], table' \in {None, table},
             stack' = s \/ stack' = Failed(c, s)
      PROVE  TypeInv'
  <2>1. CountsOK' /\ ConnsOK' /\ Frames(s)'
    BY <1>4, <1>b, <1>d, <1>e, <1>g, ObjectType
  <2>2. Frames(stack)'
    BY <1>4, <2>1, FramesFail
  <2> QED
    BY <2>1, <2>2 DEF TypeInv
<1>5. ASSUME NEW k \in Rewatched(opened), Top.then = "watch", SendWatch(c, k, Top.id, s), UNCHANGED table
      PROVE  TypeInv'
  <2>1. Top.id \in Nat /\ Top.id # 0 /\ Top.id <= added'
    BY <1>5, <1>b, <1>f DEF FrameType, FrameOK
  <2>2. added' >= added /\ added' \in Nat
    BY <1>a, <1>f DEF CountsOK
  <2> QED
    BY <1>2, <1>5, <1>b, <1>d, <1>e, <1>f, <2>1, <2>2, SendWatchType
<1>6. ASSUME NEW k \in Rewatched(opened), conn' = [conn EXCEPT ![c] = k], stack' = s, UNCHANGED table
      PROVE  TypeInv'
  BY <1>2, <1>4, <1>6
<1>7. CASE conn' = [conn EXCEPT ![c] = opened] /\ stack' = s /\ UNCHANGED table
  BY <1>1, <1>4, <1>7
<1>8. CASE /\ table' = Unregister(c) /\ stack' = Failed(c, s)
           /\ conn' = [conn EXCEPT ![c] = [Closed(@) EXCEPT !.hello = "done"]]
  BY <1>3, <1>4, <1>8 DEF Unregister
<1> QED
  BY <1>5, <1>6, <1>7, <1>8, <1>c, <1>s DEF ConnectDone

LEMMA TypeNext == TypeInv /\ [Next]_vars => TypeInv'
<1> SUFFICES ASSUME TypeInv, [Next]_vars PROVE TypeInv'
  OBVIOUS
<1>a. CountsOK /\ ConnsOK /\ Frames(stack)
  BY DEF TypeInv
<1>s. PICK s : s = stack
  OBVIOUS
<1>1. CASE FileOperation
  <2>1. added' >= added /\ added' \in Nat /\ 0 <= added'
    BY <1>1, <1>a DEF FileOperation, CountsOK
  <2> QED
    BY <1>1, <2>1, ConnectType DEF FileOperation
<1>2. CASE AddWatch
  <2>1. added' = added + 1 /\ added' >= added /\ added' \in Nat /\ added' # 0 /\ added' <= added'
    BY <1>2, <1>a DEF AddWatch, CountsOK
  <2>2. CASE Live(table) /\ SendWatch(table, conn[table], added', stack) /\ UNCHANGED <<started, table>>
    <3>1. table \in Conns /\ table <= started
      BY <2>2, <1>a, ConstantFacts DEF Live, ConnsOK, CountsOK, Conns, None
    <3>2. conn[table] \in ConnType
      BY <3>1, <1>a DEF ConnsOK
    <3>3. Serves(conn[table], table, stack)
      BY <1>a DEF Serves, Frames, FrameOK
    <3>4. UNCHANGED <<started, table, watches, asked, told, deaths, refusals, use>>
      BY <1>2, <2>2 DEF AddWatch
    <3> QED
      BY <2>1, <2>2, <3>1, <3>2, <3>3, <3>4, <1>a, SendWatchType
  <2>3. CASE Connect("watch", added')
    BY <1>2, <2>1, <2>3, ConnectType DEF AddWatch
  <2> QED
    BY <1>2, <2>2, <2>3 DEF AddWatch
<1>3. CASE WatchDone
  <2>1. PICK t : t = Tail(stack)
    OBVIOUS
  <2>2. Frames(t) /\ Top \in FrameType /\ FrameOK(Top)
    BY <1>3, <2>1, <1>a, FramesPop DEF WatchDone, Top
  <2>3. watches' \subseteq 1 .. added
    <3>1. Top.id \in 1 .. added
      BY <1>3, <2>2, <1>a DEF WatchDone, FrameType, FrameOK, CountsOK
    <3> QED
      BY <1>3, <3>1, <1>a DEF WatchDone, CountsOK
  <2>4. UNCHANGED <<conn, table, started, added, asked, told, deaths, refusals, use>> /\ stack' = t
    BY <1>3, <2>1 DEF WatchDone
  <2>5. CountsOK' /\ ConnsOK'
    BY <2>3, <2>4, <1>a DEF CountsOK, ConnsOK, Conns
  <2>6. Frames(t)'
    BY <2>2, <2>4 DEF Frames, FrameOK, FrameType, Conns
  <2> QED
    BY <2>4, <2>5, <2>6 DEF TypeInv
<1>4. CASE RemoveWatch
  <2>1. watches' \subseteq watches /\ UNCHANGED <<table, started, stack, added, asked, told, deaths, refusals, use>>
    BY <1>4 DEF RemoveWatch
  <2>2. CASE conn' = conn
    <3>1. CountsOK' /\ ConnsOK'
      BY <2>1, <2>2, <1>a DEF CountsOK, ConnsOK, Conns
    <3>2. Frames(stack)'
      BY <2>1, <2>2, <1>a DEF Frames, FrameOK, FrameType, Conns
    <3> QED
      BY <3>1, <3>2 DEF TypeInv
  <2>3. CASE Live(table) /\ conn' = [conn EXCEPT ![table].watch = "off"]
    <3>1. table \in Conns /\ table <= started
      BY <2>3, <1>a, ConstantFacts DEF Live, ConnsOK, CountsOK, Conns, None
    <3>2. PICK k : k = [conn[table] EXCEPT !.watch = "off"]
      OBVIOUS
    <3>3. k \in ConnType /\ k.mode = conn[table].mode /\ k.hello = conn[table].hello
      BY <3>1, <3>2, <1>a DEF ConnsOK, ConnType
    <3>4. Frames(s) /\ Serves(k, table, s)
      BY <3>3, <1>a, <1>s DEF Serves, Frames, FrameOK
    <3>5. UNCHANGED <<started, added, asked, refusals, use>> /\ table' \in {None, table}
            /\ told' \in [Waiters -> Nat] /\ deaths' \in 0 .. MaxDeaths[use]
            /\ conn' = [conn EXCEPT ![table] = k]
      BY <2>1, <2>3, <3>2, <1>a DEF CountsOK
    <3>6. CountsOK' /\ ConnsOK' /\ Frames(s)'
      BY <2>1, <3>1, <3>3, <3>4, <3>5, ObjectType
    <3> QED
      BY <2>1, <3>6, <1>s DEF TypeInv
  <2> QED
    BY <1>4, <2>2, <2>3 DEF RemoveWatch
<1>5. CASE WatchReply
  <2>1. PICK i \in DOMAIN stack :
           /\ stack' = [stack EXCEPT ![i].reply = stack[i].answer]
           /\ UNCHANGED <<conn, table, started, watches, added, asked, told, deaths, refusals, use>>
    BY <1>5 DEF WatchReply
  <2>2. CountsOK' /\ ConnsOK'
    BY <2>1, <1>a DEF CountsOK, ConnsOK, Conns
  <2>3. stack \in Seq(FrameType) /\ DOMAIN stack = 1 .. Len(stack) /\ Len(stack) \in Nat
    BY <1>a DEF Frames
  <2>4. PICK t : t = [stack EXCEPT ![i].reply = stack[i].answer]
    OBVIOUS
  <2>5. t \in Seq(FrameType) /\ Len(t) = Len(stack)
    <3>a. stack[i] \in FrameType
      BY <2>1, <2>3
    <3>1. [stack[i] EXCEPT !.reply = stack[i].answer] \in FrameType
      BY <3>a DEF FrameType
    <3>2. t = [stack EXCEPT ![i] = [stack[i] EXCEPT !.reply = stack[i].answer]]
      BY <2>4
    <3> QED
      BY <2>1, <2>3, <3>1, <3>2
  <2>6. \A j \in 1 .. Len(stack) : t[j].op = stack[j].op /\ t[j].conn = stack[j].conn
                                     /\ t[j].id = stack[j].id /\ t[j].then = stack[j].then
    BY <2>1, <2>3, <2>4 DEF FrameType
  <2>7. Frames(t)
    BY <2>5, <2>6, <1>a DEF Frames, FrameOK
  <2>8. Frames(t)'
    BY <2>1, <2>7 DEF Frames, FrameOK, FrameType, Conns
  <2> QED
    BY <2>1, <2>2, <2>4, <2>8 DEF TypeInv
<1>6. CASE UNCHANGED vars
  BY <1>6, <1>a DEF vars, TypeInv, CountsOK, ConnsOK, Frames, FrameOK, FrameType, Conns
<1> QED
  BY <1>1, <1>2, <1>3, <1>4, <1>5, <1>6, AsyncType, HelloDoneType, ProcessType, ConnectDoneType DEF Next

LEMMA TypeInvType == TypeInv => TypeOK
<1> SUFFICES ASSUME TypeInv PROVE TypeOK
  OBVIOUS
<1>1. CountsOK /\ ConnsOK /\ Frames(stack) /\ DOMAIN stack = 1 .. Len(stack)
  BY DEF TypeInv, Frames
<1>2. ASSUME NEW i \in DOMAIN stack
      PROVE  /\ stack[i] \in [op : {"connect", "watch"}, conn : Conns, then : {"watch", "done"},
                              id : 0 .. added, answer : {"ok", "fail"}, reply : {"none", "ok", "fail"}]
             /\ stack[i].op = "connect" => conn[stack[i].conn].hello # "done"
  <2>1. stack[i] \in FrameType /\ FrameOK(stack[i])
    BY <1>1, <1>2 DEF Frames
  <2>2. stack[i].id \in 0 .. added
    BY <2>1, <1>1 DEF FrameType, FrameOK, CountsOK
  <2> QED
    BY <2>1, <2>2 DEF FrameType, FrameOK
<1> QED
  BY <1>1, <1>2 DEF TypeOK, CountsOK, ConnsOK, ConnType

\* The objects, the table and the stack of blocking calls keep their types, and
\* the reply to a blocking handshake is handled by the call that waits for it.
THEOREM TypeCorrect == Spec => []TypeOK
BY TypeInit, TypeNext, TypeInvType, PTL DEF Spec

-----------------------------------------------------------------------------
(* No live process is orphaned *)

\* A step makes a connection while none is live, or changes one object and at
\* most unregisters it together with its process, or leaves both alone.
Opens(k) ==
  /\ ~Live(table) /\ started < MaxConns /\ started' = started + 1
  /\ conn' = [conn EXCEPT ![started + 1] = k]
  /\ \/ k.proc = "live" /\ table' = started + 1
     \/ k.proc = "gone" /\ table' = None

Alters(c, k) ==
  /\ c \in Conns /\ conn' = [conn EXCEPT ![c] = k]
  /\ \/ k.proc = conn[c].proc /\ table' = table
     \/ k.proc = "dead" /\ table' = table
     \/ k.proc = "gone" /\ table' = Unregister(c)

Effects ==
  \/ \E k \in ConnType : Opens(k)
  \/ \E c \in Conns, k \in ConnType : Alters(c, k)
  \/ conn' = conn /\ table' = table

LEMMA LiveMade ==
  ASSUME TypeInv, Live(table)
  PROVE  table \in Conns /\ table <= started /\ conn[table] \in ConnType /\ conn[table].proc = "live"
<1>1. table \in Conns /\ table <= started
  BY ConstantFacts DEF TypeInv, ConnsOK, CountsOK, Live, Conns, None
<1> QED
  BY <1>1 DEF TypeInv, ConnsOK, Live

LEMMA TopMade ==
  ASSUME TypeInv, stack # <<>>
  PROVE  Top.conn \in Conns /\ conn[Top.conn] \in ConnType /\ Top \in FrameType /\ FrameOK(Top)
<1>1. Top \in FrameType /\ FrameOK(Top)
  BY FramesPop DEF TypeInv, Top
<1>2. Top.conn \in Conns
  BY <1>1 DEF FrameType
<1> QED
  BY <1>1, <1>2 DEF TypeInv, ConnsOK

LEMMA StepEffects ==
  ASSUME TypeInv, [Next]_vars
  PROVE  Effects
<1>a. conn \in [Conns -> ConnType] /\ started \in Nat
  BY DEF TypeInv, ConnsOK, CountsOK
<1>1. ASSUME NEW w \in Waiters, ConnectAsync(w) PROVE Effects
  <2>1. CASE conn' = conn /\ table' = table
    BY <2>1 DEF Effects
  <2>2. CASE Live(table) /\ conn' = [conn EXCEPT ![table].waiters = @ \cup {w}] /\ table' = table
    <3>1. PICK k : k = [conn[table] EXCEPT !.waiters = @ \cup {w}]
      OBVIOUS
    <3>2. k \in ConnType /\ k.proc = conn[table].proc /\ table \in Conns
      BY <2>2, <3>1, LiveMade DEF ConnType
    <3>3. Alters(table, k)
      BY <2>2, <3>1, <3>2 DEF Alters
    <3> QED
      BY <3>2, <3>3 DEF Effects
  <2>3. CASE ~Live(table) /\ StartAsync(w)
    <3>1. PICK k \in ConnType : k = Opening("async", {w}) /\ k.proc = "live"
      BY OpeningType
    <3>2. Opens(k)
      BY <2>3, <3>1 DEF StartAsync, Opens
    <3> QED
      BY <3>1, <3>2 DEF Effects
  <2>4. CASE ~Live(table) /\ StartRefused(w)
    <3>1. Opening("async", {w}) \in ConnType
      BY OpeningType
    <3>2. PICK k \in ConnType : k = Closed(Opening("async", {w})) /\ k.proc = "gone"
      BY <3>1, ClosedType
    <3>3. CASE UNCHANGED <<started, conn, table>>
      BY <3>3 DEF Effects
    <3>4. CASE /\ started < MaxConns /\ started' = started + 1 /\ table' = None
               /\ conn' = [conn EXCEPT ![started'] = Closed(Opening("async", {w}))]
      BY <2>4, <3>2, <3>4 DEF Opens, Effects
    <3> QED
      BY <2>4, <3>3, <3>4 DEF StartRefused
  <2> QED
    BY <1>1, <2>1, <2>2, <2>3, <2>4 DEF ConnectAsync
<1>2. ASSUME NEW c \in Conns, HelloDone(c) PROVE Effects
  <2> DEFINE handled == [conn[c] EXCEPT !.waiters = {}, !.hello = "done"]
             ready == [handled EXCEPT !.ready = TRUE]
             signalled == [ready EXCEPT !.hello = "signalled"]
  <2>1. /\ handled \in ConnType /\ ready \in ConnType /\ signalled \in ConnType
        /\ handled.proc = conn[c].proc /\ ready.proc = conn[c].proc /\ signalled.proc = conn[c].proc
    BY <1>a DEF ConnType
  <2>2. /\ \A k \in Rewatched(ready) : k \in ConnType /\ k.proc = conn[c].proc
        /\ Closed(handled) \in ConnType /\ Closed(handled).proc = "gone"
    BY <2>1, RewatchedType, ClosedType
  <2>3. \/ \E k \in Rewatched(ready) : Alters(c, k)
        \/ Alters(c, signalled) \/ Alters(c, Closed(handled))
    BY <1>2, <2>1, <2>2 DEF HelloDone, Alters
  <2> QED
    BY <2>1, <2>2, <2>3 DEF Effects
<1>3. ASSUME NEW c \in Conns, HelloTimeout(c) \/ HelloReply(c) PROVE Effects
  <2>1. PICK h \in {"ok", "bad", "fail"} : conn' = [conn EXCEPT ![c].hello = h] /\ table' = table
    BY <1>3 DEF HelloTimeout, HelloReply
  <2>2. PICK k : k = [conn[c] EXCEPT !.hello = h]
    OBVIOUS
  <2>3. k \in ConnType /\ k.proc = conn[c].proc
    BY <2>2, <1>a DEF ConnType
  <2> QED
    BY <2>1, <2>2, <2>3 DEF Alters, Effects
<1>4. ASSUME NEW c \in Conns, Die(c) PROVE Effects
  <2>1. PICK k : k = [conn[c] EXCEPT !.proc = "dead"]
    OBVIOUS
  <2>2. k \in ConnType /\ k.proc = "dead"
    BY <2>1, <1>a DEF ConnType
  <2> QED
    BY <1>4, <2>1, <2>2 DEF Die, Alters, Effects
<1>5. ASSUME NEW c \in Conns, Sentinel(c) PROVE Effects
  <2>1. Closed(conn[c]) \in ConnType /\ Closed(conn[c]).proc = "gone"
    BY <1>a, ClosedType
  <2> QED
    BY <1>5, <2>1 DEF Sentinel, Alters, Effects
<1>6. ASSUME NEW then, NEW d, ~Live(table), Connect(then, d) PROVE Effects
  <2>1. PICK k \in ConnType : k = Opening("sync", {}) /\ k.proc = "live"
    BY OpeningType
  <2> QED
    BY <1>6, <2>1 DEF Connect, Opens, Effects
<1>7. ASSUME NEW c \in Conns, NEW k \in ConnType, k.proc = conn[c].proc, NEW d, NEW s,
             SendWatch(c, k, d, s), table' = table
      PROVE  Effects
  <2>o. PICK v \in {"on", "refused", "listed"} : conn' = [conn EXCEPT ![c] = [k EXCEPT !.watch = v]]
    BY <1>7, WatchedType DEF SendWatch, ConnType
  <2>1. [k EXCEPT !.watch = v] \in ConnType /\ [k EXCEPT !.watch = v].proc = conn[c].proc
    BY <1>7, <2>o DEF ConnType
  <2> QED
    BY <1>7, <2>o, <2>1 DEF Alters, Effects
<1>8. CASE FileOperation
  BY <1>6, <1>8 DEF FileOperation
<1>9. CASE AddWatch
  <2>1. CASE Live(table) /\ SendWatch(table, conn[table], added', stack) /\ UNCHANGED <<started, table>>
    BY <2>1, <1>7, LiveMade
  <2> QED
    BY <1>6, <1>9, <2>1 DEF AddWatch
<1>10. CASE ConnectDone
  <2>1. PICK c : c = Top.conn
    OBVIOUS
  <2>2. c \in Conns /\ conn[c] \in ConnType
    BY <1>10, <2>1, TopMade DEF ConnectDone
  <2> DEFINE opened == [conn[c] EXCEPT !.ready = TRUE, !.hello = "done"]
             closed == [Closed(conn[c]) EXCEPT !.hello = "done"]
  <2>3. opened \in ConnType /\ opened.proc = conn[c].proc
    BY <2>2 DEF ConnType
  <2>4. \A k \in Rewatched(opened) : k \in ConnType /\ k.proc = conn[c].proc
    BY <2>3, RewatchedType
  <2>5. closed \in ConnType /\ closed.proc = "gone"
    <3>1. Closed(conn[c]) \in ConnType /\ Closed(conn[c]).proc = "gone"
      BY <2>2, ClosedType
    <3> QED
      BY <3>1 DEF ConnType
  <2>6. ASSUME NEW k \in Rewatched(opened), SendWatch(c, k, Top.id, Tail(stack)), UNCHANGED table
        PROVE  Effects
    BY <2>2, <2>4, <2>6, <1>7
  <2>7. ASSUME NEW k \in Rewatched(opened), conn' = [conn EXCEPT ![c] = k], UNCHANGED table
        PROVE  Effects
    BY <2>2, <2>4, <2>7 DEF Alters, Effects
  <2>8. CASE conn' = [conn EXCEPT ![c] = opened] /\ UNCHANGED table
    BY <2>2, <2>3, <2>8 DEF Alters, Effects
  <2>9. CASE table' = Unregister(c) /\ conn' = [conn EXCEPT ![c] = [Closed(@) EXCEPT !.hello = "done"]]
    BY <2>2, <2>5, <2>9 DEF Alters, Effects
  <2> QED
    BY <1>10, <2>1, <2>6, <2>7, <2>8, <2>9 DEF ConnectDone
<1>11. CASE RemoveWatch
  <2>1. CASE Live(table) /\ conn' = [conn EXCEPT ![table].watch = "off"] /\ table' = table
    <3>1. PICK k : k = [conn[table] EXCEPT !.watch = "off"]
      OBVIOUS
    <3>2. k \in ConnType /\ k.proc = conn[table].proc /\ table \in Conns
      BY <2>1, <3>1, LiveMade DEF ConnType
    <3> QED
      BY <2>1, <3>1, <3>2 DEF Alters, Effects
  <2> QED
    BY <1>11, <2>1 DEF RemoveWatch, Effects
<1>12. CASE WatchDone \/ WatchReply \/ UNCHANGED vars
  BY <1>12 DEF WatchDone, WatchReply, vars, Effects
<1> QED
  BY <1>1, <1>2, <1>3, <1>4, <1>5, <1>8, <1>9, <1>10, <1>11, <1>12 DEF Next

LEMMA LiveNext ==
  ASSUME TypeInv, LiveIsRegistered, [Next]_vars
  PROVE  LiveIsRegistered'
<1>a. conn \in [Conns -> ConnType] /\ Effects /\ started \in Nat /\ Conns \subseteq Nat
  BY StepEffects, ConstantFacts DEF TypeInv, ConnsOK, CountsOK
<1>s. SUFFICES ASSUME NEW d \in Conns, conn'[d].proc = "live" PROVE table' = d
  BY DEF LiveIsRegistered, Conns
<1>1. ASSUME NEW k \in ConnType, Opens(k) PROVE table' = d
  <2>1. CASE d = started + 1
    BY <1>1, <1>a, <1>s, <2>1 DEF Opens
  <2>2. CASE d # started + 1
    <3>1. conn[d].proc = "live"
      BY <1>1, <1>a, <1>s, <2>2 DEF Opens
    <3>2. Live(table)
      BY <3>1, ConstantFacts DEF LiveIsRegistered, Live
    <3> QED
      BY <3>2, <1>1 DEF Opens
  <2> QED
    BY <2>1, <2>2
<1>2. ASSUME NEW c \in Conns, NEW k \in ConnType, Alters(c, k) PROVE table' = d
  <2>1. CASE d = c
    BY <1>2, <1>a, <1>s, <2>1 DEF Alters, LiveIsRegistered
  <2>2. CASE d # c
    <3>1. conn[d].proc = "live" /\ table = d
      BY <1>2, <1>a, <1>s, <2>2 DEF Alters, LiveIsRegistered
    <3> QED
      BY <1>2, <2>2, <3>1 DEF Alters, Unregister
  <2> QED
    BY <2>1, <2>2
<1>3. CASE conn' = conn /\ table' = table
  BY <1>3, <1>s DEF LiveIsRegistered
<1> QED
  BY <1>1, <1>2, <1>3, <1>a DEF Effects

\* "Never let its sentinel erase the newer connection": a live process is the
\* registered one, so at most one is live, however operations nest.
THEOREM LiveRegistered == Spec => []LiveIsRegistered
<1>1. Init => LiveIsRegistered
  BY ConstantFacts DEF Init, LiveIsRegistered
<1>2. TypeInv /\ LiveIsRegistered /\ [Next]_vars => LiveIsRegistered'
  BY LiveNext
<1> QED
  BY <1>1, <1>2, TypeInit, TypeNext, PTL DEF Spec

-----------------------------------------------------------------------------
(* Watches survive reconnects *)

\* The sentinel fails calls and keeps their number and what they are about.
LEMMA KeepFrames ==
  ASSUME Frames(stack), NEW c, stack' = stack \/ stack' = Failed(c, stack)
  PROVE  /\ Len(stack') = Len(stack) /\ (stack' # <<>> => stack # <<>>)
         /\ stack # <<>> => Top'.op = Top.op /\ Top'.conn = Top.conn
<1>1. stack \in Seq(FrameType)
  BY DEF Frames
<1>2. Failed(c, stack) \in Seq(FrameType) /\ Len(Failed(c, stack)) = Len(stack)
  BY <1>1, FailedFacts
<1>3. stack # <<>> => /\ 1 \in 1 .. Len(stack)
                      /\ Head(stack) = stack[1] /\ Head(Failed(c, stack)) = Failed(c, stack)[1]
  BY <1>1, <1>2
<1>4. stack # <<>> => /\ Failed(c, stack)[1].op = stack[1].op
                      /\ Failed(c, stack)[1].conn = stack[1].conn
  BY <1>1, <1>3, FailedFacts
<1> QED
  BY <1>1, <1>2, <1>3, <1>4 DEF Top

\* A change of one object keeps watches watched, unless it forgets the watch of a
\* live connection or makes it ready without.
LEMMA ObjectWatch ==
  ASSUME TypeInv, WatchInv, UNCHANGED <<use, watches>>, NEW c \in Conns, NEW k \in ConnType, Alters(c, k),
         stack' = stack \/ stack' = Failed(c, stack),
         k.proc = "live" => /\ conn[c].watch # "off" => k.watch # "off"
                            /\ k.ready => conn[c].ready \/ k.watch # "off" \/ watches = {}
  PROVE  WatchInv'
<1>0. SUFFICES ASSUME use # "nested" PROVE WatchInv'
  BY DEF WatchInv
<1>a. conn \in [Conns -> ConnType] /\ Frames(stack)
  BY DEF TypeInv, ConnsOK
<1>1. Len(stack') <= 1
  BY <1>0, <1>a, KeepFrames DEF WatchInv
<1>2. ASSUME Live(table)'
      PROVE  /\ table' = table /\ Live(table)
             /\ conn'[table].ready => conn[table].ready \/ conn'[table].watch # "off" \/ watches = {}
             /\ conn[table].watch # "off" => conn'[table].watch # "off"
  <2>1. CASE table' = c
    <3>1. conn'[c] = k /\ k.proc = "live" /\ conn[c].proc = "live" /\ table' = table
      BY <1>2, <1>a, <2>1, ConstantFacts DEF Alters, Live, Unregister
    <3> QED
      BY <1>2, <2>1, <3>1 DEF Live
  <2>2. CASE table' # c
    <3>1. table' = table
      BY <1>2, <2>2 DEF Alters, Unregister, Live
    <3>2. conn'[table] = conn[table]
      BY <1>a, <2>2, <3>1 DEF Alters
    <3> QED
      BY <1>2, <3>1, <3>2 DEF Live
  <2> QED
    BY <2>1, <2>2
<1>3. ASSUME stack' # <<>>, Top'.op = "watch", Live(table)'
      PROVE  table' = Top'.conn /\ conn'[table'].watch # "off"
  BY <1>0, <1>2, <1>3, <1>a, KeepFrames DEF WatchInv
<1>4. ASSUME Live(table)', conn'[table'].ready, watches' # {}
      PROVE  conn'[table'].watch # "off"
  BY <1>0, <1>2, <1>4 DEF WatchInv
<1> QED
  BY <1>1, <1>3, <1>4 DEF WatchInv

\* A connection just made is not ready, and is watched by nobody yet.
LEMMA OpensWatch ==
  ASSUME TypeInv, NEW k \in ConnType, Opens(k), ~k.ready, Len(stack') <= 1,
         stack' # <<>> => Top'.op = "connect"
  PROVE  WatchInv'
<1>1. started + 1 \in Conns /\ conn \in [Conns -> ConnType]
  BY ConstantFacts DEF TypeInv, ConnsOK, CountsOK, Opens, Conns
<1>2. Live(table)' => conn'[table'] = k
  BY <1>1 DEF Opens, Live
<1> QED
  BY <1>2 DEF WatchInv

\* Actions on one connection object.
LEMMA ObjectsWatch ==
  ASSUME TypeInv, WatchInv, NEW c \in Conns,
         HelloDone(c) \/ HelloTimeout(c) \/ HelloReply(c) \/ Die(c) \/ Sentinel(c)
  PROVE  WatchInv'
<1>a. conn \in [Conns -> ConnType] /\ conn[c] \in ConnType
  BY DEF TypeInv, ConnsOK
<1>1. CASE HelloDone(c)
  <2> DEFINE handled == [conn[c] EXCEPT !.waiters = {}, !.hello = "done"]
             ready == [handled EXCEPT !.ready = TRUE]
             signalled == [ready EXCEPT !.hello = "signalled"]
  <2>1. /\ handled \in ConnType /\ ready \in ConnType /\ signalled \in ConnType
        /\ handled.proc = conn[c].proc /\ ready.proc = conn[c].proc /\ ready.watch = conn[c].watch
        /\ signalled.proc = conn[c].proc
    BY <1>a DEF ConnType
  <2>k. ASSUME NEW k \in Rewatched(ready)
        PROVE  watches # {} \/ conn[c].watch # "off" => k.watch # "off"
    BY <2>1, <2>k, RewatchedType
  <2>2. /\ \A k \in Rewatched(ready) : k \in ConnType /\ k.proc = conn[c].proc
        /\ Closed(handled) \in ConnType /\ Closed(handled).proc = "gone"
    BY <2>1, RewatchedType, ClosedType
  <2>3. UNCHANGED <<use, watches>> /\ (stack' = stack \/ stack' = Failed(c, stack))
    BY <1>1 DEF HelloDone
  <2>7. \/ \E k \in Rewatched(ready) : Alters(c, k)
        \/ Alters(c, signalled) /\ ~Live(c)
        \/ Alters(c, Closed(handled))
    BY <1>1, <2>1, <2>2 DEF HelloDone, Alters
  <2> HIDE DEF signalled
  <2> HIDE DEF ready
  <2> HIDE DEF handled
  <2>4. ASSUME NEW k \in Rewatched(ready), Alters(c, k) PROVE WatchInv'
    <3>1. k \in ConnType /\ (watches # {} \/ conn[c].watch # "off" => k.watch # "off")
      BY <2>2, <2>4, <2>k
    <3> QED
      BY <2>3, <2>4, <3>1, ObjectWatch
  <2>5. CASE Alters(c, signalled) /\ ~Live(c)
    <3>1. signalled.proc # "live"
      BY <2>1, <2>5, ConstantFacts DEF Live
    <3> QED
      BY <2>1, <2>3, <2>5, <3>1, ObjectWatch
  <2>6. CASE Alters(c, Closed(handled))
    BY <2>2, <2>3, <2>6, ObjectWatch
  <2> QED
    BY <2>4, <2>5, <2>6, <2>7
<1>2. CASE HelloTimeout(c) \/ HelloReply(c)
  <2>1. PICK h \in {"ok", "bad", "fail"} : conn' = [conn EXCEPT ![c].hello = h]
    BY <1>2 DEF HelloTimeout, HelloReply
  <2>2. PICK k : k = [conn[c] EXCEPT !.hello = h]
    OBVIOUS
  <2>3. k \in ConnType /\ k.proc = conn[c].proc /\ k.watch = conn[c].watch /\ k.ready = conn[c].ready
    BY <2>2, <1>a DEF ConnType
  <2>4. UNCHANGED <<use, watches>> /\ stack' = stack /\ table' = table
    BY <1>2 DEF HelloTimeout, HelloReply
  <2>5. Alters(c, k)
    BY <2>1, <2>2, <2>3, <2>4 DEF Alters
  <2> QED
    BY <2>3, <2>4, <2>5, ObjectWatch
<1>3. CASE Die(c)
  <2>1. PICK k : k = [conn[c] EXCEPT !.proc = "dead"]
    OBVIOUS
  <2>2. k \in ConnType /\ k.proc = "dead"
    BY <2>1, <1>a DEF ConnType
  <2>3. Alters(c, k) /\ UNCHANGED <<use, watches>> /\ stack' = stack
    BY <1>3, <2>1, <2>2 DEF Die, Alters
  <2> QED
    BY <2>2, <2>3, ObjectWatch
<1>4. CASE Sentinel(c)
  <2>1. Closed(conn[c]) \in ConnType /\ Closed(conn[c]).proc = "gone"
    BY <1>a, ClosedType
  <2>2. Alters(c, Closed(conn[c])) /\ UNCHANGED <<use, watches>> /\ stack' = Failed(c, stack)
    BY <1>4, <2>1 DEF Sentinel, Alters
  <2> QED
    BY <2>1, <2>2, ObjectWatch
<1> QED
  BY <1>1, <1>2, <1>3, <1>4

LEMMA WatchNext ==
  ASSUME TypeInv, LiveIsRegistered, WatchInv, [Next]_vars
  PROVE  WatchInv'
<1>u. use' = use
  BY DEF Next, vars, ConnectAsync, HelloDone, HelloTimeout, HelloReply, Die, Sentinel, FileOperation,
         AddWatch, ConnectDone, WatchDone, RemoveWatch, WatchReply
<1>0. SUFFICES ASSUME use # "nested" PROVE WatchInv'
  BY <1>u DEF WatchInv
<1>a. conn \in [Conns -> ConnType] /\ started \in Nat /\ stack \in Seq(FrameType) /\ Frames(stack)
  BY DEF TypeInv, ConnsOK, CountsOK, Frames
<1>b. /\ Len(stack) <= 1 /\ (stack # <<>> => Tail(stack) = <<>> /\ Failed(Top.conn, Tail(stack)) = <<>>)
      /\ LispRuns => stack = <<>>
  <2>1. Len(stack) <= 1 /\ (stack # <<>> => Tail(stack) = <<>>) /\ (LispRuns => stack = <<>>)
    BY <1>0, <1>a DEF WatchInv, LispRuns
  <2>2. \A c : Failed(c, <<>>) = <<>>
    BY DEF Failed
  <2> QED
    BY <2>1, <2>2
<1>1. ASSUME NEW w \in Waiters, ConnectAsync(w) PROVE WatchInv'
  <2>a. stack = <<>> /\ stack' = <<>> /\ UNCHANGED <<use, watches>> /\ Len(stack') <= 1
    BY <1>1, <1>b DEF ConnectAsync
  <2>1. CASE conn' = conn /\ table' = table
    BY <2>1, <2>a, <1>0 DEF WatchInv, Live
  <2>2. CASE Live(table) /\ conn' = [conn EXCEPT ![table].waiters = @ \cup {w}] /\ table' = table
    <3>1. PICK k : k = [conn[table] EXCEPT !.waiters = @ \cup {w}]
      OBVIOUS
    <3>2. /\ k \in ConnType /\ table \in Conns
          /\ k.proc = conn[table].proc /\ k.watch = conn[table].watch /\ k.ready = conn[table].ready
      BY <2>2, <3>1, LiveMade DEF ConnType
    <3>3. Alters(table, k)
      BY <2>2, <3>1, <3>2 DEF Alters
    <3> QED
      BY <2>a, <3>2, <3>3, ObjectWatch
  <2>3. CASE ~Live(table) /\ StartAsync(w)
    <3>1. PICK k \in ConnType : k = Opening("async", {w}) /\ k.proc = "live" /\ ~k.ready
      BY OpeningType
    <3>2. Opens(k)
      BY <2>3, <3>1 DEF StartAsync, Opens
    <3> QED
      BY <2>a, <3>1, <3>2, OpensWatch
  <2>4. CASE ~Live(table) /\ StartRefused(w)
    <3>1. Opening("async", {w}) \in ConnType /\ ~Opening("async", {w}).ready
      BY OpeningType
    <3>2. PICK k \in ConnType : k = Closed(Opening("async", {w})) /\ k.proc = "gone" /\ ~k.ready
      BY <3>1, ClosedType
    <3>3. CASE UNCHANGED <<started, conn, table>>
      BY <2>1, <3>3
    <3>4. CASE /\ started < MaxConns /\ started' = started + 1 /\ table' = None
               /\ conn' = [conn EXCEPT ![started'] = Closed(Opening("async", {w}))]
      <4>1. Opens(k)
        BY <2>4, <3>2, <3>4 DEF Opens
      <4> QED
        BY <2>a, <3>2, <4>1, OpensWatch
    <3> QED
      BY <2>4, <3>3, <3>4 DEF StartRefused
  <2> QED
    BY <1>1, <2>1, <2>2, <2>3, <2>4 DEF ConnectAsync
<1>2. ASSUME NEW then, NEW d, ~Live(table), Connect(then, d), stack = <<>> PROVE WatchInv'
  <2>1. PICK k \in ConnType : k = Opening("sync", {}) /\ k.proc = "live" /\ ~k.ready
    BY OpeningType
  <2>2. Opens(k)
    BY <1>2, <2>1 DEF Connect, Opens
  <2>3. PICK f : f = Frame("connect", started', then, d)
    OBVIOUS
  <2>4. stack' = <<f>>
    BY <1>2, <2>3 DEF Connect
  <2>5. Len(stack') = 1 /\ Top'.op = "connect"
    BY <2>3, <2>4 DEF Top, Frame
  <2> QED
    BY <2>1, <2>2, <2>5, OpensWatch
\* The request for a watch is the only blocking call, on the connection in use.
<1>3. ASSUME NEW c \in Conns, NEW k, NEW d, SendWatch(c, k, d, <<>>), table' = table, table = c,
             k \in ConnType
      PROVE  WatchInv'
  <2>o. PICK v \in {"on", "refused", "listed"}, e \in {"ok", "fail"} :
              /\ conn' = [conn EXCEPT ![c] = [k EXCEPT !.watch = v]]
              /\ stack' = <<[Frame("watch", c, "done", d) EXCEPT !.answer = e]>> \o <<>>
    BY <1>3, WatchedType DEF SendWatch, ConnType
  <2>1. PICK f : f = [Frame("watch", c, "done", d) EXCEPT !.answer = e]
    OBVIOUS
  <2>2. stack' = <<f>>
    BY <2>o, <2>1
  <2>3. Len(stack') = 1 /\ Top'.conn = c
    BY <2>1, <2>2 DEF Top, Frame
  <2>4. conn'[c].watch # "off"
    BY <1>3, <1>a, <2>o DEF ConnType
  <2> QED
    BY <1>3, <2>3, <2>4 DEF WatchInv
<1>4. CASE FileOperation
  BY <1>2, <1>4, <1>b DEF FileOperation
<1>5. CASE AddWatch
  <2>1. CASE Live(table) /\ SendWatch(table, conn[table], added', stack) /\ UNCHANGED <<started, table>>
    BY <2>1, <1>3, <1>5, <1>b, LiveMade DEF AddWatch
  <2> QED
    BY <1>2, <1>5, <1>b, <2>1 DEF AddWatch
<1>6. CASE ConnectDone
  <2>1. PICK c : c = Top.conn
    OBVIOUS
  <2>2. c \in Conns /\ conn[c] \in ConnType /\ Tail(stack) = <<>> /\ Failed(c, Tail(stack)) = <<>>
    BY <1>6, <1>b, <2>1, TopMade DEF ConnectDone
  <2>a. UNCHANGED <<use, watches>>
    BY <1>6 DEF ConnectDone
  <2> DEFINE opened == [conn[c] EXCEPT !.ready = TRUE, !.hello = "done"]
             closed == [Closed(conn[c]) EXCEPT !.hello = "done"]
  <2>3. opened \in ConnType /\ opened.proc = conn[c].proc /\ opened.watch = conn[c].watch
    BY <2>2 DEF ConnType
  <2>4. ASSUME NEW k \in Rewatched(opened)
        PROVE  /\ k \in ConnType /\ k.proc = conn[c].proc
               /\ watches # {} \/ conn[c].watch # "off" => k.watch # "off"
    BY <2>3, RewatchedType
  <2>5. closed \in ConnType /\ closed.proc = "gone"
    <3>1. Closed(conn[c]) \in ConnType /\ Closed(conn[c]).proc = "gone"
      BY <2>2, ClosedType
    <3> QED
      BY <3>1 DEF ConnType
  <2> HIDE DEF opened
  <2> HIDE DEF closed
  <2>b. ASSUME NEW k \in ConnType, Alters(c, k), stack' = <<>>,
               k.proc = "live" => k.watch # "off" \/ watches = {}
        PROVE  WatchInv'
    <3>1. ASSUME Live(table)', conn'[table'].ready, watches # {} PROVE conn'[table'].watch # "off"
      <4>1. CASE table' = c
        BY <2>b, <2>2, <3>1, <4>1, <1>a, ConstantFacts DEF Alters, Live
      <4>2. CASE table' # c
        <5>1. table' = table
          BY <2>b, <3>1, <4>2 DEF Alters, Unregister, Live
        <5>2. conn'[table] = conn[table]
          BY <1>a, <2>b, <4>2, <5>1 DEF Alters
        <5> QED
          BY <1>0, <3>1, <5>1, <5>2 DEF WatchInv, Live
      <4> QED
        BY <4>1, <4>2
    <3>2. Len(stack') <= 1
      BY <2>b
    <3> QED
      BY <2>a, <2>b, <3>1, <3>2 DEF WatchInv
  <2>6. ASSUME NEW k \in Rewatched(opened), SendWatch(c, k, Top.id, Tail(stack)), UNCHANGED table, Live(c)
        PROVE  WatchInv'
    <3>1. table = c
      BY <2>2, <2>6 DEF LiveIsRegistered, Live
    <3>2. k \in ConnType
      BY <2>4, <2>6
    <3> QED
      BY <2>2, <2>6, <3>1, <3>2, <1>3
  <2>7. ASSUME NEW k \in Rewatched(opened), conn' = [conn EXCEPT ![c] = k], UNCHANGED table, stack' = Tail(stack)
        PROVE  WatchInv'
    <3>k. k \in ConnType /\ k.proc = conn[c].proc /\ (watches # {} => k.watch # "off")
      BY <2>4, <2>7
    <3>1. Alters(c, k)
      BY <2>2, <2>7, <3>k DEF Alters
    <3> QED
      BY <2>2, <2>7, <3>k, <3>1, <2>b
  <2>8. CASE /\ conn' = [conn EXCEPT ![c] = opened] /\ UNCHANGED table
             /\ stack' = Tail(stack) /\ ~Live(c)
    <3>2. Alters(c, opened)
      BY <2>2, <2>3, <2>8 DEF Alters
    <3>3. opened.proc # "live"
      BY <2>2, <2>3, <2>8, ConstantFacts DEF Live
    <3> QED
      BY <2>2, <2>3, <2>8, <3>2, <3>3, <2>b
  <2>9. CASE /\ table' = Unregister(c) /\ conn' = [conn EXCEPT ![c] = [Closed(@) EXCEPT !.hello = "done"]]
             /\ stack' = Failed(c, Tail(stack))
    <3>1. Alters(c, closed)
      BY <2>2, <2>5, <2>9 DEF Alters, closed
    <3> QED
      BY <2>2, <2>5, <2>9, <3>1, <2>b
  <2> QED
    BY <1>6, <2>1, <2>6, <2>7, <2>8, <2>9 DEF ConnectDone, opened
<1>7. CASE WatchDone
  <2>1. stack' = <<>> /\ Len(stack') <= 1 /\ UNCHANGED <<conn, table>>
    BY <1>7, <1>b DEF WatchDone
  <2>2. Live(table) => conn[table].watch # "off"
    BY <1>0, <1>7 DEF WatchDone, WatchInv
  <2> QED
    BY <2>1, <2>2 DEF WatchInv, Live
<1>8. CASE RemoveWatch
  <2>1. stack' = <<>> /\ Len(stack') <= 1 /\ table' = table /\ watches' \subseteq watches
    BY <1>8, <1>b DEF RemoveWatch
  <2>2. watches' = {} \/ conn' = conn
    BY <1>8 DEF RemoveWatch
  <2> QED
    BY <2>1, <2>2, <1>0 DEF WatchInv, Live
<1>9. CASE WatchReply
  <2>1. PICK i \in DOMAIN stack : stack' = [stack EXCEPT ![i].reply = stack[i].answer]
    BY <1>9 DEF WatchReply
  <2>2. UNCHANGED <<conn, table, watches>>
    BY <1>9 DEF WatchReply
  <2>3. Len(stack) = 1 /\ i = 1 /\ stack # <<>> /\ Top = stack[1] /\ stack[1] \in FrameType
    <3>1. i \in 1 .. Len(stack) /\ Len(stack) \in Nat /\ Len(stack) <= 1
      BY <2>1, <1>a, <1>b
    <3>0. \A n \in Nat, j \in Int : j \in 1 .. n /\ n <= 1 => n = 1 /\ j = 1
      OBVIOUS
    <3>b. i \in Int
      BY <3>1
    <3>a. Len(stack) = 1 /\ i = 1
      BY <3>0, <3>1, <3>b
    <3>2. Len(stack) = 1 /\ i = 1 /\ stack # <<>>
      BY <3>a
    <3> QED
      BY <3>2, <1>a DEF Top
  <2>4. PICK f : f = [stack[1] EXCEPT !.reply = stack[1].answer]
    OBVIOUS
  <2>5. f \in FrameType /\ f.op = Top.op /\ f.conn = Top.conn
    BY <2>3, <2>4 DEF FrameType
  <2>6. stack' = [stack EXCEPT ![1] = f] /\ stack' \in Seq(FrameType) /\ Len(stack') = 1 /\ Head(stack') = f
    BY <2>1, <2>3, <2>4, <2>5, <1>a
  <2> QED
    BY <1>0, <2>2, <2>3, <2>5, <2>6 DEF WatchInv, Live, Top
<1>10. CASE UNCHANGED vars
  BY <1>10, <1>0 DEF vars, WatchInv, Live, Top
<1> QED
  BY <1>1, <1>4, <1>5, <1>6, <1>7, <1>8, <1>9, <1>10, ObjectsWatch DEF Next

\* Direct watches "survive any number of reconnects": whenever a descriptor is
\* registered, the server of a ready connection watches or has refused to, however
\* many processes die, unless a blocking operation starts while another one waits.
THEOREM WatchesStay == Spec => []WatchesSurvive
<1>1. Init => LiveIsRegistered /\ WatchInv
  BY ConstantFacts DEF Init, LiveIsRegistered, WatchInv, Live
<1>2. TypeInv /\ LiveIsRegistered /\ WatchInv /\ [Next]_vars => LiveIsRegistered' /\ WatchInv'
  BY LiveNext, WatchNext
<1>3. WatchInv => WatchesSurvive
  BY DEF WatchInv, WatchesSurvive
<1> QED
  BY <1>1, <1>2, <1>3, TypeInit, TypeNext, PTL DEF Spec

-----------------------------------------------------------------------------
(* Callers of relay-connect-async *)

LEMMA ListingAfter ==
  ASSUME conn \in [Conns -> ConnType], NEW c \in Conns, NEW k \in ConnType,
         conn' = [conn EXCEPT ![c] = k], conn[c].hello = "signalled" => k.hello = "signalled"
  PROVE  /\ \A v : Listing(v)' = IF v \in k.waiters THEN Listing(v) \cup {c} ELSE Listing(v) \ {c}
         /\ Signalled => Signalled'
         /\ k.hello = "signalled" => Signalled'
<1>1. conn'[c] = k /\ \A d \in Conns \ {c} : conn'[d] = conn[d]
  OBVIOUS
<1>2. \A v : Listing(v)' = IF v \in k.waiters THEN Listing(v) \cup {c} ELSE Listing(v) \ {c}
  BY <1>1 DEF Listing, Conns
<1>3. (Signalled => Signalled') /\ (k.hello = "signalled" => Signalled')
  BY <1>1 DEF Signalled, Conns
<1> QED
  BY <1>2, <1>3

LEMMA HandshakesAfter ==
  ASSUME conn \in [Conns -> ConnType], WaitersInv, NEW c \in Conns, NEW k \in ConnType,
         conn' = [conn EXCEPT ![c] = k], HandshakeOK(k)
  PROVE  \A d \in Conns : HandshakeOK(conn'[d])
<1>1. conn'[c] = k /\ \A d \in Conns \ {c} : conn'[d] = conn[d]
  OBVIOUS
<1> QED
  BY <1>1 DEF WaitersInv

\* An object changes and keeps its callers, tells all of them, or loses them.
LEMMA WaitersObject ==
  ASSUME TypeInv, WaitersInv, UNCHANGED <<asked, refusals>>,
         NEW c \in Conns, NEW k \in ConnType, conn' = [conn EXCEPT ![c] = k], HandshakeOK(k),
         conn[c].hello = "signalled" => k.hello = "signalled",
         \/ told' = told /\ k.waiters = conn[c].waiters
         \/ told' = Notified(conn[c].waiters) /\ k.waiters = {}
         \/ told' = told /\ k.waiters = {} /\ k.hello = "signalled"
  PROVE  WaitersInv'
<1>a. conn \in [Conns -> ConnType] /\ told \in [Waiters -> Nat] /\ asked \subseteq Waiters
  BY DEF TypeInv, ConnsOK, CountsOK
<1>1. \A d \in Conns : HandshakeOK(conn'[d])
  BY <1>a, HandshakesAfter
<1>2. /\ \A v : Listing(v)' = IF v \in k.waiters THEN Listing(v) \cup {c} ELSE Listing(v) \ {c}
      /\ Signalled => Signalled'
      /\ k.hello = "signalled" => Signalled'
  BY <1>a, ListingAfter
<1>3. \A v : v \in conn[c].waiters <=> c \in Listing(v)
  BY DEF Listing
<1>4. ASSUME NEW v \in Waiters
      PROVE  \/ told'[v] = told[v] /\ Listing(v)' = Listing(v)
             \/ c \in Listing(v) /\ told'[v] = told[v] + 1 /\ Listing(v)' = Listing(v) \ {c}
             \/ c \in Listing(v) /\ told'[v] = told[v] /\ Listing(v)' = Listing(v) \ {c} /\ Signalled'
  <2>1. CASE told' = told /\ k.waiters = conn[c].waiters
    BY <1>2, <1>3, <2>1
  <2>2. CASE told' = Notified(conn[c].waiters) /\ k.waiters = {}
    <3>1. told'[v] = IF v \in conn[c].waiters THEN told[v] + 1 ELSE told[v]
      BY <1>a, <2>2, NotifiedType
    <3> QED
      BY <1>2, <1>3, <2>2, <3>1
  <2>3. CASE told' = told /\ k.waiters = {} /\ k.hello = "signalled"
    <3>1. told'[v] = told[v] /\ Listing(v)' = Listing(v) \ {c} /\ Signalled'
      BY <1>2, <2>3
    <3> QED
      BY <3>1
  <2> QED
    BY <2>1, <2>2, <2>3
<1>5. \A v \in Waiters \ asked' : told'[v] = 0 /\ Listing(v)' = {}
  <2>1. SUFFICES ASSUME NEW v \in Waiters \ asked PROVE told'[v] = 0 /\ Listing(v)' = {}
    OBVIOUS
  <2>2. told[v] = 0 /\ Listing(v) = {}
    BY <2>1 DEF WaitersInv
  <2> QED
    BY <1>4, <2>2
<1>6. ASSUME refusals = 0, NEW v \in asked
      PROVE  \/ told'[v] = 1 /\ Listing(v)' = {}
             \/ told'[v] = 0 /\ \E e \in Conns : Listing(v)' = {e}
             \/ told'[v] = 0 /\ Listing(v)' = {} /\ Signalled'
  <2>1. v \in Waiters /\ told[v] \in Nat
    BY <1>a, <1>6
  <2>2. \/ told[v] = 1 /\ Listing(v) = {}
        \/ told[v] = 0 /\ \E e \in Conns : Listing(v) = {e}
        \/ told[v] = 0 /\ Listing(v) = {} /\ Signalled
    BY <1>6 DEF WaitersInv, Counted
  <2>3. CASE told'[v] = told[v] /\ Listing(v)' = Listing(v)
    BY <1>2, <2>2, <2>3
  <2>4. CASE c \in Listing(v) /\ told'[v] = told[v] + 1 /\ Listing(v)' = Listing(v) \ {c}
    <3>1. told[v] = 0 /\ Listing(v) = {c}
      BY <2>2, <2>4
    <3> QED
      BY <2>4, <3>1
  <2>5. CASE c \in Listing(v) /\ told'[v] = told[v] /\ Listing(v)' = Listing(v) \ {c} /\ Signalled'
    <3>1. told[v] = 0 /\ Listing(v) = {c}
      BY <2>2, <2>5
    <3> QED
      BY <2>5, <3>1
  <2> QED
    BY <1>4, <2>1, <2>3, <2>4, <2>5
<1> QED
  BY <1>1, <1>5, <1>6 DEF WaitersInv, HandshakeOK, Counted, Conns

\* A caller is put on the list of one object, old or new.
LEMMA WaitersListed ==
  ASSUME TypeInv, WaitersInv, NEW w \in Waiters \ asked, asked' = asked \cup {w},
         NEW c \in Conns, NEW k \in ConnType, conn' = [conn EXCEPT ![c] = k], HandshakeOK(k),
         conn[c].hello = "signalled" => k.hello = "signalled", k.waiters = conn[c].waiters \cup {w},
         \/ told' = told /\ refusals' = refusals
         \/ told' = Notified({w}) /\ refusals' = refusals + 1
  PROVE  WaitersInv'
<1>a. /\ conn \in [Conns -> ConnType] /\ told \in [Waiters -> Nat] /\ asked \subseteq Waiters
      /\ refusals \in Nat
  BY ConnectionAssumption DEF TypeInv, ConnsOK, CountsOK
<1>1. \A d \in Conns : HandshakeOK(conn'[d])
  BY <1>a, HandshakesAfter
<1>2. /\ \A v : Listing(v)' = IF v \in k.waiters THEN Listing(v) \cup {c} ELSE Listing(v) \ {c}
      /\ Signalled => Signalled'
  BY <1>a, ListingAfter
<1>3. \A v : v \in conn[c].waiters <=> c \in Listing(v)
  BY DEF Listing
<1>4. told[w] = 0 /\ Listing(w) = {}
  BY DEF WaitersInv
<1>5. Listing(w)' = {c} /\ \A v \in Waiters \ {w} : Listing(v)' = Listing(v)
  BY <1>2, <1>3, <1>4
<1>6. \A v \in Waiters \ {w} : told'[v] = told[v]
  BY <1>a, NotifiedType
<1>7. \A v \in Waiters \ asked' : told'[v] = 0 /\ Listing(v)' = {}
  BY <1>5, <1>6 DEF WaitersInv
<1>8. ASSUME refusals' = 0, NEW v \in asked'
      PROVE  \/ told'[v] = 1 /\ Listing(v)' = {}
             \/ told'[v] = 0 /\ \E e \in Conns : Listing(v)' = {e}
             \/ told'[v] = 0 /\ Listing(v)' = {} /\ Signalled'
  <2>1. refusals = 0 /\ told' = told
    BY <1>a, <1>8
  <2>2. CASE v = w
    BY <1>4, <1>5, <2>1, <2>2
  <2>3. CASE v # w
    <3>1. v \in asked /\ v \in Waiters \ {w}
      BY <1>8, <1>a, <2>3
    <3>2. \/ told[v] = 1 /\ Listing(v) = {}
          \/ told[v] = 0 /\ \E e \in Conns : Listing(v) = {e}
          \/ told[v] = 0 /\ Listing(v) = {} /\ Signalled
      BY <2>1, <3>1 DEF WaitersInv, Counted
    <3> QED
      BY <1>2, <1>5, <2>1, <3>1, <3>2
  <2> QED
    BY <2>2, <2>3
<1> QED
  BY <1>1, <1>7, <1>8 DEF WaitersInv, HandshakeOK, Counted, Conns

\* No object changes; at most, a caller is told at once.
LEMMA WaitersElse ==
  ASSUME TypeInv, WaitersInv, conn' = conn,
         \/ UNCHANGED <<asked, told, refusals>>
         \/ \E w \in Waiters \ asked : /\ asked' = asked \cup {w} /\ told' = Notified({w})
                                       /\ refusals' = refusals \/ refusals' = refusals + 1
  PROVE  WaitersInv'
<1>a. told \in [Waiters -> Nat] /\ asked \subseteq Waiters /\ refusals \in Nat
  BY ConnectionAssumption DEF TypeInv, CountsOK
<1>1. (\A v : Listing(v)' = Listing(v)) /\ Signalled' = Signalled
  BY DEF Listing, Signalled, Conns
<1>2. CASE UNCHANGED <<asked, told, refusals>>
  BY <1>1, <1>2 DEF WaitersInv, HandshakeOK, Counted, Conns
<1>3. ASSUME NEW w \in Waiters \ asked, asked' = asked \cup {w}, told' = Notified({w}),
             refusals' = refusals \/ refusals' = refusals + 1
      PROVE  WaitersInv'
  <2>1. told[w] = 0 /\ Listing(w) = {}
    BY DEF WaitersInv
  <2>2. told'[w] = 1 /\ \A v \in Waiters \ {w} : told'[v] = told[v]
    BY <1>3, <1>a, <2>1, NotifiedType
  <2>3. \A v \in Waiters \ asked' : told'[v] = 0 /\ Listing(v)' = {}
    BY <1>1, <1>3, <2>2 DEF WaitersInv
  <2>4. ASSUME refusals' = 0, NEW v \in asked'
        PROVE  \/ told'[v] = 1 /\ Listing(v)' = {}
               \/ told'[v] = 0 /\ \E e \in Conns : Listing(v)' = {e}
               \/ told'[v] = 0 /\ Listing(v)' = {} /\ Signalled'
    <3>1. refusals = 0
      BY <1>a, <1>3, <2>4
    <3>2. CASE v = w
      BY <1>1, <2>1, <2>2, <3>2
    <3>3. CASE v # w
      <4>1. v \in asked /\ v \in Waiters \ {w}
        BY <1>3, <1>a, <2>4, <3>3
      <4>2. \/ told[v] = 1 /\ Listing(v) = {}
            \/ told[v] = 0 /\ \E e \in Conns : Listing(v) = {e}
            \/ told[v] = 0 /\ Listing(v) = {} /\ Signalled
        BY <3>1, <4>1 DEF WaitersInv, Counted
      <4> QED
        BY <1>1, <2>2, <4>1, <4>2
    <3> QED
      BY <3>2, <3>3
  <2>5. \A d \in Conns : HandshakeOK(conn'[d])
    BY DEF WaitersInv
  <2> QED
    BY <2>3, <2>4, <2>5 DEF WaitersInv, HandshakeOK, Counted, Conns
<1> QED
  BY <1>2, <1>3

LEMMA WaitersJoin ==
  ASSUME TypeInv, WaitersInv, NEW w \in Waiters, ConnectAsync(w)
  PROVE  WaitersInv'
<1>a. conn \in [Conns -> ConnType] /\ ConnsOK /\ started \in Nat
  BY DEF TypeInv, ConnsOK, CountsOK
<1>b. w \in Waiters \ asked /\ asked' = asked \cup {w}
  BY DEF ConnectAsync
<1>1. CASE /\ told' = Notified({w}) /\ conn' = conn
           /\ refusals' = refusals \/ refusals' = refusals + 1
  BY <1>1, <1>b, WaitersElse
<1>2. CASE /\ Live(table) /\ ~conn[table].ready /\ UNCHANGED <<told, refusals>>
           /\ conn' = [conn EXCEPT ![table].waiters = @ \cup {w}]
  <2>1. PICK k : k = [conn[table] EXCEPT !.waiters = @ \cup {w}]
    OBVIOUS
  <2>2. /\ table \in Conns /\ k \in ConnType /\ k.waiters = conn[table].waiters \cup {w}
        /\ k.mode = conn[table].mode /\ k.hello = conn[table].hello /\ k.ready = conn[table].ready
        /\ k.proc = "live" /\ conn[table].proc = "live"
    BY <1>2, <2>1, LiveMade DEF ConnType
  <2>3. HandshakeOK(conn[table])
    BY <2>2 DEF WaitersInv
  <2>4. HandshakeOK(k)
    BY <1>2, <2>2, <2>3 DEF HandshakeOK
  <2>5. conn' = [conn EXCEPT ![table] = k]
    BY <1>2, <2>1
  <2> QED
    BY <1>2, <1>b, <2>2, <2>4, <2>5, WaitersListed
\* A new object has the caller as its only one.
<1>3. ASSUME NEW k \in ConnType, k.waiters = {w}, k.hello \in {"sent", "fail"},
             started < MaxConns, conn' = [conn EXCEPT ![started + 1] = k],
             \/ told' = told /\ refusals' = refusals
             \/ told' = Notified({w}) /\ refusals' = refusals + 1
      PROVE  WaitersInv'
  <2>1. started + 1 \in Conns /\ conn[started + 1] = Unused
    BY <1>a, <1>3, ConstantFacts DEF ConnsOK, Conns
  <2>2. conn[started + 1].waiters = {} /\ conn[started + 1].hello = "done"
    BY <2>1 DEF Unused
  <2>3. HandshakeOK(k)
    BY <1>3 DEF HandshakeOK
  <2>4. k.waiters = conn[started + 1].waiters \cup {w}
    BY <1>3, <2>2
  <2> QED
    BY <1>3, <1>b, <2>1, <2>2, <2>3, <2>4, WaitersListed
<1>4. CASE StartAsync(w)
  <2>1. PICK k \in ConnType : k = Opening("async", {w}) /\ k.waiters = {w} /\ k.hello = "sent"
    BY OpeningType
  <2>2. started < MaxConns /\ conn' = [conn EXCEPT ![started + 1] = k] /\ UNCHANGED <<told, refusals>>
    BY <1>4, <2>1 DEF StartAsync
  <2> QED
    BY <2>1, <2>2, <1>3
<1>5. CASE /\ told' = Notified({w}) /\ refusals' = refusals + 1
           /\ started < MaxConns /\ conn' = [conn EXCEPT ![started + 1] = Closed(Opening("async", {w}))]
  <2>1. Opening("async", {w}) \in ConnType
    BY OpeningType
  <2>2. PICK k \in ConnType : k = Closed(Opening("async", {w})) /\ k.waiters = {w} /\ k.hello = "fail"
    BY <2>1, OpeningType, ClosedType
  <2> QED
    BY <1>5, <2>2, <1>3
<1>6. CASE StartRefused(w)
  BY <1>1, <1>5, <1>6 DEF StartRefused
<1> QED
  BY <1>1, <1>2, <1>4, <1>6 DEF ConnectAsync

\* Steps of one handshake.
LEMMA WaitersHandshake ==
  ASSUME TypeInv, WaitersInv, NEW c \in Conns,
         HelloDone(c) \/ HelloTimeout(c) \/ HelloReply(c) \/ Die(c) \/ Sentinel(c)
  PROVE  WaitersInv'
<1>a. conn \in [Conns -> ConnType] /\ conn[c] \in ConnType /\ HandshakeOK(conn[c])
  BY DEF TypeInv, ConnsOK, WaitersInv
<1>b. UNCHANGED <<asked, refusals>>
  BY DEF HelloDone, HelloTimeout, HelloReply, Die, Sentinel
<1>2. CASE HelloDone(c)
  <2> DEFINE handled == [conn[c] EXCEPT !.waiters = {}, !.hello = "done"]
             ready == [handled EXCEPT !.ready = TRUE]
             signalled == [ready EXCEPT !.hello = "signalled"]
  <2>1. /\ handled \in ConnType /\ ready \in ConnType /\ signalled \in ConnType
        /\ handled.waiters = {} /\ ready.waiters = {} /\ signalled.waiters = {}
        /\ handled.mode = conn[c].mode /\ handled.hello = "done"
        /\ ready.mode = conn[c].mode /\ ready.hello = "done" /\ ready.ready
        /\ signalled.mode = conn[c].mode /\ signalled.hello = "signalled" /\ signalled.ready
    BY <1>a DEF ConnType
  <2>k. ASSUME NEW k \in Rewatched(ready)
        PROVE  /\ k \in ConnType /\ k.waiters = {} /\ k.ready /\ k.hello = "done"
    BY <2>1, <2>k, RewatchedType
  <2>2. /\ Closed(handled) \in ConnType /\ Closed(handled).waiters = {}
        /\ Closed(handled).hello = "done" /\ Closed(handled).proc = "gone"
    BY <2>1, ClosedType
  <2>3. /\ conn[c].hello # "signalled" /\ conn[c].mode = "async"
        /\ \/ \E k \in Rewatched(ready) :
                told' = Notified(conn[c].waiters) /\ conn' = [conn EXCEPT ![c] = k]
           \/ told' = told /\ conn' = [conn EXCEPT ![c] = signalled]
           \/ told' = Notified(conn[c].waiters) /\ conn' = [conn EXCEPT ![c] = Closed(handled)]
    BY <1>2 DEF HelloDone, HelloQueued
  <2> HIDE DEF signalled
  <2> HIDE DEF ready
  <2> HIDE DEF handled
  <2>4. ASSUME NEW k \in Rewatched(ready), told' = Notified(conn[c].waiters), conn' = [conn EXCEPT ![c] = k]
        PROVE  WaitersInv'
    <3>1. k \in ConnType /\ k.waiters = {} /\ HandshakeOK(k)
      BY <2>4, <2>k DEF HandshakeOK
    <3> QED
      BY <1>b, <2>3, <2>4, <3>1, WaitersObject
  <2>5. CASE told' = told /\ conn' = [conn EXCEPT ![c] = signalled]
    <3>1. HandshakeOK(signalled)
      BY <2>1, <2>3 DEF HandshakeOK
    <3> QED
      BY <1>b, <2>1, <2>3, <2>5, <3>1, WaitersObject
  <2>6. CASE told' = Notified(conn[c].waiters) /\ conn' = [conn EXCEPT ![c] = Closed(handled)]
    <3>1. HandshakeOK(Closed(handled))
      BY <2>2 DEF HandshakeOK
    <3> QED
      BY <1>b, <2>2, <2>3, <2>6, <3>1, WaitersObject
  <2> QED
    BY <2>3, <2>4, <2>5, <2>6
<1>3. CASE HelloTimeout(c) \/ HelloReply(c)
  <2>1. PICK h \in {"ok", "bad", "fail"} : conn' = [conn EXCEPT ![c].hello = h]
    BY <1>3 DEF HelloTimeout, HelloReply
  <2>2. PICK k : k = [conn[c] EXCEPT !.hello = h]
    OBVIOUS
  <2>3. k \in ConnType /\ k.hello \in {"ok", "bad", "fail"} /\ k.waiters = conn[c].waiters
    BY <2>2, <1>a DEF ConnType
  <2>4. told' = told /\ conn[c].hello = "sent" /\ conn' = [conn EXCEPT ![c] = k]
    BY <1>3, <2>1, <2>2 DEF HelloTimeout, TimedOut, HelloReply
  <2>5. HandshakeOK(k)
    BY <2>3 DEF HandshakeOK
  <2> QED
    BY <1>b, <2>3, <2>4, <2>5, WaitersObject
<1>4. CASE Die(c)
  <2>1. PICK k : k = [conn[c] EXCEPT !.proc = "dead"]
    OBVIOUS
  <2>2. /\ k \in ConnType /\ k.proc = "dead" /\ k.mode = conn[c].mode /\ k.waiters = conn[c].waiters
        /\ k.hello = conn[c].hello
    BY <2>1, <1>a DEF ConnType
  <2>3. told' = told /\ conn' = [conn EXCEPT ![c] = k]
    BY <1>4, <2>1 DEF Die
  <2>4. HandshakeOK(k)
    BY <1>a, <2>2 DEF HandshakeOK
  <2> QED
    BY <1>b, <2>2, <2>3, <2>4, WaitersObject
<1>5. CASE Sentinel(c)
  <2>1. PICK k \in ConnType :
           /\ k = Closed(conn[c]) /\ k.proc = "gone" /\ k.mode = conn[c].mode
           /\ k.waiters = conn[c].waiters
           /\ k.hello = IF conn[c].hello = "sent" THEN "fail" ELSE conn[c].hello
    BY <1>a, ClosedType
  <2>2. told' = told /\ conn' = [conn EXCEPT ![c] = k]
    BY <1>5, <2>1 DEF Sentinel
  <2>3. HandshakeOK(k)
    BY <1>a, <2>1 DEF HandshakeOK
  <2> QED
    BY <1>b, <2>1, <2>2, <2>3, WaitersObject
<1> QED
  BY <1>2, <1>3, <1>4, <1>5

\* Blocking operations tell nobody, and take nobody from a list.
LEMMA WaitersBlocking ==
  ASSUME TypeInv, WaitersInv, FileOperation \/ AddWatch \/ ConnectDone \/ RemoveWatch
  PROVE  WaitersInv'
<1>a. conn \in [Conns -> ConnType] /\ ConnsOK /\ started \in Nat
  BY DEF TypeInv, ConnsOK, CountsOK
<1>b. UNCHANGED <<asked, refusals, told>>
  BY DEF FileOperation, AddWatch, ConnectDone, RemoveWatch
<1>c. \A d \in Conns : HandshakeOK(conn[d])
  BY DEF WaitersInv
<1>1. ASSUME NEW then, NEW d, Connect(then, d) PROVE WaitersInv'
  <2>1. PICK k \in ConnType : k = Opening("sync", {}) /\ k.waiters = {} /\ k.hello = "sent"
    BY OpeningType
  <2>2. started < MaxConns /\ conn' = [conn EXCEPT ![started + 1] = k]
    BY <1>1, <2>1 DEF Connect
  <2>3. started + 1 \in Conns /\ conn[started + 1] = Unused
    BY <1>a, <2>2, ConstantFacts DEF ConnsOK, Conns
  <2>4. conn[started + 1].waiters = {} /\ conn[started + 1].hello = "done"
    BY <2>3 DEF Unused
  <2>5. HandshakeOK(k)
    BY <2>1 DEF HandshakeOK
  <2> QED
    BY <1>b, <2>1, <2>2, <2>3, <2>4, <2>5, WaitersObject
\* Only the watch of an object changes, or it is one of a blocking handshake.
<1>2. ASSUME NEW c \in Conns, NEW k \in ConnType, conn' = [conn EXCEPT ![c] = k],
             k.mode = conn[c].mode, k.waiters = conn[c].waiters,
             \/ k.hello = conn[c].hello /\ k.proc = conn[c].proc /\ k.ready = conn[c].ready
             \/ k.mode = "sync" /\ k.hello = "done"
      PROVE  WaitersInv'
  <2>1. HandshakeOK(conn[c])
    BY <1>c
  <2>2. HandshakeOK(k) /\ (conn[c].hello = "signalled" => k.hello = "signalled")
    BY <1>2, <2>1 DEF HandshakeOK
  <2> QED
    BY <1>b, <1>2, <2>2, WaitersObject
<1>3. ASSUME NEW c \in Conns, NEW k \in ConnType, NEW d, NEW s, SendWatch(c, k, d, s),
             k.mode = conn[c].mode, k.waiters = conn[c].waiters,
             \/ k.hello = conn[c].hello /\ k.proc = conn[c].proc /\ k.ready = conn[c].ready
             \/ k.mode = "sync" /\ k.hello = "done"
      PROVE  WaitersInv'
  <2>o. PICK v \in {"on", "refused", "listed"} : conn' = [conn EXCEPT ![c] = [k EXCEPT !.watch = v]]
    BY <1>3, WatchedType DEF SendWatch, ConnType
  <2>1. PICK n : n = [k EXCEPT !.watch = v]
    OBVIOUS
  <2>2. /\ n \in ConnType /\ n.mode = k.mode /\ n.waiters = k.waiters /\ n.hello = k.hello
        /\ n.proc = k.proc /\ n.ready = k.ready
    BY <1>3, <2>o, <2>1 DEF ConnType
  <2> QED
    BY <1>2, <1>3, <2>o, <2>1, <2>2
<1>4. CASE FileOperation
  BY <1>1, <1>4 DEF FileOperation
<1>5. CASE AddWatch
  <2>1. CASE Live(table) /\ SendWatch(table, conn[table], added', stack)
    BY <2>1, <1>3, LiveMade
  <2> QED
    BY <1>1, <1>5, <2>1 DEF AddWatch
<1>6. CASE RemoveWatch
  <2>1. CASE conn' = conn
    BY <1>b, <2>1, WaitersElse
  <2>2. CASE Live(table) /\ conn' = [conn EXCEPT ![table].watch = "off"]
    <3>1. PICK k : k = [conn[table] EXCEPT !.watch = "off"]
      OBVIOUS
    <3>2. /\ table \in Conns /\ k \in ConnType /\ k.mode = conn[table].mode
          /\ k.waiters = conn[table].waiters /\ k.hello = conn[table].hello
          /\ k.proc = conn[table].proc /\ k.ready = conn[table].ready
      BY <2>2, <3>1, LiveMade DEF ConnType
    <3> QED
      BY <1>2, <2>2, <3>1, <3>2
  <2> QED
    BY <1>6, <2>1, <2>2 DEF RemoveWatch
<1>7. CASE ConnectDone
  <2>1. PICK c : c = Top.conn
    OBVIOUS
  <2>2. c \in Conns /\ conn[c] \in ConnType /\ conn[c].mode = "sync"
    BY <1>7, <2>1, TopMade DEF ConnectDone, FrameOK
  <2> DEFINE opened == [conn[c] EXCEPT !.ready = TRUE, !.hello = "done"]
             closed == [Closed(conn[c]) EXCEPT !.hello = "done"]
  <2>3. /\ opened \in ConnType /\ opened.mode = "sync" /\ opened.hello = "done"
        /\ opened.waiters = conn[c].waiters
    BY <2>2 DEF ConnType
  <2>4. ASSUME NEW k \in Rewatched(opened)
        PROVE  k \in ConnType /\ k.mode = "sync" /\ k.hello = "done" /\ k.waiters = conn[c].waiters
    BY <2>3, RewatchedType
  <2>5. /\ closed \in ConnType /\ closed.mode = "sync" /\ closed.hello = "done"
        /\ closed.waiters = conn[c].waiters
    <3>1. /\ Closed(conn[c]) \in ConnType /\ Closed(conn[c]).mode = "sync"
          /\ Closed(conn[c]).waiters = conn[c].waiters
      BY <2>2, ClosedType
    <3> QED
      BY <3>1 DEF ConnType
  <2>6. \/ \E k \in Rewatched(opened) : SendWatch(c, k, Top.id, Tail(stack))
        \/ \E k \in Rewatched(opened) : conn' = [conn EXCEPT ![c] = k]
        \/ conn' = [conn EXCEPT ![c] = opened]
        \/ conn' = [conn EXCEPT ![c] = closed]
    BY <1>7, <2>1 DEF ConnectDone
  <2> HIDE DEF opened
  <2> HIDE DEF closed
  <2>7. ASSUME NEW k \in Rewatched(opened), SendWatch(c, k, Top.id, Tail(stack)) PROVE WaitersInv'
    <3>1. k \in ConnType /\ k.mode = "sync" /\ k.hello = "done" /\ k.waiters = conn[c].waiters
      BY <2>4, <2>7
    <3> QED
      BY <1>3, <2>2, <2>7, <3>1
  <2>8. ASSUME NEW k \in Rewatched(opened), conn' = [conn EXCEPT ![c] = k] PROVE WaitersInv'
    <3>1. k \in ConnType /\ k.mode = "sync" /\ k.hello = "done" /\ k.waiters = conn[c].waiters
      BY <2>4, <2>8
    <3> QED
      BY <1>2, <2>2, <2>8, <3>1
  <2>9. CASE conn' = [conn EXCEPT ![c] = opened]
    BY <1>2, <2>2, <2>3, <2>9
  <2>10. CASE conn' = [conn EXCEPT ![c] = closed]
    BY <1>2, <2>2, <2>5, <2>10
  <2> QED
    BY <2>6, <2>7, <2>8, <2>9, <2>10
<1> QED
  BY <1>4, <1>5, <1>6, <1>7

\* "completes the connection successfully and calls all waiters' on-ready
\* callbacks, or calls all waiters' on-error callbacks": in every session, blocking
\* operations and nested ones included, whoever called relay-connect-async has been
\* told once, or is on the list of exactly one handshake that is still to tell it;
\* except a caller that joined a blocking relay--connect, and the callers lost with
\* a process that died before its answer was handled.  Once a process could not be
\* started or sent to, nothing is said.
THEOREM WaitersTold == Spec => []WaitersAccounted
<1>1. Init => WaitersInv
  <2> SUFFICES ASSUME Init PROVE WaitersInv
    OBVIOUS
  <2>1. \A c \in Conns : conn[c] = Unused
    BY DEF Init
  <2>2. \A w : Listing(w) = {}
    BY <2>1 DEF Listing, Unused
  <2>3. \A c \in Conns : HandshakeOK(conn[c])
    BY <2>1 DEF HandshakeOK, Unused
  <2> QED
    BY <2>2, <2>3 DEF Init, WaitersInv
<1>2. TypeInv /\ WaitersInv /\ [Next]_vars => WaitersInv'
  <2> SUFFICES ASSUME TypeInv, WaitersInv, [Next]_vars PROVE WaitersInv'
    OBVIOUS
  <2>1. CASE WatchDone \/ WatchReply \/ UNCHANGED vars
    BY <2>1, WaitersElse DEF WatchDone, WatchReply, vars
  <2> QED
    BY <2>1, WaitersJoin, WaitersHandshake, WaitersBlocking DEF Next
<1>3. TypeInv /\ WaitersInv => WaitersAccounted
  <2> SUFFICES ASSUME TypeInv, WaitersInv, refusals = 0, NEW w \in asked
               PROVE  \/ told[w] = 1 /\ Listing(w) = {}
                      \/ /\ told[w] = 0
                         /\ \E c \in Conns : Listing(w) = {c} /\ (Stranded(w) \/ conn[c].hello # "done")
                      \/ told[w] = 0 /\ Listing(w) = {} /\ Signalled
    BY DEF WaitersAccounted
  <2>1. ASSUME NEW c \in Conns, Listing(w) = {c} PROVE Stranded(w) \/ conn[c].hello # "done"
    <3>1. w \in conn[c].waiters /\ HandshakeOK(conn[c])
      BY <2>1 DEF Listing, WaitersInv
    <3>2. conn[c].mode = "sync" => Stranded(w)
      BY <2>1 DEF Stranded
    <3>3. conn[c].mode \in {"sync", "async"}
      BY DEF TypeInv, ConnsOK, ConnType
    <3> QED
      BY <3>1, <3>2, <3>3 DEF HandshakeOK
  <2> QED
    BY <2>1 DEF WaitersInv, Counted
<1> QED
  BY <1>1, <1>2, <1>3, TypeInit, TypeNext, PTL DEF Spec
=============================================================================
