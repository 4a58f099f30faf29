-------------------------- MODULE ServerLoopProofs --------------------------
(***************************************************************************)
(* Proofs about ServerLoop for every pool of workers, every capacity of    *)
(* the two queues, every mix of frames and any number of requests, events  *)
(* and stuck workers.                                                      *)
(***************************************************************************)
EXTENDS ServerLoop, FiniteSetTheorems, SequenceTheorems, TLAPS

\* The number of frames read; they are numbered in the order they arrive.
Last == Cardinality(Read)

\* The main loop has request main.id in hand.
InHand == main.at \in {"hello", "watch", "replying", "queueing"}

Controls == {id \in Ids : kind[id] \in {"hello", "watch"}}

FrameType == [id : Nat, what : {"final", "chunk", "event"}]
MainType == [at : {"reading", "hello", "watch", "replying", "queueing", "ended"}, id : 0 .. MaxRequests]
WorkerType == [id : 0 .. MaxRequests, left : Seq(FrameType), stuck : BOOLEAN]

\* Frames read are the first ones; the request in hand is the latest.
LoopInv ==
  /\ kind \in [Ids -> Kinds \cup {"unread"}]
  /\ Last \in 0 .. MaxRequests /\ Read = 1 .. Last
  /\ main \in MainType
  /\ IF InHand THEN main.id = Last /\ Last # 0 ELSE main.id = None
  /\ main.at \in {"hello", "watch", "replying"} => main.id \in Controls
  /\ main.at = "queueing" => main.id \notin Controls
  /\ closed \in BOOLEAN /\ watcher \in BOOLEAN /\ writing \in BOOLEAN /\ events \in 0 .. MaxEvents

\* A request other than the one in hand, for the pool.
Pooled(id) == id \in Ids /\ id <= Last /\ id \notin Controls /\ (InHand => id # main.id)

JobsInv ==
  /\ jobs \in Seq(Ids) /\ Len(jobs) <= FS_JOB_QUEUE_CAPACITY
  /\ \A i \in 1 .. Len(jobs) : Pooled(jobs[i])
  /\ \A i, j \in 1 .. Len(jobs) : jobs[i] = jobs[j] => i = j

\* What a worker has yet to send for request id.
Leftover(id) == {<<>>, <<Final(id)>>, <<Chunk(id), Final(id)>>}

\* A request is in one place: in hand, queued once, or with one worker.
WorkersInv ==
  /\ worker \in [Workers -> WorkerType]
  /\ \A w \in Workers :
       IF worker[w].id = None THEN worker[w].left = <<>>
       ELSE /\ worker[w].left \in Leftover(worker[w].id) /\ Pooled(worker[w].id)
            /\ \A i \in 1 .. Len(jobs) : jobs[i] # worker[w].id
            /\ \A v \in Workers : worker[v].id = worker[w].id => v = w

\* With output o and finals g read by the client: the final reply to id has not
\* been sent; every frame belongs to a request that has been read; and
\* RepliesInOrder frame by frame, for the control requests c.
Fresh(o, g, id) == id \notin g /\ \A j \in 1 .. Len(o) : o[j].what = "final" => o[j].id # id

Numbered(o, n) ==
  \A j \in 1 .. Len(o) : IF o[j].what = "event" THEN o[j].id = None ELSE o[j].id \in 1 .. n

Ordered(o, g, c) ==
  \A j \in 1 .. Len(o) :
    /\ o[j].id \notin g
    /\ \A i \in 1 .. j - 1 : o[i].what = "final" => o[i].id # o[j].id
    /\ o[j].id \in c =>
         /\ \A e \in g \cap c : e < o[j].id
         /\ \A i \in 1 .. j - 1 : o[i].what = "final" /\ o[i].id \in c => o[i].id < o[j].id

QueuesOK ==
  /\ queue \in Seq(FrameType) /\ Len(queue) <= WRITER_QUEUE_CAPACITY
  /\ writer \in Seq(FrameType) /\ Len(writer) <= 1

SentInv ==
  /\ got \subseteq 1 .. Last /\ Numbered(Output, Last) /\ Ordered(Output, got, Controls)
  /\ InHand => Fresh(Output, got, main.id)
  /\ \A i \in 1 .. Len(jobs) : Fresh(Output, got, jobs[i])
  /\ \A w \in Workers : worker[w].left # <<>> => Fresh(Output, got, worker[w].id)

Inv == LoopInv /\ JobsInv /\ WorkersInv /\ QueuesOK /\ SentInv

-----------------------------------------------------------------------------
(* The output *)

LEMMA ConstantFacts ==
  /\ MaxRequests \in Nat /\ MaxEvents \in Nat /\ FS_JOB_QUEUE_CAPACITY \in Nat /\ WRITER_QUEUE_CAPACITY \in Nat
  /\ Ids \subseteq Nat /\ None \notin Ids /\ \A n : n \in Ids <=> n \in Nat /\ n # 0 /\ n <= MaxRequests
BY ServerLoopAssumption DEF Ids, None

LEMMA FrameTypes ==
  ASSUME NEW id \in Nat
  PROVE  /\ Final(id) \in FrameType /\ Final(id).id = id /\ Final(id).what = "final"
         /\ Chunk(id) \in FrameType /\ Chunk(id).id = id /\ Chunk(id).what = "chunk"
         /\ EventFrame \in FrameType /\ EventFrame.id = None /\ EventFrame.what = "event"
BY DEF Final, Chunk, EventFrame, FrameType, None

LEMMA LeftoverFacts ==
  ASSUME NEW id \in Nat, NEW left \in Leftover(id)
  PROVE  /\ left \in Seq(FrameType)
         /\ left # <<>> => /\ Head(left) \in {Final(id), Chunk(id)} /\ Tail(left) \in Leftover(id)
                           /\ Head(left) = Final(id) => Tail(left) = <<>>
<1>1. Final(id) \in FrameType /\ Chunk(id) \in FrameType /\ Final(id) # Chunk(id)
  BY FrameTypes
<1>2. CASE left = <<>>
  BY <1>2
<1>3. CASE left = <<Final(id)>>
  <2>1. Head(left) = Final(id) /\ Tail(left) = <<>> /\ left \in Seq(FrameType)
    BY <1>1, <1>3
  <2> QED
    BY <2>1 DEF Leftover
<1>4. CASE left = <<Chunk(id), Final(id)>>
  <2>1. Head(left) = Chunk(id) /\ left \in Seq(FrameType)
    BY <1>1, <1>4
  <2>2. Tail(left) = <<Final(id)>>
    BY <1>4
  <2> QED
    BY <1>1, <2>1, <2>2 DEF Leftover
<1> QED
  BY <1>2, <1>3, <1>4 DEF Leftover

LEMMA OutputType ==
  ASSUME QueuesOK
  PROVE  Output \in Seq(FrameType) /\ Len(Output) \in Nat
BY DEF QueuesOK, Output

LEMMA AppendFacts ==
  ASSUME NEW o \in Seq(FrameType), NEW f \in FrameType
  PROVE  /\ Append(o, f) \in Seq(FrameType) /\ Len(Append(o, f)) = Len(o) + 1 /\ Len(o) \in Nat
         /\ Append(o, f)[Len(o) + 1] = f /\ \A j \in 1 .. Len(o) : Append(o, f)[j] = o[j]
OBVIOUS

LEMMA TailFacts ==
  ASSUME NEW o \in Seq(FrameType), o # <<>>
  PROVE  /\ Tail(o) \in Seq(FrameType) /\ Len(Tail(o)) = Len(o) - 1 /\ Len(o) \in Nat /\ Len(o) >= 1
         /\ Head(o) = o[1] /\ Head(o) \in FrameType
         /\ \A j \in 1 .. Len(Tail(o)) : Tail(o)[j] = o[j + 1] /\ j + 1 \in 1 .. Len(o)
OBVIOUS

\* A frame joins the output.
LEMMA FreshAppend ==
  ASSUME NEW o \in Seq(FrameType), NEW f \in FrameType, NEW g, NEW id, Fresh(o, g, id),
         f.what = "final" => f.id # id
  PROVE  Fresh(Append(o, f), g, id)
<1>1. \A j \in 1 .. Len(o) + 1 : j \in 1 .. Len(o) \/ j = Len(o) + 1
  BY AppendFacts
<1> QED
  BY <1>1, AppendFacts DEF Fresh

LEMMA NumberedAppend ==
  ASSUME NEW o \in Seq(FrameType), NEW f \in FrameType, NEW n, Numbered(o, n),
         IF f.what = "event" THEN f.id = None ELSE f.id \in 1 .. n
  PROVE  Numbered(Append(o, f), n)
<1>1. \A j \in 1 .. Len(o) + 1 : j \in 1 .. Len(o) \/ j = Len(o) + 1
  BY AppendFacts
<1> QED
  BY <1>1, AppendFacts DEF Numbered

LEMMA OrderedAppend ==
  ASSUME NEW o \in Seq(FrameType), NEW f \in FrameType, NEW g, NEW c, Ordered(o, g, c), Fresh(o, g, f.id),
         f.id \in c => /\ \A e \in g \cap c : e < f.id
                       /\ \A i \in 1 .. Len(o) : o[i].what = "final" /\ o[i].id \in c => o[i].id < f.id
  PROVE  Ordered(Append(o, f), g, c)
<1> DEFINE t == Append(o, f)
<1>1. Len(t) = Len(o) + 1 /\ Len(o) \in Nat /\ t[Len(o) + 1] = f /\ \A j \in 1 .. Len(o) : t[j] = o[j]
  BY AppendFacts
<1> HIDE DEF t
<1>2. ASSUME NEW j \in 1 .. Len(o)
      PROVE  /\ t[j].id \notin g
             /\ \A i \in 1 .. j - 1 : t[i].what = "final" => t[i].id # t[j].id
             /\ t[j].id \in c =>
                  /\ \A e \in g \cap c : e < t[j].id
                  /\ \A i \in 1 .. j - 1 : t[i].what = "final" /\ t[i].id \in c => t[i].id < t[j].id
  <2>1. t[j] = o[j] /\ \A i \in 1 .. j - 1 : t[i] = o[i]
    BY <1>1
  <2> QED
    BY <2>1 DEF Ordered
<1>3. ASSUME NEW j, j = Len(o) + 1
      PROVE  /\ t[j].id \notin g
             /\ \A i \in 1 .. j - 1 : t[i].what = "final" => t[i].id # t[j].id
             /\ t[j].id \in c =>
                  /\ \A e \in g \cap c : e < t[j].id
                  /\ \A i \in 1 .. j - 1 : t[i].what = "final" /\ t[i].id \in c => t[i].id < t[j].id
  <2>1. t[j] = f /\ j - 1 = Len(o)
    BY <1>1, <1>3
  <2> QED
    BY <1>1, <2>1 DEF Fresh
<1>4. \A j \in 1 .. Len(t) : j \in 1 .. Len(o) \/ j = Len(o) + 1
  BY <1>1
<1>5. Ordered(t, g, c)
  BY <1>2, <1>3, <1>4 DEF Ordered
<1> QED
  BY <1>5 DEF t

\* The first frame of the output reaches the client.
GotAfter(o, g) == IF Head(o).what = "final" THEN g \cup {Head(o).id} ELSE g

LEMMA FreshTail ==
  ASSUME NEW o \in Seq(FrameType), o # <<>>, NEW g, NEW id, Fresh(o, g, id)
  PROVE  Fresh(Tail(o), GotAfter(o, g), id)
<1>1. 1 \in 1 .. Len(o) /\ Head(o) = o[1]
  BY TailFacts
<1>2. id \notin GotAfter(o, g)
  BY <1>1 DEF GotAfter, Fresh
<1> QED
  BY <1>2, TailFacts DEF Fresh

LEMMA OrderedTail ==
  ASSUME NEW o \in Seq(FrameType), o # <<>>, NEW g, NEW c, Ordered(o, g, c)
  PROVE  Ordered(Tail(o), GotAfter(o, g), c)
<1> DEFINE t == Tail(o)
           h == GotAfter(o, g)
<1>1. /\ Len(t) = Len(o) - 1 /\ Len(o) \in Nat /\ Head(o) = o[1]
      /\ \A j \in 1 .. Len(t) : t[j] = o[j + 1] /\ j + 1 \in 1 .. Len(o)
  BY TailFacts
<1>2. \A e \in h : e \in g \/ (o[1].what = "final" /\ e = o[1].id)
  BY <1>1 DEF GotAfter
<1> HIDE DEF t, h
<1>3. ASSUME NEW j \in 1 .. Len(t)
      PROVE  /\ t[j].id \notin h
             /\ \A i \in 1 .. j - 1 : t[i].what = "final" => t[i].id # t[j].id
             /\ t[j].id \in c =>
                  /\ \A e \in h \cap c : e < t[j].id
                  /\ \A i \in 1 .. j - 1 : t[i].what = "final" /\ t[i].id \in c => t[i].id < t[j].id
  <2>1. t[j] = o[j + 1] /\ j + 1 \in 1 .. Len(o) /\ 1 \in 1 .. (j + 1) - 1
    BY <1>1
  <2>2. \A i \in 1 .. j - 1 : t[i] = o[i + 1] /\ i + 1 \in 1 .. (j + 1) - 1
    BY <1>1
  <2>3. /\ o[j + 1].id \notin g
        /\ \A i \in 1 .. (j + 1) - 1 : o[i].what = "final" => o[i].id # o[j + 1].id
        /\ o[j + 1].id \in c =>
             /\ \A e \in g \cap c : e < o[j + 1].id
             /\ \A i \in 1 .. (j + 1) - 1 : o[i].what = "final" /\ o[i].id \in c => o[i].id < o[j + 1].id
    BY <2>1 DEF Ordered
  <2> QED
    BY <1>2, <2>1, <2>2, <2>3
<1>4. Ordered(t, h, c)
  BY <1>3 DEF Ordered
<1> QED
  BY <1>4 DEF t, h

LEMMA NumberedTail ==
  ASSUME NEW o \in Seq(FrameType), o # <<>>, NEW n, Numbered(o, n)
  PROVE  Numbered(Tail(o), n)
BY TailFacts DEF Numbered

LEMMA EmptyOutput ==
  ASSUME NEW g, NEW c, NEW n
  PROVE  Ordered(<<>>, g, c) /\ Numbered(<<>>, n) /\ \A id : id \notin g => Fresh(<<>>, g, id)
BY DEF Ordered, Numbered, Fresh

\* Frames of requests up to n do not see request n + 1 being read.
LEMMA OrderedMore ==
  ASSUME NEW n \in Nat, NEW o \in Seq(FrameType), NEW g \in SUBSET (1 .. n), NEW c, NEW d,
         Numbered(o, n), Ordered(o, g, c), \A e \in 0 .. n : e \in d <=> e \in c
  PROVE  Ordered(o, g, d)
<1>1. \A j \in 1 .. Len(o) : o[j].id \in 0 .. n
  BY DEF Numbered, None
<1>2. \A j \in 1 .. Len(o) : \A i \in 1 .. j - 1 : i \in 1 .. Len(o)
  OBVIOUS
<1>3. \A j \in 1 .. Len(o) : o[j].id \in d <=> o[j].id \in c
  BY <1>1
<1>4. \A e \in g : e \in d <=> e \in c
  OBVIOUS
<1> QED
  BY <1>2, <1>3, <1>4 DEF Ordered

LEMMA NumberedMore ==
  ASSUME NEW n \in Nat, NEW o \in Seq(FrameType), NEW g \in SUBSET (1 .. n), Numbered(o, n)
  PROVE  Numbered(o, n + 1) /\ Fresh(o, g, n + 1)
BY DEF Numbered, Fresh

-----------------------------------------------------------------------------
(* Reading a frame, and sending one *)

LEMMA KindSame ==
  ASSUME kind' = kind
  PROVE  Last' = Last /\ Read' = Read /\ Controls' = Controls
BY DEF Last, Read, Controls

LEMMA ControlsRead ==
  ASSUME LoopInv
  PROVE  Controls \subseteq 1 .. Last /\ Last \in Nat /\ Last <= MaxRequests
BY ConstantFacts DEF LoopInv, Controls, Read

LEMMA ReadMore ==
  ASSUME LoopInv, NEW k \in Kinds, Last + 1 \in Ids, kind' = [kind EXCEPT ![Last + 1] = k]
  PROVE  /\ Last' = Last + 1 /\ Read' = 1 .. Last + 1
         /\ \A e : e \in Controls' <=> e \in Controls \/ (e = Last + 1 /\ k \in {"hello", "watch"})
         /\ kind' \in [Ids -> Kinds \cup {"unread"}]
<1>1. k # "unread" /\ k \in AllKinds
  BY ServerLoopAssumption DEF AllKinds
<1>2. Last \in Nat /\ Read = 1 .. Last /\ kind \in [Ids -> Kinds \cup {"unread"}]
  BY ConstantFacts DEF LoopInv
<1>3. \A e \in Ids : kind'[e] = IF e = Last + 1 THEN k ELSE kind[e]
  BY <1>2
<1>4. Read' = Read \cup {Last + 1}
  BY <1>1, <1>3 DEF Read
<1>5. Read' = 1 .. Last + 1
  BY <1>2, <1>4
<1>6. Cardinality(1 .. Last + 1) = Last + 1
  BY <1>2, FS_Interval
<1>7. Last' = Last + 1
  BY <1>5, <1>6 DEF Last
<1>8. Last + 1 \notin Controls
  BY <1>2, ControlsRead
<1>9. \A e : e \in Controls' <=> e \in Controls \/ (e = Last + 1 /\ k \in {"hello", "watch"})
  BY <1>3, <1>8 DEF Controls
<1> QED
  BY <1>2, <1>5, <1>7, <1>9

LEMMA OutputSent ==
  ASSUME QueuesOK, NEW f \in FrameType, TxSend(f), writer' = writer
  PROVE  QueuesOK' /\ Output' = IF writing THEN Append(Output, f) ELSE Output
<1>1. queue \in Seq(FrameType) /\ writer \in Seq(FrameType)
  BY DEF QueuesOK
<1>2. writer \o Append(queue, f) = Append(writer \o queue, f)
  BY <1>1
<1>3. writing => Len(queue') = Len(queue) + 1 /\ Len(queue) < WRITER_QUEUE_CAPACITY /\ queue' \in Seq(FrameType)
  BY <1>1 DEF TxSend
<1>4. QueuesOK'
  BY <1>1, <1>3, ConstantFacts DEF QueuesOK, TxSend
<1> QED
  BY <1>2, <1>4 DEF Output, TxSend

\* What a sent frame leaves of the order and the freshness of others.
LEMMA SentFacts ==
  ASSUME QueuesOK, NEW f \in FrameType, TxSend(f), writer' = writer, NEW g, NEW c, NEW n,
         Numbered(Output, n), Ordered(Output, g, c), Fresh(Output, g, f.id),
         IF f.what = "event" THEN f.id = None ELSE f.id \in 1 .. n,
         f.id \in c => /\ \A e \in g \cap c : e < f.id
                       /\ \A i \in 1 .. Len(Output) : Output[i].what = "final" /\ Output[i].id \in c => Output[i].id < f.id
  PROVE  /\ Numbered(Output', n) /\ Ordered(Output', g, c)
         /\ \A id : Fresh(Output, g, id) /\ (f.what = "final" => f.id # id) => Fresh(Output', g, id)
<1>1. Output \in Seq(FrameType)
  BY OutputType
<1>2. PICK o : o = Output
  OBVIOUS
<1>3. Numbered(Append(o, f), n)
  BY <1>1, <1>2, NumberedAppend
<1>4. Ordered(Append(o, f), g, c)
  BY <1>1, <1>2, OrderedAppend
<1>5. \A id : Fresh(o, g, id) /\ (f.what = "final" => f.id # id) => Fresh(Append(o, f), g, id)
  BY <1>1, <1>2, FreshAppend
<1> QED
  BY <1>2, <1>3, <1>4, <1>5, OutputSent

-----------------------------------------------------------------------------
(* Init and the actions *)

LEMMA InitInv == Init => Inv
<1> SUFFICES ASSUME Init PROVE Inv
  OBVIOUS
<1>1. Read = {}
  BY DEF Init, Read
<1>2. Last = 0
  BY <1>1, FS_EmptySet DEF Last
<1>3. Output = <<>>
  BY DEF Init, Output
<1>4. LoopInv
  <2>1. Last \in 0 .. MaxRequests /\ Read = 1 .. Last /\ events \in 0 .. MaxEvents /\ main \in MainType
    BY <1>1, <1>2, ConstantFacts DEF Init, MainType, None
  <2>2. kind \in [Ids -> Kinds \cup {"unread"}]
    BY DEF Init
  <2> QED
    BY <2>1, <2>2 DEF Init, LoopInv, InHand
<1>5. JobsInv /\ WorkersInv
  BY ConstantFacts DEF Init, JobsInv, WorkersInv, WorkerType, Idle, None
<1>6. QueuesOK
  BY ConstantFacts DEF Init, QueuesOK
<1>7. PICK c, n : c = Controls /\ n = Last
  OBVIOUS
<1>8. Numbered(Output, Last) /\ Ordered(Output, got, Controls)
  BY <1>3, <1>7, EmptyOutput
<1>9. SentInv
  BY <1>8 DEF Init, SentInv, InHand, Idle
<1> QED
  BY <1>4, <1>5, <1>6, <1>9 DEF Inv

\* The steps that leave the output, what the client has and the frames read.
LEMMA SentSame ==
  ASSUME SentInv, LoopInv, kind' = kind, Output' = Output, got' = got,
         InHand' => InHand /\ main'.id = main.id,
         \A i \in 1 .. Len(jobs') : Fresh(Output, got, jobs'[i]),
         \A w \in Workers : worker'[w].left # <<>> => Fresh(Output, got, worker'[w].id)
  PROVE  SentInv'
BY KindSame DEF SentInv

LEMMA PooledSame ==
  ASSUME kind' = kind, (InHand /\ main'.id = main.id) \/ ~InHand', NEW id, Pooled(id)
  PROVE  Pooled(id)'
BY KindSame DEF Pooled

LEMMA ReadFrameInv == Inv /\ ReadFrame => Inv'
<1> SUFFICES ASSUME Inv, ReadFrame PROVE Inv'
  OBVIOUS
<1> USE DEF Inv
<1>1. /\ UNCHANGED <<closed, jobs, worker, watcher, queue, writer, writing, got, events>> /\ ~InHand
      /\ Last + 1 \in Ids
  BY DEF ReadFrame, At, InHand, Last
<1>2. PICK k \in Kinds :
        /\ kind' = [kind EXCEPT ![Last + 1] = k]
        /\ \/ k = "oversized" /\ GoTo("ended", None)
           \/ k = "garbled" /\ GoTo("reading", None)
           \/ k \in Inline /\ GoTo(k, Last + 1)
           \/ k \notin Inline \cup {"oversized", "garbled"} /\ GoTo("queueing", Last + 1)
  BY DEF ReadFrame, Last
<1>3. /\ Last' = Last + 1 /\ Read' = 1 .. Last + 1 /\ kind' \in [Ids -> Kinds \cup {"unread"}]
      /\ \A e : e \in Controls' <=> e \in Controls \/ (e = Last + 1 /\ k \in {"hello", "watch"})
  BY <1>1, <1>2, ReadMore
<1>4. Controls \subseteq 1 .. Last /\ Last \in Nat /\ Last <= MaxRequests
  BY ControlsRead
<1>5. LoopInv'
  BY <1>1, <1>2, <1>3, <1>4, ConstantFacts DEF LoopInv, MainType, InHand, GoTo, Inline, None
<1>6. InHand' => main'.id = Last + 1
  BY <1>2 DEF InHand, GoTo
<1>7. \A id : Pooled(id) => Pooled(id)'
  BY <1>3, <1>4, <1>6, ConstantFacts DEF Pooled
<1>8. JobsInv' /\ WorkersInv'
  <2>1. JobsInv'
    BY <1>1, <1>7 DEF JobsInv
  <2>2. WorkersInv'
    BY <1>1, <1>7 DEF WorkersInv, WorkerType
  <2> QED
    BY <2>1, <2>2
<1>9. QueuesOK' /\ Output' = Output /\ Output \in Seq(FrameType)
  BY <1>1, OutputType DEF QueuesOK, Output
<1>10. Numbered(Output, Last + 1) /\ Fresh(Output, got, Last + 1)
  <2>1. PICK n, o, g : n = Last /\ o = Output /\ g = got
    OBVIOUS
  <2>2. Numbered(o, n + 1) /\ Fresh(o, g, n + 1)
    BY <1>4, <1>9, <2>1, NumberedMore DEF SentInv
  <2> QED
    BY <2>1, <2>2
<1>11. Ordered(Output, got, Controls')
  <2>1. PICK n, o, g, c, d : n = Last /\ o = Output /\ g = got /\ c = Controls /\ d = Controls'
    OBVIOUS
  <2>2. \A e \in 0 .. n : e \in d <=> e \in c
    BY <1>3, <1>4, <2>1
  <2>3. Ordered(o, g, d)
    BY <1>4, <1>9, <2>1, <2>2, OrderedMore DEF SentInv
  <2> QED
    BY <2>1, <2>3
<1>12. SentInv'
  BY <1>1, <1>3, <1>4, <1>6, <1>9, <1>10, <1>11 DEF SentInv
<1> QED
  BY <1>5, <1>8, <1>9, <1>12

LEMMA HandleCtlInv == Inv /\ HandleCtl => Inv'
<1> SUFFICES ASSUME Inv, HandleCtl PROVE Inv'
  OBVIOUS
<1> USE DEF Inv
<1>1. /\ UNCHANGED <<kind, closed, jobs, worker, watcher, queue, writer, writing, got, events>> /\ InHand /\ InHand'
      /\ main'.id = main.id /\ main.at \in {"hello", "watch"} /\ main' = [at |-> "replying", id |-> main.id]
  BY DEF HandleCtl, At, GoTo, InHand
<1>2. Last' = Last /\ Read' = Read /\ Controls' = Controls
  BY <1>1, KindSame
<1>3. LoopInv'
  BY <1>1, <1>2 DEF LoopInv, MainType
<1>4. \A id : Pooled(id) => Pooled(id)'
  BY <1>1, PooledSame
<1>5. JobsInv' /\ WorkersInv'
  BY <1>1, <1>4 DEF JobsInv, WorkersInv, WorkerType
<1>6. QueuesOK' /\ Output' = Output
  BY <1>1 DEF QueuesOK, Output
<1>7. SentInv'
  BY <1>1, <1>6, SentSame DEF SentInv
<1> QED
  BY <1>3, <1>5, <1>6, <1>7

\* The steps of the main loop that hand its request on.
LEMMA LoopFreed ==
  ASSUME LoopInv, kind' = kind, main' = [at |-> "reading", id |-> None] \/ main' = [at |-> "ended", id |-> None],
         UNCHANGED <<closed, watcher, writing, events>>
  PROVE  LoopInv' /\ ~InHand' /\ \A id : Pooled(id) => Pooled(id)'
<1>1. ~InHand' /\ main'.id = None /\ main' \in MainType /\ main'.at \in {"reading", "ended"}
  BY ConstantFacts DEF InHand, MainType, None
<1>2. Last' = Last /\ Read' = Read /\ Controls' = Controls
  BY KindSame
<1>3. LoopInv'
  BY <1>1, <1>2 DEF LoopInv
<1>4. \A id : Pooled(id) => Pooled(id)'
  BY <1>1, PooledSame
<1> QED
  BY <1>1, <1>3, <1>4

LEMMA ReplyCtlInv == Inv /\ ReplyCtl => Inv'
<1> SUFFICES ASSUME Inv, ReplyCtl PROVE Inv'
  OBVIOUS
<1> USE DEF Inv
<1>1. /\ UNCHANGED <<kind, closed, jobs, worker, watcher, writer, writing, got, events>> /\ InHand
      /\ TxSend(Final(main.id)) /\ main' = [at |-> "reading", id |-> None]
  BY DEF ReplyCtl, At, GoTo, InHand
<1>2. LoopInv' /\ ~InHand' /\ \A id : Pooled(id) => Pooled(id)'
  BY <1>1, LoopFreed
<1>3. JobsInv' /\ WorkersInv'
  BY <1>1, <1>2 DEF JobsInv, WorkersInv, WorkerType
<1>4. PICK m, g, c, n : m = main.id /\ g = got /\ c = Controls /\ n = Last
  OBVIOUS
<1>5. m = n /\ n \in Nat /\ n # 0 /\ c \subseteq 1 .. n /\ g \subseteq 1 .. n
  BY <1>1, <1>4, ControlsRead DEF LoopInv, SentInv
<1>6. Final(m) \in FrameType /\ Final(m).id = m /\ Final(m).what = "final" /\ TxSend(Final(m)) /\ m \in 1 .. n
  BY <1>1, <1>4, <1>5, FrameTypes
<1>7. QueuesOK'
  BY <1>1, <1>6, OutputSent
<1>8. Numbered(Output, n) /\ Ordered(Output, g, c) /\ Fresh(Output, g, m)
  BY <1>1, <1>4 DEF SentInv
<1>9. /\ \A e \in g \cap c : e < m
      /\ \A i \in 1 .. Len(Output) : Output[i].what = "final" /\ Output[i].id \in c => Output[i].id < m
  <2>1. \A e \in c : e # m => e < m
    BY <1>5
  <2> QED
    BY <1>8, <2>1 DEF Fresh
<1>10. /\ Numbered(Output', n) /\ Ordered(Output', g, c)
       /\ \A id : Fresh(Output, g, id) /\ id # m => Fresh(Output', g, id)
  BY <1>1, <1>6, <1>8, <1>9, SentFacts
<1>11. /\ \A i \in 1 .. Len(jobs) : jobs[i] # m
       /\ \A w \in Workers : worker[w].left # <<>> => worker[w].id # m
  BY <1>1, <1>4 DEF JobsInv, WorkersInv, Pooled
<1>12. SentInv'
  BY <1>1, <1>2, <1>4, <1>10, <1>11, KindSame DEF SentInv
<1> QED
  BY <1>2, <1>3, <1>7, <1>12

LEMMA QueueJobInv == Inv /\ QueueJob => Inv'
<1> SUFFICES ASSUME Inv, QueueJob PROVE Inv'
  OBVIOUS
<1> USE DEF Inv
<1>1. /\ UNCHANGED <<kind, closed, worker, watcher, queue, writer, writing, got, events>> /\ InHand
      /\ main.at = "queueing" /\ main' = [at |-> "reading", id |-> None]
      /\ jobs' = Append(jobs, main.id) /\ Len(jobs) < FS_JOB_QUEUE_CAPACITY
  BY DEF QueueJob, At, GoTo, InHand
<1>2. LoopInv' /\ ~InHand' /\ \A id : Pooled(id) => Pooled(id)'
  BY <1>1, LoopFreed
<1>3. main.id = Last /\ main.id \in Ids /\ main.id \notin Controls
  <2>1. main.id = Last /\ Last # 0 /\ main.id \notin Controls
    BY <1>1 DEF LoopInv
  <2> QED
    BY <2>1, ControlsRead, ConstantFacts
<1>5. \A id : id = main.id => Pooled(id)'
  BY <1>1, <1>2, <1>3, KindSame, ConstantFacts DEF Pooled
<1>6. PICK q, m : q = jobs /\ m = main.id
  OBVIOUS
<1>7. q \in Seq(Ids) /\ m \in Ids /\ jobs' = Append(q, m) /\ Len(q) < FS_JOB_QUEUE_CAPACITY
  BY <1>1, <1>3, <1>6 DEF JobsInv
<1>8. /\ jobs' \in Seq(Ids) /\ Len(jobs') = Len(q) + 1 /\ Len(q) \in Nat /\ jobs'[Len(q) + 1] = m
      /\ \A i \in 1 .. Len(q) : jobs'[i] = q[i]
      /\ \A i \in 1 .. Len(jobs') : i \in 1 .. Len(q) \/ i = Len(q) + 1
  BY <1>7
<1>9. \A i \in 1 .. Len(q) : q[i] # m /\ Pooled(q[i])'
  <2>1. \A i \in 1 .. Len(q) : Pooled(q[i]) /\ q[i] # m
    BY <1>1, <1>6 DEF JobsInv, Pooled
  <2> QED
    BY <1>2, <2>1
<1>10. \A i \in 1 .. Len(jobs') : \A id : id = jobs'[i] => Pooled(id)'
  BY <1>2, <1>5, <1>6, <1>8, <1>9 DEF JobsInv
<1>11. JobsInv'
  <2>1. \A i \in 1 .. Len(jobs') : Pooled(jobs[i])'
    BY <1>10
  <2>2. \A i, j \in 1 .. Len(q) : q[i] = q[j] => i = j
    BY <1>6 DEF JobsInv
  <2>3. \A i, j \in 1 .. Len(jobs') : jobs'[i] = jobs'[j] => i = j
    BY <1>8, <1>9, <2>2
  <2>4. Len(jobs') <= FS_JOB_QUEUE_CAPACITY
    BY <1>7, <1>8, ConstantFacts
  <2> QED
    BY <1>8, <2>1, <2>3, <2>4 DEF JobsInv
<1>12. WorkersInv'
  <2>1. \A w \in Workers : worker[w].id # None => worker[w].id # m
    BY <1>1, <1>6 DEF WorkersInv, Pooled
  <2>2. \A w \in Workers : worker[w].id # None => \A i \in 1 .. Len(jobs') : jobs'[i] # worker[w].id
    BY <1>6, <1>8, <2>1 DEF WorkersInv
  <2> QED
    BY <1>1, <1>2, <2>2 DEF WorkersInv, WorkerType
<1>13. QueuesOK' /\ Output' = Output
  BY <1>1 DEF QueuesOK, Output
<1>14. \A i \in 1 .. Len(jobs') : Fresh(Output, got, jobs'[i])
  BY <1>1, <1>6, <1>8 DEF SentInv
<1>15. SentInv'
  BY <1>1, <1>2, <1>13, <1>14, SentSame DEF SentInv
<1> QED
  BY <1>2, <1>11, <1>12, <1>13, <1>15

LEMMA EofInv == Inv /\ Eof => Inv'
<1> SUFFICES ASSUME Inv, Eof PROVE Inv'
  OBVIOUS
<1> USE DEF Inv
<1>1. /\ UNCHANGED <<kind, closed, jobs, worker, watcher, queue, writer, writing, got, events>>
      /\ main' = [at |-> "ended", id |-> None]
  BY DEF Eof, GoTo
<1>2. LoopInv' /\ ~InHand' /\ \A id : Pooled(id) => Pooled(id)'
  BY <1>1, LoopFreed
<1>3. JobsInv' /\ WorkersInv'
  BY <1>1, <1>2 DEF JobsInv, WorkersInv, WorkerType
<1>4. QueuesOK' /\ Output' = Output
  BY <1>1 DEF QueuesOK, Output
<1>5. SentInv'
  BY <1>1, <1>2, <1>4, SentSame DEF SentInv
<1> QED
  BY <1>2, <1>3, <1>4, <1>5

LEMMA TakeJobInv ==
  ASSUME Inv, NEW w \in Workers, TakeJob(w)
  PROVE  Inv'
<1> USE DEF Inv
<1>1. /\ UNCHANGED <<kind, closed, main, watcher, queue, writer, writing, got, events>>
      /\ worker[w] = Idle /\ jobs # <<>> /\ jobs' = Tail(jobs)
      /\ worker' = [worker EXCEPT ![w] = [id |-> Head(jobs), left |-> Replies(Head(jobs)), stuck |-> FALSE]]
  BY DEF TakeJob
<1>2. Last' = Last /\ Read' = Read /\ Controls' = Controls /\ (InHand' <=> InHand)
  BY <1>1, KindSame DEF InHand
<1>3. LoopInv'
  BY <1>1, <1>2 DEF LoopInv
<1>4. \A id : Pooled(id) <=> Pooled(id)'
  BY <1>1, <1>2 DEF Pooled
<1>5. PICK q, h : q = jobs /\ h = Head(jobs)
  OBVIOUS
<1>6. /\ Len(q) \in Nat /\ Len(q) >= 1 /\ h = q[1] /\ 1 \in 1 .. Len(q) /\ jobs' \in Seq(Ids)
      /\ Len(jobs') = Len(q) - 1 /\ \A i \in 1 .. Len(jobs') : jobs'[i] = q[i + 1] /\ i + 1 \in 1 .. Len(q)
      /\ h \in Ids /\ h # None /\ h \in Nat
  BY <1>1, <1>5, ConstantFacts DEF JobsInv
<1>7. /\ Pooled(h) /\ Fresh(Output, got, h) /\ \A i \in 1 .. Len(jobs') : jobs'[i] # h
  BY <1>5, <1>6 DEF JobsInv, SentInv
<1>8. JobsInv'
  <2>1. \A i, j \in 1 .. Len(jobs') : jobs'[i] = jobs'[j] => i = j
    BY <1>5, <1>6 DEF JobsInv
  <2>2. \A i \in 1 .. Len(jobs') : \A id : id = jobs'[i] => Pooled(id)
    BY <1>5, <1>6 DEF JobsInv
  <2>3. \A i \in 1 .. Len(jobs') : Pooled(jobs[i])'
    BY <1>4, <2>2
  <2>4. Len(jobs') <= FS_JOB_QUEUE_CAPACITY
    BY <1>5, <1>6, ConstantFacts DEF JobsInv
  <2> QED
    BY <1>6, <2>1, <2>3, <2>4 DEF JobsInv
<1>9. PICK r : r = Replies(Head(jobs))
  OBVIOUS
<1>10. r \in Leftover(h) /\ r \in Seq(FrameType)
  <2>1. r \in Leftover(h)
    BY <1>5, <1>9 DEF Replies, Leftover
  <2> QED
    BY <1>6, <2>1, LeftoverFacts
<1>11. /\ worker' \in [Workers -> WorkerType] /\ worker \in [Workers -> WorkerType]
       /\ worker'[w].id = h /\ worker'[w].left = r /\ \A v \in Workers : v # w => worker'[v] = worker[v]
  <2>1. [id |-> h, left |-> r, stuck |-> FALSE] \in WorkerType
    BY <1>6, <1>10, ConstantFacts DEF WorkerType
  <2> QED
    BY <1>1, <1>5, <1>9, <2>1 DEF WorkersInv
<1>12. WorkersInv'
  <2>1. \A v \in Workers : worker[v].id = h => worker[v].id = None
    BY <1>5, <1>6 DEF WorkersInv
  <2>2. ASSUME NEW v \in Workers, v # w, worker[v].id # None
        PROVE  /\ worker'[v].left \in Leftover(worker'[v].id) /\ Pooled(worker[v].id)
               /\ \A i \in 1 .. Len(jobs') : jobs'[i] # worker'[v].id
               /\ \A u \in Workers : worker'[u].id = worker'[v].id => u = v
    <3>1. worker'[v] = worker[v] /\ worker[v].left \in Leftover(worker[v].id) /\ Pooled(worker[v].id)
      BY <1>11, <2>2 DEF WorkersInv
    <3>2. \A i \in 1 .. Len(jobs') : jobs'[i] # worker[v].id
      BY <1>5, <1>6, <2>2 DEF WorkersInv
    <3>3. \A u \in Workers : worker'[u].id = worker[v].id => u = v
      BY <1>11, <2>1, <2>2 DEF WorkersInv
    <3> QED
      BY <3>1, <3>2, <3>3
  <2>3. /\ worker'[w].left \in Leftover(h) /\ \A i \in 1 .. Len(jobs') : jobs'[i] # h
        /\ \A u \in Workers : worker'[u].id = h => u = w
    BY <1>6, <1>7, <1>10, <1>11, <2>1
  <2>4. \A v \in Workers : \A id : id = worker'[v].id /\ id # None => Pooled(id)
    BY <1>7, <1>11, <2>2
  <2>5. \A v \in Workers : worker'[v].id # None => Pooled(worker[v].id)'
    BY <1>4, <2>4
  <2>6. \A v \in Workers : worker'[v].id = None => worker'[v].left = <<>>
    BY <1>6, <1>11 DEF WorkersInv
  <2> QED
    BY <1>11, <2>2, <2>3, <2>5, <2>6 DEF WorkersInv, WorkerType, Leftover
<1>13. QueuesOK' /\ Output' = Output
  BY <1>1 DEF QueuesOK, Output
<1>14. \A i \in 1 .. Len(jobs') : Fresh(Output, got, jobs'[i])
  BY <1>5, <1>6 DEF SentInv
<1>15. \A v \in Workers : worker'[v].left # <<>> => Fresh(Output, got, worker'[v].id)
  BY <1>7, <1>11 DEF SentInv
<1>16. SentInv'
  BY <1>1, <1>2, <1>13, <1>14, <1>15, SentSame
<1> QED
  BY <1>3, <1>8, <1>12, <1>13, <1>16

\* The steps of worker w: it keeps its request, with less to send, or is done.
WorkerStep(w) ==
  /\ UNCHANGED <<kind, closed, main, jobs, watcher, writer, writing, got, events>>
  /\ worker' \in [Workers -> WorkerType] /\ \A v \in Workers : v # w => worker'[v] = worker[v]
  /\ \/ worker'[w] = Idle
     \/ worker'[w].id = worker[w].id /\ worker'[w].left \in Leftover(worker[w].id)

LEMMA WorkerStepInv ==
  ASSUME Inv, NEW w \in Workers, worker[w].id # None, WorkerStep(w)
  PROVE  LoopInv' /\ JobsInv' /\ WorkersInv'
<1> USE DEF Inv
<1>1. Last' = Last /\ Read' = Read /\ Controls' = Controls /\ (InHand' <=> InHand)
  BY KindSame DEF InHand, WorkerStep
<1>2. LoopInv'
  BY <1>1 DEF LoopInv, WorkerStep
<1>3. \A id : Pooled(id) <=> Pooled(id)'
  BY <1>1 DEF Pooled, WorkerStep
<1>4. JobsInv'
  BY <1>3 DEF JobsInv, WorkerStep
<1>5. ASSUME NEW v \in Workers, worker'[v].id # None
      PROVE  /\ worker'[v].id = worker[v].id /\ worker'[v].left \in Leftover(worker[v].id) /\ Pooled(worker[v].id)
             /\ \A i \in 1 .. Len(jobs) : jobs[i] # worker[v].id
             /\ \A u \in Workers : worker'[u].id = worker[v].id => u = v
  <2>1. worker'[v].id = worker[v].id /\ worker'[v].left \in Leftover(worker[v].id)
    BY <1>5 DEF WorkersInv, WorkerStep, Idle
  <2>2. \A u \in Workers : worker'[u].id = worker[v].id => worker[u].id = worker[v].id
    BY <1>5, <2>1 DEF WorkerStep, Idle
  <2> QED
    BY <1>5, <2>1, <2>2 DEF WorkersInv
<1>6. \A v \in Workers : worker'[v].id = None => worker'[v].left = <<>>
  BY DEF WorkersInv, WorkerStep, Idle
<1>7. \A v \in Workers : \A id : id = worker'[v].id /\ id # None => Pooled(id)
  BY <1>5
<1>8. \A v \in Workers : worker'[v].id # None => Pooled(worker[v].id)'
  BY <1>3, <1>7
<1>9. WorkersInv'
  <2>1. \A v \in Workers : worker'[v].id # None => worker'[v].left \in Leftover(worker'[v].id)
    BY <1>5
  <2>2. jobs' = jobs /\ worker' \in [Workers -> WorkerType]
    BY DEF WorkerStep
  <2> QED
    BY <1>5, <1>6, <1>8, <2>1, <2>2 DEF WorkersInv, WorkerType, Leftover
<1> QED
  BY <1>2, <1>4, <1>9

LEMMA GetStuckInv ==
  ASSUME Inv, NEW w \in Workers, GetStuck(w)
  PROVE  Inv'
<1> USE DEF Inv
<1>1. /\ worker[w].id # None /\ worker' = [worker EXCEPT ![w].stuck = TRUE]
      /\ UNCHANGED <<kind, closed, main, jobs, watcher, queue, writer, writing, got, events>>
  BY DEF GetStuck
<1>2. /\ worker' \in [Workers -> WorkerType] /\ worker'[w].id = worker[w].id /\ worker'[w].left = worker[w].left
      /\ \A v \in Workers : v # w => worker'[v] = worker[v]
  BY <1>1 DEF WorkersInv, WorkerType
<1>3. WorkerStep(w)
  BY <1>1, <1>2 DEF WorkerStep, WorkersInv
<1>4. LoopInv' /\ JobsInv' /\ WorkersInv'
  BY <1>1, <1>3, WorkerStepInv
<1>5. QueuesOK' /\ Output' = Output /\ (InHand' => InHand /\ main'.id = main.id)
  BY <1>1 DEF QueuesOK, Output, InHand
<1>6. \A v \in Workers : worker'[v].left # <<>> => Fresh(Output, got, worker'[v].id)
  BY <1>2 DEF SentInv
<1>7. SentInv'
  BY <1>1, <1>5, <1>6, SentSame DEF SentInv
<1> QED
  BY <1>4, <1>5, <1>7

LEMMA SendReplyInv ==
  ASSUME Inv, NEW w \in Workers, SendReply(w)
  PROVE  Inv'
<1> USE DEF Inv
<1>1. /\ worker[w].id # None
      /\ UNCHANGED <<kind, closed, main, jobs, watcher, writer, writing, got, events>>
  BY DEF SendReply
<1>2. worker \in [Workers -> WorkerType] /\ worker[w].left \in Leftover(worker[w].id) /\ Pooled(worker[w].id)
  BY <1>1 DEF WorkersInv
<1>3. InHand' => InHand /\ main'.id = main.id
  BY <1>1 DEF InHand
<1>4. CASE worker[w].left = <<>>
  <2>1. worker' = [worker EXCEPT ![w] = Idle] /\ queue' = queue
    BY <1>4 DEF SendReply
  <2>2. Idle \in WorkerType /\ Idle.left = <<>>
    BY ConstantFacts DEF Idle, WorkerType, None
  <2>3. WorkerStep(w)
    BY <1>1, <1>2, <2>1, <2>2 DEF WorkerStep
  <2>4. QueuesOK' /\ Output' = Output
    BY <1>1, <2>1 DEF QueuesOK, Output
  <2>5. \A v \in Workers : worker'[v].left # <<>> => Fresh(Output, got, worker'[v].id)
    BY <1>2, <2>1, <2>2 DEF SentInv
  <2>6. SentInv'
    BY <1>1, <1>3, <2>4, <2>5, SentSame DEF SentInv
  <2> QED
    BY <1>1, <2>3, <2>4, <2>6, WorkerStepInv
<1>5. CASE worker[w].left # <<>>
  <2>1. PICK id, l, f : id = worker[w].id /\ l = worker[w].left /\ f = Head(worker[w].left)
    OBVIOUS
  <2>2. TxSend(f) /\ worker' = [worker EXCEPT ![w].left = IF writing THEN Tail(@) ELSE <<>>]
    BY <1>5, <2>1 DEF SendReply
  <2>3. id \in Nat /\ id \in 1 .. Last /\ id \notin Controls /\ id # None
    BY <1>1, <1>2, <2>1, ConstantFacts, ControlsRead DEF Pooled, None
  <2>4. f \in {Final(id), Chunk(id)} /\ Tail(l) \in Leftover(id) /\ (f = Final(id) => Tail(l) = <<>>)
    BY <1>2, <1>5, <2>1, <2>3, LeftoverFacts
  <2>5. f \in FrameType /\ f.id = id /\ f.what \in {"final", "chunk"} /\ (f.what = "final" => Tail(l) = <<>>)
    BY <2>3, <2>4, FrameTypes
  <2>6. PICK t : t = IF writing THEN Tail(l) ELSE <<>>
    OBVIOUS
  <2>7. t \in Leftover(id) /\ t \in Seq(FrameType)
    <3>1. t \in Leftover(id)
      BY <2>4, <2>6 DEF Leftover
    <3> QED
      BY <2>3, <3>1, LeftoverFacts
  <2>8. /\ worker' \in [Workers -> WorkerType] /\ worker'[w].id = id /\ worker'[w].left = t
        /\ \A v \in Workers : v # w => worker'[v] = worker[v]
    BY <1>2, <2>1, <2>2, <2>6, <2>7 DEF WorkerType
  <2>9. WorkerStep(w)
    BY <1>1, <2>1, <2>7, <2>8 DEF WorkerStep
  <2>10. LoopInv' /\ JobsInv' /\ WorkersInv'
    BY <1>1, <2>9, WorkerStepInv
  <2>11. QueuesOK'
    BY <1>1, <2>2, <2>5, OutputSent
  <2>12. PICK g, c, n : g = got /\ c = Controls /\ n = Last
    OBVIOUS
  <2>13. Numbered(Output, n) /\ Ordered(Output, g, c) /\ Fresh(Output, g, id)
    BY <1>5, <2>1, <2>12 DEF SentInv
  <2>14. /\ Numbered(Output', n) /\ Ordered(Output', g, c)
         /\ \A e : Fresh(Output, g, e) /\ (f.what = "final" => f.id # e) => Fresh(Output', g, e)
    BY <1>1, <2>2, <2>3, <2>5, <2>12, <2>13, SentFacts
  <2>15. InHand => main.id # id
    BY <1>2, <2>1 DEF Pooled
  <2>16. \A i \in 1 .. Len(jobs) : jobs[i] # id
    BY <1>1, <2>1 DEF WorkersInv
  <2>17. \A v \in Workers : v # w => worker[v].id # id
    BY <1>1, <2>1 DEF WorkersInv
  <2>18. \A v \in Workers : worker'[v].left # <<>> => Fresh(Output', g, worker'[v].id)
    <3>1. ASSUME NEW v \in Workers, v # w, worker'[v].left # <<>>
          PROVE  Fresh(Output', g, worker'[v].id)
      <4>1. Fresh(Output, g, worker[v].id) /\ worker'[v].id = worker[v].id
        BY <2>8, <2>12, <3>1 DEF SentInv
      <4> QED
        BY <2>5, <2>14, <2>17, <3>1, <4>1
    <3>2. t # <<>> => f.what # "final"
      BY <2>5, <2>6
    <3>3. t # <<>> => Fresh(Output', g, id)
      BY <2>13, <2>14, <3>2
    <3> QED
      BY <2>8, <3>1, <3>3
  <2>19. InHand' => Fresh(Output', g, main'.id)
    BY <1>1, <1>3, <2>5, <2>12, <2>14, <2>15 DEF SentInv
  <2>20. \A i \in 1 .. Len(jobs') : Fresh(Output', g, jobs'[i])
    BY <1>1, <2>5, <2>12, <2>14, <2>16 DEF SentInv
  <2>21. got' = g /\ Controls' = c /\ Last' = n /\ g \subseteq 1 .. n
    BY <1>1, <2>12, KindSame DEF SentInv
  <2>22. SentInv'
    BY <2>14, <2>18, <2>19, <2>20, <2>21 DEF SentInv
  <2> QED
    BY <2>10, <2>11, <2>22
<1> QED
  BY <1>4, <1>5

\* The steps outside the request path.
LEMMA AsideInv ==
  ASSUME Inv, UNCHANGED <<kind, main, jobs, worker, writing>>,
         closed' \in BOOLEAN, watcher' \in BOOLEAN, events' \in 0 .. MaxEvents
  PROVE  LoopInv' /\ JobsInv' /\ WorkersInv'
<1> USE DEF Inv
<1>1. Last' = Last /\ Read' = Read /\ Controls' = Controls /\ (InHand' <=> InHand)
  BY KindSame DEF InHand
<1>2. LoopInv'
  BY <1>1 DEF LoopInv
<1>3. \A id : Pooled(id) <=> Pooled(id)'
  BY <1>1 DEF Pooled
<1>4. JobsInv' /\ WorkersInv'
  BY <1>3 DEF JobsInv, WorkersInv
<1> QED
  BY <1>2, <1>4

LEMMA NoticeInv == Inv /\ (Notice \/ ClientClose) => Inv'
<1> SUFFICES ASSUME Inv, Notice \/ ClientClose PROVE Inv'
  OBVIOUS
<1> USE DEF Inv
<1>1. UNCHANGED <<kind, main, jobs, worker, queue, writer, writing, got>>
  BY DEF Notice, ClientClose
<1>2. closed' \in BOOLEAN /\ watcher' \in BOOLEAN /\ events' \in 0 .. MaxEvents
  <2>1. closed \in BOOLEAN /\ watcher \in BOOLEAN /\ events \in 0 .. MaxEvents
    BY DEF LoopInv
  <2>2. CASE Notice
    BY <2>1, <2>2, ConstantFacts DEF Notice
  <2>3. CASE ClientClose
    BY <2>1, <2>3 DEF ClientClose
  <2> QED
    BY <2>2, <2>3
<1>3. LoopInv' /\ JobsInv' /\ WorkersInv'
  BY <1>1, <1>2, AsideInv
<1>4. QueuesOK' /\ Output' = Output /\ (InHand' => InHand /\ main'.id = main.id)
  BY <1>1 DEF QueuesOK, Output, InHand
<1>5. SentInv'
  BY <1>1, <1>4, SentSame DEF SentInv
<1> QED
  BY <1>3, <1>4, <1>5

LEMMA SendEventInv == Inv /\ SendEvent => Inv'
<1> SUFFICES ASSUME Inv, SendEvent PROVE Inv'
  OBVIOUS
<1> USE DEF Inv
<1>1. /\ UNCHANGED <<kind, closed, main, jobs, worker, writer, writing, got, events>>
      /\ TxSend(EventFrame) /\ watcher' = FALSE
  BY DEF SendEvent
<1>2. LoopInv' /\ JobsInv' /\ WorkersInv'
  BY <1>1, AsideInv DEF LoopInv
<1>3. EventFrame \in FrameType /\ EventFrame.id = None /\ EventFrame.what = "event"
  BY FrameTypes
<1>4. QueuesOK'
  BY <1>1, <1>3, OutputSent
<1>5. PICK g, c, n : g = got /\ c = Controls /\ n = Last
  OBVIOUS
<1>6. Numbered(Output, n) /\ Ordered(Output, g, c) /\ g \subseteq 1 .. n /\ c \subseteq 1 .. n
  BY <1>5, ControlsRead DEF SentInv
<1>7. None \notin g /\ None \notin c
  BY <1>6 DEF None
<1>8. Fresh(Output, g, None)
  BY <1>6, <1>7 DEF Fresh, Numbered, None
<1>9. /\ Numbered(Output', n) /\ Ordered(Output', g, c) /\ \A e : Fresh(Output, g, e) => Fresh(Output', g, e)
  BY <1>1, <1>3, <1>6, <1>7, <1>8, SentFacts
<1>10. InHand' => InHand
  BY <1>1 DEF InHand
<1>11. SentInv'
  BY <1>1, <1>5, <1>9, <1>10, KindSame DEF SentInv
<1> QED
  BY <1>2, <1>4, <1>11

LEMMA WriterTakeInv == Inv /\ WriterTake => Inv'
<1> SUFFICES ASSUME Inv, WriterTake PROVE Inv'
  OBVIOUS
<1> USE DEF Inv
<1>1. /\ UNCHANGED <<kind, closed, main, jobs, worker, watcher, writing, got, events>>
      /\ writer = <<>> /\ queue # <<>> /\ writer' = <<Head(queue)>> /\ queue' = Tail(queue)
  BY DEF WriterTake
<1>2. LoopInv' /\ JobsInv' /\ WorkersInv'
  BY <1>1, AsideInv DEF LoopInv
<1>3. queue \in Seq(FrameType) /\ Len(queue) <= WRITER_QUEUE_CAPACITY
  BY DEF QueuesOK
<1>4. Head(queue) \in FrameType /\ Tail(queue) \in Seq(FrameType) /\ Len(Tail(queue)) = Len(queue) - 1 /\ Len(queue) \in Nat
  BY <1>1, <1>3
<1>5. QueuesOK'
  BY <1>1, <1>3, <1>4, ConstantFacts DEF QueuesOK
<1>6. Output' = Output
  <2>1. <<Head(queue)>> \o Tail(queue) = queue
    BY <1>1, <1>3
  <2>2. <<>> \o queue = queue
    BY <1>3
  <2> QED
    BY <1>1, <2>1, <2>2 DEF Output
<1>7. InHand' => InHand /\ main'.id = main.id
  BY <1>1 DEF InHand
<1>8. SentInv'
  BY <1>1, <1>6, <1>7, SentSame DEF SentInv
<1> QED
  BY <1>2, <1>5, <1>8

LEMMA FirstOut ==
  ASSUME NEW a \in Seq(FrameType), NEW b \in Seq(FrameType), Len(a) = 1
  PROVE  a \o b # <<>> /\ Head(a \o b) = a[1] /\ Tail(a \o b) = b
<1> DEFINE o == a \o b
<1>1. /\ o \in Seq(FrameType) /\ Len(o) = 1 + Len(b) /\ Len(b) \in Nat
      /\ \A i \in 1 .. 1 + Len(b) : o[i] = IF i <= 1 THEN a[i] ELSE b[i - 1]
  <2>1. /\ o \in Seq(FrameType) /\ Len(o) = Len(a) + Len(b)
        /\ \A i \in 1 .. Len(a) + Len(b) : o[i] = IF i <= Len(a) THEN a[i] ELSE b[i - Len(a)]
    BY ConcatProperties
  <2>2. Len(b) \in Nat
    OBVIOUS
  <2> HIDE DEF o
  <2> QED
    BY <2>1, <2>2
<1> HIDE DEF o
<1>2. o # <<>>
  BY <1>1
<1>3. /\ Head(o) = o[1] /\ Tail(o) \in Seq(FrameType) /\ Len(Tail(o)) = Len(b)
      /\ \A i \in 1 .. Len(b) : Tail(o)[i] = o[i + 1] /\ i + 1 \in 1 .. 1 + Len(b)
  BY <1>1, <1>2, TailFacts
<1>4. Head(o) = a[1] /\ \A i \in 1 .. Len(b) : Tail(o)[i] = b[i]
  <2>1. Head(o) = a[1]
    BY <1>1, <1>3
  <2>2. ASSUME NEW i \in 1 .. Len(b) PROVE Tail(o)[i] = b[i]
    <3>1. Tail(o)[i] = o[i + 1] /\ i + 1 \in 1 .. 1 + Len(b)
      BY <1>3
    <3>2. ~(i + 1 <= 1) /\ (i + 1) - 1 = i
      BY <1>1
    <3> QED
      BY <1>1, <3>1, <3>2
  <2> QED
    BY <2>1, <2>2
<1>5. Tail(o) = b
  BY <1>3, <1>4, SeqEqual
<1> QED
  BY <1>2, <1>4, <1>5 DEF o

LEMMA WriteInv == Inv /\ Write => Inv'
<1> SUFFICES ASSUME Inv, Write PROVE Inv'
  OBVIOUS
<1> USE DEF Inv
<1>1. /\ UNCHANGED <<kind, closed, main, jobs, worker, watcher, events>> /\ writer # <<>> /\ writer' = <<>>
      /\ writing' \in BOOLEAN /\ (queue' = queue \/ queue' = <<>>)
  BY DEF Write, LoopInv
<1>2. Last' = Last /\ Read' = Read /\ Controls' = Controls /\ (InHand' <=> InHand)
  BY <1>1, KindSame DEF InHand
<1>3. \A id : Pooled(id) <=> Pooled(id)'
  BY <1>1, <1>2 DEF Pooled
<1>4. LoopInv' /\ JobsInv' /\ WorkersInv'
  <2>1. LoopInv'
    BY <1>1, <1>2 DEF LoopInv
  <2>2. JobsInv' /\ WorkersInv'
    BY <1>1, <1>3 DEF JobsInv, WorkersInv
  <2> QED
    BY <2>1, <2>2
<1>5. QueuesOK'
  <2>1. <<>> \in Seq(FrameType) /\ Len(<<>>) = 0
    OBVIOUS
  <2> QED
    <3>1. queue \in Seq(FrameType) /\ Len(queue) <= WRITER_QUEUE_CAPACITY
      BY DEF QueuesOK
    <3>2. writer' \in Seq(FrameType) /\ Len(writer') <= 1
      BY <1>1, <2>1
    <3>3. queue' \in Seq(FrameType) /\ Len(queue') <= WRITER_QUEUE_CAPACITY
      <4>1. CASE queue' = queue
        BY <3>1, <4>1
      <4>2. CASE queue' = <<>>
        <5>1. 0 <= WRITER_QUEUE_CAPACITY
          BY ConstantFacts
        <5>2. Len(queue') = 0
          BY <2>1, <4>2
        <5> QED
          BY <2>1, <4>2, <5>1, <5>2
      <4> QED
        BY <1>1, <4>1, <4>2
    <3> QED
      BY <3>2, <3>3 DEF QueuesOK
<1>6. PICK o, g, c, n : o = Output /\ g = got /\ c = Controls /\ n = Last
  OBVIOUS
<1>7. /\ o \in Seq(FrameType) /\ g \subseteq 1 .. n /\ Numbered(o, n) /\ Ordered(o, g, c) /\ n \in Nat
  BY <1>6, OutputType, ControlsRead DEF SentInv
<1>8. writer \in Seq(FrameType) /\ queue \in Seq(FrameType) /\ Len(writer) = 1 /\ Head(writer) = writer[1]
  <2>1. writer \in Seq(FrameType) /\ queue \in Seq(FrameType) /\ Len(writer) <= 1
    BY DEF QueuesOK
  <2>2. PICK len : len = Len(writer)
    OBVIOUS
  <2>3. len \in Nat /\ len # 0 /\ len <= 1
    BY <1>1, <2>1, <2>2, EmptySeq
  <2>4. len = 1
    BY <2>3
  <2>5. Head(writer) = writer[1]
    BY <1>1, <2>1
  <2> QED
    BY <2>1, <2>2, <2>4, <2>5
<1>9. o # <<>> /\ Head(o) = Head(writer) /\ Tail(o) = queue
  BY <1>6, <1>8, FirstOut DEF Output
<1>10. CASE ~closed
  <2>1. queue' = queue /\ got' = GotAfter(o, g)
    BY <1>6, <1>9, <1>10 DEF Write, GotAfter
  <2>2. Output' = Tail(o)
    BY <1>1, <1>8, <1>9, <2>1 DEF Output
  <2>3. /\ Numbered(Tail(o), n) /\ Ordered(Tail(o), GotAfter(o, g), c)
        /\ \A id : Fresh(o, g, id) => Fresh(Tail(o), GotAfter(o, g), id)
    BY <1>7, <1>9, NumberedTail, OrderedTail, FreshTail
  <2>4. GotAfter(o, g) \subseteq 1 .. n
    <3>1. Head(o) = o[1] /\ 1 \in 1 .. Len(o)
      BY <1>7, <1>9, TailFacts
    <3>2. Head(o).what = "final" => Head(o).id \in 1 .. n
      BY <1>7, <3>1 DEF Numbered
    <3> QED
      BY <1>7, <3>2 DEF GotAfter
  <2>5. /\ Numbered(Output', n) /\ Ordered(Output', got', c) /\ got' \subseteq 1 .. n
        /\ \A id : Fresh(Output, got, id) => Fresh(Output', got', id)
    BY <1>6, <2>1, <2>2, <2>3, <2>4
  <2> HIDE DEF Inv
  <2> QED
    BY <1>1, <1>2, <1>4, <1>5, <1>6, <2>5 DEF SentInv, Inv
<1>11. CASE closed
  <2>1. queue' = <<>> /\ got' = g
    BY <1>6, <1>11 DEF Write
  <2>2. Output' = <<>>
    BY <1>1, <2>1 DEF Output
  <2>3. /\ Numbered(<<>>, n) /\ Ordered(<<>>, g, c) /\ \A id : Fresh(o, g, id) => Fresh(<<>>, g, id)
    <3>1. \A id : Fresh(o, g, id) => id \notin g
      BY DEF Fresh
    <3> QED
      BY <3>1, EmptyOutput
  <2>4. /\ Numbered(Output', n) /\ Ordered(Output', got', c) /\ got' \subseteq 1 .. n
        /\ \A id : Fresh(Output, got, id) => Fresh(Output', got', id)
    BY <1>6, <1>7, <2>1, <2>2, <2>3
  <2> QED
    BY <1>1, <1>2, <1>4, <1>5, <1>6, <2>4 DEF SentInv, Inv
<1> QED
  BY <1>10, <1>11

-----------------------------------------------------------------------------
(* The specification *)

LEMMA NextInv == Inv /\ [Next]_vars => Inv'
<1> SUFFICES ASSUME Inv, [Next]_vars PROVE Inv'
  OBVIOUS
<1>1. CASE UNCHANGED vars
  <2>1. UNCHANGED <<kind, main, jobs, worker, writing, queue, writer, got>> /\ UNCHANGED <<closed, watcher, events>>
    BY <1>1 DEF vars
  <2>2. LoopInv' /\ JobsInv' /\ WorkersInv'
    BY <2>1, AsideInv DEF Inv, LoopInv
  <2>3. QueuesOK' /\ Output' = Output /\ (InHand' => InHand /\ main'.id = main.id)
    BY <2>1 DEF Inv, QueuesOK, Output, InHand
  <2>4. SentInv'
    BY <2>1, <2>3, SentSame DEF Inv, SentInv
  <2> QED
    BY <2>2, <2>3, <2>4 DEF Inv
<1>2. CASE ThreadStep
  BY <1>2, HandleCtlInv, ReplyCtlInv, QueueJobInv, EofInv, WriterTakeInv, WriteInv, SendEventInv, TakeJobInv,
     SendReplyInv DEF ThreadStep
<1> QED
  BY <1>1, <1>2, ReadFrameInv, NoticeInv, GetStuckInv DEF Next

LEMMA Invariance == Spec => []Inv
BY InitInv, NextInv, PTL DEF Spec

LEMMA FrameRange ==
  ASSUME NEW f \in FrameType, NEW n \in 0 .. MaxRequests, IF f.what = "event" THEN f.id = None ELSE f.id \in 1 .. n
  PROVE  f \in Frames
<1>1. f.what # "event" => f.id \in Ids
  BY ConstantFacts
<1>2. f = [id |-> f.id, what |-> f.what] /\ f.what \in {"final", "chunk", "event"}
  BY DEF FrameType
<1> QED
  BY <1>1, <1>2 DEF Frames, Final, Chunk, EventFrame

LEMMA Narrower ==
  ASSUME NEW S, NEW T, NEW s \in Seq(S), \A j \in 1 .. Len(s) : s[j] \in T
  PROVE  s \in Seq(T)
<1>1. Len(s) \in Nat /\ s \in [1 .. Len(s) -> T]
  BY LenProperties
<1> QED
  BY <1>1, SeqDef

LEMMA InvTypes == Inv => TypeOK
<1> SUFFICES ASSUME Inv PROVE TypeOK
  OBVIOUS
<1>1. LoopInv /\ JobsInv /\ WorkersInv /\ QueuesOK /\ Numbered(Output, Last) /\ got \subseteq 1 .. Last
  BY DEF Inv, SentInv
<1>2. Last \in 0 .. MaxRequests /\ Last \in Nat
  BY <1>1, ControlsRead DEF LoopInv
<1>3. queue \in Seq(FrameType) /\ writer \in Seq(FrameType) /\ Output = writer \o queue
  BY <1>1 DEF QueuesOK, Output
<1>4. \A j \in 1 .. Len(writer) : writer[j] \in Frames
  <2>1. ASSUME NEW j \in 1 .. Len(writer) PROVE writer[j] \in Frames
    <3>1. writer[j] \in FrameType /\ j \in 1 .. Len(Output) /\ Output[j] = writer[j]
      BY <1>3
    <3>2. IF writer[j].what = "event" THEN writer[j].id = None ELSE writer[j].id \in 1 .. Last
      BY <1>1, <3>1 DEF Numbered
    <3> QED
      BY <1>2, <3>1, <3>2, FrameRange
  <2> QED
    BY <2>1
<1>5. \A j \in 1 .. Len(queue) : queue[j] \in Frames
  <2>1. ASSUME NEW j \in 1 .. Len(queue) PROVE queue[j] \in Frames
    <3>1. /\ queue[j] \in FrameType /\ Len(writer) + j \in 1 .. Len(Output) /\ Output[Len(writer) + j] = queue[j]
      BY <1>3
    <3>2. IF queue[j].what = "event" THEN queue[j].id = None ELSE queue[j].id \in 1 .. Last
      BY <1>1, <3>1 DEF Numbered
    <3> QED
      BY <1>2, <3>1, <3>2, FrameRange
  <2> QED
    BY <2>1
<1>6. queue \in Seq(Frames) /\ writer \in Seq(Frames)
  BY <1>3, <1>4, <1>5, Narrower
<1>7. \A w \in Workers : worker[w].left \in Seq(Frames)
  <2>1. ASSUME NEW w \in Workers PROVE worker[w].left \in Seq(Frames)
    <3>1. CASE worker[w].id = None
      <4>1. worker[w].left = <<>>
        BY <1>1, <3>1 DEF WorkersInv
      <4>2. <<>> \in Seq(Frames)
        OBVIOUS
      <4> QED
        BY <4>1, <4>2
    <3>2. CASE worker[w].id # None
      <4>1. PICK id : id = worker[w].id
        OBVIOUS
      <4>2. id \in Ids /\ worker[w].left \in Leftover(id)
        BY <1>1, <3>2, <4>1 DEF WorkersInv, Pooled
      <4>3. Final(id) \in Frames /\ Chunk(id) \in Frames
        BY <4>2 DEF Frames
      <4>4. <<>> \in Seq(Frames) /\ <<Final(id)>> \in Seq(Frames) /\ <<Chunk(id), Final(id)>> \in Seq(Frames)
        BY <4>3
      <4> QED
        BY <4>2, <4>4 DEF Leftover
    <3> QED
      BY <3>1, <3>2
  <2> QED
    BY <2>1
<1>8. worker \in [Workers -> [id : 0 .. MaxRequests, left : Seq(Frames), stuck : BOOLEAN]]
  <2>1. worker \in [Workers -> WorkerType]
    BY <1>1 DEF WorkersInv
  <2>2. \A w \in Workers : worker[w] \in [id : 0 .. MaxRequests, left : Seq(Frames), stuck : BOOLEAN]
    BY <1>7, <2>1 DEF WorkerType
  <2> QED
    BY <2>1, <2>2
<1>9. got \subseteq Ids
  BY <1>1, <1>2, ConstantFacts
<1>10. \A v, w \in Workers : worker[v].id = worker[w].id /\ worker[v].id # None => v = w
  BY <1>1 DEF WorkersInv
<1> QED
  BY <1>1, <1>6, <1>8, <1>9, <1>10 DEF TypeOK, LoopInv, JobsInv, QueuesOK, MainType

\* For every pool and every capacity of the queues: both queues stay within
\* their bounds, no request is with two workers, and every frame that is on its
\* way belongs to a request that was read.
THEOREM TypeCorrect == Spec => []TypeOK
BY Invariance, InvTypes, PTL

LEMMA InvOrdered == Inv => RepliesInOrder
<1> SUFFICES ASSUME Inv PROVE RepliesInOrder
  OBVIOUS
<1>1. Ordered(Output, got, Controls) /\ Numbered(Output, Last) /\ got \subseteq 1 .. Last
  BY DEF Inv, SentInv
<1>2. Last \in Nat /\ Last <= MaxRequests
  BY ControlsRead DEF Inv
<1>3. Output \in Seq(FrameType)
  BY OutputType DEF Inv
<1>4. \A e \in 0 .. Last : Control(e) <=> e \in Controls
  BY <1>2, ConstantFacts DEF Control, Controls, None
<1>5. \A j \in 1 .. Len(Output) : Output[j].id \in 0 .. Last
  BY <1>1, <1>2 DEF Numbered, None
<1>6. ASSUME NEW j \in DOMAIN Output,
             NEW e \in got \cup {Output[i].id : i \in {k \in 1 .. j - 1 : Output[k].what = "final"}}
      PROVE  /\ e # Output[j].id
             /\ Control(Output[j].id) /\ Control(e) => e < Output[j].id
  <2>1. j \in 1 .. Len(Output)
    BY <1>3
  <2>2. Control(Output[j].id) <=> Output[j].id \in Controls
    BY <1>4, <1>5, <2>1
  <2>3. CASE e \in got
    <3>1. Control(e) <=> e \in Controls
      BY <1>1, <1>2, <1>4, <2>3
    <3> QED
      BY <1>1, <2>1, <2>2, <2>3, <3>1 DEF Ordered
  <2>4. CASE e \notin got
    <3>1. PICK i \in 1 .. j - 1 : Output[i].what = "final" /\ e = Output[i].id
      BY <2>4
    <3>2. i \in 1 .. Len(Output)
      BY <2>1, <1>3
    <3>3. Control(e) <=> e \in Controls
      BY <1>4, <1>5, <3>1, <3>2
    <3> QED
      BY <1>1, <2>1, <2>2, <3>1, <3>3 DEF Ordered
  <2> QED
    BY <2>3, <2>4
<1> QED
  BY <1>6 DEF RepliesInOrder

\* For every pool and every capacity of the queues: a stream's final reply is
\* its last frame, no request is answered twice, and the control requests are
\* answered in the order they were read, however the workers, the watcher's
\* thread and the writer interleave.
THEOREM AnswersOrdered == Spec => []RepliesInOrder
BY Invariance, InvOrdered, PTL
=============================================================================
