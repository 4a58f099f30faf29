----------------------------- MODULE ServerLoop -----------------------------
(***************************************************************************)
(* The server process (server/src/main.rs, framing.rs): the main loop that *)
(* reads frames, the bounded pool of workers behind a bounded queue, the   *)
(* watcher's thread, and the single writer behind a bounded queue of       *)
(* frames.  A thread that sends to a full queue blocks, and each thread    *)
(* can hold up others.  What requests do to files and children is in       *)
(* RevisionStore, DirCache and Exec.                                       *)
(***************************************************************************)
EXTENDS Integers, FiniteSets, Sequences

CONSTANTS
  Workers,                \* the FS_WORKER_COUNT threads
  FS_JOB_QUEUE_CAPACITY,
  WRITER_QUEUE_CAPACITY,
  Kinds,                  \* kinds of frames the client sends
  MaxRequests,            \* bound: frames the client sends
  MaxEvents,              \* bound: events of the watcher
  MaxStuck                \* bound: workers in a system call that never returns

Ids == 1 .. MaxRequests
None == 0

\* What a frame from the client turns out to be.  "stream" is answered by a
\* chunk and a final reply, "large" by a reply above MAX_FRAME_BYTES, "garbled"
\* is no JSON, "oversized" announces more than MAX_FRAME_BYTES.
AllKinds == {"hello", "watch", "fs", "stream", "large", "garbled", "oversized"}

ASSUME ServerLoopAssumption ==
  /\ FS_JOB_QUEUE_CAPACITY \in Nat \ {0} /\ WRITER_QUEUE_CAPACITY \in Nat \ {0}
  /\ Kinds \subseteq AllKinds
  /\ MaxRequests \in Nat /\ MaxEvents \in Nat /\ MaxStuck \in Nat

VARIABLES
  kind,     \* per id: the frame's kind, "unread" before the main loop has read it
  closed,   \* the client has closed the connection
  main,     \* the main loop: [at, id]
  jobs,     \* fs_tx and fs_rx
  worker,   \* per worker: [id, left, stuck], left the frames it has yet to send
  watcher,  \* the watcher's thread has an event to send
  queue,    \* tx and rx
  writer,   \* the frame being written, if any
  writing,  \* the writer thread runs
  got,      \* requests whose final reply the client has read
  events

vars == <<kind, closed, main, jobs, worker, watcher, queue, writer, writing, got,
          events>>

Final(id) == [id |-> id, what |-> "final"]
Chunk(id) == [id |-> id, what |-> "chunk"]
EventFrame == [id |-> None, what |-> "event"]

At(place) == main.at = place
GoTo(place, id) == main' = [at |-> place, id |-> id]
Runs == ~At("ended")
Idle == [id |-> None, left |-> <<>>, stuck |-> FALSE]

-----------------------------------------------------------------------------
(* The queue of the writer *)

\* Mutant: a frame that finds the queue full is lost.
TrySend(frame) ==
  queue' = IF writing /\ Len(queue) < WRITER_QUEUE_CAPACITY THEN Append(queue, frame) ELSE queue

\* Mutant: the queue has no limit.
Unbounded(frame) == queue' = IF writing THEN Append(queue, frame) ELSE queue

\* tx.send blocks while the queue is full, and fails once the writer has ended.
TxSend(frame) ==
  /\ writing => Len(queue) < WRITER_QUEUE_CAPACITY
  /\ queue' = IF writing THEN Append(queue, frame) ELSE queue

WriterTake ==
  /\ Runs /\ writing /\ writer = <<>> /\ queue # <<>>
  /\ writer' = <<Head(queue)>> /\ queue' = Tail(queue)
  /\ UNCHANGED <<kind, closed, main, jobs, worker, watcher, writing, got, events>>

\* The writer blocks until the client has room for the frame, and ends when the
\* client is gone.
Write ==
  /\ Runs /\ writer # <<>>
  /\ writer' = <<>>
  /\ \/ /\ ~closed
        /\ got' = IF Head(writer).what = "final" THEN got \cup {Head(writer).id} ELSE got
        /\ UNCHANGED <<queue, writing>>
     \/ closed /\ writing' = FALSE /\ queue' = <<>> /\ UNCHANGED got
  /\ UNCHANGED <<kind, closed, main, jobs, worker, watcher, events>>

-----------------------------------------------------------------------------
(* The main loop *)

\* Mutant: control requests go to the pool.
NoneInline == {}

Inline == {"hello", "watch"}

Read == {id \in Ids : kind[id] # "unread"}

\* The next frame; one that was sent before the client closed is still read.
ReadFrame ==
  /\ At("reading")
  /\ LET id == Cardinality(Read) + 1 IN
     /\ id \in Ids
     /\ \E k \in Kinds :
          /\ kind' = [kind EXCEPT ![id] = k]
          /\ \/ k = "oversized" /\ GoTo("ended", None)
             \/ k = "garbled" /\ GoTo("reading", None)
             \/ k \in Inline /\ GoTo(k, id)
             \/ k \notin Inline \cup {"oversized", "garbled"} /\ GoTo("queueing", id)
  /\ UNCHANGED <<closed, jobs, worker, watcher, queue, writer, writing, got, events>>

\* handle_ctl.  A watch is registered by the watcher's thread, which must not be
\* blocked sending an event.
HandleCtl ==
  /\ At("hello") \/ (At("watch") /\ ~watcher)
  /\ GoTo("replying", main.id)
  /\ UNCHANGED <<kind, closed, jobs, worker, watcher, queue, writer, writing, got,
                 events>>

ReplyCtl ==
  /\ At("replying")
  /\ TxSend(Final(main.id))
  /\ GoTo("reading", None)
  /\ UNCHANGED <<kind, closed, jobs, worker, watcher, writer, writing, got, events>>

\* fs_tx.send blocks while the queue is full.  It cannot fail: main holds the
\* receiver too.
QueueJob ==
  /\ At("queueing") /\ Len(jobs) < FS_JOB_QUEUE_CAPACITY
  /\ jobs' = Append(jobs, main.id)
  /\ GoTo("reading", None)
  /\ UNCHANGED <<kind, closed, worker, watcher, queue, writer, writing, got, events>>

\* Mutant: main joins the workers.
JoinWorkers == \A w \in Workers : worker[w] = Idle

NoJoin == TRUE

\* EOF: main returns and the process ends, whatever the other threads do.
Eof ==
  /\ At("reading") /\ closed
  /\ NoJoin
  /\ GoTo("ended", None)
  /\ UNCHANGED <<kind, closed, jobs, worker, watcher, queue, writer, writing, got,
                 events>>

-----------------------------------------------------------------------------
(* Workers and the watcher's thread *)

\* What handle_fs sends.  A reply above the limit is dropped by send.
Replies(id) ==
  CASE kind[id] = "stream" -> <<Chunk(id), Final(id)>>
    [] kind[id] = "large" -> <<>>
    [] OTHER -> <<Final(id)>>

TakeJob(w) ==
  /\ Runs /\ worker[w] = Idle /\ jobs # <<>>
  /\ jobs' = Tail(jobs)
  /\ worker' = [worker EXCEPT ![w] = [id |-> Head(jobs), left |-> Replies(Head(jobs)),
                                      stuck |-> FALSE]]
  /\ UNCHANGED <<kind, closed, main, watcher, queue, writer, writing, got, events>>

\* A system call on a FIFO or an unavailable mount.
GetStuck(w) ==
  /\ Runs /\ worker[w].id # None /\ ~worker[w].stuck
  /\ worker[w].left = Replies(worker[w].id)
  /\ Cardinality({v \in Workers : worker[v].stuck}) < MaxStuck
  /\ worker' = [worker EXCEPT ![w].stuck = TRUE]
  /\ UNCHANGED <<kind, closed, main, jobs, watcher, queue, writer, writing, got,
                 events>>

\* A stream stops at a chunk that nobody receives.
SendReply(w) ==
  /\ Runs /\ worker[w].id # None /\ ~worker[w].stuck
  /\ \/ /\ worker[w].left = <<>>
        /\ worker' = [worker EXCEPT ![w] = Idle]
        /\ UNCHANGED queue
     \/ /\ worker[w].left # <<>>
        /\ TxSend(Head(worker[w].left))
        /\ worker' = [worker EXCEPT ![w].left = IF writing THEN Tail(@) ELSE <<>>]
  /\ UNCHANGED <<kind, closed, main, jobs, watcher, writer, writing, got, events>>

Notice ==
  /\ Runs /\ ~watcher /\ events < MaxEvents
  /\ watcher' = TRUE /\ events' = events + 1
  /\ UNCHANGED <<kind, closed, main, jobs, worker, queue, writer, writing, got>>

SendEvent ==
  /\ Runs /\ watcher
  /\ TxSend(EventFrame)
  /\ watcher' = FALSE
  /\ UNCHANGED <<kind, closed, main, jobs, worker, writer, writing, got, events>>

-----------------------------------------------------------------------------
(* The client *)

ClientClose ==
  /\ ~closed
  /\ closed' = TRUE
  /\ UNCHANGED <<kind, main, jobs, worker, watcher, queue, writer, writing, got,
                 events>>

-----------------------------------------------------------------------------
Init ==
  /\ kind = [id \in Ids |-> "unread"]
  /\ closed = FALSE
  /\ main = [at |-> "reading", id |-> None]
  /\ jobs = <<>> /\ worker = [w \in Workers |-> Idle]
  /\ watcher = FALSE /\ queue = <<>> /\ writer = <<>> /\ writing = TRUE
  /\ got = {} /\ events = 0

\* Steps of the server's threads; the others are the choice of the client, the
\* file system or the mount.
ThreadStep ==
  \/ HandleCtl \/ ReplyCtl \/ QueueJob \/ Eof
  \/ WriterTake \/ Write \/ SendEvent
  \/ \E w \in Workers : TakeJob(w) \/ SendReply(w)

Next ==
  \/ ThreadStep \/ ReadFrame \/ ClientClose \/ Notice
  \/ \E w \in Workers : GetStuck(w)

Spec == Init /\ [][Next]_vars

\* The threads of the server do not all stop while one of them can run, and a
\* client that keeps the connection makes room for what it is sent.
FairSpec == Spec /\ WF_vars(ThreadStep)

-----------------------------------------------------------------------------
(* Properties *)

Frames == {Final(id) : id \in Ids} \cup {Chunk(id) : id \in Ids} \cup {EventFrame}

\* Type invariant of the process: "A fixed-size pool bounds both concurrent
\* filesystem work and queued request memory", also while everyone is blocked.
TypeOK ==
  /\ kind \in [Ids -> Kinds \cup {"unread"}]
  /\ closed \in BOOLEAN
  /\ main \in [at : {"reading", "hello", "watch", "replying", "queueing", "ended"}, id : 0 .. MaxRequests]
  /\ jobs \in Seq(Ids) /\ Len(jobs) <= FS_JOB_QUEUE_CAPACITY
  /\ worker \in [Workers -> [id : 0 .. MaxRequests, left : Seq(Frames), stuck : BOOLEAN]]
  /\ \A v, w \in Workers : worker[v].id = worker[w].id /\ worker[v].id # None => v = w
  /\ watcher \in BOOLEAN /\ writing \in BOOLEAN /\ events \in 0 .. MaxEvents
  /\ queue \in Seq(Frames) /\ Len(queue) <= WRITER_QUEUE_CAPACITY
  /\ writer \in Seq(Frames) /\ Len(writer) <= 1
  /\ got \subseteq Ids

\* What is on its way to the client, in order.
Output == writer \o queue

Control(id) == id # None /\ kind[id] \in {"hello", "watch"}

\* A stream's final reply is its last frame, nothing is answered twice, and
\* control requests are answered in the order they were sent, which the
\* client's bookkeeping of watches relies on.
RepliesInOrder ==
  \A j \in DOMAIN Output :
    LET id == Output[j].id
        earlier == got \cup {Output[i].id : i \in {k \in 1 .. j - 1 : Output[k].what = "final"}}
    IN /\ id \notin earlier
       /\ Control(id) => \A e \in earlier : Control(e) => e < id

\* The request gets an answer unless its worker never finishes it.
Answerable(id) ==
  /\ kind[id] \in {"hello", "watch", "fs", "stream"}
  /\ \A w \in Workers : worker[w].stuck => worker[w].id # id

\* "slow reads do not head-of-line-block metadata ops": while the connection
\* lasts and one worker is free, every request is answered, however full the
\* queues were and whatever else was malformed, too large or stuck.
RequestsAnswered ==
  <>[](closed \/ ~Runs \/ \A id \in Ids : Answerable(id) => id \in got)

\* "EOF means the sole client is gone ...  Do not join filesystem workers here":
\* the process ends after its client although a worker never returns and
\* threads are blocked on full queues.
EofEndsProcess == closed ~> ~Runs
=============================================================================
