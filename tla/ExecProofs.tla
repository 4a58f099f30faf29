----------------------------- MODULE ExecProofs -----------------------------
(***************************************************************************)
(* Proofs about Exec for any number of calls, process ids, bytes and other *)
(* programs, and any output limit.                                         *)
(***************************************************************************)
EXTENDS Exec, TLAPS

\* The parts of TypeOK.
WorkerOK ==
  /\ pc \in [Execs -> {"idle", "spawned", "done"} \cup InProgress]
  /\ result \in [Execs -> {"none", "ok", "refused", "timeout", "overflow", "failed"}]
  /\ late \in [Execs -> BOOLEAN]

ProcessesOK ==
  /\ child \in [Execs -> {"none", "run", "zombie", "reaped"}]
  /\ pid \in [Execs -> 0 .. MaxPids]
  /\ kin \in [Execs -> {"none", "group", "away", "dead"}]
  /\ ends \in [Execs -> [Streams -> SUBSET {"child", "kin"}]]

PipesOK ==
  /\ pipe \in [Execs -> [Streams -> 0 .. MaxBytes]]
  /\ wrote \in [Execs -> [Streams -> 0 .. MaxBytes]]
  /\ \A e \in Execs, s \in Streams : pipe[e][s] <= wrote[e][s]

ReaderStates == {"off", "read", "over", "stored", "ok", "error", "failed"}

ReadersOK ==
  /\ reader \in [Execs -> [Streams -> ReaderStates]]
  /\ used \in [Execs -> Nat]
  /\ overflow \in [Execs -> BOOLEAN]

\* Every byte read is counted once.
Counted == \A e \in Execs : used[e] = wrote[e]["stdout"] - pipe[e]["stdout"]
                                       + wrote[e]["stderr"] - pipe[e]["stderr"]

ServerOK ==
  /\ registry \subseteq Pids /\ others \subseteq Pids /\ doomed \subseteq Pids
  /\ started \in 0 .. MaxOthers /\ harmed \in {"none", "worker", "main"}
  /\ main \in {"serve", "exiting", "gone"} /\ running \subseteq Execs
  /\ \A e \in Execs : pc[e] \in {"spawned"} \cup InProgress => pid[e] \in Pids

TypeInv == WorkerOK /\ ProcessesOK /\ PipesOK /\ ReadersOK /\ Counted /\ ServerOK

\* How far the worker is tells whether its command is reaped, and an id whose
\* process is not reaped or whose group has members belongs to no other program.
Command(e) ==
  /\ pc[e] = "idle" => pid[e] = 0 /\ child[e] = "none" /\ kin[e] = "none"
  /\ pc[e] \in {"spawned", "poll", "kill", "wait"} => child[e] \in {"run", "zombie"}
  /\ pc[e] \in Streams => child[e] = "reaped"
  /\ child[e] \in {"run", "zombie"} \/ kin[e] = "group" => pid[e] \notin others

CommandInv == harmed # "worker" /\ \A e \in Execs : Command(e)

\* What a reader has seen: the end of a pipe is final, because a command that
\* runs holds it open, and a total above the limit stays with a reader.
Seen(e) ==
  /\ pc[e] \in {"idle", "spawned"} => \A s \in Streams : reader[e][s] = "off"
  /\ child[e] = "run" => \A s \in Streams : "child" \in ends[e][s]
  /\ \A s \in Streams : reader[e][s] = "ok" => pipe[e][s] = 0 /\ ends[e][s] = {}
  /\ used[e] > EXEC_OUTPUT_LIMIT =>
       \E s \in Streams : reader[e][s] \in {"over", "stored", "error"}
  /\ pc[e] = "stderr" => reader[e]["stdout"] = "ok"
  /\ result[e] = "ok" => /\ pc[e] = "done" /\ child[e] = "reaped"
                         /\ \A s \in Streams : reader[e][s] = "ok"

SeenInv == \A e \in Execs : Seen(e)

\* Another call has the same process id.
Shared(e) == \E f \in Execs \ {e} : pid[f] = pid[e]

\* A call in progress is registered, and main kills what was registered.
Tracked(e) ==
  /\ main = "serve" /\ pc[e] \in InProgress => pid[e] \in registry \/ Shared(e)
  /\ e \in running => /\ pc[e] \in InProgress \cup {"done"} /\ pid[e] \in Pids
                      /\ \/ pid[e] \in doomed
                         \/ child[e] # "run" /\ kin[e] # "group"
                         \/ Shared(e)

TrackedInv ==
  /\ main = "serve" => running = {}
  /\ main = "gone" => doomed = {}
  /\ \A e \in Execs : Tracked(e)

-----------------------------------------------------------------------------
LEMMA TypeInvType == TypeInv => TypeOK
BY DEF TypeInv, TypeOK, WorkerOK, ProcessesOK, PipesOK, ReadersOK, ReaderStates, Counted, ServerOK

\* One stream of one call changes.
LEMMA UpdateType ==
  ASSUME NEW S, NEW f \in [Execs -> [Streams -> S]], NEW e \in Execs, NEW s \in Streams,
         NEW v \in S
  PROVE  [f EXCEPT ![e][s] = v] \in [Execs -> [Streams -> S]]
OBVIOUS

LEMMA TypeInit == Init => TypeInv
BY ExecAssumption
   DEF Init, TypeInv, WorkerOK, ProcessesOK, PipesOK, ReadersOK, Counted, ServerOK,
       ReaderStates, InProgress, Streams, Pids

\* killpg leaves the types of what it changes alone.
LEMMA KillGroupType ==
  ASSUME TypeInv, NEW p \in Pids, NEW by \in {"worker", "main"}, KillGroup(p, by)
  PROVE  /\ ProcessesOK'
         /\ others' \subseteq Pids /\ harmed' \in {"none", "worker", "main"}
BY DEF TypeInv, ProcessesOK, ServerOK, KillGroup, Members, Closed

LEMMA TypeNext == TypeInv /\ [Next]_vars => TypeInv'
<1> SUFFICES ASSUME TypeInv, [Next]_vars PROVE TypeInv'
  OBVIOUS
<1> USE DEF worker, command, readers, world, server
<1>a. WorkerOK /\ ProcessesOK /\ PipesOK /\ ReadersOK /\ Counted /\ ServerOK
  BY DEF TypeInv
<1>w. UNCHANGED worker => WorkerOK'
  BY <1>a DEF WorkerOK
<1>p. UNCHANGED <<child, pid, kin, ends>> => ProcessesOK'
  BY <1>a DEF ProcessesOK
<1>b. UNCHANGED <<pipe, wrote>> => PipesOK'
  BY <1>a DEF PipesOK
<1>r. UNCHANGED readers => ReadersOK'
  BY <1>a DEF ReadersOK
<1>c. UNCHANGED <<pipe, wrote, used>> => Counted'
  BY <1>a DEF Counted
<1>s. UNCHANGED <<registry, others, doomed, started, harmed, main, running, pc, pid>> => ServerOK'
  BY <1>a DEF ServerOK
<1>1. ASSUME NEW p \in Pids, OtherStarts(p) PROVE TypeInv'
  <2>1. ServerOK'
    BY <1>1, <1>a, ExecAssumption DEF OtherStarts, ServerOK
  <2> QED
    BY <1>1, <2>1, <1>w, <1>p, <1>b, <1>r, <1>c DEF OtherStarts, TypeInv
<1>2. ASSUME NEW e \in Execs, Fork(e) \/ ChildExits(e) \/ KinExits(e) PROVE TypeInv'
  <2>1. ProcessesOK'
    <3>1. CASE Fork(e)
      <4>1. PICK k \in {"group", "away"}, kept \in SUBSET Streams :
              /\ kin' = [kin EXCEPT ![e] = k]
              /\ ends' = [ends EXCEPT ![e] = [s \in Streams |->
                            IF s \in kept THEN @[s] \cup {"kin"} ELSE @[s]]]
        BY <3>1 DEF Fork
      <4>2. \A s \in Streams : ends[e][s] \cup {"kin"} \in SUBSET {"child", "kin"}
        BY <1>a DEF ProcessesOK
      <4> QED
        BY <3>1, <4>1, <4>2, <1>a DEF Fork, ProcessesOK
    <3>2. CASE ChildExits(e) \/ KinExits(e)
      BY <3>2, <1>a DEF ChildExits, KinExits, Closed, ProcessesOK
    <3> QED
      BY <1>2, <3>1, <3>2
  <2> QED
    BY <1>2, <2>1, <1>w, <1>b, <1>r, <1>c, <1>s DEF Fork, ChildExits, KinExits, TypeInv
<1>3. ASSUME NEW e \in Execs, NEW s \in Streams, WriteByte(e, s) PROVE TypeInv'
  <2>1. PipesOK'
    BY <1>3, <1>a, ExecAssumption DEF WriteByte, PipesOK
  <2>2. Counted'
    BY <1>3, <1>a DEF WriteByte, PipesOK, ReadersOK, Counted, Streams
  <2> QED
    BY <1>3, <2>1, <2>2, <1>w, <1>p, <1>r, <1>s DEF WriteByte, TypeInv
<1>4. ASSUME NEW e \in Execs, Refuse(e) \/ Elapse(e) PROVE TypeInv'
  <2>1. WorkerOK' /\ ServerOK'
    BY <1>4, <1>a DEF Refuse, Elapse, WorkerOK, ServerOK, InProgress, Streams
  <2> QED
    BY <1>4, <2>1, <1>p, <1>b, <1>r, <1>c DEF Refuse, Elapse, TypeInv
<1>5. ASSUME NEW e \in Execs, Spawn(e) PROVE TypeInv'
  <2>1. WorkerOK' /\ ProcessesOK'
    BY <1>5, <1>a DEF Spawn, WorkerOK, ProcessesOK, Pids
  <2>2. ServerOK'
    BY <1>5, <1>a DEF Spawn, WorkerOK, ProcessesOK, ServerOK
  <2> QED
    BY <1>5, <2>1, <2>2, <1>b, <1>r, <1>c DEF Spawn, TypeInv
<1>6. ASSUME NEW e \in Execs, Register(e) PROVE TypeInv'
  <2>1. WorkerOK' /\ ReadersOK'
    BY <1>6, <1>a DEF Register, WorkerOK, ReadersOK, ReaderStates, InProgress
  <2>2. ServerOK'
    BY <1>6, <1>a DEF Register, WorkerOK, ServerOK
  <2> QED
    BY <1>6, <2>1, <2>2, <1>p, <1>b, <1>c DEF Register, TypeInv
<1>7. ASSUME NEW e \in Execs, Reap(e) PROVE TypeInv'
  <2>1. WorkerOK' /\ ProcessesOK'
    BY <1>7, <1>a DEF Reap, WorkerOK, ProcessesOK, InProgress, Streams
  <2>2. ServerOK'
    BY <1>7, <1>a DEF Reap, WorkerOK, ServerOK, InProgress
  <2> QED
    BY <1>7, <2>1, <2>2, <1>b, <1>r, <1>c DEF Reap, TypeInv
<1>8. ASSUME NEW e \in Execs, PollEnds(e, GiveUp(e)) \/ PollEnds(e, {"failed"}) PROVE TypeInv'
  <2>1. WorkerOK'
    BY <1>8, <1>a DEF PollEnds, GiveUp, WorkerOK, InProgress
  <2>2. ServerOK'
    BY <1>8, <1>a DEF PollEnds, WorkerOK, ServerOK, InProgress
  <2> QED
    BY <1>8, <2>1, <2>2, <1>p, <1>b, <1>r, <1>c DEF PollEnds, TypeInv
<1>9. ASSUME NEW e \in Execs, KillAndWait(e) PROVE TypeInv'
  <2>1. WorkerOK'
    BY <1>9, <1>a DEF KillAndWait, KillThenWait, WorkerOK, InProgress
  <2>2. pid[e] \in Pids
    BY <1>9, <1>a DEF KillAndWait, KillThenWait, ServerOK, InProgress
  <2>3. ProcessesOK' /\ ServerOK'
    <3>1. CASE pc[e] = "kill" /\ KillGroup(pid[e], "worker") /\ UNCHANGED registry
      <4>1. /\ ProcessesOK'
            /\ others' \subseteq Pids /\ harmed' \in {"none", "worker", "main"}
        BY <3>1, <2>2, KillGroupType
      <4> QED
        BY <1>9, <3>1, <4>1, <2>1, <1>a
           DEF KillAndWait, KillThenWait, KillGroup, WorkerOK, ServerOK, InProgress
    <3>2. CASE pc[e] = "wait" /\ child' = [child EXCEPT ![e] = "reaped"]
               /\ registry' = registry \ {pid[e]} /\ UNCHANGED <<pid, kin, ends, world>>
      BY <1>9, <3>2, <1>a DEF KillAndWait, KillThenWait, WorkerOK, ProcessesOK, ServerOK, InProgress
    <3> QED
      BY <1>9, <3>1, <3>2 DEF KillAndWait, KillThenWait
  <2>4. UNCHANGED <<pipe, wrote>>
    BY <1>9 DEF KillAndWait, KillThenWait, KillGroup
  <2> QED
    BY <1>9, <2>1, <2>3, <2>4, <1>b, <1>r, <1>c DEF KillAndWait, TypeInv
<1>10. ASSUME NEW e \in Execs, NEW s \in Streams, Collect(e, s) PROVE TypeInv'
  <2>1. WorkerOK'
    BY <1>10, <1>a DEF Collect, Return, WorkerOK, InProgress, Streams
  <2>2. ServerOK'
    BY <1>10, <1>a DEF Collect, Return, WorkerOK, ServerOK, InProgress, Streams
  <2> QED
    BY <1>10, <2>1, <2>2, <1>p, <1>b, <1>r, <1>c DEF Collect, TypeInv
<1>11. ASSUME NEW e \in Execs, NEW s \in Streams, ReadSome(e, s) PROVE TypeInv'
  <2>1. PICK n \in 1 .. pipe[e][s] :
          /\ pipe' = [pipe EXCEPT ![e][s] = @ - n]
          /\ used' = [used EXCEPT ![e] = FetchAdd(e, s, n)]
          /\ reader' = IF used'[e] > EXEC_OUTPUT_LIMIT
                       THEN [reader EXCEPT ![e][s] = "over"] ELSE reader
    BY <1>11 DEF ReadSome
  <2>2. PipesOK'
    <3>1. pipe[e][s] - n \in 0 .. MaxBytes /\ pipe[e][s] - n <= wrote[e][s]
      BY <2>1, <1>a, ExecAssumption DEF PipesOK
    <3>2. pipe' \in [Execs -> [Streams -> 0 .. MaxBytes]]
      BY <2>1, <3>1, <1>a, UpdateType DEF PipesOK
    <3> QED
      BY <1>11, <2>1, <3>1, <3>2, <1>a DEF ReadSome, PipesOK
  <2>3. ReadersOK'
    <3>1. used[e] + n \in Nat
      BY <2>1, <1>a DEF PipesOK, ReadersOK
    <3>2. used' \in [Execs -> Nat]
      BY <2>1, <3>1, <1>a DEF FetchAdd, ReadersOK
    <3>3. reader' \in [Execs -> [Streams -> ReaderStates]]
      BY <1>11, <2>1, <1>a, UpdateType DEF ReadersOK, ReaderStates
    <3> QED
      BY <1>11, <3>2, <3>3, <1>a DEF ReadSome, ReadersOK
  <2>4. Counted'
    BY <1>11, <2>1, <1>a DEF ReadSome, FetchAdd, PipesOK, ReadersOK, Counted, Streams
  <2> QED
    BY <1>11, <2>2, <2>3, <2>4, <1>w, <1>p, <1>s DEF ReadSome, TypeInv
<1>12. ASSUME NEW e \in Execs, NEW s \in Streams,
              Overflow(e, s) \/ ReadEof(e, s) \/ ReadFails(e, s)
       PROVE  TypeInv'
  <2>1. ReadersOK'
    <3>1. \A r \in ReaderStates :
            [reader EXCEPT ![e][s] = r] \in [Execs -> [Streams -> ReaderStates]]
      BY <1>12, <1>a, UpdateType DEF ReadersOK
    <3>2. reader' \in [Execs -> [Streams -> ReaderStates]]
      BY <1>12, <3>1 DEF Overflow, ReadEof, ReadFails, ReaderStates
    <3> QED
      BY <1>12, <3>2, <1>a DEF Overflow, ReadEof, ReadFails, ReadersOK
  <2> QED
    BY <1>12, <2>1, <1>w, <1>p, <1>b, <1>c, <1>s DEF Overflow, ReadEof, ReadFails, TypeInv
<1>13. CASE DrainRegistry \/ Exit
  <2>1. ServerOK'
    BY <1>13, <1>a DEF DrainRegistry, Exit, ServerOK
  <2> QED
    BY <1>13, <2>1, <1>w, <1>p, <1>b, <1>r, <1>c DEF DrainRegistry, Exit, TypeInv
<1>14. CASE KillDoomed
  <2>1. PICK p \in doomed : KillRegistered(p) /\ doomed' = doomed \ {p}
    BY <1>14 DEF KillDoomed
  <2>2. p \in Pids
    BY <1>a, <2>1 DEF ServerOK
  <2>3. /\ ProcessesOK'
        /\ others' \subseteq Pids /\ harmed' \in {"none", "worker", "main"}
    BY <2>1, <2>2, KillGroupType DEF KillRegistered
  <2>4. ServerOK'
    BY <1>14, <2>1, <2>3, <1>a DEF KillDoomed, KillRegistered, KillGroup, ServerOK
  <2> QED
    BY <1>14, <2>1, <2>3, <2>4, <1>w, <1>b, <1>r, <1>c
       DEF KillDoomed, KillRegistered, KillGroup, TypeInv
<1>15. CASE UNCHANGED vars
  BY <1>15, <1>w, <1>p, <1>b, <1>r, <1>c, <1>s DEF vars, TypeInv
<1> QED
  BY <1>1, <1>2, <1>3, <1>4, <1>5, <1>6, <1>7, <1>8, <1>9, <1>10, <1>11, <1>12, <1>13,
     <1>14, <1>15 DEF Next, WorkerStep, ReaderStep

\* The state of calls, processes, pipes and registry stays within its types, and
\* no byte is counted twice or not at all, for any number of commands.
THEOREM TypeCorrect == Spec => []TypeOK
<1>1. Spec => []TypeInv
  BY TypeInit, TypeNext, PTL DEF Spec
<1> QED
  BY <1>1, TypeInvType, PTL

-----------------------------------------------------------------------------
(* Whom workers kill *)

LEMMA CommandInit == Init => CommandInv
BY DEF Init, CommandInv, Command, Streams

\* killpg by a worker whose command is not reaped, or by main.
LEMMA KillGroupCommand ==
  ASSUME TypeInv, CommandInv, NEW p, NEW by, KillGroup(p, by),
         by = "worker" => p \notin others
  PROVE  /\ harmed' # "worker"
         /\ \A f \in Execs :
              /\ pid'[f] = pid[f]
              /\ child'[f] = child[f] \/ (child[f] = "run" /\ child'[f] = "zombie")
              /\ kin'[f] = kin[f] \/ (kin[f] = "group" /\ kin'[f] = "dead")
         /\ others' \subseteq others
<1>1. harmed' # "worker"
  BY DEF CommandInv, KillGroup
<1> QED
  BY <1>1 DEF KillGroup

LEMMA CommandNext == TypeInv /\ CommandInv /\ [Next]_vars => CommandInv'
<1> SUFFICES ASSUME TypeInv, CommandInv, [Next]_vars PROVE CommandInv'
  OBVIOUS
<1> USE DEF worker, command, readers, world, server
<1>a. WorkerOK /\ ProcessesOK /\ ServerOK
  BY DEF TypeInv
<1>b. harmed # "worker" /\ \A f \in Execs : Command(f)
  BY DEF CommandInv
<1>u. ASSUME UNCHANGED <<pc, pid, child, kin, others, harmed>> PROVE CommandInv'
  BY <1>u, <1>b DEF CommandInv, Command
<1>1. ASSUME NEW p \in Pids, OtherStarts(p) PROVE CommandInv'
  BY <1>1, <1>a, <1>b DEF OtherStarts, Taken, CommandInv, Command
<1>2. ASSUME NEW e \in Execs, Fork(e) \/ ChildExits(e) \/ KinExits(e) PROVE CommandInv'
  <2>1. SUFFICES ASSUME NEW f \in Execs PROVE Command(f)'
    BY <1>2, <1>b DEF Fork, ChildExits, KinExits, CommandInv
  <2>2. CASE Fork(e)
    BY <2>2, <1>a, <1>b DEF Fork, ProcessesOK, Command
  <2>3. CASE ChildExits(e) \/ KinExits(e)
    BY <2>3, <1>a, <1>b DEF ChildExits, KinExits, ProcessesOK, Command, Streams
  <2> QED
    BY <1>2, <2>2, <2>3
<1>3. ASSUME NEW e \in Execs, Refuse(e) \/ Register(e) PROVE CommandInv'
  BY <1>3, <1>a, <1>b DEF Refuse, Register, WorkerOK, CommandInv, Command, Streams
<1>4. ASSUME NEW e \in Execs, Spawn(e) PROVE CommandInv'
  <2>1. PICK p \in Pids \ Taken : pid' = [pid EXCEPT ![e] = p]
    BY <1>4 DEF Spawn
  <2>2. p \notin others
    BY <2>1 DEF Taken
  <2> QED
    BY <1>4, <2>1, <2>2, <1>a, <1>b DEF Spawn, WorkerOK, ProcessesOK, CommandInv, Command, Streams
<1>5. ASSUME NEW e \in Execs, Reap(e) PROVE CommandInv'
  BY <1>5, <1>a, <1>b DEF Reap, WorkerOK, ProcessesOK, CommandInv, Command, Streams
<1>6. ASSUME NEW e \in Execs, NEW reasons, PollEnds(e, reasons) PROVE CommandInv'
  BY <1>6, <1>a, <1>b DEF PollEnds, WorkerOK, CommandInv, Command, Streams
<1>7. ASSUME NEW e \in Execs, KillAndWait(e) PROVE CommandInv'
  <2>1. CASE pc[e] = "kill" /\ KillGroup(pid[e], "worker") /\ pc' = [pc EXCEPT ![e] = "wait"]
    <3>1. pid[e] \notin others
      BY <2>1, <1>b DEF Command
    <3>2. /\ harmed' # "worker"
          /\ \A f \in Execs :
              /\ pid'[f] = pid[f]
              /\ child'[f] = child[f] \/ (child[f] = "run" /\ child'[f] = "zombie")
              /\ kin'[f] = kin[f] \/ (kin[f] = "group" /\ kin'[f] = "dead")
          /\ others' \subseteq others
      BY <2>1, <3>1, KillGroupCommand
    <3> QED
      BY <2>1, <3>2, <1>a, <1>b DEF WorkerOK, CommandInv, Command, Streams
  <2>2. CASE /\ pc[e] = "wait" /\ child' = [child EXCEPT ![e] = "reaped"]
             /\ pc' = [pc EXCEPT ![e] = "done"] /\ UNCHANGED <<pid, kin, world>>
    BY <2>2, <1>a, <1>b DEF WorkerOK, ProcessesOK, CommandInv, Command, Streams
  <2> QED
    BY <1>7, <2>1, <2>2 DEF KillAndWait, KillThenWait
<1>8. ASSUME NEW e \in Execs, NEW s \in Streams, Collect(e, s) PROVE CommandInv'
  BY <1>8, <1>a, <1>b DEF Collect, Return, WorkerOK, CommandInv, Command, Streams
<1>9. CASE KillDoomed
  <2>1. PICK p \in doomed : KillGroup(p, "main")
    BY <1>9 DEF KillDoomed, KillRegistered
  <2>2. /\ harmed' # "worker"
        /\ \A f \in Execs :
              /\ pid'[f] = pid[f]
              /\ child'[f] = child[f] \/ (child[f] = "run" /\ child'[f] = "zombie")
              /\ kin'[f] = kin[f] \/ (kin[f] = "group" /\ kin'[f] = "dead")
        /\ others' \subseteq others
    BY <2>1, KillGroupCommand
  <2> QED
    BY <1>9, <2>2, <1>b DEF KillDoomed, CommandInv, Command, Streams
<1>10. ASSUME NEW e \in Execs, NEW s \in Streams,
              \/ Elapse(e) \/ WriteByte(e, s) \/ ReadSome(e, s) \/ Overflow(e, s)
              \/ ReadEof(e, s) \/ ReadFails(e, s)
       PROVE  CommandInv'
  BY <1>10, <1>u DEF Elapse, WriteByte, ReadSome, Overflow, ReadEof, ReadFails
<1>11. CASE DrainRegistry \/ Exit \/ UNCHANGED vars
  BY <1>11, <1>u DEF DrainRegistry, Exit, vars
<1>12. ASSUME NEW e \in Execs, Elapse(e) PROVE CommandInv'
  BY <1>12, <1>u DEF Elapse
<1> QED
  BY <1>1, <1>2, <1>3, <1>4, <1>5, <1>6, <1>7, <1>8, <1>9, <1>10, <1>11, <1>12
     DEF Next, WorkerStep, ReaderStep

\* No timeout or overflow kills a process of another program, however ids are
\* reused.
THEOREM KillsOwn == Spec => []WorkersKillTheirOwn
<1>1. Spec => [](TypeInv /\ CommandInv)
  BY TypeInit, TypeNext, CommandInit, CommandNext, PTL DEF Spec
<1>2. CommandInv => WorkersKillTheirOwn
  BY DEF CommandInv, WorkersKillTheirOwn
<1> QED
  BY <1>1, <1>2, PTL

-----------------------------------------------------------------------------
(* What a successful call returns *)

LEMMA SeenInit == Init => SeenInv
<1> SUFFICES ASSUME Init, NEW e \in Execs PROVE Seen(e)
  BY DEF SeenInv
<1>1. ~(used[e] > EXEC_OUTPUT_LIMIT)
  BY ExecAssumption DEF Init
<1>2. \A s \in Streams : reader[e][s] = "off"
  BY DEF Init
<1>3. pc[e] = "idle" /\ child[e] = "none" /\ result[e] = "none"
  BY DEF Init
<1> QED
  BY <1>1, <1>2, <1>3 DEF Seen

\* killpg closes pipes of commands that end.
LEMMA KillGroupSeen ==
  ASSUME TypeInv, SeenInv, NEW p, NEW by, KillGroup(p, by), UNCHANGED <<result, readers>>,
         \A f \in Execs : pc'[f] = pc[f] \/ (pc[f] = "kill" /\ pc'[f] = "wait")
  PROVE  SeenInv'
<1> SUFFICES ASSUME NEW f \in Execs PROVE Seen(f)'
  BY DEF SeenInv
<1>1. Seen(f) /\ ProcessesOK
  BY DEF SeenInv, TypeInv
<1>2. child'[f] = child[f] \/ (child[f] = "run" /\ child'[f] = "zombie")
  BY DEF KillGroup
<1>3. \A s \in Streams : ends'[f][s] \subseteq ends[f][s]
  BY <1>1 DEF KillGroup, Closed, ProcessesOK
<1>4. child'[f] = "run" => ends'[f] = ends[f] \/ f \notin Members(p)
  BY DEF KillGroup, Members
<1>5. child'[f] = "run" => \A s \in Streams : "child" \in ends'[f][s]
  BY <1>1, <1>4 DEF KillGroup, Members, Closed, Seen
<1> QED
  BY <1>1, <1>2, <1>3, <1>5 DEF KillGroup, Seen, readers, Streams

LEMMA SeenNext == TypeInv /\ CommandInv /\ SeenInv /\ [Next]_vars => SeenInv'
<1> SUFFICES ASSUME TypeInv, CommandInv, SeenInv, [Next]_vars PROVE SeenInv'
  OBVIOUS
<1> USE DEF worker, command, readers, world, server
<1>a. WorkerOK /\ ProcessesOK /\ PipesOK /\ ReadersOK
  BY DEF TypeInv
<1>b. \A f \in Execs : Seen(f) /\ Command(f)
  BY DEF SeenInv, CommandInv
<1>u. ASSUME UNCHANGED <<pc, result, child, ends, pipe, reader, used>> PROVE SeenInv'
  BY <1>u, <1>b DEF SeenInv, Seen
<1>1. ASSUME NEW e \in Execs, Fork(e) PROVE SeenInv'
  <2>1. PICK kept \in SUBSET Streams :
          ends' = [ends EXCEPT ![e] = [s \in Streams |->
                     IF s \in kept THEN @[s] \cup {"kin"} ELSE @[s]]]
    BY <1>1 DEF Fork
  <2>2. \A s \in Streams : ends[e][s] \subseteq ends'[e][s] /\ ends[e][s] # {}
    BY <1>1, <2>1, <1>a, <1>b DEF Fork, ProcessesOK, Seen
  <2>3. \A f \in Execs \ {e} : ends'[f] = ends[f]
    BY <2>1, <1>a DEF ProcessesOK
  <2> QED
    BY <1>1, <2>2, <2>3, <1>b DEF Fork, SeenInv, Seen
<1>2. ASSUME NEW e \in Execs, ChildExits(e) \/ KinExits(e) PROVE SeenInv'
  <2>1. \A f \in Execs, s \in Streams : ends'[f][s] \subseteq ends[f][s]
    BY <1>2, <1>a DEF ChildExits, KinExits, Closed, ProcessesOK
  <2>2. \A f \in Execs : child'[f] = "run" =>
          child[f] = "run" /\ \A s \in Streams : "child" \in ends'[f][s]
    BY <1>2, <1>a, <1>b DEF ChildExits, KinExits, Closed, ProcessesOK, Seen
  <2>3. \A f \in Execs : child[f] = "reaped" => child'[f] = "reaped"
    BY <1>2, <1>a DEF ChildExits, KinExits, ProcessesOK
  <2> QED
    BY <1>2, <2>1, <2>2, <2>3, <1>b DEF ChildExits, KinExits, SeenInv, Seen
<1>3. ASSUME NEW e \in Execs, NEW s \in Streams, WriteByte(e, s) PROVE SeenInv'
  <2>1. \A f \in Execs, t \in Streams : reader[f][t] = "ok" => pipe'[f][t] = pipe[f][t]
    BY <1>3, <1>a DEF WriteByte, PipesOK
  <2> QED
    BY <1>3, <2>1, <1>b DEF WriteByte, SeenInv, Seen
<1>4. ASSUME NEW e \in Execs, Refuse(e) PROVE SeenInv'
  BY <1>4, <1>a, <1>b DEF Refuse, WorkerOK, SeenInv, Seen
<1>5. ASSUME NEW e \in Execs, Spawn(e) PROVE SeenInv'
  <2>1. \A t \in Streams : reader[e][t] = "off" /\ ends'[e][t] = {"child"}
    BY <1>5, <1>a, <1>b DEF Spawn, ProcessesOK, Seen
  <2>2. \A f \in Execs \ {e} : ends'[f] = ends[f] /\ pc'[f] = pc[f] /\ child'[f] = child[f]
    BY <1>5, <1>a DEF Spawn, WorkerOK, ProcessesOK
  <2>3. pc'[e] = "spawned" /\ result[e] # "ok"
    BY <1>5, <1>a, <1>b DEF Spawn, WorkerOK, Seen
  <2> QED
    BY <1>5, <2>1, <2>2, <2>3, <1>b DEF Spawn, SeenInv, Seen
<1>6. ASSUME NEW e \in Execs, Register(e) PROVE SeenInv'
  <2>1. \A t \in Streams : reader[e][t] = "off" /\ reader'[e][t] = "read"
    BY <1>6, <1>a, <1>b DEF Register, ReadersOK, Seen
  <2>2. \A f \in Execs \ {e} : reader'[f] = reader[f] /\ pc'[f] = pc[f]
    BY <1>6, <1>a DEF Register, WorkerOK, ReadersOK
  <2>3. pc'[e] = "poll" /\ result[e] # "ok"
    BY <1>6, <1>a, <1>b DEF Register, WorkerOK, Seen
  <2>4. "stdout" \in Streams
    BY DEF Streams
  <2> QED
    BY <1>6, <2>1, <2>2, <2>3, <2>4, <1>b DEF Register, SeenInv, Seen
<1>7. ASSUME NEW e \in Execs, Reap(e) PROVE SeenInv'
  BY <1>7, <1>a, <1>b DEF Reap, WorkerOK, ProcessesOK, SeenInv, Seen
<1>8. ASSUME NEW e \in Execs, PollEnds(e, GiveUp(e)) \/ PollEnds(e, {"failed"}) PROVE SeenInv'
  BY <1>8, <1>a, <1>b DEF PollEnds, GiveUp, WorkerOK, SeenInv, Seen
<1>9. ASSUME NEW e \in Execs, KillAndWait(e) PROVE SeenInv'
  <2>1. CASE pc[e] = "kill" /\ KillGroup(pid[e], "worker") /\ pc' = [pc EXCEPT ![e] = "wait"]
    <3>1. \A f \in Execs : pc'[f] = pc[f] \/ (pc[f] = "kill" /\ pc'[f] = "wait")
      BY <2>1, <1>a DEF WorkerOK
    <3> QED
      BY <1>9, <2>1, <3>1, KillGroupSeen DEF KillAndWait
  <2>2. CASE /\ pc[e] = "wait" /\ child' = [child EXCEPT ![e] = "reaped"]
             /\ pc' = [pc EXCEPT ![e] = "done"] /\ UNCHANGED <<pid, kin, ends, pipe, wrote, world>>
    BY <1>9, <2>2, <1>a, <1>b DEF KillAndWait, WorkerOK, ProcessesOK, SeenInv, Seen
  <2> QED
    BY <1>9, <2>1, <2>2 DEF KillAndWait, KillThenWait
<1>10. ASSUME NEW e \in Execs, NEW s \in Streams, Collect(e, s) PROVE SeenInv'
  <2>1. \A f \in Execs \ {e} : pc'[f] = pc[f] /\ result'[f] = result[f]
    BY <1>10, <1>a DEF Collect, Return, WorkerOK
  <2>2. pc[e] \in Streams /\ child[e] = "reaped" /\ result[e] # "ok"
    BY <1>10, <1>b DEF Collect, Seen, Command, Streams
  <2>3. pc'[e] = "done" \/ (pc'[e] = "stderr" /\ reader[e]["stdout"] = "ok" /\ result' = result)
    BY <1>10, <1>a DEF Collect, Return, WorkerOK
  <2>4. result'[e] = "ok" => pc'[e] = "done" /\ pc[e] = "stderr" /\ reader[e]["stderr"] = "ok"
    BY <1>10, <2>2, <1>a DEF Collect, Return, WorkerOK
  <2> QED
    BY <1>10, <2>1, <2>2, <2>3, <2>4, <1>b DEF Collect, SeenInv, Seen, Streams
<1>11. ASSUME NEW e \in Execs, NEW s \in Streams, ReadSome(e, s) PROVE SeenInv'
  <2>1. PICK n \in 1 .. pipe[e][s] :
          /\ pipe' = [pipe EXCEPT ![e][s] = @ - n]
          /\ used' = [used EXCEPT ![e] = FetchAdd(e, s, n)]
          /\ reader' = IF used'[e] > EXEC_OUTPUT_LIMIT
                       THEN [reader EXCEPT ![e][s] = "over"] ELSE reader
    BY <1>11 DEF ReadSome
  <2>2. \A f \in Execs, t \in Streams :
          \/ f = e /\ t = s /\ reader[f][t] = "read"
          \/ reader'[f][t] = reader[f][t] /\ pipe'[f][t] = pipe[f][t]
    BY <1>11, <2>1, <1>a DEF ReadSome, PipesOK, ReadersOK
  <2>3. reader'[e][s] = IF used'[e] > EXEC_OUTPUT_LIMIT THEN "over" ELSE "read"
    BY <1>11, <2>1, <1>a DEF ReadSome, ReadersOK
  <2>4. \A f \in Execs \ {e} : used'[f] = used[f]
    BY <2>1, <1>a DEF ReadersOK
  <2>5. pc[e] \notin {"idle", "spawned"} /\ result[e] # "ok"
    BY <1>11, <1>b DEF ReadSome, Seen
  <2> QED
    BY <1>11, <2>2, <2>3, <2>4, <2>5, <1>b DEF ReadSome, SeenInv, Seen, Streams
<1>12. ASSUME NEW e \in Execs, NEW s \in Streams,
              Overflow(e, s) \/ ReadEof(e, s) \/ ReadFails(e, s)
       PROVE  SeenInv'
  <2>1. \A f \in Execs, t \in Streams : (f # e \/ t # s) => reader'[f][t] = reader[f][t]
    BY <1>12, <1>a DEF Overflow, ReadEof, ReadFails, ReadersOK
  <2>2. \/ reader[e][s] = "over" /\ reader'[e][s] = "stored"
        \/ reader[e][s] = "stored" /\ reader'[e][s] = "error"
        \/ reader[e][s] = "read" /\ reader'[e][s] = "failed"
        \/ reader[e][s] = "read" /\ reader'[e][s] = "ok" /\ pipe[e][s] = 0 /\ ends[e][s] = {}
    BY <1>12, <1>a DEF Overflow, ReadEof, ReadFails, AtEof, ReadersOK
  <2>3. UNCHANGED <<pc, result, child, ends, pipe, used>>
    BY <1>12 DEF Overflow, ReadEof, ReadFails
  <2>4. \A f \in Execs : Seen(f)'
    BY <1>12, <2>1, <2>2, <2>3, <1>b DEF Seen, Streams
  <2> QED
    BY <2>4 DEF SeenInv
<1>13. CASE KillDoomed
  <2>1. PICK p \in doomed : KillGroup(p, "main")
    BY <1>13 DEF KillDoomed, KillRegistered
  <2> QED
    BY <1>13, <2>1, KillGroupSeen DEF KillDoomed
<1>14. ASSUME NEW e \in Execs, Elapse(e) PROVE SeenInv'
  BY <1>14, <1>u DEF Elapse
<1>15. ASSUME NEW p \in Pids, OtherStarts(p) PROVE SeenInv'
  BY <1>15, <1>u DEF OtherStarts
<1>16. CASE DrainRegistry \/ Exit \/ UNCHANGED vars
  BY <1>16, <1>u DEF DrainRegistry, Exit, vars
<1> QED
  BY <1>1, <1>2, <1>3, <1>4, <1>5, <1>6, <1>7, <1>8, <1>9, <1>10, <1>11, <1>12, <1>13,
     <1>14, <1>15, <1>16 DEF Next, WorkerStep, ReaderStep

\* Whatever the command, its descendants and the two readers do, exec reports
\* success only with the whole output, and within EXEC_OUTPUT_LIMIT.
THEOREM SuccessIsComplete == Spec => []OutputIsComplete
<1>1. Spec => [](TypeInv /\ CommandInv /\ SeenInv)
  BY TypeInit, TypeNext, CommandInit, CommandNext, SeenInit, SeenNext, PTL DEF Spec
<1>2. TypeInv /\ SeenInv => OutputIsComplete
  <2> SUFFICES ASSUME TypeInv, SeenInv, NEW e \in Execs, result[e] = "ok"
               PROVE  /\ child[e] = "reaped"
                      /\ \A s \in Streams : pipe[e][s] = 0 /\ ends[e][s] = {}
                      /\ wrote[e]["stdout"] + wrote[e]["stderr"] <= EXEC_OUTPUT_LIMIT
    BY DEF OutputIsComplete
  <2>1. /\ child[e] = "reaped"
        /\ \A s \in Streams : reader[e][s] = "ok" /\ pipe[e][s] = 0 /\ ends[e][s] = {}
    BY DEF SeenInv, Seen
  <2>2. ~(used[e] > EXEC_OUTPUT_LIMIT)
    BY <2>1 DEF SeenInv, Seen
  <2>3. used[e] = wrote[e]["stdout"] + wrote[e]["stderr"]
    BY <2>1 DEF TypeInv, Counted, PipesOK, Streams
  <2> QED
    BY <2>1, <2>2, <2>3, ExecAssumption DEF TypeInv, ReadersOK
<1> QED
  BY <1>1, <1>2, PTL

-----------------------------------------------------------------------------
(* Whom main kills *)

LEMMA TrackedInit == Init => TrackedInv
BY DEF Init, TrackedInv, Tracked, InProgress, Streams

\* A call keeps the company it has: ids are given at the start and kept.
LEMMA StaysShared ==
  ASSUME TypeInv, CommandInv, NEW e \in Execs, pid[e] \in Pids, Shared(e),
         pid' = pid \/ \E f \in Execs, p \in Pids : pc[f] = "idle" /\ pid' = [pid EXCEPT ![f] = p]
  PROVE  Shared(e)' /\ pid'[e] = pid[e]
<1>1. PICK g \in Execs \ {e} : pid[g] = pid[e]
  BY DEF Shared
<1>2. pc[g] # "idle" /\ pc[e] # "idle"
  BY <1>1 DEF CommandInv, Command, Pids
<1>3. pid'[g] = pid[g] /\ pid'[e] = pid[e]
  BY <1>2 DEF TypeInv, ProcessesOK
<1> QED
  BY <1>1, <1>3 DEF Shared

\* killpg of p kills the commands registered as p and nobody comes back.
LEMMA KillGroupTracked ==
  ASSUME TypeInv, TrackedInv, NEW p, NEW by, KillGroup(p, by), NEW f \in Execs
  PROVE  /\ pid'[f] = pid[f]
         /\ child[f] # "run" => child'[f] # "run"
         /\ kin[f] # "group" => kin'[f] # "group"
         /\ pid[f] = p => child'[f] # "run" /\ kin'[f] # "group"
BY DEF KillGroup, Members

LEMMA TrackedNext == TypeInv /\ CommandInv /\ TrackedInv /\ [Next]_vars => TrackedInv'
<1> SUFFICES ASSUME TypeInv, CommandInv, TrackedInv, [Next]_vars PROVE TrackedInv'
  OBVIOUS
<1> USE DEF worker, command, readers, world, server
<1>a. WorkerOK /\ ProcessesOK /\ ServerOK
  BY DEF TypeInv
<1>b. \A f \in Execs : Tracked(f) /\ Command(f)
  BY DEF TrackedInv, CommandInv
<1>c. (main = "serve" => running = {}) /\ (main = "gone" => doomed = {})
  BY DEF TrackedInv
<1>u. ASSUME UNCHANGED <<pc, pid, child, kin, registry, server>> PROVE TrackedInv'
  BY <1>u, <1>b, <1>c DEF TrackedInv, Tracked, Shared
\* Steps of the processes: nobody comes back to life.
<1>1. ASSUME NEW e \in Execs, Fork(e) \/ ChildExits(e) \/ KinExits(e) PROVE TrackedInv'
  <2>1. \A f \in Execs : child[f] # "run" /\ kin[f] # "group" => child'[f] # "run" /\ kin'[f] # "group"
    BY <1>1, <1>a DEF Fork, ChildExits, KinExits, ProcessesOK
  <2> QED
    BY <1>1, <2>1, <1>b, <1>c DEF Fork, ChildExits, KinExits, TrackedInv, Tracked, Shared
<1>2. ASSUME NEW e \in Execs, Refuse(e) PROVE TrackedInv'
  BY <1>2, <1>a, <1>b, <1>c DEF Refuse, WorkerOK, InProgress, Streams, TrackedInv, Tracked, Shared
<1>3. ASSUME NEW e \in Execs, Spawn(e) PROVE TrackedInv'
  <2>1. PICK p \in Pids : pid' = [pid EXCEPT ![e] = p] /\ pc[e] = "idle"
    BY <1>3 DEF Spawn
  <2>2. \A f \in Execs : pid[f] \in Pids /\ Shared(f) => Shared(f)'
    BY <2>1, StaysShared
  <2>3. \A f \in Execs \ {e} : pid'[f] = pid[f] /\ pc'[f] = pc[f] /\ child'[f] = child[f]
    BY <1>3, <2>1, <1>a DEF Spawn, WorkerOK, ProcessesOK
  <2>4. pc'[e] = "spawned" /\ e \notin running
    BY <1>3, <1>a, <1>b DEF Spawn, WorkerOK, Tracked, InProgress, Streams
  <2>5. \A f \in Execs : pc[f] \in InProgress => pid[f] \in Pids
    BY <1>a DEF ServerOK
  <2>6. ASSUME NEW f \in Execs PROVE Tracked(f)'
    <3>1. CASE f = e
      BY <1>3, <3>1, <2>4 DEF Spawn, Tracked, InProgress, Streams
    <3>2. CASE f # e
      BY <1>3, <3>2, <2>2, <2>3, <2>5, <1>b DEF Spawn, Tracked
    <3> QED
      BY <3>1, <3>2
  <2> QED
    BY <1>3, <2>6, <1>c DEF Spawn, TrackedInv
<1>4. ASSUME NEW e \in Execs, Register(e) PROVE TrackedInv'
  BY <1>4, <1>a, <1>b, <1>c DEF Register, WorkerOK, InProgress, Streams, TrackedInv, Tracked, Shared
<1>5. ASSUME NEW e \in Execs, Reap(e) PROVE TrackedInv'
  BY <1>5, <1>a, <1>b, <1>c
     DEF Reap, WorkerOK, ProcessesOK, InProgress, Streams, TrackedInv, Tracked, Shared
<1>6. ASSUME NEW e \in Execs, NEW reasons, PollEnds(e, reasons) PROVE TrackedInv'
  BY <1>6, <1>a, <1>b, <1>c DEF PollEnds, WorkerOK, InProgress, Streams, TrackedInv, Tracked, Shared
\* A call that returns takes its number out of the registry.
<1>7. ASSUME NEW e \in Execs, pc' = [pc EXCEPT ![e] = "done"], pc[e] \in InProgress,
             registry' = registry \ {pid[e]}, UNCHANGED <<pid, kin, server>>,
             child' = child \/ child' = [child EXCEPT ![e] = "reaped"]
      PROVE  TrackedInv'
  <2>1. SUFFICES ASSUME NEW f \in Execs PROVE Tracked(f)'
    BY <1>7, <1>c DEF TrackedInv
  <2>2. CASE f = e
    BY <1>7, <2>2, <1>a, <1>b DEF WorkerOK, ProcessesOK, InProgress, Streams, Tracked, Shared
  <2>3. CASE f # e /\ pid[f] = pid[e]
    <3>1. Shared(f)'
      BY <1>7, <2>3 DEF Shared
    <3> QED
      BY <1>7, <2>3, <3>1, <1>a, <1>b DEF WorkerOK, Tracked
  <2>4. CASE f # e /\ pid[f] # pid[e]
    <3>1. pc'[f] = pc[f] /\ child'[f] = child[f] /\ (pid[f] \in registry => pid[f] \in registry')
      BY <1>7, <2>4, <1>a DEF WorkerOK, ProcessesOK
    <3> QED
      BY <1>7, <2>4, <3>1, <1>b DEF Tracked, Shared
  <2> QED
    BY <2>2, <2>3, <2>4
<1>8. ASSUME NEW e \in Execs, KillAndWait(e) PROVE TrackedInv'
  <2>1. CASE pc[e] = "kill" /\ KillGroup(pid[e], "worker") /\ pc' = [pc EXCEPT ![e] = "wait"]
             /\ UNCHANGED <<registry, server>>
    <3>1. \A f \in Execs : /\ pid'[f] = pid[f]
                           /\ child[f] # "run" => child'[f] # "run"
                           /\ kin[f] # "group" => kin'[f] # "group"
      BY <2>1, KillGroupTracked
    <3>2. pid' = pid
      BY <2>1 DEF KillGroup
    <3> QED
      BY <2>1, <3>1, <3>2, <1>a, <1>b, <1>c
         DEF WorkerOK, InProgress, Streams, TrackedInv, Tracked, Shared
  <2>2. CASE pc[e] = "wait" /\ pc' = [pc EXCEPT ![e] = "done"]
    <3>1. "wait" \in InProgress
      BY DEF InProgress
    <3> QED
      BY <1>8, <2>2, <3>1, <1>7 DEF KillAndWait, KillThenWait
  <2> QED
    BY <1>8, <2>1, <2>2 DEF KillAndWait, KillThenWait
<1>9. ASSUME NEW e \in Execs, NEW s \in Streams, Collect(e, s) PROVE TrackedInv'
  <2>1. pc[e] \in InProgress
    BY <1>9 DEF Collect, InProgress
  <2>2. CASE pc' = [pc EXCEPT ![e] = "stderr"] /\ UNCHANGED registry
    BY <1>9, <2>1, <2>2, <1>a, <1>b, <1>c
       DEF Collect, WorkerOK, InProgress, Streams, TrackedInv, Tracked, Shared
  <2>3. CASE pc' = [pc EXCEPT ![e] = "done"] /\ registry' = registry \ {pid[e]}
    BY <1>9, <2>1, <2>3, <1>7 DEF Collect
  <2> QED
    BY <1>9, <2>2, <2>3 DEF Collect, Return
<1>10. CASE DrainRegistry
  <2>1. \A f \in Execs : pc[f] \in InProgress => pid[f] \in Pids
    BY <1>a DEF ServerOK
  <2> QED
    BY <1>10, <2>1, <1>b DEF DrainRegistry, TrackedInv, Tracked, Shared
<1>11. CASE KillDoomed
  <2>1. PICK p \in doomed : KillGroup(p, "main") /\ doomed' = doomed \ {p}
    BY <1>11 DEF KillDoomed, KillRegistered
  <2>2. \A f \in Execs : /\ child[f] # "run" => child'[f] # "run"
                         /\ kin[f] # "group" => kin'[f] # "group"
                         /\ pid[f] = p => child'[f] # "run" /\ kin'[f] # "group"
    BY <2>1, KillGroupTracked
  <2>3. pid' = pid
    BY <2>1 DEF KillGroup
  <2> QED
    BY <1>11, <2>1, <2>2, <2>3, <1>b, <1>c DEF KillDoomed, TrackedInv, Tracked, Shared
<1>12. CASE Exit
  BY <1>12, <1>b, <1>c DEF Exit, TrackedInv, Tracked, Shared
<1>13. ASSUME NEW e \in Execs, NEW s \in Streams,
              \/ WriteByte(e, s) \/ ReadSome(e, s) \/ Overflow(e, s)
              \/ ReadEof(e, s) \/ ReadFails(e, s)
       PROVE  TrackedInv'
  BY <1>13, <1>u DEF WriteByte, ReadSome, Overflow, ReadEof, ReadFails
<1>14. ASSUME NEW e \in Execs, Elapse(e) PROVE TrackedInv'
  BY <1>14, <1>u DEF Elapse
<1>15. ASSUME NEW p \in Pids, OtherStarts(p) PROVE TrackedInv'
  BY <1>15, <1>u DEF OtherStarts
<1>16. CASE UNCHANGED vars
  BY <1>16, <1>u DEF vars
<1> QED
  BY <1>1, <1>2, <1>3, <1>4, <1>5, <1>6, <1>8, <1>9, <1>10, <1>11, <1>12, <1>13,
     <1>14, <1>15, <1>16 DEF Next, WorkerStep, ReaderStep

\* When the process has ended, the commands that were in progress at EOF are
\* dead with their groups, however many there were and wherever they were.
THEOREM ExitKillsRunning == Spec => []RunningAreKilled
<1>1. Spec => [](TypeInv /\ CommandInv /\ TrackedInv)
  BY TypeInit, TypeNext, CommandInit, CommandNext, TrackedInit, TrackedNext, PTL DEF Spec
<1>2. TypeInv /\ TrackedInv => RunningAreKilled
  BY DEF TypeInv, ServerOK, TrackedInv, Tracked, Shared, RunningAreKilled
<1> QED
  BY <1>1, <1>2, PTL
=============================================================================
