-------------------------------- MODULE Exec --------------------------------
(***************************************************************************)
(* Remote commands (server/src/fs_handlers.rs, exec): the worker that      *)
(* spawns a command in a session of its own, polls it against a timeout,   *)
(* kills its process group or collects its output; the two threads that    *)
(* read its pipes under one limit; the registry of process groups, and     *)
(* main, which kills what is registered when the client is gone.           *)
(*                                                                         *)
(* The command may leave one descendant behind, in its group or in a       *)
(* session of its own, that keeps the pipes open for as long as it likes.  *)
(* The operating system gives a process id to somebody else once the       *)
(* process is reaped and nobody is left in its group.                      *)
(***************************************************************************)
EXTENDS Integers

CONSTANTS
  Execs,              \* calls of exec
  MaxPids,            \* bound: process ids
  MaxBytes,           \* bound: bytes written to one pipe
  EXEC_OUTPUT_LIMIT,  \* bytes of both streams together
  MaxOthers           \* bound: processes of other programs started

ASSUME ExecAssumption ==
  /\ MaxPids \in Nat /\ MaxBytes \in Nat /\ EXEC_OUTPUT_LIMIT \in Nat /\ MaxOthers \in Nat

Pids == 1 .. MaxPids
Streams == {"stdout", "stderr"}

VARIABLES
  pc,        \* the worker: "idle", "spawned", "poll", "kill", "wait", the
             \* stream it collects, "done"
  result,    \* "none", "ok", or the error: "refused", "timeout", "overflow", "failed"
  late,      \* timeout_ms have passed since the start
  child,     \* "none", "run", "zombie" or "reaped"
  pid,       \* its process id, which is its group
  kin,       \* the descendant: "none", "group", "away" (own session), "dead"
  ends,      \* per stream: who holds the write end of the pipe
  pipe,      \* per stream: bytes written and not read
  wrote,     \* per stream: bytes written
  reader,    \* per stream: "off", "read", "over" (limit passed), "stored" (flag
             \* set), or what it sent: "ok", "error", "failed"
  used,      \* bytes counted by both readers
  overflow,  \* the flag
  registry,  \* ExecRegistry
  others,    \* process groups of other programs
  started,   \* how many of them were started
  harmed,    \* by whom another program was killed: "none", "worker", "main"
  main,      \* "serve", "exiting" (registry drained) or "gone"
  doomed,    \* the groups main has yet to kill
  running    \* calls in progress when the registry was drained

worker == <<pc, result, late>>
command == <<child, pid, kin, ends, pipe, wrote>>
readers == <<reader, used, overflow>>
world == <<others, started, harmed>>
server == <<main, doomed, running>>
vars == <<worker, command, readers, registry, world, server>>

\* Program counters of a call between insert and drop of its registration.
InProgress == {"poll", "kill", "wait"} \cup Streams

Up == main # "gone"

-----------------------------------------------------------------------------
(* The operating system *)

\* An id is in use while its process is not reaped or its group has a member.
Taken == others \cup
  {pid[e] : e \in {f \in Execs : child[f] \in {"run", "zombie"} \/ kin[f] = "group"}}

Closed(who, e) == [s \in Streams |-> ends[e][s] \ who]

Members(p) == {e \in Execs : pid[e] = p /\ (child[e] = "run" \/ kin[e] = "group")}

\* killpg(p, SIGKILL), by a worker or by main
KillGroup(p, by) ==
  LET hit == Members(p)
      Dead(e) == (IF child[e] = "run" THEN {"child"} ELSE {})
                   \cup (IF kin[e] = "group" THEN {"kin"} ELSE {})
  IN
  /\ child' = [e \in Execs |-> IF e \in hit /\ child[e] = "run" THEN "zombie" ELSE child[e]]
  /\ kin' = [e \in Execs |-> IF e \in hit /\ kin[e] = "group" THEN "dead" ELSE kin[e]]
  /\ ends' = [e \in Execs |-> IF e \in hit THEN Closed(Dead(e), e) ELSE ends[e]]
  /\ others' = others \ {p}
  /\ harmed' = IF p \in others THEN by ELSE harmed
  /\ UNCHANGED <<pid, pipe, wrote, started>>

\* Another program starts a process, the leader of its own group.
OtherStarts(p) ==
  /\ started < MaxOthers /\ p \notin Taken
  /\ others' = others \cup {p} /\ started' = started + 1
  /\ UNCHANGED <<worker, command, readers, registry, harmed, server>>

\* The command starts a descendant that inherits some of the pipes.
Fork(e) ==
  /\ child[e] = "run" /\ kin[e] = "none"
  /\ \E k \in {"group", "away"}, kept \in SUBSET Streams :
       /\ kin' = [kin EXCEPT ![e] = k]
       /\ ends' = [ends EXCEPT ![e] = [s \in Streams |->
                     IF s \in kept THEN @[s] \cup {"kin"} ELSE @[s]]]
  /\ UNCHANGED <<worker, child, pid, pipe, wrote, readers, registry, world, server>>

\* Whoever holds the pipe writes while somebody reads it.
WriteByte(e, s) ==
  /\ ends[e][s] # {} /\ reader[e][s] = "read" /\ wrote[e][s] < MaxBytes
  /\ pipe' = [pipe EXCEPT ![e][s] = @ + 1]
  /\ wrote' = [wrote EXCEPT ![e][s] = @ + 1]
  /\ UNCHANGED <<worker, child, pid, kin, ends, readers, registry, world, server>>

ChildExits(e) ==
  /\ child[e] = "run"
  /\ child' = [child EXCEPT ![e] = "zombie"]
  /\ ends' = [ends EXCEPT ![e] = Closed({"child"}, e)]
  /\ UNCHANGED <<worker, pid, kin, pipe, wrote, readers, registry, world, server>>

KinExits(e) ==
  /\ kin[e] \in {"group", "away"}
  /\ kin' = [kin EXCEPT ![e] = "dead"]
  /\ ends' = [ends EXCEPT ![e] = Closed({"kin"}, e)]
  /\ UNCHANGED <<worker, child, pid, pipe, wrote, readers, registry, world, server>>

-----------------------------------------------------------------------------
(* exec_command_with_registry *)

\* The request is malformed or the program cannot be started.
Refuse(e) ==
  /\ Up /\ pc[e] = "idle"
  /\ pc' = [pc EXCEPT ![e] = "done"] /\ result' = [result EXCEPT ![e] = "refused"]
  /\ UNCHANGED <<late, command, readers, registry, world, server>>

Spawn(e) ==
  /\ Up /\ pc[e] = "idle"
  /\ \E p \in Pids \ Taken : pid' = [pid EXCEPT ![e] = p]
  /\ child' = [child EXCEPT ![e] = "run"]
  /\ ends' = [ends EXCEPT ![e] = [s \in Streams |-> {"child"}]]
  /\ pc' = [pc EXCEPT ![e] = "spawned"]
  /\ UNCHANGED <<result, late, kin, pipe, wrote, readers, registry, world, server>>

\* The group is registered, the readers start and so does the clock.
Register(e) ==
  /\ Up /\ pc[e] = "spawned"
  /\ registry' = registry \cup {pid[e]}
  /\ reader' = [reader EXCEPT ![e] = [s \in Streams |-> "read"]]
  /\ pc' = [pc EXCEPT ![e] = "poll"]
  /\ UNCHANGED <<result, late, command, used, overflow, world, server>>

Elapse(e) ==
  /\ Up /\ pc[e] \in InProgress /\ ~late[e]
  /\ late' = [late EXCEPT ![e] = TRUE]
  /\ UNCHANGED <<pc, result, command, readers, registry, world, server>>

\* try_wait finds the command ended: it is reaped.
Reap(e) ==
  /\ Up /\ pc[e] = "poll" /\ child[e] = "zombie"
  /\ child' = [child EXCEPT ![e] = "reaped"]
  /\ pc' = [pc EXCEPT ![e] = "stdout"]
  /\ UNCHANGED <<result, late, pid, kin, ends, pipe, wrote, readers, registry, world, server>>

\* Why the polling loop gives up.  What it looks at may change in between: the
\* command may have ended, or the flag may be set, since it last looked.
GiveUp(e) ==
  (IF overflow[e] THEN {"overflow"} ELSE {}) \cup (IF late[e] THEN {"timeout"} ELSE {})

PollEnds(e, reasons) ==
  /\ Up /\ pc[e] = "poll"
  /\ \E r \in reasons : result' = [result EXCEPT ![e] = r]
  /\ pc' = [pc EXCEPT ![e] = "kill"]
  /\ UNCHANGED <<late, command, readers, registry, world, server>>

\* Mutant: the command is reaped before its group is killed.
WaitThenKill(e) ==
  \/ /\ pc[e] = "kill" /\ child[e] = "zombie"
     /\ child' = [child EXCEPT ![e] = "reaped"]
     /\ pc' = [pc EXCEPT ![e] = "wait"]
     /\ UNCHANGED <<pid, kin, ends, pipe, wrote, registry, world>>
  \/ /\ pc[e] = "wait"
     /\ KillGroup(pid[e], "worker")
     /\ pc' = [pc EXCEPT ![e] = "done"]
     /\ registry' = registry \ {pid[e]}

\* kill_process_group, then wait; the registration is dropped on return.
KillThenWait(e) ==
  \/ /\ pc[e] = "kill"
     /\ KillGroup(pid[e], "worker")
     /\ pc' = [pc EXCEPT ![e] = "wait"]
     /\ UNCHANGED registry
  \/ /\ pc[e] = "wait" /\ child[e] = "zombie"
     /\ child' = [child EXCEPT ![e] = "reaped"]
     /\ pc' = [pc EXCEPT ![e] = "done"]
     /\ registry' = registry \ {pid[e]}
     /\ UNCHANGED <<pid, kin, ends, pipe, wrote, world>>

KillAndWait(e) ==
  /\ Up /\ KillThenWait(e)
  /\ UNCHANGED <<result, late, readers, server>>

\* The call returns r; the registration goes.
Return(e, r) ==
  /\ pc' = [pc EXCEPT ![e] = "done"]
  /\ result' = [result EXCEPT ![e] = r]
  /\ registry' = registry \ {pid[e]}

\* Mutant: the reader is joined.
JoinReader(e, s) == FALSE

\* recv_timeout: what has been sent is received even past the deadline.
Expired(e, s) == late[e] /\ reader[e][s] \in {"read", "over", "stored"}

Collect(e, s) ==
  /\ Up /\ pc[e] = s
  /\ \/ /\ reader[e][s] = "ok" /\ s = "stdout"
        /\ pc' = [pc EXCEPT ![e] = "stderr"]
        /\ UNCHANGED <<result, registry>>
     \/ reader[e][s] = "ok" /\ s = "stderr" /\ Return(e, "ok")
     \/ reader[e][s] = "error" /\ Return(e, "overflow")
     \/ reader[e][s] = "failed" /\ Return(e, "failed")
     \/ Expired(e, s) /\ Return(e, "timeout")
  /\ UNCHANGED <<late, command, readers, world, server>>

-----------------------------------------------------------------------------
(* spawn_output_reader *)

\* Mutant: each stream has its own counter.
OwnCounter(e, s, n) == wrote[e][s] - pipe[e][s] + n

\* used.fetch_add(n) + n
FetchAdd(e, s, n) == used[e] + n

ReadSome(e, s) ==
  /\ Up /\ reader[e][s] = "read"
  /\ \E n \in 1 .. pipe[e][s] :
       /\ pipe' = [pipe EXCEPT ![e][s] = @ - n]
       /\ used' = [used EXCEPT ![e] = FetchAdd(e, s, n)]
       /\ reader' = IF used'[e] > EXEC_OUTPUT_LIMIT
                    THEN [reader EXCEPT ![e][s] = "over"] ELSE reader
  /\ UNCHANGED <<worker, child, pid, kin, ends, wrote, overflow, registry, world, server>>

\* overflow.store, then the error is sent.
Overflow(e, s) ==
  /\ Up
  /\ \/ /\ reader[e][s] = "over"
        /\ overflow' = [overflow EXCEPT ![e] = TRUE]
        /\ reader' = [reader EXCEPT ![e][s] = "stored"]
     \/ /\ reader[e][s] = "stored"
        /\ reader' = [reader EXCEPT ![e][s] = "error"]
        /\ UNCHANGED overflow
  /\ UNCHANGED <<worker, command, used, registry, world, server>>

\* Mutant: an empty pipe is taken for its end.
NothingToRead(e, s) == pipe[e][s] = 0

\* read(2) returns 0
AtEof(e, s) == pipe[e][s] = 0 /\ ends[e][s] = {}

ReadEof(e, s) ==
  /\ Up /\ reader[e][s] = "read" /\ AtEof(e, s)
  /\ reader' = [reader EXCEPT ![e][s] = "ok"]
  /\ UNCHANGED <<worker, command, used, overflow, registry, world, server>>

\* An error of read(2)
ReadFails(e, s) ==
  /\ Up /\ reader[e][s] = "read"
  /\ reader' = [reader EXCEPT ![e][s] = "failed"]
  /\ UNCHANGED <<worker, command, used, overflow, registry, world, server>>

-----------------------------------------------------------------------------
(* main after EOF: kill_registered_execs, then the process ends *)

DrainRegistry ==
  /\ main = "serve"
  /\ main' = "exiting" /\ doomed' = registry /\ registry' = {}
  /\ running' = {e \in Execs : pc[e] \in InProgress}
  /\ UNCHANGED <<worker, command, readers, world>>

\* Mutant: only the command itself is signalled.
KillLeader(p) ==
  /\ child' = [e \in Execs |-> IF pid[e] = p /\ child[e] = "run" THEN "zombie" ELSE child[e]]
  /\ ends' = [e \in Execs |-> IF pid[e] = p /\ child[e] = "run"
                              THEN Closed({"child"}, e) ELSE ends[e]]
  /\ UNCHANGED <<pid, kin, pipe, wrote, world>>

KillRegistered(p) == KillGroup(p, "main")

KillDoomed ==
  \E p \in doomed :
    /\ KillRegistered(p)
    /\ doomed' = doomed \ {p}
    /\ UNCHANGED <<worker, readers, registry, main, running>>

Exit ==
  /\ main = "exiting" /\ doomed = {}
  /\ main' = "gone"
  /\ UNCHANGED <<worker, command, readers, registry, world, doomed, running>>

-----------------------------------------------------------------------------
Init ==
  /\ pc = [e \in Execs |-> "idle"] /\ result = [e \in Execs |-> "none"]
  /\ late = [e \in Execs |-> FALSE]
  /\ child = [e \in Execs |-> "none"] /\ pid = [e \in Execs |-> 0]
  /\ kin = [e \in Execs |-> "none"]
  /\ ends = [e \in Execs |-> [s \in Streams |-> {}]]
  /\ pipe = [e \in Execs |-> [s \in Streams |-> 0]] /\ wrote = pipe
  /\ reader = [e \in Execs |-> [s \in Streams |-> "off"]]
  /\ used = [e \in Execs |-> 0] /\ overflow = [e \in Execs |-> FALSE]
  /\ registry = {}
  /\ others = {} /\ started = 0 /\ harmed = "none"
  /\ main = "serve" /\ doomed = {} /\ running = {}

WorkerStep(e) ==
  \/ Register(e) \/ Reap(e) \/ PollEnds(e, GiveUp(e)) \/ KillAndWait(e)
  \/ \E s \in Streams : Collect(e, s)

ReaderStep(e, s) == ReadSome(e, s) \/ Overflow(e, s) \/ ReadEof(e, s)

Next ==
  \/ \E e \in Execs :
       \/ Refuse(e) \/ Spawn(e) \/ WorkerStep(e) \/ Elapse(e) \/ PollEnds(e, {"failed"})
       \/ Fork(e) \/ ChildExits(e) \/ KinExits(e)
       \/ \E s \in Streams : WriteByte(e, s) \/ ReaderStep(e, s) \/ ReadFails(e, s)
  \/ \E p \in Pids : OtherStarts(p)
  \/ DrainRegistry \/ KillDoomed \/ Exit

Spec == Init /\ [][Next]_vars

\* The server's threads run and time passes.  Commands and their descendants
\* may go on for ever, and no call need fail.
FairSpec ==
  /\ Spec
  /\ \A e \in Execs : /\ WF_vars(WorkerStep(e)) /\ WF_vars(Elapse(e))
                      /\ \A s \in Streams : WF_vars(ReaderStep(e, s))
  /\ WF_vars(KillDoomed) /\ WF_vars(Exit)

-----------------------------------------------------------------------------
(* Properties *)

\* Type invariant of calls, processes, pipes and registry; every byte read is
\* counted once.
TypeOK ==
  /\ pc \in [Execs -> {"idle", "spawned", "done"} \cup InProgress]
  /\ result \in [Execs -> {"none", "ok", "refused", "timeout", "overflow", "failed"}]
  /\ late \in [Execs -> BOOLEAN] /\ overflow \in [Execs -> BOOLEAN]
  /\ child \in [Execs -> {"none", "run", "zombie", "reaped"}] /\ pid \in [Execs -> 0 .. MaxPids]
  /\ kin \in [Execs -> {"none", "group", "away", "dead"}]
  /\ ends \in [Execs -> [Streams -> SUBSET {"child", "kin"}]]
  /\ pipe \in [Execs -> [Streams -> 0 .. MaxBytes]] /\ wrote \in [Execs -> [Streams -> 0 .. MaxBytes]]
  /\ reader \in [Execs -> [Streams -> {"off", "read", "over", "stored", "ok", "error", "failed"}]]
  /\ used \in [Execs -> Nat]
  /\ \A e \in Execs : used[e] = wrote[e]["stdout"] - pipe[e]["stdout"]
                                 + wrote[e]["stderr"] - pipe[e]["stderr"]
  /\ registry \subseteq Pids /\ others \subseteq Pids /\ doomed \subseteq Pids
  /\ started \in 0 .. MaxOthers /\ harmed \in {"none", "worker", "main"}
  /\ main \in {"serve", "exiting", "gone"} /\ running \subseteq Execs

\* A successful exec has the command's whole output: both pipes were read to
\* their end, nobody can write to them any more, and together they are within
\* EXEC_OUTPUT_LIMIT, however the two readers interleaved.
OutputIsComplete ==
  \A e \in Execs : result[e] = "ok" =>
    /\ child[e] = "reaped"
    /\ \A s \in Streams : pipe[e][s] = 0 /\ ends[e][s] = {}
    /\ wrote[e]["stdout"] + wrote[e]["stderr"] <= EXEC_OUTPUT_LIMIT

\* kill_process_group is called before the command is reaped, so that its id
\* cannot have become the group of another program.
WorkersKillTheirOwn == harmed # "worker"

\* After EOF the commands of the calls in progress are gone, descendants in
\* their groups included.  The exception: the registry holds numbers, and a
\* call that ends drops the number even if a later command has it by then.
RunningAreKilled ==
  main = "gone" =>
    \A e \in running : \/ child[e] # "run" /\ kin[e] # "group"
                       \/ \E f \in Execs \ {e} : pid[f] = pid[e]

\* exec_command: "a lingering grandchild can never block this worker thread
\* indefinitely on either path".
CallsReturn == \A e \in Execs : pc[e] = "spawned" ~> (pc[e] = "done" \/ main = "gone")

\* The error text "exec: output exceeded {} bytes, process group killed": when
\* a call reports it, nobody is left in the command's group.
OverflowIsKilled ==
  \A e \in Execs : pc[e] = "done" /\ result[e] = "overflow" =>
    child[e] # "run" /\ kin[e] # "group"
=============================================================================
