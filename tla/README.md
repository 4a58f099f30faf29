# Relay in TLA+

A verification project for Relay (`src/`): an Emacs client (`lisp/`) that edits files on
a remote host through a small Rust server (`server/`) over one ssh pipe per host.  The
modules here are translated from the source; every definition that models code is tied
to its lines in `PROJECT.json` ("map").

Paths below are relative to the repository root.

## 1. The system

```
 user  --edits, C-x C-s-->  relay-save.el / relay-conflict.el      (AsyncSave)
       --dired, find-file-> relay-prefetch.el: listings            (DirCache)
       --follow a file--->  relay-core.el: chunked tail reads      (TailRead)
                                  |
                                  v
                            relay-core.el: connections             (Connection)
                                           requests, callbacks     (RequestCore)
                                  | length-prefixed frames over ssh
                                  v
                            main loop, 8 workers, writer, watcher  (ServerLoop)
                              | watch, unwatch, events             (DirCache)
                              | exec                               (Exec)
                              | tail_read, read_range              (TailRead)
                              | read, conditional write, mutations (RevisionStore)
                              v
                            the file system  <-- other programs on the host
```

| Component | State | Operations | Interacts with | What is hard | What makes it correct |
|---|---|---|---|---|---|
| Revision layer (`server/src/revisions`) | mutation lock, the file system, temporary files | `read`, conditional `write` | worker pool, other processes | compare and rename are separate system calls; reads take no lock; process exit at any step | a conditional write replaces what it expects; a token names a state that existed; a token wins once; calls return |
| Legacy mutations (`fs_handlers.rs`) | the file system | write, append, create-only write, copy, delete, rename, mkdir, rmdir | same lock | truncate and fill are two steps | they never break a conditional write |
| Server process (`main.rs`, `framing.rs`) | job queue, writer queue | main loop, workers, writer, watcher thread | client, all handlers | bounded queues that block each other; workers that never return; no join at exit | what can be answered is answered, in order; the process ends with its client |
| Watch control (`control.rs`, `main.rs`) | watch table, OS watches | watch, unwatch, translation of events | OS watcher, listing cache | several names of one directory; directories that vanish | every name of a changed directory is told |
| Exec (`fs_handlers.rs`, `relay-exec.el`) | child registry, output buffers | exec, timeout, kill | worker pool | grandchildren keep pipes open; exit races registration | every call returns; children do not outlive the server |
| Request layer (`relay-core.el`) | pending table, callback queue, drain timer | blocking, asynchronous and streaming requests, cancel, timeout, sentinel | all client code | re-entrancy through `accept-process-output`; replies, timeouts, cancellation and death race for one id | a callback is called once, in order, never underneath a blocked request |
| Connections (`relay-core.el`) | table by authority, waiters, direct-watch registry | connect, connect-async, hello, sentinel, add/remove watch | request layer | an old process ends after its successor is registered; blocking and asynchronous connects meet | one live connection; every caller told once; watches survive reconnects |
| Saving (`relay-save.el`, `relay-conflict.el`) | BASE, conflict state, active and queued operation, status, open merge | save, retry, inspect, five resolutions, merge, callbacks | request layer, revision layer | edits while a save is in flight; lost replies; conflicts of conflicts | the modified marker is truthful; BASE is real; resolutions replace what was shown |
| Listing cache (`relay-prefetch.el`) | listings, mtimes, epoch, listings kept across connections, marks | fetch, rewarm, revalidate, events, eviction | request layer, watches | late replies after an invalidation; enumeration of a directory that changes | a listing is never wrong unless an event that evicts it is on its way |
| Content cache (`relay-content-prefetch.el`) | bytes read ahead | warm, evict | listing cache | late replies after an eviction | evicted bytes are not served |
| Tail reads (`relay-core.el`, `read.rs`) | offset and identity of the file | `tail_read`, chunked reads | request layer | rotation and truncation between chunks | bytes are returned once and in order |
| File name handler, completion, UI | none of its own | thin wrappers | the caches | | |

## 2. Modules

| Module | Models | State and actions |
|---|---|---|
| `RevisionStore` | the server's revision layer and legacy mutations for one path | The path (`entry`) and the inodes; per worker a program counter with one action per system call that others can come between: `Acquire`, `ReadLstat`, `ReadOpen`, `ReadFstat`, `ReadRetry`, `ReadFail`, `ReadDone`, `Check`, `WriteTemp`, `PublishRename`, `PublishLink`, `UnlinkTemp`, `Collide`, `CreateOpen`, `CreateFill`, `MutateEntry`, `IoFailure`; and the world: `External`, `ServerExit` |
| `AtomicRegister` | what the revision layer promises: a register compared and replaced in one step | `Begin`, `Replace`, `Confirm`, `Refuse`, `Fail`, `Read`, `Change` |
| `RevisionStoreRefinement` | that `RevisionStore` implements it | the refinement mapping |
| `ServerLoop` | the threads of the server process and the queues between them | `ReadFrame`, `HandleCtl`, `ReplyCtl`, `QueueJob`, `Eof`, `TakeJob`, `SendReply`, `SendEvent`, `WriterTake`, `Write` |
| `Exec` | remote commands | worker: `Refuse`, `Spawn`, `Register`, `Reap`, `PollEnds`, `KillAndWait`, `Collect`; readers: `ReadSome`, `Overflow`, `ReadEof`, `ReadFails`; main: `DrainRegistry`, `KillDoomed`, `Exit`; and the operating system |
| `TailRead` | `tail_read` and `read_range`, the chunked tail read of the client and a caller that follows a file | server: `Open`, `Stat`, `ReadByte`, `ReadEnd`; client: `Begin`, `ChunkDone`, `ChunkFailed`, `Cancel`, `RequestLost`; other programs: `Grow`, `Truncate`, `Rotate`, `Create` |
| `DirCache` | the listing cache with the server's watch table, events and readdir | `Listing`, `AddWatch`, `RemoveWatch`, `TimeOut`, `RunCallback`, `Dispatch`, `Connect`; `Take`, `Work`, `PassOn`, `Overflow` |
| `AsyncSave` | the asynchronous save of one buffer and its conflict workflow | One action per command (`SaveBuffer`, `RetrySave`, `InspectUnknown`, `KeepRemote`, `Resolve`, `StartMerge`, `ApplyMerge`, `AbandonMerge`), per callback (`WriteDone`, `ReconcileDone`, `ConflictReadDone`, `InspectDone`, `MergeVerified`, `MergeWriteDone`, `MergeReadDone`), and the server as the client relies on it, with replies and callbacks that are lost (`LoseReply`) |
| `RequestCore` | the request layer of one connection | `RequestSync`, `ReaddirSync`, `RequestDeferred`, `BlockedDone`, `Cancel`, `Dispatch`, `Timeout`, `StartDrain`, `RunThunk`, `CallbackDone`, `Sentinel`, `FireFailure`; a stack of what Lisp is inside of: blocking requests, blocking listings, callbacks that run and callbacks a drain has yet to call, so that drains nest as they do in Emacs |
| `Connection` | getting and keeping the connection to one authority | `ConnectAsync`, `HelloDone`, `HelloTimeout`, `FileOperation`, `AddWatch`, `RemoveWatch`, `ConnectDone`, `WatchDone`, `Sentinel`; a server that may refuse to watch (`Watched`) |
| `RevisionStoreProofs`, `ServerLoopProofs`, `ExecProofs`, `TailReadProofs`, `AsyncSaveProofs`, `RequestCoreProofs`, `ConnectionProofs`, `DirCacheProofs` | theorems about the module of that name; `RevisionStoreProofs` also the one of the refinement | inductive invariants and lemmas, section 5 |
| `MC*` | constants and symmetry for TLC | |

Operators whose comment starts with "Mutant" are not part of the model.  Each is the form
a plausible bug would give to the definition after it, and `PROJECT.json` names the run
and the property that then fails.

### Abstractions

* **Bytes** are members of a small set.  In `RevisionStore` the digest of a file is its
  bytes, `Unsupported` stands for bytes that are not UTF-8 or too large, `Mixed` for bytes
  a read assembled from two versions.  Size, mode and timestamps of an inode are one
  number, its stamp; with `FineClock = FALSE` a change that keeps the size may keep it.
  With `FineClock = TRUE` two changes always differ in a timestamp: this is an assumption
  about the file system that the properties named in section 5 need, and fail without.
* **Inode numbers** are used again once a file has no name and nobody has it open, in
  `RevisionStore` and in `TailRead`.  The code knows a file by device and number; on a fine
  clock a file that gets an old number has a later stamp.
* **A path** is one name.  A file that is renamed away keeps its link count, can be changed
  under its other name and can come back; copies appear as what they do to the path.  The
  temporary name of a conditional write is counted apart from the other links.
* A system call of a legacy write either happens or fails as a whole: a `write_all` that
  fails half-way is not modelled.  A read's own I/O errors are not modelled; they end the
  call without a change.
* In `AsyncSave` a revision token is a number (`RevisionStore` is about what it stands
  for).  The buffer stays alive and keeps visiting the same file; save hooks, the header
  line, errors signalled inside callbacks and the update of the content cache are left
  out.
* `RequestCore` and `Connection` assume that `accept-process-output` returns once it has
  read output of the process it waits for, so that no further timer runs between the
  arrival of a blocking request's reply and its return.  A process that has died may
  still deliver what it wrote before.
* `Connection` has one directory for all direct watches, and takes the server's handling
  of `watch` and `unwatch` to be in the order they were sent (`main.rs` handles them in
  its main loop; `RepliesInOrder` of `ServerLoop` is the part of this that the server
  owes).  The server may refuse a watch, or keep a directory in its table without a
  watcher (`control.rs:53-61`).  What uses the connection (`use`) is chosen in the initial state and stays.
* `ServerLoop` knows of a request only what kind of reply it gets; `RevisionStore`, `Exec`
  and `DirCache` know what it does.  A frame is written in one step.  The watcher's
  library is one thread that delivers events and registers watches, so that a watch
  waits while an event cannot be sent.
* `Exec` gives a command at most one descendant.  The 20 ms between two polls and the
  grace period of the collection are an arbitrary time: the timeout may be noticed at
  any point after it has passed.  Starting a command is one step, although `spawn` forks
  first: the server does not know the child before `spawn` returns.
* `TailRead` has a request carried out by one worker and its reply handled once; requests
  that fail with their connection are `RequestLost`.  A file's era counts how often what
  its number stands for began anew, by a truncation in place or as another file.  The
  caller continues from each result, which is how the docstrings tell callers to use the
  API.  Ranges above `MAX_RANGE_BYTES` are refused before anything is opened and are left
  out.
* `DirCache` follows one entry of one directory, with a symbolic link as its second name.
  Directory and attributes are opened and read in one step, entries are read and the
  reply queued in another; the events of one change reach all names in one step.  The
  listing cache's switch is on, and the marks stay.  File system events are delivered in
  order, and an overflow replaces those that were lost.

## 3. What is checked

Passing runs.

| Run | Instance | Properties |
|---|---|---|
| `store_server` | 2 workers, 3 calls of all kinds, coarse clock, nothing outside, with fairness | `TypeOK`, `CallsReturn`, `ImplementsRegister` |
| `store_world` | 2 workers, 3 calls (read, conditional write, write, delete, rename), 1 outside change, 1 failing call, 1 exit, fine clock | `TokensAreReal`, `OneWinner`, `PublishReplacesExpected` |
| `server_loop` | 2 workers, queues of 1, 4 frames of 5 kinds, 1 event, 1 stuck worker, with fairness | `TypeOK`, `RepliesInOrder`, `RequestsAnswered`, `EofEndsProcess` |
| `exec` | 1 command with a descendant, 2 bytes for each stream, limit of 2, 1 process id, 1 foreign process, with fairness | `TypeOK`, `OutputIsComplete`, `WorkersKillTheirOwn`, `RunningAreKilled`, `CallsReturn` |
| `tail_read` | 2 calls, 2 inode numbers, 4 appended bytes, 1 truncation, 1 rotation, 1 lost request, replies of 1 byte, calls of 2, fine clock, with fairness | `TypeOK`, `FollowsOneFile`, `RangeIsOneVersion`, `CompleteReachesEof`, `SequencesEnd` |
| `dir_cache` | a directory and a link to it, 2 changes, 3 connections and commands | `TypeOK`, `CoveredIsCurrent` |
| `save_tokens` | 2 edits, 4 commands, 1 outside change, 2 faults; Keep Local, Keep Remote and merge | `TypeOK`, `BaseIsReal`, `ExpectsItsBase`, `ResolutionReplacesShown` |
| `save_live` | 2 edits, 4 commands, 1 outside change, 1 fault, all resolutions, with fairness | `CleanIsBase`, `LatestRequestWins`, `SavesEnd` |
| `core_routing` | 3 requests or listings, 1 chunk, queue of 2, callback errors, death | `TypeOK`, `CompletesAtMostOnce`, `NoCallbackUnderWaiter`, `DoneIsLast` |
| `core_live` | 3 requests or listings, death, with fairness | `CompletionsAccounted`, `RequestsSettle` |
| `conn` | 2 asynchronous callers, 3 processes, up to 3 deaths (1 where calls block), 1 refusal, up to 2 watches, for each of the three uses, with fairness | `TypeOK`, `LiveIsRegistered`, `WaitersAccounted`, `WaitersAreTold`, `WatchesSurvive` |

**Bounds.**  Two workers with three calls give a conditional write, a competitor and a
reader of the result; the three changes it takes to exhaust `READ_ATTEMPTS` come from the
other worker's calls and the outside change.  Two workers and queues of one are the
smallest pool in which everyone can wait for everyone: four frames fill both workers, the
job queue and the main loop.  `server_loop` has also been run with all seven kinds of
frames and three of them (514,843 states).  One command and one process id make every
reuse of the id happen, and two bytes on each stream pass the limit of two on one stream
and on both together; `exec` has also been run with two commands and two ids without
output (9.4 million states).  Four appended bytes against replies of one byte and calls of
two give sequences that are complete, capped and overtaken by rotation, and a range of two
bytes that could mix two eras; two inode numbers give a second file under another number
and, once the first one is gone, under the same.  Two changes and three inputs give a
listing, its change, and a reconnect to a directory that has changed or is gone.  Two
edits and four commands give a save, a queued save and the resolution of the conflict they
meet, and two faults a lost write followed by a failed reconciliation; `save_tokens` has
also been run with two outside changes (14.1 million states).  Three requests give a
blocked request, one nested under it and a stream; or a stream whose chunk waits in a
suspended drain, the listing that suspends it, and the drain started underneath.  Three
processes give an old connection, its successor and a further one.

**Symmetry** is declared where workers are interchangeable and no liveness is checked.

**Deadlock** checking is off: every counter is bounded, so every behaviour ends.

**Fairness.**  `RevisionStore`: the operating system runs each worker that can take a step
(weak fairness per worker), and a `Mutex` that is released is eventually taken; nothing is
assumed of clients, faults or other processes.  `ServerLoop`: the threads do not all stop
while one of them can run, which is weaker than fairness for each thread and is enough
because every step of a thread uses up work.  It includes the writer: a client that keeps
the connection reads what it is sent, as the process filter of Emacs does.  `Exec`: worker
and reader threads run, and time passes; commands and descendants owe nothing.
`TailRead`: the worker runs and scheduled callbacks are called; other programs owe
nothing.  `tail_read` has no timeout: a request on a connection that is there is answered
or fails with it, and one whose callback is lost before that (as below) is not modelled in
`TailRead`.  `AsyncSave`: a request that has reached the request layer is answered or
fails by `relay-request-timeout`, and Emacs runs scheduled callbacks.  That is not true of
every request: `relay-conflict--rpc-async` goes through `relay-connect-async`, whose
caller is never told if it joins a blocking connect, and a full queue or an error in a
batch loses callbacks.  These are `LoseReply` with the result "lost", which owes nothing
from then on, and `SavesEnd` excepts it (`Abandoned`).  `RequestCore` and `Connection`:
due timers run, sentinels run, blocking calls have a deadline; the server owes nothing.

**The register.**  `ImplementsRegister` says in one formula what the revision layer is
for: `RevisionStore` implements `AtomicRegister`.  The state of the register is the
revision at the path, and a conditional write takes effect with its `rename`, or with the
`remove_file` that follows its `hard_link`: only then the file has the ctime that will be
reported, and between the two every reader refuses it as a hard link, so that for the
register the path is still missing.  A conditional write whose token is current fails only
for bytes it cannot save.  The refinement holds as long as nothing outside the server
changes the path, system calls succeed and the process lives; what remains true beyond that
is in `store_world`.

**What the store runs show.**  Within the server the calls of all workers act on the path
as on an atomic register, whatever the resolution of the clock: a save is accepted if and
only if all of its revision is that of the path.  Against programs outside, three things remain: a token never names a state that
did not exist, a token of an existing file is confirmed at most once, and a save that
expects a missing file never replaces anything, because it is published with `hard_link`.
The first two need timestamps that see each change.  A token names a state of a file that
was opened at the path; between `open` and the first `fstat` that file may be renamed away
and written under its new name, so the state need not be one that the path had
(`read.rs:19-20`; `ReadOpen`, `ReadFstat`).

## 4. Where the code and its documents disagree

The run `save_recovery` checks a statement of the repository's README and TLC refutes it
(`EditsAreKept`): Keep Remote discards edits made after the conflict was recorded.  The
quotation is in `PROJECT.json` ("findings").

The models show more of them.  The following need only other constants in a
configuration, or a property without the condition that excepts the case; each has been
run and TLC finds the counterexample.  `SoleLink`, `OverflowIsKilled`, `TruncationIsCaught` and
`LinksAreRevalidated` are definitions of their modules that no passing run lists.

| Property | Instance | What happens |
|---|---|---|
| `SoleLink` | `MaxExits = 1` in `store_server` | the process ends between `hard_link` and `remove_file`; the file is a hard link from then on and every read and save refuses it (`write.rs:189-191`: "leaves the new destination as the sole link") |
| `SoleLink` | `MaxFaults = 1` in `store_server` | `remove_file` fails after `hard_link`: the same without the exit |
| `TokensAreReal` | 1 worker, 1 read, 1 outside change, `FineClock = FALSE` | a read mixes two versions of the same size written within one timestamp tick |
| `OneWinner` | 1 worker, 3 calls, nothing outside, `FineClock = FALSE` | the number freed by one save is used by the next for the same bytes within one timestamp tick, so that a spent token is current again and wins a second time (`types.rs:73-107`) |
| `RangeIsOneVersion` | `FineClock = FALSE` in `tail_read` | the file is truncated and grows to the same size between two reads within one tick, and `metadata_equal` sees no change (`types.rs:335-347`) |
| `BaseIsReal` | save-as and keep-remote, 3 commands, 2 outside changes | a refused Save As makes another file's version the REMOTE of this one (`relay-save.el:234-249`) |
| `BaseIsReal` | restore-base, 2 commands, 2 outside changes | a refused Restore Base is taken for convergence with the LOCAL of the earlier conflict (`relay-save.el:432-434`) |
| `CompletionsAccounted` | `MaxErrors = 1`, 2 requests | one callback that signals loses the rest of its batch (`relay-core.el:224-226`) |
| `CompletionsAccounted` | `QueueMax = 1`, 2 requests | the request whose reply finds the queue full is never completed (`relay-core.el:338-346`) |
| `DoneIsLast` | without `overtaken`, `core_routing` | a callback of a drained batch waits in `relay--readdir-all-sync`, and a drain started underneath completes a stream whose chunk is still in the outer batch (`relay-core.el:216-226`, `relay-prefetch.el:529-530`) |
| `SavesEnd` | without `Abandoned`, 1 edit, 1 save, 1 fault | the callback of a save's request is lost and the buffer stays "saving": its caller joined a blocking connect (`relay-core.el:840-842`, through `relay-conflict.el:134`), or the queue was full, or its batch ended with an error |
| `WaitersAccounted`, `WaitersAreTold` | without `Stranded`, 1 process, 1 caller | a caller that joins a blocking connect is never told (`relay-core.el:840-842`) |
| `WaitersAccounted` | without `refusals = 0`, 1 process, 1 caller | a hello that cannot be sent tells its caller twice (`relay-core.el:887-890`) |
| `WaitersAccounted` | without `Signalled`, 1 process, 1 caller | death between hello and its callback loses the callers when a watch or a marked directory is to be registered again (`relay-core.el:929-933`) |
| `WatchesSurvive` | with `watch = "on"`, 2 processes | the new server refuses the watch and the client, which ignores the answer, keeps a descriptor nothing will ever be reported to (`relay-core.el:171`, `control.rs:53-61`) |
| `WatchesSurvive` | without `use # "nested"`, 2 processes, 2 watches, 1 death | a descriptor registered after a nested reconnect is watched by nobody (`relay-file-handler.el:388-392`) |
| `OverflowIsKilled` | `exec` | a reader that passes the limit after the command has ended reports "process group killed" (`fs_handlers.rs:454-457`), and the descendants live on |
| `TruncationIsCaught` | `MaxTruncates = 0` in `tail_read` | a file that is removed and made again under the same inode number between two chunks is spliced to the old one: `tail_read` compares device and number only (`read.rs:150-151`) |
| `TruncationIsCaught` | `MaxRotates = 0` in `tail_read` | a file that is truncated in place and grows past the offset before the next chunk is spliced to what was read before; the docstring at `relay-core.el:655-657` says a "truncation between chunk 1 and a later chunk is caught" |
| `LinksAreRevalidated` | `Marked = {link}` in `dir_cache` | the mtime of a marked symbolic link is that of the link (`fs_handlers.rs:259-261`), so its kept listing is reused whatever happened to the directory |
| `EofEndsProcess` | `MaxStuck = 2` in `server_loop` | with every worker stuck and the job queue full, main waits in `fs_tx.send` and never reads the EOF that would end the process (`main.rs:187`; the comment at `main.rs:194-198` is about this case) |

These can be read off the actions:

* A change from outside between the second check of a conditional write and its `rename`
  is overwritten (`write.rs:180-184`; the exception `overtaken` in
  `PublishReplacesExpected`).
* A reader whose file is replaced under it finds a link count of 0 and is told "hardlink"
  instead of retrying (`read.rs:39-41`; `ReadFail`).
* An uncertain save whose inspection failed as well has no conflict state to inspect
  (`relay-save.el:374-379`; `ReconcileDone`).
* An empty buffer of a deleted file counts as saved, because a deleted file is
  represented by empty bytes (`relay-save.el:427`; `ConflictReadDone`).
* When the process dies behind a delayed drain, the completion of a stream is called
  before its queued chunks (`relay-core.el:397-398`; `FireFailure`): hence "as long as
  the transport lives" in `DoneIsLast`.
* Chunks do not extend the timeout of a stream (`relay-core.el:513-523`; `Timeout`).
* A request whose sending signals an error stays pending, and its callback is called when
  the sentinel runs (`relay-core.el:471-472`; `RequestDeferred`, `Sentinel`).
* A reply above `MAX_FRAME_BYTES` is dropped without a word (`framing.rs:36`; `Replies`),
  and so is a request that is no JSON (`main.rs:178`): the client waits for its timeout.
* `fs_tx.send` cannot fail while main holds the receiver as well, so that the `break` at
  `main.rs:188` is never reached (`QueueJob`).
* A child between its `spawn` and its registration survives the server
  (`fs_handlers.rs:532-539`; `Spawn`, `DrainRegistry`), hence "in progress" in
  `RunningAreKilled`.
* The registry keeps the number of a process group until its output is collected, not
  for "microseconds" after the command is reaped (`fs_handlers.rs:418-426`;
  `InProgress`): a shutdown in that time may kill a foreign group (`harmed = "main"`).
  It holds numbers, so that a call that returns also removes the registration of a later
  command with the same number.
* A cancelled chunk sequence whose request fails still calls `on-error`
  (`relay-core.el:757` against `607-613`, "silently discarded"; `Failed`, `disturbed`).
* A listing is fetched before its directory is watched (`relay-prefetch.el:546-551`), and
  a change between the two is announced to nobody: hence `Covered` in `CoveredIsCurrent`.
* A directory that is removed and made again stays in the watch table, and a new watch is
  answered from the table without one of the OS (`control.rs:44-51`; `WatchOp`).  Without
  an OS watcher the first watch is refused and the second is not (`control.rs:43-62`).
* An event for another name of a directory voids the reply of a rewarm, which is not
  repeated (`relay-prefetch.el:579`): the marked directory stays cold until its next
  visit.  With one name it does not: `StaysWarm` has been checked under `FairSpec` with
  `Aliases = {real}` (820,298 states).

## 5. What is proved

Each proof module extends the module it is about and proves, for every value of the
constants, what the runs check on a small instance.  Every inductive invariant below was
first checked by TLC as an invariant of the instance that the run uses (for `AccountedInv`,
of `core_live` with a longer queue).  The proofs use only the named assumptions of the
modules, which TLC evaluates in the runs: special values are distinct, the free lock is
not a worker, bounds are natural numbers, queues have room for at least one, a directory has
finitely many names.  Seven
theorems have further hypotheses on the constants, and one on the behaviour; each excludes
a case in which section 4 shows the property to be false, or which the refinement leaves
out on purpose.

| Module | Theorem | States | Hypothesis |
|---|---|---|---|
| `RevisionStoreProofs` | `TypeCorrect` | `TypeOK` | |
| | `PublishSafe` | `PublishReplacesExpected` | |
| | `TokensWinOnce` | `OneWinner` | `FineClock` |
| | `TokensReal` | `TokensAreReal` | `FineClock` |
| | `ImplementsAtomicRegister` | `ImplementsRegister` | `Undisturbed` |
| `ServerLoopProofs` | `TypeCorrect` | `TypeOK`, the queue bounds | |
| | `AnswersOrdered` | `RepliesInOrder` | |
| `ExecProofs` | `TypeCorrect` | `TypeOK`, the byte count | |
| | `KillsOwn` | `WorkersKillTheirOwn` | |
| | `SuccessIsComplete` | `OutputIsComplete` | |
| | `ExitKillsRunning` | `RunningAreKilled` | |
| `TailReadProofs` | `TypeCorrect` | `TypeOK` | |
| | `FollowsFile` | `FollowsOneFile` | |
| | `RangeVersion` | `RangeIsOneVersion` | `FineClock` |
| | `CompleteIsAll` | `CompleteReachesEof` | |
| `AsyncSaveProofs` | `CleanMarker` | `CleanIsBase` | |
| | `ReplacesWhatWasShown` | `ResolutionReplacesShown` | |
| | `NewestSnapshotSaved` | `LatestRequestWins` | |
| | `BaseReal` | `BaseIsReal` | `Tame` |
| | `TypeCorrect` | `TypeOK` | `Tame` |
| | `SavesExpectBase` | `ExpectsItsBase` | `Tame` |
| `RequestCoreProofs` | `TypeCorrect` | `TypeOK`, the queue limit | |
| | `CompletesOnce` | `CompletesAtMostOnce` | |
| | `CompletionsKept` | `CompletionsAccounted` | `[]Unhindered` |
| | `NothingUnderWaiter` | `NoCallbackUnderWaiter` | |
| | `ChunksComeFirst` | `DoneIsLast` | |
| `ConnectionProofs` | `TypeCorrect` | `TypeOK` | |
| | `LiveRegistered` | `LiveIsRegistered` | |
| | `WaitersTold` | `WaitersAccounted` | |
| | `WatchesStay` | `WatchesSurvive` | |
| `DirCacheProofs` | `TypeCorrect` | `TypeOK` | |
| | `ListingsCurrent` | `CoveredIsCurrent` | |

**The revision layer.**  `TypeOK` is not inductive: a step of a worker in a read uses its
sample as an inode, and a publication its temporary file.  `TypeInv` adds what each
program counter implies about sample, attempts, temporary file and call.  For
`PublishSafe`, `SectionInv` says for each worker what its locked section relies on
(`Relies`): it holds the lock while it is in the section, and once it has compared the
token a second time, the path still is what the token says unless an outside change has
overtaken it.  A step of another worker outside its own section changes no file
(`StepSpares`, `SectionChangesFiles`), two workers are never both in a section
(`OthersRely`), the worker that moves establishes it for its next step (`MoverRelies`),
and an outside change marks every section as overtaken (`ExternalRelies`).  For
`TokensWinOnce`, `HistoryInv` says that a spent token does not name the state of the path
and never will again: with `FineClock` files only get older (`Ages`), so the file of the
token, or another one under its number, comes back with a later stamp (`Superseded`).
`Remembers` carries this through the section of a conditional write that has compared its
token and not yet been confirmed.  For `TokensReal`, `RealInv` says that the first sample
of a read was the state of an opened file at that moment and that every change of the file
since then shows in its stamp (`Sampled`), so that equal stamps before and after mean
unchanged bytes.  Without `FineClock` both properties fail (section 4).

**The register.**  `ImplementsAtomicRegister` shows that the initial state maps to the
register's and that every step of the store is one of the register or a stutter, from the
invariants above that need no clock (`TypeInv`, `SectionInv`) and `QuietInv`: a file has one
name or none that counts, and what a conditional write finds at each of its steps when
nobody disturbs it.  `Undisturbed` is the condition of `store_server` (no outside
change, no failing call, no exit); workers, contents, calls and the clock are arbitrary.

**The server loop.**  `LoopInv`: frames are numbered in the order they were read, and the
request in hand is the latest.  `WorkersInv` and `JobsInv`: a request is in one place, in
hand, queued once, or with one worker.  `SentInv` states the order for everything between
the workers and the client (`Output`, the frame being written and the queue) and says that a
request somebody still works on has no final reply there.  The order of the replies follows
when a frame moves along that line.

**Exec.**  `CommandInv`: how far a worker is tells whether its command is reaped, and an id
whose process is not reaped or whose group has members belongs to no other program.
`SeenInv`: the end of a pipe is final once a reader has seen it, because a command that runs
holds it open, and a total above the limit stays with one of the readers.  `TrackedInv`: a
call in progress is registered under its number or shares the number with another call,
whose number main kills as well.

**Tail reads.**  `LinkInv` ties the three places that hold an offset together: the caller's
anchor is the end of what it has, the sequence continues from there and its request from
the end of the sequence, in the same file.  `FollowInv` says of everything collected that it
is of one number, each byte at its place, with eras between that of the first byte and the
current one; `ReadsRange` that on a fine clock the bytes of an attempt are those of the
version `fstat` saw if the stamp still is the same; `EofInv`, with `FilesAge`, that a file
does not shrink within an era.

**The asynchronous save.**  `GeneralInv` holds for every set of resolutions: the request
belongs to the active operation (`OpInv`), a successful reply stands for a version that was
written (`ReplyInv`), a revision names one version (`ServerInv`), and what the user is shown
was there (`ShownInv`).  `AskedInv` says where the bytes asked for last are: in the queue
or, if nothing waits, in the save in flight.  `RealInv` says that every version the client
keeps is one the visited file had, and `CalmInv` that without outside changes and faults
there is nothing but saves, each of which expects what is there.  These two are not true for
Save As and Restore Base (section 4), hence `Tame`: Keep Local, Keep Remote and merge.

**The request layer.**  `StackInv`: whoever waits in `relay--request` is on the stack, and
nobody waits below a callback that runs or is yet to be called.  `OnceInv`: the completion
of a request is in at most one place, in the table, on a failure timer, in the queue, on
the stack, or called; a cancelled request has none.  `LastInv`: while the transport lives
no chunk of a stream that was not overtaken comes after its completion, in the queue, on
the stack or between the two; when a drain starts, the chunks it puts on the stack lie
above those that a suspended drain has left, which is what `overtaken` records.
`AccountedInv`, for the converse: the completion is in at least one of the places.
`Unhindered` excludes the two ways of losing one that section 4 shows: a full queue and a
callback that signals.

**Connections.**  `TypeInv` includes that connection objects are made in order and that each
blocking handshake has one of its own.  `WatchInv`: unless operations nest, Lisp is inside
one at most, and while it adds a watch no other connection is made, so the live one has been
asked: it watches or has refused.  `WaitersInv`: every live connection that was made
asynchronously and is not ready has its handshake before it, so whoever joins it is told;
and each caller has been told once, or is on one list, or was lost with a process that died
between hello and callback.  It holds for every use of the connection.

**The listing cache.**  `CoveredIsCurrent` speaks of listings that are in the cache; its
proof follows a listing from the moment a worker opens the directory.  The argument has
three parts.  *Keys*: as long as the directory has the mtime that goes with a listing, the
entry is there or not as the listing says (`KeyTells`); a step keeps this, because what adds
or removes the entry gives the directory a new mtime, and a listing has it because
`readdir` takes `self_attrs` before the entries.  *Events*: an alias in a watch period is in
the table and the OS watches (`TableOK`), so a change is in the OS queue, then in an event
for this alias or an overflow, until the client has dealt with it.  `Quiet` says that
nothing is there, and `QuietStep` that a step into a quiet state comes from a quiet state of
the same period and leaves the entry alone, or is the event itself, which evicts the listing
and starts a new epoch.  *Epochs*: no message has an epoch, a key or a period later than
the state (`Dated`), so a reply of the current epoch has seen no event since it was asked
for, and while it is quiet its entry is the current one (`Reply`).  `WireInv` says this of
every reply in the writer's queue and among the scheduled callbacks, `KeptInv` that listings
kept across connections have a key that tells, and `CacheInv` is the property itself, made
inductive.  `RemoveFirst`, `RemoveFirstMatch` and `SetToSeq` of the community modules are
used through lemmas about what they keep (`RemoveFirstKeeps`, `GivenUpKeeps`,
`SetToSeqKeeps`).

**Only model-checked.**  Liveness, which needs fairness and `ENABLED` and is outside the
prover's reach (`CallsReturn` of both modules, `RequestsAnswered`, `EofEndsProcess`,
`SequencesEnd`, `SavesEnd`, `RequestsSettle`, `WaitersAreTold`).  Every other property of
the passing runs is the subject of a theorem.

## 6. Not modelled

* The content cache (`relay-content-prefetch.el`).  Its warm reads carry no epoch: a read
  that is answered after the event that evicted its file installs the old bytes again
  (`relay-content-prefetch.el:176-187`).
* The synchronous save of `write-region` (`relay-conflict.el:284`), which shares BASE and
  conflict state with the asynchronous one and runs the same server calls in a blocking
  way.
* Marks, profiles, nested directories and renames in the listing cache; the switch that
  turns prefetching off.
* `resolve`, which only reads; completion, the prefetch UI and the installer.

`PROJECT.json` ("components", "hazards") has the reason in each case.

## 7. Plan

1. Done: `RevisionStore` and the register it implements, `ServerLoop`, `Exec`, `TailRead`,
   `AsyncSave`, `RequestCore`, `Connection`, `DirCache`, all with their proofs.
2. Left: the content cache beside `DirCache`; the synchronous save in `AsyncSave`.
