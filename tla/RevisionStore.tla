--------------------------- MODULE RevisionStore ---------------------------
(***************************************************************************)
(* The server's revision layer (server/src/revisions, and the mutating     *)
(* half of server/src/fs_handlers.rs) for ONE path.                        *)
(*                                                                         *)
(* A pool of workers serves reads, conditional writes and legacy           *)
(* mutations.  Conditional writes and legacy mutations hold one            *)
(* process-wide mutation lock; reads hold nothing; processes outside the   *)
(* server change the path whenever they like; the server process may end   *)
(* (EOF on stdin) in the middle of any call.                               *)
(*                                                                         *)
(* Data abstraction.  A byte string is a member of Contents: Empty is the  *)
(* file of size 0, Unsupported stands for bytes that are not UTF-8 (a file *)
(* larger than MAX_READ_BYTES is refused in the same places), Mixed is     *)
(* what a read that overlaps a change can assemble from two versions.  The *)
(* SHA-256 digest of a revision is the byte string itself.  The            *)
(* timestamps, size and mode of an inode are its stamp.  The numbers of    *)
(* files that are gone are used again, with a later stamp.                 *)
(***************************************************************************)
EXTENDS Integers, FiniteSets

CONSTANTS
  Workers,        \* worker threads of the server's pool
  NoWorker,       \* the mutation lock is free
  Contents,       \* byte strings a file may hold
  Empty,          \* the byte string of length 0
  Unsupported,    \* bytes no revision may be established for
  Mixed,          \* bytes assembled from two versions of a file
  FineClock,      \* TRUE: every change of an inode changes its stamp
  Ops,            \* operations the client uses
  MaxOps,         \* bound: calls the client makes
  MaxExternal,    \* bound: changes made outside the server
  MaxFaults,      \* bound: failing system calls
  MaxExits        \* bound: ends of the server process

ASSUME ContentsAssumption ==
  /\ {Empty, Unsupported} \subseteq Contents
  /\ Empty # Unsupported
  /\ Mixed \notin Contents

ASSUME WorkersAssumption == NoWorker \notin Workers

ASSUME BoundsAssumption ==
  /\ FineClock \in BOOLEAN
  /\ MaxOps \in Nat
  /\ MaxExternal \in Nat
  /\ MaxFaults \in Nat
  /\ MaxExits \in Nat

READ_ATTEMPTS == 3

\* Every call and every external change creates at most one file, so that
\* there is always a free inode number.
MaxInodes == 1 + MaxOps + MaxExternal
Inodes == 1 .. MaxInodes

Absent == 0       \* nothing is at the path
Special == -1     \* a directory, symlink, FIFO or other non-regular file

Bytes == Contents \cup {Mixed}
Revision == [ino : Inodes, stamp : Nat, bytes : Bytes]
Missing == [ino |-> Absent, stamp |-> 0, bytes |-> Empty]
Tokens == Revision \cup {Missing}

CreatingOps == {"write", "append", "create_new"}
EntryOps == {"delete", "rename_away", "rename_onto", "mkdir", "rmdir"}
AllOps == {"read", "conditional_write"} \cup CreatingOps \cup EntryOps
Calls == [op : AllOps, exp : Tokens, bytes : Contents]

VARIABLES
  entry,      \* what the path names: an inode, Absent or Special
  inode,      \* inode table: [bytes, stamp, links]; links does not count the
              \* name of a worker's temporary file
  lock,       \* holder of MUTATION_LOCK, or NoWorker
  pc,         \* per worker: the step it takes next
  call,       \* per worker: the request it serves
  sample,     \* per worker: the open descriptor and its `before` metadata
  tries,      \* per worker: read attempts used
  ret,        \* per worker: what follows the read in progress
  temp,       \* per worker: the inode of its temporary file, or Absent
  sent,       \* the reply sent by the last step, if it sent one
  ops, ext, faults, exits,     \* what the bounds count
  \* History, read by the properties only:
  issued,     \* revisions handed to the client
  past,       \* revisions of the path, and of files opened at the path
  saved,      \* confirmed conditional writes: [exp, rev]
  overtaken   \* workers whose locked section an external change fell into

files == <<entry, inode>>
bounds == <<ops, ext, faults, exits>>
vars == <<files, lock, pc, call, sample, tries, ret, temp, sent, bounds,
          issued, past, saved, overtaken>>

-----------------------------------------------------------------------------
(* The file system *)

RevisionOf(i) == [ino |-> i, stamp |-> inode[i].stamp, bytes |-> inode[i].bytes]

\* The state of the path as a revision token names it.
Current == IF entry \in Inodes THEN RevisionOf(entry)
           ELSE [ino |-> entry, stamp |-> 0, bytes |-> Empty]

\* A change gives the inode a new stamp; a coarse clock may miss one that
\* leaves the size alone.  A number never used has stamp 0.
StampsAfter(i, b) ==
  {inode[i].stamp + 1} \cup
  IF FineClock \/ inode[i].stamp = 0 \/ ((inode[i].bytes = Empty) # (b = Empty)) THEN {}
  ELSE {inode[i].stamp}

Inode(b, s, n) == [bytes |-> b, stamp |-> s, links |-> n]

\* What inode i may become when its bytes are b and it gets n names more.
Touched(i, b, n) == {Inode(b, s, inode[i].links + n) : s \in StampsAfter(i, b)}

\* Temporary files, whose names only their workers use.
Private(i) == \E w \in Workers : temp[w] = i

\* Inode i gains (n = 1), loses (n = -1) or exchanges (n = 0) a name: its
\* ctime moves too.  The stamp of a file without names is seen by nobody.
Relinked(i, n) ==
  IF inode[i].links + n > 0 \/ Private(i) THEN Touched(i, inode[i].bytes, n)
  ELSE {Inode(inode[i].bytes, inode[i].stamp, 0)}

\* final_type: what keeps the layer from handling the path as a regular file.
\* An inode whose link count is not 1 (0 after it was replaced) is "hardlink".
Hardlinked(i) == inode[i].links # IF Private(i) THEN 0 ELSE 1

\* Files a worker has open.
OpenFiles == {sample[w].ino : w \in {v \in Workers : pc[v] \in {"fstat", "reading", "fill"}}}

\* Files that have a name outside the server's temporary ones, but not the path.
Away == {i \in Inodes \ {entry} : inode[i].links > 0 /\ ~Private(i)}

\* The number of a new file: one whose file is gone, or the next one.
NewInodes ==
  LET free == {i \in Inodes \ (OpenFiles \cup {entry}) : inode[i].links = 0 /\ ~Private(i)}
  IN {i \in free : \A j \in free : inode[j].stamp = 0 => i <= j}

\* The path names e from now on; `arriving' is what e's inode may become, and n
\* is -1 if the file that was at the path loses that name, 0 if it is renamed.
Point(e, arriving, n) ==
  /\ entry' = e
  /\ \E new \in arriving, old \in IF entry \in Inodes THEN Relinked(entry, n) ELSE {Absent} :
       inode' = [i \in Inodes |->
                   IF i = e THEN new ELSE IF i = entry THEN old ELSE inode[i]]

\* Nothing, or no regular file, is at the path.
Vacate(e, n) == Point(e, {Absent}, n)

CreateAtPath(b) == \E i \in NewInodes : Point(i, Touched(i, b, 1), -1)

\* A file that has another name is renamed to the path.
ComeBack == \E i \in Away : Point(i, Relinked(i, 0), -1)

\* One inode changes where it is.
ChangeInode(i, results) == \E f \in results : inode' = [inode EXCEPT ![i] = f]

WriteInode(i, b) == ChangeInode(i, Touched(i, b, 0))

-----------------------------------------------------------------------------
(* Calls and replies *)

NoCall == [op |-> "read", exp |-> Missing, bytes |-> Empty]
NoReply == [to |-> NoWorker, kind |-> "none", rev |-> Missing]

Goto(w, label) == pc' = [pc EXCEPT ![w] = label]

\* Every step records the revisions that the path and the open files have
\* after it.
Record == past' = past \cup {Current'} \cup {RevisionOf(i)' : i \in OpenFiles}

\* A step that sends no reply.
Silent == sent' = NoReply /\ UNCHANGED <<issued, saved>> /\ Record

\* Mutant: the guard of the mutation lock is leaked.
LockLeaked(w) == lock

\* Dropping the MutexGuard, if the handler holds one.
LockDropped(w) == IF lock = w THEN NoWorker ELSE lock

\* The handler returns: its frame goes, with the guard of the mutation lock,
\* its descriptor and the name of its temporary file, and the reply is sent.
Finish(w, kind, rev) ==
  /\ Goto(w, "idle")
  /\ call' = [call EXCEPT ![w] = NoCall]
  /\ sample' = [sample EXCEPT ![w] = Missing]
  /\ tries' = [tries EXCEPT ![w] = 0]
  /\ ret' = [ret EXCEPT ![w] = "reply"]
  /\ temp' = [temp EXCEPT ![w] = Absent]
  /\ lock' = LockDropped(w)
  /\ sent' = [to |-> w, kind |-> kind, rev |-> rev]
  /\ issued' = issued \cup ({rev} \cap Revision)
  /\ Record

\* Replies that confirm no conditional write; error replies carry the wire
\* code and no revision.
Answer(w, kind, rev) == Finish(w, kind, rev) /\ UNCHANGED saved
Fail(w, code) == Answer(w, code, Missing)

StartRead(w, then) ==
  /\ Goto(w, "lstat")
  /\ ret' = [ret EXCEPT ![w] = then]
  /\ tries' = [tries EXCEPT ![w] = 0]
  /\ Silent
  /\ UNCHANGED <<lock, call, sample>>

\* The worker goes on, without the descriptor it may have had.
Continue(w, label) ==
  /\ Goto(w, label)
  /\ sample' = [sample EXCEPT ![w] = Missing]
  /\ Silent
  /\ UNCHANGED <<lock, call, tries, ret>>

\* The client's next request.  Tokens come from earlier replies.
Request(w, c) ==
  /\ pc[w] = "idle"
  /\ UNCHANGED <<files, lock, sample, tries, ret, temp, ext, faults, exits,
                 overtaken>>
  /\ ops < MaxOps
  /\ ops' = ops + 1
  /\ call' = [call EXCEPT ![w] = c]
  /\ Goto(w, IF c.op = "read" THEN "lstat" ELSE "lock")
  /\ Silent

FirstStep(c) ==
  IF c.op = "conditional_write" THEN "check"
  ELSE IF c.op \in CreatingOps THEN "create" ELSE "mutate"

\* Mutant: nobody waits for the mutation lock.
NoGuard(w) == lock' = w

mutation_guard(w) == lock = NoWorker /\ lock' = w

\* The handler of a mutation enters its critical section.
Acquire(w) ==
  /\ pc[w] = "lock"
  /\ UNCHANGED <<files, call, sample, tries, ret, temp, bounds>>
  /\ mutation_guard(w)
  /\ Goto(w, FirstStep(call[w]))
  /\ overtaken' = overtaken \ {w}
  /\ Silent

-----------------------------------------------------------------------------
(* read_with_revision: up to READ_ATTEMPTS samples through one descriptor *)

\* open_checked: lstat ...
ReadLstat(w) ==
  /\ pc[w] = "lstat"
  /\ UNCHANGED <<files, bounds, overtaken>>
  /\ \/ /\ entry \in Inodes /\ ~Hardlinked(entry)
        /\ Continue(w, "open")
        /\ UNCHANGED temp
     \/ entry = Absent /\ Fail(w, "io")
     \/ /\ entry = Special \/ (entry \in Inodes /\ Hardlinked(entry))
        /\ Fail(w, "unsupported_file_type")

\* A descriptor nothing is known of yet.
Opened(i) == [ino |-> i, stamp |-> 0, bytes |-> Empty]

\* ... then open, which refuses a symlink; fstat will refuse other types.
ReadOpen(w) ==
  /\ pc[w] = "open"
  /\ UNCHANGED <<files, bounds, overtaken>>
  /\ \/ /\ entry \in Inodes
        /\ sample' = [sample EXCEPT ![w] = Opened(entry)]
        /\ Goto(w, "fstat")
        /\ Silent
        /\ UNCHANGED <<lock, call, tries, ret, temp>>
     \/ entry = Absent /\ Fail(w, "io")
     \/ entry = Special /\ \E code \in {"io", "unsupported_file_type"} : Fail(w, code)

\* The first sample, of the file that was opened, wherever it is by now.
ReadFstat(w) ==
  /\ pc[w] = "fstat"
  /\ UNCHANGED <<files, bounds, overtaken>>
  /\ LET i == sample[w].ino IN
     \/ /\ ~Hardlinked(i)
        /\ sample' = [sample EXCEPT ![w] = RevisionOf(i)]
        /\ tries' = [tries EXCEPT ![w] = @ + 1]
        /\ Goto(w, "reading")
        /\ Silent
        /\ UNCHANGED <<lock, call, ret, temp>>
     \/ Hardlinked(i) /\ Fail(w, "unsupported_file_type")

\* What reading may return: the bytes at the first sample, the bytes at the
\* second, or parts of both.
ReadBytes(w) ==
  LET old == sample[w].bytes
      new == inode[sample[w].ino].bytes
  IN {old, new} \cup IF old = new THEN {} ELSE {Mixed}

\* Mutant: the second sample is not compared with the first.
NeverCompared(w) == TRUE

\* metadata_equal of the two samples (the link counts are equal: both are 1).
Stable(w) == inode[sample[w].ino].stamp = sample[w].stamp

\* Mutant: the loop does not count its attempts.
AlwaysRetry(w) == TRUE

AttemptsLeft(w) == tries[w] < READ_ATTEMPTS

ReadRetry(w) ==
  /\ pc[w] = "reading"
  /\ UNCHANGED <<files, temp, bounds, overtaken>>
  /\ ~Hardlinked(sample[w].ino)
  /\ ~Stable(w)
  /\ AttemptsLeft(w)
  /\ Continue(w, "lstat")

ReadFail(w) ==
  /\ pc[w] = "reading"
  /\ UNCHANGED <<files, bounds, overtaken>>
  /\ \/ Hardlinked(sample[w].ino) /\ Fail(w, "unsupported_file_type")
     \/ /\ ~Hardlinked(sample[w].ino) /\ ~Stable(w)
        /\ ~AttemptsLeft(w)
        /\ Fail(w, "unstable_read")
     \/ /\ ~Hardlinked(sample[w].ino) /\ Stable(w)
        /\ Unsupported \in ReadBytes(w)
        /\ Fail(w, "unsupported_encoding")

\* Mutant: a revision is recognised by its digest alone.
SameDigest(rev, exp) == rev.bytes = exp.bytes

\* PartialEq of Revision: identity, metadata and digest.
SameRevision(rev, exp) == rev = exp

\* The caller of read_with_revision goes on with the revision it got.
Resume(w, rev) ==
  \/ ret[w] = "reply" /\ Answer(w, "ok", rev)
  \/ /\ ret[w] = "compare" /\ SameRevision(rev, call[w].exp)
     /\ Continue(w, IF temp[w] = Absent THEN "temp" ELSE "publish")
     /\ UNCHANGED temp
  \/ /\ ret[w] = "compare" /\ ~SameRevision(rev, call[w].exp)
     /\ Answer(w, "changed", rev)
  \/ ret[w] = "appeared" /\ Answer(w, "appeared", rev)
  \/ /\ ret[w] = "verify" /\ rev.bytes = call[w].bytes
     /\ Finish(w, "ok", rev)
     /\ saved' = saved \cup {[exp |-> call[w].exp, rev |-> rev]}
  \/ /\ ret[w] = "verify" /\ rev.bytes # call[w].bytes
     /\ Answer(w, "changed", rev)

ReadDone(w) ==
  /\ pc[w] = "reading"
  /\ UNCHANGED <<files, bounds, overtaken>>
  /\ ~Hardlinked(sample[w].ino)
  /\ Stable(w)
  /\ \E b \in ReadBytes(w) \ {Unsupported} :
       Resume(w, [sample[w] EXCEPT !.bytes = b])

-----------------------------------------------------------------------------
(* conditional_write_locked *)

\* Bytes that are too large or not UTF-8 are refused before any check.
RefuseBytes(w) ==
  /\ pc[w] = "check"
  /\ UNCHANGED <<files, bounds, overtaken>>
  /\ call[w].bytes = Unsupported
  /\ Fail(w, "unsupported_encoding")

\* conflict_for_existing, and missing_appearance_conflict for `Missing'.
\* The first check is made before there is a temporary file, the second after.
Check(w) ==
  /\ pc[w] = "check"
  /\ UNCHANGED <<files, bounds, overtaken>>
  /\ call[w].bytes # Unsupported
  /\ \/ /\ entry = Absent /\ call[w].exp = Missing
        /\ Continue(w, IF temp[w] = Absent THEN "temp" ELSE "publish")
        /\ UNCHANGED temp
     \/ entry = Absent /\ call[w].exp # Missing /\ Fail(w, "deleted")
     \/ entry = Special /\ Fail(w, "type_changed")
     \/ /\ entry \in Inodes /\ Hardlinked(entry)
        /\ Fail(w, "unsupported_file_type")
     \/ /\ entry \in Inodes /\ ~Hardlinked(entry)
        /\ StartRead(w, IF call[w].exp = Missing THEN "appeared" ELSE "compare")
        /\ UNCHANGED temp

\* PendingTemp::new, preserve_metadata, write_all and sync_all: the file has
\* a private name, so nobody sees the steps between.
WriteTemp(w) ==
  /\ pc[w] = "temp"
  /\ UNCHANGED <<entry, bounds, overtaken>>
  /\ \E i \in NewInodes :
       /\ ChangeInode(i, Touched(i, call[w].bytes, 0))
       /\ temp' = [temp EXCEPT ![w] = i]
  /\ Continue(w, "check")

\* rename(temp, path).  It replaces a symlink and fails on a directory.
PublishRename(w) ==
  /\ pc[w] = "publish"
  /\ UNCHANGED <<bounds, overtaken>>
  /\ call[w].exp # Missing
  /\ \/ /\ Point(temp[w], Relinked(temp[w], 1), -1)
        /\ temp' = [temp EXCEPT ![w] = Absent]
        /\ StartRead(w, "verify")
     \/ entry = Special /\ UNCHANGED files /\ Fail(w, "io")

\* hard_link(temp, path), which never replaces: a collision is classified.
PublishLink(w) ==
  /\ pc[w] = "publish"
  /\ UNCHANGED <<temp, bounds, overtaken>>
  /\ call[w].exp = Missing
  /\ \/ /\ entry = Absent
        /\ Point(temp[w], Relinked(temp[w], 1), -1)
        /\ Continue(w, "unlink")
     \/ entry # Absent /\ UNCHANGED files /\ Continue(w, "collide")

Collide(w) ==
  /\ pc[w] = "collide"
  /\ UNCHANGED <<files, bounds, overtaken>>
  /\ \/ entry = Absent /\ Fail(w, "io")
     \/ entry = Special /\ Fail(w, "type_changed")
     \/ /\ entry \in Inodes /\ Hardlinked(entry)
        /\ Fail(w, "unsupported_file_type")
     \/ /\ entry \in Inodes /\ ~Hardlinked(entry)
        /\ StartRead(w, "appeared") /\ UNCHANGED temp

\* The temporary name outlives its worker.
KeepTempName(w) == inode' = [inode EXCEPT ![temp[w]].links = @ + 1]

DropTempName(w) == ChangeInode(temp[w], Relinked(temp[w], 0))

\* remove_file(temp) leaves the path as the only name of the inode.
UnlinkTemp(w) ==
  /\ pc[w] = "unlink"
  /\ UNCHANGED <<entry, bounds, overtaken>>
  /\ DropTempName(w)
  /\ temp' = [temp EXCEPT ![w] = Absent]
  /\ StartRead(w, "verify")

\* A system call of a write fails.  Dropping PendingTemp removes the
\* temporary name; when even that fails after hard_link, the name stays.
IoFailure(w) ==
  /\ pc[w] \in {"temp", "publish", "unlink", "create", "fill"}
  /\ UNCHANGED <<entry, ops, ext, exits, overtaken>>
  /\ faults < MaxFaults
  /\ faults' = faults + 1
  /\ IF pc[w] = "unlink" THEN DropTempName(w) \/ KeepTempName(w) ELSE UNCHANGED inode
  /\ Fail(w, "io")

-----------------------------------------------------------------------------
(* Legacy mutations: no token, same lock *)

\* write_file opens the path: it truncates (write, copy), keeps (append), or
\* insists on creating (must_be_new).  A symlink leads away from the path.
CreateOpen(w) ==
  /\ pc[w] = "create"
  /\ UNCHANGED <<bounds, overtaken>>
  /\ \/ /\ entry = Absent
        /\ CreateAtPath(Empty)
        /\ sample' = [sample EXCEPT ![w] = Opened(entry')]
        /\ Goto(w, "fill") /\ Silent
        /\ UNCHANGED <<lock, call, tries, ret, temp>>
     \/ /\ entry \in Inodes /\ call[w].op # "create_new"
        /\ IF call[w].op = "write" THEN WriteInode(entry, Empty) ELSE UNCHANGED inode
        /\ UNCHANGED entry
        /\ sample' = [sample EXCEPT ![w] = Opened(entry)]
        /\ Goto(w, "fill") /\ Silent
        /\ UNCHANGED <<lock, call, tries, ret, temp>>
     \/ /\ entry = Special \/ (entry \in Inodes /\ call[w].op = "create_new")
        /\ UNCHANGED files /\ Fail(w, "io")

\* The bytes arrive through the descriptor, wherever the path points by now.
CreateFill(w) ==
  /\ pc[w] = "fill"
  /\ UNCHANGED <<entry, bounds, overtaken>>
  /\ WriteInode(sample[w].ino, call[w].bytes)
  /\ Answer(w, "done", Missing)

\* delete, rename, mkdir and rmdir move the name in one system call, or fail.
MutateEntry(w) ==
  /\ pc[w] = "mutate"
  /\ UNCHANGED <<bounds, overtaken>>
  /\ LET op == call[w].op IN
     \/ /\ \/ op = "delete" /\ entry # Absent /\ Vacate(Absent, -1)
           \/ op = "rename_away" /\ entry # Absent /\ Vacate(Absent, 0)
           \/ op = "rmdir" /\ entry = Special /\ Vacate(Absent, -1)
           \/ op = "mkdir" /\ entry = Absent /\ Vacate(Special, -1)
           \/ op = "rename_onto" /\ (CreateAtPath(call[w].bytes) \/ ComeBack)
        /\ Answer(w, "done", Missing)
     \/ UNCHANGED files /\ Fail(w, "io")

-----------------------------------------------------------------------------
(* The world outside, and the end of the server process *)

External ==
  /\ ext < MaxExternal
  /\ ext' = ext + 1
  /\ overtaken' = Workers
  /\ \/ entry # Absent /\ \E n \in {-1, 0} : Vacate(Absent, n)
     \/ entry # Special /\ Vacate(Special, -1)
     \/ \E b \in Contents : CreateAtPath(b)
     \/ ComeBack
     \/ /\ \E i \in Away \cup ({entry} \cap Inodes) :
             \/ \E b \in Contents \ {inode[i].bytes} : WriteInode(i, b)
             \/ ChangeInode(i, Relinked(i, 1))
             \/ (i \in Away \/ inode[i].links > 1) /\ ChangeInode(i, Relinked(i, -1))
        /\ UNCHANGED entry
  /\ Silent
  /\ UNCHANGED <<lock, pc, call, sample, tries, ret, temp, ops, faults, exits>>

\* EOF on stdin: main returns without joining the workers; nobody gets a
\* reply, the names of temporary files stay, and the next connection starts a
\* new process.
ServerExit ==
  /\ exits < MaxExits
  /\ exits' = exits + 1
  /\ \E w \in Workers : pc[w] # "idle"
  /\ pc' = [w \in Workers |-> "idle"]
  /\ call' = [w \in Workers |-> NoCall]
  /\ sample' = [w \in Workers |-> Missing]
  /\ tries' = [w \in Workers |-> 0]
  /\ ret' = [w \in Workers |-> "reply"]
  /\ temp' = [w \in Workers |-> Absent]
  /\ lock' = NoWorker
  /\ inode' = [i \in Inodes |->
                IF Private(i) THEN [inode[i] EXCEPT !.links = @ + 1] ELSE inode[i]]
  /\ UNCHANGED <<entry, ops, ext, faults, overtaken>>
  /\ Silent

-----------------------------------------------------------------------------
WorkerStep(w) ==
  \/ Acquire(w)
  \/ ReadLstat(w) \/ ReadOpen(w) \/ ReadFstat(w) \/ ReadRetry(w) \/ ReadFail(w) \/ ReadDone(w)
  \/ RefuseBytes(w) \/ Check(w) \/ WriteTemp(w) \/ PublishRename(w) \/ PublishLink(w)
  \/ Collide(w) \/ UnlinkTemp(w)
  \/ CreateOpen(w) \/ CreateFill(w) \/ MutateEntry(w)

\* What the client may ask for; only operations of Ops are asked.
Requests ==
  LET Calling(os, es, bs) == [op : os \cap Ops, exp : es, bytes : bs] IN
  Calling({"read"}, {Missing}, {Empty})
    \cup Calling({"conditional_write"}, issued \cup {Missing}, Contents)
    \cup Calling(CreatingOps \cup {"rename_onto"}, {Missing}, Contents)
    \cup Calling(EntryOps \ {"rename_onto"}, {Missing}, {Empty})

Next ==
  \/ \E w \in Workers : \E c \in Requests : Request(w, c)
  \/ \E w \in Workers : WorkerStep(w)
  \/ \E w \in Workers : IoFailure(w)
  \/ External
  \/ ServerExit

Init ==
  /\ \/ entry \in {Absent, Special} /\ inode = [i \in Inodes |-> Inode(Empty, 0, 0)]
     \/ /\ entry = 1
        /\ \E b \in Contents \ {Unsupported} :
             inode = [[i \in Inodes |-> Inode(Empty, 0, 0)] EXCEPT ![1] = Inode(b, 1, 1)]
  /\ lock = NoWorker
  /\ pc = [w \in Workers |-> "idle"]
  /\ call = [w \in Workers |-> NoCall]
  /\ sample = [w \in Workers |-> Missing]
  /\ tries = [w \in Workers |-> 0]
  /\ ret = [w \in Workers |-> "reply"]
  /\ temp = [w \in Workers |-> Absent]
  /\ sent = NoReply
  /\ ops = 0 /\ ext = 0 /\ faults = 0 /\ exits = 0
  /\ issued = {Current} \cap Revision
  /\ past = {Current}
  /\ saved = {}
  /\ overtaken = {}

Spec == Init /\ [][Next]_vars

\* The operating system runs every worker thread that can take a step; it owes
\* nothing to requests, faults, exits or the world outside.
FairSpec == Spec /\ \A w \in Workers : WF_vars(WorkerStep(w))

-----------------------------------------------------------------------------
(* Properties *)

Labels == {"idle", "lock", "check", "lstat", "open", "fstat", "reading", "temp", "publish",
           "unlink", "collide", "create", "fill", "mutate"}
Kinds == {"done", "ok", "changed", "appeared", "deleted", "type_changed", "io",
          "unsupported_file_type", "unsupported_encoding", "unstable_read", "none"}

\* Type invariant of the store's state.
TypeOK ==
  /\ entry \in Inodes \cup {Absent, Special}
  /\ inode \in [Inodes -> [bytes : Contents, stamp : Nat, links : Int]]
  /\ lock \in Workers \cup {NoWorker}
  /\ pc \in [Workers -> Labels]
  /\ call \in [Workers -> Calls]
  /\ sample \in [Workers -> Tokens]
  /\ tries \in [Workers -> 0 .. READ_ATTEMPTS]
  /\ ret \in [Workers -> {"reply", "compare", "appeared", "verify"}]
  /\ temp \in [Workers -> Inodes \cup {Absent}]
  /\ sent \in [to : Workers \cup {NoWorker}, kind : Kinds, rev : Tokens]
  /\ ops \in 0 .. MaxOps
  /\ ext \in 0 .. MaxExternal
  /\ faults \in 0 .. MaxFaults
  /\ exits \in 0 .. MaxExits
  /\ issued \subseteq Revision
  /\ past \subseteq [ino : Inodes \cup {Absent, Special}, stamp : Nat, bytes : Bytes]
  /\ saved \subseteq [exp : Tokens, rev : Revision]
  /\ overtaken \subseteq Workers

\* Worker w's conditional write makes the path name its new file.
Publishes(w) == pc[w] = "publish" /\ entry' = temp[w] /\ entry' # entry

\* A conditional write replaces exactly the revision it was told to expect:
\* no other worker can slip a change between its second check and its rename.
\* Only a change made outside the server's lock can (see overtaken), and a
\* save that expects a missing path replaces nothing even then, because it is
\* published by hard_link (write.rs, conditional_write_locked).
PublishReplacesExpected ==
  [][\A w \in Workers : Publishes(w) =>
        \/ Current = call[w].exp
        \/ call[w].exp # Missing /\ w \in overtaken]_vars

\* Every revision handed to the client, by a read, a save or a conflict, names
\* bytes and metadata that one file had together at one moment: a file that was
\* opened at the path, even if it has been renamed or replaced before the
\* first fstat (read_with_revision, read.rs).  Reads hold no lock and take
\* bytes and metadata in separate calls, so it needs FineClock.
TokensAreReal == issued \subseteq past

\* A token of an existing file is good for one save: of all conditional writes
\* that expect the same revision at most one is confirmed, over the whole life
\* of the path and whatever happens outside the server.  The number of the
\* replaced file is used again, so it needs FineClock: the timestamp is all that
\* tells a new file with the old number from the old one.
OneWinner ==
  \A x, y \in saved : x.exp = y.exp /\ x.exp # Missing => x = y

\* A file is named by the path alone whenever no call is in progress: the
\* temporary name that publishes a new file (write.rs, hard_link and then
\* remove_file) never outlives the call.
SoleLink ==
  (\A w \in Workers : pc[w] = "idle") /\ entry \in Inodes => ~Hardlinked(entry)

\* Every call is answered: the retry loop of a read ends, and whoever waits
\* for the mutation lock gets it, since every holder comes to its reply.
CallsReturn == \A w \in Workers : pc[w] # "idle" ~> pc[w] = "idle"
=============================================================================
