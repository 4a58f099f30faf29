------------------------------ MODULE TailRead ------------------------------
(***************************************************************************)
(* Following a file: tail_read and read_range of the server                *)
(* (server/src/revisions/read.rs) and the chunked tail read of the client  *)
(* (lisp/relay-core.el), with a caller that continues each call where the  *)
(* one before it ended, while other programs append to the file, rotate it *)
(* away, remove it, put it back or truncate it in place.                   *)
(*                                                                         *)
(* An inode number is used again once its file has no name and is not      *)
(* open. A byte is identified by the number it was written under, the      *)
(* number's era (how often what it stands for began anew, by a truncation  *)
(* in place or as another file) and its position.                          *)
(***************************************************************************)
EXTENDS Integers, Sequences

CONSTANTS
  MAX_TAIL_BYTES,   \* the server's limit for one reply
  TotalMax,         \* relay-tail-read-max-total-bytes
  FineClock,        \* two changes of a file always differ in a time stamp
  MaxFiles,         \* bound: inode numbers
  MaxAppends,       \* bound: bytes appended by other programs
  MaxTruncates,     \* bound: truncations in place
  MaxRotates,       \* bound: times the path comes to lead elsewhere
  MaxCalls,         \* bound: calls of the client
  MaxFaults         \* bound: requests lost with their connection

ASSUME TailAssumption ==
  /\ MAX_TAIL_BYTES \in Nat \ {0} /\ TotalMax \in Nat \ {0}
  /\ FineClock \in BOOLEAN
  /\ MaxFiles \in Nat \ {0} /\ MaxAppends \in Nat /\ MaxTruncates \in Nat
  /\ MaxRotates \in Nat /\ MaxCalls \in Nat /\ MaxFaults \in Nat

READ_ATTEMPTS == 3
None == 0
Inodes == 1 .. MaxFiles

VARIABLES
  path,       \* the inode number the path leads to, or None
  file,       \* per number: era, size, stamp (every time field as one number)
              \* and whether the file has a name, its link count
  made,       \* the numbers up to this one have been used
  call,       \* the request the server works on
  seq,        \* the chunk sequence of the client
  cancelled,  \* its token
  anchor,     \* offset and inode the caller continues from
  text,       \* what the caller has put together
  outcome,    \* how its last call ended
  disturbed,  \* a callback was called for a cancelled sequence
  appends, truncates, rotates, calls, faults

files == <<path, file, made, appends, truncates, rotates>>
client == <<seq, cancelled, anchor, text, outcome, disturbed, calls>>
vars == <<files, call, client, faults>>

NoCall == [pc |-> "idle", op |-> "tail", offset |-> 0, ino |-> None, limit |-> 0,
           fd |-> None, size |-> 0, stamp |-> 0, start |-> 0, end |-> 0, rotated |-> FALSE,
           bytes |-> <<>>, attempt |-> 0, ok |-> FALSE]
NoSeq == [busy |-> FALSE, offset |-> 0, ino |-> None, bytes |-> <<>>,
          goal |-> [ino |-> None, era |-> 0, size |-> 0]]

Least(m, n) == IF m < n THEN m ELSE n
Byte(i, k) == <<i, file[i].era, k>>

-----------------------------------------------------------------------------
(* Other programs *)

\* The stamp of a changed file; a coarse clock may not have moved on.
Stamps(f) == {f.stamp + 1} \cup (IF FineClock THEN {} ELSE {f.stamp})

Grow(i) ==
  /\ i <= made /\ appends < MaxAppends
  /\ appends' = appends + 1
  /\ \E stamp \in Stamps(file[i]) :
       file' = [file EXCEPT ![i].size = @ + 1, ![i].stamp = stamp]
  /\ UNCHANGED <<path, made, truncates, rotates, call, client, faults>>

Truncate ==
  /\ path # None /\ truncates < MaxTruncates
  /\ truncates' = truncates + 1
  /\ \E stamp \in Stamps(file[path]) :
       file' = [file EXCEPT ![path].era = @ + 1, ![path].size = 0, ![path].stamp = stamp]
  /\ UNCHANGED <<path, made, appends, rotates, call, client, faults>>

\* The file is unlinked, or renamed and keeps its link count.
Rotate ==
  /\ path # None /\ rotates < MaxRotates
  /\ rotates' = rotates + 1
  /\ \E named \in BOOLEAN, stamp \in Stamps(file[path]) :
       file' = [file EXCEPT ![path].stamp = stamp, ![path].named = named]
  /\ path' = None
  /\ UNCHANGED <<made, appends, truncates, call, client, faults>>

Held(i) == call.pc \in {"stat", "read"} /\ call.fd = i

\* A new file appears at the path, under a number not in use, or one that was
\* renamed comes back.
Create ==
  /\ path = None
  /\ \E i \in Inodes : \E stamp \in Stamps(file[i]) :
       /\ \/ /\ i <= made + 1 /\ ~file[i].named /\ ~Held(i)
             /\ file' = [file EXCEPT ![i].era = @ + 1, ![i].size = 0, ![i].stamp = stamp,
                                     ![i].named = TRUE]
          \/ /\ file[i].named
             /\ file' = [file EXCEPT ![i].stamp = stamp]
       /\ path' = i
       /\ made' = IF i > made THEN i ELSE made
  /\ UNCHANGED <<appends, truncates, rotates, call, client, faults>>

-----------------------------------------------------------------------------
(* The server *)

Answer(c, ok) == call' = [c EXCEPT !.pc = "answered", !.ok = ok]

\* open_checked
Open ==
  /\ call.pc = "open"
  /\ IF path = None THEN Answer(call, FALSE)
     ELSE call' = [call EXCEPT !.pc = "stat", !.fd = path, !.bytes = <<>>]
  /\ UNCHANGED <<files, client, faults>>

\* Mutant: only a shorter file starts again.
OnlyShrunk(c, f) == c.offset > f.size

\* The inode is another one, or shorter than what has been read of it.
TruncatedOrRotated(c, f) == (c.ino # None /\ c.ino # c.fd) \/ c.offset > f.size

\* tail_read after fstat: where it reads and how far.
TailWindow(c, f) ==
  LET rotated == TruncatedOrRotated(c, f)
      start == IF rotated THEN 0 ELSE c.offset
  IN [c EXCEPT !.pc = "read", !.size = f.size, !.rotated = rotated, !.start = start,
               !.end = Least(start + Least(c.limit, MAX_TAIL_BYTES), f.size)]

\* read_range after fstat
RangeWindow(c, f) ==
  [c EXCEPT !.pc = "read", !.size = f.size, !.stamp = f.stamp, !.start = c.offset,
            !.end = Least(c.limit, f.size)]

Stat ==
  /\ call.pc = "stat"
  /\ LET f == file[call.fd]
         range == RangeWindow(call, f)
     IN CASE ~f.named -> Answer(call, FALSE)
          [] f.named /\ call.op = "tail" -> call' = TailWindow(call, f)
          [] f.named /\ call.op = "range" ->
               IF range.start > range.end THEN Answer(range, TRUE) ELSE call' = range
  /\ UNCHANGED <<files, client, faults>>

NextPos == call.start + Len(call.bytes) + 1
AtEnd == NextPos > call.end \/ NextPos > file[call.fd].size

\* read_to_end; other programs may come between two reads.
ReadByte ==
  /\ call.pc = "read" /\ ~AtEnd
  /\ call' = [call EXCEPT !.bytes = Append(@, Byte(call.fd, NextPos))]
  /\ UNCHANGED <<files, client, faults>>

\* Mutant: the second fstat is not compared with the first.
AlwaysStable(c) == TRUE

\* metadata_equal
Stable(c) ==
  LET f == file[c.fd] IN c.stamp = f.stamp /\ c.size = f.size /\ f.named

ReadEnd ==
  /\ call.pc = "read" /\ AtEnd
  /\ \/ /\ call.op = "tail" \/ Stable(call)
        /\ Answer(call, TRUE)
     \/ /\ call.op = "range" /\ ~Stable(call)
        /\ IF call.attempt + 1 = READ_ATTEMPTS THEN Answer(call, FALSE)
           ELSE call' = [call EXCEPT !.pc = "open", !.attempt = @ + 1]
  /\ UNCHANGED <<files, client, faults>>

ActualEnd(c) == c.start + Len(c.bytes)

\* Mutant: more is available only if the reply was cut short by the limit.
MoreThanWanted(c) == ActualEnd(c) < c.end

MoreAvailable(c) == ActualEnd(c) < c.size

-----------------------------------------------------------------------------
(* The client *)

\* A range read of another part of the client, answered to it.
RangeRead ==
  \E from \in 0 .. 1, upto \in 1 .. 2 :
    /\ call.pc = "idle" /\ calls < MaxCalls
    /\ calls' = calls + 1
    /\ call' = [NoCall EXCEPT !.pc = "open", !.op = "range", !.offset = from, !.limit = upto]
    /\ UNCHANGED <<files, seq, cancelled, anchor, text, outcome, disturbed, faults>>

RangeDone ==
  /\ call.pc = "answered" /\ call.op = "range"
  /\ call' = NoCall
  /\ UNCHANGED <<files, client, faults>>

\* The sequence ends with on-success: what the caller does with it.
Deliver(how, bytes, offset, ino) ==
  /\ seq' = NoSeq /\ call' = NoCall
  /\ text' = IF how = "rotated" THEN bytes ELSE text \o bytes
  /\ anchor' = [offset |-> offset, ino |-> ino]
  /\ outcome' = how

\* Mutant: the total is not looked at before the next request.
NeverCapped(bytes) == FALSE

Capped(bytes) == Len(bytes) >= TotalMax

\* step: the next chunk, unless cancelled (see ChunkDone) or capped.
Step(s) ==
  \/ /\ Capped(s.bytes)
     /\ Deliver("capped", s.bytes, s.offset, s.ino)
  \/ /\ ~Capped(s.bytes)
     /\ seq' = s
     /\ call' = [NoCall EXCEPT !.pc = "open", !.offset = s.offset, !.ino = s.ino,
                               !.limit = TotalMax - Len(s.bytes)]
     /\ UNCHANGED <<text, anchor, outcome>>

\* relay-tail-read-chunked-async
Begin ==
  /\ ~seq.busy /\ call.pc = "idle" /\ calls < MaxCalls
  /\ calls' = calls + 1
  /\ cancelled' = FALSE
  /\ LET era == IF path = None THEN 0 ELSE file[path].era
         size == IF path = None THEN 0 ELSE file[path].size
     IN Step([busy |-> TRUE, offset |-> anchor.offset, ino |-> anchor.ino, bytes |-> <<>>,
              goal |-> [ino |-> path, era |-> era, size |-> size]])
  /\ UNCHANGED <<files, disturbed, faults>>

\* relay-tail-read-cancel
Cancel ==
  /\ seq.busy /\ ~cancelled
  /\ cancelled' = TRUE
  /\ UNCHANGED <<files, call, seq, anchor, text, outcome, disturbed, calls, faults>>

\* Mutant: a rotated chunk is appended to the ones before it.
KeepEarlier(bytes) == seq.bytes \o bytes

\* What a re-anchored reply delivers: itself only.
Reanchored(bytes) == bytes

\* The callback of one chunk.
ChunkDone ==
  /\ call.pc = "answered" /\ call.op = "tail" /\ call.ok
  /\ LET bytes == seq.bytes \o call.bytes
         end == ActualEnd(call)
     IN
     \/ /\ cancelled
        /\ seq' = NoSeq /\ call' = NoCall
        /\ UNCHANGED <<text, anchor, outcome>>
     \/ /\ ~cancelled /\ call.rotated
        /\ Deliver("rotated", Reanchored(call.bytes), end, call.fd)
     \/ /\ ~cancelled /\ ~call.rotated /\ MoreAvailable(call)
        /\ Step([seq EXCEPT !.offset = end, !.ino = call.fd, !.bytes = bytes])
     \/ /\ ~cancelled /\ ~call.rotated /\ ~MoreAvailable(call)
        /\ Deliver("complete", bytes, end, call.fd)
  /\ UNCHANGED <<files, cancelled, disturbed, calls, faults>>

\* on-error is called whether or not the sequence is cancelled.
Failed ==
  /\ seq' = NoSeq /\ call' = NoCall
  /\ outcome' = "error"
  /\ disturbed' = (disturbed \/ cancelled)
  /\ UNCHANGED <<files, cancelled, anchor, text, calls>>

ChunkFailed ==
  /\ call.pc = "answered" /\ call.op = "tail" /\ ~call.ok
  /\ Failed /\ UNCHANGED faults

\* The request fails with its connection, or times out.
RequestLost ==
  /\ seq.busy /\ faults < MaxFaults
  /\ faults' = faults + 1
  /\ Failed

-----------------------------------------------------------------------------
Init ==
  /\ path = 1 /\ made = 1
  /\ file = [i \in Inodes |-> [era |-> 0, size |-> 0, stamp |-> 0, named |-> i = 1]]
  /\ call = NoCall /\ seq = NoSeq /\ cancelled = FALSE
  /\ anchor = [offset |-> 0, ino |-> None] /\ text = <<>>
  /\ outcome = "none" /\ disturbed = FALSE
  /\ appends = 0 /\ truncates = 0 /\ rotates = 0 /\ calls = 0 /\ faults = 0

ServerStep == Open \/ Stat \/ ReadByte \/ ReadEnd
Callback == ChunkDone \/ ChunkFailed \/ RangeDone

Next ==
  \/ \E i \in Inodes : Grow(i)
  \/ Truncate \/ Rotate \/ Create
  \/ ServerStep \/ Callback
  \/ RangeRead \/ Begin \/ Cancel \/ RequestLost

Spec == Init /\ [][Next]_vars

\* The worker runs and Emacs calls scheduled callbacks.
FairSpec == Spec /\ WF_vars(ServerStep) /\ WF_vars(Callback)

-----------------------------------------------------------------------------
(* Properties *)

\* Type invariant of files, request, sequence and caller; the caller's anchor is
\* the end of what it has.
TypeOK ==
  /\ path \in 0 .. made /\ made \in Inodes
  /\ file \in [Inodes -> [era : Nat, size : Nat, stamp : Nat, named : BOOLEAN]]
  /\ call.pc \in {"idle", "open", "stat", "read", "answered"} /\ call.op \in {"tail", "range"}
  /\ call.fd \in 0 .. made /\ call.attempt \in 0 .. READ_ATTEMPTS - 1
  /\ seq.busy => call.pc # "idle" /\ call.op = "tail"
  /\ anchor.offset = Len(text) /\ anchor.ino \in 0 .. made
  /\ outcome \in {"none", "complete", "capped", "rotated", "error"}
  /\ cancelled \in BOOLEAN /\ disturbed \in BOOLEAN

\* The bytes are the first ones of one file in one era.
OneFile(bytes) ==
  \A k \in DOMAIN bytes : bytes[k] = <<bytes[1][1], bytes[1][2], k>>

\* "concatenating them would silently splice two different files together": a
\* caller that continues from each result, and starts again when told to, has
\* bytes of one inode number only, each at its place, none older than the first
\* and none lost between two; so they are of one file unless what that number
\* stands for began anew since the first of them was read, by a truncation in
\* place or as another file: tail_read tells files apart by number alone.
FollowsOneFile ==
  \A k \in DOMAIN text :
    \E era \in text[1][2] .. file[anchor.ino].era : text[k] = <<anchor.ino, era, k>>

\* "a rotation or truncation between chunk 1 and a later chunk is caught by the
\* server's identity check on that later request".
TruncationIsCaught == OneFile(text)

\* "read from KNOWN-OFFSET through EOF": a call that reports complete has
\* every byte the file held when the call was made, if it is still the same
\* file.
CompleteReachesEof ==
  [][seq.busy /\ ~seq'.busy /\ outcome' = "complete" /\ ~cancelled
       /\ anchor'.ino = seq.goal.ino /\ file[seq.goal.ino].era = seq.goal.era
     => Len(text') >= seq.goal.size]_vars

\* read_range returns the bytes of one version of the file, all of them, if two
\* changes of a file always differ in a time stamp: metadata_equal compares stamps
\* and the size.
RangeIsOneVersion ==
  call.pc = "answered" /\ call.op = "range" /\ call.ok =>
    /\ \A k \in DOMAIN call.bytes :
         call.bytes[k] = <<call.fd, call.bytes[1][2], call.start + k>>
    /\ Len(call.bytes) = IF call.start > call.end THEN 0 ELSE call.end - call.start

\* A sequence ends even if the file grows past relay-tail-read-max-total-bytes.
SequencesEnd == seq.busy ~> ~seq.busy
=============================================================================
