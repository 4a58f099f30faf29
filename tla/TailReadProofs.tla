--------------------------- MODULE TailReadProofs ---------------------------
(***************************************************************************)
(* Proofs about TailRead for every limit of the server and of the client,  *)
(* any number of inode numbers, appended bytes, truncations, rotations,    *)
(* calls and lost requests, and for numbers used again and again.          *)
(***************************************************************************)
EXTENDS TailRead, TLAPS

ByteType == Nat \X Nat \X Nat
FileType == [era : Nat, size : Nat, stamp : Nat, named : BOOLEAN]

CallType ==
  [pc : {"idle", "open", "stat", "read", "answered"}, op : {"tail", "range"},
   offset : Nat, ino : Nat, limit : Nat, fd : Nat, size : Nat, stamp : Nat, start : Nat,
   end : Nat, rotated : BOOLEAN, bytes : Seq(ByteType), attempt : 0 .. READ_ATTEMPTS - 1,
   ok : BOOLEAN]

SeqType ==
  [busy : BOOLEAN, offset : Nat, ino : 0 .. MaxFiles, bytes : Seq(ByteType),
   goal : [ino : 0 .. MaxFiles, era : Nat, size : Nat]]

\* The request has its window and the bytes read so far.
Reading(c) == c.pc = "read" \/ (c.pc = "answered" /\ c.ok)

FilesOK ==
  /\ made \in Inodes /\ path \in 0 .. made
  /\ file \in [Inodes -> FileType]

CallOK ==
  /\ call \in CallType /\ call.fd <= made
  /\ call.pc = "stat" \/ Reading(call) => call.fd # None
  /\ call.pc = "stat" => call.bytes = <<>>

ClientOK ==
  /\ seq \in SeqType /\ text \in Seq(ByteType)
  /\ anchor \in [offset : Nat, ino : 0 .. MaxFiles] /\ anchor.ino <= made
  /\ outcome \in {"none", "complete", "capped", "rotated", "error"}
  /\ cancelled \in BOOLEAN /\ disturbed \in BOOLEAN

TypeInv == FilesOK /\ CallOK /\ ClientOK

\* The caller's anchor is the end of what it has; the sequence goes on from there
\* and its request from the end of the sequence, in the same file.
LinkInv ==
  /\ anchor.offset = Len(text) /\ (anchor.ino = None => text = <<>>)
  /\ seq.busy <=> call.op = "tail" /\ call.pc # "idle"
  /\ seq.busy =>
       /\ call.ino = seq.ino /\ call.offset = seq.offset
       /\ seq.offset = anchor.offset + Len(seq.bytes)
       /\ seq.ino = anchor.ino \/ anchor.ino = None
       /\ seq.ino = None => seq.bytes = <<>>
  /\ call.op = "tail" /\ Reading(call) =>
       IF call.rotated THEN call.start = 0
       ELSE call.start = call.offset /\ (call.ino = None \/ call.ino = call.fd)

\* The bytes under number i behind position start, of the first one's era and
\* later ones, up to the era last.
From(bytes, i, start, last) ==
  \A k \in 1 .. Len(bytes) : \E era \in bytes[1][2] .. last : bytes[k] = <<i, era, start + k>>

\* Bytes in the order they were read.
Before(s, t) == s # <<>> /\ t # <<>> => s[1][2] <= t[1][2]

Era(i) == IF i = None THEN 0 ELSE file[i].era

FollowInv ==
  /\ From(text, anchor.ino, 0, Era(anchor.ino))
  /\ seq.busy =>
       From(seq.bytes, seq.ino, anchor.offset, Era(seq.ino)) /\ Before(text, seq.bytes)
  /\ Reading(call) => From(call.bytes, call.fd, call.start, Era(call.fd))
  /\ Reading(call) /\ call.op = "tail" /\ ~call.rotated =>
       Before(text, call.bytes) /\ Before(seq.bytes, call.bytes)

\* While the file has the stamp of the first fstat, it is as it was then, and all
\* bytes read are of its current version.
ReadsRange ==
  call.op = "range" /\ call.pc = "read" =>
    /\ call.start <= call.end /\ Len(call.bytes) <= call.end - call.start
    /\ call.stamp <= file[call.fd].stamp
    /\ call.stamp = file[call.fd].stamp =>
         /\ call.end <= file[call.fd].size
         /\ \A k \in 1 .. Len(call.bytes) :
              call.bytes[k] = <<call.fd, file[call.fd].era, call.start + k>>

\* A file never shrinks within an era, so what fstat reports reaches as far as the
\* file did when the call began.
EofInv ==
  seq.busy /\ seq.goal.ino # None =>
    /\ seq.goal.ino <= made
    /\ file[seq.goal.ino].era >= seq.goal.era
    /\ file[seq.goal.ino].era = seq.goal.era => file[seq.goal.ino].size >= seq.goal.size
    /\ Reading(call) /\ call.fd = seq.goal.ino /\ file[call.fd].era = seq.goal.era =>
         call.size >= seq.goal.size

LEMMA ConstantFacts == Inodes \subseteq Nat /\ None \notin Inodes /\ 1 \in Inodes
BY TailAssumption DEF Inodes, None

-----------------------------------------------------------------------------
(* What other programs do to the files *)

LEMMA FileUpdate ==
  ASSUME NEW f \in FileType, NEW era \in Nat, NEW size \in Nat, NEW stamp \in Nat, NEW named \in BOOLEAN
  PROVE  /\ [f EXCEPT !.size = size, !.stamp = stamp] \in FileType
         /\ [f EXCEPT !.era = era, !.size = size, !.stamp = stamp] \in FileType
         /\ [f EXCEPT !.stamp = stamp, !.named = named] \in FileType
         /\ [f EXCEPT !.era = era, !.size = size, !.stamp = stamp, !.named = named] \in FileType
         /\ [f EXCEPT !.stamp = stamp] \in FileType
BY DEF FileType

FileStep == (\E i \in Inodes : Grow(i)) \/ Truncate \/ Rotate \/ Create
CallStep == ServerStep \/ Callback \/ RangeRead \/ Begin \/ Cancel \/ RequestLost

LEMMA StepKinds ==
  ASSUME [Next]_vars
  PROVE  \/ FileStep /\ UNCHANGED <<call, client>>
         \/ CallStep /\ UNCHANGED files
         \/ UNCHANGED vars
<1>1. FileStep => UNCHANGED <<call, client>>
  BY DEF FileStep, Grow, Truncate, Rotate, Create
<1>2. ServerStep => UNCHANGED files
  BY DEF ServerStep, Open, Stat, ReadByte, ReadEnd
<1>3. Callback \/ RangeRead \/ Begin \/ Cancel \/ RequestLost => UNCHANGED files
  BY DEF Callback, ChunkDone, ChunkFailed, RangeDone, RangeRead, Begin, Cancel, RequestLost, Failed
<1> QED
  BY <1>1, <1>2, <1>3 DEF Next, FileStep, CallStep

\* An era never returns, a stamp of a fine clock stands for one version, and a
\* file shrinks only when an era begins.
Ages(f, g) ==
  /\ g.era >= f.era /\ g.stamp >= f.stamp
  /\ FineClock /\ g.stamp = f.stamp => g.era = f.era /\ g.size = f.size
  /\ g.era = f.era => g.size >= f.size

FilesAge == made' >= made /\ \A i \in Inodes : Ages(file[i], file'[i])

\* The versions other programs make of a file.
LEMMA Versions ==
  ASSUME NEW f \in FileType, NEW stamp \in Stamps(f), NEW named \in BOOLEAN
  PROVE  /\ LET g == [f EXCEPT !.size = @ + 1, !.stamp = stamp] IN g \in FileType /\ Ages(f, g)
         /\ LET g == [f EXCEPT !.era = @ + 1, !.size = 0, !.stamp = stamp]
            IN  g \in FileType /\ Ages(f, g)
         /\ LET g == [f EXCEPT !.stamp = stamp, !.named = named] IN g \in FileType /\ Ages(f, g)
         /\ LET g == [f EXCEPT !.era = @ + 1, !.size = 0, !.stamp = stamp, !.named = TRUE]
            IN  g \in FileType /\ Ages(f, g)
         /\ LET g == [f EXCEPT !.stamp = stamp] IN g \in FileType /\ Ages(f, g)
<1>1. f.stamp \in Nat /\ f.era \in Nat /\ f.size \in Nat /\ f.named \in BOOLEAN
  BY DEF FileType
<1>2. stamp = f.stamp + 1 \/ (~FineClock /\ stamp = f.stamp)
  BY TailAssumption DEF Stamps
<1>3. stamp \in Nat /\ stamp >= f.stamp /\ (FineClock => stamp # f.stamp)
  BY <1>1, <1>2
<1>4. PICK e, z : e = f.era + 1 /\ z = f.size + 1
  OBVIOUS
<1>5. e \in Nat /\ z \in Nat /\ e >= f.era /\ e # f.era /\ z >= f.size /\ 0 \in Nat
      /\ f.era >= f.era /\ f.size >= f.size
  BY <1>1, <1>4
\* A later version is longer or begins an era.
<1>6. ASSUME NEW g \in FileType, g.stamp = stamp, (g.era = f.era /\ g.size >= f.size) \/ g.era = e
      PROVE  Ages(f, g)
  BY <1>3, <1>5, <1>6 DEF Ages
<1>7. LET g == [f EXCEPT !.size = @ + 1, !.stamp = stamp] IN g \in FileType /\ Ages(f, g)
  <2>1. [f EXCEPT !.size = @ + 1, !.stamp = stamp] = [f EXCEPT !.size = z, !.stamp = stamp]
    BY <1>4
  <2>2. PICK g : g = [f EXCEPT !.size = z, !.stamp = stamp]
    OBVIOUS
  <2>3. g \in FileType
    BY <1>3, <1>5, <2>2, FileUpdate
  <2>4. g.era = f.era /\ g.size = z /\ g.stamp = stamp
    BY <2>2 DEF FileType
  <2> QED
    BY <1>5, <1>6, <2>1, <2>2, <2>3, <2>4
<1>8. LET g == [f EXCEPT !.era = @ + 1, !.size = 0, !.stamp = stamp] IN g \in FileType /\ Ages(f, g)
  <2>1. [f EXCEPT !.era = @ + 1, !.size = 0, !.stamp = stamp] = [f EXCEPT !.era = e, !.size = 0, !.stamp = stamp]
    BY <1>4
  <2>2. PICK g : g = [f EXCEPT !.era = e, !.size = 0, !.stamp = stamp]
    OBVIOUS
  <2>3. g \in FileType
    BY <1>3, <1>5, <2>2, FileUpdate
  <2>4. g.era = e /\ g.stamp = stamp
    BY <2>2 DEF FileType
  <2> QED
    BY <1>6, <2>1, <2>2, <2>3, <2>4
<1>9. LET g == [f EXCEPT !.stamp = stamp, !.named = named] IN g \in FileType /\ Ages(f, g)
  <2>2. PICK g : g = [f EXCEPT !.stamp = stamp, !.named = named]
    OBVIOUS
  <2>3. g \in FileType
    BY <1>3, <2>2, FileUpdate
  <2>4. g.era = f.era /\ g.size = f.size /\ g.stamp = stamp
    BY <2>2 DEF FileType
  <2> QED
    BY <1>5, <1>6, <2>2, <2>3, <2>4
<1>10. LET g == [f EXCEPT !.era = @ + 1, !.size = 0, !.stamp = stamp, !.named = TRUE]
       IN  g \in FileType /\ Ages(f, g)
  <2>1. [f EXCEPT !.era = @ + 1, !.size = 0, !.stamp = stamp, !.named = TRUE]
          = [f EXCEPT !.era = e, !.size = 0, !.stamp = stamp, !.named = TRUE]
    BY <1>4
  <2>2. PICK g : g = [f EXCEPT !.era = e, !.size = 0, !.stamp = stamp, !.named = TRUE]
    OBVIOUS
  <2>3. g \in FileType
    BY <1>3, <1>5, <2>2, FileUpdate
  <2>4. g.era = e /\ g.stamp = stamp
    BY <2>2 DEF FileType
  <2> QED
    BY <1>6, <2>1, <2>2, <2>3, <2>4
<1>11. LET g == [f EXCEPT !.stamp = stamp] IN g \in FileType /\ Ages(f, g)
  <2>2. PICK g : g = [f EXCEPT !.stamp = stamp]
    OBVIOUS
  <2>3. g \in FileType
    BY <1>3, <2>2, FileUpdate
  <2>4. g.era = f.era /\ g.size = f.size /\ g.stamp = stamp
    BY <2>2 DEF FileType
  <2> QED
    BY <1>5, <1>6, <2>2, <2>3, <2>4
<1> QED
  BY <1>7, <1>8, <1>9, <1>10, <1>11

LEMMA FileStepAges ==
  ASSUME FilesOK, FileStep
  PROVE  FilesOK' /\ FilesAge
<1>a. /\ made \in Nat /\ path \in Nat /\ Inodes \subseteq Nat /\ path <= made
      /\ MaxFiles \in Nat /\ made <= MaxFiles /\ made >= 1
  BY TailAssumption, ConstantFacts DEF FilesOK, Inodes
<1>b. path # None => path \in Inodes
  BY <1>a DEF Inodes, None
<1>t. \A i \in Inodes : file[i] \in FileType
  BY DEF FilesOK
<1>u. \A i \in Inodes : Ages(file[i], file[i])
  BY <1>t DEF Ages, FileType
\* One file is replaced by a later version of it.
<1>1. ASSUME NEW i \in Inodes, NEW g \in FileType, Ages(file[i], g), file' = [file EXCEPT ![i] = g],
             made' \in Inodes, made' >= made, path' \in 0 .. made'
      PROVE  FilesOK' /\ FilesAge
  <2>1. file' \in [Inodes -> FileType] /\ \A j \in Inodes : file'[j] = IF j = i THEN g ELSE file[j]
    BY <1>1 DEF FilesOK
  <2>2. FilesOK'
    BY <1>1, <2>1 DEF FilesOK, Inodes, FileType
  <2> QED
    BY <1>1, <1>u, <2>1, <2>2 DEF FilesAge
<1>c. made \in Inodes /\ made >= made /\ path \in 0 .. made
  BY <1>a DEF FilesOK
<1>2. ASSUME NEW i \in Inodes, Grow(i) PROVE FilesOK' /\ FilesAge
  <2>1. PICK stamp \in Stamps(file[i]) : file' = [file EXCEPT ![i].size = @ + 1, ![i].stamp = stamp]
    BY <1>2 DEF Grow
  <2>2. PICK g : g = [file[i] EXCEPT !.size = @ + 1, !.stamp = stamp]
    OBVIOUS
  <2>3. g \in FileType /\ Ages(file[i], g)
    BY <1>t, <2>2, Versions
  <2>4. file' = [file EXCEPT ![i] = g]
    BY <2>1, <2>2, <1>t DEF FilesOK
  <2> QED
    BY <1>1, <1>2, <1>c, <2>3, <2>4 DEF Grow
<1>3. CASE Truncate
  <2>1. PICK stamp \in Stamps(file[path]) :
          file' = [file EXCEPT ![path].era = @ + 1, ![path].size = 0, ![path].stamp = stamp]
    BY <1>3 DEF Truncate
  <2>2. PICK g : g = [file[path] EXCEPT !.era = @ + 1, !.size = 0, !.stamp = stamp]
    OBVIOUS
  <2>a. path \in Inodes
    BY <1>3, <1>b DEF Truncate
  <2>3. g \in FileType /\ Ages(file[path], g)
    BY <1>t, <2>2, <2>a, Versions
  <2>4. file' = [file EXCEPT ![path] = g]
    BY <2>1, <2>2, <2>a, <1>t DEF FilesOK
  <2> QED
    BY <1>1, <1>3, <1>c, <2>a, <2>3, <2>4 DEF Truncate
<1>4. CASE Rotate
  <2>1. PICK named \in BOOLEAN, stamp \in Stamps(file[path]) :
          file' = [file EXCEPT ![path].stamp = stamp, ![path].named = named]
    BY <1>4 DEF Rotate
  <2>2. PICK g : g = [file[path] EXCEPT !.stamp = stamp, !.named = named]
    OBVIOUS
  <2>a. path \in Inodes
    BY <1>4, <1>b DEF Rotate
  <2>3. g \in FileType /\ Ages(file[path], g)
    BY <1>t, <2>2, <2>a, Versions
  <2>4. file' = [file EXCEPT ![path] = g]
    BY <2>1, <2>2, <2>a, <1>t DEF FilesOK
  <2>5. made' = made /\ path' = 0 /\ 0 \in 0 .. made
    BY <1>4, <1>a DEF Rotate, None
  <2> QED
    BY <1>1, <1>c, <2>a, <2>3, <2>4, <2>5
<1>5. CASE Create
  <2>0. PICK i \in Inodes : \E stamp \in Stamps(file[i]) :
          /\ \/ file' = [file EXCEPT ![i].era = @ + 1, ![i].size = 0, ![i].stamp = stamp,
                                     ![i].named = TRUE]
             \/ file' = [file EXCEPT ![i].stamp = stamp]
          /\ path' = i /\ made' = IF i > made THEN i ELSE made
    BY <1>5 DEF Create
  <2>1. PICK stamp \in Stamps(file[i]) :
          /\ \/ file' = [file EXCEPT ![i].era = @ + 1, ![i].size = 0, ![i].stamp = stamp,
                                     ![i].named = TRUE]
             \/ file' = [file EXCEPT ![i].stamp = stamp]
          /\ path' = i /\ made' = IF i > made THEN i ELSE made
    BY <2>0
  <2>2. made' \in Inodes /\ made' >= made /\ path' \in 0 .. made'
    BY <2>1, <1>a DEF FilesOK, Inodes
  <2>3. CASE file' = [file EXCEPT ![i].era = @ + 1, ![i].size = 0, ![i].stamp = stamp, ![i].named = TRUE]
    <3>2. PICK g : g = [file[i] EXCEPT !.era = @ + 1, !.size = 0, !.stamp = stamp, !.named = TRUE]
      OBVIOUS
    <3>3. g \in FileType /\ Ages(file[i], g)
      BY <1>t, <3>2, Versions
    <3>4. file' = [file EXCEPT ![i] = g]
      BY <2>3, <3>2, <1>t DEF FilesOK
    <3> QED
      BY <1>1, <2>2, <3>3, <3>4
  <2>4. CASE file' = [file EXCEPT ![i].stamp = stamp]
    <3>2. PICK g : g = [file[i] EXCEPT !.stamp = stamp]
      OBVIOUS
    <3>3. g \in FileType /\ Ages(file[i], g)
      BY <1>t, <3>2, Versions
    <3>4. file' = [file EXCEPT ![i] = g]
      BY <2>4, <3>2, <1>t DEF FilesOK
    <3> QED
      BY <1>1, <2>2, <3>3, <3>4
  <2> QED
    BY <2>1, <2>3, <2>4
<1> QED
  BY <1>2, <1>3, <1>4, <1>5 DEF FileStep

-----------------------------------------------------------------------------
(* The request and the sequence *)

LEMMA NoCallType == /\ NoCall \in CallType /\ NoCall.pc = "idle" /\ NoCall.op = "tail" /\ NoCall.fd = None
                    /\ NoCall.bytes = <<>>
BY DEF NoCall, CallType, None, READ_ATTEMPTS

LEMMA NoSeqType == NoSeq \in SeqType /\ ~NoSeq.busy
BY TailAssumption DEF NoSeq, SeqType, None

\* Requests that are sent.
LEMMA TailSent ==
  ASSUME NEW offset \in Nat, NEW ino \in Nat, NEW limit \in Nat,
         call' = [NoCall EXCEPT !.pc = "open", !.offset = offset, !.ino = ino, !.limit = limit]
  PROVE  /\ call' \in CallType /\ call'.pc = "open" /\ call'.op = "tail" /\ call'.offset = offset
         /\ call'.ino = ino /\ call'.fd = None
BY NoCallType DEF CallType

LEMMA RangeSent ==
  ASSUME NEW offset \in Nat, NEW limit \in Nat,
         call' = [NoCall EXCEPT !.pc = "open", !.op = "range", !.offset = offset, !.limit = limit]
  PROVE  /\ call' \in CallType /\ call'.pc = "open" /\ call'.op = "range" /\ call'.offset = offset
         /\ call'.fd = None
BY NoCallType DEF CallType

LEMMA AnswerType ==
  ASSUME NEW c \in CallType, NEW ok \in BOOLEAN, Answer(c, ok)
  PROVE  /\ call' \in CallType /\ call'.pc = "answered" /\ call'.ok = ok /\ call'.op = c.op
         /\ call'.offset = c.offset /\ call'.ino = c.ino /\ call'.fd = c.fd /\ call'.size = c.size
         /\ call'.start = c.start /\ call'.end = c.end /\ call'.rotated = c.rotated
         /\ call'.bytes = c.bytes /\ call'.stamp = c.stamp
BY DEF CallType, Answer

LEMMA LeastType ==
  ASSUME NEW m \in Nat, NEW n \in Nat
  PROVE  Least(m, n) \in Nat /\ Least(m, n) <= m /\ Least(m, n) <= n /\ Least(m, n) \in {m, n}
BY DEF Least

LEMMA TailWindowType ==
  ASSUME NEW c \in CallType, NEW f \in FileType
  PROVE  LET a == TailWindow(c, f) IN
         /\ a \in CallType /\ a.pc = "read" /\ a.op = c.op /\ a.offset = c.offset /\ a.ino = c.ino
         /\ a.fd = c.fd /\ a.bytes = c.bytes /\ a.size = f.size
         /\ a.rotated = TruncatedOrRotated(c, f)
         /\ a.start = IF TruncatedOrRotated(c, f) THEN 0 ELSE c.offset
<1>1. c.offset \in Nat /\ c.limit \in Nat /\ f.size \in Nat /\ TruncatedOrRotated(c, f) \in BOOLEAN
  BY DEF CallType, FileType, TruncatedOrRotated
<1>2. PICK start \in Nat : start = IF TruncatedOrRotated(c, f) THEN 0 ELSE c.offset
  BY <1>1
<1>3. Least(c.limit, MAX_TAIL_BYTES) \in Nat
  BY <1>1, TailAssumption, LeastType
<1>4. start + Least(c.limit, MAX_TAIL_BYTES) \in Nat
  BY <1>2, <1>3
<1>5. PICK end \in Nat : end = Least(start + Least(c.limit, MAX_TAIL_BYTES), f.size)
  BY <1>1, <1>4, LeastType
<1>6. PICK r \in BOOLEAN : r = TruncatedOrRotated(c, f)
  BY <1>1
<1>7. TailWindow(c, f) = [c EXCEPT !.pc = "read", !.size = f.size, !.rotated = r, !.start = start,
                                   !.end = end]
  BY <1>2, <1>5, <1>6 DEF TailWindow
<1> QED
  BY <1>1, <1>2, <1>6, <1>7 DEF CallType

LEMMA RangeWindowType ==
  ASSUME NEW c \in CallType, NEW f \in FileType
  PROVE  LET a == RangeWindow(c, f) IN
         /\ a \in CallType /\ a.pc = "read" /\ a.op = c.op /\ a.offset = c.offset /\ a.ino = c.ino
         /\ a.fd = c.fd /\ a.bytes = c.bytes /\ a.size = f.size /\ a.stamp = f.stamp
         /\ a.start = c.offset /\ a.end <= f.size
<1>1. c.offset \in Nat /\ c.limit \in Nat /\ f.size \in Nat /\ f.stamp \in Nat
  BY DEF CallType, FileType
<1>2. PICK end \in Nat : end = Least(c.limit, f.size) /\ end <= f.size
  BY <1>1, LeastType
<1>3. RangeWindow(c, f) = [c EXCEPT !.pc = "read", !.size = f.size, !.stamp = f.stamp,
                                    !.start = c.offset, !.end = end]
  BY <1>2 DEF RangeWindow
<1> QED
  BY <1>1, <1>2, <1>3 DEF CallType

LEMMA AppendType ==
  ASSUME NEW s \in Seq(ByteType), NEW b \in ByteType
  PROVE  /\ Append(s, b) \in Seq(ByteType) /\ Len(Append(s, b)) = Len(s) + 1
         /\ Append(s, b)[Len(s) + 1] = b /\ \A k \in 1 .. Len(s) : Append(s, b)[k] = s[k]
OBVIOUS

LEMMA ConcatType ==
  ASSUME NEW s \in Seq(ByteType), NEW t \in Seq(ByteType)
  PROVE  /\ s \o t \in Seq(ByteType) /\ Len(s \o t) = Len(s) + Len(t)
         /\ \A k \in 1 .. Len(s) : (s \o t)[k] = s[k]
         /\ \A k \in 1 .. Len(t) : (s \o t)[Len(s) + k] = t[k]
OBVIOUS

-----------------------------------------------------------------------------
LEMMA TypeInit == Init => TypeInv
<1> SUFFICES ASSUME Init PROVE TypeInv
  OBVIOUS
<1>1. FilesOK
  BY ConstantFacts DEF Init, FilesOK, FileType
<1>2. CallOK
  BY NoCallType, ConstantFacts DEF Init, CallOK, Reading, None, Inodes
<1>3. ClientOK
  <2>1. anchor = [offset |-> 0, ino |-> 0] /\ MaxFiles \in Nat /\ made = 1 /\ text = <<>>
    BY TailAssumption DEF Init, None
  <2>2. anchor \in [offset : Nat, ino : 0 .. MaxFiles] /\ anchor.ino <= made /\ text \in Seq(ByteType)
    BY <2>1
  <2> QED
    BY <2>2, NoSeqType DEF Init, ClientOK
<1> QED
  BY <1>1, <1>2, <1>3 DEF TypeInv

\* What the server reads.
LEMMA ByteIs ==
  ASSUME FilesOK, NEW i \in Inodes, NEW k \in Nat
  PROVE  Byte(i, k) \in ByteType /\ Byte(i, k) = <<i, file[i].era, k>>
<1>1. i \in Nat /\ file[i] \in FileType
  BY ConstantFacts DEF FilesOK
<1>2. file[i].era \in Nat
  BY <1>1 DEF FileType
<1> QED
  BY <1>1, <1>2 DEF Byte, ByteType

LEMMA OpenFile ==
  ASSUME FilesOK, CallOK, call.fd # None
  PROVE  call.fd \in Inodes /\ file[call.fd] \in FileType
<1>1. call.fd \in Nat /\ made \in Nat /\ made <= MaxFiles /\ MaxFiles \in Nat
  BY TailAssumption DEF CallOK, CallType, FilesOK, Inodes
<1>2. call.fd \in Inodes
  BY <1>1 DEF CallOK, Inodes, None
<1> QED
  BY <1>2 DEF FilesOK

\* The steps of the server, each with what it leaves as it is.
LEMMA ServerTypes ==
  ASSUME FilesOK, CallOK, ServerStep
  PROVE  /\ call' \in CallType /\ call'.op = call.op /\ call'.offset = call.offset /\ call'.ino = call.ino
         /\ call'.fd <= made /\ (call'.pc = "stat" \/ Reading(call') => call'.fd # None)
         /\ (call'.pc = "stat" => call'.bytes = <<>>)
         /\ call'.pc # "idle" /\ call.pc # "idle" /\ UNCHANGED <<files, client, faults>>
<1>a. call \in CallType /\ UNCHANGED <<files, client, faults>> /\ call.fd <= made
        /\ (call.pc = "stat" \/ Reading(call) => call.fd # None)
  BY DEF CallOK, ServerStep, Open, Stat, ReadByte, ReadEnd
<1>1. ASSUME NEW c \in CallType, NEW ok \in BOOLEAN, Answer(c, ok), c.op = call.op, c.offset = call.offset,
             c.ino = call.ino, c.fd = call.fd, call.pc # "idle", ok => call.fd # None
      PROVE  /\ call' \in CallType /\ call'.op = call.op /\ call'.offset = call.offset /\ call'.ino = call.ino
             /\ call'.fd <= made /\ (call'.pc = "stat" \/ Reading(call') => call'.fd # None)
             /\ call'.pc = "answered"
  <2>2. /\ call' \in CallType /\ call'.pc = "answered" /\ call'.ok = ok /\ call'.op = c.op
        /\ call'.offset = c.offset /\ call'.ino = c.ino /\ call'.fd = c.fd
    BY <1>1, AnswerType
  <2> QED
    BY <1>1, <1>a, <2>2 DEF Reading
<1>2. CASE Open
  <2>1. CASE path = None
    BY <1>1, <1>2, <1>a, <2>1 DEF Open
  <2>2. CASE path # None
    <3>1. call' = [call EXCEPT !.pc = "stat", !.fd = path, !.bytes = <<>>] /\ path \in Nat /\ path <= made
      BY <1>2, <2>2, ConstantFacts DEF Open, FilesOK
    <3>2. /\ call' \in CallType /\ call'.pc = "stat" /\ call'.fd = path /\ call'.op = call.op
          /\ call'.offset = call.offset /\ call'.ino = call.ino /\ call'.bytes = <<>>
      <4>a. PICK p : p = path
        OBVIOUS
      <4>b. PICK e : e = <<>>
        OBVIOUS
      <4>1. p \in Nat /\ e \in Seq(ByteType)
        BY <3>1, <4>a, <4>b
      <4>2. call' = [call EXCEPT !.pc = "stat", !.fd = p, !.bytes = e]
        BY <3>1, <4>a, <4>b
      <4> QED
        BY <4>1, <4>2, <4>a, <4>b, <1>a DEF CallType
    <3> QED
      BY <1>2, <1>a, <2>2, <3>1, <3>2 DEF Open
  <2> QED
    BY <2>1, <2>2
<1>3. CASE Stat
  <2>1. call.pc = "stat" /\ call.fd # None
    BY <1>3, <1>a DEF Stat
  <2>2. file[call.fd] \in FileType
    BY <2>1, OpenFile
  <2>3. CASE Answer(call, FALSE)
    BY <1>1, <1>a, <2>1, <2>3
  <2>4. CASE call' = TailWindow(call, file[call.fd])
    BY <1>a, <2>1, <2>2, <2>4, TailWindowType
  <2>5. CASE call' = RangeWindow(call, file[call.fd])
    BY <1>a, <2>1, <2>2, <2>5, RangeWindowType
  <2>6. CASE Answer(RangeWindow(call, file[call.fd]), TRUE)
    <3>1. PICK c \in CallType : /\ c = RangeWindow(call, file[call.fd]) /\ c.op = call.op
                               /\ c.offset = call.offset /\ c.ino = call.ino /\ c.fd = call.fd
      BY <1>a, <2>2, RangeWindowType
    <3> QED
      BY <1>1, <1>a, <2>1, <2>6, <3>1
  <2>7. call.op = "tail" \/ call.op = "range"
    BY <1>a DEF CallType
  <2> QED
    BY <1>3, <2>3, <2>4, <2>5, <2>6, <2>7 DEF Stat
<1>4. CASE ReadByte
  <2>1. call.pc = "read" /\ call.fd # None
    BY <1>4, <1>a DEF ReadByte, Reading
  <2>2. call.start \in Nat /\ call.bytes \in Seq(ByteType)
    BY <1>a DEF CallType
  <2>3. NextPos \in Nat
    BY <2>2 DEF NextPos
  <2>a. Byte(call.fd, NextPos) \in ByteType
    BY <2>1, <2>3, ByteIs, OpenFile
  <2>4. PICK bs : bs = Append(call.bytes, Byte(call.fd, NextPos)) /\ bs \in Seq(ByteType)
    BY <2>2, <2>a, AppendType
  <2>5. call' = [call EXCEPT !.bytes = bs]
    BY <1>4, <2>4 DEF ReadByte
  <2>6. /\ call' \in CallType /\ call'.pc = "read" /\ call'.fd = call.fd /\ call'.op = call.op
        /\ call'.offset = call.offset /\ call'.ino = call.ino
    BY <1>a, <2>1, <2>4, <2>5 DEF CallType
  <2> QED
    BY <1>a, <2>1, <2>6
<1>5. CASE ReadEnd
  <2>1. call.pc = "read" /\ call.fd # None
    BY <1>5, <1>a DEF ReadEnd, Reading
  <2>2. CASE Answer(call, TRUE) \/ Answer(call, FALSE)
    BY <1>1, <1>a, <2>1, <2>2
  <2>3. CASE call.attempt + 1 # READ_ATTEMPTS /\ call' = [call EXCEPT !.pc = "open", !.attempt = @ + 1]
    <3>1. call.attempt \in 0 .. READ_ATTEMPTS - 1
      BY <1>a DEF CallType
    <3>2. PICK n \in 0 .. READ_ATTEMPTS - 1 : n = call.attempt + 1
      BY <2>3, <3>1 DEF READ_ATTEMPTS
    <3>3. call' = [call EXCEPT !.pc = "open", !.attempt = n]
      BY <2>3, <3>2
    <3>4. /\ call' \in CallType /\ call'.pc = "open" /\ call'.fd = call.fd /\ call'.op = call.op
          /\ call'.offset = call.offset /\ call'.ino = call.ino
      BY <1>a, <3>2, <3>3 DEF CallType
    <3> QED
      BY <1>a, <2>1, <3>4 DEF Reading
  <2> QED
    BY <1>5, <2>2, <2>3 DEF ReadEnd
<1> QED
  BY <1>2, <1>3, <1>4, <1>5 DEF ServerStep

\* The sequence ends and its caller is told.
LEMMA DeliverFacts ==
  ASSUME text \in Seq(ByteType), NEW how \in {"complete", "capped", "rotated"}, NEW bytes \in Seq(ByteType),
         NEW offset \in Nat, NEW ino \in 0 .. MaxFiles, Deliver(how, bytes, offset, ino)
  PROVE  /\ seq' = NoSeq /\ ~seq'.busy /\ call' = NoCall /\ outcome' = how
         /\ text' \in Seq(ByteType) /\ text' = IF how = "rotated" THEN bytes ELSE text \o bytes
         /\ anchor' \in [offset : Nat, ino : 0 .. MaxFiles] /\ anchor'.offset = offset /\ anchor'.ino = ino
<1>1. seq' = NoSeq /\ ~seq'.busy /\ call' = NoCall /\ outcome' = how
  BY NoSeqType DEF Deliver
<1>2. text \o bytes \in Seq(ByteType)
  OBVIOUS
<1>3. text' \in Seq(ByteType) /\ text' = IF how = "rotated" THEN bytes ELSE text \o bytes
  BY <1>2 DEF Deliver
<1>4. anchor' \in [offset : Nat, ino : 0 .. MaxFiles] /\ anchor'.offset = offset /\ anchor'.ino = ino
  BY DEF Deliver
<1> QED
  BY <1>1, <1>3, <1>4


\* A step of the sequence ends it at the limit or sends the next request.
Sends(s) ==
  /\ ~Capped(s.bytes) /\ seq' = s /\ UNCHANGED <<text, anchor, outcome>>
  /\ call' \in CallType /\ call'.pc = "open" /\ call'.op = "tail" /\ call'.offset = s.offset
  /\ call'.ino = s.ino /\ call'.fd = None

LEMMA StepFacts ==
  ASSUME NEW s \in SeqType, Step(s)
  PROVE  \/ Capped(s.bytes) /\ Deliver("capped", s.bytes, s.offset, s.ino)
         \/ Sends(s)
<1>1. s.bytes \in Seq(ByteType) /\ s.offset \in Nat /\ s.ino \in 0 .. MaxFiles
  BY DEF SeqType
<1>2. CASE ~Capped(s.bytes)
  <2>1. PICK limit : limit = TotalMax - Len(s.bytes)
    OBVIOUS
  <2>2. limit \in Nat
    BY <1>1, <1>2, <2>1, TailAssumption DEF Capped
  <2>3. s.ino \in Nat
    BY <1>1
  <2>4. call' = [NoCall EXCEPT !.pc = "open", !.offset = s.offset, !.ino = s.ino, !.limit = limit]
          /\ seq' = s /\ UNCHANGED <<text, anchor, outcome>>
    BY <1>2, <2>1 DEF Step
  <2>5. /\ call' \in CallType /\ call'.pc = "open" /\ call'.op = "tail" /\ call'.offset = s.offset
        /\ call'.ino = s.ino /\ call'.fd = None
    BY <1>1, <2>2, <2>3, <2>4, TailSent
  <2> QED
    BY <1>2, <2>4, <2>5 DEF Sends
<1> QED
  BY <1>2 DEF Step

\* The sequence of relay-tail-read-chunked-async when it begins.
Goal == [ino |-> path, era |-> IF path = None THEN 0 ELSE file[path].era,
         size |-> IF path = None THEN 0 ELSE file[path].size]
First == [busy |-> TRUE, offset |-> anchor.offset, ino |-> anchor.ino, bytes |-> <<>>, goal |-> Goal]

LEMMA FirstType ==
  ASSUME FilesOK, ClientOK
  PROVE  /\ First \in SeqType /\ First.busy /\ First.offset = anchor.offset /\ First.ino = anchor.ino
         /\ First.bytes = <<>> /\ First.goal = Goal /\ Goal.ino = path
         /\ path # None => path \in Inodes /\ Goal.era = file[path].era /\ Goal.size = file[path].size
<1>1. anchor.offset \in Nat /\ anchor.ino \in 0 .. MaxFiles
  BY DEF ClientOK
<1>2. path \in 0 .. MaxFiles /\ (path # None => path \in Inodes)
  BY TailAssumption DEF FilesOK, Inodes, None
<1>3. path # None => file[path].era \in Nat /\ file[path].size \in Nat
  BY <1>2 DEF FilesOK, FileType
<1>4. /\ Goal \in [ino : 0 .. MaxFiles, era : Nat, size : Nat] /\ Goal.ino = path
      /\ path # None => Goal.era = file[path].era /\ Goal.size = file[path].size
  BY <1>2, <1>3 DEF Goal
<1>5. <<>> \in Seq(ByteType)
  OBVIOUS
<1> HIDE DEF Goal
<1>6. /\ First \in SeqType /\ First.busy /\ First.offset = anchor.offset /\ First.ino = anchor.ino
      /\ First.bytes = <<>> /\ First.goal = Goal
  BY <1>1, <1>4, <1>5 DEF First, SeqType
<1> QED
  BY <1>2, <1>4, <1>6

LEMMA BeginFacts ==
  ASSUME FilesOK, ClientOK, Begin
  PROVE  Sends(First) /\ cancelled' = FALSE /\ UNCHANGED <<files, disturbed>> /\ ~seq.busy
<1>1. First \in SeqType /\ First.bytes = <<>>
  BY FirstType
<1>2. Step(First) /\ cancelled' = FALSE /\ UNCHANGED <<files, disturbed>> /\ ~seq.busy
  BY DEF Begin, First, Goal
<1>3. ~Capped(First.bytes)
  BY <1>1, TailAssumption DEF Capped
<1> QED
  BY <1>1, <1>2, <1>3, StepFacts

\* The next state of the sequence when a chunk leaves more to read.
More == [seq EXCEPT !.offset = ActualEnd(call), !.ino = call.fd, !.bytes = seq.bytes \o call.bytes]

LEMMA MoreType ==
  ASSUME FilesOK, CallOK, ClientOK, call.fd # None
  PROVE  /\ More \in SeqType /\ More.busy = seq.busy /\ More.offset = ActualEnd(call)
         /\ More.ino = call.fd /\ More.bytes = seq.bytes \o call.bytes /\ More.goal = seq.goal
         /\ seq.bytes \in Seq(ByteType) /\ call.bytes \in Seq(ByteType)
         /\ ActualEnd(call) \in Nat /\ call.fd \in 1 .. MaxFiles /\ call.start \in Nat
<1>1. call.bytes \in Seq(ByteType) /\ call.start \in Nat /\ seq.bytes \in Seq(ByteType)
  BY DEF CallOK, CallType, ClientOK, SeqType
<1>2. PICK end : end = ActualEnd(call)
  OBVIOUS
<1>3. end \in Nat
  BY <1>1, <1>2 DEF ActualEnd
<1>4. PICK fd : fd = call.fd
  OBVIOUS
<1>5. fd \in 0 .. MaxFiles /\ fd \in 1 .. MaxFiles
  BY <1>4, OpenFile, ConstantFacts DEF Inodes
<1>6. PICK bytes : bytes = seq.bytes \o call.bytes
  OBVIOUS
<1>7. bytes \in Seq(ByteType)
  BY <1>1, <1>6
<1>8. More = [seq EXCEPT !.offset = end, !.ino = fd, !.bytes = bytes] /\ seq \in SeqType
  BY <1>2, <1>4, <1>6 DEF More, ClientOK
<1>9. /\ More \in SeqType /\ More.busy = seq.busy /\ More.offset = end
      /\ More.ino = fd /\ More.bytes = bytes /\ More.goal = seq.goal
  BY <1>3, <1>5, <1>7, <1>8 DEF SeqType
<1> QED
  BY <1>1, <1>2, <1>3, <1>4, <1>5, <1>6, <1>9

\* The outcomes of a chunk's callback.
Dropped == cancelled /\ seq' = NoSeq /\ call' = NoCall /\ UNCHANGED <<text, anchor, outcome>>
Rotated == call.rotated /\ Deliver("rotated", call.bytes, ActualEnd(call), call.fd)
AtLimit == ~call.rotated /\ Deliver("capped", seq.bytes \o call.bytes, ActualEnd(call), call.fd)
Complete ==
  ~call.rotated /\ ~MoreAvailable(call)
    /\ Deliver("complete", seq.bytes \o call.bytes, ActualEnd(call), call.fd)

LEMMA ChunkFacts ==
  ASSUME FilesOK, CallOK, ClientOK, ChunkDone
  PROVE  /\ UNCHANGED <<files, cancelled, disturbed>>
         /\ call.op = "tail" /\ Reading(call) /\ call.fd # None
         /\ Dropped \/ Rotated \/ AtLimit \/ Complete \/ (~call.rotated /\ Sends(More))
<1>1. call.op = "tail" /\ Reading(call) /\ UNCHANGED <<files, cancelled, disturbed>>
  BY DEF ChunkDone, Reading
<1>2. call.fd # None
  BY <1>1 DEF CallOK
<1>3. /\ More \in SeqType /\ More.offset = ActualEnd(call)
      /\ More.ino = call.fd /\ More.bytes = seq.bytes \o call.bytes
  BY <1>2, MoreType
<1>4. Step(More) => Sends(More) \/ Deliver("capped", seq.bytes \o call.bytes, ActualEnd(call), call.fd)
  BY <1>3, StepFacts
<1>5. \/ Dropped \/ Rotated \/ Complete
      \/ ~call.rotated /\ Step(More)
  BY DEF ChunkDone, Dropped, Rotated, Complete, Reanchored, More
<1> QED
  BY <1>1, <1>2, <1>4, <1>5 DEF AtLimit

\* A request without a result: nothing is being read.
LEMMA IdleCall == ~Reading(NoCall) /\ NoCall.pc # "stat"
BY NoCallType DEF Reading

LEMMA FailedFacts ==
  ASSUME ClientOK, ChunkFailed \/ RequestLost
  PROVE  /\ seq' = NoSeq /\ call' = NoCall /\ outcome' = "error" /\ disturbed' \in BOOLEAN
         /\ UNCHANGED <<files, cancelled, anchor, text>>
BY DEF ChunkFailed, RequestLost, Failed, ClientOK

LEMMA RangeReadFacts ==
  ASSUME RangeRead
  PROVE  /\ call' \in CallType /\ call'.pc = "open" /\ call'.op = "range" /\ call'.fd = None
         /\ call.pc = "idle" /\ UNCHANGED <<files, seq, cancelled, anchor, text, outcome, disturbed>>
<1>1. PICK from \in 0 .. 1, upto \in 1 .. 2 :
         call' = [NoCall EXCEPT !.pc = "open", !.op = "range", !.offset = from, !.limit = upto]
  BY DEF RangeRead
<1>2. from \in Nat /\ upto \in Nat
  OBVIOUS
<1>3. call' \in CallType /\ call'.pc = "open" /\ call'.op = "range" /\ call'.fd = None
  BY <1>1, <1>2, RangeSent
<1> QED
  BY <1>3 DEF RangeRead

LEMMA TypeNext == TypeInv /\ [Next]_vars => TypeInv'
<1> SUFFICES ASSUME TypeInv, [Next]_vars PROVE TypeInv'
  OBVIOUS
<1>a. FilesOK /\ CallOK /\ ClientOK /\ made \in Nat
  BY ConstantFacts DEF TypeInv, FilesOK
<1>1. CASE FileStep /\ UNCHANGED <<call, client>>
  <2>1. FilesOK' /\ made' >= made /\ made' \in Nat
    BY <1>1, <1>a, FileStepAges, ConstantFacts DEF FilesAge, FilesOK
  <2>a. call.fd \in Nat /\ anchor.ino \in Nat
    BY <1>a DEF CallOK, CallType, ClientOK
  <2>2. call'.fd <= made' /\ anchor'.ino <= made'
    BY <1>1, <1>a, <2>1, <2>a DEF CallOK, ClientOK, client
  <2>3. CallOK'
    BY <1>1, <1>a, <2>2 DEF CallOK, Reading, CallType, ByteType
  <2>4. ClientOK'
    BY <1>1, <1>a, <2>2 DEF ClientOK, client, SeqType, ByteType
  <2> QED
    BY <2>1, <2>3, <2>4 DEF TypeInv
<1>2. CASE UNCHANGED files /\ CallStep
  <2>1. FilesOK' /\ made' = made
    BY <1>2, <1>a DEF files, FilesOK, Inodes, FileType
  <2>2. ASSUME call' = NoCall \/ (call' \in CallType /\ call'.pc = "open" /\ call'.fd = None) PROVE CallOK'
    <3>1. call' \in CallType /\ call'.fd = 0 /\ call'.pc \in {"idle", "open"}
      BY <2>2, NoCallType DEF None
    <3>2. call'.fd <= made'
      BY <2>1, <3>1, <1>a
    <3> QED
      BY <3>1, <3>2 DEF CallOK, Reading, CallType, ByteType
  <2>3. ASSUME seq' \in SeqType, text' \in Seq(ByteType), anchor' \in [offset : Nat, ino : 0 .. MaxFiles],
               anchor'.ino <= made, outcome' \in {"none", "complete", "capped", "rotated", "error"},
               cancelled' \in BOOLEAN, disturbed' \in BOOLEAN
        PROVE  ClientOK'
    BY <2>1, <2>3 DEF ClientOK, SeqType, ByteType
  <2>4. CASE ServerStep
    <3>1. CallOK'
      BY <2>1, <2>4, <1>a, ServerTypes DEF CallOK, CallType, ByteType, Reading
    <3>2. ClientOK'
      BY <2>1, <2>4, <1>a, ServerTypes DEF ClientOK, client, SeqType, ByteType
    <3> QED
      BY <2>1, <3>1, <3>2 DEF TypeInv
  <2>5. CASE ChunkFailed \/ RequestLost
    <3>1. /\ seq' = NoSeq /\ call' = NoCall /\ outcome' = "error" /\ disturbed' \in BOOLEAN
          /\ UNCHANGED <<files, cancelled, anchor, text>>
      BY <2>5, <1>a, FailedFacts
    <3>2. ClientOK'
      BY <2>3, <3>1, <1>a, NoSeqType DEF ClientOK
    <3> QED
      BY <2>1, <2>2, <3>1, <3>2 DEF TypeInv
  <2>6. CASE RangeRead
    <3>1. ClientOK'
      BY <2>3, <2>6, <1>a, RangeReadFacts DEF ClientOK
    <3>2. CallOK'
      BY <2>2, <2>6, RangeReadFacts
    <3> QED
      BY <2>1, <3>1, <3>2 DEF TypeInv
  <2>7. CASE RangeDone
    <3>1. call' = NoCall /\ UNCHANGED <<seq, cancelled, anchor, text, outcome, disturbed>>
      BY <2>7 DEF RangeDone, client
    <3>2. ClientOK'
      BY <2>3, <3>1, <1>a DEF ClientOK
    <3> QED
      BY <2>1, <2>2, <3>1, <3>2 DEF TypeInv
  <2>8. CASE Cancel
    <3>1. cancelled' = TRUE /\ UNCHANGED <<call, seq, anchor, text, outcome, disturbed>>
      BY <2>8 DEF Cancel
    <3>2. ClientOK'
      BY <2>3, <3>1, <1>a DEF ClientOK
    <3>3. CallOK'
      BY <2>1, <3>1, <1>a DEF CallOK, Reading, CallType, ByteType
    <3> QED
      BY <2>1, <3>2, <3>3 DEF TypeInv
  <2>9. CASE Begin
    <3>1. Sends(First) /\ cancelled' = FALSE /\ disturbed' = disturbed
      BY <2>9, <1>a, BeginFacts
    <3>2. ClientOK'
      BY <2>3, <3>1, <1>a, FirstType DEF ClientOK, Sends
    <3>3. CallOK'
      BY <2>2, <3>1 DEF Sends
    <3> QED
      BY <2>1, <3>2, <3>3 DEF TypeInv
  <2>10. CASE ChunkDone
    <3>1. /\ UNCHANGED <<cancelled, disturbed>> /\ call.fd # None
          /\ Dropped \/ Rotated \/ AtLimit \/ Complete \/ (~call.rotated /\ Sends(More))
      BY <2>10, <1>a, ChunkFacts
    <3>2. /\ More \in SeqType /\ seq.bytes \in Seq(ByteType) /\ call.bytes \in Seq(ByteType)
          /\ ActualEnd(call) \in Nat /\ call.fd \in 0 .. MaxFiles /\ call.fd <= made
      <4>1. /\ More \in SeqType /\ seq.bytes \in Seq(ByteType) /\ call.bytes \in Seq(ByteType)
            /\ ActualEnd(call) \in Nat /\ call.fd \in 1 .. MaxFiles
        BY <3>1, <1>a, MoreType
      <4> QED
        BY <4>1, <1>a DEF CallOK
    <3>3. seq.bytes \o call.bytes \in Seq(ByteType) /\ text \in Seq(ByteType)
      BY <3>2, <1>a, ConcatType DEF ClientOK
    <3>4. ASSUME NEW how \in {"complete", "capped", "rotated"}, NEW bytes \in Seq(ByteType),
                 Deliver(how, bytes, ActualEnd(call), call.fd)
          PROVE  CallOK' /\ ClientOK'
      <4>1. /\ seq' = NoSeq /\ call' = NoCall /\ outcome' = how /\ text' \in Seq(ByteType)
            /\ anchor' \in [offset : Nat, ino : 0 .. MaxFiles] /\ anchor'.ino = call.fd
        BY <3>2, <3>3, <3>4, DeliverFacts
      <4>2. ClientOK'
        BY <2>3, <3>1, <3>2, <4>1, <1>a, NoSeqType DEF ClientOK
      <4> QED
        BY <2>2, <4>1, <4>2
    <3>5. CASE Dropped
      <4>1. ClientOK'
        BY <2>3, <3>1, <3>5, <1>a, NoSeqType DEF ClientOK, Dropped
      <4> QED
        BY <2>1, <2>2, <3>5, <4>1 DEF TypeInv, Dropped
    <3>6. CASE Sends(More)
      <4>1. ClientOK'
        BY <2>3, <3>1, <3>2, <3>6, <1>a DEF ClientOK, Sends
      <4>2. CallOK'
        BY <2>2, <3>6 DEF Sends
      <4> QED
        BY <2>1, <4>1, <4>2 DEF TypeInv
    <3>7. CASE Rotated \/ AtLimit \/ Complete
      BY <2>1, <3>2, <3>3, <3>4, <3>7 DEF TypeInv, Rotated, AtLimit, Complete
    <3> QED
      BY <3>1, <3>5, <3>6, <3>7
  <2> QED
    BY <1>2, <2>4, <2>5, <2>6, <2>7, <2>8, <2>9, <2>10 DEF CallStep, Callback
<1>3. CASE UNCHANGED vars
  BY <1>3, <1>a DEF vars, files, client, TypeInv, FilesOK, CallOK, ClientOK, Reading, CallType, SeqType,
                    FileType, ByteType, Inodes
<1> QED
  BY <1>1, <1>2, <1>3, StepKinds

-----------------------------------------------------------------------------
(* The sequence continues what the caller has *)

\* What a step of the server leaves to be read: nothing, a new window, one byte
\* more, or the same bytes as an answer.
Opened == /\ call.pc = "stat" /\ call.op = "tail" /\ call' = TailWindow(call, file[call.fd])

Ranged ==
  /\ call.pc = "stat" /\ call.op = "range"
  /\ LET r == RangeWindow(call, file[call.fd]) IN
     IF r.start > r.end THEN Answer(r, TRUE) ELSE call' = r

Extended ==
  /\ call.pc = "read" /\ NextPos <= call.end /\ NextPos <= file[call.fd].size
  /\ call' = [call EXCEPT !.bytes = Append(@, Byte(call.fd, NextPos))]

Ended ==
  /\ call.pc = "read" /\ AtEnd /\ (call.op = "tail" \/ Stable(call))
  /\ Answer(call, TRUE)

LEMMA ServerReads ==
  ASSUME FilesOK, CallOK, ServerStep
  PROVE  ~Reading(call') \/ Opened \/ Ranged \/ Extended \/ Ended
<1>a. call \in CallType
  BY DEF CallOK
<1>1. ASSUME Answer(call, FALSE) PROVE ~Reading(call')
  BY <1>1, <1>a, AnswerType DEF Reading
<1>2. CASE Open
  <2>1. ASSUME call' = [call EXCEPT !.pc = "stat", !.fd = path, !.bytes = <<>>] PROVE ~Reading(call')
    BY <2>1, <1>a DEF CallType, Reading
  <2> QED
    BY <1>1, <1>2, <2>1 DEF Open
<1>3. CASE Stat
  BY <1>1, <1>3, <1>a DEF Stat, Opened, Ranged, CallType
<1>4. CASE ReadByte
  <2>1. call.pc = "read" /\ call.fd # None /\ call.start \in Nat /\ call.bytes \in Seq(ByteType)
          /\ call.end \in Nat
    BY <1>4, <1>a DEF ReadByte, CallOK, Reading, CallType
  <2>2. file[call.fd] \in FileType
    BY <2>1, OpenFile
  <2>3. NextPos \in Nat /\ file[call.fd].size \in Nat
    BY <2>1, <2>2 DEF NextPos, FileType
  <2>4. NextPos <= call.end /\ NextPos <= file[call.fd].size
    BY <1>4, <2>1, <2>3 DEF ReadByte, AtEnd
  <2> QED
    BY <1>4, <2>4 DEF ReadByte, Extended
<1>5. CASE ReadEnd
  <2>1. ASSUME call' = [call EXCEPT !.pc = "open", !.attempt = @ + 1] PROVE ~Reading(call')
    BY <2>1, <1>a DEF CallType, Reading
  <2> QED
    BY <1>1, <1>5, <2>1 DEF ReadEnd, Ended
<1> QED
  BY <1>2, <1>3, <1>4, <1>5 DEF ServerStep

LEMMA OpenedFacts ==
  ASSUME FilesOK, CallOK, Opened
  PROVE  /\ call.fd \in Inodes /\ call'.fd = call.fd /\ call'.bytes = <<>> /\ call'.op = "tail"
         /\ call'.size = file[call.fd].size /\ call'.offset = call.offset /\ call'.ino = call.ino
         /\ IF call'.rotated THEN call'.start = 0
            ELSE call'.start = call'.offset /\ (call'.ino = None \/ call'.ino = call'.fd)
<1>1. call.fd # None /\ call \in CallType /\ call.bytes = <<>>
  BY DEF Opened, CallOK
<1>2. call.fd \in Inodes /\ file[call.fd] \in FileType
  BY <1>1, OpenFile
<1>3. /\ call'.fd = call.fd /\ call'.bytes = <<>> /\ call'.op = "tail"
      /\ call'.size = file[call.fd].size /\ call'.offset = call.offset /\ call'.ino = call.ino
      /\ call'.rotated = TruncatedOrRotated(call, file[call.fd])
      /\ call'.start = IF TruncatedOrRotated(call, file[call.fd]) THEN 0 ELSE call.offset
  BY <1>1, <1>2, TailWindowType DEF Opened
<1> QED
  BY <1>2, <1>3 DEF TruncatedOrRotated

LEMMA ExtendedFacts ==
  ASSUME FilesOK, CallOK, Extended
  PROVE  /\ call.fd \in Inodes /\ call'.fd = call.fd /\ call'.op = call.op /\ call'.pc = "read"
         /\ call'.size = call.size /\ call'.offset = call.offset /\ call'.ino = call.ino
         /\ call'.start = call.start /\ call'.end = call.end /\ call'.rotated = call.rotated
         /\ call'.stamp = call.stamp /\ Reading(call)
         /\ call.bytes \in Seq(ByteType) /\ call.start \in Nat /\ NextPos = call.start + Len(call.bytes) + 1
         /\ call'.bytes \in Seq(ByteType) /\ Len(call'.bytes) = Len(call.bytes) + 1
         /\ call'.bytes[Len(call.bytes) + 1] = <<call.fd, file[call.fd].era, NextPos>>
         /\ \A k \in 1 .. Len(call.bytes) : call'.bytes[k] = call.bytes[k]
<1>1. /\ call.pc = "read" /\ call.fd # None /\ call \in CallType /\ Reading(call)
      /\ call.bytes \in Seq(ByteType) /\ call.start \in Nat
  BY DEF Extended, CallOK, Reading, CallType
<1>2. call.fd \in Inodes
  BY <1>1, OpenFile
<1>3. NextPos \in Nat /\ NextPos = call.start + Len(call.bytes) + 1
  BY <1>1 DEF NextPos
<1>4. Byte(call.fd, NextPos) \in ByteType /\ Byte(call.fd, NextPos) = <<call.fd, file[call.fd].era, NextPos>>
  BY <1>2, <1>3, ByteIs
<1>5. PICK b : b = Byte(call.fd, NextPos)
  OBVIOUS
<1>6. PICK bs : bs = Append(call.bytes, b)
  OBVIOUS
<1>7. /\ bs \in Seq(ByteType) /\ Len(bs) = Len(call.bytes) + 1 /\ bs[Len(call.bytes) + 1] = b
      /\ \A k \in 1 .. Len(call.bytes) : bs[k] = call.bytes[k]
  BY <1>1, <1>4, <1>5, <1>6, AppendType
<1>8. call' = [call EXCEPT !.bytes = bs]
  BY <1>5, <1>6 DEF Extended
<1>9. /\ call'.fd = call.fd /\ call'.op = call.op /\ call'.pc = "read"
      /\ call'.size = call.size /\ call'.offset = call.offset /\ call'.ino = call.ino
      /\ call'.start = call.start /\ call'.end = call.end /\ call'.rotated = call.rotated
      /\ call'.stamp = call.stamp /\ call'.bytes = bs
  BY <1>1, <1>8 DEF CallType
<1> QED
  BY <1>1, <1>2, <1>3, <1>4, <1>5, <1>7, <1>9

LEMMA EndedFacts ==
  ASSUME CallOK, Ended
  PROVE  /\ call'.fd = call.fd /\ call'.op = call.op /\ call'.pc = "answered" /\ call'.ok
         /\ call'.size = call.size /\ call'.offset = call.offset /\ call'.ino = call.ino
         /\ call'.start = call.start /\ call'.end = call.end /\ call'.rotated = call.rotated
         /\ call'.bytes = call.bytes /\ call.pc = "read" /\ Reading(call)
BY AnswerType DEF Ended, CallOK, Reading

LEMMA LinkInit == Init => LinkInv
<1> SUFFICES ASSUME Init PROVE LinkInv
  OBVIOUS
<1>1. anchor.offset = 0 /\ anchor.ino = None /\ text = <<>> /\ call = NoCall /\ seq = NoSeq
  BY DEF Init
<1> QED
  BY <1>1, NoCallType, NoSeqType, IdleCall DEF LinkInv

LEMMA LinkNext ==
  ASSUME TypeInv, LinkInv, [Next]_vars
  PROVE  LinkInv'
<1>a. FilesOK /\ CallOK /\ ClientOK
  BY DEF TypeInv
<1>b. anchor.offset = Len(text) /\ (anchor.ino = None => text = <<>>)
  BY DEF LinkInv
<1>1. CASE (FileStep /\ UNCHANGED <<call, client>>) \/ UNCHANGED vars
  BY <1>1 DEF LinkInv, vars, client, Reading
<1>2. CASE ServerStep
  <2>1. /\ call'.op = call.op /\ call'.offset = call.offset /\ call'.ino = call.ino
        /\ call'.pc # "idle" /\ call.pc # "idle" /\ UNCHANGED <<seq, anchor, text>>
    BY <1>2, <1>a, ServerTypes DEF client
  <2>2. ASSUME call'.op = "tail", Reading(call')
        PROVE  IF call'.rotated THEN call'.start = 0
               ELSE call'.start = call'.offset /\ (call'.ino = None \/ call'.ino = call'.fd)
    <3>1. CASE Opened
      BY <3>1, <1>a, OpenedFacts
    <3>2. CASE Extended
      BY <2>2, <3>2, <1>a, ExtendedFacts DEF LinkInv
    <3>3. CASE Ended
      BY <2>2, <3>3, <1>a, EndedFacts DEF LinkInv
    <3>4. ~Ranged
      BY <2>1, <2>2 DEF Ranged
    <3> QED
      BY <2>2, <3>1, <3>2, <3>3, <3>4, <1>2, <1>a, ServerReads
  <2> QED
    BY <2>1, <2>2 DEF LinkInv, Reading
<1>3. ASSUME seq' = NoSeq, call' = NoCall, anchor'.offset = Len(text'), anchor'.ino = None => text' = <<>>
      PROVE  LinkInv'
  BY <1>3, NoSeqType, NoCallType, IdleCall DEF LinkInv, Reading
<1>4. CASE ChunkFailed \/ RequestLost
  BY <1>3, <1>4, <1>a, <1>b, FailedFacts
<1>5. CASE RangeRead
  <2>1. /\ call'.pc = "open" /\ call'.op = "range" /\ call.pc = "idle" /\ UNCHANGED <<seq, anchor, text>>
    BY <1>5, RangeReadFacts
  <2> QED
    BY <2>1 DEF LinkInv
<1>6. CASE RangeDone
  <2>1. call' = NoCall /\ call.op = "range" /\ UNCHANGED <<seq, anchor, text>>
    BY <1>6 DEF RangeDone, client
  <2>2. ~seq.busy
    BY <2>1 DEF LinkInv
  <2> QED
    BY <2>1, <2>2, NoCallType, IdleCall DEF LinkInv, Reading
<1>7. CASE Cancel
  BY <1>7 DEF Cancel, LinkInv, Reading
<1>8. CASE Begin
  <2>1. Sends(First)
    BY <1>8, <1>a, BeginFacts
  <2>2. /\ seq' = First /\ UNCHANGED <<text, anchor>> /\ call'.pc = "open" /\ call'.op = "tail"
        /\ call'.offset = First.offset /\ call'.ino = First.ino
    BY <2>1 DEF Sends
  <2>3. seq'.busy /\ seq'.offset = anchor.offset /\ seq'.ino = anchor.ino /\ seq'.bytes = <<>>
          /\ call'.offset = seq'.offset /\ call'.ino = seq'.ino
    BY <2>2, <1>a, FirstType
  <2>4. anchor.offset = anchor.offset + Len(<<>>)
    BY <1>a DEF ClientOK
  <2> QED
    BY <2>2, <2>3, <2>4, <1>b DEF LinkInv, Reading
<1>9. CASE ChunkDone
  <2>1. /\ call.op = "tail" /\ Reading(call) /\ call.fd # None
        /\ Dropped \/ Rotated \/ AtLimit \/ Complete \/ (~call.rotated /\ Sends(More))
    BY <1>9, <1>a, ChunkFacts
  <2>2. /\ More.busy = seq.busy /\ More.offset = ActualEnd(call)
        /\ More.ino = call.fd /\ More.bytes = seq.bytes \o call.bytes
        /\ seq.bytes \in Seq(ByteType) /\ call.bytes \in Seq(ByteType)
        /\ ActualEnd(call) \in Nat /\ call.fd \in 0 .. MaxFiles /\ call.start \in Nat
    <3>1. call.fd \in 1 .. MaxFiles => call.fd \in 0 .. MaxFiles
      OBVIOUS
    <3> QED
      BY <2>1, <3>1, <1>a, MoreType
  <2>3. text \in Seq(ByteType) /\ anchor.offset \in Nat
    BY <1>a DEF ClientOK
  <2>4. seq.busy
    BY <2>1 DEF LinkInv, Reading
  <2>5. /\ Len(seq.bytes \o call.bytes) = Len(seq.bytes) + Len(call.bytes)
        /\ seq.bytes \o call.bytes \in Seq(ByteType)
    BY <2>2, ConcatType
  <2>6. ~call.rotated => ActualEnd(call) = anchor.offset + Len(seq.bytes \o call.bytes)
    <3>1. ~call.rotated => call.start = anchor.offset + Len(seq.bytes)
      BY <2>1, <2>4 DEF LinkInv
    <3>2. Len(seq.bytes) \in Nat /\ Len(call.bytes) \in Nat
      BY <2>2
    <3>4. SUFFICES ASSUME ~call.rotated
                   PROVE  ActualEnd(call) = anchor.offset + Len(seq.bytes \o call.bytes)
      OBVIOUS
    <3>5. call.start + Len(call.bytes) = anchor.offset + (Len(seq.bytes) + Len(call.bytes))
      <4>1. call.start = anchor.offset + Len(seq.bytes)
        BY <3>1, <3>4
      <4>2. call.start \in Nat /\ anchor.offset \in Nat
        BY <2>2, <2>3
      <4>3. PICK a, b, c, d : a = anchor.offset /\ b = Len(seq.bytes) /\ c = Len(call.bytes) /\ d = call.start
        OBVIOUS
      <4>4. a \in Nat /\ b \in Nat /\ c \in Nat /\ d \in Nat /\ d = a + b
        BY <3>2, <4>1, <4>2, <4>3
      <4>5. d + c = a + (b + c)
        BY <4>4
      <4> QED
        BY <4>3, <4>5
    <3> QED
      BY <3>5, <2>5 DEF ActualEnd
  <2>7. call.rotated => ActualEnd(call) = Len(call.bytes)
    <3>1. call.rotated => call.start = 0
      BY <2>1 DEF LinkInv
    <3> QED
      BY <3>1, <2>2 DEF ActualEnd
  <2>8. CASE Dropped
    BY <1>3, <1>b, <2>8 DEF Dropped
  <2>9. CASE Rotated
    <3>1. /\ seq' = NoSeq /\ call' = NoCall /\ text' = call.bytes
          /\ anchor'.offset = ActualEnd(call) /\ anchor'.ino = call.fd
      BY <2>2, <2>3, <2>9, DeliverFacts DEF Rotated
    <3> QED
      BY <1>3, <2>1, <2>7, <2>9, <3>1 DEF Rotated
  <2>10. CASE AtLimit \/ Complete
    <3>1. /\ seq' = NoSeq /\ call' = NoCall /\ text' = text \o (seq.bytes \o call.bytes)
          /\ anchor'.offset = ActualEnd(call) /\ anchor'.ino = call.fd
      BY <2>2, <2>3, <2>5, <2>10, DeliverFacts DEF AtLimit, Complete
    <3>2. Len(text') = Len(text) + Len(seq.bytes \o call.bytes)
      BY <2>3, <2>5, <3>1, ConcatType
    <3> QED
      BY <1>3, <1>b, <2>1, <2>6, <2>10, <3>1, <3>2 DEF AtLimit, Complete
  <2>11. CASE ~call.rotated /\ Sends(More)
    <3>1. /\ seq' = More /\ UNCHANGED <<text, anchor>> /\ call'.pc = "open" /\ call'.op = "tail"
          /\ call'.offset = More.offset /\ call'.ino = More.ino
      BY <2>11 DEF Sends
    <3>2. /\ seq'.busy /\ seq'.offset = anchor.offset + Len(seq'.bytes) /\ seq'.ino = call.fd
          /\ call'.offset = seq'.offset /\ call'.ino = seq'.ino
      BY <2>2, <2>4, <2>6, <2>11, <3>1
    <3>3. call.fd = anchor.ino \/ anchor.ino = None
      BY <2>1, <2>4, <2>11 DEF LinkInv
    <3> QED
      BY <1>b, <2>1, <3>1, <3>2, <3>3 DEF LinkInv, Reading
  <2> QED
    BY <2>1, <2>8, <2>9, <2>10, <2>11
<1> QED
  BY <1>1, <1>2, <1>4, <1>5, <1>6, <1>7, <1>8, <1>9, StepKinds DEF CallStep, Callback

LEMMA TypeInvType == TypeInv /\ LinkInv => TypeOK
<1> SUFFICES ASSUME TypeInv, LinkInv PROVE TypeOK
  OBVIOUS
<1>1. made \in Inodes /\ path \in 0 .. made /\ file \in [Inodes -> FileType] /\ made \in Nat
  BY ConstantFacts DEF TypeInv, FilesOK
<1>2. /\ call.pc \in {"idle", "open", "stat", "read", "answered"} /\ call.op \in {"tail", "range"}
      /\ call.fd \in Nat /\ call.fd <= made /\ call.attempt \in 0 .. READ_ATTEMPTS - 1
  BY DEF TypeInv, CallOK, CallType
<1>3. /\ anchor.ino \in Nat /\ anchor.ino <= made /\ anchor.offset = Len(text)
      /\ outcome \in {"none", "complete", "capped", "rotated", "error"}
      /\ cancelled \in BOOLEAN /\ disturbed \in BOOLEAN
  BY DEF TypeInv, ClientOK, LinkInv
<1>4. call.fd \in 0 .. made /\ anchor.ino \in 0 .. made
  BY <1>1, <1>2, <1>3
<1>5. seq.busy => call.pc # "idle" /\ call.op = "tail"
  BY DEF LinkInv
<1> QED
  BY <1>1, <1>2, <1>3, <1>4, <1>5 DEF TypeOK, FileType

\* Files, requests and sequences keep their types, at most READ_ATTEMPTS attempts
\* are made, and the caller's anchor is always the end of what it has.
THEOREM TypeCorrect == Spec => []TypeOK
<1>1. TypeInv /\ LinkInv /\ [Next]_vars => LinkInv'
  BY LinkNext
<1> QED
  BY <1>1, TypeInit, TypeNext, LinkInit, TypeInvType, PTL DEF Spec

-----------------------------------------------------------------------------
(* One file is followed *)

LEMMA FirstEra ==
  ASSUME NEW s \in Seq(ByteType), s # <<>>
  PROVE  1 \in 1 .. Len(s) /\ s[1][2] \in Nat
<1>1. Len(s) \in Nat /\ Len(s) # 0
  OBVIOUS
<1>2. 1 \in 1 .. Len(s)
  BY <1>1
<1>3. s[1] \in ByteType
  BY <1>2
<1> QED
  BY <1>2, <1>3 DEF ByteType

LEMMA FromEmpty == \A i, start, last : From(<<>>, i, start, last)
BY DEF From

\* The first era is one of those up to the last.
LEMMA FromFirst ==
  ASSUME NEW s \in Seq(ByteType), s # <<>>, NEW i, NEW start, NEW last \in Nat, From(s, i, start, last)
  PROVE  s[1][2] <= last
<1>1. 1 \in 1 .. Len(s) /\ s[1][2] \in Nat
  BY FirstEra
<1>2. PICK era \in s[1][2] .. last : s[1] = <<i, era, start + 1>>
  BY <1>1 DEF From
<1> QED
  BY <1>1, <1>2

LEMMA FromLater ==
  ASSUME NEW s \in Seq(ByteType), NEW i, NEW start, NEW last \in Nat, NEW later \in Nat, last <= later,
         From(s, i, start, last)
  PROVE  From(s, i, start, later)
<1>1. ASSUME NEW k \in 1 .. Len(s) PROVE \E era \in s[1][2] .. later : s[k] = <<i, era, start + k>>
  <2>1. s # <<>>
    BY <1>1
  <2>2. s[1][2] \in Nat
    BY <2>1, FirstEra
  <2>3. PICK era \in s[1][2] .. last : s[k] = <<i, era, start + k>>
    BY <1>1 DEF From
  <2>4. era \in s[1][2] .. later
    BY <2>2, <2>3
  <2> QED
    BY <2>3, <2>4
<1> QED
  BY <1>1 DEF From

\* The first byte of a concatenation.
LEMMA FirstOf ==
  ASSUME NEW s \in Seq(ByteType), NEW t \in Seq(ByteType)
  PROVE  /\ s # <<>> => (s \o t)[1] = s[1] /\ s \o t # <<>>
         /\ s = <<>> => s \o t = t
<1>1. ASSUME s # <<>> PROVE (s \o t)[1] = s[1] /\ s \o t # <<>>
  <2>1. 1 \in 1 .. Len(s)
    BY <1>1, FirstEra
  <2>2. (s \o t)[1] = s[1] /\ Len(s \o t) = Len(s) + Len(t) /\ Len(s) \in Nat /\ Len(t) \in Nat
    BY <2>1, ConcatType
  <2>3. Len(s \o t) # 0
    BY <2>1, <2>2
  <2> QED
    BY <2>2, <2>3
<1> QED
  BY <1>1

LEMMA FromConcat ==
  ASSUME NEW s \in Seq(ByteType), NEW t \in Seq(ByteType), NEW i, NEW start \in Nat, NEW next \in Nat,
         NEW last \in Nat, From(s, i, start, last), From(t, i, next, last), next = start + Len(s),
         Before(s, t)
  PROVE  From(s \o t, i, start, last)
<1>1. Len(s) \in Nat /\ Len(t) \in Nat /\ Len(s \o t) = Len(s) + Len(t)
  BY ConcatType
<1>2. ASSUME NEW k \in 1 .. Len(s \o t)
      PROVE  \E era \in (s \o t)[1][2] .. last : (s \o t)[k] = <<i, era, start + k>>
  <2>1. CASE k \in 1 .. Len(s)
    <3>1. (s \o t)[k] = s[k] /\ (s \o t)[1] = s[1]
      BY <2>1, ConcatType, FirstOf
    <3>2. PICK era \in s[1][2] .. last : s[k] = <<i, era, start + k>>
      BY <2>1 DEF From
    <3> QED
      BY <3>1, <3>2
  <2>2. CASE k \notin 1 .. Len(s)
    <3>1. PICK j : j = k - Len(s)
      OBVIOUS
    <3>2. j \in 1 .. Len(t) /\ k = Len(s) + j
      BY <1>1, <1>2, <2>2, <3>1
    <3>3. (s \o t)[Len(s) + j] = t[j]
      BY <3>2, ConcatType
    <3>4. PICK era \in t[1][2] .. last : t[j] = <<i, era, next + j>>
      BY <3>2 DEF From
    <3>5. next + j = start + k
      BY <3>2, <1>1
    <3>6. era \in (s \o t)[1][2] .. last
      <4>1. t # <<>> /\ t[1][2] \in Nat
        BY <3>2, FirstEra
      <4>2. CASE s = <<>>
        BY <3>4, <4>2, FirstOf
      <4>3. CASE s # <<>>
        <5>1. (s \o t)[1] = s[1] /\ s[1][2] \in Nat /\ s[1][2] <= t[1][2]
          BY <4>1, <4>3, FirstOf, FirstEra DEF Before
        <5> QED
          BY <3>4, <4>1, <5>1
      <4> QED
        BY <4>2, <4>3
    <3> QED
      BY <3>2, <3>3, <3>4, <3>5, <3>6
  <2> QED
    BY <2>1, <2>2
<1> QED
  BY <1>2 DEF From

LEMMA BeforeConcat ==
  ASSUME NEW r \in Seq(ByteType), NEW s \in Seq(ByteType), NEW t \in Seq(ByteType), Before(r, s), Before(r, t)
  PROVE  Before(r, s \o t)
BY FirstOf DEF Before

\* The eras of the files, and how they go on.
LEMMA EraType ==
  ASSUME FilesOK, NEW i \in 0 .. MaxFiles
  PROVE  Era(i) \in Nat
<1>1. i # None => i \in Inodes
  BY TailAssumption DEF Inodes, None
<1>2. i # None => file[i] \in FileType
  BY <1>1 DEF FilesOK
<1> QED
  BY <1>2 DEF Era, FileType

LEMMA EraGrows ==
  ASSUME FilesOK, FileStep, NEW i \in 0 .. MaxFiles
  PROVE  (IF i = None THEN 0 ELSE file'[i].era) \in Nat /\ Era(i) <= (IF i = None THEN 0 ELSE file'[i].era)
<1>1. i # None => i \in Inodes
  BY TailAssumption DEF Inodes, None
<1>2. i # None => file[i] \in FileType /\ file'[i] \in FileType /\ file'[i].era >= file[i].era
  BY <1>1, FileStepAges DEF FilesOK, FilesAge, Ages
<1>3. i # None => file[i].era \in Nat /\ file'[i].era \in Nat
  BY <1>2 DEF FileType
<1> QED
  BY <1>2, <1>3 DEF Era

LEMMA RangedFacts ==
  ASSUME FilesOK, CallOK, Ranged
  PROVE  /\ call.fd \in Inodes /\ call'.fd = call.fd /\ call'.op = "range" /\ call'.bytes = <<>>
         /\ call'.stamp = file[call.fd].stamp /\ call'.end <= file[call.fd].size
         /\ call'.start \in Nat /\ call'.end \in Nat /\ call'.size = file[call.fd].size
         /\ call'.pc = "read" => call'.start <= call'.end
         /\ call'.pc = "answered" => call'.start > call'.end
         /\ call'.pc \in {"read", "answered"}
<1>1. call.fd # None /\ call \in CallType /\ call.bytes = <<>>
  BY DEF Ranged, CallOK
<1>2. call.fd \in Inodes /\ file[call.fd] \in FileType
  BY <1>1, OpenFile
<1>3. PICK r : r = RangeWindow(call, file[call.fd])
  OBVIOUS
<1>4. /\ r \in CallType /\ r.pc = "read" /\ r.op = call.op /\ r.fd = call.fd /\ r.bytes = <<>>
      /\ r.size = file[call.fd].size /\ r.stamp = file[call.fd].stamp /\ r.end <= file[call.fd].size
  BY <1>1, <1>2, <1>3, RangeWindowType
<1>5. r.start \in Nat /\ r.end \in Nat
  BY <1>4 DEF CallType
<1>6. CASE r.start > r.end
  <2>1. Answer(r, TRUE)
    BY <1>3, <1>6 DEF Ranged
  <2>2. /\ call'.pc = "answered" /\ call'.op = r.op /\ call'.fd = r.fd /\ call'.size = r.size
        /\ call'.start = r.start /\ call'.end = r.end /\ call'.bytes = r.bytes /\ call'.stamp = r.stamp
    BY <1>4, <2>1, AnswerType
  <2> QED
    BY <1>2, <1>4, <1>5, <1>6, <2>2 DEF Ranged
<1>7. CASE ~(r.start > r.end)
  <2>1. call' = r
    BY <1>3, <1>7 DEF Ranged
  <2>2. r.start <= r.end
    BY <1>5, <1>7
  <2> QED
    BY <1>2, <1>4, <1>5, <2>1, <2>2 DEF Ranged
<1> QED
  BY <1>6, <1>7

LEMMA FollowInit == Init => FollowInv
<1> SUFFICES ASSUME Init PROVE FollowInv
  OBVIOUS
<1>1. text = <<>> /\ call = NoCall /\ seq = NoSeq
  BY DEF Init
<1> QED
  BY <1>1, NoSeqType, IdleCall, FromEmpty DEF FollowInv

LEMMA FollowNext ==
  ASSUME TypeInv, LinkInv, FollowInv, [Next]_vars
  PROVE  FollowInv'
<1>a. FilesOK /\ CallOK /\ ClientOK
  BY DEF TypeInv
<1>b. /\ text \in Seq(ByteType) /\ seq.bytes \in Seq(ByteType) /\ call.bytes \in Seq(ByteType)
      /\ anchor.ino \in 0 .. MaxFiles /\ seq.ino \in 0 .. MaxFiles /\ call.fd \in 0 .. MaxFiles
  <2>1. call.fd \in Nat /\ call.fd <= made /\ made \in Nat /\ made <= MaxFiles /\ MaxFiles \in Nat
    BY <1>a, TailAssumption DEF CallOK, CallType, FilesOK, Inodes
  <2>2. call.fd \in 0 .. MaxFiles
    BY <2>1
  <2>3. text \in Seq(ByteType) /\ anchor.ino \in 0 .. MaxFiles
    BY <1>a DEF ClientOK
  <2>4. seq.bytes \in Seq(ByteType) /\ seq.ino \in 0 .. MaxFiles
    BY <1>a DEF ClientOK, SeqType
  <2>5. call.bytes \in Seq(ByteType)
    BY <1>a DEF CallOK, CallType
  <2> QED
    BY <2>2, <2>3, <2>4, <2>5
<1>c. /\ From(text, anchor.ino, 0, Era(anchor.ino))
      /\ seq.busy => From(seq.bytes, seq.ino, anchor.offset, Era(seq.ino)) /\ Before(text, seq.bytes)
      /\ Reading(call) => From(call.bytes, call.fd, call.start, Era(call.fd))
      /\ Reading(call) /\ call.op = "tail" /\ ~call.rotated =>
           Before(text, call.bytes) /\ Before(seq.bytes, call.bytes)
  BY DEF FollowInv
<1>e. Era(anchor.ino) \in Nat /\ Era(seq.ino) \in Nat /\ Era(call.fd) \in Nat
  BY <1>a, <1>b, EraType
<1>1. CASE FileStep /\ UNCHANGED <<call, client>>
  <2>1. call' = call /\ seq' = seq /\ text' = text /\ anchor' = anchor
    BY <1>1 DEF client
  <2>2. PICK a, b, c : /\ a = IF anchor.ino = None THEN 0 ELSE file'[anchor.ino].era
                       /\ b = IF seq.ino = None THEN 0 ELSE file'[seq.ino].era
                       /\ c = IF call.fd = None THEN 0 ELSE file'[call.fd].era
    OBVIOUS
  <2>3. /\ a \in Nat /\ Era(anchor.ino) <= a /\ b \in Nat /\ Era(seq.ino) <= b
        /\ c \in Nat /\ Era(call.fd) <= c
    BY <1>1, <1>a, <1>b, <2>2, EraGrows
  <2>4. From(text, anchor.ino, 0, a)
    BY <1>b, <1>c, <1>e, <2>3, FromLater
  <2>5. seq.busy => From(seq.bytes, seq.ino, anchor.offset, b)
    BY <1>b, <1>c, <1>e, <2>3, FromLater
  <2>6. Reading(call) => From(call.bytes, call.fd, call.start, c)
    BY <1>b, <1>c, <1>e, <2>3, FromLater
  <2>7. Era(anchor.ino)' = a /\ Era(seq.ino)' = b /\ Era(call.fd)' = c
    BY <2>1, <2>2 DEF Era
  <2> QED
    BY <1>c, <2>1, <2>4, <2>5, <2>6, <2>7 DEF FollowInv, Reading, From, Before
<1>2. CASE UNCHANGED vars
  BY <1>2, <1>c DEF FollowInv, vars, client, files, Reading, From, Before, Era
<1>3. ASSUME From(text, anchor.ino, 0, Era(anchor.ino))',
             seq'.busy => /\ From(seq.bytes, seq.ino, anchor.offset, Era(seq.ino))'
                          /\ Before(text, seq.bytes)',
             ~Reading(call')
      PROVE  FollowInv'
  BY <1>3 DEF FollowInv, Reading
<1>s. ASSUME UNCHANGED <<file, text, anchor>> PROVE From(text, anchor.ino, 0, Era(anchor.ino))'
  BY <1>c, <1>s DEF From, Era
<1>k. ASSUME UNCHANGED <<file, text, anchor, seq>>
      PROVE  /\ From(text, anchor.ino, 0, Era(anchor.ino))'
             /\ seq'.busy => /\ From(seq.bytes, seq.ino, anchor.offset, Era(seq.ino))'
                             /\ Before(text, seq.bytes)'
  BY <1>c, <1>k DEF From, Era, Before
<1>4. CASE ServerStep
  <2>1. UNCHANGED <<seq, anchor, text, file>> /\ call'.op = call.op /\ call.pc # "idle"
    BY <1>4, <1>a, ServerTypes DEF client, files
  <2>0. SUFFICES ASSUME Reading(call')
                 PROVE  /\ From(call.bytes, call.fd, call.start, Era(call.fd))'
                        /\ call'.op = "tail" /\ ~call'.rotated =>
                             Before(text, call'.bytes) /\ Before(seq.bytes, call'.bytes)
    <3>1. Before(text, call'.bytes) /\ Before(seq.bytes, call'.bytes)
            => Before(text, call.bytes)' /\ Before(seq.bytes, call.bytes)'
      BY <2>1 DEF Before
    <3> QED
      BY <1>k, <2>1, <3>1 DEF FollowInv, Reading
  <2>2. CASE Opened \/ Ranged
    <3>1. call'.bytes = <<>>
      BY <2>2, <1>a, OpenedFacts, RangedFacts
    <3> QED
      BY <3>1 DEF From, Before
  <2>3. CASE Extended
    <3>1. /\ call'.fd = call.fd /\ call'.start = call.start /\ Reading(call)
          /\ call.start \in Nat /\ call.fd \in Inodes /\ call'.rotated = call.rotated
          /\ NextPos = call.start + Len(call.bytes) + 1
          /\ call'.bytes \in Seq(ByteType) /\ Len(call'.bytes) = Len(call.bytes) + 1
          /\ call'.bytes[Len(call.bytes) + 1] = <<call.fd, file[call.fd].era, NextPos>>
          /\ \A k \in 1 .. Len(call.bytes) : call'.bytes[k] = call.bytes[k]
      BY <2>3, <1>a, ExtendedFacts
    <3>2. PICK bs, n, e : bs = call'.bytes /\ n = Len(call.bytes) /\ e = file[call.fd].era
      OBVIOUS
    <3>3. /\ n \in Nat /\ e \in Nat /\ e = Era(call.fd) /\ e = Era(call.fd)'
          /\ Len(bs) = n + 1 /\ bs[n + 1] = <<call.fd, e, NextPos>> /\ bs \in Seq(ByteType)
      <4>1. call.fd # None /\ call'.fd # None
        BY <3>1, ConstantFacts
      <4>2. e = Era(call.fd) /\ e = Era(call.fd)'
        BY <2>1, <3>1, <3>2, <4>1 DEF Era
      <4> QED
        BY <1>b, <1>e, <3>1, <3>2, <4>2
    \* The first byte stays, or is the new one.
    <3>4. /\ call.bytes # <<>> => bs[1] = call.bytes[1] /\ bs[1][2] \in Nat /\ bs[1][2] <= e
          /\ call.bytes = <<>> => bs[1][2] = e
      <4>1. ASSUME call.bytes # <<>> PROVE bs[1] = call.bytes[1] /\ bs[1][2] \in Nat /\ bs[1][2] <= e
        <5>1. 1 \in 1 .. Len(call.bytes) /\ call.bytes[1][2] \in Nat
          BY <1>b, <4>1, FirstEra
        <5>2. call.bytes[1][2] <= e
          BY <1>b, <1>c, <1>e, <3>1, <3>3, <4>1, FromFirst
        <5> QED
          BY <3>1, <3>2, <5>1, <5>2
      <4>2. ASSUME call.bytes = <<>> PROVE bs[1][2] = e
        <5>1. n + 1 = 1
          BY <3>2, <4>2
        <5> QED
          BY <3>3, <5>1
      <4> QED
        BY <4>1, <4>2
    <3>5. ASSUME NEW k \in 1 .. Len(bs)
          PROVE  \E era \in bs[1][2] .. e : bs[k] = <<call.fd, era, call.start + k>>
      <4>1. CASE k \in 1 .. n
        <5>1. call.bytes # <<>>
          BY <3>2, <4>1
        <5>2. PICK era \in call.bytes[1][2] .. e : call.bytes[k] = <<call.fd, era, call.start + k>>
          BY <1>c, <3>1, <3>2, <3>3, <4>1 DEF From
        <5> QED
          BY <3>1, <3>2, <3>4, <4>1, <5>1, <5>2
      <4>2. CASE k = n + 1
        <5>1. NextPos = call.start + k
          <6>1. PICK m : m = call.start
            OBVIOUS
          <6>2. m \in Nat /\ n \in Nat /\ NextPos = m + n + 1 /\ k = n + 1
            BY <3>1, <3>2, <3>3, <4>2, <6>1
          <6>3. NextPos = m + k
            BY <6>2
          <6> QED
            BY <6>1, <6>3
        <5>2. e \in bs[1][2] .. e
          BY <3>3, <3>4
        <5> QED
          BY <3>3, <4>2, <5>1, <5>2
      <4> QED
        BY <3>3, <3>5, <4>1, <4>2
    <3>6. From(bs, call.fd, call.start, e)
      BY <3>5 DEF From
    <3>7. From(call.bytes, call.fd, call.start, Era(call.fd))'
      BY <3>1, <3>2, <3>3, <3>6 DEF From
    \* It was read after all the others.
    <3>8. ASSUME call'.op = "tail", ~call'.rotated PROVE Before(text, bs) /\ Before(seq.bytes, bs)
      <4>1. /\ seq.busy /\ call.ino = seq.ino /\ (call.ino = None \/ call.ino = call.fd)
            /\ (seq.ino = anchor.ino \/ anchor.ino = None) /\ (seq.ino = None => seq.bytes = <<>>)
            /\ (anchor.ino = None => text = <<>>)
            /\ Before(text, call.bytes) /\ Before(seq.bytes, call.bytes)
        BY <1>c, <2>1, <3>1, <3>8 DEF LinkInv
      <4>2. text # <<>> => text[1][2] \in Nat /\ text[1][2] <= e
        <5>1. text # <<>> => Era(anchor.ino) = e
          BY <3>3, <4>1
        <5> QED
          BY <1>b, <1>c, <3>3, <5>1, FirstEra, FromFirst
      <4>3. seq.bytes # <<>> => seq.bytes[1][2] \in Nat /\ seq.bytes[1][2] <= e
        <5>1. seq.bytes # <<>> => Era(seq.ino) = e
          BY <3>3, <4>1
        <5> QED
          BY <1>b, <1>c, <3>3, <4>1, <5>1, FirstEra, FromFirst
      <4> QED
        BY <3>4, <4>1, <4>2, <4>3 DEF Before
    <3> QED
      BY <3>2, <3>7, <3>8
  <2>4. CASE Ended
    <3>1. /\ call'.fd = call.fd /\ call'.start = call.start /\ call'.bytes = call.bytes /\ Reading(call)
          /\ call'.op = call.op /\ call'.rotated = call.rotated
      BY <2>4, <1>a, EndedFacts
    <3>2. Era(call.fd)' = Era(call.fd)
      BY <2>1, <3>1 DEF Era
    <3>3. From(call.bytes, call.fd, call.start, Era(call.fd))'
      BY <1>c, <3>1, <3>2 DEF From
    <3> QED
      BY <1>c, <3>1, <3>3
  <2> QED
    BY <2>0, <2>2, <2>3, <2>4, <1>4, <1>a, ServerReads
<1>5. ASSUME seq' = NoSeq, call' = NoCall, From(text, anchor.ino, 0, Era(anchor.ino))' PROVE FollowInv'
  BY <1>3, <1>5, NoSeqType, IdleCall
<1>6. CASE ChunkFailed \/ RequestLost
  <2>1. seq' = NoSeq /\ call' = NoCall /\ UNCHANGED <<anchor, text, file>>
    BY <1>6, <1>a, FailedFacts DEF files
  <2> QED
    BY <1>5, <1>s, <2>1
<1>7. CASE RangeRead \/ RangeDone
  <2>1. UNCHANGED <<seq, anchor, text, file>> /\ ~Reading(call')
    BY <1>7, RangeReadFacts, IdleCall DEF RangeDone, Reading, client, files
  <2> QED
    BY <1>3, <1>k, <2>1
<1>10. CASE Cancel
  BY <1>10, <1>c DEF Cancel, FollowInv, client, files, Reading, From, Before, Era
<1>8. CASE Begin
  <2>1. Sends(First) /\ file' = file
    BY <1>8, <1>a, BeginFacts DEF files
  <2>2. UNCHANGED <<text, anchor>> /\ ~Reading(call') /\ seq'.bytes = <<>>
    BY <2>1, <1>a, FirstType DEF Sends, Reading
  <2>4. From(seq.bytes, seq.ino, anchor.offset, Era(seq.ino))' /\ Before(text, seq.bytes)'
    BY <2>2 DEF From, Before
  <2> QED
    BY <1>3, <1>s, <2>1, <2>2, <2>4
<1>9. CASE ChunkDone
  <2>1. /\ call.op = "tail" /\ Reading(call) /\ call.fd # None /\ file' = file
        /\ Dropped \/ Rotated \/ AtLimit \/ Complete \/ (~call.rotated /\ Sends(More))
    BY <1>9, <1>a, ChunkFacts DEF files
  <2>2. /\ More.bytes = seq.bytes \o call.bytes /\ More.ino = call.fd
        /\ ActualEnd(call) \in Nat /\ call.start \in Nat
    BY <2>1, <1>a, MoreType
  <2>3. anchor.offset \in Nat
    BY <1>a DEF ClientOK
  <2>4. /\ seq.busy /\ seq.offset = anchor.offset + Len(seq.bytes) /\ call.offset = seq.offset
        /\ call.ino = seq.ino /\ (seq.ino = None => seq.bytes = <<>>)
        /\ anchor.offset = Len(text) /\ (anchor.ino = None => text = <<>>)
        /\ (seq.ino = anchor.ino \/ anchor.ino = None)
    BY <2>1 DEF LinkInv, Reading
  <2>5. seq.bytes \o call.bytes \in Seq(ByteType)
    BY <1>b, ConcatType
  <2>a. From(call.bytes, call.fd, call.start, Era(call.fd)) /\ Before(text, seq.bytes)
    BY <1>c, <2>1, <2>4
  \* A reply that is not rotated continues the sequence under the same number.
  <2>6. ASSUME ~call.rotated
        PROVE  /\ From(seq.bytes \o call.bytes, call.fd, anchor.offset, Era(call.fd))
               /\ Before(text, seq.bytes \o call.bytes)
    <3>1. call.start = anchor.offset + Len(seq.bytes) /\ (seq.ino = None \/ seq.ino = call.fd)
      BY <2>1, <2>4, <2>6 DEF LinkInv
    <3>2. From(seq.bytes, call.fd, anchor.offset, Era(call.fd))
      BY <2>4, <3>1, <1>c, FromEmpty
    <3>3. Before(seq.bytes, call.bytes) /\ Before(text, call.bytes)
      BY <1>c, <2>1, <2>6
    <3>4. From(seq.bytes \o call.bytes, call.fd, anchor.offset, Era(call.fd))
      BY <1>b, <1>e, <2>2, <2>3, <2>a, <3>1, <3>2, <3>3, FromConcat
    <3>5. Before(text, seq.bytes \o call.bytes)
      BY <1>b, <2>a, <3>3, BeforeConcat
    <3> QED
      BY <3>4, <3>5
  <2>7. ASSUME ~call.rotated PROVE From(text \o (seq.bytes \o call.bytes), call.fd, 0, Era(call.fd))
    <3>1. From(text, call.fd, 0, Era(call.fd))
      <4>1. anchor.ino = None \/ anchor.ino = call.fd
        <5>1. seq.ino = None \/ seq.ino = call.fd
          BY <2>1, <2>4, <2>7 DEF LinkInv
        <5> QED
          BY <5>1, <2>4
      <4> QED
        BY <2>4, <4>1, <1>c, FromEmpty
    <3>2. anchor.offset = 0 + Len(text) /\ 0 \in Nat
      BY <2>3, <2>4
    <3> QED
      BY <1>b, <1>e, <2>3, <2>5, <2>6, <2>7, <3>1, <3>2, FromConcat
  <2>b. ASSUME NEW t, NEW i, text' = t, anchor'.ino = i, From(t, i, 0, Era(call.fd)), i = call.fd
        PROVE  From(text, anchor.ino, 0, Era(anchor.ino))'
    <3>1. Era(anchor.ino)' = Era(call.fd)
      BY <2>1, <2>b DEF Era
    <3> QED
      BY <2>b, <3>1 DEF From
  <2>8. CASE Dropped
    BY <1>5, <1>s, <2>1, <2>8 DEF Dropped
  <2>9. CASE Rotated
    <3>1. seq' = NoSeq /\ call' = NoCall /\ text' = call.bytes /\ anchor'.ino = call.fd
      BY <1>b, <2>2, <2>9, DeliverFacts DEF Rotated
    <3>2. call.start = 0
      BY <2>1, <2>9 DEF LinkInv, Rotated
    <3> QED
      BY <1>5, <2>a, <2>b, <3>1, <3>2
  <2>10. CASE AtLimit \/ Complete
    <3>1. /\ seq' = NoSeq /\ call' = NoCall /\ text' = text \o (seq.bytes \o call.bytes)
          /\ anchor'.ino = call.fd /\ ~call.rotated
      <4>1. ASSUME NEW how \in {"capped", "complete"},
                   Deliver(how, seq.bytes \o call.bytes, ActualEnd(call), call.fd)
            PROVE  /\ seq' = NoSeq /\ call' = NoCall /\ text' = text \o (seq.bytes \o call.bytes)
                   /\ anchor'.ino = call.fd
        <5>1. PICK bs, e, i : bs = seq.bytes \o call.bytes /\ e = ActualEnd(call) /\ i = call.fd
          OBVIOUS
        <5>2. /\ bs \in Seq(ByteType) /\ e \in Nat /\ i \in 0 .. MaxFiles /\ Deliver(how, bs, e, i)
              /\ how \in {"complete", "capped", "rotated"} /\ how # "rotated" /\ text \in Seq(ByteType)
          BY <1>b, <2>2, <2>5, <4>1, <5>1
        <5>3. seq' = NoSeq /\ call' = NoCall /\ text' = text \o bs /\ anchor'.ino = i
          BY <5>2, DeliverFacts
        <5> QED
          BY <5>1, <5>3
      <4> QED
        BY <2>10, <4>1 DEF AtLimit, Complete
    <3> QED
      BY <1>5, <2>7, <2>b, <3>1
  <2>11. CASE ~call.rotated /\ Sends(More)
    <3>1. seq' = More /\ UNCHANGED <<text, anchor>> /\ ~Reading(call')
      BY <2>11 DEF Sends, Reading
    <3>2. PICK t, i, n, r : t = seq.bytes \o call.bytes /\ i = call.fd /\ n = anchor.offset /\ r = text
      OBVIOUS
    <3>3. /\ From(t, i, n, Era(call.fd)) /\ Before(r, t)
          /\ seq'.bytes = t /\ seq'.ino = i /\ anchor'.offset = n /\ text' = r
      BY <2>2, <2>6, <2>11, <3>1, <3>2
    <3>4. Era(seq.ino)' = Era(call.fd)
      BY <2>1, <3>2, <3>3 DEF Era
    <3>5. From(seq.bytes, seq.ino, anchor.offset, Era(seq.ino))' /\ Before(text, seq.bytes)'
      BY <3>3, <3>4 DEF From, Before
    <3> QED
      BY <1>3, <1>s, <2>1, <3>1, <3>5
  <2> QED
    BY <2>1, <2>8, <2>9, <2>10, <2>11
<1> QED
  BY <1>1, <1>2, <1>4, <1>6, <1>7, <1>8, <1>9, <1>10, StepKinds DEF CallStep, Callback

\* "concatenating them would silently splice two different files together": a
\* caller that continues from each result has bytes of one inode number, each at
\* its place and none older than the first, whatever is appended, removed,
\* rotated, truncated or lost and however numbers are used again. They are of one
\* file unless that number began to stand for something else meanwhile.
THEOREM FollowsFile == Spec => []FollowsOneFile
<1>1. TypeInv /\ LinkInv /\ FollowInv /\ [Next]_vars => LinkInv' /\ FollowInv'
  BY LinkNext, FollowNext
<1>2. TypeInv /\ LinkInv /\ FollowInv => FollowsOneFile
  <2> SUFFICES ASSUME TypeInv, LinkInv, FollowInv, NEW k \in DOMAIN text
               PROVE  \E era \in text[1][2] .. file[anchor.ino].era : text[k] = <<anchor.ino, era, k>>
    BY DEF FollowsOneFile
  <2>1. text \in Seq(ByteType) /\ k \in 1 .. Len(text) /\ k \in Nat
    BY DEF TypeInv, ClientOK
  <2>2. text # <<>>
    BY <2>1
  <2>3. Era(anchor.ino) = file[anchor.ino].era
    BY <2>2 DEF LinkInv, Era
  <2>4. PICK era \in text[1][2] .. file[anchor.ino].era : text[k] = <<anchor.ino, era, 0 + k>>
    BY <2>1, <2>3 DEF FollowInv, From
  <2>5. 0 + k = k
    BY <2>1
  <2> QED
    BY <2>4, <2>5
<1> QED
  BY <1>1, <1>2, TypeInit, TypeNext, LinkInit, FollowInit, PTL DEF Spec

-----------------------------------------------------------------------------
(* A range is read from one version *)

\* Whatever the client does ends the request or sends another one.
LEMMA ClientCalls ==
  ASSUME FilesOK, CallOK, ClientOK, Callback \/ RangeRead \/ Begin \/ RequestLost
  PROVE  call' = NoCall \/ call'.pc = "open"
<1>1. ChunkDone => call' = NoCall \/ call'.pc = "open"
  BY ChunkFacts DEF Dropped, Rotated, AtLimit, Complete, Deliver, Sends
<1>2. ChunkFailed \/ RequestLost => call' = NoCall
  BY FailedFacts
<1>3. RangeRead \/ Begin => call'.pc = "open"
  BY RangeReadFacts, BeginFacts DEF Sends
<1> QED
  BY <1>1, <1>2, <1>3 DEF Callback, RangeDone

LEMMA ReadsRangeNext ==
  ASSUME FineClock, TypeInv, ReadsRange, [Next]_vars
  PROVE  ReadsRange'
<1>a. FilesOK /\ CallOK /\ ClientOK /\ call \in CallType
  BY DEF TypeInv, CallOK
<1>0. SUFFICES ASSUME call'.op = "range", call'.pc = "read" PROVE ReadsRange'
  BY DEF ReadsRange
<1>1. CASE FileStep /\ UNCHANGED <<call, client>>
  <2>1. call.op = "range" /\ call.pc = "read" /\ call' = call
    BY <1>0, <1>1
  <2>2. call.fd # None /\ call.stamp \in Nat
    BY <2>1, <1>a DEF CallOK, Reading, CallType
  <2>3. call.fd \in Inodes /\ file[call.fd] \in FileType
    BY <2>2, <1>a, OpenFile
  <2>4. Ages(file[call.fd], file'[call.fd]) /\ file'[call.fd] \in FileType
    BY <1>1, <1>a, <2>3, FileStepAges DEF FilesAge, FilesOK
  <2>5. file[call.fd].stamp \in Nat /\ file'[call.fd].stamp \in Nat
    BY <2>3, <2>4 DEF FileType
  <2>6. call.stamp <= file[call.fd].stamp
    BY <2>1 DEF ReadsRange
  <2>7. call.stamp <= file'[call.fd].stamp
    BY <2>2, <2>4, <2>5, <2>6 DEF Ages
  <2>8. call.stamp = file'[call.fd].stamp => /\ file'[call.fd].stamp = file[call.fd].stamp
                                             /\ file'[call.fd].size = file[call.fd].size
                                             /\ file'[call.fd].era = file[call.fd].era
    BY <2>2, <2>4, <2>5, <2>6 DEF Ages
  <2> QED
    BY <2>1, <2>7, <2>8 DEF ReadsRange
<1>2. CASE UNCHANGED vars
  BY <1>2 DEF vars, files, ReadsRange
<1>3. CASE ServerStep
  <2>1. UNCHANGED file
    BY <1>3, <1>a, ServerTypes DEF files
  <2>2. CASE Ranged
    <3>1. /\ call.fd \in Inodes /\ call'.fd = call.fd /\ call'.bytes = <<>>
          /\ call'.stamp = file[call.fd].stamp /\ call'.end <= file[call.fd].size
          /\ call'.start \in Nat /\ call'.end \in Nat /\ call'.start <= call'.end
      BY <2>2, <1>0, <1>a, RangedFacts
    <3>2. file[call.fd].stamp \in Nat
      BY <3>1, <1>a DEF FilesOK, FileType
    <3>3. Len(call'.bytes) <= call'.end - call'.start /\ call'.stamp <= file'[call'.fd].stamp
      BY <2>1, <3>1, <3>2
    <3>4. call'.end <= file'[call'.fd].size
      BY <2>1, <3>1
    <3>5. \A k \in 1 .. Len(call'.bytes) :
            call'.bytes[k] = <<call'.fd, file'[call'.fd].era, call'.start + k>>
      BY <3>1
    <3> QED
      BY <3>1, <3>3, <3>4, <3>5 DEF ReadsRange
  <2>3. CASE Extended
    <3>1. /\ call'.fd = call.fd /\ call'.start = call.start /\ call'.end = call.end
          /\ call'.stamp = call.stamp /\ call'.op = call.op
          /\ call.bytes \in Seq(ByteType) /\ call.start \in Nat /\ call.fd \in Inodes
          /\ NextPos = call.start + Len(call.bytes) + 1
          /\ Len(call'.bytes) = Len(call.bytes) + 1
          /\ call'.bytes[Len(call.bytes) + 1] = <<call.fd, file[call.fd].era, NextPos>>
          /\ \A k \in 1 .. Len(call.bytes) : call'.bytes[k] = call.bytes[k]
      BY <2>3, <1>a, ExtendedFacts
    <3>2. /\ call.start <= call.end /\ Len(call.bytes) <= call.end - call.start
          /\ call.stamp <= file[call.fd].stamp
          /\ call.stamp = file[call.fd].stamp =>
               /\ call.end <= file[call.fd].size
               /\ \A k \in 1 .. Len(call.bytes) :
                    call.bytes[k] = <<call.fd, file[call.fd].era, call.start + k>>
      BY <1>0, <2>3, <3>1 DEF ReadsRange, Extended
    <3>3. PICK m, n, e : m = call.start /\ n = Len(call.bytes) /\ e = call.end
      OBVIOUS
    <3>4. m \in Nat /\ n \in Nat /\ e \in Nat /\ NextPos = m + n + 1 /\ NextPos <= e
      BY <2>3, <3>1, <3>3, <1>a DEF Extended, CallType
    <3>5. n + 1 <= e - m
      BY <3>4
    <3>6. ASSUME call.stamp = file[call.fd].stamp, NEW k \in 1 .. n + 1
          PROVE  call'.bytes[k] = <<call.fd, file[call.fd].era, m + k>>
      <4>1. CASE k \in 1 .. n
        BY <3>1, <3>2, <3>3, <3>6, <4>1
      <4>2. CASE k = n + 1
        <5>1. NextPos = m + k
          BY <3>4, <4>2
        <5> QED
          BY <3>1, <3>3, <4>2, <5>1
      <4> QED
        BY <3>4, <3>6, <4>1, <4>2
    <3> QED
      BY <2>1, <3>1, <3>2, <3>3, <3>5, <3>6 DEF ReadsRange
  <2>4. CASE Opened \/ Ended
    BY <1>0, <2>4, <1>a, OpenedFacts, EndedFacts
  <2> QED
    BY <1>0, <1>3, <2>2, <2>3, <2>4, <1>a, ServerReads DEF Reading
<1>4. CASE Callback \/ RangeRead \/ Begin \/ RequestLost
  BY <1>0, <1>4, <1>a, ClientCalls, NoCallType
<1>5. CASE Cancel
  BY <1>5 DEF Cancel, files, ReadsRange
<1> QED
  BY <1>1, <1>2, <1>3, <1>4, <1>5, StepKinds DEF CallStep

\* An answer to read_range is made of one version, and then stays as it is.
LEMMA VersionNext ==
  ASSUME TypeInv, ReadsRange, RangeIsOneVersion, [Next]_vars
  PROVE  RangeIsOneVersion'
<1>a. FilesOK /\ CallOK /\ ClientOK /\ call \in CallType
  BY DEF TypeInv, CallOK
<1>0. SUFFICES ASSUME call'.pc = "answered", call'.op = "range", call'.ok PROVE RangeIsOneVersion'
  BY DEF RangeIsOneVersion
<1>1. CASE call' = call
  BY <1>1 DEF RangeIsOneVersion
<1>2. CASE ServerStep
  <2>1. CASE Ranged
    <3>1. call'.bytes = <<>> /\ call'.start > call'.end
      BY <2>1, <1>0, <1>a, RangedFacts
    <3> QED
      BY <3>1 DEF RangeIsOneVersion
  <2>2. CASE Ended
    <3>1. /\ call'.fd = call.fd /\ call'.start = call.start /\ call'.end = call.end
          /\ call'.bytes = call.bytes /\ call'.op = call.op /\ call.pc = "read" /\ Reading(call)
      BY <2>2, <1>a, EndedFacts
    <3>2. call.op = "range" /\ AtEnd /\ call.stamp = file[call.fd].stamp
      BY <1>0, <2>2, <3>1 DEF Ended, Stable
    <3>3. /\ call.start <= call.end /\ Len(call.bytes) <= call.end - call.start
          /\ call.end <= file[call.fd].size
          /\ \A k \in 1 .. Len(call.bytes) :
               call.bytes[k] = <<call.fd, file[call.fd].era, call.start + k>>
      BY <3>1, <3>2 DEF ReadsRange
    <3>4. /\ call.start \in Nat /\ call.end \in Nat /\ call.bytes \in Seq(ByteType) /\ call.fd # None
      BY <1>a, <3>1 DEF CallType, CallOK
    <3>5. file[call.fd].size \in Nat
      BY <1>a, <3>4, OpenFile DEF FileType
    <3>6. Len(call.bytes) = call.end - call.start
      <4>1. PICK m, n, e, z : m = call.start /\ n = Len(call.bytes) /\ e = call.end /\ z = file[call.fd].size
        OBVIOUS
      <4>2. m \in Nat /\ n \in Nat /\ e \in Nat /\ z \in Nat /\ m <= e /\ n <= e - m /\ e <= z
              /\ (m + n + 1 > e \/ m + n + 1 > z)
        BY <3>2, <3>3, <3>4, <3>5, <4>1 DEF AtEnd, NextPos
      <4>3. n = e - m
        BY <4>2
      <4> QED
        BY <4>1, <4>3
    <3>7. ASSUME NEW k \in DOMAIN call.bytes
          PROVE  call.bytes[k] = <<call.fd, call.bytes[1][2], call.start + k>>
      <4>1. k \in 1 .. Len(call.bytes) /\ 1 \in 1 .. Len(call.bytes)
        BY <3>4, <3>7
      <4>2. call.bytes[1] = <<call.fd, file[call.fd].era, call.start + 1>>
        BY <3>3, <4>1
      <4>3. call.bytes[1][2] = file[call.fd].era
        BY <4>2
      <4> QED
        BY <3>3, <4>1, <4>3
    <3>8. ~(call.start > call.end)
      BY <3>3, <3>4
    <3> QED
      BY <3>1, <3>6, <3>7, <3>8 DEF RangeIsOneVersion
  <2>3. CASE Opened \/ Extended
    BY <1>0, <2>3, <1>a, OpenedFacts, ExtendedFacts
  <2> QED
    BY <1>0, <1>2, <2>1, <2>2, <2>3, <1>a, ServerReads DEF Reading
<1>4. CASE Callback \/ RangeRead \/ Begin \/ RequestLost
  BY <1>0, <1>4, <1>a, ClientCalls, NoCallType
<1> QED
  BY <1>1, <1>2, <1>4, StepKinds DEF CallStep, Cancel, vars

\* read_range answers with bytes of one version of the file and with all of the
\* range that this version has, although other programs change the file between
\* any two of its reads, if two changes of a file always differ in a time stamp.
THEOREM RangeVersion ==
  ASSUME FineClock
  PROVE  Spec => []RangeIsOneVersion
<1>1. Init => ReadsRange /\ RangeIsOneVersion
  BY NoCallType DEF Init, ReadsRange, RangeIsOneVersion
<1>2. TypeInv /\ ReadsRange /\ RangeIsOneVersion /\ [Next]_vars => ReadsRange' /\ RangeIsOneVersion'
  BY ReadsRangeNext, VersionNext
<1> QED
  BY <1>1, <1>2, TypeInit, TypeNext, PTL DEF Spec

-----------------------------------------------------------------------------
(* A complete read reaches the end *)

\* What EofInv says of the file the call is meant to reach the end of.
LEMMA GoalFile ==
  ASSUME TypeInv, EofInv, seq.busy, seq.goal.ino # None
  PROVE  /\ seq.goal.ino \in Inodes /\ file[seq.goal.ino] \in FileType
         /\ seq.goal.era \in Nat /\ seq.goal.size \in Nat
<1>1. seq \in SeqType /\ seq.goal.ino <= made
  BY DEF TypeInv, ClientOK, EofInv
<1>2. seq.goal \in [ino : 0 .. MaxFiles, era : Nat, size : Nat]
  BY <1>1 DEF SeqType
<1>3. seq.goal.ino \in 0 .. MaxFiles /\ seq.goal.era \in Nat /\ seq.goal.size \in Nat
  BY <1>2
<1>4. seq.goal.ino \in Inodes
  BY <1>3, TailAssumption DEF Inodes, None
<1> QED
  BY <1>3, <1>4 DEF TypeInv, FilesOK

LEMMA EofNext ==
  ASSUME TypeInv, LinkInv, EofInv, [Next]_vars
  PROVE  EofInv'
<1>a. FilesOK /\ CallOK /\ ClientOK /\ call \in CallType
  BY DEF TypeInv, CallOK
<1>0. SUFFICES ASSUME seq'.busy, seq'.goal.ino # None PROVE EofInv'
  BY DEF EofInv
<1>1. CASE FileStep /\ UNCHANGED <<call, client>>
  <2>1. seq' = seq /\ call' = call /\ seq.busy /\ seq.goal.ino # None
    BY <1>0, <1>1 DEF client
  <2>2. PICK g : g = seq.goal.ino
    OBVIOUS
  <2>3. /\ g \in Inodes /\ file[g] \in FileType /\ seq.goal.era \in Nat /\ seq.goal.size \in Nat
        /\ g \in Nat /\ made \in Nat
    BY <2>1, <2>2, GoalFile, ConstantFacts, <1>a DEF FilesOK
  <2>4. Ages(file[g], file'[g]) /\ file'[g] \in FileType /\ made' >= made /\ made' \in Nat
    BY <1>1, <1>a, <2>3, FileStepAges, ConstantFacts DEF FilesAge, FilesOK
  <2>5. /\ file[g].era \in Nat /\ file[g].size \in Nat /\ file'[g].era \in Nat /\ file'[g].size \in Nat
    BY <2>3, <2>4 DEF FileType
  <2>6. /\ g <= made /\ file[g].era >= seq.goal.era
        /\ file[g].era = seq.goal.era => file[g].size >= seq.goal.size
        /\ Reading(call) /\ call.fd = g /\ file[g].era = seq.goal.era => call.size >= seq.goal.size
    BY <2>1, <2>2 DEF EofInv
  <2>7. g <= made' /\ file'[g].era >= seq.goal.era
    BY <2>3, <2>4, <2>5, <2>6 DEF Ages
  <2>8. ASSUME file'[g].era = seq.goal.era
        PROVE  file[g].era = seq.goal.era /\ file'[g].size >= seq.goal.size
    BY <2>3, <2>4, <2>5, <2>6, <2>8 DEF Ages
  <2> QED
    BY <2>1, <2>2, <2>6, <2>7, <2>8 DEF EofInv, Reading
<1>2. CASE UNCHANGED vars
  BY <1>2 DEF vars, files, client, EofInv, Reading
<1>3. CASE ServerStep
  <2>1. UNCHANGED <<file, made, seq>> /\ call'.op = call.op /\ call.pc # "idle"
    BY <1>3, <1>a, ServerTypes DEF files, client
  <2>2. seq.busy /\ seq.goal.ino # None /\ call.op = "tail"
    BY <1>0, <2>1 DEF LinkInv
  <2>3. ASSUME Reading(call'), call'.fd = seq.goal.ino, file[call'.fd].era = seq.goal.era
        PROVE  call'.size >= seq.goal.size
    <3>1. CASE Opened
      BY <2>2, <2>3, <3>1, <1>a, OpenedFacts DEF EofInv
    <3>2. CASE Extended
      BY <2>2, <2>3, <3>2, <1>a, ExtendedFacts DEF EofInv
    <3>3. CASE Ended
      BY <2>2, <2>3, <3>3, <1>a, EndedFacts DEF EofInv
    <3>4. ~Ranged
      BY <2>2 DEF Ranged
    <3> QED
      BY <1>3, <1>a, <2>3, <3>1, <3>2, <3>3, <3>4, ServerReads
  <2> QED
    BY <1>0, <2>1, <2>2, <2>3 DEF EofInv, Reading
<1>4. CASE RangeRead \/ RangeDone
  <2>1. seq' = seq
    BY <1>4 DEF RangeRead, RangeDone, client
  <2>2. ~seq.busy
    BY <1>4 DEF RangeRead, RangeDone, LinkInv
  <2> QED
    BY <1>0, <2>1, <2>2
<1>5. CASE Cancel
  BY <1>5 DEF Cancel, files, EofInv, Reading
<1>6. CASE ChunkFailed \/ RequestLost
  BY <1>0, <1>6, <1>a, FailedFacts, NoSeqType
<1>7. CASE Begin
  <2>1. Sends(First) /\ UNCHANGED <<path, file, made>>
    BY <1>7, <1>a, BeginFacts DEF files
  <2>2. seq' = First /\ ~Reading(call')
    BY <2>1 DEF Sends, Reading
  <2>3. /\ seq'.goal = Goal /\ Goal.ino = path
        /\ path # None => path \in Inodes /\ Goal.era = file[path].era /\ Goal.size = file[path].size
    BY <2>2, <1>a, FirstType
  <2>4. path # None /\ path \in Inodes /\ path <= made /\ file[path] \in FileType
    BY <1>0, <2>3, <1>a, ConstantFacts DEF FilesOK
  <2>5. file[path].era \in Nat /\ file[path].size \in Nat
    BY <2>4 DEF FileType
  <2>6. file[path].era >= file[path].era /\ file[path].size >= file[path].size
    BY <2>5
  <2> QED
    BY <2>1, <2>2, <2>3, <2>4, <2>6 DEF EofInv, Reading
<1>8. CASE ChunkDone
  <2>1. /\ UNCHANGED <<file, made>> /\ call.op = "tail" /\ Reading(call) /\ call.fd # None
        /\ Dropped \/ Rotated \/ AtLimit \/ Complete \/ (~call.rotated /\ Sends(More))
    BY <1>8, <1>a, ChunkFacts DEF files
  <2>2. Sends(More)
    BY <1>0, <2>1, NoSeqType DEF Dropped, Rotated, AtLimit, Complete, Deliver
  <2>3. seq' = More /\ ~Reading(call')
    BY <2>2 DEF Sends, Reading
  <2>4. More.goal = seq.goal /\ seq.busy
    BY <2>1, <1>a, MoreType DEF LinkInv, Reading
  <2> QED
    BY <1>0, <2>1, <2>3, <2>4 DEF EofInv, Reading
<1> QED
  BY <1>1, <1>2, <1>3, <1>4, <1>5, <1>6, <1>7, <1>8, StepKinds DEF CallStep, Callback

\* The step that ends a call as complete has read to the goal.
LEMMA CompleteStep ==
  ASSUME TypeInv, LinkInv, EofInv, [Next]_vars, seq.busy, ~seq'.busy, outcome' = "complete", ~cancelled,
         anchor'.ino = seq.goal.ino, file[seq.goal.ino].era = seq.goal.era
  PROVE  Len(text') >= seq.goal.size
<1>a. FilesOK /\ CallOK /\ ClientOK /\ call \in CallType
  BY DEF TypeInv, CallOK
<1>1. ChunkDone
  <2>1. CASE seq' = seq
    BY <2>1
  <2>2. CASE RangeRead
    BY <2>2, RangeReadFacts
  <2>3. CASE Begin
    BY <2>3, <1>a, BeginFacts, FirstType DEF Sends
  <2>4. CASE ChunkFailed \/ RequestLost
    BY <2>4, <1>a, FailedFacts
  <2>5. ServerStep => seq' = seq
    BY <1>a, ServerTypes DEF client
  <2> QED
    BY <2>1, <2>2, <2>3, <2>4, <2>5, StepKinds DEF CallStep, Callback, RangeDone, Cancel, vars, client
<1>2. /\ call.op = "tail" /\ Reading(call) /\ call.fd # None
      /\ Dropped \/ Rotated \/ AtLimit \/ Complete \/ (~call.rotated /\ Sends(More))
  BY <1>1, <1>a, ChunkFacts
<1>3. /\ More.busy = seq.busy /\ seq.bytes \in Seq(ByteType) /\ call.bytes \in Seq(ByteType)
      /\ ActualEnd(call) \in Nat /\ call.fd \in 0 .. MaxFiles /\ call.start \in Nat
  <2>1. call.fd \in 1 .. MaxFiles => call.fd \in 0 .. MaxFiles
    OBVIOUS
  <2> QED
    BY <1>2, <2>1, <1>a, MoreType
<1>4. Complete
  BY <1>2, <1>3 DEF Dropped, Rotated, AtLimit, Deliver, Sends
<1>5. text \in Seq(ByteType) /\ seq.bytes \o call.bytes \in Seq(ByteType)
  BY <1>a, <1>3, ConcatType DEF ClientOK
<1>6. anchor'.offset = ActualEnd(call) /\ anchor'.ino = call.fd
  BY <1>3, <1>4, <1>5, DeliverFacts DEF Complete
<1>7. anchor'.offset = Len(text')
  BY LinkNext DEF LinkInv
<1>8. call.size >= seq.goal.size /\ call.fd = seq.goal.ino
  BY <1>2, <1>6 DEF EofInv
<1>9. call.size \in Nat /\ seq.goal.size \in Nat
  BY <1>2, <1>8, <1>a, GoalFile DEF CallType
<1>10. ActualEnd(call) >= call.size
  BY <1>3, <1>4, <1>9 DEF Complete, MoreAvailable
<1>11. ActualEnd(call) >= seq.goal.size
  BY <1>3, <1>8, <1>9, <1>10
<1> QED
  BY <1>6, <1>7, <1>11

\* "read from KNOWN-OFFSET through EOF": a call that reports complete has every
\* byte the file held when the call was made, if it is still the same file.
THEOREM CompleteIsAll == Spec => CompleteReachesEof
<1>1. Init => EofInv
  BY NoSeqType DEF Init, EofInv
<1>2. TypeInv /\ LinkInv /\ EofInv /\ [Next]_vars => LinkInv' /\ EofInv'
  BY LinkNext, EofNext
<1>3. TypeInv /\ LinkInv /\ EofInv /\ [Next]_vars =>
        [seq.busy /\ ~seq'.busy /\ outcome' = "complete" /\ ~cancelled
           /\ anchor'.ino = seq.goal.ino /\ file[seq.goal.ino].era = seq.goal.era
         => Len(text') >= seq.goal.size]_vars
  BY CompleteStep
<1> QED
  BY <1>1, <1>2, <1>3, TypeInit, TypeNext, LinkInit, PTL DEF Spec, CompleteReachesEof
=============================================================================
