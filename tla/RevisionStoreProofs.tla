------------------------ MODULE RevisionStoreProofs ------------------------
(***************************************************************************)
(* Proofs about RevisionStore for every number of workers, every set of    *)
(* contents and every bound.                                               *)
(***************************************************************************)
EXTENDS RevisionStoreRefinement, TLAPS

\* The labels of a worker inside read_with_revision.
Reading == {"lstat", "open", "fstat", "reading"}

\* Worker w is between mutation_guard and its reply.
InSection(w) ==
  \/ pc[w] \in {"check", "temp", "publish", "unlink", "collide", "create",
                "fill", "mutate"}
  \/ pc[w] \in Reading /\ call[w].op # "read"

\* What a worker's label says about its frame.
FrameInv ==
  \A w \in Workers :
    /\ pc[w] \in {"check", "temp", "publish", "unlink", "collide"} =>
         call[w].op = "conditional_write"
    /\ pc[w] \in Reading =>
         \/ call[w].op = "read" /\ ret[w] = "reply"
         \/ call[w].op = "conditional_write" /\ ret[w] # "reply"
    /\ pc[w] \in {"fstat", "reading", "fill"} => sample[w] \in Revision
    /\ pc[w] \in {"publish", "unlink"} => temp[w] \in Inodes
    /\ pc[w] \in {"lstat", "open", "fstat"} => tries[w] < READ_ATTEMPTS
    /\ pc[w] = "idle" => tries[w] = 0 /\ ret[w] = "reply"

InodeType == [bytes : Contents, stamp : Nat, links : Int]

\* TypeOK in three parts: the files, what the workers and the client hold,
\* and the counters.
FilesOK ==
  /\ entry \in Inodes \cup {Absent, Special}
  /\ inode \in [Inodes -> InodeType]

WorkOK ==
  /\ lock \in Workers \cup {NoWorker}
  /\ pc \in [Workers -> Labels]
  /\ call \in [Workers -> Calls]
  /\ sample \in [Workers -> Tokens]
  /\ tries \in [Workers -> 0 .. READ_ATTEMPTS]
  /\ ret \in [Workers -> {"reply", "compare", "appeared", "verify"}]
  /\ temp \in [Workers -> Inodes \cup {Absent}]
  /\ sent \in [to : Workers \cup {NoWorker}, kind : Kinds, rev : Tokens]
  /\ issued \subseteq Revision
  /\ saved \subseteq [exp : Tokens, rev : Revision]

BoundsOK ==
  /\ ops \in 0 .. MaxOps
  /\ ext \in 0 .. MaxExternal
  /\ faults \in 0 .. MaxFaults
  /\ exits \in 0 .. MaxExits

PathStates == [ino : Inodes \cup {Absent, Special}, stamp : Nat, bytes : Bytes]

WorkInv == WorkOK /\ FrameInv
TypeInv == FilesOK /\ WorkInv /\ BoundsOK /\ past \subseteq PathStates
              /\ overtaken \subseteq Workers

-----------------------------------------------------------------------------
LEMMA ConstantFacts ==
  /\ MaxInodes \in Nat /\ MaxInodes >= 1
  /\ Inodes \subseteq Nat
  /\ Absent \notin Inodes /\ Special \notin Inodes /\ Absent # Special
  /\ 1 \in Inodes
  /\ Empty \in Contents /\ Contents \subseteq Bytes
  /\ Missing \in Tokens /\ Revision \subseteq Tokens /\ Missing \notin Revision
  /\ NoWorker \notin Workers
  /\ NoCall \in Calls
  /\ NoReply \in [to : Workers \cup {NoWorker}, kind : Kinds, rev : Tokens]
BY BoundsAssumption, ContentsAssumption, WorkersAssumption
   DEF MaxInodes, Inodes, Absent, Special, Bytes, Missing, Tokens, Revision,
       NoCall, Calls, AllOps, NoReply, Kinds


LEMMA TypeInvType == TypeInv => TypeOK
BY DEF TypeInv, TypeOK, FilesOK, InodeType, WorkInv, WorkOK, BoundsOK, PathStates

\* Descriptors are of files.
LEMMA OpenInodes == FrameInv => OpenFiles \subseteq Inodes
BY DEF FrameInv, OpenFiles, Revision

LEMMA RecordType ==
  ASSUME FilesOK', FrameInv, past \subseteq PathStates, Record
  PROVE  (past \subseteq PathStates)'
<1>1. Current' \in PathStates
  BY ConstantFacts DEF FilesOK, Current, RevisionOf, PathStates, InodeType
<1>2. \A i \in OpenFiles : RevisionOf(i)' \in PathStates
  <2>1. SUFFICES ASSUME NEW i \in Inodes PROVE RevisionOf(i)' \in PathStates
    BY OpenInodes
  <2>2. inode'[i] \in InodeType
    BY DEF FilesOK, Inodes, MaxInodes
  <2> QED
    BY <2>2, ConstantFacts DEF RevisionOf, PathStates, InodeType
<1> QED
  BY <1>1, <1>2 DEF Record, PathStates, Inodes, MaxInodes, Bytes

LEMMA FinishType ==
  ASSUME WorkInv, NEW w \in Workers, NEW kind \in Kinds, NEW rev \in Tokens,
         Finish(w, kind, rev), (saved \subseteq [exp : Tokens, rev : Revision])'
  PROVE  WorkInv'
<1>1. WorkOK'
  BY ConstantFacts DEF WorkInv, WorkOK, Finish, Goto, LockDropped, Labels, READ_ATTEMPTS
<1>2. FrameInv'
  BY ConstantFacts DEF WorkInv, WorkOK, FrameInv, Finish, Goto, Labels, Reading
<1> QED
  BY <1>1, <1>2 DEF WorkInv

LEMMA AnswerType ==
  ASSUME WorkInv, NEW w \in Workers, NEW kind \in Kinds, NEW rev \in Tokens,
         Answer(w, kind, rev)
  PROVE  WorkInv' /\ Record
<1>1. (saved \subseteq [exp : Tokens, rev : Revision])'
  BY DEF Answer, WorkInv, WorkOK, Tokens, Revision, Missing, Inodes, MaxInodes, Bytes
<1> QED
  BY <1>1, FinishType DEF Answer, Finish

LEMMA FailType ==
  ASSUME WorkInv, NEW w \in Workers, NEW code \in Kinds, Fail(w, code)
  PROVE  WorkInv' /\ Record
BY AnswerType, ConstantFacts DEF Fail

LEMMA ContinueType ==
  ASSUME WorkInv, NEW w \in Workers, NEW label \in Labels, Continue(w, label),
         UNCHANGED temp \/ temp' \in [Workers -> Inodes \cup {Absent}],
         FrameInv'
  PROVE  WorkInv' /\ Record
BY ConstantFacts DEF WorkInv, WorkOK, Continue, Goto, Silent

\* The changes a system call makes to one inode.
LEMMA TouchedType ==
  ASSUME FilesOK, NEW i \in Inodes, NEW b \in Contents, NEW n \in Int
  PROVE  Touched(i, b, n) \subseteq InodeType
<1>1. inode[i].stamp \in Nat /\ inode[i].links \in Int
  BY DEF FilesOK, InodeType
<1>2. StampsAfter(i, b) \subseteq Nat
  BY <1>1 DEF StampsAfter
<1> QED
  BY <1>1, <1>2 DEF Touched, Inode, InodeType

LEMMA RelinkedType ==
  ASSUME FilesOK, NEW i \in Inodes, NEW n \in Int
  PROVE  Relinked(i, n) \subseteq InodeType
<1>1. inode[i].bytes \in Contents /\ inode[i].stamp \in Nat
  BY DEF FilesOK, InodeType
<1> QED
  BY <1>1, TouchedType DEF Relinked, Inode, InodeType

\* The path and the inode table stay well formed when a name moves, ...
LEMMA PointType ==
  ASSUME FilesOK, NEW e \in Inodes \cup {Absent, Special}, NEW arriving, NEW n \in Int,
         e \in Inodes => arriving \subseteq InodeType,
         Point(e, arriving, n)
  PROVE  FilesOK'
<1>1. entry \in Inodes => Relinked(entry, n) \subseteq InodeType
  BY RelinkedType
<1>2. PICK new \in arriving, old \in IF entry \in Inodes THEN Relinked(entry, n) ELSE {Absent} :
        inode' = [i \in Inodes |-> IF i = e THEN new ELSE IF i = entry THEN old ELSE inode[i]]
  BY DEF Point
<1>3. \A i \in Inodes : inode'[i] \in InodeType
  BY <1>1, <1>2 DEF FilesOK
<1> QED
  BY <1>2, <1>3 DEF FilesOK, Point, Inodes, MaxInodes

LEMMA VacateType ==
  ASSUME FilesOK, NEW e \in {Absent, Special}, NEW n \in Int, Vacate(e, n)
  PROVE  FilesOK'
BY PointType, ConstantFacts DEF Vacate

LEMMA CreateAtPathType ==
  ASSUME FilesOK, NEW b \in Contents, CreateAtPath(b)
  PROVE  FilesOK' /\ entry' \in Inodes
<1>1. PICK i \in Inodes : Point(i, Touched(i, b, 1), -1)
  BY DEF CreateAtPath, NewInodes
<1> QED
  BY <1>1, TouchedType, PointType DEF Point

LEMMA ComeBackType ==
  ASSUME FilesOK, ComeBack
  PROVE  FilesOK'
<1>1. PICK i \in Inodes : Point(i, Relinked(i, 0), -1)
  BY DEF ComeBack, Away
<1> QED
  BY <1>1, RelinkedType, PointType

\* ... and when one inode changes.
LEMMA ChangeInodeType ==
  ASSUME FilesOK, NEW i \in Inodes, NEW results, results \subseteq InodeType,
         ChangeInode(i, results), UNCHANGED entry
  PROVE  FilesOK'
BY DEF ChangeInode, FilesOK, Inodes, MaxInodes

LEMMA WriteInodeType ==
  ASSUME FilesOK, NEW i \in Inodes, NEW b \in Contents, WriteInode(i, b), UNCHANGED entry
  PROVE  FilesOK'
BY TouchedType, ChangeInodeType DEF WriteInode

LEMMA KeepTempNameType ==
  ASSUME FilesOK, NEW w \in Workers, temp[w] \in Inodes, KeepTempName(w), UNCHANGED entry
  PROVE  FilesOK'
<1>1. inode[temp[w]] \in InodeType
  BY DEF FilesOK
<1>2. [inode[temp[w]] EXCEPT !.links = @ + 1] \in InodeType
  BY <1>1 DEF InodeType
<1> QED
  BY <1>2 DEF KeepTempName, FilesOK, Inodes, MaxInodes

-----------------------------------------------------------------------------
LEMMA TypeInit == Init => TypeInv
<1> SUFFICES ASSUME Init PROVE TypeInv
  OBVIOUS
<1>1. FilesOK
  BY ConstantFacts DEF Init, FilesOK, Inode, InodeType
<1>2. BoundsOK
  BY BoundsAssumption DEF Init, BoundsOK
<1>3. past \subseteq PathStates /\ overtaken \subseteq Workers
  BY <1>1, ConstantFacts DEF Init, FilesOK, Current, RevisionOf, PathStates, InodeType
<1>4. WorkOK
  BY <1>1, ConstantFacts DEF Init, WorkOK, Labels, READ_ATTEMPTS
<1>5. FrameInv
  BY DEF Init, FrameInv, Reading
<1> QED
  BY <1>1, <1>2, <1>3, <1>4, <1>5 DEF TypeInv, WorkInv

LEMMA TypeNext == TypeInv /\ [Next]_vars => TypeInv'
<1> SUFFICES ASSUME TypeInv, [Next]_vars PROVE TypeInv'
  OBVIOUS
<1> USE DEF bounds, files
<1>a. FilesOK /\ WorkInv /\ BoundsOK /\ past \subseteq PathStates /\ overtaken \subseteq Workers
  BY DEF TypeInv
<1>q. ASSUME FilesOK', WorkInv', BoundsOK', Record, overtaken' \subseteq Workers
      PROVE  TypeInv'
  BY <1>a, <1>q, RecordType DEF TypeInv, WorkInv, PathStates, Inodes, MaxInodes, Bytes
<1>u. UNCHANGED files => FilesOK'
  BY <1>a DEF FilesOK, Inodes, MaxInodes
<1>b. UNCHANGED bounds => BoundsOK'
  BY <1>a DEF BoundsOK
<1>1. ASSUME NEW w \in Workers, NEW c \in Requests, Request(w, c) PROVE TypeInv'
  <2>1. c \in Calls
    BY <1>a, ConstantFacts DEF Requests, Calls, AllOps, WorkInv, WorkOK, CreatingOps, EntryOps
  <2>2. WorkOK'
    BY <1>1, <1>a, <2>1, ConstantFacts DEF Request, WorkInv, WorkOK, Goto, Silent, Labels
  <2>3. FrameInv'
    BY <1>1, <1>a, <2>1 DEF Request, WorkInv, WorkOK, FrameInv, Goto, Reading, READ_ATTEMPTS
  <2>4. BoundsOK'
    BY <1>1, <1>a, BoundsAssumption DEF Request, BoundsOK
  <2> QED
    BY <1>1, <1>a, <1>q, <1>u, <2>2, <2>3, <2>4 DEF Request, Silent, WorkInv
<1>2. ASSUME NEW w \in Workers, Acquire(w) PROVE TypeInv'
  <2>1. WorkOK'
    BY <1>2, <1>a, ConstantFacts DEF Acquire, mutation_guard, FirstStep, WorkInv, WorkOK, Goto, Silent, Labels
  <2>2. FrameInv'
    BY <1>2, <1>a DEF Acquire, FirstStep, WorkInv, WorkOK, FrameInv, Goto, Reading
  <2> QED
    BY <1>2, <1>a, <1>q, <1>u, <1>b, <2>1, <2>2 DEF Acquire, Silent, WorkInv
<1>c. ASSUME NEW w \in Workers, ReadLstat(w) PROVE TypeInv'
  <2>1. CASE Fail(w, "io") \/ Fail(w, "unsupported_file_type")
    BY <1>c, <2>1, <1>a, <1>q, <1>u, <1>b, FailType DEF ReadLstat, Kinds
  <2>2. CASE Continue(w, "open") /\ UNCHANGED temp
    <3>1. FrameInv'
      BY <1>c, <2>2, <1>a DEF ReadLstat, WorkInv, WorkOK, FrameInv, Continue, Goto, Reading
    <3> QED
      BY <1>c, <2>2, <1>a, <1>q, <1>u, <1>b, <3>1, ContinueType DEF ReadLstat, Labels
  <2> QED
    BY <1>c, <2>1, <2>2 DEF ReadLstat
<1>d. ASSUME NEW w \in Workers, ReadOpen(w) PROVE TypeInv'
  <2>1. ASSUME NEW code \in {"io", "unsupported_file_type"}, Fail(w, code) PROVE TypeInv'
    BY <1>d, <2>1, <1>a, <1>q, <1>u, <1>b, FailType DEF ReadOpen, Kinds
  <2>2. CASE /\ entry \in Inodes
             /\ sample' = [sample EXCEPT ![w] = Opened(entry)]
             /\ Goto(w, "fstat")
             /\ Silent
             /\ UNCHANGED <<lock, call, tries, ret, temp>>
    <3>1. Opened(entry) \in Revision
      BY <2>2, ConstantFacts DEF Opened, Revision
    <3>2. WorkOK'
      BY <2>2, <1>a, <3>1, ConstantFacts DEF WorkInv, WorkOK, Goto, Silent, Labels
    <3>3. FrameInv'
      BY <1>d, <2>2, <1>a, <3>1 DEF ReadOpen, WorkInv, WorkOK, FrameInv, Goto, Reading
    <3> QED
      BY <1>d, <2>2, <1>a, <1>q, <1>u, <1>b, <3>2, <3>3 DEF ReadOpen, Silent, WorkInv
  <2> QED
    BY <1>d, <2>1, <2>2 DEF ReadOpen
<1>3. ASSUME NEW w \in Workers, ReadFstat(w) PROVE TypeInv'
  <2>1. CASE Fail(w, "unsupported_file_type")
    BY <1>3, <2>1, <1>a, <1>q, <1>u, <1>b, FailType DEF ReadFstat, Kinds
  <2>2. CASE /\ sample' = [sample EXCEPT ![w] = RevisionOf(sample[w].ino)]
             /\ tries' = [tries EXCEPT ![w] = @ + 1]
             /\ Goto(w, "reading")
             /\ Silent
             /\ UNCHANGED <<lock, call, ret, temp>>
    <3>i. sample[w].ino \in Inodes
      BY <1>3, <1>a DEF ReadFstat, WorkInv, FrameInv, Revision
    <3>1. RevisionOf(sample[w].ino) \in Revision
      BY <3>i, <1>a, ConstantFacts DEF RevisionOf, Revision, FilesOK, InodeType
    <3>2. tries[w] + 1 \in 0 .. READ_ATTEMPTS
      BY <1>3, <1>a DEF ReadFstat, WorkInv, WorkOK, FrameInv, READ_ATTEMPTS
    <3>3. WorkOK'
      BY <2>2, <1>a, <3>1, <3>2, ConstantFacts DEF WorkInv, WorkOK, Goto, Silent, Labels
    <3>4. FrameInv'
      BY <1>3, <2>2, <1>a, <3>1 DEF ReadFstat, WorkInv, WorkOK, FrameInv, Goto, Reading
    <3> QED
      BY <1>3, <2>2, <1>a, <1>q, <1>u, <1>b, <3>3, <3>4 DEF ReadFstat, Silent, WorkInv
  <2> QED
    BY <1>3, <2>1, <2>2 DEF ReadFstat
<1>4. ASSUME NEW w \in Workers, ReadRetry(w) PROVE TypeInv'
  <2>1. FrameInv'
    BY <1>4, <1>a DEF ReadRetry, AttemptsLeft, WorkInv, WorkOK, FrameInv, Continue, Goto, Reading
  <2> QED
    BY <1>4, <1>a, <1>q, <1>u, <1>b, <2>1, ContinueType DEF ReadRetry, Labels
<1>5. ASSUME NEW w \in Workers, ReadFail(w) PROVE TypeInv'
  BY <1>5, <1>a, <1>q, <1>u, <1>b, FailType DEF ReadFail, Kinds
<1>6. ASSUME NEW w \in Workers, ReadDone(w) PROVE TypeInv'
  <2>1. PICK b \in ReadBytes(w) : Resume(w, [sample[w] EXCEPT !.bytes = b])
    BY <1>6 DEF ReadDone
  <2> DEFINE rev == [sample[w] EXCEPT !.bytes = b]
  <2>2. rev \in Revision
    <3>1. sample[w] \in Revision
      BY <1>6, <1>a DEF ReadDone, WorkInv, FrameInv
    <3>2. b \in Bytes
      BY <3>1, <1>a DEF ReadBytes, Revision, FilesOK, Bytes, InodeType
    <3> QED
      BY <3>1, <3>2 DEF Revision
  <2>3. rev \in Tokens
    BY <2>2 DEF Tokens
  <2> HIDE DEF rev
  <2>4. WorkInv' /\ Record
    <3>1. CASE Answer(w, "ok", rev) \/ Answer(w, "changed", rev) \/ Answer(w, "appeared", rev)
      BY <3>1, <1>a, <2>3, AnswerType DEF Kinds
    <3>2. CASE /\ Continue(w, IF temp[w] = Absent THEN "temp" ELSE "publish")
               /\ UNCHANGED temp
               /\ ret[w] = "compare"
      <4>1. FrameInv'
        BY <1>6, <1>a, <3>2 DEF ReadDone, WorkInv, WorkOK, FrameInv, Continue, Goto, Reading
      <4> QED
        BY <3>2, <4>1, <1>a, ContinueType DEF Labels
    <3>3. CASE /\ Finish(w, "ok", rev)
               /\ saved' = saved \cup {[exp |-> call[w].exp, rev |-> rev]}
      <4>1. call[w].exp \in Tokens
        BY <1>a DEF WorkInv, WorkOK, Calls
      <4>2. (saved \subseteq [exp : Tokens, rev : Revision])'
        BY <3>3, <4>1, <2>2, <1>a DEF WorkInv, WorkOK, Tokens, Revision, Missing, Inodes, MaxInodes, Bytes
      <4> QED
        BY <3>3, <4>2, <2>3, <1>a, FinishType DEF Kinds, Finish
    <3> QED
      BY <2>1, <3>1, <3>2, <3>3 DEF Resume, rev
  <2> QED
    BY <1>6, <1>a, <1>q, <1>u, <1>b, <2>4 DEF ReadDone
<1>7. ASSUME NEW w \in Workers, RefuseBytes(w) PROVE TypeInv'
  BY <1>7, <1>a, <1>q, <1>u, <1>b, FailType DEF RefuseBytes, Kinds
<1>8. ASSUME NEW w \in Workers, Check(w) PROVE TypeInv'
  <2>1. CASE \/ Fail(w, "deleted") \/ Fail(w, "type_changed")
             \/ Fail(w, "unsupported_file_type")
    BY <1>8, <2>1, <1>a, <1>q, <1>u, <1>b, FailType DEF Check, Kinds
  <2>2. CASE /\ Continue(w, IF temp[w] = Absent THEN "temp" ELSE "publish")
             /\ UNCHANGED temp
    <3>1. FrameInv'
      BY <1>8, <2>2, <1>a DEF Check, WorkInv, WorkOK, FrameInv, Continue, Goto, Reading
    <3> QED
      BY <1>8, <2>2, <1>a, <1>q, <1>u, <1>b, <3>1, ContinueType DEF Check, Labels
  <2>3. CASE /\ StartRead(w, IF call[w].exp = Missing THEN "appeared" ELSE "compare")
             /\ UNCHANGED temp
    <3>1. WorkOK'
      BY <2>3, <1>a, ConstantFacts DEF StartRead, WorkInv, WorkOK, Goto, Silent, Labels, READ_ATTEMPTS
    <3>2. FrameInv'
      BY <1>8, <2>3, <1>a DEF Check, StartRead, WorkInv, WorkOK, FrameInv, Goto, Reading, READ_ATTEMPTS
    <3> QED
      BY <1>8, <2>3, <1>a, <1>q, <1>u, <1>b, <3>1, <3>2 DEF Check, StartRead, Silent, WorkInv
  <2> QED
    BY <1>8, <2>1, <2>2, <2>3 DEF Check
<1>9. ASSUME NEW w \in Workers, WriteTemp(w) PROVE TypeInv'
  <2>1. PICK i \in Inodes : /\ ChangeInode(i, Touched(i, call[w].bytes, 0))
                            /\ temp' = [temp EXCEPT ![w] = i]
    BY <1>9 DEF WriteTemp, NewInodes
  <2>2. call[w].bytes \in Contents
    BY <1>a DEF WorkInv, WorkOK, Calls
  <2>3. FilesOK'
    BY <1>9, <2>1, <2>2, <1>a, TouchedType, ChangeInodeType DEF WriteTemp
  <2>4. temp' \in [Workers -> Inodes \cup {Absent}]
    BY <2>1, <1>a DEF WorkInv, WorkOK
  <2>5. FrameInv'
    BY <1>9, <2>1, <1>a DEF WriteTemp, WorkInv, WorkOK, FrameInv, Continue, Goto, Reading
  <2> QED
    BY <1>9, <1>a, <1>q, <1>b, <2>3, <2>4, <2>5, ContinueType DEF WriteTemp, Labels
<1>10. ASSUME NEW w \in Workers, PublishRename(w) PROVE TypeInv'
  <2>1. CASE entry = Special /\ UNCHANGED files /\ Fail(w, "io")
    BY <1>10, <2>1, <1>a, <1>q, <1>u, <1>b, FailType DEF PublishRename, Kinds
  <2>2. CASE /\ Point(temp[w], Relinked(temp[w], 1), -1)
             /\ temp' = [temp EXCEPT ![w] = Absent]
             /\ StartRead(w, "verify")
    <3>1. temp[w] \in Inodes
      BY <1>10, <1>a DEF PublishRename, WorkInv, FrameInv
    <3>2. FilesOK'
      BY <2>2, <3>1, <1>a, PointType, RelinkedType
    <3>3. WorkOK'
      BY <2>2, <1>a, ConstantFacts DEF StartRead, WorkInv, WorkOK, Goto, Silent, Labels, READ_ATTEMPTS
    <3>4. FrameInv'
      BY <1>10, <2>2, <1>a DEF PublishRename, StartRead, WorkInv, WorkOK, FrameInv, Goto, Reading, READ_ATTEMPTS
    <3> QED
      BY <1>10, <2>2, <1>a, <1>q, <1>b, <3>2, <3>3, <3>4 DEF PublishRename, StartRead, Silent, WorkInv
  <2> QED
    BY <1>10, <2>1, <2>2 DEF PublishRename
<1>11. ASSUME NEW w \in Workers, PublishLink(w) PROVE TypeInv'
  <2>1. temp[w] \in Inodes
    BY <1>11, <1>a DEF PublishLink, WorkInv, FrameInv
  <2>2. FilesOK'
    BY <1>11, <2>1, <1>a, <1>u, PointType, RelinkedType DEF PublishLink
  <2>3. FrameInv'
    BY <1>11, <2>1, <1>a DEF PublishLink, WorkInv, WorkOK, FrameInv, Continue, Goto, Reading
  <2> QED
    BY <1>11, <1>a, <1>q, <1>b, <2>2, <2>3, ContinueType DEF PublishLink, Labels
<1>12. ASSUME NEW w \in Workers, Collide(w) PROVE TypeInv'
  <2>1. CASE \/ Fail(w, "io") \/ Fail(w, "type_changed")
             \/ Fail(w, "unsupported_file_type")
    BY <1>12, <2>1, <1>a, <1>q, <1>u, <1>b, FailType DEF Collide, Kinds
  <2>2. CASE StartRead(w, "appeared") /\ UNCHANGED temp
    <3>1. WorkOK'
      BY <2>2, <1>a, ConstantFacts DEF StartRead, WorkInv, WorkOK, Goto, Silent, Labels, READ_ATTEMPTS
    <3>2. FrameInv'
      BY <1>12, <2>2, <1>a DEF Collide, StartRead, WorkInv, WorkOK, FrameInv, Goto, Reading, READ_ATTEMPTS
    <3> QED
      BY <1>12, <2>2, <1>a, <1>q, <1>u, <1>b, <3>1, <3>2 DEF Collide, StartRead, Silent, WorkInv
  <2> QED
    BY <1>12, <2>1, <2>2 DEF Collide
<1>13. ASSUME NEW w \in Workers, UnlinkTemp(w) PROVE TypeInv'
  <2>1. FilesOK'
    BY <1>13, <1>a, RelinkedType, ChangeInodeType DEF UnlinkTemp, DropTempName, WorkInv, FrameInv
  <2>2. WorkOK'
    BY <1>13, <1>a, ConstantFacts DEF UnlinkTemp, StartRead, WorkInv, WorkOK, Goto, Silent, Labels, READ_ATTEMPTS
  <2>3. FrameInv'
    BY <1>13, <1>a DEF UnlinkTemp, StartRead, WorkInv, WorkOK, FrameInv, Goto, Reading, READ_ATTEMPTS
  <2> QED
    BY <1>13, <1>a, <1>q, <1>b, <2>1, <2>2, <2>3 DEF UnlinkTemp, StartRead, Silent, WorkInv
<1>14. ASSUME NEW w \in Workers, IoFailure(w) PROVE TypeInv'
  <2>1. FilesOK'
    <3>1. CASE pc[w] = "unlink"
      <4>1. temp[w] \in Inodes
        BY <3>1, <1>a DEF WorkInv, FrameInv
      <4> QED
        BY <1>14, <3>1, <4>1, <1>a, RelinkedType, ChangeInodeType, KeepTempNameType
           DEF IoFailure, DropTempName
    <3> QED
      BY <1>14, <3>1, <1>u DEF IoFailure
  <2>2. BoundsOK'
    BY <1>14, <1>a, BoundsAssumption DEF IoFailure, BoundsOK
  <2> QED
    BY <1>14, <1>a, <1>q, <2>1, <2>2, FailType DEF IoFailure, Kinds
<1>15. ASSUME NEW w \in Workers, CreateOpen(w) PROVE TypeInv'
  <2>1. CASE UNCHANGED files /\ Fail(w, "io")
    BY <1>15, <2>1, <1>a, <1>q, <1>u, <1>b, FailType DEF CreateOpen, Kinds
  <2>2. CASE ~(UNCHANGED files /\ Fail(w, "io"))
    <3>1. FilesOK' /\ entry' \in Inodes
      <4>1. CASE CreateAtPath(Empty)
        BY <4>1, <1>a, CreateAtPathType, ConstantFacts
      <4>2. CASE entry \in Inodes /\ WriteInode(entry, Empty) /\ UNCHANGED entry
        BY <4>2, <1>a, WriteInodeType, ConstantFacts
      <4>3. CASE UNCHANGED files /\ entry \in Inodes
        BY <4>3, <1>u
      <4> QED
        BY <1>15, <2>2, <4>1, <4>2, <4>3 DEF CreateOpen
    <3>2. /\ Goto(w, "fill") /\ Silent /\ UNCHANGED <<lock, call, tries, ret, temp>>
          /\ \E r \in Revision : sample' = [sample EXCEPT ![w] = r]
      <4>1. Opened(entry') \in Revision
        BY <3>1, ConstantFacts DEF Opened, Revision
      <4>2. entry \in Inodes => Opened(entry) \in Revision
        BY ConstantFacts DEF Opened, Revision
      <4> QED
        BY <1>15, <2>2, <4>1, <4>2 DEF CreateOpen
    <3>3. WorkOK'
      BY <3>2, <1>a, ConstantFacts DEF WorkInv, WorkOK, Goto, Silent, Labels
    <3>4. FrameInv'
      BY <1>15, <3>2, <1>a DEF CreateOpen, WorkInv, WorkOK, FrameInv, Goto, Reading
    <3> QED
      BY <1>15, <1>a, <1>q, <1>b, <3>1, <3>2, <3>3, <3>4 DEF CreateOpen, Silent, WorkInv
  <2> QED
    BY <2>1, <2>2
<1>16. ASSUME NEW w \in Workers, CreateFill(w) PROVE TypeInv'
  <2>1. sample[w].ino \in Inodes /\ call[w].bytes \in Contents
    BY <1>16, <1>a DEF CreateFill, WorkInv, WorkOK, FrameInv, Revision, Calls
  <2>2. FilesOK'
    BY <1>16, <2>1, <1>a, WriteInodeType DEF CreateFill
  <2> QED
    BY <1>16, <1>a, <1>q, <1>b, <2>2, AnswerType, ConstantFacts DEF CreateFill, Kinds
<1>17. ASSUME NEW w \in Workers, MutateEntry(w) PROVE TypeInv'
  <2>1. Answer(w, "done", Missing) \/ Fail(w, "io")
    BY <1>17 DEF MutateEntry
  <2>2. WorkInv' /\ Record
    BY <2>1, <1>a, AnswerType, FailType, ConstantFacts DEF Kinds
  <2>3. FilesOK'
    <3>1. CASE CreateAtPath(call[w].bytes)
      BY <3>1, <1>a, CreateAtPathType DEF WorkInv, WorkOK, Calls
    <3>2. ASSUME NEW e \in {Absent, Special}, NEW n \in {-1, 0}, Vacate(e, n) PROVE FilesOK'
      BY <3>2, <1>a, VacateType
    <3> QED
      BY <1>17, <3>1, <3>2, <1>a, <1>u, ComeBackType DEF MutateEntry
  <2> QED
    BY <1>17, <1>a, <1>q, <1>b, <2>2, <2>3 DEF MutateEntry
<1>18. ASSUME External PROVE TypeInv'
  <2>1. FilesOK'
    <3>1. ASSUME NEW b \in Contents, CreateAtPath(b) PROVE FilesOK'
      BY <3>1, <1>a, CreateAtPathType
    <3>2. ASSUME NEW e \in {Absent, Special}, NEW n \in {-1, 0}, Vacate(e, n) PROVE FilesOK'
      BY <3>2, <1>a, VacateType
    <3>3. ASSUME NEW i \in Inodes, NEW b \in Contents, WriteInode(i, b), UNCHANGED entry
          PROVE  FilesOK'
      BY <3>3, <1>a, WriteInodeType
    <3>4. ASSUME NEW i \in Inodes, NEW n \in {-1, 1}, ChangeInode(i, Relinked(i, n)),
                 UNCHANGED entry
          PROVE  FilesOK'
      BY <3>4, <1>a, RelinkedType, ChangeInodeType
    <3>5. Away \cup ({entry} \cap Inodes) \subseteq Inodes
      BY DEF Away
    <3> QED
      BY <1>18, <3>1, <3>2, <3>3, <3>4, <3>5, <1>a, ComeBackType DEF External
  <2>2. WorkOK'
    BY <1>18, <1>a, ConstantFacts DEF External, WorkInv, WorkOK, Silent
  <2>3. FrameInv'
    BY <1>18, <1>a DEF External, WorkInv, FrameInv
  <2>4. BoundsOK'
    BY <1>18, <1>a, BoundsAssumption DEF External, BoundsOK
  <2> QED
    BY <1>18, <1>a, <1>q, <2>1, <2>2, <2>3, <2>4 DEF External, Silent, WorkInv
<1>19. ASSUME ServerExit PROVE TypeInv'
  <2>1. WorkOK'
    BY <1>19, <1>a, ConstantFacts DEF ServerExit, WorkInv, WorkOK, Silent, Labels, READ_ATTEMPTS
  <2>2. FrameInv'
    BY <1>19 DEF ServerExit, FrameInv, Reading
  <2>3. BoundsOK'
    BY <1>19, <1>a, BoundsAssumption DEF ServerExit, BoundsOK
  <2>4. FilesOK'
    <3>1. \A i \in Inodes : inode[i] \in InodeType /\ [inode[i] EXCEPT !.links = @ + 1] \in InodeType
      BY <1>a DEF FilesOK, InodeType
    <3> QED
      BY <1>19, <3>1, <1>a DEF ServerExit, FilesOK, Inodes, MaxInodes
  <2> QED
    BY <1>19, <1>a, <1>q, <2>1, <2>2, <2>3, <2>4 DEF ServerExit, Silent, WorkInv
<1>20. CASE UNCHANGED vars
  BY <1>20 DEF vars, TypeInv, FilesOK, WorkInv, WorkOK, FrameInv, BoundsOK, Reading,
               PathStates, Inodes, MaxInodes, Bytes, Tokens, Revision, Missing
<1> QED
  BY <1>1, <1>2, <1>c, <1>d, <1>3, <1>4, <1>5, <1>6, <1>7, <1>8, <1>9, <1>10, <1>11, <1>12, <1>13,
     <1>14, <1>15, <1>16, <1>17, <1>18, <1>19, <1>20 DEF Next, WorkerStep

\* The store's state stays within its types.
THEOREM TypeCorrect == Spec => []TypeOK
<1>1. Spec => []TypeInv
  BY TypeInit, TypeNext, PTL DEF Spec
<1> QED
  BY <1>1, TypeInvType, PTL

-----------------------------------------------------------------------------
(* Mutual exclusion and what a conditional write relies on between its second *)
(* check and its rename.                                                      *)

\* What worker w may count on.  Only the holder of the lock is in a section;
\* a temporary file belongs to a section; unless the world outside interfered,
\* a file opened in a section is still at the path, a sample taken there is
\* its state, and so is the token of a write about to be published.
Relies(w) ==
  /\ InSection(w) => lock = w
  /\ temp[w] # Absent => InSection(w)
  /\ pc[w] = "fstat" /\ InSection(w) /\ w \notin overtaken => sample[w].ino = entry
  /\ pc[w] = "reading" /\ InSection(w) /\ w \notin overtaken => sample[w] = Current
  /\ pc[w] = "publish" /\ w \notin overtaken => call[w].exp = Current

SectionInv == \A w \in Workers : Relies(w)

\* A step of worker v: a request it takes up, a step of its handler, a fault.
StepOf(v) == (\E c \in Requests : Request(v, c)) \/ WorkerStep(v) \/ IoFailure(v)

\* A worker's step leaves the frames of the others alone, takes only a free
\* lock and drops only its own.
Spares(v, w) ==
  /\ pc'[w] = pc[w] /\ call'[w] = call[w]
  /\ sample'[w] = sample[w] /\ temp'[w] = temp[w] /\ ret'[w] = ret[w]
  /\ w \in overtaken' <=> w \in overtaken
  /\ lock = w => lock' = w

LEMMA FinishSpares ==
  ASSUME WorkOK, NEW v \in Workers, NEW w \in Workers \ {v}, NEW kind, NEW rev,
         Finish(v, kind, rev), UNCHANGED overtaken
  PROVE  Spares(v, w)
BY WorkersAssumption DEF WorkOK, Finish, Goto, LockDropped, Spares

LEMMA StepSpares ==
  ASSUME TypeInv, NEW v \in Workers, StepOf(v), NEW w \in Workers \ {v}
  PROVE  Spares(v, w)
<1> USE DEF bounds, files
<1>a. WorkOK
  BY DEF TypeInv, WorkInv
<1>1. ASSUME NEW kind, NEW rev, Finish(v, kind, rev), UNCHANGED overtaken PROVE Spares(v, w)
  BY <1>1, <1>a, FinishSpares
<1>2. ASSUME NEW kind, NEW rev, Answer(v, kind, rev), UNCHANGED overtaken PROVE Spares(v, w)
  BY <1>2, <1>1 DEF Answer
<1>3. ASSUME NEW code, Fail(v, code), UNCHANGED overtaken PROVE Spares(v, w)
  BY <1>3, <1>2 DEF Fail
<1>4. ASSUME NEW label, Continue(v, label), UNCHANGED overtaken,
             temp' = temp \/ \E t : temp' = [temp EXCEPT ![v] = t]
      PROVE  Spares(v, w)
  BY <1>4, <1>a DEF WorkOK, Continue, Goto, Spares
<1>5. ASSUME NEW then, StartRead(v, then), UNCHANGED overtaken,
             temp' = temp \/ \E t : temp' = [temp EXCEPT ![v] = t]
      PROVE  Spares(v, w)
  BY <1>5, <1>a DEF WorkOK, StartRead, Goto, Spares
<1>6. ASSUME NEW label, Goto(v, label), UNCHANGED <<lock, call, temp, ret, overtaken>>,
             \E r : sample' = [sample EXCEPT ![v] = r]
      PROVE  Spares(v, w)
  BY <1>6, <1>a DEF WorkOK, Goto, Spares
<1>7. ASSUME NEW c, Request(v, c) PROVE Spares(v, w)
  BY <1>7, <1>a DEF WorkOK, Request, Goto, Spares
<1>8. CASE Acquire(v)
  BY <1>8, <1>a, WorkersAssumption DEF WorkOK, Acquire, mutation_guard, Goto, Spares
<1>9. CASE ReadOpen(v) \/ ReadFstat(v)
  BY <1>9, <1>3, <1>6 DEF ReadOpen, ReadFstat
<1>10. CASE ReadLstat(v) \/ ReadRetry(v)
  BY <1>10, <1>3, <1>4 DEF ReadLstat, ReadRetry
<1>11. CASE ReadFail(v)
  BY <1>11, <1>3 DEF ReadFail
<1>12. CASE ReadDone(v)
  BY <1>12, <1>1, <1>2, <1>4 DEF ReadDone, Resume
<1>13. CASE RefuseBytes(v) \/ Collide(v) \/ Check(v)
  BY <1>13, <1>3, <1>4, <1>5 DEF RefuseBytes, Collide, Check
<1>14. CASE WriteTemp(v)
  BY <1>14, <1>4 DEF WriteTemp
<1>15. CASE PublishRename(v) \/ PublishLink(v) \/ UnlinkTemp(v)
  BY <1>15, <1>3, <1>4, <1>5 DEF PublishRename, PublishLink, UnlinkTemp
<1>16. CASE IoFailure(v)
  BY <1>16, <1>3 DEF IoFailure
<1>17. CASE CreateOpen(v)
  BY <1>17, <1>3, <1>6 DEF CreateOpen
<1>18. CASE CreateFill(v) \/ MutateEntry(v)
  BY <1>18, <1>2, <1>3 DEF CreateFill, MutateEntry
<1> QED
  BY <1>7, <1>8, <1>9, <1>10, <1>11, <1>12, <1>13, <1>14, <1>15, <1>16, <1>17, <1>18
     DEF StepOf, WorkerStep

\* Only a worker in its section changes files.
LEMMA SectionChangesFiles ==
  ASSUME NEW v \in Workers, StepOf(v)
  PROVE  UNCHANGED files \/ InSection(v)
<1> USE DEF bounds, files
<1>2. \A c : Request(v, c) => UNCHANGED files
  BY DEF Request
<1>3. Acquire(v) \/ ReadLstat(v) \/ ReadOpen(v) \/ ReadFstat(v) \/ ReadRetry(v) \/ ReadFail(v)
        \/ ReadDone(v) => UNCHANGED files
  BY DEF Acquire, ReadLstat, ReadOpen, ReadFstat, ReadRetry, ReadFail, ReadDone
<1>4. RefuseBytes(v) \/ Check(v) \/ Collide(v) => UNCHANGED files
  BY DEF RefuseBytes, Check, Collide
<1>5. WriteTemp(v) \/ PublishRename(v) \/ PublishLink(v) \/ UnlinkTemp(v) \/ IoFailure(v)
        \/ CreateOpen(v) \/ CreateFill(v) \/ MutateEntry(v) => InSection(v)
  BY DEF WriteTemp, PublishRename, PublishLink, UnlinkTemp, IoFailure, CreateOpen, CreateFill,
         MutateEntry, InSection
<1> QED
  BY <1>2, <1>3, <1>4, <1>5 DEF StepOf, WorkerStep

\* A worker's step preserves what the others rely on.
LEMMA OthersRely ==
  ASSUME TypeInv, NEW v \in Workers, StepOf(v), NEW w \in Workers \ {v},
         Relies(v), Relies(w)
  PROVE  Relies(w)'
<1>1. Spares(v, w)
  BY StepSpares
<1>2. UNCHANGED files \/ InSection(v)
  BY SectionChangesFiles
<1>3. InSection(w)' <=> InSection(w)
  BY <1>1 DEF InSection, Spares
<1>4. InSection(w) => UNCHANGED files
  BY <1>2 DEF Relies
<1>5. InSection(w) => Current' = Current /\ entry' = entry
  BY <1>4 DEF files, Current, RevisionOf, Inodes
<1>6. InSection(w) => lock' = w
  BY <1>1 DEF Relies, Spares
<1>8. pc[w] = "publish" => InSection(w)
  BY DEF InSection
<1> QED
  BY <1>1, <1>3, <1>5, <1>6, <1>8 DEF Relies, Spares

\* A worker that replies is out of its section and keeps no temporary file.
LEMMA FinishRelies ==
  ASSUME WorkOK, NEW v \in Workers, NEW kind, NEW rev, Finish(v, kind, rev)
  PROVE  Relies(v)'
BY DEF WorkOK, Finish, Goto, Relies, InSection, Reading

\* A worker's step preserves what it relies on itself.
LEMMA MoverRelies ==
  ASSUME TypeInv, NEW v \in Workers, StepOf(v), Relies(v)
  PROVE  Relies(v)'
<1> USE DEF bounds, files
<1>a. WorkOK /\ FrameInv /\ FilesOK
  BY DEF TypeInv, WorkInv
<1>1. ASSUME NEW kind, NEW rev, Finish(v, kind, rev) PROVE Relies(v)'
  BY <1>1, <1>a, FinishRelies
<1>2. ASSUME NEW kind, NEW rev, Answer(v, kind, rev) PROVE Relies(v)'
  BY <1>2, <1>1 DEF Answer
<1>3. ASSUME NEW code, Fail(v, code) PROVE Relies(v)'
  BY <1>3, <1>2 DEF Fail
\* The label says whether v is in its section.
<1>4. ASSUME NEW label \in {"check", "temp", "unlink", "collide"}, Continue(v, label),
             InSection(v)
      PROVE  Relies(v)'
  BY <1>4, <1>a DEF Continue, Goto, WorkOK, Relies, InSection, Reading
<1>5. ASSUME NEW then, StartRead(v, then), InSection(v), FrameInv, call[v].op # "read"
      PROVE  Relies(v)'
  BY <1>5, <1>a DEF StartRead, Goto, WorkOK, Relies, InSection, Reading
<1>6. ASSUME Continue(v, "publish"), InSection(v), UNCHANGED <<temp, files, overtaken>>,
             v \notin overtaken => call[v].exp = Current
      PROVE  Relies(v)'
  <2>1. Current' = Current
    BY <1>6 DEF Current, RevisionOf, Inodes
  <2> QED
    BY <1>6, <2>1, <1>a DEF Continue, Goto, WorkOK, Relies, InSection, Reading
<1>7. ASSUME NEW c, Request(v, c) PROVE Relies(v)'
  BY <1>7, <1>a DEF Request, Goto, WorkOK, FrameInv, Relies, InSection, Reading
<1>8. CASE Acquire(v)
  BY <1>8, <1>a DEF Acquire, mutation_guard, FirstStep, Goto, WorkOK, Relies, InSection, Reading
<1>b. CASE ReadLstat(v)
  <2>1. CASE Continue(v, "open") /\ UNCHANGED temp
    BY <1>b, <2>1, <1>a DEF ReadLstat, Continue, Goto, WorkOK, Relies, InSection, Reading
  <2> QED
    BY <1>b, <2>1, <1>3 DEF ReadLstat
<1>c. CASE ReadOpen(v)
  <2>1. CASE /\ sample' = [sample EXCEPT ![v] = Opened(entry)]
             /\ Goto(v, "fstat")
             /\ UNCHANGED <<lock, call, temp>>
    <3>1. sample'[v].ino = entry
      BY <2>1, <1>a DEF WorkOK, Opened
    <3> QED
      BY <1>c, <2>1, <3>1, <1>a DEF ReadOpen, Goto, WorkOK, Relies, InSection, Reading
  <2> QED
    BY <1>c, <2>1, <1>3 DEF ReadOpen
<1>9. CASE ReadFstat(v)
  <2>1. CASE Fail(v, "unsupported_file_type")
    BY <2>1, <1>3
  <2>2. CASE /\ sample' = [sample EXCEPT ![v] = RevisionOf(sample[v].ino)]
             /\ Goto(v, "reading")
             /\ UNCHANGED <<lock, call, temp>>
    <3>1. sample'[v] = RevisionOf(sample[v].ino) /\ sample[v].ino \in Inodes
      BY <1>9, <2>2, <1>a DEF ReadFstat, WorkOK, FrameInv, Revision
    <3>2. sample[v].ino = entry => sample'[v] = Current'
      BY <1>9, <3>1 DEF ReadFstat, Current, RevisionOf, Inodes, MaxInodes
    <3>3. InSection(v)' <=> InSection(v)
      BY <1>9, <2>2, <1>a DEF ReadFstat, WorkOK, Goto, InSection, Reading
    <3> QED
      BY <1>9, <2>2, <3>2, <3>3, <1>a DEF ReadFstat, Goto, WorkOK, Relies
  <2> QED
    BY <1>9, <2>1, <2>2 DEF ReadFstat
<1>10. CASE ReadRetry(v)
  BY <1>10, <1>a DEF ReadRetry, Continue, Goto, WorkOK, Relies, InSection, Reading
<1>11. CASE ReadFail(v)
  BY <1>11, <1>3 DEF ReadFail
<1>12. CASE ReadDone(v)
  <2>1. PICK b \in ReadBytes(v) : Resume(v, [sample[v] EXCEPT !.bytes = b])
    BY <1>12 DEF ReadDone
  <2> DEFINE rev == [sample[v] EXCEPT !.bytes = b]
  <2>2. CASE ret[v] = "compare" /\ SameRevision(rev, call[v].exp)
             /\ Continue(v, IF temp[v] = Absent THEN "temp" ELSE "publish")
             /\ UNCHANGED temp
    <3>1. InSection(v)
      BY <1>12, <2>2, <1>a DEF ReadDone, FrameInv, InSection, Reading
    <3>2. v \notin overtaken => call[v].exp = Current
      <4>1. SUFFICES ASSUME v \notin overtaken PROVE rev = Current
        BY <2>2, <4>1 DEF SameRevision
      <4>2. sample[v] = Current /\ sample[v] \in Revision
        BY <1>12, <3>1, <4>1, <1>a DEF ReadDone, Relies, FrameInv
      <4>3. Current = RevisionOf(sample[v].ino)
        BY <4>2, ConstantFacts DEF Current, RevisionOf, Revision
      <4>4. b = sample[v].bytes
        BY <2>1, <4>2, <4>3 DEF ReadBytes, RevisionOf
      <4> QED
        BY <4>2, <4>4 DEF Revision
    <3>3. CASE temp[v] = Absent
      BY <2>2, <3>1, <3>3, <1>4
    <3>4. CASE temp[v] # Absent
      BY <1>12, <2>2, <3>1, <3>2, <3>4, <1>6 DEF ReadDone
    <3> QED
      BY <3>3, <3>4
  <2> QED
    BY <2>1, <2>2, <1>1, <1>2 DEF Resume
<1>13. CASE RefuseBytes(v)
  BY <1>13, <1>3 DEF RefuseBytes
<1>14. CASE Check(v)
  <2>1. InSection(v) /\ call[v].op # "read"
    BY <1>14, <1>a DEF Check, FrameInv, InSection
  <2>2. CASE /\ entry = Absent /\ call[v].exp = Missing
             /\ Continue(v, IF temp[v] = Absent THEN "temp" ELSE "publish")
             /\ UNCHANGED temp
    <3>1. call[v].exp = Current
      BY <2>2, ConstantFacts DEF Current, Missing
    <3>2. CASE temp[v] = Absent
      BY <2>1, <2>2, <3>2, <1>4
    <3>3. CASE temp[v] # Absent
      BY <1>14, <2>1, <2>2, <3>1, <3>3, <1>6 DEF Check
    <3> QED
      BY <3>2, <3>3
  <2>3. ASSUME NEW then, StartRead(v, then), UNCHANGED temp PROVE Relies(v)'
    BY <2>1, <2>3, <1>a, <1>5
  <2> QED
    BY <1>14, <2>2, <2>3, <1>3 DEF Check
<1>15. CASE WriteTemp(v)
  <2>1. InSection(v) /\ Continue(v, "check")
    BY <1>15, <1>a DEF WriteTemp, InSection, WorkOK
  <2> QED
    BY <2>1, <1>4
<1>16. CASE PublishRename(v)
  <2>1. InSection(v) /\ call[v].op # "read"
    BY <1>16, <1>a DEF PublishRename, FrameInv, InSection
  <2>2. ASSUME StartRead(v, "verify") PROVE Relies(v)'
    BY <2>1, <2>2, <1>a, <1>5
  <2> QED
    BY <1>16, <2>2, <1>3 DEF PublishRename
<1>17. CASE PublishLink(v)
  <2>1. InSection(v) /\ temp' = temp
    BY <1>17 DEF PublishLink, InSection
  <2> QED
    BY <1>17, <2>1, <1>4 DEF PublishLink
<1>18. CASE Collide(v)
  <2>1. InSection(v) /\ call[v].op # "read"
    BY <1>18, <1>a DEF Collide, FrameInv, InSection
  <2> QED
    BY <1>18, <2>1, <1>a, <1>3, <1>5 DEF Collide
<1>19. CASE UnlinkTemp(v)
  <2>1. InSection(v) /\ call[v].op # "read" /\ StartRead(v, "verify")
    BY <1>19, <1>a DEF UnlinkTemp, FrameInv, InSection, WorkOK
  <2> QED
    BY <2>1, <1>a, <1>5
<1>20. CASE IoFailure(v)
  BY <1>20, <1>3 DEF IoFailure
<1>21. CASE CreateOpen(v)
  <2>1. CASE Goto(v, "fill") /\ UNCHANGED <<lock, call, temp>>
    BY <1>21, <2>1, <1>a DEF CreateOpen, Goto, WorkOK, Relies, InSection, Reading
  <2> QED
    BY <1>21, <2>1, <1>3 DEF CreateOpen
<1>22. CASE CreateFill(v) \/ MutateEntry(v)
  BY <1>22, <1>2, <1>3 DEF CreateFill, MutateEntry
<1> QED
  BY <1>7, <1>8, <1>b, <1>c, <1>9, <1>10, <1>11, <1>12, <1>13, <1>14, <1>15, <1>16, <1>17, <1>18,
     <1>19, <1>20, <1>21, <1>22 DEF StepOf, WorkerStep

LEMMA SectionInit == Init => SectionInv
BY DEF Init, SectionInv, Relies, InSection, Reading

\* An external change overtakes everybody.
LEMMA ExternalRelies ==
  ASSUME External, NEW w \in Workers, Relies(w)
  PROVE  Relies(w)'
<1>1. InSection(w)' <=> InSection(w)
  BY DEF External, InSection
<1> QED
  BY <1>1 DEF External, Relies

LEMMA SectionNext == TypeInv /\ SectionInv /\ [Next]_vars => SectionInv'
<1> SUFFICES ASSUME TypeInv, SectionInv, [Next]_vars PROVE SectionInv'
  OBVIOUS
<1>1. ASSUME NEW v \in Workers, StepOf(v) PROVE SectionInv'
  BY <1>1, MoverRelies, OthersRely DEF SectionInv
<1>2. CASE External
  BY <1>2, ExternalRelies DEF SectionInv
<1>3. CASE ServerExit
  BY <1>3 DEF ServerExit, SectionInv, Relies, InSection, Reading
<1>4. CASE UNCHANGED vars
  BY <1>4 DEF vars, files, SectionInv, Relies, InSection, Current, RevisionOf, Inodes
<1> QED
  BY <1>1, <1>2, <1>3, <1>4 DEF Next, StepOf

\* PublishReplacesExpected for one step.
LEMMA PublishStep ==
  ASSUME TypeInv, SectionInv, [Next]_vars, NEW w \in Workers, Publishes(w)
  PROVE  Current = call[w].exp \/ (call[w].exp # Missing /\ w \in overtaken)
<1> USE DEF files, bounds
<1>1. Relies(w) /\ InSection(w) /\ temp[w] \in Inodes
  BY DEF SectionInv, Publishes, InSection, TypeInv, WorkInv, FrameInv
<1>2. Private(temp[w])
  BY DEF Private
<1>3. ASSUME NEW v \in Workers \ {w}, StepOf(v) PROVE FALSE
  <2>1. ~InSection(v)
    BY <1>1, <1>3 DEF SectionInv, Relies
  <2> QED
    BY <2>1, <1>3, SectionChangesFiles DEF Publishes
<1>4. ASSUME External PROVE FALSE
  <2>1. ASSUME NEW e \in {Absent, Special}, NEW n, Vacate(e, n) PROVE FALSE
    BY <2>1, <1>1, ConstantFacts DEF Vacate, Point, Publishes
  <2>2. ASSUME NEW b, CreateAtPath(b) PROVE FALSE
    BY <2>2, <1>2 DEF CreateAtPath, NewInodes, Point, Publishes
  <2>3. CASE ComeBack
    BY <2>3, <1>2 DEF ComeBack, Away, Point, Publishes
  <2>4. CASE UNCHANGED entry
    BY <2>4 DEF Publishes
  <2> QED
    BY <1>4, <2>1, <2>2, <2>3, <2>4 DEF External
<1>5. CASE PublishLink(w)
  BY <1>5, ConstantFacts DEF PublishLink, Publishes, Current, Missing
<1>6. CASE PublishRename(w)
  BY <1>6, <1>1 DEF PublishRename, Publishes, Relies
<1>7. ASSUME StepOf(w), ~PublishLink(w), ~PublishRename(w) PROVE FALSE
  <2>1. pc[w] = "publish"
    BY DEF Publishes
  <2>2. IoFailure(w) \/ (\E c : Request(w, c))
    BY <1>7, <2>1 DEF StepOf, WorkerStep, Acquire, ReadLstat, ReadOpen, ReadFstat, ReadRetry, ReadFail, ReadDone,
         RefuseBytes, Check, WriteTemp, Collide, UnlinkTemp, CreateOpen, CreateFill, MutateEntry
  <2> QED
    BY <2>1, <2>2 DEF IoFailure, Request, Publishes
<1>8. ~ServerExit /\ ~UNCHANGED vars
  BY DEF ServerExit, vars, Publishes
<1> QED
  BY <1>3, <1>4, <1>5, <1>6, <1>7, <1>8 DEF Next, StepOf

\* For any number of workers, contents and outside changes, a conditional
\* write publishes over the revision it expects, unless an outside change fell
\* into its locked section; a save of a missing path replaces nothing at all.
THEOREM PublishSafe == Spec => PublishReplacesExpected
<1>1. TypeInv /\ SectionInv /\ [Next]_vars =>
        [\A w \in Workers : Publishes(w) =>
            \/ Current = call[w].exp
            \/ call[w].exp # Missing /\ w \in overtaken]_vars
  BY PublishStep
<1> QED
  BY <1>1, TypeInit, TypeNext, SectionInit, SectionNext, PTL DEF Spec, PublishReplacesExpected

-----------------------------------------------------------------------------
(* How files age *)

\* With a fine clock a file changes only together with its stamp, and so does
\* one that comes to the path, be its number new or used before.
Ages(i) ==
  /\ inode'[i].stamp >= inode[i].stamp
  /\ inode'[i].stamp = inode[i].stamp =>
       inode'[i].bytes = inode[i].bytes /\ (entry' = i => entry = i)

LEMMA TouchedAges ==
  ASSUME FineClock, FilesOK, NEW i \in Inodes, NEW b, NEW n, NEW f \in Touched(i, b, n)
  PROVE  f.stamp = inode[i].stamp + 1
BY DEF Touched, StampsAfter, Inode

LEMMA RelinkedAges ==
  ASSUME FineClock, FilesOK, NEW i \in Inodes, NEW n \in Int, NEW f \in Relinked(i, n)
  PROVE  /\ f.stamp = inode[i].stamp \/ f.stamp = inode[i].stamp + 1
         /\ inode[i].links + n > 0 \/ Private(i) => f.stamp = inode[i].stamp + 1
         /\ f.bytes = inode[i].bytes
<1>1. CASE inode[i].links + n > 0 \/ Private(i)
  BY <1>1, TouchedAges DEF Relinked, Touched, Inode
<1>2. CASE ~(inode[i].links + n > 0 \/ Private(i))
  BY <1>2 DEF Relinked, Inode
<1> QED
  BY <1>1, <1>2

LEMMA SameAges ==
  ASSUME FilesOK, NEW i \in Inodes, UNCHANGED entry, inode'[i].stamp = inode[i].stamp,
         inode'[i].bytes = inode[i].bytes
  PROVE  Ages(i)
BY DEF FilesOK, InodeType, Ages

\* One file changes where it is.
LEMMA ChangeAges ==
  ASSUME FineClock, FilesOK, NEW j \in Inodes, NEW results, ChangeInode(j, results),
         UNCHANGED entry, NEW i \in Inodes,
         (\E b, n : results = Touched(j, b, n)) \/ (\E n \in Int : results = Relinked(j, n))
  PROVE  Ages(i)
<1>1. PICK f \in results : inode' = [inode EXCEPT ![j] = f]
  BY DEF ChangeInode
<1>2. inode[i].stamp \in Nat
  BY DEF FilesOK, InodeType
<1>3. CASE i # j
  <2>1. inode'[i] = inode[i]
    BY <1>1, <1>3 DEF FilesOK
  <2> QED
    BY <2>1, SameAges
<1>4. CASE i = j
  <2>1. inode'[i] = f
    BY <1>1, <1>4 DEF FilesOK
  <2>2. f.stamp = inode[i].stamp + 1 \/ (f.stamp = inode[i].stamp /\ f.bytes = inode[i].bytes)
    BY <1>1, <1>4, TouchedAges, RelinkedAges
  <2> QED
    BY <2>1, <2>2, <1>2 DEF Ages
<1> QED
  BY <1>3, <1>4

\* The path names another file, which gets a later stamp.
LEMMA PointAges ==
  ASSUME FineClock, FilesOK, NEW e, NEW arriving, NEW n \in Int, Point(e, arriving, n),
         e \in Inodes => \A f \in arriving : f.stamp = inode[e].stamp + 1,
         NEW i \in Inodes
  PROVE  Ages(i) /\ (i = e => inode'[i].stamp > inode[i].stamp)
<1>1. PICK new \in arriving, old \in IF entry \in Inodes THEN Relinked(entry, n) ELSE {Absent} :
        inode' = [j \in Inodes |-> IF j = e THEN new ELSE IF j = entry THEN old ELSE inode[j]]
  BY DEF Point
<1>2. entry' = e /\ inode[i].stamp \in Nat
  BY DEF Point, FilesOK, InodeType
<1>3. CASE i = e
  BY <1>1, <1>2, <1>3 DEF Ages
<1>4. CASE i # e /\ i = entry
  <2>1. inode'[i] = old /\ old \in Relinked(i, n)
    BY <1>1, <1>4
  <2>2. old.stamp \in {inode[i].stamp, inode[i].stamp + 1} /\ old.bytes = inode[i].bytes
    BY <2>1, RelinkedAges
  <2> QED
    BY <1>2, <1>4, <2>1, <2>2 DEF Ages
<1>5. CASE i # e /\ i # entry
  BY <1>1, <1>2, <1>5 DEF Ages
<1> QED
  BY <1>3, <1>4, <1>5

LEMMA VacateAges ==
  ASSUME FineClock, FilesOK, NEW e \in {Absent, Special}, NEW n \in Int, Vacate(e, n),
         NEW i \in Inodes
  PROVE  Ages(i)
BY PointAges, ConstantFacts DEF Vacate

LEMMA CreateAges ==
  ASSUME FineClock, FilesOK, NEW b, CreateAtPath(b), NEW i \in Inodes
  PROVE  Ages(i)
<1>1. PICK j \in Inodes : Point(j, Touched(j, b, 1), -1)
  BY DEF CreateAtPath, NewInodes
<1> QED
  BY <1>1, TouchedAges, PointAges

LEMMA ComeBackAges ==
  ASSUME FineClock, FilesOK, ComeBack, NEW i \in Inodes
  PROVE  Ages(i)
<1>1. PICK j \in Inodes : inode[j].links > 0 /\ Point(j, Relinked(j, 0), -1)
  BY DEF ComeBack, Away
<1>2. inode[j].links + 0 > 0
  BY <1>1 DEF FilesOK, InodeType
<1> QED
  BY <1>1, <1>2, RelinkedAges, PointAges

\* A temporary file that comes to the path is younger than the one before.
LEMMA PublishAges ==
  ASSUME FineClock, FilesOK, NEW w \in Workers, temp[w] \in Inodes,
         Point(temp[w], Relinked(temp[w], 1), -1), NEW i \in Inodes
  PROVE  Ages(i) /\ (i = temp[w] => inode'[i].stamp > inode[i].stamp)
<1>1. Private(temp[w])
  BY DEF Private
<1> QED
  BY <1>1, RelinkedAges, PointAges

LEMMA FilesAge ==
  ASSUME FineClock, TypeInv, [Next]_vars, NEW i \in Inodes
  PROVE  Ages(i)
<1> USE DEF bounds, files
<1>a. FilesOK /\ FrameInv /\ WorkOK
  BY DEF TypeInv, WorkInv
<1>1. UNCHANGED files => Ages(i)
  BY <1>a, SameAges
<1>2. ASSUME NEW w \in Workers, temp[w] \in Inodes, UNCHANGED entry,
             DropTempName(w) \/ KeepTempName(w)
      PROVE  Ages(i)
  <2>1. CASE DropTempName(w)
    BY <1>2, <2>1, <1>a, ChangeAges DEF DropTempName
  <2>2. CASE KeepTempName(w)
    <3>1. inode'[i].stamp = inode[i].stamp /\ inode'[i].bytes = inode[i].bytes
      BY <1>2, <2>2, <1>a DEF KeepTempName, FilesOK, InodeType
    <3> QED
      BY <1>2, <3>1, <1>a, SameAges
  <2> QED
    BY <1>2, <2>1, <2>2
<1>3. ASSUME NEW j \in Inodes, NEW b, WriteInode(j, b), UNCHANGED entry PROVE Ages(i)
  BY <1>3, <1>a, ChangeAges DEF WriteInode
<1>4. ASSUME NEW v \in Workers, StepOf(v) PROVE Ages(i)
  <2>1. CASE WriteTemp(v)
    <3>1. PICK j \in Inodes : ChangeInode(j, Touched(j, call[v].bytes, 0))
      BY <2>1 DEF WriteTemp, NewInodes
    <3> QED
      BY <2>1, <3>1, <1>a, ChangeAges DEF WriteTemp
  <2>2. CASE PublishRename(v) \/ PublishLink(v)
    <3>1. temp[v] \in Inodes
      BY <2>2, <1>a DEF PublishRename, PublishLink, FrameInv
    <3> QED
      BY <2>2, <3>1, <1>1, <1>a, PublishAges DEF PublishRename, PublishLink
  <2>3. CASE UnlinkTemp(v)
    BY <2>3, <1>2, <1>a DEF UnlinkTemp, FrameInv
  <2>4. CASE IoFailure(v)
    BY <2>4, <1>1, <1>2, <1>a DEF IoFailure, FrameInv
  <2>5. CASE CreateOpen(v)
    BY <2>5, <1>1, <1>3, <1>a, CreateAges DEF CreateOpen
  <2>6. CASE CreateFill(v)
    <3>1. sample[v].ino \in Inodes
      BY <2>6, <1>a DEF CreateFill, FrameInv, Revision
    <3> QED
      BY <2>6, <3>1, <1>3 DEF CreateFill
  <2>7. CASE MutateEntry(v)
    <3>1. ASSUME NEW e \in {Absent, Special}, NEW n \in {-1, 0}, Vacate(e, n) PROVE Ages(i)
      BY <3>1, <1>a, VacateAges
    <3> QED
      BY <2>7, <3>1, <1>1, <1>a, CreateAges, ComeBackAges DEF MutateEntry
  <2>8. Acquire(v) \/ ReadLstat(v) \/ ReadOpen(v) \/ ReadFstat(v) \/ ReadRetry(v) \/ ReadFail(v)
          \/ ReadDone(v) \/ RefuseBytes(v) \/ Check(v) \/ Collide(v) \/ (\E c : Request(v, c))
          => UNCHANGED files
    BY DEF Acquire, ReadLstat, ReadOpen, ReadFstat, ReadRetry, ReadFail, ReadDone, RefuseBytes,
           Check, Collide, Request
  <2> QED
    BY <1>1, <1>4, <2>1, <2>2, <2>3, <2>4, <2>5, <2>6, <2>7, <2>8 DEF StepOf, WorkerStep
<1>5. CASE External
  <2>1. ASSUME NEW e \in {Absent, Special}, NEW n \in {-1, 0}, Vacate(e, n) PROVE Ages(i)
    BY <2>1, <1>a, VacateAges
  <2>2. ASSUME NEW j \in Inodes, NEW n \in {-1, 1}, ChangeInode(j, Relinked(j, n)), UNCHANGED entry
        PROVE  Ages(i)
    BY <2>2, <1>a, ChangeAges
  <2>3. Away \cup ({entry} \cap Inodes) \subseteq Inodes
    BY DEF Away
  <2> QED
    BY <1>5, <2>1, <2>2, <2>3, <1>3, <1>a, CreateAges, ComeBackAges DEF External
<1>6. CASE ServerExit
  <2>1. inode'[i].stamp = inode[i].stamp /\ inode'[i].bytes = inode[i].bytes
    BY <1>6, <1>a DEF ServerExit, FilesOK, InodeType
  <2> QED
    BY <1>6, <2>1, <1>a, SameAges DEF ServerExit
<1> QED
  BY <1>1, <1>4, <1>5, <1>6 DEF Next, StepOf, vars


-----------------------------------------------------------------------------
(* What becomes of tokens *)

\* The file a token names has at least the token's stamp, and if it has it
\* still it is not at the path, so that the token never names the path again.
Known(t) == t.stamp <= inode[t.ino].stamp
Superseded(t) == Known(t) /\ (t.stamp = inode[t.ino].stamp => t.ino # entry)

\* No confirmed save used token t, or any token of file i with stamp s or later.
Unspent(t) == \A x \in saved : x.exp # t
SpentBefore(i, s) == \A x \in saved : x.exp # Missing /\ x.exp.ino = i => x.exp.stamp < s

Verifying(w) == pc[w] \in Reading /\ ret[w] = "verify" /\ call[w].exp # Missing

\* A spent token does not name the path's state, and never will again.
HistoryOK ==
  /\ \A r \in issued : Known(r)
  /\ \A x \in saved : x.exp # Missing => Superseded(x.exp)
  /\ OneWinner

\* A sample taken to be compared is later than every spent token of its file;
\* from the comparison on, a conditional write has a token nobody has spent;
\* after its rename that token does not name the path's state.
Remembers(w) ==
  /\ call[w].exp # Missing => Known(call[w].exp)
  /\ pc[w] = "reading" => Known(sample[w])
  /\ pc[w] = "fstat" /\ ret[w] = "compare" => SpentBefore(sample[w].ino, inode[sample[w].ino].stamp)
  /\ pc[w] = "reading" /\ ret[w] = "compare" => SpentBefore(sample[w].ino, sample[w].stamp)
  /\ pc[w] = "publish" /\ call[w].exp # Missing => Unspent(call[w].exp)
  /\ Verifying(w) => Unspent(call[w].exp) /\ Superseded(call[w].exp)
  /\ pc[w] = "unlink" => call[w].exp = Missing

HistoryInv == HistoryOK /\ \A w \in Workers : Remembers(w)

LEMMA TokenFields ==
  ASSUME NEW t \in Tokens, t # Missing
  PROVE  t.ino \in Inodes /\ t.stamp \in Nat
BY DEF Tokens, Revision

LEMMA Stamps ==
  ASSUME TypeInv, NEW i \in Inodes
  PROVE  inode[i].stamp \in Nat
BY DEF TypeInv, FilesOK, InodeType

LEMMA StampsThen ==
  ASSUME TypeInv', NEW i \in Inodes
  PROVE  inode'[i].stamp \in Nat
<1>1. inode'[i] \in InodeType
  BY DEF TypeInv, FilesOK, Inodes, MaxInodes
<1> QED
  BY <1>1 DEF InodeType

\* Files age, so that what is known of a token stays true.
LEMMA StaysKnown ==
  ASSUME TypeInv, TypeInv', NEW t \in Tokens, t # Missing, Ages(t.ino)
  PROVE  /\ Known(t) => t.stamp <= inode'[t.ino].stamp
         /\ Superseded(t) => (t.stamp = inode'[t.ino].stamp => t.ino # entry')
<1>1. t.stamp \in Nat /\ inode[t.ino].stamp \in Nat /\ inode'[t.ino].stamp \in Nat
  BY TokenFields, Stamps, StampsThen
<1> QED
  BY <1>1 DEF Known, Superseded, Ages

LEMMA HistoryInit == Init => HistoryInv
<1> SUFFICES ASSUME Init PROVE HistoryInv
  OBVIOUS
<1>1. \A r \in issued : Known(r)
  <2>1. SUFFICES ASSUME NEW r \in issued PROVE Known(r)
    OBVIOUS
  <2>2. r = Current /\ r \in Revision
    BY DEF Init
  <2>3. r = RevisionOf(r.ino) /\ r.stamp \in Nat
    BY <2>2, ConstantFacts DEF Current, RevisionOf, Revision
  <2> QED
    BY <2>3 DEF Known, RevisionOf
<1>2. HistoryOK
  BY <1>1 DEF Init, HistoryOK, OneWinner
<1>3. \A w \in Workers : Remembers(w)
  BY DEF Init, Remembers, Verifying, NoCall, Reading
<1> QED
  BY <1>2, <1>3 DEF HistoryInv

\* What a step of v adds to the history: a reply carries v's sample, and only
\* a verified save is confirmed.
Adds(v) ==
  /\ issued \subseteq issued' /\ saved \subseteq saved'
  /\ \A r \in issued' \ issued :
       pc[v] = "reading" /\ r.ino = sample[v].ino /\ r.stamp = sample[v].stamp
  /\ \A x \in saved' \ saved : pc[v] = "reading" /\ ret[v] = "verify" /\ x.exp = call[v].exp
  /\ \A x, y \in saved' \ saved : x = y
  /\ Record

LEMMA StepAdds ==
  ASSUME TypeInv, NEW v \in Workers, StepOf(v)
  PROVE  Adds(v)
<1> USE DEF bounds, files
<1>1. Silent => Adds(v)
  BY DEF Silent, Adds
<1>2. ASSUME NEW code, Fail(v, code) PROVE Adds(v)
  BY <1>2, ConstantFacts DEF Fail, Answer, Finish, Adds
<1>3. \A c : Request(v, c) => Silent
  BY DEF Request
<1>4. Acquire(v) \/ ReadRetry(v) \/ WriteTemp(v) \/ PublishLink(v) \/ UnlinkTemp(v) => Silent
  BY DEF Acquire, ReadRetry, WriteTemp, PublishLink, UnlinkTemp, Continue, StartRead
<1>a. CASE ReadLstat(v) \/ ReadOpen(v) \/ ReadFstat(v)
  BY <1>a, <1>1, <1>2 DEF ReadLstat, ReadOpen, ReadFstat, Continue
<1>5. CASE ReadFail(v) \/ RefuseBytes(v) \/ Check(v) \/ PublishRename(v) \/ Collide(v)
  BY <1>5, <1>1, <1>2
     DEF ReadFail, RefuseBytes, Check, PublishRename, Collide, Continue, StartRead
<1>6. CASE IoFailure(v) \/ CreateOpen(v)
  BY <1>6, <1>1, <1>2 DEF IoFailure, CreateOpen
<1>7. CASE CreateFill(v) \/ MutateEntry(v)
  <2>1. Answer(v, "done", Missing) \/ Fail(v, "io")
    BY <1>7 DEF CreateFill, MutateEntry
  <2> QED
    BY <2>1, <1>2, ConstantFacts DEF Answer, Finish, Adds
<1>8. CASE ReadDone(v)
  <2>1. PICK b : Resume(v, [sample[v] EXCEPT !.bytes = b])
    BY <1>8 DEF ReadDone
  <2> DEFINE rev == [sample[v] EXCEPT !.bytes = b]
  <2>2. pc[v] = "reading" /\ sample[v] \in Revision
    BY <1>8 DEF ReadDone, TypeInv, WorkInv, FrameInv
  <2>3. rev.ino = sample[v].ino /\ rev.stamp = sample[v].stamp
    BY <2>2 DEF Revision
  <2> HIDE DEF rev
  <2>4. ASSUME NEW kind, Answer(v, kind, rev) PROVE Adds(v)
    BY <2>2, <2>3, <2>4 DEF Answer, Finish, Adds
  <2>5. CASE ret[v] = "verify" /\ Finish(v, "ok", rev)
             /\ saved' = saved \cup {[exp |-> call[v].exp, rev |-> rev]}
    BY <2>2, <2>3, <2>5 DEF Finish, Adds
  <2> QED
    BY <2>1, <2>4, <2>5, <1>1 DEF Resume, rev, Continue
<1> QED
  BY <1>1, <1>3, <1>4, <1>a, <1>5, <1>6, <1>7, <1>8 DEF StepOf, WorkerStep

\* What keeps HistoryOK: files age, replies carry tokens that are known, and
\* one save at most is confirmed, with a token that is superseded and unspent.
LEMMA HistoryGrows ==
  ASSUME TypeInv, TypeInv', HistoryOK, \A i \in Inodes : Ages(i),
         \A r \in issued' \ issued : Known(r),
         \A x \in saved' \ saved : x.exp # Missing => Superseded(x.exp) /\ Unspent(x.exp),
         \A x, y \in saved' \ saved : x = y
  PROVE  HistoryOK'
<1>1. (\A r \in issued : Known(r))'
  <2>1. SUFFICES ASSUME NEW r \in issued' PROVE r.stamp <= inode'[r.ino].stamp
    BY DEF Known
  <2>2. Known(r)
    BY DEF HistoryOK
  <2>3. r \in Tokens /\ r # Missing /\ r.ino \in Inodes
    <3>1. r \in Revision
      BY DEF TypeInv, WorkInv, WorkOK, Revision, Inodes, MaxInodes, Bytes
    <3> QED
      BY <3>1, ConstantFacts DEF Revision
  <2> QED
    BY <2>2, <2>3, StaysKnown
<1>2. (\A x \in saved : x.exp # Missing => Superseded(x.exp))'
  <2>1. SUFFICES ASSUME NEW x \in saved', x.exp # Missing
                 PROVE  x.exp.stamp <= inode'[x.exp.ino].stamp
                        /\ (x.exp.stamp = inode'[x.exp.ino].stamp => x.exp.ino # entry')
    BY DEF Known, Superseded, Missing
  <2>2. Superseded(x.exp) /\ Known(x.exp)
    BY <2>1 DEF HistoryOK, Superseded
  <2>3. x.exp \in Tokens
    BY DEF TypeInv, WorkInv, WorkOK, Tokens, Missing, Revision, Inodes, MaxInodes, Bytes
  <2>4. x.exp.ino \in Inodes
    BY <2>1, <2>3, TokenFields
  <2> QED
    BY <2>1, <2>2, <2>3, <2>4, StaysKnown
<1>3. OneWinner'
  <2>1. SUFFICES ASSUME NEW x \in saved', NEW y \in saved', x.exp = y.exp, x.exp # Missing
                 PROVE  x = y
    BY DEF OneWinner, Missing
  <2>2. ASSUME NEW z \in saved' \ saved, z.exp # Missing, NEW o \in saved, o.exp = z.exp
        PROVE  FALSE
    BY <2>2 DEF Unspent
  <2>3. CASE x \in saved /\ y \in saved
    BY <2>1, <2>3 DEF HistoryOK, OneWinner
  <2> QED
    BY <2>1, <2>2, <2>3
<1> QED
  BY <1>1, <1>2, <1>3 DEF HistoryOK

LEMMA HistoryStep ==
  ASSUME FineClock, TypeInv, TypeInv', HistoryInv, NEW v \in Workers, StepOf(v)
  PROVE  HistoryOK'
<1>1. Adds(v) /\ HistoryOK /\ Remembers(v)
  BY StepAdds DEF HistoryInv
<1>2. \A i \in Inodes : Ages(i)
  BY FilesAge DEF Next, StepOf
<1>3. \A r \in issued' \ issued : Known(r)
  BY <1>1 DEF Adds, Remembers, Known
<1>4. \A x \in saved' \ saved : x.exp # Missing => Superseded(x.exp) /\ Unspent(x.exp)
  BY <1>1 DEF Adds, Remembers, Verifying, Reading
<1> QED
  BY <1>1, <1>2, <1>3, <1>4, HistoryGrows DEF Adds

\* An external change and the end of the process confirm nothing.
LEMMA HistoryQuiet ==
  ASSUME FineClock, TypeInv, TypeInv', HistoryOK, External \/ ServerExit
  PROVE  HistoryOK' /\ Silent
<1>1. Silent
  BY DEF External, ServerExit
<1>2. \A i \in Inodes : Ages(i)
  BY FilesAge DEF Next
<1> QED
  BY <1>1, <1>2, HistoryGrows DEF Silent

\* What a worker remembers stays true while its frame and the confirmed saves
\* stay as they are, and files age.
LEMMA FrameRemembers ==
  ASSUME TypeInv, TypeInv', \A i \in Inodes : Ages(i), NEW w \in Workers, Remembers(w),
         pc'[w] = pc[w], call'[w] = call[w], sample'[w] = sample[w], ret'[w] = ret[w],
         saved' = saved \/ ~InSection(w)
  PROVE  Remembers(w)'
<1>a. WorkOK /\ FrameInv
  BY DEF TypeInv, WorkInv
<1>b. call[w].exp \in Tokens
  BY <1>a DEF WorkOK, Calls
<1>1. ASSUME call[w].exp # Missing
      PROVE  /\ call[w].exp.stamp <= inode'[call[w].exp.ino].stamp
             /\ Superseded(call[w].exp) =>
                  (call[w].exp.stamp = inode'[call[w].exp.ino].stamp => call[w].exp.ino # entry')
  BY <1>1, <1>b, TokenFields, StaysKnown DEF Remembers
<1>2. ASSUME pc[w] = "reading" PROVE sample[w].stamp <= inode'[sample[w].ino].stamp
  <2>1. sample[w] \in Tokens /\ sample[w] # Missing
    BY <1>2, <1>a, ConstantFacts DEF FrameInv
  <2> QED
    BY <1>2, <2>1, TokenFields, StaysKnown DEF Remembers
<1>3. ASSUME pc[w] \in Reading, ret[w] # "reply" PROVE saved' = saved
  BY <1>3, <1>a DEF FrameInv, InSection
<1>4. ASSUME pc[w] = "publish" PROVE saved' = saved
  BY <1>4 DEF InSection
<1>5. ASSUME pc[w] = "fstat", ret[w] = "compare"
      PROVE  SpentBefore(sample[w].ino, inode[sample[w].ino].stamp)'
  <2>1. sample[w].ino \in Inodes
    BY <1>5, <1>a DEF FrameInv, Revision
  <2>2. inode'[sample[w].ino].stamp >= inode[sample[w].ino].stamp
    BY <2>1 DEF Ages
  <2>3. SUFFICES ASSUME NEW x \in saved, x.exp # Missing, x.exp.ino = sample[w].ino
                 PROVE  x.exp.stamp < inode'[sample[w].ino].stamp
    BY <1>3, <1>5 DEF SpentBefore, Reading, Missing
  <2>4. x.exp.stamp < inode[sample[w].ino].stamp
    BY <1>5, <2>3 DEF Remembers, SpentBefore
  <2>5. x.exp.stamp \in Nat
    BY <2>3, TokenFields, <1>a DEF WorkOK
  <2> QED
    BY <2>1, <2>2, <2>4, <2>5, Stamps, StampsThen
<1>6. ASSUME pc[w] = "reading", ret[w] = "compare"
      PROVE  SpentBefore(sample[w].ino, sample[w].stamp)'
  BY <1>3, <1>6 DEF Remembers, SpentBefore, Reading, Missing
<1>7. ASSUME pc[w] = "publish", call[w].exp # Missing PROVE Unspent(call[w].exp)'
  BY <1>4, <1>7 DEF Remembers, Unspent
<1>8. ASSUME Verifying(w)
      PROVE  Unspent(call[w].exp)' /\ Superseded(call[w].exp)'
  BY <1>1, <1>3, <1>8 DEF Remembers, Verifying, Unspent, Superseded, Known
<1>9. pc[w] = "unlink" => call[w].exp = Missing
  BY DEF Remembers
<1>10. Verifying(w)' <=> Verifying(w)
  BY DEF Verifying, Missing
<1> QED
  BY <1>1, <1>2, <1>5, <1>6, <1>7, <1>8, <1>9, <1>10 DEF Remembers, Known, Missing

\* A worker that replies has nothing to remember.
LEMMA FinishRemembers ==
  ASSUME WorkOK, NEW v \in Workers, NEW kind, NEW rev, Finish(v, kind, rev)
  PROVE  Remembers(v)'
BY DEF WorkOK, Finish, Goto, Remembers, Verifying, Reading, NoCall, Missing

\* Where a worker goes on with the same call, only its new label asks for more.
LEMMA GoesOn ==
  ASSUME TypeInv, TypeInv', \A i \in Inodes : Ages(i), NEW v \in Workers, Remembers(v),
         UNCHANGED call, pc'[v] \notin {"reading", "fstat", "publish", "unlink"},
         ~Verifying(v)'
  PROVE  Remembers(v)'
<1>1. call[v].exp \in Tokens
  BY DEF TypeInv, WorkInv, WorkOK, Calls
<1>2. call[v].exp # Missing => call[v].exp.stamp <= inode'[call[v].exp.ino].stamp
  BY <1>1, TokenFields, StaysKnown DEF Remembers
<1> QED
  BY <1>2 DEF Remembers, Known, Missing

\* A worker's step preserves what it remembers itself.
LEMMA MoverRemembers ==
  ASSUME FineClock, TypeInv, TypeInv', HistoryInv, NEW v \in Workers, StepOf(v)
  PROVE  Remembers(v)'
<1> USE DEF bounds, files
<1>a. WorkOK /\ FrameInv /\ FilesOK /\ HistoryOK /\ Remembers(v)
  BY DEF TypeInv, WorkInv, HistoryInv
<1>b. \A i \in Inodes : Ages(i)
  BY FilesAge DEF Next, StepOf
<1>c. call[v].exp \in Tokens
  BY <1>a DEF WorkOK, Calls
<1>1. ASSUME NEW kind, NEW rev, Finish(v, kind, rev) PROVE Remembers(v)'
  BY <1>1, <1>a, FinishRemembers
<1>2. ASSUME NEW kind, NEW rev, Answer(v, kind, rev) PROVE Remembers(v)'
  BY <1>2, <1>1 DEF Answer
<1>3. ASSUME NEW code, Fail(v, code) PROVE Remembers(v)'
  BY <1>3, <1>2 DEF Fail
<1>4. ASSUME NEW label \in {"temp", "check", "collide"}, Continue(v, label) PROVE Remembers(v)'
  <2>1. UNCHANGED call /\ pc'[v] = label
    BY <1>4, <1>a DEF Continue, Goto, WorkOK
  <2> QED
    BY <2>1, <1>a, <1>b, GoesOn DEF Verifying, Reading
<1>5. ASSUME NEW then \in {"compare", "appeared"}, StartRead(v, then) PROVE Remembers(v)'
  <2>1. UNCHANGED call /\ pc'[v] = "lstat" /\ ret'[v] = then
    BY <1>5, <1>a DEF StartRead, Goto, WorkOK
  <2> QED
    BY <2>1, <1>a, <1>b, GoesOn DEF Verifying
\* The read goes on: the files, the call and what follows the read stay.
<1>6. ASSUME NEW label \in {"lstat", "open"}, Goto(v, label), pc[v] \in Reading,
             UNCHANGED <<files, call, ret, saved>>
      PROVE  Remembers(v)'
  <2>1. pc'[v] = label
    BY <1>6, <1>a DEF Goto, WorkOK
  <2>2. Verifying(v)' => Verifying(v)
    BY <1>6 DEF Verifying, Missing
  <2> QED
    BY <1>6, <2>1, <2>2, <1>a DEF Remembers, Known, Superseded, Unspent, Missing
<1>7. ASSUME Continue(v, "publish"), UNCHANGED files, call[v].exp # Missing => Unspent(call[v].exp)
      PROVE  Remembers(v)'
  BY <1>7, <1>a
     DEF Continue, Goto, Silent, WorkOK, Remembers, Known, Unspent, Verifying, Reading, Missing
<1>8. ASSUME NEW c \in Requests, Request(v, c) PROVE Remembers(v)'
  <2>1. c.exp # Missing => Known(c.exp)
    BY <1>a DEF Requests, HistoryOK
  <2>2. call'[v] = c /\ pc'[v] \in {"lstat", "lock"} /\ ret'[v] = "reply" /\ UNCHANGED files
    BY <1>8, <1>a DEF Request, Goto, WorkOK, FrameInv
  <2> QED
    BY <2>1, <2>2 DEF Remembers, Known, Verifying, Missing
<1>9. CASE Acquire(v)
  <2>1. UNCHANGED call /\ pc'[v] \in {"check", "create", "mutate"}
    BY <1>9, <1>a DEF Acquire, FirstStep, Goto, WorkOK
  <2> QED
    BY <2>1, <1>a, <1>b, GoesOn DEF Verifying, Reading
<1>d. CASE ReadLstat(v)
  BY <1>d, <1>3, <1>6 DEF ReadLstat, Continue, Silent, Reading
<1>10. CASE ReadOpen(v)
  <2>1. ASSUME NEW code, Fail(v, code) PROVE Remembers(v)'
    BY <2>1, <1>3
  <2>2. CASE /\ entry \in Inodes
             /\ sample' = [sample EXCEPT ![v] = Opened(entry)]
             /\ Goto(v, "fstat")
             /\ Silent
             /\ UNCHANGED <<lock, call, tries, ret, temp>>
    <3>1. sample'[v].ino = entry /\ pc'[v] = "fstat" /\ pc[v] = "open" /\ UNCHANGED files
      BY <1>10, <2>2, <1>a DEF ReadOpen, WorkOK, Opened, Goto
    <3>2. \A x \in saved : x.exp # Missing /\ x.exp.ino = entry => x.exp.stamp < inode[entry].stamp
      <4>1. SUFFICES ASSUME NEW x \in saved, x.exp # Missing, x.exp.ino = entry
                     PROVE  x.exp.stamp < inode[entry].stamp
        OBVIOUS
      <4>2. x.exp.stamp <= inode[entry].stamp /\ x.exp.stamp # inode[entry].stamp
        BY <4>1, <1>a DEF HistoryOK, Superseded, Known
      <4>3. x.exp.stamp \in Nat /\ inode[entry].stamp \in Nat
        BY <2>2, <4>1, <1>a, TokenFields, Stamps DEF WorkOK
      <4> QED
        BY <4>2, <4>3
    <3>3. Verifying(v)' => Verifying(v)
      BY <2>2, <3>1 DEF Verifying, Reading, Missing
    <3> QED
      BY <2>2, <3>1, <3>2, <3>3, <1>a
         DEF Silent, Remembers, Known, Superseded, Unspent, SpentBefore, Missing
  <2> QED
    BY <1>10, <2>1, <2>2 DEF ReadOpen
<1>e. CASE ReadFstat(v)
  <2>1. CASE Fail(v, "unsupported_file_type")
    BY <2>1, <1>3
  <2>2. CASE /\ sample' = [sample EXCEPT ![v] = RevisionOf(sample[v].ino)]
             /\ Goto(v, "reading")
             /\ Silent
             /\ UNCHANGED <<lock, call, ret, temp>>
    <3>1. sample[v].ino \in Inodes /\ pc'[v] = "reading" /\ pc[v] = "fstat" /\ UNCHANGED files
      BY <1>e, <2>2, <1>a DEF ReadFstat, FrameInv, Revision, WorkOK, Goto
    <3>2. sample'[v].ino = sample[v].ino /\ sample'[v].stamp = inode[sample[v].ino].stamp
      BY <2>2, <1>a DEF WorkOK, RevisionOf
    <3>3. inode[sample[v].ino].stamp \in Nat
      BY <3>1, Stamps
    <3>4. Verifying(v)' => Verifying(v)
      BY <2>2, <3>1 DEF Verifying, Reading, Missing
    <3> QED
      BY <2>2, <3>1, <3>2, <3>3, <3>4, <1>a
         DEF Silent, Remembers, Known, Superseded, Unspent, SpentBefore, Missing
  <2> QED
    BY <1>e, <2>1, <2>2 DEF ReadFstat
<1>11. CASE ReadRetry(v)
  BY <1>11, <1>6 DEF ReadRetry, Continue, Silent, Reading
<1>12. CASE ReadFail(v)
  BY <1>12, <1>3 DEF ReadFail
<1>13. CASE ReadDone(v)
  <2>1. PICK b \in ReadBytes(v) : Resume(v, [sample[v] EXCEPT !.bytes = b])
    BY <1>13 DEF ReadDone
  <2> DEFINE rev == [sample[v] EXCEPT !.bytes = b]
  <2>2. CASE ret[v] = "compare" /\ SameRevision(rev, call[v].exp)
             /\ Continue(v, IF temp[v] = Absent THEN "temp" ELSE "publish")
             /\ UNCHANGED temp
    <3>1. pc[v] = "reading" /\ sample[v] \in Revision /\ UNCHANGED files
      BY <1>13, <1>a DEF ReadDone, FrameInv
    <3>2. call[v].exp.ino = sample[v].ino /\ call[v].exp.stamp = sample[v].stamp
      BY <2>2, <3>1 DEF SameRevision, Revision
    <3>3. call[v].exp # Missing => Unspent(call[v].exp)
      <4>1. SUFFICES ASSUME call[v].exp # Missing, NEW x \in saved, x.exp = call[v].exp PROVE FALSE
        BY DEF Unspent
      <4>2. x.exp.stamp < x.exp.stamp
        BY <2>2, <3>1, <3>2, <4>1, <1>a DEF Remembers, SpentBefore
      <4>3. x.exp.stamp \in Nat
        BY <4>1, <1>c, TokenFields
      <4> QED
        BY <4>2, <4>3
    <3> QED
      BY <2>2, <3>1, <3>3, <1>4, <1>7
  <2> QED
    BY <2>1, <2>2, <1>1, <1>2 DEF Resume
<1>14. CASE RefuseBytes(v)
  BY <1>14, <1>3 DEF RefuseBytes
<1>15. CASE Check(v)
  <2>1. CASE /\ call[v].exp = Missing
             /\ Continue(v, IF temp[v] = Absent THEN "temp" ELSE "publish")
    BY <1>15, <2>1, <1>4, <1>7 DEF Check
  <2>2. ASSUME NEW then \in {"compare", "appeared"}, StartRead(v, then) PROVE Remembers(v)'
    BY <2>2, <1>5
  <2> QED
    BY <1>15, <2>1, <2>2, <1>3 DEF Check
<1>16. CASE WriteTemp(v)
  BY <1>16, <1>4 DEF WriteTemp
<1>17. CASE PublishRename(v)
  <2>1. CASE /\ Point(temp[v], Relinked(temp[v], 1), -1)
             /\ temp' = [temp EXCEPT ![v] = Absent]
             /\ StartRead(v, "verify")
    <3>1. pc'[v] = "lstat" /\ UNCHANGED <<call, saved>> /\ entry' = temp[v]
      BY <2>1, <1>a DEF WorkOK, StartRead, Goto, Silent, Point
    <3>2. pc[v] = "publish" /\ call[v].exp # Missing /\ temp[v] \in Inodes
      BY <1>17, <1>a DEF PublishRename, FrameInv
    <3>3. Known(call[v].exp) /\ Unspent(call[v].exp)
      BY <3>2, <1>a DEF Remembers
    <3>4. call[v].exp.ino \in Inodes /\ call[v].exp.stamp \in Nat
      BY <3>2, <1>c, TokenFields
    <3>5. /\ call[v].exp.stamp <= inode'[call[v].exp.ino].stamp
          /\ call[v].exp.stamp = inode'[call[v].exp.ino].stamp => call[v].exp.ino # entry'
      <4>1. /\ inode'[call[v].exp.ino].stamp >= inode[call[v].exp.ino].stamp
            /\ call[v].exp.ino = temp[v] =>
                 inode'[call[v].exp.ino].stamp > inode[call[v].exp.ino].stamp
        BY <2>1, <3>2, <3>4, <1>a, PublishAges DEF Ages
      <4>2. inode[call[v].exp.ino].stamp \in Nat /\ inode'[call[v].exp.ino].stamp \in Nat
        BY <3>4, Stamps, StampsThen
      <4> QED
        BY <3>1, <3>3, <3>4, <4>1, <4>2 DEF Known
    <3> QED
      BY <3>1, <3>2, <3>3, <3>5 DEF Remembers, Known, Superseded, Unspent, Missing
  <2> QED
    BY <1>17, <2>1, <1>3 DEF PublishRename
<1>18. CASE PublishLink(v)
  <2>1. CASE Continue(v, "unlink")
    BY <1>18, <2>1, <1>a
       DEF PublishLink, Continue, Goto, WorkOK, Remembers, Verifying, Reading, Missing
  <2> QED
    BY <1>18, <2>1, <1>4 DEF PublishLink
<1>19. CASE Collide(v)
  BY <1>19, <1>3, <1>5 DEF Collide
<1>20. CASE UnlinkTemp(v)
  <2>1. call[v].exp = Missing /\ UNCHANGED call /\ pc'[v] = "lstat"
    BY <1>20, <1>a DEF UnlinkTemp, Remembers, StartRead, Goto, WorkOK
  <2> QED
    BY <2>1, <1>a, <1>b, GoesOn DEF Verifying, Missing
<1>21. CASE IoFailure(v)
  BY <1>21, <1>3 DEF IoFailure
<1>22. CASE CreateOpen(v)
  <2>1. CASE Goto(v, "fill") /\ UNCHANGED call
    <3>1. pc'[v] = "fill"
      BY <2>1, <1>a DEF Goto, WorkOK
    <3> QED
      BY <2>1, <3>1, <1>a, <1>b, GoesOn DEF Verifying, Reading
  <2> QED
    BY <1>22, <2>1, <1>3 DEF CreateOpen
<1>23. CASE CreateFill(v) \/ MutateEntry(v)
  BY <1>23, <1>2, <1>3 DEF CreateFill, MutateEntry
<1> QED
  BY <1>8, <1>9, <1>d, <1>10, <1>e, <1>11, <1>12, <1>13, <1>14, <1>15, <1>16, <1>17, <1>18,
     <1>19, <1>20, <1>21, <1>22, <1>23 DEF StepOf, WorkerStep

\* A worker that compares or publishes holds the lock, so that no other
\* worker confirms a save under it.
LEMMA OthersRemember ==
  ASSUME FineClock, TypeInv, TypeInv', SectionInv, HistoryInv, NEW v \in Workers, StepOf(v),
         NEW w \in Workers \ {v}
  PROVE  Remembers(w)'
<1>1. Spares(v, w) /\ Adds(v) /\ Remembers(w) /\ Relies(v) /\ Relies(w)
  BY StepSpares, StepAdds DEF HistoryInv, SectionInv
<1>2. \A i \in Inodes : Ages(i)
  BY FilesAge DEF Next, StepOf
<1>3. ASSUME InSection(w) PROVE saved' = saved
  <2>1. ~InSection(v)
    BY <1>1, <1>3 DEF Relies
  <2>2. ~(pc[v] = "reading" /\ ret[v] = "verify")
    BY <2>1 DEF InSection, Reading, TypeInv, WorkInv, FrameInv
  <2> QED
    BY <1>1, <2>2 DEF Adds
<1> QED
  BY <1>1, <1>2, <1>3, FrameRemembers DEF Spares

LEMMA QuietRemembers ==
  ASSUME FineClock, TypeInv, TypeInv', HistoryInv, External \/ ServerExit, NEW w \in Workers
  PROVE  Remembers(w)'
<1>1. CASE ServerExit
  BY <1>1 DEF ServerExit, Remembers, Verifying, Reading, NoCall, Missing
<1>2. CASE External
  <2>1. UNCHANGED <<pc, call, sample, ret, saved>> /\ Remembers(w)
    BY <1>2 DEF External, Silent, HistoryInv
  <2>2. \A i \in Inodes : Ages(i)
    BY <1>2, FilesAge DEF Next
  <2> QED
    BY <2>1, <2>2, FrameRemembers
<1> QED
  BY <1>1, <1>2

LEMMA HistoryNext ==
  ASSUME FineClock
  PROVE  TypeInv /\ TypeInv' /\ SectionInv /\ HistoryInv /\ [Next]_vars => HistoryInv'
<1> SUFFICES ASSUME TypeInv, TypeInv', SectionInv, HistoryInv, [Next]_vars PROVE HistoryInv'
  OBVIOUS
<1>1. ASSUME NEW v \in Workers, StepOf(v) PROVE HistoryInv'
  BY <1>1, HistoryStep, MoverRemembers, OthersRemember DEF HistoryInv
<1>2. CASE External \/ ServerExit
  BY <1>2, HistoryQuiet, QuietRemembers DEF HistoryInv
<1>3. CASE UNCHANGED vars
  BY <1>3 DEF vars, files, HistoryInv, HistoryOK, OneWinner, Remembers, Verifying, Known, Superseded,
       Unspent, SpentBefore, Missing
<1> QED
  BY <1>1, <1>2, <1>3 DEF Next, StepOf

\* With a clock that shows every change of a file in its metadata, and for any
\* number of workers, contents, outside changes, faults and restarts: of all
\* conditional writes that expect one revision of an existing file at most one
\* is confirmed.  The revision's file may return to the path, and so may its
\* number, but with a later stamp.
THEOREM TokensWinOnce ==
  ASSUME FineClock
  PROVE  Spec => []OneWinner
<1>1. HistoryInv => OneWinner
  BY DEF HistoryInv, HistoryOK
<1>2. TypeInv /\ TypeInv' /\ SectionInv /\ HistoryInv /\ [Next]_vars => HistoryInv'
  BY HistoryNext
<1> QED
  BY <1>1, <1>2, TypeInit, TypeNext, SectionInit, SectionNext, HistoryInit, PTL DEF Spec

-----------------------------------------------------------------------------
(* Tokens are real *)

\* What an open descriptor shows is recorded, the first sample of a read was
\* recorded, and a change of the file since then shows in its stamp.
Sampled(w) ==
  /\ pc[w] = "fstat" => RevisionOf(sample[w].ino) \in past
  /\ pc[w] = "reading" =>
       /\ sample[w] \in past
       /\ sample[w].stamp <= inode[sample[w].ino].stamp
       /\ Stable(w) => sample[w].bytes = inode[sample[w].ino].bytes

RealInv == TokensAreReal /\ \A w \in Workers : Sampled(w)

\* A recorded step records the files that are open.
LEMMA RecordOpen ==
  ASSUME Record, NEW w \in Workers, pc[w] = "fstat", NEW i, i = sample[w].ino
  PROVE  [ino |-> i, stamp |-> inode'[i].stamp, bytes |-> inode'[i].bytes] \in past'
<1>1. i \in OpenFiles
  BY DEF OpenFiles
<1> QED
  BY <1>1 DEF Record, RevisionOf

\* A sample stays recorded, and stays comparable, as the file ages.
LEMMA SampledStays ==
  ASSUME TypeInv, TypeInv', NEW w \in Workers, Sampled(w),
         pc'[w] = pc[w], sample'[w] = sample[w], Record, \A i \in Inodes : Ages(i)
  PROVE  Sampled(w)'
<1>1. ASSUME pc[w] = "fstat"
      PROVE  [ino |-> sample[w].ino, stamp |-> inode'[sample[w].ino].stamp,
              bytes |-> inode'[sample[w].ino].bytes] \in past'
  BY <1>1, RecordOpen
<1>2. ASSUME pc[w] = "reading"
      PROVE  /\ sample[w] \in past'
             /\ sample[w].stamp <= inode'[sample[w].ino].stamp
             /\ inode'[sample[w].ino].stamp = sample[w].stamp
                  => sample[w].bytes = inode'[sample[w].ino].bytes
  <2> DEFINE i == sample[w].ino
  <2>1. sample[w] \in Revision /\ sample[w] \in past
    BY <1>2 DEF TypeInv, WorkInv, FrameInv, Sampled
  <2>2. i \in Inodes /\ sample[w].stamp \in Nat
    BY <2>1 DEF Revision
  <2>3. inode[i].stamp \in Nat /\ inode'[i].stamp \in Nat
    BY <2>2, Stamps, StampsThen
  <2>4. Ages(i)
    BY <2>2
  <2>5. sample[w] \in past'
    BY <2>1 DEF Record
  <2> QED
    BY <1>2, <2>2, <2>3, <2>4, <2>5 DEF Sampled, Stable, Ages
<1> QED
  BY <1>1, <1>2 DEF Sampled, Stable, RevisionOf

\* Worker v's step hands out the bytes of an unchanged file with its sample.
LEMMA IssuesSample ==
  ASSUME TypeInv, NEW v \in Workers, StepOf(v), Sampled(v), NEW r \in issued' \ issued
  PROVE  r \in past
<1>1. pc[v] = "reading"
  BY StepAdds DEF Adds
<1>2. ReadRetry(v) \/ ReadFail(v) \/ ReadDone(v)
  BY <1>1 DEF StepOf, WorkerStep, Request, Acquire, ReadLstat, ReadOpen, ReadFstat, RefuseBytes, Check,
       WriteTemp, PublishRename, PublishLink, Collide, UnlinkTemp, CreateOpen, CreateFill, MutateEntry,
       IoFailure
<1>3. ~ReadRetry(v)
  BY DEF ReadRetry, Continue, Silent
<1>4. ~ReadFail(v)
  BY ConstantFacts DEF ReadFail, Fail, Answer, Finish
<1>5. PICK b \in ReadBytes(v) : Stable(v) /\ Resume(v, [sample[v] EXCEPT !.bytes = b])
  BY <1>2, <1>3, <1>4 DEF ReadDone
<1>6. sample[v] \in past /\ sample[v] \in Revision
  BY <1>1 DEF Sampled, TypeInv, WorkInv, FrameInv
<1>7. b = sample[v].bytes
  BY <1>1, <1>5 DEF Sampled, ReadBytes
<1>8. [sample[v] EXCEPT !.bytes = b] = sample[v]
  BY <1>6, <1>7 DEF Revision
<1> QED
  BY <1>5, <1>6, <1>8 DEF Resume, Answer, Finish, Continue, Silent

LEMMA RealInit == Init => RealInv
<1> SUFFICES ASSUME Init PROVE RealInv
  OBVIOUS
<1> QED
  BY DEF Init, RealInv, TokensAreReal, Sampled

\* Only open and fstat lead into the labels that Sampled speaks of.
LEMMA OnlyOpenSamples ==
  ASSUME TypeInv, NEW v \in Workers, StepOf(v), ~ReadOpen(v), ~ReadFstat(v)
  PROVE  pc'[v] \notin {"fstat", "reading"}
<1>1. WorkOK
  BY DEF TypeInv, WorkInv
<1>2. \A kind, rev : Finish(v, kind, rev) => pc'[v] = "idle"
  BY <1>1 DEF Finish, Goto, WorkOK
<1>3. \A then : StartRead(v, then) => pc'[v] = "lstat"
  BY <1>1 DEF StartRead, Goto, WorkOK
<1>4. \A label : Continue(v, label) => pc'[v] = label
  BY <1>1 DEF Continue, Goto, WorkOK
<1>5. \A c : Request(v, c) => pc'[v] \in {"lstat", "lock"}
  BY <1>1 DEF Request, Goto, WorkOK
<1>6. Acquire(v) => pc'[v] \in {"check", "create", "mutate"}
  BY <1>1 DEF Acquire, FirstStep, Goto, WorkOK
<1>7. Goto(v, "fill") => pc'[v] = "fill"
  BY <1>1 DEF Goto, WorkOK
<1>8. ReadLstat(v) \/ ReadRetry(v) \/ ReadFail(v) \/ ReadDone(v) \/ RefuseBytes(v) \/ Check(v)
        => pc'[v] \notin {"fstat", "reading"}
  BY <1>2, <1>3, <1>4
     DEF ReadLstat, ReadRetry, ReadFail, ReadDone, Resume, RefuseBytes, Check, Answer, Fail
<1>9. WriteTemp(v) \/ PublishRename(v) \/ PublishLink(v) \/ Collide(v) \/ UnlinkTemp(v)
        \/ IoFailure(v) \/ CreateOpen(v) \/ CreateFill(v) \/ MutateEntry(v)
        => pc'[v] \notin {"fstat", "reading"}
  BY <1>2, <1>3, <1>4, <1>7
     DEF WriteTemp, PublishRename, PublishLink, Collide, UnlinkTemp, IoFailure, CreateOpen,
         CreateFill, MutateEntry, Answer, Fail
<1> QED
  BY <1>5, <1>6, <1>8, <1>9 DEF StepOf, WorkerStep

\* The steps that open a file and take its first sample.
LEMMA MoverSampled ==
  ASSUME TypeInv, NEW v \in Workers, StepOf(v), Record, Sampled(v)
  PROVE  Sampled(v)'
<1> USE DEF files, bounds
<1>a. WorkOK /\ FrameInv
  BY DEF TypeInv, WorkInv
<1>b. \A code : Fail(v, code) => pc'[v] = "idle"
  BY <1>a DEF Fail, Answer, Finish, Goto, WorkOK
<1>1. CASE ReadOpen(v)
  <2>1. CASE pc'[v] = "idle"
    BY <2>1 DEF Sampled
  <2>2. CASE entry \in Inodes /\ Goto(v, "fstat") /\ sample' = [sample EXCEPT ![v] = Opened(entry)]
    <3>1. pc'[v] = "fstat" /\ sample'[v].ino = entry' /\ entry' \in Inodes
      BY <1>1, <2>2, <1>a DEF ReadOpen, Opened, Goto, WorkOK
    <3>2. [ino |-> entry', stamp |-> inode'[entry'].stamp, bytes |-> inode'[entry'].bytes] \in past'
      BY <3>1 DEF Record, Current, RevisionOf, Inodes, MaxInodes
    <3> QED
      BY <3>1, <3>2 DEF Sampled, RevisionOf
  <2> QED
    BY <1>1, <1>b, <2>1, <2>2 DEF ReadOpen
<1>2. CASE ReadFstat(v)
  <2>1. CASE pc'[v] = "idle"
    BY <2>1 DEF Sampled
  <2>2. CASE Goto(v, "reading") /\ sample' = [sample EXCEPT ![v] = RevisionOf(sample[v].ino)]
    <3>1. pc'[v] = "reading" /\ sample'[v] = RevisionOf(sample[v].ino) /\ UNCHANGED files
      BY <1>2, <2>2, <1>a DEF ReadFstat, Goto, WorkOK
    <3>2. sample[v].ino \in Inodes /\ RevisionOf(sample[v].ino) \in past
      BY <1>2, <1>a DEF ReadFstat, FrameInv, Revision, Sampled
    <3>3. inode[sample[v].ino].stamp \in Nat
      BY <3>2, Stamps
    <3>4. /\ sample'[v].ino = sample[v].ino
          /\ sample'[v].stamp = inode[sample[v].ino].stamp
          /\ sample'[v].bytes = inode[sample[v].ino].bytes
      BY <3>1 DEF RevisionOf
    <3>5. sample'[v] \in past'
      BY <3>1, <3>2 DEF Record
    <3> QED
      BY <3>1, <3>3, <3>4, <3>5 DEF Sampled, Stable
  <2> QED
    BY <1>2, <1>b, <2>1, <2>2 DEF ReadFstat
<1>3. CASE ~ReadOpen(v) /\ ~ReadFstat(v)
  BY <1>3, OnlyOpenSamples DEF Sampled
<1> QED
  BY <1>1, <1>2, <1>3

LEMMA RealNext ==
  ASSUME FineClock
  PROVE  TypeInv /\ TypeInv' /\ RealInv /\ [Next]_vars => RealInv'
<1> SUFFICES ASSUME TypeInv, TypeInv', RealInv, [Next]_vars PROVE RealInv'
  OBVIOUS
<1>1. \A i \in Inodes : Ages(i)
  BY FilesAge
<1>2. ASSUME NEW v \in Workers, StepOf(v) PROVE RealInv'
  <2>1. Adds(v) /\ past \subseteq past' /\ Record
    BY <1>2, StepAdds DEF Adds, Record
  <2>2. TokensAreReal'
    BY <1>2, <2>1, IssuesSample DEF RealInv, TokensAreReal
  <2>3. ASSUME NEW w \in Workers \ {v} PROVE Sampled(w)'
    BY <1>1, <1>2, <2>1, <2>3, StepSpares, SampledStays DEF RealInv, Spares
  <2>4. Sampled(v)'
    BY <1>2, <2>1, MoverSampled DEF RealInv
  <2> QED
    BY <2>2, <2>3, <2>4 DEF RealInv
<1>3. CASE External
  <2>1. Silent /\ Record /\ UNCHANGED <<pc, sample>>
    BY <1>3 DEF External, Silent
  <2> QED
    BY <1>1, <2>1, SampledStays DEF RealInv, TokensAreReal, Silent, Record
<1>4. CASE ServerExit
  BY <1>4 DEF ServerExit, RealInv, TokensAreReal, Silent, Record, Sampled
<1>5. CASE UNCHANGED vars
  BY <1>5 DEF vars, files, RealInv, TokensAreReal, Sampled, Stable, RevisionOf
<1> QED
  BY <1>2, <1>3, <1>4, <1>5 DEF Next, StepOf

\* With a clock that shows every change of a file in its metadata, a token
\* names bytes and metadata that one file, opened at the path, had together at
\* one moment, although a read holds no lock and takes them in separate system
\* calls, and the file may be renamed, replaced or removed meanwhile.
THEOREM TokensReal ==
  ASSUME FineClock
  PROVE  Spec => []TokensAreReal
<1>1. RealInv => TokensAreReal
  BY DEF RealInv
<1>2. TypeInv /\ TypeInv' /\ RealInv /\ [Next]_vars => RealInv'
  BY RealNext
<1> QED
  BY <1>1, <1>2, TypeInit, TypeNext, RealInit, PTL DEF Spec

-----------------------------------------------------------------------------
(***************************************************************************)
(* RevisionStore implements AtomicRegister, for every number of workers,   *)
(* every set of contents, every mix of calls and either clock, as long as  *)
(* nothing outside the server changes the path, system calls succeed and   *)
(* the process does not end.                                               *)
(***************************************************************************)

Undisturbed == MaxExternal = 0 /\ MaxFaults = 0 /\ MaxExits = 0

AtUnlink == \E w \in Workers : pc[w] = "unlink"

\* Without hard links made outside, a file has one name or, when it is gone or
\* a temporary file, none that counts.
PathLinks ==
  /\ \A i \in Inodes : inode[i].links \in {0, 1}
  /\ entry \in Inodes => inode[entry].links = 1

\* What a conditional write finds at each of its steps when nobody disturbs
\* it: a file to read, its bytes in the temporary file and, once it has
\* published, at the path; no collision.
Finds(w) ==
  /\ pc[w] = "lock" => call[w].op # "read"
  /\ pc[w] \in {"create", "fill", "mutate"} => call[w].op \notin {"read", "conditional_write"}
  /\ pc[w] \notin Reading => ret[w] # "verify"
  /\ pc[w] # "collide"
  /\ call[w].op = "conditional_write" /\ pc[w] \notin {"lock", "check"} =>
       call[w].bytes # Unsupported
  /\ temp[w] # Absent => call[w].op = "conditional_write"
  /\ temp[w] # Absent => inode[temp[w]].bytes = call[w].bytes
  /\ temp[w] # Absent /\ pc[w] # "unlink" => inode[temp[w]].links = 0 /\ temp[w] # entry
  /\ pc[w] = "unlink" => entry = temp[w] /\ call[w].exp = Missing
  /\ pc[w] \in Reading /\ call[w].op # "read" => entry \in Inodes
  /\ pc[w] \in Reading /\ ret[w] = "compare" => call[w].exp # Missing
  /\ pc[w] \in Reading /\ ret[w] = "appeared" => call[w].exp = Missing
  /\ pc[w] \in Reading /\ ret[w] = "verify" => inode[entry].bytes = call[w].bytes

QuietInv == overtaken = {} /\ PathLinks /\ \A w \in Workers : Finds(w)

-----------------------------------------------------------------------------
\* A step of a worker that does not fail for reasons outside the model.
Moves(v) == (\E c \in Requests : Request(v, c)) \/ WorkerStep(v)

LEMMA OnlyWorkers ==
  ASSUME Undisturbed, TypeInv, [Next]_vars
  PROVE  (\E v \in Workers : Moves(v)) \/ UNCHANGED vars
<1>1. ~External /\ ~ServerExit /\ \A v : ~IoFailure(v)
  BY DEF Undisturbed, TypeInv, BoundsOK, External, ServerExit, IoFailure
<1> QED
  BY <1>1 DEF Next, Moves

LEMMA QuietInit == Init => QuietInv
<1> SUFFICES ASSUME Init PROVE QuietInv
  OBVIOUS
<1>1. PathLinks
  BY ConstantFacts DEF Init, PathLinks, Inode
<1>2. \A w \in Workers : Finds(w)
  BY DEF Init, Finds, Reading, NoCall
<1> QED
  BY <1>1, <1>2 DEF Init, QuietInv

LEMMA NoneOvertaken ==
  ASSUME NEW v \in Workers, Moves(v), overtaken = {}
  PROVE  overtaken' = {}
<1>1. \A c : Request(v, c) => overtaken' = overtaken
  BY DEF Request
<1>2. Acquire(v) => overtaken' = overtaken \ {v}
  BY DEF Acquire
<1>3. WorkerStep(v) /\ ~Acquire(v) => overtaken' = overtaken
  BY DEF WorkerStep, ReadLstat, ReadOpen, ReadFstat, ReadRetry, ReadFail, ReadDone, RefuseBytes, Check, WriteTemp,
         PublishRename, PublishLink, Collide, UnlinkTemp, CreateOpen, CreateFill, MutateEntry
<1> QED
  BY <1>1, <1>2, <1>3 DEF Moves

\* What is known of worker v when it takes a step.
Knows(v) ==
  /\ WorkOK /\ FrameInv /\ FilesOK /\ PathLinks
  /\ Finds(v) /\ Relies(v) /\ v \notin overtaken

LEMMA Knowing ==
  ASSUME TypeInv, SectionInv, QuietInv, NEW v \in Workers
  PROVE  Knows(v)
BY DEF TypeInv, WorkInv, SectionInv, QuietInv, Knows

LEMMA CurrentIno == ASSUME TypeInv PROVE Current.ino = entry
BY ConstantFacts DEF TypeInv, FilesOK, Current, RevisionOf

\* The file at the path is no hard link, unless it is just being published.
LEMMA PathNotHardlinked ==
  ASSUME QuietInv, entry \in Inodes, ~AtUnlink
  PROVE  ~Hardlinked(entry)
<1>1. ~Private(entry)
  BY ConstantFacts DEF Private, QuietInv, Finds, AtUnlink
<1> QED
  BY <1>1 DEF Hardlinked, QuietInv, PathLinks

\* The names and the bytes a change leaves.
LEMMA TouchedLinks ==
  ASSUME NEW i \in Inodes, NEW b, NEW n, NEW f \in Touched(i, b, n)
  PROVE  f.links = inode[i].links + n /\ f.bytes = b
BY DEF Touched, Inode

LEMMA RelinkedLinks ==
  ASSUME PathLinks, NEW i \in Inodes, NEW n \in {-1, 0, 1}, inode[i].links + n \in {0, 1},
         NEW f \in Relinked(i, n)
  PROVE  f.links = inode[i].links + n /\ f.bytes = inode[i].bytes
<1>1. CASE inode[i].links + n > 0 \/ Private(i)
  BY <1>1, TouchedLinks DEF Relinked
<1>2. CASE ~(inode[i].links + n > 0 \/ Private(i))
  BY <1>2 DEF Relinked, Inode
<1> QED
  BY <1>1, <1>2

LEMMA PointLinks ==
  ASSUME FilesOK, PathLinks, NEW e \in Inodes \cup {Absent, Special}, NEW arriving,
         NEW n \in {-1, 0}, Point(e, arriving, n), e \in Inodes => \A f \in arriving : f.links = 1
  PROVE  PathLinks'
<1>1. PICK new \in arriving, old \in IF entry \in Inodes THEN Relinked(entry, n) ELSE {Absent} :
        inode' = [j \in Inodes |-> IF j = e THEN new ELSE IF j = entry THEN old ELSE inode[j]]
  BY DEF Point
<1>2. entry' = e
  BY DEF Point
<1>3. entry \in Inodes => old.links \in {0, 1}
  <2>1. SUFFICES ASSUME entry \in Inodes PROVE old.links \in {0, 1}
    OBVIOUS
  <2>2. inode[entry].links = 1 /\ inode[entry].links + n \in {0, 1} /\ old \in Relinked(entry, n)
    BY <1>1, <2>1 DEF PathLinks
  <2> QED
    BY <2>1, <2>2, RelinkedLinks
<1>4. \A i \in Inodes : inode'[i].links \in {0, 1}
  BY <1>1, <1>3 DEF PathLinks
<1>5. e \in Inodes => inode'[e].links = 1
  BY <1>1
<1> QED
  BY <1>2, <1>4, <1>5 DEF PathLinks, Inodes, MaxInodes

LEMMA ChangeLinks ==
  ASSUME FilesOK, PathLinks, NEW j \in Inodes, NEW results, ChangeInode(j, results),
         UNCHANGED entry, \A f \in results : f.links = inode[j].links
  PROVE  PathLinks'
<1>1. PICK f \in results : inode' = [inode EXCEPT ![j] = f]
  BY DEF ChangeInode
<1>2. \A i \in Inodes : inode'[i].links = inode[i].links
  BY <1>1 DEF FilesOK
<1> QED
  BY <1>2 DEF PathLinks, Inodes, MaxInodes

\* A published token is that of the path, so a create meets no file.
LEMMA PublishFinds ==
  ASSUME TypeInv, NEW v \in Workers, Knows(v), pc[v] = "publish"
  PROVE  /\ call[v].exp = Current /\ temp[v] \in Inodes /\ temp[v] # entry
         /\ call[v].exp = Missing => entry = Absent
         /\ call[v].exp # Missing => entry \in Inodes
<1>1. call[v].exp = Current /\ temp[v] \in Inodes
  BY DEF Knows, Relies, FrameInv
<1>2. temp[v] # entry
  BY <1>1, ConstantFacts DEF Knows, Finds
<1>3. Current.ino = entry
  BY CurrentIno
<1>4. call[v].exp \in Tokens
  BY DEF Knows, WorkOK, Calls
<1> QED
  BY <1>1, <1>2, <1>3, <1>4, TokenFields DEF Missing

LEMMA FinishFinds ==
  ASSUME WorkOK, NEW v \in Workers, NEW kind, NEW rev, Finish(v, kind, rev)
  PROVE  Finds(v)'
BY DEF WorkOK, Finish, Goto, Finds, Reading, NoCall

LEMMA MoverFinds ==
  ASSUME TypeInv, NEW v \in Workers, Knows(v), Moves(v)
  PROVE  Finds(v)'
<1> USE DEF bounds, files
<1>a. WorkOK /\ FrameInv /\ FilesOK /\ Finds(v) /\ Relies(v)
  BY DEF Knows
<1>b. ~InSection(v) => temp[v] = Absent
  BY <1>a DEF Relies
<1>1. ASSUME NEW kind, NEW rev, Finish(v, kind, rev) PROVE Finds(v)'
  BY <1>1, <1>a, FinishFinds
<1>2. ASSUME NEW kind, NEW rev, Answer(v, kind, rev) PROVE Finds(v)'
  BY <1>2, <1>1 DEF Answer
<1>3. ASSUME NEW code, Fail(v, code) PROVE Finds(v)'
  BY <1>3, <1>2 DEF Fail
<1>4. ASSUME NEW c \in Requests, Request(v, c) PROVE Finds(v)'
  <2>1. temp[v] = Absent
    BY <1>4, <1>b DEF Request, InSection, Reading
  <2>2. pc'[v] = (IF c.op = "read" THEN "lstat" ELSE "lock") /\ call'[v] = c /\ ret'[v] = "reply"
    BY <1>4, <1>a DEF Request, Goto, WorkOK, FrameInv
  <2> QED
    BY <1>4, <2>1, <2>2, ConstantFacts DEF Request, Finds, Reading
<1>5. CASE Acquire(v)
  <2>1. temp[v] = Absent
    BY <1>5, <1>b DEF Acquire, InSection, Reading
  <2>2. pc'[v] = FirstStep(call[v]) /\ ret'[v] # "verify" /\ call[v].op # "read"
    BY <1>5, <1>a DEF Acquire, Goto, WorkOK, Finds, Reading
  <2> QED
    BY <1>5, <2>1, <2>2 DEF Acquire, FirstStep, CreatingOps, Finds, Reading
\* A read goes on.
<1>6. ASSUME NEW label \in Reading, Goto(v, label), pc[v] \in Reading,
             UNCHANGED <<files, call, ret, temp>>
      PROVE  Finds(v)'
  BY <1>6, <1>a DEF Goto, WorkOK, Finds, Reading, Inodes, MaxInodes, Missing
<1>c. CASE ReadLstat(v) \/ ReadOpen(v)
  BY <1>c, <1>3, <1>6 DEF ReadLstat, ReadOpen, Continue, Reading
<1>7. CASE ReadFstat(v) \/ ReadRetry(v)
  BY <1>7, <1>3, <1>6 DEF ReadFstat, ReadRetry, Continue, Reading
<1>8. CASE ReadFail(v)
  BY <1>8, <1>3 DEF ReadFail
<1>9. CASE ReadDone(v)
  <2>1. ASSUME NEW label \in {"temp", "publish"}, Continue(v, label), ret[v] = "compare", UNCHANGED temp
        PROVE  Finds(v)'
    BY <1>9, <2>1, <1>a DEF ReadDone, Continue, Goto, WorkOK, Finds, Reading
  <2> QED
    BY <1>9, <2>1, <1>1, <1>2 DEF ReadDone, Resume
<1>10. CASE RefuseBytes(v)
  BY <1>10, <1>3 DEF RefuseBytes
<1>11. CASE Check(v)
  <2>1. pc[v] = "check" /\ call[v].op = "conditional_write" /\ call[v].bytes # Unsupported
          /\ UNCHANGED files
    BY <1>11, <1>a DEF Check, FrameInv
  <2>2. ASSUME NEW label \in {"temp", "publish"}, Continue(v, label), UNCHANGED temp PROVE Finds(v)'
    BY <2>1, <2>2, <1>a DEF Continue, Goto, WorkOK, Finds, Reading
  <2>3. ASSUME entry \in Inodes, UNCHANGED temp,
               StartRead(v, IF call[v].exp = Missing THEN "appeared" ELSE "compare")
        PROVE  Finds(v)'
    BY <2>1, <2>3, <1>a DEF StartRead, Goto, WorkOK, Finds, Reading
  <2> QED
    BY <1>11, <2>2, <2>3, <1>3 DEF Check
<1>12. CASE WriteTemp(v)
  <2>1. temp'[v] \in Inodes /\ temp'[v] # entry /\ inode'[temp'[v]].links = 0
          /\ inode'[temp'[v]].bytes = call[v].bytes
    <3>1. PICK i \in NewInodes : /\ ChangeInode(i, Touched(i, call[v].bytes, 0))
                                 /\ temp' = [temp EXCEPT ![v] = i]
      BY <1>12 DEF WriteTemp
    <3>2. i \in Inodes /\ i # entry /\ inode[i].links = 0
      BY <3>1 DEF NewInodes
    <3>3. PICK f \in Touched(i, call[v].bytes, 0) : inode' = [inode EXCEPT ![i] = f]
      BY <3>1 DEF ChangeInode
    <3>4. f.links = 0 /\ f.bytes = call[v].bytes
      BY <3>2, <3>3, TouchedLinks
    <3> QED
      BY <3>1, <3>2, <3>3, <3>4, <1>a DEF WorkOK, FilesOK
  <2>2. pc'[v] = "check" /\ UNCHANGED <<call, ret>> /\ pc[v] = "temp"
          /\ call[v].op = "conditional_write"
    BY <1>12, <1>a DEF WriteTemp, Continue, Goto, WorkOK, FrameInv
  <2> QED
    BY <1>12, <2>1, <2>2, <1>a DEF WriteTemp, Finds, Reading
<1>13. ASSUME Point(temp[v], Relinked(temp[v], 1), -1), pc[v] = "publish"
       PROVE  /\ entry' = temp[v] /\ temp[v] \in Inodes /\ inode'[temp[v]].bytes = call[v].bytes
              /\ call[v].op = "conditional_write" /\ call[v].bytes # Unsupported
  <2>1. temp[v] \in Inodes /\ temp[v] # Absent /\ inode[temp[v]].links + 1 = 1
    BY <1>13, <1>a, PublishFinds, ConstantFacts DEF Finds
  <2>2. \A f \in Relinked(temp[v], 1) : f.bytes = inode[temp[v]].bytes
    BY <2>1, RelinkedLinks DEF Knows
  <2>3. entry' = temp[v] /\ inode'[temp[v]].bytes = inode[temp[v]].bytes
    BY <1>13, <2>1, <2>2 DEF Point
  <2> QED
    BY <1>13, <2>1, <2>3, <1>a DEF Finds, FrameInv
<1>14. CASE PublishRename(v)
  <2>1. CASE /\ Point(temp[v], Relinked(temp[v], 1), -1)
             /\ temp' = [temp EXCEPT ![v] = Absent]
             /\ StartRead(v, "verify")
    <3>1. pc'[v] = "lstat" /\ ret'[v] = "verify" /\ temp'[v] = Absent /\ UNCHANGED call
      BY <2>1, <1>a DEF StartRead, Goto, WorkOK
    <3> QED
      BY <1>14, <2>1, <3>1, <1>13 DEF PublishRename, Finds, Reading
  <2> QED
    BY <1>14, <2>1, <1>3 DEF PublishRename
<1>15. CASE PublishLink(v)
  <2>1. pc[v] = "publish" /\ entry = Absent
    BY <1>15, PublishFinds DEF PublishLink
  <2>2. Point(temp[v], Relinked(temp[v], 1), -1) /\ Continue(v, "unlink") /\ UNCHANGED temp
    BY <1>15, <2>1 DEF PublishLink
  <2>3. pc'[v] = "unlink" /\ UNCHANGED <<call, ret>> /\ ret[v] # "verify"
    BY <2>1, <2>2, <1>a DEF Continue, Goto, WorkOK, Finds, Reading
  <2> QED
    BY <1>15, <2>1, <2>2, <2>3, <1>13 DEF PublishLink, Finds, Reading, Missing
<1>16. ~Collide(v)
  BY <1>a DEF Collide, Finds
<1>17. CASE UnlinkTemp(v)
  <2>1. pc[v] = "unlink" /\ entry = temp[v] /\ temp[v] \in Inodes /\ temp[v] # Absent
          /\ call[v].op = "conditional_write"
    BY <1>17, <1>a, ConstantFacts DEF UnlinkTemp, Finds, FrameInv
  <2>2. inode'[entry].bytes = call[v].bytes /\ entry' = entry
    <3>1. PICK f \in Relinked(entry, 0) : inode' = [inode EXCEPT ![entry] = f]
      BY <1>17, <2>1 DEF UnlinkTemp, DropTempName, ChangeInode
    <3>2. f.bytes = inode[entry].bytes
      BY <2>1, <3>1, RelinkedLinks DEF Knows, PathLinks
    <3> QED
      BY <1>17, <2>1, <3>1, <3>2, <1>a DEF UnlinkTemp, FilesOK, Finds
  <2>3. pc'[v] = "lstat" /\ ret'[v] = "verify" /\ temp'[v] = Absent /\ UNCHANGED call
    BY <1>17, <1>a DEF UnlinkTemp, StartRead, Goto, WorkOK
  <2> QED
    BY <2>1, <2>2, <2>3, <1>a DEF Finds, Reading
<1>18. CASE CreateOpen(v)
  <2>1. CASE Goto(v, "fill") /\ UNCHANGED <<call, ret, temp>>
    BY <1>18, <2>1, <1>a DEF CreateOpen, Goto, WorkOK, Finds, Reading
  <2> QED
    BY <1>18, <2>1, <1>3 DEF CreateOpen
<1>19. CASE CreateFill(v) \/ MutateEntry(v)
  BY <1>19, <1>2, <1>3 DEF CreateFill, MutateEntry
<1> QED
  BY <1>4, <1>5, <1>c, <1>7, <1>8, <1>9, <1>10, <1>11, <1>12, <1>14, <1>15, <1>16, <1>17,
     <1>18, <1>19 DEF Moves, WorkerStep

\* Another worker's step does not reach the files a conditional write holds.
LEMMA OthersFind ==
  ASSUME TypeInv, SectionInv, QuietInv, NEW v \in Workers, Moves(v), NEW w \in Workers \ {v}
  PROVE  Finds(w)'
<1>1. StepOf(v) /\ Finds(w) /\ Relies(v) /\ Relies(w)
  BY DEF Moves, StepOf, QuietInv, SectionInv
<1>2. Spares(v, w)
  BY <1>1, StepSpares
<1>3. InSection(w) => UNCHANGED files
  BY <1>1, SectionChangesFiles DEF Relies
<1>4. temp[w] # Absent \/ pc[w] = "unlink" => InSection(w)
  BY <1>1 DEF Relies, InSection
<1>5. pc[w] \in Reading /\ (call[w].op # "read" \/ ret[w] = "verify") => InSection(w)
  BY DEF TypeInv, WorkInv, FrameInv, InSection
<1>6. /\ temp[w] # Absent => inode'[temp[w]] = inode[temp[w]]
      /\ InSection(w) => entry' = entry /\ inode' = inode
  BY <1>3, <1>4 DEF files
<1> QED
  BY <1>1, <1>2, <1>4, <1>5, <1>6 DEF Finds, Spares, Inodes, MaxInodes, Missing

\* Whether some worker is between hard_link and remove_file: only the mover's
\* label counts, and a mover in its section is alone there.
LEMMA UnlinkMoves ==
  ASSUME TypeInv, SectionInv, NEW v \in Workers, Moves(v)
  PROVE  /\ pc[v] # "unlink" /\ pc'[v] # "unlink" => (AtUnlink' <=> AtUnlink)
         /\ InSection(v) => (AtUnlink <=> pc[v] = "unlink") /\ (AtUnlink' <=> pc'[v] = "unlink")
<1>1. \A w \in Workers \ {v} : pc'[w] = pc[w]
  BY StepSpares DEF Moves, StepOf, Spares
<1>2. InSection(v) => \A w \in Workers \ {v} : pc[w] # "unlink"
  BY DEF SectionInv, Relies, InSection
<1> QED
  BY <1>1, <1>2 DEF AtUnlink

\* Where the labels of the worker steps lead.
LEMMA LabelsReached ==
  ASSUME WorkOK, NEW v \in Workers
  PROVE  /\ \A kind, rev : Finish(v, kind, rev) \/ Answer(v, kind, rev) => pc'[v] = "idle"
         /\ \A code : Fail(v, code) => pc'[v] = "idle"
         /\ \A then : StartRead(v, then) => pc'[v] = "lstat"
         /\ \A label : Continue(v, label) \/ Goto(v, label) => pc'[v] = label
BY DEF WorkOK, Finish, Answer, Fail, StartRead, Continue, Goto

LEMMA LinksStay ==
  ASSUME TypeInv, NEW v \in Workers, Knows(v), Moves(v)
  PROVE  PathLinks'
<1> USE DEF bounds, files
<1>a. FilesOK /\ FrameInv /\ PathLinks
  BY DEF Knows
<1>1. UNCHANGED files => PathLinks'
  BY <1>a DEF PathLinks, Inodes, MaxInodes
<1>2. ASSUME NEW j \in Inodes, NEW b, ChangeInode(j, Touched(j, b, 0)), UNCHANGED entry
      PROVE  PathLinks'
  <2>1. \A f \in Touched(j, b, 0) : f.links = inode[j].links
    BY <1>a, TouchedLinks DEF PathLinks
  <2> QED
    BY <1>2, <2>1, <1>a, ChangeLinks
<1>3. ASSUME NEW b, CreateAtPath(b) PROVE PathLinks'
  <2>1. PICK i \in Inodes : inode[i].links = 0 /\ Point(i, Touched(i, b, 1), -1)
    BY <1>3 DEF CreateAtPath, NewInodes
  <2>2. \A f \in Touched(i, b, 1) : f.links = 1
    BY <2>1, TouchedLinks
  <2> QED
    BY <2>1, <2>2, <1>a, PointLinks
<1>4. CASE ComeBack
  <2>1. PICK i \in Inodes : inode[i].links > 0 /\ Point(i, Relinked(i, 0), -1)
    BY <1>4 DEF ComeBack, Away
  <2>2. inode[i].links = 1
    BY <2>1, <1>a DEF PathLinks
  <2>3. \A f \in Relinked(i, 0) : f.links = 1
    BY <2>2, <1>a, RelinkedLinks
  <2> QED
    BY <2>1, <2>3, <1>a, PointLinks
<1>5. ASSUME NEW e \in {Absent, Special}, NEW n \in {-1, 0}, Vacate(e, n) PROVE PathLinks'
  BY <1>5, <1>a, PointLinks, ConstantFacts DEF Vacate
<1>6. CASE PublishRename(v) \/ PublishLink(v)
  <2>1. temp[v] \in Inodes /\ inode[temp[v]].links = 0
    BY <1>6, PublishFinds, ConstantFacts DEF PublishRename, PublishLink, Knows, Finds
  <2>2. \A f \in Relinked(temp[v], 1) : f.links = 1
    BY <2>1, <1>a, RelinkedLinks
  <2> QED
    BY <1>6, <2>1, <2>2, <1>1, <1>a, PointLinks DEF PublishRename, PublishLink
<1>7. CASE UnlinkTemp(v)
  <2>1. temp[v] \in Inodes /\ entry = temp[v] /\ inode[temp[v]].links = 1
    BY <1>7, <1>a DEF UnlinkTemp, Knows, Finds, FrameInv, PathLinks
  <2>2. \A f \in Relinked(temp[v], 0) : f.links = inode[temp[v]].links
    BY <2>1, <1>a, RelinkedLinks
  <2> QED
    BY <1>7, <2>1, <2>2, <1>a, ChangeLinks DEF UnlinkTemp, DropTempName
<1>8. CASE WriteTemp(v)
  BY <1>8, <1>2 DEF WriteTemp, NewInodes
<1>9. CASE CreateOpen(v)
  BY <1>9, <1>1, <1>2, <1>3 DEF CreateOpen, WriteInode
<1>10. CASE CreateFill(v)
  BY <1>10, <1>2, <1>a DEF CreateFill, WriteInode, FrameInv, Revision
<1>11. CASE MutateEntry(v)
  BY <1>11, <1>1, <1>3, <1>4, <1>5 DEF MutateEntry
<1>12. Acquire(v) \/ ReadLstat(v) \/ ReadOpen(v) \/ ReadFstat(v) \/ ReadRetry(v) \/ ReadFail(v)
         \/ ReadDone(v) \/ RefuseBytes(v) \/ Check(v) \/ Collide(v) \/ (\E c : Request(v, c))
         => UNCHANGED files
  BY DEF Acquire, ReadLstat, ReadOpen, ReadFstat, ReadRetry, ReadFail, ReadDone, RefuseBytes,
         Check, Collide, Request
<1> QED
  BY <1>1, <1>6, <1>7, <1>8, <1>9, <1>10, <1>11, <1>12 DEF Moves, WorkerStep

LEMMA QuietNext ==
  ASSUME Undisturbed
  PROVE  TypeInv /\ SectionInv /\ QuietInv /\ [Next]_vars => QuietInv'
<1> SUFFICES ASSUME TypeInv, SectionInv, QuietInv, [Next]_vars PROVE QuietInv'
  OBVIOUS
<1>1. ASSUME NEW v \in Workers, Moves(v) PROVE QuietInv'
  <2>1. overtaken' = {}
    BY <1>1, NoneOvertaken DEF QuietInv
  <2>2. Finds(v)' /\ \A w \in Workers \ {v} : Finds(w)'
    BY <1>1, Knowing, MoverFinds, OthersFind
  <2> QED
    BY <1>1, <2>1, <2>2, Knowing, LinksStay DEF QuietInv
<1>2. CASE UNCHANGED vars
  BY <1>2 DEF vars, files, QuietInv, PathLinks, Finds, Inodes, MaxInodes, Missing
<1> QED
  BY <1>1, <1>2, OnlyWorkers

-----------------------------------------------------------------------------
(* Every step is a step of the register *)

\* The register's call and published set follow the mover alone.
LEMMA CallsSeen ==
  ASSUME TypeInv, NEW v \in Workers, Moves(v)
  PROVE  /\ \A w \in Workers \ {v} : RegisterCall'[w] = RegisterCall[w]
         /\ \A w \in Workers \ {v} : w \in HasReplaced' <=> w \in HasReplaced
         /\ RegisterCall'[v] = IF pc'[v] = "idle" THEN NotCalling ELSE call'[v]
         /\ RegisterCall[v] = IF pc[v] = "idle" THEN NotCalling ELSE call[v]
<1>1. \A w \in Workers \ {v} : pc'[w] = pc[w] /\ call'[w] = call[w] /\ ret'[w] = ret[w]
  BY StepSpares DEF Moves, StepOf, Spares
<1> QED
  BY <1>1 DEF RegisterCall, HasReplaced, NotCalling, NoCall, Missing, Absent

LEMMA SameRegister ==
  ASSUME UNCHANGED files, AtUnlink' <=> AtUnlink
  PROVE  RegisterState' = RegisterState
BY DEF files, AtUnlink, RegisterState, Current, RevisionOf, Inodes, MaxInodes

\* A step that sends nothing, keeps the call and publishes nothing new is
\* invisible.
LEMMA QuietStep ==
  ASSUME TypeInv, NEW v \in Workers, Moves(v), Silent,
         pc[v] # "idle", pc'[v] # "idle", call' = call,
         v \in HasReplaced' <=> v \in HasReplaced
  PROVE  sent' = NoReply /\ UNCHANGED <<RegisterCall, HasReplaced>>
<1>1. \A w \in Workers : RegisterCall'[w] = RegisterCall[w]
  BY CallsSeen
<1>2. RegisterCall' = RegisterCall
  BY <1>1 DEF RegisterCall
<1>3. HasReplaced' = HasReplaced
  BY CallsSeen DEF HasReplaced
<1> QED
  BY <1>2, <1>3 DEF Silent

\* A reply of the store is a reply of the register.
LEMMA ReplyStep ==
  ASSUME TypeInv, NEW v \in Workers, Moves(v), NEW kind, NEW rev, Finish(v, kind, rev),
         NEW kinds, kind \in kinds
  PROVE  Register!Reply(v, kinds) /\ sent'.kind = kind /\ sent'.rev = rev
<1>1. pc'[v] = "idle" /\ ret'[v] = "reply" /\ sent' = [to |-> v, kind |-> kind, rev |-> rev]
  BY DEF Finish, Goto, TypeInv, WorkInv, WorkOK
<1>2. sent' # NoReply
  BY <1>1, ConstantFacts DEF NoReply
<1>3. \A w \in Workers : RegisterCall'[w] = [RegisterCall EXCEPT ![v] = NotCalling][w]
  BY <1>1, CallsSeen DEF RegisterCall
<1>4. RegisterCall' = [RegisterCall EXCEPT ![v] = NotCalling]
  BY <1>3 DEF RegisterCall
<1>5. HasReplaced' = HasReplaced \ {v}
  BY <1>1, CallsSeen DEF HasReplaced
<1> QED
  BY <1>1, <1>2, <1>4, <1>5 DEF Register!Reply

\* A reading worker in its section has the path's revision as its sample, and
\* finds it unchanged.
LEMMA SectionRead ==
  ASSUME TypeInv, NEW v \in Workers, Knows(v), pc[v] = "reading", call[v].op # "read"
  PROVE  /\ InSection(v) /\ sample[v] = Current /\ entry \in Inodes /\ sample[v].ino = entry
         /\ Stable(v) /\ ReadBytes(v) = {sample[v].bytes}
         /\ sample[v].bytes = inode[entry].bytes
         /\ \A b \in ReadBytes(v) : [sample[v] EXCEPT !.bytes = b] = Current
<1>1. InSection(v)
  BY DEF InSection, Reading
<1>2. sample[v] = Current /\ sample[v] \in Revision /\ entry \in Inodes
  BY <1>1 DEF Knows, Relies, FrameInv, Finds, Reading
<1>3. sample[v].ino = entry /\ sample[v].stamp = inode[entry].stamp
        /\ sample[v].bytes = inode[entry].bytes
  BY <1>2 DEF Current, RevisionOf
<1>4. Stable(v) /\ ReadBytes(v) = {sample[v].bytes}
  BY <1>3 DEF Stable, ReadBytes
<1>5. \A b \in ReadBytes(v) : [sample[v] EXCEPT !.bytes = b] = sample[v]
  BY <1>2, <1>4 DEF Revision
<1> QED
  BY <1>1, <1>2, <1>3, <1>4, <1>5

LEMMA RegisterStep ==
  ASSUME TypeInv, SectionInv, QuietInv, NEW v \in Workers, Moves(v)
  PROVE  Register!RNext
<1> USE DEF bounds, files
<1>a. Knows(v) /\ WorkOK /\ FrameInv /\ FilesOK /\ Finds(v)
  BY Knowing DEF Knows
<1>u. /\ pc[v] # "unlink" /\ pc'[v] # "unlink" => (AtUnlink' <=> AtUnlink)
      /\ InSection(v) => (AtUnlink <=> pc[v] = "unlink") /\ (AtUnlink' <=> pc'[v] = "unlink")
  BY UnlinkMoves
<1>l. /\ \A kind, rev : Finish(v, kind, rev) \/ Answer(v, kind, rev) => pc'[v] = "idle"
      /\ \A code : Fail(v, code) => pc'[v] = "idle"
      /\ \A then : StartRead(v, then) => pc'[v] = "lstat"
      /\ \A label : Continue(v, label) \/ Goto(v, label) => pc'[v] = label
  BY <1>a, LabelsReached
<1>c. pc[v] # "idle" => RegisterCall[v] = call[v] /\ RegisterCall[v] # NotCalling
  BY <1>a, CallsSeen DEF WorkOK, Calls, AllOps, CreatingOps, EntryOps, NotCalling, NoCall
<1>r. v \in HasReplaced <=> pc[v] \in Reading /\ ret[v] = "verify"
  BY <1>a DEF HasReplaced, Finds
<1>s. AtUnlink \/ RegisterState = Current
  BY DEF AtUnlink, RegisterState
<1>o. InSection(v) /\ pc[v] # "unlink" => RegisterState = Current
  BY <1>s, <1>u
\* Steps that change nothing the register shows.
<1>1. ASSUME Silent, UNCHANGED files, call' = call, pc[v] \notin {"idle", "unlink"},
             pc'[v] \notin {"idle", "unlink"}, v \in HasReplaced' <=> v \in HasReplaced
      PROVE  Register!RNext
  <2>1. UNCHANGED <<RegisterState, RegisterCall, HasReplaced>> /\ sent' = NoReply
    BY <1>1, <1>u, SameRegister, QuietStep
  <2> QED
    BY <2>1 DEF Register!RNext, Register!Seen
\* Failures of calls that have published nothing.
<1>2. ASSUME NEW code, Fail(v, code), code \in Register!Failures, UNCHANGED files,
             pc[v] \notin {"idle", "unlink"}, v \notin HasReplaced,
             call[v].op = "conditional_write" /\ RegisterState = call[v].exp
               => code = "unsupported_encoding"
      PROVE  Register!RNext
  <2>1. Register!Reply(v, Register!Failures) /\ sent'.kind = code
    BY <1>2, ReplyStep DEF Fail, Answer
  <2>2. UNCHANGED RegisterState
    BY <1>2, <1>u, <1>l, SameRegister
  <2>3. Register!Fail(v)
    BY <1>2, <2>1, <2>2, <1>c DEF Register!Fail, Register!InProgress
  <2> QED
    BY <2>3 DEF Register!RNext
\* Conflicts.
<1>3. ASSUME NEW kind \in Register!Conflicts, NEW rev, Answer(v, kind, rev), UNCHANGED files,
             InSection(v), pc[v] # "unlink", v \notin HasReplaced,
             call[v].op = "conditional_write", Current # call[v].exp,
             kind \in {"changed", "appeared"} => rev = Current
      PROVE  Register!RNext
  <2>1. Register!Reply(v, Register!Conflicts) /\ sent'.kind = kind /\ sent'.rev = rev
    BY <1>3, ReplyStep DEF Answer
  <2>2. UNCHANGED RegisterState /\ pc[v] # "idle"
    BY <1>3, <1>u, <1>l, SameRegister DEF InSection, Reading
  <2>3. Register!Refuse(v)
    BY <1>3, <2>1, <2>2, <1>c, <1>o DEF Register!Refuse, Register!InProgress
  <2> QED
    BY <2>3 DEF Register!RNext
<1>4. ASSUME NEW c \in Requests, Request(v, c) PROVE Register!RNext
  <2>1. pc[v] = "idle" /\ pc'[v] \in {"lstat", "lock"} /\ call'[v] = c /\ ret' = ret /\ Silent
    BY <1>4, <1>a, <1>l DEF Request, WorkOK
  <2>2. c.op # "none"
    BY DEF Requests, CreatingOps, EntryOps
  <2>3. RegisterCall[v] = NotCalling /\ RegisterCall'[v] = c /\ c # NotCalling
    BY <2>1, <2>2, CallsSeen DEF NotCalling, NoCall
  <2>4. \A w \in Workers : RegisterCall'[w] = [RegisterCall EXCEPT ![v] = RegisterCall'[v]][w]
    BY CallsSeen DEF RegisterCall
  <2>5. RegisterCall' = [RegisterCall EXCEPT ![v] = RegisterCall'[v]]
    BY <2>4 DEF RegisterCall
  <2>6. HasReplaced' = HasReplaced
    BY <2>1, CallsSeen DEF HasReplaced
  <2>7. UNCHANGED RegisterState
    BY <1>4, <2>1, <1>u, SameRegister DEF Request
  <2>8. Register!Begin(v)
    BY <2>1, <2>3, <2>5, <2>6, <2>7 DEF Register!Begin, Silent
  <2> QED
    BY <2>8 DEF Register!RNext
<1>5. CASE Acquire(v)
  BY <1>5, <1>1, <1>l DEF Acquire, FirstStep, HasReplaced
\* A read of the client may fail; in a section the file is there.
<1>6. CASE ReadLstat(v)
  <2>1. CASE Continue(v, "open")
    BY <1>6, <2>1, <1>1, <1>l DEF ReadLstat, Continue, HasReplaced
  <2>2. CASE call[v].op = "read"
    BY <1>6, <2>1, <2>2, <1>2, <1>r, <1>a DEF ReadLstat, FrameInv, Reading, Register!Failures
  <2>3. CASE call[v].op # "read"
    <3>1. InSection(v) /\ entry \in Inodes /\ ~AtUnlink
      BY <1>6, <2>3, <1>a, <1>u DEF ReadLstat, InSection, Finds, Reading
    <3> QED
      BY <1>6, <2>1, <3>1, PathNotHardlinked, ConstantFacts DEF ReadLstat
  <2> QED
    BY <2>2, <2>3
<1>d. CASE ReadOpen(v)
  <2>1. CASE Goto(v, "fstat") /\ Silent /\ UNCHANGED <<call, ret>>
    BY <1>d, <2>1, <1>1, <1>l DEF ReadOpen, HasReplaced
  <2>2. CASE call[v].op = "read"
    BY <1>d, <2>1, <2>2, <1>2, <1>r, <1>a DEF ReadOpen, FrameInv, Reading, Register!Failures
  <2>3. CASE call[v].op # "read"
    <3>1. entry \in Inodes
      BY <1>d, <2>3, <1>a DEF ReadOpen, Finds, Reading
    <3> QED
      BY <1>d, <2>1, <3>1, ConstantFacts DEF ReadOpen
  <2> QED
    BY <2>2, <2>3
<1>e. CASE ReadFstat(v)
  <2>1. CASE Goto(v, "reading") /\ Silent /\ UNCHANGED <<call, ret>>
    BY <1>e, <2>1, <1>1, <1>l DEF ReadFstat, HasReplaced
  <2>2. CASE call[v].op = "read"
    BY <1>e, <2>1, <2>2, <1>2, <1>r, <1>a DEF ReadFstat, FrameInv, Reading, Register!Failures
  <2>3. CASE call[v].op # "read"
    <3>1. InSection(v) /\ pc[v] = "fstat" /\ ~AtUnlink
      BY <1>e, <2>3, <1>u DEF ReadFstat, InSection, Reading
    <3>2. sample[v].ino = entry /\ entry \in Inodes
      BY <2>3, <3>1, <1>a DEF Knows, Relies, Finds, Reading
    <3> QED
      BY <1>e, <2>1, <3>1, <3>2, PathNotHardlinked DEF ReadFstat
  <2> QED
    BY <2>2, <2>3
<1>7. CASE ReadRetry(v)
  BY <1>7, <1>1, <1>l DEF ReadRetry, Continue, HasReplaced
<1>8. CASE ReadFail(v)
  <2>1. pc[v] = "reading" /\ UNCHANGED files
    BY <1>8 DEF ReadFail
  <2>2. CASE call[v].op = "read"
    BY <1>8, <2>1, <2>2, <1>2, <1>r, <1>a DEF ReadFail, FrameInv, Reading, Register!Failures
  <2>3. CASE call[v].op # "read"
    <3>1. InSection(v) /\ entry \in Inodes /\ sample[v].ino = entry /\ Stable(v)
            /\ ReadBytes(v) = {inode[entry].bytes}
      BY <2>1, <2>3, <1>a, SectionRead
    <3>2. ~Hardlinked(sample[v].ino)
      BY <2>1, <3>1, <1>u, PathNotHardlinked
    <3>3. Fail(v, "unsupported_encoding") /\ inode[entry].bytes = Unsupported
      BY <1>8, <3>1, <3>2 DEF ReadFail
    <3>4. v \notin HasReplaced
      BY <2>1, <2>3, <3>3, <1>a, <1>r DEF Finds, Reading, FrameInv
    <3> QED
      BY <2>1, <3>3, <3>4, <1>2 DEF Register!Failures
  <2> QED
    BY <2>2, <2>3
<1>9. CASE ReadDone(v)
  <2>1. PICK b \in ReadBytes(v) : Resume(v, [sample[v] EXCEPT !.bytes = b])
    BY <1>9 DEF ReadDone
  <2> DEFINE rev == [sample[v] EXCEPT !.bytes = b]
  <2>2. pc[v] = "reading" /\ UNCHANGED files
    BY <1>9 DEF ReadDone
  <2>3. ret[v] # "reply" => /\ InSection(v) /\ call[v].op = "conditional_write"
                            /\ rev = Current /\ entry \in Inodes /\ RegisterState = Current
                            /\ rev.bytes = inode[entry].bytes
    <3>1. ret[v] # "reply" => call[v].op = "conditional_write"
      BY <2>2, <1>a DEF FrameInv, Reading
    <3>2. call[v].op # "read" => rev = Current /\ InSection(v) /\ entry \in Inodes
      BY <2>1, <2>2, <1>a, SectionRead
    <3>3. entry \in Inodes => Current.bytes = inode[entry].bytes
      BY DEF Current, RevisionOf
    <3> QED
      BY <2>2, <3>1, <3>2, <3>3, <1>o
  <2>4. CASE ret[v] = "reply" /\ Answer(v, "ok", rev)
    <3>1. Register!Reply(v, {"ok"})
      BY <2>4, ReplyStep DEF Answer
    <3>2. UNCHANGED RegisterState
      BY <2>2, <2>4, <1>u, <1>l, SameRegister
    <3>3. call[v].op = "read"
      BY <2>2, <2>4, <1>a DEF FrameInv, Reading
    <3>4. Register!Read(v)
      BY <2>2, <3>1, <3>2, <3>3, <1>c DEF Register!Read, Register!InProgress
    <3> QED
      BY <3>4 DEF Register!RNext
  <2>5. CASE /\ ret[v] = "compare" /\ SameRevision(rev, call[v].exp)
             /\ Continue(v, IF temp[v] = Absent THEN "temp" ELSE "publish")
    BY <2>2, <2>5, <1>1, <1>l DEF Continue, HasReplaced
  <2>6. CASE ret[v] = "compare" /\ ~SameRevision(rev, call[v].exp) /\ Answer(v, "changed", rev)
    BY <2>2, <2>3, <2>6, <1>3, <1>r DEF SameRevision, Register!Conflicts
  <2>7. CASE ret[v] = "appeared" /\ Answer(v, "appeared", rev)
    <3>1. call[v].exp = Missing
      BY <2>2, <2>7, <1>a DEF Finds, Reading
    <3>2. Current # Missing
      BY <2>3, <2>7, CurrentIno, ConstantFacts DEF Missing
    <3> QED
      BY <2>2, <2>3, <2>7, <3>1, <3>2, <1>3, <1>r DEF Register!Conflicts
  <2>8. CASE ret[v] = "verify" /\ Finish(v, "ok", rev)
    <3>1. Register!Reply(v, {"ok"}) /\ sent'.rev = rev
      BY <2>8, ReplyStep
    <3>2. UNCHANGED RegisterState
      BY <2>2, <2>8, <1>u, <1>l, SameRegister
    <3>3. inode[entry].bytes = call[v].bytes /\ v \in HasReplaced
      BY <2>2, <2>8, <1>a, <1>r DEF Finds, Reading
    <3>4. Register!Confirm(v)
      BY <2>2, <2>3, <2>8, <3>1, <3>2, <3>3, <1>c DEF Register!Confirm
    <3> QED
      BY <3>4 DEF Register!RNext
  <2>9. ret[v] = "verify" => rev.bytes = call[v].bytes
    BY <2>2, <2>3, <1>a DEF Finds, Reading
  <2> HIDE DEF rev
  <2> QED
    BY <2>1, <2>4, <2>5, <2>6, <2>7, <2>8, <2>9 DEF Resume, rev
<1>10. CASE RefuseBytes(v)
  BY <1>10, <1>2, <1>r DEF RefuseBytes, Reading, Register!Failures
<1>11. CASE Check(v)
  <2>1. InSection(v) /\ pc[v] = "check" /\ v \notin HasReplaced /\ UNCHANGED files
          /\ call[v].op = "conditional_write"
    BY <1>11, <1>a, <1>r DEF Check, InSection, Reading, FrameInv
  <2>2. ASSUME NEW label \in {"temp", "publish"}, Continue(v, label) PROVE Register!RNext
    BY <2>1, <2>2, <1>1, <1>l DEF Continue, HasReplaced
  <2>3. ASSUME NEW then \in {"appeared", "compare"}, StartRead(v, then) PROVE Register!RNext
    <3>1. ret'[v] = then
      BY <2>3, <1>a DEF StartRead, WorkOK
    <3> QED
      BY <2>1, <2>3, <3>1, <1>1, <1>l DEF StartRead, HasReplaced
  <2>4. call[v].exp \in Tokens /\ Current.ino = entry
    BY <1>a, CurrentIno DEF WorkOK, Calls
  <2>5. CASE entry = Absent /\ call[v].exp # Missing /\ Fail(v, "deleted")
    <3>1. Current # call[v].exp
      BY <2>4, <2>5, TokenFields, ConstantFacts
    <3> QED
      BY <2>1, <2>5, <3>1, <1>3 DEF Fail, Register!Conflicts
  <2>6. CASE entry = Special /\ Fail(v, "type_changed")
    <3>1. Current # call[v].exp
      BY <2>4, <2>6, TokenFields, ConstantFacts DEF Missing
    <3> QED
      BY <2>1, <2>6, <3>1, <1>3 DEF Fail, Register!Conflicts
  <2>7. ~(entry \in Inodes /\ Hardlinked(entry))
    BY <2>1, <1>u, PathNotHardlinked
  <2> QED
    BY <1>11, <2>2, <2>3, <2>5, <2>6, <2>7 DEF Check
<1>12. CASE WriteTemp(v)
  <2>1. pc[v] = "temp" /\ pc'[v] = "check" /\ Silent /\ UNCHANGED <<call, ret, entry>>
    BY <1>12, <1>l DEF WriteTemp, Continue
  <2>2. entry \in Inodes => inode'[entry] = inode[entry]
    BY <1>12, <1>a DEF WriteTemp, NewInodes, ChangeInode, FilesOK
  <2>3. Current' = Current
    BY <2>1, <2>2 DEF Current, RevisionOf, Inodes, MaxInodes
  <2>4. InSection(v) /\ ~AtUnlink /\ ~AtUnlink'
    BY <2>1, <1>u DEF InSection
  <2>5. UNCHANGED RegisterState
    BY <2>3, <2>4 DEF RegisterState, AtUnlink
  <2>6. UNCHANGED <<RegisterCall, HasReplaced>> /\ sent' = NoReply
    BY <2>1, QuietStep DEF HasReplaced
  <2> QED
    BY <2>5, <2>6 DEF Register!RNext, Register!Seen
\* Publishing: the register gets the bytes of the temporary file in one step.
<1>13. ASSUME pc[v] \in {"publish", "unlink"}, RegisterState = call[v].exp, RegisterState' = Current',
              entry' \in Inodes, inode'[entry'].bytes = call[v].bytes, StartRead(v, "verify")
       PROVE  Register!RNext
  <2>1. call[v].op = "conditional_write"
    BY <1>13, <1>a DEF FrameInv
  <2>2. ret'[v] = "verify" /\ pc'[v] = "lstat" /\ call' = call /\ Silent
    BY <1>13, <1>a, <1>l DEF StartRead, WorkOK
  <2>3. Current'.bytes = call[v].bytes
    BY <1>13 DEF Current, RevisionOf, Inodes, MaxInodes
  <2>4. v \notin HasReplaced /\ v \in HasReplaced'
    BY <1>13, <2>2, <1>r DEF Reading, HasReplaced
  <2>5. \A w \in Workers : RegisterCall'[w] = RegisterCall[w]
    BY <1>13, <2>2, CallsSeen
  <2>6. RegisterCall' = RegisterCall
    BY <2>5 DEF RegisterCall
  <2>7. HasReplaced' = HasReplaced \cup {v}
    BY <2>4, CallsSeen DEF HasReplaced
  <2>8. Register!Replace(v)
    BY <1>13, <2>1, <2>2, <2>3, <2>4, <2>6, <2>7, <1>c
       DEF Register!Replace, Register!InProgress, Silent
  <2> QED
    BY <2>8 DEF Register!RNext
<1>f. Finds(v)'
  BY <1>a, MoverFinds
<1>14. CASE PublishRename(v)
  <2>1. pc[v] = "publish" /\ entry \in Inodes /\ call[v].exp = Current /\ temp[v] \in Inodes
    BY <1>14, <1>a, PublishFinds DEF PublishRename
  <2>2. Point(temp[v], Relinked(temp[v], 1), -1) /\ StartRead(v, "verify")
    BY <1>14, <2>1, ConstantFacts DEF PublishRename
  <2>3. ret'[v] = "verify" /\ pc'[v] = "lstat" /\ call' = call /\ entry' = temp[v]
    BY <2>2, <1>a, <1>l DEF StartRead, WorkOK, Point
  <2>4. inode'[entry'].bytes = call[v].bytes
    BY <2>3, <1>f DEF Finds, Reading
  <2>5. RegisterState = Current /\ RegisterState' = Current'
    BY <2>1, <2>3, <1>u DEF InSection, RegisterState, AtUnlink
  <2> QED
    BY <2>1, <2>2, <2>3, <2>4, <2>5, <1>13
<1>15. CASE PublishLink(v)
  <2>1. pc[v] = "publish" /\ entry = Absent /\ call[v].exp = Current /\ call[v].exp = Missing
    BY <1>15, <1>a, PublishFinds DEF PublishLink
  <2>2. Continue(v, "unlink")
    BY <1>15, <2>1 DEF PublishLink
  <2>3. pc'[v] = "unlink" /\ UNCHANGED <<call, ret>> /\ Silent
    BY <2>2, <1>l DEF Continue
  <2>4. RegisterState = Missing
    BY <2>1, <1>o DEF InSection
  <2>5. RegisterState' = Missing
    BY <2>3 DEF RegisterState, Missing
  <2>6. UNCHANGED <<RegisterCall, HasReplaced>> /\ sent' = NoReply
    BY <2>1, <2>3, QuietStep DEF HasReplaced
  <2> QED
    BY <2>4, <2>5, <2>6 DEF Register!RNext, Register!Seen
<1>16. ~Collide(v)
  BY <1>a DEF Collide, Finds
<1>17. CASE UnlinkTemp(v)
  <2>1. pc[v] = "unlink" /\ StartRead(v, "verify") /\ entry = temp[v] /\ entry \in Inodes
          /\ entry' = entry /\ call[v].exp = Missing
    BY <1>17, <1>a DEF UnlinkTemp, Finds, FrameInv
  <2>2. ret'[v] = "verify" /\ pc'[v] = "lstat" /\ call' = call
    BY <2>1, <1>a, <1>l DEF StartRead, WorkOK
  <2>3. inode'[entry'].bytes = call[v].bytes
    BY <2>2, <1>f DEF Finds, Reading
  <2>4. RegisterState = Missing /\ RegisterState' = Current'
    BY <2>1, <2>2, <1>u DEF InSection, RegisterState, AtUnlink
  <2> QED
    BY <2>1, <2>2, <2>3, <2>4, <1>13
<1>18. CASE CreateOpen(v)
  <2>1. pc[v] = "create" /\ call[v].op \notin {"read", "conditional_write"} /\ v \notin HasReplaced
    BY <1>18, <1>a, <1>r DEF CreateOpen, Finds, Reading
  <2>2. CASE Goto(v, "fill") /\ Silent /\ UNCHANGED <<call, ret>>
    <3>1. UNCHANGED <<RegisterCall, HasReplaced>> /\ sent' = NoReply
      BY <2>1, <2>2, <1>l, QuietStep DEF HasReplaced
    <3>2. Register!Change(v)
      BY <2>1, <3>1, <1>c DEF Register!Change, Register!Changer
    <3> QED
      BY <3>2 DEF Register!RNext
  <2>3. CASE UNCHANGED files /\ Fail(v, "io")
    BY <2>1, <2>3, <1>2 DEF Register!Failures
  <2> QED
    BY <1>18, <2>2, <2>3 DEF CreateOpen
<1>19. CASE CreateFill(v) \/ MutateEntry(v)
  <2>1. pc[v] \in {"fill", "mutate"} /\ call[v].op \notin {"read", "conditional_write"}
          /\ v \notin HasReplaced
    BY <1>19, <1>a, <1>r DEF CreateFill, MutateEntry, Finds, Reading
  <2>2. CASE Answer(v, "done", Missing)
    <3>1. Register!Reply(v, {"done"})
      BY <2>2, ReplyStep DEF Answer
    <3>2. Register!Change(v)
      BY <2>1, <3>1, <1>c DEF Register!Change, Register!Changer
    <3> QED
      BY <3>2 DEF Register!RNext
  <2>3. CASE UNCHANGED files /\ Fail(v, "io")
    BY <2>1, <2>3, <1>2 DEF Register!Failures
  <2> QED
    BY <1>19, <2>2, <2>3 DEF CreateFill, MutateEntry
<1> QED
  BY <1>4, <1>5, <1>6, <1>d, <1>e, <1>7, <1>8, <1>9, <1>10, <1>11, <1>12, <1>14, <1>15, <1>16,
     <1>17, <1>18, <1>19 DEF Moves, WorkerStep

LEMMA RegisterInit == Init => Register!RInit
BY DEF Init, Register!RInit, RegisterCall, HasReplaced

\* Undisturbed by the world outside, the revision layer is an atomic register:
\* every behaviour of the store, for any number of workers, contents, calls and
\* either clock, is a behaviour of AtomicRegister under the refinement mapping.
THEOREM ImplementsAtomicRegister ==
  ASSUME Undisturbed
  PROVE  Spec => ImplementsRegister
<1>1. TypeInv /\ SectionInv /\ QuietInv /\ [Next]_vars
        => [Register!RNext]_(Register!rvars)
  <2> SUFFICES ASSUME TypeInv, SectionInv, QuietInv, [Next]_vars
               PROVE  Register!RNext \/ UNCHANGED Register!rvars
    OBVIOUS
  <2>1. UNCHANGED vars => UNCHANGED Register!rvars
    BY DEF vars, files, Register!rvars, RegisterState, RegisterCall, HasReplaced, Current,
           RevisionOf, NotCalling, Inodes, MaxInodes
  <2> QED
    BY <2>1, OnlyWorkers, RegisterStep
<1>2. TypeInv /\ SectionInv /\ QuietInv /\ [Next]_vars => QuietInv'
  BY QuietNext
<1> QED
  BY <1>1, <1>2, TypeInit, TypeNext, SectionInit, SectionNext, QuietInit, RegisterInit, PTL DEF Spec, ImplementsRegister, Register!RSpec
=============================================================================
