--------------------------- MODULE DirCacheProofs ---------------------------
(***************************************************************************)
(* Proofs about DirCache for any number of names of the directory, changes *)
(* of it, connections and commands.                                        *)
(***************************************************************************)
EXTENDS DirCache, FiniteSetTheorems, WellFoundedInduction, NaturalsInduction, SequenceTheorems, TLAPS

-----------------------------------------------------------------------------
(* The inductive invariant *)

Events == {"child", "self", "overflow", "parent"}
Ops == {"watch", "add", "unwatch", "listing", "rewarm", "stat"}
Listed == [entry : Nat, key : Int, period : Nat, how : {"none", "fetched", "kept"}]
Messages == [op : Events \cup Ops, alias : Aliases, epoch : Nat, stage : {"sent", "open", "replied"},
             entry : Nat, key : Int, period : Nat, ok : BOOLEAN, old : Listed]

DiskOK == entry \in 0 .. clock /\ mtime \in 0 .. clock /\ clock \in 0 .. MaxChanges /\ exists \in BOOLEAN

\* Nobody is watched who is not in the table.
TableOK ==
  /\ watcher \in BOOLEAN /\ osWatch \in BOOLEAN /\ table \in Seq(Aliases) /\ IsInjective(table)
  /\ osWatch => table # <<>>
  /\ periods \in Nat /\ period \in [Aliases -> 0 .. periods]
  /\ \A a \in Aliases : period[a] # 0 => osWatch /\ a \in Range(table)
  /\ osQueue \in Seq({"child", "self"})

ClientOK ==
  /\ blocked \subseteq Aliases /\ direct \subseteq Aliases /\ epoch \in Nat
  /\ cache \in [Aliases -> Listed] /\ kept \in [Aliases -> Listed]

\* The entry is there in one of e and f exactly if it is in the other.
SamePresence(e, f) == (e = 0) <=> (f = 0)

\* An entry and a key that goes with it: as long as the directory has this
\* mtime, the entry is there or not as it was.
KeyTells(e, k, a) ==
  /\ e <= clock /\ 0 <= k /\ k <= clock
  /\ a = Canon /\ k = mtime => SamePresence(e, entry)

KeptOK(x, a) == x.how = "kept" /\ x.period = 0 /\ KeyTells(x.entry, x.key, a)

KeptInv == \A a \in Aliases : kept[a] = Nothing \/ KeptOK(kept[a], a)

\* The alias is in watch period p, and nothing is announced to it.
Quiet(p, a) == p # 0 /\ p = period[a] /\ ~Announced(a)

\* No message is newer than the state; a stat has a listing to validate.
Dated(r) ==
  /\ r.epoch <= epoch /\ r.entry <= clock /\ r.key <= clock /\ r.period <= periods
  /\ r.op = "stat" => KeptOK(r.old, r.alias)

Asked(r) == Dated(r) /\ r.op \in Ops /\ r.stage = "sent" /\ r.key = 0

Job(r) ==
  /\ Dated(r) /\ r.op \in {"listing", "rewarm", "stat"} /\ r.stage \in {"sent", "open"}
  /\ 0 <= r.key /\ (r.stage = "open" => r.op # "stat")

\* A reply of this epoch is as good as a fresh one while nothing is announced.
Reply(r) ==
  /\ Dated(r) /\ r.op \in {"add", "listing", "rewarm", "stat"} /\ r.stage = "replied"
  /\ r.op \in {"listing", "rewarm"} /\ r.ok =>
       /\ KeyTells(r.entry, r.key, r.alias)
       /\ r.epoch = epoch /\ Quiet(r.period, r.alias) => r.entry = entry
  /\ r.op = "stat" /\ r.alias = Canon /\ r.key = r.old.key /\ r.epoch = epoch /\ Quiet(r.period, r.alias) =>
       SamePresence(r.old.entry, entry)

IsEvent(r) == Dated(r) /\ r.op \in Events /\ r.stage = "sent"

WireInv ==
  /\ inbox \in Seq(Messages) /\ jobs \subseteq Messages /\ outbox \in Seq(Messages) /\ due \in Seq(Messages)
  /\ \A r \in Range(inbox) : Asked(r)
  /\ \A r \in jobs : Job(r)
  /\ \A r \in Range(outbox) : IsEvent(r) \/ Reply(r)
  /\ \A r \in Range(due) : Reply(r) /\ r.op # "add"

CacheOK(a) ==
  /\ cache[a].entry <= clock /\ -1 <= cache[a].key /\ cache[a].key <= clock /\ cache[a].period <= periods
  /\ Quiet(cache[a].period, a) =>
       /\ cache[a].how = "fetched" => cache[a].entry = entry
       /\ cache[a].how = "kept" /\ a = Canon => SamePresence(cache[a].entry, entry)

CacheInv == \A a \in Aliases : CacheOK(a)

Inv == DiskOK /\ TableOK /\ ClientOK /\ KeptInv /\ WireInv /\ CacheInv

-----------------------------------------------------------------------------
(* Sequences *)

LEMMA RangeOf ==
  ASSUME NEW T, NEW s \in Seq(T)
  PROVE  /\ \A x : x \in Range(s) <=> \E i \in 1 .. Len(s) : x = s[i]
         /\ \A x \in Range(s) : x \in T
<1>1. DOMAIN s = 1 .. Len(s) /\ \A i \in 1 .. Len(s) : s[i] \in T
  OBVIOUS
<1>2. \A x : x \in Range(s) <=> \E i \in DOMAIN s : x = s[i]
  BY DEF Range
<1> QED
  BY <1>1, <1>2

LEMMA RangeEmpty == Range(<<>>) = {}
<1>1. DOMAIN <<>> = {}
  OBVIOUS
<1> QED
  BY <1>1 DEF Range

LEMMA RangeAppend ==
  ASSUME NEW T, NEW s \in Seq(T), NEW x \in T
  PROVE  Append(s, x) \in Seq(T) /\ Range(Append(s, x)) = Range(s) \cup {x}
<1>1. PICK n, r : n = Len(s) /\ r = Append(s, x)
  OBVIOUS
<1>2. r \in Seq(T) /\ n \in Nat /\ Len(r) = n + 1 /\ r[n + 1] = x /\ \A i \in 1 .. n : r[i] = s[i]
  BY <1>1, AppendProperties
<1>3. \A y : /\ y \in Range(r) <=> \E i \in 1 .. n + 1 : y = r[i]
             /\ y \in Range(s) <=> \E i \in 1 .. n : y = s[i]
  <2>1. \A y : y \in Range(r) <=> \E i \in 1 .. n + 1 : y = r[i]
    BY <1>2, RangeOf
  <2>2. \A y : y \in Range(s) <=> \E i \in 1 .. n : y = s[i]
    BY <1>1, RangeOf
  <2> QED
    BY <2>1, <2>2
<1>4. \A i : i \in 1 .. n + 1 <=> i \in 1 .. n \/ i = n + 1
  BY <1>2
<1> QED
  BY <1>1, <1>2, <1>3, <1>4

LEMMA RangeConcat ==
  ASSUME NEW T, NEW s \in Seq(T), NEW t \in Seq(T)
  PROVE  s \o t \in Seq(T) /\ Range(s \o t) = Range(s) \cup Range(t)
<1>1. PICK n, m, r : n = Len(s) /\ m = Len(t) /\ r = s \o t
  OBVIOUS
<1>2. /\ r \in Seq(T) /\ n \in Nat /\ m \in Nat /\ Len(r) = n + m
      /\ \A i \in 1 .. n + m : r[i] = IF i <= n THEN s[i] ELSE t[i - n]
  BY <1>1, ConcatProperties
<1>3. \A y : /\ y \in Range(r) <=> \E i \in 1 .. n + m : y = r[i]
             /\ y \in Range(s) <=> \E i \in 1 .. n : y = s[i]
             /\ y \in Range(t) <=> \E i \in 1 .. m : y = t[i]
  <2>1. \A y : y \in Range(r) <=> \E i \in 1 .. n + m : y = r[i]
    BY <1>2, RangeOf
  <2>2. \A y : y \in Range(s) <=> \E i \in 1 .. n : y = s[i]
    BY <1>1, RangeOf
  <2>3. \A y : y \in Range(t) <=> \E i \in 1 .. m : y = t[i]
    BY <1>1, RangeOf
  <2> QED
    BY <2>1, <2>2, <2>3
<1>4. \A i \in 1 .. n : i \in 1 .. n + m /\ r[i] = s[i]
  BY <1>2
<1>5. \A i \in 1 .. m : i + n \in 1 .. n + m /\ r[i + n] = t[i]
  <2>1. SUFFICES ASSUME NEW i \in 1 .. m PROVE i + n \in 1 .. n + m /\ r[i + n] = t[i]
    OBVIOUS
  <2>2. i + n \in 1 .. n + m /\ ~(i + n <= n) /\ (i + n) - n = i
    BY <1>2
  <2> QED
    BY <1>2, <2>2
<1>6. \A i \in 1 .. n + m : (i \in 1 .. n /\ r[i] = s[i]) \/ (i - n \in 1 .. m /\ r[i] = t[i - n])
  <2>1. \A i \in 1 .. n + m : IF i <= n THEN i \in 1 .. n ELSE i - n \in 1 .. m
    BY <1>2
  <2> QED
    BY <1>2, <2>1
<1>7. \A y : y \in Range(r) <=> y \in Range(s) \/ y \in Range(t)
  BY <1>3, <1>4, <1>5, <1>6
<1> QED
  BY <1>1, <1>2, <1>7

LEMMA RangeTail ==
  ASSUME NEW T, NEW s \in Seq(T), s # <<>>
  PROVE  Tail(s) \in Seq(T) /\ Head(s) \in T /\ Head(s) \in Range(s) /\ Range(s) = Range(Tail(s)) \cup {Head(s)}
<1>1. PICK n, r : n = Len(r) /\ r = Tail(s)
  OBVIOUS
<1>2. r \in Seq(T) /\ n \in Nat /\ Len(r) = n /\ Len(s) = n + 1 /\ Head(s) = s[1] /\ \A i \in 1 .. n : r[i] = s[i + 1]
  BY <1>1, HeadTailProperties
<1>3. \A y : /\ y \in Range(r) <=> \E i \in 1 .. n : y = r[i]
             /\ y \in Range(s) <=> \E i \in 1 .. n + 1 : y = s[i]
             /\ y \in Range(s) => y \in T
  <2>1. \A y : y \in Range(r) <=> \E i \in 1 .. n : y = r[i]
    <3>1. r \in Seq(T)
      BY <1>2
    <3>2. \A y : y \in Range(r) <=> \E i \in 1 .. Len(r) : y = r[i]
      BY <3>1, RangeOf
    <3> QED
      BY <1>2, <3>2
  <2>2. \A y : y \in Range(s) <=> \E i \in 1 .. n + 1 : y = s[i]
    BY <1>2, RangeOf
  <2>3. \A y : y \in Range(s) => y \in T
    BY RangeOf
  <2> QED
    BY <2>1, <2>2, <2>3
<1>4. 1 \in 1 .. n + 1 /\ \A i \in 1 .. n : i + 1 \in 1 .. n + 1
  BY <1>2
<1>5. \A i \in 1 .. n + 1 : i = 1 \/ (i - 1 \in 1 .. n /\ (i - 1) + 1 = i)
  BY <1>2
<1>6. \A i \in 1 .. n + 1 : s[i] = s[1] \/ \E j \in 1 .. n : s[i] = r[j]
  BY <1>2, <1>5
<1>7. Range(s) = Range(r) \cup {s[1]}
  BY <1>2, <1>3, <1>4, <1>6
<1> QED
  BY <1>1, <1>2, <1>3, <1>7

\* What is left when element k is taken out.
LEMMA RangeRemoveAt ==
  ASSUME NEW T, NEW s \in Seq(T), NEW k \in 1 .. Len(s), NEW r, r = RemoveAt(s, k)
  PROVE  /\ r \in Seq(T) /\ Range(r) \subseteq Range(s) /\ \A x \in Range(s) : x # s[k] => x \in Range(r)
         /\ IsInjective(s) => IsInjective(r) /\ s[k] \notin Range(r)
<1>1. PICK n, p, q : n = Len(s) /\ p = SubSeq(s, 1, k - 1) /\ q = SubSeq(s, k + 1, n)
  OBVIOUS
<1>2. n \in Nat /\ k \in Nat /\ k <= n /\ 1 <= k /\ r = p \o q
  BY <1>1 DEF RemoveAt
<1>3. \A i \in 1 .. n : s[i] \in T
  BY <1>1
<1>4. p \in Seq(T) /\ Len(p) = k - 1 /\ \A i \in 1 .. k - 1 : p[i] = s[i]
  <2>1. \A i \in 1 .. k - 1 : s[i] \in T
    BY <1>2, <1>3
  <2>2. /\ SubSeq(s, 1, k - 1) \in Seq(T)
        /\ Len(SubSeq(s, 1, k - 1)) = IF 1 <= k - 1 THEN (k - 1) - 1 + 1 ELSE 0
        /\ \A i \in 1 .. (k - 1) - 1 + 1 : SubSeq(s, 1, k - 1)[i] = s[1 + i - 1]
    BY <1>2, <2>1, SubSeqProperties
  <2>3. \A i \in 1 .. k - 1 : 1 + i - 1 = i /\ i \in 1 .. (k - 1) - 1 + 1
    BY <1>2
  <2> QED
    BY <1>1, <1>2, <2>2, <2>3
<1>5. q \in Seq(T) /\ Len(q) = n - k /\ \A i \in 1 .. n - k : q[i] = s[k + i]
  <2>1. \A i \in k + 1 .. n : s[i] \in T
    BY <1>2, <1>3
  <2>2. /\ SubSeq(s, k + 1, n) \in Seq(T)
        /\ Len(SubSeq(s, k + 1, n)) = IF k + 1 <= n THEN n - (k + 1) + 1 ELSE 0
        /\ \A i \in 1 .. n - (k + 1) + 1 : SubSeq(s, k + 1, n)[i] = s[(k + 1) + i - 1]
    BY <1>2, <2>1, SubSeqProperties
  <2>3. \A i \in 1 .. n - k : (k + 1) + i - 1 = k + i /\ i \in 1 .. n - (k + 1) + 1
    BY <1>2
  <2> QED
    BY <1>1, <1>2, <2>2, <2>3
<1>6. r \in Seq(T) /\ Len(r) = n - 1 /\ \A i \in 1 .. n - 1 : r[i] = IF i < k THEN s[i] ELSE s[i + 1]
  <2>1. /\ r \in Seq(T) /\ Len(r) = (k - 1) + (n - k)
        /\ \A i \in 1 .. (k - 1) + (n - k) : r[i] = IF i <= k - 1 THEN p[i] ELSE q[i - (k - 1)]
    <3>1. /\ p \o q \in Seq(T) /\ Len(p \o q) = Len(p) + Len(q)
          /\ \A i \in 1 .. Len(p) + Len(q) : (p \o q)[i] = IF i <= Len(p) THEN p[i] ELSE q[i - Len(p)]
      BY <1>4, <1>5, ConcatProperties
    <3> QED
      BY <1>2, <1>4, <1>5, <3>1
  <2>2. Len(r) = n - 1
    BY <1>2, <2>1
  <2>3. \A i \in 1 .. n - 1 : r[i] = IF i < k THEN s[i] ELSE s[i + 1]
    <3>1. SUFFICES ASSUME NEW i \in 1 .. n - 1 PROVE r[i] = IF i < k THEN s[i] ELSE s[i + 1]
      OBVIOUS
    <3>2. i \in 1 .. (k - 1) + (n - k)
      BY <1>2
    <3>3. CASE i < k
      <4>1. i <= k - 1 /\ i \in 1 .. k - 1
        BY <1>2, <3>3
      <4> QED
        BY <1>4, <2>1, <3>2, <3>3, <4>1
    <3>4. CASE ~(i < k)
      <4>1. ~(i <= k - 1) /\ i - (k - 1) \in 1 .. n - k /\ k + (i - (k - 1)) = i + 1
        BY <1>2, <3>4
      <4>2. r[i] = q[i - (k - 1)]
        BY <2>1, <3>2, <4>1
      <4>3. q[i - (k - 1)] = s[i + 1]
        BY <1>5, <4>1
      <4> QED
        BY <3>4, <4>2, <4>3
    <3> QED
      BY <3>3, <3>4
  <2> QED
    BY <2>1, <2>2, <2>3
<1>7. \A y : /\ y \in Range(r) <=> \E i \in 1 .. n - 1 : y = r[i]
             /\ y \in Range(s) <=> \E i \in 1 .. n : y = s[i]
  BY <1>1, <1>6, RangeOf
<1>8. \A i \in 1 .. n - 1 : i \in 1 .. n /\ i + 1 \in 1 .. n /\ (i < k => i # k) /\ (~(i < k) => i + 1 # k)
  BY <1>2
<1>9. \A i \in 1 .. n - 1 : \E j \in 1 .. n : j # k /\ r[i] = s[j]
  BY <1>6, <1>8
<1>10. \A j \in 1 .. n : j # k => \E i \in 1 .. n - 1 : r[i] = s[j]
  <2>1. SUFFICES ASSUME NEW j \in 1 .. n, j # k PROVE \E i \in 1 .. n - 1 : r[i] = s[j]
    OBVIOUS
  <2>2. CASE j < k
    <3>1. j \in 1 .. n - 1
      BY <1>2, <2>2
    <3> QED
      BY <1>6, <2>2, <3>1
  <2>3. CASE ~(j < k)
    <3>1. j - 1 \in 1 .. n - 1 /\ ~(j - 1 < k) /\ (j - 1) + 1 = j
      BY <1>2, <2>1, <2>3
    <3> QED
      BY <1>6, <3>1
  <2> QED
    BY <2>2, <2>3
<1>11. ASSUME IsInjective(s) PROVE IsInjective(r) /\ s[k] \notin Range(r)
  <2>1. \A i, j \in 1 .. n : s[i] = s[j] => i = j
    BY <1>1, <1>11 DEF IsInjective
  <2>2. s[k] \notin Range(r)
    <3>1. \A i \in 1 .. n - 1 : s[k] # r[i]
      BY <1>1, <1>9, <2>1
    <3> QED
      BY <1>7, <3>1
  <2>3. ASSUME NEW i \in 1 .. n - 1, NEW j \in 1 .. n - 1, r[i] = r[j] PROVE i = j
    <3>1. PICK x \in 1 .. n : x = (IF i < k THEN i ELSE i + 1) /\ r[i] = s[x]
      BY <1>6, <1>8
    <3>2. PICK y \in 1 .. n : y = (IF j < k THEN j ELSE j + 1) /\ r[j] = s[y]
      BY <1>6, <1>8
    <3>3. x = y
      BY <2>1, <2>3, <3>1, <3>2
    <3> QED
      BY <1>2, <3>1, <3>2, <3>3
  <2>4. DOMAIN r = 1 .. n - 1
    BY <1>6
  <2> QED
    BY <2>2, <2>3, <2>4 DEF IsInjective
<1>12. \A x \in Range(r) : x \in Range(s)
  BY <1>7, <1>9
<1>13. \A x \in Range(s) : x # s[k] => x \in Range(r)
  BY <1>7, <1>10
<1> QED
  BY <1>6, <1>11, <1>12, <1>13

LEMMA LeastIndex ==
  ASSUME NEW I, I \subseteq Nat, I # {}
  PROVE  Min(I) \in I
<1>1. PICK R : R = OpToRel(<, Nat)
  OBVIOUS
<1>2. \A x, y \in Nat : x < y => <<x, y>> \in R
  BY <1>1 DEF OpToRel
<1>3. IsWellFoundedOn(R, Nat)
  BY <1>1, NatLessThanWellFounded
<1>4. PICK x \in I : \A y \in I : ~(<<y, x>> \in R)
  BY <1>3, WFMin
<1>5. \A y \in I : ~(y < x) /\ x \in Nat /\ y \in Nat
  BY <1>2, <1>4
<1>6. \A y \in I : x <= y
  BY <1>5
<1> QED
  BY <1>6 DEF Min

\* The first of the elements concerned is taken out, if there is one.
LEMMA GivenUpKeeps ==
  ASSUME NEW T, NEW s \in Seq(T)
  PROVE  /\ GivenUp(s) \in Seq(T) /\ Range(GivenUp(s)) \subseteq Range(s)
         /\ \A x \in Range(s) : ~Waited(x) => x \in Range(GivenUp(s))
<1>1. PICK I : I = {i \in 1 .. Len(s) : Waited(s[i])}
  OBVIOUS
<1>2. CASE I = {}
  <2>1. GivenUp(s) = s
    BY <1>1, <1>2 DEF GivenUp, RemoveFirstMatch
  <2> QED
    BY <2>1
<1>3. CASE I # {}
  <2>1. I \subseteq Nat
    BY <1>1
  <2>2. PICK k, r : k = Min(I) /\ r = RemoveAt(s, k)
    OBVIOUS
  <2>3. k \in 1 .. Len(s) /\ Waited(s[k])
    BY <1>1, <1>3, <2>1, <2>2, LeastIndex
  <2>4. GivenUp(s) = r
    BY <1>1, <1>3, <2>2 DEF GivenUp, RemoveFirstMatch, SelectInSeq
  <2>5. r \in Seq(T) /\ Range(r) \subseteq Range(s) /\ \A x \in Range(s) : x # s[k] => x \in Range(r)
    BY <2>2, <2>3, RangeRemoveAt
  <2> QED
    BY <2>3, <2>4, <2>5
<1> QED
  BY <1>2, <1>3

LEMMA ListingGivenUp ==
  ASSUME NEW T, NEW s \in Seq(T), NEW r, r = RemoveFirstMatch(s, LAMBDA x : x.op = "listing")
  PROVE  r \in Seq(T) /\ Range(r) \subseteq Range(s)
<1>1. PICK I : I = {i \in 1 .. Len(s) : s[i].op = "listing"}
  OBVIOUS
<1>2. CASE I = {}
  <2>1. r = s
    BY <1>1, <1>2 DEF RemoveFirstMatch
  <2> QED
    BY <2>1
<1>3. CASE I # {}
  <2>1. I \subseteq Nat
    BY <1>1
  <2>2. PICK k : k = Min(I)
    OBVIOUS
  <2>3. k \in 1 .. Len(s)
    BY <1>1, <1>3, <2>1, <2>2, LeastIndex
  <2>4. r = RemoveAt(s, k)
    BY <1>1, <1>3, <2>2 DEF RemoveFirstMatch, SelectInSeq
  <2> QED
    BY <2>3, <2>4, RangeRemoveAt
<1> QED
  BY <1>2, <1>3

LEMMA RemoveFirstKeeps ==
  ASSUME NEW T, NEW s \in Seq(T), IsInjective(s), NEW e, NEW r, r = RemoveFirst(s, e)
  PROVE  /\ r \in Seq(T) /\ IsInjective(r)
         /\ \A x : x \in Range(r) <=> x \in Range(s) /\ x # e
<1>1. PICK I : I = {i \in 1 .. Len(s) : s[i] = e}
  OBVIOUS
<1>2. CASE I = {}
  <2>1. r = s
    BY <1>1, <1>2 DEF RemoveFirst
  <2>2. e \notin Range(s)
    <3>1. \A i \in 1 .. Len(s) : s[i] # e
      BY <1>1, <1>2
    <3> QED
      BY <3>1, RangeOf
  <2> QED
    BY <2>1, <2>2
<1>3. CASE I # {}
  <2>1. I \subseteq Nat
    BY <1>1
  <2>2. PICK k : k = Min(I)
    OBVIOUS
  <2>3. k \in 1 .. Len(s) /\ s[k] = e
    BY <1>1, <1>3, <2>1, <2>2, LeastIndex
  <2>4. r = RemoveAt(s, k)
    BY <1>1, <1>3, <2>2 DEF RemoveFirst, SelectInSeq
  <2>5. /\ r \in Seq(T) /\ Range(r) \subseteq Range(s) /\ (\A x \in Range(s) : x # s[k] => x \in Range(r))
        /\ IsInjective(r) /\ s[k] \notin Range(r)
    BY <2>3, <2>4, RangeRemoveAt
  <2> QED
    BY <2>3, <2>5
<1> QED
  BY <1>2, <1>3

LEMMA SetToSeqKeeps ==
  ASSUME NEW S, IsFiniteSet(S)
  PROVE  SetToSeq(S) \in Seq(S)
<1>1. PICK n : n = Cardinality(S)
  OBVIOUS
<1>2. n \in Nat /\ ExistsBijection(1 .. n, S)
  BY <1>1, FS_CardinalityType
<1>3. PICK f \in [1 .. n -> S] : IsInjective(f)
  BY <1>2 DEF ExistsBijection, Bijection, Injection
<1>4. SetToSeq(S) \in [1 .. n -> S]
  BY <1>1, <1>3 DEF SetToSeq
<1> QED
  BY <1>2, <1>4

-----------------------------------------------------------------------------
(* Messages *)

LEMMA NothingListed == Nothing \in Listed /\ Nothing.entry = 0 /\ Nothing.key = 0 /\ Nothing.period = 0 /\ Nothing.how = "none"
BY DEF Nothing, Listed

LEMMA RequestIs ==
  ASSUME NEW op \in Events \cup Ops, NEW a \in Aliases, NEW e \in Nat, op = "stat" => kept[a] \in Listed, NEW r, r = Request(op, a, e)
  PROVE  /\ r \in Messages /\ r.op = op /\ r.alias = a /\ r.epoch = e /\ r.stage = "sent" /\ r.entry = 0 /\ r.key = 0 /\ r.period = 0
         /\ op = "stat" => r.old = kept[a]
BY NothingListed DEF Request, Messages

LEMMA MessageFields ==
  ASSUME NEW r \in Messages
  PROVE  /\ r.alias \in Aliases /\ r.epoch \in Nat /\ r.entry \in Nat /\ r.key \in Int /\ r.period \in Nat /\ r.ok \in BOOLEAN
         /\ r.old \in Listed /\ r.old.entry \in Nat /\ r.old.key \in Int /\ r.old.period \in Nat
BY DEF Messages, Listed

LEMMA InitInv == Init => Inv
<1> SUFFICES ASSUME Init PROVE Inv
  OBVIOUS
<1>1. DiskOK
  BY DirCacheAssumption DEF Init, DiskOK
<1>2. TableOK
  <2>1. <<>> \in Seq(Aliases) /\ IsInjective(<<>>) /\ <<>> \in Seq({"child", "self"})
    BY DEF IsInjective
  <2>2. period \in [Aliases -> 0 .. periods] /\ \A a \in Aliases : period[a] = 0
    BY DEF Init
  <2> QED
    BY <2>1, <2>2 DEF Init, TableOK
<1>3. ClientOK
  BY NothingListed DEF Init, ClientOK
<1>4. WireInv
  <2>1. <<>> \in Seq(Messages) /\ Range(<<>>) = {}
    BY RangeEmpty
  <2> QED
    BY <2>1 DEF Init, WireInv
<1>5. KeptInv
  BY DEF Init, KeptInv
<1>6. CacheInv
  BY NothingListed DEF Init, CacheInv, CacheOK, Quiet
<1> QED
  BY <1>1, <1>2, <1>3, <1>4, <1>5, <1>6 DEF Inv

LEMMA InvTypes == Inv => TypeOK
<1> SUFFICES ASSUME Inv PROVE TypeOK
  OBVIOUS
<1>1. clock \in Nat /\ clock <= MaxChanges /\ periods \in Nat /\ MaxChanges \in Nat
  BY DirCacheAssumption DEF Inv, DiskOK, TableOK
<1>2. ASSUME NEW a \in Aliases PROVE cache[a] \in Listings
  <2>1. PICK x : x = cache[a]
    OBVIOUS
  <2>2. /\ x \in Listed /\ x.entry \in Nat /\ x.key \in Int /\ x.period \in Nat /\ x.entry <= clock /\ -1 <= x.key /\ x.key <= clock
        /\ x.period <= periods /\ x.how \in {"none", "fetched", "kept"}
    BY <2>1 DEF Inv, ClientOK, CacheInv, CacheOK, Listed
  <2>3. x.entry \in 0 .. MaxChanges /\ x.key \in NoMtime .. MaxChanges /\ x.period \in 0 .. periods
    BY <1>1, <2>2 DEF NoMtime
  <2>4. x = [entry |-> x.entry, key |-> x.key, period |-> x.period, how |-> x.how]
    BY <2>2 DEF Listed
  <2> QED
    BY <2>1, <2>2, <2>3, <2>4 DEF Listings
<1>3. ASSUME NEW a \in Aliases PROVE kept[a] \in Listings
  <2>1. PICK x : x = kept[a]
    OBVIOUS
  <2>2. x \in Listed /\ x.entry \in Nat /\ x.key \in Int /\ x.period \in Nat /\ x.how \in {"none", "fetched", "kept"}
    BY <2>1 DEF Inv, ClientOK, Listed
  <2>3. x.entry <= clock /\ 0 <= x.key /\ x.key <= clock /\ x.period = 0
    <3>1. CASE x = Nothing
      BY <1>1, <3>1, NothingListed
    <3>2. CASE KeptOK(x, a)
      BY <3>2 DEF KeptOK, KeyTells
    <3> QED
      BY <2>1, <3>1, <3>2 DEF Inv, KeptInv
  <2>4. x.entry \in 0 .. MaxChanges /\ x.key \in NoMtime .. MaxChanges /\ x.period \in 0 .. periods
    BY <1>1, <2>2, <2>3 DEF NoMtime
  <2>5. x = [entry |-> x.entry, key |-> x.key, period |-> x.period, how |-> x.how]
    BY <2>2 DEF Listed
  <2> QED
    BY <2>1, <2>2, <2>4, <2>5 DEF Listings
<1>4. cache \in [Aliases -> Listings] /\ kept \in [Aliases -> Listings]
  BY <1>2, <1>3 DEF Inv, ClientOK
<1> QED
  BY <1>4 DEF Inv, DiskOK, TableOK, ClientOK, TypeOK

LEMMA InvCovers == Inv => CoveredIsCurrent
<1> SUFFICES ASSUME Inv, NEW a \in Aliases, Covered(a), Differs(a), cache[a].how = "kept" => a = Canon PROVE Announced(a)
  BY DEF CoveredIsCurrent
<1>1. SUFFICES ASSUME ~Announced(a) PROVE FALSE
  OBVIOUS
<1>2. Quiet(cache[a].period, a)
  BY <1>1 DEF Quiet, Covered
<1>3. /\ cache[a].how = "fetched" => cache[a].entry = entry
      /\ cache[a].how = "kept" /\ a = Canon => SamePresence(cache[a].entry, entry)
  BY <1>2 DEF Inv, CacheInv, CacheOK
<1> QED
  BY <1>3 DEF Differs, SamePresence

-----------------------------------------------------------------------------
(* What a step does to the disk and to the clocks *)

LEMMA NextDisk ==
  ASSUME Inv, [Next]_vars
  PROVE  /\ DiskOK' /\ clock <= clock'
         /\ (mtime' = mtime /\ SamePresence(entry, entry')) \/ mtime' > clock
<1>1. entry \in Nat /\ entry <= clock /\ mtime \in Nat /\ mtime <= clock /\ clock \in Nat /\ clock <= MaxChanges /\ MaxChanges \in Nat /\ exists \in BOOLEAN
  BY DirCacheAssumption DEF Inv, DiskOK
<1>2. CASE Change
  BY <1>1, <1>2 DEF Change, DiskOK, SamePresence
<1>3. CASE RemoveDir
  <2>1. exists' \in BOOLEAN /\ clock' = clock + 1 /\ entry' = entry /\ mtime' = mtime /\ clock < MaxChanges
    BY <1>3 DEF RemoveDir
  <2> QED
    BY <1>1, <2>1 DEF DiskOK, SamePresence
<1>4. CASE MakeDir
  BY <1>1, <1>4 DEF MakeDir, DiskOK, SamePresence
<1>5. CASE UNCHANGED disk
  BY <1>1, <1>5 DEF disk, DiskOK, SamePresence
<1>6. CASE PassOn \/ Overflow \/ Take \/ TimeOut \/ RunCallback \/ Dispatch \/ Connect
  BY <1>5, <1>6 DEF PassOn, Overflow, Take, TimeOut, RunCallback, Dispatch, Connect
<1>7. CASE \E r \in jobs : Work(r)
  BY <1>5, <1>7 DEF Work
<1>8. CASE \E a \in Aliases : Listing(a) \/ AddWatch(a) \/ RemoveWatch(a)
  BY <1>5, <1>8 DEF Listing, AddWatch, RemoveWatch
<1>9. CASE UNCHANGED vars
  BY <1>5, <1>9 DEF vars
<1> QED
  BY <1>2, <1>3, <1>4, <1>6, <1>7, <1>8, <1>9 DEF Next

\* Where the directory's mtime has not moved the entry is as it was, so what a
\* key tells stays true.
LEMMA KeyStillTells ==
  ASSUME Inv, [Next]_vars, NEW e \in Nat, NEW k \in Int, NEW a, KeyTells(e, k, a)
  PROVE  KeyTells(e, k, a)'
<1>1. clock \in Nat /\ clock' \in Nat /\ clock <= clock' /\ mtime' \in Nat /\ ((mtime' = mtime /\ SamePresence(entry, entry')) \/ mtime' > clock)
  <2>1. DiskOK' /\ clock <= clock' /\ ((mtime' = mtime /\ SamePresence(entry, entry')) \/ mtime' > clock)
    BY NextDisk
  <2> QED
    BY <2>1 DEF Inv, DiskOK
<1>2. e <= clock' /\ 0 <= k /\ k <= clock'
  BY <1>1 DEF KeyTells
<1>3. ASSUME a = Canon, k = mtime' PROVE SamePresence(e, entry')
  <2>1. k = mtime /\ SamePresence(entry, entry')
    BY <1>1, <1>3 DEF KeyTells
  <2> QED
    BY <1>3, <2>1 DEF KeyTells, SamePresence
<1> QED
  BY <1>2, <1>3 DEF KeyTells, SamePresence

LEMMA KeptStays ==
  ASSUME Inv, [Next]_vars, NEW x \in Listed, NEW a, KeptOK(x, a)
  PROVE  KeptOK(x, a)'
<1>1. x.entry \in Nat /\ x.key \in Int
  BY DEF Listed
<1>2. PICK e, k : e = x.entry /\ k = x.key
  OBVIOUS
<1>3. KeyTells(e, k, a) /\ x.how = "kept" /\ x.period = 0
  BY <1>2 DEF KeptOK
<1>4. KeyTells(e, k, a)'
  BY <1>1, <1>2, <1>3, KeyStillTells
<1> QED
  BY <1>2, <1>3, <1>4 DEF KeptOK

-----------------------------------------------------------------------------
(* The watch table *)

LEMMA TableHas ==
  ASSUME TableOK, NEW a
  PROVE  Registered(a) <=> a \in Range(table)
<1>1. DOMAIN table = 1 .. Len(table)
  BY DEF TableOK
<1>2. a \in Range(table) <=> \E i \in 1 .. Len(table) : a = table[i]
  BY RangeOf DEF TableOK
<1> QED
  BY <1>1, <1>2 DEF Registered

LEMMA WithKeeps ==
  ASSUME TableOK, NEW a \in Aliases, NEW t, t = With(a)
  PROVE  t \in Seq(Aliases) /\ IsInjective(t) /\ t # <<>> /\ Range(t) = Range(table) \cup {a}
<1>1. table \in Seq(Aliases) /\ IsInjective(table)
  BY DEF TableOK
<1>2. CASE Registered(a)
  <2>1. a \in Range(table) /\ t = table
    BY <1>2, TableHas DEF With
  <2>2. table # <<>>
    BY <2>1, RangeEmpty
  <2> QED
    BY <1>1, <2>1, <2>2
<1>3. CASE ~Registered(a)
  <2>1. a \notin Range(table) /\ t = Append(table, a)
    BY <1>3, TableHas DEF With
  <2>2. t \in Seq(Aliases) /\ Range(t) = Range(table) \cup {a}
    BY <1>1, <2>1, RangeAppend
  <2>3. PICK n : n = Len(table)
    OBVIOUS
  <2>4. n \in Nat /\ Len(t) = n + 1 /\ t[n + 1] = a /\ \A i \in 1 .. n : t[i] = table[i]
    BY <1>1, <2>1, <2>3, AppendProperties
  <2>5. \A i \in 1 .. n : table[i] # a
    BY <1>1, <2>1, <2>3, RangeOf
  <2>6. \A i, j \in 1 .. n : table[i] = table[j] => i = j
    BY <1>1, <2>3 DEF IsInjective
  <2>7. \A i \in 1 .. n + 1 : i \in 1 .. n \/ i = n + 1
    BY <2>4
  <2>8. \A i, j \in 1 .. n + 1 : t[i] = t[j] => i = j
    BY <2>4, <2>5, <2>6, <2>7
  <2>9. DOMAIN t = 1 .. n + 1
    BY <2>2, <2>4
  <2>10. t # <<>>
    <3>1. a \in Range(t)
      BY <2>2
    <3> QED
      BY <3>1, RangeEmpty
  <2> QED
    BY <2>2, <2>8, <2>9, <2>10 DEF IsInjective
<1> QED
  BY <1>2, <1>3

\* A period begins only for an alias that has none, and is a new one.
NewPeriods ==
  /\ periods <= periods'
  /\ \A b \in Aliases : period'[b] = period[b] \/ period'[b] = 0 \/ period'[b] = periods + 1

LEMMA WatchKeeps ==
  ASSUME TableOK, NEW a \in Aliases, NEW ok \in BOOLEAN, WatchOp(a, ok), UNCHANGED <<watcher, osQueue>>
  PROVE  TableOK' /\ NewPeriods
<1>1. /\ watcher \in BOOLEAN /\ osWatch \in BOOLEAN /\ periods \in Nat /\ period \in [Aliases -> 0 .. periods]
      /\ \A b \in Aliases : period[b] # 0 => osWatch /\ b \in Range(table)
      /\ osQueue \in Seq({"child", "self"}) /\ table \in Seq(Aliases) /\ IsInjective(table) /\ (osWatch => table # <<>>)
  BY DEF TableOK
<1>2. CASE UNCHANGED <<table, osWatch, period, periods>>
  BY <1>1, <1>2 DEF TableOK, NewPeriods
<1>3. CASE Watched(a) /\ osWatch' \in BOOLEAN /\ (osWatch => osWatch')
  <2>1. table' \in Seq(Aliases) /\ IsInjective(table') /\ table' # <<>> /\ Range(table') = Range(table) \cup {a}
    BY <1>3, WithKeeps DEF Watched
  <2>2. CASE osWatch' /\ period[a] = 0
    <3>1. periods' = periods + 1 /\ period' = [period EXCEPT ![a] = periods + 1]
      BY <1>3, <2>2 DEF Watched
    <3>2. \A b \in Aliases : period'[b] = IF b = a THEN periods + 1 ELSE period[b]
      BY <1>1, <3>1
    <3>3. periods' \in Nat /\ periods <= periods' /\ period' \in [Aliases -> 0 .. periods']
      BY <1>1, <3>1
    <3>4. \A b \in Aliases : period'[b] # 0 => osWatch' /\ b \in Range(table')
      BY <1>1, <1>3, <2>1, <2>2, <3>2
    <3>5. TableOK'
      BY <1>1, <1>3, <2>1, <3>3, <3>4 DEF TableOK
    <3>6. NewPeriods
      BY <3>2, <3>3 DEF NewPeriods
    <3> QED
      BY <3>5, <3>6
  <2>3. CASE ~(osWatch' /\ period[a] = 0)
    <3>1. periods' = periods /\ period' = period
      BY <1>3, <2>3 DEF Watched
    <3>2. \A b \in Aliases : period'[b] # 0 => osWatch' /\ b \in Range(table')
      BY <1>1, <1>3, <2>1, <3>1
    <3> QED
      BY <1>1, <1>3, <2>1, <3>1, <3>2 DEF TableOK, NewPeriods
  <2> QED
    BY <2>2, <2>3
<1> QED
  BY <1>1, <1>2, <1>3 DEF WatchOp

LEMMA UnwatchKeeps ==
  ASSUME TableOK, NEW a \in Aliases, UnwatchOp(a), UNCHANGED <<watcher, osQueue>>
  PROVE  TableOK' /\ NewPeriods
<1>1. /\ watcher \in BOOLEAN /\ osWatch \in BOOLEAN /\ periods \in Nat /\ period \in [Aliases -> 0 .. periods]
      /\ \A b \in Aliases : period[b] # 0 => osWatch /\ b \in Range(table)
      /\ osQueue \in Seq({"child", "self"}) /\ table \in Seq(Aliases) /\ IsInjective(table)
  BY DEF TableOK
<1>2. table' \in Seq(Aliases) /\ IsInjective(table') /\ \A x : x \in Range(table') <=> x \in Range(table) /\ x # a
  <2>1. PICK t : t = RemoveFirst(table, a)
    OBVIOUS
  <2>2. t \in Seq(Aliases) /\ IsInjective(t) /\ \A x : x \in Range(t) <=> x \in Range(table) /\ x # a
    BY <1>1, <2>1, RemoveFirstKeeps
  <2>3. table' = t
    BY <2>1 DEF UnwatchOp, Without
  <2> QED
    BY <2>2, <2>3
<1>3. \A b \in Aliases : period'[b] = IF b = a THEN 0 ELSE period[b]
  BY <1>1 DEF UnwatchOp
<1>4. periods' = periods /\ period' \in [Aliases -> 0 .. periods']
  BY <1>1 DEF UnwatchOp
<1>5. osWatch' \in BOOLEAN /\ (osWatch' => table' # <<>>) /\ (osWatch /\ table' # <<>> => osWatch')
  BY <1>1 DEF UnwatchOp
<1>6. ASSUME NEW b \in Aliases, period'[b] # 0 PROVE osWatch' /\ b \in Range(table')
  <2>1. b # a /\ period[b] # 0
    BY <1>3, <1>6
  <2>2. b \in Range(table') /\ osWatch
    BY <1>1, <1>2, <2>1
  <2>3. table' # <<>>
    BY <2>2, RangeEmpty
  <2> QED
    BY <1>5, <2>2, <2>3
<1>7. TableOK'
  BY <1>1, <1>2, <1>4, <1>5, <1>6 DEF TableOK
<1>8. NewPeriods
  BY <1>1, <1>3, <1>4 DEF NewPeriods
<1> QED
  BY <1>7, <1>8

\* The request that the main loop takes.
LEMMA Taken ==
  ASSUME Inv, Take
  PROVE  /\ inbox \in Seq(Messages) /\ Head(inbox) \in Messages /\ Head(inbox) \in Range(inbox) /\ Head(inbox).alias \in Aliases
         /\ inbox' \in Seq(Messages) /\ Range(inbox') \subseteq Range(inbox)
<1>1. inbox \in Seq(Messages) /\ inbox # <<>> /\ inbox' = Tail(inbox)
  BY DEF Inv, WireInv, Take
<1>2. PICK s, t, h : s = inbox /\ t = Tail(s) /\ h = Head(s)
  OBVIOUS
<1>3. t \in Seq(Messages) /\ h \in Messages /\ h \in Range(s) /\ Range(s) = Range(t) \cup {h}
  BY <1>1, <1>2, RangeTail
<1>4. h.alias \in Aliases
  BY <1>3, MessageFields
<1> QED
  BY <1>1, <1>2, <1>3, <1>4

LEMMA NextTable ==
  ASSUME Inv, [Next]_vars
  PROVE  TableOK' /\ NewPeriods
<1>1. TableOK
  BY DEF Inv
<1>2. /\ watcher \in BOOLEAN /\ osWatch \in BOOLEAN /\ periods \in Nat /\ period \in [Aliases -> 0 .. periods]
      /\ \A b \in Aliases : period[b] # 0 => osWatch /\ b \in Range(table)
      /\ osQueue \in Seq({"child", "self"}) /\ table \in Seq(Aliases) /\ IsInjective(table) /\ (osWatch => table # <<>>)
  BY <1>1 DEF TableOK
<1>3. ASSUME UNCHANGED watching, osQueue' \in Seq({"child", "self"}) PROVE TableOK' /\ NewPeriods
  BY <1>2, <1>3 DEF watching, TableOK, NewPeriods
<1>4. CASE Change
  <2>1. osQueue' \in Seq({"child", "self"})
    <3>1. <<"child">> \in Seq({"child", "self"})
      OBVIOUS
    <3> QED
      BY <1>2, <1>4, <3>1, ConcatProperties DEF Change, Noticed
  <2> QED
    BY <1>3, <1>4, <2>1 DEF Change
<1>5. CASE RemoveDir
  <2>1. osQueue' \in Seq({"child", "self"})
    <3>1. <<"child", "self">> \in Seq({"child", "self"})
      OBVIOUS
    <3> QED
      BY <1>2, <1>5, <3>1, ConcatProperties DEF RemoveDir, Noticed
  <2>2. period' = [a \in Aliases |-> 0] /\ osWatch' \in BOOLEAN /\ ~osWatch' /\ UNCHANGED <<table, periods, watcher>>
    BY <1>5 DEF RemoveDir
  <2>3. period' \in [Aliases -> 0 .. periods'] /\ \A b \in Aliases : period'[b] = 0
    BY <1>2, <2>2
  <2> QED
    BY <1>2, <2>1, <2>2, <2>3 DEF TableOK, NewPeriods
<1>6. CASE PassOn
  <2>1. osQueue' \in Seq({"child", "self"})
    BY <1>2, <1>6, RangeTail DEF PassOn
  <2> QED
    BY <1>3, <1>6, <2>1 DEF PassOn
<1>7. CASE Overflow
  <2>1. <<>> \in Seq({"child", "self"})
    OBVIOUS
  <2> QED
    BY <1>3, <1>7, <2>1 DEF Overflow
<1>8. CASE Take
  <2>1. PICK a : a = Head(inbox).alias
    OBVIOUS
  <2>2. a \in Aliases /\ UNCHANGED <<watcher, osQueue>>
    BY <1>8, <2>1, Taken DEF Take
  <2>3. CASE UnwatchOp(a)
    BY <1>1, <2>2, <2>3, UnwatchKeeps
  <2>4. CASE \E ok \in BOOLEAN : WatchOp(a, ok)
    BY <1>1, <2>2, <2>4, WatchKeeps
  <2>5. CASE UNCHANGED <<table, osWatch, period, periods>>
    BY <1>2, <1>3, <2>2, <2>5 DEF watching
  <2> QED
    BY <1>8, <2>1, <2>3, <2>4, <2>5 DEF Take
<1>9. CASE Connect
  <2>1. <<>> \in Seq(Aliases) /\ IsInjective(<<>>) /\ <<>> \in Seq({"child", "self"})
    BY DEF IsInjective
  <2>2. period' = [a \in Aliases |-> 0] /\ osWatch' \in BOOLEAN /\ ~osWatch' /\ table' = <<>> /\ osQueue' = <<>> /\ periods' = periods /\ watcher' \in BOOLEAN
    BY <1>9 DEF Connect
  <2>3. period' \in [Aliases -> 0 .. periods'] /\ \A b \in Aliases : period'[b] = 0
    BY <1>2, <2>2
  <2> QED
    BY <1>2, <2>1, <2>2, <2>3 DEF TableOK, NewPeriods
<1>10. CASE MakeDir \/ TimeOut \/ RunCallback \/ Dispatch
  BY <1>2, <1>3, <1>10 DEF MakeDir, TimeOut, RunCallback, Dispatch
<1>11. CASE \E r \in jobs : Work(r)
  BY <1>2, <1>3, <1>11 DEF Work
<1>12. CASE \E a \in Aliases : Listing(a) \/ AddWatch(a) \/ RemoveWatch(a)
  BY <1>2, <1>3, <1>12 DEF Listing, AddWatch, RemoveWatch
<1>13. CASE UNCHANGED vars
  BY <1>2, <1>3, <1>13 DEF vars
<1> QED
  BY <1>4, <1>5, <1>6, <1>7, <1>8, <1>9, <1>10, <1>11, <1>12, <1>13 DEF Next

-----------------------------------------------------------------------------
(* The client's caches *)

LEMMA PopulateIs ==
  ASSUME ClientOK, NEW r \in Messages, Populate(r)
  PROVE  /\ cache' \in [Aliases -> Listed] /\ kept' \in [Aliases -> Listed]
         /\ \A b \in Aliases : \/ cache'[b] = cache[b]
                               \/ /\ b = r.alias /\ cache'[b].entry = r.entry /\ cache'[b].key = r.key
                                  /\ cache'[b].period = r.period /\ cache'[b].how = "fetched"
         /\ \A b \in Aliases : \/ kept'[b] = kept[b]
                               \/ /\ b = r.alias /\ kept'[b].entry = r.entry /\ kept'[b].key = r.key
                                  /\ kept'[b].period = kept[b].period /\ kept'[b].how = "kept"
<1>1. r.alias \in Aliases /\ r.entry \in Nat /\ r.key \in Int /\ r.period \in Nat
  BY MessageFields
<1>2. cache \in [Aliases -> Listed] /\ kept \in [Aliases -> Listed]
  BY DEF ClientOK
<1>3. PICK x : x = [entry |-> r.entry, key |-> r.key, period |-> r.period, how |-> "fetched"]
  OBVIOUS
<1>4. x \in Listed /\ x.entry = r.entry /\ x.key = r.key /\ x.period = r.period /\ x.how = "fetched"
  BY <1>1, <1>3 DEF Listed
<1>5. cache' = [cache EXCEPT ![r.alias] = x]
  BY <1>3 DEF Populate
<1>6. PICK y : y = [kept[r.alias] EXCEPT !.entry = r.entry, !.key = r.key, !.how = "kept"]
  OBVIOUS
<1>7. y \in Listed /\ y.entry = r.entry /\ y.key = r.key /\ y.period = kept[r.alias].period /\ y.how = "kept"
  <2>1. kept[r.alias] \in Listed
    BY <1>1, <1>2
  <2> QED
    BY <1>1, <1>6, <2>1 DEF Listed
<1>8. kept' = kept \/ kept' = [kept EXCEPT ![r.alias] = y]
  BY <1>6 DEF Populate
<1>9. cache' \in [Aliases -> Listed] /\ \A b \in Aliases : cache'[b] = IF b = r.alias THEN x ELSE cache[b]
  BY <1>1, <1>2, <1>4, <1>5
<1>10. kept' \in [Aliases -> Listed] /\ \A b \in Aliases : kept'[b] = kept[b] \/ (b = r.alias /\ kept'[b] = y)
  BY <1>1, <1>2, <1>7, <1>8
<1> QED
  BY <1>4, <1>7, <1>9, <1>10

LEMMA RevalidateIs ==
  ASSUME ClientOK, NEW r \in Messages, Revalidate(r)
  PROVE  /\ cache' \in [Aliases -> Listed] /\ kept' = kept
         /\ \A b \in Aliases : \/ cache'[b] = cache[b]
                               \/ /\ b = r.alias /\ r.key = r.old.key /\ cache'[b].entry = r.old.entry /\ cache'[b].key = r.old.key
                                  /\ cache'[b].period = r.period /\ cache'[b].how = r.old.how
<1>1. r.alias \in Aliases /\ r.old \in Listed /\ r.period \in Nat
  BY MessageFields
<1>2. cache \in [Aliases -> Listed]
  BY DEF ClientOK
<1>3. CASE cache' = cache
  BY <1>2, <1>3 DEF Revalidate
<1>4. CASE r.key = r.old.key /\ cache' = [cache EXCEPT ![r.alias] = [r.old EXCEPT !.period = r.period]]
  <2>1. PICK x : x = [r.old EXCEPT !.period = r.period]
    OBVIOUS
  <2>2. x \in Listed /\ x.entry = r.old.entry /\ x.key = r.old.key /\ x.period = r.period /\ x.how = r.old.how
    BY <1>1, <2>1 DEF Listed
  <2>3. cache' = [cache EXCEPT ![r.alias] = x]
    BY <1>4, <2>1
  <2>4. cache' \in [Aliases -> Listed] /\ \A b \in Aliases : cache'[b] = IF b = r.alias THEN x ELSE cache[b]
    BY <1>1, <1>2, <2>2, <2>3
  <2>5. kept' = kept
    BY DEF Revalidate
  <2> QED
    BY <1>4, <2>2, <2>4, <2>5
<1> QED
  BY <1>3, <1>4 DEF Revalidate

\* The callback that runs, and the message that is dispatched.
LEMMA CalledBack ==
  ASSUME Inv, RunCallback
  PROVE  /\ due \in Seq(Messages) /\ Head(due) \in Messages /\ Reply(Head(due)) /\ Head(due).op # "add" /\ Head(due).alias \in Aliases
         /\ due' \in Seq(Messages) /\ Range(due') \subseteq Range(due)
<1>1. due \in Seq(Messages) /\ due # <<>> /\ due' = Tail(due) /\ \A r \in Range(due) : Reply(r) /\ r.op # "add"
  BY DEF Inv, WireInv, RunCallback
<1>2. PICK s, t, h : s = due /\ t = Tail(s) /\ h = Head(s)
  OBVIOUS
<1>3. t \in Seq(Messages) /\ h \in Messages /\ h \in Range(s) /\ Range(s) = Range(t) \cup {h}
  BY <1>1, <1>2, RangeTail
<1>4. h.alias \in Aliases
  BY <1>3, MessageFields
<1>5. Reply(h) /\ h.op # "add"
  BY <1>1, <1>2, <1>3
<1> QED
  BY <1>1, <1>2, <1>3, <1>4, <1>5

LEMMA Dispatched ==
  ASSUME Inv, Dispatch
  PROVE  /\ outbox \in Seq(Messages) /\ Head(outbox) \in Messages /\ Head(outbox).alias \in Aliases /\ outbox' \in Seq(Messages)
         /\ IsEvent(Head(outbox)) \/ Reply(Head(outbox))
         /\ Range(outbox) = Range(outbox') \cup {Head(outbox)}
<1>1. outbox \in Seq(Messages) /\ outbox # <<>> /\ outbox' = Tail(outbox) /\ \A r \in Range(outbox) : IsEvent(r) \/ Reply(r)
  BY DEF Inv, WireInv, Dispatch
<1>2. PICK s, t, h : s = outbox /\ t = Tail(s) /\ h = Head(s)
  OBVIOUS
<1>3. t \in Seq(Messages) /\ h \in Messages /\ h \in Range(s) /\ Range(s) = Range(t) \cup {h}
  BY <1>1, <1>2, RangeTail
<1>4. h.alias \in Aliases
  BY <1>3, MessageFields
<1>5. IsEvent(h) \/ Reply(h)
  BY <1>1, <1>2, <1>3
<1> QED
  BY <1>1, <1>2, <1>3, <1>4, <1>5

\* An event evicts the listings that it tells of.
LEMMA EvictedIs ==
  ASSUME ClientOK, NEW kind, NEW a \in Aliases, NEW c, c = Evicted(kind, a)
  PROVE  /\ c \in [Aliases -> Listed]
         /\ \A b \in Aliases : c[b] = cache[b] \/ c[b] = Nothing
         /\ \A b \in Aliases : kind = "overflow" \/ a = b => c[b] = Nothing
<1>1. cache \in [Aliases -> Listed]
  BY DEF ClientOK
<1>2. CASE kind = "overflow"
  BY <1>2, NothingListed DEF Evicted
<1>3. CASE kind # "overflow"
  <2>1. c = [cache EXCEPT ![a] = Nothing]
    BY <1>3 DEF Evicted
  <2> QED
    BY <1>1, <1>3, <2>1, NothingListed
<1> QED
  BY <1>2, <1>3

\* Only callbacks, events and a new connection touch the caches.
LEMMA CachesStay ==
  ASSUME [Next]_vars, ~RunCallback, ~Dispatch, ~Connect
  PROVE  UNCHANGED <<epoch, cache, kept>>
<1>1. CASE Change \/ RemoveDir \/ MakeDir \/ PassOn \/ Overflow
  BY <1>1 DEF Change, RemoveDir, MakeDir, PassOn, Overflow, client
<1>2. CASE Take
  BY <1>2 DEF Take, client
<1>3. CASE TimeOut
  BY <1>3 DEF TimeOut
<1>4. CASE \E r \in jobs : Work(r)
  BY <1>4 DEF Work, client
<1>5. CASE \E a \in Aliases : Listing(a) \/ AddWatch(a) \/ RemoveWatch(a)
  BY <1>5 DEF Listing, AddWatch, RemoveWatch
<1>6. CASE UNCHANGED vars
  BY <1>6 DEF vars, client
<1> QED
  BY <1>1, <1>2, <1>3, <1>4, <1>5, <1>6 DEF Next

LEMMA NextClient ==
  ASSUME Inv, [Next]_vars
  PROVE  ClientOK' /\ (~Connect => epoch' = epoch \/ epoch' = epoch + 1)
<1>1. ClientOK
  BY DEF Inv
<1>2. blocked \subseteq Aliases /\ direct \subseteq Aliases /\ epoch \in Nat /\ cache \in [Aliases -> Listed] /\ kept \in [Aliases -> Listed]
  BY <1>1 DEF ClientOK
<1>3. ASSUME UNCHANGED <<epoch, cache, kept>>, blocked' \subseteq Aliases, direct' \subseteq Aliases
      PROVE  ClientOK' /\ epoch' = epoch
  BY <1>2, <1>3 DEF ClientOK
<1>4. CASE ~RunCallback /\ ~Dispatch /\ ~Connect
  <2>1. UNCHANGED <<epoch, cache, kept>>
    BY <1>4, CachesStay
  <2>2. blocked' \subseteq Aliases /\ direct' \subseteq Aliases
    <3>1. CASE Change \/ RemoveDir \/ MakeDir \/ PassOn \/ Overflow
      BY <1>2, <3>1 DEF Change, RemoveDir, MakeDir, PassOn, Overflow, client
    <3>2. CASE Take
      BY <1>2, <3>2 DEF Take, client
    <3>3. CASE TimeOut
      BY <1>2, <3>3 DEF TimeOut
    <3>4. CASE \E r \in jobs : Work(r)
      BY <1>2, <3>4 DEF Work, client
    <3>5. CASE \E a \in Aliases : Listing(a) \/ AddWatch(a) \/ RemoveWatch(a)
      BY <1>2, <3>5 DEF Listing, AddWatch, RemoveWatch
    <3>6. CASE UNCHANGED vars
      BY <1>2, <3>6 DEF vars, client
    <3> QED
      BY <1>4, <3>1, <3>2, <3>3, <3>4, <3>5, <3>6 DEF Next
  <2> QED
    BY <1>3, <2>1, <2>2
<1>5. CASE RunCallback
  <2>1. PICK r : r = Head(due)
    OBVIOUS
  <2>2. r \in Messages
    BY <1>5, <2>1, CalledBack
  <2>3. epoch' = epoch /\ direct' = direct /\ blocked' \subseteq Aliases /\ (Populate(r) \/ Revalidate(r) \/ UNCHANGED <<cache, kept>>)
    BY <1>2, <1>5, <2>1 DEF RunCallback, Drop
  <2>4. cache' \in [Aliases -> Listed] /\ kept' \in [Aliases -> Listed]
    BY <1>1, <1>2, <2>2, <2>3, PopulateIs, RevalidateIs
  <2> QED
    BY <1>2, <2>3, <2>4 DEF ClientOK
<1>6. CASE Dispatch
  <2>1. PICK m : m = Head(outbox)
    OBVIOUS
  <2>2. m \in Messages /\ m.alias \in Aliases
    BY <1>6, <2>1, Dispatched
  <2>3. CASE m.stage # "replied" /\ epoch' = epoch + 1
    <3>1. cache' = Evicted(m.op, m.alias) /\ kept' = (IF m.op = "self" THEN [kept EXCEPT ![m.alias] = Nothing] ELSE kept) /\ UNCHANGED <<blocked, direct>>
      BY <1>2, <1>6, <2>1, <2>3 DEF Dispatch
    <3>2. cache' \in [Aliases -> Listed]
      BY <1>1, <2>2, <3>1, EvictedIs
    <3>3. kept' \in [Aliases -> Listed]
      BY <1>2, <2>2, <3>1, NothingListed
    <3> QED
      BY <1>2, <2>3, <3>1, <3>2, <3>3 DEF ClientOK
  <2>4. CASE UNCHANGED <<epoch, cache, kept>>
    <3>1. blocked' \subseteq Aliases /\ direct' \subseteq Aliases
      BY <1>2, <1>6, <2>1, <2>2 DEF Dispatch
    <3> QED
      BY <1>3, <2>4, <3>1
  <2> QED
    BY <1>6, <2>1, <2>3, <2>4 DEF Dispatch
<1>7. CASE Connect
  BY <1>2, <1>7, NothingListed DEF Connect, ClientOK
<1> QED
  BY <1>4, <1>5, <1>6, <1>7

-----------------------------------------------------------------------------
(* The workers *)

\* A worker opens the directory, or answers with what is there at this moment.
LEMMA WorkIs ==
  ASSUME Inv, NEW r \in jobs, Work(r)
  PROVE  /\ \A x \in jobs' : x \in jobs \/ (x \in Messages /\ Job(x))
         /\ outbox' = outbox \/ \E m \in Messages : Reply(m) /\ outbox' = Append(outbox, m)
<1>1. r \in Messages /\ Job(r)
  BY DEF Inv, WireInv
<1>2. /\ r.alias \in Aliases /\ r.epoch \in Nat /\ r.entry \in Nat /\ r.key \in Int /\ r.period \in Nat
      /\ r.old \in Listed /\ r.old.entry \in Nat /\ r.old.key \in Int
  BY <1>1, MessageFields
<1>3. /\ Dated(r) /\ r.op \in {"listing", "rewarm", "stat"} /\ r.stage \in {"sent", "open"} /\ 0 <= r.key
      /\ r.stage = "open" => r.op # "stat"
      /\ r.epoch <= epoch /\ r.entry <= clock /\ r.key <= clock /\ r.period <= periods
      /\ r.op = "stat" => KeptOK(r.old, r.alias)
  BY <1>1 DEF Job, Dated
<1>4. entry \in Nat /\ entry <= clock /\ mtime \in Nat /\ mtime <= clock /\ clock \in Nat /\ exists \in BOOLEAN
  BY DEF Inv, DiskOK
<1>5. PICK p, k : p = period[r.alias] /\ k = MtimeOf(r.alias)
  OBVIOUS
<1>6. p \in Nat /\ p <= periods
  BY <1>2, <1>5 DEF Inv, TableOK
<1>7. k \in Int /\ k <= clock /\ (exists => 0 <= k) /\ (r.alias = Canon => k = mtime \/ k = -1)
  BY <1>4, <1>5 DEF MtimeOf, NoMtime
<1>8. CASE r.stage = "sent" /\ ~exists /\ r.op # "stat" /\ Answer(r, [r EXCEPT !.ok = FALSE])
  <2>1. PICK m : m = [[r EXCEPT !.ok = FALSE] EXCEPT !.stage = "replied"]
    OBVIOUS
  <2>2. /\ m \in Messages /\ m.op = r.op /\ m.epoch = r.epoch /\ m.entry = r.entry /\ m.key = r.key /\ m.period = r.period
        /\ m.stage = "replied" /\ m.ok = FALSE
    BY <1>1, <2>1 DEF Messages
  <2>3. Reply(m)
    BY <1>3, <1>8, <2>2 DEF Reply, Dated
  <2> QED
    BY <1>8, <2>1, <2>2, <2>3 DEF Answer
<1>9. CASE r.stage = "sent" /\ r.op = "stat" /\ Answer(r, [r EXCEPT !.key = MtimeOf(r.alias), !.period = period[r.alias]])
  <2>1. PICK m : m = [[r EXCEPT !.key = k, !.period = p] EXCEPT !.stage = "replied"]
    OBVIOUS
  <2>2. /\ m \in Messages /\ m.op = "stat" /\ m.alias = r.alias /\ m.epoch = r.epoch /\ m.entry = r.entry /\ m.key = k /\ m.period = p
        /\ m.stage = "replied" /\ m.old = r.old
    BY <1>1, <1>6, <1>7, <1>9, <2>1 DEF Messages
  <2>3. Dated(m)
    BY <1>3, <1>6, <1>7, <1>9, <2>2 DEF Dated
  <2>4. ASSUME m.alias = Canon, m.key = m.old.key PROVE SamePresence(m.old.entry, entry)
    <3>1. KeyTells(r.old.entry, r.old.key, r.alias)
      BY <1>3, <1>9 DEF KeptOK
    <3>2. 0 <= k /\ k = r.old.key
      BY <2>2, <2>4, <3>1 DEF KeyTells
    <3>3. k = mtime
      BY <1>7, <2>2, <2>4, <3>2
    <3> QED
      BY <2>2, <2>4, <3>1, <3>2, <3>3 DEF KeyTells
  <2>5. Reply(m)
    BY <2>2, <2>3, <2>4 DEF Reply
  <2> QED
    BY <1>5, <1>9, <2>1, <2>2, <2>5 DEF Answer
<1>10. CASE /\ r.stage = "sent" /\ exists /\ r.op # "stat" /\ UNCHANGED outbox
            /\ jobs' = (jobs \ {r}) \cup {[SelfAttrsFirst(r) EXCEPT !.stage = "open", !.period = period[r.alias]]}
  <2>1. PICK x : x = [[r EXCEPT !.key = k] EXCEPT !.stage = "open", !.period = p]
    OBVIOUS
  <2>2. /\ x \in Messages /\ x.op = r.op /\ x.epoch = r.epoch /\ x.entry = r.entry /\ x.key = k /\ x.period = p /\ x.stage = "open"
    BY <1>1, <1>6, <1>7, <2>1 DEF Messages
  <2>3. Job(x)
    BY <1>3, <1>6, <1>7, <1>10, <2>2 DEF Job, Dated
  <2>4. jobs' = (jobs \ {r}) \cup {x}
    BY <1>5, <1>10, <2>1 DEF SelfAttrsFirst
  <2> QED
    BY <1>10, <2>2, <2>3, <2>4
<1>11. CASE r.stage = "open" /\ Answer(r, SelfAttrsFirst(r))
  <2>1. PICK m : m = [[r EXCEPT !.entry = entry] EXCEPT !.stage = "replied"]
    OBVIOUS
  <2>2. /\ m \in Messages /\ m.op = r.op /\ m.epoch = r.epoch /\ m.entry = entry /\ m.key = r.key /\ m.period = r.period /\ m.stage = "replied"
    BY <1>1, <1>4, <2>1 DEF Messages
  <2>3. m.op # "stat" /\ m.op \in {"listing", "rewarm"}
    BY <1>3, <1>11, <2>2
  <2>4. Dated(m)
    BY <1>3, <1>4, <2>2, <2>3 DEF Dated
  <2>5. KeyTells(m.entry, m.key, m.alias)
    BY <1>3, <1>4, <2>2 DEF KeyTells, SamePresence
  <2>6. Reply(m)
    BY <2>2, <2>3, <2>4, <2>5 DEF Reply
  <2>7. jobs' = jobs \ {r} /\ outbox' = Append(outbox, m)
    BY <1>11, <2>1 DEF Answer, SelfAttrsFirst
  <2> QED
    BY <2>2, <2>6, <2>7
<1> QED
  BY <1>8, <1>9, <1>10, <1>11 DEF Work

-----------------------------------------------------------------------------
(* Watch periods and events *)

\* The message evicts the listing of a.
Tells(m, a) == m.op = "overflow" \/ (m.op \in {"child", "self"} /\ m.alias = a)

LEMMA TellsIs ==
  ASSUME NEW s \in Seq(Messages), NEW a
  PROVE  (\E i \in DOMAIN s : s[i].op = "overflow" \/ (s[i].op \in {"child", "self"} /\ s[i].alias = a))
           <=> \E m \in Range(s) : Tells(m, a)
<1>1. DOMAIN s = 1 .. Len(s)
  OBVIOUS
<1>2. \A x : x \in Range(s) <=> \E i \in 1 .. Len(s) : x = s[i]
  BY RangeOf
<1> QED
  BY <1>1, <1>2 DEF Tells

LEMMA EventIs ==
  ASSUME NEW kind \in Events, NEW a \in Aliases, NEW r, r = Event(kind, a)
  PROVE  /\ r \in Messages /\ r.op = kind /\ r.alias = a /\ r.epoch = 0 /\ r.stage = "sent"
         /\ r.entry = 0 /\ r.key = 0 /\ r.period = 0
<1>1. kind \in Events \cup Ops /\ 0 \in Nat /\ kind # "stat" /\ r = Request(kind, a, 0)
  BY DEF Events, Event
<1> QED
  BY <1>1, RequestIs

LEMMA ToAliasesIs ==
  ASSUME TableOK, NEW kind \in Events, NEW s, s = ToAliases(kind)
  PROVE  /\ s \in Seq(Messages)
         /\ \A m \in Range(s) : \E b \in Aliases : m = Event(kind, b)
         /\ \A b \in Range(table) : \E m \in Range(s) : m = Event(kind, b)
<1>1. PICK n : n = Len(table)
  OBVIOUS
<1>2. n \in Nat /\ DOMAIN table = 1 .. n /\ table \in Seq(Aliases) /\ \A i \in 1 .. n : table[i] \in Aliases
  BY <1>1 DEF TableOK
<1>3. s = [i \in 1 .. n |-> Event(kind, table[i])]
  BY <1>2 DEF ToAliases
<1>4. \A i \in 1 .. n : Event(kind, table[i]) \in Messages
  BY <1>2, EventIs
<1>5. s \in Seq(Messages) /\ Len(s) = n /\ \A i \in 1 .. n : s[i] = Event(kind, table[i])
  BY <1>2, <1>3, <1>4
<1>6. \A m : m \in Range(s) <=> \E i \in 1 .. n : m = s[i]
  BY <1>5, RangeOf
<1>7. \A b : b \in Range(table) <=> \E i \in 1 .. n : b = table[i]
  BY <1>1, <1>2, RangeOf
<1> QED
  BY <1>2, <1>5, <1>6, <1>7

\* While an alias is watched a change of the directory is announced to it until
\* the client has dealt with the event.
LEMMA QuietStep ==
  ASSUME Inv, [Next]_vars, ~Connect, NEW a \in Aliases, NEW p \in Nat, p <= periods, Quiet(p, a)'
  PROVE  (Quiet(p, a) /\ entry' = entry) \/ (epoch' = epoch + 1 /\ cache'[a] = Nothing)
<1>1. /\ p # 0 /\ p = period'[a] /\ osQueue' = <<>>
      /\ ~\E i \in DOMAIN outbox' : outbox'[i].op = "overflow" \/ (outbox'[i].op \in {"child", "self"} /\ outbox'[i].alias = a)
  BY DEF Quiet, Announced
<1>2. periods \in Nat /\ osWatch \in BOOLEAN /\ TableOK /\ outbox \in Seq(Messages) /\ osQueue \in Seq({"child", "self"})
  BY DEF Inv, TableOK, WireInv
<1>3. p = period[a]
  <2>1. period'[a] = period[a] \/ period'[a] = 0 \/ period'[a] = periods + 1
    BY NextTable DEF NewPeriods
  <2> QED
    BY <1>1, <1>2, <2>1
<1>4. osWatch /\ a \in Range(table)
  BY <1>1, <1>2, <1>3 DEF TableOK
<1>5. ASSUME entry' = entry, osQueue' = osQueue, outbox' \in Seq(Messages), \A m \in Range(outbox) : Tells(m, a) => m \in Range(outbox')
      PROVE  Quiet(p, a) /\ entry' = entry
  <2>1. ~\E m \in Range(outbox') : Tells(m, a)
    BY <1>1, <1>5, TellsIs
  <2>2. ~\E m \in Range(outbox) : Tells(m, a)
    BY <1>5, <2>1
  <2>3. ~\E i \in DOMAIN outbox : outbox[i].op = "overflow" \/ (outbox[i].op \in {"child", "self"} /\ outbox[i].alias = a)
    BY <1>2, <2>2, TellsIs
  <2> QED
    BY <1>1, <1>3, <1>5, <2>3 DEF Quiet, Announced
<1>6. ASSUME entry' = entry, osQueue' = osQueue, outbox' = outbox
      PROVE  Quiet(p, a) /\ entry' = entry
  BY <1>2, <1>5, <1>6
<1>7. CASE Change
  <2>1. osQueue' = osQueue \o <<"child">>
    BY <1>4, <1>7 DEF Change, Noticed
  <2>2. Len(osQueue \o <<"child">>) # 0
    BY <1>2
  <2> QED
    BY <1>1, <2>1, <2>2
<1>8. CASE RemoveDir
  <2>1. period'[a] = 0
    BY <1>8 DEF RemoveDir
  <2> QED
    BY <1>1, <2>1
<1>9. CASE PassOn
  <2>1. PICK k, s : k = Head(osQueue) /\ s = ToAliases(k)
    OBVIOUS
  <2>2. k \in Events /\ k \in {"child", "self"}
    <3>1. osQueue # <<>>
      BY <1>9 DEF PassOn
    <3>2. k \in {"child", "self"}
      BY <1>2, <2>1, <3>1, RangeTail
    <3> QED
      BY <3>2 DEF Events
  <2>3. s \in Seq(Messages) /\ \A b \in Range(table) : \E m \in Range(s) : m = Event(k, b)
    BY <1>2, <2>1, <2>2, ToAliasesIs
  <2>4. table # <<>>
    BY <1>4, RangeEmpty
  <2>5. outbox' = outbox \o s
    BY <1>9, <2>1, <2>4 DEF PassOn
  <2>6. outbox' \in Seq(Messages) /\ Range(outbox') = Range(outbox) \cup Range(s)
    BY <1>2, <2>3, <2>5, RangeConcat
  <2>7. PICK m \in Range(s) : m = Event(k, a)
    BY <1>4, <2>3
  <2>8. Tells(m, a)
    BY <2>2, <2>7, EventIs DEF Tells
  <2>9. \E x \in Range(outbox') : Tells(x, a)
    BY <2>6, <2>7, <2>8
  <2> QED
    BY <1>1, <2>6, <2>9, TellsIs
<1>10. CASE Overflow
  <2>1. PICK m : m = Event("overflow", Canon)
    OBVIOUS
  <2>2. m \in Messages /\ m.op = "overflow"
    BY <2>1, EventIs, DirCacheAssumption DEF Events
  <2>3. outbox' = Append(outbox, m)
    BY <1>10, <2>1 DEF Overflow
  <2>4. outbox' \in Seq(Messages) /\ Range(outbox') = Range(outbox) \cup {m}
    BY <1>2, <2>2, <2>3, RangeAppend
  <2>5. \E x \in Range(outbox') : Tells(x, a)
    BY <2>2, <2>4 DEF Tells
  <2> QED
    BY <1>1, <2>4, <2>5, TellsIs
<1>11. CASE TimeOut
  <2>1. outbox' = GivenUp(outbox) /\ entry' = entry /\ osQueue' = osQueue
    BY <1>11 DEF TimeOut, disk
  <2>2. outbox' \in Seq(Messages) /\ \A x \in Range(outbox) : ~Waited(x) => x \in Range(outbox')
    BY <1>2, <2>1, GivenUpKeeps
  <2>3. \A m : Tells(m, a) => ~Waited(m)
    BY DEF Tells, Waited
  <2> QED
    BY <1>5, <2>1, <2>2, <2>3
<1>12. CASE Dispatch
  <2>1. PICK m : m = Head(outbox)
    OBVIOUS
  <2>2. /\ m \in Messages /\ m.alias \in Aliases /\ outbox' \in Seq(Messages) /\ (IsEvent(m) \/ Reply(m))
        /\ Range(outbox) = Range(outbox') \cup {m}
    BY <1>12, <2>1, Dispatched
  <2>3. entry' = entry /\ osQueue' = osQueue
    BY <1>12 DEF Dispatch, disk
  <2>4. CASE Tells(m, a)
    <3>1. m.op \in Events /\ (m.op = "overflow" \/ m.alias = a)
      BY <2>4 DEF Tells, Events
    <3>2. IsEvent(m)
      BY <2>2, <3>1 DEF Reply, Events
    <3>3. m.stage # "replied" /\ m.op # "add"
      BY <3>1, <3>2 DEF IsEvent, Events
    <3>4. epoch' = epoch + 1 /\ cache' = Evicted(m.op, m.alias)
      BY <1>12, <2>1, <3>3 DEF Dispatch
    <3>5. ClientOK
      BY DEF Inv
    <3>6. cache'[a] = Nothing
      BY <2>2, <3>1, <3>4, <3>5, EvictedIs
    <3> QED
      BY <3>4, <3>6
  <2>5. CASE ~Tells(m, a)
    BY <1>5, <2>2, <2>3, <2>5
  <2> QED
    BY <2>4, <2>5
<1>13. CASE Take
  <2>1. CASE outbox' = outbox
    BY <1>6, <1>13, <2>1 DEF Take, disk
  <2>2. CASE \E ok \in BOOLEAN : outbox' = Append(outbox, [Head(inbox) EXCEPT !.stage = "replied", !.ok = ok])
    <3>1. PICK m : outbox' = Append(outbox, m) /\ \E ok \in BOOLEAN : m = [Head(inbox) EXCEPT !.stage = "replied", !.ok = ok]
      BY <2>2
    <3>2. m \in Messages
      BY <1>13, <3>1, Taken DEF Messages
    <3>3. outbox' \in Seq(Messages) /\ Range(outbox') = Range(outbox) \cup {m}
      BY <1>2, <3>1, <3>2, RangeAppend
    <3> QED
      BY <1>5, <1>13, <3>3 DEF Take, disk
  <2> QED
    BY <1>13, <2>1, <2>2 DEF Take
<1>14. CASE \E r \in jobs : Work(r)
  <2>1. PICK r \in jobs : Work(r)
    BY <1>14
  <2>2. entry' = entry /\ osQueue' = osQueue
    BY <2>1 DEF Work, disk
  <2>3. CASE outbox' = outbox
    BY <1>6, <2>2, <2>3
  <2>4. CASE \E m \in Messages : outbox' = Append(outbox, m)
    <3>1. PICK m \in Messages : outbox' = Append(outbox, m)
      BY <2>4
    <3>2. outbox' \in Seq(Messages) /\ Range(outbox') = Range(outbox) \cup {m}
      BY <1>2, <3>1, RangeAppend
    <3> QED
      BY <1>5, <2>2, <3>2
  <2> QED
    BY <2>1, <2>3, <2>4, WorkIs
<1>15. CASE MakeDir \/ RunCallback
  BY <1>6, <1>15 DEF MakeDir, RunCallback, wire, disk
<1>16. CASE \E b \in Aliases : Listing(b) \/ AddWatch(b) \/ RemoveWatch(b)
  BY <1>6, <1>16 DEF Listing, AddWatch, RemoveWatch, disk
<1>17. CASE UNCHANGED vars
  BY <1>6, <1>17 DEF vars, wire, disk
<1> QED
  BY <1>7, <1>8, <1>9, <1>10, <1>11, <1>12, <1>13, <1>14, <1>15, <1>16, <1>17 DEF Next

-----------------------------------------------------------------------------
(* What is true of a message stays true *)

LEMMA Clocks ==
  ASSUME Inv, [Next]_vars
  PROVE  /\ clock \in Nat /\ clock' \in Nat /\ clock <= clock' /\ periods \in Nat /\ periods' \in Nat /\ periods <= periods'
         /\ epoch \in Nat /\ epoch' \in Nat /\ (~Connect => epoch <= epoch')
         /\ entry \in Nat /\ entry' \in Nat
<1>1. DiskOK' /\ clock <= clock'
  BY NextDisk
<1>2. TableOK' /\ NewPeriods
  BY NextTable
<1>3. ClientOK' /\ (~Connect => epoch' = epoch \/ epoch' = epoch + 1)
  BY NextClient
<1> QED
  BY <1>1, <1>2, <1>3 DEF Inv, DiskOK, TableOK, ClientOK, NewPeriods

LEMMA DatedStays ==
  ASSUME Inv, [Next]_vars, ~Connect, NEW r \in Messages, Dated(r)
  PROVE  Dated(r)'
<1>1. /\ r.epoch \in Nat /\ r.entry \in Nat /\ r.key \in Int /\ r.period \in Nat /\ r.old \in Listed
      /\ r.epoch <= epoch /\ r.entry <= clock /\ r.key <= clock /\ r.period <= periods
  BY MessageFields DEF Dated
<1>2. r.epoch <= epoch' /\ r.entry <= clock' /\ r.key <= clock' /\ r.period <= periods'
  BY <1>1, Clocks
<1>3. PICK x, a : x = r.old /\ a = r.alias
  OBVIOUS
<1>4. ASSUME r.op = "stat" PROVE KeptOK(x, a)'
  <2>1. KeptOK(x, a)
    BY <1>3, <1>4 DEF Dated
  <2> QED
    BY <1>1, <1>3, <2>1, KeptStays
<1> QED
  BY <1>2, <1>3, <1>4 DEF Dated

LEMMA ReplyStays ==
  ASSUME Inv, [Next]_vars, ~Connect, NEW r \in Messages, Reply(r)
  PROVE  Reply(r)'
<1>1. r.epoch \in Nat /\ r.entry \in Nat /\ r.key \in Int /\ r.period \in Nat /\ r.alias \in Aliases
  BY MessageFields
<1>2. Dated(r) /\ r.op \in {"add", "listing", "rewarm", "stat"} /\ r.stage = "replied" /\ r.epoch <= epoch /\ r.period <= periods
  BY DEF Reply, Dated
<1>3. Dated(r)'
  BY <1>2, DatedStays
<1>4. PICK e, k, a, p : e = r.entry /\ k = r.key /\ a = r.alias /\ p = r.period
  OBVIOUS
<1>5. ASSUME r.epoch = epoch', Quiet(p, a)' PROVE r.epoch = epoch /\ Quiet(p, a) /\ entry' = entry
  <2>1. epoch \in Nat /\ epoch' \in Nat /\ epoch <= epoch'
    BY Clocks
  <2>2. r.epoch = epoch /\ epoch' # epoch + 1
    BY <1>1, <1>2, <1>5, <2>1
  <2> QED
    BY <1>1, <1>2, <1>4, <1>5, <2>2, QuietStep
<1>6. ASSUME r.op \in {"listing", "rewarm"} /\ r.ok
      PROVE  KeyTells(e, k, a)' /\ (r.epoch = epoch' /\ Quiet(p, a)' => e = entry')
  <2>1. KeyTells(e, k, a) /\ (r.epoch = epoch /\ Quiet(p, a) => e = entry)
    BY <1>4, <1>6 DEF Reply
  <2>2. KeyTells(e, k, a)'
    BY <1>1, <1>4, <2>1, KeyStillTells
  <2> QED
    BY <1>5, <2>1, <2>2
<1>7. ASSUME r.op = "stat" /\ r.alias = Canon /\ r.key = r.old.key /\ r.epoch = epoch', Quiet(p, a)'
      PROVE  SamePresence(r.old.entry, entry')
  <2>1. SamePresence(r.old.entry, entry)
    BY <1>4, <1>5, <1>7 DEF Reply
  <2> QED
    BY <1>5, <1>7, <2>1
<1>8. SamePresence(r.old.entry, entry)' <=> SamePresence(r.old.entry, entry')
  BY DEF SamePresence
<1> QED
  BY <1>2, <1>3, <1>4, <1>6, <1>7, <1>8 DEF Reply

LEMMA JobStays ==
  ASSUME Inv, [Next]_vars, ~Connect, NEW r \in Messages, Job(r)
  PROVE  Job(r)'
BY DatedStays DEF Job

LEMMA EventStays ==
  ASSUME Inv, [Next]_vars, ~Connect, NEW r \in Messages, IsEvent(r)
  PROVE  IsEvent(r)'
BY DatedStays DEF IsEvent

LEMMA CacheStays ==
  ASSUME Inv, [Next]_vars, ~Connect, NEW a \in Aliases, cache'[a] = cache[a]
  PROVE  CacheOK(a)'
<1>1. PICK x : x = cache[a]
  OBVIOUS
<1>2. x.entry \in Nat /\ x.key \in Int /\ x.period \in Nat
  BY <1>1 DEF Inv, ClientOK, Listed
<1>3. CacheOK(a)
  BY DEF Inv, CacheInv
<1>4. x.entry <= clock /\ -1 <= x.key /\ x.key <= clock /\ x.period <= periods
  BY <1>1, <1>3 DEF CacheOK
<1>5. x.entry <= clock' /\ x.key <= clock' /\ x.period <= periods'
  BY <1>2, <1>4, Clocks
<1>6. PICK p : p = x.period
  OBVIOUS
<1>7. ASSUME Quiet(p, a)'
      PROVE  (x.how = "fetched" => x.entry = entry') /\ (x.how = "kept" /\ a = Canon => SamePresence(x.entry, entry'))
  <2>1. CASE Quiet(p, a) /\ entry' = entry
    BY <1>1, <1>3, <1>6, <2>1 DEF CacheOK
  <2>2. CASE cache'[a] = Nothing
    BY <1>1, <2>2, NothingListed
  <2> QED
    BY <1>2, <1>4, <1>6, <1>7, <2>1, <2>2, QuietStep
<1>8. SamePresence(x.entry, entry)' <=> SamePresence(x.entry, entry')
  BY DEF SamePresence
<1> QED
  BY <1>1, <1>4, <1>5, <1>6, <1>7, <1>8 DEF CacheOK

LEMMA CacheEmpty ==
  ASSUME Inv, [Next]_vars, NEW a \in Aliases, cache'[a] = Nothing
  PROVE  CacheOK(a)'
<1>1. clock' \in Nat /\ periods' \in Nat
  BY Clocks
<1>2. Nothing.entry <= clock' /\ -1 <= Nothing.key /\ Nothing.key <= clock' /\ Nothing.period <= periods' /\ Nothing.how = "none"
  BY <1>1, NothingListed
<1> QED
  BY <1>2 DEF CacheOK

-----------------------------------------------------------------------------
(* The listings *)

\* What a callback makes of its reply.
LEMMA CallbackIs ==
  ASSUME Inv, RunCallback, NEW r, r = Head(due)
  PROVE  /\ r \in Messages /\ r.alias \in Aliases /\ Reply(r) /\ epoch' = epoch
         /\ \/ UNCHANGED <<cache, kept>>
            \/ Populate(r) /\ r.op \in {"listing", "rewarm"} /\ r.ok /\ r.epoch = epoch
            \/ Revalidate(r) /\ r.op = "stat" /\ r.epoch = epoch
<1>1. r \in Messages /\ r.alias \in Aliases /\ Reply(r)
  BY CalledBack
<1>2. epoch' = epoch
  BY DEF RunCallback
<1>3. \/ UNCHANGED <<cache, kept>>
      \/ Populate(r) /\ r.op \in {"listing", "rewarm"} /\ r.ok /\ r.epoch = epoch
      \/ Revalidate(r) /\ r.op = "stat" /\ r.epoch = epoch
  BY DEF RunCallback, Drop, SameEpoch
<1> QED
  BY <1>1, <1>2, <1>3

LEMMA NextKept ==
  ASSUME Inv, [Next]_vars
  PROVE  KeptInv'
<1> SUFFICES ASSUME NEW a \in Aliases PROVE kept'[a] = Nothing \/ KeptOK(kept[a], a)'
  BY DEF KeptInv
<1>1. PICK x : x = kept[a]
  OBVIOUS
<1>2. x \in Listed /\ (x = Nothing \/ KeptOK(x, a)) /\ ClientOK
  BY <1>1 DEF Inv, ClientOK, KeptInv
<1>3. x.period = 0
  BY <1>2, NothingListed DEF KeptOK
<1>4. CASE kept'[a] = x
  BY <1>2, <1>4, KeptStays
<1>5. CASE ~RunCallback /\ ~Dispatch /\ ~Connect
  BY <1>1, <1>4, <1>5, CachesStay
<1>6. CASE Connect
  BY <1>1, <1>4, <1>6 DEF Connect
<1>7. CASE Dispatch
  <2>1. kept' = kept \/ kept' = [kept EXCEPT ![Head(outbox).alias] = Nothing]
    BY <1>7 DEF Dispatch
  <2>2. kept'[a] = kept[a] \/ kept'[a] = Nothing
    BY <2>1 DEF Inv, ClientOK
  <2> QED
    BY <1>1, <1>4, <2>2
<1>8. CASE RunCallback
  <2>1. PICK r : r = Head(due)
    OBVIOUS
  <2>2. /\ r \in Messages /\ Reply(r)
        /\ kept' = kept \/ (Populate(r) /\ r.op \in {"listing", "rewarm"} /\ r.ok) \/ Revalidate(r)
    BY <1>8, <2>1, CallbackIs
  <2>3. CASE Populate(r) /\ r.op \in {"listing", "rewarm"} /\ r.ok
    <3>1. PICK e, k : e = r.entry /\ k = r.key
      OBVIOUS
    <3>2. e \in Nat /\ k \in Int
      BY <2>2, <3>1, MessageFields
    <3>3. kept'[a] = kept[a] \/ (a = r.alias /\ kept'[a].entry = e /\ kept'[a].key = k /\ kept'[a].period = kept[a].period /\ kept'[a].how = "kept")
      BY <1>2, <2>2, <2>3, <3>1, PopulateIs
    <3>4. CASE a = r.alias /\ kept'[a].entry = e /\ kept'[a].key = k /\ kept'[a].period = kept[a].period /\ kept'[a].how = "kept"
      <4>1. KeyTells(e, k, a)
        BY <2>2, <2>3, <3>1, <3>4 DEF Reply
      <4>2. KeyTells(e, k, a)'
        BY <3>2, <4>1, KeyStillTells
      <4> QED
        BY <1>1, <1>3, <3>4, <4>2 DEF KeptOK
    <3> QED
      BY <1>1, <1>4, <3>3, <3>4
  <2>4. CASE Revalidate(r)
    BY <1>1, <1>2, <1>4, <2>2, <2>4, RevalidateIs
  <2> QED
    BY <1>1, <1>4, <2>2, <2>3, <2>4
<1> QED
  BY <1>5, <1>6, <1>7, <1>8

LEMMA NextCache ==
  ASSUME Inv, [Next]_vars
  PROVE  CacheInv'
<1> SUFFICES ASSUME NEW a \in Aliases PROVE CacheOK(a)'
  BY DEF CacheInv
<1>1. ClientOK
  BY DEF Inv
<1>2. CASE Connect
  <2>1. cache'[a] = Nothing
    BY <1>2 DEF Connect
  <2> QED
    BY <2>1, CacheEmpty
<1>3. CASE ~RunCallback /\ ~Dispatch /\ ~Connect
  BY <1>3, CachesStay, CacheStays
<1>4. CASE Dispatch /\ ~Connect
  <2>1. cache' = cache \/ cache' = Evicted(Head(outbox).op, Head(outbox).alias)
    BY <1>4 DEF Dispatch
  <2>2. Head(outbox).alias \in Aliases
    BY <1>4, Dispatched
  <2>3. cache'[a] = cache[a] \/ cache'[a] = Nothing
    BY <1>1, <2>1, <2>2, EvictedIs
  <2> QED
    BY <1>4, <2>3, CacheEmpty, CacheStays
<1>5. CASE RunCallback /\ ~Connect
  <2>1. PICK r : r = Head(due)
    OBVIOUS
  <2>2. /\ r \in Messages /\ Reply(r) /\ epoch' = epoch
        /\ \/ cache' = cache
           \/ Populate(r) /\ r.op \in {"listing", "rewarm"} /\ r.ok /\ r.epoch = epoch
           \/ Revalidate(r) /\ r.op = "stat" /\ r.epoch = epoch
    BY <1>5, <2>1, CallbackIs
  <2>3. Reply(r)'
    BY <1>5, <2>2, ReplyStays
  <2>4. PICK p : p = r.period
    OBVIOUS
  <2>5. Dated(r)' /\ p <= periods'
    BY <2>3, <2>4 DEF Reply, Dated
  <2>6. CASE cache'[a] = cache[a]
    BY <1>5, <2>6, CacheStays
  <2>7. CASE Populate(r) /\ r.op \in {"listing", "rewarm"} /\ r.ok /\ r.epoch = epoch
    <3>1. CASE a = r.alias /\ cache'[a].entry = r.entry /\ cache'[a].key = r.key /\ cache'[a].period = p /\ cache'[a].how = "fetched"
      <4>1. PICK e, k : e = r.entry /\ k = r.key
        OBVIOUS
      <4>2. KeyTells(e, k, a)' /\ (Quiet(p, a)' => e = entry')
        BY <2>2, <2>3, <2>4, <2>7, <3>1, <4>1 DEF Reply
      <4>3. e <= clock' /\ -1 <= k /\ k <= clock'
        <5>1. k \in Int /\ 0 <= k /\ e <= clock' /\ k <= clock'
          BY <2>2, <4>1, <4>2, MessageFields DEF KeyTells
        <5> QED
          BY <5>1
      <4> QED
        BY <2>5, <3>1, <4>1, <4>2, <4>3 DEF CacheOK
    <3> QED
      BY <1>1, <2>2, <2>4, <2>6, <2>7, <3>1, PopulateIs
  <2>8. CASE Revalidate(r) /\ r.op = "stat" /\ r.epoch = epoch
    <3>1. CASE /\ a = r.alias /\ r.key = r.old.key /\ cache'[a].entry = r.old.entry /\ cache'[a].key = r.old.key
               /\ cache'[a].period = p /\ cache'[a].how = r.old.how
      <4>1. PICK e, k : e = r.old.entry /\ k = r.old.key
        OBVIOUS
      <4>2. PICK x : x = r.old
        OBVIOUS
      <4>3. KeptOK(x, a)'
        BY <2>5, <2>8, <3>1, <4>2 DEF Dated
      <4>4. x.how = "kept" /\ KeyTells(e, k, a)'
        BY <4>1, <4>2, <4>3 DEF KeptOK
      <4>5. e <= clock' /\ -1 <= k /\ k <= clock'
        <5>1. k \in Int /\ 0 <= k /\ e <= clock' /\ k <= clock'
          BY <2>2, <4>1, <4>4, MessageFields DEF KeyTells
        <5> QED
          BY <5>1
      <4>6. a = Canon /\ Quiet(p, a)' => SamePresence(e, entry)'
        BY <2>2, <2>3, <2>4, <2>8, <3>1, <4>1 DEF Reply
      <4> QED
        BY <2>5, <3>1, <4>1, <4>2, <4>4, <4>5, <4>6 DEF CacheOK
    <3> QED
      BY <1>1, <2>2, <2>4, <2>6, <2>8, <3>1, RevalidateIs
  <2> QED
    BY <2>2, <2>6, <2>7, <2>8
<1> QED
  BY <1>2, <1>3, <1>4, <1>5

-----------------------------------------------------------------------------
(* Requests on their way to the server *)

LEMMA RangeOne ==
  ASSUME NEW T, NEW x \in T
  PROVE  <<x>> \in Seq(T) /\ Range(<<x>>) = {x}
<1>1. PICK s : s = <<x>>
  OBVIOUS
<1>2. s \in Seq(T) /\ Len(s) = 1 /\ s[1] = x
  BY <1>1
<1>3. \A y : y \in Range(s) <=> \E i \in 1 .. 1 : y = s[i]
  BY <1>2, RangeOf
<1>4. \A i : i \in 1 .. 1 <=> i = 1
  OBVIOUS
<1>5. \A y : y \in Range(s) <=> y = x
  BY <1>2, <1>3, <1>4
<1> QED
  BY <1>1, <1>2, <1>5

LEMMA AskedNew ==
  ASSUME Inv, [Next]_vars, NEW op \in Ops, NEW a \in Aliases, NEW e \in Nat, e <= epoch', op = "stat" => kept[a].how # "none",
         NEW r, r = Request(op, a, e)
  PROVE  r \in Messages /\ Asked(r)'
<1>1. kept[a] \in Listed /\ (kept[a] = Nothing \/ KeptOK(kept[a], a))
  BY DEF Inv, ClientOK, KeptInv
<1>2. op \in Events \cup Ops
  OBVIOUS
<1>3. /\ r \in Messages /\ r.op = op /\ r.alias = a /\ r.epoch = e /\ r.stage = "sent" /\ r.entry = 0 /\ r.key = 0 /\ r.period = 0
      /\ op = "stat" => r.old = kept[a]
  BY <1>1, <1>2, RequestIs
<1>4. clock' \in Nat /\ periods' \in Nat
  BY Clocks
<1>5. r.epoch <= epoch' /\ r.entry <= clock' /\ r.key <= clock' /\ r.period <= periods'
  BY <1>3, <1>4
<1>6. PICK x : x = kept[a]
  OBVIOUS
<1>7. ASSUME op = "stat" PROVE KeptOK(x, a)'
  <2>1. KeptOK(x, a)
    BY <1>1, <1>6, <1>7, NothingListed
  <2> QED
    BY <1>1, <1>6, <2>1, KeptStays
<1>8. r.op = "stat" => KeptOK(r.old, r.alias)'
  BY <1>3, <1>6, <1>7
<1> QED
  BY <1>3, <1>5, <1>8 DEF Asked, Dated

LEMMA AskedStays ==
  ASSUME Inv, [Next]_vars, ~Connect, NEW r \in Messages, Asked(r)
  PROVE  Asked(r)'
BY DatedStays DEF Asked

LEMMA InboxGrows ==
  ASSUME Inv, [Next]_vars, ~Connect, NEW s \in Seq(Messages), Send(s), \A r \in Range(s) : Asked(r)'
  PROVE  inbox' \in Seq(Messages) /\ \A r \in Range(inbox') : Asked(r)'
<1>1. inbox \in Seq(Messages) /\ inbox' = inbox \o s /\ \A r \in Range(inbox) : Asked(r)
  BY DEF Inv, WireInv, Send
<1>2. inbox' \in Seq(Messages) /\ Range(inbox') = Range(inbox) \cup Range(s)
  BY <1>1, RangeConcat
<1>3. \A r \in Range(inbox) : r \in Messages
  BY <1>1, RangeOf
<1>4. \A r \in Range(inbox) : Asked(r)'
  BY <1>1, <1>3, AskedStays
<1> QED
  BY <1>2, <1>4

LEMMA InboxOne ==
  ASSUME Inv, [Next]_vars, ~Connect, NEW op \in Ops, NEW a \in Aliases, op # "stat", Send(<<Request(op, a, epoch)>>)
  PROVE  inbox' \in Seq(Messages) /\ \A r \in Range(inbox') : Asked(r)'
<1>1. PICK r : r = Request(op, a, epoch)
  OBVIOUS
<1>2. epoch \in Nat /\ epoch <= epoch'
  BY Clocks
<1>3. r \in Messages /\ Asked(r)'
  BY <1>1, <1>2, AskedNew
<1>4. PICK s : s = <<r>>
  OBVIOUS
<1>5. s \in Seq(Messages) /\ Range(s) = {r}
  BY <1>3, <1>4, RangeOne
<1>6. Send(s)
  BY <1>1, <1>4
<1>7. \A x \in Range(s) : Asked(x)'
  BY <1>3, <1>5
<1> QED
  BY <1>5, <1>6, <1>7, InboxGrows

LEMMA RewarmSeq ==
  ASSUME NEW names \in Seq(Aliases), NEW e \in Nat, NEW s, s = Rewarm(names, e)
  PROVE  s \in Seq(Messages) /\ \A r \in Range(s) : \E a \in Aliases : r = Request("rewarm", a, e)
<1>1. PICK n : n = Len(names)
  OBVIOUS
<1>2. n \in Nat /\ DOMAIN names = 1 .. n /\ \A i \in 1 .. n : names[i] \in Aliases
  BY <1>1
<1>3. s = [i \in 1 .. n |-> Request("rewarm", names[i], e)]
  BY <1>2 DEF Rewarm
<1>4. \A i \in 1 .. n : Request("rewarm", names[i], e) \in Messages
  <2>1. "rewarm" \in Events \cup Ops /\ "rewarm" # "stat"
    BY DEF Ops
  <2> QED
    BY <1>2, <2>1, RequestIs
<1>5. s \in Seq(Messages) /\ Len(s) = n /\ \A i \in 1 .. n : s[i] = Request("rewarm", names[i], e)
  BY <1>2, <1>3, <1>4
<1>6. \A r : r \in Range(s) <=> \E i \in 1 .. n : r = s[i]
  BY <1>5, RangeOf
<1> QED
  BY <1>2, <1>5, <1>6

LEMMA RewarmIs ==
  ASSUME Inv, [Next]_vars, NEW names \in Seq(Aliases), NEW e \in Nat, e <= epoch', NEW s, s = Rewarm(names, e)
  PROVE  s \in Seq(Messages) /\ \A r \in Range(s) : Asked(r)'
<1>1. s \in Seq(Messages) /\ \A r \in Range(s) : \E a \in Aliases : r = Request("rewarm", a, e)
  BY RewarmSeq
<1>2. "rewarm" \in Ops
  BY DEF Ops
<1> QED
  BY <1>1, <1>2, AskedNew

\* What a new connection asks for.
LEMMA OnConnectIs ==
  ASSUME Inv, [Next]_vars, epoch' = 0, NEW s, s = OnConnect(0)
  PROVE  s \in Seq(Messages) /\ \A r \in Range(s) : Asked(r)'
<1>1. IsFiniteSet(Marked) /\ IsFiniteSet(direct) /\ Marked \subseteq Aliases /\ direct \subseteq Aliases
  BY DirCacheAssumption, FS_Subset DEF Inv, ClientOK
<1>2. PICK f, g : f = SetToSeq(Marked) /\ g = SetToSeq(direct)
  OBVIOUS
<1>3. f \in Seq(Marked) /\ g \in Seq(direct)
  BY <1>1, <1>2, SetToSeqKeeps
<1>4. PICK n, k : n = Len(f) /\ k = Len(g)
  OBVIOUS
<1>5. n \in Nat /\ DOMAIN f = 1 .. n /\ \A i \in 1 .. n : f[i] \in Marked
  BY <1>3, <1>4
<1>6. k \in Nat /\ DOMAIN g = 1 .. k /\ \A i \in 1 .. k : g[i] \in direct
  BY <1>3, <1>4
<1>7. PICK x, y : /\ x = [i \in 1 .. n |-> Request(IF kept[f[i]].how = "none" THEN "rewarm" ELSE "stat", f[i], 0)]
                  /\ y = [i \in 1 .. k |-> Request("watch", g[i], 0)]
  OBVIOUS
<1>8. s = x \o y
  BY <1>2, <1>5, <1>6, <1>7 DEF OnConnect
<1>9. 0 \in Nat /\ 0 <= epoch' /\ "rewarm" \in Ops /\ "stat" \in Ops /\ "watch" \in Ops
  BY DEF Ops
<1>10. \A i \in 1 .. n : x[i] \in Messages /\ Asked(x[i])'
  <2>1. SUFFICES ASSUME NEW i \in 1 .. n PROVE x[i] \in Messages /\ Asked(x[i])'
    OBVIOUS
  <2>2. PICK a, op, r : a = f[i] /\ op = (IF kept[a].how = "none" THEN "rewarm" ELSE "stat") /\ r = Request(op, a, 0)
    OBVIOUS
  <2>3. x[i] = r /\ a \in Aliases /\ op \in Ops /\ (op = "stat" => kept[a].how # "none")
    BY <1>1, <1>5, <1>7, <1>9, <2>2
  <2>4. r \in Messages /\ Asked(r)'
    BY <1>9, <2>2, <2>3, AskedNew
  <2> QED
    BY <2>3, <2>4
<1>11. \A i \in 1 .. k : y[i] \in Messages /\ Asked(y[i])'
  <2>1. SUFFICES ASSUME NEW i \in 1 .. k PROVE y[i] \in Messages /\ Asked(y[i])'
    OBVIOUS
  <2>2. PICK a, r : a = g[i] /\ r = Request("watch", a, 0)
    OBVIOUS
  <2>3. y[i] = r /\ a \in Aliases
    BY <1>1, <1>6, <1>7, <2>2
  <2>4. r \in Messages /\ Asked(r)'
    BY <1>9, <2>2, <2>3, AskedNew
  <2> QED
    BY <2>3, <2>4
<1>12. x \in Seq(Messages) /\ Len(x) = n
  <2>1. \A i \in 1 .. n : x[i] \in Messages
    BY <1>10
  <2> QED
    BY <1>5, <1>7, <2>1
<1>13. y \in Seq(Messages) /\ Len(y) = k
  <2>1. \A i \in 1 .. k : y[i] \in Messages
    BY <1>11
  <2> QED
    BY <1>6, <1>7, <2>1
<1>14. s \in Seq(Messages) /\ Range(s) = Range(x) \cup Range(y)
  <2>1. x \in Seq(Messages) /\ y \in Seq(Messages)
    BY <1>12, <1>13
  <2>2. x \o y \in Seq(Messages) /\ Range(x \o y) = Range(x) \cup Range(y)
    BY <2>1, RangeConcat
  <2> QED
    BY <1>8, <2>2
<1>15. \A r \in Range(x) : \E i \in 1 .. n : r = x[i]
  BY <1>12, RangeOf
<1>16. \A r \in Range(y) : \E i \in 1 .. k : r = y[i]
  BY <1>13, RangeOf
<1>17. \A r \in Range(x) : Asked(r)'
  BY <1>10, <1>15
<1>18. \A r \in Range(y) : Asked(r)'
  BY <1>11, <1>16
<1> QED
  BY <1>14, <1>17, <1>18

\* The request of a command that gave up: a listing goes, a watch is asked for
\* nobody's sake.
LEMMA InboxGivenUp ==
  ASSUME Inv, [Next]_vars, ~Connect, TimeOut
  PROVE  inbox' \in Seq(Messages) /\ \A r \in Range(inbox') : Asked(r)'
<1>1. inbox \in Seq(Messages) /\ \A r \in Range(inbox) : Asked(r)
  BY DEF Inv, WireInv
<1>2. PICK left : left = RemoveFirstMatch(inbox, LAMBDA r : r.op = "listing")
  OBVIOUS
<1>3. left \in Seq(Messages) /\ Range(left) \subseteq Range(inbox)
  BY <1>1, <1>2, ListingGivenUp
<1>4. PICK q : q = inbox' /\ q = [i \in DOMAIN left |-> IF left[i].op = "add" THEN [left[i] EXCEPT !.op = "watch"] ELSE left[i]]
  BY <1>2 DEF TimeOut
<1>5. PICK n : n = Len(left)
  OBVIOUS
<1>6. n \in Nat /\ DOMAIN left = 1 .. n /\ \A i \in 1 .. n : left[i] \in Messages
  BY <1>3, <1>5
<1>7. \A i \in 1 .. n : left[i] \in Range(inbox)
  <2>1. \A i \in 1 .. n : left[i] \in Range(left)
    BY <1>3, <1>5, RangeOf
  <2> QED
    BY <1>3, <2>1
<1>8. \A i \in 1 .. n : q[i] \in Messages /\ Asked(q[i])'
  <2>1. SUFFICES ASSUME NEW i \in 1 .. n PROVE q[i] \in Messages /\ Asked(q[i])'
    OBVIOUS
  <2>2. PICK x, y : x = left[i] /\ y = IF x.op = "add" THEN [x EXCEPT !.op = "watch"] ELSE x
    OBVIOUS
  <2>3. q[i] = y /\ x \in Messages /\ Asked(x)
    BY <1>1, <1>4, <1>6, <1>7, <2>2
  <2>4. y \in Messages
    BY <2>2, <2>3 DEF Messages, Ops
  <2>5. Asked(y)
    <3>1. CASE x.op = "add"
      <4>1. /\ y.op = "watch" /\ y.epoch = x.epoch /\ y.entry = x.entry /\ y.key = x.key /\ y.period = x.period /\ y.stage = x.stage
        BY <2>2, <2>3, <3>1 DEF Messages
      <4> QED
        BY <2>3, <4>1 DEF Asked, Dated, Ops
    <3>2. CASE x.op # "add"
      BY <2>2, <2>3, <3>2
    <3> QED
      BY <3>1, <3>2
  <2>6. Asked(y)'
    BY <2>4, <2>5, AskedStays
  <2> QED
    BY <2>3, <2>4, <2>6
<1>9. q \in Seq(Messages) /\ Len(q) = n
  <2>1. \A i \in 1 .. n : q[i] \in Messages
    BY <1>8
  <2>2. DOMAIN q = 1 .. n /\ q = [i \in 1 .. n |-> q[i]]
    BY <1>4, <1>6
  <2> QED
    BY <1>6, <2>1, <2>2
<1>10. \A r \in Range(q) : \E i \in 1 .. n : r = q[i]
  BY <1>9, RangeOf
<1>11. \A r \in Range(q) : Asked(r)'
  BY <1>8, <1>10
<1> QED
  BY <1>4, <1>9, <1>11

LEMMA NextInbox ==
  ASSUME Inv, [Next]_vars
  PROVE  inbox' \in Seq(Messages) /\ \A r \in Range(inbox') : Asked(r)'
<1>1. inbox \in Seq(Messages) /\ (\A r \in Range(inbox) : Asked(r)) /\ \A r \in Range(inbox) : r \in Messages
  <2>1. inbox \in Seq(Messages) /\ \A r \in Range(inbox) : Asked(r)
    BY DEF Inv, WireInv
  <2> QED
    BY <2>1, RangeOf
<1>2. "watch" \in Ops /\ "add" \in Ops /\ "unwatch" \in Ops /\ "listing" \in Ops /\ "rewarm" \in Ops
  BY DEF Ops
<1>3. CASE Connect
  <2>1. PICK s : s = OnConnect(0)
    OBVIOUS
  <2>2. inbox' = s /\ epoch' = 0
    BY <1>3, <2>1 DEF Connect
  <2>3. s \in Seq(Messages) /\ \A r \in Range(s) : Asked(r)'
    BY <2>1, <2>2, OnConnectIs
  <2> QED
    BY <2>2, <2>3
<1>4. ASSUME ~Connect, inbox' \in Seq(Messages), Range(inbox') \subseteq Range(inbox)
      PROVE  \A r \in Range(inbox') : Asked(r)'
  BY <1>1, <1>4, AskedStays
<1>5. CASE ~Connect /\ (Change \/ RemoveDir \/ MakeDir \/ PassOn \/ Overflow)
  <2>1. inbox' = inbox
    BY <1>5 DEF Change, RemoveDir, MakeDir, PassOn, Overflow, wire
  <2> QED
    BY <1>1, <1>4, <1>5, <2>1
<1>6. CASE ~Connect /\ Take
  BY <1>4, <1>6, Taken
<1>7. CASE ~Connect /\ \E r \in jobs : Work(r)
  <2>1. inbox' = inbox
    BY <1>7 DEF Work
  <2> QED
    BY <1>1, <1>4, <1>7, <2>1
<1>8. CASE ~Connect /\ TimeOut
  BY <1>8, InboxGivenUp
<1>9. CASE ~Connect /\ \E a \in Aliases : Listing(a) \/ AddWatch(a) \/ RemoveWatch(a)
  <2>1. PICK a \in Aliases : Listing(a) \/ AddWatch(a) \/ RemoveWatch(a)
    BY <1>9
  <2>2. CASE \E op \in {"listing", "add", "unwatch"} : Send(<<Request(op, a, epoch)>>)
    BY <1>2, <1>9, <2>2, InboxOne
  <2>3. CASE inbox' = inbox
    BY <1>1, <1>4, <1>9, <2>3
  <2> QED
    BY <2>1, <2>2, <2>3 DEF Listing, AddWatch, RemoveWatch
<1>10. CASE ~Connect /\ RunCallback
  <2>1. PICK a : a = Head(due).alias
    OBVIOUS
  <2>2. a \in Aliases
    BY <1>10, <2>1, CalledBack
  <2>3. CASE \E op \in {"watch", "listing", "rewarm"} : Send(<<Request(op, a, epoch)>>)
    BY <1>2, <1>10, <2>2, <2>3, InboxOne
  <2>4. CASE inbox' = inbox
    BY <1>1, <1>4, <1>10, <2>4
  <2>5. Send(<<Request("watch", a, epoch)>>) \/ Send(<<Request("listing", a, epoch)>>) \/ Send(<<Request("rewarm", a, epoch)>>) \/ inbox' = inbox
    BY <1>10, <2>1 DEF RunCallback, Populate, Revalidate, Drop
  <2> QED
    BY <2>3, <2>4, <2>5
<1>11. CASE ~Connect /\ Dispatch
  <2>1. PICK m, e : m = Head(outbox) /\ e = epoch'
    OBVIOUS
  <2>2. m.alias \in Aliases /\ e \in Nat /\ e <= epoch'
    <3>1. m.alias \in Aliases /\ e \in Nat /\ e = epoch'
      BY <1>11, <2>1, Dispatched, Clocks
    <3> QED
      BY <3>1
  <2>3. CASE inbox' = inbox
    BY <1>1, <1>4, <1>11, <2>3
  <2>4. CASE Send(<<>>)
    <3>1. inbox' = inbox
      BY <1>1, <2>4 DEF Send
    <3> QED
      BY <2>3, <3>1
  <2>5. CASE \E f \in Seq(Aliases) : Send(Rewarm(f, e))
    <3>1. PICK f \in Seq(Aliases) : Send(Rewarm(f, e))
      BY <2>5
    <3>2. PICK s : s = Rewarm(f, e)
      OBVIOUS
    <3>3. s \in Seq(Messages) /\ \A r \in Range(s) : Asked(r)'
      BY <2>2, <3>1, <3>2, RewarmIs
    <3>4. Send(s)
      BY <3>1, <3>2
    <3> QED
      BY <1>11, <3>3, <3>4, InboxGrows
  <2>6. SetToSeq(Marked) \in Seq(Aliases) /\ <<m.alias>> \in Seq(Aliases)
    <3>1. Marked \subseteq Aliases /\ IsFiniteSet(Marked)
      BY DirCacheAssumption, FS_Subset
    <3>2. PICK f : f = SetToSeq(Marked)
      OBVIOUS
    <3>3. f \in Seq(Marked)
      BY <3>1, <3>2, SetToSeqKeeps
    <3>4. f \in Seq(Aliases)
      BY <3>1, <3>3
    <3>5. <<m.alias>> \in Seq(Aliases)
      BY <2>2
    <3> QED
      BY <3>2, <3>4, <3>5
  <2>7. inbox' = inbox \/ Send(<<>>) \/ Send(Rewarm(SetToSeq(Marked), e)) \/ Send(Rewarm(<<m.alias>>, e))
    BY <1>11, <2>1 DEF Dispatch
  <2> QED
    BY <2>3, <2>4, <2>5, <2>6, <2>7
<1>12. CASE ~Connect /\ UNCHANGED vars
  <2>1. inbox' = inbox
    BY <1>12 DEF vars, wire
  <2> QED
    BY <1>1, <1>4, <1>12, <2>1
<1> QED
  BY <1>3, <1>5, <1>6, <1>7, <1>8, <1>9, <1>10, <1>11, <1>12 DEF Next

-----------------------------------------------------------------------------
(* Requests in the worker pool *)

LEMMA NextJobs ==
  ASSUME Inv, [Next]_vars
  PROVE  jobs' \subseteq Messages /\ \A r \in jobs' : Job(r)'
<1>1. jobs \subseteq Messages /\ \A r \in jobs : Job(r)
  BY DEF Inv, WireInv
<1>2. CASE Connect
  BY <1>2 DEF Connect
<1>3. ASSUME ~Connect, \A x \in jobs' : x \in jobs \/ (x \in Messages /\ Job(x))
      PROVE  jobs' \subseteq Messages /\ \A r \in jobs' : Job(r)'
  BY <1>1, <1>3, JobStays
<1>4. CASE ~Connect /\ Take
  <2>1. PICK h : h = Head(inbox)
    OBVIOUS
  <2>2. h \in Messages /\ Asked(h)
    BY <1>4, <2>1, Taken DEF Inv, WireInv
  <2>3. CASE h.op \in {"listing", "rewarm", "stat"} /\ jobs' = jobs \cup {h}
    <3>1. Job(h)
      BY <2>2, <2>3 DEF Job, Asked
    <3> QED
      BY <1>3, <1>4, <2>2, <2>3, <3>1
  <2>4. CASE jobs' = jobs
    BY <1>3, <1>4, <2>4
  <2> QED
    BY <1>4, <2>1, <2>3, <2>4 DEF Take
<1>5. CASE ~Connect /\ \E r \in jobs : Work(r)
  BY <1>3, <1>5, WorkIs
<1>6. CASE ~Connect /\ TimeOut
  BY <1>3, <1>6 DEF TimeOut
<1>7. CASE ~Connect /\ jobs' = jobs
  BY <1>3, <1>7
<1>8. CASE Change \/ RemoveDir \/ MakeDir \/ PassOn \/ Overflow
  BY <1>2, <1>7, <1>8 DEF Change, RemoveDir, MakeDir, PassOn, Overflow, wire
<1>9. CASE \E a \in Aliases : Listing(a) \/ AddWatch(a) \/ RemoveWatch(a)
  BY <1>2, <1>7, <1>9 DEF Listing, AddWatch, RemoveWatch
<1>10. CASE RunCallback \/ Dispatch
  BY <1>2, <1>7, <1>10 DEF RunCallback, Dispatch
<1>11. CASE UNCHANGED vars
  BY <1>2, <1>7, <1>11 DEF vars, wire
<1> QED
  BY <1>2, <1>4, <1>5, <1>6, <1>8, <1>9, <1>10, <1>11 DEF Next

-----------------------------------------------------------------------------
(* Events and replies *)

LEMMA EventNew ==
  ASSUME Inv, NEW kind \in Events, NEW a \in Aliases, NEW r, r = Event(kind, a)
  PROVE  r \in Messages /\ IsEvent(r)
<1>1. /\ r \in Messages /\ r.op = kind /\ r.epoch = 0 /\ r.stage = "sent" /\ r.entry = 0 /\ r.key = 0 /\ r.period = 0
  BY EventIs
<1>2. kind # "stat" /\ epoch \in Nat /\ clock \in Nat /\ periods \in Nat
  BY DEF Events, Inv, DiskOK, TableOK, ClientOK
<1> QED
  BY <1>1, <1>2 DEF IsEvent, Dated

LEMMA NextOutbox ==
  ASSUME Inv, [Next]_vars
  PROVE  outbox' \in Seq(Messages) /\ \A r \in Range(outbox') : IsEvent(r)' \/ Reply(r)'
<1>1. outbox \in Seq(Messages) /\ \A r \in Range(outbox) : IsEvent(r) \/ Reply(r)
  BY DEF Inv, WireInv
<1>2. CASE Connect
  <2>1. <<>> \in Seq(Messages) /\ Range(<<>>) = {} /\ outbox' = <<>>
    BY <1>2, RangeEmpty DEF Connect
  <2> QED
    BY <2>1
<1>3. ASSUME ~Connect, outbox' \in Seq(Messages), \A r \in Range(outbox') : r \in Range(outbox) \/ IsEvent(r) \/ Reply(r)
      PROVE  \A r \in Range(outbox') : IsEvent(r)' \/ Reply(r)'
  <2>1. \A r \in Range(outbox') : r \in Messages
    BY <1>3, RangeOf
  <2> QED
    BY <1>1, <1>3, <2>1, EventStays, ReplyStays
<1>4. ASSUME ~Connect, NEW m \in Messages, IsEvent(m) \/ Reply(m), outbox' = Append(outbox, m)
      PROVE  outbox' \in Seq(Messages) /\ \A r \in Range(outbox') : IsEvent(r)' \/ Reply(r)'
  <2>1. outbox' \in Seq(Messages) /\ Range(outbox') = Range(outbox) \cup {m}
    BY <1>1, <1>4, RangeAppend
  <2> QED
    BY <1>3, <1>4, <2>1
<1>5. CASE ~Connect /\ outbox' = outbox
  BY <1>1, <1>3, <1>5
<1>6. CASE ~Connect /\ PassOn
  <2>1. PICK k : k = Head(osQueue)
    OBVIOUS
  <2>2. k \in Events
    <3>1. osQueue # <<>> /\ osQueue \in Seq({"child", "self"})
      BY <1>6 DEF PassOn, Inv, TableOK
    <3>2. k \in {"child", "self"}
      BY <2>1, <3>1, RangeTail
    <3> QED
      BY <3>2 DEF Events
  <2>3. ASSUME NEW s \in Seq(Messages), outbox' = outbox \o s, \A r \in Range(s) : IsEvent(r)
        PROVE  outbox' \in Seq(Messages) /\ \A r \in Range(outbox') : IsEvent(r)' \/ Reply(r)'
    <3>1. outbox' \in Seq(Messages) /\ Range(outbox') = Range(outbox) \cup Range(s)
      BY <1>1, <2>3, RangeConcat
    <3> QED
      BY <1>3, <1>6, <2>3, <3>1
  <2>4. CASE outbox' = outbox \o ToAliases(k)
    <3>1. PICK s : s = ToAliases(k)
      OBVIOUS
    <3>2. s \in Seq(Messages) /\ \A m \in Range(s) : \E b \in Aliases : m = Event(k, b)
      BY <2>2, <3>1, ToAliasesIs DEF Inv
    <3>3. \A m \in Range(s) : IsEvent(m)
      BY <2>2, <3>2, EventNew
    <3> QED
      BY <2>3, <2>4, <3>1, <3>2, <3>3
  <2>5. CASE \E kind \in Events : outbox' = outbox \o <<Event(kind, Canon)>>
    <3>1. PICK kind \in Events : outbox' = outbox \o <<Event(kind, Canon)>>
      BY <2>5
    <3>2. PICK m : m = Event(kind, Canon)
      OBVIOUS
    <3>3. m \in Messages /\ IsEvent(m)
      BY <3>1, <3>2, EventNew, DirCacheAssumption
    <3>4. PICK s : s = <<m>>
      OBVIOUS
    <3>5. s \in Seq(Messages) /\ Range(s) = {m}
      BY <3>3, <3>4, RangeOne
    <3>6. outbox' = outbox \o s
      BY <3>1, <3>2, <3>4
    <3>7. \A r \in Range(s) : IsEvent(r)
      BY <3>3, <3>5
    <3> QED
      BY <2>3, <3>5, <3>6, <3>7
  <2>6. "child" \in Events /\ "parent" \in Events
    BY DEF Events
  <2>7. outbox' = outbox \o ToAliases(k) \/ outbox' = outbox \o <<Event("child", Canon)>> \/ outbox' = outbox \o <<Event("parent", Canon)>>
    BY <1>6, <2>1 DEF PassOn
  <2> QED
    BY <2>4, <2>5, <2>6, <2>7
<1>7. CASE ~Connect /\ Overflow
  <2>1. PICK m : m = Event("overflow", Canon)
    OBVIOUS
  <2>2. "overflow" \in Events /\ Canon \in Aliases
    BY DirCacheAssumption DEF Events
  <2>3. m \in Messages /\ IsEvent(m)
    BY <2>1, <2>2, EventNew
  <2>4. outbox' = Append(outbox, m)
    BY <1>7, <2>1 DEF Overflow
  <2> QED
    BY <1>4, <1>7, <2>3, <2>4
<1>8. CASE ~Connect /\ Take
  <2>1. PICK h : h = Head(inbox)
    OBVIOUS
  <2>2. h \in Messages /\ Asked(h)
    BY <1>8, <2>1, Taken DEF Inv, WireInv
  <2>3. CASE \E ok \in BOOLEAN : h.op = "add" /\ outbox' = Append(outbox, [h EXCEPT !.stage = "replied", !.ok = ok])
    <3>1. PICK m : h.op = "add" /\ outbox' = Append(outbox, m) /\ \E ok \in BOOLEAN : m = [h EXCEPT !.stage = "replied", !.ok = ok]
      BY <2>3
    <3>2. m \in Messages /\ m.op = "add" /\ m.stage = "replied" /\ m.epoch = h.epoch /\ m.entry = h.entry /\ m.key = h.key /\ m.period = h.period
      BY <2>2, <3>1 DEF Messages
    <3>3. Reply(m)
      BY <2>2, <3>2 DEF Asked, Reply, Dated
    <3> QED
      BY <1>4, <1>8, <3>1, <3>2, <3>3
  <2> QED
    BY <1>5, <1>8, <2>1, <2>3 DEF Take
<1>9. CASE ~Connect /\ \E r \in jobs : Work(r)
  BY <1>4, <1>5, <1>9, WorkIs
<1>10. CASE ~Connect /\ TimeOut
  <2>1. PICK s : s = GivenUp(outbox)
    OBVIOUS
  <2>2. s \in Seq(Messages) /\ Range(s) \subseteq Range(outbox)
    BY <1>1, <2>1, GivenUpKeeps
  <2>3. outbox' = s
    BY <1>10, <2>1 DEF TimeOut
  <2> QED
    BY <1>3, <1>10, <2>2, <2>3
<1>11. CASE ~Connect /\ Dispatch
  BY <1>3, <1>11, Dispatched
<1>12. CASE Change \/ RemoveDir \/ MakeDir
  BY <1>2, <1>5, <1>12 DEF Change, RemoveDir, MakeDir, wire
<1>13. CASE \E a \in Aliases : Listing(a) \/ AddWatch(a) \/ RemoveWatch(a)
  BY <1>2, <1>5, <1>13 DEF Listing, AddWatch, RemoveWatch
<1>14. CASE RunCallback
  BY <1>2, <1>5, <1>14 DEF RunCallback
<1>15. CASE UNCHANGED vars
  BY <1>2, <1>5, <1>15 DEF vars, wire
<1> QED
  BY <1>2, <1>6, <1>7, <1>8, <1>9, <1>10, <1>11, <1>12, <1>13, <1>14, <1>15 DEF Next

LEMMA NextDue ==
  ASSUME Inv, [Next]_vars
  PROVE  due' \in Seq(Messages) /\ \A r \in Range(due') : Reply(r)' /\ r.op # "add"
<1>1. due \in Seq(Messages) /\ \A r \in Range(due) : Reply(r) /\ r.op # "add"
  BY DEF Inv, WireInv
<1>2. CASE Connect
  <2>1. <<>> \in Seq(Messages) /\ Range(<<>>) = {} /\ due' = <<>>
    BY <1>2, RangeEmpty DEF Connect
  <2> QED
    BY <2>1
<1>3. ASSUME ~Connect, due' \in Seq(Messages), \A r \in Range(due') : r \in Range(due) \/ (Reply(r) /\ r.op # "add")
      PROVE  \A r \in Range(due') : Reply(r)' /\ r.op # "add"
  <2>1. \A r \in Range(due') : r \in Messages
    BY <1>3, RangeOf
  <2> QED
    BY <1>1, <1>3, <2>1, ReplyStays
<1>4. CASE ~Connect /\ due' = due
  BY <1>1, <1>3, <1>4
<1>5. CASE ~Connect /\ RunCallback
  BY <1>3, <1>5, CalledBack
<1>6. CASE ~Connect /\ TimeOut
  <2>1. PICK s : s = GivenUp(due)
    OBVIOUS
  <2>2. s \in Seq(Messages) /\ Range(s) \subseteq Range(due)
    BY <1>1, <2>1, GivenUpKeeps
  <2>3. due' = s
    BY <1>6, <2>1 DEF TimeOut
  <2> QED
    BY <1>3, <1>6, <2>2, <2>3
<1>7. CASE ~Connect /\ Dispatch
  <2>1. PICK m : m = Head(outbox)
    OBVIOUS
  <2>2. m \in Messages /\ (IsEvent(m) \/ Reply(m))
    BY <1>7, <2>1, Dispatched
  <2>3. CASE m.stage = "replied" /\ m.op # "add" /\ due' = Append(due, m)
    <3>1. Reply(m)
      BY <2>2, <2>3 DEF IsEvent
    <3>2. due' \in Seq(Messages) /\ Range(due') = Range(due) \cup {m}
      BY <1>1, <2>2, <2>3, RangeAppend
    <3> QED
      BY <1>3, <1>7, <2>3, <3>1, <3>2
  <2> QED
    BY <1>4, <1>7, <2>1, <2>3 DEF Dispatch
<1>8. CASE Change \/ RemoveDir \/ MakeDir \/ PassOn \/ Overflow
  BY <1>2, <1>4, <1>8 DEF Change, RemoveDir, MakeDir, PassOn, Overflow, wire
<1>9. CASE \E a \in Aliases : Listing(a) \/ AddWatch(a) \/ RemoveWatch(a)
  BY <1>2, <1>4, <1>9 DEF Listing, AddWatch, RemoveWatch
<1>10. CASE Take
  BY <1>2, <1>4, <1>10 DEF Take
<1>11. CASE \E r \in jobs : Work(r)
  BY <1>2, <1>4, <1>11 DEF Work
<1>12. CASE UNCHANGED vars
  BY <1>2, <1>4, <1>12 DEF vars, wire
<1> QED
  BY <1>2, <1>5, <1>6, <1>7, <1>8, <1>9, <1>10, <1>11, <1>12 DEF Next

LEMMA NextInv == Inv /\ [Next]_vars => Inv'
<1> SUFFICES ASSUME Inv, [Next]_vars PROVE Inv'
  OBVIOUS
<1>1. WireInv'
  BY NextInbox, NextJobs, NextOutbox, NextDue DEF WireInv
<1> QED
  BY <1>1, NextDisk, NextTable, NextClient, NextKept, NextCache DEF Inv

-----------------------------------------------------------------------------
(* Theorems *)

\* In every state directory, watch table and caches are well formed, whatever
\* order requests, events and callbacks take: handle_ctl keeps each alias once
\* in the table, and no alias is watched when the OS does not watch.
THEOREM TypeCorrect == Spec => []TypeOK
<1>1. Spec => []Inv
  BY InitInv, NextInv, PTL DEF Spec
<1> QED
  BY <1>1, InvTypes, PTL

\* A listing that relay--listing-populate installed while its directory was
\* watched is what a fresh one would be, and one that the stat of
\* relay--revalidate-marked-on-connect confirmed under the directory's own path
\* has the names it would have, as long as no event that evicts it is on its way
\* to relay--handle-event.
THEOREM ListingsCurrent == Spec => []CoveredIsCurrent
<1>1. Spec => []Inv
  BY InitInv, NextInv, PTL DEF Spec
<1> QED
  BY <1>1, InvCovers, PTL
=============================================================================
