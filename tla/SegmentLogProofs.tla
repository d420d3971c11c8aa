-------------------------- MODULE SegmentLogProofs --------------------------
(***************************************************************************)
(* What the directory of a segment log can look like after any sequence of *)
(* appends, rolls, evictions, I/O errors, aborted calls and crashes, for   *)
(* every batch size, segment size and retention policy, and why open()     *)
(* always accepts it.                                                      *)
(***************************************************************************)
EXTENDS SegmentLog, TLAPS, SequenceTheorems, FiniteSetTheorems, WellFoundedInduction

Slot == Record \cup {Sentinel}
File == [slots : Seq(Slot), synced : Nat]
ClosedSegment == [base : Nat, last : Nat]

\* The first n slots of the segment that starts at base hold its records.
Good(s, base, n) ==
    /\ n \in 0..Len(s)
    /\ \A i \in 1..n : s[i] \in Record /\ s[i].off = base + i - 1

-----------------------------------------------------------------------------
(***************************************************************************)
(* The directory, whether the log is open or not.                          *)
(***************************************************************************)
DiskTypes ==
    /\ IsFiniteSet(DOMAIN segs) /\ DOMAIN segs \subseteq Nat
    /\ segs \in [DOMAIN segs -> File]
    /\ \A b \in DOMAIN segs : segs[b].synced <= Len(segs[b].slots)
    /\ idx \in [DOMAIN idx -> Nat \ {0}] /\ DOMAIN idx \subseteq Nat
    /\ watermark \in Nat \cup {None}

\* An index lists records that were synced before it was written.
IndexFits ==
    \A b \in Indexed : idx[b] <= segs[b].synced /\ Good(segs[b].slots, b, idx[b])

\* No segment begins inside another one, nor inside one whose index was left
\* behind when it was deleted.
NoOverlap ==
    \A b \in DOMAIN idx, o \in DOMAIN segs : b < o => b + idx[b] <= o

\* An indexed segment ends where the next one begins.
Linked ==
    \A b \in Indexed : (\E o \in DOMAIN segs : b < o) => b + idx[b] \in DOMAIN segs

\* A segment without an index is the last one.
OneOpen ==
    \A b \in Unindexed, o \in DOMAIN segs : o <= b

\* The last segment begins after every index left behind.
LastSegment ==
    DOMAIN segs # {} =>
        \E h \in DOMAIN segs : \A o \in DOMAIN segs \cup DOMAIN idx : o <= h

\* When every segment is gone, the watermark is beyond what they held.
Remembered ==
    DOMAIN segs = {} =>
        \A b \in DOMAIN idx : watermark \in Nat /\ b + idx[b] <= watermark

DiskInv ==
    /\ DiskTypes /\ IndexFits /\ NoOverlap /\ Linked /\ OneOpen /\ LastSegment /\ Remembered

(***************************************************************************)
(* The struct of an open log, against the directory.                       *)
(***************************************************************************)
MemoryTypes ==
    /\ up \in BOOLEAN /\ poisoned \in BOOLEAN
    /\ closed \in Seq(ClosedSegment)
    /\ active \in ActiveSegment \cup {None}
    /\ next_offset \in Nat

\* The next offset is beyond every index.
Ahead ==
    \A b \in DOMAIN idx : b + idx[b] <= next_offset

\* The active segment is the last one, its committed records are synced, and
\* they end at the next offset.  It has an index only if an earlier attempt to
\* close it was aborted.
ActiveFits ==
    active # None =>
        /\ active.base \in DOMAIN segs
        /\ active.base + active.n = next_offset
        /\ active.n <= file.synced /\ Good(file.slots, active.base, active.n)
        /\ \A o \in DOMAIN segs : o <= active.base
        /\ active.base \in DOMAIN idx => idx[active.base] <= active.n

\* Without an active segment, a file without an index can only be one that a
\* failed ensure_active left, where the next one will be created.
NoneActive ==
    active = None =>
        /\ Unindexed \subseteq {next_offset}
        /\ \A b \in Indexed : b + idx[b] \in DOMAIN segs \cup {next_offset}

isActive(b) == active # None /\ active.base = b

\* `closed` lists the indexed segments in ascending order.
ClosedFits ==
    /\ \A i \in DOMAIN closed :
         /\ closed[i].base \in Indexed /\ ~isActive(closed[i].base)
         /\ closed[i].last = closed[i].base + idx[closed[i].base] - 1
    /\ \A i, j \in DOMAIN closed : i < j => closed[i].base < closed[j].base
    /\ \A b \in Indexed : isActive(b) \/ \E i \in DOMAIN closed : closed[i].base = b

MemoryInv ==
    /\ MemoryTypes
    /\ up => Ahead /\ ActiveFits /\ NoneActive /\ ClosedFits

(***************************************************************************)
(* The append call in progress.                                            *)
(***************************************************************************)
Writing == {"write_record", "sync", "commit"}
Rolling == {"roll_sync", "sentinel", "sync_sentinel", "write_index", "close"}
AfterRoll == {"watermark", "retention"}

CallTypes ==
    /\ call \in [pc : PCs, id : 0..MaxAppends, size : Nat, written : Nat]
    /\ calls \in 0..MaxAppends
    /\ call.pc # "idle" => up /\ call.id \in Batches /\ call.size # 0
    /\ call.pc = "ensure_active" => call.written = 0
    /\ call.pc \in {"ensure_active"} \cup AfterRoll => active = None
    /\ call.pc \in Writing \cup Rolling => active # None

\* The records of the batch written so far follow the committed ones, and all
\* of them are synced at the commit point.
BatchWritten ==
    call.pc \in Writing =>
        /\ Good(file.slots, active.base, active.n + call.written)
        /\ call.written <= call.size
        /\ call.pc = "write_record" <=> call.written < call.size
        /\ call.pc = "commit" => active.n + call.size <= file.synced

RollReady ==
    /\ call.pc \in Rolling => active.n # 0
    /\ call.pc = "close" => active.base \in DOMAIN idx /\ idx[active.base] = active.n
    /\ call.pc = "retention" => watermark = next_offset

CallInv == CallTypes /\ BatchWritten /\ RollReady

HistoryTypes ==
    /\ result \in [Batches -> {None, "Ok", "Err", "LateErr", "Lost"}]
    /\ evicted \in Seq(Record) /\ faults \in Nat

LogInv == DiskInv /\ MemoryInv /\ CallInv /\ HistoryTypes

-----------------------------------------------------------------------------
\* Facts about sets of naturals.

\* Every non-empty set of naturals has a least element.
LEMMA LeastNat ==
    ASSUME NEW T \in SUBSET Nat, T # {}
    PROVE  \E m \in T : \A x \in T : m <= x
<1> DEFINE R == OpToRel(<, Nat)
<1>1. IsWellFoundedOn(R, Nat)
  BY NatLessThanWellFounded
<1> HIDE DEF R
<1>2. \E m \in T : \A x \in T : ~(<<x, m>> \in R)
  BY ONLY <1>1, WFMin, T \in SUBSET Nat, T # {}
<1>3. \A x, y \in Nat : x < y => <<x, y>> \in R
  BY DEF R, OpToRel
<1>4. PICK m \in T : \A x \in T : ~(<<x, m>> \in R)
  BY <1>2
<1>5. \A x \in T : ~(x < m)
  BY <1>3, <1>4
<1> QED BY <1>5

\* Induction, for a set instead of a predicate.
LEMMA SetInduction ==
    ASSUME NEW T \in SUBSET Nat, 0 \in T, \A n \in T : n + 1 \in T
    PROVE  T = Nat
<1> SUFFICES ASSUME Nat \ T # {} PROVE FALSE
  OBVIOUS
<1>1. PICK m \in Nat \ T : \A x \in Nat \ T : m <= x
  BY LeastNat
<1>2. m # 0
  OBVIOUS
<1>3. m - 1 \in Nat
  BY <1>2
<1>4. m - 1 \in T
  BY <1>1, <1>3
<1>5. (m - 1) + 1 \in T
  BY <1>4
<1> QED BY <1>3, <1>5

\* Every finite non-empty set of naturals has a greatest element.
LEMMA GreatestNat ==
    ASSUME NEW S \in SUBSET Nat, IsFiniteSet(S), S # {}
    PROVE  \E m \in S : \A x \in S : x <= m
<1> DEFINE Has(U) == \E m \in U : \A x \in U : x <= m
           T == {n \in Nat : \A U \in SUBSET Nat : IsFiniteSet(U) /\ Cardinality(U) = n + 1 => Has(U)}
<1>1. 0 \in T
  <2> SUFFICES ASSUME NEW U \in SUBSET Nat, IsFiniteSet(U), Cardinality(U) = 1 PROVE Has(U)
    OBVIOUS
  <2>1. PICK x : U = {x}
    BY FS_Singleton
  <2> QED BY <2>1
<1>2. ASSUME NEW n \in T PROVE n + 1 \in T
  <2> SUFFICES ASSUME NEW U \in SUBSET Nat, IsFiniteSet(U), Cardinality(U) = (n + 1) + 1 PROVE Has(U)
    OBVIOUS
  <2>1. U # {}
    BY FS_EmptySet
  <2>2. PICK y \in U : TRUE
    BY <2>1
  <2>3. IsFiniteSet(U \ {y}) /\ Cardinality(U \ {y}) = n + 1
    BY FS_RemoveElement
  <2>4. Has(U \ {y})
    BY <2>3
  <2>5. PICK m \in U \ {y} : \A x \in U \ {y} : x <= m
    BY <2>4
  <2>6. CASE y <= m
    BY <2>5, <2>6
  <2>7. CASE m <= y
    <3>1. \A x \in U : x <= y
      BY <2>5, <2>7
    <3> QED BY <3>1
  <2> QED BY <2>6, <2>7
<1>3. T = Nat
  <2> HIDE DEF T
  <2>1. T \in SUBSET Nat
    BY DEF T
  <2> QED BY <1>1, <1>2, <2>1, SetInduction
<1>4. Cardinality(S) \in Nat /\ Cardinality(S) # 0
  BY FS_CardinalityType, FS_EmptySet
<1>5. Cardinality(S) - 1 \in T
  BY <1>3, <1>4
<1> QED BY <1>4, <1>5

IsAscending(s, S) ==
    /\ s \in [1..Cardinality(S) -> S]
    /\ \A b \in S : \E i \in DOMAIN s : s[i] = b
    /\ \A i, j \in DOMAIN s : i < j => s[i] < s[j]

\* The sorted list of a finite set of bases exists.
LEMMA AscendingExists ==
    ASSUME NEW S \in SUBSET Nat, IsFiniteSet(S)
    PROVE  IsAscending(ascending(S), S)
<1> DEFINE Has(U) == \E s \in [1..Cardinality(U) -> U] : IsAscending(s, U)
           T == {n \in Nat : \A U \in SUBSET Nat : IsFiniteSet(U) /\ Cardinality(U) = n => Has(U)}
<1>1. 0 \in T
  <2> SUFFICES ASSUME NEW U \in SUBSET Nat, IsFiniteSet(U), Cardinality(U) = 0 PROVE Has(U)
    OBVIOUS
  <2>1. U = {}
    BY FS_EmptySet
  <2>2. <<>> \in [1..0 -> U] /\ DOMAIN <<>> = {}
    OBVIOUS
  <2> QED BY <2>1, <2>2 DEF IsAscending
<1>2. ASSUME NEW n \in T PROVE n + 1 \in T
  <2> SUFFICES ASSUME NEW U \in SUBSET Nat, IsFiniteSet(U), Cardinality(U) = n + 1 PROVE Has(U)
    OBVIOUS
  <2>1. U # {}
    BY FS_EmptySet
  <2>2. PICK h \in U : \A x \in U : x <= h
    BY <2>1, GreatestNat
  <2> DEFINE W == U \ {h}
  <2>3. IsFiniteSet(W) /\ Cardinality(W) = n /\ W \in SUBSET Nat
    BY FS_RemoveElement
  <2>4. Has(W)
    BY <2>3
  <2>5. PICK s : IsAscending(s, W)
    BY <2>4
  <2> DEFINE t == [i \in 1..(n + 1) |-> IF i = n + 1 THEN h ELSE s[i]]
  <2>6. s \in [1..n -> W] /\ DOMAIN s = 1..n
    BY <2>3, <2>5 DEF IsAscending
  <2>7. t \in [1..(n + 1) -> U] /\ DOMAIN t = 1..(n + 1)
    BY <2>6
  <2>8. \A b \in U : \E i \in 1..(n + 1) : t[i] = b
    <3> SUFFICES ASSUME NEW b \in U PROVE \E i \in 1..(n + 1) : t[i] = b
      OBVIOUS
    <3>1. CASE b = h
      <4>1. n + 1 \in 1..(n + 1) /\ t[n + 1] = h
        OBVIOUS
      <4> QED BY <3>1, <4>1
    <3>2. CASE b # h
      <4>1. PICK i \in 1..n : s[i] = b
        BY <2>5, <2>6, <3>2 DEF IsAscending
      <4>2. i \in 1..(n + 1) /\ t[i] = b
        BY <4>1
      <4> QED BY <4>2
    <3> QED BY <3>1, <3>2
  <2>9. \A i, j \in 1..(n + 1) : i < j => t[i] < t[j]
    <3> SUFFICES ASSUME NEW i \in 1..(n + 1), NEW j \in 1..(n + 1), i < j PROVE t[i] < t[j]
      OBVIOUS
    <3>1. i \in 1..n /\ t[i] = s[i] /\ s[i] \in W
      BY <2>6
    <3>2. CASE j = n + 1
      <4>1. t[j] = h
        BY <3>2
      <4>2. s[i] \in Nat /\ h \in Nat /\ s[i] <= h /\ s[i] # h
        BY <2>2, <3>1
      <4> QED BY <3>1, <4>1, <4>2
    <3>3. CASE j # n + 1
      <4>1. j \in 1..n /\ t[j] = s[j]
        BY <3>3
      <4>2. s[i] < s[j]
        BY <2>5, <2>6, <3>1, <4>1 DEF IsAscending
      <4> QED BY <3>1, <4>1, <4>2
    <3> QED BY <3>2, <3>3
  <2>10. IsAscending(t, U)
    <3> HIDE DEF t
    <3> QED BY <2>7, <2>8, <2>9 DEF IsAscending
  <2> QED BY <2>7, <2>10
<1>3. T = Nat
  <2> HIDE DEF T
  <2>1. T \in SUBSET Nat
    BY DEF T
  <2> QED BY <1>1, <1>2, <2>1, SetInduction
<1>4. Cardinality(S) \in T
  BY <1>3, FS_CardinalityType
<1>5. Has(S)
  BY <1>4
<1> HIDE DEF T, Has
<1> QED BY <1>5 DEF ascending, IsAscending, Has

-----------------------------------------------------------------------------
\* Facts about the slots of a segment file.

\* No record has length zero.
LEMMA SentinelIsNoRecord == Sentinel \notin Record
BY LogAssumption DEF Sentinel, Record, Batches

\* A prefix of good slots is good.
LEMMA GoodLess ==
    ASSUME NEW s \in Seq(Slot), NEW b \in Nat, NEW m, Good(s, b, m), NEW n \in 0..m
    PROVE  Good(s, b, n)
BY DEF Good

\* Slots put behind slots.
LEMMA ConcatSlots ==
    ASSUME NEW s \in Seq(Slot), NEW t \in Seq(Slot)
    PROVE  /\ s \o t \in Seq(Slot) /\ Len(s \o t) = Len(s) + Len(t)
           /\ \A i \in 1..(Len(s) + Len(t)) :
                (s \o t)[i] = IF i <= Len(s) THEN s[i] ELSE t[i - Len(s)]
BY ConcatProperties

\* set_len to n slots keeps what is good among them.
LEMMA CutGood ==
    ASSUME NEW s \in Seq(Slot), NEW n \in 0..Len(s)
    PROVE  /\ SubSeq(s, 1, n) \in Seq(Slot) /\ Len(SubSeq(s, 1, n)) = n
           /\ \A b \in Nat : \A m \in 0..n : Good(s, b, m) => Good(SubSeq(s, 1, n), b, m)
<1>1. Len(s) \in Nat /\ \A i \in 1..n : s[i] \in Slot
  BY ElementOfSeq, LenProperties
<1>2. /\ SubSeq(s, 1, n) \in Seq(Slot)
      /\ Len(SubSeq(s, 1, n)) = n
      /\ \A i \in 1..n : SubSeq(s, 1, n)[i] = s[i]
  BY <1>1
<1>3. ASSUME NEW b \in Nat, NEW m \in 0..n, Good(s, b, m)
      PROVE  Good(SubSeq(s, 1, n), b, m)
  BY <1>1, <1>2, <1>3 DEF Good
<1> QED BY <1>2, <1>3

\* One more record after m good slots, and whatever is kept behind good slots.
LEMMA AfterGood ==
    ASSUME NEW s \in Seq(Slot), NEW b \in Nat, NEW m \in Nat, Good(s, b, m), Len(s) = m,
           NEW t \in Seq(Slot), Len(t) = 1, t[1] \in Record, t[1].off = b + m
    PROVE  s \o t \in Seq(Slot) /\ Len(s \o t) = m + 1 /\ Good(s \o t, b, m + 1)
<1>1. /\ s \o t \in Seq(Slot) /\ Len(s \o t) = m + 1
      /\ \A i \in 1..(m + 1) : (s \o t)[i] = IF i <= m THEN s[i] ELSE t[i - m]
  BY ConcatSlots, ZenonT(30)
<1>2. \A i \in 1..(m + 1) : i <= m \/ (i = m + 1 /\ i - m = 1 /\ ~(i <= m))
  OBVIOUS
<1>3. \A i \in 1..(m + 1) : (s \o t)[i] \in Record /\ (s \o t)[i].off = b + i - 1
  BY <1>1, <1>2 DEF Good
<1> QED BY <1>1, <1>3 DEF Good

\* Slots put behind good ones.
LEMMA BeforeRest ==
    ASSUME NEW s \in Seq(Slot), NEW b \in Nat, NEW m \in Nat, Good(s, b, m), NEW t \in Seq(Slot)
    PROVE  s \o t \in Seq(Slot) /\ Len(s \o t) = Len(s) + Len(t) /\ Good(s \o t, b, m)
<1>1. Len(s) \in Nat /\ Len(t) \in Nat
  BY LenProperties
<1>2. \A i \in 1..m : (s \o t)[i] = s[i]
  BY <1>1, ConcatSlots DEF Good
<1> QED BY <1>1, <1>2, ConcatSlots DEF Good

\* A record written after m good slots, whatever is kept behind it.
LEMMA PutGood ==
    ASSUME NEW s \in Seq(Slot), NEW b \in Nat, NEW m, Good(s, b, m),
           NEW rec \in Record, rec.off = b + m, NEW rest \in Seq(Slot)
    PROVE  \A put : put = SubSeq(s, 1, m) \o <<rec>> =>
               /\ put \in Seq(Slot) /\ Len(put) = m + 1 /\ Good(put, b, m + 1)
               /\ put \o rest \in Seq(Slot) /\ Good(put \o rest, b, m + 1)
<1>1. m \in 0..Len(s) /\ Len(s) \in Nat /\ m \in Nat /\ m + 1 \in Nat
  BY LenProperties DEF Good
<1>2. /\ SubSeq(s, 1, m) \in Seq(Slot) /\ Len(SubSeq(s, 1, m)) = m
      /\ Good(SubSeq(s, 1, m), b, m)
  BY <1>1, CutGood
<1>3. <<rec>> \in Seq(Slot) /\ Len(<<rec>>) = 1 /\ <<rec>>[1] = rec
  BY DEF Slot
<1> DEFINE put == SubSeq(s, 1, m) \o <<rec>>
<1>4. put \in Seq(Slot) /\ Len(put) = m + 1 /\ Good(put, b, m + 1)
  BY <1>1, <1>2, <1>3, AfterGood
<1>5. put \o rest \in Seq(Slot) /\ Good(put \o rest, b, m + 1)
  <2> HIDE DEF put
  <2> QED BY <1>1, <1>4, BeforeRest
<1> QED BY <1>4, <1>5

\* recover_active returns the number of records the segment begins with.
LEMMA RecoveredGood ==
    ASSUME DiskTypes, NEW b \in DOMAIN segs
    PROVE  /\ Good(segs[b].slots, b, recovered(b)) /\ recovered(b) \in Nat
           /\ \A m : Good(segs[b].slots, b, m) => m <= recovered(b)
<1> DEFINE slots == segs[b].slots
           good(n) == \A i \in 1..n : slots[i] # Sentinel /\ slots[i].off = b + i - 1
           stops(n) == good(n) /\ (n < Len(slots) => ~good(n + 1))
           T == {n \in 1..Len(slots) : ~good(n)}
<1>1. b \in Nat /\ slots \in Seq(Slot) /\ Len(slots) \in Nat
  BY LenProperties DEF DiskTypes, File
<1>2. \E n \in 0..Len(slots) : stops(n)
  <2>1. CASE T = {}
    <3>1. good(Len(slots))
      <4>1. CASE Len(slots) = 0
        BY <4>1
      <4>2. CASE Len(slots) # 0
        BY <1>1, <2>1, <4>2
      <4> QED BY <4>1, <4>2
    <3>2. Len(slots) \in 0..Len(slots) /\ ~(Len(slots) < Len(slots))
      BY <1>1
    <3>3. stops(Len(slots))
      BY <3>1, <3>2
    <3> QED BY <3>2, <3>3
  <2>2. CASE T # {}
    <3>1. T \in SUBSET Nat
      BY <1>1
    <3>2. PICK m \in T : \A x \in T : m <= x
      BY <2>2, <3>1, LeastNat
    <3>3. m \in 1..Len(slots) /\ m - 1 \in 0..Len(slots) /\ (m - 1) + 1 = m /\ ~good(m)
      BY <1>1, <3>2
    <3>4. good(m - 1)
      <4>1. CASE m = 1
        BY <4>1
      <4>2. CASE m # 1
        <5>1. m - 1 \in 1..Len(slots) /\ m - 1 \notin T
          BY <1>1, <3>2, <3>3, <4>2
        <5> QED BY <5>1
      <4> QED BY <4>1, <4>2
    <3> QED BY <3>3, <3>4
  <2> QED BY <2>1, <2>2
<1>3. recovered(b) = CHOOSE n \in 0..Len(slots) : stops(n)
  BY DEF recovered
<1>4. /\ recovered(b) \in 0..Len(slots) /\ good(recovered(b))
      /\ recovered(b) < Len(slots) => ~good(recovered(b) + 1)
  <2> HIDE DEF slots, good
  <2> QED BY <1>2, <1>3
<1>5. \A i \in 1..recovered(b) : slots[i] \in Record /\ slots[i].off = b + i - 1
  <2> SUFFICES ASSUME NEW i \in 1..recovered(b)
               PROVE  slots[i] \in Record /\ slots[i].off = b + i - 1
    OBVIOUS
  <2>1. i \in 1..Len(slots)
    BY <1>1, <1>4
  <2>2. slots[i] \in Slot
    BY <1>1, <2>1, ElementOfSeq
  <2> QED BY <1>4, <2>2 DEF Slot
<1>6. ASSUME NEW m, Good(slots, b, m) PROVE m <= recovered(b)
  <2>1. m \in 0..Len(slots) /\ \A i \in 1..m : slots[i] # Sentinel /\ slots[i].off = b + i - 1
    BY <1>6, SentinelIsNoRecord DEF Good
  <2> SUFFICES ASSUME recovered(b) < m PROVE FALSE
    BY <1>1, <1>4, <2>1
  <2>2. recovered(b) < Len(slots) /\ \A i \in 1..(recovered(b) + 1) : i \in 1..m
    BY <1>1, <1>4, <2>1
  <2> QED BY <1>4, <2>1, <2>2
<1> QED BY <1>1, <1>4, <1>5, <1>6 DEF Good

-----------------------------------------------------------------------------
\* What open() makes of a directory that satisfies the invariant.

\* The highest base is the one no other exceeds.
LEMMA HighestIs ==
    ASSUME NEW S \in SUBSET Nat, NEW h \in S, \A o \in S : o <= h
    PROVE  Highest(S) = h
<1>1. Highest(S) \in S /\ \A o \in S : o <= Highest(S)
  BY DEF Highest
<1>2. Highest(S) \in Nat /\ h \in Nat /\ Highest(S) <= h /\ h <= Highest(S)
  BY <1>1
<1> QED BY <1>2

\* The segment without an index, if there is one, is the highest of all.
LEMMA OpenSegmentIs ==
    ASSUME DiskInv, NEW a \in Unindexed
    PROVE  /\ Unindexed = {a} /\ Highest(Unindexed) = a /\ Highest(DOMAIN segs) = a
           /\ a \in DOMAIN segs /\ a \notin DOMAIN idx /\ \A o \in DOMAIN segs : o <= a
<1>1. DOMAIN segs \in SUBSET Nat /\ Unindexed \in SUBSET Nat /\ a \in DOMAIN segs /\ a \notin DOMAIN idx
  BY DEF DiskInv, DiskTypes, Unindexed
<1>2. \A o \in DOMAIN segs : o <= a
  BY DEF DiskInv, OneOpen
<1>3. \A o \in Unindexed : o <= a /\ a <= o
  BY <1>1, <1>2 DEF DiskInv, OneOpen, Unindexed
<1>4. Unindexed = {a}
  BY <1>1, <1>3
<1>5. Highest(Unindexed) = a /\ Highest(DOMAIN segs) = a
  BY <1>1, <1>2, <1>3, HighestIs
<1> QED BY <1>1, <1>2, <1>4, <1>5

\* open() accepts a directory that satisfies the invariant.
LEMMA NotCorrupted ==
    ASSUME DiskInv
    PROVE  ~Corrupted
<1>1. ASSUME NEW b \in Indexed
      PROVE  /\ ~(idx[b] > Len(segs[b].slots))
             /\ segs[b].slots[idx[b]] # Sentinel
             /\ segs[b].slots[idx[b]].off = b + idx[b] - 1
  <2>1. Good(segs[b].slots, b, idx[b]) /\ idx[b] \in Nat \ {0} /\ segs[b].slots \in Seq(Slot)
    BY DEF DiskInv, IndexFits, DiskTypes, Indexed, File
  <2>2. idx[b] <= Len(segs[b].slots) /\ Len(segs[b].slots) \in Nat /\ idx[b] \in 1..idx[b]
    BY <2>1, LenProperties DEF Good
  <2>3. segs[b].slots[idx[b]] \in Record /\ segs[b].slots[idx[b]].off = b + idx[b] - 1
    BY <2>1, <2>2 DEF Good
  <2> QED BY <2>1, <2>2, <2>3, SentinelIsNoRecord
<1>2. \A b \in Unindexed : b = Highest(Unindexed)
  BY OpenSegmentIs
<1> QED BY <1>1, <1>2 DEF Corrupted

-----------------------------------------------------------------------------
(***************************************************************************)
(* Whatever a call does to the file of the active segment, the directory   *)
(* and the struct agree as long as the committed records stay in front and *)
(* stay synced.                                                            *)
(***************************************************************************)
LEMMA Rewritten ==
    ASSUME LogInv, up, active # None,
           NEW f \in File, f.synced <= Len(f.slots), active.n <= f.synced,
           Good(f.slots, active.base, active.n),
           segs' = [segs EXCEPT ![active.base] = f],
           UNCHANGED <<idx, watermark, up, memory>>
    PROVE  /\ DiskInv' /\ MemoryInv'
           /\ (segs[active.base])' = f
<1> USE DEF LogInv
<1>1. /\ active \in ActiveSegment /\ active.base \in Nat /\ active.n \in Nat
      /\ active.base \in DOMAIN segs
      /\ active' = active /\ idx' = idx /\ watermark' = watermark /\ closed' = closed
      /\ next_offset' = next_offset /\ up' = up /\ poisoned' = poisoned
  BY DEF MemoryInv, MemoryTypes, ActiveFits, ActiveSegment, memory
<1>2. /\ DOMAIN segs' = DOMAIN segs
      /\ segs'[active.base] = f
      /\ \A b \in DOMAIN segs : b # active.base => segs'[b] = segs[b]
  BY <1>1
<1>3. Indexed' = Indexed /\ Unindexed' = Unindexed
  BY <1>1, <1>2 DEF Indexed, Unindexed
<1>4. DiskTypes'
  <2>1. DiskTypes
    BY DEF DiskInv
  <2>2. segs' \in [DOMAIN segs' -> File]
    BY <1>1, <2>1 DEF DiskTypes
  <2>3. \A b \in DOMAIN segs' : segs'[b].synced <= Len(segs'[b].slots)
    BY <1>2, <2>1 DEF DiskTypes
  <2> QED BY <1>1, <1>2, <2>1, <2>2, <2>3 DEF DiskTypes
<1>5. IndexFits'
  <2> SUFFICES ASSUME NEW b \in Indexed
               PROVE  idx[b] <= segs'[b].synced /\ Good(segs'[b].slots, b, idx[b])
    BY <1>1, <1>3 DEF IndexFits
  <2>1. b \in DOMAIN segs /\ b \in DOMAIN idx /\ idx[b] \in Nat \ {0} /\ IndexFits
    BY DEF Indexed, DiskInv, DiskTypes
  <2>2. CASE b # active.base
    BY <1>2, <2>1, <2>2 DEF IndexFits
  <2>3. CASE b = active.base
    <3>1. idx[b] <= active.n
      BY <2>1, <2>3 DEF MemoryInv, ActiveFits
    <3>2. f.slots \in Seq(Slot) /\ f.synced \in Nat
      BY DEF File
    <3>3. Good(f.slots, b, idx[b])
      BY <1>1, <2>1, <2>3, <3>1, <3>2, GoodLess
    <3> QED BY <1>1, <1>2, <2>1, <2>3, <3>1, <3>2, <3>3
  <2> QED BY <2>2, <2>3
<1>6. NoOverlap' /\ Linked' /\ OneOpen' /\ LastSegment' /\ Remembered'
  <2>1. NoOverlap' /\ Linked'
    BY <1>1, <1>2, <1>3 DEF DiskInv, NoOverlap, Linked
  <2>2. OneOpen' /\ LastSegment' /\ Remembered'
    BY <1>1, <1>2, <1>3 DEF DiskInv, OneOpen, LastSegment, Remembered
  <2> QED BY <2>1, <2>2
<1>7. MemoryTypes'
  BY <1>1 DEF MemoryInv, MemoryTypes
<1>8. Ahead' /\ ActiveFits' /\ NoneActive' /\ ClosedFits'
  <2>1. Ahead' /\ ActiveFits'
    BY <1>1, <1>2 DEF MemoryInv, Ahead, ActiveFits, file
  <2>2. NoneActive' /\ ClosedFits'
    BY <1>1, <1>2, <1>3 DEF MemoryInv, NoneActive, ClosedFits, isActive
  <2> QED BY <2>1, <2>2
<1> QED BY <1>1, <1>2, <1>4, <1>5, <1>6, <1>7, <1>8 DEF DiskInv, MemoryInv

\* SetSlots replaces the slots of the active segment's file.
LEMMA SlotsSet ==
    ASSUME LogInv, up, active # None, NEW s \in Seq(Slot), Good(s, active.base, active.n),
           SetSlots(s), UNCHANGED <<idx, watermark, up, memory>>
    PROVE  /\ DiskInv' /\ MemoryInv'
           /\ file' = [slots |-> s, synced |-> IF file.synced < Len(s) THEN file.synced ELSE Len(s)]
<1> DEFINE f == [slots |-> s, synced |-> IF file.synced < Len(s) THEN file.synced ELSE Len(s)]
<1>1. /\ active.base \in DOMAIN segs /\ segs[active.base] \in File /\ file.synced \in Nat
      /\ active.n \in Nat /\ active.n <= file.synced /\ active' = active
  BY DEF LogInv, DiskInv, DiskTypes, MemoryInv, MemoryTypes, ActiveSegment, ActiveFits, File, file, memory
<1>2. Len(s) \in Nat /\ active.n <= Len(s)
  BY LenProperties DEF Good
<1>3. f \in File /\ f.synced <= Len(f.slots) /\ active.n <= f.synced /\ f.slots = s
  BY <1>1, <1>2 DEF File
<1>4. segs' = [segs EXCEPT ![active.base] = f]
  <2>1. \A g \in File, x \in Nat : [[g EXCEPT !.slots = s] EXCEPT !.synced = x] = [slots |-> s, synced |-> x]
    <3>1. \A g \in File : /\ [g EXCEPT !.slots = s] \in File
                           /\ [g EXCEPT !.slots = s].slots = s
      BY DEF File
    <3>2. \A g \in File, x \in Nat : [g EXCEPT !.synced = x] = [slots |-> g.slots, synced |-> x]
      BY DEF File
    <3> QED BY <3>1, <3>2
  <2>2. segs' = [segs EXCEPT ![active.base] = [[@ EXCEPT !.slots = s] EXCEPT !.synced = f.synced]]
    BY <1>1 DEF SetSlots, file, File
  <2>3. f.synced \in Nat /\ f = [slots |-> s, synced |-> f.synced]
    BY <1>1, <1>2
  <2> QED BY <1>1, <2>1, <2>2, <2>3
<1> HIDE DEF f
<1>5. DiskInv' /\ MemoryInv' /\ (segs[active.base])' = f
  BY <1>3, <1>4, Rewritten
<1> QED BY <1>5 DEF f, file

\* An fsync of the active segment's file.
LEMMA FileSynced ==
    ASSUME LogInv, up, active # None,
           segs' = [segs EXCEPT ![active.base].synced = Len(file.slots)],
           UNCHANGED <<idx, watermark, up, memory>>
    PROVE  /\ DiskInv' /\ MemoryInv'
           /\ file' = [slots |-> file.slots, synced |-> Len(file.slots)]
<1> DEFINE f == [slots |-> file.slots, synced |-> Len(file.slots)]
<1>1. /\ active.base \in DOMAIN segs /\ segs[active.base] \in File /\ file.slots \in Seq(Slot)
      /\ Good(file.slots, active.base, active.n)
  BY DEF LogInv, DiskInv, DiskTypes, MemoryInv, ActiveFits, File, file
<1>2. Len(file.slots) \in Nat /\ active.n <= Len(file.slots)
  BY <1>1, LenProperties DEF Good
<1>3. f \in File /\ f.synced <= Len(f.slots) /\ active.n <= f.synced /\ f.slots = file.slots
  BY <1>1, <1>2 DEF File
<1>4. segs' = [segs EXCEPT ![active.base] = f]
  <2>1. \A g \in File, x \in Nat : [g EXCEPT !.synced = x] = [slots |-> g.slots, synced |-> x]
    BY DEF File
  <2>2. [segs[active.base] EXCEPT !.synced = Len(file.slots)] = f
    BY <1>1, <1>2, <2>1 DEF file
  <2>3. segs' = [segs EXCEPT ![active.base] = [segs[active.base] EXCEPT !.synced = Len(file.slots)]]
    BY <1>1
  <2> QED BY <2>2, <2>3
<1> HIDE DEF f
<1>5. DiskInv' /\ MemoryInv' /\ (segs[active.base])' = f
  BY <1>1, <1>3, <1>4, Rewritten
<1> QED BY <1>5 DEF f, file

-----------------------------------------------------------------------------
\* Steps that leave the directory and the struct alone, and calls that return.

\* A step that leaves files and struct alone keeps what is known of them.
LEMMA Unmoved ==
    ASSUME DiskInv, MemoryInv, UNCHANGED <<disk, up, memory>>
    PROVE  DiskInv' /\ MemoryInv'
<1>1. /\ segs' = segs /\ idx' = idx /\ watermark' = watermark /\ up' = up
      /\ closed' = closed /\ active' = active /\ next_offset' = next_offset /\ poisoned' = poisoned
  BY DEF disk, memory
<1>2. Indexed' = Indexed /\ Unindexed' = Unindexed
  BY <1>1 DEF Indexed, Unindexed
<1>3. DiskTypes' /\ IndexFits' /\ NoOverlap' /\ Linked'
  BY <1>1, <1>2 DEF DiskInv, DiskTypes, IndexFits, NoOverlap, Linked
<1>4. OneOpen' /\ LastSegment' /\ Remembered'
  BY <1>1, <1>2 DEF DiskInv, OneOpen, LastSegment, Remembered
<1>5. MemoryInv'
  BY <1>1, <1>2 DEF MemoryInv, MemoryTypes, Ahead, ActiveFits, NoneActive, ClosedFits, isActive, file
<1> QED BY <1>3, <1>4, <1>5 DEF DiskInv

\* Nothing is claimed of a call that has returned.
LEMMA CallDone ==
    ASSUME call' = Idle, calls' \in 0..MaxAppends
    PROVE  CallInv'
<1>1. /\ call'.pc = "idle" /\ call'.id = 0 /\ call'.size = 0 /\ call'.written = 0
      /\ call' = [pc |-> "idle", id |-> 0, size |-> 0, written |-> 0]
  BY DEF Idle
<1>2. call' \in [pc : PCs, id : 0..MaxAppends, size : Nat, written : Nat]
  BY <1>1, LogAssumption DEF PCs
<1>3. CallTypes'
  BY <1>1, <1>2 DEF CallTypes, Writing, Rolling, AfterRoll
<1>4. BatchWritten' /\ RollReady'
  BY <1>1 DEF BatchWritten, RollReady, Writing, Rolling
<1> QED BY <1>3, <1>4 DEF CallInv

Results == {None, "Ok", "Err", "LateErr", "Lost"}

\* A call's result is recorded.
LEMMA Answered ==
    ASSUME HistoryTypes, NEW r \in Results, result' = [result EXCEPT ![call.id] = r],
           evicted' = evicted, Fault \/ faults' = faults
    PROVE  HistoryTypes'
<1>1. result \in [Batches -> Results] /\ faults \in Nat /\ evicted \in Seq(Record)
  BY DEF HistoryTypes, Results
<1>2. result' \in [Batches -> Results]
  BY <1>1
<1>3. faults' \in Nat
  BY <1>1 DEF Fault
<1> QED BY <1>1, <1>2, <1>3 DEF HistoryTypes, Results

\* The call returns, having changed neither the directory nor the struct.
LEMMA ReturnUnmoved ==
    ASSUME LogInv, NEW r \in Results, Return(r), UNCHANGED <<disk, up, memory>>,
           UNCHANGED <<calls, evicted>>, Fault \/ faults' = faults
    PROVE  LogInv'
<1>1. DiskInv' /\ MemoryInv'
  BY Unmoved DEF LogInv
<1>2. CallInv'
  BY CallDone DEF LogInv, CallInv, CallTypes, Return
<1>3. HistoryTypes'
  BY Answered DEF LogInv, Return
<1> QED BY <1>1, <1>2, <1>3 DEF LogInv

\* The call returns, having rewritten the active segment's file.
LEMMA ReturnRewritten ==
    ASSUME LogInv, up, active # None, NEW s \in Seq(Slot), Good(s, active.base, active.n),
           SetSlots(s), UNCHANGED <<idx, watermark, up, memory>>,
           NEW r \in Results, Return(r), UNCHANGED <<calls, evicted>>, Fault
    PROVE  LogInv'
<1>1. DiskInv' /\ MemoryInv'
  BY SlotsSet
<1>2. CallInv'
  BY CallDone DEF LogInv, CallInv, CallTypes, Return
<1>3. HistoryTypes'
  BY Answered DEF LogInv, Return
<1> QED BY <1>1, <1>2, <1>3 DEF LogInv

\* What is known of the active segment while there is one.
LEMMA ActiveFacts ==
    ASSUME LogInv, up, active # None
    PROVE  /\ active \in ActiveSegment /\ active.base \in Nat /\ active.n \in Nat
           /\ active.base \in DOMAIN segs /\ file \in File /\ file.slots \in Seq(Slot)
           /\ file.synced \in Nat /\ Len(file.slots) \in Nat /\ file.synced <= Len(file.slots)
           /\ active.n <= file.synced /\ active.n \in 0..Len(file.slots)
           /\ Good(file.slots, active.base, active.n)
           /\ active.base + active.n = next_offset
           /\ truncated \in Seq(Slot) /\ Len(truncated) = active.n
           /\ Good(truncated, active.base, active.n)
<1>1. /\ active \in ActiveSegment /\ active.base \in Nat /\ active.n \in Nat
      /\ active.base \in DOMAIN segs /\ file \in File
      /\ file.synced <= Len(file.slots)
      /\ active.n <= file.synced /\ Good(file.slots, active.base, active.n)
      /\ active.base + active.n = next_offset
  BY DEF LogInv, MemoryInv, MemoryTypes, ActiveSegment, ActiveFits, DiskInv, DiskTypes, file
<1>2. file.slots \in Seq(Slot) /\ file.synced \in Nat /\ Len(file.slots) \in Nat
  BY <1>1, LenProperties DEF File
<1>3. active.n \in 0..Len(file.slots)
  BY <1>1, <1>2
<1>4. truncated \in Seq(Slot) /\ Len(truncated) = active.n /\ Good(truncated, active.base, active.n)
  BY <1>1, <1>2, <1>3, CutGood DEF truncated
<1> QED BY <1>1, <1>2, <1>3, <1>4

\* The steps that end a call without touching a file.
LEMMA ErrorSteps ==
    ASSUME LogInv, PositionErr \/ WatermarkErr \/ DeleteErr \/ RetentionDone \/ Cancel
    PROVE  LogInv'
<1>1. CASE WatermarkErr \/ DeleteErr \/ Cancel
  BY <1>1, ReturnUnmoved DEF WatermarkErr, DeleteErr, Cancel, Results
<1>2. CASE RetentionDone
  <2>1. Return("Ok") /\ UNCHANGED <<disk, up, memory>> /\ UNCHANGED <<calls, evicted>> /\ faults' = faults
    BY <1>2 DEF RetentionDone
  <2> QED BY <2>1, ReturnUnmoved DEF Results
<1>3. CASE PositionErr
  <2>1. /\ segs' = segs /\ idx' = idx /\ watermark' = watermark /\ up' = up
        /\ closed' = closed /\ active' = active /\ next_offset' = next_offset /\ poisoned' = TRUE
    BY <1>3 DEF PositionErr, disk
  <2>2. Indexed' = Indexed /\ Unindexed' = Unindexed
    BY <2>1 DEF Indexed, Unindexed
  <2>3. DiskTypes' /\ IndexFits' /\ NoOverlap' /\ Linked'
    BY <2>1, <2>2 DEF LogInv, DiskInv, DiskTypes, IndexFits, NoOverlap, Linked
  <2>4. OneOpen' /\ LastSegment' /\ Remembered'
    BY <2>1, <2>2 DEF LogInv, DiskInv, OneOpen, LastSegment, Remembered
  <2>5. MemoryInv'
    BY <2>1, <2>2
    DEF LogInv, MemoryInv, MemoryTypes, Ahead, ActiveFits, NoneActive, ClosedFits, isActive, file
  <2>6. CallInv'
    BY <1>3, CallDone DEF PositionErr, LogInv, CallInv, CallTypes, Return
  <2>7. HistoryTypes'
    BY <1>3, Answered DEF PositionErr, LogInv, Return, Results
  <2> QED BY <2>3, <2>4, <2>5, <2>6, <2>7 DEF LogInv, DiskInv
<1> QED BY <1>1, <1>2, <1>3

\* The errors that may cut the active file back to the committed records.
LEMMA FileErrorSteps ==
    ASSUME LogInv, WriteErr \/ SyncErr \/ RollErr
    PROVE  LogInv'
<1>1. up /\ active # None /\ UNCHANGED <<idx, watermark, up, memory>> /\ Fault
  BY DEF WriteErr, SyncErr, RollErr, At, LogInv, CallInv, CallTypes, Writing, Rolling
<1>2. UNCHANGED <<calls, evicted>> /\ (Return("Err") \/ Return("LateErr"))
  BY DEF WriteErr, SyncErr, RollErr
<1>3. \/ SetSlots(truncated) \/ segs' = segs
      \/ WriteErr /\ SetSlots(SubSeq(file.slots, 1, active.n + call.written))
  BY DEF WriteErr, SyncErr, RollErr
<1>4. CASE SetSlots(truncated)
  BY <1>1, <1>2, <1>4, ActiveFacts, ReturnRewritten DEF Results
<1>5. CASE segs' = segs
  <2>1. UNCHANGED <<disk, up, memory>>
    BY <1>1, <1>5 DEF disk
  <2> QED BY <1>1, <1>2, <2>1, ReturnUnmoved DEF Results
<1>6. CASE WriteErr /\ SetSlots(SubSeq(file.slots, 1, active.n + call.written))
  <2> DEFINE n == active.n + call.written
             s == SubSeq(file.slots, 1, n)
  <2>1. Good(file.slots, active.base, n) /\ call.written \in Nat
    BY <1>6 DEF WriteErr, At, LogInv, CallInv, CallTypes, BatchWritten, Writing
  <2>2. n \in 0..Len(file.slots) /\ active.n \in 0..n /\ active.base \in Nat
    BY <1>1, <2>1, ActiveFacts DEF Good
  <2>3. s \in Seq(Slot) /\ Good(s, active.base, active.n)
    BY <1>1, <2>1, <2>2, ActiveFacts, CutGood
  <2> HIDE DEF s
  <2>4. SetSlots(s)
    BY <1>6 DEF s
  <2> QED BY <1>1, <1>2, <2>3, <2>4, ReturnRewritten DEF Results
<1> QED BY <1>3, <1>4, <1>5, <1>6

-----------------------------------------------------------------------------
\* The steps of append().

CallRecord == [pc : PCs, id : 0..MaxAppends, size : Nat, written : Nat]

\* append() is called.
LEMMA AppendCallStep ==
    ASSUME LogInv, NEW size \in Sizes, AppendCall(size)
    PROVE  LogInv'
<1>1. DiskInv' /\ MemoryInv' /\ UNCHANGED <<disk, up, memory>> /\ evicted' = evicted /\ faults' = faults
  BY Unmoved DEF LogInv, AppendCall
<1>2. calls' \in Batches /\ calls' \in 0..MaxAppends /\ calls' # 0
  BY LogAssumption DEF AppendCall, LogInv, CallInv, CallTypes, Batches
<1>3. up /\ active' = active /\ up' = up /\ segs' = segs /\ size \in Nat /\ size # 0
  BY <1>1, LogAssumption DEF AppendCall, At, disk, memory
<1>4. CASE poisoned
  <2>1. call' = call /\ call.pc = "idle"
    BY <1>4 DEF AppendCall, At
  <2>2. CallTypes' /\ BatchWritten' /\ RollReady'
    BY <1>2, <2>1
    DEF LogInv, CallInv, CallTypes, BatchWritten, RollReady, Writing, Rolling, AfterRoll
  <2>3. HistoryTypes'
    <3>1. result \in [Batches -> Results] /\ result' = [result EXCEPT ![calls'] = "Err"]
      BY <1>4 DEF LogInv, HistoryTypes, Results, AppendCall
    <3>2. result' \in [Batches -> Results]
      BY <3>1 DEF Results
    <3> QED BY <1>1, <3>2 DEF LogInv, HistoryTypes, Results
  <2> QED BY <1>1, <2>2, <2>3 DEF LogInv, CallInv
<1>5. CASE ~poisoned
  <2> DEFINE pc == IF active = None THEN "ensure_active" ELSE "write_record"
  <2>1. call' = [pc |-> pc, id |-> calls', size |-> size, written |-> 0] /\ result' = result
    BY <1>5 DEF AppendCall
  <2>2. call'.pc = pc /\ call'.id = calls' /\ call'.size = size /\ call'.written = 0
    BY <2>1
  <2>3. call' \in CallRecord
    <3>1. pc \in PCs
      BY DEF PCs
    <3> QED BY <1>2, <1>3, <2>1, <3>1 DEF CallRecord
  <2>4. CallTypes'
    <3>1. call'.pc # "idle" => up' /\ call'.id \in Batches /\ call'.size # 0
      BY <1>2, <1>3, <2>2
    <3>2. /\ call'.pc \in {"ensure_active"} \cup AfterRoll => active' = None
          /\ call'.pc \in Writing \cup Rolling => active' # None
      BY <1>3, <2>2 DEF AfterRoll, Writing, Rolling
    <3> QED BY <1>2, <2>2, <2>3, <3>1, <3>2 DEF CallTypes, CallRecord
  <2>5. BatchWritten'
    <3> SUFFICES ASSUME call'.pc \in Writing
                 PROVE  /\ Good((file.slots)', active'.base, active'.n + call'.written)
                        /\ call'.written <= call'.size
                        /\ call'.pc = "write_record" <=> call'.written < call'.size
                        /\ call'.pc # "commit"
      BY DEF BatchWritten
    <3>1. active # None /\ call'.pc = "write_record"
      BY <2>2 DEF Writing
    <3>2. Good(file.slots, active.base, active.n) /\ active.n + 0 = active.n
      BY <1>3, <3>1, ActiveFacts
    <3>3. file' = file
      BY <1>3 DEF file
    <3> QED BY <1>3, <2>2, <3>1, <3>2, <3>3
  <2>6. RollReady'
    BY <2>2 DEF RollReady, Rolling
  <2>7. HistoryTypes'
    BY <1>1, <2>1 DEF LogInv, HistoryTypes
  <2> QED BY <1>1, <2>4, <2>5, <2>6, <2>7 DEF LogInv, CallInv
<1> QED BY <1>4, <1>5

(***************************************************************************)
(* A new file at the next offset, with no active segment: it becomes the   *)
(* last segment, behind the end of every other one.                        *)
(***************************************************************************)
Fresh == [slots |-> <<>>, synced |-> 0]

\* ensure_active creates a file behind all others.
LEMMA CreatedOnDisk ==
    ASSUME LogInv, up, active = None, segs' = Assign(segs, next_offset, Fresh),
           UNCHANGED <<idx, watermark>>
    PROVE  /\ DiskInv'
           /\ next_offset \in DOMAIN segs' /\ next_offset \notin DOMAIN idx
           /\ segs'[next_offset] = Fresh
           /\ DOMAIN segs' = DOMAIN segs \cup {next_offset}
           /\ \A o \in DOMAIN segs' : o <= next_offset
           /\ Indexed' = Indexed /\ Unindexed' = {next_offset}
<1> DEFINE no == next_offset
<1>1. no \in Nat /\ DiskInv /\ DiskTypes /\ Ahead /\ NoneActive
  BY DEF LogInv, DiskInv, MemoryInv, MemoryTypes
<1>2. /\ DOMAIN segs' = DOMAIN segs \cup {no} /\ segs'[no] = Fresh
      /\ \A b \in DOMAIN segs : b # no => segs'[b] = segs[b]
      /\ idx' = idx /\ watermark' = watermark
  BY DEF Assign
<1>3. \A b \in DOMAIN idx : b \in Nat /\ idx[b] \in Nat /\ b < no /\ b + idx[b] <= no
  BY <1>1 DEF DiskTypes, Ahead
<1>4. no \notin DOMAIN idx
  BY <1>1, <1>3
<1>5. \A o \in DOMAIN segs' : o \in Nat /\ o <= no
  <2>1. \A o \in Indexed : o <= no
    BY <1>1, <1>3 DEF Indexed
  <2>2. \A o \in Unindexed : o = no
    BY <1>1 DEF NoneActive
  <2>3. DOMAIN segs = Indexed \cup Unindexed
    BY DEF Indexed, Unindexed
  <2>4. DOMAIN segs \subseteq Nat
    BY <1>1 DEF DiskTypes
  <2> QED BY <1>1, <1>2, <2>1, <2>2, <2>3, <2>4
<1>6. Indexed' = Indexed /\ Unindexed' = {no}
  <2>1. \A b \in Unindexed : b = no
    BY <1>1 DEF NoneActive
  <2> QED BY <1>2, <1>4, <2>1 DEF Indexed, Unindexed
<1>7. DiskTypes'
  <2>1. IsFiniteSet(DOMAIN segs')
    BY <1>1, <1>2, FS_AddElement DEF DiskTypes
  <2>2. Fresh \in File /\ Fresh.synced = 0 /\ Len(Fresh.slots) = 0
    BY DEF Fresh, File
  <2>3. segs' \in [DOMAIN segs' -> File]
    BY <1>1, <1>2, <2>2 DEF Assign, DiskTypes
  <2>4. \A b \in DOMAIN segs' : segs'[b].synced <= Len(segs'[b].slots)
    BY <1>1, <1>2, <2>2 DEF DiskTypes
  <2> QED BY <1>1, <1>2, <1>5, <2>1, <2>3, <2>4 DEF DiskTypes
<1>8. IndexFits'
  <2>1. \A b \in Indexed : b \in DOMAIN segs /\ b # no
    BY <1>4 DEF Indexed
  <2> QED BY <1>1, <1>2, <1>6, <2>1 DEF DiskInv, IndexFits
<1>9. NoOverlap' /\ OneOpen' /\ LastSegment' /\ Remembered'
  <2>1. NoOverlap'
    BY <1>1, <1>2, <1>3 DEF DiskInv, NoOverlap
  <2>2. OneOpen'
    BY <1>5, <1>6 DEF OneOpen
  <2>3. LastSegment'
    BY <1>2, <1>3, <1>5 DEF LastSegment
  <2>4. Remembered'
    BY <1>2 DEF Remembered
  <2> QED BY <2>1, <2>2, <2>3, <2>4
<1>10. Linked'
  BY <1>1, <1>2, <1>6 DEF Linked, NoneActive
<1> QED BY <1>2, <1>4, <1>5, <1>6, <1>7, <1>8, <1>9, <1>10 DEF DiskInv

\* ensure_active succeeds.
LEMMA EnsureActiveStep ==
    ASSUME LogInv, ensure_active
    PROVE  LogInv'
<1> DEFINE no == next_offset
<1>1. /\ up /\ call.pc = "ensure_active" /\ active = None /\ no \in Nat /\ up' = up
      /\ segs' = Assign(segs, no, Fresh) /\ idx' = idx /\ watermark' = watermark
      /\ active' = [base |-> no, n |-> 0, due |-> FALSE] /\ closed' = closed /\ next_offset' = no
      /\ poisoned' = poisoned /\ call' = [call EXCEPT !.pc = "write_record"]
      /\ calls' = calls /\ result' = result /\ evicted' = evicted /\ faults' = faults
  BY DEF ensure_active, At, Goto, Fresh, LogInv, CallInv, CallTypes, MemoryInv, MemoryTypes, history
<1>2. /\ DiskInv' /\ no \in DOMAIN segs' /\ no \notin DOMAIN idx /\ segs'[no] = Fresh
      /\ \A o \in DOMAIN segs' : o <= no
      /\ Indexed' = Indexed /\ Unindexed' = {no}
  BY <1>1, CreatedOnDisk
<1>3. active' \in ActiveSegment /\ active'.base = no /\ active'.n = 0 /\ active' # None
  <2>1. active' \in ActiveSegment /\ active'.base = no /\ active'.n = 0
    BY <1>1 DEF ActiveSegment
  <2> QED BY <2>1, LogAssumption
<1>4. file'.slots = <<>> /\ file'.synced = 0 /\ Good((file.slots)', no, 0)
  BY <1>2, <1>3 DEF file, Fresh, Good
<1>5. MemoryInv'
  <2>1. MemoryTypes'
    BY <1>1, <1>3 DEF LogInv, MemoryInv, MemoryTypes
  <2>2. Ahead'
    BY <1>1 DEF LogInv, MemoryInv, Ahead
  <2>3. ActiveFits'
    BY <1>1, <1>2, <1>3, <1>4 DEF ActiveFits
  <2>4. NoneActive'
    BY <1>3 DEF NoneActive
  <2>5. ClosedFits'
    <3>1. ClosedFits /\ \A b \in Indexed : b # no
      BY <1>1, <1>2 DEF LogInv, MemoryInv, Indexed
    <3> QED BY <1>1, <1>2, <1>3, <3>1 DEF ClosedFits, isActive
  <2> QED BY <2>1, <2>2, <2>3, <2>4, <2>5 DEF MemoryInv
<1>6. CallInv'
  <2>1. call \in CallRecord /\ call.size # 0 /\ call.written = 0 /\ call.id \in Batches
    BY <1>1 DEF LogInv, CallInv, CallTypes, CallRecord
  <2>2. /\ call' \in CallRecord /\ call'.pc = "write_record" /\ call'.written = 0
        /\ call'.size = call.size /\ call'.id = call.id /\ call.size \in Nat
    BY <1>1, <2>1 DEF CallRecord, PCs
  <2>3. CallTypes'
    BY <1>1, <1>3, <2>1, <2>2 DEF LogInv, CallInv, CallTypes, CallRecord, AfterRoll
  <2>4. BatchWritten' /\ RollReady'
    BY <1>3, <1>4, <2>1, <2>2 DEF BatchWritten, RollReady, Rolling
  <2> QED BY <2>3, <2>4 DEF CallInv
<1>7. HistoryTypes'
  BY <1>1 DEF LogInv, HistoryTypes
<1> QED BY <1>2, <1>5, <1>6, <1>7 DEF LogInv

\* ensure_active fails, with or without its file.
LEMMA EnsureActiveErrStep ==
    ASSUME LogInv, EnsureActiveErr
    PROVE  LogInv'
<1>1. /\ up /\ active = None /\ idx' = idx /\ watermark' = watermark /\ up' = up
      /\ closed' = closed /\ active' = active /\ next_offset' = next_offset /\ poisoned' = poisoned
      /\ Return("Err") /\ UNCHANGED <<calls, evicted>> /\ Fault
  BY DEF EnsureActiveErr, At, LogInv, CallInv, CallTypes, memory
<1>2. CASE segs' = segs
  BY <1>1, <1>2, ReturnUnmoved DEF disk, memory, Results
<1>3. CASE segs' = Assign(segs, next_offset, Fresh)
  <2>1. /\ DiskInv' /\ DOMAIN segs' = DOMAIN segs \cup {next_offset}
        /\ Indexed' = Indexed /\ Unindexed' = {next_offset}
    BY <1>1, <1>3, CreatedOnDisk
  <2>2. MemoryInv'
    <3>1. MemoryTypes' /\ Ahead'
      BY <1>1 DEF LogInv, MemoryInv, MemoryTypes, Ahead
    <3>2. ActiveFits' /\ NoneActive'
      BY <1>1, <2>1 DEF LogInv, MemoryInv, ActiveFits, NoneActive
    <3>3. ClosedFits'
      BY <1>1, <2>1 DEF LogInv, MemoryInv, ClosedFits, isActive
    <3> QED BY <3>1, <3>2, <3>3 DEF MemoryInv
  <2>3. CallInv'
    BY <1>1, CallDone DEF LogInv, CallInv, CallTypes, Return
  <2>4. HistoryTypes'
    BY <1>1, Answered DEF LogInv, Return, Results
  <2> QED BY <2>1, <2>2, <2>3, <2>4 DEF LogInv
<1> QED BY <1>2, <1>3 DEF EnsureActiveErr, Fresh

\* A call goes on to its next step.
LEMMA Moved ==
    ASSUME LogInv, NEW p \in PCs, Goto(p)
    PROVE  /\ call' \in CallRecord /\ call'.pc = p /\ call'.id = call.id
           /\ call'.size = call.size /\ call'.written = call.written
           /\ call \in CallRecord /\ call.size \in Nat /\ call.written \in Nat
<1>1. call \in CallRecord
  BY DEF LogInv, CallInv, CallTypes, CallRecord
<1> QED BY <1>1 DEF Goto, CallRecord

\* A step inside a call records nothing.
LEMMA HistoryKept ==
    ASSUME HistoryTypes, UNCHANGED <<history, faults>>
    PROVE  HistoryTypes' /\ calls' = calls
BY DEF HistoryTypes, history

\* A record is written behind the committed ones.
LEMMA WriteRecordStep ==
    ASSUME LogInv, write_record
    PROVE  LogInv'
<1> DEFINE m == active.n + call.written
           rec == [off |-> next_offset + call.written, id |-> call.id, k |-> call.written + 1]
           put == SubSeq(file.slots, 1, m) \o <<rec>>
           rest == SubSeq(file.slots, m + 2, Len(file.slots))
<1>1. /\ up /\ call.pc = "write_record" /\ call.written < call.size /\ active # None
      /\ call \in CallRecord /\ call.written \in Nat /\ call.size \in Nat /\ call.id \in Batches
      /\ Good(file.slots, active.base, m)
      /\ UNCHANGED <<idx, watermark, up, memory>> /\ UNCHANGED <<history, faults>>
  BY DEF write_record, At, LogInv, CallInv, CallTypes, CallRecord, BatchWritten, Writing
<1>2. /\ active.base \in Nat /\ active.n \in Nat /\ m \in Nat /\ file.slots \in Seq(Slot)
      /\ Len(file.slots) \in Nat /\ next_offset = active.base + active.n
      /\ file.synced \in Nat /\ active.n <= file.synced
  BY <1>1, ActiveFacts
<1>3. rec \in Record /\ rec.off = active.base + m
  <2>1. /\ next_offset + call.written \in Nat /\ next_offset + call.written = active.base + m
        /\ call.written + 1 \in Nat \ {0}
    <3>1. /\ active.base \in Nat /\ active.n \in Nat /\ call.written \in Nat
          /\ next_offset = active.base + active.n
      BY <1>1, <1>2, Zenon
    <3> QED BY <3>1
  <2> QED BY <1>1, <2>1 DEF Record
<1>4. rest \in Seq(Slot) /\ Len(rest) \in Nat
  <2>1. \A i \in (m + 2)..Len(file.slots) : file.slots[i] \in Slot
    BY <1>2, ElementOfSeq
  <2>2. rest \in Seq(Slot)
    BY <1>2, <2>1, SubSeqProperties
  <2> QED BY <2>2, LenProperties
<1> HIDE DEF rec, rest
<1>5. /\ put \in Seq(Slot) /\ Len(put) = m + 1 /\ Good(put, active.base, m + 1)
      /\ put \o rest \in Seq(Slot) /\ Good(put \o rest, active.base, m + 1)
  <2>1. Good(file.slots, active.base, m)
    BY <1>1
  <2>2. put = SubSeq(file.slots, 1, m) \o <<rec>>
    OBVIOUS
  <2> HIDE DEF m, put
  <2>3. \A p : p = SubSeq(file.slots, 1, m) \o <<rec>> =>
               /\ p \in Seq(Slot) /\ Len(p) = m + 1 /\ Good(p, active.base, m + 1)
               /\ p \o rest \in Seq(Slot) /\ Good(p \o rest, active.base, m + 1)
    BY <1>2, <1>3, <1>4, <2>1, PutGood, Zenon
  <2> QED BY <2>2, <2>3, Zenon
<1>6. SetSlots(put) \/ SetSlots(put \o rest)
  <2>1. (m + 1) - 1 = m /\ (m + 1) + 1 = m + 2
    BY <1>2
  <2> QED BY <2>1 DEF write_record, rec, rest
<1> HIDE DEF put
<1>7. PICK s \in Seq(Slot) : SetSlots(s) /\ Good(s, active.base, m + 1)
  BY <1>5, <1>6
<1>8. Good(s, active.base, active.n)
  BY <1>1, <1>2, <1>7, GoodLess
<1>9. /\ DiskInv' /\ MemoryInv' /\ file'.slots = s
  BY <1>1, <1>7, <1>8, SlotsSet
<1>10. active' = active /\ up' = up /\ next_offset' = next_offset
  BY <1>1 DEF memory
<1>11. CallInv'
  <2> DEFINE pc == IF call.written + 1 < call.size THEN "write_record" ELSE "sync"
  <2>1. call' = [call EXCEPT !.written = @ + 1, !.pc = pc]
    BY DEF write_record
  <2>2. pc \in PCs
    BY DEF PCs
  <2>3. /\ call' \in CallRecord /\ call'.pc = pc /\ call'.id = call.id
        /\ call'.size = call.size /\ call'.written = call.written + 1
    <3>1. call.written + 1 \in Nat
      BY <1>1
    <3> HIDE DEF pc
    <3> QED BY <1>1, <2>1, <2>2, <3>1 DEF CallRecord
  <2>4. CallTypes'
    BY <1>1, <1>10, <2>3, HistoryKept DEF LogInv, CallInv, CallTypes, CallRecord, AfterRoll
  <2>5. active'.n + call'.written = m + 1
    BY <1>1, <1>2, <1>10, <2>3
  <2>6. BatchWritten'
    BY <1>1, <1>7, <1>9, <1>10, <2>3, <2>5 DEF BatchWritten
  <2>7. RollReady'
    BY <2>3 DEF RollReady, Rolling
  <2> QED BY <2>4, <2>6, <2>7 DEF CallInv
<1>12. HistoryTypes'
  BY <1>1, HistoryKept DEF LogInv
<1> QED BY <1>9, <1>11, <1>12 DEF LogInv

\* An fsync in append or in roll_segment, and the sentinel.
LEMMA SyncSteps ==
    ASSUME LogInv, sync_all \/ RollSync \/ SyncSentinel \/ WriteSentinel
    PROVE  LogInv'
<1>1. /\ up /\ active # None /\ call.pc # "idle"
      /\ UNCHANGED <<idx, watermark, up, memory>> /\ UNCHANGED <<history, faults>>
  BY DEF sync_all, RollSync, SyncSentinel, WriteSentinel, At, LogInv, CallInv, CallTypes, Writing, Rolling
<1>2. active' = active /\ up' = up /\ next_offset' = next_offset /\ calls' = calls /\ HistoryTypes'
  BY <1>1, HistoryKept DEF memory, LogInv
<1>3. call.id \in Batches /\ call.size # 0 /\ call.size \in Nat /\ calls \in 0..MaxAppends
  BY <1>1 DEF LogInv, CallInv, CallTypes
<1>4. CASE sync_all
  <2>1. /\ DiskInv' /\ MemoryInv'
        /\ file'.slots = file.slots /\ file'.synced = Len(file.slots)
    BY <1>1, <1>4, FileSynced DEF sync_all
  <2>2. /\ call' \in CallRecord /\ call'.pc = "commit" /\ call'.id = call.id
        /\ call'.size = call.size /\ call'.written = call.written
    BY <1>4, Moved DEF sync_all, PCs
  <2>3. CallTypes'
    BY <1>1, <1>2, <1>3, <2>2 DEF CallTypes, CallRecord, AfterRoll
  <2>4. Good(file.slots, active.base, active.n + call.written) /\ call.written = call.size
    BY <1>4 DEF sync_all, At, LogInv, CallInv, CallTypes, BatchWritten, Writing
  <2>5. BatchWritten'
    BY <1>2, <1>3, <2>1, <2>2, <2>4 DEF BatchWritten, Good
  <2>6. RollReady'
    BY <2>2 DEF RollReady, Rolling
  <2> QED BY <1>2, <2>1, <2>3, <2>5, <2>6 DEF LogInv, CallInv
<1>5. CASE RollSync \/ SyncSentinel \/ WriteSentinel
  <2>1. DiskInv' /\ MemoryInv'
    <3>1. CASE RollSync \/ SyncSentinel
      BY <1>1, <3>1, FileSynced DEF RollSync, SyncSentinel
    <3>2. CASE WriteSentinel
      <4> DEFINE one == <<Sentinel>>
      <4>1. one \in Seq(Slot)
        BY DEF Slot
      <4> HIDE DEF one
      <4>2. truncated \o one \in Seq(Slot) /\ Good(truncated \o one, active.base, active.n)
        BY <1>1, <4>1, ActiveFacts, BeforeRest
      <4>3. SetSlots(truncated \o one)
        BY <3>2 DEF WriteSentinel, one
      <4> QED BY <1>1, <4>2, <4>3, SlotsSet
    <3> QED BY <1>5, <3>1, <3>2
  <2>2. \E p \in {"sentinel", "sync_sentinel", "write_index"} : Goto(p)
    BY <1>5 DEF RollSync, SyncSentinel, WriteSentinel
  <2>3. PICK p \in {"sentinel", "sync_sentinel", "write_index"} : Goto(p)
    BY <2>2
  <2>4. call' \in CallRecord /\ call'.pc = p /\ call'.id = call.id /\ call'.size = call.size
    BY <2>3, Moved DEF PCs
  <2>5. CallTypes'
    BY <1>1, <1>2, <1>3, <2>3, <2>4 DEF CallTypes, CallRecord, AfterRoll
  <2>6. active.n # 0
    BY <1>5 DEF RollSync, SyncSentinel, WriteSentinel, At, LogInv, CallInv, RollReady, Rolling
  <2>7. BatchWritten' /\ RollReady'
    BY <1>2, <2>3, <2>4, <2>6 DEF BatchWritten, RollReady, Writing, Rolling
  <2> QED BY <1>2, <2>1, <2>5, <2>7 DEF LogInv, CallInv
<1> QED BY <1>4, <1>5

(***************************************************************************)
(* The position query at the commit point leaves the records up to the end *)
(* of the batch in the file, and synced.                                   *)
(***************************************************************************)
LEMMA PositionKeeps ==
    ASSUME LogInv, up, active # None, StreamPosition \/ EndPosition,
           NEW n \in Nat, n = batchEnd, active.n <= n, n <= file.synced, Good(file.slots, active.base, n)
    PROVE  /\ DOMAIN segs' = DOMAIN segs
           /\ \A b \in DOMAIN segs : b # active.base => segs'[b] = segs[b]
           /\ segs'[active.base] \in File
           /\ segs'[active.base].synced <= Len(segs'[active.base].slots)
           /\ n <= segs'[active.base].synced /\ Good(segs'[active.base].slots, active.base, n)
           /\ \A k \in 1..n : segs'[active.base].slots[k] = segs[active.base].slots[k]
           /\ faults' \in Nat
<1>1. /\ active.base \in DOMAIN segs /\ active.base \in Nat /\ file \in File /\ file.slots \in Seq(Slot)
      /\ file.synced \in Nat /\ Len(file.slots) \in Nat /\ file.synced <= Len(file.slots)
      /\ segs[active.base] = file
  BY ActiveFacts DEF file
<1>2. faults' \in Nat
  BY DEF StreamPosition, EndPosition, Fault, LogInv, HistoryTypes
<1>3. CASE segs' = segs
  BY <1>1, <1>2, <1>3
<1>4. CASE SetSlots(SubSeq(file.slots, 1, batchEnd))
  <2> DEFINE c == SubSeq(file.slots, 1, n)
             f == [slots |-> c, synced |-> IF file.synced < Len(c) THEN file.synced ELSE Len(c)]
  <2>1. n \in 0..Len(file.slots)
    BY <1>1
  <2>2. c \in Seq(Slot) /\ Len(c) = n /\ Good(c, active.base, n)
    BY <1>1, <2>1, CutGood
  <2>3. \A k \in 1..n : c[k] = file.slots[k]
    BY <1>1, <2>1
  <2>4. SetSlots(c)
    BY <1>4
  <2> HIDE DEF c
  <2>5. f \in File /\ f.slots = c /\ f.synced \in Nat /\ f.synced <= Len(c) /\ n <= f.synced
    BY <1>1, <2>2 DEF File
  <2>6. segs' = [segs EXCEPT ![active.base] = f]
    <3>1. \A g \in File, x \in Nat : [[g EXCEPT !.slots = c] EXCEPT !.synced = x] = [slots |-> c, synced |-> x]
      <4>1. \A g \in File : /\ [g EXCEPT !.slots = c] \in File
                             /\ [g EXCEPT !.slots = c].slots = c
        BY <2>2 DEF File
      <4>2. \A g \in File, x \in Nat : [g EXCEPT !.synced = x] = [slots |-> g.slots, synced |-> x]
        BY DEF File
      <4> QED BY <4>1, <4>2
    <3>2. segs' = [segs EXCEPT ![active.base] = [[@ EXCEPT !.slots = c] EXCEPT !.synced = f.synced]]
      BY <1>1, <2>4 DEF SetSlots, file, File
    <3>3. f = [slots |-> c, synced |-> f.synced]
      BY <2>5
    <3> QED BY <1>1, <2>5, <3>1, <3>2, <3>3
  <2> HIDE DEF f
  <2>7. /\ DOMAIN segs' = DOMAIN segs /\ segs'[active.base] = f
        /\ \A b \in DOMAIN segs : b # active.base => segs'[b] = segs[b]
    BY <1>1, <2>6
  <2> QED BY <1>1, <1>2, <2>2, <2>3, <2>5, <2>7
<1> QED BY <1>3, <1>4 DEF StreamPosition, EndPosition

\* The commit point.
LEMMA CommitStep ==
    ASSUME LogInv, CommitBatch
    PROVE  LogInv'
<1>1. /\ up /\ call.pc = "commit" /\ active # None
      /\ calls' = calls /\ evicted' = evicted /\ next_offset' = next_offset + call.size
      /\ call \in CallRecord /\ call.size \in Nat /\ call.size # 0 /\ call.id \in Batches
      /\ calls \in 0..MaxAppends
  BY DEF CommitBatch, At, LogInv, CallInv, CallTypes, CallRecord, Writing
<1>2. /\ idx' = idx /\ watermark' = watermark /\ up' = up /\ closed' = closed
      /\ poisoned' = poisoned
  BY DEF CommitBatch
<1>3. PICK due \in BOOLEAN :
        /\ active' = [active EXCEPT !.n = active.n + call.size, !.due = due]
        /\ \/ due /\ Goto("roll_sync") /\ result' = result
           \/ ~due /\ Return("Ok")
  <2>1. PICK aged \in BOOLEAN :
          LET due == active.due \/ aged \/ batchEnd >= MaxRecords
          IN  /\ active' = [active EXCEPT !.n = batchEnd, !.due = due]
              /\ IF due THEN Goto("roll_sync") /\ result' = result ELSE Return("Ok")
    BY DEF CommitBatch
  <2> DEFINE d == active.due \/ aged \/ active.n + call.size >= MaxRecords
  <2>2. d \in BOOLEAN
    OBVIOUS
  <2>3. /\ active' = [active EXCEPT !.n = active.n + call.size, !.due = d]
        /\ \/ d /\ Goto("roll_sync") /\ result' = result
           \/ ~d /\ Return("Ok")
    BY <2>1 DEF batchEnd
  <2> HIDE DEF d
  <2> QED BY <2>2, <2>3
<1>4. /\ active \in ActiveSegment /\ active.n \in Nat /\ active.base \in Nat
      /\ active.base \in DOMAIN segs /\ active.base + active.n = next_offset
      /\ file.slots \in Seq(Slot)
  BY <1>1, ActiveFacts
<1>5. /\ active' \in ActiveSegment /\ active'.base = active.base
      /\ active'.n = active.n + call.size /\ active'.n \in Nat /\ active'.n # 0
  <2>1. active.n + call.size \in Nat /\ active.n + call.size # 0
    BY <1>1, <1>4
  <2> QED BY <1>3, <1>4, <2>1 DEF ActiveSegment
<1>6. active' # None
  BY <1>5, LogAssumption
<1>7. /\ Good(file.slots, active.base, active.n + call.size) /\ active.n + call.size <= file.synced
  <2>1. call.written \in Nat /\ call.written <= call.size /\ ~(call.written < call.size)
    BY <1>1 DEF LogInv, CallInv, BatchWritten, Writing, CallRecord
  <2>2. call.written = call.size
    BY <1>1, <2>1
  <2> QED BY <1>1, <2>2 DEF LogInv, CallInv, BatchWritten, Writing
<1>8. /\ DOMAIN segs' = DOMAIN segs
      /\ \A b \in DOMAIN segs : b # active.base => segs'[b] = segs[b]
      /\ segs'[active.base] \in File /\ segs'[active.base].synced <= Len(segs'[active.base].slots)
      /\ active'.n <= segs'[active.base].synced
      /\ Good(segs'[active.base].slots, active.base, active'.n)
      /\ faults' \in Nat
  <2>1. active'.n = batchEnd /\ active.n <= active'.n
    BY <1>1, <1>4, <1>5 DEF batchEnd
  <2>2. StreamPosition \/ EndPosition
    BY DEF CommitBatch
  <2> QED BY <1>1, <1>5, <1>7, <2>1, <2>2, PositionKeeps
<1>9. Indexed' = Indexed /\ Unindexed' = Unindexed
  BY <1>2, <1>8 DEF Indexed, Unindexed
<1>10. DiskInv'
  <2>1. DiskTypes'
    <3>1. segs \in [DOMAIN segs -> File] /\ \A b \in DOMAIN segs : segs[b].synced <= Len(segs[b].slots)
      BY DEF LogInv, DiskInv, DiskTypes
    <3>2. segs' = [b \in DOMAIN segs |-> segs'[b]]
      <4>1. segs' = [b \in DOMAIN segs' |-> segs'[b]]
        <5>1. CASE segs' = segs
          BY <3>1, <5>1
        <5>2. CASE SetSlots(SubSeq(file.slots, 1, batchEnd))
          BY <5>2 DEF SetSlots
        <5> QED BY <5>1, <5>2 DEF CommitBatch, StreamPosition, EndPosition
      <4> QED BY <1>8, <4>1
    <3>3. \A b \in DOMAIN segs : segs'[b] \in File /\ segs'[b].synced <= Len(segs'[b].slots)
      BY <1>8, <3>1
    <3>4. segs' \in [DOMAIN segs -> File]
      BY <3>2, <3>3
    <3> QED BY <1>2, <1>8, <3>3, <3>4 DEF LogInv, DiskInv, DiskTypes
  <2>2. IndexFits'
    <3> SUFFICES ASSUME NEW b \in Indexed
                 PROVE  idx[b] <= segs'[b].synced /\ Good(segs'[b].slots, b, idx[b])
      BY <1>2, <1>9 DEF IndexFits
    <3>1. b \in DOMAIN segs /\ b \in DOMAIN idx /\ idx[b] \in Nat \ {0}
      BY DEF Indexed, LogInv, DiskInv, DiskTypes
    <3>2. CASE b # active.base
      BY <1>8, <3>1, <3>2 DEF IndexFits, LogInv, DiskInv
    <3>3. CASE b = active.base
      <4>1. idx[b] <= active.n
        BY <1>1, <3>1, <3>3 DEF LogInv, MemoryInv, ActiveFits
      <4>2. segs'[b].slots \in Seq(Slot) /\ segs'[b].synced \in Nat
        BY <1>8, <3>3 DEF File
      <4>3. idx[b] \in 0..active'.n
        BY <1>1, <1>4, <1>5, <3>1, <4>1
      <4>4. Good(segs'[b].slots, b, idx[b])
        BY <1>4, <1>8, <3>3, <4>2, <4>3, GoodLess
      <4> QED BY <1>5, <1>8, <3>3, <4>2, <4>3, <4>4
    <3> QED BY <3>2, <3>3
  <2>3. NoOverlap' /\ Linked'
    BY <1>2, <1>8, <1>9 DEF LogInv, DiskInv, NoOverlap, Linked
  <2>4. OneOpen' /\ LastSegment' /\ Remembered'
    BY <1>2, <1>8, <1>9 DEF LogInv, DiskInv, OneOpen, LastSegment, Remembered
  <2> QED BY <2>1, <2>2, <2>3, <2>4 DEF DiskInv
<1>11. MemoryInv'
  <2>1. next_offset \in Nat /\ next_offset' \in Nat /\ next_offset <= next_offset'
    <3>1. next_offset \in Nat
      BY <1>4
    <3>2. next_offset' = next_offset + call.size /\ call.size \in Nat
      BY <1>1
    <3> QED BY ONLY <3>1, <3>2
  <2>2. MemoryTypes'
    BY <1>2, <1>5, <2>1 DEF LogInv, MemoryInv, MemoryTypes
  <2>3. Ahead'
    <3>1. \A b \in DOMAIN idx : b + idx[b] \in Nat /\ b + idx[b] <= next_offset
      BY <1>1 DEF LogInv, MemoryInv, Ahead, DiskInv, DiskTypes
    <3> QED BY <1>2, <2>1, <3>1 DEF Ahead
  <2>4. ActiveFits'
    <3>1. active.base \in DOMAIN idx => idx[active.base] \in Nat /\ idx[active.base] <= active.n
      BY <1>1 DEF LogInv, MemoryInv, ActiveFits, DiskInv, DiskTypes
    <3>2. \A o \in DOMAIN segs : o <= active.base
      BY <1>1 DEF LogInv, MemoryInv, ActiveFits
    <3>3. active'.base + active'.n = next_offset'
      BY <1>1, <1>4, <1>5
    <3>4. active.base \in DOMAIN idx => idx[active.base] <= active'.n
      BY <1>1, <1>4, <1>5, <3>1
    <3> QED BY <1>2, <1>4, <1>5, <1>8, <3>2, <3>3, <3>4 DEF ActiveFits, file
  <2>5. NoneActive'
    BY <1>6 DEF NoneActive
  <2>6. ClosedFits'
    BY <1>1, <1>2, <1>5, <1>6, <1>9 DEF LogInv, MemoryInv, ClosedFits, isActive
  <2> QED BY <2>2, <2>3, <2>4, <2>5, <2>6 DEF MemoryInv
<1>12. CASE due /\ Goto("roll_sync") /\ result' = result
  <2>1. call' \in CallRecord /\ call'.pc = "roll_sync" /\ call'.id = call.id /\ call'.size = call.size
    BY <1>12, Moved DEF PCs
  <2>2. CallTypes'
    BY <1>1, <1>2, <1>6, <2>1 DEF CallTypes, CallRecord, AfterRoll
  <2>3. BatchWritten' /\ RollReady'
    BY <1>5, <2>1 DEF BatchWritten, RollReady, Writing
  <2>4. HistoryTypes'
    BY <1>1, <1>8, <1>12 DEF LogInv, HistoryTypes
  <2> QED BY <1>10, <1>11, <2>2, <2>3, <2>4 DEF LogInv, CallInv
<1>13. CASE ~due /\ Return("Ok")
  <2>1. CallInv'
    BY <1>1, <1>13, CallDone DEF Return
  <2>2. Fault \/ faults' = faults
    BY DEF CommitBatch, StreamPosition, EndPosition
  <2>3. HistoryTypes'
    BY <1>1, <1>13, <2>2, Answered DEF LogInv, Return, Results
  <2> QED BY <1>10, <1>11, <2>1, <2>3 DEF LogInv
<1> QED BY <1>3, <1>12, <1>13

-----------------------------------------------------------------------------
\* The steps of roll_segment and enforce_retention.

\* The active segment gets its index.
LEMMA WriteIndexStep ==
    ASSUME LogInv, write_index
    PROVE  LogInv'
<1> DEFINE base == active.base
<1>1. /\ up /\ call.pc = "write_index" /\ active # None
      /\ segs' = segs /\ watermark' = watermark /\ up' = up
      /\ closed' = closed /\ active' = active /\ next_offset' = next_offset /\ poisoned' = poisoned
      /\ idx' = Assign(idx, base, active.n) /\ Goto("close") /\ UNCHANGED <<history, faults>>
  BY DEF write_index, At, LogInv, CallInv, CallTypes, Rolling, memory
<1>2. /\ base \in Nat /\ active.n \in Nat /\ active.n # 0 /\ base \in DOMAIN segs
      /\ file.slots \in Seq(Slot) /\ base + active.n = next_offset
      /\ active.n <= file.synced /\ Good(file.slots, base, active.n)
      /\ \A o \in DOMAIN segs : o <= base
  BY <1>1, ActiveFacts DEF LogInv, CallInv, RollReady, Rolling, MemoryInv, ActiveFits
<1>3. /\ DOMAIN idx' = DOMAIN idx \cup {base} /\ idx'[base] = active.n
      /\ \A b \in DOMAIN idx : b # base => idx'[b] = idx[b]
  BY <1>1 DEF Assign
<1>4. DiskTypes /\ DOMAIN segs \subseteq Nat /\ DOMAIN idx \subseteq Nat
  BY DEF LogInv, DiskInv, DiskTypes
<1>5. /\ Indexed' = Indexed \cup {base} /\ Unindexed' = {}
  <2>1. \A b \in Unindexed : b = base
    <3> SUFFICES ASSUME NEW b \in Unindexed PROVE b = base
      OBVIOUS
    <3>1. b \in DOMAIN segs /\ base <= b
      BY <1>2 DEF LogInv, DiskInv, OneOpen, Unindexed
    <3> QED BY <1>2, <1>4, <3>1
  <2> QED BY <1>1, <1>2, <1>3, <2>1 DEF Indexed, Unindexed
<1>6. DiskTypes'
  <2>1. idx' \in [DOMAIN idx' -> Nat \ {0}]
    BY <1>1, <1>2, <1>4 DEF Assign, DiskTypes
  <2> QED BY <1>1, <1>2, <1>3, <1>4, <2>1 DEF DiskTypes
<1>7. IndexFits'
  <2> SUFFICES ASSUME NEW b \in Indexed'
               PROVE  idx'[b] <= segs[b].synced /\ Good(segs[b].slots, b, idx'[b])
    BY <1>1 DEF IndexFits
  <2>1. CASE b = base
    BY <1>2, <1>3, <2>1 DEF file
  <2>2. CASE b # base
    <3>1. b \in Indexed /\ idx'[b] = idx[b]
      BY <1>3, <1>5, <2>2 DEF Indexed
    <3> QED BY <3>1 DEF LogInv, DiskInv, IndexFits
  <2> QED BY <2>1, <2>2
<1>8. NoOverlap'
  <2> SUFFICES ASSUME NEW b \in DOMAIN idx', NEW o \in DOMAIN segs, b < o
               PROVE  b + idx'[b] <= o
    BY <1>1 DEF NoOverlap
  <2>1. b # base
    BY <1>2, <1>4
  <2>2. b \in DOMAIN idx /\ idx'[b] = idx[b]
    BY <1>3, <2>1
  <2> QED BY <2>2 DEF LogInv, DiskInv, NoOverlap
<1>9. Linked'
  <2> SUFFICES ASSUME NEW b \in Indexed', NEW o \in DOMAIN segs, b < o
               PROVE  b + idx'[b] \in DOMAIN segs
    BY <1>1 DEF Linked
  <2>1. b # base
    BY <1>2, <1>4
  <2>2. b \in Indexed /\ idx'[b] = idx[b]
    BY <1>3, <1>5, <2>1 DEF Indexed
  <2> QED BY <2>2 DEF LogInv, DiskInv, Linked
<1>10. OneOpen' /\ LastSegment' /\ Remembered'
  <2>1. OneOpen' /\ Remembered'
    BY <1>1, <1>2, <1>5 DEF OneOpen, Remembered
  <2>2. LastSegment'
    <3>1. \E h \in DOMAIN segs : \A o \in DOMAIN segs \cup DOMAIN idx : o <= h
      BY <1>2 DEF LogInv, DiskInv, LastSegment
    <3> QED BY <1>1, <1>2, <1>3, <3>1 DEF LastSegment
  <2> QED BY <2>1, <2>2
<1>11. MemoryInv'
  <2>1. MemoryTypes'
    BY <1>1 DEF LogInv, MemoryInv, MemoryTypes
  <2>2. Ahead'
    BY <1>1, <1>2, <1>3 DEF LogInv, MemoryInv, Ahead
  <2>3. ActiveFits'
    <3>1. file' = file
      BY <1>1 DEF file
    <3> QED BY <1>1, <1>2, <1>3, <3>1 DEF ActiveFits
  <2>4. NoneActive'
    BY <1>1 DEF NoneActive
  <2>5. ClosedFits'
    <3>1. \A i \in DOMAIN closed : closed[i].base \in Indexed' /\ idx'[closed[i].base] = idx[closed[i].base]
      BY <1>1, <1>3, <1>5 DEF LogInv, MemoryInv, ClosedFits, isActive, Indexed
    <3>2. isActive(base) /\ \A b : isActive(b)' <=> isActive(b)
      BY <1>1 DEF isActive
    <3> QED BY <1>1, <1>5, <3>1, <3>2 DEF LogInv, MemoryInv, ClosedFits
  <2> QED BY <2>1, <2>2, <2>3, <2>4, <2>5 DEF MemoryInv
<1>12. CallInv' /\ HistoryTypes'
  <2>1. call' \in CallRecord /\ call'.pc = "close" /\ call'.id = call.id /\ call'.size = call.size
    BY <1>1, Moved DEF PCs
  <2>2. call.id \in Batches /\ call.size # 0 /\ calls \in 0..MaxAppends /\ calls' = calls /\ HistoryTypes'
    BY <1>1, HistoryKept DEF LogInv, CallInv, CallTypes
  <2>3. CallTypes'
    BY <1>1, <2>1, <2>2 DEF CallTypes, CallRecord, AfterRoll
  <2>4. BatchWritten' /\ RollReady'
    BY <1>1, <1>2, <1>3, <2>1 DEF BatchWritten, RollReady, Writing
  <2> QED BY <2>2, <2>3, <2>4 DEF CallInv
<1> QED BY <1>6, <1>7, <1>8, <1>9, <1>10, <1>11, <1>12 DEF LogInv, DiskInv

\* The active segment becomes the last of the closed ones.
LEMMA CloseStep ==
    ASSUME LogInv, CloseSegment
    PROVE  LogInv'
<1> DEFINE base == active.base
           new == Closed(base, active.n)
<1>1. /\ up /\ call.pc = "close" /\ active # None
      /\ segs' = segs /\ idx' = idx /\ watermark' = watermark /\ up' = up
      /\ closed' = Append(closed, new) /\ active' = None
      /\ next_offset' = next_offset /\ poisoned' = poisoned
      /\ Goto("watermark") /\ UNCHANGED <<history, faults>>
  BY DEF CloseSegment, At, LogInv, CallInv, CallTypes, Rolling, disk
<1>2. /\ base \in Nat /\ active.n \in Nat /\ active.n # 0 /\ base \in DOMAIN segs
      /\ base + active.n = next_offset /\ base \in DOMAIN idx /\ idx[base] = active.n
      /\ \A o \in DOMAIN segs : o <= base
      /\ next_offset \in Nat /\ closed \in Seq(ClosedSegment)
  BY <1>1, ActiveFacts
  DEF LogInv, CallInv, RollReady, Rolling, MemoryInv, MemoryTypes, ActiveFits
<1>3. Indexed' = Indexed /\ Unindexed' = Unindexed /\ base \in Indexed
  BY <1>1, <1>2 DEF Indexed, Unindexed
<1>4. DiskInv'
  <2>1. DiskTypes' /\ IndexFits' /\ NoOverlap' /\ Linked'
    BY <1>1, <1>3 DEF LogInv, DiskInv, DiskTypes, IndexFits, NoOverlap, Linked
  <2>2. OneOpen' /\ LastSegment' /\ Remembered'
    BY <1>1, <1>3 DEF LogInv, DiskInv, OneOpen, LastSegment, Remembered
  <2> QED BY <2>1, <2>2 DEF DiskInv
<1>5. new \in ClosedSegment /\ new.base = base /\ new.last = base + active.n - 1
  BY <1>2 DEF Closed, ClosedSegment
<1>6. MemoryTypes' /\ Ahead' /\ ActiveFits'
  <2>1. closed' \in Seq(ClosedSegment)
    BY <1>1, <1>2, <1>5, AppendProperties
  <2> QED BY <1>1, <2>1 DEF LogInv, MemoryInv, MemoryTypes, Ahead, ActiveFits
<1>7. NoneActive'
  <2>1. Unindexed = {}
    <3> SUFFICES ASSUME NEW b \in Unindexed PROVE FALSE
      OBVIOUS
    <3>1. b \in DOMAIN segs /\ b \notin DOMAIN idx /\ base <= b /\ b <= base /\ b \in Nat
      BY <1>2 DEF LogInv, DiskInv, DiskTypes, OneOpen, Unindexed
    <3>2. b = base
      BY <1>2, <3>1
    <3> QED BY <1>2, <3>1, <3>2
  <2>2. ASSUME NEW b \in Indexed PROVE b + idx[b] \in DOMAIN segs \cup {next_offset}
    <3>1. CASE b = base
      BY <1>2, <3>1
    <3>2. CASE b # base
      <4>1. b \in DOMAIN segs /\ b \in Nat /\ b <= base
        BY <1>2 DEF Indexed, LogInv, DiskInv, DiskTypes
      <4>2. b < base
        BY <1>2, <3>2, <4>1
      <4> QED BY <1>2, <4>2 DEF LogInv, DiskInv, Linked
    <3> QED BY <3>1, <3>2
  <2> QED BY <1>1, <1>3, <2>1, <2>2 DEF NoneActive
<1>8. ClosedFits'
  <2> DEFINE n == Len(closed)
  <2>1. /\ n \in Nat /\ DOMAIN closed = 1..n /\ DOMAIN closed' = 1..(n + 1)
        /\ closed'[n + 1] = new /\ \A i \in 1..n : closed'[i] = closed[i]
    BY <1>1, <1>2, <1>5, AppendProperties, LenProperties
  <2>2. ClosedFits /\ ~(active' # None)
    BY <1>1 DEF LogInv, MemoryInv
  <2>3. \A i \in 1..n : /\ closed[i].base \in Indexed /\ closed[i].base # base
                        /\ closed[i].last = closed[i].base + idx[closed[i].base] - 1
    BY <1>1, <2>1, <2>2 DEF ClosedFits, isActive
  <2>4. \A i \in 1..n : closed[i].base < base
    <3> SUFFICES ASSUME NEW i \in 1..n PROVE closed[i].base < base
      OBVIOUS
    <3>1. closed[i].base \in DOMAIN segs /\ closed[i].base # base
      BY <2>3 DEF Indexed
    <3>2. closed[i].base \in Nat /\ closed[i].base <= base
      BY <1>2, <3>1 DEF LogInv, DiskInv, DiskTypes
    <3> QED BY <1>2, <3>1, <3>2
  <2>5. \A i \in 1..(n + 1) : i \in 1..n \/ i = n + 1
    BY <2>1
  <2>6. \A i \in DOMAIN closed' :
          /\ closed'[i].base \in Indexed'
          /\ closed'[i].last = closed'[i].base + idx'[closed'[i].base] - 1
    BY <1>1, <1>2, <1>3, <1>5, <2>1, <2>3, <2>5
  <2>7. \A i, j \in DOMAIN closed' : i < j => closed'[i].base < closed'[j].base
    <3> SUFFICES ASSUME NEW i \in 1..(n + 1), NEW j \in 1..(n + 1), i < j
                 PROVE  closed'[i].base < closed'[j].base
      BY <2>1
    <3>1. i \in 1..n
      BY <2>1
    <3>2. CASE j \in 1..n
      BY <2>1, <2>2, <3>1, <3>2 DEF ClosedFits
    <3>3. CASE j = n + 1
      BY <1>5, <2>1, <2>4, <3>1, <3>3
    <3> QED BY <2>5, <3>2, <3>3
  <2>8. \A b \in Indexed' : \E i \in DOMAIN closed' : closed'[i].base = b
    <3> SUFFICES ASSUME NEW b \in Indexed PROVE \E i \in 1..(n + 1) : closed'[i].base = b
      BY <1>3, <2>1
    <3>1. CASE b = base
      <4>1. n + 1 \in 1..(n + 1)
        BY <2>1
      <4> QED BY <1>5, <2>1, <3>1, <4>1
    <3>2. CASE b # base
      <4>1. PICK i \in 1..n : closed[i].base = b
        BY <2>1, <2>2, <3>2 DEF ClosedFits, isActive
      <4>2. i \in 1..(n + 1)
        BY <2>1
      <4> QED BY <2>1, <4>1, <4>2
    <3> QED BY <3>1, <3>2
  <2> QED BY <2>2, <2>6, <2>7, <2>8 DEF ClosedFits, isActive
<1>9. CallInv' /\ HistoryTypes'
  <2>1. call' \in CallRecord /\ call'.pc = "watermark" /\ call'.id = call.id /\ call'.size = call.size
    BY <1>1, Moved DEF PCs
  <2>2. call.id \in Batches /\ call.size # 0 /\ calls \in 0..MaxAppends /\ calls' = calls /\ HistoryTypes'
    BY <1>1, HistoryKept DEF LogInv, CallInv, CallTypes
  <2>3. CallTypes'
    BY <1>1, <2>1, <2>2 DEF CallTypes, CallRecord, Writing, Rolling
  <2>4. BatchWritten' /\ RollReady'
    BY <2>1 DEF BatchWritten, RollReady, Writing, Rolling
  <2> QED BY <2>2, <2>3, <2>4 DEF CallInv
<1> QED BY <1>4, <1>6, <1>7, <1>8, <1>9 DEF LogInv, MemoryInv

\* The watermark is written.
LEMMA WatermarkStep ==
    ASSUME LogInv, write_watermark
    PROVE  LogInv'
<1>1. /\ up /\ call.pc = "watermark" /\ active = None
      /\ segs' = segs /\ idx' = idx /\ watermark' = next_offset /\ up' = up
      /\ closed' = closed /\ active' = active /\ next_offset' = next_offset /\ poisoned' = poisoned
      /\ Goto("retention") /\ UNCHANGED <<history, faults>> /\ next_offset \in Nat
  BY DEF write_watermark, At, LogInv, CallInv, CallTypes, AfterRoll, memory, MemoryInv, MemoryTypes
<1>2. Indexed' = Indexed /\ Unindexed' = Unindexed
  BY <1>1 DEF Indexed, Unindexed
<1>3. DiskInv'
  <2>1. DiskTypes' /\ IndexFits' /\ NoOverlap' /\ Linked'
    BY <1>1, <1>2 DEF LogInv, DiskInv, DiskTypes, IndexFits, NoOverlap, Linked
  <2>2. OneOpen' /\ LastSegment'
    BY <1>1, <1>2 DEF LogInv, DiskInv, OneOpen, LastSegment
  <2>3. Remembered'
    BY <1>1 DEF LogInv, MemoryInv, Ahead, Remembered
  <2> QED BY <2>1, <2>2, <2>3 DEF DiskInv
<1>4. MemoryInv'
  BY <1>1, <1>2
  DEF LogInv, MemoryInv, MemoryTypes, Ahead, ActiveFits, NoneActive, ClosedFits, isActive, file
<1>5. CallInv' /\ HistoryTypes'
  <2>1. call' \in CallRecord /\ call'.pc = "retention" /\ call'.id = call.id /\ call'.size = call.size
    BY <1>1, Moved DEF PCs
  <2>2. call.id \in Batches /\ call.size # 0 /\ calls \in 0..MaxAppends /\ calls' = calls /\ HistoryTypes'
    BY <1>1, HistoryKept DEF LogInv, CallInv, CallTypes
  <2>3. CallTypes'
    BY <1>1, <2>1, <2>2 DEF CallTypes, CallRecord, Writing, Rolling
  <2>4. BatchWritten' /\ RollReady'
    BY <1>1, <2>1 DEF BatchWritten, RollReady, Writing, Rolling
  <2> QED BY <2>2, <2>3, <2>4 DEF CallInv
<1> QED BY <1>3, <1>4, <1>5 DEF LogInv

\* The oldest closed segment is the first of all, and what follows it in
\* `closed` is every other indexed one.
LEMMA FrontFacts ==
    ASSUME LogInv, up, active = None, closed # <<>>
    PROVE  /\ closed \in Seq(ClosedSegment) /\ Head(closed) \in ClosedSegment
           /\ Head(closed).base \in Indexed
           /\ Head(closed).last = Head(closed).base + idx[Head(closed).base] - 1
           /\ \A b \in Indexed : b = Head(closed).base \/ Head(closed).base < b
           /\ Tail(closed) \in Seq(ClosedSegment)
           /\ \A i \in DOMAIN Tail(closed) : i + 1 \in DOMAIN closed /\ Tail(closed)[i] = closed[i + 1]
           /\ \A b \in Indexed : b # Head(closed).base => \E i \in DOMAIN Tail(closed) : Tail(closed)[i].base = b
<1> DEFINE n == Len(closed)
<1>1. closed \in Seq(ClosedSegment) /\ ClosedFits
  BY DEF LogInv, MemoryInv, MemoryTypes
<1>2. /\ n \in Nat /\ n # 0 /\ DOMAIN closed = 1..n /\ Head(closed) = closed[1] /\ 1 \in 1..n
      /\ Head(closed) \in ClosedSegment
      /\ Tail(closed) \in Seq(ClosedSegment) /\ DOMAIN Tail(closed) = 1..(n - 1)
      /\ \A i \in 1..(n - 1) : Tail(closed)[i] = closed[i + 1]
  <2>1. n \in Nat \ {0} /\ DOMAIN closed = 1..n
    BY <1>1, EmptySeq, LenProperties
  <2>2. /\ Head(closed) \in ClosedSegment /\ Tail(closed) \in Seq(ClosedSegment)
        /\ Len(Tail(closed)) = n - 1 /\ \A i \in 1..(n - 1) : Tail(closed)[i] = closed[i + 1]
    BY <1>1, HeadTailProperties
  <2>3. DOMAIN Tail(closed) = 1..(n - 1)
    BY <2>2, LenProperties
  <2>4. Head(closed) = closed[1]
    BY <1>1, <2>1
  <2> QED BY <2>1, <2>2, <2>3, <2>4
<1>3. /\ closed[1].base \in Indexed /\ closed[1].last = closed[1].base + idx[closed[1].base] - 1
  BY <1>1, <1>2 DEF ClosedFits
<1>4. ASSUME NEW b \in Indexed
      PROVE  /\ b = closed[1].base \/ closed[1].base < b
             /\ b # closed[1].base => \E i \in 1..(n - 1) : Tail(closed)[i].base = b
  <2>1. PICK i \in 1..n : closed[i].base = b
    BY <1>1, <1>2 DEF ClosedFits, isActive
  <2>2. CASE i = 1
    BY <2>1, <2>2
  <2>3. CASE i # 1
    <3>1. 1 < i /\ i - 1 \in 1..(n - 1) /\ (i - 1) + 1 = i
      BY <1>2, <2>3
    <3>2. closed[1].base < closed[i].base
      BY <1>1, <1>2, <3>1 DEF ClosedFits
    <3>3. Tail(closed)[i - 1] = closed[i]
      BY <1>2, <3>1
    <3> QED BY <2>1, <3>1, <3>2, <3>3
  <2> QED BY <2>2, <2>3
<1>5. \A i \in 1..(n - 1) : i + 1 \in 1..n
  BY <1>2
<1> QED BY <1>1, <1>2, <1>3, <1>4, <1>5

\* Retention deletes the first closed segment, perhaps not its index.
LEMMA DeleteStep ==
    ASSUME LogInv, delete_segment
    PROVE  LogInv'
<1> DEFINE b0 == Head(closed).base
           cut == Records(b0, Head(closed).last - b0 + 1)
<1>1. /\ up /\ call.pc = "retention" /\ active = None /\ closed # <<>>
      /\ segs' = Without(segs, b0) /\ (idx' = idx \/ idx' = Without(idx, b0))
      /\ evicted' = evicted \o cut /\ closed' = Tail(closed)
      /\ watermark' = watermark /\ up' = up /\ active' = active /\ next_offset' = next_offset
      /\ poisoned' = poisoned /\ call' = call /\ calls' = calls /\ result' = result /\ faults' = faults
      /\ watermark = next_offset /\ next_offset \in Nat
  BY DEF delete_segment, At, LogInv, CallInv, CallTypes, AfterRoll, RollReady, MemoryInv, MemoryTypes
<1>2. /\ b0 \in Indexed /\ Head(closed).last = b0 + idx[b0] - 1
      /\ \A b \in Indexed : b = b0 \/ b0 < b
      /\ Tail(closed) \in Seq(ClosedSegment)
      /\ \A i \in DOMAIN Tail(closed) : i + 1 \in DOMAIN closed /\ Tail(closed)[i] = closed[i + 1]
      /\ \A b \in Indexed : b # b0 => \E i \in DOMAIN Tail(closed) : Tail(closed)[i].base = b
  BY <1>1, FrontFacts
<1>3. /\ DiskTypes /\ b0 \in DOMAIN segs /\ b0 \in DOMAIN idx /\ b0 \in Nat /\ idx[b0] \in Nat \ {0}
      /\ DOMAIN segs \subseteq Nat /\ DOMAIN idx \subseteq Nat
      /\ Good(segs[b0].slots, b0, idx[b0]) /\ segs[b0].slots \in Seq(Slot)
      /\ \A b \in DOMAIN idx : idx[b] \in Nat \ {0}
  BY <1>2 DEF LogInv, DiskInv, DiskTypes, IndexFits, Indexed, File
<1>4. /\ DOMAIN segs' = DOMAIN segs \ {b0} /\ \A b \in DOMAIN segs' : segs'[b] = segs[b]
      /\ DOMAIN idx' \subseteq DOMAIN idx /\ DOMAIN idx \ {b0} \subseteq DOMAIN idx'
      /\ \A b \in DOMAIN idx' : idx'[b] = idx[b]
  BY <1>1 DEF Without
<1>5. Indexed' = Indexed \ {b0} /\ Unindexed' = Unindexed
  BY <1>3, <1>4 DEF Indexed, Unindexed
<1>6. DiskTypes'
  <2>1. IsFiniteSet(DOMAIN segs')
    BY <1>3, <1>4, FS_RemoveElement DEF DiskTypes
  <2>2. segs' \in [DOMAIN segs' -> File]
    BY <1>1, <1>3 DEF Without, DiskTypes
  <2>3. idx' \in [DOMAIN idx' -> Nat \ {0}]
    BY <1>1, <1>3 DEF Without, DiskTypes
  <2>4. \A b \in DOMAIN segs' : segs'[b].synced <= Len(segs'[b].slots)
    BY <1>3, <1>4 DEF DiskTypes
  <2> QED BY <1>1, <1>3, <1>4, <2>1, <2>2, <2>3, <2>4 DEF DiskTypes
<1>7. IndexFits' /\ NoOverlap' /\ OneOpen'
  <2>1. \A b \in Indexed' : b \in Indexed /\ b \in DOMAIN idx' /\ b \in DOMAIN segs'
    BY <1>5 DEF Indexed
  <2>2. IndexFits'
    BY <1>4, <2>1 DEF LogInv, DiskInv, IndexFits
  <2>3. NoOverlap'
    BY <1>4 DEF LogInv, DiskInv, NoOverlap
  <2>4. OneOpen'
    BY <1>4, <1>5 DEF LogInv, DiskInv, OneOpen
  <2> QED BY <2>2, <2>3, <2>4
<1>8. Linked'
  <2> SUFFICES ASSUME NEW b \in Indexed', NEW o \in DOMAIN segs', b < o
               PROVE  b + idx'[b] \in DOMAIN segs'
    BY DEF Linked
  <2>1. /\ b \in Indexed /\ b \in DOMAIN idx' /\ b # b0 /\ o \in DOMAIN segs
        /\ idx'[b] = idx[b] /\ b \in Nat /\ idx[b] \in Nat
    BY <1>3, <1>4, <1>5 DEF Indexed
  <2>2. b + idx[b] \in DOMAIN segs
    BY <2>1 DEF LogInv, DiskInv, Linked
  <2>3. b0 < b /\ b0 # b + idx[b]
    BY <1>2, <1>3, <2>1
  <2> QED BY <1>4, <2>1, <2>2, <2>3
<1>9. LastSegment'
  <2> SUFFICES ASSUME NEW x \in DOMAIN segs'
               PROVE  \E h \in DOMAIN segs' : \A o \in DOMAIN segs' \cup DOMAIN idx' : o <= h
    BY DEF LastSegment
  <2>1. PICK h \in DOMAIN segs : \A o \in DOMAIN segs \cup DOMAIN idx : o <= h
    BY <1>3 DEF LogInv, DiskInv, LastSegment
  <2>2. h # b0
    <3> SUFFICES ASSUME h = b0 PROVE FALSE
      OBVIOUS
    <3>1. x \in DOMAIN segs /\ x # b0 /\ x <= b0 /\ x \in Nat
      BY <1>3, <1>4, <2>1
    <3>2. CASE x \in Indexed
      BY <1>2, <1>3, <3>1, <3>2
    <3>3. CASE x \in Unindexed
      <4>1. x = next_offset
        BY <1>1, <3>3 DEF LogInv, MemoryInv, NoneActive
      <4>2. b0 + idx[b0] <= next_offset
        BY <1>1, <1>3 DEF LogInv, MemoryInv, Ahead
      <4> QED BY <1>1, <1>3, <3>1, <4>1, <4>2
    <3> QED BY <3>1, <3>2, <3>3 DEF Indexed, Unindexed
  <2> QED BY <1>4, <2>1, <2>2
<1>10. Remembered' /\ Ahead'
  <2>1. \A b \in DOMAIN idx' : b + idx'[b] <= next_offset
    BY <1>1, <1>4 DEF LogInv, MemoryInv, Ahead
  <2> QED BY <1>1, <2>1 DEF Remembered, Ahead
<1>11. MemoryTypes' /\ ActiveFits' /\ NoneActive'
  <2>1. MemoryTypes'
    BY <1>1, <1>2 DEF LogInv, MemoryInv, MemoryTypes
  <2>2. ActiveFits'
    BY <1>1 DEF ActiveFits
  <2>3. ASSUME NEW b \in Indexed' PROVE b + idx'[b] \in DOMAIN segs' \cup {next_offset}
    <3>1. /\ b \in Indexed /\ b \in DOMAIN idx' /\ b # b0
          /\ idx'[b] = idx[b] /\ b \in Nat /\ idx[b] \in Nat
      BY <1>3, <1>4, <1>5 DEF Indexed
    <3>2. b + idx[b] \in DOMAIN segs \cup {next_offset}
      BY <1>1, <3>1 DEF LogInv, MemoryInv, NoneActive
    <3>3. b0 < b /\ b0 # b + idx[b]
      BY <1>2, <1>3, <3>1
    <3> QED BY <1>4, <3>1, <3>2, <3>3
  <2>4. NoneActive'
    BY <1>1, <1>5, <2>3 DEF LogInv, MemoryInv, NoneActive
  <2> QED BY <2>1, <2>2, <2>4
<1>12. ClosedFits'
  <2>1. ClosedFits /\ closed \in Seq(ClosedSegment)
    BY <1>1 DEF LogInv, MemoryInv, MemoryTypes
  <2>2. DOMAIN closed = 1..Len(closed) /\ Len(closed) \in Nat /\ DOMAIN Tail(closed) \subseteq Nat \ {0}
    BY <1>2, <2>1, LenProperties
  <2>3. Head(closed) = closed[1] /\ 1 \in DOMAIN closed
    BY <1>1, <2>1, <2>2, EmptySeq
  <2>4. ASSUME NEW i \in DOMAIN closed'
        PROVE  /\ closed'[i].base \in Indexed'
               /\ closed'[i].last = closed'[i].base + idx'[closed'[i].base] - 1
    <3>1. i + 1 \in DOMAIN closed /\ closed'[i] = closed[i + 1] /\ i \in Nat \ {0} /\ 1 < i + 1
      BY <1>1, <1>2, <2>2
    <3>2. b0 < closed[i + 1].base
      BY <2>1, <2>3, <3>1 DEF ClosedFits
    <3>3. closed[i + 1].base \in Indexed /\ closed[i + 1].last = closed[i + 1].base + idx[closed[i + 1].base] - 1
      BY <2>1, <3>1 DEF ClosedFits
    <3>4. closed[i + 1].base \in DOMAIN idx' /\ closed[i + 1].base # b0
      BY <1>3, <1>4, <3>2, <3>3 DEF Indexed
    <3> QED BY <1>4, <1>5, <3>1, <3>3, <3>4
  <2>5. \A i, j \in DOMAIN closed' : i < j => closed'[i].base < closed'[j].base
    <3> SUFFICES ASSUME NEW i \in DOMAIN closed', NEW j \in DOMAIN closed', i < j
                 PROVE  closed'[i].base < closed'[j].base
      OBVIOUS
    <3>1. /\ i + 1 \in DOMAIN closed /\ closed'[i] = closed[i + 1]
          /\ j + 1 \in DOMAIN closed /\ closed'[j] = closed[j + 1] /\ i + 1 < j + 1
      BY <1>1, <1>2, <2>2
    <3> QED BY <2>1, <3>1 DEF ClosedFits
  <2>6. \A b \in Indexed' : \E i \in DOMAIN closed' : closed'[i].base = b
    BY <1>1, <1>2, <1>5
  <2> QED BY <1>1, <2>4, <2>5, <2>6 DEF ClosedFits, isActive
<1>13. CallInv'
  <2>1. CallTypes' /\ RollReady'
    BY <1>1 DEF LogInv, CallInv, CallTypes, RollReady, AfterRoll, Writing, Rolling
  <2>2. BatchWritten'
    BY <1>1 DEF BatchWritten, Writing
  <2> QED BY <2>1, <2>2 DEF CallInv
<1>14. HistoryTypes'
  <2>1. cut = SubSeq(segs[b0].slots, 1, idx[b0])
    <3>1. Head(closed).last - b0 + 1 = idx[b0]
      BY <1>2, <1>3
    <3> QED BY <3>1 DEF Records
  <2>2. cut \in Seq(Record)
    <3>1. \A i \in 1..idx[b0] : segs[b0].slots[i] \in Record
      BY <1>3 DEF Good
    <3>2. idx[b0] \in Int /\ 1 \in Int
      BY <1>3
    <3>3. SubSeq(segs[b0].slots, 1, idx[b0]) \in Seq(Record)
      BY <3>1, <3>2, SubSeqProperties
    <3> QED BY <2>1, <3>3
  <2>3. evicted' \in Seq(Record)
    <3> HIDE DEF cut
    <3> QED BY <1>1, <2>2, ConcatProperties DEF LogInv, HistoryTypes
  <2> QED BY <1>1, <2>3 DEF LogInv, HistoryTypes
<1> QED BY <1>1, <1>6, <1>7, <1>8, <1>9, <1>10, <1>11, <1>12, <1>13, <1>14
        DEF LogInv, DiskInv, MemoryInv

-----------------------------------------------------------------------------
\* Dying and opening again.

(***************************************************************************)
(* What an append that went around left-overs leaves in the variables.     *)
(***************************************************************************)
TailInv ==
    /\ debris \in BOOLEAN /\ strayed \in BOOLEAN
    /\ astray # None =>
         /\ up /\ active # None /\ strayed
         /\ astray \in [at : Nat, junk : Seq(Slot)] /\ astray.at <= active.n

\* A scan of the directory finds the same files, the indexed ones unchanged.
LEMMA ScannedFits ==
    ASSUME LogInv, TailInv, up
    PROVE  /\ DOMAIN scanned = DOMAIN segs /\ scanned \in [DOMAIN segs -> File]
           /\ \A b \in DOMAIN segs : scanned[b].synced <= Len(scanned[b].slots)
           /\ \A b \in Indexed : scanned[b] = segs[b]
<1>1. /\ segs \in [DOMAIN segs -> File] /\ \A b \in DOMAIN segs : segs[b].synced <= Len(segs[b].slots)
      /\ \A b \in Indexed : b \in DOMAIN segs /\ b \in DOMAIN idx
  BY DEF LogInv, DiskInv, DiskTypes, Indexed
<1>2. CASE astray = None \/ active.base \in DOMAIN idx
  BY <1>1, <1>2 DEF scanned
<1>3. CASE astray # None /\ active.base \notin DOMAIN idx
  <2> DEFINE found == SubSeq(file.slots, 1, astray.at) \o astray.junk
             f == [slots |-> found, synced |-> Len(found)]
  <2>1. /\ active # None /\ astray.at \in Nat /\ astray.junk \in Seq(Slot) /\ astray.at <= active.n
    BY <1>3 DEF TailInv
  <2>2. file.slots \in Seq(Slot) /\ active.base \in DOMAIN segs /\ astray.at \in 0..Len(file.slots)
    BY <2>1, ActiveFacts
  <2>3. SubSeq(file.slots, 1, astray.at) \in Seq(Slot)
    BY <2>2, CutGood
  <2>4. found \in Seq(Slot)
    BY <2>1, <2>3, ConcatSlots
  <2>5. scanned = [segs EXCEPT ![active.base] = f]
    BY <1>3 DEF scanned
  <2> HIDE DEF found
  <2>6. Len(found) \in Nat
    BY <2>4, LenProperties
  <2>7. f \in File /\ f.synced <= Len(f.slots)
    BY <2>4, <2>6 DEF File
  <2> HIDE DEF f
  <2>8. DOMAIN scanned = DOMAIN segs /\ scanned \in [DOMAIN segs -> File]
    BY <1>1, <2>2, <2>5, <2>7
  <2>9. \A b \in DOMAIN segs : scanned[b] = IF b = active.base THEN f ELSE segs[b]
    BY <1>1, <2>2, <2>5
  <2> QED BY <1>1, <1>3, <2>7, <2>8, <2>9
<1> QED BY <1>2, <1>3

\* The process dies; of each file at least the synced part stays.
LEMMA CrashStep ==
    ASSUME LogInv, TailInv, Crash
    PROVE  LogInv'
<1>1. /\ up' = FALSE /\ idx' = idx /\ watermark' = watermark /\ calls' = calls /\ evicted' = evicted
      /\ closed' = <<>> /\ active' = None /\ next_offset' = 0 /\ poisoned' = FALSE /\ Fault
  BY DEF Crash
<1>2. MemoryInv'
  <2>1. <<>> \in Seq(ClosedSegment)
    BY EmptySeq
  <2>2. ~up' /\ closed' \in Seq(ClosedSegment) /\ up' \in BOOLEAN
    BY <1>1, <2>1
  <2> QED BY <1>1, <2>2 DEF MemoryInv, MemoryTypes
<1>3. CallInv' /\ HistoryTypes'
  <2>1. CASE call.pc = "idle"
    <3>1. call' = call /\ result' = result
      BY <2>1 DEF Crash
    <3>2. CallInv'
      BY <1>1, <2>1, <3>1
      DEF LogInv, CallInv, CallTypes, BatchWritten, RollReady, Writing, Rolling, AfterRoll
    <3> QED BY <1>1, <3>1, <3>2 DEF LogInv, HistoryTypes, Fault
  <2>2. CASE call.pc # "idle"
    <3>1. Return("Lost")
      BY <2>2 DEF Crash
    <3> QED BY <1>1, <3>1, CallDone, Answered DEF LogInv, CallInv, CallTypes, Return, Results
  <2> QED BY <2>1, <2>2
<1> DEFINE sc == scanned
<1>a. /\ DOMAIN sc = DOMAIN segs /\ sc \in [DOMAIN segs -> File]
      /\ \A b \in DOMAIN segs : sc[b].synced <= Len(sc[b].slots)
      /\ \A b \in Indexed : sc[b] = segs[b]
      /\ \A b \in Indexed : b \in DOMAIN segs
  BY ScannedFits DEF Crash, Indexed
<1>b. \/ segs' = sc
      \/ \E b \in DOMAIN sc : \E n \in sc[b].synced..(Len(sc[b].slots) - 1) :
            segs' = [sc EXCEPT ![b].slots = SubSeq(@, 1, n)]
  BY DEF Crash
<1> HIDE DEF sc
<1>4. CASE segs' = sc
  <2>1. DOMAIN segs' = DOMAIN segs /\ Indexed' = Indexed /\ Unindexed' = Unindexed
    BY <1>1, <1>4, <1>a DEF Indexed, Unindexed
  <2>2. DiskTypes' /\ IndexFits' /\ NoOverlap' /\ Linked'
    BY <1>1, <1>4, <1>a, <2>1 DEF LogInv, DiskInv, DiskTypes, IndexFits, NoOverlap, Linked
  <2>3. OneOpen' /\ LastSegment' /\ Remembered'
    BY <1>1, <2>1 DEF LogInv, DiskInv, OneOpen, LastSegment, Remembered
  <2> QED BY <1>2, <1>3, <2>2, <2>3 DEF LogInv, DiskInv
<1>5. ASSUME NEW b \in DOMAIN sc, NEW n \in sc[b].synced..(Len(sc[b].slots) - 1),
             segs' = [sc EXCEPT ![b].slots = SubSeq(@, 1, n)]
      PROVE  LogInv'
  <2> DEFINE s == SubSeq(sc[b].slots, 1, n)
             f == [slots |-> s, synced |-> sc[b].synced]
  <2>1. /\ DiskTypes /\ sc[b] \in File /\ sc[b].slots \in Seq(Slot) /\ Len(sc[b].slots) \in Nat
        /\ sc[b].synced \in Nat /\ b \in Nat
    BY <1>a, LenProperties DEF LogInv, DiskInv, DiskTypes, File
  <2>2. n \in 0..Len(sc[b].slots) /\ sc[b].synced <= n /\ n \in Nat
    BY <1>5, <2>1
  <2>3. s \in Seq(Slot) /\ Len(s) = n
    BY <2>1, <2>2, CutGood
  <2>4. segs' = [sc EXCEPT ![b] = f]
    <3>1. \A g \in File, x \in Seq(Slot) : [g EXCEPT !.slots = x] = [slots |-> x, synced |-> g.synced]
      BY DEF File
    <3>2. [sc[b] EXCEPT !.slots = s] = f
      <4> HIDE DEF s
      <4> QED BY <2>1, <2>3, <3>1
    <3>3. segs' = [sc EXCEPT ![b] = [sc[b] EXCEPT !.slots = s]]
      BY <1>5
    <3> QED BY <3>2, <3>3
  <2>5. f \in File /\ f.slots = s /\ f.synced = sc[b].synced
    <3> HIDE DEF s
    <3> QED BY <2>1, <2>3 DEF File
  <2> HIDE DEF f, s
  <2>6. /\ DOMAIN segs' = DOMAIN segs /\ segs'[b] = f
        /\ \A o \in DOMAIN segs : o # b => segs'[o] = sc[o]
    BY <1>a, <2>4
  <2>7. Indexed' = Indexed /\ Unindexed' = Unindexed
    BY <1>1, <2>6 DEF Indexed, Unindexed
  <2>8. DiskTypes'
    <3>1. segs' \in [DOMAIN segs' -> File]
      BY <1>a, <2>4, <2>5
    <3>2. \A o \in DOMAIN segs' : segs'[o].synced <= Len(segs'[o].slots)
      BY <1>a, <2>1, <2>2, <2>3, <2>5, <2>6
    <3> QED BY <1>1, <2>1, <2>6, <3>1, <3>2 DEF DiskTypes
  <2>9. IndexFits'
    <3> SUFFICES ASSUME NEW o \in Indexed
                 PROVE  idx[o] <= segs'[o].synced /\ Good(segs'[o].slots, o, idx[o])
      BY <1>1, <2>7 DEF IndexFits
    <3>1. /\ o \in DOMAIN segs /\ idx[o] \in Nat
          /\ idx[o] <= sc[o].synced /\ Good(sc[o].slots, o, idx[o])
      BY <1>a, <2>1 DEF LogInv, DiskInv, DiskTypes, IndexFits, Indexed
    <3>2. CASE o # b
      BY <2>6, <3>1, <3>2
    <3>3. CASE o = b
      <4>1. idx[b] \in 0..n
        BY <2>1, <2>2, <3>1, <3>3
      <4>2. Good(s, b, idx[b])
        BY <2>1, <2>2, <3>1, <3>3, <4>1, CutGood DEF s
      <4> QED BY <2>5, <2>6, <3>1, <3>3, <4>2
    <3> QED BY <3>2, <3>3
  <2>10. NoOverlap' /\ Linked' /\ OneOpen' /\ LastSegment' /\ Remembered'
    <3>1. NoOverlap' /\ Linked'
      BY <1>1, <2>6, <2>7 DEF LogInv, DiskInv, NoOverlap, Linked
    <3>2. OneOpen' /\ LastSegment' /\ Remembered'
      BY <1>1, <2>6, <2>7 DEF LogInv, DiskInv, OneOpen, LastSegment, Remembered
    <3> QED BY <3>1, <3>2
  <2> QED BY <1>2, <1>3, <2>8, <2>9, <2>10 DEF LogInv, DiskInv
<1> QED BY <1>4, <1>5, <1>b

\* What open() puts into the struct: `closed` lists the indexed segments, and
\* the next offset is beyond every index.
LEMMA RecoveredClosed ==
    ASSUME DiskInv
    PROVE  /\ recoveredClosed \in Seq(ClosedSegment)
           /\ \A i \in DOMAIN recoveredClosed :
                /\ recoveredClosed[i].base \in Indexed
                /\ recoveredClosed[i].last = recoveredClosed[i].base + idx[recoveredClosed[i].base] - 1
           /\ \A i, j \in DOMAIN recoveredClosed : i < j => recoveredClosed[i].base < recoveredClosed[j].base
           /\ \A b \in Indexed : \E i \in DOMAIN recoveredClosed : recoveredClosed[i].base = b
<1> DEFINE bases == ascending(Indexed)
           n == Cardinality(Indexed)
<1>1. /\ IsFiniteSet(Indexed) /\ Indexed \in SUBSET Nat
      /\ \A b \in Indexed : b \in Nat /\ idx[b] \in Nat /\ idx[b] # 0
  <2>1. IsFiniteSet(DOMAIN segs) /\ Indexed \in SUBSET DOMAIN segs
    BY DEF DiskInv, DiskTypes, Indexed
  <2>2. IsFiniteSet(Indexed)
    BY <2>1, FS_Subset
  <2> QED BY <2>2 DEF DiskInv, DiskTypes, Indexed
<1>2. n \in Nat
  BY <1>1, FS_CardinalityType
<1>3. /\ bases \in [1..n -> Indexed]
      /\ \A b \in Indexed : \E i \in 1..n : bases[i] = b
      /\ \A i, j \in 1..n : i < j => bases[i] < bases[j]
  BY <1>1, AscendingExists DEF IsAscending
<1>4. recoveredClosed = [i \in 1..n |-> Closed(bases[i], idx[bases[i]])]
  BY <1>3 DEF recoveredClosed
<1> HIDE DEF bases, n
<1>5. ASSUME NEW i \in 1..n
      PROVE  /\ recoveredClosed[i] \in ClosedSegment /\ recoveredClosed[i].base = bases[i]
             /\ recoveredClosed[i].last = bases[i] + idx[bases[i]] - 1
  <2>1. recoveredClosed[i] = [base |-> bases[i], last |-> bases[i] + idx[bases[i]] - 1]
    BY <1>4 DEF Closed
  <2>2. bases[i] \in Indexed
    BY <1>3
  <2>3. bases[i] \in Nat /\ bases[i] + idx[bases[i]] - 1 \in Nat
    <3>1. \A b \in Indexed : b \in Nat /\ b + idx[b] - 1 \in Nat
      BY <1>1
    <3> QED BY <2>2, <3>1
  <2> QED BY <2>1, <2>3 DEF ClosedSegment
<1>6. DOMAIN recoveredClosed = 1..n /\ recoveredClosed \in Seq(ClosedSegment)
  <2>1. recoveredClosed \in [1..n -> ClosedSegment]
    <3>1. \A i \in 1..n : Closed(bases[i], idx[bases[i]]) \in ClosedSegment
      BY <1>4, <1>5
    <3> QED BY <1>4, <3>1
  <2> QED BY <1>2, <2>1, SeqDef
<1> QED BY <1>3, <1>5, <1>6

\* open() rebuilds the struct from the directory.
LEMMA OpenStep ==
    ASSUME LogInv, Open
    PROVE  LogInv'
<1>1. /\ ~up /\ up' = TRUE /\ closed' = recoveredClosed /\ next_offset' = recoveredNext
      /\ poisoned' = FALSE /\ idx' = idx /\ watermark' = watermark /\ call' = call
      /\ calls' = calls /\ result' = result /\ evicted' = evicted /\ faults' = faults
      /\ DiskInv /\ DiskTypes
  BY DEF Open, history, LogInv, DiskInv
<1>2. /\ DOMAIN segs \subseteq Nat /\ DOMAIN idx \subseteq Nat
      /\ \A b \in DOMAIN idx : idx[b] \in Nat /\ idx[b] # 0
  BY <1>1 DEF DiskTypes
<1>3. call.pc = "idle"
  BY <1>1 DEF LogInv, CallInv, CallTypes
<1>4. CallInv' /\ HistoryTypes'
  BY <1>1, <1>3
  DEF LogInv, CallInv, CallTypes, BatchWritten, RollReady, Writing, Rolling, AfterRoll, HistoryTypes
\* No segment without an index: the last segment is closed, or all are gone.
<1>5. CASE Unindexed = {}
  <2>1. active' = None /\ segs' = segs
    BY <1>5 DEF Open
  <2>2. Indexed' = Indexed /\ Unindexed' = {} /\ Indexed = DOMAIN segs
    BY <1>1, <1>5, <2>1 DEF Indexed, Unindexed
  <2>3. DiskInv'
    <3>1. DiskTypes' /\ IndexFits' /\ NoOverlap' /\ Linked'
      BY <1>1, <2>1, <2>2 DEF DiskInv, DiskTypes, IndexFits, NoOverlap, Linked
    <3>2. OneOpen' /\ LastSegment' /\ Remembered'
      BY <1>1, <2>1, <2>2 DEF DiskInv, OneOpen, LastSegment, Remembered
    <3> QED BY <3>1, <3>2 DEF DiskInv
  <2>4. /\ recoveredNext \in Nat
        /\ \A b \in DOMAIN idx : b + idx[b] <= recoveredNext
        /\ \A b \in Indexed : b + idx[b] \in DOMAIN segs \cup {recoveredNext}
    <3>1. CASE DOMAIN segs = {}
      <4>1. recoveredNext = IF watermark # None THEN watermark ELSE 0
        BY <3>1 DEF recoveredNext
      <4>2. recoveredNext \in Nat
        BY <1>1, <4>1 DEF DiskTypes
      <4>3. \A b \in DOMAIN idx : b + idx[b] <= recoveredNext
        BY <1>1, <3>1, <4>1, LogAssumption DEF DiskInv, Remembered
      <4> QED BY <2>2, <3>1, <4>2, <4>3
    <3>2. CASE DOMAIN segs # {}
      <4>1. PICK h \in DOMAIN segs : \A o \in DOMAIN segs \cup DOMAIN idx : o <= h
        BY <1>1, <3>2 DEF DiskInv, LastSegment
      <4>2. Highest(DOMAIN segs) = h
        BY <1>2, <4>1, HighestIs
      <4>3. recoveredNext = h + idx[h] /\ h \in DOMAIN idx /\ h \in Nat /\ idx[h] \in Nat
        BY <1>2, <2>2, <3>2, <4>1, <4>2 DEF recoveredNext, recordsIn, Indexed
      <4>4. ASSUME NEW b \in DOMAIN idx PROVE b + idx[b] <= recoveredNext
        <5>1. CASE b = h
          BY <4>3, <5>1
        <5>2. CASE b # h
          <6>1. b \in Nat /\ idx[b] \in Nat /\ b < h
            BY <1>2, <4>1, <4>3, <5>2
          <6>2. b + idx[b] <= h
            BY <1>1, <4>1, <6>1 DEF DiskInv, NoOverlap
          <6> QED BY <4>3, <6>1, <6>2
        <5> QED BY <5>1, <5>2
      <4>5. ASSUME NEW b \in Indexed PROVE b + idx[b] \in DOMAIN segs \cup {recoveredNext}
        <5>1. CASE b = h
          BY <4>3, <5>1
        <5>2. CASE b # h
          <6>1. b \in Nat /\ b < h
            BY <1>2, <4>1, <4>3, <5>2 DEF Indexed
          <6> QED BY <1>1, <4>1, <6>1 DEF DiskInv, Linked
        <5> QED BY <5>1, <5>2
      <4> QED BY <4>3, <4>4, <4>5
    <3> QED BY <3>1, <3>2
  <2>5. MemoryInv'
    <3>1. MemoryTypes'
      BY <1>1, <2>1, <2>4, RecoveredClosed DEF MemoryTypes
    <3>2. Ahead' /\ ActiveFits' /\ NoneActive'
      BY <1>1, <2>1, <2>2, <2>4 DEF Ahead, ActiveFits, NoneActive
    <3>3. ClosedFits'
      BY <1>1, <2>1, <2>2, RecoveredClosed DEF ClosedFits, isActive
    <3> QED BY <3>1, <3>2, <3>3 DEF MemoryInv
  <2> QED BY <1>4, <2>3, <2>5 DEF LogInv
\* The segment without an index becomes the active one, cut to its records.
<1>6. CASE Unindexed # {}
  <2>1. PICK a \in Unindexed : TRUE
    BY <1>6
  <2> DEFINE n == recovered(a)
             s == SubSeq(segs[a].slots, 1, n)
             f == [slots |-> s, synced |-> n]
  <2>2. /\ Unindexed = {a} /\ Highest(Unindexed) = a /\ Highest(DOMAIN segs) = a
        /\ a \in DOMAIN segs /\ a \notin DOMAIN idx /\ \A o \in DOMAIN segs : o <= a
        /\ a \in Nat
    BY <1>1, <1>2, OpenSegmentIs
  <2>3. /\ n \in Nat /\ n \in 0..Len(segs[a].slots) /\ Good(segs[a].slots, a, n)
        /\ segs[a].slots \in Seq(Slot)
    BY <1>1, <2>2, RecoveredGood DEF Good, DiskTypes, File
  <2>4. s \in Seq(Slot) /\ Len(s) = n /\ Good(s, a, n)
    BY <2>2, <2>3, CutGood
  <2>5. /\ active' = [base |-> a, n |-> n, due |-> FALSE]
        /\ segs' = [b \in Indexed \cup {a} |-> IF b = a THEN f ELSE segs[b]]
    BY <1>6, <2>2 DEF Open
  <2> HIDE DEF n, s
  <2>6. f \in File /\ f.slots = s /\ f.synced = n /\ f.synced <= Len(f.slots)
    BY <2>3, <2>4 DEF File
  <2> HIDE DEF f
  <2>7. Indexed \cup {a} = DOMAIN segs /\ a \notin Indexed
    BY <2>2 DEF Indexed, Unindexed
  <2>8. /\ DOMAIN segs' = DOMAIN segs /\ segs'[a] = f
        /\ \A b \in DOMAIN segs : b # a => segs'[b] = segs[b]
    BY <2>5, <2>7
  <2>9. Indexed' = Indexed /\ Unindexed' = {a}
    BY <1>1, <2>2, <2>8 DEF Indexed, Unindexed
  <2>10. active' \in ActiveSegment /\ active'.base = a /\ active'.n = n /\ active' # None
    <3>1. active' \in ActiveSegment /\ active'.base = a /\ active'.n = n
      BY <2>2, <2>3, <2>5 DEF ActiveSegment
    <3> QED BY <3>1, LogAssumption
  <2>11. recoveredNext = a + n /\ recoveredNext \in Nat
    BY <2>2, <2>3 DEF recoveredNext, recordsIn, n
  <2>12. DiskInv'
    <3>1. DiskTypes'
      <4>1. segs' \in [DOMAIN segs' -> File]
        BY <1>1, <2>5, <2>6, <2>7, <2>8 DEF DiskTypes
      <4>2. \A b \in DOMAIN segs' : segs'[b].synced <= Len(segs'[b].slots)
        BY <1>1, <2>6, <2>8 DEF DiskTypes
      <4> QED BY <1>1, <2>8, <4>1, <4>2 DEF DiskTypes
    <3>2. IndexFits'
      <4>1. \A b \in Indexed : b \in DOMAIN segs /\ b # a
        BY <2>7 DEF Indexed
      <4> QED BY <1>1, <2>8, <2>9, <4>1 DEF DiskInv, IndexFits
    <3>3. NoOverlap' /\ Linked'
      BY <1>1, <2>8, <2>9 DEF DiskInv, NoOverlap, Linked
    <3>4. OneOpen' /\ LastSegment' /\ Remembered'
      BY <1>1, <2>2, <2>8, <2>9 DEF DiskInv, OneOpen, LastSegment, Remembered
    <3> QED BY <3>1, <3>2, <3>3, <3>4 DEF DiskInv
  <2>13. MemoryInv'
    <3>1. MemoryTypes'
      BY <1>1, <2>10, <2>11, RecoveredClosed DEF MemoryTypes
    <3>2. Ahead'
      <4> SUFFICES ASSUME NEW b \in DOMAIN idx PROVE b + idx[b] <= recoveredNext
        BY <1>1 DEF Ahead
      <4>1. PICK h \in DOMAIN segs : \A o \in DOMAIN segs \cup DOMAIN idx : o <= h
        BY <1>1, <2>2 DEF DiskInv, LastSegment
      <4>2. b \in Nat /\ idx[b] \in Nat /\ b <= a /\ b # a
        BY <1>2, <2>2, <4>1
      <4>3. b < a
        BY <2>2, <4>2
      <4>4. b + idx[b] <= a
        BY <1>1, <2>2, <4>3 DEF DiskInv, NoOverlap
      <4> QED BY <2>2, <2>3, <2>11, <4>2, <4>4
    <3>3. ActiveFits'
      <4>1. file' = f
        BY <2>8, <2>10 DEF file
      <4>2. active'.n <= file'.synced /\ Good((file.slots)', active'.base, active'.n)
        BY <2>3, <2>4, <2>6, <2>10, <4>1
      <4> QED BY <1>1, <2>2, <2>8, <2>10, <2>11, <4>2 DEF ActiveFits
    <3>4. NoneActive'
      BY <2>10 DEF NoneActive
    <3>5. ClosedFits'
      BY <1>1, <2>7, <2>9, <2>10, RecoveredClosed DEF ClosedFits, isActive
    <3> QED BY <3>1, <3>2, <3>3, <3>4, <3>5 DEF MemoryInv
  <2> QED BY <1>4, <2>12, <2>13 DEF LogInv
<1> QED BY <1>5, <1>6

-----------------------------------------------------------------------------
\* The invariant holds of an empty directory, ...
LEMMA LogInvInit ==
    ASSUME Init
    PROVE  LogInv
<1>1. DOMAIN segs = {} /\ DOMAIN idx = {} /\ segs = [b \in {} |-> 0] /\ idx = [b \in {} |-> 0]
  BY DEF Init
<1>2. Indexed = {} /\ Unindexed = {}
  BY <1>1 DEF Indexed, Unindexed
<1>3. DiskInv
  <2>1. IsFiniteSet(DOMAIN segs)
    BY <1>1, FS_EmptySet
  <2>2. segs \in [DOMAIN segs -> File] /\ idx \in [DOMAIN idx -> Nat \ {0}]
    BY <1>1
  <2>3. DiskTypes
    BY <1>1, <2>1, <2>2 DEF Init, DiskTypes
  <2>4. IndexFits /\ NoOverlap /\ Linked /\ OneOpen /\ LastSegment /\ Remembered
    BY <1>1, <1>2 DEF IndexFits, NoOverlap, Linked, OneOpen, LastSegment, Remembered
  <2> QED BY <2>3, <2>4 DEF DiskInv
<1>4. MemoryInv
  <2>1. <<>> \in Seq(ClosedSegment)
    BY EmptySeq
  <2> QED BY <2>1 DEF Init, MemoryInv, MemoryTypes
<1>5. CallInv
  <2>1. call.pc = "idle" /\ call \in CallRecord /\ calls \in 0..MaxAppends
    BY LogAssumption DEF Init, Idle, CallRecord, PCs
  <2> QED BY <2>1
  DEF CallInv, CallTypes, CallRecord, BatchWritten, RollReady, Writing, Rolling, AfterRoll
<1>6. HistoryTypes
  <2>1. <<>> \in Seq(Record)
    BY EmptySeq
  <2> QED BY <2>1 DEF Init, HistoryTypes
<1> QED BY <1>3, <1>4, <1>5, <1>6 DEF LogInv

\* ... every step keeps it, ...
LEMMA LogInvStep ==
    ASSUME LogInv, TailInv, [Next]_vars
    PROVE  LogInv'
<1>1. CASE UNCHANGED vars
  <2>1. UNCHANGED <<disk, up, memory>> /\ call' = call /\ UNCHANGED <<history, faults>>
    BY <1>1 DEF vars
  <2>2. DiskInv' /\ MemoryInv'
    BY <2>1, Unmoved DEF LogInv
  <2>3. HistoryTypes' /\ calls' = calls
    BY <2>1, HistoryKept DEF LogInv
  <2>4. /\ segs' = segs /\ idx' = idx /\ watermark' = watermark /\ up' = up
        /\ active' = active /\ next_offset' = next_offset
    BY <2>1 DEF disk, memory
  <2>5. CallInv'
    BY <2>1, <2>3, <2>4 DEF LogInv, CallInv, CallTypes, BatchWritten, RollReady, file
  <2> QED BY <2>2, <2>3, <2>5 DEF LogInv
<1>2. CASE Progress
  BY <1>2, EnsureActiveStep, WriteRecordStep, SyncSteps, WriteIndexStep, CloseStep, WatermarkStep,
     ErrorSteps
  DEF Progress
<1>3. CASE EnsureActiveErr \/ WriteErr \/ SyncErr \/ PositionErr \/ RollErr \/ WatermarkErr \/ DeleteErr \/ Cancel
  BY <1>3, EnsureActiveErrStep, FileErrorSteps, ErrorSteps
<1>4. CASE \E n \in Sizes : AppendCall(n)
  BY <1>4, AppendCallStep
<1>5. CASE CommitBatch \/ delete_segment \/ Crash \/ Open
  BY <1>5, CommitStep, DeleteStep, CrashStep, OpenStep
<1> QED BY <1>1, <1>2, <1>3, <1>4, <1>5 DEF Next, QuietStep

\* ... and so is what is known of an append that went around left-overs.
LEMMA TailStep ==
    ASSUME LogInv, TailInv, [Next]_vars
    PROVE  TailInv' /\ (strayed => strayed')
<1>1. ASSUME debris' \in BOOLEAN, strayed' = strayed, astray' = astray, up' = up, active' = active
      PROVE  TailInv' /\ (strayed => strayed')
  BY <1>1 DEF TailInv
<1>2. ASSUME debris' \in BOOLEAN, strayed' = strayed, astray' = None
      PROVE  TailInv' /\ (strayed => strayed')
  BY <1>2 DEF TailInv
<1>3. CASE UNCHANGED vars
  BY <1>1, <1>3 DEF vars, tail, memory, TailInv
<1>4. CASE WriteErr \/ SyncErr \/ RollErr \/ Cancel
  <2>1. debris' \in BOOLEAN
    BY <1>4 DEF WriteErr, SyncErr, RollErr, Cancel, TailInv
  <2>2. strayed' = strayed /\ astray' = astray /\ up' = up /\ active' = active
    BY <1>4 DEF WriteErr, SyncErr, RollErr, Cancel, memory
  <2> QED BY <1>1, <2>1, <2>2
<1>5. CASE CloseSegment \/ Crash
  BY <1>2, <1>5 DEF CloseSegment, Crash, TailInv
<1>6. CASE ensure_active \/ Open
  <2>1. astray = None
    BY <1>6 DEF ensure_active, Open, At, TailInv, LogInv, CallInv, CallTypes
  <2>2. UNCHANGED tail
    BY <1>6 DEF ensure_active, Open
  <2> QED BY <1>2, <2>1, <2>2 DEF tail, TailInv
<1>7. CASE CommitBatch
  <2>1. /\ up /\ up' = up /\ active # None /\ call.size \in Nat /\ call.pc = "commit" /\ call.size # 0
    BY <1>7 DEF CommitBatch, At, LogInv, CallInv, CallTypes, Writing
  <2>2. active \in ActiveSegment /\ active.n \in Nat /\ file.slots \in Seq(Slot)
    BY <2>1, ActiveFacts
  <2>3. batchEnd \in Nat /\ active.n <= batchEnd
    BY <2>1, <2>2 DEF batchEnd
  <2>4. active' # None /\ active'.n = batchEnd
    <3>1. PICK due : active' = [active EXCEPT !.n = batchEnd, !.due = due]
      BY <1>7 DEF CommitBatch
    <3>2. active'.n = batchEnd
      BY <2>2, <3>1 DEF ActiveSegment
    <3>3. active' # None
      <4>1. PICK aged \in BOOLEAN :
              active' = [active EXCEPT !.n = batchEnd, !.due = active.due \/ aged \/ batchEnd >= MaxRecords]
        BY <1>7 DEF CommitBatch
      <4> DEFINE d == active.due \/ aged \/ batchEnd >= MaxRecords
      <4>2. d \in BOOLEAN
        OBVIOUS
      <4>3. active' = [active EXCEPT !.n = batchEnd, !.due = d]
        BY <4>1
      <4> HIDE DEF d
      <4>4. active' \in ActiveSegment
        BY <2>2, <2>3, <4>2, <4>3 DEF ActiveSegment
      <4> QED BY <4>4, LogAssumption
    <3> QED BY <3>2, <3>3
  <2>5. CASE UNCHANGED tail
    BY <2>1, <2>2, <2>3, <2>4, <2>5 DEF tail, TailInv
  <2>6. CASE EndPosition /\ ~UNCHANGED tail
    <3> DEFINE junk == SubSeq(file.slots, batchEnd + 1, Len(file.slots))
    <3>1. /\ debris' = FALSE /\ strayed' = TRUE
          /\ astray' = IF astray # None THEN astray ELSE [at |-> batchEnd, junk |-> junk]
      BY <2>6 DEF EndPosition
    <3>2. junk \in Seq(Slot)
      <4>1. Len(file.slots) \in Nat /\ batchEnd + 1 \in Nat /\ batchEnd + 1 >= 1
        BY <2>2, <2>3, LenProperties
      <4>2. \A i \in (batchEnd + 1)..Len(file.slots) : file.slots[i] \in Slot
        BY <2>2, <2>3, <4>1, ElementOfSeq
      <4> QED BY <2>2, <2>3, <4>1, <4>2, SubSeqProperties
    <3> HIDE DEF junk
    <3>3. CASE astray # None
      <4>1. astray' = astray
        BY <3>1, <3>3
      <4>2. astray \in [at : Nat, junk : Seq(Slot)] /\ astray.at \in Nat /\ astray.at <= active.n
        BY <3>3 DEF TailInv
      <4>3. astray.at <= active'.n
        BY <2>2, <2>3, <2>4, <4>2
      <4> QED BY <2>1, <2>4, <3>1, <3>3, <4>1, <4>2, <4>3 DEF TailInv
    <3>4. CASE astray = None
      <4>1. astray' \in [at : Nat, junk : Seq(Slot)] /\ astray'.at = batchEnd
        BY <2>3, <3>1, <3>2, <3>4
      <4>2. astray'.at <= active'.n
        BY <2>3, <2>4, <4>1
      <4> QED BY <2>1, <2>4, <3>1, <4>1, <4>2 DEF TailInv
    <3> QED BY <3>3, <3>4
  <2> QED BY <1>7, <2>5, <2>6 DEF CommitBatch, StreamPosition
<1>8. CASE \/ write_record \/ sync_all \/ RollSync \/ WriteSentinel \/ SyncSentinel
           \/ write_index \/ write_watermark \/ RetentionDone \/ EnsureActiveErr
           \/ PositionErr \/ WatermarkErr \/ DeleteErr \/ delete_segment
           \/ \E n \in Sizes : AppendCall(n)
  <2>1. UNCHANGED tail /\ up' = up /\ active' = active
    BY <1>8 DEF write_record, sync_all, RollSync, WriteSentinel, SyncSentinel,
       write_index, write_watermark, RetentionDone, EnsureActiveErr, PositionErr, WatermarkErr,
       DeleteErr, delete_segment, AppendCall, memory
  <2> QED BY <1>1, <2>1 DEF tail, TailInv
<1> QED BY <1>3, <1>4, <1>5, <1>6, <1>7, <1>8 DEF Next, QuietStep, Progress

\* ... so both always hold.
LEMMA LogInvAlways == Spec => [](LogInv /\ TailInv)
<1>1. Init => LogInv /\ TailInv
  BY LogInvInit DEF Init, TailInv
<1>2. LogInv /\ TailInv /\ [Next]_vars => LogInv' /\ TailInv'
  BY LogInvStep, TailStep
<1> QED BY <1>1, <1>2, PTL DEF Spec

(***************************************************************************)
(* Whatever appends, rolls, evictions, I/O errors, aborted calls and       *)
(* crashes leave in the directory, SegmentLog::open accepts it.            *)
(***************************************************************************)
THEOREM AlwaysOpensAlways == Spec => []AlwaysOpens
<1>1. LogInv => AlwaysOpens
  BY NotCorrupted DEF LogInv, AlwaysOpens
<1> QED BY <1>1, LogInvAlways, PTL

(***************************************************************************)
(* The files, the struct and the call keep their types; what retention     *)
(* removes is records and never a sentinel.                                *)
(***************************************************************************)
THEOREM SegmentTypeCorrect == Spec => []TypeOK
<1>1. ASSUME LogInv, TailInv PROVE TypeOK
  <2>1. \A b \in DOMAIN segs : /\ b \in Nat
                               /\ segs[b].slots \in Seq(Record \cup {Sentinel})
                               /\ segs[b].synced \in 0..Len(segs[b].slots)
    <3> SUFFICES ASSUME NEW b \in DOMAIN segs
                 PROVE  /\ b \in Nat /\ segs[b].slots \in Seq(Slot)
                        /\ segs[b].synced \in 0..Len(segs[b].slots)
      BY DEF Slot
    <3>1. /\ b \in Nat /\ segs[b].slots \in Seq(Slot) /\ segs[b].synced \in Nat
          /\ segs[b].synced <= Len(segs[b].slots)
      BY <1>1 DEF LogInv, DiskInv, DiskTypes, File
    <3>2. Len(segs[b].slots) \in Nat
      BY <3>1, LenProperties
    <3> QED BY <3>1, <3>2
  <2>2. \A b \in DOMAIN idx : b \in Nat /\ idx[b] \in Nat \ {0}
    BY <1>1 DEF LogInv, DiskInv, DiskTypes
  <2>3. watermark \in Nat \cup {None} /\ faults \in Nat
    BY <1>1 DEF LogInv, DiskInv, DiskTypes, HistoryTypes
  <2>4. /\ closed \in Seq([base : Nat, last : Nat]) /\ (active = None \/ active \in ActiveSegment)
        /\ next_offset \in Nat /\ up \in BOOLEAN /\ poisoned \in BOOLEAN
    BY <1>1 DEF LogInv, MemoryInv, MemoryTypes, ClosedSegment
  <2>5. /\ call \in [pc : PCs, id : 0..MaxAppends, size : Nat, written : Nat] /\ calls \in Nat
        /\ result \in [Batches -> {None, "Ok", "Err", "LateErr", "Lost"}] /\ evicted \in Seq(Record)
    BY <1>1, LogAssumption DEF LogInv, CallInv, CallTypes, HistoryTypes
  <2>6. /\ debris \in BOOLEAN /\ strayed \in BOOLEAN
        /\ astray = None \/ astray \in [at : Nat, junk : Seq(Record \cup {Sentinel})]
    BY <1>1 DEF TailInv, Slot
  <2> QED BY <2>1, <2>2, <2>3, <2>4, <2>5, <2>6 DEF TypeOK
<1> QED BY <1>1, LogInvAlways, PTL

=============================================================================
