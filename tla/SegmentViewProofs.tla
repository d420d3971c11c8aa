-------------------------- MODULE SegmentViewProofs -------------------------
(***************************************************************************)
(* What a reader of a segment log sees, for every batch size, segment size *)
(* and retention policy: the segments, put end to end after what retention *)
(* removed, are the records 0, 1, 2, ... up to the next offset, what       *)
(* append acknowledged is among them for ever, and, when no append is      *)
(* aborted, the log only grows and implements the EventLog port.           *)
(***************************************************************************)
EXTENDS SegmentLogProofs

-----------------------------------------------------------------------------
\* FlattenSeq, for sequences of every length.

\* g is the function FlattenSeq(S) is defined by.
Flattens(g, S, V, n) ==
    /\ g \in [1..n -> Seq(V)]
    /\ \A i \in 1..n : g[i] = IF i = 1 THEN S[i] ELSE g[i - 1] \o S[i]

\* It exists.
LEMMA FlattenExists ==
    ASSUME NEW V, NEW n \in Nat \ {0}, NEW S \in [1..n -> Seq(V)]
    PROVE  \E g : Flattens(g, S, V, n)
<1> DEFINE Flat(g, m) == \A i \in 1..m : g[i] = IF i = 1 THEN S[i] ELSE g[i - 1] \o S[i]
           Has(m) == \E g \in [1..m -> Seq(V)] : Flat(g, m)
           T == {m \in Nat : m # 0 /\ m <= n => Has(m)}
<1>1. Has(1)
  <2> DEFINE g == [i \in 1..1 |-> S[i]]
  <2>1. g \in [1..1 -> Seq(V)]
    OBVIOUS
  <2>2. Flat(g, 1)
    OBVIOUS
  <2> HIDE DEF g
  <2> QED BY <2>1, <2>2
<1>2. ASSUME NEW k \in Nat \ {0}, k + 1 <= n, Has(k) PROVE Has(k + 1)
  <2>1. k >= 1 /\ k <= n /\ k + 1 \in 1..n
    BY <1>2
  <2>2. PICK g \in [1..k -> Seq(V)] : Flat(g, k)
    BY <1>2
  <2> DEFINE h == [i \in 1..(k + 1) |-> IF i = k + 1 THEN g[k] \o S[i] ELSE g[i]]
  <2>3. g[k] \in Seq(V) /\ S[k + 1] \in Seq(V)
    BY <2>1
  <2>4. g[k] \o S[k + 1] \in Seq(V)
    BY <2>3, ConcatProperties
  <2>5. \A i \in 1..(k + 1) : i = k + 1 \/ i \in 1..k
    BY <2>1
  <2>6. h \in [1..(k + 1) -> Seq(V)]
    BY <2>4, <2>5
  <2>7. Flat(h, k + 1)
    <3> SUFFICES ASSUME NEW i \in 1..(k + 1)
                 PROVE  h[i] = IF i = 1 THEN S[i] ELSE h[i - 1] \o S[i]
      OBVIOUS
    <3>1. CASE i = k + 1
      <4>1. i # 1 /\ i - 1 = k /\ k \in 1..(k + 1) /\ k # k + 1
        BY <2>1, <3>1
      <4>2. h[k] = g[k] /\ h[i] = g[k] \o S[i]
        BY <3>1, <4>1
      <4> QED BY <4>1, <4>2
    <3>2. CASE i \in 1..k
      <4>1. h[i] = g[i] /\ i # k + 1
        BY <2>1, <3>2
      <4>2. CASE i = 1
        BY <2>2, <3>2, <4>1, <4>2
      <4>3. CASE i # 1
        <5>1. i - 1 \in 1..(k + 1) /\ i - 1 # k + 1
          BY <2>1, <3>2, <4>3
        <5>2. h[i - 1] = g[i - 1]
          BY <5>1
        <5> QED BY <2>2, <3>2, <4>1, <4>3, <5>2
      <4> QED BY <4>2, <4>3
    <3> QED BY <2>5, <3>1, <3>2
  <2> HIDE DEF h, Flat
  <2> QED BY <2>6, <2>7
<1> HIDE DEF Has
<1>3. T = Nat
  <2>1. 0 \in T
    OBVIOUS
  <2>2. ASSUME NEW m \in T PROVE m + 1 \in T
    BY <1>1, <1>2
  <2> HIDE DEF T
  <2>3. T \in SUBSET Nat
    BY DEF T
  <2> QED BY <2>1, <2>2, <2>3, SetInduction
<1>4. n \in T
  BY <1>3
<1>5. Has(n)
  BY <1>4
<1> QED BY <1>5 DEF Has, Flattens

\* FlattenSeq computes it.
LEMMA FlattenIs ==
    ASSUME NEW V, NEW n \in Nat \ {0}, NEW S \in [1..n -> Seq(V)]
    PROVE  \E g : Flattens(g, S, V, n) /\ FlattenSeq(S) = g[n]
<1> DEFINE flatten == CHOOSE f : f = [i \in 1..n |-> IF i = 1 THEN S[i] ELSE f[i - 1] \o S[i]]
<1>1. S \in Seq(Seq(V)) /\ Len(S) = n
  BY SeqDef
<1>2. FlattenSeq(S) = flatten[n]
  BY <1>1 DEF FlattenSeq
<1>3. PICK g : Flattens(g, S, V, n)
  BY FlattenExists
<1>4. g = [i \in 1..n |-> IF i = 1 THEN S[i] ELSE g[i - 1] \o S[i]]
  BY <1>3 DEF Flattens
<1>5. flatten = [i \in 1..n |-> IF i = 1 THEN S[i] ELSE flatten[i - 1] \o S[i]]
  BY <1>4
<1> HIDE DEF flatten
<1>6. \A i \in 1..n : flatten[i] = g[i]
  <2> DEFINE T == {m \in Nat : m \in 1..n => flatten[m] = g[m]}
  <2>1. 0 \in T
    OBVIOUS
  <2>2. ASSUME NEW m \in T PROVE m + 1 \in T
    <3> SUFFICES ASSUME m + 1 \in 1..n PROVE flatten[m + 1] = g[m + 1]
      OBVIOUS
    <3>1. flatten[m + 1] = IF m + 1 = 1 THEN S[m + 1] ELSE flatten[(m + 1) - 1] \o S[m + 1]
      BY <1>5
    <3>2. (m + 1) - 1 = m /\ (m + 1 # 1 => m \in 1..n)
      OBVIOUS
    <3>3. m + 1 # 1 => flatten[m] = g[m]
      BY <3>2
    <3> QED BY <1>3, <3>1, <3>2, <3>3 DEF Flattens
  <2> HIDE DEF T
  <2>3. T \in SUBSET Nat
    BY DEF T
  <2>4. T = Nat
    BY <2>1, <2>2, <2>3, SetInduction
  <2>5. \A i \in 1..n : i \in T
    BY <2>4
  <2> QED BY <2>5 DEF T
<1>7. FlattenSeq(S) = g[n]
  BY <1>2, <1>6
<1> QED BY <1>3, <1>7

\* The elements of a concatenation.
LEMMA ConcatAt ==
    ASSUME NEW V, NEW x \in Seq(V), NEW y \in Seq(V), NEW e \in Nat, Len(x) = e
    PROVE  /\ x \o y \in Seq(V) /\ Len(y) \in Nat /\ Len(x \o y) = e + Len(y)
           /\ \A i \in 1..e : (x \o y)[i] = x[i]
           /\ \A k \in 1..Len(y) : (x \o y)[e + k] = y[k]
<1>1. Len(y) \in Nat
  BY LenProperties
<1>2. /\ x \o y \in Seq(V) /\ Len(x \o y) = Len(x) + Len(y)
      /\ \A i \in 1..(Len(x) + Len(y)) :
           (x \o y)[i] = IF i <= Len(x) THEN x[i] ELSE y[i - Len(x)]
  BY ConcatProperties
<1>3. \A i \in 1..e : i \in 1..(Len(x) + Len(y)) /\ i <= Len(x)
  BY <1>1
<1>4. \A k \in 1..Len(y) :
        e + k \in 1..(Len(x) + Len(y)) /\ ~(e + k <= Len(x)) /\ (e + k) - Len(x) = k
  BY <1>1
<1> QED BY <1>1, <1>2, <1>3, <1>4

\* The same under a name.
Joined(x, y, e, V) ==
    /\ x \o y \in Seq(V) /\ Len(x \o y) = e + Len(y)
    /\ \A i \in 1..e : (x \o y)[i] = x[i]
    /\ \A k \in 1..Len(y) : (x \o y)[e + k] = y[k]

\* Concatenation joins.
LEMMA ConcatJoins ==
    ASSUME NEW V, NEW x \in Seq(V), NEW y \in Seq(V), NEW e \in Nat, Len(x) = e
    PROVE  Joined(x, y, e, V)
BY ConcatAt DEF Joined

\* The i-th of the parts S begins after start[i] elements.
Parts(S, start, V, n) ==
    /\ n \in Nat \ {0} /\ S \in [1..n -> Seq(V)] /\ start \in [1..n -> Nat] /\ start[1] = 0
    /\ \A i \in 1..n : i + 1 \in 1..n => start[i + 1] = start[i] + Len(S[i])

\* F has every part at its place, and nothing else.
Whole(F, S, start, V, n) ==
    /\ F \in Seq(V) /\ Len(F) = start[n] + Len(S[n])
    /\ \A i \in 1..n : \A k \in 1..Len(S[i]) :
         /\ start[i] + k <= start[n] + Len(S[n])
         /\ F[start[i] + k] = S[i][k]
    /\ \A j \in 1..(start[n] + Len(S[n])) :
         \E i \in 1..n : \E k \in 1..Len(S[i]) : j = start[i] + k

\* FlattenSeq puts the parts end to end.
LEMMA FlattenAt ==
    ASSUME NEW V, NEW n, NEW S, NEW start, Parts(S, start, V, n)
    PROVE  Whole(FlattenSeq(S), S, start, V, n)
<1>0. /\ n \in Nat \ {0} /\ S \in [1..n -> Seq(V)] /\ start \in [1..n -> Nat] /\ start[1] = 0
      /\ \A i \in 1..n : i + 1 \in 1..n => start[i + 1] = start[i] + Len(S[i])
  BY DEF Parts
<1>1. PICK g : Flattens(g, S, V, n) /\ FlattenSeq(S) = g[n]
  BY <1>0, FlattenIs
<1> DEFINE end(m) == start[m] + Len(S[m])
           Sized(m) == g[m] \in Seq(V) /\ Len(g[m]) = end(m)
           Placed(m) == \A i \in 1..m : \A k \in 1..Len(S[i]) :
                           start[i] + k <= end(m) /\ g[m][start[i] + k] = S[i][k]
           Covered(m) == \A j \in 1..end(m) :
                           \E i \in 1..m : \E k \in 1..Len(S[i]) : j = start[i] + k
           T == {m \in Nat : m \in 1..n => Sized(m) /\ Placed(m) /\ Covered(m)}
<1>2. \A i \in 1..n : S[i] \in Seq(V) /\ Len(S[i]) \in Nat /\ start[i] \in Nat /\ end(i) \in Nat
  BY <1>0, LenProperties
<1>3. 1 \in 1..n /\ g[1] = S[1]
  BY <1>0, <1>1 DEF Flattens
<1>4. Sized(1) /\ Placed(1) /\ Covered(1)
  <2>1. Sized(1) /\ end(1) = Len(S[1])
    BY <1>0, <1>2, <1>3
  <2>2. \A k \in 1..Len(S[1]) : start[1] + k = k
    BY <1>0, <1>2, <1>3
  <2>3. \A i \in 1..1 : i = 1
    OBVIOUS
  <2>4. Placed(1)
    BY <1>2, <1>3, <2>1, <2>2, <2>3
  <2>5. Covered(1)
    BY <1>2, <1>3, <2>1, <2>2
  <2> QED BY <2>1, <2>4, <2>5
<1>5. ASSUME NEW m \in 1..n, m + 1 \in 1..n, Sized(m), Placed(m), Covered(m)
      PROVE  Sized(m + 1) /\ Placed(m + 1) /\ Covered(m + 1)
  <2> DEFINE p == m + 1
  <2>1. /\ p \in 1..n /\ p # 1 /\ p - 1 = m /\ g[p] = g[m] \o S[p]
        /\ start[p] = end(m) /\ end(p) = end(m) + Len(S[p])
    <3>1. p \in 1..n /\ p # 1 /\ p - 1 = m
      BY <1>0, <1>5
    <3>2. g[p] = g[m] \o S[p]
      BY <1>1, <3>1 DEF Flattens
    <3>3. start[p] = end(m)
      BY <1>0, <1>5
    <3> QED BY <3>1, <3>2, <3>3
  <2>2. \A i \in 1..p : i \in 1..m \/ i = p
    OBVIOUS
  <2>3. \A i \in 1..m : i \in 1..n
    BY <1>0, <1>5
  <2>4. end(m) \in Nat /\ g[m] \in Seq(V) /\ Len(g[m]) = end(m) /\ S[p] \in Seq(V)
    BY <1>2, <1>5, <2>1
  <2> HIDE DEF p, end
  <2>5. /\ g[p] \in Seq(V) /\ Len(S[p]) \in Nat /\ Len(g[p]) = end(m) + Len(S[p])
        /\ \A i \in 1..end(m) : g[p][i] = g[m][i]
        /\ \A k \in 1..Len(S[p]) : g[p][end(m) + k] = S[p][k]
    <3>1. /\ g[m] \o S[p] \in Seq(V) /\ Len(S[p]) \in Nat /\ Len(g[m] \o S[p]) = end(m) + Len(S[p])
          /\ \A i \in 1..end(m) : (g[m] \o S[p])[i] = g[m][i]
          /\ \A k \in 1..Len(S[p]) : (g[m] \o S[p])[end(m) + k] = S[p][k]
      <4> DEFINE x == g[m]
                 y == S[p]
                 e == end(m)
      <4>1. x \in Seq(V) /\ y \in Seq(V) /\ e \in Nat /\ Len(x) = e
        BY <2>4
      <4> HIDE DEF x, y, e
      <4>2. /\ x \o y \in Seq(V) /\ Len(y) \in Nat /\ Len(x \o y) = e + Len(y)
            /\ \A i \in 1..e : (x \o y)[i] = x[i]
            /\ \A k \in 1..Len(y) : (x \o y)[e + k] = y[k]
        BY <4>1, ConcatAt
      <4> QED BY <4>2, Zenon DEF x, y, e
    <3> QED BY <2>1, <3>1, Zenon
  <2>6. Sized(p)
    BY <2>1, <2>5
  <2>7. Placed(p)
    <3> SUFFICES ASSUME NEW i \in 1..p, NEW k \in 1..Len(S[i])
                 PROVE  start[i] + k <= end(p) /\ g[p][start[i] + k] = S[i][k]
      OBVIOUS
    <3>1. CASE i \in 1..m
      <4>1. /\ start[i] + k <= end(m) /\ g[m][start[i] + k] = S[i][k]
            /\ start[i] \in Nat /\ Len(S[i]) \in Nat
        BY <1>2, <1>5, <2>3, <3>1
      <4> DEFINE l == start[i] + k
      <4>2. k \in Nat /\ k >= 1 /\ l \in Nat /\ l >= 1 /\ l <= end(m)
        BY <4>1
      <4> HIDE DEF l
      <4>3. l \in 1..end(m) /\ l <= end(m) + Len(S[p])
        BY <2>4, <2>5, <4>2
      <4> QED BY <2>1, <2>5, <4>1, <4>3 DEF l
    <3>2. CASE i = p
      <4>1. start[i] + k = end(m) + k /\ k \in 1..Len(S[p])
        BY <2>1, <3>2
      <4>2. end(m) + k <= end(m) + Len(S[p])
        BY <2>4, <2>5, <4>1
      <4> QED BY <2>1, <2>5, <3>2, <4>1, <4>2
    <3> QED BY <2>2, <3>1, <3>2
  <2>8. Covered(p)
    <3> SUFFICES ASSUME NEW j \in 1..end(p)
                 PROVE  \E i \in 1..p : \E k \in 1..Len(S[i]) : j = start[i] + k
      OBVIOUS
    <3>1. j \in Nat /\ j >= 1 /\ j <= end(m) + Len(S[p])
      BY <2>1, <2>4, <2>5
    <3>2. CASE j <= end(m)
      <4>1. j \in 1..end(m)
        BY <2>4, <3>1, <3>2
      <4>2. PICK i \in 1..m : \E k \in 1..Len(S[i]) : j = start[i] + k
        BY <1>5, <4>1
      <4>3. i \in 1..p
        BY <2>1
      <4> QED BY <4>2, <4>3
    <3>3. CASE j > end(m)
      <4>1. j - end(m) \in 1..Len(S[p]) /\ j = end(m) + (j - end(m))
        BY <2>4, <2>5, <3>1, <3>3
      <4>2. p \in 1..p
        BY <2>1
      <4> QED BY <2>1, <4>1, <4>2
    <3> QED BY <2>4, <3>1, <3>2, <3>3
  <2> QED BY <2>6, <2>7, <2>8 DEF p
<1>6. T = Nat
  <2> HIDE DEF Sized, Placed, Covered
  <2>1. 0 \in T
    OBVIOUS
  <2>2. ASSUME NEW m \in T PROVE m + 1 \in T
    <3> SUFFICES ASSUME m + 1 \in 1..n PROVE Sized(m + 1) /\ Placed(m + 1) /\ Covered(m + 1)
      OBVIOUS
    <3>1. CASE m = 0
      BY <1>4, <3>1
    <3>2. CASE m # 0
      <4>1. m \in 1..n
        BY <1>0, <3>2
      <4> QED BY <1>5, <4>1
    <3> QED BY <3>1, <3>2
  <2> HIDE DEF T
  <2>3. T \in SUBSET Nat
    BY DEF T
  <2> QED BY <2>1, <2>2, <2>3, SetInduction
<1>7. n \in T /\ n \in 1..n
  <2> HIDE DEF T
  <2> QED BY <1>0, <1>6
<1>8. Sized(n) /\ Placed(n) /\ Covered(n)
  <2> HIDE DEF Sized, Placed, Covered
  <2> QED BY <1>7
<1> QED BY <1>1, <1>8 DEF Whole

-----------------------------------------------------------------------------
(***************************************************************************)
(* What retention removed ends where the first segment begins; when it has *)
(* removed every segment, the watermark and the next offset remember where *)
(* that was.                                                               *)
(***************************************************************************)
EvictedFits ==
    /\ \A i \in DOMAIN evicted : evicted[i].off = i - 1
    /\ DOMAIN segs # {} =>
         Len(evicted) \in DOMAIN segs /\ \A b \in DOMAIN segs : Len(evicted) <= b
    /\ DOMAIN segs = {} =>
         /\ up => next_offset = Len(evicted)
         /\ Len(evicted) = IF watermark # None THEN watermark ELSE 0

\* A step that creates and deletes no segment.
LEMMA SameBases ==
    ASSUME EvictedFits, DOMAIN segs' = DOMAIN segs, evicted' = evicted, watermark' = watermark,
           DOMAIN segs = {} /\ up' => up /\ next_offset' = next_offset
    PROVE  EvictedFits'
BY DEF EvictedFits

\* A new segment begins at the next offset.
LEMMA EvictedCreated ==
    ASSUME LogInv, EvictedFits, ensure_active \/ EnsureActiveErr
    PROVE  EvictedFits'
<1>1. /\ up /\ active = None /\ idx' = idx /\ watermark' = watermark /\ up' = up
      /\ next_offset' = next_offset /\ evicted' = evicted
      /\ segs' = segs \/ segs' = Assign(segs, next_offset, Fresh)
  BY DEF ensure_active, EnsureActiveErr, At, LogInv, CallInv, CallTypes, memory, history, Fresh
<1>2. CASE segs' = segs
  BY <1>1, <1>2, SameBases
<1>3. CASE segs' = Assign(segs, next_offset, Fresh)
  <2>1. DOMAIN segs' = DOMAIN segs \cup {next_offset} /\ \A o \in DOMAIN segs' : o <= next_offset
    BY <1>1, <1>3, CreatedOnDisk
  <2>2. next_offset \in Nat
    BY DEF LogInv, MemoryInv, MemoryTypes
  <2>3. Len(evicted) \in DOMAIN segs' /\ \A b \in DOMAIN segs' : Len(evicted) <= b
    BY <1>1, <2>1, <2>2 DEF EvictedFits
  <2> QED BY <1>1, <2>1, <2>3 DEF EvictedFits
<1> QED BY <1>1, <1>2, <1>3

\* The segment at b goes, and its n records join the evicted ones.
Deleted(b, n) ==
    /\ b \in DOMAIN segs /\ b \in DOMAIN idx /\ n = idx[b] /\ n \in Nat /\ n # 0
    /\ \A o \in DOMAIN segs : o = b \/ b < o
    /\ b + n \in DOMAIN segs \cup {next_offset}
    /\ segs' = Without(segs, b)
    /\ Good(segs[b].slots, b, n)
    /\ evicted' \in Seq(Record) /\ Len(evicted) = b /\ Len(evicted') = b + n
    /\ \A i \in 1..b : evicted'[i] = evicted[i]
    /\ \A k \in 1..n : evicted'[b + k] = segs[b].slots[k]

\* An evicted segment was the first one.
LEMMA DeletedFront ==
    ASSUME LogInv, EvictedFits, delete_segment
    PROVE  Deleted(Head(closed).base, idx[Head(closed).base])
<1> DEFINE b0 == Head(closed).base
           n == idx[b0]
           slots == segs[b0].slots
           cut == Records(b0, Head(closed).last - b0 + 1)
<1>1. /\ up /\ active = None /\ closed # <<>>
      /\ segs' = Without(segs, b0)
      /\ evicted' = evicted \o cut
      /\ watermark' = watermark /\ up' = up /\ next_offset' = next_offset
      /\ watermark = next_offset /\ next_offset \in Nat
  BY DEF delete_segment, At, LogInv, CallInv, CallTypes, AfterRoll, RollReady, MemoryInv, MemoryTypes
<1>2. /\ b0 \in Indexed /\ Head(closed).last = b0 + idx[b0] - 1
      /\ \A b \in Indexed : b = b0 \/ b0 < b
  BY <1>1, FrontFacts
<1>3. /\ b0 \in DOMAIN segs /\ b0 \in DOMAIN idx /\ b0 \in Nat /\ n \in Nat /\ n # 0
      /\ DOMAIN segs \subseteq Nat
      /\ Good(slots, b0, n) /\ slots \in Seq(Slot)
      /\ b0 + n <= next_offset
      /\ b0 + n \in DOMAIN segs \cup {next_offset}
  BY <1>1, <1>2
  DEF LogInv, DiskInv, DiskTypes, IndexFits, Indexed, File, MemoryInv, Ahead, NoneActive
<1>4. \A b \in DOMAIN segs : b = b0 \/ b0 < b
  <2>1. \A b \in Unindexed : b = next_offset
    BY <1>1 DEF LogInv, MemoryInv, NoneActive
  <2>2. b0 < next_offset
    BY <1>1, <1>3
  <2> QED BY <1>2, <2>1, <2>2 DEF Indexed, Unindexed
<1>5. Len(evicted) = b0
  <2>1. Len(evicted) \in DOMAIN segs /\ Len(evicted) <= b0
    BY <1>3 DEF EvictedFits
  <2> QED BY <1>3, <1>4, <2>1
<1>6. cut = SubSeq(slots, 1, n)
  <2>1. Head(closed).last - b0 + 1 = n
    BY <1>2, <1>3
  <2> QED BY <2>1 DEF Records
<1>7. /\ cut \in Seq(Record) /\ Len(cut) = n
      /\ \A k \in 1..n : cut[k] = slots[k]
  <2>1. \A i \in 1..n : slots[i] \in Record
    BY <1>3 DEF Good
  <2> HIDE DEF n, slots
  <2>2. n \in Int /\ 1 \in Int /\ 1 <= n /\ n - 1 + 1 = n
    BY <1>3
  <2>3. /\ SubSeq(slots, 1, n) \in Seq(Record)
        /\ Len(SubSeq(slots, 1, n)) = n - 1 + 1
        /\ \A i \in 1..(n - 1 + 1) : SubSeq(slots, 1, n)[i] = slots[1 + i - 1]
    BY <2>1, <2>2, SubSeqProperties
  <2>4. \A i \in 1..n : 1 + i - 1 = i
    BY <1>3
  <2> QED BY <1>6, <2>1, <2>2, <2>3, <2>4
<1>8. /\ evicted' \in Seq(Record) /\ Len(evicted') = b0 + n
      /\ \A i \in 1..b0 : evicted'[i] = evicted[i]
      /\ \A k \in 1..n : evicted'[b0 + k] = cut[k]
  <2> HIDE DEF cut, n, b0
  <2>1. evicted \in Seq(Record) /\ cut \in Seq(Record) /\ b0 \in Nat /\ Len(evicted) = b0
    BY <1>3, <1>5, <1>7 DEF LogInv, HistoryTypes
  <2>2. /\ evicted \o cut \in Seq(Record) /\ Len(evicted \o cut) = b0 + Len(cut)
        /\ \A i \in 1..b0 : (evicted \o cut)[i] = evicted[i]
        /\ \A k \in 1..Len(cut) : (evicted \o cut)[b0 + k] = cut[k]
    BY <2>1, ConcatAt
  <2> QED BY <1>1, <1>7, <2>2
<1> HIDE DEF cut
<1> QED BY <1>1, <1>3, <1>4, <1>5, <1>7, <1>8 DEF Deleted

\* What retention removed still ends where the first segment begins.
LEMMA EvictedDeleted ==
    ASSUME LogInv, EvictedFits, delete_segment
    PROVE  EvictedFits'
<1> DEFINE b0 == Head(closed).base
           n == idx[b0]
<1>1. /\ watermark' = watermark /\ next_offset' = next_offset /\ watermark = next_offset
      /\ next_offset \in Nat
  BY DEF delete_segment, At, LogInv, CallInv, RollReady, MemoryInv, MemoryTypes
<1>2. Deleted(b0, n)
  BY DeletedFront
<1> HIDE DEF b0, n
<1>3. b0 \in Nat /\ b0 \in Indexed /\ DOMAIN segs \subseteq Nat
  BY <1>2 DEF Deleted, LogInv, DiskInv, DiskTypes, Indexed
<1>4. \A i \in DOMAIN evicted' : evicted'[i].off = i - 1
  <2> SUFFICES ASSUME NEW i \in DOMAIN evicted' PROVE evicted'[i].off = i - 1
    OBVIOUS
  <2>1. i \in 1..(b0 + n)
    BY <1>2, LenProperties DEF Deleted
  <2>2. CASE i <= b0
    <3>1. i \in 1..b0 /\ i \in DOMAIN evicted
      <4>1. evicted \in Seq(Record)
        BY DEF LogInv, HistoryTypes
      <4> QED BY <1>2, <1>3, <2>1, <2>2, <4>1, LenProperties DEF Deleted
    <3> QED BY <1>2, <3>1 DEF EvictedFits, Deleted
  <2>3. CASE i > b0
    <3>1. i - b0 \in 1..n /\ i = b0 + (i - b0) /\ b0 + (i - b0) - 1 = i - 1
      BY <1>2, <1>3, <2>1, <2>3 DEF Deleted
    <3>2. evicted'[i] = segs[b0].slots[i - b0]
      BY <1>2, <3>1 DEF Deleted
    <3>3. segs[b0].slots[i - b0].off = b0 + (i - b0) - 1
      BY <1>2, <3>1 DEF Deleted, Good
    <3> QED BY <3>1, <3>2, <3>3
  <2> QED BY <1>2, <1>3, <2>1, <2>2, <2>3 DEF Deleted
<1>5. DOMAIN segs' = DOMAIN segs \ {b0}
  BY <1>2 DEF Without, Deleted
<1>6. ASSUME NEW o \in DOMAIN segs'
      PROVE  b0 + n \in DOMAIN segs' /\ b0 + n <= o
  <2>1. o \in DOMAIN segs /\ b0 < o
    BY <1>2, <1>5 DEF Deleted
  <2>2. b0 + n \in DOMAIN segs /\ b0 + n <= o
    BY <1>2, <1>3, <2>1 DEF LogInv, DiskInv, Linked, NoOverlap, Deleted
  <2>3. b0 + n # b0
    BY <1>2, <1>3 DEF Deleted
  <2> QED BY <1>5, <2>2, <2>3
<1>7. DOMAIN segs' = {} => next_offset = b0 + n
  <2>1. b0 + n # b0
    BY <1>2, <1>3 DEF Deleted
  <2> QED BY <1>2, <1>5, <2>1 DEF Deleted
<1>8. DOMAIN segs' # {} => Len(evicted') \in DOMAIN segs' /\ \A b \in DOMAIN segs' : Len(evicted') <= b
  BY <1>2, <1>6 DEF Deleted
<1>9. DOMAIN segs' = {} =>
         /\ next_offset' = Len(evicted')
         /\ Len(evicted') = IF watermark' # None THEN watermark' ELSE 0
  BY <1>1, <1>2, <1>7, LogAssumption DEF Deleted
<1> QED BY <1>4, <1>8, <1>9 DEF EvictedFits

\* open() removes no segment.
LEMMA OpenKeepsBases ==
    ASSUME LogInv, Open
    PROVE  DOMAIN segs' = DOMAIN segs /\ evicted' = evicted /\ watermark' = watermark
<1>1. evicted' = evicted /\ watermark' = watermark /\ DiskInv
  BY DEF Open, history, LogInv
<1>2. CASE Unindexed = {}
  BY <1>1, <1>2 DEF Open
<1>3. CASE Unindexed # {}
  <2>1. PICK a \in Unindexed : TRUE
    BY <1>3
  <2>2. Unindexed = {a} /\ Highest(Unindexed) = a
    BY <1>1, OpenSegmentIs
  <2>3. DOMAIN segs' = Indexed \cup {a}
    BY <1>3, <2>2 DEF Open
  <2> QED BY <1>1, <2>2, <2>3 DEF Indexed, Unindexed
<1> QED BY <1>2, <1>3

\* Every step keeps EvictedFits, ...
LEMMA EvictedStep ==
    ASSUME LogInv, TailInv, EvictedFits, [Next]_vars
    PROVE  EvictedFits'
<1>1. CASE ensure_active \/ EnsureActiveErr
  BY <1>1, EvictedCreated
<1>2. CASE delete_segment
  BY <1>2, EvictedDeleted
<1>3. CASE Open
  <2>1. DOMAIN segs' = DOMAIN segs /\ evicted' = evicted /\ watermark' = watermark
    BY <1>3, OpenKeepsBases
  <2>2. DOMAIN segs = {} => next_offset' = Len(evicted)
    BY <1>3 DEF Open, recoveredNext, EvictedFits
  <2> QED BY <2>1, <2>2 DEF EvictedFits
<1>4. CASE write_watermark
  <2>1. /\ segs' = segs /\ evicted' = evicted /\ watermark' = next_offset /\ up' = up /\ up
        /\ next_offset' = next_offset /\ next_offset # None
    BY <1>4, LogAssumption
    DEF write_watermark, At, memory, history, LogInv, MemoryInv, MemoryTypes
  <2> QED BY <2>1 DEF EvictedFits
<1>5. CASE CommitBatch
  <2>1. active # None /\ up
    BY <1>5 DEF CommitBatch, At, LogInv, CallInv, CallTypes, Writing
  <2>2. DOMAIN segs # {}
    BY <2>1, ActiveFacts
  <2>3. DOMAIN segs' = DOMAIN segs /\ watermark' = watermark /\ evicted' = evicted
    BY <1>5 DEF CommitBatch, StreamPosition, EndPosition, SetSlots
  <2> QED BY <2>2, <2>3, SameBases
<1>6. CASE Crash
  <2>0. DOMAIN scanned = DOMAIN segs
    BY <1>6, ScannedFits DEF Crash
  <2>1. DOMAIN segs' = DOMAIN segs /\ evicted' = evicted /\ watermark' = watermark /\ ~up'
    BY <1>6, <2>0 DEF Crash
  <2> QED BY <2>1, SameBases
<1>7. CASE UNCHANGED <<disk, up, next_offset, evicted>>
  BY <1>7, SameBases DEF disk
<1>8. CASE WriteErr \/ SyncErr \/ RollErr
  <2>1. UNCHANGED <<idx, watermark, up, memory, evicted>> /\ DOMAIN segs' = DOMAIN segs
    BY <1>8 DEF WriteErr, SyncErr, RollErr, SetSlots
  <2> QED BY <2>1, SameBases DEF memory
<1>9. CASE write_record \/ sync_all \/ RollSync \/ WriteSentinel \/ SyncSentinel \/ write_index
  <2>1. UNCHANGED <<watermark, up, memory, history>> /\ DOMAIN segs' = DOMAIN segs
    BY <1>9 DEF write_record, sync_all, RollSync, WriteSentinel, SyncSentinel, write_index, SetSlots
  <2> QED BY <2>1, SameBases DEF memory, history
<1>10. CASE \/ CloseSegment \/ RetentionDone \/ PositionErr \/ WatermarkErr \/ DeleteErr \/ Cancel
            \/ \E n \in Sizes : AppendCall(n)
            \/ UNCHANGED vars
  <2>1. UNCHANGED <<disk, up, next_offset, evicted>>
    BY <1>10
    DEF CloseSegment, RetentionDone, PositionErr, WatermarkErr, DeleteErr, Cancel, AppendCall, vars,
        memory, history
  <2> QED BY <1>7, <2>1
<1> QED BY <1>1, <1>2, <1>3, <1>4, <1>5, <1>6, <1>8, <1>9, <1>10 DEF Next, QuietStep, Progress

\* It holds in the empty directory ...
LEMMA EvictedInit ==
    ASSUME Init
    PROVE  LogInv /\ TailInv /\ EvictedFits
<1>1. DOMAIN segs = {} /\ evicted = <<>> /\ watermark = None /\ ~up
  BY DEF Init
<1>2. DOMAIN evicted = {} /\ Len(evicted) = 0
  BY <1>1
<1>3. TailInv
  BY DEF Init, TailInv
<1> QED BY <1>1, <1>2, <1>3, LogInvInit DEF EvictedFits

\* ... and so always, and LogInv with it.
LEMMA EvictedAlways == Spec => [](LogInv /\ TailInv /\ EvictedFits)
<1>1. Init => LogInv /\ TailInv /\ EvictedFits
  BY EvictedInit
<1>2. LogInv /\ TailInv /\ EvictedFits /\ [Next]_vars => LogInv' /\ TailInv' /\ EvictedFits'
  BY LogInvStep, TailStep, EvictedStep
<1> QED BY <1>1, <1>2, PTL DEF Spec

-----------------------------------------------------------------------------
\* The records of segments that follow each other.

\* The records of one segment.
LEMMA RecordsAre ==
    ASSUME DiskTypes, NEW b \in DOMAIN segs, NEW n, Good(segs[b].slots, b, n)
    PROVE  /\ Records(b, n) \in Seq(Record) /\ Len(Records(b, n)) = n /\ n \in Nat /\ b \in Nat
           /\ \A k \in 1..n : Records(b, n)[k] = segs[b].slots[k] /\ Records(b, n)[k].off = b + k - 1
<1> DEFINE slots == segs[b].slots
<1>1. slots \in Seq(Slot) /\ b \in Nat /\ Len(slots) \in Nat
  BY LenProperties DEF DiskTypes, File
<1>2. n \in 0..Len(slots) /\ n \in Nat /\ \A i \in 1..n : slots[i] \in Record /\ slots[i].off = b + i - 1
  BY <1>1 DEF Good
<1> HIDE DEF slots
<1>3. Len(SubSeq(slots, 1, n)) = n
  BY <1>1, <1>2, CutGood
<1>4. /\ SubSeq(slots, 1, n) \in Seq(Record)
      /\ \A i \in 1..(n - 1 + 1) : SubSeq(slots, 1, n)[i] = slots[1 + i - 1]
  <2>1. n \in Int /\ 1 \in Int
    BY <1>2
  <2> QED BY <1>2, <2>1, SubSeqProperties
<1>5. \A i \in 1..n : i \in 1..(n - 1 + 1) /\ 1 + i - 1 = i
  BY <1>2
<1>6. \A i \in 1..n : SubSeq(slots, 1, n)[i] = slots[i]
  BY <1>4, <1>5
<1> QED BY <1>1, <1>2, <1>3, <1>4, <1>6 DEF Records, slots

\* The records a reader finds in the segment that starts at b.
held(b) ==
    IF ~up THEN recordsIn(b)
    ELSE IF isActive(b) THEN active.n
    ELSE IF b \in DOMAIN idx THEN idx[b] ELSE 0

\* base lists every segment that holds records, cnt how many.
Lists(base, cnt, n) ==
    /\ \A i \in 1..n : cnt[i] = held(base[i])
    /\ \A b \in DOMAIN segs : (\E i \in 1..n : base[i] = b) \/ held(b) = 0

\* base and cnt are segments that follow each other, from the first one on.
Chain(base, cnt, n, end) ==
    /\ Lists(base, cnt, n)
    /\ n \in Nat \ {0} /\ base \in [1..n -> Nat] /\ cnt \in [1..n -> Nat]
    /\ base[1] = Len(evicted)
    /\ \A i \in 1..n : /\ base[i] \in DOMAIN segs /\ base[1] <= base[i]
                       /\ Good(segs[base[i]].slots, base[i], cnt[i])
                       /\ i + 1 \in 1..n => base[i + 1] = base[i] + cnt[i]
    /\ base[n] + cnt[n] = end

\* s is the log from offset 0 up to the given end.
Positions(s, end) ==
    s \in Seq(Record) /\ Len(s) = end /\ \A j \in 1..Len(s) : s[j].off = j - 1

\* It holds what was evicted, then every record of every segment at its place.
Contents(s) ==
    /\ Len(evicted) <= Len(s) /\ \A j \in 1..Len(evicted) : s[j] = evicted[j]
    /\ \A b \in DOMAIN segs : \A k \in 1..held(b) : /\ b + k \in (Len(evicted) + 1)..Len(s)
                                                  /\ s[b + k] = segs[b].slots[k]
    /\ \A j \in 1..Len(s) :
         j <= Len(evicted) \/ \E b \in DOMAIN segs : \E k \in 1..held(b) : j = b + k

Logs(s, end) == Positions(s, end) /\ Contents(s)

\* Segments that follow each other make up the log.
LEMMA ChainView ==
    ASSUME LogInv, EvictedFits, NEW base, NEW cnt, NEW n, NEW end, Chain(base, cnt, n, end),
           NEW R, R = [i \in 1..n |-> Records(base[i], cnt[i])]
    PROVE  Logs(evicted \o FlattenSeq(R), end)
<1> DEFINE e == Len(evicted)
           start == [i \in 1..n |-> base[i] - e]
           F == FlattenSeq(R)
<1>1. /\ n \in Nat \ {0} /\ base \in [1..n -> Nat] /\ cnt \in [1..n -> Nat] /\ base[1] = e
      /\ evicted \in Seq(Record) /\ e \in Nat /\ DiskTypes /\ 1 \in 1..n /\ n \in 1..n
      /\ Len(evicted) = e
  BY LenProperties DEF Chain, LogInv, HistoryTypes, DiskInv
<1> HIDE DEF e
<1>2. \A i \in 1..n :
        /\ R[i] \in Seq(Record) /\ Len(R[i]) = cnt[i] /\ cnt[i] \in Nat /\ base[i] \in Nat
        /\ e <= base[i]
        /\ \A k \in 1..cnt[i] : R[i][k] = segs[base[i]].slots[k] /\ R[i][k].off = base[i] + k - 1
  <2> SUFFICES ASSUME NEW i \in 1..n
               PROVE  /\ Records(base[i], cnt[i]) \in Seq(Record)
                      /\ Len(Records(base[i], cnt[i])) = cnt[i] /\ cnt[i] \in Nat /\ base[i] \in Nat
                      /\ e <= base[i]
                      /\ \A k \in 1..cnt[i] : /\ Records(base[i], cnt[i])[k] = segs[base[i]].slots[k]
                                              /\ Records(base[i], cnt[i])[k].off = base[i] + k - 1
    OBVIOUS
  <2>1. /\ base[i] \in DOMAIN segs /\ Good(segs[base[i]].slots, base[i], cnt[i])
        /\ base[1] <= base[i]
    BY DEF Chain
  <2> QED BY <1>1, <2>1, RecordsAre
<1>3. R \in [1..n -> Seq(Record)]
  BY <1>2
<1>4. \A i \in 1..n : start[i] = base[i] - e /\ start[i] \in Nat /\ start[i] + e = base[i]
  <2> SUFFICES ASSUME NEW i \in 1..n
               PROVE  base[i] - e \in Nat /\ (base[i] - e) + e = base[i]
    OBVIOUS
  <2>1. base[i] \in Nat /\ e <= base[i]
    BY <1>2
  <2> QED BY <1>1, <2>1
<1>5. start \in [1..n -> Nat] /\ start[1] = 0
  <2>1. start \in [1..n -> Nat]
    BY <1>4
  <2>2. start[1] = e - e /\ e - e = 0
    BY <1>1, <1>4
  <2> QED BY <2>1, <2>2
<1> HIDE DEF start
<1>6. \A i \in 1..n : i + 1 \in 1..n => start[i + 1] = start[i] + Len(R[i])
  <2> SUFFICES ASSUME NEW i \in 1..n, i + 1 \in 1..n
               PROVE  start[i + 1] = start[i] + Len(R[i])
    OBVIOUS
  <2>1. base[i + 1] = base[i] + cnt[i]
    BY DEF Chain
  <2>2. Len(R[i]) = cnt[i] /\ cnt[i] \in Nat /\ base[i] \in Nat
    BY <1>2
  <2>3. start[i + 1] = base[i + 1] - e /\ start[i] = base[i] - e
    BY <1>4
  <2> QED BY <1>1, <2>1, <2>2, <2>3, SMTT(30)
<1>7. Whole(F, R, start, Record, n)
  <2>1. Parts(R, start, Record, n)
    BY <1>1, <1>3, <1>5, <1>6 DEF Parts
  <2> QED BY <2>1, FlattenAt
<1> HIDE DEF F
<1>8. start[n] + Len(R[n]) = end - e /\ end \in Nat /\ Len(F) = end - e /\ Len(F) \in Nat
  <2>1. base[n] + cnt[n] = end
    BY DEF Chain
  <2>2. Len(R[n]) = cnt[n] /\ start[n] = base[n] - e /\ cnt[n] \in Nat /\ base[n] \in Nat /\ start[n] \in Nat
    BY <1>1, <1>2, <1>4
  <2> QED BY <1>1, <1>7, <2>1, <2>2, SMTT(30) DEF Whole
<1> DEFINE full == evicted \o F
<1>9. /\ full \in Seq(Record) /\ Len(full) = e + Len(F)
      /\ \A i \in 1..e : full[i] = evicted[i]
      /\ \A k \in 1..Len(F) : full[e + k] = F[k]
  <2>1. evicted \in Seq(Record) /\ F \in Seq(Record) /\ e \in Nat /\ Len(evicted) = e
    BY <1>1, <1>7 DEF Whole
  <2> QED BY <2>1, ConcatAt
<1> HIDE DEF full
<1>10. ASSUME NEW i \in 1..n, NEW k \in 1..cnt[i]
       PROVE  full[base[i] + k] = R[i][k] /\ base[i] + k \in (e + 1)..Len(full)
  <2>1. Len(R[i]) = cnt[i] /\ cnt[i] \in Nat /\ start[i] \in Nat /\ base[i] = e + start[i]
    <3>1. Len(R[i]) = cnt[i] /\ cnt[i] \in Nat
      BY <1>2
    <3>2. start[i] \in Nat /\ start[i] + e = base[i]
      BY <1>4
    <3> QED BY <1>1, <3>1, <3>2
  <2>2. k \in 1..Len(R[i]) /\ k \in Nat /\ k >= 1
    BY <2>1
  <2>3. start[i] + k <= Len(F) /\ F[start[i] + k] = R[i][k]
    BY <1>7, <2>2 DEF Whole
  <2>4. start[i] + k \in 1..Len(F)
    BY <1>8, <2>1, <2>2, <2>3
  <2>5. base[i] + k = e + (start[i] + k)
    BY <1>1, <2>1, <2>2, SMTT(30)
  <2>6. base[i] + k \in (e + 1)..Len(full)
    <3> DEFINE l == start[i] + k
    <3>1. e \in Nat /\ Len(F) \in Nat /\ Len(full) = e + Len(F) /\ l \in 1..Len(F)
      BY <1>1, <1>8, <1>9, <2>4, Zenon
    <3> HIDE DEF l
    <3>2. e + l \in (e + 1)..Len(full)
      BY <3>1
    <3> QED BY <2>5, <3>2, Zenon DEF l
  <2> QED BY <1>9, <2>3, <2>4, <2>5, <2>6
<1>11. \A i \in 1..n : \A k \in 1..cnt[i] : full[base[i] + k] = segs[base[i]].slots[k]
  <2> SUFFICES ASSUME NEW i \in 1..n, NEW k \in 1..cnt[i]
               PROVE  full[base[i] + k] = segs[base[i]].slots[k]
    OBVIOUS
  <2>1. full[base[i] + k] = R[i][k]
    BY <1>10, Zenon
  <2>2. R[i][k] = segs[base[i]].slots[k]
    BY <1>2, Zenon
  <2> QED BY <2>1, <2>2
<1>12. \A j \in 1..Len(full) :
         /\ full[j].off = j - 1
         /\ j <= e \/ \E i \in 1..n : \E k \in 1..cnt[i] : j = base[i] + k
  <2> SUFFICES ASSUME NEW j \in 1..Len(full)
               PROVE  /\ full[j].off = j - 1
                      /\ j <= e \/ \E i \in 1..n : \E k \in 1..cnt[i] : j = base[i] + k
    OBVIOUS
  <2>1. j \in Nat /\ j >= 1 /\ j <= e + Len(F)
    BY <1>1, <1>8, <1>9
  <2>2. CASE j <= e
    <3>1. j \in 1..e /\ j \in DOMAIN evicted
      BY <1>1, <2>1, <2>2, LenProperties
    <3> QED BY <1>9, <2>2, <3>1 DEF EvictedFits
  <2>3. CASE j > e
    <3>1. j - e \in 1..(start[n] + Len(R[n]))
      BY <1>1, <1>8, <2>1, <2>3
    <3>2. PICK i \in 1..n : \E k \in 1..Len(R[i]) : j - e = start[i] + k
      BY <1>7, <3>1 DEF Whole
    <3>3. PICK k \in 1..Len(R[i]) : j - e = start[i] + k
      BY <3>2
    <3>4. Len(R[i]) = cnt[i] /\ cnt[i] \in Nat /\ start[i] \in Nat /\ base[i] = e + start[i] /\ base[i] \in Nat
      <4>1. Len(R[i]) = cnt[i] /\ cnt[i] \in Nat /\ base[i] \in Nat
        BY <1>2
      <4>2. start[i] \in Nat /\ start[i] + e = base[i]
        BY <1>4
      <4> QED BY <1>1, <4>1, <4>2
    <3>5. j = base[i] + k /\ k \in 1..cnt[i] /\ j - 1 = base[i] + k - 1
      <4>1. k \in 1..cnt[i] /\ k \in Nat
        BY <3>4
      <4> DEFINE b == base[i]
                 l == start[i]
      <4>2. j \in Nat /\ e \in Nat /\ l \in Nat /\ b \in Nat /\ b = e + l /\ j - e = l + k
        BY <1>1, <2>1, <3>3, <3>4, Zenon
      <4> HIDE DEF b, l
      <4>3. j = b + k /\ j - 1 = b + k - 1
        BY <4>1, <4>2
      <4> QED BY <4>1, <4>3 DEF b
    <3>6. full[base[i] + k] = R[i][k] /\ R[i][k].off = base[i] + k - 1
      BY <1>2, <1>10, <3>5
    <3> QED BY <3>5, <3>6
  <2> QED BY <1>1, <2>1, <2>2, <2>3
<1>13. Len(full) = end
  BY <1>1, <1>8, <1>9
<1>14. Positions(full, end)
  BY <1>9, <1>12, <1>13 DEF Positions
<1>15. /\ \A i \in 1..n : base[i] \in DOMAIN segs /\ cnt[i] = held(base[i])
       /\ \A b \in DOMAIN segs : (\E i \in 1..n : base[i] = b) \/ held(b) = 0
  BY DEF Chain, Lists
<1>16. ASSUME NEW b \in DOMAIN segs, NEW k \in 1..held(b)
       PROVE  b + k \in (e + 1)..Len(full) /\ full[b + k] = segs[b].slots[k]
  <2>1. held(b) # 0
    OBVIOUS
  <2>2. PICK i \in 1..n : base[i] = b
    BY <1>15, <2>1
  <2> QED BY <1>10, <1>11, <1>15, <2>2
<1>17. \A j \in 1..Len(full) :
         j <= e \/ \E b \in DOMAIN segs : \E k \in 1..held(b) : j = b + k
  <2> SUFFICES ASSUME NEW j \in 1..Len(full), ~(j <= e)
               PROVE  \E b \in DOMAIN segs : \E k \in 1..held(b) : j = b + k
    OBVIOUS
  <2>1. PICK i \in 1..n : \E k \in 1..cnt[i] : j = base[i] + k
    BY <1>12
  <2>2. base[i] \in DOMAIN segs /\ \E k \in 1..held(base[i]) : j = base[i] + k
    BY <1>15, <2>1
  <2> QED BY <2>2
<1>18. e <= Len(full)
  BY <1>1, <1>8, <1>9
<1>19. Contents(full)
  BY <1>9, <1>16, <1>17, <1>18 DEF Contents, e
<1> QED BY <1>14, <1>19 DEF Logs, full, F

-----------------------------------------------------------------------------
\* The segments a reader goes through follow each other.

AtEnd(b) == \A o \in DOMAIN segs : o <= b

(***************************************************************************)
(* base lists segments in ascending order, cnt the records of each; a      *)
(* segment that is left out is the last one.                               *)
(***************************************************************************)
Listing(base, cnt, n, end) ==
    /\ Lists(base, cnt, n)
    /\ n \in Nat \ {0} /\ base \in [1..n -> DOMAIN segs] /\ cnt \in [1..n -> Nat]
    /\ \A i, j \in 1..n : i < j => base[i] < base[j]
    /\ \A i \in 1..n : /\ Good(segs[base[i]].slots, base[i], cnt[i])
                       /\ i + 1 \in 1..n => base[i] \in Indexed /\ cnt[i] = idx[base[i]]
    /\ \A b \in DOMAIN segs : (\E i \in 1..n : base[i] = b) \/ AtEnd(b)
    /\ base[n] + cnt[n] = end

\* Such a list has no gap.
LEMMA ListingIsChain ==
    ASSUME LogInv, EvictedFits, NEW base, NEW cnt, NEW n, NEW end, Listing(base, cnt, n, end)
    PROVE  Chain(base, cnt, n, end)
<1>1. /\ Lists(base, cnt, n)
      /\ n \in Nat \ {0} /\ base \in [1..n -> DOMAIN segs] /\ cnt \in [1..n -> Nat]
      /\ \A i, j \in 1..n : i < j => base[i] < base[j]
      /\ \A i \in 1..n : /\ Good(segs[base[i]].slots, base[i], cnt[i])
                         /\ i + 1 \in 1..n => base[i] \in Indexed /\ cnt[i] = idx[base[i]]
      /\ \A b \in DOMAIN segs : (\E i \in 1..n : base[i] = b) \/ AtEnd(b)
      /\ base[n] + cnt[n] = end
  BY DEF Listing
<1>2. DOMAIN segs \subseteq Nat /\ NoOverlap /\ Linked
  BY DEF LogInv, DiskInv, DiskTypes
<1>3. base \in [1..n -> Nat] /\ \A i \in 1..n : base[i] \in DOMAIN segs /\ base[i] \in Nat /\ cnt[i] \in Nat
  BY <1>1, <1>2
<1>4. 1 \in 1..n /\ \A i \in 1..n : i = 1 \/ 1 < i
  BY <1>1
<1>5. \A i \in 1..n : base[1] <= base[i]
  BY <1>1, <1>3, <1>4
<1>6. base[1] = Len(evicted)
  <2> DEFINE e == Len(evicted)
  <2>1. e \in DOMAIN segs /\ e <= base[1]
    BY <1>3, <1>4 DEF EvictedFits
  <2> HIDE DEF e
  <2>2. base[1] <= e
    <3>1. CASE \E i \in 1..n : base[i] = e
      BY <1>5, <3>1
    <3>2. CASE AtEnd(e)
      BY <1>3, <1>4, <3>2 DEF AtEnd
    <3> QED BY <1>1, <2>1, <3>1, <3>2
  <2>3. e \in Nat /\ base[1] \in Nat
    BY <1>2, <1>3, <1>4, <2>1
  <2> QED BY <2>1, <2>2, <2>3 DEF e
<1>7. ASSUME NEW i \in 1..n, i + 1 \in 1..n
      PROVE  base[i + 1] = base[i] + cnt[i]
  <2> DEFINE b == base[i]
             o == base[i + 1]
             x == b + idx[b]
  <2>1. b \in Indexed /\ cnt[i] = idx[b] /\ b < o /\ o \in DOMAIN segs /\ b \in Nat /\ o \in Nat
    <3>1. i < i + 1
      BY <1>1
    <3> QED BY <1>1, <1>3, <1>7, <3>1
  <2>2. idx[b] \in Nat /\ idx[b] # 0 /\ b \in DOMAIN idx
    BY <2>1 DEF LogInv, DiskInv, DiskTypes, Indexed
  <2> HIDE DEF b, o
  <2>3. x \in DOMAIN segs /\ x <= o
    BY <1>2, <2>1, <2>2 DEF Linked, NoOverlap
  <2>4. x \in Nat /\ b < x
    BY <2>1, <2>2
  <2> HIDE DEF x
  <2>5. o <= x
    <3>1. CASE AtEnd(x)
      BY <2>1, <3>1 DEF AtEnd
    <3>2. CASE ~AtEnd(x)
      <4>1. PICK j \in 1..n : base[j] = x
        BY <1>1, <2>3, <3>2
      <4>2. ~(j < i) /\ j # i
        <5>1. j < i => x < b
          BY <1>1, <4>1 DEF b
        <5>2. j = i => x = b
          BY <4>1 DEF b
        <5> QED BY <2>1, <2>4, <5>1, <5>2
      <4>3. j = i + 1 \/ i + 1 < j
        BY <1>1, <4>2
      <4>4. CASE j = i + 1
        <5>1. x = o
          BY <4>1, <4>4 DEF o
        <5> QED BY <2>1, <5>1
      <4>5. CASE i + 1 < j
        <5>1. o < x
          BY <1>1, <1>7, <4>1, <4>5 DEF o
        <5> QED BY <2>1, <2>4, <5>1
      <4> QED BY <4>3, <4>4, <4>5
    <3> QED BY <3>1, <3>2
  <2>6. o = x
    BY <2>1, <2>3, <2>4, <2>5
  <2> QED BY <2>1, <2>6 DEF o, x, b
<1> QED BY <1>1, <1>3, <1>5, <1>6, <1>7 DEF Chain

\* While the log is down, open() would list every segment.
LEMMA DiskListing ==
    ASSUME LogInv, ~up, DOMAIN segs # {}, NEW base, base = ascending(DOMAIN segs),
           NEW cnt, cnt = [i \in DOMAIN base |-> recordsIn(base[i])]
    PROVE  \E n : DOMAIN base = 1..n /\ Listing(base, cnt, n, recoveredNext)
<1> DEFINE n == Cardinality(DOMAIN segs)
<1>1. DOMAIN segs \in SUBSET Nat /\ IsFiniteSet(DOMAIN segs) /\ DiskTypes
  BY DEF LogInv, DiskInv, DiskTypes
<1>2. /\ base \in [1..n -> DOMAIN segs] /\ DOMAIN base = 1..n
      /\ \A b \in DOMAIN segs : \E i \in 1..n : base[i] = b
      /\ \A i, j \in 1..n : i < j => base[i] < base[j]
  BY <1>1, AscendingExists DEF IsAscending
<1>3. n \in Nat \ {0}
  BY <1>1, FS_CardinalityType, FS_EmptySet
<1> HIDE DEF n
<1>4. \A b \in DOMAIN segs : Good(segs[b].slots, b, recordsIn(b)) /\ recordsIn(b) \in Nat
  <2> SUFFICES ASSUME NEW b \in DOMAIN segs
               PROVE  Good(segs[b].slots, b, recordsIn(b)) /\ recordsIn(b) \in Nat
    OBVIOUS
  <2>1. CASE b \in DOMAIN idx
    BY <2>1 DEF LogInv, DiskInv, IndexFits, Indexed, DiskTypes, recordsIn
  <2>2. CASE b \notin DOMAIN idx
    BY <1>1, <2>2, RecoveredGood DEF recordsIn
  <2> QED BY <2>1, <2>2
<1>5. \A i \in 1..n : base[i] \in DOMAIN segs /\ base[i] \in Nat /\ cnt[i] = recordsIn(base[i])
  BY <1>1, <1>2
<1>6. cnt \in [1..n -> Nat]
  BY <1>2, <1>4
<1>7. ASSUME NEW i \in 1..n, i + 1 \in 1..n
      PROVE  base[i] \in Indexed /\ cnt[i] = idx[base[i]]
  <2>1. i < i + 1 /\ base[i] < base[i + 1]
    BY <1>2, <1>3, <1>7
  <2>2. base[i] \notin Unindexed
    <3>1. base[i + 1] \in DOMAIN segs /\ ~(base[i + 1] <= base[i])
      BY <1>5, <1>7, <2>1
    <3> QED BY <3>1 DEF LogInv, DiskInv, OneOpen
  <2>3. base[i] \in DOMAIN idx /\ base[i] \in DOMAIN segs
    BY <1>5, <2>2 DEF Unindexed
  <2> QED BY <1>5, <2>3 DEF Indexed, recordsIn
<1>8. base[n] + cnt[n] = recoveredNext
  <2>1. n \in 1..n /\ \A i \in 1..n : i = n \/ i < n
    BY <1>3
  <2>2. \A b \in DOMAIN segs : b <= base[n]
    <3> SUFFICES ASSUME NEW b \in DOMAIN segs PROVE b <= base[n]
      OBVIOUS
    <3>1. PICK i \in 1..n : base[i] = b
      BY <1>2
    <3>2. i = n \/ base[i] < base[n]
      BY <1>2, <2>1
    <3> QED BY <1>5, <2>1, <3>1, <3>2
  <2>3. Highest(DOMAIN segs) = base[n]
    BY <1>1, <1>5, <2>1, <2>2, HighestIs
  <2> QED BY <1>5, <2>1, <2>3 DEF recoveredNext
<1>9. Lists(base, cnt, n)
  BY <1>2, <1>5 DEF Lists, held
<1> QED BY <1>2, <1>3, <1>4, <1>5, <1>6, <1>7, <1>8, <1>9 DEF Listing

\* A segment that is not among the closed ones of an open log is the last one.
LEMMA NotClosed ==
    ASSUME LogInv, up, NEW b \in DOMAIN segs, \A i \in DOMAIN closed : closed[i].base # b
    PROVE  AtEnd(b)
<1>1. CASE b \in Indexed
  BY <1>1 DEF LogInv, MemoryInv, ClosedFits, ActiveFits, isActive, AtEnd
<1>2. CASE b \notin Indexed
  <2>1. b \in Unindexed
    BY <1>2 DEF Indexed, Unindexed
  <2> QED BY <2>1 DEF LogInv, DiskInv, OneOpen, AtEnd
<1> QED BY <1>1, <1>2

\* The last closed segment of an open log ends where the active one begins, or
\* at the next offset.
LEMMA ClosedEnd ==
    ASSUME LogInv, up, active = None \/ active.n = 0, closed # <<>>
    PROVE  closed[Len(closed)].base + idx[closed[Len(closed)].base] = next_offset
<1> DEFINE m == Len(closed)
           b == closed[m].base
           x == b + idx[b]
<1>1. closed \in Seq(ClosedSegment) /\ ClosedFits /\ NoneActive /\ ActiveFits
  BY DEF LogInv, MemoryInv, MemoryTypes
<1>2. m \in Nat /\ m # 0 /\ DOMAIN closed = 1..m
  BY <1>1, LenProperties, EmptySeq
<1> HIDE DEF m
<1>3. m \in 1..m /\ \A i \in 1..m : i = m \/ i < m
  BY <1>2
<1>4. b \in Indexed /\ ~isActive(b)
  BY <1>1, <1>2, <1>3 DEF ClosedFits
<1>5. /\ b \in Nat /\ b \in DOMAIN segs /\ b \in DOMAIN idx /\ idx[b] \in Nat /\ idx[b] # 0
      /\ DOMAIN segs \subseteq Nat
  BY <1>4 DEF LogInv, DiskInv, DiskTypes, Indexed
<1>6. \A i \in 1..m : closed[i].base = b \/ closed[i].base < b
  BY <1>1, <1>2, <1>3 DEF ClosedFits
<1> HIDE DEF b
<1>7. x \in Nat /\ b < x
  BY <1>5
<1>8. \A i \in DOMAIN closed : closed[i].base # x
  BY <1>2, <1>5, <1>6, <1>7
<1>9. x \in DOMAIN segs => AtEnd(x)
  BY <1>8, NotClosed
<1>10. CASE active = None
  <2>1. x \in DOMAIN segs => x = next_offset
    <3> SUFFICES ASSUME x \in DOMAIN segs PROVE x = next_offset
      OBVIOUS
    <3>1. x \notin Indexed
      BY <1>1, <1>8, <1>10 DEF ClosedFits, isActive
    <3> QED BY <1>1, <1>10, <3>1 DEF NoneActive, Indexed, Unindexed
  <2>2. x \in DOMAIN segs \cup {next_offset}
    BY <1>1, <1>4, <1>10 DEF NoneActive
  <2> QED BY <2>1, <2>2 DEF b, m
<1>11. CASE active # None
  <2>1. /\ active.base \in DOMAIN segs /\ active.base = next_offset /\ b <= active.base
        /\ b # active.base /\ active.base \in Nat
    <3>1. /\ active.base \in DOMAIN segs /\ active.base + active.n = next_offset /\ b <= active.base
          /\ b # active.base
      BY <1>1, <1>4, <1>5, <1>11 DEF ActiveFits, isActive
    <3>2. active.base \in Nat /\ active.n = 0
      BY <1>5, <1>11, <3>1
    <3> QED BY <3>1, <3>2
  <2>2. x \in DOMAIN segs /\ x <= active.base
    <3>1. b < active.base
      BY <1>5, <2>1
    <3> QED BY <1>4, <1>5, <2>1, <3>1 DEF LogInv, DiskInv, Linked, NoOverlap
  <2>3. active.base <= x
    BY <1>9, <2>1, <2>2 DEF AtEnd
  <2>4. x = active.base
    BY <1>7, <2>1, <2>2, <2>3
  <2> QED BY <2>1, <2>4 DEF b, m
<1> QED BY <1>10, <1>11

\* What the closed segments of an open log are.
LEMMA ClosedAre ==
    ASSUME LogInv, up
    PROVE  /\ closed \in Seq(ClosedSegment) /\ Len(closed) \in Nat /\ DOMAIN closed = 1..Len(closed)
           /\ \A i \in 1..Len(closed) :
                /\ closed[i].base \in DOMAIN segs /\ closed[i].base \in Nat
                /\ closed[i].base \in Indexed /\ ~isActive(closed[i].base)
                /\ countIn(closed[i]) = idx[closed[i].base] /\ countIn(closed[i]) \in Nat
                /\ Good(segs[closed[i].base].slots, closed[i].base, countIn(closed[i]))
           /\ \A i, j \in 1..Len(closed) : i < j => closed[i].base < closed[j].base
<1>1. closed \in Seq(ClosedSegment) /\ ClosedFits
  BY DEF LogInv, MemoryInv, MemoryTypes
<1>2. Len(closed) \in Nat /\ DOMAIN closed = 1..Len(closed)
  BY <1>1, LenProperties
<1>3. ASSUME NEW i \in 1..Len(closed)
      PROVE  /\ closed[i].base \in DOMAIN segs /\ closed[i].base \in Nat
             /\ closed[i].base \in Indexed /\ ~isActive(closed[i].base)
             /\ countIn(closed[i]) = idx[closed[i].base] /\ countIn(closed[i]) \in Nat
             /\ Good(segs[closed[i].base].slots, closed[i].base, countIn(closed[i]))
  <2> DEFINE b == closed[i].base
  <2>1. b \in Indexed /\ ~isActive(b) /\ closed[i].last = b + idx[b] - 1
    BY <1>1, <1>2 DEF ClosedFits
  <2>2. b \in Nat /\ idx[b] \in Nat /\ Good(segs[b].slots, b, idx[b]) /\ b \in DOMAIN segs
    BY <2>1 DEF LogInv, DiskInv, DiskTypes, IndexFits, Indexed
  <2>3. countIn(closed[i]) = idx[b]
    <3>1. (b + idx[b] - 1) - b + 1 = idx[b]
      BY <2>2
    <3> QED BY <2>1, <3>1 DEF countIn
  <2> QED BY <2>1, <2>2, <2>3
<1> QED BY <1>1, <1>2, <1>3 DEF ClosedFits

\* The segments a reader of an open log goes through.
readBase == [i \in DOMAIN readable |-> readable[i].base]
readCount == [i \in DOMAIN readable |-> countIn(readable[i])]

\* Without records in an active segment, these are the closed ones, ...
LEMMA ClosedListing ==
    ASSUME LogInv, up, active = None \/ active.n = 0
    PROVE  /\ readable = closed /\ Len(readable) \in Nat /\ DOMAIN readable = 1..Len(readable)
           /\ readable # <<>> => Listing(readBase, readCount, Len(readable), next_offset)
<1>1. closed \in Seq(ClosedSegment) /\ Len(closed) \in Nat /\ DOMAIN closed = 1..Len(closed)
  BY ClosedAre
<1>2. readable = closed
  <2>1. readable = closed \o <<>>
    <3>1. ~(active # None /\ active.n > 0)
      OBVIOUS
    <3> QED BY <3>1, Zenon DEF readable
  <2> QED BY <1>1, <2>1, ConcatEmptySeq
<1>3. ASSUME closed # <<>> PROVE Listing(readBase, readCount, Len(readable), next_offset)
  <2> DEFINE n == Len(closed)
  <2>1. n \in Nat \ {0} /\ n \in 1..n
    BY <1>1, <1>3, EmptySeq
  <2>2. \A i \in 1..n : /\ readBase[i] = closed[i].base /\ readBase[i] \in DOMAIN segs
                        /\ readBase[i] \in Indexed
                        /\ readCount[i] = idx[readBase[i]] /\ readCount[i] \in Nat
                        /\ Good(segs[readBase[i]].slots, readBase[i], readCount[i])
    BY <1>1, <1>2, ClosedAre DEF readBase, readCount
  <2>3. DOMAIN readBase = 1..n /\ DOMAIN readCount = 1..n
    BY <1>1, <1>2 DEF readBase, readCount
  <2>4. readBase \in [1..n -> DOMAIN segs] /\ readCount \in [1..n -> Nat]
    BY <2>2, <2>3 DEF readBase, readCount
  <2>5. \A i, j \in 1..n : i < j => readBase[i] < readBase[j]
    BY <2>2, ClosedAre
  <2>6. \A b \in DOMAIN segs : (\E i \in 1..n : readBase[i] = b) \/ AtEnd(b)
    BY <1>1, <2>2, NotClosed
  <2>7. readBase[n] + readCount[n] = next_offset
    BY <1>3, <2>1, <2>2, ClosedEnd
  <2> HIDE DEF n
  <2>8. Lists(readBase, readCount, n)
    <3>1. \A i \in 1..n : readBase[i] \in DOMAIN idx /\ ~isActive(readBase[i])
      BY <2>2, ClosedAre DEF Indexed, n
    <3>2. \A i \in 1..n : readCount[i] = held(readBase[i])
      BY <2>2, <3>1 DEF held
    <3>3. ASSUME NEW b \in DOMAIN segs, \A i \in 1..n : readBase[i] # b PROVE held(b) = 0
      <4>1. b \in Indexed => isActive(b)
        BY <1>1, <2>2, <3>3 DEF LogInv, MemoryInv, ClosedFits, n
      <4>2. isActive(b) => active.n = 0
        BY DEF isActive
      <4> QED BY <4>1, <4>2 DEF held, Indexed
    <3> QED BY <3>2, <3>3 DEF Lists
  <2>9. Listing(readBase, readCount, n, next_offset)
    BY <2>1, <2>2, <2>4, <2>5, <2>6, <2>7, <2>8 DEF Listing
  <2> QED BY <1>2, <2>9 DEF n
<1> QED BY <1>1, <1>2, <1>3

\* ... otherwise the active one comes last.
LEMMA ActiveListing ==
    ASSUME LogInv, up, active # None, active.n > 0
    PROVE  /\ readable \in Seq(ClosedSegment) /\ readable # <<>>
           /\ Len(readable) \in Nat /\ DOMAIN readable = 1..Len(readable)
           /\ Listing(readBase, readCount, Len(readable), next_offset)
<1> DEFINE m == Len(closed)
           n == m + 1
           last == Closed(active.base, active.n)
<1>1. /\ closed \in Seq(ClosedSegment) /\ m \in Nat
      /\ active.base \in Nat /\ active.n \in Nat /\ active.base \in DOMAIN segs
      /\ Good(segs[active.base].slots, active.base, active.n)
      /\ active.base + active.n = next_offset
  BY ClosedAre, ActiveFacts DEF file
<1>2. last \in ClosedSegment /\ last.base = active.base /\ countIn(last) = active.n
  BY <1>1 DEF Closed, ClosedSegment, countIn
<1>3. readable = Append(closed, last)
  BY <1>1, <1>2, AppendIsConcat DEF readable
<1> HIDE DEF last
<1>4. /\ readable \in Seq(ClosedSegment) /\ readable # <<>> /\ Len(readable) = n
      /\ \A i \in 1..m : readable[i] = closed[i]
      /\ readable[n] = last
  BY <1>1, <1>2, <1>3, AppendProperties
<1> HIDE DEF m
<1>5. n \in Nat \ {0} /\ n \in 1..n /\ \A i \in 1..n : i = n \/ (i \in 1..m /\ i < n)
  BY <1>1
<1>6. DOMAIN readable = 1..n /\ DOMAIN readBase = 1..n /\ DOMAIN readCount = 1..n
  BY <1>4, LenProperties DEF readBase, readCount
<1>7. \A i \in 1..m : i \in 1..n
  BY <1>1
<1> HIDE DEF n
<1>8. \A i \in 1..m : /\ readBase[i] = closed[i].base /\ readBase[i] \in DOMAIN segs
                      /\ readBase[i] \in Indexed /\ ~isActive(readBase[i]) /\ readBase[i] \in Nat
                      /\ readCount[i] = idx[readBase[i]] /\ readCount[i] \in Nat
                      /\ Good(segs[readBase[i]].slots, readBase[i], readCount[i])
  BY <1>4, <1>6, <1>7, ClosedAre DEF readBase, readCount, m
<1>9. readBase[n] = active.base /\ readCount[n] = active.n
  BY <1>2, <1>4, <1>5, <1>6 DEF readBase, readCount
<1>10. \A i \in 1..n : readBase[i] \in DOMAIN segs /\ readCount[i] \in Nat
  BY <1>1, <1>5, <1>8, <1>9
<1>11. readBase \in [1..n -> DOMAIN segs] /\ readCount \in [1..n -> Nat]
  BY <1>6, <1>10 DEF readBase, readCount
<1>12. ASSUME NEW i \in 1..n, NEW j \in 1..n, i < j PROVE readBase[i] < readBase[j]
  <2>1. i \in 1..m
    <3>1. i # n
      BY <1>1, <1>5, <1>12
    <3> QED BY <1>5, <3>1
  <2>2. CASE j = n
    <3>1. readBase[i] <= active.base /\ readBase[i] # active.base
      BY <1>8, <2>1 DEF LogInv, MemoryInv, ActiveFits, isActive
    <3> QED BY <1>1, <1>8, <1>9, <2>1, <2>2, <3>1
  <2>3. CASE j # n
    <3>1. j \in 1..m
      BY <1>5, <2>3
    <3> QED BY <1>8, <1>12, <2>1, <3>1, ClosedAre DEF m
  <2> QED BY <2>2, <2>3
<1>13. \A b \in DOMAIN segs : (\E i \in 1..n : readBase[i] = b) \/ AtEnd(b)
  BY <1>7, <1>8, ClosedAre, NotClosed DEF m
<1>14. ASSUME NEW i \in 1..n
       PROVE  /\ Good(segs[readBase[i]].slots, readBase[i], readCount[i])
              /\ i + 1 \in 1..n => readBase[i] \in Indexed /\ readCount[i] = idx[readBase[i]]
  <2>1. CASE i = n
    <3>1. i + 1 \notin 1..n
      BY <1>5, <2>1
    <3> QED BY <1>1, <1>9, <2>1, <3>1
  <2>2. CASE i # n
    BY <1>5, <1>8, <2>2
  <2> QED BY <2>1, <2>2
<1>15. Lists(readBase, readCount, n)
  <2>1. \A i \in 1..m : readCount[i] = held(readBase[i])
    BY <1>8 DEF held, Indexed
  <2>2. readCount[n] = held(readBase[n])
    BY <1>9 DEF held, isActive
  <2>3. \A i \in 1..n : readCount[i] = held(readBase[i])
    BY <1>5, <2>1, <2>2
  <2>4. ASSUME NEW b \in DOMAIN segs, \A i \in 1..n : readBase[i] # b PROVE held(b) = 0
    <3>1. ~isActive(b)
      BY <1>5, <1>9, <2>4 DEF isActive
    <3>2. b \notin Indexed
      BY <1>7, <1>8, <2>4, <3>1, ClosedAre, SMTT(30) DEF LogInv, MemoryInv, ClosedFits, m
    <3> QED BY <3>1, <3>2 DEF held, Indexed
  <2> QED BY <2>3, <2>4 DEF Lists
<1>16. Listing(readBase, readCount, n, next_offset)
  BY <1>1, <1>5, <1>9, <1>11, <1>12, <1>13, <1>14, <1>15 DEF Listing
<1> QED BY <1>4, <1>5, <1>6, <1>16

\* While the log is open, a reader goes through every record below the next offset.
LEMMA MemoryListing ==
    ASSUME LogInv, up
    PROVE  /\ readable \in Seq(ClosedSegment)
           /\ Len(readable) \in Nat /\ DOMAIN readable = 1..Len(readable)
           /\ readable # <<>> => Listing(readBase, readCount, Len(readable), next_offset)
           /\ readable = <<>> => closed = <<>> /\ (active = None \/ active.n = 0)
<1>1. active = None \/ (active # None /\ active.n \in Nat)
  BY DEF LogInv, MemoryInv, MemoryTypes, ActiveSegment
<1>2. CASE active = None \/ active.n = 0
  BY <1>2, ClosedListing, ClosedAre
<1>3. CASE active # None /\ active.n > 0
  BY <1>3, ActiveListing
<1> QED BY <1>1, <1>2, <1>3

\* With nothing to read, everything up to the next offset was evicted.
LEMMA NothingReadable ==
    ASSUME LogInv, EvictedFits, up, closed = <<>>, active = None \/ active.n = 0
    PROVE  next_offset = Len(evicted)
<1>1. CASE DOMAIN segs = {}
  BY <1>1 DEF EvictedFits
<1>2. CASE DOMAIN segs # {}
  <2>1. Len(evicted) \in DOMAIN segs
    BY <1>2 DEF EvictedFits
  <2>2. AtEnd(Len(evicted)) /\ (Len(evicted) \in Indexed => isActive(Len(evicted)))
    <3>1. DOMAIN closed = {}
      OBVIOUS
    <3> QED BY <2>1, <3>1, NotClosed DEF LogInv, MemoryInv, ClosedFits
  <2>3. CASE active = None
    <3>1. Len(evicted) \in Unindexed
      BY <2>1, <2>2, <2>3 DEF isActive, Indexed, Unindexed
    <3> QED BY <2>3, <3>1 DEF LogInv, MemoryInv, NoneActive
  <2>4. CASE active # None
    <3>1. /\ active.base \in DOMAIN segs /\ active.base \in Nat /\ active.base + active.n = next_offset
          /\ Len(evicted) <= active.base
      BY <2>1, <2>4, ActiveFacts DEF LogInv, MemoryInv, ActiveFits
    <3>2. active.base <= Len(evicted) /\ Len(evicted) \in Nat
      BY <2>1, <2>2, <3>1 DEF AtEnd, LogInv, DiskInv, DiskTypes
    <3> QED BY <2>4, <3>1, <3>2
  <2> QED BY <2>3, <2>4
<1> QED BY <1>1, <1>2

\* With nothing to read, no segment holds a record.
LEMMA NothingHeld ==
    ASSUME LogInv, up, closed = <<>>, active = None \/ active.n = 0, NEW b \in DOMAIN segs
    PROVE  held(b) = 0
<1>1. DOMAIN closed = {}
  OBVIOUS
<1>2. b \in Indexed => isActive(b)
  BY <1>1 DEF LogInv, MemoryInv, ClosedFits
<1>3. isActive(b) => active.n = 0
  BY DEF isActive
<1> QED BY <1>2, <1>3 DEF held, Indexed

\* Nothing but what was evicted: it ends at its length.
LEMMA OnlyEvicted ==
    ASSUME LogInv, EvictedFits, NEW R, Len(R) = 0, R = <<>>, \A b \in DOMAIN segs : held(b) = 0
    PROVE  Logs(evicted \o FlattenSeq(R), Len(evicted))
<1>1. FlattenSeq(R) = <<>>
  BY DEF FlattenSeq
<1>2. evicted \in Seq(Record) /\ evicted \o <<>> = evicted /\ DOMAIN evicted = 1..Len(evicted)
  BY ConcatEmptySeq, LenProperties DEF LogInv, HistoryTypes
<1>3. Positions(evicted, Len(evicted))
  BY <1>2 DEF EvictedFits, Positions
<1>4. Contents(evicted)
  <2>1. Len(evicted) \in Nat /\ \A b \in DOMAIN segs : 1..held(b) = {}
    BY <1>2, LenProperties
  <2> QED BY <2>1 DEF Contents
<1> QED BY <1>1, <1>2, <1>3, <1>4 DEF Logs

\* The stored log, open or not, is made of the records 0, 1, 2, ...
LEMMA StoredLogs ==
    ASSUME LogInv, EvictedFits
    PROVE  Logs(stored, IF up THEN next_offset ELSE recoveredNext)
<1>1. CASE up
  <2> DEFINE R == [i \in DOMAIN readable |-> Records(readable[i].base, countIn(readable[i]))]
  <2>1. stored = evicted \o FlattenSeq(R)
    BY <1>1 DEF stored, memoryView
  <2>2. Len(readable) \in Nat /\ DOMAIN readable = 1..Len(readable)
    BY <1>1, MemoryListing
  <2>3. CASE readable # <<>>
    <3>1. Chain(readBase, readCount, Len(readable), next_offset)
      BY <1>1, <2>3, MemoryListing, ListingIsChain
    <3>2. R = [i \in 1..Len(readable) |-> Records(readBase[i], readCount[i])]
      BY <2>2 DEF readBase, readCount
    <3> HIDE DEF R
    <3>3. Logs(evicted \o FlattenSeq(R), next_offset)
      BY <3>1, <3>2, ChainView
    <3> QED BY <1>1, <2>1, <3>3
  <2>4. CASE readable = <<>>
    <3>1. next_offset = Len(evicted)
      BY <1>1, <2>4, MemoryListing, NothingReadable
    <3>2. Len(R) = 0 /\ R = <<>>
      BY <2>4
    <3> HIDE DEF R
    <3>3. \A b \in DOMAIN segs : held(b) = 0
      BY <1>1, <2>4, MemoryListing, NothingHeld
    <3>4. Logs(evicted \o FlattenSeq(R), Len(evicted))
      BY <3>2, <3>3, OnlyEvicted
    <3> QED BY <1>1, <2>1, <3>1, <3>4
  <2> QED BY <2>3, <2>4
<1>2. CASE ~up
  <2> DEFINE base == ascending(DOMAIN segs)
             cnt == [i \in DOMAIN base |-> recordsIn(base[i])]
             R == [i \in DOMAIN base |-> Records(base[i], recordsIn(base[i]))]
  <2>1. stored = evicted \o FlattenSeq(R)
    BY <1>2 DEF stored, diskView
  <2>2. CASE DOMAIN segs # {}
    <3>1. PICK n : DOMAIN base = 1..n /\ Listing(base, cnt, n, recoveredNext)
      BY <1>2, <2>2, DiskListing
    <3>2. R = [i \in 1..n |-> Records(base[i], cnt[i])]
      BY <3>1
    <3> HIDE DEF R, cnt, base
    <3>3. Chain(base, cnt, n, recoveredNext)
      BY <3>1, ListingIsChain
    <3>4. Logs(evicted \o FlattenSeq(R), recoveredNext)
      BY <3>2, <3>3, ChainView
    <3> QED BY <1>2, <2>1, <3>4
  <2>3. CASE DOMAIN segs = {}
    <3>1. recoveredNext = Len(evicted)
      BY <2>3 DEF recoveredNext, EvictedFits
    <3>2. DOMAIN base = {}
      <4>1. IsAscending(base, {}) /\ Cardinality({}) = 0
        BY <2>3, AscendingExists, FS_EmptySet
      <4> QED BY <4>1 DEF IsAscending
    <3>3. Len(R) = 0 /\ R = <<>>
      BY <3>2
    <3> HIDE DEF R, base
    <3>4. Logs(evicted \o FlattenSeq(R), Len(evicted))
      BY <2>3, <3>3, OnlyEvicted
    <3> QED BY <1>2, <2>1, <3>1, <3>4
  <2> QED BY <2>2, <2>3
<1>3. up \in BOOLEAN
  BY DEF LogInv, MemoryInv, MemoryTypes
<1> QED BY <1>1, <1>2, <1>3

(***************************************************************************)
(* For every batch size, segment size and retention policy, and whatever   *)
(* errors, aborted calls and crashes happen: the offset of a record is its *)
(* position in the log's history, and the next offset, in memory or the    *)
(* one open() would recover, is the number of records so far.              *)
(***************************************************************************)
THEOREM OffsetsArePositionsAlways == Spec => []OffsetsArePositions
<1>1. LogInv /\ EvictedFits => OffsetsArePositions
  <2> SUFFICES ASSUME LogInv, EvictedFits
               PROVE  /\ \A i \in DOMAIN stored : stored[i] # Sentinel /\ stored[i].off = i - 1
                      /\ (IF up THEN next_offset ELSE recoveredNext) = Len(stored)
    BY DEF OffsetsArePositions
  <2>1. /\ stored \in Seq(Record) /\ Len(stored) = IF up THEN next_offset ELSE recoveredNext
        /\ \A j \in 1..Len(stored) : stored[j].off = j - 1
    BY StoredLogs DEF Logs, Positions
  <2>2. DOMAIN stored = 1..Len(stored) /\ \A j \in 1..Len(stored) : stored[j] \in Record
    BY <2>1, LenProperties, ElementOfSeq
  <2> QED BY <2>1, <2>2, SentinelIsNoRecord
<1> QED BY <1>1, EvictedAlways, PTL

-----------------------------------------------------------------------------
\* What read_range reads.

\* The place in from..to that is nearest to x.
Clip(x, from, to) == IF x < from THEN from ELSE IF x > to THEN to ELSE x

\* The clipped ends of a segment are in order.
LEMMA ClipOrder ==
    ASSUME NEW from \in Nat, NEW to \in Nat, from < to, NEW x \in Nat, NEW n \in Nat,
           NEW lo, lo = Clip(x, from, to), NEW hi, hi = Clip(x + n, from, to)
    PROVE  lo \in Nat /\ hi \in Nat /\ from <= lo /\ lo <= hi /\ hi - lo \in Nat
BY DEF Clip

(***************************************************************************)
(* One segment of x .. x + n - 1: the bounds the code computes select what *)
(* lies between the clipped ends lo and hi.                                *)
(***************************************************************************)
Window(x, n, from, to, lo, hi) ==
    LET start == IF from > x THEN from ELSE x
        end   == IF to < x + n THEN to ELSE x + n
    IN  /\ (IF end > start THEN end - start ELSE 0) = hi - lo
        /\ \A k \in 1..(hi - lo) : /\ start = lo /\ start - x + k \in 1..n
                                   /\ x + (start - x + k) = start + k

\* Clip cuts this window.
LEMMA WindowIs ==
    ASSUME NEW from \in Nat, NEW to \in Nat, from < to, NEW x \in Nat, NEW n \in Nat
    PROVE  Window(x, n, from, to, Clip(x, from, to), Clip(x + n, from, to))
BY DEF Clip, Window

\* S is the stored log from lo to hi.
Copies(S, lo, hi) ==
    S \in Seq(Record) /\ Len(S) = hi - lo /\ \A k \in 1..(hi - lo) : S[k] = stored[lo + k]

\* The records read_range takes from one segment are those of the stored log.
LEMMA ReadSegmentIs ==
    ASSUME LogInv, EvictedFits, up, readable # <<>>, NEW i \in 1..Len(readable),
           NEW from \in Nat, NEW to \in Nat, from < to,
           NEW lo, lo = Clip(readBase[i], from, to),
           NEW hi, hi = Clip(readBase[i] + readCount[i], from, to)
    PROVE  Copies(readSegment(readable[i], from, to), lo, hi)
<1> DEFINE x == readBase[i]
           n == readCount[i]
           start == IF from > x THEN from ELSE x
           end == IF to < x + n THEN to ELSE x + n
           read == [k \in 1..(hi - lo) |-> segs[x].slots[start - x + k]]
<1>1. /\ readable \in Seq(ClosedSegment) /\ DOMAIN readable = 1..Len(readable)
      /\ Chain(readBase, readCount, Len(readable), next_offset)
  BY MemoryListing, ListingIsChain
<1>2. x \in Nat /\ n \in Nat /\ n = held(x) /\ x \in DOMAIN segs
  BY <1>1 DEF Chain, Lists
<1>3. readable[i].base = x /\ readable[i].last + 1 = x + n
  <2>1. readable[i].base = x /\ n = readable[i].last - readable[i].base + 1
    BY <1>1 DEF readBase, readCount, countIn
  <2>2. readable[i].last \in Nat
    <3>1. readable[i] \in ClosedSegment
      BY <1>1, ElementOfSeq, Zenon
    <3> QED BY <3>1 DEF ClosedSegment
  <2> QED BY <1>2, <2>1, <2>2
<1> HIDE DEF x, n
<1>4. lo = Clip(x, from, to) /\ hi = Clip(x + n, from, to)
  BY DEF x, n
<1>5. lo \in Nat /\ hi \in Nat /\ hi - lo \in Nat
  BY <1>2, <1>4, ClipOrder
<1>6. /\ (IF end > start THEN end - start ELSE 0) = hi - lo
      /\ \A k \in 1..(hi - lo) : /\ start = lo /\ start - x + k \in 1..n
                                 /\ x + (start - x + k) = start + k
  <2>1. Window(x, n, from, to, lo, hi)
    BY <1>2, <1>4, WindowIs
  <2> QED BY <2>1, Zenon DEF Window
<1>7. readSegment(readable[i], from, to) = read
  BY <1>3, <1>6, Zenon DEF readSegment
<1> HIDE DEF start, end
<1>8. ASSUME NEW k \in 1..(hi - lo)
      PROVE  segs[x].slots[start - x + k] = stored[lo + k] /\ stored[lo + k] \in Record
  <2> DEFINE j == start - x + k
  <2>1. j \in 1..n /\ x + j = lo + k
    BY <1>6
  <2> HIDE DEF j
  <2>2. Positions(stored, next_offset) /\ Contents(stored)
    BY StoredLogs DEF Logs
  <2>3. x + j \in (Len(evicted) + 1)..Len(stored) /\ stored[x + j] = segs[x].slots[j]
    BY <1>2, <2>1, <2>2 DEF Contents
  <2>4. x + j \in 1..Len(stored) /\ stored \in Seq(Record)
    BY <1>2, <2>1, <2>2, <2>3, LenProperties DEF Positions, LogInv, HistoryTypes
  <2>5. stored[x + j] \in Record
    BY <2>4, ElementOfSeq
  <2> QED BY <2>1, <2>3, <2>5 DEF j
<1>9. /\ DOMAIN read = 1..(hi - lo)
      /\ \A k \in 1..(hi - lo) : read[k] = stored[lo + k] /\ read[k] \in Record
  BY <1>8
<1> HIDE DEF read
<1>10. read \in Seq(Record) /\ Len(read) = hi - lo
  <2>1. read \in [1..(hi - lo) -> Record]
    BY <1>9 DEF read
  <2> DEFINE m == hi - lo
  <2>2. m \in Nat /\ read \in [1..m -> Record]
    BY <1>5, <2>1
  <2> HIDE DEF m
  <2>3. read \in Seq(Record) /\ Len(read) = m
    BY <2>2
  <2> QED BY <2>3 DEF m
<1> QED BY <1>7, <1>9, <1>10 DEF Copies

\* Put together, they are the window that was asked for.
LEMMA WindowRead ==
    ASSUME LogInv, EvictedFits, up, readable # <<>>,
           NEW from \in Nat, NEW to \in Nat, from < to, from < next_offset, Len(evicted) <= from,
           NEW R, R = [i \in DOMAIN readable |-> readSegment(readable[i], from, to)]
    PROVE  FlattenSeq(R) = SubSeq(stored, from + 1, IF to < Len(stored) THEN to ELSE Len(stored))
<1> DEFINE n == Len(readable)
           lo(i) == Clip(readBase[i], from, to)
           hi(i) == Clip(readBase[i] + readCount[i], from, to)
           start == [i \in 1..n |-> lo(i) - from]
           last == IF to < Len(stored) THEN to ELSE Len(stored)
           F == FlattenSeq(R)
           W == SubSeq(stored, from + 1, last)
<1>1. DOMAIN readable = 1..n /\ Chain(readBase, readCount, n, next_offset)
  BY MemoryListing, ListingIsChain
<1>2. /\ n \in Nat \ {0} /\ 1 \in 1..n /\ n \in 1..n /\ readBase[1] = Len(evicted)
      /\ readBase[n] + readCount[n] = next_offset
      /\ \A i \in 1..n : /\ readBase[i] \in Nat /\ readCount[i] \in Nat
                         /\ i + 1 \in 1..n => readBase[i + 1] = readBase[i] + readCount[i]
  BY <1>1 DEF Chain
<1>3. /\ stored \in Seq(Record) /\ Len(stored) = next_offset /\ next_offset \in Nat
  <2>1. stored \in Seq(Record) /\ Len(stored) = next_offset
    BY StoredLogs DEF Logs, Positions
  <2> QED BY <2>1, LenProperties
<1>4. last \in Nat /\ from < last /\ last <= Len(stored) /\ last = Clip(next_offset, from, to)
  BY <1>3 DEF Clip
<1>5. \A i \in 1..n : /\ lo(i) \in Nat /\ hi(i) \in Nat /\ from <= lo(i) /\ lo(i) <= hi(i)
                      /\ i + 1 \in 1..n => lo(i + 1) = hi(i)
  <2> SUFFICES ASSUME NEW i \in 1..n
               PROVE  /\ lo(i) \in Nat /\ hi(i) \in Nat /\ from <= lo(i) /\ lo(i) <= hi(i)
                      /\ i + 1 \in 1..n => lo(i + 1) = hi(i)
    OBVIOUS
  <2> DEFINE x == readBase[i]
             c == readCount[i]
             l == lo(i)
             h == hi(i)
  <2>1. x \in Nat /\ c \in Nat /\ l = Clip(x, from, to) /\ h = Clip(x + c, from, to)
    BY <1>2, Zenon
  <2>2. i + 1 \in 1..n => lo(i + 1) = h
    BY <1>2, Zenon
  <2> HIDE DEF x, c, l, h
  <2>3. l \in Nat /\ h \in Nat /\ from <= l /\ l <= h
    BY <2>1, ClipOrder
  <2> QED BY <2>2, <2>3 DEF l, h
<1>6. lo(1) = from /\ hi(n) = last
  BY <1>2, <1>4 DEF Clip
<1>7. ASSUME NEW i \in 1..n
      PROVE  /\ R[i] \in Seq(Record) /\ Len(R[i]) = hi(i) - lo(i)
             /\ \A k \in 1..(hi(i) - lo(i)) : R[i][k] = stored[lo(i) + k]
  <2>1. R[i] = readSegment(readable[i], from, to)
    BY <1>1
  <2> DEFINE l == lo(i)
             h == hi(i)
  <2>2. l = Clip(readBase[i], from, to) /\ h = Clip(readBase[i] + readCount[i], from, to)
    OBVIOUS
  <2>0. i \in 1..Len(readable)
    OBVIOUS
  <2> HIDE DEF l, h, n
  <2>3. Copies(readSegment(readable[i], from, to), l, h)
    BY <2>0, <2>2, ReadSegmentIs
  <2> QED BY <2>1, <2>3 DEF Copies, l, h
<1> HIDE DEF lo, hi, last, n
<1>8. Parts(R, start, Record, n)
  <2>1. R \in [1..n -> Seq(Record)]
    BY <1>1, <1>7
  <2>2. start \in [1..n -> Nat] /\ start[1] = 0
    BY <1>2, <1>5, <1>6
  <2>3. \A i \in 1..n : i + 1 \in 1..n => start[i + 1] = start[i] + Len(R[i])
    <3> SUFFICES ASSUME NEW i \in 1..n, i + 1 \in 1..n
                 PROVE  start[i + 1] = start[i] + Len(R[i])
      OBVIOUS
    <3>1. start[i + 1] = lo(i + 1) - from /\ start[i] = lo(i) - from
      OBVIOUS
    <3>2. lo(i + 1) = hi(i) /\ lo(i) \in Nat /\ hi(i) \in Nat /\ Len(R[i]) = hi(i) - lo(i)
      BY <1>5, <1>7
    <3> HIDE DEF start
    <3> QED BY <3>1, <3>2
  <2> QED BY <1>2, <2>1, <2>2, <2>3 DEF Parts
<1>9. \A i \in 1..n : start[i] = lo(i) - from
  OBVIOUS
<1> HIDE DEF start
<1>10. Whole(F, R, start, Record, n)
  BY <1>8, FlattenAt
<1> HIDE DEF F
<1>11. F \in Seq(Record) /\ Len(F) = last - from /\ start[n] + Len(R[n]) = last - from
  <2>1. start[n] = lo(n) - from /\ Len(R[n]) = last - lo(n) /\ lo(n) \in Nat
    BY <1>2, <1>5, <1>6, <1>7, <1>9
  <2> QED BY <1>4, <1>10, <2>1 DEF Whole
<1>12. \A j \in 1..(last - from) : F[j] = stored[from + j]
  <2> SUFFICES ASSUME NEW j \in 1..(last - from) PROVE F[j] = stored[from + j]
    OBVIOUS
  <2>0. j \in 1..(start[n] + Len(R[n]))
    BY <1>11
  <2>1. PICK i \in 1..n : \E k \in 1..Len(R[i]) : j = start[i] + k
    BY <1>10, <2>0, Zenon DEF Whole
  <2>2. PICK k \in 1..Len(R[i]) : j = start[i] + k
    BY <2>1
  <2>3. F[j] = R[i][k]
    BY <1>10, <2>2 DEF Whole
  <2>4. R[i][k] = stored[lo(i) + k]
    BY <1>7
  <2>5. lo(i) + k = from + j
    <3>1. start[i] = lo(i) - from /\ lo(i) \in Nat /\ hi(i) \in Nat /\ Len(R[i]) = hi(i) - lo(i)
      BY <1>5, <1>7, <1>9
    <3> QED BY <2>2, <3>1, SMTT(30)
  <2> QED BY <2>3, <2>4, <2>5
<1>13. /\ W \in Seq(Record) /\ Len(W) = last - from
       /\ \A j \in 1..(last - from) : W[j] = stored[from + j]
  <2>1. \A j \in (from + 1)..last : stored[j] \in Record
    BY <1>3, <1>4, ElementOfSeq
  <2>2. from + 1 \in Int /\ last \in Int /\ from + 1 <= last /\ last - (from + 1) + 1 = last - from
    BY <1>4
  <2>3. /\ W \in Seq(Record)
        /\ Len(W) = IF from + 1 <= last THEN last - (from + 1) + 1 ELSE 0
        /\ \A j \in 1..(last - (from + 1) + 1) : W[j] = stored[from + 1 + j - 1]
    BY <2>1, <2>2, SubSeqProperties
  <2>4. \A j \in 1..(last - from) : from + 1 + j - 1 = from + j
    BY <1>4
  <2> HIDE DEF W
  <2> QED BY <2>2, <2>3, <2>4
<1> HIDE DEF W
<1>14. F = W
  BY <1>11, <1>12, <1>13, SeqEqual
<1> QED BY <1>14 DEF F, W, last

\* With something to read, some segment holds a record.
LEMMA SomethingHeld ==
    ASSUME LogInv, up, readable # <<>>
    PROVE  \E b \in DOMAIN segs : held(b) \in Nat /\ held(b) # 0
<1>1. CASE active # None /\ active.n # 0
  <2>1. active.base \in DOMAIN segs /\ active.n \in Nat
    BY <1>1, ActiveFacts
  <2>2. held(active.base) = active.n
    BY <1>1 DEF held, isActive
  <2> QED BY <1>1, <2>1, <2>2
<1>2. CASE active = None \/ active.n = 0
  <2> DEFINE b == closed[1].base
  <2>1. closed # <<>>
    BY <1>2, ClosedListing
  <2>2. b \in Indexed /\ ~isActive(b)
    <3>1. 1 \in 1..Len(closed)
      BY <2>1, ClosedAre, EmptySeq
    <3> QED BY <3>1, ClosedAre
  <2> HIDE DEF b
  <2>3. b \in DOMAIN segs /\ b \in DOMAIN idx /\ idx[b] \in Nat /\ idx[b] # 0
    BY <2>2 DEF LogInv, DiskInv, DiskTypes, Indexed
  <2>4. held(b) = idx[b]
    BY <2>2, <2>3 DEF held
  <2> QED BY <2>3, <2>4
<1> QED BY <1>1, <1>2

(***************************************************************************)
(* For every history of appends, rolls, evictions, errors and reopenings,  *)
(* and every range that is not empty: read_range returns exactly the       *)
(* asked-for window of the stored log across segment boundaries, refuses exactly the evicted       *)
(* offsets, and earliest_offset and latest_offset delimit what is left.    *)
(***************************************************************************)
THEOREM ReadRangeExactAlways == Spec => []ReadRangeExact
<1>1. LogInv /\ EvictedFits => ReadRangeExact
  <2> SUFFICES ASSUME LogInv, EvictedFits, up PROVE ReadRangeExact
    BY DEF ReadRangeExact, At
  <2>1. /\ Len(stored) = next_offset /\ next_offset \in Nat /\ Len(evicted) \in Nat
        /\ Len(evicted) <= next_offset
    <3>1. stored \in Seq(Record) /\ Len(stored) = next_offset /\ Len(evicted) <= Len(stored)
      BY StoredLogs DEF Logs, Positions, Contents
    <3> QED BY <3>1, LenProperties DEF LogInv, HistoryTypes
  <2>2. CASE readable = <<>>
    <3>1. next_offset = Len(evicted)
      BY <2>2, MemoryListing, NothingReadable
    <3>2. earliest_offset = None
      BY <2>2 DEF earliest_offset
    <3>3. latest_offset = IF next_offset > 0 THEN next_offset - 1 ELSE None
      BY <2>2 DEF latest_offset
    <3>4. ASSUME NEW from \in 0..(next_offset + 1), NEW to \in (from + 1)..(next_offset + 2)
          PROVE  read_range(from, to) = IF from >= next_offset THEN Entries(<<>>)
                                        ELSE RetentionExpired
      <4>1. ~(to <= from)
        BY <2>1
      <4>2. from < next_offset => is_fully_evicted
        BY <2>1, <2>2 DEF is_fully_evicted
      <4> QED BY <2>1, <4>1, <4>2 DEF read_range
    <3>5. \A from \in 0..(next_offset + 1) : ~(from >= next_offset) => from < Len(evicted)
      BY <2>1, <3>1
    <3>6. ~(Len(evicted) < Len(stored))
      BY <2>1, <3>1
    <3> QED BY <3>2, <3>3, <3>4, <3>5, <3>6 DEF ReadRangeExact
  <2>3. CASE readable # <<>>
    <3> DEFINE n == Len(readable)
    <3>1. /\ readable \in Seq(ClosedSegment) /\ n \in Nat /\ DOMAIN readable = 1..n
          /\ Chain(readBase, readCount, n, next_offset)
      BY <2>3, MemoryListing, ListingIsChain
    <3>2. /\ 1 \in 1..n /\ n \in 1..n /\ readBase[1] = Len(evicted)
          /\ readBase[n] + readCount[n] = next_offset
      BY <3>1 DEF Chain
    <3>3. earliest_offset = Len(evicted)
      <4>1. Head(readable) = readable[1]
        BY <3>1
      <4> QED BY <2>3, <3>1, <3>2, <4>1 DEF earliest_offset, readBase
    <3>4. latest_offset = next_offset - 1
      <4>1. /\ readable[n].last \in Nat /\ readable[n].base \in Nat
            /\ readBase[n] = readable[n].base
            /\ readCount[n] = readable[n].last - readable[n].base + 1
        <5>1. readable[n] \in ClosedSegment
          BY <3>1, <3>2, ElementOfSeq, Zenon
        <5>2. readable[n].last \in Nat /\ readable[n].base \in Nat
          BY <5>1 DEF ClosedSegment
        <5>3. readBase[n] = readable[n].base /\ readCount[n] = countIn(readable[n])
          BY <3>1, <3>2 DEF readBase, readCount
        <5> QED BY <5>2, <5>3 DEF countIn
      <4>2. readable[n].last = next_offset - 1
        BY <2>1, <3>2, <4>1
      <4> QED BY <2>3, <4>2 DEF latest_offset
    <3>5. Len(evicted) < next_offset
      <4>1. PICK b \in DOMAIN segs : held(b) \in Nat /\ held(b) # 0
        BY <2>3, SomethingHeld
      <4>2. 1 \in 1..held(b)
        BY <4>1
      <4>3. b + 1 \in (Len(evicted) + 1)..Len(stored)
        BY <4>2, StoredLogs DEF Logs, Contents
      <4> QED BY <2>1, <4>3
    <3>6. ASSUME NEW from \in 0..(next_offset + 1), NEW to \in (from + 1)..(next_offset + 2)
          PROVE  read_range(from, to) =
                   IF from >= next_offset THEN Entries(<<>>)
                   ELSE IF from < Len(evicted) THEN RetentionExpired
                   ELSE Entries(SubSeq(stored, from + 1, IF to < Len(stored) THEN to ELSE Len(stored)))
      <4>1. from \in Nat /\ to \in Nat /\ from < to
        BY <2>1
      <4>2. CASE to <= from \/ from >= next_offset
        <5>1. from >= next_offset
          BY <4>1, <4>2
        <5> QED BY <4>2, <5>1 DEF read_range
      <4>3. CASE ~(to <= from \/ from >= next_offset)
        <5>1. from < to /\ from < next_offset /\ ~(from >= next_offset)
          BY <2>1, <4>1, <4>3
        <5>2. ~is_fully_evicted
          BY <2>3 DEF is_fully_evicted
        <5>3. CASE from < Len(evicted)
          BY <3>3, <4>3, <5>1, <5>3 DEF read_range
        <5>4. CASE ~(from < Len(evicted))
          <6> DEFINE R == [i \in DOMAIN readable |-> readSegment(readable[i], from, to)]
          <6>1. read_range(from, to) = Entries(FlattenSeq(R))
            BY <3>3, <4>3, <5>2, <5>4 DEF read_range
          <6>2. Len(evicted) <= from /\ R = [i \in DOMAIN readable |-> readSegment(readable[i], from, to)]
            BY <2>1, <4>1, <5>4
          <6> HIDE DEF R
          <6>3. FlattenSeq(R) = SubSeq(stored, from + 1, IF to < Len(stored) THEN to ELSE Len(stored))
            BY <2>3, <4>1, <5>1, <6>2, WindowRead
          <6> QED BY <5>1, <5>4, <6>1, <6>3
        <5> QED BY <5>3, <5>4
      <4> QED BY <4>2, <4>3
    <3>7. next_offset > 0 /\ Len(evicted) < Len(stored)
      BY <2>1, <3>5
    <3> QED BY <2>1, <3>3, <3>4, <3>6, <3>7 DEF ReadRangeExact
  <2> QED BY <2>2, <2>3
<1> QED BY <1>1, EvictedAlways, PTL

-----------------------------------------------------------------------------
(***************************************************************************)
(* As long as no append goes around left-overs, a commit leaves the files  *)
(* alone and a scan finds the records where the index has them.            *)
(***************************************************************************)
PlainCommit == CommitBatch /\ segs' = segs
PlainCrash == Crash /\ scanned = segs
PlainNext == PlainCommit \/ delete_segment \/ PlainCrash \/ QuietStep

\* Before an append goes around left-overs, every step is a plain one.
LEMMA PlainStep ==
    ASSUME TailInv, [Next]_vars, ~strayed'
    PROVE  [PlainNext]_vars
<1>1. CASE CommitBatch
  BY <1>1 DEF CommitBatch, StreamPosition, EndPosition, PlainCommit, PlainNext
<1>2. CASE Crash
  <2>1. ~strayed
    BY <1>2 DEF Crash
  <2>2. astray = None
    BY <2>1 DEF TailInv
  <2> QED BY <1>2, <2>2 DEF scanned, PlainCrash, PlainNext
<1> QED BY <1>1, <1>2 DEF Next, PlainNext

-----------------------------------------------------------------------------
(***************************************************************************)
(* What survives a crash.  A segment that has an index keeps the records   *)
(* of its index, and only those: an append that was aborted between the    *)
(* index and the end of the roll leaves an active segment with an index,   *)
(* and what is committed to it later counts only after the next roll.      *)
(***************************************************************************)
durable(b) == IF b \in DOMAIN idx THEN idx[b] ELSE held(b)

Durable(j) ==
    j \in 1..Len(evicted) \/ \E b \in DOMAIN segs : \E k \in 1..durable(b) : j = b + k

\* The call has answered Ok, or can only fail with an error of the retention.
Acked(id) == result[id] = "Ok" \/ (call.id = id /\ call.pc \in AfterRoll)

\* The identities of calls are used once.
IdsUsed ==
    /\ \A b \in DOMAIN segs : \A k \in 1..Len(segs[b].slots) : segs[b].slots[k].id <= calls
    /\ \A j \in 1..Len(evicted) : evicted[j].id <= calls
    /\ \A id \in Batches : result[id] # None => id <= calls
    /\ call.pc # "idle" => call.id <= calls /\ result[call.id] = None /\ call.size \in Sizes

\* A segment that has its index and is still active is due.
DueIfIndexed ==
    /\ up /\ active # None /\ active.base \in DOMAIN idx => active.due
    /\ call.pc \in Rolling => active.due

Own == {"ensure_active"} \cup Writing \cup Rolling
ownStart == IF call.pc \in Rolling THEN active.n - call.size ELSE active.n

\* The records of the call in progress are where it put them and nowhere else.
OwnBatch ==
    /\ call.pc \in Own =>
         /\ \A j \in 1..Len(evicted) : evicted[j].id # call.id
         /\ \A b \in DOMAIN segs : \A k \in 1..Len(segs[b].slots) :
              segs[b].slots[k].id = call.id =>
                 isActive(b) /\ k \in (ownStart + 1)..(ownStart + call.written)
    /\ call.pc \in Writing \cup Rolling =>
         \A k \in 1..call.written : /\ file.slots[ownStart + k].id = call.id
                                    /\ file.slots[ownStart + k].k = k
    /\ call.pc \in Rolling => call.written = call.size /\ call.size <= active.n

\* Slots behind what survives a crash hold nothing that was acknowledged.
Leftovers ==
    \A b \in DOMAIN segs : \A k \in 1..Len(segs[b].slots) :
        k > durable(b) => segs[b].slots[k] = Sentinel \/ ~Acked(segs[b].slots[k].id)

\* The n records of the call are stored behind the first i, and nowhere else.
BatchAt(id, i, n) ==
    /\ \A k \in 1..n : Durable(i + k) /\ stored[i + k].id = id /\ stored[i + k].k = k
    /\ \A j \in 1..Len(stored) : stored[j].id = id => j \in (i + 1)..(i + n)

AckedStored ==
    \A id \in Batches : Acked(id) => \E i \in Nat : \E n \in Sizes : BatchAt(id, i, n)

AckInv == IdsUsed /\ DueIfIndexed /\ OwnBatch /\ Leftovers /\ AckedStored

-----------------------------------------------------------------------------
\* What is durable is stored.

StoreSound ==
    /\ stored \in Seq(Record) /\ Len(stored) \in Nat /\ Len(evicted) \in Nat /\ Contents(stored)
    /\ \A b \in DOMAIN segs : /\ b \in Nat /\ Len(evicted) <= b
                              /\ durable(b) \in Nat /\ held(b) \in Nat /\ durable(b) <= held(b)
                              /\ segs[b].slots \in Seq(Slot) /\ Len(segs[b].slots) \in Nat
                              /\ held(b) <= Len(segs[b].slots)

\* The segments hold what they are said to hold.
LEMMA StoredFacts == LogInv /\ EvictedFits => StoreSound
<1> SUFFICES ASSUME LogInv, EvictedFits PROVE StoreSound
  OBVIOUS
<1>1. stored \in Seq(Record) /\ Contents(stored)
  BY StoredLogs DEF Logs, Positions
<1>2. Len(stored) \in Nat /\ Len(evicted) \in Nat
  BY <1>1, LenProperties DEF LogInv, HistoryTypes
<1>3. ASSUME NEW b \in DOMAIN segs
      PROVE  /\ b \in Nat /\ Len(evicted) <= b
             /\ durable(b) \in Nat /\ held(b) \in Nat /\ durable(b) <= held(b)
             /\ segs[b].slots \in Seq(Slot) /\ Len(segs[b].slots) \in Nat
             /\ held(b) <= Len(segs[b].slots)
  <2>1. /\ b \in Nat /\ Len(evicted) <= b /\ segs[b].slots \in Seq(Slot) /\ Len(segs[b].slots) \in Nat
        /\ DiskTypes
    BY LenProperties DEF LogInv, DiskInv, DiskTypes, File, EvictedFits
  <2>2. b \in DOMAIN idx => idx[b] \in Nat /\ idx[b] <= Len(segs[b].slots)
    BY <2>1 DEF LogInv, DiskInv, DiskTypes, IndexFits, Good, Indexed
  <2>3. recovered(b) \in Nat /\ recovered(b) <= Len(segs[b].slots)
    BY <2>1, RecoveredGood DEF Good
  <2>4. up /\ isActive(b) => /\ active.n \in Nat /\ active.n <= Len(segs[b].slots)
                             /\ b \in DOMAIN idx => idx[b] <= active.n
    BY ActiveFacts DEF isActive, file, Good, LogInv, MemoryInv, ActiveFits
  <2> QED BY <2>1, <2>2, <2>3, <2>4 DEF durable, held, recordsIn
<1> QED BY <1>1, <1>2, <1>3 DEF StoreSound

DurableSound ==
    /\ \A j : Durable(j) => j \in 1..Len(stored)
    /\ \A j \in 1..Len(evicted) : stored[j] = evicted[j]
    /\ \A b \in DOMAIN segs : \A k \in 1..durable(b) : stored[b + k] = segs[b].slots[k]

\* What is durable is stored at its place.
LEMMA DurableStored == LogInv /\ EvictedFits => DurableSound
<1> SUFFICES ASSUME LogInv, EvictedFits PROVE DurableSound
  OBVIOUS
<1>1. /\ Len(stored) \in Nat /\ Len(evicted) \in Nat /\ Contents(stored)
      /\ \A b \in DOMAIN segs : /\ b \in Nat /\ Len(evicted) <= b
                                /\ durable(b) \in Nat /\ held(b) \in Nat /\ durable(b) <= held(b)
  BY StoredFacts DEF StoreSound
<1>2. \A b \in DOMAIN segs : \A k \in 1..durable(b) : k \in 1..held(b)
  BY <1>1
<1>3. Len(evicted) <= Len(stored) /\ \A j \in 1..Len(evicted) : stored[j] = evicted[j]
  BY <1>1 DEF Contents
<1>4. \A b \in DOMAIN segs : \A k \in 1..durable(b) :
        b + k \in (Len(evicted) + 1)..Len(stored) /\ stored[b + k] = segs[b].slots[k]
  BY <1>1, <1>2 DEF Contents
<1>5. \A j : Durable(j) => j \in 1..Len(stored)
  BY <1>1, <1>3, <1>4 DEF Durable
<1> QED BY <1>3, <1>4, <1>5 DEF DurableSound

\* The step keeps what is durable, in its segment or among the evicted.
Kept ==
    /\ Len(evicted) <= Len(evicted') /\ \A j \in 1..Len(evicted) : evicted'[j] = evicted[j]
    /\ \A b \in DOMAIN segs : \A k \in 1..durable(b) :
         \/ b \in DOMAIN segs' /\ k \in 1..durable(b)' /\ segs'[b].slots[k] = segs[b].slots[k]
         \/ b + k \in 1..Len(evicted') /\ evicted'[b + k] = segs[b].slots[k]

\* It makes no acknowledged record appear anywhere else.
NothingNew ==
    /\ \A b \in DOMAIN segs' : \A k \in 1..Len(segs'[b].slots) :
         \/ segs'[b].slots[k] = Sentinel
         \/ ~Acked(segs'[b].slots[k].id)
         \/ b \in DOMAIN segs /\ k \in 1..durable(b) /\ segs'[b].slots[k] = segs[b].slots[k]
    /\ \A j \in 1..Len(evicted') :
         \/ j \in 1..Len(evicted)
         \/ \E b \in DOMAIN segs : \E k \in 1..durable(b) : j = b + k /\ evicted'[j] = segs[b].slots[k]

\* Then what was durable stays where it is, ...
LEMMA DurableKept ==
    ASSUME LogInv, EvictedFits, LogInv', EvictedFits', Kept, NEW j, Durable(j)
    PROVE  Durable(j)' /\ stored'[j] = stored[j]
<1>1. /\ \A i \in 1..Len(evicted) : stored[i] = evicted[i]
      /\ \A b \in DOMAIN segs : \A k \in 1..durable(b) : stored[b + k] = segs[b].slots[k]
  BY DurableStored DEF DurableSound
<1>2. /\ \A i \in 1..Len(evicted') : stored'[i] = evicted'[i]
      /\ \A b \in DOMAIN segs' : \A k \in 1..durable(b)' : stored'[b + k] = segs'[b].slots[k]
  <2>1. (LogInv /\ EvictedFits => DurableSound)'
    BY DurableStored, PTL
  <2> QED BY <2>1 DEF DurableSound
<1>3. Len(evicted) \in Nat /\ Len(evicted') \in Nat
  BY LenProperties DEF LogInv, HistoryTypes
<1>4. CASE j \in 1..Len(evicted)
  <2>1. j \in 1..Len(evicted') /\ evicted'[j] = evicted[j]
    BY <1>3, <1>4 DEF Kept
  <2> QED BY <1>1, <1>2, <1>4, <2>1 DEF Durable
<1>5. CASE \E b \in DOMAIN segs : \E k \in 1..durable(b) : j = b + k
  <2>1. PICK b \in DOMAIN segs : \E k \in 1..durable(b) : j = b + k
    BY <1>5
  <2>2. PICK k \in 1..durable(b) : j = b + k
    BY <2>1
  <2>3. stored[j] = segs[b].slots[k]
    BY <1>1, <2>2
  <2>4. CASE b \in DOMAIN segs' /\ k \in 1..durable(b)' /\ segs'[b].slots[k] = segs[b].slots[k]
    BY <1>2, <2>2, <2>3, <2>4 DEF Durable
  <2>5. CASE b + k \in 1..Len(evicted') /\ evicted'[b + k] = segs[b].slots[k]
    BY <1>2, <2>2, <2>3, <2>5 DEF Durable
  <2> QED BY <2>4, <2>5 DEF Kept
<1> QED BY <1>4, <1>5 DEF Durable

\* ... and no acknowledged record appears in a new place.
LEMMA NoneAppears ==
    ASSUME LogInv, EvictedFits, LogInv', EvictedFits', Kept, NothingNew,
           NEW j \in 1..Len(stored'), Acked(stored'[j].id)
    PROVE  j \in 1..Len(stored) /\ stored[j] = stored'[j]
<1>1. /\ Len(stored) \in Nat /\ Len(evicted) \in Nat /\ Contents(stored)
      /\ \A i : Durable(i) => i \in 1..Len(stored)
      /\ \A i \in 1..Len(evicted) : stored[i] = evicted[i]
      /\ \A b \in DOMAIN segs : \A k \in 1..durable(b) : stored[b + k] = segs[b].slots[k]
  BY StoredFacts, DurableStored DEF StoreSound, DurableSound
<1>2. /\ stored' \in Seq(Record) /\ Len(stored') \in Nat /\ Len(evicted') \in Nat /\ Contents(stored)'
      /\ \A b \in DOMAIN segs' : /\ held(b)' \in Nat /\ Len(segs'[b].slots) \in Nat
                                 /\ held(b)' <= Len(segs'[b].slots)
  <2>1. (LogInv /\ EvictedFits => StoreSound)'
    BY StoredFacts, PTL
  <2> QED BY <2>1 DEF StoreSound
<1>3. CASE j \in 1..Len(evicted')
  <2>1. stored'[j] = evicted'[j]
    BY <1>2, <1>3 DEF Contents
  <2>2. CASE j \in 1..Len(evicted)
    BY <1>1, <2>1, <2>2 DEF Kept, Durable
  <2>3. CASE \E b \in DOMAIN segs : \E k \in 1..durable(b) : j = b + k /\ evicted'[j] = segs[b].slots[k]
    <3>1. PICK b \in DOMAIN segs : \E k \in 1..durable(b) : j = b + k /\ evicted'[j] = segs[b].slots[k]
      BY <2>3
    <3>2. PICK k \in 1..durable(b) : j = b + k /\ evicted'[j] = segs[b].slots[k]
      BY <3>1
    <3> QED BY <1>1, <2>1, <3>2 DEF Durable
  <2> QED BY <1>3, <2>2, <2>3 DEF NothingNew
<1>4. CASE j \notin 1..Len(evicted')
  <2>1. PICK b \in DOMAIN segs' : \E k \in 1..held(b)' : j = b + k
    BY <1>2, <1>4 DEF Contents
  <2>2. PICK k \in 1..held(b)' : j = b + k
    BY <2>1
  <2>3. stored'[j] = segs'[b].slots[k] /\ k \in 1..Len(segs'[b].slots)
    BY <1>2, <2>2 DEF Contents
  <2>4. stored'[j] # Sentinel
    <3>1. stored'[j] \in Record
      BY <1>2, ElementOfSeq
    <3> QED BY <3>1, SentinelIsNoRecord
  <2>5. b \in DOMAIN segs /\ k \in 1..durable(b) /\ segs'[b].slots[k] = segs[b].slots[k]
    BY <2>3, <2>4 DEF NothingNew
  <2> QED BY <1>1, <2>2, <2>3, <2>5 DEF Durable
<1> QED BY <1>3, <1>4

\* A batch that was acknowledged before the step is still where it was.
LEMMA BatchKept ==
    ASSUME LogInv, EvictedFits, LogInv', EvictedFits', Kept, NothingNew,
           NEW id \in Batches, Acked(id), NEW i \in Nat, NEW n \in Sizes, BatchAt(id, i, n)
    PROVE  BatchAt(id, i, n)'
<1>1. ASSUME NEW k \in 1..n
      PROVE  Durable(i + k)' /\ stored'[i + k].id = id /\ stored'[i + k].k = k
  <2>1. Durable(i + k) /\ stored[i + k].id = id /\ stored[i + k].k = k
    BY DEF BatchAt
  <2>2. Durable(i + k)' /\ stored'[i + k] = stored[i + k]
    BY <2>1, DurableKept
  <2> QED BY <2>1, <2>2
<1>2. ASSUME NEW j \in 1..Len(stored'), stored'[j].id = id
      PROVE  j \in (i + 1)..(i + n)
  <2>1. j \in 1..Len(stored) /\ stored[j] = stored'[j]
    BY <1>2, NoneAppears
  <2> QED BY <1>2, <2>1 DEF BatchAt
<1> QED BY <1>1, <1>2 DEF BatchAt

\* What lies behind the durable records was not acknowledged before the step.
LEMMA BehindDurable ==
    ASSUME LogInv', EvictedFits', Kept, NothingNew,
           NEW b \in DOMAIN segs', NEW k \in 1..Len(segs'[b].slots), k > durable(b)'
    PROVE  segs'[b].slots[k] = Sentinel \/ ~Acked(segs'[b].slots[k].id)
<1> SUFFICES ASSUME b \in DOMAIN segs, k \in 1..durable(b) PROVE FALSE
  BY DEF NothingNew
<1>1. /\ b \in Nat /\ Len(evicted') <= b /\ Len(evicted') \in Nat
      /\ durable(b)' \in Nat /\ Len(segs'[b].slots) \in Nat
  <2>1. (LogInv /\ EvictedFits => StoreSound)'
    BY StoredFacts, PTL
  <2> QED BY <2>1 DEF StoreSound
<1>2. k \notin 1..durable(b)' /\ b + k \notin 1..Len(evicted')
  BY <1>1
<1> QED BY <1>2 DEF Kept

(***************************************************************************)
(* A step that keeps what is durable, makes nothing acknowledged appear    *)
(* and acknowledges nothing.                                               *)
(***************************************************************************)
LEMMA AckKept ==
    ASSUME LogInv, EvictedFits, LogInv', EvictedFits', Kept, NothingNew, AckedStored,
           \A id \in Batches : Acked(id)' => Acked(id)
    PROVE  Leftovers' /\ AckedStored'
<1>1. Leftovers'
  <2> SUFFICES ASSUME NEW b \in DOMAIN segs', NEW k \in 1..Len(segs'[b].slots), k > durable(b)',
                      segs'[b].slots[k] # Sentinel, NEW id, id = segs'[b].slots[k].id
               PROVE  ~Acked(id)'
    BY DEF Leftovers
  <2>1. id \in Batches
    <3>1. segs'[b].slots \in Seq(Slot)
      BY DEF LogInv, DiskInv, DiskTypes, File
    <3>2. segs'[b].slots[k] \in Slot
      BY <3>1, ElementOfSeq
    <3> QED BY <3>2 DEF Slot, Record
  <2> QED BY <2>1, BehindDurable
<1>2. AckedStored'
  <2> SUFFICES ASSUME NEW id \in Batches, Acked(id)'
               PROVE  \E i \in Nat : \E n \in Sizes : BatchAt(id, i, n)'
    BY DEF AckedStored
  <2>1. Acked(id)
    OBVIOUS
  <2>2. PICK i \in Nat : \E n \in Sizes : BatchAt(id, i, n)
    BY <2>1 DEF AckedStored
  <2>3. PICK n \in Sizes : BatchAt(id, i, n)
    BY <2>2
  <2>4. BatchAt(id, i, n)'
    BY <2>1, <2>3, BatchKept
  <2> QED BY <2>4
<1> QED BY <1>1, <1>2

\* A step that leaves files and struct alone.
LEMMA UnmovedKeeps ==
    ASSUME LogInv, EvictedFits, Leftovers, UNCHANGED <<segs, idx, up, active, evicted>>
    PROVE  Kept /\ NothingNew
<1>1. /\ segs' = segs /\ idx' = idx /\ up' = up /\ active' = active /\ evicted' = evicted
  OBVIOUS
<1>2. \A b \in DOMAIN segs : durable(b)' = durable(b)
  BY <1>1 DEF durable, held, isActive, recordsIn, recovered
<1>3. /\ Len(evicted) \in Nat
      /\ \A b \in DOMAIN segs : durable(b) \in Nat /\ Len(segs[b].slots) \in Nat
  BY StoredFacts DEF StoreSound
<1>4. Kept
  BY <1>1, <1>2, <1>3 DEF Kept
<1>5. \A b \in DOMAIN segs : \A k \in 1..Len(segs[b].slots) : k > durable(b) \/ k \in 1..durable(b)
  BY <1>3
<1>6. NothingNew
  BY <1>1, <1>5 DEF NothingNew, Leftovers
<1> QED BY <1>4, <1>6

-----------------------------------------------------------------------------
\* The steps that rewrite the active file behind its committed records.

Rewrites(s) ==
    /\ s \in Seq(Slot) /\ Len(s) \in Nat /\ active.n <= Len(s)
    /\ \A k \in 1..active.n : s[k] = file.slots[k]
    /\ \A k \in 1..Len(s) : \/ s[k] = Sentinel
                            \/ s[k].id = call.id
                            \/ k \in 1..Len(file.slots) /\ s[k] = file.slots[k]

\* They do so without writing a record.
Cuts(s) ==
    /\ s \in Seq(Slot) /\ Len(s) \in Nat /\ active.n <= Len(s)
    /\ \A k \in 1..active.n : s[k] = file.slots[k]
    /\ \A k \in 1..Len(s) : s[k] = Sentinel \/ (k \in 1..Len(file.slots) /\ s[k] = file.slots[k])

FileRewritten(s) ==
    /\ DOMAIN segs' = DOMAIN segs /\ segs'[active.base].slots = s
    /\ \A b \in DOMAIN segs : b # active.base => segs'[b].slots = segs[b].slots
    /\ UNCHANGED <<idx, up, active, evicted>>

\* They keep what is durable.
LEMMA RewriteKeeps ==
    ASSUME LogInv, EvictedFits, Leftovers, up, active # None, ~Acked(call.id),
           NEW s, Rewrites(s), FileRewritten(s)
    PROVE  Kept /\ NothingNew
<1>1. /\ DOMAIN segs' = DOMAIN segs /\ segs'[active.base].slots = s
      /\ \A b \in DOMAIN segs : b # active.base => segs'[b].slots = segs[b].slots
      /\ idx' = idx /\ up' = up /\ active' = active /\ evicted' = evicted
  BY DEF FileRewritten
<1>2. \A b \in DOMAIN segs : durable(b)' = durable(b)
  BY <1>1 DEF durable, held, isActive
<1>3. /\ Len(evicted) \in Nat /\ active.base \in DOMAIN segs /\ active.n \in Nat
      /\ \A b \in DOMAIN segs : durable(b) \in Nat /\ Len(segs[b].slots) \in Nat /\ durable(b) <= held(b)
  BY StoredFacts, ActiveFacts DEF StoreSound
<1>4. durable(active.base) <= active.n
  BY <1>3 DEF held, isActive
<1>5. ASSUME NEW b \in DOMAIN segs, NEW k \in 1..durable(b)
      PROVE  segs'[b].slots[k] = segs[b].slots[k]
  <2>1. CASE b = active.base
    <3>1. k \in 1..active.n
      BY <1>3, <1>4, <2>1
    <3> QED BY <1>1, <2>1, <3>1 DEF Rewrites, file
  <2>2. CASE b # active.base
    BY <1>1, <2>2
  <2> QED BY <2>1, <2>2
<1>6. Kept
  BY <1>1, <1>2, <1>3, <1>5 DEF Kept
<1>7. \A b \in DOMAIN segs : \A k \in 1..Len(segs[b].slots) : k > durable(b) \/ k \in 1..durable(b)
  BY <1>3
<1>8. ASSUME NEW b \in DOMAIN segs, NEW k \in 1..Len(segs'[b].slots)
      PROVE  \/ segs'[b].slots[k] = Sentinel
             \/ ~Acked(segs'[b].slots[k].id)
             \/ k \in 1..durable(b) /\ segs'[b].slots[k] = segs[b].slots[k]
  <2>1. CASE b # active.base
    <3>1. segs'[b].slots = segs[b].slots
      BY <1>1, <2>1
    <3> QED BY <1>7, <3>1 DEF Leftovers
  <2>2. CASE b = active.base
    <3>1. segs'[b].slots = s /\ k \in 1..Len(s)
      BY <1>1, <2>2
    <3>2. CASE s[k] = Sentinel \/ s[k].id = call.id
      BY <3>1, <3>2
    <3>3. CASE k \in 1..Len(segs[b].slots) /\ s[k] = segs[b].slots[k]
      BY <1>7, <3>1, <3>3 DEF Leftovers
    <3> QED BY <2>2, <3>1, <3>2, <3>3 DEF Rewrites, file
  <2> QED BY <2>1, <2>2
<1>9. NothingNew
  BY <1>1, <1>8 DEF NothingNew
<1> QED BY <1>6, <1>9

\* Cutting the file back to the committed records, or to more of them.
LEMMA PrefixCuts ==
    ASSUME LogInv, up, active # None, NEW n \in active.n..Len(file.slots)
    PROVE  Cuts(SubSeq(file.slots, 1, n))
<1> DEFINE s == SubSeq(file.slots, 1, n)
<1>1. file.slots \in Seq(Slot) /\ active.n \in Nat /\ Len(file.slots) \in Nat
  BY ActiveFacts
<1>2. n \in 0..Len(file.slots) /\ n \in Nat /\ active.n <= n
  BY <1>1
<1>3. s \in Seq(Slot) /\ Len(s) = n /\ \A k \in 1..n : s[k] = file.slots[k]
  <2>1. \A i \in 1..n : file.slots[i] \in Slot
    BY <1>1, <1>2, ElementOfSeq
  <2> QED BY <1>1, <1>2, <2>1
<1> HIDE DEF s
<1>4. \A k \in 1..n : k \in 1..Len(file.slots)
  BY <1>1, <1>2
<1>5. \A k \in 1..active.n : k \in 1..n
  BY <1>1, <1>2
<1> QED BY <1>2, <1>3, <1>4, <1>5 DEF Cuts, s

\* The file as it was.
LEMMA SameCuts ==
    ASSUME LogInv, up, active # None
    PROVE  Cuts(file.slots)
BY ActiveFacts DEF Cuts

\* The sentinel behind the committed records.
LEMMA SentinelCuts ==
    ASSUME LogInv, up, active # None
    PROVE  Cuts(truncated \o <<Sentinel>>)
<1> DEFINE one == <<Sentinel>>
           s == truncated \o one
<1>1. /\ truncated \in Seq(Slot) /\ Len(truncated) = active.n /\ active.n \in Nat
      /\ active.n \in active.n..Len(file.slots)
  BY ActiveFacts
<1>2. one \in Seq(Slot) /\ Len(one) = 1 /\ one[1] = Sentinel
  BY DEF Slot
<1>3. Cuts(truncated)
  BY <1>1, PrefixCuts DEF truncated
<1> HIDE DEF one
<1>4. /\ s \in Seq(Slot) /\ Len(s) = active.n + Len(one)
      /\ \A i \in 1..active.n : s[i] = truncated[i]
      /\ \A k \in 1..Len(one) : s[active.n + k] = one[k]
  <2> DEFINE e == active.n
             x == truncated
  <2>1. x \in Seq(Slot) /\ one \in Seq(Slot) /\ e \in Nat /\ Len(x) = e
    BY <1>1, <1>2
  <2> HIDE DEF e, x
  <2>2. /\ x \o one \in Seq(Slot) /\ Len(x \o one) = e + Len(one)
        /\ \A i \in 1..e : (x \o one)[i] = x[i]
        /\ \A k \in 1..Len(one) : (x \o one)[e + k] = one[k]
    BY <2>1, ConcatAt
  <2> QED BY <2>2, Zenon DEF e, x
<1> HIDE DEF s
<1>5. Len(s) = active.n + 1 /\ s[active.n + 1] = Sentinel
  BY <1>2, <1>4
<1>6. \A i \in 1..(active.n + 1) : i \in 1..active.n \/ i = active.n + 1
  BY <1>1
<1>7. \A i \in 1..active.n : s[i] = truncated[i]
  BY <1>4
<1>8. \A i \in 1..(active.n + 1) : s[i] = Sentinel \/ (i \in 1..active.n /\ s[i] = truncated[i])
  BY <1>5, <1>6, <1>7
<1>9. Len(s) \in Nat /\ active.n <= Len(s)
  BY <1>1, <1>5
<1>10. Cuts(s)
  BY <1>1, <1>3, <1>4, <1>5, <1>7, <1>8, <1>9 DEF Cuts
<1> QED BY <1>10 DEF s, one

\* What write_record leaves in the file: its record, and otherwise what was there.
Written(s) ==
    /\ s \in Seq(Slot) /\ Len(s) \in Nat /\ active.n + call.written + 1 <= Len(s)
    /\ s[active.n + call.written + 1].id = call.id
    /\ s[active.n + call.written + 1].k = call.written + 1
    /\ \A k \in 1..Len(s) :
         k = active.n + call.written + 1 \/ (k \in 1..Len(file.slots) /\ s[k] = file.slots[k])

\* put is f up to m and one more slot; with the rest behind it, it differs from f
\* in that slot only.
Puts(f, m, rec, put, rest) ==
    /\ put \in Seq(Slot) /\ Len(put) = m + 1 /\ put[m + 1] = rec
    /\ \A k \in 1..m : put[k] = f[k]
    /\ m + 1 < Len(f) =>
         /\ put \o rest \in Seq(Slot) /\ Len(put \o rest) = Len(f)
         /\ (put \o rest)[m + 1] = rec
         /\ \A k \in 1..Len(f) : k # m + 1 => (put \o rest)[k] = f[k]

\* A slot sequence, cut behind m, with one more slot, and the rest behind that.
LEMMA PutSlots ==
    ASSUME NEW f \in Seq(Slot), NEW m \in 0..Len(f), NEW rec \in Slot,
           NEW put, put = SubSeq(f, 1, m) \o <<rec>>,
           NEW rest, rest = SubSeq(f, m + 2, Len(f))
    PROVE  Puts(f, m, rec, put, rest)
<1> DEFINE cut == SubSeq(f, 1, m)
           one == <<rec>>
<1>1. Len(f) \in Nat /\ m \in Nat /\ \A i \in 1..Len(f) : f[i] \in Slot
  BY ElementOfSeq, LenProperties
<1>2. cut \in Seq(Slot) /\ Len(cut) = m /\ \A i \in 1..m : cut[i] = f[i]
  BY <1>1
<1>3. one \in Seq(Slot) /\ Len(one) = 1 /\ one[1] = rec
  OBVIOUS
<1> HIDE DEF cut, one
<1>4. /\ cut \o one \in Seq(Slot) /\ Len(cut \o one) = m + Len(one)
      /\ \A i \in 1..m : (cut \o one)[i] = cut[i]
      /\ \A k \in 1..Len(one) : (cut \o one)[m + k] = one[k]
  <2>1. cut \in Seq(Slot) /\ one \in Seq(Slot) /\ m \in Nat /\ Len(cut) = m
    BY <1>1, <1>2, <1>3
  <2>2. Joined(cut, one, m, Slot)
    BY <2>1, ConcatJoins
  <2> QED BY <2>2, Zenon DEF Joined
<1>5. put = cut \o one
  BY DEF cut, one
<1>6. put \in Seq(Slot) /\ Len(put) = m + 1 /\ put[m + 1] = rec /\ \A k \in 1..m : put[k] = f[k]
  <2>1. put \in Seq(Slot) /\ Len(put) = m + Len(one)
    BY <1>4, <1>5, Zenon
  <2>2. Len(put) = m + 1
    BY ONLY <2>1, <1>3, Zenon
  <2>3. \A k \in 1..m : put[k] = f[k]
    BY <1>2, <1>4, <1>5, Zenon
  <2>4. 1 \in 1..Len(one)
    BY ONLY <1>3
  <2>5. put[m + 1] = one[1]
    BY <2>4, <1>4, <1>5, Zenon
  <2> QED BY <2>1, <2>2, <2>3, <2>5, <1>3, Zenon
<1>7. ASSUME m + 1 < Len(f)
      PROVE  /\ put \o rest \in Seq(Slot) /\ Len(put \o rest) = Len(f)
             /\ (put \o rest)[m + 1] = rec
             /\ \A k \in 1..Len(f) : k # m + 1 => (put \o rest)[k] = f[k]
  <2> DEFINE l == Len(f)
             e == m + 1
  <2>1. l \in Int /\ m + 2 \in Int /\ m + 2 <= l /\ e \in Nat /\ l - (m + 2) + 1 = l - e
    BY <1>1, <1>7
  <2>2. \A i \in (m + 2)..l : f[i] \in Slot
    BY <1>1
  <2> HIDE DEF l
  <2>3. /\ rest \in Seq(Slot) /\ Len(rest) = l - (m + 2) + 1
        /\ \A i \in 1..(l - (m + 2) + 1) : rest[i] = f[(m + 2) + i - 1]
    <3>1. rest = SubSeq(f, m + 2, l)
      BY DEF l
    <3> QED BY <2>1, <2>2, <3>1, SubSeqProperties
  <2>4. Len(put) = e
    BY <1>6
  <2> HIDE DEF e
  <2>5. /\ put \o rest \in Seq(Slot) /\ Len(put \o rest) = e + Len(rest)
        /\ \A i \in 1..e : (put \o rest)[i] = put[i]
        /\ \A k \in 1..Len(rest) : (put \o rest)[e + k] = rest[k]
    <3>1. put \in Seq(Slot) /\ rest \in Seq(Slot) /\ e \in Nat /\ Len(put) = e
      BY <1>6, <2>1, <2>3, <2>4
    <3> QED BY ONLY <3>1, ConcatAt, SMTT(30)
  <2>6. Len(rest) = l - e /\ e + Len(rest) = l
    <3>1. Len(rest) = l - e
      BY <2>1, <2>3
    <3>2. e + (l - e) = l
      BY <2>1
    <3> QED BY <3>1, <3>2
  <2>7. (put \o rest)[e] = rec
    <3>1. e \in 1..e /\ put[e] = rec
      BY <1>1, <1>6 DEF e
    <3> QED BY <2>5, <3>1
  <2>8. ASSUME NEW k \in 1..l, k # e PROVE (put \o rest)[k] = f[k]
    <3>1. CASE k < e
      <4>1. k \in 1..e /\ k \in 1..m
        BY <1>1, <2>1, <3>1 DEF e
      <4> QED BY <1>6, <2>5, <4>1
    <3>2. CASE k > e
      <4>1. k - e \in 1..Len(rest) /\ k = e + (k - e)
        BY <2>1, <2>6, <3>2
      <4>2. k - e \in 1..(l - (m + 2) + 1) /\ (m + 2) + (k - e) - 1 = k
        <5>1. e = m + 1
          BY DEF e
        <5> QED BY <1>1, <2>1, <2>6, <4>1, <5>1
      <4>3. (put \o rest)[k] = rest[k - e]
        BY <2>5, <4>1
      <4>4. rest[k - e] = f[(m + 2) + (k - e) - 1]
        BY <2>3, <4>2
      <4> QED BY <4>2, <4>3, <4>4
    <3>3. k < e \/ k > e
      BY <2>1, <2>8
    <3> QED BY <3>1, <3>2, <3>3
  <2> QED BY <2>5, <2>6, <2>7, <2>8 DEF e, l
<1> QED BY <1>6, <1>7 DEF Puts

\* write_record puts its record behind those of its batch.
LEMMA RecordWritten ==
    ASSUME LogInv, write_record
    PROVE  \E s : Written(s) /\ SetSlots(s)
<1> DEFINE m == active.n + call.written
           rec == [off |-> next_offset + call.written, id |-> call.id, k |-> call.written + 1]
           put == SubSeq(file.slots, 1, m) \o <<rec>>
           rest == SubSeq(file.slots, m + 2, Len(file.slots))
<1>1. /\ up /\ active # None /\ call.written \in Nat /\ call.id \in Batches
      /\ Good(file.slots, active.base, m)
  BY DEF write_record, At, LogInv, CallInv, CallTypes, BatchWritten, Writing
<1>2. /\ active.n \in Nat /\ m \in Nat /\ file.slots \in Seq(Slot) /\ Len(file.slots) \in Nat
      /\ next_offset \in Nat
  BY <1>1, ActiveFacts DEF LogInv, MemoryInv, MemoryTypes
<1>3. rec \in Slot /\ rec.id = call.id /\ rec.k = call.written + 1
  BY <1>1, <1>2 DEF Slot, Record
<1>4. m \in 0..Len(file.slots)
  BY <1>1 DEF Good
<1>5. SetSlots(put) \/ (m + 1 < Len(file.slots) /\ SetSlots(put \o rest))
  <2>1. (m + 1) - 1 = m /\ (m + 1) + 1 = m + 2
    BY <1>2
  <2> QED BY <2>1 DEF write_record
<1> HIDE DEF rec
<1>6. put = SubSeq(file.slots, 1, m) \o <<rec>> /\ rest = SubSeq(file.slots, m + 2, Len(file.slots))
  OBVIOUS
<1> HIDE DEF put, rest, m
<1> DEFINE f == file.slots
<1>7. f \in Seq(Slot) /\ m \in 0..Len(f) /\ put = SubSeq(f, 1, m) \o <<rec>> /\ rest = SubSeq(f, m + 2, Len(f))
      /\ Len(f) \in Nat
  BY <1>2, <1>4, <1>6
<1> HIDE DEF f
<1>8. /\ put \in Seq(Slot) /\ Len(put) = m + 1 /\ put[m + 1] = rec
      /\ \A k \in 1..m : put[k] = f[k]
      /\ m + 1 < Len(f) =>
           /\ put \o rest \in Seq(Slot) /\ Len(put \o rest) = Len(f)
           /\ (put \o rest)[m + 1] = rec
           /\ \A k \in 1..Len(f) : k # m + 1 => (put \o rest)[k] = f[k]
  <2>1. f \in Seq(Slot) /\ m \in 0..Len(f) /\ rec \in Slot
    BY <1>3, <1>7
  <2>2. put = SubSeq(f, 1, m) \o <<rec>> /\ rest = SubSeq(f, m + 2, Len(f))
    BY <1>7
  <2>3. Puts(f, m, rec, put, rest)
    BY ONLY <2>1, <2>2, PutSlots
  <2> QED BY <2>3 DEF Puts
<1>9. \A k \in 1..(m + 1) : k = m + 1 \/ (k \in 1..m /\ k \in 1..Len(f))
  BY <1>2, <1>7
<1>10. m = active.n + call.written
  BY DEF m
<1>11. Written(put)
  BY <1>2, <1>3, <1>8, <1>9, <1>10 DEF Written, f
<1>12. ASSUME m + 1 < Len(f) PROVE Written(put \o rest)
  <2> DEFINE s == put \o rest
  <2>1. /\ s \in Seq(Slot) /\ Len(s) = Len(f) /\ s[m + 1] = rec
        /\ \A k \in 1..Len(f) : k # m + 1 => s[k] = f[k]
    BY <1>8, <1>12
  <2>2. m + 1 <= Len(f)
    BY <1>2, <1>7, <1>12
  <2> HIDE DEF s
  <2>3. Written(s)
    BY <1>3, <1>7, <1>10, <2>1, <2>2 DEF Written, f
  <2> QED BY <2>3 DEF s
<1> QED BY <1>5, <1>11, <1>12 DEF f

\* Such a file keeps the committed records.
LEMMA WrittenRewrites ==
    ASSUME LogInv, write_record, NEW s, Written(s)
    PROVE  Rewrites(s)
<1>1. /\ call.written \in Nat /\ active.n \in Nat /\ Len(file.slots) \in Nat
  BY ActiveFacts DEF write_record, At, LogInv, CallInv, CallTypes, Writing
<1>2. Len(s) \in Nat /\ active.n + call.written + 1 <= Len(s)
  BY DEF Written
<1>3. active.n <= Len(s) /\ \A k \in 1..active.n : k \in 1..Len(s) /\ k # active.n + call.written + 1
  BY <1>1, <1>2
<1> QED BY <1>3 DEF Written, Rewrites

\* SetSlots and the fsyncs change the slots of no other file.
LEMMA SetRewritten ==
    ASSUME LogInv, up, active # None, NEW s \in Seq(Slot), SetSlots(s),
           UNCHANGED <<idx, up, active, evicted>>
    PROVE  FileRewritten(s)
<1>1. active.base \in DOMAIN segs /\ segs[active.base] \in File
  BY ActiveFacts DEF file
<1>2. segs[active.base] = [slots |-> segs[active.base].slots, synced |-> segs[active.base].synced]
  BY <1>1 DEF File
<1> QED BY <1>1, <1>2 DEF SetSlots, FileRewritten

\* An fsync changes no slot.
LEMMA SyncRewritten ==
    ASSUME LogInv, up, active # None,
           segs' = [segs EXCEPT ![active.base].synced = Len(file.slots)] \/ segs' = segs,
           UNCHANGED <<idx, up, active, evicted>>
    PROVE  FileRewritten(file.slots)
<1>1. active.base \in DOMAIN segs /\ segs[active.base] \in File
  BY ActiveFacts DEF file
<1>2. segs[active.base] = [slots |-> segs[active.base].slots, synced |-> segs[active.base].synced]
  BY <1>1 DEF File
<1> QED BY <1>1, <1>2 DEF FileRewritten, file

\* The steps that touch the active file and write no record only cut it.
LEMMA FileSteps ==
    ASSUME LogInv,
           \/ sync_all \/ RollSync \/ SyncSentinel \/ WriteSentinel
           \/ WriteErr \/ SyncErr \/ RollErr
    PROVE  up /\ active # None /\ \E s : Cuts(s) /\ FileRewritten(s)
<1>1. /\ up /\ active # None /\ UNCHANGED <<idx, up, active, evicted>>
      /\ call.pc \in Writing \cup Rolling
  BY DEF sync_all, RollSync, SyncSentinel, WriteSentinel, WriteErr, SyncErr, RollErr, At,
         LogInv, CallInv, CallTypes, Writing, Rolling, memory, history
<1>3. CASE \/ segs' = segs
           \/ segs' = [segs EXCEPT ![active.base].synced = Len(file.slots)]
  BY <1>1, <1>3, SyncRewritten, SameCuts
<1>4. CASE WriteSentinel
  <2> DEFINE s == truncated \o <<Sentinel>>
  <2>1. Cuts(s) /\ SetSlots(s)
    BY <1>1, <1>4, SentinelCuts DEF WriteSentinel
  <2> HIDE DEF s
  <2>2. FileRewritten(s)
    BY <1>1, <2>1, SetRewritten DEF Cuts
  <2> QED BY <1>1, <2>1, <2>2
<1>5. CASE SetSlots(truncated)
  <2>1. active.n \in active.n..Len(file.slots)
    BY <1>1, ActiveFacts
  <2>2. Cuts(truncated)
    BY <1>1, <2>1, PrefixCuts DEF truncated
  <2>3. FileRewritten(truncated)
    BY <1>1, <1>5, <2>2, SetRewritten DEF Cuts
  <2> QED BY <1>1, <2>2, <2>3
<1>6. CASE WriteErr /\ SetSlots(SubSeq(file.slots, 1, active.n + call.written))
  <2> DEFINE n == active.n + call.written
             s == SubSeq(file.slots, 1, n)
  <2>1. Good(file.slots, active.base, n) /\ call.written \in Nat
    BY <1>6 DEF WriteErr, At, LogInv, CallInv, CallTypes, BatchWritten, Writing
  <2>2. n \in active.n..Len(file.slots)
    <3>1. n \in 0..Len(file.slots)
      BY <2>1 DEF Good
    <3> QED BY <1>1, <2>1, <3>1, ActiveFacts
  <2>3. Cuts(s)
    BY <1>1, <2>2, PrefixCuts
  <2>4. SetSlots(s)
    BY <1>6
  <2> HIDE DEF s
  <2>5. FileRewritten(s)
    BY <1>1, <2>3, <2>4, SetRewritten DEF Cuts
  <2> QED BY <1>1, <2>3, <2>5
<1> QED BY <1>3, <1>4, <1>5, <1>6
        DEF sync_all, RollSync, SyncSentinel, WriteErr, SyncErr, RollErr

\* write_record changes one slot of the active file.
LEMMA WriteFile ==
    ASSUME LogInv, write_record
    PROVE  up /\ active # None /\ \E s : Written(s) /\ FileRewritten(s)
<1>1. up /\ active # None /\ UNCHANGED <<idx, up, active, evicted>>
  BY DEF write_record, At, LogInv, CallInv, CallTypes, Writing, memory, history
<1>2. PICK s : Written(s) /\ SetSlots(s)
  BY RecordWritten
<1>3. FileRewritten(s)
  BY <1>1, <1>2, SetRewritten DEF Written
<1> QED BY <1>1, <1>2, <1>3

-----------------------------------------------------------------------------
\* The other steps that touch files or struct.

\* The new file of ensure_active is empty, and so was the one it replaces.
LEMMA CreatedKeeps ==
    ASSUME LogInv, EvictedFits, Leftovers, ensure_active \/ EnsureActiveErr
    PROVE  Kept /\ NothingNew
<1>1. /\ up /\ active = None /\ idx' = idx /\ up' = up /\ evicted' = evicted
      /\ watermark' = watermark
      /\ segs' = segs \/ segs' = Assign(segs, next_offset, Fresh)
      /\ \/ active' = None
         \/ /\ segs' = Assign(segs, next_offset, Fresh)
            /\ active' = [base |-> next_offset, n |-> 0, due |-> FALSE]
  BY DEF ensure_active, EnsureActiveErr, At, LogInv, CallInv, CallTypes, memory, history, Fresh
<1>2. CASE segs' = segs /\ active' = None
  BY <1>1, <1>2, UnmovedKeeps
<1>3. CASE segs' = Assign(segs, next_offset, Fresh)
  <2>1. next_offset \notin DOMAIN idx /\ DOMAIN segs' = DOMAIN segs \cup {next_offset}
    BY <1>1, <1>3, CreatedOnDisk
  <2>2. segs'[next_offset].slots = <<>> /\ \A b \in DOMAIN segs : b # next_offset => segs'[b] = segs[b]
    BY <1>3 DEF Assign, Fresh
  <2>3. \A b \in DOMAIN segs : b = next_offset => durable(b) = 0
    BY <1>1, <2>1 DEF durable, held, isActive
  <2>4. \A b \in DOMAIN segs : b # next_offset => durable(b)' = durable(b)
    BY <1>1 DEF durable, held, isActive
  <2>5. /\ Len(evicted) \in Nat
        /\ \A b \in DOMAIN segs : durable(b) \in Nat /\ Len(segs[b].slots) \in Nat
    BY StoredFacts DEF StoreSound
  <2>6. ASSUME NEW b \in DOMAIN segs, NEW k \in 1..durable(b)
        PROVE  b \in DOMAIN segs' /\ k \in 1..durable(b)' /\ segs'[b].slots[k] = segs[b].slots[k]
    <3>1. b # next_offset
      BY <2>3
    <3> QED BY <2>1, <2>2, <2>4, <3>1
  <2>7. Kept
    BY <1>1, <2>5, <2>6 DEF Kept
  <2>8. \A b \in DOMAIN segs : \A k \in 1..Len(segs[b].slots) : k > durable(b) \/ k \in 1..durable(b)
    BY <2>5
  <2>9. ASSUME NEW b \in DOMAIN segs', NEW k \in 1..Len(segs'[b].slots)
        PROVE  \/ segs'[b].slots[k] = Sentinel
               \/ ~Acked(segs'[b].slots[k].id)
               \/ b \in DOMAIN segs /\ k \in 1..durable(b) /\ segs'[b].slots[k] = segs[b].slots[k]
    <3>1. b # next_offset
      <4>1. Len(<<>>) = 0 /\ 1..0 = {}
        OBVIOUS
      <4> QED BY <2>2, <4>1
    <3>2. b \in DOMAIN segs /\ segs'[b] = segs[b]
      BY <2>1, <2>2, <3>1
    <3> QED BY <2>8, <3>2 DEF Leftovers
  <2>10. NothingNew
    BY <1>1, <2>9 DEF NothingNew
  <2> QED BY <2>7, <2>10
<1> QED BY <1>1, <1>2, <1>3

\* A step that leaves the files alone and lowers no number of durable records.
LEMMA RaisedKeeps ==
    ASSUME LogInv, EvictedFits, Leftovers, segs' = segs, evicted' = evicted,
           \A b \in DOMAIN segs : durable(b)' \in Nat /\ durable(b) <= durable(b)'
    PROVE  Kept /\ NothingNew
<1>1. /\ Len(evicted) \in Nat
      /\ \A b \in DOMAIN segs : durable(b) \in Nat /\ Len(segs[b].slots) \in Nat
  BY StoredFacts DEF StoreSound
<1>2. \A b \in DOMAIN segs : \A k \in 1..durable(b) : k \in 1..durable(b)'
  BY <1>1
<1>3. Kept
  BY <1>1, <1>2 DEF Kept
<1>4. \A b \in DOMAIN segs : \A k \in 1..Len(segs[b].slots) : k > durable(b) \/ k \in 1..durable(b)
  BY <1>1
<1>5. NothingNew
  BY <1>4 DEF NothingNew, Leftovers
<1> QED BY <1>3, <1>5

\* What the commit point does.
LEMMA CommitFacts ==
    ASSUME LogInv, PlainCommit
    PROVE  /\ up /\ active # None /\ call.pc = "commit" /\ call.id \in Batches
           /\ segs' = segs /\ idx' = idx /\ up' = up /\ evicted' = evicted /\ calls' = calls
           /\ active' \in ActiveSegment /\ active' # None /\ active'.base = active.base
           /\ active'.n = active.n + call.size /\ (active.due => active'.due)
           /\ call.size \in Nat /\ call.written = call.size
           /\ \/ active'.due /\ Goto("roll_sync") /\ result' = result
              \/ ~active'.due /\ Return("Ok")
<1>1. /\ up /\ active # None /\ call.pc = "commit" /\ call.id \in Batches
      /\ segs' = segs /\ idx' = idx /\ up' = up /\ evicted' = evicted /\ calls' = calls
      /\ call.size \in Nat /\ call.written \in Nat
  BY DEF PlainCommit, CommitBatch, At, LogInv, CallInv, CallTypes, Writing, disk
<1>2. call.written = call.size
  <2>1. call.written <= call.size /\ ~(call.written < call.size)
    BY <1>1 DEF LogInv, CallInv, BatchWritten, Writing
  <2> QED BY <1>1, <2>1
<1>3. active \in ActiveSegment /\ active.n \in Nat /\ active.due \in BOOLEAN
  BY <1>1, ActiveFacts DEF ActiveSegment
<1>4. PICK aged \in BOOLEAN :
        LET n   == active.n + call.size
            due == active.due \/ aged \/ n >= MaxRecords
        IN  /\ active' = [active EXCEPT !.n = n, !.due = due]
            /\ IF due THEN Goto("roll_sync") /\ result' = result ELSE Return("Ok")
  BY DEF PlainCommit, CommitBatch, batchEnd
<1> DEFINE d == active.due \/ aged \/ active.n + call.size >= MaxRecords
<1>5. /\ d \in BOOLEAN /\ (active.due => d)
      /\ active' = [active EXCEPT !.n = active.n + call.size, !.due = d]
      /\ IF d THEN Goto("roll_sync") /\ result' = result ELSE Return("Ok")
  BY <1>3, <1>4
<1> HIDE DEF d
<1>6. /\ active' \in ActiveSegment /\ active'.base = active.base /\ active'.due = d
      /\ active'.n = active.n + call.size
  <2>1. active.n + call.size \in Nat
    BY <1>1, <1>3
  <2> QED BY <1>3, <1>5, <2>1 DEF ActiveSegment
<1>7. active' # None
  BY <1>6, LogAssumption
<1> QED BY <1>1, <1>2, <1>5, <1>6, <1>7

\* The commit point, the index and the end of the roll are such steps.
LEMMA RollKeeps ==
    ASSUME LogInv, EvictedFits, Leftovers, PlainCommit \/ write_index \/ CloseSegment
    PROVE  Kept /\ NothingNew
<1>1. /\ up /\ active # None /\ segs' = segs /\ evicted' = evicted /\ up' = up
      /\ active.n \in Nat /\ call.size \in Nat
  <2>1. up /\ active # None /\ segs' = segs /\ evicted' = evicted /\ up' = up /\ call.size \in Nat
    BY DEF PlainCommit, CommitBatch, write_index, CloseSegment, At, LogInv, CallInv, CallTypes, Writing, Rolling,
           disk, history
  <2> QED BY <2>1, ActiveFacts
<1>2. \A b \in DOMAIN segs : durable(b) \in Nat
  BY StoredFacts DEF StoreSound
<1>3. CASE PlainCommit
  <2>1. /\ idx' = idx /\ active' # None /\ active'.base = active.base
        /\ active'.n = active.n + call.size
    BY <1>3, CommitFacts
  <2>2. \A b \in DOMAIN segs : durable(b)' \in Nat /\ durable(b) <= durable(b)'
    BY <1>1, <1>2, <2>1 DEF durable, held, isActive
  <2> QED BY <1>1, <2>2, RaisedKeeps
<1>4. CASE write_index
  <2>1. idx' = Assign(idx, active.base, active.n) /\ active' = active
    BY <1>4 DEF write_index, memory
  <2>2. /\ DOMAIN idx' = DOMAIN idx \cup {active.base} /\ idx'[active.base] = active.n
        /\ \A b \in DOMAIN idx : b # active.base => idx'[b] = idx[b]
    BY <2>1 DEF Assign
  <2>3. durable(active.base) <= active.n
    <3>1. active.base \in DOMAIN segs
      BY <1>1, ActiveFacts
    <3> QED BY <1>1, <3>1, StoredFacts DEF StoreSound, held, isActive
  <2>4. \A b \in DOMAIN segs : durable(b)' = IF b = active.base THEN active.n ELSE durable(b)
    BY <1>1, <2>1, <2>2 DEF durable, held, isActive
  <2> QED BY <1>1, <1>2, <2>3, <2>4, RaisedKeeps
<1>5. CASE CloseSegment
  <2>1. idx' = idx /\ active' = None /\ active.base \in DOMAIN idx
    BY <1>5 DEF CloseSegment, disk, At, LogInv, CallInv, RollReady
  <2>2. \A b \in DOMAIN segs : durable(b)' = durable(b)
    BY <1>1, <2>1 DEF durable, held, isActive
  <2> QED BY <1>1, <1>2, <2>2, RaisedKeeps
<1> QED BY <1>3, <1>4, <1>5

\* The records of a deleted segment are kept among the evicted ones.
LEMMA DeleteKeeps ==
    ASSUME LogInv, EvictedFits, Leftovers, delete_segment
    PROVE  Kept /\ NothingNew
<1> DEFINE b0 == Head(closed).base
           n == idx[b0]
<1>1. /\ up /\ up' = up /\ active' = active
      /\ idx' = idx \/ idx' = Without(idx, b0)
  BY DEF delete_segment, At
<1>2. Deleted(b0, n)
  BY DeletedFront
<1> HIDE DEF b0, n
<1>3. durable(b0) = n /\ b0 \in DOMAIN segs /\ n \in Nat /\ b0 \in Nat
  BY <1>2 DEF Deleted, durable, LogInv, DiskInv, DiskTypes
<1>4. /\ DOMAIN segs' = DOMAIN segs \ {b0}
      /\ \A b \in DOMAIN segs : b # b0 => segs'[b] = segs[b]
  BY <1>2 DEF Deleted, Without
<1>5. \A b \in DOMAIN segs : b # b0 => durable(b)' = durable(b)
  <2>1. \A b : b # b0 => (b \in DOMAIN idx' <=> b \in DOMAIN idx) /\ (b \in DOMAIN idx => idx'[b] = idx[b])
    BY <1>1 DEF Without
  <2> QED BY <1>1, <2>1 DEF durable, held, isActive
<1>6. \A b \in DOMAIN segs : durable(b) \in Nat /\ Len(segs[b].slots) \in Nat
  BY StoredFacts DEF StoreSound
<1>7. Kept
  <2>1. Len(evicted) <= Len(evicted') /\ \A j \in 1..Len(evicted) : evicted'[j] = evicted[j]
    BY <1>2, <1>3 DEF Deleted
  <2>2. ASSUME NEW b \in DOMAIN segs, NEW k \in 1..durable(b)
        PROVE  \/ b \in DOMAIN segs' /\ k \in 1..durable(b)' /\ segs'[b].slots[k] = segs[b].slots[k]
               \/ b + k \in 1..Len(evicted') /\ evicted'[b + k] = segs[b].slots[k]
    <3>1. CASE b = b0
      BY <1>2, <1>3, <3>1, SMTT(30) DEF Deleted
    <3>2. CASE b # b0
      BY <1>4, <1>5, <3>2
    <3> QED BY <3>1, <3>2
  <2> QED BY <2>1, <2>2 DEF Kept
<1>8. \A b \in DOMAIN segs : \A k \in 1..Len(segs[b].slots) : k > durable(b) \/ k \in 1..durable(b)
  BY <1>6
<1>9. NothingNew
  <2>1. ASSUME NEW b \in DOMAIN segs', NEW k \in 1..Len(segs'[b].slots)
        PROVE  \/ segs'[b].slots[k] = Sentinel
               \/ ~Acked(segs'[b].slots[k].id)
               \/ b \in DOMAIN segs /\ k \in 1..durable(b) /\ segs'[b].slots[k] = segs[b].slots[k]
    <3>1. b \in DOMAIN segs /\ segs'[b] = segs[b]
      BY <1>4
    <3> QED BY <1>8, <3>1 DEF Leftovers
  <2>2. ASSUME NEW j \in 1..Len(evicted'), j \notin 1..Len(evicted)
        PROVE  \E b \in DOMAIN segs : \E k \in 1..durable(b) : j = b + k /\ evicted'[j] = segs[b].slots[k]
    <3>1. j - b0 \in 1..durable(b0) /\ j = b0 + (j - b0)
      BY <1>2, <1>3, <2>2 DEF Deleted
    <3>2. evicted'[j] = segs[b0].slots[j - b0]
      BY <1>2, <1>3, <3>1 DEF Deleted
    <3> QED BY <1>3, <3>1, <3>2
  <2> QED BY <2>1, <2>2 DEF NothingNew
<1> QED BY <1>7, <1>9

\* b's file after the step is what it was, perhaps cut behind its durable records.
Cut(b) ==
    /\ Len(segs'[b].slots) \in Nat /\ Len(segs'[b].slots) <= Len(segs[b].slots)
    /\ \A k \in 1..Len(segs'[b].slots) : segs'[b].slots[k] = segs[b].slots[k]
    /\ durable(b) <= Len(segs'[b].slots)

CutsOnly ==
    /\ DOMAIN segs' = DOMAIN segs /\ evicted' = evicted
    /\ \A b \in DOMAIN segs : Cut(b) /\ durable(b)' \in Nat /\ durable(b) <= durable(b)'

\* A step that cuts files behind what is durable in them.
LEMMA CutKeeps ==
    ASSUME LogInv, EvictedFits, Leftovers, CutsOnly
    PROVE  Kept /\ NothingNew
<1>0. /\ DOMAIN segs' = DOMAIN segs /\ evicted' = evicted
      /\ \A b \in DOMAIN segs : Cut(b) /\ durable(b)' \in Nat /\ durable(b) <= durable(b)'
  BY DEF CutsOnly
<1>1. /\ Len(evicted) \in Nat
      /\ \A b \in DOMAIN segs : durable(b) \in Nat /\ Len(segs[b].slots) \in Nat
  BY StoredFacts DEF StoreSound
<1>2. \A b \in DOMAIN segs : \A k \in 1..durable(b) : k \in 1..durable(b)' /\ k \in 1..Len(segs'[b].slots)
  BY <1>0, <1>1 DEF Cut
<1>3. Kept
  BY <1>0, <1>1, <1>2 DEF Kept, Cut
<1>4. \A b \in DOMAIN segs : \A k \in 1..Len(segs[b].slots) : k > durable(b) \/ k \in 1..durable(b)
  BY <1>1
<1>5. ASSUME NEW b \in DOMAIN segs, NEW k \in 1..Len(segs'[b].slots)
      PROVE  \/ segs'[b].slots[k] = Sentinel
             \/ ~Acked(segs'[b].slots[k].id)
             \/ k \in 1..durable(b) /\ segs'[b].slots[k] = segs[b].slots[k]
  <2>1. k \in 1..Len(segs[b].slots) /\ segs'[b].slots[k] = segs[b].slots[k]
    BY <1>0, <1>1 DEF Cut
  <2> QED BY <1>4, <2>1 DEF Leftovers
<1>6. NothingNew
  BY <1>0, <1>5 DEF NothingNew
<1> QED BY <1>3, <1>6

\* A slot sequence that is cut, and its records.
LEMMA CutSlots ==
    ASSUME NEW s \in Seq(Slot), NEW n \in 0..Len(s), NEW t, t = SubSeq(s, 1, n)
    PROVE  /\ t \in Seq(Slot) /\ Len(t) = n /\ \A k \in 1..n : t[k] = s[k]
           /\ \A b, m : Good(s, b, m) /\ m <= n => Good(t, b, m)
<1>1. Len(s) \in Nat /\ n \in Nat /\ \A i \in 1..Len(s) : s[i] \in Slot
  BY ElementOfSeq, LenProperties
<1>2. t \in Seq(Slot) /\ Len(t) = n /\ \A k \in 1..n : t[k] = s[k]
  BY <1>1
<1>3. ASSUME NEW b, NEW m, Good(s, b, m), m <= n PROVE Good(t, b, m)
  <2>1. m \in 0..n /\ \A i \in 1..m : i \in 1..n
    BY <1>1, <1>3 DEF Good
  <2> QED BY <1>2, <1>3, <2>1 DEF Good
<1> QED BY <1>2, <1>3

RecoversAll ==
    \A b \in DOMAIN segs : /\ recovered(b) \in Nat
                           /\ \A m : Good(segs[b].slots, b, m) => m <= recovered(b)

\* recover_active finds every record that is there.
LEMMA RecoveredAll == DiskTypes => RecoversAll
BY RecoveredGood DEF RecoversAll

\* A crash leaves the synced part of every file.
LEMMA CrashCuts ==
    ASSUME LogInv, EvictedFits, LogInv', PlainCrash
    PROVE  CutsOnly
<1>1. /\ up /\ ~up' /\ idx' = idx /\ evicted' = evicted /\ DOMAIN segs' = DOMAIN segs
  BY DEF PlainCrash, Crash
<1>2. /\ Len(evicted) \in Nat
      /\ \A b \in DOMAIN segs : /\ durable(b) \in Nat /\ Len(segs[b].slots) \in Nat
                                /\ segs[b].slots \in Seq(Slot) /\ b \in Nat
  BY StoredFacts DEF StoreSound
<1>3. ASSUME NEW b \in DOMAIN segs
      PROVE  durable(b) <= segs[b].synced /\ Good(segs[b].slots, b, durable(b)) /\ segs[b].synced \in Nat
  <2>1. segs[b].synced \in Nat
    BY DEF LogInv, DiskInv, DiskTypes, File
  <2>2. CASE b \in DOMAIN idx
    BY <2>1, <2>2 DEF durable, LogInv, DiskInv, IndexFits, Indexed
  <2>3. CASE b \notin DOMAIN idx /\ isActive(b)
    BY <1>1, <2>1, <2>3, ActiveFacts DEF durable, held, isActive, file
  <2>4. CASE b \notin DOMAIN idx /\ ~isActive(b)
    <3>1. durable(b) = 0
      BY <1>1, <2>4 DEF durable, held
    <3> QED BY <1>2, <2>1, <3>1 DEF Good
  <2> QED BY <2>2, <2>3, <2>4
<1>4. ASSUME NEW b \in DOMAIN segs
      PROVE  Cut(b) /\ Good(segs'[b].slots, b, durable(b))
  <2>1. CASE segs'[b].slots = segs[b].slots
    <3>1. durable(b) <= Len(segs[b].slots)
      BY <1>3 DEF Good
    <3> QED BY <1>2, <1>3, <2>1, <3>1 DEF Cut
  <2>2. ASSUME NEW n \in segs[b].synced..(Len(segs[b].slots) - 1),
               segs'[b].slots = SubSeq(segs[b].slots, 1, n)
        PROVE  Cut(b) /\ Good(segs'[b].slots, b, durable(b))
    <3> DEFINE s == segs[b].slots
               t == segs'[b].slots
               m == durable(b)
    <3>1. s \in Seq(Slot) /\ n \in 0..Len(s) /\ t = SubSeq(s, 1, n) /\ Good(s, b, m) /\ m <= n
      BY <1>2, <1>3, <2>2
    <3>2. Len(s) \in Nat /\ n <= Len(s) /\ n \in Nat
      BY <1>2, <3>1
    <3> HIDE DEF s, t, m
    <3>3. Len(t) = n /\ (\A k \in 1..n : t[k] = s[k]) /\ Good(t, b, m)
      BY <3>1, CutSlots
    <3> QED BY <3>1, <3>2, <3>3 DEF Cut, s, t, m
  <2>3. \/ segs'[b].slots = segs[b].slots
        \/ \E n \in segs[b].synced..(Len(segs[b].slots) - 1) : segs'[b].slots = SubSeq(segs[b].slots, 1, n)
    <3>1. segs[b] \in File
      BY DEF LogInv, DiskInv, DiskTypes
    <3>2. segs[b] = [slots |-> segs[b].slots, synced |-> segs[b].synced]
      BY <3>1 DEF File
    <3>3. CASE segs' = segs
      BY <3>3
    <3>4. ASSUME NEW c \in DOMAIN segs, NEW n \in segs[c].synced..(Len(segs[c].slots) - 1),
                 segs' = [segs EXCEPT ![c].slots = SubSeq(@, 1, n)]
          PROVE  \/ segs'[b].slots = segs[b].slots
                 \/ c = b /\ segs'[b].slots = SubSeq(segs[b].slots, 1, n)
      BY <3>2, <3>4
    <3> QED BY <3>3, <3>4 DEF PlainCrash, Crash
  <2> QED BY <2>1, <2>2, <2>3
<1>5. ASSUME NEW b \in DOMAIN segs
      PROVE  durable(b)' \in Nat /\ durable(b) <= durable(b)'
  <2>1. CASE b \in DOMAIN idx
    BY <1>1, <1>2, <2>1 DEF durable
  <2>2. CASE b \notin DOMAIN idx
    <3>1. durable(b)' = recovered(b)'
      BY <1>1, <2>2 DEF durable, held, recordsIn
    <3>2. (DiskTypes => RecoversAll)'
      BY RecoveredAll, PTL
    <3>3. DiskTypes' /\ b \in DOMAIN segs'
      BY <1>1 DEF LogInv, DiskInv
    <3>4. \A m : Good(segs'[b].slots, b, m) => m <= recovered(b)'
      BY <3>2, <3>3 DEF Good, RecoversAll
    <3>5. recovered(b)' \in Nat
      BY <3>2, <3>3 DEF RecoversAll
    <3> QED BY <1>4, <3>1, <3>4, <3>5
  <2> QED BY <2>1, <2>2
<1>6. \A b \in DOMAIN segs : Cut(b) /\ durable(b)' \in Nat /\ durable(b) <= durable(b)'
  BY <1>4, <1>5
<1> QED BY <1>1, <1>6 DEF CutsOnly

\* open() cuts what it did not recover.
LEMMA OpenCuts ==
    ASSUME LogInv, EvictedFits, Open
    PROVE  CutsOnly
<1>1. /\ ~up /\ up' /\ idx' = idx /\ evicted' = evicted /\ DOMAIN segs' = DOMAIN segs
      /\ DiskInv /\ DiskTypes
  BY OpenKeepsBases DEF Open, LogInv, DiskInv
<1>2. \A b \in DOMAIN segs : /\ durable(b) \in Nat /\ Len(segs[b].slots) \in Nat /\ b \in Nat
                             /\ segs[b].slots \in Seq(Slot) /\ durable(b) <= Len(segs[b].slots)
  <2>1. \A b \in DOMAIN segs : /\ durable(b) \in Nat /\ Len(segs[b].slots) \in Nat /\ b \in Nat
                               /\ segs[b].slots \in Seq(Slot) /\ durable(b) <= held(b)
                               /\ held(b) \in Nat /\ held(b) <= Len(segs[b].slots)
    BY StoredFacts DEF StoreSound
  <2> QED BY <2>1
<1>3. CASE Unindexed = {}
  <2>1. segs' = segs /\ \A b \in DOMAIN segs : b \in DOMAIN idx
    BY <1>3 DEF Open, Unindexed
  <2>2. \A b \in DOMAIN segs : durable(b)' = durable(b) /\ Cut(b)
    BY <1>1, <1>2, <2>1 DEF durable, Cut
  <2> QED BY <1>1, <1>2, <2>2 DEF CutsOnly
<1>4. CASE Unindexed # {}
  <2>1. PICK a \in Unindexed : TRUE
    BY <1>4
  <2>2. Unindexed = {a} /\ Highest(Unindexed) = a /\ a \in DOMAIN segs /\ a \notin DOMAIN idx
    BY <1>1, OpenSegmentIs
  <2> DEFINE n == recovered(a)
  <2>3. /\ active' = [base |-> a, n |-> n, due |-> FALSE]
        /\ segs' = [b \in Indexed \cup {a} |->
                      IF b = a THEN [slots |-> SubSeq(segs[a].slots, 1, n), synced |-> n]
                      ELSE segs[b]]
    BY <1>4, <2>2 DEF Open
  <2>4. n \in Nat /\ n \in 0..Len(segs[a].slots)
    BY <1>1, <2>2, RecoveredGood DEF Good
  <2>5. active' # None /\ active'.base = a /\ active'.n = n
    <3>1. active' \in ActiveSegment
      BY <1>2, <2>2, <2>3, <2>4 DEF ActiveSegment
    <3> QED BY <2>3, <3>1, LogAssumption
  <2>6. durable(a) = n
    BY <1>1, <2>2 DEF durable, held, recordsIn
  <2>7. durable(a)' = n
    BY <1>1, <2>2, <2>5 DEF durable, held, isActive
  <2>8. \A b \in DOMAIN segs : b # a => b \in DOMAIN idx /\ segs'[b] = segs[b]
    BY <2>2, <2>3 DEF Indexed, Unindexed
  <2>9. segs'[a].slots = SubSeq(segs[a].slots, 1, n)
    BY <2>3
  <2> HIDE DEF n
  <2>10. Cut(a)
    <3> DEFINE s == segs[a].slots
               t == segs'[a].slots
    <3>1. s \in Seq(Slot) /\ n \in 0..Len(s) /\ t = SubSeq(s, 1, n) /\ Len(s) \in Nat
      BY <1>2, <2>2, <2>4, <2>9
    <3> HIDE DEF s, t
    <3>2. Len(t) = n /\ (\A k \in 1..n : t[k] = s[k])
      BY <3>1, CutSlots
    <3> QED BY <2>4, <2>6, <3>1, <3>2 DEF Cut, s, t
  <2>11. \A b \in DOMAIN segs : b # a => Cut(b) /\ durable(b)' = durable(b)
    BY <1>1, <1>2, <2>8 DEF Cut, durable
  <2>12. \A b \in DOMAIN segs : Cut(b) /\ durable(b)' \in Nat /\ durable(b) <= durable(b)'
    BY <1>2, <2>4, <2>6, <2>7, <2>10, <2>11
  <2> QED BY <1>1, <2>12 DEF CutsOnly
<1> QED BY <1>3, <1>4

-----------------------------------------------------------------------------
\* The steps that leave files, struct and evicted records alone.
LEMMA UnmovedSteps ==
    ASSUME \/ PositionErr \/ WatermarkErr \/ DeleteErr \/ RetentionDone \/ Cancel \/ write_watermark
           \/ (\E n \in Sizes : AppendCall(n)) \/ UNCHANGED vars
    PROVE  UNCHANGED <<segs, idx, up, active, evicted>>
BY DEF PositionErr, WatermarkErr, DeleteErr, RetentionDone, Cancel, write_watermark, AppendCall, vars,
       disk, memory, history

\* The records of a call that is still writing are not acknowledged.
LEMMA NotAckedYet ==
    ASSUME LogInv, IdsUsed, call.pc \in {"ensure_active"} \cup Writing \cup Rolling
    PROVE  ~Acked(call.id)
<1>1. call.pc # "idle" /\ call.pc \notin AfterRoll
  BY DEF Writing, Rolling, AfterRoll
<1>2. result[call.id] # "Ok"
  BY <1>1, LogAssumption DEF IdsUsed
<1> QED BY <1>1, <1>2 DEF Acked

\* Every step keeps what is durable and makes nothing acknowledged appear.
LEMMA StepKeeps ==
    ASSUME LogInv, EvictedFits, LogInv', IdsUsed, Leftovers, [PlainNext]_vars
    PROVE  Kept /\ NothingNew
<1>1. CASE ensure_active \/ EnsureActiveErr
  BY <1>1, CreatedKeeps
<1>2. CASE PlainCommit \/ write_index \/ CloseSegment
  BY <1>2, RollKeeps
<1>3. CASE delete_segment
  BY <1>3, DeleteKeeps
<1>4. CASE PlainCrash
  BY <1>4, CrashCuts, CutKeeps
<1>5. CASE Open
  BY <1>5, OpenCuts, CutKeeps
<1>6. CASE write_record
  <2>1. ~Acked(call.id)
    BY <1>6, NotAckedYet DEF write_record, At, Writing
  <2>2. up /\ active # None
    BY <1>6, WriteFile
  <2>3. PICK s : Written(s) /\ FileRewritten(s)
    BY <1>6, WriteFile
  <2>4. Rewrites(s)
    BY <1>6, <2>3, WrittenRewrites
  <2> QED BY <2>1, <2>2, <2>3, <2>4, RewriteKeeps
<1>7. CASE \/ sync_all \/ RollSync \/ SyncSentinel \/ WriteSentinel
           \/ WriteErr \/ SyncErr \/ RollErr
  <2>1. ~Acked(call.id)
    <3>1. call.pc \in Writing \cup Rolling
      BY <1>7 DEF sync_all, RollSync, SyncSentinel, WriteSentinel, WriteErr, SyncErr, RollErr, At,
                  Writing, Rolling
    <3> QED BY <3>1, NotAckedYet
  <2>2. up /\ active # None
    BY <1>7, FileSteps
  <2>3. PICK s : Cuts(s) /\ FileRewritten(s)
    BY <1>7, FileSteps
  <2>4. Rewrites(s)
    BY <2>3 DEF Cuts, Rewrites
  <2> QED BY <2>1, <2>2, <2>3, <2>4, RewriteKeeps
<1>8. CASE \/ PositionErr \/ WatermarkErr \/ DeleteErr \/ RetentionDone \/ Cancel \/ write_watermark
           \/ (\E n \in Sizes : AppendCall(n)) \/ UNCHANGED vars
  BY <1>8, UnmovedSteps, UnmovedKeeps
<1> QED BY <1>1, <1>2, <1>3, <1>4, <1>5, <1>6, <1>7, <1>8 DEF PlainNext, QuietStep, Progress

-----------------------------------------------------------------------------
\* Where the slots of the files come from.

\* Every slot was there before, or is the sentinel.
SlotsOld ==
    \A b \in DOMAIN segs' : \A k \in 1..Len(segs'[b].slots) :
        \/ segs'[b].slots[k] = Sentinel
        \/ b \in DOMAIN segs /\ k \in 1..Len(segs[b].slots) /\ segs'[b].slots[k] = segs[b].slots[k]

\* Only write_record writes a record.
LEMMA OldSlots ==
    ASSUME LogInv, EvictedFits, LogInv', [PlainNext]_vars, ~write_record
    PROVE  SlotsOld
<1>1. CASE \A b \in DOMAIN segs' : b \in DOMAIN segs /\ segs'[b].slots = segs[b].slots
  BY <1>1 DEF SlotsOld
<1>2. CASE segs' = segs
  BY <1>1, <1>2
<1>3. CASE \/ sync_all \/ RollSync \/ SyncSentinel \/ WriteSentinel
           \/ WriteErr \/ SyncErr \/ RollErr
  <2>1. PICK s : Cuts(s) /\ FileRewritten(s)
    BY <1>3, FileSteps
  <2>2. \A k \in 1..Len(s) : s[k] = Sentinel \/ (k \in 1..Len(file.slots) /\ s[k] = file.slots[k])
    BY <2>1 DEF Cuts
  <2> QED BY <2>1, <2>2 DEF FileRewritten, SlotsOld, file
<1>4. CASE ensure_active \/ EnsureActiveErr
  <2>1. segs' = segs \/ segs' = Assign(segs, next_offset, Fresh)
    BY <1>4 DEF ensure_active, EnsureActiveErr, Fresh
  <2>2. CASE segs' = Assign(segs, next_offset, Fresh)
    <3>1. /\ segs'[next_offset].slots = <<>>
          /\ \A b \in DOMAIN segs' : b # next_offset => b \in DOMAIN segs /\ segs'[b] = segs[b]
      BY <2>2 DEF Assign, Fresh
    <3>2. Len(<<>>) = 0 /\ 1..0 = {}
      OBVIOUS
    <3>3. ASSUME NEW b \in DOMAIN segs', NEW k \in 1..Len(segs'[b].slots)
          PROVE  b \in DOMAIN segs /\ segs'[b] = segs[b]
      BY <3>1, <3>2
    <3> QED BY <3>3 DEF SlotsOld
  <2> QED BY <1>2, <2>1, <2>2
<1>5. CASE delete_segment
  <2>1. segs' = Without(segs, Head(closed).base)
    BY <1>5 DEF delete_segment
  <2> QED BY <1>1, <2>1 DEF Without
<1>6. CASE PlainCrash \/ Open
  <2>1. DOMAIN segs' = DOMAIN segs /\ \A b \in DOMAIN segs : Cut(b)
    BY <1>6, CrashCuts, OpenCuts DEF CutsOnly
  <2>2. \A b \in DOMAIN segs : Len(segs[b].slots) \in Nat
    BY StoredFacts DEF StoreSound
  <2>3. \A b \in DOMAIN segs : \A k \in 1..Len(segs'[b].slots) : k \in 1..Len(segs[b].slots)
    BY <2>1, <2>2 DEF Cut
  <2> QED BY <2>1, <2>3 DEF SlotsOld, Cut
<1>7. CASE \/ PositionErr \/ WatermarkErr \/ DeleteErr \/ RetentionDone \/ Cancel \/ write_watermark
           \/ (\E n \in Sizes : AppendCall(n)) \/ UNCHANGED vars
  BY <1>2, <1>7, UnmovedSteps
<1>8. CASE PlainCommit \/ write_index \/ CloseSegment
  BY <1>2, <1>8 DEF PlainCommit, CommitBatch, write_index, CloseSegment, disk
<1> QED BY <1>3, <1>4, <1>5, <1>6, <1>7, <1>8 DEF PlainNext, QuietStep, Progress

-----------------------------------------------------------------------------
\* The call in progress.

\* The step ends the call with the answer r.
Ends(r) == call' = Idle /\ result' = [result EXCEPT ![call.id] = r]

\* What each step does to the call and its result.
CallSteps ==
    \/ call' = call /\ result' = result /\ calls' = calls
    \/ /\ call.pc # "idle" /\ calls' = calls
       /\ \/ \E r \in {"Err", "LateErr", "Lost"} : Ends(r)
          \/ (RetentionDone \/ (PlainCommit /\ ~active'.due)) /\ Ends("Ok")
          \/ /\ call'.pc # "idle" /\ call'.id = call.id /\ call'.size = call.size
             /\ result' = result
    \/ /\ call.pc = "idle" /\ calls' = calls + 1 /\ calls < MaxAppends
       /\ \/ call' = call /\ result' = [result EXCEPT ![calls + 1] = "Err"]
          \/ /\ call'.pc \in {"ensure_active", "write_record"} /\ call'.id = calls + 1
             /\ call'.size \in Sizes /\ call'.written = 0 /\ result' = result

\* Calls begin with a new identity and end with one answer.
LEMMA CallStep ==
    ASSUME LogInv, [PlainNext]_vars
    PROVE  CallSteps
<1>1. call \in CallRecord /\ calls \in Nat
  BY DEF LogInv, CallInv, CallTypes, CallRecord
<1>2. CASE \E n \in Sizes : AppendCall(n)
  <2>1. PICK n \in Sizes : AppendCall(n)
    BY <1>2
  <2>2. call.pc = "idle" /\ calls' = calls + 1 /\ calls < MaxAppends
    BY <2>1 DEF AppendCall, At
  <2>3. CASE poisoned
    BY <2>1, <2>2, <2>3 DEF AppendCall, CallSteps
  <2>4. CASE ~poisoned
    <3>1. /\ call' = [pc |-> IF active = None THEN "ensure_active" ELSE "write_record",
                      id |-> calls', size |-> n, written |-> 0]
          /\ result' = result
      BY <2>1, <2>4 DEF AppendCall
    <3> QED BY <2>2, <3>1 DEF CallSteps
  <2> QED BY <2>3, <2>4
<1>3. CASE \/ EnsureActiveErr \/ WriteErr \/ SyncErr \/ PositionErr \/ RollErr
           \/ WatermarkErr \/ DeleteErr \/ Cancel
  BY <1>3
  DEF EnsureActiveErr, WriteErr, SyncErr, PositionErr, RollErr, WatermarkErr, DeleteErr, Cancel, At,
      Return, CallSteps, Ends
<1>4. CASE PlainCrash
  BY <1>4 DEF PlainCrash, Crash, Return, CallSteps, Ends
<1>5. CASE RetentionDone
  <2>1. call.pc # "idle" /\ calls' = calls /\ Ends("Ok")
    BY <1>5 DEF RetentionDone, At, Return, Ends
  <2> QED BY <1>5, <2>1 DEF CallSteps
<1>6. CASE PlainCommit
  <2>1. /\ call.pc = "commit" /\ calls' = calls
        /\ \/ Goto("roll_sync") /\ result' = result
           \/ ~active'.due /\ Return("Ok")
    BY <1>6, CommitFacts
  <2>2. CASE Goto("roll_sync") /\ result' = result
    BY <1>1, <2>1, <2>2 DEF Goto, CallSteps, CallRecord
  <2>3. CASE ~active'.due /\ Return("Ok")
    BY <1>6, <2>1, <2>3 DEF Return, CallSteps, Ends
  <2> QED BY <2>1, <2>2, <2>3
<1>7. CASE \/ ensure_active \/ sync_all \/ RollSync \/ WriteSentinel \/ SyncSentinel \/ write_index
           \/ CloseSegment \/ write_watermark
  <2>1. /\ call.pc # "idle" /\ calls' = calls /\ result' = result
        /\ \E p \in PCs : p # "idle" /\ Goto(p)
    BY <1>7
    DEF ensure_active, sync_all, RollSync, WriteSentinel, SyncSentinel, write_index, CloseSegment,
        write_watermark, At, history, PCs
  <2> QED BY <1>1, <2>1 DEF Goto, CallSteps, CallRecord
<1>8. CASE write_record
  <2>1. /\ call.pc # "idle" /\ calls' = calls /\ result' = result
        /\ call' = [call EXCEPT !.written = @ + 1,
                                !.pc = IF call.written + 1 < call.size THEN "write_record" ELSE "sync"]
    BY <1>8 DEF write_record, At, history
  <2> QED BY <1>1, <2>1 DEF CallSteps, CallRecord
<1>9. CASE Open \/ delete_segment \/ UNCHANGED vars
  BY <1>9 DEF Open, delete_segment, vars, history, CallSteps
<1> QED BY <1>2, <1>3, <1>4, <1>5, <1>6, <1>7, <1>8, <1>9 DEF PlainNext, QuietStep, Progress

\* Every step keeps IdsUsed.
LEMMA IdsStep ==
    ASSUME LogInv, EvictedFits, LogInv', EvictedFits', IdsUsed, Leftovers, [PlainNext]_vars
    PROVE  IdsUsed'
<1>1. /\ calls \in Nat /\ calls' \in Nat /\ calls <= calls' /\ MaxAppends \in Nat
      /\ call.id \in Nat /\ (call.pc # "idle" => call.id \in Batches)
      /\ result \in [Batches -> Results]
  <2>1. CallSteps
    BY CallStep
  <2>2. calls' = calls \/ calls' = calls + 1
    BY <2>1 DEF CallSteps
  <2> QED BY <2>2, LogAssumption DEF LogInv, CallInv, CallTypes, HistoryTypes, Results
<1>2. Kept /\ NothingNew
  BY StepKeeps
<1>3. ASSUME NEW b \in DOMAIN segs', NEW k \in 1..Len(segs'[b].slots)
      PROVE  segs'[b].slots[k].id <= calls'
  <2>1. CASE segs'[b].slots[k] = Sentinel
    BY <1>1, <2>1 DEF Sentinel
  <2>2. CASE b \in DOMAIN segs /\ k \in 1..Len(segs[b].slots) /\ segs'[b].slots[k] = segs[b].slots[k]
    <3>1. segs[b].slots[k].id <= calls
      BY <2>2 DEF IdsUsed
    <3>2. segs[b].slots \in Seq(Slot)
      BY <2>2 DEF LogInv, DiskInv, DiskTypes, File
    <3>3. segs[b].slots[k] \in Slot
      BY <2>2, <3>2, ElementOfSeq
    <3>4. segs[b].slots[k].id \in Nat
      BY <1>1, <3>3 DEF Slot, Record, Batches, Sentinel
    <3> QED BY <1>1, <2>2, <3>1, <3>4
  <2>3. CASE write_record /\ segs'[b].slots[k].id = call.id
    BY <1>1, <2>3 DEF write_record, At, IdsUsed, history
  <2>4. CASE write_record
    <3>1. PICK s : Written(s) /\ FileRewritten(s)
      BY <2>4, WriteFile
    <3>2. \A i \in 1..Len(s) : s[i].id = call.id \/ (i \in 1..Len(file.slots) /\ s[i] = file.slots[i])
      BY <3>1 DEF Written
    <3> QED BY <2>2, <2>3, <2>4, <3>1, <3>2 DEF FileRewritten, file
  <2>5. CASE ~write_record
    BY <2>1, <2>2, <2>5, OldSlots DEF SlotsOld
  <2> QED BY <2>4, <2>5
<1>4. ASSUME NEW j \in 1..Len(evicted') PROVE evicted'[j].id <= calls'
  <2>1. /\ Len(evicted) \in Nat /\ evicted \in Seq(Record)
        /\ \A b \in DOMAIN segs : durable(b) \in Nat /\ Len(segs[b].slots) \in Nat
                                  /\ durable(b) <= Len(segs[b].slots)
    <3>1. \A b \in DOMAIN segs : durable(b) \in Nat /\ Len(segs[b].slots) \in Nat /\ held(b) \in Nat
                                 /\ durable(b) <= held(b) /\ held(b) <= Len(segs[b].slots)
      BY StoredFacts DEF StoreSound
    <3> QED BY <3>1, LenProperties DEF LogInv, HistoryTypes
  <2>2. CASE j \in 1..Len(evicted)
    <3>1. evicted'[j] = evicted[j] /\ evicted[j].id <= calls
      BY <1>2, <2>2 DEF Kept, IdsUsed
    <3>2. evicted[j].id \in Nat
      <4>1. evicted[j] \in Record
        BY <2>1, <2>2, ElementOfSeq
      <4> QED BY <1>1, <4>1 DEF Record, Batches
    <3> QED BY <1>1, <3>1, <3>2
  <2>3. CASE \E b \in DOMAIN segs : \E k \in 1..durable(b) : j = b + k /\ evicted'[j] = segs[b].slots[k]
    <3>1. PICK b \in DOMAIN segs : \E k \in 1..durable(b) : j = b + k /\ evicted'[j] = segs[b].slots[k]
      BY <2>3
    <3>2. PICK k \in 1..durable(b) : j = b + k /\ evicted'[j] = segs[b].slots[k]
      BY <3>1
    <3>3. k \in 1..Len(segs[b].slots)
      BY <2>1
    <3>4. segs[b].slots[k].id <= calls
      BY <3>3 DEF IdsUsed
    <3>5. evicted'[j].id \in Nat
      <4>1. evicted' \in Seq(Record)
        BY DEF LogInv, HistoryTypes
      <4>2. evicted'[j] \in Record
        BY <4>1, ElementOfSeq
      <4> QED BY <1>1, <4>2 DEF Record, Batches
    <3> QED BY <1>1, <3>2, <3>4, <3>5
  <2> QED BY <1>2, <2>2, <2>3 DEF NothingNew
<1>5. /\ \A id \in Batches : result'[id] # None => id <= calls'
      /\ call'.pc # "idle" => call'.id <= calls' /\ result'[call'.id] = None /\ call'.size \in Sizes
  <2>1. /\ \A id \in Batches : id \in Nat /\ (result[id] # None => id <= calls)
        /\ call.pc # "idle" => call.id <= calls /\ result[call.id] = None /\ call.size \in Sizes
    BY <1>1 DEF IdsUsed, Batches
  <2>2. CASE call' = call /\ result' = result /\ calls' = calls
    BY <2>1, <2>2
  <2>3. CASE call.pc # "idle" /\ calls' = calls /\ \E r : Ends(r)
    <3>1. call'.pc = "idle" /\ \A id \in Batches : id = call.id \/ result'[id] = result[id]
      BY <1>1, <2>3 DEF Ends, Idle
    <3> QED BY <1>1, <2>1, <2>3, <3>1
  <2>4. CASE /\ call.pc # "idle" /\ calls' = calls
             /\ call'.pc # "idle" /\ call'.id = call.id /\ call'.size = call.size
             /\ result' = result
    BY <2>1, <2>4
  <2>5. CASE /\ call.pc = "idle" /\ calls' = calls + 1 /\ calls < MaxAppends
             /\ call' = call /\ result' = [result EXCEPT ![calls + 1] = "Err"]
    <3>1. \A id \in Batches : id = calls + 1 \/ result'[id] = result[id]
      BY <1>1, <2>5
    <3> QED BY <1>1, <2>1, <2>5, <3>1
  <2>6. CASE /\ call.pc = "idle" /\ calls' = calls + 1 /\ calls < MaxAppends
             /\ call'.id = calls + 1 /\ call'.size \in Sizes /\ result' = result
    <3>1. calls + 1 \in Batches /\ ~(calls + 1 <= calls)
      BY <1>1, <2>6 DEF Batches
    <3> QED BY <1>1, <2>1, <2>6, <3>1
  <2>7. CallSteps
    BY CallStep
  <2> QED BY <2>2, <2>3, <2>4, <2>5, <2>6, <2>7 DEF CallSteps
<1> QED BY <1>3, <1>4, <1>5 DEF IdsUsed

\* Every step keeps DueIfIndexed.
LEMMA DueStep ==
    ASSUME LogInv, DueIfIndexed, LogInv', [PlainNext]_vars
    PROVE  DueIfIndexed'
<1>1. call \in CallRecord
  BY DEF LogInv, CallInv, CallTypes, CallRecord
<1>2. CASE /\ UNCHANGED <<idx, up, active>>
           /\ call'.pc \in Rolling => call.pc \in Rolling
  BY <1>2 DEF DueIfIndexed
<1>3. CASE \/ EnsureActiveErr \/ WriteErr \/ SyncErr \/ PositionErr \/ RollErr \/ WatermarkErr \/ DeleteErr
           \/ Cancel \/ RetentionDone
  <2>1. UNCHANGED <<idx, up, active>> /\ call' = Idle
    BY <1>3
    DEF EnsureActiveErr, WriteErr, SyncErr, PositionErr, RollErr, WatermarkErr, DeleteErr, Cancel,
        RetentionDone, Return, disk, memory
  <2> QED BY <1>2, <2>1 DEF Idle, Rolling
<1>4. CASE (\E n \in Sizes : AppendCall(n)) \/ UNCHANGED vars
  <2>1. UNCHANGED <<idx, up, active>> /\ (call' = call \/ call'.pc \in {"ensure_active", "write_record"})
    BY <1>4 DEF AppendCall, vars, disk, memory
  <2> QED BY <1>2, <2>1 DEF Rolling
<1>5. CASE sync_all \/ RollSync \/ WriteSentinel \/ SyncSentinel \/ write_watermark
  <2>1. UNCHANGED <<idx, up, active>>
    BY <1>5 DEF sync_all, RollSync, WriteSentinel, SyncSentinel, write_watermark, memory
  <2>2. call'.pc \in Rolling => call.pc \in Rolling
    BY <1>1, <1>5
    DEF sync_all, RollSync, WriteSentinel, SyncSentinel, write_watermark, At, Goto, Rolling, CallRecord
  <2> QED BY <1>2, <2>1, <2>2
<1>6. CASE write_record
  <2>1. UNCHANGED <<idx, up, active>> /\ call'.pc \in {"write_record", "sync"}
    BY <1>1, <1>6 DEF write_record, memory, CallRecord
  <2> QED BY <1>2, <2>1 DEF Rolling
<1>7. CASE ensure_active
  <2>1. /\ up /\ active = None /\ watermark' = watermark /\ idx' = idx
        /\ segs' = Assign(segs, next_offset, Fresh)
        /\ active' = [base |-> next_offset, n |-> 0, due |-> FALSE]
        /\ call'.pc = "write_record"
    BY <1>1, <1>7 DEF ensure_active, At, Goto, LogInv, CallInv, CallTypes, CallRecord, Fresh
  <2>2. next_offset \notin DOMAIN idx
    BY <2>1, CreatedOnDisk
  <2> QED BY <2>1, <2>2 DEF DueIfIndexed, Rolling
<1>8. CASE PlainCommit
  <2>1. /\ idx' = idx /\ up' = up /\ up /\ active # None /\ active'.base = active.base
        /\ active.due => active'.due
        /\ \/ active'.due /\ Goto("roll_sync")
           \/ ~active'.due /\ Return("Ok")
    BY <1>8, CommitFacts
  <2>2. call'.pc \in Rolling => active'.due
    BY <1>1, <2>1 DEF Goto, Return, Idle, Rolling, CallRecord
  <2> QED BY <2>1, <2>2 DEF DueIfIndexed
<1>9. CASE write_index
  <2>1. active' = active /\ call.pc \in Rolling
    BY <1>9 DEF write_index, memory, At, Rolling
  <2> QED BY <2>1 DEF DueIfIndexed
<1>10. CASE CloseSegment
  <2>1. active' = None /\ call'.pc = "watermark"
    BY <1>1, <1>10 DEF CloseSegment, Goto, CallRecord
  <2> QED BY <2>1 DEF DueIfIndexed, Rolling
<1>11. CASE delete_segment
  <2>1. active' = active /\ active = None /\ call' = call /\ call.pc \notin Rolling
    BY <1>11 DEF delete_segment, At, LogInv, CallInv, CallTypes, AfterRoll, Rolling
  <2> QED BY <2>1 DEF DueIfIndexed
<1>12. CASE PlainCrash
  <2>1. ~up' /\ call'.pc = "idle"
    BY <1>12 DEF PlainCrash, Crash, Return, Idle
  <2> QED BY <2>1 DEF DueIfIndexed, Rolling
<1>13. CASE Open
  <2>1. call.pc = "idle" /\ call' = call /\ idx' = idx /\ DiskInv
    BY <1>13 DEF Open, LogInv, CallInv, CallTypes
  <2>2. active' = None \/ active'.base \notin DOMAIN idx
    <3>1. CASE Unindexed = {}
      BY <1>13, <3>1 DEF Open
    <3>2. CASE Unindexed # {}
      <4>1. PICK a \in Unindexed : TRUE
        BY <3>2
      <4>2. Highest(Unindexed) = a /\ a \notin DOMAIN idx
        BY <2>1, OpenSegmentIs
      <4> QED BY <1>13, <3>2, <4>2 DEF Open
    <3> QED BY <3>1, <3>2
  <2> QED BY <2>1, <2>2 DEF DueIfIndexed, Rolling
<1> QED BY <1>3, <1>4, <1>5, <1>6, <1>7, <1>8, <1>9, <1>10, <1>11, <1>12, <1>13
        DEF PlainNext, QuietStep, Progress

\* A step of the call that leaves its records where they are.
LEMMA OwnKept ==
    ASSUME LogInv, OwnBatch, call.pc \in Writing \cup Rolling, call'.pc \in Writing \cup Rolling,
           call'.id = call.id, call'.size = call.size, call'.written = call.written,
           SlotsOld, evicted' = evicted, active' # None, active'.base = active.base,
           ownStart' = ownStart,
           \A k \in 1..call.written : segs'[active.base].slots[ownStart + k] = file.slots[ownStart + k],
           call'.pc \in Rolling => call.written = call.size /\ call.size <= active'.n
    PROVE  OwnBatch'
<1>1. call.id \in Batches /\ Sentinel.id \notin Batches /\ call.pc \in Own
  BY LogAssumption DEF LogInv, CallInv, CallTypes, Writing, Rolling, Own, Batches, Sentinel
<1>2. ASSUME NEW b \in DOMAIN segs', NEW k \in 1..Len(segs'[b].slots), segs'[b].slots[k].id = call.id
      PROVE  isActive(b)' /\ k \in (ownStart + 1)..(ownStart + call.written)
  <2>1. segs'[b].slots[k] # Sentinel
    BY <1>1, <1>2
  <2>2. b \in DOMAIN segs /\ k \in 1..Len(segs[b].slots) /\ segs'[b].slots[k] = segs[b].slots[k]
    BY <2>1 DEF SlotsOld
  <2>3. isActive(b) /\ k \in (ownStart + 1)..(ownStart + call.written)
    BY <1>1, <1>2, <2>2 DEF OwnBatch
  <2> QED BY <2>3 DEF isActive
<1>3. \A j \in 1..Len(evicted') : evicted'[j].id # call'.id
  BY <1>1 DEF OwnBatch
<1>4. \A k \in 1..call'.written : /\ (file.slots[ownStart + k].id = call.id)'
                                  /\ (file.slots[ownStart + k].k = k)'
  BY DEF OwnBatch, file
<1> QED BY <1>2, <1>3, <1>4 DEF OwnBatch

\* Every step keeps OwnBatch.
LEMMA OwnStep ==
    ASSUME LogInv, EvictedFits, LogInv', IdsUsed, OwnBatch, [PlainNext]_vars
    PROVE  OwnBatch'
<1>1. /\ call \in CallRecord /\ calls \in Nat /\ call.size \in Nat /\ call.written \in Nat
      /\ MaxAppends \in Nat /\ Sentinel.id = 0
      /\ call.pc # "idle" => call.id \in Batches /\ call.id \in Nat /\ call.id # 0
  BY LogAssumption DEF LogInv, CallInv, CallTypes, CallRecord, Batches, Sentinel
<1>2. CASE call'.pc \in {"idle"} \cup AfterRoll
  BY <1>2 DEF OwnBatch, Own, Writing, Rolling, AfterRoll
<1>3. CASE \/ EnsureActiveErr \/ WriteErr \/ SyncErr \/ PositionErr \/ RollErr \/ WatermarkErr \/ DeleteErr
           \/ Cancel \/ RetentionDone
  <2>1. call' = Idle
    BY <1>3
    DEF EnsureActiveErr, WriteErr, SyncErr, PositionErr, RollErr, WatermarkErr, DeleteErr, Cancel,
        RetentionDone, Return
  <2> QED BY <1>2, <2>1 DEF Idle
<1>4. CASE PlainCrash \/ Open
  <2>1. call'.pc = "idle"
    BY <1>4 DEF PlainCrash, Crash, Open, Return, Idle, LogInv, CallInv, CallTypes
  <2> QED BY <1>2, <2>1
<1>5. CASE CloseSegment \/ write_watermark \/ delete_segment
  <2>1. call'.pc \in AfterRoll
    BY <1>1, <1>5 DEF CloseSegment, write_watermark, delete_segment, At, Goto, AfterRoll, CallRecord
  <2> QED BY <1>2, <2>1
<1>6. CASE UNCHANGED vars
  <2>1. segs' = segs /\ active' = active /\ call' = call /\ evicted' = evicted
    BY <1>6 DEF vars, disk, memory, history
  <2> QED BY <2>1 DEF OwnBatch, ownStart, file, isActive
<1>7. CASE \E n \in Sizes : AppendCall(n)
  <2>1. /\ segs' = segs /\ evicted' = evicted
        /\ \/ call'.pc = "idle"
           \/ /\ call'.pc \in {"ensure_active", "write_record"}
              /\ call'.id = calls + 1 /\ call'.written = 0
    <3>1. PICK n \in Sizes : AppendCall(n)
      BY <1>7
    <3> QED BY <3>1 DEF AppendCall, At, disk
  <2>2. CASE call'.pc = "idle"
    BY <1>2, <2>2
  <2>3. CASE call'.pc \in {"ensure_active", "write_record"} /\ call'.id = calls + 1 /\ call'.written = 0
    <3>1. ~(calls + 1 <= calls) /\ 1..0 = {}
      BY <1>1
    <3>2. \A b \in DOMAIN segs : \A k \in 1..Len(segs[b].slots) : segs[b].slots[k].id # calls + 1
      BY <3>1 DEF IdsUsed
    <3>3. \A j \in 1..Len(evicted) : evicted[j].id # calls + 1
      BY <3>1 DEF IdsUsed
    <3> QED BY <2>1, <2>3, <3>1, <3>2, <3>3 DEF OwnBatch, Rolling
  <2> QED BY <2>1, <2>2, <2>3
<1>8. CASE ensure_active
  <2>1. /\ active = None /\ evicted' = evicted /\ call.pc = "ensure_active" /\ call.written = 0
        /\ call'.pc = "write_record" /\ call'.id = call.id /\ call'.written = call.written
    BY <1>1, <1>8 DEF ensure_active, At, Goto, LogInv, CallInv, CallTypes, CallRecord, history
  <2>2. SlotsOld
    <3>1. ~write_record
      BY <2>1 DEF write_record, At
    <3> QED BY <3>1, OldSlots
  <2>3. \A b \in DOMAIN segs : \A k \in 1..Len(segs[b].slots) : segs[b].slots[k].id # call.id
    BY <2>1 DEF OwnBatch, Own, isActive
  <2>4. \A b \in DOMAIN segs' : \A k \in 1..Len(segs'[b].slots) : segs'[b].slots[k].id # call.id
    BY <1>1, <2>1, <2>2, <2>3 DEF SlotsOld
  <2>5. \A j \in 1..Len(evicted) : evicted[j].id # call.id
    BY <2>1 DEF OwnBatch, Own
  <2>6. 1..0 = {}
    OBVIOUS
  <2> QED BY <2>1, <2>4, <2>5, <2>6 DEF OwnBatch, Rolling
<1>9. CASE write_record
  <2> DEFINE m == active.n + call.written + 1
  <2>1. /\ up /\ active # None /\ call.pc = "write_record" /\ call.pc \in Writing /\ call.pc \in Own
        /\ call'.pc \in {"write_record", "sync"} /\ call'.id = call.id
        /\ call'.written = call.written + 1 /\ active' = active
    BY <1>1, <1>9
    DEF write_record, At, memory, LogInv, CallInv, CallTypes, Writing, Own, CallRecord
  <2>2. active.n \in Nat /\ m \in Nat /\ active.base \in DOMAIN segs
    BY <1>1, <2>1, ActiveFacts
  <2>3. ownStart = active.n /\ ownStart' = active.n
    BY <2>1 DEF ownStart, Rolling
  <2>4. PICK s : Written(s) /\ FileRewritten(s)
    BY <1>9, WriteFile
  <2>5. /\ DOMAIN segs' = DOMAIN segs /\ segs'[active.base].slots = s /\ evicted' = evicted
        /\ \A b \in DOMAIN segs : b # active.base => segs'[b].slots = segs[b].slots
    BY <2>4 DEF FileRewritten
  <2>6. /\ s[m].id = call.id /\ s[m].k = call.written + 1 /\ Len(s) \in Nat /\ m <= Len(s)
        /\ \A k \in 1..Len(s) : k = m \/ (k \in 1..Len(file.slots) /\ s[k] = file.slots[k])
    BY <2>4 DEF Written
  <2>7. /\ \A j \in 1..Len(evicted) : evicted[j].id # call.id
        /\ \A b \in DOMAIN segs : \A k \in 1..Len(segs[b].slots) :
             segs[b].slots[k].id = call.id =>
                isActive(b) /\ k \in (active.n + 1)..(active.n + call.written)
        /\ \A k \in 1..call.written : /\ file.slots[active.n + k].id = call.id
                                      /\ file.slots[active.n + k].k = k
    BY <2>1, <2>3 DEF OwnBatch
  <2>8. m = active.n + call.written + 1
    OBVIOUS
  <2> HIDE DEF m
  <2>9. ASSUME NEW b \in DOMAIN segs, NEW k \in 1..Len(segs'[b].slots), segs'[b].slots[k].id = call.id
        PROVE  isActive(b) /\ k \in (active.n + 1)..(active.n + (call.written + 1))
    <3>1. CASE b = active.base /\ k = m
      BY <1>1, <2>1, <2>2, <2>8, <3>1 DEF isActive
    <3>2. CASE k \in 1..Len(segs[b].slots) /\ segs'[b].slots[k] = segs[b].slots[k]
      <4>1. isActive(b) /\ k \in (active.n + 1)..(active.n + call.written)
        BY <2>7, <2>9, <3>2
      <4> QED BY <1>1, <2>2, <4>1
    <3>3. CASE b # active.base
      BY <2>5, <3>2, <3>3
    <3>4. CASE b = active.base /\ k # m
      BY <2>5, <2>6, <3>2, <3>4 DEF file
    <3> QED BY <3>1, <3>3, <3>4
  <2>10. ASSUME NEW k \in 1..(call.written + 1)
         PROVE  s[active.n + k].id = call.id /\ s[active.n + k].k = k
    <3>1. CASE k = call.written + 1
      <4>1. active.n + k = m
        BY <1>1, <2>2, <2>8, <3>1
      <4> QED BY <2>6, <3>1, <4>1
    <3>2. CASE k # call.written + 1
      <4>1. k \in 1..call.written /\ active.n + k \in 1..Len(s) /\ active.n + k # m
        <5> DEFINE a == active.n
                   w == call.written
                   l == Len(s)
        <5>1. /\ a \in Nat /\ w \in Nat /\ l \in Nat /\ m <= l /\ m = a + w + 1
              /\ k \in 1..(w + 1) /\ k # w + 1
          BY <1>1, <2>2, <2>6, <2>8, <3>2, Zenon
        <5> HIDE DEF a, w, l
        <5>2. k \in 1..w /\ a + k \in 1..l /\ a + k # m
          BY <5>1
        <5> QED BY <5>2 DEF a, w, l
      <4> QED BY <2>6, <2>7, <4>1
    <3> QED BY <3>1, <3>2
  <2>11. \A b : isActive(b)' = isActive(b)
    BY <2>1 DEF isActive
  <2> QED BY <2>1, <2>3, <2>5, <2>7, <2>9, <2>10, <2>11 DEF OwnBatch, Rolling, file
<1>10. CASE sync_all \/ RollSync \/ WriteSentinel \/ SyncSentinel \/ write_index
  <2>1. /\ up /\ active # None /\ call.pc \in {"sync"} \cup Rolling
        /\ call'.pc \in {"commit"} \cup Rolling /\ call'.id = call.id
        /\ call'.size = call.size /\ call'.written = call.written
        /\ active' = active /\ evicted' = evicted /\ (call.pc = "sync" <=> call'.pc = "commit")
    BY <1>1, <1>10
    DEF sync_all, RollSync, WriteSentinel, SyncSentinel, write_index, At, Goto, memory, history, Rolling,
        Writing, CallRecord, LogInv, CallInv, CallTypes
  <2>2. ownStart' = ownStart
    BY <2>1 DEF ownStart, Rolling
  <2>3. SlotsOld
    <3>1. ~write_record
      BY <2>1 DEF write_record, At, Rolling
    <3> QED BY <3>1, OldSlots
  <2>4. call.pc \in Rolling => call.written = call.size /\ call.size <= active.n
    BY DEF OwnBatch
  <2>5. active.n \in Nat /\ active.base \in DOMAIN segs
    BY <2>1, ActiveFacts
  <2>6. ASSUME NEW k \in 1..call.written
        PROVE  segs'[active.base].slots[ownStart + k] = file.slots[ownStart + k]
    <3>1. CASE sync_all
      <4>1. FileRewritten(file.slots)
        BY <2>1, <3>1, SyncRewritten DEF sync_all, memory, history
      <4> QED BY <4>1 DEF FileRewritten
    <3>2. CASE write_index
      BY <3>2 DEF write_index, file
    <3>3. CASE RollSync \/ WriteSentinel \/ SyncSentinel
      <4>1. call.pc \in Rolling
        BY <3>3 DEF RollSync, WriteSentinel, SyncSentinel, At, Rolling
      <4>2. ownStart + k \in 1..active.n
        BY <1>1, <2>4, <2>5, <4>1 DEF ownStart
      <4>3. PICK s : Cuts(s) /\ FileRewritten(s)
        BY <3>3, FileSteps
      <4> QED BY <4>2, <4>3 DEF Cuts, FileRewritten
    <3> QED BY <1>10, <3>1, <3>2, <3>3
  <2>7. call.pc \in Writing \cup Rolling /\ call'.pc \in Writing \cup Rolling
    BY <2>1 DEF Writing
  <2>8. call'.pc \in Rolling => call.written = call.size /\ call.size <= active'.n
    BY <2>1, <2>4 DEF Rolling
  <2> QED BY <2>1, <2>2, <2>3, <2>6, <2>7, <2>8, OwnKept
<1>11. CASE PlainCommit
  <2>1. /\ up /\ active # None /\ call.pc = "commit" /\ segs' = segs /\ evicted' = evicted
        /\ active' # None /\ active'.base = active.base /\ active'.n = active.n + call.size
        /\ call.written = call.size
        /\ Goto("roll_sync") \/ call' = Idle
    BY <1>11, CommitFacts DEF Return
  <2>2. CASE call' = Idle
    BY <1>2, <2>2 DEF Idle
  <2>3. CASE Goto("roll_sync")
    <3>1. /\ call'.pc = "roll_sync" /\ call'.id = call.id /\ call'.size = call.size
          /\ call'.written = call.written
      BY <1>1, <2>3 DEF Goto, CallRecord
    <3>2. active.n \in Nat
      BY <2>1, ActiveFacts
    <3>3. ownStart = active.n /\ ownStart' = active.n
      BY <1>1, <2>1, <3>1, <3>2 DEF ownStart, Rolling
    <3>4. SlotsOld
      BY <2>1 DEF SlotsOld
    <3>5. call.pc \in Writing \cup Rolling /\ call'.pc \in Writing \cup Rolling
      BY <2>1, <3>1 DEF Writing, Rolling
    <3>6. call.size <= active'.n
      BY <1>1, <2>1, <3>2
    <3>7. \A k \in 1..call.written : segs'[active.base].slots[ownStart + k] = file.slots[ownStart + k]
      BY <2>1 DEF file
    <3> QED BY <2>1, <3>1, <3>3, <3>4, <3>5, <3>6, <3>7, OwnKept
  <2> QED BY <2>1, <2>2, <2>3
<1> QED BY <1>3, <1>4, <1>5, <1>6, <1>7, <1>8, <1>9, <1>10, <1>11 DEF PlainNext, QuietStep, Progress

-----------------------------------------------------------------------------
\* Acknowledging.

\* A step that acknowledges the call in progress, whose records are durable by then.
LEMMA NewAck ==
    ASSUME LogInv, EvictedFits, LogInv', EvictedFits', Kept, NothingNew, AckedStored, OwnBatch,
           IdsUsed, up, active # None, call.pc \in Writing \cup Rolling, call.written = call.size,
           segs' = segs, evicted' = evicted,
           NEW a, a = active.base, NEW m \in Nat, m = ownStart, NEW n, n = call.size,
           NEW own, own = call.id,
           \A id \in Batches : Acked(id)' => Acked(id) \/ id = own,
           m + n <= durable(a)'
    PROVE  Leftovers' /\ AckedStored'
<1> DEFINE i == a + m
<1>1. n \in Sizes /\ n \in Nat /\ own \in Batches
  <2>1. call.pc # "idle"
    BY DEF Writing, Rolling
  <2> QED BY <2>1 DEF IdsUsed, LogInv, CallInv, CallTypes
<1>2. a \in DOMAIN segs /\ a \in Nat /\ a \in DOMAIN segs' /\ i \in Nat
  BY ActiveFacts
<1>3. /\ \A j \in 1..Len(evicted) : evicted[j].id # own
      /\ \A b \in DOMAIN segs : \A k \in 1..Len(segs[b].slots) :
           segs[b].slots[k].id = own => b = a /\ k \in (m + 1)..(m + n)
      /\ \A k \in 1..n : segs[a].slots[m + k].id = own /\ segs[a].slots[m + k].k = k
  BY DEF OwnBatch, Own, isActive, file
<1>4. /\ Len(stored') \in Nat /\ Len(evicted') \in Nat /\ Contents(stored)'
      /\ \A b \in DOMAIN segs' : /\ b \in Nat /\ durable(b)' \in Nat /\ held(b)' \in Nat
                                 /\ Len(segs'[b].slots) \in Nat /\ held(b)' <= Len(segs'[b].slots)
      /\ \A b \in DOMAIN segs' : \A k \in 1..durable(b)' : stored'[b + k] = segs'[b].slots[k]
  <2>1. (LogInv /\ EvictedFits => StoreSound)'
    BY StoredFacts, PTL
  <2>2. (LogInv /\ EvictedFits => DurableSound)'
    BY DurableStored, PTL
  <2> QED BY <2>1, <2>2 DEF StoreSound, DurableSound
<1>5. BatchAt(own, i, n)'
  <2>1. ASSUME NEW k \in 1..n
        PROVE  Durable(i + k)' /\ stored'[i + k].id = own /\ stored'[i + k].k = k
    <3>1. m + k \in 1..durable(a)' /\ i + k = a + (m + k)
      BY <1>1, <1>2, <1>4, SMTT(30)
    <3>2. stored'[i + k] = segs[a].slots[m + k]
      BY <1>2, <1>4, <3>1, SMTT(30)
    <3>3. Durable(i + k)'
      BY <1>2, <3>1 DEF Durable
    <3> QED BY <1>3, <3>2, <3>3
  <2>2. ASSUME NEW j \in 1..Len(stored'), stored'[j].id = own
        PROVE  j \in (i + 1)..(i + n)
    <3>1. CASE j <= Len(evicted')
      <4>1. j \in 1..Len(evicted') /\ stored'[j] = evicted'[j]
        BY <1>4, <3>1 DEF Contents
      <4> QED BY <1>3, <2>2, <4>1
    <3>2. CASE ~(j <= Len(evicted'))
      <4>1. PICK b \in DOMAIN segs' : \E k \in 1..held(b)' : j = b + k
        BY <1>4, <3>2 DEF Contents
      <4>2. PICK k \in 1..held(b)' : j = b + k
        BY <4>1
      <4>3. stored'[j] = segs[b].slots[k] /\ k \in 1..Len(segs[b].slots)
        BY <1>4, <4>2 DEF Contents
      <4>4. b = a /\ k \in (m + 1)..(m + n)
        BY <1>3, <2>2, <4>3
      <4> QED BY <1>1, <1>2, <4>2, <4>4, SMTT(30)
    <3> QED BY <3>1, <3>2
  <2> HIDE DEF i
  <2>3. \A j \in 1..Len(stored') : stored'[j].id = own => j \in (i + 1)..(i + n)
    BY <2>2
  <2>4. \A k \in 1..n : Durable(i + k)' /\ stored'[i + k].id = own /\ stored'[i + k].k = k
    BY <2>1
  <2> QED BY <2>3, <2>4 DEF BatchAt
<1> HIDE DEF i
<1>6. AckedStored'
  <2> SUFFICES ASSUME NEW id \in Batches, Acked(id)'
               PROVE  \E x \in Nat : \E y \in Sizes : BatchAt(id, x, y)'
    BY DEF AckedStored
  <2>1. CASE id = own
    BY <1>1, <1>2, <1>5, <2>1
  <2>2. CASE Acked(id)
    <3>1. PICK x \in Nat : \E y \in Sizes : BatchAt(id, x, y)
      BY <2>2 DEF AckedStored
    <3>2. PICK y \in Sizes : BatchAt(id, x, y)
      BY <3>1
    <3>3. BatchAt(id, x, y)'
      BY <2>2, <3>2, BatchKept
    <3> QED BY <3>3
  <2> QED BY <2>1, <2>2
<1>7. Leftovers'
  <2> SUFFICES ASSUME NEW b \in DOMAIN segs', NEW k \in 1..Len(segs'[b].slots), k > durable(b)',
                      segs'[b].slots[k] # Sentinel, NEW id, id = segs'[b].slots[k].id
               PROVE  ~Acked(id)'
    BY DEF Leftovers
  <2>1. id \in Batches
    <3>1. segs'[b].slots \in Seq(Slot)
      BY DEF LogInv, DiskInv, DiskTypes, File
    <3>2. segs'[b].slots[k] \in Slot
      BY <3>1, ElementOfSeq
    <3> QED BY <3>2 DEF Slot, Record
  <2>2. ~Acked(id)
    BY BehindDurable
  <2>3. id # own
    <3> SUFFICES ASSUME id = own PROVE FALSE
      OBVIOUS
    <3>0. b \in DOMAIN segs /\ k \in 1..Len(segs[b].slots) /\ segs[b].slots[k].id = own
      OBVIOUS
    <3>1. b = a /\ k \in (m + 1)..(m + n)
      BY <1>3, <3>0
    <3> QED BY <1>1, <1>4, <3>1
  <2> QED BY <2>1, <2>2, <2>3
<1> QED BY <1>6, <1>7

\* The two steps that acknowledge.
LEMMA AckSteps ==
    ASSUME LogInv, EvictedFits, LogInv', EvictedFits', AckInv,
           CloseSegment \/ (PlainCommit /\ ~active'.due)
    PROVE  Leftovers' /\ AckedStored'
<1>1. Kept /\ NothingNew
  BY RollKeeps DEF AckInv
<1>2. call.id \in Batches /\ call \in CallRecord /\ result \in [Batches -> Results] /\ call.size \in Nat
  BY DEF CloseSegment, PlainCommit, CommitBatch, At, LogInv, CallInv, CallTypes, HistoryTypes, Results, CallRecord
<1>0. PICK a, m, n, own : a = active.base /\ m = ownStart /\ n = call.size /\ own = call.id
  OBVIOUS
<1>3. CASE CloseSegment
  <2>1. /\ up /\ active # None /\ call.pc = "close" /\ segs' = segs /\ evicted' = evicted /\ idx' = idx
        /\ active.base \in DOMAIN idx /\ idx[active.base] = active.n /\ result' = result
        /\ call'.pc = "watermark" /\ call'.id = own
    BY <1>0, <1>2, <1>3
    DEF CloseSegment, At, disk, history, Goto, LogInv, CallInv, CallTypes, RollReady, Rolling, CallRecord
  <2>2. active.n \in Nat
    BY <2>1, ActiveFacts
  <2>3. call.pc \in Writing \cup Rolling /\ call.pc \in Rolling
    BY <2>1 DEF Rolling
  <2>4. call.written = call.size /\ call.size <= active.n
    BY <2>3 DEF AckInv, OwnBatch
  <2>5. ownStart = active.n - call.size
    BY <2>3 DEF ownStart
  <2>6. durable(a)' = active.n
    BY <1>0, <2>1 DEF durable
  <2>7. m \in Nat /\ m + n <= durable(a)'
    BY <1>0, <1>2, <2>2, <2>4, <2>5, <2>6
  <2>8. \A id \in Batches : Acked(id)' => Acked(id) \/ id = own
    BY <1>0, <2>1 DEF Acked
  <2> QED BY <1>0, <1>1, <2>1, <2>3, <2>4, <2>7, <2>8, NewAck DEF AckInv
<1>4. CASE PlainCommit /\ ~active'.due
  <2>1. /\ up /\ active # None /\ call.pc = "commit" /\ segs' = segs /\ evicted' = evicted /\ idx' = idx
        /\ up' = up /\ active' # None /\ active'.base = active.base /\ active'.n = active.n + call.size
        /\ call.written = call.size /\ (active.due => active'.due)
        /\ Return("Ok")
    BY <1>4, CommitFacts
  <2>2. active.base \notin DOMAIN idx
    BY <1>4, <2>1 DEF AckInv, DueIfIndexed
  <2>3. active.n \in Nat
    BY <2>1, ActiveFacts
  <2>4. ownStart = active.n
    BY <2>1 DEF ownStart, Rolling
  <2>5. durable(a)' = active.n + call.size
    BY <1>0, <2>1, <2>2 DEF durable, held, isActive
  <2>6. m \in Nat /\ m + n <= durable(a)'
    BY <1>0, <1>2, <2>3, <2>4, <2>5
  <2>7. call.pc \in Writing \cup Rolling
    BY <2>1 DEF Writing
  <2>8. \A id \in Batches : Acked(id)' => Acked(id) \/ id = own
    BY <1>0, <1>2, <2>1 DEF Acked, Return, Idle, AfterRoll
  <2> QED BY <1>0, <1>1, <2>1, <2>6, <2>7, <2>8, NewAck DEF AckInv
<1> QED BY <1>3, <1>4

\* No other step acknowledges anything.
LEMMA NoNewAck ==
    ASSUME LogInv, [PlainNext]_vars, ~CloseSegment, ~(PlainCommit /\ ~active'.due),
           NEW id \in Batches, Acked(id)'
    PROVE  Acked(id)
<1>1. call \in CallRecord /\ result \in [Batches -> Results] /\ (call.pc # "idle" => call.id \in Batches)
      /\ calls \in Nat
  BY DEF LogInv, CallInv, CallTypes, HistoryTypes, Results, CallRecord
<1>2. CASE call' = call /\ result' = result
  BY <1>2 DEF Acked
<1>3. CASE call.pc # "idle" /\ \E r \in {"Err", "LateErr", "Lost"} : Ends(r)
  BY <1>1, <1>3 DEF Acked, Ends, Idle, AfterRoll
<1>4. CASE RetentionDone /\ Ends("Ok")
  BY <1>1, <1>4 DEF Acked, Ends, Idle, AfterRoll, RetentionDone, At
<1>5. CASE result' = result /\ call'.id = call.id /\ (call'.pc \in AfterRoll => call.pc \in AfterRoll)
  BY <1>5 DEF Acked
<1>6. CASE call' = call /\ result' = [result EXCEPT ![calls + 1] = "Err"]
  BY <1>1, <1>6 DEF Acked
<1>7. CASE call'.pc \in {"ensure_active", "write_record"} /\ result' = result
  BY <1>7 DEF Acked, AfterRoll
<1>8. ASSUME call'.pc \in AfterRoll, call'.pc # call.pc
      PROVE  call.pc \in AfterRoll
  <2>1. CASE \/ EnsureActiveErr \/ WriteErr \/ SyncErr \/ PositionErr \/ RollErr \/ WatermarkErr \/ DeleteErr
             \/ Cancel \/ RetentionDone \/ PlainCrash
    <3>1. call'.pc = "idle"
      BY <2>1
      DEF EnsureActiveErr, WriteErr, SyncErr, PositionErr, RollErr, WatermarkErr, DeleteErr, Cancel,
          RetentionDone, PlainCrash, Crash, Return, Idle
    <3> QED BY <1>8, <3>1 DEF AfterRoll
  <2>2. CASE PlainCommit
    <3>1. Goto("roll_sync") \/ call' = Idle
      BY <2>2, CommitFacts DEF Return
    <3> QED BY <1>1, <1>8, <3>1 DEF Goto, Idle, AfterRoll, CallRecord
  <2>3. CASE Open \/ delete_segment \/ UNCHANGED vars
    BY <1>8, <2>3 DEF Open, delete_segment, vars
  <2>4. CASE \E n \in Sizes : AppendCall(n)
    BY <1>8, <2>4 DEF AppendCall, AfterRoll
  <2>5. CASE \/ ensure_active \/ sync_all \/ RollSync \/ WriteSentinel \/ SyncSentinel
             \/ write_index \/ write_watermark
    BY <1>1, <1>8, <2>5
    DEF ensure_active, sync_all, RollSync, WriteSentinel, SyncSentinel, write_index, write_watermark, At,
        Goto, AfterRoll, CallRecord
  <2>6. CASE write_record
    BY <1>1, <1>8, <2>6 DEF write_record, AfterRoll, CallRecord
  <2> QED BY <2>1, <2>2, <2>3, <2>4, <2>5, <2>6 DEF PlainNext, QuietStep, Progress
<1>9. CallSteps
  BY CallStep
<1> QED BY <1>2, <1>3, <1>4, <1>5, <1>6, <1>7, <1>8, <1>9 DEF CallSteps

-----------------------------------------------------------------------------
\* The invariant holds at the start, ...
LEMMA AckInit ==
    ASSUME Init
    PROVE  AckInv
<1>1. /\ DOMAIN segs = {} /\ evicted = <<>> /\ ~up /\ call = Idle
      /\ result = [id \in Batches |-> None]
  BY DEF Init
<1>2. Len(evicted) = 0 /\ 1..0 = {}
  BY <1>1
<1>3. IdsUsed
  BY <1>1, <1>2 DEF IdsUsed, Idle
<1>4. DueIfIndexed /\ OwnBatch
  BY <1>1, <1>2 DEF DueIfIndexed, OwnBatch, Idle, Own, Writing, Rolling
<1>5. Leftovers
  BY <1>1 DEF Leftovers
<1>6. AckedStored
  BY <1>1, LogAssumption DEF AckedStored, Acked, Idle, AfterRoll
<1> QED BY <1>3, <1>4, <1>5, <1>6 DEF AckInv

\* ... every step keeps it, ...
LEMMA AckStep ==
    ASSUME LogInv, EvictedFits, AckInv, LogInv', EvictedFits', [PlainNext]_vars
    PROVE  AckInv'
<1>1. LogInv' /\ EvictedFits'
  OBVIOUS
<1>2. IdsUsed /\ DueIfIndexed /\ OwnBatch /\ Leftovers /\ AckedStored
  BY DEF AckInv
<1>3. IdsUsed' /\ DueIfIndexed' /\ OwnBatch'
  BY <1>1, <1>2, IdsStep, DueStep, OwnStep
<1>4. Leftovers' /\ AckedStored'
  <2>1. CASE CloseSegment \/ (PlainCommit /\ ~active'.due)
    BY <1>1, <2>1, AckSteps
  <2>2. CASE ~CloseSegment /\ ~(PlainCommit /\ ~active'.due)
    <3>1. \A id \in Batches : Acked(id)' => Acked(id)
      BY <2>2, NoNewAck
    <3>2. Kept /\ NothingNew
      BY <1>1, <1>2, StepKeeps
    <3> QED BY <1>1, <1>2, <3>1, <3>2, AckKept
  <2> QED BY <2>1, <2>2
<1> QED BY <1>3, <1>4 DEF AckInv

\* ... so it holds until an append goes around left-overs.
LEMMA AckAlways == Spec => [](LogInv /\ TailInv /\ EvictedFits /\ (strayed \/ AckInv))
<1>1. Init => AckInv
  BY AckInit
<1>2. /\ LogInv /\ TailInv /\ EvictedFits /\ (strayed \/ AckInv) /\ [Next]_vars
      /\ LogInv' /\ EvictedFits'
      => (strayed' \/ AckInv')
  BY AckStep, PlainStep, TailStep
<1> QED BY <1>1, <1>2, EvictedAlways, PTL DEF Spec

(***************************************************************************)
(* What append acknowledged is not lost: through later errors, aborted     *)
(* calls, crashes and recoveries, every batch whose call returned Ok is    *)
(* stored complete, in order and once, as long as no append whose          *)
(* stream_position failed has gone around left-overs.                      *)
(***************************************************************************)
THEOREM AckedSurvivesAlways == Spec => []AckedSurvives
<1>1. LogInv /\ EvictedFits /\ (strayed \/ AckInv) => AckedSurvives
  <2> SUFFICES ASSUME LogInv, EvictedFits, AckInv, NEW id \in Batches, result[id] = "Ok"
               PROVE  \E i \in 0..Len(stored) : \E n \in Sizes :
                        /\ StoredAt(id, i, n)
                        /\ \A j \in DOMAIN stored : stored[j].id = id => j \in (i + 1)..(i + n)
    BY DEF AckedSurvives, OkIsStored
  <2>1. PICK i \in Nat : \E n \in Sizes : BatchAt(id, i, n)
    BY DEF AckInv, AckedStored, Acked
  <2>2. PICK n \in Sizes : BatchAt(id, i, n)
    BY <2>1
  <2>3. DOMAIN stored = 1..Len(stored) /\ Len(stored) \in Nat /\ n \in Nat /\ n # 0
    <3>1. stored \in Seq(Record)
      BY StoredFacts DEF StoreSound
    <3> QED BY <3>1, LenProperties, LogAssumption
  <2>4. \A k \in 1..n : i + k \in 1..Len(stored)
    BY <2>2, DurableStored DEF BatchAt, DurableSound
  <2>5. StoredAt(id, i, n)
    BY <2>2, <2>3, <2>4 DEF BatchAt, StoredAt
  <2>6. i \in 0..Len(stored)
    <3>1. 1 \in 1..n
      BY <2>3
    <3>2. i + 1 \in 1..Len(stored)
      BY <2>4, <3>1
    <3> QED BY <2>3, <3>2
  <2>7. \A j \in DOMAIN stored : stored[j].id = id => j \in (i + 1)..(i + n)
    BY <2>2, <2>3 DEF BatchAt
  <2> QED BY <2>5, <2>6, <2>7
<1> QED BY <1>1, AckAlways, PTL

-----------------------------------------------------------------------------
(***************************************************************************)
(* The log as an implementation of the port, when no append is aborted.    *)
(* Then the roll that wrote the index of a segment also closes it, and     *)
(* what a reader has seen is what survives a crash.                        *)
(***************************************************************************)
IndexedIsClosed ==
    up /\ active # None /\ active.base \in DOMAIN idx => call.pc = "close"

\* Only an aborted call leaves an active segment with an index.
LEMMA IndexedStep ==
    ASSUME ~Cancels, LogInv, EvictedFits, IndexedIsClosed, [PlainNext]_vars
    PROVE  IndexedIsClosed'
<1> SUFFICES ASSUME up', active' # None, active'.base \in DOMAIN idx' PROVE call'.pc = "close"
  BY DEF IndexedIsClosed
<1>0. call \in CallRecord
  BY DEF LogInv, CallInv, CallTypes, CallRecord
<1>1. CASE Open
  <2>1. Unindexed # {} /\ idx' = idx
    BY <1>1 DEF Open
  <2>2. PICK a \in Unindexed : TRUE
    BY <2>1
  <2>3. Highest(Unindexed) = a /\ a \notin DOMAIN idx
    BY OpenSegmentIs DEF LogInv
  <2>4. active'.base = a
    BY <1>1, <2>1, <2>3 DEF Open
  <2> QED BY <2>1, <2>3, <2>4
<1>2. CASE ensure_active
  <2>1. up /\ active = None /\ idx' = idx /\ active'.base = next_offset
    BY <1>2 DEF ensure_active, At, LogInv, CallInv, CallTypes
  <2>2. \A b \in DOMAIN idx : b \in Nat /\ idx[b] \in Nat \ {0} /\ b + idx[b] <= next_offset
    BY <2>1 DEF LogInv, DiskInv, DiskTypes, MemoryInv, Ahead
  <2>3. next_offset \in Nat
    BY DEF LogInv, MemoryInv, MemoryTypes
  <2>4. next_offset \notin DOMAIN idx
    BY <2>2, <2>3
  <2> QED BY <2>1, <2>4
<1>3. CASE PlainCommit
  <2>1. up /\ active # None /\ call.pc = "commit" /\ idx' = idx /\ active'.base = active.base
    BY <1>3, CommitFacts
  <2> QED BY <2>1 DEF IndexedIsClosed
<1>4. CASE write_index
  BY <1>0, <1>4 DEF write_index, Goto, CallRecord
<1>5. CASE CloseSegment \/ PlainCrash
  BY <1>5 DEF CloseSegment, PlainCrash, Crash
<1>6. CASE delete_segment
  BY <1>6 DEF delete_segment, At, LogInv, CallInv, CallTypes, AfterRoll
<1>7. CASE UNCHANGED vars
  BY <1>7 DEF vars, disk, memory, IndexedIsClosed
<1>8. CASE \/ write_record \/ sync_all \/ RollSync \/ WriteSentinel \/ SyncSentinel
           \/ write_watermark \/ RetentionDone \/ (\E n \in Sizes : AppendCall(n))
           \/ EnsureActiveErr \/ WriteErr \/ SyncErr \/ PositionErr
           \/ RollErr \/ WatermarkErr \/ DeleteErr
  <2>1. up /\ idx' = idx /\ active' = active /\ call.pc # "close"
    BY <1>8
    DEF write_record, sync_all, RollSync, WriteSentinel, SyncSentinel, write_watermark, RetentionDone,
        AppendCall, EnsureActiveErr, WriteErr, SyncErr, PositionErr, RollErr, WatermarkErr, DeleteErr,
        At, disk, memory
  <2> QED BY <2>1 DEF IndexedIsClosed
<1>9. ~Cancel
  BY DEF Cancel
<1> QED BY <1>1, <1>2, <1>3, <1>4, <1>5, <1>6, <1>7, <1>8, <1>9 DEF PlainNext, QuietStep, Progress

\* Then all that is stored is durable.
LEMMA AllDurable ==
    ASSUME LogInv, EvictedFits, IndexedIsClosed
    PROVE  /\ \A b \in DOMAIN segs : durable(b) = held(b)
           /\ \A j \in 1..Len(stored) : Durable(j)
<1>1. ASSUME NEW b \in DOMAIN segs PROVE durable(b) = held(b)
  <2>1. CASE up /\ isActive(b) /\ b \in DOMAIN idx
    <3>1. call.pc = "close" /\ active.base = b
      BY <2>1 DEF IndexedIsClosed, isActive
    <3>2. idx[b] = active.n
      BY <3>1 DEF LogInv, CallInv, RollReady
    <3> QED BY <2>1, <3>2 DEF durable, held
  <2>2. CASE ~(up /\ isActive(b)) /\ b \in DOMAIN idx
    BY <2>2 DEF durable, held, recordsIn
  <2>3. CASE b \notin DOMAIN idx
    BY <2>3 DEF durable
  <2> QED BY <2>1, <2>2, <2>3
<1>2. Len(evicted) \in Nat /\ Len(stored) \in Nat /\ Contents(stored)
  BY StoredFacts DEF StoreSound
<1>3. ASSUME NEW j \in 1..Len(stored) PROVE Durable(j)
  <2>1. CASE j <= Len(evicted)
    BY <1>2, <2>1 DEF Durable
  <2>2. CASE \E b \in DOMAIN segs : \E k \in 1..held(b) : j = b + k
    BY <1>1, <2>2 DEF Durable
  <2> QED BY <1>2, <2>1, <2>2 DEF Contents
<1> QED BY <1>1, <1>3

\* The step leaves every stored record at its offset.
StoredGrows ==
    Len(stored) <= Len(stored') /\ \A j \in 1..Len(stored) : stored'[j] = stored[j]

\* No step loses, moves or changes a record that a reader could see.
LEMMA GrowsStep ==
    ASSUME LogInv, EvictedFits, LogInv', EvictedFits', IdsUsed, Leftovers, IndexedIsClosed, [PlainNext]_vars
    PROVE  StoredGrows
<1>1. Kept
  BY StepKeeps
<1>2. ASSUME NEW j \in 1..Len(stored) PROVE j \in 1..Len(stored') /\ stored'[j] = stored[j]
  <2>1. Durable(j)' /\ stored'[j] = stored[j]
    BY <1>1, AllDurable, DurableKept
  <2>2. (LogInv /\ EvictedFits => DurableSound)'
    BY DurableStored, PTL
  <2>3. j \in 1..Len(stored')
    BY <2>1, <2>2 DEF DurableSound
  <2> QED BY <2>1, <2>3
<1>3. Len(stored) \in Nat
  BY StoredFacts DEF StoreSound
<1>4. Len(stored') \in Nat
  <2>1. (LogInv /\ EvictedFits => StoreSound)'
    BY StoredFacts, PTL
  <2> QED BY <2>1 DEF StoreSound
<1>5. Len(stored) <= Len(stored')
  <2>1. CASE Len(stored) = 0
    BY <1>4, <2>1
  <2>2. CASE Len(stored) # 0
    <3>1. Len(stored) \in 1..Len(stored)
      BY <1>3, <2>2
    <3>2. Len(stored) \in 1..Len(stored')
      BY <1>2, <3>1
    <3> QED BY <1>4, <3>2
  <2> QED BY <2>1, <2>2
<1> QED BY <1>2, <1>5 DEF StoredGrows

(***************************************************************************)
(* When no append is aborted and none has gone around left-overs, the log  *)
(* is append-only through every error, crash, recovery, roll and eviction, *)
(* for every batch size: a record that a reader could see stays at its     *)
(* offset, whether or not its append was acknowledged.                     *)
(***************************************************************************)
THEOREM StoredGrowsAlways ==
    ASSUME ~Cancels
    PROVE  Spec => [][strayed' \/ StoredGrows]_vars
<1>1. Init => IndexedIsClosed
  BY DEF Init, IndexedIsClosed
<1>2. LogInv /\ TailInv /\ EvictedFits /\ (strayed \/ IndexedIsClosed) /\ [Next]_vars
      => (strayed' \/ IndexedIsClosed')
  BY IndexedStep, PlainStep, TailStep
<1>3. /\ LogInv /\ TailInv /\ EvictedFits /\ (strayed \/ AckInv) /\ (strayed \/ IndexedIsClosed)
      /\ [Next]_vars /\ LogInv' /\ EvictedFits'
      => [strayed' \/ StoredGrows]_vars
  BY GrowsStep, PlainStep, TailStep DEF AckInv
<1> QED BY <1>1, <1>2, <1>3, AckAlways, PTL DEF Spec

-----------------------------------------------------------------------------
(***************************************************************************)
(* How the stored log moves.  What lies behind the stored records in the   *)
(* segment without an index belongs to calls none of whose records is      *)
(* stored: recovery may add it, and never to a batch that is there.        *)
(***************************************************************************)
Unstored(id) == \A i \in 1..Len(stored) : stored[i].id # id

BehindNew ==
    up => \A b \in Unindexed : \A k \in 1..Len(segs[b].slots) :
            b + k > Len(stored) /\ segs[b].slots[k] # Sentinel => Unstored(segs[b].slots[k].id)

\* Only a commit and a crash change the offset at which the log ends.
LEMMA EndMoves ==
    ASSUME LogInv, EvictedFits, LogInv', EvictedFits', [PlainNext]_vars
    PROVE  PlainCommit \/ PlainCrash \/ Len(stored') = Len(stored)
<1>1. Len(stored) = IF up THEN next_offset ELSE recoveredNext
  BY StoredLogs DEF Logs, Positions
<1>2. Len(stored') = IF up' THEN next_offset' ELSE recoveredNext'
  <2>1. (LogInv /\ EvictedFits => Logs(stored, IF up THEN next_offset ELSE recoveredNext))'
    BY StoredLogs, PTL
  <2> QED BY <2>1 DEF Logs, Positions
<1>3. CASE Open
  <2>1. ~up /\ up' /\ next_offset' = recoveredNext
    BY <1>3 DEF Open
  <2> QED BY <1>1, <1>2, <2>1
<1>4. CASE UNCHANGED vars
  <2>1. stored' = stored
    BY <1>4 DEF stored, memoryView, diskView, vars, disk, memory, history, readable, Records, countIn,
                recordsIn, recovered, ascending
  <2> QED BY <2>1
<1>5. CASE ~Open /\ ~UNCHANGED vars /\ ~PlainCommit /\ ~PlainCrash
  <2>1. up /\ up' = up /\ next_offset' = next_offset
    BY <1>5 DEF PlainNext, QuietStep, Progress, delete_segment, Cancel, ensure_active, write_record, sync_all,
       RollSync, WriteSentinel, SyncSentinel, write_index, CloseSegment, write_watermark, RetentionDone,
       AppendCall, EnsureActiveErr, WriteErr, SyncErr, PositionErr, RollErr, WatermarkErr, DeleteErr,
       At, disk, memory
  <2> QED BY <1>1, <1>2, <2>1
<1> QED BY <1>3, <1>4, <1>5

\* Until its commit point nothing of the call in progress is stored.
LEMMA NotStoredYet ==
    ASSUME LogInv, EvictedFits, OwnBatch, call.pc \in Writing
    PROVE  Unstored(call.id)
<1>1. up /\ active # None /\ call.pc \in Own /\ ownStart = active.n
  BY DEF LogInv, CallInv, CallTypes, Own, ownStart, Writing, Rolling
<1>2. /\ active.n \in Nat /\ held(active.base) = active.n
  BY <1>1, ActiveFacts DEF held, isActive
<1>3. /\ Len(evicted) \in Nat /\ Contents(stored)
      /\ \A c \in DOMAIN segs : held(c) \in Nat /\ Len(segs[c].slots) \in Nat /\ held(c) <= Len(segs[c].slots)
  BY StoredFacts DEF StoreSound
<1> SUFFICES ASSUME NEW i \in 1..Len(stored), stored[i].id = call.id PROVE FALSE
  BY DEF Unstored
<1>4. CASE i <= Len(evicted)
  <2>1. i \in 1..Len(evicted) /\ stored[i] = evicted[i]
    BY <1>3, <1>4 DEF Contents
  <2> QED BY <1>1, <2>1 DEF OwnBatch
<1>5. CASE \E c \in DOMAIN segs : \E l \in 1..held(c) : i = c + l
  <2>1. PICK c \in DOMAIN segs : \E l \in 1..held(c) : i = c + l
    BY <1>5
  <2>2. PICK l \in 1..held(c) : i = c + l
    BY <2>1
  <2>3. stored[i] = segs[c].slots[l] /\ l \in 1..Len(segs[c].slots)
    BY <1>3, <2>2 DEF Contents
  <2>4. isActive(c) /\ l \in (active.n + 1)..(active.n + call.written)
    BY <1>1, <2>3 DEF OwnBatch
  <2>5. held(c) = active.n
    BY <1>2, <2>4 DEF isActive
  <2> QED BY <1>2, <2>4, <2>5
<1> QED BY <1>3, <1>4, <1>5 DEF Contents

\* A commit stores the records of its call, and no other.
LEMMA CommitStores ==
    ASSUME LogInv, EvictedFits, LogInv', EvictedFits', OwnBatch, PlainCommit
    PROVE  /\ Len(stored') = Len(stored) + call.size /\ Len(stored) = active.base + active.n
           /\ \A i \in 1..call.size : /\ stored'[Len(stored) + i].id = call.id
                                      /\ stored'[Len(stored) + i].k = i
<1>1. /\ up /\ active # None /\ call.pc = "commit" /\ segs' = segs /\ up' = up
      /\ active' # None /\ active'.base = active.base
      /\ active'.n = active.n + call.size /\ call.size \in Nat /\ call.written = call.size
      /\ next_offset' = next_offset + call.size
  BY CommitFacts DEF PlainCommit, CommitBatch
<1>2. /\ active.base \in DOMAIN segs /\ active.base \in Nat /\ active.n \in Nat
      /\ active.base + active.n = next_offset
  BY <1>1, ActiveFacts
<1>3. Len(stored) = next_offset
  BY <1>1, StoredLogs DEF Logs, Positions
<1>4. Len(stored') = next_offset' /\ Contents(stored)'
  <2>1. (LogInv /\ EvictedFits => Logs(stored, IF up THEN next_offset ELSE recoveredNext))'
    BY StoredLogs, PTL
  <2> QED BY <1>1, <2>1 DEF Logs, Positions
<1>5. \A c : c = active.base => held(c)' = active.n + call.size
  BY <1>1 DEF held, isActive
<1>6. ASSUME NEW i \in 1..call.size
      PROVE  stored'[Len(stored) + i].id = call.id /\ stored'[Len(stored) + i].k = i
  <2>1. file.slots[active.n + i].id = call.id /\ file.slots[active.n + i].k = i
    <3>1. ownStart = active.n /\ call.pc \in Writing
      BY <1>1 DEF ownStart, Writing, Rolling
    <3> QED BY <1>1, <3>1 DEF OwnBatch
  <2>2. active.n + i \in 1..(active.n + call.size) /\ Len(stored) + i = active.base + (active.n + i)
    <3>1. \A x, y, z \in Nat : (x + y) + z = x + (y + z)
      OBVIOUS
    <3>2. (active.base + active.n) + i = active.base + (active.n + i)
      BY <1>1, <1>2, <3>1
    <3>3. active.n + i \in 1..(active.n + call.size)
      BY <1>1, <1>2
    <3> QED BY <1>2, <1>3, <3>2, <3>3
  <2>3. \A c \in DOMAIN segs' : \A l \in 1..held(c)' : stored'[c + l] = segs'[c].slots[l]
    BY <1>4 DEF Contents
  <2>4. stored'[active.base + (active.n + i)] = segs[active.base].slots[active.n + i]
    BY <1>1, <1>2, <1>5, <2>2, <2>3
  <2> QED BY <2>1, <2>2, <2>4 DEF file
<1> QED BY <1>1, <1>2, <1>3, <1>4, <1>6

\* Opening leaves nothing behind the records it found.
LEMMA OpenLeavesNone ==
    ASSUME LogInv, EvictedFits, LogInv', EvictedFits', Open
    PROVE  BehindNew'
<1> SUFFICES ASSUME NEW b \in Unindexed', NEW k \in 1..Len(segs'[b].slots), b + k > Len(stored')
             PROVE  FALSE
  BY DEF BehindNew
<1>0. idx' = idx /\ up' = TRUE /\ next_offset' = recoveredNext
  BY DEF Open
<1>1. Len(stored') = recoveredNext
  <2>1. (LogInv /\ EvictedFits => Logs(stored, IF up THEN next_offset ELSE recoveredNext))'
    BY StoredLogs, PTL
  <2> QED BY <1>0, <2>1 DEF Logs, Positions
<1>2. CASE Unindexed = {}
  BY <1>0, <1>2 DEF Open, Unindexed
<1>3. CASE Unindexed # {}
  <2>1. PICK a \in Unindexed : TRUE
    BY <1>3
  <2>2. /\ Highest(Unindexed) = a /\ Highest(DOMAIN segs) = a /\ a \notin DOMAIN idx
        /\ a \in DOMAIN segs /\ a \in Nat
    BY OpenSegmentIs DEF LogInv, DiskInv, DiskTypes
  <2> DEFINE n == recovered(a)
  <2>3. n \in 0..Len(segs[a].slots) /\ segs[a].slots \in Seq(Slot) /\ n \in Nat
    BY <2>2, RecoveredGood DEF Good, LogInv, DiskInv, DiskTypes, File
  <2>4. segs' = [c \in Indexed \cup {a} |->
                   IF c = a THEN [slots |-> SubSeq(segs[a].slots, 1, n), synced |-> n] ELSE segs[c]]
    BY <1>3, <2>2 DEF Open
  <2>5. recoveredNext = a + n
    BY <2>2 DEF recoveredNext, recordsIn
  <2> HIDE DEF n
  <2>6. Len(SubSeq(segs[a].slots, 1, n)) = n
    BY <2>3, CutSlots
  <2>7. b = a /\ segs'[a].slots = SubSeq(segs[a].slots, 1, n)
    BY <1>0, <2>2, <2>4 DEF Unindexed, Indexed
  <2> QED BY <1>1, <2>2, <2>3, <2>5, <2>6, <2>7
<1> QED BY <1>2, <1>3

\* Every step keeps it so.
LEMMA BehindStep ==
    ASSUME LogInv, EvictedFits, LogInv', EvictedFits', AckInv, StoredGrows, BehindNew, [PlainNext]_vars
    PROVE  BehindNew'
<1>0. /\ IdsUsed /\ OwnBatch /\ stored \in Seq(Record) /\ Len(stored) \in Nat
      /\ \A b \in DOMAIN segs : b \in Nat
  BY StoredFacts DEF AckInv, StoreSound
<1>1. CASE Open
  BY <1>1, OpenLeavesNone
<1>2. CASE PlainCrash
  BY <1>2 DEF PlainCrash, Crash, BehindNew
<1>3. CASE UNCHANGED vars
  <2>1. stored' = stored
    BY <1>3 DEF stored, memoryView, diskView, vars, disk, memory, history, readable, Records, countIn,
                recordsIn, recovered, ascending
  <2> QED BY <1>3, <2>1 DEF vars, disk, BehindNew, Unindexed, Unstored
<1>4. CASE PlainCommit
  <2>1. /\ up /\ active # None /\ call.pc = "commit" /\ segs' = segs /\ idx' = idx /\ call.size \in Nat
        /\ call.written = call.size
    BY <1>4, CommitFacts
  <2>2. /\ Len(stored') = Len(stored) + call.size /\ Len(stored) = active.base + active.n
        /\ \A i \in 1..call.size : stored'[Len(stored) + i].id = call.id
    BY <1>0, <1>4, CommitStores
  <2>3. active.n \in Nat /\ active.base \in Nat /\ active.base \in DOMAIN segs
    BY <2>1, ActiveFacts
  <2> SUFFICES ASSUME NEW b \in Unindexed, NEW k \in 1..Len(segs[b].slots), b + k > Len(stored'),
                      segs[b].slots[k] # Sentinel, NEW i \in 1..Len(stored'),
                      stored'[i].id = segs[b].slots[k].id
               PROVE  FALSE
    BY <2>1 DEF BehindNew, Unstored, Unindexed
  <2>4. b \in DOMAIN segs /\ b \in Nat /\ b = active.base
    <3>1. b \in DOMAIN segs /\ \A o \in DOMAIN segs : o <= active.base
      BY <2>1 DEF Unindexed, LogInv, MemoryInv, ActiveFits
    <3>2. active.base <= b /\ b <= active.base
      BY <2>3, <3>1 DEF LogInv, DiskInv, OneOpen
    <3> QED BY <1>0, <2>3, <3>1, <3>2
  <2>5. k > active.n + call.size /\ k \in Nat
    BY <1>0, <2>1, <2>2, <2>3, <2>4, SMTT(30)
  <2>6. segs[b].slots[k].id # call.id
    <3>1. call.pc \in Own /\ ownStart = active.n
      BY <2>1 DEF Own, ownStart, Writing, Rolling
    <3>2. ~(k \in (active.n + 1)..(active.n + call.written))
      BY <2>1, <2>3, <2>5
    <3>3. segs[b].slots[k].id = call.id => k \in (ownStart + 1)..(ownStart + call.written)
      BY <1>0, <2>4, <3>1 DEF OwnBatch
    <3> QED BY <3>1, <3>2, <3>3
  <2>7. CASE i <= Len(stored)
    <3>1. i \in 1..Len(stored) /\ stored'[i] = stored[i]
      BY <1>0, <2>7 DEF StoredGrows
    <3>2. b + k > Len(stored)
      BY <1>0, <2>1, <2>2, <2>4, <2>5
    <3> QED BY <2>1, <3>1, <3>2 DEF BehindNew, Unstored
  <2>8. CASE ~(i <= Len(stored))
    <3> DEFINE m == i - Len(stored)
    <3>1. m \in 1..call.size /\ Len(stored) + m = i
      BY <1>0, <2>1, <2>2, <2>8, SMTT(30)
    <3> HIDE DEF m
    <3> QED BY <2>2, <2>6, <3>1
  <2> QED BY <2>7, <2>8
<1>5. CASE ~Open /\ ~PlainCrash /\ ~(UNCHANGED vars) /\ ~PlainCommit
  <2>1. Len(stored') = Len(stored) /\ \A i \in 1..Len(stored) : stored'[i] = stored[i]
    BY <1>5, EndMoves DEF StoredGrows
  <2>2. up
    BY <1>5 DEF PlainNext, QuietStep, Progress, delete_segment, Cancel, ensure_active, write_record, sync_all,
       RollSync, WriteSentinel, SyncSentinel, write_index, CloseSegment, write_watermark, RetentionDone,
       AppendCall, EnsureActiveErr, WriteErr, SyncErr, PositionErr, RollErr, WatermarkErr, DeleteErr, At
  <2>3. ASSUME NEW b \in DOMAIN segs', b \notin DOMAIN idx' PROVE b \notin DOMAIN idx
    <3>1. CASE delete_segment
      <4>1. segs' = Without(segs, Head(closed).base) /\ (idx' = idx \/ idx' = Without(idx, Head(closed).base))
        BY <3>1 DEF delete_segment
      <4> QED BY <2>3, <4>1 DEF Without
    <3>2. CASE write_index
      BY <2>3, <3>2 DEF write_index, Assign
    <3>3. CASE ~delete_segment /\ ~write_index
      <4>1. idx' = idx
        BY <1>5, <3>3
        DEF PlainNext, QuietStep, Progress, Cancel, ensure_active, write_record, sync_all,
            RollSync, WriteSentinel, SyncSentinel, CloseSegment, write_watermark, RetentionDone,
            AppendCall, EnsureActiveErr, WriteErr, SyncErr, PositionErr, RollErr, WatermarkErr, DeleteErr,
            disk
      <4> QED BY <2>3, <4>1
    <3> QED BY <3>1, <3>2, <3>3
  <2> SUFFICES ASSUME NEW b \in Unindexed', NEW k \in 1..Len(segs'[b].slots), b + k > Len(stored),
                      segs'[b].slots[k] # Sentinel
               PROVE  Unstored(segs'[b].slots[k].id)
    BY <2>1 DEF BehindNew, Unstored
  <2>4. b \in DOMAIN segs' /\ b \notin DOMAIN idx
    BY <2>3 DEF Unindexed
  <2>5. ASSUME b \in DOMAIN segs, k \in 1..Len(segs[b].slots), segs'[b].slots[k] = segs[b].slots[k]
        PROVE  Unstored(segs'[b].slots[k].id)
    BY <2>2, <2>4, <2>5 DEF BehindNew, Unindexed
  <2>6. CASE write_record
    <3>1. call.pc = "write_record"
      BY <2>6 DEF write_record, At
    <3>2. Unstored(call.id) /\ active # None
      BY <1>0, <3>1, NotStoredYet DEF Writing, LogInv, CallInv, CallTypes
    <3>3. PICK s : Written(s) /\ FileRewritten(s)
      BY <2>6, WriteFile
    <3> DEFINE p == active.n + call.written + 1
    <3>4. /\ s[p].id = call.id
          /\ \A l \in 1..Len(s) : l = p \/ (l \in 1..Len(file.slots) /\ s[l] = file.slots[l])
      BY <3>3 DEF Written
    <3>5. /\ DOMAIN segs' = DOMAIN segs /\ segs'[active.base].slots = s
          /\ \A c \in DOMAIN segs : c # active.base => segs'[c].slots = segs[c].slots
      BY <3>3 DEF FileRewritten
    <3> HIDE DEF p
    <3>6. CASE b = active.base /\ k = p
      BY <3>2, <3>4, <3>5, <3>6
    <3>7. CASE b = active.base /\ k # p
      BY <2>4, <2>5, <3>4, <3>5, <3>7 DEF file
    <3>8. CASE b # active.base
      BY <2>4, <2>5, <3>5, <3>8
    <3> QED BY <3>6, <3>7, <3>8
  <2>7. CASE ~write_record
    BY <2>4, <2>5, <2>7, OldSlots DEF SlotsOld
  <2> QED BY <2>6, <2>7
<1> QED BY <1>1, <1>2, <1>3, <1>4, <1>5

-----------------------------------------------------------------------------
\* The steps of the log as steps of the port.

\* A commit is an append of the port.
LEMMA CommitIsAppend ==
    ASSUME LogInv, EvictedFits, LogInv', EvictedFits', IdsUsed, OwnBatch, StoredGrows, PlainCommit
    PROVE  Port!LogNext
<1> DEFINE n == Len(stored)
           m == call.size
           d == call.id
           t == stored'
           new == [i \in 1..m |-> [off |-> n + i - 1, id |-> d, k |-> i]]
<1>1. /\ call.pc = "commit" /\ d \in Batches /\ evicted' = evicted /\ m \in Nat /\ m \in Sizes
  BY CommitFacts DEF IdsUsed
<1>2. /\ stored \in Seq(Record) /\ n \in Nat /\ DOMAIN stored = 1..n
  BY StoredFacts, LenProperties DEF StoreSound
<1>3. t \in Seq(Record) /\ \A j \in 1..Len(t) : t[j].off = j - 1
  <2>1. (LogInv /\ EvictedFits => Logs(stored, IF up THEN next_offset ELSE recoveredNext))'
    BY StoredLogs, PTL
  <2> QED BY <2>1 DEF Logs, Positions
<1>4. /\ Len(t) = n + m /\ \A i \in 1..m : t[n + i].id = d /\ t[n + i].k = i
  BY CommitStores
<1>5. ~Port!Committed(d)
  <2>1. Unstored(d)
    BY <1>1, NotStoredYet DEF Writing
  <2> QED BY <1>2, <2>1 DEF Port!Committed, Unstored
<1>6. \A i \in 1..n : t[i] = stored[i]
  BY DEF StoredGrows
<1>7. \E s : s = stored /\ s \in Seq(Record) /\ Len(s) = n /\ \A i \in 1..n : t[i] = s[i]
  BY <1>2, <1>6
<1>8. PICK s : s = stored /\ s \in Seq(Record) /\ Len(s) = n /\ \A i \in 1..n : t[i] = s[i]
  BY <1>7
<1> HIDE DEF n, m, d, t, new
<1>9. ASSUME NEW i \in 1..m
      PROVE  t[n + i] = [off |-> n + i - 1, id |-> d, k |-> i] /\ t[n + i] \in Record
  <2>1. n + i \in 1..Len(t)
    BY <1>1, <1>2, <1>4
  <2>2. t[n + i] \in Record /\ t[n + i].off = (n + i) - 1
    BY <1>3, <2>1, ElementOfSeq
  <2> QED BY <1>2, <1>4, <2>2 DEF Record
<1>10. /\ new \in Seq(Record) /\ Len(new) = m /\ \A i \in 1..m : new[i] = t[n + i]
  <2>1. new \in [1..m -> Record] /\ \A i \in 1..m : new[i] = t[n + i]
    <3>1. \A i \in 1..m : [off |-> n + i - 1, id |-> d, k |-> i] \in Record
      BY <1>9
    <3>2. new = [i \in 1..m |-> [off |-> n + i - 1, id |-> d, k |-> i]]
      BY DEF new
    <3> QED BY <1>9, <3>1, <3>2
  <2> QED BY <1>1, <2>1, SeqDef
<1>11. Joined(s, new, n, Record)
  BY <1>2, <1>8, <1>10, ConcatJoins
<1>12. t = s \o new
  <2>1. /\ s \o new \in Seq(Record) /\ Len(s \o new) = n + m
        /\ (\A i \in 1..n : (s \o new)[i] = s[i]) /\ (\A i \in 1..m : (s \o new)[n + i] = new[i])
    BY <1>1, <1>2, <1>8, <1>10, <1>11 DEF Joined
  <2>2. \A i \in 1..(n + m) : i \in 1..n \/ (i - n \in 1..m /\ n + (i - n) = i)
    BY <1>1, <1>2
  <2>3. \A i \in 1..(n + m) : t[i] = (s \o new)[i]
    BY <1>8, <1>10, <2>1, <2>2
  <2> QED BY <1>1, <1>2, <1>3, <1>4, <2>1, <2>3, SeqEqual
<1>13. Port!AppendBatch(d, m)
  <2>1. stored' = stored \o [k \in 1..m |-> [off |-> Len(stored) + k - 1, id |-> d, k |-> k]]
    BY <1>8, <1>12 DEF t, new, n
  <2>2. Len(evicted)' = Len(evicted)
    BY <1>1
  <2> QED BY <1>5, <2>1, <2>2 DEF Port!AppendBatch
<1> QED BY <1>1, <1>13 DEF Port!LogNext

\* What recovery finds behind the stored records is salvaged.
LEMMA CrashSalvages ==
    ASSUME LogInv, EvictedFits, LogInv', EvictedFits', IndexedIsClosed, BehindNew, StoredGrows, PlainCrash
    PROVE  Port!Salvage
<1>1. /\ up /\ ~up' /\ idx' = idx /\ evicted' = evicted
  BY DEF PlainCrash, Crash
<1>2. /\ stored \in Seq(Record) /\ Len(stored) \in Nat /\ DOMAIN stored = 1..Len(stored)
      /\ \A b \in DOMAIN segs : /\ b \in Nat /\ held(b) \in Nat /\ Len(segs[b].slots) \in Nat
                                /\ durable(b) = held(b)
  BY StoredFacts, AllDurable, LenProperties DEF StoreSound
<1>3. /\ Len(stored') \in Nat /\ Len(evicted') \in Nat /\ Contents(stored)'
      /\ \A b \in DOMAIN segs' : held(b)' \in Nat /\ held(b)' <= Len(segs'[b].slots)
  <2>1. (LogInv /\ EvictedFits => StoreSound)'
    BY StoredFacts, PTL
  <2> QED BY <2>1 DEF StoreSound
<1>4. /\ DOMAIN segs' = DOMAIN segs
      /\ \A b \in DOMAIN segs : /\ Len(segs'[b].slots) \in Nat /\ Len(segs'[b].slots) <= Len(segs[b].slots)
                                /\ \A k \in 1..Len(segs'[b].slots) : segs'[b].slots[k] = segs[b].slots[k]
  BY CrashCuts DEF CutsOnly, Cut
<1>5. \A j : Durable(j) => j \in 1..Len(stored)
  BY DurableStored DEF DurableSound
<1>6. stored' \in Seq(Record) /\ \A j \in 1..Len(stored') : stored'[j].off = j - 1
  <2>1. (LogInv /\ EvictedFits => Logs(stored, IF up THEN next_offset ELSE recoveredNext))'
    BY StoredLogs, PTL
  <2> QED BY <2>1 DEF Logs, Positions
<1>7. ASSUME NEW j \in (Len(stored) + 1)..Len(stored')
      PROVE  stored'[j] \in Record /\ stored'[j].off = j - 1 /\ Unstored(stored'[j].id)
  <2>0. j \in 1..Len(stored') /\ j > Len(stored)
    BY <1>2, <1>3
  <2>1. ~(j <= Len(evicted'))
    <3>1. Len(evicted) \in Nat /\ Len(evicted) <= Len(stored)
      BY StoredFacts DEF StoreSound, Contents
    <3> QED BY <1>1, <1>2, <2>0, <3>1
  <2>2. PICK b \in DOMAIN segs' : \E k \in 1..held(b)' : j = b + k
    BY <1>3, <2>0, <2>1 DEF Contents
  <2>3. PICK k \in 1..held(b)' : j = b + k
    BY <2>2
  <2>4. b \in DOMAIN segs /\ stored'[j] = segs'[b].slots[k]
    BY <1>3, <1>4, <2>3 DEF Contents
  <2>5. k \in 1..Len(segs'[b].slots) /\ k \in 1..Len(segs[b].slots)
    BY <1>2, <1>3, <1>4, <2>4, SMTT(30)
  <2>6. k > held(b)
    <3>1. ~(k \in 1..durable(b))
      BY <1>2, <1>5, <2>0, <2>3, <2>4 DEF Durable
    <3> QED BY <1>2, <2>4, <2>5, <3>1
  <2>7. b \notin DOMAIN idx
    <3>1. ASSUME b \in DOMAIN idx PROVE held(b)' = durable(b)
      BY <1>1, <3>1 DEF held, durable, recordsIn
    <3> QED BY <1>2, <1>3, <2>4, <2>6, <3>1
  <2>8. stored'[j] \in Record /\ stored'[j].off = j - 1
    BY <1>6, <2>0, ElementOfSeq
  <2>9. stored'[j] = segs[b].slots[k] /\ segs[b].slots[k] # Sentinel
    BY <1>4, <2>4, <2>5, <2>8, SentinelIsNoRecord
  <2>10. Unstored(segs[b].slots[k].id)
    BY <1>1, <2>0, <2>3, <2>4, <2>5, <2>7, <2>9 DEF BehindNew, Unindexed
  <2> QED BY <2>8, <2>9, <2>10
<1>8. SubSeq(stored', 1, Len(stored)) = stored
  <2> DEFINE n == Len(stored)
             t == stored'
             s == stored
  <2>1. /\ s \in Seq(Record) /\ Len(s) = n /\ n \in Nat /\ t \in Seq(Record) /\ n <= Len(t)
        /\ \A i \in 1..n : t[i] = s[i]
    BY <1>2, <1>6 DEF StoredGrows
  <2> HIDE DEF n, t, s
  <2>2. /\ SubSeq(t, 1, n) \in Seq(Record) /\ Len(SubSeq(t, 1, n)) = n
        /\ \A i \in 1..n : SubSeq(t, 1, n)[i] = t[i]
    BY <2>1
  <2>3. SubSeq(t, 1, n) = s
    BY <2>1, <2>2, SeqEqual
  <2> QED BY <2>3 DEF n, t, s
<1>9. \A j \in (Len(stored) + 1)..Len(stored') :
        stored'[j] \in Port!Entry /\ stored'[j].off = j - 1 /\ ~Port!Committed(stored'[j].id)
  BY <1>2, <1>7 DEF Port!Entry, Port!Committed, Record, Unstored
<1> QED BY <1>1, <1>8, <1>9 DEF Port!Salvage, StoredGrows

\* Every step of the log is a step of the port or leaves it alone.
LEMMA PortStep ==
    ASSUME ~Cancels, LogInv, EvictedFits, AckInv, IndexedIsClosed, BehindNew,
           LogInv', EvictedFits', [PlainNext]_vars
    PROVE  BehindNew' /\ [Port!LogNext \/ (Dies /\ Port!Salvage)]_<<stored, Len(evicted)>>
<1>1. IdsUsed /\ OwnBatch /\ Leftovers
  BY DEF AckInv
<1>2. StoredGrows /\ Kept
  BY <1>1, GrowsStep, StepKeeps
<1> SUFFICES [Port!LogNext \/ (Dies /\ Port!Salvage)]_<<stored, Len(evicted)>>
  BY <1>2, BehindStep
<1>3. CASE Len(stored') = Len(stored)
  <2>1. stored \in Seq(Record) /\ Len(stored) \in Nat /\ Len(evicted) \in Nat
    BY StoredFacts DEF StoreSound
  <2>2. /\ stored' \in Seq(Record) /\ Len(evicted') \in Nat /\ Len(evicted') <= Len(stored')
    <3>1. (LogInv /\ EvictedFits => StoreSound)'
      BY StoredFacts, PTL
    <3> QED BY <3>1 DEF StoreSound, Contents
  <2>3. stored' = stored
    <3>1. /\ stored' = [i \in 1..Len(stored') |-> stored'[i]]
          /\ stored = [i \in 1..Len(stored) |-> stored[i]]
      BY <2>1, <2>2
    <3> QED BY <1>2, <1>3, <3>1 DEF StoredGrows
  <2>4. CASE Len(evicted') = Len(evicted)
    BY <2>3, <2>4
  <2>5. CASE Len(evicted') # Len(evicted)
    <3>1. Len(evicted') \in (Len(evicted) + 1)..Len(stored)
      BY <1>2, <1>3, <2>1, <2>2, <2>5 DEF Kept
    <3>2. Port!Evict
      BY <2>3, <3>1 DEF Port!Evict
    <3> QED BY <3>2 DEF Port!LogNext
  <2> QED BY <2>4, <2>5
<1>4. CASE PlainCommit
  BY <1>1, <1>2, <1>4, CommitIsAppend
<1>5. CASE PlainCrash
  BY <1>2, <1>5, CrashSalvages DEF PlainCrash, Crash, Dies
<1> QED BY <1>3, <1>4, <1>5, EndMoves

(***************************************************************************)
(* For every batch size, when no call is aborted and until an append goes  *)
(* around left-overs: the segment log implements the EventLog port as far  *)
(* as recovery lets it.  What a reader knows changes only by the whole     *)
(* batch of a call that is not in it yet, by an eviction from the front,   *)
(* and, at a crash only, by records that recovery salvages from a call of  *)
(* which it had none: nothing moves, changes or loses a record.            *)
(***************************************************************************)
THEOREM ImplementsEventLogAlways ==
    ASSUME ~Cancels
    PROVE  Spec => ImplementsEventLog
<1>1. Init => Port!LogInit
  <2> SUFFICES ASSUME Init PROVE stored = <<>> /\ Len(evicted) = 0
    BY DEF Port!LogInit
  <2>1. LogInv /\ EvictedFits /\ evicted = <<>> /\ DOMAIN segs = {} /\ ~up
    BY EvictedInit DEF Init
  <2>2. stored \in Seq(Record) /\ Contents(stored) /\ Len(stored) \in Nat
    BY <2>1, StoredFacts DEF StoreSound
  <2>3. Len(evicted) = 0
    BY <2>1
  <2>4. Len(stored) = 0
    <3>1. ASSUME Len(stored) # 0 PROVE FALSE
      <4>1. 1 \in 1..Len(stored) /\ ~(1 <= Len(evicted))
        BY <2>2, <2>3, <3>1
      <4> QED BY <2>1, <2>2, <4>1 DEF Contents
    <3> QED BY <3>1
  <2> QED BY <2>2, <2>3, <2>4, EmptySeq
<1>2. Init => IndexedIsClosed /\ BehindNew
  BY DEF Init, IndexedIsClosed, BehindNew
<1>3. /\ LogInv /\ TailInv /\ EvictedFits /\ (strayed \/ AckInv)
      /\ (strayed \/ (IndexedIsClosed /\ BehindNew)) /\ [Next]_vars /\ LogInv' /\ EvictedFits'
      => (strayed' \/ (IndexedIsClosed' /\ BehindNew'))
  BY IndexedStep, PortStep, PlainStep, TailStep
<1>4. /\ LogInv /\ TailInv /\ EvictedFits /\ (strayed \/ AckInv)
      /\ (strayed \/ (IndexedIsClosed /\ BehindNew)) /\ [Next]_vars /\ LogInv' /\ EvictedFits'
      => [strayed' \/ BehindIndex \/ Port!LogNext \/ (Dies /\ Port!Salvage)]_<<stored, Len(evicted)>>
  BY PortStep, PlainStep, TailStep
<1> QED BY <1>1, <1>2, <1>3, <1>4, AckAlways, PTL DEF Spec, ImplementsEventLog

=============================================================================
