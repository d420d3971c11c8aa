------------------------- MODULE EventIngestProofs -------------------------
(***************************************************************************)
(* Theorems about EventIngest for every set of producers and sessions,     *)
(* every plan and every number of faults, and about the crossing engine it *)
(* calls.                                                                  *)
(***************************************************************************)
EXTENDS EventIngest, SequenceTheorems, TLAPS, WellFoundedInduction

-----------------------------------------------------------------------------
(***************************************************************************)
(* The crossing engine's operators, for groups of every size: the peak a   *)
(* crossing is timed by exists, its uncertainty covers every detection of  *)
(* the group, and every operator keeps its type.                           *)
(***************************************************************************)

\* Every non-empty set of naturals has a least element.
LEMMA LeastNat ==
    ASSUME NEW T \in SUBSET Nat, T # {}
    PROVE  \E m \in T : \A x \in T : m <= x
<1> DEFINE R == OpToRel(<, Nat)
<1>1. IsWellFoundedOn(R, Nat)
  BY NatLessThanWellFounded
<1> HIDE DEF R
<1>2. \E m \in T : \A x \in T : ~(<<x, m>> \in R)
  BY ONLY <1>1, WFMin, T \in SUBSET Nat, T # {}
<1>3. \A x, y \in Nat : x < y => <<x, y>> \in R
  BY DEF R, OpToRel
<1>4. PICK m \in T : \A x \in T : ~(<<x, m>> \in R)
  BY <1>2
<1>5. \A x \in T : ~(x < m)
  BY <1>3, <1>4
<1>6. \A x \in T : m <= x
  BY <1>5
<1> QED BY <1>6

\* Every non-empty set of integers below a bound has a greatest element.
LEMMA GreatestInt ==
    ASSUME NEW hi \in Int, NEW T \in SUBSET Int, T # {}, \A x \in T : x <= hi
    PROVE  \E m \in T : \A x \in T : x <= m
<1> DEFINE U == {hi - x : x \in T}
<1>1. U \in SUBSET Nat /\ U # {}
  <2>1. \A x \in T : hi - x \in Nat
    OBVIOUS
  <2>2. \A y \in U : y \in Nat
    BY <2>1
  <2>3. \E x \in T : hi - x \in U
    OBVIOUS
  <2> QED BY <2>2, <2>3
<1>2. PICK u \in U : \A y \in U : u <= y
  BY <1>1, LeastNat
<1>3. PICK m \in T : u = hi - m
  BY <1>2
<1>4. \A x \in T : x <= m
  <2> SUFFICES ASSUME NEW x \in T PROVE x <= m
    OBVIOUS
  <2>1. u <= hi - x
    BY <1>2
  <2> QED BY <1>3, <2>1
<1> QED BY <1>4

\* The range of an RSSI reading, i16.
LEMMA I16Facts ==
    /\ I16Min \in I16 /\ I16Max \in Int
    /\ \A x \in I16 : x \in Int /\ x <= I16Max
<1>1. I16Min \in Int /\ I16Max \in Int /\ I16Min <= I16Max
  BY DEF I16Min, I16Max
<1> QED BY <1>1 DEF I16

\* The fields of the detections of a group, read off its type.
LEMMA GroupFields ==
    ASSUME NEW dets \in Seq(Detection), NEW i \in DOMAIN dets
    PROVE  /\ dets[i] \in Detection
           /\ i \in Nat /\ i >= 1 /\ i <= Len(dets)
           /\ dets[i].t \in U64
           /\ rssiOf(dets[i]) \in I16
           /\ dets[i].unc \in U64 \cup {NoUnc}
           /\ dets[i].timing_point \in TimingPoints
           /\ dets[i].subject \in Subjects \cup {Anonymous}
<1>1. dets[i] \in Detection /\ i \in 1..Len(dets) /\ Len(dets) \in Nat
  OBVIOUS
<1>2. /\ dets[i].t \in U64 /\ dets[i].rssi \in I16 \cup {NoRssi}
      /\ dets[i].unc \in U64 \cup {NoUnc}
      /\ dets[i].timing_point \in TimingPoints
      /\ dets[i].subject \in Subjects \cup {Anonymous}
  BY <1>1 DEF Detection
<1>3. rssiOf(dets[i]) \in I16
  BY <1>2, I16Facts DEF rssiOf
<1> QED BY <1>1, <1>2, <1>3

\* The CHOOSE of pick_peak_index has a witness: with an RSSI there is a last
\* detection of the strongest signal.
LEMMA PeakIsStrongest ==
    ASSUME NEW dets \in Seq(Detection),
           \E i \in DOMAIN dets : dets[i].rssi # NoRssi
    PROVE  /\ pick_peak_index(dets) \in DOMAIN dets
           /\ \A j \in DOMAIN dets :
                 rssiOf(dets[j]) <= rssiOf(dets[pick_peak_index(dets)])
           /\ \A j \in DOMAIN dets : j > pick_peak_index(dets) =>
                 rssiOf(dets[j]) < rssiOf(dets[pick_peak_index(dets)])
<1> DEFINE T == {rssiOf(dets[i]) : i \in DOMAIN dets}
           Peak(i) == /\ \A j \in DOMAIN dets : rssiOf(dets[j]) <= rssiOf(dets[i])
                      /\ \A j \in DOMAIN dets : j > i => rssiOf(dets[j]) < rssiOf(dets[i])
<1>1. \A i \in DOMAIN dets : rssiOf(dets[i]) \in I16 /\ i \in Nat /\ i <= Len(dets)
  BY GroupFields
<1>2. T \in SUBSET Int /\ T # {} /\ \A x \in T : x <= I16Max
  <2>1. \A x \in T : x \in I16
    BY <1>1
  <2>2. \E i \in DOMAIN dets : rssiOf(dets[i]) \in T
    OBVIOUS
  <2> QED BY <2>1, <2>2, I16Facts
<1>3. PICK m \in T : \A x \in T : x <= m
  <2> HIDE DEF T
  <2> QED BY <1>2, I16Facts, GreatestInt
<1> DEFINE Best == {i \in DOMAIN dets : rssiOf(dets[i]) = m}
<1>4. Best \in SUBSET Int /\ Best # {} /\ Len(dets) \in Int /\ \A i \in Best : i <= Len(dets)
  BY <1>1, <1>3
<1>5. PICK b \in Best : \A i \in Best : i <= b
  <2> HIDE DEF Best
  <2> QED BY <1>4, GreatestInt
<1>6. b \in DOMAIN dets /\ Peak(b)
  <2>1. b \in DOMAIN dets /\ rssiOf(dets[b]) = m
    BY <1>5
  <2>2. \A j \in DOMAIN dets : rssiOf(dets[j]) <= m
    BY <1>3
  <2>3. ASSUME NEW j \in DOMAIN dets, j > b
        PROVE  rssiOf(dets[j]) < m
    <3>1. rssiOf(dets[j]) # m
      <4> SUFFICES ASSUME rssiOf(dets[j]) = m PROVE FALSE
        OBVIOUS
      <4>1. j <= b
        BY <1>5
      <4> QED BY <1>1, <2>1, <2>3, <4>1
    <3>2. rssiOf(dets[j]) \in Int /\ m \in Int
      BY <1>1, <2>1, I16Facts
    <3> QED BY <2>2, <3>1, <3>2
  <2> QED BY <2>1, <2>2, <2>3
<1>7. pick_peak_index(dets) = CHOOSE i \in DOMAIN dets : Peak(i)
  BY DEF pick_peak_index
<1> HIDE DEF Peak
<1>8. pick_peak_index(dets) \in DOMAIN dets /\ Peak(pick_peak_index(dets))
  BY <1>6, <1>7
<1> QED BY <1>8 DEF Peak

\* Without one, a first detection of the earliest timestamp.
LEMMA PeakIsEarliest ==
    ASSUME NEW dets \in Seq(Detection), dets # <<>>,
           \A i \in DOMAIN dets : dets[i].rssi = NoRssi
    PROVE  /\ pick_peak_index(dets) \in DOMAIN dets
           /\ \A j \in DOMAIN dets : dets[pick_peak_index(dets)].t <= dets[j].t
           /\ \A j \in DOMAIN dets : j < pick_peak_index(dets) =>
                 dets[pick_peak_index(dets)].t < dets[j].t
<1> DEFINE T == {dets[i].t : i \in DOMAIN dets}
           Peak(i) == /\ \A j \in DOMAIN dets : dets[j].t >= dets[i].t
                      /\ \A j \in DOMAIN dets : j < i => dets[j].t > dets[i].t
<1>1. \A i \in DOMAIN dets : dets[i].t \in Nat /\ i \in Nat
  BY GroupFields, U64Assumption DEF U64
<1>2. T \in SUBSET Nat /\ T # {}
  <2>1. 1 \in DOMAIN dets
    OBVIOUS
  <2> QED BY <1>1, <2>1
<1>3. PICK m \in T : \A x \in T : m <= x
  BY <1>2, LeastNat
<1> DEFINE Best == {i \in DOMAIN dets : dets[i].t = m}
<1>4. Best \in SUBSET Nat /\ Best # {}
  BY <1>1, <1>3
<1>5. PICK b \in Best : \A i \in Best : b <= i
  <2> HIDE DEF Best
  <2> QED BY <1>4, LeastNat
<1>6. b \in DOMAIN dets /\ Peak(b)
  <2>1. b \in DOMAIN dets /\ dets[b].t = m
    BY <1>5
  <2>2. \A j \in DOMAIN dets : dets[j].t >= m
    BY <1>1, <1>3, <2>1
  <2>3. ASSUME NEW j \in DOMAIN dets, j < b
        PROVE  dets[j].t > m
    <3>1. dets[j].t # m
      <4> SUFFICES ASSUME dets[j].t = m PROVE FALSE
        OBVIOUS
      <4>1. b <= j
        BY <1>5
      <4> QED BY <1>1, <2>1, <2>3, <4>1
    <3>2. dets[j].t \in Nat /\ m \in Nat
      BY <1>1, <2>1
    <3> QED BY <2>2, <3>1, <3>2
  <2> QED BY <2>1, <2>2, <2>3
<1>7. pick_peak_index(dets) = CHOOSE i \in DOMAIN dets : Peak(i)
  BY DEF pick_peak_index
<1> HIDE DEF Peak
<1>8. pick_peak_index(dets) \in DOMAIN dets /\ Peak(pick_peak_index(dets))
  BY <1>6, <1>7
<1>9. \A j \in DOMAIN dets :
         /\ dets[pick_peak_index(dets)].t <= dets[j].t
         /\ j < pick_peak_index(dets) => dets[pick_peak_index(dets)].t < dets[j].t
  BY <1>1, <1>8 DEF Peak
<1> QED BY <1>8, <1>9

\* The peak of a non-empty group is one of its detections: the index
\* pick_peak_index returns is in bounds.
LEMMA PeakInGroup ==
    ASSUME NEW dets \in Seq(Detection), dets # <<>>
    PROVE  pick_peak_index(dets) \in DOMAIN dets
<1>1. CASE \E i \in DOMAIN dets : dets[i].rssi # NoRssi
  BY <1>1, PeakIsStrongest
<1>2. CASE \A i \in DOMAIN dets : dets[i].rssi = NoRssi
  BY <1>2, PeakIsEarliest
<1> QED BY <1>1, <1>2

\* The span of a group is a u64: the subtraction cannot underflow.  No two
\* detections of the group are further apart.
LEMMA SpanType ==
    ASSUME NEW dets \in Seq(Detection), dets # <<>>
    PROVE  /\ span(dets) \in U64
           /\ \A i, j \in DOMAIN dets : dets[i].t - dets[j].t <= span(dets)
<1> DEFINE T == {dets[i].t : i \in DOMAIN dets}
<1>1. \A i \in DOMAIN dets : dets[i].t \in U64
  BY GroupFields
<1>2. T \in SUBSET Nat /\ T \in SUBSET Int /\ T # {} /\ \A x \in T : x <= U64Max
  <2>1. 1 \in DOMAIN dets
    OBVIOUS
  <2> QED BY <1>1, <2>1, U64Assumption DEF U64
<1> DEFINE hi == CHOOSE h \in T : \A x \in T : x <= h
           lo == CHOOSE l \in T : \A x \in T : l <= x
<1>3. span(dets) = hi - lo
  BY DEF span
<1> HIDE DEF T
<1>4. hi \in T /\ \A x \in T : x <= hi
  <2>1. \E h \in T : \A x \in T : x <= h
    <3>1. U64Max \in Int
      BY U64Assumption
    <3> QED BY <1>2, <3>1, GreatestInt
  <2> QED BY <2>1
<1>5. lo \in T /\ \A x \in T : lo <= x
  <2>1. \E l \in T : \A x \in T : l <= x
    BY <1>2, LeastNat
  <2> QED BY <2>1
<1> HIDE DEF hi, lo
<1>6. hi \in Nat /\ lo \in Nat /\ lo <= hi /\ hi <= U64Max
  BY <1>2, <1>4, <1>5
<1>7. \A i \in DOMAIN dets : dets[i].t \in T
  BY DEF T
<1>8. ASSUME NEW i \in DOMAIN dets, NEW j \in DOMAIN dets
      PROVE  dets[i].t - dets[j].t <= span(dets)
  <2>1. /\ dets[i].t \in Nat /\ dets[j].t \in Nat
        /\ dets[i].t <= hi /\ lo <= dets[j].t
    BY <1>2, <1>4, <1>5, <1>7
  <2> QED BY <1>3, <1>6, <2>1
<1> QED BY <1>3, <1>6, <1>8, U64Assumption DEF U64

(***************************************************************************)
(* "Widened to cover the full span of contributing detections when more    *)
(* than one detection is in the group" (crossing.rs,                       *)
(* crossed_at_uncertainty_ns), for every group and whichever detection is  *)
(* its peak: every contributing detection lies within the uncertainty of   *)
(* crossed_at, and a crossing without one has a single moment.             *)
(***************************************************************************)
THEOREM UncertaintyCovers ==
    ASSUME NEW dets \in Seq(Detection), dets # <<>>, NEW i \in DOMAIN dets
    PROVE  LET c == commitGroup(dets)
           IN  IF c.unc = NoUnc THEN dets[i].t = c.crossed_at
               ELSE c.crossed_at - c.unc <= dets[i].t /\ dets[i].t <= c.crossed_at + c.unc
<1> DEFINE pk == pick_peak_index(dets)
           s == span(dets)
           u == dets[pk].unc
           x == dets[pk].t
           y == dets[i].t
           un == crossedUncertainty(u, s)
<1>1. pk \in DOMAIN dets
  BY PeakInGroup
<1>2. x \in U64 /\ y \in U64 /\ u \in U64 \cup {NoUnc}
  BY <1>1, GroupFields
<1>3. s \in U64 /\ y - x <= s /\ x - y <= s
  BY <1>1, SpanType
<1>4. commitGroup(dets).crossed_at = x /\ commitGroup(dets).unc = un
  BY DEF commitGroup
<1> HIDE DEF pk, s, u, x, y
<1>5. x \in Nat /\ y \in Nat /\ s \in Nat /\ (s = 0 \/ s > 0)
  BY <1>2, <1>3, U64Assumption DEF U64
<1>6. s # NoUnc /\ (u # NoUnc => u \in Nat)
  BY <1>2, <1>3, U64Assumption, NoUncAssumption DEF U64
<1>7. \/ un = NoUnc /\ s = 0
      \/ un # NoUnc /\ un \in Nat /\ s <= un
  BY <1>5, <1>6 DEF crossedUncertainty
<1> HIDE DEF un
<1>8. CASE un = NoUnc /\ s = 0
  <2>1. y = x
    BY <1>3, <1>5, <1>8
  <2> QED BY <1>4, <1>8, <2>1 DEF y
<1>9. CASE un # NoUnc /\ un \in Nat /\ s <= un
  <2>1. x - un <= y /\ y <= x + un
    BY <1>3, <1>5, <1>9
  <2> QED BY <1>4, <1>9, <2>1 DEF y
<1> QED BY <1>7, <1>8, <1>9

\* PendingGroup::commit turns a non-empty group into a crossing body.
LEMMA CommitGroupType ==
    ASSUME NEW dets \in Seq(Detection), dets # <<>>
    PROVE  commitGroup(dets) \in CrossingBody
<1> DEFINE pk == pick_peak_index(dets)
           un == crossedUncertainty(dets[pk].unc, span(dets))
<1>1. pk \in DOMAIN dets
  BY PeakInGroup
<1>2. dets[pk].t \in U64 /\ dets[pk].unc \in U64 \cup {NoUnc}
  BY <1>1, GroupFields
<1>3. 1 \in DOMAIN dets
  OBVIOUS
<1>4. dets[1].timing_point \in TimingPoints /\ dets[1].subject \in Subjects \cup {Anonymous}
  BY <1>3, GroupFields
<1>5. un \in U64 \cup {NoUnc}
  <2> HIDE DEF pk
  <2>1. span(dets) \in U64
    BY SpanType
  <2>2. span(dets) > 0 \/ span(dets) = 0
    BY <2>1, U64Assumption DEF U64
  <2> QED BY <1>2, <2>1, <2>2 DEF crossedUncertainty
<1>6. commitGroup(dets) = [timing_point |-> dets[1].timing_point, subject |-> dets[1].subject,
                           crossed_at |-> dets[pk].t, unc |-> un, detections |-> dets]
  BY DEF commitGroup
<1> HIDE DEF pk, un
<1> QED BY <1>2, <1>4, <1>5, <1>6 DEF CrossingBody

\* peek_detection yields at most one crossing, of the right type.
LEMMA PeekDetectionType ==
    ASSUME NEW groups \in [GroupKey -> Seq(Detection)], NEW det \in Detection
    PROVE  /\ peek_detection(groups, det) \in Seq(CrossingBody)
           /\ Len(peek_detection(groups, det)) <= 1
<1>1. CASE det.subject = Anonymous
  <2>1. <<det>> \in Seq(Detection) /\ <<det>> # <<>>
    OBVIOUS
  <2>2. commitGroup(<<det>>) \in CrossingBody
    BY <2>1, CommitGroupType
  <2>3. peek_detection(groups, det) = <<commitGroup(<<det>>)>>
    BY <1>1 DEF peek_detection
  <2> QED BY <2>2, <2>3
<1>2. CASE det.subject # Anonymous
  <2> DEFINE g == groups[groupKey(det)]
  <2>1. g \in Seq(Detection)
    BY <1>2 DEF groupKey, GroupKey, Detection
  <2>2. CASE outsideWindow(groups, det)
    <3>1. g # <<>>
      BY <2>2 DEF outsideWindow
    <3>2. commitGroup(g) \in CrossingBody
      BY <2>1, <3>1, CommitGroupType
    <3>3. peek_detection(groups, det) = <<commitGroup(g)>>
      BY <1>2, <2>2 DEF peek_detection
    <3> QED BY <3>2, <3>3
  <2>3. CASE ~outsideWindow(groups, det)
    <3>1. peek_detection(groups, det) = <<>>
      BY <1>2, <2>3 DEF peek_detection
    <3> QED BY <3>1
  <2> QED BY <2>2, <2>3
<1> QED BY <1>1, <1>2

\* commit_detection keeps the type of the groups map.
LEMMA CommitDetectionType ==
    ASSUME NEW groups \in [GroupKey -> Seq(Detection)], NEW det \in Detection
    PROVE  commit_detection(groups, det) \in [GroupKey -> Seq(Detection)]
<1>1. CASE det.subject = Anonymous
  BY <1>1 DEF commit_detection
<1>2. CASE det.subject # Anonymous
  <2> DEFINE g == groupKey(det)
  <2>1. g \in GroupKey
    BY <1>2 DEF groupKey, GroupKey, Detection
  <2>2. <<det>> \in Seq(Detection) /\ Append(groups[g], det) \in Seq(Detection)
    BY <2>1
  <2> QED BY <1>2, <2>1, <2>2 DEF commit_detection
<1> QED BY <1>1, <1>2

-----------------------------------------------------------------------------
\* What batch(s) is made of.
LEMMA BatchFacts ==
    ASSUME TypeOK, HoldsEvent, NEW s \in Sessions, sess[s].pc = "append"
    PROVE  /\ batch(s) \in Seq(Record)
           /\ Len(batch(s)) \in Nat /\ Len(batch(s)) >= 1
           /\ batch(s)[1] = EventRecord(sess[s].producer, event(s))
           /\ \A i \in 2..Len(batch(s)) : batch(s)[i].kind = "Crossing"
<1> DEFINE p  == sess[s].producer
           cs == sess[s].crossings
           xs == [i \in 1..Len(cs) |-> CrossingRecord(p, cs[i])]
           e  == event(s)
           b1 == <<EventRecord(p, e)>>
<1>1. p \in Producers /\ cs \in Seq(CrossingBody) /\ sess[s].next \in 1..Len(Plan[p])
  <2>1. sess[s] \in SessionState
    BY DEF TypeOK
  <2>2. p \in Producers /\ cs \in Seq(CrossingBody) /\ sess[s].next \in Nat \ {0}
    BY <2>1 DEF SessionState
  <2>3. Len(Plan[p]) \in Nat
    BY <2>2, PlanAssumption
  <2>4. sess[s].next <= Len(Plan[p])
    BY DEF HoldsEvent
  <2> QED BY <2>2, <2>3, <2>4
<1>2. e \in Event
  BY <1>1, PlanAssumption DEF event
<1>3. EventRecord(p, e) \in Record
  <2>1. CASE e \in Detection
    BY <1>1, <2>1 DEF EventRecord, Record, Detection
  <2>2. CASE e \in Status
    BY <1>1, <2>2 DEF EventRecord, Record, Status
  <2> QED BY <1>2, <2>1, <2>2 DEF Event
<1>4. \A i \in 1..Len(cs) : CrossingRecord(p, cs[i]) \in Record /\ CrossingRecord(p, cs[i]).kind = "Crossing"
  BY <1>1 DEF CrossingRecord, Record
<1>5. xs \in Seq(Record) /\ Len(xs) = Len(cs) /\ \A i \in 1..Len(cs) : xs[i].kind = "Crossing"
  BY <1>1, <1>4
<1>6. b1 \in Seq(Record) /\ Len(b1) = 1 /\ b1[1] = EventRecord(p, e)
  BY <1>3
<1>7. batch(s) = b1 \o xs
  BY DEF batch
<1> HIDE DEF xs, b1, e
<1>8. /\ b1 \o xs \in Seq(Record)
      /\ Len(b1 \o xs) = 1 + Len(xs)
      /\ (b1 \o xs)[1] = b1[1]
      /\ \A i \in 2..Len(b1 \o xs) : (b1 \o xs)[i] = xs[i - 1] /\ i - 1 \in 1..Len(xs)
  <2>1. Len(xs) \in Nat
    BY <1>5
  <2>2. /\ b1 \o xs \in Seq(Record)
        /\ Len(b1 \o xs) = Len(b1) + Len(xs)
        /\ \A i \in 1..(Len(b1) + Len(xs)) :
              (b1 \o xs)[i] = IF i <= Len(b1) THEN b1[i] ELSE xs[i - Len(b1)]
    <3>1. b1 \in Seq(Record) /\ xs \in Seq(Record)
      BY <1>5, <1>6
    <3> QED BY ONLY <3>1, ConcatProperties, Zenon
  <2> QED BY <1>6, <2>1, <2>2
<1>9. Len(xs) \in Nat
  BY <1>5
<1> QED BY <1>5, <1>6, <1>7, <1>8, <1>9 DEF e

\* The event a task holds in append_event is an event; where the code has
\* taken the Detection branch it is a detection.
LEMMA HeldEvent ==
    ASSUME TypeOK, HoldsEvent, NEW s \in Sessions, sess[s].pc \notin {"closed", "next_event"}
    PROVE  /\ sess[s].producer \in Producers
           /\ event(s) \in Event
           /\ IsDetection(event(s)) => /\ event(s) \in Detection
                                       /\ detectionKey(sess[s].producer, event(s)) \in GateKey
                                       /\ event(s).seq \in U64
<1>1. sess[s].producer \in Producers /\ sess[s].next \in 1..Len(Plan[sess[s].producer])
  BY PlanAssumption DEF TypeOK, SessionState, HoldsEvent
<1>2. event(s) \in Event
  BY <1>1, PlanAssumption DEF event
<1>3. IsDetection(event(s)) => event(s) \in Detection
  BY <1>2 DEF IsDetection, Event, Status
<1> QED BY <1>1, <1>2, <1>3 DEF Detection, detectionKey, GateKey

\* The same for the event a reading task is about to look at.
LEMMA ReadEvent ==
    ASSUME TypeOK, NEW s \in Sessions, HasNext(s)
    PROVE  /\ sess[s].producer \in Producers
           /\ event(s) \in Event
           /\ IsDetection(event(s)) => /\ event(s) \in Detection
                                       /\ detectionKey(sess[s].producer, event(s)) \in GateKey
                                       /\ event(s).seq \in U64
<1>1. sess[s].producer \in Producers /\ sess[s].next \in 1..Len(Plan[sess[s].producer])
  BY PlanAssumption DEF TypeOK, SessionState, HasNext
<1>2. event(s) \in Event
  BY <1>1, PlanAssumption DEF event
<1>3. IsDetection(event(s)) => event(s) \in Detection
  BY <1>2 DEF IsDetection, Event, Status
<1> QED BY <1>1, <1>2, <1>3 DEF Detection, detectionKey, GateKey

\* gate.commit keeps the map's type and never lowers a mark.
LEMMA CommitFacts ==
    ASSUME NEW hw \in HighWater, NEW k \in GateKey, NEW q \in U64
    PROVE  /\ commit(hw, k, q) \in HighWater
           /\ \A j \in GateKey : hw[j] <= commit(hw, k, q)[j]
           /\ q <= commit(hw, k, q)[k]
           /\ commit(hw, k, q)[k] \in {hw[k], q}
           /\ \A j \in GateKey : j # k => commit(hw, k, q)[j] = hw[j]
<1>1. \A j \in GateKey : hw[j] \in Int
  BY U64Assumption DEF HighWater, U64, NoMark
<1>2. q \in Int
  BY U64Assumption DEF U64
<1> QED BY <1>1, <1>2 DEF commit, HighWater

\* What the gate lets through is above the mark.
LEMMA PersistMeansAbove ==
    ASSUME NEW hw \in HighWater, NEW k \in GateKey, NEW q \in U64, persist(peek(hw, k, q))
    PROVE  q > hw[k]
<1>1. hw[k] \in Int /\ q \in Int /\ q >= 0 /\ (hw[k] # NoMark => hw[k] >= 0) /\ NoMark < 0
  BY U64Assumption DEF HighWater, U64, NoMark
<1> QED BY <1>1 DEF persist, peek

\* A closed session slot is well typed.
LEMMA ClosedSessionType == ClosedSession \in SessionState /\ ClosedSession.pc = "closed"
BY ProducersAssumption DEF ClosedSession, SessionState

-----------------------------------------------------------------------------
\* L is the log after some records of the batch of session s were stored:
\* first the event itself, then crossings only.
Grown(L, s) ==
    /\ L \in Seq(Record) /\ Len(L) \in Nat /\ Len(L) >= Len(log) + 1
    /\ \A i \in 1..Len(log) : L[i] = log[i]
    /\ L[Len(log) + 1] = EventRecord(sess[s].producer, event(s))
    /\ \A i \in (Len(log) + 2)..Len(L) : L[i].kind = "Crossing"

\* Concatenation keeps both sequences in place.
LEMMA ConcatFacts ==
    ASSUME NEW S, NEW a \in Seq(S), NEW b \in Seq(S)
    PROVE  /\ a \o b \in Seq(S) /\ Len(a) \in Nat /\ Len(b) \in Nat
           /\ Len(a \o b) = Len(a) + Len(b)
           /\ \A i \in 1..Len(a) : (a \o b)[i] = a[i]
           /\ \A i \in 1..Len(b) : (a \o b)[Len(a) + i] = b[i]
<1>1. /\ a \o b \in Seq(S)
      /\ Len(a \o b) = Len(a) + Len(b)
      /\ \A i \in 1..(Len(a) + Len(b)) :
            (a \o b)[i] = IF i <= Len(a) THEN a[i] ELSE b[i - Len(a)]
  BY ONLY a \in Seq(S), b \in Seq(S), ConcatProperties, Zenon
<1>2. Len(a) \in Nat /\ Len(b) \in Nat
  OBVIOUS
<1>3. \A i \in 1..Len(b) : /\ Len(a) + i \in 1..(Len(a) + Len(b))
                          /\ ~(Len(a) + i <= Len(a))
                          /\ (Len(a) + i) - Len(a) = i
  BY <1>2
<1>4. \A i \in 1..Len(a) : i \in 1..(Len(a) + Len(b)) /\ i <= Len(a)
  BY <1>2
<1>5. \A i \in 1..Len(b) : (a \o b)[Len(a) + i] = b[i]
  BY <1>1, <1>3
<1>6. \A i \in 1..Len(a) : (a \o b)[i] = a[i]
  BY <1>1, <1>4
<1> QED BY <1>1, <1>2, <1>5, <1>6

\* Storing the batch of a session grows the log by its event, then crossings.
LEMMA LogGrows ==
    ASSUME TypeOK, HoldsEvent, NEW s \in Sessions, sess[s].pc = "append",
           NEW b \in Seq(Record), b # <<>>,
           b[1] = EventRecord(sess[s].producer, event(s)),
           \A i \in 2..Len(b) : b[i].kind = "Crossing"
    PROVE  Grown(log \o b, s)
<1>1. log \in Seq(Record)
  BY DEF TypeOK
<1> DEFINE L == log \o b
<1>2. /\ L \in Seq(Record) /\ Len(log) \in Nat /\ Len(b) \in Nat
      /\ Len(L) = Len(log) + Len(b)
      /\ \A i \in 1..Len(log) : L[i] = log[i]
      /\ \A i \in 1..Len(b) : L[Len(log) + i] = b[i]
  BY <1>1, ConcatFacts
<1>3. Len(b) >= 1
  BY <1>2
<1> HIDE DEF L
<1>4. L[Len(log) + 1] = EventRecord(sess[s].producer, event(s))
  BY <1>2, <1>3
<1>5. ASSUME NEW i \in (Len(log) + 2)..Len(L)
      PROVE  L[i].kind = "Crossing"
  <2>1. i - Len(log) \in 2..Len(b) /\ i - Len(log) \in 1..Len(b) /\ i = Len(log) + (i - Len(log))
    BY <1>2, <1>5
  <2>2. L[Len(log) + (i - Len(log))] = b[i - Len(log)]
    BY <1>2, <2>1
  <2> QED BY <2>1, <2>2
<1>6. Len(L) \in Nat /\ Len(L) >= Len(log) + 1
  BY <1>2, <1>3
<1>7. Grown(L, s)
  BY <1>2, <1>4, <1>5, <1>6 DEF Grown
<1> QED BY <1>7 DEF L

\* A successful append, or one that failed late.
LEMMA StoreGrows ==
    ASSUME TypeOK, HoldsEvent, NEW s \in Sessions, sess[s].pc = "append"
    PROVE  Grown(log \o batch(s), s)
<1>1. batch(s) # <<>>
  BY BatchFacts
<1> QED BY <1>1, BatchFacts, LogGrows

\* A crash in the middle of an append.
LEMMA PrefixGrows ==
    ASSUME TypeOK, HoldsEvent, NEW s \in Sessions, sess[s].pc = "append",
           NEW n \in 1..Len(batch(s))
    PROVE  Grown(log \o SubSeq(batch(s), 1, n), s)
<1> DEFINE c == SubSeq(batch(s), 1, n)
<1>1. /\ batch(s) \in Seq(Record) /\ Len(batch(s)) \in Nat
      /\ batch(s)[1] = EventRecord(sess[s].producer, event(s))
      /\ \A i \in 2..Len(batch(s)) : batch(s)[i].kind = "Crossing"
  BY BatchFacts
<1>2. c \in Seq(Record) /\ Len(c) = n /\ \A i \in 1..n : c[i] = batch(s)[i]
  BY <1>1
<1> HIDE DEF c
<1>3. c # <<>> /\ c[1] = batch(s)[1]
  BY <1>1, <1>2
<1>4. \A i \in 2..Len(c) : i \in 2..Len(batch(s)) /\ c[i] = batch(s)[i]
  BY <1>1, <1>2
<1>5. Grown(log \o c, s)
  BY <1>1, <1>2, <1>3, <1>4, LogGrows
<1> QED BY <1>5 DEF c

\* The session records that the reading steps leave behind.
LEMMA ReadsOn ==
    ASSUME NEW x \in SessionState
    PROVE  /\ [x EXCEPT !.next = @ + 1] \in SessionState
           /\ [x EXCEPT !.next = @ + 1].pc = x.pc
           /\ [x EXCEPT !.pc = "next_event", !.next = @ + 1] \in SessionState
           /\ [x EXCEPT !.pc = "next_event", !.next = @ + 1].pc = "next_event"
           /\ [x EXCEPT !.pc = "next_event", !.next = @ + 1,
                        !.gap = FALSE, !.crossings = <<>>] \in SessionState
           /\ [x EXCEPT !.pc = "next_event", !.next = @ + 1,
                        !.gap = FALSE, !.crossings = <<>>].pc = "next_event"
<1>1. x.next + 1 \in Nat \ {0}
  BY DEF SessionState
<1>2. <<>> \in Seq(CrossingBody) /\ FALSE \in BOOLEAN
  OBVIOUS
<1> DEFINE m == x.next + 1
<1>3. m \in Nat \ {0}
  BY <1>1
<1> HIDE DEF m
<1>4. /\ [x EXCEPT !.next = m] \in SessionState
      /\ [x EXCEPT !.next = m].pc = x.pc
  BY <1>3 DEF SessionState
<1>5. /\ [x EXCEPT !.pc = "next_event", !.next = m] \in SessionState
      /\ [x EXCEPT !.pc = "next_event", !.next = m].pc = "next_event"
  BY <1>3 DEF SessionState
<1>6. /\ [x EXCEPT !.pc = "next_event", !.next = m,
                   !.gap = FALSE, !.crossings = <<>>] \in SessionState
      /\ [x EXCEPT !.pc = "next_event", !.next = m,
                   !.gap = FALSE, !.crossings = <<>>].pc = "next_event"
  BY <1>2, <1>3 DEF SessionState
<1>7. x \in [pc : {"closed", "next_event", "peek_detection", "append", "commit_gate",
                   "commit_detection"},
             producer : Producers, next : Nat \ {0}, gap : BOOLEAN, crossings : Seq(CrossingBody)]
  BY DEF SessionState
<1> QED BY <1>4, <1>5, <1>6, <1>7 DEF m

\* A task may be replaced by one that reads, or by one that holds an event.
LEMMA Replaced ==
    ASSUME TypeOK, HoldsEvent, NEW s \in Sessions, NEW r \in SessionState,
           \/ r.pc = "next_event"
           \/ r.next <= Len(Plan[r.producer]) /\ IsDetection(Plan[r.producer][r.next]),
           sess' = [sess EXCEPT ![s] = r]
    PROVE  sess' \in [Sessions -> SessionState] /\ HoldsEvent'
<1>1. sess' \in [Sessions -> SessionState] /\ sess'[s] = r
  BY DEF TypeOK
<1>2. \A o \in Sessions \ {s} : sess'[o] = sess[o]
  BY DEF TypeOK
<1> QED BY <1>1, <1>2 DEF HoldsEvent, event

-----------------------------------------------------------------------------
\* Types, and what a task holds, are kept by every step.
LEMMA TypeStep == TypeOK /\ HoldsEvent /\ [Next]_vars => TypeOK' /\ HoldsEvent'
<1> SUFFICES ASSUME TypeOK, HoldsEvent, [Next]_vars
             PROVE  TypeOK' /\ HoldsEvent'
  OBVIOUS
<1>1. ASSUME NEW s \in Sessions, NEW p \in Producers, NEW n \in 1..Len(Plan[p]), Connect(s, p, n)
      PROVE  TypeOK' /\ HoldsEvent'
  <2>1. n \in Nat \ {0}
    BY PlanAssumption
  <2>2. [ClosedSession EXCEPT !.pc = "next_event", !.producer = p, !.next = n] \in SessionState
    BY <2>1, ClosedSessionType DEF SessionState
  <2>3. [ClosedSession EXCEPT !.pc = "next_event", !.producer = p, !.next = n].pc = "next_event"
    BY ClosedSessionType DEF SessionState
  <2> QED BY <1>1, <2>2, <2>3 DEF Connect, TypeOK, HoldsEvent, event
<1>2. ASSUME NEW s \in Sessions, ReceiveStatus(s)
      PROVE  TypeOK' /\ HoldsEvent'
  BY <1>2 DEF ReceiveStatus, HasNext, TypeOK, HoldsEvent, event, SessionState
<1>3. ASSUME NEW s \in Sessions, DropDuplicate(s)
      PROVE  TypeOK' /\ HoldsEvent'
  <2>1. [sess[s] EXCEPT !.next = @ + 1] \in SessionState
    BY ReadsOn DEF TypeOK
  <2>2. sess' = [sess EXCEPT ![s] = [sess[s] EXCEPT !.next = @ + 1]]
    BY <1>3 DEF DropDuplicate, TypeOK
  <2>3. [sess[s] EXCEPT !.next = @ + 1].pc = "next_event"
    BY <1>3 DEF DropDuplicate, HasNext, TypeOK, SessionState
  <2> QED BY <1>3, <2>1, <2>2, <2>3, Replaced DEF DropDuplicate, TypeOK
<1>4. ASSUME NEW s \in Sessions, PeekGate(s)
      PROVE  TypeOK' /\ HoldsEvent'
  <2> DEFINE g == (gateDecision(s) = "Gap")
             r == [sess[s] EXCEPT !.pc = "peek_detection", !.gap = g]
  <2>1. g \in BOOLEAN
    OBVIOUS
  <2>2. sess' = [sess EXCEPT ![s] = r]
    BY <1>4 DEF PeekGate, TypeOK
  <2>3. r.next = sess[s].next /\ r.producer = sess[s].producer
    BY DEF TypeOK, SessionState
  <2> HIDE DEF g
  <2>4. r \in SessionState
    BY <2>1 DEF TypeOK, SessionState
  <2>5. r.next <= Len(Plan[r.producer]) /\ IsDetection(Plan[r.producer][r.next])
    BY <1>4, <2>3 DEF PeekGate, HasNext, event
  <2> QED BY <1>4, <2>2, <2>4, <2>5, Replaced DEF PeekGate, TypeOK
<1>5. ASSUME NEW s \in Sessions, PeekProcessor(s)
      PROVE  TypeOK' /\ HoldsEvent'
  <2>1. event(s) \in Detection
    BY <1>5, HeldEvent DEF PeekProcessor, HoldsEvent
  <2>2. peek_detection(pending, event(s)) \in Seq(CrossingBody)
    BY <2>1, PeekDetectionType DEF TypeOK
  <2> QED BY <1>5, <2>2, ZenonT(30) DEF PeekProcessor, TypeOK, HoldsEvent, event, SessionState
<1>6. ASSUME NEW s \in Sessions, Store(s), sess[s].pc = "append"
      PROVE  log' \in Seq(Record) /\ first' \in Nat \ {0}
  <2>1. Grown(log', s)
    BY <1>6, StoreGrows DEF Store
  <2>2. first' \in Nat \ {0}
    <3>1. Len(log) \in Nat /\ first \in Nat \ {0} /\ Len(batch(s)) \in Nat
      BY <1>6, BatchFacts DEF TypeOK
    <3> QED BY <1>6, <3>1 DEF Store
  <2> QED BY <2>1, <2>2 DEF Grown
<1>7. ASSUME NEW s \in Sessions, AppendOk(s)
      PROVE  TypeOK' /\ HoldsEvent'
  <2>1. log' \in Seq(Record) /\ first' \in Nat \ {0}
    BY <1>6, <1>7 DEF AppendOk
  <2>2. CASE IsDetection(event(s))
    <3> DEFINE r == [sess[s] EXCEPT !.pc = "commit_gate"]
    <3>1. r \in SessionState /\ r.next = sess[s].next /\ r.producer = sess[s].producer
      BY DEF TypeOK, SessionState
    <3>2. r.next <= Len(Plan[r.producer]) /\ IsDetection(Plan[r.producer][r.next])
      BY <1>7, <2>2, <3>1 DEF AppendOk, HoldsEvent, event
    <3>3. sess' = [sess EXCEPT ![s] = r]
      BY <1>7, <2>2 DEF AppendOk, TypeOK
    <3> QED BY <1>7, <2>1, <3>1, <3>2, <3>3, Replaced DEF AppendOk, TypeOK
  <2>3. CASE ~IsDetection(event(s))
    <3> DEFINE r == [sess[s] EXCEPT !.pc = "next_event", !.next = @ + 1]
    <3>1. r \in SessionState /\ r.pc = "next_event"
      BY ReadsOn DEF TypeOK
    <3>2. sess' = [sess EXCEPT ![s] = r]
      BY <1>7, <2>3 DEF AppendOk, TypeOK
    <3> QED BY <1>7, <2>1, <3>1, <3>2, Replaced DEF AppendOk, TypeOK
  <2> QED BY <2>2, <2>3
<1>8. ASSUME NEW s \in Sessions, AppendErr(s)
      PROVE  TypeOK' /\ HoldsEvent'
  BY <1>8, ClosedSessionType DEF AppendErr, Fault, TypeOK, HoldsEvent, event
<1>9. ASSUME NEW s \in Sessions, AppendErrStored(s)
      PROVE  TypeOK' /\ HoldsEvent'
  <2>1. log' \in Seq(Record) /\ first' \in Nat \ {0}
    BY <1>6, <1>9 DEF AppendErrStored
  <2> QED BY <1>9, <2>1, ClosedSessionType DEF AppendErrStored, Fault, TypeOK, HoldsEvent, event
<1>10. ASSUME NEW s \in Sessions, CommitGate(s)
       PROVE  TypeOK' /\ HoldsEvent'
  <2>1. high_water' \in HighWater
    BY <1>10, HeldEvent, CommitFacts DEF CommitGate, HoldsEvent, TypeOK
  <2> QED BY <1>10, <2>1 DEF CommitGate, TypeOK, HoldsEvent, event, SessionState
<1>11. ASSUME NEW s \in Sessions, CommitProcessor(s)
       PROVE  TypeOK' /\ HoldsEvent'
  <2>1. event(s) \in Detection
    BY <1>11, HeldEvent DEF CommitProcessor, HoldsEvent
  <2>2. pending' \in [GroupKey -> Seq(Detection)]
    BY <1>11, <2>1, CommitDetectionType DEF CommitProcessor, TypeOK
  <2>3. gaps' \in [Producers -> Nat]
    BY <1>11 DEF CommitProcessor, TypeOK, SessionState
  <2> DEFINE r == [sess[s] EXCEPT !.pc = "next_event", !.next = @ + 1,
                                  !.gap = FALSE, !.crossings = <<>>]
  <2>4. r \in SessionState /\ r.pc = "next_event"
    BY ReadsOn DEF TypeOK
  <2>5. sess' = [sess EXCEPT ![s] = r]
    BY <1>11 DEF CommitProcessor, TypeOK
  <2> QED BY <1>11, <2>2, <2>3, <2>4, <2>5, Replaced, ZenonT(30) DEF CommitProcessor, TypeOK
<1>12. ASSUME NEW s \in Sessions, Disconnect(s)
       PROVE  TypeOK' /\ HoldsEvent'
  BY <1>12, ClosedSessionType DEF Disconnect, Fault, TypeOK, HoldsEvent, event
<1>13. CASE Crash
  <2>1. log' \in Seq(Record)
    <3>1. CASE log' = log
      BY <3>1 DEF TypeOK
    <3>2. ASSUME NEW s \in Sessions, sess[s].pc = "append", NEW n \in 1..Len(batch(s)),
                 log' = log \o SubSeq(batch(s), 1, n)
          PROVE  log' \in Seq(Record)
      BY <3>2, PrefixGrows DEF Grown
    <3> QED BY <1>13, <3>1, <3>2 DEF Crash
  <2>2. high_water' \in HighWater
    BY <1>13 DEF Crash, new, HighWater
  <2>3. pending' \in [GroupKey -> Seq(Detection)]
    BY <1>13 DEF Crash, EmptyProcessor
  <2>4. sess' = [s \in Sessions |-> ClosedSession]
    BY <1>13 DEF Crash
  <2>5. sess' \in [Sessions -> SessionState] /\ HoldsEvent'
    BY <2>4, ClosedSessionType DEF HoldsEvent
  <2> QED BY <1>13, <2>1, <2>2, <2>3, <2>5 DEF Crash, Fault, TypeOK
<1>14. CASE Seed
  <2> DEFINE r == log[seedPos]
  <2>1. r \in Record
    BY <1>14 DEF Seed, TypeOK
  <2>2. IsDetection(r) => keyOf(r) \in GateKey /\ r.body.seq \in U64
    BY <2>1 DEF IsDetection, Record, Detection, keyOf, detectionKey, GateKey
  <2>3. high_water' \in HighWater
    BY <1>14, <2>2, CommitFacts DEF Seed, TypeOK
  <2> QED BY <1>14, <2>3 DEF Seed, TypeOK, HoldsEvent, event
<1>15. CASE StartListeners
  BY <1>15 DEF StartListeners, TypeOK, HoldsEvent, event
<1>16. CASE UNCHANGED vars
  BY <1>16 DEF vars, TypeOK, HoldsEvent, event
<1> QED
  BY <1>1, <1>2, <1>3, <1>4, <1>5, <1>7, <1>8, <1>9, <1>10, <1>11, <1>12, <1>13, <1>14, <1>15, <1>16
  DEF Next, SessionStep

\* A node that starts on an empty log is well typed.
LEMMA TypeInit == Init => TypeOK /\ HoldsEvent
<1> SUFFICES ASSUME Init PROVE TypeOK /\ HoldsEvent
  OBVIOUS
<1>1. sess \in [Sessions -> SessionState] /\ HoldsEvent
  BY ClosedSessionType DEF Init, HoldsEvent
<1>2. high_water \in HighWater /\ pending \in [GroupKey -> Seq(Detection)]
  BY DEF Init, new, HighWater, EmptyProcessor
<1> QED BY <1>1, <1>2 DEF Init, TypeOK

(***************************************************************************)
(* Every reachable state is well typed: in particular a session never      *)
(* looks past its plan, and the gate and the pending map keep their types  *)
(* through crashes, failed appends and seeding.                            *)
(***************************************************************************)
THEOREM TypeCorrect == Spec => [](TypeOK /\ HoldsEvent)
BY TypeInit, TypeStep, PTL DEF Spec

-----------------------------------------------------------------------------
\* A call that is about to move the gate has stored its event.
StoredBeforeCommit ==
    \A s \in Sessions : sess[s].pc = "commit_gate" => Stored(sess[s].producer, event(s))

\* No step removes or changes a stored record (eviction only moves first).
LogKept == \A i \in DOMAIN log : i \in DOMAIN log' /\ log'[i] = log[i]

\* A record that Grown added first is in the log.
LEMMA GrownKeeps ==
    ASSUME TypeOK, NEW s, Grown(log', s)
    PROVE  /\ LogKept
           /\ \E i \in DOMAIN log' : log'[i] = EventRecord(sess[s].producer, event(s))
<1>1. log \in Seq(Record) /\ Len(log) \in Nat /\ DOMAIN log = 1..Len(log)
  BY DEF TypeOK
<1>2. log' \in Seq(Record) /\ Len(log') \in Nat /\ DOMAIN log' = 1..Len(log')
  BY DEF Grown
<1>3. Len(log) + 1 \in DOMAIN log'
  BY <1>1, <1>2 DEF Grown
<1> QED BY <1>1, <1>2, <1>3 DEF Grown, LogKept

\* A step that keeps the gate and never removes records keeps GateNeverAhead.
LEMMA NeverAheadKept ==
    ASSUME TypeOK, GateNeverAhead, LogKept, high_water' = high_water
    PROVE  GateNeverAhead'
BY DEF GateNeverAhead, LogKept

\* Moving a mark to a stored detection of its key keeps the gate behind the log.
LEMMA NeverAheadCommit ==
    ASSUME TypeOK, GateNeverAhead, log' = log, NEW i \in DOMAIN log, IsDetection(log[i]),
           high_water' = commit(high_water, keyOf(log[i]), log[i].body.seq)
    PROVE  GateNeverAhead'
<1> DEFINE k == keyOf(log[i])
           q == log[i].body.seq
<1>1. log[i] \in Record
  BY DEF TypeOK
<1>2. k \in GateKey /\ q \in U64
  BY <1>1 DEF IsDetection, Record, Detection, keyOf, detectionKey, GateKey
<1>3. /\ high_water'[k] \in {high_water[k], q}
      /\ \A j \in GateKey : j # k => high_water'[j] = high_water[j]
  BY <1>2, CommitFacts DEF TypeOK
<1> QED BY <1>2, <1>3 DEF GateNeverAhead

\* Every step keeps the gate behind the log, and commits it only after the append.
LEMMA GateStep ==
    ASSUME TypeOK, HoldsEvent, GateNeverAhead, StoredBeforeCommit, [Next]_vars
    PROVE  GateNeverAhead' /\ StoredBeforeCommit'
<1>0. sess \in [Sessions -> SessionState]
  BY DEF TypeOK
<1>1. ASSUME log' = log, high_water' = high_water, NEW s \in Sessions, NEW r \in SessionState,
             sess' = [sess EXCEPT ![s] = r], r.pc # "commit_gate"
      PROVE  GateNeverAhead' /\ StoredBeforeCommit'
  <2>1. LogKept
    BY <1>1 DEF LogKept
  <2> QED BY <1>0, <1>1, <2>1, NeverAheadKept DEF StoredBeforeCommit, Stored, event
<1>2. ASSUME NEW s \in Sessions, NEW p \in Producers, NEW n \in 1..Len(Plan[p]), Connect(s, p, n)
      PROVE  GateNeverAhead' /\ StoredBeforeCommit'
  <2>1. n \in Nat \ {0}
    BY PlanAssumption
  <2>2. [ClosedSession EXCEPT !.pc = "next_event", !.producer = p, !.next = n] \in SessionState
    BY <2>1, ClosedSessionType DEF SessionState
  <2>3. [ClosedSession EXCEPT !.pc = "next_event", !.producer = p, !.next = n].pc = "next_event"
    BY ClosedSessionType DEF SessionState
  <2> QED BY <1>1, <1>2, <2>2, <2>3 DEF Connect
<1>3. ASSUME NEW s \in Sessions,
             ReceiveStatus(s) \/ DropDuplicate(s) \/ PeekGate(s) \/ PeekProcessor(s)
               \/ CommitProcessor(s)
      PROVE  GateNeverAhead' /\ StoredBeforeCommit'
  <2>1. sess' = [sess EXCEPT ![s] = sess'[s]] /\ log' = log /\ high_water' = high_water
    BY <1>0, <1>3 DEF ReceiveStatus, DropDuplicate, PeekGate, PeekProcessor, CommitProcessor
  <2>2. sess'[s].pc # "commit_gate"
    BY <1>0, <1>3 DEF ReceiveStatus, DropDuplicate, PeekGate, PeekProcessor, CommitProcessor,
                      HasNext, SessionState
  <2>3. sess'[s] \in SessionState
    BY TypeStep DEF TypeOK
  <2> QED BY <1>1, <2>1, <2>2, <2>3
<1>4. ASSUME NEW s \in Sessions, AppendErr(s) \/ Disconnect(s)
      PROVE  GateNeverAhead' /\ StoredBeforeCommit'
  BY <1>1, <1>4, ClosedSessionType DEF AppendErr, Disconnect
<1>5. ASSUME NEW s \in Sessions, AppendOk(s)
      PROVE  GateNeverAhead' /\ StoredBeforeCommit'
  <2>1. Grown(log', s)
    BY <1>5, StoreGrows DEF AppendOk, Store
  <2>2. LogKept /\ \E i \in DOMAIN log' : log'[i] = EventRecord(sess[s].producer, event(s))
    BY <2>1, GrownKeeps
  <2>3. sess'[s].pc = "commit_gate" =>
          sess'[s].producer = sess[s].producer /\ sess'[s].next = sess[s].next
    BY <1>0, <1>5 DEF AppendOk, SessionState
  <2>4. \A o \in Sessions \ {s} : sess'[o] = sess[o]
    BY <1>0, <1>5 DEF AppendOk
  <2>5. StoredBeforeCommit'
    BY <2>2, <2>3, <2>4 DEF StoredBeforeCommit, Stored, event, LogKept
  <2> QED BY <1>5, <2>2, <2>5, NeverAheadKept DEF AppendOk
<1>6. ASSUME NEW s \in Sessions, AppendErrStored(s)
      PROVE  GateNeverAhead' /\ StoredBeforeCommit'
  <2>1. LogKept
    BY <1>6, StoreGrows, GrownKeeps DEF AppendErrStored, Store
  <2>2. sess' = [sess EXCEPT ![s] = ClosedSession]
    BY <1>6 DEF AppendErrStored
  <2>3. StoredBeforeCommit'
    BY <1>0, <2>1, <2>2, ClosedSessionType DEF StoredBeforeCommit, Stored, event, LogKept
  <2> QED BY <1>6, <2>1, <2>3, NeverAheadKept DEF AppendErrStored
<1>7. ASSUME NEW s \in Sessions, CommitGate(s)
      PROVE  GateNeverAhead' /\ StoredBeforeCommit'
  <2>1. PICK i \in DOMAIN log : log[i] = EventRecord(sess[s].producer, event(s))
    BY <1>7 DEF CommitGate, StoredBeforeCommit, Stored
  <2>2. IsDetection(event(s)) /\ event(s) \in Detection
    BY <1>7, HeldEvent DEF CommitGate, HoldsEvent
  <2>3. /\ IsDetection(log[i])
        /\ keyOf(log[i]) = detectionKey(sess[s].producer, event(s))
        /\ log[i].body.seq = event(s).seq
    BY <2>1, <2>2 DEF EventRecord, IsDetection, keyOf
  <2>4. GateNeverAhead'
    BY <1>7, <2>3, NeverAheadCommit DEF CommitGate
  <2>5. sess' = [sess EXCEPT ![s].pc = "commit_detection"] /\ log' = log
    BY <1>7 DEF CommitGate
  <2>6. StoredBeforeCommit'
    BY <1>0, <2>5 DEF StoredBeforeCommit, Stored, event, SessionState
  <2> QED BY <2>4, <2>6
<1>8. CASE Crash
  <2>1. high_water' = new /\ sess' = [s \in Sessions |-> ClosedSession]
    BY <1>8 DEF Crash
  <2> QED BY <2>1, ClosedSessionType DEF GateNeverAhead, StoredBeforeCommit, new
<1>9. CASE Seed
  <2>1. seedPos \in DOMAIN log
    BY <1>9 DEF Seed, TypeOK
  <2>2. LogKept /\ log' = log /\ sess' = sess
    BY <1>9 DEF Seed, LogKept
  <2>3. GateNeverAhead'
    BY <1>9, <2>1, <2>2, NeverAheadCommit, NeverAheadKept DEF Seed
  <2> QED BY <2>2, <2>3 DEF StoredBeforeCommit, Stored, event
<1>10. CASE StartListeners \/ UNCHANGED vars
  BY <1>10 DEF StartListeners, vars, GateNeverAhead, StoredBeforeCommit, Stored, event
<1> QED
  BY <1>2, <1>3, <1>4, <1>5, <1>6, <1>7, <1>8, <1>9, <1>10 DEF Next, SessionStep

(***************************************************************************)
(* The gate never runs ahead of the log: with any number of sessions per   *)
(* producer and with appends that fail before or after storing, no event   *)
(* whose append failed is dropped as a duplicate when it is sent again.    *)
(* Inductive with TypeOK, HoldsEvent and StoredBeforeCommit.               *)
(***************************************************************************)
THEOREM GateNeverAheadAlways == Spec => []GateNeverAhead
<1>1. Init => GateNeverAhead /\ StoredBeforeCommit
  <2> SUFFICES ASSUME Init PROVE GateNeverAhead /\ StoredBeforeCommit
    OBVIOUS
  <2> QED BY ClosedSessionType DEF Init, new, GateNeverAhead, StoredBeforeCommit
<1> QED BY <1>1, TypeInit, TypeStep, GateStep, PTL DEF Spec

-----------------------------------------------------------------------------
\* What is retained after records of the batch of s were stored: what was
\* retained before, the event of s, and crossings.
LEMMA RetainedAfterGrow ==
    ASSUME TypeOK, NEW s, Grown(log', s), first' \in Nat, first' >= first, NEW i \in Retained'
    PROVE  \/ i \in Retained /\ i < Len(log) + 1 /\ log'[i] = log[i]
           \/ i = Len(log) + 1 /\ log'[i] = EventRecord(sess[s].producer, event(s))
           \/ i > Len(log) + 1 /\ ~IsDetection(log'[i])
<1>1. Len(log) \in Nat /\ first \in Nat \ {0} /\ Len(log') \in Nat
  BY DEF TypeOK, Grown
<1>2. i \in Int /\ first' <= i /\ i <= Len(log')
  BY <1>1 DEF Retained
<1>3. CASE i < Len(log) + 1
  BY <1>1, <1>2, <1>3 DEF Grown, Retained
<1>4. CASE i = Len(log) + 1
  BY <1>4 DEF Grown
<1>5. CASE i > Len(log) + 1
  <2>1. i \in (Len(log) + 2)..Len(log')
    BY <1>1, <1>2, <1>5
  <2> QED BY <1>5, <2>1 DEF Grown, IsDetection
<1> QED BY <1>1, <1>2, <1>3, <1>4, <1>5

\* A retained detection has a key and a sequence number of the gate.
LEMMA RetainedDetection ==
    ASSUME TypeOK, NEW i \in Retained, IsDetection(log[i])
    PROVE  /\ i \in DOMAIN log
           /\ keyOf(log[i]) \in GateKey
           /\ log[i].producer \in Producers
           /\ log[i].body.seq \in U64 /\ log[i].body.seq \in Int
           /\ high_water[keyOf(log[i])] \in Int
<1>1. i \in DOMAIN log
  BY DEF TypeOK, Retained
<1>2. log[i] \in Record
  BY <1>1 DEF TypeOK
<1>3. keyOf(log[i]) \in GateKey /\ log[i].body.seq \in U64 /\ log[i].producer \in Producers
  BY <1>2 DEF IsDetection, Record, Detection, keyOf, detectionKey, GateKey
<1> QED BY <1>1, <1>3, U64Assumption DEF TypeOK, HighWater, U64, NoMark

\* Retention inside append never moves the start of the log backwards.
LEMMA StoreFirst ==
    ASSUME TypeOK, HoldsEvent, NEW s \in Sessions, sess[s].pc = "append", Store(s)
    PROVE  Grown(log', s) /\ first' \in Nat /\ first' >= first
<1>1. Len(log) \in Nat /\ first \in Nat \ {0} /\ Len(batch(s)) \in Nat
  BY BatchFacts DEF TypeOK
<1>2. first' \in Nat /\ first' >= first
  BY <1>1 DEF Store
<1> QED BY <1>2, StoreGrows DEF Store

\* Seeding, and the gate's cover of the retained log, are kept by every step.
LEMMA CoverStep ==
    ASSUME ~LateErrors, TypeOK, HoldsEvent, SeedingIdle, SeededSoFar, GateCoversLog, [Next]_vars
    PROVE  SeedingIdle' /\ SeededSoFar' /\ GateCoversLog'
<1>0. sess \in [Sessions -> SessionState]
  BY DEF TypeOK
<1>1. ASSUME NEW s \in Sessions, Live(s)
      PROVE  node = "up"
  BY <1>1 DEF SeedingIdle, TypeOK
<1>2. ASSUME node' = "up"
      PROVE  SeedingIdle' /\ SeededSoFar'
  BY <1>2 DEF SeedingIdle, SeededSoFar
<1>3. ASSUME log' = log, first' = first, high_water' = high_water, node' = node, node = "up",
             NEW s \in Sessions, sess[s].pc # "commit_gate",
             \A o \in Sessions \ {s} : sess'[o] = sess[o]
      PROVE  SeedingIdle' /\ SeededSoFar' /\ GateCoversLog'
  <2>1. GateCoversLog'
    BY <1>3 DEF GateCoversLog, Retained, event
  <2> QED BY <1>2, <1>3, <2>1
<1>4. ASSUME NEW s \in Sessions, NEW p \in Producers, NEW n \in 1..Len(Plan[p]), Connect(s, p, n)
      PROVE  SeedingIdle' /\ SeededSoFar' /\ GateCoversLog'
  <2>1. \A o \in Sessions \ {s} : sess'[o] = sess[o]
    BY <1>0, <1>4 DEF Connect
  <2> QED BY <1>3, <1>4, <2>1 DEF Connect
<1>5. ASSUME NEW s \in Sessions,
             ReceiveStatus(s) \/ DropDuplicate(s) \/ PeekGate(s) \/ PeekProcessor(s)
               \/ CommitProcessor(s) \/ AppendErr(s) \/ Disconnect(s)
      PROVE  SeedingIdle' /\ SeededSoFar' /\ GateCoversLog'
  <2>1. \A o \in Sessions \ {s} : sess'[o] = sess[o]
    BY <1>0, <1>5 DEF ReceiveStatus, DropDuplicate, PeekGate, PeekProcessor, CommitProcessor,
                      AppendErr, Disconnect
  <2>2. Live(s) /\ sess[s].pc # "commit_gate"
    BY <1>5 DEF ReceiveStatus, DropDuplicate, PeekGate, PeekProcessor, CommitProcessor,
                AppendErr, Disconnect, HasNext, Live
  <2>3. log' = log /\ first' = first /\ high_water' = high_water /\ node' = node
    BY <1>5 DEF ReceiveStatus, DropDuplicate, PeekGate, PeekProcessor, CommitProcessor,
                AppendErr, Disconnect
  <2> QED BY <1>1, <1>3, <2>1, <2>2, <2>3
<1>6. ASSUME NEW s \in Sessions, AppendOk(s)
      PROVE  SeedingIdle' /\ SeededSoFar' /\ GateCoversLog'
  <2>1. node = "up" /\ node' = "up" /\ high_water' = high_water
    BY <1>1, <1>6 DEF AppendOk, Live
  <2>2. Grown(log', s) /\ first' \in Nat /\ first' >= first
    BY <1>6, StoreFirst DEF AppendOk
  <2>3. \A o \in Sessions : o # s => sess'[o] = sess[o]
    BY <1>0, <1>6 DEF AppendOk
  <2>4. IsDetection(event(s)) => /\ sess'[s].pc = "commit_gate"
                                 /\ sess'[s].producer = sess[s].producer
                                 /\ sess'[s].next = sess[s].next
    BY <1>0, <1>6 DEF AppendOk, SessionState
  <2>5. ASSUME NEW i \in Retained', IsDetection(log'[i])
        PROVE  \/ log'[i].body.seq <= high_water'[keyOf(log'[i])]
               \/ \E o \in Sessions : /\ sess'[o].pc = "commit_gate"
                                      /\ log'[i] = EventRecord(sess'[o].producer, event(o)')
    <3>1. CASE i \in Retained /\ log'[i] = log[i]
      BY <1>6, <2>1, <2>3, <2>5, <3>1 DEF GateCoversLog, event, AppendOk
    <3>2. CASE log'[i] = EventRecord(sess[s].producer, event(s))
      <4>1. IsDetection(event(s))
        BY <2>5, <3>2 DEF EventRecord, IsDetection
      <4> QED BY <2>4, <3>2, <4>1 DEF event
    <3> QED BY <2>2, <2>5, <3>1, <3>2, RetainedAfterGrow
  <2>6. GateCoversLog'
    BY <2>5 DEF GateCoversLog
  <2> QED BY <1>2, <2>1, <2>6
<1>7. ASSUME NEW s \in Sessions, CommitGate(s)
      PROVE  SeedingIdle' /\ SeededSoFar' /\ GateCoversLog'
  <2> DEFINE k == detectionKey(sess[s].producer, event(s))
             q == event(s).seq
  <2>1. node = "up" /\ node' = "up" /\ log' = log /\ first' = first
    BY <1>1, <1>7 DEF CommitGate, Live
  <2>2. event(s) \in Detection /\ k \in GateKey /\ q \in U64
    BY <1>7, HeldEvent DEF CommitGate, HoldsEvent
  <2>3. /\ high_water' \in HighWater
        /\ \A j \in GateKey : high_water[j] <= high_water'[j]
        /\ q <= high_water'[k]
    BY <1>7, <2>2, CommitFacts DEF CommitGate, TypeOK
  <2>4. \A o \in Sessions : o # s => sess'[o] = sess[o]
    BY <1>0, <1>7 DEF CommitGate
  <2>5. ASSUME NEW i \in Retained', IsDetection(log'[i])
        PROVE  \/ log'[i].body.seq <= high_water'[keyOf(log'[i])]
               \/ \E o \in Sessions : /\ sess'[o].pc = "commit_gate"
                                      /\ log'[i] = EventRecord(sess'[o].producer, event(o)')
    <3>1. i \in Retained /\ log'[i] = log[i] /\ IsDetection(log[i])
      BY <2>1, <2>5 DEF Retained
    <3>2. /\ keyOf(log[i]) \in GateKey /\ log[i].body.seq \in Int
          /\ high_water[keyOf(log[i])] \in Int
      BY <3>1, RetainedDetection
    <3>3. high_water'[keyOf(log[i])] \in Int
      BY <2>3, <3>2, U64Assumption DEF HighWater, U64, NoMark
    <3>4. CASE log[i].body.seq <= high_water[keyOf(log[i])]
      BY <2>3, <3>1, <3>2, <3>3, <3>4
    <3>5. CASE log[i] = EventRecord(sess[s].producer, event(s))
      BY <2>3, <3>1, <3>5 DEF EventRecord, keyOf
    <3>6. ASSUME NEW o \in Sessions, o # s, sess[o].pc = "commit_gate",
                 log[i] = EventRecord(sess[o].producer, event(o))
          PROVE  sess'[o].pc = "commit_gate" /\ log'[i] = EventRecord(sess'[o].producer, event(o)')
      BY <2>4, <3>1, <3>6 DEF event
    <3> QED BY <2>1, <3>1, <3>4, <3>5, <3>6 DEF GateCoversLog
  <2>6. GateCoversLog'
    BY <2>5 DEF GateCoversLog
  <2> QED BY <1>2, <2>1, <2>6
<1>8. CASE Crash
  <2>1. /\ node' = "seeding" /\ seedPos' = first /\ first' = first
        /\ sess' = [s \in Sessions |-> ClosedSession]
    BY <1>8 DEF Crash
  <2>2. SeedingIdle' /\ GateCoversLog'
    BY <2>1, ClosedSessionType DEF SeedingIdle, Live, GateCoversLog
  <2>3. \A i \in Retained' : ~(i < seedPos')
    BY <2>1 DEF Retained, TypeOK
  <2> QED BY <2>2, <2>3 DEF SeededSoFar
<1>9. CASE Seed
  <2>1. /\ node = "seeding" /\ node' = node /\ log' = log /\ first' = first /\ sess' = sess
        /\ seedPos' = seedPos + 1 /\ seedPos \in DOMAIN log
    BY <1>9 DEF Seed, TypeOK
  <2>2. log[seedPos] \in Record
    BY <2>1 DEF TypeOK
  <2>3. IsDetection(log[seedPos]) =>
          keyOf(log[seedPos]) \in GateKey /\ log[seedPos].body.seq \in U64
    BY <2>2 DEF IsDetection, Record, Detection, keyOf, detectionKey, GateKey
  <2>4. /\ \A k \in GateKey : high_water[k] <= high_water'[k]
        /\ high_water' \in HighWater
        /\ IsDetection(log[seedPos]) =>
              log[seedPos].body.seq <= high_water'[keyOf(log[seedPos])]
    <3>1. \A k \in GateKey : high_water[k] \in Int
      BY U64Assumption DEF TypeOK, HighWater, U64, NoMark
    <3>2. CASE IsDetection(log[seedPos])
      BY <1>9, <2>3, <3>2, CommitFacts DEF Seed, TypeOK
    <3>3. CASE ~IsDetection(log[seedPos])
      BY <1>9, <3>1, <3>3 DEF Seed, TypeOK
    <3> QED BY <3>2, <3>3
  <2>5. ASSUME NEW i \in Retained', i < seedPos', IsDetection(log'[i])
        PROVE  log'[i].body.seq <= high_water'[keyOf(log'[i])]
    <3>1. i \in Retained /\ log'[i] = log[i] /\ i \in Int /\ seedPos \in Int
      BY <2>1, <2>5 DEF Retained, TypeOK
    <3>2. CASE i = seedPos
      BY <2>4, <2>5, <3>1, <3>2
    <3>3. CASE i < seedPos
      <4>1. /\ keyOf(log[i]) \in GateKey /\ log[i].body.seq \in Int
            /\ high_water[keyOf(log[i])] \in Int
        BY <2>5, <3>1, RetainedDetection
      <4>2. high_water'[keyOf(log[i])] \in Int
        BY <2>4, <4>1, U64Assumption DEF HighWater, U64, NoMark
      <4>3. log[i].body.seq <= high_water[keyOf(log[i])]
        BY <2>1, <2>5, <3>1, <3>3 DEF SeededSoFar
      <4> QED BY <2>4, <3>1, <4>1, <4>2, <4>3
    <3> QED BY <2>1, <2>5, <3>1, <3>2, <3>3
  <2>6. SeededSoFar'
    BY <2>5 DEF SeededSoFar
  <2>7. SeedingIdle' /\ GateCoversLog'
    BY <2>1 DEF SeedingIdle, Live, GateCoversLog
  <2> QED BY <2>6, <2>7
<1>10. CASE StartListeners
  <2>1. /\ node = "seeding" /\ node' = "up" /\ log' = log /\ first' = first
        /\ high_water' = high_water /\ seedPos > Len(log)
    BY <1>10 DEF StartListeners
  <2>2. \A i \in Retained : i < seedPos
    BY <2>1 DEF Retained, TypeOK
  <2>3. GateCoversLog'
    BY <2>1, <2>2 DEF SeededSoFar, GateCoversLog, Retained
  <2> QED BY <1>2, <2>1, <2>3
<1>11. CASE UNCHANGED vars
  BY <1>11 DEF vars, SeedingIdle, SeededSoFar, GateCoversLog, Live, Retained, event
<1>12. ~ \E s \in Sessions : AppendErrStored(s)
  BY DEF AppendErrStored
<1> QED
  BY <1>4, <1>5, <1>6, <1>7, <1>8, <1>9, <1>10, <1>11, <1>12 DEF Next, SessionStep

\* The empty log is covered by the empty gate.
LEMMA CoverInit == Init => SeedingIdle /\ SeededSoFar /\ GateCoversLog
<1> SUFFICES ASSUME Init PROVE SeedingIdle /\ SeededSoFar /\ GateCoversLog
  OBVIOUS
<1>1. Retained = {} /\ node = "up"
  BY DEF Init, Retained
<1> QED BY <1>1 DEF SeedingIdle, SeededSoFar, GateCoversLog

(***************************************************************************)
(* As long as append fails cleanly, everything retained stays covered by   *)
(* the gate (or by the call that is about to move it), also after crashes  *)
(* and eviction and with several sessions of one producer.                 *)
(***************************************************************************)
THEOREM StoredIsCovered ==
    ASSUME ~LateErrors
    PROVE  Spec => []GateCoversLog
<1>1. ~LateErrors
  OBVIOUS
<1>2. TypeOK /\ HoldsEvent /\ SeedingIdle /\ SeededSoFar /\ GateCoversLog /\ [Next]_vars
        => SeedingIdle' /\ SeededSoFar' /\ GateCoversLog'
  BY <1>1, CoverStep
<1> QED BY <1>2, TypeInit, TypeStep, CoverInit, PTL DEF Spec

-----------------------------------------------------------------------------
\* Every retained detection of the key of p and e is below e.
FreshFor(p, e) ==
    \A i \in Retained :
        (IsDetection(log[i]) /\ keyOf(log[i]) = detectionKey(p, e)) => log[i].body.seq < e.seq

\* Storing a fresh detection keeps the retained log ordered.
LEMMA OrderedAfterGrow ==
    ASSUME TypeOK, HoldsEvent, FreshInFlight, RetainedOrdered,
           NEW s \in Sessions, sess[s].pc = "append",
           Grown(log', s), first' \in Nat, first' >= first
    PROVE  RetainedOrdered'
<1>1. ASSUME NEW i \in Retained', NEW j \in Retained', i < j,
             IsDetection(log'[i]), IsDetection(log'[j]), keyOf(log'[i]) = keyOf(log'[j])
      PROVE  log'[i].body.seq < log'[j].body.seq
  <2>0. Len(log) \in Int /\ i \in Int /\ j \in Int
    BY DEF TypeOK, Retained, Grown
  <2>1. \/ i \in Retained /\ i < Len(log) + 1 /\ log'[i] = log[i]
        \/ i = Len(log) + 1
    BY <1>1, RetainedAfterGrow
  <2>2. \/ j \in Retained /\ j < Len(log) + 1 /\ log'[j] = log[j]
        \/ j = Len(log) + 1 /\ log'[j] = EventRecord(sess[s].producer, event(s))
    BY <1>1, RetainedAfterGrow
  <2>3. i \in Retained /\ log'[i] = log[i]
    BY <1>1, <2>0, <2>1, <2>2
  <2>4. CASE j \in Retained /\ log'[j] = log[j]
    BY <1>1, <2>3, <2>4 DEF RetainedOrdered
  <2>5. CASE log'[j] = EventRecord(sess[s].producer, event(s))
    <3>1. /\ IsDetection(event(s)) /\ log'[j].body = event(s)
          /\ keyOf(log[i]) = detectionKey(sess[s].producer, event(s))
      BY <1>1, <2>3, <2>5 DEF EventRecord, IsDetection, keyOf
    <3>2. log[i].body.seq < event(s).seq
      BY <1>1, <2>3, <3>1 DEF FreshInFlight
    <3> QED BY <2>3, <3>1, <3>2
  <2> QED BY <2>2, <2>4, <2>5
<1> QED BY <1>1 DEF RetainedOrdered

\* Under one session per producer, what the gate lets through is fresh.
LEMMA PersistMeansFresh ==
    ASSUME TypeOK, Exclusive, SeedingIdle, GateCoversLog, NEW s \in Sessions,
           HasNext(s), IsDetection(event(s)), persist(gateDecision(s))
    PROVE  FreshFor(sess[s].producer, event(s))
<1> DEFINE p == sess[s].producer
           k == detectionKey(p, event(s))
<1>1. p \in Producers /\ k \in GateKey /\ event(s).seq \in U64
  BY ReadEvent
<1>2. event(s).seq > high_water[k]
  BY <1>1, PersistMeansAbove DEF gateDecision, TypeOK
<1>3. node = "up" /\ sess[s].pc = "next_event"
  BY DEF HasNext, SeedingIdle, Live, TypeOK
<1>4. event(s).seq \in Int
  BY <1>1, U64Assumption DEF U64
<1>5. ASSUME NEW i \in Retained, IsDetection(log[i]), keyOf(log[i]) = k
      PROVE  log[i].body.seq < event(s).seq
  <2>1. log[i].body.seq \in Int /\ high_water[k] \in Int
    BY <1>5, RetainedDetection
  <2>2. CASE log[i].body.seq <= high_water[k]
    BY <1>2, <1>4, <2>1, <2>2
  <2>3. ASSUME NEW o \in Sessions, sess[o].pc = "commit_gate",
               log[i] = EventRecord(sess[o].producer, event(o))
        PROVE  FALSE
    <3>1. sess[o].producer = p
      BY <1>5, <2>3 DEF EventRecord, keyOf, detectionKey
    <3>2. o = s
      BY <1>3, <2>3, <3>1 DEF Exclusive, Live
    <3> QED BY <1>3, <2>3, <3>2
  <2> QED BY <1>3, <1>5, <2>2, <2>3 DEF GateCoversLog
<1> QED BY <1>5 DEF FreshFor

\* One live session per producer, and what it holds fresh: kept by every step.
LEMMA OrderStep ==
    ASSUME ~LateErrors, ~SharedIds, IngestInv, [Next]_vars
    PROVE  Exclusive' /\ FreshInFlight' /\ RetainedOrdered'
<1> USE DEF IngestInv
<1>0. sess \in [Sessions -> SessionState]
  BY DEF TypeOK
<1>1. ASSUME NEW s \in Sessions, \A o \in Sessions : o # s => sess'[o] = sess[o],
             sess'[s].pc = "closed" \/ (Live(s) /\ sess'[s].producer = sess[s].producer)
      PROVE  Exclusive'
  BY <1>1 DEF Exclusive, Live
<1>2. ASSUME log' = log, first' = first,
             NEW s \in Sessions, \A o \in Sessions : o # s => sess'[o] = sess[o],
             \/ sess'[s].pc \notin {"peek_detection", "append"}
             \/ ~IsDetection(event(s)')
             \/ FreshFor(sess'[s].producer, event(s)')
      PROVE  FreshInFlight' /\ RetainedOrdered'
  <2>1. FreshInFlight'
    BY <1>2 DEF FreshInFlight, FreshFor, Retained, event
  <2> QED BY <1>2, <2>1 DEF RetainedOrdered, Retained
<1>3. ASSUME NEW s \in Sessions, NEW p \in Producers, NEW n \in 1..Len(Plan[p]), Connect(s, p, n)
      PROVE  Exclusive' /\ FreshInFlight' /\ RetainedOrdered'
  <2>1. \A o \in Sessions : o # s => sess'[o] = sess[o]
    BY <1>0, <1>3 DEF Connect
  <2>2. sess'[s].pc = "next_event" /\ sess'[s].producer = p
    BY <1>0, <1>3, ClosedSessionType DEF Connect, SessionState
  <2>3. Exclusive'
    BY <1>3, <2>1, <2>2 DEF Connect, Exclusive, Live
  <2> QED BY <1>2, <1>3, <2>1, <2>2, <2>3 DEF Connect
<1>4. ASSUME NEW s \in Sessions, ReceiveStatus(s)
      PROVE  Exclusive' /\ FreshInFlight' /\ RetainedOrdered'
  <2>1. /\ \A o \in Sessions : o # s => sess'[o] = sess[o]
        /\ sess'[s].producer = sess[s].producer /\ sess'[s].next = sess[s].next
        /\ Live(s) /\ ~IsDetection(event(s)) /\ log' = log /\ first' = first
    BY <1>0, <1>4 DEF ReceiveStatus, HasNext, Live, SessionState
  <2>2. ~IsDetection(event(s)')
    BY <2>1 DEF event
  <2> QED BY <1>1, <1>2, <2>1, <2>2
<1>5. ASSUME NEW s \in Sessions, DropDuplicate(s) \/ CommitProcessor(s) \/ CommitGate(s)
      PROVE  Exclusive' /\ FreshInFlight' /\ RetainedOrdered'
  <2>1. \A o \in Sessions : o # s => sess'[o] = sess[o]
    BY <1>0, <1>5 DEF DropDuplicate, CommitProcessor, CommitGate
  <2>2. sess'[s].producer = sess[s].producer
    BY <1>0, <1>5 DEF DropDuplicate, CommitProcessor, CommitGate, SessionState
  <2>3. Live(s) /\ sess'[s].pc \notin {"peek_detection", "append"}
    BY <1>0, <1>5 DEF DropDuplicate, CommitProcessor, CommitGate, HasNext, Live, SessionState
  <2>4. log' = log /\ first' = first
    BY <1>5 DEF DropDuplicate, CommitProcessor, CommitGate
  <2> QED BY <1>1, <1>2, <2>1, <2>2, <2>3, <2>4
<1>6. ASSUME NEW s \in Sessions, PeekGate(s)
      PROVE  Exclusive' /\ FreshInFlight' /\ RetainedOrdered'
  <2>1. \A o \in Sessions : o # s => sess'[o] = sess[o]
    BY <1>0, <1>6 DEF PeekGate
  <2>2. sess'[s].producer = sess[s].producer /\ sess'[s].next = sess[s].next
    BY <1>0, <1>6 DEF PeekGate, SessionState
  <2>3. FreshFor(sess[s].producer, event(s))
    BY <1>6, PersistMeansFresh DEF PeekGate
  <2>4. event(s)' = event(s) /\ Live(s) /\ log' = log /\ first' = first
    BY <1>6, <2>2 DEF event, PeekGate, HasNext, Live
  <2> QED BY <1>1, <1>2, <2>1, <2>2, <2>3, <2>4
<1>7. ASSUME NEW s \in Sessions, PeekProcessor(s)
      PROVE  Exclusive' /\ FreshInFlight' /\ RetainedOrdered'
  <2>1. \A o \in Sessions : o # s => sess'[o] = sess[o]
    BY <1>0, <1>7 DEF PeekProcessor
  <2>2. sess'[s].producer = sess[s].producer /\ sess'[s].next = sess[s].next
    BY <1>0, <1>7 DEF PeekProcessor, SessionState
  <2>3. FreshFor(sess[s].producer, event(s))
    BY <1>7 DEF PeekProcessor, FreshInFlight, FreshFor, HoldsEvent
  <2>4. event(s)' = event(s) /\ Live(s) /\ log' = log /\ first' = first
    BY <1>7, <2>2 DEF event, PeekProcessor, Live
  <2> QED BY <1>1, <1>2, <2>1, <2>2, <2>3, <2>4
<1>8. ASSUME NEW s \in Sessions, AppendErr(s) \/ Disconnect(s)
      PROVE  Exclusive' /\ FreshInFlight' /\ RetainedOrdered'
  <2>1. /\ \A o \in Sessions : o # s => sess'[o] = sess[o]
        /\ sess'[s].pc = "closed" /\ log' = log /\ first' = first
    BY <1>0, <1>8, ClosedSessionType DEF AppendErr, Disconnect
  <2> QED BY <1>1, <1>2, <2>1
<1>9. ASSUME NEW s \in Sessions, AppendOk(s)
      PROVE  Exclusive' /\ FreshInFlight' /\ RetainedOrdered'
  <2>1. Grown(log', s) /\ first' \in Nat /\ first' >= first
    BY <1>9, StoreFirst DEF AppendOk
  <2>2. \A o \in Sessions : o # s => sess'[o] = sess[o]
    BY <1>0, <1>9 DEF AppendOk
  <2>3. /\ sess'[s].producer = sess[s].producer
        /\ sess'[s].pc \notin {"peek_detection", "append"}
    BY <1>0, <1>9 DEF AppendOk, SessionState
  <2>4. Live(s) /\ sess[s].pc = "append"
    BY <1>9 DEF AppendOk, Live
  <2>5. ASSUME NEW o \in Sessions, sess'[o].pc \in {"peek_detection", "append"},
               IsDetection(event(o)'), NEW i \in Retained', IsDetection(log'[i]),
               keyOf(log'[i]) = detectionKey(sess'[o].producer, event(o)')
        PROVE  log'[i].body.seq < event(o)'.seq
    <3>1. o # s /\ sess'[o] = sess[o] /\ event(o)' = event(o)
      BY <2>2, <2>3, <2>5 DEF event
    <3>2. CASE i \in Retained /\ log'[i] = log[i]
      BY <2>5, <3>1, <3>2 DEF FreshInFlight
    <3>3. CASE log'[i] = EventRecord(sess[s].producer, event(s))
      <4>1. sess[s].producer = sess[o].producer
        BY <2>5, <3>1, <3>3 DEF EventRecord, keyOf, detectionKey
      <4> QED BY <2>4, <2>5, <3>1, <4>1 DEF Exclusive, Live
    <3> QED BY <2>1, <2>5, <3>2, <3>3, RetainedAfterGrow
  <2>6. FreshInFlight'
    BY <2>5 DEF FreshInFlight
  <2> QED BY <1>1, <2>1, <2>2, <2>3, <2>4, <2>6, OrderedAfterGrow
<1>10. CASE Crash
  <2>1. sess' = [s \in Sessions |-> ClosedSession] /\ first' = first
    BY <1>10 DEF Crash
  <2>2. Exclusive' /\ FreshInFlight'
    BY <2>1, ClosedSessionType DEF Exclusive, FreshInFlight, Live
  <2>3. RetainedOrdered'
    <3>1. CASE log' = log
      BY <2>1, <3>1 DEF RetainedOrdered, Retained
    <3>2. ASSUME NEW s \in Sessions, sess[s].pc = "append", NEW n \in 1..Len(batch(s)),
                 log' = log \o SubSeq(batch(s), 1, n)
          PROVE  RetainedOrdered'
      <4>1. Grown(log', s)
        BY <3>2, PrefixGrows
      <4>2. first' \in Nat /\ first' >= first
        BY <2>1 DEF TypeOK
      <4> QED BY <3>2, <4>1, <4>2, OrderedAfterGrow
    <3> QED BY <1>10, <3>1, <3>2 DEF Crash
  <2> QED BY <2>2, <2>3
<1>11. CASE Seed \/ StartListeners \/ UNCHANGED vars
  <2>1. log' = log /\ first' = first /\ sess' = sess
    BY <1>11 DEF Seed, StartListeners, vars
  <2> QED BY <2>1 DEF Exclusive, FreshInFlight, RetainedOrdered, Retained, Live, event
<1>12. ~ \E s \in Sessions : AppendErrStored(s)
  BY DEF AppendErrStored
<1> QED
  BY <1>3, <1>4, <1>5, <1>6, <1>7, <1>8, <1>9, <1>10, <1>11, <1>12 DEF Next, SessionStep

(***************************************************************************)
(* Idempotent storage.  If no two live sessions carry the same producer_id *)
(* and append fails cleanly, the retained detections of every producer and *)
(* detector have strictly increasing sequence numbers, through re-sends,   *)
(* crashes in the middle of a batch, restarts and eviction.  IngestInv is  *)
(* the inductive invariant; TLC refutes the conclusion without either of   *)
(* the two hypotheses.                                                     *)
(***************************************************************************)
THEOREM Idempotent ==
    ASSUME ~LateErrors, ~SharedIds
    PROVE  Spec => [](IngestInv /\ RetainedOrdered)
<1>1. ~LateErrors /\ ~SharedIds
  OBVIOUS
<1>2. Init => IngestInv
  <2> SUFFICES ASSUME Init PROVE IngestInv
    OBVIOUS
  <2>1. Retained = {} /\ \A s \in Sessions : sess[s].pc = "closed"
    BY ClosedSessionType DEF Init, Retained
  <2>2. Exclusive /\ FreshInFlight /\ RetainedOrdered
    BY <2>1 DEF Exclusive, FreshInFlight, RetainedOrdered, Live
  <2> QED BY <2>2, TypeInit, CoverInit DEF IngestInv
<1>3. IngestInv /\ [Next]_vars => IngestInv'
  <2> SUFFICES ASSUME IngestInv, [Next]_vars PROVE IngestInv'
    OBVIOUS
  <2>1. TypeOK' /\ HoldsEvent'
    BY TypeStep DEF IngestInv
  <2>2. SeedingIdle' /\ SeededSoFar' /\ GateCoversLog'
    BY <1>1, CoverStep DEF IngestInv
  <2>3. Exclusive' /\ FreshInFlight' /\ RetainedOrdered'
    BY <1>1, OrderStep
  <2> QED BY <2>1, <2>2, <2>3 DEF IngestInv
<1>4. IngestInv => RetainedOrdered
  BY DEF IngestInv
<1> QED BY <1>2, <1>3, <1>4, PTL DEF Spec

=============================================================================
