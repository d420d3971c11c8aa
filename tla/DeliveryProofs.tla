--------------------------- MODULE DeliveryProofs ---------------------------
(***************************************************************************)
(* More theorems about EventIngest: what a session has moved past is       *)
(* stored, every gap is metered once, and, for producers that do not share *)
(* a group, the detections are partitioned into crossings and pending      *)
(* groups.                                                                 *)
(***************************************************************************)
EXTENDS EventIngestProofs, FiniteSetTheorems

\* The hypothesis sequence_gate.rs states of a producer: the detections of one
\* of its detectors carry increasing sequence numbers.
IncreasingPlan ==
    \A p \in Producers : \A m, n \in 1..Len(Plan[p]) :
        (/\ m < n /\ IsDetection(Plan[p][m]) /\ IsDetection(Plan[p][n])
         /\ Plan[p][m].detector = Plan[p][n].detector)
            => Plan[p][m].seq < Plan[p][n].seq

-----------------------------------------------------------------------------
\* Every stored detection is one of its producer's plan, stored after all that
\* the plan has before it.
PrefixStored ==
    \A i \in DOMAIN log : IsDetection(log[i]) =>
        \E m \in 1..Len(Plan[log[i].producer]) :
            /\ log[i].body = Plan[log[i].producer][m]
            /\ \A n \in 1..m : Stored(log[i].producer, Plan[log[i].producer][n])

\* A call that is past its append has its event in the log.
AppendedIsStored ==
    \A s \in Sessions : sess[s].pc \in {"commit_gate", "commit_detection"} =>
        Stored(sess[s].producer, event(s))

DeliveryInv ==
    /\ TypeOK /\ HoldsEvent /\ GateNeverAhead /\ StoredBeforeCommit
    /\ AppendedIsStored /\ PrefixStored /\ NothingSkipped

\* Stored, in a given log.
Has(L, p, e) == \E i \in DOMAIN L : L[i] = EventRecord(p, e)

\* What is stored stays stored: eviction only moves first.
LEMMA StoredKept ==
    ASSUME LogKept
    PROVE  /\ \A p, e : Stored(p, e) => Has(log', p, e)
           /\ \A p, e : Stored(p, e) => Stored(p, e)'
BY DEF LogKept, Stored, Has

\* Storing the batch of a session that has skipped nothing.
LEMMA GrowPrefix ==
    ASSUME TypeOK, HoldsEvent, PrefixStored, NothingSkipped,
           NEW s \in Sessions, sess[s].pc = "append", Grown(log', s)
    PROVE  PrefixStored' /\ LogKept /\ Has(log', sess[s].producer, event(s))
<1> DEFINE p == sess[s].producer
           m == sess[s].next
<1>1. LogKept /\ Has(log', p, event(s))
  <2>1. LogKept /\ \E i \in DOMAIN log' : log'[i] = EventRecord(p, event(s))
    BY GrownKeeps
  <2> QED BY <2>1 DEF Has
<1>2. p \in Producers /\ m \in Nat \ {0} /\ Len(Plan[p]) \in Nat /\ m <= Len(Plan[p])
  <2>1. p \in Producers /\ m \in Nat \ {0}
    BY DEF TypeOK, SessionState
  <2>2. m <= Len(Plan[p])
    BY DEF HoldsEvent
  <2> QED BY <2>1, <2>2, PlanAssumption
<1>3. \A q, e : Stored(q, e) => Has(log', q, e)
  BY <1>1, StoredKept
<1>4. \A n \in 1..m : Has(log', p, Plan[p][n])
  <2>1. ASSUME NEW n \in 1..m, n # m
        PROVE  Has(log', p, Plan[p][n])
    <3>1. n \in 1..(m - 1)
      BY <1>2, <2>1
    <3> QED BY <1>3, <3>1 DEF NothingSkipped, Live
  <2> QED BY <1>1, <2>1 DEF event
<1>5. ASSUME NEW i \in DOMAIN log', IsDetection(log'[i])
      PROVE  \E k \in 1..Len(Plan[log'[i].producer]) :
                /\ log'[i].body = Plan[log'[i].producer][k]
                /\ \A n \in 1..k : Has(log', log'[i].producer, Plan[log'[i].producer][n])
  <2>0. Len(log) \in Nat /\ Len(log') \in Nat /\ DOMAIN log = 1..Len(log) /\ DOMAIN log' = 1..Len(log')
    BY DEF TypeOK, Grown
  <2>1. CASE i \in DOMAIN log
    <3>1. log'[i] = log[i]
      BY <1>1, <2>1 DEF LogKept
    <3> QED BY <1>3, <1>5, <2>1, <3>1 DEF PrefixStored
  <2>2. CASE i = Len(log) + 1
    <3>1. log'[i] = EventRecord(p, event(s))
      BY <2>2 DEF Grown
    <3>2. log'[i].producer = p /\ log'[i].body = Plan[p][m]
      BY <3>1 DEF EventRecord, event
    <3>3. m \in 1..Len(Plan[p])
      BY <1>2
    <3> HIDE DEF p, m
    <3> QED BY <1>4, <3>2, <3>3
  <2>3. CASE i \in (Len(log) + 2)..Len(log')
    BY <1>5, <2>3 DEF Grown, IsDetection
  <2> QED BY <2>0, <2>1, <2>2, <2>3
<1>6. PrefixStored'
  BY <1>5 DEF PrefixStored, Has, Stored
<1> QED BY <1>1, <1>6

\* A detection the gate calls a duplicate is stored: the mark stands for a stored
\* detection of the plan that comes no earlier in it.
LEMMA DuplicateIsStored ==
    ASSUME IncreasingPlan, DeliveryInv, NEW s \in Sessions,
           HasNext(s), IsDetection(event(s)), ~persist(gateDecision(s))
    PROVE  Stored(sess[s].producer, event(s))
<1> USE DEF DeliveryInv
<1> DEFINE p == sess[s].producer
           n == sess[s].next
           e == event(s)
           k == detectionKey(p, e)
<1>1. /\ p \in Producers /\ e \in Detection /\ k \in GateKey /\ e.seq \in U64
      /\ n \in 1..Len(Plan[p]) /\ Len(Plan[p]) \in Nat
  BY ReadEvent, PlanAssumption DEF HasNext, TypeOK, SessionState
<1>2. high_water[k] \in U64 \cup {NoMark} /\ e.seq \in Int /\ high_water[k] \in Int
  BY <1>1, U64Assumption DEF TypeOK, HighWater, U64, NoMark
<1>3. high_water[k] # NoMark /\ e.seq <= high_water[k]
  <2>1. peek(high_water, k, e.seq) = "Duplicate"
    BY DEF gateDecision, persist
  <2> QED BY <1>2, <2>1 DEF peek
<1>4. PICK i \in DOMAIN log : IsDetection(log[i]) /\ keyOf(log[i]) = k /\ log[i].body.seq = high_water[k]
  BY <1>1, <1>3 DEF GateNeverAhead
<1>5. log[i].producer = p /\ log[i].body.detector = e.detector
  BY <1>4 DEF keyOf, detectionKey
<1>6. PICK m \in 1..Len(Plan[p]) : /\ log[i].body = Plan[p][m]
                                   /\ \A j \in 1..m : Stored(p, Plan[p][j])
  BY <1>4, <1>5 DEF PrefixStored
<1>7. IsDetection(Plan[p][m])
  <2>1. log[i] \in Record
    BY DEF TypeOK
  <2>2. log[i].body \in Detection
    BY <1>4, <2>1 DEF Record, IsDetection
  <2> QED BY <1>6, <2>2 DEF Detection, IsDetection
<1>8. ~(m < n)
  <2> SUFFICES ASSUME m < n PROVE FALSE
    OBVIOUS
  <2>1. e = Plan[p][n]
    BY DEF event
  <2>2. Plan[p][m].seq < Plan[p][n].seq
    BY <1>1, <1>5, <1>6, <1>7, <2>1 DEF IncreasingPlan
  <2> DEFINE x == high_water[k]
             y == e.seq
  <2>3. x < y
    <3>1. Plan[p][m].seq = x /\ Plan[p][n].seq = y
      BY <1>4, <1>6, <2>1, Zenon
    <3> QED BY <2>2, <3>1, Zenon
  <2>4. x \in Int /\ y \in Int /\ y <= x
    BY <1>2, <1>3, Zenon
  <2> HIDE DEF x, y
  <2> QED BY <2>3, <2>4
<1>9. n \in 1..m
  BY <1>1, <1>8
<1> QED BY <1>6, <1>9 DEF event

\* What a step that changes at most one session, and no stored record, needs to show.
LEMMA OneSession ==
    ASSUME DeliveryInv, log' = log, NEW s \in Sessions,
           \A o \in Sessions : o # s => sess'[o] = sess[o],
           sess'[s].pc # "closed" =>
              \A n \in 1..(sess'[s].next - 1) :
                  Stored(sess'[s].producer, Plan[sess'[s].producer][n]),
           sess'[s].pc \in {"commit_gate", "commit_detection"} =>
              Stored(sess'[s].producer, Plan[sess'[s].producer][sess'[s].next])
    PROVE  AppendedIsStored' /\ PrefixStored' /\ NothingSkipped'
<1>1. PrefixStored'
  BY DEF DeliveryInv, PrefixStored, Stored
<1>2. \A p, e : Stored(p, e) => Stored(p, e)'
  BY DEF Stored
<1>3. ASSUME NEW o \in Sessions, sess'[o].pc # "closed", NEW n \in 1..(sess'[o].next - 1)
      PROVE  Stored(sess'[o].producer, Plan[sess'[o].producer][n])
  BY <1>3 DEF DeliveryInv, NothingSkipped, Live
<1>4. NothingSkipped'
  BY <1>3 DEF NothingSkipped, Live, Stored
<1>5. ASSUME NEW o \in Sessions, sess'[o].pc \in {"commit_gate", "commit_detection"}
      PROVE  Stored(sess'[o].producer, Plan[sess'[o].producer][sess'[o].next])
  BY <1>5 DEF DeliveryInv, AppendedIsStored, event
<1>6. AppendedIsStored'
  BY <1>5 DEF AppendedIsStored, Stored, event
<1> QED BY <1>1, <1>4, <1>6

\* Every step keeps what the theorem needs.
LEMMA DeliveryStep ==
    ASSUME Rewind, IncreasingPlan, DeliveryInv, [Next]_vars
    PROVE  AppendedIsStored' /\ PrefixStored' /\ NothingSkipped'
<1> USE DEF DeliveryInv
<1>0. sess \in [Sessions -> SessionState] /\ \A s \in Sessions : sess[s] \in SessionState
  BY DEF TypeOK
<1>1. ASSUME NEW s \in Sessions, NEW p \in Producers, NEW n \in 1..Len(Plan[p]), Connect(s, p, n)
      PROVE  AppendedIsStored' /\ PrefixStored' /\ NothingSkipped'
  <2>1. \A o \in Sessions : o # s => sess'[o] = sess[o]
    BY <1>0, <1>1 DEF Connect
  <2>2. sess'[s].pc = "next_event" /\ sess'[s].next = 1
    BY <1>0, <1>1, ClosedSessionType DEF Connect, SessionState
  <2>3. \A k \in 1..(sess'[s].next - 1) : FALSE
    BY <2>2
  <2> QED BY <1>1, <2>1, <2>2, <2>3, OneSession DEF Connect
<1>2. ASSUME NEW s \in Sessions,
             ReceiveStatus(s) \/ PeekGate(s) \/ PeekProcessor(s) \/ CommitGate(s)
      PROVE  AppendedIsStored' /\ PrefixStored' /\ NothingSkipped'
  <2>1. \A o \in Sessions : o # s => sess'[o] = sess[o]
    BY <1>0, <1>2 DEF ReceiveStatus, PeekGate, PeekProcessor, CommitGate
  <2>2. /\ sess'[s].producer = sess[s].producer /\ sess'[s].next = sess[s].next /\ log' = log
        /\ sess[s].pc # "closed"
    BY <1>0, <1>2 DEF ReceiveStatus, PeekGate, PeekProcessor, CommitGate, HasNext, SessionState
  <2>3. \A k \in 1..(sess'[s].next - 1) : Stored(sess'[s].producer, Plan[sess'[s].producer][k])
    BY <2>2 DEF NothingSkipped, Live
  <2>4. sess'[s].pc \in {"commit_gate", "commit_detection"} => sess[s].pc = "commit_gate"
    BY <1>0, <1>2 DEF ReceiveStatus, PeekGate, PeekProcessor, CommitGate, SessionState
  <2>5. sess'[s].pc \in {"commit_gate", "commit_detection"} =>
            Stored(sess'[s].producer, Plan[sess'[s].producer][sess'[s].next])
    BY <2>2, <2>4 DEF AppendedIsStored, event
  <2> QED BY <2>1, <2>2, <2>3, <2>5, OneSession
<1>3. ASSUME NEW s \in Sessions, DropDuplicate(s) \/ CommitProcessor(s)
      PROVE  AppendedIsStored' /\ PrefixStored' /\ NothingSkipped'
  <2>1. \A o \in Sessions : o # s => sess'[o] = sess[o]
    BY <1>0, <1>3 DEF DropDuplicate, CommitProcessor
  <2>2. /\ sess'[s].producer = sess[s].producer /\ sess'[s].next = sess[s].next + 1
        /\ sess'[s].pc = "next_event" /\ sess[s].pc # "closed" /\ log' = log
    BY <1>0, <1>3 DEF DropDuplicate, CommitProcessor, HasNext, SessionState
  <2>3. Stored(sess[s].producer, event(s))
    <3>1. CASE DropDuplicate(s)
      BY <3>1, DuplicateIsStored DEF DropDuplicate
    <3>2. CASE CommitProcessor(s)
      BY <3>2 DEF CommitProcessor, AppendedIsStored
    <3> QED BY <1>3, <3>1, <3>2
  <2>4. sess[s].next \in Nat \ {0}
    BY <1>0 DEF SessionState
  <2>5. ASSUME NEW k \in 1..(sess'[s].next - 1)
        PROVE  Stored(sess'[s].producer, Plan[sess'[s].producer][k])
    <3>1. k = sess[s].next \/ k \in 1..(sess[s].next - 1)
      BY <2>2, <2>4
    <3> QED BY <2>2, <2>3, <3>1 DEF NothingSkipped, Live, event
  <2> QED BY <2>1, <2>2, <2>5, OneSession
<1>4. ASSUME NEW s \in Sessions, AppendErr(s) \/ Disconnect(s)
      PROVE  AppendedIsStored' /\ PrefixStored' /\ NothingSkipped'
  <2>1. /\ \A o \in Sessions : o # s => sess'[o] = sess[o]
        /\ sess'[s].pc = "closed" /\ log' = log
    BY <1>0, <1>4, ClosedSessionType DEF AppendErr, Disconnect
  <2> QED BY <2>1, OneSession
<1>5. ASSUME NEW s \in Sessions, AppendOk(s) \/ AppendErrStored(s)
      PROVE  AppendedIsStored' /\ PrefixStored' /\ NothingSkipped'
  <2>1. sess[s].pc = "append" /\ Grown(log', s)
    BY <1>5, StoreGrows DEF AppendOk, AppendErrStored, Store
  <2>2. PrefixStored' /\ LogKept /\ Has(log', sess[s].producer, event(s))
    BY <2>1, GrowPrefix
  <2>3. \A p, e : Stored(p, e) => Has(log', p, e)
    BY <2>2, StoredKept
  <2>4. \A o \in Sessions : o # s => sess'[o] = sess[o]
    BY <1>0, <1>5 DEF AppendOk, AppendErrStored
  <2>5. \/ sess'[s].pc = "closed"
        \/ /\ sess'[s].pc = "commit_gate" /\ sess'[s].producer = sess[s].producer
           /\ sess'[s].next = sess[s].next
        \/ /\ sess'[s].pc = "next_event" /\ sess'[s].producer = sess[s].producer
           /\ sess'[s].next = sess[s].next + 1
    BY <1>0, <1>5, ClosedSessionType DEF AppendOk, AppendErrStored, SessionState
  <2>6. sess[s].next \in Nat \ {0}
    BY <1>0 DEF SessionState
  <2>7. ASSUME NEW o \in Sessions, sess'[o].pc # "closed", NEW k \in 1..(sess'[o].next - 1)
        PROVE  Has(log', sess'[o].producer, Plan[sess'[o].producer][k])
    <3>1. CASE o # s
      BY <2>3, <2>4, <2>7, <3>1 DEF NothingSkipped, Live
    <3>2. CASE o = s
      <4>1. sess'[s].producer = sess[s].producer
        BY <2>5, <2>7, <3>2
      <4>2. k = sess[s].next \/ k \in 1..(sess[s].next - 1)
        BY <2>5, <2>6, <2>7, <3>2
      <4>3. CASE k = sess[s].next
        BY <2>2, <3>2, <4>1, <4>3 DEF event
      <4>4. CASE k \in 1..(sess[s].next - 1)
        BY <2>1, <2>3, <3>2, <4>1, <4>4 DEF NothingSkipped, Live
      <4> QED BY <4>2, <4>3, <4>4
    <3> QED BY <3>1, <3>2
  <2>8. NothingSkipped'
    BY <2>7 DEF NothingSkipped, Live, Stored, Has
  <2>9. ASSUME NEW o \in Sessions, sess'[o].pc \in {"commit_gate", "commit_detection"}
        PROVE  Has(log', sess'[o].producer, Plan[sess'[o].producer][sess'[o].next])
    <3>1. CASE o # s
      BY <2>3, <2>4, <2>9, <3>1 DEF AppendedIsStored, event
    <3>2. CASE o = s
      BY <2>2, <2>5, <2>9, <3>2 DEF event
    <3> QED BY <3>1, <3>2
  <2>10. AppendedIsStored'
    BY <2>9 DEF AppendedIsStored, Stored, Has, event
  <2> QED BY <2>2, <2>8, <2>10
<1>6. CASE Crash
  <2>1. \A o \in Sessions : sess'[o].pc = "closed"
    BY <1>6, ClosedSessionType DEF Crash
  <2>2. PrefixStored'
    <3>1. CASE log' = log
      BY <3>1 DEF PrefixStored, Stored
    <3>2. ASSUME NEW s \in Sessions, sess[s].pc = "append", NEW n \in 1..Len(batch(s)),
                 log' = log \o SubSeq(batch(s), 1, n)
          PROVE  PrefixStored'
      BY <3>2, PrefixGrows, GrowPrefix
    <3> QED BY <1>6, <3>1, <3>2 DEF Crash
  <2> QED BY <2>1, <2>2 DEF AppendedIsStored, NothingSkipped, Live
<1>7. CASE Seed \/ StartListeners \/ UNCHANGED vars
  <2>1. log' = log /\ sess' = sess
    BY <1>7 DEF Seed, StartListeners, vars
  <2> QED BY <2>1 DEF AppendedIsStored, PrefixStored, NothingSkipped, Stored, Live, event
<1> QED
  BY <1>1, <1>2, <1>3, <1>4, <1>5, <1>6, <1>7 DEF Next, SessionStep

(***************************************************************************)
(* Nothing is skipped.  If producers resume at their first event and       *)
(* number the detections of a detector upwards, every event a session has  *)
(* moved past is stored, the ones it dropped as duplicates included: with  *)
(* several sessions per producer, appends that fail before or after they   *)
(* stored, crashes and eviction.  DeliveryInv is inductive: a duplicate is *)
(* stored because the mark stands for a stored detection, and a stored     *)
(* detection has all of its plan before it stored.                         *)
(***************************************************************************)
THEOREM NothingSkippedAlways ==
    ASSUME Rewind, IncreasingPlan
    PROVE  Spec => []NothingSkipped
<1>1. Rewind /\ IncreasingPlan
  OBVIOUS
<1>2. Init => DeliveryInv
  <2> SUFFICES ASSUME Init PROVE DeliveryInv
    OBVIOUS
  <2>1. log = <<>> /\ \A s \in Sessions : sess[s].pc = "closed"
    BY ClosedSessionType DEF Init
  <2>2. GateNeverAhead
    BY DEF Init, new, GateNeverAhead
  <2>3. StoredBeforeCommit /\ AppendedIsStored /\ PrefixStored /\ NothingSkipped
    BY <2>1 DEF StoredBeforeCommit, AppendedIsStored, PrefixStored, NothingSkipped, Live
  <2> QED BY <2>2, <2>3, TypeInit DEF DeliveryInv
<1>3. DeliveryInv /\ [Next]_vars => DeliveryInv'
  <2> SUFFICES ASSUME DeliveryInv, [Next]_vars PROVE DeliveryInv'
    OBVIOUS
  <2>1. TypeOK' /\ HoldsEvent'
    BY TypeStep DEF DeliveryInv
  <2>2. GateNeverAhead' /\ StoredBeforeCommit'
    BY GateStep DEF DeliveryInv
  <2>3. AppendedIsStored' /\ PrefixStored' /\ NothingSkipped'
    BY <1>1, DeliveryStep
  <2> QED BY <2>1, <2>2, <2>3 DEF DeliveryInv
<1>4. DeliveryInv => NothingSkipped
  BY DEF DeliveryInv
<1> QED BY <1>2, <1>3, <1>4, PTL DEF Spec

-----------------------------------------------------------------------------
\* The hypothesis of one feed per timing point and subject: no two producers
\* report detections that the crossing processor would put into one group.
GroupsApart ==
    \A p, q \in Producers : p # q =>
        \A m \in 1..Len(Plan[p]), n \in 1..Len(Plan[q]) :
            (/\ IsDetection(Plan[p][m]) /\ IsDetection(Plan[q][n])
             /\ Plan[p][m].subject # Anonymous)
                => groupKey(Plan[p][m]) # groupKey(Plan[q][n])

\* From the processor's peek to its commit, the crossings a call holds are the
\* ones the processor would emit now.
CrossingsCurrent ==
    \A s \in Sessions :
        (sess[s].pc \in {"append", "commit_gate", "commit_detection"} /\ IsDetection(event(s)))
            => sess[s].crossings = peek_detection(pending, event(s))

PeekInv == TypeOK /\ HoldsEvent /\ Exclusive /\ CrossingsCurrent

\* The processor looks only at the group of the detection.
LEMMA PeekIsLocal ==
    ASSUME NEW f, NEW g, NEW det, det.subject = Anonymous \/ f[groupKey(det)] = g[groupKey(det)]
    PROVE  peek_detection(f, det) = peek_detection(g, det)
BY DEF peek_detection, outsideWindow

\* A commit changes only the group of its detection.
LEMMA CommitIsLocal ==
    ASSUME NEW f \in [GroupKey -> Seq(Detection)], NEW det, NEW g \in GroupKey,
           g # groupKey(det)
    PROVE  commit_detection(f, det)[g] = f[g]
BY DEF commit_detection

\* Connect looks for a live session of the producer (when ids are not shared).
LEMMA ExclusiveStep ==
    ASSUME ~SharedIds, TypeOK, Exclusive, [Next]_vars
    PROVE  Exclusive'
<1>0. sess \in [Sessions -> SessionState] /\ \A s \in Sessions : sess[s] \in SessionState
  BY DEF TypeOK
<1>1. ASSUME NEW s \in Sessions, \A o \in Sessions : o # s => sess'[o] = sess[o],
             sess'[s].pc = "closed" \/ (Live(s) /\ sess'[s].producer = sess[s].producer)
      PROVE  Exclusive'
  BY <1>1 DEF Exclusive, Live
<1>2. ASSUME NEW s \in Sessions, NEW p \in Producers, NEW n \in 1..Len(Plan[p]), Connect(s, p, n)
      PROVE  Exclusive'
  <2>1. \A o \in Sessions : o # s => sess'[o] = sess[o]
    BY <1>0, <1>2 DEF Connect
  <2>2. sess'[s].pc = "next_event" /\ sess'[s].producer = p
    BY <1>0, <1>2, ClosedSessionType DEF Connect, SessionState
  <2> QED BY <1>2, <2>1, <2>2 DEF Connect, Exclusive, Live
<1>3. ASSUME NEW s \in Sessions, SessionStep(s)
      PROVE  Exclusive'
  <2>1. \A o \in Sessions : o # s => sess'[o] = sess[o]
    BY <1>0, <1>3 DEF SessionStep, ReceiveStatus, DropDuplicate, PeekGate, PeekProcessor,
                      AppendOk, CommitGate, CommitProcessor
  <2>2. sess'[s].producer = sess[s].producer
    BY <1>0, <1>3 DEF SessionStep, ReceiveStatus, DropDuplicate, PeekGate, PeekProcessor,
                      AppendOk, CommitGate, CommitProcessor, SessionState
  <2>3. Live(s)
    BY <1>3 DEF SessionStep, ReceiveStatus, DropDuplicate, PeekGate, PeekProcessor,
                AppendOk, CommitGate, CommitProcessor, HasNext, Live
  <2> QED BY <1>1, <2>1, <2>2, <2>3
<1>4. ASSUME NEW s \in Sessions, AppendErr(s) \/ AppendErrStored(s) \/ Disconnect(s)
      PROVE  Exclusive'
  <2>1. (\A o \in Sessions : o # s => sess'[o] = sess[o]) /\ sess'[s].pc = "closed"
    BY <1>0, <1>4, ClosedSessionType DEF AppendErr, AppendErrStored, Disconnect
  <2> QED BY <1>1, <2>1
<1>5. CASE Crash
  BY <1>5, ClosedSessionType DEF Crash, Exclusive, Live
<1>6. CASE Seed \/ StartListeners \/ UNCHANGED vars
  BY <1>6 DEF Seed, StartListeners, vars, Exclusive, Live
<1> QED BY <1>2, <1>3, <1>4, <1>5, <1>6 DEF Next

\* Only a session's own commit moves the group its detection belongs to.
LEMMA PeekStep ==
    ASSUME GroupsApart, PeekInv, [Next]_vars
    PROVE  CrossingsCurrent'
<1> USE DEF PeekInv
<1>0. sess \in [Sessions -> SessionState] /\ \A s \in Sessions : sess[s] \in SessionState
  BY DEF TypeOK
<1>1. ASSUME pending' = pending, NEW s \in Sessions, \A o \in Sessions : o # s => sess'[o] = sess[o],
             sess'[s].pc \in {"append", "commit_gate", "commit_detection"} =>
                \/ ~IsDetection(event(s)')
                \/ sess'[s].crossings = peek_detection(pending, event(s)')
      PROVE  CrossingsCurrent'
  BY <1>1 DEF CrossingsCurrent, event
<1>2. ASSUME NEW s \in Sessions, NEW p \in Producers, NEW n \in 1..Len(Plan[p]), Connect(s, p, n)
      PROVE  CrossingsCurrent'
  <2>1. (\A o \in Sessions : o # s => sess'[o] = sess[o]) /\ pending' = pending
    BY <1>0, <1>2 DEF Connect
  <2>2. sess'[s].pc = "next_event"
    BY <1>0, <1>2, ClosedSessionType DEF Connect, SessionState
  <2> QED BY <1>1, <2>1, <2>2
<1>3. ASSUME NEW s \in Sessions, ReceiveStatus(s) \/ DropDuplicate(s) \/ PeekGate(s)
      PROVE  CrossingsCurrent'
  <2>1. (\A o \in Sessions : o # s => sess'[o] = sess[o]) /\ pending' = pending
    BY <1>0, <1>3 DEF ReceiveStatus, DropDuplicate, PeekGate
  <2>2. \/ sess'[s].pc \in {"next_event", "peek_detection"}
        \/ /\ sess'[s].producer = sess[s].producer /\ sess'[s].next = sess[s].next
           /\ ~IsDetection(event(s))
    BY <1>0, <1>3 DEF ReceiveStatus, DropDuplicate, PeekGate, HasNext, SessionState
  <2>3. sess'[s].pc \in {"append", "commit_gate", "commit_detection"} => ~IsDetection(event(s)')
    BY <2>2 DEF event
  <2> QED BY <1>1, <2>1, <2>3
<1>4. ASSUME NEW s \in Sessions, PeekProcessor(s)
      PROVE  CrossingsCurrent'
  <2>1. (\A o \in Sessions : o # s => sess'[o] = sess[o]) /\ pending' = pending
    BY <1>0, <1>4 DEF PeekProcessor
  <2>2. /\ sess'[s].producer = sess[s].producer /\ sess'[s].next = sess[s].next
        /\ sess'[s].crossings = peek_detection(pending, event(s))
    BY <1>0, <1>4 DEF PeekProcessor, SessionState
  <2>3. event(s)' = event(s)
    BY <2>2 DEF event
  <2> QED BY <1>1, <2>1, <2>2, <2>3
<1>5. ASSUME NEW s \in Sessions, AppendOk(s) \/ CommitGate(s)
      PROVE  CrossingsCurrent'
  <2>1. (\A o \in Sessions : o # s => sess'[o] = sess[o]) /\ pending' = pending
    BY <1>0, <1>5 DEF AppendOk, CommitGate
  <2>2. \/ sess'[s].pc = "next_event"
        \/ /\ sess'[s].producer = sess[s].producer /\ sess'[s].next = sess[s].next
           /\ sess'[s].crossings = sess[s].crossings
           /\ sess[s].pc \in {"append", "commit_gate"} /\ IsDetection(event(s))
    BY <1>0, <1>5 DEF AppendOk, CommitGate, SessionState, HoldsEvent
  <2>3. CASE sess'[s].pc # "next_event"
    <3>1. event(s)' = event(s)
      BY <2>2, <2>3 DEF event
    <3>2. sess'[s].crossings = peek_detection(pending, event(s))
      BY <2>2, <2>3 DEF CrossingsCurrent
    <3> QED BY <1>1, <2>1, <3>1, <3>2
  <2>4. CASE sess'[s].pc = "next_event"
    BY <1>1, <2>1, <2>4
  <2> QED BY <2>3, <2>4
<1>6. ASSUME NEW s \in Sessions, AppendErr(s) \/ AppendErrStored(s) \/ Disconnect(s)
      PROVE  CrossingsCurrent'
  <2>1. /\ \A o \in Sessions : o # s => sess'[o] = sess[o]
        /\ sess'[s].pc = "closed" /\ pending' = pending
    BY <1>0, <1>6, ClosedSessionType DEF AppendErr, AppendErrStored, Disconnect
  <2> QED BY <1>1, <2>1
<1>7. ASSUME NEW s \in Sessions, CommitProcessor(s)
      PROVE  CrossingsCurrent'
  <2>1. (\A o \in Sessions : o # s => sess'[o] = sess[o]) /\ sess'[s].pc = "next_event"
    BY <1>0, <1>7 DEF CommitProcessor, SessionState
  <2>2. /\ sess[s].pc = "commit_detection" /\ pending' = commit_detection(pending, event(s))
    BY <1>7 DEF CommitProcessor
  <2>3. /\ IsDetection(event(s)) /\ sess[s].producer \in Producers
        /\ sess[s].next \in 1..Len(Plan[sess[s].producer])
    <3>1. sess[s].next <= Len(Plan[sess[s].producer]) /\ IsDetection(event(s))
      BY <2>2 DEF HoldsEvent
    <3>2. sess[s].producer \in Producers /\ sess[s].next \in Nat \ {0}
      BY <1>0 DEF SessionState
    <3> QED BY <3>1, <3>2, PlanAssumption
  <2>4. ASSUME NEW o \in Sessions, o # s, IsDetection(event(o)),
               sess[o].pc \in {"append", "commit_gate", "commit_detection"}
        PROVE  peek_detection(pending', event(o)) = peek_detection(pending, event(o))
    <3>1. /\ sess[o].producer \in Producers /\ event(o) \in Detection
          /\ sess[o].next \in 1..Len(Plan[sess[o].producer])
      <4>1. sess[o].next <= Len(Plan[sess[o].producer])
        BY <2>4 DEF HoldsEvent
      <4>2. sess[o].producer \in Producers /\ sess[o].next \in Nat \ {0}
        BY <1>0 DEF SessionState
      <4>3. event(o) \in Detection
        BY <2>4, HeldEvent
      <4> QED BY <4>1, <4>2, <4>3, PlanAssumption
    <3>2. sess[o].producer # sess[s].producer
      BY <2>2, <2>4 DEF Exclusive, Live
    <3>3. CASE event(o).subject # Anonymous
      <4>1. groupKey(event(o)) # groupKey(event(s))
        BY <2>3, <2>4, <3>1, <3>2, <3>3 DEF GroupsApart, event
      <4>2. groupKey(event(o)) \in GroupKey
        BY <3>1, <3>3 DEF groupKey, GroupKey, Detection
      <4>3. pending'[groupKey(event(o))] = pending[groupKey(event(o))]
        BY <2>2, <4>1, <4>2, CommitIsLocal DEF TypeOK
      <4> QED BY <4>3, PeekIsLocal
    <3>4. CASE event(o).subject = Anonymous
      BY <3>4, PeekIsLocal
    <3> QED BY <3>3, <3>4
  <2>5. ASSUME NEW o \in Sessions, sess'[o].pc \in {"append", "commit_gate", "commit_detection"},
               IsDetection(event(o)')
        PROVE  sess'[o].crossings = peek_detection(pending', event(o)')
    <3>1. o # s /\ sess'[o] = sess[o] /\ event(o)' = event(o)
      BY <2>1, <2>5 DEF event
    <3>2. sess[o].crossings = peek_detection(pending, event(o))
      BY <2>5, <3>1 DEF CrossingsCurrent
    <3> QED BY <2>4, <2>5, <3>1, <3>2
  <2> QED BY <2>5 DEF CrossingsCurrent
<1>8. CASE Crash
  BY <1>8, ClosedSessionType DEF Crash, CrossingsCurrent
<1>9. CASE Seed \/ StartListeners \/ UNCHANGED vars
  BY <1>9 DEF Seed, StartListeners, vars, CrossingsCurrent, event
<1> QED
  BY <1>2, <1>3, <1>4, <1>5, <1>6, <1>7, <1>8, <1>9 DEF Next, SessionStep

-----------------------------------------------------------------------------
\* A detection e of p would be stored after a smaller number of its key, and
\* leave at least one number out.
Skips(p, e) ==
    /\ \E j \in DOMAIN log : IsDetection(log[j]) /\ keyOf(log[j]) = detectionKey(p, e)
    /\ \A j \in DOMAIN log : (IsDetection(log[j]) /\ keyOf(log[j]) = detectionKey(p, e))
                                => log[j].body.seq + 1 < e.seq

Uncounted(p) == {s \in Sessions : /\ sess[s].producer = p /\ sess[s].gap
                                  /\ sess[s].pc \in {"commit_gate", "commit_detection"}}

Skipped(p) == {i \in (boot + 1)..Len(log) :
                 IsDetection(log[i]) /\ log[i].producer = p /\ SkippedAt(i)}

\* A call between its gate peek and its append remembers whether its event will
\* leave a hole in the log; a task that holds no detection remembers nothing.
GapFlags ==
    \A s \in Sessions :
        /\ (sess[s].pc \in {"peek_detection", "append"} /\ IsDetection(event(s)) /\ first = 1)
              => (sess[s].gap <=> Skips(sess[s].producer, event(s)))
        /\ (sess[s].pc \in {"closed", "next_event"}
              \/ (sess[s].pc = "append" /\ ~IsDetection(event(s)))) => ~sess[s].gap

BootFacts == boot <= Len(log) /\ (node = "seeding" => \A p \in Producers : gaps[p] = 0)

GapInv ==
    /\ IngestInv /\ GateNeverAhead /\ StoredBeforeCommit
    /\ GapFlags /\ BootFacts /\ GapsMeteredOnce

\* The invariant in the words of the proof.
LEMMA MeteredMeans ==
    GapsMeteredOnce <=> (node = "up" /\ first = 1 =>
        \A p \in Producers : gaps[p] + Cardinality(Uncounted(p)) = Cardinality(Skipped(p)))
BY DEF GapsMeteredOnce, Uncounted, Skipped

\* The same after a step.
LEMMA MeteredMeansNext ==
    GapsMeteredOnce' <=> (node' = "up" /\ first' = 1 =>
        \A p \in Producers : gaps'[p] + Cardinality(Uncounted(p)') = Cardinality(Skipped(p)'))
BY DEF GapsMeteredOnce, Uncounted, Skipped

\* With one live session per producer, at most one call waits for the metric.
LEMMA UncountedOne ==
    ASSUME TypeOK, Exclusive, NEW p, NEW s \in Uncounted(p)
    PROVE  Uncounted(p) = {s}
<1>1. ASSUME NEW o \in Uncounted(p) PROVE o = s
  BY DEF Uncounted, Exclusive, Live
<1> QED BY <1>1

\* When nothing is evicted and every stored detection is covered, the gate says
\* Gap exactly when the detection would leave a hole.
LEMMA GapIsSkip ==
    ASSUME IngestInv, GateNeverAhead, first = 1, NEW s \in Sessions,
           HasNext(s), IsDetection(event(s))
    PROVE  gateDecision(s) = "Gap" <=> Skips(sess[s].producer, event(s))
<1> USE DEF IngestInv
<1> DEFINE p == sess[s].producer
           e == event(s)
           k == detectionKey(p, e)
<1>1. p \in Producers /\ k \in GateKey /\ e.seq \in U64
  BY ReadEvent
<1>2. /\ e.seq \in Int /\ e.seq >= 0 /\ high_water[k] \in Int /\ NoMark < 0
      /\ high_water[k] # NoMark => high_water[k] >= 0
  BY <1>1, U64Assumption DEF TypeOK, HighWater, U64, NoMark
<1>3. gateDecision(s) = "Gap" <=> (high_water[k] # NoMark /\ e.seq > high_water[k] + 1)
  BY <1>2 DEF gateDecision, peek
<1>4. node = "up" /\ sess[s].pc = "next_event"
  BY DEF HasNext, SeedingIdle, Live, TypeOK
<1>5. ASSUME NEW j \in DOMAIN log, IsDetection(log[j]), keyOf(log[j]) = k
      PROVE  log[j].body.seq \in Nat /\ log[j].body.seq <= high_water[k]
  <2>1. j \in Retained
    BY DEF Retained, TypeOK
  <2>2. log[j].body.seq \in Nat
    BY <1>5, <2>1, RetainedDetection, U64Assumption DEF U64
  <2>3. ASSUME NEW o \in Sessions, sess[o].pc = "commit_gate",
               log[j] = EventRecord(sess[o].producer, event(o))
        PROVE  FALSE
    <3>1. sess[o].producer = p
      BY <1>5, <2>3 DEF EventRecord, keyOf, detectionKey
    <3>2. o = s
      BY <1>4, <2>3, <3>1 DEF Exclusive, Live
    <3> QED BY <1>4, <2>3, <3>2
  <2> QED BY <1>4, <1>5, <2>1, <2>2, <2>3 DEF GateCoversLog
<1>6. high_water[k] # NoMark =>
        \E j \in DOMAIN log : IsDetection(log[j]) /\ keyOf(log[j]) = k /\ log[j].body.seq = high_water[k]
  BY <1>1 DEF GateNeverAhead
<1>7. ASSUME high_water[k] # NoMark, e.seq > high_water[k] + 1
      PROVE  Skips(p, e)
  <2>1. \A j \in DOMAIN log : (IsDetection(log[j]) /\ keyOf(log[j]) = k)
                                 => log[j].body.seq + 1 < e.seq
    BY <1>2, <1>5, <1>7
  <2> QED BY <1>6, <1>7, <2>1 DEF Skips
<1>8. ASSUME Skips(p, e)
      PROVE  high_water[k] # NoMark /\ e.seq > high_water[k] + 1
  <2>1. PICK j \in DOMAIN log : IsDetection(log[j]) /\ keyOf(log[j]) = k
    BY <1>8 DEF Skips
  <2>2. high_water[k] # NoMark
    BY <1>2, <1>5, <2>1
  <2>3. PICK i \in DOMAIN log : IsDetection(log[i]) /\ keyOf(log[i]) = k /\ log[i].body.seq = high_water[k]
    BY <1>6, <2>2
  <2>4. log[i].body.seq + 1 < e.seq
    BY <1>8, <2>3 DEF Skips
  <2> QED BY <1>2, <2>2, <2>3, <2>4
<1> QED BY <1>3, <1>7, <1>8

\* The holes in the log after the batch of s was stored.
LEMMA SkippedAfterGrow ==
    ASSUME TypeOK, HoldsEvent, BootFacts, NEW s \in Sessions, sess[s].pc = "append",
           Grown(log', s), boot' = boot, NEW p
    PROVE  /\ IsFiniteSet(Skipped(p)) /\ Len(log) + 1 \notin Skipped(p)
           /\ (/\ p = sess[s].producer /\ IsDetection(event(s))
               /\ Skips(sess[s].producer, event(s))) => Skipped(p)' = Skipped(p) \cup {Len(log) + 1}
           /\ ~(/\ p = sess[s].producer /\ IsDetection(event(s))
                /\ Skips(sess[s].producer, event(s))) => Skipped(p)' = Skipped(p)
<1>0. /\ Len(log) \in Nat /\ Len(log') \in Nat /\ Len(log') >= Len(log) + 1 /\ boot \in Nat
      /\ DOMAIN log = 1..Len(log) /\ DOMAIN log' = 1..Len(log') /\ boot <= Len(log)
  BY DEF TypeOK, Grown, BootFacts
<1>1. IsFiniteSet(Skipped(p)) /\ Len(log) + 1 \notin Skipped(p)
  <2>1. IsFiniteSet((boot + 1)..Len(log))
    BY <1>0, FS_Interval
  <2>2. Skipped(p) \in SUBSET ((boot + 1)..Len(log))
    BY DEF Skipped
  <2> QED BY <1>0, <2>1, <2>2, FS_Subset
<1>2. \A i \in 1..Len(log) : log'[i] = log[i]
  BY DEF Grown
<1>3. ASSUME NEW i \in (boot + 1)..Len(log)
      PROVE  i \in Skipped(p)' <=> i \in Skipped(p)
  <2>1. i \in 1..Len(log) /\ i \in (boot' + 1)..Len(log') /\ \A j \in 1..(i - 1) : j \in 1..Len(log)
    BY <1>0
  <2>2. log'[i] = log[i] /\ \A j \in 1..(i - 1) : log'[j] = log[j]
    BY <1>2, <2>1
  <2>3. SkippedAt(i)' <=> SkippedAt(i)
    <3> DEFINE B == {j \in 1..(i - 1) : IsDetection(log[j]) /\ keyOf(log[j]) = keyOf(log[i])}
               C == {j \in 1..(i - 1) : IsDetection(log'[j]) /\ keyOf(log'[j]) = keyOf(log'[i])}
    <3>1. B = C /\ \A j \in B : log'[j] = log[j]
      BY <2>2
    <3>2. SkippedAt(i) <=> (B # {} /\ \A j \in B : log[j].body.seq + 1 < log[i].body.seq)
      BY DEF SkippedAt
    <3>3. SkippedAt(i)' <=> (C # {} /\ \A j \in C : log'[j].body.seq + 1 < log'[i].body.seq)
      BY DEF SkippedAt
    <3> HIDE DEF B, C
    <3> QED BY <2>2, <3>1, <3>2, <3>3
  <2> QED BY <2>1, <2>2, <2>3 DEF Skipped
<1>n. PICK n \in Nat : n = Len(log) + 1
  BY <1>0
<1>4. n \in (boot' + 1)..Len(log') /\ 1..(n - 1) = DOMAIN log
  BY <1>0, <1>n
<1>5. log'[n] = EventRecord(sess[s].producer, event(s))
  BY <1>n DEF Grown
<1>6. n \in Skipped(p)' <=> /\ p = sess[s].producer /\ IsDetection(event(s))
                            /\ Skips(sess[s].producer, event(s))
  <2>1. /\ IsDetection(log'[n]) <=> IsDetection(event(s))
        /\ log'[n].producer = sess[s].producer /\ log'[n].body = event(s)
        /\ keyOf(log'[n]) = detectionKey(sess[s].producer, event(s))
    BY <1>5 DEF EventRecord, IsDetection, keyOf
  <2>2. SkippedAt(n)' <=> Skips(sess[s].producer, event(s))
    <3> DEFINE K == detectionKey(sess[s].producer, event(s))
               C == {j \in 1..(n - 1) : IsDetection(log'[j]) /\ keyOf(log'[j]) = K}
    <3>1. SkippedAt(n)' <=> (C # {} /\ \A j \in C : log'[j].body.seq + 1 < event(s).seq)
      <4>1. SkippedAt(n)' <=>
              LET b == {j \in 1..(n - 1) : IsDetection(log'[j]) /\ keyOf(log'[j]) = keyOf(log'[n])}
              IN  b # {} /\ \A j \in b : log'[j].body.seq + 1 < log'[n].body.seq
        BY DEF SkippedAt
      <4> QED BY <2>1, <4>1
    <3>2. \A j \in DOMAIN log : log'[j] = log[j]
      BY <1>0, <1>2
    <3>3. \A j : j \in C <=> (j \in DOMAIN log /\ IsDetection(log[j]) /\ keyOf(log[j]) = K)
      BY <1>4, <3>2
    <3> HIDE DEF C
    <3>4. Skips(sess[s].producer, event(s)) <=>
             (C # {} /\ \A j \in C : log[j].body.seq + 1 < event(s).seq)
      BY <3>3 DEF Skips
    <3>5. \A j \in C : log'[j] = log[j]
      BY <3>2, <3>3
    <3> QED BY <3>1, <3>4, <3>5
  <2> QED BY <1>4, <2>1, <2>2 DEF Skipped
<1>7. ASSUME NEW i \in (Len(log) + 2)..Len(log')
      PROVE  i \notin Skipped(p)'
  BY <1>7 DEF Grown, Skipped, IsDetection
<1>8. \A i \in Skipped(p)' : i \in (boot + 1)..Len(log) \/ i = n \/ i \in (Len(log) + 2)..Len(log')
  BY <1>0, <1>n DEF Skipped
<1>9. \A i \in Skipped(p) : i \in (boot + 1)..Len(log)
  BY DEF Skipped
<1>10. CASE /\ p = sess[s].producer /\ IsDetection(event(s)) /\ Skips(sess[s].producer, event(s))
  BY <1>1, <1>3, <1>6, <1>7, <1>8, <1>9, <1>n, <1>10
<1>11. CASE ~(/\ p = sess[s].producer /\ IsDetection(event(s)) /\ Skips(sess[s].producer, event(s)))
  BY <1>1, <1>3, <1>6, <1>7, <1>8, <1>9, <1>n, <1>11
<1> QED BY <1>1, <1>10, <1>11

\* A step that stores nothing and changes one session, which neither leaves nor
\* joins the calls that wait for the metric.
LEMMA QuietStep ==
    ASSUME GapInv, log' = log, first' = first, boot' = boot, node' = node, gaps' = gaps,
           NEW s \in Sessions, \A o \in Sessions : o # s => sess'[o] = sess[o],
           \A p : s \in Uncounted(p)' <=> s \in Uncounted(p),
           (sess'[s].pc \in {"peek_detection", "append"} /\ IsDetection(event(s)') /\ first = 1)
              => (sess'[s].gap <=> Skips(sess'[s].producer, event(s)')),
           (sess'[s].pc \in {"closed", "next_event"}
              \/ (sess'[s].pc = "append" /\ ~IsDetection(event(s)'))) => ~sess'[s].gap
    PROVE  GapFlags' /\ BootFacts' /\ GapsMeteredOnce'
<1>1. \A p : Uncounted(p)' = Uncounted(p)
  <2>1. \A p : \A o \in Sessions : o # s => (o \in Uncounted(p)' <=> o \in Uncounted(p))
    BY DEF Uncounted
  <2>2. \A p : Uncounted(p) \subseteq Sessions /\ Uncounted(p)' \subseteq Sessions
    BY DEF Uncounted
  <2> QED BY <2>1, <2>2
<1>2. \A p : Skipped(p)' = Skipped(p)
  BY DEF Skipped, SkippedAt
<1>3. GapsMeteredOnce'
  BY <1>1, <1>2, MeteredMeans, MeteredMeansNext DEF GapInv
<1>4. ASSUME NEW o \in Sessions
      PROVE  /\ (sess'[o].pc \in {"peek_detection", "append"} /\ IsDetection(event(o)') /\ first = 1)
                  => (sess'[o].gap <=> Skips(sess'[o].producer, event(o)'))
             /\ (sess'[o].pc \in {"closed", "next_event"}
                  \/ (sess'[o].pc = "append" /\ ~IsDetection(event(o)'))) => ~sess'[o].gap
  <2>1. CASE o = s
    BY <2>1
  <2>2. CASE o # s
    <3>1. sess'[o] = sess[o] /\ event(o)' = event(o)
      BY <2>2 DEF event
    <3> QED BY <3>1 DEF GapInv, GapFlags
  <2> QED BY <2>1, <2>2
<1>5. GapFlags'
  <2>1. ASSUME NEW o \in Sessions
        PROVE  Skips(sess[o].producer, event(o))' <=> Skips(sess'[o].producer, event(o)')
    BY DEF Skips
  <2> QED BY <1>4, <2>1 DEF GapFlags
<1>6. BootFacts'
  BY DEF GapInv, BootFacts
<1> QED BY <1>3, <1>5, <1>6

\* A successful append: the hole it leaves and the call that will meter it appear
\* in one step.
LEMMA AppendMetered ==
    ASSUME GapInv, NEW s \in Sessions, AppendOk(s)
    PROVE  GapFlags' /\ BootFacts' /\ GapsMeteredOnce'
<1> USE DEF GapInv, IngestInv
<1> DEFINE q == sess[s].producer
           n == Len(log) + 1
<1>0. sess \in [Sessions -> SessionState] /\ sess[s] \in SessionState
  BY DEF TypeOK
<1>1. /\ sess[s].pc = "append" /\ Grown(log', s) /\ first' \in Nat /\ first' >= first
      /\ boot' = boot /\ node' = node /\ gaps' = gaps /\ LogKept
  BY StoreFirst, GrownKeeps DEF AppendOk
<1>2. first' = 1 => first = 1
  BY <1>1 DEF TypeOK
<1>3. \A o \in Sessions : o # s => sess'[o] = sess[o]
  BY <1>0 DEF AppendOk
<1>4. /\ sess'[s].producer = q /\ sess'[s].gap = sess[s].gap
      /\ IsDetection(event(s)) => sess'[s].pc = "commit_gate"
      /\ ~IsDetection(event(s)) => sess'[s].pc = "next_event"
  BY <1>0 DEF AppendOk, SessionState
<1>5. BootFacts'
  <2>1. Len(log) <= Len(log') /\ Len(log) \in Int /\ Len(log') \in Int /\ boot \in Int
    BY <1>1 DEF Grown, TypeOK
  <2> QED BY <1>1, <2>1 DEF BootFacts
<1>6. ASSUME NEW o \in Sessions, o # s, sess[o].pc \in {"peek_detection", "append"},
             IsDetection(event(o))
      PROVE  (Skips(sess[o].producer, event(o)))' <=> Skips(sess[o].producer, event(o))
  <2>0. sess'[o] = sess[o] /\ event(o)' = event(o) /\ sess[o].producer # q
    BY <1>1, <1>3, <1>6 DEF event, Exclusive, Live
  <2>1. ASSUME NEW j \in DOMAIN log', IsDetection(log'[j]),
               keyOf(log'[j]) = detectionKey(sess[o].producer, event(o))
        PROVE  j \in DOMAIN log
    <3>1. CASE j = n
      <4>1. log'[j] = EventRecord(q, event(s))
        BY <1>1, <3>1 DEF Grown
      <4> QED BY <2>0, <2>1, <4>1 DEF EventRecord, keyOf, detectionKey
    <3>2. CASE j \in (Len(log) + 2)..Len(log')
      BY <1>1, <2>1, <3>2 DEF Grown, IsDetection
    <3>3. j \in 1..Len(log') /\ Len(log) \in Nat /\ Len(log') \in Nat /\ DOMAIN log = 1..Len(log)
      BY <1>1 DEF Grown, TypeOK
    <3> QED BY <3>1, <3>2, <3>3
  <2>2. \A j \in DOMAIN log : j \in DOMAIN log' /\ log'[j] = log[j]
    BY <1>1 DEF LogKept
  <2> DEFINE K == detectionKey(sess[o].producer, event(o))
             Q == event(o).seq
  <2>3. (Skips(sess[o].producer, event(o)))' <=>
          /\ \E j \in DOMAIN log' : IsDetection(log'[j]) /\ keyOf(log'[j]) = K
          /\ \A j \in DOMAIN log' : (IsDetection(log'[j]) /\ keyOf(log'[j]) = K)
                                       => log'[j].body.seq + 1 < Q
    BY <2>0 DEF Skips
  <2>4. Skips(sess[o].producer, event(o)) <=>
          /\ \E j \in DOMAIN log : IsDetection(log[j]) /\ keyOf(log[j]) = K
          /\ \A j \in DOMAIN log : (IsDetection(log[j]) /\ keyOf(log[j]) = K)
                                      => log[j].body.seq + 1 < Q
    BY DEF Skips
  <2>5. \A j \in DOMAIN log' : (IsDetection(log'[j]) /\ keyOf(log'[j]) = K) => j \in DOMAIN log
    BY <2>1
  <2> HIDE DEF K, Q
  <2> QED BY <2>2, <2>3, <2>4, <2>5
<1>7. GapFlags'
  <2> SUFFICES ASSUME NEW o \in Sessions
               PROVE  /\ (/\ sess'[o].pc \in {"peek_detection", "append"} /\ IsDetection(event(o)')
                          /\ first' = 1)
                            => (sess'[o].gap <=> (Skips(sess[o].producer, event(o)))')
                      /\ (\/ sess'[o].pc \in {"closed", "next_event"}
                          \/ sess'[o].pc = "append" /\ ~IsDetection(event(o)')) => ~sess'[o].gap
    BY DEF GapFlags
  <2>1. CASE o = s
    BY <1>1, <1>4, <2>1 DEF GapFlags
  <2>2. CASE o # s
    <3>1. sess'[o] = sess[o] /\ event(o)' = event(o)
      BY <1>3, <2>2 DEF event
    <3> QED BY <1>2, <1>6, <2>2, <3>1 DEF GapFlags
  <2> QED BY <2>1, <2>2
<1>8. ASSUME node' = "up", first' = 1, NEW p \in Producers
      PROVE  gaps'[p] + Cardinality(Uncounted(p)') = Cardinality(Skipped(p)')
  <2>1. gaps[p] + Cardinality(Uncounted(p)) = Cardinality(Skipped(p))
    BY <1>1, <1>2, <1>8, MeteredMeans
  <2>2. /\ IsFiniteSet(Skipped(p)) /\ n \notin Skipped(p)
        /\ (p = q /\ IsDetection(event(s)) /\ Skips(q, event(s))) => Skipped(p)' = Skipped(p) \cup {n}
        /\ ~(p = q /\ IsDetection(event(s)) /\ Skips(q, event(s))) => Skipped(p)' = Skipped(p)
    BY <1>1, SkippedAfterGrow
  <2>3. /\ IsDetection(event(s)) => (sess[s].gap <=> Skips(q, event(s)))
        /\ ~IsDetection(event(s)) => ~sess[s].gap
    BY <1>1, <1>2, <1>8 DEF GapFlags
  <2>4. \A o \in Sessions : o # s => (o \in Uncounted(p)' <=> o \in Uncounted(p))
    BY <1>3 DEF Uncounted
  <2>5. s \notin Uncounted(p) /\ Uncounted(p) \subseteq Sessions /\ Uncounted(p)' \subseteq Sessions
    BY <1>1 DEF Uncounted
  <2>6. s \in Uncounted(p)' <=> (p = q /\ IsDetection(event(s)) /\ sess[s].gap)
    BY <1>4 DEF Uncounted
  <2>7. CASE p = q /\ IsDetection(event(s)) /\ Skips(q, event(s))
    <3>1. Uncounted(p) = {}
      BY <1>1, <2>5, <2>7 DEF Uncounted, Exclusive, Live
    <3>2. Uncounted(p)' = {s}
      BY <2>3, <2>4, <2>5, <2>6, <2>7, <3>1
    <3>3. Cardinality(Skipped(p)') = Cardinality(Skipped(p)) + 1
      BY <2>2, <2>7, FS_AddElement
    <3>4. Cardinality(Uncounted(p)) = 0 /\ Cardinality(Uncounted(p)') = 1
      BY <3>1, <3>2, FS_EmptySet, FS_Singleton
    <3>5. gaps[p] \in Nat /\ Cardinality(Skipped(p)) \in Nat
      BY <2>2, FS_CardinalityType DEF TypeOK
    <3> QED BY <1>1, <2>1, <3>3, <3>4, <3>5
  <2>8. CASE ~(p = q /\ IsDetection(event(s)) /\ Skips(q, event(s)))
    <3>1. Uncounted(p)' = Uncounted(p)
      BY <2>3, <2>4, <2>5, <2>6, <2>8
    <3> QED BY <1>1, <2>1, <2>2, <2>8, <3>1
  <2> QED BY <2>7, <2>8
<1>9. GapsMeteredOnce'
  BY <1>8, MeteredMeansNext
<1> QED BY <1>5, <1>7, <1>9

\* Every step keeps the flags and the count.
LEMMA GapStep ==
    ASSUME ~LateErrors, GapInv, [Next]_vars
    PROVE  GapFlags' /\ BootFacts' /\ GapsMeteredOnce'
<1> USE DEF GapInv, IngestInv
<1>0. sess \in [Sessions -> SessionState] /\ \A s \in Sessions : sess[s] \in SessionState
  BY DEF TypeOK
<1>c. ClosedSession.gap = FALSE /\ ClosedSession.pc = "closed"
  BY DEF ClosedSession
<1>1. ASSUME NEW s \in Sessions, NEW p \in Producers, NEW n \in 1..Len(Plan[p]), Connect(s, p, n)
      PROVE  GapFlags' /\ BootFacts' /\ GapsMeteredOnce'
  <2>1. /\ \A o \in Sessions : o # s => sess'[o] = sess[o]
        /\ log' = log /\ first' = first /\ boot' = boot /\ node' = node /\ gaps' = gaps
        /\ sess[s].pc = "closed"
    BY <1>0, <1>1 DEF Connect
  <2>2. sess'[s].pc = "next_event" /\ sess'[s].gap = FALSE
    BY <1>0, <1>1, <1>c, ClosedSessionType DEF Connect, SessionState
  <2>3. \A q : s \in Uncounted(q)' <=> s \in Uncounted(q)
    BY <2>1, <2>2 DEF Uncounted
  <2> QED BY <2>1, <2>2, <2>3, QuietStep
<1>2. ASSUME NEW s \in Sessions, ReceiveStatus(s) \/ DropDuplicate(s)
      PROVE  GapFlags' /\ BootFacts' /\ GapsMeteredOnce'
  <2>1. /\ \A o \in Sessions : o # s => sess'[o] = sess[o]
        /\ log' = log /\ first' = first /\ boot' = boot /\ node' = node /\ gaps' = gaps
        /\ sess[s].pc = "next_event"
    BY <1>0, <1>2 DEF ReceiveStatus, DropDuplicate, HasNext
  <2>2. ~sess[s].gap
    BY <2>1 DEF GapFlags
  <2>3. /\ sess'[s].gap = sess[s].gap
        /\ \/ sess'[s].pc = "next_event"
           \/ /\ sess'[s].pc = "append" /\ ~IsDetection(event(s))
              /\ sess'[s].producer = sess[s].producer /\ sess'[s].next = sess[s].next
    BY <1>0, <1>2 DEF ReceiveStatus, DropDuplicate, HasNext, SessionState
  <2>4. sess'[s].pc = "next_event" \/ ~IsDetection(event(s)')
    BY <2>3 DEF event
  <2>5. \A q : s \in Uncounted(q)' <=> s \in Uncounted(q)
    BY <2>1, <2>3 DEF Uncounted
  <2> QED BY <2>1, <2>2, <2>3, <2>4, <2>5, QuietStep
<1>3. ASSUME NEW s \in Sessions, PeekGate(s)
      PROVE  GapFlags' /\ BootFacts' /\ GapsMeteredOnce'
  <2>1. /\ \A o \in Sessions : o # s => sess'[o] = sess[o]
        /\ log' = log /\ first' = first /\ boot' = boot /\ node' = node /\ gaps' = gaps
        /\ sess[s].pc = "next_event" /\ HasNext(s) /\ IsDetection(event(s))
    BY <1>0, <1>3 DEF PeekGate, HasNext
  <2> DEFINE g == (gateDecision(s) = "Gap")
  <2>2. /\ sess'[s].pc = "peek_detection" /\ sess'[s].gap = g
        /\ sess'[s].producer = sess[s].producer /\ sess'[s].next = sess[s].next
    <3>1. sess' = [sess EXCEPT ![s].pc = "peek_detection", ![s].gap = g]
      BY <1>3 DEF PeekGate
    <3>2. g \in BOOLEAN
      OBVIOUS
    <3> HIDE DEF g
    <3> QED BY <1>0, <3>1, <3>2 DEF SessionState
  <2>3. event(s)' = event(s)
    BY <2>2 DEF event
  <2>4. first = 1 => (g <=> Skips(sess[s].producer, event(s)))
    BY <2>1, GapIsSkip
  <2>5. \A q : s \in Uncounted(q)' <=> s \in Uncounted(q)
    BY <2>1, <2>2 DEF Uncounted
  <2> HIDE DEF g
  <2>6. (sess'[s].pc \in {"peek_detection", "append"} /\ IsDetection(event(s)') /\ first = 1)
              => (sess'[s].gap <=> Skips(sess'[s].producer, event(s)'))
    BY <2>2, <2>3, <2>4
  <2>7. ~(sess'[s].pc \in {"closed", "next_event"}
              \/ (sess'[s].pc = "append" /\ ~IsDetection(event(s)')))
    BY <2>2
  <2> QED BY <2>1, <2>5, <2>6, <2>7, QuietStep
<1>4. ASSUME NEW s \in Sessions, PeekProcessor(s) \/ CommitGate(s)
      PROVE  GapFlags' /\ BootFacts' /\ GapsMeteredOnce'
  <2>1. /\ \A o \in Sessions : o # s => sess'[o] = sess[o]
        /\ log' = log /\ first' = first /\ boot' = boot /\ node' = node /\ gaps' = gaps
    BY <1>0, <1>4 DEF PeekProcessor, CommitGate
  <2>2. /\ sess'[s].producer = sess[s].producer /\ sess'[s].next = sess[s].next
        /\ sess'[s].gap = sess[s].gap
        /\ \/ sess[s].pc = "peek_detection" /\ sess'[s].pc = "append"
           \/ sess[s].pc = "commit_gate" /\ sess'[s].pc = "commit_detection"
    BY <1>0, <1>4 DEF PeekProcessor, CommitGate, SessionState
  <2>3. event(s)' = event(s) /\ IsDetection(event(s))
    BY <2>2 DEF event, HoldsEvent
  <2>4. \A q : s \in Uncounted(q)' <=> s \in Uncounted(q)
    BY <2>2 DEF Uncounted
  <2>5. (sess'[s].pc \in {"peek_detection", "append"} /\ IsDetection(event(s)') /\ first = 1)
              => (sess'[s].gap <=> Skips(sess'[s].producer, event(s)'))
    BY <2>2, <2>3 DEF GapFlags
  <2> QED BY <2>1, <2>2, <2>3, <2>4, <2>5, QuietStep
<1>5. ASSUME NEW s \in Sessions, AppendErr(s) \/ Disconnect(s)
      PROVE  GapFlags' /\ BootFacts' /\ GapsMeteredOnce'
  <2>1. /\ \A o \in Sessions : o # s => sess'[o] = sess[o]
        /\ log' = log /\ first' = first /\ boot' = boot /\ node' = node /\ gaps' = gaps
        /\ sess[s].pc \in {"append", "next_event"} /\ sess'[s] = ClosedSession
    BY <1>0, <1>5 DEF AppendErr, Disconnect
  <2>2. \A q : s \in Uncounted(q)' <=> s \in Uncounted(q)
    BY <1>c, <2>1 DEF Uncounted
  <2> QED BY <1>c, <2>1, <2>2, QuietStep
<1>6. ASSUME NEW s \in Sessions, CommitProcessor(s)
      PROVE  GapFlags' /\ BootFacts' /\ GapsMeteredOnce'
  <2> DEFINE q == sess[s].producer
  <2>1. /\ \A o \in Sessions : o # s => sess'[o] = sess[o]
        /\ log' = log /\ first' = first /\ boot' = boot /\ node' = node
        /\ sess[s].pc = "commit_detection" /\ q \in Producers
    BY <1>0, <1>6 DEF CommitProcessor, SessionState
  <2>2. /\ sess[s].gap => gaps' = [gaps EXCEPT ![q] = @ + 1]
        /\ ~sess[s].gap => gaps' = gaps
    BY <1>6 DEF CommitProcessor
  <2>3. sess'[s].pc = "next_event" /\ ~sess'[s].gap
    <3> DEFINE no == FALSE
    <3>1. sess' = [sess EXCEPT ![s].pc = "next_event", ![s].next = @ + 1,
                               ![s].gap = no, ![s].crossings = <<>>] /\ ~no
      BY <1>6 DEF CommitProcessor
    <3> HIDE DEF no
    <3> QED BY <1>0, <3>1 DEF SessionState
  <2>4. \A p : \A o \in Sessions : o # s => (o \in Uncounted(p)' <=> o \in Uncounted(p))
    BY <2>1 DEF Uncounted
  <2>5. \A p : s \notin Uncounted(p)' /\ Uncounted(p) \subseteq Sessions /\ Uncounted(p)' \subseteq Sessions
    BY <2>3 DEF Uncounted
  <2>6. \A p : s \in Uncounted(p) <=> (p = q /\ sess[s].gap)
    BY <2>1 DEF Uncounted
  <2>7. \A p : Skipped(p)' = Skipped(p)
    BY <2>1 DEF Skipped, SkippedAt
  <2>8. ASSUME node' = "up", first' = 1, NEW p \in Producers
        PROVE  gaps'[p] + Cardinality(Uncounted(p)') = Cardinality(Skipped(p)')
    <3>1. gaps[p] + Cardinality(Uncounted(p)) = Cardinality(Skipped(p)) /\ gaps[p] \in Nat
      BY <2>1, <2>8, MeteredMeans DEF TypeOK
    <3>2. CASE p = q /\ sess[s].gap
      <4>1. Uncounted(p) = {s}
        BY <2>6, <3>2, UncountedOne
      <4>2. Uncounted(p)' = {}
        BY <2>4, <2>5, <4>1
      <4>3. Cardinality(Uncounted(p)) = 1 /\ Cardinality(Uncounted(p)') = 0
        BY <4>1, <4>2, FS_EmptySet, FS_Singleton
      <4>4. gaps'[p] = gaps[p] + 1
        BY <2>1, <2>2, <3>2 DEF TypeOK
      <4> QED BY <2>7, <3>1, <4>3, <4>4
    <3>3. CASE ~(p = q /\ sess[s].gap)
      <4>1. Uncounted(p)' = Uncounted(p)
        BY <2>4, <2>5, <2>6, <3>3
      <4>2. gaps'[p] = gaps[p]
        BY <2>2, <3>3 DEF TypeOK
      <4> QED BY <2>7, <3>1, <4>1, <4>2
    <3> QED BY <3>2, <3>3
  <2>9. GapsMeteredOnce'
    BY <2>8, MeteredMeansNext
  <2>10. ASSUME NEW o \in Sessions
         PROVE  /\ (/\ sess'[o].pc \in {"peek_detection", "append"} /\ IsDetection(event(o)')
                    /\ first' = 1)
                      => (sess'[o].gap <=> (Skips(sess[o].producer, event(o)))')
                /\ (\/ sess'[o].pc \in {"closed", "next_event"}
                    \/ sess'[o].pc = "append" /\ ~IsDetection(event(o)')) => ~sess'[o].gap
    <3>1. CASE o = s
      BY <2>3, <3>1
    <3>2. CASE o # s
      <4>1. sess'[o] = sess[o] /\ event(o)' = event(o)
        BY <2>1, <3>2 DEF event
      <4>2. (Skips(sess[o].producer, event(o)))' <=> Skips(sess[o].producer, event(o))
        BY <2>1, <4>1 DEF Skips
      <4> QED BY <2>1, <4>1, <4>2 DEF GapFlags
    <3> QED BY <3>1, <3>2
  <2>11. GapFlags'
    BY <2>10 DEF GapFlags
  <2>12. node = "up"
    BY <2>1 DEF SeedingIdle, Live, TypeOK
  <2>13. BootFacts'
    BY <2>1, <2>12 DEF BootFacts
  <2> QED BY <2>9, <2>11, <2>13
<1>7. CASE Crash
  <2>1. /\ node' = "seeding" /\ sess' = [s \in Sessions |-> ClosedSession]
        /\ gaps' = [p \in Producers |-> 0] /\ boot' = boot /\ first' = first
    BY <1>7 DEF Crash
  <2>2. Len(log') >= Len(log) /\ Len(log') \in Int /\ Len(log) \in Int /\ boot \in Int
    <3>1. CASE log' = log
      BY <3>1 DEF TypeOK
    <3>2. ASSUME NEW s \in Sessions, sess[s].pc = "append", NEW n \in 1..Len(batch(s)),
                 log' = log \o SubSeq(batch(s), 1, n)
          PROVE  Len(log') >= Len(log) /\ Len(log') \in Int /\ Len(log) \in Int /\ boot \in Int
      <4>1. Grown(log', s)
        BY <3>2, PrefixGrows
      <4> QED BY <4>1 DEF Grown, TypeOK
    <3> QED BY <1>7, <3>1, <3>2 DEF Crash
  <2>3. BootFacts'
    BY <2>1, <2>2 DEF BootFacts
  <2>4. GapFlags'
    BY <1>c, <2>1 DEF GapFlags
  <2> QED BY <2>1, <2>3, <2>4, MeteredMeansNext
<1>8. CASE Seed
  <2>1. /\ node' = "seeding" /\ node = "seeding" /\ sess' = sess /\ gaps' = gaps /\ boot' = boot
        /\ first' = first /\ log' = log
    BY <1>8 DEF Seed
  <2>2. GapFlags' /\ BootFacts'
    BY <2>1 DEF GapFlags, BootFacts, event, Skips
  <2> QED BY <2>1, <2>2, MeteredMeansNext
<1>9. CASE StartListeners
  <2>1. /\ node' = "up" /\ node = "seeding" /\ sess' = sess /\ gaps' = gaps /\ boot' = Len(log)
        /\ first' = first /\ log' = log
    BY <1>9 DEF StartListeners
  <2>2. GapFlags'
    BY <2>1 DEF GapFlags, event, Skips
  <2>3. BootFacts'
    BY <2>1 DEF BootFacts, TypeOK
  <2>4. \A p : Uncounted(p)' = {} /\ Skipped(p)' = {}
    <3>1. \A s \in Sessions : sess'[s].pc = "closed"
      BY <2>1 DEF SeedingIdle, Live
    <3>2. (boot' + 1)..Len(log') = {}
      BY <2>1 DEF TypeOK
    <3> QED BY <3>1, <3>2 DEF Uncounted, Skipped
  <2>5. \A p \in Producers : gaps'[p] = 0
    BY <2>1 DEF BootFacts
  <2>6. \A p \in Producers : gaps'[p] + Cardinality(Uncounted(p)') = Cardinality(Skipped(p)')
    BY <2>4, <2>5, FS_EmptySet
  <2> QED BY <2>2, <2>3, <2>6, MeteredMeansNext
<1>10. CASE UNCHANGED vars
  <2>1. /\ node' = node /\ sess' = sess /\ gaps' = gaps /\ boot' = boot /\ first' = first /\ log' = log
    BY <1>10 DEF vars
  <2>2. GapFlags' /\ BootFacts'
    BY <2>1 DEF GapFlags, BootFacts, event, Skips
  <2>3. \A p : Uncounted(p)' = Uncounted(p) /\ Skipped(p)' = Skipped(p)
    BY <2>1 DEF Uncounted, Skipped, SkippedAt
  <2> QED BY <2>1, <2>2, <2>3, MeteredMeans, MeteredMeansNext
<1>11. ~ \E s \in Sessions : AppendErrStored(s)
  BY DEF AppendErrStored
<1> QED
  BY <1>1, <1>2, <1>3, <1>4, <1>5, <1>6, <1>7, <1>8, <1>9, <1>10, <1>11, AppendMetered
     DEF Next, SessionStep

\* The empty node meets it.
LEMMA GapInit == Init => GapInv
<1> SUFFICES ASSUME Init PROVE GapInv
  OBVIOUS
<1>1. Retained = {} /\ \A s \in Sessions : sess[s].pc = "closed" /\ ~sess[s].gap
  <2>1. ClosedSession.pc = "closed" /\ ClosedSession.gap = FALSE
    BY DEF ClosedSession
  <2> QED BY <2>1 DEF Init, Retained
<1>2. Exclusive /\ FreshInFlight /\ RetainedOrdered /\ GapFlags /\ StoredBeforeCommit
  BY <1>1 DEF Exclusive, FreshInFlight, RetainedOrdered, Live, GapFlags, StoredBeforeCommit
<1>3. GateNeverAhead
  BY DEF Init, new, GateNeverAhead
<1>4. BootFacts
  BY DEF Init, BootFacts
<1>5. \A p : Uncounted(p) = {} /\ Skipped(p) = {}
  <2>1. (boot + 1)..Len(log) = {}
    BY DEF Init
  <2> QED BY <1>1, <2>1 DEF Uncounted, Skipped
<1>6. \A p \in Producers : gaps[p] + Cardinality(Uncounted(p)) = Cardinality(Skipped(p))
  <2>1. \A p \in Producers : gaps[p] = 0
    BY DEF Init
  <2>2. ASSUME NEW p \in Producers
        PROVE  gaps[p] + Cardinality(Uncounted(p)) = Cardinality(Skipped(p))
    <3>1. Cardinality(Uncounted(p)) = 0 /\ Cardinality(Skipped(p)) = 0
      BY <1>5, FS_EmptySet
    <3> QED BY <2>1, <3>1
  <2> QED BY <2>2
<1> QED BY <1>2, <1>3, <1>4, <1>6, TypeInit, CoverInit, MeteredMeans DEF GapInv, IngestInv

\* And every step keeps it.
LEMMA GapInvStep ==
    ASSUME ~LateErrors, ~SharedIds, GapInv, [Next]_vars
    PROVE  GapInv'
<1>1. TypeOK' /\ HoldsEvent'
  BY TypeStep DEF GapInv, IngestInv
<1>2. SeedingIdle' /\ SeededSoFar' /\ GateCoversLog'
  BY CoverStep DEF GapInv, IngestInv
<1>3. Exclusive' /\ FreshInFlight' /\ RetainedOrdered'
  BY OrderStep DEF GapInv
<1>4. GateNeverAhead' /\ StoredBeforeCommit'
  BY GateStep DEF GapInv, IngestInv
<1>5. GapFlags' /\ BootFacts' /\ GapsMeteredOnce'
  BY GapStep
<1> QED BY <1>1, <1>2, <1>3, <1>4, <1>5 DEF GapInv, IngestInv

(***************************************************************************)
(* Each gap is metered exactly once.  As long as nothing has been evicted, *)
(* no two live sessions carry one producer_id and append fails cleanly,    *)
(* sequence_gaps counts the holes in what was stored since the node came   *)
(* up, the ones of calls still on their way to the metric left aside.      *)
(* GapInv is inductive: the flag a call takes from the gate at its peek    *)
(* must still be true of the log at its append, three unlocks later.       *)
(***************************************************************************)
THEOREM GapsMeteredOnceAlways ==
    ASSUME ~LateErrors, ~SharedIds
    PROVE  Spec => []GapsMeteredOnce
<1>1. ~LateErrors /\ ~SharedIds
  OBVIOUS
<1>2. GapInv /\ [Next]_vars => GapInv'
  BY <1>1, GapInvStep
<1>3. GapInv => GapsMeteredOnce
  BY DEF GapInv
<1> QED BY <1>2, <1>3, GapInit, PTL DEF Spec

-----------------------------------------------------------------------------
\* Concat, for sequences of every length.

\* Induction over the naturals, for a set: it has no least exception.
LEMMA NatInduction0 ==
    ASSUME NEW T \in SUBSET Nat, 0 \in T, \A n \in T : n + 1 \in T
    PROVE  T = Nat
<1> SUFFICES ASSUME Nat \ T # {} PROVE FALSE
  OBVIOUS
<1>1. PICK m \in Nat \ T : \A x \in Nat \ T : m <= x
  BY LeastNat
<1>2. m # 0
  OBVIOUS
<1>3. m - 1 \in Nat
  BY <1>2
<1>4. m - 1 \in T
  BY <1>1, <1>3
<1>5. (m - 1) + 1 \in T
  BY <1>4
<1> QED BY <1>3, <1>5

\* f is the function Concat(S) is defined by.
PutsTogether(f, S, n) == \A i \in 0..n : f[i] = IF i = 0 THEN <<>> ELSE f[i - 1] \o S[i]
Begins(R, S, n) == \A i \in 1..n : R[i] = S[i]
Concats(f, S, V, n) == f \in [0..n -> Seq(V)] /\ PutsTogether(f, S, n)

\* It exists, by induction on the length of S.
LEMMA ConcatExists ==
    ASSUME NEW V, NEW n \in Nat, NEW S \in [1..n -> Seq(V)]
    PROVE  \E f : Concats(f, S, V, n)
<1> DEFINE Exists(m) == \E f : Concats(f, S, V, m)
           T == {m \in Nat : m <= n => Exists(m)}
<1>1. Exists(0)
  <2> DEFINE f == [i \in 0..0 |-> <<>>]
  <2>1. Concats(f, S, V, 0)
    BY DEF Concats, PutsTogether
  <2> HIDE DEF f
  <2> QED BY <2>1
<1>2. ASSUME NEW k \in Nat, k + 1 <= n, Exists(k) PROVE Exists(k + 1)
  <2>1. PICK f : Concats(f, S, V, k)
    BY <1>2
  <2> DEFINE h == [i \in 0..(k + 1) |-> IF i = k + 1 THEN f[k] \o S[i] ELSE f[i]]
  <2>2. f \in [0..k -> Seq(V)] /\ k \in 0..k /\ k + 1 \in 1..n
    BY <1>2, <2>1 DEF Concats
  <2>3. f[k] \in Seq(V) /\ S[k + 1] \in Seq(V)
    BY <2>2
  <2>4. f[k] \o S[k + 1] \in Seq(V)
    BY <2>3, ConcatProperties
  <2>5. \A i \in 0..(k + 1) : i = k + 1 \/ i \in 0..k
    OBVIOUS
  <2>6. h \in [0..(k + 1) -> Seq(V)]
    BY <2>2, <2>4, <2>5
  <2>7. ASSUME NEW i \in 0..(k + 1)
        PROVE  h[i] = IF i = 0 THEN <<>> ELSE h[i - 1] \o S[i]
    <3>1. CASE i = k + 1
      <4>1. i # 0 /\ i - 1 = k /\ k \in 0..(k + 1) /\ k # k + 1
        BY <3>1
      <4>2. h[k] = f[k] /\ h[i] = f[k] \o S[i]
        BY <3>1, <4>1
      <4> QED BY <4>1, <4>2
    <3>2. CASE i \in 0..k
      <4>0. i # k + 1
        BY <3>2
      <4>1. h[i] = f[i] /\ f[i] = IF i = 0 THEN <<>> ELSE f[i - 1] \o S[i]
        <5>1. f[i] = IF i = 0 THEN <<>> ELSE f[i - 1] \o S[i]
          BY <2>1, <3>2 DEF Concats, PutsTogether
        <5>2. h[i] = f[i]
          BY <4>0
        <5> QED BY <5>1, <5>2
      <4>2. i # 0 => i - 1 \in 0..(k + 1) /\ i - 1 # k + 1
        BY <3>2
      <4>3. i # 0 => h[i - 1] = f[i - 1]
        BY <4>2
      <4> HIDE DEF h
      <4> QED BY <4>1, <4>3
    <3> QED BY <2>5, <3>1, <3>2
  <2> HIDE DEF h
  <2>8. Concats(h, S, V, k + 1)
    BY <2>6, <2>7 DEF Concats, PutsTogether
  <2> QED BY <2>8
<1> HIDE DEF Exists
<1>3. T \in SUBSET Nat /\ 0 \in T
  BY <1>1
<1>4. ASSUME NEW m \in T PROVE m + 1 \in T
  BY <1>2
<1> HIDE DEF T
<1>5. n \in T
  BY <1>3, <1>4, NatInduction0
<1>6. Exists(n)
  BY <1>5 DEF T
<1> QED BY <1>6 DEF Exists

\* There is one.
LEMMA ConcatsAgree ==
    ASSUME NEW n \in Nat, NEW m \in Nat, n <= m, NEW S, NEW R, NEW f, NEW h,
           PutsTogether(f, S, n), PutsTogether(h, R, m), Begins(R, S, n)
    PROVE  \A i \in 0..n : h[i] = f[i]
<1> DEFINE T == {k \in Nat : k <= n => h[k] = f[k]}
<1>1. T \in SUBSET Nat /\ 0 \in T
  <2>1. 0 \in 0..n /\ 0 \in 0..m
    OBVIOUS
  <2>2. f[0] = <<>> /\ h[0] = <<>>
    BY <2>1 DEF PutsTogether
  <2> QED BY <2>2
<1>2. ASSUME NEW k \in T PROVE k + 1 \in T
  <2> SUFFICES ASSUME k + 1 <= n PROVE h[k + 1] = f[k + 1]
    OBVIOUS
  <2>1. /\ k \in Nat /\ k + 1 \in 0..n /\ k + 1 \in 0..m /\ k + 1 # 0 /\ (k + 1) - 1 = k
        /\ k + 1 \in 1..n /\ k <= n
    OBVIOUS
  <2>2. h[k] = f[k] /\ R[k + 1] = S[k + 1]
    BY <2>1 DEF Begins
  <2>3. f[k + 1] = f[k] \o S[k + 1] /\ h[k + 1] = h[k] \o R[k + 1]
    BY <2>1 DEF PutsTogether
  <2> QED BY <2>2, <2>3
<1> HIDE DEF T
<1>3. T = Nat
  BY <1>1, <1>2, NatInduction0
<1>4. \A i \in 0..n : i \in T /\ i <= n
  BY <1>3
<1> QED BY <1>4 DEF T

\* Concat computes it.
LEMMA ConcatIs ==
    ASSUME NEW V, NEW n \in Nat, NEW S \in [1..n -> Seq(V)]
    PROVE  \E f : Concats(f, S, V, n) /\ Concat(S) = f[n]
<1> DEFINE c == CHOOSE f : f = [i \in 0..n |-> IF i = 0 THEN <<>> ELSE f[i - 1] \o S[i]]
<1>1. S \in Seq(Seq(V)) /\ Len(S) = n
  BY SeqDef
<1>2. Concat(S) = c[n]
  BY <1>1 DEF Concat
<1>3. PICK f : Concats(f, S, V, n)
  BY ConcatExists
<1>4. f = [i \in 0..n |-> IF i = 0 THEN <<>> ELSE f[i - 1] \o S[i]]
  BY <1>3 DEF Concats, PutsTogether
<1>5. c = [i \in 0..n |-> IF i = 0 THEN <<>> ELSE c[i - 1] \o S[i]]
  BY <1>4
<1> HIDE DEF c
<1>6. PutsTogether(c, S, n)
  BY <1>5 DEF PutsTogether
<1>7. PutsTogether(f, S, n) /\ n <= n /\ Begins(S, S, n)
  BY <1>3 DEF Concats, Begins
<1>8. \A i \in 0..n : c[i] = f[i]
  BY <1>6, <1>7, ConcatsAgree
<1>9. c[n] = f[n]
  BY <1>8
<1> QED BY <1>2, <1>3, <1>9

\* One more sequence is put behind the others.
LEMMA ConcatGrows ==
    ASSUME NEW V, NEW n \in Nat, NEW S \in [1..n -> Seq(V)], NEW R \in [1..(n + 1) -> Seq(V)],
           \A i \in 1..n : R[i] = S[i]
    PROVE  Concat(S) \in Seq(V) /\ Concat(R) = Concat(S) \o R[n + 1]
<1>1. PICK f : Concats(f, S, V, n) /\ Concat(S) = f[n]
  BY ConcatIs
<1>2. PICK m \in Nat : m = n + 1
  OBVIOUS
<1>3. PICK h : Concats(h, R, V, m) /\ Concat(R) = h[m]
  BY <1>2, ConcatIs
<1>4. n <= m /\ PutsTogether(f, S, n) /\ PutsTogether(h, R, m)
  BY <1>1, <1>2, <1>3 DEF Concats
<1>5. \A i \in 0..n : h[i] = f[i]
  <2>1. Begins(R, S, n)
    BY DEF Begins
  <2> QED BY ONLY n \in Nat, m \in Nat, <1>4, <2>1, ConcatsAgree
<1>6. n \in 0..n /\ m \in 0..m /\ m # 0 /\ m - 1 = n
  BY <1>2
<1>7. h[m] = h[n] \o R[m] /\ h[n] = f[n]
  BY <1>4, <1>5, <1>6 DEF PutsTogether
<1>8. f[n] \in Seq(V)
  BY <1>1, <1>6 DEF Concats
<1> QED BY <1>1, <1>2, <1>3, <1>7, <1>8

\* Nothing put together is nothing.
LEMMA ConcatNone ==
    ASSUME NEW S \in [1..0 -> Seq({})]
    PROVE  Concat(S) = <<>>
<1>1. PICK f : Concats(f, S, {}, 0) /\ Concat(S) = f[0]
  BY ConcatIs
<1> QED BY <1>1 DEF Concats, PutsTogether

-----------------------------------------------------------------------------
\* The partition of the detections into crossings and pending groups.

\* The detections of group g in the crossings of L, and those stored in L.
Crossed(g, L) == Concat([i \in DOMAIN L |-> CrossedFor(g, L[i])])
Detected(g, L) == Concat([i \in DOMAIN L |-> StoredFor(g, L[i])])

\* What a record adds to either is a sequence of detections.
LEMMA PartTypes ==
    ASSUME NEW g, NEW r \in Record
    PROVE  CrossedFor(g, r) \in Seq(Detection) /\ StoredFor(g, r) \in Seq(Detection)
<1>1. r.kind = "Crossing" => r.body.detections \in Seq(Detection)
  BY DEF Record, CrossingBody
<1>2. IsDetection(r) => r.body \in Detection
  BY DEF Record, IsDetection
<1>3. <<>> \in Seq(Detection)
  OBVIOUS
<1>4. r.body \in Detection => <<r.body>> \in Seq(Detection)
  OBVIOUS
<1> QED BY <1>1, <1>2, <1>3, <1>4 DEF CrossedFor, StoredFor

\* One more record adds its part behind what there is.
LEMMA PartsGrow ==
    ASSUME NEW g, NEW L \in Seq(Record), NEW r \in Record
    PROVE  /\ L \o <<r>> \in Seq(Record)
           /\ Crossed(g, L) \in Seq(Detection) /\ Detected(g, L) \in Seq(Detection)
           /\ Crossed(g, L \o <<r>>) = Crossed(g, L) \o CrossedFor(g, r)
           /\ Detected(g, L \o <<r>>) = Detected(g, L) \o StoredFor(g, r)
<1>0. PICK n \in Nat : n = Len(L)
  BY LenProperties
<1>1. PICK M : M = L \o <<r>>
  OBVIOUS
<1>2. <<r>> \in Seq(Record) /\ Len(<<r>>) = 1 /\ <<r>>[1] = r
  OBVIOUS
<1>3. /\ M \in Seq(Record) /\ Len(M) = n + 1 /\ M[n + 1] = r
      /\ \A i \in 1..n : M[i] = L[i]
  BY <1>0, <1>1, <1>2, ConcatFacts
<1>4. DOMAIN L = 1..n /\ DOMAIN M = 1..(n + 1)
  BY <1>0, <1>3
<1>5. (\A i \in 1..n : L[i] \in Record) /\ (\A i \in 1..(n + 1) : M[i] \in Record)
  BY <1>0, <1>3, <1>4
<1> DEFINE CL == [i \in 1..n |-> CrossedFor(g, L[i])]
           CM == [i \in 1..(n + 1) |-> CrossedFor(g, M[i])]
           DL == [i \in 1..n |-> StoredFor(g, L[i])]
           DM == [i \in 1..(n + 1) |-> StoredFor(g, M[i])]
<1>6. /\ CL \in [1..n -> Seq(Detection)] /\ CM \in [1..(n + 1) -> Seq(Detection)]
      /\ DL \in [1..n -> Seq(Detection)] /\ DM \in [1..(n + 1) -> Seq(Detection)]
  BY <1>5, PartTypes
<1>7. (\A i \in 1..n : CM[i] = CL[i] /\ DM[i] = DL[i])
      /\ CM[n + 1] = CrossedFor(g, r) /\ DM[n + 1] = StoredFor(g, r)
  BY <1>3
<1>8. /\ Crossed(g, L) = Concat(CL) /\ Crossed(g, M) = Concat(CM)
      /\ Detected(g, L) = Concat(DL) /\ Detected(g, M) = Concat(DM)
  BY <1>4 DEF Crossed, Detected
<1> HIDE DEF CL, CM, DL, DM
<1>9. Concat(CL) \in Seq(Detection) /\ Concat(CM) = Concat(CL) \o CM[n + 1]
  BY <1>6, <1>7, ConcatGrows
<1>10. Concat(DL) \in Seq(Detection) /\ Concat(DM) = Concat(DL) \o DM[n + 1]
  BY <1>6, <1>7, ConcatGrows
<1> QED BY <1>1, <1>3, <1>7, <1>8, <1>9, <1>10

\* The groups of an empty log.
LEMMA PartsNone ==
    ASSUME NEW g PROVE Crossed(g, <<>>) = <<>> /\ Detected(g, <<>>) = <<>>
<1> DEFINE C == [i \in DOMAIN <<>> |-> CrossedFor(g, <<>>[i])]
           D == [i \in DOMAIN <<>> |-> StoredFor(g, <<>>[i])]
<1>1. C \in [1..0 -> Seq({})] /\ D \in [1..0 -> Seq({})]
  OBVIOUS
<1>2. Crossed(g, <<>>) = Concat(C) /\ Detected(g, <<>>) = Concat(D)
  BY DEF Crossed, Detected
<1> HIDE DEF C, D
<1> QED BY <1>1, <1>2, ConcatNone

\* Every pending group holds detections of its own key.
Keyed(groups) == \A g \in GroupKey : \A i \in DOMAIN groups[g] : groupKey(groups[g][i]) = g

\* A record of another group adds nothing.
LEMMA OtherGroup ==
    ASSUME NEW g, NEW L \in Seq(Record), NEW r \in Record,
           r.kind \in {"Detection", "Crossing"} => groupKey(r.body) # g
    PROVE  Crossed(g, L \o <<r>>) = Crossed(g, L) /\ Detected(g, L \o <<r>>) = Detected(g, L)
<1>1. CrossedFor(g, r) = <<>> /\ StoredFor(g, r) = <<>>
  BY DEF CrossedFor, StoredFor, IsDetection
<1>2. Crossed(g, L) \o <<>> = Crossed(g, L) /\ Detected(g, L) \o <<>> = Detected(g, L)
  BY PartsGrow, ConcatEmptySeq
<1>3. /\ Crossed(g, L \o <<r>>) = Crossed(g, L) \o CrossedFor(g, r)
      /\ Detected(g, L \o <<r>>) = Detected(g, L) \o StoredFor(g, r)
  BY PartsGrow
<1> QED BY ONLY <1>1, <1>2, <1>3

\* [event, ...crossings], as batch(s) puts it together.
BatchOf(p, e, cs) == <<EventRecord(p, e)>> \o [i \in 1..Len(cs) |-> CrossingRecord(p, cs[i])]

\* The batch of a detection: a crossing it carries is of the detection's own group,
\* and of the detections pending there.
Shaped(groups, p, e, b) ==
    \/ b = <<EventRecord(p, e)>> /\ e.subject # Anonymous /\ ~outsideWindow(groups, e)
    \/ \E c \in CrossingBody :
         /\ b = <<EventRecord(p, e)>> \o <<CrossingRecord(p, c)>>
         /\ groupKey(c) = groupKey(e)
         /\ \/ e.subject = Anonymous
            \/ outsideWindow(groups, e) /\ c.detections = groups[groupKey(e)]

\* peek_detection gives every batch this shape.
LEMMA BatchShape ==
    ASSUME NEW groups \in [GroupKey -> Seq(Detection)], Keyed(groups), NEW e \in Detection,
           NEW p \in Producers, NEW cs, cs = peek_detection(groups, e), NEW b, b = BatchOf(p, e, cs)
    PROVE  Shaped(groups, p, e, b)
<1> DEFINE r == EventRecord(p, e)
<1>1. ASSUME NEW c \in CrossingBody, cs = <<c>> PROVE b = <<r>> \o <<CrossingRecord(p, c)>>
  <2> DEFINE x == CrossingRecord(p, c)
  <2>1. [i \in 1..Len(cs) |-> CrossingRecord(p, cs[i])] = [i \in 1..1 |-> x]
    BY <1>1
  <2> HIDE DEF x
  <2>2. [i \in 1..1 |-> x] = <<x>>
    OBVIOUS
  <2> QED BY <2>1, <2>2 DEF x, BatchOf
<1>2. CASE e.subject = Anonymous
  <2> DEFINE c == commitGroup(<<e>>)
  <2>1. <<e>> \in Seq(Detection) /\ <<e>> # <<>> /\ <<e>>[1] = e
    OBVIOUS
  <2>2. c \in CrossingBody
    BY <2>1, CommitGroupType
  <2>3. cs = <<c>>
    BY <1>2 DEF peek_detection
  <2>4. c.timing_point = e.timing_point /\ c.subject = e.subject
    BY <2>1 DEF commitGroup
  <2>5. groupKey(c) = groupKey(e)
    BY <2>4 DEF groupKey
  <2> HIDE DEF c
  <2> QED BY <1>1, <1>2, <2>2, <2>3, <2>5 DEF Shaped
<1>3. CASE e.subject # Anonymous /\ outsideWindow(groups, e)
  <2>1. PICK k : k = groupKey(e)
    OBVIOUS
  <2>2. k \in GroupKey
    BY <1>3, <2>1 DEF groupKey, GroupKey, Detection
  <2>3. PICK dets : dets = groups[k]
    OBVIOUS
  <2>4. dets \in Seq(Detection) /\ dets # <<>>
    BY <1>3, <2>1, <2>2, <2>3 DEF outsideWindow
  <2>5. groupKey(dets[1]) = k
    <3>1. 1 \in DOMAIN dets
      BY <2>4
    <3> QED BY <2>2, <2>3, <3>1 DEF Keyed
  <2> DEFINE c == commitGroup(dets)
  <2>6. c \in CrossingBody
    BY <2>4, CommitGroupType
  <2>7. cs = <<c>>
    BY <1>3, <2>1, <2>3 DEF peek_detection
  <2>8. c.timing_point = dets[1].timing_point /\ c.subject = dets[1].subject /\ c.detections = dets
    BY DEF commitGroup
  <2> HIDE DEF c
  <2>9. groupKey(c) = groupKey(e)
    BY <2>1, <2>5, <2>8 DEF groupKey
  <2> QED BY <1>1, <1>3, <2>1, <2>3, <2>6, <2>7, <2>8, <2>9 DEF Shaped
<1>4. CASE e.subject # Anonymous /\ ~outsideWindow(groups, e)
  <2>1. cs = <<>>
    BY <1>4 DEF peek_detection
  <2>2. [i \in 1..Len(cs) |-> CrossingRecord(p, cs[i])] = <<>>
    BY <2>1
  <2>3. <<r>> \o <<>> = <<r>>
    OBVIOUS
  <2> QED BY <1>4, <2>2, <2>3 DEF BatchOf, Shaped
<1> QED BY <1>2, <1>3, <1>4

\* The records of a batch.
LEMMA RecordTypes ==
    ASSUME NEW p \in Producers
    PROVE  /\ \A e \in Detection : /\ EventRecord(p, e) \in Record
                                   /\ EventRecord(p, e).kind = "Detection" /\ EventRecord(p, e).body = e
           /\ \A c \in CrossingBody : /\ CrossingRecord(p, c) \in Record
                                      /\ CrossingRecord(p, c).kind = "Crossing"
                                      /\ CrossingRecord(p, c).body = c
<1>1. ASSUME NEW e \in Detection
      PROVE  EventRecord(p, e) \in Record /\ EventRecord(p, e).kind = "Detection" /\ EventRecord(p, e).body = e
  BY DEF EventRecord, Record, Detection
<1>2. ASSUME NEW c \in CrossingBody
      PROVE  /\ CrossingRecord(p, c) \in Record /\ CrossingRecord(p, c).kind = "Crossing"
             /\ CrossingRecord(p, c).body = c
  BY DEF CrossingRecord, Record
<1> QED BY <1>1, <1>2

\* Concatenation is associative, on sequences of detections.
LEMMA Regroup ==
    \A C, P, q \in Seq(Detection) : (C \o P) \o q = C \o (P \o q)
<1> SUFFICES ASSUME NEW C \in Seq(Detection), NEW P \in Seq(Detection), NEW q \in Seq(Detection)
             PROVE  (C \o P) \o q = C \o (P \o q)
  OBVIOUS
<1> QED BY ConcatAssociative

\* The log grew from L to M: the groups other than that of e are as before, and what
\* the commit of e will leave pending completes its own.
BatchParts(g, e, groups, L, M) ==
    /\ groupKey(e) # g => Crossed(g, M) = Crossed(g, L) /\ Detected(g, M) = Detected(g, L)
    /\ (groupKey(e) = g /\ Crossed(g, L) \o groups[g] = Detected(g, L))
          => Crossed(g, M) \o commit_detection(groups, e)[g] = Detected(g, M)

\* Storing a detection's batch does that.
LEMMA BatchPartition ==
    ASSUME NEW groups \in [GroupKey -> Seq(Detection)], Keyed(groups), NEW e \in Detection,
           NEW p \in Producers, NEW cs, cs = peek_detection(groups, e),
           NEW b, b = BatchOf(p, e, cs),
           NEW L \in Seq(Record), NEW g \in GroupKey
    PROVE  BatchParts(g, e, groups, L, L \o b)
<1>1. PICK r : r = EventRecord(p, e)
  OBVIOUS
<1>2. r \in Record /\ r.kind = "Detection" /\ r.body = e
  BY <1>1, RecordTypes
<1>3. PICK C, D, P : C = Crossed(g, L) /\ D = Detected(g, L) /\ P = groups[g]
  OBVIOUS
<1>4. C \in Seq(Detection) /\ D \in Seq(Detection) /\ P \in Seq(Detection) /\ <<e>> \in Seq(Detection)
      /\ <<>> \in Seq(Detection)
  <2>1. Crossed(g, L) \in Seq(Detection) /\ Detected(g, L) \in Seq(Detection)
    BY <1>2, PartsGrow
  <2>2. P \in Seq(Detection)
    BY <1>3
  <2>3. <<e>> \in Seq(Detection) /\ <<>> \in Seq(Detection)
    OBVIOUS
  <2> QED BY ONLY <1>3, <2>1, <2>2, <2>3
<1>5. PICK M : M = L \o <<r>>
  OBVIOUS
<1>6. M \in Seq(Record) /\ Crossed(g, M) = C \o CrossedFor(g, r) /\ Detected(g, M) = D \o StoredFor(g, r)
  BY <1>2, <1>3, <1>5, PartsGrow
<1>7. CrossedFor(g, r) = <<>> /\ StoredFor(g, r) = IF groupKey(e) = g THEN <<e>> ELSE <<>>
  BY <1>2 DEF CrossedFor, StoredFor, IsDetection
<1>8. Crossed(g, M) = C /\ Detected(g, M) = IF groupKey(e) = g THEN D \o <<e>> ELSE D
  BY <1>4, <1>6, <1>7, ConcatEmptySeq
<1>9. groupKey(e) = g => e.subject # Anonymous
  BY AnonymousAssumption DEF groupKey, GroupKey
<1>10. groupKey(e) = g /\ C \o P = D => C \o (P \o <<e>>) = D \o <<e>>
  <2>1. (C \o P) \o <<e>> = C \o (P \o <<e>>)
    BY ONLY <1>4, Regroup
  <2> QED BY ONLY <2>1
<1>11. ASSUME b = <<r>>, e.subject # Anonymous, ~outsideWindow(groups, e)
       PROVE  /\ groupKey(e) # g => Crossed(g, L \o b) = C /\ Detected(g, L \o b) = D
              /\ (groupKey(e) = g /\ C \o P = D)
                   => Crossed(g, L \o b) \o commit_detection(groups, e)[g] = Detected(g, L \o b)
  <2>1. L \o b = M
    BY <1>5, <1>11
  <2>2. groupKey(e) = g => commit_detection(groups, e)[g] = P \o <<e>>
    <3>1. groupKey(e) = g => commit_detection(groups, e)[g] = Append(P, e)
      BY <1>3, <1>11 DEF commit_detection
    <3>2. Append(P, e) = P \o <<e>>
      BY <1>4
    <3> QED BY <3>1, <3>2
  <2> QED BY <1>3, <1>8, <1>10, <2>1, <2>2
<1>12. ASSUME NEW c \in CrossingBody, b = <<r>> \o <<CrossingRecord(p, c)>>, groupKey(c) = groupKey(e),
              e.subject = Anonymous \/ (outsideWindow(groups, e) /\ c.detections = groups[groupKey(e)])
       PROVE  /\ groupKey(e) # g => Crossed(g, L \o b) = C /\ Detected(g, L \o b) = D
              /\ (groupKey(e) = g /\ C \o P = D)
                   => Crossed(g, L \o b) \o commit_detection(groups, e)[g] = Detected(g, L \o b)
  <2>1. PICK x : x = CrossingRecord(p, c)
    OBVIOUS
  <2>2. x \in Record /\ x.kind = "Crossing" /\ x.body = c
    BY <2>1, RecordTypes
  <2>3. L \o b = M \o <<x>>
    <3>1. <<r>> \in Seq(Record) /\ <<x>> \in Seq(Record)
      BY <1>2, <2>2
    <3>2. b = <<r>> \o <<x>>
      BY <1>12, <2>1
    <3>3. L \o (<<r>> \o <<x>>) = (L \o <<r>>) \o <<x>>
      BY <3>1, ConcatAssociative
    <3> QED BY <1>5, <3>2, <3>3
  <2>4. CrossedFor(g, x) = (IF groupKey(e) = g THEN c.detections ELSE <<>>) /\ StoredFor(g, x) = <<>>
    BY <1>12, <2>2 DEF CrossedFor, StoredFor, IsDetection
  <2>5. /\ Crossed(g, M \o <<x>>) = Crossed(g, M) \o CrossedFor(g, x)
        /\ Detected(g, M \o <<x>>) = Detected(g, M) \o StoredFor(g, x)
    BY <1>6, <2>2, PartsGrow
  <2>6. CASE groupKey(e) # g
    BY <1>4, <1>8, <2>3, <2>4, <2>5, <2>6, ConcatEmptySeq
  <2>7. CASE groupKey(e) = g
    <3>1. c.detections = P /\ outsideWindow(groups, e) /\ e.subject # Anonymous
      BY <1>3, <1>9, <1>12, <2>7
    <3>2. commit_detection(groups, e)[g] = <<e>>
      BY <2>7, <3>1 DEF commit_detection
    <3>3. D \o <<e>> \in Seq(Detection)
      BY <1>4, ConcatProperties
    <3>4. Detected(g, L \o b) = D \o <<e>>
      BY <1>8, <2>3, <2>4, <2>5, <2>7, <3>3, ConcatEmptySeq
    <3>5. Crossed(g, L \o b) = C \o P
      BY <1>8, <2>3, <2>4, <2>5, <2>7, <3>1
    <3> QED BY <2>7, <3>2, <3>4, <3>5
  <2> QED BY <2>6, <2>7
<1>13. \/ b = <<r>> /\ e.subject # Anonymous /\ ~outsideWindow(groups, e)
       \/ \E c \in CrossingBody :
            /\ b = <<r>> \o <<CrossingRecord(p, c)>> /\ groupKey(c) = groupKey(e)
            /\ e.subject = Anonymous \/ (outsideWindow(groups, e) /\ c.detections = groups[groupKey(e)])
  <2>1. Shaped(groups, p, e, b)
    BY BatchShape
  <2> QED BY ONLY <1>1, <2>1 DEF Shaped
<1>14. /\ groupKey(e) # g => Crossed(g, L \o b) = Crossed(g, L) /\ Detected(g, L \o b) = Detected(g, L)
       /\ (groupKey(e) = g /\ Crossed(g, L) \o groups[g] = Detected(g, L))
             => Crossed(g, L \o b) \o commit_detection(groups, e)[g] = Detected(g, L \o b)
  BY <1>3, <1>11, <1>12, <1>13
<1> QED BY ONLY <1>14 DEF BatchParts

\* A call between its append and its last commit.
Committing(s) == sess[s].pc \in {"commit_gate", "commit_detection"}

\* The crossings of a batch are forgotten when the call returns.
NoneHeld ==
    \A s \in Sessions :
        (\/ sess[s].pc \in {"closed", "next_event", "peek_detection"}
         \/ sess[s].pc = "append" /\ ~IsDetection(event(s))) => sess[s].crossings = <<>>

\* A node that is being seeded has no pending groups yet.
SeedsEmpty == node = "seeding" => pending = EmptyProcessor

PendingKeyed == Keyed(pending)

\* The events of the calls between their append and their last commit.
InCommit == {event(s) : s \in {o \in Sessions : Committing(o)}}

\* In a log L with pending groups P, the detections of g are partitioned, or will be
\* once event e is committed to the processor.
Settled(g, L, P) == Crossed(g, L) \o P[g] = Detected(g, L)
Owed(e, g, L, P) == Crossed(g, L) \o commit_detection(P, e)[g] = Detected(g, L)

PartAt(g, L, P, E) ==
    \/ Settled(g, L, P) /\ \A e \in E : groupKey(e) # g
    \/ \E e \in E : groupKey(e) = g /\ Owed(e, g, L, P)
Parted(L, P, E) == \A g \in GroupKey : PartAt(g, L, P, E)

Partitioned == node = "up" => Parted(Recent, pending, InCommit)

PartitionInv ==
    GapInv /\ CrossingsCurrent /\ NoneHeld /\ SeedsEmpty /\ PendingKeyed /\ Partitioned

\* What a commit leaves in a group depends only on that group.
LEMMA CommitLocalEq ==
    ASSUME NEW f \in [GroupKey -> Seq(Detection)], NEW h \in [GroupKey -> Seq(Detection)],
           NEW det, NEW g \in GroupKey, g = groupKey(det), f[g] = h[g]
    PROVE  commit_detection(f, det)[g] = commit_detection(h, det)[g]
<1>1. outsideWindow(f, det) = outsideWindow(h, det)
  BY DEF outsideWindow
<1> QED BY <1>1 DEF commit_detection

\* A commit adds the detection to the group of its own key.
LEMMA KeyedCommit ==
    ASSUME NEW f \in [GroupKey -> Seq(Detection)], NEW det \in Detection, Keyed(f)
    PROVE  Keyed(commit_detection(f, det))
<1>1. CASE det.subject = Anonymous
  BY <1>1 DEF commit_detection
<1>2. ASSUME det.subject # Anonymous, NEW g \in GroupKey, NEW h, h = commit_detection(f, det)[g],
             NEW i \in DOMAIN h
      PROVE  groupKey(h[i]) = g
  <2>1. CASE g # groupKey(det)
    BY <1>2, <2>1, CommitIsLocal DEF Keyed
  <2>2. CASE g = groupKey(det)
    <3>1. h = <<det>> \/ h = Append(f[g], det)
      BY <1>2, <2>2 DEF commit_detection
    <3>2. CASE h = <<det>>
      <4>1. i = 1 /\ h[1] = det
        BY <1>2, <3>2
      <4> QED BY <2>2, <4>1
    <3>3. CASE h = Append(f[g], det)
      <4>1. PICK q \in Seq(Detection) : q = f[g]
        OBVIOUS
      <4>2. \/ i \in DOMAIN q /\ h[i] = q[i]
            \/ h[i] = det
        BY <1>2, <3>3, <4>1
      <4> QED BY <2>2, <4>1, <4>2 DEF Keyed
    <3> QED BY <3>1, <3>2, <3>3
  <2> QED BY <2>1, <2>2
<1>3. CASE det.subject # Anonymous
  BY <1>2, <1>3 DEF Keyed
<1> QED BY <1>1, <1>3

\* The append of a detection's batch: its group is owed one commit.
LEMMA AppendParts ==
    ASSUME NEW P \in [GroupKey -> Seq(Detection)], Keyed(P), NEW e \in Detection,
           NEW p \in Producers, NEW cs, cs = peek_detection(P, e), NEW b, b = BatchOf(p, e, cs),
           NEW L \in Seq(Record), NEW E, Parted(L, P, E),
           groupKey(e) \in GroupKey => \A x \in E : groupKey(x) # groupKey(e)
    PROVE  Parted(L \o b, P, E \cup {e})
<1> SUFFICES ASSUME NEW g \in GroupKey PROVE PartAt(g, L \o b, P, E \cup {e})
  BY DEF Parted
<1>0. PartAt(g, L, P, E)
  BY DEF Parted
<1>1. PICK M : M = L \o b
  OBVIOUS
<1>2. /\ groupKey(e) # g => Crossed(g, M) = Crossed(g, L) /\ Detected(g, M) = Detected(g, L)
      /\ (groupKey(e) = g /\ Settled(g, L, P)) => Owed(e, g, M, P)
  <2>1. BatchParts(g, e, P, L, M)
    BY <1>1, BatchPartition
  <2> QED BY ONLY <2>1 DEF BatchParts, Settled, Owed
<1>3. CASE groupKey(e) = g
  <2>1. Settled(g, L, P)
    BY <1>0, <1>3 DEF PartAt
  <2> QED BY <1>1, <1>2, <1>3, <2>1 DEF PartAt
<1>4. CASE groupKey(e) # g
  <2>1. Settled(g, L, P) => Settled(g, M, P)
    BY <1>2, <1>4 DEF Settled
  <2>2. \A x \in E : Owed(x, g, L, P) => Owed(x, g, M, P)
    BY <1>2, <1>4 DEF Owed
  <2> QED BY <1>0, <1>1, <1>4, <2>1, <2>2 DEF PartAt
<1> QED BY <1>3, <1>4

\* The commit of a detection settles its group and leaves the others alone.
LEMMA CommitParts ==
    ASSUME NEW P \in [GroupKey -> Seq(Detection)], NEW e \in Detection, NEW L, NEW E, NEW F,
           Parted(L, P, E), e \in E,
           \A x \in E : groupKey(x) # groupKey(e) => x \in F,
           \A x \in F : x \in E,
           groupKey(e) \in GroupKey => \A x \in F : groupKey(x) # groupKey(e),
           groupKey(e) \in GroupKey => \A x \in E : groupKey(x) = groupKey(e) => x = e
    PROVE  Parted(L, commit_detection(P, e), F)
<1>1. PICK Q : Q = commit_detection(P, e)
  OBVIOUS
<1>2. Q \in [GroupKey -> Seq(Detection)]
  BY <1>1, CommitDetectionType
<1> SUFFICES ASSUME NEW g \in GroupKey PROVE PartAt(g, L, Q, F)
  BY <1>1 DEF Parted
<1>3. PartAt(g, L, P, E)
  BY DEF Parted
<1>4. CASE groupKey(e) = g
  <2>1. Owed(e, g, L, P)
    BY <1>3, <1>4 DEF PartAt
  <2>2. Settled(g, L, Q)
    BY <1>1, <2>1 DEF Owed, Settled
  <2> QED BY <1>4, <2>2 DEF PartAt
<1>5. CASE groupKey(e) # g
  <2>1. Q[g] = P[g]
    BY <1>1, <1>5, CommitIsLocal
  <2>2. Settled(g, L, P) => Settled(g, L, Q)
    BY <2>1 DEF Settled
  <2>3. ASSUME NEW x \in E, groupKey(x) = g, Owed(x, g, L, P)
        PROVE  Owed(x, g, L, Q)
    <3>1. commit_detection(P, x)[g] = commit_detection(Q, x)[g]
      BY <1>2, <2>1, <2>3, CommitLocalEq
    <3> QED BY <2>3, <3>1 DEF Owed
  <2> QED BY <1>3, <1>5, <2>2, <2>3 DEF PartAt
<1> QED BY <1>4, <1>5

\* A record that is neither a detection nor a crossing changes no group.
LEMMA StatusParts ==
    ASSUME NEW P, NEW L \in Seq(Record), NEW E, NEW r \in Record, r.kind = "Status", Parted(L, P, E)
    PROVE  Parted(L \o <<r>>, P, E)
<1> SUFFICES ASSUME NEW g \in GroupKey PROVE PartAt(g, L \o <<r>>, P, E)
  BY DEF Parted
<1>1. PICK M : M = L \o <<r>>
  OBVIOUS
<1>2. Crossed(g, M) = Crossed(g, L) /\ Detected(g, M) = Detected(g, L)
  BY <1>1, OtherGroup
<1>3. PartAt(g, L, P, E)
  BY DEF Parted
<1> QED BY <1>1, <1>2, <1>3 DEF PartAt, Settled, Owed

\* A node that has stored nothing since it came up.
LEMMA NoParts ==
    Parted(<<>>, EmptyProcessor, {})
<1> SUFFICES ASSUME NEW g \in GroupKey PROVE PartAt(g, <<>>, EmptyProcessor, {})
  BY DEF Parted
<1>1. EmptyProcessor[g] = <<>> /\ Crossed(g, <<>>) = <<>> /\ Detected(g, <<>>) = <<>>
  BY PartsNone DEF EmptyProcessor
<1>2. <<>> \o <<>> = <<>>
  OBVIOUS
<1> QED BY <1>1, <1>2 DEF PartAt, Settled

\* What was stored since the node came up, and one batch more.
LEMMA RecentGrows ==
    ASSUME NEW L \in Seq(Record), NEW b \in Seq(Record), NEW k \in Nat, k <= Len(L)
    PROVE  /\ SubSeq(L, k + 1, Len(L)) \in Seq(Record)
           /\ SubSeq(L \o b, k + 1, Len(L \o b)) = SubSeq(L, k + 1, Len(L)) \o b
<1>1. PICK m \in Nat : m = Len(L)
  BY LenProperties
<1>2. PICK n \in Nat : n = Len(b)
  BY LenProperties
<1>3. PICK M : M = L \o b
  OBVIOUS
<1>4. /\ M \in Seq(Record) /\ Len(M) = m + n
      /\ \A i \in 1..m : M[i] = L[i]
      /\ \A i \in 1..n : M[m + i] = b[i]
  BY <1>1, <1>2, <1>3, ConcatProperties
<1>5. PICK A : A = SubSeq(L, k + 1, m)
  OBVIOUS
<1>6. PICK B : B = SubSeq(M, k + 1, m + n)
  OBVIOUS
<1>7. /\ A \in Seq(Record) /\ Len(A) = m - k
      /\ \A i \in 1..(m - k) : A[i] = L[k + i]
  BY <1>1, <1>5
<1>8. /\ B \in Seq(Record) /\ Len(B) = m + n - k
      /\ \A i \in 1..(m + n - k) : B[i] = M[k + i]
  BY <1>1, <1>4, <1>6
<1>9. PICK C : C = A \o b
  OBVIOUS
<1>10. /\ C \in Seq(Record) /\ Len(C) = m - k + n
       /\ \A i \in 1..(m - k) : C[i] = A[i]
       /\ \A i \in 1..n : C[m - k + i] = b[i]
  <2>1. /\ A \o b \in Seq(Record) /\ Len(A \o b) = Len(A) + Len(b)
        /\ \A i \in 1..Len(A) : (A \o b)[i] = A[i]
        /\ \A i \in 1..Len(b) : (A \o b)[Len(A) + i] = b[i]
    <3>1. A \in Seq(Record) /\ b \in Seq(Record)
      BY <1>7
    <3> QED BY ONLY <3>1, ConcatFacts
  <2> QED BY <1>2, <1>7, <1>9, <2>1
<1>11. ASSUME NEW i \in 1..(m + n - k) PROVE B[i] = C[i]
  <2>1. CASE i <= m - k
    BY <1>1, <1>4, <1>7, <1>8, <1>10, <2>1
  <2>2. CASE i > m - k
    <3>1. PICK j \in 1..n : i = m - k + j
      <4>1. i - (m - k) \in 1..n
        BY <1>1, <2>2
      <4> QED BY <4>1
    <3>2. C[i] = b[j] /\ M[m + j] = b[j] /\ k + i = m + j
      BY <1>4, <1>10, <3>1
    <3> QED BY <1>8, <3>2
  <2> QED BY <1>1, <2>1, <2>2
<1>12. Len(B) = Len(C) /\ \A i \in 1..Len(B) : B[i] = C[i]
  BY <1>8, <1>10, <1>11
<1>13. B = C
  BY <1>8, <1>10, <1>12, SeqEqual
<1>14. SubSeq(L, k + 1, Len(L)) = A /\ SubSeq(L \o b, k + 1, Len(L \o b)) = B
  BY <1>1, <1>3, <1>4, <1>5, <1>6
<1> QED BY ONLY <1>7, <1>9, <1>13, <1>14

\* Recent, pending and InCommit, in one state and in the next.
PartedMeans ==
    \A L, P, E : Parted(L, P, E) /\ (node = "up" => Recent = L) /\ pending = P /\ InCommit = E
                   => Partitioned

\* They are what Partitioned is about, here ...
LEMMA PartitionedNow == PartedMeans
BY DEF PartedMeans, Partitioned

\* ... and after a step.
LEMMA PartitionedNext ==
    ASSUME NEW CONSTANT L, NEW CONSTANT P, NEW CONSTANT E, Parted(L, P, E),
           (node = "up" => Recent = L)', (pending = P)', (InCommit = E)'
    PROVE  Partitioned'
<1>1. PartedMeans'
  BY PartitionedNow, PTL
<1> QED BY <1>1 DEF PartedMeans

\* A step that leaves the log, the processor and the commits under way alone.
LEMMA PartitionQuiet ==
    ASSUME Partitioned, node' = node, log' = log, boot' = boot, pending' = pending,
           InCommit' = InCommit
    PROVE  Partitioned'
<1>1. CASE node = "up"
  <2>1. PICK L : L = Recent
    OBVIOUS
  <2>2. PICK P : P = pending
    OBVIOUS
  <2>3. PICK E : E = InCommit
    OBVIOUS
  <2>4. Parted(L, P, E)
    BY <1>1, <2>1, <2>2, <2>3 DEF Partitioned
  <2>5. Recent' = L /\ pending' = P /\ InCommit' = E
    BY <2>1, <2>2, <2>3 DEF Recent
  <2> QED BY <2>4, <2>5, PartitionedNext
<1>2. CASE node # "up"
  BY <1>2 DEF Partitioned
<1> QED BY <1>1, <1>2

\* A step of a session that neither enters nor leaves its commits.
LEMMA InCommitKept ==
    ASSUME NEW s \in Sessions, \A o \in Sessions : o # s => sess'[o] = sess[o],
           \/ ~Committing(s) /\ sess'[s].pc \notin {"commit_gate", "commit_detection"}
           \/ /\ Committing(s) /\ sess'[s].pc \in {"commit_gate", "commit_detection"}
              /\ sess'[s].producer = sess[s].producer /\ sess'[s].next = sess[s].next
    PROVE  InCommit' = InCommit
<1>1. \A o \in Sessions : Committing(o)' <=> Committing(o)
  BY DEF Committing
<1>2. \A o \in Sessions : Committing(o) => event(o)' = event(o)
  BY DEF event
<1> QED BY <1>1, <1>2 DEF InCommit

\* One call at a time works on the group of a detection that is not anonymous.
LEMMA GroupOwner ==
    ASSUME GroupsApart, TypeOK, HoldsEvent, Exclusive, NEW s \in Sessions, NEW o \in Sessions,
           sess[s].pc \in {"append", "commit_gate", "commit_detection"},
           sess[o].pc \in {"append", "commit_gate", "commit_detection"},
           IsDetection(event(s)), IsDetection(event(o)),
           groupKey(event(s)) \in GroupKey, groupKey(event(o)) = groupKey(event(s))
    PROVE  o = s
<1>0. \A x \in Sessions : sess[x] \in SessionState
  BY DEF TypeOK
<1>1. ASSUME NEW x \in Sessions, sess[x].pc \in {"append", "commit_gate", "commit_detection"}
      PROVE  sess[x].producer \in Producers /\ sess[x].next \in 1..Len(Plan[sess[x].producer])
  <2>1. sess[x].next <= Len(Plan[sess[x].producer])
    BY <1>1 DEF HoldsEvent
  <2>2. sess[x].producer \in Producers /\ sess[x].next \in Nat \ {0}
    BY <1>0 DEF SessionState
  <2> QED BY <2>1, <2>2, PlanAssumption
<1>2. event(s).subject # Anonymous
  BY AnonymousAssumption DEF groupKey, GroupKey
<1>3. sess[s].producer = sess[o].producer
  BY <1>1, <1>2 DEF GroupsApart, event
<1> QED BY <1>3 DEF Exclusive, Live

\* A stored batch: the group of its detection is owed its commit.
LEMMA PartitionAppend ==
    ASSUME GroupsApart, PartitionInv, NEW s \in Sessions, AppendOk(s)
    PROVE  Partitioned'
<1> USE DEF PartitionInv, GapInv, IngestInv
<1>0. sess \in [Sessions -> SessionState] /\ \A x \in Sessions : sess[x] \in SessionState
  BY DEF TypeOK
<1>1. /\ sess[s].pc = "append" /\ log' = log \o batch(s)
      /\ node' = node /\ boot' = boot /\ pending' = pending
  BY DEF AppendOk, Store
<1>2. node = "up"
  BY <1>1 DEF SeedingIdle, Live, TypeOK
<1>3. PICK L : L = Recent
  OBVIOUS
<1>4. PICK P : P = pending
  OBVIOUS
<1>5. PICK E : E = InCommit
  OBVIOUS
<1>6. Parted(L, P, E) /\ P \in [GroupKey -> Seq(Detection)] /\ Keyed(P)
  BY <1>2, <1>3, <1>4, <1>5 DEF Partitioned, PendingKeyed, TypeOK
<1>7. PICK b : b = batch(s)
  OBVIOUS
<1>8. b \in Seq(Record)
  BY <1>1, <1>7, BatchFacts
<1>9. log \in Seq(Record) /\ boot \in Nat /\ boot <= Len(log)
  BY DEF TypeOK, BootFacts
<1>10. /\ SubSeq(log, boot + 1, Len(log)) \in Seq(Record)
       /\ SubSeq(log \o b, boot + 1, Len(log \o b)) = SubSeq(log, boot + 1, Len(log)) \o b
  BY ONLY <1>8, <1>9, RecentGrows
<1>11. L \in Seq(Record) /\ Recent' = L \o b
  BY <1>1, <1>3, <1>7, <1>10 DEF Recent
<1>12. PICK e : e = event(s)
  OBVIOUS
<1>13. PICK p \in Producers : p = sess[s].producer
  BY <1>0 DEF SessionState
<1>14. PICK cs : cs = sess[s].crossings
  OBVIOUS
<1>15. b = BatchOf(p, e, cs)
  BY <1>7, <1>12, <1>13, <1>14 DEF batch, BatchOf
<1>16. pending' = P
  BY <1>1, <1>4
<1>17. CASE IsDetection(event(s))
  <2>1. /\ \A o \in Sessions : o # s => sess'[o] = sess[o]
        /\ sess'[s].pc = "commit_gate"
        /\ sess'[s].producer = sess[s].producer /\ sess'[s].next = sess[s].next
    BY <1>0, <1>17 DEF AppendOk, SessionState
  <2>2. e \in Detection
    BY <1>1, <1>12, <1>17, HeldEvent
  <2>3. cs = peek_detection(P, e)
    BY <1>1, <1>4, <1>12, <1>14, <1>17 DEF CrossingsCurrent
  <2>4. ASSUME groupKey(e) \in GroupKey, NEW x \in E
        PROVE  groupKey(x) # groupKey(e)
    <3>1. PICK o \in Sessions : Committing(o) /\ x = event(o)
      BY <1>5 DEF InCommit
    <3>2. IsDetection(event(o))
      BY <3>1 DEF Committing, HoldsEvent
    <3>3. o # s
      BY <1>1, <3>1 DEF Committing
    <3> QED BY <1>1, <1>12, <1>17, <2>4, <3>1, <3>2, <3>3, GroupOwner DEF Committing
  <2>5. InCommit' = E \cup {e}
    <3>1. Committing(s)' /\ ~Committing(s) /\ event(s)' = e
      BY <1>1, <1>12, <2>1 DEF Committing, event
    <3>2. \A o \in Sessions : o # s => (Committing(o)' <=> Committing(o)) /\ event(o)' = event(o)
      BY <2>1 DEF Committing, event
    <3> QED BY <1>5, <3>1, <3>2 DEF InCommit
  <2>6. Parted(L \o b, P, E \cup {e})
    BY ONLY <1>6, <1>11, <1>13, <1>15, <2>2, <2>3, <2>4, AppendParts
  <2> QED BY <1>11, <1>16, <2>5, <2>6, PartitionedNext
<1>18. CASE ~IsDetection(event(s))
  <2>1. /\ \A o \in Sessions : o # s => sess'[o] = sess[o]
        /\ sess'[s].pc = "next_event"
    BY <1>0, <1>18 DEF AppendOk, SessionState
  <2>2. InCommit' = E
    BY <1>1, <1>5, <2>1, InCommitKept DEF Committing
  <2>3. cs = <<>>
    BY <1>1, <1>14, <1>18 DEF NoneHeld
  <2>4. PICK r : r = EventRecord(p, e)
    OBVIOUS
  <2>5. e \in Event /\ e.kind # "Detection"
    BY <1>1, <1>12, <1>18, HeldEvent DEF IsDetection
  <2>6. r \in Record /\ r.kind = "Status"
    BY <2>4, <2>5 DEF EventRecord, Record, Event, Detection, Status
  <2>7. b = <<r>>
    <3>1. [i \in 1..Len(cs) |-> CrossingRecord(p, cs[i])] = <<>>
      BY <2>3
    <3>2. <<r>> \o <<>> = <<r>>
      OBVIOUS
    <3> QED BY <1>15, <2>4, <3>1, <3>2 DEF BatchOf
  <2>8. Parted(L \o b, P, E)
    BY ONLY <1>6, <1>11, <2>6, <2>7, StatusParts
  <2> QED BY <1>11, <1>16, <2>2, <2>8, PartitionedNext
<1> QED BY <1>17, <1>18

\* The last commit of a call settles the group of its detection.
LEMMA PartitionCommit ==
    ASSUME GroupsApart, PartitionInv, NEW s \in Sessions, CommitProcessor(s)
    PROVE  Partitioned' /\ PendingKeyed'
<1> USE DEF PartitionInv, GapInv, IngestInv
<1>0. sess \in [Sessions -> SessionState] /\ \A x \in Sessions : sess[x] \in SessionState
  BY DEF TypeOK
<1>1. /\ sess[s].pc = "commit_detection" /\ pending' = commit_detection(pending, event(s))
      /\ node' = node /\ boot' = boot /\ log' = log
  BY DEF CommitProcessor
<1>2. node = "up"
  BY <1>1 DEF SeedingIdle, Live, TypeOK
<1>3. PICK L : L = Recent
  OBVIOUS
<1>4. PICK P : P = pending
  OBVIOUS
<1>5. PICK E : E = InCommit
  OBVIOUS
<1>6. Parted(L, P, E) /\ P \in [GroupKey -> Seq(Detection)] /\ Keyed(P)
  BY <1>2, <1>3, <1>4, <1>5 DEF Partitioned, PendingKeyed, TypeOK
<1>7. Recent' = L
  BY <1>1, <1>3 DEF Recent
<1>8. PICK e : e = event(s)
  OBVIOUS
<1>9. IsDetection(event(s)) /\ e \in Detection
  <2>1. IsDetection(event(s))
    BY <1>1 DEF HoldsEvent
  <2> QED BY <1>1, <1>8, <2>1, HeldEvent
<1>10. PICK Q : Q = commit_detection(P, e)
  OBVIOUS
<1>11. pending' = Q
  BY <1>1, <1>4, <1>8, <1>10
<1>12. (\A o \in Sessions : o # s => sess'[o] = sess[o]) /\ sess'[s].pc = "next_event"
  BY <1>0 DEF CommitProcessor, SessionState
<1>13. PICK F : F = InCommit'
  OBVIOUS
<1>14. e \in E
  BY <1>1, <1>5, <1>8 DEF InCommit, Committing
<1>15. ASSUME NEW x \in E
       PROVE  /\ groupKey(x) # groupKey(e) => x \in F
              /\ groupKey(e) \in GroupKey /\ groupKey(x) = groupKey(e) => x = e
  <2>1. PICK o \in Sessions : Committing(o) /\ x = event(o)
    BY <1>5, <1>15 DEF InCommit
  <2>2. IsDetection(event(o))
    BY <2>1 DEF Committing, HoldsEvent
  <2>3. o # s => x \in F
    BY <1>12, <1>13, <2>1 DEF InCommit, Committing, event
  <2>4. groupKey(e) \in GroupKey /\ groupKey(x) = groupKey(e) => o = s
    BY <1>1, <1>8, <1>9, <2>1, <2>2, GroupOwner DEF Committing
  <2> QED BY <1>8, <2>1, <2>3, <2>4
<1>16. ASSUME NEW x \in F
       PROVE  x \in E /\ (groupKey(e) \in GroupKey => groupKey(x) # groupKey(e))
  <2>1. PICK o \in Sessions : o # s /\ Committing(o) /\ x = event(o)
    <3>1. PICK o \in Sessions : Committing(o)' /\ x = event(o)'
      BY <1>13, <1>16 DEF InCommit
    <3>2. o # s
      BY <1>12, <3>1 DEF Committing
    <3>3. Committing(o) /\ event(o)' = event(o)
      BY <1>12, <3>1, <3>2 DEF Committing, event
    <3> QED BY <3>1, <3>2, <3>3
  <2>2. IsDetection(event(o))
    BY <2>1 DEF Committing, HoldsEvent
  <2>3. x \in E
    BY <1>5, <2>1 DEF InCommit
  <2>4. groupKey(e) \in GroupKey => groupKey(x) # groupKey(e)
    BY <1>1, <1>8, <1>9, <2>1, <2>2, GroupOwner DEF Committing
  <2> QED BY <2>3, <2>4
<1>17. Parted(L, Q, F)
  <2>1. \A x \in E : groupKey(x) # groupKey(e) => x \in F
    BY <1>15
  <2>2. \A x \in F : x \in E
    BY <1>16
  <2>3. groupKey(e) \in GroupKey => \A x \in F : groupKey(x) # groupKey(e)
    BY <1>16
  <2>4. groupKey(e) \in GroupKey => \A x \in E : groupKey(x) = groupKey(e) => x = e
    BY <1>15
  <2> QED BY ONLY <1>6, <1>9, <1>10, <1>14, <2>1, <2>2, <2>3, <2>4, CommitParts
<1>18. Keyed(Q)
  BY <1>6, <1>9, <1>10, KeyedCommit
<1>19. PendingKeyed'
  BY <1>11, <1>18 DEF PendingKeyed, Keyed
<1>20. Partitioned'
  BY <1>7, <1>11, <1>13, <1>17, PartitionedNext
<1> QED BY <1>19, <1>20

\* A call that returns takes its crossings with it.
LEMMA NoneHeldStep ==
    ASSUME TypeOK, HoldsEvent, NoneHeld, [Next]_vars
    PROVE  NoneHeld'
<1>0. sess \in [Sessions -> SessionState] /\ \A s \in Sessions : sess[s] \in SessionState
  BY DEF TypeOK
<1>00. ClosedSession.crossings = <<>> /\ ClosedSession \in SessionState
  BY ClosedSessionType DEF ClosedSession
<1>1. ASSUME NEW s \in Sessions, \A o \in Sessions : o # s => sess'[o] = sess[o],
             \/ sess'[s].crossings = <<>>
             \/ sess'[s].pc \in {"commit_gate", "commit_detection"}
             \/ sess'[s].pc = "append" /\ IsDetection(event(s)')
      PROVE  NoneHeld'
  BY <1>1 DEF NoneHeld, event
<1>2. ASSUME NEW s \in Sessions, NEW p \in Producers, NEW n \in 1..Len(Plan[p]), Connect(s, p, n)
      PROVE  NoneHeld'
  <2>1. \A o \in Sessions : o # s => sess'[o] = sess[o]
    BY <1>0, <1>2 DEF Connect
  <2>2. sess'[s].crossings = <<>>
    BY <1>0, <1>00, <1>2 DEF Connect, SessionState
  <2> QED BY <1>1, <2>1, <2>2
<1>3. ASSUME NEW s \in Sessions, ReceiveStatus(s) \/ DropDuplicate(s) \/ PeekGate(s)
      PROVE  NoneHeld'
  <2>1. \A o \in Sessions : o # s => sess'[o] = sess[o]
    BY <1>0, <1>3 DEF ReceiveStatus, DropDuplicate, PeekGate
  <2>2. sess'[s].crossings = sess[s].crossings /\ sess[s].pc = "next_event"
    BY <1>0, <1>3 DEF ReceiveStatus, DropDuplicate, PeekGate, HasNext, SessionState
  <2>3. sess[s].crossings = <<>>
    BY <2>2 DEF NoneHeld
  <2> QED BY <1>1, <2>1, <2>2, <2>3
<1>4. ASSUME NEW s \in Sessions, PeekProcessor(s)
      PROVE  NoneHeld'
  <2>1. \A o \in Sessions : o # s => sess'[o] = sess[o]
    BY <1>0, <1>4 DEF PeekProcessor
  <2>2. /\ sess'[s].pc = "append" /\ sess[s].pc = "peek_detection"
        /\ sess'[s].producer = sess[s].producer /\ sess'[s].next = sess[s].next
    BY <1>0, <1>4 DEF PeekProcessor, SessionState
  <2>3. IsDetection(event(s)) /\ event(s)' = event(s)
    BY <2>2 DEF HoldsEvent, event
  <2>4. IsDetection(event(s)')
    BY <2>3
  <2> QED BY <1>1, <2>1, <2>2, <2>4
<1>5. ASSUME NEW s \in Sessions, AppendOk(s)
      PROVE  NoneHeld'
  <2>1. \A o \in Sessions : o # s => sess'[o] = sess[o]
    BY <1>0, <1>5 DEF AppendOk
  <2>2. \/ sess'[s].pc = "commit_gate"
        \/ sess[s].pc = "append" /\ ~IsDetection(event(s)) /\ sess'[s].crossings = sess[s].crossings
    BY <1>0, <1>5 DEF AppendOk, SessionState
  <2>3. sess'[s].pc = "commit_gate" \/ sess'[s].crossings = <<>>
    BY <2>2 DEF NoneHeld
  <2> QED BY <1>1, <2>1, <2>3
<1>6. ASSUME NEW s \in Sessions, CommitGate(s) \/ CommitProcessor(s)
      PROVE  NoneHeld'
  <2>1. \A o \in Sessions : o # s => sess'[o] = sess[o]
    BY <1>0, <1>6 DEF CommitGate, CommitProcessor
  <2>2. sess'[s].pc = "commit_detection" \/ sess'[s].crossings = <<>>
    BY <1>0, <1>6 DEF CommitGate, CommitProcessor, SessionState
  <2> QED BY <1>1, <2>1, <2>2
<1>7. ASSUME NEW s \in Sessions, AppendErr(s) \/ AppendErrStored(s) \/ Disconnect(s)
      PROVE  NoneHeld'
  <2>1. (\A o \in Sessions : o # s => sess'[o] = sess[o]) /\ sess'[s].crossings = <<>>
    BY <1>0, <1>00, <1>7 DEF AppendErr, AppendErrStored, Disconnect
  <2> QED BY <1>1, <2>1
<1>8. CASE Crash
  BY <1>8, <1>00 DEF Crash, NoneHeld
<1>9. CASE Seed \/ StartListeners \/ UNCHANGED vars
  BY <1>9 DEF Seed, StartListeners, vars, NoneHeld, event
<1> QED
  BY <1>2, <1>3, <1>4, <1>5, <1>6, <1>7, <1>8, <1>9 DEF Next, SessionStep

\* Every step keeps the partition.  A crash forgets it, and the node comes up with
\* an empty processor and nothing stored since.
LEMMA PartitionStep ==
    ASSUME ~LateErrors, GroupsApart, PartitionInv, [Next]_vars
    PROVE  SeedsEmpty' /\ PendingKeyed' /\ Partitioned'
<1> USE DEF PartitionInv, GapInv, IngestInv
<1>0. sess \in [Sessions -> SessionState] /\ \A s \in Sessions : sess[s] \in SessionState
  BY DEF TypeOK
<1>1. ASSUME node' = node, log' = log, boot' = boot, pending' = pending, InCommit' = InCommit
      PROVE  SeedsEmpty' /\ PendingKeyed' /\ Partitioned'
  <2>1. SeedsEmpty' /\ PendingKeyed'
    BY <1>1 DEF SeedsEmpty, PendingKeyed, Keyed
  <2> QED BY <1>1, <2>1, PartitionQuiet
<1>2. ASSUME NEW s \in Sessions, NEW p \in Producers, NEW n \in 1..Len(Plan[p]), Connect(s, p, n)
      PROVE  SeedsEmpty' /\ PendingKeyed' /\ Partitioned'
  <2>1. (\A o \in Sessions : o # s => sess'[o] = sess[o]) /\ sess'[s].pc = "next_event"
        /\ sess[s].pc = "closed"
    BY <1>0, <1>2, ClosedSessionType DEF Connect, SessionState
  <2>2. InCommit' = InCommit
    BY <2>1, InCommitKept DEF Committing
  <2> QED BY <1>1, <1>2, <2>2 DEF Connect
<1>3. ASSUME NEW s \in Sessions,
             ReceiveStatus(s) \/ DropDuplicate(s) \/ PeekGate(s) \/ PeekProcessor(s) \/ CommitGate(s)
      PROVE  SeedsEmpty' /\ PendingKeyed' /\ Partitioned'
  <2>1. \A o \in Sessions : o # s => sess'[o] = sess[o]
    BY <1>0, <1>3 DEF ReceiveStatus, DropDuplicate, PeekGate, PeekProcessor, CommitGate
  <2>2. \/ /\ sess[s].pc \in {"next_event", "peek_detection"}
           /\ sess'[s].pc \in {"next_event", "peek_detection", "append"}
        \/ /\ sess[s].pc = "commit_gate" /\ sess'[s].pc = "commit_detection"
           /\ sess'[s].producer = sess[s].producer /\ sess'[s].next = sess[s].next
    BY <1>0, <1>3 DEF ReceiveStatus, DropDuplicate, PeekGate, PeekProcessor, CommitGate, HasNext,
                      SessionState
  <2>3. InCommit' = InCommit
    BY <2>1, <2>2, InCommitKept DEF Committing
  <2> QED BY <1>1, <1>3, <2>3 DEF ReceiveStatus, DropDuplicate, PeekGate, PeekProcessor, CommitGate
<1>4. ASSUME NEW s \in Sessions, AppendOk(s)
      PROVE  SeedsEmpty' /\ PendingKeyed' /\ Partitioned'
  <2>1. node' = node /\ pending' = pending
    BY <1>4 DEF AppendOk
  <2>2. SeedsEmpty' /\ PendingKeyed'
    BY <2>1 DEF SeedsEmpty, PendingKeyed, Keyed
  <2> QED BY <1>4, <2>2, PartitionAppend
<1>5. ASSUME NEW s \in Sessions, CommitProcessor(s)
      PROVE  SeedsEmpty' /\ PendingKeyed' /\ Partitioned'
  <2>1. node' = node /\ node # "seeding"
    BY <1>5 DEF CommitProcessor, SeedingIdle, Live
  <2>2. SeedsEmpty'
    BY <2>1 DEF SeedsEmpty
  <2> QED BY <1>5, <2>2, PartitionCommit
<1>6. ASSUME NEW s \in Sessions, AppendErr(s) \/ Disconnect(s)
      PROVE  SeedsEmpty' /\ PendingKeyed' /\ Partitioned'
  <2>1. /\ \A o \in Sessions : o # s => sess'[o] = sess[o]
        /\ sess'[s].pc = "closed" /\ sess[s].pc \in {"append", "next_event"}
    BY <1>0, <1>6, ClosedSessionType DEF AppendErr, Disconnect
  <2>2. InCommit' = InCommit
    BY <2>1, InCommitKept DEF Committing
  <2> QED BY <1>1, <1>6, <2>2 DEF AppendErr, Disconnect
<1>7. CASE Crash
  <2>1. node' = "seeding" /\ pending' = EmptyProcessor
    BY <1>7 DEF Crash
  <2>2. \A g \in GroupKey : EmptyProcessor[g] = <<>>
    BY DEF EmptyProcessor
  <2>3. PendingKeyed'
    BY <2>1, <2>2 DEF PendingKeyed, Keyed
  <2>4. SeedsEmpty' /\ Partitioned'
    BY <2>1 DEF SeedsEmpty, Partitioned
  <2> QED BY <2>3, <2>4
<1>8. CASE Seed \/ UNCHANGED vars
  <2>1. node' = node /\ log' = log /\ boot' = boot /\ pending' = pending /\ sess' = sess
    BY <1>8 DEF Seed, vars
  <2>2. InCommit' = InCommit
    BY <2>1 DEF InCommit, Committing, event
  <2> QED BY <1>1, <2>1, <2>2
<1>9. CASE StartListeners
  <2>1. /\ node = "seeding" /\ node' = "up" /\ boot' = Len(log) /\ log' = log
        /\ pending' = pending /\ sess' = sess
    BY <1>9 DEF StartListeners
  <2>2. pending' = EmptyProcessor
    BY <2>1 DEF SeedsEmpty
  <2>3. Recent' = <<>>
    <3>1. log \in Seq(Record) /\ Len(log) \in Nat
      BY DEF TypeOK
    <3>2. SubSeq(log, Len(log) + 1, Len(log)) = <<>>
      BY <3>1
    <3> QED BY <2>1, <3>2 DEF Recent
  <2>4. InCommit' = {}
    <3>1. \A s \in Sessions : ~Committing(s)'
      BY <2>1 DEF SeedingIdle, Live, Committing
    <3> QED BY <3>1 DEF InCommit
  <2>5. Partitioned'
    BY <2>2, <2>3, <2>4, NoParts, PartitionedNext
  <2>6. SeedsEmpty' /\ PendingKeyed'
    BY <2>1 DEF SeedsEmpty, PendingKeyed, Keyed
  <2> QED BY <2>5, <2>6
<1> QED
  BY <1>2, <1>3, <1>4, <1>5, <1>6, <1>7, <1>8, <1>9 DEF Next, SessionStep, AppendErrStored

(***************************************************************************)
(* No detection is lost to, or counted twice by, the crossing engine: for  *)
(* producers with one live session each whose detections never share a     *)
(* group, and appends that fail cleanly, the detections stored since the   *)
(* node came up are, in storage order, those of the stored crossings and   *)
(* then those still pending.  PartitionInv says what holds while calls are *)
(* between their append and their commit_detection: the group is owed      *)
(* exactly that commit, and one call at a time owes it.                    *)
(***************************************************************************)
THEOREM CrossingsPartitionAlways ==
    ASSUME ~SharedIds, ~LateErrors, GroupsApart
    PROVE  Spec => []CrossingsPartition
<1>1. ~SharedIds /\ ~LateErrors /\ GroupsApart
  OBVIOUS
<1>2. Init => PartitionInv
  <2> SUFFICES ASSUME Init PROVE PartitionInv
    OBVIOUS
  <2>1. ClosedSession.pc = "closed" /\ ClosedSession.crossings = <<>>
    BY DEF ClosedSession
  <2>2. \A s \in Sessions : sess[s].pc = "closed" /\ sess[s].crossings = <<>>
    BY <2>1 DEF Init
  <2>3. CrossingsCurrent /\ NoneHeld
    BY <2>2 DEF CrossingsCurrent, NoneHeld
  <2>4. pending = EmptyProcessor /\ \A g \in GroupKey : EmptyProcessor[g] = <<>>
    BY DEF Init, EmptyProcessor
  <2>5. SeedsEmpty /\ PendingKeyed
    BY <2>4 DEF SeedsEmpty, PendingKeyed, Keyed
  <2>6. InCommit = {}
    BY <2>2 DEF InCommit, Committing
  <2>7. Recent = <<>>
    BY DEF Init, Recent
  <2>8. Partitioned
    BY <2>4, <2>6, <2>7, NoParts DEF Partitioned
  <2> QED BY <2>3, <2>5, <2>8, GapInit DEF PartitionInv
<1>3. PartitionInv /\ [Next]_vars => PartitionInv'
  <2> SUFFICES ASSUME PartitionInv, [Next]_vars PROVE PartitionInv'
    OBVIOUS
  <2>1. GapInv'
    BY <1>1, GapInvStep DEF PartitionInv
  <2>2. CrossingsCurrent'
    BY <1>1, PeekStep DEF PartitionInv, GapInv, IngestInv, PeekInv
  <2>3. NoneHeld'
    BY NoneHeldStep DEF PartitionInv, GapInv, IngestInv
  <2>4. SeedsEmpty' /\ PendingKeyed' /\ Partitioned'
    BY <1>1, PartitionStep
  <2> QED BY <2>1, <2>2, <2>3, <2>4 DEF PartitionInv
<1>4. PartitionInv => CrossingsPartition
  <2> SUFFICES ASSUME PartitionInv, node = "up",
                      \A s \in Sessions : sess[s].pc \notin {"commit_gate", "commit_detection"},
                      NEW g \in GroupKey
               PROVE  Concat([i \in DOMAIN Recent |-> CrossedFor(g, Recent[i])]) \o pending[g]
                        = Concat([i \in DOMAIN Recent |-> StoredFor(g, Recent[i])])
    BY DEF CrossingsPartition
  <2>1. InCommit = {}
    BY DEF InCommit, Committing
  <2>2. PartAt(g, Recent, pending, {})
    BY <2>1 DEF PartitionInv, Partitioned, Parted
  <2>3. Settled(g, Recent, pending)
    BY <2>2 DEF PartAt
  <2> QED BY <2>3 DEF Settled, Crossed, Detected
<1> QED BY <1>2, <1>3, <1>4, PTL DEF Spec

=============================================================================
