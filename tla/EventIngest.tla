---------------------------- MODULE EventIngest ----------------------------
(***************************************************************************)
(* EventIngestService (timing-core/src/services/event_ingest.rs), driven by *)
(* the session tasks of timing-node/src/ingest.rs, over an event log seen   *)
(* through its port, across crashes and restarts of the node.               *)
(*                                                                          *)
(* append_event takes the gate mutex, the processor mutex, the log mutex,   *)
(* the gate mutex and the processor mutex in that order and never two at    *)
(* once, so one call is five steps and the steps of different sessions      *)
(* interleave.  sess[s].pc names the next step of the task of session s.    *)
(*                                                                          *)
(* Producers are the environment: producer p delivers Plan[p] in order      *)
(* over a connection and, when it reconnects, resumes at any event (or at   *)
(* the first one if Rewind).  After the handshake the node acknowledges     *)
(* nothing, so a producer never learns what was stored.                     *)
(***************************************************************************)
EXTENDS SequenceGate, Crossing, FiniteSets

CONSTANTS
    Sessions,      \* session tasks that may be live at once
    Plan,          \* what each producer has to deliver: a sequence of events
    SharedIds,     \* may two live sessions carry the same producer_id?
    LateErrors,    \* may append fail after its records were stored?
    Retention,     \* may a roll inside append evict old entries?
    Rewind,        \* does a producer always resume at its first event?
    MaxFaults      \* bound on crashes, lost connections and failed appends

ASSUME PlanAssumption == Plan \in [Producers -> Seq(Event)]
ASSUME SwitchAssumption ==
    /\ SharedIds \in BOOLEAN /\ LateErrors \in BOOLEAN
    /\ Retention \in BOOLEAN /\ Rewind \in BOOLEAN
ASSUME MaxFaultsAssumption == MaxFaults \in Nat

VARIABLES
    node,        \* "seeding" while seed_from_log runs, then "up"
    seedPos,     \* next log position seed_from_log will look at
    log,         \* every record ever stored, the evicted ones included
    first,       \* position of the earliest retained record
    high_water,  \* the gate's map
    pending,     \* the crossing processor's map
    sess,        \* session tasks
    gaps,        \* sequence_gaps, per producer, since the node came up
    boot,        \* history: Len(log) when the node last came up
    faults       \* faults so far

vars == <<node, seedPos, log, first, high_water, pending, sess, gaps, boot, faults>>

Record ==
    [kind : {"Detection"}, producer : Producers, body : Detection] \cup
    [kind : {"Status"}, producer : Producers, body : Status] \cup
    [kind : {"Crossing"}, producer : Producers, body : CrossingBody]

SessionState ==
    [pc : {"closed", "next_event", "peek_detection", "append", "commit_gate",
           "commit_detection"},
     producer : Producers, next : Nat \ {0}, gap : BOOLEAN, crossings : Seq(CrossingBody)]

ClosedSession ==
    [pc |-> "closed", producer |-> CHOOSE p \in Producers : TRUE,
     next |-> 1, gap |-> FALSE, crossings |-> <<>>]

Live(s) == sess[s].pc # "closed"

\* The event the session holds, or will read next.
event(s) == Plan[sess[s].producer][sess[s].next]

IsDetection(r) == r.kind = "Detection"

detectionKey(p, det) == <<p, det.detector>>

(***************************************************************************)
(* Log records: an event, or a derived crossing.  append() stamps the      *)
(* producer of the batch on all of its records.                            *)
(***************************************************************************)
EventRecord(p, e) == [kind |-> e.kind, producer |-> p, body |-> e]

CrossingRecord(p, c) == [kind |-> "Crossing", producer |-> p, body |-> c]

\* [event, ...crossings]; a detection closes at most one group.
batch(s) ==
    LET p  == sess[s].producer
        cs == sess[s].crossings
    IN  <<EventRecord(p, event(s))>> \o [i \in 1..Len(cs) |-> CrossingRecord(p, cs[i])]

keyOf(r) == detectionKey(r.producer, r.body)

-----------------------------------------------------------------------------
Init ==
    /\ node = "up" /\ seedPos = 1
    /\ log = <<>> /\ first = 1
    /\ high_water = new
    /\ pending = EmptyProcessor
    /\ sess = [s \in Sessions |-> ClosedSession]
    /\ gaps = [p \in Producers |-> 0]
    /\ boot = 0 /\ faults = 0

(***************************************************************************)
(* A listener accepted and handshook a connection and spawned the session  *)
(* task.  Nothing in the node looks for another session of the producer.   *)
(***************************************************************************)
Connect(s, p, n) ==
    /\ node = "up"
    /\ sess[s].pc = "closed"
    /\ SharedIds \/ \A o \in Sessions : Live(o) => sess[o].producer # p
    /\ n \in 1..Len(Plan[p])
    /\ Rewind => n = 1
    /\ sess' = [sess EXCEPT ![s] = [ClosedSession EXCEPT !.pc = "next_event",
                                                          !.producer = p,
                                                          !.next = n]]
    /\ UNCHANGED <<node, seedPos, log, first, high_water, pending, gaps, boot, faults>>

HasNext(s) ==
    /\ sess[s].pc = "next_event"
    /\ sess[s].next <= Len(Plan[sess[s].producer])

\* Phase 1 for a non-Detection event: straight to the append.
ReceiveStatus(s) ==
    /\ HasNext(s)
    /\ ~IsDetection(event(s))
    /\ sess' = [sess EXCEPT ![s].pc = "append"]
    /\ UNCHANGED <<node, seedPos, log, first, high_water, pending, gaps, boot, faults>>

gateDecision(s) ==
    peek(high_water, detectionKey(sess[s].producer, event(s)), event(s).seq)

\* Phase 1, Duplicate: dropped, and the session stays open.
DropDuplicate(s) ==
    /\ HasNext(s)
    /\ IsDetection(event(s))
    /\ ~persist(gateDecision(s))
    /\ sess' = [sess EXCEPT ![s].next = @ + 1]
    /\ UNCHANGED <<node, seedPos, log, first, high_water, pending, gaps, boot, faults>>

\* Variant: check() instead of peek(): the gate moves before the append.
PeekGateEager(s) ==
    /\ HasNext(s)
    /\ IsDetection(event(s))
    /\ persist(gateDecision(s))
    /\ high_water' = commit(high_water, detectionKey(sess[s].producer, event(s)), event(s).seq)
    /\ sess' = [sess EXCEPT ![s].pc = "peek_detection",
                            ![s].gap = (gateDecision(s) = "Gap")]
    /\ UNCHANGED <<node, seedPos, log, first, pending, gaps, boot, faults>>

\* Variant: the gap is metered when it is seen, not when its event is stored.
PeekGateMeters(s) ==
    /\ HasNext(s)
    /\ IsDetection(event(s))
    /\ persist(gateDecision(s))
    /\ gaps' = IF gateDecision(s) = "Gap"
               THEN [gaps EXCEPT ![sess[s].producer] = @ + 1] ELSE gaps
    /\ sess' = [sess EXCEPT ![s].pc = "peek_detection"]
    /\ UNCHANGED <<node, seedPos, log, first, high_water, pending, boot, faults>>

\* Phase 1, Accept, Advance or Gap: the gate is not moved; a gap is remembered.
PeekGate(s) ==
    /\ HasNext(s)
    /\ IsDetection(event(s))
    /\ persist(gateDecision(s))
    /\ sess' = [sess EXCEPT ![s].pc = "peek_detection",
                            ![s].gap = (gateDecision(s) = "Gap")]
    /\ UNCHANGED <<node, seedPos, log, first, high_water, pending, gaps, boot, faults>>

\* Phase 2: the crossings the batch will carry.
PeekProcessor(s) ==
    /\ sess[s].pc = "peek_detection"
    /\ sess' = [sess EXCEPT ![s].pc = "append",
                            ![s].crossings = peek_detection(pending, event(s))]
    /\ UNCHANGED <<node, seedPos, log, first, high_water, pending, gaps, boot, faults>>

(***************************************************************************)
(* The batch is stored; if that fills the active segment, append also      *)
(* rolls it and enforces retention, which drops records from the front.    *)
(***************************************************************************)
Store(s) ==
    /\ log' = log \o batch(s)
    /\ IF Retention THEN first' \in first..(Len(log) + Len(batch(s)) + 1)
                    ELSE first' = first

\* append returned Ok.  A non-Detection event has no phase 3.
AppendOk(s) ==
    /\ sess[s].pc = "append"
    /\ Store(s)
    /\ IF IsDetection(event(s))
       THEN sess' = [sess EXCEPT ![s].pc = "commit_gate"]
       ELSE sess' = [sess EXCEPT ![s].pc = "next_event", ![s].next = @ + 1]
    /\ UNCHANGED <<node, seedPos, high_water, pending, gaps, boot, faults>>

Fault == faults < MaxFaults /\ faults' = faults + 1

\* Variant: a storage error is logged and the session reads on.
AppendErrContinues(s) ==
    /\ sess[s].pc = "append"
    /\ Fault
    /\ sess' = [sess EXCEPT ![s].pc = "next_event", ![s].next = @ + 1]
    /\ UNCHANGED <<node, seedPos, log, first, high_water, pending, gaps, boot>>

\* append returned Err and stored nothing: handle_session ends the session.
AppendErr(s) ==
    /\ sess[s].pc = "append"
    /\ Fault
    /\ sess' = [sess EXCEPT ![s] = ClosedSession]
    /\ UNCHANGED <<node, seedPos, log, first, high_water, pending, gaps, boot>>

\* append stored the batch and returned Err all the same (a failed roll).
AppendErrStored(s) ==
    /\ LateErrors
    /\ sess[s].pc = "append"
    /\ Fault
    /\ Store(s)
    /\ sess' = [sess EXCEPT ![s] = ClosedSession]
    /\ UNCHANGED <<node, seedPos, high_water, pending, gaps, boot>>

\* Phase 3, gate.commit.
CommitGate(s) ==
    /\ sess[s].pc = "commit_gate"
    /\ high_water' = commit(high_water, detectionKey(sess[s].producer, event(s)), event(s).seq)
    /\ sess' = [sess EXCEPT ![s].pc = "commit_detection"]
    /\ UNCHANGED <<node, seedPos, log, first, pending, gaps, boot, faults>>

\* Phase 3, processor.commit_detection (its result is discarded), then the
\* gap metric; the call returns Appended and the session reads on.
CommitProcessor(s) ==
    /\ sess[s].pc = "commit_detection"
    /\ pending' = commit_detection(pending, event(s))
    /\ gaps' = IF sess[s].gap THEN [gaps EXCEPT ![sess[s].producer] = @ + 1] ELSE gaps
    /\ sess' = [sess EXCEPT ![s].pc = "next_event", ![s].next = @ + 1,
                            ![s].gap = FALSE, ![s].crossings = <<>>]
    /\ UNCHANGED <<node, seedPos, log, first, high_water, boot, faults>>

\* next_event returned None or an error: the connection is gone.
Disconnect(s) ==
    /\ sess[s].pc = "next_event"
    /\ Fault
    /\ sess' = [sess EXCEPT ![s] = ClosedSession]
    /\ UNCHANGED <<node, seedPos, log, first, high_water, pending, gaps, boot>>

(***************************************************************************)
(* The process dies.  A batch that was being written leaves any prefix of  *)
(* its records behind (recovery keeps every whole record); the gate, the   *)
(* pending groups, the counters and the sessions are gone.                 *)
(***************************************************************************)
Crash ==
    /\ Fault
    /\ \/ log' = log
       \/ \E s \in Sessions :
             /\ sess[s].pc = "append"
             /\ \E n \in 1..Len(batch(s)) : log' = log \o SubSeq(batch(s), 1, n)
    /\ node' = "seeding" /\ seedPos' = first
    /\ high_water' = new
    /\ pending' = EmptyProcessor
    /\ sess' = [s \in Sessions |-> ClosedSession]
    /\ gaps' = [p \in Producers |-> 0]
    /\ UNCHANGED <<first, boot>>

\* Variant: seeding replays only what directly follows the mark.
SeedAdvanceOnly ==
    /\ node = "seeding"
    /\ seedPos <= Len(log)
    /\ high_water' = IF IsDetection(log[seedPos]) /\ log[seedPos].body.seq = high_water[keyOf(log[seedPos])] + 1
                     THEN commit(high_water, keyOf(log[seedPos]), log[seedPos].body.seq)
                     ELSE high_water
    /\ seedPos' = seedPos + 1
    /\ UNCHANGED <<node, log, first, pending, sess, gaps, boot, faults>>

\* One turn of the seed_from_log loop over the retained entries.
Seed ==
    /\ node = "seeding"
    /\ seedPos <= Len(log)
    /\ high_water' = IF IsDetection(log[seedPos])
                     THEN commit(high_water, keyOf(log[seedPos]), log[seedPos].body.seq)
                     ELSE high_water
    /\ seedPos' = seedPos + 1
    /\ UNCHANGED <<node, log, first, pending, sess, gaps, boot, faults>>

\* The composition root starts the listeners only after the seeding.
StartListeners ==
    /\ node = "seeding"
    /\ seedPos > Len(log)
    /\ node' = "up" /\ boot' = Len(log)
    /\ UNCHANGED <<seedPos, log, first, high_water, pending, sess, gaps, faults>>

SessionStep(s) ==
    \/ ReceiveStatus(s) \/ DropDuplicate(s) \/ PeekGate(s) \/ PeekProcessor(s)
    \/ AppendOk(s) \/ CommitGate(s) \/ CommitProcessor(s)

Next ==
    \/ \E s \in Sessions : \E p \in Producers : \E n \in 1..Len(Plan[p]) : Connect(s, p, n)
    \/ \E s \in Sessions : \/ SessionStep(s)
                           \/ AppendErr(s) \/ AppendErrStored(s) \/ Disconnect(s)
    \/ Crash \/ Seed \/ StartListeners

Spec == Init /\ [][Next]_vars

-----------------------------------------------------------------------------
TypeOK ==
    /\ node \in {"up", "seeding"}
    /\ seedPos \in Nat \ {0} /\ first \in Nat \ {0}
    /\ log \in Seq(Record)
    /\ high_water \in HighWater
    /\ pending \in [GroupKey -> Seq(Detection)]
    /\ sess \in [Sessions -> SessionState]
    /\ gaps \in [Producers -> Nat]
    /\ boot \in Nat /\ faults \in Nat

\* A task inside append_event holds an event of its producer's plan, and a
\* detection everywhere but at the append.
HoldsEvent ==
    \A s \in Sessions : sess[s].pc \notin {"closed", "next_event"} =>
        /\ sess[s].next <= Len(Plan[sess[s].producer])
        /\ sess[s].pc # "append" => IsDetection(event(s))

(***************************************************************************)
(* A mark of the gate always stands for a stored detection.  If it ran     *)
(* ahead of the log, the retry of an event whose append failed would be    *)
(* dropped as a duplicate and the event lost.                              *)
(***************************************************************************)
GateNeverAhead ==
    \A k \in GateKey : high_water[k] # NoMark =>
        \E i \in DOMAIN log : /\ IsDetection(log[i])
                              /\ keyOf(log[i]) = k
                              /\ log[i].body.seq = high_water[k]

Retained == first..Len(log)

(***************************************************************************)
(* While listeners run, every retained detection is covered by the mark of *)
(* its key, or its own append_event call has yet to commit the gate: what  *)
(* was stored, before or after a restart, is not accepted again.           *)
(***************************************************************************)
GateCoversLog ==
    node = "up" =>
        \A i \in Retained : IsDetection(log[i]) =>
            \/ log[i].body.seq <= high_water[keyOf(log[i])]
            \/ \E s \in Sessions : /\ sess[s].pc = "commit_gate"
                                   /\ log[i] = EventRecord(sess[s].producer, event(s))

(***************************************************************************)
(* Idempotent storage: among the retained records, the detections of one   *)
(* producer and detector have strictly increasing sequence numbers, so     *)
(* none is stored twice, whatever is re-sent, lost or crashes.             *)
(***************************************************************************)
RetainedOrdered ==
    \A i, j \in Retained :
        (/\ i < j /\ IsDetection(log[i]) /\ IsDetection(log[j])
         /\ keyOf(log[i]) = keyOf(log[j]))
            => log[i].body.seq < log[j].body.seq

(***************************************************************************)
(* The inductive strengthening of RetainedOrdered, for producers with one  *)
(* live session at a time and appends that fail cleanly: no session runs   *)
(* while the gate is being seeded; the part of the log seeded so far is    *)
(* covered; and a detection between its gate peek and its append is ahead  *)
(* of every retained detection of its key.                                 *)
(***************************************************************************)
Exclusive ==
    \A s, o \in Sessions :
        (Live(s) /\ Live(o) /\ sess[s].producer = sess[o].producer) => s = o

SeedingIdle == node = "seeding" => \A s \in Sessions : ~Live(s)

SeededSoFar ==
    node = "seeding" =>
        \A i \in Retained : (i < seedPos /\ IsDetection(log[i])) =>
            log[i].body.seq <= high_water[keyOf(log[i])]

FreshInFlight ==
    \A s \in Sessions :
        (sess[s].pc \in {"peek_detection", "append"} /\ IsDetection(event(s))) =>
            \A i \in Retained :
                (/\ IsDetection(log[i])
                 /\ keyOf(log[i]) = detectionKey(sess[s].producer, event(s)))
                    => log[i].body.seq < event(s).seq

IngestInv ==
    /\ TypeOK /\ HoldsEvent
    /\ Exclusive /\ SeedingIdle /\ SeededSoFar
    /\ GateCoversLog /\ FreshInFlight /\ RetainedOrdered

(***************************************************************************)
(* What a session has moved past is stored: no event that append_event     *)
(* reported Ok for, dropped duplicates included, is missing from the log.  *)
(* (Producers that resume at their first event; increasing sequences.)     *)
(***************************************************************************)
Stored(p, e) == \E i \in DOMAIN log : log[i] = EventRecord(p, e)

NothingSkipped ==
    \A s \in Sessions : Live(s) =>
        \A n \in 1..(sess[s].next - 1) : Stored(sess[s].producer, Plan[sess[s].producer][n])

(***************************************************************************)
(* Each true gap is metered exactly once: sequence_gaps of a producer is   *)
(* the number of detections stored since the node came up that skipped at  *)
(* least one number after an earlier one of their detector, except the     *)
(* ones whose append_event call has not reached the metric yet.  (Once     *)
(* entries are evicted, a restart may forget the number before a gap.)     *)
(***************************************************************************)
SkippedAt(i) ==
    LET before == {j \in 1..(i - 1) : IsDetection(log[j]) /\ keyOf(log[j]) = keyOf(log[i])}
    IN  before # {} /\ \A j \in before : log[j].body.seq + 1 < log[i].body.seq

GapsMeteredOnce ==
    node = "up" /\ first = 1 =>
        \A p \in Producers :
            gaps[p] + Cardinality({s \in Sessions : /\ sess[s].producer = p /\ sess[s].gap
                                                    /\ sess[s].pc \in {"commit_gate", "commit_detection"}})
              = Cardinality({i \in (boot + 1)..Len(log) :
                               IsDetection(log[i]) /\ log[i].producer = p /\ SkippedAt(i)})

(***************************************************************************)
(* When a call reaches commit_detection, the crossings its stored batch    *)
(* carries are the ones commit_detection is about to return and the call   *)
(* to discard: "in single-threaded use (this mutex guarantees that) the    *)
(* two calls return identical Vecs" (event_ingest.rs, phase 3).  The mutex *)
(* is free between the two calls, and a session of another producer may    *)
(* commit a detection of the same timing point and subject there.          *)
(***************************************************************************)
PeekMatchesCommit ==
    \A s \in Sessions :
        sess[s].pc = "commit_detection"
            => sess[s].crossings = peek_detection(pending, event(s))

(***************************************************************************)
(* Since the node came up, the detections of one timing point and subject  *)
(* are partitioned in storage order: the groups of its crossings, one      *)
(* after the other, then the pending group, are exactly the detections     *)
(* stored (once no call is between its append and its last commit).        *)
(***************************************************************************)
Recent == SubSeq(log, boot + 1, Len(log))

Concat(seqs) ==
    LET f[i \in 0..Len(seqs)] == IF i = 0 THEN <<>> ELSE f[i - 1] \o seqs[i]
    IN  f[Len(seqs)]

\* The detection, or the detections of the crossing, that record r holds of group g.
StoredFor(g, r) == IF IsDetection(r) /\ groupKey(r.body) = g THEN <<r.body>> ELSE <<>>
CrossedFor(g, r) ==
    IF r.kind = "Crossing" /\ groupKey(r.body) = g THEN r.body.detections ELSE <<>>

CrossingsPartition ==
    (/\ node = "up"
     /\ \A s \in Sessions : sess[s].pc \notin {"commit_gate", "commit_detection"}) =>
        \A g \in GroupKey :
            Concat([i \in DOMAIN Recent |-> CrossedFor(g, Recent[i])]) \o pending[g]
              = Concat([i \in DOMAIN Recent |-> StoredFor(g, Recent[i])])

(***************************************************************************)
(* No detection is stored twice, over the whole life of the log: the       *)
(* "no duplicates" half that sequence_gate.rs says the runtime enforces.   *)
(***************************************************************************)
NoDuplicates ==
    \A i, j \in DOMAIN log :
        (/\ i # j /\ IsDetection(log[i]) /\ IsDetection(log[j])
         /\ keyOf(log[i]) = keyOf(log[j]))
            => log[i].body.seq # log[j].body.seq

-----------------------------------------------------------------------------
(***************************************************************************)
(* Session tasks run until they block on the socket, the start-up code     *)
(* runs to completion, and a producer whose connection is gone reconnects. *)
(* The storage fails, connections break and the node crashes at most       *)
(* MaxFaults times.                                                        *)
(***************************************************************************)
Fairness ==
    /\ WF_vars(Seed) /\ WF_vars(StartListeners)
    /\ \A s \in Sessions : WF_vars(SessionStep(s))
    /\ \A p \in Producers :
         WF_vars(\E s \in Sessions : Connect(s, p, 1))

FairSpec == Spec /\ Fairness

\* A producer that re-sends from its first event gets all of its plan stored.
AllDelivered ==
    \A p \in Producers : \A n \in 1..Len(Plan[p]) : <>Stored(p, Plan[p][n])

=============================================================================
