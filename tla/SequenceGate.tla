---------------------------- MODULE SequenceGate ----------------------------
(***************************************************************************)
(* The per-(producer, detector) high-water gate of                         *)
(* timing-core/src/domain/sequence_gate.rs.  The HashMap is a total        *)
(* function on GateKey whose value NoMark stands for an absent key; the    *)
(* mutex makes each operator below one atomic step of its caller.          *)
(***************************************************************************)
EXTENDS Events

GateKey == Producers \X Detectors

\* "No entry in the map": smaller than every u64 sequence number.
NoMark == -1

HighWater == [GateKey -> U64 \cup {NoMark}]

new == [k \in GateKey |-> NoMark]

\* Variant: the mark itself is not treated as a duplicate.
peekOffByOne(high_water, k, seq) ==
    IF high_water[k] # NoMark /\ seq < high_water[k] THEN "Duplicate" ELSE "Accept"

(***************************************************************************)
(* What the gate would answer for sequence number seq under key k.  The    *)
(* addition hw + 1 is only reached with seq > hw, so it cannot overflow.   *)
(***************************************************************************)
peek(high_water, k, seq) ==
    CASE high_water[k] = NoMark     -> "Accept"
      [] high_water[k] # NoMark /\ seq <= high_water[k]     -> "Duplicate"
      [] high_water[k] # NoMark /\ seq = high_water[k] + 1  -> "Advance"
      [] high_water[k] # NoMark /\ seq > high_water[k] + 1  -> "Gap"

\* GateDecision::persist
persist(decision) == decision # "Duplicate"

\* Variant: the map keeps the number that is expected next.
commitNext(high_water, k, seq) ==
    IF seq > high_water[k] THEN [high_water EXCEPT ![k] = seq + 1] ELSE high_water

(***************************************************************************)
(* Advance the mark, never lower it.                                       *)
(***************************************************************************)
commit(high_water, k, seq) ==
    IF seq > high_water[k] THEN [high_water EXCEPT ![k] = seq] ELSE high_water

=============================================================================
