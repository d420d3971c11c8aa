------------------------------ MODULE EventLog ------------------------------
(***************************************************************************)
(* What the EventLog port (timing-core/src/ports/outbound/event_log.rs)    *)
(* promises of a storage backend: an append-only sequence of entries whose *)
(* offsets are their positions, grown by whole batches and evicted from    *)
(* the front only.                                                         *)
(***************************************************************************)
EXTENDS Naturals, Sequences

CONSTANTS Batches,    \* identities of append calls
          Sizes       \* numbers of events a call may carry

VARIABLES entries,    \* every entry ever committed, the evicted ones included
          earliest    \* offset of the earliest retained entry

Entry == [off : Nat, id : Batches, k : Nat \ {0}]

Committed(id) == \E i \in DOMAIN entries : entries[i].id = id

LogInit == entries = <<>> /\ earliest = 0

(***************************************************************************)
(* "either all events in the slice are committed with consecutive          *)
(* monotonically increasing offsets, or none are": the k-th event of the   *)
(* batch gets the k-th offset after the tail.                              *)
(***************************************************************************)
AppendBatch(id, n) ==
    /\ ~Committed(id)
    /\ entries' = entries \o [k \in 1..n |-> [off |-> Len(entries) + k - 1, id |-> id, k |-> k]]
    /\ UNCHANGED earliest

\* Retention removes a non-empty prefix of what is retained.
Evict ==
    /\ earliest' \in (earliest + 1)..Len(entries)
    /\ UNCHANGED entries

LogNext == (\E id \in Batches, n \in Sizes : AppendBatch(id, n)) \/ Evict

(***************************************************************************)
(* What a backend that recovers its files after a crash adds to that:      *)
(* records of calls that were never committed, each at the next offset.    *)
(***************************************************************************)
Salvage ==
    /\ Len(entries) <= Len(entries') /\ SubSeq(entries', 1, Len(entries)) = entries
    /\ \A i \in (Len(entries) + 1)..Len(entries') :
         entries'[i] \in Entry /\ entries'[i].off = i - 1 /\ ~Committed(entries'[i].id)
    /\ UNCHANGED earliest

LogSpec == LogInit /\ [][LogNext]_<<entries, earliest>>

=============================================================================
