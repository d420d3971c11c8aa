------------------------------- MODULE Events -------------------------------
(***************************************************************************)
(* The events of event-model/src/, cut down to the fields the runtime      *)
(* decides on.  A Detection's identity is all of its fields: a re-sent one *)
(* is the same record.                                                     *)
(***************************************************************************)
EXTENDS Integers, Sequences

CONSTANTS Producers, Detectors, TimingPoints, Subjects,
          Anonymous,    \* subject_id = None
          NoRssi,       \* not a LoopTransponder, or rssi_dbm = None
          NoUnc,        \* detected_at_uncertainty_ns = None
          U64Max        \* u64::MAX; small in the instances TLC runs

ASSUME ProducersAssumption == Producers # {}
ASSUME AnonymousAssumption == Anonymous \notin Subjects
ASSUME U64Assumption == U64Max \in Nat
ASSUME NoUncAssumption == NoUnc \notin 0..U64Max

U64 == 0..U64Max
I16Min == 0 - 32768
I16Max == 32767
I16 == I16Min..I16Max

Detection ==
    [kind : {"Detection"}, detector : Detectors, seq : U64,
     timing_point : TimingPoints, subject : Subjects \cup {Anonymous},
     t : U64, rssi : I16 \cup {NoRssi}, unc : U64 \cup {NoUnc}]

\* DetectorHealth, TimebaseStatus and AdapterMetadata: not gated, not grouped.
Status == [kind : {"Status"}]

\* What a producer sends (a producer-sent Crossing is a Status here as well).
Event == Detection \cup Status

\* A derived crossing keeps the detections it was made from.
CrossingBody ==
    [timing_point : TimingPoints, subject : Subjects \cup {Anonymous},
     crossed_at : U64, unc : U64 \cup {NoUnc}, detections : Seq(Detection)]

=============================================================================
