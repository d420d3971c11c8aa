--------------------------- MODULE MCEventIngest ---------------------------
(***************************************************************************)
(* Small instances of EventIngest for TLC: two producers, one detector     *)
(* each, two timing points and one subject.  Window is 1.                  *)
(***************************************************************************)
EXTENDS EventIngest, TLC

CONSTANTS p1, p2, d1, d2, tpA, tpB, rider

D(d, q, tp, sub, time) ==
    [kind |-> "Detection", detector |-> d, seq |-> q, timing_point |-> tp,
     subject |-> sub, t |-> time, rssi |-> NoRssi, unc |-> NoUnc]

S == [kind |-> "Status"]

\* p1 opens a group, closes it with a gap in its sequence; p2 uses another
\* timing point, and passes one anonymous detection.
PlanApart ==
    (p1 :> <<D(d1, 0, tpA, rider, 0), S, D(d1, 2, tpA, rider, 2)>>) @@
    (p2 :> <<D(d2, 0, tpB, rider, 0), D(d2, 1, tpB, Anonymous, 1)>>)

\* p1 alone, three detections that close two groups, a gap at the end.
PlanSolo ==
    (p1 :> <<D(d1, 0, tpA, rider, 0), D(d1, 1, tpA, rider, 2), D(d1, 4, tpA, rider, 4)>>)

\* Two producers watch the same timing point and see the same rider.
PlanTogether ==
    (p1 :> <<D(d1, 0, tpA, rider, 0), D(d1, 1, tpA, rider, 4)>>) @@
    (p2 :> <<D(d2, 0, tpA, rider, 4)>>)
=============================================================================
