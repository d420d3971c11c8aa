------------------------------ MODULE Crossing ------------------------------
(***************************************************************************)
(* The crossing engine of timing-core/src/domain/crossing_processor.rs as  *)
(* operators on its `pending` map: a total function on GroupKey whose      *)
(* value <<>> stands for an absent key.  Random crossing ids and the       *)
(* attestation fields copied from the peak are left out.                   *)
(***************************************************************************)
EXTENDS Events

CONSTANT Window    \* grouping_window_ns

ASSUME WindowAssumption == Window \in U64

GroupKey == TimingPoints \X Subjects

EmptyProcessor == [g \in GroupKey |-> <<>>]

groupKey(det) == <<det.timing_point, det.subject>>

(***************************************************************************)
(* pick_peak_index: the LAST detection of maximal RSSI (max_by_key), where *)
(* a detection without one counts as i16::MIN, when some detection has     *)
(* one; the FIRST detection of minimal timestamp (min_by_key) otherwise.   *)
(***************************************************************************)
rssiOf(det) == IF det.rssi = NoRssi THEN I16Min ELSE det.rssi

pick_peak_index(dets) ==
    IF \E i \in DOMAIN dets : dets[i].rssi # NoRssi
    THEN CHOOSE i \in DOMAIN dets :
            /\ \A j \in DOMAIN dets : rssiOf(dets[j]) <= rssiOf(dets[i])
            /\ \A j \in DOMAIN dets : j > i => rssiOf(dets[j]) < rssiOf(dets[i])
    ELSE CHOOSE i \in DOMAIN dets :
            /\ \A j \in DOMAIN dets : dets[j].t >= dets[i].t
            /\ \A j \in DOMAIN dets : j < i => dets[j].t > dets[i].t

\* last_at.saturating_sub(first_at)
span(dets) ==
    LET times == {dets[i].t : i \in DOMAIN dets}
    IN  (CHOOSE hi \in times : \A x \in times : x <= hi)
          - (CHOOSE lo \in times : \A x \in times : lo <= x)

crossedUncertainty(peakUnc, s) ==
    CASE peakUnc # NoUnc /\ s > 0 -> IF peakUnc > s THEN peakUnc ELSE s
      [] peakUnc # NoUnc /\ s = 0 -> peakUnc
      [] peakUnc = NoUnc /\ s > 0 -> s
      [] peakUnc = NoUnc /\ s = 0 -> NoUnc

\* PendingGroup::commit
commitGroup(dets) ==
    LET peak == dets[pick_peak_index(dets)]
    IN  [timing_point |-> dets[1].timing_point,
         subject      |-> dets[1].subject,
         crossed_at   |-> peak.t,
         unc          |-> crossedUncertainty(peak.unc, span(dets)),
         detections   |-> dets]

(***************************************************************************)
(* det.detected_at_ns.saturating_sub(first arrival) > grouping_window_ns,  *)
(* false when the key has no pending group.                                *)
(***************************************************************************)
outsideWindow(pending, det) ==
    /\ pending[groupKey(det)] # <<>>
    /\ det.t - pending[groupKey(det)][1].t > Window

(***************************************************************************)
(* The crossings det would emit: at once when anonymous, the group it      *)
(* closes when it falls outside that group's window, none otherwise.       *)
(***************************************************************************)
peek_detection(pending, det) ==
    IF det.subject = Anonymous THEN <<commitGroup(<<det>>)>>
    ELSE IF outsideWindow(pending, det)
         THEN <<commitGroup(pending[groupKey(det)])>>
         ELSE <<>>

\* Variant: a closed group is not removed from the map.
commitKeepsGroup(pending, det) ==
    IF det.subject = Anonymous THEN pending
    ELSE [pending EXCEPT ![groupKey(det)] = Append(@, det)]

(***************************************************************************)
(* The state commit_detection leaves; what it returns is computed exactly  *)
(* as in peek_detection, from the state it is called in.                   *)
(***************************************************************************)
commit_detection(pending, det) ==
    IF det.subject = Anonymous THEN pending
    ELSE [pending EXCEPT ![groupKey(det)] =
             IF outsideWindow(pending, det) THEN <<det>> ELSE Append(@, det)]

=============================================================================
