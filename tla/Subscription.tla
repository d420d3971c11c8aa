---------------------------- MODULE Subscription ----------------------------
(***************************************************************************)
(* A live subscription, adapter-event-log-segment/src/subscription.rs,     *)
(* beside the segment log it reads.  next_entry opens and reads the files  *)
(* without the log's mutex, so each of its file operations is a step that  *)
(* interleaves with the steps of append, roll and retention.               *)
(*                                                                         *)
(* sub.base is the segment of current_file (or the one being opened), None *)
(* when there is none; sub.pos is the slot at the byte position.  An open  *)
(* file outlives its removal from the directory: unlinked keeps it.        *)
(***************************************************************************)
EXTENDS SegmentLog

CONSTANT Froms    \* offsets a subscription may start at

ASSUME SubAssumption ==
    Froms \subseteq Nat /\ None \notin {"Expired", "FullyEvicted", "Corrupted"}

VARIABLES
    sub,          \* the SegmentLogSubscription
    notified,     \* has notify_waiters run since the Notified was created?
    unlinked,     \* slots of the segments retention has removed
    delivered     \* history: the entries next_entry returned

subVars == <<sub, notified, unlinked, delivered>>
allVars == <<vars, subVars>>

NoSub == [pc |-> "none", from |-> 0, next |-> 0, base |-> None, pos |-> 1, is_active |-> FALSE,
          out |-> None]

SubInit ==
    /\ Init
    /\ sub = NoSub /\ notified = FALSE /\ unlinked = [b \in {} |-> <<>>] /\ delivered = <<>>

-----------------------------------------------------------------------------
\* The log's steps, with what they do to a subscription.

\* Variant: only a subscription that awaits by now is woken, as if next_entry
\* created its Notified after the read.
NotifyAwaiting ==
    CommitBatch /\ notified' = (sub.pc = "wait") /\ UNCHANGED <<sub, unlinked, delivered>>

Notify == CommitBatch /\ notified' = TRUE /\ UNCHANGED <<sub, unlinked, delivered>>

Unlink ==
    /\ delete_segment
    /\ unlinked' = Assign(unlinked, Head(closed).base, segs[Head(closed).base].slots)
    /\ UNCHANGED <<sub, notified, delivered>>

Die ==
    /\ Crash
    /\ sub' = NoSub /\ notified' = FALSE /\ unlinked' = [b \in {} |-> <<>>] /\ delivered' = <<>>

LogStep == Notify \/ Unlink \/ Die \/ (QuietStep /\ UNCHANGED subVars)

-----------------------------------------------------------------------------
\* EventLog::subscribe, under the log's mutex: no append is in progress.
subscribe(from) ==
    /\ At("idle")
    /\ sub.pc = "none"
    /\ from < next_offset => ~is_fully_evicted /\ from >= earliest_offset
    /\ sub' = [NoSub EXCEPT !.pc = "arm", !.from = from, !.next = from]
    /\ UNCHANGED <<vars, notified, unlinked, delivered>>

SubAt(pc) == up /\ sub.pc = pc
Quietly == UNCHANGED <<vars, notified, unlinked, delivered>>

\* next_entry returns an error.  RetentionExpired is "Expired" when it names the
\* earliest available offset and "FullyEvicted" when it says there is none.
Fail(e) == sub' = [sub EXCEPT !.pc = "closed", !.base = None, !.out = e]

\* open_to_offset returned Ok(None).
NoDataYet == sub' = [sub EXCEPT !.pc = "wait", !.base = None]

\* The top of next_entry's loop: create the Notified, then look at the files.
Arm ==
    /\ SubAt("arm")
    /\ notified' = FALSE
    /\ sub' = [sub EXCEPT !.pc = IF sub.base = None THEN "scan" ELSE "read"]
    /\ UNCHANGED <<vars, unlinked, delivered>>

\* Segments that may hold the offset: scan_segments picks the highest one.
candidates(offset) == {b \in DOMAIN segs : b <= offset}

scan_segments ==
    /\ SubAt("scan")
    /\ IF candidates(sub.next) # {}
       THEN sub' = [sub EXCEPT !.pc = "open", !.base = Highest(candidates(sub.next))]
       ELSE IF DOMAIN segs # {} THEN Fail("Expired")
       ELSE sub' = [sub EXCEPT !.pc = "read_watermark"]
    /\ Quietly

\* No segment at all: a log that was never written, or one evicted completely.
read_watermark ==
    /\ SubAt("read_watermark")
    /\ IF watermark # None /\ watermark > sub.next THEN Fail("FullyEvicted") ELSE NoDataYet
    /\ Quietly

OpenSegment ==
    /\ SubAt("open")
    /\ sub' = [sub EXCEPT !.pc = IF sub.base \in DOMAIN segs THEN "metadata" ELSE "rescan"]
    /\ Quietly

\* Variant: a file that is gone means that the data is yet to come.
RescanWaits ==
    /\ SubAt("rescan")
    /\ NoDataYet
    /\ Quietly

\* A file was gone: expired if later segments exist and none that covers next.
Rescan ==
    /\ SubAt("rescan")
    /\ IF candidates(sub.next) = {} /\ DOMAIN segs # {} THEN Fail("Expired") ELSE NoDataYet
    /\ Quietly

Metadata ==
    /\ SubAt("metadata")
    /\ IF sub.base \in DOMAIN idx
       THEN sub' = [sub EXCEPT !.pc = "read_index", !.is_active = FALSE]
       ELSE sub' = [sub EXCEPT !.pc = "seek", !.is_active = TRUE, !.pos = 1]
    /\ Quietly

read_index ==
    /\ SubAt("read_index")
    /\ IF sub.base \notin DOMAIN idx THEN sub' = [sub EXCEPT !.pc = "rescan"]
       ELSE IF sub.next - sub.base >= idx[sub.base] THEN NoDataYet
       ELSE sub' = [sub EXCEPT !.pc = "read", !.pos = sub.next - sub.base + 1]
    /\ Quietly

slots == IF sub.base \in DOMAIN segs THEN segs[sub.base].slots ELSE unlinked[sub.base]

AtEof == sub.pos > Len(slots)
AtSentinel == ~AtEof /\ slots[sub.pos] = Sentinel

\* The linear scan of an active segment, one record per step.
SeekRecord ==
    /\ SubAt("seek")
    /\ IF sub.base + sub.pos - 1 = sub.next \/ AtEof THEN sub' = [sub EXCEPT !.pc = "read"]
       ELSE IF AtSentinel THEN NoDataYet
       ELSE sub' = [sub EXCEPT !.pos = @ + 1]
    /\ Quietly

\* Variant: the offset of the record is not looked at.
DeliverUnchecked ==
    /\ SubAt("read")
    /\ ~AtEof /\ ~AtSentinel
    /\ sub' = [sub EXCEPT !.pc = "arm", !.pos = @ + 1, !.next = @ + 1]
    /\ delivered' = Append(delivered, slots[sub.pos])
    /\ UNCHANGED <<vars, notified, unlinked>>

(***************************************************************************)
(* read_record at the current position.  Records in front of next (left    *)
(* over from a scan that met the end of the file) are skipped.             *)
(***************************************************************************)
DeliverNext ==
    /\ SubAt("read")
    /\ ~AtEof /\ ~AtSentinel
    /\ LET r == slots[sub.pos] IN
         IF r.off < sub.next /\ sub.is_active
         THEN sub' = [sub EXCEPT !.pc = "arm", !.pos = @ + 1] /\ delivered' = delivered
         ELSE IF r.off # sub.next
         THEN Fail("Corrupted") /\ delivered' = delivered
         ELSE /\ sub' = [sub EXCEPT !.pc = "arm", !.pos = @ + 1, !.next = @ + 1]
              /\ delivered' = Append(delivered, r)
    /\ UNCHANGED <<vars, notified, unlinked>>

\* The live tail: keep the file and the position, and wait.
ReadEof ==
    /\ SubAt("read")
    /\ AtEof
    /\ IF sub.is_active THEN sub' = [sub EXCEPT !.pc = "wait"] ELSE Fail("Corrupted")
    /\ Quietly

(***************************************************************************)
(* The bytes at the position are no record: the append whose record was    *)
(* read last failed, and another one of a different length replaced it.    *)
(***************************************************************************)
ReadGarbage ==
    /\ SubAt("read")
    /\ ~AtEof /\ delivered # <<>> /\ sub.pos > 1
    /\ slots[sub.pos - 1] # delivered[Len(delivered)]
    /\ slots[sub.pos - 1].off = sub.next - 1
    /\ Fail("Corrupted")
    /\ Quietly

\* The sentinel: the next segment starts at next, if it is there yet.
ReadSentinel ==
    /\ SubAt("read")
    /\ AtSentinel
    /\ sub' = [sub EXCEPT !.pc = "next_segment"]
    /\ Quietly

NextSegment ==
    /\ SubAt("next_segment")
    /\ IF sub.next \in DOMAIN segs
       THEN sub' = [sub EXCEPT !.pc = "next_metadata", !.base = sub.next]
       ELSE sub' = [sub EXCEPT !.pc = "arm", !.base = None]
    /\ Quietly

NextMetadata ==
    /\ SubAt("next_metadata")
    /\ sub' = [sub EXCEPT !.pc = "arm", !.pos = 1, !.is_active = (sub.base \notin DOMAIN idx)]
    /\ Quietly

\* notified.await
Wake ==
    /\ SubAt("wait")
    /\ notified
    /\ sub' = [sub EXCEPT !.pc = "arm"]
    /\ Quietly

\* The consumer closes the subscription between two next_entry calls.
close ==
    /\ SubAt("arm")
    /\ sub' = [sub EXCEPT !.pc = "closed", !.base = None]
    /\ Quietly

SubStep ==
    \/ Arm \/ scan_segments \/ read_watermark \/ OpenSegment \/ Rescan \/ Metadata \/ read_index
    \/ SeekRecord \/ DeliverNext \/ ReadEof \/ ReadGarbage \/ ReadSentinel
    \/ NextSegment \/ NextMetadata \/ Wake

SubNext == LogStep \/ SubStep \/ close \/ \E from \in Froms : subscribe(from)

(***************************************************************************)
(* A consumer polls its subscription until it ends, and a call of append   *)
(* runs on: tokio runs what is ready.                                      *)
(***************************************************************************)
SubSpec ==
    /\ SubInit /\ [][SubNext]_allVars
    /\ WF_allVars(SubStep)
    /\ WF_allVars(Notify \/ (Progress /\ UNCHANGED subVars))

-----------------------------------------------------------------------------
Live == up /\ sub.pc \notin {"none", "closed"}

\* Did some append fail or get lost, so that what it wrote may be replaced?
SomeFailed == \E id \in Batches : result[id] \in {"Err", "Lost"}

(***************************************************************************)
(* "Entries are delivered in ascending offset order without gaps"          *)
(* (event_log.rs), across rolls, evictions and reopened files: the i-th    *)
(* entry is the one the log stores at offset from + i - 1.  The exception  *)
(* the code makes: an entry read off the file before its append reached    *)
(* the commit point, which that append may still fail to reach.  (After an *)
(* append went around left-overs the bytes a reader meets in the file are  *)
(* no longer the model's.)                                                 *)
(***************************************************************************)
Uncommitted(id) ==
    \/ result[id] \in {"Err", "Lost"}
    \/ call.id = id /\ call.pc \in {"write_record", "sync", "commit"}

DeliveredExact ==
    strayed \/ \A i \in DOMAIN delivered :
        LET o == sub.from + i - 1 IN
            /\ delivered[i].off = o
            /\ Uncommitted(delivered[i].id) \/ (o < Len(stored) /\ stored[o + 1] = delivered[i])

(***************************************************************************)
(* What the code keeps of a terminal error's promise: an offset that is    *)
(* expired with later ones available has been evicted, one that is expired *)
(* with nothing available was stored at least (ExpiredIsEvicted asks       *)
(* more), and no race with a roll or with retention is taken for           *)
(* corruption.                                                             *)
(***************************************************************************)
ErrorsJustified ==
    \/ strayed
    \/ /\ sub.out = "Expired" => sub.next < Len(evicted)
       /\ sub.out = "FullyEvicted" => sub.next < Len(stored)
       /\ sub.out = "Corrupted" => SomeFailed

(***************************************************************************)
(* "If retention advances past the next undelivered offset while the       *)
(* subscription is running, `next_entry` returns [...] RetentionExpired"   *)
(* (event_log.rs, next_entry): that is when it is returned, so the offset  *)
(* of such an answer has been evicted.  Not kept when a segment is written *)
(* and rolled between the scan and the look at the watermark.              *)
(***************************************************************************)
ExpiredIsEvicted ==
    sub.out \in {"Expired", "FullyEvicted"} => sub.next < Len(evicted)

(***************************************************************************)
(* No wake-up is lost: a subscription behind the tail gets the next entry, *)
(* unless the entry is evicted first (or failed appends garbled the file). *)
(***************************************************************************)
GetsNext ==
    \A o \in 0..MaxAppends :
        (Live /\ sub.next = o /\ o < next_offset)
            ~> (~Live \/ sub.next # o \/ o < Len(evicted) \/ SomeFailed)

(***************************************************************************)
(* "If retention advances past the next undelivered offset while the       *)
(* subscription is running, `next_entry` returns [...] RetentionExpired"   *)
(* (event_log.rs, next_entry); "do not blindly wait for the next append"   *)
(* (subscription.rs, open_to_offset): while there are retained entries, a  *)
(* subscription does not stay at an evicted offset, whichever file was     *)
(* removed under it.  With nothing retained the code may have it wait: the *)
(* rescan that finds no segment does not look at the watermark.            *)
(***************************************************************************)
EvictedIsTold ==
    \A o \in 0..MaxAppends :
        (Live /\ sub.next = o /\ o < Len(evicted))
            ~> (~(Live /\ sub.next = o) \/ Len(evicted) = Len(stored))

=============================================================================
