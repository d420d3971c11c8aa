----------------------------- MODULE SegmentLog -----------------------------
(***************************************************************************)
(* The segment-file event log, adapter-event-log-segment/src/log.rs over   *)
(* segment.rs, one step per I/O operation of append(), roll_segment() and  *)
(* enforce_retention(), with I/O errors, crashes and reopening.            *)
(*                                                                         *)
(* A .seg file is its sequence of slots: slot i holds the record whose     *)
(* position is the i-th of the offset index, or the zero sentinel.  Bytes  *)
(* that parse as no record are the end of the file: recover_active and     *)
(* read_record stop there.  A write in front of left-over slots either     *)
(* keeps them (records of equal length) or turns them into such bytes.     *)
(* `debris' says that left-overs may lie behind the active records, also   *)
(* as such bytes; `astray' holds the ones an append went around, which a   *)
(* scan of the file runs into and a read by position does not.             *)
(*                                                                         *)
(* Time and byte counts are abstracted: a segment MUST roll at MaxRecords, *)
(* MAY roll earlier (age), and retention MAY evict any number of closed    *)
(* segments from the front, which covers all four retention policies.      *)
(***************************************************************************)
EXTENDS Integers, Sequences, FiniteSets, SequencesExt

CONSTANTS
    MaxAppends,    \* bound on append calls
    Sizes,         \* events per call
    MaxRecords,    \* max_segment_bytes, in records
    Evicting,      \* is a retention policy other than Indefinite configured?
    Cancels,       \* may the task inside append be aborted at an await?
    MaxFaults,     \* bound on I/O errors, aborts and crashes
    None           \* Option::None

Batches == 1..MaxAppends

\* ActiveSegment: its base offset, the records its index has, and whether it
\* is due for its age.
ActiveSegment == [base : Nat, n : Nat, due : BOOLEAN]

\* append() refuses an empty batch before it touches the log.
ASSUME LogAssumption ==
    /\ MaxAppends \in Nat /\ MaxRecords \in Nat /\ MaxFaults \in Nat
    /\ Sizes \subseteq Nat \ {0}
    /\ None \notin Nat /\ None \notin ActiveSegment
    /\ None \notin {"Ok", "Err", "LateErr", "Lost"}

VARIABLES
    segs,          \* .seg files by base offset
    idx,           \* .idx files by base offset: the number of positions
    watermark,     \* the WATERMARK file, or None
    up,            \* is the log open?
    closed, active, next_offset, poisoned,    \* the SegmentLog struct
    call,          \* the append call in progress
    calls,         \* append calls so far
    debris,        \* may bytes of a failed append lie behind the active records?
    astray,        \* left-overs an append went around in the active file, or None
    result,        \* history: what each call returned
    strayed,       \* history: has an append gone around left-overs?
    evicted,       \* history: records removed by retention, in offset order
    faults         \* faults so far

disk == <<segs, idx, watermark>>
memory == <<closed, active, next_offset, poisoned>>
tail == <<debris, astray, strayed>>
history == <<calls, result, evicted>>
vars == <<disk, up, memory, tail, call, history, faults>>

\* payload_len = 0: no record has it.
Sentinel == [off |-> 0, id |-> 0, k |-> 0]
Idle == [pc |-> "idle", id |-> 0, size |-> 0, written |-> 0]

PCs == {"idle", "ensure_active", "write_record", "sync", "commit", "roll_sync", "sentinel",
        "sync_sentinel", "write_index", "close", "watermark", "retention"}

Assign(f, k, v) == [x \in DOMAIN f \cup {k} |-> IF x = k THEN v ELSE f[x]]
Without(f, k) == [x \in DOMAIN f \ {k} |-> f[x]]

-----------------------------------------------------------------------------
\* What open() makes of the directory.

\* recover_active: the records before the first slot that is not the next one.
recovered(base) ==
    LET slots == segs[base].slots
        good(n) == \A i \in 1..n : slots[i] # Sentinel /\ slots[i].off = base + i - 1
    IN  CHOOSE n \in 0..Len(slots) : good(n) /\ (n < Len(slots) => ~good(n + 1))

Unindexed == DOMAIN segs \ DOMAIN idx
Indexed == DOMAIN segs \cap DOMAIN idx
Highest(S) == CHOOSE b \in S : \A o \in S : o <= b

\* open() returns StorageError::Corrupted: an index that does not fit its
\* segment, or records in an unindexed segment that is not the highest one.
Corrupted ==
    \/ \E b \in Indexed :
         \/ idx[b] > Len(segs[b].slots)
         \/ segs[b].slots[idx[b]] = Sentinel
         \/ segs[b].slots[idx[b]].off # b + idx[b] - 1
    \/ \E b \in Unindexed : b # Highest(Unindexed) /\ recovered(b) > 0

recordsIn(base) == IF base \in DOMAIN idx THEN idx[base] ELSE recovered(base)

recoveredNext ==
    IF DOMAIN segs # {}
    THEN Highest(DOMAIN segs) + recordsIn(Highest(DOMAIN segs))
    ELSE IF watermark # None THEN watermark ELSE 0

\* seg_bases.sort_unstable(): the bases in ascending order.
ascending(S) ==
    CHOOSE s \in [1..Cardinality(S) -> S] :
        /\ \A b \in S : \E i \in DOMAIN s : s[i] = b
        /\ \A i, j \in DOMAIN s : i < j => s[i] < s[j]

Closed(base, n) == [base |-> base, last |-> base + n - 1]

recoveredClosed ==
    LET bases == ascending(Indexed) IN [i \in DOMAIN bases |-> Closed(bases[i], idx[bases[i]])]

-----------------------------------------------------------------------------
Init ==
    /\ segs = [b \in {} |-> 0] /\ idx = [b \in {} |-> 0] /\ watermark = None
    /\ up = FALSE
    /\ closed = <<>> /\ active = None /\ next_offset = 0 /\ poisoned = FALSE
    /\ debris = FALSE /\ astray = None /\ strayed = FALSE
    /\ call = Idle
    /\ calls = 0 /\ result = [id \in Batches |-> None] /\ evicted = <<>>
    /\ faults = 0

(***************************************************************************)
(* SegmentLog::open.  Its own writes (truncation to the recovered records, *)
(* removal of empty orphans) are repeated by the next open if it dies.     *)
(***************************************************************************)
Open ==
    /\ ~up /\ ~Corrupted
    /\ up' = TRUE
    /\ closed' = recoveredClosed
    /\ next_offset' = recoveredNext
    /\ poisoned' = FALSE
    /\ IF Unindexed = {}
       THEN active' = None /\ segs' = segs
       ELSE LET a == Highest(Unindexed)
                n == recovered(a)
            IN  /\ active' = [base |-> a, n |-> n, due |-> FALSE]
                /\ segs' = [b \in Indexed \cup {a} |->
                              IF b = a THEN [slots |-> SubSeq(segs[a].slots, 1, n), synced |-> n]
                              ELSE segs[b]]
    /\ UNCHANGED <<idx, watermark, call, history, faults, tail>>

-----------------------------------------------------------------------------
At(pc) == up /\ call.pc = pc
Goto(pc) == call' = [call EXCEPT !.pc = pc]

\* The call returns r.
Return(r) ==
    /\ call' = Idle
    /\ result' = [result EXCEPT ![call.id] = r]

Fault == faults < MaxFaults /\ faults' = faults + 1

\* append() on an open log.  A poisoned log rejects the call.
AppendCall(size) ==
    /\ At("idle")
    /\ calls < MaxAppends
    /\ calls' = calls + 1
    /\ IF poisoned
       THEN call' = call /\ result' = [result EXCEPT ![calls'] = "Err"]
       ELSE /\ call' = [pc |-> IF active = None THEN "ensure_active" ELSE "write_record",
                        id |-> calls', size |-> size, written |-> 0]
            /\ result' = result
    /\ UNCHANGED <<disk, up, memory, evicted, faults, tail>>

\* Create the segment file, truncating what may be there, and its header.
ensure_active ==
    /\ At("ensure_active")
    /\ segs' = Assign(segs, next_offset, [slots |-> <<>>, synced |-> 0])
    /\ active' = [base |-> next_offset, n |-> 0, due |-> FALSE]
    /\ Goto("write_record")
    /\ UNCHANGED <<idx, watermark, up, closed, next_offset, poisoned, history, faults, tail>>

\* The open or the header write fails; the file may exist by then.
EnsureActiveErr ==
    /\ At("ensure_active")
    /\ Fault
    /\ \/ segs' = segs
       \/ segs' = Assign(segs, next_offset, [slots |-> <<>>, synced |-> 0])
    /\ Return("Err")
    /\ UNCHANGED <<idx, watermark, up, memory, calls, evicted, tail>>

file == segs[active.base]
SetSlots(s) == segs' = [segs EXCEPT ![active.base].slots = s,
                                    ![active.base].synced = IF @ < Len(s) THEN @ ELSE Len(s)]

\* set_len(batch_start_file_pos)
truncated == SubSeq(file.slots, 1, active.n)

\* segment::write_record of the next event, at its place after the batch start.
write_record ==
    /\ At("write_record")
    /\ call.written < call.size
    /\ LET i   == active.n + call.written + 1
           rec == [off |-> next_offset + call.written, id |-> call.id, k |-> call.written + 1]
           put == SubSeq(file.slots, 1, i - 1) \o <<rec>>
       IN  \/ SetSlots(put)
           \/ i < Len(file.slots) /\ SetSlots(put \o SubSeq(file.slots, i + 1, Len(file.slots)))
    /\ call' = [call EXCEPT !.written = @ + 1,
                            !.pc = IF call.written + 1 < call.size THEN "write_record" ELSE "sync"]
    /\ UNCHANGED <<idx, watermark, up, memory, history, faults, tail>>

\* Variant: the index is extended event by event, and keeps what was written.
WriteErrKeeps ==
    /\ At("write_record")
    /\ Fault
    /\ SetSlots(SubSeq(file.slots, 1, active.n + call.written)) /\ debris' = FALSE
    /\ active' = [active EXCEPT !.n = @ + call.written]
    /\ next_offset' = next_offset + call.written
    /\ Return("Err")
    /\ UNCHANGED <<idx, watermark, up, closed, poisoned, astray, strayed, calls, evicted>>

(***************************************************************************)
(* A write fails.  The file is cut back to the batch start; the errors of  *)
(* the truncations are ignored, so what was written may also stay.         *)
(***************************************************************************)
WriteErr ==
    /\ At("write_record")
    /\ Fault
    /\ \/ SetSlots(truncated) /\ debris' = FALSE
       \/ SetSlots(SubSeq(file.slots, 1, active.n + call.written)) /\ debris' = TRUE
       \/ segs' = segs /\ debris' = TRUE
    /\ Return("Err")
    /\ UNCHANGED <<idx, watermark, up, memory, astray, strayed, calls, evicted>>

\* Variant: the batch is committed without the fsync.
SyncSkipped ==
    /\ At("sync")
    /\ Goto("commit")
    /\ UNCHANGED <<disk, up, memory, history, faults, tail>>

\* The fsync per append of the default flush_interval_ms = 0.
sync_all ==
    /\ At("sync")
    /\ segs' = [segs EXCEPT ![active.base].synced = Len(file.slots)]
    /\ Goto("commit")
    /\ UNCHANGED <<idx, watermark, up, memory, history, faults, tail>>

SyncErr ==
    /\ At("sync")
    /\ Fault
    /\ \/ SetSlots(truncated) /\ debris' = FALSE
       \/ segs' = segs /\ debris' = TRUE
    /\ Return("Err")
    /\ UNCHANGED <<idx, watermark, up, memory, astray, strayed, calls, evicted>>

\* Both position queries fail after the write: the log is poisoned.
PositionErr ==
    /\ At("commit")
    /\ Fault
    /\ poisoned' = TRUE
    /\ Return("Err")
    /\ UNCHANGED <<disk, up, closed, active, next_offset, calls, evicted, tail>>

(***************************************************************************)
(* stream_position failed and seek(End(0)) answers.  What a failed append  *)
(* left behind the batch is then in front of the next records: reads find  *)
(* these by their positions, a scan of the file does not get to them.      *)
(***************************************************************************)
batchEnd == active.n + call.size

EndPosition ==
    /\ Fault
    /\ \/ Len(file.slots) = batchEnd /\ UNCHANGED <<segs, tail>>
       \/ /\ debris
          /\ SetSlots(SubSeq(file.slots, 1, batchEnd))
          /\ debris' = FALSE
          /\ astray' = IF astray # None THEN astray
                       ELSE [at |-> batchEnd, junk |-> SubSeq(file.slots, batchEnd + 1, Len(file.slots))]
          /\ strayed' = TRUE

\* stream_position: the end of the batch.
StreamPosition == UNCHANGED <<segs, tail, faults>>

(***************************************************************************)
(* The commit point: the position query, the in-memory index, then         *)
(* should_roll().  An active segment that was due for its age stays due.   *)
(***************************************************************************)
CommitBatch ==
    /\ At("commit")
    /\ StreamPosition \/ EndPosition
    /\ \E aged \in BOOLEAN :
         LET due == active.due \/ aged \/ batchEnd >= MaxRecords
         IN  /\ active' = [active EXCEPT !.n = batchEnd, !.due = due]
             /\ IF due THEN Goto("roll_sync") /\ result' = result ELSE Return("Ok")
    /\ next_offset' = next_offset + call.size
    /\ UNCHANGED <<idx, watermark, up, closed, poisoned, calls, evicted>>

-----------------------------------------------------------------------------
\* roll_segment.  Its errors are returned by append after the commit point.

RollSync ==
    /\ At("roll_sync")
    /\ segs' = [segs EXCEPT ![active.base].synced = Len(file.slots)]
    /\ Goto("sentinel")
    /\ UNCHANGED <<idx, watermark, up, memory, history, faults, tail>>

\* Variant: the segment is closed without a sentinel.
SentinelSkipped ==
    /\ At("sentinel")
    /\ Goto("sync_sentinel")
    /\ UNCHANGED <<disk, up, memory, history, faults, tail>>

WriteSentinel ==
    /\ At("sentinel")
    /\ SetSlots(truncated \o <<Sentinel>>)
    /\ Goto("sync_sentinel")
    /\ UNCHANGED <<idx, watermark, up, memory, history, faults, tail>>

SyncSentinel ==
    /\ At("sync_sentinel")
    /\ segs' = [segs EXCEPT ![active.base].synced = Len(file.slots)]
    /\ Goto("write_index")
    /\ UNCHANGED <<idx, watermark, up, memory, history, faults, tail>>

\* Variant: the index leaves out the last record.
WriteIndexShort ==
    /\ At("write_index")
    /\ idx' = Assign(idx, active.base, active.n - 1)
    /\ Goto("close")
    /\ UNCHANGED <<segs, watermark, up, memory, history, faults, tail>>

\* segment::write_index: temp file, fsync, rename.
write_index ==
    /\ At("write_index")
    /\ idx' = Assign(idx, active.base, active.n)
    /\ Goto("close")
    /\ UNCHANGED <<segs, watermark, up, memory, history, faults, tail>>

\* A failed fsync or sentinel write; an undo of the sentinel may fail too.
RollErr ==
    /\ up /\ call.pc \in {"roll_sync", "sentinel", "sync_sentinel", "write_index"}
    /\ Fault
    /\ \/ segs' = segs /\ debris' = debris
       \/ call.pc # "roll_sync" /\ SetSlots(truncated) /\ debris' = FALSE
    /\ Return("LateErr")
    /\ UNCHANGED <<idx, watermark, up, memory, astray, strayed, calls, evicted>>

CloseSegment ==
    /\ At("close")
    /\ closed' = Append(closed, Closed(active.base, active.n))
    /\ active' = None
    /\ debris' = FALSE /\ astray' = None
    /\ Goto("watermark")
    /\ UNCHANGED <<disk, up, next_offset, poisoned, strayed, history, faults>>

\* Variant: the watermark is the first offset of the segment just closed.
WatermarkStale ==
    /\ At("watermark")
    /\ watermark' = closed[Len(closed)].base
    /\ Goto("retention")
    /\ UNCHANGED <<segs, idx, up, memory, history, faults, tail>>

write_watermark ==
    /\ At("watermark")
    /\ watermark' = next_offset
    /\ Goto("retention")
    /\ UNCHANGED <<segs, idx, up, memory, history, faults, tail>>

WatermarkErr ==
    /\ At("watermark")
    /\ Fault
    /\ Return("LateErr")
    /\ UNCHANGED <<disk, up, memory, calls, evicted, tail>>

Records(base, n) == SubSeq(segs[base].slots, 1, n)

\* Variant: the index goes first, and the removal of the segment may fail.
DeleteIndexFirst ==
    /\ At("retention")
    /\ Evicting /\ closed # <<>>
    /\ idx' = Without(idx, Head(closed).base)
    /\ \/ /\ segs' = Without(segs, Head(closed).base)
          /\ evicted' = evicted \o Records(Head(closed).base, Head(closed).last - Head(closed).base + 1)
          /\ closed' = Tail(closed)
          /\ UNCHANGED <<call, result, faults>>
       \/ Fault /\ Return("LateErr") /\ UNCHANGED <<segs, evicted, closed>>
    /\ UNCHANGED <<watermark, up, active, next_offset, poisoned, calls, tail>>

(***************************************************************************)
(* enforce_retention, one turn of its loop: delete_segment removes the     *)
(* .seg, then the .idx on a best-effort basis, then the entry is popped.   *)
(***************************************************************************)
delete_segment ==
    /\ At("retention")
    /\ Evicting /\ closed # <<>>
    /\ LET front == Head(closed) IN
         /\ segs' = Without(segs, front.base)
         /\ idx' = idx \/ idx' = Without(idx, front.base)
         /\ evicted' = evicted \o Records(front.base, front.last - front.base + 1)
    /\ closed' = Tail(closed)
    /\ UNCHANGED <<watermark, up, active, next_offset, poisoned, call, calls, result, faults, tail>>

DeleteErr ==
    /\ At("retention")
    /\ Evicting /\ closed # <<>>
    /\ Fault
    /\ Return("LateErr")
    /\ UNCHANGED <<disk, up, memory, calls, evicted, tail>>

RetentionDone ==
    /\ At("retention")
    /\ Return("Ok")
    /\ UNCHANGED <<disk, up, memory, calls, evicted, faults, tail>>

-----------------------------------------------------------------------------
\* The task that runs append is aborted at an await: nothing is cleaned up.
Cancel ==
    /\ Cancels /\ up /\ call.pc # "idle"
    /\ Fault
    /\ debris' = (debris \/ call.pc \in {"write_record", "sync", "commit"})
    /\ Return("Lost")
    /\ UNCHANGED <<disk, up, memory, astray, strayed, calls, evicted>>

\* The files as a scan from their first record finds them.
scanned ==
    IF astray = None \/ active.base \in DOMAIN idx THEN segs
    ELSE LET found == SubSeq(file.slots, 1, astray.at) \o astray.junk
         IN  [segs EXCEPT ![active.base] = [slots |-> found, synced |-> Len(found)]]

\* The process or the machine dies: of each file at least the synced slots stay.
Crash ==
    /\ up
    /\ Fault
    /\ up' = FALSE
    /\ \/ segs' = scanned
       \/ \E b \in DOMAIN scanned : \E n \in scanned[b].synced..(Len(scanned[b].slots) - 1) :
            segs' = [scanned EXCEPT ![b].slots = SubSeq(@, 1, n)]
    /\ closed' = <<>> /\ active' = None /\ next_offset' = 0 /\ poisoned' = FALSE
    /\ debris' = FALSE /\ astray' = None
    /\ IF call.pc = "idle" THEN UNCHANGED <<call, result>> ELSE Return("Lost")
    /\ UNCHANGED <<idx, watermark, strayed, calls, evicted>>

\* A step that takes the call in progress further.
Progress ==
    \/ ensure_active \/ write_record \/ sync_all
    \/ RollSync \/ WriteSentinel \/ SyncSentinel \/ write_index \/ CloseSegment
    \/ write_watermark \/ RetentionDone

\* The steps that neither wake a subscription, unlink a file nor kill the process.
QuietStep ==
    \/ Open \/ Cancel \/ Progress
    \/ \E n \in Sizes : AppendCall(n)
    \/ EnsureActiveErr \/ WriteErr \/ SyncErr \/ PositionErr
    \/ RollErr \/ WatermarkErr \/ DeleteErr

Next == CommitBatch \/ delete_segment \/ Crash \/ QuietStep

Spec == Init /\ [][Next]_vars

-----------------------------------------------------------------------------
\* The read side: earliest_offset, latest_offset, read_range.

countIn(seg) == seg.last - seg.base + 1

\* closed segments, then the active one if it has records.
readable ==
    closed \o (IF active # None /\ active.n > 0 THEN <<Closed(active.base, active.n)>> ELSE <<>>)

earliest_offset == IF readable = <<>> THEN None ELSE Head(readable).base

latest_offset ==
    IF readable # <<>> THEN readable[Len(readable)].last
    ELSE IF next_offset > 0 THEN next_offset - 1 ELSE None

is_fully_evicted == readable = <<>> /\ next_offset > 0

\* Variant: the last record of a segment is left out when the range goes on.
readSegmentShort(seg, from, to) ==
    LET start == IF from > seg.base THEN from ELSE seg.base
        end   == IF to < seg.last THEN to ELSE seg.last
    IN  [i \in 1..(IF end > start THEN end - start ELSE 0)
           |-> segs[seg.base].slots[start - seg.base + i]]

\* The records of one segment that fall into from..(to - 1).
readSegment(seg, from, to) ==
    LET start == IF from > seg.base THEN from ELSE seg.base
        end   == IF to < seg.last + 1 THEN to ELSE seg.last + 1
    IN  [i \in 1..(IF end > start THEN end - start ELSE 0)
           |-> segs[seg.base].slots[start - seg.base + i]]

Entries(s) == [ok |-> TRUE, entries |-> s]
RetentionExpired == [ok |-> FALSE, entries |-> <<>>]

\* read_range(from, Some(to)), in the order of its early returns; to = None
\* is any to beyond the tail.
read_range(from, to) ==
    IF to <= from \/ from >= next_offset THEN Entries(<<>>)
    ELSE IF is_fully_evicted \/ from < earliest_offset THEN RetentionExpired
    ELSE Entries(FlattenSeq([i \in DOMAIN readable |-> readSegment(readable[i], from, to)]))

-----------------------------------------------------------------------------
Record == [off : Nat, id : Batches, k : Nat \ {0}]

TypeOK ==
    /\ \A b \in DOMAIN segs : /\ b \in Nat
                              /\ segs[b].slots \in Seq(Record \cup {Sentinel})
                              /\ segs[b].synced \in 0..Len(segs[b].slots)
    /\ \A b \in DOMAIN idx : b \in Nat /\ idx[b] \in Nat \ {0}
    /\ watermark \in Nat \cup {None}
    /\ closed \in Seq([base : Nat, last : Nat])
    /\ active = None \/ active \in ActiveSegment
    /\ next_offset \in Nat /\ up \in BOOLEAN /\ poisoned \in BOOLEAN
    /\ call \in [pc : PCs, id : 0..MaxAppends, size : Nat, written : Nat]
    /\ result \in [Batches -> {None, "Ok", "Err", "LateErr", "Lost"}]
    /\ evicted \in Seq(Record) /\ calls \in Nat /\ faults \in Nat
    /\ debris \in BOOLEAN /\ strayed \in BOOLEAN
    /\ astray = None \/ astray \in [at : Nat, junk : Seq(Record \cup {Sentinel})]

(***************************************************************************)
(* The log as a reader knows it: what retention removed, then what is      *)
(* readable now, or what open() would make readable while it is down.      *)
(***************************************************************************)
memoryView ==
    FlattenSeq([i \in DOMAIN readable |-> Records(readable[i].base, countIn(readable[i]))])

diskView ==
    LET bases == ascending(DOMAIN segs)
    IN  FlattenSeq([i \in DOMAIN bases |-> Records(bases[i], recordsIn(bases[i]))])

stored == evicted \o (IF up THEN memoryView ELSE diskView)

(***************************************************************************)
(* Whatever appends, rolls, evictions, errors and crashes leave behind,    *)
(* open() can open: it never finds the directory corrupted.                *)
(***************************************************************************)
AlwaysOpens == ~up => ~Corrupted

(***************************************************************************)
(* The offset of a record is its position in the history of the log, and   *)
(* the next one is the number of records so far: no offset is skipped or   *)
(* used twice, not even when retention has removed every segment and only  *)
(* the watermark remembers the tail.                                       *)
(***************************************************************************)
OffsetsArePositions ==
    ~Corrupted =>
        /\ \A i \in DOMAIN stored : stored[i] # Sentinel /\ stored[i].off = i - 1
        /\ (IF up THEN next_offset ELSE recoveredNext) = Len(stored)

(***************************************************************************)
(* What append acknowledged is not lost: all records of a batch whose call *)
(* returned Ok are stored, next to each other and in order, through later  *)
(* errors, crashes and aborted calls.  The exception the code makes: an    *)
(* append whose stream_position failed has gone around left-overs.         *)
(***************************************************************************)
StoredAt(id, i, n) == \A k \in 1..n : i + k \in DOMAIN stored
                                     /\ stored[i + k].id = id /\ stored[i + k].k = k

OkIsStored ==
    \A id \in Batches : result[id] = "Ok" =>
        \E i \in 0..Len(stored) : \E n \in Sizes :
            /\ StoredAt(id, i, n)
            /\ \A j \in DOMAIN stored : stored[j].id = id => j \in (i + 1)..(i + n)

AckedSurvives == ~Corrupted /\ ~strayed => OkIsStored

(***************************************************************************)
(* "fall back to seek(End(0)) which returns the same value" (log.rs,       *)
(* append): then nothing that append acknowledged is ever lost, whichever  *)
(* of the two queries gave the position.                                   *)
(***************************************************************************)
AckedNeverLost == ~Corrupted => OkIsStored

(***************************************************************************)
(* "Append is atomic: either all events in the slice are committed [...]   *)
(* or none are" (event_log.rs): whatever is stored belongs to a batch that *)
(* is stored whole.  Not kept when the process dies inside a batch, of     *)
(* which recover_active keeps the first records.                           *)
(***************************************************************************)
AppendAtomic ==
    ~Corrupted =>
        \A j \in DOMAIN stored :
            \E i \in 0..Len(stored), n \in Sizes :
                j \in (i + 1)..(i + n) /\ StoredAt(stored[j].id, i, n)

(***************************************************************************)
(* The reads agree with the stored log: a non-empty read_range cuts        *)
(* exactly the asked-for window out of it, across segment boundaries, and  *)
(* refuses exactly the evicted offsets; earliest_offset and latest_offset  *)
(* delimit what is retained.  (Empty ranges and latest_offset of a log     *)
(* with nothing retained: EvictedIsRefused and NothingIsLatest.)           *)
(***************************************************************************)
ReadRangeExact ==
    At("idle") =>
        /\ \A from \in 0..(next_offset + 1) : \A to \in (from + 1)..(next_offset + 2) :
             read_range(from, to) =
                IF from >= next_offset THEN Entries(<<>>)
                ELSE IF from < Len(evicted) THEN RetentionExpired
                ELSE Entries(SubSeq(stored, from + 1, IF to < Len(stored) THEN to ELSE Len(stored)))
        /\ earliest_offset = IF Len(evicted) < Len(stored) THEN Len(evicted) ELSE None
        /\ Len(evicted) < Len(stored) => latest_offset = Len(stored) - 1

(***************************************************************************)
(* "This check takes precedence: [...] returns `RetentionExpired` if       *)
(* offset 5 has been evicted, even though `[5, 5)` would otherwise be      *)
(* empty" (event_log.rs, read_range).  Not kept: the empty range is seen   *)
(* first.                                                                  *)
(***************************************************************************)
EvictedIsRefused ==
    At("idle") => \A from \in 0..(Len(evicted) - 1) : read_range(from, from) = RetentionExpired

(***************************************************************************)
(* "`None` if no retained entries remain (either the log was never         *)
(* populated, or retention has evicted all entries)" (event_log.rs,        *)
(* latest_offset).  Not kept: next_offset - 1 is returned.                 *)
(***************************************************************************)
NothingIsLatest == At("idle") /\ Len(evicted) = Len(stored) => latest_offset = None

(***************************************************************************)
(* A call aborted behind the index of its roll left the segment active: a  *)
(* record committed to it later is readable, and not in the index, which   *)
(* open() will go by, until the segment is rolled again.                   *)
(***************************************************************************)
BehindIndex == active # None /\ active.base \in DOMAIN idx /\ active.n > idx[active.base]

(***************************************************************************)
(* The log as a reader knows it implements the port, but for the records   *)
(* that a crash leaves of an append (EventLog!Salvage): otherwise it only  *)
(* grows by the whole batch of a call that is not in it yet and is evicted *)
(* from the front only.  This holds until an append goes around left-overs *)
(* and unless the step finds records behind an index.                      *)
(***************************************************************************)
Port == INSTANCE EventLog WITH entries <- stored, earliest <- Len(evicted)

Dies == up /\ ~up'

ImplementsEventLog ==
    /\ Port!LogInit
    /\ [][strayed' \/ BehindIndex \/ Port!LogNext \/ (Dies /\ Port!Salvage)]_<<stored, Len(evicted)>>

=============================================================================
