------------------------- MODULE SubscriptionProofs -------------------------
(***************************************************************************)
(* What a live subscription delivers, and when it ends with an error, for  *)
(* every batch size, segment size, retention policy and start offset, when *)
(* no append is aborted: the files are read without the log's mutex, in    *)
(* every interleaving with appends, failures, rolls, evictions, crashes.   *)
(***************************************************************************)
EXTENDS Subscription, SegmentViewProofs

-----------------------------------------------------------------------------
(***************************************************************************)
(* The files, as a reader without the mutex meets them.                    *)
(***************************************************************************)

\* Every record is at the slot of its offset, the uncommitted ones too.
Placed ==
    \A b \in DOMAIN segs : \A k \in 1..Len(segs[b].slots) :
        segs[b].slots[k] # Sentinel => segs[b].slots[k].off = b + k - 1

Failed(id) == result[id] \in {"Err", "Lost"}

\* What lies behind the committed records belongs to a call that failed or
\* has not reached its commit point.
Behind ==
    \A b \in DOMAIN segs : \A k \in 1..Len(segs[b].slots) :
        k > held(b) => segs[b].slots[k] = Sentinel \/ Uncommitted(segs[b].slots[k].id)

SealedAt(s, n) == Len(s) = n + 1 /\ s[n + 1] = Sentinel

\* An indexed file ends with its sentinel, and has been synced with it.
Sealed ==
    /\ \A b \in Indexed : SealedAt(segs[b].slots, idx[b]) /\ segs[b].synced = idx[b] + 1
    /\ call.pc \in {"sync_sentinel", "write_index", "close"} => SealedAt(file.slots, active.n)
    /\ call.pc \in {"write_index", "close"} => file.synced = active.n + 1

LogAll == LogInv /\ EvictedFits /\ AckInv /\ IndexedIsClosed
\* The watermark is not ahead of the log.
WatermarkFits == watermark # None => watermark <= Len(stored)

FilesInv == Placed /\ Sealed /\ Behind /\ WatermarkFits

\* A step of the log from a good state to a good state.
LogMove == LogAll /\ LogAll' /\ [PlainNext]_vars

-----------------------------------------------------------------------------
\* The answers of calls.

\* A failed call stays failed.
LEMMA FailedKept ==
    ASSUME LogMove, NEW id \in Batches, Failed(id)
    PROVE  Failed(id)'
<1>1. CallSteps /\ IdsUsed /\ calls \in Nat
  BY CallStep DEF LogMove, LogAll, AckInv, LogInv, CallInv, CallTypes
<1>2. result \in [Batches -> Results]
  BY DEF LogMove, LogAll, LogInv, HistoryTypes, Results
<1>3. result[id] # None /\ id <= calls /\ id \in Nat
  BY <1>1, LogAssumption DEF Failed, IdsUsed, Batches
<1>4. CASE result' = result
  BY <1>4 DEF Failed
<1>5. ASSUME NEW r, call.pc # "idle", result' = [result EXCEPT ![call.id] = r] PROVE Failed(id)'
  <2>1. id # call.id
    BY <1>1, <1>3, <1>5 DEF IdsUsed
  <2> QED BY <1>2, <1>5, <2>1 DEF Failed
<1>6. ASSUME NEW r, result' = [result EXCEPT ![calls + 1] = r] PROVE Failed(id)'
  <2>1. id # calls + 1
    BY <1>1, <1>3
  <2> QED BY <1>2, <1>6, <2>1 DEF Failed
<1> QED BY <1>1, <1>4, <1>5, <1>6 DEF CallSteps, Ends

\* A failed append is never forgotten.
LEMMA SomeFailedKept ==
    ASSUME LogMove, SomeFailed
    PROVE  SomeFailed'
<1>1. PICK id \in Batches : Failed(id)
  BY DEF SomeFailed, Failed
<1>2. Failed(id)'
  BY <1>1, FailedKept
<1> QED BY <1>2 DEF SomeFailed, Failed

\* A call that is writing fails, commits, or goes on writing.
LEMMA WritingStep ==
    ASSUME LogMove, call.pc \in Writing
    PROVE  \/ PlainCommit
           \/ result'[call.id] \in {"Err", "Lost"}
           \/ /\ call'.pc \in Writing /\ call'.id = call.id /\ active' = active /\ up' = up
              /\ write_record \/ sync_all \/ UNCHANGED vars
<1>1. /\ call \in CallRecord /\ call.id \in Batches /\ up /\ result \in [Batches -> Results]
      /\ call.pc # "idle"
  BY DEF LogMove, LogAll, LogInv, CallInv, CallTypes, CallRecord, HistoryTypes, Results, Writing
<1>2. ASSUME NEW r \in {"Err", "Lost"}, Return(r) PROVE result'[call.id] \in {"Err", "Lost"}
  BY <1>1, <1>2 DEF Return
<1>3. CASE write_record \/ sync_all \/ UNCHANGED vars
  <2>1. /\ call'.pc \in Writing /\ call'.id = call.id
    BY <1>1, <1>3 DEF write_record, sync_all, Goto, vars, CallRecord, Writing
  <2>2. active' = active /\ up' = up
    BY <1>3 DEF write_record, sync_all, vars, memory
  <2> QED BY <1>3, <2>1, <2>2
<1>4. CASE WriteErr \/ SyncErr \/ PositionErr \/ Cancel \/ PlainCrash
  BY <1>1, <1>2, <1>4 DEF WriteErr, SyncErr, PositionErr, Cancel, PlainCrash, Crash
<1>5. ASSUME \/ Open \/ ensure_active \/ RollSync \/ WriteSentinel \/ SyncSentinel \/ write_index
             \/ CloseSegment \/ write_watermark \/ RetentionDone \/ delete_segment
             \/ (\E n \in Sizes : AppendCall(n)) \/ EnsureActiveErr \/ RollErr \/ WatermarkErr \/ DeleteErr
      PROVE  FALSE
  BY <1>1, <1>5
  DEF Open, ensure_active, RollSync, WriteSentinel, SyncSentinel, write_index, CloseSegment,
      write_watermark, RetentionDone, delete_segment, AppendCall, EnsureActiveErr, RollErr, WatermarkErr,
      DeleteErr, At, Writing
<1> QED BY <1>3, <1>4, <1>5 DEF LogMove, PlainNext, QuietStep, Progress

-----------------------------------------------------------------------------
\* The invariants of the files.

\* Every record of a file stands at the place its offset says.
LEMMA PlacedStep ==
    ASSUME LogMove, Placed
    PROVE  Placed'
<1>0. LogInv /\ EvictedFits /\ LogInv' /\ [PlainNext]_vars
  BY DEF LogMove, LogAll
<1>1. CASE write_record
  <2>1. PICK s : Written(s) /\ FileRewritten(s)
    BY <1>0, <1>1, WriteFile
  <2> DEFINE a == active.base
             p == active.n + call.written + 1
  <2>2. /\ up /\ active # None /\ call \in CallRecord
    BY <1>0, <1>1, WriteFile DEF LogInv, CallInv, CallTypes, CallRecord
  <2>3. /\ a \in DOMAIN segs /\ a \in Nat /\ active.n \in Nat /\ call.written \in Nat
    BY <1>0, <2>2, ActiveFacts DEF CallRecord
  <2>4. /\ DOMAIN segs' = DOMAIN segs /\ segs'[a].slots = s /\ active' = active
        /\ \A b \in DOMAIN segs : b # a => segs'[b].slots = segs[b].slots
    BY <2>1 DEF FileRewritten
  <2>5. s[p].off = a + p - 1
    <3>1. call'.pc \in Writing /\ call'.written = call.written + 1
      BY <1>1, <2>2, <2>3 DEF write_record, CallRecord, Writing
    <3>2. Good(segs'[active'.base].slots, active'.base, active'.n + call'.written)
      BY <1>0, <3>1 DEF LogInv, CallInv, BatchWritten, file
    <3>3. Good(s, a, p)
      <4>1. active.n + (call.written + 1) = p
        BY <2>3
      <4> QED BY <2>4, <3>1, <3>2, <4>1
    <3>4. p \in 1..p
      BY <2>3
    <3> QED BY <3>3, <3>4 DEF Good
  <2>6. \A k \in 1..Len(s) : k = p \/ (k \in 1..Len(segs[a].slots) /\ s[k] = segs[a].slots[k])
    BY <2>1 DEF Written, file
  <2> HIDE DEF a, p
  <2>7. \A k \in 1..Len(s) : s[k] # Sentinel => s[k].off = a + k - 1
    <3>1. \A k \in 1..Len(segs[a].slots) : segs[a].slots[k] # Sentinel => segs[a].slots[k].off = a + k - 1
      BY <2>3 DEF Placed
    <3> QED BY <2>5, <2>6, <3>1
  <2>8. ASSUME NEW b \in DOMAIN segs', NEW k \in 1..Len(segs'[b].slots), segs'[b].slots[k] # Sentinel
        PROVE  segs'[b].slots[k].off = b + k - 1
    <3>1. CASE b = a
      BY <2>4, <2>7, <2>8, <3>1
    <3>2. CASE b # a
      BY <2>4, <2>8, <3>2 DEF Placed
    <3> QED BY <3>1, <3>2
  <2> QED BY <2>8 DEF Placed
<1>2. CASE ~write_record
  <2>1. SlotsOld
    BY <1>0, <1>2, OldSlots
  <2> QED BY <2>1 DEF SlotsOld, Placed
<1> QED BY <1>1, <1>2

\* The steps that touch the active file leave every other one alone.
LEMMA OtherFiles ==
    ASSUME LogAll,
           \/ write_record \/ sync_all \/ RollSync \/ SyncSentinel \/ WriteSentinel
           \/ WriteErr \/ SyncErr \/ RollErr
    PROVE  /\ up /\ active # None /\ active.base \in DOMAIN segs /\ active.base \notin DOMAIN idx
           /\ idx' = idx /\ active' = active /\ DOMAIN segs' = DOMAIN segs
           /\ \A b \in DOMAIN segs : b # active.base => segs'[b] = segs[b]
<1>1. /\ up /\ active # None /\ idx' = idx /\ active' = active /\ call.pc # "close"
  BY DEF write_record, sync_all, RollSync, SyncSentinel, WriteSentinel, WriteErr, SyncErr, RollErr, At,
         LogAll, LogInv, CallInv, CallTypes, Writing, Rolling, memory
<1>2. active.base \in DOMAIN segs
  BY <1>1, ActiveFacts DEF LogAll
<1>3. active.base \notin DOMAIN idx
  BY <1>1 DEF LogAll, IndexedIsClosed
<1>4. CASE \/ segs' = segs
           \/ segs' = [segs EXCEPT ![active.base].synced = Len(file.slots)]
  BY <1>1, <1>2, <1>3, <1>4
<1>5. ASSUME NEW s, SetSlots(s)
      PROVE  DOMAIN segs' = DOMAIN segs /\ \A b \in DOMAIN segs : b # active.base => segs'[b] = segs[b]
  BY <1>2, <1>5 DEF SetSlots
<1>6. segs' = segs \/ segs' = [segs EXCEPT ![active.base].synced = Len(file.slots)] \/ \E s : SetSlots(s)
  BY DEF write_record, sync_all, RollSync, SyncSentinel, WriteSentinel, WriteErr, SyncErr, RollErr
<1> QED BY <1>1, <1>2, <1>3, <1>4, <1>5, <1>6

\* An indexed file is not touched, except that retention removes the first one.
LEMMA IndexedKept ==
    ASSUME LogMove, Sealed, NEW b \in Indexed
    PROVE  \/ delete_segment /\ b = Head(closed).base /\ b \notin DOMAIN segs'
           \/ b \in DOMAIN segs' /\ b \in DOMAIN idx' /\ segs'[b] = segs[b] /\ idx'[b] = idx[b]
<1>0. LogAll /\ LogInv /\ EvictedFits /\ IndexedIsClosed /\ LogInv' /\ [PlainNext]_vars
  BY DEF LogMove, LogAll
<1>1. b \in DOMAIN segs /\ b \in DOMAIN idx /\ b \in Nat /\ idx[b] \in Nat \ {0}
  BY <1>0 DEF Indexed, LogInv, DiskInv, DiskTypes
<1>2. CASE \/ write_record \/ sync_all \/ RollSync \/ SyncSentinel \/ WriteSentinel
           \/ WriteErr \/ SyncErr \/ RollErr
  BY <1>0, <1>1, <1>2, OtherFiles
<1>3. CASE Open
  <2>1. idx' = idx
    BY <1>3 DEF Open
  <2>2. CASE Unindexed = {}
    BY <1>1, <1>3, <2>1, <2>2 DEF Open
  <2>3. CASE Unindexed # {}
    <3>1. PICK a \in Unindexed : TRUE
      BY <2>3
    <3>2. Highest(Unindexed) = a /\ a \notin DOMAIN idx
      BY <1>0, OpenSegmentIs DEF LogInv
    <3> QED BY <1>1, <1>3, <2>1, <2>3, <3>2 DEF Open
  <2> QED BY <2>2, <2>3
<1>4. CASE ensure_active \/ EnsureActiveErr
  <2>1. up /\ idx' = idx /\ (segs' = segs \/ segs' = Assign(segs, next_offset, Fresh))
    BY <1>4 DEF ensure_active, EnsureActiveErr, At, Fresh
  <2>2. b # next_offset
    <3>1. b + idx[b] <= next_offset /\ next_offset \in Nat
      BY <1>0, <1>1, <2>1 DEF LogInv, MemoryInv, MemoryTypes, Ahead
    <3> QED BY <1>1, <3>1
  <2> QED BY <1>1, <2>1, <2>2 DEF Assign
<1>5. CASE write_index
  <2>1. up /\ active # None /\ call.pc # "close" /\ segs' = segs /\ idx' = Assign(idx, active.base, active.n)
    BY <1>0, <1>5 DEF write_index, At, LogInv, CallInv, CallTypes, Rolling
  <2>2. b # active.base
    BY <1>0, <1>1, <2>1 DEF IndexedIsClosed
  <2> QED BY <1>1, <2>1, <2>2 DEF Assign
<1>6. CASE PlainCrash
  <2>1. Len(segs[b].slots) = idx[b] + 1 /\ segs[b].synced = idx[b] + 1
    BY DEF Sealed, SealedAt
  <2>2. segs[b].synced..(Len(segs[b].slots) - 1) = {}
    BY <1>1, <2>1
  <2> QED BY <1>1, <1>6, <2>2 DEF PlainCrash, Crash
<1>7. CASE delete_segment
  <2> DEFINE b0 == Head(closed).base
  <2>1. segs' = Without(segs, b0) /\ (idx' = idx \/ idx' = Without(idx, b0))
    BY <1>7 DEF delete_segment
  <2> HIDE DEF b0
  <2>2. CASE b = b0
    BY <1>7, <2>1, <2>2 DEF Without, b0
  <2>3. CASE b # b0
    BY <1>1, <2>1, <2>3 DEF Without
  <2> QED BY <2>2, <2>3
<1>8. CASE \/ PositionErr \/ WatermarkErr \/ DeleteErr \/ RetentionDone \/ Cancel \/ write_watermark
           \/ (\E n \in Sizes : AppendCall(n)) \/ UNCHANGED vars
  BY <1>1, <1>8, UnmovedSteps
<1>9. CASE PlainCommit \/ CloseSegment
  BY <1>1, <1>9 DEF PlainCommit, CommitBatch, CloseSegment, disk
<1> QED BY <1>0, <1>2, <1>3, <1>4, <1>5, <1>6, <1>7, <1>8, <1>9 DEF PlainNext, QuietStep, Progress

\* The file of a call that rolls.
RollSealed ==
    /\ call.pc \in {"sync_sentinel", "write_index", "close"} => SealedAt(file.slots, active.n)
    /\ call.pc \in {"write_index", "close"} => file.synced = active.n + 1

\* The roll puts the sentinel behind the records and syncs it.
LEMMA RollSealedStep ==
    ASSUME LogMove, RollSealed
    PROVE  RollSealed'
<1>0. LogInv /\ [PlainNext]_vars /\ call \in CallRecord
  BY DEF LogMove, LogAll, LogInv, CallInv, CallTypes, CallRecord
<1>1. CASE WriteSentinel
  <2>1. up /\ active # None
    BY <1>0, <1>1 DEF WriteSentinel, At, LogInv, CallInv, CallTypes, Rolling
  <2> DEFINE s == truncated \o <<Sentinel>>
  <2>2. call'.pc = "sync_sentinel" /\ active' = active /\ SetSlots(s)
    BY <1>0, <1>1 DEF WriteSentinel, Goto, memory, CallRecord
  <2>3. /\ truncated \in Seq(Slot) /\ Len(truncated) = active.n /\ active.n \in Nat
        /\ active.base \in DOMAIN segs /\ segs[active.base] \in File
    BY <1>0, <2>1, ActiveFacts DEF file
  <2>4. Len(s) = active.n + 1 /\ s[active.n + 1] = Sentinel
    BY <2>3
  <2> HIDE DEF s
  <2>5. segs'[active.base].slots = s
    BY <2>2, <2>3 DEF SetSlots, File
  <2> QED BY <2>2, <2>4, <2>5 DEF RollSealed, SealedAt, file
<1>2. CASE SyncSentinel
  <2>1. up /\ active # None /\ call.pc = "sync_sentinel"
    BY <1>0, <1>2 DEF SyncSentinel, At, LogInv, CallInv, CallTypes, Rolling
  <2>2. /\ call'.pc = "write_index" /\ active' = active
        /\ segs' = [segs EXCEPT ![active.base].synced = Len(file.slots)]
    BY <1>0, <1>2 DEF SyncSentinel, Goto, memory, CallRecord
  <2>3. active.base \in DOMAIN segs /\ segs[active.base] \in File
    BY <1>0, <2>1, ActiveFacts DEF file
  <2>4. segs'[active.base].slots = file.slots /\ segs'[active.base].synced = Len(file.slots)
    BY <2>2, <2>3 DEF File, file
  <2>5. SealedAt(file.slots, active.n)
    BY <2>1 DEF RollSealed
  <2> QED BY <2>2, <2>4, <2>5 DEF RollSealed, SealedAt, file
<1>3. CASE write_index
  <2>1. call.pc = "write_index" /\ segs' = segs /\ active' = active
    BY <1>3 DEF write_index, At, memory
  <2> QED BY <2>1 DEF RollSealed, file
<1>4. CASE UNCHANGED vars
  BY <1>4 DEF RollSealed, file, vars, disk, memory
<1>5. CASE ~WriteSentinel /\ ~SyncSentinel /\ ~write_index /\ ~UNCHANGED vars
  <2>1. call'.pc \notin {"sync_sentinel", "write_index", "close"}
    <3>1. CASE ensure_active \/ sync_all \/ RollSync \/ CloseSegment \/ write_watermark
      BY <1>0, <3>1 DEF ensure_active, sync_all, RollSync, CloseSegment, write_watermark, Goto, CallRecord
    <3>2. CASE write_record
      BY <1>0, <3>2 DEF write_record, CallRecord
    <3>3. CASE PlainCommit
      <4>1. Goto("roll_sync") \/ Return("Ok")
        BY <1>0, <3>3, CommitFacts
      <4> QED BY <1>0, <4>1 DEF Goto, Return, Idle, CallRecord
    <3>4. CASE \/ RetentionDone \/ EnsureActiveErr \/ WriteErr \/ SyncErr \/ PositionErr \/ RollErr
               \/ WatermarkErr \/ DeleteErr \/ Cancel
      BY <3>4 DEF RetentionDone, EnsureActiveErr, WriteErr, SyncErr, PositionErr, RollErr, WatermarkErr,
                  DeleteErr, Cancel, Return, Idle
    <3>5. CASE delete_segment
      BY <3>5 DEF delete_segment, At
    <3>6. CASE Open
      <4>1. ~up /\ call' = call
        BY <3>6 DEF Open
      <4> QED BY <1>0, <4>1 DEF LogInv, CallInv, CallTypes
    <3>7. CASE PlainCrash
      BY <3>7 DEF PlainCrash, Crash, Return, Idle
    <3>8. CASE \E n \in Sizes : AppendCall(n)
      BY <3>8 DEF AppendCall, At
    <3> QED BY <1>0, <1>5, <3>1, <3>2, <3>3, <3>4, <3>5, <3>6, <3>7, <3>8 DEF PlainNext, QuietStep, Progress
  <2> QED BY <2>1 DEF RollSealed
<1> QED BY <1>1, <1>2, <1>3, <1>4, <1>5

\* A file with an index is sealed, and stays so.
LEMMA SealedStep ==
    ASSUME LogMove, Sealed
    PROVE  Sealed'
<1>1. RollSealed'
  BY RollSealedStep DEF Sealed, RollSealed
<1>2. ASSUME NEW b \in DOMAIN segs', b \in DOMAIN idx'
      PROVE  SealedAt(segs'[b].slots, idx'[b]) /\ segs'[b].synced = idx'[b] + 1
  <2>1. CASE b \in Indexed
    <3>1. segs'[b] = segs[b] /\ idx'[b] = idx[b]
      BY <1>2, <2>1, IndexedKept
    <3> QED BY <2>1, <3>1 DEF Sealed
  <2>2. CASE b \notin Indexed
    <3>0. LogInv /\ EvictedFits /\ [PlainNext]_vars
      BY DEF LogMove, LogAll
    <3>1. CASE write_index
      <4>1. call.pc = "write_index" /\ segs' = segs /\ idx' = Assign(idx, active.base, active.n)
        BY <3>1 DEF write_index, At
      <4>2. b = active.base /\ idx'[b] = active.n
        BY <1>2, <2>2, <4>1 DEF Assign, Indexed
      <4> QED BY <4>1, <4>2 DEF Sealed, file
    <3>2. CASE ~write_index
      <4>1. DOMAIN idx' \subseteq DOMAIN idx
        BY <3>0, <3>2
        DEF PlainNext, QuietStep, Progress, Open, PlainCommit, CommitBatch, delete_segment, PlainCrash, Crash, Cancel, ensure_active,
            write_record, sync_all, RollSync, WriteSentinel, SyncSentinel, CloseSegment, write_watermark,
            RetentionDone, AppendCall, EnsureActiveErr, WriteErr, SyncErr, PositionErr, RollErr,
            WatermarkErr, DeleteErr, vars, disk, Without
      <4>2. b \in DOMAIN idx /\ b \notin DOMAIN segs /\ b \in DOMAIN segs'
        BY <1>2, <2>2, <4>1 DEF Indexed
      <4>3. CASE ensure_active \/ EnsureActiveErr
        <5>1. /\ segs' = segs \/ segs' = Assign(segs, next_offset, Fresh)
              /\ up
          BY <4>3 DEF ensure_active, EnsureActiveErr, At, Fresh
        <5>2. b = next_offset
          BY <4>2, <5>1 DEF Assign
        <5>3. b + idx[b] <= next_offset /\ b \in Nat /\ idx[b] \in Nat \ {0}
          BY <3>0, <4>2, <5>1 DEF LogInv, DiskInv, DiskTypes, MemoryInv, Ahead
        <5> QED BY <5>2, <5>3
      <4>4. CASE ~ensure_active /\ ~EnsureActiveErr
        <5>1. DOMAIN segs' \subseteq DOMAIN segs
          <6>1. CASE \/ write_record \/ sync_all \/ RollSync \/ SyncSentinel \/ WriteSentinel
                     \/ WriteErr \/ SyncErr \/ RollErr
            BY <6>1, OtherFiles DEF LogMove
          <6>2. CASE Open
            BY <3>0, <6>2, OpenKeepsBases
          <6>3. CASE PlainCrash
            BY <6>3 DEF PlainCrash, Crash
          <6>4. CASE delete_segment
            BY <6>4 DEF delete_segment, Without
          <6>5. CASE \/ PositionErr \/ WatermarkErr \/ DeleteErr \/ RetentionDone \/ Cancel \/ write_watermark
                     \/ (\E n \in Sizes : AppendCall(n)) \/ UNCHANGED vars
            BY <6>5, UnmovedSteps
          <6>6. CASE PlainCommit \/ CloseSegment
            BY <6>6 DEF PlainCommit, CommitBatch, CloseSegment, disk
          <6> QED BY <3>0, <3>2, <4>4, <6>1, <6>2, <6>3, <6>4, <6>5, <6>6 DEF PlainNext, QuietStep, Progress
        <5> QED BY <4>2, <5>1
      <4> QED BY <4>3, <4>4
    <3> QED BY <3>1, <3>2
  <2> QED BY <2>1, <2>2
<1> QED BY <1>1, <1>2 DEF Sealed, RollSealed, Indexed

\* The committed records of a file stay in it while it is in the directory.
LEMMA HeldKept ==
    ASSUME LogMove, NEW b \in DOMAIN segs, NEW k \in 1..held(b)
    PROVE  \/ b \in DOMAIN segs' /\ k \in 1..held(b)' /\ segs'[b].slots[k] = segs[b].slots[k]
           \/ b \notin DOMAIN segs' /\ b + k \in 1..Len(evicted')
<1>0. LogInv /\ EvictedFits /\ LogInv' /\ EvictedFits' /\ IdsUsed /\ Leftovers /\ [PlainNext]_vars /\ IndexedIsClosed
  BY DEF LogMove, LogAll, AckInv
<1>1. Kept
  BY <1>0, StepKeeps
<1>2. durable(b) = held(b)
  BY <1>0, AllDurable
<1>3. CASE b \in DOMAIN segs' /\ k \in 1..durable(b)' /\ segs'[b].slots[k] = segs[b].slots[k]
  <2>1. (LogInv /\ EvictedFits => StoreSound)'
    BY StoredFacts, PTL
  <2>2. durable(b)' \in Nat /\ held(b)' \in Nat /\ durable(b)' <= held(b)'
    BY <1>0, <1>3, <2>1 DEF StoreSound
  <2> QED BY <1>3, <2>2
<1>4. CASE b + k \in 1..Len(evicted')
  <2>1. held(b) \in Nat /\ b \in Nat
    BY <1>0, StoredFacts DEF StoreSound
  <2>2. b \notin DOMAIN segs'
    <3>1. ASSUME b \in DOMAIN segs' PROVE FALSE
      <4>1. Len(evicted') <= b /\ Len(evicted') \in Nat
        BY <1>0, <3>1, LenProperties DEF EvictedFits, LogInv, HistoryTypes
      <4> QED BY <1>4, <2>1, <4>1
    <3> QED BY <3>1
  <2> QED BY <1>4, <2>2
<1> QED BY <1>1, <1>2, <1>3, <1>4 DEF Kept

\* A slot that is no sentinel holds a record.
LEMMA SlotIsRecord ==
    ASSUME LogInv, NEW b \in DOMAIN segs, NEW k \in 1..Len(segs[b].slots), segs[b].slots[k] # Sentinel
    PROVE  segs[b].slots[k] \in Record
<1>1. segs[b].slots \in Seq(Slot)
  BY DEF LogInv, DiskInv, DiskTypes, File
<1>2. segs[b].slots[k] \in Slot
  BY <1>1, ElementOfSeq
<1> QED BY <1>2 DEF Slot

\* What a slot holds and the step did not write was there before.
LEMMA OldSlot ==
    ASSUME LogMove, NEW b \in DOMAIN segs', NEW k \in 1..Len(segs'[b].slots),
           segs'[b].slots[k] # Sentinel
    PROVE  \/ b \in DOMAIN segs /\ k \in 1..Len(segs[b].slots) /\ segs'[b].slots[k] = segs[b].slots[k]
           \/ write_record /\ segs'[b].slots[k].id = call.id
<1>0. LogInv /\ EvictedFits /\ LogInv' /\ [PlainNext]_vars
  BY DEF LogMove, LogAll
<1>1. CASE write_record
  <2>1. PICK s : Written(s) /\ FileRewritten(s)
    BY <1>0, <1>1, WriteFile
  <2>2. CASE b = active.base
    <3>1. segs'[b].slots = s /\ b \in DOMAIN segs
      BY <2>1, <2>2 DEF FileRewritten
    <3> QED BY <1>1, <2>1, <2>2, <3>1 DEF Written, file
  <2>3. CASE b # active.base
    BY <2>1, <2>3 DEF FileRewritten
  <2> QED BY <2>2, <2>3
<1>2. CASE ~write_record
  <2>1. SlotsOld
    BY <1>0, <1>2, OldSlots
  <2> QED BY <2>1 DEF SlotsOld
<1> QED BY <1>1, <1>2

\* What a file holds behind its accounted records was never committed.
LEMMA LeftBehindStep ==
    ASSUME LogMove, Behind
    PROVE  Behind'
<1> SUFFICES ASSUME NEW b \in DOMAIN segs', NEW k \in 1..Len(segs'[b].slots), k > held(b)',
                    segs'[b].slots[k] # Sentinel, NEW id, id = segs'[b].slots[k].id
             PROVE  Uncommitted(id)'
  BY DEF Behind
<1>0. /\ LogInv /\ EvictedFits /\ LogInv' /\ EvictedFits' /\ OwnBatch /\ IdsUsed /\ [PlainNext]_vars
      /\ call \in CallRecord
  BY DEF LogMove, LogAll, AckInv, LogInv, CallInv, CallTypes, CallRecord
<1>1. CASE write_record /\ id = call.id
  <2>1. call'.id = id /\ call'.pc \in {"write_record", "sync"}
    BY <1>0, <1>1 DEF write_record, CallRecord
  <2> QED BY <2>1 DEF Uncommitted
<1>2. CASE b \in DOMAIN segs /\ k \in 1..Len(segs[b].slots) /\ segs'[b].slots[k] = segs[b].slots[k]
  <2>1. held(b) \in Nat /\ Len(segs[b].slots) \in Nat
    BY <1>0, <1>2, StoredFacts DEF StoreSound
  <2>2. held(b)' \in Nat
    <3>1. (LogInv /\ EvictedFits => StoreSound)'
      BY StoredFacts, PTL
    <3> QED BY <1>0, <3>1 DEF StoreSound
  <2>3. k > held(b)
    <3>1. k \in 1..held(b) => k \in 1..held(b)'
      BY <1>2, HeldKept
    <3> QED BY <1>2, <2>1, <2>2, <3>1
  <2>4. Uncommitted(id)
    BY <1>2, <2>3 DEF Behind
  <2>5. id \in Batches
    BY <1>0, <1>2, SlotIsRecord DEF Record
  <2>6. CASE Failed(id)
    <3>1. Failed(id)'
      BY <2>5, <2>6, FailedKept
    <3> QED BY <3>1 DEF Failed, Uncommitted
  <2>7. CASE call.id = id /\ call.pc \in Writing
    <3>1. CASE PlainCommit
      <4>1. /\ active'.base = active.base /\ active'.n = active.n + call.size /\ call.written = call.size
            /\ active' # None /\ up' /\ active # None /\ up /\ call.size \in Nat
        BY <1>0, <3>1, CommitFacts
      <4>2. isActive(b) /\ k \in (ownStart + 1)..(ownStart + call.written)
        <5>1. call.pc \in Own
          BY <2>7 DEF Own
        <5> QED BY <1>0, <1>2, <2>7, <5>1 DEF OwnBatch
      <4>3. ownStart = active.n /\ active.n \in Nat
        BY <1>0, <2>7, <4>1, ActiveFacts DEF ownStart, Writing, Rolling
      <4>4. held(b)' = active.n + call.size
        BY <4>1, <4>2 DEF held, isActive
      <4> QED BY <4>1, <4>2, <4>3, <4>4
    <3>2. CASE result'[call.id] \in {"Err", "Lost"}
      BY <2>7, <3>2 DEF Uncommitted
    <3>3. CASE call'.pc \in Writing /\ call'.id = call.id
      BY <2>7, <3>3 DEF Uncommitted, Writing
    <3> QED BY <2>7, <3>1, <3>2, <3>3, WritingStep
  <2> QED BY <2>4, <2>6, <2>7 DEF Uncommitted, Failed, Writing
<1> QED BY <1>1, <1>2, OldSlot

\* The watermark is written from next_offset, where the log ends, and the log
\* only grows.
LEMMA WatermarkKept ==
    ASSUME LogMove, WatermarkFits
    PROVE  WatermarkFits'
<1>0. /\ LogInv /\ EvictedFits /\ LogInv' /\ EvictedFits' /\ IdsUsed /\ Leftovers /\ IndexedIsClosed
      /\ [PlainNext]_vars
  BY DEF LogMove, LogAll, AckInv
<1>1. Len(stored) \in Nat /\ watermark \in Nat \cup {None}
  BY <1>0, StoredFacts DEF StoreSound, LogInv, DiskInv, DiskTypes
<1>2. Len(stored') \in Nat
  <2>1. (LogInv /\ EvictedFits => StoreSound)'
    BY StoredFacts, PTL
  <2> QED BY <1>0, <2>1 DEF StoreSound
<1>3. CASE watermark' = watermark
  <2>1. StoredGrows
    BY <1>0, GrowsStep
  <2>2. Len(stored) <= Len(stored')
    BY <1>1, <1>2, <2>1 DEF StoredGrows
  <2> QED BY <1>1, <1>2, <1>3, <2>2 DEF WatermarkFits
<1>4. CASE write_watermark
  <2>1. up' /\ watermark' = next_offset'
    BY <1>4 DEF write_watermark, At, memory
  <2>2. (LogInv /\ EvictedFits => Logs(stored, IF up THEN next_offset ELSE recoveredNext))'
    BY StoredLogs, PTL
  <2>3. Len(stored') = next_offset'
    BY <1>0, <2>1, <2>2 DEF Logs, Positions
  <2> QED BY <1>2, <2>1, <2>3 DEF WatermarkFits
<1>5. watermark' = watermark \/ write_watermark
  BY <1>0 DEF PlainNext, QuietStep, Progress, Open, PlainCommit, CommitBatch, PlainCrash, Crash,
     delete_segment, Cancel, ensure_active, write_record, sync_all, RollSync, WriteSentinel, SyncSentinel,
     write_index, CloseSegment, RetentionDone, AppendCall, EnsureActiveErr, WriteErr, SyncErr, PositionErr,
     RollErr, WatermarkErr, DeleteErr, vars, disk
<1> QED BY <1>3, <1>4, <1>5

\* The four together.
LEMMA FilesStep ==
    ASSUME LogMove, FilesInv
    PROVE  FilesInv'
BY PlacedStep, SealedStep, LeftBehindStep, WatermarkKept DEF FilesInv

\* An empty directory.
LEMMA FilesInit ==
    ASSUME Init
    PROVE  FilesInv /\ IndexedIsClosed
<1>1. DOMAIN segs = {} /\ ~up /\ call = Idle /\ watermark = None
  BY DEF Init
<1> QED BY <1>1 DEF FilesInv, Placed, Sealed, Behind, WatermarkFits, IndexedIsClosed, Indexed, Idle

-----------------------------------------------------------------------------
(***************************************************************************)
(* The subscription.  An open file is one of the directory or one that     *)
(* retention has removed since.                                            *)
(***************************************************************************)
fileOf(b) == IF b \in DOMAIN segs THEN segs[b].slots ELSE unlinked[b]

\* States in which sub.pos is the place in the open file.
Reading == {"seek", "read", "arm", "wait", "next_segment"}
Opening == {"open", "rescan", "metadata", "read_index", "next_metadata"}

NeedsFile == Opening \cup {"seek", "read", "next_segment"}

SubPCs == {"none", "closed", "scan", "read_watermark"} \cup Opening \cup Reading

SubRecord ==
    [pc : SubPCs,
     from : Nat, next : Nat, base : Nat \cup {None}, pos : Nat \ {0}, is_active : BOOLEAN,
     out : {None, "Expired", "FullyEvicted", "Corrupted"}]

\* Entries are counted from the offset the subscription started at, and a
\* crash or an error ends it.
SubTypes ==
    /\ sub \in SubRecord
    /\ delivered \in Seq(Record) /\ sub.next = sub.from + Len(delivered)
    /\ ~up => sub = NoSub
    /\ sub.pc = "none" => sub = NoSub /\ delivered = <<>>
    /\ sub.out # None => sub.pc = "closed"
    /\ sub.pc \in NeedsFile => sub.base # None

\* A removed file has what was evicted of it, then its sentinel.
Removed(b, n) ==
    /\ n \in Nat \ {0} /\ b \in Nat /\ b + n <= Len(evicted)
    /\ SealedAt(unlinked[b], n)
    /\ b \in DOMAIN idx => idx[b] = n
    /\ \A k \in 1..n : unlinked[b][k] = evicted[b + k]

Unlinked == \A b \in DOMAIN unlinked : \E n : Removed(b, n)

\* The slots in front of p hold records.
ReadUpTo(b, p) == \A i \in 1..(p - 1) : i \in 1..Len(fileOf(b)) /\ fileOf(b)[i] # Sentinel

\* The reader of a closed file is at the slot of the next entry, the reader of
\* an active one not behind it.  It has only passed records, which stay unless
\* an append fails.
AtPlace(b, p, next, is_active) ==
    /\ b + p - 1 <= next
    /\ ~is_active => b + p - 1 = next /\ p <= Len(fileOf(b))
    /\ SomeFailed \/ ReadUpTo(b, p)

\* Where the open file is, and what the reader knows of it.
OpenedAt(s) ==
    s.base # None =>
        /\ s.base \in DOMAIN segs \cup DOMAIN unlinked /\ s.base <= s.next
        /\ s.pc \in Opening \cup Reading
        /\ s.pc = "next_metadata" => s.base = s.next
        /\ s.pc \in {"read_index"} \cup Reading /\ ~s.is_active => s.base \in DOMAIN unlinked \cup Indexed
        /\ s.pc \in Reading => AtPlace(s.base, s.pos, s.next, s.is_active)

Opened == OpenedAt(sub)

\* d is a record of the call in progress, in the file where that call put it.
InFlight(d, o) ==
    /\ call.pc \in Writing /\ d.id = call.id
    /\ \E k \in (active.n + 1)..(active.n + call.written) : o + 1 = active.base + k /\ file.slots[k] = d

IsStored(d, o) == o < Len(stored) /\ stored[o + 1] = d

\* A record at offset o that is stored, in flight, or of a call that has failed.
Known(d, o) == Failed(d.id) \/ InFlight(d, o) \/ IsStored(d, o)

\* Entries are delivered in order, and such records only.
Delivered ==
    \A i \in 1..Len(delivered) :
        delivered[i].off = sub.from + i - 1 /\ Known(delivered[i], sub.from + i - 1)

\* The error it ended with, as ErrorsJustified says.
Justified ==
    /\ sub.out = "Expired" => sub.next < Len(evicted)
    /\ sub.out = "FullyEvicted" => sub.next < Len(stored)
    /\ sub.out = "Corrupted" => SomeFailed

SubInv == SubTypes /\ Unlinked /\ Opened /\ Delivered /\ Justified

-----------------------------------------------------------------------------
\* The steps of the log, as long as the process lives.

\* What retention removes stays open for its readers.
UnlinkedMove == Unlink \/ (~delete_segment /\ unlinked' = unlinked)

\* An index is written once, by the roll of the active segment.
LEMMA IndexWritten ==
    ASSUME [PlainNext]_vars, NEW b \in DOMAIN idx'
    PROVE  \/ b \in DOMAIN idx /\ idx'[b] = idx[b]
           \/ write_index /\ b = active.base
<1>1. CASE write_index
  <2>1. idx' = Assign(idx, active.base, active.n)
    BY <1>1 DEF write_index
  <2> QED BY <1>1, <2>1 DEF Assign
<1>2. CASE delete_segment
  <2>1. PICK c : idx' = idx \/ idx' = Without(idx, c)
    BY <1>2 DEF delete_segment
  <2> QED BY <2>1 DEF Without
<1>3. CASE ~write_index /\ ~delete_segment
  <2>1. idx' = idx
    BY <1>3
    DEF PlainNext, QuietStep, Progress, Open, PlainCommit, CommitBatch, PlainCrash, Crash, Cancel, ensure_active,
        write_record, sync_all, RollSync, WriteSentinel, SyncSentinel, CloseSegment, write_watermark,
        RetentionDone, AppendCall, EnsureActiveErr, WriteErr, SyncErr, PositionErr, RollErr,
        WatermarkErr, DeleteErr, vars, disk
  <2> QED BY <2>1
<1> QED BY <1>1, <1>2, <1>3

\* Removed files are in front of the directory, before and after the step.
LEMMA RemovedFront ==
    ASSUME LogMove, NEW b \in DOMAIN unlinked, NEW n, Removed(b, n)
    PROVE  /\ b \in Nat /\ n \in Nat /\ b < Len(evicted) /\ b + n <= Len(evicted')
           /\ b \notin DOMAIN segs /\ b \notin DOMAIN segs'
           /\ \A k \in 1..n : b + k \in 1..Len(evicted) /\ evicted'[b + k] = evicted[b + k]
<1>1. /\ LogInv /\ EvictedFits /\ LogInv' /\ EvictedFits' /\ IdsUsed /\ Leftovers /\ [PlainNext]_vars
  BY DEF LogMove, LogAll, AckInv
<1>2. Kept
  BY <1>1, StepKeeps
<1>3. Len(evicted) \in Nat /\ Len(evicted') \in Nat
  BY <1>1, LenProperties DEF LogInv, HistoryTypes
<1>4. /\ b \in Nat /\ n \in Nat \ {0} /\ b + n <= Len(evicted)
  BY DEF Removed
<1>5. Len(evicted) <= Len(evicted') /\ \A j \in 1..Len(evicted) : evicted'[j] = evicted[j]
  BY <1>2 DEF Kept
<1>6. b < Len(evicted) /\ b < Len(evicted') /\ b + n <= Len(evicted')
  BY <1>3, <1>4, <1>5
<1>7. b \notin DOMAIN segs
  BY <1>1, <1>3, <1>4, <1>6 DEF EvictedFits
<1>8. b \notin DOMAIN segs'
  BY <1>1, <1>3, <1>4, <1>6 DEF EvictedFits
<1>9. \A k \in 1..n : b + k \in 1..Len(evicted)
  BY <1>3, <1>4
<1> QED BY <1>4, <1>5, <1>6, <1>7, <1>8, <1>9

\* A file that retention unlinked is kept as it was for the reader that has it open.
LEMMA UnlinkedStep ==
    ASSUME LogMove, Sealed, Unlinked, UnlinkedMove
    PROVE  Unlinked'
<1> SUFFICES ASSUME NEW b \in DOMAIN unlinked' PROVE \E n : Removed(b, n)'
  BY DEF Unlinked
<1>0. LogInv /\ EvictedFits /\ [PlainNext]_vars
  BY DEF LogMove, LogAll
<1>1. CASE b \in DOMAIN unlinked /\ unlinked'[b] = unlinked[b]
  <2>1. PICK n : Removed(b, n)
    BY <1>1 DEF Unlinked
  <2>2. /\ b \in Nat /\ n \in Nat /\ b < Len(evicted) /\ b + n <= Len(evicted')
        /\ \A k \in 1..n : b + k \in 1..Len(evicted) /\ evicted'[b + k] = evicted[b + k]
    BY <1>1, <2>1, RemovedFront
  <2>3. ASSUME b \in DOMAIN idx' PROVE idx'[b] = n
    <3>1. ~(write_index /\ b = active.base)
      <4>1. write_index => up /\ active # None
        BY <1>0 DEF write_index, At, LogInv, CallInv, CallTypes, Rolling
      <4>2. write_index => active.base \in DOMAIN segs
        BY <1>0, <4>1, ActiveFacts
      <4> QED BY <1>1, <2>1, <4>2, RemovedFront
    <3>2. b \in DOMAIN idx /\ idx'[b] = idx[b]
      BY <1>0, <2>3, <3>1, IndexWritten
    <3> QED BY <2>1, <3>2 DEF Removed
  <2>4. Removed(b, n)'
    BY <1>1, <2>1, <2>2, <2>3 DEF Removed
  <2> QED BY <2>4
<1>2. CASE Unlink /\ b = Head(closed).base /\ unlinked'[b] = segs[b].slots
  <2>1. Deleted(b, idx[b]) /\ (idx' = idx \/ idx' = Without(idx, b))
    BY <1>0, <1>2, DeletedFront DEF Unlink, delete_segment
  <2>2. b \in Indexed
    BY <2>1 DEF Deleted, Indexed
  <2>3. SealedAt(unlinked'[b], idx[b])
    BY <1>2, <2>2 DEF Sealed
  <2>4. idx[b] \in Nat \ {0} /\ b \in Nat /\ Len(evicted') = b + idx[b]
    BY <1>0, <2>1 DEF Deleted, LogInv, DiskInv, DiskTypes
  <2>5. \A k \in 1..idx[b] : unlinked'[b][k] = evicted'[b + k]
    BY <1>2, <2>1 DEF Deleted
  <2>6. b \in DOMAIN idx' => idx'[b] = idx[b]
    BY <2>1 DEF Without
  <2>7. \A n : n = idx[b] => Removed(b, n)'
    BY <2>3, <2>4, <2>5, <2>6 DEF Removed
  <2> QED BY <2>7
<1>3. CASE Unlink
  <2>1. unlinked' = Assign(unlinked, Head(closed).base, segs[Head(closed).base].slots)
    BY <1>3 DEF Unlink
  <2> QED BY <1>1, <1>2, <1>3, <2>1 DEF Assign
<1> QED BY <1>1, <1>3 DEF UnlinkedMove

\* A sealed file reads the same, in the directory or out of it.
LEMMA SealedStays ==
    ASSUME LogMove, Sealed, Unlinked, UnlinkedMove, NEW b, b \in DOMAIN unlinked \cup Indexed
    PROVE  b \in DOMAIN unlinked' \cup Indexed' /\ fileOf(b)' = fileOf(b)
<1>0. LogInv /\ EvictedFits
  BY DEF LogMove, LogAll
<1>1. CASE b \in DOMAIN unlinked
  <2>1. PICK n : Removed(b, n)
    BY <1>1 DEF Unlinked
  <2>2. b \notin DOMAIN segs /\ b \notin DOMAIN segs'
    BY <1>1, <2>1, RemovedFront
  <2>3. CASE Unlink
    <3>1. Deleted(Head(closed).base, idx[Head(closed).base])
      BY <1>0, <2>3, DeletedFront DEF Unlink
    <3>2. b # Head(closed).base
      BY <2>2, <3>1 DEF Deleted
    <3>3. b \in DOMAIN unlinked' /\ unlinked'[b] = unlinked[b]
      BY <1>1, <2>3, <3>2 DEF Unlink, Assign
    <3> QED BY <2>2, <3>3 DEF fileOf
  <2>4. CASE unlinked' = unlinked
    BY <1>1, <2>2, <2>4 DEF fileOf
  <2> QED BY <2>3, <2>4 DEF UnlinkedMove
<1>2. CASE b \in Indexed
  <2>1. b \in DOMAIN segs
    BY <1>2 DEF Indexed
  <2>2. CASE delete_segment /\ b = Head(closed).base /\ b \notin DOMAIN segs'
    <3>1. b \in DOMAIN unlinked' /\ unlinked'[b] = segs[b].slots
      BY <2>2 DEF UnlinkedMove, Unlink, Assign
    <3> QED BY <2>1, <2>2, <3>1 DEF fileOf
  <2>3. CASE b \in DOMAIN segs' /\ b \in DOMAIN idx' /\ segs'[b] = segs[b]
    BY <2>1, <2>3 DEF fileOf, Indexed
  <2> QED BY <1>2, <2>2, <2>3, IndexedKept
<1> QED BY <1>1, <1>2

\* A file that is open stays somewhere, and leaves the directory sealed.
LEMMA FileStays ==
    ASSUME LogMove, Sealed, Unlinked, UnlinkedMove, up, NEW b, b \in DOMAIN segs \cup DOMAIN unlinked
    PROVE  /\ b \in DOMAIN segs' \cup DOMAIN unlinked'
           /\ b \in DOMAIN unlinked \cup Indexed \/ (b \in DOMAIN segs /\ b \in DOMAIN segs')
<1>0. LogAll /\ LogInv /\ EvictedFits /\ [PlainNext]_vars
  BY DEF LogMove, LogAll
<1>1. CASE b \in DOMAIN unlinked \cup Indexed
  <2>1. b \in DOMAIN unlinked' \cup Indexed'
    BY <1>1, SealedStays
  <2> QED BY <1>1, <2>1 DEF Indexed
<1>2. CASE b \in DOMAIN segs /\ b \notin Indexed
  <2>1. CASE delete_segment
    <3>1. Deleted(Head(closed).base, idx[Head(closed).base])
      BY <1>0, <2>1, DeletedFront
    <3> QED BY <1>2, <3>1 DEF Deleted, Indexed, Without
  <2>2. CASE \/ write_record \/ sync_all \/ RollSync \/ SyncSentinel \/ WriteSentinel
             \/ WriteErr \/ SyncErr \/ RollErr
    BY <1>0, <1>2, <2>2, OtherFiles
  <2>3. CASE ensure_active \/ EnsureActiveErr
    <3>1. segs' = segs \/ segs' = Assign(segs, next_offset, Fresh)
      BY <2>3 DEF ensure_active, EnsureActiveErr, Fresh
    <3> QED BY <1>2, <3>1 DEF Assign
  <2>4. CASE PlainCrash
    BY <1>2, <2>4 DEF PlainCrash, Crash
  <2>5. CASE \/ PositionErr \/ WatermarkErr \/ DeleteErr \/ RetentionDone \/ Cancel \/ write_watermark
             \/ (\E n \in Sizes : AppendCall(n)) \/ UNCHANGED vars
    BY <1>2, <2>5, UnmovedSteps
  <2>6. CASE PlainCommit \/ CloseSegment \/ write_index
    BY <1>2, <2>6 DEF PlainCommit, CommitBatch, CloseSegment, write_index, disk
  <2>7. ~Open
    BY DEF Open
  <2> QED BY <1>0, <1>2, <2>1, <2>2, <2>3, <2>4, <2>5, <2>6, <2>7 DEF PlainNext, QuietStep, Progress
<1> QED BY <1>1, <1>2

\* The records of the call that is writing stay where they are until it fails.
LEMMA OwnStays ==
    ASSUME LogMove, call.pc \in Writing, result'[call.id] \notin {"Err", "Lost"},
           NEW k \in (active.n + 1)..(active.n + call.written)
    PROVE  /\ active.base \in DOMAIN segs' /\ k \in 1..Len(segs'[active.base].slots)
           /\ k \in 1..Len(file.slots) /\ segs'[active.base].slots[k] = file.slots[k]
<1>0. LogInv /\ call \in CallRecord /\ call.written \in Nat
  BY DEF LogMove, LogAll, LogInv, CallInv, CallTypes, CallRecord
<1>1. up /\ active # None
  BY <1>0 DEF LogInv, CallInv, CallTypes, Writing
<1>2. /\ active.n \in Nat /\ active.base \in DOMAIN segs /\ Len(file.slots) \in Nat
      /\ segs[active.base] \in File
  BY <1>0, <1>1, ActiveFacts DEF file
<1>3. k \in 1..Len(file.slots) /\ k # active.n + call.written + 1 /\ k < active.n + call.written + 1
  <2>1. active.n + call.written \in 0..Len(file.slots)
    BY <1>0 DEF LogInv, CallInv, BatchWritten, Good
  <2> QED BY <1>0, <1>2, <2>1
<1>4. CASE PlainCommit \/ UNCHANGED vars
  <2>1. segs' = segs
    BY <1>4 DEF PlainCommit, CommitBatch, vars, disk
  <2> QED BY <1>2, <1>3, <2>1 DEF file
<1>5. CASE sync_all
  <2>1. segs'[active.base].slots = file.slots /\ active.base \in DOMAIN segs'
    BY <1>2, <1>5 DEF sync_all, file, File
  <2> QED BY <1>3, <2>1
<1>6. CASE write_record
  <2>1. PICK s : Written(s) /\ FileRewritten(s)
    BY <1>0, <1>6, WriteFile
  <2>2. segs'[active.base].slots = s /\ active.base \in DOMAIN segs'
    BY <1>2, <2>1 DEF FileRewritten
  <2>3. k \in 1..Len(s)
    BY <1>0, <1>2, <1>3, <2>1 DEF Written
  <2> QED BY <1>3, <2>1, <2>2, <2>3 DEF Written
<1> QED BY <1>4, <1>5, <1>6, WritingStep

\* While no append fails, a record that is in a file stays there.
LEMMA ReadStays ==
    ASSUME LogMove, FilesInv, Unlinked, UnlinkedMove, up, ~SomeFailed',
           NEW b, b \in DOMAIN segs \cup DOMAIN unlinked,
           NEW i \in 1..Len(fileOf(b)), fileOf(b)[i] # Sentinel
    PROVE  i \in 1..Len(fileOf(b)') /\ fileOf(b)'[i] = fileOf(b)[i]
<1>0. LogInv /\ EvictedFits /\ LogInv' /\ EvictedFits' /\ OwnBatch /\ Sealed /\ Behind
  BY DEF LogMove, LogAll, AckInv, FilesInv
<1>1. CASE b \in DOMAIN unlinked \cup Indexed
  <2>1. fileOf(b)' = fileOf(b)
    BY <1>0, <1>1, SealedStays
  <2> QED BY <2>1
<1>2. CASE b \in DOMAIN segs /\ b \in DOMAIN segs'
  <2>0. fileOf(b) = segs[b].slots /\ fileOf(b)' = segs'[b].slots
    BY <1>2 DEF fileOf
  <2>1. CASE i \in 1..held(b)
    <3>1. i \in 1..held(b)' /\ segs'[b].slots[i] = segs[b].slots[i]
      BY <1>2, <2>1, HeldKept
    <3>2. (LogInv /\ EvictedFits => StoreSound)'
      BY StoredFacts, PTL
    <3>3. held(b)' \in Nat /\ Len(segs'[b].slots) \in Nat /\ held(b)' <= Len(segs'[b].slots)
      BY <1>0, <1>2, <3>2 DEF StoreSound
    <3> QED BY <2>0, <3>1, <3>3
  <2>2. CASE i \notin 1..held(b)
    <3> DEFINE id == segs[b].slots[i].id
    <3>1. held(b) \in Nat /\ Len(segs[b].slots) \in Nat
      BY <1>0, <1>2, StoredFacts DEF StoreSound
    <3>2. i \in 1..Len(segs[b].slots) /\ i > held(b) /\ segs[b].slots[i] # Sentinel
      BY <2>0, <2>2, <3>1
    <3>3. Uncommitted(id)
      BY <1>0, <1>2, <3>2 DEF Behind
    <3>4. id \in Batches
      BY <1>0, <1>2, <3>2, SlotIsRecord DEF Record
    <3> HIDE DEF id
    <3>5. ~Failed(id)
      <4>1. Failed(id) => SomeFailed
        BY <3>4 DEF Failed, SomeFailed
      <4> QED BY <4>1, SomeFailedKept
    <3>6. call.id = id /\ call.pc \in Writing
      BY <3>3, <3>5 DEF Uncommitted, Failed, Writing
    <3>7. isActive(b) /\ i \in (ownStart + 1)..(ownStart + call.written)
      BY <1>0, <1>2, <3>2, <3>6 DEF OwnBatch, Own, id
    <3>8. active.base = b /\ i \in (active.n + 1)..(active.n + call.written)
      BY <3>6, <3>7 DEF ownStart, Writing, Rolling, isActive
    <3>9. result'[call.id] \notin {"Err", "Lost"}
      BY <3>4, <3>6 DEF SomeFailed
    <3> QED BY <2>0, <3>6, <3>8, <3>9, OwnStays DEF file
  <2> QED BY <2>1, <2>2
<1> QED BY <1>0, <1>1, <1>2, FileStays

\* So a reader keeps its place.
LEMMA PlaceKept ==
    ASSUME LogMove, FilesInv, Unlinked, UnlinkedMove, up,
           NEW b, b \in DOMAIN segs \cup DOMAIN unlinked, NEW p \in Nat \ {0}, NEW next, NEW is_active,
           AtPlace(b, p, next, is_active), ~is_active => b \in DOMAIN unlinked \cup Indexed
    PROVE  AtPlace(b, p, next, is_active)'
<1>1. ~is_active => fileOf(b)' = fileOf(b)
  BY SealedStays DEF FilesInv
<1>2. ASSUME ~SomeFailed' PROVE ReadUpTo(b, p)'
  <2>1. ReadUpTo(b, p)
    BY <1>2, SomeFailedKept DEF AtPlace
  <2>2. ASSUME NEW i \in 1..(p - 1) PROVE i \in 1..Len(fileOf(b)') /\ fileOf(b)'[i] # Sentinel
    <3>1. i \in 1..Len(fileOf(b)) /\ fileOf(b)[i] # Sentinel
      BY <2>1 DEF ReadUpTo
    <3> QED BY <1>2, <3>1, ReadStays
  <2> QED BY <2>2 DEF ReadUpTo
<1> QED BY <1>1, <1>2 DEF AtPlace

\* The file a subscription has open survives the steps of the log.
LEMMA OpenedStep ==
    ASSUME LogMove, FilesInv, SubTypes, Unlinked, Opened, UnlinkedMove, sub' = sub
    PROVE  Opened'
<1> SUFFICES ASSUME sub.base # None
             PROVE  /\ sub.base \in DOMAIN segs' \cup DOMAIN unlinked'
                    /\ sub.pc \in {"read_index"} \cup Reading /\ ~sub.is_active
                         => sub.base \in DOMAIN unlinked' \cup Indexed'
                    /\ sub.pc \in Reading =>
                         \A b, p, next, is_active :
                            b = sub.base /\ p = sub.pos /\ next = sub.next /\ is_active = sub.is_active
                              => AtPlace(b, p, next, is_active)'
  BY DEF Opened, OpenedAt, AtPlace, ReadUpTo, fileOf
<1>1. up
  BY DEF SubTypes, NoSub
<1>2. sub.base \in DOMAIN segs \cup DOMAIN unlinked /\ Sealed
  BY DEF Opened, OpenedAt, FilesInv
<1>3. sub.base \in DOMAIN segs' \cup DOMAIN unlinked'
  BY <1>1, <1>2, FileStays
<1>4. ASSUME sub.pc \in {"read_index"} \cup Reading, ~sub.is_active
      PROVE  sub.base \in DOMAIN unlinked' \cup Indexed'
  <2>1. sub.base \in DOMAIN unlinked \cup Indexed
    BY <1>4 DEF Opened, OpenedAt
  <2>2. \A b : b = sub.base => b \in DOMAIN unlinked' \cup Indexed'
    BY <1>2, <2>1, SealedStays
  <2> QED BY <2>2
<1>5. ASSUME sub.pc \in Reading, NEW b, NEW p, NEW next, NEW is_active,
             b = sub.base, p = sub.pos, next = sub.next, is_active = sub.is_active
      PROVE  AtPlace(b, p, next, is_active)'
  <2>1. AtPlace(b, p, next, is_active)
    BY <1>5 DEF Opened, OpenedAt
  <2>2. ~is_active => b \in DOMAIN unlinked \cup Indexed
    BY <1>5 DEF Opened, OpenedAt
  <2>3. p \in Nat \ {0}
    BY <1>5 DEF SubTypes, SubRecord
  <2>4. b \in DOMAIN segs \cup DOMAIN unlinked
    BY <1>2, <1>5
  <2> QED BY <1>1, <2>1, <2>2, <2>3, <2>4, PlaceKept
<1> QED BY <1>3, <1>4, <1>5

\* A record that was delivered goes from the file to the log, or its call fails.
LEMMA KnownKept ==
    ASSUME LogMove, NEW d \in Record, NEW o \in Nat, Known(d, o)
    PROVE  Known(d, o)'
<1>0. /\ LogAll /\ LogInv /\ EvictedFits /\ LogInv' /\ EvictedFits' /\ IdsUsed /\ Leftovers
      /\ IndexedIsClosed /\ [PlainNext]_vars /\ call \in CallRecord /\ call.written \in Nat
  BY DEF LogMove, LogAll, AckInv, LogInv, CallInv, CallTypes, CallRecord
<1>1. CASE Failed(d.id)
  <2>1. d.id \in Batches
    BY DEF Record
  <2>2. \A id : id = d.id => Failed(id)'
    BY <1>1, <2>1, FailedKept
  <2> QED BY <2>2 DEF Known, Failed
<1>2. CASE IsStored(d, o)
  <2>1. StoredGrows
    BY <1>0, GrowsStep
  <2>2. Len(stored) \in Nat /\ o < Len(stored) /\ stored[o + 1] = d
    BY <1>0, <1>2, StoredFacts DEF StoreSound, IsStored
  <2>3. o + 1 \in 1..Len(stored)
    BY <2>2
  <2>4. Len(stored') \in Nat
    <3>1. (LogInv /\ EvictedFits => StoreSound)'
      BY StoredFacts, PTL
    <3> QED BY <1>0, <3>1 DEF StoreSound
  <2>5. o < Len(stored') /\ stored'[o + 1] = d
    BY <2>1, <2>2, <2>3, <2>4 DEF StoredGrows
  <2> QED BY <2>5 DEF Known, IsStored
<1>3. CASE InFlight(d, o)
  <2>1. call.pc \in Writing /\ d.id = call.id
    BY <1>3 DEF InFlight
  <2>2. PICK k \in (active.n + 1)..(active.n + call.written) : o + 1 = active.base + k /\ file.slots[k] = d
    BY <1>3 DEF InFlight
  <2>3. up /\ active # None
    BY <1>0, <2>1 DEF LogInv, CallInv, CallTypes, Writing
  <2>4. active.n \in Nat /\ active.base \in Nat /\ active.base \in DOMAIN segs
    BY <1>0, <2>3, ActiveFacts
  <2>5. CASE result'[call.id] \in {"Err", "Lost"}
    BY <2>1, <2>5 DEF Known, Failed
  <2>6. CASE PlainCommit
    <3>1. /\ segs' = segs /\ up' /\ active' # None /\ active'.base = active.base
          /\ active'.n = active.n + call.size /\ call.written = call.size
      BY <1>0, <2>3, <2>6, CommitFacts
    <3> DEFINE b == active.base
    <3>2. \A c : c = b => held(c)' = active.n + call.size
      BY <3>1 DEF held, isActive
    <3>3. (LogInv /\ EvictedFits => StoreSound)'
      BY StoredFacts, PTL
    <3>4. Contents(stored)' /\ Len(stored') \in Nat /\ Len(evicted') \in Nat
      BY <1>0, <3>3 DEF StoreSound
    <3>5. k \in 1..(active.n + call.size)
      BY <2>2, <2>4, <3>1
    <3>6. \A c : c = b => c + k \in (Len(evicted') + 1)..Len(stored') /\ stored'[c + k] = segs[c].slots[k]
      BY <2>4, <3>1, <3>2, <3>4, <3>5 DEF Contents
    <3>7. o + 1 \in (Len(evicted') + 1)..Len(stored') /\ stored'[o + 1] = d
      BY <2>2, <3>6 DEF file
    <3>8. o < Len(stored')
      BY <3>4, <3>7
    <3> QED BY <3>7, <3>8 DEF Known, IsStored
  <2>7. CASE /\ result'[call.id] \notin {"Err", "Lost"}
             /\ call'.pc \in Writing /\ call'.id = call.id /\ active' = active /\ up' = up
             /\ write_record \/ sync_all \/ UNCHANGED vars
    <3>1. segs'[active.base].slots[k] = file.slots[k]
      BY <2>1, <2>2, <2>7, OwnStays
    <3>2. call'.written \in Nat /\ call.written <= call'.written
      <4>1. write_record => call'.written = call.written + 1
        BY <1>0 DEF write_record, CallRecord
      <4>2. sync_all \/ UNCHANGED vars => call'.written = call.written
        BY <1>0 DEF sync_all, Goto, vars, CallRecord
      <4> QED BY <1>0, <2>7, <4>1, <4>2
    <3>3. k \in (active.n + 1)..(active.n + call'.written)
      BY <1>0, <2>2, <2>4, <3>2
    <3>4. InFlight(d, o)'
      BY <2>1, <2>2, <2>7, <3>1, <3>3 DEF InFlight, file
    <3> QED BY <3>4 DEF Known
  <2> QED BY <2>1, <2>5, <2>6, <2>7, WritingStep
<1> QED BY <1>1, <1>2, <1>3 DEF Known

\* What was delivered stays what the log stored.
LEMMA DeliveredKept ==
    ASSUME LogMove, SubTypes, Delivered, sub' = sub, delivered' = delivered
    PROVE  Delivered'
<1>1. sub.from \in Nat /\ delivered \in Seq(Record)
  BY DEF SubTypes, SubRecord
<1>2. ASSUME NEW i \in 1..Len(delivered), NEW d, NEW o, d = delivered[i], o = sub.from + i - 1
      PROVE  d.off = o /\ Known(d, o)'
  <2>1. d.off = o /\ Known(d, o) /\ o \in Nat
    BY <1>1, <1>2 DEF Delivered
  <2>2. d \in Record
    BY <1>1, <1>2, ElementOfSeq
  <2> QED BY <2>1, <2>2, KnownKept
<1> QED BY <1>2 DEF Delivered, Known, Failed, InFlight, IsStored, file

\* The steps of the log keep the invariant of a subscription.
LEMMA LogSteps ==
    ASSUME LogMove, FilesInv, SubInv, UnlinkedMove, sub' = sub, delivered' = delivered, up'
    PROVE  SubInv'
<1>0. SubTypes /\ Unlinked /\ Opened /\ Delivered /\ Justified /\ Sealed
  BY DEF SubInv, FilesInv
<1>1. SubTypes'
  BY <1>0 DEF SubTypes, NoSub, SubRecord
<1>2. Unlinked'
  BY <1>0, UnlinkedStep
<1>3. Opened'
  BY <1>0, OpenedStep
<1>4. Delivered'
  BY <1>0, DeliveredKept
<1>5. Justified'
  <2>1. LogInv /\ EvictedFits /\ LogInv' /\ IdsUsed /\ Leftovers /\ [PlainNext]_vars
    BY DEF LogMove, LogAll, AckInv
  <2>2. Kept
    BY <2>1, StepKeeps
  <2>3. Len(evicted) \in Nat /\ Len(evicted') \in Nat /\ Len(evicted) <= Len(evicted') /\ sub.next \in Nat
    BY <1>0, <2>1, <2>2, LenProperties DEF LogInv, HistoryTypes, Kept, SubTypes, SubRecord
  <2>4. sub.out = "Expired" => sub.next < Len(evicted')
    BY <1>0, <2>3 DEF Justified
  <2>5. sub.out = "Corrupted" => SomeFailed'
    BY <1>0, SomeFailedKept DEF Justified
  <2>6. sub.out = "FullyEvicted" => sub.next < Len(stored')
    <3>1. EvictedFits' /\ IndexedIsClosed
      BY DEF LogMove, LogAll
    <3>2. StoredGrows
      BY <2>1, <3>1, GrowsStep
    <3>3. Len(stored) \in Nat
      BY <2>1, StoredFacts DEF StoreSound
    <3>4. Len(stored') \in Nat
      <4>1. (LogInv /\ EvictedFits => StoreSound)'
        BY StoredFacts, PTL
      <4> QED BY <2>1, <3>1, <4>1 DEF StoreSound
    <3>5. Len(stored) <= Len(stored')
      BY <3>2, <3>3, <3>4 DEF StoredGrows
    <3> QED BY <1>0, <2>3, <3>3, <3>4, <3>5 DEF Justified
  <2> QED BY <2>4, <2>5, <2>6 DEF Justified
<1> QED BY <1>1, <1>2, <1>3, <1>4, <1>5 DEF SubInv

\* A crash ends the subscription.
LEMMA DieStep ==
    ASSUME LogMove, Die
    PROVE  SubInv'
<1>1. sub' = NoSub /\ delivered' = <<>> /\ DOMAIN unlinked' = {}
  BY DEF Die
<1>2. /\ NoSub.base = None /\ NoSub.out = None /\ NoSub \in SubRecord /\ Len(<<>>) = 0
      /\ NoSub.next = NoSub.from + 0 /\ NoSub.pc \notin NeedsFile
  BY DEF NoSub, SubRecord, SubPCs, NeedsFile, Opening
<1>3. SubTypes'
  BY <1>1, <1>2 DEF SubTypes
<1>4. Opened' /\ Unlinked'
  BY <1>1, <1>2 DEF Opened, OpenedAt, Unlinked
<1>5. Delivered'
  BY <1>1, <1>2 DEF Delivered
<1>6. None # "Expired" /\ None # "Corrupted" /\ None # "FullyEvicted"
  BY SubAssumption
<1>7. Justified'
  BY <1>1, <1>2, <1>6 DEF Justified
<1> QED BY <1>3, <1>4, <1>5, <1>7 DEF SubInv

-----------------------------------------------------------------------------
\* The steps of the subscription, which leave the log alone.

LogSame == UNCHANGED <<vars, unlinked>>

\* Then what is said of the files is as true as before.
LEMMA FilesSame ==
    ASSUME LogSame
    PROVE  /\ SomeFailed' = SomeFailed /\ Unlinked' = Unlinked /\ Len(evicted') = Len(evicted)
           /\ stored' = stored
           /\ \A d, o : Known(d, o)' = Known(d, o)
           /\ \A s : OpenedAt(s)' = OpenedAt(s)
<1>1. segs' = segs /\ idx' = idx /\ unlinked' = unlinked /\ evicted' = evicted /\ result' = result
  BY DEF LogSame, vars, disk, history
<1>2. SomeFailed' = SomeFailed
  BY <1>1 DEF SomeFailed
<1>3. Unlinked' = Unlinked
  BY <1>1 DEF Unlinked, Removed
<1>4. stored' = stored
  BY DEF LogSame, stored, memoryView, diskView, vars, disk, memory, history, readable, Records, countIn,
         recordsIn, recovered, ascending
<1>5. \A d, o : Known(d, o)' = Known(d, o)
  BY <1>1, <1>4 DEF Known, Failed, InFlight, IsStored, file, LogSame, vars, memory
<1>6. \A s : OpenedAt(s)' = OpenedAt(s)
  BY <1>1, <1>2 DEF OpenedAt, AtPlace, ReadUpTo, fileOf, Indexed
<1> QED BY <1>1, <1>2, <1>3, <1>4, <1>5, <1>6

\* What a step has to show of the subscription it leaves.
GoodSub(s) ==
    /\ s \in SubRecord /\ s.pc # "none"
    /\ s.out # None => s.pc = "closed"
    /\ s.pc \in NeedsFile => s.base # None
    /\ OpenedAt(s)
    /\ s.out = "Expired" => s.next < Len(evicted)
    /\ s.out = "FullyEvicted" => s.next < Len(stored)
    /\ s.out = "Corrupted" => SomeFailed

\* A step that delivers nothing.
LEMMA SubMoved ==
    ASSUME SubInv, up, LogSame, delivered' = delivered,
           NEW s, sub' = s, GoodSub(s), s.from = sub.from, s.next = sub.next
    PROVE  SubInv'
<1>0. SubTypes /\ Unlinked /\ Delivered
  BY DEF SubInv
<1>1. SubTypes'
  <2>1. up'
    BY DEF LogSame, vars
  <2> QED BY <1>0, <2>1 DEF SubTypes, GoodSub
<1>2. Unlinked'
  BY <1>0, FilesSame
<1>3. Opened'
  <2>1. OpenedAt(s)'
    BY FilesSame DEF GoodSub
  <2> QED BY <2>1 DEF Opened, OpenedAt, AtPlace, ReadUpTo, fileOf
<1>4. Delivered'
  <2>1. ASSUME NEW i \in 1..Len(delivered), NEW d, NEW o, d = delivered[i], o = sub.from + i - 1
        PROVE  d.off = o /\ Known(d, o)'
    <3>1. d.off = o /\ Known(d, o)
      BY <1>0, <2>1 DEF Delivered
    <3> QED BY <3>1, FilesSame
  <2> QED BY <2>1 DEF Delivered, Known, Failed, InFlight, IsStored, file
<1>5. Justified'
  BY FilesSame DEF GoodSub, Justified
<1> QED BY <1>1, <1>2, <1>3, <1>4, <1>5 DEF SubInv

\* What holds at every step of a live subscription.
LEMMA SubFacts ==
    ASSUME SubInv, up, sub.pc \notin {"none", "closed"}
    PROVE  /\ sub \in SubRecord /\ sub.out = None /\ OpenedAt(sub)
           /\ sub.pc \in NeedsFile => sub.base \in Nat /\ sub.base # None
           /\ None # "Expired" /\ None # "Corrupted" /\ None # "FullyEvicted"
<1>1. sub \in SubRecord /\ sub.out = None /\ (sub.pc \in NeedsFile => sub.base # None)
  BY DEF SubInv, SubTypes
<1>2. OpenedAt(sub)
  BY DEF SubInv, Opened
<1> QED BY <1>1, <1>2, SubAssumption DEF SubRecord

\* What a reader finds in a file is at its offset, and stored, in flight or failed.
LEMMA SlotKnown ==
    ASSUME LogAll, FilesInv, Unlinked, up, NEW b, b \in DOMAIN segs \cup DOMAIN unlinked,
           NEW q \in 1..Len(fileOf(b)), NEW r, r = fileOf(b)[q], r # Sentinel
    PROVE  b \in Nat /\ r \in Record /\ r.off = b + q - 1 /\ Known(r, b + q - 1)
<1>0. /\ LogInv /\ EvictedFits /\ OwnBatch /\ Placed /\ Behind
      /\ Len(evicted) \in Nat /\ evicted \in Seq(Record)
  BY LenProperties DEF LogAll, AckInv, FilesInv, LogInv, HistoryTypes
<1>1. Contents(stored) /\ Len(stored) \in Nat
  BY <1>0, StoredFacts DEF StoreSound
<1>2. CASE b \in DOMAIN segs
  <2>0. r = segs[b].slots[q] /\ q \in 1..Len(segs[b].slots)
    BY <1>2 DEF fileOf
  <2>1. b \in Nat /\ held(b) \in Nat /\ r \in Record /\ r.off = b + q - 1
    BY <1>0, <1>2, <2>0, SlotIsRecord, StoredFacts DEF Placed, StoreSound
  <2>2. CASE q \in 1..held(b)
    <3>1. b + q \in (Len(evicted) + 1)..Len(stored) /\ stored[b + q] = r
      BY <1>1, <1>2, <2>0, <2>2 DEF Contents
    <3>2. b + q - 1 < Len(stored) /\ (b + q - 1) + 1 = b + q
      BY <1>0, <1>1, <2>1, <3>1
    <3> QED BY <2>1, <3>1, <3>2 DEF Known, IsStored
  <2>3. CASE q \notin 1..held(b)
    <3>1. Uncommitted(r.id)
      <4>1. q > held(b)
        BY <2>1, <2>3
      <4> QED BY <1>0, <1>2, <2>0, <4>1 DEF Behind
    <3>2. CASE Failed(r.id)
      BY <2>1, <3>2 DEF Known
    <3>3. CASE call.id = r.id /\ call.pc \in Writing
      <4>1. isActive(b) /\ q \in (ownStart + 1)..(ownStart + call.written)
        BY <1>0, <1>2, <2>0, <3>3 DEF OwnBatch, Own
      <4>2. active.base = b /\ q \in (active.n + 1)..(active.n + call.written)
        BY <3>3, <4>1 DEF ownStart, Writing, Rolling, isActive
      <4>3. (b + q - 1) + 1 = active.base + q /\ file.slots[q] = r
        BY <2>0, <2>1, <4>2 DEF file
      <4>4. InFlight(r, b + q - 1)
        BY <3>3, <4>2, <4>3 DEF InFlight
      <4> QED BY <2>1, <4>4 DEF Known
    <3> QED BY <3>1, <3>2, <3>3 DEF Uncommitted, Failed, Writing
  <2> QED BY <2>2, <2>3
<1>3. CASE b \notin DOMAIN segs
  <2>1. PICK n : Removed(b, n)
    BY <1>3 DEF Unlinked
  <2>2. r = unlinked[b][q] /\ q \in 1..Len(unlinked[b])
    BY <1>3 DEF fileOf
  <2>3. n \in Nat /\ b \in Nat /\ b + n <= Len(evicted) /\ Len(unlinked[b]) = n + 1 /\ unlinked[b][n + 1] = Sentinel
    BY <2>1 DEF Removed, SealedAt
  <2>4. q \in 1..n
    <3>1. q # n + 1
      BY <2>2, <2>3
    <3> QED BY <2>2, <2>3, <3>1
  <2>5. b + q \in 1..Len(evicted) /\ r = evicted[b + q]
    <3>1. b + q \in 1..Len(evicted)
      BY <1>0, <2>3, <2>4
    <3>2. unlinked[b][q] = evicted[b + q]
      BY <2>1, <2>4 DEF Removed
    <3> QED BY <2>2, <3>1, <3>2
  <2>6. r \in Record /\ r.off = b + q - 1
    <3>1. evicted[b + q] \in Record /\ b + q \in DOMAIN evicted
      BY <1>0, <2>5, ElementOfSeq, LenProperties
    <3>2. \A i \in DOMAIN evicted : evicted[i].off = i - 1
      BY <1>0 DEF EvictedFits
    <3>3. evicted[b + q].off = b + q - 1
      BY <2>3, <3>1, <3>2
    <3> QED BY <2>3, <2>5, <3>1, <3>3
  <2>7. stored[b + q] = r /\ b + q - 1 < Len(stored) /\ (b + q - 1) + 1 = b + q
    <3>1. Len(evicted) <= Len(stored) /\ stored[b + q] = evicted[b + q]
      BY <1>1, <2>5 DEF Contents
    <3> QED BY <1>0, <1>1, <2>3, <2>4, <2>5, <3>1
  <2> QED BY <2>3, <2>6, <2>7 DEF Known, IsStored
<1> QED BY <1>2, <1>3

\* While no append has failed, there is one such record for an offset.
LEMMA KnownOnce ==
    ASSUME LogAll, up, ~SomeFailed, NEW d \in Record, NEW e \in Record, NEW o \in Nat,
           Known(d, o), Known(e, o)
    PROVE  d = e
<1>0. LogInv /\ EvictedFits
  BY DEF LogAll
<1>1. \A r \in Record : ~Failed(r.id)
  BY DEF Failed, SomeFailed, Record
<1>2. Len(stored) = next_offset
  BY <1>0, StoredLogs DEF Logs, Positions
<1>3. ASSUME NEW r, InFlight(r, o) PROVE o + 1 > next_offset
  <2>1. call.pc \in Writing
    BY <1>3 DEF InFlight
  <2>2. active # None /\ call.written \in Nat
    BY <1>0, <2>1 DEF LogInv, CallInv, CallTypes, Writing
  <2>3. active.n \in Nat /\ active.base \in Nat /\ active.base + active.n = next_offset
    BY <1>0, <2>2, ActiveFacts
  <2>4. PICK k \in (active.n + 1)..(active.n + call.written) : o + 1 = active.base + k
    BY <1>3 DEF InFlight
  <2> QED BY <2>2, <2>3, <2>4
<1>4. ASSUME NEW r, IsStored(r, o) PROVE ~(o + 1 > next_offset)
  BY <1>0, <1>2, <1>4 DEF IsStored, LogInv, MemoryInv, MemoryTypes
<1>5. CASE IsStored(d, o) /\ IsStored(e, o)
  BY <1>5 DEF IsStored
<1>6. CASE InFlight(d, o) /\ InFlight(e, o)
  <2>0. active.base \in Nat /\ active.n \in Nat /\ call.written \in Nat
    <3>1. active # None /\ call.written \in Nat
      BY <1>0, <1>6 DEF InFlight, LogInv, CallInv, CallTypes, Writing
    <3> QED BY <1>0, <3>1, ActiveFacts
  <2>1. PICK k \in (active.n + 1)..(active.n + call.written) : o + 1 = active.base + k /\ file.slots[k] = d
    BY <1>6 DEF InFlight
  <2>2. PICK l \in (active.n + 1)..(active.n + call.written) : o + 1 = active.base + l /\ file.slots[l] = e
    BY <1>6 DEF InFlight
  <2>3. k = l
    BY <2>0, <2>1, <2>2
  <2> QED BY <2>1, <2>2, <2>3
<1> QED BY <1>1, <1>3, <1>4, <1>5, <1>6 DEF Known

\* A sealed file holds records up to its sentinel, as many as its index says.
SealedFile(b, n) ==
    /\ n \in Nat \ {0} /\ SealedAt(fileOf(b), n)
    /\ b \in DOMAIN idx => idx[b] = n
    /\ \A i \in 1..n : fileOf(b)[i] # Sentinel

\* An unlinked or indexed file is sealed after its records.
LEMMA SealedRecords ==
    ASSUME LogAll, FilesInv, Unlinked, NEW b, b \in DOMAIN unlinked \cup Indexed
    PROVE  \E n : SealedFile(b, n)
<1>0. /\ LogInv /\ EvictedFits /\ Sealed /\ Len(evicted) \in Nat /\ evicted \in Seq(Record)
  BY LenProperties DEF LogAll, FilesInv, LogInv, HistoryTypes
<1>1. CASE b \in Indexed
  <2>1. fileOf(b) = segs[b].slots
    BY <1>1 DEF fileOf, Indexed
  <2>2. idx[b] \in Nat \ {0} /\ Good(segs[b].slots, b, idx[b]) /\ SealedAt(segs[b].slots, idx[b])
    BY <1>0, <1>1 DEF LogInv, DiskInv, DiskTypes, IndexFits, Sealed, Indexed
  <2>3. \A i \in 1..idx[b] : segs[b].slots[i] # Sentinel
    BY <2>2, SentinelIsNoRecord DEF Good
  <2>4. SealedFile(b, idx[b])
    BY <2>1, <2>2, <2>3 DEF SealedFile
  <2> QED BY <2>4
<1>2. CASE b \notin Indexed
  <2>1. PICK n : Removed(b, n)
    BY <1>2 DEF Unlinked
  <2>2. n \in Nat \ {0} /\ b \in Nat /\ b + n <= Len(evicted)
    BY <2>1 DEF Removed
  <2>3. fileOf(b) = unlinked[b]
    BY <1>0, <2>2 DEF fileOf, EvictedFits
  <2>4. \A i \in 1..n : b + i \in 1..Len(evicted)
    BY <1>0, <2>2
  <2>5. \A i \in 1..n : evicted[b + i] \in Record
    BY <1>0, <2>4, ElementOfSeq
  <2>6. \A i \in 1..n : unlinked[b][i] # Sentinel
    BY <2>1, <2>5, SentinelIsNoRecord DEF Removed
  <2>7. SealedFile(b, n)
    BY <2>1, <2>3, <2>6 DEF SealedFile, Removed
  <2> QED BY <2>7
<1> QED BY <1>1, <1>2

\* The files a scan may pick.
LEMMA Candidates ==
    ASSUME LogAll, NEW next \in Nat
    PROVE  /\ candidates(next) # {} => /\ Highest(candidates(next)) \in DOMAIN segs
                                       /\ Highest(candidates(next)) \in Nat
                                       /\ Highest(candidates(next)) <= next
           /\ candidates(next) = {} /\ DOMAIN segs # {} => next < Len(evicted)
<1>0. /\ EvictedFits /\ DOMAIN segs \subseteq Nat /\ IsFiniteSet(DOMAIN segs)
      /\ Len(evicted) \in Nat
  BY LenProperties DEF LogAll, LogInv, DiskInv, DiskTypes, HistoryTypes
<1>1. ASSUME candidates(next) # {}
      PROVE  Highest(candidates(next)) \in candidates(next)
  <2>1. candidates(next) \subseteq Nat /\ \A b \in candidates(next) : b <= next
    BY <1>0 DEF candidates
  <2>2. PICK h \in candidates(next) : \A o \in candidates(next) : o <= h
    <3>1. IsFiniteSet(candidates(next))
      BY <1>0, FS_Subset DEF candidates
    <3> QED BY <1>1, <2>1, <3>1, GreatestNat
  <2> QED BY <2>2 DEF Highest
<1>2. ASSUME candidates(next) = {}, DOMAIN segs # {} PROVE next < Len(evicted)
  <2>1. Len(evicted) \in DOMAIN segs /\ Len(evicted) \notin candidates(next)
    BY <1>0, <1>2 DEF EvictedFits
  <2> QED BY <1>0, <2>1 DEF candidates
<1> QED BY <1>0, <1>1, <1>2 DEF candidates

\* An error, or no data yet, closes the file.
LEMMA FileClosed ==
    ASSUME SubInv, up, sub.pc \notin {"none", "closed"}, LogSame, delivered' = delivered,
           \/ NoDataYet
           \/ (Fail("FullyEvicted") /\ sub.next < Len(stored))
           \/ (Fail("Expired") /\ sub.next < Len(evicted))
           \/ (Fail("Corrupted") /\ SomeFailed)
    PROVE  SubInv'
<1>1. sub \in SubRecord /\ sub.out = None /\ None # "Expired" /\ None # "Corrupted" /\ None # "FullyEvicted"
  BY SubFacts
<1>2. CASE NoDataYet
  <2> DEFINE s == [sub EXCEPT !.pc = "wait", !.base = None]
  <2>1. s \in SubRecord /\ s.pc = "wait" /\ s.base = None /\ s.out = None /\ s.from = sub.from /\ s.next = sub.next
    BY <1>1 DEF SubRecord, SubPCs, Reading
  <2>2. sub' = s
    BY <1>2 DEF NoDataYet
  <2> HIDE DEF s
  <2>3. GoodSub(s)
    BY <1>1, <2>1 DEF GoodSub, OpenedAt, NeedsFile, Opening
  <2> QED BY <2>1, <2>2, <2>3, SubMoved
<1>3. ASSUME NEW e \in {"Expired", "FullyEvicted", "Corrupted"}, Fail(e),
             e = "Expired" => sub.next < Len(evicted), e = "Corrupted" => SomeFailed,
             e = "FullyEvicted" => sub.next < Len(stored)
      PROVE  SubInv'
  <2> DEFINE s == [sub EXCEPT !.pc = "closed", !.base = None, !.out = e]
  <2>1. s \in SubRecord /\ s.pc = "closed" /\ s.base = None /\ s.out = e /\ s.from = sub.from /\ s.next = sub.next
    BY <1>1, <1>3 DEF SubRecord, SubPCs
  <2>2. sub' = s
    BY <1>3 DEF Fail
  <2> HIDE DEF s
  <2>3. GoodSub(s)
    BY <1>1, <1>3, <2>1 DEF GoodSub, OpenedAt, NeedsFile, Opening
  <2> QED BY <2>1, <2>2, <2>3, SubMoved
<1> QED BY <1>2, <1>3

\* The top of next_entry, and the search for the file.
LEMMA FindSteps ==
    ASSUME LogAll, FilesInv, SubInv,
           Arm \/ scan_segments \/ read_watermark \/ OpenSegment \/ Rescan \/ Metadata \/ NextSegment \/ Wake
    PROVE  SubInv'
<1>0. /\ up /\ LogSame /\ delivered' = delivered /\ sub.pc \notin {"none", "closed"}
  BY DEF Arm, scan_segments, read_watermark, OpenSegment, Rescan, Metadata, NextSegment, Wake, SubAt, Quietly,
         LogSame
<1>1. /\ sub \in SubRecord /\ sub.out = None /\ OpenedAt(sub) /\ sub.next \in Nat
      /\ sub.pc \in NeedsFile => sub.base \in Nat /\ sub.base # None
      /\ None # "Expired" /\ None # "Corrupted" /\ None # "FullyEvicted"
  BY <1>0, SubFacts DEF SubRecord, SubPCs
<1>2. ASSUME NEW pc \in {"scan", "read_watermark"}, sub' = [sub EXCEPT !.pc = pc], sub.base = None
      PROVE  SubInv'
  <2> DEFINE s == [sub EXCEPT !.pc = pc]
  <2>1. s \in SubRecord /\ s.pc = pc /\ s.base = None /\ s.out = None /\ s.from = sub.from /\ s.next = sub.next
    BY <1>1, <1>2 DEF SubRecord, SubPCs
  <2>2. sub' = s
    BY <1>2
  <2> HIDE DEF s
  <2>3. GoodSub(s)
    BY <1>1, <1>2, <2>1 DEF GoodSub, OpenedAt, NeedsFile, Opening
  <2> QED BY <1>0, <2>1, <2>2, <2>3, SubMoved
\* The file and the place stay.
<1>3. ASSUME NEW pc \in Opening \cup Reading, sub' = [sub EXCEPT !.pc = pc],
             pc # "next_metadata", pc # "read_index", pc \in Reading => sub.pc \in Reading,
             sub.base # None \/ pc \notin NeedsFile
      PROVE  SubInv'
  <2> DEFINE s == [sub EXCEPT !.pc = pc]
  <2>1. /\ s \in SubRecord /\ s.pc = pc /\ s.base = sub.base /\ s.out = None /\ s.from = sub.from
        /\ s.next = sub.next /\ s.pos = sub.pos /\ s.is_active = sub.is_active
    BY <1>1, <1>3 DEF SubRecord, SubPCs
  <2>2. sub' = s
    BY <1>3
  <2> HIDE DEF s
  <2>3. OpenedAt(s)
    BY <1>1, <1>3, <2>1 DEF OpenedAt, Reading
  <2>4. GoodSub(s)
    BY <1>1, <1>3, <2>1, <2>3 DEF GoodSub, Opening, Reading
  <2> QED BY <1>0, <2>1, <2>2, <2>4, SubMoved
<1>4. CASE Arm
  <2>1. sub.pc = "arm"
    BY <1>4 DEF Arm, SubAt
  <2> QED BY <1>2, <1>3, <1>4, <2>1 DEF Arm, Reading
<1>5. CASE Wake
  BY <1>3, <1>5 DEF Wake, SubAt, Reading, NeedsFile, Opening
<1>6. CASE OpenSegment
  BY <1>1, <1>3, <1>6 DEF OpenSegment, SubAt, Reading, NeedsFile, Opening
<1>7. ASSUME NEW pc \in {"open", "next_metadata"}, NEW b \in DOMAIN segs, b \in Nat, b <= sub.next,
             pc = "next_metadata" => b = sub.next, sub' = [sub EXCEPT !.pc = pc, !.base = b]
      PROVE  SubInv'
  <2> DEFINE s == [sub EXCEPT !.pc = pc, !.base = b]
  <2>1. s \in SubRecord /\ s.pc = pc /\ s.base = b /\ s.out = None /\ s.from = sub.from /\ s.next = sub.next
    BY <1>1, <1>7 DEF SubRecord, SubPCs, Opening
  <2>2. sub' = s
    BY <1>7
  <2>0. b # None
    BY <1>7, LogAssumption
  <2> HIDE DEF s
  <2>3. OpenedAt(s)
    BY <1>7, <2>1 DEF OpenedAt, Opening, Reading
  <2>4. GoodSub(s)
    BY <1>1, <1>7, <2>0, <2>1, <2>3 DEF GoodSub
  <2> QED BY <1>0, <2>1, <2>2, <2>4, SubMoved
<1>8. CASE scan_segments
  <2>1. sub.pc = "scan" /\ sub.base = None
    BY <1>1, <1>8 DEF scan_segments, SubAt, OpenedAt, Opening, Reading
  <2>2. CASE candidates(sub.next) # {}
    BY <1>1, <1>7, <1>8, <2>2, Candidates DEF scan_segments
  <2>3. CASE candidates(sub.next) = {} /\ DOMAIN segs # {}
    <3>1. Fail("Expired") /\ sub.next < Len(evicted)
      BY <1>1, <1>8, <2>3, Candidates DEF scan_segments
    <3> QED BY <1>0, <3>1, FileClosed
  <2>4. CASE candidates(sub.next) = {} /\ DOMAIN segs = {}
    BY <1>2, <1>8, <2>1, <2>4 DEF scan_segments
  <2> QED BY <2>2, <2>3, <2>4
<1>9. CASE read_watermark
  <2>1. watermark # None => watermark \in Nat /\ watermark <= Len(stored) /\ Len(stored) \in Nat
    BY StoredFacts DEF LogAll, FilesInv, WatermarkFits, LogInv, DiskInv, DiskTypes, StoreSound
  <2>2. CASE watermark # None /\ watermark > sub.next
    <3>1. sub.next < Len(stored)
      BY <1>1, <2>1, <2>2
    <3> QED BY <1>0, <1>9, <2>2, <3>1, FileClosed DEF read_watermark
  <2>3. CASE ~(watermark # None /\ watermark > sub.next)
    BY <1>0, <1>9, <2>3, FileClosed DEF read_watermark
  <2> QED BY <2>2, <2>3
<1>10. CASE Rescan
  <2>1. CASE candidates(sub.next) = {} /\ DOMAIN segs # {}
    <3>1. Fail("Expired") /\ sub.next < Len(evicted)
      BY <1>1, <1>10, <2>1, Candidates DEF Rescan
    <3> QED BY <1>0, <3>1, FileClosed
  <2>2. CASE ~(candidates(sub.next) = {} /\ DOMAIN segs # {})
    <3>1. NoDataYet
      BY <1>10, <2>2 DEF Rescan
    <3> QED BY <1>0, <3>1, FileClosed
  <2> QED BY <2>1, <2>2
<1>11. CASE NextSegment
  <2>1. CASE sub.next \in DOMAIN segs
    <3>1. sub' = [sub EXCEPT !.pc = "next_metadata", !.base = sub.next] /\ sub.next <= sub.next
      BY <1>1, <1>11, <2>1 DEF NextSegment
    <3> QED BY <1>1, <1>7, <2>1, <3>1
  <2>2. CASE sub.next \notin DOMAIN segs
    <3> DEFINE s == [sub EXCEPT !.pc = "arm", !.base = None]
    <3>1. s \in SubRecord /\ s.pc = "arm" /\ s.base = None /\ s.out = None /\ s.from = sub.from /\ s.next = sub.next
      BY <1>1 DEF SubRecord, SubPCs, Reading
    <3>2. sub' = s
      BY <1>11, <2>2 DEF NextSegment
    <3> HIDE DEF s
    <3>3. GoodSub(s)
      BY <1>1, <3>1 DEF GoodSub, OpenedAt, NeedsFile, Opening
    <3> QED BY <1>0, <3>1, <3>2, <3>3, SubMoved
  <2> QED BY <2>1, <2>2
<1>12. CASE Metadata
  <2>0. /\ sub.pc = "metadata" /\ sub.base \in DOMAIN segs \cup DOMAIN unlinked /\ sub.base <= sub.next
        /\ sub.base \in Nat /\ sub.base # None
    BY <1>1, <1>12 DEF Metadata, SubAt, OpenedAt, NeedsFile, Opening
  <2>1. CASE sub.base \in DOMAIN idx
    <3> DEFINE s == [sub EXCEPT !.pc = "read_index", !.is_active = FALSE]
    <3>1. /\ s \in SubRecord /\ s.pc = "read_index" /\ s.base = sub.base /\ s.out = None /\ s.from = sub.from
          /\ s.next = sub.next
      BY <1>1 DEF SubRecord, SubPCs, Opening
    <3>2. sub' = s
      BY <1>12, <2>1 DEF Metadata
    <3> HIDE DEF s
    <3>3. sub.base \in DOMAIN unlinked \cup Indexed
      BY <2>0, <2>1 DEF Indexed
    <3>4. OpenedAt(s)
      BY <2>0, <3>1, <3>3 DEF OpenedAt, Opening, Reading
    <3>5. GoodSub(s)
      BY <1>1, <2>0, <3>1, <3>4 DEF GoodSub
    <3> QED BY <1>0, <3>1, <3>2, <3>5, SubMoved
  <2>2. CASE sub.base \notin DOMAIN idx
    <3> DEFINE s == [sub EXCEPT !.pc = "seek", !.is_active = TRUE, !.pos = 1]
    <3>0. "seek" \in SubPCs /\ 1 \in Nat \ {0}
      BY DEF SubPCs, Reading
    <3>1. /\ s \in SubRecord /\ s.pc = "seek" /\ s.base = sub.base /\ s.out = sub.out /\ s.from = sub.from
          /\ s.next = sub.next /\ s.pos = 1 /\ s.is_active = TRUE
      <4>1. ASSUME NEW a \in BOOLEAN, NEW t, t = [sub EXCEPT !.pc = "seek", !.is_active = a, !.pos = 1]
            PROVE  /\ t \in SubRecord /\ t.pc = "seek" /\ t.base = sub.base /\ t.out = sub.out /\ t.from = sub.from
                   /\ t.next = sub.next /\ t.pos = 1 /\ t.is_active = a
        BY <1>1, <3>0, <4>1 DEF SubRecord
      <4> QED BY <4>1
    <3>7. s.is_active
      BY <3>1
    <3>2. sub' = s
      BY <1>12, <2>2 DEF Metadata
    <3> HIDE DEF s
    <3>3. AtPlace(s.base, s.pos, s.next, s.is_active)
      <4>1. s.base + s.pos - 1 <= s.next /\ s.is_active /\ 1..(s.pos - 1) = {}
        BY <1>1, <2>0, <3>1, <3>7
      <4> QED BY <4>1 DEF AtPlace, ReadUpTo
    <3>4. OpenedAt(s)
      BY <2>0, <3>1, <3>3, <3>7 DEF OpenedAt, Opening, Reading
    <3>5. s.pc # "none" /\ s.out # "Expired" /\ s.out # "Corrupted" /\ s.base # None
      BY <1>1, <2>0, <3>1
    <3>6. GoodSub(s)
      BY <1>1, <3>1, <3>4, <3>5 DEF GoodSub
    <3> QED BY <1>0, <3>1, <3>2, <3>6, SubMoved
  <2> QED BY <2>1, <2>2
<1> QED BY <1>4, <1>5, <1>6, <1>8, <1>9, <1>10, <1>11, <1>12

\* The reader of an open file: its place, and the slot there.
LEMMA PlaceFacts ==
    ASSUME LogAll, FilesInv, SubInv, up, sub.pc \in {"seek", "read", "next_segment"}
    PROVE  /\ sub.base \in DOMAIN segs \cup DOMAIN unlinked /\ sub.base <= sub.next
           /\ sub.base \in Nat /\ sub.base # None /\ sub.pos \in Nat \ {0} /\ sub.next \in Nat
           /\ ~sub.is_active => sub.base \in DOMAIN unlinked \cup Indexed
           /\ AtPlace(sub.base, sub.pos, sub.next, sub.is_active)
           /\ slots = fileOf(sub.base) /\ Len(slots) \in Nat
<1>1. /\ sub \in SubRecord /\ OpenedAt(sub)
      /\ sub.base \in Nat /\ sub.base # None
  BY SubFacts DEF NeedsFile
<1>2. sub.pos \in Nat \ {0} /\ sub.next \in Nat
  BY <1>1 DEF SubRecord
<1>3. slots = fileOf(sub.base)
  BY DEF slots, fileOf
<1>4. /\ sub.base \in DOMAIN segs \cup DOMAIN unlinked /\ sub.base <= sub.next
      /\ ~sub.is_active => sub.base \in DOMAIN unlinked \cup Indexed
      /\ AtPlace(sub.base, sub.pos, sub.next, sub.is_active)
  BY <1>1 DEF OpenedAt, Reading
<1>5. Len(slots) \in Nat
  <2>1. CASE sub.base \in DOMAIN segs
    BY <2>1, LenProperties DEF slots, LogAll, LogInv, DiskInv, DiskTypes, File
  <2>2. CASE sub.base \notin DOMAIN segs
    <3>1. sub.base \in DOMAIN unlinked \cup Indexed /\ Unlinked
      BY <1>4, <2>2 DEF SubInv
    <3>2. PICK n : SealedFile(sub.base, n)
      BY <3>1, SealedRecords
    <3> QED BY <1>3, <3>2 DEF SealedFile, SealedAt
  <2> QED BY <2>1, <2>2
<1> QED BY <1>1, <1>2, <1>3, <1>4, <1>5

\* A place one slot further on, behind a record.
LEMMA NextPlace ==
    ASSUME LogAll, FilesInv, Unlinked, NEW b \in Nat, b \in DOMAIN segs \cup DOMAIN unlinked,
           NEW p \in Nat \ {0}, NEW next \in Nat, NEW is_active, AtPlace(b, p, next, is_active),
           ~is_active => b \in DOMAIN unlinked \cup Indexed,
           p <= Len(fileOf(b)), Len(fileOf(b)) \in Nat, fileOf(b)[p] # Sentinel,
           NEW m \in {next, next + 1}, m = next => is_active /\ b + p - 1 # next
    PROVE  AtPlace(b, p + 1, m, is_active)
<1>1. b + p - 1 <= next /\ (~is_active => b + p - 1 = next)
  BY DEF AtPlace
<1>2. b + (p + 1) - 1 <= m /\ (~is_active => b + (p + 1) - 1 = m)
  BY <1>1
<1>3. ASSUME ~is_active PROVE p + 1 <= Len(fileOf(b))
  <2>1. PICK n : SealedFile(b, n)
    BY <1>3, SealedRecords
  <2>2. Len(fileOf(b)) = n + 1 /\ n \in Nat /\ fileOf(b)[n + 1] = Sentinel
    BY <2>1 DEF SealedFile, SealedAt
  <2>3. p # n + 1
    BY <2>2
  <2> QED BY <2>2, <2>3
<1>4. ReadUpTo(b, p) => ReadUpTo(b, p + 1)
  <2>1. \A i \in 1..(p + 1 - 1) : i = p \/ i \in 1..(p - 1)
    OBVIOUS
  <2>2. p \in 1..Len(fileOf(b))
    OBVIOUS
  <2> QED BY <2>1, <2>2 DEF ReadUpTo
<1> QED BY <1>2, <1>3, <1>4 DEF AtPlace

\* The index of a closed segment, and the start of the next one.
LEMMA IndexSteps ==
    ASSUME LogAll, FilesInv, SubInv, read_index \/ NextMetadata
    PROVE  SubInv'
<1>0. /\ up /\ LogSame /\ delivered' = delivered /\ sub.pc \notin {"none", "closed"} /\ Unlinked
      /\ sub.pc \in {"read_index", "next_metadata"}
  BY DEF read_index, NextMetadata, SubAt, Quietly, LogSame, SubInv
<1>1. /\ sub \in SubRecord /\ sub.out = None /\ OpenedAt(sub) /\ sub.next \in Nat
      /\ sub.base \in Nat /\ sub.base # None
      /\ None # "Expired" /\ None # "Corrupted" /\ None # "FullyEvicted"
  BY <1>0, SubFacts DEF SubRecord, NeedsFile, Opening
<1>2. sub.base \in DOMAIN segs \cup DOMAIN unlinked /\ sub.base <= sub.next
  BY <1>0, <1>1 DEF OpenedAt
<1>3. ASSUME sub.base \in DOMAIN idx
      PROVE  sub.base \in DOMAIN unlinked \cup Indexed /\ SealedFile(sub.base, idx[sub.base])
  <2>1. sub.base \in DOMAIN unlinked \cup Indexed
    BY <1>2, <1>3 DEF Indexed
  <2>2. PICK n : SealedFile(sub.base, n)
    BY <1>0, <2>1, SealedRecords
  <2> QED BY <1>3, <2>1, <2>2 DEF SealedFile
<1>4. CASE read_index
  <2>1. CASE sub.base \notin DOMAIN idx
    <3> DEFINE s == [sub EXCEPT !.pc = "rescan"]
    <3>1. s \in SubRecord /\ s.pc = "rescan" /\ s.base = sub.base /\ s.out = None /\ s.from = sub.from /\ s.next = sub.next
      BY <1>1 DEF SubRecord, SubPCs, Opening
    <3>2. sub' = s
      BY <1>4, <2>1 DEF read_index
    <3> HIDE DEF s
    <3>3. OpenedAt(s)
      BY <1>1, <1>2, <3>1 DEF OpenedAt, Opening, Reading
    <3>4. GoodSub(s)
      BY <1>1, <3>1, <3>3 DEF GoodSub
    <3> QED BY <1>0, <3>1, <3>2, <3>4, SubMoved
  <2>2. CASE sub.base \in DOMAIN idx /\ sub.next - sub.base >= idx[sub.base]
    <3>1. NoDataYet
      BY <1>4, <2>2 DEF read_index
    <3> QED BY <1>0, <3>1, FileClosed
  <2>3. CASE sub.base \in DOMAIN idx /\ ~(sub.next - sub.base >= idx[sub.base])
    <3> DEFINE p == sub.next - sub.base + 1
               s == [sub EXCEPT !.pc = "read", !.pos = p]
    <3>0. /\ idx[sub.base] \in Nat /\ Len(fileOf(sub.base)) = idx[sub.base] + 1
          /\ \A i \in 1..idx[sub.base] : fileOf(sub.base)[i] # Sentinel
      BY <1>3, <2>3 DEF SealedFile, SealedAt
    <3>1. p \in Nat \ {0} /\ p <= idx[sub.base] /\ sub.base + p - 1 = sub.next
      BY <1>1, <1>2, <2>3, <3>0
    <3>2. sub' = s
      BY <1>4, <2>3 DEF read_index
    <3> HIDE DEF p
    <3>3. /\ s \in SubRecord /\ s.pc = "read" /\ s.base = sub.base /\ s.out = None /\ s.from = sub.from
          /\ s.next = sub.next /\ s.pos = p
      BY <1>1, <3>1 DEF SubRecord, SubPCs, Reading
    <3> HIDE DEF s
    <3>4. AtPlace(s.base, s.pos, s.next, s.is_active)
      <4>1. \A i \in 1..(p - 1) : i \in 1..Len(fileOf(sub.base)) /\ i \in 1..idx[sub.base]
        BY <3>0, <3>1
      <4>2. ReadUpTo(sub.base, p)
        BY <3>0, <4>1 DEF ReadUpTo
      <4>3. p <= Len(fileOf(sub.base)) /\ sub.base + p - 1 <= sub.next
        BY <1>1, <3>0, <3>1
      <4> QED BY <3>1, <3>3, <4>2, <4>3 DEF AtPlace
    <3>5. OpenedAt(s)
      BY <1>1, <1>2, <1>3, <2>3, <3>3, <3>4 DEF OpenedAt, Reading
    <3>6. GoodSub(s)
      BY <1>1, <3>3, <3>5 DEF GoodSub
    <3> QED BY <1>0, <3>2, <3>3, <3>6, SubMoved
  <2> QED BY <2>1, <2>2, <2>3
<1>5. CASE NextMetadata
  <2> DEFINE a == sub.base \notin DOMAIN idx
  <2>0. sub.base = sub.next
    BY <1>1, <1>5 DEF NextMetadata, SubAt, OpenedAt
  <2>1. PICK s : s = [sub EXCEPT !.pc = "arm", !.pos = 1, !.is_active = a]
    OBVIOUS
  <2>2. sub' = s
    BY <1>5, <2>1 DEF NextMetadata
  <2>3. a \in BOOLEAN
    OBVIOUS
  <2>4. a \/ sub.base \in DOMAIN idx
    OBVIOUS
  <2> HIDE DEF a
  <2>5. /\ s \in SubRecord /\ s.pc = "arm" /\ s.base = sub.base /\ s.out = None /\ s.from = sub.from
        /\ s.next = sub.next /\ s.pos = 1 /\ s.is_active = a
    <3>1. "arm" \in SubPCs /\ 1 \in Nat \ {0}
      BY DEF SubPCs, Reading
    <3> QED BY <1>1, <2>1, <2>3, <3>1 DEF SubRecord
  <2>6. ~s.is_active => 1 <= Len(fileOf(sub.base)) /\ sub.base \in DOMAIN unlinked \cup Indexed
    <3>1. ~s.is_active => sub.base \in DOMAIN idx
      BY <2>4, <2>5
    <3>2. sub.base \in DOMAIN idx => 1 <= Len(fileOf(sub.base))
      BY <1>3 DEF SealedFile, SealedAt
    <3> QED BY <1>3, <3>1, <3>2
  <2>7. AtPlace(s.base, s.pos, s.next, s.is_active)
    <3>1. sub.base + 1 - 1 = sub.next /\ sub.next <= sub.next /\ 1..(1 - 1) = {}
      BY <1>1, <2>0
    <3>2. ReadUpTo(sub.base, 1)
      BY <3>1 DEF ReadUpTo
    <3> QED BY <2>5, <2>6, <3>1, <3>2 DEF AtPlace
  <2>8. OpenedAt(s)
    BY <1>2, <2>5, <2>6, <2>7 DEF OpenedAt, Reading
  <2>9. GoodSub(s)
    <3>1. s.pc # "none" /\ s.pc \notin NeedsFile /\ s.out \notin {"Expired", "FullyEvicted", "Corrupted"}
      BY <1>1, <2>5 DEF NeedsFile, Opening
    <3> QED BY <2>5, <2>8, <3>1 DEF GoodSub
  <2> QED BY <1>0, <2>2, <2>5, <2>9, SubMoved
<1> QED BY <1>4, <1>5

\* The reads that deliver nothing.
LEMMA ReadSteps ==
    ASSUME LogAll, FilesInv, SubInv, SeekRecord \/ ReadEof \/ ReadGarbage \/ ReadSentinel
    PROVE  SubInv'
<1>0. /\ up /\ LogSame /\ delivered' = delivered /\ sub.pc \notin {"none", "closed"} /\ Unlinked
      /\ sub.pc \in {"seek", "read"}
  BY DEF SeekRecord, ReadEof, ReadGarbage, ReadSentinel, SubAt, Quietly, LogSame, SubInv
<1>1. /\ sub \in SubRecord /\ sub.out = None /\ None # "Expired" /\ None # "Corrupted" /\ None # "FullyEvicted"
  BY <1>0, SubFacts
<1>2. /\ sub.base \in DOMAIN segs \cup DOMAIN unlinked /\ sub.base <= sub.next
      /\ sub.base \in Nat /\ sub.base # None /\ sub.pos \in Nat \ {0} /\ sub.next \in Nat
      /\ ~sub.is_active => sub.base \in DOMAIN unlinked \cup Indexed
      /\ AtPlace(sub.base, sub.pos, sub.next, sub.is_active)
      /\ slots = fileOf(sub.base) /\ Len(slots) \in Nat
  BY <1>0, PlaceFacts
\* The reader stays at its place.
<1>3. ASSUME NEW pc \in {"read", "wait", "next_segment"}, sub' = [sub EXCEPT !.pc = pc]
      PROVE  SubInv'
  <2> DEFINE s == [sub EXCEPT !.pc = pc]
  <2>1. /\ s \in SubRecord /\ s.pc = pc /\ s.base = sub.base /\ s.out = None /\ s.from = sub.from
        /\ s.next = sub.next /\ s.pos = sub.pos /\ s.is_active = sub.is_active
    BY <1>1, <1>3 DEF SubRecord, SubPCs, Reading
  <2>2. sub' = s
    BY <1>3
  <2> HIDE DEF s
  <2>3. OpenedAt(s)
    BY <1>2, <1>3, <2>1 DEF OpenedAt, Reading
  <2>4. GoodSub(s)
    BY <1>1, <1>2, <1>3, <2>1, <2>3 DEF GoodSub
  <2> QED BY <1>0, <2>1, <2>2, <2>4, SubMoved
<1>4. CASE ReadSentinel
  BY <1>3, <1>4 DEF ReadSentinel
<1>5. CASE ReadEof
  <2>1. sub.is_active
    <3>1. sub.pos > Len(fileOf(sub.base))
      BY <1>2, <1>5 DEF ReadEof, AtEof
    <3> QED BY <1>2, <3>1 DEF AtPlace
  <2> QED BY <1>3, <1>5, <2>1 DEF ReadEof
<1>6. CASE SeekRecord
  <2>1. CASE sub' = [sub EXCEPT !.pc = "read"]
    BY <1>3, <2>1
  <2>2. CASE NoDataYet
    BY <1>0, <2>2, FileClosed
  <2>3. CASE /\ sub' = [sub EXCEPT !.pos = @ + 1]
             /\ sub.base + sub.pos - 1 # sub.next /\ ~AtEof /\ ~AtSentinel
    <3> DEFINE s == [sub EXCEPT !.pos = @ + 1]
    <3>0. sub.pc = "seek"
      BY <1>6 DEF SeekRecord, SubAt
    <3>1. /\ s \in SubRecord /\ s.pc = sub.pc /\ s.base = sub.base /\ s.out = None /\ s.from = sub.from
          /\ s.next = sub.next /\ s.pos = sub.pos + 1 /\ s.is_active = sub.is_active
      BY <1>1, <1>2 DEF SubRecord
    <3>2. sub' = s
      BY <2>3
    <3> HIDE DEF s
    <3>3. AtPlace(sub.base, sub.pos + 1, sub.next, sub.is_active)
      <4>1. sub.is_active
        BY <1>2, <2>3 DEF AtPlace
      <4>2. sub.pos <= Len(fileOf(sub.base)) /\ fileOf(sub.base)[sub.pos] # Sentinel
        BY <1>2, <2>3 DEF AtEof, AtSentinel
      <4> QED BY <1>0, <1>2, <2>3, <4>1, <4>2, NextPlace
    <3>4. OpenedAt(s)
      BY <1>2, <3>0, <3>1, <3>3 DEF OpenedAt, Reading
    <3>5. GoodSub(s)
      BY <1>1, <1>2, <3>0, <3>1, <3>4 DEF GoodSub
    <3> QED BY <1>0, <3>1, <3>2, <3>5, SubMoved
  <2> QED BY <1>6, <2>1, <2>2, <2>3 DEF SeekRecord
<1>7. CASE ReadGarbage
  <2> DEFINE q == sub.pos - 1
             n == Len(delivered)
  <2>0. /\ sub.pos > 1 /\ slots[q] # delivered[n] /\ slots[q].off = sub.next - 1 /\ delivered # <<>>
        /\ Fail("Corrupted")
    BY <1>7 DEF ReadGarbage
  <2>1. delivered \in Seq(Record) /\ sub.next = sub.from + n /\ sub.from \in Nat /\ Delivered
    BY <1>1 DEF SubInv, SubTypes, SubRecord
  <2>2. n \in Nat \ {0}
    BY <2>0, <2>1, EmptySeq, LenProperties
  <2> HIDE DEF n
  <2>3. n \in 1..n /\ sub.from + n - 1 = sub.next - 1 /\ sub.next - 1 \in Nat
    BY <2>1, <2>2
  <2>4. delivered[n] \in Record /\ Known(delivered[n], sub.next - 1)
    <3>1. n \in 1..Len(delivered)
      BY <2>3 DEF n
    <3>2. Known(delivered[n], sub.from + n - 1)
      BY <2>1, <3>1 DEF Delivered
    <3> QED BY <2>1, <2>3, <3>1, <3>2, ElementOfSeq
  <2>5. SomeFailed
    <3>1. SUFFICES ASSUME ~SomeFailed PROVE FALSE
      OBVIOUS
    <3>2. q \in 1..(sub.pos - 1)
      BY <1>2, <2>0
    <3>3. q \in 1..Len(fileOf(sub.base)) /\ fileOf(sub.base)[q] # Sentinel
      BY <1>2, <3>1, <3>2 DEF AtPlace, ReadUpTo
    <3>4. /\ slots[q] \in Record /\ slots[q].off = sub.base + q - 1
          /\ Known(slots[q], sub.base + q - 1)
      BY <1>0, <1>2, <3>3, SlotKnown
    <3>5. sub.base + q - 1 = sub.next - 1
      BY <2>0, <3>4
    <3>6. Known(slots[q], sub.next - 1)
      BY <3>4, <3>5
    <3> HIDE DEF q
    <3> QED BY <1>0, <2>0, <2>3, <2>4, <3>1, <3>4, <3>6, KnownOnce
  <2> QED BY <1>0, <2>0, <2>5, FileClosed
<1> QED BY <1>4, <1>5, <1>6, <1>7

\* An entry is delivered, or an old record skipped.
LEMMA DeliverStep ==
    ASSUME LogAll, FilesInv, SubInv, DeliverNext
    PROVE  SubInv'
<1> DEFINE r == slots[sub.pos]
<1>0. /\ up /\ LogSame /\ sub.pc = "read" /\ SubTypes /\ Unlinked /\ Delivered /\ ~AtEof /\ ~AtSentinel
  BY DEF DeliverNext, SubAt, LogSame, SubInv
<1>1. /\ sub \in SubRecord /\ sub.out = None /\ None # "Expired" /\ None # "Corrupted" /\ None # "FullyEvicted"
  BY <1>0, SubFacts
<1>2. /\ sub.base \in DOMAIN segs \cup DOMAIN unlinked /\ sub.base <= sub.next
      /\ sub.base \in Nat /\ sub.base # None /\ sub.pos \in Nat \ {0} /\ sub.next \in Nat
      /\ ~sub.is_active => sub.base \in DOMAIN unlinked \cup Indexed
      /\ AtPlace(sub.base, sub.pos, sub.next, sub.is_active)
      /\ slots = fileOf(sub.base) /\ Len(slots) \in Nat
  BY <1>0, PlaceFacts
<1>3. sub.pos \in 1..Len(fileOf(sub.base)) /\ sub.pos <= Len(fileOf(sub.base)) /\ r # Sentinel
  BY <1>0, <1>2 DEF AtEof, AtSentinel
<1>4. r \in Record /\ r.off = sub.base + sub.pos - 1 /\ Known(r, sub.base + sub.pos - 1)
  BY <1>0, <1>2, <1>3, SlotKnown
<1>5. /\ sub.base + sub.pos - 1 <= sub.next
      /\ ~sub.is_active => sub.base + sub.pos - 1 = sub.next
  BY <1>2 DEF AtPlace
<1>6. \/ /\ r.off < sub.next /\ sub.is_active
         /\ sub' = [sub EXCEPT !.pc = "arm", !.pos = @ + 1] /\ delivered' = delivered
      \/ /\ r.off = sub.next
         /\ sub' = [sub EXCEPT !.pc = "arm", !.pos = @ + 1, !.next = @ + 1]
         /\ delivered' = Append(delivered, r)
  <2>1. r.off = sub.next \/ (r.off < sub.next /\ sub.is_active)
    BY <1>2, <1>4, <1>5
  <2>2. r.off = sub.next => ~(r.off < sub.next)
    BY <1>2
  <2> QED BY <2>1, <2>2 DEF DeliverNext
<1> HIDE DEF r
<1>7. CASE /\ r.off < sub.next /\ sub.is_active
           /\ sub' = [sub EXCEPT !.pc = "arm", !.pos = @ + 1] /\ delivered' = delivered
  <2>0. PICK s : s = [sub EXCEPT !.pc = "arm", !.pos = @ + 1]
    OBVIOUS
  <2>1. /\ s \in SubRecord /\ s.pc = "arm" /\ s.base = sub.base /\ s.out = None /\ s.from = sub.from
        /\ s.next = sub.next /\ s.pos = sub.pos + 1 /\ s.is_active = sub.is_active
    <3>1. "arm" \in SubPCs
      BY DEF SubPCs, Reading
    <3>2. sub.pos + 1 \in Nat \ {0} /\ sub.next + 1 \in Nat
      BY <1>2
    <3> QED BY <1>1, <2>0, <3>1, <3>2 DEF SubRecord
  <2>2. sub' = s
    BY <1>7, <2>0
  <2>3. AtPlace(sub.base, sub.pos + 1, sub.next, sub.is_active)
    <3>1. sub.base + sub.pos - 1 # sub.next
      BY <1>2, <1>4, <1>7
    <3> QED BY <1>0, <1>2, <1>3, <1>7, <3>1, NextPlace DEF r
  <2>4. OpenedAt(s)
    BY <1>2, <2>1, <2>3 DEF OpenedAt, Reading
  <2>5. GoodSub(s)
    BY <1>1, <1>2, <2>1, <2>4 DEF GoodSub
  <2> QED BY <1>0, <1>7, <2>1, <2>2, <2>5, SubMoved
<1>8. CASE /\ r.off = sub.next
           /\ sub' = [sub EXCEPT !.pc = "arm", !.pos = @ + 1, !.next = @ + 1]
           /\ delivered' = Append(delivered, r)
  <2> DEFINE n == Len(delivered)
  <2>0. PICK s : s = [sub EXCEPT !.pc = "arm", !.pos = @ + 1, !.next = @ + 1]
    OBVIOUS
  <2>1. /\ s \in SubRecord /\ s.pc = "arm" /\ s.base = sub.base /\ s.out = None /\ s.from = sub.from
        /\ s.next = sub.next + 1 /\ s.pos = sub.pos + 1 /\ s.is_active = sub.is_active
    <3>1. "arm" \in SubPCs
      BY DEF SubPCs, Reading
    <3>2. sub.pos + 1 \in Nat \ {0} /\ sub.next + 1 \in Nat
      BY <1>2
    <3> QED BY <1>1, <2>0, <3>1, <3>2 DEF SubRecord
  <2>2. sub' = s
    BY <1>8, <2>0
  <2>3. AtPlace(sub.base, sub.pos + 1, sub.next + 1, sub.is_active)
    <3>1. sub.next + 1 # sub.next
      BY <1>2
    <3> QED BY <1>0, <1>2, <1>3, <3>1, NextPlace DEF r
  <2>4. sub.base <= sub.next + 1
    BY <1>2
  <2>5. OpenedAt(s)
    BY <1>2, <2>1, <2>3, <2>4 DEF OpenedAt, Reading
  <2>6. /\ delivered \in Seq(Record) /\ sub.from \in Nat /\ sub.next = sub.from + n /\ n \in Nat
    BY <1>0, <1>1, LenProperties DEF SubTypes, SubRecord
  <2>7. /\ delivered' \in Seq(Record) /\ Len(delivered') = n + 1 /\ delivered'[n + 1] = r
        /\ \A i \in 1..n : delivered'[i] = delivered[i]
    BY <1>4, <1>8, <2>6, AppendProperties
  <2>8. SubTypes'
    <3>1. up' /\ s.pc # "none" /\ s.pc \notin NeedsFile
      BY <1>0, <2>1 DEF LogSame, vars, NeedsFile, Opening
    <3>2. s.next = s.from + Len(delivered')
      BY <2>1, <2>6, <2>7
    <3> QED BY <2>1, <2>2, <2>7, <3>1, <3>2 DEF SubTypes
  <2>9. Opened'
    <3>1. OpenedAt(s)'
      BY <1>0, <2>5, FilesSame
    <3> QED BY <2>2, <3>1 DEF Opened, OpenedAt, AtPlace, ReadUpTo, fileOf
  <2>10. Delivered'
    <3>1. ASSUME NEW i \in 1..(n + 1), NEW d, NEW o, d = delivered'[i], o = sub.from + i - 1
          PROVE  d.off = o /\ Known(d, o)'
      <4>1. CASE i \in 1..n
        <5>1. d.off = o /\ Known(d, o)
          BY <1>0, <2>7, <3>1, <4>1 DEF Delivered
        <5> QED BY <1>0, <5>1, FilesSame
      <4>2. CASE i = n + 1
        <5>1. d = r /\ o = sub.next
          BY <2>6, <2>7, <3>1, <4>2
        <5>2. sub.base + sub.pos - 1 = sub.next
          BY <1>4, <1>8
        <5>3. d.off = o /\ Known(d, o)
          BY <1>4, <1>8, <5>1, <5>2
        <5> QED BY <1>0, <5>3, FilesSame
      <4> QED BY <2>6, <4>1, <4>2
    <3>2. s.from = sub.from /\ Len(delivered') = n + 1
      BY <2>1, <2>7
    <3> HIDE DEF n
    <3> QED BY <2>2, <3>1, <3>2 DEF Delivered, Known, Failed, InFlight, IsStored, file
  <2>11. Justified'
    BY <1>1, <2>1, <2>2 DEF Justified
  <2> QED BY <1>0, <2>8, <2>9, <2>10, <2>11, FilesSame DEF SubInv
<1> QED BY <1>6, <1>7, <1>8

\* A consumer subscribes or closes its subscription.
LEMMA ConsumerSteps ==
    ASSUME LogAll, FilesInv, SubInv, close \/ \E from \in Froms : subscribe(from)
    PROVE  SubInv'
<1>1. CASE close
  <2>0. up /\ LogSame /\ delivered' = delivered /\ sub.pc = "arm"
    BY <1>1 DEF close, SubAt, Quietly, LogSame
  <2>1. /\ sub \in SubRecord /\ sub.out = None /\ None # "Expired" /\ None # "Corrupted" /\ None # "FullyEvicted"
    BY <2>0, SubFacts
  <2>2. PICK s : s = [sub EXCEPT !.pc = "closed", !.base = None]
    OBVIOUS
  <2>3. s \in SubRecord /\ s.pc = "closed" /\ s.base = None /\ s.out = None /\ s.from = sub.from /\ s.next = sub.next
    BY <2>1, <2>2 DEF SubRecord, SubPCs
  <2>4. sub' = s
    BY <1>1, <2>2 DEF close
  <2>5. GoodSub(s)
    BY <2>1, <2>3 DEF GoodSub, OpenedAt, NeedsFile, Opening
  <2> QED BY <2>0, <2>3, <2>4, <2>5, SubMoved
<1>2. CASE \E from \in Froms : subscribe(from)
  <2>1. PICK from \in Froms : subscribe(from)
    BY <1>2
  <2>2. /\ up /\ LogSame /\ delivered' = delivered /\ sub.pc = "none" /\ SubTypes /\ Unlinked
        /\ sub' = [NoSub EXCEPT !.pc = "arm", !.from = from, !.next = from]
    BY <2>1 DEF subscribe, LogSame, At, SubInv
  <2>3. delivered = <<>> /\ from \in Nat
    BY <2>2, SubAssumption DEF SubTypes
  <2>4. PICK s : s = sub'
    OBVIOUS
  <2>5. s \in SubRecord /\ s.pc = "arm" /\ s.base = None /\ s.out = None /\ s.from = from /\ s.next = from
    <3>1. "arm" \in SubPCs
      BY DEF SubPCs, Reading
    <3>2. NoSub \in SubRecord /\ NoSub.base = None /\ NoSub.out = None
      BY DEF NoSub, SubRecord, SubPCs
    <3> QED BY <2>2, <2>3, <2>4, <3>1, <3>2 DEF SubRecord
  <2>6. Len(<<>>) = 0 /\ <<>> \in Seq(Record) /\ from = from + 0
    BY <2>3
  <2>7. SubTypes'
    <3>1. up' /\ s.pc # "none" /\ s.pc \notin NeedsFile
      BY <2>2, <2>5 DEF LogSame, vars, NeedsFile, Opening
    <3> QED BY <2>2, <2>3, <2>4, <2>5, <2>6, <3>1 DEF SubTypes
  <2>8. Opened'
    BY <2>4, <2>5 DEF Opened, OpenedAt
  <2>9. Delivered'
    BY <2>2, <2>3, <2>6 DEF Delivered
  <2>10. Justified'
    BY <2>4, <2>5, SubAssumption DEF Justified
  <2> QED BY <2>2, <2>7, <2>8, <2>9, <2>10, FilesSame DEF SubInv
<1> QED BY <1>1, <1>2

\* A step that changes nothing.
LEMMA SubStutters ==
    ASSUME SubInv, UNCHANGED allVars
    PROVE  SubInv'
<1>0. LogSame /\ sub' = sub /\ delivered' = delivered /\ up' = up
  BY DEF allVars, subVars, LogSame, vars
<1>1. SubTypes'
  BY <1>0 DEF SubInv, SubTypes
<1>2. Unlinked' /\ Justified'
  BY <1>0, FilesSame DEF SubInv, Justified
<1>3. Opened'
  <2>1. PICK s : s = sub
    OBVIOUS
  <2>2. OpenedAt(s)'
    BY <1>0, <2>1, FilesSame DEF SubInv, Opened
  <2> QED BY <1>0, <2>1, <2>2 DEF Opened, OpenedAt, AtPlace, ReadUpTo, fileOf
<1>4. Delivered'
  <2>1. ASSUME NEW i \in 1..Len(delivered), NEW d, NEW o, d = delivered[i], o = sub.from + i - 1
        PROVE  d.off = o /\ Known(d, o)'
    <3>1. d.off = o /\ Known(d, o)
      BY <2>1 DEF SubInv, Delivered
    <3> QED BY <1>0, <3>1, FilesSame
  <2> QED BY <1>0, <2>1 DEF Delivered, Known, Failed, InFlight, IsStored, file
<1> QED BY <1>1, <1>2, <1>3, <1>4 DEF SubInv

\* Every step of the composed system is one of the log or leaves the log alone.
LEMMA SubStepIsLogStep == [SubNext]_allVars => [Next]_vars
<1> SUFFICES ASSUME [SubNext]_allVars PROVE [Next]_vars
  OBVIOUS
<1>1. CASE LogStep
  BY <1>1 DEF LogStep, Notify, Unlink, Die, Next
<1>2. CASE SubStep
  BY <1>2
  DEF SubStep, Arm, scan_segments, read_watermark, OpenSegment, Rescan, Metadata, read_index, SeekRecord,
      DeliverNext, ReadEof, ReadGarbage, ReadSentinel, NextSegment, NextMetadata, Wake, Quietly
<1>3. CASE close \/ \E from \in Froms : subscribe(from)
  BY <1>3 DEF close, Quietly, subscribe
<1>4. CASE UNCHANGED allVars
  BY <1>4 DEF allVars
<1> QED BY <1>1, <1>2, <1>3, <1>4 DEF SubNext

\* Only retention unlinks a file.
LEMMA NotDeleting ==
    ASSUME LogInv, CommitBatch \/ QuietStep
    PROVE  ~delete_segment /\ up'
<1>0. call \in CallRecord
  BY DEF LogInv, CallInv, CallTypes, CallRecord
<1>1. ASSUME delete_segment PROVE up /\ call.pc = "retention" /\ call'.pc = "retention"
  BY <1>1 DEF delete_segment, At
<1>2. CASE RetentionDone \/ DeleteErr \/ Cancel
  <2>1. up' /\ call'.pc = "idle"
    BY <1>2 DEF RetentionDone, DeleteErr, Cancel, At, Return, Idle
  <2> QED BY <1>1, <2>1
<1>3. CASE Open
  BY <1>1, <1>3 DEF Open
<1>4. CASE CommitBatch
  <2>1. up' = up /\ up /\ call.pc = "commit"
    BY <1>4 DEF CommitBatch, At
  <2> QED BY <1>1, <2>1
<1>5. CASE \/ ensure_active \/ write_record \/ sync_all \/ RollSync \/ WriteSentinel \/ SyncSentinel
           \/ write_index \/ CloseSegment \/ write_watermark \/ (\E n \in Sizes : AppendCall(n))
           \/ EnsureActiveErr \/ WriteErr \/ SyncErr \/ PositionErr \/ RollErr \/ WatermarkErr
  <2>1. up' = up /\ up /\ call.pc # "retention"
    BY <1>5
    DEF ensure_active, write_record, sync_all, RollSync, WriteSentinel, SyncSentinel, write_index,
        CloseSegment, write_watermark, AppendCall, EnsureActiveErr, WriteErr, SyncErr, PositionErr,
        RollErr, WatermarkErr, At
  <2> QED BY <1>1, <2>1
<1> QED BY <1>2, <1>3, <1>4, <1>5 DEF QuietStep, Progress

\* Every step, of the log or of the subscription.
LEMMA SubInvStep ==
    ASSUME LogAll, LogAll', FilesInv, SubInv, TailInv, ~strayed', [SubNext]_allVars
    PROVE  FilesInv' /\ SubInv'
<1>0. LogMove
  BY SubStepIsLogStep, PlainStep DEF LogMove
<1>1. FilesInv'
  BY <1>0, FilesStep
<1>2. CASE Notify \/ (QuietStep /\ UNCHANGED subVars)
  <2>1. UnlinkedMove /\ sub' = sub /\ delivered' = delivered /\ up'
    BY <1>2, NotDeleting DEF LogAll, UnlinkedMove, Notify, subVars
  <2> QED BY <1>0, <1>1, <2>1, LogSteps
<1>3. CASE Unlink
  <2>1. UnlinkedMove /\ sub' = sub /\ delivered' = delivered /\ up'
    BY <1>3 DEF UnlinkedMove, Unlink, delete_segment, At
  <2> QED BY <1>0, <1>1, <2>1, LogSteps
<1>4. CASE Die
  BY <1>0, <1>1, <1>4, DieStep
<1>5. CASE SubStep
  BY <1>1, <1>5, FindSteps, IndexSteps, ReadSteps, DeliverStep DEF SubStep
<1>6. CASE close \/ \E from \in Froms : subscribe(from)
  BY <1>1, <1>6, ConsumerSteps
<1>7. CASE UNCHANGED allVars
  BY <1>1, <1>7, SubStutters
<1> QED BY <1>2, <1>3, <1>4, <1>5, <1>6, <1>7 DEF SubNext, LogStep

\* A subscription that has just started.
LEMMA SubInvInit ==
    ASSUME SubInit
    PROVE  FilesInv /\ SubInv
<1>1. /\ sub = NoSub /\ delivered = <<>> /\ DOMAIN unlinked = {} /\ Init
  BY DEF SubInit
<1>2. /\ NoSub.base = None /\ NoSub.out = None /\ NoSub \in SubRecord /\ Len(<<>>) = 0
      /\ NoSub.next = NoSub.from + 0 /\ NoSub.pc \notin NeedsFile
  BY DEF NoSub, SubRecord, SubPCs, NeedsFile, Opening
<1>3. SubTypes
  BY <1>1, <1>2 DEF SubTypes
<1>4. Opened /\ Unlinked
  BY <1>1, <1>2 DEF Opened, OpenedAt, Unlinked
<1>5. Delivered
  BY <1>1, <1>2 DEF Delivered
<1>6. Justified
  BY <1>1, <1>2, SubAssumption DEF Justified
<1> QED BY <1>1, <1>3, <1>4, <1>5, <1>6, FilesInit DEF SubInv

\* The two invariants hold until an append goes around left-overs.
LEMMA SubAlways ==
    ASSUME ~Cancels
    PROVE  SubSpec => [](strayed \/ (LogAll /\ SubInv))
<1> DEFINE Log == LogInv /\ TailInv /\ EvictedFits /\ (strayed \/ AckInv)
           Shut == strayed \/ IndexedIsClosed
           Subs == strayed \/ (FilesInv /\ SubInv)
<1>1. Init => Shut
  BY DEF Init, IndexedIsClosed
<1>2. Log /\ Shut /\ [Next]_vars => Shut'
  BY IndexedStep, PlainStep, TailStep
<1>3. Spec => [](Log /\ Shut)
  BY <1>1, <1>2, AckAlways, PTL DEF Spec
<1>4. SubSpec => Spec
  <2>1. SubInit => Init
    BY DEF SubInit
  <2> QED BY <2>1, SubStepIsLogStep, PTL DEF SubSpec, Spec
<1>5. SubInit => Subs
  BY SubInvInit
<1>6. Log /\ Shut /\ Log' /\ Shut' /\ Subs /\ [SubNext]_allVars => Subs'
  <2> SUFFICES ASSUME Log, Shut, Log', Shut', Subs, [SubNext]_allVars, ~strayed'
               PROVE  FilesInv' /\ SubInv'
    OBVIOUS
  <2>1. ~strayed
    BY SubStepIsLogStep, TailStep
  <2>2. LogAll /\ FilesInv /\ SubInv /\ TailInv
    BY <2>1 DEF LogAll
  <2>3. LogAll'
    BY DEF LogAll
  <2> QED BY <2>2, <2>3, SubInvStep
<1>7. Log /\ Shut /\ Subs => strayed \/ (LogAll /\ SubInv)
  BY DEF LogAll
<1> QED BY <1>3, <1>4, <1>5, <1>6, <1>7, PTL DEF SubSpec

-----------------------------------------------------------------------------
(***************************************************************************)
(* "Entries are delivered in ascending offset order without gaps", for     *)
(* every interleaving of a subscription with appends, I/O errors, rolls,   *)
(* evictions and crashes that aborts no append: the i-th entry is the one  *)
(* the log stores at its offset, or one that an append wrote and had not   *)
(* committed (until an append goes around left-overs).                     *)
(***************************************************************************)
THEOREM DeliveredExactAlways ==
    ASSUME ~Cancels
    PROVE  SubSpec => []DeliveredExact
<1>1. strayed \/ (LogAll /\ SubInv) => DeliveredExact
  <2> SUFFICES ASSUME SubInv, NEW i \in DOMAIN delivered
               PROVE  /\ delivered[i].off = sub.from + i - 1
                      /\ \/ Uncommitted(delivered[i].id)
                         \/ /\ sub.from + i - 1 < Len(stored)
                            /\ stored[sub.from + i - 1 + 1] = delivered[i]
    BY DEF DeliveredExact
  <2>1. i \in 1..Len(delivered)
    BY LenProperties DEF SubInv, SubTypes
  <2>2. delivered[i].off = sub.from + i - 1 /\ Known(delivered[i], sub.from + i - 1)
    BY <2>1 DEF SubInv, Delivered
  <2> QED BY <2>2 DEF Known, Failed, InFlight, IsStored, Uncommitted, Writing
<1> QED BY <1>1, SubAlways, PTL

(***************************************************************************)
(* What a subscription reports when it ends with an error: an offset that  *)
(* expired with later ones available has been evicted, one that expired    *)
(* with nothing available was stored, and corruption is reported only      *)
(* after an append has failed, never for a roll or an eviction between two *)
(* reads (until an append goes around left-overs).                         *)
(***************************************************************************)
THEOREM ErrorsJustifiedAlways ==
    ASSUME ~Cancels
    PROVE  SubSpec => []ErrorsJustified
<1>1. strayed \/ (LogAll /\ SubInv) => ErrorsJustified
  BY DEF SubInv, Justified, ErrorsJustified
<1> QED BY <1>1, SubAlways, PTL

=============================================================================
