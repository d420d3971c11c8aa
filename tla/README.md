# A verification development for the Open Timekeeping core

TLA+ models of the timing node, from the producers' sockets to the segment files
and the HTTP API, TLC configurations that check them, and TLAPS proofs. Paths
below are relative to the repository.

## 1. The system

Producers (transponder decoders, beam gates, the simulated producer) connect to
the timing node, handshake, and send a stream of events. The node drops
duplicates, derives *crossings* from the *detections*, stores both in an
append-only log and serves the log over HTTP.

| Component | State | Operations | Interacts with |
|---|---|---|---|
| Event model (`event-model`) | none | field access, CBOR | everything |
| Sequence gate (`timing-core/src/domain/sequence_gate.rs`) | highest stored sequence number per (producer, detector), one mutex | `peek`, `commit`, `seed_from_log` | called by the ingest service; rebuilt from the log at start |
| Crossing processor (`timing-core/src/domain/crossing_processor.rs`) | pending detections per (timing point, subject), one mutex | `peek_detection`, `commit_detection`, `flush` (unused by the node) | called by the ingest service |
| Ingest service (`timing-core/src/services/event_ingest.rs`) | the gate, the processor, the log, each behind its own mutex | `append_event`, the query port | called by every session task |
| Listener and sessions (`timing-node/src/ingest.rs`) | a `JoinSet` of tasks | accept, read, append, reap, drain | ports, ingest service, shutdown watch |
| EventLog port (`timing-core/src/ports/outbound/event_log.rs`) | entries, offsets | `append`, `read_range`, `latest_offset`, `earliest_offset`, `subscribe` | implemented by the segment log |
| Segment log (`adapter-event-log-segment/src/log.rs`, `segment.rs`) | `.seg`, `.idx`, `WATERMARK` files; closed and active segments, `next_offset`, `poisoned` | `open`, `append`, roll, retention, reads | file system |
| Subscription (`adapter-event-log-segment/src/subscription.rs`) | next offset, open file | `next_entry`, `close` | reads the files without the log's lock; woken by a `Notify` |
| Handshake and processing (`ingest-protocol`, `otk-protocol`) | producer id of a session | handshake, `process` | TCP and Unix-socket adapters |
| TCP and Unix-socket adapters (`adapter-ingest-tcp`, `adapter-ingest-unix-socket`) | decoder, envelopes decoded and not returned yet | `bind`, `accept`, `next_event` | listener, frame codec, file system |
| Frame codec (`frame-codec`) | bytes of an incomplete frame, bytes to skip | `push`, `has_pending`, encoders | adapters, SDK |
| Supervisor (`timing-node/src/lib.rs`) | task set, cause of the shutdown | start, supervise, drain with a deadline | all tasks, shutdown watch |
| Reload and auth (`timing-node/src/reload.rs`, `auth.rs`) | last applied configuration, token sets | watch, compare, swap | file system, handshakes, requests |
| Metrics (`timing-node/src/metrics.rs`) | series maps, overflow counters | add, render | sessions, API |
| HTTP API (`timing-node/src/api.rs`) | open streams | pages, stream, status | query port, tokens |
| Reference log (`conformance/src/mem_log.rs`) | entries, retention boundary, a `Notify` | the EventLog port, `evict_below` | conformance suite |
| SDK and simulated producer (`otk-sdk`, `producer-simulated`) | connection, sequence counter, phase | connect, send, disconnect | node |

**What is hard here.** `append_event` never holds two of its three mutexes at
once, so calls of different sessions interleave between its phases. The node
sends no acknowledgement after the handshake: a producer never knows what was
stored and resends. Storage can fail before, inside and *after* its commit
point, its clean-up can fail too, and the process can die between any two file
operations or abort a task at an await. The listener awaits one handshake at a
time in a `select` whose other branches drop it. The stream is cut anywhere and
ends anywhere. Two drain deadlines are nested, and every task's exit is a reason
to stop. The gate, the pending groups and the
counters are memory only; the gate alone is rebuilt.

**What makes each component correct.** Gate: never ahead of the log, never
behind what is retained. Ingest: nothing stored twice, nothing skipped, a gap
metered once. Crossings: every stored detection in exactly one group. Log:
offsets are positions, acknowledged batches survive, a batch is all or nothing,
the directory always opens. Subscription: every entry once and in order, never
stuck. Listener: only admitted producers, in order, nothing lost before a clean
end, a truncated stream told from a closed one, every producer answered, every
shutdown completed. Codec: any cutting of the wire gives the same frames.
Metrics: every event counted once. Supervisor: a dead task or a signal ends the
node within its deadlines with an honest exit code, and no other node's socket is
taken. Reload: the tokens in force are those of the file. API: pages and streams
show every retained entry once and do not hang. Where the code falls short of
this, section 3 says so: violated properties and disagreements.

## 2. Modules

| Module | Models | Extends |
|---|---|---|
| `Events` | `event-model`: the fields decisions depend on | |
| `SequenceGate` | the gate's map as a function, `peek`, `persist`, `commit` | `Events` |
| `Crossing` | the processor's map as a function, peak choice, uncertainty, `peek_detection`, `commit_detection` | `Events` |
| `EventIngest` | `append_event` and `handle_session` over an abstract log, faults, restart and seeding | `SequenceGate`, `Crossing` |
| `EventLog` | the port's promise: whole batches at the tail, eviction from the front; `Salvage` is what recovery may keep beyond it | |
| `SegmentLog` | the segment files and the `SegmentLog` struct, one step per I/O operation; instantiates `EventLog` | |
| `Subscription` | one live subscription, one step per file operation, beside the log's steps | `SegmentLog` |
| `IngestProtocol` | the handshake's decision and reply, `process`, token check, on envelopes reduced to what decides | |
| `Producer` | the SDK's producer under the simulated adapter and runner, scripted producers, lost connections | `IngestProtocol` |
| `Metrics` | one labelled metric: its map, its limit, the overflow sibling | |
| `Listener` | `run_listener`, `handle_session`, both adapters' accept, handshake, reading | `Producer`, `Metrics` |
| `IngestStream` | what a connection promises: a prefix of what was sent, in order; instantiated by `Listener` | |
| `Framing` | both framings byte by byte: encoders, decoders, CRC, COBS | |
| `Node` | processes on one machine: start, bind, supervise, drain, reload | |
| `MemLog` | the conformance kit's reference log with its subscriptions; instantiates `EventLog` | |
| `Api` | token middleware, pages, stream and status over the reference log | `MemLog` |
| `MC*` | instances for TLC of the module they extend | |
| `EventIngestProofs` | theorems about `EventIngest` and `Crossing` | `EventIngest` |
| `DeliveryProofs` | theorems about `EventIngest`: delivery, gaps, crossings | `EventIngestProofs` |
| `ListenerProofs` | theorems about `Listener`, `Producer`, `IngestProtocol`, `Metrics` | `Listener` |
| `NodeProofs` | theorems about `Node` | `Node` |
| `ApiProofs` | theorems about `Api` and `MemLog` | `Api` |
| `SegmentLogProofs` | theorems about `SegmentLog`: what the directory always looks like | `SegmentLog` |
| `SegmentViewProofs` | theorems about `SegmentLog`: what a reader sees, what survives, the port | `SegmentLogProofs` |
| `SubscriptionProofs` | theorems about `Subscription` beside `SegmentLog` | `Subscription`, `SegmentViewProofs` |

Composition: `EventIngest` has the inside of `append_event` and takes sessions as
readers of a plan; `Listener` has everything up to the call of `append_event`,
whose outcome is then a choice between stored, dropped as a duplicate and failed.
`Node` takes a listener as a task that ends within its drain deadline, which
`ShutdownCompletes` shows of `Listener`. `Api` runs over `MemLog`, the
implementation the repository calls its behavioural reference; that log is shown
to implement `EventLog`, the segment log to implement it up to what its recovery
salvages. The node itself serves the segment log, where a stream may not be told
that its offset is gone: `EvictedStreamEnds` is about the handlers, and
`EvictedIsTold` says, with its exception, what the subscription beneath them does.

Definitions that stand for a function carry its name. A definition introduced
by a comment "Variant:" is a plausible bug; each property of a passing run is
shown to be broken by one of them, so that none holds by the shape of the model.

### EventIngest

`sess[s].pc` is the next step of a session task: `next_event` (blocked on the
socket), then, for a detection, `peek_detection` (phase 1 passed),
`append` (phase 2 passed), `commit_gate` and `commit_detection` (phase 3). Each
mutex-protected call is one action. `log` keeps every record ever stored;
`first` is where the retained part starts. `Crash` loses all memory and, if a
batch was being written, keeps any prefix of its records; `Seed` is one turn of
the loop of `seed_from_log`; `StartListeners` needs it to have finished, as
in `timing-node/src/lib.rs`, where the gate is seeded before a listener is
spawned. Switches: `SharedIds` (two live sessions of one producer; the code
allows it), `LateErrors` (an append that stores and then fails), `Retention`,
`Rewind` (a producer resumes at its first event). A producer's events are
`Plan[p]`, any sequence of events. Crossing ids, attestation fields and
timestamps of storage are left out. Gap metering and the append metrics are
one step with `commit_detection`: nothing reads them in between.

### SegmentLog

A `.seg` file is a sequence of slots, `synced` how many of them an fsync has
made durable; slot *i* holds the record at the *i*-th position, or the zero
sentinel. An `.idx` file is the number of its positions, which suffices as
positions are consecutive. `call.pc` walks through `append`, `roll_segment` and
`enforce_retention`; each has its error action. A failed truncation leaves the
written slots, and a later write in front of them keeps them (records of equal
length) or makes them unreadable; `debris` is set while bytes of either kind may
lie behind the active records.

The position after a batch has three outcomes (`CommitBatch`, `PositionErr`).
`stream_position` answers with the end of the batch. If it fails, `seek(End(0))`
answers (`EndPosition`): the same place if nothing lies behind the batch, else
the place behind the left-overs. Later records are then found by their positions,
so readers see no difference, and `astray` remembers what a scan of the file
would meet in front of them; `Crash` leaves the file as that scan finds it
(`scanned`), unless the segment got its index before. `strayed` is the history of
it: the properties about what survives hold until then, and `acked_lost` shows why
no longer. If both queries fail the log is poisoned.

`Cancel` is the abort of the calling task
when the drain deadline of the listener passes. `Crash` keeps of one file any
prefix not shorter than `synced`. `Open` computes what `open()` recovers, or is
disabled when it would answer `Corrupted`. A call aborted between the index and
the end of its roll leaves an active segment with an index; records committed to
it later are readable and not in the index, until it is rolled again
(`BehindIndex`), and a crash in that state loses them, unacknowledged.

Abstractions: a segment must roll at `MaxRecords` and may roll earlier (age);
retention may evict any number of closed segments from the front, which covers
all policies. Assumed: truncation and directory operations are durable at once
(the code fsyncs the directory), `open()` is one step, and the u64 offsets are
not exhausted. `delete_segment` removes the file and the entry in `closed` in
one step: an abort between the two (`log.rs:437-438`) would leave an entry whose
file is gone until the next retention pass, which tolerates that. An empty
active segment is never rolled (`roll_segment` is only called after a commit),
so that branch is left out.

An I/O error is reported by the operation that met it (tokio's `File` may report
a failed background write only at the next one). `flush_interval_ms` is 0, the
default and the only value the node uses; other values skip the fsync and make
no promise of durability.

### Subscription

`sub.pc` follows `next_entry` and `open_to_offset`; each file operation is a
step. `notified` is the state of the `Notified` future created at the top of the
loop: `Arm` creates it, the commit in `append` completes it. A file stays
readable after retention has unlinked it. A directory scan is one step, and the
subscription's own reads do not fail. An entry may be delivered while its append
has not committed; if that append fails, another entry takes the offset and is
not delivered. `DeliveredExact` makes this exception explicit, and holds like
`ErrorsJustified` until an append has gone around left-overs. A subscription ends
as `Expired` (an earlier segment is gone), `FullyEvicted` (no segment, and the
watermark is ahead) or `Corrupted`; of the second `ErrorsJustified` asks only what
the code can know, that the offset is below the tail: the entry may be retained
(section 3, disagreements). `EvictedIsTold` has an exception for a log whose every
entry is evicted: there the subscription waits for the next append.

### Producer and Listener

A frame is two pieces on the wire, its length and its payload; `up[c]` is what
the node has not read, and a read takes any non-empty part of it. `sv[c].pc`
follows a connection through the node (not accepted, TLS, handshake, spawned,
session, metering, finished, gone), `sv[c].pending` is the queue of decoded
envelopes, `sv[c].part` whether the decoder holds part of a frame. `lst` is
`run_listener`: accepting, draining, returned. `Reap` and `StopAccepting` take
the select's other branches, which drop the `accept()` future with the handshake
in it; `Timeout` is `handshake_timeout`, which covers the TLS stage and the
handshake each. `Return` is the end of the drain, by the last task or by the
deadline, whose abort reaches a task where it awaits: spawned and not polled, or
in `next_event` (an abort inside storage is `SegmentLog`'s `Cancel`). `incr` and
`IncrLocked` are the two critical sections of a counter. A simulated producer
sends metadata, health and `Count` detections, sleeping before each;
`SpuriousChange` is the runner's select dropping `next_event` in that sleep. A
scripted producer writes any envelopes, waits for nothing and closes anywhere.
The name a session was registered under is the source of its Connect;
`ProducerId` gives it for each connection, and `NameAssumption` says that a
script's Connect carries it. `Lose` loses the unread part of a connection,
`Kill` ends a producer, maybe in the middle of a frame.

Left out: an error of the socket's accept call itself (the loop tries again at
once), envelopes' trace contexts, and what TLS does to the bytes.

### Framing

A byte has `ByteBits` bits and a length prefix `LengthBytes` bytes; the
arithmetic of the length, the CRC register, the COBS runs and the limits are
those of the code in these units. `Push` gives the decoder the next piece of the
wire, of any size; `out` collects what it returns. Each unit on the wire says
what a receiver should make of it, and the runs compare. CBOR is reduced to a
marker in the first byte.

### Node

`node[i].pc` walks through start-up in the code's order: read the configuration
and refuse what `new_inner` refuses, bind each listener (for a Unix socket the
calls `symlink_metadata`, connect probe, second look, `remove_file`, `bind`,
`set_permissions` are steps, any of which may fail, `UnixBindErr`), bind the
API, open the log, spawn. A running node has tasks (`api`, `watcher`, one per
listener), each running, draining, ended well, panicked or aborted; `joined` is
what the supervisor has seen of them, `elapsed` the drain's age in units of five
seconds. Processes start whenever they like, so two may be in the middle of
their binds at once. `Budgets` says which processes a behaviour may start and how
many starts, edits and kills it has. A listener that ends closes its own socket. At the deadline
a task may have ended without the supervisor having seen it. The configuration
file and the socket path are shared by the processes and the operator, who saves
files that parse and files that do not. A killed process leaves its socket file.
Both token lists of the configuration change together in the model. What the
file watcher reports is a flag: events coalesce, and one that comes before the
watch is set is missed.

### MemLog and Api

Every critical section of the reference log's mutex is a step; `Enable`
registers with the `Notify`, which wakes registered waiters only, and `Recheck`
is the second look. `conn[c]` is a client's request: token middleware, handler,
and for a stream one `next_entry` at a time until the client hangs up or an
error ends it. A client keeps its cursor, asks for the next page or stream from
there and goes on at `earliest_available` when it is told that its offset is
gone, as the API's documentation asks for. A query that fails is a 503 at any
request (`Unavailable`): the reference log never fails, the node's log may. A
second reader subscribes directly, as the conformance suite does, and is evicted
beneath.

## 3. Runs

| Run | Checks | Shows |
|---|---|---|
| `ingest_exclusive` | `TypeOK`, `GateNeverAhead`, `GateCoversLog`, `RetainedOrdered`, `GapsMeteredOnce`, `CrossingsPartition` | two producers at different timing points, one session each, retention and a fault |
| `ingest_resend` | `NothingSkipped`, `AllDelivered` | shared ids and late errors: perhaps twice, never missing; resending gets everything stored |
| `segment_log` | `TypeOK`, `OffsetsArePositions`, `ReadRangeExact`, `AlwaysOpens`, `AckedSurvives`, `ImplementsEventLog` | batches of one and two, I/O errors, aborted calls, crashes, rolls, evictions: what opens, what survives, and the port but for what recovery salvages |
| `subscription` | `DeliveredExact`, `ErrorsJustified`, `GetsNext`, `EvictedIsTold` | a reader of the files beside every step of the log |
| `listener` | `NumbersContiguous`, `GaugeExact`, `CountedOnce`, `TruncationReported`, `OnlyAdmitted`, `CleanMeansAll` | a TLS listener, a simulated and a scripted producer under one name, losses, storage errors, shutdown |
| `listener_live` | `ImplementsStream`, `ConnectAnswered`, `ShutdownCompletes` | a Unix-socket listener: order, answers, shutdown |
| `framing` | `DecodesAsSent`, `PendingExact`, `BufferBounded` | every wire of two units, cut in every way, in both framings |
| `node` | `ExitHonest`, `OnlyApiTimesOut`, `TokensCurrent`, `Stops` | one process with edits, kills and restarts, or two that may bind at once; failures, clients that stay |
| `api` | `ReadsEverything`, `CaughtUp`, `ImplementsPort`, `StreamMovesOn`, `EvictedStreamEnds` | pages and streams beside appends, eviction, a token rotation |
| `dup_two_sessions` | `NoDuplicates` (violated) | two live sessions of one producer store a detection twice |
| `acked_lost` | `AckedNeverLost` (violated) | left-overs, `seek(End(0))` behind them, a crash: acknowledged records are gone |
| `socket_takeover` | `NoSilentTakeover` (violated) | two nodes start at once beside a stale socket |

The violated properties quote a doc or a comment of the repository; `findings`
in `PROJECT.json` has the quotations. Deadlock is not checked: plans, calls,
frames, starts and faults are bounded, and a bounded run may end.

**Other disagreements with the documentation.** Each is stated by a definition of
a module, or follows from one, that TLC finds violated when it is added to the run
named here.

- *Two sessions at one timing point.* `event_ingest.rs:207-209` says that peek and
  commit return identical crossings, as "this mutex guarantees". The mutex is free
  in between: `PeekMatchesCommit` fails in `ingest_exclusive` with
  `Plan <- PlanTogether` and `U64Max = 8`, where two producers report one rider at one timing
  point. The stored crossing then misses a detection or repeats one.
- *Torn batches.* `event_log.rs:293-295` says "Append is atomic". A crash between
  the writes of a batch leaves its first records, and `recover_active` keeps every
  whole record: `AppendAtomic` fails in `segment_log`. `Salvage` in
  `ImplementsEventLog` is exactly this weakening.
- *Reads of what is evicted.* `read_range(o, Some(o))` of an evicted `o` is
  `Ok([])` where `event_log.rs:317-320` asks for `RetentionExpired`
  (`EvictedIsRefused`), and `latest_offset` of a log with everything evicted is not
  `None`, as `event_log.rs:347-348` and `conformance/tests/event_log_retention.rs:84`
  ask for (`NothingIsLatest`); both fail in `segment_log`, and `ReadRangeExact`
  makes no claim of these two cases.
- *A false expiry.* `open_to_offset` looks at the watermark behind its directory
  scan (`subscription.rs:106-116`). When the first segment is written and rolled in
  between, the scan is empty, the watermark is ahead, and a retained entry is
  reported as evicted, against `event_log.rs:240-242`: `ExpiredIsEvicted` fails in
  `subscription`.
- *Evicted and not told.* When the last segment is removed between scan and open,
  the rescan finds nothing, `open_to_offset` returns `Ok(None)`
  (`subscription.rs:138`) without a look at the watermark, and the subscription
  waits for an append that may never come, against `event_log.rs:240-242` and its
  own comment (`subscription.rs:134-136`): `EvictedIsTold` fails without its second
  alternative.
- *A truncated stream on a Unix socket.* `frame-codec/src/stream.rs:73-76` says that
  transports use `has_pending` at the end of the stream to tell a clean close from
  a truncated frame. The Unix session does not (`session.rs:82`):
  `TruncationReported` fails in `listener` with `Transport = "unix"`.
- *Late errors.* `append` can return an error for a batch it has committed
  (`RollErr`). With `LateErrors = TRUE` the retry is stored again
  (`NoDuplicates` fails with one session too).
- *One read, one bad frame.* `fill_pending` drops the good envelopes that were
  decoded in front of a bad frame of the same read.
- *Reaping drops a handshake.* A session that ends while another producer is in
  its handshake drops that handshake; the producer sees the connection closed and
  must try again (the simulated one does not).
- The simulated producer starts its numbers at 0 in every process, so that a
  restarted one is taken for a resending one.
- The overflow counter counts increments, not "label-sets dropped"
  (`metrics.rs:21`).
- The watcher's early return ends the node (`JoinEarly`), although
  `reload.rs:74` says that only hot-reload is disabled. An edit between the load
  of the file and the start of the watch is missed until the next one
  (`missed` in `TokensCurrent`).
- `MemLog::evict_below` can move the boundary back (the run only moves it
  forward, as the suite does). A stream that is open outlives the revocation of
  its token.

**Bounds.** Two sessions and two producers are enough for every race of two
calls; plans have two or three events, so that a group opens and closes, a
sequence has a gap and an anonymous detection and a status event pass; one fault
is a crash, an error or a lost connection at any step. In `ingest_exclusive`
`U64Max` is 2, the largest number of the plans: a mark at the limit occurs, and
no operation adds to it (`peek` adds 1 to a mark only below the offered number).
The segment runs have three appends of one or two events with segments of at most
three records that may roll earlier: they fill segments, straddle the limit and
start over after a complete eviction; three faults (errors, aborts and crashes) allow a failed append whose clean-up failed, a
failed position query and a crash in one behaviour, which `acked_lost` needs. The
subscription run uses three appends and one fault: a backfilled and a live entry
in different segments, and an offset ahead of the tail.

`listener`: one simulated producer with one detection (three events, a Connect
and a Disconnect) and one scripted connection of two frames out of six, so that
a Connect and an event can arrive in one read, and two sessions of one producer
meet in one metric whose map holds two label sets of three. `listener_live` has
two envelopes to choose from and no losses: a behaviour has to be long, not
wide. `framing`: bytes of two bits, lengths of two bytes, frames of at most
three bytes: COBS runs of every length occur, limits are met and exceeded, a
claimed length exceeds the limit by far; two units show that the second is found
after anything that can happen to the first. `node`: either one process with two
starts, two edits, one of which may undo the other, and a kill; or two processes
with a start each, beside each other or one behind the other, with a TCP and a Unix
listener in one configuration. `api`:
three entries in batches of one or two, a client and a direct reader, two
requests, one rotation: a request before and one after any other step.

**Fairness.** `ingest_resend`: weak fairness of the seeding and of each
session's own steps: tokio runs a ready task. Weak fairness of a producer's
reconnection, which is the environment's duty. Nothing is assumed of errors,
disconnections and crashes but that there are finitely many. `subscription`:
weak fairness of the subscription's steps (its consumer polls) and of the
append call in progress. `Listener`: weak fairness of the session tasks, of the
handshake with its deadline, of reaping, draining and returning, and of the
simulated producer's own steps, not of scripted ones, losses or the signal;
strong fairness of accepting each connection, because the backlog is a queue and
only other handshakes, each bounded by a deadline, come first. `Node`: weak
fairness of start-up and of what runs by itself, timers included; not of clients
closing connections, failures, edits or the signal. `Api`: weak fairness of
handlers and of polling a stream; not of clients.

## 4. Proofs

Each theorem holds for every choice of the constants (any sets of producers,
connections, processes, clients, any plan, alphabet, batch size, any number of
faults), from the named assumptions of the modules, which fix types only (and
that the sets of sessions and connections are finite), and from the
hypotheses stated with it. Every argument is the same: an inductive invariant,
checked with TLC on the run's instance before it was proved, and one lemma for
each action.

**`EventIngestProofs`**

- `TypeCorrect`: `Spec => [](TypeOK /\ HoldsEvent)`. `HoldsEvent` is what
  makes the type inductive: a task inside `append_event` holds an event of its
  plan, and a detection where the code took that branch.
- `GateNeverAheadAlways`: with no restriction: with shared ids, late errors,
  eviction, crashes. Strengthened by "a call about to commit the gate has stored
  its event".
- `StoredIsCovered`: `GateCoversLog` when appends fail cleanly. Needs
  "no session runs while seeding" and "what seeding has passed is covered".
- `Idempotent`: `RetainedOrdered` when appends fail cleanly and a
  producer has one live session. The inductive invariant `IngestInv` adds that
  a detection between its peek and its append is ahead of every retained one of
  its detector, which is what `dup_two_sessions`, and a late error, break when
  one of the two conditions is dropped.
- `UncertaintyCovers`: of a crossing made of any number of detections, each lies
  within the reported uncertainty of the reported time, whichever of them is the
  peak (`crossing.rs:31-32`): the widening by the span is enough although the
  peak may lie anywhere in it.

**`DeliveryProofs`** (also about `EventIngest`)

- `NothingSkippedAlways`, if producers resume at their first event (`Rewind`) and
  number upwards (`IncreasingPlan`): sessions may share ids and errors may be
  late. `DeliveryInv`: a stored detection has all of its plan before it stored;
  so a duplicate, whose mark stands for a stored detection, is one.
- `GapsMeteredOnceAlways`, with `~SharedIds` and `~LateErrors`. `GapInv` carries
  what the gate said at the peek through three unlocks to the append: the mark
  is the number of the last stored detection, and stays so.
- `CrossingsPartitionAlways`, with `~SharedIds`, `~LateErrors` and `GroupsApart`
  (detections of different producers never share a group; nothing in the code
  enforces it; section 3 says what happens without): the detections
  stored since the start are those of the stored crossings, in order, and then
  those pending. `PartitionInv` says what holds between an append
  and its `commit_detection`: the call's group is owed exactly this commit
  (`Owed`), every other group is complete (`Settled`), and one call at a time
  works on a group (`GroupOwner`). It rests on `CrossingsCurrent` (the stored
  crossing is still the one the processor would emit) and on `GapInv`. What
  `Concat` makes of a longer log (`ConcatGrows`) is shown by induction over a set
  of naturals. The late error is a real exception: the batch is stored, the
  commit never comes, and the group is short of one detection for good.

**`ListenerProofs`** (about `Listener` and `Producer`)

A step is first broken down into what it does to each connection (`Moves`: rest,
end, read, take, skip on the node's side; start, wait, stop, send, lose, die
inside a frame on the producer's). The invariants are then about one connection:

- `GaugeExactAlways`, `NumbersContiguousAlways` from `Inv0`: types, how the two
  ends and the link fit together (`Basic`), and how far an adapter is (`Tasks`).
- `OnlyAdmittedAlways` from `Inv1`: lengths and payloads alternate on the wire,
  across the piece the decoder holds (`Framed`), and the first payload that is
  not read yet is the first one written (`Admitted`).
- `ListenerImplementsStream`, the refinement of `IngestStream`, from `Inv2`: the
  events in the decoder's queue and on the wire continue what was delivered
  (`InOrder`). Counting along a sequence would need induction; the invariant
  instead carries the two counting functions as witnesses (`Linked`), and the
  lemmas `LinkTake`, `LinkSend`, `LinkFill`, `LinkCut` say how a take, a send, a
  read and a loss change them.
- `CleanMeansAllAlways` from `Inv3`, if no scripted peer writes a Disconnect
  (`NobodyLeavesInScript`; the SDK's `disconnect` closes behind it): a Disconnect
  is the last envelope on its way, and once it is in the queue everything before
  it has arrived, although the connection may be lost by then.
- `TruncationReportedAlways`, from `Inv3` with the same hypothesis and
  `Transport = "tcp"`: parity of the pieces tells a cut frame from a whole one.
- `CountedOnceAlways`, with no restriction, for any limit of label sets: `CountInv`
  says that the counter is well formed (`GoodMetric`) and that what was stored is
  what `render` shows plus the sessions between their append and the end of
  their `incr`. `render` is the size of a set of units (one per increment), so a
  new label set, a known one and the overflow each add one element
  (`FetchAddCounts`, `AddLockedCounts`). The hazard is `incr`'s gap between its
  two critical sections, in which another session may insert the same label set
  or take the last place.

**`NodeProofs`**

- `ExitHonestAlways`, `OnlyApiTimesOutAlways`, `TokensCurrentAlways` from `NodeInv`:
  what the supervisor has joined is what ended, the first failure is kept, a
  drain's age bounds every listener's, and the watcher's last configuration is
  the one in force.

**`ApiProofs`** (about `Api` and `MemLog`)

- `ReadsEverythingAlways`, `CaughtUpAlways` from `ApiInv`: cursors are at the tail
  or below, offsets are positions, a page in flight is a window of the log.
- `LogImplementsPort`: the reference log implements `EventLog`.

**`SegmentLogProofs`** (about `SegmentLog`)

- `SegmentTypeCorrect` and `AlwaysOpensAlways` from `LogInv`, with no restriction:
  any batch and segment sizes, retention, errors, aborted calls, crashes. What
  `open()` refuses is a relation between files written at different times, so the
  invariant has three parts. `DiskInv`, of the directory: an index lists records
  that were synced before it (`IndexFits`); segments do not overlap and an indexed
  one is followed by the segment that starts at its end (`NoOverlap`, `Linked`);
  only the last segment may lack an index (`OneOpen`); the watermark remembers
  the tail once the last segment is gone (`Remembered`). `MemoryInv`, of an open
  log: the active segment is the last file and ends at `next_offset`
  (`ActiveFits`), without one the next file would start there (`NoneActive`), the
  closed ones are the indexed ones (`ClosedFits`). `CallInv`: how far the call in
  progress is (`BatchWritten`, `RollReady`), e.g. that the index is written over
  synced records. `TailInv` says where an append may have gone around left-overs,
  and `ScannedFits` that a scan then still finds files of the same form: the
  directory opens, whatever is lost.

**`SegmentViewProofs`** (also about `SegmentLog`)

- The stored log is the concatenation of all segments, a fold. `FlattenAt` says
  where each part of a concatenation begins, by induction over a set of naturals
  (`SetInduction`, from the least element of its complement: an induction rule
  that takes a predicate cannot be used). The segments a reader goes through
  follow each other without a gap (`Listing`, `ListingIsChain`), so `StoredLogs`
  can say position by position what the log holds, open or not.
- `OffsetsArePositionsAlways`, from `LogInv` and `EvictedFits` (what retention
  removed ends where the first segment begins).
- `ReadRangeExactAlways`, of non-empty ranges: the part of one segment is what
  lies between its ends clipped to the range (`ReadSegmentIs`), and clipped
  segments follow each other again (`WindowRead`).
- The rest holds until an append goes around left-overs. Up to there a commit
  leaves the files alone and a scan finds what the index has (`PlainNext`,
  `PlainStep`), and the invariants are kept by every plain step.
- `AckedSurvivesAlways`, from `AckInv` in addition: an id is used by one call
  (`IdsUsed`), the call in progress owns the slots behind the active segment's
  records (`OwnBatch`), what failed calls left is not acknowledged (`Leftovers`),
  and an acknowledged batch lies in records that are durable (`AckedStored`). Every
  step keeps what is durable and adds nothing under an old id (`Kept`,
  `NothingNew`); only `CommitBatch` without a roll and `CloseSegment` acknowledge.

  `durable` is not what is readable: an append aborted between the index
  and the end of the roll leaves an active segment with an index. It is still due
  (`DueIfIndexed`), so the next append that commits to it acknowledges only behind
  a complete roll; if that append dies first, its records, readable until
  then, are gone after a restart. Nothing acknowledged is lost, but with aborted
  calls (`Cancels`) the readable log may shrink, which is why the two theorems
  below are stated without them.
- `StoredGrowsAlways`: without aborted calls no step, a crash and a recovery
  included, loses, moves or changes a record a reader could see (`stored` keeps
  the evicted ones).
- `ImplementsEventLogAlways`: without aborted calls, for batches of any size, the
  segment log implements `EventLog` with `Salvage`, at a crash, as a third kind of step. What
  lies behind the stored records of the segment without an index belongs to calls
  none of whose records is stored (`BehindNew`), so recovery may add records that
  nobody was told of, part of a batch among them, but never adds to
  a batch that is there and never removes or reorders anything. The run has aborted
  calls too, and leaves out the steps that find records behind an index
  (`BehindIndex`).

**`SubscriptionProofs`** (about `Subscription` beside `SegmentLog`)

`DeliveredExactAlways` and `ErrorsJustifiedAlways`, without aborted calls, for
any batches, segment sizes, retention and start offset, until an append goes
around left-overs: the reader takes no lock, so the invariant has a part about
files as a reader meets them, in use or unlinked. `FilesInv`: every record
stands at the place its offset says (`Placed`), an indexed file ends in its
sentinel (`Sealed`), what lies behind the accounted records was never committed
(`Behind`), and the watermark is not ahead of the log (`WatermarkFits`).
`SubInv`: an unlinked file is a sealed part of what was evicted (`Unlinked`),
the open file and the reader's position in it belong to the offset it wants next
(`Opened`), and what was delivered is the stored record of its offset, or one of
an append that failed or has yet to commit (`Delivered`). TLC checked it with
batches of one and two and two faults. With aborted calls `DeliveredExact` is
false: after a roll aborted behind its index, an append that commits to the same
segment and fails in its own roll, and a crash, the index wins, and committed
records that were delivered are gone. `Justified` carries the reason of the
error with it: an expired offset is among the evicted ones, a log without
segments has a watermark, which `WatermarkFits` bounds by the tail, and a reader
meets garbage only behind a failed append.

What the proofs changed. The alternatives of `handshake_inner` and `process` used
to overlap in a `CASE`, which TLC resolves by order and TLA+ leaves open; they
are disjoint now, as the code's early returns make them. `Envelopes` is a
function of positions instead of a selection, and `NumbersContiguous` counts
instead of filtering: the same values, in a form that can be reasoned about. The
segment log's `ascending` says what a sorted list is instead of how to sort, and
`LogAssumption`, `SubAssumption` and `MetricsAssumption` name what the parameters
are. `render` counts units instead of folding a sum, and `CrossingsPartition` puts
the parts of the records together instead of selecting records first.

**Only model-checked.** Every liveness property (`AllDelivered`, `GetsNext`, `EvictedIsTold`,
`ConnectAnswered`, `ShutdownCompletes`, `Stops`, `StreamMovesOn`,
`EvictedStreamEnds`): the prover has no fairness. `DecodesAsSent`, `PendingExact`
and `BufferBounded` are about `Framing`, whose decoders are recursive operators
over the bytes of a read and whose CRC is computed bit by bit; besides, which
damaged frames a CRC tells apart is a fact about its polynomial and not one for
every value of the constants. Every other property of a passing run is a theorem.

## 5. Plan

Done: the modules of section 2 and the proofs of section 4. Open:

1. `open()` of the segment log in steps, with I/O errors of its own; `Api` over
   `Subscription` instead of the reference log.
2. The subscription of a log whose calls may be aborted: what `DeliveredExact`
   can still promise there.

Not modelled: TLS set-up, certificates, HTTP formatting and CORS, trace
contexts, CBOR encodings, command lines, developer tools and test fixtures (pure
I/O or no behaviour at run time); `CrossingProcessor::flush` and
`SequenceGate::check`, which the node never calls; how the notify crate names
the file in an event (the watcher compares it with the configured path as given).
