------------------------------ MODULE Listener ------------------------------
(***************************************************************************)
(* One ingest listener of the node with its sessions: run_listener and     *)
(* handle_session (timing-node/src/ingest.rs) over the TCP or the Unix     *)
(* socket adapter.  The listener awaits one accept, handshake included, in *)
(* a select beside the end of a session and the shutdown signal: when one  *)
(* of these comes first, the handshake in progress is dropped.             *)
(*                                                                         *)
(* sv[c].pc follows connection c through the node:                         *)
(*   none     not accepted (yet)              tls, handshake  in accept()  *)
(*   spawned  task not polled yet             session  in next_event       *)
(*   meter_*  counting an appended event      finished  task ended, not    *)
(*   gone     dropped                                   joined yet         *)
(***************************************************************************)
EXTENDS Producer, Metrics

CONSTANTS
    Transport,     \* "tcp" or "unix"
    Tls,           \* does the listener speak TLS?
    allowed,       \* AuthState's producer tokens
    Outcomes       \* of append_event: "stored", "seen" (a duplicate), "error"

VARIABLES
    shutdown,      \* the watch channel
    active,        \* gauge ingest_sessions_active of this listener
    appended,      \* counter events_appended
    delivered,     \* history: the events given to append_event
    stored         \* history: how many of them were stored

serverVars == <<sv, lst, shutdown, active, appended, delivered, stored>>
vars == <<clientVars, serverVars>>

NoConn == [pc |-> "none", part |-> FALSE, pending |-> <<>>, end |-> "none"]

Init ==
    /\ ProducerInit
    /\ sv = [c \in Clients |-> NoConn]
    /\ lst = "accept" /\ shutdown = FALSE
    /\ active = 0 /\ appended = NoSeries
    /\ delivered = [c \in Clients |-> <<>>] /\ stored = 0

InHandshake == {c \in Clients : sv[c].pc \in {"tls", "handshake"}}
Live == {c \in Clients : sv[c].pc \in {"spawned", "session", "meter_read", "meter_write"}}
Connected(c) == sv[c].pc = "none" /\ link[c] # "none"

\* The connections move to t; one that has ended goes with what was not read of it.
Serve(t, unread) ==
    /\ sv' = t
    /\ up' = [c \in Clients |-> IF t[c].pc \in {"finished", "gone"} THEN <<>> ELSE unread[c]]
    /\ UNCHANGED <<cl, link, sent>>

Ended(v, pc, end) == [v EXCEPT !.pc = pc, !.part = FALSE, !.pending = <<>>, !.end = end]

\* accept() returns an error: logged, the loop goes on.
AcceptErr(c, end, unread) ==
    Serve([sv EXCEPT ![c] = Ended(@, "gone", end)], unread) /\ UNCHANGED active

\* A session task ends: its guard decrements the gauge.
Finish(c, end, unread) ==
    Serve([sv EXCEPT ![c] = Ended(@, "finished", end)], unread) /\ active' = active - 1

Goes(c, pc) == Serve([sv EXCEPT ![c].pc = pc], up) /\ UNCHANGED active

Calm == UNCHANGED <<lst, shutdown, appended>>

-----------------------------------------------------------------------------
\* Reading.  A read returns any part of what has arrived; the decoder keeps the
\* length of a frame whose payload is not there yet.

Chunks(c) == {SubSeq(up[c], 1, n) : n \in 1..Len(up[c])}
Unread(c, chunk) == [up EXCEPT ![c] = SubSeq(@, Len(chunk) + 1, Len(@))]

\* The envelopes a push completes (lengths and payloads alternate, so every second
\* piece ends one), and whether it reports an error: too large by its length, or
\* not CBOR.
Envelopes(chunk) ==
    LET begun == IF chunk[1].hdr THEN 0 ELSE 1
    IN [i \in 1..((Len(chunk) + begun) \div 2) |-> chunk[2 * i - begun].env]
PushFails(chunk) ==
    \E i \in DOMAIN chunk : IF chunk[i].hdr THEN ~chunk[i].env.fits ELSE ~chunk[i].env.decodes
has_pending(chunk) == chunk[Len(chunk)].hdr

AtEof(c) == up[c] = <<>> /\ link[c] = "closed"
ReadFails(c) == up[c] = <<>> /\ link[c] = "lost"

\* How the end of the stream is taken: the Unix adapter does not ask the decoder.
UnixEof(part) == "Clean"
TcpEof(part) == IF part THEN "Decode" ELSE "Clean"
Eof(part) == IF Transport = "tcp" THEN TcpEof(part) ELSE UnixEof(part)

-----------------------------------------------------------------------------
\* accept(): one connection at a time, each stage under handshake_timeout.

accept(c) ==
    /\ lst = "accept" /\ InHandshake = {}
    /\ Connected(c)
    /\ Goes(c, IF Tls THEN "tls" ELSE "handshake")
    /\ Calm /\ UNCHANGED <<down, delivered, stored>>

TlsAccept(c) ==
    /\ sv[c].pc = "tls"
    /\ \/ link[c] = "open" /\ Goes(c, "handshake")
       \/ link[c] # "open" /\ AcceptErr(c, "Handshake", up)
    /\ Calm /\ UNCHANGED <<down, delivered, stored>>

\* Variant: a stage of accept() has no deadline.
NoTimeout(c) == FALSE /\ UNCHANGED vars

Timeout(c) ==
    /\ c \in InHandshake
    /\ AcceptErr(c, "Handshake", up)
    /\ Calm /\ UNCHANGED <<down, delivered, stored>>

\* Variant: what came behind the Connect in the same read is forgotten.
AdmitAlone(c, chunk) ==
    /\ Serve([sv EXCEPT ![c] = [@ EXCEPT !.pc = "spawned", !.part = has_pending(chunk)]],
             Unread(c, chunk))
    /\ active' = active + 1

\* The session is created with what came behind the Connect, counted and spawned.
Admit(c, chunk) ==
    /\ Serve([sv EXCEPT ![c] = [@ EXCEPT !.pc = "spawned", !.part = has_pending(chunk),
                                         !.pending = Tail(Envelopes(chunk))]],
             Unread(c, chunk))
    /\ active' = active + 1

Reply(c, chunk, outcome) ==
    /\ down' = [down EXCEPT ![c] = server_envelope(outcome)]
    /\ IF outcome = "Accepted" /\ link[c] # "lost" THEN Admit(c, chunk)
       ELSE AcceptErr(c, "Handshake", up)

\* TcpIngestSession::handshake, one read: the first envelope decides.
handshake(c) ==
    /\ sv[c].pc = "handshake"
    /\ \E chunk \in Chunks(c) :
         LET envs == Envelopes(chunk)
         IN \/ PushFails(chunk) /\ AcceptErr(c, "Decode", up) /\ UNCHANGED down
            \/ /\ ~PushFails(chunk) /\ envs = <<>>
               /\ Serve([sv EXCEPT ![c].part = has_pending(chunk)], Unread(c, chunk))
               /\ UNCHANGED <<down, active>>
            \/ ~PushFails(chunk) /\ envs # <<>> /\ Reply(c, chunk, handshake_inner(envs[1], allowed))
    /\ Calm /\ UNCHANGED <<delivered, stored>>

HandshakeEnds(c) ==
    /\ sv[c].pc = "handshake"
    /\ \/ AtEof(c) /\ AcceptErr(c, IF Eof(sv[c].part) = "Clean" THEN "Handshake" ELSE "Decode", up)
       \/ ReadFails(c) /\ AcceptErr(c, "Io", up)
    /\ Calm /\ UNCHANGED <<down, delivered, stored>>

-----------------------------------------------------------------------------
\* handle_session

Poll(c) ==
    /\ sv[c].pc = "spawned"
    /\ Goes(c, "session")
    /\ Calm /\ UNCHANGED <<down, delivered, stored>>

\* Variant: of what one read completes, only the first envelope is kept.
FillOne(c) ==
    /\ sv[c].pc = "session" /\ sv[c].pending = <<>>
    /\ \E chunk \in Chunks(c) :
         \/ PushFails(chunk) /\ Finish(c, "Decode", up)
         \/ /\ ~PushFails(chunk)
            /\ Serve([sv EXCEPT ![c].pending = SubSeq(Envelopes(chunk), 1, Min({1, Len(Envelopes(chunk))})),
                                ![c].part = has_pending(chunk)], Unread(c, chunk))
            /\ UNCHANGED active
    /\ Calm /\ UNCHANGED <<down, delivered, stored>>

fill_pending(c) ==
    /\ sv[c].pc = "session" /\ sv[c].pending = <<>>
    /\ \E chunk \in Chunks(c) :
         \/ PushFails(chunk) /\ Finish(c, "Decode", up)
         \/ /\ ~PushFails(chunk)
            /\ Serve([sv EXCEPT ![c].pending = Envelopes(chunk), ![c].part = has_pending(chunk)],
                     Unread(c, chunk))
            /\ UNCHANGED active
    /\ Calm /\ UNCHANGED <<down, delivered, stored>>

SessionEnds(c) ==
    /\ sv[c].pc = "session" /\ sv[c].pending = <<>>
    /\ \/ AtEof(c) /\ Finish(c, Eof(sv[c].part), up)
       \/ ReadFails(c) /\ Finish(c, "Io", up)
    /\ Calm /\ UNCHANGED <<down, delivered, stored>>

\* append_event: the event is stored, dropped as one seen before (EventIngest
\* decides), or storage fails.
append_event(c, data) ==
    /\ delivered' = [delivered EXCEPT ![c] = Append(@, data)]
    /\ \/ /\ "stored" \in Outcomes /\ stored' = stored + 1
          /\ Serve([sv EXCEPT ![c] = [@ EXCEPT !.pc = "meter_read", !.pending = Tail(sv[c].pending)]], up)
          /\ UNCHANGED active
       \/ /\ "seen" \in Outcomes
          /\ Serve([sv EXCEPT ![c].pending = Tail(@)], up)
          /\ UNCHANGED <<stored, active>>
       \/ "error" \in Outcomes /\ Finish(c, "Storage", up) /\ UNCHANGED stored

\* The session's source is that of its Connect: ProducerId[c].
next_event(c) ==
    /\ sv[c].pc = "session" /\ sv[c].pending # <<>>
    /\ LET env == Head(sv[c].pending)
           action == process(ProducerId[c], env)
       IN \/ action = "Event" /\ append_event(c, env.data)
          \/ /\ action = "Heartbeat"
             /\ Serve([sv EXCEPT ![c].pending = Tail(@)], up)
             /\ UNCHANGED <<active, delivered, stored>>
          \/ action = "Disconnect" /\ Finish(c, "Clean", up) /\ UNCHANGED <<delivered, stored>>
          \/ action = "Err" /\ Finish(c, "Decode", up) /\ UNCHANGED <<delivered, stored>>
    /\ Calm /\ UNCHANGED down

Key(c) == canonical_labels(<<<<"producer_id", ProducerId[c]>>, <<"event_kind", Last(delivered[c]).kind>>>>)

\* record_event_appended: the look under the read lock ...
incr(c) ==
    /\ sv[c].pc = "meter_read"
    /\ IF HasSeries(appended, Key(c))
       THEN appended' = fetch_add(appended, Key(c), 1) /\ Goes(c, "session")
       ELSE appended' = appended /\ Goes(c, "meter_write")
    /\ UNCHANGED <<lst, shutdown, down, delivered, stored>>

\* ... and the part under the write lock.
IncrLocked(c) ==
    /\ sv[c].pc = "meter_write"
    /\ appended' = add_locked(appended, Key(c), 1)
    /\ Goes(c, "session")
    /\ UNCHANGED <<lst, shutdown, down, delivered, stored>>

-----------------------------------------------------------------------------
\* The rest of run_listener's select, and the drain.

\* The select ends with cs joined: the handshake in progress goes with accept().
Joined(cs) ==
    [c \in Clients |-> IF c \in InHandshake THEN Ended(sv[c], "gone", "Cancelled")
                       ELSE IF c \in cs THEN [sv[c] EXCEPT !.pc = "gone"] ELSE sv[c]]

Reap(c) ==
    /\ lst = "accept" /\ sv[c].pc = "finished"
    /\ Serve(Joined({c}), up)
    /\ Calm /\ UNCHANGED <<down, active, delivered, stored>>

Signal ==
    /\ ~shutdown
    /\ shutdown' = TRUE
    /\ Serve(sv, up) /\ UNCHANGED <<down, lst, active, appended, delivered, stored>>

StopAccepting ==
    /\ lst = "accept" /\ shutdown
    /\ lst' = "drain"
    /\ Serve(Joined({}), up)
    /\ UNCHANGED <<down, shutdown, active, appended, delivered, stored>>

Drain(c) ==
    /\ lst = "drain" /\ sv[c].pc = "finished"
    /\ Serve(Joined({c}), up)
    /\ Calm /\ UNCHANGED <<down, active, delivered, stored>>

\* Variant: the guard is created by the task's first poll.
GuardedWhenPolled == {c \in Live : sv[c].pc # "spawned"}

\* The tasks that own a guard.
Guarded == Live

\* Variant: the drain has no deadline.
AllJoined == Live = {}

\* An abort takes a task where it awaits: not between append_event and its metering.
MayReturn == \A c \in Live : sv[c].pc \in {"spawned", "session"}

(***************************************************************************)
(* run_listener returns: every task has been joined, or the drain's five   *)
(* seconds are over and dropping the JoinSet aborts the rest, each task    *)
(* dropping its guard.  The port goes too, and what waits in its backlog.  *)
(***************************************************************************)
Return ==
    /\ lst = "drain" /\ MayReturn
    /\ lst' = "returned"
    /\ Serve([c \in Clients |-> IF c \in Live \/ Connected(c) THEN Ended(sv[c], "gone", "Aborted")
                                ELSE sv[c]], up)
    /\ active' = active - Cardinality(Guarded)
    /\ UNCHANGED <<down, shutdown, appended, delivered, stored>>

-----------------------------------------------------------------------------
SessionStep(c) ==
    \/ Poll(c) \/ fill_pending(c) \/ SessionEnds(c) \/ next_event(c) \/ incr(c) \/ IncrLocked(c)

HandshakeStep(c) == TlsAccept(c) \/ Timeout(c) \/ handshake(c) \/ HandshakeEnds(c)

ListenerStep ==
    \/ StopAccepting \/ Return
    \/ \E c \in Clients : accept(c) \/ HandshakeStep(c) \/ Reap(c) \/ Drain(c)

Next ==
    \/ \E c \in Clients : (ClientStep(c) \/ ClientChoice(c)) /\ UNCHANGED serverVars
    \/ \E c \in Clients : SessionStep(c)
    \/ ListenerStep
    \/ Signal

(***************************************************************************)
(* Tokio runs what is ready and fires timers; a producer that is connected *)
(* goes on.  accept is fair to each connection: a backlog is a queue.      *)
(***************************************************************************)
Spec ==
    /\ Init /\ [][Next]_vars
    /\ \A c \in Clients :
         /\ WF_vars(ClientStep(c) /\ UNCHANGED serverVars)
         /\ WF_vars(SessionStep(c)) /\ WF_vars(HandshakeStep(c))
         /\ WF_vars(Reap(c)) /\ WF_vars(Drain(c)) /\ SF_vars(accept(c))
    /\ WF_vars(StopAccepting) /\ WF_vars(Return)

-----------------------------------------------------------------------------
Stream == INSTANCE IngestStream WITH Connections <- Clients

(***************************************************************************)
(* However reads cut the stream, whatever arrives together with a Connect, *)
(* and whenever a connection is lost, dropped or aborted, append_event is  *)
(* called with the events of a connection in the order they were sent,     *)
(* none twice and none left out before the end.                            *)
(***************************************************************************)
ImplementsStream == Stream!Spec

(***************************************************************************)
(* "decrements ingest_sessions_active [...] regardless of how the session  *)
(* task ended (clean return, error, panic, abort)" (ingest.rs): the gauge  *)
(* is the number of session tasks, a task aborted before its first poll    *)
(* included.                                                               *)
(***************************************************************************)
GaugeExact == active = Cardinality(Live)

(***************************************************************************)
(* The counter with its overflow sibling counts every stored event once,   *)
(* although the label set is looked up and inserted under different locks  *)
(* and the map is full at some point; a full map does not grow.            *)
(***************************************************************************)
CountedOnce ==
    /\ stored = render(appended)
                + Cardinality({c \in Clients : sv[c].pc \in {"meter_read", "meter_write"}})
    /\ Cardinality(DOMAIN appended.series) <= MAX_SERIES_PER_METRIC

(***************************************************************************)
(* "Transports use this on EOF to distinguish a clean close at a frame     *)
(* boundary [...] from a truncated frame" (frame-codec/src/stream.rs): a   *)
(* producer that dies in the middle of a frame is never taken for one that *)
(* closed cleanly.  The TCP adapter asks the decoder, the Unix adapter     *)
(* (session.rs, fill_pending) does not.                                    *)
(***************************************************************************)
TruncationReported == \A c \in Clients : cl[c].err = "KilledMidFrame" => sv[c].end # "Clean"

(***************************************************************************)
(* A session that ends cleanly has passed on everything its producer sent  *)
(* before it closed, the events written right behind the Connect, without  *)
(* waiting for its answer, included.                                       *)
(***************************************************************************)
CleanMeansAll ==
    \A c \in Clients : sv[c].end = "Clean" /\ cl[c].pc = "done" /\ cl[c].err = "none"
        => delivered[c] = sent[c]

(***************************************************************************)
(* Only a producer whose Connect offers the node's version and an allowed  *)
(* token, and only envelopes under its own name, reach append_event.       *)
(***************************************************************************)
OnlyAdmitted ==
    \A c \in Clients : delivered[c] # <<>> =>
        /\ cl[c].first[1].type = "Connect"
        /\ authorise(allowed, cl[c].first[1].data.token)
        /\ PROTOCOL_VERSION \in cl[c].first[1].data.min .. cl[c].first[1].data.max
        /\ \A i \in DOMAIN delivered[c] : delivered[c][i].src = ProducerId[c]

(***************************************************************************)
(* A producer that waits for the answer to its Connect gets one, or sees   *)
(* the connection closed: behind a peer that never completes its           *)
(* handshake, while sessions end and drop handshakes, and at shutdown.     *)
(***************************************************************************)
ConnectAnswered == \A c \in Sims : cl[c].pc \in {"connect", "reply"} ~> cl[c].pc \in {"run", "done"}

\* After the signal the listener returns and no session is left.
ShutdownCompletes == shutdown ~> (lst = "returned" /\ Live = {})
=============================================================================
