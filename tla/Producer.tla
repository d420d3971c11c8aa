------------------------------ MODULE Producer ------------------------------
(***************************************************************************)
(* The producers' side of an ingest connection: the SDK's Producer         *)
(* (otk-sdk/src/producer), driven by the simulated adapter and its runner  *)
(* (producer-simulated), and producers that write what they like, in any   *)
(* order, without waiting for the answer to a Connect.                     *)
(*                                                                         *)
(* A frame is written in two pieces, its length and its payload.  up[c] is *)
(* what the node has not read yet, down[c] the node's reply.  link[c] is   *)
(* the connection as the producer left it: open, closed or lost.           *)
(***************************************************************************)
EXTENDS IngestProtocol, SequencesExt, FiniteSetsExt

CONSTANTS
    Sims,        \* producers built on the SDK
    Scripted,    \* producers that write what they like
    Alphabet,    \* the envelopes a scripted producer chooses from
    MaxFrames,   \* bound: the envelopes it writes
    ProducerId,  \* the name each connection registers: a producer may have two
    Token,       \* the auth_token of each producer
    Count,       \* detections a simulated adapter emits
    MaxLosses    \* bound: connections that may be lost

Clients == Sims \cup Scripted

ASSUME ProducerAssumption ==
    /\ IsFiniteSet(Clients) /\ Sims \cap Scripted = {} /\ DOMAIN ProducerId = Clients
    /\ Count \in Nat /\ MaxFrames \in Nat /\ MaxLosses \in Nat

\* What an event holds: data.src stands for the source its envelope names.
Kinds == {"Metadata", "Health", "Detection"}
Names == Range(ProducerId) \cup {e.src : e \in Alphabet}
Payloads == [src : Names, kind : Kinds, seq : 0..(Count + MaxFrames)]

ASSUME AlphabetAssumption ==
    \A e \in Alphabet :
        /\ DOMAIN e = EnvelopeFields
        /\ e.type = "Event" => e.data \in [src : {e.src}, kind : Kinds, seq : Nat]

\* ProducerId is the source of the Connect, for the producers that choose it too.
ASSUME NameAssumption ==
    \A e \in Alphabet, c \in Scripted : e.type = "Connect" => e.src = ProducerId[c]

VARIABLES
    cl,          \* each producer's task
    up, down, link,
    sv,          \* the node's side of each connection, see Listener
    lst,         \* the node's listener: "accept", "drain" or "returned"
    sent         \* history: the events handed to send_event, in order

clientVars == <<cl, up, down, link, sent>>

accepting == lst # "returned"
peer_gone(c) == sv[c].pc \in {"finished", "gone"}

Idle == [pc |-> "idle", phase |-> "PendingMetadata", emitted |-> 0, asleep |-> FALSE, seq |-> 0,
         err |-> "none", first |-> <<>>]

ProducerInit ==
    /\ cl = [c \in Clients |-> Idle]
    /\ up = [c \in Clients |-> <<>>] /\ down = [c \in Clients |-> <<>>]
    /\ link = [c \in Clients |-> "none"]
    /\ sent = [c \in Clients |-> <<>>]

\* send_frame: four bytes of length, then the payload.
frame(env) == <<[hdr |-> TRUE, env |-> env], [hdr |-> FALSE, env |-> env]>>

\* The builders of the SDK: a detection carries a number, the status events none.
Payload(c, kind, seq) == [src |-> ProducerId[c], kind |-> kind, seq |-> seq]
Status(c, kind) == Payload(c, kind, 0)

connect_envelope(c) ==
    Envelope(ProducerId[c], "Connect", "ok", [min |-> PROTOCOL_VERSION, max |-> PROTOCOL_VERSION,
                                  token |-> Token[c]])

\* The task returns an error: the adapter is stopped, the stream is dropped.
Fail(c, e) ==
    /\ cl' = [cl EXCEPT ![c] = [@ EXCEPT !.pc = "done", !.err = e]]
    /\ link' = [link EXCEPT ![c] = IF @ = "open" THEN "closed" ELSE @]

\* write_all of a frame, the task going on as t; on a connection the node has
\* closed, the bytes go nowhere or the write fails.  The node reads any part.
send_frame(c, env, t) ==
    \/ /\ link[c] = "open"
       /\ cl' = [cl EXCEPT ![c] = t]
       /\ up' = IF peer_gone(c) THEN up ELSE [up EXCEPT ![c] = @ \o frame(env)]
       /\ link' = [link EXCEPT ![c] = IF t.pc = "done" THEN "closed" ELSE @]
    \/ /\ link[c] = "lost" \/ peer_gone(c)
       /\ Fail(c, "Io") /\ UNCHANGED up

\* The runner's start, and TcpStream::connect.
start(c) ==
    /\ cl[c].pc = "idle"
    /\ \/ /\ accepting
          /\ link' = [link EXCEPT ![c] = "open"]
          /\ cl' = [cl EXCEPT ![c].pc = IF c \in Sims THEN "connect" ELSE "script"]
       \/ ~accepting /\ Fail(c, "Io")
    /\ UNCHANGED <<up, down, sent>>

\* Producer::connect writes the Connect ...
connect(c) ==
    /\ cl[c].pc = "connect"
    /\ send_frame(c, connect_envelope(c),
                  [cl[c] EXCEPT !.pc = "reply", !.first = <<connect_envelope(c)>>])
    /\ UNCHANGED <<down, sent>>

\* ... and reads the reply.
recv_frame(c) ==
    /\ cl[c].pc = "reply"
    /\ \/ /\ down[c] = <<"ConnectAck">>
          /\ cl' = [cl EXCEPT ![c].pc = "run"] /\ UNCHANGED link
       \/ down[c] = <<"ConnectReject">> /\ Fail(c, "Rejected")
       \/ down[c] = <<>> /\ (peer_gone(c) \/ link[c] = "lost") /\ Fail(c, "Closed")
    /\ UNCHANGED <<up, down, sent>>

\* The events of a scripted producer are told apart by a number.
Numbered(e, n) == IF e.type = "Event" THEN [e EXCEPT !.data.seq = n] ELSE e

\* A scripted producer writes any envelope of its alphabet ...
WriteScript(c) ==
    /\ cl[c].pc = "script" /\ cl[c].emitted < MaxFrames
    /\ \E e \in Alphabet :
         LET env == Numbered(e, cl[c].emitted)
         IN /\ send_frame(c, env, [cl[c] EXCEPT !.emitted = @ + 1,
                                                !.first = IF @ = <<>> THEN <<env>> ELSE @])
            /\ sent' = IF env.type = "Event" THEN [sent EXCEPT ![c] = Append(@, env.data)] ELSE sent
    /\ UNCHANGED down

\* ... and closes when it likes.
CloseScript(c) ==
    /\ cl[c].pc = "script"
    /\ cl' = [cl EXCEPT ![c].pc = "done"]
    /\ link' = [link EXCEPT ![c] = IF @ = "open" THEN "closed" ELSE @]
    /\ UNCHANGED <<up, down, sent>>

\* send_event with the event the adapter returned.
send_event(c, data, t) ==
    /\ send_frame(c, Envelope(ProducerId[c], "Event", "ok", data), t)
    /\ sent' = [sent EXCEPT ![c] = Append(@, data)]
    /\ UNCHANGED down

Running(c) == cl[c].pc = "run" /\ ~cl[c].asleep

\* SimulatorAdapter::next_event before the first detection.
Declare(c) ==
    /\ Running(c)
    /\ \/ /\ cl[c].phase = "PendingMetadata"
          /\ send_event(c, Status(c, "Metadata"), [cl[c] EXCEPT !.phase = "PendingHealth"])
       \/ /\ cl[c].phase = "PendingHealth"
          /\ send_event(c, Status(c, "Health"), [cl[c] EXCEPT !.phase = "Generating"])

\* Variant: the number is taken before the sleep, which may be cancelled.
SleepWithNumber(c) ==
    /\ Running(c)
    /\ cl[c].phase = "Generating" /\ cl[c].emitted < Count
    /\ cl' = [cl EXCEPT ![c].asleep = TRUE, ![c].seq = @ + 1]
    /\ UNCHANGED <<up, down, link, sent>>

\* next_event sleeps until the next detection is due.
Sleep(c) ==
    /\ Running(c)
    /\ cl[c].phase = "Generating" /\ cl[c].emitted < Count
    /\ cl' = [cl EXCEPT ![c].asleep = TRUE]
    /\ UNCHANGED <<up, down, link, sent>>

\* The sleep ends: take a number, build the detection, send it.
Detect(c) ==
    /\ cl[c].pc = "run" /\ cl[c].asleep
    /\ send_event(c, Payload(c, "Detection", cl[c].seq),
                  [cl[c] EXCEPT !.asleep = FALSE, !.emitted = @ + 1, !.seq = @ + 1])

\* The runner's select took the other branch, and the value is still false:
\* the sleeping next_event is dropped and called again.
SpuriousChange(c) ==
    /\ cl[c].pc = "run" /\ cl[c].asleep
    /\ cl' = [cl EXCEPT ![c].asleep = FALSE]
    /\ UNCHANGED <<up, down, link, sent>>

\* The adapter has no more events, or the runner is told to stop: disconnect,
\* and the stream is dropped.
disconnect(c) ==
    /\ cl[c].pc = "run"
    /\ send_frame(c, Envelope(ProducerId[c], "Disconnect", "none", <<>>),
                  [cl[c] EXCEPT !.pc = "done", !.asleep = FALSE])
    /\ UNCHANGED <<down, sent>>

Losses == {c \in Clients : link[c] = "lost" \/ cl[c].err \in {"Killed", "KilledMidFrame"}}

\* The connection is lost with what the node has not read yet.
Lose(c) ==
    /\ link[c] \in {"open", "closed"} /\ ~peer_gone(c)
    /\ Cardinality(Losses) < MaxLosses
    /\ link' = [link EXCEPT ![c] = "lost"]
    /\ up' = [up EXCEPT ![c] = <<>>]
    /\ UNCHANGED <<cl, down, sent>>

\* The producer's process dies, maybe in the middle of a write_all; the kernel
\* closes the connection behind what was written.
Kill(c) ==
    /\ link[c] = "open" /\ cl[c].pc # "done"
    /\ Cardinality(Losses) < MaxLosses
    /\ \/ Fail(c, "Killed") /\ UNCHANGED up
       \/ up[c] # <<>> /\ Fail(c, "KilledMidFrame") /\ up' = [up EXCEPT ![c] = Front(@)]
    /\ UNCHANGED <<down, sent>>

ClientStep(c) ==
    \/ connect(c) \/ recv_frame(c) \/ Declare(c) \/ Sleep(c) \/ Detect(c)
    \/ cl[c].phase = "Generating" /\ cl[c].emitted >= Count /\ disconnect(c)

ClientChoice(c) ==
    start(c) \/ WriteScript(c) \/ CloseScript(c) \/ SpuriousChange(c) \/ disconnect(c) \/ Lose(c)
    \/ Kill(c)

-----------------------------------------------------------------------------
IsDetection(data) == data.kind = "Detection"

(***************************************************************************)
(* The detections of one run of the adapter are numbered 0, 1, 2, ... with *)
(* no number missing, although the runner's select may drop next_event in  *)
(* its sleep any number of times: a dropped number would be metered by the *)
(* node as a lost detection.                                               *)
(***************************************************************************)
NumbersContiguous ==
    \A c \in Sims : \A i \in DOMAIN sent[c] : IsDetection(sent[c][i]) =>
        sent[c][i].seq = Cardinality({j \in 1..(i - 1) : IsDetection(sent[c][j])})
=============================================================================
