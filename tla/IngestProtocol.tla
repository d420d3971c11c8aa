--------------------------- MODULE IngestProtocol ---------------------------
(***************************************************************************)
(* The ingest protocol as the node sees it, ingest-protocol and            *)
(* timing-node/src/auth.rs: the answer to the first envelope of a          *)
(* connection and what each later one asks for.  An envelope is reduced to *)
(* the fields that decide: version, type, source, whether its frame fits   *)
(* and decodes, whether its payload is there and decodes, and the payload. *)
(***************************************************************************)
EXTENDS Integers, Sequences

CONSTANT PROTOCOL_VERSION

EnvelopeFields == {"ver", "src", "type", "fits", "decodes", "payload", "data"}

Envelope(src, type, payload, data) ==
    [ver |-> PROTOCOL_VERSION, src |-> src, type |-> type, fits |-> TRUE, decodes |-> TRUE,
     payload |-> payload, data |-> data]

\* An empty allow-list admits everyone.
authorise(allowed, token) == allowed = {} \/ token \in allowed

\* What the node answers to the first envelope: an ack, a reject or an error.
handshake_inner(env, allowed) ==
    IF env.type # "Connect" THEN "UnexpectedMessageType"
    ELSE CASE env.payload = "none" -> "MissingConnectPayload"
           [] env.payload = "bad" -> "DecodeFailed"
           [] OTHER -> IF PROTOCOL_VERSION \notin env.data.min .. env.data.max
                       THEN "VersionNotSupported"
                       ELSE IF authorise(allowed, env.data.token) THEN "Accepted" ELSE "Unauthorized"

Rejections == {"VersionNotSupported", "Unauthorized"}

\* The reply envelope, if there is one: an error sends none.
server_envelope(outcome) ==
    CASE outcome = "Accepted" -> <<"ConnectAck">>
      [] outcome \in Rejections -> <<"ConnectReject">>
      [] OTHER -> <<>>

\* What an envelope of the session asks for.
Asked(env) ==
    CASE env.type = "Event" /\ env.payload = "ok" -> "Event"
      [] env.type = "Heartbeat" /\ env.payload = "ok" -> "Heartbeat"
      [] env.type = "Disconnect" /\ env.payload = "none" -> "Disconnect"
      [] OTHER -> "Err"

\* Variant: the source of an envelope is not compared with the registered one.
ProcessAnySource(producer_id, env) == IF env.ver = PROTOCOL_VERSION THEN Asked(env) ELSE "Err"

\* PostHandshakeProcessor::process
process(producer_id, env) ==
    IF env.ver = PROTOCOL_VERSION /\ env.src = producer_id THEN Asked(env) ELSE "Err"
=============================================================================
