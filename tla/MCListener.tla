----------------------------- MODULE MCListener -----------------------------
(***************************************************************************)
(* A listener with one simulated producer and a second connection under    *)
(* the same name that writes what it likes: connects of two versions,      *)
(* events under its own and another name, a frame that is not CBOR.        *)
(***************************************************************************)
EXTENDS Listener

CONSTANTS s, x    \* the simulated and the scripted producer

MCProducerId == [c \in {s, x} |-> "p"]
MCToken == [c \in {s, x} |-> "good"]

ConnectWith(max, token) == Envelope("p", "Connect", "ok", [min |-> 0, max |-> max, token |-> token])
EventFrom(src) == Envelope(src, "Event", "ok", [src |-> src, kind |-> "Metadata", seq |-> 0])

MCAlphabet ==
    {ConnectWith(PROTOCOL_VERSION, "good"), ConnectWith(PROTOCOL_VERSION - 1, "good"),
     EventFrom("p"), EventFrom("other"), [EventFrom("p") EXCEPT !.decodes = FALSE],
     Envelope("p", "Heartbeat", "ok", <<>>)}

FewerEnvelopes == {ConnectWith(PROTOCOL_VERSION, "good"), EventFrom("p")}
=============================================================================
