---------------------------- MODULE IngestStream ----------------------------
(***************************************************************************)
(* What a producer may rely on between its send_event calls and the node's *)
(* append_event calls, whatever the transport does: the events of one      *)
(* connection arrive in the order they were sent, none twice and none left *)
(* out, up to some point where the connection ends.  EventIngest starts    *)
(* from this promise: its sessions take the events of a plan in order.     *)
(***************************************************************************)
EXTENDS Naturals, Sequences

CONSTANTS Connections, Payloads

VARIABLES sent, delivered

Init == sent = [c \in Connections |-> <<>>] /\ delivered = [c \in Connections |-> <<>>]

Send(c) ==
    /\ \E e \in Payloads : sent' = [sent EXCEPT ![c] = Append(@, e)]
    /\ UNCHANGED delivered

Deliver(c) ==
    /\ Len(delivered[c]) < Len(sent[c])
    /\ delivered' = [delivered EXCEPT ![c] = Append(@, sent[c][Len(@) + 1])]
    /\ UNCHANGED sent

Next == \E c \in Connections : Send(c) \/ Deliver(c)

Spec == Init /\ [][Next]_<<sent, delivered>>
=============================================================================
