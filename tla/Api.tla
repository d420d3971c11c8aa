-------------------------------- MODULE Api --------------------------------
(***************************************************************************)
(* The node's read side: the HTTP handlers of timing-node/src/api.rs on    *)
(* top of the query port, timing-core/src/services/event_ingest.rs         *)
(* (latest_offset, read_events, subscribe_events), over the reference      *)
(* event log.  A request passes require_api_token, which takes a snapshot  *)
(* of the token list, and then its handler, which waits for the log's      *)
(* mutex: the configuration watcher may swap the list in between.          *)
(*                                                                         *)
(* Clients read the whole log: with pages, or with a stream, going on from *)
(* their cursor and, told that it is evicted, from earliest_available, as  *)
(* map_query_error asks of them.  A query may also fail: the log the node  *)
(* runs over does I/O, the reference log does not.  Direct readers         *)
(* subscribe to the log itself, as the conformance tests do.               *)
(***************************************************************************)
EXTENDS MemLog

CONSTANTS
    Clients,             \* HTTP clients; the other readers subscribe directly
    Limits,              \* page sizes clients ask for
    MAX_EVENTS_LIMIT,    \* the largest page
    TokenLists,          \* api_tokens lists the watcher installs
    TokenOf,             \* the bearer token each client sends, or None
    MaxRequests,         \* bound on the requests of a client
    MaxReloads           \* bound on token rotations

ASSUME ReadersAssumption == Clients \subseteq Readers
ASSUME LimitsAssumption == Limits \subseteq Nat /\ MAX_EVENTS_LIMIT \in Nat

VARIABLES
    api_tokens,    \* AuthState.api_tokens
    reloads,       \* rotations so far
    conn           \* the request each client has in flight

vars == <<memVars, api_tokens, reloads, conn>>

(***************************************************************************)
(* latest and tail are those of the last page: the latest_offset it        *)
(* carried, and the length of the log when it was assembled.               *)
(***************************************************************************)
NoConn == [pc |-> "none", op |-> "page", limit |-> 0, requests |-> 0,
           status |-> None, latest |-> None, tail |-> 0]

Init ==
    /\ MemInit
    /\ api_tokens \in TokenLists /\ reloads = 0
    /\ conn = [c \in Clients |-> NoConn]

-----------------------------------------------------------------------------
\* The environment: producers, retention, the watcher, the direct readers.

SetTokens(tokens) ==
    /\ reloads < MaxReloads
    /\ api_tokens' = tokens /\ reloads' = reloads + 1
    /\ UNCHANGED <<memVars, conn>>

\* Retention moves forward, as the suite's calls do; one offset past the end is clamped.
LogStep ==
    /\ \/ \E id \in Batches, n \in Sizes : append(id, n)
       \/ \E b \in (Boundary + 1)..(Len(entries) + 1) : evict_below(b)
       \/ Boundary < Len(entries) /\ evict_all
    /\ UNCHANGED <<api_tokens, reloads, conn>>

Direct == Readers \ Clients

DirectStep(r) ==
    /\ \/ /\ sub[r].pc = "none" /\ ~Expired(sub[r].cursor)
          /\ subscribe(r, sub[r].cursor)
          /\ UNCHANGED <<entries, earliest_retained, got>>
       \/ close(r)
       \/ ~sub[r].err.expired /\ Check(r)
       \/ Enable(r) \/ Recheck(r) \/ Wake(r)
    /\ UNCHANGED <<api_tokens, reloads, conn>>

-----------------------------------------------------------------------------
\* A client sends a request.  It asks for the log from its cursor on.
Request(c, op, limit) ==
    /\ conn[c].pc = "none" /\ conn[c].requests < MaxRequests
    /\ conn' = [conn EXCEPT ![c] = [NoConn EXCEPT !.pc = "auth", !.op = op, !.limit = limit,
                                                  !.requests = conn[c].requests + 1]]
    /\ UNCHANGED <<memVars, api_tokens, reloads>>

Respond(c, status) == conn' = [conn EXCEPT ![c].pc = "none", ![c].status = status]

\* parse_bearer_token found a token (None: no header, another scheme), and it is allowed.
TokenOk(c, tokens) == tokens = {} \/ TokenOf[c] \in tokens

require_api_token(c) ==
    /\ conn[c].pc = "auth"
    /\ IF TokenOk(c, api_tokens) THEN conn' = [conn EXCEPT ![c].pc = "handle"]
                                 ELSE Respond(c, 401)
    /\ UNCHANGED <<memVars, api_tokens, reloads>>

\* A client that is told its offset has been evicted goes on where it may.
Reanchor(c, hint) ==
    sub' = [sub EXCEPT ![c] = NewSub(IF hint = None THEN @.cursor ELSE hint)]

\* map_query_error of RetentionExpired: 410 Gone, with the earliest offset there is.
map_query_error(c) ==
    /\ Respond(c, 410)
    /\ Reanchor(c, RetentionExpired.earliest_available)
    /\ UNCHANGED <<entries, earliest_retained, got, api_tokens, reloads>>

\* Variant: the page's latest_offset is that of its last entry.
PageLatest(from, limit) ==
    LET page == read_range(from, from + limit) IN
        [entries |-> page,
         latest_offset |-> IF page = <<>> THEN latest_offset ELSE page[Len(page)].off]

\* EventQueryPort::read_events: both reads under one lock of the log.
read_events(from, limit) ==
    [entries |-> read_range(from, from + limit), latest_offset |-> latest_offset]

\* GET /api/v1/events
events(c) ==
    /\ conn[c].pc = "handle" /\ conn[c].op = "page"
    /\ IF Expired(sub[c].cursor) THEN map_query_error(c)
       ELSE LET page == read_events(sub[c].cursor, Smaller(conn[c].limit, MAX_EVENTS_LIMIT)) IN
           /\ conn' = [conn EXCEPT ![c].pc = "none", ![c].status = 200, ![c].tail = Len(entries),
                                   ![c].latest = page.latest_offset]
           /\ got' = [got EXCEPT ![c] = @ \o page.entries]
           /\ sub' = [sub EXCEPT ![c].cursor = @ + Len(page.entries)]
           /\ UNCHANGED <<entries, earliest_retained, api_tokens, reloads>>

\* GET /api/v1/events/stream
events_stream(c) ==
    /\ conn[c].pc = "handle" /\ conn[c].op = "stream"
    /\ IF Expired(sub[c].cursor) THEN map_query_error(c)
       ELSE /\ conn' = [conn EXCEPT ![c].pc = "stream", ![c].status = 200]
            /\ subscribe(c, sub[c].cursor)
            /\ UNCHANGED <<entries, earliest_retained, got, api_tokens, reloads>>

\* GET /api/v1/status, and /readyz without the token: the port's latest_offset.
status(c) ==
    /\ conn[c].pc = "handle" /\ conn[c].op = "status"
    /\ conn' = [conn EXCEPT ![c].pc = "none", ![c].status = 200]
    /\ UNCHANGED <<memVars, api_tokens, reloads>>

\* The query port fails (QueryError::Internal): 503, from any of the handlers.
Unavailable(c) ==
    /\ conn[c].pc = "handle"
    /\ Respond(c, 503)
    /\ UNCHANGED <<memVars, api_tokens, reloads>>

-----------------------------------------------------------------------------
\* The SSE stream: subscribe_events' unfold over next_entry, in events_stream's unfold.

\* Variant: an error is an item like any other.
NeverDone(c) == FALSE

\* StreamState::Done: the last item was an error.
Done(c) == sub[c].err.expired

Poll(c) ==
    /\ conn[c].pc = "stream" /\ ~Done(c)
    /\ Check(c) \/ Enable(c) \/ Recheck(c) \/ Wake(c)
    /\ UNCHANGED <<api_tokens, reloads, conn>>

\* After the error event the next poll ends the stream, and the connection with it.
EndStream(c) ==
    /\ conn[c].pc = "stream" /\ Done(c)
    /\ conn' = [conn EXCEPT ![c].pc = "none"]
    /\ Reanchor(c, sub[c].err.earliest_available)
    /\ UNCHANGED <<entries, earliest_retained, got, api_tokens, reloads>>

\* The client hangs up: the response body is dropped.
HangUp(c) ==
    /\ conn[c].pc = "stream"
    /\ conn' = [conn EXCEPT ![c].pc = "none"]
    /\ Drop(c)
    /\ UNCHANGED <<entries, earliest_retained, got, api_tokens, reloads>>

Serve(c) ==
    require_api_token(c) \/ events(c) \/ events_stream(c) \/ status(c) \/ Unavailable(c)
Stream(c) == Poll(c) \/ EndStream(c)

ClientStep(c) ==
    \/ \E l \in Limits : Request(c, "page", l)
    \/ Request(c, "stream", 0) \/ Request(c, "status", 0)
    \/ HangUp(c)

Next ==
    \/ LogStep
    \/ \E tokens \in TokenLists : SetTokens(tokens)
    \/ \E r \in Direct : DirectStep(r)
    \/ \E c \in Clients : Serve(c) \/ Stream(c) \/ ClientStep(c)

(***************************************************************************)
(* hyper polls a response body whose connection is open, and tokio runs    *)
(* the handlers that are ready.  A direct reader may stop reading.         *)
(***************************************************************************)
Spec ==
    /\ Init /\ [][Next]_vars
    /\ \A c \in Clients : WF_vars(Serve(c)) /\ WF_vars(Stream(c))

-----------------------------------------------------------------------------
(***************************************************************************)
(* A reader that follows its cursor over pages, streams, evictions and     *)
(* reconnections gets every entry once and in order; an offset it never    *)
(* got has been evicted.                                                   *)
(***************************************************************************)
ReadsEverything ==
    \A r \in Readers :
        /\ \A i \in DOMAIN got[r] : got[r][i] = entries[got[r][i].off + 1]
        /\ \A i, j \in DOMAIN got[r] : i < j => got[r][i].off < got[r][j].off
        /\ \A o \in 0..(sub[r].cursor - 1) :
               (\E i \in DOMAIN got[r] : got[r][i].off = o) \/ Expired(o)

(***************************************************************************)
(* "Callers can compare [latest_offset] against their cursor to detect     *)
(* whether they have caught up" (inbound/query.rs): a client that does is  *)
(* right, about the log as it was when the page was assembled.             *)
(***************************************************************************)
CaughtUp ==
    \A c \in Clients :
        conn[c].op = "page" /\ conn[c].status = 200 =>
            IF conn[c].latest = None
            THEN sub[c].cursor >= conn[c].tail
            ELSE conn[c].latest + 1 = sub[c].cursor <=> sub[c].cursor >= conn[c].tail

Streaming(c) == conn[c].pc = "stream"

(***************************************************************************)
(* No wake-up is lost (mem_log.rs: "would be lost and the subscription     *)
(* would block forever even though new entries exist"): a stream behind    *)
(* the tail moves on.                                                      *)
(***************************************************************************)
StreamMovesOn ==
    \A c \in Clients, o \in 0..MaxEntries :
        (Streaming(c) /\ sub[c].cursor = o /\ o < Len(entries))
            ~> ~(Streaming(c) /\ sub[c].cursor = o)

(***************************************************************************)
(* A stream whose offset is evicted is told, and closed: it does not "stay *)
(* open indefinitely" (api.rs, events_stream).                             *)
(***************************************************************************)
EvictedStreamEnds ==
    \A c \in Clients : (Streaming(c) /\ Expired(sub[c].cursor)) ~> ~Streaming(c)
=============================================================================
