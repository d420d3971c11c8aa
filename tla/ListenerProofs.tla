--------------------------- MODULE ListenerProofs ---------------------------
(***************************************************************************)
(* Theorems about Listener and Producer for every set of producers, every  *)
(* alphabet of the scripted ones and every bound: the gauge is exact, only *)
(* admitted producers are heard, a truncated frame is never taken for a    *)
(* clean close, the events of a connection reach append_event in the order *)
(* they were sent (IngestStream), and the ingest counter, as /metrics      *)
(* renders it, loses none of them.                                         *)
(*                                                                         *)
(* A step of the system is first broken down into what it does to each     *)
(* connection (Moves); the invariants are about one connection each.       *)
(***************************************************************************)
EXTENDS Listener, FiniteSetTheorems, SequenceTheorems, TLAPS

\* Every envelope that a producer of the model writes.
FromAlphabet == {Numbered(e, n) : e \in Alphabet, n \in 0..MaxFrames}
Envs ==
    FromAlphabet
    \cup {connect_envelope(c) : c \in Sims}
    \cup {Envelope(d.src, "Event", "ok", d) : d \in Payloads}
    \cup {Envelope(ProducerId[c], "Disconnect", "none", <<>>) : c \in Sims}

Piece == [hdr : BOOLEAN, env : Envs]

ClientState ==
    [pc : {"idle", "connect", "reply", "script", "run", "done"},
     phase : {"PendingMetadata", "PendingHealth", "Generating"},
     emitted : Nat, asleep : BOOLEAN, seq : Nat,
     err : {"none", "Io", "Rejected", "Closed", "Killed", "KilledMidFrame"},
     first : Seq(Envs)]

LivePc == {"spawned", "session", "meter_read", "meter_write"}

ConnState ==
    [pc : {"none", "tls", "handshake", "finished", "gone"} \cup LivePc,
     part : BOOLEAN, pending : Seq(Envs),
     end : {"none", "Clean", "Decode", "Handshake", "Io", "Storage", "Cancelled", "Aborted"}]

TypeInv ==
    /\ cl \in [Clients -> ClientState]
    /\ up \in [Clients -> Seq(Piece)]
    /\ link \in [Clients -> {"none", "open", "closed", "lost"}]
    /\ sent \in [Clients -> Seq(Payloads)]
    /\ sv \in [Clients -> ConnState]
    /\ delivered \in [Clients -> Seq(Payloads)]

-----------------------------------------------------------------------------
\* What a step does to connection d.

ClientRests(d) == cl'[d] = cl[d] /\ link'[d] = link[d] /\ sent'[d] = sent[d]
ServerRests(d) == sv'[d] = sv[d] /\ delivered'[d] = delivered[d]

\* The server's side goes on without touching the stream.
PcMoves(d, a, b) ==
    \/ a = b
    \/ a = "none" /\ b \in {"tls", "handshake"} /\ link[d] # "none"
    \/ a = "tls" /\ b = "handshake"
    \/ a \in {"spawned", "meter_read", "meter_write"} /\ b \in {"session", "meter_write"}
    \/ a = "finished" /\ b = "gone"

RestMove(d) ==
    /\ ClientRests(d) /\ up'[d] = up[d] /\ delivered'[d] = delivered[d]
    /\ sv'[d].part = sv[d].part /\ sv'[d].pending = sv[d].pending /\ sv'[d].end = sv[d].end
    /\ PcMoves(d, sv[d].pc, sv'[d].pc)

Closes(d) ==
    /\ sv'[d].pc \in {"finished", "gone"} /\ ~sv'[d].part /\ sv'[d].pending = <<>>
    /\ up'[d] = <<>>

CleanEnd(d) ==
    /\ sv[d].pc = "session"
    /\ \/ sv[d].pending = <<>> /\ AtEof(d) /\ Eof(sv[d].part) = "Clean"
       \/ sv[d].pending # <<>> /\ Head(sv[d].pending).type = "Disconnect"

EndMove(d) ==
    /\ ClientRests(d) /\ delivered'[d] = delivered[d]
    /\ ~peer_gone(d) /\ link[d] # "none"
    /\ Closes(d)
    /\ sv'[d].end # "none" /\ (sv'[d].end = "Clean" => CleanEnd(d))

ReadMove(d) ==
    /\ ClientRests(d) /\ delivered'[d] = delivered[d] /\ sv'[d].end = sv[d].end
    /\ \E n \in 1..Len(up[d]) :
         /\ up'[d] = SubSeq(up[d], n + 1, Len(up[d]))
         /\ sv'[d].part = up[d][n].hdr
         /\ LET envs == Envelopes(SubSeq(up[d], 1, n))
            IN \/ /\ sv[d].pc = "session" /\ sv'[d].pc = "session"
                  /\ sv[d].pending = <<>> /\ sv'[d].pending = envs
               \/ /\ sv[d].pc = "handshake" /\ sv'[d].pc = "handshake"
                  /\ envs = <<>> /\ sv'[d].pending = sv[d].pending
               \/ /\ sv[d].pc = "handshake" /\ sv'[d].pc = "spawned"
                  /\ envs # <<>> /\ handshake_inner(envs[1], allowed) = "Accepted"
                  /\ sv'[d].pending = Tail(envs)

TakeMove(d) ==
    /\ ClientRests(d)
    /\ sv[d].pc = "session" /\ sv[d].pending # <<>>
    /\ Head(sv[d].pending).type = "Event" /\ Head(sv[d].pending).src = ProducerId[d]
    /\ delivered'[d] = Append(delivered[d], Head(sv[d].pending).data)
    /\ \/ /\ up'[d] = up[d] /\ sv'[d].pending = Tail(sv[d].pending)
          /\ sv'[d].part = sv[d].part /\ sv'[d].end = sv[d].end
          /\ sv'[d].pc \in {"session", "meter_read"}
       \/ Closes(d) /\ sv'[d].end = "Storage"

SkipMove(d) ==
    /\ ClientRests(d) /\ up'[d] = up[d] /\ delivered'[d] = delivered[d]
    /\ sv[d].pc = "session" /\ sv'[d].pc = "session" /\ sv[d].pending # <<>>
    /\ Head(sv[d].pending).type = "Heartbeat" /\ sv'[d].pending = Tail(sv[d].pending)
    /\ sv'[d].part = sv[d].part /\ sv'[d].end = sv[d].end

StartMove(d) ==
    /\ ServerRests(d) /\ up'[d] = up[d] /\ sent'[d] = sent[d]
    /\ cl[d].pc = "idle" /\ link'[d] = "open"
    /\ cl'[d].pc \in {"connect", "script"}
    /\ cl'[d].first = cl[d].first /\ cl'[d].err = cl[d].err

\* The producer's task goes on without writing.
QuietMove(d) ==
    /\ ServerRests(d) /\ up'[d] = up[d] /\ sent'[d] = sent[d] /\ link'[d] = link[d]
    /\ cl[d].pc # "done"
    /\ cl'[d].pc = cl[d].pc \/ (cl[d].pc = "reply" /\ cl'[d].pc = "run")
    /\ cl'[d].first = cl[d].first /\ cl'[d].err = cl[d].err

\* The producer's task ends.  What it wrote on a dead connection is only history.
StopMove(d) ==
    /\ ServerRests(d) /\ up'[d] = up[d]
    /\ cl[d].pc # "done" /\ cl'[d].pc = "done"
    /\ cl'[d].err # "KilledMidFrame"
    /\ cl'[d].first = cl[d].first
    /\ link'[d] = IF link[d] = "open" THEN "closed" ELSE link[d]
    /\ \/ sent'[d] = sent[d]
       \/ /\ link[d] = "lost" \/ peer_gone(d)
          /\ \E data \in Payloads : sent'[d] = Append(sent[d], data)

SendMove(d) ==
    /\ ServerRests(d)
    /\ link[d] = "open" /\ cl[d].pc \notin {"idle", "done"}
    /\ \E env \in Envs :
         /\ up'[d] = IF peer_gone(d) THEN up[d] ELSE up[d] \o frame(env)
         /\ cl'[d].first = IF cl[d].first = <<>> THEN <<env>> ELSE cl[d].first
         /\ IF env.type = "Event" THEN sent'[d] = Append(sent[d], env.data) ELSE sent'[d] = sent[d]
         /\ \/ cl'[d].pc \in {"reply", "script", "run"} /\ link'[d] = "open"
               /\ (env.type = "Disconnect" => env \in FromAlphabet)
            \/ cl'[d].pc = "done" /\ link'[d] = "closed" /\ env.type = "Disconnect"
    /\ cl'[d].err = cl[d].err

LoseMove(d) ==
    /\ ServerRests(d) /\ cl'[d] = cl[d] /\ sent'[d] = sent[d]
    /\ link[d] \in {"open", "closed"} /\ ~peer_gone(d)
    /\ link'[d] = "lost" /\ up'[d] = <<>>

MidKillMove(d) ==
    /\ ServerRests(d) /\ sent'[d] = sent[d]
    /\ link[d] = "open" /\ cl[d].pc # "done" /\ up[d] # <<>>
    /\ cl'[d].pc = "done" /\ cl'[d].err = "KilledMidFrame" /\ cl'[d].first = cl[d].first
    /\ link'[d] = "closed" /\ up'[d] = SubSeq(up[d], 1, Len(up[d]) - 1)

ServerMoves(d) == RestMove(d) \/ EndMove(d) \/ ReadMove(d) \/ TakeMove(d) \/ SkipMove(d)
ClientMoves(d) ==
    StartMove(d) \/ QuietMove(d) \/ StopMove(d) \/ SendMove(d) \/ LoseMove(d) \/ MidKillMove(d)
Moves(d) == ServerMoves(d) \/ ClientMoves(d)

-----------------------------------------------------------------------------
\* What holds of one connection, whatever is on its way.
Basic(c) ==
    /\ cl[c].pc = "idle" => link[c] = "none"
    /\ link[c] = "none" => sv[c].pc = "none" /\ up[c] = <<>>
    /\ link[c] = "lost" => up[c] = <<>>
    /\ link[c] = "closed" => cl[c].pc = "done"
    /\ cl[c].pc # "done" => cl[c].err = "none"
    /\ peer_gone(c) => up[c] = <<>> /\ sv[c].pending = <<>>
    /\ sv[c].end # "none" => peer_gone(c)
    /\ sv[c].pc \in {"none", "tls"} => ~sv[c].part
    /\ sv[c].pc \in {"none", "tls", "handshake"} => sv[c].pending = <<>>
    /\ cl[c].pc \in {"idle", "connect"} => cl[c].first = <<>>
    /\ cl[c].pc \in {"reply", "run"} => cl[c].first # <<>>

\* A producer's task: what the simulated adapter has sent and what is left.
Issued(v) ==
    CASE v.phase = "PendingMetadata" -> 0
      [] v.phase = "PendingHealth" -> 1
      [] OTHER -> 2 + v.seq

Planned(v) ==
    /\ v.pc # "script" /\ v.seq = v.emitted /\ v.emitted <= Count
    /\ v.asleep => v.emitted < Count /\ v.phase = "Generating"
    /\ v.phase # "Generating" => v.seq = 0

NumberedFrom3(h) ==
    \A i \in 1..Len(h) :
        /\ i <= 2 => h[i].kind # "Detection"
        /\ i > 2 => h[i].kind = "Detection" /\ h[i].seq = i - 3

TaskOf(c, v, h) ==
    /\ c \in Sims => /\ Planned(v) /\ NumberedFrom3(h)
                     /\ v.pc # "done" => Len(h) = Issued(v)
    /\ c \in Scripted => v.pc \in {"idle", "script", "done"} /\ v.emitted <= MaxFrames

Tasks(c) == TaskOf(c, cl[c], sent[c])

\* Lengths and payloads alternate on the way; what is on its way ends with a
\* payload unless the producer died in the middle of a frame.
begun(c) == IF sv[c].part THEN 1 ELSE 0

Framed(c) ==
    /\ \A j \in 1..Len(up[c]) : up[c][j].hdr <=> (j + begun(c)) % 2 = 1
    /\ (~peer_gone(c) /\ link[c] # "lost") =>
         (Len(up[c]) + begun(c)) % 2 = IF cl[c].err = "KilledMidFrame" THEN 1 ELSE 0

\* The first payload of a connection decides about it.
AcceptedFirst(c) == cl[c].first # <<>> /\ handshake_inner(cl[c].first[1], allowed) = "Accepted"

Admitted(c) ==
    /\ cl[c].first = <<>> => up[c] = <<>> /\ ~sv[c].part
    /\ sv[c].pc \in {"none", "tls", "handshake"} =>
         /\ \A j \in 1..Len(up[c]) : j + begun(c) = 2 => up[c][j].env = cl[c].first[1]
         /\ cl[c].first # <<>> /\ link[c] = "open" => Len(up[c]) + begun(c) >= 2
    /\ sv[c].pc \in LivePc \/ delivered[c] # <<>> => AcceptedFirst(c)
    /\ \A i \in 1..Len(delivered[c]) : delivered[c][i].src = ProducerId[c]

\* The events that are on their way, read or not, continue what was delivered: f
\* and g count them along the decoder's queue and along what is not read yet.  If
\* nothing was lost they are all that was sent.
Counts(S, a, b, env) ==
    IF env.type = "Event" THEN b = a + 1 /\ b <= Len(S) /\ S[b] = env.data ELSE b = a

Chained(S, P, U, f, g) ==
    /\ f \in [0..Len(P) -> Nat] /\ g \in [0..Len(U) -> Nat]
    /\ \A i \in 1..Len(P) : Counts(S, f[i - 1], f[i], P[i])
    /\ g[0] = f[Len(P)]
    /\ \A j \in 1..Len(U) :
         IF U[j].hdr THEN g[j] = g[j - 1] ELSE Counts(S, g[j - 1], g[j], U[j].env)

Linked(a, b, S, P, U) == \E f, g : Chained(S, P, U, f, g) /\ f[0] = a /\ g[Len(U)] = b

Intact(c) == ~peer_gone(c) /\ link[c] # "lost" /\ cl[c].err # "KilledMidFrame"

InOrder(c) ==
    /\ Len(delivered[c]) <= Len(sent[c])
    /\ \A i \in 1..Len(delivered[c]) : delivered[c][i] = sent[c][i]
    /\ \E b \in Nat :
         /\ Linked(Len(delivered[c]), b, sent[c], sv[c].pending, up[c])
         /\ Intact(c) => b = Len(sent[c])

\* A Disconnect is the last thing its producer writes, on the way ...
LastSent(c) ==
    \A j \in 1..Len(up[c]) : up[c][j].env.type = "Disconnect" =>
        cl[c].pc = "done" /\ cl[c].err # "KilledMidFrame" /\ (~up[c][j].hdr => j = Len(up[c]))

\* ... and in the decoder's queue, where all that was sent before it has arrived,
\* even if the connection is lost now.
LastRead(c) ==
    \A i \in 1..Len(sv[c].pending) : sv[c].pending[i].type = "Disconnect" =>
        /\ cl[c].pc = "done" /\ cl[c].err # "KilledMidFrame"
        /\ i = Len(sv[c].pending) /\ up[c] = <<>>
        /\ Linked(Len(delivered[c]), Len(sent[c]), sent[c], sv[c].pending, <<>>)

CleanEnded(c) ==
    sv[c].end = "Clean" =>
        /\ cl[c].pc = "done"
        /\ cl[c].err # "KilledMidFrame" => delivered[c] = sent[c]
        /\ Transport = "tcp" => cl[c].err # "KilledMidFrame"

Goodbye(c) == LastSent(c) /\ LastRead(c) /\ CleanEnded(c)

-----------------------------------------------------------------------------
\* What a scripted event carries, and what every event on the wire carries.
LEMMA NumberedFacts ==
    ASSUME NEW e \in Alphabet, NEW n \in 0..MaxFrames
    PROVE  /\ Numbered(e, n) \in Envs
           /\ Numbered(e, n).type = e.type /\ Numbered(e, n).src = e.src
           /\ e.type = "Event" => /\ Numbered(e, n).data \in Payloads
                                  /\ Numbered(e, n).data.src = e.src
<1>1. Numbered(e, n) \in Envs
  BY DEF Envs, FromAlphabet
<1>2. DOMAIN e = EnvelopeFields /\ (e.type = "Event" => e.data \in [src : {e.src}, kind : Kinds, seq : Nat])
  BY AlphabetAssumption
<1>3. CASE e.type = "Event"
  <2> DEFINE d == [e.data EXCEPT !.seq = n]
  <2>1. Numbered(e, n) = [e EXCEPT !.data = d]
    BY <1>3 DEF Numbered
  <2>2. d.src = e.src /\ d.kind \in Kinds /\ d.seq = n /\ d \in [src : {e.src}, kind : Kinds, seq : 0..MaxFrames]
    BY <1>2, <1>3
  <2>3. e.src \in Names /\ n \in 0..(Count + MaxFrames)
    BY ProducerAssumption DEF Names
  <2>4. d \in Payloads
    BY <2>2, <2>3 DEF Payloads
  <2> HIDE DEF d
  <2>5. [e EXCEPT !.data = d].data = d /\ [e EXCEPT !.data = d].type = e.type /\ [e EXCEPT !.data = d].src = e.src
    BY <1>2 DEF EnvelopeFields
  <2> QED BY <1>1, <2>1, <2>2, <2>4, <2>5
<1>4. CASE e.type # "Event"
  BY <1>1, <1>4 DEF Numbered
<1> QED BY <1>3, <1>4

\* The envelopes the SDK builds.
LEMMA EnvFacts ==
    /\ \A c \in Sims : /\ connect_envelope(c) \in Envs
                       /\ connect_envelope(c).type = "Connect"
    /\ \A d \in Payloads : /\ Envelope(d.src, "Event", "ok", d) \in Envs
                           /\ Envelope(d.src, "Event", "ok", d).type = "Event"
                           /\ Envelope(d.src, "Event", "ok", d).data = d
    /\ \A c \in Sims : /\ Envelope(ProducerId[c], "Disconnect", "none", <<>>) \in Envs
                       /\ Envelope(ProducerId[c], "Disconnect", "none", <<>>).type = "Disconnect"
<1>1. /\ \A c \in Sims : connect_envelope(c) \in Envs
      /\ \A d \in Payloads : Envelope(d.src, "Event", "ok", d) \in Envs
      /\ \A c \in Sims : Envelope(ProducerId[c], "Disconnect", "none", <<>>) \in Envs
  BY DEF Envs, FromAlphabet
<1>2. \A a, b, d, f : Envelope(a, b, d, f).type = b /\ Envelope(a, b, d, f).data = f
  BY DEF Envelope
<1>3. \A c \in Sims : connect_envelope(c).type = "Connect"
  BY <1>2 DEF connect_envelope
<1> QED BY <1>1, <1>2, <1>3

\* The data of an event is a payload and carries the sender of its envelope.
LEMMA EventData ==
    ASSUME NEW env \in Envs, env.type = "Event"
    PROVE  env.data \in Payloads /\ env.data.src = env.src
<1>1. ASSUME NEW e \in Alphabet, NEW n \in 0..MaxFrames, env = Numbered(e, n)
      PROVE  env.data \in Payloads /\ env.data.src = env.src
  BY <1>1, NumberedFacts
<1>2. ASSUME NEW c \in Sims, env = connect_envelope(c) PROVE FALSE
  BY <1>2, EnvFacts
<1>3. ASSUME NEW d \in Payloads, env = Envelope(d.src, "Event", "ok", d)
      PROVE  env.data \in Payloads /\ env.data.src = env.src
  BY <1>3 DEF Envelope
<1>4. ASSUME NEW c \in Sims, env = Envelope(ProducerId[c], "Disconnect", "none", <<>>) PROVE FALSE
  BY <1>4, EnvFacts
<1> QED BY <1>1, <1>2, <1>3, <1>4 DEF Envs, FromAlphabet

\* The records of the server's side.
LEMMA EndedFacts ==
    ASSUME NEW v \in ConnState, NEW pc \in {"finished", "gone"},
           NEW end \in {"Clean", "Decode", "Handshake", "Io", "Storage", "Cancelled", "Aborted"}
    PROVE  /\ Ended(v, pc, end) \in ConnState
           /\ Ended(v, pc, end).pc = pc /\ Ended(v, pc, end).end = end
           /\ ~Ended(v, pc, end).part /\ Ended(v, pc, end).pending = <<>>
<1> DEFINE no == FALSE
           e == <<>>
           r == [v EXCEPT !.pc = pc, !.part = no, !.pending = e, !.end = end]
<1>1. r = Ended(v, pc, end)
  BY DEF Ended
<1>2. no \in BOOLEAN /\ e \in Seq(Envs) /\ e = <<>> /\ no = FALSE
  OBVIOUS
<1> HIDE DEF no, e
<1>3. /\ r \in ConnState /\ r.pc = pc /\ r.end = end /\ r.part = no /\ r.pending = e
  BY <1>2 DEF ConnState
<1> QED BY <1>1, <1>2, <1>3

\* A connection whose pc alone changes.
LEMMA PcFacts ==
    ASSUME NEW v \in ConnState,
           NEW pc \in {"none", "tls", "handshake", "finished", "gone"} \cup LivePc
    PROVE  /\ [v EXCEPT !.pc = pc] \in ConnState
           /\ [v EXCEPT !.pc = pc].pc = pc /\ [v EXCEPT !.pc = pc].end = v.end
           /\ [v EXCEPT !.pc = pc].part = v.part /\ [v EXCEPT !.pc = pc].pending = v.pending
BY DEF ConnState

\* A step of the server for connection c alone.
LEMMA ServeOne ==
    ASSUME TypeInv, \A d \in Clients : Basic(d), NEW c \in Clients, NEW r \in ConnState, NEW u \in Seq(Piece),
           NEW unread, unread = [up EXCEPT ![c] = u],
           NEW t, t = [sv EXCEPT ![c] = r], Serve(t, unread)
    PROVE  /\ sv' \in [Clients -> ConnState] /\ up' \in [Clients -> Seq(Piece)]
           /\ sv'[c] = r
           /\ r.pc \in {"finished", "gone"} => up'[c] = <<>>
           /\ r.pc \notin {"finished", "gone"} => up'[c] = u
           /\ \A d \in Clients : d # c => sv'[d] = sv[d] /\ up'[d] = up[d]
           /\ cl' = cl /\ link' = link /\ sent' = sent
<1>1. t \in [Clients -> ConnState] /\ t[c] = r /\ \A d \in Clients : d # c => t[d] = sv[d]
  BY DEF TypeInv
<1>2. unread \in [Clients -> Seq(Piece)] /\ unread[c] = u /\ \A d \in Clients : d # c => unread[d] = up[d]
  BY DEF TypeInv
<1>3. /\ sv' = t /\ cl' = cl /\ link' = link /\ sent' = sent
      /\ up' = [d \in Clients |-> IF t[d].pc \in {"finished", "gone"} THEN <<>> ELSE unread[d]]
  BY DEF Serve
<1>4. up' \in [Clients -> Seq(Piece)]
  BY <1>2, <1>3
<1>5. \A d \in Clients : up'[d] = IF t[d].pc \in {"finished", "gone"} THEN <<>> ELSE unread[d]
  BY <1>3
<1>6. ASSUME NEW d \in Clients, d # c
      PROVE  up'[d] = up[d]
  BY <1>1, <1>2, <1>5, <1>6 DEF Basic, peer_gone
<1> QED BY <1>1, <1>2, <1>3, <1>4, <1>5, <1>6

\* What one read completes: with o = 1 when it begins inside a frame, envelope i
\* ends at piece 2i - o.
LEMMA EnvelopesFacts ==
    ASSUME NEW U \in Seq(Piece), NEW n \in 1..Len(U), NEW o \in {0, 1},
           U[1].hdr => o = 0, ~U[1].hdr => o = 1
    PROVE  LET chunk == SubSeq(U, 1, n)
               E == Envelopes(chunk)
               L == (n + o) \div 2
           IN  /\ chunk \in Seq(Piece) /\ Len(chunk) = n /\ has_pending(chunk) = U[n].hdr
               /\ L \in Nat /\ (2 * L = n + o \/ 2 * L = n + o - 1)
               /\ E \in Seq(Envs) /\ Len(E) = L
               /\ \A i \in 1..L : 2 * i - o \in 1..n /\ E[i] = U[2 * i - o].env
<1> DEFINE chunk == SubSeq(U, 1, n)
           E == Envelopes(chunk)
           L == (n + o) \div 2
<1>1. Len(U) \in Nat /\ n \in Nat /\ n >= 1 /\ n <= Len(U)
  OBVIOUS
<1>2. chunk \in Seq(Piece) /\ Len(chunk) = n /\ \A i \in 1..n : chunk[i] = U[i]
  BY <1>1
<1>3. L \in Nat /\ (2 * L = n + o \/ 2 * L = n + o - 1)
  BY <1>1
<1>4. \A i \in 1..L : 2 * i - o \in 1..n
  BY <1>1, <1>3
<1> HIDE DEF chunk, L
<1>5. chunk[1] = U[1] /\ chunk[n] = U[n]
  BY <1>1, <1>2
<1>6. (IF chunk[1].hdr THEN 0 ELSE 1) = o
  BY <1>5
<1>7. E = [i \in 1..L |-> chunk[2 * i - o].env]
  BY <1>2, <1>6 DEF Envelopes, L
<1>8. \A i \in 1..L : chunk[2 * i - o].env = U[2 * i - o].env /\ U[2 * i - o].env \in Envs
  <2>1. \A j \in 1..n : U[j] \in Piece /\ chunk[j] = U[j]
    BY <1>1, <1>2
  <2> QED BY <1>4, <2>1 DEF Piece
<1> HIDE DEF E
<1>9. E \in Seq(Envs) /\ Len(E) = L /\ \A i \in 1..L : E[i] = U[2 * i - o].env
  BY <1>3, <1>7, <1>8
<1>10. has_pending(chunk) = U[n].hdr
  BY <1>2, <1>5 DEF has_pending
<1> QED BY <1>2, <1>3, <1>4, <1>9, <1>10 DEF E, chunk, L

Inv0 == TypeInv /\ \A d \in Clients : Basic(d) /\ Tasks(d)

\* What every step must establish.
Good == TypeInv' /\ \A d \in Clients : Moves(d) /\ Tasks(d)'

Quiet == cl' = cl /\ link' = link /\ sent' = sent

\* A step of the server that moves connection c and leaves the others alone.
LEMMA Others ==
    ASSUME Inv0, Quiet, NEW c \in Clients,
           sv' \in [Clients -> ConnState], up' \in [Clients -> Seq(Piece)],
           delivered' \in [Clients -> Seq(Payloads)],
           \A d \in Clients : d # c => /\ sv'[d] = sv[d] /\ up'[d] = up[d]
                                       /\ delivered'[d] = delivered[d],
           ServerMoves(c)
    PROVE  Good
<1>1. TypeInv'
  BY DEF TypeInv, Quiet, Inv0
<1>2. ASSUME NEW d \in Clients, d # c PROVE RestMove(d)
  BY <1>2 DEF RestMove, ClientRests, Quiet, PcMoves
<1>3. ASSUME NEW d \in Clients PROVE Tasks(d)'
  BY DEF Inv0, Quiet, Tasks
<1> QED BY <1>1, <1>2, <1>3 DEF Good, Moves, ServerMoves

\* The pc of a connection moves, and nothing else.
LEMMA GoesGood ==
    ASSUME Inv0, NEW c \in Clients, NEW pc \in {"tls", "handshake"} \cup LivePc,
           Goes(c, pc), delivered' = delivered, PcMoves(c, sv[c].pc, pc)
    PROVE  Good
<1> DEFINE r == [sv[c] EXCEPT !.pc = pc]
<1>1. sv[c] \in ConnState /\ up[c] \in Seq(Piece)
  BY DEF Inv0, TypeInv
<1>2. /\ r \in ConnState /\ r.pc = pc /\ r.end = sv[c].end /\ r.part = sv[c].part
      /\ r.pending = sv[c].pending
  BY <1>1, PcFacts
<1>3. [sv EXCEPT ![c].pc = pc] = [sv EXCEPT ![c] = r]
  OBVIOUS
<1>4. up = [up EXCEPT ![c] = up[c]]
  BY DEF Inv0, TypeInv
<1> HIDE DEF r
<1>5. Serve([sv EXCEPT ![c] = r], up)
  BY <1>3 DEF Goes
<1>6. /\ sv' \in [Clients -> ConnState] /\ up' \in [Clients -> Seq(Piece)]
      /\ sv'[c] = r
      /\ r.pc \notin {"finished", "gone"} => up'[c] = up[c]
      /\ \A d \in Clients : d # c => sv'[d] = sv[d] /\ up'[d] = up[d]
      /\ cl' = cl /\ link' = link /\ sent' = sent
  BY <1>1, <1>2, <1>4, <1>5, ServeOne DEF Inv0
<1>7. RestMove(c)
  BY <1>2, <1>6 DEF RestMove, ClientRests, LivePc
<1> QED BY <1>6, <1>7, Others DEF Quiet, ServerMoves, Inv0, TypeInv

\* A connection ends without another event.
LEMMA EndGood ==
    ASSUME Inv0, NEW c \in Clients, NEW pc \in {"finished", "gone"},
           NEW end \in {"Clean", "Decode", "Handshake", "Io", "Storage", "Cancelled", "Aborted"},
           Serve([sv EXCEPT ![c] = Ended(sv[c], pc, end)], up), delivered' = delivered,
           sv[c].pc \notin {"none", "finished", "gone"}, end = "Clean" => CleanEnd(c)
    PROVE  Good
<1> DEFINE r == Ended(sv[c], pc, end)
<1>1. sv[c] \in ConnState /\ up[c] \in Seq(Piece)
  BY DEF Inv0, TypeInv
<1>2. /\ r \in ConnState /\ r.pc = pc /\ r.end = end /\ ~r.part /\ r.pending = <<>>
  BY <1>1, EndedFacts
<1>4. up = [up EXCEPT ![c] = up[c]]
  BY DEF Inv0, TypeInv
<1>5. Serve([sv EXCEPT ![c] = r], up)
  OBVIOUS
<1> HIDE DEF r
<1>6. /\ sv' \in [Clients -> ConnState] /\ up' \in [Clients -> Seq(Piece)]
      /\ sv'[c] = r
      /\ r.pc \in {"finished", "gone"} => up'[c] = <<>>
      /\ \A d \in Clients : d # c => sv'[d] = sv[d] /\ up'[d] = up[d]
      /\ cl' = cl /\ link' = link /\ sent' = sent
  BY <1>1, <1>2, <1>4, <1>5, ServeOne DEF Inv0
<1>7. ~peer_gone(c) /\ link[c] # "none"
  BY DEF Inv0, Basic, peer_gone
<1>8. EndMove(c)
  BY <1>2, <1>6, <1>7 DEF EndMove, ClientRests, Closes
<1> QED BY <1>6, <1>8, Others DEF Quiet, ServerMoves, Inv0, TypeInv

\* A step of producer c alone.
Becomes(c, t, u, l, h) ==
    /\ t \in ClientState /\ cl' = [cl EXCEPT ![c] = t]
    /\ u \in Seq(Piece) /\ up' = [up EXCEPT ![c] = u]
    /\ l \in {"none", "open", "closed", "lost"} /\ link' = [link EXCEPT ![c] = l]
    /\ h \in Seq(Payloads) /\ sent' = [sent EXCEPT ![c] = h]

\* A step of producer c leaves the other producers and the server alone.
LEMMA ClientOne ==
    ASSUME Inv0, UNCHANGED serverVars, NEW c \in Clients,
           NEW t, NEW u, NEW l, NEW h, Becomes(c, t, u, l, h)
    PROVE  /\ TypeInv'
           /\ cl'[c] = t /\ up'[c] = u /\ link'[c] = l /\ sent'[c] = h /\ ServerRests(c)
           /\ (ClientMoves(c) /\ Tasks(c)') => Good
<1> USE DEF Becomes
<1>1. TypeInv'
  BY DEF Inv0, TypeInv, serverVars
<1>2. cl'[c] = t /\ up'[c] = u /\ link'[c] = l /\ sent'[c] = h /\ ServerRests(c)
  BY DEF Inv0, TypeInv, serverVars, ServerRests
<1>3. ASSUME NEW d \in Clients, d # c PROVE RestMove(d) /\ Tasks(d)'
  <2>1. cl'[d] = cl[d] /\ up'[d] = up[d] /\ link'[d] = link[d] /\ sent'[d] = sent[d]
    BY <1>3 DEF Inv0, TypeInv
  <2>2. sv' = sv /\ delivered' = delivered
    BY DEF serverVars
  <2>3. RestMove(d)
    BY <2>1, <2>2 DEF RestMove, ClientRests, PcMoves
  <2>4. Tasks(d)
    BY DEF Inv0
  <2>5. Tasks(d)'
    BY <2>1, <2>4 DEF Tasks
  <2> QED BY <2>3, <2>5
<1> QED BY <1>1, <1>2, <1>3 DEF Good, Moves, ServerMoves

\* The same when a component of the state does not change at all.
LEMMA Unmoved ==
    ASSUME TypeInv, NEW c \in Clients
    PROVE  /\ cl = [cl EXCEPT ![c] = cl[c]] /\ up = [up EXCEPT ![c] = up[c]]
           /\ link = [link EXCEPT ![c] = link[c]] /\ sent = [sent EXCEPT ![c] = sent[c]]
           /\ cl[c] \in ClientState /\ up[c] \in Seq(Piece)
           /\ link[c] \in {"none", "open", "closed", "lost"} /\ sent[c] \in Seq(Payloads)
BY DEF TypeInv

\* The task ends with an error or is closed: what it has not written stays unwritten.
LEMMA DoneFacts ==
    ASSUME NEW v \in ClientState,
           NEW e \in {"none", "Io", "Rejected", "Closed", "Killed", "KilledMidFrame"}
    PROVE  LET r == [v EXCEPT !.pc = "done", !.err = e]
           IN  /\ r \in ClientState /\ r.pc = "done" /\ r.err = e /\ r.first = v.first
               /\ r.phase = v.phase /\ r.emitted = v.emitted /\ r.asleep = v.asleep /\ r.seq = v.seq
BY DEF ClientState

\* The connection as a task leaves it behind.
Left(c) == IF link[c] = "open" THEN "closed" ELSE link[c]

\* A producer's task ends; what it wrote last may have gone nowhere.
LEMMA FailGood ==
    ASSUME Inv0, UNCHANGED serverVars, NEW c \in Clients, cl[c].pc # "done",
           NEW e \in {"none", "Io", "Rejected", "Closed", "Killed"},
           cl' = [cl EXCEPT ![c] = [cl[c] EXCEPT !.pc = "done", !.err = e]],
           link' = [link EXCEPT ![c] = Left(c)], up' = up,
           NEW h \in Seq(Payloads), sent' = [sent EXCEPT ![c] = h],
           \/ h = sent[c]
           \/ /\ link[c] = "lost" \/ peer_gone(c)
              /\ \E data \in Payloads : h = Append(sent[c], data),
           c \in Sims => NumberedFrom3(h)
    PROVE  Good
<1> DEFINE r == [cl[c] EXCEPT !.pc = "done", !.err = e]
<1>0. TypeInv /\ Tasks(c)
  BY DEF Inv0
<1>1. /\ r \in ClientState /\ r.pc = "done" /\ r.err = e /\ r.first = cl[c].first
      /\ r.phase = cl[c].phase /\ r.emitted = cl[c].emitted /\ r.asleep = cl[c].asleep /\ r.seq = cl[c].seq
  <2>1. cl[c] \in ClientState
    BY <1>0, Unmoved
  <2>2. e \in {"none", "Io", "Rejected", "Closed", "Killed", "KilledMidFrame"}
    OBVIOUS
  <2> QED BY <2>1, <2>2, DoneFacts, ZenonT(30)
<1>2. Left(c) \in {"none", "open", "closed", "lost"}
  BY <1>0, Unmoved DEF Left
<1>3. cl' = [cl EXCEPT ![c] = r]
  OBVIOUS
<1> HIDE DEF r
<1>4. /\ cl'[c] = r /\ up'[c] = up[c] /\ link'[c] = Left(c) /\ sent'[c] = h /\ ServerRests(c)
      /\ (ClientMoves(c) /\ Tasks(c)') => Good
  <2>1. up' = [up EXCEPT ![c] = up[c]]
    BY <1>0, Unmoved
  <2>2. up[c] \in Seq(Piece)
    BY <1>0, Unmoved
  <2>3. r \in ClientState
    BY <1>1
  <2>4. Becomes(c, r, up[c], Left(c), h)
    BY <1>2, <1>3, <2>1, <2>2, <2>3 DEF Becomes
  <2> QED BY <2>4, ClientOne
<1>5. StopMove(c)
  BY <1>1, <1>4 DEF StopMove, Left
<1>6. Tasks(c)'
  <2>1. TaskOf(c, r, h)
    BY <1>0, <1>1 DEF Tasks, TaskOf, Planned
  <2> QED BY <1>4, <2>1 DEF Tasks
<1> QED BY <1>4, <1>5, <1>6 DEF ClientMoves

\* The history so far, as a function that differs nowhere.
LEMMA Numbering ==
    ASSUME Inv0, NEW c \in Clients
    PROVE  /\ sent[c] \in Seq(Payloads) /\ sent = [sent EXCEPT ![c] = sent[c]]
           /\ c \in Sims => NumberedFrom3(sent[c])
BY Unmoved DEF Inv0, Tasks, TaskOf

\* The producer writes env and goes on as t, or finds the connection dead.
LEMMA SendGood ==
    ASSUME Inv0, UNCHANGED serverVars, NEW c \in Clients, cl[c].pc \notin {"idle", "done"},
           NEW env \in Envs, NEW t \in ClientState, send_frame(c, env, t),
           NEW h \in Seq(Payloads), sent' = [sent EXCEPT ![c] = h],
           env.type = "Event" => h = Append(sent[c], env.data),
           env.type # "Event" => h = sent[c],
           t.err = cl[c].err, t.first = IF cl[c].first = <<>> THEN <<env>> ELSE cl[c].first,
           \/ t.pc \in {"reply", "script", "run"} /\ (env.type = "Disconnect" => env \in FromAlphabet)
           \/ t.pc = "done" /\ env.type = "Disconnect",
           TaskOf(c, t, h)
    PROVE  Good
<1>0. TypeInv /\ Tasks(c)
  BY DEF Inv0
<1>1. /\ cl[c] \in ClientState /\ up[c] \in Seq(Piece) /\ sent[c] \in Seq(Payloads)
      /\ link[c] \in {"none", "open", "closed", "lost"}
  BY <1>0, Unmoved
<1>2. ASSUME link[c] = "open", cl' = [cl EXCEPT ![c] = t],
             up' = IF peer_gone(c) THEN up ELSE [up EXCEPT ![c] = up[c] \o frame(env)],
             link' = [link EXCEPT ![c] = IF t.pc = "done" THEN "closed" ELSE link[c]]
      PROVE  Good
  <2> DEFINE u == IF peer_gone(c) THEN up[c] ELSE up[c] \o frame(env)
             l == IF t.pc = "done" THEN "closed" ELSE link[c]
  <2>1. frame(env) \in Seq(Piece)
    BY DEF frame, Piece
  <2>2. u \in Seq(Piece) /\ l \in {"none", "open", "closed", "lost"}
    BY <1>1, <2>1
  <2>3. up' = [up EXCEPT ![c] = u] /\ link' = [link EXCEPT ![c] = l]
    BY <1>0, <1>2, Unmoved
  <2>4. u = (IF peer_gone(c) THEN up[c] ELSE up[c] \o frame(env))
    OBVIOUS
  <2>5. l = IF t.pc = "done" THEN "closed" ELSE "open"
    BY <1>2
  <2> HIDE DEF u, l
  <2>6. /\ cl'[c] = t /\ up'[c] = u /\ link'[c] = l /\ sent'[c] = h /\ ServerRests(c)
        /\ (ClientMoves(c) /\ Tasks(c)') => Good
    <3>1. Becomes(c, t, u, l, h)
      BY <1>2, <2>2, <2>3 DEF Becomes
    <3> QED BY <3>1, ClientOne
  <2>7. SendMove(c)
    <3>1. /\ up'[c] = IF peer_gone(c) THEN up[c] ELSE up[c] \o frame(env)
          /\ cl'[c].first = IF cl[c].first = <<>> THEN <<env>> ELSE cl[c].first
          /\ IF env.type = "Event" THEN sent'[c] = Append(sent[c], env.data) ELSE sent'[c] = sent[c]
      BY <2>4, <2>6
    <3>2. \/ cl'[c].pc \in {"reply", "script", "run"} /\ link'[c] = "open"
             /\ (env.type = "Disconnect" => env \in FromAlphabet)
          \/ cl'[c].pc = "done" /\ link'[c] = "closed" /\ env.type = "Disconnect"
      BY <2>5, <2>6
    <3>3. ServerRests(c) /\ link[c] = "open" /\ cl[c].pc \notin {"idle", "done"} /\ cl'[c].err = cl[c].err
      BY <1>2, <2>6
    <3> QED BY <3>1, <3>2, <3>3 DEF SendMove, FromAlphabet
  <2>8. Tasks(c)'
    BY <2>6 DEF Tasks
  <2> QED BY <2>6, <2>7, <2>8 DEF ClientMoves
<1>3. ASSUME link[c] = "lost" \/ peer_gone(c), Fail(c, "Io"), up' = up
      PROVE  Good
  <2>1. /\ cl' = [cl EXCEPT ![c] = [cl[c] EXCEPT !.pc = "done", !.err = "Io"]]
        /\ link' = [link EXCEPT ![c] = Left(c)]
    BY <1>3 DEF Fail, Left
  <2>2. h = sent[c] \/ \E data \in Payloads : h = Append(sent[c], data)
    BY EventData
  <2>3. c \in Sims => NumberedFrom3(h)
    BY DEF TaskOf
  <2> QED BY <1>3, <2>1, <2>2, <2>3, FailGood
<1> QED BY <1>2, <1>3 DEF send_frame

\* The records of the producers' side.
Same(r, v) == r.phase = v.phase /\ r.emitted = v.emitted /\ r.asleep = v.asleep /\ r.seq = v.seq

\* The records of a producer's task: another pc ...
LEMMA TaskPcFacts ==
    ASSUME NEW v \in ClientState,
           NEW pc \in {"idle", "connect", "reply", "script", "run", "done"}
    PROVE  LET r == [v EXCEPT !.pc = pc]
           IN  /\ r \in ClientState /\ r.pc = pc /\ r.err = v.err /\ r.first = v.first /\ Same(r, v)
BY DEF ClientState, Same

\* ... the Connect noted as the first envelope ...
LEMMA ConnectFacts ==
    ASSUME NEW v \in ClientState, NEW f \in Seq(Envs)
    PROVE  LET r == [v EXCEPT !.pc = "reply", !.first = f]
           IN  /\ r \in ClientState /\ r.pc = "reply" /\ r.err = v.err /\ r.first = f /\ Same(r, v)
BY DEF ClientState, Same

\* ... another phase of the adapter ...
LEMMA PhaseFacts ==
    ASSUME NEW v \in ClientState, NEW p \in {"PendingMetadata", "PendingHealth", "Generating"}
    PROVE  LET r == [v EXCEPT !.phase = p]
           IN  /\ r \in ClientState /\ r.pc = v.pc /\ r.err = v.err /\ r.first = v.first
               /\ r.phase = p /\ r.emitted = v.emitted /\ r.asleep = v.asleep /\ r.seq = v.seq
BY DEF ClientState

\* ... or the adapter falls asleep or wakes.
LEMMA AsleepFacts ==
    ASSUME NEW v \in ClientState, NEW b \in BOOLEAN
    PROVE  LET r == [v EXCEPT !.asleep = b]
           IN  /\ r \in ClientState /\ r.pc = v.pc /\ r.err = v.err /\ r.first = v.first
               /\ r.phase = v.phase /\ r.emitted = v.emitted /\ r.asleep = b /\ r.seq = v.seq
BY DEF ClientState

\* The producer's task goes on without writing.
LEMMA QuietGood ==
    ASSUME Inv0, UNCHANGED serverVars, NEW c \in Clients, NEW r \in ClientState,
           cl' = [cl EXCEPT ![c] = r], up' = up, link' = link, sent' = sent,
           cl[c].pc # "done", r.pc = cl[c].pc \/ (cl[c].pc = "reply" /\ r.pc = "run"),
           r.first = cl[c].first, r.err = cl[c].err, TaskOf(c, r, sent[c])
    PROVE  Good
<1>1. /\ up' = [up EXCEPT ![c] = up[c]] /\ link' = [link EXCEPT ![c] = link[c]]
      /\ sent' = [sent EXCEPT ![c] = sent[c]]
      /\ up[c] \in Seq(Piece) /\ sent[c] \in Seq(Payloads)
      /\ link[c] \in {"none", "open", "closed", "lost"}
  BY Unmoved DEF Inv0
<1>2. /\ cl'[c] = r /\ up'[c] = up[c] /\ link'[c] = link[c] /\ sent'[c] = sent[c] /\ ServerRests(c)
      /\ (ClientMoves(c) /\ Tasks(c)') => Good
  <2>1. Becomes(c, r, up[c], link[c], sent[c])
    BY <1>1 DEF Becomes
  <2> QED BY <2>1, ClientOne
<1>3. QuietMove(c)
  BY <1>2 DEF QuietMove
<1>4. Tasks(c)'
  BY <1>2 DEF Tasks
<1> QED BY <1>2, <1>3, <1>4 DEF ClientMoves

\* Fail ends the task and writes nothing.
LEMMA Fails ==
    ASSUME Inv0, UNCHANGED serverVars, NEW c \in Clients, cl[c].pc # "done",
           NEW e \in {"none", "Io", "Rejected", "Closed", "Killed"},
           Fail(c, e), up' = up, sent' = sent
    PROVE  Good
<1>1. /\ cl' = [cl EXCEPT ![c] = [cl[c] EXCEPT !.pc = "done", !.err = e]]
      /\ link' = [link EXCEPT ![c] = Left(c)]
  BY DEF Fail, Left
<1>2. /\ sent[c] \in Seq(Payloads) /\ sent' = [sent EXCEPT ![c] = sent[c]]
      /\ c \in Sims => NumberedFrom3(sent[c])
  BY Numbering
<1> QED BY <1>1, <1>2, FailGood

\* One lemma for each action of a producer: start, refused while nothing listens.
LEMMA StartGood ==
    ASSUME Inv0, UNCHANGED serverVars, NEW c \in Clients, start(c)
    PROVE  Good
<1>0. TypeInv /\ Tasks(c) /\ cl[c] \in ClientState /\ cl[c].pc = "idle"
  BY Unmoved DEF Inv0, start
<1>1. ASSUME NEW pc \in {"idle", "connect", "reply", "script", "run", "done"},
             NEW l \in {"none", "open", "closed", "lost"},
             link' = [link EXCEPT ![c] = l], cl' = [cl EXCEPT ![c].pc = pc], up' = up, sent' = sent,
             l = "open", pc = IF c \in Sims THEN "connect" ELSE "script"
      PROVE  Good
  <2> DEFINE r == [cl[c] EXCEPT !.pc = pc]
  <2>0. cl[c] \in ClientState
    BY <1>0
  <2>3. r \in ClientState /\ r.pc = pc /\ r.err = cl[c].err /\ r.first = cl[c].first /\ Same(r, cl[c])
    BY <2>0, TaskPcFacts
  <2>4. cl' = [cl EXCEPT ![c] = r]
    BY <1>1
  <2>5. /\ up' = [up EXCEPT ![c] = up[c]] /\ sent' = [sent EXCEPT ![c] = sent[c]]
        /\ up[c] \in Seq(Piece) /\ sent[c] \in Seq(Payloads)
    BY <1>0, <1>1, Unmoved
  <2>6. link' = [link EXCEPT ![c] = l] /\ l \in {"none", "open", "closed", "lost"}
    BY <1>1
  <2> HIDE DEF r
  <2>7. r \in ClientState
    BY <2>3
  <2>8. /\ cl'[c] = r /\ up'[c] = up[c] /\ link'[c] = l /\ sent'[c] = sent[c] /\ ServerRests(c)
        /\ (ClientMoves(c) /\ Tasks(c)') => Good
    <3>1. Becomes(c, r, up[c], l, sent[c])
      BY <2>4, <2>5, <2>6, <2>7 DEF Becomes
    <3> QED BY <3>1, ClientOne
  <2>9. StartMove(c)
    BY <1>0, <1>1, <2>3, <2>8 DEF StartMove
  <2>10. TaskOf(c, r, sent[c])
    BY <1>0, <1>1, <2>3, ProducerAssumption DEF Tasks, TaskOf, Planned, Same, Issued, Clients
  <2> QED BY <2>8, <2>9, <2>10 DEF ClientMoves, Tasks
<1>2. CASE Fail(c, "Io") /\ up' = up /\ sent' = sent
  <2>1. cl[c].pc # "done"
    BY <1>0
  <2> QED BY <1>2, <2>1, Fails
<1> QED BY <1>1, <1>2 DEF start

\* connect writes the first envelope, or fails.
LEMMA ConnectGood ==
    ASSUME Inv0, UNCHANGED serverVars, NEW c \in Clients, connect(c)
    PROVE  Good
<1> DEFINE env == connect_envelope(c)
           r == [cl[c] EXCEPT !.pc = "reply", !.first = <<env>>]
<1>0. /\ TypeInv /\ Tasks(c) /\ cl[c] \in ClientState /\ cl[c].pc = "connect" /\ cl[c].first = <<>>
      /\ sent' = sent
  BY Unmoved DEF Inv0, connect, Basic
<1>1. c \in Sims
  BY <1>0 DEF Tasks, TaskOf, Clients
<1>2. env \in Envs /\ env.type = "Connect"
  BY <1>1, EnvFacts
<1>3. send_frame(c, env, r)
  BY DEF connect
<1>4. <<env>> \in Seq(Envs)
  BY <1>2
<1> HIDE DEF env
<1>5. r \in ClientState /\ r.pc = "reply" /\ r.err = cl[c].err /\ r.first = <<env>> /\ Same(r, cl[c])
  BY <1>0, <1>4, ConnectFacts
<1> HIDE DEF r
<1>6. sent[c] \in Seq(Payloads) /\ sent' = [sent EXCEPT ![c] = sent[c]]
  BY <1>0, Numbering
<1>7. TaskOf(c, r, sent[c])
  BY <1>0, <1>1, <1>5, ProducerAssumption DEF Tasks, TaskOf, Planned, Same, Issued
<1>8. /\ cl[c].pc \notin {"idle", "done"} /\ env.type # "Event" /\ env.type # "Disconnect"
      /\ r.first = IF cl[c].first = <<>> THEN <<env>> ELSE cl[c].first
      /\ r.pc \in {"reply", "script", "run"} /\ r \in ClientState /\ r.err = cl[c].err
  BY <1>0, <1>2, <1>5
<1> QED BY <1>2, <1>3, <1>6, <1>7, <1>8, SendGood

\* recv_frame reads the answer, or fails.
LEMMA RecvGood ==
    ASSUME Inv0, UNCHANGED serverVars, NEW c \in Clients, recv_frame(c)
    PROVE  Good
<1>0. /\ TypeInv /\ Tasks(c) /\ cl[c] \in ClientState /\ cl[c].pc = "reply"
      /\ up' = up /\ sent' = sent
  BY Unmoved DEF Inv0, recv_frame
<1>1. CASE cl' = [cl EXCEPT ![c].pc = "run"] /\ link' = link
  <2> DEFINE r == [cl[c] EXCEPT !.pc = "run"]
  <2>1. r \in ClientState /\ r.pc = "run" /\ r.err = cl[c].err /\ r.first = cl[c].first /\ Same(r, cl[c])
    BY <1>0, TaskPcFacts
  <2>2. cl' = [cl EXCEPT ![c] = r]
    BY <1>1
  <2> HIDE DEF r
  <2>3. TaskOf(c, r, sent[c])
    BY <1>0, <2>1 DEF Tasks, TaskOf, Planned, Same, Issued
  <2>4. cl[c].pc # "done" /\ (cl[c].pc = "reply" /\ r.pc = "run")
    BY <1>0, <2>1
  <2> QED BY <1>0, <1>1, <2>1, <2>2, <2>3, <2>4, QuietGood
<1>2. ASSUME NEW e \in {"Rejected", "Closed"}, Fail(c, e) PROVE Good
  <2>1. cl[c].pc # "done" /\ e \in {"none", "Io", "Rejected", "Closed", "Killed"}
    BY <1>0
  <2> QED BY <1>0, <1>2, <2>1, Fails
<1> QED BY <1>1, <1>2 DEF recv_frame

\* A scripted producer writes an envelope of its alphabet.
LEMMA WriteScriptGood ==
    ASSUME Inv0, UNCHANGED serverVars, NEW c \in Clients, WriteScript(c)
    PROVE  Good
<1>0. /\ TypeInv /\ Tasks(c) /\ cl[c] \in ClientState /\ cl[c].pc = "script"
      /\ cl[c].emitted < MaxFrames
  BY Unmoved DEF Inv0, WriteScript
<1>1. cl[c].emitted \in 0..MaxFrames /\ cl[c].emitted + 1 \in Nat /\ c \in Scripted /\ c \notin Sims
  BY <1>0, ProducerAssumption DEF ClientState, Tasks, TaskOf, Planned, Clients
<1>2. PICK e \in Alphabet :
         LET env == Numbered(e, cl[c].emitted)
         IN /\ send_frame(c, env, [cl[c] EXCEPT !.emitted = @ + 1,
                                                !.first = IF @ = <<>> THEN <<env>> ELSE @])
            /\ sent' = IF env.type = "Event" THEN [sent EXCEPT ![c] = Append(@, env.data)] ELSE sent
  BY DEF WriteScript
<1> DEFINE env == Numbered(e, cl[c].emitted)
           n == cl[c].emitted + 1
           f == IF cl[c].first = <<>> THEN <<env>> ELSE cl[c].first
           r == [cl[c] EXCEPT !.emitted = n, !.first = f]
           h == IF env.type = "Event" THEN Append(sent[c], env.data) ELSE sent[c]
<1>3. env \in Envs /\ (env.type = "Event" => env.data \in Payloads)
  BY <1>1, NumberedFacts, EventData
<1>4. env \in FromAlphabet
  BY <1>1 DEF FromAlphabet
<1>5. send_frame(c, env, r)
  BY <1>2
<1>6. f \in Seq(Envs)
  BY <1>0, <1>3 DEF ClientState
<1>7. sent' = [sent EXCEPT ![c] = h]
  BY <1>0, <1>2, Unmoved
<1>8. h \in Seq(Payloads)
  BY <1>0, <1>3, Unmoved
<1>9. n \in Nat /\ n <= MaxFrames
  BY <1>0, <1>1, ProducerAssumption
<1>10. (env.type = "Event" => h = Append(sent[c], env.data)) /\ (env.type # "Event" => h = sent[c])
  OBVIOUS
<1>11. f = IF cl[c].first = <<>> THEN <<env>> ELSE cl[c].first
  OBVIOUS
<1> HIDE DEF n, f, h, env
<1>12. r \in ClientState /\ r.pc = cl[c].pc /\ r.err = cl[c].err /\ r.first = f /\ r.emitted = n
  <2>1. cl[c] \in ClientState /\ n \in Nat
    BY <1>0, <1>9
  <2>3. r = [cl[c] EXCEPT !.emitted = n, !.first = f]
    OBVIOUS
  <2> HIDE DEF r
  <2> QED BY <1>6, <2>1, <2>3 DEF ClientState
<1> HIDE DEF r
<1>13. TaskOf(c, r, h)
  BY <1>0, <1>1, <1>9, <1>12 DEF TaskOf
<1>14. /\ cl[c].pc \notin {"idle", "done"} /\ r.pc \in {"reply", "script", "run"} /\ r \in ClientState
       /\ r.err = cl[c].err /\ r.first = IF cl[c].first = <<>> THEN <<env>> ELSE cl[c].first
  BY <1>0, <1>11, <1>12
<1>15. env \in Envs
  BY <1>3
<1> QED BY <1>4, <1>5, <1>7, <1>8, <1>10, <1>13, <1>14, <1>15, SendGood

\* A scripted producer closes.
LEMMA CloseScriptGood ==
    ASSUME Inv0, UNCHANGED serverVars, NEW c \in Clients, CloseScript(c)
    PROVE  Good
<1> DEFINE r == [cl[c] EXCEPT !.pc = "done"]
<1>0. /\ TypeInv /\ Tasks(c) /\ cl[c] \in ClientState /\ cl[c].pc = "script" /\ cl[c].err = "none"
      /\ up' = up /\ sent' = sent
  BY Unmoved DEF Inv0, Basic, CloseScript
<1>1. r \in ClientState /\ r.pc = "done" /\ r.err = cl[c].err /\ r.first = cl[c].first /\ Same(r, cl[c])
  BY <1>0, TaskPcFacts
<1>2. cl' = [cl EXCEPT ![c] = r] /\ link' = [link EXCEPT ![c] = Left(c)]
  BY DEF CloseScript, Left
<1> HIDE DEF r
<1>3. Becomes(c, r, up[c], Left(c), sent[c])
  BY <1>0, <1>1, <1>2, Unmoved DEF Becomes, Left
<1>4. /\ cl'[c] = r /\ up'[c] = up[c] /\ link'[c] = Left(c) /\ sent'[c] = sent[c] /\ ServerRests(c)
      /\ (ClientMoves(c) /\ Tasks(c)') => Good
  BY <1>3, ClientOne
<1>5. StopMove(c)
  BY <1>0, <1>1, <1>4 DEF StopMove, Left
<1>6. TaskOf(c, r, sent[c])
  BY <1>0, <1>1 DEF Tasks, TaskOf, Planned, Same, Issued
<1> QED BY <1>4, <1>5, <1>6 DEF ClientMoves, Tasks

\* send_event: the event joins the history whether or not the write succeeds.
LEMMA EventGood ==
    ASSUME Inv0, UNCHANGED serverVars, NEW c \in Clients, cl[c].pc = "run",
           NEW data \in Payloads, data.src = ProducerId[c],
           NEW t \in ClientState, t.pc = "run", t.err = cl[c].err, t.first = cl[c].first,
           send_event(c, data, t), TaskOf(c, t, Append(sent[c], data))
    PROVE  Good
<1> DEFINE env == Envelope(ProducerId[c], "Event", "ok", data)
           h == Append(sent[c], data)
<1>1. env \in Envs /\ env.type = "Event" /\ env.data = data
  BY EnvFacts
<1>2. send_frame(c, env, t) /\ sent' = [sent EXCEPT ![c] = h]
  BY DEF send_event
<1>3. sent[c] \in Seq(Payloads)
  BY Numbering
<1>4. h \in Seq(Payloads) /\ h = Append(sent[c], env.data)
  BY <1>1, <1>3
<1>5. TaskOf(c, t, h)
  OBVIOUS
<1> HIDE DEF env, h
<1>6. cl[c].first # <<>>
  BY DEF Inv0, Basic
<1>7. /\ cl[c].pc \notin {"idle", "done"} /\ t.first = IF cl[c].first = <<>> THEN <<env>> ELSE cl[c].first
      /\ t.pc \in {"reply", "script", "run"}
      /\ env.type # "Disconnect"
  BY <1>1, <1>6
<1> QED BY <1>1, <1>2, <1>4, <1>5, <1>7, SendGood

\* The payloads of the SDK's builders.
LEMMA PayloadFacts ==
    ASSUME NEW c \in Clients, NEW kind \in Kinds, NEW n \in Nat, n <= Count
    PROVE  LET p == Payload(c, kind, n)
           IN  p \in Payloads /\ p.src = ProducerId[c] /\ p.kind = kind /\ p.seq = n
<1>1. ProducerId[c] \in Names /\ n \in 0..(Count + MaxFrames)
  BY ProducerAssumption DEF Names, Range
<1> QED BY <1>1 DEF Payload, Payloads

\* One more event behind those that were sent.
LEMMA NextNumber ==
    ASSUME NEW h \in Seq(Payloads), NEW p \in Payloads, NumberedFrom3(h),
           Len(h) < 2 => p.kind # "Detection",
           Len(h) >= 2 => p.kind = "Detection" /\ p.seq = Len(h) - 2
    PROVE  NumberedFrom3(Append(h, p)) /\ Len(Append(h, p)) = Len(h) + 1
BY DEF NumberedFrom3

\* The metadata and the health event come first.
LEMMA DeclareGood ==
    ASSUME Inv0, UNCHANGED serverVars, NEW c \in Clients, Declare(c)
    PROVE  Good
<1>0. TypeInv /\ Tasks(c) /\ cl[c] \in ClientState /\ cl[c].pc = "run" /\ ~cl[c].asleep
  BY Unmoved DEF Inv0, Declare, Running
<1>1. c \in Sims /\ c \notin Scripted /\ sent[c] \in Seq(Payloads) /\ Planned(cl[c])
      /\ NumberedFrom3(sent[c]) /\ Len(sent[c]) = Issued(cl[c])
  BY <1>0, Unmoved, ProducerAssumption DEF Tasks, TaskOf, Clients
<1>2. ASSUME NEW kind \in {"Metadata", "Health"},
             NEW p \in {"PendingMetadata", "PendingHealth", "Generating"},
             send_event(c, Status(c, kind), [cl[c] EXCEPT !.phase = p]),
             \/ cl[c].phase = "PendingMetadata" /\ p = "PendingHealth"
             \/ cl[c].phase = "PendingHealth" /\ p = "Generating"
      PROVE  Good
  <2> DEFINE r == [cl[c] EXCEPT !.phase = p]
             d == Status(c, kind)
  <2>1. d \in Payloads /\ d.src = ProducerId[c] /\ d.kind = kind
    BY PayloadFacts, ProducerAssumption DEF Kinds, Status
  <2>2. send_event(c, d, r)
    BY <1>2
  <2>3. cl[c] \in ClientState
    BY <1>0
  <2>4. /\ r \in ClientState /\ r.pc = cl[c].pc /\ r.err = cl[c].err /\ r.first = cl[c].first
        /\ r.phase = p /\ r.emitted = cl[c].emitted /\ r.asleep = cl[c].asleep /\ r.seq = cl[c].seq
    BY <2>3, PhaseFacts
  <2> HIDE DEF r, d
  <2>5. cl[c].seq = 0 /\ cl[c].seq = cl[c].emitted
    BY <1>1, <1>2 DEF Planned
  <2>6. Len(sent[c]) < 2 /\ Issued(r) = Len(sent[c]) + 1
    BY <1>1, <1>2, <2>4, <2>5 DEF Issued
  <2>7. NumberedFrom3(Append(sent[c], d)) /\ Len(Append(sent[c], d)) = Len(sent[c]) + 1
    <3>1. d.kind # "Detection"
      BY <2>1
    <3>2. ~(Len(sent[c]) >= 2)
      BY <1>1, <2>6
    <3> QED BY <1>1, <2>1, <2>6, <3>1, <3>2, NextNumber
  <2>8. Planned(r)
    BY <1>0, <1>1, <2>4, <2>5 DEF Planned
  <2>9. TaskOf(c, r, Append(sent[c], d))
    BY <1>1, <2>6, <2>7, <2>8 DEF TaskOf
  <2>10. r.pc = "run"
    BY <1>0, <2>4
  <2> QED BY <1>0, <2>1, <2>2, <2>4, <2>9, <2>10, EventGood
<1> QED BY <1>2 DEF Declare

\* A detection takes the next number.
LEMMA DetectGood ==
    ASSUME Inv0, UNCHANGED serverVars, NEW c \in Clients, Detect(c)
    PROVE  Good
<1>0. TypeInv /\ Tasks(c) /\ cl[c] \in ClientState /\ cl[c].pc = "run" /\ cl[c].asleep
  BY Unmoved DEF Inv0, Detect
<1>1. c \in Sims /\ c \notin Scripted /\ sent[c] \in Seq(Payloads) /\ Planned(cl[c])
      /\ NumberedFrom3(sent[c]) /\ Len(sent[c]) = Issued(cl[c])
  BY <1>0, Unmoved, ProducerAssumption DEF Tasks, TaskOf, Clients
<1>2. /\ cl[c].phase = "Generating" /\ cl[c].emitted < Count /\ cl[c].seq = cl[c].emitted
      /\ cl[c].seq \in Nat /\ cl[c].emitted \in Nat /\ Count \in Nat
  BY <1>0, <1>1, ProducerAssumption DEF Planned, ClientState
<1> DEFINE d == Payload(c, "Detection", cl[c].seq)
           b == FALSE
           n == cl[c].emitted + 1
           m == cl[c].seq + 1
           r == [cl[c] EXCEPT !.asleep = b, !.emitted = n, !.seq = m]
<1>3. d \in Payloads /\ d.src = ProducerId[c] /\ d.kind = "Detection" /\ d.seq = cl[c].seq
  BY <1>2, PayloadFacts DEF Kinds
<1>4. send_event(c, d, r)
  BY DEF Detect
<1>5. b \in BOOLEAN /\ ~b /\ n \in Nat /\ m \in Nat /\ n <= Count /\ m = n /\ m = cl[c].seq + 1
  BY <1>2
<1> HIDE DEF b, n, m
<1>6. /\ r \in ClientState /\ r.pc = cl[c].pc /\ r.err = cl[c].err /\ r.first = cl[c].first
      /\ r.phase = cl[c].phase /\ r.emitted = n /\ r.asleep = b /\ r.seq = m
  <2>1. cl[c] \in ClientState /\ b \in BOOLEAN /\ n \in Nat /\ m \in Nat
    BY <1>0, <1>5
  <2> QED BY <2>1 DEF ClientState
<1> HIDE DEF r, d
<1>7. Len(sent[c]) = 2 + cl[c].seq /\ Issued(r) = Len(sent[c]) + 1
  BY <1>1, <1>2, <1>5, <1>6 DEF Issued
<1>8. NumberedFrom3(Append(sent[c], d)) /\ Len(Append(sent[c], d)) = Len(sent[c]) + 1
  <2>1. ~(Len(sent[c]) < 2) /\ d.seq = Len(sent[c]) - 2
    BY <1>2, <1>3, <1>7
  <2> QED BY <1>1, <1>3, <2>1, NextNumber
<1>9. Planned(r)
  BY <1>0, <1>2, <1>5, <1>6 DEF Planned
<1>10. TaskOf(c, r, Append(sent[c], d))
  BY <1>1, <1>7, <1>8, <1>9 DEF TaskOf
<1>11. r.pc = "run"
  BY <1>0, <1>6
<1> QED BY <1>0, <1>3, <1>4, <1>6, <1>10, <1>11, EventGood

\* Sleep and SpuriousChange.
LEMMA AsleepGood ==
    ASSUME Inv0, UNCHANGED serverVars, NEW c \in Clients, NEW b \in BOOLEAN,
           cl' = [cl EXCEPT ![c].asleep = b], UNCHANGED <<up, link, sent>>, cl[c].pc = "run",
           b => cl[c].emitted < Count /\ cl[c].phase = "Generating"
    PROVE  Good
<1> DEFINE r == [cl[c] EXCEPT !.asleep = b]
<1>0. TypeInv /\ Tasks(c) /\ cl[c] \in ClientState
  BY Unmoved DEF Inv0
<1>1. /\ r \in ClientState /\ r.pc = cl[c].pc /\ r.err = cl[c].err /\ r.first = cl[c].first
      /\ r.phase = cl[c].phase /\ r.emitted = cl[c].emitted /\ r.asleep = b /\ r.seq = cl[c].seq
  BY <1>0, AsleepFacts
<1>2. cl' = [cl EXCEPT ![c] = r]
  OBVIOUS
<1> HIDE DEF r
<1>3. TaskOf(c, r, sent[c])
  BY <1>0, <1>1 DEF Tasks, TaskOf, Planned, Issued
<1> QED BY <1>1, <1>2, <1>3, QuietGood

\* disconnect writes the last envelope and closes.
LEMMA DisconnectGood ==
    ASSUME Inv0, UNCHANGED serverVars, NEW c \in Clients, disconnect(c)
    PROVE  Good
<1> DEFINE env == Envelope(ProducerId[c], "Disconnect", "none", <<>>)
           b == FALSE
           r == [cl[c] EXCEPT !.pc = "done", !.asleep = b]
<1>0. /\ TypeInv /\ Tasks(c) /\ cl[c] \in ClientState /\ cl[c].pc = "run" /\ cl[c].first # <<>>
      /\ sent' = sent
  BY Unmoved DEF Inv0, Basic, disconnect
<1>1. c \in Sims /\ c \notin Scripted
  BY <1>0, ProducerAssumption DEF Tasks, TaskOf, Clients
<1>2. env \in Envs /\ env.type = "Disconnect"
  BY <1>1, EnvFacts
<1>3. send_frame(c, env, r)
  BY DEF disconnect
<1>4. b \in BOOLEAN /\ ~b
  OBVIOUS
<1> HIDE DEF b, env
<1>5. /\ r \in ClientState /\ r.pc = "done" /\ r.err = cl[c].err /\ r.first = cl[c].first
      /\ r.phase = cl[c].phase /\ r.emitted = cl[c].emitted /\ r.asleep = b /\ r.seq = cl[c].seq
  <2>1. cl[c] \in ClientState /\ b \in BOOLEAN
    BY <1>0, <1>4
  <2> QED BY <2>1 DEF ClientState
<1> HIDE DEF r
<1>6. sent[c] \in Seq(Payloads) /\ sent' = [sent EXCEPT ![c] = sent[c]]
  BY <1>0, Numbering
<1>7. TaskOf(c, r, sent[c])
  BY <1>0, <1>1, <1>4, <1>5 DEF Tasks, TaskOf, Planned
<1>8. /\ cl[c].pc \notin {"idle", "done"} /\ env.type # "Event"
      /\ r.first = IF cl[c].first = <<>> THEN <<env>> ELSE cl[c].first
      /\ r \in ClientState /\ r.err = cl[c].err /\ r.pc = "done"
  BY <1>0, <1>2, <1>5
<1> QED BY <1>2, <1>3, <1>6, <1>7, <1>8, SendGood

\* A connection is lost with what the node has not read.
LEMMA LoseGood ==
    ASSUME Inv0, UNCHANGED serverVars, NEW c \in Clients, Lose(c)
    PROVE  Good
<1>0. TypeInv /\ Tasks(c)
  BY DEF Inv0
<1>1. /\ link[c] \in {"open", "closed"} /\ ~peer_gone(c) /\ link' = [link EXCEPT ![c] = "lost"]
      /\ up' = [up EXCEPT ![c] = <<>>] /\ cl' = cl /\ sent' = sent
  BY DEF Lose
<1>2. Becomes(c, cl[c], <<>>, "lost", sent[c])
  <2>1. cl' = [cl EXCEPT ![c] = cl[c]] /\ sent' = [sent EXCEPT ![c] = sent[c]]
        /\ cl[c] \in ClientState /\ sent[c] \in Seq(Payloads)
    BY <1>0, <1>1, Unmoved
  <2>2. <<>> \in Seq(Piece)
    OBVIOUS
  <2> QED BY <1>1, <2>1, <2>2 DEF Becomes
<1>3. /\ cl'[c] = cl[c] /\ up'[c] = <<>> /\ link'[c] = "lost" /\ sent'[c] = sent[c] /\ ServerRests(c)
      /\ (ClientMoves(c) /\ Tasks(c)') => Good
  BY <1>2, ClientOne
<1>4. LoseMove(c)
  BY <1>1, <1>3 DEF LoseMove
<1> QED BY <1>0, <1>3, <1>4 DEF ClientMoves, Tasks

\* A producer dies, maybe in the middle of a frame.
LEMMA KillGood ==
    ASSUME Inv0, UNCHANGED serverVars, NEW c \in Clients, Kill(c)
    PROVE  Good
<1>0. /\ TypeInv /\ Tasks(c) /\ cl[c] \in ClientState /\ link[c] = "open" /\ cl[c].pc # "done"
      /\ sent' = sent
  BY Unmoved DEF Inv0, Kill
<1>1. CASE Fail(c, "Killed") /\ up' = up
  BY <1>0, <1>1, Fails
<1>2. ASSUME NEW e \in {"none", "Io", "Rejected", "Closed", "Killed", "KilledMidFrame"},
             e = "KilledMidFrame", up[c] # <<>>, Fail(c, e), up' = [up EXCEPT ![c] = Front(up[c])]
      PROVE  Good
  <2> DEFINE r == [cl[c] EXCEPT !.pc = "done", !.err = e]
             u == SubSeq(up[c], 1, Len(up[c]) - 1)
  <2>1. up[c] \in Seq(Piece)
    BY <1>0, Unmoved
  <2>2. u = Front(up[c])
    BY DEF Front
  <2>3. u \in Seq(Piece)
    BY <1>2, <2>1
  <2>4. cl[c] \in ClientState
    BY <1>0
  <2>5. /\ r \in ClientState /\ r.pc = "done" /\ r.err = e /\ r.first = cl[c].first
        /\ r.phase = cl[c].phase /\ r.emitted = cl[c].emitted /\ r.asleep = cl[c].asleep /\ r.seq = cl[c].seq
    BY <2>4, DoneFacts, ZenonT(30)
  <2>6. cl' = [cl EXCEPT ![c] = r] /\ link' = [link EXCEPT ![c] = "closed"]
    BY <1>0, <1>2 DEF Fail
  <2> HIDE DEF r, u
  <2>7. Becomes(c, r, u, "closed", sent[c])
    <3>1. sent' = [sent EXCEPT ![c] = sent[c]] /\ sent[c] \in Seq(Payloads)
      BY <1>0, Numbering
    <3>2. up' = [up EXCEPT ![c] = u]
      BY <1>2, <2>2
    <3> QED BY <2>3, <2>5, <2>6, <3>1, <3>2 DEF Becomes
  <2>8. /\ cl'[c] = r /\ up'[c] = u /\ link'[c] = "closed" /\ sent'[c] = sent[c] /\ ServerRests(c)
        /\ (ClientMoves(c) /\ Tasks(c)') => Good
    BY <2>7, ClientOne
  <2>9. MidKillMove(c)
    BY <1>0, <1>2, <2>5, <2>8 DEF MidKillMove, u
  <2>10. TaskOf(c, r, sent[c])
    BY <1>0, <2>5 DEF Tasks, TaskOf, Planned
  <2> QED BY <2>8, <2>9, <2>10 DEF ClientMoves, Tasks
<1> QED BY <1>1, <1>2 DEF Kill

\* Every step of a producer.
LEMMA ClientGood ==
    ASSUME Inv0, UNCHANGED serverVars, NEW c \in Clients, ClientStep(c) \/ ClientChoice(c)
    PROVE  Good
<1>1. CASE Sleep(c)
  BY <1>1, AsleepGood DEF Sleep, Running
<1>2. CASE SpuriousChange(c)
  BY <1>2, AsleepGood DEF SpuriousChange
<1> QED BY <1>1, <1>2, StartGood, ConnectGood, RecvGood, WriteScriptGood, CloseScriptGood,
           DeclareGood, DetectGood, DisconnectGood, LoseGood, KillGood DEF ClientStep, ClientChoice

\* accept and what a session or a handshake does without reading.
LEMMA StepGood ==
    ASSUME Inv0, NEW c \in Clients,
           accept(c) \/ TlsAccept(c) \/ Timeout(c) \/ Poll(c) \/ incr(c) \/ IncrLocked(c)
    PROVE  Good
<1>1. CASE accept(c)
  <2>1. PICK pc \in {"tls", "handshake"} : pc = IF Tls THEN "tls" ELSE "handshake"
    OBVIOUS
  <2>2. Goes(c, pc) /\ delivered' = delivered /\ sv[c].pc = "none" /\ link[c] # "none"
    BY <1>1, <2>1 DEF accept, Connected
  <2>3. PcMoves(c, sv[c].pc, pc)
    BY <2>2 DEF PcMoves
  <2> QED BY <2>2, <2>3, GoesGood
<1>2. CASE TlsAccept(c)
  <2>0. sv[c].pc = "tls" /\ delivered' = delivered
    BY <1>2 DEF TlsAccept
  <2>1. CASE Goes(c, "handshake")
    <3>1. PcMoves(c, sv[c].pc, "handshake")
      BY <2>0 DEF PcMoves
    <3> QED BY <2>0, <2>1, <3>1, GoesGood
  <2>2. CASE AcceptErr(c, "Handshake", up)
    <3>1. Serve([sv EXCEPT ![c] = Ended(sv[c], "gone", "Handshake")], up)
      BY <2>2 DEF AcceptErr
    <3> QED BY <2>0, <3>1, EndGood
  <2> QED BY <1>2, <2>1, <2>2 DEF TlsAccept
<1>3. CASE Timeout(c)
  <2>1. /\ sv[c].pc \notin {"none", "finished", "gone"} /\ delivered' = delivered
        /\ Serve([sv EXCEPT ![c] = Ended(sv[c], "gone", "Handshake")], up)
    BY <1>3 DEF Timeout, InHandshake, AcceptErr
  <2> QED BY <2>1, EndGood
<1>4. ASSUME NEW pc \in {"session", "meter_write"}, Goes(c, pc), delivered' = delivered,
             sv[c].pc \in {"spawned", "meter_read", "meter_write"}
      PROVE  Good
  <2>1. PcMoves(c, sv[c].pc, pc) /\ pc \in {"tls", "handshake"} \cup LivePc
    BY <1>4 DEF PcMoves, LivePc
  <2> QED BY <1>4, <2>1, GoesGood
<1>5. CASE Poll(c)
  BY <1>4, <1>5 DEF Poll
<1>6. CASE incr(c)
  BY <1>4, <1>6 DEF incr
<1>7. CASE IncrLocked(c)
  BY <1>4, <1>7 DEF IncrLocked
<1> QED BY <1>1, <1>2, <1>3, <1>5, <1>6, <1>7

\* The end of the stream or a read error ends the handshake or the session.
LEMMA EndsGood ==
    ASSUME Inv0, NEW c \in Clients, HandshakeEnds(c) \/ SessionEnds(c)
    PROVE  Good
<1>1. CASE HandshakeEnds(c)
  <2>1. PICK end \in {"Handshake", "Decode", "Io"} :
           Serve([sv EXCEPT ![c] = Ended(sv[c], "gone", end)], up)
    BY <1>1 DEF HandshakeEnds, AcceptErr
  <2>2. sv[c].pc \notin {"none", "finished", "gone"} /\ delivered' = delivered
    BY <1>1 DEF HandshakeEnds
  <2>3. end \in {"Clean", "Decode", "Handshake", "Io", "Storage", "Cancelled", "Aborted"} /\ end # "Clean"
    OBVIOUS
  <2> QED BY <2>1, <2>2, <2>3, EndGood
<1>2. CASE SessionEnds(c)
  <2>1. PICK end \in {"Clean", "Decode", "Io"} :
           /\ Serve([sv EXCEPT ![c] = Ended(sv[c], "finished", end)], up)
           /\ end = "Clean" => AtEof(c) /\ Eof(sv[c].part) = "Clean"
    <3>1. Eof(sv[c].part) \in {"Clean", "Decode"}
      BY DEF Eof, UnixEof, TcpEof
    <3> QED BY <1>2, <3>1 DEF SessionEnds, Finish
  <2>2. sv[c].pc = "session" /\ sv[c].pending = <<>> /\ delivered' = delivered
    BY <1>2 DEF SessionEnds
  <2>3. end = "Clean" => CleanEnd(c)
    BY <2>1, <2>2 DEF CleanEnd
  <2>4. end \in {"Clean", "Decode", "Handshake", "Io", "Storage", "Cancelled", "Aborted"}
        /\ sv[c].pc \notin {"none", "finished", "gone"}
    BY <2>2
  <2> QED BY <2>1, <2>2, <2>3, <2>4, EndGood
<1> QED BY <1>1, <1>2

\* One read.
LEMMA ReadGood ==
    ASSUME Inv0, NEW c \in Clients, NEW n \in 1..Len(up[c]), NEW chunk, chunk = SubSeq(up[c], 1, n),
           NEW r, r \in ConnState, Serve([sv EXCEPT ![c] = r], Unread(c, chunk)), delivered' = delivered,
           r.part = has_pending(chunk), r.end = sv[c].end,
           NEW envs, envs = Envelopes(chunk),
           \/ sv[c].pc = "session" /\ r.pc = "session" /\ sv[c].pending = <<>> /\ r.pending = envs
           \/ sv[c].pc = "handshake" /\ r.pc = "handshake" /\ envs = <<>> /\ r.pending = sv[c].pending
           \/ /\ sv[c].pc = "handshake" /\ r.pc = "spawned" /\ envs # <<>>
              /\ handshake_inner(envs[1], allowed) = "Accepted" /\ r.pending = Tail(envs)
    PROVE  Good
<1> DEFINE u == SubSeq(up[c], n + 1, Len(up[c]))
<1>1. up[c] \in Seq(Piece) /\ n \in Nat /\ Len(up[c]) \in Nat
  BY DEF Inv0, TypeInv
<1>2. u \in Seq(Piece)
  BY <1>1
<1>3. Len(chunk) = n /\ has_pending(chunk) = up[c][n].hdr
  <2>1. PICK o \in {0, 1} : (up[c][1].hdr => o = 0) /\ (~up[c][1].hdr => o = 1)
    OBVIOUS
  <2> QED BY <1>1, <2>1, EnvelopesFacts
<1>4. Unread(c, chunk) = [up EXCEPT ![c] = u]
  BY <1>3 DEF Unread
<1>5. u = SubSeq(up[c], n + 1, Len(up[c]))
  OBVIOUS
<1> HIDE DEF u
<1>6. /\ sv' \in [Clients -> ConnState] /\ up' \in [Clients -> Seq(Piece)]
      /\ sv'[c] = r
      /\ r.pc \notin {"finished", "gone"} => up'[c] = u
      /\ \A d \in Clients : d # c => sv'[d] = sv[d] /\ up'[d] = up[d]
      /\ cl' = cl /\ link' = link /\ sent' = sent
  BY <1>2, <1>4, ServeOne DEF Inv0
<1>7. up'[c] = u
  BY <1>6
<1>8. /\ up'[c] = SubSeq(up[c], n + 1, Len(up[c])) /\ sv'[c].part = up[c][n].hdr
      /\ ClientRests(c) /\ delivered'[c] = delivered[c] /\ sv'[c].end = sv[c].end
  BY <1>3, <1>5, <1>6, <1>7 DEF ClientRests
<1>9. ReadMove(c)
  BY <1>6, <1>8 DEF ReadMove
<1> QED BY <1>6, <1>9, Others DEF Quiet, ServerMoves, Inv0, TypeInv

\* What a chunk is, and what the decoder makes of it.
LEMMA ChunkFacts ==
    ASSUME Inv0, NEW c \in Clients, NEW chunk \in Chunks(c)
    PROVE  /\ sv[c] \in ConnState
           /\ Envelopes(chunk) \in Seq(Envs) /\ has_pending(chunk) \in BOOLEAN
           /\ \E n \in 1..Len(up[c]) : chunk = SubSeq(up[c], 1, n)
<1>1. up[c] \in Seq(Piece) /\ sv[c] \in ConnState
  BY DEF Inv0, TypeInv
<1>2. PICK n \in 1..Len(up[c]) : chunk = SubSeq(up[c], 1, n)
  BY DEF Chunks
<1>3. PICK o \in {0, 1} : (up[c][1].hdr => o = 0) /\ (~up[c][1].hdr => o = 1)
  OBVIOUS
<1>4. Envelopes(chunk) \in Seq(Envs) /\ has_pending(chunk) = up[c][n].hdr
  BY <1>1, <1>2, <1>3, EnvelopesFacts
<1>5. up[c][n] \in Piece
  BY <1>1
<1> QED BY <1>1, <1>2, <1>4, <1>5 DEF Piece

\* fill_pending reads a chunk, or its decoder fails.
LEMMA FillGood ==
    ASSUME Inv0, NEW c \in Clients, fill_pending(c)
    PROVE  Good
<1>0. sv[c].pc = "session" /\ sv[c].pending = <<>> /\ delivered' = delivered
  BY DEF fill_pending
<1>1. PICK chunk \in Chunks(c) :
         \/ PushFails(chunk) /\ Finish(c, "Decode", up)
         \/ Serve([sv EXCEPT ![c].pending = Envelopes(chunk), ![c].part = has_pending(chunk)],
                  Unread(c, chunk))
  BY DEF fill_pending
<1>2. CASE Finish(c, "Decode", up)
  <2>1. Serve([sv EXCEPT ![c] = Ended(sv[c], "finished", "Decode")], up)
    BY <1>2 DEF Finish
  <2> QED BY <1>0, <2>1, EndGood
<1>3. CASE Serve([sv EXCEPT ![c].pending = Envelopes(chunk), ![c].part = has_pending(chunk)],
                 Unread(c, chunk))
  <2> DEFINE E == Envelopes(chunk)
             p == has_pending(chunk)
             r == [sv[c] EXCEPT !.pending = E, !.part = p]
  <2>1. /\ sv[c] \in ConnState /\ E \in Seq(Envs) /\ p \in BOOLEAN
        /\ \E n \in 1..Len(up[c]) : chunk = SubSeq(up[c], 1, n)
    BY ChunkFacts
  <2>2. [sv EXCEPT ![c].pending = E, ![c].part = p] = [sv EXCEPT ![c] = r]
    BY DEF Inv0, TypeInv
  <2>3. E = Envelopes(chunk) /\ p = has_pending(chunk)
    OBVIOUS
  <2>4. Serve([sv EXCEPT ![c] = r], Unread(c, chunk))
    BY <1>3, <2>2
  <2> HIDE DEF E, p
  <2>5. r \in ConnState /\ r.pc = sv[c].pc /\ r.end = sv[c].end /\ r.part = p /\ r.pending = E
    BY <2>1 DEF ConnState
  <2> HIDE DEF r
  <2> QED BY <1>0, <2>1, <2>3, <2>4, <2>5, ReadGood
<1> QED BY <1>1, <1>2, <1>3

\* One read of the handshake: rejected, unfinished or admitted.
LEMMA HandshakeGood ==
    ASSUME Inv0, NEW c \in Clients, handshake(c)
    PROVE  Good
<1>0. sv[c].pc = "handshake" /\ delivered' = delivered
  BY DEF handshake
<1>1. PICK chunk \in Chunks(c) :
         \/ PushFails(chunk) /\ AcceptErr(c, "Decode", up)
         \/ /\ Envelopes(chunk) = <<>>
            /\ Serve([sv EXCEPT ![c].part = has_pending(chunk)], Unread(c, chunk))
         \/ /\ Envelopes(chunk) # <<>>
            /\ Reply(c, chunk, handshake_inner(Envelopes(chunk)[1], allowed))
  BY DEF handshake
<1> DEFINE E == Envelopes(chunk)
           p == has_pending(chunk)
<1>2. /\ sv[c] \in ConnState /\ E \in Seq(Envs) /\ p \in BOOLEAN
      /\ \E n \in 1..Len(up[c]) : chunk = SubSeq(up[c], 1, n)
  BY ChunkFacts
<1>3. ASSUME NEW end \in {"Decode", "Handshake"}, AcceptErr(c, end, up)
      PROVE  Good
  <2>1. Serve([sv EXCEPT ![c] = Ended(sv[c], "gone", end)], up)
    BY <1>3 DEF AcceptErr
  <2>2. end \in {"Clean", "Decode", "Handshake", "Io", "Storage", "Cancelled", "Aborted"} /\ end # "Clean"
    OBVIOUS
  <2> QED BY <1>0, <2>1, <2>2, EndGood
<1>4. CASE E = <<>> /\ Serve([sv EXCEPT ![c].part = p], Unread(c, chunk))
  <2> DEFINE r == [sv[c] EXCEPT !.part = p]
  <2>1. Serve([sv EXCEPT ![c] = r], Unread(c, chunk))
    BY <1>4
  <2>2. E = Envelopes(chunk) /\ p = has_pending(chunk)
    OBVIOUS
  <2> HIDE DEF E, p
  <2>3. r \in ConnState /\ r.pc = sv[c].pc /\ r.end = sv[c].end /\ r.part = p /\ r.pending = sv[c].pending
    BY <1>2 DEF ConnState
  <2> HIDE DEF r
  <2> QED BY <1>0, <1>2, <1>4, <2>1, <2>2, <2>3, ReadGood
<1>5. CASE E # <<>> /\ handshake_inner(E[1], allowed) = "Accepted" /\ Admit(c, chunk)
  <2> DEFINE tl == Tail(E)
             r == [sv[c] EXCEPT !.pc = "spawned", !.part = p, !.pending = tl]
  <2>1. Serve([sv EXCEPT ![c] = r], Unread(c, chunk))
    BY <1>5 DEF Admit
  <2>2. E = Envelopes(chunk) /\ p = has_pending(chunk) /\ tl = Tail(E)
    OBVIOUS
  <2>3. tl \in Seq(Envs)
    BY <1>2, <1>5
  <2> HIDE DEF E, p, tl
  <2>4. r \in ConnState /\ r.pc = "spawned" /\ r.end = sv[c].end /\ r.part = p /\ r.pending = tl
    BY <1>2, <2>3 DEF ConnState, LivePc
  <2> HIDE DEF r
  <2> QED BY <1>0, <1>2, <1>5, <2>1, <2>2, <2>4, ReadGood
<1>6. CASE E # <<>> /\ Reply(c, chunk, handshake_inner(E[1], allowed))
  BY <1>3, <1>5, <1>6 DEF Reply
<1> QED BY <1>1, <1>3, <1>4, <1>6

\* What process accepts has the type it acts on; an event is under its own name.
LEMMA ProcessFacts ==
    ASSUME NEW id, NEW env
    PROVE  /\ process(id, env) = "Event" => env.type = "Event" /\ env.src = id
           /\ process(id, env) = "Heartbeat" => env.type = "Heartbeat"
           /\ process(id, env) = "Disconnect" => env.type = "Disconnect"
BY DEF process, Asked

\* The session takes the first envelope it holds.
LEMMA TakeGood ==
    ASSUME Inv0, NEW c \in Clients, sv[c].pc = "session", sv[c].pending # <<>>,
           Head(sv[c].pending).type = "Event", Head(sv[c].pending).src = ProducerId[c],
           delivered' = [delivered EXCEPT ![c] = Append(delivered[c], Head(sv[c].pending).data)],
           NEW r, r \in ConnState, Serve([sv EXCEPT ![c] = r], up),
           \/ /\ r.pending = Tail(sv[c].pending) /\ r.part = sv[c].part /\ r.end = sv[c].end
              /\ r.pc \in {"session", "meter_read"}
           \/ /\ r.pc = "finished" /\ ~r.part /\ r.pending = <<>> /\ r.end = "Storage"
    PROVE  Good
<1>1. up = [up EXCEPT ![c] = up[c]] /\ up[c] \in Seq(Piece) /\ sv[c] \in ConnState
      /\ delivered[c] \in Seq(Payloads)
  BY DEF Inv0, TypeInv
<1>2. /\ sv' \in [Clients -> ConnState] /\ up' \in [Clients -> Seq(Piece)]
      /\ sv'[c] = r
      /\ r.pc \in {"finished", "gone"} => up'[c] = <<>>
      /\ r.pc \notin {"finished", "gone"} => up'[c] = up[c]
      /\ \A d \in Clients : d # c => sv'[d] = sv[d] /\ up'[d] = up[d]
      /\ cl' = cl /\ link' = link /\ sent' = sent
  BY <1>1, ServeOne DEF Inv0
<1>3. Head(sv[c].pending) \in Envs
  BY <1>1 DEF ConnState
<1>4. Head(sv[c].pending).data \in Payloads
  BY <1>3, EventData
<1>5. Append(delivered[c], Head(sv[c].pending).data) \in Seq(Payloads)
  BY <1>1, <1>4
<1>6. /\ delivered' \in [Clients -> Seq(Payloads)]
      /\ delivered'[c] = Append(delivered[c], Head(sv[c].pending).data)
      /\ \A d \in Clients : d # c => delivered'[d] = delivered[d]
  BY <1>5 DEF Inv0, TypeInv
<1>7. TakeMove(c)
  BY <1>2, <1>6 DEF TakeMove, ClientRests, Closes
<1> QED BY <1>2, <1>6, <1>7, Others DEF Quiet, ServerMoves

\* A heartbeat is taken from the queue.
LEMMA SkipGood ==
    ASSUME Inv0, NEW c \in Clients, sv[c].pc = "session", sv[c].pending # <<>>,
           Head(sv[c].pending).type = "Heartbeat", delivered' = delivered,
           NEW r, r \in ConnState, Serve([sv EXCEPT ![c] = r], up),
           r.pending = Tail(sv[c].pending), r.part = sv[c].part, r.end = sv[c].end, r.pc = "session"
    PROVE  Good
<1>1. up = [up EXCEPT ![c] = up[c]] /\ up[c] \in Seq(Piece)
  BY DEF Inv0, TypeInv
<1>2. /\ sv' \in [Clients -> ConnState] /\ up' \in [Clients -> Seq(Piece)]
      /\ sv'[c] = r
      /\ r.pc \notin {"finished", "gone"} => up'[c] = up[c]
      /\ \A d \in Clients : d # c => sv'[d] = sv[d] /\ up'[d] = up[d]
      /\ cl' = cl /\ link' = link /\ sent' = sent
  BY <1>1, ServeOne DEF Inv0
<1>3. SkipMove(c)
  BY <1>2 DEF SkipMove, ClientRests
<1> QED BY <1>2, <1>3, Others DEF Quiet, ServerMoves, Inv0, TypeInv

\* next_event, with the three outcomes of append_event.
LEMMA NextEventGood ==
    ASSUME Inv0, NEW c \in Clients, next_event(c)
    PROVE  Good
<1> DEFINE env == Head(sv[c].pending)
           action == process(ProducerId[c], env)
           tl == Tail(sv[c].pending)
<1>0. sv[c].pc = "session" /\ sv[c].pending # <<>>
  BY DEF next_event
<1>1. sv[c] \in ConnState /\ tl \in Seq(Envs)
  BY <1>0 DEF Inv0, TypeInv, ConnState
<1>2. /\ action = "Event" => env.type = "Event" /\ env.src = ProducerId[c]
      /\ action = "Heartbeat" => env.type = "Heartbeat"
      /\ action = "Disconnect" => env.type = "Disconnect"
  BY ProcessFacts
<1>3. [sv EXCEPT ![c].pending = tl] = [sv EXCEPT ![c] = [sv[c] EXCEPT !.pending = tl]]
  OBVIOUS
<1>4. tl = Tail(sv[c].pending)
  OBVIOUS
<1>5. CASE action = "Event" /\ append_event(c, env.data)
  <2>1. delivered' = [delivered EXCEPT ![c] = Append(delivered[c], env.data)]
    BY <1>5 DEF append_event
  <2>2. CASE Serve([sv EXCEPT ![c] = [sv[c] EXCEPT !.pc = "meter_read", !.pending = tl]], up)
    <3> DEFINE r == [sv[c] EXCEPT !.pc = "meter_read", !.pending = tl]
    <3>1. Serve([sv EXCEPT ![c] = r], up)
      BY <2>2
    <3> HIDE DEF tl
    <3>2. /\ r \in ConnState /\ r.pc = "meter_read" /\ r.end = sv[c].end
          /\ r.part = sv[c].part /\ r.pending = tl
      BY <1>1 DEF ConnState, LivePc
    <3> HIDE DEF r
    <3> QED BY <1>0, <1>2, <1>4, <1>5, <2>1, <3>1, <3>2, TakeGood
  <2>3. CASE Serve([sv EXCEPT ![c].pending = tl], up)
    <3> DEFINE r == [sv[c] EXCEPT !.pending = tl]
    <3>1. Serve([sv EXCEPT ![c] = r], up)
      BY <1>3, <2>3
    <3> HIDE DEF tl
    <3>2. /\ r \in ConnState /\ r.pc = sv[c].pc /\ r.end = sv[c].end
          /\ r.part = sv[c].part /\ r.pending = tl
      BY <1>1 DEF ConnState
    <3> HIDE DEF r
    <3> QED BY <1>0, <1>2, <1>4, <1>5, <2>1, <3>1, <3>2, TakeGood
  <2>4. CASE Finish(c, "Storage", up)
    <3> DEFINE r == Ended(sv[c], "finished", "Storage")
    <3>1. Serve([sv EXCEPT ![c] = r], up)
      BY <2>4 DEF Finish
    <3>2. r \in ConnState /\ r.pc = "finished" /\ ~r.part /\ r.pending = <<>> /\ r.end = "Storage"
      BY <1>1, EndedFacts
    <3> HIDE DEF r
    <3> QED BY <1>0, <1>2, <1>5, <2>1, <3>1, <3>2, TakeGood
  <2>5. \/ Serve([sv EXCEPT ![c] = [@ EXCEPT !.pc = "meter_read", !.pending = Tail(sv[c].pending)]], up)
        \/ Serve([sv EXCEPT ![c].pending = Tail(@)], up)
        \/ Finish(c, "Storage", up)
    BY <1>5 DEF append_event
  <2>6. /\ [sv EXCEPT ![c] = [@ EXCEPT !.pc = "meter_read", !.pending = Tail(sv[c].pending)]]
            = [sv EXCEPT ![c] = [sv[c] EXCEPT !.pc = "meter_read", !.pending = tl]]
        /\ [sv EXCEPT ![c].pending = Tail(@)] = [sv EXCEPT ![c].pending = tl]
    OBVIOUS
  <2> QED BY <2>2, <2>3, <2>4, <2>5, <2>6
<1>6. CASE action = "Heartbeat" /\ Serve([sv EXCEPT ![c].pending = tl], up) /\ delivered' = delivered
  <2> DEFINE r == [sv[c] EXCEPT !.pending = tl]
  <2>1. Serve([sv EXCEPT ![c] = r], up)
    BY <1>3, <1>6
  <2> HIDE DEF tl
  <2>2. /\ r \in ConnState /\ r.pc = sv[c].pc /\ r.end = sv[c].end
        /\ r.part = sv[c].part /\ r.pending = tl
    BY <1>1 DEF ConnState
  <2> HIDE DEF r
  <2> QED BY <1>0, <1>2, <1>4, <1>6, <2>1, <2>2, SkipGood
<1>7. ASSUME NEW end \in {"Clean", "Decode"}, Finish(c, end, up), delivered' = delivered,
             end = "Clean" => action = "Disconnect"
      PROVE  Good
  <2>1. Serve([sv EXCEPT ![c] = Ended(sv[c], "finished", end)], up)
    BY <1>7 DEF Finish
  <2>2. end = "Clean" => CleanEnd(c)
    BY <1>0, <1>2, <1>7 DEF CleanEnd
  <2>3. end \in {"Clean", "Decode", "Handshake", "Io", "Storage", "Cancelled", "Aborted"}
        /\ sv[c].pc \notin {"none", "finished", "gone"}
    BY <1>0
  <2> QED BY <1>7, <2>1, <2>2, <2>3, EndGood
<1> QED BY <1>5, <1>6, <1>7 DEF next_event

\* Several connections at once: joined, cancelled or aborted.
LEMMA ServeAll ==
    ASSUME Inv0, NEW t \in [Clients -> ConnState], Serve(t, up), delivered' = delivered,
           \A d \in Clients :
             \/ t[d] = sv[d]
             \/ sv[d].pc = "finished" /\ t[d] = [sv[d] EXCEPT !.pc = "gone"]
             \/ /\ ~peer_gone(d) /\ link[d] # "none"
                /\ \E end \in {"Cancelled", "Aborted"} : t[d] = Ended(sv[d], "gone", end)
    PROVE  Good
<1>1. /\ sv' = t /\ cl' = cl /\ link' = link /\ sent' = sent
      /\ up' = [d \in Clients |-> IF t[d].pc \in {"finished", "gone"} THEN <<>> ELSE up[d]]
  BY DEF Serve
<1>2. up' \in [Clients -> Seq(Piece)]
  BY <1>1 DEF Inv0, TypeInv
<1>3. TypeInv'
  BY <1>1, <1>2 DEF Inv0, TypeInv
<1>4. ASSUME NEW d \in Clients PROVE Moves(d) /\ Tasks(d)'
  <2>0. sv[d] \in ConnState /\ Tasks(d) /\ (peer_gone(d) => up[d] = <<>>)
        /\ up'[d] = IF t[d].pc \in {"finished", "gone"} THEN <<>> ELSE up[d]
    BY <1>1 DEF Inv0, TypeInv, Basic
  <2>1. ASSUME t[d] = sv[d] PROVE Moves(d)
    BY <1>1, <2>0, <2>1 DEF RestMove, ClientRests, PcMoves, Moves, ServerMoves, peer_gone
  <2>2. ASSUME sv[d].pc = "finished" /\ t[d] = [sv[d] EXCEPT !.pc = "gone"] PROVE Moves(d)
    <3>1. /\ t[d].pc = "gone" /\ t[d].end = sv[d].end /\ t[d].part = sv[d].part
          /\ t[d].pending = sv[d].pending
      BY <2>0, <2>2, PcFacts
    <3>2. RestMove(d)
      BY <1>1, <2>0, <2>2, <3>1 DEF RestMove, ClientRests, PcMoves, peer_gone
    <3> QED BY <3>2 DEF Moves, ServerMoves
  <2>3. ASSUME ~peer_gone(d), link[d] # "none", NEW end \in {"Cancelled", "Aborted"},
               t[d] = Ended(sv[d], "gone", end)
        PROVE  Moves(d)
    <3>1. t[d].pc = "gone" /\ t[d].end = end /\ ~t[d].part /\ t[d].pending = <<>>
      BY <2>0, <2>3, EndedFacts
    <3>2. EndMove(d)
      BY <1>1, <2>0, <2>3, <3>1 DEF EndMove, ClientRests, Closes
    <3> QED BY <3>2 DEF Moves, ServerMoves
  <2>4. Tasks(d)'
    BY <1>1, <2>0 DEF Tasks
  <2> QED BY <2>1, <2>2, <2>3, <2>4
<1> QED BY <1>3, <1>4 DEF Good

\* The select ends: finished tasks are joined, the handshake in progress is dropped.
LEMMA JoinedGood ==
    ASSUME Inv0, NEW cs, \A d \in cs : sv[d].pc = "finished", Serve(Joined(cs), up),
           delivered' = delivered
    PROVE  Good
<1> DEFINE t == Joined(cs)
<1>1. ASSUME NEW d \in Clients
      PROVE  /\ t[d] \in ConnState
             /\ \/ t[d] = sv[d]
                \/ sv[d].pc = "finished" /\ t[d] = [sv[d] EXCEPT !.pc = "gone"]
                \/ /\ ~peer_gone(d) /\ link[d] # "none"
                   /\ \E end \in {"Cancelled", "Aborted"} : t[d] = Ended(sv[d], "gone", end)
  <2>1. sv[d] \in ConnState /\ Basic(d)
    BY DEF Inv0, TypeInv
  <2>2. t[d] = IF d \in InHandshake THEN Ended(sv[d], "gone", "Cancelled")
               ELSE IF d \in cs THEN [sv[d] EXCEPT !.pc = "gone"] ELSE sv[d]
    BY DEF Joined
  <2>3. Ended(sv[d], "gone", "Cancelled") \in ConnState /\ [sv[d] EXCEPT !.pc = "gone"] \in ConnState
    BY <2>1, EndedFacts, PcFacts
  <2>4. d \in InHandshake => ~peer_gone(d) /\ link[d] # "none"
    BY <2>1 DEF InHandshake, peer_gone, Basic
  <2> HIDE DEF t
  <2> QED BY <2>1, <2>2, <2>3, <2>4
<1>2. t \in [Clients -> ConnState]
  BY <1>1 DEF Joined
<1>3. Serve(t, up)
  OBVIOUS
<1> HIDE DEF t
<1> QED BY <1>1, <1>2, <1>3, ServeAll

\* The listener returns and aborts what is left.
LEMMA ReturnGood ==
    ASSUME Inv0, Return
    PROVE  Good
<1> DEFINE t == [c \in Clients |-> IF c \in Live \/ Connected(c) THEN Ended(sv[c], "gone", "Aborted")
                                   ELSE sv[c]]
<1>1. ASSUME NEW d \in Clients
      PROVE  /\ t[d] \in ConnState
             /\ \/ t[d] = sv[d]
                \/ sv[d].pc = "finished" /\ t[d] = [sv[d] EXCEPT !.pc = "gone"]
                \/ /\ ~peer_gone(d) /\ link[d] # "none"
                   /\ \E end \in {"Cancelled", "Aborted"} : t[d] = Ended(sv[d], "gone", end)
  <2>1. sv[d] \in ConnState /\ Basic(d)
    BY DEF Inv0, TypeInv
  <2>2. Ended(sv[d], "gone", "Aborted") \in ConnState
    BY <2>1, EndedFacts
  <2>3. d \in Live \/ Connected(d) => ~peer_gone(d) /\ link[d] # "none"
    BY <2>1 DEF Live, Connected, peer_gone, Basic
  <2>4. t[d] = IF d \in Live \/ Connected(d) THEN Ended(sv[d], "gone", "Aborted") ELSE sv[d]
    OBVIOUS
  <2> HIDE DEF t
  <2> QED BY <2>1, <2>2, <2>3, <2>4
<1>2. t \in [Clients -> ConnState]
  BY <1>1
<1>3. Serve(t, up) /\ delivered' = delivered
  BY DEF Return
<1> HIDE DEF t
<1> QED BY <1>1, <1>2, <1>3, ServeAll

\* Every step breaks down into moves of the connections.
LEMMA NextGood ==
    ASSUME Inv0, [Next]_vars
    PROVE  Good
<1>1. ASSUME UNCHANGED vars PROVE Good
  <2>1. UNCHANGED <<cl, up, link, sent, sv, delivered>>
    BY <1>1 DEF vars, clientVars, serverVars
  <2>2. TypeInv'
    BY <2>1 DEF Inv0, TypeInv
  <2>3. \A d \in Clients : RestMove(d) /\ Tasks(d)'
    BY <2>1 DEF Inv0, RestMove, ClientRests, PcMoves, Tasks
  <2> QED BY <2>2, <2>3 DEF Good, Moves, ServerMoves
<1>2. ASSUME NEW c \in Clients, Reap(c) \/ Drain(c) PROVE Good
  <2>1. sv[c].pc = "finished" /\ Serve(Joined({c}), up) /\ delivered' = delivered
    BY <1>2 DEF Reap, Drain
  <2> QED BY <2>1, JoinedGood
<1>3. ASSUME StopAccepting PROVE Good
  <2>1. Serve(Joined({}), up) /\ delivered' = delivered
    BY <1>3 DEF StopAccepting
  <2> QED BY <2>1, JoinedGood
<1>4. ASSUME Signal PROVE Good
  <2>1. Serve(sv, up) /\ delivered' = delivered /\ sv \in [Clients -> ConnState]
    BY <1>4 DEF Signal, Inv0, TypeInv
  <2> QED BY <2>1, ServeAll
<1>5. ASSUME NEW c \in Clients, SessionStep(c) PROVE Good
  BY <1>5, StepGood, FillGood, EndsGood, NextEventGood DEF SessionStep
<1>6. ASSUME NEW c \in Clients, accept(c) \/ HandshakeStep(c) PROVE Good
  BY <1>6, StepGood, EndsGood, HandshakeGood DEF HandshakeStep
<1>7. ASSUME ListenerStep PROVE Good
  BY <1>2, <1>3, <1>6, <1>7, ReturnGood DEF ListenerStep
<1>8. ASSUME NEW c \in Clients, ClientStep(c) \/ ClientChoice(c), UNCHANGED serverVars PROVE Good
  BY <1>8, ClientGood
<1> QED BY <1>1, <1>4, <1>5, <1>7, <1>8 DEF Next

\* What Basic says is preserved by every move.
LEMMA BasicStep ==
    ASSUME TypeInv, TypeInv', NEW c \in Clients, Basic(c), Moves(c)
    PROVE  Basic(c)'
<1>0. sv[c] \in ConnState /\ sv'[c] \in ConnState /\ up[c] \in Seq(Piece)
      /\ cl[c] \in ClientState /\ cl'[c] \in ClientState
  BY DEF TypeInv
<1>1. CASE RestMove(c)
  BY <1>1 DEF RestMove, ClientRests, PcMoves, Basic, peer_gone
<1>2. CASE EndMove(c)
  BY <1>2 DEF EndMove, ClientRests, Closes, Basic, peer_gone
<1>3. CASE ReadMove(c)
  <2>1. up[c] # <<>>
    BY <1>0, <1>3 DEF ReadMove
  <2>2. link[c] \notin {"none", "lost"} /\ ~peer_gone(c) /\ sv'[c].pc \in {"session", "handshake", "spawned"}
    BY <1>3, <2>1 DEF ReadMove, Basic, peer_gone
  <2>3. sv'[c].pc = "handshake" => sv'[c].pending = <<>>
    BY <1>3 DEF ReadMove, Basic
  <2>4. ClientRests(c) /\ sv'[c].end = sv[c].end
    BY <1>3 DEF ReadMove
  <2> QED BY <2>2, <2>3, <2>4 DEF Basic, ClientRests, peer_gone
<1>4. CASE TakeMove(c)
  BY <1>4 DEF TakeMove, ClientRests, Closes, Basic, peer_gone
<1>5. CASE SkipMove(c)
  BY <1>5 DEF SkipMove, ClientRests, Basic, peer_gone
<1>6. CASE StartMove(c)
  BY <1>6 DEF StartMove, ServerRests, Basic, peer_gone
<1>7. CASE QuietMove(c)
  BY <1>7 DEF QuietMove, ServerRests, Basic, peer_gone
<1>8. CASE StopMove(c)
  BY <1>8 DEF StopMove, ServerRests, Basic, peer_gone
<1>9. CASE SendMove(c)
  <2>1. PICK env \in Envs :
         /\ up'[c] = IF peer_gone(c) THEN up[c] ELSE up[c] \o frame(env)
         /\ cl'[c].first = IF cl[c].first = <<>> THEN <<env>> ELSE cl[c].first
         /\ \/ cl'[c].pc \in {"reply", "script", "run"} /\ link'[c] = "open"
            \/ cl'[c].pc = "done" /\ link'[c] = "closed"
    BY <1>9 DEF SendMove
  <2>2. /\ ServerRests(c) /\ link[c] = "open" /\ cl[c].pc \notin {"idle", "done"}
        /\ cl'[c].err = cl[c].err
    BY <1>9 DEF SendMove
  <2>3. cl'[c].first # <<>>
    BY <1>0, <2>1
  <2> QED BY <2>1, <2>2, <2>3 DEF ServerRests, Basic, peer_gone
<1>10. CASE LoseMove(c)
  BY <1>10 DEF LoseMove, ServerRests, Basic, peer_gone
<1>11. CASE MidKillMove(c)
  BY <1>11 DEF MidKillMove, ServerRests, Basic, peer_gone
<1> QED BY <1>1, <1>2, <1>3, <1>4, <1>5, <1>6, <1>7, <1>8, <1>9, <1>10, <1>11
        DEF Moves, ServerMoves, ClientMoves

\* Inv0 holds at the start.
LEMMA InitInv0 == Init => Inv0
<1> SUFFICES ASSUME Init PROVE Inv0
  OBVIOUS
<1> USE DEF Init, ProducerInit
<1>1. Idle \in ClientState /\ NoConn \in ConnState
  BY DEF Idle, NoConn, ClientState, ConnState
<1>2. TypeInv
  BY <1>1 DEF TypeInv
<1>3. ASSUME NEW d \in Clients PROVE Basic(d)
  BY DEF Basic, Idle, NoConn, peer_gone
<1>4. ASSUME NEW d \in Clients PROVE Tasks(d)
  BY ProducerAssumption DEF Tasks, TaskOf, Planned, NumberedFrom3, Issued, Idle
<1> QED BY <1>2, <1>3, <1>4 DEF Inv0

\* Every step keeps Inv0 and is made of moves.
LEMMA NextInv0 ==
    ASSUME Inv0, [Next]_vars
    PROVE  Inv0' /\ \A d \in Clients : Moves(d)
BY NextGood, BasicStep DEF Good, Inv0

-----------------------------------------------------------------------------
\* The gauge.

\* One connection moves: the gauge follows the set of live sessions.
LEMMA GaugeStep ==
    ASSUME Inv0, NEW c \in Clients, NEW r, r \in ConnState, sv' = [sv EXCEPT ![c] = r], GaugeExact,
           \/ (r.pc \in LivePc <=> sv[c].pc \in LivePc) /\ active' = active
           \/ r.pc \in LivePc /\ sv[c].pc \notin LivePc /\ active' = active + 1
           \/ r.pc \notin LivePc /\ sv[c].pc \in LivePc /\ active' = active - 1
    PROVE  GaugeExact'
<1>1. IsFiniteSet(Live) /\ Cardinality(Live) \in Nat
  BY ProducerAssumption, FS_Subset, FS_CardinalityType DEF Live
<1>2. /\ sv'[c] = r /\ \A d \in Clients : d # c => sv'[d] = sv[d]
  BY DEF Inv0, TypeInv
<1>3. \A d \in Clients : d \in Live <=> sv[d].pc \in LivePc
  BY DEF Live, LivePc
<1>4. \A d \in Clients : d \in Live' <=> sv'[d].pc \in LivePc
  BY DEF Live, LivePc
<1>5. Live \subseteq Clients /\ Live' \subseteq Clients
  BY DEF Live
<1>6. CASE (r.pc \in LivePc <=> sv[c].pc \in LivePc) /\ active' = active
  <2>1. Live' = Live
    BY <1>2, <1>3, <1>4, <1>5, <1>6
  <2> QED BY <1>6, <2>1 DEF GaugeExact
<1>7. CASE r.pc \in LivePc /\ sv[c].pc \notin LivePc /\ active' = active + 1
  <2>1. Live' = Live \cup {c} /\ c \notin Live
    BY <1>2, <1>3, <1>4, <1>5, <1>7
  <2>2. Cardinality(Live \cup {c}) = Cardinality(Live) + 1
    BY <1>1, <2>1, FS_AddElement
  <2> QED BY <1>7, <2>1, <2>2 DEF GaugeExact
<1>8. CASE r.pc \notin LivePc /\ sv[c].pc \in LivePc /\ active' = active - 1
  <2>1. Live' = Live \ {c} /\ c \in Live
    BY <1>2, <1>3, <1>4, <1>5, <1>8
  <2>2. Cardinality(Live \ {c}) = Cardinality(Live) - 1
    BY <1>1, <2>1, FS_RemoveElement
  <2> QED BY <1>8, <2>1, <2>2 DEF GaugeExact
<1> QED BY <1>6, <1>7, <1>8

\* No session begins or ends.
LEMMA GaugeStays ==
    ASSUME GaugeExact, active' = active,
           \A d \in Clients : sv'[d].pc \in LivePc <=> sv[d].pc \in LivePc
    PROVE  GaugeExact'
<1>1. Live' = Live
  BY DEF Live, LivePc
<1> QED BY <1>1 DEF GaugeExact

\* A connection goes on without becoming or ceasing to be a session.
LEMMA GaugeGoes ==
    ASSUME Inv0, GaugeExact, NEW c \in Clients, NEW pc \in {"tls", "handshake"} \cup LivePc,
           Goes(c, pc), pc \in LivePc <=> sv[c].pc \in LivePc
    PROVE  GaugeExact'
<1> DEFINE r == [sv[c] EXCEPT !.pc = pc]
<1>1. sv[c] \in ConnState
  BY DEF Inv0, TypeInv
<1>2. r \in ConnState /\ r.pc = pc
  BY <1>1, PcFacts
<1>3. sv' = [sv EXCEPT ![c] = r] /\ active' = active
  BY DEF Goes, Serve
<1> HIDE DEF r
<1> QED BY <1>2, <1>3, GaugeStep

\* A session's guard decrements the gauge; a failed accept had none.
LEMMA GaugeEnded ==
    ASSUME Inv0, GaugeExact, NEW c \in Clients, NEW end \in {"Clean", "Decode", "Handshake", "Io", "Storage"},
           \/ Finish(c, end, up) /\ sv[c].pc \in LivePc
           \/ AcceptErr(c, end, up) /\ sv[c].pc \notin LivePc
    PROVE  GaugeExact'
<1>1. sv[c] \in ConnState
  BY DEF Inv0, TypeInv
<1>2. ASSUME NEW pc \in {"finished", "gone"}, sv' = [sv EXCEPT ![c] = Ended(sv[c], pc, end)],
             \/ sv[c].pc \in LivePc /\ active' = active - 1
             \/ sv[c].pc \notin LivePc /\ active' = active
      PROVE  GaugeExact'
  <2> DEFINE r == Ended(sv[c], pc, end)
  <2>1. r \in ConnState /\ r.pc = pc
    BY <1>1, EndedFacts
  <2>2. sv' = [sv EXCEPT ![c] = r] /\ r.pc \notin LivePc
    BY <1>2, <2>1 DEF LivePc
  <2> HIDE DEF r
  <2> QED BY <1>2, <2>1, <2>2, GaugeStep
<1>3. CASE Finish(c, end, up) /\ sv[c].pc \in LivePc
  BY <1>2, <1>3 DEF Finish, Serve
<1>4. CASE AcceptErr(c, end, up) /\ sv[c].pc \notin LivePc
  BY <1>2, <1>4 DEF AcceptErr, Serve
<1> QED BY <1>3, <1>4

\* The handshake counts the session it admits.
LEMMA GaugeHandshake ==
    ASSUME Inv0, GaugeExact, NEW c \in Clients, handshake(c)
    PROVE  GaugeExact'
<1>0. sv[c].pc = "handshake" /\ sv[c].pc \notin LivePc
  BY DEF handshake, LivePc
<1>1. PICK chunk \in Chunks(c) :
         \/ AcceptErr(c, "Decode", up)
         \/ AcceptErr(c, "Handshake", up)
         \/ Serve([sv EXCEPT ![c].part = has_pending(chunk)], Unread(c, chunk)) /\ active' = active
         \/ Envelopes(chunk) # <<>> /\ Admit(c, chunk)
  BY DEF handshake, Reply
<1> DEFINE p == has_pending(chunk)
           tl == Tail(Envelopes(chunk))
<1>2. sv[c] \in ConnState /\ p \in BOOLEAN /\ Envelopes(chunk) \in Seq(Envs)
  BY ChunkFacts
<1>3. CASE AcceptErr(c, "Decode", up) \/ AcceptErr(c, "Handshake", up)
  BY <1>0, <1>3, GaugeEnded
<1>4. CASE Serve([sv EXCEPT ![c].part = p], Unread(c, chunk)) /\ active' = active
  <2> DEFINE r == [sv[c] EXCEPT !.part = p]
  <2>1. sv' = [sv EXCEPT ![c] = r]
    BY <1>4 DEF Serve
  <2> HIDE DEF p
  <2>2. r \in ConnState /\ r.pc = sv[c].pc
    BY <1>2 DEF ConnState
  <2> HIDE DEF r
  <2> QED BY <1>4, <2>1, <2>2, GaugeStep
<1>5. CASE Envelopes(chunk) # <<>> /\ Admit(c, chunk)
  <2> DEFINE r == [sv[c] EXCEPT !.pc = "spawned", !.part = p, !.pending = tl]
  <2>1. sv' = [sv EXCEPT ![c] = r] /\ active' = active + 1
    BY <1>5 DEF Admit, Serve
  <2>2. tl \in Seq(Envs)
    BY <1>2, <1>5
  <2> HIDE DEF p, tl
  <2>3. r \in ConnState /\ r.pc = "spawned" /\ r.pc \in LivePc
    BY <1>2, <2>2 DEF ConnState, LivePc
  <2> HIDE DEF r
  <2> QED BY <1>0, <2>1, <2>3, GaugeStep
<1> QED BY <1>1, <1>3, <1>4, <1>5

\* A decode error ends the session, another read leaves it.
LEMMA GaugeFill ==
    ASSUME Inv0, GaugeExact, NEW c \in Clients, fill_pending(c)
    PROVE  GaugeExact'
<1>0. sv[c].pc = "session" /\ sv[c].pc \in LivePc
  BY DEF fill_pending, LivePc
<1>1. PICK chunk \in Chunks(c) :
         \/ Finish(c, "Decode", up)
         \/ /\ Serve([sv EXCEPT ![c].pending = Envelopes(chunk), ![c].part = has_pending(chunk)],
                     Unread(c, chunk))
            /\ active' = active
  BY DEF fill_pending
<1> DEFINE E == Envelopes(chunk)
           p == has_pending(chunk)
           r == [sv[c] EXCEPT !.pending = E, !.part = p]
<1>2. sv[c] \in ConnState /\ p \in BOOLEAN /\ E \in Seq(Envs)
  BY ChunkFacts
<1>3. CASE Finish(c, "Decode", up)
  BY <1>0, <1>3, GaugeEnded
<1>4. CASE Serve([sv EXCEPT ![c].pending = E, ![c].part = p], Unread(c, chunk)) /\ active' = active
  <2>1. sv' = [sv EXCEPT ![c].pending = E, ![c].part = p]
    BY <1>4 DEF Serve
  <2>2. [sv EXCEPT ![c].pending = E, ![c].part = p] = [sv EXCEPT ![c] = r]
    BY DEF Inv0, TypeInv
  <2> HIDE DEF E, p
  <2>3. r \in ConnState /\ r.pc = sv[c].pc
    BY <1>2 DEF ConnState
  <2> HIDE DEF r
  <2> QED BY <1>4, <2>1, <2>2, <2>3, GaugeStep
<1> QED BY <1>1, <1>3, <1>4

\* The end of a session in next_event decrements the gauge once.
LEMMA GaugeNextEvent ==
    ASSUME Inv0, GaugeExact, NEW c \in Clients, next_event(c)
    PROVE  GaugeExact'
<1> DEFINE tl == Tail(sv[c].pending)
<1>0. sv[c].pc = "session" /\ sv[c].pc \in LivePc /\ sv[c].pending # <<>>
  BY DEF next_event, LivePc
<1>1. sv[c] \in ConnState /\ tl \in Seq(Envs)
  BY <1>0 DEF Inv0, TypeInv, ConnState
<1>2. \/ Finish(c, "Clean", up) \/ Finish(c, "Decode", up) \/ Finish(c, "Storage", up)
      \/ Serve([sv EXCEPT ![c].pending = tl], up) /\ active' = active
      \/ /\ Serve([sv EXCEPT ![c] = [sv[c] EXCEPT !.pc = "meter_read", !.pending = tl]], up)
         /\ active' = active
  BY DEF next_event, append_event
<1>3. CASE Finish(c, "Clean", up) \/ Finish(c, "Decode", up) \/ Finish(c, "Storage", up)
  BY <1>0, <1>3, GaugeEnded
<1>4. CASE Serve([sv EXCEPT ![c].pending = tl], up) /\ active' = active
  <2> DEFINE r == [sv[c] EXCEPT !.pending = tl]
  <2>1. sv' = [sv EXCEPT ![c] = r]
    BY <1>4 DEF Serve
  <2> HIDE DEF tl
  <2>2. r \in ConnState /\ r.pc = sv[c].pc
    BY <1>1 DEF ConnState
  <2> HIDE DEF r
  <2> QED BY <1>4, <2>1, <2>2, GaugeStep
<1>5. CASE /\ Serve([sv EXCEPT ![c] = [sv[c] EXCEPT !.pc = "meter_read", !.pending = tl]], up)
           /\ active' = active
  <2> DEFINE r == [sv[c] EXCEPT !.pc = "meter_read", !.pending = tl]
  <2>1. sv' = [sv EXCEPT ![c] = r]
    BY <1>5 DEF Serve
  <2> HIDE DEF tl
  <2>2. r \in ConnState /\ r.pc = "meter_read" /\ r.pc \in LivePc
    BY <1>1 DEF ConnState, LivePc
  <2> HIDE DEF r
  <2> QED BY <1>0, <1>5, <2>1, <2>2, GaugeStep
<1> QED BY <1>2, <1>3, <1>4, <1>5

\* Every step keeps the gauge exact.
LEMMA GaugeNext ==
    ASSUME Inv0, GaugeExact, [Next]_vars
    PROVE  GaugeExact'
<1>0. ASSUME NEW d \in Clients PROVE sv[d] \in ConnState
  BY DEF Inv0, TypeInv
<1>1. ASSUME sv' = sv, active' = active PROVE GaugeExact'
  BY <1>1, GaugeStays
<1>2. ASSUME NEW cs, \A d \in cs : sv[d].pc = "finished", Serve(Joined(cs), up), active' = active
      PROVE  GaugeExact'
  <2>1. ASSUME NEW d \in Clients PROVE sv'[d].pc \in LivePc <=> sv[d].pc \in LivePc
    <3>1. sv'[d] = IF d \in InHandshake THEN Ended(sv[d], "gone", "Cancelled")
                   ELSE IF d \in cs THEN [sv[d] EXCEPT !.pc = "gone"] ELSE sv[d]
      BY <1>2 DEF Serve, Joined
    <3>2. Ended(sv[d], "gone", "Cancelled").pc = "gone" /\ [sv[d] EXCEPT !.pc = "gone"].pc = "gone"
      BY <1>0, EndedFacts, PcFacts
    <3> QED BY <1>2, <3>1, <3>2 DEF InHandshake, LivePc
  <2> QED BY <1>2, <2>1, GaugeStays
<1>3. CASE Return
  <2>1. sv' = [c \in Clients |-> IF c \in Live \/ Connected(c) THEN Ended(sv[c], "gone", "Aborted")
                                 ELSE sv[c]]
        /\ active' = active - Cardinality(Live)
    BY <1>3 DEF Return, Serve, Guarded
  <2>2. ASSUME NEW d \in Clients PROVE d \notin Live'
    <3>1. Ended(sv[d], "gone", "Aborted").pc = "gone"
      BY <1>0, EndedFacts
    <3>2. sv'[d] = IF d \in Live \/ Connected(d) THEN Ended(sv[d], "gone", "Aborted") ELSE sv[d]
      BY <2>1
    <3>3. d \in Live <=> sv[d].pc \in LivePc
      BY DEF Live, LivePc
    <3>4. d \in Live' <=> sv'[d].pc \in LivePc
      BY DEF Live, LivePc
    <3>5. "gone" \notin LivePc
      BY DEF LivePc
    <3> QED BY <3>1, <3>2, <3>3, <3>4, <3>5
  <2>3. Live' = {}
    BY <2>2 DEF Live
  <2>4. Cardinality(Live) \in Nat
    BY ProducerAssumption, FS_Subset, FS_CardinalityType DEF Live
  <2> QED BY <2>1, <2>3, <2>4, FS_EmptySet DEF GaugeExact
<1>4. ASSUME NEW c \in Clients, SessionStep(c) PROVE GaugeExact'
  <2>1. CASE SessionEnds(c)
    <3>1. Eof(sv[c].part) \in {"Clean", "Decode"}
      BY DEF Eof, UnixEof, TcpEof
    <3>2. sv[c].pc \in LivePc
      BY <2>1 DEF SessionEnds, LivePc
    <3> QED BY <2>1, <3>1, <3>2, GaugeEnded DEF SessionEnds
  <2>2. ASSUME Poll(c) \/ incr(c) \/ IncrLocked(c) PROVE GaugeExact'
    <3>1. sv[c].pc \in LivePc
      BY <2>2 DEF Poll, incr, IncrLocked, LivePc
    <3>2. "session" \in LivePc /\ "meter_write" \in LivePc
      BY DEF LivePc
    <3>3. Goes(c, "session") \/ Goes(c, "meter_write")
      BY <2>2 DEF Poll, incr, IncrLocked
    <3> QED BY <3>1, <3>2, <3>3, GaugeGoes
  <2> QED BY <1>4, <2>1, <2>2, GaugeFill, GaugeNextEvent DEF SessionStep
<1>5. ASSUME NEW c \in Clients, accept(c) \/ HandshakeStep(c) PROVE GaugeExact'
  <2>0. ASSUME NEW pc \in {"tls", "handshake"}, Goes(c, pc), sv[c].pc \in {"none", "tls"}
        PROVE  GaugeExact'
    <3>1. pc \notin LivePc /\ sv[c].pc \notin LivePc
      BY <2>0 DEF LivePc
    <3> QED BY <2>0, <3>1, GaugeGoes
  <2>1. CASE accept(c)
    BY <2>0, <2>1 DEF accept, Connected
  <2>2. ASSUME NEW end \in {"Handshake", "Decode", "Io"}, AcceptErr(c, end, up),
               sv[c].pc \in {"tls", "handshake"}
        PROVE  GaugeExact'
    <3>1. end \in {"Clean", "Decode", "Handshake", "Io", "Storage"} /\ sv[c].pc \notin LivePc
      BY <2>2 DEF LivePc
    <3> QED BY <2>2, <3>1, GaugeEnded
  <2>3. CASE TlsAccept(c)
    BY <2>0, <2>2, <2>3 DEF TlsAccept
  <2>4. CASE Timeout(c)
    BY <2>2, <2>4 DEF Timeout, InHandshake
  <2>5. CASE HandshakeEnds(c)
    BY <2>2, <2>5 DEF HandshakeEnds
  <2> QED BY <1>5, <2>1, <2>3, <2>4, <2>5, GaugeHandshake DEF HandshakeStep
<1>6. CASE UNCHANGED vars
  BY <1>1, <1>6 DEF vars, serverVars
<1>7. CASE \E c \in Clients : (ClientStep(c) \/ ClientChoice(c)) /\ UNCHANGED serverVars
  BY <1>1, <1>7 DEF serverVars
<1>8. CASE Signal
  BY <1>1, <1>8 DEF Signal, Serve
<1>9. CASE StopAccepting
  BY <1>2, <1>9 DEF StopAccepting
<1>10. ASSUME NEW c \in Clients, Reap(c) \/ Drain(c) PROVE GaugeExact'
  <2>1. sv[c].pc = "finished" /\ Serve(Joined({c}), up) /\ active' = active
    BY <1>10 DEF Reap, Drain
  <2> QED BY <1>2, <2>1
<1>11. CASE ListenerStep
  BY <1>3, <1>5, <1>9, <1>10, <1>11 DEF ListenerStep
<1> QED BY <1>4, <1>6, <1>7, <1>8, <1>11 DEF Next

(***************************************************************************)
(* ingest_sessions_active is the number of session tasks in every state:   *)
(* however many connections there are, however their sessions end, and for *)
(* tasks aborted before their first poll.                                  *)
(***************************************************************************)
THEOREM GaugeExactAlways == Spec => []GaugeExact
<1>1. Init => GaugeExact
  <2> SUFFICES ASSUME Init PROVE GaugeExact
    OBVIOUS
  <2>1. Live = {}
    BY DEF Init, Live, NoConn
  <2> QED BY <2>1, FS_EmptySet DEF Init, GaugeExact
<1>2. Inv0 /\ GaugeExact /\ [Next]_vars => Inv0' /\ GaugeExact'
  BY NextInv0, GaugeNext
<1> QED BY <1>1, <1>2, InitInv0, PTL DEF Spec

\* Inv0 is an invariant of the listener.
LEMMA Invariance0 == Spec => []Inv0
<1>1. Inv0 /\ [Next]_vars => Inv0'
  BY NextInv0
<1> QED BY <1>1, InitInv0, PTL DEF Spec

(***************************************************************************)
(* The detections of a run of the simulated adapter are numbered 0, 1, ... *)
(* without a gap, for every Count and however often the runner's select    *)
(* drops next_event in its sleep.                                          *)
(***************************************************************************)
THEOREM NumbersContiguousAlways == Spec => []NumbersContiguous
<1>1. ASSUME Inv0 PROVE NumbersContiguous
  <2> SUFFICES ASSUME NEW c \in Sims, NEW i \in DOMAIN sent[c], IsDetection(sent[c][i])
               PROVE  sent[c][i].seq = Cardinality({j \in 1..(i - 1) : IsDetection(sent[c][j])})
    BY DEF NumbersContiguous
  <2>1. sent[c] \in Seq(Payloads) /\ NumberedFrom3(sent[c])
    BY <1>1, Numbering DEF Clients
  <2>2. i \in 1..Len(sent[c]) /\ Len(sent[c]) \in Nat
    BY <2>1
  <2>3. i > 2 /\ sent[c][i].seq = i - 3
    BY <2>1, <2>2 DEF NumberedFrom3, IsDetection
  <2>4. \A j \in 1..(i - 1) : IsDetection(sent[c][j]) <=> j \in 3..(i - 1)
    BY <2>1, <2>2 DEF NumberedFrom3, IsDetection
  <2>5. {j \in 1..(i - 1) : IsDetection(sent[c][j])} = 3..(i - 1)
    BY <2>2, <2>3, <2>4
  <2>6. Cardinality(3..(i - 1)) = i - 3
    BY <2>2, <2>3, FS_Interval
  <2> QED BY <2>3, <2>5, <2>6
<1> QED BY <1>1, Invariance0, PTL

-----------------------------------------------------------------------------
\* The framing of what is on its way, and who is admitted.

\* Odd and even numbers follow each other.
LEMMA Parity ==
    ASSUME NEW a \in Nat, a % 2 = 0
    PROVE  (a + 1) % 2 = 1 /\ (a + 2) % 2 = 0 /\ (a >= 1 => (a - 1) % 2 = 1)
OBVIOUS

\* What is left of a sequence behind its first n elements.
LEMMA Behind ==
    ASSUME NEW S, NEW q \in Seq(S), NEW n \in 1..Len(q), NEW t, t = SubSeq(q, n + 1, Len(q))
    PROVE  /\ t \in Seq(S) /\ Len(t) = Len(q) - n /\ Len(q) - n \in Nat
           /\ \A j \in 1..(Len(q) - n) : t[j] = q[n + j]
<1>1. n \in Nat /\ Len(q) \in Nat /\ n <= Len(q) /\ n >= 1
  OBVIOUS
<1>2. Len(t) = Len(q) - n
  BY <1>1
<1>3. ASSUME NEW j \in 1..(Len(q) - n) PROVE t[j] = q[n + j]
  BY <1>1
<1> QED BY <1>1, <1>2, <1>3

\* Every move keeps lengths and payloads alternating.
LEMMA FramedStep ==
    ASSUME TypeInv, TypeInv', NEW c \in Clients, Basic(c), Framed(c), Moves(c)
    PROVE  Framed(c)'
<1>0. sv[c] \in ConnState /\ sv'[c] \in ConnState /\ up[c] \in Seq(Piece) /\ up'[c] \in Seq(Piece)
      /\ begun(c) \in {0, 1} /\ begun(c)' \in {0, 1}
  BY DEF TypeInv, begun
<1>1. ASSUME up'[c] = <<>>, peer_gone(c)' \/ link'[c] = "lost" PROVE Framed(c)'
  BY <1>1 DEF Framed
<1>2. ASSUME up'[c] = up[c], sv'[c].part = sv[c].part, link'[c] = "lost" => link[c] = "lost",
             peer_gone(c)' <=> peer_gone(c), link[c] = "lost" => link'[c] = "lost",
             cl'[c].err = "KilledMidFrame" <=> cl[c].err = "KilledMidFrame"
      PROVE  Framed(c)'
  <2>1. begun(c)' = begun(c)
    BY <1>2 DEF begun
  <2> QED BY <1>2, <2>1 DEF Framed
<1>3. CASE RestMove(c)
  BY <1>2, <1>3 DEF RestMove, ClientRests, PcMoves, peer_gone
<1>4. CASE EndMove(c)
  BY <1>1, <1>4 DEF EndMove, Closes, peer_gone
<1>5. CASE ReadMove(c)
  <2>1. PICK n \in 1..Len(up[c]) : /\ up'[c] = SubSeq(up[c], n + 1, Len(up[c]))
                                   /\ sv'[c].part = up[c][n].hdr
    BY <1>5 DEF ReadMove
  <2>2. n \in Nat /\ Len(up[c]) \in Nat /\ n <= Len(up[c]) /\ n >= 1
    BY <1>0
  <2>3. Len(up'[c]) = Len(up[c]) - n /\ \A j \in 1..(Len(up[c]) - n) : up'[c][j] = up[c][n + j]
    BY <1>0, <2>1, Behind
  <2>4. begun(c)' = (n + begun(c)) % 2
    BY <1>0, <2>1, <2>2 DEF Framed, begun
  <2>5. \A j \in 1..Len(up'[c]) : up'[c][j].hdr <=> (j + begun(c)') % 2 = 1
    <3>1. \A j \in 1..(Len(up[c]) - n) : up[c][n + j].hdr <=> (n + j + begun(c)) % 2 = 1
      BY <2>2 DEF Framed
    <3>2. \A j \in 1..(Len(up[c]) - n) : (n + j + begun(c)) % 2 = (j + begun(c)') % 2
      BY <1>0, <2>2, <2>4
    <3> QED BY <2>2, <2>3, <3>1, <3>2
  <2>6. (Len(up'[c]) + begun(c)') % 2 = (Len(up[c]) + begun(c)) % 2
    BY <1>0, <2>2, <2>3, <2>4
  <2>7. ~peer_gone(c) /\ link'[c] = link[c] /\ cl'[c] = cl[c]
    BY <1>5 DEF ReadMove, ClientRests, peer_gone
  <2> QED BY <2>5, <2>6, <2>7 DEF Framed
<1>6. CASE TakeMove(c)
  BY <1>1, <1>2, <1>6 DEF TakeMove, ClientRests, Closes, peer_gone
<1>7. CASE SkipMove(c)
  BY <1>2, <1>7 DEF SkipMove, ClientRests, peer_gone
<1>8. CASE StartMove(c)
  <2>1. up'[c] = <<>> /\ sv'[c].part = sv[c].part /\ ~sv[c].part /\ cl'[c].err = "none"
    BY <1>8 DEF StartMove, ServerRests, Basic
  <2> QED BY <2>1 DEF Framed, begun
<1>9. CASE QuietMove(c)
  BY <1>2, <1>9 DEF QuietMove, ServerRests, peer_gone
<1>10. CASE StopMove(c)
  <2>1. cl[c].err = "none"
    BY <1>10 DEF StopMove, Basic
  <2> QED BY <1>2, <1>10, <2>1 DEF StopMove, ServerRests, peer_gone
<1>11. CASE SendMove(c)
  <2>1. PICK env \in Envs : up'[c] = IF peer_gone(c) THEN up[c] ELSE up[c] \o frame(env)
    BY <1>11 DEF SendMove
  <2>2. /\ ServerRests(c) /\ link[c] = "open" /\ cl'[c].err = cl[c].err /\ cl[c].err = "none"
        /\ link'[c] # "lost"
    BY <1>11 DEF SendMove, Basic
  <2>3. CASE peer_gone(c)
    BY <1>2, <2>1, <2>2, <2>3 DEF ServerRests, peer_gone
  <2>4. CASE ~peer_gone(c)
    <3>1. up'[c] = up[c] \o <<[hdr |-> TRUE, env |-> env], [hdr |-> FALSE, env |-> env]>>
      BY <2>1, <2>4 DEF frame
    <3>2. /\ Len(up'[c]) = Len(up[c]) + 2 /\ Len(up[c]) \in Nat
          /\ \A j \in 1..Len(up[c]) : up'[c][j] = up[c][j]
          /\ up'[c][Len(up[c]) + 1].hdr /\ ~up'[c][Len(up[c]) + 2].hdr
      BY <1>0, <3>1
    <3>3. begun(c)' = begun(c)
      BY <2>2 DEF ServerRests, begun
    <3>4. (Len(up[c]) + begun(c)) % 2 = 0
      BY <2>2, <2>4 DEF Framed
    <3>5. \A j \in 1..Len(up'[c]) : up'[c][j].hdr <=> (j + begun(c)) % 2 = 1
      <4>1. ASSUME NEW j \in 1..Len(up[c]) PROVE up'[c][j].hdr <=> (j + begun(c)) % 2 = 1
        BY <3>2 DEF Framed
      <4>2. (Len(up[c]) + 1 + begun(c)) % 2 = 1 /\ (Len(up[c]) + 2 + begun(c)) % 2 = 0
        <5>1. PICK a \in Nat : a = Len(up[c]) + begun(c)
          BY <1>0
        <5>2. (a + 1) % 2 = 1 /\ (a + 2) % 2 = 0
          BY <3>4, <5>1, Parity
        <5>3. Len(up[c]) + 1 + begun(c) = a + 1 /\ Len(up[c]) + 2 + begun(c) = a + 2
          BY <1>0, <3>2, <5>1
        <5> QED BY <5>2, <5>3
      <4>3. \A j \in 1..Len(up'[c]) : j \in 1..Len(up[c]) \/ j = Len(up[c]) + 1 \/ j = Len(up[c]) + 2
        BY <3>2
      <4> QED BY <3>2, <4>1, <4>2, <4>3
    <3>6. (Len(up'[c]) + begun(c)) % 2 = 0
      BY <1>0, <3>2, <3>4
    <3> QED BY <2>2, <3>3, <3>5, <3>6 DEF Framed
  <2> QED BY <2>3, <2>4
<1>12. CASE LoseMove(c)
  BY <1>1, <1>12 DEF LoseMove
<1>13. CASE MidKillMove(c)
  <2>1. /\ up'[c] = SubSeq(up[c], 1, Len(up[c]) - 1) /\ up[c] # <<>> /\ ServerRests(c)
        /\ cl'[c].err = "KilledMidFrame" /\ cl[c].err = "none" /\ link[c] = "open"
        /\ ~peer_gone(c)
    BY <1>13 DEF MidKillMove, Basic
  <2>2. /\ Len(up[c]) \in Nat /\ Len(up[c]) >= 1 /\ Len(up'[c]) = Len(up[c]) - 1
        /\ \A j \in 1..(Len(up[c]) - 1) : up'[c][j] = up[c][j]
    BY <1>0, <2>1
  <2>3. begun(c)' = begun(c)
    BY <2>1 DEF ServerRests, begun
  <2>4. \A j \in 1..Len(up'[c]) : up'[c][j].hdr <=> (j + begun(c)) % 2 = 1
    BY <2>2 DEF Framed
  <2>5. (Len(up'[c]) + begun(c)) % 2 = 1
    <3>1. (Len(up[c]) + begun(c)) % 2 = 0
      BY <2>1 DEF Framed
    <3>2. PICK a \in Nat : a = Len(up[c]) + begun(c)
      BY <1>0
    <3>3. a >= 1 /\ Len(up'[c]) + begun(c) = a - 1
      BY <1>0, <2>2, <3>2
    <3>4. (a - 1) % 2 = 1
      BY <3>1, <3>2, <3>3, Parity
    <3> QED BY <3>3, <3>4
  <2> QED BY <2>1, <2>3, <2>4, <2>5 DEF Framed
<1> QED BY <1>3, <1>4, <1>5, <1>6, <1>7, <1>8, <1>9, <1>10, <1>11, <1>12, <1>13
        DEF Moves, ServerMoves, ClientMoves

\* What one read of a framed stream completes.
LEMMA ReadFacts ==
    ASSUME TypeInv, NEW c \in Clients, Framed(c), NEW n \in 1..Len(up[c]),
           NEW E, E = Envelopes(SubSeq(up[c], 1, n))
    PROVE  /\ E \in Seq(Envs) /\ begun(c) \in {0, 1}
           /\ 2 * Len(E) = n + begun(c) \/ 2 * Len(E) = n + begun(c) - 1
           /\ \A i \in 1..Len(E) : /\ 2 * i - begun(c) \in 1..n
                                   /\ E[i] = up[c][2 * i - begun(c)].env
                                   /\ ~up[c][2 * i - begun(c)].hdr
<1>0. up[c] \in Seq(Piece) /\ begun(c) \in {0, 1} /\ n \in Nat /\ Len(up[c]) \in Nat
  BY DEF TypeInv, begun
<1>1. up[c][1].hdr <=> (1 + begun(c)) % 2 = 1
  BY <1>0 DEF Framed
<1>2. PICK o \in {0, 1} : o = begun(c)
  BY <1>0
<1>3. (up[c][1].hdr => o = 0) /\ (~up[c][1].hdr => o = 1)
  BY <1>1, <1>2
<1>4. PICK L \in Nat : L = (n + o) \div 2
  BY <1>0
<1>5. /\ E \in Seq(Envs) /\ Len(E) = L /\ (2 * L = n + o \/ 2 * L = n + o - 1)
      /\ \A i \in 1..L : 2 * i - o \in 1..n /\ E[i] = up[c][2 * i - o].env
  BY <1>0, <1>3, <1>4, EnvelopesFacts
<1>6. ASSUME NEW i \in 1..L PROVE ~up[c][2 * i - o].hdr
  <2>1. 2 * i - o \in 1..Len(up[c])
    BY <1>0, <1>5
  <2>2. up[c][2 * i - o].hdr <=> (2 * i - o + begun(c)) % 2 = 1
    BY <2>1 DEF Framed
  <2>3. 2 * i - o + begun(c) = 2 * i
    BY <1>2, <1>4
  <2>4. (2 * i) % 2 = 0
    BY <1>4
  <2> QED BY <2>2, <2>3, <2>4
<1> QED BY <1>2, <1>5, <1>6

\* Every move keeps the first envelope of a connection its judge.
LEMMA AdmittedStep ==
    ASSUME TypeInv, TypeInv', NEW c \in Clients, Basic(c), Framed(c), Admitted(c), Moves(c)
    PROVE  Admitted(c)'
<1>0. /\ sv[c] \in ConnState /\ sv'[c] \in ConnState /\ up[c] \in Seq(Piece) /\ up'[c] \in Seq(Piece)
      /\ begun(c) \in {0, 1} /\ begun(c)' \in {0, 1} /\ delivered[c] \in Seq(Payloads)
      /\ delivered'[c] \in Seq(Payloads) /\ Len(up[c]) \in Nat
  BY DEF TypeInv, begun
<1> DEFINE Early == {"none", "tls", "handshake"}
\* The same stream, on the way to the same server.
<1>1. ASSUME cl'[c].first = cl[c].first, up'[c] = up[c], sv'[c].part = sv[c].part,
             delivered'[c] = delivered[c], link'[c] = "open" => link[c] = "open",
             sv'[c].pc \in Early => sv[c].pc \in Early, sv'[c].pc \in LivePc => sv[c].pc \in LivePc
      PROVE  Admitted(c)'
  <2>1. begun(c)' = begun(c) /\ (AcceptedFirst(c)' <=> AcceptedFirst(c))
    BY <1>1 DEF begun, AcceptedFirst
  <2> QED BY <1>1, <2>1 DEF Admitted
\* The connection has ended.
<1>2. ASSUME cl'[c].first = cl[c].first, Closes(c),
             delivered'[c] = delivered[c]
      PROVE  Admitted(c)'
  <2>1. sv'[c].pc \notin Early /\ sv'[c].pc \notin LivePc /\ up'[c] = <<>> /\ ~sv'[c].part
    BY <1>2 DEF Closes, LivePc
  <2>2. AcceptedFirst(c)' <=> AcceptedFirst(c)
    BY <1>2 DEF AcceptedFirst
  <2> QED BY <1>2, <2>1, <2>2 DEF Admitted
<1>3. CASE RestMove(c)
  <2>1. /\ sv'[c].pc \in Early => sv[c].pc \in Early
        /\ sv'[c].pc \in LivePc => sv[c].pc \in LivePc
    BY <1>3 DEF RestMove, PcMoves, LivePc
  <2> QED BY <1>1, <1>3, <2>1 DEF RestMove, ClientRests
<1>4. CASE EndMove(c)
  BY <1>2, <1>4 DEF EndMove, ClientRests
<1>5. CASE ReadMove(c)
  <2>0. /\ ClientRests(c) /\ delivered'[c] = delivered[c]
    BY <1>5 DEF ReadMove
  <2>1. PICK n \in 1..Len(up[c]) :
         /\ up'[c] = SubSeq(up[c], n + 1, Len(up[c]))
         /\ sv'[c].part = up[c][n].hdr
         /\ LET envs == Envelopes(SubSeq(up[c], 1, n))
            IN \/ sv[c].pc = "session" /\ sv'[c].pc = "session"
               \/ sv[c].pc = "handshake" /\ sv'[c].pc = "handshake" /\ envs = <<>>
               \/ /\ sv[c].pc = "handshake" /\ sv'[c].pc = "spawned"
                  /\ envs # <<>> /\ handshake_inner(envs[1], allowed) = "Accepted"
    BY <1>5 DEF ReadMove
  <2> DEFINE E == Envelopes(SubSeq(up[c], 1, n))
  <2>2. /\ E \in Seq(Envs)
        /\ 2 * Len(E) = n + begun(c) \/ 2 * Len(E) = n + begun(c) - 1
        /\ \A i \in 1..Len(E) : 2 * i - begun(c) \in 1..n /\ E[i] = up[c][2 * i - begun(c)].env
    BY ReadFacts
  <2> HIDE DEF E
  <2>3. cl[c].first # <<>> /\ up[c] # <<>>
    BY <1>0 DEF Admitted
  <2>4. /\ Len(up'[c]) = Len(up[c]) - n /\ \A j \in 1..(Len(up[c]) - n) : up'[c][j] = up[c][n + j]
    BY <1>0, <2>1, Behind
  <2>5. AcceptedFirst(c)' <=> AcceptedFirst(c)
    BY <2>0 DEF AcceptedFirst, ClientRests
  <2>6. CASE sv[c].pc = "session" /\ sv'[c].pc = "session"
    BY <2>0, <2>3, <2>5, <2>6 DEF Admitted, ClientRests, LivePc
  <2>7. CASE sv[c].pc = "handshake" /\ sv'[c].pc = "handshake" /\ E = <<>>
    <3>1. Len(E) = 0
      BY <2>7
    <3>2. n = 1 /\ begun(c) = 0
      BY <1>0, <2>2, <3>1
    <3>3. begun(c)' = 1
      <4>1. up[c][1].hdr
        BY <1>0, <3>2 DEF Framed
      <4> QED BY <2>1, <3>2, <4>1 DEF begun
    <3>4. \A j \in 1..Len(up'[c]) : j + begun(c)' = 2 => up'[c][j].env = cl[c].first[1]
      <4>1. ASSUME 1 \in 1..Len(up'[c]) PROVE up'[c][1].env = cl[c].first[1]
        <5>1. 2 \in 1..Len(up[c]) /\ up'[c][1] = up[c][2]
          BY <1>0, <2>4, <3>2, <4>1
        <5> QED BY <2>7, <3>2, <5>1 DEF Admitted
      <4>2. ASSUME NEW j \in 1..Len(up'[c]), j + begun(c)' = 2 PROVE j = 1
        BY <3>3, <4>2
      <4> QED BY <4>1, <4>2
    <3>5. link[c] = "open" => Len(up'[c]) + begun(c)' >= 2
      <4>1. link[c] = "open" => Len(up[c]) >= 2
        BY <1>0, <2>3, <2>7, <3>2 DEF Admitted
      <4> QED BY <1>0, <2>4, <3>2, <3>3, <4>1
    <3> QED BY <2>0, <2>3, <2>5, <2>7, <3>4, <3>5 DEF Admitted, ClientRests, LivePc
  <2>8. CASE /\ sv[c].pc = "handshake" /\ sv'[c].pc = "spawned"
             /\ E # <<>> /\ handshake_inner(E[1], allowed) = "Accepted"
    <3>1. 1 \in 1..Len(E)
      BY <2>2, <2>8
    <3>2. 2 - begun(c) \in 1..n /\ E[1] = up[c][2 - begun(c)].env
      BY <1>0, <2>2, <3>1
    <3>3. 2 - begun(c) \in 1..Len(up[c]) /\ 2 - begun(c) + begun(c) = 2
      BY <1>0, <3>2
    <3>4. E[1] = cl[c].first[1]
      BY <2>8, <3>2, <3>3 DEF Admitted
    <3>5. AcceptedFirst(c)
      BY <2>3, <2>8, <3>4 DEF AcceptedFirst
    <3> QED BY <2>0, <2>3, <2>5, <2>8, <3>5 DEF Admitted, ClientRests
  <2> QED BY <2>1, <2>6, <2>7, <2>8 DEF E
<1>6. CASE TakeMove(c)
  <2> DEFINE env == Head(sv[c].pending)
  <2>1. /\ sv[c].pc = "session" /\ env \in Envs /\ env.type = "Event" /\ env.src = ProducerId[c]
        /\ delivered'[c] = Append(delivered[c], env.data) /\ ClientRests(c)
    BY <1>0, <1>6 DEF TakeMove, ConnState
  <2>2. env.data.src = ProducerId[c]
    BY <2>1, EventData
  <2> HIDE DEF env
  <2>3. \A i \in 1..Len(delivered'[c]) : delivered'[c][i].src = ProducerId[c]
    BY <1>0, <2>1, <2>2 DEF Admitted
  <2>4. AcceptedFirst(c)' /\ cl'[c].first # <<>>
    BY <2>1 DEF Admitted, LivePc, AcceptedFirst, ClientRests
  <2>5. sv'[c].pc \notin Early
    BY <1>6 DEF TakeMove, Closes
  <2> QED BY <2>3, <2>4, <2>5 DEF Admitted
<1>7. CASE SkipMove(c)
  BY <1>1, <1>7 DEF SkipMove, ClientRests
<1>8. CASE StartMove(c)
  <2>1. cl[c].first = <<>> /\ up[c] = <<>>
    BY <1>8 DEF StartMove, Basic
  <2>2. /\ cl'[c].first = cl[c].first /\ up'[c] = up[c] /\ ServerRests(c)
    BY <1>8 DEF StartMove
  <2>3. begun(c)' = begun(c) /\ (AcceptedFirst(c)' <=> AcceptedFirst(c))
    BY <2>2 DEF begun, AcceptedFirst, ServerRests
  <2> QED BY <2>1, <2>2, <2>3 DEF Admitted, ServerRests
<1>9. CASE QuietMove(c)
  BY <1>1, <1>9 DEF QuietMove, ServerRests
<1>10. CASE StopMove(c)
  BY <1>1, <1>10 DEF StopMove, ServerRests
<1>11. CASE SendMove(c)
  <2>1. PICK env \in Envs :
         /\ up'[c] = IF peer_gone(c) THEN up[c] ELSE up[c] \o frame(env)
         /\ cl'[c].first = IF cl[c].first = <<>> THEN <<env>> ELSE cl[c].first
    BY <1>11 DEF SendMove
  <2>2. ServerRests(c) /\ link[c] = "open"
    BY <1>11 DEF SendMove
  <2>3. begun(c)' = begun(c) /\ sv'[c] = sv[c] /\ delivered'[c] = delivered[c]
    BY <2>2 DEF begun, ServerRests
  <2>4. cl'[c].first # <<>>
    BY <2>1
  <2>5. AcceptedFirst(c) => AcceptedFirst(c)'
    BY <2>1, <2>4 DEF AcceptedFirst
  <2>6. ASSUME sv[c].pc \in Early
        PROVE  /\ \A j \in 1..Len(up'[c]) : j + begun(c) = 2 => up'[c][j].env = cl'[c].first[1]
               /\ Len(up'[c]) + begun(c) >= 2
    <3>1. ~peer_gone(c)
      BY <2>6 DEF peer_gone
    <3>2. up'[c] = up[c] \o <<[hdr |-> TRUE, env |-> env], [hdr |-> FALSE, env |-> env]>>
      BY <2>1, <3>1 DEF frame
    <3>3. /\ Len(up'[c]) = Len(up[c]) + 2
          /\ \A j \in 1..Len(up[c]) : up'[c][j] = up[c][j]
          /\ up'[c][Len(up[c]) + 1].env = env /\ up'[c][Len(up[c]) + 2].env = env
      BY <1>0, <3>2
    <3>4. CASE cl[c].first = <<>>
      <4>1. up[c] = <<>> /\ begun(c) = 0 /\ cl'[c].first[1] = env
        BY <2>1, <3>4 DEF Admitted, begun
      <4>2. Len(up[c]) = 0
        BY <4>1
      <4> QED BY <3>3, <4>1, <4>2
    <3>5. CASE cl[c].first # <<>>
      <4>1. /\ Len(up[c]) + begun(c) >= 2 /\ cl'[c].first = cl[c].first
            /\ \A j \in 1..Len(up[c]) : j + begun(c) = 2 => up[c][j].env = cl[c].first[1]
        BY <2>1, <2>2, <2>6, <3>5 DEF Admitted
      <4>2. \A j \in 1..Len(up'[c]) : j + begun(c) = 2 => j \in 1..Len(up[c])
        BY <1>0, <3>3, <4>1
      <4> QED BY <1>0, <3>3, <4>1, <4>2
    <3> QED BY <3>4, <3>5
  <2> QED BY <2>3, <2>4, <2>5, <2>6 DEF Admitted
<1>12. CASE LoseMove(c)
  <2>1. /\ cl'[c].first = cl[c].first /\ up'[c] = <<>> /\ link'[c] = "lost" /\ ServerRests(c)
    BY <1>12 DEF LoseMove
  <2>2. begun(c)' = begun(c) /\ (AcceptedFirst(c)' <=> AcceptedFirst(c))
    BY <2>1 DEF begun, AcceptedFirst, ServerRests
  <2> QED BY <2>1, <2>2 DEF Admitted, ServerRests
<1>13. CASE MidKillMove(c)
  <2>1. /\ up'[c] = SubSeq(up[c], 1, Len(up[c]) - 1) /\ up[c] # <<>> /\ ServerRests(c)
        /\ cl'[c].first = cl[c].first /\ link'[c] = "closed"
    BY <1>13 DEF MidKillMove
  <2>2. /\ Len(up[c]) >= 1 /\ Len(up'[c]) = Len(up[c]) - 1
        /\ \A j \in 1..(Len(up[c]) - 1) : up'[c][j] = up[c][j]
    BY <1>0, <2>1
  <2>3. begun(c)' = begun(c) /\ (AcceptedFirst(c)' <=> AcceptedFirst(c))
    BY <2>1 DEF begun, AcceptedFirst, ServerRests
  <2> QED BY <1>0, <2>1, <2>2, <2>3 DEF Admitted, ServerRests
<1> QED BY <1>3, <1>4, <1>5, <1>6, <1>7, <1>8, <1>9, <1>10, <1>11, <1>12, <1>13
        DEF Moves, ServerMoves, ClientMoves

\* What handshake_inner accepts.
LEMMA AcceptedFacts ==
    ASSUME NEW env, handshake_inner(env, allowed) = "Accepted"
    PROVE  /\ env.type = "Connect" /\ authorise(allowed, env.data.token)
           /\ PROTOCOL_VERSION \in env.data.min .. env.data.max
BY DEF handshake_inner

Inv1 == Inv0 /\ \A d \in Clients : Framed(d) /\ Admitted(d)

\* Inv1 holds at the start.
LEMMA InitInv1 == Init => Inv1
<1> SUFFICES ASSUME Init, NEW d \in Clients PROVE Framed(d) /\ Admitted(d)
  BY InitInv0 DEF Inv1
<1>1. up[d] = <<>> /\ delivered[d] = <<>> /\ sv[d] = NoConn /\ cl[d] = Idle
  BY DEF Init, ProducerInit
<1>2. sv[d].pc = "none" /\ ~sv[d].part /\ cl[d].first = <<>> /\ cl[d].err = "none" /\ begun(d) = 0
  BY <1>1 DEF NoConn, Idle, begun
<1>3. Len(up[d]) = 0 /\ Len(delivered[d]) = 0
  BY <1>1
<1> QED BY <1>1, <1>2, <1>3 DEF Framed, Admitted, LivePc

\* Every step keeps Inv1.
LEMMA NextInv1 ==
    ASSUME Inv1, [Next]_vars
    PROVE  Inv1'
<1>1. Inv0 /\ Inv0' /\ \A d \in Clients : Moves(d)
  BY NextInv0 DEF Inv1
<1>2. ASSUME NEW d \in Clients PROVE Framed(d)' /\ Admitted(d)'
  <2>1. TypeInv /\ TypeInv' /\ Basic(d) /\ Moves(d) /\ Framed(d) /\ Admitted(d)
    BY <1>1 DEF Inv0, Inv1
  <2> QED BY <2>1, FramedStep, AdmittedStep
<1> QED BY <1>1, <1>2 DEF Inv1

(***************************************************************************)
(* Only the events of a producer whose first envelope was a Connect with   *)
(* the node's version and an allowed token, and only events under its own  *)
(* name, are given to append_event, whatever scripted producers write and  *)
(* however reads cut their streams.                                        *)
(***************************************************************************)
THEOREM OnlyAdmittedAlways == Spec => []OnlyAdmitted
<1>1. ASSUME Inv1 PROVE OnlyAdmitted
  <2> SUFFICES ASSUME NEW c \in Clients, delivered[c] # <<>>
               PROVE  /\ cl[c].first[1].type = "Connect"
                      /\ authorise(allowed, cl[c].first[1].data.token)
                      /\ PROTOCOL_VERSION \in cl[c].first[1].data.min .. cl[c].first[1].data.max
                      /\ \A i \in DOMAIN delivered[c] : delivered[c][i].src = ProducerId[c]
    BY DEF OnlyAdmitted
  <2>1. Admitted(c) /\ delivered[c] \in Seq(Payloads)
    BY <1>1 DEF Inv1, Inv0, TypeInv
  <2>2. handshake_inner(cl[c].first[1], allowed) = "Accepted"
    BY <2>1 DEF Admitted, AcceptedFirst
  <2>3. \A i \in DOMAIN delivered[c] : delivered[c][i].src = ProducerId[c]
    BY <2>1 DEF Admitted
  <2> QED BY <2>2, <2>3, AcceptedFacts
<1>2. Inv1 /\ [Next]_vars => Inv1'
  BY NextInv1
<1> QED BY <1>1, <1>2, InitInv1, PTL DEF Spec

-----------------------------------------------------------------------------
\* The order of the events: what can be done to a chain.

\* Nothing is on its way.
LEMMA LinkNone ==
    ASSUME NEW a \in Nat, NEW S \in Seq(Payloads)
    PROVE  Linked(a, a, S, <<>>, <<>>)
<1> DEFINE f == [i \in 0..0 |-> a]
           none == <<>>
<1>1. f \in [0..0 -> Nat] /\ f[0] = a
  OBVIOUS
<1>2. Len(none) = 0
  OBVIOUS
<1> HIDE DEF f, none
<1>3. Chained(S, none, none, f, f)
  BY <1>1, <1>2 DEF Chained
<1> QED BY <1>1, <1>2, <1>3 DEF Linked, none

\* Another event is handed to send_event.
LEMMA LinkMore ==
    ASSUME NEW a, NEW b, NEW S \in Seq(Payloads), NEW x \in Payloads, NEW P \in Seq(Envs),
           NEW U \in Seq(Piece), Linked(a, b, S, P, U)
    PROVE  Linked(a, b, Append(S, x), P, U)
<1>1. PICK f, g : Chained(S, P, U, f, g) /\ f[0] = a /\ g[Len(U)] = b
  BY DEF Linked
<1>2. PICK T \in Seq(Payloads) : T = Append(S, x)
  <2>1. Append(S, x) \in Seq(Payloads)
    OBVIOUS
  <2> QED BY <2>1
<1>3. /\ Len(T) = Len(S) + 1 /\ Len(S) \in Nat
      /\ \A k \in 1..Len(S) : T[k] = S[k]
  BY <1>2
<1>4. ASSUME NEW p \in Nat, NEW q \in Nat, NEW env, Counts(S, p, q, env)
      PROVE  Counts(T, p, q, env)
  <2>1. CASE env.type = "Event"
    <3>1. q = p + 1 /\ q <= Len(S) /\ S[q] = env.data
      BY <1>4, <2>1 DEF Counts
    <3>2. q \in 1..Len(S) /\ q <= Len(T)
      BY <1>3, <3>1
    <3> QED BY <1>3, <2>1, <3>1, <3>2 DEF Counts
  <2> QED BY <1>4, <2>1 DEF Counts
<1>5. Chained(T, P, U, f, g)
  <2>1. Len(P) \in Nat /\ Len(U) \in Nat
    OBVIOUS
  <2>2. f \in [0..Len(P) -> Nat] /\ g \in [0..Len(U) -> Nat] /\ g[0] = f[Len(P)]
    BY <1>1 DEF Chained
  <2>3. ASSUME NEW i \in 1..Len(P) PROVE Counts(T, f[i - 1], f[i], P[i])
    <3>0. i - 1 \in 0..Len(P) /\ i \in 0..Len(P)
      BY <2>1
    <3>1. f[i - 1] \in Nat /\ f[i] \in Nat
      BY <2>2, <3>0
    <3>2. Counts(S, f[i - 1], f[i], P[i])
      BY <1>1 DEF Chained
    <3> QED BY <1>4, <3>1, <3>2
  <2>4. ASSUME NEW j \in 1..Len(U)
        PROVE  IF U[j].hdr THEN g[j] = g[j - 1] ELSE Counts(T, g[j - 1], g[j], U[j].env)
    <3>0. j - 1 \in 0..Len(U) /\ j \in 0..Len(U)
      BY <2>1
    <3>1. g[j - 1] \in Nat /\ g[j] \in Nat
      BY <2>2, <3>0
    <3>2. IF U[j].hdr THEN g[j] = g[j - 1] ELSE Counts(S, g[j - 1], g[j], U[j].env)
      BY <1>1 DEF Chained
    <3> QED BY <1>4, <3>1, <3>2
  <2> QED BY <2>2, <2>3, <2>4 DEF Chained
<1> QED BY <1>1, <1>2, <1>5 DEF Linked

\* The first envelope of the queue is taken.
LEMMA LinkTake ==
    ASSUME NEW a \in Nat, NEW b, NEW S \in Seq(Payloads), NEW P \in Seq(Envs), P # <<>>,
           NEW U \in Seq(Piece), Linked(a, b, S, P, U)
    PROVE  /\ Head(P).type = "Event" => /\ Linked(a + 1, b, S, Tail(P), U)
                                        /\ a + 1 <= Len(S) /\ S[a + 1] = Head(P).data
           /\ Head(P).type # "Event" => Linked(a, b, S, Tail(P), U)
<1>1. PICK f, g : Chained(S, P, U, f, g) /\ f[0] = a /\ g[Len(U)] = b
  BY DEF Linked
<1>2. PICK Q \in Seq(Envs) : Q = Tail(P)
  <2>1. Tail(P) \in Seq(Envs)
    OBVIOUS
  <2> QED BY <2>1
<1>3. /\ Len(P) \in Nat /\ Len(P) >= 1 /\ Len(Q) = Len(P) - 1 /\ Head(P) = P[1]
      /\ \A i \in 1..(Len(P) - 1) : Q[i] = P[i + 1]
  BY <1>2
<1>4. /\ f \in [0..Len(P) -> Nat] /\ g \in [0..Len(U) -> Nat] /\ g[0] = f[Len(P)]
      /\ \A i \in 1..Len(P) : Counts(S, f[i - 1], f[i], P[i])
  BY <1>1 DEF Chained
<1> DEFINE h == [i \in 0..(Len(P) - 1) |-> f[i + 1]]
<1>5. h \in [0..Len(Q) -> Nat] /\ h[0] = f[1] /\ h[Len(Q)] = f[Len(P)]
  BY <1>3, <1>4
<1>6. ASSUME NEW i \in 1..Len(Q) PROVE Counts(S, h[i - 1], h[i], Q[i])
  <2>1. h[i - 1] = f[i] /\ h[i] = f[i + 1] /\ Q[i] = P[i + 1] /\ i + 1 \in 1..Len(P) /\ (i + 1) - 1 = i
    BY <1>3
  <2>2. Counts(S, f[(i + 1) - 1], f[i + 1], P[i + 1])
    BY <1>4, <2>1
  <2> QED BY <2>1, <2>2
<1> HIDE DEF h
<1>7. Chained(S, Q, U, h, g)
  BY <1>1, <1>4, <1>5, <1>6 DEF Chained
<1>8. Linked(f[1], b, S, Q, U)
  BY <1>1, <1>5, <1>7 DEF Linked
<1>9. Counts(S, a, f[1], P[1])
  <2>1. 1 \in 1..Len(P)
    BY <1>3
  <2>2. Counts(S, f[1 - 1], f[1], P[1])
    BY <1>4, <2>1
  <2>3. 1 - 1 = 0
    OBVIOUS
  <2> QED BY <1>1, <2>2, <2>3
<1> QED BY <1>2, <1>3, <1>8, <1>9 DEF Counts

\* A frame is written behind the rest.
LEMMA LinkSend ==
    ASSUME NEW a, NEW S \in Seq(Payloads), NEW P \in Seq(Envs), NEW U \in Seq(Piece),
           Linked(a, Len(S), S, P, U), NEW env \in Envs,
           NEW T \in Seq(Payloads), env.type = "Event" => T = Append(S, env.data),
           env.type # "Event" => T = S
    PROVE  Linked(a, Len(T), T, P, U \o frame(env))
<1>1. Linked(a, Len(S), T, P, U)
  <2>1. CASE env.type = "Event"
    <3>1. env.data \in Payloads /\ T = Append(S, env.data)
      BY <2>1, EventData
    <3>2. Linked(a, Len(S), Append(S, env.data), P, U)
      BY <3>1, LinkMore
    <3> QED BY <3>1, <3>2
  <2> QED BY <2>1
<1>2. PICK f, g : Chained(T, P, U, f, g) /\ f[0] = a /\ g[Len(U)] = Len(S)
  BY <1>1 DEF Linked
<1>3. Counts(T, Len(S), Len(T), env)
  BY EventData DEF Counts
<1>4. PICK V \in Seq(Piece) : V = U \o frame(env)
  <2>1. frame(env) \in Seq(Piece)
    BY DEF frame, Piece
  <2>2. U \o frame(env) \in Seq(Piece)
    BY <2>1
  <2> QED BY <2>2
<1>5. V = U \o <<[hdr |-> TRUE, env |-> env], [hdr |-> FALSE, env |-> env]>>
  BY <1>4 DEF frame
<1>6. /\ Len(U) \in Nat /\ Len(V) = Len(U) + 2 /\ \A j \in 1..Len(U) : V[j] = U[j]
      /\ V[Len(U) + 1].hdr /\ ~V[Len(U) + 2].hdr /\ V[Len(U) + 2].env = env
  BY <1>5
<1>7. Len(S) \in Nat /\ Len(T) \in Nat
  OBVIOUS
<1>8. /\ f \in [0..Len(P) -> Nat] /\ g \in [0..Len(U) -> Nat] /\ g[0] = f[Len(P)]
      /\ \A i \in 1..Len(P) : Counts(T, f[i - 1], f[i], P[i])
      /\ \A j \in 1..Len(U) :
           IF U[j].hdr THEN g[j] = g[j - 1] ELSE Counts(T, g[j - 1], g[j], U[j].env)
  BY <1>2 DEF Chained
<1> DEFINE h == [j \in 0..(Len(U) + 2) |-> IF j <= Len(U) THEN g[j]
                                           ELSE IF j = Len(U) + 1 THEN Len(S) ELSE Len(T)]
<1>9. /\ h \in [0..Len(V) -> Nat] /\ \A j \in 0..Len(U) : h[j] = g[j]
      /\ h[Len(U) + 1] = Len(S) /\ h[Len(U) + 2] = Len(T)
  BY <1>6, <1>7, <1>8
<1> HIDE DEF h
<1>10. ASSUME NEW j \in 1..Len(V)
       PROVE  IF V[j].hdr THEN h[j] = h[j - 1] ELSE Counts(T, h[j - 1], h[j], V[j].env)
  <2>1. CASE j \in 1..Len(U)
    <3>1. h[j] = g[j] /\ h[j - 1] = g[j - 1] /\ V[j] = U[j]
      BY <1>6, <1>9, <2>1
    <3> QED BY <1>8, <2>1, <3>1
  <2>2. CASE j = Len(U) + 1
    <3>0. j - 1 = Len(U) /\ Len(U) \in 0..Len(U)
      BY <1>6, <2>2
    <3>1. h[j - 1] = Len(S)
      BY <1>2, <1>9, <3>0
    <3> QED BY <1>6, <1>9, <2>2, <3>1
  <2>3. CASE j = Len(U) + 2
    <3>0. j - 1 = Len(U) + 1
      BY <1>6, <2>3
    <3>1. h[j - 1] = Len(S)
      BY <1>9, <3>0
    <3>2. h[j] = Len(T) /\ ~V[j].hdr /\ V[j].env = env
      BY <1>6, <1>9, <2>3
    <3> QED BY <1>3, <3>1, <3>2
  <2>4. j \in 1..Len(U) \/ j = Len(U) + 1 \/ j = Len(U) + 2
    BY <1>6
  <2> QED BY <2>1, <2>2, <2>3, <2>4
<1>11. h[0] = f[Len(P)]
  BY <1>6, <1>8, <1>9
<1>12. Chained(T, P, V, f, h)
  BY <1>8, <1>9, <1>10, <1>11 DEF Chained
<1>13. h[Len(V)] = Len(T)
  BY <1>6, <1>9
<1> QED BY <1>2, <1>4, <1>12, <1>13 DEF Linked

\* What is on its way is cut off behind some piece.
LEMMA LinkCut ==
    ASSUME NEW a, NEW b, NEW S \in Seq(Payloads), NEW P \in Seq(Envs), NEW U \in Seq(Piece),
           Linked(a, b, S, P, U), NEW m \in 0..Len(U), NEW V \in Seq(Piece), Len(V) = m,
           \A j \in 1..m : V[j] = U[j]
    PROVE  \E e \in Nat : Linked(a, e, S, P, V)
<1>1. PICK f, g : Chained(S, P, U, f, g) /\ f[0] = a /\ g[Len(U)] = b
  BY DEF Linked
<1>2. /\ f \in [0..Len(P) -> Nat] /\ g \in [0..Len(U) -> Nat] /\ g[0] = f[Len(P)]
      /\ \A i \in 1..Len(P) : Counts(S, f[i - 1], f[i], P[i])
      /\ \A j \in 1..Len(U) :
           IF U[j].hdr THEN g[j] = g[j - 1] ELSE Counts(S, g[j - 1], g[j], U[j].env)
  BY <1>1 DEF Chained
<1>3. m \in Nat /\ Len(U) \in Nat /\ m <= Len(U)
  OBVIOUS
<1> DEFINE h == [j \in 0..m |-> g[j]]
<1>4. h \in [0..Len(V) -> Nat] /\ \A j \in 0..m : h[j] = g[j]
  <2>1. \A j \in 0..m : g[j] \in Nat
    BY <1>2, <1>3
  <2>2. h \in [0..m -> Nat] /\ \A j \in 0..m : h[j] = g[j]
    BY <2>1
  <2> QED BY <2>2
<1> HIDE DEF h
<1>5. ASSUME NEW j \in 1..Len(V)
      PROVE  IF V[j].hdr THEN h[j] = h[j - 1] ELSE Counts(S, h[j - 1], h[j], V[j].env)
  <2>1. h[j] = g[j] /\ h[j - 1] = g[j - 1] /\ V[j] = U[j] /\ j \in 1..Len(U)
    BY <1>3, <1>4
  <2> QED BY <1>2, <2>1
<1>6. Chained(S, P, V, f, h)
  BY <1>2, <1>3, <1>4, <1>5 DEF Chained
<1>7. h[Len(V)] \in Nat
  BY <1>3, <1>4
<1> QED BY <1>1, <1>6, <1>7 DEF Linked

\* An odd number.
LEMMA Odd ==
    ASSUME NEW m \in Nat
    PROVE  (2 * m + 1) % 2 = 1
OBVIOUS

Alternates(U, o) == \A j \in 1..Len(U) : U[j].hdr <=> (j + o) % 2 = 1

Completed(U, o, n, E) ==
    /\ 2 * Len(E) = n + o \/ 2 * Len(E) = n + o - 1
    /\ \A i \in 1..Len(E) : E[i] = U[2 * i - o].env /\ ~U[2 * i - o].hdr

\* One read into an empty queue: what is completed moves over.
LEMMA LinkFill ==
    ASSUME NEW a, NEW b, NEW S \in Seq(Payloads), NEW U \in Seq(Piece), Linked(a, b, S, <<>>, U),
           NEW o \in {0, 1}, Alternates(U, o), NEW n \in 1..Len(U),
           NEW E \in Seq(Envs), Completed(U, o, n, E)
    PROVE  Linked(a, b, S, E, SubSeq(U, n + 1, Len(U)))
<1>1. PICK f, g : Chained(S, <<>>, U, f, g) /\ f[0] = a /\ g[Len(U)] = b
  BY DEF Linked
<1>2. /\ g \in [0..Len(U) -> Nat] /\ g[0] = a
      /\ \A j \in 1..Len(U) :
           IF U[j].hdr THEN g[j] = g[j - 1] ELSE Counts(S, g[j - 1], g[j], U[j].env)
  BY <1>1 DEF Chained
<1>3. n \in Nat /\ n >= 1 /\ n <= Len(U) /\ Len(U) \in Nat /\ Len(E) \in Nat
  OBVIOUS
<1>4. PICK V \in Seq(Piece) : V = SubSeq(U, n + 1, Len(U))
  BY Behind
<1>5. Len(V) = Len(U) - n /\ Len(U) - n \in Nat /\ \A j \in 1..(Len(U) - n) : V[j] = U[n + j]
  BY <1>4, Behind
<1> DEFINE at(i) == IF i = 0 THEN 0 ELSE 2 * i - o
           p == [i \in 0..Len(E) |-> g[at(i)]]
           q == [j \in 0..(Len(U) - n) |-> g[n + j]]
<1>6. \A i \in 0..Len(E) : at(i) \in 0..n /\ at(i) \in 0..Len(U)
  BY <1>3 DEF Completed
<1>7. p \in [0..Len(E) -> Nat] /\ \A i \in 0..Len(E) : p[i] = g[at(i)]
  BY <1>2, <1>6
<1>8. q \in [0..Len(V) -> Nat] /\ \A j \in 0..Len(V) : q[j] = g[n + j]
  <2>1. \A j \in 0..(Len(U) - n) : n + j \in 0..Len(U)
    BY <1>3, <1>5
  <2> QED BY <1>2, <1>5, <2>1
<1> HIDE DEF p, q
<1>9. ASSUME NEW j \in 1..Len(U), (j + o) % 2 = 1 PROVE g[j] = g[j - 1]
  BY <1>2, <1>9 DEF Alternates
<1>10. ASSUME NEW i \in 1..Len(E) PROVE Counts(S, p[i - 1], p[i], E[i])
  <2>0. i \in Nat /\ i >= 1 /\ i <= Len(E)
    BY <1>3
  <2>1. 2 * i - o \in 1..Len(U) /\ i - 1 \in 0..Len(E) /\ i \in 0..Len(E)
    <3>1. 2 * Len(E) <= n + o
      BY <1>3 DEF Completed
    <3>2. 2 * i - o \in Nat /\ 2 * i - o >= 1 /\ 2 * i - o <= Len(U)
      BY <1>3, <2>0, <3>1
    <3> QED BY <1>3, <2>0, <3>2
  <2>2. p[i] = g[2 * i - o]
    <3>1. at(i) = 2 * i - o
      BY <2>0
    <3> QED BY <1>7, <2>1, <3>1
  <2>3. Counts(S, g[2 * i - o - 1], g[2 * i - o], E[i])
    BY <1>2, <2>1 DEF Completed
  <2>4. p[i - 1] = g[2 * i - o - 1]
    <3>1. CASE i = 1 /\ o = 1
      <4>1. p[i - 1] = g[0] /\ 2 * i - o - 1 = 0
        BY <1>7, <2>1, <3>1
      <4> QED BY <4>1
    <3>2. CASE i = 1 /\ o = 0
      <4>1. p[i - 1] = g[0] /\ 2 * i - o - 1 = 1
        BY <1>7, <2>1, <3>2
      <4>2. g[1] = g[0]
        <5>1. 1 \in 1..Len(U) /\ (1 + o) % 2 = 1 /\ 1 - 1 = 0
          BY <1>3, <3>2
        <5> QED BY <1>9, <5>1
      <4> QED BY <4>1, <4>2
    <3>3. CASE i # 1
      <4>1. at(i - 1) = 2 * i - o - 2
        BY <2>1, <3>3
      <4>2. p[i - 1] = g[2 * i - o - 2]
        BY <1>7, <2>1, <4>1
      <4>3. PICK k \in 1..Len(U) : k = 2 * i - o - 1
        BY <1>3, <2>1, <3>3
      <4>4. (k + o) % 2 = 1
        <5>1. k + o = 2 * (i - 1) + 1
          BY <2>1, <4>3
        <5>2. i - 1 \in Nat
          BY <2>0
        <5> QED BY <5>1, <5>2, Odd
      <4>5. g[k] = g[k - 1] /\ k - 1 = 2 * i - o - 2
        BY <1>9, <4>3, <4>4, <2>1
      <4> QED BY <4>2, <4>3, <4>5
    <3> QED BY <3>1, <3>2, <3>3
  <2> QED BY <2>2, <2>3, <2>4
<1>11. q[0] = p[Len(E)]
  <2>1. q[0] = g[n]
    <3>1. 0 \in 0..Len(V) /\ n + 0 = n
      BY <1>3, <1>5
    <3> QED BY <1>8, <3>1
  <2>2. p[Len(E)] = g[at(Len(E))]
    <3>1. Len(E) \in 0..Len(E)
      BY <1>3
    <3> QED BY <1>7, <3>1
  <2>3. CASE 2 * Len(E) = n + o
    <3>1. at(Len(E)) = n
      BY <1>3, <2>3
    <3> QED BY <2>1, <2>2, <3>1
  <2>4. CASE 2 * Len(E) = n + o - 1
    <3>1. at(Len(E)) = n - 1
      BY <1>3, <2>4
    <3>2. (n + o) % 2 = 1
      <4>1. n + o = 2 * Len(E) + 1
        BY <1>3, <2>4
      <4> QED BY <1>3, <4>1, Odd
    <3>3. g[n] = g[n - 1]
      BY <1>9, <3>2
    <3> QED BY <2>1, <2>2, <3>1, <3>3
  <2> QED BY <2>3, <2>4 DEF Completed
<1>12. ASSUME NEW j \in 1..Len(V)
       PROVE  IF V[j].hdr THEN q[j] = q[j - 1] ELSE Counts(S, q[j - 1], q[j], V[j].env)
  <2>1. V[j] = U[n + j] /\ n + j \in 1..Len(U) /\ (n + j) - 1 = n + (j - 1) /\ j - 1 \in 0..Len(V)
        /\ j \in 0..Len(V)
    <3>1. j \in Nat /\ j >= 1 /\ j <= Len(U) - n /\ j \in 1..(Len(U) - n)
      BY <1>5
    <3> QED BY <1>3, <1>5, <3>1
  <2>2. q[j] = g[n + j] /\ q[j - 1] = g[(n + j) - 1]
    BY <1>8, <2>1
  <2> QED BY <1>2, <2>1, <2>2
<1>13. Chained(S, E, V, p, q)
  BY <1>7, <1>8, <1>10, <1>11, <1>12 DEF Chained
<1>14. p[0] = a
  BY <1>2, <1>3, <1>7
<1>15. q[Len(V)] = b
  BY <1>1, <1>3, <1>5, <1>8
<1> QED BY <1>4, <1>13, <1>14, <1>15 DEF Linked

\* Every move keeps what is on its way a continuation of what was delivered.
LEMMA InOrderStep ==
    ASSUME TypeInv, TypeInv', NEW c \in Clients, Basic(c), Framed(c), InOrder(c), Moves(c)
    PROVE  InOrder(c)'
<1> DEFINE P == sv[c].pending
           U == up[c]
           S == sent[c]
           D == delivered[c]
           a == Len(D)
<1>0. /\ sv[c] \in ConnState /\ sv'[c] \in ConnState
      /\ P \in Seq(Envs) /\ U \in Seq(Piece) /\ S \in Seq(Payloads) /\ D \in Seq(Payloads)
      /\ sent'[c] \in Seq(Payloads) /\ delivered'[c] \in Seq(Payloads) /\ up'[c] \in Seq(Piece)
      /\ a \in Nat
  BY DEF TypeInv, ConnState
<1>1. PICK b \in Nat : Linked(a, b, S, P, U) /\ (Intact(c) => b = Len(S))
  <2>1. \E b \in Nat :
          /\ Linked(Len(delivered[c]), b, sent[c], sv[c].pending, up[c])
          /\ Intact(c) => b = Len(sent[c])
    BY DEF InOrder
  <2> QED BY <2>1
<1>2. a <= Len(S) /\ \A i \in 1..a : D[i] = S[i]
  BY DEF InOrder
\* Nothing moves.
<1>3. ASSUME delivered'[c] = D, sent'[c] = S, sv'[c].pending = P, up'[c] = U, Intact(c)' => Intact(c)
      PROVE  InOrder(c)'
  BY <1>1, <1>2, <1>3 DEF InOrder
\* The connection is closed: nothing is on its way any more.
<1>4. ASSUME delivered'[c] = D, sent'[c] = S, Closes(c) PROVE InOrder(c)'
  <2>1. Linked(a, a, S, <<>>, <<>>)
    BY <1>0, LinkNone
  <2>2. sv'[c].pending = <<>> /\ up'[c] = <<>> /\ ~Intact(c)'
    BY <1>4 DEF Closes, Intact, peer_gone
  <2> QED BY <1>0, <1>2, <1>4, <2>1, <2>2 DEF InOrder
\* Another event is sent on a dead connection.
<1>5. ASSUME delivered'[c] = D, NEW x \in Payloads, sent'[c] = Append(S, x), sv'[c].pending = P,
             up'[c] = U, ~Intact(c)'
      PROVE  InOrder(c)'
  <2>1. Linked(a, b, Append(S, x), P, U)
    BY <1>0, <1>1, LinkMore
  <2>2. /\ Len(sent'[c]) = Len(S) + 1 /\ Len(S) \in Nat
        /\ \A i \in 1..Len(S) : sent'[c][i] = S[i]
    BY <1>0, <1>5
  <2>3. a <= Len(sent'[c]) /\ \A i \in 1..a : D[i] = sent'[c][i]
    <3>1. a <= Len(sent'[c])
      BY <1>0, <1>2, <2>2
    <3>2. ASSUME NEW i \in 1..a PROVE D[i] = sent'[c][i]
      <4>1. i \in 1..Len(S)
        BY <1>0, <1>2, <2>2
      <4>2. D[i] = S[i]
        BY <1>2
      <4> QED BY <2>2, <4>1, <4>2
    <3> QED BY <3>1, <3>2
  <2> QED BY <1>1, <1>5, <2>1, <2>3 DEF InOrder
<1>6. CASE RestMove(c)
  BY <1>3, <1>6 DEF RestMove, ClientRests, PcMoves, Intact, peer_gone
<1>7. CASE EndMove(c)
  BY <1>4, <1>7 DEF EndMove, ClientRests
<1>8. CASE ReadMove(c)
  <2>0. ClientRests(c) /\ delivered'[c] = D
    BY <1>8 DEF ReadMove
  <2>1. PICK n \in 1..Len(U) :
         /\ up'[c] = SubSeq(U, n + 1, Len(U))
         /\ LET envs == Envelopes(SubSeq(U, 1, n))
            IN \/ sv[c].pc = "session" /\ P = <<>> /\ sv'[c].pending = envs
               \/ sv[c].pc = "handshake" /\ envs = <<>> /\ sv'[c].pending = P
               \/ /\ sv[c].pc = "handshake" /\ envs # <<>>
                  /\ handshake_inner(envs[1], allowed) = "Accepted"
                  /\ sv'[c].pending = Tail(envs)
    BY <1>8 DEF ReadMove
  <2> DEFINE E == Envelopes(SubSeq(U, 1, n))
  <2>2. PICK o \in {0, 1} : o = begun(c)
    BY DEF begun
  <2>3. E \in Seq(Envs) /\ Completed(U, o, n, E)
    BY <2>2, ReadFacts DEF Completed
  <2>4. Alternates(U, o)
    BY <2>2 DEF Framed, Alternates
  <2>5. P = <<>>
    BY <2>1 DEF Basic
  <2> HIDE DEF E
  <2>6. Linked(a, b, S, E, SubSeq(U, n + 1, Len(U)))
    BY <1>0, <1>1, <2>3, <2>4, <2>5, LinkFill
  <2>7. Linked(a, b, S, sv'[c].pending, up'[c])
    <3>1. CASE sv'[c].pending = E
      BY <2>1, <2>6, <3>1
    <3>2. CASE E = <<>> /\ sv'[c].pending = P
      BY <2>1, <2>5, <2>6, <3>2
    <3>3. CASE /\ E # <<>> /\ handshake_inner(E[1], allowed) = "Accepted"
               /\ sv'[c].pending = Tail(E)
      <4>1. Head(E).type # "Event"
        BY <2>3, <3>3, AcceptedFacts
      <4>2. Linked(a, b, S, Tail(E), up'[c])
        BY <1>0, <2>1, <2>3, <2>6, <3>3, <4>1, LinkTake
      <4> QED BY <3>3, <4>2
    <3> QED BY <2>1, <3>1, <3>2, <3>3 DEF E
  <2>8. Intact(c)' => Intact(c)
    BY <2>0, <2>1 DEF ClientRests, Intact, peer_gone
  <2> QED BY <1>1, <1>2, <2>0, <2>7, <2>8 DEF InOrder, ClientRests
<1>9. CASE TakeMove(c)
  <2>1. /\ ClientRests(c) /\ sv[c].pc = "session" /\ P # <<>> /\ Head(P).type = "Event"
        /\ delivered'[c] = Append(D, Head(P).data)
        /\ \/ up'[c] = U /\ sv'[c].pending = Tail(P)
           \/ Closes(c)
    BY <1>9 DEF TakeMove
  <2>2. Linked(a + 1, b, S, Tail(P), U) /\ a + 1 <= Len(S) /\ S[a + 1] = Head(P).data
    <3>1. a \in Nat /\ S \in Seq(Payloads) /\ P \in Seq(Envs) /\ U \in Seq(Piece)
      BY <1>0
    <3>2. P # <<>> /\ Head(P).type = "Event" /\ Linked(a, b, S, P, U)
      BY <1>1, <2>1
    <3> HIDE DEF a, S, P, U
    <3> QED BY <3>1, <3>2, LinkTake
  <2>3. Head(P).data \in Payloads
    BY <1>0, <2>1, EventData
  <2>4. /\ Len(delivered'[c]) = a + 1 /\ delivered'[c][a + 1] = S[a + 1]
        /\ \A i \in 1..a : delivered'[c][i] = S[i]
    BY <1>0, <1>2, <2>1, <2>2, <2>3
  <2>5. sent'[c] = S /\ \A i \in 1..Len(delivered'[c]) : delivered'[c][i] = sent'[c][i]
    BY <1>0, <2>1, <2>4, SMTT(30) DEF ClientRests
  <2>6. CASE up'[c] = U /\ sv'[c].pending = Tail(P)
    <3>1. Intact(c)' => Intact(c)
      BY <2>1 DEF ClientRests, Intact, peer_gone
    <3> QED BY <1>1, <2>2, <2>4, <2>5, <2>6, <3>1 DEF InOrder
  <2>7. CASE Closes(c)
    <3>1. Linked(a + 1, a + 1, S, <<>>, <<>>) /\ a + 1 \in Nat
      BY <1>0, LinkNone
    <3>2. sv'[c].pending = <<>> /\ up'[c] = <<>> /\ ~Intact(c)'
      BY <2>7 DEF Closes, Intact, peer_gone
    <3> QED BY <2>2, <2>4, <2>5, <3>1, <3>2 DEF InOrder
  <2> QED BY <2>1, <2>6, <2>7
<1>10. CASE SkipMove(c)
  <2>1. /\ ClientRests(c) /\ P # <<>> /\ Head(P).type # "Event" /\ delivered'[c] = D
        /\ up'[c] = U /\ sv'[c].pending = Tail(P) /\ sv[c].pc = "session"
    BY <1>10 DEF SkipMove
  <2>2. Linked(a, b, S, Tail(P), U)
    BY <1>0, <1>1, <2>1, LinkTake
  <2>3. Intact(c)' => Intact(c)
    BY <2>1 DEF ClientRests, Intact, peer_gone
  <2> QED BY <1>1, <1>2, <2>1, <2>2, <2>3 DEF InOrder, ClientRests
<1>11. CASE StartMove(c)
  BY <1>3, <1>11 DEF StartMove, ServerRests, Intact, peer_gone, Basic
<1>12. CASE QuietMove(c)
  BY <1>3, <1>12 DEF QuietMove, ServerRests, Intact, peer_gone
<1>13. CASE StopMove(c)
  <2>1. /\ delivered'[c] = D /\ sv'[c] = sv[c] /\ up'[c] = U /\ cl[c].err = "none"
        /\ (link'[c] = "lost" <=> link[c] = "lost")
    BY <1>13 DEF StopMove, ServerRests, Basic
  <2>2. CASE sent'[c] = S
    <3>1. Intact(c)' => Intact(c)
      BY <2>1 DEF Intact, peer_gone
    <3> QED BY <1>3, <2>1, <2>2, <3>1
  <2>3. ASSUME link[c] = "lost" \/ peer_gone(c), NEW x \in Payloads, sent'[c] = Append(S, x)
        PROVE  InOrder(c)'
    <3>1. ~Intact(c)'
      BY <2>1, <2>3 DEF Intact, peer_gone
    <3> QED BY <1>5, <2>1, <2>3, <3>1
  <2> QED BY <1>13, <2>2, <2>3 DEF StopMove
<1>14. CASE SendMove(c)
  <2>1. PICK env \in Envs :
         /\ up'[c] = IF peer_gone(c) THEN U ELSE U \o frame(env)
         /\ IF env.type = "Event" THEN sent'[c] = Append(S, env.data) ELSE sent'[c] = S
    BY <1>14 DEF SendMove
  <2>2. /\ delivered'[c] = D /\ sv'[c] = sv[c] /\ link[c] = "open" /\ cl[c].err = "none"
    BY <1>14 DEF SendMove, ServerRests, Basic
  <2>3. CASE peer_gone(c)
    <3>1. ~Intact(c)' /\ up'[c] = U
      BY <2>1, <2>2, <2>3 DEF Intact, peer_gone
    <3>2. CASE env.type = "Event"
      <4>1. env.data \in Payloads /\ sent'[c] = Append(S, env.data)
        BY <2>1, <3>2, EventData
      <4> QED BY <1>5, <2>2, <3>1, <4>1
    <3>3. CASE env.type # "Event"
      BY <1>3, <2>1, <2>2, <3>1, <3>3
    <3> QED BY <3>2, <3>3
  <2>4. CASE ~peer_gone(c)
    <3>1. b = Len(S) /\ up'[c] = U \o frame(env)
      BY <1>1, <2>1, <2>2, <2>4 DEF Intact
    <3>2. /\ env.type = "Event" => sent'[c] = Append(S, env.data)
          /\ env.type # "Event" => sent'[c] = S
      BY <2>1
    <3>3. Linked(a, Len(sent'[c]), sent'[c], P, U \o frame(env))
      BY <1>0, <1>1, <3>1, <3>2, LinkSend
    <3>4. a <= Len(sent'[c]) /\ \A i \in 1..a : D[i] = sent'[c][i]
      <4>1. CASE env.type = "Event"
        <5>1. env.data \in Payloads /\ sent'[c] = Append(S, env.data)
          BY <2>1, <4>1, EventData
        <5>2. /\ Len(sent'[c]) = Len(S) + 1 /\ Len(S) \in Nat
              /\ \A i \in 1..Len(S) : sent'[c][i] = S[i]
          BY <1>0, <5>1
        <5> QED BY <1>0, <1>2, <5>2
      <4> QED BY <1>2, <2>1, <4>1
    <3>5. Len(sent'[c]) \in Nat
      BY <1>0
    <3> QED BY <2>2, <3>1, <3>3, <3>4, <3>5 DEF InOrder
  <2> QED BY <2>3, <2>4
<1>15. ASSUME NEW V \in Seq(Piece), NEW m \in 0..Len(U), Len(V) = m, \A j \in 1..m : V[j] = U[j],
              up'[c] = V, delivered'[c] = D, sent'[c] = S, sv'[c].pending = P, ~Intact(c)'
       PROVE  InOrder(c)'
  <2>1. \E e \in Nat : Linked(a, e, S, P, V)
    <3>1. S \in Seq(Payloads) /\ P \in Seq(Envs) /\ U \in Seq(Piece) /\ Linked(a, b, S, P, U)
      BY <1>0, <1>1
    <3>2. Len(V) = m /\ \A j \in 1..m : V[j] = U[j]
      BY <1>15
    <3> HIDE DEF a, S, P, U
    <3> QED BY <3>1, <3>2, LinkCut
  <2> QED BY <1>2, <1>15, <2>1 DEF InOrder
<1>16. CASE LoseMove(c)
  <2>1. /\ up'[c] = <<>> /\ delivered'[c] = D /\ sent'[c] = S /\ sv'[c].pending = P /\ ~Intact(c)'
    BY <1>16 DEF LoseMove, ServerRests, Intact
  <2>2. 0 \in 0..Len(U) /\ Len(up'[c]) = 0 /\ \A j \in 1..0 : up'[c][j] = U[j]
    BY <1>0, <2>1
  <2> QED BY <1>0, <1>15, <2>1, <2>2
<1>17. CASE MidKillMove(c)
  <2>1. /\ up'[c] = SubSeq(U, 1, Len(U) - 1) /\ U # <<>> /\ delivered'[c] = D /\ sent'[c] = S
        /\ sv'[c].pending = P /\ ~Intact(c)'
    BY <1>17 DEF MidKillMove, ServerRests, Intact
  <2>2. /\ Len(U) - 1 \in 0..Len(U) /\ Len(up'[c]) = Len(U) - 1
        /\ \A j \in 1..(Len(U) - 1) : up'[c][j] = U[j]
    BY <1>0, <2>1
  <2> QED BY <1>0, <1>15, <2>1, <2>2
<1> QED BY <1>6, <1>7, <1>8, <1>9, <1>10, <1>11, <1>12, <1>13, <1>14, <1>16, <1>17
        DEF Moves, ServerMoves, ClientMoves

Inv2 == Inv1 /\ \A d \in Clients : InOrder(d)

\* Inv2 holds at the start.
LEMMA InitInv2 == Init => Inv2
<1> SUFFICES ASSUME Init PROVE Inv2
  OBVIOUS
<1>1. Inv1
  BY InitInv1
<1>2. ASSUME NEW d \in Clients PROVE InOrder(d)
  <2>1. sv[d].pending = <<>> /\ up[d] = <<>> /\ delivered[d] = <<>> /\ sent[d] = <<>>
    BY DEF Init, ProducerInit, NoConn
  <2>2. sent[d] \in Seq(Payloads) /\ Len(delivered[d]) = 0 /\ Len(sent[d]) = 0
    BY <1>1, <2>1 DEF Inv1, Inv0, TypeInv
  <2>3. Linked(0, 0, sent[d], <<>>, <<>>)
    BY <2>2, LinkNone
  <2> QED BY <2>1, <2>2, <2>3 DEF InOrder
<1> QED BY <1>1, <1>2 DEF Inv2

\* Every step keeps Inv2.
LEMMA NextInv2 ==
    ASSUME Inv2, [Next]_vars
    PROVE  Inv2'
<1>1. Inv1 /\ Inv1' /\ Inv0 /\ Inv0' /\ \A d \in Clients : Moves(d)
  BY NextInv1, NextInv0 DEF Inv2, Inv1
<1>2. ASSUME NEW d \in Clients PROVE InOrder(d)'
  <2>1. TypeInv /\ TypeInv' /\ Basic(d) /\ Moves(d) /\ Framed(d) /\ InOrder(d)
    BY <1>1 DEF Inv0, Inv1, Inv2
  <2> QED BY <2>1, InOrderStep
<1> QED BY <1>1, <1>2 DEF Inv2

\* A step sends or delivers at most one event, of one connection.
Sends(c) == delivered' = delivered /\ \E x : sent' = [sent EXCEPT ![c] = Append(@, x)]
Delivers(c) == sent' = sent /\ \E x : delivered' = [delivered EXCEPT ![c] = Append(@, x)]

\* No step sends or delivers more than one event.
LEMMA OneEvent ==
    ASSUME [Next]_vars
    PROVE  \/ sent' = sent /\ delivered' = delivered
           \/ \E c \in Clients : Sends(c) \/ Delivers(c)
<1>1. CASE UNCHANGED vars
  BY <1>1 DEF vars, clientVars, serverVars
<1>2. ASSUME NEW c \in Clients, ClientStep(c) \/ ClientChoice(c), UNCHANGED serverVars
      PROVE  (sent' = sent /\ delivered' = delivered) \/ Sends(c)
  <2>1. delivered' = delivered
    BY <1>2 DEF serverVars
  <2>2. CASE Declare(c) \/ Detect(c)
    BY <2>1, <2>2 DEF Declare, Detect, send_event, Sends
  <2>3. CASE WriteScript(c)
    BY <2>1, <2>3 DEF WriteScript, Sends
  <2> QED BY <1>2, <2>1, <2>2, <2>3
          DEF ClientStep, ClientChoice, connect, recv_frame, Sleep, disconnect, start, CloseScript,
              SpuriousChange, Lose, Kill
<1>3. ASSUME NEW c \in Clients, SessionStep(c)
      PROVE  (sent' = sent /\ delivered' = delivered) \/ Delivers(c)
  <2>1. CASE next_event(c)
    <3>1. sent' = sent
      BY <2>1 DEF next_event, append_event, Finish, Serve
    <3> QED BY <2>1, <3>1 DEF next_event, append_event, Delivers
  <2> QED BY <1>3, <2>1
          DEF SessionStep, Poll, fill_pending, SessionEnds, incr, IncrLocked, Goes, Finish, Serve
<1>4. CASE ListenerStep \/ Signal
  <2>1. ASSUME NEW c \in Clients, handshake(c) PROVE sent' = sent /\ delivered' = delivered
    BY <2>1 DEF handshake, Reply, Admit, AcceptErr, Serve
  <2> QED BY <1>4, <2>1
          DEF ListenerStep, Signal, StopAccepting, Return, accept, HandshakeStep, TlsAccept, Timeout,
              HandshakeEnds, Reap, Drain, Goes, AcceptErr, Serve
<1> QED BY <1>1, <1>2, <1>3, <1>4 DEF Next

(***************************************************************************)
(* The listener implements IngestStream: append_event is called with the   *)
(* events of each connection in the order its producer sent them, none     *)
(* twice and none left out, whatever way reads cut the stream, whatever    *)
(* comes together with a Connect, and whenever connections are lost,       *)
(* dropped or aborted.                                                     *)
(***************************************************************************)
THEOREM ListenerImplementsStream == Spec => ImplementsStream
<1>1. Init => Stream!Init
  BY DEF Init, ProducerInit, Stream!Init
<1>2. ASSUME Inv2, Inv2', [Next]_vars PROVE [Stream!Next]_<<sent, delivered>>
  <2>1. /\ sent \in [Clients -> Seq(Payloads)] /\ sent' \in [Clients -> Seq(Payloads)]
        /\ delivered \in [Clients -> Seq(Payloads)] /\ delivered' \in [Clients -> Seq(Payloads)]
    BY <1>2 DEF Inv2, Inv1, Inv0, TypeInv
  <2>2. ASSUME NEW c \in Clients, Sends(c) PROVE Stream!Send(c)
    <3>1. PICK x : sent' = [sent EXCEPT ![c] = Append(@, x)]
      BY <2>2 DEF Sends
    <3>2. x \in Payloads
      <4>1. sent'[c] = Append(sent[c], x) /\ sent'[c] \in Seq(Payloads) /\ sent[c] \in Seq(Payloads)
        BY <2>1, <3>1
      <4>2. Len(sent'[c]) = Len(sent[c]) + 1 /\ sent'[c][Len(sent[c]) + 1] = x /\ Len(sent[c]) \in Nat
        BY <4>1
      <4>3. Len(sent[c]) + 1 \in 1..Len(sent'[c])
        BY <4>2
      <4> QED BY <4>1, <4>2, <4>3
    <3> QED BY <2>2, <3>1, <3>2 DEF Sends, Stream!Send
  <2>3. ASSUME NEW c \in Clients, Delivers(c) PROVE Stream!Deliver(c)
    <3>1. PICK x : delivered' = [delivered EXCEPT ![c] = Append(@, x)]
      BY <2>3 DEF Delivers
    <3>2. /\ delivered'[c] = Append(delivered[c], x) /\ delivered[c] \in Seq(Payloads)
          /\ sent[c] \in Seq(Payloads) /\ sent'[c] = sent[c]
      BY <2>1, <2>3, <3>1 DEF Delivers
    <3>3. /\ Len(delivered'[c]) = Len(delivered[c]) + 1 /\ Len(delivered[c]) \in Nat
          /\ delivered'[c][Len(delivered[c]) + 1] = x
      BY <3>2
    <3>4. /\ Len(delivered'[c]) <= Len(sent'[c])
          /\ \A i \in 1..Len(delivered'[c]) : delivered'[c][i] = sent'[c][i]
      BY <1>2 DEF Inv2, InOrder
    <3>5. Len(sent[c]) \in Nat
      BY <3>2
    <3>6. Len(delivered[c]) < Len(sent[c]) /\ x = sent[c][Len(delivered[c]) + 1]
      BY <3>2, <3>3, <3>4, <3>5
    <3> QED BY <2>3, <3>1, <3>6 DEF Delivers, Stream!Deliver
  <2> QED BY <1>2, <2>2, <2>3, OneEvent DEF Stream!Next
<1>3. Inv2 /\ [Next]_vars => Inv2'
  BY NextInv2
<1> QED BY <1>1, <1>2, <1>3, InitInv2, PTL DEF Spec, ImplementsStream, Stream!Spec

-----------------------------------------------------------------------------
\* The end of a session.

\* With nothing on its way, the chain begins where it ends.
LEMMA LinkSame ==
    ASSUME NEW a, NEW b, NEW S, Linked(a, b, S, <<>>, <<>>)
    PROVE  a = b
<1> DEFINE none == <<>>
<1>1. Len(none) = 0
  OBVIOUS
<1> HIDE DEF none
<1>2. PICK f, g : Chained(S, none, none, f, g) /\ f[0] = a /\ g[Len(none)] = b
  BY DEF Linked, none
<1> QED BY <1>1, <1>2 DEF Chained

\* All that was sent has been delivered.
LEMMA AllDelivered ==
    ASSUME NEW D \in Seq(Payloads), NEW S \in Seq(Payloads), Len(D) = Len(S),
           \A i \in 1..Len(D) : D[i] = S[i]
    PROVE  D = S
BY SeqEqual

\* No producer but one that leaves writes a Disconnect.
NobodyLeavesInScript == \A e \in Alphabet : e.type # "Disconnect"

\* Every move keeps a Disconnect the last envelope on its way.
LEMMA LastSentStep ==
    ASSUME NobodyLeavesInScript, TypeInv, TypeInv', NEW c \in Clients, Basic(c), LastSent(c), Moves(c)
    PROVE  LastSent(c)'
<1>0. up[c] \in Seq(Piece) /\ up'[c] \in Seq(Piece) /\ Len(up[c]) \in Nat /\ Len(up'[c]) \in Nat
  BY DEF TypeInv
\* Some of the pieces are left, in their order and with the end.
<1>1. ASSUME up'[c] = <<>> PROVE LastSent(c)'
  <2>1. Len(up'[c]) = 0
    BY <1>1
  <2> QED BY <2>1 DEF LastSent
<1>2. ASSUME up'[c] = up[c], cl[c].pc = "done" => cl'[c] = cl[c] PROVE LastSent(c)'
  BY <1>2 DEF LastSent
<1>3. CASE ServerMoves(c)
  <2>1. cl'[c] = cl[c]
    BY <1>3 DEF ServerMoves, RestMove, EndMove, ReadMove, TakeMove, SkipMove, ClientRests
  <2>2. CASE up'[c] = up[c] \/ up'[c] = <<>>
    BY <1>1, <1>2, <2>1, <2>2
  <2>3. CASE ReadMove(c)
    <3>1. PICK n \in 1..Len(up[c]) : up'[c] = SubSeq(up[c], n + 1, Len(up[c]))
      BY <2>3 DEF ReadMove
    <3>2. /\ Len(up'[c]) = Len(up[c]) - n
          /\ \A j \in 1..(Len(up[c]) - n) : up'[c][j] = up[c][n + j]
      BY <1>0, <3>1, Behind
    <3>3. ASSUME NEW j \in 1..Len(up'[c]), up'[c][j].env.type = "Disconnect"
          PROVE  /\ cl'[c].pc = "done" /\ cl'[c].err # "KilledMidFrame"
                 /\ ~up'[c][j].hdr => j = Len(up'[c])
      <4>1. n + j \in 1..Len(up[c]) /\ up'[c][j] = up[c][n + j] /\ n \in Nat /\ j \in Nat
        BY <1>0, <3>2
      <4>2. /\ cl[c].pc = "done" /\ cl[c].err # "KilledMidFrame"
            /\ ~up[c][n + j].hdr => n + j = Len(up[c])
        BY <3>3, <4>1 DEF LastSent
      <4>3. n + j = Len(up[c]) => j = Len(up'[c])
        BY <1>0, <3>2, <4>1
      <4> QED BY <2>1, <4>1, <4>2, <4>3
    <3> QED BY <3>3 DEF LastSent
  <2> QED BY <1>3, <2>2, <2>3 DEF ServerMoves, RestMove, EndMove, TakeMove, SkipMove, Closes
<1>4. CASE StartMove(c) \/ QuietMove(c) \/ StopMove(c)
  <2>1. up'[c] = up[c] /\ cl[c].pc # "done"
    BY <1>4 DEF StartMove, QuietMove, StopMove
  <2> QED BY <1>2, <2>1
<1>5. CASE SendMove(c)
  <2>1. PICK env \in Envs :
         /\ up'[c] = IF peer_gone(c) THEN up[c] ELSE up[c] \o frame(env)
         /\ \/ cl'[c].pc # "done" /\ (env.type = "Disconnect" => env \in FromAlphabet)
            \/ cl'[c].pc = "done"
    BY <1>5 DEF SendMove
  <2>2. cl[c].pc # "done" /\ cl'[c].err = cl[c].err /\ cl[c].err = "none"
    BY <1>5 DEF SendMove, Basic
  <2>3. CASE peer_gone(c)
    BY <1>2, <2>1, <2>2, <2>3
  <2>4. CASE ~peer_gone(c)
    <3>1. env.type = "Disconnect" => cl'[c].pc = "done"
      BY <2>1, NumberedFacts DEF NobodyLeavesInScript, FromAlphabet
    <3>2. /\ Len(up'[c]) = Len(up[c]) + 2
          /\ \A j \in 1..Len(up[c]) : up'[c][j] = up[c][j]
          /\ up'[c][Len(up[c]) + 1] = [hdr |-> TRUE, env |-> env]
          /\ up'[c][Len(up[c]) + 2] = [hdr |-> FALSE, env |-> env]
      BY <1>0, <2>1, <2>4 DEF frame
    <3>3. ASSUME NEW j \in 1..Len(up'[c]), up'[c][j].env.type = "Disconnect"
          PROVE  /\ cl'[c].pc = "done" /\ cl'[c].err # "KilledMidFrame"
                 /\ ~up'[c][j].hdr => j = Len(up'[c])
      <4>1. j \in 1..Len(up[c]) \/ j = Len(up[c]) + 1 \/ j = Len(up[c]) + 2
        BY <1>0, <3>2
      <4>2. CASE j \in 1..Len(up[c])
        BY <2>2, <3>2, <3>3, <4>2 DEF LastSent
      <4> QED BY <2>2, <3>1, <3>2, <3>3, <4>1, <4>2
    <3> QED BY <3>3 DEF LastSent
  <2> QED BY <2>3, <2>4
<1>6. CASE LoseMove(c)
  BY <1>1, <1>6 DEF LoseMove
<1>7. CASE MidKillMove(c)
  <2>1. /\ cl[c].pc # "done" /\ up[c] # <<>> /\ up'[c] = SubSeq(up[c], 1, Len(up[c]) - 1)
    BY <1>7 DEF MidKillMove
  <2>2. /\ Len(up'[c]) = Len(up[c]) - 1 /\ \A j \in 1..(Len(up[c]) - 1) : up'[c][j] = up[c][j]
    BY <1>0, <2>1
  <2>3. \A j \in 1..Len(up'[c]) : j \in 1..Len(up[c]) /\ up'[c][j] = up[c][j]
    BY <1>0, <2>2
  <2> QED BY <2>1, <2>3 DEF LastSent
<1> QED BY <1>3, <1>4, <1>5, <1>6, <1>7 DEF Moves, ClientMoves

\* Every move keeps a Disconnect the last envelope of the queue.
LEMMA LastReadStep ==
    ASSUME TypeInv, TypeInv', NEW c \in Clients, Basic(c), Framed(c), LastSent(c), LastRead(c),
           Moves(c), InOrder(c)'
    PROVE  LastRead(c)'
<1>0. /\ sv[c] \in ConnState /\ up[c] \in Seq(Piece) /\ Len(up[c]) \in Nat
      /\ sv[c].pending \in Seq(Envs) /\ Len(sv[c].pending) \in Nat
      /\ sent[c] \in Seq(Payloads) /\ delivered[c] \in Seq(Payloads) /\ Len(delivered[c]) \in Nat
  BY DEF TypeInv, ConnState
<1>1. ASSUME sv'[c].pending = <<>> PROVE LastRead(c)'
  <2>1. Len(sv'[c].pending) = 0
    BY <1>1
  <2> QED BY <2>1 DEF LastRead
\* The queue, and what was sent and delivered, stay as they are.
<1>2. ASSUME sv'[c].pending = sv[c].pending, delivered'[c] = delivered[c],
             cl[c].pc = "done" => cl'[c] = cl[c] /\ sent'[c] = sent[c], up[c] = <<>> /\ cl[c].pc = "done" => up'[c] = <<>>
      PROVE  LastRead(c)'
  BY <1>2 DEF LastRead
\* The head of the queue is taken.
<1>3. ASSUME ClientRests(c), up'[c] = up[c], sv[c].pending # <<>>,
             sv'[c].pending = Tail(sv[c].pending),
             \/ Head(sv[c].pending).type = "Event" /\ Len(delivered'[c]) = Len(delivered[c]) + 1
             \/ Head(sv[c].pending).type # "Event" /\ delivered'[c] = delivered[c]
      PROVE  LastRead(c)'
  <2>1. PICK P \in Seq(Envs) : P = sv[c].pending
    BY <1>0
  <2>2. PICK Q \in Seq(Envs) : Q = Tail(P)
    <3>1. Tail(P) \in Seq(Envs)
      BY <1>3, <2>1
    <3> QED BY <3>1
  <2>3. /\ Len(P) \in Nat /\ Len(Q) = Len(P) - 1
        /\ \A i \in 1..(Len(P) - 1) : Q[i] = P[i + 1]
    BY <1>3, <2>1, <2>2
  <2>4. ASSUME NEW i \in 1..Len(Q), Q[i].type = "Disconnect"
        PROVE  /\ cl'[c].pc = "done" /\ cl'[c].err # "KilledMidFrame"
               /\ i = Len(Q) /\ up'[c] = <<>>
               /\ Linked(Len(delivered'[c]), Len(sent'[c]), sent'[c], Q, <<>>)
    <3>1. i + 1 \in 1..Len(P) /\ P[i + 1].type = "Disconnect" /\ i \in Nat
      BY <2>3, <2>4
    <3>2. /\ cl[c].pc = "done" /\ cl[c].err # "KilledMidFrame"
          /\ i + 1 = Len(P) /\ up[c] = <<>>
          /\ Linked(Len(delivered[c]), Len(sent[c]), sent[c], P, <<>>)
      BY <2>1, <3>1 DEF LastRead
    <3>3. <<>> \in Seq(Piece) /\ P # <<>>
      BY <1>3, <2>1
    <3>4. /\ Head(P).type = "Event" => Linked(Len(delivered[c]) + 1, Len(sent[c]), sent[c], Q, <<>>)
          /\ Head(P).type # "Event" => Linked(Len(delivered[c]), Len(sent[c]), sent[c], Q, <<>>)
      BY <1>0, <2>2, <3>2, <3>3, LinkTake
    <3>5. Linked(Len(delivered'[c]), Len(sent[c]), sent[c], Q, <<>>)
      BY <1>3, <2>1, <3>4
    <3>6. i = Len(Q)
      BY <2>3, <3>1, <3>2
    <3> QED BY <1>3, <3>2, <3>5, <3>6 DEF ClientRests
  <2> QED BY <1>3, <2>1, <2>2, <2>4 DEF LastRead
<1>4. CASE RestMove(c)
  BY <1>2, <1>4 DEF RestMove, ClientRests
<1>5. CASE EndMove(c)
  BY <1>1, <1>5 DEF EndMove, Closes
<1>6. CASE ReadMove(c)
  <2>1. PICK n \in 1..Len(up[c]) :
         /\ up'[c] = SubSeq(up[c], n + 1, Len(up[c]))
         /\ LET envs == Envelopes(SubSeq(up[c], 1, n))
            IN \/ sv'[c].pending = envs
               \/ sv[c].pc = "handshake" /\ sv'[c].pending = sv[c].pending
               \/ envs # <<>> /\ sv'[c].pending = Tail(envs)
    BY <1>6 DEF ReadMove
  <2>2. PICK E : E = Envelopes(SubSeq(up[c], 1, n))
    OBVIOUS
  <2>3. PICK o \in {0, 1} : o = begun(c)
    BY DEF begun
  <2>4. /\ E \in Seq(Envs) /\ (2 * Len(E) = n + o \/ 2 * Len(E) = n + o - 1)
        /\ \A i \in 1..Len(E) : /\ 2 * i - o \in 1..n /\ E[i] = up[c][2 * i - o].env
                                /\ ~up[c][2 * i - o].hdr
    <3>1. /\ E \in Seq(Envs) /\ begun(c) \in {0, 1}
          /\ 2 * Len(E) = n + begun(c) \/ 2 * Len(E) = n + begun(c) - 1
          /\ \A i \in 1..Len(E) : /\ 2 * i - begun(c) \in 1..n
                                  /\ E[i] = up[c][2 * i - begun(c)].env
                                  /\ ~up[c][2 * i - begun(c)].hdr
      BY <2>2, ReadFacts
    <3> QED BY <2>3, <3>1, Zenon
  <2>5. Len(E) \in Nat /\ n \in Nat /\ n <= Len(up[c]) /\ n >= 1
    BY <1>0, <2>4
  \* A Disconnect that is read is the end of what was written.
  <2>6. ASSUME NEW i \in 1..Len(E), E[i].type = "Disconnect"
        PROVE  /\ cl'[c].pc = "done" /\ cl'[c].err # "KilledMidFrame" /\ i = Len(E) /\ up'[c] = <<>>
    <3>1. 2 * i - o \in 1..Len(up[c]) /\ i \in Nat
      BY <1>0, <2>4, <2>5
    <3>2. cl[c].pc = "done" /\ cl[c].err # "KilledMidFrame" /\ 2 * i - o = Len(up[c])
      BY <2>4, <2>6, <3>1 DEF LastSent
    <3>3. 2 * i - o <= n
      BY <2>4
    <3>4. i = Len(E) /\ n = Len(up[c])
      BY <1>0, <2>4, <2>5, <3>1, <3>2, <3>3
    <3>5. up'[c] = <<>>
      <4>1. up'[c] \in Seq(Piece) /\ Len(up'[c]) = 0
        BY <1>0, <2>1, <2>5, <3>4, Behind
      <4> QED BY <4>1
    <3> QED BY <1>6, <3>2, <3>4, <3>5 DEF ReadMove, ClientRests
  <2>7. up[c] # <<>>
    <3>1. Len(up[c]) # 0
      BY <2>5, <1>0
    <3> QED BY <3>1
  <2>8. link'[c] # "lost" /\ ~peer_gone(c)'
    BY <1>6, <2>7 DEF ReadMove, ClientRests, Basic, peer_gone
  <2>9. ASSUME cl'[c].err # "KilledMidFrame", up'[c] = <<>>
        PROVE  Linked(Len(delivered'[c]), Len(sent'[c]), sent'[c], sv'[c].pending, <<>>)
    BY <2>8, <2>9 DEF InOrder, Intact
  <2>10. CASE sv'[c].pending = E
    BY <2>6, <2>9, <2>10 DEF LastRead
  <2>11. CASE E # <<>> /\ sv'[c].pending = Tail(E)
    <3>1. PICK Q \in Seq(Envs) : Q = Tail(E)
      <4>1. Tail(E) \in Seq(Envs)
        BY <2>4, <2>11
      <4> QED BY <4>1
    <3>2. Len(Q) = Len(E) - 1 /\ \A i \in 1..(Len(E) - 1) : Q[i] = E[i + 1]
      BY <2>4, <2>11, <3>1
    <3>3. ASSUME NEW i \in 1..Len(Q), Q[i].type = "Disconnect"
          PROVE  /\ cl'[c].pc = "done" /\ cl'[c].err # "KilledMidFrame" /\ i = Len(Q) /\ up'[c] = <<>>
      <4>1. i + 1 \in 1..Len(E) /\ E[i + 1].type = "Disconnect" /\ i \in Nat
        BY <2>5, <3>2, <3>3
      <4>2. /\ cl'[c].pc = "done" /\ cl'[c].err # "KilledMidFrame" /\ i + 1 = Len(E) /\ up'[c] = <<>>
        BY <2>6, <4>1
      <4> QED BY <2>5, <3>2, <4>1, <4>2
    <3> QED BY <2>9, <2>11, <3>1, <3>3 DEF LastRead
  <2>12. CASE sv[c].pc = "handshake" /\ sv'[c].pending = sv[c].pending
    BY <1>1, <2>12 DEF Basic
  <2> QED BY <2>1, <2>2, <2>10, <2>11, <2>12
<1>7. CASE TakeMove(c)
  <2>1. Closes(c) \/ (up'[c] = up[c] /\ sv'[c].pending = Tail(sv[c].pending))
    BY <1>7 DEF TakeMove
  <2>2. /\ ClientRests(c) /\ sv[c].pending # <<>> /\ Head(sv[c].pending).type = "Event"
    BY <1>7 DEF TakeMove
  <2>3. Len(delivered'[c]) = Len(delivered[c]) + 1
    <3>1. Head(sv[c].pending).data \in Payloads
      BY <1>0, <2>2, EventData
    <3> QED BY <1>0, <1>7, <3>1 DEF TakeMove
  <2> QED BY <1>1, <1>3, <2>1, <2>2, <2>3 DEF Closes
<1>8. CASE SkipMove(c)
  BY <1>3, <1>8 DEF SkipMove
<1>9. CASE StartMove(c) \/ QuietMove(c) \/ StopMove(c) \/ SendMove(c) \/ MidKillMove(c)
  <2>1. cl[c].pc # "done" /\ sv'[c] = sv[c] /\ delivered'[c] = delivered[c]
    BY <1>9 DEF StartMove, QuietMove, StopMove, SendMove, MidKillMove, ServerRests
  <2> QED BY <1>2, <2>1
<1>10. CASE LoseMove(c)
  BY <1>2, <1>10 DEF LoseMove, ServerRests
<1> QED BY <1>4, <1>5, <1>6, <1>7, <1>8, <1>9, <1>10 DEF Moves, ServerMoves, ClientMoves

\* A clean end comes at the end of the stream or at a Disconnect.
LEMMA CleanEndedStep ==
    ASSUME TypeInv, TypeInv', NEW c \in Clients, Basic(c), Framed(c), LastRead(c), CleanEnded(c),
           InOrder(c), Moves(c)
    PROVE  CleanEnded(c)'
<1>0. /\ sv[c] \in ConnState /\ sv[c].pending \in Seq(Envs) /\ Len(sv[c].pending) \in Nat
      /\ sent[c] \in Seq(Payloads) /\ delivered[c] \in Seq(Payloads) /\ Len(delivered[c]) \in Nat
  BY DEF TypeInv, ConnState
\* A session that has ended stays as it is.
<1>1. ASSUME sv'[c].end = sv[c].end, sv[c].end = "Clean" /\ cl[c].pc = "done" /\ peer_gone(c) =>
                cl'[c] = cl[c] /\ sent'[c] = sent[c] /\ delivered'[c] = delivered[c]
      PROVE  CleanEnded(c)'
  BY <1>1 DEF CleanEnded, Basic
<1>2. ASSUME Linked(Len(delivered[c]), Len(sent[c]), sent[c], <<>>, <<>>)
      PROVE  delivered[c] = sent[c]
  <2>1. Len(delivered[c]) = Len(sent[c])
    BY <1>2, LinkSame
  <2>2. \A i \in 1..Len(delivered[c]) : delivered[c][i] = sent[c][i]
    BY DEF InOrder
  <2> QED BY <1>0, <2>1, <2>2, AllDelivered
<1>3. CASE EndMove(c)
  <2>1. CASE sv'[c].end # "Clean"
    BY <2>1 DEF CleanEnded
  <2>2. CASE sv'[c].end = "Clean"
    <3>0. cl'[c] = cl[c] /\ sent'[c] = sent[c] /\ delivered'[c] = delivered[c] /\ ~peer_gone(c)
      BY <1>3 DEF EndMove, ClientRests
    <3>1. CASE /\ sv[c].pending # <<>> /\ Head(sv[c].pending).type = "Disconnect"
      <4>1. 1 \in 1..Len(sv[c].pending) /\ sv[c].pending[1].type = "Disconnect"
        BY <1>0, <3>1
      <4>2. /\ cl[c].pc = "done" /\ cl[c].err # "KilledMidFrame" /\ Len(sv[c].pending) = 1
            /\ Linked(Len(delivered[c]), Len(sent[c]), sent[c], sv[c].pending, <<>>)
        BY <4>1 DEF LastRead
      <4>3. <<>> \in Seq(Piece)
        OBVIOUS
      <4>4. Linked(Len(delivered[c]), Len(sent[c]), sent[c], Tail(sv[c].pending), <<>>)
        BY <1>0, <3>1, <4>2, <4>3, LinkTake
      <4>5. Tail(sv[c].pending) = <<>>
        <5>1. PICK P \in Seq(Envs) : P = sv[c].pending
          BY <1>0
        <5>2. Tail(P) \in Seq(Envs) /\ Len(Tail(P)) = 0
          BY <3>1, <4>2, <5>1
        <5>3. PICK Q \in Seq(Envs) : Q = Tail(P)
          BY <5>2
        <5>4. Q = <<>>
          <6>1. Len(Q) = 0
            BY <5>2, <5>3
          <6> QED BY <6>1
        <5> QED BY <5>1, <5>3, <5>4
      <4>6. delivered[c] = sent[c]
        BY <1>2, <4>4, <4>5
      <4> QED BY <3>0, <4>2, <4>6 DEF CleanEnded
    <3>2. CASE sv[c].pending = <<>> /\ AtEof(c) /\ Eof(sv[c].part) = "Clean"
      <4>1. cl[c].pc = "done" /\ up[c] = <<>> /\ link[c] # "lost"
        BY <3>2 DEF AtEof, Basic
      <4>2. ASSUME cl[c].err # "KilledMidFrame" PROVE delivered[c] = sent[c]
        <5>1. Linked(Len(delivered[c]), Len(sent[c]), sent[c], sv[c].pending, up[c])
          BY <3>0, <4>1, <4>2 DEF InOrder, Intact
        <5> QED BY <1>2, <3>2, <4>1, <5>1
      <4>3. ASSUME Transport = "tcp" PROVE cl[c].err # "KilledMidFrame"
        <5>1. ~sv[c].part
          BY <3>2, <4>3 DEF Eof, TcpEof
        <5>2. Len(up[c]) = 0 /\ begun(c) = 0
          BY <4>1, <5>1 DEF begun
        <5>3. (Len(up[c]) + begun(c)) % 2 = 0
          BY <5>2
        <5> QED BY <3>0, <4>1, <5>3 DEF Framed
      <4> QED BY <3>0, <4>1, <4>2, <4>3 DEF CleanEnded
    <3> QED BY <1>3, <2>2, <3>1, <3>2 DEF EndMove, CleanEnd
  <2> QED BY <2>1, <2>2
<1>4. CASE RestMove(c)
  BY <1>1, <1>4 DEF RestMove, ClientRests
<1>5. CASE ReadMove(c) \/ SkipMove(c)
  BY <1>1, <1>5 DEF ReadMove, SkipMove, ClientRests
<1>6. CASE TakeMove(c)
  <2>1. sv'[c].end = "Storage" \/ sv'[c].end = sv[c].end
    BY <1>6 DEF TakeMove
  <2>2. ~peer_gone(c)
    BY <1>6 DEF TakeMove, peer_gone
  <2>3. CASE sv'[c].end = "Storage"
    BY <2>3 DEF CleanEnded
  <2> QED BY <1>1, <2>1, <2>2, <2>3
<1>7. CASE StartMove(c) \/ QuietMove(c) \/ StopMove(c) \/ SendMove(c) \/ MidKillMove(c)
  <2>1. cl[c].pc # "done" /\ sv'[c] = sv[c]
    BY <1>7 DEF StartMove, QuietMove, StopMove, SendMove, MidKillMove, ServerRests
  <2> QED BY <1>1, <2>1
<1>8. CASE LoseMove(c)
  BY <1>1, <1>8 DEF LoseMove, ServerRests
<1> QED BY <1>3, <1>4, <1>5, <1>6, <1>7, <1>8 DEF Moves, ServerMoves, ClientMoves

Inv3 == Inv2 /\ \A d \in Clients : Goodbye(d)

\* Inv3 holds at the start.
LEMMA InitInv3 == Init => Inv3
<1> SUFFICES ASSUME Init PROVE Inv3
  OBVIOUS
<1>1. Inv2
  BY InitInv2
<1>2. ASSUME NEW d \in Clients PROVE Goodbye(d)
  <2>1. sv[d].pending = <<>> /\ up[d] = <<>> /\ sv[d].end = "none"
    BY DEF Init, ProducerInit, NoConn
  <2>2. Len(sv[d].pending) = 0 /\ Len(up[d]) = 0
    BY <2>1
  <2> QED BY <2>1, <2>2 DEF Goodbye, LastSent, LastRead, CleanEnded
<1> QED BY <1>1, <1>2 DEF Inv3

\* Every step keeps Inv3.
LEMMA NextInv3 ==
    ASSUME NobodyLeavesInScript, Inv3, [Next]_vars
    PROVE  Inv3'
<1>1. Inv2 /\ Inv2' /\ \A d \in Clients : Moves(d)
  BY NextInv2, NextInv0 DEF Inv3, Inv2, Inv1
<1>2. ASSUME NEW d \in Clients PROVE Goodbye(d)'
  <2>1. /\ TypeInv /\ TypeInv' /\ Basic(d) /\ Moves(d) /\ Framed(d) /\ InOrder(d) /\ InOrder(d)'
        /\ LastSent(d) /\ LastRead(d) /\ CleanEnded(d)
    BY <1>1 DEF Inv0, Inv1, Inv2, Inv3, Goodbye
  <2>2. LastSent(d)'
    BY <2>1, LastSentStep
  <2>3. LastRead(d)'
    BY <2>1, LastReadStep
  <2>4. CleanEnded(d)'
    BY <2>1, CleanEndedStep
  <2> QED BY <2>2, <2>3, <2>4 DEF Goodbye
<1> QED BY <1>1, <1>2 DEF Inv3

(***************************************************************************)
(* A session that ends cleanly has passed on all that its producer sent    *)
(* before it closed, on either transport and even if the connection is     *)
(* lost behind the Disconnect, provided that no producer writes on behind  *)
(* a Disconnect (the SDK's disconnect consumes the connection).            *)
(***************************************************************************)
THEOREM CleanMeansAllAlways ==
    ASSUME NobodyLeavesInScript
    PROVE  Spec => []CleanMeansAll
<1>1. Inv3 => CleanMeansAll
  BY DEF Inv3, Goodbye, CleanEnded, CleanMeansAll
<1>2. Inv3 /\ [Next]_vars => Inv3'
  BY NextInv3
<1> QED BY <1>1, <1>2, InitInv3, PTL DEF Spec

(***************************************************************************)
(* Over TCP, a producer that dies in the middle of a frame is never taken  *)
(* for one that closed cleanly.  The Unix adapter does not ask the decoder *)
(* (UnixEof), so the theorem is about TCP alone.                           *)
(***************************************************************************)
THEOREM TruncationReportedAlways ==
    ASSUME Transport = "tcp", NobodyLeavesInScript
    PROVE  Spec => []TruncationReported
<1>1. Inv3 => TruncationReported
  BY DEF Inv3, Goodbye, CleanEnded, TruncationReported
<1>2. Inv3 /\ [Next]_vars => Inv3'
  BY NextInv3
<1> QED BY <1>1, <1>2, InitInv3, PTL DEF Spec

-----------------------------------------------------------------------------
\* The counter events_appended.

\* A counter as incr leaves it: finitely many series, no more than the cap.
GoodMetric(m) ==
    /\ m = [series |-> m.series, overflow |-> m.overflow]
    /\ m.series \in [DOMAIN m.series -> Nat] /\ m.overflow \in Nat
    /\ IsFiniteSet(DOMAIN m.series) /\ IsFiniteSet(Units(m.series))
    /\ Cardinality(DOMAIN m.series) <= MAX_SERIES_PER_METRIC

\* One more in a series, old or new, is one more unit.
LEMMA UnitsGain ==
    ASSUME NEW f, NEW g, NEW k, NEW n \in Nat, f \in [DOMAIN f -> Nat],
           DOMAIN g = DOMAIN f \cup {k}, k \in DOMAIN f => n = f[k], k \notin DOMAIN f => n = 0,
           g[k] = n + 1, \A j \in DOMAIN f : j # k => g[j] = f[j]
    PROVE  Units(g) = Units(f) \cup {<<k, n + 1>>} /\ <<k, n + 1>> \notin Units(f)
<1>1. ASSUME NEW h, NEW u
      PROVE  u \in Units(h) <=> \E j \in DOMAIN h : \E i \in 1..h[j] : u = <<j, i>>
  BY DEF Units
<1>2. ASSUME NEW u \in Units(g) PROVE u \in Units(f) \cup {<<k, n + 1>>}
  <2>0. PICK j \in DOMAIN g : \E i \in 1..g[j] : u = <<j, i>>
    BY <1>1, <1>2
  <2>1. PICK i \in 1..g[j] : u = <<j, i>>
    BY <2>0
  <2>2. CASE j # k
    <3>1. j \in DOMAIN f /\ g[j] = f[j]
      BY <2>2
    <3> QED BY <1>1, <2>1, <3>1
  <2>3. CASE j = k /\ i = n + 1
    BY <2>1, <2>3
  <2>4. CASE j = k /\ i # n + 1
    <3>1. g[j] = n + 1 /\ i \in 1..n
      BY <2>1, <2>4
    <3>2. k \in DOMAIN f /\ f[k] = n
      BY <3>1
    <3> QED BY <1>1, <2>1, <2>4, <3>1, <3>2
  <2> QED BY <2>2, <2>3, <2>4
<1>3. ASSUME NEW u \in Units(f) PROVE u \in Units(g) /\ u # <<k, n + 1>>
  <2>0. PICK j \in DOMAIN f : \E i \in 1..f[j] : u = <<j, i>>
    BY <1>1, <1>3
  <2>1. PICK i \in 1..f[j] : u = <<j, i>>
    BY <2>0
  <2>2. j \in DOMAIN g /\ f[j] \in Nat /\ (j = k => f[j] = n)
    BY <2>1
  <2>3. i \in 1..g[j]
    BY <2>1, <2>2
  <2>4. u \in Units(g)
    BY <1>1, <2>1, <2>2, <2>3
  <2>5. u # <<k, n + 1>>
    BY <2>1, <2>2
  <2> QED BY <2>4, <2>5
<1>4. <<k, n + 1>> \in Units(g)
  <2>1. k \in DOMAIN g /\ n + 1 \in 1..g[k]
    OBVIOUS
  <2> QED BY <1>1, <2>1
<1> QED BY <1>2, <1>3, <1>4

\* A series that gains one, under a cap that leaves room for it.
LEMMA SeriesGain ==
    ASSUME NEW m, GoodMetric(m), NEW g, NEW k, NEW n \in Nat,
           DOMAIN g = DOMAIN m.series \cup {k}, g \in [DOMAIN g -> Nat],
           k \in DOMAIN m.series => n = m.series[k], k \notin DOMAIN m.series => n = 0,
           g[k] = n + 1, \A j \in DOMAIN m.series : j # k => g[j] = m.series[j],
           k \in DOMAIN m.series \/ Cardinality(DOMAIN m.series) < MAX_SERIES_PER_METRIC,
           NEW r, r = [series |-> g, overflow |-> m.overflow]
    PROVE  GoodMetric(r) /\ render(r) = render(m) + 1
<1> DEFINE f == m.series
<1>1. f \in [DOMAIN f -> Nat] /\ m.overflow \in Nat /\ IsFiniteSet(DOMAIN f) /\ IsFiniteSet(Units(f))
      /\ Cardinality(DOMAIN f) <= MAX_SERIES_PER_METRIC
  BY DEF GoodMetric
<1>2. r.series = g /\ r.overflow = m.overflow /\ r = [series |-> r.series, overflow |-> r.overflow]
  OBVIOUS
<1>3. DOMAIN g = DOMAIN f \cup {k} /\ (k \in DOMAIN f => n = f[k]) /\ (k \notin DOMAIN f => n = 0)
      /\ (k \in DOMAIN f \/ Cardinality(DOMAIN f) < MAX_SERIES_PER_METRIC)
      /\ g[k] = n + 1 /\ \A j \in DOMAIN f : j # k => g[j] = f[j]
  OBVIOUS
<1>4. render(m) = Cardinality(Units(f)) + m.overflow /\ render(r) = Cardinality(Units(g)) + m.overflow
  BY <1>2 DEF render
<1> HIDE DEF f
<1>5. Units(g) = Units(f) \cup {<<k, n + 1>>} /\ <<k, n + 1>> \notin Units(f)
  BY <1>1, <1>3, UnitsGain
<1>6. IsFiniteSet(Units(g)) /\ Cardinality(Units(g)) = Cardinality(Units(f)) + 1
  <2>1. ASSUME NEW U, NEW V, NEW x, V = U \cup {x}, x \notin U, IsFiniteSet(U)
        PROVE  IsFiniteSet(V) /\ Cardinality(V) = Cardinality(U) + 1
    BY <2>1, FS_AddElement
  <2> QED BY <1>1, <1>5, <2>1
<1>7. IsFiniteSet(DOMAIN g) /\ Cardinality(DOMAIN g)
        = IF k \in DOMAIN f THEN Cardinality(DOMAIN f) ELSE Cardinality(DOMAIN f) + 1
  BY <1>1, <1>3, FS_AddElement
<1>8. Cardinality(DOMAIN f) \in Nat /\ Cardinality(Units(f)) \in Nat
  BY <1>1, FS_CardinalityType
<1>9. Cardinality(DOMAIN g) <= MAX_SERIES_PER_METRIC
  BY <1>1, <1>3, <1>7, <1>8, MetricsAssumption
<1>10. GoodMetric(r)
  BY <1>1, <1>2, <1>6, <1>7, <1>9 DEF GoodMetric
<1> QED BY <1>1, <1>4, <1>6, <1>8, <1>10

\* fetch_add counts one.
LEMMA FetchAddCounts ==
    ASSUME NEW m, GoodMetric(m), NEW key, HasSeries(m, key)
    PROVE  GoodMetric(fetch_add(m, key, 1)) /\ render(fetch_add(m, key, 1)) = render(m) + 1
<1> DEFINE g == [m.series EXCEPT ![key] = @ + 1]
           r == [series |-> g, overflow |-> m.overflow]
<1>1. m = [series |-> m.series, overflow |-> m.overflow]
      /\ m.series \in [DOMAIN m.series -> Nat] /\ key \in DOMAIN m.series
  BY DEF GoodMetric, HasSeries
<1>2. fetch_add(m, key, 1) = r
  BY <1>1 DEF fetch_add
<1>3. m.series[key] \in Nat /\ DOMAIN g = DOMAIN m.series \cup {key} /\ g \in [DOMAIN g -> Nat]
      /\ g[key] = m.series[key] + 1 /\ \A j \in DOMAIN m.series : j # key => g[j] = m.series[j]
  BY <1>1
<1> HIDE DEF g
<1>4. GoodMetric(r) /\ render(r) = render(m) + 1
  BY <1>1, <1>3, SeriesGain
<1> QED BY <1>2, <1>4

\* So does the part of incr under the write lock, whatever came in between.
LEMMA AddLockedCounts ==
    ASSUME NEW m, GoodMetric(m), NEW key
    PROVE  GoodMetric(add_locked(m, key, 1)) /\ render(add_locked(m, key, 1)) = render(m) + 1
<1>0. m = [series |-> m.series, overflow |-> m.overflow] /\ m.overflow \in Nat
      /\ m.series \in [DOMAIN m.series -> Nat] /\ IsFiniteSet(Units(m.series))
      /\ IsFiniteSet(DOMAIN m.series) /\ Cardinality(DOMAIN m.series) <= MAX_SERIES_PER_METRIC
  BY DEF GoodMetric
<1>1. CASE HasSeries(m, key)
  BY <1>1, FetchAddCounts DEF add_locked
<1>2. CASE ~HasSeries(m, key) /\ Cardinality(DOMAIN m.series) >= MAX_SERIES_PER_METRIC
  <2> DEFINE r == [series |-> m.series, overflow |-> m.overflow + 1]
  <2>1. add_locked(m, key, 1) = r
    BY <1>0, <1>2 DEF add_locked
  <2>2. r = [series |-> r.series, overflow |-> r.overflow]
        /\ r.series = m.series /\ r.overflow = m.overflow + 1
    OBVIOUS
  <2>3. Cardinality(Units(m.series)) \in Nat
    BY <1>0, FS_CardinalityType
  <2> HIDE DEF r
  <2>4. GoodMetric(r)
    BY <1>0, <2>2 DEF GoodMetric
  <2>5. render(r) = render(m) + 1
    BY <1>0, <2>2, <2>3 DEF render
  <2> QED BY <2>1, <2>4, <2>5
<1>3. CASE ~HasSeries(m, key) /\ ~(Cardinality(DOMAIN m.series) >= MAX_SERIES_PER_METRIC)
  <2> DEFINE g == [k \in DOMAIN m.series \cup {key} |-> IF k = key THEN 1 ELSE m.series[k]]
             r == [series |-> g, overflow |-> m.overflow]
  <2>1. add_locked(m, key, 1) = r
    BY <1>0, <1>3 DEF add_locked
  <2>2. key \notin DOMAIN m.series /\ Cardinality(DOMAIN m.series) < MAX_SERIES_PER_METRIC
    BY <1>0, <1>3, FS_CardinalityType, MetricsAssumption DEF HasSeries
  <2>3. DOMAIN g = DOMAIN m.series \cup {key} /\ g \in [DOMAIN g -> Nat]
        /\ g[key] = 0 + 1 /\ \A j \in DOMAIN m.series : j # key => g[j] = m.series[j]
    BY <1>0
  <2> HIDE DEF g
  <2>4. GoodMetric(r) /\ render(r) = render(m) + 1
    BY <2>2, <2>3, SeriesGain
  <2> QED BY <2>1, <2>4
<1> QED BY <1>1, <1>2, <1>3

\* The sessions between append_event and the end of its metering.
MeterPc == {"meter_read", "meter_write"}
Metering == {c \in Clients : sv[c].pc \in MeterPc}

CountInv ==
    /\ GoodMetric(appended) /\ stored \in Nat
    /\ stored = render(appended) + Cardinality(Metering)

\* What the invariant says, for the value of the counter in the next state.
LEMMA CountNow ==
    ASSUME NEW m, appended' = m, GoodMetric(m), stored' \in Nat,
           stored' = render(m) + Cardinality(Metering')
    PROVE  CountInv'
BY DEF CountInv

\* Nothing is stored or counted, and no session begins or ends its metering.
LEMMA CountStays ==
    ASSUME CountInv, stored' = stored, appended' = appended,
           \A d \in Clients : sv'[d].pc \in MeterPc <=> sv[d].pc \in MeterPc
    PROVE  CountInv'
<1>1. Metering' = Metering
  BY DEF Metering
<1> QED BY <1>1 DEF CountInv

\* A connection that is not metering moves and still is not.
LEMMA CountIdle ==
    ASSUME Inv0, CountInv, NEW c \in Clients, NEW r, sv' = [sv EXCEPT ![c] = r],
           stored' = stored, appended' = appended, sv[c].pc \in MeterPc <=> r.pc \in MeterPc
    PROVE  CountInv'
<1>1. sv'[c] = r /\ \A d \in Clients : d # c => sv'[d] = sv[d]
  BY DEF Inv0, TypeInv
<1> QED BY <1>1, CountStays

\* An event is stored: it is counted when its session has left the metering.
LEMMA CountStored ==
    ASSUME Inv0, CountInv, NEW c \in Clients, NEW r, sv' = [sv EXCEPT ![c] = r],
           stored' = stored + 1, appended' = appended, sv[c].pc \notin MeterPc, r.pc \in MeterPc
    PROVE  CountInv'
<1>1. sv'[c] = r /\ \A d \in Clients : d # c => sv'[d] = sv[d]
  BY DEF Inv0, TypeInv
<1>2. Metering' = Metering \cup {c} /\ c \notin Metering
  BY <1>1 DEF Metering
<1>3. IsFiniteSet(Metering) /\ Cardinality(Metering) \in Nat
  BY ProducerAssumption, FS_Subset, FS_CardinalityType DEF Metering
<1>4. Cardinality(Metering') = Cardinality(Metering) + 1
  BY <1>2, <1>3, FS_AddElement
<1>5. PICK m : m = appended
  OBVIOUS
<1>6. GoodMetric(m) /\ stored \in Nat /\ stored = render(m) + Cardinality(Metering)
  BY <1>5 DEF CountInv
<1>7. render(m) \in Nat
  <2>1. m.overflow \in Nat /\ Cardinality(Units(m.series)) \in Nat
    BY <1>6, FS_CardinalityType DEF GoodMetric
  <2> QED BY <2>1 DEF render
<1>8. stored' = render(m) + Cardinality(Metering') /\ stored' \in Nat
  BY <1>3, <1>4, <1>6, <1>7
<1> QED BY <1>5, <1>6, <1>8, CountNow

\* An event is counted.
LEMMA CountCounted ==
    ASSUME Inv0, CountInv, NEW c \in Clients, NEW r, sv' = [sv EXCEPT ![c] = r], stored' = stored,
           NEW a, a = appended, NEW m, appended' = m, GoodMetric(m), render(m) = render(a) + 1,
           sv[c].pc \in MeterPc, r.pc \notin MeterPc
    PROVE  CountInv'
<1>1. sv'[c] = r /\ \A d \in Clients : d # c => sv'[d] = sv[d]
  BY DEF Inv0, TypeInv
<1>2. Metering' = Metering \ {c} /\ c \in Metering
  BY <1>1 DEF Metering
<1>3. IsFiniteSet(Metering) /\ Cardinality(Metering) \in Nat
  BY ProducerAssumption, FS_Subset, FS_CardinalityType DEF Metering
<1>4. Cardinality(Metering') = Cardinality(Metering) - 1
  BY <1>2, <1>3, FS_RemoveElement
<1>6. GoodMetric(a) /\ stored \in Nat /\ stored = render(a) + Cardinality(Metering)
  BY DEF CountInv
<1>7. render(a) \in Nat
  <2>1. a.overflow \in Nat /\ Cardinality(Units(a.series)) \in Nat
    BY <1>6, FS_CardinalityType DEF GoodMetric
  <2> QED BY <2>1 DEF render
<1>8. stored' = render(m) + Cardinality(Metering') /\ stored' \in Nat
  BY <1>3, <1>4, <1>6, <1>7
<1> QED BY <1>8, CountNow

\* Accepting, admitting, reading and ending a connection leave the counter alone.
LEMMA CountGoes ==
    ASSUME Inv0, CountInv, NEW c \in Clients, NEW pc \in {"tls", "handshake", "session"}, Goes(c, pc),
           sv[c].pc \notin MeterPc, stored' = stored, appended' = appended
    PROVE  CountInv'
<1> DEFINE r == [sv[c] EXCEPT !.pc = pc]
<1>1. sv[c] \in ConnState
  BY DEF Inv0, TypeInv
<1>2. pc \in {"none", "tls", "handshake", "finished", "gone"} \cup LivePc /\ pc \notin MeterPc
  BY DEF LivePc, MeterPc
<1>3. r.pc \notin MeterPc
  BY <1>1, <1>2, PcFacts
<1>4. sv' = [sv EXCEPT ![c] = r]
  BY DEF Goes, Serve
<1> HIDE DEF r
<1> QED BY <1>3, <1>4, CountIdle

\* A connection that ends is not between its append and its meter.
LEMMA CountEnded ==
    ASSUME Inv0, CountInv, NEW c \in Clients, NEW end \in {"Clean", "Decode", "Handshake", "Io", "Storage"},
           Finish(c, end, up) \/ AcceptErr(c, end, up),
           sv[c].pc \notin MeterPc, stored' = stored, appended' = appended
    PROVE  CountInv'
<1>1. sv[c] \in ConnState
  BY DEF Inv0, TypeInv
<1>2. PICK pc \in {"finished", "gone"} : sv' = [sv EXCEPT ![c] = Ended(sv[c], pc, end)]
  BY DEF Finish, AcceptErr, Serve
<1> DEFINE r == Ended(sv[c], pc, end)
<1>3. r.pc = pc
  BY <1>1, EndedFacts
<1>4. r.pc \notin MeterPc /\ sv' = [sv EXCEPT ![c] = r]
  BY <1>2, <1>3 DEF MeterPc
<1> HIDE DEF r
<1> QED BY <1>4, CountIdle

\* A handshake meters nothing.
LEMMA CountHandshake ==
    ASSUME Inv0, CountInv, NEW c \in Clients, handshake(c)
    PROVE  CountInv'
<1>0. sv[c].pc \notin MeterPc /\ stored' = stored /\ appended' = appended
  BY DEF handshake, MeterPc, Calm
<1>1. PICK chunk \in Chunks(c) :
         \/ AcceptErr(c, "Decode", up)
         \/ AcceptErr(c, "Handshake", up)
         \/ Serve([sv EXCEPT ![c].part = has_pending(chunk)], Unread(c, chunk))
         \/ Admit(c, chunk)
  BY DEF handshake, Reply
<1> DEFINE p == has_pending(chunk)
           tl == Tail(Envelopes(chunk))
<1>2. sv[c] \in ConnState
  BY DEF Inv0, TypeInv
<1>3. CASE AcceptErr(c, "Decode", up) \/ AcceptErr(c, "Handshake", up)
  BY <1>0, <1>3, CountEnded
<1>4. CASE Serve([sv EXCEPT ![c].part = p], Unread(c, chunk))
  <2> DEFINE r == [sv[c] EXCEPT !.part = p]
  <2>1. sv' = [sv EXCEPT ![c] = r]
    BY <1>4 DEF Serve
  <2> HIDE DEF p
  <2>2. r.pc = sv[c].pc
    BY <1>2 DEF ConnState
  <2> HIDE DEF r
  <2> QED BY <1>0, <2>1, <2>2, CountIdle
<1>5. CASE Admit(c, chunk)
  <2> DEFINE r == [sv[c] EXCEPT !.pc = "spawned", !.part = p, !.pending = tl]
  <2>1. sv' = [sv EXCEPT ![c] = r]
    BY <1>5 DEF Admit, Serve
  <2> HIDE DEF p, tl
  <2>2. r.pc = "spawned" /\ r.pc \notin MeterPc
    BY <1>2 DEF ConnState, MeterPc
  <2> HIDE DEF r
  <2> QED BY <1>0, <2>1, <2>2, CountIdle
<1> QED BY <1>1, <1>3, <1>4, <1>5

\* Reading the next frame meters nothing.
LEMMA CountFill ==
    ASSUME Inv0, CountInv, NEW c \in Clients, fill_pending(c)
    PROVE  CountInv'
<1>0. sv[c].pc \notin MeterPc /\ stored' = stored /\ appended' = appended
  BY DEF fill_pending, MeterPc, Calm
<1>1. PICK chunk \in Chunks(c) :
         \/ Finish(c, "Decode", up)
         \/ Serve([sv EXCEPT ![c].pending = Envelopes(chunk), ![c].part = has_pending(chunk)],
                  Unread(c, chunk))
  BY DEF fill_pending
<1> DEFINE E == Envelopes(chunk)
           p == has_pending(chunk)
           r == [sv[c] EXCEPT !.pending = E, !.part = p]
<1>2. sv[c] \in ConnState
  BY DEF Inv0, TypeInv
<1>3. CASE Finish(c, "Decode", up)
  BY <1>0, <1>3, CountEnded
<1>4. CASE Serve([sv EXCEPT ![c].pending = E, ![c].part = p], Unread(c, chunk))
  <2>1. sv' = [sv EXCEPT ![c].pending = E, ![c].part = p]
    BY <1>4 DEF Serve
  <2>2. [sv EXCEPT ![c].pending = E, ![c].part = p] = [sv EXCEPT ![c] = r]
    BY DEF Inv0, TypeInv
  <2> HIDE DEF E, p
  <2>3. r.pc = sv[c].pc
    BY <1>2 DEF ConnState
  <2> HIDE DEF r
  <2> QED BY <1>0, <2>1, <2>2, <2>3, CountIdle
<1> QED BY <1>1, <1>3, <1>4

\* next_event: what is stored goes to the metering.
LEMMA CountNextEvent ==
    ASSUME Inv0, CountInv, NEW c \in Clients, next_event(c)
    PROVE  CountInv'
<1> DEFINE tl == Tail(sv[c].pending)
<1>0. sv[c].pc \notin MeterPc /\ appended' = appended
  BY DEF next_event, MeterPc, Calm
<1>1. sv[c] \in ConnState
  BY DEF Inv0, TypeInv
<1>2. \/ (Finish(c, "Clean", up) \/ Finish(c, "Decode", up) \/ Finish(c, "Storage", up)) /\ stored' = stored
      \/ Serve([sv EXCEPT ![c].pending = tl], up) /\ stored' = stored
      \/ /\ Serve([sv EXCEPT ![c] = [sv[c] EXCEPT !.pc = "meter_read", !.pending = tl]], up)
         /\ stored' = stored + 1
  BY DEF next_event, append_event
<1>3. CASE (Finish(c, "Clean", up) \/ Finish(c, "Decode", up) \/ Finish(c, "Storage", up)) /\ stored' = stored
  BY <1>0, <1>3, CountEnded
<1>4. CASE Serve([sv EXCEPT ![c].pending = tl], up) /\ stored' = stored
  <2> DEFINE r == [sv[c] EXCEPT !.pending = tl]
  <2>1. sv' = [sv EXCEPT ![c] = r]
    BY <1>4 DEF Serve
  <2> HIDE DEF tl
  <2>2. r.pc = sv[c].pc
    BY <1>1 DEF ConnState
  <2> HIDE DEF r
  <2> QED BY <1>0, <1>4, <2>1, <2>2, CountIdle
<1>5. CASE /\ Serve([sv EXCEPT ![c] = [sv[c] EXCEPT !.pc = "meter_read", !.pending = tl]], up)
           /\ stored' = stored + 1
  <2> DEFINE r == [sv[c] EXCEPT !.pc = "meter_read", !.pending = tl]
  <2>1. sv' = [sv EXCEPT ![c] = r]
    BY <1>5 DEF Serve
  <2> HIDE DEF tl
  <2>2. r.pc = "meter_read" /\ r.pc \in MeterPc
    BY <1>1 DEF ConnState, MeterPc
  <2> HIDE DEF r
  <2> QED BY <1>0, <1>5, <2>1, <2>2, CountStored
<1> QED BY <1>2, <1>3, <1>4, <1>5

\* The two halves of incr.
LEMMA CountIncr ==
    ASSUME Inv0, CountInv, NEW c \in Clients, incr(c) \/ IncrLocked(c)
    PROVE  CountInv'
<1>0. sv[c] \in ConnState /\ sv[c].pc \in MeterPc /\ stored' = stored
  BY DEF Inv0, TypeInv, incr, IncrLocked, MeterPc
<1>1. PICK a, key : a = appended /\ key = Key(c)
  OBVIOUS
<1>2. GoodMetric(a)
  BY <1>1 DEF CountInv
<1>3. ASSUME NEW m, appended' = m, GoodMetric(m), render(m) = render(a) + 1, Goes(c, "session")
      PROVE  CountInv'
  <2> DEFINE r == [sv[c] EXCEPT !.pc = "session"]
  <2>1. r.pc = "session" /\ r.pc \notin MeterPc
    BY <1>0 DEF ConnState, MeterPc
  <2>2. sv' = [sv EXCEPT ![c] = r]
    BY <1>3 DEF Goes, Serve
  <2> HIDE DEF r
  <2> QED BY <1>0, <1>1, <1>3, <2>1, <2>2, CountCounted
<1>4. ASSUME appended' = appended, Goes(c, "meter_write") PROVE CountInv'
  <2> DEFINE r == [sv[c] EXCEPT !.pc = "meter_write"]
  <2>1. r.pc = "meter_write" /\ r.pc \in MeterPc
    BY <1>0 DEF ConnState, MeterPc
  <2>2. sv' = [sv EXCEPT ![c] = r]
    BY <1>4 DEF Goes, Serve
  <2> HIDE DEF r
  <2> QED BY <1>0, <1>4, <2>1, <2>2, CountIdle
<1>5. \/ HasSeries(a, key) /\ appended' = fetch_add(a, key, 1) /\ Goes(c, "session")
      \/ appended' = appended /\ Goes(c, "meter_write")
      \/ appended' = add_locked(a, key, 1) /\ Goes(c, "session")
  BY <1>1 DEF incr, IncrLocked
<1>6. CASE HasSeries(a, key) /\ appended' = fetch_add(a, key, 1) /\ Goes(c, "session")
  BY <1>2, <1>3, <1>6, FetchAddCounts
<1>7. CASE appended' = add_locked(a, key, 1) /\ Goes(c, "session")
  BY <1>2, <1>3, <1>7, AddLockedCounts
<1> QED BY <1>4, <1>5, <1>6, <1>7

\* Every step counts what it stores.
LEMMA CountNext ==
    ASSUME Inv0, CountInv, [Next]_vars
    PROVE  CountInv'
<1>0. ASSUME NEW d \in Clients PROVE sv[d] \in ConnState
  BY DEF Inv0, TypeInv
<1>1. ASSUME sv' = sv, stored' = stored, appended' = appended PROVE CountInv'
  BY <1>1, CountStays
<1>2. ASSUME NEW cs, \A d \in cs : sv[d].pc = "finished", Serve(Joined(cs), up),
             stored' = stored, appended' = appended
      PROVE  CountInv'
  <2>1. ASSUME NEW d \in Clients PROVE sv'[d].pc \in MeterPc <=> sv[d].pc \in MeterPc
    <3>1. sv'[d] = IF d \in InHandshake THEN Ended(sv[d], "gone", "Cancelled")
                   ELSE IF d \in cs THEN [sv[d] EXCEPT !.pc = "gone"] ELSE sv[d]
      BY <1>2 DEF Serve, Joined
    <3>2. Ended(sv[d], "gone", "Cancelled").pc = "gone" /\ [sv[d] EXCEPT !.pc = "gone"].pc = "gone"
      BY <1>0, EndedFacts, PcFacts
    <3> QED BY <1>2, <3>1, <3>2 DEF InHandshake, MeterPc
  <2> QED BY <1>2, <2>1, CountStays
<1>3. CASE Return
  <2>1. /\ sv' = [c \in Clients |-> IF c \in Live \/ Connected(c) THEN Ended(sv[c], "gone", "Aborted")
                                    ELSE sv[c]]
        /\ stored' = stored /\ appended' = appended /\ MayReturn
    BY <1>3 DEF Return, Serve
  <2>2. ASSUME NEW d \in Clients PROVE sv[d].pc \notin MeterPc /\ sv'[d].pc \notin MeterPc
    <3>1. Ended(sv[d], "gone", "Aborted").pc = "gone"
      BY <1>0, EndedFacts
    <3>2. sv'[d] = IF d \in Live \/ Connected(d) THEN Ended(sv[d], "gone", "Aborted") ELSE sv[d]
      BY <2>1
    <3>3. sv[d].pc \notin MeterPc
      BY <2>1 DEF MayReturn, Live, MeterPc
    <3>4. "gone" \notin MeterPc
      BY DEF MeterPc
    <3> QED BY <3>1, <3>2, <3>3, <3>4
  <2> QED BY <2>1, <2>2, CountStays
<1>4. ASSUME NEW c \in Clients, SessionStep(c) PROVE CountInv'
  <2>1. CASE SessionEnds(c)
    <3>1. Eof(sv[c].part) \in {"Clean", "Decode"}
      BY DEF Eof, UnixEof, TcpEof
    <3>2. sv[c].pc \notin MeterPc /\ stored' = stored /\ appended' = appended
      BY <2>1 DEF SessionEnds, MeterPc, Calm
    <3> QED BY <2>1, <3>1, <3>2, CountEnded DEF SessionEnds
  <2>2. CASE Poll(c)
    <3>1. sv[c].pc \notin MeterPc /\ stored' = stored /\ appended' = appended /\ Goes(c, "session")
      BY <2>2 DEF Poll, MeterPc, Calm
    <3> QED BY <3>1, CountGoes
  <2> QED BY <1>4, <2>1, <2>2, CountFill, CountNextEvent, CountIncr DEF SessionStep
<1>5. ASSUME NEW c \in Clients, accept(c) \/ HandshakeStep(c) PROVE CountInv'
  <2>0. ASSUME NEW pc \in {"tls", "handshake"}, Goes(c, pc), sv[c].pc \in {"none", "tls"},
               stored' = stored, appended' = appended
        PROVE  CountInv'
    <3>1. sv[c].pc \notin MeterPc /\ pc \in {"tls", "handshake", "session"}
      BY <2>0 DEF MeterPc
    <3> QED BY <2>0, <3>1, CountGoes
  <2>1. CASE accept(c)
    BY <2>0, <2>1 DEF accept, Connected, Calm
  <2>2. ASSUME NEW end \in {"Handshake", "Decode", "Io"}, AcceptErr(c, end, up),
               sv[c].pc \in {"tls", "handshake"}, stored' = stored, appended' = appended
        PROVE  CountInv'
    <3>1. end \in {"Clean", "Decode", "Handshake", "Io", "Storage"} /\ sv[c].pc \notin MeterPc
      BY <2>2 DEF MeterPc
    <3> QED BY <2>2, <3>1, CountEnded
  <2>3. CASE TlsAccept(c)
    BY <2>0, <2>2, <2>3 DEF TlsAccept, Calm
  <2>4. CASE Timeout(c)
    BY <2>2, <2>4 DEF Timeout, InHandshake, Calm
  <2>5. CASE HandshakeEnds(c)
    BY <2>2, <2>5 DEF HandshakeEnds, Calm
  <2> QED BY <1>5, <2>1, <2>3, <2>4, <2>5, CountHandshake DEF HandshakeStep
<1>6. CASE UNCHANGED vars
  BY <1>1, <1>6 DEF vars, serverVars
<1>7. CASE \E c \in Clients : (ClientStep(c) \/ ClientChoice(c)) /\ UNCHANGED serverVars
  BY <1>1, <1>7 DEF serverVars
<1>8. CASE Signal
  BY <1>1, <1>8 DEF Signal, Serve
<1>9. CASE StopAccepting
  BY <1>2, <1>9 DEF StopAccepting
<1>10. ASSUME NEW c \in Clients, Reap(c) \/ Drain(c) PROVE CountInv'
  <2>1. sv[c].pc = "finished" /\ Serve(Joined({c}), up) /\ stored' = stored /\ appended' = appended
    BY <1>10 DEF Reap, Drain, Calm
  <2> QED BY <1>2, <2>1
<1>11. CASE ListenerStep
  BY <1>3, <1>5, <1>9, <1>10, <1>11 DEF ListenerStep
<1> QED BY <1>4, <1>6, <1>7, <1>8, <1>11 DEF Next

(***************************************************************************)
(* events_appended with its overflow sibling counts every stored event     *)
(* once, events still on their way through incr aside, for any number of   *)
(* sessions that look a label set up, insert it or find the map full       *)
(* between each other's locks; the map never outgrows the cap.             *)
(***************************************************************************)
THEOREM CountedOnceAlways == Spec => []CountedOnce
<1>1. Init => CountInv
  <2> SUFFICES ASSUME Init PROVE CountInv
    OBVIOUS
  <2>1. Metering = {}
    BY DEF Init, Metering, MeterPc, NoConn
  <2> DEFINE f == [k \in {} |-> 0]
             m == [series |-> f, overflow |-> 0]
  <2>2. DOMAIN f = {} /\ f \in [DOMAIN f -> Nat]
    OBVIOUS
  <2>3. Units(f) = {}
    BY DEF Units
  <2>4. m = [series |-> m.series, overflow |-> m.overflow] /\ m.series = f /\ m.overflow = 0
    OBVIOUS
  <2>5. appended = m /\ stored = 0
    BY DEF Init, NoSeries
  <2> HIDE DEF m, f
  <2>6. GoodMetric(m)
    <3>1. m.series \in [DOMAIN m.series -> Nat] /\ m.overflow \in Nat
      BY <2>2, <2>4
    <3>2. IsFiniteSet(DOMAIN m.series) /\ IsFiniteSet(Units(m.series))
      BY <2>2, <2>3, <2>4, FS_EmptySet
    <3>3. Cardinality(DOMAIN m.series) = 0
      BY <2>2, <2>4, FS_EmptySet
    <3>4. Cardinality(DOMAIN m.series) <= MAX_SERIES_PER_METRIC
      BY <3>3, MetricsAssumption
    <3> QED BY <2>4, <3>1, <3>2, <3>4 DEF GoodMetric
  <2>7. render(m) = 0
    BY <2>3, <2>4, FS_EmptySet DEF render
  <2> QED BY <2>1, <2>5, <2>6, <2>7, FS_EmptySet DEF CountInv
<1>2. Inv0 /\ CountInv /\ [Next]_vars => Inv0' /\ CountInv'
  BY NextInv0, CountNext
<1>3. CountInv => CountedOnce
  BY DEF CountInv, CountedOnce, GoodMetric, Metering, MeterPc
<1> QED BY <1>1, <1>2, <1>3, InitInv0, PTL DEF Spec

=============================================================================
