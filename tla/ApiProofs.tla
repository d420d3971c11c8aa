----------------------------- MODULE ApiProofs -----------------------------
(***************************************************************************)
(* Theorems about the reference log and the API's read side, for every     *)
(* number of readers, clients, batches, page sizes and token rotations:    *)
(* the log implements the port, readers get every entry once and in order, *)
(* and a page tells its client the truth about the tail.                   *)
(***************************************************************************)
EXTENDS Api, SequenceTheorems, TLAPS

Entry == Port!Entry

\* Offsets are positions, and the boundary lies within the log.
LogOK ==
    /\ entries \in Seq(Entry)
    /\ \A i \in 1..Len(entries) : entries[i].off = i - 1
    /\ earliest_retained = None \/ earliest_retained \in Nat
    /\ Boundary <= Len(entries)

IsSub(s) ==
    /\ s = [pc |-> s.pc, cursor |-> s.cursor, woken |-> s.woken, err |-> s.err]
    /\ s.cursor \in Nat

\* A RetentionExpired that was returned names an offset the reader has not passed.
ErrOK(s) ==
    s.err.expired /\ s.err.earliest_available # None =>
        /\ s.err.earliest_available \in Nat
        /\ s.cursor <= s.err.earliest_available
        /\ s.err.earliest_available <= Boundary

SubOK ==
    /\ sub = [r \in Readers |-> sub[r]]
    /\ \A r \in Readers : IsSub(sub[r]) /\ sub[r].cursor <= Len(entries) /\ ErrOK(sub[r])

\* What a reader with cursor c that was given g has read of log, evicted below b.
Reads(log, b, g, c) ==
    /\ g \in Seq(Entry)
    /\ \A i \in 1..Len(g) : g[i].off < c /\ g[i] = log[g[i].off + 1]
    /\ \A i, j \in 1..Len(g) : i < j => g[i].off < g[j].off
    /\ \A o \in 0..(c - 1) : o < b \/ \E i \in 1..Len(g) : g[i].off = o

GotOK ==
    /\ got = [r \in Readers |-> got[r]]
    /\ \A r \in Readers : Reads(entries, Boundary, got[r], sub[r].cursor)

IsConn(c) ==
    /\ c = [pc |-> c.pc, op |-> c.op, limit |-> c.limit, requests |-> c.requests,
            status |-> c.status, latest |-> c.latest, tail |-> c.tail]
    /\ c.limit \in Nat

\* Only a stream may be holding an error; a page that was served is no longer in flight.
ConnOK ==
    /\ conn = [c \in Clients |-> conn[c]]
    /\ \A c \in Clients :
          /\ IsConn(conn[c])
          /\ conn[c].pc # "stream" => ~sub[c].err.expired
          /\ conn[c].op = "page" /\ conn[c].status = 200 => conn[c].pc = "none"
          /\ conn[c].op = "page" => conn[c].pc # "stream"

MemInv == LogOK /\ SubOK /\ GotOK
ApiInv == MemInv /\ ConnOK /\ CaughtUp

-----------------------------------------------------------------------------
\* Lemmas about the log and its readers, without steps.

LEMMA BoundaryFacts ==
    ASSUME LogOK
    PROVE  /\ Boundary \in Nat /\ Len(entries) \in Nat
           /\ \A o \in Nat : Expired(o) <=> o < Boundary
           /\ earliest_retained # None => earliest_retained = Boundary
BY MemLogAssumption, LenProperties DEF LogOK, Boundary, Expired

\* Waking the waiters touches nothing but the flag.
LEMMA NotifyFacts ==
    ASSUME SubOK
    PROVE  /\ notify_waiters = [r \in Readers |-> notify_waiters[r]]
           /\ \A r \in Readers : /\ IsSub(notify_waiters[r])
                                 /\ notify_waiters[r].cursor = sub[r].cursor
                                 /\ notify_waiters[r].err = sub[r].err
                                 /\ notify_waiters[r].pc = sub[r].pc
<1>1. ASSUME NEW r \in Readers
      PROVE  /\ IsSub(notify_waiters[r])
             /\ notify_waiters[r].cursor = sub[r].cursor
             /\ notify_waiters[r].err = sub[r].err
             /\ notify_waiters[r].pc = sub[r].pc
  <2> DEFINE w == sub[r].woken \/ Registered(r)
  <2>1. notify_waiters[r] = [sub[r] EXCEPT !.woken = w]
    BY DEF notify_waiters
  <2>2. IsSub(sub[r])
    BY DEF SubOK
  <2> HIDE DEF w
  <2> QED BY <2>1, <2>2 DEF IsSub
<1> QED BY <1>1 DEF notify_waiters

\* The entries of a sequence of entries have offsets.
LEMMA EntryOffsets ==
    ASSUME NEW g \in Seq(Entry)
    PROVE  Len(g) \in Nat /\ \A i \in 1..Len(g) : g[i] \in Entry /\ g[i].off \in Nat
<1>1. \A e \in Entry : e.off \in Nat
  BY DEF Entry, Port!Entry
<1>2. Len(g) \in Nat /\ \A i \in 1..Len(g) : g[i] \in Entry
  BY LenProperties, ElementOfSeq
<1> QED BY <1>1, <1>2

\* A page from the cursor on: the reader has then read up to its end.
LEMMA PageRead ==
    ASSUME NEW log \in Seq(Entry), \A i \in 1..Len(log) : log[i].off = i - 1,
           NEW b \in Nat, NEW g, NEW c \in Nat, NEW m \in Nat,
           c <= m, m <= Len(log), Reads(log, b, g, c)
    PROVE  /\ Len(SubSeq(log, c + 1, m)) = m - c
           /\ Reads(log, b, g \o SubSeq(log, c + 1, m), m)
<1> DEFINE page == SubSeq(log, c + 1, m)
           h == g \o page
<1>1. /\ page \in Seq(Entry) /\ Len(page) = m - c
      /\ \A i \in 1..(m - c) : page[i] = log[c + i]
  <2>1. \A i \in (c + 1)..m : log[i] \in Entry
    BY LenProperties
  <2>2. /\ page \in Seq(Entry)
        /\ Len(page) = IF c + 1 <= m THEN m - (c + 1) + 1 ELSE 0
        /\ \A i \in 1..(m - (c + 1) + 1) : page[i] = log[c + 1 + i - 1]
    BY <2>1, SubSeqProperties, SMTT(30)
  <2> QED BY <2>2
<1>2. g \in Seq(Entry) /\ Len(g) \in Nat
  BY LenProperties DEF Reads
<1> HIDE DEF page
<1>3. /\ h \in Seq(Entry) /\ Len(h) = Len(g) + (m - c)
      /\ \A i \in 1..Len(g) : h[i] = g[i]
      /\ \A i \in 1..(m - c) : h[Len(g) + i] = page[i]
  BY <1>1, <1>2, ConcatProperties
<1> HIDE DEF h
<1>4. \A i \in 1..(m - c) : h[Len(g) + i].off = c + i - 1 /\ h[Len(g) + i] = log[c + i]
  <2> SUFFICES ASSUME NEW i \in 1..(m - c)
               PROVE  h[Len(g) + i].off = c + i - 1 /\ h[Len(g) + i] = log[c + i]
    OBVIOUS
  <2>1. h[Len(g) + i] = log[c + i]
    BY <1>1, <1>3
  <2>2. c + i \in 1..Len(log)
    BY EntryOffsets
  <2> QED BY <2>1, <2>2
<1>5. \A i \in 1..Len(h) : i \in 1..Len(g) \/ \E k \in 1..(m - c) : i = Len(g) + k
  <2> SUFFICES ASSUME NEW i \in 1..Len(h), i \notin 1..Len(g)
               PROVE  i - Len(g) \in 1..(m - c) /\ i = Len(g) + (i - Len(g))
    OBVIOUS
  <2> QED BY <1>2, <1>3
<1>6. \A i \in 1..Len(g) : g[i].off \in Nat /\ g[i].off < c /\ g[i] = log[g[i].off + 1]
  BY <1>2, EntryOffsets DEF Reads
<1>7. ASSUME NEW i \in 1..Len(h) PROVE h[i].off < m /\ h[i] = log[h[i].off + 1]
  <2>1. CASE i \in 1..Len(g)
    BY <2>1, <1>3, <1>6, SMTT(30)
  <2>2. CASE \E k \in 1..(m - c) : i = Len(g) + k
    BY <2>2, <1>4
  <2> QED BY <1>5, <2>1, <2>2
<1>8. ASSUME NEW i \in 1..Len(h), NEW j \in 1..Len(h), i < j PROVE h[i].off < h[j].off
  <2>1. CASE j \in 1..Len(g)
    <3>1. i \in 1..Len(g)
      BY <2>1, <1>2, <1>3, <1>8
    <3>2. g[i].off < g[j].off
      BY <2>1, <3>1, <1>8 DEF Reads
    <3> QED BY <2>1, <3>1, <3>2, <1>3
  <2>2. ASSUME NEW k \in 1..(m - c), j = Len(g) + k PROVE h[i].off < h[j].off
    <3>1. CASE i \in 1..Len(g)
      <4>1. h[i].off \in Nat /\ h[i].off < c
        BY <3>1, <1>3, <1>6
      <4>2. h[j].off = c + k - 1
        BY <2>2, <1>4
      <4> QED BY <4>1, <4>2
    <3>2. ASSUME NEW l \in 1..(m - c), i = Len(g) + l PROVE h[i].off < h[j].off
      <4>1. h[i].off = c + l - 1 /\ h[j].off = c + k - 1
        BY <2>2, <3>2, <1>4
      <4>2. l < k
        BY <2>2, <3>2, <1>2, <1>8
      <4> QED BY <4>1, <4>2
    <3> QED BY <1>5, <3>1, <3>2
  <2> QED BY <1>5, <2>1, <2>2
<1>9. ASSUME NEW o \in 0..(m - 1) PROVE o < b \/ \E i \in 1..Len(h) : h[i].off = o
  <2>1. CASE o < c
    <3>1. o < b \/ \E i \in 1..Len(g) : g[i].off = o
      BY <2>1 DEF Reads
    <3>2. ASSUME NEW i \in 1..Len(g), g[i].off = o PROVE i \in 1..Len(h) /\ h[i].off = o
      BY <3>2, <1>2, <1>3
    <3> QED BY <3>1, <3>2
  <2>2. CASE o >= c
    <3>1. o - c + 1 \in 1..(m - c) /\ Len(g) + (o - c + 1) \in 1..Len(h)
      BY <2>2, <1>2, <1>3
    <3>2. h[Len(g) + (o - c + 1)].off = c + (o - c + 1) - 1
      BY <3>1, <1>4
    <3> QED BY <3>1, <3>2
  <2> QED BY <2>1, <2>2
<1> QED BY <1>1, <1>3, <1>7, <1>8, <1>9 DEF Reads, h, page

\* An append leaves what has been read alone.
LEMMA ReadsExtended ==
    ASSUME NEW log \in Seq(Entry), NEW more \in Seq(Entry),
           NEW b, NEW g, NEW c \in Nat, c <= Len(log), Reads(log, b, g, c)
    PROVE  Reads(log \o more, b, g, c)
<1>1. g \in Seq(Entry) /\ \A i \in 1..Len(g) : g[i].off \in Nat /\ g[i].off < c
  BY EntryOffsets DEF Reads
<1>2. \A i \in 1..Len(log) : (log \o more)[i] = log[i]
  BY ConcatProperties, LenProperties
<1>3. Len(log) \in Nat
  BY LenProperties
<1>4. \A i \in 1..Len(g) : (log \o more)[g[i].off + 1] = log[g[i].off + 1]
  BY <1>1, <1>2, <1>3
<1> QED BY <1>1, <1>4 DEF Reads

\* So does retention.
LEMMA ReadsEvicted ==
    ASSUME NEW log, NEW b \in Nat, NEW b2 \in Nat, b <= b2, NEW g, NEW c \in Nat,
           Reads(log, b, g, c)
    PROVE  Reads(log, b2, g, c)
<1>1. \A o \in 0..(c - 1) : o < b => o < b2
  OBVIOUS
<1> QED BY <1>1 DEF Reads

\* A reader told that everything below a is gone goes on at a.
LEMMA ReadsReanchored ==
    ASSUME NEW log, NEW b \in Nat, NEW g, NEW c \in Nat, NEW a \in Nat, c <= a, a <= b,
           Reads(log, b, g, c)
    PROVE  Reads(log, b, g, a)
<1>1. g \in Seq(Entry) /\ \A i \in 1..Len(g) : g[i].off \in Nat /\ g[i].off < a
  BY EntryOffsets DEF Reads
<1>2. \A o \in 0..(a - 1) : o < b
  OBVIOUS
<1> QED BY <1>1, <1>2 DEF Reads

-----------------------------------------------------------------------------
\* The steps of the log and of its subscriptions.

\* A step of one reader that leaves the log alone.
LEMMA OneReader ==
    ASSUME MemInv, NEW r \in Readers, NEW s, NEW g,
           sub' = [sub EXCEPT ![r] = s], got' = [got EXCEPT ![r] = g],
           UNCHANGED <<entries, earliest_retained>>,
           IsSub(s), s.cursor <= Len(entries), ErrOK(s),
           Reads(entries, Boundary, g, s.cursor)
    PROVE  MemInv' /\ sub'[r] = s /\ \A q \in Readers \ {r} : sub'[q] = sub[q]
<1>1. Boundary' = Boundary /\ entries' = entries
  BY DEF Boundary
<1>2. LogOK'
  BY <1>1 DEF MemInv, LogOK
<1>3. sub' = [q \in Readers |-> sub'[q]] /\ got' = [q \in Readers |-> got'[q]]
  BY DEF MemInv, SubOK, GotOK
<1>4. sub'[r] = s /\ got'[r] = g
  BY DEF MemInv, SubOK, GotOK
<1>5. \A q \in Readers \ {r} : sub'[q] = sub[q] /\ got'[q] = got[q]
  BY DEF MemInv, SubOK, GotOK
<1>6. ASSUME NEW q \in Readers
      PROVE  /\ IsSub(sub'[q]) /\ sub'[q].cursor <= Len(entries) /\ ErrOK(sub'[q])
             /\ Reads(entries, Boundary, got'[q], sub'[q].cursor)
  <2>1. CASE q = r
    BY <2>1, <1>4
  <2>2. CASE q # r
    BY <2>2, <1>5 DEF MemInv, SubOK, GotOK
  <2> QED BY <2>1, <2>2
<1>7. SubOK'
  BY <1>1, <1>3, <1>6 DEF SubOK, IsSub, ErrOK
<1>8. GotOK'
  BY <1>1, <1>3, <1>6 DEF GotOK
<1> QED BY <1>2, <1>4, <1>5, <1>7, <1>8 DEF MemInv

\* The same for a step that gives the reader nothing.
LEMMA OneSub ==
    ASSUME MemInv, NEW r \in Readers, NEW s,
           sub' = [sub EXCEPT ![r] = s],
           UNCHANGED <<entries, earliest_retained, got>>,
           IsSub(s), s.cursor = sub[r].cursor, ErrOK(s)
    PROVE  MemInv' /\ sub'[r] = s /\ \A q \in Readers \ {r} : sub'[q] = sub[q]
<1>1. got' = [got EXCEPT ![r] = got[r]]
  BY DEF MemInv, GotOK
<1>2. s.cursor <= Len(entries) /\ Reads(entries, Boundary, got[r], s.cursor)
  BY DEF MemInv, SubOK, GotOK
<1> QED BY <1>1, <1>2, OneReader

\* A new subscription holds no error.
LEMMA NewSubOK ==
    ASSUME NEW c \in Nat
    PROVE  /\ IsSub(NewSub(c)) /\ NewSub(c).cursor = c
           /\ ~NewSub(c).err.expired /\ ErrOK(NewSub(c))
BY DEF IsSub, NewSub, NoError, ErrOK

\* The updates the steps make of a subscription.
LEMMA SubUpdates ==
    ASSUME NEW t, IsSub(t), NEW p, NEW c, NEW w
    PROVE  /\ [t EXCEPT !.pc = p, !.woken = w]
                = [pc |-> p, cursor |-> t.cursor, woken |-> w, err |-> t.err]
           /\ [t EXCEPT !.pc = p, !.cursor = c]
                = [pc |-> p, cursor |-> c, woken |-> t.woken, err |-> t.err]
           /\ [t EXCEPT !.pc = p]
                = [pc |-> p, cursor |-> t.cursor, woken |-> t.woken, err |-> t.err]
<1>1. PICK tp, tc, tw, te : t = [pc |-> tp, cursor |-> tc, woken |-> tw, err |-> te]
  BY DEF IsSub
<1>2. t.pc = tp /\ t.cursor = tc /\ t.woken = tw /\ t.err = te
  BY <1>1
<1> DEFINE u == [t EXCEPT !.pc = p]
<1>3. u = [pc |-> p, cursor |-> tc, woken |-> tw, err |-> te]
  BY <1>1
<1> HIDE DEF u
<1>4. [u EXCEPT !.woken = w] = [pc |-> p, cursor |-> tc, woken |-> w, err |-> te]
  BY <1>3
<1>5. [u EXCEPT !.cursor = c] = [pc |-> p, cursor |-> c, woken |-> tw, err |-> te]
  BY <1>3
<1>6. /\ [t EXCEPT !.pc = p, !.woken = w] = [u EXCEPT !.woken = w]
      /\ [t EXCEPT !.pc = p, !.cursor = c] = [u EXCEPT !.cursor = c]
      /\ [t EXCEPT !.pc = p] = u
  BY DEF u
<1> QED BY <1>2, <1>3, <1>4, <1>5, <1>6

\* The update ReturnExpired makes.
LEMMA SubRefused ==
    ASSUME NEW t, IsSub(t), NEW p, NEW e, NEW w
    PROVE  [t EXCEPT !.pc = p, !.err = e, !.woken = w]
             = [pc |-> p, cursor |-> t.cursor, woken |-> w, err |-> e]
<1> DEFINE u == [t EXCEPT !.pc = p]
           x == [u EXCEPT !.err = e]
<1>1. u = [pc |-> p, cursor |-> t.cursor, woken |-> t.woken, err |-> t.err]
  BY SubUpdates, Zenon
<1> HIDE DEF u
<1>2. x = [pc |-> p, cursor |-> t.cursor, woken |-> t.woken, err |-> e]
  BY <1>1
<1> HIDE DEF x
<1>3. [x EXCEPT !.woken = w] = [pc |-> p, cursor |-> t.cursor, woken |-> w, err |-> e]
  BY <1>2
<1>4. [t EXCEPT !.pc = p, !.err = e, !.woken = w] = [x EXCEPT !.woken = w]
  BY DEF u, x
<1> QED BY <1>3, <1>4

\* next_entry returns RetentionExpired: the offset it names is the boundary.
LEMMA ReturnExpiredStep ==
    ASSUME MemInv, NEW r \in Readers, ReturnExpired(r), UNCHANGED <<entries, earliest_retained>>
    PROVE  MemInv' /\ \A q \in Readers \ {r} : sub'[q] = sub[q]
<1> DEFINE no == FALSE
           s == [sub[r] EXCEPT !.pc = "idle", !.err = RetentionExpired, !.woken = no]
<1>1. IsSub(sub[r])
  BY DEF MemInv, SubOK
<1>2. sub' = [sub EXCEPT ![r] = s]
  BY DEF ReturnExpired
<1> HIDE DEF no
<1>3. IsSub(s) /\ s.cursor = sub[r].cursor /\ s.err = RetentionExpired
  <2>1. s = [pc |-> "idle", cursor |-> sub[r].cursor, woken |-> no,
             err |-> RetentionExpired]
    BY <1>1, SubRefused, ZenonT(30)
  <2> HIDE DEF s
  <2> QED BY <2>1, <1>1 DEF IsSub
<1>4. ErrOK(s)
  <2>1. Expired(sub[r].cursor) /\ earliest_retained = Boundary /\ Boundary \in Nat
    BY BoundaryFacts DEF MemInv, ReturnExpired, Expired
  <2>2. /\ RetentionExpired.earliest_available # None =>
              RetentionExpired.earliest_available = Boundary
    BY <2>1 DEF RetentionExpired, earliest_available_offset
  <2>3. sub[r].cursor \in Nat /\ sub[r].cursor < Boundary
    BY <1>1, <2>1, BoundaryFacts DEF MemInv, IsSub
  <2> HIDE DEF s
  <2> QED BY <1>3, <2>1, <2>2, <2>3 DEF ErrOK
<1> HIDE DEF s
<1> QED BY <1>2, <1>3, <1>4, OneSub DEF ReturnExpired

\* A step of next_entry that moves its program counter only.
LEMMA PcStep ==
    ASSUME MemInv, NEW r \in Readers, NEW p, NEW w,
           \/ sub' = [sub EXCEPT ![r].pc = p]
           \/ sub' = [sub EXCEPT ![r].pc = p, ![r].woken = w],
           UNCHANGED <<entries, earliest_retained, got>>
    PROVE  MemInv' /\ \A q \in Readers \ {r} : sub'[q] = sub[q]
<1>1. IsSub(sub[r]) /\ ErrOK(sub[r])
  BY DEF MemInv, SubOK
<1>2. PICK v : sub' = [sub EXCEPT ![r] = [sub[r] EXCEPT !.pc = p, !.woken = v]]
  <2>1. CASE sub' = [sub EXCEPT ![r].pc = p]
    <3>1. [sub[r] EXCEPT !.pc = p] = [sub[r] EXCEPT !.pc = p, !.woken = sub[r].woken]
      BY <1>1 DEF IsSub
    <3> QED BY <2>1, <3>1
  <2>2. CASE sub' = [sub EXCEPT ![r].pc = p, ![r].woken = w]
    BY <2>2
  <2> QED BY <2>1, <2>2
<1> DEFINE s == [sub[r] EXCEPT !.pc = p, !.woken = v]
<1>3. IsSub(s) /\ s.cursor = sub[r].cursor /\ s.err = sub[r].err
  <2>1. s = [pc |-> p, cursor |-> sub[r].cursor, woken |-> v, err |-> sub[r].err]
    BY <1>1, SubUpdates, Zenon
  <2> HIDE DEF s
  <2> QED BY <2>1, <1>1 DEF IsSub
<1>4. ErrOK(s)
  BY <1>1, <1>3 DEF ErrOK
<1> HIDE DEF s
<1>5. sub' = [sub EXCEPT ![r] = s]
  BY <1>2 DEF s
<1> QED BY <1>3, <1>4, <1>5, OneSub

\* next_entry returns the entry at the cursor: a page of one.
LEMMA DeliverStep ==
    ASSUME MemInv, NEW r \in Readers, ~sub[r].err.expired, sub[r].cursor < Len(entries),
           got' = [got EXCEPT ![r] = Append(@, entries[sub[r].cursor + 1])],
           sub' = [sub EXCEPT ![r].pc = "idle", ![r].cursor = @ + 1],
           UNCHANGED <<entries, earliest_retained>>
    PROVE  MemInv' /\ \A q \in Readers \ {r} : sub'[q] = sub[q]
<1> DEFINE s == [sub[r] EXCEPT !.pc = "idle", !.cursor = sub[r].cursor + 1]
           c == sub[r].cursor
           g == got[r] \o SubSeq(entries, c + 1, c + 1)
<1>1. IsSub(sub[r]) /\ c \in Nat
  BY DEF MemInv, SubOK, IsSub
<1>2. IsSub(s) /\ s.cursor = c + 1 /\ s.err = sub[r].err
  <2>1. c + 1 \in Nat
    BY <1>1
  <2>2. s = [pc |-> "idle", cursor |-> c + 1, woken |-> sub[r].woken, err |-> sub[r].err]
    BY <1>1, <2>1, SubUpdates
  <2> HIDE DEF s
  <2> QED BY <2>1, <2>2, <1>1 DEF IsSub
<1>3. ErrOK(s)
  BY <1>2 DEF ErrOK
<1>4. entries \in Seq(Entry) /\ Len(entries) \in Nat /\ Boundary \in Nat
  BY BoundaryFacts DEF MemInv, LogOK
<1>5. Reads(entries, Boundary, g, c + 1)
  <2>1. /\ \A i \in 1..Len(entries) : entries[i].off = i - 1
        /\ Reads(entries, Boundary, got[r], c)
    BY DEF MemInv, LogOK, GotOK
  <2>2. c + 1 \in Nat /\ c <= c + 1 /\ c + 1 <= Len(entries)
    BY <1>1, <1>4
  <2> HIDE DEF c
  <2> QED BY <1>1, <1>4, <2>1, <2>2, PageRead
<1>6. got[r] \in Seq(Entry) /\ entries[c + 1] \in Entry
  BY <1>1, <1>4, EntryOffsets DEF MemInv, GotOK, Reads
<1>7. SubSeq(entries, c + 1, c + 1) = <<entries[c + 1]>>
  <2>1. c + 1 \in 1..Len(entries)
    BY <1>1, <1>4
  <2> HIDE DEF c
  <2>2. SubSeq(entries, c + 1, c + 1) = <<entries[c + 1]>> \o SubSeq(entries, c + 1 + 1, c + 1)
    BY <1>1, <1>4, <2>1, SubSeqRecursiveFirst
  <2>3. SubSeq(entries, c + 1 + 1, c + 1) = <<>>
    BY <1>1, SubSeqEmpty
  <2>4. <<entries[c + 1]>> \in Seq(Entry)
    BY <1>6
  <2> QED BY <2>2, <2>3, <2>4, ConcatEmptySeq
<1>8. g = Append(got[r], entries[c + 1])
  BY <1>6, <1>7, AppendIsConcat
<1> HIDE DEF s, g
<1>9. sub' = [sub EXCEPT ![r] = s] /\ got' = [got EXCEPT ![r] = g]
  BY <1>8 DEF s
<1>10. s.cursor <= Len(entries)
  BY <1>1, <1>2, <1>4
<1> QED BY <1>2, <1>3, <1>5, <1>9, <1>10, OneReader, ZenonT(30)

\* The steps of next_entry; a reader goes on only while it has not been refused.
LEMMA NextEntryStep ==
    ASSUME MemInv, NEW r \in Readers,
           (~sub[r].err.expired /\ Check(r)) \/ Enable(r) \/ Recheck(r) \/ Wake(r)
    PROVE  MemInv' /\ \A q \in Readers \ {r} : sub'[q] = sub[q]
<1>1. CASE ~sub[r].err.expired /\ Check(r)
  BY <1>1, ReturnExpiredStep, DeliverStep, PcStep DEF Check
<1>2. CASE Enable(r)
  BY <1>2, PcStep DEF Enable
<1>3. CASE Recheck(r)
  BY <1>3, ReturnExpiredStep, PcStep DEF Recheck, Retry, Await
<1>4. CASE Wake(r)
  BY <1>4, PcStep DEF Wake, Retry
<1> QED BY <1>1, <1>2, <1>3, <1>4

\* A log step: the readers are woken, and keep what they have.
LEMMA LogStepReaders ==
    ASSUME MemInv, LogOK', sub' = notify_waiters, got' = got,
           Len(entries) <= Len(entries'), Boundary <= Boundary',
           \A r \in Readers : Reads(entries', Boundary', got[r], sub[r].cursor)
    PROVE  /\ MemInv'
           /\ \A r \in Readers : sub'[r].cursor = sub[r].cursor /\ sub'[r].err = sub[r].err
<1>1. /\ Boundary \in Nat /\ Len(entries) \in Nat /\ Boundary' \in Nat /\ Len(entries') \in Nat
  <2>1. Boundary' \in Nat /\ Len(entries') \in Nat
    BY MemLogAssumption, LenProperties DEF LogOK, Boundary
  <2> QED BY <2>1, BoundaryFacts DEF MemInv
<1>2. /\ sub' = [r \in Readers |-> sub'[r]]
      /\ \A r \in Readers : /\ IsSub(sub'[r])
                            /\ sub'[r].cursor = sub[r].cursor /\ sub'[r].err = sub[r].err
  BY NotifyFacts DEF MemInv
<1>3. ASSUME NEW r \in Readers
      PROVE  /\ IsSub(sub[r])' /\ (sub[r].cursor <= Len(entries))' /\ ErrOK(sub[r])'
             /\ Reads(entries, Boundary, got[r], sub[r].cursor)'
  <2>1. sub[r].cursor \in Nat /\ sub[r].cursor <= Len(entries) /\ ErrOK(sub[r])
    BY DEF MemInv, SubOK, IsSub
  <2>2. (sub[r].cursor <= Len(entries))'
    BY <1>1, <1>2, <2>1
  <2>3. ErrOK(sub[r])'
    BY <1>1, <1>2, <2>1 DEF ErrOK
  <2>4. Reads(entries, Boundary, got[r], sub[r].cursor)'
    BY <1>2
  <2>5. IsSub(sub[r])'
    BY <1>2 DEF IsSub
  <2> QED BY <2>2, <2>3, <2>4, <2>5
<1>4. SubOK'
  BY <1>2, <1>3 DEF SubOK
<1>5. GotOK'
  BY <1>3 DEF MemInv, GotOK
<1> QED BY <1>2, <1>4, <1>5 DEF MemInv

\* append: the batch has the offsets after the tail.
LEMMA AppendStep ==
    ASSUME MemInv, NEW id \in Batches, NEW n \in Sizes, append(id, n)
    PROVE  /\ MemInv'
           /\ \A r \in Readers : sub'[r].cursor = sub[r].cursor /\ sub'[r].err = sub[r].err
<1> DEFINE batch == [k \in 1..n |-> [off |-> Len(entries) + k - 1, id |-> id, k |-> k]]
<1>1. n \in Nat /\ entries \in Seq(Entry) /\ Len(entries) \in Nat /\ Boundary \in Nat
  BY MemLogAssumption, BoundaryFacts DEF MemInv, LogOK
<1>2. /\ batch \in Seq(Entry) /\ Len(batch) = n
      /\ \A k \in 1..n : batch[k].off = Len(entries) + k - 1
  <2>1. \A k \in 1..n : batch[k] \in Entry /\ batch[k].off = Len(entries) + k - 1
    BY <1>1 DEF Entry, Port!Entry
  <2> QED BY <1>1, <2>1
<1> HIDE DEF batch
<1>3. entries' = entries \o batch
  BY DEF append, batch
<1>4. Boundary' = Boundary
  BY DEF append, Boundary
<1>5. /\ entries' \in Seq(Entry) /\ Len(entries') = Len(entries) + n
      /\ \A i \in 1..(Len(entries) + n) :
            entries'[i] = IF i <= Len(entries) THEN entries[i] ELSE batch[i - Len(entries)]
  BY <1>1, <1>2, <1>3, ConcatProperties
<1>6. ASSUME NEW i \in 1..Len(entries') PROVE entries'[i].off = i - 1
  <2>1. CASE i <= Len(entries)
    BY <1>1, <1>5, <2>1 DEF MemInv, LogOK
  <2>2. CASE i > Len(entries)
    <3>1. i - Len(entries) \in 1..n /\ entries'[i] = batch[i - Len(entries)]
      BY <1>1, <1>5, <2>2
    <3> QED BY <1>1, <1>2, <3>1
  <2> QED BY <1>1, <1>5, <2>1, <2>2
<1>7. LogOK'
  <2>1. Boundary' <= Len(entries')
    BY <1>1, <1>4, <1>5 DEF MemInv, LogOK
  <2>2. earliest_retained' = earliest_retained
    BY DEF append
  <2> QED BY <1>5, <1>6, <2>1, <2>2 DEF MemInv, LogOK
<1>8. ASSUME NEW r \in Readers PROVE Reads(entries', Boundary', got[r], sub[r].cursor)
  <2>1. /\ sub[r].cursor \in Nat /\ sub[r].cursor <= Len(entries)
        /\ Reads(entries, Boundary, got[r], sub[r].cursor)
    BY DEF MemInv, SubOK, IsSub, GotOK
  <2> QED BY <1>1, <1>2, <1>3, <1>4, <2>1, ReadsExtended
<1>9. Len(entries) <= Len(entries') /\ Boundary <= Boundary'
  BY <1>1, <1>4, <1>5
<1>10. sub' = notify_waiters /\ got' = got
  BY DEF append
<1> QED BY <1>7, <1>8, <1>9, <1>10, LogStepReaders

\* evict_below, and evict_all through it: the boundary moves forward and stays within the log.
LEMMA EvictStep ==
    ASSUME MemInv, NEW b \in Nat, Boundary <= b, evict_below(b)
    PROVE  /\ MemInv'
           /\ \A r \in Readers : sub'[r].cursor = sub[r].cursor /\ sub'[r].err = sub[r].err
           /\ Boundary' \in Boundary..Len(entries)
<1>1. Len(entries) \in Nat /\ Boundary \in Nat /\ Boundary <= Len(entries)
  BY BoundaryFacts DEF MemInv, LogOK
<1>2. earliest_retained' = Smaller(b, Len(entries)) /\ earliest_retained' \in Nat
  BY <1>1 DEF evict_below, Smaller
<1>3. Boundary' = Smaller(b, Len(entries))
  BY <1>2, MemLogAssumption DEF Boundary
<1>4. Boundary' \in Boundary..Len(entries)
  BY <1>1, <1>3 DEF Smaller
<1>5. LogOK'
  <2>1. entries' = entries
    BY DEF evict_below
  <2> QED BY <1>1, <1>2, <1>4, <2>1 DEF MemInv, LogOK
<1>6. ASSUME NEW r \in Readers PROVE Reads(entries', Boundary', got[r], sub[r].cursor)
  <2>1. /\ sub[r].cursor \in Nat /\ Reads(entries, Boundary, got[r], sub[r].cursor)
    BY DEF MemInv, SubOK, IsSub, GotOK
  <2>2. entries' = entries
    BY DEF evict_below
  <2> QED BY <1>1, <1>4, <2>1, <2>2, ReadsEvicted
<1>7. sub' = notify_waiters /\ got' = got /\ entries' = entries
  BY DEF evict_below
<1> QED BY <1>1, <1>4, <1>5, <1>6, <1>7, LogStepReaders

\* close wakes the other readers too.
LEMMA CloseStep ==
    ASSUME MemInv, NEW r \in Readers, close(r)
    PROVE  /\ MemInv'
           /\ \A q \in Readers : sub'[q].cursor = sub[q].cursor /\ sub'[q].err = sub[q].err
<1>1. /\ notify_waiters = [q \in Readers |-> notify_waiters[q]]
      /\ \A q \in Readers : /\ IsSub(notify_waiters[q])
                            /\ notify_waiters[q].cursor = sub[q].cursor
                            /\ notify_waiters[q].err = sub[q].err
  BY NotifyFacts DEF MemInv
<1> DEFINE w == notify_waiters
<1> HIDE DEF w
<1>2. sub' = [w EXCEPT ![r].pc = "none"]
  BY DEF close, w
<1>3. /\ sub' = [q \in Readers |-> sub'[q]]
      /\ sub'[r] = [w[r] EXCEPT !.pc = "none"]
      /\ \A q \in Readers \ {r} : sub'[q] = w[q]
  BY <1>1, <1>2 DEF w
<1>4. sub'[r] = [pc |-> "none", cursor |-> w[r].cursor, woken |-> w[r].woken, err |-> w[r].err]
  BY <1>1, <1>3, SubUpdates, ZenonT(30) DEF w
<1>5. ASSUME NEW q \in Readers
      PROVE  /\ IsSub(sub'[q]) /\ sub'[q].cursor = sub[q].cursor /\ sub'[q].err = sub[q].err
  <2>1. CASE q = r
    <3>1. w[r].cursor = sub[r].cursor /\ w[r].err = sub[r].err /\ w[r].cursor \in Nat
      BY <1>1 DEF IsSub, w
    <3> QED BY <2>1, <3>1, <1>4 DEF IsSub
  <2>2. CASE q # r
    BY <2>2, <1>1, <1>3 DEF w
  <2> QED BY <2>1, <2>2
<1>6. entries' = entries /\ Boundary' = Boundary /\ got' = got /\ LogOK'
  BY DEF close, Boundary, MemInv, LogOK
<1>7. SubOK'
  BY <1>3, <1>5, <1>6 DEF MemInv, SubOK, IsSub, ErrOK
<1>8. GotOK'
  BY <1>5, <1>6 DEF MemInv, GotOK
<1> QED BY <1>5, <1>6, <1>7, <1>8 DEF MemInv

-----------------------------------------------------------------------------
\* The steps of the requests.

ConnFields(x, p, st, la, ta) ==
    [pc |-> p, op |-> x.op, limit |-> x.limit, requests |-> x.requests,
     status |-> st, latest |-> la, tail |-> ta]

\* The updates the handlers make of a request.
LEMMA ConnUpdates ==
    ASSUME NEW x, IsConn(x), NEW p, NEW st
    PROVE  /\ [x EXCEPT !.pc = p] = ConnFields(x, p, x.status, x.latest, x.tail)
           /\ [x EXCEPT !.pc = p, !.status = st] = ConnFields(x, p, st, x.latest, x.tail)
<1> DEFINE u1 == [x EXCEPT !.pc = p]
           u2 == [u1 EXCEPT !.status = st]
<1>1. u1 = ConnFields(x, p, x.status, x.latest, x.tail)
  <2>1. PICK xp, xo, xl, xr, xs, xa, xt :
            x = [pc |-> xp, op |-> xo, limit |-> xl, requests |-> xr,
                 status |-> xs, latest |-> xa, tail |-> xt]
    BY DEF IsConn
  <2> QED BY <2>1 DEF ConnFields
<1> HIDE DEF u1
<1>2. u2 = ConnFields(x, p, st, x.latest, x.tail)
  BY <1>1 DEF ConnFields
<1>3. [x EXCEPT !.pc = p] = u1 /\ [x EXCEPT !.pc = p, !.status = st] = u2
  BY DEF u1
<1> HIDE DEF u2
<1> QED BY <1>1, <1>2, <1>3

\* What is required of the request x and the subscription s of one client.
ClientOK(x, s) ==
    /\ IsConn(x)
    /\ x.pc # "stream" => ~s.err.expired
    /\ x.op = "page" /\ x.status = 200 => x.pc = "none"
    /\ x.op = "page" => x.pc # "stream"

TailKnown(x, s) ==
    x.op = "page" /\ x.status = 200 =>
        IF x.latest = None THEN s.cursor >= x.tail
                           ELSE x.latest + 1 = s.cursor <=> s.cursor >= x.tail

\* A step that leaves the requests alone, and all readers but a stream where they are.
LEMMA ConnKept ==
    ASSUME ApiInv, conn' = conn,
           \A c \in Clients : conn[c].pc # "stream" =>
               sub'[c].cursor = sub[c].cursor /\ sub'[c].err = sub[c].err
    PROVE  ConnOK' /\ CaughtUp'
<1>1. ASSUME NEW c \in Clients PROVE ClientOK(conn'[c], sub'[c]) /\ TailKnown(conn'[c], sub'[c])
  <2>1. ClientOK(conn[c], sub[c]) /\ TailKnown(conn[c], sub[c])
    BY DEF ApiInv, ConnOK, CaughtUp, ClientOK, TailKnown
  <2>2. CASE conn[c].pc = "stream"
    BY <2>1, <2>2 DEF ClientOK, TailKnown
  <2>3. CASE conn[c].pc # "stream"
    BY <2>1, <2>3 DEF ClientOK, TailKnown
  <2> QED BY <2>2, <2>3
<1> QED BY <1>1 DEF ApiInv, ConnOK, CaughtUp, ClientOK, TailKnown

\* A step of one client's request.
LEMMA ConnStep ==
    ASSUME ApiInv, NEW c \in Clients, NEW x, conn' = [conn EXCEPT ![c] = x],
           \A q \in Clients \ {c} : sub'[q] = sub[q],
           ClientOK(x, sub'[c]), TailKnown(x, sub'[c])
    PROVE  ConnOK' /\ CaughtUp'
<1>1. /\ conn' = [q \in Clients |-> conn'[q]] /\ conn'[c] = x
      /\ \A q \in Clients \ {c} : conn'[q] = conn[q]
  BY DEF ApiInv, ConnOK
<1>2. ASSUME NEW q \in Clients PROVE ClientOK(conn'[q], sub'[q]) /\ TailKnown(conn'[q], sub'[q])
  <2>1. CASE q = c
    BY <2>1, <1>1
  <2>2. CASE q # c
    BY <2>2, <1>1 DEF ApiInv, ConnOK, CaughtUp, ClientOK, TailKnown
  <2> QED BY <2>1, <2>2
<1> QED BY <1>1, <1>2 DEF ConnOK, CaughtUp, ClientOK, TailKnown

\* A step that leaves the log and the subscriptions alone.
LEMMA MemKept ==
    ASSUME MemInv, UNCHANGED memVars
    PROVE  MemInv' /\ \A r \in Readers : sub'[r] = sub[r]
<1>1. Boundary' = Boundary /\ entries' = entries /\ sub' = sub /\ got' = got
      /\ earliest_retained' = earliest_retained
  BY DEF memVars, Boundary
<1> QED BY <1>1 DEF MemInv, LogOK, SubOK, GotOK, IsSub, ErrOK

\* A client goes on where it was told to, or where it was.
LEMMA ReanchorStep ==
    ASSUME MemInv, NEW c \in Readers, NEW hint, Reanchor(c, hint),
           UNCHANGED <<entries, earliest_retained, got>>,
           hint # None => hint \in Nat /\ sub[c].cursor <= hint /\ hint <= Boundary
    PROVE  /\ MemInv' /\ ~sub'[c].err.expired
           /\ \A q \in Readers \ {c} : sub'[q] = sub[q]
<1> DEFINE a == IF hint = None THEN sub[c].cursor ELSE hint
           s == NewSub(a)
<1>1. sub[c].cursor \in Nat /\ sub[c].cursor <= Len(entries)
  BY DEF MemInv, SubOK, IsSub
<1>2. Boundary \in Nat /\ Len(entries) \in Nat /\ Boundary <= Len(entries)
  BY BoundaryFacts DEF MemInv, LogOK
<1>3. a \in Nat /\ a <= Len(entries) /\ (a = sub[c].cursor \/ a <= Boundary) /\ sub[c].cursor <= a
  BY <1>1, <1>2
<1>4. sub' = [sub EXCEPT ![c] = s]
  BY DEF Reanchor
<1> HIDE DEF a
<1>5. IsSub(s) /\ s.cursor = a /\ ~s.err.expired /\ ErrOK(s)
  BY <1>3, NewSubOK
<1>6. Reads(entries, Boundary, got[c], a)
  <2>1. Reads(entries, Boundary, got[c], sub[c].cursor)
    BY DEF MemInv, GotOK
  <2>2. CASE a = sub[c].cursor
    BY <2>1, <2>2
  <2>3. CASE a <= Boundary
    BY <2>1, <2>3, <1>1, <1>2, <1>3, ReadsReanchored
  <2> QED BY <1>3, <2>2, <2>3
<1>7. got' = [got EXCEPT ![c] = got[c]]
  BY DEF MemInv, GotOK
<1> HIDE DEF s
<1>8. MemInv' /\ sub'[c] = s /\ \A q \in Readers \ {c} : sub'[q] = sub[q]
  <2>1. s.cursor <= Len(entries) /\ Reads(entries, Boundary, got[c], s.cursor)
    BY <1>3, <1>5, <1>6
  <2> QED BY <1>4, <1>5, <1>7, <2>1, OneReader
<1> QED BY <1>5, <1>8

\* map_query_error: the client is told the boundary, and its request is over.
LEMMA QueryErrorStep ==
    ASSUME ApiInv, NEW c \in Clients, conn[c].pc = "handle", Expired(sub[c].cursor),
           map_query_error(c)
    PROVE  ApiInv'
<1>1. c \in Readers /\ MemInv /\ IsConn(conn[c])
  BY ReadersAssumption DEF ApiInv, ConnOK
<1>2. RetentionExpired.earliest_available # None =>
          /\ RetentionExpired.earliest_available \in Nat
          /\ sub[c].cursor <= RetentionExpired.earliest_available
          /\ RetentionExpired.earliest_available <= Boundary
  <2>1. sub[c].cursor \in Nat /\ earliest_retained = Boundary /\ Boundary \in Nat
    BY <1>1, BoundaryFacts DEF MemInv, SubOK, IsSub, Expired
  <2>2. sub[c].cursor < Boundary
    BY <1>1, <2>1, BoundaryFacts DEF MemInv
  <2>3. RetentionExpired.earliest_available \in {None, Boundary}
    BY <2>1 DEF RetentionExpired, earliest_available_offset
  <2> QED BY <2>1, <2>2, <2>3
<1>3. MemInv' /\ ~sub'[c].err.expired /\ \A q \in Readers \ {c} : sub'[q] = sub[q]
  BY <1>1, <1>2, ReanchorStep DEF map_query_error
<1> DEFINE code == 410
           x == [conn[c] EXCEPT !.pc = "none", !.status = code]
<1>4. conn' = [conn EXCEPT ![c] = x]
  BY ZenonT(30) DEF map_query_error, Respond
<1> HIDE DEF code
<1>5. x = ConnFields(conn[c], "none", code, conn[c].latest, conn[c].tail)
  BY <1>1, ConnUpdates, Zenon
<1> HIDE DEF x
<1>6. ClientOK(x, sub'[c]) /\ TailKnown(x, sub'[c])
  BY <1>1, <1>3, <1>5 DEF code, ClientOK, TailKnown, ConnFields, IsConn
<1>7. \A q \in Clients \ {c} : sub'[q] = sub[q]
  BY <1>3, ReadersAssumption
<1> QED BY <1>3, <1>4, <1>6, <1>7, ConnStep DEF ApiInv

\* A request that is answered without touching the log or the subscriptions.
LEMMA AnswerStep ==
    ASSUME ApiInv, NEW c \in Clients, NEW x, UNCHANGED memVars,
           conn' = [conn EXCEPT ![c] = x], IsConn(x), x.pc # "stream",
           conn[c].pc # "stream", x.op # "page" \/ x.status # 200
    PROVE  ApiInv'
<1>1. MemInv' /\ \A r \in Readers : sub'[r] = sub[r]
  BY MemKept DEF ApiInv
<1>2. ~sub[c].err.expired /\ c \in Readers
  BY ReadersAssumption DEF ApiInv, ConnOK
<1>3. ClientOK(x, sub'[c]) /\ TailKnown(x, sub'[c])
  BY <1>1, <1>2 DEF ClientOK, TailKnown
<1>4. \A q \in Clients \ {c} : sub'[q] = sub[q]
  BY <1>1, ReadersAssumption
<1> QED BY <1>1, <1>3, <1>4, ConnStep DEF ApiInv

\* A client sends a request.
LEMMA RequestStep ==
    ASSUME ApiInv, NEW c \in Clients, NEW op, NEW limit \in Nat, Request(c, op, limit)
    PROVE  ApiInv'
<1> DEFINE x == [NoConn EXCEPT !.pc = "auth", !.op = op, !.limit = limit,
                               !.requests = conn[c].requests + 1]
           y == [pc |-> "auth", op |-> op, limit |-> limit, requests |-> conn[c].requests + 1,
                 status |-> None, latest |-> None, tail |-> 0]
<1>1. x = y
  <2> DEFINE u1 == [NoConn EXCEPT !.pc = "auth"]
             u2 == [u1 EXCEPT !.op = op]
             u3 == [u2 EXCEPT !.limit = limit]
             n == conn[c].requests + 1
             u4 == [u3 EXCEPT !.requests = n]
  <2>1. u1 = [pc |-> "auth", op |-> "page", limit |-> 0, requests |-> 0,
              status |-> None, latest |-> None, tail |-> 0]
    BY DEF NoConn
  <2> HIDE DEF u1
  <2>2. u2 = [pc |-> "auth", op |-> op, limit |-> 0, requests |-> 0,
              status |-> None, latest |-> None, tail |-> 0]
    BY <2>1
  <2> HIDE DEF u2
  <2>3. u3 = [pc |-> "auth", op |-> op, limit |-> limit, requests |-> 0,
              status |-> None, latest |-> None, tail |-> 0]
    BY <2>2
  <2> HIDE DEF u3, n
  <2>4. u4 = [pc |-> "auth", op |-> op, limit |-> limit, requests |-> n,
              status |-> None, latest |-> None, tail |-> 0]
    BY <2>3
  <2>5. x = u4
    BY DEF u1, u2, u3, n
  <2> QED BY <2>4, <2>5 DEF n
<1>2. IsConn(y) /\ y.pc = "auth" /\ y.status # 200
  BY MemLogAssumption DEF IsConn
<1>3. conn' = [conn EXCEPT ![c] = x] /\ UNCHANGED memVars /\ conn[c].pc = "none"
  BY DEF Request
<1> HIDE DEF x, y
<1>4. conn' = [conn EXCEPT ![c] = y]
  BY <1>1, <1>3
<1> QED BY <1>2, <1>3, <1>4, AnswerStep

\* require_api_token: the request goes on, or is refused.
LEMMA TokenStep ==
    ASSUME ApiInv, NEW c \in Clients, require_api_token(c)
    PROVE  ApiInv'
<1>1. /\ IsConn(conn[c]) /\ conn[c].pc = "auth"
      /\ conn[c].op # "page" \/ conn[c].status # 200
  BY DEF ApiInv, ConnOK, require_api_token
<1>2. CASE TokenOk(c, api_tokens)
  <2> DEFINE x == [conn[c] EXCEPT !.pc = "handle"]
  <2>1. conn' = [conn EXCEPT ![c] = x] /\ UNCHANGED memVars
    BY <1>2 DEF require_api_token
  <2>2. x = ConnFields(conn[c], "handle", conn[c].status, conn[c].latest, conn[c].tail)
    BY <1>1, ConnUpdates, Zenon
  <2> HIDE DEF x
  <2>3. IsConn(x) /\ x.pc = "handle" /\ (x.op # "page" \/ x.status # 200)
    BY <1>1, <2>2 DEF ConnFields, IsConn
  <2> QED BY <1>1, <2>1, <2>3, AnswerStep
<1>3. CASE ~TokenOk(c, api_tokens)
  <2> DEFINE code == 401
             x == [conn[c] EXCEPT !.pc = "none", !.status = code]
  <2>1. conn' = [conn EXCEPT ![c] = x] /\ UNCHANGED memVars
    <3>1. Respond(c, 401) /\ UNCHANGED memVars
      BY <1>3 DEF require_api_token
    <3> QED BY <3>1, ZenonT(30) DEF Respond
  <2> HIDE DEF code
  <2>2. x = ConnFields(conn[c], "none", code, conn[c].latest, conn[c].tail)
    BY <1>1, ConnUpdates, Zenon
  <2> HIDE DEF x
  <2>3. IsConn(x) /\ x.pc = "none" /\ (x.op # "page" \/ x.status # 200)
    BY <1>1, <2>2 DEF code, ConnFields, IsConn
  <2> QED BY <1>1, <2>1, <2>3, AnswerStep
<1> QED BY <1>2, <1>3

\* GET /api/v1/status
LEMMA StatusStep ==
    ASSUME ApiInv, NEW c \in Clients, status(c)
    PROVE  ApiInv'
<1> DEFINE x == [conn[c] EXCEPT !.pc = "none", !.status = 200]
<1>1. IsConn(conn[c]) /\ conn[c].pc = "handle" /\ conn[c].op = "status"
  BY DEF ApiInv, ConnOK, status
<1>2. conn' = [conn EXCEPT ![c] = x] /\ UNCHANGED memVars
  BY DEF status
<1>3. x = ConnFields(conn[c], "none", 200, conn[c].latest, conn[c].tail)
  BY <1>1, ConnUpdates, ZenonT(30)
<1> HIDE DEF x
<1>4. IsConn(x) /\ x.pc = "none" /\ x.op # "page"
  BY <1>1, <1>3 DEF ConnFields, IsConn
<1> QED BY <1>1, <1>2, <1>4, AnswerStep

\* A query that failed.
LEMMA UnavailableStep ==
    ASSUME ApiInv, NEW c \in Clients, Unavailable(c)
    PROVE  ApiInv'
<1> DEFINE code == 503
           x == [conn[c] EXCEPT !.pc = "none", !.status = code]
<1>1. IsConn(conn[c]) /\ conn[c].pc = "handle"
  BY DEF ApiInv, ConnOK, Unavailable
<1>2. conn' = [conn EXCEPT ![c] = x] /\ UNCHANGED memVars
  BY ZenonT(30) DEF Unavailable, Respond
<1> HIDE DEF code
<1>3. x = ConnFields(conn[c], "none", code, conn[c].latest, conn[c].tail)
  BY <1>1, ConnUpdates, Zenon
<1> HIDE DEF x
<1>4. IsConn(x) /\ x.pc = "none" /\ x.status # 200
  BY <1>1, <1>3 DEF code, ConnFields, IsConn
<1> QED BY <1>1, <1>2, <1>4, AnswerStep

\* GET /api/v1/events: a page from the cursor on, and the truth about the tail.
LEMMA EventsStep ==
    ASSUME ApiInv, NEW c \in Clients, events(c)
    PROVE  ApiInv'
<1>1. CASE Expired(sub[c].cursor)
  BY <1>1, QueryErrorStep DEF events
<1>2. CASE ~Expired(sub[c].cursor)
  <2> DEFINE cur == sub[c].cursor
             lim == Smaller(conn[c].limit, MAX_EVENTS_LIMIT)
             m == Smaller(cur + lim, Len(entries))
             page == SubSeq(entries, cur + 1, m)
             s == [sub[c] EXCEPT !.cursor = cur + Len(page)]
             x == [conn[c] EXCEPT !.pc = "none", !.status = 200, !.tail = Len(entries),
                                  !.latest = latest_offset]
  <2>1. /\ c \in Readers /\ MemInv /\ IsConn(conn[c]) /\ IsSub(sub[c])
        /\ conn[c].pc = "handle" /\ conn[c].op = "page"
    BY ReadersAssumption DEF ApiInv, MemInv, ConnOK, SubOK, events
  <2>2. ~sub[c].err.expired
    BY <2>1 DEF ApiInv, ConnOK
  <2>3. /\ cur \in Nat /\ Len(entries) \in Nat /\ cur <= Len(entries) /\ lim \in Nat
        /\ entries \in Seq(Entry) /\ Boundary \in Nat
    BY <2>1, BoundaryFacts, LimitsAssumption
       DEF MemInv, LogOK, SubOK, IsSub, IsConn, Smaller
  <2>4. m \in Nat /\ cur <= m /\ m <= Len(entries)
    <3> HIDE DEF cur, lim
    <3> QED BY <2>3 DEF Smaller
  <2>5. Len(page) = m - cur /\ Reads(entries, Boundary, got[c] \o page, m)
    <3>1. /\ \A i \in 1..Len(entries) : entries[i].off = i - 1
          /\ Reads(entries, Boundary, got[c], cur)
      BY <2>1 DEF MemInv, LogOK, GotOK
    <3> HIDE DEF m, cur
    <3> QED BY <2>3, <2>4, <3>1, PageRead
  <2>6. page = read_events(cur, lim).entries /\ latest_offset = read_events(cur, lim).latest_offset
    BY DEF read_events, read_range
  <2>7. /\ conn' = [conn EXCEPT ![c] = x]
        /\ got' = [got EXCEPT ![c] = got[c] \o page]
        /\ sub' = [sub EXCEPT ![c] = s]
        /\ UNCHANGED <<entries, earliest_retained>>
    <3> DEFINE pg == read_events(cur, lim)
    <3> HIDE DEF pg
    <3>1. /\ conn' = [conn EXCEPT ![c].pc = "none", ![c].status = 200, ![c].tail = Len(entries),
                                  ![c].latest = pg.latest_offset]
          /\ got' = [got EXCEPT ![c] = got[c] \o pg.entries]
          /\ sub' = [sub EXCEPT ![c].cursor = sub[c].cursor + Len(pg.entries)]
          /\ UNCHANGED <<entries, earliest_retained>>
      BY <1>2 DEF events, pg
    <3>2. pg.entries = page /\ pg.latest_offset = latest_offset
      BY <2>6 DEF pg
    <3> HIDE DEF page
    <3> QED BY <3>1, <3>2, ZenonT(30)
  <2>8. cur + Len(page) = m
    <3> HIDE DEF m, cur, page
    <3> QED BY <2>3, <2>4, <2>5
  <2>9. s = [pc |-> sub[c].pc, cursor |-> m, woken |-> sub[c].woken, err |-> sub[c].err]
    <3> HIDE DEF m, cur, page
    <3>1. s = [sub[c] EXCEPT !.cursor = m]
      BY <2>8
    <3>2. PICK tp, tc, tw, te :
              sub[c] = [pc |-> tp, cursor |-> tc, woken |-> tw, err |-> te]
      BY <2>1 DEF IsSub
    <3> HIDE DEF s
    <3> QED BY <3>1, <3>2
  <2> HIDE DEF s, m
  <2>10. IsSub(s) /\ s.cursor = m /\ s.err = sub[c].err
    BY <2>4, <2>9 DEF IsSub
  <2>11. ErrOK(s)
    BY <2>2, <2>10 DEF ErrOK
  <2> HIDE DEF page
  <2>12. MemInv' /\ sub'[c] = s /\ \A q \in Readers \ {c} : sub'[q] = sub[q]
    <3> DEFINE g == got[c] \o page
    <3>1. got' = [got EXCEPT ![c] = g] /\ Reads(entries, Boundary, g, s.cursor)
      BY <2>5, <2>7, <2>10
    <3> HIDE DEF g
    <3> QED BY <2>1, <2>4, <2>7, <2>10, <2>11, <3>1, OneReader
  <2>13. x = ConnFields(conn[c], "none", 200, latest_offset, Len(entries))
    <3> DEFINE code == 200
               u2 == [conn[c] EXCEPT !.pc = "none", !.status = code]
               u3 == [u2 EXCEPT !.tail = Len(entries)]
               u4 == [u3 EXCEPT !.latest = latest_offset]
    <3> HIDE DEF code
    <3>1. u2 = ConnFields(conn[c], "none", code, conn[c].latest, conn[c].tail)
      BY <2>1, ConnUpdates, Zenon
    <3> HIDE DEF u2
    <3>2. u3 = ConnFields(conn[c], "none", code, conn[c].latest, Len(entries))
      BY <3>1 DEF ConnFields
    <3> HIDE DEF u3
    <3>3. u4 = ConnFields(conn[c], "none", code, latest_offset, Len(entries))
      BY <3>2 DEF ConnFields
    <3>4. x = u4
      BY DEF u2, u3, code
    <3> HIDE DEF u4, x
    <3> QED BY <3>3, <3>4 DEF code
  <2> HIDE DEF x
  <2>14. ClientOK(x, sub'[c])
    BY <2>1, <2>2, <2>10, <2>12, <2>13 DEF ClientOK, ConnFields, IsConn
  <2>15. TailKnown(x, sub'[c])
    <3>1. x.latest = latest_offset /\ x.tail = Len(entries) /\ sub'[c].cursor = m
      BY <2>10, <2>12, <2>13 DEF ConnFields
    <3>2. CASE latest_offset = None
      <4>1. CASE entries = <<>>
        BY <2>4, <3>1, <3>2, <4>1 DEF TailKnown
      <4>2. CASE earliest_retained # None /\ earliest_available_offset(Boundary) = None
        <5>1. Boundary >= Len(entries) /\ ~(cur < Boundary)
          BY <1>2, <2>1, <2>3, <4>2, BoundaryFacts, MemLogAssumption
             DEF earliest_available_offset, MemInv
        <5> HIDE DEF cur
        <5>2. m >= Len(entries)
          BY <2>3, <2>4, <5>1
        <5> QED BY <3>1, <3>2, <5>2 DEF TailKnown
      <4>3. ~(entries = <<>>) /\ ~(earliest_retained # None /\ earliest_available_offset(Boundary) = None)
              => latest_offset \in Nat
        <5>1. entries # <<>> => Len(entries) > 0
          BY <2>3
        <5> QED BY <2>3, <5>1 DEF latest_offset
      <4> QED BY <4>1, <4>2, <4>3, <3>2, <2>3, MemLogAssumption
    <3>3. CASE latest_offset # None
      <4>1. latest_offset = Len(entries) - 1
        BY <3>3 DEF latest_offset
      <4>2. latest_offset + 1 = m <=> m >= Len(entries)
        BY <4>1, <2>3, <2>4
      <4> QED BY <3>1, <3>3, <4>2 DEF TailKnown
    <3> QED BY <3>2, <3>3
  <2>16. \A q \in Clients \ {c} : sub'[q] = sub[q]
    BY <2>12, ReadersAssumption
  <2> QED BY <2>7, <2>12, <2>14, <2>15, <2>16, ConnStep DEF ApiInv
<1> QED BY <1>1, <1>2

\* GET /api/v1/events/stream: a fresh subscription at the cursor.
LEMMA StreamOpenStep ==
    ASSUME ApiInv, NEW c \in Clients, events_stream(c)
    PROVE  ApiInv'
<1>1. CASE Expired(sub[c].cursor)
  BY <1>1, QueryErrorStep DEF events_stream
<1>2. CASE ~Expired(sub[c].cursor)
  <2> DEFINE s == [NewSub(sub[c].cursor) EXCEPT !.pc = "idle"]
             x == [conn[c] EXCEPT !.pc = "stream", !.status = 200]
  <2>1. /\ c \in Readers /\ MemInv /\ IsConn(conn[c]) /\ IsSub(sub[c])
        /\ conn[c].pc = "handle" /\ conn[c].op = "stream"
    BY ReadersAssumption DEF ApiInv, MemInv, ConnOK, SubOK, events_stream
  <2>2. /\ conn' = [conn EXCEPT ![c] = x] /\ sub' = [sub EXCEPT ![c] = s]
        /\ UNCHANGED <<entries, earliest_retained, got>>
    BY <1>2, ZenonT(30) DEF events_stream, subscribe
  <2>3. /\ IsSub(NewSub(sub[c].cursor)) /\ NewSub(sub[c].cursor).cursor = sub[c].cursor
        /\ ~NewSub(sub[c].cursor).err.expired
    BY <2>1, NewSubOK DEF IsSub
  <2>4. s = [pc |-> "idle", cursor |-> NewSub(sub[c].cursor).cursor,
             woken |-> NewSub(sub[c].cursor).woken, err |-> NewSub(sub[c].cursor).err]
    BY <2>3, SubUpdates, Zenon
  <2> HIDE DEF s
  <2>5. IsSub(s) /\ s.cursor = sub[c].cursor /\ s.err = NewSub(sub[c].cursor).err
    BY <2>1, <2>3, <2>4 DEF IsSub
  <2>6. ErrOK(s)
    BY <2>3, <2>5 DEF ErrOK
  <2>7. MemInv' /\ \A q \in Readers \ {c} : sub'[q] = sub[q]
    BY <2>1, <2>2, <2>5, <2>6, OneSub
  <2>8. x = ConnFields(conn[c], "stream", 200, conn[c].latest, conn[c].tail)
    BY <2>1, ConnUpdates, ZenonT(30)
  <2> HIDE DEF x
  <2>9. ClientOK(x, sub'[c]) /\ TailKnown(x, sub'[c])
    BY <2>1, <2>8 DEF ClientOK, TailKnown, ConnFields, IsConn
  <2>10. \A q \in Clients \ {c} : sub'[q] = sub[q]
    BY <2>7, ReadersAssumption
  <2> QED BY <2>2, <2>7, <2>9, <2>10, ConnStep DEF ApiInv
<1> QED BY <1>1, <1>2

\* The stream ends, after its error or because the client hangs up.
LEMMA StreamEndStep ==
    ASSUME ApiInv, NEW c \in Clients, EndStream(c) \/ HangUp(c)
    PROVE  ApiInv'
<1> DEFINE x == [conn[c] EXCEPT !.pc = "none"]
<1>1. /\ c \in Readers /\ MemInv /\ IsConn(conn[c]) /\ IsSub(sub[c]) /\ ErrOK(sub[c])
      /\ conn[c].pc = "stream" /\ conn[c].op # "page"
  BY ReadersAssumption DEF ApiInv, MemInv, ConnOK, SubOK, EndStream, HangUp
<1>2. conn' = [conn EXCEPT ![c] = x]
  BY DEF EndStream, HangUp
<1>3. MemInv' /\ ~sub'[c].err.expired /\ \A q \in Readers \ {c} : sub'[q] = sub[q]
  <2>1. CASE EndStream(c)
    <3>1. sub[c].err.earliest_available # None =>
              /\ sub[c].err.earliest_available \in Nat
              /\ sub[c].cursor <= sub[c].err.earliest_available
              /\ sub[c].err.earliest_available <= Boundary
      BY <1>1, <2>1 DEF ErrOK, EndStream, Done
    <3> QED BY <1>1, <2>1, <3>1, ReanchorStep DEF EndStream
  <2>2. CASE HangUp(c)
    <3>1. Reanchor(c, None) /\ UNCHANGED <<entries, earliest_retained, got>>
      BY <2>2 DEF HangUp, Drop, Reanchor
    <3> QED BY <1>1, <3>1, ReanchorStep
  <2> QED BY <2>1, <2>2
<1>4. x = ConnFields(conn[c], "none", conn[c].status, conn[c].latest, conn[c].tail)
  <2>1. IsConn(conn[c])
    BY <1>1
  <2> QED BY <2>1, ConnUpdates, Zenon
<1> HIDE DEF x
<1>5. ClientOK(x, sub'[c]) /\ TailKnown(x, sub'[c])
  BY <1>1, <1>3, <1>4 DEF ClientOK, TailKnown, ConnFields, IsConn
<1>6. \A q \in Clients \ {c} : sub'[q] = sub[q]
  BY <1>3, ReadersAssumption
<1> QED BY <1>2, <1>3, <1>5, <1>6, ConnStep DEF ApiInv

\* A poll of the stream is a step of its subscription.
LEMMA PollStep ==
    ASSUME ApiInv, NEW c \in Clients, Poll(c)
    PROVE  ApiInv'
<1>1. c \in Readers /\ MemInv
  BY ReadersAssumption DEF ApiInv
<1>2. MemInv' /\ \A q \in Readers \ {c} : sub'[q] = sub[q]
  BY <1>1, NextEntryStep DEF Poll, Done
<1>3. conn' = conn /\ conn[c].pc = "stream"
  BY DEF Poll
<1>4. \A q \in Clients : conn[q].pc # "stream" =>
          sub'[q].cursor = sub[q].cursor /\ sub'[q].err = sub[q].err
  BY <1>2, <1>3, ReadersAssumption
<1> QED BY <1>2, <1>3, <1>4, ConnKept DEF ApiInv

\* A direct reader has no request.
LEMMA DirectReaderStep ==
    ASSUME ApiInv, NEW r \in Direct, DirectStep(r)
    PROVE  ApiInv'
<1>1. r \in Readers /\ r \notin Clients /\ MemInv /\ conn' = conn
  BY DEF Direct, ApiInv, DirectStep
<1>2. CASE close(r)
  <2>1. /\ MemInv'
        /\ \A q \in Readers : sub'[q].cursor = sub[q].cursor /\ sub'[q].err = sub[q].err
    BY <1>1, <1>2, CloseStep
  <2> QED BY <1>1, <2>1, ReadersAssumption, ConnKept DEF ApiInv
<1>3. CASE MemInv' /\ \A q \in Readers \ {r} : sub'[q] = sub[q]
  BY <1>1, <1>3, ReadersAssumption, ConnKept DEF ApiInv
<1>4. CASE (~sub[r].err.expired /\ Check(r)) \/ Enable(r) \/ Recheck(r) \/ Wake(r)
  BY <1>1, <1>3, <1>4, NextEntryStep
<1>5. CASE subscribe(r, sub[r].cursor) /\ UNCHANGED <<entries, earliest_retained, got>>
  <2> DEFINE s == [NewSub(sub[r].cursor) EXCEPT !.pc = "idle"]
  <2>1. sub' = [sub EXCEPT ![r] = s] /\ IsSub(sub[r])
    BY <1>1, <1>5 DEF subscribe, MemInv, SubOK
  <2>2. /\ IsSub(NewSub(sub[r].cursor)) /\ NewSub(sub[r].cursor).cursor = sub[r].cursor
        /\ ~NewSub(sub[r].cursor).err.expired
    BY <2>1, NewSubOK DEF IsSub
  <2>3. s = [pc |-> "idle", cursor |-> NewSub(sub[r].cursor).cursor,
             woken |-> NewSub(sub[r].cursor).woken, err |-> NewSub(sub[r].cursor).err]
    BY <2>2, SubUpdates, Zenon
  <2> HIDE DEF s
  <2>4. IsSub(s) /\ s.cursor = sub[r].cursor /\ s.err = NewSub(sub[r].cursor).err
    BY <2>1, <2>2, <2>3 DEF IsSub
  <2>5. ErrOK(s)
    BY <2>2, <2>4 DEF ErrOK
  <2> QED BY <1>1, <1>3, <1>5, <2>1, <2>4, <2>5, OneSub
<1> QED BY <1>2, <1>4, <1>5 DEF DirectStep

-----------------------------------------------------------------------------
\* append, evict_below and evict_all keep the whole invariant.
LEMMA LogStepInv ==
    ASSUME ApiInv, LogStep
    PROVE  ApiInv'
<1>1. MemInv /\ conn' = conn /\ Boundary \in Nat /\ Len(entries) \in Nat /\ Boundary <= Len(entries)
  BY BoundaryFacts DEF ApiInv, MemInv, LogOK, LogStep
<1>2. /\ MemInv'
      /\ \A r \in Readers : sub'[r].cursor = sub[r].cursor /\ sub'[r].err = sub[r].err
  <2>1. CASE \E id \in Batches, n \in Sizes : append(id, n)
    BY <1>1, <2>1, AppendStep
  <2>2. CASE \E b \in (Boundary + 1)..(Len(entries) + 1) : evict_below(b)
    <3>1. PICK b \in (Boundary + 1)..(Len(entries) + 1) : evict_below(b)
      BY <2>2
    <3>2. b \in Nat /\ Boundary <= b
      BY <1>1
    <3> QED BY <1>1, <3>1, <3>2, EvictStep
  <2>3. CASE evict_all
    BY <1>1, <2>3, EvictStep DEF evict_all
  <2> QED BY <2>1, <2>2, <2>3 DEF LogStep
<1> QED BY <1>1, <1>2, ReadersAssumption, ConnKept DEF ApiInv

\* The first state satisfies the invariant.
LEMMA InitInv == Init => ApiInv
<1> SUFFICES ASSUME Init PROVE ApiInv
  OBVIOUS
<1>1. /\ entries = <<>> /\ earliest_retained = None
      /\ sub = [r \in Readers |-> NewSub(0)] /\ got = [r \in Readers |-> <<>>]
      /\ conn = [c \in Clients |-> NoConn]
  BY DEF Init, MemInit
<1>2. Boundary = 0 /\ Len(entries) = 0
  BY <1>1 DEF Boundary
<1>3. LogOK
  BY <1>1, <1>2 DEF LogOK
<1>4. SubOK
  BY <1>1, <1>2, NewSubOK DEF SubOK
<1>5. GotOK
  <2>1. \A r \in Readers : sub[r].cursor = 0 /\ got[r] = <<>>
    BY <1>1, NewSubOK
  <2>2. Reads(entries, Boundary, <<>>, 0)
    BY DEF Reads
  <2>3. got = [r \in Readers |-> got[r]]
    BY <1>1
  <2> QED BY <2>1, <2>2, <2>3 DEF GotOK
<1>6. ASSUME NEW c \in Clients PROVE ClientOK(conn[c], sub[c]) /\ TailKnown(conn[c], sub[c])
  <2>1. conn[c] = NoConn /\ ~sub[c].err.expired
    BY <1>1, NewSubOK, ReadersAssumption
  <2> QED BY <2>1, MemLogAssumption DEF NoConn, ClientOK, TailKnown, IsConn
<1>7. conn = [c \in Clients |-> conn[c]]
  BY <1>1
<1> QED BY <1>3, <1>4, <1>5, <1>6, <1>7 DEF ApiInv, MemInv, ConnOK, CaughtUp, ClientOK, TailKnown

\* Every step keeps the invariant: a step per disjunct of Next.
LEMMA StepInv == ApiInv /\ [Next]_vars => ApiInv'
<1> SUFFICES ASSUME ApiInv, [Next]_vars PROVE ApiInv'
  OBVIOUS
<1>1. CASE LogStep
  BY <1>1, LogStepInv
<1>2. ASSUME NEW tokens \in TokenLists, SetTokens(tokens) PROVE ApiInv'
  BY <1>2, MemKept, ConnKept, ReadersAssumption DEF SetTokens, ApiInv
<1>3. ASSUME NEW r \in Direct, DirectStep(r) PROVE ApiInv'
  BY <1>3, DirectReaderStep
<1>4. ASSUME NEW c \in Clients, Serve(c) PROVE ApiInv'
  BY <1>4, TokenStep, EventsStep, StreamOpenStep, StatusStep, UnavailableStep DEF Serve
<1>5. ASSUME NEW c \in Clients, Stream(c) PROVE ApiInv'
  BY <1>5, PollStep, StreamEndStep DEF Stream
<1>6. ASSUME NEW c \in Clients, ClientStep(c) PROVE ApiInv'
  BY <1>6, RequestStep, StreamEndStep, LimitsAssumption DEF ClientStep
<1>7. CASE UNCHANGED vars
  BY <1>7, MemKept, ConnKept, ReadersAssumption DEF vars, memVars, ApiInv
<1> QED BY <1>1, <1>2, <1>3, <1>4, <1>5, <1>6, <1>7 DEF Next

\* The log, its readers and the requests in flight stay consistent with each other.
THEOREM Invariance == Spec => []ApiInv
BY InitInv, StepInv, PTL DEF Spec

(***************************************************************************)
(* Whatever pages, streams, evictions, reconnections and token rotations   *)
(* do, in whatever order, a reader that follows its cursor gets every      *)
(* entry once and in order, or the entry has been evicted.                 *)
(***************************************************************************)
THEOREM ReadsEverythingAlways == Spec => []ReadsEverything
<1>1. ApiInv => ReadsEverything
  <2> SUFFICES ASSUME ApiInv, NEW r \in Readers
               PROVE  /\ \A i \in DOMAIN got[r] : got[r][i] = entries[got[r][i].off + 1]
                      /\ \A i, j \in DOMAIN got[r] : i < j => got[r][i].off < got[r][j].off
                      /\ \A o \in 0..(sub[r].cursor - 1) :
                             (\E i \in DOMAIN got[r] : got[r][i].off = o) \/ Expired(o)
    BY DEF ReadsEverything
  <2>1. Reads(entries, Boundary, got[r], sub[r].cursor)
    BY DEF ApiInv, MemInv, GotOK
  <2>2. DOMAIN got[r] = 1..Len(got[r])
    BY <2>1, LenProperties DEF Reads
  <2>3. \A o \in Nat : Expired(o) <=> o < Boundary
    BY BoundaryFacts DEF ApiInv, MemInv
  <2> QED BY <2>1, <2>2, <2>3 DEF Reads
<1> QED BY <1>1, Invariance, PTL

(***************************************************************************)
(* A client that compares a page's latest_offset with its cursor is right  *)
(* about the tail the log had when the page was assembled.                 *)
(***************************************************************************)
THEOREM CaughtUpAlways == Spec => []CaughtUp
<1>1. ApiInv => CaughtUp
  BY DEF ApiInv
<1> QED BY <1>1, Invariance, PTL

\* Every step is a step of the port, or leaves the log as it is.
LEMMA StepIsPortStep ==
    ASSUME ApiInv, [Next]_vars
    PROVE  [Port!LogNext]_<<entries, Boundary>>
<1> DEFINE Same == entries' = entries /\ Boundary' = Boundary
<1>1. Boundary \in Nat /\ Len(entries) \in Nat /\ Boundary <= Len(entries)
  BY BoundaryFacts DEF ApiInv, MemInv, LogOK
<1>2. CASE LogStep
  <2>1. ASSUME NEW id \in Batches, NEW n \in Sizes, append(id, n) PROVE Port!LogNext
    <3>1. Boundary' = Boundary
      BY <2>1 DEF append, Boundary
    <3>2. Port!AppendBatch(id, n)
      BY <2>1, <3>1 DEF append, Appended, Port!AppendBatch, Port!Committed
    <3> QED BY <3>2 DEF Port!LogNext
  <2>2. ASSUME NEW b \in Nat, Boundary <= b, evict_below(b) PROVE Port!LogNext \/ Same
    <3>1. Boundary' \in Boundary..Len(entries)
      BY <2>2, EvictStep DEF ApiInv
    <3>2. entries' = entries
      BY <2>2 DEF evict_below
    <3>3. CASE Boundary' = Boundary
      BY <3>2, <3>3
    <3>4. CASE Boundary' # Boundary
      <4>1. Boundary' \in (Boundary + 1)..Len(entries)
        BY <1>1, <3>1, <3>4
      <4>2. Port!Evict
        BY <3>2, <4>1 DEF Port!Evict
      <4> QED BY <4>2 DEF Port!LogNext
    <3> QED BY <3>3, <3>4
  <2>3. CASE \E b \in (Boundary + 1)..(Len(entries) + 1) : evict_below(b)
    <3>1. PICK b \in (Boundary + 1)..(Len(entries) + 1) : evict_below(b)
      BY <2>3
    <3>2. b \in Nat /\ Boundary <= b
      BY <1>1
    <3> QED BY <2>2, <3>1, <3>2
  <2>4. CASE evict_all
    BY <1>1, <2>2, <2>4 DEF evict_all
  <2> QED BY <1>2, <2>1, <2>3, <2>4 DEF LogStep
<1>3. CASE ~LogStep
  <2>1. UNCHANGED <<entries, earliest_retained>>
    BY <1>3, ZenonT(30) DEF Next, vars, memVars, SetTokens, DirectStep, subscribe, close, Check, Enable,
                Recheck, Wake, Serve, require_api_token, events, events_stream, status,
                Unavailable, map_query_error, Stream, Poll, EndStream, ClientStep, Request, HangUp
  <2> QED BY <2>1 DEF Boundary
<1> QED BY <1>2, <1>3

(***************************************************************************)
(* The reference log, under everything its readers and its API do,         *)
(* implements the EventLog port.                                           *)
(***************************************************************************)
THEOREM LogImplementsPort == Spec => ImplementsPort
<1>1. Init => Port!LogInit
  BY DEF Init, MemInit, Port!LogInit, Boundary
<1>2. ApiInv /\ [Next]_vars => [Port!LogNext]_<<entries, Boundary>>
  BY StepIsPortStep
<1> QED BY <1>1, <1>2, Invariance, PTL DEF Spec, ImplementsPort, Port!LogSpec

=============================================================================
