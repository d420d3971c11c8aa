------------------------------- MODULE MemLog -------------------------------
(***************************************************************************)
(* conformance/src/mem_log.rs: the reference implementation of the         *)
(* EventLog port ("a known-good behavioural reference"), with the          *)
(* subscriptions that are open on it.  Every critical section of the mutex *)
(* is one step; between two of them, next_entry registers with the Notify, *)
(* which keeps no permit for a waiter that is not registered yet.          *)
(*                                                                         *)
(* append with no events or with no producer id returns InvalidInput       *)
(* before it takes the mutex, and changes nothing.                         *)
(***************************************************************************)
EXTENDS Naturals, Sequences

CONSTANTS
    Batches,      \* identities of append calls
    Sizes,        \* numbers of events a call may carry
    MaxEntries,   \* bound on the length of the log
    Readers,      \* who reads the log
    None          \* Option::None

ASSUME MemLogAssumption == Sizes \subseteq Nat /\ MaxEntries \in Nat /\ None \notin Nat

VARIABLES
    entries,              \* every entry ever appended
    earliest_retained,    \* the retention boundary, or None
    sub,                  \* the MemSubscription of each reader
    got                   \* history: the entries each reader was given

memVars == <<entries, earliest_retained, sub, got>>

(***************************************************************************)
(* pc is where next_entry stands: "idle" between two calls, "loop" at the  *)
(* top of its loop.  cursor outlives the subscription: it is where its     *)
(* reader would go on.  err holds the RetentionExpired next_entry returned.*)
(***************************************************************************)
NoError == [expired |-> FALSE, earliest_available |-> None]
NewSub(cursor) == [pc |-> "none", cursor |-> cursor, woken |-> FALSE, err |-> NoError]

MemInit ==
    /\ entries = <<>> /\ earliest_retained = None
    /\ sub = [r \in Readers |-> NewSub(0)] /\ got = [r \in Readers |-> <<>>]

Smaller(a, b) == IF a < b THEN a ELSE b

Appended(id) == \E i \in DOMAIN entries : entries[i].id = id

\* Only a registered waiter is woken.
Registered(r) == sub[r].pc \in {"recheck", "wait"}
notify_waiters == [r \in Readers |-> [sub[r] EXCEPT !.woken = @ \/ Registered(r)]]

append(id, n) ==
    /\ ~Appended(id) /\ Len(entries) + n <= MaxEntries
    /\ entries' = entries \o [k \in 1..n |-> [off |-> Len(entries) + k - 1, id |-> id, k |-> k]]
    /\ sub' = notify_waiters
    /\ UNCHANGED <<earliest_retained, got>>

Boundary == IF earliest_retained = None THEN 0 ELSE earliest_retained

\* Variant: the boundary is taken as it is given.
EvictUnclamped(boundary) ==
    /\ earliest_retained' = boundary
    /\ sub' = notify_waiters
    /\ UNCHANGED <<entries, got>>

evict_below(boundary) ==
    /\ earliest_retained' = Smaller(boundary, Len(entries))
    /\ sub' = notify_waiters
    /\ UNCHANGED <<entries, got>>

evict_all == evict_below(Len(entries))

-----------------------------------------------------------------------------
\* What the port's read operations return.

\* Variant: an offset too far.
AvailableNext(earliest) == IF earliest + 1 < Len(entries) THEN earliest + 1 ELSE None

earliest_available_offset(earliest) == IF earliest < Len(entries) THEN earliest ELSE None

Expired(from) == earliest_retained # None /\ from < earliest_retained

RetentionExpired ==
    [expired |-> TRUE, earliest_available |-> earliest_available_offset(earliest_retained)]

\* read_range, once from has been found retained; to is exclusive.
read_range(from, to) == SubSeq(entries, from + 1, Smaller(to, Len(entries)))

latest_offset ==
    IF entries = <<>> \/ (earliest_retained # None /\ earliest_available_offset(Boundary) = None)
    THEN None ELSE Len(entries) - 1

-----------------------------------------------------------------------------
\* EventLog::subscribe: the boundary is checked, the tail is not.
subscribe(r, from) == sub' = [sub EXCEPT ![r] = [NewSub(from) EXCEPT !.pc = "idle"]]

\* next_entry returns an error; the subscription stays usable.
ReturnExpired(r) ==
    /\ Expired(sub[r].cursor)
    /\ sub' = [sub EXCEPT ![r].pc = "idle", ![r].err = RetentionExpired, ![r].woken = FALSE]
    /\ UNCHANGED got

\* Step 1 of next_entry's loop: an error, an entry, or no data yet.
Check(r) ==
    /\ sub[r].pc \in {"idle", "loop"}
    /\ \/ ReturnExpired(r)
       \/ /\ ~Expired(sub[r].cursor) /\ sub[r].cursor < Len(entries)
          /\ got' = [got EXCEPT ![r] = Append(@, entries[sub[r].cursor + 1])]
          /\ sub' = [sub EXCEPT ![r].pc = "idle", ![r].cursor = @ + 1]
       \/ /\ ~Expired(sub[r].cursor) /\ sub[r].cursor >= Len(entries)
          /\ sub' = [sub EXCEPT ![r].pc = "enable"]
          /\ UNCHANGED got
    /\ UNCHANGED <<entries, earliest_retained>>

\* Step 2, without the mutex: register, before the state is looked at again.
Enable(r) ==
    /\ sub[r].pc = "enable"
    /\ sub' = [sub EXCEPT ![r].pc = "recheck", ![r].woken = FALSE]
    /\ UNCHANGED <<entries, earliest_retained, got>>

Retry(r) == sub' = [sub EXCEPT ![r].pc = "loop", ![r].woken = FALSE] /\ UNCHANGED got
Await(r) == sub' = [sub EXCEPT ![r].pc = "wait"] /\ UNCHANGED got

\* Variant of step 3: nothing is looked at again.
NoRecheck(r) == sub[r].pc = "recheck" /\ Await(r) /\ UNCHANGED <<entries, earliest_retained>>

\* Step 3: what came between steps 1 and 2 woke nobody.
Recheck(r) ==
    /\ sub[r].pc = "recheck"
    /\ \/ ReturnExpired(r)
       \/ ~Expired(sub[r].cursor) /\ sub[r].cursor < Len(entries) /\ Retry(r)
       \/ ~Expired(sub[r].cursor) /\ sub[r].cursor >= Len(entries) /\ Await(r)
    /\ UNCHANGED <<entries, earliest_retained>>

\* Step 4: notified.await
Wake(r) ==
    /\ sub[r].pc = "wait" /\ sub[r].woken
    /\ Retry(r)
    /\ UNCHANGED <<entries, earliest_retained>>

\* close takes the subscription exclusively, so between two calls; it wakes the others.
close(r) ==
    /\ sub[r].pc = "idle"
    /\ sub' = [notify_waiters EXCEPT ![r].pc = "none"]
    /\ UNCHANGED <<entries, earliest_retained, got>>

\* The subscription is dropped, with the call of next_entry that is in flight.
Drop(r) == sub' = [sub EXCEPT ![r] = NewSub(@.cursor)]

-----------------------------------------------------------------------------
Port == INSTANCE EventLog WITH earliest <- Boundary

(***************************************************************************)
(* The reference log implements the port it is the reference for: offsets  *)
(* are positions, a batch is appended whole, and retention removes a       *)
(* prefix and stays within the log (mem_log.rs: "callers could move the    *)
(* retention boundary past the writable end of the log").                  *)
(***************************************************************************)
ImplementsPort == Port!LogSpec
=============================================================================
