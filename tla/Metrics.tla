------------------------------- MODULE Metrics -------------------------------
(***************************************************************************)
(* A labelled counter or gauge, timing-node/src/metrics.rs: a map from     *)
(* label sets to values and one overflow value for the label sets that     *)
(* came after the map was full.  add takes the read lock, looks, and takes *)
(* the write lock only when the label set was absent: two steps.           *)
(***************************************************************************)
EXTENDS Integers, FiniteSetsExt, Functions

CONSTANT MAX_SERIES_PER_METRIC
ASSUME MetricsAssumption == MAX_SERIES_PER_METRIC \in Nat

NoSeries == [series |-> [k \in {} |-> 0], overflow |-> 0]

\* Labels are an unordered set of (name, value) pairs: sorting by name makes
\* every order of them the same key.
canonical_labels(labels) == Range(labels)

HasSeries(m, key) == key \in DOMAIN m.series

\* Under the read lock, or under the write lock when the series is there.
fetch_add(m, key, delta) == [m EXCEPT !.series[key] = @ + delta]

\* Variant: the write-locked part does not look again.
AddNoRecheck(m, key, delta) ==
    IF Cardinality(DOMAIN m.series) >= MAX_SERIES_PER_METRIC
    THEN [m EXCEPT !.overflow = @ + delta]
    ELSE [m EXCEPT !.series = [k \in DOMAIN @ \cup {key} |-> IF k = key THEN delta ELSE @[k]]]

\* Under the write lock: look again, respect the cap, else insert.
add_locked(m, key, delta) ==
    IF HasSeries(m, key) THEN fetch_add(m, key, delta)
    ELSE IF Cardinality(DOMAIN m.series) >= MAX_SERIES_PER_METRIC
    THEN [m EXCEPT !.overflow = @ + delta]
    ELSE [m EXCEPT !.series = [k \in DOMAIN @ \cup {key} |-> IF k = key THEN delta ELSE @[k]]]

\* The units counted by series f, one pair for each: their number is the sum of
\* the series, and a set's cardinality can be reasoned about where a fold cannot.
Units(f) == UNION {{k} \X (1..f[k]) : k \in DOMAIN f}

\* What an exposition shows of a counter: its series and the overflow sibling.
render(m) == Cardinality(Units(m.series)) + m.overflow
=============================================================================
