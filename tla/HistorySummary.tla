--------------------------- MODULE HistorySummary ---------------------------
(***************************************************************************)
(* The figures above the chart of the history page: the median and the     *)
(* 95th percentile of the latencies that were loaded.                      *)
(***************************************************************************)
EXTENDS Integers, FiniteSets

CONSTANTS
    MaxRows,        \* bound: rows loaded
    Latencies,      \* in milliseconds
    None            \* the latency of a check that got no answer

SummaryAssumption ==
    MaxRows \in Nat /\ Latencies \subseteq Nat /\ None \notin Latencies

VARIABLES
    loadedCount,
    measured,       \* the number of rows with a latency
    latencies       \* their latencies, sorted, from place 0

summaryVars == <<loadedCount, measured, latencies>>

Places == 0..(measured - 1)

Init == loadedCount = 0 /\ measured = 0 /\ latencies = [i \in {} |-> 0]

\* sort: where a latency comes, and the others after it move on.
PlaceOf(l) == Cardinality({i \in Places : latencies[i] <= l})

\* One row more, in any order; null is left out.
Load(l) ==
    /\ loadedCount < MaxRows
    /\ loadedCount' = loadedCount + 1
    /\ \/ l = None /\ UNCHANGED <<measured, latencies>>
       \/ /\ l # None
          /\ measured' = measured + 1
          /\ latencies' = [i \in 0..measured |->
                CASE i < PlaceOf(l) -> latencies[i]
                  [] i = PlaceOf(l) -> l
                  [] i > PlaceOf(l) -> latencies[i - 1]]

Next == \E l \in Latencies \cup {None} : Load(l)

Spec == Init /\ [][Next]_summaryVars

-----------------------------------------------------------------------------
(* summarizeMonitorHistory *)

\* MUTANT: the place is rounded down.
p95Floor == IF measured = 0 THEN None ELSE latencies[(95 * measured) \div 100]

\* The place ceil(0.95 * n) - 1.
p95LatencyMs ==
    IF measured = 0 THEN None ELSE latencies[(95 * measured + 99) \div 100 - 1]

\* Twice the median, which may be half a millisecond.
medianTwice ==
    LET middle == measured \div 2 IN
    IF measured = 0 THEN None
    ELSE IF measured % 2 = 0 THEN latencies[middle - 1] + latencies[middle]
    ELSE 2 * latencies[middle]

-----------------------------------------------------------------------------
(* Properties *)

\* The 95th percentile is a latency that was loaded, the smallest that at least
\* 95 of 100 measured rows do not exceed (p95LatencyMs, "nearest-rank").
P95IsNearestRank ==
    measured > 0 =>
        /\ \E i \in Places : latencies[i] = p95LatencyMs
        /\ 100 * Cardinality({i \in Places : latencies[i] <= p95LatencyMs}) >= 95 * measured
        /\ 100 * Cardinality({i \in Places : latencies[i] < p95LatencyMs}) < 95 * measured

\* Half of the measured rows lie on either side of the median, and it is the
\* middle of the loaded latencies next to it; rows that got no answer weigh on
\* neither side (medianLatencyMs).
MedianInTheMiddle ==
    measured > 0 =>
        /\ 2 * Cardinality({i \in Places : 2 * latencies[i] <= medianTwice}) >= measured
        /\ 2 * Cardinality({i \in Places : 2 * latencies[i] >= medianTwice}) >= measured
        /\ \E i, j \in Places :
              /\ 2 * latencies[i] <= medianTwice /\ medianTwice <= 2 * latencies[j]
              /\ medianTwice = latencies[i] + latencies[j]
              /\ ~\E k \in Places : latencies[i] < latencies[k] /\ latencies[k] < latencies[j]
=============================================================================
