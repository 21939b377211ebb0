------------------------------- MODULE Freshness -------------------------------
(***************************************************************************)
(* The hint that the last result of a monitor is not current: the hook     *)
(* useMonitorFreshness with its own clock and timer, over rows that the    *)
(* page fetches while the worker checks and the owner edits the monitor.   *)
(* One unit of time is the smallest step of the browser's clock.           *)
(***************************************************************************)
EXTENDS Naturals

CONSTANTS
    Freqs,      \* frequencies a monitor may have
    Floor,      \* the least frequency that counts, 30 s
    MaxClock,   \* MAX_CLOCK_UPDATE_MS
    Poll,       \* the interval at which a visible page fetches
    MaxEdits,   \* bound: edits of the monitor
    MaxTime     \* bound: time

FreshnessAssumption ==
    /\ Freqs \subseteq Nat \ {0} /\ Freqs # {}
    /\ {Floor, MaxClock, Poll} \subseteq Nat \ {0}
    /\ {MaxEdits, MaxTime} \subseteq Nat

VARIABLES
    time,
    row,            \* last_checked_at, frequency and state of the monitor
    edits,
    data,           \* the row as last fetched
    clock, timer,   \* of the hook: its clock, and when its timer fires
    fetched,        \* history: time of the last fetch
    changed,        \* history: when the fetched row last changed
    gap             \* history: the longest time without a check

vars == <<time, row, edits, data, clock, timer, fetched, changed, gap>>

Never == 0          \* null; time starts at 1
Larger(a, b) == IF a > b THEN a ELSE b
Smaller(a, b) == IF a < b THEN a ELSE b

-----------------------------------------------------------------------------
(* datetime.ts, useMonitorFreshness.ts *)

isEngineStale(d, now) ==
    d.checked # Never /\ now > d.checked + 2 * Larger(d.frequency, Floor)

stale == data.active /\ isEngineStale(data, clock)

\* How long the effect sets its timer for.
Delay(d, at) ==
    LET ageExpiry == d.checked + 2 * Larger(d.frequency, Floor) + 1
    IN  IF d.active /\ d.checked # Never /\ ageExpiry > at
        THEN Smaller(MaxClock, ageExpiry - at)
        ELSE MaxClock

\* The page is mounted, without a row as the history page or with one.
Init ==
    /\ time = 1
    /\ row \in [checked : {Never, 1}, frequency : Freqs, active : {TRUE}]
    /\ edits = 0
    /\ data \in {row, [checked |-> Never, frequency |-> Floor, active |-> FALSE]}
    /\ clock = 1 /\ timer = 1 + Delay(data, 1)
    /\ fetched = 1 /\ changed = 1
    /\ gap = 0

\* MUTANT: the effect does not depend on the clock, so its timer runs once.
FireOnce ==
    /\ time = timer
    /\ clock' = time
    /\ timer' = MaxTime + 1
    /\ UNCHANGED <<time, row, edits, data, fetched, changed, gap>>

\* The timer sets the clock, on which the effect depends.
Fire ==
    /\ time = timer
    /\ clock' = time
    /\ timer' = time + Delay(data, time)
    /\ UNCHANGED <<time, row, edits, data, fetched, changed, gap>>

\* A fetch answers; an equal row changes nothing and leaves the timer alone.
Fetch ==
    /\ data' = row
    /\ fetched' = time
    /\ IF row = data THEN UNCHANGED <<timer, changed>>
       ELSE timer' = time + Delay(row, time) /\ changed' = time
    /\ UNCHANGED <<time, row, edits, clock, gap>>

-----------------------------------------------------------------------------
(* The worker, the owner, and time. *)

\* Also a check that was in flight when the monitor was paused.
Check ==
    /\ row' = [row EXCEPT !.checked = time]
    /\ UNCHANGED <<time, edits, data, clock, timer, fetched, changed, gap>>

Edit ==
    /\ edits < MaxEdits
    /\ edits' = edits + 1
    /\ \E f \in Freqs, a \in BOOLEAN :
          row' = [row EXCEPT !.frequency = f, !.active = a]
    /\ UNCHANGED <<time, data, clock, timer, fetched, changed, gap>>

\* A due timer fires before more time passes.
Advance ==
    /\ time < MaxTime /\ time < timer
    /\ time' = time + 1
    /\ gap' = Larger(gap, time + 1 - Larger(row.checked, 1))
    /\ UNCHANGED <<row, edits, data, clock, timer, fetched, changed>>

Next == Fire \/ Fetch \/ Check \/ Edit \/ Advance

Spec == Init /\ [][Next]_vars

-----------------------------------------------------------------------------
Threshold(d) == 2 * Larger(d.frequency, Floor)

\* When the fetched row became stale, if it ever was checked.
Boundary == data.checked + Threshold(data) + 1

TypeOK ==
    /\ clock \in 1..time /\ timer >= time
    /\ changed <= fetched /\ fetched <= time
    /\ data.checked <= row.checked \/ changed = 1

(* The hint appears at most one longest delay after the boundary, or after  *)
(* the row arrived when it was already past it, although every change of    *)
(* the row restarts the timer and the clock stands still between.           *)
LateAtMost ==
    (/\ data.active /\ data.checked # Never
     /\ time >= Larger(Boundary, changed) + MaxClock /\ time < timer) => stale

(* While the page fetches regularly the hint is no false alarm: the worker  *)
(* did let the threshold, less one interval of fetching, pass unchecked.    *)
NoFalseAlarm ==
    stale /\ time - fetched <= Poll => gap + Poll > Threshold(data)
=============================================================================
