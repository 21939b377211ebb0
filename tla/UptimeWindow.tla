---------------------------- MODULE UptimeWindow ----------------------------
(***************************************************************************)
(* The uptime of a public monitor, which the API computes over the results *)
(* of the last hours, while the worker's retention deletes old results.    *)
(* Each of the two programs reads a clock and a configuration of its own.  *)
(* Time passes in ticks.                                                   *)
(***************************************************************************)
EXTENDS Integers, FiniteSets

CONSTANTS
    Windows,        \* what STATUS_UPTIME_WINDOW_HOURS may be
    RetentionDays,  \* CHECK_RESULT_RETENTION_DAYS
    TicksPerDay,    \* the 24 hours of a day
    Skew,           \* how far the worker's clock is ahead of the database's
    MaxDelay,       \* ticks between the NOW() of the query and its snapshot
    MaxTime,        \* bound: the clock
    None

RetentionTicks == RetentionDays * TicksPerDay

TicksAssumption ==
    /\ {RetentionDays, TicksPerDay, RetentionTicks, MaxDelay, MaxTime} \subseteq Nat
    /\ Windows \subseteq Nat /\ Skew \in Int /\ None \notin Int

\* The rule of config.Load, which lets the two be equal.
ConfigAssumption == \A w \in Windows : RetentionTicks >= w

VARIABLES
    window,         \* STATUS_UPTIME_WINDOW_HOURS, fixed at the start
    now,            \* the database's clock
    recorded,       \* every result that was ever committed
    present,        \* those in check_result
    cutoff,         \* of the batch that is about to be deleted, or None
    windowEnd,      \* NOW() of the query that is running, or None
    answer          \* of the last query: its NOW(), its aggregates, those of what was
                    \* recorded, and the results that it missed

results == <<recorded, present>>
vars == <<window, now, results, cutoff, windowEnd, answer>>

Result == [created_at : Int, healthy : BOOLEAN]

Init ==
    /\ window \in Windows
    /\ now = 0 /\ recorded = {} /\ present = {}
    /\ cutoff = None /\ windowEnd = None
    /\ answer = [end |-> 0, counted |-> <<0, 0>>, deserved |-> <<0, 0>>, missed |-> {}]

WorkerNow == now + Skew

\* A check commits; it took its time before Begin, by the worker's clock.  The
\* monitor is checked once in a tick at most.
Commit(healthy, delay) ==
    LET r == [created_at |-> WorkerNow - delay, healthy |-> healthy] IN
    /\ \A x \in recorded : x.created_at # r.created_at
    /\ recorded' = recorded \cup {r} /\ present' = present \cup {r}
    /\ UNCHANGED <<now, cutoff, windowEnd, answer>>

\* MUTANT: the days of the configuration are taken for hours.
CutoffInHours == WorkerNow - RetentionDays

Cutoff == WorkerNow - RetentionTicks

\* cleanRetentionTable takes the time, then deletes; a row that is locked or
\* beyond the limit stays.
StartBatch ==
    /\ cutoff = None
    /\ cutoff' = Cutoff
    /\ UNCHANGED <<now, results, windowEnd, answer>>

DeleteBatch(doomed) ==
    /\ cutoff # None
    /\ doomed \subseteq {r \in present : r.created_at < cutoff}
    /\ present' = present \ doomed
    /\ cutoff' = None
    /\ UNCHANGED <<now, recorded, windowEnd, answer>>

InWindow(r, end) == r.created_at >= end - window /\ r.created_at <= end

\* COUNT(*) and COUNT(*) FILTER of queryPublicStatus.
Aggregates(rows) == <<Cardinality(rows), Cardinality({r \in rows : r.healthy})>>

\* The query's transaction begins, and NOW() stands still for it.
StartQuery ==
    /\ windowEnd = None
    /\ windowEnd' = now
    /\ UNCHANGED <<now, results, cutoff, answer>>

\* Its statement takes its snapshot.
AnswerQuery ==
    /\ windowEnd # None
    /\ answer' = [end |-> windowEnd,
                  counted |-> Aggregates({r \in present : InWindow(r, windowEnd)}),
                  deserved |-> Aggregates({r \in recorded : InWindow(r, windowEnd)}),
                  missed |-> {r \in recorded \ present : InWindow(r, windowEnd)}]
    /\ windowEnd' = None
    /\ UNCHANGED <<now, results, cutoff>>

Advance ==
    /\ now < MaxTime
    /\ windowEnd # None => now < windowEnd + MaxDelay
    /\ now' = now + 1
    /\ UNCHANGED <<results, cutoff, windowEnd, answer>>

Next ==
    /\ \/ \E healthy \in BOOLEAN, delay \in {0, 1} : Commit(healthy, delay)
       \/ \E doomed \in SUBSET present : DeleteBatch(doomed)
       \/ StartBatch \/ StartQuery \/ AnswerQuery \/ Advance
    /\ UNCHANGED window

Spec == Init /\ [][Next]_vars

-----------------------------------------------------------------------------
(* Properties *)

\* The types; what is in the table was recorded.
TypeOK ==
    /\ window \in Windows
    /\ now \in 0..MaxTime
    /\ recorded \subseteq Result /\ present \subseteq recorded
    /\ cutoff \in Int \cup {None} /\ windowEnd \in Int \cup {None}

\* All that retention takes from the window of a query are results at its far end,
\* older than the retention by the worker's clock when the query read them.  With the
\* skew and the query's delay between the two, it changes nothing: the query counts what
\* it would count if nothing had ever been deleted (cleanRetentionTable,
\* queryPublicStatus, Load).
UptimePreserved ==
    /\ \A r \in answer.missed : r.created_at < answer.end + MaxDelay + Skew - RetentionTicks
    /\ RetentionTicks >= window + Skew + MaxDelay => answer.counted = answer.deserved

\* A deleted result is older than the retention, by the worker's clock.
DeletedIsOld ==
    /\ \A r \in recorded \ present : r.created_at < WorkerNow - RetentionTicks
    /\ cutoff # None => cutoff <= WorkerNow - RetentionTicks
    /\ windowEnd # None => windowEnd <= now /\ now <= windowEnd + MaxDelay

\* The inductive invariant of UptimePreserved.
IInv == TypeOK /\ DeletedIsOld /\ UptimePreserved
=============================================================================
