---------------------------- MODULE CycleContract ----------------------------
(***************************************************************************)
(* What the worker process promises of its checks, without channels,       *)
(* counters or places in the code: what one poll found is checked, item by *)
(* item and a limited number at a time, before the next poll; only SIGTERM *)
(* makes it drop what it has not started; and it closes the connection     *)
(* pool when nothing uses it any more.                                     *)
(***************************************************************************)
EXTENDS Naturals, FiniteSets

CONSTANTS Monitors, Concurrency, Jobs

VARIABLES
    told,       \* SIGTERM was received
    todo,       \* monitors the poll found whose check has not started
    running,    \* monitors being checked
    busy,       \* background jobs in a pass
    closed      \* the connection pool is closed

vars == <<told, todo, running, busy, closed>>

Init == ~told /\ todo = {} /\ running = {} /\ busy = {} /\ ~closed

Tell ==
    /\ ~told /\ told'
    /\ UNCHANGED <<todo, running, busy, closed>>

\* Everything the last poll found is over.
Poll(due) ==
    /\ ~told /\ todo = {} /\ running = {}
    /\ todo' = due
    /\ UNCHANGED <<told, running, busy, closed>>

Start(m) ==
    /\ m \in todo /\ Cardinality(running) < Concurrency
    /\ todo' = todo \ {m}
    /\ running' = running \cup {m}
    /\ UNCHANGED <<told, busy, closed>>

End(m) ==
    /\ m \in running
    /\ running' = running \ {m}
    /\ UNCHANGED <<told, todo, busy, closed>>

Drop ==
    /\ told /\ running = {}
    /\ todo' = {}
    /\ UNCHANGED <<told, running, busy, closed>>

Pass(j) ==
    /\ ~closed
    /\ busy' = busy \cup {j} \/ busy' = busy \ {j}
    /\ UNCHANGED <<told, todo, running, closed>>

Close ==
    /\ told /\ todo = {} /\ running = {} /\ busy = {}
    /\ closed'
    /\ UNCHANGED <<told, todo, running, busy>>

Next ==
    \/ Tell \/ Drop \/ Close
    \/ \E due \in SUBSET Monitors : Poll(due)
    \/ \E m \in Monitors : Start(m) \/ End(m)
    \/ \E j \in Jobs : Pass(j)

Spec == Init /\ [][Next]_vars
=============================================================================
