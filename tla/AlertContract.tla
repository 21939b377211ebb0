---------------------------- MODULE AlertContract ----------------------------
(***************************************************************************)
(* What the worker promises about alerts, without checks, transactions or  *)
(* other actors: each monitor has a log of observed states and an          *)
(* incident that is open or not.  Only the step that logs an observation   *)
(* opens or closes the incident, and it records the alert in that step.    *)
(***************************************************************************)
EXTENDS Naturals, Sequences

CONSTANTS Ids, Threshold

VARIABLES
    log,        \* log[m]: the states observed of m, oldest first
    open,       \* open[m]: m has an open incident
    events      \* events[m]: the alerts sent about m

vars == <<log, open, events>>

Init ==
    /\ log = [m \in Ids |-> <<>>]
    /\ open = [m \in Ids |-> FALSE]
    /\ events = [m \in Ids |-> <<>>]

Observe(m, state) == log' = [log EXCEPT ![m] = Append(@, state)]

\* The last n observations, this one included, are all unhealthy.
Confirmed(m, n) ==
    /\ Len(log[m]) >= n - 1
    /\ \A i \in (Len(log[m]) - n + 2)..Len(log[m]) : log[m][i] = "unhealthy"

Down(m) ==
    /\ ~open[m] /\ Confirmed(m, Threshold)
    /\ Observe(m, "unhealthy")
    /\ open' = [open EXCEPT ![m] = TRUE]
    /\ events' = [events EXCEPT ![m] = Append(@, "down")]

\* A failure that tells nothing new: too few of them, or an incident known.
Failure(m) ==
    /\ Observe(m, "unhealthy")
    /\ UNCHANGED <<open, events>>

Recovery(m) ==
    /\ open[m]
    /\ Observe(m, "healthy")
    /\ open' = [open EXCEPT ![m] = FALSE]
    /\ events' = [events EXCEPT ![m] = Append(@, "recovery")]

Success(m) ==
    /\ ~open[m]
    /\ Observe(m, "healthy")
    /\ UNCHANGED <<open, events>>

\* Monitors are deleted, and what was known of them with them.
Forget(gone) ==
    /\ log' = [m \in Ids |-> IF m \in gone THEN <<>> ELSE log[m]]
    /\ open' = [m \in Ids |-> IF m \in gone THEN FALSE ELSE open[m]]
    /\ events' = [m \in Ids |-> IF m \in gone THEN <<>> ELSE events[m]]

Next ==
    \/ \E m \in Ids : Down(m) \/ Failure(m) \/ Recovery(m) \/ Success(m)
    \/ \E gone \in SUBSET Ids : Forget(gone)

Spec == Init /\ [][Next]_vars
=============================================================================
