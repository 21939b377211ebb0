--------------------------- MODULE ConnectionPool ---------------------------
(***************************************************************************)
(* The worker's database connections.  Far more checks run at once than    *)
(* the pool has connections, and the poll query, the demo reset and the    *)
(* retention share it with them.  A task waits in the pool's queue for its *)
(* connection, and a transaction may wait for another one's rows while it  *)
(* holds one.                                                              *)
(***************************************************************************)
EXTENDS Naturals, Sequences, FiniteSets, SequencesExt

CONSTANTS
    Monitors,       \* whose checks run at once
    DemoMonitors,   \* those whose rows the demo reset deletes
    MaxConns        \* connections of the pool

PoolAssumption == MaxConns \in Nat \ {0} /\ DemoMonitors \subseteq Monitors

Jobs == {"fetch", "reset", "retention"}
Tasks == Monitors \cup Jobs

VARIABLES
    stage,          \* stage[t]: where the task is
    queue           \* the tasks that wait for a connection

vars == <<stage, queue>>

Init == stage = [t \in Tasks |-> "away"] /\ queue = <<>>

At(place) == {t \in Tasks : stage[t] = place}

\* MUTANT: a check has its transaction open while it probes.
HoldingWhileProbing == At("probing") \cup At("begun") \cup At("locking")

\* The tasks that have a connection.
Holding == At("begun") \cup At("locking")

Move(t, place) == stage' = [stage EXCEPT ![t] = place]
Enqueue(t) == Move(t, "queued") /\ queue' = Append(queue, t)

\* runPollCycle starts a check, which probes its target first.
Dispatch(t) ==
    /\ t \in Monitors /\ stage[t] = "away"
    /\ Move(t, "probing") /\ UNCHANGED queue

\* The probe is over and the transaction begins, or the check fails without one.
Probed(t) ==
    /\ stage[t] = "probing"
    /\ Enqueue(t) \/ (Move(t, "away") /\ UNCHANGED queue)

\* A query or a Begin of the other tasks.
Ask(t) == t \in Jobs /\ stage[t] = "away" /\ Enqueue(t)

\* The first in the queue gets a connection that is free.
Acquire ==
    /\ queue # <<>> /\ Cardinality(Holding) < MaxConns
    /\ Move(Head(queue), "begun")
    /\ queue' = Tail(queue)

Conflict(t, u) ==
    \/ t = "reset" /\ u \in DemoMonitors \cup {"retention"}
    \/ u = "reset" /\ t \in DemoMonitors

\* The statements of a transaction; they wait for the rows of another one.
Statements(t) ==
    /\ stage[t] = "begun"
    /\ \A u \in At("locking") : ~Conflict(t, u)
    /\ Move(t, "locking") /\ UNCHANGED queue

\* Commit or rollback; the connection is given back.
Finish(t) ==
    /\ stage[t] = "locking"
    /\ Move(t, "away") /\ UNCHANGED queue

\* The deadline of the database operation, in the queue or on the connection.
TimeOut(t) ==
    /\ stage[t] \in {"queued", "begun"}
    /\ Move(t, "away")
    /\ queue' = SelectSeq(queue, LAMBDA u : u # t)

Next ==
    \/ Acquire
    \/ \E t \in Tasks : \/ Dispatch(t) \/ Probed(t) \/ Ask(t)
                        \/ Statements(t) \/ Finish(t) \/ TimeOut(t)

\* The database answers, and the pool hands out what is free.  Nothing is
\* assumed of targets and deadlines: a probe may take longer than anything else.
Fairness ==
    /\ WF_vars(Acquire)
    /\ \A t \in Tasks : SF_vars(Statements(t)) /\ WF_vars(Finish(t))

Spec == Init /\ [][Next]_vars /\ Fairness

-----------------------------------------------------------------------------
(* Properties *)

\* Whoever waits for a connection gets one, although no deadline ever passes and
\* however long the targets take: no task waits for a target or for a second
\* connection while it holds one (checkAndPersist, which probes before Begin;
\* MaxConns of Connect).
EveryoneConnects == \A t \in Tasks : stage[t] = "queued" ~> stage[t] # "queued"
=============================================================================
