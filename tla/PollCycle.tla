------------------------------ MODULE PollCycle ------------------------------
(***************************************************************************)
(* The worker process around its checks: the polling loop (runWithHealth), *)
(* the bounded dispatch of one cycle (runPollCycle), the two background    *)
(* loops it joins on the way out, and SIGTERM at any moment.               *)
(*                                                                         *)
(* A check is a goroutine that runs for a while and sends its outcome;     *)
(* what it does meanwhile is MonitorChecks.  The poll query has no ORDER   *)
(* BY, so items are taken in any order, and as the loop treats all results *)
(* alike they are received in any order.  Errors of a cycle are logged     *)
(* and change nothing.                                                     *)
(***************************************************************************)
EXTENDS Naturals, FiniteSets

CONSTANTS
    Monitors,       \* ids the poll query may return
    Concurrency     \* WORKER_CONCURRENCY

ASSUME MonitorsAssumption == IsFiniteSet(Monitors)
ASSUME ConcurrencyAssumption == Concurrency \in Nat \ {0}

VARIABLES
    context,        \* "alive", or "cancelled" by SIGTERM
    loop,           \* where the polling goroutine is
    pending,        \* fetched items whose check has not been started
    active,         \* the local counter of runPollCycle
    work,           \* work[m]: "none", "running", or the outcome in the channel
    jobs            \* the demo reset and retention goroutines

vars == <<context, loop, pending, active, work, jobs>>

Jobs == {"reset", "retention"}
\* checkError is an error of the check itself (monitorCheckError), failed one of
\* the database.
Outcomes == {"ok", "checkError", "failed"}
\* Outside a cycle, fetching, starting the first checks, receiving results and
\* refilling, draining after a cancellation, waiting for the jobs, returned.
Places == {"waiting", "fetching", "dispatching", "selecting", "draining",
           "joining", "stopped"}

Running == {m \in Monitors : work[m] = "running"}
Sent == {m \in Monitors : work[m] \in Outcomes}

Init ==
    /\ context = "alive"
    /\ loop = "waiting"
    /\ pending = {}
    /\ active = 0
    /\ work = [m \in Monitors |-> "none"]
    \* Without a demo account the reset loop returns at once.
    /\ jobs \in [Jobs -> {"waiting", "done"}] /\ jobs["retention"] = "waiting"

-----------------------------------------------------------------------------
(* The polling loop.  Its select may take the tick although the context is *)
(* cancelled already.                                                      *)

Tick ==
    /\ loop = "waiting"
    /\ loop' = "fetching"
    /\ UNCHANGED <<context, pending, active, work, jobs>>

Leave ==
    /\ loop = "waiting" /\ context = "cancelled"
    /\ loop' = "joining"
    /\ UNCHANGED <<context, pending, active, work, jobs>>

FetchFails ==
    /\ loop = "fetching"
    /\ loop' = "waiting"
    /\ UNCHANGED <<context, pending, active, work, jobs>>

\* The query succeeds; nothing due or a cancelled context end the cycle.
Fetched(due) ==
    /\ loop = "fetching"
    /\ IF context = "cancelled" \/ due = {}
       THEN loop' = "waiting" /\ pending' = {}
       ELSE loop' = "dispatching" /\ pending' = due
    /\ UNCHANGED <<context, active, work, jobs>>

\* The first checks, up to the limit, are started without a look at the context.
StartFirst(m) ==
    /\ loop = "dispatching"
    /\ m \in pending /\ active < Concurrency
    /\ work' = [work EXCEPT ![m] = "running"]
    /\ pending' = pending \ {m}
    /\ active' = active + 1
    /\ UNCHANGED <<context, loop, jobs>>

FirstStarted ==
    /\ loop = "dispatching"
    /\ pending = {} \/ active >= Concurrency
    /\ loop' = "selecting"
    /\ UNCHANGED <<context, pending, active, work, jobs>>

\* The result of m leaves the channel and the check of another item starts.
Replace(m) ==
    \E n \in pending :
      /\ work' = [k \in Monitors |-> IF k = m THEN "none"
                                     ELSE IF k = n THEN "running" ELSE work[k]]
      /\ pending' = pending \ {n}
      /\ active' = active

\* The result of m leaves the channel and nothing starts.
Release(m) ==
    /\ work' = [work EXCEPT ![m] = "none"]
    /\ active' = active - 1
    /\ pending' = pending

\* MUTANT: a failed check is not replaced by the next one.
ReceiveFussy(m) ==
    /\ loop = "selecting" /\ active > 0
    /\ m \in Sent
    /\ IF context = "alive" /\ pending # {} /\ work[m] # "failed"
       THEN Replace(m) ELSE Release(m)
    /\ UNCHANGED <<context, loop, jobs>>

\* A result arrives and, unless the context is cancelled, the next item takes
\* its place.
Receive(m) ==
    /\ loop = "selecting" /\ active > 0
    /\ m \in Sent
    /\ IF context = "alive" /\ pending # {} THEN Replace(m) ELSE Release(m)
    /\ UNCHANGED <<context, loop, jobs>>

\* MUTANT: cancellation returns at once and leaves the goroutines to themselves.
NoticeCancelHasty ==
    /\ loop = "selecting" /\ active > 0 /\ context = "cancelled"
    /\ loop' = "waiting"
    /\ active' = 0
    /\ UNCHANGED <<context, pending, work, jobs>>

NoticeCancel ==
    /\ loop = "selecting" /\ active > 0 /\ context = "cancelled"
    /\ loop' = "draining"
    /\ UNCHANGED <<context, pending, active, work, jobs>>

DrainOne(m) ==
    /\ loop = "draining" /\ active > 0
    /\ m \in Sent
    /\ Release(m)
    /\ UNCHANGED <<context, loop, jobs>>

EndCycle ==
    /\ loop \in {"selecting", "draining"} /\ active = 0
    /\ loop' = "waiting"
    /\ pending' = {}
    /\ UNCHANGED <<context, active, work, jobs>>

\* MUTANT: only the demo reset is waited for.
JoinReset ==
    /\ loop = "joining" /\ jobs["reset"] = "done"
    /\ loop' = "stopped"
    /\ UNCHANGED <<context, pending, active, work, jobs>>

\* The deferred receives; then the caller closes the connection pool.
Join ==
    /\ loop = "joining" /\ \A j \in Jobs : jobs[j] = "done"
    /\ loop' = "stopped"
    /\ UNCHANGED <<context, pending, active, work, jobs>>

-----------------------------------------------------------------------------
(* The other goroutines and the signal. *)

\* The goroutine of m sends its outcome; the channel has room for every item.
Finish(m) ==
    /\ m \in Running
    /\ \E outcome \in Outcomes : work' = [work EXCEPT ![m] = outcome]
    /\ UNCHANGED <<context, loop, pending, active, jobs>>

\* A tick of the job, chosen by its select whether or not the context is
\* cancelled, and the end of the pass.
JobStart(j) ==
    /\ jobs[j] = "waiting"
    /\ jobs' = [jobs EXCEPT ![j] = "running"]
    /\ UNCHANGED <<context, loop, pending, active, work>>

JobEnd(j) ==
    /\ jobs[j] = "running"
    /\ jobs' = [jobs EXCEPT ![j] = "waiting"]
    /\ UNCHANGED <<context, loop, pending, active, work>>

\* MUTANT: the retention loop does not listen to the context.
JobStopReset(j) ==
    /\ jobs[j] = "waiting" /\ context = "cancelled" /\ j = "reset"
    /\ jobs' = [jobs EXCEPT ![j] = "done"]
    /\ UNCHANGED <<context, loop, pending, active, work>>

JobStop(j) ==
    /\ jobs[j] = "waiting" /\ context = "cancelled"
    /\ jobs' = [jobs EXCEPT ![j] = "done"]
    /\ UNCHANGED <<context, loop, pending, active, work>>

Signal ==
    /\ context = "alive" /\ loop # "stopped"
    /\ context' = "cancelled"
    /\ UNCHANGED <<loop, pending, active, work, jobs>>

-----------------------------------------------------------------------------
Fetch == FetchFails \/ \E due \in SUBSET Monitors : Fetched(due)

Dispatch ==
    \/ FirstStarted \/ NoticeCancel \/ EndCycle
    \/ \E m \in Monitors : StartFirst(m) \/ Receive(m) \/ DrainOne(m)

LoopStep == Tick \/ Leave \/ Fetch \/ Dispatch \/ Join

JobStep(j) == JobStart(j) \/ JobEnd(j) \/ JobStop(j)

\* After Join only the exit of the process is left.
Exited == loop = "stopped" /\ UNCHANGED vars

Next ==
    \/ LoopStep \/ Signal \/ Exited
    \/ \E m \in Monitors : Finish(m)
    \/ \E j \in Jobs : JobStep(j)

\* The goroutines are scheduled; every check and every pass ends, as each waits
\* only under a deadline (probe timeout, database timeout).  A select with two
\* ready cases picks one at random, so a cancelled context is picked in the end.
\* Nothing makes a tick, a fetch that succeeds or a signal happen.
Fairness ==
    /\ WF_vars(Fetch) /\ WF_vars(Dispatch) /\ WF_vars(Join)
    /\ SF_vars(Leave)
    /\ \A m \in Monitors : WF_vars(Finish(m))
    /\ \A j \in Jobs : WF_vars(JobEnd(j)) /\ SF_vars(JobStop(j))

Spec == Init /\ [][Next]_vars /\ Fairness

-----------------------------------------------------------------------------
(* Properties *)

\* The variables have their kinds, and the counter of runPollCycle stays within the
\* limit.
TypeOK ==
    /\ context \in {"alive", "cancelled"}
    /\ loop \in Places
    /\ pending \in SUBSET Monitors
    /\ active \in 0..Concurrency
    /\ work \in [Monitors -> {"none", "running"} \cup Outcomes]
    /\ jobs \in [Jobs -> {"waiting", "running", "done"}]

\* Never more than WORKER_CONCURRENCY checks at once, through dispatch and refill
\* (runPollCycle lines 121 and 143).
BoundedConcurrency == Cardinality(Running) <= Concurrency

\* Outside a cycle no check runs and no result is left in a channel, however the
\* cycle ended: cycles never overlap, so no monitor is checked twice at once, and
\* a new poll query sees what the last cycle committed.
CyclesDoNotOverlap ==
    loop \in {"waiting", "fetching", "joining", "stopped"} => Running = {} /\ Sent = {}

\* When the loop has returned, and main closes the pool, nothing uses it.
QuietWhenStopped ==
    loop = "stopped" => Running = {} /\ \A j \in Jobs : jobs[j] = "done"

\* No more checks than the limit at once, and none, nor another job, once the worker
\* has stopped (runPollCycle, runWithHealth).
LimitsKept == BoundedConcurrency /\ QuietWhenStopped

\* The promise of CycleContract: checks never exceed the limit, nothing a poll found
\* is skipped or checked twice, cycles do not overlap, and the pool is closed when
\* no check and no job uses it (runPollCycle, the deferred receives of runWithHealth).
Promise == INSTANCE CycleContract WITH
    told <- context = "cancelled",
    todo <- pending,
    running <- Running,
    busy <- {j \in Jobs : jobs[j] = "running"},
    closed <- loop = "stopped"
ImplementsCycleContract == Promise!Spec

\* Every fetched monitor gets its check before the next poll, or the worker is
\* shutting down: neither slow nor failing checks of others starve it.
FetchedIsChecked ==
    \A m \in Monitors : m \in pending ~> m \in Running \/ context = "cancelled"

\* Every cycle ends, so polling goes on.
CycleEnds == loop \in {"dispatching", "selecting", "draining"} ~> loop = "waiting"

\* SIGTERM stops the worker, whatever it was doing.
ShutdownCompletes == context = "cancelled" ~> loop = "stopped"
=============================================================================
