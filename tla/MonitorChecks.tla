---------------------------- MODULE MonitorChecks ----------------------------
(***************************************************************************)
(* The life of a monitor row: the worker probes it and persists the        *)
(* outcome (checkAndPersist), while the API updates and deletes it, the    *)
(* seeds of an API restart rewrite it and the worker's own demo reset      *)
(* replaces it.  All of them meet only in PostgreSQL.                      *)
(*                                                                         *)
(* A check is split where other actors can interleave: the poll query,     *)
(* the start of the goroutine, the end of the probe, and each statement of *)
(* the transaction.  What the transaction writes becomes visible at its    *)
(* commit, and its row locks hold others back until then.                  *)
(*                                                                         *)
(* Abstracted: names, messages, latency and status codes; wall-clock time  *)
(* (last_checked_at is null, recent or elapsed); the concurrency limit of  *)
(* the poll cycle (any order and overlap of the fetched monitors is        *)
(* allowed here); retention, which only trims old history.                 *)
(***************************************************************************)
EXTENDS Integers, Sequences, FiniteSets

CONSTANTS
    Ids,            \* values of the serial column monitor.id, never reused
    MaxRequests,    \* bound: API requests in flight per monitor and kind
    Targets,        \* target URLs
    SeedTarget,     \* the target written in the seed manifests
    Threshold,      \* WORKER_FAILURE_THRESHOLD
    SlowCommits,    \* may a COMMIT outlive the client timeout that gave it up?
    MaxResults      \* bound: no monitor with this many results is fetched

ASSUME ThresholdAssumption == Threshold \in Nat \ {0}
ASSUME SeedTargetAssumption == SeedTarget \in Targets
ASSUME SlowCommitsAssumption == SlowCommits \in BOOLEAN
ASSUME BoundsAssumption == MaxResults \in Nat /\ MaxRequests \in Nat

VARIABLES
    phase,          \* phase[m]: "unborn", "live" or "deleted" row of table monitor
    monitor,        \* monitor[m]: the columns of the row
    check_result,   \* check_result[m]: its committed check_result rows, oldest first
    alert,          \* alert[m]: its committed alert rows, oldest first
    worker,         \* "running", "draining" (context cancelled) or "stopped"
    stage,          \* stage[m]: how far the worker's check of m has come
    snap,           \* snap[m]: the columns the poll query read
    probe,          \* probe[m]: the outcome of the network probe
    detached,       \* detached[m]: transactions whose client gave up on COMMIT
    updating,       \* updating[m]: PATCH requests past their findFirst
    deleting,       \* deleting[m]: DELETE requests past their findFirst
    retargeted      \* retargeted[m]: number of results when the target last changed

tables == <<phase, monitor, check_result, alert, retargeted>>
check == <<stage, snap, probe>>
requests == <<updating, deleting>>
vars == <<tables, worker, check, detached, requests>>

States == {"healthy", "unhealthy"}
LastStates == States \cup {"null"}
AlertTypes == {"down", "recovery"}
Accounts == {"user", "demo", "status"}

Row == [account : Accounts, seed_key : BOOLEAN, target : Targets,
        last_state : LastStates, last_checked_at : {"null", "recent", "elapsed"},
        consecutive_failures : Nat]
Snapshot == [target : Targets, last_state : LastStates, consecutive_failures : Nat]
\* aborted marks the outcome of a probe that the cancelled context interrupted;
\* the program cannot tell it from an outage.
Result == [state : States, target : Targets, aborted : BOOLEAN]
\* at is the check_result row of the same transaction (they share created_at).
Alert == [type : AlertTypes, at : Nat]
Write == [result : Result, last_state : LastStates, consecutive_failures : Nat,
          alert_type : AlertTypes \cup {"none"}]
Stages == {"idle", "queued", "probing", "probed", "inserted", "updated", "complete"}

-----------------------------------------------------------------------------
(* Tables and row locks. *)

Live(m) == phase[m] = "live"
Fresh == {m \in Ids : phase[m] = "unborn"}

NewRow(account, seedKey, target) ==
    [account |-> account, seed_key |-> seedKey, target |-> target,
     last_state |-> "null", last_checked_at |-> "null", consecutive_failures |-> 0]

\* Inserting a check_result takes FOR KEY SHARE on the monitor row it refers to
\* until the transaction ends: a DELETE of the row waits, an UPDATE does not.
KeyShared(m) == stage[m] \in {"inserted", "updated", "complete"} \/ detached[m] # <<>>

\* The transaction's own UPDATE of the row makes other updates wait too.
RowLocked(m) == stage[m] \in {"updated", "complete"} \/ detached[m] # <<>>

\* The due predicate of the poll query.
Due(m) == Live(m) /\ monitor[m].last_checked_at # "recent"

-----------------------------------------------------------------------------
(* evaluateFSM, a pure function of what the poll query read and the probe. *)

Succeeded(old, failures) ==
    [last_state |-> "healthy", consecutive_failures |-> failures,
     alert_type |-> IF old = "unhealthy" THEN "recovery" ELSE "none"]

Failed(old, failures, down) ==
    [last_state |-> IF down THEN "unhealthy" ELSE old,
     consecutive_failures |-> failures,
     alert_type |-> IF down THEN "down" ELSE "none"]

\* MUTANT: every failure beyond the threshold alerts, known outage or not.
evaluateFSMNagging(old, failures, state) ==
    IF state = "healthy" THEN Succeeded(old, 0)
    ELSE Failed(old, failures + 1, failures + 1 >= Threshold)

\* MUTANT: alerts one failure too early.
evaluateFSMHasty(old, failures, state) ==
    IF state = "healthy" THEN Succeeded(old, 0)
    ELSE Failed(old, failures + 1, old # "unhealthy" /\ failures + 2 >= Threshold)

\* MUTANT: alerts one failure too late.
evaluateFSMTardy(old, failures, state) ==
    IF state = "healthy" THEN Succeeded(old, 0)
    ELSE Failed(old, failures + 1, old # "unhealthy" /\ failures + 1 > Threshold)

evaluateFSM(old, failures, state) ==
    IF state = "healthy" THEN Succeeded(old, 0)
    ELSE Failed(old, failures + 1, old # "unhealthy" /\ failures + 1 >= Threshold)

Evaluation(m) ==
    evaluateFSM(snap[m].last_state, snap[m].consecutive_failures, probe[m].state)

\* What the transaction of the check of m leaves behind when it commits.
WriteSet(m) ==
    [result |-> probe[m], last_state |-> Evaluation(m).last_state,
     consecutive_failures |-> Evaluation(m).consecutive_failures,
     alert_type |-> Evaluation(m).alert_type]

\* The commit of write set w: result, state and alert appear in one step.  The
\* UPDATE has no other condition than the id.
Apply(m, w) ==
    /\ check_result' = [check_result EXCEPT ![m] = Append(@, w.result)]
    /\ monitor' = [monitor EXCEPT ![m] =
                     [@ EXCEPT !.last_state = w.last_state, !.last_checked_at = "recent",
                               !.consecutive_failures = w.consecutive_failures]]
    /\ alert' = IF w.alert_type = "none" THEN alert
                ELSE [alert EXCEPT ![m] =
                        Append(@, [type |-> w.alert_type, at |-> Len(check_result[m]) + 1])]
    /\ UNCHANGED <<phase, retargeted>>

-----------------------------------------------------------------------------
Blank == NewRow("user", FALSE, SeedTarget)
NoSnapshot == [target |-> SeedTarget, last_state |-> "null", consecutive_failures |-> 0]
NoProbe == [state |-> "healthy", target |-> SeedTarget, aborted |-> FALSE]

\* The API container seeds both special accounts before the worker first starts;
\* their monitors may or may not be there yet.
Init ==
    /\ phase = [m \in Ids |-> "unborn"]
    /\ monitor = [m \in Ids |-> Blank]
    /\ check_result = [m \in Ids |-> <<>>]
    /\ alert = [m \in Ids |-> <<>>]
    /\ retargeted = [m \in Ids |-> 0]
    /\ worker = "running"
    /\ stage = [m \in Ids |-> "idle"]
    /\ snap = [m \in Ids |-> NoSnapshot]
    /\ probe = [m \in Ids |-> NoProbe]
    /\ detached = [m \in Ids |-> <<>>]
    /\ updating = [m \in Ids |-> 0]
    /\ deleting = [m \in Ids |-> 0]

-----------------------------------------------------------------------------
(* Worker: the poll query and one goroutine per fetched monitor. *)

\* MUTANT: statements run detached from the cancelled context.
ContextNeverCancelled == worker # "stopped"

\* The context every probe and statement runs under is not cancelled.
ContextAlive == worker = "running"

\* Cycles are sequential: the next one fetches when the last has drained.
Fetch ==
    LET due == {m \in Ids : Due(m) /\ Len(check_result[m]) < MaxResults}
    IN /\ ContextAlive
       /\ \A m \in Ids : stage[m] = "idle"
       /\ due # {}
       /\ stage' = [m \in Ids |-> IF m \in due THEN "queued" ELSE "idle"]
       /\ snap' = [m \in Ids |->
                     IF m \in due
                     THEN [target |-> monitor[m].target,
                           last_state |-> monitor[m].last_state,
                           consecutive_failures |-> monitor[m].consecutive_failures]
                     ELSE NoSnapshot]
       /\ UNCHANGED <<tables, worker, probe, detached, requests>>

\* The goroutine of m ends: rollback of whatever was not committed.
Finish(m) ==
    /\ stage' = [stage EXCEPT ![m] = "idle"]
    /\ snap' = [snap EXCEPT ![m] = NoSnapshot]
    /\ probe' = [probe EXCEPT ![m] = NoProbe]

StartWork(m) ==
    /\ ContextAlive
    /\ stage[m] = "queued"
    /\ stage' = [stage EXCEPT ![m] = "probing"]
    /\ UNCHANGED <<tables, worker, snap, probe, detached, requests>>

\* The target answers as expected or fails to.  A probe whose context is
\* cancelled fails like an outage and returns no error either.
Probe(m) ==
    /\ stage[m] = "probing"
    /\ stage' = [stage EXCEPT ![m] = "probed"]
    /\ \E s \in States, aborted \in BOOLEAN :
         /\ aborted => worker = "draining" /\ s = "unhealthy"
         /\ probe' = [probe EXCEPT ![m] = [state |-> s, target |-> snap[m].target,
                                            aborted |-> aborted]]
    /\ UNCHANGED <<tables, worker, snap, detached, requests>>

\* A check_type that no checker registered: nothing is persisted, and the
\* monitor stays due.
CheckError(m) ==
    /\ stage[m] = "probing"
    /\ Finish(m)
    /\ UNCHANGED <<tables, worker, detached, requests>>

\* BEGIN under the worker's context, then the INSERT of the result: on a monitor
\* deleted meanwhile it violates the foreign key and the check is given up.
InsertResult(m) ==
    /\ ContextAlive
    /\ stage[m] = "probed"
    /\ IF Live(m)
       THEN /\ stage' = [stage EXCEPT ![m] = "inserted"]
            /\ UNCHANGED <<snap, probe>>
       ELSE Finish(m)
    /\ UNCHANGED <<tables, worker, detached, requests>>

\* The UPDATE waits for a transaction that still holds the row.  No row with
\* this id means the monitor was deleted: give up without a trace.
UpdateMonitor(m) ==
    /\ ContextAlive
    /\ stage[m] = "inserted"
    /\ detached[m] = <<>>
    /\ IF Live(m)
       THEN /\ stage' = [stage EXCEPT ![m] =
                           IF Evaluation(m).alert_type = "none" THEN "complete" ELSE "updated"]
            /\ UNCHANGED <<snap, probe>>
       ELSE Finish(m)
    /\ UNCHANGED <<tables, worker, detached, requests>>

InsertAlert(m) ==
    /\ ContextAlive
    /\ stage[m] = "updated"
    /\ stage' = [stage EXCEPT ![m] = "complete"]
    /\ UNCHANGED <<tables, worker, snap, probe, detached, requests>>

\* MUTANT: the goroutine may send the transaction again after a commit whose
\* acknowledgement it missed.
CommitRetried(m) ==
    /\ stage[m] = "complete"
    /\ Apply(m, WriteSet(m))
    /\ Finish(m) \/ UNCHANGED check
    /\ UNCHANGED <<worker, detached, requests>>

\* COMMIT takes effect, whether or not the worker hears of it.
Commit(m) ==
    /\ stage[m] = "complete"
    /\ Apply(m, WriteSet(m))
    /\ Finish(m)
    /\ UNCHANGED <<worker, detached, requests>>

\* COMMIT was sent, the client's deadline (or its process) is gone, and the
\* server is still flushing it: it holds its locks and shows nothing yet.
DetachCommit(m) ==
    /\ SlowCommits
    /\ stage[m] = "complete"
    /\ detached' = [detached EXCEPT ![m] = Append(@, WriteSet(m))]
    /\ Finish(m)
    /\ UNCHANGED <<tables, worker, requests>>

\* Any error or the expiry of the database timeout: the deferred ROLLBACK
\* discards the transaction.
PersistError(m) ==
    /\ stage[m] \in {"probed", "inserted", "updated", "complete"}
    /\ Finish(m)
    /\ UNCHANGED <<tables, worker, detached, requests>>

-----------------------------------------------------------------------------
(* PostgreSQL and the clock. *)

\* The server finishes a commit that its client gave up on, or loses it.
ResolveDetached(m) ==
    /\ detached[m] # <<>>
    /\ detached' = [detached EXCEPT ![m] = <<>>]
    /\ \/ Apply(m, Head(detached[m]))
       \/ UNCHANGED tables
    /\ UNCHANGED <<worker, check, requests>>

\* frequency seconds have passed since last_checked_at.
Elapse(m) ==
    /\ Live(m)
    /\ monitor[m].last_checked_at = "recent"
    /\ monitor' = [monitor EXCEPT ![m] = [@ EXCEPT !.last_checked_at = "elapsed"]]
    /\ UNCHANGED <<phase, check_result, alert, retargeted, worker, check, detached, requests>>

-----------------------------------------------------------------------------
(* Worker process: SIGTERM, restart, crash, and the demo reset it runs. *)

\* The context is cancelled: what is not started never will be.
Shutdown ==
    /\ worker = "running"
    /\ worker' = "draining"
    /\ stage' = [m \in Ids |-> IF stage[m] = "queued" THEN "idle" ELSE stage[m]]
    /\ snap' = [m \in Ids |-> IF stage[m] = "queued" THEN NoSnapshot ELSE snap[m]]
    /\ UNCHANGED <<tables, probe, detached, requests>>

Drained ==
    /\ worker = "draining"
    /\ \A m \in Ids : stage[m] = "idle"
    /\ worker' = "stopped"
    /\ UNCHANGED <<tables, check, detached, requests>>

\* The process dies; PostgreSQL rolls its open transactions back.
Crash ==
    /\ worker # "stopped"
    /\ worker' = "stopped"
    /\ stage' = [m \in Ids |-> "idle"]
    /\ snap' = [m \in Ids |-> NoSnapshot]
    /\ probe' = [m \in Ids |-> NoProbe]
    /\ UNCHANGED <<tables, detached, requests>>

Restart ==
    /\ worker = "stopped"
    /\ worker' = "running"
    /\ UNCHANGED <<tables, check, detached, requests>>

\* MUTANT: no cascade, and nobody deletes the alerts.
RemoveKeepsAlerts(gone) ==
    /\ check_result' = [m \in Ids |-> IF m \in gone THEN <<>> ELSE check_result[m]]
    /\ alert' = alert
    /\ retargeted' = [m \in Ids |-> IF m \in gone THEN 0 ELSE retargeted[m]]

\* The rows of gone with their results and alerts, in one transaction.
Remove(gone) ==
    /\ check_result' = [m \in Ids |-> IF m \in gone THEN <<>> ELSE check_result[m]]
    /\ alert' = [m \in Ids |-> IF m \in gone THEN <<>> ELSE alert[m]]
    /\ retargeted' = [m \in Ids |-> IF m \in gone THEN 0 ELSE retargeted[m]]

\* All monitors of the demo account go and the manifest's (here: one) comes back
\* with a new id.  The DELETE waits for every check holding one of the rows.
DemoReset ==
    LET gone == {m \in Ids : Live(m) /\ monitor[m].account = "demo"}
    IN /\ ContextAlive
       /\ \A m \in gone : ~KeyShared(m)
       /\ \E new \in Fresh :
            /\ phase' = [m \in Ids |-> IF m \in gone THEN "deleted"
                                       ELSE IF m = new THEN "live" ELSE phase[m]]
            /\ monitor' = [m \in Ids |-> IF m \in gone THEN Blank
                                         ELSE IF m = new THEN NewRow("demo", TRUE, SeedTarget)
                                         ELSE monitor[m]]
       /\ Remove(gone)
       /\ UNCHANGED <<worker, check, detached, requests>>

-----------------------------------------------------------------------------
(* API: monitors.service.ts and the seeds of its entrypoint. *)

Insert(m, row) ==
    /\ phase' = [phase EXCEPT ![m] = "live"]
    /\ monitor' = [monitor EXCEPT ![m] = row]
    /\ UNCHANGED <<check_result, alert, retargeted>>

CreateMonitor(m) ==
    /\ m \in Fresh
    /\ \E account \in {"user", "demo"}, target \in Targets :
         Insert(m, NewRow(account, FALSE, target))
    /\ UNCHANGED <<worker, check, detached, requests>>

\* The findFirst of updateMonitor and of deleteMonitor; nobody can sign in as
\* the owner of the status monitors.
FindForUpdate(m) ==
    /\ Live(m) /\ monitor[m].account # "status"
    /\ updating[m] < MaxRequests
    /\ updating' = [updating EXCEPT ![m] = @ + 1]
    /\ UNCHANGED <<tables, worker, check, detached, deleting>>

FindForDelete(m) ==
    /\ Live(m) /\ monitor[m].account # "status"
    /\ deleting[m] < MaxRequests
    /\ deleting' = [deleting EXCEPT ![m] = @ + 1]
    /\ UNCHANGED <<tables, worker, check, detached, updating>>

\* A change of target leaves last_state, last_checked_at and the count of
\* failures as they are.
SetTarget(m, target) ==
    retargeted' = [retargeted EXCEPT ![m] =
                     IF monitor[m].target = target THEN @ ELSE Len(check_result[m])]

\* A new target, or a new frequency, which moves the time the monitor is due.
UpdateRow(m) ==
    /\ updating[m] > 0 /\ Live(m) /\ ~RowLocked(m)
    /\ updating' = [updating EXCEPT ![m] = @ - 1]
    /\ \E target \in Targets,
          checked \in IF monitor[m].last_checked_at = "null" THEN {"null"}
                      ELSE {"recent", "elapsed"} :
         /\ monitor' = [monitor EXCEPT ![m] =
                          [@ EXCEPT !.target = target, !.last_checked_at = checked]]
         /\ SetTarget(m, target)
    /\ UNCHANGED <<phase, check_result, alert, worker, check, detached, deleting>>

\* Results, alerts and the row, in one transaction that waits for a check
\* holding the row; what that check committed goes with ON DELETE CASCADE.
DeleteRow(m) ==
    /\ deleting[m] > 0 /\ Live(m) /\ ~KeyShared(m)
    /\ deleting' = [deleting EXCEPT ![m] = @ - 1]
    /\ phase' = [phase EXCEPT ![m] = "deleted"]
    /\ monitor' = [monitor EXCEPT ![m] = Blank]
    /\ Remove({m})
    /\ UNCHANGED <<worker, check, detached, updating>>

\* The row went away after the findFirst: Prisma raises P2025.
RequestFails(m) ==
    /\ ~Live(m)
    /\ \/ updating[m] > 0 /\ updating' = [updating EXCEPT ![m] = @ - 1] /\ UNCHANGED deleting
       \/ deleting[m] > 0 /\ deleting' = [deleting EXCEPT ![m] = @ - 1] /\ UNCHANGED updating
    /\ UNCHANGED <<tables, worker, check, detached>>

\* A start of the API container upserts the manifest monitor of an account by
\* its seed_key.  The update clears the count of failures but not last_state.
SeedUpdate(m) ==
    /\ Live(m) /\ monitor[m].seed_key /\ ~RowLocked(m)
    /\ monitor' = [monitor EXCEPT ![m] =
                     [@ EXCEPT !.target = SeedTarget, !.consecutive_failures = 0]]
    /\ SetTarget(m, SeedTarget)
    /\ UNCHANGED <<phase, check_result, alert, worker, check, detached, requests>>

SeedCreate(m) ==
    /\ m \in Fresh
    /\ \E account \in {"demo", "status"} :
         /\ \A n \in Ids : ~(Live(n) /\ monitor[n].seed_key /\ monitor[n].account = account)
         /\ Insert(m, NewRow(account, TRUE, SeedTarget))
    /\ UNCHANGED <<worker, check, detached, requests>>

-----------------------------------------------------------------------------
CheckStep(m) ==
    \/ StartWork(m) \/ Probe(m) \/ CheckError(m)
    \/ InsertResult(m) \/ UpdateMonitor(m) \/ InsertAlert(m)
    \/ Commit(m) \/ DetachCommit(m) \/ PersistError(m)

ApiStep(m) ==
    \/ CreateMonitor(m) \/ FindForUpdate(m) \/ FindForDelete(m)
    \/ UpdateRow(m) \/ DeleteRow(m) \/ RequestFails(m)
    \/ SeedUpdate(m) \/ SeedCreate(m)

Next ==
    \/ Fetch \/ Shutdown \/ Drained \/ Crash \/ Restart \/ DemoReset
    \/ \E m \in Ids : CheckStep(m) \/ ApiStep(m) \/ ResolveDetached(m) \/ Elapse(m)

Spec == Init /\ [][Next]_vars

-----------------------------------------------------------------------------
(* Properties *)

TablesOK ==
    /\ phase \in [Ids -> {"unborn", "live", "deleted"}]
    /\ monitor \in [Ids -> Row]
    /\ check_result \in [Ids -> Seq(Result)]
    /\ alert \in [Ids -> Seq(Alert)]
    /\ retargeted \in [Ids -> Nat]

CheckOK ==
    /\ stage \in [Ids -> Stages]
    /\ snap \in [Ids -> Snapshot]
    /\ probe \in [Ids -> Result]

\* The variables hold rows, snapshots, outcomes and write sets of their kinds:
\* in particular the failure count of a row never becomes negative, whatever
\* seeds and stale snapshots write.
TypeOK ==
    /\ TablesOK
    /\ CheckOK
    /\ worker \in {"running", "draining", "stopped"}
    /\ detached \in [Ids -> Seq(Write)]
    /\ updating \in [Ids -> Nat]
    /\ deleting \in [Ids -> Nat]

\* n results in a row, up to and including result k of m, are unhealthy.
UnhealthyRun(m, k, n) ==
    /\ n <= k
    /\ \A i \in (k - n + 1)..k : check_result[m][i].state = "unhealthy"

\* The alerts of m alternate, starting with "down", and last_state tells which
\* was the newest.
Alternate(m) ==
    /\ \A i \in 1..Len(alert[m]) :
         alert[m][i].type = "down" <=> i = 1 \/ alert[m][i-1].type = "recovery"
    /\ monitor[m].last_state = "unhealthy" <=>
         alert[m] # <<>> /\ alert[m][Len(alert[m])].type = "down"

\* An alert is recorded only on a state transition, and every transition to or
\* from "unhealthy" has its alert (loop.go evaluateFSM and the single transaction
\* of checkAndPersist).
AlertsAlternate == \A m \in Ids : Alternate(m)

\* Alert a of m is explained by the result of its transaction: a "down" ends a run
\* of at least Threshold unhealthy results, a "recovery" is a healthy one.
Earned(m, a) ==
    /\ a.at \in 1..Len(check_result[m])
    /\ a.type = "down" => UnhealthyRun(m, a.at, Threshold)
    /\ a.type = "recovery" => check_result[m][a.at].state = "healthy"

\* Every alert is earned by results on record, whatever seeds, updates, crashes
\* and restarts came in between.
AlertsEarned == \A m \in Ids : \A i \in 1..Len(alert[m]) : Earned(m, alert[m][i])

\* On a monitor no seed rewrites, Threshold unhealthy results in a row leave
\* last_state "unhealthy"; a healthy result always leaves "healthy" and no failures.
Noticed(m) ==
    LET n == Len(check_result[m])
    IN /\ ~monitor[m].seed_key /\ UnhealthyRun(m, n, Threshold)
            => monitor[m].last_state = "unhealthy"
       /\ n > 0 /\ check_result[m][n].state = "healthy"
            => monitor[m].last_state = "healthy" /\ monitor[m].consecutive_failures = 0

\* No outage is missed, and by AlertsAlternate it has an open "down".
OutageNoticed == \A m \in Ids : Noticed(m)

\* Results and alerts belong to live rows only, however a deletion or the demo
\* reset meets a check in flight.
NoOrphans ==
    \A m \in Ids : ~Live(m) => check_result[m] = <<>> /\ alert[m] = <<>>

\* The failure of a probe that SIGTERM interrupted is never recorded, although
\* HTTPChecker.Check reports it as "unhealthy" without an error.
NoAbortedProbeRecorded ==
    \A m \in Ids : \A i \in 1..Len(check_result[m]) : ~check_result[m][i].aborted

\* A row that is gone leaves no results and no alerts, whoever deleted it and
\* whatever its check was doing, and an interrupted probe is not recorded
\* (deleteMonitor, demoreset.Reset, checkAndPersist, HTTPChecker.Check).
RowsJustified == NoOrphans /\ NoAbortedProbeRecorded

\* After a change of target at most one more result, that of the check already
\* in flight, is about the old one.
OneStaleResult ==
    \A m \in Ids : \A i \in 1..Len(check_result[m]) :
      i > retargeted[m] + 1 => check_result[m][i].target = monitor[m].target

\* The tables implement the alert contract: every step on them, of whichever
\* actor, is an observation with its alert, a deletion, or invisible to it.
Contract == INSTANCE AlertContract WITH
    log <- [m \in Ids |-> [i \in 1..Len(check_result[m]) |-> check_result[m][i].state]],
    open <- [m \in Ids |-> monitor[m].last_state = "unhealthy"],
    events <- [m \in Ids |-> [i \in 1..Len(alert[m]) |-> alert[m][i].type]]
ImplementsAlertContract == Contract!Spec
=============================================================================
