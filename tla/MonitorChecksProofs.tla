------------------------- MODULE MonitorChecksProofs -------------------------
(* Proofs about MonitorChecks for every set of monitors and every threshold. *)
EXTENDS MonitorChecks, TLAPS

-----------------------------------------------------------------------------
(* Type correctness *)

\* The values a check and a row start from have their types.
LEMMA BlanksOK ==
    /\ Blank \in Row
    /\ NoSnapshot \in Snapshot
    /\ NoProbe \in Result
    /\ \A a \in Accounts, k \in BOOLEAN, t \in Targets : NewRow(a, k, t) \in Row
  BY SeedTargetAssumption
  DEF Blank, NoSnapshot, NoProbe, NewRow, Row, Snapshot, Result, Accounts, LastStates, States

\* What a transaction writes is a write set.
LEMMA WriteSetOK ==
  ASSUME TypeOK, NEW m \in Ids
  PROVE  WriteSet(m) \in Write
<1>1. snap[m] \in Snapshot /\ probe[m] \in Result
  BY DEF TypeOK, CheckOK
<1>2. Evaluation(m).last_state \in LastStates
      /\ Evaluation(m).consecutive_failures \in Nat
      /\ Evaluation(m).alert_type \in AlertTypes \cup {"none"}
  BY <1>1 DEF Evaluation, evaluateFSM, Succeeded, Failed, Snapshot, Result, LastStates, States, AlertTypes
<1> QED
  BY <1>1, <1>2 DEF WriteSet, Write

\* A commit keeps the tables well typed.
LEMMA ApplyOK ==
  ASSUME TablesOK, NEW m \in Ids, NEW w \in Write, Apply(m, w)
  PROVE  TablesOK'
<1>1. w.result \in Result /\ w.last_state \in LastStates
      /\ w.consecutive_failures \in Nat /\ w.alert_type \in AlertTypes \cup {"none"}
  BY DEF Write
<1>2. monitor' \in [Ids -> Row]
  BY <1>1 DEF Apply, TablesOK, Row
<1>3. check_result' \in [Ids -> Seq(Result)]
  BY <1>1 DEF Apply, TablesOK
<1>4. alert' \in [Ids -> Seq(Alert)]
  <2>1. Len(check_result[m]) + 1 \in Nat
    BY DEF TablesOK
  <2>2. w.alert_type # "none" =>
          [type |-> w.alert_type, at |-> Len(check_result[m]) + 1] \in Alert
    BY <1>1, <2>1 DEF Alert
  <2> QED
    BY <2>2 DEF Apply, TablesOK
<1> QED
  BY <1>2, <1>3, <1>4 DEF Apply, TablesOK

\* So does a goroutine that ends.
LEMMA FinishOK ==
  ASSUME CheckOK, NEW m \in Ids, Finish(m)
  PROVE  CheckOK'
  BY BlanksOK DEF CheckOK, Finish, Stages

LEMMA RemoveOK ==
  ASSUME TablesOK, NEW gone, Remove(gone)
  PROVE  /\ check_result' \in [Ids -> Seq(Result)]
         /\ alert' \in [Ids -> Seq(Alert)]
         /\ retargeted' \in [Ids -> Nat]
  BY DEF TablesOK, Remove

LEMMA InsertOK ==
  ASSUME TablesOK, NEW m \in Ids, NEW row \in Row, Insert(m, row)
  PROVE  TablesOK'
  BY DEF TablesOK, Insert

LEMMA InitType == Init => TypeOK
  BY BlanksOK DEF Init, TypeOK, TablesOK, CheckOK, Stages

\* The steps of a check.
LEMMA CheckStepType ==
  ASSUME TypeOK, NEW m \in Ids, CheckStep(m)
  PROVE  TypeOK'
<1> USE DEF TypeOK, requests
<1>1. CASE StartWork(m)
  BY <1>1 DEF StartWork, tables, TablesOK, CheckOK, Stages
<1>2. CASE Probe(m)
  <2>1. PICK s \in States, aborted \in BOOLEAN :
          probe' = [probe EXCEPT ![m] = [state |-> s, target |-> snap[m].target,
                                         aborted |-> aborted]]
    BY <1>2 DEF Probe
  <2>2. probe' \in [Ids -> Result]
    BY <2>1 DEF CheckOK, Snapshot, Result
  <2> QED
    BY <1>2, <2>2 DEF Probe, tables, TablesOK, CheckOK, Stages
<1>3. CASE CheckError(m)
  BY <1>3, FinishOK DEF CheckError, tables, TablesOK
<1>4. CASE InsertResult(m)
  <2>1. CheckOK'
    BY <1>4, FinishOK DEF InsertResult, CheckOK, Stages
  <2> QED
    BY <1>4, <2>1 DEF InsertResult, tables, TablesOK
<1>5. CASE UpdateMonitor(m)
  <2>1. CheckOK'
    BY <1>5, FinishOK DEF UpdateMonitor, CheckOK, Stages
  <2> QED
    BY <1>5, <2>1 DEF UpdateMonitor, tables, TablesOK
<1>6. CASE InsertAlert(m)
  BY <1>6 DEF InsertAlert, tables, TablesOK, CheckOK, Stages
<1>7. CASE Commit(m)
  BY <1>7, WriteSetOK, ApplyOK, FinishOK DEF Commit
<1>8. CASE DetachCommit(m)
  BY <1>8, WriteSetOK, FinishOK DEF DetachCommit, tables, TablesOK
<1>9. CASE PersistError(m)
  BY <1>9, FinishOK DEF PersistError, tables, TablesOK
<1> QED
  BY <1>1, <1>2, <1>3, <1>4, <1>5, <1>6, <1>7, <1>8, <1>9 DEF CheckStep

\* The steps of the API and of its seeds.
LEMMA ApiStepType ==
  ASSUME TypeOK, NEW m \in Ids, ApiStep(m)
  PROVE  TypeOK'
<1> USE DEF TypeOK, requests, check, tables
<1>1. CASE CreateMonitor(m)
  <2>1. PICK account \in {"user", "demo"}, target \in Targets :
          Insert(m, NewRow(account, FALSE, target))
    BY <1>1 DEF CreateMonitor
  <2>2. NewRow(account, FALSE, target) \in Row
    BY BlanksOK DEF Accounts
  <2> QED
    BY <1>1, <2>1, <2>2, InsertOK DEF CreateMonitor, CheckOK
<1>2. CASE FindForUpdate(m)
  BY <1>2 DEF FindForUpdate, TablesOK, CheckOK
<1>3. CASE FindForDelete(m)
  BY <1>3 DEF FindForDelete, TablesOK, CheckOK
<1>4. CASE UpdateRow(m)
  <2>1. PICK target \in Targets, checked \in {"null", "recent", "elapsed"} :
          /\ monitor' = [monitor EXCEPT ![m] =
                          [@ EXCEPT !.target = target, !.last_checked_at = checked]]
          /\ SetTarget(m, target)
    BY <1>4 DEF UpdateRow
  <2>2. monitor' \in [Ids -> Row]
    BY <2>1 DEF TablesOK, Row
  <2>3. retargeted' \in [Ids -> Nat]
    BY <2>1 DEF SetTarget, TablesOK
  <2>4. updating' \in [Ids -> Nat]
    BY <1>4 DEF UpdateRow
  <2> QED
    BY <1>4, <2>2, <2>3, <2>4 DEF UpdateRow, TablesOK, CheckOK
<1>5. CASE DeleteRow(m)
  BY <1>5, BlanksOK, RemoveOK DEF DeleteRow, TablesOK, CheckOK
<1>6. CASE RequestFails(m)
  <2>1. updating' \in [Ids -> Nat] /\ deleting' \in [Ids -> Nat]
    <3>1. CASE updating[m] > 0 /\ updating' = [updating EXCEPT ![m] = @ - 1] /\ UNCHANGED deleting
      BY <3>1
    <3>2. CASE deleting[m] > 0 /\ deleting' = [deleting EXCEPT ![m] = @ - 1] /\ UNCHANGED updating
      BY <3>2
    <3> QED
      BY <1>6, <3>1, <3>2 DEF RequestFails
  <2> QED
    BY <1>6, <2>1 DEF RequestFails, TablesOK, CheckOK
<1>7. CASE SeedUpdate(m)
  <2>1. monitor' \in [Ids -> Row]
    BY <1>7, SeedTargetAssumption DEF SeedUpdate, TablesOK, Row
  <2>2. retargeted' \in [Ids -> Nat]
    BY <1>7 DEF SeedUpdate, SetTarget, TablesOK
  <2> QED
    BY <1>7, <2>1, <2>2 DEF SeedUpdate, TablesOK, CheckOK
<1>8. CASE SeedCreate(m)
  <2>1. PICK account \in {"demo", "status"} : Insert(m, NewRow(account, TRUE, SeedTarget))
    BY <1>8 DEF SeedCreate
  <2>2. NewRow(account, TRUE, SeedTarget) \in Row
    BY BlanksOK, SeedTargetAssumption DEF Accounts
  <2> QED
    BY <1>8, <2>1, <2>2, InsertOK DEF SeedCreate, CheckOK
<1> QED
  BY <1>1, <1>2, <1>3, <1>4, <1>5, <1>6, <1>7, <1>8 DEF ApiStep

\* The steps of the worker process and of the server.
LEMMA OtherStepType ==
  ASSUME TypeOK,
         \/ Fetch \/ Shutdown \/ Drained \/ Crash \/ Restart \/ DemoReset
         \/ \E m \in Ids : ResolveDetached(m) \/ Elapse(m)
  PROVE  TypeOK'
<1> USE DEF TypeOK, requests, check, tables
<1>1. CASE Fetch
  <2>1. CheckOK'
    BY <1>1, BlanksOK DEF Fetch, CheckOK, TablesOK, Stages, Row, Snapshot
  <2> QED
    BY <1>1, <2>1 DEF Fetch, TablesOK
<1>2. CASE Shutdown
  BY <1>2, BlanksOK DEF Shutdown, TablesOK, CheckOK, Stages
<1>3. CASE Drained
  BY <1>3 DEF Drained, TablesOK, CheckOK
<1>4. CASE Crash
  BY <1>4, BlanksOK DEF Crash, TablesOK, CheckOK, Stages
<1>5. CASE Restart
  BY <1>5 DEF Restart, TablesOK, CheckOK
<1>6. CASE DemoReset
  <2> DEFINE gone == {m \in Ids : Live(m) /\ monitor[m].account = "demo"}
  <2>1. Remove(gone) /\ UNCHANGED <<worker, check, detached, requests>>
    BY <1>6 DEF DemoReset
  <2>2. NewRow("demo", TRUE, SeedTarget) \in Row
    BY BlanksOK, SeedTargetAssumption DEF Accounts
  <2>3. phase' \in [Ids -> {"unborn", "live", "deleted"}] /\ monitor' \in [Ids -> Row]
    BY <1>6, <2>2, BlanksOK DEF DemoReset, TablesOK
  <2> QED
    BY <2>1, <2>3, RemoveOK DEF TablesOK, CheckOK
<1>7. CASE \E m \in Ids : ResolveDetached(m)
  <2>1. PICK m \in Ids : ResolveDetached(m)
    BY <1>7
  <2>2. detached' \in [Ids -> Seq(Write)] /\ Head(detached[m]) \in Write
    BY <2>1 DEF ResolveDetached
  <2> QED
    BY <2>1, <2>2, ApplyOK DEF ResolveDetached, TablesOK, CheckOK
<1>8. CASE \E m \in Ids : Elapse(m)
  <2>1. PICK m \in Ids : Elapse(m)
    BY <1>8
  <2> DEFINE row == [monitor[m] EXCEPT !.last_checked_at = "elapsed"]
  <2>2. row \in Row
    BY <2>1 DEF TablesOK, Row
  <2>3. monitor' = [monitor EXCEPT ![m] = row]
    BY <2>1 DEF Elapse
  <2>4. monitor' \in [Ids -> Row]
    <3> HIDE DEF row
    <3> QED
      BY <2>2, <2>3 DEF TablesOK
  <2> QED
    BY <2>1, <2>4 DEF Elapse, TablesOK, CheckOK
<1> QED
  BY <1>1, <1>2, <1>3, <1>4, <1>5, <1>6, <1>7, <1>8

LEMMA NextType ==
  ASSUME TypeOK, [Next]_vars
  PROVE  TypeOK'
<1>1. CASE UNCHANGED vars
  BY <1>1 DEF vars, tables, check, requests, TypeOK, TablesOK, CheckOK
<1>2. CASE Next
  BY <1>2, CheckStepType, ApiStepType, OtherStepType DEF Next
<1> QED
  BY <1>1, <1>2

\* Every reachable state is well typed.
THEOREM TypeCorrect == Spec => []TypeOK
<1>1. TypeOK /\ [Next]_vars => TypeOK'
  BY NextType
<1> QED
  BY InitType, <1>1, PTL DEF Spec

-----------------------------------------------------------------------------
(* The alert invariants, when no commit outlives its client *)

\* The failure count f of m stops at a healthy result, or at the first result.
Exact(m, f) ==
    LET n == Len(check_result[m]) IN f < n => check_result[m][n - f].state = "healthy"

\* What holds of the tables of m: a row that is not live is blank and has no
\* history; the failure count is backed by results on record, and exactly counts
\* them unless seeds rewrite the row.
RowGood(m) ==
    /\ ~Live(m) => /\ check_result[m] = <<>> /\ alert[m] = <<>>
                   /\ monitor[m].last_state = "null"
                   /\ monitor[m].consecutive_failures = 0
    /\ Alternate(m)
    /\ \A i \in 1..Len(alert[m]) : Earned(m, alert[m][i])
    /\ Noticed(m)
    /\ UnhealthyRun(m, Len(check_result[m]), monitor[m].consecutive_failures)
    /\ ~monitor[m].seed_key =>
         /\ Exact(m, monitor[m].consecutive_failures)
         /\ monitor[m].consecutive_failures >= Threshold => monitor[m].last_state = "unhealthy"

\* What holds of the check of m: as long as the row lives, what the poll query
\* read is still true of it.  Only the check itself writes last_state, and a seed
\* that clears the count of failures leaves the count read before justified.
CheckGood(m) ==
    /\ detached[m] = <<>>
    /\ stage[m] # "idle" =>
         /\ phase[m] # "unborn"
         /\ Live(m) =>
              /\ snap[m].last_state = monitor[m].last_state
              /\ UnhealthyRun(m, Len(check_result[m]), snap[m].consecutive_failures)
              /\ ~monitor[m].seed_key =>
                   snap[m].consecutive_failures = monitor[m].consecutive_failures
    /\ stage[m] \in {"inserted", "updated", "complete"} => Live(m)

AlertInvariant == TypeOK /\ \A m \in Ids : RowGood(m) /\ CheckGood(m)

\* A step leaves what RowGood(m) is about as it is.
RowFrame(m) ==
    /\ phase'[m] = phase[m]
    /\ check_result'[m] = check_result[m]
    /\ alert'[m] = alert[m]
    /\ monitor'[m].last_state = monitor[m].last_state
    /\ monitor'[m].seed_key = monitor[m].seed_key
    /\ monitor'[m].consecutive_failures = monitor[m].consecutive_failures

\* A step ends the check of m, or carries it on with the same snapshot.
CheckFrame(m) ==
    /\ detached'[m] = detached[m]
    /\ \/ stage'[m] = "idle"
       \/ snap'[m] = snap[m] /\ stage'[m] = stage[m]
       \/ /\ snap'[m] = snap[m]
          /\ stage[m] # "idle"
          /\ stage'[m] \in {"inserted", "updated", "complete"} => Live(m)

LEMMA FrameGood ==
  ASSUME NEW m \in Ids, RowGood(m), CheckGood(m), RowFrame(m), CheckFrame(m)
  PROVE  RowGood(m)' /\ CheckGood(m)'
<1>1. Alternate(m)'
  BY DEF RowGood, RowFrame, Alternate
<1>2. \A i \in 1..Len(alert'[m]) : Earned(m, alert[m][i])'
  BY DEF RowGood, RowFrame, Earned, UnhealthyRun
<1>3. Noticed(m)'
  BY DEF RowGood, RowFrame, Noticed, UnhealthyRun
<1>4. RowGood(m)'
  BY <1>1, <1>2, <1>3 DEF RowGood, RowFrame, Exact, UnhealthyRun, Live
<1>5. CheckGood(m)'
  BY DEF CheckGood, RowFrame, CheckFrame, UnhealthyRun, Live
<1> QED
  BY <1>4, <1>5

\* A blank row, or a new one, has nothing to explain.
LEMMA EmptyGood ==
  ASSUME TypeOK', NEW m \in Ids,
         check_result'[m] = <<>>, alert'[m] = <<>>,
         monitor'[m].last_state = "null", monitor'[m].consecutive_failures = 0
  PROVE  RowGood(m)'
<1>1. Len(check_result'[m]) = 0 /\ Len(alert'[m]) = 0
  OBVIOUS
<1>2. Alternate(m)'
  BY <1>1 DEF Alternate
<1>3. UnhealthyRun(m, 0, 0)' /\ ~UnhealthyRun(m, 0, Threshold)'
  BY <1>1, ThresholdAssumption DEF UnhealthyRun
<1>4. Noticed(m)'
  BY <1>1, <1>3 DEF Noticed
<1> QED
  BY <1>1, <1>2, <1>3, <1>4, ThresholdAssumption DEF RowGood, Exact

\* An alert of the other kind than the last one keeps a sequence alternating.
LEMMA AppendAlternates ==
  ASSUME NEW A, NEW B, NEW k \in Nat,
         \A i \in 1..k : B[i] = A[i],
         \A i \in 1..k : A[i].type = "down" <=> i = 1 \/ A[i-1].type = "recovery",
         B[k+1].type = "down" <=> k = 0 \/ A[k].type = "recovery"
  PROVE  \A i \in 1..(k+1) : B[i].type = "down" <=> i = 1 \/ B[i-1].type = "recovery"
<1> SUFFICES ASSUME NEW i \in 1..(k+1)
             PROVE  B[i].type = "down" <=> i = 1 \/ B[i-1].type = "recovery"
  OBVIOUS
<1>1. CASE i = k + 1
  <2>1. k # 0 => B[k] = A[k]
    OBVIOUS
  <2> QED
    BY <1>1, <2>1
<1>2. CASE i \in 1..k
  <2>1. i # 1 => i - 1 \in 1..k
    BY <1>2
  <2> QED
    BY <1>2, <2>1
<1> QED
  BY <1>1, <1>2

\* The heart of the argument: the commit of a check.
LEMMA CommitGood ==
  ASSUME TypeOK, NEW m \in Ids, RowGood(m), CheckGood(m), Commit(m)
  PROVE  RowGood(m)' /\ CheckGood(m)'
<1>n. PICK n \in Nat : n = Len(check_result[m])
  BY DEF TypeOK, TablesOK
<1>f. PICK f \in Nat : f = snap[m].consecutive_failures
  BY DEF TypeOK, CheckOK, Snapshot
<1>s. PICK s \in States : s = probe[m].state
  BY DEF TypeOK, CheckOK, Result
<1>o. PICK old \in LastStates : old = snap[m].last_state
  BY DEF TypeOK, CheckOK, Snapshot
<1>e. PICK e : e = Evaluation(m)
  OBVIOUS
<1>k. PICK k \in Nat : k = Len(alert[m])
  BY DEF TypeOK, TablesOK
<1>1. /\ Live(m) /\ old = monitor[m].last_state
      /\ UnhealthyRun(m, n, f)
      /\ ~monitor[m].seed_key => f = monitor[m].consecutive_failures
  BY <1>n, <1>f, <1>o DEF Commit, CheckGood
<1>3. /\ Len(check_result'[m]) = n + 1
      /\ check_result'[m][n + 1].state = s
      /\ \A i \in 1..n : check_result'[m][i] = check_result[m][i]
  BY <1>n, <1>s DEF Commit, Apply, WriteSet, TypeOK, TablesOK, CheckOK
<1>4. /\ phase'[m] = phase[m]
      /\ monitor'[m].last_state = e.last_state
      /\ monitor'[m].seed_key = monitor[m].seed_key
      /\ monitor'[m].consecutive_failures = e.consecutive_failures
      /\ stage'[m] = "idle" /\ detached'[m] = detached[m]
  BY <1>e DEF Commit, Apply, Finish, WriteSet, TypeOK, TablesOK, CheckOK, Row
<1>5. /\ e.alert_type = "none" => alert'[m] = alert[m]
      /\ e.alert_type # "none" =>
           alert'[m] = Append(alert[m], [type |-> e.alert_type, at |-> n + 1])
  BY <1>e, <1>n DEF Commit, Apply, WriteSet, TypeOK, TablesOK
<1>6. \A i \in 1..k : alert[m][i] \in Alert /\ alert'[m][i] = alert[m][i]
  <2>1. alert[m] \in Seq(Alert)
    BY DEF TypeOK, TablesOK
  <2> QED
    BY <2>1, <1>k, <1>5
<1>7. /\ e.alert_type = "none" => Len(alert'[m]) = k
      /\ e.alert_type # "none" =>
           /\ Len(alert'[m]) = k + 1
           /\ alert'[m][k + 1].type = e.alert_type
           /\ alert'[m][k + 1].at = n + 1
  <2>1. alert[m] \in Seq(Alert)
    BY DEF TypeOK, TablesOK
  <2> QED
    BY <2>1, <1>k, <1>5
<1>8. \A j \in 0..n, t \in Nat : UnhealthyRun(m, j, t) => UnhealthyRun(m, j, t)'
  <2> SUFFICES ASSUME NEW j \in 0..n, NEW t \in Nat, UnhealthyRun(m, j, t)
               PROVE  UnhealthyRun(m, j, t)'
    OBVIOUS
  <2>1. t <= j /\ \A i \in (j - t + 1)..j : check_result[m][i].state = "unhealthy"
    BY DEF UnhealthyRun
  <2>2. \A i \in (j - t + 1)..j : check_result'[m][i] = check_result[m][i]
    BY <2>1, <1>3
  <2> QED
    BY <2>1, <2>2 DEF UnhealthyRun
<1>9. \A i \in 1..k : Earned(m, alert[m][i])'
  <2> SUFFICES ASSUME NEW i \in 1..k PROVE Earned(m, alert[m][i])'
    OBVIOUS
  <2>1. Earned(m, alert[m][i]) /\ alert'[m][i] = alert[m][i]
    BY <1>6, <1>k DEF RowGood
  <2> QED
    BY <2>1, <1>n, <1>3, <1>8, ThresholdAssumption DEF Earned
<1>g. ASSUME e.alert_type = "none", e.last_state = "unhealthy" <=> old = "unhealthy"
      PROVE  Alternate(m)'
  BY <1>g, <1>1, <1>4, <1>5 DEF RowGood, Alternate
<1>h. ASSUME e.alert_type = "recovery", old = "unhealthy", e.last_state = "healthy"
      PROVE  Alternate(m)'
  <2>1. k # 0 /\ alert[m][k].type = "down"
    BY <1>h, <1>1, <1>k DEF RowGood, Alternate
  <2>2. \A i \in 1..k : alert[m][i].type = "down" <=> i = 1 \/ alert[m][i-1].type = "recovery"
    BY <1>k DEF RowGood, Alternate
  <2>3. \A i \in 1..(k+1) :
          alert'[m][i].type = "down" <=> i = 1 \/ alert'[m][i-1].type = "recovery"
    BY <2>1, <2>2, <1>h, <1>6, <1>7, AppendAlternates
  <2> QED
    BY <2>3, <1>h, <1>4, <1>7 DEF Alternate
<1>i. ASSUME e.alert_type = "down", old # "unhealthy", e.last_state = "unhealthy"
      PROVE  Alternate(m)'
  <2>1. k = 0 \/ alert[m][k].type = "recovery"
    <3>1. k # 0 => alert[m][k] \in Alert /\ alert[m][k].type # "down"
      BY <1>i, <1>1, <1>k, <1>6 DEF RowGood, Alternate
    <3> QED
      BY <3>1 DEF Alert, AlertTypes
  <2>2. \A i \in 1..k : alert[m][i].type = "down" <=> i = 1 \/ alert[m][i-1].type = "recovery"
    BY <1>k DEF RowGood, Alternate
  <2>3. \A i \in 1..(k+1) :
          alert'[m][i].type = "down" <=> i = 1 \/ alert'[m][i-1].type = "recovery"
    BY <2>1, <2>2, <1>i, <1>6, <1>7, AppendAlternates
  <2> QED
    BY <2>3, <1>i, <1>4, <1>7 DEF Alternate
<1>a. CheckGood(m)'
  BY <1>4 DEF CheckGood
<1>b. CASE s = "healthy"
  <2>1. /\ e.last_state = "healthy" /\ e.consecutive_failures = 0
        /\ e.alert_type = IF old = "unhealthy" THEN "recovery" ELSE "none"
    BY <1>b, <1>e, <1>s, <1>o, <1>f DEF Evaluation, evaluateFSM, Succeeded, Failed
  <2>2. Alternate(m)'
    BY <2>1, <1>g, <1>h
  <2>3. \A i \in 1..Len(alert'[m]) : Earned(m, alert[m][i])'
    <3> SUFFICES ASSUME NEW i \in 1..Len(alert'[m]) PROVE Earned(m, alert[m][i])'
      OBVIOUS
    <3>1. CASE i \in 1..k
      BY <3>1, <1>9
    <3>2. CASE i = k + 1 /\ e.alert_type = "recovery"
      BY <3>2, <1>b, <1>3, <1>7 DEF Earned
    <3> QED
      BY <3>1, <3>2, <2>1, <1>7
  <2>4. UnhealthyRun(m, n + 1, 0)' /\ ~UnhealthyRun(m, n + 1, Threshold)'
    <3>1. UnhealthyRun(m, n + 1, 0)'
      BY DEF UnhealthyRun
    <3>2. n + 1 \in (n + 1 - Threshold + 1)..(n + 1)
      BY ThresholdAssumption
    <3>3. check_result'[m][n + 1].state # "unhealthy"
      BY <1>b, <1>3
    <3>4. ~UnhealthyRun(m, n + 1, Threshold)'
      <4> SUFFICES ASSUME UnhealthyRun(m, n + 1, Threshold)' PROVE FALSE
        OBVIOUS
      <4>1. \A i \in (n + 1 - Threshold + 1)..(n + 1) : check_result'[m][i].state = "unhealthy"
        BY ThresholdAssumption DEF UnhealthyRun
      <4> QED
        BY <4>1, <3>2, <3>3
    <3> QED
      BY <3>1, <3>4
  <2>5. Noticed(m)'
    BY <2>1, <2>4, <1>3, <1>4 DEF Noticed
  <2> QED
    BY <2>1, <2>2, <2>3, <2>4, <2>5, <1>1, <1>3, <1>4, <1>a, <1>b, ThresholdAssumption
    DEF RowGood, Exact, Live
<1>c. CASE s = "unhealthy"
  <2> DEFINE down == old # "unhealthy" /\ f + 1 >= Threshold
  <2>1. /\ e.consecutive_failures = f + 1
        /\ e.last_state = IF down THEN "unhealthy" ELSE old
        /\ e.alert_type = IF down THEN "down" ELSE "none"
    BY <1>c, <1>e, <1>s, <1>o, <1>f DEF Evaluation, evaluateFSM, Succeeded, Failed
  <2>2. Alternate(m)'
    BY <2>1, <1>g, <1>i
  <2>3. UnhealthyRun(m, n + 1, f + 1)'
    BY <1>c, <1>1, <1>3 DEF UnhealthyRun
  <2>4. down => UnhealthyRun(m, n + 1, Threshold)'
    BY <2>3, ThresholdAssumption DEF UnhealthyRun
  <2>5. \A i \in 1..Len(alert'[m]) : Earned(m, alert[m][i])'
    BY <2>1, <2>4, <1>3, <1>7, <1>9 DEF Earned
  <2>6. ~monitor[m].seed_key => Exact(m, f + 1)'
    <3> SUFFICES ASSUME ~monitor[m].seed_key, f < n
                 PROVE  check_result'[m][n + 1 - (f + 1)].state = "healthy"
      BY <1>3 DEF Exact
    <3>1. check_result[m][n - f].state = "healthy"
      BY <1>1, <1>n DEF RowGood, Exact
    <3>2. n + 1 - (f + 1) = n - f /\ n - f \in 1..n
      OBVIOUS
    <3> QED
      BY <3>1, <3>2, <1>3
  <2>7. f + 1 >= Threshold => e.last_state = "unhealthy"
    BY <2>1
  <2>8. Noticed(m)'
    <3>1. ~(check_result'[m][n + 1].state = "healthy")
      BY <1>c, <1>3
    <3>2. ~monitor[m].seed_key /\ UnhealthyRun(m, n + 1, Threshold)' => f + 1 >= Threshold
      <4> SUFFICES ASSUME ~monitor[m].seed_key, UnhealthyRun(m, n + 1, Threshold)',
                          f + 1 < Threshold
                   PROVE  FALSE
        BY ThresholdAssumption
      <4>1. /\ Threshold <= n + 1
            /\ \A i \in (n + 1 - Threshold + 1)..(n + 1) :
                 check_result'[m][i].state = "unhealthy"
        BY ThresholdAssumption DEF UnhealthyRun
      <4>2. f < n /\ n - f \in (n + 1 - Threshold + 1)..(n + 1) /\ n - f \in 1..n
        BY <4>1, ThresholdAssumption
      <4>3. check_result[m][n - f].state = "healthy"
        BY <4>2, <1>1, <1>n DEF RowGood, Exact
      <4>4. check_result'[m][n - f].state = "healthy"
        BY <4>2, <4>3, <1>3
      <4> QED
        BY <4>1, <4>2, <4>4
    <3> QED
      BY <3>1, <3>2, <2>7, <1>3, <1>4 DEF Noticed
  <2> QED
    BY <2>1, <2>2, <2>3, <2>5, <2>6, <2>7, <2>8, <1>1, <1>3, <1>4, <1>a DEF RowGood, Live
<1> QED
  BY <1>b, <1>c DEF States

\* The worker's own steps on the check of m.
LEMMA CheckStepGood ==
  ASSUME SlowCommits = FALSE, AlertInvariant, NEW m \in Ids, CheckStep(m), NEW n \in Ids
  PROVE  RowGood(n)' /\ CheckGood(n)'
<1>0. TypeOK /\ RowGood(n) /\ CheckGood(n) /\ CheckGood(m)
  BY DEF AlertInvariant
<1> USE <1>0
<1>1. CASE Commit(m) /\ n = m
  BY <1>1, CommitGood
<1>2. CASE Commit(m) /\ n # m
  <2>1. RowFrame(n)
    BY <1>2 DEF Commit, Apply, RowFrame, TypeOK, TablesOK
  <2>2. CheckFrame(n)
    BY <1>2 DEF Commit, Finish, CheckFrame, TypeOK, CheckOK
  <2> QED
    BY <2>1, <2>2, FrameGood
<1>3. CASE ~Commit(m)
  <2> USE <1>3
  <2>1. UNCHANGED <<tables, detached>>
    BY DEF CheckStep, StartWork, Probe, CheckError, InsertResult, UpdateMonitor,
           InsertAlert, DetachCommit, PersistError
  <2>2. RowFrame(n)
    BY <2>1 DEF tables, RowFrame
  <2>3. CheckFrame(n)
    <3> USE <2>1 DEF CheckFrame, Finish, TypeOK, CheckOK
    <3>1. CASE StartWork(m)
      BY <3>1 DEF StartWork
    <3>2. CASE Probe(m)
      BY <3>2 DEF Probe
    <3>3. CASE CheckError(m) \/ PersistError(m)
      BY <3>3 DEF CheckError, PersistError
    <3>4. CASE InsertResult(m)
      BY <3>4 DEF InsertResult
    <3>5. CASE UpdateMonitor(m)
      BY <3>5 DEF UpdateMonitor
    <3>6. CASE InsertAlert(m)
      <4>1. Live(m)
        BY <3>6 DEF InsertAlert, CheckGood
      <4> QED
        BY <3>6, <4>1 DEF InsertAlert
    <3> QED
      BY <3>1, <3>2, <3>3, <3>4, <3>5, <3>6 DEF CheckStep, DetachCommit
  <2> QED
    BY <2>2, <2>3, FrameGood
<1> QED
  BY <1>1, <1>2, <1>3

\* A row that appears has an unborn id, which no check knows.
LEMMA InsertGood ==
  ASSUME TypeOK, TypeOK', NEW m \in Ids, m \in Fresh, NEW row \in Row,
         row.last_state = "null", row.consecutive_failures = 0,
         phase'[m] = "live", monitor'[m] = row,
         check_result'[m] = check_result[m], alert'[m] = alert[m],
         UNCHANGED <<stage, detached>>, RowGood(m), CheckGood(m)
  PROVE  RowGood(m)' /\ CheckGood(m)'
<1>1. phase[m] = "unborn"
  BY DEF Fresh
<1>2. RowGood(m)'
  BY <1>1, EmptyGood DEF RowGood, Live
<1>3. stage[m] = "idle"
  BY <1>1 DEF CheckGood
<1> QED
  BY <1>2, <1>3 DEF CheckGood

\* A row that is deleted is not under the transaction of a check.
LEMMA DeleteGood ==
  ASSUME TypeOK, TypeOK', NEW m \in Ids, ~KeyShared(m), Live(m),
         phase'[m] = "deleted", monitor'[m] = Blank,
         check_result'[m] = <<>>, alert'[m] = <<>>,
         UNCHANGED <<stage, detached>>, RowGood(m), CheckGood(m)
  PROVE  RowGood(m)' /\ CheckGood(m)'
<1>1. RowGood(m)'
  BY EmptyGood DEF Blank, NewRow
<1>2. CheckGood(m)'
  BY DEF CheckGood, KeyShared, Live
<1> QED
  BY <1>1, <1>2

\* The API, its seeds and the passing of time.
LEMMA ApiStepGood ==
  ASSUME AlertInvariant, TypeOK', NEW m \in Ids, ApiStep(m), NEW n \in Ids
  PROVE  RowGood(n)' /\ CheckGood(n)'
<1>0. TypeOK /\ RowGood(n) /\ CheckGood(n)
  BY DEF AlertInvariant
<1>1. UNCHANGED <<stage, snap, detached>>
  BY DEF ApiStep, CreateMonitor, FindForUpdate, FindForDelete, UpdateRow, DeleteRow,
         RequestFails, SeedUpdate, SeedCreate, check
<1>2. CheckFrame(n)
  BY <1>1 DEF CheckFrame
<1>3. CASE \E row \in Row : /\ m \in Fresh /\ Insert(m, row)
                           /\ row.last_state = "null" /\ row.consecutive_failures = 0
  <2>1. PICK row \in Row : /\ m \in Fresh /\ Insert(m, row)
                           /\ row.last_state = "null" /\ row.consecutive_failures = 0
    BY <1>3
  <2>2. CASE n = m
    <3>1. phase'[m] = "live" /\ monitor'[m] = row
      BY <1>0, <2>1 DEF Insert, TypeOK, TablesOK
    <3> QED
      BY <3>1, <2>1, <2>2, <1>0, <1>1, InsertGood DEF Insert
  <2>3. CASE n # m
    <3>1. RowFrame(n)
      BY <1>0, <2>1, <2>3 DEF Insert, RowFrame, TypeOK, TablesOK
    <3> QED
      BY <3>1, <1>0, <1>2, FrameGood
  <2> QED
    BY <2>2, <2>3
<1>4. CASE CreateMonitor(m)
  <2>1. PICK account \in {"user", "demo"}, target \in Targets :
          Insert(m, NewRow(account, FALSE, target))
    BY <1>4 DEF CreateMonitor
  <2>2. NewRow(account, FALSE, target) \in Row
    BY BlanksOK DEF Accounts
  <2>3. /\ NewRow(account, FALSE, target).last_state = "null"
        /\ NewRow(account, FALSE, target).consecutive_failures = 0
    BY DEF NewRow
  <2> QED
    BY <1>3, <1>4, <2>1, <2>2, <2>3 DEF CreateMonitor
<1>5. CASE SeedCreate(m)
  <2>1. PICK account \in {"demo", "status"} : Insert(m, NewRow(account, TRUE, SeedTarget))
    BY <1>5 DEF SeedCreate
  <2>2. NewRow(account, TRUE, SeedTarget) \in Row
    BY BlanksOK, SeedTargetAssumption DEF Accounts
  <2>3. /\ NewRow(account, TRUE, SeedTarget).last_state = "null"
        /\ NewRow(account, TRUE, SeedTarget).consecutive_failures = 0
    BY DEF NewRow
  <2> QED
    BY <1>3, <1>5, <2>1, <2>2, <2>3 DEF SeedCreate
<1>6. CASE FindForUpdate(m) \/ FindForDelete(m) \/ RequestFails(m)
  <2>1. RowFrame(n)
    BY <1>6 DEF FindForUpdate, FindForDelete, RequestFails, tables, RowFrame
  <2> QED
    BY <2>1, <1>0, <1>2, FrameGood
<1>7. CASE UpdateRow(m)
  <2>1. PICK target \in Targets, checked \in {"null", "recent", "elapsed"} :
          monitor' = [monitor EXCEPT ![m] =
                       [@ EXCEPT !.target = target, !.last_checked_at = checked]]
    BY <1>7 DEF UpdateRow
  <2>2. RowFrame(n)
    <3>1. /\ monitor'[n].last_state = monitor[n].last_state
          /\ monitor'[n].seed_key = monitor[n].seed_key
          /\ monitor'[n].consecutive_failures = monitor[n].consecutive_failures
      <4>1. CASE n = m
        BY <4>1, <1>0, <2>1 DEF TypeOK, TablesOK, Row
      <4>2. CASE n # m
        BY <4>2, <1>0, <2>1 DEF TypeOK, TablesOK
      <4> QED
        BY <4>1, <4>2
    <3> QED
      BY <3>1, <1>7 DEF UpdateRow, RowFrame
  <2> QED
    BY <2>2, <1>0, <1>2, FrameGood
<1>8. CASE DeleteRow(m)
  <2>1. CASE n = m
    <3>1. /\ ~KeyShared(m) /\ Live(m)
          /\ phase'[m] = "deleted" /\ monitor'[m] = Blank
          /\ check_result'[m] = <<>> /\ alert'[m] = <<>>
      BY <1>0, <1>8 DEF DeleteRow, Remove, TypeOK, TablesOK
    <3> QED
      BY <3>1, <2>1, <1>0, <1>1, DeleteGood
  <2>2. CASE n # m
    <3>1. RowFrame(n)
      BY <1>0, <1>8, <2>2 DEF DeleteRow, Remove, RowFrame, TypeOK, TablesOK
    <3> QED
      BY <3>1, <1>0, <1>2, FrameGood
  <2> QED
    BY <2>1, <2>2
<1>9. CASE SeedUpdate(m)
  <2>1. CASE n # m
    <3>1. RowFrame(n)
      BY <1>0, <1>9, <2>1 DEF SeedUpdate, RowFrame, TypeOK, TablesOK
    <3> QED
      BY <3>1, <1>0, <1>2, FrameGood
  <2>2. CASE n = m
    <3>1. /\ phase'[m] = phase[m] /\ Live(m)
          /\ check_result'[m] = check_result[m] /\ alert'[m] = alert[m]
          /\ monitor'[m].last_state = monitor[m].last_state
          /\ monitor[m].seed_key /\ monitor'[m].seed_key
          /\ monitor'[m].consecutive_failures = 0
      BY <1>0, <1>9 DEF SeedUpdate, TypeOK, TablesOK, Row
    <3>2. Alternate(m)'
      BY <1>0, <2>2, <3>1 DEF RowGood, Alternate
    <3>3. \A i \in 1..Len(alert'[m]) : Earned(m, alert[m][i])'
      BY <1>0, <2>2, <3>1 DEF RowGood, Earned, UnhealthyRun
    <3>4. Noticed(m)'
      BY <1>0, <2>2, <3>1 DEF RowGood, Noticed
    <3>5. UnhealthyRun(m, Len(check_result[m]), monitor[m].consecutive_failures)'
      <4>1. Len(check_result[m]) \in Nat
        BY <1>0 DEF TypeOK, TablesOK
      <4> QED
        BY <3>1, <4>1 DEF UnhealthyRun
    <3>6. RowGood(m)'
      BY <3>1, <3>2, <3>3, <3>4, <3>5 DEF RowGood, Live
    <3>7. CheckGood(m)'
      BY <1>0, <1>1, <2>2, <3>1 DEF CheckGood, Live, UnhealthyRun
    <3> QED
      BY <2>2, <3>6, <3>7
  <2> QED
    BY <2>1, <2>2
<1> QED
  BY <1>4, <1>5, <1>6, <1>7, <1>8, <1>9 DEF ApiStep

\* The poll query, the life of the process, the demo reset and the server.
LEMMA OtherStepGood ==
  ASSUME AlertInvariant, TypeOK',
         \/ Fetch \/ Shutdown \/ Drained \/ Crash \/ Restart \/ DemoReset
         \/ \E m \in Ids : ResolveDetached(m) \/ Elapse(m),
         NEW n \in Ids
  PROVE  RowGood(n)' /\ CheckGood(n)'
<1>0. TypeOK /\ RowGood(n) /\ CheckGood(n)
  BY DEF AlertInvariant
<1>1. CASE Fetch
  <2>1. RowGood(n)'
    <3>1. RowFrame(n)
      BY <1>1 DEF Fetch, RowFrame, tables
    <3> QED
      BY <3>1, <1>0, <1>1 DEF Fetch, tables, RowGood, Live, Alternate, Earned, Noticed,
         UnhealthyRun, Exact
  <2>0. detached'[n] = <<>> /\ UNCHANGED <<phase, monitor, check_result>>
    BY <1>0, <1>1 DEF Fetch, tables, CheckGood
  <2>2. CASE stage'[n] = "idle"
    BY <2>0, <2>1, <2>2 DEF CheckGood
  <2>3. CASE stage'[n] # "idle"
    <3>1. /\ stage'[n] = "queued" /\ Live(n)
          /\ snap'[n].last_state = monitor[n].last_state
          /\ snap'[n].consecutive_failures = monitor[n].consecutive_failures
      BY <2>3, <1>1 DEF Fetch, Due
    <3>2. UnhealthyRun(n, Len(check_result[n]), snap[n].consecutive_failures)'
      BY <3>1, <1>0, <1>1 DEF RowGood, Fetch, tables, UnhealthyRun
    <3> QED
      BY <2>0, <2>1, <3>1, <3>2 DEF CheckGood, Live
  <2> QED
    BY <2>1, <2>2, <2>3
<1>2. CASE Shutdown \/ Drained \/ Crash \/ Restart
  <2>1. RowFrame(n)
    BY <1>2 DEF Shutdown, Drained, Crash, Restart, RowFrame, tables
  <2>2. CheckFrame(n)
    BY <1>2 DEF Shutdown, Drained, Crash, Restart, CheckFrame, check
  <2> QED
    BY <2>1, <2>2, <1>0, FrameGood
<1>3. CASE DemoReset
  <2> DEFINE gone == {m \in Ids : Live(m) /\ monitor[m].account = "demo"}
             row == NewRow("demo", TRUE, SeedTarget)
  <2>1. UNCHANGED <<stage, snap, detached>> /\ Remove(gone) /\ \A m \in gone : ~KeyShared(m)
    BY <1>3 DEF DemoReset, check
  <2>2. PICK new \in Fresh :
          /\ phase' = [m \in Ids |-> IF m \in gone THEN "deleted"
                                     ELSE IF m = new THEN "live" ELSE phase[m]]
          /\ monitor' = [m \in Ids |-> IF m \in gone THEN Blank
                                       ELSE IF m = new THEN row ELSE monitor[m]]
    BY <1>3 DEF DemoReset
  <2>3. row \in Row /\ row.last_state = "null" /\ row.consecutive_failures = 0
    <3>1. row \in Row
      BY BlanksOK, SeedTargetAssumption DEF Accounts
    <3>2. row.last_state = "null" /\ row.consecutive_failures = 0
      BY DEF NewRow
    <3> QED
      BY <3>1, <3>2
  <2> HIDE DEF row
  <2>4. CASE n \in gone
    BY <2>4, <2>1, <2>2, <1>0, DeleteGood DEF Remove
  <2>5. CASE n \notin gone /\ n = new
    BY <2>5, <2>1, <2>2, <2>3, <1>0, InsertGood DEF Remove
  <2>6. CASE n \notin gone /\ n # new
    <3>1. RowFrame(n)
      BY <2>6, <2>1, <2>2 DEF Remove, RowFrame
    <3>2. CheckFrame(n)
      BY <2>1 DEF CheckFrame
    <3> QED
      BY <3>1, <3>2, <1>0, FrameGood
  <2> QED
    BY <2>4, <2>5, <2>6
<1>4. CASE \E m \in Ids : ResolveDetached(m)
  <2>1. PICK m \in Ids : detached[m] # <<>>
    BY <1>4 DEF ResolveDetached
  <2> QED
    BY <2>1 DEF AlertInvariant, CheckGood
<1>5. CASE \E m \in Ids : Elapse(m)
  <2>1. PICK m \in Ids : Elapse(m)
    BY <1>5
  <2>2. RowFrame(n)
    <3>1. CASE n = m
      BY <3>1, <2>1, <1>0 DEF Elapse, RowFrame, TypeOK, TablesOK, Row
    <3>2. CASE n # m
      BY <3>2, <2>1, <1>0 DEF Elapse, RowFrame, TypeOK, TablesOK
    <3> QED
      BY <3>1, <3>2
  <2>3. CheckFrame(n)
    BY <2>1 DEF Elapse, CheckFrame, check
  <2> QED
    BY <2>2, <2>3, <1>0, FrameGood
<1> QED
  BY <1>1, <1>2, <1>3, <1>4, <1>5

LEMMA InitAlertInvariant == Init => AlertInvariant
<1> SUFFICES ASSUME Init PROVE AlertInvariant
  OBVIOUS
<1>1. TypeOK
  BY InitType
<1> SUFFICES ASSUME NEW m \in Ids PROVE RowGood(m) /\ CheckGood(m)
  BY <1>1 DEF AlertInvariant
<1>2. /\ check_result[m] = <<>> /\ alert[m] = <<>>
      /\ monitor[m].last_state = "null" /\ monitor[m].consecutive_failures = 0
      /\ ~monitor[m].seed_key /\ stage[m] = "idle" /\ detached[m] = <<>>
  BY DEF Init, Blank, NewRow
<1>3. Len(check_result[m]) = 0 /\ Len(alert[m]) = 0
  BY <1>2
<1>4. Alternate(m) /\ Noticed(m)
  BY <1>2, <1>3, ThresholdAssumption DEF Alternate, Noticed, UnhealthyRun
<1> QED
  BY <1>2, <1>3, <1>4, ThresholdAssumption DEF RowGood, CheckGood, Exact, UnhealthyRun

LEMMA NextAlertInvariant ==
  ASSUME SlowCommits = FALSE, AlertInvariant, [Next]_vars
  PROVE  AlertInvariant'
<1>1. TypeOK'
  BY NextType DEF AlertInvariant
<1> SUFFICES ASSUME NEW n \in Ids PROVE RowGood(n)' /\ CheckGood(n)'
  BY <1>1 DEF AlertInvariant
<1>2. CASE UNCHANGED vars
  <2>1. RowFrame(n) /\ CheckFrame(n)
    BY <1>2 DEF vars, tables, check, RowFrame, CheckFrame
  <2> QED
    BY <2>1, FrameGood DEF AlertInvariant
<1>3. CASE Next
  BY <1>1, <1>3, CheckStepGood, ApiStepGood, OtherStepGood DEF Next
<1> QED
  BY <1>2, <1>3

LEMMA AlertsAlways ==
  ASSUME SlowCommits = FALSE
  PROVE  Spec => []AlertInvariant
<1>1. AlertInvariant /\ [Next]_vars => AlertInvariant'
  BY NextAlertInvariant
<1> QED
  BY InitAlertInvariant, <1>1, PTL DEF Spec

\* With commits that do not outlive their client, alerts alternate and follow
\* last_state: for any number of monitors and any threshold, under all interleavings
\* with the API, the seeds, the demo reset, crashes and restarts.
THEOREM AlertsCorrect ==
  ASSUME SlowCommits = FALSE
  PROVE  Spec => []AlertsAlternate
<1>1. AlertInvariant => AlertsAlternate
  BY DEF AlertInvariant, RowGood, AlertsAlternate
<1> QED
  BY AlertsAlways, <1>1, PTL

\* Likewise, every alert is earned by results on record (evaluateFSM).
THEOREM EarnedCorrect ==
  ASSUME SlowCommits = FALSE
  PROVE  Spec => []AlertsEarned
<1>1. AlertInvariant => AlertsEarned
  BY DEF AlertInvariant, RowGood, AlertsEarned
<1> QED
  BY AlertsAlways, <1>1, PTL

\* Likewise, no outage is missed, however often the worker dies while it counts.
THEOREM NoticedCorrect ==
  ASSUME SlowCommits = FALSE
  PROVE  Spec => []OutageNoticed
<1>1. AlertInvariant => OutageNoticed
  BY DEF AlertInvariant, RowGood, OutageNoticed
<1> QED
  BY AlertsAlways, <1>1, PTL
-----------------------------------------------------------------------------
(* The tables implement the alert contract *)

\* What the contract sees of monitor m.
LogOf(m) == [i \in 1..Len(check_result[m]) |-> check_result[m][i].state]
OpenOf(m) == monitor[m].last_state = "unhealthy"
EventsOf(m) == [i \in 1..Len(alert[m]) |-> alert[m][i].type]

LogView == [m \in Ids |-> LogOf(m)]
OpenView == [m \in Ids |-> OpenOf(m)]
EventsView == [m \in Ids |-> EventsOf(m)]

\* Reading a column of a longer sequence appends its last value.
LEMMA ColumnAppends ==
  ASSUME NEW T, NEW k \in Nat, NEW A, NEW B, NEW v \in T,
         \A i \in 1..k : A[i] \in T /\ B[i] = A[i],
         B[k + 1] = v
  PROVE  [i \in 1..(k + 1) |-> B[i]] = Append([i \in 1..k |-> A[i]], v)
<1> DEFINE a == [i \in 1..k |-> A[i]]
           b == [i \in 1..(k + 1) |-> B[i]]
<1>1. a \in Seq(T) /\ Len(a) = k
  OBVIOUS
<1>2. b \in Seq(T) /\ Len(b) = k + 1
  <2>1. \A i \in 1..(k + 1) : B[i] \in T
    OBVIOUS
  <2> QED
    BY <2>1
<1>3. Append(a, v) \in Seq(T) /\ Len(Append(a, v)) = k + 1
  BY <1>1
<1>4. \A i \in 1..(k + 1) : b[i] = Append(a, v)[i]
  BY <1>1
<1> HIDE DEF a, b
<1>5. b = Append(a, v)
  BY <1>2, <1>3, <1>4
<1> QED
  BY <1>5 DEF a, b

\* A step that changes no log, no incident and no event is invisible.
LEMMA ViewKept ==
  ASSUME \A m \in Ids : /\ check_result'[m] = check_result[m] /\ alert'[m] = alert[m]
                        /\ OpenOf(m)' = OpenOf(m)
  PROVE  UNCHANGED Contract!vars
<1>1. LogView' = LogView /\ EventsView' = EventsView
  BY DEF LogView, EventsView, LogOf, EventsOf
<1>2. OpenView' = OpenView
  BY Zenon DEF OpenView
<1> QED
  BY <1>1, <1>2 DEF Contract!vars, LogView, OpenView, EventsView, LogOf, OpenOf, EventsOf

\* A step that takes the rows of some monitors away forgets them.
LEMMA ViewForgets ==
  ASSUME NEW gone \in SUBSET Ids,
         \A m \in gone : check_result'[m] = <<>> /\ alert'[m] = <<>> /\ OpenOf(m)' = FALSE,
         \A m \in Ids \ gone :
           /\ check_result'[m] = check_result[m] /\ alert'[m] = alert[m]
           /\ OpenOf(m)' = OpenOf(m)
  PROVE  Contract!Forget(gone)
<1>1. \A m \in gone : LogOf(m)' = <<>> /\ EventsOf(m)' = <<>>
  <2> SUFFICES ASSUME NEW m \in gone PROVE LogOf(m)' = <<>> /\ EventsOf(m)' = <<>>
    OBVIOUS
  <2>1. Len(check_result'[m]) = 0 /\ Len(alert'[m]) = 0
    OBVIOUS
  <2> QED
    BY <2>1 DEF LogOf, EventsOf
<1>2. LogView' = [m \in Ids |-> IF m \in gone THEN <<>> ELSE LogView[m]]
  BY <1>1 DEF LogView, LogOf
<1>3. EventsView' = [m \in Ids |-> IF m \in gone THEN <<>> ELSE EventsView[m]]
  BY <1>1 DEF EventsView, EventsOf
<1>4. OpenView' = [m \in Ids |-> IF m \in gone THEN FALSE ELSE OpenView[m]]
  <2>1. \A m \in Ids : OpenOf(m)' = IF m \in gone THEN FALSE ELSE OpenView[m]
    BY Zenon DEF OpenView
  <2> QED
    BY <2>1, Zenon DEF OpenView
<1> QED
  BY <1>2, <1>3, <1>4
  DEF Contract!Forget, LogView, OpenView, EventsView, LogOf, OpenOf, EventsOf

\* A commit is an observation, with its alert in the same step.
LEMMA CommitObserves ==
  ASSUME AlertInvariant, NEW m \in Ids, Commit(m)
  PROVE  Contract!Down(m) \/ Contract!Failure(m) \/ Contract!Recovery(m) \/ Contract!Success(m)
<1>0. TypeOK /\ RowGood(m) /\ CheckGood(m)
  BY DEF AlertInvariant
<1>n. PICK n \in Nat : n = Len(check_result[m])
  BY <1>0 DEF TypeOK, TablesOK
<1>f. PICK f \in Nat : f = snap[m].consecutive_failures
  BY <1>0 DEF TypeOK, CheckOK, Snapshot
<1>s. PICK s \in States : s = probe[m].state
  BY <1>0 DEF TypeOK, CheckOK, Result
<1>o. PICK old \in LastStates : old = snap[m].last_state
  BY <1>0 DEF TypeOK, CheckOK, Snapshot
<1>e. PICK e : e = Evaluation(m)
  OBVIOUS
<1>k. PICK k \in Nat : k = Len(alert[m])
  BY <1>0 DEF TypeOK, TablesOK
<1>1. old = monitor[m].last_state /\ UnhealthyRun(m, n, f)
  BY <1>0, <1>n, <1>f, <1>o DEF Commit, CheckGood
<1>2. /\ check_result[m] \in Seq(Result) /\ alert[m] \in Seq(Alert)
      /\ check_result' = [check_result EXCEPT ![m] = Append(@, probe[m])]
      /\ probe[m] \in Result
  BY <1>0 DEF Commit, Apply, WriteSet, TypeOK, TablesOK, CheckOK
<1>3. /\ monitor'[m].last_state = e.last_state
      /\ \A j \in Ids \ {m} : monitor'[j] = monitor[j]
  BY <1>0, <1>e DEF Commit, Apply, WriteSet, TypeOK, TablesOK, Row
<1>4. alert' = IF e.alert_type = "none" THEN alert
               ELSE [alert EXCEPT ![m] = Append(@, [type |-> e.alert_type, at |-> n + 1])]
  BY <1>e, <1>n DEF Commit, Apply, WriteSet
<1>5. LogView' = [LogView EXCEPT ![m] = Append(@, s)]
  <2>1. LogOf(m)' = Append(LogOf(m), s)
    <3>1. check_result'[m] = Append(check_result[m], probe[m])
      BY <1>0, <1>2 DEF TypeOK, TablesOK
    <3>2. /\ Len(check_result'[m]) = n + 1
          /\ check_result'[m][n + 1] = probe[m]
          /\ \A i \in 1..n : check_result'[m][i] = check_result[m][i]
                             /\ check_result[m][i] \in Result
      BY <1>2, <1>n, <3>1
    <3> DEFINE A == [i \in 1..n |-> check_result[m][i].state]
               B == [i \in 1..(n + 1) |-> check_result'[m][i].state]
    <3>3. \A i \in 1..n : A[i] \in States /\ B[i] = A[i]
      BY <3>2 DEF Result
    <3>4. B[n + 1] = s
      BY <3>2, <1>s
    <3> HIDE DEF A, B
    <3>5. [i \in 1..(n + 1) |-> B[i]] = Append([i \in 1..n |-> A[i]], s)
      BY <3>3, <3>4, ColumnAppends
    <3> QED
      BY <3>2, <3>5, <1>n DEF A, B, LogOf
  <2>2. \A j \in Ids \ {m} : LogOf(j)' = LogOf(j)
    BY <1>0, <1>2 DEF LogOf, TypeOK, TablesOK
  <2> QED
    BY <2>1, <2>2 DEF LogView
<1>6. ASSUME e.alert_type = "none" PROVE EventsView' = EventsView
  BY <1>4, <1>6 DEF EventsView, EventsOf
<1>7. ASSUME e.alert_type \in AlertTypes
      PROVE  EventsView' = [EventsView EXCEPT ![m] = Append(@, e.alert_type)]
  <2>0. alert' = [alert EXCEPT ![m] = Append(@, [type |-> e.alert_type, at |-> n + 1])]
    BY <1>4, <1>7 DEF AlertTypes
  <2>1. EventsOf(m)' = Append(EventsOf(m), e.alert_type)
    <3>1. alert'[m] = Append(alert[m], [type |-> e.alert_type, at |-> n + 1])
      BY <1>0, <2>0 DEF TypeOK, TablesOK
    <3>2. /\ Len(alert'[m]) = k + 1
          /\ alert'[m][k + 1].type = e.alert_type
          /\ \A i \in 1..k : alert'[m][i] = alert[m][i] /\ alert[m][i] \in Alert
      BY <1>2, <1>k, <3>1
    <3> DEFINE A == [i \in 1..k |-> alert[m][i].type]
               B == [i \in 1..(k + 1) |-> alert'[m][i].type]
    <3>3. \A i \in 1..k : A[i] \in AlertTypes /\ B[i] = A[i]
      BY <3>2 DEF Alert
    <3>4. B[k + 1] = e.alert_type
      BY <3>2
    <3> HIDE DEF A, B
    <3>5. [i \in 1..(k + 1) |-> B[i]] = Append([i \in 1..k |-> A[i]], e.alert_type)
      BY <1>7, <3>3, <3>4, ColumnAppends
    <3> QED
      BY <3>2, <3>5, <1>k DEF A, B, EventsOf
  <2>2. \A j \in Ids \ {m} : EventsOf(j)' = EventsOf(j)
    BY <1>0, <2>0 DEF EventsOf, TypeOK, TablesOK
  <2> QED
    BY <2>1, <2>2 DEF EventsView
<1>8. OpenView' = [OpenView EXCEPT ![m] = (e.last_state = "unhealthy")]
  BY <1>3 DEF OpenView, OpenOf
<1>9. OpenView[m] <=> old = "unhealthy"
  BY <1>1 DEF OpenView, OpenOf
<1>10. ASSUME e.last_state = "unhealthy" <=> old = "unhealthy" PROVE OpenView' = OpenView
  <2>1. OpenView[m] = (e.last_state = "unhealthy")
    BY <1>9, <1>10 DEF OpenView, OpenOf
  <2> QED
    BY <1>8, <2>1, Zenon DEF OpenView
<1> USE DEF Contract!Observe
<1>a. CASE s = "healthy" /\ old = "unhealthy"
  <2>1. e.last_state = "healthy" /\ e.alert_type = "recovery"
    BY <1>a, <1>e, <1>s, <1>o, <1>f DEF Evaluation, evaluateFSM, Succeeded, Failed
  <2>2. EventsView' = [EventsView EXCEPT ![m] = Append(@, "recovery")]
    BY <2>1, <1>7 DEF AlertTypes
  <2>3. OpenView' = [OpenView EXCEPT ![m] = FALSE] /\ OpenView[m]
    BY <1>a, <1>8, <1>9, <2>1
  <2>4. LogView' = [LogView EXCEPT ![m] = Append(@, "healthy")]
    BY <1>5, <1>a
  <2>5. Contract!Recovery(m)
    BY <2>2, <2>3, <2>4
    DEF Contract!Recovery, LogView, OpenView, EventsView, LogOf, OpenOf, EventsOf
  <2> QED
    BY <2>5
<1>b. CASE s = "healthy" /\ old # "unhealthy"
  <2>1. e.last_state = "healthy" /\ e.alert_type = "none"
    BY <1>b, <1>e, <1>s, <1>o, <1>f DEF Evaluation, evaluateFSM, Succeeded, Failed
  <2>2. EventsView' = EventsView /\ OpenView' = OpenView /\ ~OpenView[m]
    BY <1>b, <2>1, <1>6, <1>9, <1>10
  <2>3. LogView' = [LogView EXCEPT ![m] = Append(@, "healthy")]
    BY <1>5, <1>b
  <2>4. Contract!Success(m)
    BY <2>2, <2>3
    DEF Contract!Success, LogView, OpenView, EventsView, LogOf, OpenOf, EventsOf
  <2> QED
    BY <2>4
<1>c. CASE s = "unhealthy" /\ ~(old # "unhealthy" /\ f + 1 >= Threshold)
  <2>1. e.last_state = old /\ e.alert_type = "none"
    BY <1>c, <1>e, <1>s, <1>o, <1>f DEF Evaluation, evaluateFSM, Succeeded, Failed
  <2>2. EventsView' = EventsView /\ OpenView' = OpenView
    BY <2>1, <1>6, <1>10
  <2>3. LogView' = [LogView EXCEPT ![m] = Append(@, "unhealthy")]
    BY <1>5, <1>c
  <2>4. Contract!Failure(m)
    BY <2>2, <2>3
    DEF Contract!Failure, LogView, OpenView, EventsView, LogOf, OpenOf, EventsOf
  <2> QED
    BY <2>4
<1>d. CASE s = "unhealthy" /\ old # "unhealthy" /\ f + 1 >= Threshold
  <2>1. e.last_state = "unhealthy" /\ e.alert_type = "down"
    BY <1>d, <1>e, <1>s, <1>o, <1>f DEF Evaluation, evaluateFSM, Succeeded, Failed
  <2>2. EventsView' = [EventsView EXCEPT ![m] = Append(@, "down")]
    BY <2>1, <1>7 DEF AlertTypes
  <2>3. OpenView' = [OpenView EXCEPT ![m] = TRUE] /\ ~OpenView[m]
    BY <1>d, <1>8, <1>9, <2>1
  <2>4. LogView' = [LogView EXCEPT ![m] = Append(@, "unhealthy")]
    BY <1>5, <1>d
  <2>5. /\ LogView[m] = LogOf(m) /\ Len(LogView[m]) = n
        /\ \A i \in 1..n : LogView[m][i] = check_result[m][i].state
    BY <1>n DEF LogView, LogOf
  <2>6. f <= n /\ \A i \in (n - f + 1)..n : check_result[m][i].state = "unhealthy"
    BY <1>1 DEF UnhealthyRun
  <2>7. /\ Len(LogView[m]) >= Threshold - 1
        /\ \A i \in (Len(LogView[m]) - Threshold + 2)..Len(LogView[m]) :
             LogView[m][i] = "unhealthy"
    <3>1. \A i \in (n - Threshold + 2)..n : i \in (n - f + 1)..n /\ i \in 1..n
      BY <1>d, <2>6, ThresholdAssumption
    <3> QED
      BY <1>d, <2>5, <2>6, <3>1, ThresholdAssumption
  <2>8. Contract!Down(m)
    BY <2>2, <2>3, <2>4, <2>7
    DEF Contract!Down, Contract!Confirmed, LogView, OpenView, EventsView, LogOf, OpenOf, EventsOf
  <2> QED
    BY <2>8
<1> QED
  BY <1>a, <1>b, <1>c, <1>d DEF States

LEMMA StepImplements ==
  ASSUME SlowCommits = FALSE, AlertInvariant, [Next]_vars
  PROVE  [Contract!Next]_(Contract!vars)
<1>0. TypeOK /\ \A m \in Ids : RowGood(m) /\ CheckGood(m)
  BY DEF AlertInvariant
<1>1. ASSUME UNCHANGED <<check_result, alert>>,
             \A m \in Ids : monitor'[m].last_state = monitor[m].last_state
      PROVE  UNCHANGED Contract!vars
  BY <1>1, ViewKept DEF OpenOf
<1>2. ASSUME NEW m \in Ids, Commit(m) PROVE Contract!Next
  BY <1>2, CommitObserves DEF Contract!Next
<1>3. ASSUME NEW m \in Ids, CheckStep(m), ~Commit(m) PROVE UNCHANGED Contract!vars
  BY <1>1, <1>3 DEF CheckStep, StartWork, Probe, CheckError, InsertResult, UpdateMonitor,
     InsertAlert, DetachCommit, PersistError, tables
<1>4. ASSUME NEW m \in Ids, NEW row, Insert(m, row), m \in Fresh, row.last_state = "null"
      PROVE  UNCHANGED Contract!vars
  <2>1. monitor[m].last_state = "null" /\ monitor'[m].last_state = "null"
    BY <1>0, <1>4 DEF Insert, Fresh, RowGood, Live, TypeOK, TablesOK
  <2>2. \A n \in Ids : monitor'[n].last_state = monitor[n].last_state
    BY <1>0, <1>4, <2>1 DEF Insert, TypeOK, TablesOK
  <2> QED
    BY <1>1, <1>4, <2>2 DEF Insert
<1>5. ASSUME NEW m \in Ids, CreateMonitor(m) \/ SeedCreate(m) PROVE UNCHANGED Contract!vars
  BY <1>4, <1>5 DEF CreateMonitor, SeedCreate, NewRow
<1>6. ASSUME NEW m \in Ids, FindForUpdate(m) \/ FindForDelete(m) \/ RequestFails(m)
      PROVE  UNCHANGED Contract!vars
  BY <1>1, <1>6 DEF FindForUpdate, FindForDelete, RequestFails, tables
<1>7. ASSUME NEW m \in Ids, UpdateRow(m) \/ SeedUpdate(m) \/ Elapse(m)
      PROVE  UNCHANGED Contract!vars
  <2>1. ASSUME UpdateRow(m) PROVE \A n \in Ids : monitor'[n].last_state = monitor[n].last_state
    <3>1. PICK target \in Targets, checked \in {"null", "recent", "elapsed"} :
            monitor' = [monitor EXCEPT ![m] =
                         [@ EXCEPT !.target = target, !.last_checked_at = checked]]
      BY <2>1 DEF UpdateRow
    <3> QED
      BY <1>0, <3>1 DEF TypeOK, TablesOK, Row
  <2>2. ASSUME SeedUpdate(m) PROVE \A n \in Ids : monitor'[n].last_state = monitor[n].last_state
    BY <1>0, <2>2 DEF SeedUpdate, TypeOK, TablesOK, Row
  <2>3. ASSUME Elapse(m) PROVE \A n \in Ids : monitor'[n].last_state = monitor[n].last_state
    BY <1>0, <2>3 DEF Elapse, TypeOK, TablesOK, Row
  <2> QED
    BY <1>1, <1>7, <2>1, <2>2, <2>3 DEF UpdateRow, SeedUpdate, Elapse
<1>8. ASSUME NEW m \in Ids, DeleteRow(m) PROVE Contract!Next
  <2>1. OpenOf(m)' = FALSE /\ \A n \in Ids \ {m} : OpenOf(n)' = OpenOf(n)
    BY <1>0, <1>8 DEF DeleteRow, OpenOf, Blank, NewRow, TypeOK, TablesOK
  <2>2. /\ check_result'[m] = <<>> /\ alert'[m] = <<>>
        /\ \A n \in Ids \ {m} : check_result'[n] = check_result[n] /\ alert'[n] = alert[n]
    BY <1>8 DEF DeleteRow, Remove
  <2>3. PICK gone \in SUBSET Ids : gone = {m}
    OBVIOUS
  <2>4. Contract!Forget(gone)
    <3>1. \A n \in gone : check_result'[n] = <<>> /\ alert'[n] = <<>> /\ OpenOf(n)' = FALSE
      BY <2>1, <2>2, <2>3
    <3>2. \A n \in Ids \ gone : /\ check_result'[n] = check_result[n]
                                 /\ alert'[n] = alert[n] /\ OpenOf(n)' = OpenOf(n)
      BY <2>1, <2>2, <2>3
    <3> QED
      BY <3>1, <3>2, ViewForgets
  <2> QED
    BY <2>4 DEF Contract!Next
<1>9. ASSUME DemoReset PROVE Contract!Next
  <2>0. PICK gone \in SUBSET Ids :
          gone = {m \in Ids : Live(m) /\ monitor[m].account = "demo"}
    OBVIOUS
  <2> DEFINE row == NewRow("demo", TRUE, SeedTarget)
  <2>1. PICK new \in Fresh :
          monitor' = [m \in Ids |-> IF m \in gone THEN Blank
                                    ELSE IF m = new THEN row ELSE monitor[m]]
    BY <1>9, <2>0 DEF DemoReset
  <2>2. /\ check_result' = [m \in Ids |-> IF m \in gone THEN <<>> ELSE check_result[m]]
        /\ alert' = [m \in Ids |-> IF m \in gone THEN <<>> ELSE alert[m]]
    BY <1>9, <2>0 DEF DemoReset, Remove
  <2>3. monitor[new].last_state = "null" /\ row.last_state = "null" /\ Blank.last_state = "null"
    BY <1>0 DEF Fresh, RowGood, Live, Blank, NewRow
  <2> HIDE DEF row
  <2>4. /\ \A m \in gone : OpenOf(m)' = FALSE
        /\ \A m \in Ids \ gone : OpenOf(m)' = OpenOf(m)
    BY <2>1, <2>3 DEF OpenOf
  <2>5. Contract!Forget(gone)
    <3>1. \A m \in gone : check_result'[m] = <<>> /\ alert'[m] = <<>> /\ OpenOf(m)' = FALSE
      BY <2>2, <2>4
    <3>2. \A m \in Ids \ gone : /\ check_result'[m] = check_result[m]
                                 /\ alert'[m] = alert[m] /\ OpenOf(m)' = OpenOf(m)
      BY <2>2, <2>4
    <3> QED
      BY <3>1, <3>2, ViewForgets
  <2> QED
    BY <2>5 DEF Contract!Next
<1>10. ASSUME Fetch \/ Shutdown \/ Drained \/ Crash \/ Restart \/ UNCHANGED vars
       PROVE  UNCHANGED Contract!vars
  BY <1>1, <1>10 DEF Fetch, Shutdown, Drained, Crash, Restart, vars, tables
<1>11. ASSUME NEW m \in Ids PROVE ~ResolveDetached(m)
  BY <1>0 DEF CheckGood, ResolveDetached
<1> QED
  BY <1>2, <1>3, <1>5, <1>6, <1>7, <1>8, <1>9, <1>10, <1>11 DEF Next, ApiStep, CheckStep

\* With commits that do not outlive their client, the tables implement the alert
\* contract: whatever the other actors do, each step on them is an observation with its
\* alert, a deletion, or invisible (checkAndPersist, deleteMonitor, demoreset.Reset).
THEOREM ContractCorrect ==
  ASSUME SlowCommits = FALSE
  PROVE  Spec => ImplementsAlertContract
<1>1. Init => Contract!Init
  <2> SUFFICES ASSUME Init PROVE Contract!Init
    OBVIOUS
  <2>1. \A m \in Ids : Len(check_result[m]) = 0 /\ Len(alert[m]) = 0 /\ OpenOf(m) = FALSE
    BY DEF Init, Blank, NewRow, OpenOf
  <2>2. \A m \in Ids : LogOf(m) = <<>> /\ EventsOf(m) = <<>>
    BY <2>1 DEF LogOf, EventsOf
  <2>3. LogView = [m \in Ids |-> <<>>] /\ EventsView = [m \in Ids |-> <<>>]
    BY <2>2, Zenon DEF LogView, EventsView
  <2>4. OpenView = [m \in Ids |-> FALSE]
    BY <2>1, Zenon DEF OpenView
  <2> QED
    BY <2>3, <2>4 DEF Contract!Init, LogView, EventsView, OpenView, LogOf, EventsOf, OpenOf
<1>2. AlertInvariant /\ [Next]_vars => [Contract!Next]_(Contract!vars)
  BY StepImplements
<1> QED
  BY AlertsAlways, <1>1, <1>2, PTL DEF Spec, ImplementsAlertContract, Contract!Spec

-----------------------------------------------------------------------------
(* The rows on record, also when a commit outlives its client *)

\* What holds of the rows of m.  The last part is OneStaleResult.
Settled(m) ==
    /\ ~Live(m) => check_result[m] = <<>> /\ alert[m] = <<>>
    /\ \A i \in 1..Len(check_result[m]) :
         /\ ~check_result[m][i].aborted
         /\ i > retargeted[m] + 1 => check_result[m][i].target = monitor[m].target

\* What holds of that which may still become a row of m: the check of m, and the
\* commit the server has not finished.  Once a check has inserted its result, the
\* row cannot go.  Whatever is about an old target is the next result after the
\* change: no target changes under a detached commit, and a check that a detached
\* commit can overtake has read the row after the last change.
Underway(m) ==
    /\ stage[m] # "idle" => phase[m] # "unborn"
    /\ stage[m] \in {"inserted", "updated", "complete"} => Live(m)
    /\ probe[m].aborted => worker = "draining" /\ stage[m] = "probed"
    /\ stage[m] \in {"probed", "inserted", "updated", "complete"} =>
         probe[m].target = snap[m].target
    /\ stage[m] # "idle" /\ Live(m) /\ snap[m].target # monitor[m].target =>
         retargeted[m] = Len(check_result[m]) /\ detached[m] = <<>>
    /\ detached[m] # <<>> =>
         /\ Live(m) /\ stage[m] \notin {"updated", "complete"}
         /\ ~detached[m][1].result.aborted
         /\ detached[m][1].result.target # monitor[m].target =>
              retargeted[m] = Len(check_result[m])

RowsInvariant == TypeOK /\ \A m \in Ids : Settled(m) /\ Underway(m)

\* A step leaves the rows of m as far as they matter here, and its check, as they are.
RowsKept(m) ==
    /\ phase'[m] = phase[m] /\ retargeted'[m] = retargeted[m]
    /\ check_result'[m] = check_result[m] /\ alert'[m] = alert[m]
    /\ monitor'[m].target = monitor[m].target

CheckKept(m) ==
    /\ stage'[m] = stage[m] /\ snap'[m] = snap[m] /\ probe'[m] = probe[m]
    /\ detached'[m] = detached[m]

LEMMA KeptSettled ==
  ASSUME NEW m \in Ids, Settled(m), RowsKept(m)
  PROVE  Settled(m)'
  BY DEF Settled, RowsKept, Live

LEMMA KeptUnderway ==
  ASSUME NEW m \in Ids, Underway(m), RowsKept(m), CheckKept(m),
         worker' = worker \/ ~probe[m].aborted
  PROVE  Underway(m)'
  BY DEF Underway, RowsKept, CheckKept, Live

\* A check that ends leaves nothing but perhaps a commit of its own.
LEMMA FinishUnderway ==
  ASSUME TypeOK, NEW m \in Ids, Underway(m), RowsKept(m), Finish(m), detached' = detached
  PROVE  Underway(m)'
<1>1. stage'[m] = "idle" /\ ~probe'[m].aborted
  BY DEF Finish, NoProbe, TypeOK, CheckOK
<1> QED
  BY <1>1 DEF Underway, RowsKept, Live

\* A write set joins the table: the result of a check, or of a detached commit.
LEMMA ApplySettled ==
  ASSUME TypeOK, NEW m \in Ids, Settled(m), NEW w \in Write, Apply(m, w),
         Live(m), ~w.result.aborted,
         w.result.target # monitor[m].target => retargeted[m] = Len(check_result[m])
  PROVE  /\ Settled(m)'
         /\ Live(m)' /\ monitor'[m].target = monitor[m].target
<1>1. PICK k \in Nat : k = Len(check_result[m])
  BY DEF TypeOK, TablesOK
<1>2. /\ phase' = phase /\ retargeted' = retargeted
      /\ monitor'[m].target = monitor[m].target
  BY DEF Apply, TypeOK, TablesOK, Row
<1>3. /\ Len(check_result'[m]) = k + 1
      /\ check_result'[m][k + 1] = w.result
      /\ \A i \in 1..k : check_result'[m][i] = check_result[m][i]
  BY <1>1 DEF Apply, TypeOK, TablesOK, Write
<1>4. ASSUME NEW i \in 1..(k + 1)
      PROVE  /\ ~check_result'[m][i].aborted
             /\ i > retargeted[m] + 1 => check_result'[m][i].target = monitor[m].target
  <2>1. CASE i = k + 1
    <3>1. retargeted[m] \in Nat
      BY DEF TypeOK, TablesOK
    <3> QED
      BY <1>1, <1>3, <2>1, <3>1
  <2>2. CASE i \in 1..k
    BY <1>1, <1>3, <2>2 DEF Settled
  <2> QED
    BY <2>1, <2>2
<1> QED
  BY <1>2, <1>3, <1>4 DEF Settled, Live

\* The steps of a check, seen from monitor n.
LEMMA CheckStepRows ==
  ASSUME RowsInvariant, TypeOK', NEW m \in Ids, CheckStep(m), NEW n \in Ids
  PROVE  Settled(n)' /\ Underway(n)'
<1>0. TypeOK /\ Settled(n) /\ Underway(n)
  BY DEF RowsInvariant
<1>1. worker' = worker
  BY DEF CheckStep, StartWork, Probe, CheckError, InsertResult, UpdateMonitor, InsertAlert,
         Commit, DetachCommit, PersistError
<1>2. CASE n # m
  <2>1. RowsKept(n)
    BY <1>0, <1>2 DEF CheckStep, StartWork, Probe, CheckError, InsertResult, UpdateMonitor,
       InsertAlert, Commit, DetachCommit, PersistError, Apply, tables, RowsKept, TypeOK, TablesOK
  <2>2. CheckKept(n)
    BY <1>0, <1>2 DEF CheckStep, StartWork, Probe, CheckError, InsertResult, UpdateMonitor,
       InsertAlert, Commit, DetachCommit, PersistError, Finish, CheckKept, TypeOK, CheckOK
  <2> QED
    BY <1>0, <1>1, <2>1, <2>2, KeptSettled, KeptUnderway
<1>3. CASE n = m
  <2>1. ASSUME UNCHANGED tables PROVE RowsKept(m) /\ Settled(n)'
    BY <1>0, <1>3, <2>1, KeptSettled DEF tables, RowsKept
  <2>2. CASE StartWork(m)
    BY <1>0, <1>1, <1>3, <2>1, <2>2 DEF StartWork, Underway, RowsKept, Live, TypeOK, CheckOK
  <2>3. CASE Probe(m)
    <3>1. PICK s \in States, aborted \in BOOLEAN :
            /\ aborted => worker = "draining" /\ s = "unhealthy"
            /\ probe' = [probe EXCEPT ![m] = [state |-> s, target |-> snap[m].target,
                                              aborted |-> aborted]]
      BY <2>3 DEF Probe
    <3>2. probe'[m].target = snap[m].target /\ (probe'[m].aborted => worker = "draining")
      BY <1>0, <3>1 DEF TypeOK, CheckOK
    <3> QED
      BY <1>0, <1>1, <1>3, <2>1, <2>3, <3>2 DEF Probe, Underway, RowsKept, Live, TypeOK, CheckOK
  <2>4. CASE CheckError(m)
    BY <1>0, <1>3, <2>1, <2>4, FinishUnderway DEF CheckError
  <2>5. CASE InsertResult(m)
    <3>1. CASE Live(m)
      BY <1>0, <1>1, <1>3, <2>1, <2>5, <3>1
      DEF InsertResult, ContextAlive, Underway, RowsKept, Live, TypeOK, CheckOK
    <3>2. CASE ~Live(m)
      BY <1>0, <1>3, <2>1, <2>5, <3>2, FinishUnderway DEF InsertResult
    <3> QED
      BY <3>1, <3>2
  <2>6. CASE UpdateMonitor(m)
    <3>1. CASE Live(m)
      BY <1>0, <1>1, <1>3, <2>1, <2>6, <3>1
      DEF UpdateMonitor, Underway, RowsKept, Live, TypeOK, CheckOK
    <3>2. CASE ~Live(m)
      BY <1>0, <1>3, <2>1, <2>6, <3>2, FinishUnderway DEF UpdateMonitor
    <3> QED
      BY <3>1, <3>2
  <2>7. CASE InsertAlert(m)
    BY <1>0, <1>1, <1>3, <2>1, <2>7 DEF InsertAlert, Underway, RowsKept, Live, TypeOK, CheckOK
  <2>8. CASE Commit(m)
    <3>1. /\ Live(m) /\ detached[m] = <<>> /\ ~probe[m].aborted
          /\ probe[m].target # monitor[m].target => retargeted[m] = Len(check_result[m])
      BY <1>0, <1>3, <2>8 DEF Commit, Underway
    <3>2. WriteSet(m) \in Write /\ WriteSet(m).result = probe[m]
      BY <1>0, WriteSetOK DEF WriteSet
    <3>3. Settled(m)'
      BY <1>0, <1>3, <2>8, <3>1, <3>2, ApplySettled DEF Commit
    <3>4. stage'[m] = "idle" /\ ~probe'[m].aborted /\ detached'[m] = <<>>
      BY <1>0, <2>8, <3>1 DEF Commit, Finish, NoProbe, TypeOK, CheckOK
    <3> QED
      BY <1>3, <3>3, <3>4 DEF Underway
  <2>9. CASE DetachCommit(m)
    <3>1. /\ Live(m) /\ detached[m] = <<>> /\ ~probe[m].aborted
          /\ probe[m].target # monitor[m].target => retargeted[m] = Len(check_result[m])
      BY <1>0, <1>3, <2>9 DEF DetachCommit, Underway
    <3>2. detached'[m] # <<>> /\ detached'[m][1].result = probe[m]
      BY <1>0, <2>9, <3>1, WriteSetOK DEF DetachCommit, WriteSet, TypeOK
    <3>3. stage'[m] = "idle" /\ ~probe'[m].aborted
      BY <1>0, <2>9 DEF DetachCommit, Finish, NoProbe, TypeOK, CheckOK
    <3> QED
      BY <1>0, <1>3, <2>1, <2>9, <3>1, <3>2, <3>3 DEF DetachCommit, Underway, RowsKept, Live
  <2>10. CASE PersistError(m)
    BY <1>0, <1>3, <2>1, <2>10, FinishUnderway DEF PersistError
  <2> QED
    BY <2>2, <2>3, <2>4, <2>5, <2>6, <2>7, <2>8, <2>9, <2>10 DEF CheckStep
<1> QED
  BY <1>2, <1>3

\* The steps of the API and of its seeds.
LEMMA ApiStepRows ==
  ASSUME RowsInvariant, TypeOK', NEW m \in Ids, ApiStep(m), NEW n \in Ids
  PROVE  Settled(n)' /\ Underway(n)'
<1>0. TypeOK /\ Settled(n) /\ Underway(n)
  BY DEF RowsInvariant
<1>1. UNCHANGED <<worker, check, detached>>
  BY DEF ApiStep, CreateMonitor, FindForUpdate, FindForDelete, UpdateRow, DeleteRow,
         RequestFails, SeedUpdate, SeedCreate
<1>2. CheckKept(n)
  BY <1>1 DEF check, CheckKept
<1>3. ASSUME RowsKept(n) PROVE Settled(n)' /\ Underway(n)'
  BY <1>0, <1>1, <1>2, <1>3, KeptSettled, KeptUnderway
<1>4. ASSUME NEW row, Insert(m, row), m \in Fresh PROVE Settled(n)' /\ Underway(n)'
  <2>1. CASE n = m
    <3>1. /\ phase'[n] = "live" /\ check_result'[n] = <<>> /\ alert'[n] = <<>>
          /\ stage[n] = "idle" /\ detached[n] = <<>>
      BY <1>0, <1>4, <2>1 DEF Insert, Fresh, Settled, Underway, Live, TypeOK, TablesOK
    <3>2. Len(check_result'[n]) = 0
      BY <3>1
    <3> QED
      BY <1>0, <1>1, <1>2, <3>1, <3>2 DEF Settled, Underway, CheckKept, Live
  <2>2. CASE n # m
    BY <1>0, <1>3, <1>4, <2>2 DEF Insert, RowsKept, TypeOK, TablesOK
  <2> QED
    BY <2>1, <2>2
<1>5. ASSUME NEW target, SetTarget(m, target), monitor'[m].target = target,
             \A k \in Ids \ {m} : monitor'[k] = monitor[k],
             UNCHANGED <<phase, check_result, alert>>, Live(m), ~RowLocked(m)
      PROVE  Settled(n)' /\ Underway(n)'
  <2>1. CASE n # m
    BY <1>0, <1>3, <1>5, <2>1 DEF SetTarget, RowsKept, TypeOK, TablesOK
  <2>2. CASE n = m /\ monitor[m].target = target
    BY <1>0, <1>3, <1>5, <2>2 DEF SetTarget, RowsKept, TypeOK, TablesOK
  <2>3. CASE n = m /\ monitor[m].target # target
    <3>1. retargeted'[n] = Len(check_result[n]) /\ Live(n)' /\ detached[n] = <<>>
      BY <1>0, <1>5, <2>3 DEF SetTarget, RowLocked, Live, TypeOK, TablesOK
    <3>2. Len(check_result[n]) \in Nat
      BY <1>0 DEF TypeOK, TablesOK
    <3> QED
      BY <1>0, <1>1, <1>2, <1>5, <3>1, <3>2 DEF Settled, Underway, CheckKept, Live
  <2> QED
    BY <2>1, <2>2, <2>3
<1>6. CASE CreateMonitor(m) \/ SeedCreate(m)
  BY <1>4, <1>6 DEF CreateMonitor, SeedCreate
<1>7. CASE FindForUpdate(m) \/ FindForDelete(m) \/ RequestFails(m)
  BY <1>3, <1>7 DEF FindForUpdate, FindForDelete, RequestFails, tables, RowsKept
<1>8. CASE UpdateRow(m)
  <2>1. PICK target \in Targets, checked \in {"null", "recent", "elapsed"} :
          /\ monitor' = [monitor EXCEPT ![m] =
                          [@ EXCEPT !.target = target, !.last_checked_at = checked]]
          /\ SetTarget(m, target)
    BY <1>8 DEF UpdateRow
  <2>2. monitor'[m].target = target /\ \A k \in Ids \ {m} : monitor'[k] = monitor[k]
    BY <1>0, <2>1 DEF TypeOK, TablesOK, Row
  <2> QED
    BY <1>5, <1>8, <2>1, <2>2 DEF UpdateRow
<1>9. CASE SeedUpdate(m)
  <2>1. monitor'[m].target = SeedTarget /\ \A k \in Ids \ {m} : monitor'[k] = monitor[k]
    BY <1>0, <1>9 DEF SeedUpdate, TypeOK, TablesOK, Row
  <2> QED
    BY <1>5, <1>9, <2>1 DEF SeedUpdate
<1>10. CASE DeleteRow(m)
  <2>1. CASE n = m
    <3>1. /\ ~Live(n)' /\ phase'[n] # "unborn"
          /\ check_result'[n] = <<>> /\ alert'[n] = <<>>
          /\ stage[n] \notin {"inserted", "updated", "complete"} /\ detached[n] = <<>>
      BY <1>0, <1>10, <2>1 DEF DeleteRow, Remove, KeyShared, Live, TypeOK, TablesOK
    <3>2. Len(check_result'[n]) = 0
      BY <3>1
    <3> QED
      BY <1>0, <1>1, <1>2, <3>1, <3>2 DEF Settled, Underway, CheckKept
  <2>2. CASE n # m
    BY <1>0, <1>3, <1>10, <2>2 DEF DeleteRow, Remove, RowsKept, TypeOK, TablesOK
  <2> QED
    BY <2>1, <2>2
<1> QED
  BY <1>6, <1>7, <1>8, <1>9, <1>10 DEF ApiStep

\* The poll query, the life of the process, the demo reset and the server.
LEMMA OtherStepRows ==
  ASSUME RowsInvariant, TypeOK',
         \/ Fetch \/ Shutdown \/ Drained \/ Crash \/ Restart \/ DemoReset
         \/ \E m \in Ids : ResolveDetached(m) \/ Elapse(m),
         NEW n \in Ids
  PROVE  Settled(n)' /\ Underway(n)'
<1>0. TypeOK /\ Settled(n) /\ Underway(n)
  BY DEF RowsInvariant
<1>1. CASE Fetch
  <2>1. RowsKept(n) /\ Settled(n)'
    BY <1>0, <1>1, KeptSettled DEF Fetch, tables, RowsKept
  <2>2. stage[n] = "idle" /\ probe'[n] = probe[n] /\ worker' = worker /\ detached'[n] = detached[n]
    BY <1>1 DEF Fetch
  <2>3. \/ stage'[n] = "idle"
        \/ stage'[n] = "queued" /\ Live(n) /\ snap'[n].target = monitor[n].target
    BY <1>1 DEF Fetch, Due
  <2> QED
    BY <1>0, <2>1, <2>2, <2>3 DEF Underway, RowsKept, Live
<1>2. CASE Shutdown \/ Drained \/ Crash \/ Restart
  <2>1. RowsKept(n) /\ Settled(n)' /\ detached'[n] = detached[n]
    BY <1>0, <1>2, KeptSettled DEF Shutdown, Drained, Crash, Restart, tables, RowsKept
  <2>2. CASE Shutdown
    BY <1>0, <2>1, <2>2 DEF Shutdown, Underway, RowsKept, Live
  <2>3. CASE Drained
    BY <1>0, <2>1, <2>3 DEF Drained, check, Underway, RowsKept, Live
  <2>4. CASE Crash
    BY <1>0, <2>1, <2>4 DEF Crash, NoProbe, Underway, RowsKept, Live
  <2>5. CASE Restart
    BY <1>0, <2>1, <2>5 DEF Restart, check, Underway, RowsKept, Live
  <2> QED
    BY <1>2, <2>2, <2>3, <2>4, <2>5
<1>3. CASE DemoReset
  <2> DEFINE gone == {m \in Ids : Live(m) /\ monitor[m].account = "demo"}
  <2>1. /\ UNCHANGED <<worker, check, detached>> /\ Remove(gone)
        /\ \A m \in gone : ~KeyShared(m)
    BY <1>3 DEF DemoReset
  <2>2. PICK new \in Fresh :
          /\ phase' = [m \in Ids |-> IF m \in gone THEN "deleted"
                                     ELSE IF m = new THEN "live" ELSE phase[m]]
          /\ monitor' = [m \in Ids |-> IF m \in gone THEN Blank
                                       ELSE IF m = new THEN NewRow("demo", TRUE, SeedTarget)
                                       ELSE monitor[m]]
    BY <1>3 DEF DemoReset
  <2>3. CheckKept(n)
    BY <2>1 DEF check, CheckKept
  <2>4. CASE n \in gone
    <3>1. /\ ~Live(n)' /\ phase'[n] # "unborn"
          /\ check_result'[n] = <<>> /\ alert'[n] = <<>>
          /\ stage[n] \notin {"inserted", "updated", "complete"} /\ detached[n] = <<>>
      BY <2>1, <2>2, <2>4 DEF Remove, KeyShared, Live
    <3>2. Len(check_result'[n]) = 0
      BY <3>1
    <3> QED
      BY <1>0, <2>1, <2>3, <3>1, <3>2 DEF Settled, Underway, CheckKept
  <2>5. CASE n \notin gone /\ n = new
    <3>1. /\ phase'[n] = "live" /\ check_result'[n] = <<>> /\ alert'[n] = <<>>
          /\ stage[n] = "idle" /\ detached[n] = <<>>
      BY <1>0, <2>1, <2>2, <2>5 DEF Remove, Fresh, Settled, Underway, Live
    <3>2. Len(check_result'[n]) = 0
      BY <3>1
    <3> QED
      BY <1>0, <2>1, <2>3, <3>1, <3>2 DEF Settled, Underway, CheckKept, Live
  <2>6. CASE n \notin gone /\ n # new
    <3>1. RowsKept(n)
      BY <2>1, <2>2, <2>6 DEF Remove, RowsKept
    <3> QED
      BY <1>0, <2>1, <2>3, <3>1, KeptSettled, KeptUnderway
  <2> QED
    BY <2>4, <2>5, <2>6
<1>4. CASE \E m \in Ids : ResolveDetached(m)
  <2>1. PICK m \in Ids : ResolveDetached(m)
    BY <1>4
  <2>2. /\ stage' = stage /\ snap' = snap /\ probe' = probe /\ worker' = worker
        /\ detached' = [detached EXCEPT ![m] = <<>>] /\ detached[m] # <<>>
        /\ Apply(m, Head(detached[m])) \/ UNCHANGED tables
    BY <2>1 DEF ResolveDetached, check
  <2>3. Head(detached[m]) \in Write /\ Head(detached[m]) = detached[m][1]
    BY <1>0, <2>2 DEF TypeOK
  <2>4. CASE n # m
    <3>1. ASSUME NEW w, Apply(m, w) PROVE RowsKept(n)
      <4>1. phase' = phase /\ retargeted' = retargeted /\ monitor'[n] = monitor[n]
        BY <1>0, <2>4, <3>1 DEF Apply, TypeOK, TablesOK
      <4>2. check_result'[n] = check_result[n] /\ alert'[n] = alert[n]
        BY <1>0, <2>4, <3>1 DEF Apply, TypeOK, TablesOK
      <4> QED
        BY <4>1, <4>2 DEF RowsKept
    <3>2. UNCHANGED tables => RowsKept(n)
      BY DEF tables, RowsKept
    <3>3. CheckKept(n)
      BY <1>0, <2>2, <2>4 DEF CheckKept, TypeOK
    <3> QED
      BY <1>0, <2>2, <3>1, <3>2, <3>3, KeptSettled, KeptUnderway
  <2>5. CASE n = m /\ UNCHANGED tables
    <3>1. RowsKept(n) /\ detached'[n] = <<>>
      BY <1>0, <2>2, <2>5 DEF tables, RowsKept, TypeOK
    <3> QED
      BY <1>0, <2>2, <3>1, KeptSettled DEF Underway, RowsKept, Live
  <2>6. CASE n = m /\ Apply(m, Head(detached[m]))
    <3>1. Settled(n)' /\ Live(n)' /\ monitor'[n].target = monitor[n].target
      BY <1>0, <2>2, <2>3, <2>6, ApplySettled DEF Underway
    <3>2. detached'[n] = <<>>
      BY <1>0, <2>2, <2>6 DEF TypeOK
    <3>3. stage[n] # "idle" => snap[n].target = monitor[n].target
      BY <1>0, <2>2, <2>6 DEF Underway
    <3> QED
      BY <1>0, <2>2, <3>1, <3>2, <3>3 DEF Underway, Live
  <2> QED
    BY <2>2, <2>4, <2>5, <2>6
<1>5. CASE \E m \in Ids : Elapse(m)
  <2>1. PICK m \in Ids : Elapse(m)
    BY <1>5
  <2>2. RowsKept(n)
    BY <1>0, <2>1 DEF Elapse, RowsKept, TypeOK, TablesOK, Row
  <2>3. CheckKept(n) /\ worker' = worker
    BY <2>1 DEF Elapse, CheckKept, check
  <2> QED
    BY <1>0, <2>2, <2>3, KeptSettled, KeptUnderway
<1> QED
  BY <1>1, <1>2, <1>3, <1>4, <1>5

LEMMA InitRows == Init => RowsInvariant
<1> SUFFICES ASSUME Init PROVE RowsInvariant
  OBVIOUS
<1> SUFFICES ASSUME NEW m \in Ids PROVE Settled(m) /\ Underway(m)
  BY InitType DEF RowsInvariant
<1>1. /\ check_result[m] = <<>> /\ alert[m] = <<>>
      /\ stage[m] = "idle" /\ detached[m] = <<>> /\ ~probe[m].aborted
  BY DEF Init, NoProbe
<1>2. Len(check_result[m]) = 0
  BY <1>1
<1> QED
  BY <1>1, <1>2 DEF Settled, Underway

LEMMA NextRows ==
  ASSUME RowsInvariant, [Next]_vars
  PROVE  RowsInvariant'
<1>1. TypeOK'
  BY NextType DEF RowsInvariant
<1> SUFFICES ASSUME NEW n \in Ids PROVE Settled(n)' /\ Underway(n)'
  BY <1>1 DEF RowsInvariant
<1>2. CASE UNCHANGED vars
  <2>1. RowsKept(n) /\ CheckKept(n) /\ worker' = worker
    BY <1>2 DEF vars, tables, check, RowsKept, CheckKept
  <2> QED
    BY <2>1, KeptSettled, KeptUnderway DEF RowsInvariant
<1>3. CASE Next
  BY <1>1, <1>3, CheckStepRows, ApiStepRows, OtherStepRows DEF Next
<1> QED
  BY <1>2, <1>3

LEMMA RowsAlways == Spec => []RowsInvariant
<1>1. RowsInvariant /\ [Next]_vars => RowsInvariant'
  BY NextRows
<1> QED
  BY InitRows, <1>1, PTL DEF Spec

\* A row that is gone leaves no results and no alerts, and an interrupted probe is never
\* recorded (checkAndPersist, deleteMonitor, demoreset.Reset): for any number of
\* monitors, and even when a COMMIT outlives the client that gave it up.
THEOREM RowsCorrect == Spec => []RowsJustified
<1>1. RowsInvariant => RowsJustified
  BY DEF RowsInvariant, Settled, RowsJustified, NoOrphans, NoAbortedProbeRecorded
<1> QED
  BY RowsAlways, <1>1, PTL

\* Likewise, after a change of target at most one more result is about the old one.
THEOREM TargetCorrect == Spec => []OneStaleResult
<1>1. RowsInvariant => OneStaleResult
  BY DEF RowsInvariant, Settled, OneStaleResult
<1> QED
  BY RowsAlways, <1>1, PTL
=============================================================================
