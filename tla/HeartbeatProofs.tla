--------------------------- MODULE HeartbeatProofs ---------------------------
(* Proofs about PollCycle, and about Heartbeat which measures its steps, for    *)
(* every set of monitors, limit and timeout.                                    *)
EXTENDS Heartbeat, FiniteSetTheorems, TLAPS

-----------------------------------------------------------------------------
(* The polling loop *)

\* Monitors with a goroutine or a result that was not received.
Busy == {m \in Monitors : work[m] # "none"}

\* The counter counts exactly these, none of them is to be started again, and
\* outside a cycle there are none.
CountInvariant ==
    /\ TypeOK
    /\ active = Cardinality(Busy)
    /\ pending \cap Busy = {}
    /\ loop \in {"waiting", "fetching", "joining", "stopped"} => active = 0
    /\ loop = "dispatching" => pending # {} \/ active > 0
    /\ loop \in {"draining", "joining", "stopped"} => context = "cancelled"
    /\ loop = "stopped" => \A j \in Jobs : jobs[j] = "done"

\* Some facts on cardinality in the form the steps need.
LEMMA BusyFinite ==
  ASSUME TypeOK
  PROVE  IsFiniteSet(Busy) /\ Cardinality(Busy) \in Nat /\ (Cardinality(Busy) = 0 <=> Busy = {})
<1>1. Busy \subseteq Monitors
  BY DEF Busy
<1>2. IsFiniteSet(Busy)
  BY <1>1, MonitorsAssumption, FS_Subset
<1> QED
  BY <1>2, FS_CardinalityType, FS_EmptySet

\* A goroutine starts.
LEMMA OneMoreBusy ==
  ASSUME TypeOK, NEW m \in Monitors, m \notin Busy, Busy' = Busy \cup {m}
  PROVE  Cardinality(Busy)' = Cardinality(Busy) + 1
  BY BusyFinite, FS_AddElement

\* A result is received.
LEMMA OneLessBusy ==
  ASSUME TypeOK, NEW m \in Busy, Busy' = Busy \ {m}
  PROVE  Cardinality(Busy)' = Cardinality(Busy) - 1
  BY BusyFinite, FS_RemoveElement

\* Release(m) takes m out of the count.
LEMMA ReleaseCounts ==
  ASSUME CountInvariant, NEW m \in Sent, active > 0, Release(m)
  PROVE  /\ work' \in [Monitors -> {"none", "running"} \cup Outcomes]
         /\ pending' \in SUBSET Monitors
         /\ active' \in 0..Concurrency
         /\ active' = Cardinality(Busy)'
         /\ pending' \cap Busy' = {}
<1> USE DEF CountInvariant, TypeOK, Release
<1>1. m \in Busy
  BY DEF Sent, Busy, Outcomes
<1>2. Busy' = Busy \ {m}
  BY <1>1 DEF Busy
<1>3. Cardinality(Busy)' = Cardinality(Busy) - 1
  BY <1>1, <1>2, OneLessBusy
<1>4. active' = active - 1 /\ active' \in 0..Concurrency
  BY ConcurrencyAssumption
<1>5. work' \in [Monitors -> {"none", "running"} \cup Outcomes]
  OBVIOUS
<1> QED
  BY <1>2, <1>3, <1>4, <1>5

\* Replace(m) swaps m for a pending item.
LEMMA ReplaceCounts ==
  ASSUME CountInvariant, NEW m \in Sent, Replace(m)
  PROVE  /\ work' \in [Monitors -> {"none", "running"} \cup Outcomes]
         /\ pending' \in SUBSET Monitors
         /\ active' \in 0..Concurrency
         /\ active' = Cardinality(Busy)'
         /\ pending' \cap Busy' = {}
<1> USE DEF CountInvariant, TypeOK
<1>1. PICK n \in pending :
        /\ work' = [k \in Monitors |-> IF k = m THEN "none"
                                       ELSE IF k = n THEN "running" ELSE work[k]]
        /\ pending' = pending \ {n}
        /\ active' = active
  BY DEF Replace
<1>2. m \in Busy /\ n \notin Busy /\ n \in Monitors
  BY DEF Sent, Busy, Outcomes
<1>3. Busy' = (Busy \ {m}) \cup {n}
  BY <1>1, <1>2 DEF Busy
<1>4. /\ IsFiniteSet(Busy \ {m})
      /\ Cardinality(Busy \ {m}) = Cardinality(Busy) - 1
  BY <1>2, BusyFinite, FS_RemoveElement
<1>5. Cardinality(Busy') = Cardinality(Busy \ {m}) + 1
  BY <1>2, <1>3, <1>4, FS_AddElement
<1>6. Cardinality(Busy') = Cardinality(Busy)
  BY <1>4, <1>5, BusyFinite
<1>7. work' \in [Monitors -> {"none", "running"} \cup Outcomes]
  BY <1>1
<1> QED
  BY <1>1, <1>2, <1>3, <1>6, <1>7

LEMMA InitCount == Init => CountInvariant
<1> SUFFICES ASSUME Init PROVE CountInvariant
  OBVIOUS
<1>1. TypeOK
  BY ConcurrencyAssumption DEF Init, TypeOK, Jobs, Outcomes, Places
<1>2. Busy = {}
  BY DEF Init, Busy
<1> QED
  BY <1>1, <1>2, FS_EmptySet DEF Init, CountInvariant

\* The polling loop outside and inside a cycle.
LEMMA LoopCount ==
  ASSUME CountInvariant, LoopStep
  PROVE  CountInvariant'
<1> USE DEF CountInvariant
<1>1. CASE UNCHANGED work /\ active' = active
  <2>1. Busy' = Busy
    BY <1>1 DEF Busy
  <2>2. CASE Tick \/ Leave \/ Join \/ FetchFails
    BY <1>1, <2>1, <2>2 DEF Tick, Leave, Join, FetchFails, TypeOK, Places
  <2>3. CASE \E due \in SUBSET Monitors : Fetched(due)
    <3>1. active = 0 /\ Busy = {}
      BY <2>3, BusyFinite DEF Fetched
    <3> QED
      BY <1>1, <2>1, <2>3, <3>1 DEF Fetched, TypeOK, Places
  <2>4. CASE FirstStarted \/ NoticeCancel \/ EndCycle
    BY <1>1, <2>1, <2>4, ConcurrencyAssumption
    DEF FirstStarted, NoticeCancel, EndCycle, TypeOK, Places
  <2>5. CASE \E m \in Monitors : StartFirst(m) \/ Receive(m) \/ DrainOne(m)
    <3>1. PICK m \in Monitors : StartFirst(m) \/ Receive(m) \/ DrainOne(m)
      BY <2>5
    <3>2. FALSE
      <4>1. CASE StartFirst(m)
        BY <4>1, <1>1 DEF StartFirst, TypeOK
      <4>2. CASE Receive(m)
        BY <4>2, <1>1 DEF Receive, Release, Replace, Sent, Outcomes, TypeOK
      <4>3. CASE DrainOne(m)
        BY <4>3, <1>1 DEF DrainOne, Release, Sent, Outcomes, TypeOK
      <4> QED
        BY <3>1, <4>1, <4>2, <4>3
    <3> QED
      BY <3>2
  <2> QED
    BY <2>2, <2>3, <2>4, <2>5 DEF LoopStep, Fetch, Dispatch
<1>2. ASSUME NEW m \in Monitors, StartFirst(m)
      PROVE  CountInvariant'
  <2>1. m \notin Busy /\ Busy' = Busy \cup {m}
    BY <1>2 DEF StartFirst, Busy, TypeOK
  <2>2. Cardinality(Busy)' = Cardinality(Busy) + 1
    BY <2>1, OneMoreBusy
  <2>3. active' \in 1..Concurrency
    BY <1>2, ConcurrencyAssumption DEF StartFirst, TypeOK
  <2>4. TypeOK'
    BY <1>2, <2>3, ConcurrencyAssumption DEF StartFirst, TypeOK
  <2> QED
    BY <1>2, <2>1, <2>2, <2>3, <2>4 DEF StartFirst
<1>3. ASSUME NEW m \in Monitors, Receive(m)
      PROVE  CountInvariant'
  <2>1. CASE Release(m)
    BY <1>3, <2>1, ReleaseCounts DEF Receive, TypeOK
  <2>2. CASE Replace(m)
    BY <1>3, <2>2, ReplaceCounts DEF Receive, TypeOK
  <2> QED
    BY <1>3, <2>1, <2>2 DEF Receive
<1>4. ASSUME NEW m \in Monitors, DrainOne(m)
      PROVE  CountInvariant'
  BY <1>4, ReleaseCounts DEF DrainOne, TypeOK
<1>5. CASE \E m \in Monitors : StartFirst(m) \/ Receive(m) \/ DrainOne(m)
  BY <1>5, <1>2, <1>3, <1>4
<1>6. CASE Tick \/ Leave \/ Fetch \/ Join \/ FirstStarted \/ NoticeCancel \/ EndCycle
  BY <1>6, <1>1 DEF Tick, Leave, Fetch, FetchFails, Fetched, Join, FirstStarted,
                    NoticeCancel, EndCycle
<1> QED
  BY <1>5, <1>6 DEF LoopStep, Dispatch

\* Checks, background jobs and the signal.
LEMMA ElsewhereCount ==
  ASSUME CountInvariant,
         Signal \/ (\E m \in Monitors : Finish(m)) \/ (\E j \in Jobs : JobStep(j))
  PROVE  CountInvariant'
<1> USE DEF CountInvariant
<1>1. Busy' = Busy
  <2>1. CASE \E m \in Monitors : Finish(m)
    BY <2>1 DEF Finish, Running, Busy, TypeOK, Outcomes
  <2>2. CASE UNCHANGED work
    BY <2>2 DEF Busy
  <2> QED
    BY <2>1, <2>2 DEF Signal, JobStep, JobStart, JobEnd, JobStop
<1>2. CASE Signal
  BY <1>1, <1>2 DEF Signal, TypeOK
<1>3. CASE \E m \in Monitors : Finish(m)
  BY <1>1, <1>3 DEF Finish, TypeOK
<1>4. CASE \E j \in Jobs : JobStep(j)
  BY <1>1, <1>4 DEF JobStep, JobStart, JobEnd, JobStop, TypeOK
<1> QED
  BY <1>2, <1>3, <1>4

LEMMA NextCount == CountInvariant /\ [Next]_vars => CountInvariant'
<1> SUFFICES ASSUME CountInvariant, [Next]_vars PROVE CountInvariant'
  OBVIOUS
<1>1. CASE LoopStep
  BY <1>1, LoopCount
<1>2. CASE Signal \/ (\E m \in Monitors : Finish(m)) \/ (\E j \in Jobs : JobStep(j))
  BY <1>2, ElsewhereCount
<1>3. CASE UNCHANGED vars
  BY <1>3 DEF vars, CountInvariant, TypeOK, Busy
<1> QED
  BY <1>1, <1>2, <1>3 DEF Next, Exited

\* What the invariant says of the loop and its goroutines.
LEMMA CountGood ==
  ASSUME CountInvariant
  PROVE  LimitsKept /\ CyclesDoNotOverlap
<1> USE DEF CountInvariant
<1>1. Running \subseteq Busy /\ Sent \subseteq Busy
  BY DEF Running, Sent, Busy, Outcomes
<1>2. Cardinality(Running) <= active
  BY <1>1, BusyFinite, FS_Subset
<1>3. BoundedConcurrency
  <2>1. IsFiniteSet(Running)
    BY <1>1, BusyFinite, FS_Subset
  <2>2. Cardinality(Running) \in Nat
    BY <2>1, FS_CardinalityType
  <2> QED
    BY <1>2, <2>2, ConcurrencyAssumption DEF BoundedConcurrency, TypeOK
<1>4. active = 0 => Running = {} /\ Sent = {}
  BY <1>1, BusyFinite
<1> QED
  BY <1>3, <1>4 DEF CyclesDoNotOverlap, QuietWhenStopped, LimitsKept

LEMMA CountAlways == Spec => []CountInvariant
  BY InitCount, NextCount, PTL DEF Spec

\* The worker never runs more checks than it is allowed to and leaves nothing running
\* behind when it stops (runPollCycle and the deferred receives of runWithHealth),
\* for every number of monitors and every limit.
THEOREM LimitsCorrect == Spec => []LimitsKept
<1>1. CountInvariant => LimitsKept
  BY CountGood
<1> QED
  BY CountAlways, <1>1, PTL

\* Outside a cycle no check runs and no result is left in a channel, however the cycle
\* ended (runPollCycle), for every number of monitors and every limit.
THEOREM CyclesCorrect == Spec => []CyclesDoNotOverlap
<1>1. CountInvariant => CyclesDoNotOverlap
  BY CountGood
<1> QED
  BY CountAlways, <1>1, PTL

\* Between cycles nothing waits to be started, and inside one every permit is used as
\* long as something does, unless the context is cancelled: so a cycle that ends by
\* itself has started everything.
DispatchInvariant ==
    /\ CountInvariant
    /\ loop \in {"waiting", "fetching", "joining", "stopped"} => pending = {}
    /\ loop = "selecting" /\ context = "alive" /\ pending # {} => active = Concurrency

LEMMA InitDispatch == Init => DispatchInvariant
<1>1. Init => pending = {} /\ loop = "waiting"
  BY DEF Init
<1> QED
  BY <1>1, InitCount DEF DispatchInvariant

LEMMA NextDispatch == DispatchInvariant /\ [Next]_vars => DispatchInvariant'
<1> SUFFICES ASSUME DispatchInvariant, [Next]_vars PROVE DispatchInvariant'
  OBVIOUS
<1> USE DEF DispatchInvariant
<1>1. CountInvariant'
  BY NextCount
<1>2. TypeOK /\ active \in 0..Concurrency
  BY DEF CountInvariant, TypeOK
<1>3. CASE Tick \/ Leave \/ Join \/ FetchFails \/ NoticeCancel \/ EndCycle
  BY <1>1, <1>3 DEF Tick, Leave, Join, FetchFails, NoticeCancel, EndCycle
<1>4. ASSUME NEW due \in SUBSET Monitors, Fetched(due) PROVE DispatchInvariant'
  BY <1>1, <1>4 DEF Fetched
<1>5. CASE FirstStarted
  BY <1>1, <1>2, <1>5, ConcurrencyAssumption DEF FirstStarted
<1>6. ASSUME NEW m \in Monitors, StartFirst(m) PROVE DispatchInvariant'
  BY <1>1, <1>6 DEF StartFirst
<1>7. ASSUME NEW m \in Monitors, Receive(m) PROVE DispatchInvariant'
  BY <1>1, <1>7 DEF Receive, Replace, Release
<1>8. ASSUME NEW m \in Monitors, DrainOne(m) PROVE DispatchInvariant'
  BY <1>1, <1>8 DEF DrainOne, Release
<1>9. CASE Signal \/ (\E m \in Monitors : Finish(m)) \/ (\E j \in Jobs : JobStep(j))
  BY <1>1, <1>9 DEF Signal, Finish, JobStep, JobStart, JobEnd, JobStop
<1>10. CASE UNCHANGED vars
  BY <1>1, <1>10 DEF vars
<1> QED
  BY <1>3, <1>4, <1>5, <1>6, <1>7, <1>8, <1>9, <1>10
  DEF Next, LoopStep, Fetch, Dispatch, Exited

LEMMA DispatchAlways == Spec => []DispatchInvariant
  BY InitDispatch, NextDispatch, PTL DEF Spec

\* The instance counts as this module does.
LEMMA SameCount == \A S : Promise!Cardinality(S) = Cardinality(S)
  BY DEF Promise!Cardinality, Cardinality

\* The promise sees neither places nor counters.
LEMMA PromiseStutters ==
  ASSUME UNCHANGED <<context, pending>>, Running' = Running, UNCHANGED jobs,
         (loop = "stopped") <=> (loop' = "stopped")
  PROVE  UNCHANGED Promise!vars
  BY DEF Promise!vars

\* An item starts while the checks that run leave a permit.
LEMMA PromiseStart ==
  ASSUME DispatchInvariant, NEW m \in pending, NEW taken \in SUBSET Busy,
         Running \subseteq taken, Cardinality(taken) < Concurrency,
         pending' = pending \ {m}, Running' = Running \cup {m},
         UNCHANGED <<context, loop, jobs>>
  PROVE  Promise!Start(m)
<1>1. IsFiniteSet(taken) /\ Cardinality(taken) \in Nat
  BY BusyFinite, FS_Subset, FS_CardinalityType DEF DispatchInvariant, CountInvariant
<1>2. IsFiniteSet(Running) /\ Cardinality(Running) <= Cardinality(taken)
  BY <1>1, FS_Subset
<1>3. Cardinality(Running) \in Nat
  BY <1>2, FS_CardinalityType
<1>4. Promise!Cardinality(Running) < Concurrency
  BY <1>1, <1>2, <1>3, SameCount, ConcurrencyAssumption
<1> QED
  BY <1>4 DEF Promise!Start

\* Every step of the loop keeps the promise.
LEMMA LoopPromise ==
  ASSUME DispatchInvariant, LoopStep
  PROVE  [Promise!Next]_(Promise!vars)
<1> USE DEF DispatchInvariant
<1>1. /\ TypeOK /\ active \in 0..Concurrency /\ active = Cardinality(Busy)
      /\ pending \cap Busy = {} /\ pending \in SUBSET Monitors
      /\ Running \subseteq Busy /\ Sent \subseteq Busy /\ Running \cap Sent = {}
  BY DEF CountInvariant, TypeOK, Running, Sent, Busy, Outcomes
<1>2. active = 0 => Running = {}
  BY <1>1, BusyFinite
<1>3. CASE Tick \/ Leave \/ FetchFails \/ FirstStarted \/ NoticeCancel
  <2>1. Running' = Running
    BY <1>3 DEF Tick, Leave, FetchFails, FirstStarted, NoticeCancel, Running
  <2> QED
    BY <1>3, <2>1, PromiseStutters DEF Tick, Leave, FetchFails, FirstStarted, NoticeCancel
<1>4. ASSUME NEW due \in SUBSET Monitors, Fetched(due) PROVE [Promise!Next]_(Promise!vars)
  <2>1. Running' = Running /\ Running = {} /\ pending = {}
    BY <1>2, <1>4 DEF Fetched, Running, CountInvariant
  <2>2. CASE context = "cancelled" \/ due = {}
    BY <1>4, <2>1, <2>2, PromiseStutters DEF Fetched
  <2>3. CASE context # "cancelled" /\ due # {}
    <3>1. Promise!Poll(due)
      BY <1>4, <2>1, <2>3 DEF Fetched, Promise!Poll
    <3> QED
      BY <3>1 DEF Promise!Next
  <2> QED
    BY <2>2, <2>3
<1>5. CASE EndCycle
  <2>1. Running' = Running /\ Running = {}
    BY <1>2, <1>5 DEF EndCycle, Running
  <2>2. CASE pending = {}
    BY <1>5, <2>1, <2>2, PromiseStutters DEF EndCycle
  <2>3. CASE pending # {}
    <3>1. context = "cancelled"
      BY <1>1, <1>5, <2>3, ConcurrencyAssumption DEF EndCycle, CountInvariant, TypeOK
    <3>2. Promise!Drop
      BY <1>5, <2>1, <3>1 DEF EndCycle, Promise!Drop
    <3> QED
      BY <3>2 DEF Promise!Next
  <2> QED
    BY <2>2, <2>3
<1>6. CASE Join
  <2>1. /\ Running' = Running /\ Running = {} /\ pending = {} /\ context = "cancelled"
        /\ {j \in Jobs : jobs[j] = "running"} = {}
    BY <1>2, <1>6 DEF Join, Running, CountInvariant
  <2>2. Promise!Close
    BY <1>6, <2>1 DEF Join, Promise!Close
  <2> QED
    BY <2>2 DEF Promise!Next
<1>7. ASSUME NEW m \in Monitors, StartFirst(m) PROVE [Promise!Next]_(Promise!vars)
  <2>1. Running' = Running \cup {m}
    BY <1>1, <1>7 DEF StartFirst, Running, TypeOK
  <2>2. Cardinality(Busy) < Concurrency
    BY <1>1, <1>7 DEF StartFirst
  <2>3. Promise!Start(m)
    BY <1>1, <1>7, <2>1, <2>2, PromiseStart DEF StartFirst
  <2> QED
    BY <2>3 DEF Promise!Next
<1>8. ASSUME NEW m \in Sent, Release(m), UNCHANGED <<context, loop, jobs>>
      PROVE  UNCHANGED Promise!vars
  <2>1. Running' = Running
    BY <1>1, <1>8 DEF Release, Running, Sent, Outcomes, TypeOK
  <2> QED
    BY <1>8, <2>1, PromiseStutters DEF Release
<1>9. ASSUME NEW m \in Sent, Replace(m), UNCHANGED <<context, loop, jobs>>
      PROVE  Promise!Next
  <2>1. PICK n \in pending :
          /\ work' = [k \in Monitors |-> IF k = m THEN "none"
                                         ELSE IF k = n THEN "running" ELSE work[k]]
          /\ pending' = pending \ {n}
    BY <1>9 DEF Replace
  <2>2. m \in Busy /\ m \notin Running /\ n \notin Busy /\ n \in Monitors /\ n # m
    BY <1>1
  <2>3. Running' = Running \cup {n}
    BY <2>1, <2>2 DEF Running
  <2>4. Cardinality(Busy \ {m}) = Cardinality(Busy) - 1
    BY <1>1, <2>2, BusyFinite, FS_RemoveElement
  <2>5. Cardinality(Busy \ {m}) < Concurrency
    BY <1>1, <2>4, ConcurrencyAssumption
  <2>6. Running \subseteq Busy \ {m}
    BY <1>1, <2>2
  <2>7. Promise!Start(n)
    BY <1>9, <2>1, <2>3, <2>5, <2>6, PromiseStart
  <2> QED
    BY <2>2, <2>7 DEF Promise!Next
<1>10. ASSUME NEW m \in Monitors, Receive(m) \/ DrainOne(m)
       PROVE  [Promise!Next]_(Promise!vars)
  BY <1>8, <1>9, <1>10 DEF Receive, DrainOne
<1> QED
  BY <1>3, <1>4, <1>5, <1>6, <1>7, <1>10 DEF LoopStep, Fetch, Dispatch

\* So does every step of the other goroutines, and the signal.
LEMMA ElsewherePromise ==
  ASSUME DispatchInvariant,
         Signal \/ (\E m \in Monitors : Finish(m)) \/ (\E j \in Jobs : JobStep(j))
  PROVE  [Promise!Next]_(Promise!vars)
<1> USE DEF DispatchInvariant, CountInvariant, TypeOK
<1>1. CASE Signal
  <2>1. Promise!Tell
    BY <1>1 DEF Signal, Promise!Tell, Running
  <2> QED
    BY <2>1 DEF Promise!Next
<1>2. ASSUME NEW m \in Monitors, Finish(m) PROVE Promise!Next
  <2>1. m \in Running /\ Running' = Running \ {m}
    BY <1>2 DEF Finish, Running, Outcomes
  <2>2. Promise!End(m)
    BY <1>2, <2>1 DEF Finish, Promise!End
  <2> QED
    BY <2>2 DEF Promise!Next
<1>3. ASSUME NEW j \in Jobs, JobStep(j) PROVE Promise!Next
  <2> DEFINE busy == {k \in Jobs : jobs[k] = "running"}
  <2>1. loop # "stopped"
    BY <1>3 DEF JobStep, JobStart, JobEnd, JobStop
  <2>2. busy' = busy \cup {j} \/ busy' = busy \ {j}
    BY <1>3 DEF JobStep, JobStart, JobEnd, JobStop
  <2>3. UNCHANGED <<context, loop, pending>> /\ Running' = Running
    BY <1>3 DEF JobStep, JobStart, JobEnd, JobStop, Running
  <2>4. Promise!Pass(j)
    BY <2>1, <2>2, <2>3 DEF Promise!Pass
  <2> QED
    BY <2>4 DEF Promise!Next
<1> QED
  BY <1>1, <1>2, <1>3

\* The polling loop implements the promise of CycleContract: everything a poll found is
\* checked once, within the limit and before the next poll, unless SIGTERM comes, and
\* the pool is closed when nothing uses it, for every number of monitors and every limit.
THEOREM CycleContractCorrect == Spec => ImplementsCycleContract
<1>1. Init => Promise!Init
  <2> SUFFICES ASSUME Init PROVE Promise!Init
    OBVIOUS
  <2>1. Running = {}
    BY DEF Init, Running
  <2>2. {j \in Jobs : jobs[j] = "running"} = {}
    BY DEF Init
  <2> QED
    BY <2>1, <2>2 DEF Init, Promise!Init
<1>2. DispatchInvariant /\ [Next]_vars => [Promise!Next]_(Promise!vars)
  <2> SUFFICES ASSUME DispatchInvariant, [Next]_vars PROVE [Promise!Next]_(Promise!vars)
    OBVIOUS
  <2>1. CASE UNCHANGED vars
    BY <2>1 DEF vars, Promise!vars, Running
  <2> QED
    BY <2>1, LoopPromise, ElsewherePromise DEF Next, Exited
<1> QED
  BY DispatchAlways, <1>1, <1>2, PTL DEF Spec, ImplementsCycleContract, Promise!Spec

-----------------------------------------------------------------------------
(* The heartbeat *)

\* What the health of the file and the timers amount to besides CountInvariant.
\* A heartbeat is at most as old as what has been waited for since: the tick, the
\* poll query, and any one of the running checks.
FreshInvariant ==
    /\ CountInvariant
    /\ HTypeOK
    /\ written => progress
    /\ loop = "waiting" => idle <= Period
    /\ loop = "fetching" => idle <= DBTimeout
    /\ context = "alive" /\ ~faulty =>
         /\ loop = "waiting" => age <= idle
         /\ loop = "fetching" => age <= Period + idle
         /\ loop = "dispatching" => age <= Period + DBTimeout
         /\ loop = "selecting" /\ active = 0 => age = 0
         /\ loop = "selecting" =>
              /\ age <= Period + DBTimeout + CheckLimit
              /\ \A m \in Running : age <= Period + DBTimeout + spent[m]

LEMMA LimitsOK ==
  /\ Period \in Nat /\ Period > 0 /\ DBTimeout \in Nat /\ DBTimeout > 0
  /\ CheckLimit \in Nat /\ CheckLimit > DBTimeout
  /\ MaxAge \in Nat /\ Period + DBTimeout + CheckLimit <= MaxAge
  /\ 0 \in 0..(MaxAge + 1) /\ 0 \in 0..CheckLimit
  BY TimesAssumption DEF CheckLimit, MaxAge

LEMMA InitFresh == HInit => FreshInvariant
<1> SUFFICES ASSUME HInit PROVE FreshInvariant
  OBVIOUS
<1>1. CountInvariant
  BY InitCount DEF HInit
<1>2. HTypeOK
  BY LimitsOK DEF HInit, HTypeOK
<1> QED
  BY <1>1, <1>2, LimitsOK DEF HInit, Init, FreshInvariant

\* A step of the loop does not disturb CountInvariant, nor do a crash, a restart or
\* the passing of time.
LEMMA HNextCount ==
  ASSUME CountInvariant, [HNext]_hvars
  PROVE  CountInvariant'
<1>1. CASE Next \/ UNCHANGED vars
  BY <1>1, NextCount
<1>2. CASE Crash \/ Fresh
  <2>1. Busy' = {} /\ Cardinality(Busy') = 0
    <3>1. Busy' = {}
      BY <1>2 DEF Crash, Fresh, Busy
    <3> QED
      BY <3>1, FS_EmptySet
  <2>2. TypeOK'
    BY <1>2, ConcurrencyAssumption DEF Crash, Fresh, TypeOK, Places
  <2> QED
    BY <1>2, <2>1, <2>2 DEF CountInvariant, Crash, Fresh
<1>3. CASE HLoop
  <2>1. Next
    BY <1>3 DEF HLoop, HTick, HFetchFails, HQuiet, HElsewhere, HFetched, HStartFirst,
                HReceive, Next, LoopStep, Fetch, Dispatch
  <2> QED
    BY <2>1, <1>1
<1> QED
  BY <1>1, <1>2, <1>3 DEF HNext, Pass, Restart, hvars

\* The steps of the loop.
LEMMA HLoopFresh ==
  ASSUME FreshInvariant, HLoop, CountInvariant'
  PROVE  FreshInvariant'
<1> USE LimitsOK DEF FreshInvariant
<1>0. TypeOK /\ TypeOK'
  BY DEF CountInvariant
<1>1. CASE HTick
  BY <1>1 DEF HTick, Tick, Moved, Silent, file, HTypeOK, Running
<1>2. CASE HFetchFails
  BY <1>2 DEF HFetchFails, FetchFails, Moved, Fault, file, HTypeOK, Running
<1>3. CASE \E due \in SUBSET Monitors : HFetched(due)
  <2>1. PICK due \in SUBSET Monitors : HFetched(due)
    BY <1>3
  <2>2. HTypeOK'
    <3>1. CASE Beat
      BY <2>1, <3>1 DEF HFetched, Moved, Beat, HTypeOK
    <3>2. CASE Silent
      BY <2>1, <3>2 DEF HFetched, Moved, Silent, file, HTypeOK
    <3> QED
      BY <2>1, <3>1, <3>2 DEF HFetched
  <2>3. CASE due = {} /\ context = "alive"
    BY <2>1, <2>2, <2>3 DEF HFetched, Fetched, Moved, Beat, Running
  <2>4. CASE ~(due = {} /\ context = "alive")
    BY <2>1, <2>2, <2>4 DEF HFetched, Fetched, Moved, Silent, file, Running, HTypeOK
  <2> QED
    BY <2>3, <2>4
<1>4. CASE \E m \in Monitors : HStartFirst(m)
  <2>1. PICK m \in Monitors : HStartFirst(m)
    BY <1>4
  <2>2. HTypeOK'
    BY <2>1 DEF HStartFirst, Restarted, Silent, file, HTypeOK
  <2> QED
    BY <2>1, <2>2 DEF HStartFirst, StartFirst, Silent, file
<1>5. CASE \E m \in Monitors : HReceive(m)
  <2>1. PICK m \in Monitors : HReceive(m)
    BY <1>5
  <2>2. HTypeOK'
    <3>1. spent' \in [Monitors -> 0..CheckLimit] /\ idle' \in Nat
      BY <2>1 DEF HReceive, Restarted, HTypeOK
    <3>2. CASE Beat
      BY <3>1, <3>2 DEF Beat, HTypeOK
    <3>3. CASE Fault
      BY <3>1, <3>3 DEF Fault, file, HTypeOK
    <3> QED
      BY <2>1, <3>2, <3>3 DEF HReceive
  <2>3. CASE work[m] = "failed"
    BY <2>1, <2>2, <2>3 DEF HReceive, Receive, Fault, file
  <2>4. CASE work[m] # "failed"
    <3>1. age' = 0 /\ progress' /\ loop' = "selecting"
      BY <2>1, <2>4 DEF HReceive, Receive, Beat
    <3>2. \A n \in Running' : spent'[n] \in Nat
      BY <2>2 DEF HTypeOK, Running
    <3> QED
      BY <2>2, <3>1, <3>2
  <2> QED
    BY <2>3, <2>4
<1>6. CASE HQuiet
  <2>1. HTypeOK'
    BY <1>6 DEF HQuiet, Moved, Silent, file, HTypeOK
  <2>2. CASE FirstStarted
    <3>1. active > 0
      BY <2>2, <1>0, ConcurrencyAssumption DEF FirstStarted, CountInvariant, TypeOK
    <3>2. \A n \in Running : spent[n] \in Nat
      BY DEF HTypeOK, Running
    <3>3. Running' = Running
      BY <2>2 DEF FirstStarted, Running
    <3> QED
      BY <1>6, <2>1, <2>2, <3>1, <3>2, <3>3
      DEF FirstStarted, HQuiet, Moved, Silent, file, HTypeOK
  <2>3. CASE NoticeCancel \/ Leave \/ Join
    BY <1>6, <2>1, <2>3, <1>0
    DEF NoticeCancel, Leave, Join, HQuiet, Moved, Silent, file, HTypeOK, CountInvariant
  <2>4. CASE EndCycle
    BY <1>6, <2>1, <2>4, <1>0
    DEF EndCycle, HQuiet, Moved, Silent, file, HTypeOK, CountInvariant
  <2>5. CASE \E m \in Monitors : DrainOne(m)
    BY <1>6, <2>1, <2>5, <1>0
    DEF DrainOne, HQuiet, Moved, Silent, file, HTypeOK, CountInvariant
  <2> QED
    BY <1>6, <2>2, <2>3, <2>4, <2>5 DEF HQuiet
<1>7. CASE HElsewhere
  <2>1. HTypeOK'
    BY <1>7 DEF HElsewhere, timers, Silent, file, HTypeOK
  <2>2. Running' \subseteq Running
    BY <1>7, <1>0 DEF HElsewhere, Signal, Finish, JobStep, JobStart, JobEnd, JobStop,
                      Running, Outcomes, TypeOK
  <2>3. loop' = loop /\ active' = active /\ (context' = "alive" => context = "alive")
    BY <1>7 DEF HElsewhere, Signal, Finish, JobStep, JobStart, JobEnd, JobStop
  <2> QED
    BY <1>7, <2>1, <2>2, <2>3 DEF HElsewhere, timers, Silent, file
<1> QED
  BY <1>1, <1>2, <1>3, <1>4, <1>5, <1>6, <1>7 DEF HLoop

\* While time passes in a cycle some check is running, and its limit is not reached.
LEMMA PassFresh ==
  ASSUME FreshInvariant, Pass, CountInvariant'
  PROVE  FreshInvariant'
<1> USE LimitsOK DEF FreshInvariant
<1>0. TypeOK /\ age \in Nat /\ idle \in Nat
  BY DEF CountInvariant, HTypeOK
<1>1. UNCHANGED vars /\ Running' = Running /\ UNCHANGED <<written, faulty, progress>>
  BY DEF Pass, vars, Running
<1>2. age' \in 0..(MaxAge + 1) /\ age' <= age + 1
  BY <1>0 DEF Pass, HTypeOK
<1>3. spent' \in [Monitors -> 0..CheckLimit]
  BY DEF Pass, HTypeOK
<1>4. idle' \in Nat
  BY <1>0 DEF Pass
<1>5. HTypeOK'
  BY <1>1, <1>2, <1>3, <1>4 DEF HTypeOK
<1>6. loop \in {"waiting", "fetching"} => idle' = idle + 1
  BY DEF Pass
<1>7. loop = "waiting" => idle' <= Period
  BY <1>0, <1>6 DEF Pass
<1>8. loop = "fetching" => idle' <= DBTimeout
  BY <1>0, <1>6 DEF Pass
<1>9. ASSUME context = "alive", ~faulty
      PROVE  /\ loop = "waiting" => age' <= idle'
             /\ loop = "fetching" => age' <= Period + idle'
             /\ loop # "dispatching"
             /\ loop = "selecting" =>
                  /\ active # 0
                  /\ age' <= Period + DBTimeout + CheckLimit
                  /\ \A m \in Running : age' <= Period + DBTimeout + spent'[m]
  <2>1. /\ loop = "waiting" => age' <= idle'
        /\ loop = "fetching" => age' <= Period + idle'
    BY <1>0, <1>2, <1>6, <1>9
  <2>2. loop # "dispatching"
    BY DEF Pass, Urgent
  <2>3. ASSUME loop = "selecting"
        PROVE  /\ active # 0
               /\ age' <= Period + DBTimeout + CheckLimit
               /\ \A m \in Running : age' <= Period + DBTimeout + spent'[m]
    <3>1. active # 0 /\ Sent = {}
      BY <2>3 DEF Pass, Urgent
    <3>2. PICK m \in Busy : TRUE
      BY <3>1, <1>0, BusyFinite DEF CountInvariant
    <3>3. m \in Running
      BY <3>1, <1>0 DEF Busy, Sent, Running, TypeOK
    <3>4. \A n \in Running : /\ spent[n] \in Nat
                             /\ spent[n] < CheckLimit
                             /\ spent'[n] = spent[n] + 1
                             /\ age <= Period + DBTimeout + spent[n]
      BY <2>3, <1>9 DEF Pass, HTypeOK, Running
    <3>5. \A n \in Running : age' <= Period + DBTimeout + spent'[n]
      BY <3>4, <1>0, <1>2
    <3>6. spent[m] \in Nat /\ spent[m] < CheckLimit /\ age <= Period + DBTimeout + spent[m]
      BY <3>3, <3>4
    <3>7. age' <= Period + DBTimeout + CheckLimit
      BY <3>6, <1>0, <1>2
    <3> QED
      BY <3>1, <3>5, <3>7
  <2> QED
    BY <2>1, <2>2, <2>3
<1> QED
  BY <1>1, <1>5, <1>7, <1>8, <1>9 DEF vars

LEMMA NextFresh == FreshInvariant /\ [HNext]_hvars => FreshInvariant'
<1> SUFFICES ASSUME FreshInvariant, [HNext]_hvars PROVE FreshInvariant'
  OBVIOUS
<1>1. CountInvariant'
  BY HNextCount DEF FreshInvariant
<1>2. CASE HLoop
  BY <1>1, <1>2, HLoopFresh
<1>3. CASE Pass
  BY <1>1, <1>3, PassFresh
<1>4. CASE Crash
  <2>1. HTypeOK'
    BY <1>4 DEF Crash, Moved, Silent, file, FreshInvariant, HTypeOK
  <2> QED
    BY <1>1, <1>4, <2>1 DEF Crash, Moved, Silent, file, FreshInvariant
<1>5. CASE Restart
  <2>1. HTypeOK'
    BY <1>5, LimitsOK DEF Restart, Fresh, Moved, FreshInvariant, HTypeOK
  <2> QED
    BY <1>1, <1>5, <2>1, LimitsOK DEF Restart, Fresh, Moved, FreshInvariant
<1>6. CASE UNCHANGED hvars
  BY <1>1, <1>6 DEF hvars, vars, file, timers, FreshInvariant, HTypeOK, Running
<1> QED
  BY <1>2, <1>3, <1>4, <1>5, <1>6 DEF HNext

LEMMA FreshGood ==
  ASSUME FreshInvariant
  PROVE  NeverFalselyStale /\ HealthyMeansProgress
<1> USE LimitsOK DEF FreshInvariant
<1>1. HealthyMeansProgress
  BY DEF HealthyMeansProgress, Healthy
<1>2. NeverFalselyStale
  BY TimesAssumption DEF NeverFalselyStale, CountInvariant, TypeOK, Places, HTypeOK
<1> QED
  BY <1>1, <1>2

LEMMA FreshAlways == HSpec => []FreshInvariant
  BY InitFresh, NextFresh, PTL DEF HSpec

\* For every number of monitors, concurrency and choice of timeouts: without a
\* database failure the heartbeat of a worker that is not shutting down never gets
\* as old as the configuration tolerates (config.go minimumHeartbeatAge).
THEOREM HeartbeatCorrect == HSpec => []NeverFalselyStale
<1>1. FreshInvariant => NeverFalselyStale
  BY FreshGood
<1> QED
  BY FreshAlways, <1>1, PTL

\* A heartbeat that the health command accepts was written by the running process:
\* neither a crash nor a restart leaves a file that vouches for it (heartbeat.Remove).
THEOREM HealthCorrect == HSpec => []HealthyMeansProgress
<1>1. FreshInvariant => HealthyMeansProgress
  BY FreshGood
<1> QED
  BY FreshAlways, <1>1, PTL
=============================================================================
