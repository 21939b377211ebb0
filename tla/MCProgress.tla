----------------------------- MODULE MCProgress -----------------------------
(***************************************************************************)
(* Instances for TLC of what has to go on: the worker's polling loop with  *)
(* its checks, the queue for its database connections, and the queries of  *)
(* a history page.  They share no state; running names the one that moves, *)
(* so that the states of the run are those of each.  Nothing that has to   *)
(* happen is enabled in an initial state, so the fairness of one component *)
(* asks nothing of the steps of another.                                   *)
(***************************************************************************)
EXTENDS PollCycle, Sequences

CONSTANTS PoolMonitors, DemoMonitors, MaxConns, None

VARIABLES
    running,
    \* ConnectionPool
    stage, queue,
    \* MonitorHistory
    shown, focus, limitState, query, prev, expansion, last

poolVars == <<stage, queue>>
pageVars == <<shown, focus, limitState, query, prev, expansion, last>>
allVars == <<running, vars, poolVars, pageVars>>

Pool == INSTANCE ConnectionPool WITH Monitors <- PoolMonitors
Page == INSTANCE MonitorHistory WITH
    Monitors <- {"m"}, Kinds <- {"rows"},
    Failures <- {"other", "limited", "terminal"}, MaxLimit <- 1

ASSUME Pool!PoolAssumption /\ Page!HistoryAssumption

AllInit == running \in {"loop", "pool", "page"} /\ Init /\ Pool!Init /\ Page!Init

AllNext ==
    /\ \/ running = "loop" /\ Next /\ UNCHANGED <<poolVars, pageVars>>
       \/ running = "pool" /\ Pool!Next /\ UNCHANGED <<vars, pageVars>>
       \/ running = "page" /\ Page!Next /\ UNCHANGED <<vars, poolVars>>
    /\ UNCHANGED running

AllSpec == AllInit /\ [][AllNext]_allVars /\ Fairness /\ Pool!Fairness /\ Page!Fairness

-----------------------------------------------------------------------------
(* processMonitors: every fetched monitor is checked or the worker is told to *)
(* stop, and every cycle ends, so polling goes on.                            *)
CycleCompletes == FetchedIsChecked /\ CycleEnds

(* Connect, checkAndPersist: whoever waits for a connection gets one. *)
EveryoneConnects == Pool!EveryoneConnects

(* useMonitorHistory: a displayed section is fetched again and again, unless *)
(* it failed terminally.                                                     *)
KeepsPolling == Page!KeepsPolling
=============================================================================
