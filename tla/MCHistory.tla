------------------------------ MODULE MCHistory ------------------------------
(***************************************************************************)
(* Instances for TLC of the history page: its queries, the chart and the   *)
(* summary.  They share no state; running names the one that moves, so     *)
(* that the states of the run are those of each.                           *)
(***************************************************************************)
EXTENDS MonitorHistory, TLC

CONSTANTS
    PageMonitors, RouteMonitors,
    ChartRows, MaxTime, Frequency,      \* HistoryChart
    SummaryRows, Latencies              \* HistorySummary

VARIABLES
    running,
    \* HistoryChart
    rows, todo, previous, segments, segment, gaps,
    \* HistorySummary
    loadedCount, measured, latencies

chartVars == <<rows, todo, previous, segments, segment, gaps>>
summaryVars == <<loadedCount, measured, latencies>>
allVars == <<running, vars, chartVars, summaryVars>>

\* All sections at one limit, growing limits, and a route from monitor to monitor.
Sections == INSTANCE MonitorHistory WITH Monitors <- PageMonitors, MaxLimit <- 1
LongPage == INSTANCE MonitorHistory WITH Monitors <- PageMonitors, Kinds <- {"rows"}
Route == INSTANCE MonitorHistory WITH
    Monitors <- RouteMonitors, Kinds <- {"rows"}, Failures <- {"other"}, MaxLimit <- 2

Chart == INSTANCE HistoryChart WITH MaxRows <- ChartRows
Summary == INSTANCE HistorySummary WITH MaxRows <- SummaryRows

ASSUME /\ PageMonitors \cup RouteMonitors \subseteq Monitors
       /\ Sections!HistoryAssumption /\ LongPage!HistoryAssumption /\ Route!HistoryAssumption
ASSUME FiguresAssumption == Chart!ChartAssumption /\ Summary!SummaryAssumption

AllInit ==
    /\ \/ running = "sections" /\ Sections!Init
       \/ running = "limits" /\ LongPage!Init
       \/ running \in {"route", "chart", "summary"} /\ Route!Init
    /\ Chart!Init /\ Summary!Init

AllNext ==
    /\ \/ running = "sections" /\ Sections!Next /\ UNCHANGED <<chartVars, summaryVars>>
       \/ running = "limits" /\ LongPage!Next /\ UNCHANGED <<chartVars, summaryVars>>
       \/ running = "route" /\ Route!Next /\ UNCHANGED <<chartVars, summaryVars>>
       \/ running = "chart" /\ Chart!Next /\ UNCHANGED <<vars, summaryVars>>
       \/ running = "summary" /\ Summary!Next /\ UNCHANGED <<vars, chartVars>>
    /\ UNCHANGED running

AllSpec == AllInit /\ [][AllNext]_allVars

Symmetry == Permutations(RouteMonitors)

-----------------------------------------------------------------------------
(* buildLatencyChartGeometry: no line is drawn over an outage or a silence,   *)
(* every measured row is drawn, and once, and a gap stands for each silence.  *)
ChartFaithful == Chart!LinesAreHonest /\ Chart!DrawnOnce /\ Chart!GapsAreSilences

(* summarizeMonitorHistory: the percentile is the nearest rank, and half of   *)
(* the rows lie on either side of the median.                                 *)
SummaryExact == Summary!P95IsNearestRank /\ Summary!MedianInTheMiddle
=============================================================================
