--------------------------- MODULE MCPublicStatus ---------------------------
(***************************************************************************)
(* What decides how true a status is when it is read: the API's cache, the *)
(* aggregates of its query beside the retention, the labels of the status  *)
(* page, and the freshness hint of the dashboard.  Each has a clock of its *)
(* own; running names the one that moves, so that the states of the run    *)
(* are those of each.                                                      *)
(***************************************************************************)
EXTENDS PublicStatusCache, Integers, TLC

CONSTANTS
    Windows, RetentionDays, TicksPerDay, Skew, MaxDelay,
    Monitors, Refresh, StaleAfter, PageTtl, Ratios,
    Freqs, Floor, MaxClock, Poll,
    \* bounds of the clocks, and of the time over which several services are seen
    MaxUptime, MaxPage, MaxShort, MaxHint, MaxEdits

VARIABLES
    running,
    \* UptimeWindow
    window, now, recorded, present, cutoff, windowEnd, answer,
    \* StatusPage
    time, row, public, response, pageNow, loaded, data, asked, lastSeen,
    \* Freshness
    clockTime, monitor, edits, hint, clock, timer, fetched, changed, gap

uptimeVars == <<window, now, recorded, present, cutoff, windowEnd, answer>>
pageVars == <<time, row, public, response, pageNow, loaded, data, asked, lastSeen>>
hintVars == <<clockTime, monitor, edits, hint, clock, timer, fetched, changed, gap>>
allVars == <<running, vars, uptimeVars, pageVars, hintVars>>

Uptime == INSTANCE UptimeWindow WITH MaxTime <- MaxUptime

Page == INSTANCE StatusPage WITH
    now <- pageNow, cached <- response, Ttl <- PageTtl, MaxTime <- MaxPage

Hint == INSTANCE Freshness WITH
    time <- clockTime, row <- monitor, data <- hint, MaxTime <- MaxHint

ASSUME SuiteAssumption ==
    /\ Uptime!TicksAssumption /\ Uptime!ConfigAssumption
    /\ Page!StatusAssumption /\ Hint!FreshnessAssumption

\* The page shows the one service that running names over a long time, or several,
\* none of them degraded, over a short one.
OneService ==
    public' \subseteq {running} /\ \A m \in Monitors \ {running} : row'[m] = row[m]
SeveralServices ==
    time' <= MaxShort /\ \A m \in DOMAIN response'.rows : response'.rows[m].ratio # "low"

AllInit ==
    /\ running \in {"cache", "uptime", "services", "hint"} \cup Monitors
    /\ Init /\ Uptime!Init /\ Page!Init /\ Hint!Init
    /\ public = IF running \in Monitors THEN {running} ELSE Monitors
    /\ running = "hint" \/ (hint = monitor /\ hint.checked = 1 /\ hint.frequency = 1)

AllNext ==
    /\ \/ running = "cache" /\ Next /\ UNCHANGED <<uptimeVars, pageVars, hintVars>>
       \/ running = "uptime" /\ Uptime!Next /\ UNCHANGED <<vars, pageVars, hintVars>>
       \/ running \in Monitors /\ Page!Next /\ OneService
             /\ UNCHANGED <<vars, uptimeVars, hintVars>>
       \/ running = "services" /\ Page!Next /\ SeveralServices
             /\ UNCHANGED <<vars, uptimeVars, hintVars>>
       \/ running = "hint" /\ Hint!Next /\ UNCHANGED <<vars, uptimeVars, pageVars>>
    /\ UNCHANGED running

AllSpec == AllInit /\ [][AllNext]_allVars

Symmetry == Permutations(Monitors)

-----------------------------------------------------------------------------
(* queryPublicStatus, cleanRetentionTable: a query misses only results at the *)
(* far end of its window, and none if the retention exceeds the window by the *)
(* skew and the query's delay.                                                *)
UptimePreserved == Uptime!UptimePreserved

(* classifyStatus, summarizeStatus: a label rests on a recent check that left *)
(* the monitor in that state, and all systems are operational only if there   *)
(* are some and each was left healthy by a recent check.                      *)
StatusEarned == Page!TypeOK /\ Page!LabelEarned /\ Page!AllClearEarned

(* useMonitorFreshness: the hint is at most one longest delay late, and while *)
(* the page fetches it is no false alarm.                                     *)
HintTimely == Hint!TypeOK /\ Hint!LateAtMost /\ Hint!NoFalseAlarm
=============================================================================
