------------------------------ MODULE StatusPage ------------------------------
(***************************************************************************)
(* The public status page: the classification of the published monitors,   *)
(* the clock the page renders with, its query, and what lies between it    *)
(* and the checks: the row the worker writes, and the answer the API has   *)
(* cached.  Time is discrete and the same for all.                         *)
(***************************************************************************)
EXTENDS Naturals

CONSTANTS
    Monitors,       \* active monitors of accounts that are not the demo
    Refresh,        \* REFRESH_INTERVAL_MS
    StaleAfter,     \* STATUS_STALE_AFTER_MINUTES
    Ttl,            \* STATUS_CACHE_TTL_SECONDS
    Ratios,         \* of healthy checks: none recorded, low or high, against
                    \* the degradation threshold
    MaxTime         \* bound: time

StatusAssumption ==
    /\ {Refresh, StaleAfter, Ttl} \subseteq Nat \ {0}
    /\ MaxTime \in Nat \ {0}
    /\ "none" \in Ratios /\ Ratios \subseteq {"none", "low", "high"}

VARIABLES
    time,
    row,            \* last_state and last_checked_at of every monitor
    public,         \* the monitors that are published
    cached,         \* the API's cached answer and its expiry
    now,            \* state of StatusPage
    loaded, data,   \* the query: whether it has data, and its data
    asked,          \* a request is in flight; its answer, once served
    lastSeen        \* history: time of the last check that found or left it in a state

page == <<now, loaded, data, asked>>
vars == <<time, row, public, cached, now, loaded, data, asked,
          lastSeen>>

Results == {"healthy", "unhealthy"}
Never == 0                              \* time starts at 1
Labels == {"Operational", "No data", "Degraded", "Down"}

\* The published rows with the ratio of healthy checks of each: none if no
\* check is recorded in the window.
Answers(monitors) ==
    {[m \in monitors |-> [state |-> row[m].state, checked |-> row[m].checked,
                          ratio |-> ratio[m]]] :
        ratio \in {f \in [monitors -> Ratios] :
                     \A m \in monitors : row[m].checked = Never => f[m] = "none"}}

Init ==
    /\ time = 1
    /\ row = [m \in Monitors |-> [state |-> "null", checked |-> Never]]
    /\ public \in SUBSET Monitors
    /\ cached = [rows |-> << >>, until |-> Never]
    /\ now = 1
    /\ loaded = FALSE /\ data = << >>
    /\ asked = {<<"sent">>}
    /\ lastSeen = [m \in Monitors |-> [r \in Results |-> Never]]

-----------------------------------------------------------------------------
(* status.ts *)

\* MUTANT: a check that is older than the limit is still used.
classifyStatusForever(r, at) ==
    IF r.state \notin Results \/ r.checked = Never \/ r.checked > at THEN "No data"
    ELSE IF r.state = "unhealthy" THEN "Down"
    ELSE CASE r.ratio = "none" -> "No data"
           [] r.ratio = "low"  -> "Degraded"
           [] r.ratio = "high" -> "Operational"

classifyStatus(r, at) ==
    IF \/ r.state \notin Results
       \/ r.checked = Never \/ r.checked > at \/ at - r.checked > StaleAfter
    THEN "No data"
    ELSE IF r.state = "unhealthy" THEN "Down"
    ELSE CASE r.ratio = "none" -> "No data"
           [] r.ratio = "low"  -> "Degraded"
           [] r.ratio = "high" -> "Operational"

severity == [Operational |-> 0, NoData |-> 1, Degraded |-> 2, Down |-> 3]
Severity(label) == IF label = "No data" THEN severity.NoData ELSE severity[label]

summarizeStatus(rows, at) ==
    LET labels == {classifyStatus(rows[m], at) : m \in DOMAIN rows}
    IN  IF labels = {} THEN "No data"
        ELSE IF labels = {"Operational"} THEN "All systems operational"
        ELSE CHOOSE l \in labels : \A k \in labels : Severity(k) <= Severity(l)

-----------------------------------------------------------------------------
(* StatusPage.tsx *)

\* The interval that renders the page with the time of that moment.
Tick ==
    /\ time = now + Refresh
    /\ now' = time
    /\ UNCHANGED <<time, row, public, cached, loaded, data, asked,
                   lastSeen>>

\* The query's interval in a visible tab, Try again, or a returning tab.
Fetch ==
    /\ asked = {}
    /\ asked' = {<<"sent">>}
    /\ UNCHANGED <<time, row, public, cached, now, loaded, data,
                   lastSeen>>

Succeed ==
    \E rows \in {a[2] : a \in {b \in asked : b[1] = "served"}} :
        /\ loaded' = TRUE /\ data' = rows
        /\ asked' = {}
        /\ UNCHANGED <<time, row, public, cached, now, lastSeen>>

\* A failed refresh keeps the data beside the error.
Fail ==
    /\ asked # {}
    /\ asked' = {}
    /\ UNCHANGED <<time, row, public, cached, now, loaded, data,
                   lastSeen>>

-----------------------------------------------------------------------------
(* The API, the worker, the owner, and time. *)

Serve ==
    /\ asked = {<<"sent">>}
    /\ IF time < cached.until
       THEN asked' = {<<"served", cached.rows>>} /\ UNCHANGED cached
       ELSE \E rows \in Answers(public) :
               /\ asked' = {<<"served", rows>>}
               /\ cached' = [rows |-> rows, until |-> time + Ttl]
    /\ UNCHANGED <<time, row, public, now, loaded, data, lastSeen>>

\* A check stores its result as the state, or the old state again if it is a failure
\* below the threshold.
Check(m) ==
    /\ \E s \in Results \cup {row[m].state} :
          /\ row' = [row EXCEPT ![m] = [state |-> s, checked |-> time]]
          /\ lastSeen' = [lastSeen EXCEPT
                             ![m] = [r \in Results |-> IF r = s THEN time ELSE @[r]]]
    /\ UNCHANGED <<time, public, cached, page>>

\* A start of the API publishes what its manifest lists and hides the rest.
Publish ==
    /\ \E manifest \in SUBSET Monitors : public' = manifest
    /\ UNCHANGED <<time, row, cached, page, lastSeen>>

\* The timers of a page fire before more time passes.
Advance ==
    /\ time < MaxTime /\ time < now + Refresh
    /\ time' = time + 1
    /\ UNCHANGED <<row, public, cached, page, lastSeen>>

Next ==
    \/ Tick \/ Fetch \/ Succeed \/ Fail
    \/ Serve \/ (\E m \in Monitors : Check(m)) \/ Publish \/ Advance

Spec == Init /\ [][Next]_vars

-----------------------------------------------------------------------------
Label(m) == classifyStatus(data[m], now)
Recent(m, r) == lastSeen[m][r] # Never /\ time - lastSeen[m][r] <= StaleAfter + Refresh

TypeOK ==
    /\ time \in 1..MaxTime /\ now \in 1..time /\ time - now <= Refresh
    /\ cached.until <= time + Ttl
    /\ DOMAIN data \subseteq Monitors /\ (~loaded => data = << >>)
    /\ \A m \in DOMAIN data : data[m].checked <= row[m].checked
    /\ public \subseteq Monitors /\ loaded \in BOOLEAN

(* A label rests on a check that left the monitor in that state and is not  *)
(* older than the limit and one refresh of the page's clock, also in a tab  *)
(* whose requests fail or that was hidden.  Failures below the threshold    *)
(* leave a state as it was.                                                 *)
LabelEarned ==
    \A m \in DOMAIN data :
        /\ Label(m) \in {"Operational", "Degraded"} => Recent(m, "healthy")
        /\ Label(m) = "Down" => Recent(m, "unhealthy")

(* The page says that all systems are operational only if there are some    *)
(* and each was left healthy by a recent check.                             *)
AllClearEarned ==
    summarizeStatus(data, now) = "All systems operational" =>
        DOMAIN data # {} /\ \A m \in DOMAIN data : Recent(m, "healthy")
=============================================================================
