---------------------------- MODULE MonitorHistory ----------------------------
(***************************************************************************)
(* The history page of a monitor: its queries for the metadata, the rows   *)
(* of one limit and the alerts, the growth of the limit, the rows kept     *)
(* from earlier successes, and the pauses after failures.  A limit counts  *)
(* steps of 50 rows; the data of a query is told apart by what the page    *)
(* tells apart: a batch as long as its limit or shorter, a list with the   *)
(* monitor or without it.                                                  *)
(***************************************************************************)
EXTENDS Naturals

CONSTANTS
    Monitors,       \* monitors whose pages are visited
    Kinds,          \* queries of the page: "rows" and some of the others
    Failures,       \* the ways in which requests fail
    MaxLimit,       \* MAX_MONITOR_HISTORY_LIMIT in steps
    None            \* no monitor

ASSUME HistoryAssumption ==
    /\ MaxLimit \in Nat \ {0}
    /\ "rows" \in Kinds /\ Kinds \subseteq {"rows", "alerts", "metadata"}
    /\ Failures \subseteq {"other", "limited", "terminal"}
    /\ None \notin Monitors

VARIABLES
    shown,          \* the monitor of the page displayed, None on another page
    focus,          \* the tab is visible
    limitState,     \* historyLimitState
    query,          \* the query client's state of every key
    prev,           \* previousSuccessfulHistory
    expansion,      \* expansionInFlight
    last            \* the observer's last query with defined data

vars == <<shown, focus, limitState, query, prev, expansion, last>>

Limits == 1..MaxLimit
Key(kind, m, l) == [kind |-> kind, mon |-> m, limit |-> IF kind = "rows" THEN l ELSE 0]
Keys == {Key(kind, m, l) : kind \in Kinds, m \in Monitors, l \in Limits}

Errors == {"none"} \cup Failures
Query == [data : {"none", "short", "full"}, err : Errors, fetching : BOOLEAN,
          cooling : BOOLEAN]
NoQuery == [data |-> "none", err |-> "none", fetching |-> FALSE, cooling |-> FALSE]
NoRows == [mon |-> None, limit |-> 1, rows |-> "none"]
NoExpansion == [mon |-> None, limit |-> 1]

Init ==
    /\ shown = None /\ focus = TRUE
    /\ limitState = NoExpansion
    /\ query = [k \in Keys |-> NoQuery]
    /\ prev = NoRows /\ expansion = NoExpansion /\ last = NoRows

historyLimit == IF limitState.mon = shown THEN limitState.limit ELSE 1
RowsKey == Key("rows", shown, historyLimit)
Current == IF shown = None THEN {} ELSE {Key(kind, shown, historyLimit) : kind \in Kinds}

\* MUTANT: a pause asked for by the API is not observed.
PermitsImpatient(q) == q.err # "terminal"

permitsAutomaticRefetch(q) == q.err # "terminal" /\ ~q.cooling

\* A fetch keeps the error only beside data.
Started(q) ==
    IF q.data = "none" THEN [NoQuery EXCEPT !.fetching = TRUE]
                       ELSE [q EXCEPT !.fetching = TRUE]

\* Mounting fetches what was never asked for, and stale data if permitted.
FetchOnMount(q, stale) ==
    IF q.data = "none" THEN q.err = "none"
                       ELSE stale /\ permitsAutomaticRefetch(q)

\* A mounted observer that moves to a key fetches it unless it has fresh data.
FetchOnSwitch(q, stale) == q.data = "none" \/ stale

\* The rows kept for the monitor of key k.
Kept(k) == IF prev.mon = k.mon THEN prev ELSE [NoRows EXCEPT !.mon = k.mon]

\* MUTANT: the latch is released by a success only.
RenderLatched(wanted) ==
    LET k == RowsKey'
        q == query'[k]
    IN  IF shown' = None
        THEN prev' = NoRows /\ expansion' = NoExpansion /\ last' = NoRows
        ELSE /\ prev' = IF q.data # "none" /\ q.err = "none"
                        THEN [mon |-> k.mon, limit |-> k.limit, rows |-> q.data]
                        ELSE Kept(k)
             /\ last' = IF q.data # "none"
                        THEN [mon |-> k.mon, limit |-> k.limit, rows |-> q.data]
                        ELSE last
             /\ expansion' = IF wanted.mon = shown' /\ (q.fetching \/ q.err # "none")
                             THEN wanted ELSE NoExpansion

\* Every change renders the page, which keeps the rows of a success, and runs
\* the effect that releases the latch of an expansion.
Render(wanted) ==
    LET k == RowsKey'
        q == query'[k]
    IN  IF shown' = None
        THEN prev' = NoRows /\ expansion' = NoExpansion /\ last' = NoRows
        ELSE /\ prev' = IF q.data # "none" /\ q.err = "none"
                        THEN [mon |-> k.mon, limit |-> k.limit, rows |-> q.data]
                        ELSE Kept(k)
             /\ last' = IF q.data # "none"
                        THEN [mon |-> k.mon, limit |-> k.limit, rows |-> q.data]
                        ELSE last
             /\ expansion' = IF wanted.mon = shown' /\ q.fetching
                             THEN wanted ELSE NoExpansion

-----------------------------------------------------------------------------
(* What the page derives from its state. *)

\* visibleHistory: data, else placeholder while pending, else the rows kept.
visibleHistory ==
    LET q == query[RowsKey] IN
    IF q.data # "none" THEN [mon |-> shown, rows |-> q.data]
    ELSE IF q.err = "none" /\ last.mon = shown THEN [mon |-> last.mon, rows |-> last.rows]
    ELSE [mon |-> prev.mon, rows |-> prev.rows]

Terminal == \E k \in Current : query[k].err = "terminal"

NotFound ==
    \/ Terminal
    \/ \E k \in Current :
          k.kind = "metadata" /\ query[k].data = "short" /\ query[k].err = "none"

LoadingMonitor ==
    \E k \in Current :
        k.kind = "metadata" /\ query[k].data = "none" /\ query[k].fetching

PageShown == shown # None /\ ~NotFound /\ ~LoadingMonitor

canLoadMore ==
    LET q == query[RowsKey] IN
    /\ prev.mon = shown /\ prev.limit = historyLimit /\ prev.rows = "full"
    /\ historyLimit < MaxLimit
    /\ q.err = "none"

-----------------------------------------------------------------------------
(* The user. *)

\* Keys of the page after the step are fetched by the rule of a new page or by
\* that of one that stays.
FetchNew(mounts) ==
    \E stale \in SUBSET Current' :
        LET wants(k) == IF mounts THEN FetchOnMount(query[k], k \in stale)
                                  ELSE FetchOnSwitch(query[k], k \in stale)
        IN  query' = [k \in Keys |->
                IF k \in Current' /\ ~query[k].fetching /\ wants(k)
                THEN Started(query[k]) ELSE query[k]]

Open(m) ==
    /\ shown = None
    /\ shown' = m
    /\ limitState' = [mon |-> m, limit |-> 1]
    /\ FetchNew(TRUE)
    /\ Render(NoExpansion)
    /\ UNCHANGED focus

\* The route changes under the mounted page; the limit belongs to a monitor.
SwitchTo(m) ==
    /\ shown \notin {None, m}
    /\ shown' = m
    /\ UNCHANGED <<limitState, focus>>
    /\ FetchNew(FALSE)
    /\ Render(expansion)

loadMoreHistory ==
    /\ PageShown /\ canLoadMore
    /\ ~query[RowsKey].fetching
    /\ expansion.mon # shown
    /\ limitState' = [mon |-> shown, limit |-> historyLimit + 1]
    /\ UNCHANGED <<shown, focus>>
    /\ \E stale \in BOOLEAN : LET k == RowsKey' IN
          query' = [query EXCEPT ![k] = IF ~@.fetching /\ FetchOnSwitch(@, stale)
                                        THEN Started(@) ELSE @]
    /\ Render(limitState')

\* The Retry button of a failed section, not offered after a 429.
refetch(k) ==
    /\ PageShown
    /\ k \in Current /\ k.kind # "metadata"
    /\ query[k].err = "other" /\ ~query[k].fetching
    /\ query' = [query EXCEPT ![k] = Started(@)]
    /\ UNCHANGED <<shown, focus, limitState>>
    /\ Render(expansion)

Leave ==
    /\ shown # None
    /\ shown' = None
    /\ UNCHANGED <<focus, limitState, query>>
    /\ Render(NoExpansion)

Focus ==
    /\ focus' = ~focus
    /\ UNCHANGED <<shown, limitState, query, prev, expansion, last>>

-----------------------------------------------------------------------------
(* The query client and the API. *)

\* MUTANT: a failure that asks for a pause ends the polling.
PollNoMore(k) ==
    /\ k \in Current /\ focus
    /\ ~query[k].fetching /\ query[k].err \notin {"terminal", "limited"}
    /\ query' = [query EXCEPT ![k] = Started(@)]
    /\ UNCHANGED <<shown, focus, limitState>>
    /\ Render(expansion)

\* The interval of pollingPolicy, a returning tab or network.
Poll(k) ==
    /\ k \in Current /\ focus
    /\ ~query[k].fetching /\ permitsAutomaticRefetch(query[k])
    /\ query' = [query EXCEPT ![k] = Started(@)]
    /\ UNCHANGED <<shown, focus, limitState>>
    /\ Render(expansion)

\* The API knows the monitor's alerts and rows, or not: never alerts only.
Answers(k) ==
    CASE k.kind = "alerts" -> {"full"}
      [] OTHER -> {"short", "full"}

Succeed(k) ==
    /\ query[k].fetching
    /\ \E d \in Answers(k) : query' = [query EXCEPT ![k] = [NoQuery EXCEPT !.data = d]]
    /\ UNCHANGED <<shown, focus, limitState>>
    /\ Render(expansion)

Fail(k) ==
    /\ query[k].fetching
    /\ \E e \in Failures :
          query' = [query EXCEPT ![k].err = e, ![k].fetching = FALSE,
                                 ![k].cooling = (e = "limited")]
    /\ UNCHANGED <<shown, focus, limitState>>
    /\ Render(expansion)

\* The time of a Retry-After header is over.
CooledDown(k) ==
    /\ query[k].cooling
    /\ query' = [query EXCEPT ![k].cooling = FALSE]
    /\ UNCHANGED <<shown, focus, limitState>>
    /\ Render(expansion)

\* A query that no page observes is dropped after a while, or by a reload.
Forget(k) ==
    /\ k \notin Current
    /\ query[k] # NoQuery
    /\ query' = [query EXCEPT ![k] = NoQuery]
    /\ UNCHANGED <<shown, focus, limitState, prev, expansion, last>>

Next ==
    \/ \E m \in Monitors : Open(m) \/ SwitchTo(m)
    \/ loadMoreHistory \/ Leave \/ Focus
    \/ \E k \in Keys : \/ refetch(k) \/ Poll(k) \/ Succeed(k) \/ Fail(k)
                       \/ CooledDown(k) \/ Forget(k)

\* The client's timers fire, and a request ends with an answer or an error.
Fairness ==
    \A k \in Keys : /\ WF_vars(Poll(k)) /\ WF_vars(CooledDown(k))
                    /\ WF_vars(Succeed(k) \/ Fail(k))

Spec == Init /\ [][Next]_vars /\ Fairness

-----------------------------------------------------------------------------
TypeOK ==
    /\ shown \in Monitors \cup {None} /\ focus \in BOOLEAN
    /\ limitState \in [mon : Monitors \cup {None}, limit : Limits]
    /\ query \in [Keys -> Query]
    /\ \A k \in Keys : query[k].cooling => query[k].err = "limited"
    /\ {prev, last} \subseteq
          [mon : Monitors \cup {None}, limit : Limits, rows : {"none", "short", "full"}]
    /\ expansion \in [mon : Monitors \cup {None}, limit : Limits]

(* The rows displayed are rows of the monitor displayed: neither the        *)
(* placeholder nor the rows kept come from the page of another monitor.     *)
RowsOfThisMonitor ==
    shown # None /\ visibleHistory.rows # "none" => visibleHistory.mon = shown

(* The latch of an expansion stands for a fetch in flight of the limit that *)
(* is displayed, so a failed, left or satisfied expansion blocks no later   *)
(* one.                                                                     *)
NoStuckExpansion ==
    expansion # NoExpansion =>
        /\ expansion = [mon |-> shown, limit |-> historyLimit]
        /\ query[RowsKey].fetching

(* useMonitorHistory, visibleHistory: no expansion waits for nothing, and   *)
(* the page shows no rows of another monitor.                               *)
SectionsSound == RowsOfThisMonitor /\ NoStuckExpansion

(* The hook keeps rows loaded during a visit of a monitor's page until the  *)
(* page is left, through growing limits, failures, pauses and retries.      *)
RowsKept ==
    shown # None /\ shown' = shown /\ prev.rows # "none" => visibleHistory'.rows # "none"

(* They leave the screen before only when the monitor turns out not to be   *)
(* found, or while its metadata, of which nothing was ever loaded, is asked *)
(* for again after a failure ("Loading monitor...").  Instances with fewer  *)
(* queries than Kinds have nothing to say of it.                            *)
RowsDisplayed ==
    (/\ Current \subseteq DOMAIN query
     /\ PageShown /\ shown' = shown /\ prev.rows # "none") =>
        \/ PageShown' /\ visibleHistory'.rows # "none"
        \/ NotFound'
        \/ \E k \in Current :
              /\ k.kind = "metadata"
              /\ query[k].data = "none" /\ query[k].err # "none"
              /\ query'[k].fetching

(* A key that stays on the page, or comes back to it with the page, is not  *)
(* fetched during a pause that the API asked for, nor after a terminal      *)
(* failure.                                                                 *)
PauseKept ==
    \A k \in DOMAIN query : /\ ~query[k].fetching /\ query'[k].fetching
                            /\ k \in Current \/ shown = None
                            => query[k].err # "terminal" /\ ~query[k].cooling

(* refetchInterval, refetchOnMount, previousSuccessfulHistory: what a visit *)
(* of the page loaded is kept, and displayed but for the two notices of     *)
(* MonitorHistoryPage, and it asks no earlier than it was told to.          *)
VisitKept == [][RowsKept /\ RowsDisplayed /\ PauseKept]_vars

(* A section displayed in a visible tab is fetched again and again, unless  *)
(* it failed terminally: a pause ends, and the polling resumes.             *)
KeepsPolling ==
    \A k \in Keys :
        (k \in Current /\ focus) ~>
            (query[k].fetching \/ query[k].err = "terminal" \/ k \notin Current \/ ~focus)
=============================================================================
