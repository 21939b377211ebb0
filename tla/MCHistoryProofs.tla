--------------------------- MODULE MCHistoryProofs ---------------------------
(***************************************************************************)
(* The history page, proved for any monitors, any sections beside the rows *)
(* and any number of limits; its chart and its summary, for any rows.      *)
(***************************************************************************)
EXTENDS MCHistory, Integers, FiniteSetTheorems, TLAPS

Places == [mon : Monitors \cup {None}, limit : Limits]
RowsOf == [mon : Monitors \cup {None}, limit : Limits, rows : {"none", "short", "full"}]

\* The rows kept are those of the page displayed, which another page does not have,
\* and rows that an observer has seen are rows.
HistoryInvariant ==
    /\ TypeOK /\ NoStuckExpansion
    /\ shown = None => prev = NoRows /\ last = NoRows /\ expansion = NoExpansion
    /\ shown # None => prev.mon = shown
    /\ last.mon # None => last.rows # "none"

\* What Render makes of the rows.
Drawn ==
    /\ shown' = None => prev' = NoRows /\ last' = NoRows /\ expansion' = NoExpansion
    /\ shown' # None =>
         LET k == RowsKey'
             q == query'[k]
         IN  /\ prev' = IF q.data # "none" /\ q.err = "none"
                        THEN [mon |-> k.mon, limit |-> k.limit, rows |-> q.data]
                        ELSE Kept(k)
             /\ last' = IF q.data # "none"
                        THEN [mon |-> k.mon, limit |-> k.limit, rows |-> q.data]
                        ELSE last

LEMMA InitHistory == Init => HistoryInvariant
<1> SUFFICES ASSUME Init PROVE HistoryInvariant
  OBVIOUS
<1>1. NoExpansion \in Places /\ NoRows \in RowsOf
  BY HistoryAssumption DEF NoExpansion, NoRows, Places, RowsOf, Limits
<1>2. NoQuery \in Query /\ NoQuery.cooling = FALSE
  BY DEF NoQuery, Query, Errors
<1>3. TypeOK
  BY <1>1, <1>2 DEF Init, TypeOK, Places, RowsOf
<1> QED
  BY <1>3 DEF Init, HistoryInvariant, NoStuckExpansion, NoRows

\* The key of the rows displayed.
LEMMA RowsKeyType ==
    ASSUME NEW m \in Monitors, NEW l \in Limits
    PROVE  /\ Key("rows", m, l) \in Keys
           /\ Key("rows", m, l).mon = m /\ Key("rows", m, l).limit = l
           /\ Key("rows", m, l).kind = "rows"
  BY HistoryAssumption DEF Keys, Key

\* A fetch keeps a pause only with its error.
LEMMA StartedType ==
    ASSUME NEW q \in Query, q.cooling => q.err = "limited"
    PROVE  /\ Started(q) \in Query /\ Started(q).fetching = TRUE
           /\ Started(q).cooling => Started(q).err = "limited"
<1>1. CASE q.data = "none"
  <2>1. Started(q) = [NoQuery EXCEPT !.fetching = TRUE]
    BY <1>1 DEF Started
  <2> QED
    BY <2>1 DEF NoQuery, Query, Errors
<1>2. CASE q.data # "none"
  <2>1. Started(q) = [q EXCEPT !.fetching = TRUE]
    BY <1>2 DEF Started
  <2> QED
    BY <2>1 DEF Query
<1> QED
  BY <1>1, <1>2

\* Whatever page is displayed after a step that renders, the rows kept are its own.
LEMMA DrawnKeeps ==
    ASSUME HistoryInvariant, Drawn, focus' \in BOOLEAN,
           shown' \in Monitors \cup {None}, limitState' \in Places,
           query' \in [Keys -> Query],
           \A k \in Keys : query'[k].cooling => query'[k].err = "limited",
           shown' # None =>
             \/ expansion' = NoExpansion
             \/ /\ expansion' = [mon |-> shown', limit |-> historyLimit']
                /\ query'[RowsKey'].fetching
    PROVE  HistoryInvariant'
<1>1. historyLimit' \in Limits
  BY HistoryAssumption DEF historyLimit, Places, Limits
<1>2. NoExpansion \in Places /\ NoRows \in RowsOf
  BY HistoryAssumption DEF NoExpansion, NoRows, Places, RowsOf, Limits
<1>3. prev \in RowsOf /\ last \in RowsOf
  BY DEF HistoryInvariant, TypeOK, RowsOf
<1>4. CASE shown' = None
  <2>1. TypeOK'
    BY <1>2, <1>4 DEF Drawn, TypeOK, Places, RowsOf
  <2> QED
    BY <1>4, <2>1 DEF Drawn, HistoryInvariant, NoStuckExpansion, NoRows
<1>5. CASE shown' # None
  <2> DEFINE k == RowsKey'
             q == query'[k]
             new == [mon |-> shown', limit |-> historyLimit', rows |-> q.data]
  <2>1. k \in Keys /\ k.mon = shown' /\ k.limit = historyLimit'
    BY <1>1, <1>5, RowsKeyType DEF RowsKey
  <2>2. q \in Query
    BY <2>1
  <2>3. new \in RowsOf
    BY <1>1, <1>5, <2>2 DEF Query, RowsOf
  <2>4. Kept(k) \in RowsOf /\ Kept(k).mon = shown'
    BY <1>2, <1>3, <1>5, <2>1 DEF Kept, RowsOf, NoRows
  <2>5. /\ prev' = new \/ prev' = Kept(k)
        /\ last' = last \/ (last' = new /\ q.data # "none")
    BY <1>5, <2>1 DEF Drawn
  <2>6. expansion' \in Places
    BY <1>1, <1>2, <1>5 DEF Places
  <2>7. TypeOK'
    BY <1>3, <2>3, <2>4, <2>5, <2>6 DEF TypeOK, Places, RowsOf
  <2>8. NoStuckExpansion'
    BY <1>5 DEF NoStuckExpansion
  <2>9. prev'.mon = shown'
    BY <2>4, <2>5
  <2>10. last'.mon # None => last'.rows # "none"
    BY <2>5 DEF HistoryInvariant
  <2> QED
    BY <1>5, <2>7, <2>8, <2>9, <2>10 DEF HistoryInvariant
<1> QED
  BY <1>4, <1>5

\* Rows of a page that stays are still displayed after it was rendered.
LEMMA DrawnShows ==
    ASSUME HistoryInvariant, Drawn, shown' = shown, limitState' \in Places
    PROVE  RowsKept
<1> SUFFICES ASSUME shown # None, prev.rows # "none" PROVE visibleHistory'.rows # "none"
  BY DEF RowsKept
<1>1. historyLimit' \in Limits /\ shown' \in Monitors
  BY HistoryAssumption DEF historyLimit, Places, Limits, HistoryInvariant, TypeOK
<1> DEFINE k == RowsKey'
           q == query'[k]
<1>2. k.mon = shown' /\ k.limit = historyLimit'
  BY <1>1, RowsKeyType DEF RowsKey
<1>3. Kept(k) = prev
  BY <1>2 DEF Kept, HistoryInvariant
<1>4. CASE q.data # "none"
  BY <1>4 DEF visibleHistory
<1>5. CASE q.data = "none"
  <2>1. prev' = prev /\ last' = last
    BY <1>3, <1>5 DEF Drawn
  <2>2. last.mon = shown => last.rows # "none"
    BY DEF HistoryInvariant
  <2> QED
    BY <1>5, <2>1, <2>2 DEF visibleHistory
<1> QED
  BY <1>4, <1>5

\* Starting what a new page, or one that stays, may fetch.
LEMMA FetchNewType ==
    ASSUME HistoryInvariant, NEW mounts \in BOOLEAN, FetchNew(mounts)
    PROVE  /\ query' \in [Keys -> Query]
           /\ \A k \in Keys : query'[k].cooling => query'[k].err = "limited"
           /\ mounts => \A k \in Keys : query'[k].fetching /\ ~query[k].fetching =>
                query[k].err # "terminal" /\ ~query[k].cooling
<1>0. /\ query \in [Keys -> Query]
      /\ \A k \in Keys : query[k].cooling => query[k].err = "limited"
  BY DEF HistoryInvariant, TypeOK
<1> DEFINE wants(k, stale) == IF mounts THEN FetchOnMount(query[k], k \in stale)
                              ELSE FetchOnSwitch(query[k], k \in stale)
<1>1. PICK stale \in SUBSET Current' :
        query' = [k \in Keys |-> IF k \in Current' /\ ~query[k].fetching /\ wants(k, stale)
                                 THEN Started(query[k]) ELSE query[k]]
  BY DEF FetchNew
<1>2. ASSUME NEW k \in Keys
      PROVE  /\ query'[k] \in Query
             /\ query'[k].cooling => query'[k].err = "limited"
             /\ mounts => (query'[k].fetching /\ ~query[k].fetching =>
                  query[k].err # "terminal" /\ ~query[k].cooling)
  <2>1. query[k] \in Query /\ (query[k].cooling => query[k].err = "limited")
    BY <1>0
  <2>2. CASE query'[k] = query[k]
    BY <2>1, <2>2
  <2>3. CASE query'[k] = Started(query[k]) /\ wants(k, stale)
    <3>1. ASSUME mounts PROVE query[k].err # "terminal" /\ ~query[k].cooling
      BY <2>1, <2>3, <3>1 DEF FetchOnMount, permitsAutomaticRefetch
    <3> QED
      BY <2>1, <2>3, <3>1, StartedType
  <2> QED
    BY <1>1, <2>2, <2>3
<1> QED
  BY <1>1, <1>2

\* One query changes, and the page is rendered as it was.
LEMMA QueryStep ==
    ASSUME HistoryInvariant, UNCHANGED <<shown, focus, limitState>>, Render(expansion),
           NEW k \in Keys, NEW q \in Query, q.cooling => q.err = "limited",
           query' = [query EXCEPT ![k] = q],
           q.fetching /\ ~query[k].fetching => query[k].err # "terminal" /\ ~query[k].cooling
    PROVE  HistoryInvariant' /\ RowsKept /\ PauseKept
<1>0. /\ query \in [Keys -> Query] /\ shown \in Monitors \cup {None}
      /\ \A j \in Keys : query[j].cooling => query[j].err = "limited"
      /\ limitState \in Places /\ focus \in BOOLEAN
  BY DEF HistoryInvariant, TypeOK, Places
<1>1. /\ query' \in [Keys -> Query]
      /\ \A j \in Keys : query'[j] = IF j = k THEN q ELSE query[j]
  BY <1>0
<1>2. Drawn
  BY DEF Render, Drawn
<1>3. ASSUME shown' # None
      PROVE  \/ expansion' = NoExpansion
             \/ /\ expansion' = [mon |-> shown', limit |-> historyLimit']
                /\ query'[RowsKey'].fetching
  <2>1. \/ expansion' = NoExpansion
        \/ expansion' = expansion /\ expansion.mon = shown' /\ query'[RowsKey'].fetching
    BY <1>3 DEF Render
  <2>2. historyLimit' = historyLimit
    BY DEF historyLimit
  <2>3. expansion.mon = shown' => expansion = [mon |-> shown, limit |-> historyLimit]
    BY <1>3 DEF HistoryInvariant, NoStuckExpansion, NoExpansion
  <2> QED
    BY <2>1, <2>2, <2>3
<1>4. HistoryInvariant'
  BY <1>0, <1>1, <1>2, <1>3, DrawnKeeps
<1>5. RowsKept
  BY <1>0, <1>2, DrawnShows
<1>6. PauseKept
  BY <1>0, <1>1 DEF PauseKept
<1> QED
  BY <1>4, <1>5, <1>6

\* Every step keeps the invariant, the rows of the visit and the pauses.
LEMMA NextHistory ==
    ASSUME HistoryInvariant, [Next]_vars
    PROVE  HistoryInvariant' /\ [RowsKept /\ PauseKept]_vars
<1>0. /\ query \in [Keys -> Query] /\ shown \in Monitors \cup {None}
      /\ \A j \in Keys : query[j].cooling => query[j].err = "limited"
      /\ limitState \in Places /\ focus \in BOOLEAN /\ expansion \in Places
  BY DEF HistoryInvariant, TypeOK, Places
<1>1. ASSUME NEW m \in Monitors, Open(m) PROVE HistoryInvariant' /\ RowsKept /\ PauseKept
  <2>1. /\ shown = None /\ shown' = m /\ limitState' = [mon |-> m, limit |-> 1]
        /\ FetchNew(TRUE) /\ Render(NoExpansion) /\ focus' = focus
    BY <1>1 DEF Open
  <2>2. shown' # None /\ limitState' \in Places
    BY <2>1, HistoryAssumption DEF Places, Limits
  <2>3. Drawn /\ expansion' = NoExpansion
    BY <2>1, <2>2 DEF Render, Drawn, NoExpansion
  <2>4. HistoryInvariant'
    BY <1>0, <2>1, <2>2, <2>3, FetchNewType, DrawnKeeps
  <2>5. RowsKept
    BY <2>1 DEF RowsKept
  <2>6. PauseKept
    BY <1>0, <2>1, FetchNewType DEF PauseKept
  <2> QED
    BY <2>4, <2>5, <2>6
<1>2. ASSUME NEW m \in Monitors, SwitchTo(m) PROVE HistoryInvariant' /\ RowsKept /\ PauseKept
  <2>1. /\ shown # None /\ shown # m /\ shown' = m /\ limitState' = limitState
        /\ FetchNew(FALSE) /\ Render(expansion) /\ focus' = focus
    BY <1>2 DEF SwitchTo
  <2>2. shown' # None
    BY <2>1, HistoryAssumption
  <2>3. expansion.mon # shown'
    BY <2>1, <2>2 DEF HistoryInvariant, NoStuckExpansion, NoExpansion
  <2>4. Drawn /\ expansion' = NoExpansion
    BY <2>1, <2>2, <2>3 DEF Render, Drawn
  <2>5. HistoryInvariant'
    BY <1>0, <2>1, <2>2, <2>4, FetchNewType, DrawnKeeps
  <2>6. RowsKept
    BY <2>1 DEF RowsKept
  <2>7. ASSUME NEW k \in Keys, k \in Current, ~query[k].fetching, query'[k].fetching PROVE FALSE
    <3>1. k.mon = shown
      BY <2>1, <2>7 DEF Current, Key
    <3>2. k \in Current'
      BY <1>0, <2>1, <2>7 DEF FetchNew
    <3>3. k.mon = shown'
      BY <2>2, <3>2 DEF Current, Key
    <3> QED
      BY <2>1, <3>1, <3>3
  <2>8. PauseKept
    BY <1>0, <2>1, <2>7 DEF PauseKept
  <2> QED
    BY <2>5, <2>6, <2>8
<1>3. ASSUME loadMoreHistory PROVE HistoryInvariant' /\ RowsKept /\ PauseKept
  <2>1. /\ shown # None /\ shown' = shown /\ historyLimit < MaxLimit
        /\ limitState' = [mon |-> shown, limit |-> historyLimit + 1] /\ focus' = focus
        /\ Render(limitState')
    BY <1>3 DEF loadMoreHistory, PageShown, canLoadMore
  <2>2. historyLimit \in Limits
    BY <1>0, HistoryAssumption DEF historyLimit, Places, Limits
  <2>3. historyLimit' = historyLimit + 1 /\ historyLimit' \in Limits
    BY <2>1, <2>2, HistoryAssumption DEF historyLimit, Limits
  <2>4. limitState' = [mon |-> shown', limit |-> historyLimit'] /\ limitState' \in Places
    BY <1>0, <2>1, <2>3 DEF Places
  <2>5. RowsKey' \in Keys /\ RowsKey'.limit = historyLimit' /\ RowsKey'.kind = "rows"
    BY <1>0, <2>1, <2>3, RowsKeyType DEF RowsKey
  <2>6. PICK k \in Keys : k = RowsKey'
    BY <2>5
  <2>7. \/ query' = query
        \/ /\ ~query[k].fetching
           /\ query' = [query EXCEPT ![k] = Started(query[k])]
    BY <1>0, <1>3, <2>6 DEF loadMoreHistory
  <2>8. query[k] \in Query /\ (query[k].cooling => query[k].err = "limited")
    BY <1>0, <2>6
  <2>9. /\ query' \in [Keys -> Query]
        /\ \A j \in Keys : query'[j].cooling => query'[j].err = "limited"
    BY <1>0, <2>7, <2>8, StartedType
  <2>10. Drawn
    BY <2>1 DEF Render, Drawn
  <2>11. \/ expansion' = NoExpansion
         \/ expansion' = limitState' /\ query'[RowsKey'].fetching
    BY <2>1 DEF Render
  <2>12. HistoryInvariant'
    BY <1>0, <2>1, <2>4, <2>9, <2>10, <2>11, DrawnKeeps
  <2>13. RowsKept
    BY <2>1, <2>4, <2>10, DrawnShows
  <2>14. k \notin Current
    BY <2>1, <2>2, <2>3, <2>5, <2>6 DEF Current, Key, Limits
  <2>15. PauseKept
    BY <1>0, <2>1, <2>7, <2>14 DEF PauseKept
  <2> QED
    BY <2>12, <2>13, <2>15
<1>4. ASSUME NEW k \in Keys, refetch(k) PROVE HistoryInvariant' /\ RowsKept /\ PauseKept
  <2>1. query[k] \in Query /\ (query[k].cooling => query[k].err = "limited")
    BY <1>0
  <2>2. PICK q : q = Started(query[k])
    OBVIOUS
  <2> QED
    BY <1>4, <2>1, <2>2, StartedType, QueryStep DEF refetch
<1>5. ASSUME NEW k \in Keys, Poll(k) PROVE HistoryInvariant' /\ RowsKept /\ PauseKept
  <2>1. query[k] \in Query /\ (query[k].cooling => query[k].err = "limited")
    BY <1>0
  <2>2. PICK q : q = Started(query[k])
    OBVIOUS
  <2> QED
    BY <1>5, <2>1, <2>2, StartedType, QueryStep DEF Poll, permitsAutomaticRefetch
<1>6. ASSUME NEW k \in Keys, Succeed(k) PROVE HistoryInvariant' /\ RowsKept /\ PauseKept
  <2>1. PICK d \in {"short", "full"} : query' = [query EXCEPT ![k] = [NoQuery EXCEPT !.data = d]]
    BY <1>6 DEF Succeed, Answers
  <2>2. PICK q : q = [NoQuery EXCEPT !.data = d]
    OBVIOUS
  <2>3. q \in Query /\ q.cooling = FALSE /\ q.fetching = FALSE
    BY <2>2 DEF NoQuery, Query, Errors
  <2> QED
    BY <1>6, <2>1, <2>2, <2>3, QueryStep DEF Succeed
<1>7. ASSUME NEW k \in Keys, Fail(k) PROVE HistoryInvariant' /\ RowsKept /\ PauseKept
  <2>1. PICK e \in Failures :
           query' = [query EXCEPT ![k].err = e, ![k].fetching = FALSE, ![k].cooling = (e = "limited")]
    BY <1>7 DEF Fail
  <2>2. PICK q : q = [query[k] EXCEPT !.err = e, !.fetching = FALSE, !.cooling = (e = "limited")]
    OBVIOUS
  <2>3. query[k] \in Query
    BY <1>0
  <2>4. q \in Query /\ q.fetching = FALSE /\ q.cooling = (e = "limited") /\ q.err = e
    BY <2>2, <2>3 DEF Query, Errors
  <2>5. query' = [query EXCEPT ![k] = q]
    BY <1>0, <2>1, <2>2
  <2> QED
    BY <1>7, <2>4, <2>5, QueryStep DEF Fail
<1>8. ASSUME NEW k \in Keys, CooledDown(k) PROVE HistoryInvariant' /\ RowsKept /\ PauseKept
  <2>1. query[k] \in Query
    BY <1>0
  <2>2. PICK q : q = [query[k] EXCEPT !.cooling = FALSE]
    OBVIOUS
  <2>3. q \in Query /\ q.cooling = FALSE /\ q.fetching = query[k].fetching
    BY <2>1, <2>2 DEF Query
  <2>4. query' = [query EXCEPT ![k] = q]
    BY <1>0, <1>8, <2>2 DEF CooledDown
  <2> QED
    BY <1>8, <2>3, <2>4, QueryStep DEF CooledDown
<1>9. ASSUME NEW k \in Keys, Forget(k) PROVE HistoryInvariant' /\ RowsKept /\ PauseKept
  <2>1. /\ k \notin Current /\ query' = [query EXCEPT ![k] = NoQuery]
        /\ UNCHANGED <<shown, focus, limitState, prev, expansion, last>>
    BY <1>9 DEF Forget
  <2>2. NoQuery \in Query /\ NoQuery.cooling = FALSE /\ NoQuery.fetching = FALSE
    BY DEF NoQuery, Query, Errors
  <2>3. historyLimit' = historyLimit /\ RowsKey' = RowsKey
    BY <2>1 DEF historyLimit, RowsKey
  <2>4. shown # None => query'[RowsKey] = query[RowsKey]
    <3>1. shown # None => RowsKey \in Current
      BY HistoryAssumption DEF RowsKey, Current
    <3> QED
      BY <1>0, <2>1, <3>1
  <2>5. TypeOK'
    BY <1>0, <2>1, <2>2 DEF HistoryInvariant, TypeOK
  <2>6. HistoryInvariant'
    BY <2>1, <2>3, <2>4, <2>5 DEF HistoryInvariant, NoStuckExpansion
  <2>7. RowsKept
    BY <2>1, <2>3, <2>4 DEF RowsKept, HistoryInvariant, visibleHistory
  <2>8. PauseKept
    BY <1>0, <2>1, <2>2 DEF PauseKept
  <2> QED
    BY <2>6, <2>7, <2>8
<1>10. ASSUME Leave PROVE HistoryInvariant' /\ RowsKept /\ PauseKept
  <2>1. shown # None /\ shown' = None /\ Render(NoExpansion) /\ UNCHANGED <<focus, limitState, query>>
    BY <1>10 DEF Leave
  <2>2. Drawn
    BY <2>1 DEF Render, Drawn
  <2>3. HistoryInvariant'
    BY <1>0, <2>1, <2>2, DrawnKeeps
  <2> QED
    BY <2>1, <2>3 DEF RowsKept, PauseKept
<1>11. ASSUME Focus PROVE HistoryInvariant' /\ RowsKept /\ PauseKept
  <2>1. focus' \in BOOLEAN /\ UNCHANGED <<shown, limitState, query, prev, expansion, last>>
    BY <1>0, <1>11 DEF Focus
  <2>2. historyLimit' = historyLimit /\ RowsKey' = RowsKey /\ visibleHistory' = visibleHistory
    BY <2>1 DEF historyLimit, RowsKey, visibleHistory
  <2>3. HistoryInvariant'
    BY <2>1, <2>2 DEF HistoryInvariant, TypeOK, NoStuckExpansion
  <2>4. RowsKept
    BY <2>1, <2>2 DEF RowsKept, HistoryInvariant, visibleHistory
  <2> QED
    BY <2>1, <2>3, <2>4 DEF PauseKept
<1>12. CASE UNCHANGED vars
  BY <1>12 DEF vars, HistoryInvariant, TypeOK, NoStuckExpansion, historyLimit, RowsKey
<1> QED
  BY <1>1, <1>2, <1>3, <1>4, <1>5, <1>6, <1>7, <1>8, <1>9, <1>10, <1>11, <1>12 DEF Next

\* What a step makes of a query: nothing, a fetch, an answer, an error, or it drops
\* one that the page does not have.
LEMMA KeyStep ==
    ASSUME HistoryInvariant, Next, NEW k \in Keys
    PROVE  \/ query'[k] = query[k]
           \/ query'[k] = Started(query[k])
           \/ query'[k].data # "none"
           \/ query'[k].data = query[k].data /\ query'[k].err # "none"
           \/ k \notin Current /\ Current' = Current
<1>0. query \in [Keys -> Query] /\ (query[k].cooling => query[k].err = "limited")
  BY DEF HistoryInvariant, TypeOK
<1>1. ASSUME NEW j \in Keys, Fail(j) PROVE query'[j].data = query[j].data /\ query'[j].err # "none"
  <2>1. PICK e \in Failures :
           query' = [query EXCEPT ![j].err = e, ![j].fetching = FALSE, ![j].cooling = (e = "limited")]
    BY <1>1 DEF Fail
  <2>2. query[j] \in Query
    BY <1>0
  <2> QED
    BY <1>0, <2>1, <2>2, HistoryAssumption DEF Query
<1>2. ASSUME NEW j \in Keys, Forget(j) PROVE j \notin Current /\ Current' = Current
  BY <1>2 DEF Forget, Current, historyLimit
<1>3. ASSUME NEW j \in Keys, Succeed(j) PROVE query'[j].data # "none"
  BY <1>0, <1>3 DEF Succeed, Answers, NoQuery
<1>4. ASSUME NEW j \in Keys, CooledDown(j)
      PROVE  query'[j].data = query[j].data /\ (j = k => query'[j].err # "none")
  <2>1. query[j] \in Query /\ query[j].cooling /\ query' = [query EXCEPT ![j].cooling = FALSE]
    BY <1>0, <1>4 DEF CooledDown
  <2> QED
    BY <1>0, <2>1 DEF Query
<1>5. ASSUME NEW j \in Keys, j # k,
             refetch(j) \/ Poll(j) \/ Succeed(j) \/ Fail(j) \/ CooledDown(j) \/ Forget(j)
      PROVE  query'[k] = query[k]
  BY <1>0, <1>5 DEF refetch, Poll, Succeed, Fail, CooledDown, Forget
<1>6. ASSUME refetch(k) \/ Poll(k) PROVE query'[k] = Started(query[k])
  BY <1>0, <1>6 DEF refetch, Poll
<1>7. ASSUME NEW mounts \in BOOLEAN, FetchNew(mounts)
      PROVE  query'[k] = query[k] \/ query'[k] = Started(query[k])
  BY <1>7 DEF FetchNew
<1>8. ASSUME loadMoreHistory PROVE query'[k] = query[k] \/ query'[k] = Started(query[k])
  BY <1>0, <1>8 DEF loadMoreHistory
<1>9. ASSUME Leave \/ Focus PROVE query'[k] = query[k]
  BY <1>9 DEF Leave, Focus
<1> QED
  BY <1>1, <1>2, <1>3, <1>4, <1>5, <1>6, <1>7, <1>8, <1>9 DEF Next, Open, SwitchTo

\* A page has asked for all that it displays.
Asked == \A k \in Current : query[k].data # "none" \/ query[k].err # "none" \/ query[k].fetching

LEMMA CurrentKeys == HistoryInvariant => Current \subseteq Keys
<1> SUFFICES ASSUME HistoryInvariant, shown # None, NEW kind \in Kinds
             PROVE  Key(kind, shown, historyLimit) \in Keys
  BY DEF Current
<1>1. historyLimit \in Limits /\ shown \in Monitors
  BY HistoryAssumption DEF historyLimit, HistoryInvariant, TypeOK, Limits
<1> QED
  BY <1>1 DEF Keys

LEMMA AskedStep ==
    ASSUME HistoryInvariant, HistoryInvariant', Asked, [Next]_vars
    PROVE  Asked'
<1>0. Current' \subseteq Keys
  <2>1. (HistoryInvariant => Current \subseteq Keys)'
    BY CurrentKeys, PTL
  <2> QED
    BY <2>1
<1>1. CASE UNCHANGED vars
  BY <1>1 DEF vars, Asked, Current, historyLimit
<1>2. CASE Next
  <2> SUFFICES ASSUME NEW k \in Keys, k \in Current'
               PROVE  query'[k].data # "none" \/ query'[k].err # "none" \/ query'[k].fetching
    BY <1>0 DEF Asked
  <2>0. query[k] \in Query /\ query'[k] \in Query /\ (query[k].cooling => query[k].err = "limited")
    BY DEF HistoryInvariant, TypeOK
  <2>1. Started(query[k]).fetching
    BY <2>0, StartedType
  <2>2. CASE k \in Current
    <3>1. query[k].data # "none" \/ query[k].err # "none" \/ query[k].fetching
      BY <2>2 DEF Asked
    <3> QED
      BY <1>2, <2>1, <2>2, <3>1, KeyStep
  <2>3. CASE k \notin Current
    <3>1. ASSUME NEW mounts \in BOOLEAN, FetchNew(mounts)
          PROVE  query'[k].data # "none" \/ query'[k].err # "none" \/ query'[k].fetching
      <4>1. PICK stale \in SUBSET Current' :
              query'[k] = IF /\ ~query[k].fetching
                             /\ IF mounts THEN FetchOnMount(query[k], k \in stale)
                                          ELSE FetchOnSwitch(query[k], k \in stale)
                          THEN Started(query[k]) ELSE query[k]
        BY <3>1 DEF FetchNew
      <4> QED
        BY <2>1, <4>1 DEF FetchOnMount, FetchOnSwitch
    <3>2. ASSUME loadMoreHistory
          PROVE  query'[k].data # "none" \/ query'[k].err # "none" \/ query'[k].fetching
      <4>1. k = RowsKey'
        BY <2>3, <3>2 DEF loadMoreHistory, Current, RowsKey, Key
      <4>2. PICK stale \in BOOLEAN :
              query' = [query EXCEPT ![k] = IF ~@.fetching /\ FetchOnSwitch(@, stale)
                                            THEN Started(@) ELSE @]
        BY <3>2, <4>1 DEF loadMoreHistory
      <4>3. query'[k] = IF ~query[k].fetching /\ FetchOnSwitch(query[k], stale)
                        THEN Started(query[k]) ELSE query[k]
        BY <4>2 DEF HistoryInvariant, TypeOK
      <4> QED
        BY <2>1, <4>3 DEF FetchOnSwitch
    <3>3. ASSUME UNCHANGED <<shown, limitState>> PROVE FALSE
      BY <2>3, <3>3 DEF Current, historyLimit
    <3>4. ASSUME Leave PROVE FALSE
      BY <3>4 DEF Leave, Current
    <3> QED
      BY <1>2, <3>1, <3>2, <3>3, <3>4
         DEF Next, Open, SwitchTo, Focus, refetch, Poll, Succeed, Fail, CooledDown, Forget
  <2> QED
    BY <2>2, <2>3
<1> QED
  BY <1>1, <1>2

\* A page that hides its rows has not found the monitor or asks again for metadata
\* that it never had.
LEMMA DisplayStep ==
    ASSUME HistoryInvariant, Asked, [Next]_vars, [RowsKept /\ PauseKept]_vars
    PROVE  [RowsDisplayed]_vars
<1> SUFFICES ASSUME Next, RowsKept, PageShown, shown' = shown, prev.rows # "none",
                    ~PageShown', ~NotFound'
             PROVE  \E k \in Current :
                      /\ k.kind = "metadata"
                      /\ query[k].data = "none" /\ query[k].err # "none"
                      /\ query'[k].fetching
  BY DEF RowsDisplayed, RowsKept, PageShown
<1>1. PICK k \in Current' : k.kind = "metadata" /\ query'[k].data = "none" /\ query'[k].fetching
  BY DEF PageShown, LoadingMonitor
<1>2. k \in Current
  BY <1>1, HistoryAssumption DEF PageShown, Current, Key
<1>3. k \in Keys
  BY <1>2, CurrentKeys
<1>4. query[k] \in Query /\ (query[k].cooling => query[k].err = "limited")
  BY <1>3 DEF HistoryInvariant, TypeOK
<1>5. query[k].data = "none"
  <2>1. query[k].data # "none" => Started(query[k]).data # "none"
    BY <1>4 DEF Started, Query
  <2> QED
    BY <1>1, <1>2, <1>3, <2>1, KeyStep
<1>6. ~query[k].fetching
  BY <1>1, <1>2, <1>5 DEF PageShown, LoadingMonitor
<1> QED
  BY <1>1, <1>2, <1>5, <1>6 DEF Asked

LEMMA HistoryAlways == Spec => []HistoryInvariant
<1>1. HistoryInvariant /\ [Next]_vars => HistoryInvariant'
  BY NextHistory
<1> QED
  BY InitHistory, <1>1, PTL DEF Spec

\* For any monitors, sections and limits: an expansion that is latched stands for a
\* fetch in flight, and the rows displayed are rows of the monitor displayed
\* (useMonitorHistory, visibleHistory).
THEOREM SectionsCorrect == Spec => []SectionsSound
<1>1. HistoryInvariant => SectionsSound
  <2> SUFFICES ASSUME HistoryInvariant, shown # None, visibleHistory.rows # "none"
               PROVE  visibleHistory.mon = shown
    BY DEF HistoryInvariant, SectionsSound, RowsOfThisMonitor
  <2> QED
    BY DEF HistoryInvariant, visibleHistory
<1> QED
  BY HistoryAlways, <1>1, PTL

\* Likewise, rows loaded during a visit are kept until the page is left, and leave the
\* screen before only for "Monitor not found" or while metadata that never arrived is
\* asked for again; and nothing is fetched in a pause or after a terminal failure
\* (refetchInterval, refetchOnMount, previousSuccessfulHistory, MonitorHistoryPage).
THEOREM VisitCorrect == Spec => VisitKept
<1>1. Init => Asked
  BY DEF Init, Asked, Current
<1>2. HistoryInvariant /\ HistoryInvariant' /\ Asked /\ [Next]_vars => Asked'
  BY AskedStep
<1>3. HistoryInvariant /\ Asked /\ [Next]_vars => [RowsKept /\ RowsDisplayed /\ PauseKept]_vars
  BY NextHistory, DisplayStep
<1> QED
  BY HistoryAlways, <1>1, <1>2, <1>3, PTL DEF Spec, VisitKept
-----------------------------------------------------------------------------
(* The chart *)

Points == rows \ todo

\* The points come in their order; the one before is the last of them, and in the
\* open line if it was measured, else there is none.
LoopInvariant ==
    /\ rows \subseteq Chart!Row /\ todo \subseteq rows
    /\ \A a, b \in rows : a.id = b.id => a = b
    /\ \A a \in Points, b \in todo : Chart!Before(a, b)
    /\ IF previous = None THEN Points = {} /\ segment = {}
       ELSE /\ previous \in Points
            /\ \A a \in Points \ {previous} : Chart!Before(a, previous)
            /\ IF previous.measured THEN previous \in segment ELSE segment = {}

ChartInvariant ==
    /\ LoopInvariant
    /\ \A line \in segments : line \cap segment = {}
    /\ Chart!LinesAreHonest /\ Chart!DrawnOnce /\ Chart!GapsAreSilences

\* Rows of different ids have one order.
LEMMA RowOrder ==
  /\ None \notin Chart!Row
  /\ \A a, b \in Chart!Row :
        /\ ~(Chart!Before(a, b) /\ Chart!Before(b, a))
        /\ a.id # b.id => Chart!Before(a, b) \/ Chart!Before(b, a)
        /\ a.timestamp \in Nat
        /\ Chart!Before(a, b) => a.timestamp <= b.timestamp
        /\ a.measured \in BOOLEAN
  /\ \A a, b, c \in Chart!Row :
        Chart!Before(a, b) /\ Chart!Before(b, c) => Chart!Before(a, c)
  /\ Frequency \in Nat
<1>1. Frequency \in Nat /\ MaxTime \in Nat /\ ChartRows \in Nat
      /\ None \notin [id : Nat, timestamp : Nat, measured : BOOLEAN]
  BY FiguresAssumption DEF Chart!ChartAssumption
<1>2. ASSUME NEW a \in Chart!Row
      PROVE  a \in [id : Nat, timestamp : Nat, measured : BOOLEAN]
  BY <1>1 DEF Chart!Row
<1>3. None \notin Chart!Row
  BY <1>1, <1>2
<1> QED
  BY <1>1, <1>2, <1>3 DEF Chart!Before

\* The lines after one turn of the loop.
LEMMA LinesAfter ==
  ASSUME NEW point, Chart!Visit(point)
  PROVE  /\ Chart!Ends(point) =>
              /\ segments' = Chart!Lines
              /\ segment' = IF point.measured THEN {point} ELSE {}
              /\ Chart!Lines' = Chart!Lines \cup IF point.measured THEN {{point}} ELSE {}
         /\ ~Chart!Ends(point) =>
              /\ segments' = segments /\ segment' = segment \cup {point}
              /\ Chart!Lines' = segments \cup {segment \cup {point}}
  BY DEF Chart!Visit, Chart!Lines, Chart!NonEmpty, Chart!Ends

\* One turn of the loop keeps the order.
LEMMA LoopStep ==
  ASSUME LoopInvariant, NEW point \in todo, Chart!Visit(point)
  PROVE  /\ LoopInvariant'
         /\ Points' = Points \cup {point} /\ point \notin Points
         /\ \A a \in Points : Chart!Before(a, point)
         /\ point \in Chart!Row /\ Points \subseteq Chart!Row
         /\ previous' = point /\ (previous = None => Points = {})
         /\ previous # None => /\ previous \in Points
                               /\ \A a \in Points \ {previous} : Chart!Before(a, previous)
<1>1. /\ rows' = rows /\ todo' = todo \ {point} /\ previous' = point
      /\ \A other \in todo \ {point} : Chart!Before(point, other)
  BY DEF Chart!Visit
<1>2. Points' = Points \cup {point} /\ point \notin Points
  BY <1>1 DEF Points, LoopInvariant
<1>3. point \in Chart!Row /\ Points \subseteq Chart!Row /\ point # None
  BY RowOrder DEF LoopInvariant, Points
<1>4. \A a \in Points : Chart!Before(a, point)
  BY DEF LoopInvariant
<1>5. segment' = (IF Chart!Ends(point) THEN {} ELSE segment)
                   \cup IF point.measured THEN {point} ELSE {}
  BY DEF Chart!Visit
<1>6. IF previous'.measured THEN previous' \in segment' ELSE segment' = {}
  BY <1>1, <1>5 DEF Chart!Ends
<1>7. LoopInvariant'
  BY <1>1, <1>2, <1>3, <1>4, <1>6 DEF LoopInvariant
<1> QED
  BY <1>1, <1>2, <1>3, <1>4, <1>7 DEF LoopInvariant

\* A line that holds two points, next to each other in it.
JoinedIn(line, a, b) ==
    /\ a \in line /\ b \in line /\ Chart!Before(a, b)
    /\ ~\E c \in line : Chart!Before(a, c) /\ Chart!Before(c, b)

\* What is drawn, point by point.
EachDrawn(lines, drawn) ==
    /\ \A line \in lines : \E x \in drawn : x \in line
    /\ \A line \in lines : \A x \in line : x \in drawn /\ x.measured
    /\ \A x \in drawn : x.measured => \E line \in lines : x \in line
    /\ \A s, t \in lines : s # t => \A x \in s : x \notin t

LEMMA DrawnPointwise ==
  ASSUME NEW lines, NEW drawn
  PROVE  EachDrawn(lines, drawn) <=>
           /\ {} \notin lines
           /\ UNION lines = {p \in drawn : p.measured}
           /\ \A s, t \in lines : s # t => s \cap t = {}
<1>1. ASSUME EachDrawn(lines, drawn)
      PROVE  /\ {} \notin lines /\ UNION lines = {p \in drawn : p.measured}
             /\ \A s, t \in lines : s # t => s \cap t = {}
  BY <1>1 DEF EachDrawn
<1>2. ASSUME {} \notin lines, UNION lines = {p \in drawn : p.measured},
             \A s, t \in lines : s # t => s \cap t = {}
      PROVE  EachDrawn(lines, drawn)
  <2>1. \A line \in lines : \A x \in line : x \in drawn /\ x.measured
    <3> TAKE line \in lines
    <3> TAKE x \in line
    <3>1. x \in UNION lines
      OBVIOUS
    <3> QED
      BY <1>2, <3>1
  <2>2. \A line \in lines : \E x \in drawn : x \in line
    <3> TAKE line \in lines
    <3>1. PICK x : x \in line
      BY <1>2
    <3> QED
      BY <2>1, <3>1
  <2>3. \A x \in drawn : x.measured => \E line \in lines : x \in line
    <3> SUFFICES ASSUME NEW x \in drawn, x.measured PROVE x \in UNION lines
      OBVIOUS
    <3> QED
      BY <1>2
  <2>4. \A s, t \in lines : s # t => \A x \in s : x \notin t
    BY <1>2
  <2> QED
    BY <2>1, <2>2, <2>3, <2>4 DEF EachDrawn
<1> QED
  BY <1>1, <1>2

LEMMA LinesStep ==
  ASSUME ChartInvariant, NEW point \in todo, Chart!Visit(point)
  PROVE  /\ Chart!DrawnOnce' /\ \A line \in segments' : line \cap segment' = {}
<1>1. /\ Points' = Points \cup {point} /\ point \notin Points /\ point.measured \in BOOLEAN
  BY LoopStep, RowOrder DEF ChartInvariant
<1>2. EachDrawn(Chart!Lines, Points)
  BY DrawnPointwise DEF ChartInvariant, Chart!DrawnOnce, Chart!points, Points
<1>3. /\ \A line \in segments : line \in Chart!Lines /\ \A x \in line : x \notin segment
      /\ \A x \in segment : segment \in Chart!Lines
      /\ \A line \in Chart!Lines : line \in segments \/ line = segment
  BY DEF ChartInvariant, Chart!Lines, Chart!NonEmpty
<1>4. \A s \in Chart!Lines : point \notin s
  BY <1>1, <1>2 DEF EachDrawn
<1>5. EachDrawn(Chart!Lines', Points') /\ \A line \in segments' : \A x \in line : x \notin segment'
  <2>1. CASE Chart!Ends(point)
    <3>1. /\ segments' = Chart!Lines
          /\ segment' = IF point.measured THEN {point} ELSE {}
          /\ Chart!Lines' = Chart!Lines \cup IF point.measured THEN {{point}} ELSE {}
      BY <2>1, LinesAfter
    <3>2. CASE point.measured
      <4>1. segment' = {point} /\ Chart!Lines' = Chart!Lines \cup {{point}}
        BY <3>1, <3>2
      <4>2. /\ \A line \in Chart!Lines' : line \in Chart!Lines \/ line = {point}
            /\ \A line \in Chart!Lines : line \in Chart!Lines'
            /\ {point} \in Chart!Lines'
        BY <4>1
      <4>3. \A line \in Chart!Lines' : \E x \in Points' : x \in line
        BY <1>1, <1>2, <4>2 DEF EachDrawn
      <4>4. \A line \in Chart!Lines' : \A x \in line : x \in Points' /\ x.measured
        BY <1>1, <1>2, <3>2, <4>2 DEF EachDrawn
      <4>5. \A x \in Points' : x.measured => \E line \in Chart!Lines' : x \in line
        BY <1>1, <1>2, <4>2 DEF EachDrawn
      <4>6. \A s, t \in Chart!Lines' : s # t => \A x \in s : x \notin t
        <5> SUFFICES ASSUME NEW s \in Chart!Lines', NEW t \in Chart!Lines', s # t, NEW x \in s
                     PROVE  x \notin t
          OBVIOUS
        <5>1. CASE s \in Chart!Lines /\ t \in Chart!Lines
          BY <5>1, <1>2 DEF EachDrawn
        <5>2. CASE s = {point} /\ t \in Chart!Lines
          BY <5>2, <1>4
        <5>3. CASE t = {point} /\ s \in Chart!Lines
          BY <5>3, <1>4
        <5> QED
          BY <4>2, <5>1, <5>2, <5>3
      <4>7. \A line \in segments' : \A x \in line : x \notin segment'
        BY <1>4, <3>1, <4>1
      <4> QED
        BY <4>3, <4>4, <4>5, <4>6, <4>7 DEF EachDrawn
    <3>3. CASE ~point.measured
      <4>1. segment' = {} /\ Chart!Lines' = Chart!Lines
        BY <3>1, <3>3
      <4> QED
        BY <1>1, <1>2, <3>3, <4>1 DEF EachDrawn
    <3> QED
      BY <1>1, <3>2, <3>3
  <2>2. CASE ~Chart!Ends(point)
    <3>1. /\ segments' = segments /\ segment' = segment \cup {point}
          /\ Chart!Lines' = segments \cup {segment \cup {point}} /\ point.measured
      BY <1>1, <2>2, LinesAfter DEF Chart!Ends
    <3>2. \A line \in segments : \A x \in line : x \notin segment \cup {point}
      BY <1>3, <1>4
    <3>3. \A line \in Chart!Lines' : line \in segments \/ line = segment \cup {point}
      BY <3>1
    <3>4. \A x \in segment : x \in Points /\ x.measured
      BY <1>2, <1>3 DEF EachDrawn
    <3>5. \A line \in Chart!Lines' : \E x \in Points' : x \in line
      BY <1>1, <1>2, <1>3, <3>1 DEF EachDrawn
    <3>6. \A line \in Chart!Lines' : \A x \in line : x \in Points' /\ x.measured
      BY <1>1, <1>2, <1>3, <3>1, <3>3, <3>4 DEF EachDrawn
    <3>7. \A x \in Points' : x.measured => \E line \in Chart!Lines' : x \in line
      <4> SUFFICES ASSUME NEW x \in Points', x.measured PROVE \E line \in Chart!Lines' : x \in line
        OBVIOUS
      <4>1. segment \cup {point} \in Chart!Lines' /\ \A line \in segments : line \in Chart!Lines'
        BY <3>1
      <4>2. CASE x \in segment \cup {point}
        BY <4>1, <4>2
      <4>3. CASE x \in Points /\ x \notin segment
        <5>1. PICK line \in Chart!Lines : x \in line
          BY <4>3, <1>2 DEF EachDrawn
        <5> QED
          BY <5>1, <1>3, <4>1, <4>3
      <4> QED
        BY <1>1, <4>2, <4>3
    <3>8. \A s, t \in Chart!Lines' : s # t => \A x \in s : x \notin t
      <4> SUFFICES ASSUME NEW s \in Chart!Lines', NEW t \in Chart!Lines', s # t, NEW x \in s
                   PROVE  x \notin t
        OBVIOUS
      <4>1. CASE s \in segments /\ t \in segments
        BY <4>1, <1>2, <1>3 DEF EachDrawn
      <4>2. CASE s = segment \cup {point} /\ t \in segments
        BY <4>2, <3>2
      <4>3. CASE t = segment \cup {point} /\ s \in segments
        BY <4>3, <3>2
      <4> QED
        BY <3>3, <4>1, <4>2, <4>3
    <3> QED
      BY <3>1, <3>2, <3>5, <3>6, <3>7, <3>8 DEF EachDrawn
  <2> QED
    BY <2>1, <2>2
<1>6. Chart!DrawnOnce'
  BY <1>5, DrawnPointwise DEF Chart!DrawnOnce, Chart!points, Points
<1> QED
  BY <1>5, <1>6

LEMMA HonestStep ==
  ASSUME ChartInvariant, NEW point \in todo, Chart!Visit(point)
  PROVE  Chart!LinesAreHonest'
<1> DEFINE Near(a, b) == Frequency = 0 \/ b.timestamp - a.timestamp <= 3 * Frequency
           Next2(S, a, b) == Chart!Before(a, b) /\ ~\E c \in S : Chart!Before(a, c) /\ Chart!Before(c, b)
<1>1. /\ Points' = Points \cup {point} /\ point \notin Points
      /\ \A a \in Points : Chart!Before(a, point)
      /\ point \in Chart!Row /\ Points \subseteq Chart!Row
      /\ previous = None => Points = {}
      /\ previous # None => /\ previous \in Points
                            /\ \A a \in Points \ {previous} : Chart!Before(a, previous)
      /\ point.measured \in BOOLEAN
  BY LoopStep, RowOrder DEF ChartInvariant
<1>2. /\ \A a, b \in Chart!Row : ~(Chart!Before(a, b) /\ Chart!Before(b, a))
  BY RowOrder
<1>3. /\ \A line \in Chart!Lines : line \subseteq Points /\ point \notin line
      /\ segment \subseteq Points /\ point \notin segment
      /\ segments \subseteq Chart!Lines /\ (segment # {} => segment \in Chart!Lines)
      /\ Chart!Lines \subseteq segments \cup {segment}
  <2>1. /\ segments \subseteq Chart!Lines /\ (segment # {} => segment \in Chart!Lines)
        /\ Chart!Lines \subseteq segments \cup {segment}
    BY DEF Chart!Lines, Chart!NonEmpty
  <2>2. UNION Chart!Lines \subseteq Points
    BY DEF ChartInvariant, Chart!DrawnOnce, Chart!points, Points
  <2>3. \A line \in Chart!Lines : line \subseteq Points /\ point \notin line
    BY <2>2, <1>1
  <2> QED
    BY <2>1, <2>3
<1>4. /\ previous # None => (previous.measured <=> previous \in segment)
      /\ segment # {} => previous # None /\ previous \in segment
      /\ previous # None => previous.measured \in BOOLEAN
  BY <1>1, RowOrder DEF ChartInvariant, LoopInvariant
<1>5. ASSUME NEW a \in Points, NEW b \in Points
      PROVE  (\E line \in Chart!Lines : JoinedIn(line, a, b)) <=>
               a.measured /\ b.measured /\ Next2(Points, a, b) /\ Near(a, b)
  BY DEF ChartInvariant, Chart!LinesAreHonest, Chart!Joined, JoinedIn, Chart!points, Points
<1> SUFFICES ASSUME NEW a \in Points', NEW b \in Points'
             PROVE  (\E line \in Chart!Lines' : JoinedIn(line, a, b)) <=>
                      a.measured /\ b.measured /\ Next2(Points', a, b) /\ Near(a, b)
  BY DEF Chart!LinesAreHonest, Chart!Joined, JoinedIn, Chart!points, Points
<1> HIDE DEF Near
<1>6. CASE a = point
  <2>1. ~Chart!Before(a, b)
    BY <1>1, <1>2, <1>6
  <2> QED
    BY <2>1 DEF JoinedIn
<1>7. CASE a \in Points /\ b \in Points
  <2>1. Next2(Points', a, b) <=> Next2(Points, a, b)
    BY <1>1, <1>2, <1>7
  <2>2. (\E line \in Chart!Lines' : JoinedIn(line, a, b))
          <=> (\E line \in Chart!Lines : JoinedIn(line, a, b))
    <3>1. CASE Chart!Ends(point)
      <4>1. Chart!Lines' = Chart!Lines \cup IF point.measured THEN {{point}} ELSE {}
        BY <3>1, LinesAfter
      <4>2. ~JoinedIn({point}, a, b)
        BY <1>1, <1>7 DEF JoinedIn
      <4> QED
        BY <4>1, <4>2
    <3>2. CASE ~Chart!Ends(point)
      <4>1. Chart!Lines' = segments \cup {segment \cup {point}}
        BY <3>2, LinesAfter
      <4>2. JoinedIn(segment \cup {point}, a, b) <=> JoinedIn(segment, a, b)
        BY <1>1, <1>2, <1>7 DEF JoinedIn
      <4>3. JoinedIn(segment, a, b) => segment \in Chart!Lines
        BY <1>3 DEF JoinedIn
      <4>4. \A line : line \in Chart!Lines => line \in segments \/ line = segment
        BY <1>3
      <4>5. \A line \in segments : line \in Chart!Lines
        BY <1>3
      <4> QED
        BY <4>1, <4>2, <4>3, <4>4, <4>5
    <3> QED
      BY <3>1, <3>2
  <2> QED
    BY <1>5, <1>7, <2>1, <2>2
<1>8. CASE a \in Points /\ b = point
  <2>1. previous # None /\ previous \in Points /\ Chart!Before(a, b)
    BY <1>1, <1>8
  <2>2. CASE a # previous
    <3>1. Chart!Before(a, previous) /\ Chart!Before(previous, b)
      BY <1>1, <1>8, <2>1, <2>2
    <3>2. ~Next2(Points', a, b)
      BY <1>1, <2>1, <3>1
    <3>3. ASSUME NEW line \in Chart!Lines', JoinedIn(line, a, b) PROVE FALSE
      <4>1. CASE Chart!Ends(point)
        <5>1. line \in Chart!Lines \/ line = {point}
          BY <3>3, <4>1, LinesAfter
        <5> QED
          BY <5>1, <3>3, <1>1, <1>3, <1>8 DEF JoinedIn
      <4>2. CASE ~Chart!Ends(point)
        <5>1. line \in segments \/ line = segment \cup {point}
          BY <3>3, <4>2, LinesAfter
        <5>2. line = segment \cup {point}
          BY <5>1, <3>3, <1>3, <1>8 DEF JoinedIn
        <5>3. a \in segment
          BY <5>2, <3>3, <1>1, <1>8 DEF JoinedIn
        <5>4. previous \in line
          BY <5>2, <5>3, <1>4
        <5> QED
          BY <5>4, <3>1, <3>3 DEF JoinedIn
      <4> QED
        BY <4>1, <4>2
    <3> QED
      BY <3>2, <3>3
  <2>3. CASE a = previous
    <3>1. Next2(Points', a, b)
      BY <1>1, <1>2, <1>8, <2>1, <2>3
    <3>2. Near(a, b) <=> ~Chart!gap(point)
      <4>1. a.timestamp \in Nat /\ b.timestamp \in Nat /\ Frequency \in Nat
        BY <1>1, <1>8, RowOrder
      <4> QED
        BY <2>1, <2>3, <1>8, <4>1 DEF Near, Chart!gap, Chart!threshold
    <3>3. CASE Chart!Ends(point)
      <4>1. \A line \in Chart!Lines' : line \in Chart!Lines \/ line = {point}
        BY <3>3, LinesAfter
      <4>2. \A line \in Chart!Lines' : ~JoinedIn(line, a, b)
        BY <4>1, <1>1, <1>3, <1>8 DEF JoinedIn
      <4> QED
        BY <4>2, <3>2, <3>3, <1>8 DEF Chart!Ends
    <3>4. CASE ~Chart!Ends(point)
      <4>1. Chart!Lines' = segments \cup {segment \cup {point}}
        BY <3>4, LinesAfter
      <4>2. \A line \in segments : ~JoinedIn(line, a, b)
        BY <1>3, <1>8 DEF JoinedIn
      <4>3. JoinedIn(segment \cup {point}, a, b) <=> a \in segment
        <5>1. \A c \in segment \cup {point} : ~(Chart!Before(a, c) /\ Chart!Before(c, b))
          BY <3>1, <1>1, <1>3
        <5> QED
          BY <5>1, <2>1, <1>1, <1>8 DEF JoinedIn
      <4>4. a \in segment <=> a.measured
        BY <1>4, <2>1, <2>3
      <4>5. b.measured /\ Near(a, b)
        BY <3>2, <3>4, <1>1, <1>8 DEF Chart!Ends
      <4> QED
        BY <3>1, <4>1, <4>2, <4>3, <4>4, <4>5
    <3> QED
      BY <3>3, <3>4
  <2> QED
    BY <2>2, <2>3
<1> QED
  BY <1>1, <1>6, <1>7, <1>8

LEMMA GapsStep ==
  ASSUME ChartInvariant, NEW point \in todo, Chart!Visit(point)
  PROVE  Chart!GapsAreSilences'
<1> DEFINE times == {p.timestamp : p \in Points}
           Silences(T) == {s \in T \X T : /\ Frequency > 0 /\ s[2] - s[1] > 3 * Frequency
                                          /\ ~\E t \in T : s[1] < t /\ t < s[2]}
           after == times \cup {point.timestamp}
<1>1. /\ Points' = Points \cup {point}
      /\ \A a \in Points : Chart!Before(a, point)
      /\ point \in Chart!Row /\ Points \subseteq Chart!Row
      /\ previous = None => Points = {}
      /\ previous # None => /\ previous \in Points
                            /\ \A a \in Points \ {previous} : Chart!Before(a, previous)
  BY LoopStep DEF ChartInvariant
<1>2. /\ Frequency \in Nat /\ point.timestamp \in Nat
      /\ \A t \in times : t \in Nat /\ t <= point.timestamp
      /\ previous = None => times = {}
      /\ previous # None => /\ previous.timestamp \in times
                            /\ \A t \in times : t <= previous.timestamp
  BY <1>1, RowOrder
<1>3. {p.timestamp : p \in Points'} = after
  BY <1>1
<1>4. gaps = Silences(times)
  BY DEF ChartInvariant, Chart!GapsAreSilences, Chart!points, Points
<1>5. gaps' = gaps \cup IF Chart!gap(point) THEN {<<previous.timestamp, point.timestamp>>} ELSE {}
  BY DEF Chart!Visit
<1> HIDE DEF times
<1>6. Silences(after) =
        Silences(times) \cup IF Chart!gap(point) THEN {<<previous.timestamp, point.timestamp>>} ELSE {}
  <2>1. ASSUME NEW s \in times \X times
        PROVE  s \in Silences(after) <=> s \in Silences(times)
    BY <1>2, <2>1
  <2>2. ASSUME NEW s \in after \X after, s \notin times \X times
        PROVE  s \in Silences(after) <=> Chart!gap(point) /\ s = <<previous.timestamp, point.timestamp>>
    <3>1. s[1] = point.timestamp \/ (s[1] \in times /\ s[2] = point.timestamp)
      BY <2>2
    <3>2. CASE s[1] = point.timestamp
      <4>1. ~(s[2] - s[1] > 3 * Frequency)
        BY <3>2, <2>2, <1>2
      <4> QED
        BY <4>1, <3>2, <2>2, <1>2 DEF Chart!gap, Chart!threshold
    <3>3. CASE s[1] \in times /\ s[2] = point.timestamp
      <4>1. previous # None /\ previous.timestamp \in times /\ \A t \in times : t <= previous.timestamp
        BY <3>3, <1>2
      <4>2. CASE s[1] = previous.timestamp
        BY <4>1, <4>2, <3>3, <2>2, <1>2 DEF Chart!gap, Chart!threshold
      <4>3. CASE s[1] # previous.timestamp
        <5>1. s[1] < previous.timestamp
          BY <4>1, <4>3, <3>3, <1>2
        <5>2. CASE previous.timestamp < point.timestamp
          BY <5>1, <5>2, <4>1, <3>3, <1>2
        <5>3. CASE previous.timestamp = point.timestamp
          BY <5>3, <4>1, <3>3, <2>2
        <5> QED
          BY <5>2, <5>3, <4>1, <1>2
      <4> QED
        BY <4>2, <4>3
    <3> QED
      BY <3>1, <3>2, <3>3
  <2>3. Chart!gap(point) =>
          /\ <<previous.timestamp, point.timestamp>> \in after \X after
          /\ <<previous.timestamp, point.timestamp>> \notin times \X times
    BY <1>2 DEF Chart!gap, Chart!threshold
  <2>4. Silences(after) \subseteq after \X after /\ Silences(times) \subseteq times \X times
        /\ times \X times \subseteq after \X after
    OBVIOUS
  <2> HIDE DEF Silences, after
  <2> QED
    BY <2>1, <2>2, <2>3, <2>4
<1> QED
  BY <1>3, <1>4, <1>5, <1>6 DEF Chart!GapsAreSilences, Chart!points, Points
LEMMA ChartInit == Chart!Init => ChartInvariant
<1> SUFFICES ASSUME Chart!Init PROVE ChartInvariant
  OBVIOUS
<1> USE DEF Chart!Init
<1>1. LoopInvariant
  BY DEF LoopInvariant, Points
<1>2. Points = {} /\ Chart!Lines = {} /\ gaps = {}
  BY DEF Points, Chart!Lines, Chart!NonEmpty
<1>3. Chart!LinesAreHonest /\ Chart!DrawnOnce /\ Chart!GapsAreSilences
  BY <1>2 DEF Chart!LinesAreHonest, Chart!DrawnOnce, Chart!GapsAreSilences, Chart!points, Points
<1> QED
  BY <1>1, <1>3 DEF ChartInvariant

\* Loading changes no point, as long as the loop has not begun.
LEMMA LoadRows == ChartInvariant /\ Chart!Load => ChartInvariant'
<1> SUFFICES ASSUME ChartInvariant, Chart!Load PROVE ChartInvariant'
  OBVIOUS
<1>1. PICK row \in Chart!Row :
        /\ \A other \in rows : other.id # row.id
        /\ rows' = rows \cup {row} /\ todo' = todo \cup {row}
  BY DEF Chart!Load
<1>2. todo = rows /\ UNCHANGED <<previous, segments, segment, gaps>>
  BY DEF Chart!Load
<1>3. Points = {} /\ Points' = {}
  BY <1>1, <1>2 DEF Points
<1>4. LoopInvariant'
  BY <1>1, <1>2, <1>3 DEF LoopInvariant, ChartInvariant
<1>5. Chart!Lines' = Chart!Lines /\ segments' = segments /\ segment' = segment /\ gaps' = gaps
  BY <1>2 DEF Chart!Lines, Chart!NonEmpty
<1>6. Chart!points = {} /\ Chart!points' = {}
  BY <1>3 DEF Chart!points, Points
<1> QED
  BY <1>4, <1>5, <1>6
     DEF ChartInvariant, Chart!LinesAreHonest, Chart!Joined, Chart!DrawnOnce, Chart!GapsAreSilences

LEMMA ChartNext == ChartInvariant /\ [Chart!Next]_chartVars => ChartInvariant'
<1> SUFFICES ASSUME ChartInvariant, [Chart!Next]_chartVars PROVE ChartInvariant'
  OBVIOUS
<1>1. ASSUME NEW point \in todo, Chart!Visit(point) PROVE ChartInvariant'
  BY <1>1, LoopStep, LinesStep, HonestStep, GapsStep DEF ChartInvariant
<1>2. CASE UNCHANGED chartVars
  BY <1>2 DEF chartVars, ChartInvariant, LoopInvariant, Points, Chart!LinesAreHonest,
              Chart!Joined, Chart!Lines, Chart!NonEmpty, Chart!DrawnOnce,
              Chart!GapsAreSilences, Chart!points
<1> QED
  BY <1>1, <1>2, LoadRows DEF Chart!Next

\* For any rows, any frequency and any number of rows: no line is drawn over an
\* outage or a silence, every measured row is drawn once, and a gap stands for each
\* silence (buildLatencyChartGeometry).
THEOREM ChartCorrect == AllSpec => []ChartFaithful
<1>1. AllInit => ChartInvariant
  BY ChartInit DEF AllInit
<1>2. ChartInvariant /\ [AllNext]_allVars => ChartInvariant'
  <2>1. [AllNext]_allVars => [Chart!Next]_chartVars
    BY DEF AllNext, allVars
  <2> QED
    BY <2>1, ChartNext
<1>3. ChartInvariant => ChartFaithful
  BY DEF ChartInvariant, ChartFaithful
<1> QED
  BY <1>1, <1>2, <1>3, PTL DEF AllSpec

-----------------------------------------------------------------------------
(* The summary *)

SummaryInvariant ==
    /\ measured \in Nat /\ latencies \in [Summary!Places -> Nat]
    /\ \A i, j \in Summary!Places : i <= j => latencies[i] <= latencies[j]

LEMMA SameCardinality == \A S : Summary!Cardinality(S) = Cardinality(S)
BY DEF Summary!Cardinality, Cardinality

\* A latency comes after those that are not greater, which are the first ones.
LEMMA Sorted ==
  ASSUME SummaryInvariant, NEW l \in Nat
  PROVE  LET place == Summary!PlaceOf(l) IN
         /\ place \in 0..measured
         /\ \A i \in Summary!Places : latencies[i] <= l <=> i < place
<1> DEFINE S == {i \in Summary!Places : latencies[i] <= l}
<1>0. Summary!Places = 0..(measured - 1) /\ measured \in Nat /\ latencies \in [Summary!Places -> Nat]
  BY DEF SummaryInvariant, Summary!Places
<1>1. Summary!PlaceOf(l) = Cardinality(S)
  BY SameCardinality DEF Summary!PlaceOf
<1>2. S \in SUBSET Summary!Places /\ IsFiniteSet(S) /\ Cardinality(S) \in 0..measured
  <2>1. IsFiniteSet(0..(measured - 1)) /\ Cardinality(0..(measured - 1)) = measured
    <3>1. Cardinality(0..(measured - 1)) = IF 0 > measured - 1 THEN 0 ELSE (measured - 1) - 0 + 1
      BY <1>0, FS_Interval
    <3> QED
      BY <1>0, <3>1, FS_Interval
  <2>2. S \in SUBSET (0..(measured - 1))
    BY <1>0
  <2>3. IsFiniteSet(S) /\ Cardinality(S) <= Cardinality(0..(measured - 1)) /\ Cardinality(S) \in Nat
    BY <2>1, <2>2, FS_Subset, FS_CardinalityType
  <2> QED
    BY <1>0, <2>1, <2>2, <2>3
<1>3. ASSUME NEW i \in Summary!Places PROVE latencies[i] <= l <=> i < Cardinality(S)
  <2>0. i \in Nat /\ i < measured /\ latencies[i] \in Nat
    BY <1>0
  <2>1. CASE latencies[i] <= l
    <3>1. 0..i \in SUBSET S
      BY <1>0, <2>0, <2>1 DEF SummaryInvariant
    <3>2. Cardinality(0..i) <= Cardinality(S)
      BY <1>2, <3>1, FS_Subset
    <3>3. Cardinality(0..i) = IF 0 > i THEN 0 ELSE i - 0 + 1
      BY <2>0, FS_Interval
    <3> QED
      BY <1>2, <2>0, <2>1, <3>2, <3>3
  <2>2. CASE ~(latencies[i] <= l)
    <3>1. S \in SUBSET (0..(i - 1))
      <4> SUFFICES ASSUME NEW j \in S PROVE j \in 0..(i - 1)
        OBVIOUS
      <4>1. ~(i <= j)
        BY <1>0, <2>0, <2>2 DEF SummaryInvariant
      <4> QED
        BY <1>0, <2>0, <4>1
    <3>2. /\ IsFiniteSet(0..(i - 1))
          /\ Cardinality(0..(i - 1)) = IF 0 > i - 1 THEN 0 ELSE (i - 1) - 0 + 1
      <4>1. 0 \in Int /\ i - 1 \in Int
        BY <2>0
      <4> QED
        BY <4>1, FS_Interval
    <3>3. Cardinality(S) <= Cardinality(0..(i - 1))
      BY <3>1, <3>2, FS_Subset
    <3> QED
      BY <1>2, <2>0, <2>2, <3>2, <3>3
  <2> QED
    BY <2>1, <2>2
<1> QED
  BY <1>1, <1>2, <1>3

\* What a set of places holds, from below and from above.
LEMMA Counting ==
  ASSUME measured \in Nat, NEW S \in SUBSET Summary!Places, NEW a \in 0..measured,
         NEW b \in 0..measured, a <= b
  PROVE  /\ Cardinality(S) \in Nat
         /\ a..(b - 1) \subseteq S => Cardinality(S) >= b - a
         /\ S \subseteq a..(b - 1) => Cardinality(S) <= b - a
<1>1. IsFiniteSet(0..(measured - 1)) /\ S \in SUBSET (0..(measured - 1))
  BY FS_Interval DEF Summary!Places
<1>2. IsFiniteSet(S) /\ Cardinality(S) \in Nat
  BY <1>1, FS_Subset, FS_CardinalityType
<1>3. IsFiniteSet(a..(b - 1)) /\ Cardinality(a..(b - 1)) = b - a
  <2>1. Cardinality(a..(b - 1)) = IF a > b - 1 THEN 0 ELSE (b - 1) - a + 1
    BY FS_Interval
  <2>2. IsFiniteSet(a..(b - 1))
    BY FS_Interval
  <2> QED
    BY <2>1, <2>2
<1>4. a..(b - 1) \subseteq S => Cardinality(a..(b - 1)) <= Cardinality(S)
  BY <1>2, FS_Subset
<1>5. S \subseteq a..(b - 1) => Cardinality(S) <= Cardinality(a..(b - 1))
  BY <1>3, FS_Subset
<1> QED
  BY <1>2, <1>3, <1>4, <1>5

\* A row more leaves the latencies sorted.
LEMMA LoadLatency ==
  ASSUME SummaryInvariant, NEW l \in Latencies \cup {None}, Summary!Load(l)
  PROVE  SummaryInvariant'
<1>1. CASE l = None
  BY <1>1 DEF Summary!Load, SummaryInvariant, Summary!Places
<1>2. CASE l # None
  <2> DEFINE place == Summary!PlaceOf(l)
  <2>1. l \in Nat
    BY <1>2, FiguresAssumption DEF Summary!SummaryAssumption
  <2>2. /\ place \in 0..measured /\ measured \in Nat
        /\ \A i \in Summary!Places : latencies[i] <= l <=> i < place
    BY <2>1, Sorted DEF SummaryInvariant
  <2> HIDE DEF place
  <2>3. /\ measured' = measured + 1
        /\ latencies' = [i \in 0..measured |->
              CASE i < place -> latencies[i]
                [] i = place -> l
                [] i > place -> latencies[i - 1]]
    BY <1>2 DEF Summary!Load, place
  <2>4. Summary!Places' = 0..measured /\ Summary!Places = 0..(measured - 1)
    BY <2>2, <2>3 DEF Summary!Places
  <2>5. \A i \in 0..measured :
          /\ i < place => latencies'[i] = latencies[i]
          /\ i = place => latencies'[i] = l
          /\ i > place => latencies'[i] = latencies[i - 1]
    BY <2>2, <2>3
  <2>6. \A i \in 0..measured : latencies'[i] \in Nat
    BY <2>1, <2>2, <2>4, <2>5 DEF SummaryInvariant
  <2>7. latencies' \in [Summary!Places' -> Nat]
    BY <2>3, <2>4, <2>6
  <2>8. ASSUME NEW i \in 0..measured, NEW j \in 0..measured, i <= j
        PROVE  latencies'[i] <= latencies'[j]
    <3>1. \A x, y \in Summary!Places : x <= y => latencies[x] <= latencies[y]
      BY DEF SummaryInvariant
    <3>2. CASE j < place
      BY <2>2, <2>4, <2>5, <2>8, <3>1, <3>2
    <3>3. CASE i > place
      BY <2>2, <2>4, <2>5, <2>8, <3>1, <3>3
    <3>4. CASE i < place /\ j = place
      BY <2>1, <2>2, <2>4, <2>5, <2>8, <3>4
    <3>5. CASE i < place /\ j > place
      BY <2>2, <2>4, <2>5, <2>8, <3>1, <3>5
    <3>6. CASE i = place /\ j > place
      <4>1. j - 1 \in Summary!Places /\ ~(j - 1 < place)
        BY <2>2, <2>4, <3>6
      <4>2. ~(latencies[j - 1] <= l) /\ latencies[j - 1] \in Nat
        BY <2>2, <4>1 DEF SummaryInvariant
      <4> QED
        BY <2>1, <2>5, <3>6, <4>2
    <3>7. CASE i = place /\ j = place
      BY <2>1, <2>5, <3>7
    <3> QED
      BY <2>2, <2>8, <3>2, <3>3, <3>4, <3>5, <3>6, <3>7
  <2> QED
    BY <2>2, <2>3, <2>4, <2>7, <2>8 DEF SummaryInvariant
<1> QED
  BY <1>1, <1>2

\* Of sorted latencies, the one at ceil(0.95 n) - 1 has the nearest rank.
LEMMA NearestRank == SummaryInvariant => Summary!P95IsNearestRank
<1> SUFFICES ASSUME SummaryInvariant, measured > 0
             PROVE  LET p == Summary!p95LatencyMs IN
                    /\ \E i \in Summary!Places : latencies[i] = p
                    /\ 100 * Cardinality({i \in Summary!Places : latencies[i] <= p}) >= 95 * measured
                    /\ 100 * Cardinality({i \in Summary!Places : latencies[i] < p}) < 95 * measured
  BY SameCardinality DEF Summary!P95IsNearestRank
<1> DEFINE k == (95 * measured + 99) \div 100 - 1
           p == Summary!p95LatencyMs
           atMost == {i \in Summary!Places : latencies[i] <= p}
           below == {i \in Summary!Places : latencies[i] < p}
<1>1. /\ measured \in Nat /\ Summary!Places = 0..(measured - 1)
      /\ latencies \in [Summary!Places -> Nat]
      /\ \A i, j \in Summary!Places : i <= j => latencies[i] <= latencies[j]
  BY DEF SummaryInvariant, Summary!Places
<1>2. k \in Nat /\ k < measured /\ 100 * (k + 1) >= 95 * measured /\ 100 * k < 95 * measured
  BY <1>1
<1>3. p = latencies[k]
  BY <1>1 DEF Summary!p95LatencyMs
<1> HIDE DEF k, p
<1>4. 0..((k + 1) - 1) \subseteq atMost
  BY <1>1, <1>2, <1>3
<1>5. below \subseteq 0..(k - 1)
  <2> SUFFICES ASSUME NEW i \in below PROVE i \in 0..(k - 1)
    OBVIOUS
  <2>1. ~(k <= i)
    BY <1>1, <1>2, <1>3
  <2> QED
    BY <1>1, <1>2, <2>1
<1>6. Cardinality(atMost) >= k + 1 /\ Cardinality(atMost) \in Nat
  <2>1. atMost \in SUBSET Summary!Places /\ 0 \in 0..measured /\ k + 1 \in 0..measured /\ 0 <= k + 1
    BY <1>1, <1>2
  <2> HIDE DEF atMost
  <2>2. Cardinality(atMost) >= (k + 1) - 0 /\ Cardinality(atMost) \in Nat
    BY <1>1, <1>4, <2>1, Counting
  <2> QED
    BY <1>2, <2>2
<1>7. Cardinality(below) <= k /\ Cardinality(below) \in Nat
  <2>1. below \in SUBSET Summary!Places /\ 0 \in 0..measured /\ k \in 0..measured /\ 0 <= k
    BY <1>1, <1>2
  <2> HIDE DEF below
  <2>2. Cardinality(below) <= k - 0 /\ Cardinality(below) \in Nat
    BY <1>1, <1>5, <2>1, Counting
  <2> QED
    BY <1>2, <2>2
<1>8. \E i \in Summary!Places : latencies[i] = p
  BY <1>1, <1>2, <1>3
<1> HIDE DEF atMost, below
<1>9. 100 * Cardinality(atMost) >= 95 * measured /\ 100 * Cardinality(below) < 95 * measured
  BY <1>1, <1>2, <1>6, <1>7
<1> QED
  BY <1>8, <1>9 DEF atMost, below, p

\* Of sorted latencies, the places about the middle have the median.
LEMMA Median == SummaryInvariant => Summary!MedianInTheMiddle
<1> SUFFICES ASSUME SummaryInvariant, measured > 0
             PROVE  LET m == Summary!medianTwice IN
                    /\ 2 * Cardinality({i \in Summary!Places : 2 * latencies[i] <= m}) >= measured
                    /\ 2 * Cardinality({i \in Summary!Places : 2 * latencies[i] >= m}) >= measured
                    /\ \E i, j \in Summary!Places :
                          /\ 2 * latencies[i] <= m /\ m <= 2 * latencies[j]
                          /\ m = latencies[i] + latencies[j]
                          /\ ~\E x \in Summary!Places :
                                latencies[i] < latencies[x] /\ latencies[x] < latencies[j]
  BY SameCardinality DEF Summary!MedianInTheMiddle
<1> DEFINE m == Summary!medianTwice
           atMost == {i \in Summary!Places : 2 * latencies[i] <= m}
           atLeast == {i \in Summary!Places : 2 * latencies[i] >= m}
<1>1. /\ measured \in Nat /\ Summary!Places = 0..(measured - 1)
      /\ latencies \in [Summary!Places -> Nat]
      /\ \A i, j \in Summary!Places : i <= j => latencies[i] <= latencies[j]
  BY DEF SummaryInvariant, Summary!Places
\* The two places about the middle, or twice the one.
<1>2. PICK a, b \in Summary!Places :
        /\ a <= b /\ b <= a + 1 /\ a + b = measured - 1
        /\ m = latencies[a] + latencies[b]
  <2> DEFINE middle == measured \div 2
  <2>1. CASE measured % 2 = 0
    <3>1. middle - 1 \in Summary!Places /\ middle \in Summary!Places
          /\ (middle - 1) + middle = measured - 1
      BY <1>1, <2>1
    <3>2. m = latencies[middle - 1] + latencies[middle]
      BY <1>1, <2>1 DEF Summary!medianTwice
    <3> HIDE DEF m, middle
    <3> QED
      BY <1>1, <3>1, <3>2
  <2>2. CASE measured % 2 # 0
    <3>1. middle \in Summary!Places /\ middle + middle = measured - 1
      BY <1>1, <2>2
    <3>2. m = 2 * latencies[middle]
      BY <1>1, <2>2 DEF Summary!medianTwice
    <3> HIDE DEF m, middle
    <3>3. latencies[middle] \in Nat
      BY <1>1, <3>1
    <3>4. m = latencies[middle] + latencies[middle]
      BY <3>2, <3>3
    <3> QED
      BY <1>1, <3>1, <3>4
  <2> QED
    BY <2>1, <2>2
<1> HIDE DEF m
<1>3. /\ a \in Nat /\ b \in Nat /\ a < measured /\ b < measured
      /\ latencies[a] \in Nat /\ latencies[b] \in Nat /\ latencies[a] <= latencies[b]
  BY <1>1, <1>2
<1>5. 0..((a + 1) - 1) \subseteq atMost /\ b..(measured - 1) \subseteq atLeast
  BY <1>1, <1>2, <1>3
<1>6. Cardinality(atMost) >= a + 1 /\ Cardinality(atMost) \in Nat
  <2>1. atMost \in SUBSET Summary!Places /\ 0 \in 0..measured /\ a + 1 \in 0..measured /\ 0 <= a + 1
    BY <1>1, <1>3
  <2> HIDE DEF atMost
  <2>2. Cardinality(atMost) >= (a + 1) - 0 /\ Cardinality(atMost) \in Nat
    BY <1>1, <1>5, <2>1, Counting
  <2> QED
    BY <1>3, <2>2
<1>7. Cardinality(atLeast) >= measured - b /\ Cardinality(atLeast) \in Nat
  <2>1. atLeast \in SUBSET Summary!Places /\ b \in 0..measured /\ measured \in 0..measured /\ b <= measured
    BY <1>1, <1>3
  <2> HIDE DEF atLeast
  <2> QED
    BY <1>1, <1>5, <2>1, Counting
<1>8. /\ 2 * latencies[a] <= m /\ m <= 2 * latencies[b]
      /\ ~\E x \in Summary!Places : latencies[a] < latencies[x] /\ latencies[x] < latencies[b]
  <2>1. 2 * latencies[a] <= m /\ m <= 2 * latencies[b]
    BY <1>2, <1>3
  <2>2. ASSUME NEW x \in Summary!Places
        PROVE  ~(latencies[a] < latencies[x] /\ latencies[x] < latencies[b])
    <3>1. x <= a \/ b <= x
      BY <1>1, <1>2, <1>3
    <3> QED
      BY <3>1, <1>1, <1>3
  <2> QED
    BY <2>1, <2>2
<1> HIDE DEF atMost, atLeast
<1>9. 2 * Cardinality(atMost) >= measured /\ 2 * Cardinality(atLeast) >= measured
  BY <1>1, <1>2, <1>3, <1>6, <1>7
<1> QED
  BY <1>2, <1>8, <1>9 DEF atMost, atLeast, m

\* For any latencies and any number of rows: the percentile is the nearest rank, and
\* half of the measured rows lie on either side of the median (summarizeMonitorHistory).
THEOREM SummaryCorrect == AllSpec => []SummaryExact
<1>1. AllInit => SummaryInvariant
  <2> SUFFICES ASSUME Summary!Init PROVE SummaryInvariant
    BY DEF AllInit
  <2>1. Summary!Places = {} /\ measured = 0 /\ latencies = [i \in {} |-> 0]
    BY DEF Summary!Init, Summary!Places
  <2> QED
    BY <2>1 DEF SummaryInvariant
<1>2. SummaryInvariant /\ [AllNext]_allVars => SummaryInvariant'
  <2> SUFFICES ASSUME SummaryInvariant, [AllNext]_allVars PROVE SummaryInvariant'
    OBVIOUS
  <2>1. Summary!Next \/ UNCHANGED summaryVars
    BY DEF AllNext, allVars
  <2>2. CASE UNCHANGED summaryVars
    BY <2>2 DEF summaryVars, SummaryInvariant, Summary!Places
  <2> QED
    BY <2>1, <2>2, LoadLatency DEF Summary!Next
<1>3. SummaryInvariant => SummaryExact
  BY NearestRank, Median DEF SummaryExact
<1> QED
  BY <1>1, <1>2, <1>3, PTL DEF AllSpec
=============================================================================
