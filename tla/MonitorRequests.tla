--------------------------- MODULE MonitorRequests ---------------------------
(***************************************************************************)
(* The monitors API as two accounts see it.  Every request on one monitor  *)
(* takes two database calls: one that finds the monitor, and one that      *)
(* reads or writes; the other requests, the worker's checks, the demo reset *)
(* and the demo seed come in between.  The status seed is left out: it     *)
(* writes only the monitors of a disabled account, which sends no request. *)
(* The quota of create is in MonitorQuota.                                 *)
(***************************************************************************)
EXTENDS Naturals, FiniteSets

CONSTANTS
    Users,
    Demo,           \* the accounts with is_demo
    Requests,       \* bound: requests in flight at once
    MaxId,          \* bound: monitors ever created
    MaxRows,        \* bound: rows of a monitor in each of the child tables
    Limit,          \* the page size a request asks for
    Names, Frequencies,     \* of monitors
    MinFrequency, DemoMinFrequency,
    Verdicts,       \* what a check finds
    None            \* a field a PATCH leaves out

ASSUME RequestsAssumption ==
    /\ Demo \subseteq Users /\ Users # {} /\ Names # {} /\ Frequencies # {}
    /\ MaxId \in Nat \ {0} /\ MaxRows \in Nat /\ Limit \in Nat
    /\ Frequencies \subseteq Nat
    /\ None \notin Names /\ None \notin Frequencies

VARIABLES
    lastId,         \* the sequence of the ids, which gives none twice
    exists,         \* ids of the rows of monitor
    row,            \* row[id]: the monitor, as it was last
    children,       \* children[id]: numbers of rows in check_result and alert
    seeded,         \* ids of the rows with a seed_key
    request,        \* request[r]
    page,           \* the last page of rows answered, and to whom
    refused,        \* pairs of an account and an id it was told 403 or 404 of
    deletions,      \* deletions[id]: times the API answered "deleted"
    told,           \* told[id]: per column, the value its own writer gave it last
    requested       \* ids whose frequency a request wrote last

tables == <<lastId, exists, row, children, seeded>>
observed == <<page, refused, deletions, told, requested>>
vars == <<tables, request, observed>>

Ids == 1..MaxId
Tables == {"check_result", "alert"}
Monitors == [user : Users, name : Names, frequency : Frequencies, last_state : {"none"} \cup Verdicts]
Patches == [name : Names \cup {None}, frequency : Frequencies \cup {None}]
Idle == [op |-> "none"]

Init ==
    /\ lastId = 0 /\ exists = {}
    /\ row \in [Ids -> {CHOOSE m \in Monitors : TRUE}]
    /\ children = [id \in Ids |-> [t \in Tables |-> 0]]
    /\ seeded = {} /\ requested = {}
    /\ request = [r \in Requests |-> Idle]
    /\ page = [user |-> None, rows |-> {}]
    /\ refused = {} /\ deletions = [id \in Ids |-> 0] /\ told = row

Owns(u, id) == id \in exists /\ row[id].user = u

MinOf(u) == IF u \in Demo THEN DemoMinFrequency ELSE MinFrequency

\* MUTANT: the default frequency of CreateMonitorDto applies to a PATCH too.
ChangedWithDefault(m, dto) ==
    [m EXCEPT !.name = IF dto.name = None THEN @ ELSE dto.name,
              !.frequency = IF dto.frequency = None
                            THEN CHOOSE f \in Frequencies : f >= MinOf(m.user)
                            ELSE dto.frequency]

\* The fields of the row that a PATCH names; the others stay.
Changed(m, dto) ==
    [m EXCEPT !.name = IF dto.name = None THEN @ ELSE dto.name,
              !.frequency = IF dto.frequency = None THEN @ ELSE dto.frequency]

\* The newest rows of a child table; its rows are numbered from the oldest.
Newest(id, t) == {<<id, k>> : k \in {n \in 1..children[id][t] : n + Limit > children[id][t]}}

-----------------------------------------------------------------------------
(* Requests *)

Answer(r) == request' = [request EXCEPT ![r] = Idle]
AwaitIn(r, q) == request' = [request EXCEPT ![r] = q]

\* 404 or 403: what a page takes as the last word on that monitor.
Refuse(u, id) ==
    refused' = IF id <= lastId THEN refused \cup {<<u, id>>} ELSE refused

InsertRow(m) ==
    /\ lastId < MaxId
    /\ lastId' = lastId + 1
    /\ exists' = exists \cup {lastId'}
    /\ row' = [row EXCEPT ![lastId'] = m]
    /\ told' = [told EXCEPT ![lastId'] = m]
    /\ UNCHANGED children

createMonitor(u, name, frequency) ==
    /\ frequency >= MinOf(u)
    /\ InsertRow([user |-> u, name |-> name, frequency |-> frequency,
                  last_state |-> "none"])
    /\ requested' = requested \cup {lastId'}
    /\ UNCHANGED <<seeded, request, page, refused, deletions>>

getMonitorsByUser(u) ==
    /\ page' = [user |-> u, rows |-> {<<id, 0>> : id \in {i \in exists : Owns(u, i)}}]
    /\ UNCHANGED <<tables, request, refused, deletions, told, requested>>

\* findFirst with the id and the account, for PATCH and DELETE.
FindOwned(r, q) ==
    /\ request[r] = Idle
    /\ \/ Owns(q.user, q.id) /\ AwaitIn(r, q) /\ UNCHANGED refused
       \/ ~Owns(q.user, q.id) /\ Refuse(q.user, q.id) /\ UNCHANGED request
    /\ UNCHANGED <<tables, page, deletions, told, requested>>

updateMonitor(r, u, id, dto) ==
    FindOwned(r, [op |-> "update", user |-> u, id |-> id, dto |-> dto])

deleteMonitor(r, u, id) ==
    FindOwned(r, [op |-> "delete", user |-> u, id |-> id])

\* The frequency is judged after the row was found; a refusal changes nothing.
FrequencyAllowed(q) ==
    q.dto.frequency \in {None} \cup {f \in Frequencies : f >= MinOf(q.user)}

\* monitor.update by id alone; without the row Prisma throws, which nothing
\* catches: 500.
UpdateRow(r) ==
    LET q == request[r] IN
    /\ q.op = "update"
    /\ Answer(r)
    /\ \/ /\ ~FrequencyAllowed(q) \/ q.id \notin exists
          /\ UNCHANGED <<row, told, requested>>
       \/ /\ FrequencyAllowed(q) /\ q.id \in exists
          /\ row' = [row EXCEPT ![q.id] = Changed(@, q.dto)]
          /\ told' = [told EXCEPT
                ![q.id].name = IF q.dto.name = None THEN @ ELSE q.dto.name,
                ![q.id].frequency = IF q.dto.frequency = None THEN @ ELSE q.dto.frequency]
          /\ requested' = IF q.dto.frequency = None THEN requested ELSE requested \cup {q.id}
    /\ UNCHANGED <<lastId, exists, children, seeded, page, refused, deletions>>

\* The transaction: both child tables, then the row, which is missing when
\* another request or the reset was first: rolled back, and 500.
RemoveRow(r) ==
    LET q == request[r] IN
    /\ q.op = "delete"
    /\ Answer(r)
    /\ \/ /\ q.id \in exists
          /\ exists' = exists \ {q.id}
          /\ children' = [children EXCEPT ![q.id] = [t \in Tables |-> 0]]
          /\ deletions' = [deletions EXCEPT ![q.id] = @ + 1]
          /\ seeded' = seeded \ {q.id} /\ requested' = requested \ {q.id}
       \/ /\ q.id \notin exists
          /\ UNCHANGED <<exists, children, deletions, seeded, requested>>
    /\ UNCHANGED <<lastId, row, page, refused, told>>

\* MUTANT: the lookup does not compare the account.
FindForPageAnyone(r, u, id, t) ==
    /\ request[r] = Idle
    /\ \/ id \in exists /\ AwaitIn(r, [op |-> t, user |-> u, id |-> id])
          /\ UNCHANGED refused
       \/ id \notin exists /\ Refuse(u, id) /\ UNCHANGED request
    /\ UNCHANGED <<tables, page, deletions, told, requested>>

\* getMonitorById, and the account compared in memory: 404, 403 or go on.
FindForPage(r, u, id, t) ==
    /\ request[r] = Idle
    /\ \/ Owns(u, id) /\ AwaitIn(r, [op |-> t, user |-> u, id |-> id])
          /\ UNCHANGED refused
       \/ ~Owns(u, id) /\ Refuse(u, id) /\ UNCHANGED request
    /\ UNCHANGED <<tables, page, deletions, told, requested>>

getHistory(r, u, id) == FindForPage(r, u, id, "check_result")
getAlerts(r, u, id) == FindForPage(r, u, id, "alert")

\* The page: whatever rows the monitor still has.
ReadPage(r) ==
    LET q == request[r] IN
    /\ q.op \in Tables
    /\ Answer(r)
    /\ page' = [user |-> q.user, rows |-> Newest(q.id, q.op)]
    /\ UNCHANGED <<tables, refused, deletions, told, requested>>

-----------------------------------------------------------------------------
(* The worker, and the demo seed *)

\* A check: its result, the state it gives the monitor, perhaps an alert.
\* Retention takes a row back when there are too many.
WorkerCheck(id, s, alerts) ==
    /\ id \in exists
    /\ row' = [row EXCEPT ![id].last_state = s]
    /\ told' = [told EXCEPT ![id].last_state = s]
    /\ children' = [children EXCEPT
          ![id].check_result = IF @ < MaxRows THEN @ + 1 ELSE @,
          ![id].alert = IF alerts /\ @ < MaxRows THEN @ + 1 ELSE @]
    /\ UNCHANGED <<lastId, exists, seeded, request, page, refused, deletions, requested>>

\* Of the frequencies in the manifest both its readers ask at most that they are
\* more than 0.
ManifestFrequencies == {f \in Frequencies : f > 0}

\* The demo account's monitors are replaced by those of the manifest, here one.
DemoReset(u) ==
    LET own == {id \in exists : Owns(u, id)} IN
    /\ u \in Demo
    /\ lastId < MaxId
    /\ \E name \in Names, frequency \in ManifestFrequencies :
          LET m == [user |-> u, name |-> name, frequency |-> frequency,
                    last_state |-> "none"] IN
          /\ row' = [row EXCEPT ![lastId + 1] = m]
          /\ told' = [told EXCEPT ![lastId + 1] = m]
    /\ lastId' = lastId + 1
    /\ exists' = (exists \ own) \cup {lastId'}
    /\ children' = [id \in Ids |-> IF id \in own THEN [t \in Tables |-> 0] ELSE children[id]]
    /\ seeded' = (seeded \ own) \cup {lastId'} /\ requested' = requested \ own
    /\ UNCHANGED <<request, page, refused, deletions>>

\* The seed's upsert by account and seed_key writes over the name and the frequency
\* that a PATCH gave a seeded monitor, or creates one, which may be the second
\* after a deletion.
DemoSeed(u) ==
    /\ u \in Demo
    /\ \E name \in Names, frequency \in ManifestFrequencies :
          \/ \E id \in seeded :
                /\ Owns(u, id)
                /\ row' = [row EXCEPT ![id].name = name, ![id].frequency = frequency]
                /\ told' = [told EXCEPT ![id].name = name, ![id].frequency = frequency]
                /\ requested' = requested \ {id}
                /\ UNCHANGED <<lastId, exists, children, seeded>>
          \/ /\ \A id \in seeded : ~Owns(u, id)
             /\ InsertRow([user |-> u, name |-> name, frequency |-> frequency,
                           last_state |-> "none"])
             /\ seeded' = seeded \cup {lastId'}
             /\ UNCHANGED requested
    /\ UNCHANGED <<request, page, refused, deletions>>

Next ==
    \/ \E u \in Users :
          \/ getMonitorsByUser(u) \/ DemoReset(u) \/ DemoSeed(u)
          \/ \E name \in Names, frequency \in Frequencies : createMonitor(u, name, frequency)
          \/ \E r \in Requests, id \in Ids :
                \/ \E dto \in Patches : updateMonitor(r, u, id, dto)
                \/ deleteMonitor(r, u, id)
                \/ getHistory(r, u, id) \/ getAlerts(r, u, id)
    \/ \E r \in Requests : UpdateRow(r) \/ RemoveRow(r) \/ ReadPage(r)
    \/ \E id \in Ids, s \in Verdicts, alerts \in BOOLEAN :
          WorkerCheck(id, s, alerts)

Spec == Init /\ [][Next]_vars

-----------------------------------------------------------------------------
(* Properties *)

\* The types; a page and a child row belong to an id that was given.
TypeOK ==
    /\ lastId \in 0..MaxId /\ exists \subseteq 1..lastId
    /\ row \in [Ids -> Monitors] /\ told \in [Ids -> Monitors]
    /\ children \in [Ids -> [Tables -> 0..MaxRows]]
    /\ \A id \in Ids \ exists, t \in Tables : children[id][t] = 0
    /\ seeded \subseteq exists /\ requested \subseteq exists
    /\ \A x \in page.rows : x[1] \in 1..lastId

\* No answer holds a row of a monitor of another account, however the lookup
\* and the query of a request are interleaved with deletions and resets
\* (getMonitorsByUser, getHistory, getAlerts).
OnlyOwnRows == \A x \in page.rows : row[x[1]].user = page.user

\* An account that was told 404 or 403 of a monitor never owns it afterwards.
\* The history page relies on it: it stops polling for good on such an answer
\* (useMonitorHistory, terminalFailure).
NotFoundIsFinal == \A x \in refused : ~Owns(x[1], x[2])

\* A deletion is reported once, even to two overlapping requests
\* (deleteMonitor, the transaction's delete by primary key).
DeletedOnce == \A id \in Ids : deletions[id] <= 1

\* A PATCH changes the fields it names only: neither another PATCH's field, nor
\* the state the worker wrote between its lookup and its update, nor what the
\* demo seed wrote is lost (updateMonitor, dataToUpdate).
NoLostField == \A id \in exists : row[id] = told[id]

\* A frequency that a request wrote, by POST or PATCH, is one its account may
\* have, whatever was written between the lookup and the update (createMonitor,
\* updateMonitor).  The seed and the reset write that of the manifest.
FrequencyFloor == \A id \in requested : row[id].frequency >= MinOf(row[id].user)

\* What an answer tells an account is its own and stays true: a page may stop
\* polling for good (getMonitorsByUser, getHistory, getAlerts, getMonitorById).
AnswersAreOwn == TypeOK /\ OnlyOwnRows /\ NotFoundIsFinal

\* Overlapping writes of requests, checks, seeds and resets do not undo one
\* another (updateMonitor, deleteMonitor).
WritesKept == DeletedOnce /\ NoLostField /\ FrequencyFloor
=============================================================================
