--------------------------- MODULE MCRequestsProofs ---------------------------
(***************************************************************************)
(* The API's handling of requests, proved for any accounts, any number of  *)
(* monitors, of requests in flight and of addresses, and any limits: the   *)
(* monitors API, and then the throttler before it.                         *)
(***************************************************************************)
EXTENDS MCRequests, FiniteSetTheorems, TLAPS

\* What a request knows between its two database calls stays true: its monitor
\* had been given to its account, and no id is given twice.
Pending(r) ==
    \/ request[r] = Idle
    \/ /\ request[r].op \in {"update", "delete"} \cup Tables
       /\ request[r].user \in Users /\ request[r].id \in 1..lastId
       /\ row[request[r].id].user = request[r].user
       /\ request[r].op = "update" => request[r].dto \in Patches

\* A monitor that was reported deleted does not exist; an account is told 404 or 403
\* only of ids that were given, and ids that were given keep their account.
RequestsInvariant ==
    /\ TypeOK /\ (\A r \in Requests : Pending(r))
    /\ OnlyOwnRows /\ NotFoundIsFinal /\ NoLostField /\ FrequencyFloor
    /\ \A x \in refused : x[2] \in 1..lastId
    /\ deletions \in [Ids -> 0..1]
    /\ \A id \in Ids : deletions[id] = 1 => id \in (1..lastId) \ exists

LEMMA InitRequests == Init => RequestsInvariant
<1> SUFFICES ASSUME Init PROVE RequestsInvariant
  OBVIOUS
<1>1. PICK m \in Monitors : row \in [Ids -> {m}]
  <2>1. Monitors # {}
    <3>1. PICK u \in Users, n \in Names, f \in Frequencies : TRUE
      BY RequestsAssumption
    <3>2. [user |-> u, name |-> n, frequency |-> f, last_state |-> "none"] \in Monitors
      BY DEF Monitors
    <3> QED
      BY <3>2
  <2> QED
    BY <2>1 DEF Init
<1>2. row \in [Ids -> Monitors] /\ told \in [Ids -> Monitors]
  BY <1>1 DEF Init
<1>3. TypeOK
  BY <1>2, RequestsAssumption DEF Init, TypeOK, Ids, Tables
<1>4. \A r \in Requests : Pending(r)
  BY DEF Init, Pending
<1>5. OnlyOwnRows /\ NotFoundIsFinal /\ NoLostField /\ FrequencyFloor
  BY DEF Init, OnlyOwnRows, NotFoundIsFinal, NoLostField, FrequencyFloor
<1> QED
  BY <1>3, <1>4, <1>5 DEF Init, RequestsInvariant

\* A step that gives no new id, takes none back and leaves the accounts of the
\* monitors keeps what was told and what is pending.
LEMMA AccountsStay ==
  ASSUME RequestsInvariant, lastId' >= lastId, lastId' \in Nat,
         \A id \in 1..lastId : row'[id].user = row[id].user,
         \A id \in exists' : id \in exists \/ id \notin 1..lastId
  PROVE  /\ \A x \in page.rows : row'[x[1]].user = page.user /\ x[1] \in 1..lastId'
         /\ \A x \in refused : /\ x[2] \in 1..lastId'
                               /\ ~(x[2] \in exists' /\ row'[x[2]].user = x[1])
         /\ \A r \in Requests : request'[r] = request[r] => Pending(r)'
         /\ \A id \in Ids : deletions[id] = 1 => id \in (1..lastId') \ exists'
<1> USE DEF RequestsInvariant
<1>0. lastId \in Nat /\ \A id \in 1..lastId : id \in 1..lastId'
  BY DEF TypeOK
<1>1. \A x \in page.rows : row'[x[1]].user = page.user /\ x[1] \in 1..lastId'
  <2> TAKE x \in page.rows
  <2>1. x[1] \in 1..lastId
    BY DEF TypeOK
  <2>2. row[x[1]].user = page.user
    BY DEF OnlyOwnRows
  <2> QED
    BY <2>1, <2>2, <1>0
<1>2. \A x \in refused : /\ x[2] \in 1..lastId'
                         /\ ~(x[2] \in exists' /\ row'[x[2]].user = x[1])
  BY <1>0 DEF NotFoundIsFinal, Owns
<1>3. \A r \in Requests : request'[r] = request[r] => Pending(r)'
  BY <1>0 DEF Pending
<1>4. \A id \in Ids : deletions[id] = 1 => id \in (1..lastId') \ exists'
  BY <1>0
<1> QED
  BY <1>1, <1>2, <1>3, <1>4

\* A monitor is created: by a request, by the demo seed or by the demo reset, which
\* takes the account's others away in the same step.
LEMMA GivenRow ==
  ASSUME RequestsInvariant, NEW m \in Monitors,
         lastId' \in requested' => m.frequency >= MinOf(m.user),
         NEW own \in SUBSET exists,
         requested' \subseteq (requested \ own) \cup {lastId'},
         seeded' \subseteq (seeded \ own) \cup {lastId'},
         lastId < MaxId, lastId' = lastId + 1,
         exists' = (exists \ own) \cup {lastId'},
         row' = [row EXCEPT ![lastId'] = m], told' = [told EXCEPT ![lastId'] = m],
         children' = [id \in Ids |-> IF id \in own THEN [t \in Tables |-> 0] ELSE children[id]],
         UNCHANGED <<request, page, refused, deletions>>
  PROVE  RequestsInvariant'
<1> USE RequestsAssumption DEF RequestsInvariant
<1>1. /\ lastId \in Nat /\ lastId' \in Ids /\ lastId' \notin exists
      /\ exists \subseteq 1..lastId /\ lastId' \in 0..MaxId
  BY DEF TypeOK, Ids
<1>2. /\ \A id \in Ids \ {lastId'} : row'[id] = row[id] /\ told'[id] = told[id]
      /\ row'[lastId'] = m /\ told'[lastId'] = m
      /\ row' \in [Ids -> Monitors] /\ told' \in [Ids -> Monitors]
  BY <1>1 DEF TypeOK
<1>3. \A id \in 1..lastId : row'[id].user = row[id].user
  BY <1>1, <1>2 DEF Ids
<1>4. \A id \in exists' : id \in exists \/ id \notin 1..lastId
  BY <1>1
<1>5. /\ \A x \in page.rows : row'[x[1]].user = page.user /\ x[1] \in 1..lastId'
      /\ \A x \in refused : /\ x[2] \in 1..lastId'
                            /\ ~(x[2] \in exists' /\ row'[x[2]].user = x[1])
      /\ \A r \in Requests : request'[r] = request[r] => Pending(r)'
      /\ \A id \in Ids : deletions[id] = 1 => id \in (1..lastId') \ exists'
  BY <1>1, <1>3, <1>4, AccountsStay
<1>6. TypeOK'
  <2>1. exists' \subseteq 1..lastId' /\ seeded' \subseteq exists' /\ requested' \subseteq exists'
    BY <1>1 DEF TypeOK
  <2>2. children' \in [Ids -> [Tables -> 0..MaxRows]]
    BY DEF TypeOK
  <2>3. \A id \in Ids \ exists', t \in Tables : children'[id][t] = 0
    BY <1>1 DEF TypeOK
  <2> QED
    BY <1>1, <1>2, <1>5, <2>1, <2>2, <2>3 DEF TypeOK
<1>7. OnlyOwnRows' /\ NotFoundIsFinal'
  BY <1>5 DEF OnlyOwnRows, NotFoundIsFinal, Owns
<1>8. NoLostField' /\ FrequencyFloor'
  <2>1. \A id \in requested' \ {lastId'} : id \in requested /\ row'[id] = row[id]
    BY <1>1, <1>2 DEF TypeOK, Ids
  <2> QED
    BY <1>1, <1>2, <2>1 DEF NoLostField, FrequencyFloor, MinOf, Ids
<1> QED
  BY <1>5, <1>6, <1>7, <1>8

\* The lookup of a request: it goes on with a monitor of its account, or is refused.
LEMMA Lookup ==
  ASSUME RequestsInvariant, NEW r \in Requests, NEW q, NEW u \in Users, NEW id \in Ids,
         q.user = u, q.id = id, q.op \in {"update", "delete"} \cup Tables,
         q.op = "update" => q.dto \in Patches,
         \/ Owns(u, id) /\ AwaitIn(r, q) /\ UNCHANGED refused
         \/ ~Owns(u, id) /\ Refuse(u, id) /\ UNCHANGED request,
         UNCHANGED <<tables, page, deletions, told, requested>>
  PROVE  RequestsInvariant'
<1> USE DEF RequestsInvariant, tables
<1>1. lastId \in Nat /\ exists \subseteq 1..lastId
  BY DEF TypeOK
<1>2. \A s \in Requests : request'[s] = request[s] => Pending(s)'
  BY DEF Pending
<1>3. \A s \in Requests : Pending(s)'
  <2>1. CASE UNCHANGED request
    BY <2>1, <1>2
  <2>2. CASE Owns(u, id) /\ AwaitIn(r, q)
    <3> TAKE s \in Requests
    <3>1. CASE request'[s] = request[s]
      BY <3>1, <1>2
    <3>2. CASE request'[s] = q
      BY <3>2, <2>2, <1>1 DEF Pending, Owns
    <3> QED
      BY <3>1, <3>2, <2>2 DEF AwaitIn
  <2> QED
    BY <2>1, <2>2
<1>4. \A x \in refused' : x[2] \in 1..lastId /\ ~Owns(x[1], x[2])
  <2>1. CASE UNCHANGED refused
    BY <2>1 DEF NotFoundIsFinal
  <2>2. CASE ~Owns(u, id) /\ Refuse(u, id)
    <3> TAKE x \in refused'
    <3>1. CASE x \in refused
      BY <3>1 DEF NotFoundIsFinal
    <3>2. CASE id <= lastId /\ x = <<u, id>>
      BY <3>2, <2>2, <1>1 DEF Ids
    <3> QED
      BY <3>1, <3>2, <2>2 DEF Refuse
  <2> QED
    BY <2>1, <2>2
<1>5. TypeOK' /\ OnlyOwnRows' /\ NoLostField' /\ FrequencyFloor' /\ NotFoundIsFinal'
  BY <1>4 DEF TypeOK, OnlyOwnRows, NoLostField, FrequencyFloor, NotFoundIsFinal, Owns
<1> QED
  BY <1>3, <1>4, <1>5

\* The page of the list: the rows of the account.
LEMMA ListStep ==
  ASSUME RequestsInvariant, NEW u \in Users, getMonitorsByUser(u)
  PROVE  RequestsInvariant'
<1> USE DEF RequestsInvariant, tables, getMonitorsByUser
<1>1. \A x \in page'.rows : x[1] \in 1..lastId /\ row[x[1]].user = page'.user
  BY DEF TypeOK, Owns
<1>2. TypeOK' /\ OnlyOwnRows'
  BY <1>1 DEF TypeOK, OnlyOwnRows
<1>3. NotFoundIsFinal' /\ NoLostField' /\ FrequencyFloor' /\ \A s \in Requests : Pending(s)'
  BY DEF NotFoundIsFinal, Owns, NoLostField, FrequencyFloor, Pending
<1> QED
  BY <1>2, <1>3

\* The page of a history: the rows of a monitor that was given to the account.
LEMMA PageStep ==
  ASSUME RequestsInvariant, NEW r \in Requests, ReadPage(r)
  PROVE  RequestsInvariant'
<1> USE DEF RequestsInvariant, tables, ReadPage
<1>1. request[r].op \in Tables /\ request[r].id \in 1..lastId
      /\ row[request[r].id].user = request[r].user
  BY DEF Pending, Idle, Tables
<1>2. \A x \in page'.rows : x[1] \in 1..lastId /\ row[x[1]].user = page'.user
  BY <1>1 DEF Newest
<1>3. TypeOK' /\ OnlyOwnRows'
  BY <1>2 DEF TypeOK, OnlyOwnRows
<1>4. NotFoundIsFinal' /\ NoLostField' /\ FrequencyFloor' /\ \A s \in Requests : Pending(s)'
  BY DEF NotFoundIsFinal, Owns, NoLostField, FrequencyFloor, Pending, Answer
<1> QED
  BY <1>3, <1>4

\* A deletion: it is reported only by the request that finds the row.
LEMMA RemoveStep ==
  ASSUME RequestsInvariant, NEW r \in Requests, RemoveRow(r)
  PROVE  RequestsInvariant'
<1> USE DEF RequestsInvariant
<1> DEFINE q == request[r]
<1>1. /\ lastId \in Nat /\ exists \subseteq 1..lastId /\ 1..lastId \subseteq Ids
      /\ UNCHANGED <<lastId, row, page, refused, told>> /\ exists' \subseteq exists
  BY RequestsAssumption DEF TypeOK, RemoveRow, Ids
<1>8. requested' \subseteq requested \cap exists' /\ seeded' \subseteq exists'
  BY DEF TypeOK, RemoveRow
<1>2. /\ \A x \in page.rows : row'[x[1]].user = page.user /\ x[1] \in 1..lastId'
      /\ \A x \in refused : /\ x[2] \in 1..lastId'
                            /\ ~(x[2] \in exists' /\ row'[x[2]].user = x[1])
      /\ \A s \in Requests : request'[s] = request[s] => Pending(s)'
      /\ \A id \in Ids : deletions[id] = 1 => id \in (1..lastId') \ exists'
  BY <1>1, AccountsStay
<1>3. \A s \in Requests : Pending(s)'
  BY <1>2 DEF RemoveRow, Answer, Pending
<1>4. children' \in [Ids -> [Tables -> 0..MaxRows]]
      /\ \A id \in Ids \ exists', t \in Tables : children'[id][t] = 0
  <2>1. children' = children \/ children' = [children EXCEPT ![q.id] = [t \in Tables |-> 0]]
    BY DEF RemoveRow
  <2>2. \A id \in exists \ exists' : children' = [children EXCEPT ![id] = [t \in Tables |-> 0]]
    BY DEF RemoveRow
  <2>3. children' \in [Ids -> [Tables -> 0..MaxRows]]
    <3>1. [t \in Tables |-> 0] \in [Tables -> 0..MaxRows]
      BY RequestsAssumption
    <3>2. children \in [Ids -> [Tables -> 0..MaxRows]]
      BY DEF TypeOK
    <3> QED
      BY <2>1, <3>1, <3>2
  <2>4. ASSUME NEW id \in Ids \ exists', NEW t \in Tables PROVE children'[id][t] = 0
    <3>1. CASE id \in exists
      <4>1. children' = [children EXCEPT ![id] = [x \in Tables |-> 0]]
        BY <2>2, <3>1
      <4>2. DOMAIN children = Ids
        BY DEF TypeOK
      <4> QED
        BY <4>1, <4>2
    <3>2. CASE id \notin exists
      <4>1. children[id][t] = 0 /\ DOMAIN children = Ids
        BY <3>2 DEF TypeOK
      <4> QED
        BY <4>1, <2>1
    <3> QED
      BY <3>1, <3>2
  <2> QED
    BY <2>3, <2>4
<1>5. TypeOK' /\ OnlyOwnRows' /\ NotFoundIsFinal'
  BY <1>1, <1>2, <1>4, <1>8 DEF TypeOK, OnlyOwnRows, NotFoundIsFinal, Owns
<1>6. NoLostField' /\ FrequencyFloor'
  BY <1>1, <1>8 DEF NoLostField, FrequencyFloor
<1>7. deletions' \in [Ids -> 0..1]
      /\ \A id \in Ids : deletions'[id] = 1 => id \in (1..lastId') \ exists'
  <2>1. CASE /\ q.id \in exists /\ exists' = exists \ {q.id}
             /\ deletions' = [deletions EXCEPT ![q.id] = @ + 1]
    <3>1. PICK id \in Ids : id = q.id
      BY <1>1, <2>1
    <3>2. deletions[id] \in 0..1 /\ deletions[id] # 1
      BY <2>1, <3>1
    <3>3. deletions[id] + 1 = 1
      BY <3>2
    <3>4. deletions' = [deletions EXCEPT ![id] = 1]
      BY <2>1, <3>1, <3>3
    <3>5. id \in (1..lastId') \ exists'
      BY <1>1, <2>1, <3>1
    <3>6. \A i \in Ids \ {id} : deletions'[i] = deletions[i]
      BY <3>4
    <3> QED
      BY <1>2, <3>4, <3>5, <3>6
  <2>2. CASE UNCHANGED deletions
    BY <1>2, <2>2
  <2> QED
    BY <2>1, <2>2 DEF RemoveRow
<1> QED
  BY <1>2, <1>1, <1>3, <1>5, <1>6, <1>7

\* A write into one row that keeps its account, that its writer remembers, and by a
\* request only of a frequency the account may have.
LEMMA RowWritten ==
  ASSUME RequestsInvariant, NEW id \in exists, NEW m \in Monitors, m.user = row[id].user,
         id \in requested' => m.frequency >= MinOf(m.user),
         requested' \subseteq requested \cup {id},
         row' = [row EXCEPT ![id] = m], told' = [told EXCEPT ![id] = m],
         children' \in [Ids -> [Tables -> 0..MaxRows]],
         \A i \in Ids \ exists, t \in Tables : children'[i][t] = 0,
         \A s \in Requests : request'[s] = request[s] \/ request'[s] = Idle,
         UNCHANGED <<lastId, exists, seeded, page, refused, deletions>>
  PROVE  RequestsInvariant'
<1> USE DEF RequestsInvariant
<1>1. lastId \in Nat /\ exists \subseteq 1..lastId /\ 1..lastId \subseteq Ids
  BY RequestsAssumption DEF TypeOK, Ids
<1>2. /\ \A i \in Ids \ {id} : row'[i] = row[i] /\ told'[i] = told[i]
      /\ row'[id] = m /\ told'[id] = m
      /\ row' \in [Ids -> Monitors] /\ told' \in [Ids -> Monitors]
  BY <1>1 DEF TypeOK
<1>3. \A i \in 1..lastId : row'[i].user = row[i].user
  BY <1>1, <1>2
<1>4. /\ \A x \in page.rows : row'[x[1]].user = page.user /\ x[1] \in 1..lastId'
      /\ \A x \in refused : /\ x[2] \in 1..lastId'
                            /\ ~(x[2] \in exists' /\ row'[x[2]].user = x[1])
      /\ \A s \in Requests : request'[s] = request[s] => Pending(s)'
      /\ \A i \in Ids : deletions[i] = 1 => i \in (1..lastId') \ exists'
  BY <1>1, <1>3, AccountsStay
<1>5. \A s \in Requests : Pending(s)'
  BY <1>4 DEF Pending
<1>6. TypeOK' /\ OnlyOwnRows' /\ NotFoundIsFinal'
  BY <1>1, <1>2, <1>4 DEF TypeOK, OnlyOwnRows, NotFoundIsFinal, Owns
<1>7. NoLostField' /\ FrequencyFloor'
  BY <1>1, <1>2 DEF NoLostField, FrequencyFloor, MinOf
<1> QED
  BY <1>4, <1>5, <1>6, <1>7

\* A PATCH: the row it writes is its account's still, and the fields it does not
\* name are those of the row now.
LEMMA UpdateStep ==
  ASSUME RequestsInvariant, NEW r \in Requests, UpdateRow(r)
  PROVE  RequestsInvariant'
<1> DEFINE q == request[r]
           m == Changed(row[q.id], q.dto)
<1> USE DEF RequestsInvariant
<1>1. /\ q.id \in 1..lastId /\ row[q.id].user = q.user /\ q.dto \in Patches /\ q.user \in Users
      /\ UNCHANGED <<lastId, exists, children, seeded, page, refused, deletions>>
      /\ \A s \in Requests : request'[s] = request[s] \/ request'[s] = Idle
  BY DEF Pending, Idle, UpdateRow, Answer
<1>2. CASE UNCHANGED <<row, told, requested>>
  BY <1>1, <1>2 DEF TypeOK, OnlyOwnRows, NotFoundIsFinal, Owns, NoLostField, FrequencyFloor,
                    Pending
<1>3. CASE /\ FrequencyAllowed(q) /\ q.id \in exists
           /\ row' = [row EXCEPT ![q.id] = m]
           /\ told' = [told EXCEPT
                ![q.id].name = IF q.dto.name = None THEN @ ELSE q.dto.name,
                ![q.id].frequency = IF q.dto.frequency = None THEN @ ELSE q.dto.frequency]
           /\ requested' = IF q.dto.frequency = None THEN requested ELSE requested \cup {q.id}
  <2>1. q.id \in Ids /\ row[q.id] \in Monitors /\ told[q.id] = row[q.id]
    BY <1>1, <1>3, RequestsAssumption DEF TypeOK, Ids, NoLostField
  <2>2. m \in Monitors /\ m.user = row[q.id].user
    BY <1>1, <2>1 DEF Changed, Monitors, Patches
  <2>3. q.id \in requested' => m.frequency >= MinOf(m.user)
    <3>1. q.id \in requested => row[q.id].frequency >= MinOf(row[q.id].user)
      BY DEF FrequencyFloor
    <3>2. CASE q.dto.frequency = None
      BY <3>1, <3>2, <1>3, <2>1, <2>2 DEF Changed, Monitors
    <3>3. CASE q.dto.frequency # None /\ q.dto.frequency >= MinOf(q.user)
      BY <3>3, <2>1, <2>2, <1>1 DEF Changed, Monitors
    <3> QED
      BY <3>2, <3>3, <1>3 DEF FrequencyAllowed
  <2>4. told' = [told EXCEPT ![q.id] = m]
    BY <1>3, <2>1 DEF Changed, Monitors, TypeOK
  <2>5. children' \in [Ids -> [Tables -> 0..MaxRows]]
        /\ \A i \in Ids \ exists, t \in Tables : children'[i][t] = 0
    BY <1>1 DEF TypeOK
  <2> HIDE DEF m
  <2> QED
    <3>1. requested' \subseteq requested \cup {q.id}
      BY <1>3
    <3> QED
      BY <1>1, <1>3, <2>2, <2>3, <2>4, <2>5, <3>1, RowWritten
<1> QED
  BY <1>2, <1>3 DEF UpdateRow

\* A check: the state, and the rows beside the monitor.
LEMMA CheckStep ==
  ASSUME RequestsInvariant, NEW id \in Ids, NEW s \in Verdicts, NEW alerts \in BOOLEAN,
         WorkerCheck(id, s, alerts)
  PROVE  RequestsInvariant'
<1> DEFINE m == [row[id] EXCEPT !.last_state = s]
<1> USE DEF RequestsInvariant
<1>1. id \in exists /\ UNCHANGED <<lastId, exists, seeded, request, page, refused, deletions, requested>>
  BY DEF WorkerCheck
<1>2. row[id] \in Monitors /\ told[id] = row[id]
  BY <1>1 DEF TypeOK, NoLostField
<1>3. m \in Monitors /\ m.user = row[id].user /\ m.frequency = row[id].frequency
  BY <1>2 DEF Monitors
<1>4. id \in requested' => m.frequency >= MinOf(m.user)
  BY <1>1, <1>3 DEF FrequencyFloor
<1>5. row' = [row EXCEPT ![id] = m] /\ told' = [told EXCEPT ![id] = m]
  BY <1>2 DEF WorkerCheck, TypeOK
<1>6. children' \in [Ids -> [Tables -> 0..MaxRows]]
  <2>1. /\ children[id]["check_result"] \in 0..MaxRows /\ children[id]["alert"] \in 0..MaxRows
        /\ children \in [Ids -> [Tables -> 0..MaxRows]]
    BY DEF TypeOK, Tables
  <2>2. PICK c, a \in 0..MaxRows :
          children' = [children EXCEPT ![id]["check_result"] = c, ![id]["alert"] = a]
    <3>1. /\ (IF children[id]["check_result"] < MaxRows THEN children[id]["check_result"] + 1
              ELSE children[id]["check_result"]) \in 0..MaxRows
          /\ (IF alerts /\ children[id]["alert"] < MaxRows THEN children[id]["alert"] + 1
              ELSE children[id]["alert"]) \in 0..MaxRows
      BY <2>1, RequestsAssumption
    <3> QED
      BY <2>1, <3>1 DEF WorkerCheck, Tables
  <2> QED
    BY <2>1, <2>2
<1>7. \A i \in Ids \ exists, t \in Tables : children'[i][t] = 0
  BY <1>1 DEF WorkerCheck, TypeOK
<1> HIDE DEF m
<1> QED
  BY <1>1, <1>3, <1>4, <1>5, <1>6, <1>7, RowWritten

\* The demo seed: it writes over a row of the demo account, or creates one.
LEMMA SeedStep ==
  ASSUME RequestsInvariant, NEW u \in Users, DemoSeed(u)
  PROVE  RequestsInvariant'
<1> USE DEF RequestsInvariant
<1>1. UNCHANGED <<request, page, refused, deletions>>
  BY DEF DemoSeed
<1>2. PICK name \in Names, frequency \in ManifestFrequencies :
        \/ \E id \in seeded :
              /\ Owns(u, id)
              /\ row' = [row EXCEPT ![id].name = name, ![id].frequency = frequency]
              /\ told' = [told EXCEPT ![id].name = name, ![id].frequency = frequency]
              /\ requested' = requested \ {id}
              /\ UNCHANGED <<lastId, exists, children, seeded>>
        \/ /\ InsertRow([user |-> u, name |-> name, frequency |-> frequency,
                         last_state |-> "none"])
           /\ seeded' = seeded \cup {lastId'}
           /\ UNCHANGED requested
  BY DEF DemoSeed
<1>3. ASSUME NEW id \in seeded, Owns(u, id),
             row' = [row EXCEPT ![id].name = name, ![id].frequency = frequency],
             told' = [told EXCEPT ![id].name = name, ![id].frequency = frequency],
             requested' = requested \ {id},
             UNCHANGED <<lastId, exists, children, seeded>>
      PROVE  RequestsInvariant'
  <2> DEFINE m == [row[id] EXCEPT !.name = name, !.frequency = frequency]
  <2>1. id \in exists /\ id \in Ids /\ row[id] \in Monitors /\ told[id] = row[id]
    BY <1>3, RequestsAssumption DEF Owns, TypeOK, Ids, NoLostField
  <2>2. m \in Monitors /\ m.user = row[id].user
    BY <2>1 DEF Monitors, ManifestFrequencies
  <2>3. row' = [row EXCEPT ![id] = m] /\ told' = [told EXCEPT ![id] = m]
    BY <1>3, <2>1 DEF TypeOK, Monitors
  <2>4. children' \in [Ids -> [Tables -> 0..MaxRows]]
        /\ \A i \in Ids \ exists, t \in Tables : children'[i][t] = 0
    BY <1>3 DEF TypeOK
  <2> HIDE DEF m
  <2>5. id \notin requested' /\ requested' \subseteq requested \cup {id}
    BY <1>3
  <2> QED
    BY <1>1, <1>3, <2>1, <2>2, <2>3, <2>4, <2>5, RowWritten
<1>4. ASSUME InsertRow([user |-> u, name |-> name, frequency |-> frequency,
                        last_state |-> "none"]),
             seeded' = seeded \cup {lastId'}, UNCHANGED requested
      PROVE  RequestsInvariant'
  <2>1. PICK m \in Monitors : InsertRow(m)
    <3> DEFINE m == [user |-> u, name |-> name, frequency |-> frequency, last_state |-> "none"]
    <3>1. m \in Monitors
      BY DEF Monitors, ManifestFrequencies
    <3> QED
      BY <1>4, <3>1
  <2>2. PICK own : own = {}
    OBVIOUS
  <2>3. children' = [id \in Ids |-> IF id \in own THEN [t \in Tables |-> 0] ELSE children[id]]
    BY <2>1, <2>2 DEF InsertRow, TypeOK
  <2>4. /\ own \in SUBSET exists /\ lastId < MaxId /\ lastId' = lastId + 1
        /\ exists' = (exists \ own) \cup {lastId'}
        /\ row' = [row EXCEPT ![lastId'] = m] /\ told' = [told EXCEPT ![lastId'] = m]
        /\ requested' \subseteq (requested \ own) \cup {lastId'}
        /\ seeded' \subseteq (seeded \ own) \cup {lastId'}
    BY <1>4, <2>1, <2>2 DEF InsertRow
  <2>5. lastId' \notin requested'
    BY <1>4, <2>4 DEF TypeOK
  <2> QED
    BY <1>1, <2>3, <2>4, <2>5, GivenRow
<1> QED
  BY <1>2, <1>3, <1>4

LEMMA NextRequests == RequestsInvariant /\ [Next]_vars => RequestsInvariant'
<1> SUFFICES ASSUME RequestsInvariant, [Next]_vars PROVE RequestsInvariant'
  OBVIOUS
<1>1. ASSUME NEW u \in Users, getMonitorsByUser(u) PROVE RequestsInvariant'
  BY <1>1, ListStep
<1>2. ASSUME NEW u \in Users, DemoReset(u) PROVE RequestsInvariant'
  <2>1. PICK own : own = {id \in exists : Owns(u, id)}
    OBVIOUS
  <2>2. PICK name \in Names, frequency \in ManifestFrequencies :
          LET m == [user |-> u, name |-> name, frequency |-> frequency,
                    last_state |-> "none"] IN
          /\ row' = [row EXCEPT ![lastId + 1] = m]
          /\ told' = [told EXCEPT ![lastId + 1] = m]
    BY <1>2 DEF DemoReset
  <2>3. PICK m \in Monitors : /\ row' = [row EXCEPT ![lastId + 1] = m]
                              /\ told' = [told EXCEPT ![lastId + 1] = m]
    <3> DEFINE m == [user |-> u, name |-> name, frequency |-> frequency, last_state |-> "none"]
    <3>1. m \in Monitors
      BY DEF Monitors, ManifestFrequencies
    <3> HIDE DEF m
    <3>2. row' = [row EXCEPT ![lastId + 1] = m] /\ told' = [told EXCEPT ![lastId + 1] = m]
      BY <2>2 DEF m
    <3> QED
      BY <3>1, <3>2
  <2>4. /\ own \in SUBSET exists /\ lastId < MaxId /\ lastId' = lastId + 1
        /\ exists' = (exists \ own) \cup {lastId'}
        /\ children' = [id \in Ids |-> IF id \in own THEN [t \in Tables |-> 0] ELSE children[id]]
        /\ seeded' = (seeded \ own) \cup {lastId'} /\ requested' = requested \ own
        /\ UNCHANGED <<request, page, refused, deletions>>
    BY <1>2, <2>1 DEF DemoReset
  <2>5. row' = [row EXCEPT ![lastId'] = m] /\ told' = [told EXCEPT ![lastId'] = m]
    BY <2>3, <2>4
  <2>6. lastId' \notin requested'
    BY <2>4 DEF RequestsInvariant, TypeOK
  <2> QED
    BY <2>4, <2>5, <2>6, GivenRow
<1>10. ASSUME NEW u \in Users, DemoSeed(u) PROVE RequestsInvariant'
  BY <1>10, SeedStep
<1>3. ASSUME NEW u \in Users, NEW name \in Names, NEW frequency \in Frequencies,
             createMonitor(u, name, frequency)
      PROVE  RequestsInvariant'
  <2>1. PICK m \in Monitors : m.frequency >= MinOf(m.user) /\ InsertRow(m)
    <3> DEFINE m == [user |-> u, name |-> name, frequency |-> frequency, last_state |-> "none"]
    <3>1. m \in Monitors /\ m.frequency >= MinOf(m.user)
      BY <1>3 DEF Monitors, createMonitor
    <3> QED
      BY <1>3, <3>1 DEF createMonitor
  <2>2. PICK own : own = {}
    OBVIOUS
  <2>3. children' = [id \in Ids |-> IF id \in own THEN [t \in Tables |-> 0] ELSE children[id]]
    BY <2>1, <2>2 DEF InsertRow, RequestsInvariant, TypeOK
  <2>4. /\ own \in SUBSET exists /\ lastId < MaxId /\ lastId' = lastId + 1
        /\ exists' = (exists \ own) \cup {lastId'}
        /\ row' = [row EXCEPT ![lastId'] = m] /\ told' = [told EXCEPT ![lastId'] = m]
        /\ requested' \subseteq (requested \ own) \cup {lastId'}
        /\ seeded' \subseteq (seeded \ own) \cup {lastId'}
        /\ UNCHANGED <<request, page, refused, deletions>>
    BY <1>3, <2>1, <2>2 DEF createMonitor, InsertRow
  <2> QED
    BY <2>1, <2>3, <2>4, GivenRow
<1>4. ASSUME NEW u \in Users, NEW r \in Requests, NEW id \in Ids, NEW dto \in Patches,
             updateMonitor(r, u, id, dto)
      PROVE  RequestsInvariant'
  BY <1>4, Lookup DEF updateMonitor, FindOwned
<1>5. ASSUME NEW u \in Users, NEW r \in Requests, NEW id \in Ids, deleteMonitor(r, u, id)
      PROVE  RequestsInvariant'
  BY <1>5, Lookup DEF deleteMonitor, FindOwned
<1>6. ASSUME NEW u \in Users, NEW r \in Requests, NEW id \in Ids, NEW t \in Tables,
             FindForPage(r, u, id, t)
      PROVE  RequestsInvariant'
  BY <1>6, Lookup DEF FindForPage, Tables
<1>7. ASSUME NEW r \in Requests, UpdateRow(r) \/ RemoveRow(r) \/ ReadPage(r)
      PROVE  RequestsInvariant'
  BY <1>7, UpdateStep, RemoveStep, PageStep
<1>8. ASSUME NEW id \in Ids, NEW s \in Verdicts, NEW alerts \in BOOLEAN,
             WorkerCheck(id, s, alerts)
      PROVE  RequestsInvariant'
  BY <1>8, CheckStep
<1>9. CASE UNCHANGED vars
  BY <1>9 DEF vars, tables, observed, RequestsInvariant, Pending, TypeOK, OnlyOwnRows,
              NotFoundIsFinal, Owns, NoLostField, FrequencyFloor
<1> QED
  BY <1>1, <1>2, <1>3, <1>4, <1>5, <1>6, <1>7, <1>8, <1>9, <1>10 DEF Next, getHistory, getAlerts, Tables

LEMMA RequestsSound == Spec => []RequestsInvariant
BY InitRequests, NextRequests, PTL DEF Spec

\* For any accounts, monitors and requests in flight: no answer holds a row of
\* another account, and who was told 404 or 403 of a monitor never owns it later
\* (getMonitorsByUser, getHistory, getAlerts, updateMonitor, deleteMonitor).
THEOREM AnswersCorrect == Spec => []AnswersAreOwn
<1>1. RequestsInvariant => AnswersAreOwn
  BY DEF RequestsInvariant, AnswersAreOwn
<1> QED
  BY <1>1, RequestsSound, PTL

\* For any number of overlapping requests, with checks, seeds and resets between: a
\* deletion is reported once, no write undoes another's field, and no request gives
\* a monitor a frequency that its account may not have (updateMonitor,
\* deleteMonitor, createMonitor).
THEOREM WritesCorrect == Spec => []WritesKept
<1>1. RequestsInvariant => WritesKept
  BY DEF RequestsInvariant, WritesKept, DeletedOnce
<1> QED
  BY <1>1, RequestsSound, PTL
-----------------------------------------------------------------------------
(* The throttler *)

Hits == SUBSET (Nat \X Nat)
Strict == {"auth", "monitors"}

\* What an entry counts is no older than Ttl, and no more than the limit unless it
\* blocks; nothing it counts outlives its block.
Counts(s, limit, now) ==
    /\ s \in [hits : Hits, until : Nat] /\ IsFiniteSet(s.hits)
    /\ \A h \in s.hits : h[1] <= now /\ now < h[1] + Ttl
    /\ s.until <= now + Ttl
    /\ IF s.until = 0 THEN Cardinality(s.hits) <= limit
       ELSE Cardinality(s.hits) <= limit + 1 /\ \A h \in s.hits : h[1] + Ttl <= s.until

\* The hits that are still counted at p.
Late(s, p) == {h \in s.hits : h[1] + Ttl > p}

\* At p the entry lets a request through, also if it counts the next hits before.
FreeAt(s, p, limit) ==
    s.until <= p /\ (s.until = 0 => Cardinality(Late(s, p)) + 1 <= limit)

\* A strict entry blocks no longer than the default one; and while only the strict
\* one blocks, the default one counts the hit that made it.
Follows(u, d, now) ==
    /\ d.until # 0 => u.until <= d.until /\ \A h \in u.hits : h[1] + Ttl <= d.until
    /\ d.until = 0 /\ u.until > now => \E h \in d.hits : h[1] + Ttl = u.until

EntryKept(ip, r, t) ==
    LET s == store[<<ip, r, t>>] IN
    /\ Counts(s, Guards!LimitOf(t, r), time)
    /\ ~Guards!applies(t, r) => s = Guards!Fresh
    /\ Guards!applies(t, r) =>
          /\ passed[<<ip, r>>] \subseteq s.hits
          /\ promised[<<ip, r>>] # 0 => FreeAt(s, promised[<<ip, r>>], Guards!LimitOf(t, r))

AddressKept(ip, r) ==
    /\ \A t \in Guards!Throttlers : EntryKept(ip, r, t)
    /\ \A u \in Strict : Follows(store[<<ip, r, u>>], store[<<ip, r, "default">>], time)
    /\ IsFiniteSet(passed[<<ip, r>>])
    /\ Cardinality(passed[<<ip, r>>]) <= Guards!Stated(r)
    /\ promised[<<ip, r>>] \in Nat /\ promised[<<ip, r>>] <= time + Ttl

\* Of the hits on the poller's list, those that others did not make are polls: one
\* per unit of time.  It blocks no longer than its others were too many.
PollsCounted ==
    "findAll" \in Routes =>
        LET d == store[<<Poller, "findAll", "default">>]
            polls == d.hits \ others IN
        /\ \A h \in polls : h[1] <= polled
        /\ \A a, b \in polls : a[1] = b[1] => a = b
        /\ d.until > time => d.until <= crowded + Ttl

GuardInvariant ==
    /\ time \in 1..MaxTime /\ polled \in 0..time /\ crowded \in 0..time
    /\ others \in Hits /\ IsFiniteSet(others)
    /\ DOMAIN store = Guards!Keys
    /\ DOMAIN passed = Ips \X Routes /\ DOMAIN promised = Ips \X Routes
    /\ broken = {}
    /\ \A ip \in Ips, r \in Routes : AddressKept(ip, r)
    /\ PollsCounted

\* The throttlers are three, and each route has one strict throttler at most.
LEMMA RouteFacts ==
  /\ Guards!Throttlers = {"default", "auth", "monitors"}
  /\ Guards!Rank["default"] = 1 /\ Guards!Rank["auth"] = 2 /\ Guards!Rank["monitors"] = 3
  /\ \A r : Guards!applies("default", r)
  /\ \A r \in Routes, t \in Guards!Throttlers : Guards!LimitOf(t, r) \in Nat \ {0}
  /\ \A r : ~(Guards!applies("auth", r) /\ Guards!applies("monitors", r))
  /\ "findAll" \in Routes => \A u \in Strict : ~Guards!applies(u, "findAll")
  /\ \A r \in Routes : \E t \in Guards!Throttlers :
        Guards!applies(t, r) /\ Guards!Stated(r) = Guards!LimitOf(t, r)
  /\ \A r : Guards!LimitOf("default", r) = DefaultLimit
<1>1. /\ Guards!Throttlers = {"default", "auth", "monitors"}
      /\ Guards!Rank["default"] = 1 /\ Guards!Rank["auth"] = 2 /\ Guards!Rank["monitors"] = 3
  BY DEF Guards!Throttlers, Guards!Rank
<1>2. \A r : Guards!applies("default", r)
  BY DEF Guards!applies
<1>3. /\ DefaultLimit \in Nat \ {0} /\ AuthLimit \in Nat \ {0}
      /\ DemoLimit \in Nat \ {0} /\ MonitorsLimit \in Nat \ {0}
      /\ Routes \subseteq DOMAIN Guards!Endpoints
  BY GuardsAssumption DEF Guards!ApiGuardsAssumption
<1>4. \A r \in DOMAIN Guards!Endpoints :
        Guards!Endpoints[r] \in {Guards!Plain, Guards!Decorated("auth", "auth"),
          Guards!Decorated("auth", "demo"), Guards!Decorated("monitors", "monitors")}
  BY DEF Guards!Endpoints
<1>5. \A r \in Routes, t \in Guards!Throttlers : Guards!LimitOf(t, r) \in Nat \ {0}
  BY <1>1, <1>3, <1>4 DEF Guards!LimitOf, Guards!Limits, Guards!Plain, Guards!Decorated
<1>6. \A r : ~(Guards!applies("auth", r) /\ Guards!applies("monitors", r))
  BY DEF Guards!applies
<1>7. "findAll" \in Routes => \A u \in Strict : ~Guards!applies(u, "findAll")
  BY DEF Strict, Guards!applies, Guards!Endpoints, Guards!Plain, Guards!Decorated
<1>8. ASSUME NEW r \in Routes
      PROVE  \E t \in Guards!Throttlers :
               Guards!applies(t, r) /\ Guards!Stated(r) = Guards!LimitOf(t, r)
  BY <1>1, <1>3, <1>4, <1>8
     DEF Guards!LimitOf, Guards!Stated, Guards!Limits, Guards!Plain, Guards!Decorated, Guards!applies
<1>9. \A r : Guards!LimitOf("default", r) = DefaultLimit
  BY DEF Guards!LimitOf, Guards!Limits
<1> QED
  BY <1>1, <1>2, <1>5, <1>6, <1>7, <1>8, <1>9

LEMMA SameCardinality == \A S : Guards!Cardinality(S) = Cardinality(S)
BY DEF Guards!Cardinality, Cardinality

\* What one hit does to an entry.
LEMMA Increment ==
  ASSUME time \in Nat, NEW limit \in Nat \ {0}, NEW n \in Nat, NEW s, Counts(s, limit, time)
  PROVE  LET hit == <<time, n>>
             a == Guards!increment(s, limit, hit) IN
         /\ Counts(a, limit, time)
         /\ a.until = 0 => hit \in a.hits
         /\ a.until = 0 \/ a.until > time
         /\ a.hits \subseteq s.hits \cup {hit}
         /\ (a = s /\ s.until > time)
               \/ (s.until = 0 /\ hit \in a.hits /\ s.hits \subseteq a.hits
                      /\ a.until \in {0, time + Ttl})
               \/ (a.until = 0 /\ a.hits = {hit} /\ s.hits = {} /\ s.until <= time)
         /\ s.until = 0 => s.hits \subseteq a.hits
<1> DEFINE hit == <<time, n>>
           a == Guards!increment(s, limit, hit)
<1>0. Ttl \in Nat \ {0}
  BY GuardsAssumption DEF Guards!ApiGuardsAssumption
<1>1. CASE s.until = 0
  <2> DEFINE hits == s.hits \cup {hit}
  <2>1. a = [hits |-> hits, until |-> IF Cardinality(hits) > limit THEN time + Ttl ELSE 0]
    BY <1>1, SameCardinality DEF Guards!increment
  <2>2. IsFiniteSet(hits) /\ Cardinality(hits) \in Nat /\ Cardinality(s.hits) \in Nat
        /\ Cardinality(hits) <= Cardinality(s.hits) + 1
    <3>1. IsFiniteSet(s.hits)
      BY DEF Counts
    <3>2. IsFiniteSet(hits)
          /\ Cardinality(hits) = IF hit \in s.hits THEN Cardinality(s.hits) ELSE Cardinality(s.hits) + 1
      BY <3>1, FS_AddElement
    <3>3. Cardinality(s.hits) \in Nat /\ Cardinality(hits) \in Nat
      BY <3>1, <3>2, FS_CardinalityType
    <3> QED
      BY <3>2, <3>3
  <2>3. Cardinality(s.hits) <= limit
    BY <1>1 DEF Counts
  <2>4. \A h \in hits : h[1] <= time /\ time < h[1] + Ttl /\ h[1] + Ttl <= time + Ttl
    BY <1>0 DEF Counts, Hits
  <2>5. hits \in Hits
    BY DEF Counts, Hits
  <2> HIDE DEF a, hits
  <2>6. a.hits = hits /\ hit \in hits /\ s.hits \subseteq hits
        /\ a.until = IF Cardinality(hits) > limit THEN time + Ttl ELSE 0
    BY <2>1 DEF hits
  <2>7. a \in [hits : Hits, until : Nat]
    BY <2>1, <2>5, <1>0
  <2>8. Counts(a, limit, time)
    BY <2>2, <2>3, <2>4, <2>6, <2>7, <1>0 DEF Counts
  <2> QED
    BY <2>8, <2>6, <1>1, <1>0 DEF a, hits
<1>2. CASE s.until # 0 /\ s.until > time
  <2>1. a = s
    BY <1>2 DEF Guards!increment
  <2> QED
    BY <2>1, <1>2
<1>3. CASE s.until # 0 /\ ~(s.until > time)
  <2>1. s.until \in Nat /\ \A h \in s.hits : h[1] \in Nat
    BY DEF Counts, Hits
  <2>2. a = [hits |-> {hit}, until |-> 0]
    BY <1>3 DEF Guards!increment
  <2>3. s.hits = {}
    BY <1>3, <1>0, <2>1 DEF Counts
  <2>4. IsFiniteSet({hit}) /\ Cardinality({hit}) = 1
    BY FS_Singleton
  <2>5. a \in [hits : Hits, until : Nat] /\ a.hits = {hit} /\ a.until = 0
    BY <2>2 DEF Hits
  <2> HIDE DEF a
  <2>6. Counts(a, limit, time)
    BY <2>4, <2>5, <1>0 DEF Counts
  <2> QED
    BY <2>1, <2>3, <2>5, <2>6, <1>3 DEF a
<1> QED
  BY <1>1, <1>2, <1>3

\* What remains of an entry one unit of time later.
LEMMA Ages ==
  ASSUME time \in Nat, NEW limit \in Nat \ {0}, NEW s, Counts(s, limit, time)
  PROVE  LET a == [s EXCEPT !.hits = Guards!Recent(@)] IN
         /\ Counts(a, limit, time + 1)
         /\ a.until = s.until /\ a.hits = Guards!Recent(s.hits)
<1> DEFINE a == [s EXCEPT !.hits = Guards!Recent(@)]
<1>0. Ttl \in Nat \ {0}
  BY GuardsAssumption DEF Guards!ApiGuardsAssumption
<1>1. a \in [hits : Hits, until : Nat] /\ a.until = s.until /\ a.hits = Guards!Recent(s.hits)
  BY DEF Counts, Hits, Guards!Recent
<1>2. /\ Guards!Recent(s.hits) \in SUBSET s.hits
      /\ \A h \in Guards!Recent(s.hits) : h[1] \in Nat /\ h[1] + Ttl > time + 1
  BY DEF Guards!Recent, Counts, Hits
<1>3. /\ IsFiniteSet(a.hits) /\ Cardinality(a.hits) \in Nat /\ Cardinality(s.hits) \in Nat
      /\ Cardinality(a.hits) <= Cardinality(s.hits)
  BY <1>1, <1>2, FS_Subset, FS_CardinalityType DEF Counts
<1> HIDE DEF a
<1>4. Counts(a, limit, time + 1)
  BY <1>0, <1>1, <1>2, <1>3 DEF Counts
<1> QED
  BY <1>1, <1>4 DEF a
\* An entry that may count one more does not block.
LEMMA NoBlock ==
  ASSUME time \in Nat, NEW limit \in Nat \ {0}, NEW n \in Nat, NEW s, Counts(s, limit, time),
         s.until = 0 => Cardinality(s.hits) + 1 <= limit, s.until <= time
  PROVE  Guards!increment(s, limit, <<time, n>>).until = 0
<1> DEFINE hits == s.hits \cup {<<time, n>>}
<1>1. CASE s.until = 0
  <2>1. IsFiniteSet(s.hits)
    BY DEF Counts
  <2>2. Cardinality(hits) <= limit
    <3>1. /\ IsFiniteSet(hits) /\ Cardinality(s.hits) \in Nat
          /\ Cardinality(hits) \in {Cardinality(s.hits), Cardinality(s.hits) + 1}
      BY <2>1, FS_AddElement, FS_CardinalityType
    <3> QED
      BY <3>1, <1>1
  <2>3. ~(Cardinality(hits) > limit)
    <3>1. Cardinality(hits) \in Nat
      BY <2>1, FS_AddElement, FS_CardinalityType
    <3> QED
      BY <2>2, <3>1
  <2> QED
    BY <1>1, <2>3, SameCardinality DEF Guards!increment
<1>2. CASE s.until # 0
  BY <1>2 DEF Guards!increment, Counts
<1> QED
  BY <1>1, <1>2

\* A subset of the late hits, or one without a hit that is not late.
LEMMA LateFinite ==
  ASSUME NEW s, IsFiniteSet(s.hits), NEW p \in Nat, s.hits \in Hits
  PROVE  /\ IsFiniteSet(Late(s, p)) /\ Cardinality(Late(s, p)) \in Nat
         /\ Cardinality(s.hits) \in Nat
         /\ \A h \in s.hits : h[1] + Ttl <= p => Cardinality(Late(s, p)) + 1 <= Cardinality(s.hits)
         /\ (\A h \in s.hits : h[1] + Ttl <= p) => Cardinality(Late(s, p)) = 0
         /\ (\A h \in s.hits : h[1] + Ttl > p) => Late(s, p) = s.hits
<1>0. Ttl \in Nat /\ \A h \in s.hits : h[1] \in Nat
  BY GuardsAssumption DEF Guards!ApiGuardsAssumption, Hits
<1>1. Late(s, p) \in SUBSET s.hits
  BY DEF Late
<1>2. IsFiniteSet(Late(s, p)) /\ Cardinality(Late(s, p)) \in Nat /\ Cardinality(s.hits) \in Nat
  BY <1>1, FS_Subset, FS_CardinalityType
<1>3. ASSUME NEW h \in s.hits, h[1] + Ttl <= p
      PROVE  Cardinality(Late(s, p)) + 1 <= Cardinality(s.hits)
  <2>1. Late(s, p) \in SUBSET (s.hits \ {h})
    BY <1>0, <1>3 DEF Late
  <2>2. IsFiniteSet(s.hits \ {h}) /\ Cardinality(s.hits \ {h}) = Cardinality(s.hits) - 1
    BY FS_RemoveElement
  <2>3. Cardinality(Late(s, p)) <= Cardinality(s.hits \ {h})
    BY <2>1, <2>2, FS_Subset
  <2> QED
    BY <1>2, <2>2, <2>3
<1>4. ASSUME \A h \in s.hits : h[1] + Ttl <= p PROVE Cardinality(Late(s, p)) = 0
  <2>1. Late(s, p) = {}
    BY <1>0, <1>4 DEF Late
  <2> QED
    BY <2>1, FS_EmptySet
<1>5. ASSUME \A h \in s.hits : h[1] + Ttl > p PROVE Late(s, p) = s.hits
  BY <1>5 DEF Late
<1> QED
  BY <1>2, <1>3, <1>4, <1>5

\* One unit of time later.
LEMMA AdvanceStep == GuardInvariant /\ Guards!Advance => GuardInvariant'
<1> SUFFICES ASSUME GuardInvariant, Guards!Advance PROVE GuardInvariant'
  OBVIOUS
<1>0. /\ time \in Nat /\ time' = time + 1 /\ Ttl \in Nat \ {0} /\ MaxTime \in Nat /\ time < MaxTime
      /\ polled \in Nat /\ time > 0 /\ UNCHANGED <<polled, crowded, promised, broken>>
      /\ crowded \in Nat /\ others' = Guards!Recent(others)
  BY GuardsAssumption DEF Guards!ApiGuardsAssumption, GuardInvariant, Guards!Advance
<1>1. \A ip \in Ips, r \in Routes, t \in Guards!Throttlers :
         store'[<<ip, r, t>>] = [store[<<ip, r, t>>] EXCEPT !.hits = Guards!Recent(@)]
  BY DEF Guards!Advance, Guards!Keys
<1>2. ASSUME NEW ip \in Ips, NEW r \in Routes PROVE AddressKept(ip, r)'
  <2> DEFINE k == <<ip, r>>
  <2>1. AddressKept(ip, r) /\ promised'[k] = promised[k] /\ passed'[k] = Guards!Recent(passed[k])
    BY <1>0 DEF GuardInvariant, Guards!Advance
  <2>2. ASSUME NEW t \in Guards!Throttlers
        PROVE  LET s == store[<<ip, r, t>>] IN
               /\ EntryKept(ip, r, t)'
               /\ store'[<<ip, r, t>>].until = s.until /\ s.until \in Nat
               /\ store'[<<ip, r, t>>].hits = {h \in s.hits : h[1] + Ttl > time + 1}
               /\ \A h \in s.hits : h[1] \in Nat
    <3> DEFINE s == store[<<ip, r, t>>]
               l == Guards!LimitOf(t, r)
               p == promised[k]
               a == [s EXCEPT !.hits = Guards!Recent(@)]
    <3>1. EntryKept(ip, r, t) /\ store'[<<ip, r, t>>] = a /\ l \in Nat \ {0} /\ p \in Nat
      <4>1. EntryKept(ip, r, t) /\ p \in Nat
        BY <2>1 DEF AddressKept
      <4>2. l \in Nat \ {0}
        BY RouteFacts
      <4>3. store'[<<ip, r, t>>] = a
        BY <1>1
      <4> QED
        BY <4>1, <4>2, <4>3
    <3>2. Counts(s, l, time)
      BY <3>1 DEF EntryKept
    <3>3. Counts(a, l, time + 1) /\ a.until = s.until /\ a.hits = Guards!Recent(s.hits)
      BY <1>0, <3>1, <3>2, Ages
    <3>4. a.hits = {h \in s.hits : h[1] + Ttl > time + 1} /\ s.until \in Nat
          /\ \A h \in s.hits : h[1] \in Nat
      BY <3>2, <3>3 DEF Guards!Recent, Counts, Hits
    <3>5. s = Guards!Fresh => a = Guards!Fresh
      BY DEF Guards!Fresh, Guards!Recent
    <3>6. ASSUME Guards!applies(t, r), p # 0 PROVE FreeAt(a, p, l)
      <4>1. FreeAt(s, p, l)
        BY <3>1, <3>6 DEF EntryKept
      <4>2. Late(a, p) \in SUBSET Late(s, p)
        BY <3>4 DEF Late
      <4>3. /\ IsFiniteSet(Late(s, p)) /\ Cardinality(Late(s, p)) \in Nat
        BY <3>2, <3>1, LateFinite DEF Counts
      <4>4. Cardinality(Late(a, p)) \in Nat /\ Cardinality(Late(a, p)) <= Cardinality(Late(s, p))
        BY <4>2, <4>3, FS_Subset, FS_CardinalityType
      <4> HIDE DEF a
      <4> QED
        BY <4>1, <4>3, <4>4, <3>1, <3>3 DEF FreeAt
    <3>7. Guards!applies(t, r) => Guards!Recent(passed[k]) \subseteq a.hits
      BY <3>1, <3>3 DEF EntryKept, Guards!Recent
    <3> HIDE DEF a
    <3>8. EntryKept(ip, r, t)'
      BY <3>1, <3>3, <3>5, <3>6, <3>7, <2>1, <1>0 DEF EntryKept
    <3> QED
      BY <3>1, <3>3, <3>4, <3>8
  <2>3. \A u \in Strict : Follows(store'[<<ip, r, u>>], store'[<<ip, r, "default">>], time')
    <3> TAKE u \in Strict
    <3>1. u \in Guards!Throttlers /\ "default" \in Guards!Throttlers
      BY RouteFacts DEF Strict
    <3>2. Follows(store[<<ip, r, u>>], store[<<ip, r, "default">>], time)
      BY <2>1 DEF AddressKept
    <3> QED
      BY <3>1, <3>2, <2>2, <1>0 DEF Follows
  <2>4. IsFiniteSet(passed'[k]) /\ Cardinality(passed'[k]) <= Guards!Stated(r)
    <3>1. Guards!Recent(passed[k]) \in SUBSET passed[k]
      BY DEF Guards!Recent
    <3>2. IsFiniteSet(passed[k]) /\ Cardinality(passed[k]) <= Guards!Stated(r)
      BY <2>1 DEF AddressKept
    <3>3. /\ IsFiniteSet(passed'[k]) /\ Cardinality(passed'[k]) <= Cardinality(passed[k])
          /\ Cardinality(passed'[k]) \in Nat /\ Cardinality(passed[k]) \in Nat
      BY <3>1, <3>2, <2>1, FS_Subset, FS_CardinalityType
    <3>4. Guards!Stated(r) \in Nat
      BY RouteFacts
    <3> QED
      BY <3>2, <3>3, <3>4
  <2>5. promised'[k] \in Nat /\ promised'[k] <= time' + Ttl
    BY <1>0, <2>1 DEF AddressKept
  <2> QED
    BY <2>2, <2>3, <2>4, <2>5 DEF AddressKept
<1>3. PollsCounted'
  <2> DEFINE s == store[<<Poller, "findAll", "default">>]
             d == store'[<<Poller, "findAll", "default">>]
  <2> SUFFICES ASSUME "findAll" \in Routes
               PROVE  /\ \A h \in d.hits \ others' : h[1] <= polled'
                      /\ \A a, b \in d.hits \ others' : a[1] = b[1] => a = b
                      /\ d.until > time' => d.until <= crowded' + Ttl
    BY DEF PollsCounted
  <2>1. /\ \A h \in s.hits \ others : h[1] <= polled
        /\ \A a, b \in s.hits \ others : a[1] = b[1] => a = b
        /\ s.until > time => s.until <= crowded + Ttl
    BY DEF GuardInvariant, PollsCounted
  <2>2. Poller \in Ips /\ "default" \in Guards!Throttlers
    BY GuardsAssumption, RouteFacts DEF Guards!ApiGuardsAssumption
  <2>3. Counts(s, Guards!LimitOf("default", "findAll"), time)
    BY <2>2 DEF GuardInvariant, AddressKept, EntryKept
  <2>4. LET a == [s EXCEPT !.hits = Guards!Recent(@)]
        IN  a.until = s.until /\ a.hits = Guards!Recent(s.hits)
    BY <2>2, <2>3, <1>0, RouteFacts, Ages
  <2>5. d.until = s.until /\ d.hits = Guards!Recent(s.hits) /\ s.until \in Nat
    BY <2>2, <2>3, <2>4, <1>1 DEF Counts
  <2>6. d.hits \ others' \subseteq s.hits \ others
    BY <2>5, <1>0 DEF Guards!Recent
  <2> HIDE DEF s, d
  <2> QED
    BY <2>1, <2>5, <2>6, <1>0
<1>4. others' \in Hits /\ IsFiniteSet(others')
  <2>1. others' \in SUBSET others
    BY <1>0 DEF Guards!Recent
  <2> QED
    BY <2>1, FS_Subset DEF GuardInvariant, Hits
<1> QED
  BY <1>0, <1>2, <1>3, <1>4 DEF GuardInvariant, Guards!Advance

\* The hits of a request, entry by entry.
LEMMA CountedHits ==
  ASSUME GuardInvariant, NEW ip \in Ips, NEW r \in Routes
  PROVE  \E n \in Nat :
           /\ Guards!Hit(ip, r) = <<time, n>>
           /\ \A t \in Guards!Throttlers :
                Guards!Counted(ip, r)[t] =
                  IF Guards!applies(t, r)
                  THEN Guards!increment(store[<<ip, r, t>>], Guards!LimitOf(t, r), <<time, n>>)
                  ELSE store[<<ip, r, t>>]
<1> DEFINE now == {h \in store[<<ip, r, "default">>].hits : h[1] = time}
           n == 1 + Cardinality(now)
<1>1. "default" \in Guards!Throttlers
  BY RouteFacts
<1>2. IsFiniteSet(store[<<ip, r, "default">>].hits)
  BY <1>1 DEF GuardInvariant, AddressKept, EntryKept, Counts
<1>3. IsFiniteSet(now) /\ Cardinality(now) \in Nat
  BY <1>2, FS_Subset, FS_CardinalityType
<1>4. Guards!Hit(ip, r) = <<time, n>>
  BY SameCardinality DEF Guards!Hit, Guards!Entry, Guards!getTracker
<1>6. \A t \in Guards!Throttlers :
        Guards!Counted(ip, r)[t] =
          IF Guards!applies(t, r)
          THEN Guards!increment(store[<<ip, r, t>>], Guards!LimitOf(t, r), <<time, n>>)
          ELSE store[<<ip, r, t>>]
  BY <1>4 DEF Guards!Counted, Guards!Entry, Guards!getTracker
<1> HIDE DEF n
<1>7. n \in Nat
  BY <1>3 DEF n
<1> QED
  BY <1>4, <1>6, <1>7

\* What a request knows of its entries after its hits.
LEMMA AfterHits ==
  ASSUME GuardInvariant, NEW ip \in Ips, NEW r \in Routes, NEW t \in Guards!Throttlers
  PROVE  LET s == store[<<ip, r, t>>]
             a == Guards!Counted(ip, r)[t]
             hit == Guards!Hit(ip, r) IN
         /\ hit[1] = time
         /\ Counts(s, Guards!LimitOf(t, r), time) /\ Counts(a, Guards!LimitOf(t, r), time)
         /\ s.until \in Nat /\ a.until \in Nat
         /\ \A h \in s.hits \cup a.hits : h[1] \in Nat /\ h[1] <= time
         /\ ~Guards!applies(t, r) => a = s /\ s = Guards!Fresh
         /\ Guards!applies(t, r) =>
              /\ passed[<<ip, r>>] \subseteq s.hits /\ passed[<<ip, r>>] \subseteq a.hits
              /\ a.until = 0 => hit \in a.hits
              /\ s.until = 0 => s.hits \subseteq a.hits
              /\ \/ a = s /\ s.until > time
                 \/ s.until = 0 /\ hit \in a.hits /\ a.until \in {0, time + Ttl}
                 \/ a.until = 0 /\ s.until <= time
              /\ promised[<<ip, r>>] \in 1..time => a.until = 0
<1> DEFINE s == store[<<ip, r, t>>]
           a == Guards!Counted(ip, r)[t]
           l == Guards!LimitOf(t, r)
           p == promised[<<ip, r>>]
<1>1. PICK n \in Nat : /\ Guards!Hit(ip, r) = <<time, n>>
                       /\ a = IF Guards!applies(t, r) THEN Guards!increment(s, l, <<time, n>>) ELSE s
  BY CountedHits
<1>2. /\ Counts(s, l, time) /\ l \in Nat \ {0} /\ time \in Nat /\ Ttl \in Nat \ {0} /\ p \in Nat
      /\ EntryKept(ip, r, t)
  <2>1. EntryKept(ip, r, t) /\ p \in Nat /\ time \in Nat
    <3>1. AddressKept(ip, r) /\ time \in 1..MaxTime /\ MaxTime \in Nat
      BY GuardsAssumption DEF GuardInvariant, Guards!ApiGuardsAssumption
    <3> QED
      BY <3>1 DEF AddressKept
  <2>2. Ttl \in Nat \ {0}
    BY GuardsAssumption DEF Guards!ApiGuardsAssumption
  <2>3. l \in Nat \ {0}
    BY RouteFacts
  <2> QED
    BY <2>1, <2>2, <2>3 DEF EntryKept
<1>3. CASE ~Guards!applies(t, r)
  BY <1>1, <1>2, <1>3 DEF EntryKept, Counts, Hits
<1>4. CASE Guards!applies(t, r)
  <2>1. a = Guards!increment(s, l, <<time, n>>)
    BY <1>1, <1>4
  <2> HIDE DEF a, s, l, p
  <2>2. /\ Counts(a, l, time)
        /\ a.until = 0 => <<time, n>> \in a.hits
        /\ \/ (a = s /\ s.until > time)
           \/ (s.until = 0 /\ <<time, n>> \in a.hits /\ s.hits \subseteq a.hits
                 /\ a.until \in {0, time + Ttl})
           \/ (a.until = 0 /\ a.hits = {<<time, n>>} /\ s.hits = {} /\ s.until <= time)
        /\ s.until = 0 => s.hits \subseteq a.hits
    BY <1>2, <2>1, Increment
  <2>3. passed[<<ip, r>>] \subseteq s.hits
    BY <1>2, <1>4 DEF EntryKept, s
  <2>4. passed[<<ip, r>>] \subseteq a.hits
    BY <2>2, <2>3
  <2>5. ASSUME p \in 1..time PROVE a.until = 0
    <3>1. FreeAt(s, p, l)
      BY <1>2, <1>4, <2>5 DEF EntryKept, s, l, p
    <3>2. IsFiniteSet(s.hits) /\ s.hits \in Hits /\ \A h \in s.hits : h[1] + Ttl > time /\ h[1] \in Nat
      BY <1>2 DEF Counts, Hits
    <3>3. Late(s, p) = s.hits
      BY <3>2, <1>2, <2>5, LateFinite
    <3>4. s.until <= time /\ (s.until = 0 => Cardinality(s.hits) + 1 <= l)
      BY <3>1, <3>3, <2>5, <1>2 DEF FreeAt, Counts
    <3> QED
      BY <3>4, <1>2, <2>1, NoBlock
  <2>6. s.until \in Nat /\ a.until \in Nat
        /\ \A h \in s.hits \cup a.hits : h[1] \in Nat /\ h[1] <= time
    BY <1>2, <2>2 DEF Counts, Hits
  <2> QED
    BY <1>1, <1>2, <1>4, <2>2, <2>3, <2>4, <2>5, <2>6 DEF a, s, l, p
<1> QED
  BY <1>3, <1>4

LEMMA Unapplied ==
  ASSUME GuardInvariant, NEW ip \in Ips, NEW r \in Routes, NEW t \in Guards!Throttlers,
         ~Guards!applies(t, r)
  PROVE  LET a == Guards!Counted(ip, r)[t] IN a = store[<<ip, r, t>>] /\ a.until = 0
<1>1. /\ Guards!Counted(ip, r)[t] = store[<<ip, r, t>>]
      /\ store[<<ip, r, t>>] = Guards!Fresh
  BY AfterHits
<1> QED
  BY <1>1 DEF Guards!Fresh

\* The three outcomes of a request.
LEMMA Outcomes ==
  ASSUME GuardInvariant, NEW ip \in Ips, NEW r \in Routes, NEW poll, Guards!Arrives(ip, r, poll)
  PROVE  LET k == <<ip, r>>
             after == Guards!Counted(ip, r)
             all == \A t \in Guards!Throttlers : store'[<<ip, r, t>>] = after[t] IN
         /\ time' = time /\ DOMAIN store' = Guards!Keys
         /\ \A x \in Ips, y \in Routes, t \in Guards!Throttlers :
              <<x, y>> # k => store'[<<x, y, t>>] = store[<<x, y, t>>]
         /\ \/ /\ after["default"].until # 0
               /\ store'[<<ip, r, "default">>] = after["default"]
               /\ \A u \in Strict : store'[<<ip, r, u>>] = store[<<ip, r, u>>]
               /\ passed' = passed
               /\ promised' = [promised EXCEPT ![k] = after["default"].until]
            \/ \E u \in Strict :
                  /\ Guards!applies(u, r) /\ after["default"].until = 0 /\ after[u].until # 0
                  /\ all /\ passed' = passed
                  /\ promised' = [promised EXCEPT ![k] = after[u].until]
            \/ /\ \A t \in Guards!Throttlers : after[t].until = 0
               /\ all /\ broken' = broken
               /\ passed' = [passed EXCEPT ![k] = @ \cup {Guards!Hit(ip, r)}]
               /\ promised' = [promised EXCEPT ![k] = 0]
<1> DEFINE k == <<ip, r>>
           after == Guards!Counted(ip, r)
<1>1. /\ Guards!Throttlers = {"default", "auth", "monitors"} /\ Strict = {"auth", "monitors"}
      /\ Guards!Rank["default"] = 1 /\ Guards!Rank["auth"] = 2 /\ Guards!Rank["monitors"] = 3
  BY RouteFacts DEF Strict
<1>2. \A t \in Strict : ~Guards!applies(t, r) =>
        after[t] = store[<<ip, r, t>>] /\ after[t].until = 0
  <2> TAKE t \in Strict
  <2> QED
    BY <1>1, Unapplied
<1>3. ~(Guards!applies("auth", r) /\ Guards!applies("monitors", r))
  BY RouteFacts
<1>4. ASSUME NEW t \in Guards!Throttlers, Guards!Stored(ip, r, after, t)
      PROVE  /\ DOMAIN store' = Guards!Keys
             /\ \A x \in Ips, y \in Routes, v \in Guards!Throttlers :
                  <<x, y>> # k => store'[<<x, y, v>>] = store[<<x, y, v>>]
             /\ \A v \in Guards!Throttlers :
                  store'[<<ip, r, v>>] =
                    IF Guards!Rank[v] <= Guards!Rank[t] THEN after[v] ELSE store[<<ip, r, v>>]
  BY <1>4 DEF Guards!Stored, Guards!Keys, Guards!getTracker
<1> HIDE DEF after
<1>5. CASE Guards!Throttled(ip, r, poll, after)
  <2>1. PICK t \in Guards!Throttlers :
           /\ after[t].until # 0
           /\ \A u \in Guards!Throttlers : Guards!Rank[u] < Guards!Rank[t] => after[u].until = 0
           /\ Guards!Stored(ip, r, after, t)
           /\ promised' = [promised EXCEPT ![k] = after[t].until]
           /\ UNCHANGED <<time, passed>>
    BY <1>5 DEF Guards!Throttled, Guards!RetryAfter
  <2>2. CASE t = "default"
    BY <1>1, <1>4, <2>1, <2>2 DEF after
  <2>3. CASE t \in Strict
    <3>1. Guards!applies(t, r) /\ after["default"].until = 0
      BY <1>1, <1>2, <2>1, <2>3
    <3>2. \A v \in Guards!Throttlers : store'[<<ip, r, v>>] = after[v]
      <4>1. \A v \in Guards!Throttlers :
              store'[<<ip, r, v>>] =
                IF Guards!Rank[v] <= Guards!Rank[t] THEN after[v] ELSE store[<<ip, r, v>>]
        BY <1>4, <2>1
      <4>2. \A v \in Strict \ {t} : after[v] = store[<<ip, r, v>>]
        BY <1>1, <1>2, <1>3, <2>3, <3>1
      <4>3. "default" \in Guards!Throttlers /\ t \in Guards!Throttlers
        BY <1>1
      <4>4. Guards!Rank["default"] <= Guards!Rank[t] /\ Guards!Rank[t] <= Guards!Rank[t]
        BY <1>1, <2>3
      <4>5. store'[<<ip, r, "default">>] = after["default"] /\ store'[<<ip, r, t>>] = after[t]
        BY <4>1, <4>3, <4>4
      <4>6. \A v \in Strict \ {t} : store'[<<ip, r, v>>] = after[v]
        BY <1>1, <4>1, <4>2
      <4> QED
        BY <1>1, <4>5, <4>6
    <3> QED
      BY <1>4, <2>1, <2>3, <3>1, <3>2 DEF after
  <2> QED
    BY <1>1, <2>2, <2>3
<1>6. CASE Guards!Passes(ip, r, after)
  <2>1. /\ Guards!Stored(ip, r, after, "monitors") /\ \A t \in Guards!Throttlers : after[t].until = 0
        /\ passed' = [passed EXCEPT ![k] = @ \cup {Guards!Hit(ip, r)}]
        /\ promised' = [promised EXCEPT ![k] = 0]
        /\ UNCHANGED <<time, broken>>
    BY <1>6 DEF Guards!Passes
  <2>2. \A v \in Guards!Throttlers : store'[<<ip, r, v>>] = after[v]
    <3>1. "monitors" \in Guards!Throttlers
          /\ \A v \in Guards!Throttlers : Guards!Rank[v] <= Guards!Rank["monitors"]
      BY <1>1
    <3> QED
      BY <1>4, <2>1, <3>1
  <2> QED
    BY <1>1, <1>4, <2>1, <2>2 DEF after
<1> QED
  BY <1>5, <1>6 DEF Guards!Arrives, after
\* An entry that counts a hit that is not late at p, or none that is late then.
LEMMA Frees ==
  ASSUME NEW limit \in Nat \ {0}, NEW a, NEW p \in Nat, NEW now \in Nat,
         Counts(a, limit, now), a.until <= p,
         a.until = 0 => \/ \A h \in a.hits : h[1] + Ttl <= p
                        \/ \E h \in a.hits : h[1] + Ttl <= p
  PROVE  FreeAt(a, p, limit)
<1>1. IsFiniteSet(a.hits) /\ a.hits \in Hits /\ (a.until = 0 => Cardinality(a.hits) <= limit)
  BY DEF Counts
<1>2. /\ Cardinality(Late(a, p)) \in Nat /\ Cardinality(a.hits) \in Nat
      /\ \A h \in a.hits : h[1] + Ttl <= p => Cardinality(Late(a, p)) + 1 <= Cardinality(a.hits)
      /\ (\A h \in a.hits : h[1] + Ttl <= p) => Cardinality(Late(a, p)) = 0
  BY <1>1, LateFinite
<1> QED
  BY <1>1, <1>2 DEF FreeAt

\* A request keeps its address's entries on the route.
LEMMA OwnEntries ==
  ASSUME GuardInvariant, NEW ip \in Ips, NEW r \in Routes, NEW poll, Guards!Arrives(ip, r, poll)
  PROVE  AddressKept(ip, r)'
<1> DEFINE k == <<ip, r>>
           after == Guards!Counted(ip, r)
           s(t) == store[<<ip, r, t>>]
           l(t) == Guards!LimitOf(t, r)
           hit == Guards!Hit(ip, r)
<1>1. /\ Guards!Throttlers = {"default", "auth", "monitors"} /\ Strict = {"auth", "monitors"}
      /\ Guards!applies("default", r) /\ \A t \in Guards!Throttlers : l(t) \in Nat \ {0}
  BY RouteFacts DEF Strict
<1>2. /\ time \in Nat /\ time > 0 /\ Ttl \in Nat \ {0} /\ AddressKept(ip, r)
      /\ k \in DOMAIN passed /\ k \in DOMAIN promised
  BY GuardsAssumption DEF GuardInvariant, Guards!ApiGuardsAssumption
<1>3. /\ time' = time
      /\ \/ /\ after["default"].until # 0
            /\ store'[<<ip, r, "default">>] = after["default"]
            /\ \A u \in Strict : store'[<<ip, r, u>>] = s(u)
            /\ passed' = passed
            /\ promised' = [promised EXCEPT ![k] = after["default"].until]
         \/ \E u \in Strict :
               /\ Guards!applies(u, r) /\ after["default"].until = 0 /\ after[u].until # 0
               /\ \A t \in Guards!Throttlers : store'[<<ip, r, t>>] = after[t]
               /\ passed' = passed
               /\ promised' = [promised EXCEPT ![k] = after[u].until]
         \/ /\ \A t \in Guards!Throttlers : after[t].until = 0
            /\ \A t \in Guards!Throttlers : store'[<<ip, r, t>>] = after[t]
            /\ passed' = [passed EXCEPT ![k] = @ \cup {hit}]
            /\ promised' = [promised EXCEPT ![k] = 0]
  BY Outcomes
<1>4. ASSUME NEW t \in Guards!Throttlers
      PROVE  /\ hit[1] = time
             /\ Counts(s(t), l(t), time) /\ Counts(after[t], l(t), time)
             /\ s(t).until \in Nat /\ after[t].until \in Nat
             /\ s(t).until <= time + Ttl /\ after[t].until <= time + Ttl
             /\ \A h \in s(t).hits \cup after[t].hits : h[1] \in Nat /\ h[1] <= time
             /\ ~Guards!applies(t, r) => after[t] = s(t) /\ s(t) = Guards!Fresh
             /\ Guards!applies(t, r) =>
                  /\ passed[k] \subseteq s(t).hits /\ passed[k] \subseteq after[t].hits
                  /\ after[t].until = 0 => hit \in after[t].hits
                  /\ s(t).until = 0 => s(t).hits \subseteq after[t].hits
                  /\ \/ after[t] = s(t) /\ s(t).until > time
                     \/ s(t).until = 0 /\ hit \in after[t].hits /\ after[t].until \in {0, time + Ttl}
                     \/ after[t].until = 0 /\ s(t).until <= time
  BY AfterHits DEF Counts
<1>5. ASSUME NEW u \in Strict PROVE Follows(s(u), s("default"), time)
  BY <1>2 DEF AddressKept
<1>6. IsFiniteSet(passed[k]) /\ Cardinality(passed[k]) <= Guards!Stated(r)
  BY <1>2 DEF AddressKept
<1>7. \A t \in Guards!Throttlers : l(t) \in Nat \ {0}
  BY <1>1
<1>11. time' = time
  BY <1>3
<1> HIDE DEF after, s, l, hit
\* The default throttler blocks.
<1>8. ASSUME /\ after["default"].until # 0
             /\ store'[<<ip, r, "default">>] = after["default"]
             /\ \A u \in Strict : store'[<<ip, r, u>>] = s(u)
             /\ passed' = passed
             /\ promised' = [promised EXCEPT ![k] = after["default"].until]
      PROVE  AddressKept(ip, r)'
  <2> DEFINE d == after["default"]
             p == d.until
  <2>1. d.until \in Nat /\ d.until <= time + Ttl /\ Counts(d, l("default"), time)
        /\ passed[k] \subseteq d.hits /\ d.until > 0
        /\ (d = s("default") \/ d.until = time + Ttl)
    BY <1>1, <1>4, <1>8
  <2>2. ASSUME NEW u \in Strict PROVE Follows(s(u), d, time)
    <3>1. CASE d = s("default")
      BY <1>5, <3>1
    <3>2. CASE d.until = time + Ttl
      BY <1>1, <1>2, <1>4, <3>2, <2>1 DEF Follows
    <3> QED
      BY <2>1, <3>1, <3>2
  <2>3. promised'[k] = p /\ passed'[k] = passed[k] /\ p \in Nat /\ p # 0
    BY <1>2, <1>8, <2>1
  <2>4. EntryKept(ip, r, "default")'
    <3>1. FreeAt(d, p, l("default"))
      BY <2>1, <1>1 DEF FreeAt
    <3> QED
      BY <3>1, <2>1, <2>3, <1>1, <1>11, <1>8 DEF EntryKept, l
  <2>5. ASSUME NEW u \in Strict PROVE EntryKept(ip, r, u)'
    <3>1. u \in Guards!Throttlers
      BY <1>1
    <3>2. /\ Counts(s(u), l(u), time)
          /\ ~Guards!applies(u, r) => s(u) = Guards!Fresh
          /\ Guards!applies(u, r) => passed[k] \subseteq s(u).hits
      BY <3>1, <1>4
    <3>3. s(u).until <= p /\ \A h \in s(u).hits : h[1] + Ttl <= p
      BY <2>2, <2>3 DEF Follows
    <3>4. FreeAt(s(u), p, l(u))
      <4>1. l(u) \in Nat \ {0} /\ Counts(s(u), l(u), time) /\ time \in Nat /\ p \in Nat
        BY <1>2, <1>7, <2>3, <3>1, <3>2
      <4> HIDE DEF p
      <4> QED
        BY <3>3, <4>1, Frees
    <3>5. store'[<<ip, r, u>>] = s(u)
      BY <1>8
    <3> HIDE DEF p
    <3> QED
      BY <3>2, <3>4, <3>5, <2>3, <1>11 DEF EntryKept, l
  <2>6. \A t \in Guards!Throttlers : EntryKept(ip, r, t)'
    BY <1>1, <2>4, <2>5
  <2> QED
    BY <2>1, <2>2, <2>3, <2>6, <1>3, <1>6, <1>8 DEF AddressKept
\* A strict throttler blocks after the default one counted.
<1>9. ASSUME NEW b \in Strict, Guards!applies(b, r), after["default"].until = 0,
             after[b].until # 0, passed' = passed,
             \A t \in Guards!Throttlers : store'[<<ip, r, t>>] = after[t],
             promised' = [promised EXCEPT ![k] = after[b].until]
      PROVE  AddressKept(ip, r)'
  <2> DEFINE d == after["default"]
             p == after[b].until
  <2>1. p \in Nat /\ p <= time + Ttl /\ p # 0 /\ b \in Guards!Throttlers
    BY <1>1, <1>4, <1>9
  <2>2. promised'[k] = p /\ passed'[k] = passed[k]
    BY <1>2, <1>9
  <2>3. \E h \in d.hits : h[1] + Ttl = p
    <3>1. hit \in d.hits /\ hit[1] = time
      BY <1>1, <1>4, <1>9
    <3>2. CASE p = time + Ttl
      BY <3>1, <3>2
    <3>3. CASE after[b] = s(b) /\ s(b).until > time
      <4>1. CASE s("default").until = 0
        <5>1. \E h \in s("default").hits : h[1] + Ttl = p
          BY <1>5, <3>3, <4>1 DEF Follows
        <5>2. s("default").hits \subseteq d.hits
          BY <1>1, <1>4, <4>1
        <5> QED
          BY <5>1, <5>2
      <4>2. CASE s("default").until # 0
        <5>1. s("default").until <= time
          BY <1>1, <1>2, <1>4, <1>9, <4>2
        <5>2. s(b).until <= s("default").until
          BY <1>5, <4>2 DEF Follows
        <5>3. s(b).until \in Nat /\ s("default").until \in Nat
          BY <1>1, <1>4, <2>1
        <5> QED
          BY <5>1, <5>2, <5>3, <3>3, <1>2
      <4> QED
        BY <4>1, <4>2
    <3> QED
      BY <3>2, <3>3, <2>1, <1>4, <1>9
  <2>4. ASSUME NEW u \in Strict PROVE Follows(after[u], d, time)
    <3>1. CASE u = b
      BY <2>3, <3>1, <1>9 DEF Follows
    <3>2. CASE u # b
      <4>1. ~Guards!applies(u, r) /\ u \in Guards!Throttlers
        BY <1>1, <1>9, <3>2, RouteFacts
      <4>2. after[u].until = 0 /\ after[u].hits = {}
        BY <4>1, <1>4 DEF Guards!Fresh
      <4> QED
        BY <4>2, <1>2, <1>9 DEF Follows
    <3> QED
      BY <3>1, <3>2
  <2>5. ASSUME NEW t \in Guards!Throttlers PROVE EntryKept(ip, r, t)'
    <3>1. /\ Counts(after[t], l(t), time)
          /\ ~Guards!applies(t, r) => after[t] = Guards!Fresh
          /\ Guards!applies(t, r) => passed[k] \subseteq after[t].hits
      BY <1>4
    <3>2. ASSUME Guards!applies(t, r) PROVE FreeAt(after[t], p, l(t))
      <4>1. CASE t = "default"
        <5>1. d.until <= p /\ \E h \in d.hits : h[1] + Ttl <= p
          BY <2>1, <2>3, <1>9
        <5> QED
          <6>1. l(t) \in Nat \ {0} /\ Counts(after[t], l(t), time) /\ time \in Nat /\ p \in Nat
            BY <1>2, <1>7, <2>1, <3>1
          <6> HIDE DEF p
          <6> QED
            BY <4>1, <5>1, <6>1, Frees
      <4>2. CASE t = b
        BY <4>2, <2>1, <1>9 DEF FreeAt
      <4> QED
        BY <4>1, <4>2, <3>2, <1>1, <1>9, RouteFacts
    <3>3. store'[<<ip, r, t>>] = after[t]
      BY <1>9
    <3> HIDE DEF p
    <3> QED
      BY <3>1, <3>2, <3>3, <2>2, <1>11 DEF EntryKept, l
  <2>6. \A u \in Strict : Follows(store'[<<ip, r, u>>], store'[<<ip, r, "default">>], time')
    BY <1>1, <1>3, <1>9, <2>4
  <2> QED
    BY <2>1, <2>2, <2>5, <2>6, <1>3, <1>6, <1>9 DEF AddressKept
\* No throttler blocks.
<1>10. ASSUME \A t \in Guards!Throttlers : after[t].until = 0,
              \A t \in Guards!Throttlers : store'[<<ip, r, t>>] = after[t],
              passed' = [passed EXCEPT ![k] = @ \cup {hit}],
              promised' = [promised EXCEPT ![k] = 0]
       PROVE  AddressKept(ip, r)'
  <2>1. passed'[k] = passed[k] \cup {hit} /\ promised'[k] = 0
    BY <1>2, <1>10
  <2>2. ASSUME NEW t \in Guards!Throttlers
        PROVE  /\ EntryKept(ip, r, t)'
               /\ Guards!applies(t, r) => passed'[k] \subseteq after[t].hits
    <3>1. /\ Counts(after[t], l(t), time)
          /\ ~Guards!applies(t, r) => after[t] = Guards!Fresh
          /\ Guards!applies(t, r) => passed'[k] \subseteq after[t].hits
      BY <1>4, <1>10, <2>1
    <3>2. store'[<<ip, r, t>>] = after[t]
      BY <1>10
    <3> QED
      BY <3>1, <3>2, <2>1, <1>11 DEF EntryKept, l
  <2>3. PICK t \in Guards!Throttlers : Guards!applies(t, r) /\ Guards!Stated(r) = l(t)
    BY RouteFacts DEF l
  <2>4. /\ passed'[k] \in SUBSET after[t].hits /\ IsFiniteSet(after[t].hits)
        /\ Cardinality(after[t].hits) <= l(t)
    BY <2>2, <2>3, <1>4, <1>10 DEF Counts
  <2>5. IsFiniteSet(passed'[k]) /\ Cardinality(passed'[k]) <= Cardinality(after[t].hits)
        /\ Cardinality(passed'[k]) \in Nat /\ Cardinality(after[t].hits) \in Nat
    BY <2>4, FS_Subset, FS_CardinalityType
  <2>6. Cardinality(passed'[k]) <= Guards!Stated(r)
    BY <2>3, <2>4, <2>5, <1>1
  <2>7. \A u \in Strict : Follows(store'[<<ip, r, u>>], store'[<<ip, r, "default">>], time')
    <3> TAKE u \in Strict
    <3>1. /\ store'[<<ip, r, u>>].until = 0 /\ store'[<<ip, r, "default">>].until = 0
      BY <1>1, <1>10
    <3> QED
      BY <3>1, <1>2, <1>3 DEF Follows
  <2> QED
    BY <2>1, <2>2, <2>5, <2>6, <2>7, <1>2, <1>3 DEF AddressKept
<1> QED
  BY <1>3, <1>8, <1>9, <1>10
\* A step of the list's entry: the hits that are no polls are noted, and a block that
\* begins finds more of them than there is room for.
Arrival(ip, r, poll) ==
    /\ Guards!Arrives(ip, r, poll)
    /\ IF poll THEN ip = Poller /\ r = "findAll" /\ polled < time /\ polled' = time
       ELSE polled' = polled

\* One poll per unit of time: in any Ttl there are no more than Ttl.
LEMMA PollsFew ==
  ASSUME time \in Nat, Ttl \in Nat \ {0}, NEW polls \in SUBSET (Nat \X Nat),
         \A h \in polls : h[1] <= time /\ time < h[1] + Ttl,
         \A a, b \in polls : a[1] = b[1] => a = b
  PROVE  IsFiniteSet(polls) /\ Cardinality(polls) \in Nat /\ Cardinality(polls) <= Ttl
<1> DEFINE window == (time - Ttl + 1)..time
           f == [h \in polls |-> h[1]]
<1>1. \A h \in polls : h[1] \in window
  OBVIOUS
<1>2. f \in Injection(polls, window)
  <2>1. f \in [polls -> window]
    BY <1>1
  <2>2. ASSUME NEW a \in polls, NEW b \in polls, f[a] = f[b] PROVE a = b
    BY <2>2
  <2> QED
    BY <2>1, <2>2 DEF Injection, IsInjective
<1>3. IsFiniteSet(window) /\ Cardinality(window) = Ttl
  <2>1. time - Ttl + 1 \in Int /\ time \in Int /\ time - (time - Ttl + 1) + 1 = Ttl
        /\ ~(time - Ttl + 1 > time)
    OBVIOUS
  <2>2. /\ IsFiniteSet(window)
        /\ Cardinality(window) = IF time - Ttl + 1 > time THEN 0
                                  ELSE time - (time - Ttl + 1) + 1
    BY <2>1, FS_Interval
  <2> QED
    BY <2>1, <2>2
<1>4. IsFiniteSet(polls) /\ Cardinality(polls) <= Cardinality(window)
  BY <1>2, <1>3, FS_Injection
<1> QED
  BY <1>3, <1>4, FS_CardinalityType

\* A request for the poller's list.
LEMMA ListArrival ==
  ASSUME GuardInvariant, "findAll" \in Routes, NEW poll \in BOOLEAN,
         Arrival(Poller, "findAll", poll)
  PROVE  LET a == Guards!Counted(Poller, "findAll")["default"] IN
         /\ others' \in Hits /\ IsFiniteSet(others') /\ crowded' \in 0..time
         /\ \A h \in a.hits \ others' : h[1] <= polled'
         /\ \A x, y \in a.hits \ others' : x[1] = y[1] => x = y
         /\ a.until > time => a.until <= crowded' + Ttl
         /\ a.until # 0 => ~(crowded' + Ttl <= time)
<1> DEFINE d == store[<<Poller, "findAll", "default">>]
           a == Guards!Counted(Poller, "findAll")["default"]
           hit == Guards!Hit(Poller, "findAll")
           polls == a.hits \ others'
<1>1. /\ Poller \in Ips /\ time \in Nat /\ time > 0 /\ Ttl \in Nat \ {0} /\ polled \in 0..time
      /\ crowded \in 0..time /\ DefaultLimit \in Nat \ {0} /\ Ttl <= DefaultLimit
      /\ others \in Hits /\ IsFiniteSet(others) /\ "default" \in Guards!Throttlers
      /\ Guards!applies("default", "findAll") /\ Guards!LimitOf("default", "findAll") = DefaultLimit
  BY GuardsAssumption, RouteFacts DEF Guards!ApiGuardsAssumption, GuardInvariant
<1>2. /\ \A h \in d.hits \ others : h[1] <= polled
      /\ \A x, y \in d.hits \ others : x[1] = y[1] => x = y
      /\ d.until > time => d.until <= crowded + Ttl
  BY DEF GuardInvariant, PollsCounted
<1>3. PICK n \in Nat : hit = <<time, n>> /\ a = Guards!increment(d, DefaultLimit, <<time, n>>)
  BY <1>1, CountedHits
<1>4. Counts(d, DefaultLimit, time)
  BY <1>1 DEF GuardInvariant, AddressKept, EntryKept
<1>5. /\ others' = IF poll \/ hit \notin a.hits THEN others ELSE others \cup {hit}
      /\ crowded' = IF Cardinality(others') > Guards!Room THEN time ELSE crowded
  BY SameCardinality DEF Arrival, Guards!Arrives, Guards!Noted
<1>6. IF poll THEN polled < time /\ polled' = time ELSE polled' = polled
  BY DEF Arrival
<1> HIDE DEF a, d, hit
<1>7. /\ Counts(a, DefaultLimit, time) /\ a.hits \subseteq d.hits \cup {hit}
      /\ a.until = 0 \/ a.until > time
      /\ (a = d /\ d.until > time) \/ a.until \in {0, time + Ttl}
  BY <1>1, <1>3, <1>4, Increment
<1>8. others' \in Hits /\ IsFiniteSet(others') /\ crowded' \in 0..time /\ crowded <= crowded'
  <2>1. others' \in Hits
    BY <1>1, <1>3, <1>5 DEF Hits
  <2>2. IsFiniteSet(others')
    BY <1>1, <1>5, FS_AddElement
  <2> QED
    BY <2>1, <2>2, <1>1, <1>5
<1>9. polls \subseteq d.hits \ others \/ (poll /\ polls \subseteq (d.hits \ others) \cup {hit})
  BY <1>5, <1>7
<1>10. \A h \in d.hits \ others : h \in Nat \X Nat
  BY <1>4 DEF Counts, Hits
<1>11. \A h \in polls : h[1] <= polled'
  BY <1>1, <1>2, <1>3, <1>6, <1>9, <1>10
<1>12. \A x, y \in polls : x[1] = y[1] => x = y
  <2> SUFFICES ASSUME NEW x \in polls, NEW y \in polls, x[1] = y[1] PROVE x = y
    OBVIOUS
  <2>1. CASE x \in d.hits \ others /\ y \in d.hits \ others
    BY <2>1, <1>2
  <2>2. CASE poll /\ x = hit /\ y \in d.hits \ others
    BY <2>2, <1>1, <1>2, <1>3, <1>6, <1>10
  <2>3. CASE poll /\ y = hit /\ x \in d.hits \ others
    BY <2>3, <1>1, <1>2, <1>3, <1>6, <1>10
  <2> QED
    BY <2>1, <2>2, <2>3, <1>9
<1>13. ASSUME a.until > time PROVE a.until <= crowded' + Ttl
  <2>1. CASE a = d /\ d.until > time
    <3>1. d.until \in Nat
      BY <1>4 DEF Counts
    <3> QED
      BY <2>1, <3>1, <1>1, <1>2, <1>8
  <2>2. CASE ~(a = d /\ d.until > time)
    <3>1. a.until = time + Ttl
      BY <2>2, <1>1, <1>7, <1>13
    <3>2. /\ d.until = 0 /\ Cardinality(a.hits) > DefaultLimit
      <4>1. a.until # 0
        BY <3>1, <1>1
      <4> QED
        BY <4>1, <2>2, <1>3, SameCardinality DEF Guards!increment
    <3>3. /\ polls \in SUBSET (Nat \X Nat)
          /\ \A h \in polls : h[1] <= time /\ time < h[1] + Ttl
      BY <1>7 DEF Counts, Hits
    <3> HIDE DEF polls
    <3>4. IsFiniteSet(polls) /\ Cardinality(polls) \in Nat /\ Cardinality(polls) <= Ttl
      BY <3>3, <1>1, <1>12, PollsFew
    <3>5. /\ IsFiniteSet(polls \cup others')
          /\ Cardinality(polls \cup others') <= Cardinality(polls) + Cardinality(others')
          /\ Cardinality(others') \in Nat
      <4>1. /\ IsFiniteSet(polls \cup others') /\ IsFiniteSet(polls \cap others')
            /\ Cardinality(polls \cup others') =
                 Cardinality(polls) + Cardinality(others') - Cardinality(polls \cap others')
        BY <1>8, <3>4, FS_Union, FS_Intersection
      <4>2. Cardinality(polls \cap others') \in Nat /\ Cardinality(others') \in Nat
        BY <4>1, <1>8, FS_CardinalityType
      <4> QED
        BY <4>1, <4>2, <3>4
    <3>6. Cardinality(a.hits) <= Cardinality(polls \cup others') /\ Cardinality(a.hits) \in Nat
          /\ Cardinality(polls \cup others') \in Nat
      <4>1. a.hits \in SUBSET (polls \cup others')
        BY DEF polls
      <4> QED
        BY <4>1, <3>5, FS_Subset, FS_CardinalityType
    <3>7. Cardinality(others') > Guards!Room
      BY <3>2, <3>4, <3>5, <3>6, <1>1 DEF Guards!Room
    <3> QED
      BY <3>1, <3>7, <1>1, <1>5
  <2> QED
    BY <2>1, <2>2
<1>14. ASSUME a.until # 0 PROVE ~(crowded' + Ttl <= time)
  <2>1. a.until > time /\ a.until \in Nat /\ time \in Nat /\ Ttl \in Nat
    BY <1>1, <1>7, <1>14 DEF Counts
  <2>2. PICK c \in Nat : c = crowded'
    BY <1>1, <1>8
  <2>3. a.until <= c + Ttl
    BY <2>1, <2>2, <1>13
  <2>4. ~(c + Ttl <= time)
    BY <2>1, <2>3
  <2> QED
    BY <2>2, <2>4
<1> QED
  BY <1>8, <1>11, <1>12, <1>13, <1>14 DEF a

\* A poll that is refused finds a block that others began, and who is refused came
\* before Retry-After.
LEMMA RefusedRightly ==
  ASSUME GuardInvariant, NEW ip \in Ips, NEW r \in Routes, NEW poll \in BOOLEAN,
         Arrival(ip, r, poll), Guards!Throttled(ip, r, poll, Guards!Counted(ip, r))
  PROVE  broken' = {}
<1> DEFINE after == Guards!Counted(ip, r)
<1>1. PICK t \in Guards!Throttlers :
        /\ after[t].until # 0
        /\ broken' = broken \cup (IF poll /\ crowded' + Ttl <= time THEN {"poll"} ELSE {})
                            \cup (IF promised[<<ip, r>>] \in 1..time THEN {"promise"} ELSE {})
  BY DEF Guards!Throttled
<1>2. Guards!applies(t, r)
  BY <1>1, Unapplied
<1>3. promised[<<ip, r>>] \notin 1..time
  BY <1>1, <1>2, AfterHits
<1>4. poll => ip = Poller /\ r = "findAll"
  BY DEF Arrival
<1>5. ASSUME ip = Poller /\ r = "findAll" PROVE ~(crowded' + Ttl <= time)
  <2>1. t = "default"
    BY <1>2, <1>5, RouteFacts DEF Strict
  <2>2. Guards!Counted(Poller, "findAll")["default"].until # 0
    BY <1>1, <1>5, <2>1
  <2> QED
    BY <1>5, <2>2, ListArrival
<1> QED
  BY <1>1, <1>3, <1>4, <1>5 DEF GuardInvariant

LEMMA ArrivalStep ==
  ASSUME GuardInvariant, NEW ip \in Ips, NEW r \in Routes, NEW poll \in BOOLEAN,
         Arrival(ip, r, poll)
  PROVE  GuardInvariant'
<1> DEFINE k == <<ip, r>>
<1>0. Guards!Arrives(ip, r, poll)
  BY DEF Arrival
<1>1. /\ time' = time /\ DOMAIN store' = Guards!Keys
      /\ \A x \in Ips, y \in Routes, t \in Guards!Throttlers :
           <<x, y>> # k => store'[<<x, y, t>>] = store[<<x, y, t>>]
  BY <1>0, Outcomes
<1>2. /\ DOMAIN passed' = DOMAIN passed /\ DOMAIN promised' = DOMAIN promised
      /\ \A x \in Ips, y \in Routes :
           <<x, y>> # k => /\ passed'[<<x, y>>] = passed[<<x, y>>]
                           /\ promised'[<<x, y>>] = promised[<<x, y>>]
  BY <1>0 DEF GuardInvariant, Guards!Arrives, Guards!Throttled, Guards!Passes
<1>3. ASSUME NEW x \in Ips, NEW y \in Routes PROVE AddressKept(x, y)'
  <2>1. CASE <<x, y>> = k
    BY <1>0, <2>1, OwnEntries
  <2>2. CASE <<x, y>> # k
    <3>1. AddressKept(x, y)
      BY DEF GuardInvariant
    <3>2. /\ \A t \in Guards!Throttlers : store'[<<x, y, t>>] = store[<<x, y, t>>]
          /\ passed'[<<x, y>>] = passed[<<x, y>>] /\ promised'[<<x, y>>] = promised[<<x, y>>]
          /\ time' = time
      BY <1>1, <1>2, <2>2
    <3>3. \A t \in Guards!Throttlers : EntryKept(x, y, t)'
      BY <3>1, <3>2 DEF AddressKept, EntryKept
    <3>4. Strict \subseteq Guards!Throttlers /\ "default" \in Guards!Throttlers
      BY RouteFacts DEF Strict
    <3> QED
      BY <3>1, <3>2, <3>3, <3>4 DEF AddressKept
  <2> QED
    BY <2>1, <2>2
<1>4. /\ PollsCounted' /\ others' \in Hits /\ IsFiniteSet(others') /\ crowded' \in 0..time
  <2>1. Poller \in Ips /\ "default" \in Guards!Throttlers
    BY GuardsAssumption, RouteFacts DEF Guards!ApiGuardsAssumption
  <2>2. CASE k = <<Poller, "findAll">>
    <3> DEFINE after == Guards!Counted(Poller, "findAll")
    <3>1. ip = Poller /\ r = "findAll"
      BY <2>2
    <3>2. store'[<<Poller, "findAll", "default">>] = after["default"]
      BY <1>0, <2>1, <3>1, Outcomes
    <3>3. /\ others' \in Hits /\ IsFiniteSet(others') /\ crowded' \in 0..time
          /\ \A h \in after["default"].hits \ others' : h[1] <= polled'
          /\ \A x, y \in after["default"].hits \ others' : x[1] = y[1] => x = y
          /\ after["default"].until > time => after["default"].until <= crowded' + Ttl
      BY <3>1, ListArrival
    <3> HIDE DEF after
    <3> QED
      BY <3>2, <3>3, <1>1 DEF PollsCounted
  <2>3. CASE k # <<Poller, "findAll">>
    <3>1. polled' = polled /\ UNCHANGED <<others, crowded>>
      BY <2>3 DEF Arrival, Guards!Arrives, Guards!Noted
    <3>2. "findAll" \in Routes =>
            store'[<<Poller, "findAll", "default">>] = store[<<Poller, "findAll", "default">>]
      BY <1>1, <2>1, <2>3
    <3> QED
      BY <3>1, <3>2, <1>1 DEF GuardInvariant, PollsCounted
  <2> QED
    BY <2>2, <2>3
<1>5. broken' = {}
  BY <1>0, RefusedRightly DEF Guards!Arrives, Guards!Passes, GuardInvariant
<1>6. time' \in 1..MaxTime /\ polled' \in 0..time'
  BY <1>1 DEF Arrival, GuardInvariant
<1> QED
  BY <1>1, <1>2, <1>3, <1>4, <1>5, <1>6 DEF GuardInvariant

\* A request or a poll.
LEMMA RequestStep ==
  ASSUME GuardInvariant,
         Guards!Poll \/ \E ip \in Ips, r \in Routes : Guards!Request(ip, r)
  PROVE  GuardInvariant'
<1>1. CASE Guards!Poll
  <2>1. Poller \in Ips /\ "findAll" \in Routes /\ Arrival(Poller, "findAll", TRUE)
    BY <1>1, GuardsAssumption DEF Guards!Poll, Arrival, Guards!ApiGuardsAssumption
  <2> QED
    BY <2>1, ArrivalStep
<1>2. ASSUME NEW ip \in Ips, NEW r \in Routes, Guards!Request(ip, r) PROVE GuardInvariant'
  <2>1. Arrival(ip, r, FALSE)
    BY <1>2 DEF Guards!Request, Arrival
  <2> QED
    BY <2>1, ArrivalStep
<1> QED
  BY <1>1, <1>2

LEMMA InitGuards == Guards!Init => GuardInvariant
<1> SUFFICES ASSUME Guards!Init PROVE GuardInvariant
  OBVIOUS
<1>1. Ttl \in Nat \ {0} /\ MaxTime \in Nat \ {0} /\ time = 1 /\ Poller \in Ips
  BY GuardsAssumption DEF Guards!ApiGuardsAssumption, Guards!Init
<1>2. ASSUME NEW ip \in Ips, NEW r \in Routes PROVE AddressKept(ip, r)
  <2>1. ASSUME NEW t \in Guards!Throttlers
        PROVE  store[<<ip, r, t>>] = Guards!Fresh /\ EntryKept(ip, r, t)
    <3>1. store[<<ip, r, t>>] = Guards!Fresh /\ passed[<<ip, r>>] = {} /\ promised[<<ip, r>>] = 0
      BY DEF Guards!Init, Guards!Keys
    <3>2. Guards!LimitOf(t, r) \in Nat /\ IsFiniteSet({}) /\ Cardinality({}) = 0
      BY RouteFacts, FS_EmptySet
    <3>3. Guards!Fresh \in [hits : Hits, until : Nat]
      BY DEF Guards!Fresh, Hits
    <3>4. Counts(Guards!Fresh, Guards!LimitOf(t, r), time)
      BY <1>1, <3>2, <3>3 DEF Counts, Guards!Fresh
    <3> QED
      BY <3>1, <3>4 DEF EntryKept
  <2>2. Strict \subseteq Guards!Throttlers /\ "default" \in Guards!Throttlers /\ Guards!Stated(r) \in Nat
    BY RouteFacts DEF Strict
  <2>3. \A u \in Strict : Follows(store[<<ip, r, u>>], store[<<ip, r, "default">>], time)
    BY <1>1, <2>1, <2>2 DEF Follows, Guards!Fresh
  <2>4. passed[<<ip, r>>] = {} /\ promised[<<ip, r>>] = 0
    BY DEF Guards!Init
  <2> QED
    <3>1. IsFiniteSet({}) /\ Cardinality({}) = 0
      BY FS_EmptySet
    <3>2. /\ IsFiniteSet(passed[<<ip, r>>])
          /\ Cardinality(passed[<<ip, r>>]) <= Guards!Stated(r)
      BY <2>2, <2>4, <3>1
    <3>3. promised[<<ip, r>>] \in Nat /\ promised[<<ip, r>>] <= time + Ttl
      BY <1>1, <2>4
    <3>4. \A t \in Guards!Throttlers : EntryKept(ip, r, t)
      BY <2>1
    <3> QED
      BY <2>3, <3>2, <3>3, <3>4 DEF AddressKept
<1>3. PollsCounted
  <2>1. "findAll" \in Routes => store[<<Poller, "findAll", "default">>] = Guards!Fresh
    BY <1>1, RouteFacts DEF Guards!Init, Guards!Keys
  <2> QED
    BY <1>1, <2>1 DEF PollsCounted, Guards!Fresh
<1>4. others = {} /\ others \in Hits /\ IsFiniteSet(others) /\ crowded = 0
  BY FS_EmptySet DEF Guards!Init, Hits
<1> QED
  BY <1>1, <1>2, <1>3, <1>4 DEF GuardInvariant, Guards!Init

LEMMA NextGuards == GuardInvariant /\ [Guards!Next]_guardVars => GuardInvariant'
<1> SUFFICES ASSUME GuardInvariant, [Guards!Next]_guardVars PROVE GuardInvariant'
  OBVIOUS
<1>1. CASE UNCHANGED guardVars
  BY <1>1 DEF guardVars, GuardInvariant, AddressKept, EntryKept, PollsCounted
<1>2. CASE Guards!Next
  BY <1>2, RequestStep, AdvanceStep DEF Guards!Next
<1> QED
  BY <1>1, <1>2

\* The invariant is more than what the run checks.
LEMMA GuardsSafe ==
  ASSUME GuardInvariant
  PROVE  Guards!TypeOK /\ Guards!WindowRespected /\ Guards!RetryAfterKept
         /\ Guards!PollRefusedByCrowdOnly
<1>1. ASSUME NEW k \in Guards!Keys
      PROVE  /\ Cardinality(store[k].hits) <= Guards!LimitOf(k[3], k[2]) + 1
             /\ store[k].until <= time + Ttl
             /\ store[k].hits # {} => k[3] \in {"default", Guards!Endpoints[k[2]].throttler}
  <2>1. PICK ip \in Ips, r \in Routes, t \in Guards!Throttlers : k = <<ip, r, t>>
    BY DEF Guards!Keys
  <2>2. EntryKept(ip, r, t)
    BY DEF GuardInvariant, AddressKept
  <2>3. Counts(store[k], Guards!LimitOf(t, r), time) /\ Guards!LimitOf(t, r) \in Nat
    BY <2>1, <2>2, RouteFacts DEF EntryKept
  <2>4. Cardinality(store[k].hits) \in Nat
    BY <2>3, FS_CardinalityType DEF Counts
  <2>5. Cardinality(store[k].hits) <= Guards!LimitOf(t, r) + 1
    BY <2>3, <2>4 DEF Counts
  <2>6. store[k].hits # {} => Guards!applies(t, r)
    BY <2>1, <2>2 DEF EntryKept, Guards!Fresh
  <2> QED
    BY <2>1, <2>3, <2>5, <2>6 DEF Counts, Guards!applies
<1>2. ASSUME NEW k \in Ips \X Routes
      PROVE  promised[k] <= time + Ttl /\ Cardinality(passed[k]) <= Guards!Stated(k[2])
  <2>1. PICK ip \in Ips, r \in Routes : k = <<ip, r>>
    OBVIOUS
  <2>2. AddressKept(ip, r)
    BY DEF GuardInvariant
  <2> QED
    BY <2>1, <2>2 DEF AddressKept
<1> QED
  BY <1>1, <1>2, SameCardinality
     DEF Guards!TypeOK, Guards!WindowRespected, Guards!RetryAfterKept,
         Guards!PollRefusedByCrowdOnly, GuardInvariant

\* In the states of a throttler that runs.
Guarded == running \in {"polling", "window"} => GuardInvariant

LEMMA GuardsSound == AllSpec => []Guarded
<1>1. AllInit => Guarded
  BY InitGuards DEF AllInit, Guarded
<1>2. Guarded /\ [AllNext]_allVars => Guarded'
  <2> SUFFICES ASSUME Guarded, [AllNext]_allVars, running' \in {"polling", "window"}
               PROVE  GuardInvariant'
    BY DEF Guarded
  <2>1. running' = running /\ [Guards!Next]_guardVars
    <3>1. CASE UNCHANGED allVars
      BY <3>1 DEF allVars
    <3>2. CASE AllNext
      <4>1. running' = running /\ (UNCHANGED guardVars \/ Polling \/ Window)
        BY <3>2 DEF AllNext
      <4>2. Polling => Guards!Next
        BY GuardsAssumption DEF Polling, Guards!Next
      <4>3. Window => Guards!Next
        BY GuardsAssumption DEF Window, Guards!Next, Guards!ApiGuardsAssumption
      <4> QED
        BY <4>1, <4>2, <4>3
    <3> QED
      BY <3>1, <3>2
  <2> QED
    BY <2>1, NextGuards DEF Guarded
<1> QED
  BY <1>1, <1>2, PTL DEF AllSpec

LEMMA GuardsAlways == Guards!Spec => []GuardInvariant
<1>1. Guards!vars = guardVars
  BY DEF Guards!vars, guardVars
<1>2. Guards!Init => GuardInvariant
  BY InitGuards
<1>3. GuardInvariant /\ [Guards!Next]_(Guards!vars) => GuardInvariant'
  BY <1>1, NextGuards DEF Guards!vars, guardVars
<1> QED
  BY <1>2, <1>3, PTL DEF Guards!Spec

\* For any addresses, limits and Ttl, and any requests of any of them between, in the
\* scopes of the run and without them: a poll of a page is refused only within a Ttl of
\* others at its address asking for the list more often than its polls leave room for
\* (AppThrottlerGuard, increment).
THEOREM PollingCorrect ==
    /\ AllSpec => []PollRefusedByCrowdOnly
    /\ Guards!Spec => []Guards!PollRefusedByCrowdOnly
<1>1. Guarded => PollRefusedByCrowdOnly
  BY GuardsSafe DEF Guarded, PollRefusedByCrowdOnly
<1>2. GuardInvariant => Guards!PollRefusedByCrowdOnly
  BY GuardsSafe
<1> QED
  BY <1>1, <1>2, GuardsSound, GuardsAlways, PTL

\* For any addresses, limits and Ttl, in the scopes of the run and without them: no more
\* requests of an address get through to a route in any Ttl than it states, and who comes
\* back after Retry-After is let through (AppThrottlerGuard, increment).
THEOREM WindowCorrect ==
    /\ AllSpec => []WindowKept
    /\ Guards!Spec => [](Guards!TypeOK /\ Guards!WindowRespected /\ Guards!RetryAfterKept)
<1>1. Guarded => WindowKept
  BY GuardsSafe DEF Guarded, WindowKept
<1>2. GuardInvariant => Guards!TypeOK /\ Guards!WindowRespected /\ Guards!RetryAfterKept
  BY GuardsSafe
<1> QED
  BY <1>1, <1>2, GuardsSound, GuardsAlways, PTL
=============================================================================
