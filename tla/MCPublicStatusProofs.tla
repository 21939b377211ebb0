------------------------ MODULE MCPublicStatusProofs ------------------------
(***************************************************************************)
(* Proofs about what a reader of a status sees, for every number of        *)
(* requests, monitors and limits, each part with its own clock.            *)
(***************************************************************************)
EXTENDS MCPublicStatus, TLAPS

-----------------------------------------------------------------------------
(* The API's cache *)

\* The one running query is the one in flight, only while nothing cached is fresh,
\* and whoever waits waits for it.
FlightOK ==
    /\ \A c \in Clients : query[c].phase # "none" => inFlight = c /\ cached.left = 0
    /\ \A c \in Clients : waits[c] # None =>
         waits[c] \in Clients /\ query[waits[c]].phase # "none"
    /\ inFlight # None => query[inFlight].phase # "none"

\* What a query read and what is fresh never shows less than an answer given.
RowsOK ==
    /\ served.rows <= changes
    /\ cached.left > 0 => cached.rows = served.rows
    /\ \A c \in Clients : query[c].phase = "read" =>
         served.rows <= query[c].rows /\ query[c].rows <= changes

\* A query shows what there was when it started, and what is fresh what there was
\* when it could have started at the earliest.
PastOK ==
    /\ \A i \in 1..MaxAge : past[i] <= changes
    /\ \A i, j \in 1..MaxAge : i <= j => past[j] <= past[i]
    /\ cached.left > 0 => past[MaxAge + 1 - cached.left] <= cached.rows
    /\ \A c \in Clients : query[c].phase = "read" => past[query[c].age + 1] <= query[c].rows

CacheInvariant == TypeOK /\ FlightOK /\ RowsOK /\ PastOK

\* Both are within what past remembers.
LEMMA WithinPast ==
  ASSUME TypeOK
  PROVE  /\ MaxAge \in Nat \ {0}
         /\ cached.left > 0 => MaxAge + 1 - cached.left \in 1..MaxAge
         /\ \A c \in Clients : query[c].age + 1 \in 1..MaxAge
<1> USE LimitsAssumption DEF TypeOK, MaxAge
<1>1. cached.left \in 0..Ttl
  OBVIOUS
<1>2. \A c \in Clients : query[c].age \in 0..QueryLimit
  OBVIOUS
<1> QED
  BY <1>1, <1>2

LEMMA InitCache == Init => CacheInvariant
<1> SUFFICES ASSUME Init PROVE CacheInvariant
  OBVIOUS
<1> USE ClientsAssumption, LimitsAssumption DEF Init, NoQuery, Empty
<1>1. TypeOK
  BY DEF TypeOK
<1>2. FlightOK
  BY DEF FlightOK
<1>3. RowsOK /\ PastOK
  BY DEF RowsOK, PastOK
<1> QED
  BY <1>1, <1>2, <1>3 DEF CacheInvariant

\* What the end of the query of c leaves behind.
LEMMA SettleFlight ==
  ASSUME CacheInvariant, NEW c \in Clients, query[c].phase # "none", Settle(c), inFlight' = None
  PROVE  /\ FlightOK'
         /\ query' \in [Clients -> [phase : {"none", "sent", "read"}, rows : Nat,
                                    age : 0..QueryLimit]]
         /\ waits' \in [Clients -> Clients \cup {None}]
         /\ \A d \in Clients : query'[d].phase = "none"
<1> USE ClientsAssumption, LimitsAssumption DEF CacheInvariant, FlightOK, TypeOK, Settle, NoQuery
<1>1. query' \in [Clients -> [phase : {"none", "sent", "read"}, rows : Nat, age : 0..QueryLimit]]
  OBVIOUS
<1>2. waits' \in [Clients -> Clients \cup {None}]
  OBVIOUS
<1>3. \A d \in Clients : query'[d].phase = "none"
  OBVIOUS
<1>4. \A d \in Clients : waits'[d] = None
  <2> SUFFICES ASSUME NEW d \in Clients, waits[d] # c PROVE waits[d] = None
    OBVIOUS
  <2> QED
    OBVIOUS
<1> QED
  BY <1>1, <1>2, <1>3, <1>4

LEMMA NextCache == CacheInvariant /\ [Next]_vars => CacheInvariant'
<1> SUFFICES ASSUME CacheInvariant, [Next]_vars PROVE CacheInvariant'
  OBVIOUS
<1>0. TypeOK /\ FlightOK /\ RowsOK /\ PastOK
  BY DEF CacheInvariant
<1>00. /\ MaxAge \in Nat \ {0}
       /\ cached.left > 0 => MaxAge + 1 - cached.left \in 1..MaxAge
       /\ \A c \in Clients : query[c].age + 1 \in 1..MaxAge
  BY <1>0, WithinPast
<1> USE ClientsAssumption, LimitsAssumption
<1>1. CASE Hit
  <2>1. TypeOK'
    BY <1>0, <1>1 DEF TypeOK, Hit
  <2>2. FlightOK' /\ RowsOK'
    BY <1>0, <1>1 DEF FlightOK, RowsOK, Hit
  <2>3. PastOK'
    BY <1>0, <1>1 DEF PastOK, Hit
  <2> QED
    BY <2>1, <2>2, <2>3 DEF CacheInvariant
<1>2. CASE Change
  <2>1. TypeOK' /\ FlightOK'
    BY <1>0, <1>2 DEF TypeOK, FlightOK, Change
  <2>2. RowsOK'
    BY <1>0, <1>2 DEF TypeOK, RowsOK, Change
  <2>3. PastOK'
    BY <1>0, <1>2 DEF TypeOK, PastOK, Change
  <2> QED
    BY <2>1, <2>2, <2>3 DEF CacheInvariant
<1>3. CASE Tick
  <2>0. /\ query \in [Clients -> [phase : {"none", "sent", "read"}, rows : Nat,
                                  age : 0..QueryLimit]]
        /\ cached \in [rows : Nat, left : 0..Ttl]
        /\ changes \in Nat /\ past \in [1..MaxAge -> Nat]
        /\ served \in [rows : Nat, recent : BOOLEAN]
    BY <1>0 DEF TypeOK
  <2>1. \A c \in Clients : /\ query'[c].phase = query[c].phase
                           /\ query'[c].rows = query[c].rows
                           /\ query'[c] \in [phase : {"none", "sent", "read"}, rows : Nat,
                                             age : 0..QueryLimit]
    <3>1. /\ query' = [c \in Clients |->
                         IF c \in Running THEN [query[c] EXCEPT !.age = @ + 1] ELSE query[c]]
          /\ \A c \in Running : query[c].age < QueryLimit
      BY <1>3 DEF Tick
    <3> SUFFICES ASSUME NEW c \in Clients
                 PROVE  /\ query'[c].phase = query[c].phase
                        /\ query'[c].rows = query[c].rows
                        /\ query'[c] \in [phase : {"none", "sent", "read"}, rows : Nat,
                                          age : 0..QueryLimit]
      OBVIOUS
    <3>2. query[c] \in [phase : {"none", "sent", "read"}, rows : Nat, age : 0..QueryLimit]
      BY <2>0
    <3>3. CASE c \in Running
      <4>1. query'[c] = [query[c] EXCEPT !.age = query[c].age + 1]
        BY <3>1, <3>3
      <4>2. query[c].age + 1 \in 0..QueryLimit
        BY <3>1, <3>2, <3>3
      <4> QED
        BY <3>2, <4>1, <4>2
    <3>4. CASE c \notin Running
      BY <3>1, <3>2, <3>4
    <3> QED
      BY <3>3, <3>4
  <2>2. /\ cached' \in [rows : Nat, left : 0..Ttl] /\ cached'.rows = cached.rows
        /\ cached.left > 0 => cached'.left = cached.left - 1
        /\ cached.left = 0 => cached'.left = 0
    <3>1. cached' = IF cached.left > 0 THEN [cached EXCEPT !.left = @ - 1] ELSE cached
      BY <1>3 DEF Tick
    <3> QED
      BY <2>0, <3>1
  <2>3. /\ past' \in [1..MaxAge -> Nat]
        /\ \A i \in 1..MaxAge : past'[i] = IF i = 1 THEN changes ELSE past[i - 1]
    <3>1. past' = [i \in 1..MaxAge |-> IF i = 1 THEN changes ELSE past[i - 1]]
      BY <1>3 DEF Tick
    <3>2. \A i \in 1..MaxAge : (IF i = 1 THEN changes ELSE past[i - 1]) \in Nat
      BY <1>00, <2>0
    <3> QED
      BY <3>1, <3>2
  <2>31. served' \in [rows : Nat, recent : BOOLEAN] /\ served'.rows = served.rows
    BY <2>0, <1>3 DEF Tick
  <2>4. TypeOK'
    <3>1. query' \in [Clients -> [phase : {"none", "sent", "read"}, rows : Nat,
                                  age : 0..QueryLimit]]
      BY <2>1, <1>3 DEF Tick
    <3> QED
      BY <1>0, <1>3, <2>2, <2>3, <2>31, <3>1 DEF Tick, TypeOK
  <2>5. FlightOK'
    BY <1>0, <1>3, <2>1, <2>2 DEF Tick, FlightOK, TypeOK
  <2>6. RowsOK'
    BY <1>0, <1>3, <2>1, <2>2, <2>31 DEF Tick, RowsOK, TypeOK
  <2>7. PastOK'
    <3>1. changes \in Nat /\ changes' = changes
      BY <1>0, <1>3 DEF Tick, TypeOK
    <3>2. \A i \in 1..MaxAge : past[i] \in Nat /\ past[i] <= changes
      BY <1>0 DEF TypeOK, PastOK
    <3>3. \A i, j \in 1..MaxAge : i <= j => past[j] <= past[i]
      BY <1>0 DEF PastOK
    <3>4. \A i \in 1..MaxAge : past'[i] <= changes'
      <4> SUFFICES ASSUME NEW i \in 1..MaxAge PROVE past'[i] <= changes'
        OBVIOUS
      <4>1. CASE i = 1
        BY <2>3, <3>1, <4>1
      <4>2. CASE i # 1
        <5>1. i - 1 \in 1..MaxAge
          BY <1>00, <4>2
        <5> QED
          BY <2>3, <3>1, <3>2, <4>2, <5>1
      <4> QED
        BY <4>1, <4>2
    <3>5. \A i, j \in 1..MaxAge : i <= j => past'[j] <= past'[i]
      <4> SUFFICES ASSUME NEW i \in 1..MaxAge, NEW j \in 1..MaxAge, i <= j
                   PROVE  past'[j] <= past'[i]
        OBVIOUS
      <4>1. CASE i = 1
        BY <2>3, <3>1, <3>4, <4>1
      <4>2. CASE i # 1
        <5>1. i - 1 \in 1..MaxAge /\ j - 1 \in 1..MaxAge /\ i - 1 <= j - 1
          BY <1>00, <4>2
        <5> QED
          BY <2>3, <3>3, <4>2, <5>1
      <4> QED
        BY <4>1, <4>2
    <3>6. cached'.left > 0 => past'[MaxAge + 1 - cached'.left] <= cached'.rows
      <4> SUFFICES ASSUME cached'.left > 0
                   PROVE  past'[MaxAge + 1 - cached'.left] <= cached'.rows
        OBVIOUS
      <4> DEFINE i == MaxAge + 1 - cached.left
      <4>1. cached.left \in 1..Ttl /\ cached'.left = cached.left - 1
        BY <1>0, <2>2 DEF TypeOK
      <4>2. i \in 1..MaxAge /\ i + 1 \in 1..MaxAge /\ MaxAge + 1 - cached'.left = i + 1
        BY <1>00, <4>1
      <4>3. past'[i + 1] = past[i]
        <5> HIDE DEF i
        <5> QED
          BY <2>3, <4>2
      <4>4. past[i] <= cached.rows
        BY <1>0, <4>1 DEF PastOK
      <4> QED
        BY <2>2, <4>2, <4>3, <4>4
    <3>7. ASSUME NEW c \in Clients, query'[c].phase = "read"
          PROVE  past'[query'[c].age + 1] <= query'[c].rows
      <4> DEFINE i == query[c].age + 1
      <4>1. query[c].phase = "read" /\ query'[c].rows = query[c].rows /\ c \in Running
        BY <2>1, <3>7 DEF Running
      <4>2. query'[c].age = query[c].age + 1 /\ query[c].age \in Nat
        BY <1>0, <1>3, <4>1 DEF Tick, TypeOK
      <4>3. query'[c].age \in 0..QueryLimit
        BY <2>1
      <4>4. i \in 1..MaxAge /\ i + 1 \in 1..MaxAge
        BY <4>2, <4>3 DEF MaxAge
      <4>5. past'[i + 1] = past[i]
        <5> HIDE DEF i
        <5> QED
          BY <2>3, <4>4
      <4>6. past[i] <= query[c].rows
        BY <1>0, <4>1 DEF PastOK
      <4> QED
        BY <4>1, <4>2, <4>5, <4>6
    <3> QED
      BY <3>4, <3>5, <3>6, <3>7 DEF PastOK
  <2> QED
    BY <2>4, <2>5, <2>6, <2>7 DEF CacheInvariant
<1>4. CASE Restart
  <2>1. TypeOK' /\ PastOK'
    BY <1>0, <1>4 DEF TypeOK, PastOK, Restart, NoQuery, Empty
  <2>2. FlightOK' /\ RowsOK'
    BY <1>0, <1>4 DEF FlightOK, RowsOK, Restart, NoQuery, Empty
  <2> QED
    BY <2>1, <2>2 DEF CacheInvariant
<1>5. ASSUME NEW c \in Clients, Join(c) PROVE CacheInvariant'
  <2>1. TypeOK' /\ PastOK' /\ RowsOK'
    BY <1>0, <1>5 DEF TypeOK, PastOK, RowsOK, Join
  <2>2. FlightOK'
    BY <1>0, <1>5 DEF TypeOK, FlightOK, Join
  <2> QED
    BY <2>1, <2>2 DEF CacheInvariant
<1>6. ASSUME NEW c \in Clients, StartQuery(c) PROVE CacheInvariant'
  <2>1. TypeOK' /\ PastOK'
    BY <1>0, <1>6 DEF TypeOK, PastOK, StartQuery
  <2>2. FlightOK'
    BY <1>0, <1>6 DEF TypeOK, FlightOK, StartQuery
  <2>3. RowsOK'
    BY <1>0, <1>6 DEF TypeOK, RowsOK, StartQuery
  <2> QED
    BY <2>1, <2>2, <2>3 DEF CacheInvariant
<1>7. ASSUME NEW c \in Clients, Read(c) PROVE CacheInvariant'
  <2>1. TypeOK' /\ PastOK'
    BY <1>0, <1>00, <1>7 DEF TypeOK, PastOK, Read
  <2>2. FlightOK'
    BY <1>0, <1>7 DEF TypeOK, FlightOK, Read
  <2>3. RowsOK'
    BY <1>0, <1>7 DEF TypeOK, RowsOK, Read
  <2> QED
    BY <2>1, <2>2, <2>3 DEF CacheInvariant
<1>8. ASSUME NEW c \in Clients, Succeed(c) PROVE CacheInvariant'
  <2>1. query[c].phase # "none" /\ Settle(c) /\ inFlight' = None
    BY <1>8 DEF Succeed
  <2>2. FlightOK' /\ \A d \in Clients : query'[d].phase = "none"
    BY <2>1, SettleFlight
  <2>3. query[c] \in [phase : {"none", "sent", "read"}, rows : Nat, age : 0..QueryLimit]
    BY <1>0 DEF TypeOK
  <2>4. TypeOK' /\ PastOK'
    <3>1. query[c].rows \in Nat /\ query[c].age \in 0..QueryLimit
      BY <2>3
    <3>2. cached' \in [rows : Nat, left : 0..Ttl] /\ cached'.left = Ttl
          /\ cached'.rows = query[c].rows /\ served' \in [rows : Nat, recent : BOOLEAN]
      BY <3>1, <1>8 DEF Succeed
    <3>3. /\ changes' \in Nat /\ inFlight' \in Clients \cup {None}
          /\ past' = past /\ changes' = changes
      BY <1>0, <2>1 DEF TypeOK, Settle
    <3>4. past[MaxAge + 1 - Ttl] <= past[query[c].age + 1]
      <4>1. MaxAge + 1 - Ttl \in 1..MaxAge /\ query[c].age + 1 <= MaxAge + 1 - Ttl
        BY <3>1 DEF MaxAge
      <4> QED
        BY <1>0, <1>00, <4>1 DEF PastOK
    <3>5. past[query[c].age + 1] <= query[c].rows
      BY <1>0, <1>8 DEF PastOK, Succeed
    <3>6. past[MaxAge + 1 - Ttl] <= query[c].rows
      <4>1. MaxAge + 1 - Ttl \in 1..MaxAge
        BY DEF MaxAge
      <4>2. past[MaxAge + 1 - Ttl] \in Nat /\ past[query[c].age + 1] \in Nat
        BY <1>0, <1>00, <4>1 DEF TypeOK
      <4> QED
        BY <3>1, <3>4, <3>5, <4>2
    <3>7. PastOK'
      BY <1>0, <2>2, <3>2, <3>3, <3>6 DEF PastOK
    <3> QED
      BY <1>0, <3>2, <3>3, <3>7, <2>1, SettleFlight DEF TypeOK
  <2>5. RowsOK'
    BY <1>0, <1>8, <2>2, <2>3 DEF TypeOK, RowsOK, Succeed, Settle
  <2> QED
    BY <2>2, <2>4, <2>5 DEF CacheInvariant
<1>9. ASSUME NEW c \in Clients, Fail(c) PROVE CacheInvariant'
  <2>1. query[c].phase # "none" /\ Settle(c) /\ inFlight' = None
    BY <1>9 DEF Fail, Running
  <2>2. FlightOK' /\ \A d \in Clients : query'[d].phase = "none"
    BY <2>1, SettleFlight
  <2>3. TypeOK'
    BY <1>0, <1>9, <2>1, SettleFlight DEF TypeOK, Fail, Settle
  <2>4. PastOK'
    BY <1>0, <1>9, <2>2 DEF PastOK, Fail, Settle
  <2>5. RowsOK'
    BY <1>0, <1>9, <2>2 DEF TypeOK, RowsOK, Fail, Settle
  <2> QED
    BY <2>2, <2>3, <2>4, <2>5 DEF CacheInvariant
<1>10. CASE UNCHANGED vars
  BY <1>0, <1>10 DEF vars, CacheInvariant, TypeOK, FlightOK, RowsOK, PastOK
<1> QED
  BY <1>1, <1>2, <1>3, <1>4, <1>5, <1>6, <1>7, <1>8, <1>9, <1>10 DEF Next

LEMMA CacheAlways == Spec => []CacheInvariant
  BY InitCache, NextCache, PTL DEF Spec

-----------------------------------------------------------------------------
(* The uptime beside the retention *)

\* The initial state.
LEMMA InitUptime ==
    ASSUME Uptime!TicksAssumption, Uptime!Init
    PROVE  Uptime!IInv
<1>1. Uptime!TypeOK
  BY SMT DEF Uptime!TicksAssumption, Uptime!Init, Uptime!TypeOK
<1>2. Uptime!DeletedIsOld
  BY DEF Uptime!Init, Uptime!DeletedIsOld
<1>3. Uptime!UptimePreserved
  BY DEF Uptime!Init, Uptime!UptimePreserved
<1> QED
  BY <1>1, <1>2, <1>3 DEF Uptime!IInv

\* What a running query misses is older than the retention, by the worker's clock.
LEMMA MissedIsOld ==
    ASSUME Uptime!TicksAssumption, Uptime!IInv, windowEnd # None,
           NEW r \in recorded, r \notin present
    PROVE  r.created_at < windowEnd + MaxDelay + Skew - Uptime!RetentionTicks
<1>1. windowEnd \in Int /\ now \in Int /\ now <= windowEnd + MaxDelay /\ r.created_at \in Int
  BY SMT DEF Uptime!TicksAssumption, Uptime!IInv, Uptime!TypeOK, Uptime!DeletedIsOld, Uptime!Result
<1>2. r.created_at < Uptime!WorkerNow - Uptime!RetentionTicks
  BY DEF Uptime!IInv, Uptime!DeletedIsOld
<1> QED
  BY <1>1, <1>2, SMT DEF Uptime!TicksAssumption, Uptime!WorkerNow

\* With the skew and the delay between window and retention, it misses nothing: the
\* results in its window are all present.
LEMMA WindowPresent ==
    ASSUME Uptime!TicksAssumption, Uptime!IInv, windowEnd # None,
           Uptime!RetentionTicks >= window + Skew + MaxDelay
    PROVE  {r \in present : Uptime!InWindow(r, windowEnd)} = {r \in recorded : Uptime!InWindow(r, windowEnd)}
<1>1. windowEnd \in Int /\ window \in Nat
  BY SMT DEF Uptime!TicksAssumption, Uptime!IInv, Uptime!TypeOK
<1>2. ASSUME NEW r \in recorded, Uptime!InWindow(r, windowEnd)
      PROVE  r \in present
  <2>1. r.created_at \in Int /\ r.created_at >= windowEnd - window
    BY <1>2 DEF Uptime!InWindow, Uptime!IInv, Uptime!TypeOK, Uptime!Result
  <2>2. ~(r.created_at < windowEnd + MaxDelay + Skew - Uptime!RetentionTicks)
    BY <1>1, <2>1, SMT DEF Uptime!TicksAssumption
  <2> QED
    BY <2>2, MissedIsOld
<1>3. present \subseteq recorded
  BY DEF Uptime!IInv, Uptime!TypeOK
<1> QED
  BY <1>2, <1>3

\* Every step keeps the invariant.
LEMMA NextUptime ==
    ASSUME Uptime!TicksAssumption, Uptime!IInv, [Uptime!Next]_(Uptime!vars)
    PROVE  Uptime!IInv'
<1> USE DEF Uptime!TicksAssumption
<1>0. window' = window
  BY DEF Uptime!Next, Uptime!vars
<1>1. ASSUME NEW healthy \in BOOLEAN, NEW delay \in {0, 1}, Uptime!Commit(healthy, delay)
      PROVE  Uptime!IInv'
  <2> DEFINE r == [created_at |-> Uptime!WorkerNow - delay, healthy |-> healthy]
  <2>1. r \in Uptime!Result
    BY SMT DEF Uptime!IInv, Uptime!TypeOK, Uptime!Result, Uptime!WorkerNow
  <2>2. Uptime!TypeOK'
    BY <1>0, <1>1, <2>1 DEF Uptime!IInv, Uptime!TypeOK, Uptime!Commit
  <2>3. recorded' \ present' \subseteq recorded \ present
    BY <1>1 DEF Uptime!Commit
  <2>4. Uptime!DeletedIsOld'
    BY <1>1, <2>3 DEF Uptime!IInv, Uptime!DeletedIsOld, Uptime!Commit, Uptime!WorkerNow
  <2>5. Uptime!UptimePreserved'
    BY <1>0, <1>1 DEF Uptime!IInv, Uptime!UptimePreserved, Uptime!Commit
  <2> QED
    BY <2>2, <2>4, <2>5 DEF Uptime!IInv
<1>2. ASSUME NEW doomed \in SUBSET present, Uptime!DeleteBatch(doomed)
      PROVE  Uptime!IInv'
  <2>1. Uptime!TypeOK'
    BY <1>0, <1>2 DEF Uptime!IInv, Uptime!TypeOK, Uptime!DeleteBatch, Uptime!results
  <2>2. ASSUME NEW r \in recorded', r \notin present'
        PROVE  r.created_at < Uptime!WorkerNow' - Uptime!RetentionTicks
    <3>1. CASE r \in recorded \ present
      BY <1>2, <3>1 DEF Uptime!IInv, Uptime!DeletedIsOld, Uptime!DeleteBatch, Uptime!WorkerNow
    <3>2. CASE r \in doomed
      <4>1. r.created_at < cutoff /\ cutoff \in Int /\ cutoff <= now + Skew - Uptime!RetentionTicks
        BY <1>0, <1>2, <3>2 DEF Uptime!IInv, Uptime!TypeOK, Uptime!DeletedIsOld, Uptime!DeleteBatch, Uptime!WorkerNow
      <4>2. r.created_at \in Int /\ now \in Int
        BY <1>0, <1>2, <3>2, SMT DEF Uptime!IInv, Uptime!TypeOK, Uptime!Result
      <4> QED
        BY <1>2, <4>1, <4>2, SMT DEF Uptime!DeleteBatch, Uptime!WorkerNow
    <3> QED
      BY <1>2, <2>2, <3>1, <3>2 DEF Uptime!DeleteBatch
  <2>3. Uptime!DeletedIsOld'
    BY <1>2, <2>2 DEF Uptime!IInv, Uptime!DeletedIsOld, Uptime!DeleteBatch
  <2>4. Uptime!UptimePreserved'
    BY <1>0, <1>2 DEF Uptime!IInv, Uptime!UptimePreserved, Uptime!DeleteBatch
  <2> QED
    BY <2>1, <2>3, <2>4 DEF Uptime!IInv
<1>3. CASE Uptime!StartBatch
  <2>1. cutoff' = now + Skew - Uptime!RetentionTicks /\ cutoff' \in Int
    BY <1>0, <1>3, SMT DEF Uptime!StartBatch, Uptime!Cutoff, Uptime!WorkerNow, Uptime!IInv, Uptime!TypeOK
  <2>2. cutoff' <= now + Skew - Uptime!RetentionTicks
    BY <2>1, SMT
  <2>3. Uptime!TypeOK'
    BY <1>0, <1>3, <2>1 DEF Uptime!IInv, Uptime!TypeOK, Uptime!StartBatch, Uptime!results
  <2>4. Uptime!DeletedIsOld'
    <3>1. /\ now' = now /\ recorded' = recorded /\ present' = present
          /\ windowEnd' = windowEnd
      BY <1>3 DEF Uptime!StartBatch, Uptime!results
    <3>2. Uptime!WorkerNow' = Uptime!WorkerNow
      BY <3>1 DEF Uptime!WorkerNow
    <3>3. cutoff' <= Uptime!WorkerNow - Uptime!RetentionTicks
      BY <1>0, <1>3, <2>1, SMT DEF Uptime!WorkerNow, Uptime!IInv, Uptime!TypeOK
    <3> QED
      BY <3>1, <3>2, <3>3 DEF Uptime!IInv, Uptime!DeletedIsOld
  <2>5. Uptime!UptimePreserved'
    BY <1>0, <1>3 DEF Uptime!IInv, Uptime!UptimePreserved, Uptime!StartBatch
  <2> QED
    BY <2>3, <2>4, <2>5 DEF Uptime!IInv
<1>4. CASE Uptime!StartQuery
  <2>1. windowEnd' = now /\ now \in Int /\ now <= now + MaxDelay
    BY <1>0, <1>4, SMT DEF Uptime!StartQuery, Uptime!IInv, Uptime!TypeOK
  <2>2. Uptime!TypeOK'
    BY <1>0, <1>4, <2>1 DEF Uptime!IInv, Uptime!TypeOK, Uptime!StartQuery, Uptime!results
  <2>3. Uptime!DeletedIsOld'
    BY <1>4, <2>1, SMT DEF Uptime!IInv, Uptime!DeletedIsOld, Uptime!StartQuery, Uptime!results, Uptime!WorkerNow
  <2>4. Uptime!UptimePreserved'
    BY <1>0, <1>4 DEF Uptime!IInv, Uptime!UptimePreserved, Uptime!StartQuery
  <2> QED
    BY <2>2, <2>3, <2>4 DEF Uptime!IInv
<1>5. CASE Uptime!AnswerQuery
  <2>1. Uptime!TypeOK'
    BY <1>0, <1>5 DEF Uptime!IInv, Uptime!TypeOK, Uptime!AnswerQuery, Uptime!results
  <2>2. Uptime!DeletedIsOld'
    BY <1>5 DEF Uptime!IInv, Uptime!DeletedIsOld, Uptime!AnswerQuery, Uptime!results, Uptime!WorkerNow
  <2>3. Uptime!RetentionTicks >= window + Skew + MaxDelay => answer'.counted = answer'.deserved
    BY <1>5, WindowPresent DEF Uptime!AnswerQuery
  <2>4. \A r \in answer'.missed : r.created_at < answer'.end + MaxDelay + Skew - Uptime!RetentionTicks
    <3>1. answer'.end = windowEnd /\ answer'.missed \subseteq recorded \ present /\ windowEnd # None
      BY <1>5 DEF Uptime!AnswerQuery
    <3> QED
      BY <3>1, MissedIsOld
  <2>5. Uptime!UptimePreserved'
    BY <1>0, <2>3, <2>4 DEF Uptime!UptimePreserved
  <2> QED
    BY <2>1, <2>2, <2>5 DEF Uptime!IInv
<1>6. CASE Uptime!Advance
  <2>1. now \in Nat /\ now' = now + 1 /\ now' \in 0..MaxUptime
    BY <1>0, <1>6, SMT DEF Uptime!IInv, Uptime!TypeOK, Uptime!Advance
  <2>2. Uptime!TypeOK'
    BY <1>0, <1>6, <2>1 DEF Uptime!IInv, Uptime!TypeOK, Uptime!Advance, Uptime!results
  <2>3. ASSUME NEW r \in recorded \ present
        PROVE  r.created_at < now' + Skew - Uptime!RetentionTicks
    <3>1. r.created_at \in Int /\ r.created_at < now + Skew - Uptime!RetentionTicks
      BY DEF Uptime!IInv, Uptime!TypeOK, Uptime!Result, Uptime!DeletedIsOld, Uptime!WorkerNow
    <3> QED
      BY <2>1, <3>1, SMT
  <2>4. ASSUME cutoff # None
        PROVE  cutoff <= now' + Skew - Uptime!RetentionTicks
    <3>1. cutoff \in Int /\ cutoff <= now + Skew - Uptime!RetentionTicks
      BY <2>4 DEF Uptime!IInv, Uptime!TypeOK, Uptime!DeletedIsOld, Uptime!WorkerNow
    <3> QED
      BY <2>1, <3>1, SMT
  <2>5. ASSUME windowEnd # None
        PROVE  windowEnd <= now' /\ now' <= windowEnd + MaxDelay
    <3>1. windowEnd \in Int /\ windowEnd <= now /\ now < windowEnd + MaxDelay
      BY <1>0, <1>6, <2>5 DEF Uptime!IInv, Uptime!TypeOK, Uptime!DeletedIsOld, Uptime!Advance
    <3> QED
      BY <2>1, <3>1, SMT
  <2>6. Uptime!DeletedIsOld'
    BY <1>6, <2>3, <2>4, <2>5 DEF Uptime!DeletedIsOld, Uptime!Advance, Uptime!results, Uptime!WorkerNow
  <2>7. Uptime!UptimePreserved'
    BY <1>0, <1>6 DEF Uptime!IInv, Uptime!UptimePreserved, Uptime!Advance
  <2> QED
    BY <2>2, <2>6, <2>7 DEF Uptime!IInv
<1>7. CASE UNCHANGED Uptime!vars
  BY <1>7 DEF Uptime!IInv, Uptime!TypeOK, Uptime!DeletedIsOld, Uptime!UptimePreserved, Uptime!vars, Uptime!results, Uptime!WorkerNow
<1> QED
  BY <1>1, <1>2, <1>3, <1>4, <1>5, <1>6, <1>7 DEF Uptime!Next

-----------------------------------------------------------------------------
(* The labels of the status page *)

\* A check left m in the state that r shows when r says, and the row shows none older.
Backed(m, r) ==
    /\ r.checked \in Nat /\ r.checked <= row[m].checked
    /\ r.state \in Page!Results /\ r.checked # Page!Never => r.checked <= lastSeen[m][r.state]

RowsBacked(rows) ==
    /\ DOMAIN rows \subseteq Monitors
    /\ \A m \in DOMAIN rows : Backed(m, rows[m]) /\ rows[m].ratio \in Ratios

\* However old they are: the rows of the table, of the API's cache, of the answer
\* in flight and on the page are all backed.
PageInvariant ==
    /\ Page!TypeOK
    /\ row \in [Monitors -> [state : Page!Results \cup {"null"}, checked : 0..time]]
    /\ lastSeen \in [Monitors -> [Page!Results -> 0..time]]
    /\ \A m \in Monitors : Backed(m, row[m])
    /\ response.until \in Nat
    /\ RowsBacked(response.rows) /\ RowsBacked(data)
    /\ \A a \in asked : a[1] = "served" => RowsBacked(a[2])

LEMMA InitPage ==
    ASSUME Page!StatusAssumption, Page!Init
    PROVE  PageInvariant
<1> USE DEF Page!StatusAssumption, Page!Init, Page!Never
<1>1. Page!TypeOK
  <2>1. /\ time = 1 /\ pageNow = 1 /\ MaxPage \in Nat \ {0} /\ Refresh \in Nat /\ PageTtl \in Nat
        /\ response.until = 0 /\ DOMAIN data = {}
    OBVIOUS
  <2>2. time \in 1..MaxPage /\ pageNow \in 1..time /\ time - pageNow <= Refresh
        /\ response.until <= time + PageTtl
    BY <2>1
  <2> QED
    BY <2>1, <2>2 DEF Page!TypeOK
<1>2. row \in [Monitors -> [state : Page!Results \cup {"null"}, checked : 0..time]]
  BY DEF Page!Results
<1>3. lastSeen \in [Monitors -> [Page!Results -> 0..time]]
  OBVIOUS
<1>4. \A m \in Monitors : Backed(m, row[m])
  BY DEF Backed, Page!Results
<1>5. RowsBacked(response.rows) /\ RowsBacked(data) /\ response.until \in Nat
  BY DEF RowsBacked
<1>6. \A a \in asked : a[1] # "served"
  OBVIOUS
<1> QED
  BY <1>1, <1>2, <1>3, <1>4, <1>5, <1>6 DEF PageInvariant

\* What was backed stays so while rows and results only become newer.
LEMMA BackedLater ==
    ASSUME PageInvariant, NEW rows, RowsBacked(rows),
           \A m \in Monitors :
             /\ row'[m].checked \in Nat /\ row'[m].checked >= row[m].checked
             /\ \A s \in Page!Results :
                  lastSeen'[m][s] \in Nat /\ lastSeen'[m][s] >= lastSeen[m][s]
    PROVE  RowsBacked(rows)'
<1> SUFFICES ASSUME NEW m \in DOMAIN rows PROVE Backed(m, rows[m])'
  BY DEF RowsBacked
<1>1. m \in Monitors /\ Backed(m, rows[m])
  BY DEF RowsBacked
<1>2. /\ row[m] \in [state : Page!Results \cup {"null"}, checked : 0..time]
      /\ lastSeen[m] \in [Page!Results -> 0..time] /\ time \in Nat
  BY <1>1 DEF PageInvariant, Page!TypeOK
<1>3. rows[m].checked \in Nat /\ rows[m].checked <= row'[m].checked
  BY <1>1, <1>2 DEF Backed
<1>4. ASSUME rows[m].state \in Page!Results, rows[m].checked # Page!Never
      PROVE  rows[m].checked <= lastSeen'[m][rows[m].state]
  <2>1. rows[m].checked <= lastSeen[m][rows[m].state]
    BY <1>1, <1>4 DEF Backed
  <2>2. lastSeen[m][rows[m].state] \in Nat
    BY <1>2, <1>4
  <2> QED
    BY <1>1, <1>3, <1>4, <2>1, <2>2
<1> QED
  BY <1>3, <1>4 DEF Backed

\* A new answer of the API shows the rows of the table.
LEMMA AnswerBacked ==
    ASSUME PageInvariant, NEW rows \in Page!Answers(public)
    PROVE  RowsBacked(rows)
<1>1. /\ DOMAIN rows = public
      /\ \A m \in public : /\ rows[m].state = row[m].state /\ rows[m].checked = row[m].checked
                            /\ rows[m].ratio \in Ratios
  BY DEF Page!Answers
<1>2. public \subseteq Monitors
  BY DEF PageInvariant, Page!TypeOK
<1> QED
  BY <1>1, <1>2 DEF PageInvariant, RowsBacked, Backed

\* A step that writes no row.
LEMMA ReadStep ==
    ASSUME PageInvariant, UNCHANGED <<row, lastSeen>>, Page!TypeOK', time' \in Nat, time' >= time,
           response'.until \in Nat, RowsBacked(response'.rows), RowsBacked(data'),
           \A a \in asked' : a[1] = "served" => RowsBacked(a[2])
    PROVE  PageInvariant'
<1>0. time \in Nat
  BY DEF PageInvariant, Page!TypeOK
<1>1. \A rows : RowsBacked(rows) => RowsBacked(rows)'
  BY DEF RowsBacked, Backed
<1>2. /\ RowsBacked(response.rows)' /\ RowsBacked(data)'
      /\ \A a \in asked' : a[1] = "served" => RowsBacked(a[2])'
  BY DEF RowsBacked, Backed
<1>3. row' \in [Monitors -> [state : Page!Results \cup {"null"}, checked : 0..time']]
  BY <1>0 DEF PageInvariant
<1>4. lastSeen' \in [Monitors -> [Page!Results -> 0..time']]
  BY <1>0 DEF PageInvariant
<1>5. \A m \in Monitors : Backed(m, row[m])'
  BY DEF PageInvariant, Backed
<1> QED
  BY <1>2, <1>3, <1>4, <1>5 DEF PageInvariant

LEMMA NextPage ==
    ASSUME Page!StatusAssumption, PageInvariant, [Page!Next]_(Page!vars)
    PROVE  PageInvariant'
<1> USE DEF Page!StatusAssumption, Page!Never
<1>0. /\ Page!TypeOK /\ response.until \in Nat
      /\ RowsBacked(response.rows) /\ RowsBacked(data)
      /\ \A a \in asked : a[1] = "served" => RowsBacked(a[2])
  BY DEF PageInvariant
<1>1. CASE Page!Tick
  <2>1. Page!TypeOK' /\ time' \in Nat /\ time' >= time
    BY <1>0, <1>1 DEF Page!Tick, Page!TypeOK
  <2> QED
    BY <1>0, <1>1, <2>1, ReadStep DEF Page!Tick
<1>2. CASE Page!Fetch
  <2>1. Page!TypeOK' /\ time' \in Nat /\ time' >= time
    BY <1>0, <1>2 DEF Page!Fetch, Page!TypeOK
  <2>2. \A a \in asked' : a[1] # "served"
    BY <1>2 DEF Page!Fetch
  <2> QED
    BY <1>0, <1>2, <2>1, <2>2, ReadStep DEF Page!Fetch
<1>3. CASE Page!Succeed
  <2>1. PICK rows \in {a[2] : a \in {b \in asked : b[1] = "served"}} :
           /\ loaded' = TRUE /\ data' = rows /\ asked' = {}
           /\ UNCHANGED <<time, row, public, response, pageNow, lastSeen>>
    BY <1>3 DEF Page!Succeed
  <2>2. RowsBacked(rows)
    BY <1>0, <2>1
  <2>3. Page!TypeOK' /\ time' \in Nat /\ time' >= time
    BY <1>0, <2>1, <2>2 DEF Page!TypeOK, RowsBacked, Backed
  <2> QED
    BY <1>0, <2>1, <2>2, <2>3, ReadStep
<1>4. CASE Page!Fail
  <2>1. Page!TypeOK' /\ time' \in Nat /\ time' >= time
    BY <1>0, <1>4 DEF Page!Fail, Page!TypeOK
  <2> QED
    BY <1>0, <1>4, <2>1, ReadStep DEF Page!Fail
<1>5. CASE Page!Serve
  <2>1. UNCHANGED <<time, row, public, pageNow, loaded, data, lastSeen>>
    BY <1>5 DEF Page!Serve
  <2>2. CASE asked' = {<<"served", response.rows>>} /\ UNCHANGED response
    <3>1. Page!TypeOK' /\ time' \in Nat /\ time' >= time
      BY <1>0, <2>1, <2>2 DEF Page!TypeOK
    <3>2. \A a \in asked' : a[1] = "served" => RowsBacked(a[2])
      BY <1>0, <2>2
    <3> QED
      BY <1>0, <2>1, <2>2, <3>1, <3>2, ReadStep
  <2>3. ASSUME NEW rows \in Page!Answers(public), asked' = {<<"served", rows>>},
               response' = [rows |-> rows, until |-> time + PageTtl]
        PROVE  PageInvariant'
    <3>1. RowsBacked(rows)
      BY AnswerBacked
    <3>2. response'.rows = rows /\ response'.until = time + PageTtl
      BY <2>3
    <3>3. Page!TypeOK' /\ time' \in Nat /\ time' >= time /\ response'.until \in Nat
      BY <1>0, <2>1, <3>2 DEF Page!TypeOK
    <3>4. \A a \in asked' : a[1] = "served" => RowsBacked(a[2])
      BY <2>3, <3>1
    <3> QED
      BY <1>0, <2>1, <3>1, <3>2, <3>3, <3>4, ReadStep
  <2> QED
    BY <1>5, <2>2, <2>3 DEF Page!Serve
<1>6. ASSUME NEW m \in Monitors, Page!Check(m) PROVE PageInvariant'
  <2>1. PICK r \in Page!Results \cup {row[m].state} :
           /\ row' = [row EXCEPT ![m] = [state |-> r, checked |-> time]]
           /\ lastSeen' = [lastSeen EXCEPT
                              ![m] = [s \in Page!Results |-> IF s = r THEN time ELSE lastSeen[m][s]]]
    BY <1>6 DEF Page!Check
  <2>2. UNCHANGED <<time, public, response, pageNow, loaded, data, asked>>
    BY <1>6 DEF Page!Check, Page!page
  <2>3. /\ row \in [Monitors -> [state : Page!Results \cup {"null"}, checked : 0..time]]
        /\ lastSeen \in [Monitors -> [Page!Results -> 0..time]] /\ time \in Nat
    BY DEF PageInvariant, Page!TypeOK
  <2>10. r \in Page!Results \cup {"null"}
    BY <2>1, <2>3
  <2>4. row' \in [Monitors -> [state : Page!Results \cup {"null"}, checked : 0..time]]
    BY <2>1, <2>3, <2>10
  <2>5. lastSeen' \in [Monitors -> [Page!Results -> 0..time]]
    BY <2>1, <2>3
  <2>6. ASSUME NEW k \in Monitors
        PROVE  /\ row'[k].checked \in Nat /\ row'[k].checked >= row[k].checked
               /\ \A s \in Page!Results :
                    lastSeen'[k][s] \in Nat /\ lastSeen'[k][s] >= lastSeen[k][s]
    <3>1. row[k] \in [state : Page!Results \cup {"null"}, checked : 0..time]
          /\ lastSeen[k] \in [Page!Results -> 0..time]
      BY <2>3
    <3>2. row'[k] = row[k] \/ row'[k] = [state |-> r, checked |-> time]
      BY <2>1, <2>3
    <3>3. \A s \in Page!Results : lastSeen'[k][s] = lastSeen[k][s] \/ lastSeen'[k][s] = time
      BY <2>1, <2>3
    <3> QED
      BY <2>3, <3>1, <3>2, <3>3
  <2>7. /\ RowsBacked(response.rows)' /\ RowsBacked(data)'
        /\ \A a \in asked' : a[1] = "served" => RowsBacked(a[2])'
    <3>1. \A rows : RowsBacked(rows) => RowsBacked(rows)'
      BY <2>6, BackedLater
    <3> QED
      BY <1>0, <2>2, <3>1 DEF RowsBacked, Backed
  <2>8. ASSUME NEW k \in Monitors PROVE Backed(k, row[k])'
    <3>1. CASE k = m
      <4>1. /\ row'[k].state = r /\ row'[k].checked = time
            /\ r \in Page!Results => lastSeen'[k][r] = time
        BY <2>1, <2>3, <3>1
      <4> QED
        BY <2>3, <4>1 DEF Backed
    <3>2. CASE k # m
      BY <2>1, <2>3, <3>2 DEF PageInvariant, Backed
    <3> QED
      BY <3>1, <3>2
  <2>9. Page!TypeOK'
    <3>1. ASSUME NEW k \in DOMAIN data' PROVE data'[k].checked <= row'[k].checked
      BY <2>7 DEF RowsBacked, Backed
    <3> QED
      BY <1>0, <2>2, <3>1 DEF Page!TypeOK
  <2> QED
    BY <1>0, <2>2, <2>4, <2>5, <2>7, <2>8, <2>9 DEF PageInvariant
<1>7. CASE Page!Publish
  <2>1. Page!TypeOK' /\ time' \in Nat /\ time' >= time
    BY <1>0, <1>7 DEF Page!Publish, Page!TypeOK, Page!page
  <2> QED
    BY <1>0, <1>7, <2>1, ReadStep DEF Page!Publish, Page!page
<1>8. CASE Page!Advance
  <2>1. Page!TypeOK' /\ time' \in Nat /\ time' >= time
    BY <1>0, <1>8 DEF Page!Advance, Page!TypeOK, Page!page
  <2> QED
    BY <1>0, <1>8, <2>1, ReadStep DEF Page!Advance, Page!page
<1>9. CASE UNCHANGED Page!vars
  <2>1. Page!TypeOK' /\ time' \in Nat /\ time' >= time
    BY <1>0, <1>9 DEF Page!vars, Page!TypeOK, Page!page
  <2> QED
    BY <1>0, <1>9, <2>1, ReadStep DEF Page!vars, Page!page
<1> QED
  BY <1>1, <1>2, <1>3, <1>4, <1>5, <1>6, <1>7, <1>8, <1>9 DEF Page!Next

\* A backed row that was not too old for the page's clock is recent for the clock
\* of the world.
LEMMA LabelsBacked ==
    ASSUME Page!StatusAssumption, PageInvariant
    PROVE  Page!LabelEarned
<1> SUFFICES ASSUME NEW m \in DOMAIN data
             PROVE  /\ Page!Label(m) \in {"Operational", "Degraded"} => Page!Recent(m, "healthy")
                    /\ Page!Label(m) = "Down" => Page!Recent(m, "unhealthy")
  BY DEF Page!LabelEarned
<1>1. /\ m \in Monitors /\ data[m].checked \in Nat /\ data[m].ratio \in {"none", "low", "high"}
      /\ data[m].state \in Page!Results /\ data[m].checked # Page!Never =>
           data[m].checked <= lastSeen[m][data[m].state]
      /\ lastSeen[m] \in [Page!Results -> 0..time]
      /\ time \in Nat /\ pageNow \in Nat /\ pageNow <= time /\ time - pageNow <= Refresh
  <2>1. m \in Monitors /\ Backed(m, data[m]) /\ data[m].ratio \in Ratios
    BY DEF PageInvariant, RowsBacked
  <2>2. lastSeen[m] \in [Page!Results -> 0..time]
    BY <2>1 DEF PageInvariant
  <2>3. time \in Nat /\ pageNow \in Nat /\ pageNow <= time /\ time - pageNow <= Refresh
    BY DEF PageInvariant, Page!TypeOK
  <2> QED
    BY <2>1, <2>2, <2>3 DEF Backed, Page!StatusAssumption
<1>2. ASSUME Page!Label(m) # "No data"
      PROVE  /\ data[m].state \in Page!Results
             /\ Page!Recent(m, data[m].state)
  <2>1. /\ data[m].state \in Page!Results /\ data[m].checked # Page!Never
        /\ ~(data[m].checked > pageNow) /\ ~(pageNow - data[m].checked > StaleAfter)
    BY <1>2 DEF Page!Label, Page!classifyStatus
  <2>2. lastSeen[m][data[m].state] \in Nat /\ data[m].checked <= lastSeen[m][data[m].state]
    BY <1>1, <2>1
  <2> QED
    BY <1>1, <2>1, <2>2 DEF Page!Recent, Page!Never, Page!StatusAssumption
<1>3. Page!Label(m) = "Down" => data[m].state = "unhealthy"
  BY <1>1 DEF Page!Label, Page!classifyStatus, Page!Results
<1>4. Page!Label(m) \in {"Operational", "Degraded"} => data[m].state = "healthy"
  BY <1>1 DEF Page!Label, Page!classifyStatus, Page!Results
<1> QED
  BY <1>2, <1>3, <1>4

\* Some label is the worst.
LEMMA WorstOfFour ==
    ASSUME NEW labels, NEW a, NEW b, NEW c, NEW d, labels \subseteq {a, b, c, d}, labels # {},
           Page!Severity(a) = 0, Page!Severity(b) = 1, Page!Severity(c) = 2, Page!Severity(d) = 3
    PROVE  \E l \in labels : \A k \in labels : Page!Severity(k) <= Page!Severity(l)
<1>1. CASE d \in labels
  BY <1>1
<1>2. CASE d \notin labels /\ c \in labels
  BY <1>2
<1>3. CASE labels \subseteq {a, b} /\ b \in labels
  BY <1>3
<1>4. CASE labels = {a}
  BY <1>4
<1> QED
  BY <1>1, <1>2, <1>3, <1>4

LEMMA WorstLabel ==
    ASSUME NEW labels, labels \subseteq Page!Labels, labels # {}
    PROVE  \E l \in labels : \A k \in labels : Page!Severity(k) <= Page!Severity(l)
<1> DEFINE unknown == "No data"
<1>1. /\ Page!Severity("Operational") = 0 /\ Page!Severity(unknown) = 1
      /\ Page!Severity("Degraded") = 2 /\ Page!Severity("Down") = 3
  BY DEF Page!Severity, Page!severity
<1>2. labels \subseteq {"Operational", unknown, "Degraded", "Down"}
  BY DEF Page!Labels
<1> HIDE DEF unknown
<1> QED
  BY <1>1, <1>2, WorstOfFour

\* The summary is the all-clear only if every label is "Operational", and there is one:
\* of any other labels it is the worst.
LEMMA AllClearBacked ==
    ASSUME Page!StatusAssumption, PageInvariant
    PROVE  Page!AllClearEarned
<1> SUFFICES ASSUME Page!summarizeStatus(data, pageNow) = "All systems operational"
             PROVE  DOMAIN data # {} /\ \A m \in DOMAIN data : Page!Recent(m, "healthy")
  BY DEF Page!AllClearEarned
<1> DEFINE labels == {Page!classifyStatus(data[m], pageNow) : m \in DOMAIN data}
<1>1. labels \subseteq Page!Labels
  <2>1. \A m \in DOMAIN data : data[m].ratio \in {"none", "low", "high"}
    BY DEF PageInvariant, RowsBacked, Page!StatusAssumption
  <2>2. \A m \in DOMAIN data : Page!classifyStatus(data[m], pageNow) \in Page!Labels
    BY <2>1 DEF Page!Labels, Page!classifyStatus
  <2> QED
    BY <2>2
<1>2. labels # {}
  BY DEF Page!summarizeStatus
<1>3. ASSUME labels # {"Operational"} PROVE FALSE
  <2>1. (CHOOSE l \in labels : \A k \in labels : Page!Severity(k) <= Page!Severity(l))
          = "All systems operational"
    BY <1>2, <1>3 DEF Page!summarizeStatus
  <2>2. \E l \in labels : \A k \in labels : Page!Severity(k) <= Page!Severity(l)
    BY <1>1, <1>2, WorstLabel
  <2>3. "All systems operational" \in labels
    <3> HIDE DEF labels
    <3> QED
      BY <2>1, <2>2
  <2> QED
    BY <1>1, <2>3 DEF Page!Labels
<1>4. \A m \in DOMAIN data : Page!Label(m) = "Operational"
  BY <1>3 DEF Page!Label
<1> QED
  BY <1>2, <1>4, LabelsBacked DEF Page!LabelEarned

LEMMA PageAlways == Page!Spec => []PageInvariant
<1>1. Page!Init => PageInvariant
  BY InitPage, SuiteAssumption DEF SuiteAssumption
<1>2. PageInvariant /\ [Page!Next]_(Page!vars) => PageInvariant'
  BY NextPage, SuiteAssumption DEF SuiteAssumption
<1> QED
  BY <1>1, <1>2, PTL DEF Page!Spec

-----------------------------------------------------------------------------
(* The freshness hint *)

Row == [checked : 0..clockTime, frequency : Freqs \cup {Floor}, active : BOOLEAN]

\* The timer is never set for longer than MaxClock, and what was fetched is a row the
\* table had, since which the worker let at least the rest of the time pass.
HintInvariant ==
    /\ clockTime \in Nat \ {0} /\ clock \in 1..clockTime
    /\ timer \in Nat /\ timer >= clockTime
    /\ timer <= Hint!Larger(clock, changed) + MaxClock
    /\ changed \in 1..fetched /\ fetched \in 1..clockTime
    /\ monitor \in Row /\ hint \in Row /\ hint.checked <= monitor.checked
    /\ gap \in Nat /\ gap >= clockTime - Hint!Larger(monitor.checked, 1)
    /\ hint.checked # Hint!Never => gap >= fetched - hint.checked

\* The delay of the timer is positive and at most MaxClock.
LEMMA DelayBound ==
    ASSUME Hint!FreshnessAssumption, NEW d, d.checked \in Nat, d.frequency \in Nat, NEW at \in Nat
    PROVE  Hint!Delay(d, at) \in 1..MaxClock
  BY DEF Hint!Delay, Hint!Smaller, Hint!Larger, Hint!FreshnessAssumption

LEMMA InitHint ==
    ASSUME Hint!FreshnessAssumption, Hint!Init
    PROVE  HintInvariant
<1> USE DEF Hint!FreshnessAssumption, Hint!Never
<1>1. /\ clockTime = 1 /\ clock = 1 /\ changed = 1 /\ fetched = 1 /\ gap = 0
      /\ timer = 1 + Hint!Delay(hint, 1)
  BY DEF Hint!Init
<1>2. monitor \in Row /\ hint \in Row
  <2>1. monitor \in [checked : {0, 1}, frequency : Freqs, active : {TRUE}]
        /\ hint \in {monitor, [checked |-> 0, frequency |-> Floor, active |-> FALSE]}
    BY Zenon DEF Hint!Init
  <2>2. 0 \in 0..clockTime /\ 1 \in 0..clockTime
    BY <1>1
  <2>3. [checked |-> 0, frequency |-> Floor, active |-> FALSE] \in Row
    BY <2>2, Zenon DEF Row
  <2>4. monitor \in Row
    BY <2>1, <2>2 DEF Row
  <2> QED
    BY <2>1, <2>3, <2>4
<1>3. hint.checked <= monitor.checked /\ monitor.checked \in {0, 1}
  BY DEF Hint!Init
<1>4. Hint!Delay(hint, 1) \in 1..MaxClock
  <2>1. Freqs \cup {Floor} \subseteq Nat
    OBVIOUS
  <2>2. hint.checked \in 0..clockTime /\ hint.frequency \in Freqs \cup {Floor}
    BY <1>2 DEF Row
  <2>3. hint.checked \in Nat /\ hint.frequency \in Nat
    BY <2>1, <2>2
  <2> QED
    BY <2>3, DelayBound
<1> QED
  BY <1>1, <1>2, <1>3, <1>4 DEF HintInvariant, Hint!Larger, Row

LEMMA RowFacts ==
    ASSUME Hint!FreshnessAssumption, HintInvariant
    PROVE  /\ monitor.checked \in 0..clockTime /\ monitor.frequency \in Nat
           /\ hint.checked \in 0..clockTime /\ hint.frequency \in Nat
           /\ {clockTime, clock, timer, changed, fetched, gap} \subseteq Nat
<1>1. monitor \in Row /\ hint \in Row
  BY DEF HintInvariant
<1>2. Freqs \cup {Floor} \subseteq Nat
  BY DEF Hint!FreshnessAssumption
<1>3. /\ monitor.checked \in 0..clockTime /\ monitor.frequency \in Nat
      /\ hint.checked \in 0..clockTime /\ hint.frequency \in Nat
  BY <1>1, <1>2 DEF Row
<1>4. clockTime \in Nat /\ clock \in Nat /\ timer \in Nat /\ gap \in Nat
  BY DEF HintInvariant
<1>5. fetched \in Nat /\ changed \in Nat
  BY <1>4 DEF HintInvariant
<1> QED
  BY <1>3, <1>4, <1>5

LEMMA NextHint ==
    ASSUME Hint!FreshnessAssumption, HintInvariant, [Hint!Next]_(Hint!vars)
    PROVE  HintInvariant'
<1> USE DEF Hint!FreshnessAssumption, Hint!Never
<1>0. /\ monitor.checked \in 0..clockTime /\ monitor.frequency \in Nat
      /\ hint.checked \in 0..clockTime /\ hint.frequency \in Nat
      /\ {clockTime, clock, timer, changed, fetched, gap} \subseteq Nat
  BY RowFacts
<1>1. CASE Hint!Fire
  <2>1. Hint!Delay(hint, clockTime) \in 1..MaxClock
    BY <1>0, DelayBound
  <2>2. Row' = Row
    BY <1>1 DEF Hint!Fire, Row
  <2> QED
    BY <1>0, <1>1, <2>1, <2>2 DEF Hint!Fire, HintInvariant, Hint!Larger
<1>2. CASE Hint!Fetch
  <2>1. Hint!Delay(monitor, clockTime) \in 1..MaxClock
    BY <1>0, DelayBound
  <2>2. /\ hint' = monitor /\ fetched' = clockTime
        /\ UNCHANGED <<clockTime, monitor, edits, clock, gap>>
    BY <1>2 DEF Hint!Fetch
  <2>3. Row' = Row
    BY <2>2 DEF Row
  <2>4. /\ timer' \in Nat /\ timer' >= clockTime
        /\ timer' <= Hint!Larger(clock, changed') + MaxClock
        /\ changed' \in 1..clockTime
    BY <1>0, <1>2, <2>1 DEF Hint!Fetch, HintInvariant, Hint!Larger
  <2>5. hint'.checked # Hint!Never => gap' >= fetched' - hint'.checked
    BY <1>0, <2>2 DEF HintInvariant, Hint!Larger
  <2> QED
    BY <1>0, <2>2, <2>3, <2>4, <2>5 DEF HintInvariant
<1>3. CASE Hint!Check
  <2>1. monitor' = [monitor EXCEPT !.checked = clockTime]
        /\ UNCHANGED <<clockTime, edits, hint, clock, timer, fetched, changed, gap>>
    BY <1>3 DEF Hint!Check
  <2>2. Row' = Row /\ monitor' \in Row /\ monitor'.checked = clockTime
    BY <2>1 DEF Row, HintInvariant
  <2> QED
    BY <1>0, <2>1, <2>2 DEF HintInvariant, Hint!Larger
<1>4. CASE Hint!Edit
  <2>1. PICK f \in Freqs, a \in BOOLEAN :
           monitor' = [monitor EXCEPT !.frequency = f, !.active = a]
    BY <1>4 DEF Hint!Edit
  <2>2. UNCHANGED <<clockTime, hint, clock, timer, fetched, changed, gap>>
    BY <1>4 DEF Hint!Edit
  <2>3. Row' = Row /\ monitor' \in Row /\ monitor'.checked = monitor.checked
    BY <2>1, <2>2 DEF Row, HintInvariant
  <2> QED
    BY <1>0, <2>2, <2>3 DEF HintInvariant, Hint!Larger
<1>5. CASE Hint!Advance
  <2>1. /\ clockTime' = clockTime + 1 /\ clockTime < timer
        /\ gap' = Hint!Larger(gap, clockTime + 1 - Hint!Larger(monitor.checked, 1))
        /\ UNCHANGED <<monitor, hint, clock, timer, fetched, changed>>
    BY <1>5 DEF Hint!Advance
  <2>2. monitor' \in Row' /\ hint' \in Row'
    BY <1>0, <2>1 DEF Row, HintInvariant
  <2>3. gap' \in Nat /\ gap' >= gap
        /\ gap' >= clockTime' - Hint!Larger(monitor'.checked, 1)
    BY <1>0, <2>1 DEF Hint!Larger
  <2> QED
    BY <1>0, <2>1, <2>2, <2>3 DEF HintInvariant
<1>6. CASE UNCHANGED Hint!vars
  BY <1>6 DEF Hint!vars, HintInvariant, Row
<1> QED
  BY <1>1, <1>2, <1>3, <1>4, <1>5, <1>6 DEF Hint!Next

LEMMA HintSound ==
    ASSUME Hint!FreshnessAssumption, HintInvariant
    PROVE  HintTimely
<1> USE DEF Hint!FreshnessAssumption, Hint!Never
<1>0. /\ hint.checked \in 0..clockTime /\ hint.frequency \in Nat
      /\ {clockTime, clock, timer, changed, fetched, gap} \subseteq Nat
  BY RowFacts
<1>1. Hint!TypeOK
  BY <1>0 DEF HintInvariant, Hint!TypeOK
<1>2. Hint!LateAtMost
  BY <1>0 DEF HintInvariant, Hint!LateAtMost, Hint!stale, Hint!isEngineStale, Hint!Boundary,
              Hint!Threshold, Hint!Larger
<1>3. Hint!NoFalseAlarm
  BY <1>0 DEF HintInvariant, Hint!NoFalseAlarm, Hint!stale, Hint!isEngineStale,
              Hint!Threshold, Hint!Larger
<1> QED
  BY <1>1, <1>2, <1>3 DEF HintTimely

LEMMA HintAlways == Hint!Spec => []HintInvariant
<1>1. Hint!Init => HintInvariant
  BY InitHint, SuiteAssumption DEF SuiteAssumption
<1>2. HintInvariant /\ [Hint!Next]_(Hint!vars) => HintInvariant'
  BY NextHint, SuiteAssumption DEF SuiteAssumption
<1> QED
  BY <1>1, <1>2, PTL DEF Hint!Spec

-----------------------------------------------------------------------------
(* The theorems *)

\* Each part of the run keeps to its own specification.
LEMMA Parts == AllSpec => Spec /\ Uptime!Spec /\ Page!Spec /\ Hint!Spec
<1>1. AllInit => Init /\ Uptime!Init /\ Page!Init /\ Hint!Init
  BY DEF AllInit
<1>2. [AllNext]_allVars => [Next]_vars
  BY DEF AllNext, allVars
<1>3. [AllNext]_allVars => [Uptime!Next]_(Uptime!vars)
  BY DEF AllNext, allVars, uptimeVars, Uptime!vars, Uptime!results
<1>4. [AllNext]_allVars => [Page!Next]_(Page!vars)
  BY DEF AllNext, allVars, pageVars, Page!vars, Page!page
<1>5. [AllNext]_allVars => [Hint!Next]_(Hint!vars)
  BY DEF AllNext, allVars, hintVars, Hint!vars
<1> QED
  BY <1>1, <1>2, <1>3, <1>4, <1>5, PTL DEF AllSpec, Spec, Uptime!Spec, Page!Spec, Hint!Spec

\* For every number of open requests and every time to live: one query at a time, and
\* no request waits for a settled one (PublicStatusService.getPublicStatus).
THEOREM FlightCorrect ==
    /\ AllSpec => []FlightShared
    /\ Spec => []FlightShared
<1>1. CacheInvariant => FlightShared
  BY DEF CacheInvariant, FlightOK, FlightShared, SingleFlight, NobodyForgotten, Running
<1> QED
  BY CacheAlways, Parts, <1>1, PTL

\* For every number of open requests: an answer never shows less than one before it.
THEOREM MonotoneAnswers ==
    /\ AllSpec => NeverGoesBack
    /\ Spec => NeverGoesBack
<1>1. ASSUME CacheInvariant, [Next]_vars PROVE [served'.rows >= served.rows]_vars
  <2>0. TypeOK /\ RowsOK
    BY <1>1 DEF CacheInvariant
  <2>1. CASE Hit
    BY <2>0, <2>1 DEF Hit, RowsOK, TypeOK
  <2>2. ASSUME NEW c \in Clients, Succeed(c) PROVE served'.rows >= served.rows
    BY <2>0, <2>2 DEF Succeed, RowsOK, TypeOK
  <2>3. ASSUME served'.rows = served.rows PROVE served'.rows >= served.rows
    BY <2>0, <2>3 DEF TypeOK
  <2> QED
    BY <1>1, <2>0, <2>1, <2>2, <2>3
    DEF Next, Change, Tick, Restart, Join, StartQuery, Read, Fail, TypeOK
<1> QED
  BY CacheAlways, Parts, <1>1, PTL DEF Spec, NeverGoesBack

\* Every step of the API keeps what visitors are promised.
LEMMA StepPromise ==
  ASSUME CacheInvariant, [Next]_vars
  PROVE  [Promise!Next]_(Promise!vars)
<1>0. TypeOK /\ FlightOK /\ RowsOK /\ PastOK
  BY DEF CacheInvariant
<1>00. /\ MaxAge \in Nat \ {0}
       /\ cached.left > 0 => MaxAge + 1 - cached.left \in 1..MaxAge
       /\ \A c \in Clients : query[c].age + 1 \in 1..MaxAge
  BY <1>0, WithinPast
\* An answer that shows what there was at a tick that past remembers.
<1>1. ASSUME NEW rows \in Nat, NEW i \in 1..MaxAge, past[i] <= rows,
             served.rows <= rows, rows <= changes,
             served' = [rows |-> rows, recent |-> TRUE], UNCHANGED <<changes, past>>
      PROVE  Promise!Next
  <2>1. past[MaxAge] <= rows
    <3>1. MaxAge \in 1..MaxAge /\ i <= MaxAge
      BY <1>00
    <3>2. past[MaxAge] <= past[i] /\ past[MaxAge] \in Nat /\ past[i] \in Nat
      BY <1>0, <3>1 DEF PastOK, TypeOK
    <3> QED
      BY <1>1, <3>2
  <2>2. rows \in served.rows..changes
    BY <1>0, <1>1 DEF TypeOK
  <2>3. Promise!Answer(rows)
    BY <1>1, <2>1 DEF Promise!Answer
  <2> QED
    BY <2>2, <2>3 DEF Promise!Next
<1>2. CASE Hit
  <2>1. /\ cached.rows \in Nat /\ cached.left > 0
        /\ past[MaxAge + 1 - cached.left] <= cached.rows
        /\ served.rows <= cached.rows /\ cached.rows <= changes
    BY <1>0, <1>2 DEF Hit, TypeOK, RowsOK, PastOK
  <2>2. served' = [rows |-> cached.rows, recent |-> TRUE] /\ UNCHANGED <<changes, past>>
    BY <1>2 DEF Hit
  <2> QED
    BY <1>00, <1>1, <2>1, <2>2
<1>3. ASSUME NEW c \in Clients, Succeed(c) PROVE Promise!Next
  <2>1. /\ query[c].rows \in Nat
        /\ past[query[c].age + 1] <= query[c].rows
        /\ served.rows <= query[c].rows /\ query[c].rows <= changes
    BY <1>0, <1>3 DEF Succeed, TypeOK, RowsOK, PastOK
  <2>2. served' = [rows |-> query[c].rows, recent |-> TRUE] /\ UNCHANGED <<changes, past>>
    BY <1>3 DEF Succeed, Settle
  <2> QED
    BY <1>00, <1>1, <2>1, <2>2
<1>4. CASE Change
  <2>1. Promise!Change
    BY <1>4 DEF Change, Promise!Change
  <2> QED
    BY <2>1 DEF Promise!Next
<1>5. CASE Tick
  <2>1. Promise!Tick
    <3>1. served \in [rows : Nat, recent : BOOLEAN]
      BY <1>0 DEF TypeOK
    <3>2. served'.rows = served.rows /\ served'.recent = FALSE
      BY <1>5, <3>1 DEF Tick
    <3> QED
      BY <1>5, <3>2 DEF Tick, Promise!Tick
  <2> QED
    BY <2>1 DEF Promise!Next
<1>6. ASSUME UNCHANGED <<changes, past, served>> PROVE UNCHANGED Promise!vars
  BY <1>6 DEF Promise!vars
<1> QED
  BY <1>2, <1>3, <1>4, <1>5, <1>6
  DEF Next, vars, Restart, Join, StartQuery, Read, Fail, Settle

\* For every time to live and query duration the cache implements StatusContract: an
\* answer, shared or not, shows every change that is older than both together.
THEOREM CacheCorrect ==
    /\ AllSpec => ImplementsStatusContract
    /\ Spec => ImplementsStatusContract
<1>1. Init => Promise!Init
  BY DEF Init, Promise!Init
<1>2. CacheInvariant /\ [Next]_vars => [Promise!Next]_(Promise!vars)
  BY StepPromise
<1> QED
  BY CacheAlways, Parts, <1>1, <1>2, PTL
  DEF Spec, ImplementsStatusContract, Promise!Spec

\* For any retention, windows, skew and delay: retention takes from the public uptime
\* only results older than itself by the worker's clock, and nothing if it exceeds the
\* window by the skew and the delay of the query (queryPublicStatus,
\* cleanRetentionTable).
THEOREM UptimeCorrect ==
    /\ AllSpec => []UptimePreserved
    /\ Uptime!Spec => []UptimePreserved
<1> Uptime!TicksAssumption
  BY SuiteAssumption DEF SuiteAssumption
<1>1. Uptime!Init => Uptime!IInv
  BY InitUptime
<1>2. Uptime!IInv /\ [Uptime!Next]_(Uptime!vars) => Uptime!IInv'
  BY NextUptime
<1>3. Uptime!IInv => UptimePreserved
  BY DEF Uptime!IInv, UptimePreserved
<1> QED
  BY <1>1, <1>2, <1>3, Parts, PTL DEF Uptime!Spec

\* For any published monitors, refresh, limit of age and time to live of the API's
\* cache: no label and no all-clear claims more than a recent check showed
\* (classifyStatus, summarizeStatus, StatusPage).
THEOREM StatusCorrect ==
    /\ AllSpec => []StatusEarned
    /\ Page!Spec => []StatusEarned
<1>1. PageInvariant => StatusEarned
  BY SuiteAssumption, LabelsBacked, AllClearBacked
  DEF SuiteAssumption, PageInvariant, StatusEarned
<1> QED
  BY <1>1, PageAlways, Parts, PTL

\* For any frequencies, floor and delays: the hint is at most one longest delay late
\* and, while the page fetches, no false alarm (useMonitorFreshness).
THEOREM HintCorrect ==
    /\ AllSpec => []HintTimely
    /\ Hint!Spec => []HintTimely
<1>1. HintInvariant => HintTimely
  BY HintSound, SuiteAssumption DEF SuiteAssumption
<1> QED
  BY <1>1, HintAlways, Parts, PTL
=============================================================================
