-------------------------- MODULE PublicStatusCache --------------------------
(***************************************************************************)
(* PublicStatusService of one API process: anonymous requests share the    *)
(* last answer while it is fresh and, when it has expired, one query.      *)
(*                                                                         *)
(* Time is discrete.  Rows are known by the number of changes of the       *)
(* published tables they show.  The process is single-threaded: a query    *)
(* settles and answers all that wait for it in one step, because their     *)
(* continuations run before the next request is handled.                   *)
(***************************************************************************)
EXTENDS Naturals, FiniteSets

CONSTANTS
    Clients,        \* requests that may be open at once
    None,
    Ttl,            \* STATUS_CACHE_TTL_SECONDS
    QueryLimit,     \* external: the longest a query takes
    MaxChanges      \* bound: changes of the tables

ASSUME ClientsAssumption == None \notin Clients
ASSUME LimitsAssumption ==
    Ttl \in Nat \ {0} /\ QueryLimit \in Nat /\ MaxChanges \in Nat

VARIABLES
    changes,        \* changes of the tables so far
    cached,         \* the last answer and how long it is still fresh
    inFlight,       \* the request whose query others join, or None
    query,          \* query[c]: the query that request c started
    waits,          \* waits[c]: the request whose query c awaits, or None
    served,         \* history: rows of the last answer given, and if since the last tick
    past            \* history: past[i] changes at the i-th tick back

vars == <<changes, cached, inFlight, query, waits, served, past>>

NoQuery == [phase |-> "none", rows |-> 0, age |-> 0]
Empty == [rows |-> 0, left |-> 0]

\* An answer is served for Ttl from the end of its query.
MaxAge == QueryLimit + Ttl

Running == {c \in Clients : query[c].phase # "none"}

Init ==
    /\ changes = 0
    /\ cached = Empty
    /\ inFlight = None
    /\ query = [c \in Clients |-> NoQuery]
    /\ waits = [c \in Clients |-> None]
    /\ served = [rows |-> 0, recent |-> FALSE]
    /\ past = [i \in 1..MaxAge |-> 0]

-----------------------------------------------------------------------------
(* getPublicStatus *)

\* MUTANT: each hit makes the answer fresh again.
HitSliding ==
    /\ cached.left > 0
    /\ served' = [rows |-> cached.rows, recent |-> TRUE]
    /\ cached' = [cached EXCEPT !.left = Ttl]
    /\ UNCHANGED <<changes, inFlight, query, waits, past>>

\* A fresh answer is served at once, to any number of requests.
Hit ==
    /\ cached.left > 0
    /\ served' = [rows |-> cached.rows, recent |-> TRUE]
    /\ UNCHANGED <<changes, cached, inFlight, query, waits, past>>

Join(c) ==
    /\ waits[c] = None
    /\ cached.left = 0 /\ inFlight # None
    /\ waits' = [waits EXCEPT ![c] = inFlight]
    /\ UNCHANGED <<changes, cached, inFlight, query, served, past>>

\* MUTANT: every request that finds no fresh answer queries.
StampedeQuery(c) ==
    /\ waits[c] = None
    /\ cached.left = 0
    /\ inFlight' = c
    /\ query' = [query EXCEPT ![c] = [phase |-> "sent", rows |-> 0, age |-> 0]]
    /\ waits' = [waits EXCEPT ![c] = c]
    /\ UNCHANGED <<changes, cached, served, past>>

StartQuery(c) ==
    /\ waits[c] = None
    /\ cached.left = 0 /\ inFlight = None
    /\ inFlight' = c
    /\ query' = [query EXCEPT ![c] = [phase |-> "sent", rows |-> 0, age |-> 0]]
    /\ waits' = [waits EXCEPT ![c] = c]
    /\ UNCHANGED <<changes, cached, served, past>>

\* PostgreSQL takes the snapshot of the statement.
Read(c) ==
    /\ query[c].phase = "sent"
    /\ query' = [query EXCEPT ![c] = [phase |-> "read", rows |-> changes, age |-> @.age]]
    /\ UNCHANGED <<changes, cached, inFlight, waits, served, past>>

\* The query of c is over and whoever awaited it is answered.
Settle(c) ==
    /\ query' = [query EXCEPT ![c] = NoQuery]
    /\ waits' = [d \in Clients |-> IF waits[d] = c THEN None ELSE waits[d]]
    /\ UNCHANGED <<changes, past>>

Succeed(c) ==
    /\ query[c].phase = "read"
    /\ cached' = [rows |-> query[c].rows, left |-> Ttl]
    /\ served' = [rows |-> query[c].rows, recent |-> TRUE]
    /\ inFlight' = None
    /\ Settle(c)

\* MUTANT: only a successful query is forgotten.
FailKept(c) ==
    /\ c \in Running
    /\ Settle(c)
    /\ UNCHANGED <<cached, served, inFlight>>

\* Its requests get the error; the expired answer is not served instead.
Fail(c) ==
    /\ c \in Running
    /\ inFlight' = None
    /\ Settle(c)
    /\ UNCHANGED <<cached, served>>

-----------------------------------------------------------------------------
(* The worker, the other API requests, the clock and the container. *)

Change ==
    /\ changes < MaxChanges
    /\ changes' = changes + 1
    /\ UNCHANGED <<cached, inFlight, query, waits, served, past>>

Tick ==
    /\ \A c \in Running : query[c].age < QueryLimit
    /\ query' = [c \in Clients |->
                   IF c \in Running THEN [query[c] EXCEPT !.age = @ + 1] ELSE query[c]]
    /\ cached' = IF cached.left > 0 THEN [cached EXCEPT !.left = @ - 1] ELSE cached
    /\ past' = [i \in 1..MaxAge |-> IF i = 1 THEN changes ELSE past[i - 1]]
    /\ served' = [served EXCEPT !.recent = FALSE]
    /\ UNCHANGED <<changes, inFlight, waits>>

\* The process is replaced: open requests end and nothing is cached.
Restart ==
    /\ cached' = Empty
    /\ inFlight' = None
    /\ query' = [c \in Clients |-> NoQuery]
    /\ waits' = [c \in Clients |-> None]
    /\ UNCHANGED <<changes, served, past>>

Next ==
    \/ Hit \/ Change \/ Tick \/ Restart
    \/ \E c \in Clients : Join(c) \/ StartQuery(c) \/ Read(c) \/ Succeed(c) \/ Fail(c)

Spec == Init /\ [][Next]_vars

-----------------------------------------------------------------------------
(* Properties *)

\* The variables have their kinds.
TypeOK ==
    /\ changes \in Nat
    /\ cached \in [rows : Nat, left : 0..Ttl]
    /\ inFlight \in Clients \cup {None}
    /\ query \in [Clients -> [phase : {"none", "sent", "read"}, rows : Nat, age : 0..QueryLimit]]
    /\ waits \in [Clients -> Clients \cup {None}]
    /\ served \in [rows : Nat, recent : BOOLEAN]
    /\ past \in [1..MaxAge -> Nat]

\* However many requests find the answer expired, the database runs one query for
\* them (inFlight).
SingleFlight == \A c, d \in Running : c = d

\* A request only waits for a query that runs: neither a settled query nor a failed
\* one is ever joined (the finally clause).
NobodyForgotten == \A c \in Clients : waits[c] # None => waits[c] \in Running

\* One query serves all who ask while it runs, and whoever waits for one waits for one
\* that will settle (getPublicStatus).
FlightShared == SingleFlight /\ NobodyForgotten

\* Visitors never see the status go back in time, whichever of them asks when.
NeverGoesBack == [][served'.rows >= served.rows]_vars

\* No answer misses a change that is older than a query and the time to live together
\* (README.md:81, "cached query-time snapshot"), although a shared answer was read at
\* its query's snapshot and is served again and again.
Promise == INSTANCE StatusContract WITH
    shown <- served.rows, said <- served.recent
ImplementsStatusContract == Promise!Spec
=============================================================================
