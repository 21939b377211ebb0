------------------------------- MODULE ApiGuards -------------------------------
(***************************************************************************)
(* What every request to the API passes first: the throttler with its      *)
(* in-memory storage.  The module lists its guard before that of the       *)
(* token, so no request has a user yet and its address is all it counts.   *)
(***************************************************************************)
EXTENDS Naturals, FiniteSets

CONSTANTS
    Ips,
    Poller,         \* the address of a page that polls
    Routes,         \* the routes requested, of those in Endpoints
    DefaultLimit, AuthLimit, DemoLimit, MonitorsLimit,
    Ttl,            \* all throttlers have the same
    MaxTime         \* bound: time

\* The routes of the controllers: the strict throttler each is decorated for,
\* and the limit it states.
Decorated(t, l) == [throttler |-> t, limit |-> l]
Plain == Decorated("none", "none")
Endpoints ==
    [root |-> Plain, health |-> Plain, status |-> Plain, me |-> Plain,
     register |-> Decorated("auth", "auth"),   login |-> Decorated("auth", "auth"),
     demo_login |-> Decorated("auth", "demo"),
     create |-> Decorated("monitors", "monitors"),
     update |-> Decorated("monitors", "monitors"),
     findAll |-> Plain, remove |-> Plain, history |-> Plain, alerts |-> Plain]

Limits == [default |-> DefaultLimit, auth |-> AuthLimit, demo |-> DemoLimit,
           monitors |-> MonitorsLimit]

ApiGuardsAssumption ==
    /\ Routes \subseteq DOMAIN Endpoints /\ Poller \in Ips
    /\ {DefaultLimit, AuthLimit, DemoLimit, MonitorsLimit} \subseteq Nat \ {0}
    /\ Ttl \in Nat \ {0} /\ MaxTime \in Nat \ {0}
    /\ DefaultLimit >= Ttl          \* one poll per unit of time fits

\* The hits on the list in one Ttl that its polls leave to others.
Room == DefaultLimit - Ttl

VARIABLES
    time,
    store,      \* hits and end of the block, per tracker, route and throttler
    polled,     \* when the page last polled
    others,     \* history: counted hits on the poller's list that are no polls, within Ttl
    crowded,    \* history: when there were last more of them than there is room for
    passed,     \* history: requests that passed the throttler, within Ttl
    promised,   \* history: when an address that was refused may come back
    broken      \* history: a refusal that should not have been

vars == <<time, store, polled, others, crowded, passed, promised, broken>>

\* The throttlers in the order in which a request meets them.
Rank == [default |-> 1, auth |-> 2, monitors |-> 3]
Throttlers == DOMAIN Rank
Keys == Ips \X Routes \X Throttlers
Fresh == [hits |-> {}, until |-> 0]

Init ==
    /\ time = 1
    /\ store = [k \in Keys |-> Fresh]
    /\ polled = 0 /\ others = {} /\ crowded = 0
    /\ passed = [k \in Ips \X Routes |-> {}]
    /\ promised = [k \in Ips \X Routes |-> 0]
    /\ broken = {}

-----------------------------------------------------------------------------
(* app-throttler.guard.ts *)

\* It names the user if the request has one, which it never does here.
getTracker(ip) == ip

\* MUTANT: the strict throttlers run on every route.
appliesEverywhere(throttler, route) == TRUE

\* Strict throttlers run only on routes decorated for them.
applies(throttler, route) ==
    throttler = "default" \/ Endpoints[route].throttler = throttler

\* MUTANT: the limit a route states is not used.
LimitOfDefault(throttler, route) == Limits["default"]

\* The limit a route states replaces that of its throttler.
LimitOf(throttler, route) ==
    IF throttler = "default" THEN Limits["default"]
    ELSE IF Endpoints[route].throttler = throttler THEN Limits[Endpoints[route].limit]
    ELSE Limits[throttler]

\* ThrottlerStorageService.increment: a hit more than the limit begins a
\* block, during which nothing is counted; the first hit after it is the first.
increment(s, limit, hit) ==
    IF s.until = 0
    THEN LET hits == s.hits \cup {hit}
         IN  [hits |-> hits, until |-> IF Cardinality(hits) > limit THEN time + Ttl ELSE 0]
    ELSE IF s.until > time THEN s
    ELSE [hits |-> {hit}, until |-> 0]

RetryAfter(s) == s.until

\* A hit has the time of the request, and a number that tells it from others then.
Entry(ip, route, t) == store[<<getTracker(ip), route, t>>]
Hit(ip, route) ==
    <<time, 1 + Cardinality({h \in Entry(ip, route, "default").hits : h[1] = time})>>

\* The request's hit on each throttler that applies.
Counted(ip, route) ==
    [t \in Throttlers |->
        LET s == Entry(ip, route, t)
        IN  IF applies(t, route) THEN increment(s, LimitOf(t, route), Hit(ip, route)) ELSE s]

\* The entries of the throttlers up to t, in their order, are replaced.
Stored(ip, route, after, t) ==
    store' = [k \in Keys |->
                 IF k[1] = getTracker(ip) /\ k[2] = route /\ Rank[k[3]] <= Rank[t]
                 THEN after[k[3]] ELSE store[k]]

-----------------------------------------------------------------------------
(* A request. *)

\* The first throttler that blocks ends the request.
Throttled(ip, route, poll, after) ==
    \E t \in Throttlers :
        /\ after[t].until # 0
        /\ \A u \in Throttlers : Rank[u] < Rank[t] => after[u].until = 0
        /\ Stored(ip, route, after, t)
        /\ promised' = [promised EXCEPT ![<<ip, route>>] = RetryAfter(after[t])]
        /\ broken' = broken \cup (IF poll /\ crowded' + Ttl <= time THEN {"poll"} ELSE {})
                            \cup (IF promised[<<ip, route>>] \in 1..time
                                  THEN {"promise"} ELSE {})
        /\ UNCHANGED <<time, passed>>

\* No throttler blocks; the request goes on to the check of its token.
Passes(ip, route, after) ==
    /\ \A t \in Throttlers : after[t].until = 0
    /\ Stored(ip, route, after, "monitors")
    /\ passed' = [passed EXCEPT ![<<ip, route>>] = @ \cup {Hit(ip, route)}]
    /\ promised' = [promised EXCEPT ![<<ip, route>>] = 0]
    /\ UNCHANGED <<time, broken>>

\* What the history keeps of a request for the poller's list.
Noted(ip, route, poll, after) ==
    IF ip = Poller /\ route = "findAll"
    THEN /\ others' = IF poll \/ Hit(ip, route) \notin after["default"].hits THEN others
                      ELSE others \cup {Hit(ip, route)}
         /\ crowded' = IF Cardinality(others') > Room THEN time ELSE crowded
    ELSE UNCHANGED <<others, crowded>>

Arrives(ip, route, poll) ==
    LET after == Counted(ip, route)
    IN  /\ Noted(ip, route, poll, after)
        /\ Throttled(ip, route, poll, after) \/ Passes(ip, route, after)

\* Of whoever has the address: other tabs, a neighbour behind the same router, the
\* history page or a page that refetches its list after a write.
Request(ip, route) == Arrives(ip, route, FALSE) /\ UNCHANGED polled

\* The page asks for its list at its interval, the unit of time.
Poll ==
    /\ "findAll" \in Routes
    /\ polled < time
    /\ polled' = time
    /\ Arrives(Poller, "findAll", TRUE)

\* Hits leave their counts one by one when they are Ttl old.
Recent(hits) == {h \in hits : h[1] + Ttl > time + 1}
Advance ==
    /\ time < MaxTime
    /\ time' = time + 1
    /\ store' = [k \in Keys |-> [store[k] EXCEPT !.hits = Recent(@)]]
    /\ passed' = [k \in Ips \X Routes |-> Recent(passed[k])]
    /\ others' = Recent(others)
    /\ UNCHANGED <<polled, crowded, promised, broken>>

Next ==
    \/ \E ip \in Ips, route \in Routes : Request(ip, route)
    \/ Poll
    \/ Advance

Spec == Init /\ [][Next]_vars

-----------------------------------------------------------------------------
Stated(route) ==
    IF Endpoints[route].limit = "none" THEN Limits["default"]
    ELSE Limits[Endpoints[route].limit]

\* A throttler counts no more than the hit that begins a block, only where it applies.
TypeOK ==
    /\ time \in 1..MaxTime /\ polled \in 0..time /\ crowded \in 0..time
    /\ \A k \in Keys :
          /\ Cardinality(store[k].hits) <= LimitOf(k[3], k[2]) + 1
          /\ store[k].until <= time + Ttl
          /\ store[k].hits # {} => k[3] \in {"default", Endpoints[k[2]].throttler}
    /\ \A k \in Ips \X Routes : promised[k] <= time + Ttl

(* In no interval of Ttl does an address get more requests through to one   *)
(* route than the route states, also around the end of a block.  Routes are *)
(* counted apart: two of them get twice as many through.                    *)
WindowRespected ==
    \A k \in Ips \X Routes : Cardinality(passed[k]) <= Stated(k[2])

(* The poll of a page is refused only within a Ttl of a moment at which     *)
(* others at its address had asked for the list more often in one Ttl than  *)
(* its polls leave room for; requests for other routes and from other       *)
(* addresses never refuse it.                                               *)
PollRefusedByCrowdOnly == "poll" \notin broken

(* A client that comes back when Retry-After told it to is let through.     *)
RetryAfterKept == "promise" \notin broken
=============================================================================
