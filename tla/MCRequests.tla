------------------------------ MODULE MCRequests ------------------------------
(***************************************************************************)
(* Instances for TLC of the API's handling of requests: the throttler that *)
(* each passes first, and the two database calls of a request on a monitor *)
(* among other requests, checks and resets.  They share no state; running  *)
(* names the one that moves, so that the states of the run are those of    *)
(* each; the variables of a throttler that does not run are None.          *)
(***************************************************************************)
EXTENDS MonitorRequests, TLC

CONSTANTS
    PageNames, PageFrequencies, PageVerdicts, WrittenNames,
    Ips, Poller, Routes, DefaultLimit, AuthLimit, DemoLimit, MonitorsLimit,
    Ttl, MaxTime,
    MaxShort        \* bound: time, for two addresses

VARIABLES
    running,
    \* ApiGuards
    time, store, polled, others, crowded, passed, promised, broken

guardVars == <<time, store, polled, others, crowded, passed, promised, broken>>
allVars == <<running, vars, guardVars>>

\* Pages of two accounts, where a check adds rows; and overlapping writes on the
\* monitors of one account.
Pages == INSTANCE MonitorRequests WITH
            Names <- PageNames, Frequencies <- PageFrequencies, Verdicts <- PageVerdicts
Writes == INSTANCE MonitorRequests WITH Users <- Demo, Names <- WrittenNames, MaxRows <- 0

Guards == INSTANCE ApiGuards

ASSUME /\ PageNames \cup WrittenNames \subseteq Names /\ PageFrequencies \subseteq Frequencies
       /\ PageVerdicts \subseteq {"none"} \cup Verdicts
       /\ Pages!RequestsAssumption /\ Writes!RequestsAssumption
ASSUME GuardsAssumption == Guards!ApiGuardsAssumption /\ "findAll" \in Routes

\* A page that polls beside others of its address and another address; and beside
\* writes and logins of its own address, over three windows.
Polling ==
    \/ \E ip \in Ips : Guards!Request(ip, "findAll")
    \/ Guards!Poll
    \/ time < MaxShort /\ Guards!Advance
Window ==
    \/ \E route \in Routes \ {"findAll"} : Guards!Request(Poller, route)
    \/ Guards!Poll
    \/ Guards!Advance

NoGuards ==
    /\ time = None /\ store = None /\ polled = None /\ others = None /\ crowded = None
    /\ passed = None /\ promised = None /\ broken = None

AllInit ==
    \/ running = "pages" /\ Pages!Init /\ NoGuards
    \/ running = "writes" /\ Writes!Init /\ NoGuards
    \/ running \in {"polling", "window"} /\ Pages!Init /\ Guards!Init

AllNext ==
    /\ \/ running = "pages" /\ Pages!Next /\ UNCHANGED guardVars
       \/ running = "writes" /\ Writes!Next /\ UNCHANGED guardVars
       \/ running = "polling" /\ Polling /\ UNCHANGED vars
       \/ running = "window" /\ Window /\ UNCHANGED vars
    /\ UNCHANGED running

AllSpec == AllInit /\ [][AllNext]_allVars

Symmetry == Permutations(Requests) \cup Permutations(WrittenNames)

-----------------------------------------------------------------------------
(* AppThrottlerGuard: a page that polls at its rate is refused only because   *)
(* of others at its address who ask for the list.                             *)
PollRefusedByCrowdOnly ==
    running \in {"polling", "window"} => Guards!PollRefusedByCrowdOnly

(* AppThrottlerGuard: an address gets no more requests through to a route in  *)
(* any window than the route states, and who comes back after Retry-After is  *)
(* let through.                                                               *)
WindowKept ==
    running \in {"polling", "window"} =>
        Guards!TypeOK /\ Guards!WindowRespected /\ Guards!RetryAfterKept
=============================================================================
