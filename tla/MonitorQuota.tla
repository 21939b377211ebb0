---------------------------- MODULE MonitorQuota ----------------------------
(***************************************************************************)
(* The quota on the monitors of one account.  createMonitor counts the     *)
(* rows and inserts in two database calls; the seed of an API start and    *)
(* the demo reset insert without counting.                                 *)
(***************************************************************************)
EXTENDS Naturals, FiniteSets

CONSTANTS
    Requests,       \* bound: POST requests of the account in flight at once
    SeedKeys,       \* the seed keys of the demo manifest
    Max,            \* DEMO_MAX_MONITORS or MAX_MONITORS_PER_USER
    Demo            \* the account is the demo account

ASSUME QuotaAssumption ==
    /\ IsFiniteSet(Requests) /\ IsFiniteSet(SeedKeys)
    /\ Max \in Nat \ {0} /\ Demo \in BOOLEAN
\* DemoSeed.seed refuses a manifest that leaves no free slot.
ASSUME ManifestAssumption == Demo => Cardinality(SeedKeys) < Max

VARIABLES
    own,            \* number of rows the user created
    seeded,         \* seed keys of the rows from the manifest
    request         \* request[r]: "idle" or "allowed" (counted, not inserted)

vars == <<own, seeded, request>>

Total == own + Cardinality(seeded)

Init ==
    /\ own = 0
    /\ seeded = {}
    /\ request = [r \in Requests |-> "idle"]

\* MUTANT: the comparison lets the full account pass.
CountMonitorsLax(r) ==
    /\ request[r] = "idle"
    /\ Total <= Max
    /\ request' = [request EXCEPT ![r] = "allowed"]
    /\ UNCHANGED <<own, seeded>>

\* The count of createMonitor; a full account is refused and nothing changes.
CountMonitors(r) ==
    /\ request[r] = "idle"
    /\ Total < Max
    /\ request' = [request EXCEPT ![r] = "allowed"]
    /\ UNCHANGED <<own, seeded>>

\* Its insert, which succeeds or fails.
InsertMonitor(r) ==
    /\ request[r] = "allowed"
    /\ request' = [request EXCEPT ![r] = "idle"]
    /\ own' \in {own, own + 1}
    /\ UNCHANGED seeded

DeleteMonitor ==
    \/ own > 0 /\ own' = own - 1 /\ UNCHANGED <<seeded, request>>
    \/ \E k \in seeded : seeded' = seeded \ {k} /\ UNCHANGED <<own, request>>

\* One upsert of the demo seed; the seed has no transaction around them.
SeedMonitor(k) ==
    /\ Demo
    /\ seeded' = seeded \cup {k}
    /\ UNCHANGED <<own, request>>

DemoReset ==
    /\ Demo
    /\ own' = 0
    /\ seeded' = SeedKeys
    /\ UNCHANGED request

Next ==
    \/ DeleteMonitor \/ DemoReset
    \/ \E r \in Requests : CountMonitors(r) \/ InsertMonitor(r)
    \/ \E k \in SeedKeys : SeedMonitor(k)

Spec == Init /\ [][Next]_vars

-----------------------------------------------------------------------------
(* Properties *)

\* The variables have their kinds.
TypeOK ==
    /\ own \in Nat
    /\ seeded \in SUBSET SeedKeys
    /\ request \in [Requests -> {"idle", "allowed"}]

\* The documented quota (README.md:80): never more than Max monitors.
QuotaHolds == Total <= Max

\* What createMonitor does guarantee: the requests in flight together overshoot by
\* at most their number less one, and only the seed of the demo account adds to
\* that, by at most the size of the manifest.
OvershootBounded ==
    Total + 1 <= Max + Cardinality(Requests) + (IF Demo THEN Cardinality(SeedKeys) ELSE 0)
=============================================================================
