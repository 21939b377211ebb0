-------------------------------- MODULE Seeds --------------------------------
(***************************************************************************)
(* What every start of the API does before it listens: the status seed,    *)
(* one READ COMMITTED transaction that publishes the monitors of a         *)
(* manifest and hides all others, and the demo seed, whose statements      *)
(* commit one by one.  Starts may overlap, fail at any statement, and be   *)
(* repeated; visitors of the demo delete its monitors, and the worker's    *)
(* reset restores them.  Accounts has the statements on users.             *)
(***************************************************************************)
EXTENDS Naturals, FiniteSets, Sequences, SequencesExt

CONSTANTS
    Starts,         \* containers of the API
    Owners,         \* values of STATUS_OWNER_EMAIL
    None,           \* it is not set, or no seed has committed yet
    Keys,           \* seed keys of the status manifests
    DemoKeys,       \* seed keys of the demo manifest
    MaxConfigs      \* bound: changes of the configuration

VARIABLES
    config,     \* STATUS_OWNER_EMAIL, its manifest, whether the demo's is valid
    configs,    \* number of changes
    owners,     \* status owners that exist
    row,        \* committed is_public of every (owner, key), or absent
    start,      \* per container: place, configuration, private writes
    demoUser,   \* the demo account exists
    demoRow,    \* of every demo key: absent if it was never seeded, or removed
    last        \* history: the configuration of the last seed that committed

vars == <<config, configs, owners, row, start, demoUser, demoRow, last>>

Rows == Owners \X Keys
Off == [pc |-> "off"]
Failed == [pc |-> "failed"]

\* A manifest lists keys in an order, and may by mistake list one twice.
Manifests == BoundedSeq(Keys, Cardinality(Keys))
Configs ==
    {c \in [owner : Owners \cup {None}, manifest : Manifests, demo : BOOLEAN] :
        c.owner = None => c.manifest = << >>}

SeedsAssumption == None \notin Owners \cup Configs /\ MaxConfigs \in Nat

\* The monitors that a seed with the configuration publishes.
Wanted(c) == {c.owner} \X ToSet(c.manifest)

Init ==
    /\ config \in Configs /\ configs = 0
    /\ owners = {}
    /\ row = [x \in Rows |-> "absent"]
    /\ start = [s \in Starts |-> Off]
    /\ demoUser = FALSE /\ demoRow = [k \in DemoKeys |-> "absent"]
    /\ last = None

InTransaction(s) == start[s].pc \in {"owner", "upsert", "hide", "commit"}
Locked(s, x) == \E t \in Starts \ {s} : InTransaction(t) /\ x \in DOMAIN start[t].writes
Seen(s, x) == IF x \in DOMAIN start[s].writes THEN start[s].writes[x] ELSE row[x]
Write(s, x, v) == [y \in DOMAIN start[s].writes \cup {x} |->
                      IF y = x THEN v ELSE start[s].writes[y]]
At(s, f) == start' = [start EXCEPT ![s] = f]

-----------------------------------------------------------------------------
(* seed.ts, StatusSeed.seed *)

Valid(manifest) == IsInjective(manifest)

\* The container starts; the manifest is validated before anything is written.
StartSeed(s) ==
    /\ start[s].pc \in {"off", "failed"}
    /\ IF Valid(config.manifest)
       THEN At(s, [pc |-> "lookup", config |-> config])
       ELSE At(s, Failed)
    /\ UNCHANGED <<config, configs, owners, row, demoUser, demoRow, last>>

Lookup(s) ==
    /\ start[s].pc = "lookup"
    /\ At(s, [pc |-> "owner", config |-> start[s].config, writes |-> << >>,
              creates |-> start[s].config.owner \notin owners \cup {None}])
    /\ UNCHANGED <<config, configs, owners, row, demoUser, demoRow, last>>

\* The owner is created unless the lookup found it.  The unique index lets
\* a second creation wait for the first, and fail if that commits.
CreateOwner(s) ==
    /\ start[s].pc = "owner"
    /\ start[s].creates =>
          ~\E t \in Starts \ {s} :
              /\ start[t].pc \in {"upsert", "hide", "commit"} /\ start[t].creates
              /\ start[t].config.owner = start[s].config.owner
    /\ IF start[s].creates /\ start[s].config.owner \in owners
       THEN At(s, Failed)
       ELSE At(s, [pc |-> "upsert", config |-> start[s].config, writes |-> << >>,
                   creates |-> start[s].creates, todo |-> start[s].config.manifest])
    /\ UNCHANGED <<config, configs, owners, row, demoUser, demoRow, last>>

\* The upsert of one monitor of the manifest.
Upsert(s) ==
    /\ start[s].pc = "upsert" /\ start[s].todo # << >>
    /\ LET x == <<start[s].config.owner, Head(start[s].todo)>>
       IN  /\ ~Locked(s, x)
           /\ At(s, [start[s] EXCEPT !.writes = Write(s, x, "public"), !.todo = Tail(@)])
    /\ UNCHANGED <<config, configs, owners, row, demoUser, demoRow, last>>

\* MUTANT: only monitors of the owner are hidden.
HideScanOwn(s) ==
    /\ start[s].pc = "upsert" /\ start[s].todo = << >>
    /\ LET stale == {x \in Rows \ Wanted(start[s].config) :
                        x[1] = start[s].config.owner /\ Seen(s, x) = "public"}
       IN  At(s, [pc |-> "hide", config |-> start[s].config, creates |-> start[s].creates,
                  writes |-> start[s].writes, stale |-> stale])
    /\ UNCHANGED <<config, configs, owners, row, demoUser, demoRow, last>>

\* The updateMany finds the rows to hide in the snapshot of its statement.
HideScan(s) ==
    /\ start[s].pc = "upsert" /\ start[s].todo = << >>
    /\ LET stale == {x \in Rows \ Wanted(start[s].config) : Seen(s, x) = "public"}
       IN  At(s, [pc |-> "hide", config |-> start[s].config, creates |-> start[s].creates,
                  writes |-> start[s].writes, stale |-> stale])
    /\ UNCHANGED <<config, configs, owners, row, demoUser, demoRow, last>>

\* Each is locked, waiting for its writer, and updated if it is still public.
HideRow(s) ==
    /\ start[s].pc = "hide"
    /\ \E x \in start[s].stale :
          /\ ~Locked(s, x)
          /\ At(s, [start[s] EXCEPT
                       !.stale = @ \ {x},
                       !.writes = IF Seen(s, x) = "public" THEN Write(s, x, "private") ELSE @])
    /\ UNCHANGED <<config, configs, owners, row, demoUser, demoRow, last>>

Commit(s) ==
    /\ start[s].pc = "hide" /\ start[s].stale = {}
    /\ row' = [x \in Rows |-> Seen(s, x)]
    /\ owners' = owners \cup ({start[s].config.owner} \ {None})
    /\ last' = start[s].config
    /\ At(s, [pc |-> "demo", config |-> start[s].config])
    /\ UNCHANGED <<config, configs, demoUser, demoRow>>

-----------------------------------------------------------------------------
(* DemoSeed.seed, docker-entrypoint.sh *)

\* The demo's manifest is validated and its account is upserted.
DemoUser(s) ==
    /\ start[s].pc = "demo"
    /\ IF start[s].config.demo
       THEN /\ At(s, [pc |-> "demo_rows", config |-> start[s].config, todo |-> DemoKeys])
            /\ demoUser' = TRUE
       ELSE At(s, Failed) /\ UNCHANGED demoUser
    /\ UNCHANGED <<config, configs, owners, row, demoRow, last>>

DemoUpsert(s) ==
    /\ start[s].pc = "demo_rows"
    /\ \E k \in start[s].todo :
          /\ demoRow' = [demoRow EXCEPT ![k] = "present"]
          /\ At(s, [start[s] EXCEPT !.todo = @ \ {k}])
    /\ UNCHANGED <<config, configs, owners, row, demoUser, last>>

\* A visitor of the demo deletes a monitor of it.
DeleteMonitor(k) ==
    /\ \E s \in Starts : start[s].pc = "listening"
    /\ demoRow[k] = "present"
    /\ demoRow' = [demoRow EXCEPT ![k] = "removed"]
    /\ UNCHANGED <<config, configs, owners, row, start, demoUser, last>>

\* The worker replaces the demo account's monitors by those of the manifest.
DemoReset ==
    /\ demoUser
    /\ demoRow' = [k \in DemoKeys |-> "present"]
    /\ UNCHANGED <<config, configs, owners, row, start, demoUser, last>>

\* The seed exits with 0, and the entrypoint executes the API.
Listen(s) ==
    /\ start[s].pc = "demo_rows" /\ start[s].todo = {}
    /\ At(s, [pc |-> "listening"])
    /\ UNCHANGED <<config, configs, owners, row, demoUser, demoRow, last>>

\* A statement fails, is the victim of a deadlock, or the container dies:
\* the transaction is rolled back, and the entrypoint stops.
Fail(s) ==
    /\ start[s].pc \notin {"off", "failed", "listening"}
    /\ At(s, Failed)
    /\ UNCHANGED <<config, configs, owners, row, demoUser, demoRow, last>>

Stop(s) ==
    /\ start[s].pc \in {"failed", "listening"}
    /\ At(s, Off)
    /\ UNCHANGED <<config, configs, owners, row, demoUser, demoRow, last>>

\* A new release: the old containers are down before the new ones start.
Reconfigure ==
    /\ configs < MaxConfigs
    /\ \A s \in Starts : start[s] = Off
    /\ config' \in Configs \ {config}
    /\ configs' = configs + 1
    /\ UNCHANGED <<owners, row, start, demoUser, demoRow, last>>

-----------------------------------------------------------------------------
Step(s) ==
    \/ StartSeed(s) \/ Lookup(s) \/ CreateOwner(s) \/ Upsert(s)
    \/ HideScan(s) \/ HideRow(s) \/ Commit(s)
    \/ DemoUser(s) \/ DemoUpsert(s) \/ Listen(s)

Next ==
    \/ Reconfigure \/ DemoReset
    \/ \E k \in DemoKeys : DeleteMonitor(k)
    \/ \E s \in Starts : Step(s) \/ Fail(s) \/ Stop(s)

Spec == Init /\ [][Next]_vars

-----------------------------------------------------------------------------
TypeOK ==
    /\ config \in Configs /\ last \in Configs \cup {None}
    /\ row \in [Rows -> {"absent", "private", "public"}]
    /\ demoUser \in BOOLEAN
    /\ demoRow \in [DemoKeys -> {"absent", "present", "removed"}]
    /\ \A x \in Rows : row[x] # "absent" => x[1] \in owners
    /\ \A s \in Starts : InTransaction(s) =>
          \A x \in DOMAIN start[s].writes : x \in Rows /\ ~Locked(s, x)

Published == {x \in Rows : row[x] = "public"}

(* At every moment exactly the monitors of the manifest and the owner of    *)
(* the last seed that committed are published: after changes of either,     *)
(* after failures, and while other seeds run.                               *)
PublishedIsManifest ==
    IF last = None THEN Published = {} ELSE Published = Wanted(last)

(* An API listens only after its own configuration was applied in full,     *)
(* also when earlier starts failed half way: a demo monitor that is missing *)
(* then was deleted, not left out by a seed.                                *)
ListensWhenSeeded ==
    (\E s \in Starts : start[s].pc = "listening") =>
        last = config /\ \A k \in DemoKeys : demoRow[k] # "absent"
=============================================================================
