------------------------------ MODULE MCAccounts ------------------------------
(***************************************************************************)
(* Instances for TLC of what writes accounts and their monitors at the     *)
(* same time: the quota of one account, overlapping registrations,         *)
(* overlapping seeds of the accounts, and the seeds of the monitors.       *)
(* running names the one that moves, so that the states of the run are     *)
(* those of each; the variables of the others are None.                    *)
(***************************************************************************)
EXTENDS MonitorQuota, Sequences, TLC

CONSTANTS
    Emails,
    Names,      \* usernames; keys of the status manifest
    Actors,     \* registrations; starts of the API that seed monitors
    Starts,     \* starts of the API that seed accounts
    DemoKeys,
    MaxReconfigs, MaxConfigs,   \* bounds: changes of the configuration
    None

VARIABLES
    running,
    \* Accounts
    users, env, changes, reg, seed, login, tokens, published,
    \* Seeds
    config, configs, owners, row, start, demoUser, demoRow, last

accountVars == <<users, env, changes, reg, seed, login, tokens, published>>
seedVars == <<config, configs, owners, row, start, demoUser, demoRow, last>>
allVars == <<running, vars, accountVars, seedVars>>

Registry == INSTANCE Accounts WITH
    Handles <- Names, Requests <- Actors, Seeders <- Starts
Manifest == INSTANCE Seeds WITH Starts <- Actors, Owners <- Emails, Keys <- Names

ASSUME SuiteAssumption == Registry!AccountsAssumption /\ Manifest!SeedsAssumption

\* Bounds: registrations race with one start of the API and one login at a time; or
\* starts overlap, also with changes of the configuration, while one person registers
\* and signs in.
OneStart ==
    /\ changes' = 0
    /\ Cardinality({s \in Starts : seed'[s] # Registry!Idle}) <= 1
    /\ Cardinality({w \in DOMAIN login : login'[w] # Registry!Idle}) <= 1
OnePerson ==
    Cardinality({r \in Actors : reg'[r] # Registry!Idle \/ login'[r] # Registry!Idle}) <= 1

NoAccounts ==
    /\ users = None /\ env = None /\ changes = None /\ reg = None
    /\ seed = None /\ login = None /\ tokens = None /\ published = None
NoSeeds ==
    /\ config = None /\ configs = None /\ owners = None /\ row = None
    /\ start = None /\ last = None
    /\ demoUser = None /\ demoRow = None

AllInit ==
    /\ Init
    /\ \/ running = "quota" /\ NoAccounts /\ NoSeeds
       \/ running \in {"race", "adopt"} /\ Registry!Init /\ NoSeeds
       \/ running = "manifest" /\ Manifest!Init /\ NoAccounts

AllNext ==
    /\ \/ running = "quota" /\ Next /\ UNCHANGED <<accountVars, seedVars>>
       \/ /\ running \in {"race", "adopt"} /\ Registry!Next /\ UNCHANGED <<vars, seedVars>>
          /\ running = "race" => OneStart
          /\ running = "adopt" => OnePerson
       \/ running = "manifest" /\ Manifest!Next /\ UNCHANGED <<vars, accountVars>>
    /\ UNCHANGED running

AllSpec == AllInit /\ [][AllNext]_allVars

Symmetry == Permutations(Emails) \cup Permutations(Names)
            \cup Permutations(Actors) \cup Permutations(Starts)

-----------------------------------------------------------------------------
(* createUser: of overlapping registrations with an email or a username one   *)
(* is answered with created, and its account stays.                           *)
OneWinner ==
    running \in {"race", "adopt"} => Registry!TypeOK /\ Registry!OneWinner

(* createUser, login, JwtStrategy.validate, StatusSeed.seed: what a person    *)
(* types names one account; a request acts as an account its password was     *)
(* chosen for or as a demo account, never as the owner of the status page;    *)
(* and only accounts that a status seed created are published.                *)
OwnAccountOnly ==
    running \in {"race", "adopt"} =>
        Registry!NoCrossNaming /\ Registry!ActsAsOneself /\ Registry!NoTakeover

(* StatusSeed.seed, docker-entrypoint.sh: exactly the manifest of the last    *)
(* seed that committed is public, whatever failed and whatever is running,    *)
(* and an API listens only with its configuration applied.                    *)
SeedsApplied ==
    running = "manifest" =>
        Manifest!TypeOK /\ Manifest!PublishedIsManifest /\ Manifest!ListensWhenSeeded
=============================================================================
