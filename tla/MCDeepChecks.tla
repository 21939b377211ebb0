---------------------------- MODULE MCDeepChecks ----------------------------
(***************************************************************************)
(* MonitorChecks for TLC, in two scopes.  In "deep" one monitor collects a *)
(* long history, and when its owner or the demo reset has deleted it       *)
(* another may take its place, be checked once and be deleted in turn.  In *)
(* "pair" two monitors live beside each other and each is checked once, so *)
(* that a demo reset, a seed or a deletion meets the checks of both.       *)
(***************************************************************************)
EXTENDS MonitorChecks, TLC

VARIABLE scope      \* "deep" or "pair"; it never changes

\* Bound: a row that is never due again after its first result.
CheckedOnce(m) ==
    monitor[m].last_checked_at # "elapsed" /\ monitor[m].target = SeedTarget

AtMostOne(p) == Cardinality({m \in Ids : phase[m] \in p}) <= 1

InScope ==
    \/ scope = "deep" /\ AtMostOne({"live", "deleted"})
    \/ scope = "deep" /\ AtMostOne({"live"}) /\ \A m \in Ids : CheckedOnce(m)
    \/ scope = "pair" /\ \A m \in Ids : CheckedOnce(m)

AllInit == scope \in {"deep", "pair"} /\ Init

AllNext == Next /\ UNCHANGED scope /\ InScope'

AllSpec == AllInit /\ [][AllNext]_<<scope, vars>>

Symmetry == Permutations(Ids)
=============================================================================
