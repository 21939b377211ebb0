------------------------------ MODULE Retention ------------------------------
(***************************************************************************)
(* The retention pass of the worker over check_result and alert, beside    *)
(* the transactions that insert rows and delete monitors with theirs.      *)
(*                                                                         *)
(* Rows of a table are numbered in the order of (created_at, id).  As the  *)
(* cutoff only moves forward, the expired rows are a prefix; checks commit *)
(* a little out of order, but never as late as the cutoff.  A batch is one *)
(* statement in a transaction of its own.                                  *)
(***************************************************************************)
EXTENDS Naturals, FiniteSets

CONSTANTS
    MaxRows,        \* bound: rows inserted into each table
    BatchSize,      \* RETENTION_BATCH_SIZE
    MaxBatches      \* MaxBatchesPerPass

Tables == {"check_result", "alert"}

ASSUME RetentionAssumption ==
    /\ MaxRows \in [Tables -> Nat]
    /\ BatchSize \in Nat \ {0} /\ MaxBatches \in Nat \ {0}

VARIABLES
    inserted,       \* inserted[t]: the last row inserted
    expired,        \* expired[t]: the last row before the cutoff
    present,        \* present[t]: the rows in the table
    locked,         \* locked[t]: rows another transaction is deleting
    at,             \* the table the pass is at, or "idle"
    batch,          \* batches of this table so far
    result,         \* of the last pass: "none", "ok" or "error"
    due,            \* history: rows present and expired when the pass began
    retired,        \* history: rows this pass deleted
    skipped,        \* history: expired rows a batch of this pass found locked
    exhausted       \* history: tables on which this pass spent its batches

rows == <<inserted, expired, present, locked>>
pass == <<at, batch, result>>
history == <<due, retired, skipped, exhausted>>
vars == <<rows, pass, history>>

Nothing == [t \in Tables |-> {}]
Expired(t) == {r \in present[t] : r <= expired[t]}

\* Rows may well be inserted and expire before the first pass.
Init ==
    /\ inserted = [t \in Tables |-> 0] /\ expired = [t \in Tables |-> 0]
    /\ present = Nothing
    /\ locked = Nothing
    /\ at = "idle" /\ batch = 0 /\ result = "none"
    /\ due = Nothing /\ retired = Nothing /\ skipped = Nothing /\ exhausted = {}

-----------------------------------------------------------------------------
(* The pass *)

StartPass ==
    /\ at = "idle"
    /\ at' = "check_result" /\ batch' = 0 /\ result' = "none"
    /\ due' = [t \in Tables |-> Expired(t)]
    /\ retired' = Nothing /\ skipped' = Nothing /\ exhausted' = {}
    /\ UNCHANGED rows

\* MUTANT: without ORDER BY.
DoomedAnywhere(t, doomed) ==
    LET free == Expired(t) \ locked[t] IN
    /\ doomed \subseteq free
    /\ IF Cardinality(free) < BatchSize THEN doomed = free ELSE Cardinality(doomed) = BatchSize

\* The oldest expired rows nobody has locked, up to the limit.
Doomed(t, doomed) ==
    LET free == Expired(t) \ locked[t] IN
    /\ doomed \subseteq free
    /\ IF Cardinality(free) < BatchSize THEN doomed = free ELSE Cardinality(doomed) = BatchSize
    /\ \A d \in doomed, r \in free \ doomed : d < r

Delete(t, doomed) ==
    /\ present' = [present EXCEPT ![t] = @ \ doomed]
    /\ retired' = [retired EXCEPT ![t] = @ \cup doomed]
    /\ skipped' = [skipped EXCEPT ![t] = @ \cup (Expired(t) \cap locked[t])]
    /\ UNCHANGED <<inserted, expired, locked, due>>

\* cleanRetentionTable returns without an error.
TableDone(t) ==
    /\ at' = IF t = "check_result" THEN "alert" ELSE "idle"
    /\ result' = IF t = "check_result" THEN result ELSE "ok"
    /\ batch' = 0

\* MUTANT: a batch that was just full ends the table.
ShortBatchLax(t, doomed) ==
    /\ at = t
    /\ Delete(t, doomed)
    /\ Cardinality(doomed) <= BatchSize
    /\ TableDone(t)
    /\ UNCHANGED exhausted

ShortBatch(t, doomed) ==
    /\ at = t
    /\ Delete(t, doomed)
    /\ Cardinality(doomed) < BatchSize
    /\ TableDone(t)
    /\ UNCHANGED exhausted

FullBatch(t, doomed) ==
    /\ at = t
    /\ Delete(t, doomed)
    /\ Cardinality(doomed) = BatchSize
    /\ IF batch + 1 < MaxBatches
       THEN batch' = batch + 1 /\ UNCHANGED <<at, result, exhausted>>
       ELSE TableDone(t) /\ exhausted' = exhausted \cup {t}

\* The statement fails, or its client gives it up while it commits; the pass is over
\* and leaves the other table alone.
BatchFails(t, doomed) ==
    /\ at = t
    /\ Delete(t, doomed) \/ UNCHANGED <<rows, due, retired, skipped>>
    /\ at' = "idle" /\ batch' = 0 /\ result' = "error"
    /\ UNCHANGED exhausted

\* The context is cancelled between two batches.
Cancelled ==
    /\ at # "idle"
    /\ at' = "idle" /\ batch' = 0 /\ result' = "error"
    /\ UNCHANGED <<rows, history>>

Batch(t) ==
    \E doomed \in SUBSET Expired(t) :
      /\ Doomed(t, doomed)
      /\ ShortBatch(t, doomed) \/ FullBatch(t, doomed) \/ BatchFails(t, doomed)

-----------------------------------------------------------------------------
(* Checks, deletions of monitors, time *)

Insert(t) ==
    /\ inserted[t] < MaxRows[t]
    /\ inserted' = [inserted EXCEPT ![t] = @ + 1]
    /\ present' = [present EXCEPT ![t] = @ \cup {inserted[t] + 1}]
    /\ UNCHANGED <<expired, locked, pass, history>>

Expire(t) ==
    /\ expired[t] < inserted[t]
    /\ expired' = [expired EXCEPT ![t] = @ + 1]
    /\ UNCHANGED <<inserted, present, locked, pass, history>>

\* A deletion of monitors marks rows, then commits or rolls back.
MarkRow(t, r) ==
    /\ r \in present[t] \ locked[t]
    /\ locked' = [locked EXCEPT ![t] = @ \cup {r}]
    /\ UNCHANGED <<inserted, expired, present, pass, history>>

DeletionEnds(t) ==
    /\ locked[t] # {}
    /\ locked' = [locked EXCEPT ![t] = {}]
    /\ present' \in {present, [present EXCEPT ![t] = @ \ locked[t]]}
    /\ UNCHANGED <<inserted, expired, pass, history>>

Next ==
    \/ StartPass \/ Cancelled
    \/ \E t \in Tables :
         \/ Batch(t) \/ Insert(t) \/ Expire(t) \/ DeletionEnds(t)
         \/ \E r \in present[t] : MarkRow(t, r)

Spec == Init /\ [][Next]_vars

-----------------------------------------------------------------------------
(* Properties *)

\* The variables have their kinds; rows in the tables were inserted.
TypeOK ==
    /\ inserted \in [Tables -> Nat] /\ expired \in [Tables -> Nat]
    /\ \A t \in Tables : expired[t] <= inserted[t] /\ present[t] \subseteq 1..inserted[t]
    /\ \A f \in {present, locked, due, retired, skipped} : f \in [Tables -> SUBSET Nat]
    /\ \A t \in Tables : locked[t] \subseteq present[t]
    /\ at \in Tables \cup {"idle"}
    /\ batch \in 0..(MaxBatches - 1)
    /\ result \in {"none", "ok", "error"}
    /\ exhausted \in SUBSET Tables

\* One pass deletes at most MaxBatchesPerPass batches of each table, however it ends
\* (retention.go lines 72 and 84, README.md:90 "bounded batches").
PassBounded ==
    \A t \in Tables : Cardinality(retired[t]) <= MaxBatches * BatchSize

\* Whatever a pass leaves in a table is younger than all it deleted there, unless the
\* row was locked by a deletion: no gaps appear in the middle of a history.
OldestFirst ==
    \A t \in Tables : \A r \in retired[t] : \A q \in present[t] :
      q < r => q \in skipped[t]

\* A pass is bounded, and what it leaves of a table is younger than what it deleted
\* there or was locked (RunRetentionPass, cleanRetentionTable).
BatchesOrdered == PassBounded /\ OldestFirst

\* A pass without error leaves none of the rows that were due when it began, unless
\* it met them locked or spent all its batches: a short batch does mean that nothing
\* is left, although locked rows are passed over.
CleanPass ==
    result = "ok" =>
      \A t \in Tables \ exhausted : due[t] \cap present[t] \subseteq skipped[t]
=============================================================================
