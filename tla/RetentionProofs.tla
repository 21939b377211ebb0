--------------------------- MODULE RetentionProofs ---------------------------
(* Proofs about Retention for every batch size, limit and number of rows. *)
EXTENDS Retention, FiniteSetTheorems, TLAPS

RowsType ==
    /\ inserted \in [Tables -> Nat] /\ expired \in [Tables -> Nat]
    /\ present \in [Tables -> SUBSET Nat] /\ locked \in [Tables -> SUBSET Nat]
    /\ \A t \in Tables : expired[t] <= inserted[t] /\ present[t] \subseteq 1..inserted[t]
PassType ==
    /\ at \in Tables \cup {"idle"}
    /\ batch \in 0..(MaxBatches - 1)
    /\ result \in {"none", "ok", "error"}
    /\ at # "idle" => result = "none"
    /\ retired \in [Tables -> SUBSET Nat] /\ skipped \in [Tables -> SUBSET Nat]
    /\ due \in [Tables -> SUBSET Nat]

\* So far a table has lost its batches and nothing before its turn.
CountOK ==
    /\ \A t \in Tables : /\ IsFiniteSet(retired[t])
                         /\ Cardinality(retired[t]) <= MaxBatches * BatchSize
                         /\ at = t => Cardinality(retired[t]) <= batch * BatchSize
    /\ at = "check_result" => retired["alert"] = {}

\* What is inserted later is younger than all that was ever due or retired.
OrderOK ==
    /\ OldestFirst
    /\ \A t \in Tables : /\ \A r \in retired[t] : r <= expired[t]
                         /\ \A r \in due[t] : r <= expired[t]

Done(t) == (at = "idle" /\ result = "ok") \/ (at = "alert" /\ t = "check_result")
CleanOK ==
    \A t \in Tables : Done(t) /\ t \notin exhausted => due[t] \cap present[t] \subseteq skipped[t]

RetentionInvariant == RowsType /\ PassType /\ CountOK /\ OrderOK /\ CleanOK

LEMMA InitRetention == Init => RetentionInvariant
<1> SUFFICES ASSUME Init PROVE RetentionInvariant
  OBVIOUS
<1> USE RetentionAssumption DEF Init, Nothing
<1>1. RowsType /\ PassType
  BY DEF RowsType, PassType
<1>2. CountOK
  <2>1. MaxBatches * BatchSize >= 0 /\ batch * BatchSize = 0
    OBVIOUS
  <2>2. \A t \in Tables : retired[t] = {}
    OBVIOUS
  <2> QED
    BY <2>1, <2>2, FS_EmptySet DEF CountOK, Tables
<1>3. OrderOK /\ CleanOK
  BY DEF OrderOK, CleanOK, OldestFirst, Done
<1> QED
  BY <1>1, <1>2, <1>3 DEF RetentionInvariant

-----------------------------------------------------------------------------
(* Steps of others, and of the pass when it touches no rows *)

\* A step of the other transactions or of time removes rows, or adds rows younger than
\* the cutoff, and leaves the pass alone.
LEMMA OthersKeep ==
  ASSUME RetentionInvariant, RowsType', UNCHANGED <<pass, history>>,
         \A t \in Tables : expired[t] <= expired'[t],
         \A t \in Tables : \A q \in present'[t] : q \in present[t] \/ q > expired[t]
  PROVE  RetentionInvariant'
<1> USE DEF RetentionInvariant, pass, history
<1>1. PassType' /\ CountOK'
  BY DEF PassType, CountOK
<1>2. OrderOK'
  <2>1. ASSUME NEW t \in Tables, NEW r \in retired'[t], NEW q \in present'[t], q < r
        PROVE  q \in skipped'[t]
    <3>1. r \in retired[t] /\ r <= expired[t] /\ r \in Nat /\ expired[t] \in Nat
      BY <2>1 DEF OrderOK, PassType, RowsType
    <3>2. q \in Nat
      BY <2>1 DEF RowsType
    <3>3. q \in present[t]
      BY <2>1, <3>1, <3>2
    <3> QED
      BY <2>1, <3>1, <3>3 DEF OrderOK, OldestFirst
  <2>2. ASSUME NEW t \in Tables, NEW r, r \in retired'[t] \/ r \in due'[t]
        PROVE  r <= expired'[t]
    BY <2>2 DEF OrderOK, PassType, RowsType
  <2> QED
    BY <2>1, <2>2 DEF OrderOK, OldestFirst
<1>3. CleanOK'
  <2>1. ASSUME NEW t \in Tables, NEW q \in due'[t] \cap present'[t] PROVE q \in present[t]
    <3>1. q \in due[t] /\ q <= expired[t] /\ q \in Nat /\ expired[t] \in Nat
      BY <2>1 DEF OrderOK, PassType, RowsType
    <3> QED
      BY <2>1, <3>1
  <2> QED
    BY <2>1 DEF CleanOK, Done
<1> QED
  BY <1>1, <1>2, <1>3

LEMMA OtherSteps ==
  ASSUME RetentionInvariant, NEW t \in Tables,
         Insert(t) \/ Expire(t) \/ DeletionEnds(t) \/ (\E r \in present[t] : MarkRow(t, r))
  PROVE  RetentionInvariant'
<1>0. RowsType
  BY DEF RetentionInvariant
<1>1. RowsType' /\ UNCHANGED <<pass, history>>
  <2>1. CASE Insert(t)
    BY <1>0, <2>1 DEF Insert, RowsType
  <2>2. CASE Expire(t)
    BY <1>0, <2>2 DEF Expire, RowsType
  <2>3. CASE DeletionEnds(t)
    BY <1>0, <2>3 DEF DeletionEnds, RowsType
  <2>4. CASE \E r \in present[t] : MarkRow(t, r)
    BY <1>0, <2>4 DEF MarkRow, RowsType
  <2> QED
    BY <2>1, <2>2, <2>3, <2>4
<1>2. \A u \in Tables : expired[u] <= expired'[u]
  BY <1>0 DEF Insert, Expire, DeletionEnds, MarkRow, RowsType
<1>3. \A u \in Tables : \A q \in present'[u] : q \in present[u] \/ q > expired[u]
  BY <1>0 DEF Insert, Expire, DeletionEnds, MarkRow, RowsType
<1> QED
  BY <1>1, <1>2, <1>3, OthersKeep

LEMMA StartStep == RetentionInvariant /\ StartPass => RetentionInvariant'
<1> SUFFICES ASSUME RetentionInvariant, StartPass PROVE RetentionInvariant'
  OBVIOUS
<1> USE RetentionAssumption DEF RetentionInvariant, StartPass, Nothing, rows
<1>1. RowsType'
  BY DEF RowsType
<1>2. PassType'
  BY DEF RowsType, PassType, Expired, Tables
<1>3. CountOK'
  <2>1. MaxBatches * BatchSize >= 0 /\ 0 * BatchSize = 0
    OBVIOUS
  <2>2. \A t \in Tables : retired'[t] = {}
    OBVIOUS
  <2>3. batch' = 0
    OBVIOUS
  <2> QED
    BY <2>1, <2>2, <2>3, FS_EmptySet DEF CountOK, Tables
<1>4. OrderOK' /\ CleanOK'
  BY DEF OrderOK, CleanOK, OldestFirst, Done, Expired, RowsType
<1> QED
  BY <1>1, <1>2, <1>3, <1>4

\* A pass that ends with an error has promised nothing more than its count.
LEMMA ErrorStep ==
  ASSUME RetentionInvariant, UNCHANGED <<rows, history>>,
         at' = "idle", batch' = 0, result' = "error"
  PROVE  RetentionInvariant'
<1> USE RetentionAssumption DEF RetentionInvariant, rows, history
<1>1. RowsType' /\ PassType' /\ OrderOK' /\ CleanOK'
  BY DEF RowsType, PassType, OrderOK, OldestFirst, CleanOK, Done
<1>2. CountOK'
  BY DEF CountOK, Tables
<1> QED
  BY <1>1, <1>2

-----------------------------------------------------------------------------
(* A batch *)

\* The rows a batch may delete, few enough and older than what it leaves unlocked.
LEMMA DoomedFacts ==
  ASSUME RetentionInvariant, NEW t \in Tables, NEW doomed, Doomed(t, doomed)
  PROVE  /\ doomed \subseteq Expired(t) /\ doomed \subseteq Nat
         /\ IsFiniteSet(doomed) /\ Cardinality(doomed) \in Nat
         /\ Cardinality(doomed) <= BatchSize
         /\ Cardinality(doomed) < BatchSize => doomed = Expired(t) \ locked[t]
         /\ \A d \in doomed, q \in Expired(t) \ (locked[t] \cup doomed) : d < q
<1> DEFINE free == Expired(t) \ locked[t]
<1>1. free \subseteq 1..inserted[t] /\ inserted[t] \in Nat
  BY DEF RetentionInvariant, RowsType, Expired
<1>2. doomed \subseteq free
  BY DEF Doomed
<1>3. IsFiniteSet(1..inserted[t])
  BY <1>1, FS_Interval
<1>4. IsFiniteSet(free) /\ IsFiniteSet(doomed)
  BY <1>1, <1>2, <1>3, FS_Subset
<1>5. Cardinality(free) \in Nat /\ Cardinality(doomed) \in Nat
  BY <1>4, FS_CardinalityType
<1>6. /\ Cardinality(doomed) <= BatchSize
      /\ Cardinality(doomed) < BatchSize => doomed = free
  BY <1>5, RetentionAssumption DEF Doomed
<1> QED
  BY <1>1, <1>2, <1>4, <1>5, <1>6 DEF Doomed

\* What its deletion keeps, whatever becomes of the pass.
LEMMA DeleteKeeps ==
  ASSUME RetentionInvariant, NEW t \in Tables, at = t, NEW doomed, Doomed(t, doomed),
         Delete(t, doomed)
  PROVE  /\ RowsType' /\ OrderOK'
         /\ retired' \in [Tables -> SUBSET Nat] /\ skipped' \in [Tables -> SUBSET Nat]
         /\ due' = due /\ due \in [Tables -> SUBSET Nat]
         /\ \A u \in Tables : IsFiniteSet(retired'[u])
         /\ Cardinality(retired'[t]) \in Nat
         /\ Cardinality(retired'[t]) <= batch * BatchSize + Cardinality(doomed)
         /\ \A u \in Tables \ {t} : retired'[u] = retired[u]
<1> USE DEF RetentionInvariant
<1>0. doomed \subseteq Expired(t) /\ doomed \subseteq Nat /\ IsFiniteSet(doomed)
      /\ Cardinality(doomed) \in Nat
  BY DoomedFacts
<1>1. RowsType'
  BY DEF RowsType, Delete
<1>2. retired' \in [Tables -> SUBSET Nat] /\ skipped' \in [Tables -> SUBSET Nat]
      /\ due' = due /\ due \in [Tables -> SUBSET Nat]
  BY <1>0 DEF PassType, RowsType, Delete, Expired
<1>3. retired'[t] = retired[t] \cup doomed
  BY DEF Delete, PassType
<1>4. \A u \in Tables \ {t} : retired'[u] = retired[u]
  BY DEF Delete, PassType
<1>5. /\ IsFiniteSet(retired'[t])
      /\ Cardinality(retired'[t]) \in Nat
      /\ Cardinality(retired'[t]) <= batch * BatchSize + Cardinality(doomed)
  <2>1. IsFiniteSet(retired[t]) /\ Cardinality(retired[t]) <= batch * BatchSize
    BY DEF CountOK
  <2>2. /\ IsFiniteSet(retired[t] \cup doomed)
        /\ Cardinality(retired[t] \cup doomed)
             = Cardinality(retired[t]) + Cardinality(doomed) - Cardinality(retired[t] \cap doomed)
    BY <1>0, <2>1, FS_Union
  <2>3. IsFiniteSet(retired[t] \cap doomed)
    BY <1>0, FS_Subset
  <2>4. /\ Cardinality(retired[t] \cap doomed) \in Nat /\ Cardinality(retired[t]) \in Nat
        /\ Cardinality(retired[t] \cup doomed) \in Nat
    BY <2>1, <2>2, <2>3, FS_CardinalityType
  <2>5. batch * BatchSize \in Nat
    BY RetentionAssumption DEF PassType
  <2> QED
    BY <1>0, <1>3, <2>1, <2>2, <2>4, <2>5
<1>6. OrderOK'
  <2>1. ASSUME NEW u \in Tables, NEW r \in retired'[u], NEW q \in present'[u], q < r
        PROVE  q \in skipped'[u]
    <3>1. q \in present[u] /\ skipped[u] \subseteq skipped'[u]
      BY <2>1 DEF Delete, RowsType, PassType
    <3>2. CASE r \in retired[u]
      BY <2>1, <3>1, <3>2 DEF OrderOK, OldestFirst
    <3>3. CASE r \notin retired[u]
      <4>1. u = t /\ r \in doomed
        BY <1>3, <1>4, <2>1, <3>3
      <4>2. q \notin doomed /\ r \in Nat /\ r <= expired[t] /\ q \in Nat /\ expired[t] \in Nat
        BY <1>0, <2>1, <3>1, <4>1 DEF Delete, RowsType, Expired
      <4>3. q \in Expired(t)
        BY <2>1, <3>1, <4>1, <4>2 DEF Expired
      <4>4. q \in locked[t]
        BY <2>1, <4>1, <4>2, <4>3, DoomedFacts
      <4> QED
        BY <4>1, <4>3, <4>4 DEF Delete, PassType
    <3> QED
      BY <3>2, <3>3
  <2>2. ASSUME NEW u \in Tables, NEW r \in retired'[u] PROVE r <= expired'[u]
    BY <1>0, <1>3, <1>4, <2>2 DEF OrderOK, Delete, Expired
  <2>3. ASSUME NEW u \in Tables, NEW r \in due'[u] PROVE r <= expired'[u]
    BY <2>3 DEF OrderOK, Delete
  <2> QED
    BY <2>1, <2>2, <2>3 DEF OrderOK, OldestFirst
<1> QED
  BY <1>1, <1>2, <1>3, <1>4, <1>5, <1>6 DEF CountOK

\* The arithmetic of the batches: one more full batch is within the limit.
LEMMA BatchArithmetic ==
  ASSUME NEW b \in 0..(MaxBatches - 1)
  PROVE  /\ b * BatchSize + BatchSize = (b + 1) * BatchSize
         /\ (b + 1) * BatchSize <= MaxBatches * BatchSize
         /\ 0 * BatchSize = 0 /\ b * BatchSize \in Nat /\ MaxBatches * BatchSize \in Nat
<1>1. b \in Nat /\ b + 1 <= MaxBatches /\ BatchSize \in Nat /\ MaxBatches \in Nat
  BY RetentionAssumption
<1>2. b * BatchSize + BatchSize = (b + 1) * BatchSize
  BY <1>1
<1>3. PICK k \in Nat : MaxBatches = (b + 1) + k
  <2>1. MaxBatches - (b + 1) \in Nat /\ MaxBatches = (b + 1) + (MaxBatches - (b + 1))
    BY <1>1
  <2> QED
    BY <2>1
<1>4. MaxBatches * BatchSize = (b + 1) * BatchSize + k * BatchSize
  BY <1>1, <1>3
<1>5. k * BatchSize \in Nat /\ (b + 1) * BatchSize \in Nat /\ b * BatchSize \in Nat
  BY <1>1, <1>3
<1> QED
  BY <1>1, <1>2, <1>4, <1>5

LEMMA BatchStep ==
  ASSUME RetentionInvariant, NEW t \in Tables, Batch(t)
  PROVE  RetentionInvariant'
<1>0. PICK doomed \in SUBSET Expired(t) :
        Doomed(t, doomed)
        /\ (ShortBatch(t, doomed) \/ FullBatch(t, doomed) \/ BatchFails(t, doomed))
  BY DEF Batch
<1>1. CASE BatchFails(t, doomed) /\ ~Delete(t, doomed)
  BY <1>1, ErrorStep DEF BatchFails, history
<1>2. CASE ~BatchFails(t, doomed) \/ Delete(t, doomed)
  <2>1. at = t /\ Delete(t, doomed)
    BY <1>0, <1>2 DEF ShortBatch, FullBatch, BatchFails
  <2>2. /\ RowsType' /\ OrderOK'
        /\ retired' \in [Tables -> SUBSET Nat] /\ skipped' \in [Tables -> SUBSET Nat]
        /\ due' = due /\ due \in [Tables -> SUBSET Nat]
        /\ \A u \in Tables : IsFiniteSet(retired'[u])
        /\ Cardinality(retired'[t]) \in Nat
        /\ Cardinality(retired'[t]) <= batch * BatchSize + Cardinality(doomed)
        /\ \A u \in Tables \ {t} : retired'[u] = retired[u]
    BY <1>0, <2>1, DeleteKeeps
  <2>3. /\ Cardinality(doomed) \in Nat /\ Cardinality(doomed) <= BatchSize
        /\ Cardinality(doomed) < BatchSize => doomed = Expired(t) \ locked[t]
    BY <1>0, DoomedFacts
  <2>4. /\ batch \in 0..(MaxBatches - 1) /\ result = "none" /\ PassType /\ CountOK /\ RowsType
        /\ CleanOK /\ OrderOK
    BY <2>1 DEF RetentionInvariant, PassType, Tables
  <2>5. Cardinality(retired'[t]) <= (batch + 1) * BatchSize
        /\ Cardinality(retired'[t]) <= MaxBatches * BatchSize
    BY <2>2, <2>3, <2>4, BatchArithmetic, RetentionAssumption
  <2>6. \A u \in Tables : Cardinality(retired'[u]) <= MaxBatches * BatchSize
    BY <2>2, <2>4, <2>5 DEF CountOK
  \* The pass stays at the table with one batch more, or leaves it.
  <2>7. \/ at' = t /\ batch' = batch + 1 /\ batch + 1 < MaxBatches /\ result' = "none"
        \/ TableDone(t)
        \/ at' = "idle" /\ batch' = 0 /\ result' = "error"
    BY <1>0, <2>1, <2>4 DEF ShortBatch, FullBatch, BatchFails
  <2>8. PassType'
    BY <2>2, <2>4, <2>7, RetentionAssumption DEF PassType, TableDone, Tables
  <2>9. CountOK'
    <3>1. ASSUME NEW u \in Tables, at' = u
          PROVE  Cardinality(retired'[u]) <= batch' * BatchSize
      <4>1. CASE u = t
        <5>1. batch' = batch + 1
          BY <2>7, <3>1, <4>1 DEF TableDone, Tables
        <5> QED
          BY <2>5, <4>1, <5>1
      <4>2. CASE u # t
        <5>1. u = "alert" /\ t = "check_result" /\ batch' = 0
          BY <2>7, <3>1, <4>2 DEF TableDone, Tables
        <5>2. retired'[u] = {}
          BY <2>1, <2>2, <2>4, <4>2, <5>1 DEF CountOK
        <5> QED
          BY <5>1, <5>2, <2>4, FS_EmptySet, BatchArithmetic
      <4> QED
        BY <4>1, <4>2
    <3>2. at' = "check_result" => retired'["alert"] = {}
      BY <2>1, <2>2, <2>4, <2>7 DEF CountOK, TableDone, Tables
    <3> QED
      BY <2>2, <2>6, <3>1, <3>2 DEF CountOK
  <2>10. CleanOK'
    <3>1. SUFFICES ASSUME NEW u \in Tables, Done(u)', u \notin exhausted',
                          NEW q \in due'[u] \cap present'[u]
                   PROVE  q \in skipped'[u]
      BY DEF CleanOK
    <3>2. exhausted \subseteq exhausted'
      BY <1>0 DEF ShortBatch, FullBatch, BatchFails
    <3>3. CASE u = t
      <4>0. ~(at' = t /\ result' = "none") /\ result' # "error"
        BY <2>4, <2>7, <3>1, <3>3 DEF Done, TableDone, Tables
      <4>1. Cardinality(doomed) < BatchSize
        <5>1. CASE ShortBatch(t, doomed)
          BY <5>1 DEF ShortBatch
        <5>2. CASE FullBatch(t, doomed)
          BY <2>1, <2>4, <3>1, <3>3, <4>0, <5>2 DEF FullBatch
        <5>3. CASE BatchFails(t, doomed)
          BY <4>0, <5>3 DEF BatchFails
        <5> QED
          BY <1>0, <5>1, <5>2, <5>3
      <4>2. doomed = Expired(t) \ locked[t]
        BY <2>3, <4>1
      <4>3. q \in present[t] /\ q \notin doomed /\ q \in due[t]
        BY <2>1, <2>2, <2>4, <3>1, <3>3 DEF Delete, RowsType
      <4>4. q \in Expired(t) \cap locked[t]
        BY <2>4, <4>2, <4>3 DEF OrderOK, Expired
      <4> QED
        BY <2>1, <2>4, <3>3, <4>4 DEF Delete, PassType
    <3>4. CASE u # t
      <4>1. u = "check_result" /\ at = "alert"
        BY <2>1, <2>7, <3>1, <3>4 DEF TableDone, Done, Tables
      <4>2. q \in due[u] /\ q \in present[u] /\ u \notin exhausted
        BY <2>1, <2>2, <2>4, <3>1, <3>2, <3>4 DEF Delete, RowsType
      <4>3. q \in skipped[u]
        BY <2>4, <4>1, <4>2 DEF CleanOK, Done
      <4> QED
        BY <2>1, <2>4, <3>4, <4>3 DEF Delete, PassType
    <3> QED
      BY <3>3, <3>4
  <2> QED
    BY <2>2, <2>8, <2>9, <2>10 DEF RetentionInvariant
<1> QED
  BY <1>1, <1>2

LEMMA NextRetention == RetentionInvariant /\ [Next]_vars => RetentionInvariant'
<1> SUFFICES ASSUME RetentionInvariant, [Next]_vars PROVE RetentionInvariant'
  OBVIOUS
<1>1. CASE StartPass
  BY <1>1, StartStep
<1>2. CASE Cancelled
  BY <1>2, ErrorStep DEF Cancelled
<1>3. CASE \E t \in Tables : Batch(t)
  BY <1>3, BatchStep
<1>4. CASE \E t \in Tables : Insert(t) \/ Expire(t) \/ DeletionEnds(t)
                             \/ (\E r \in present[t] : MarkRow(t, r))
  BY <1>4, OtherSteps
<1>5. CASE UNCHANGED vars
  BY <1>5 DEF vars, rows, pass, history, RetentionInvariant, RowsType, PassType, CountOK,
              OrderOK, OldestFirst, CleanOK, Done
<1> QED
  BY <1>1, <1>2, <1>3, <1>4, <1>5 DEF Next

LEMMA RetentionAlways == Spec => []RetentionInvariant
  BY InitRetention, NextRetention, PTL DEF Spec

\* For every batch size, limit and number of rows, whatever is inserted, locked,
\* deleted or fails meanwhile: the work of a pass is bounded, and it deletes the
\* oldest rows first (cleanRetentionTable).
THEOREM BatchesCorrect == Spec => []BatchesOrdered
<1>1. RetentionInvariant => BatchesOrdered
  BY DEF RetentionInvariant, CountOK, OrderOK, PassBounded, OldestFirst, BatchesOrdered
<1> QED
  BY RetentionAlways, <1>1, PTL

\* Likewise, a pass without error leaves nothing that was due when it began, unless
\* it was locked or the batches were spent (RunRetentionPass).
THEOREM RetentionCorrect == Spec => []CleanPass
<1>1. RetentionInvariant => CleanPass
  BY DEF RetentionInvariant, PassType, CleanOK, Done, CleanPass
<1> QED
  BY RetentionAlways, <1>1, PTL
=============================================================================
