--------------------------- MODULE StatusContract ---------------------------
(***************************************************************************)
(* What visitors of the public status are promised, whichever of them asks *)
(* and whether the API has the answer or queries for it: an answer shows   *)
(* every change that is MaxAge old, and never less than an earlier answer. *)
(***************************************************************************)
EXTENDS Naturals

CONSTANTS MaxAge

VARIABLES
    changes,    \* changes of the published tables so far
    past,       \* past[i]: how many they were at the i-th tick back
    shown,      \* those that the last answer shows
    said        \* it was given since the last tick

vars == <<changes, past, shown, said>>

Init == changes = 0 /\ past = [i \in 1..MaxAge |-> 0] /\ shown = 0 /\ ~said

Change == changes' = changes + 1 /\ UNCHANGED <<past, shown, said>>

Tick ==
    /\ past' = [i \in 1..MaxAge |-> IF i = 1 THEN changes ELSE past[i - 1]]
    /\ said' = FALSE
    /\ UNCHANGED <<changes, shown>>

Answer(rows) ==
    /\ past[MaxAge] <= rows
    /\ shown' = rows /\ said' = TRUE
    /\ UNCHANGED <<changes, past>>

Next == Change \/ Tick \/ \E rows \in shown..changes : Answer(rows)

Spec == Init /\ [][Next]_vars
=============================================================================
