----------------------------- MODULE MCRetention -----------------------------
(* Instances of Retention for TLC. *)
EXTENDS Retention

MCMaxRows == [t \in Tables |-> IF t = "check_result" THEN 5 ELSE 1]
=============================================================================
