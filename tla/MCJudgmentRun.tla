--------------------------- MODULE MCJudgmentRun ---------------------------
(* An instance of JudgmentRun small enough for TLC: two records under two  *)
(* keys; later a second shop lists the first item as B, and an instance of  *)
(* an older version leaves a row unkeyed.                                   *)
EXTENDS JudgmentRun, TLC

CONSTANTS A, B

Row(k, rec) == [item |-> k, record |-> rec, keyed |-> TRUE]
Unkeyed(k, rec) == [item |-> k, record |-> rec, keyed |-> FALSE]
MCSnapshot == {{Row(1, A), Row(2, B)}, {Row(1, A), Row(1, B), Unkeyed(2, B)}}

Symmetry == Permutations(Machine)
=============================================================================
