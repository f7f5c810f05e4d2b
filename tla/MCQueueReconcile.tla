-------------------------- MODULE MCQueueReconcile --------------------------
(* Small instances of QueueReconcile. *)
EXTENDS QueueReconcile, TLC

CONSTANTS r1, r2, i1, i2, a

\* One store lists every item.
OneStore == [i \in Item |-> a]

Symmetry == Permutations(Session) \cup Permutations(Release) \cup Permutations(Item)
=============================================================================
