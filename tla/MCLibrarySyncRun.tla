-------------------------- MODULE MCLibrarySyncRun --------------------------
(* Instances of LibrarySyncRun small enough for TLC. *)
EXTENDS LibrarySyncRun, TLC

Symmetry == Permutations(Machine) \cup Permutations(Release)
=============================================================================
