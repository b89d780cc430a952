----------------------------- MODULE MCTaskTree -----------------------------
(***************************************************************************)
(* Instances of TaskTree for TLC.                                          *)
(***************************************************************************)
EXTENDS TaskTree, TLC

Symmetry == Permutations(Tasks) \cup Permutations(Requests)
=============================================================================
