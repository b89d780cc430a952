-------------------------- MODULE MCSprintLifecycle --------------------------
(***************************************************************************)
(* Instances of SprintLifecycle for TLC.                                   *)
(***************************************************************************)
EXTENDS SprintLifecycle, TLC

Symmetry == Permutations(Sprints) \cup Permutations(Tasks) \cup Permutations(Requests)
=============================================================================
