--------------------------- MODULE MCTaskStatuses ----------------------------
(***************************************************************************)
(* Instances of TaskStatuses for TLC.                                      *)
(***************************************************************************)
EXTENDS TaskStatuses, TLC

CONSTANTS todo, finished

\* What the seed leaves once "In Progress" is deleted.
MCSeeded == todo :> "TODO" @@ finished :> "COMPLETE"

Symmetry == Permutations(Requests)
=============================================================================
