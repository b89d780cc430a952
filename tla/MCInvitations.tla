---------------------------- MODULE MCInvitations ----------------------------
(***************************************************************************)
(* Instances of Invitations for TLC.                                       *)
(***************************************************************************)
EXTENDS Invitations, TLC

Symmetry == Permutations(Invitations) \cup Permutations(Requests)
=============================================================================
