-------------------------- MODULE MCSessionRenewal --------------------------
(***************************************************************************)
(* Instances of SessionRenewal for TLC.                                    *)
(***************************************************************************)
EXTENDS SessionRenewal, TLC

Symmetry == Permutations(Handlers)
=============================================================================
