---------------------------- MODULE MCLoginCodes ----------------------------
(***************************************************************************)
(* Instances of LoginCodes for TLC.                                        *)
(***************************************************************************)
EXTENDS LoginCodes, TLC

Symmetry == Permutations(Issuers) \cup Permutations(Verifiers)
=============================================================================
