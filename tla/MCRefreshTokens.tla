--------------------------- MODULE MCRefreshTokens ---------------------------
(***************************************************************************)
(* Instances of RefreshTokens for TLC.                                     *)
(***************************************************************************)
EXTENDS RefreshTokens, TLC

CONSTANTS f1, f2, u1

\* One user with two sign-ins, so a reset spans families and a logout does not.
MCOwnerOf == (f1 :> u1) @@ (f2 :> u1)

\* One sign-in, for the liveness run.
MCOneFamily == (f1 :> u1)

Symmetry == Permutations(Tokens) \cup Permutations(Requests)
=============================================================================
