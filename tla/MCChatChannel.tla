--------------------------- MODULE MCChatChannel ------------------------------
(***************************************************************************)
(* Instances of ChatChannel for TLC.                                       *)
(***************************************************************************)
EXTENDS ChatChannel, TLC

Symmetry == Permutations(Tabs) \cup Permutations(Messages) \cup Permutations(Writes)
=============================================================================
