--------------------------- MODULE SessionLineage ---------------------------
(***************************************************************************)
(* What the refresh-token store promises, with no requests, no database    *)
(* statements and no clock: every sign-in founds a family, a rotation      *)
(* exchanges the one usable token of a family for a fresh one, and ending  *)
(* sessions only ever takes usable tokens away.                            *)
(***************************************************************************)
CONSTANTS
    Tokens,     \* refresh-token rows
    Families,   \* sign-ins; a family is one sign-in and all its rotations
    NoFamily    \* the family of a token that was never issued

VARIABLES
    lineage,    \* lineage[t] is the family token t was issued into
    usable      \* the tokens the API would still rotate

absVars == <<lineage, usable>>

AbsInit ==
    /\ lineage = [t \in Tokens |-> NoFamily]
    /\ usable = {}

\* A sign-in: a fresh token in a family nobody has used before.
AbsSignIn(t, f) ==
    /\ lineage[t] = NoFamily
    /\ \A s \in Tokens : lineage[s] # f
    /\ lineage' = [lineage EXCEPT ![t] = f]
    /\ usable' = usable \cup {t}

\* A rotation: s is spent and t, never issued before, takes its place.
AbsRotate(s, t) ==
    /\ s \in usable
    /\ lineage[t] = NoFamily
    /\ lineage' = [lineage EXCEPT ![t] = lineage[s]]
    /\ usable' = (usable \ {s}) \cup {t}

\* A logout, a password reset or a reuse alarm: some tokens stop working.
AbsEnd(S) ==
    /\ S \subseteq usable
    /\ usable' = usable \ S
    /\ UNCHANGED lineage

AbsNext ==
    \/ \E t \in Tokens, f \in Families : AbsSignIn(t, f)
    \/ \E s, t \in Tokens : AbsRotate(s, t)
    \/ \E S \in SUBSET Tokens : AbsEnd(S)

AbsSpec == AbsInit /\ [][AbsNext]_absVars

=============================================================================
