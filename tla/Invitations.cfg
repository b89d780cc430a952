SPECIFICATION Spec
CONSTANTS
    Invitations = {i1, i2}
    Requests = {r1, r2}
SYMMETRY Symmetry
INVARIANTS
    TypeOK
PROPERTIES
    JoinSpendsInvitation
    OutcomesAreTerminal
CHECK_DEADLOCK FALSE
