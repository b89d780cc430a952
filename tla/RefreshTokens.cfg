SPECIFICATION Spec
CONSTANTS
    f1 = f1
    f2 = f2
    u1 = u1
    Tokens = {t1, t2, t3}
    Families = {f1, f2}
    Users = {u1}
    Requests = {q1, q2}
    OwnerOf <- MCOwnerOf
    NoToken = NoToken
    NoFamily = NoFamily
    Grace = 1
    Ttl = 2
    MaxTime = 3
SYMMETRY Symmetry
INVARIANTS
    TypeOK
    OneLivePerFamily
    RotationKeepsLineage
    AlarmIsJustified
    ClosedStaysClosed
PROPERTIES
    NoReplayIntoClosedSession
    ImplementsLineage
CHECK_DEADLOCK FALSE
