SPECIFICATION Spec
CONSTANTS
    Sprints = {s1, s2}
    Tasks = {t1}
    Requests = {r1, r2, r3}
    Backlog = Backlog
SYMMETRY Symmetry
INVARIANTS
    TypeOK
    OneActiveSprint
CHECK_DEADLOCK FALSE
