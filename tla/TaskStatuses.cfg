SPECIFICATION Spec
CONSTANTS
    todo = todo
    finished = finished
    Statuses = {todo, finished, s}
    Groups = {"TODO", "COMPLETE"}
    Seeded <- MCSeeded
    First = todo
    Tasks = {t}
    NoStatus = NoStatus
    Requests = {r1, r2}
SYMMETRY Symmetry
INVARIANTS
    TypeOK
    OneDefault
    CompletedInItsGroup
CHECK_DEADLOCK FALSE
