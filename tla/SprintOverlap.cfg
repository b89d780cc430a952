SPECIFICATION Spec
CONSTANTS
    Sprints = {s1, s2}
    Tasks = {t1, t2}
    Requests = {r1, r2}
    Backlog = Backlog
SYMMETRY Symmetry
PROPERTIES
    OnlyStaleReadsTurnBack
    OnlyLateWritesAreMissorted
    OnlyStaleMovesLand
CHECK_DEADLOCK FALSE
