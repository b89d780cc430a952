SPECIFICATION Spec
CONSTANTS
    Tasks = {t1, t2, t3}
    Requests = {r1, r2}
    MaxDepth = 1
    None = None
SYMMETRY Symmetry
INVARIANTS
    TypeOK
    
PROPERTIES
    OnlyOvertakenPurgesTakeTheLive
CHECK_DEADLOCK FALSE
