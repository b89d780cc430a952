SPECIFICATION Spec
CONSTANTS
    MaxCodes = 2
    Issuers = {i1}
    Verifiers = {v1, v2, v3}
    MaxAttempts = 2
    Wrong = 0
SYMMETRY Symmetry
INVARIANTS
    TypeOK
    AttemptsAreCapped
    OneLiveCode
CHECK_DEADLOCK FALSE
