SPECIFICATION RenewalSpec
CONSTANTS
    Handlers = {r1, r2, r3}
    Routes = {"guarded", "action"}
    FaultKinds = {"lost", "unreachable"}
    MaxFaults = 1
    MaxGen = 3
    AccessTtl = 4
    Margin = 2
    Grace = 2
    MaxTransit = 1
    MaxTime = 8
    NoCookie = NoCookie
    Keep = Keep
SYMMETRY Symmetry
INVARIANTS
    RenewalTypeOK
    SessionSurvivesUse
    SignedOutOnlyWhenOver
    RenewalIsPaced
CHECK_DEADLOCK FALSE
