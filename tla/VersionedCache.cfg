SPECIFICATION FairSpec
CONSTANTS
    Readers = {r1, r2}
    Writers = {w1, w2}
    Faults = {"redis", "write"}
    MaxWrites = 2
    None = None
INVARIANTS
    TypeOK
    ReadsSeeAnnounced
    FreshWhenQuiet
PROPERTIES
    EventuallyFresh
CHECK_DEADLOCK FALSE
