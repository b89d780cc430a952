SPECIFICATION ChatSpec
CONSTANTS
    Tabs = {t1, t2}
    Messages = {m}
    Writes = {w1, w2}
    None = None
    Tombstone = Tombstone
    MaxDrops = 1
SYMMETRY Symmetry
INVARIANTS
    ChatTypeOK
    ThreadsAgree
    NoStuckBubble
CHECK_DEADLOCK FALSE
