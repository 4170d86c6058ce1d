SPECIFICATION MediaSpec
CONSTANTS
    Nil = Nil
    ConnectionIds = {voice}
    Pcs = {p1, p2}
    Tracks = {t1, t2, t3}
    Mids = {m}
CHECK_DEADLOCK FALSE
INVARIANTS
    TracksOfCurrentPc
    NothingLeaks
PROPERTIES
    AllReleased
