SPECIFICATION Spec
CONSTANTS
    None = None
    Peers = {a, b, c}
    Tracks = {t1, t2, t3}
    Mids = {m, n}
    MaxFlights = 1
    MaxDelayed = 1
SYMMETRY Symmetry
CHECK_DEADLOCK FALSE
INVARIANTS
    TypeOK
    BindingsSound
    NoSlotWasted
    NoticesTakeEffect
PROPERTIES
    NoCrossTalk
