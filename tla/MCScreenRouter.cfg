SPECIFICATION Spec
CONSTANTS
    None = None
    Publishers = {b, c}
    Subscribers = {a}
    Tracks = {t1, t2, t3, t4}
    VideoMids = {v}
    AudioMids = {u}
    PairCount = 1
    MaxCommands = 4
    MaxDepartures = 1
    MaxExpired = 1
    MaxPackets = 1
    MaxTogether = 1
SYMMETRY Symmetry
CHECK_DEADLOCK FALSE
INVARIANTS
    BindingsSound
    NoPairWasted
    SubscribersInformed
    KeyframesReachSource
PROPERTIES
    NoCrossTalk
