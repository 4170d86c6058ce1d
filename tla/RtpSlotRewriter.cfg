SPECIFICATION StreamSpec
CONSTANTS
    SequenceNumbers = 8
    Timestamps = 32
    MaxStep = 4
    DefaultStep = 2
    Starts = {7}
    Gains = {0, 3}
    MaxReorder = 4
    MaxSources = 3
    MaxPackets = 10
    MaxOut = 4
CHECK_DEADLOCK FALSE
INVARIANTS
    StreamInOrder
    TimelineAdvances
