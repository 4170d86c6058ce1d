SPECIFICATION FairCallSpec
CONSTANTS
    Peers = {p1, p2}
    MaxJoins = 3
    MaxQueue = 3
    MaxTasks = 3
CHECK_DEADLOCK FALSE
INVARIANTS
    ShownAsIs
    MediaAsAsked
PROPERTIES
    ConnectingEnds
