SPECIFICATION Spec
CONSTANTS
    None = None
    Sessions = {a, b, c}
    RoomIds = {q,r}
    RequiresToken = TRUE
    ReceiveSlots = 1
    Capacity = 2
    MaxCommands = 3
SYMMETRY Symmetry
CHECK_DEADLOCK FALSE
INVARIANTS
    ViewsConverge
    StreamsBelongToPeers
    TablesConsistent
