CONSTANTS
    Users = {u1, u2}
    Servers = {s1}
    Codes = {c1}
    Channels = {h1}
    Requests = {r1, r2}
    Kinds = {"createServer", "updateServer", "deleteServer", "addMember",
             "leaveServer", "createInvite", "revokeInvite", "acceptInvite",
             "createChannel", "updateChannel", "deleteChannel", "checkAccess"}
    Nobody = nobody
    None = none
SPECIFICATION Spec
SYMMETRY Symmetry
INVARIANTS
    TablesSound
    AnswersJustified
