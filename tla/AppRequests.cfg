CONSTANTS
    Users = {alice, bob}
    Servers = {s1, s2}
    Nobody = nobody
    NoServer = noServer
    Scenes = {{"users", "addMember", "createChannel"}, {"createServer"},
              {"acceptInvite"}, {"rename"}}
    FirstOwner = alice
    FirstServers = {s1}
    MaxLogins = 2
    MaxRequests = 2
    MaxChannels = 1
    MaxNames = 1
SPECIFICATION AppFairSpec
INVARIANTS
    SessionAsAsked
    NothingOfOthers
    ShownIsCurrent
PROPERTIES
    PendingEnds
