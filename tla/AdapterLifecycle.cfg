SPECIFICATION MCSpec
CONSTANTS
    h1 = h1
    h2 = h2
    Handlers = {h1, h2}
    MaxRequests = 2
    MaxServers = 2
    BusCapacity = 2
    MaxLags = 1
INVARIANTS
    TypeOK
    CompanionReachable
    SettledAgrees
    FormerServerGone
PROPERTIES
    RequestsReturn
CHECK_DEADLOCK FALSE
