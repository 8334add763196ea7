CONSTANTS
    a = a
    b = b
    Calls = {c1, c2, c3}
    Servers <- TwoServers
    Subscribers <- TwoSubscribers
    Ids <- TrackerIds
    NoId = NoId
    Limit = 2
    Enforce = TRUE
    Pinging = TRUE
    Tokens = {none, right, wrong}
    ExpectedToken = right
    NoToken = none
    AnyPort = FALSE
    ParallelEncoding = TRUE
SPECIFICATION PluginFairSpec
INVARIANTS
    TypeOK
    SlotsCounted
    LimitRespected
    ServerInReach
PROPERTIES
    SlotReturned
    UnloadEnds
