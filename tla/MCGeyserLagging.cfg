CONSTANTS
    HeightCapacity = 2
    EventCapacity = 4
    ByteCapacity = 9
    MaxAge = NoLimit
    NoLimit = NoLimit
    Subscribers = {s1}
    Requests <- MCLiveRequests
    Filters <- MCFilters
    Heights <- MCHeights
    TxIds = {t1}
    BroadcastCapacity = 1
    ClientCapacity = 1
    MaxEvents = 2
    MaxChanges = 0
    MaxPings = 0
SPECIFICATION ServerSpec
PROPERTY LaggingClientDisconnected
CHECK_DEADLOCK FALSE
