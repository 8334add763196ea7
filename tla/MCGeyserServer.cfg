CONSTANTS
    HeightCapacity = 2
    EventCapacity = 4
    ByteCapacity = 9
    MaxAge = NoLimit
    NoLimit = NoLimit
    Subscribers = {s1}
    Requests <- MCRequests
    Filters <- MCFilters
    Heights <- MCHeights
    TxIds = {t1}
    BroadcastCapacity = 3
    ClientCapacity = 2
    MaxEvents = 3
    MaxChanges = 1
    MaxPings = 1
SPECIFICATION Spec
INVARIANTS
    TypeOK
    DeliveredInOrder
    NothingLost
    BlockEventsWhole
    MempoolMirrored
    PublisherNeverWaits
CHECK_DEADLOCK FALSE
