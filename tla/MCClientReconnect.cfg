CONSTANTS
    HeightCapacity = 3
    EventCapacity = 6
    ByteCapacity = 99
    MaxAge = NoLimit
    NoLimit = NoLimit
    FinalityDepth = 2
    MaxHeight = 3
    MaxEvents = 8
    MaxTime = 0
    SkipMissedData = FALSE
    SkipToLive = FALSE
    HeightRetention = 6
    HeightBuffer = 1
    Filters <- AllOrUnfinalized
    MaxRetries = 0
    MaxDisconnects = 2
    MaxRestarts = 1
SPECIFICATION ClientSpec
INVARIANTS
    ClientTypeOK
    NothingMissedAfterFinality
    UnfinalizedNotMissed
    RequestsNeverInvalid
CHECK_DEADLOCK FALSE
