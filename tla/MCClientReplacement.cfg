CONSTANTS
    HeightCapacity = 3
    EventCapacity = 8
    ByteCapacity = 99
    MaxAge = NoLimit
    NoLimit = NoLimit
    FinalityDepth = 1
    MaxHeight = 3
    MaxEvents = 9
    MaxTime = 0
    SkipMissedData = FALSE
    SkipToLive = FALSE
    HeightRetention = 4
    HeightBuffer = 2
    Filters <- AllKinds
    MaxRetries = 0
    MaxDisconnects = 1
    MaxRestarts = 0
SPECIFICATION ClientSpec
INVARIANT ReplacementDelivered
CHECK_DEADLOCK FALSE
