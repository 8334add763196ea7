CONSTANTS
    HeightCapacity = 2
    EventCapacity = 8
    ByteCapacity = 99
    MaxAge = NoLimit
    NoLimit = NoLimit
    FinalityDepth = 1
    MaxHeight = 5
    MaxEvents = 14
    MaxTime = 0
    SkipMissedData = FALSE
    SkipToLive = TRUE
    HeightRetention = 4
    HeightBuffer = 2
    Filters <- AllKinds
    MaxRetries = 0
    MaxDisconnects = 2
    MaxRestarts = 0
SPECIFICATION ClientSpec
INVARIANT SkipToLiveGoesOn
CHECK_DEADLOCK FALSE
