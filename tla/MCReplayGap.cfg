CONSTANTS
    HeightCapacity = 4
    EventCapacity = 100
    ByteCapacity = 100
    MaxAge = NoLimit
    NoLimit = NoLimit
    FinalityDepth = 3
    MaxHeight = 7
    MaxEvents = 20
    MaxTime = 0
SPECIFICATION Spec
INVARIANT EvictedHeightRefused
