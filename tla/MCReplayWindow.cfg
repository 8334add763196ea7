CONSTANTS
    HeightCapacity = 2
    EventCapacity = 3
    ByteCapacity = 5
    MaxAge = 1
    NoLimit = NoLimit
    Heights <- MCHeights
    Items = {accepted}
    BatchSizes <- MCBatchSizes
    ByteSizes <- MCByteSizes
    MaxSequence = 4
    MaxTime = 2
SPECIFICATION Spec
INVARIANTS
    TypeOK
    CountersExact
    WithinLimits
    EvictionEnds
    WindowInOrder
