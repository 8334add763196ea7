CONSTANTS
    HeightCapacity = 4
    EventCapacity = 7
    ByteCapacity = 9
    MaxAge = 1
    NoLimit = NoLimit
    FinalityDepth = 2
    MaxHeight = 4
    MaxEvents = 11
    MaxTime = 2
SPECIFICATION Spec
INVARIANTS
    TypeOK
    ResumeComplete
    NoFalseMismatch
    NeverJoinsAnotherChain
PROPERTY WindowImplemented
