SPECIFICATION FairSpec
CONSTANTS
    Start <- MCStart
    Body <- MCBody
    body_offset = 2
    BufSize = 4
    HighWater = 4
    package_max_length = 13
    UintModulus = 15
INVARIANTS
    TypeOK
    UnpackInv
    RoomToRead
    Aligned
PROPERTIES
    ClosedForCause
    Implements
    AllHanded
CHECK_DEADLOCK FALSE
