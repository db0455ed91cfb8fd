SPECIFICATION FairSpec
CONSTANTS
    Floors <- MCFloors
    initial_floor = 0
INVARIANTS
    TypeOK
    MotorFollows
PROPERTIES
    KeepsCourse
    PanicForGood
    RideEnds
