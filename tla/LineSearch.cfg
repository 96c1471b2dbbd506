SPECIFICATION LineSpec
CONSTANTS
    HalfLine = 5
    Edge = 2
    SleepSteps = 10
    Drift = 2
    SearchSteps = 100
    Reach = 240
    BckStarts <- MCNearLine
    PacketSteps = 10
    MaxMisled = 11
INVARIANTS
    GivesUpOnlyIfLost
CHECK_DEADLOCK FALSE
