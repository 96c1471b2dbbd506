SPECIFICATION MovementSpec
CONSTANTS
    Degree = 1
    HeadErr = 2
    CrctErr = 1
    MaxOutage = 2
    MaxTurn = 400
    Rates <- MCRates
    DegStarts <- MCDegStarts
    Degrees <- MCDegrees
    HeadStarts <- MCHeadStarts
    Goals <- MCGoals
    HalfLine = 5
    Edge = 2
    SleepSteps = 10
    Drift = 2
    SearchSteps = 100
    Reach = 240
    BckStarts <- MCBckStarts
    PacketSteps = 10
    MaxMisled = 11
    MaxStray = 4
    Steady = TRUE
    Starts <- MCStarts
    Moves <- MCMoves
INVARIANTS
    TypeOK
    RotatesAsSpecified
    LeftNeverStopsShort
    StopsAtHeading
    DecidesOnTrueHeading
    FwdKeepsEdge
    FwdToldInTime
    BckKeepsSide
    StaysAccurate
PROPERTIES
    RotDegTerminates
    RotHeadTerminates
CHECK_DEADLOCK FALSE
