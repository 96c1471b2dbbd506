SPECIFICATION FairSpec
CONSTANTS
    Degree = 1
    Programs <- MCBoth
    Distance = 40
    HeadErr = 2
    Period = 2
    MaxDrift = 6
    MaxOutage = 2
    Starts <- MCNorth
    Drifts <- MCDrifts
    Counts <- MCCounts
    Stale <- MCStale
INVARIANTS
    TypeOK
    StopsAtDistance
    CorrectionsPaced
PROPERTIES
    CorrectsTheDrift
    MeasuresTheDrift
    DriveContract
CHECK_DEADLOCK FALSE
