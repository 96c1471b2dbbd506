SPECIFICATION Spec
CONSTANTS
    Degree = 1
    Programs <- MCForward
    Distance = 40
    HeadErr = 2
    Period = 2
    MaxDrift = 6
    MaxOutage = 0
    Starts <- MCNearZero
    Drifts <- MCDrifts
    Counts <- MCCounts
    Stale <- MCFresh
PROPERTIES
    CorrectsTheDrift
CHECK_DEADLOCK FALSE
