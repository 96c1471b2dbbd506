SPECIFICATION Spec
CONSTANTS
    Degree = 1
    Programs <- MCBackward
    Distance = 40
    HeadErr = 2
    Period = 2
    MaxDrift = 6
    MaxOutage = 0
    Starts <- MCNorth
    Drifts <- MCDrifts
    Counts <- MCCounts
    Stale <- MCFresh
PROPERTIES
    BalancesTheTreads
CHECK_DEADLOCK FALSE
