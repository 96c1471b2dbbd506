SPECIFICATION MissionSpec
CONSTANTS
    Degree = 10
    MaxOutage = 0
    MaxTurn = 1200
    Tolerance = 85
    Rates <- MCRates
    StartHeadings <- MCStartHeadings
    Drifts <- MCDrifts
INVARIANTS
    TurnsAsAsked
CHECK_DEADLOCK FALSE
