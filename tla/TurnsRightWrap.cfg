SPECIFICATION Spec
CONSTANTS
    Degree = 1
    HeadErr = 2
    CrctErr = 1
    MaxOutage = 0
    MaxTurn = 400
    Rates <- MCRates
    DegStarts <- MCLow
    Degrees <- MCRightWrap
    HeadStarts <- MCNone
    Goals <- MCNone
INVARIANTS
    RotatesAsSpecified
CHECK_DEADLOCK FALSE
