SPECIFICATION Spec
CONSTANTS
    Regions = 12
    Strings <- MCStrings
    Radii <- MCRadii
    Coords <- MCCoords
    Sizes <- MCSizes
    Times <- MCTimes
    MaxHold = 4
INVARIANTS
    TypeOK
    TextStaysReadable
    CircleAsCommented
    ShapesAsAsked
PROPERTIES
    OneMovePerPress
    OnePressPerTest
CHECK_DEADLOCK FALSE
