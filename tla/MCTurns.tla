-------------------------------- MODULE MCTurns -------------------------------
(* Turns at a resolution of a degree.                                        *)
EXTENDS Turns

MCRates == {1, 2}

\* Left turns anywhere, but for those whose target leaves no room for a sample
\* between it and the wrap, and right turns that do not pass through zero.
MCDegStarts == {20, 60, 100, 130, 150, 177}
MCDegrees == {30, 45, 90, -10, -15}
\* Right turns through zero.
MCLow == {5, 10, 20, 30}
MCRightWrap == {-45}

MCHeadStarts == {a \in Angle : a % 40 = 10}
MCGoals == {1, 5, 45, 90, 120, 175}
MCNone == {}
===============================================================================
