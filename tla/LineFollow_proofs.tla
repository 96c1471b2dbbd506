--------------------------- MODULE LineFollow_proofs ---------------------------
(***************************************************************************)
(* Where the line followers keep the robot, for every line, sleep, drift and *)
(* length of the search that LineAssumption allows.                          *)
(***************************************************************************)
EXTENDS LineFollow, TLAPS

OnLine(p) == -HalfLine <= p /\ p <= HalfLine
OffLine(p) == p < -HalfLine - Edge \/ p > HalfLine + Edge

\* The state a sensor at p is in.
Shows(s, p) ==
    /\ s \in {"ON_LINE", "NEAR_EDGE", "OFF_LINE"}
    /\ s = "ON_LINE" <=> OnLine(p)
    /\ s = "OFF_LINE" <=> OffLine(p)

\* Within m steps of what the drift allows around the right edge.
Strays(m, p) == HalfLine + 1 - Drift - m <= p /\ p <= HalfLine + Edge + Drift + m

\* The edge shows as an edge in either area; the state is the one the sensor is in,
\* or it has just been taken for the other area, and the step that follows is
\* counted already.
StateInv ==
    /\ current_state = "NEAR_EDGE" <=> ~OnLine(pos) /\ ~OffLine(pos)
    /\ \/ Shows(current_state, pos) /\ Strays(misled, pos)
       \/ misled >= 1 /\ Strays(misled - 1, pos)

\* The motors follow the state, which tells where the robot is.
FwdInv ==
    Forward =>
        /\ location = "UNKNOWN"
        /\ misled <= 2 * HalfLine + 1 - Drift => StateInv
        /\ phase = "fwd_measure" =>
             /\ current_state = "ON_LINE" => powers = "right"
             /\ current_state = "OFF_LINE" => powers = "left"
             /\ current_state = "NEAR_EDGE" => powers = "straight"

\* In sight, the report is wrong only after a change of areas, and has misled the
\* robot at most once in each step since it was made.
ReportInv ==
    Forward /\ ~failed =>
        /\ ~crossed => says_factory = factory /\ misled = 0
        /\ says_factory # factory => misled <= age
        /\ misled <= PacketSteps - 1

\* The search to the right only goes back over what the search to the left has
\* seen.
NeverFoundOnRight == Told => location # "LINE_ON_RIGHT"

\* The ground the search has covered, and still has to, is free of the line.
SearchInv ==
    /\ phase = "search_left" =>
         /\ location = "UNKNOWN" /\ powers = "left"
         /\ Told => \A k \in 0..i : ~OnLine(pos + k)
    /\ phase = "search_right" =>
         /\ location = "UNKNOWN" /\ powers = "right"
         /\ Told => \A k \in 0..SearchSteps-i : ~OnLine(pos + k)

\* During a sleep the robot turns away from the line it is on, or back to the one
\* on its left, or drives along the edge.
SideInv ==
    location = "LINE_ON_LEFT" /\ Told =>
        /\ BckKeepsSide
        /\ phase = "bck_sleep" =>
             \/ powers = "right" /\ OnLine(pos)
             \/ powers = "straight" /\ ~OnLine(pos) /\ ~OffLine(pos)
             \/ powers = "left" /\ pos >= HalfLine

IInv == LineTypeOK /\ FwdInv /\ ReportInv /\ SearchInv /\ SideInv /\ NeverFoundOnRight

-------------------------------------------------------------------------------
\* The two thresholds and the area together tell where the sensor is.
LEMMA StateShows ==
    ASSUME factory \in BOOLEAN, pos \in Int
    PROVE  Shows(LineState(factory, Value(pos)), pos)
BY LineAssumption, SMT DEF Shows, LineState, Value, OnLine, OffLine

LEMMA NextStateShows ==
    ASSUME factory' \in BOOLEAN, pos' \in Int
    PROVE  Shows(LineState(factory', Value(pos)'), pos')
BY LineAssumption, SMT DEF Shows, LineState, Value, OnLine, OffLine

\* An edge is seen as one even for the wrong area.
LEMMA NextEdgeShows ==
    ASSUME factory' \in BOOLEAN, pos' \in Int, NEW area
    PROVE  /\ LineState(area, Value(pos)') \in {"ON_LINE", "NEAR_EDGE", "OFF_LINE"}
           /\ LineState(area, Value(pos)') = "NEAR_EDGE" <=> ~OnLine(pos') /\ ~OffLine(pos')
BY LineAssumption, SMT DEF LineState, Value, OnLine, OffLine

\* What a movement of so many steps does.
LEMMA MoveFacts ==
    ASSUME LineTypeOK, NEW n \in Nat, Move(n)
    PROVE  /\ pos' \in Int
           /\ factory' \in BOOLEAN /\ crossed' \in BOOLEAN /\ reached' \in BOOLEAN
           /\ ~crossed' => ~crossed /\ factory' = factory
           /\ powers = "left" => pos' = pos - n
           /\ powers = "right" => pos' = pos + n
           /\ powers = "straight" => pos - Drift <= pos' /\ pos' <= pos + Drift
<1> USE LineAssumption
<1>1. pos \in Int /\ Drift \in Nat /\ Reach \in Nat /\ crossed \in BOOLEAN /\ factory \in BOOLEAN
  BY SMT DEF LineTypeOK
<1>2. pos' \in Int
  BY <1>1, SMT DEF Move
<1>3. factory' \in BOOLEAN /\ crossed' \in BOOLEAN /\ reached' \in BOOLEAN
  BY <1>1, Zenon DEF Move, LineTypeOK
<1>4. ~crossed' => ~crossed /\ factory' = factory
  BY <1>1, <1>3, SMT DEF Move
<1>5. ASSUME powers = "left" PROVE pos' = pos - n
  BY <1>1, <1>5, SMT DEF Move, After
<1>6. ASSUME powers = "right" PROVE pos' = pos + n
  BY <1>1, <1>6, SMT DEF Move, After
<1>7. ASSUME powers = "straight" PROVE pos - Drift <= pos' /\ pos' <= pos + Drift
  BY <1>1, <1>7, SMT DEF Move, After
<1> QED BY <1>2, <1>3, <1>4, <1>5, <1>6, <1>7

\* Who is in the area it was told has not just come from the other.
LEMMA StillTold ==
    ASSUME LineTypeOK, NEW n \in Nat, Move(n), in_factory' = in_factory
    PROVE  Told' => Told /\ factory' = factory
BY MoveFacts, Zenon DEF Told

LEMMA Initial == LineInit => IInv
<1> SUFFICES ASSUME LineInit PROVE IInv
  OBVIOUS
<1> USE DEF LineInit
<1>1. LineTypeOK
  <2>1. HalfLine \in Int /\ Edge \in Int /\ Reach \in Int /\ SearchSteps \in Nat \ {0}
    BY LineAssumption, SMT
  <2>2. pos \in Int
    <3>1. CASE pos \in RightEdge
      BY <2>1, <3>1, SMT DEF RightEdge
    <3>2. CASE pos \in BckStarts
      BY <2>1, <3>2, LineAssumption, SMT
    <3> QED BY <3>1, <3>2, SMT
  <2>3. 0 \in 0..SearchSteps-1 /\ 0 \in 0..PacketSteps-1 /\ 0 \in 0..MaxMisled
    BY <2>1, LineAssumption, SMT
  <2> QED BY <2>2, <2>3, Zenon DEF LineTypeOK
<1>2. FwdInv
  <2> SUFFICES ASSUME phase = "fwd" PROVE StateInv
    BY SMT DEF FwdInv, Forward
  <2>1. pos \in RightEdge
    BY SMT
  <2> QED BY <2>1, LineAssumption, SMT DEF StateInv, Strays, Shows, OnLine, OffLine, RightEdge
<1>3. ReportInv
  <2>1. 0 <= PacketSteps - 1 /\ 0 <= 0
    BY LineAssumption, SMT
  <2>2. ~failed /\ ~crossed => says_factory = factory
    BY Zenon
  <2> QED BY <2>1, <2>2, Zenon DEF ReportInv
<1>4. SearchInv /\ SideInv /\ NeverFoundOnRight
  BY SMT DEF SearchInv, SideInv, NeverFoundOnRight
<1> QED BY <1>1, <1>2, <1>3, <1>4 DEF IInv

-------------------------------------------------------------------------------
LEMMA FwdRespondKeeps == ASSUME IInv, FwdRespond PROVE IInv'
<1> USE DEF IInv, FwdRespond, groundVars, reportVars, followVars
<1>1. LineTypeOK'
  BY SMT DEF LineTypeOK
<1>2. FwdInv'
  BY SMT DEF FwdInv, Forward, StateInv, Shows, Strays, OnLine, OffLine
<1>3. ReportInv'
  BY Zenon DEF ReportInv, Forward
<1>4. SearchInv' /\ SideInv' /\ NeverFoundOnRight'
  BY SMT DEF FwdInv, Forward, SearchInv, SideInv, NeverFoundOnRight
<1> QED BY <1>1, <1>2, <1>3, <1>4

\* A measurement counts when it takes the area for the other one.
LEMMA Measured ==
    ASSUME LineTypeOK, FwdMeasure
    PROVE  /\ \/ says_factory' = factory' /\ misled' = misled
              \/ says_factory' # factory' /\ misled' = misled + 1
           /\ misled \in Nat /\ misled' \in 0..MaxMisled /\ misled' \in Nat
           /\ age' \in 0..PacketSteps-1 /\ says_factory' \in BOOLEAN /\ failed' \in BOOLEAN
<1>1. misled \in Nat /\ MaxMisled \in Nat /\ PacketSteps \in Nat \ {0} /\ age \in 0..PacketSteps-1
  BY LineAssumption, SMT DEF LineTypeOK
<1>2. \/ says_factory' = factory' /\ misled' = misled + 0
      \/ says_factory' # factory' /\ misled' = misled + 1
  BY Zenon DEF FwdMeasure, AreaRead
<1>3. misled' <= MaxMisled
  BY DEF FwdMeasure
<1>4. misled' \in 0..MaxMisled /\ misled' \in Nat /\ misled + 0 = misled
  BY <1>1, <1>2, <1>3, SMT
<1>5. age' \in 0..PacketSteps-1
  BY <1>1, SMT DEF FwdMeasure, NewY
<1>6. factory' \in BOOLEAN
  BY MoveFacts DEF FwdMeasure
<1>7. says_factory' \in BOOLEAN /\ failed' \in BOOLEAN
  BY <1>6, Zenon DEF FwdMeasure, NewY, LineTypeOK
<1> QED BY <1>1, <1>2, <1>4, <1>5, <1>7

LEMMA FwdMeasureKeeps == ASSUME IInv, FwdMeasure PROVE IInv'
<1> USE LineAssumption
<1>1. /\ Move(1) /\ NewY /\ phase = "fwd_measure" /\ phase' = "fwd"
      /\ current_state' = LineState(says_factory', Value(pos)')
      /\ UNCHANGED <<powers, in_factory, location, i>>
  BY DEF FwdMeasure, AreaRead
<1>2. /\ pos' \in Int /\ factory' \in BOOLEAN /\ crossed' \in BOOLEAN /\ reached' \in BOOLEAN
      /\ ~crossed' => ~crossed /\ factory' = factory
      /\ powers = "left" => pos' = pos - 1
      /\ powers = "right" => pos' = pos + 1
      /\ powers = "straight" => pos - Drift <= pos' /\ pos' <= pos + Drift
  BY <1>1, MoveFacts DEF IInv
<1>3. /\ \/ says_factory' = factory' /\ misled' = misled
         \/ says_factory' # factory' /\ misled' = misled + 1
      /\ misled \in Nat /\ misled' \in 0..MaxMisled /\ misled' \in Nat
      /\ age' \in 0..PacketSteps-1 /\ says_factory' \in BOOLEAN /\ failed' \in BOOLEAN
  BY Measured DEF IInv
<1>4. /\ current_state' \in {"ON_LINE", "NEAR_EDGE", "OFF_LINE"}
      /\ current_state' = "NEAR_EDGE" <=> ~OnLine(pos') /\ ~OffLine(pos')
  BY <1>1, <1>2, NextEdgeShows
<1>5. location = "UNKNOWN" /\ location' = "UNKNOWN"
  BY <1>1 DEF IInv, FwdInv, Forward
<1>6. LineTypeOK'
  BY <1>1, <1>2, <1>3, <1>4, Zenon DEF IInv, LineTypeOK
<1>7. ASSUME misled' <= 2 * HalfLine + 1 - Drift PROVE StateInv'
  <2>1. /\ HalfLine \in Nat \ {0} /\ Edge \in Nat \ {0} /\ Drift \in Nat \ {0}
        /\ Drift <= 2 * HalfLine /\ pos \in Int
    BY SMT DEF IInv, LineTypeOK
  <2>2. misled <= 2 * HalfLine + 1 - Drift /\ StateInv
    <3>1. misled <= 2 * HalfLine + 1 - Drift
      BY <1>3, <1>7, <2>1, SMT
    <3> QED BY <1>1, <3>1, Zenon DEF IInv, FwdInv, Forward
  <2>3. Strays(misled, pos')
    <3>1. pos >= -HalfLine /\ Strays(misled, pos)
      BY <1>3, <2>1, <2>2, SMT DEF StateInv, Strays
    <3>2. CASE current_state = "NEAR_EDGE" /\ powers = "straight"
      <4>1. HalfLine + 1 <= pos /\ pos <= HalfLine + Edge
        BY <2>1, <2>2, <3>1, <3>2, SMT DEF StateInv, OnLine, OffLine
      <4> QED BY <1>2, <1>3, <2>1, <3>2, <4>1, SMT DEF Strays
    <3>3. CASE powers = "right" \/ powers = "left"
      <4>1. CASE misled >= 1 /\ Strays(misled - 1, pos)
        BY <1>2, <1>3, <2>1, <3>3, <4>1, SMT DEF Strays
      <4>2. CASE Shows(current_state, pos)
        <5>1. CASE current_state = "ON_LINE" /\ powers = "right"
          BY <1>2, <1>3, <2>1, <3>1, <4>2, <5>1, SMT DEF Shows, OnLine, Strays
        <5>2. CASE current_state = "OFF_LINE" /\ powers = "left"
          BY <1>2, <1>3, <2>1, <3>1, <4>2, <5>2, SMT DEF Shows, OffLine, Strays
        <5> QED BY <1>1, <3>3, <4>2, <5>1, <5>2 DEF IInv, FwdInv, Forward, Shows
      <4> QED BY <2>2, <4>1, <4>2 DEF StateInv
    <3> QED BY <1>1, <3>2, <3>3 DEF IInv, LineTypeOK, FwdInv, Forward
  <2>4. CASE says_factory' = factory' /\ misled' = misled
    <3>1. Shows(current_state', pos')
      BY <1>1, <1>2, <2>4, NextStateShows
    <3> QED BY <1>4, <2>3, <2>4, <3>1 DEF StateInv
  <2>5. CASE misled' = misled + 1
    <3>1. misled' >= 1 /\ misled' - 1 = misled
      BY <1>3, <2>5, SMT
    <3> QED BY <1>4, <2>3, <3>1 DEF StateInv
  <2> QED BY <1>3, <2>4, <2>5
<1>8. FwdInv'
  BY <1>1, <1>5, <1>7, Zenon DEF FwdInv
<1>9. ReportInv'
  <2> SUFFICES ASSUME ~failed'
               PROVE  /\ ~crossed' => says_factory' = factory' /\ misled' = 0
                      /\ says_factory' # factory' => misled' <= age'
                      /\ misled' <= PacketSteps - 1
    BY Zenon DEF ReportInv
  <2>1. /\ PacketSteps \in Nat /\ age \in Nat /\ age' \in Nat /\ age' <= PacketSteps - 1
        /\ factory \in BOOLEAN /\ says_factory \in BOOLEAN
    BY <1>3, SMT DEF IInv, LineTypeOK
  <2>2. ~failed
    BY <1>1 DEF NewY
  <2>3. /\ ~crossed => says_factory = factory /\ misled = 0
        /\ says_factory # factory => misled <= age
        /\ misled <= PacketSteps - 1
    BY <1>1, <2>2, Zenon DEF IInv, ReportInv, Forward
  <2>4. CASE says_factory' = factory' /\ misled' = misled
    BY <1>2, <2>3, <2>4, Zenon
  <2>5. CASE says_factory' # factory' /\ misled' = misled + 1
    <3>1. age' = age + 1 /\ says_factory' = says_factory
      BY <1>1, <2>5 DEF NewY
    <3>2. misled <= age
      <4>1. CASE says_factory = factory
        <5>1. crossed \/ misled = 0
          BY <2>3
        <5>2. factory' # factory
          BY <2>5, <3>1, <4>1
        <5>3. ~crossed
          BY <1>1, <5>2, Zenon DEF Move
        <5> QED BY <2>1, <5>1, <5>3, SMT
      <4> QED BY <2>3, <4>1
    <3>3. misled' <= age' /\ misled' <= PacketSteps - 1
      BY <1>3, <2>1, <2>5, <3>1, <3>2, SMT
    <3>4. crossed'
      BY <1>2, <2>3, <2>5, <3>1, Zenon
    <3> QED BY <3>3, <3>4
  <2> QED BY <1>3, <2>4, <2>5
<1>10. SearchInv' /\ SideInv' /\ NeverFoundOnRight'
  BY <1>1, <1>5, SMT DEF SearchInv, SideInv, NeverFoundOnRight
<1> QED BY <1>6, <1>8, <1>9, <1>10 DEF IInv

LEMMA FwdStopKeeps == ASSUME IInv, FwdStop PROVE IInv'
<1> USE DEF IInv, FwdStop, groundVars, reportVars, followVars
<1>1. LineTypeOK'
  BY SMT DEF LineTypeOK
<1>2. FwdInv' /\ ReportInv' /\ SearchInv' /\ SideInv' /\ NeverFoundOnRight'
  BY SMT DEF FwdInv, ReportInv, Forward, SearchInv, SideInv, NeverFoundOnRight
<1> QED BY <1>1, <1>2

LEMMA BckReturnKeeps == ASSUME IInv, BckReturn PROVE IInv'
<1> USE DEF IInv, BckReturn, groundVars, reportVars, followVars
<1>1. LineTypeOK'
  BY SMT DEF LineTypeOK
<1>2. FwdInv' /\ ReportInv' /\ SearchInv'
  BY SMT DEF FwdInv, ReportInv, Forward, SearchInv
<1>3. SideInv' /\ NeverFoundOnRight'
  BY Zenon DEF SideInv, BckKeepsSide, NeverFoundOnRight, Told
<1> QED BY <1>1, <1>2, <1>3

\* In the area it was told the backward follower sees where it is.
LEMMA BckStateShows ==
    ASSUME IInv, Told
    PROVE  Shows(BckState, pos)
<1>1. in_factory = factory /\ factory \in BOOLEAN /\ pos \in Int
  BY DEF IInv, LineTypeOK, Told
<1> QED BY <1>1, StateShows DEF BckState

LEMMA BckFollowKeeps == ASSUME IInv, BckFollow PROVE IInv'
<1> USE DEF IInv
<1>1. /\ phase = "bck" /\ phase' = "bck_sleep"
      /\ UNCHANGED <<pos, factory, crossed, reached, in_factory, i>> /\ UNCHANGED reportVars
      /\ Told' <=> Told
  BY DEF BckFollow, groundVars, Told
<1>2. BckState \in {"ON_LINE", "NEAR_EDGE", "OFF_LINE"}
  BY SMT DEF BckState, LineState
<1>3. LineTypeOK'
  BY <1>1, <1>2, SMT DEF LineTypeOK, BckFollow, Away, Back, reportVars
<1>4. FwdInv' /\ ReportInv' /\ SearchInv' /\ NeverFoundOnRight'
  BY <1>1, SMT DEF FwdInv, Forward, ReportInv, SearchInv, NeverFoundOnRight, BckFollow
<1>5. SideInv'
  <2> SUFFICES ASSUME location' = "LINE_ON_LEFT", Told
               PROVE  /\ BckKeepsSide'
                      /\ \/ powers' = "right" /\ OnLine(pos)
                         \/ powers' = "straight" /\ ~OnLine(pos) /\ ~OffLine(pos)
                         \/ powers' = "left" /\ pos >= HalfLine
    BY <1>1, SMT DEF SideInv, OnLine, OffLine
  <2>1. Shows(BckState, pos)
    BY BckStateShows
  <2>2. HalfLine \in Nat /\ Edge \in Nat /\ SleepSteps \in Nat /\ Drift \in Nat /\ pos \in Int
    BY LineAssumption, SMT DEF LineTypeOK
  <2>3. CASE location = "UNKNOWN"
    <3>1. BckState = "ON_LINE" /\ powers' = "right" /\ OnLine(pos)
      BY <2>1, <2>3, SMT DEF BckFollow, Away, Shows
    <3> QED BY <1>1, <2>2, <3>1, SMT DEF BckKeepsSide, OnLine
  <2>4. CASE location = "LINE_ON_LEFT"
    <3>1. pos >= -HalfLine /\ BckKeepsSide'
      BY <1>1, <2>2, <2>4, SMT DEF SideInv, BckKeepsSide
    <3>2. CASE BckState = "ON_LINE"
      BY <2>1, <2>4, <3>1, <3>2, SMT DEF BckFollow, Away, Shows
    <3>3. CASE BckState = "NEAR_EDGE"
      BY <2>1, <3>1, <3>3, SMT DEF BckFollow, Shows
    <3>4. CASE BckState = "OFF_LINE"
      BY <2>1, <2>2, <2>4, <3>1, <3>4, SMT DEF BckFollow, Back, Shows, OffLine
    <3> QED BY <1>2, <3>2, <3>3, <3>4
  <2> QED BY <2>3, <2>4, SMT DEF BckFollow, LineTypeOK
<1> QED BY <1>3, <1>4, <1>5

LEMMA BckSearchKeeps == ASSUME IInv, BckSearch PROVE IInv'
<1> USE DEF IInv
<1>1. /\ phase' = "search_left" /\ powers' = "left" /\ i' = 0
      /\ location = "UNKNOWN" /\ BckState = "OFF_LINE" /\ current_state' = "OFF_LINE"
      /\ UNCHANGED <<pos, factory, crossed, reached, in_factory, location>> /\ UNCHANGED reportVars
      /\ phase = "bck" /\ (Told' <=> Told)
  BY DEF BckSearch, groundVars, Told
<1>2. SearchSteps \in Nat \ {0}
  BY LineAssumption, SMT
<1>3. LineTypeOK'
  BY <1>1, <1>2, SMT DEF LineTypeOK, reportVars
<1>4. FwdInv' /\ ReportInv' /\ SideInv' /\ NeverFoundOnRight'
  BY <1>1, SMT DEF FwdInv, Forward, ReportInv, SideInv, NeverFoundOnRight
<1>5. SearchInv'
  <2> SUFFICES ASSUME Told, NEW k \in 0..0 PROVE ~OnLine(pos + k)
    BY <1>1, SMT DEF SearchInv, OnLine
  <2>1. Shows(BckState, pos) /\ pos + k = pos
    BY BckStateShows, SMT DEF LineTypeOK
  <2> QED BY <1>1, <2>1 DEF Shows
<1> QED BY <1>3, <1>4, <1>5

LEMMA BckSleepKeeps == ASSUME IInv, BckSleep PROVE IInv'
<1> USE DEF IInv
<1>1. /\ Move(SleepSteps) /\ phase = "bck_sleep" /\ phase' = "bck"
      /\ UNCHANGED <<reportVars, powers, followVars>>
  BY DEF BckSleep
<1>2. /\ HalfLine \in Nat \ {0} /\ Edge \in Nat \ {0} /\ Drift \in Nat \ {0}
      /\ SleepSteps \in Nat \ {0} /\ SleepSteps <= 2 * HalfLine /\ Drift <= 2 * HalfLine
      /\ pos \in Int
  BY LineAssumption, SMT DEF LineTypeOK
<1>3. /\ pos' \in Int /\ factory' \in BOOLEAN /\ crossed' \in BOOLEAN /\ reached' \in BOOLEAN
      /\ Told' => Told
      /\ powers = "left" => pos' = pos - SleepSteps
      /\ powers = "right" => pos' = pos + SleepSteps
      /\ powers = "straight" => pos - Drift <= pos' /\ pos' <= pos + Drift
  BY <1>1, <1>2, MoveFacts, StillTold DEF followVars
<1>4. LineTypeOK'
  BY <1>1, <1>3, Zenon DEF LineTypeOK, followVars, reportVars
<1>5. FwdInv' /\ ReportInv' /\ SearchInv' /\ NeverFoundOnRight'
  BY <1>1, <1>3, SMT DEF FwdInv, Forward, ReportInv, SearchInv, NeverFoundOnRight, followVars
<1>6. SideInv'
  <2> SUFFICES ASSUME location = "LINE_ON_LEFT", Told'
               PROVE  /\ pos' >= -HalfLine
                      /\ pos' <= HalfLine + SleepSteps \/ pos' <= HalfLine + Edge + Drift
    BY <1>1, SMT DEF SideInv, BckKeepsSide, followVars
  <2>1. /\ pos >= -HalfLine
        /\ pos <= HalfLine + SleepSteps \/ pos <= HalfLine + Edge + Drift
    BY <1>3, Zenon DEF SideInv, BckKeepsSide
  <2>2. CASE powers = "right" /\ OnLine(pos)
    BY <1>2, <1>3, <2>2, SMT DEF OnLine
  <2>3. CASE powers = "straight" /\ ~OnLine(pos) /\ ~OffLine(pos)
    BY <1>2, <1>3, <2>1, <2>3, SMT DEF OnLine, OffLine
  <2>4. CASE powers = "left" /\ pos >= HalfLine
    BY <1>2, <1>3, <2>1, <2>4, SMT
  <2> QED BY <1>1, <1>3, <2>2, <2>3, <2>4 DEF SideInv
<1> QED BY <1>4, <1>5, <1>6

\* What the sensor shows after a step of the search.
LEMMA NextBckStateShows ==
    ASSUME IInv, in_factory' = in_factory, Told, factory' = factory, pos' \in Int
    PROVE  Shows(BckState', pos')
<1>1. in_factory' = factory' /\ factory' \in BOOLEAN
  BY DEF IInv, LineTypeOK, Told
<1>2. Shows(LineState(factory', Value(pos)'), pos')
  BY <1>1, NextStateShows
<1> QED BY <1>1, <1>2 DEF BckState

LEMMA SearchLeftKeeps == ASSUME IInv, SearchLeft PROVE IInv'
<1> USE DEF IInv
<1>1. /\ Move(1) /\ phase = "search_left" /\ powers = "left" /\ location = "UNKNOWN"
      /\ UNCHANGED <<reportVars, in_factory, current_state>>
  BY DEF SearchLeft, SearchStep, SearchInv
<1>2. SearchSteps \in Nat \ {0} /\ HalfLine \in Nat \ {0} /\ SleepSteps \in Nat /\ Edge \in Nat /\ Drift \in Nat
      /\ i \in 0..SearchSteps-1 /\ pos \in Int
  BY LineAssumption, SMT DEF LineTypeOK
<1>3. /\ pos' \in Int /\ factory' \in BOOLEAN /\ crossed' \in BOOLEAN /\ reached' \in BOOLEAN
      /\ Told' => Told /\ factory' = factory
      /\ pos' = pos - 1
  BY <1>1, MoveFacts, StillTold
<1>4. ASSUME Told' PROVE Shows(BckState', pos') /\ \A k \in 0..i : ~OnLine(pos + k)
  BY <1>1, <1>3, <1>4, NextBckStateShows DEF SearchInv
<1>5. CASE /\ BckState' = "ON_LINE"
           /\ location' = "LINE_ON_LEFT" /\ phase' = "bck_sleep" /\ UNCHANGED <<powers, i>>
  <2>1. LineTypeOK'
    BY <1>1, <1>3, <1>5, Zenon DEF LineTypeOK, reportVars
  <2>2. ASSUME Told' PROVE pos' = HalfLine
    <3>1. ~OnLine(pos + 0) /\ OnLine(pos')
      BY <1>2, <1>4, <1>5, <2>2, SMT DEF Shows
    <3> QED BY <1>2, <1>3, <3>1, SMT DEF OnLine
  <2>3. SideInv'
    BY <1>1, <1>2, <1>5, <2>2, SMT DEF SideInv, BckKeepsSide
  <2>4. FwdInv' /\ ReportInv' /\ SearchInv' /\ NeverFoundOnRight'
    BY <1>1, <1>3, <1>5, SMT DEF FwdInv, Forward, ReportInv, SearchInv, NeverFoundOnRight
  <2> QED BY <2>1, <2>3, <2>4
<1>6. CASE /\ BckState' # "ON_LINE" /\ i + 1 < SearchSteps
           /\ i' = i + 1 /\ UNCHANGED <<powers, phase, location>>
  <2>1. i' \in 0..SearchSteps-1
    BY <1>2, <1>6, SMT
  <2>2. LineTypeOK'
    BY <1>1, <1>3, <1>6, <2>1, Zenon DEF LineTypeOK, reportVars
  <2>3. ASSUME Told', NEW k \in 0..i' PROVE ~OnLine(pos' + k)
    <3>1. CASE k = 0
      BY <1>3, <1>4, <1>6, <2>3, <3>1, SMT DEF Shows, OnLine
    <3>2. CASE k # 0
      <4>1. k - 1 \in 0..i /\ pos' + k = pos + (k - 1)
        BY <1>2, <1>3, <1>6, <3>2, SMT
      <4> QED BY <1>4, <2>3, <4>1
    <3> QED BY <3>1, <3>2
  <2>4. SearchInv'
    BY <1>1, <1>6, <2>3, SMT DEF SearchInv, OnLine
  <2>5. FwdInv' /\ ReportInv' /\ SideInv' /\ NeverFoundOnRight'
    BY <1>1, <1>3, <1>6, SMT DEF FwdInv, Forward, ReportInv, SideInv, NeverFoundOnRight
  <2> QED BY <2>2, <2>4, <2>5
<1>7. CASE /\ BckState' # "ON_LINE" /\ i + 1 = SearchSteps
           /\ powers' = "right" /\ i' = 0 /\ phase' = "search_right" /\ UNCHANGED location
  <2>1. LineTypeOK'
    BY <1>1, <1>2, <1>3, <1>7, SMT DEF LineTypeOK, reportVars
  <2>2. ASSUME Told', NEW k \in 0..SearchSteps PROVE ~OnLine(pos' + k)
    <3>1. CASE k = 0
      BY <1>3, <1>4, <1>7, <2>2, <3>1, SMT DEF Shows, OnLine
    <3>2. CASE k # 0
      <4>1. k - 1 \in 0..i /\ pos' + k = pos + (k - 1)
        BY <1>2, <1>3, <1>7, <3>2, SMT
      <4> QED BY <1>4, <2>2, <4>1
    <3> QED BY <3>1, <3>2
  <2>3. SearchInv'
    <3>1. SearchSteps - i' = SearchSteps
      BY <1>2, <1>7, SMT
    <3> QED BY <1>1, <1>7, <2>2, <3>1 DEF SearchInv, OnLine
  <2>4. FwdInv' /\ ReportInv' /\ SideInv' /\ NeverFoundOnRight'
    BY <1>1, <1>3, <1>7, SMT DEF FwdInv, Forward, ReportInv, SideInv, NeverFoundOnRight
  <2> QED BY <2>1, <2>3, <2>4
<1> QED BY <1>5, <1>6, <1>7 DEF SearchLeft, SearchStep

LEMMA SearchRightKeeps == ASSUME IInv, SearchRight PROVE IInv'
<1> USE DEF IInv
<1>1. /\ Move(1) /\ phase = "search_right" /\ powers = "right" /\ location = "UNKNOWN"
      /\ UNCHANGED <<reportVars, in_factory, current_state>>
  BY DEF SearchRight, SearchStep, SearchInv
<1>2. SearchSteps \in Nat \ {0} /\ i \in 0..SearchSteps-1 /\ pos \in Int
  BY LineAssumption, SMT DEF LineTypeOK
<1>3. /\ pos' \in Int /\ factory' \in BOOLEAN /\ crossed' \in BOOLEAN /\ reached' \in BOOLEAN
      /\ Told' => Told /\ factory' = factory
      /\ pos' = pos + 1
  BY <1>1, MoveFacts, StillTold
<1>4. ASSUME Told'
      PROVE  Shows(BckState', pos') /\ \A k \in 0..SearchSteps-i : ~OnLine(pos + k)
  BY <1>1, <1>3, <1>4, NextBckStateShows DEF SearchInv
<1>5. CASE /\ BckState' = "ON_LINE"
           /\ location' = "LINE_ON_RIGHT" /\ phase' = "bck_sleep" /\ UNCHANGED <<powers, i>>
  <2>1. LineTypeOK'
    BY <1>1, <1>3, <1>5, Zenon DEF LineTypeOK, reportVars
  <2>2. ASSUME Told' PROVE FALSE
    <3>1. 1 \in 0..SearchSteps-i
      BY <1>2, SMT
    <3>2. ~OnLine(pos + 1) /\ OnLine(pos')
      BY <1>4, <1>5, <2>2, <3>1 DEF Shows
    <3> QED BY <1>3, <3>2
  <2> QED BY <1>5, <2>1, <2>2, SMT DEF FwdInv, Forward, ReportInv, SearchInv, SideInv, NeverFoundOnRight
<1>6. CASE /\ BckState' # "ON_LINE" /\ i + 1 < SearchSteps
           /\ i' = i + 1 /\ UNCHANGED <<powers, phase, location>>
  <2>1. i' \in 0..SearchSteps-1
    BY <1>2, <1>6, SMT
  <2>2. LineTypeOK'
    BY <1>1, <1>3, <1>6, <2>1, Zenon DEF LineTypeOK, reportVars
  <2>3. ASSUME Told', NEW k \in 0..SearchSteps-i' PROVE ~OnLine(pos' + k)
    <3>1. k + 1 \in 0..SearchSteps-i /\ pos' + k = pos + (k + 1)
      BY <1>2, <1>3, <1>6, SMT
    <3> QED BY <1>4, <2>3, <3>1
  <2>4. SearchInv'
    BY <1>1, <1>6, <2>3, SMT DEF SearchInv, OnLine
  <2>5. FwdInv' /\ ReportInv' /\ SideInv' /\ NeverFoundOnRight'
    BY <1>1, <1>3, <1>6, SMT DEF FwdInv, Forward, ReportInv, SideInv, NeverFoundOnRight
  <2> QED BY <2>2, <2>4, <2>5
<1>7. CASE phase' = "done" /\ UNCHANGED <<powers, i, location>>
  <2>1. LineTypeOK'
    BY <1>1, <1>3, <1>7, Zenon DEF LineTypeOK, reportVars
  <2> QED BY <1>1, <1>3, <1>7, <2>1, SMT
          DEF FwdInv, Forward, ReportInv, SearchInv, SideInv, NeverFoundOnRight
<1> QED BY <1>5, <1>6, <1>7 DEF SearchRight, SearchStep

-------------------------------------------------------------------------------
LEMMA Stutters == ASSUME IInv, UNCHANGED lineVars PROVE IInv'
<1> USE DEF IInv, lineVars, groundVars, reportVars, followVars
<1>1. LineTypeOK'
  BY SMT DEF LineTypeOK
<1>2. FwdInv'
  BY SMT DEF FwdInv, Forward, StateInv, Shows, Strays, OnLine, OffLine
<1>3. ReportInv' /\ NeverFoundOnRight'
  BY Zenon DEF ReportInv, Forward, NeverFoundOnRight, Told
<1>4. SearchInv'
  BY SMT DEF SearchInv, OnLine, Told
<1>5. SideInv'
  BY SMT DEF SideInv, BckKeepsSide, OnLine, OffLine, Told
<1> QED BY <1>1, <1>2, <1>3, <1>4, <1>5

LEMMA Step == IInv /\ [LineNext]_lineVars => IInv'
BY Stutters, FwdRespondKeeps, FwdMeasureKeeps, FwdStopKeeps, BckFollowKeeps, BckSearchKeeps,
   SearchLeftKeeps, SearchRightKeeps, BckSleepKeeps, BckReturnKeeps DEF LineNext

THEOREM Invariance == LineSpec => []IInv
BY Initial, Step, PTL DEF LineSpec

\* The search for the line stays within its count, in both directions, and every
\* variable has its type.
THEOREM TypeCorrect == LineSpec => []LineTypeOK
<1>1. IInv => LineTypeOK
  BY DEF IInv
<1> QED BY <1>1, Invariance, PTL

\* For every width of the line and its edge, fwd_flw keeps to the right edge but for
\* a step for each measurement that took the area for the other one, whatever the
\* reason: a report from before the change of areas, or a failed one.
THEOREM FwdEdgeKept == LineSpec => []FwdKeepsEdge
<1>1. ASSUME IInv PROVE FwdKeepsEdge
  <2> SUFFICES ASSUME Forward, misled <= 2 * HalfLine + 1 - Drift
               PROVE  pos \in HalfLine+1-Drift-misled..HalfLine+Edge+Drift+misled
    BY DEF FwdKeepsEdge
  <2>1. StateInv
    BY <1>1 DEF IInv, FwdInv
  <2>2. /\ HalfLine \in Nat /\ Edge \in Nat /\ Drift \in Nat /\ MaxMisled \in Nat
        /\ pos \in Int /\ misled \in 0..MaxMisled
    BY <1>1, LineAssumption, SMT DEF IInv, LineTypeOK
  <2>3. Strays(misled, pos)
    BY <2>1, <2>2, SMT DEF StateInv, Strays
  <2> QED BY <2>2, <2>3, SMT DEF Strays
<1> QED BY <1>1, Invariance, PTL

\* However long a packet interval is: without a failed report, fwd_flw takes one
\* area for the other in less than one of them, since it reads Y() at each poll.
THEOREM FwdTold == LineSpec => []FwdToldInTime
<1>1. ASSUME IInv PROVE FwdToldInTime
  <2> SUFFICES ASSUME Forward, ~failed PROVE misled < PacketSteps
    BY DEF FwdToldInTime
  <2>1. misled <= PacketSteps - 1
    BY <1>1 DEF IInv, ReportInv
  <2>2. misled \in Int /\ PacketSteps \in Int
    BY <1>1, LineAssumption, SMT DEF IInv, LineTypeOK
  <2> QED BY <2>1, <2>2, SMT
<1> QED BY <1>1, Invariance, PTL

\* bck_flw, once it has found the line on its left, stays on that side of it, if
\* 100 ms of turning take it no further than the line is wide.
THEOREM BckSideKept == LineSpec => []BckKeepsSide
<1>1. ASSUME IInv PROVE BckKeepsSide
  BY <1>1, Zenon DEF IInv, SideInv, BckKeepsSide
<1> QED BY <1>1, Invariance, PTL

\* Why GivesUpOnlyIfLost fails, for every length of the two searches: as they are as
\* long as each other and the turns mirror each other, the one to the right finds
\* nothing.
THEOREM RightNeverFound == LineSpec => []NeverFoundOnRight
<1>1. IInv => NeverFoundOnRight
  BY DEF IInv
<1> QED BY <1>1, Invariance, PTL
===============================================================================
