------------------------------ MODULE LineFollow ------------------------------
(***************************************************************************)
(* The two line followers of src/src/movement.cpp: fwd_flw, which reacts to  *)
(* its optosensor at every poll and keeps to the right edge of the line, and *)
(* bck_flw, which remembers on which side the line is and searches for it    *)
(* when it does not know.                                                    *)
(*                                                                          *)
(* The world is one-dimensional: how far the sensor is to the right of the   *)
(* middle of the line, in steps of 10 ms of a turn.  The encoders matter     *)
(* only by whether one has reached its target, which may be at any time, and *)
(* at once for bck_flw, which does not reset them.                           *)
(*                                                                          *)
(* The sensor shows a line as low in the factory and as high in the shop, so *)
(* both need the area, which they take from Y(): the Y of the last packet,    *)
(* made up to a packet interval ago, or of a failed report.                  *)
(***************************************************************************)
EXTENDS Integers

CONSTANTS
    HalfLine,     \* the sensor is over the line up to here on either side
    Edge,         \* and sees both line and floor on so many steps beyond
    SleepSteps,   \* Sleep( 100 ), in steps
    Drift,        \* how far a robot that drives straight may stray meanwhile
    SearchSteps,  \* how many steps the search for the line goes each way
    BckStarts,    \* where a call of bck_flw may start
    PacketSteps,  \* a packet interval of the positioning system, in steps
    MaxMisled,    \* bound: how often one call of fwd_flw takes the wrong area
    Reach         \* bound: how far from the line a run goes

ASSUME LineAssumption ==
    /\ {HalfLine, Edge, Drift, SleepSteps, SearchSteps, PacketSteps} \subseteq Nat \ {0}
    /\ SleepSteps <= 2 * HalfLine /\ Drift <= 2 * HalfLine
    /\ {Reach, MaxMisled} \subseteq Nat
    /\ BckStarts \subseteq -Reach..Reach

VARIABLES
    pos,            \* where the sensor is, to the right of the line
    factory,        \* the robot is in the factory area
    crossed,        \* it has changed areas since the last packet before the call
    says_factory,   \* the last packet's: Y() > FTRY_THRESH
    age,            \* steps since that packet
    failed,         \* a failed report was the last before the call, or came since
    misled,         \* times fwd_flw has taken the area for the other one
    in_factory,     \* bck_flw's in_factory
    reached,        \* an encoder has reached its target
    current_state,
    location,       \* bck_flw's location
    powers,         \* of the motors: "straight", "left", "right" or "off"
    i,              \* steps of the search
    phase           \* of either function

groundVars == <<pos, factory, crossed, reached>>
reportVars == <<says_factory, age, failed, misled>>
followVars == <<in_factory, current_state, location, i>>
lineVars == <<groundVars, reportVars, followVars, powers, phase>>

RightEdge == HalfLine+1..HalfLine+Edge

LineInit ==
    /\ factory \in BOOLEAN /\ crossed \in BOOLEAN /\ failed \in BOOLEAN
    /\ says_factory = (~failed /\ factory # crossed)
    /\ age = 0 /\ misled = 0
    /\ in_factory = says_factory
    /\ current_state = "NEAR_EDGE"
    /\ location = "UNKNOWN"
    /\ powers = "off"
    /\ i = 0
    /\ \/ phase = "fwd" /\ pos \in RightEdge /\ reached = FALSE
       \/ phase = "bck" /\ pos \in BckStarts /\ reached \in BOOLEAN

\* What the sensor sees at p: lines are darker than the floor of the factory,
\* and lighter than that of the shop.
Value(p) ==
    LET overLine == -HalfLine <= p /\ p <= HalfLine
        offLine == p < -HalfLine - Edge \/ p > HalfLine + Edge
    IN  IF overLine THEN IF factory THEN "low" ELSE "high"
        ELSE IF offLine THEN IF factory THEN "high" ELSE "low"
        ELSE "between"

LineState_OneArea(inFactory, value) ==
    IF value = "between" THEN "NEAR_EDGE"
    ELSE IF value = "low" THEN "ON_LINE" ELSE "OFF_LINE"

LineState(inFactory, value) ==
    IF value = "between" THEN "NEAR_EDGE"
    ELSE IF inFactory <=> value = "low" THEN "ON_LINE" ELSE "OFF_LINE"

\* Where the sensor can be after so many steps of what the motors do: the powers
\* of a turn are the same either way.
After(steps) ==
    IF powers = "left" THEN {pos - steps}
    ELSE IF powers = "right" THEN {pos + steps}
    ELSE IF powers = "straight" THEN pos-Drift..pos+Drift
    ELSE {pos}

Move(steps) ==
    /\ pos' \in After(steps) /\ pos' \in -Reach..Reach
    /\ factory' \in IF crossed THEN {factory} ELSE BOOLEAN
    /\ crossed' = (crossed \/ factory' # factory)
    /\ reached' \in IF reached THEN {TRUE} ELSE BOOLEAN

\* A packet comes, or a failed report, whose Y is zero, or neither for now.
NewY ==
    \/ says_factory' = factory' /\ age' = 0 /\ UNCHANGED failed
    \/ says_factory' = FALSE /\ age' = 0 /\ failed' = TRUE
    \/ age + 1 < PacketSteps /\ age' = age + 1 /\ UNCHANGED <<says_factory, failed>>

-------------------------------------------------------------------------------
(***************************************************************************)
(* fwd_flw                                                                  *)
(***************************************************************************)
FwdRespond ==
    /\ phase = "fwd" /\ ~reached
    /\ powers' = IF current_state = "ON_LINE" THEN "right"
                 ELSE IF current_state = "NEAR_EDGE" THEN "straight" ELSE "left"
    /\ phase' = "fwd_measure"
    /\ UNCHANGED <<groundVars, reportVars, followVars>>

AreaRead_AtCall == in_factory

\* Y() > FTRY_THRESH, read anew for every measurement.
AreaRead == says_factory'

FwdMeasure ==
    /\ phase = "fwd_measure"
    /\ Move(1) /\ NewY
    /\ current_state' = LineState(AreaRead, Value(pos)')
    /\ misled' = misled + (IF AreaRead = factory' THEN 0 ELSE 1)
    /\ misled' <= MaxMisled
    /\ phase' = "fwd"
    /\ UNCHANGED <<powers, in_factory, location, i>>

FwdStop ==
    /\ phase = "fwd" /\ reached
    /\ powers' = "off"
    /\ phase' = "done"
    /\ UNCHANGED <<groundVars, reportVars, followVars>>

-------------------------------------------------------------------------------
(***************************************************************************)
(* bck_flw, which does not look at Y() again.                                *)
(***************************************************************************)
BckState == LineState(in_factory, Value(pos))

Away_Swapped(side) == IF side = "LINE_ON_LEFT" THEN "left" ELSE "right"

\* Off a line that is on this side, and back to it.
Away(side) == IF side = "LINE_ON_RIGHT" THEN "left" ELSE "right"
Back(side) == IF side = "LINE_ON_LEFT" THEN "left" ELSE "right"

\* One iteration of the loop, but for the search.
BckFollow ==
    /\ phase = "bck" /\ ~reached
    /\ current_state' = BckState
    /\ \/ /\ BckState = "ON_LINE"
          /\ powers' = Away(location)
          /\ location' = IF location = "UNKNOWN" THEN "LINE_ON_LEFT" ELSE location
       \/ BckState = "NEAR_EDGE" /\ powers' = "straight" /\ UNCHANGED location
       \/ /\ BckState = "OFF_LINE" /\ location # "UNKNOWN"
          /\ powers' = Back(location) /\ UNCHANGED location
    /\ phase' = "bck_sleep"
    /\ UNCHANGED <<groundVars, reportVars, in_factory, i>>

BckSearch ==
    /\ phase = "bck" /\ ~reached
    /\ BckState = "OFF_LINE" /\ location = "UNKNOWN"
    /\ current_state' = BckState
    /\ powers' = "left" /\ i' = 0
    /\ phase' = "search_left"
    /\ UNCHANGED <<groundVars, reportVars, in_factory, location>>

\* for( i = 0; i < 100; i++ ) { Sleep( 10 ); if( on line ) break; }, to one side.
SearchStep(side, giveup) ==
    /\ UNCHANGED <<reportVars, in_factory, current_state>>
    /\ Move(1)
    /\ \/ /\ BckState' = "ON_LINE"
          /\ location' = side /\ phase' = "bck_sleep" /\ UNCHANGED <<powers, i>>
       \/ /\ BckState' # "ON_LINE" /\ i + 1 < SearchSteps
          /\ i' = i + 1 /\ UNCHANGED <<powers, phase, location>>
       \/ BckState' # "ON_LINE" /\ i + 1 = SearchSteps /\ giveup

SearchLeft ==
    /\ phase = "search_left"
    /\ SearchStep("LINE_ON_LEFT",
           powers' = "right" /\ i' = 0 /\ phase' = "search_right" /\ UNCHANGED location)

\* "Otherwise, line is totally lost": the function returns, with the motors on.
SearchRight ==
    /\ phase = "search_right"
    /\ SearchStep("LINE_ON_RIGHT",
           phase' = "done" /\ UNCHANGED <<powers, i, location>>)

BckSleep ==
    /\ phase = "bck_sleep"
    /\ Move(SleepSteps)
    /\ phase' = "bck"
    /\ UNCHANGED <<reportVars, powers, followVars>>

\* The loop ends, with the motors on.
BckReturn ==
    /\ phase = "bck" /\ reached
    /\ phase' = "done"
    /\ UNCHANGED <<groundVars, reportVars, followVars, powers>>

LineNext == \/ FwdRespond \/ FwdMeasure \/ FwdStop
        \/ BckFollow \/ BckSearch \/ SearchLeft \/ SearchRight \/ BckSleep \/ BckReturn

LineSpec == LineInit /\ [][LineNext]_lineVars

-------------------------------------------------------------------------------
\* Every variable has its type, and the search stays within its count.
LineTypeOK ==
    /\ pos \in Int
    /\ factory \in BOOLEAN /\ in_factory \in BOOLEAN
    /\ crossed \in BOOLEAN /\ reached \in BOOLEAN
    /\ says_factory \in BOOLEAN /\ failed \in BOOLEAN
    /\ age \in 0..PacketSteps-1 /\ misled \in 0..MaxMisled
    /\ current_state \in {"ON_LINE", "NEAR_EDGE", "OFF_LINE"}
    /\ location \in {"LINE_ON_LEFT", "LINE_ON_RIGHT", "UNKNOWN"}
    /\ powers \in {"straight", "left", "right", "off"}
    /\ i \in 0..SearchSteps-1
    /\ phase \in {"fwd", "fwd_measure", "bck", "bck_sleep", "search_left", "search_right", "done"}

Forward == phase \in {"fwd", "fwd_measure"}

\* Going forward, the robot strays from the right edge of the line by one step for
\* each measurement that took one area for the other, and no further, as long as
\* these are too few to bring it to the left edge: each of them turns it the wrong
\* way, and the ones in between never add to that.
FwdKeepsEdge ==
    Forward /\ misled <= 2 * HalfLine + 1 - Drift =>
        pos \in HalfLine+1-Drift-misled..HalfLine+Edge+Drift+misled

\* A change of areas misleads fwd_flw for less than a packet interval, if no report
\* fails: it reads Y() anew at every measurement.
FwdToldInTime == Forward /\ ~failed => misled < PacketSteps

\* bck_flw is in the area that its first report said.
Told == ~crossed /\ in_factory = factory

\* Going backward the robot never crosses a line that it has found on its left,
\* nor gets further from it than one sleep takes it, if it is in the area it was
\* told: although it goes on turning for a sleep after it has found the line.
BckKeepsSide ==
    location = "LINE_ON_LEFT" /\ Told =>
        /\ pos >= -HalfLine
        /\ pos <= HalfLine + SleepSteps \/ pos <= HalfLine + Edge + Drift

\* "Otherwise, continue the search", "Search to the right", "Otherwise, line is
\* totally lost": when bck_flw gives up, no line is as near as a search goes.
GivesUpOnlyIfLost ==
    phase = "done" /\ powers = "right" /\ location = "UNKNOWN" /\ Told =>
        \A k \in -SearchSteps..SearchSteps : pos + k < -HalfLine \/ pos + k > HalfLine
===============================================================================
