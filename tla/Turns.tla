--------------------------------- MODULE Turns --------------------------------
(***************************************************************************)
(* One call of rot_deg (or rot_corr), rot_head or crct_head.                 *)
(***************************************************************************)
EXTENDS RotDeg, RotHead

CONSTANTS
    DegStarts,   \* headings a call of rot_deg may start from
    Degrees,     \* its arguments, as angles
    HeadStarts,  \* headings a call of rot_head or crct_head may start from
    Goals        \* their arguments

ASSUME TurnsAssumption ==
    /\ DegStarts \subseteq Report \ {0} /\ HeadStarts \subseteq Angle
    /\ Degrees \subseteq -HalfTurn..HalfTurn
    /\ Goals \subseteq Angle

VARIABLE program

vars == <<program, worldVars, motors, pc, rotDegVars, rotHeadVars>>

Init ==
    \/ /\ program = "rot_deg" /\ pc = "start"
       /\ WorldInit(DegStarts) /\ RotDegInit(Degrees) /\ RotHeadInit({0})
    \/ /\ \/ program = "rot_head" /\ pc = "update"
          \/ program = "crct_head" /\ pc = "crct_decide"
       /\ WorldInit(HeadStarts) /\ RotHeadInit(Goals) /\ RotDegInit({0})

RotDegStep == program = "rot_deg" /\ RotDegNext /\ UNCHANGED <<program, rotHeadVars>>

RotHeadStep == program # "rot_deg" /\ RotHeadNext /\ UNCHANGED <<program, rotDegVars>>

Next == RotDegStep \/ RotHeadStep

Spec == Init /\ [][Next]_vars

-------------------------------------------------------------------------------
\* Every variable has its type; the heading ud_head stores stays one of a full
\* turn, and the target of a left turn is one the positioning system can report.
TypeOK ==
    /\ WorldTypeOK /\ RotDegTypeOK /\ RotHeadTypeOK
    /\ pc \in {"start", "wrap", "sleep", "wake", "turn", "stop", "done",
               "update", "decide", "rest", "crct_decide", "crct_poll"}

Done(programs) == pc = "done" /\ program \in programs

\* "Rotates the robot a specified number of degrees": in sight of the positioning
\* system it stops within two packet intervals past the angle asked for, and not
\* before it (179.9 for 180 makes the end of a wrapped turn fuzzy by the smallest
\* angle).
RotatesAsSpecified ==
    Done({"rot_deg"}) /\ ~unseen =>
        /\ Magnitude(turned) <= Magnitude(degree) + 2 * Sample + 1
        /\ Magnitude(turned) >= Magnitude(degree) - 1

\* A turn to the left without a wrap never stops short of its angle, although
\* the robot may be out of sight at any time: a failed report reads as zero.
LeftNeverStopsShort ==
    Done({"rot_deg"}) /\ degree > 0 /\ ~wrapped => turned >= degree

\* "Rotates the robot such that it has a certain heading according to the RPS
\* sensor": when rot_head stops, the report would be within HEAD_ERR of its goal,
\* and that of crct_head within a degree if it is seen (and the smallest angle,
\* as head_diff takes half a turn for 179.9).
StopsAtHeading ==
    LET miss == Magnitude(Turn(Reading(theta), Reading(goal), HalfTurn))
    IN  /\ Done({"rot_head"}) => motors = "off" /\ miss <= HeadErr + 1
        /\ Done({"crct_head"}) /\ rps # RpsFailure => motors = "off" /\ miss <= CrctErr + 1

\* The heading stored is the true one whenever rot_head decides in sight which
\* way to go, over any number of half turns.
DecidesOnTrueHeading ==
    pc = "decide" /\ rps # RpsFailure => head = theta

\* A turn in sight of the positioning system ends.
RotDegTerminates ==
    [](~unseen) /\ program = "rot_deg" => <>(pc = "done")

\* rot_head ends once the robot stays in sight.
RotHeadTerminates ==
    <>[](outage = 0) /\ program = "rot_head" => <>(pc = "done")
===============================================================================
