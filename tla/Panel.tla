--------------------------------- MODULE Panel --------------------------------
(***************************************************************************)
(* The buttons and the display: the startup menus, any text, a circle, a      *)
(* shape made of straight lines, or motions that a button ends.              *)
(***************************************************************************)
EXTENDS Text, Startup, Circle, Lines, Motions

VARIABLE program

vars == <<program, textVars, startupVars, circleVars, linesVars, motionVars>>

Init ==
    /\ program \in {"startup", "text", "circle", "lines", "motions"}
    /\ TextInit
    /\ LinesInit
    /\ MotionsInit
    /\ StartupInit /\ (program # "startup" => pressed = {})
    /\ IF program = "circle" THEN CircleInit
       ELSE radius = 0 /\ x = 0 /\ y = 0 /\ f = 0 /\ ddF_x = 0 /\ ddF_y = 0

StartupStep ==
    program = "startup" /\ StartupNext /\ UNCHANGED <<program, textVars, circleVars, linesVars, motionVars>>
TextStep ==
    program = "text" /\ TextNext /\ UNCHANGED <<program, startupVars, circleVars, linesVars, motionVars>>
DrawStep ==
    program = "circle" /\ CircleStep /\ UNCHANGED <<program, textVars, startupVars, linesVars, motionVars>>
LineStep ==
    program = "lines" /\ LinesNext /\ UNCHANGED <<program, cursor, rest, ending, startupVars, circleVars, motionVars>>
MotionStep ==
    program = "motions" /\ MotionsNext /\ UNCHANGED <<program, textVars, startupVars, circleVars, linesVars>>

Next == StartupStep \/ TextStep \/ DrawStep \/ LineStep \/ MotionStep

Spec == Init /\ [][Next]_vars

-------------------------------------------------------------------------------
\* Every variable has its type: the cursor stays where a line may begin, and the
\* region selected is one of the menu's and the one the radio is configured for.
TypeOK ==
    /\ program \in {"startup", "text", "circle", "lines", "motions"}
    /\ TextTypeOK /\ StartupTypeOK /\ CircleTypeOK /\ MotionsTypeOK

\* What DrawCircle's comments say of its sums, and the nearest pixel.
CircleAsCommented == program = "circle" => CircleInvariant
===============================================================================
