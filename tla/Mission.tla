-------------------------------- MODULE Mission -------------------------------
(***************************************************************************)
(* The script of main (src/src/main.cpp), from the start signal to the       *)
(* charging station: drives, turns by an angle, and corrections of the        *)
(* heading, on top of rot_deg and rot_corr (RotDeg).  A drive is taken by     *)
(* what Straight shows of it: the motors are off when it ends, and the robot  *)
(* has turned a little on the way.  The mission is run, and proved about, in  *)
(* sight of the positioning system (MaxOutage = 0): what an outage does to a  *)
(* turn is shown by Turns.                                                    *)
(***************************************************************************)
EXTENDS RotDeg, Sequences

CONSTANTS
    StartHeadings,  \* headings the robot may be put down at
    Drifts,         \* how far a drive turns the robot
    Tolerance       \* how far from its planned heading a drive may begin

ASSUME MissionAssumption ==
    /\ StartHeadings \subseteq Angle
    /\ Drifts \subseteq -QuarterTurn..QuarterTurn
    /\ Tolerance \in Nat

VARIABLES
    at,       \* the step of the script
    f_mot,    \* the power of the fork's motor
    narrow    \* a turn had to stop at reports it could step over

scriptVars == <<at, f_mot, narrow>>
missionVars == <<worldVars, motors, pc, rotDegVars, scriptVars>>

\* The plan of a drive is the heading of the robot the script is written for;
\* nothing in the program holds it.
Drive(plan) == [op |-> "drive", plan |-> plan * Degree]
Rotate(degrees) == [op |-> "rot_deg", by |-> degrees * Degree]
Fork(power) == [op |-> "fork", power |-> power]
\* rot_corr(&bot, (90.0 - rps.Heading()) / 2);
CorrectTo90 == [op |-> "correct"]
\* The correction to get the heading close to 0, from above or from below.
CorrectTo0 == [op |-> "zero", above |-> Degree \div 2, below |-> HalfTurn - (6 * Degree) \div 10,
               half |-> TRUE]
FullCorrectTo0 == [op |-> "zero", above |-> Degree, below |-> HalfTurn - Degree, half |-> FALSE]

MoveToPin ==
    << Fork(15), Fork(0),
       Drive(90), CorrectTo90, Rotate(40), Drive(130), Rotate(-40), CorrectTo90, Drive(90) >>
GrabPin == << Fork(-50), Drive(90), Fork(0) >>
MoveToShop == << Rotate(40), Rotate(40), CorrectTo0, Drive(175), FullCorrectTo0 >>
LeftCounter_Uncorrected == << Rotate(45), Drive(225), Rotate(-45) >>
LeftCounter == << Rotate(45), Drive(225), Rotate(-45), CorrectTo0 >>
DepositScoop == << Drive(180), Drive(180), CorrectTo0 >>
UpRamp == << Rotate(45), Drive(225), Rotate(-45), CorrectTo0, Drive(180), CorrectTo0 >>
ChargingStation == << Rotate(40), Rotate(40), CorrectTo90, Drive(270) >>

Script == MoveToPin \o GrabPin \o MoveToShop \o LeftCounter \o DepositScoop
            \o UpRamp \o ChargingStation

\* Halves are tenths of a degree and a half; the comparisons of rot_corr with a
\* target that lies between two reports come out as with the further one.
Half(angle) == IF angle >= 0 THEN (angle + 1) \div 2 ELSE -((1 - angle) \div 2)

MissionInit ==
    /\ pc = "script"
    /\ WorldInit(StartHeadings)
    /\ RotDegInit({0})
    /\ at = 1
    /\ f_mot = 0
    /\ narrow = FALSE

-------------------------------------------------------------------------------
Performs(op) == pc = "script" /\ at <= Len(Script) /\ Script[at].op = op

\* fwd_dist or bck_dist
DriveStep ==
    /\ Performs("drive")
    /\ \E d \in Drifts : theta' = (theta + d) % FullTurn
    /\ ReportComes
    /\ at' = at + 1
    /\ UNCHANGED <<turned, motors, pc, rotDegVars, f_mot, narrow>>

ForkStep ==
    /\ Performs("fork")
    /\ f_mot' = Script[at].power
    /\ at' = at + 1
    /\ UNCHANGED <<worldVars, motors, pc, rotDegVars, narrow>>

\* A call of rot_deg or rot_corr begins.
Call(angle) ==
    /\ degree' = angle
    /\ turned' = 0 /\ unseen' = FALSE
    /\ pc' = "start"
    /\ UNCHANGED <<theta, rps, outage, motors, localVars, scriptVars>>

RotateStep == Performs("rot_deg") /\ Call(Script[at].by)

CorrectStep == Performs("correct") /\ Call(Half(90 * Degree - rps))

\* if (rps.Heading() < 90) .. else if (rps.Heading() > 90): target holds which.
ZeroStep ==
    /\ Performs("zero")
    /\ \/ rps < QuarterTurn /\ target' = Script[at].above /\ pc' = "zero" /\ UNCHANGED at
       \/ rps > QuarterTurn /\ target' = Script[at].below /\ pc' = "zero" /\ UNCHANGED at
       \/ rps = QuarterTurn /\ at' = at + 1 /\ UNCHANGED <<target, pc>>
    /\ UNCHANGED <<worldVars, motors, degree, current_head, prev_head, wrapped, f_mot, narrow>>

\* The second read, for the argument of rot_corr.
ZeroCall ==
    /\ pc = "zero"
    /\ LET way == target - rps IN Call(IF Script[at].half THEN Half(way) ELSE way)

\* The reports at which the turn stops, between its target and zero, are fewer
\* than a tick may step over.
Narrow ==
    /\ pc = "turn" /\ ~wrapped
    /\ \/ degree < 0 /\ target < Sample - 1
       \/ degree > 0 /\ target > HalfTurn - Sample

TurnStep ==
    /\ RotDegNext
    /\ narrow' = (narrow \/ Narrow)
    /\ UNCHANGED <<at, f_mot>>

Return ==
    /\ pc = "done"
    /\ pc' = "script"
    /\ at' = at + 1
    /\ UNCHANGED <<worldVars, motors, rotDegVars, f_mot, narrow>>

MissionNext == \/ DriveStep \/ ForkStep \/ RotateStep \/ CorrectStep
                \/ ZeroStep \/ ZeroCall \/ TurnStep \/ Return

MissionSpec == MissionInit /\ [][MissionNext]_missionVars

Complete == pc = "script" /\ at > Len(Script)

\* The program runs; packets come while it waits for one.
MissionFairSpec == MissionSpec /\ WF_missionVars(MissionNext)

-------------------------------------------------------------------------------
\* Every variable has its type.
MissionTypeOK ==
    /\ WorldTypeOK /\ RotDegTypeOK
    /\ pc \in {"script", "zero", "start", "wrap", "sleep", "wake", "turn", "stop", "done"}
    /\ at \in 1..Len(Script) + 1
    /\ f_mot \in -100..100
    /\ narrow \in BOOLEAN

\* Every drive of the mission begins within the tolerance of the heading it is
\* planned for, full turn and all, whatever the drives and turns before it have
\* added up to, unless a turn had to stop at reports it could step over.
LegHeadings ==
    Performs("drive") /\ ~narrow =>
        Magnitude(Turn(Script[at].plan, theta, FullTurn)) <= Tolerance

\* Where LegHeadings is proved: the robot is in sight, it is put down at about 90
\* degrees, a drive turns it by a degree to the right or four to the left at most, a
\* tick by half a degree, and the tolerance is eight and a half degrees or more.
Budget ==
    /\ MaxOutage = 0
    /\ StartHeadings \subseteq 87*Degree..94*Degree
    /\ Drifts \subseteq -Degree..4*Degree
    /\ 2 * Sample <= Degree
    /\ 17 * Degree <= 2 * Tolerance

\* "Rotates the robot a specified number of degrees": no call of the script turns
\* the robot much further than it is asked to.
TurnsAsAsked == Magnitude(turned) <= Magnitude(degree) + 4 * Sample

\* A mission whose reports are never 0.0, and whose turns have room to stop, comes
\* to its end.
MissionCompletes == [](rps # RpsFailure /\ ~Narrow) => <>Complete
===============================================================================
