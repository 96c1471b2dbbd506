------------------------------- MODULE Movements ------------------------------
(***************************************************************************)
(* One movement at a time: a turn (Turns), a line to follow, or whatever a    *)
(* caller of ud_head does in between.  The program is a single thread; each   *)
(* function has its own view of the robot, and the others rest meanwhile.    *)
(***************************************************************************)
EXTENDS Turns, LineFollow, HeadTracking

movementVars == <<vars, lineVars, trackingVars>>

\* What rests does so in one of the states it may begin in, or is done.
TurnsRest ==
    /\ pc = "done"
    /\ WorldInit({0}) /\ RotDegInit({0}) /\ RotHeadInit({0})
LineRests == LineInit /\ phase = "fwd" /\ pos = HalfLine + 1 /\ ~factory /\ ~crossed /\ ~failed
TrackingRests == TrackingInit /\ \A a \in Starts : facing <= a

MovementInit ==
    \/ Init /\ LineRests /\ TrackingRests
    \/ program = "follow" /\ TurnsRest /\ LineInit /\ TrackingRests
    \/ program = "ud_head" /\ TurnsRest /\ LineRests /\ TrackingInit

TurnsStep ==
    /\ program \in {"rot_deg", "rot_head", "crct_head"}
    /\ Next /\ UNCHANGED <<lineVars, trackingVars>>
LineStep == program = "follow" /\ LineNext /\ UNCHANGED <<vars, trackingVars>>
TrackingStep == program = "ud_head" /\ TrackingNext /\ UNCHANGED <<vars, lineVars>>

MovementNext == TurnsStep \/ LineStep \/ TrackingStep

\* Packets keep coming and the program runs.
MovementSpec == MovementInit /\ [][MovementNext]_movementVars /\ WF_movementVars(MovementNext)
===============================================================================
