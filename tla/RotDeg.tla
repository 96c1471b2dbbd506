-------------------------------- MODULE RotDeg --------------------------------
(***************************************************************************)
(* rot_deg and rot_corr of src/src/movement.cpp (the same program at two      *)
(* motor powers): turn until the report, which covers half a turn, reaches    *)
(* the heading asked for, first waiting for the report to wrap around when    *)
(* the way to it passes through zero.                                         *)
(***************************************************************************)
EXTENDS Turning

VARIABLES
    degree,        \* the argument
    current_head,
    prev_head,
    target,
    wrapped

localVars == <<current_head, prev_head, target, wrapped>>
rotDegVars == <<degree, localVars>>

RotDegInit(degrees) ==
    /\ degree \in degrees
    /\ current_head = 0 /\ prev_head = 0 /\ target = 0
    /\ wrapped = FALSE

\* The loop condition of each phase of the turn, at the report read.
StillWrapping(report) == IF degree > 0 THEN prev_head <= report ELSE prev_head >= report
StillTurning_WhileSeen == rps # RpsFailure /\ IF degree > 0 THEN rps < target ELSE rps > target
StillTurning == IF degree > 0 THEN rps < target ELSE rps > target

\* The program has nothing to do before the next packet.
Blocked ==
    \/ pc = "start" /\ rps = RpsFailure
    \/ pc = "wrap" /\ rps = RpsFailure
    \/ pc = "sleep"
    \/ pc = "turn" /\ StillTurning

RotDegTick ==
    /\ Blocked
    /\ WorldTick
    /\ pc' = IF pc = "sleep" THEN "wake" ELSE pc
    /\ UNCHANGED <<motors, rotDegVars>>

WrapsAround_BelowOnly(sum) == sum < 0
\* The code compares a float with the double 179.9, and the float nearest to 179.9
\* is smaller than that: a sum of 179.9 does not wrap.
WrapsAround(sum) == sum < 0 \/ sum > HalfTurn - 1

Corrected_BelowOnly(sum) == IF sum < 0 THEN HalfTurn - sum ELSE sum
Corrected(sum) ==
    IF sum < 0 THEN HalfTurn - sum
    ELSE IF sum > HalfTurn - 1 THEN sum - (HalfTurn - 1)
    ELSE sum

\* The first heading, the target and its correction for wrap, the motors.
Begin ==
    /\ pc = "start" /\ rps # RpsFailure
    /\ current_head' = rps /\ prev_head' = rps
    /\ wrapped' = WrapsAround(rps + degree)
    /\ target' = Corrected(rps + degree)
    /\ motors' = IF degree > 0 THEN "left" ELSE IF degree < 0 THEN "right" ELSE motors
    /\ pc' = IF degree = 0 THEN "stop" ELSE IF wrapped' THEN "wrap" ELSE "turn"
    /\ UNCHANGED <<degree, worldVars>>

\* if( Heading() != 0.0 ) Sleep( 100 );
SeesHeading ==
    /\ pc = "wrap" /\ rps # RpsFailure
    /\ pc' = "sleep"
    /\ UNCHANGED <<worldVars, motors, rotDegVars>>

\* current_head = Heading(), a second read, after the sleep.
Wake ==
    /\ pc = "wake"
    /\ current_head' = rps
    /\ pc' = IF StillWrapping(rps) THEN "wrap" ELSE "turn"
    /\ UNCHANGED <<worldVars, motors, degree, prev_head, target, wrapped>>

Arrive ==
    /\ pc = "turn" /\ ~StillTurning
    /\ pc' = "stop"
    /\ UNCHANGED <<worldVars, motors, rotDegVars>>

StopTurn ==
    /\ pc = "stop"
    /\ motors' = "off"
    /\ pc' = "done"
    /\ UNCHANGED <<worldVars, rotDegVars>>

RotDegNext == RotDegTick \/ Begin \/ SeesHeading \/ Wake \/ Arrive \/ StopTurn

\* The target of a left turn is a heading the positioning system can report;
\* that of a right turn need not be.
RotDegTypeOK ==
    /\ degree \in -HalfTurn..HalfTurn
    /\ current_head \in Report /\ prev_head \in Report
    /\ target \in 0..2*HalfTurn
    /\ degree > 0 /\ motors = "left" => target \in Report
    /\ wrapped \in BOOLEAN
===============================================================================
