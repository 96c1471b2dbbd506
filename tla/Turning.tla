------------------------------- MODULE Turning --------------------------------
(***************************************************************************)
(* The world of the functions of src/src/movement.cpp that turn the robot on *)
(* the spot: its heading, the reports of it, and the motors.                 *)
(*                                                                          *)
(* A tick is one packet interval.  The polling loops run many times within   *)
(* one, so the program gets as far as it can before the next tick;           *)
(* Sleep( 100 ) lasts one tick.                                              *)
(***************************************************************************)
EXTENDS Heading

CONSTANTS
    Rates,      \* how far a turning robot turns in a tick
    MaxOutage,  \* how many ticks in a row the robot may be out of sight
    MaxTurn     \* bound: how far one call turns

ASSUME TurningAssumption ==
    /\ Rates \subseteq 1..QuarterTurn /\ Rates # {}
    /\ {MaxOutage, MaxTurn} \subseteq Nat

VARIABLES
    theta,   \* the robot's heading
    turned,  \* how far it has turned, counterclockwise positive
    rps,     \* the last report
    outage,  \* ticks it has been RpsFailure
    unseen,  \* the robot has been out of sight since the turn began
    motors,  \* "left" (counterclockwise), "right" or "off"
    pc

worldVars == <<theta, turned, rps, outage, unseen>>

WorldInit(headings) ==
    /\ theta \in headings
    /\ turned = 0
    /\ rps \in IF MaxOutage = 0 THEN {Reading(theta)} ELSE {Reading(theta), RpsFailure}
    /\ outage = 0
    /\ unseen = (pc # "start" /\ rps = RpsFailure)
    /\ motors = "off"

Direction == IF motors = "left" THEN 1 ELSE IF motors = "right" THEN -1 ELSE 0

ReportComes ==
    \/ rps' = Reading(theta') /\ outage' = 0 /\ UNCHANGED unseen
    \/ /\ outage < MaxOutage
       /\ rps' = RpsFailure
       /\ outage' = outage + 1
       /\ unseen' = (unseen \/ pc # "start")

WorldTick ==
    /\ \E rate \in Rates :
         /\ turned' = turned + Direction * rate
         /\ Magnitude(turned') <= MaxTurn
         /\ theta' = (theta + Direction * rate) % FullTurn
    /\ ReportComes

WorldTypeOK ==
    /\ theta \in Angle
    /\ turned \in -MaxTurn..MaxTurn
    /\ rps \in Report
    /\ outage \in 0..MaxOutage
    /\ unseen \in BOOLEAN
    /\ motors \in {"left", "right", "off"}

\* The furthest one tick carries the robot.
Sample == CHOOSE r \in Rates : \A q \in Rates : q <= r
===============================================================================
