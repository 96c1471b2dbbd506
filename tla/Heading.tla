------------------------------- MODULE Heading --------------------------------
(***************************************************************************)
(* Headings: what the positioning system reports, and the two functions of  *)
(* src/src/movement.cpp that compute with reports, head_diff and ud_head.    *)
(*                                                                          *)
(* Angles are integers, Degree of them to a degree; the code has Degree = 10 *)
(* (the packets carry tenths), and writes the largest angle below 180 and 90 *)
(* degrees as 179.9 and 89.9.  Its floats are near the tenths, not on them,   *)
(* so where two values are equal here the code's comparison may go either     *)
(* way: a report that is as far as its target may count as short of it, and   *)
(* the turn then runs on to the next one.  The models decide these ties for   *)
(* equality, but for the one that the code always decides against it          *)
(* (WrapsAround in RotDeg).                                                   *)
(***************************************************************************)
EXTENDS Integers

CONSTANT Degree
ASSUME DegreeAssumption == Degree \in Nat \ {0}

HalfTurn == 180 * Degree
QuarterTurn == 90 * Degree
FullTurn == 2 * HalfTurn

Angle == 0..FullTurn-1      \* headings the robot can have
Report == 0..HalfTurn-1     \* headings the positioning system can report

\* Rps.Heading(): modulo half a turn, so that 0 is both a heading and the
\* value that stands for "not seen" (RpsFailure).
Reading(theta) == IF theta < HalfTurn THEN theta ELSE theta - HalfTurn
RpsFailure == 0

HeadDiff_Swapped(current, target) ==
    LET difference == current - target
        reversed == IF difference > QuarterTurn - 1 THEN HalfTurn - 1 - difference
                                                    ELSE difference
    IN  IF reversed < -(QuarterTurn - 1) THEN reversed + HalfTurn - 1 ELSE reversed

\* Reverse direction if need be.
HeadDiff(current, target) ==
    LET difference == target - current
        reversed == IF difference > QuarterTurn - 1 THEN HalfTurn - 1 - difference
                                                    ELSE difference
    IN  IF reversed < -(QuarterTurn - 1) THEN reversed + HalfTurn - 1 ELSE reversed

NewHead_WrongQuadrant(old, raw) ==
    CASE old > 45 * Degree /\ old <= 225 * Degree -> raw
      [] old > 225 * Degree /\ old <= 315 * Degree -> HalfTurn + raw
      [] OTHER -> IF raw >= QuarterTurn THEN HalfTurn + raw ELSE raw

\* The heading ud_head computes from the one stored and a report.
NewHead(old, raw) ==
    CASE old > 45 * Degree /\ old <= 135 * Degree -> raw
      [] old > 135 * Degree /\ old <= 225 * Degree ->
            IF raw >= QuarterTurn THEN raw ELSE HalfTurn + raw
      [] old > 225 * Degree /\ old <= 315 * Degree -> HalfTurn + raw
      [] OTHER -> IF raw >= QuarterTurn THEN HalfTurn + raw ELSE raw

-------------------------------------------------------------------------------
\* Reference notions: the signed way from one heading to another, the shorter
\* way round a circle of the given period, and its length.
Turn(from, to, period) ==
    LET d == to - from
    IN  CASE 2 * d > period -> d - period
          [] 2 * d <= -period -> d + period
          [] OTHER -> d
Magnitude(d) == IF d < 0 THEN -d ELSE d
===============================================================================
