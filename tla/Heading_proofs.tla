----------------------------- MODULE Heading_proofs ----------------------------
(***************************************************************************)
(* What ud_head and head_diff of src/src/movement.cpp compute, for every     *)
(* resolution of the angles, and the arithmetic of headings that the proofs  *)
(* about the drives and the turns share.                                     *)
(***************************************************************************)
EXTENDS Heading, TLAPS

LEMMA Units ==
    /\ Degree \in Nat \ {0} /\ Degree \in Nat /\ Degree >= 1
    /\ HalfTurn \in Nat /\ HalfTurn >= 180
    /\ HalfTurn = 180 * Degree /\ QuarterTurn = 90 * Degree /\ FullTurn = 360 * Degree
  BY DegreeAssumption, SMT DEF HalfTurn, QuarterTurn, FullTurn

LEMMA ReadingType == ASSUME NEW a \in Angle PROVE Reading(a) \in Report
BY Units, SMT DEF Angle, Report, Reading

LEMMA Remainder == ASSUME NEW a \in Int, NEW n \in Nat, n > 0 PROVE a % n \in 0..n-1
BY SMT

LEMMA NoWrap == ASSUME NEW a \in Nat, NEW n \in Nat, a < n PROVE a % n = a
BY SMT

LEMMA NewHeadType == ASSUME NEW old \in Angle, NEW raw \in Report PROVE NewHead(old, raw) \in Angle
  BY Units DEF NewHead, Angle, Report

LEMMA HeadDiffType == \A c, t \in Int : HeadDiff(c, t) \in Int
  BY Units DEF HeadDiff

\* A robot that has turned less than 45 degrees since its heading was stored
\* gets its true heading back from a report modulo 180 degrees.
THEOREM NewHeadExact ==
    ASSUME NEW old \in Angle, NEW t \in Angle,
           Magnitude(Turn(old, t, FullTurn)) < 45 * Degree
    PROVE  NewHead(old, Reading(t)) = t
  <1>1. /\ Degree \in Nat /\ Degree >= 1
        /\ old \in 0..360*Degree-1 /\ t \in 0..360*Degree-1
    BY Units DEF Angle
  <1>2. \/ t - old < 45*Degree /\ old - t < 45*Degree
        \/ t - old > 315*Degree
        \/ old - t > 315*Degree
    BY <1>1, Units DEF Magnitude, Turn
  <1>3. CASE old > 45*Degree /\ old <= 135*Degree
    BY <1>1, <1>2, <1>3, Units DEF NewHead, Reading
  <1>4. CASE old > 135*Degree /\ old <= 225*Degree
    BY <1>1, <1>2, <1>4, Units DEF NewHead, Reading
  <1>5. CASE old > 225*Degree /\ old <= 315*Degree
    BY <1>1, <1>2, <1>5, Units DEF NewHead, Reading
  <1>6. CASE old <= 45*Degree \/ old > 315*Degree
    BY <1>1, <1>2, <1>6, Units DEF NewHead, Reading
  <1>. QED  BY <1>1, <1>3, <1>4, <1>5, <1>6

\* head_diff is the shorter way round, but when the target is more than a
\* quarter turn above the current heading it is the shorter way with the wrong
\* sign: the difference is reversed without being made negative.
THEOREM HeadDiffSign ==
    ASSUME NEW c \in Report, NEW t \in Report
    PROVE  HeadDiff(c, t) = IF t - c <= QuarterTurn - 1 THEN Turn(c, t, HalfTurn - 1)
                                                       ELSE -Turn(c, t, HalfTurn - 1)
  <1>1. /\ Degree \in Nat /\ Degree >= 1
        /\ c \in 0..180*Degree-1 /\ t \in 0..180*Degree-1
    BY Units DEF Report
  <1>2. CASE t - c <= QuarterTurn - 1
    BY <1>1, <1>2, Units DEF HeadDiff, Turn
  <1>3. CASE ~(t - c <= QuarterTurn - 1)
    BY <1>1, <1>3, Units DEF HeadDiff, Turn
  <1>. QED  BY <1>2, <1>3

\* Whatever heading ud_head computes from a report, it shows as that report.
LEMMA NewHeadShows ==
    ASSUME NEW old \in Angle, NEW raw \in Report
    PROVE  NewHead(old, raw) \in Angle /\ Reading(NewHead(old, raw)) = raw
<1>1. old \in 0..360*Degree-1 /\ raw \in 0..180*Degree-1 /\ Degree \in Nat /\ Degree > 0
  BY Units, SMT DEF Angle, Report
<1>2. NewHead(old, raw) = raw \/ NewHead(old, raw) = HalfTurn + raw
  <2>1. CASE old > 45 * Degree /\ old <= 135 * Degree
    BY <2>1, <1>1, SMT DEF NewHead
  <2>2. CASE old > 135 * Degree /\ old <= 225 * Degree
    BY <2>2, <1>1, SMT DEF NewHead
  <2>3. CASE old > 225 * Degree /\ old <= 315 * Degree
    BY <2>3, <1>1, SMT DEF NewHead
  <2>4. CASE old <= 45 * Degree \/ old > 315 * Degree
    BY <2>4, <1>1, SMT DEF NewHead
  <2> QED BY <1>1, <2>1, <2>2, <2>3, <2>4, SMT
<1> QED BY <1>1, <1>2, Units, SMT DEF Angle, Reading

\* Where head_diff is small, the two reports are close: at the wrap of the report
\* by the smallest angle less than head_diff says.
LEMMA NearMeansClose ==
    ASSUME NEW a \in Angle, NEW b \in Report, NEW err \in Nat,
           HeadDiff(a, b) <= err, HeadDiff(a, b) >= -err
    PROVE  /\ Magnitude(Turn(Reading(a), b, HalfTurn)) <= err + 1
           /\ Magnitude(Turn(b, Reading(a), HalfTurn)) <= err + 1
<1>1. a \in 0..360*Degree-1 /\ b \in 0..180*Degree-1 /\ Degree \in Nat /\ Degree > 0
  BY Units, SMT DEF Angle, Report
<1>2. \/ a < 180*Degree /\ Reading(a) = a
      \/ a >= 180*Degree /\ Reading(a) = a - 180*Degree
  BY <1>1, Units, SMT DEF Reading
<1> DEFINE d == b - a
<1>3. /\ d \in Int
      /\ HeadDiff(a, b) = IF d > 90*Degree - 1 THEN 180*Degree - 1 - d
                          ELSE IF d < -(90*Degree - 1) THEN d + 180*Degree - 1
                          ELSE d
  BY <1>1, Units, SMT DEF HeadDiff
<1>4. CASE a < 180*Degree /\ Reading(a) = a
  BY <1>1, <1>3, <1>4, Units, SMT DEF Magnitude, Turn
<1>5. CASE a >= 180*Degree /\ Reading(a) = a - 180*Degree
  BY <1>1, <1>3, <1>5, Units, SMT DEF Magnitude, Turn
<1> QED BY <1>2, <1>4, <1>5
===============================================================================
