-------------------------------- MODULE Circle --------------------------------
(***************************************************************************)
(* The loop that DrawCircle and FillCircle of src/Libraries/FEHLCD.cpp share:  *)
(* the midpoint algorithm, which walks one eighth of a circle of the radius     *)
(* given, with nothing but sums.                                              *)
(***************************************************************************)
EXTENDS Integers

CONSTANT Radii

ASSUME RadiiAssumption == Radii \subseteq Nat

VARIABLES radius, x, y, f, ddF_x, ddF_y

circleVars == <<radius, x, y, f, ddF_x, ddF_y>>

CircleInit ==
    /\ radius \in Radii
    /\ x = 0 /\ y = radius
    /\ f = 1 - radius
    /\ ddF_x = 1
    /\ ddF_y = -2 * radius

\* The middle between the two candidates of the next column is outside the circle.
Inwards == f >= 0

CircleStep_OldSum ==
    /\ x < y
    /\ y' = IF Inwards THEN y - 1 ELSE y
    /\ ddF_y' = IF Inwards THEN ddF_y + 2 ELSE ddF_y
    /\ x' = x + 1
    /\ ddF_x' = ddF_x + 2
    /\ f' = (IF Inwards THEN f + ddF_y ELSE f) + ddF_x'
    /\ UNCHANGED radius

\* The next column, a row further in if need be.
CircleStep ==
    /\ x < y
    /\ y' = IF Inwards THEN y - 1 ELSE y
    /\ ddF_y' = IF Inwards THEN ddF_y + 2 ELSE ddF_y
    /\ x' = x + 1
    /\ ddF_x' = ddF_x + 2
    /\ f' = (IF Inwards THEN f + ddF_y' ELSE f) + ddF_x'
    /\ UNCHANGED radius

-------------------------------------------------------------------------------
CircleTypeOK == circleVars \in Nat \X Nat \X Int \X Int \X Int \X Int

\* What the comments of the code say of its three sums, whatever the loop has
\* added to them: "ddF_x == 2 * x + 1", "ddF_y == -2 * y" and
\* "f == x*x + y*y - radius*radius + 2*x - y + 1".
SumsAsCommented ==
    /\ ddF_x = 2 * x + 1
    /\ ddF_y = -2 * y
    /\ f = x * x + y * y - radius * radius + 2 * x - y + 1

\* And so the pixel drawn is the nearest to the circle in its column: the circle
\* passes within half a pixel of it.
NearestToCircle ==
    /\ x * x + y * y + y >= radius * radius
    /\ x <= y => x * x + y * y - y <= radius * radius

CircleInvariant == SumsAsCommented /\ NearestToCircle
===============================================================================
