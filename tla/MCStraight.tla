------------------------------ MODULE MCStraight ------------------------------
(* Short drives at a resolution of a degree.                                 *)
EXTENDS Straight

MCBoth == {"fwd_dist", "bck_dist"}
MCForward == {"fwd_dist"}
MCBackward == {"bck_dist"}
MCNorth == {30, 60, 90, 120}
MCNearZero == {1, 3, 178}
MCDrifts == {-2, 0, 1}
MCCounts == 1..2
MCStale == {0, 12}
MCFresh == {0}
===============================================================================
