-------------------------------- MODULE Treads --------------------------------
(***************************************************************************)
(* What fwd_dist and bck_dist of src/src/movement.cpp share: the encoder      *)
(* counts of a distance, and the powers of the two treads.                   *)
(***************************************************************************)
EXTENDS Integers

CONSTANT Distance   \* distance, in tenths of an inch
ASSUME DistanceAssumption == Distance \in Nat

LM_PWR_FW == -96
RM_PWR_FW == -90
BLNC_FCTR_Positive == 7
BLNC_FCTR == -7

\* distance * LT_LPI and distance * RT_LPI, truncated to int.
l_tgt_cts(distance) == (distance * 277) \div 1000
r_tgt_cts(distance) == (distance * 175) \div 1000

l_tgt == l_tgt_cts(Distance)
r_tgt == r_tgt_cts(Distance)
===============================================================================
