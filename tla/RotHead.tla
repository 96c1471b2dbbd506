-------------------------------- MODULE RotHead -------------------------------
(***************************************************************************)
(* rot_head and crct_head of src/src/movement.cpp.  rot_head turns to a       *)
(* heading by head_diff of the heading ud_head keeps, deciding anew every    *)
(* Sleep( 100 ) which way to go (ud_head's two reads of the report are one    *)
(* here; HeadTracking separates them).  crct_head decides at every poll, by   *)
(* head_diff of the report, with its arguments the other way round.           *)
(***************************************************************************)
EXTENDS Turning

CONSTANTS
    HeadErr,   \* HEAD_ERR, as an angle
    CrctErr    \* 1.0 degrees, as an angle

ASSUME RotHeadAssumption == {HeadErr, CrctErr} \subseteq Nat

VARIABLES
    goal,   \* the argument
    head    \* bot->head

rotHeadVars == <<goal, head>>

RotHeadInit(goals) == goal \in goals /\ head = theta

ud_head_NoOverride ==
    /\ pc = "update"
    /\ head' = NewHead(head, rps)
    /\ pc' = "decide"
    /\ UNCHANGED <<worldVars, motors, goal>>

ud_head ==
    /\ pc = "update"
    /\ head' = IF rps = RpsFailure THEN head ELSE NewHead(head, rps)
    /\ pc' = "decide"
    /\ UNCHANGED <<worldVars, motors, goal>>

Steer(diff, err) ==
    \/ diff > err /\ motors' = "left"
    \/ diff < -err /\ motors' = "right"

Near(diff, err) == diff <= err /\ diff >= -err

\* One iteration of rot_head's loop, up to its sleep, or the end.
RotHeadDecide ==
    /\ pc = "decide"
    /\ LET diff == HeadDiff(head, goal)
       IN  \/ Steer(diff, HeadErr) /\ pc' = "rest"
           \/ Near(diff, HeadErr) /\ motors' = "off" /\ pc' = "done"
    /\ UNCHANGED <<worldVars, rotHeadVars>>

\* One iteration of crct_head's loop, or the end.
CrctHeadDecide ==
    /\ pc = "crct_decide"
    /\ LET diff == HeadDiff(goal, rps)
       IN  \/ Steer(diff, CrctErr) /\ pc' = "crct_poll"
           \/ Near(diff, CrctErr) /\ motors' = "off" /\ pc' = "done"
    /\ UNCHANGED <<worldVars, rotHeadVars>>

RotHeadTick ==
    /\ pc \in {"rest", "crct_poll"}
    /\ WorldTick
    /\ pc' = IF pc = "rest" THEN "update" ELSE "crct_decide"
    /\ UNCHANGED <<motors, rotHeadVars>>

RotHeadNext == ud_head \/ RotHeadDecide \/ CrctHeadDecide \/ RotHeadTick

RotHeadTypeOK == goal \in Angle /\ head \in Angle
===============================================================================
