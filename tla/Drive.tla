--------------------------------- MODULE Drive ---------------------------------
(***************************************************************************)
(* What fwd_dist and bck_dist both promise to the script that calls them:   *)
(* the drive starts from counts of zero, the robot moves only while the     *)
(* function runs, it goes on until one of the treads has counted its        *)
(* target, and then it stands still and the call is over.  Nothing is said  *)
(* of headings, corrections or waits.  Straight implements this.            *)
(***************************************************************************)
EXTENDS Treads

CONSTANT Counts   \* how many counts an encoder of a driving robot adds at a time

VARIABLES
    stage,          \* of the call: "called", "driving" or "returned"
    moving,         \* whether a motor runs
    l_enc, r_enc

driveVars == <<stage, moving, l_enc, r_enc>>

Short == l_enc < l_tgt /\ r_enc < r_tgt

Init ==
    /\ stage = "called" /\ ~moving
    /\ l_enc \in Nat /\ r_enc \in Nat

Start ==
    /\ stage = "called" /\ stage' = "driving"
    /\ l_enc' = 0 /\ r_enc' = 0
    /\ UNCHANGED moving

Go ==
    /\ stage = "driving" /\ Short
    /\ ~moving /\ moving'
    /\ UNCHANGED <<stage, l_enc, r_enc>>

Travel ==
    /\ stage = "driving" /\ moving
    /\ \E l, r \in Counts : l_enc' = l_enc + l /\ r_enc' = r_enc + r
    /\ UNCHANGED <<stage, moving>>

Stop ==
    /\ stage = "driving" /\ ~Short
    /\ stage' = "returned" /\ ~moving'
    /\ UNCHANGED <<l_enc, r_enc>>

Next == Start \/ Go \/ Travel \/ Stop

Safety == Init /\ [][Next]_driveVars

\* Every call returns.
Returns == stage = "called" ~> stage = "returned"

Spec == Safety /\ Returns
===============================================================================
