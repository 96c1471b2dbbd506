----------------------------- MODULE HeadTracking -----------------------------
(***************************************************************************)
(* ud_head of src/src/movement.cpp: the robot keeps its heading over a full  *)
(* turn (bot->head) from reports that cover half of one.  The report is read *)
(* twice, once for its value and once to see whether it is RpsFailure, and   *)
(* packets arrive between the two.                                           *)
(***************************************************************************)
EXTENDS Heading

CONSTANTS
    Starts,    \* the headings a run may start from
    Moves,     \* how far the robot turns between two packets
    MaxStray,  \* the caller calls ud_head before turning further than this
    Steady     \* TRUE: no packet arrives between the two reads

ASSUME TrackingAssumption ==
    /\ Starts \subseteq Angle
    /\ Moves \subseteq -QuarterTurn..QuarterTurn
    /\ MaxStray \in Nat /\ 2 * MaxStray < 45 * Degree
    /\ Steady \in BOOLEAN

VARIABLES
    facing,  \* the robot's true heading
    report,  \* _WONKA_heading, the last report
    stored,  \* bot->head
    raw,     \* raw_head
    call     \* "out", or "checking" between the two reads of ud_head

trackingVars == <<facing, report, stored, raw, call>>

TrackingInit ==
    /\ facing \in Starts
    /\ report = Reading(facing)
    /\ stored = facing
    /\ raw = 0
    /\ call = "out"

Error == Magnitude(Turn(stored, facing, FullTurn))

Normal(a) == CASE a < 0 -> a + FullTurn [] a >= FullTurn -> a - FullTurn [] OTHER -> a

\* The robot turns a little, and the transmitter reports it, or that it cannot
\* see it.  The caller keeps the promise ud_head asks for: MaxStray.
Packet ==
    /\ Steady => call = "out"
    /\ \E m \in Moves : facing' = Normal(facing + m)
    /\ Magnitude(Turn(stored, facing', FullTurn)) <= MaxStray
    /\ report' \in {Reading(facing'), RpsFailure}
    /\ UNCHANGED <<stored, raw, call>>

ud_head_read ==
    /\ call = "out"
    /\ raw' = report
    /\ call' = "checking"
    /\ UNCHANGED <<facing, report, stored>>

ud_head_store ==
    /\ call = "checking"
    /\ stored' = IF report = RpsFailure THEN stored ELSE NewHead(stored, raw)
    /\ call' = "out"
    /\ UNCHANGED <<facing, report, raw>>

TrackingNext == Packet \/ ud_head_read \/ ud_head_store

TrackingSpec == TrackingInit /\ [][TrackingNext]_trackingVars

-------------------------------------------------------------------------------
\* Every variable has its type; the stored heading stays one of a full turn
\* although ud_head adds half a turn to what it reads.
TrackingTypeOK ==
    /\ facing \in Angle /\ stored \in Angle
    /\ report \in Report /\ raw \in Report
    /\ call \in {"out", "checking"}

\* "Remains accurate and accounts for looping RPS value": the stored heading is
\* never further from the true one than the robot turned since the last call.
StaysAccurate == Error <= MaxStray
===============================================================================
