------------------------------- MODULE Straight -------------------------------
(***************************************************************************)
(* fwd_dist and bck_dist of src/src/movement.cpp: drive straight until an     *)
(* encoder has counted the distance.  fwd_dist rebalances the motors every   *)
(* 0.6 seconds by how far the robot has turned since it began; bck_dist      *)
(* every 50 ms by what the encoders have counted, and updates bot->head on   *)
(* the way (ud_head, whose two reads of the report are here one;             *)
(* HeadTracking separates them).                                             *)
(*                                                                          *)
(* A tick is one packet interval of the positioning system, or the Sleep of  *)
(* bck_dist.  The loop of fwd_dist runs many times within a tick, so the     *)
(* program always gets as far as it can before the next one.                 *)
(***************************************************************************)
EXTENDS Heading, Treads

CONSTANTS
    Programs,   \* those of "fwd_dist" and "bck_dist" that are run
    HeadErr,    \* HEAD_ERR, as an angle
    Period,     \* 0.6 seconds, in ticks
    Starts,     \* headings a run may start from
    Drifts,     \* how far a driving robot may turn in a tick
    Counts,     \* how many counts an encoder of a driving robot adds in a tick
    Stale,      \* what an encoder may hold from the call before
    MaxDrift,   \* bound: how far it turns from its first heading
    MaxOutage   \* how many ticks in a row the robot may be out of sight

ASSUME StraightAssumption ==
    /\ Programs \subseteq {"fwd_dist", "bck_dist"}
    /\ {HeadErr, MaxDrift, MaxOutage} \subseteq Nat
    /\ Period \in Nat \ {0}
    /\ Starts \subseteq Report
    /\ Drifts \subseteq -QuarterTurn..QuarterTurn
    /\ Counts \subseteq Nat \ {0} /\ Counts # {}
    /\ Stale \subseteq Nat

VARIABLES
    program,       \* which of the two functions runs
    heading,       \* the robot's heading, modulo half a turn
    drift,         \* how far it has turned since the drive began
    rps,           \* the last report
    outage,        \* ticks it has been RpsFailure
    head,          \* bot->head
    l_enc, r_enc,  \* encoder counts
    l_mot, r_mot,  \* powers the motors run at
    l_pwr, r_pwr,  \* powers the function wants
    orig_head,
    elapsed,       \* ticks since start_time, up to Period
    pc

worldVars == <<heading, drift, rps, outage>>
encVars == <<l_enc, r_enc>>
motVars == <<l_mot, r_mot>>
pwrVars == <<l_pwr, r_pwr>>
fwdVars == <<orig_head, elapsed>>
vars == <<program, worldVars, head, encVars, motVars, pwrVars, fwdVars, pc>>

\* LM_PWR_FW and RM_PWR_FW are the powers forward.
Sense == IF program = "fwd_dist" THEN 1 ELSE -1

\* bot->head is not initialised by main.cpp: it holds any heading.
Init ==
    /\ program \in Programs
    /\ heading \in Starts
    /\ drift = 0
    /\ rps \in IF MaxOutage = 0 THEN {heading} ELSE {heading, RpsFailure}
    /\ outage = 0
    /\ head \in {0, heading + HalfTurn}
    /\ l_enc \in Stale /\ r_enc \in Stale
    /\ l_mot = 0 /\ r_mot = 0
    /\ l_pwr = Sense * LM_PWR_FW /\ r_pwr = Sense * RM_PWR_FW
    /\ orig_head = 0
    /\ elapsed = 0
    /\ pc = "start"

Moving == l_mot # 0 \/ r_mot # 0

\* The program has nothing to do before the next packet, or the end of its sleep.
Blocked ==
    \/ pc = "waiting"
    \/ program = "fwd_dist" /\ pc \in {"start", "measure"} /\ rps = RpsFailure

Tick ==
    /\ Blocked
    /\ IF Moving
         THEN \E d \in Drifts, l \in Counts, r \in Counts :
                /\ Magnitude(drift + d) <= MaxDrift
                /\ drift' = drift + d
                /\ heading' = (heading + d) % HalfTurn
                /\ l_enc' = l_enc + l /\ r_enc' = r_enc + r
         ELSE UNCHANGED <<heading, drift, encVars>>
    /\ \/ rps' = heading' /\ outage' = 0
       \/ outage < MaxOutage /\ rps' = RpsFailure /\ outage' = outage + 1
    /\ elapsed' = IF elapsed = Period THEN Period ELSE elapsed + 1
    /\ pc' = IF pc # "waiting" THEN pc
             ELSE IF program = "fwd_dist" THEN "loop" ELSE "balance"
    /\ UNCHANGED <<program, head, motVars, pwrVars, orig_head>>

\* Both treads are short of their counts.
Short_UntilBoth == l_enc < l_tgt \/ r_enc < r_tgt
Short == l_enc < l_tgt /\ r_enc < r_tgt

ResetCounts == l_enc' = 0 /\ r_enc' = 0

-------------------------------------------------------------------------------
(***************************************************************************)
(* fwd_dist                                                                 *)
(***************************************************************************)
FwdBegin_KeepsCounts ==
    /\ program = "fwd_dist" /\ pc = "start"
    /\ rps # RpsFailure
    /\ orig_head' = rps
    /\ drift' = 0
    /\ pc' = "loop"
    /\ UNCHANGED <<program, heading, rps, outage, head, encVars, motVars, pwrVars, elapsed>>

FwdBegin_NoWait ==
    /\ program = "fwd_dist" /\ pc = "start"
    /\ orig_head' = rps
    /\ ResetCounts /\ drift' = 0
    /\ pc' = "loop"
    /\ UNCHANGED <<program, heading, rps, outage, head, motVars, pwrVars, elapsed>>

\* while ((orig_head = bot->rps->Heading()) == 0.0); and both ResetCounts.
FwdBegin ==
    /\ program = "fwd_dist" /\ pc = "start"
    /\ rps # RpsFailure
    /\ orig_head' = rps
    /\ ResetCounts /\ drift' = 0
    /\ pc' = "loop"
    /\ UNCHANGED <<program, heading, rps, outage, head, motVars, pwrVars, elapsed>>

FwdDrive ==
    /\ program = "fwd_dist" /\ pc = "loop" /\ Short
    /\ l_mot' = l_pwr /\ r_mot' = r_pwr
    /\ pc' = IF elapsed >= Period THEN "measure" ELSE "waiting"
    /\ UNCHANGED <<program, worldVars, head, encVars, pwrVars, fwdVars>>

HeadingShift_OneSided(diff) == IF diff < -HeadErr THEN -BLNC_FCTR ELSE 0

\* What a measured difference adds to the left power, and takes from the right.
HeadingShift(diff) ==
    CASE diff < -HeadErr -> -BLNC_FCTR
      [] diff > HeadErr -> BLNC_FCTR
      [] OTHER -> 0

Measure_KeepsTime ==
    /\ pc = "measure" /\ rps # RpsFailure
    /\ l_pwr' = l_pwr + HeadingShift(HeadDiff(orig_head, rps))
    /\ r_pwr' = r_pwr - HeadingShift(HeadDiff(orig_head, rps))
    /\ pc' = "loop"
    /\ UNCHANGED <<program, worldVars, head, encVars, motVars, orig_head, elapsed>>

\* while ((current_head = bot->rps->Heading()) == 0.0); with the motors running.
Measure ==
    /\ pc = "measure" /\ rps # RpsFailure
    /\ l_pwr' = l_pwr + HeadingShift(HeadDiff(orig_head, rps))
    /\ r_pwr' = r_pwr - HeadingShift(HeadDiff(orig_head, rps))
    /\ elapsed' = 0
    /\ pc' = "loop"
    /\ UNCHANGED <<program, worldVars, head, encVars, motVars, orig_head>>

-------------------------------------------------------------------------------
(***************************************************************************)
(* bck_dist                                                                 *)
(***************************************************************************)
ud_head == head' = IF rps = RpsFailure THEN head ELSE NewHead(head, rps)

BckBegin ==
    /\ program = "bck_dist" /\ pc = "start"
    /\ ud_head
    /\ ResetCounts /\ drift' = 0
    /\ pc' = "loop"
    /\ UNCHANGED <<program, heading, rps, outage, motVars, pwrVars, fwdVars>>

BckDrive ==
    /\ program = "bck_dist" /\ pc = "loop" /\ Short
    /\ l_mot' = l_pwr /\ r_mot' = r_pwr
    /\ pc' = "waiting"
    /\ UNCHANGED <<program, worldVars, head, encVars, pwrVars, fwdVars>>

\* What is added to the left power, and taken from the right: Counts() / l_tgt
\* and Counts() / r_tgt are divisions of ints.
CountShift ==
    LET l == l_enc \div l_tgt
        r == r_enc \div r_tgt
    IN  CASE l > r -> -BLNC_FCTR [] l < r -> BLNC_FCTR [] OTHER -> 0

Balance ==
    /\ pc = "balance"
    /\ ud_head
    /\ l_pwr' = l_pwr + CountShift /\ r_pwr' = r_pwr - CountShift
    /\ pc' = "loop"
    /\ UNCHANGED <<program, worldVars, encVars, motVars, fwdVars>>

-------------------------------------------------------------------------------
\* The loop of either function is over.
Stop ==
    /\ pc = "loop" /\ ~Short
    /\ l_mot' = 0 /\ r_mot' = 0
    /\ pc' = "done"
    /\ UNCHANGED <<program, worldVars, head, encVars, pwrVars, fwdVars>>

Next ==
    \/ Tick \/ Stop
    \/ FwdBegin \/ FwdDrive \/ Measure
    \/ BckBegin \/ BckDrive \/ Balance

Spec == Init /\ [][Next]_vars

\* A running robot's encoders count (every Tick adds), outages end by MaxOutage,
\* and the program runs.
FairSpec == Spec /\ WF_vars(Next)

-------------------------------------------------------------------------------
\* Every variable has its type; bot->head, which nothing initialises, stays a
\* heading of the full turn; and fwd_dist never measures against the heading 0
\* that stands for a failed report.
TypeOK ==
    /\ program \in Programs
    /\ heading \in Report /\ rps \in Report /\ orig_head \in Report
    /\ drift \in Int
    /\ outage \in 0..MaxOutage
    /\ head \in Angle
    /\ l_enc \in Nat /\ r_enc \in Nat
    /\ {l_mot, r_mot, l_pwr, r_pwr} \subseteq Int
    /\ elapsed \in 0..Period
    /\ pc \in {"start", "loop", "waiting", "measure", "balance", "done"}
    /\ program = "fwd_dist" /\ pc # "start" => orig_head # RpsFailure

\* The ticks a function may let pass without a look at the encoders: one, or, as
\* fwd_dist waits for a report, as many as the robot is out of sight.
Blind == IF program = "bck_dist" \/ MaxOutage = 0 THEN 1 ELSE MaxOutage

\* "Move forward until robot reaches desired distance", and the same backward:
\* the motors stop, and no encoder is further past its count than it gets while
\* the function is blind.
StopsAtDistance ==
    pc = "done" =>
        /\ ~Moving
        /\ l_enc >= l_tgt \/ r_enc >= r_tgt
        /\ \E c \in Counts : l_enc < l_tgt + Blind * c
        /\ \E c \in Counts : r_enc < r_tgt + Blind * c

\* "If left is faster than right, attempt to correct this", and the other way
\* round: a correction slows the motor on the side the robot turns away from.
\* Headings grow counterclockwise, powers forward are negative.
CorrectsTheDrift ==
    [][ program = "fwd_dist" =>
          /\ l_pwr' > l_pwr => drift < 0
          /\ l_pwr' < l_pwr => drift > 0 ]_vars

\* A drift beyond HEAD_ERR is corrected when it is measured (179.9 for 180 makes
\* the measure coarser by the smallest angle).
MeasuresTheDrift ==
    [][ Measure /\ Magnitude(drift) > HeadErr + 1 => pwrVars' # pwrVars ]_vars

\* "Check if one motor is outpacing another", "attempt to correct this by applying a
\* balancing factor": when bck_dist has looked, and one tread is at least twice as
\* far on its way as the other, the powers are changed.
BalancesTheTreads ==
    [][ Balance /\ (\/ l_enc * r_tgt >= 2 * r_enc * l_tgt
                    \/ r_enc * l_tgt >= 2 * l_enc * r_tgt) => pwrVars' # pwrVars ]_vars

\* The powers move away from LM_PWR_FW and RM_PWR_FW by one factor for each 0.6
\* seconds driven, and one for the time before the drive: a tick of a running
\* robot counts at least one link.  How far the corrections can go, in the motors'
\* range or beyond, is thereby limited by the length of the drive.
CorrectionsPaced ==
    program = "fwd_dist" =>
        Magnitude(l_pwr - LM_PWR_FW) * Period
            <= Magnitude(BLNC_FCTR) * (Period + IF pc = "start" THEN 0 ELSE l_enc)

\* Either function implements Drive: its targets are reached from zero, whatever
\* the encoders held, the motors run only during the call, and the call ends,
\* forward and backward, out of sight or not.
Contract == INSTANCE Drive WITH
                stage  <- CASE pc = "start" -> "called"
                            [] pc = "done" -> "returned"
                            [] OTHER -> "driving",
                moving <- Moving

DriveContract == Contract!Spec
===============================================================================
