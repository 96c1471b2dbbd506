--------------------------- MODULE Straight_proofs ----------------------------
(***************************************************************************)
(* What fwd_dist and bck_dist of src/src/movement.cpp guarantee, for every   *)
(* distance, every behaviour of the robot and the encoders, and every        *)
(* outage of the positioning system.                                         *)
(***************************************************************************)
EXTENDS Straight, Heading_proofs

-------------------------------------------------------------------------------
(***************************************************************************)
(* Arithmetic                                                               *)
(***************************************************************************)
LEMMA Targets == l_tgt \in Nat /\ r_tgt \in Nat
  BY DistanceAssumption DEF l_tgt, r_tgt, l_tgt_cts, r_tgt_cts

LEMMA QuotientOfShort == ASSUME NEW a \in Nat, NEW b \in Nat, a < b PROVE a \div b = 0
  OBVIOUS

LEMMA Powers ==
    /\ BLNC_FCTR = -7 /\ -BLNC_FCTR = 7
    /\ LM_PWR_FW = -96 /\ -LM_PWR_FW = 96
    /\ RM_PWR_FW = -90 /\ -RM_PWR_FW = 90
  <1>1. \A x \in Int : (x + 7 = 0 => -x = 7) /\ (x + 90 = 0 => -x = 90) /\ (x + 96 = 0 => -x = 96)
    OBVIOUS
  <1>2. BLNC_FCTR \in Int /\ BLNC_FCTR + 7 = 0 /\ BLNC_FCTR = -7
    BY DEF BLNC_FCTR
  <1>3. LM_PWR_FW \in Int /\ LM_PWR_FW + 96 = 0 /\ LM_PWR_FW = -96
    BY DEF LM_PWR_FW
  <1>4. RM_PWR_FW \in Int /\ RM_PWR_FW + 90 = 0 /\ RM_PWR_FW = -90
    BY DEF RM_PWR_FW
  <1>5. -BLNC_FCTR = 7
    BY <1>1, <1>2
  <1>6. -LM_PWR_FW = 96
    BY <1>1, <1>3
  <1>7. -RM_PWR_FW = 90
    BY <1>1, <1>4
  <1>. QED  BY <1>2, <1>3, <1>4, <1>5, <1>6, <1>7

LEMMA ShiftValues == \A diff \in Int : HeadingShift(diff) \in {-7, 0, 7}
  <1> SUFFICES ASSUME NEW diff \in Int PROVE HeadingShift(diff) \in {-7, 0, 7}
    OBVIOUS
  <1>1. CASE diff < -HeadErr
    BY <1>1, Powers DEF HeadingShift
  <1>2. CASE ~(diff < -HeadErr) /\ diff > HeadErr
    BY <1>2, Powers DEF HeadingShift
  <1>3. CASE ~(diff < -HeadErr) /\ ~(diff > HeadErr)
    BY <1>3, Powers DEF HeadingShift
  <1>. QED  BY <1>1, <1>2, <1>3

\* What bck_dist's rebalancing can add; nothing, short of the target.
LEMMA CountShiftValues ==
    ASSUME TypeOK, l_tgt > 0, r_tgt > 0
    PROVE  /\ CountShift \in {-7, 0, 7}
           /\ Short => CountShift = 0
  <1>1. l_enc \div l_tgt \in Int /\ r_enc \div r_tgt \in Int
    BY Targets DEF TypeOK
  <1>2. CountShift \in {-7, 0, 7}
    <2>1. CountShift = -BLNC_FCTR \/ CountShift = BLNC_FCTR \/ CountShift = 0
      BY <1>1 DEF CountShift
    <2>. QED  BY <2>1, Powers
  <1>3. ASSUME Short PROVE CountShift = 0
    <2>1. l_enc \div l_tgt = 0 /\ r_enc \div r_tgt = 0
      BY <1>3, Targets, QuotientOfShort DEF TypeOK, Short
    <2>. QED  BY <2>1 DEF CountShift
  <1>. QED  BY <1>2, <1>3

LEMMA Paced ==
    ASSUME NEW p \in Int, NEW e \in Int, NEW f \in Int, NEW l \in Int, NEW m \in Int,
           f <= e + 1, m >= l + 1
    PROVE  7 * (p - e + l) <= 7 * (p - f + m)
  OBVIOUS

LEMMA MagnitudeOfSum ==
    ASSUME NEW a \in Int, NEW s \in {-7, 0, 7}
    PROVE  /\ Magnitude(a) \in Nat
           /\ Magnitude(a + s) <= Magnitude(a) + 7
  BY DEF Magnitude

USE StraightAssumption

\* One more tick of counts on top of n of them.
LEMMA OneMoreTick ==
    ASSUME NEW n \in Nat, NEW c \in Counts, NEW l \in Counts, NEW e \in Nat, NEW t \in Nat,
           e < t + n * c
    PROVE  \E m \in Counts : e + l < t + (n + 1) * m
  <1>1. c \in Nat /\ l \in Nat
    OBVIOUS
  <1>2. CASE l <= c
    <2>1. (n + 1) * c = n * c + c /\ n * c \in Nat
      BY <1>1
    <2>. QED  BY <1>1, <1>2, <2>1
  <1>3. CASE l > c
    <2>1. (n + 1) * l = n * l + l /\ n * l \in Nat /\ n * c \in Nat
      BY <1>1
    <2>2. n * c <= n * l
      BY <1>1, <1>3
    <2>3. e + l < t + (n + 1) * l
      BY <1>1, <2>1, <2>2
    <2>. QED  BY <2>3
  <1>. QED  BY <1>1, <1>2, <1>3

LEMMA Product == ASSUME NEW a \in Nat, NEW b \in Nat, a >= 1, b >= 1 PROVE a * b >= 1 /\ a * b \in Nat
  OBVIOUS

\* A bound that holds for n ticks holds for as many or more.
LEMMA MoreTicks ==
    ASSUME NEW n \in Nat, NEW k \in Nat, n <= k, NEW c \in Counts, NEW e \in Nat, NEW t \in Nat,
           e < t + n * c
    PROVE  e < t + k * c
  <1>1. n * c <= k * c /\ n * c \in Nat /\ k * c \in Nat
    OBVIOUS
  <1>. QED  BY <1>1

-------------------------------------------------------------------------------
(***************************************************************************)
(* The inductive invariant                                                  *)
(***************************************************************************)
\* The motors run from the first pass of the loop to its end: no correction
\* brings a power to zero, which is no multiple of 7 away from -96.
MotorsInv ==
    /\ (l_pwr + 96) % 7 = 0 \/ (l_pwr - 96) % 7 = 0
    /\ pc = "start" \/ pc = "done" => ~Moving
    /\ pc \in {"waiting", "measure", "balance"} => Moving

\* bck_dist: the powers are changed only when the loop is over.
BackwardInv ==
    program = "bck_dist" =>
        /\ pc # "measure"
        /\ pc \in {"waiting", "balance"} => l_tgt > 0 /\ r_tgt > 0
        /\ ~(pc \in {"loop", "done"} /\ ~Short) => l_pwr = 96 /\ r_pwr = 90
        /\ l_mot \in {0, 96} /\ r_mot \in {0, 90}

\* fwd_dist: the corrections made, and the part of the next period that has passed.
PaceInv ==
    program = "fwd_dist" =>
        /\ pc # "balance"
        /\ pc = "measure" => elapsed = Period
        /\ pc # "start" => Magnitude(l_pwr + 96) * Period <= 7 * (Period - elapsed + l_enc)
        /\ pc = "start" => l_pwr = -96

Inv == TypeOK /\ MotorsInv /\ BackwardInv /\ PaceInv

LEMMA InitInv == Init => Inv
  <1> SUFFICES ASSUME Init PROVE Inv
    OBVIOUS
  <1>1. /\ l_pwr \in Int /\ r_pwr \in Int
        /\ program = "fwd_dist" => l_pwr = -96 /\ r_pwr = -90
        /\ program = "bck_dist" => l_pwr = 96 /\ r_pwr = 90
        /\ program = "fwd_dist" \/ program = "bck_dist"
    BY Powers DEF Init, Sense
  <1>2. TypeOK
    <2>1. heading \in Report /\ rps \in Report /\ orig_head \in Report /\ head \in Angle
      BY Units DEF Init, Report, Angle, RpsFailure
    <2>2. program \in Programs /\ drift \in Int /\ outage \in 0..MaxOutage
          /\ l_enc \in Nat /\ r_enc \in Nat /\ elapsed \in 0..Period
      BY DEF Init
    <2>. QED  BY <1>1, <2>1, <2>2 DEF Init, TypeOK
  <1>3. MotorsInv
    BY <1>1 DEF Init, MotorsInv, Moving
  <1>4. BackwardInv
    BY <1>1 DEF Init, BackwardInv
  <1>5. PaceInv
    <2>1. program = "fwd_dist" => Magnitude(l_pwr + 96) = 0
      BY <1>1 DEF Magnitude
    <2>. QED  BY <1>1, <2>1 DEF Init, PaceInv
  <1>. QED  BY <1>2, <1>3, <1>4, <1>5 DEF Inv

\* A tick of a running robot adds to both counts; nothing else moves them but a start.
LEMMA TickFacts ==
    ASSUME Inv, Tick
    PROVE  /\ program' = program /\ head' = head /\ orig_head' = orig_head
           /\ l_mot' = l_mot /\ r_mot' = r_mot /\ l_pwr' = l_pwr /\ r_pwr' = r_pwr
           /\ elapsed' \in 0..Period /\ elapsed' <= elapsed + 1
           /\ pc = "measure" => elapsed' = elapsed
           /\ pc = "start" => l_enc' = l_enc /\ r_enc' = r_enc /\ pc' = "start" /\ ~Moving
           /\ pc # "start" =>
                /\ Moving
                /\ \E l, r \in Counts : l_enc' = l_enc + l /\ r_enc' = r_enc + r
           /\ pc = "measure" => pc' = pc
           /\ pc = "waiting" => pc' = IF program = "fwd_dist" THEN "loop" ELSE "balance"
           /\ pc \in {"start", "measure", "waiting"}
  <1>1. pc \in {"start", "measure", "waiting"}
    BY DEF Tick, Blocked
  <1>2. /\ program' = program /\ head' = head /\ orig_head' = orig_head
        /\ l_mot' = l_mot /\ r_mot' = r_mot /\ l_pwr' = l_pwr /\ r_pwr' = r_pwr
    BY DEF Tick, motVars, pwrVars
  <1>3. /\ elapsed' \in 0..Period /\ elapsed' <= elapsed + 1
        /\ pc = "measure" => elapsed' = elapsed
    <2>1. elapsed' = IF elapsed = Period THEN Period ELSE elapsed + 1
      BY DEF Tick
    <2>2. pc = "measure" => elapsed = Period
      BY <1>1 DEF Inv, TypeOK, BackwardInv, PaceInv
    <2>. QED  BY <2>1, <2>2 DEF Inv, TypeOK
  <1>4. /\ pc = "measure" => pc' = pc
        /\ pc = "start" => pc' = pc
        /\ pc = "waiting" => pc' = IF program = "fwd_dist" THEN "loop" ELSE "balance"
    <2>1. pc' = IF pc # "waiting" THEN pc
                ELSE IF program = "fwd_dist" THEN "loop" ELSE "balance"
      BY DEF Tick
    <2>. QED  BY <1>1, <2>1
  <1>5. pc = "start" => l_enc' = l_enc /\ r_enc' = r_enc /\ ~Moving
    BY DEF Tick, encVars, Inv, MotorsInv
  <1>6. pc # "start" => Moving
    BY <1>1 DEF Inv, MotorsInv
  <1>7. Moving => \E l, r \in Counts : l_enc' = l_enc + l /\ r_enc' = r_enc + r
    BY DEF Tick
  <1>. QED  BY <1>1, <1>2, <1>3, <1>4, <1>5, <1>6, <1>7

LEMMA TickInv == ASSUME Inv, Tick PROVE Inv'
  <1>1. TypeOK'
    <2>1. heading' \in Report /\ drift' \in Int
      <3>1. CASE Moving
        <4>1. PICK d \in Drifts : drift' = drift + d /\ heading' = (heading + d) % HalfTurn
          BY <3>1 DEF Tick
        <4>2. d \in Int /\ drift \in Int /\ heading \in Int
          BY Units DEF Inv, TypeOK, Report
        <4>3. (heading + d) % HalfTurn \in 0..HalfTurn-1
          BY <4>2, Units, Remainder
        <4>. QED  BY <4>1, <4>2, <4>3 DEF Report
      <3>2. CASE ~Moving
        BY <3>2 DEF Tick, Inv, TypeOK
      <3>. QED  BY <3>1, <3>2
    <2>2. rps' \in Report /\ outage' \in 0..MaxOutage
      BY <2>1, Units DEF Tick, Inv, TypeOK, Report, RpsFailure
    <2>3. l_enc' \in Nat /\ r_enc' \in Nat
      BY TickFacts DEF Inv, TypeOK
    <2>4. pc' \in {"start", "loop", "waiting", "measure", "balance", "done"}
          /\ (program' = "fwd_dist" /\ pc' # "start" => orig_head' # RpsFailure)
      BY TickFacts DEF Inv, TypeOK
    <2>. QED  BY <2>1, <2>2, <2>3, <2>4, TickFacts DEF Inv, TypeOK
  <1>2. MotorsInv'
    BY TickFacts DEF Inv, MotorsInv, Moving
  <1>3. BackwardInv'
    BY TickFacts DEF Inv, BackwardInv, Short, TypeOK, l_tgt, r_tgt
  <1>4. PaceInv'
    <2> SUFFICES ASSUME program = "fwd_dist" PROVE PaceInv'
      BY TickFacts DEF PaceInv
    <2>0. /\ elapsed \in Nat /\ elapsed' \in Nat /\ l_enc \in Nat /\ l_enc' \in Nat
          /\ elapsed' <= elapsed + 1 /\ Period \in Nat
      BY <1>1, TickFacts DEF Inv, TypeOK
    <2>1. pc' # "balance" /\ (pc' = "measure" => elapsed' = Period)
      BY TickFacts DEF Inv, PaceInv
    <2>2. pc' = "start" <=> pc = "start"
      BY TickFacts
    <2>3. pc # "start" => l_enc' >= l_enc + 1
      BY <2>0, TickFacts
    <2>4. pc # "start" => Magnitude(l_pwr + 96) * Period <= 7 * (Period - elapsed + l_enc)
      BY DEF Inv, PaceInv
    <2>5. pc # "start" => 7 * (Period - elapsed + l_enc) <= 7 * (Period - elapsed' + l_enc')
      <3>1. /\ Period \in Int /\ elapsed \in Int /\ elapsed' \in Int
            /\ l_enc \in Int /\ l_enc' \in Int
        BY <2>0
      <3>. QED  BY <2>0, <2>3, <3>1, Paced
    <2>6. Magnitude(l_pwr + 96) * Period \in Int
      <3>1. Magnitude(l_pwr + 96) \in Int
        BY DEF Inv, TypeOK, Magnitude
      <3>. QED  BY <2>0, <3>1
    <2>7. pc' # "start" => Magnitude(l_pwr' + 96) * Period <= 7 * (Period - elapsed' + l_enc')
      BY <2>0, <2>2, <2>4, <2>5, <2>6, TickFacts
    <2>8. pc' = "start" => l_pwr' = -96
      BY <2>2, TickFacts DEF Inv, PaceInv
    <2>. QED  BY <2>1, <2>7, <2>8 DEF PaceInv
  <1>. QED  BY <1>1, <1>2, <1>3, <1>4 DEF Inv

\* Either function enters its loop with the powers of a straight drive.
LEMMA BeginInv == ASSUME Inv, FwdBegin \/ BckBegin PROVE Inv'
  <1>1. /\ program' = program /\ heading' = heading /\ rps' = rps /\ outage' = outage
        /\ l_mot' = l_mot /\ r_mot' = r_mot /\ l_pwr' = l_pwr /\ r_pwr' = r_pwr
        /\ elapsed' = elapsed /\ drift' = 0 /\ l_enc' = 0 /\ r_enc' = 0
        /\ pc = "start" /\ pc' = "loop"
    BY DEF FwdBegin, BckBegin, ResetCounts, motVars, pwrVars, fwdVars
  <1>2. orig_head' \in Report /\ head' \in Angle
        /\ (program' = "fwd_dist" /\ pc' # "start" => orig_head' # RpsFailure)
    <2>1. CASE FwdBegin
      BY <2>1 DEF FwdBegin, Inv, TypeOK
    <2>2. CASE BckBegin
      BY <2>2, NewHeadType DEF BckBegin, ud_head, fwdVars, Inv, TypeOK
    <2>. QED  BY <2>1, <2>2
  <1>3. TypeOK'
    BY <1>1, <1>2 DEF Inv, TypeOK
  <1>4. MotorsInv'
    BY <1>1 DEF Inv, MotorsInv, Moving
  <1>5. BackwardInv'
    BY <1>1 DEF Inv, BackwardInv, Short
  <1>6. PaceInv'
    <2> SUFFICES ASSUME program = "fwd_dist" PROVE PaceInv'
      BY <1>1 DEF PaceInv
    <2>1. l_pwr' = -96
      BY <1>1 DEF Inv, PaceInv
    <2>2. Magnitude(l_pwr' + 96) * Period = 0
      <3>1. Magnitude(l_pwr' + 96) = 0 /\ Period \in Nat
        BY <2>1 DEF Magnitude
      <3>. QED  BY <3>1
    <2>. QED  BY <1>1, <1>3, <2>1, <2>2 DEF PaceInv, TypeOK
  <1>. QED  BY <1>3, <1>4, <1>5, <1>6 DEF Inv

LEMMA DriveInv == ASSUME Inv, FwdDrive \/ BckDrive PROVE Inv'
  <1>1. /\ program' = program /\ heading' = heading /\ drift' = drift /\ rps' = rps
        /\ outage' = outage /\ head' = head /\ l_enc' = l_enc /\ r_enc' = r_enc
        /\ l_pwr' = l_pwr /\ r_pwr' = r_pwr /\ l_mot' = l_pwr /\ r_mot' = r_pwr
        /\ orig_head' = orig_head /\ elapsed' = elapsed
        /\ pc = "loop" /\ Short /\ pc' \in {"waiting", "measure"}
        /\ program = "bck_dist" => pc' = "waiting"
        /\ pc' = "measure" => elapsed >= Period
    BY DEF FwdDrive, BckDrive, worldVars, encVars, pwrVars, fwdVars
  <1>2. TypeOK'
    BY <1>1 DEF Inv, TypeOK
  <1>3. MotorsInv'
    <2>1. l_pwr # 0
      BY DEF Inv, TypeOK, MotorsInv
    <2>. QED  BY <1>1, <2>1 DEF Inv, MotorsInv, Moving
  <1>4. BackwardInv'
    <2>1. l_tgt > 0 /\ r_tgt > 0
      BY <1>1, Targets DEF Inv, TypeOK, Short
    <2>2. Short' = Short
      BY <1>1 DEF Short, l_tgt, r_tgt
    <2>. QED  BY <1>1, <2>1, <2>2 DEF Inv, BackwardInv, l_tgt, r_tgt
  <1>5. PaceInv'
    <2>1. pc' = "measure" => elapsed' = Period
      BY <1>1 DEF Inv, TypeOK
    <2>. QED  BY <1>1, <2>1 DEF Inv, PaceInv
  <1>. QED  BY <1>2, <1>3, <1>4, <1>5 DEF Inv

\* A correction is made once a period at most.
LEMMA MeasureInv == ASSUME Inv, Measure PROVE Inv'
  <1> DEFINE shift == HeadingShift(HeadDiff(orig_head, rps))
  <1>1. /\ program' = program /\ heading' = heading /\ drift' = drift /\ rps' = rps
        /\ outage' = outage /\ head' = head /\ l_enc' = l_enc /\ r_enc' = r_enc
        /\ l_mot' = l_mot /\ r_mot' = r_mot /\ orig_head' = orig_head
        /\ l_pwr' = l_pwr + shift /\ r_pwr' = r_pwr - shift
        /\ elapsed' = 0 /\ pc = "measure" /\ pc' = "loop"
    BY DEF Measure, worldVars, encVars, motVars
  <1>2. shift \in {-7, 0, 7}
    <2>1. orig_head \in Int /\ rps \in Int
      BY Units DEF Inv, TypeOK, Report
    <2>. QED  BY <2>1, HeadDiffType, ShiftValues
  <1>3. program = "fwd_dist"
    BY <1>1 DEF Inv, TypeOK, BackwardInv
  <1>4. TypeOK'
    BY <1>1, <1>2 DEF Inv, TypeOK
  <1>5. MotorsInv'
    BY <1>1, <1>2 DEF Inv, TypeOK, MotorsInv, Moving
  <1>6. BackwardInv'
    BY <1>1, <1>3 DEF BackwardInv
  <1>7. PaceInv'
    <2> DEFINE d == Magnitude(l_pwr + 96)
               e == Magnitude(l_pwr' + 96)
    <2>1. /\ d \in Nat /\ e \in Nat /\ e <= d + 7
          /\ Period \in Nat /\ l_enc \in Nat /\ elapsed = Period
      <3>1. l_pwr \in Int /\ l_pwr' \in Int /\ l_enc \in Nat
        BY <1>4 DEF Inv, TypeOK
      <3>2. (l_pwr + 96) + shift = l_pwr' + 96 /\ l_pwr + 96 \in Int
        BY <1>1, <1>2, <3>1
      <3>3. d \in Nat /\ e <= d + 7
        BY <1>2, <3>2, MagnitudeOfSum
      <3>4. e \in Nat
        <4>1. l_pwr' + 96 \in Int /\ 0 \in {-7, 0, 7}
          BY <3>1
        <4>. QED  BY <4>1, MagnitudeOfSum
      <3>. QED  BY <1>1, <1>3, <3>1, <3>3, <3>4 DEF Inv, PaceInv
    <2>2. d * Period <= 7 * l_enc
      <3>1. d * Period <= 7 * (Period - elapsed + l_enc)
        BY <1>1, <1>3 DEF Inv, PaceInv
      <3>. QED  BY <2>1, <3>1
    <2>3. e * Period <= d * Period + 7 * Period
      <3>1. (d + 7) * Period = d * Period + 7 * Period
        BY <2>1
      <3>2. e * Period <= (d + 7) * Period
        BY <2>1
      <3>. QED  BY <3>1, <3>2
    <2>4. e * Period <= 7 * (Period - 0 + l_enc)
      <3>1. e * Period \in Nat /\ d * Period \in Nat
        BY <2>1
      <3>. QED  BY <2>1, <2>2, <2>3, <3>1
    <2>. QED  BY <1>1, <2>4 DEF PaceInv
  <1>. QED  BY <1>4, <1>5, <1>6, <1>7 DEF Inv

LEMMA BalanceInv == ASSUME Inv, Balance PROVE Inv'
  <1>1. /\ program' = program /\ heading' = heading /\ drift' = drift /\ rps' = rps
        /\ outage' = outage /\ l_enc' = l_enc /\ r_enc' = r_enc
        /\ l_mot' = l_mot /\ r_mot' = r_mot /\ orig_head' = orig_head
        /\ l_pwr' = l_pwr + CountShift /\ r_pwr' = r_pwr - CountShift
        /\ elapsed' = elapsed /\ pc = "balance" /\ pc' = "loop"
    BY DEF Balance, worldVars, encVars, motVars, fwdVars
  <1>2. program = "bck_dist"
    BY <1>1 DEF Inv, TypeOK, PaceInv
  <1>3. l_tgt > 0 /\ r_tgt > 0 /\ l_pwr = 96 /\ r_pwr = 90
    BY <1>1, <1>2 DEF Inv, BackwardInv
  <1>4. CountShift \in {-7, 0, 7} /\ (Short => CountShift = 0)
    BY <1>3, CountShiftValues DEF Inv
  <1>5. TypeOK'
    <2>1. head' \in Angle
      BY NewHeadType DEF Balance, ud_head, Inv, TypeOK
    <2>. QED  BY <1>1, <1>3, <1>4, <2>1 DEF Inv, TypeOK
  <1>6. MotorsInv'
    BY <1>1, <1>3, <1>4 DEF Inv, MotorsInv, Moving
  <1>7. BackwardInv'
    <2>1. Short' = Short
      BY <1>1 DEF Short, l_tgt, r_tgt
    <2>. QED  BY <1>1, <1>2, <1>3, <1>4, <2>1 DEF Inv, BackwardInv
  <1>8. PaceInv'
    BY <1>1, <1>2 DEF PaceInv
  <1>. QED  BY <1>5, <1>6, <1>7, <1>8 DEF Inv

LEMMA StopInv == ASSUME Inv, Stop PROVE Inv'
  <1>1. /\ program' = program /\ heading' = heading /\ drift' = drift /\ rps' = rps
        /\ outage' = outage /\ head' = head /\ l_enc' = l_enc /\ r_enc' = r_enc
        /\ l_pwr' = l_pwr /\ r_pwr' = r_pwr /\ l_mot' = 0 /\ r_mot' = 0
        /\ orig_head' = orig_head /\ elapsed' = elapsed
        /\ pc = "loop" /\ ~Short /\ pc' = "done"
    BY DEF Stop, worldVars, encVars, pwrVars, fwdVars
  <1>2. Short' = Short
    BY <1>1 DEF Short, l_tgt, r_tgt
  <1>. QED  BY <1>1, <1>2 DEF Inv, TypeOK, MotorsInv, Moving, BackwardInv, PaceInv

LEMMA NextInv == ASSUME Inv, [Next]_vars PROVE Inv'
  <1>1. CASE UNCHANGED vars
    BY <1>1 DEF Inv, TypeOK, MotorsInv, Moving, BackwardInv, Short, PaceInv, vars, worldVars,
                encVars, motVars, pwrVars, fwdVars, l_tgt, r_tgt
  <1>. QED  BY <1>1, TickInv, BeginInv, DriveInv, MeasureInv, BalanceInv, StopInv DEF Next

THEOREM Invariance == Spec => []Inv
  <1>1. Inv /\ [Next]_vars => Inv'
    BY NextInv
  <1>. QED  BY InitInv, <1>1, PTL DEF Spec

\* Whatever the reports and the outages, the drives keep their types: the heading
\* stored for the robot is one, and no drift is measured against a failed report.
THEOREM TypeCorrect == Spec => []TypeOK
  <1>1. Inv => TypeOK
    BY DEF Inv
  <1>. QED  BY <1>1, Invariance, PTL

\* However far one tread outpaces the other, bck_dist never runs a motor at
\* another power than the one it started with.
NeverRebalanced ==
    program = "bck_dist" => l_mot \in {0, -LM_PWR_FW} /\ r_mot \in {0, -RM_PWR_FW}

\* Why BalancesTheTreads fails, and that it does at every distance and with any
\* treads: what the loop compares, by dividing ints, is which of them have reached
\* their target, and once one has the loop is over.
THEOREM BackwardNeverRebalanced == Spec => []NeverRebalanced
  <1>1. Inv => NeverRebalanced
    BY Powers DEF Inv, BackwardInv, NeverRebalanced
  <1>. QED  BY <1>1, Invariance, PTL

\* The corrections of fwd_dist grow with the length of the drive and no faster.
THEOREM CorrectionsArePaced == Spec => []CorrectionsPaced
  <1>1. Inv => CorrectionsPaced
    <2> SUFFICES ASSUME Inv, program = "fwd_dist" PROVE CorrectionsPaced
      BY DEF CorrectionsPaced
    <2>1. /\ LM_PWR_FW = -96 /\ Magnitude(BLNC_FCTR) = 7 /\ l_pwr \in Int /\ l_enc \in Nat
          /\ Period \in Nat /\ elapsed \in 0..Period
      BY Powers DEF Magnitude, Inv, TypeOK
    <2>2. l_pwr - LM_PWR_FW = l_pwr + 96
      BY <2>1
    <2>3. CASE pc = "start"
      <3>1. Magnitude(l_pwr + 96) = 0
        BY <2>3 DEF Inv, PaceInv, Magnitude
      <3>. QED  BY <2>1, <2>2, <2>3, <3>1 DEF CorrectionsPaced
    <2>4. CASE pc # "start"
      <3>1. Magnitude(l_pwr + 96) * Period <= 7 * (Period - elapsed + l_enc)
        BY <2>4 DEF Inv, PaceInv
      <3>2. Magnitude(l_pwr + 96) \in Int
        BY <2>1 DEF Magnitude
      <3>3. Magnitude(l_pwr + 96) * Period \in Int
        BY <2>1, <3>2
      <3>4. Magnitude(l_pwr + 96) * Period <= 7 * (Period + l_enc)
        BY <2>1, <3>1, <3>3
      <3>. QED  BY <2>1, <2>2, <2>4, <3>4 DEF CorrectionsPaced
    <2>. QED  BY <2>3, <2>4
  <1>. QED  BY <1>1, Invariance, PTL

-------------------------------------------------------------------------------
(***************************************************************************)
(* The contract                                                             *)
(***************************************************************************)
\* Every step of either function is a step of Drive, or none of its business.
LEMMA NextKeepsContract == ASSUME Inv, [Next]_vars PROVE [Contract!Next]_(Contract!driveVars)
  <1> USE DEF Contract!driveVars
  <1>0. Contract!Short <=> Short
    BY DEF Contract!Short, Contract!l_tgt, Contract!r_tgt, Contract!l_tgt_cts, Contract!r_tgt_cts,
           Short, l_tgt, r_tgt, l_tgt_cts, r_tgt_cts
  <1>1. CASE Tick
    <2>1. /\ l_mot' = l_mot /\ r_mot' = r_mot
          /\ pc = "start" => l_enc' = l_enc /\ r_enc' = r_enc /\ pc' = "start"
          /\ pc # "start" =>
               Moving /\ \E l, r \in Counts : l_enc' = l_enc + l /\ r_enc' = r_enc + r
          /\ pc # "start" => pc \in {"measure", "waiting"}
          /\ pc = "measure" => pc' = "measure"
          /\ pc = "waiting" => pc' = "loop" \/ pc' = "balance"
      BY <1>1, TickFacts
    <2>2. Moving' = Moving
      BY <2>1 DEF Moving
    <2>3. CASE pc = "start"
      BY <2>1, <2>2, <2>3
    <2>4. CASE pc # "start"
      <3>1. Contract!Travel
        BY <2>1, <2>2, <2>4 DEF Contract!Travel
      <3>. QED  BY <3>1 DEF Contract!Next
    <2>. QED  BY <2>3, <2>4
  <1>2. CASE FwdBegin \/ BckBegin
    <2>1. /\ pc = "start" /\ pc' = "loop" /\ l_enc' = 0 /\ r_enc' = 0
          /\ l_mot' = l_mot /\ r_mot' = r_mot
      BY <1>2 DEF FwdBegin, BckBegin, ResetCounts, motVars
    <2>2. Moving' = Moving
      BY <2>1 DEF Moving
    <2>3. Contract!Start
      BY <2>1, <2>2 DEF Contract!Start
    <2>. QED  BY <2>3 DEF Contract!Next
  <1>3. CASE FwdDrive \/ BckDrive
    <2>1. /\ pc = "loop" /\ Short /\ pc' \in {"waiting", "measure"}
          /\ l_enc' = l_enc /\ r_enc' = r_enc /\ l_mot' = l_pwr
      BY <1>3 DEF FwdDrive, BckDrive, encVars
    <2>2. Moving'
      <3>1. l_pwr # 0
        BY DEF Inv, TypeOK, MotorsInv
      <3>. QED  BY <2>1, <3>1 DEF Moving
    <2>3. CASE Moving
      BY <2>1, <2>2, <2>3
    <2>4. CASE ~Moving
      <3>1. Contract!Go
        BY <1>0, <2>1, <2>2, <2>4 DEF Contract!Go
      <3>. QED  BY <3>1 DEF Contract!Next
    <2>. QED  BY <2>3, <2>4
  <1>4. CASE Measure \/ Balance
    <2>1. /\ pc \in {"measure", "balance"} /\ pc' = "loop"
          /\ l_enc' = l_enc /\ r_enc' = r_enc /\ l_mot' = l_mot /\ r_mot' = r_mot
      BY <1>4 DEF Measure, Balance, encVars, motVars
    <2>2. Moving' = Moving
      BY <2>1 DEF Moving
    <2>. QED  BY <2>1, <2>2
  <1>5. CASE Stop
    <2>1. /\ pc = "loop" /\ ~Short /\ pc' = "done" /\ ~Moving'
          /\ l_enc' = l_enc /\ r_enc' = r_enc
      BY <1>5 DEF Stop, encVars, Moving
    <2>2. Contract!Stop
      BY <1>0, <2>1 DEF Contract!Stop
    <2>. QED  BY <2>2 DEF Contract!Next
  <1>6. CASE UNCHANGED vars
    <2>1. pc' = pc /\ l_enc' = l_enc /\ r_enc' = r_enc /\ l_mot' = l_mot /\ r_mot' = r_mot
      BY <1>6 DEF vars, encVars, motVars
    <2>2. Moving' = Moving
      BY <2>1 DEF Moving
    <2>. QED  BY <2>1, <2>2
  <1>. QED  BY <1>1, <1>2, <1>3, <1>4, <1>5, <1>6 DEF Next

\* fwd_dist and bck_dist keep the safety half of Drive: they start from counts
\* of zero, run the motors only during the call and while short of both
\* targets at a look, and return with the motors off.
THEOREM KeepsContract == Spec => Contract!Safety
  <1>1. Init => Contract!Init
    BY DEF Init, Moving, Contract!Init
  <1>2. Inv /\ [Next]_vars => [Contract!Next]_(Contract!driveVars)
    BY NextKeepsContract
  <1>. QED  BY <1>1, <1>2, Invariance, PTL DEF Spec, Contract!Safety

-------------------------------------------------------------------------------
(***************************************************************************)
(* How far the robot overshoots                                             *)
(***************************************************************************)
Within(n) ==
    /\ \E c \in Counts : l_enc < l_tgt + n * c
    /\ \E c \in Counts : r_enc < r_tgt + n * c

\* A robot that never heads for 0 is seen unless there is an outage, so that the
\* ticks fwd_dist has spent waiting for a report are ticks of that outage.
OvershootInv ==
    /\ program = "fwd_dist" /\ pc # "start" /\ rps = RpsFailure => outage >= 1
    /\ pc = "waiting" => Within(0)
    /\ pc = "measure" /\ rps = RpsFailure => Within(outage - 1)
    /\ pc = "measure" /\ rps # RpsFailure => Within(Blind)
    /\ pc \in {"loop", "balance", "done"} => Within(Blind)
    /\ pc = "done" => ~Short

InSight == heading # RpsFailure

LEMMA BlindType == Blind \in Nat /\ Blind >= 1
  <1>1. MaxOutage \in Nat
    OBVIOUS
  <1>. QED  BY <1>1 DEF Blind

LEMMA WithinMore == ASSUME TypeOK, NEW n \in Nat, NEW k \in Nat, n <= k, Within(n) PROVE Within(k)
  <1>1. /\ l_enc \in Nat /\ r_enc \in Nat
    BY DEF TypeOK
  <1>. QED  BY <1>1, Targets, MoreTicks DEF Within

LEMMA WithinTick ==
    ASSUME TypeOK, NEW n \in Nat, Within(n), NEW l \in Counts, NEW r \in Counts,
           l_enc' = l_enc + l, r_enc' = r_enc + r
    PROVE  Within(n + 1)'
  <1>1. l_enc \in Nat /\ r_enc \in Nat /\ l_tgt' = l_tgt /\ r_tgt' = r_tgt
    BY DEF TypeOK, l_tgt, r_tgt
  <1>2. \E m \in Counts : l_enc + l < l_tgt + (n + 1) * m
    BY <1>1, Targets, OneMoreTick DEF Within
  <1>3. \E m \in Counts : r_enc + r < r_tgt + (n + 1) * m
    BY <1>1, Targets, OneMoreTick DEF Within
  <1>. QED  BY <1>1, <1>2, <1>3 DEF Within

LEMMA OvershootInit == Init => OvershootInv
  BY DEF Init, OvershootInv

LEMMA OvershootTick == ASSUME Inv, OvershootInv, InSight', Tick PROVE OvershootInv'
  <1>1. TypeOK /\ TypeOK' /\ outage \in Nat /\ MaxOutage \in Nat
    BY TickInv DEF Inv, TypeOK
  <1>2. /\ rps' = RpsFailure => outage' = outage + 1 /\ outage' <= MaxOutage
        /\ program' = program /\ pc \in {"start", "waiting", "measure"}
    BY <1>1, TickFacts DEF Tick, InSight, TypeOK
  <1>3. CASE pc = "start"
    BY <1>2, <1>3, TickFacts DEF OvershootInv
  <1>4. CASE pc = "waiting"
    <2>1. Within(0)
      BY <1>4 DEF OvershootInv
    <2>2. Within(1)'
      <3>1. Within(0 + 1)'
        BY <1>1, <1>4, <2>1, TickFacts, WithinTick
      <3>. QED  BY <3>1
    <2>3. Blind' \in Nat /\ Blind' >= 1
      BY BlindType, <1>1, <1>2 DEF Blind
    <2>4. Within(Blind)'
      BY <1>1, <2>2, <2>3, MoreTicks, Targets DEF Within, TypeOK, l_tgt, r_tgt
    <2>. QED  BY <1>1, <1>2, <1>4, <2>4, TickFacts DEF OvershootInv
  <1>5. CASE pc = "measure"
    <2>1. program = "fwd_dist" /\ rps = RpsFailure /\ pc' = "measure"
      BY <1>5, TickFacts DEF Tick, Blocked
    <2>2. outage >= 1 /\ Within(outage - 1)
      BY <1>5, <2>1 DEF OvershootInv
    <2>3. /\ \E c \in Counts : l_enc' < l_tgt' + outage * c
          /\ \E c \in Counts : r_enc' < r_tgt' + outage * c
      <3>1. outage - 1 \in Nat
        BY <1>1, <2>2
      <3>2. PICK l, r \in Counts : l_enc' = l_enc + l /\ r_enc' = r_enc + r
        BY <1>5, TickFacts
      <3>3. l_enc \in Nat /\ r_enc \in Nat /\ l_tgt' = l_tgt /\ r_tgt' = r_tgt
        BY <1>1 DEF TypeOK, l_tgt, r_tgt
      <3>4. \E m \in Counts : l_enc + l < l_tgt + ((outage - 1) + 1) * m
        BY <2>2, <3>1, <3>3, Targets, OneMoreTick DEF Within
      <3>5. \E m \in Counts : r_enc + r < r_tgt + ((outage - 1) + 1) * m
        BY <2>2, <3>1, <3>3, Targets, OneMoreTick DEF Within
      <3>6. (outage - 1) + 1 = outage
        BY <1>1
      <3>. QED  BY <3>2, <3>3, <3>4, <3>5, <3>6
    <2>4. CASE rps' = RpsFailure
      <3>1. outage' - 1 = outage
        BY <1>1, <1>2, <2>4
      <3>2. Within(outage - 1)'
        BY <2>3, <3>1 DEF Within
      <3>. QED  BY <1>1, <1>2, <2>1, <2>2, <2>4, <3>1, <3>2 DEF OvershootInv
    <2>5. CASE rps' # RpsFailure
      <3>1. Blind' \in Nat /\ outage <= Blind'
        BY <1>1, <1>2, <2>1, <2>2 DEF Blind, TypeOK
      <3>2. Within(Blind)'
        BY <1>1, <2>3, <3>1, MoreTicks, Targets DEF Within, TypeOK, l_tgt, r_tgt
      <3>. QED  BY <2>1, <2>5, <3>2 DEF OvershootInv
    <2>. QED  BY <2>4, <2>5
  <1>. QED  BY <1>2, <1>3, <1>4, <1>5

LEMMA OvershootNext == ASSUME Inv, OvershootInv, InSight', [Next]_vars PROVE OvershootInv'
  <1>0. /\ TypeOK /\ TypeOK' /\ outage \in Nat /\ MaxOutage \in Nat
        /\ l_tgt' = l_tgt /\ r_tgt' = r_tgt
    BY NextInv DEF Inv, TypeOK, l_tgt, r_tgt
  <1>1. CASE FwdBegin \/ BckBegin
    <2>1. /\ pc' = "loop" /\ l_enc' = 0 /\ r_enc' = 0 /\ program' = program /\ rps' = rps
          /\ program = "fwd_dist" => rps # RpsFailure
      BY <1>1 DEF FwdBegin, BckBegin, ResetCounts
    <2>2. Blind' \in Nat /\ Blind' >= 1
      BY BlindType, <2>1 DEF Blind
    <2>3. Within(Blind)'
      <3>1. PICK c \in Counts : TRUE
        OBVIOUS
      <3>2. c \in Nat /\ c >= 1
        BY <3>1
      <3>3. Blind' * c >= 1 /\ Blind' * c \in Nat
        BY <2>2, <3>2, Product
      <3>4. 0 < l_tgt + Blind' * c /\ 0 < r_tgt + Blind' * c
        BY <3>3, Targets
      <3>. QED  BY <1>0, <2>1, <3>4 DEF Within
    <2>. QED  BY <2>1, <2>3 DEF OvershootInv
  <1>2. CASE FwdDrive \/ BckDrive
    <2>1. /\ pc = "loop" /\ Short /\ pc' \in {"waiting", "measure"}
          /\ program' = program /\ rps' = rps /\ outage' = outage
          /\ l_enc' = l_enc /\ r_enc' = r_enc
          /\ pc' = "measure" => program = "fwd_dist"
      BY <1>2 DEF FwdDrive, BckDrive, worldVars, encVars
    <2>2. ASSUME NEW k \in Nat
          PROVE  /\ \E c \in Counts : l_enc' < l_tgt' + k * c
                 /\ \E c \in Counts : r_enc' < r_tgt' + k * c
      <3>1. PICK c \in Counts : TRUE
        OBVIOUS
      <3>2. c \in Nat /\ k * c \in Nat
        BY <3>1
      <3>3. l_enc < l_tgt + k * c /\ r_enc < r_tgt + k * c
        BY <1>0, <2>1, <3>2, Targets DEF Short, TypeOK
      <3>. QED  BY <1>0, <2>1, <3>3
    <2>3. Blind' \in Nat /\ (rps = RpsFailure /\ pc' = "measure" => outage >= 1)
      BY BlindType, <2>1 DEF Blind, OvershootInv
    <2>4. Within(Blind)' /\ Within(0)'
      BY <2>2, <2>3 DEF Within
    <2>5. pc' = "measure" /\ rps = RpsFailure => Within(outage - 1)'
      <3>1. pc' = "measure" /\ rps = RpsFailure => outage' - 1 \in Nat
        BY <1>0, <2>1, <2>3
      <3>. QED  BY <2>2, <3>1 DEF Within
    <2>. QED  BY <2>1, <2>4, <2>5 DEF OvershootInv
  <1>3. CASE Measure \/ Balance
    <2>1. /\ pc' = "loop" /\ program' = program /\ rps' = rps /\ outage' = outage
          /\ l_enc' = l_enc /\ r_enc' = r_enc
          /\ (pc = "measure" /\ rps # RpsFailure) \/ pc = "balance"
      BY <1>3 DEF Measure, Balance, worldVars, encVars
    <2>2. Within(Blind) /\ Blind' = Blind
      BY <2>1 DEF OvershootInv, Blind
    <2>. QED  BY <1>0, <2>1, <2>2 DEF OvershootInv, Within
  <1>4. CASE Stop
    <2>1. /\ pc = "loop" /\ pc' = "done" /\ program' = program /\ rps' = rps /\ outage' = outage
          /\ l_enc' = l_enc /\ r_enc' = r_enc /\ ~Short
      BY <1>4 DEF Stop, worldVars, encVars
    <2>2. Within(Blind) /\ Blind' = Blind /\ Short' = Short
      BY <1>0, <2>1 DEF OvershootInv, Blind, Short
    <2>. QED  BY <1>0, <2>1, <2>2 DEF OvershootInv, Within
  <1>5. CASE UNCHANGED vars
    <2>1. /\ pc' = pc /\ program' = program /\ rps' = rps /\ outage' = outage
          /\ l_enc' = l_enc /\ r_enc' = r_enc
      BY <1>5 DEF vars, worldVars, encVars
    <2>2. Blind' = Blind /\ Short' = Short
      BY <1>0, <2>1 DEF Blind, Short
    <2>. QED  BY <1>0, <2>1, <2>2 DEF OvershootInv, Within
  <1>. QED  BY <1>1, <1>2, <1>3, <1>4, <1>5, OvershootTick DEF Next

\* A robot that never heads exactly for 0, where its reports cannot be told from
\* failures, stops with the motors off, with a target reached, and past it by
\* no more than it counts while the function is blind.
THEOREM StopsInTime == Spec /\ []InSight => []StopsAtDistance
  <1>1. Inv /\ OvershootInv /\ InSight' /\ [Next]_vars => OvershootInv'
    BY OvershootNext
  <1>2. Inv /\ OvershootInv => StopsAtDistance
    <2> SUFFICES ASSUME Inv, OvershootInv, pc = "done" PROVE StopsAtDistance
      BY DEF StopsAtDistance
    <2>1. ~Moving /\ ~Short /\ Within(Blind)
      BY DEF Inv, MotorsInv, OvershootInv
    <2>2. l_enc >= l_tgt \/ r_enc >= r_tgt
      BY <2>1, Targets DEF Short, Inv, TypeOK
    <2>. QED  BY <2>1, <2>2 DEF StopsAtDistance, Within
  <1>. QED  BY OvershootInit, <1>1, <1>2, Invariance, PTL DEF Spec

-------------------------------------------------------------------------------
(***************************************************************************)
(* Which way the corrections go                                             *)
(***************************************************************************)
\* A drive that turns by less than a quarter turn, as far as head_diff reaches.
SmallDrift == MaxDrift < QuarterTurn

\* A drive that does not pass zero to the right, where head_diff loses its sign.
AboveZero == \A h \in Starts : h >= MaxDrift

\* The report is the heading the robot has, and that the one it began with and what
\* it has turned since, but for half a turn.
DriftInv ==
    program = "fwd_dist" =>
        /\ rps # RpsFailure => rps = heading
        /\ pc = "start" => drift = 0 /\ heading \in Starts
        /\ pc # "start" =>
              /\ orig_head \in Starts
              /\ Magnitude(drift) <= MaxDrift
              /\ heading - (orig_head + drift) \in {-HalfTurn, 0, HalfTurn}

LEMMA ShortTurn ==
    ASSUME NEW a \in 0..HalfTurn-1, NEW d \in -QuarterTurn..QuarterTurn
    PROVE  (a + d) % HalfTurn = IF a + d < 0 THEN a + d + HalfTurn
                                ELSE IF a + d >= HalfTurn THEN a + d - HalfTurn ELSE a + d
  <1>1. /\ HalfTurn \in Nat /\ HalfTurn > 0 /\ a + d \in Int
        /\ a + d >= -HalfTurn /\ a + d < 2 * HalfTurn
    BY Units
  <1>2. CASE a + d < 0
    BY <1>1, <1>2
  <1>3. CASE a + d >= HalfTurn
    BY <1>1, <1>3
  <1>4. CASE ~(a + d < 0) /\ ~(a + d >= HalfTurn)
    BY <1>1, <1>4
  <1>. QED  BY <1>2, <1>3, <1>4

LEMMA DriftInit == Init => DriftInv
  BY DEF Init, DriftInv

LEMMA MagnitudeBound ==
    ASSUME NEW n \in Int, NEW a \in Int
    PROVE  Magnitude(a) <= n <=> a <= n /\ -a <= n
  <1>1. CASE a < 0
    BY <1>1 DEF Magnitude
  <1>2. CASE ~(a < 0)
    BY <1>2 DEF Magnitude
  <1>. QED  BY <1>1, <1>2

LEMMA DriftTick == ASSUME SmallDrift, Inv, DriftInv, Tick PROVE DriftInv'
  <1> SUFFICES ASSUME program = "fwd_dist" PROVE DriftInv'
    BY DEF DriftInv, Tick
  <1>1. /\ program' = program /\ orig_head' = orig_head
        /\ rps' = heading' \/ rps' = RpsFailure
        /\ pc' = "start" <=> pc = "start"
    BY TickFacts DEF Tick
  <1>2. CASE pc = "start"
    <2>1. heading' = heading /\ drift' = drift
      BY <1>2, TickFacts DEF Tick
    <2>. QED  BY <1>1, <1>2, <2>1 DEF DriftInv
  <1>3. CASE pc # "start"
    <2>1. PICK d \in Drifts : /\ Magnitude(drift + d) <= MaxDrift
                              /\ drift' = drift + d /\ heading' = (heading + d) % HalfTurn
      BY <1>3, TickFacts DEF Tick
    <2>2. /\ heading \in 0..HalfTurn-1 /\ drift \in Int /\ orig_head \in 0..HalfTurn-1
          /\ d \in -QuarterTurn..QuarterTurn /\ d \in Int /\ MaxDrift \in Nat
          /\ MaxDrift < QuarterTurn /\ QuarterTurn \in Nat
          /\ HalfTurn \in Nat /\ HalfTurn = 2 * QuarterTurn
      BY Units DEF Inv, TypeOK, Report, SmallDrift
    <2>3. drift + d <= MaxDrift /\ -(drift + d) <= MaxDrift
      BY <2>1, <2>2, MagnitudeBound
    <2>4. /\ orig_head \in Starts
          /\ heading - (orig_head + drift) \in {-HalfTurn, 0, HalfTurn}
      BY <1>3 DEF DriftInv
    <2>5. heading' = IF heading + d < 0 THEN heading + d + HalfTurn
                     ELSE IF heading + d >= HalfTurn THEN heading + d - HalfTurn ELSE heading + d
      BY <2>1, <2>2, ShortTurn
    <2>6. heading' - (orig_head + drift') \in {-HalfTurn, 0, HalfTurn}
      BY <2>1, <2>2, <2>3, <2>4, <2>5
    <2>. QED  BY <1>1, <1>3, <2>1, <2>4, <2>6 DEF DriftInv
  <1>. QED  BY <1>2, <1>3

LEMMA DriftNext == ASSUME SmallDrift, Inv, DriftInv, [Next]_vars PROVE DriftInv'
  <1>1. CASE Tick
    BY <1>1, DriftTick
  <1>2. CASE FwdBegin
    <2>1. /\ program' = program /\ pc = "start" /\ pc' = "loop" /\ drift' = 0
          /\ heading' = heading /\ rps' = rps /\ orig_head' = rps /\ rps # RpsFailure
      BY <1>2 DEF FwdBegin
    <2>2. Magnitude(0) <= MaxDrift
      BY DEF Magnitude
    <2>3. program = "fwd_dist" => heading - (heading + 0) = 0
      BY Units DEF Inv, TypeOK, Report
    <2>. QED  BY <2>1, <2>2, <2>3 DEF DriftInv
  <1>3. CASE BckBegin
    BY <1>3 DEF BckBegin, DriftInv
  <1>4. CASE FwdDrive \/ BckDrive \/ Measure \/ Balance \/ Stop
    <2>1. /\ program' = program /\ heading' = heading /\ drift' = drift /\ rps' = rps
          /\ orig_head' = orig_head /\ pc # "start" /\ pc' # "start"
      BY <1>4 DEF FwdDrive, BckDrive, Measure, Balance, Stop, worldVars, fwdVars
    <2>. QED  BY <2>1 DEF DriftInv
  <1>5. CASE UNCHANGED vars
    BY <1>5 DEF vars, worldVars, fwdVars, DriftInv
  <1>. QED  BY <1>1, <1>2, <1>3, <1>4, <1>5 DEF Next

\* What Measure finds: the drift itself, but the smallest angle less of it where the
\* reports have wrapped to the left, and its opposite where they have to the right.
LEMMA MeasuredDrift ==
    ASSUME SmallDrift, Inv, DriftInv, program = "fwd_dist", pc = "measure", rps # RpsFailure
    PROVE  /\ HeadDiff(orig_head, rps) \in Int /\ drift \in Int
           /\ \/ HeadDiff(orig_head, rps) = drift
              \/ drift > 0 /\ HeadDiff(orig_head, rps) = drift - 1
              \/ orig_head + drift < 0 /\ HeadDiff(orig_head, rps) = -drift - 1
  <1>1. /\ heading \in 0..HalfTurn-1 /\ drift \in Int /\ orig_head \in 0..HalfTurn-1
        /\ MaxDrift \in Nat /\ MaxDrift < QuarterTurn /\ QuarterTurn \in Nat
        /\ HalfTurn \in Nat /\ HalfTurn = 2 * QuarterTurn
    BY Units DEF Inv, TypeOK, Report, SmallDrift
  <1>2. /\ rps = heading /\ Magnitude(drift) <= MaxDrift
        /\ heading - (orig_head + drift) \in {-HalfTurn, 0, HalfTurn}
    BY DEF DriftInv
  <1>3. drift <= MaxDrift /\ -drift <= MaxDrift
    BY <1>1, <1>2, MagnitudeBound
  <1>4. CASE heading = orig_head + drift
    <2>1. HeadDiff(orig_head, rps) = drift
      BY <1>1, <1>2, <1>3, <1>4 DEF HeadDiff
    <2>. QED  BY <1>1, <2>1
  <1>5. CASE heading = orig_head + drift - HalfTurn
    <2>1. HeadDiff(orig_head, rps) = drift - 1 /\ drift > 0
      BY <1>1, <1>2, <1>3, <1>5 DEF HeadDiff
    <2>. QED  BY <1>1, <2>1
  <1>6. CASE heading = orig_head + drift + HalfTurn
    <2>1. HeadDiff(orig_head, rps) = -drift - 1 /\ orig_head + drift < 0
      BY <1>1, <1>2, <1>3, <1>6 DEF HeadDiff
    <2>. QED  BY <1>1, <2>1
  <1>. QED  BY <1>1, <1>2, <1>4, <1>5, <1>6

LEMMA Shift ==
    ASSUME NEW diff \in Int
    PROVE  /\ diff < -HeadErr => HeadingShift(diff) = 7
           /\ diff > HeadErr => HeadingShift(diff) = -7
           /\ ~(diff < -HeadErr) /\ ~(diff > HeadErr) => HeadingShift(diff) = 0
  <1>1. CASE diff < -HeadErr
    BY <1>1, Powers DEF HeadingShift
  <1>2. CASE ~(diff < -HeadErr) /\ diff > HeadErr
    BY <1>2, Powers DEF HeadingShift
  <1>3. CASE ~(diff < -HeadErr) /\ ~(diff > HeadErr)
    BY <1>3, Powers DEF HeadingShift
  <1>. QED  BY <1>1, <1>2, <1>3

LEMMA MeasureCorrects ==
    ASSUME SmallDrift, AboveZero, Inv, DriftInv, Measure
    PROVE  (l_pwr' > l_pwr => drift < 0) /\ (l_pwr' < l_pwr => drift > 0)
  <1> DEFINE diff == HeadDiff(orig_head, rps)
  <1>1. /\ program = "fwd_dist" /\ pc = "measure" /\ rps # RpsFailure
        /\ l_pwr' = l_pwr + HeadingShift(diff)
    BY DEF Measure, Inv, BackwardInv, TypeOK
  <1>2. /\ orig_head \in Int /\ MaxDrift \in Nat /\ drift \in Int /\ orig_head >= MaxDrift
        /\ Magnitude(drift) <= MaxDrift /\ l_pwr \in Int
    BY <1>1, Units DEF DriftInv, AboveZero, Inv, TypeOK, Report
  <1>3. ~(orig_head + drift < 0)
    BY <1>2, MagnitudeBound
  <1>4. diff \in Int /\ (diff = drift \/ (drift > 0 /\ diff = drift - 1))
    BY <1>1, <1>3, MeasuredDrift
  <1>5. HeadingShift(diff) > 0 => diff < -HeadErr
    BY <1>4, Shift
  <1>6. HeadingShift(diff) < 0 => diff > HeadErr
    BY <1>4, Shift
  <1>7. HeadingShift(diff) \in Int
    BY <1>4, ShiftValues
  <1> HIDE DEF diff
  <1>. QED  BY <1>1, <1>2, <1>4, <1>5, <1>6, <1>7

\* Unless it passes zero to the right, a drive is corrected in the right direction,
\* whenever its reports come and however often they fail.
THEOREM DriftCorrected == SmallDrift /\ AboveZero /\ Spec => CorrectsTheDrift
  <1> SUFFICES ASSUME SmallDrift, AboveZero PROVE Spec => CorrectsTheDrift
    OBVIOUS
  <1>1. Inv /\ DriftInv /\ [Next]_vars => DriftInv'
    BY DriftNext
  <1>2. Inv /\ DriftInv /\ [Next]_vars =>
          [ program = "fwd_dist" =>
              /\ l_pwr' > l_pwr => drift < 0
              /\ l_pwr' < l_pwr => drift > 0 ]_vars
    <2> SUFFICES ASSUME Inv, DriftInv, Next, program = "fwd_dist"
                 PROVE (l_pwr' > l_pwr => drift < 0) /\ (l_pwr' < l_pwr => drift > 0)
      OBVIOUS
    <2>1. CASE Measure
      BY <2>1, MeasureCorrects
    <2>2. CASE ~Measure
      <3>1. l_pwr' = l_pwr
        BY <2>2 DEF Next, Tick, Stop, FwdBegin, FwdDrive, BckBegin, BckDrive, Balance, pwrVars,
                    Inv, PaceInv
      <3>2. l_pwr \in Int
        BY DEF Inv, TypeOK
      <3>. QED  BY <3>1, <3>2
    <2>. QED  BY <2>1, <2>2
  <1>. QED  BY DriftInit, <1>1, <1>2, Invariance, PTL DEF Spec, CorrectsTheDrift

\* A drift of more than HEAD_ERR, and the smallest angle, never goes uncorrected when
\* fwd_dist measures it, on either side and through zero too.
THEOREM DriftMeasured == SmallDrift /\ Spec => MeasuresTheDrift
  <1> SUFFICES ASSUME SmallDrift PROVE Spec => MeasuresTheDrift
    OBVIOUS
  <1>1. Inv /\ DriftInv /\ [Next]_vars => DriftInv'
    BY DriftNext
  <1>2. Inv /\ DriftInv =>
          [ Measure /\ Magnitude(drift) > HeadErr + 1 => pwrVars' # pwrVars ]_vars
    <2> SUFFICES ASSUME Inv, DriftInv, Measure, Magnitude(drift) > HeadErr + 1
                 PROVE l_pwr' # l_pwr
      BY DEF pwrVars
    <2> DEFINE diff == HeadDiff(orig_head, rps)
    <2>1. /\ program = "fwd_dist" /\ pc = "measure" /\ rps # RpsFailure
          /\ l_pwr' = l_pwr + HeadingShift(diff) /\ l_pwr \in Int
      BY DEF Measure, Inv, BackwardInv, TypeOK
    <2>2. /\ diff \in Int /\ drift \in Int
          /\ diff = drift \/ (drift > 0 /\ diff = drift - 1) \/ diff = -drift - 1
      BY <2>1, MeasuredDrift
    <2>3. HeadErr \in Nat /\ (drift > HeadErr + 1 \/ -drift > HeadErr + 1)
      <3>1. ~(drift <= HeadErr + 1 /\ -drift <= HeadErr + 1)
        BY <2>2, MagnitudeBound DEF Magnitude
      <3>. QED  BY <2>2, <3>1
    <2>4. diff < -HeadErr \/ diff > HeadErr
      <3> HIDE DEF diff
      <3>. QED  BY <2>2, <2>3
    <2>5. HeadingShift(diff) = 7 \/ HeadingShift(diff) = -7
      BY <2>2, <2>4, Shift
    <2> HIDE DEF diff
    <2>. QED  BY <2>1, <2>5
  <1>. QED  BY DriftInit, <1>1, <1>2, Invariance, PTL DEF Spec, MeasuresTheDrift
===============================================================================
