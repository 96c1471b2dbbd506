------------------------------ MODULE Turns_proofs -----------------------------
(***************************************************************************)
(* Where rot_deg, rot_head and crct_head stop when the robot may get out of   *)
(* sight at any time, for every resolution of the angles, turn rate and      *)
(* length of the outages; and where the script of the mission, whose turns   *)
(* they are, begins each of its drives.                                      *)
(***************************************************************************)
EXTENDS Turns, Mission, Heading_proofs, WellFoundedInduction

Types ==
    /\ theta \in Angle /\ turned \in Int /\ rps \in Report
    /\ degree \in -HalfTurn..HalfTurn
    /\ prev_head \in Report

\* The last report is a failed one, or the one made where the robot is.
SeenInv == rps = RpsFailure \/ rps = Reading(theta)

\* Before the turn the robot stands still; a wait for the wrap is for a turn that
\* needs one.
PhaseInv ==
    /\ pc = "start" => turned = 0 /\ motors = "off"
    /\ pc \in {"wrap", "sleep", "wake"} => wrapped

\* On its way to a target it reaches before the wrap, the robot is as far from
\* where it began as its report says, and short of its target only while the
\* loop runs.
LeftInv ==
    degree > 0 /\ ~wrapped /\ pc \in {"turn", "stop", "done"} =>
        /\ target = prev_head + degree /\ target <= HalfTurn - 1
        /\ pc = "turn" => motors = "left"
        /\ turned < degree =>
              pc = "turn" /\ turned >= 0 /\ Reading(theta) = prev_head + turned

IInv == Types /\ (program = "rot_deg" => SeenInv /\ PhaseInv /\ LeftInv)

-------------------------------------------------------------------------------
\* A turn that does not reach the wrap shows in the report degree by degree.
LEMMA ReadingAfter ==
    ASSUME NEW a \in Angle, NEW r \in Nat, Reading(a) + r < HalfTurn
    PROVE  Reading((a + r) % FullTurn) = Reading(a) + r
<1>1. a + r \in Nat /\ FullTurn \in Nat /\ a + r < FullTurn
  BY Units, SMT DEF Angle, Reading
<1>2. (a + r) % FullTurn = a + r
  BY <1>1, NoWrap
<1> QED BY <1>1, <1>2, Units, SMT DEF Angle, Reading

\* Angles a little way round the circle.
LEMMA Around ==
    ASSUME NEW a \in Angle, NEW r \in 0..QuarterTurn
    PROVE  /\ (a + r) % FullTurn = IF a + r < FullTurn THEN a + r ELSE a + r - FullTurn
           /\ (a - r) % FullTurn = IF a - r >= 0 THEN a - r ELSE a - r + FullTurn
<1>1. /\ a \in Nat /\ r \in Nat /\ FullTurn \in Nat /\ FullTurn > 0
      /\ a < FullTurn /\ r < FullTurn
  BY Units, SMT DEF Angle
<1>2. CASE a + r < FullTurn
  BY <1>1, <1>2, NoWrap
<1>3. CASE a + r >= FullTurn
  BY <1>1, <1>3, SMT
<1>4. (a - r) % FullTurn = IF a - r >= 0 THEN a - r ELSE a - r + FullTurn
  BY <1>1, SMT
<1> QED BY <1>1, <1>2, <1>3, <1>4, SMT

\* A set of natural numbers has a least one, and a bounded one a greatest.
LEMMA Least == ASSUME NEW S, S \subseteq Nat, S # {} PROVE \E m \in S : \A n \in S : m <= n
<1> DEFINE below == OpToRel(<, Nat)
<1>1. IsWellFoundedOn(below, Nat)
  BY NatLessThanWellFounded
<1>2. PICK m \in S : \A n \in S : <<n, m>> \notin below
  <2> HIDE DEF below
  <2> QED BY <1>1, WFMin
<1>3. ASSUME NEW n \in S PROVE m <= n
  <2>1. <<n, m>> \notin {ss \in Nat \X Nat : ss[1] < ss[2]}
    BY <1>2 DEF OpToRel
  <2>2. n \in Nat /\ m \in Nat
    OBVIOUS
  <2> QED BY <2>1, <2>2, SMT
<1> QED BY <1>3

LEMMA Greatest ==
    ASSUME NEW S, NEW bound \in Nat, S \subseteq 0..bound, S # {}
    PROVE  \E m \in S : \A n \in S : n <= m
<1> DEFINE room == {bound - n : n \in S}
<1>1. room \subseteq Nat /\ room # {}
  <2>1. \A n \in S : bound - n \in Nat
    BY SMT
  <2> QED BY <2>1, Zenon
<1>2. PICK least \in room : \A v \in room : least <= v
  <2> HIDE DEF room
  <2> QED BY <1>1, Least
<1>3. PICK m \in S : least = bound - m
  OBVIOUS
<1>4. ASSUME NEW n \in S PROVE n <= m
  <2>1. bound - m <= bound - n
    BY <1>2, <1>3
  <2> QED BY <2>1, SMT
<1> QED BY <1>4

LEMMA SampleIsMost ==
    /\ Sample \in Nat /\ Sample >= 1 /\ Sample <= QuarterTurn
    /\ \A rate \in Rates : rate \in 1..Sample
<1>1. QuarterTurn \in Nat /\ Rates \subseteq 1..QuarterTurn /\ Rates # {}
  BY TurningAssumption, Units, SMT
<1>2. Rates \subseteq 0..QuarterTurn
  BY <1>1, SMT
<1>3. \E m \in Rates : \A n \in Rates : n <= m
  BY <1>1, <1>2, Greatest
<1>4. Sample \in Rates /\ \A rate \in Rates : rate <= Sample
  BY <1>3, Zenon DEF Sample
<1> QED BY <1>1, <1>4, SMT

\* What a tick does to the robot and to the report.
LEMMA TickFacts ==
    ASSUME Types, WorldTick
    PROVE  /\ theta' \in Angle /\ turned' \in Int /\ rps' \in Report
           /\ SeenInv'
           /\ motors = "off" => turned' = turned /\ theta' = theta
           /\ motors = "left" =>
                \E rate \in 1..Sample : /\ turned' = turned + rate
                                        /\ theta' = (theta + rate) % FullTurn
           /\ motors = "right" =>
                \E rate \in 1..Sample : /\ turned' = turned - rate
                                        /\ theta' = (theta - rate) % FullTurn
<1>1. PICK rate \in Rates : /\ turned' = turned + Direction * rate
                            /\ theta' = (theta + Direction * rate) % FullTurn
  BY DEF WorldTick
<1>2. /\ rate \in 1..Sample /\ rate \in Nat
      /\ FullTurn \in Nat /\ FullTurn > 0 /\ theta \in Nat /\ theta < FullTurn
      /\ turned \in Int
  BY SampleIsMost, Units, SMT DEF Types, Angle
<1>3. /\ motors = "left" => Direction * rate = rate
      /\ motors = "off" => Direction * rate = 0
      /\ motors = "right" => Direction * rate = -rate
      /\ Direction * rate \in Int
  BY <1>2, SMT DEF Direction
<1>4. theta' \in 0..FullTurn-1
  BY <1>1, <1>2, <1>3, Remainder
<1>5. theta' \in Angle
  BY <1>4 DEF Angle
<1>6. turned' \in Int
  BY <1>1, <1>2, <1>3, SMT
<1>7. rps' \in Report /\ SeenInv'
  <2>1. 0 \in Report
    BY Units, SMT DEF Report
  <2> QED BY <1>5, <2>1, ReadingType DEF WorldTick, ReportComes, SeenInv, RpsFailure
<1>8. ASSUME motors = "off" PROVE turned' = turned /\ theta' = theta
  <2>1. turned' = turned + 0 /\ theta' = (theta + 0) % FullTurn
    BY <1>1, <1>3, <1>8
  <2>2. theta + 0 = theta /\ turned + 0 = turned
    BY <1>2, SMT
  <2> QED BY <1>2, <2>1, <2>2, NoWrap
<1>9. ASSUME motors = "left"
      PROVE  turned' = turned + rate /\ theta' = (theta + rate) % FullTurn
  BY <1>1, <1>3, <1>9
<1>10. ASSUME motors = "right"
       PROVE  turned' = turned - rate /\ theta' = (theta - rate) % FullTurn
  <2>1. turned' = turned + (-rate) /\ theta' = (theta + (-rate)) % FullTurn
    BY <1>1, <1>3, <1>10
  <2>2. turned + (-rate) = turned - rate /\ theta + (-rate) = theta - rate
    BY <1>2, SMT
  <2> QED BY <2>1, <2>2
<1> QED BY <1>2, <1>5, <1>6, <1>7, <1>8, <1>9, <1>10

-------------------------------------------------------------------------------
LEMMA Initial == Init => IInv
<1> SUFFICES ASSUME Init PROVE IInv
  OBVIOUS
<1>1. 0 \in Report /\ 0 \in -HalfTurn..HalfTurn /\ Report \subseteq Angle
  BY Units, SMT DEF Report, Angle
<1>2. theta \in Angle
  BY <1>1, TurnsAssumption DEF Init, WorldInit
<1>3. rps \in Report /\ SeenInv /\ turned = 0
  BY <1>1, <1>2, ReadingType DEF Init, WorldInit, SeenInv, RpsFailure
<1>4. degree \in -HalfTurn..HalfTurn /\ prev_head = 0
  BY <1>1, TurnsAssumption DEF Init, RotDegInit
<1>5. Types
  BY <1>1, <1>2, <1>3, <1>4, SMT DEF Types
<1>6. program = "rot_deg" => pc = "start" /\ motors = "off"
  BY DEF Init, WorldInit
<1> QED BY <1>3, <1>5, <1>6 DEF IInv, PhaseInv, LeftInv

LEMMA RotHeadKeeps == ASSUME IInv, RotHeadStep PROVE IInv'
<1>1. program # "rot_deg" /\ program' = program /\ UNCHANGED rotDegVars
  BY DEF RotHeadStep
<1>2. theta' \in Angle /\ turned' \in Int /\ rps' \in Report
  <2>1. CASE RotHeadTick
    BY <2>1, TickFacts DEF RotHeadTick, IInv
  <2>2. CASE UNCHANGED worldVars
    BY <2>2 DEF worldVars, IInv, Types
  <2> QED BY <2>1, <2>2 DEF RotHeadStep, RotHeadNext, ud_head, RotHeadDecide, CrctHeadDecide
<1> QED BY <1>1, <1>2 DEF IInv, Types, rotDegVars, localVars

LEMMA RotDegTickKeeps ==
    ASSUME IInv, program = "rot_deg", program' = program, RotDegTick PROVE IInv'
<1>1. /\ Types /\ WorldTick /\ PhaseInv /\ LeftInv /\ Blocked
      /\ UNCHANGED <<motors, degree, current_head, prev_head, target, wrapped>>
      /\ pc' = IF pc = "sleep" THEN "wake" ELSE pc
  BY DEF IInv, RotDegTick, rotDegVars, localVars
<1>2. /\ theta' \in Angle /\ turned' \in Int /\ rps' \in Report /\ SeenInv'
      /\ motors = "off" => turned' = turned /\ theta' = theta
  BY <1>1, TickFacts
<1>3. Types'
  BY <1>1, <1>2 DEF Types
<1>4. PhaseInv'
  BY <1>1, <1>2 DEF PhaseInv
<1>5. LeftInv'
  <2> SUFFICES ASSUME degree > 0, ~wrapped, pc' \in {"turn", "stop", "done"}
               PROVE  /\ target = prev_head + degree /\ target <= HalfTurn - 1
                      /\ pc' = "turn" => motors = "left"
                      /\ turned' < degree =>
                            pc' = "turn" /\ turned' >= 0 /\ Reading(theta') = prev_head + turned'
    BY <1>1 DEF LeftInv
  <2>1. pc = "turn" /\ pc' = "turn"
    BY <1>1 DEF Blocked
  <2>2. /\ target = prev_head + degree /\ target <= HalfTurn - 1 /\ motors = "left"
        /\ turned < degree => turned >= 0 /\ Reading(theta) = prev_head + turned
    BY <1>1, <2>1 DEF LeftInv
  <2>3. PICK rate \in 1..Sample : turned' = turned + rate /\ theta' = (theta + rate) % FullTurn
    BY <1>1, <2>2, TickFacts
  <2> rate \in Nat
    BY SampleIsMost, SMT
  <2>4. theta \in Angle /\ turned \in Int /\ degree \in Int /\ prev_head \in Nat /\ HalfTurn \in Nat
    BY <1>1, Units, SMT DEF Types, Report
  <2>5. ASSUME turned' < degree PROVE turned' >= 0 /\ Reading(theta') = prev_head + turned'
    <3>1. turned < degree /\ turned >= 0 /\ Reading(theta) = prev_head + turned /\ turned' >= 0
      BY <2>2, <2>3, <2>4, <2>5, SMT
    <3>2. Reading(theta) + rate < HalfTurn
      BY <2>2, <2>3, <2>4, <2>5, <3>1, SMT
    <3>3. Reading(theta') = Reading(theta) + rate
      BY <2>3, <2>4, <3>2, ReadingAfter
    <3> QED BY <2>3, <2>4, <3>1, <3>3, SMT
  <2> QED BY <2>1, <2>2, <2>5
<1> QED BY <1>2, <1>3, <1>4, <1>5 DEF IInv

LEMMA BeginKeeps == ASSUME IInv, program = "rot_deg", program' = program, Begin PROVE IInv'
<1>1. /\ Types /\ SeenInv /\ rps # RpsFailure /\ rps = Reading(theta)
      /\ turned = 0 /\ motors = "off"
      /\ prev_head' = rps /\ UNCHANGED <<degree, theta, turned, rps>>
      /\ wrapped' = WrapsAround(rps + degree) /\ target' = Corrected(rps + degree)
      /\ pc' = IF degree = 0 THEN "stop" ELSE IF wrapped' THEN "wrap" ELSE "turn"
      /\ motors' = IF degree > 0 THEN "left" ELSE IF degree < 0 THEN "right" ELSE motors
  BY DEF IInv, SeenInv, PhaseInv, Begin, worldVars
<1>2. rps \in Nat /\ degree \in Int /\ HalfTurn \in Nat
  BY <1>1, Units, SMT DEF Types, Report
<1>3. Types' /\ SeenInv'
  BY <1>1 DEF Types, SeenInv
<1>4. PhaseInv'
  BY <1>1, SMT DEF PhaseInv
<1>5. LeftInv'
  <2>1. ASSUME degree > 0, ~wrapped'
        PROVE  /\ pc' = "turn" /\ motors' = "left"
               /\ target' = rps + degree /\ target' <= HalfTurn - 1
    <3>1. rps + degree >= 0 /\ rps + degree <= HalfTurn - 1
      <4>1. ~WrapsAround(rps + degree)
        BY <1>1, <2>1, Zenon
      <4> QED BY <1>2, <4>1, SMT DEF WrapsAround
    <3>2. target' = rps + degree
      BY <1>1, <1>2, <3>1, SMT DEF Corrected
    <3> QED BY <1>1, <1>2, <2>1, <3>1, <3>2, SMT
  <2>2. Reading(theta') = rps + turned' /\ turned' >= 0
    BY <1>1, <1>2, SMT
  <2> QED BY <1>1, <2>1, <2>2 DEF LeftInv
<1> QED BY <1>3, <1>4, <1>5 DEF IInv

LEMMA PollKeeps ==
    ASSUME IInv, program = "rot_deg", program' = program, SeesHeading \/ Wake PROVE IInv'
<1>1. /\ Types /\ SeenInv /\ PhaseInv /\ wrapped /\ pc' \in {"sleep", "wrap", "turn"}
      /\ UNCHANGED <<theta, turned, rps, degree, prev_head, wrapped>>
  BY DEF IInv, PhaseInv, SeesHeading, Wake, worldVars, rotDegVars, localVars
<1> QED BY <1>1 DEF IInv, Types, SeenInv, PhaseInv, LeftInv

LEMMA ArriveKeeps == ASSUME IInv, program = "rot_deg", program' = program, Arrive PROVE IInv'
<1>1. /\ Types /\ SeenInv /\ PhaseInv /\ LeftInv /\ pc = "turn" /\ pc' = "stop" /\ ~StillTurning
      /\ UNCHANGED <<theta, turned, rps, degree, prev_head, target, wrapped, motors>>
  BY DEF IInv, Arrive, worldVars, rotDegVars, localVars
<1>2. Types' /\ SeenInv' /\ PhaseInv'
  BY <1>1 DEF Types, SeenInv, PhaseInv
<1>3. ASSUME degree > 0, ~wrapped
      PROVE  target = prev_head + degree /\ target <= HalfTurn - 1 /\ ~(turned < degree)
  <2>1. /\ target = prev_head + degree /\ target <= HalfTurn - 1
        /\ turned < degree => Reading(theta) = prev_head + turned
    BY <1>1, <1>3 DEF LeftInv
  <2>2. ~(rps < target)
    BY <1>1, <1>3 DEF StillTurning
  <2>3. rps = 0 \/ rps = Reading(theta)
    BY <1>1 DEF SeenInv, RpsFailure
  <2>4. rps \in Nat /\ prev_head \in Nat /\ degree \in Int /\ turned \in Int
    BY <1>1, Units, SMT DEF Types, Report
  <2> QED BY <1>3, <2>1, <2>2, <2>3, <2>4, SMT
<1>4. LeftInv'
  BY <1>1, <1>3 DEF LeftInv
<1> QED BY <1>2, <1>4 DEF IInv

LEMMA StopKeeps == ASSUME IInv, program = "rot_deg", program' = program, StopTurn PROVE IInv'
<1>1. /\ Types /\ SeenInv /\ LeftInv /\ pc = "stop" /\ pc' = "done"
      /\ UNCHANGED <<theta, turned, rps, degree, prev_head, target, wrapped>>
  BY DEF IInv, StopTurn, worldVars, rotDegVars, localVars
<1> QED BY <1>1 DEF IInv, Types, SeenInv, PhaseInv, LeftInv

LEMMA Step == ASSUME IInv, [Next]_vars PROVE IInv'
<1>1. CASE RotDegStep
  <2>1. program = "rot_deg" /\ program' = program /\ RotDegNext
    BY <1>1 DEF RotDegStep
  <2> QED BY <2>1, RotDegTickKeeps, BeginKeeps, PollKeeps, ArriveKeeps, StopKeeps DEF RotDegNext
<1>2. CASE RotHeadStep
  BY <1>2, RotHeadKeeps
<1>3. CASE UNCHANGED vars
  BY <1>3 DEF vars, worldVars, rotDegVars, localVars, IInv, Types, SeenInv, PhaseInv, LeftInv
<1> QED BY <1>1, <1>2, <1>3 DEF Next

\* The invariant of a turn, in every state it can get to.
THEOREM Invariance == Spec => []IInv
BY Initial, Step, PTL DEF Spec

\* However long the robot is out of sight, and whenever, a left turn to a target
\* before the wrap ends no earlier than it should: it may be late, by as much as
\* the robot turns unseen, but never short.
THEOREM LeftTurnsInFull == Spec => []LeftNeverStopsShort
<1>1. IInv => LeftNeverStopsShort
  <2> SUFFICES ASSUME IInv, Done({"rot_deg"}), degree > 0, ~wrapped PROVE turned >= degree
    BY DEF LeftNeverStopsShort
  <2>1. ~(turned < degree)
    BY DEF IInv, LeftInv, Done
  <2>2. turned \in Int /\ degree \in Int
    BY Units, SMT DEF IInv, Types
  <2> QED BY <2>1, <2>2, SMT
<1> QED BY <1>1, Invariance, PTL

-------------------------------------------------------------------------------
\* The calls a turn in full is promised for. The report must come by every angle
\* between the start and the target: a target before the wrap of the report, and one
\* after it, is a whole sample short of the wrap, a turn that waits for the wrap
\* starts a sample above zero, and a right turn does not pass through zero.
Room ==
    \A h \in DegStarts, d \in Degrees :
        /\ d > 0 /\ h + d <= HalfTurn - 1 => h + d <= HalfTurn - Sample
        /\ d > 0 /\ h + d > HalfTurn - 1 =>
              h >= Sample /\ h + d - (HalfTurn - 1) <= HalfTurn - Sample
        /\ d < 0 => h + d >= Sample - 1

\* Before its turn the robot is where the call began.
CallInv ==
    program = "rot_deg" =>
        /\ degree \in Degrees
        /\ pc = "start" => theta \in DegStarts /\ ~unseen

\* In sight, report, heading and angle turned agree.
InSightInv ==
    /\ rps = Reading(theta) /\ theta = prev_head + turned
    /\ prev_head \in DegStarts

NoTurn == degree = 0 => turned = 0 /\ pc \in {"stop", "done"}

LeftTurn ==
    degree > 0 /\ ~wrapped =>
        /\ target = prev_head + degree /\ target <= HalfTurn - 1
        /\ pc \in {"turn", "stop", "done"} /\ (pc = "turn" => motors = "left")
        /\ turned >= 0 /\ turned < degree + Sample
        /\ pc \in {"stop", "done"} => turned >= degree

\* Half a turn less the smallest angle makes the target of a wrapped turn: the loop
\* that waits for the wrap ends above half a turn, the one that follows a sample
\* after the target at most.
WrappedTurn ==
    degree > 0 /\ wrapped =>
        /\ target = prev_head + degree - (HalfTurn - 1) /\ target >= 1
        /\ pc \notin {"stop", "done"} => motors = "left"
        /\ turned >= 0
        /\ pc \in {"wrap", "sleep"} => theta < HalfTurn
        /\ pc = "wake" => theta < HalfTurn + Sample
        /\ pc \in {"turn", "stop", "done"} =>
              theta >= HalfTurn /\ theta < HalfTurn + target + Sample
        /\ pc \in {"stop", "done"} => theta >= HalfTurn + target

RightTurn ==
    degree < 0 =>
        /\ target = prev_head + degree /\ target >= 0
        /\ pc \in {"turn", "stop", "done"} /\ (pc = "turn" => motors = "right")
        /\ turned <= 0 /\ theta > target - Sample
        /\ pc \in {"stop", "done"} => theta <= target

TurnInv == InSightInv /\ NoTurn /\ LeftTurn /\ WrappedTurn /\ RightTurn

InFullInv == program = "rot_deg" /\ pc # "start" /\ ~unseen => TurnInv

LEMMA CallInitial == Init => CallInv
BY DEF Init, WorldInit, RotDegInit, CallInv

LEMMA CallStep == ASSUME IInv, CallInv, [Next]_vars PROVE CallInv'
<1>1. CASE RotDegStep
  <2>1. /\ program' = program /\ degree' = degree /\ (pc' = "start" => pc = "start")
    BY <1>1 DEF RotDegStep, RotDegNext, RotDegTick, Begin, SeesHeading, Wake, Arrive, StopTurn,
                rotDegVars, localVars
  <2>2. ASSUME pc' = "start" PROVE theta' = theta /\ (~unseen => ~unseen')
    <3>1. RotDegTick /\ pc = "start" /\ program = "rot_deg"
      BY <1>1, <2>1, <2>2 DEF RotDegStep, RotDegNext, Begin, SeesHeading, Wake, Arrive, StopTurn
    <3>2. Types /\ WorldTick /\ motors = "off"
      BY <3>1 DEF IInv, PhaseInv, RotDegTick
    <3>3. ~unseen => ~unseen'
      BY <3>1, <3>2 DEF WorldTick, ReportComes
    <3> QED BY <3>2, <3>3, TickFacts
  <2> QED BY <2>1, <2>2 DEF CallInv
<1>2. CASE RotHeadStep
  BY <1>2 DEF RotHeadStep, CallInv
<1>3. CASE UNCHANGED vars
  BY <1>3 DEF vars, worldVars, rotDegVars, CallInv
<1> QED BY <1>1, <1>2, <1>3 DEF Next

THEOREM CallInvariance == Spec => []CallInv
BY CallInitial, CallStep, Invariance, PTL DEF Spec

\* What Room says of the call that is running.
LEMMA RoomFacts ==
    ASSUME Room, NEW h \in DegStarts, NEW d \in Degrees
    PROVE  /\ h \in Nat /\ h >= 1 /\ h < HalfTurn /\ d \in Int /\ HalfTurn \in Nat /\ Degree \in Nat
           /\ Sample \in Nat /\ Sample >= 1 /\ Sample <= 90 * Degree
           /\ HalfTurn = 180 * Degree /\ Degree >= 1
           /\ d > 0 /\ h + d <= HalfTurn - 1 => h + d <= HalfTurn - Sample
           /\ d > 0 /\ h + d > HalfTurn - 1 =>
                 h >= Sample /\ h + d - (HalfTurn - 1) <= HalfTurn - Sample
           /\ d < 0 => h + d >= Sample - 1
<1>1. h \in Report \ {0} /\ d \in -HalfTurn..HalfTurn
  BY TurnsAssumption
<1> QED BY <1>1, Units, SampleIsMost, SMT DEF Room, Report

LEMMA InFullBegin ==
    ASSUME Room, IInv, CallInv, program = "rot_deg", Begin PROVE TurnInv'
<1>1. /\ Types /\ rps # 0 /\ rps = Reading(theta) /\ turned = 0 /\ motors = "off"
      /\ theta \in DegStarts /\ degree \in Degrees
      /\ prev_head' = rps /\ UNCHANGED <<degree, theta, turned, rps>>
      /\ wrapped' = WrapsAround(rps + degree) /\ target' = Corrected(rps + degree)
      /\ pc' = IF degree = 0 THEN "stop" ELSE IF wrapped' THEN "wrap" ELSE "turn"
      /\ motors' = IF degree > 0 THEN "left" ELSE IF degree < 0 THEN "right" ELSE motors
  BY DEF IInv, SeenInv, PhaseInv, CallInv, Begin, worldVars, RpsFailure
<1>2. /\ theta \in Nat /\ theta >= 1 /\ theta < HalfTurn /\ degree \in Int /\ HalfTurn \in Nat
      /\ Sample \in Nat /\ Sample >= 1
      /\ degree < 0 => theta + degree >= Sample - 1
  BY <1>1, RoomFacts
<1>3. rps = theta /\ rps' = Reading(theta')
  BY <1>1, <1>2 DEF Reading
<1>4. InSightInv' /\ NoTurn'
  BY <1>1, <1>2, <1>3 DEF InSightInv, NoTurn
<1>5. wrapped' <=> (theta + degree < 0 \/ theta + degree > HalfTurn - 1)
  BY <1>1, <1>3, Zenon DEF WrapsAround
<1>6. target' = IF theta + degree < 0 THEN HalfTurn - (theta + degree)
                ELSE IF theta + degree > HalfTurn - 1 THEN theta + degree - (HalfTurn - 1)
                ELSE theta + degree
  BY <1>1, <1>2, <1>3, SMT DEF Corrected
<1>7. LeftTurn'
  <2> SUFFICES ASSUME degree > 0, ~wrapped'
               PROVE  /\ target' = theta + degree /\ target' <= HalfTurn - 1
                      /\ pc' = "turn" /\ motors' = "left" /\ 0 < degree + Sample
    BY <1>1, <1>2, <1>3 DEF LeftTurn
  <2>1. ~(theta + degree < 0) /\ ~(theta + degree > HalfTurn - 1)
    BY <1>5
  <2>2. target' = theta + degree /\ target' <= HalfTurn - 1 /\ 0 < degree + Sample
    BY <1>2, <1>6, <2>1, SMT
  <2>3. degree # 0
    BY <1>2, SMT
  <2> QED BY <1>1, <2>2, <2>3
<1>8. WrappedTurn'
  <2> SUFFICES ASSUME degree > 0, wrapped'
               PROVE  /\ target' = theta + degree - (HalfTurn - 1) /\ target' >= 1
                      /\ pc' = "wrap" /\ motors' = "left"
    BY <1>1, <1>2, <1>3 DEF WrappedTurn
  <2>1. ~(theta + degree < 0)
    BY <1>2, SMT
  <2>2. target' = theta + degree - (HalfTurn - 1) /\ target' >= 1
    BY <1>2, <1>5, <1>6, <2>1, SMT
  <2>3. degree # 0
    BY <1>2, SMT
  <2> QED BY <1>1, <2>2, <2>3
<1>9. RightTurn'
  <2> SUFFICES ASSUME degree < 0
               PROVE  /\ target' = theta + degree /\ target' >= 0
                      /\ pc' = "turn" /\ motors' = "right" /\ theta > target' - Sample
    BY <1>1, <1>2, <1>3 DEF RightTurn
  <2>1. theta + degree >= 0 /\ theta + degree <= HalfTurn - 1
    BY <1>2, SMT
  <2>2. ~(theta + degree < 0) /\ ~(theta + degree > HalfTurn - 1)
    BY <1>2, <2>1, SMT
  <2>3. target' = theta + degree /\ ~wrapped'
    BY <1>5, <1>6, <2>2
  <2>4. degree # 0 /\ ~(degree > 0) /\ theta > target' - Sample
    BY <1>2, <2>3, SMT
  <2> QED BY <1>1, <2>1, <2>3, <2>4
<1> QED BY <1>4, <1>7, <1>8, <1>9 DEF TurnInv

LEMMA InFullTick ==
    ASSUME Room, IInv, CallInv, TurnInv, program = "rot_deg", RotDegTick, pc # "start", ~unseen'
    PROVE  TurnInv'
<1>1. /\ Types /\ WorldTick /\ Blocked
      /\ UNCHANGED <<motors, degree, prev_head, target, wrapped>>
      /\ pc' = IF pc = "sleep" THEN "wake" ELSE pc
      /\ degree \in Degrees /\ prev_head \in DegStarts
      /\ rps = Reading(theta) /\ theta = prev_head + turned
  BY DEF IInv, CallInv, TurnInv, InSightInv, RotDegTick, rotDegVars, localVars
<1>2. rps' = Reading(theta') /\ theta' \in Angle
  BY <1>1, TickFacts DEF WorldTick, ReportComes
<1> DEFINE h == prev_head
<1>3. /\ h \in Nat /\ h >= 1 /\ h < HalfTurn /\ degree \in Int
      /\ HalfTurn \in Nat /\ Sample \in Nat /\ Sample >= 1 /\ Sample <= 90 * Degree
      /\ Degree \in Nat /\ Degree >= 1 /\ HalfTurn = 180 * Degree /\ FullTurn = 360 * Degree
      /\ degree > 0 /\ h + degree <= HalfTurn - 1 => h + degree <= HalfTurn - Sample
      /\ degree > 0 /\ h + degree > HalfTurn - 1 =>
            h >= Sample /\ h + degree - (HalfTurn - 1) <= HalfTurn - Sample
      /\ degree < 0 => h + degree >= Sample - 1
      /\ theta \in Nat /\ turned \in Int
  BY <1>1, RoomFacts, Units, SMT DEF Types, Angle
\* A rate to the left, or to the right, as long as the circle does not close.
<1>4. ASSUME motors = "left"
      PROVE  \E rate \in 1..Sample :
                turned' = turned + rate /\ (theta + rate < FullTurn => theta' = theta + rate)
  <2>1. PICK rate \in 1..Sample : turned' = turned + rate /\ theta' = (theta + rate) % FullTurn
    BY <1>1, <1>4, TickFacts
  <2>2. rate \in 0..QuarterTurn
    BY SampleIsMost, Units, SMT
  <2>3. theta + rate < FullTurn => theta' = theta + rate
    BY <1>1, <2>1, <2>2, Around DEF Types
  <2> QED BY <2>1, <2>3
<1>5. ASSUME motors = "right"
      PROVE  \E rate \in 1..Sample :
                turned' = turned - rate /\ (theta - rate >= 0 => theta' = theta - rate)
  <2>1. PICK rate \in 1..Sample : turned' = turned - rate /\ theta' = (theta - rate) % FullTurn
    BY <1>1, <1>5, TickFacts
  <2>2. rate \in 0..QuarterTurn
    BY SampleIsMost, Units, SMT
  <2>3. theta - rate >= 0 => theta' = theta - rate
    BY <1>1, <2>1, <2>2, Around DEF Types
  <2> QED BY <2>1, <2>3
<1>6. degree # 0
  BY <1>1 DEF TurnInv, NoTurn, Blocked
<1>7. CASE degree > 0 /\ ~wrapped
  <2>1. /\ target = h + degree /\ target <= HalfTurn - 1 /\ target <= HalfTurn - Sample
        /\ pc = "turn" /\ motors = "left" /\ turned >= 0 /\ turned < degree + Sample
        /\ rps < target
    BY <1>1, <1>3, <1>7 DEF TurnInv, LeftTurn, Blocked, StillTurning
  <2>2. theta < HalfTurn
    BY <1>1, <1>3, <2>1, SMT
  <2>3. theta < target
    BY <1>1, <2>1, <2>2 DEF Reading
  <2>4. PICK rate \in 1..Sample :
           turned' = turned + rate /\ (theta + rate < FullTurn => theta' = theta + rate)
    BY <1>4, <2>1
  <2>5. theta' = theta + rate /\ turned' >= 0 /\ turned' < degree + Sample /\ theta' = h + turned'
    BY <1>1, <1>3, <2>1, <2>3, <2>4, SMT
  <2>6. ~(degree < 0)
    BY <1>3, <1>7, SMT
  <2> QED BY <1>1, <1>2, <1>6, <1>7, <2>1, <2>4, <2>5, <2>6
          DEF TurnInv, InSightInv, NoTurn, LeftTurn, WrappedTurn, RightTurn
<1>8. CASE degree > 0 /\ wrapped
  <2>1. /\ target = h + degree - (HalfTurn - 1) /\ target >= 1
        /\ motors = "left" /\ turned >= 0 /\ pc \in {"wrap", "sleep", "turn"}
        /\ pc \in {"wrap", "sleep"} => theta < HalfTurn
        /\ pc = "turn" => theta >= HalfTurn /\ theta < HalfTurn + target + Sample
    BY <1>1, <1>8 DEF TurnInv, WrappedTurn, Blocked
  <2>2. h >= Sample /\ target <= HalfTurn - Sample
    BY <1>3, <1>8, <2>1, SMT
  <2>3. PICK rate \in 1..Sample :
           turned' = turned + rate /\ (theta + rate < FullTurn => theta' = theta + rate)
    BY <1>4, <2>1
  <2>4. ~(degree < 0)
    BY <1>3, <1>8, SMT
  <2>5. pc # "wrap"
    <3>1. pc = "wrap" => rps = theta /\ theta >= 1
      BY <1>1, <1>3, <2>1, SMT DEF Reading
    <3> QED BY <1>1, <1>3, <3>1, SMT DEF Blocked, RpsFailure
  <2>6. CASE pc = "sleep"
    <3>1. theta' = theta + rate /\ turned' >= 0 /\ theta' < HalfTurn + Sample /\ theta' = h + turned'
      BY <1>1, <1>3, <2>1, <2>3, <2>6, SMT
    <3>2. pc' = "wake"
      BY <1>1, <2>6
    <3> QED BY <1>1, <1>2, <1>6, <1>8, <2>1, <2>4, <3>1, <3>2
            DEF TurnInv, InSightInv, NoTurn, LeftTurn, WrappedTurn, RightTurn
  <2>7. CASE pc = "turn"
    <3>1. rps < target
      BY <1>1, <1>8, <2>7 DEF Blocked, StillTurning
    <3>2. theta - HalfTurn < target
      BY <1>1, <1>3, <2>1, <2>7, <3>1, SMT DEF Reading
    <3>3. /\ theta' = theta + rate /\ turned' >= 0 /\ theta' >= HalfTurn
          /\ theta' < HalfTurn + target + Sample /\ theta' = h + turned'
      BY <1>1, <1>3, <2>1, <2>2, <2>3, <2>7, <3>2, SMT
    <3>4. pc' = "turn"
      BY <1>1, <2>7
    <3> QED BY <1>1, <1>2, <1>6, <1>8, <2>1, <2>4, <3>3, <3>4
            DEF TurnInv, InSightInv, NoTurn, LeftTurn, WrappedTurn, RightTurn
  <2> QED BY <2>1, <2>5, <2>6, <2>7
<1>9. CASE degree < 0
  <2>1. /\ target = h + degree /\ target >= 0 /\ target >= Sample - 1
        /\ pc = "turn" /\ motors = "right" /\ turned <= 0 /\ ~(degree > 0) /\ rps > target
    BY <1>1, <1>3, <1>9, SMT DEF TurnInv, RightTurn, Blocked, StillTurning
  <2>2. theta < HalfTurn /\ rps = theta
    BY <1>1, <1>3, <2>1, SMT DEF Reading
  <2>3. PICK rate \in 1..Sample :
           turned' = turned - rate /\ (theta - rate >= 0 => theta' = theta - rate)
    BY <1>5, <2>1
  <2>4. theta' = theta - rate /\ turned' <= 0 /\ theta' > target - Sample /\ theta' = h + turned'
    BY <1>1, <1>3, <2>1, <2>2, <2>3, SMT
  <2> QED BY <1>1, <1>2, <1>6, <1>9, <2>1, <2>4
          DEF TurnInv, InSightInv, NoTurn, LeftTurn, WrappedTurn, RightTurn
<1> QED BY <1>3, <1>6, <1>7, <1>8, <1>9, SMT

LEMMA InFullPoll ==
    ASSUME Room, IInv, CallInv, TurnInv, program = "rot_deg", SeesHeading \/ Wake
    PROVE  TurnInv'
<1>1. /\ UNCHANGED <<theta, turned, rps, motors, degree, prev_head, target, wrapped>>
      /\ degree \in Degrees /\ prev_head \in DegStarts
      /\ rps = Reading(theta) /\ theta = prev_head + turned
      /\ pc \in {"wrap", "wake"}
  BY DEF CallInv, TurnInv, InSightInv, SeesHeading, Wake, worldVars, rotDegVars, localVars
<1>2. InSightInv'
  BY <1>1 DEF InSightInv
<1>3. degree # 0 /\ ~(degree < 0) /\ ~(degree > 0 /\ ~wrapped)
  BY <1>1 DEF TurnInv, NoTurn, LeftTurn, RightTurn
<1>4. degree \in Int /\ degree > 0 /\ wrapped
  BY <1>1, <1>3, RoomFacts, SMT
<1>5. /\ target = prev_head + degree - (HalfTurn - 1) /\ target >= 1
      /\ motors = "left" /\ turned >= 0
      /\ pc = "wrap" => theta < HalfTurn
      /\ pc = "wake" => theta < HalfTurn + Sample
  BY <1>1, <1>4 DEF TurnInv, WrappedTurn
<1>6. /\ pc' \in {"wrap", "sleep", "turn"}
      /\ pc' \in {"wrap", "sleep"} => theta < HalfTurn
      /\ pc' = "turn" => theta >= HalfTurn /\ theta < HalfTurn + target + Sample
  <2>1. CASE SeesHeading
    BY <1>5, <2>1 DEF SeesHeading
  <2>2. CASE Wake
    <3>1. pc = "wake" /\ pc' = IF prev_head <= rps THEN "wrap" ELSE "turn"
      BY <1>4, <2>2 DEF Wake, StillWrapping
    <3>2. /\ prev_head \in Nat /\ prev_head >= Sample /\ prev_head < HalfTurn
          /\ HalfTurn \in Nat /\ Sample \in Nat /\ turned \in Int
      <4>1. /\ prev_head \in Nat /\ prev_head < HalfTurn
            /\ HalfTurn \in Nat /\ Sample \in Nat /\ turned \in Int
            /\ prev_head + degree > HalfTurn - 1 => prev_head >= Sample
        BY <1>1, <1>4, RoomFacts DEF IInv, Types
      <4>2. prev_head + degree > HalfTurn - 1
        BY <1>4, <1>5, <4>1, SMT
      <4> QED BY <4>1, <4>2
    <3>3. theta < HalfTurn <=> prev_head <= rps
      BY <1>1, <1>5, <3>1, <3>2, SMT DEF Reading
    <3>4. theta >= HalfTurn => theta < HalfTurn + target + Sample
      BY <1>1, <1>4, <1>5, <3>1, <3>2, SMT
    <3> QED BY <1>1, <3>1, <3>2, <3>3, <3>4, SMT
  <2> QED BY <2>1, <2>2
<1>7. WrappedTurn'
  BY <1>1, <1>5, <1>6 DEF WrappedTurn
<1> QED BY <1>1, <1>2, <1>3, <1>4, <1>7 DEF TurnInv, NoTurn, LeftTurn, RightTurn

LEMMA InFullArrive ==
    ASSUME Room, IInv, CallInv, TurnInv, program = "rot_deg", Arrive
    PROVE  TurnInv'
<1>1. /\ UNCHANGED <<theta, turned, rps, motors, degree, prev_head, target, wrapped>>
      /\ degree \in Degrees /\ prev_head \in DegStarts
      /\ rps = Reading(theta) /\ theta = prev_head + turned
      /\ pc = "turn" /\ pc' = "stop" /\ ~StillTurning /\ turned \in Int
  BY DEF IInv, Types, CallInv, TurnInv, InSightInv, Arrive, worldVars, rotDegVars, localVars
<1>2. /\ prev_head \in Nat /\ prev_head < HalfTurn /\ degree \in Int /\ HalfTurn \in Nat
      /\ Sample \in Nat
  BY <1>1, RoomFacts
<1>3. InSightInv' /\ NoTurn'
  BY <1>1 DEF TurnInv, InSightInv, NoTurn
<1>4. LeftTurn'
  <2> SUFFICES ASSUME degree > 0, ~wrapped PROVE LeftTurn'
    BY <1>1 DEF LeftTurn
  <2>1. /\ target = prev_head + degree /\ target <= HalfTurn - 1
        /\ turned >= 0 /\ turned < degree + Sample
    BY <1>1 DEF TurnInv, LeftTurn
  <2>2. ~(rps < target)
    BY <1>1 DEF StillTurning
  <2>3. turned >= degree
    BY <1>1, <1>2, <2>1, <2>2, SMT DEF Reading
  <2> QED BY <1>1, <2>1, <2>3 DEF LeftTurn
<1>5. WrappedTurn'
  <2> SUFFICES ASSUME degree > 0, wrapped PROVE WrappedTurn'
    BY <1>1 DEF WrappedTurn
  <2>1. /\ target = prev_head + degree - (HalfTurn - 1) /\ target >= 1 /\ turned >= 0
        /\ theta >= HalfTurn /\ theta < HalfTurn + target + Sample
    BY <1>1 DEF TurnInv, WrappedTurn
  <2>2. ~(rps < target)
    BY <1>1 DEF StillTurning
  <2>3. theta >= HalfTurn + target
    BY <1>1, <1>2, <2>1, <2>2, SMT DEF Reading
  <2> QED BY <1>1, <2>1, <2>3 DEF WrappedTurn
<1>6. RightTurn'
  <2> SUFFICES ASSUME degree < 0 PROVE RightTurn'
    BY <1>1 DEF RightTurn
  <2>1. target = prev_head + degree /\ target >= 0 /\ turned <= 0 /\ theta > target - Sample
    BY <1>1 DEF TurnInv, RightTurn
  <2>2. ~(rps > target) /\ ~(degree > 0)
    BY <1>1, <1>2, SMT DEF StillTurning
  <2>3. theta <= target
    BY <1>1, <1>2, <2>1, <2>2, SMT DEF Reading
  <2> QED BY <1>1, <2>1, <2>3 DEF RightTurn
<1> QED BY <1>3, <1>4, <1>5, <1>6 DEF TurnInv

LEMMA InFullStop == ASSUME TurnInv, StopTurn PROVE TurnInv'
<1>1. /\ UNCHANGED <<theta, turned, rps, degree, prev_head, target, wrapped>>
      /\ pc = "stop" /\ pc' = "done"
  BY DEF StopTurn, worldVars, rotDegVars, localVars
<1> QED BY <1>1 DEF TurnInv, InSightInv, NoTurn, LeftTurn, WrappedTurn, RightTurn

LEMMA InFullStep == ASSUME Room, IInv, CallInv, InFullInv, [Next]_vars PROVE InFullInv'
<1> SUFFICES ASSUME program' = "rot_deg", pc' # "start", ~unseen' PROVE TurnInv'
  BY DEF InFullInv
<1>1. CASE RotDegStep
  <2>1. program = "rot_deg" /\ RotDegNext
    BY <1>1 DEF RotDegStep
  <2>2. CASE pc = "start"
    <3>1. Begin
      BY <2>1, <2>2 DEF RotDegNext, RotDegTick, SeesHeading, Wake, Arrive, StopTurn
    <3> QED BY <2>1, <3>1, InFullBegin
  <2>3. CASE pc # "start"
    <3>1. ~unseen
      BY <2>1, <2>3 DEF RotDegNext, RotDegTick, WorldTick, ReportComes, Begin, SeesHeading, Wake,
                        Arrive, StopTurn, worldVars
    <3>2. TurnInv
      BY <2>1, <2>3, <3>1 DEF InFullInv
    <3> QED BY <2>1, <2>3, <3>2, InFullTick, InFullPoll, InFullArrive, InFullStop
            DEF RotDegNext, Begin
  <2> QED BY <2>2, <2>3
<1>2. CASE RotHeadStep
  BY <1>2 DEF RotHeadStep
<1>3. CASE UNCHANGED vars
  BY <1>3 DEF vars, worldVars, rotDegVars, localVars, InFullInv, TurnInv, InSightInv, NoTurn,
              LeftTurn, WrappedTurn, RightTurn
<1> QED BY <1>1, <1>2, <1>3 DEF Next

\* In sight, every turn that has room for its samples ends where it was asked to,
\* a sample late at most, and a wrapped one the smallest angle late.
THEOREM RotatesInFull == Room /\ Spec => []RotatesAsSpecified
<1> SUFFICES ASSUME Room PROVE Spec => []RotatesAsSpecified
  OBVIOUS
<1>1. Init => InFullInv
  BY DEF Init, InFullInv
<1>2. IInv /\ CallInv /\ InFullInv /\ [Next]_vars => InFullInv'
  BY InFullStep
<1>3. IInv /\ CallInv /\ InFullInv => RotatesAsSpecified
  <2> SUFFICES ASSUME IInv, CallInv, InFullInv, Done({"rot_deg"}), ~unseen
               PROVE  /\ Magnitude(turned) <= Magnitude(degree) + 2 * Sample + 1
                      /\ Magnitude(turned) >= Magnitude(degree) - 1
    BY DEF RotatesAsSpecified
  <2>1. TurnInv /\ pc = "done" /\ degree \in Degrees
    BY DEF Done, InFullInv, CallInv
  <2>2. prev_head \in DegStarts /\ theta = prev_head + turned /\ turned \in Int
    BY <2>1 DEF TurnInv, InSightInv, IInv, Types
  <2>3. /\ prev_head \in Nat /\ degree \in Int /\ HalfTurn \in Nat /\ Sample \in Nat /\ Sample >= 1
    BY <2>1, <2>2, RoomFacts
  <2>4. CASE degree = 0
    BY <2>1, <2>3, <2>4, SMT DEF TurnInv, NoTurn, Magnitude
  <2>5. CASE degree > 0 /\ ~wrapped
    <3>1. turned >= 0 /\ turned < degree + Sample /\ turned >= degree
      BY <2>1, <2>5 DEF TurnInv, LeftTurn
    <3> QED BY <2>2, <2>3, <2>5, <3>1, SMT DEF Magnitude
  <2>6. CASE degree > 0 /\ wrapped
    <3>1. /\ target = prev_head + degree - (HalfTurn - 1) /\ turned >= 0
          /\ theta < HalfTurn + target + Sample /\ theta >= HalfTurn + target
      BY <2>1, <2>6 DEF TurnInv, WrappedTurn
    <3> QED BY <2>2, <2>3, <2>6, <3>1, SMT DEF Magnitude
  <2>7. CASE degree < 0
    <3>1. /\ target = prev_head + degree /\ turned <= 0
          /\ theta > target - Sample /\ theta <= target
      BY <2>1, <2>7 DEF TurnInv, RightTurn
    <3> QED BY <2>2, <2>3, <2>7, <3>1, SMT DEF Magnitude
  <2> QED BY <2>3, <2>4, <2>5, <2>6, <2>7, SMT
<1> QED BY <1>1, <1>2, <1>3, Invariance, CallInvariance, PTL DEF Spec

-------------------------------------------------------------------------------
\* rot_head turns on as long as the heading it has stored is off its goal, and a
\* heading it has not been able to renew is one it has decided on before.
AtGoal == Near(HeadDiff(head, goal), HeadErr)

HeadInv ==
    program # "rot_deg" =>
        /\ theta \in Angle /\ head \in Angle /\ goal \in Goals /\ rps \in Report /\ SeenInv
        /\ program = "rot_head" => pc \in {"update", "decide", "rest", "done"}
        /\ program = "crct_head" => pc \in {"crct_decide", "crct_poll", "done"}
        /\ pc \in {"update", "decide"} => Reading(head) = Reading(theta) \/ ~AtGoal
        /\ pc = "rest" => ~AtGoal
        /\ pc = "done" => motors = "off"
        /\ program = "rot_head" /\ pc = "done" => Reading(head) = Reading(theta) /\ AtGoal
        /\ program = "crct_head" /\ pc = "done" => Near(HeadDiff(goal, rps), CrctErr)

LEMMA HeadInitial == Init => HeadInv
<1> SUFFICES ASSUME Init, program # "rot_deg" PROVE HeadInv
  BY DEF HeadInv
<1>1. /\ theta \in HeadStarts /\ goal \in Goals /\ head = theta
      /\ rps \in {Reading(theta), RpsFailure}
      /\ \/ program = "rot_head" /\ pc = "update"
         \/ program = "crct_head" /\ pc = "crct_decide"
  BY DEF Init, WorldInit, RotHeadInit
<1>2. theta \in Angle /\ 0 \in Report
  BY <1>1, TurnsAssumption, Units, SMT DEF Report
<1>3. rps \in Report /\ SeenInv
  BY <1>1, <1>2, ReadingType DEF SeenInv, RpsFailure
<1> QED BY <1>1, <1>2, <1>3 DEF HeadInv

LEMMA HeadStep == ASSUME IInv, HeadInv, [Next]_vars PROVE HeadInv'
<1>1. CASE RotDegStep
  BY <1>1 DEF RotDegStep, HeadInv
<1>2. CASE UNCHANGED vars
  BY <1>2 DEF vars, worldVars, rotHeadVars, HeadInv, SeenInv, AtGoal
<1>3. CASE RotHeadStep
  <2>1. /\ program # "rot_deg" /\ program' = program /\ goal' = goal
        /\ theta \in Angle /\ head \in Angle /\ goal \in Goals /\ rps \in Report /\ SeenInv
        /\ program = "rot_head" => pc \in {"update", "decide", "rest", "done"}
        /\ program = "crct_head" => pc \in {"crct_decide", "crct_poll", "done"}
    BY <1>3 DEF RotHeadStep, RotHeadNext, ud_head, RotHeadDecide, CrctHeadDecide, RotHeadTick,
                rotHeadVars, HeadInv
  <2>2. CASE ud_head
    <3>1. /\ pc = "update" /\ pc' = "decide" /\ UNCHANGED <<theta, rps>>
          /\ head' = IF rps = RpsFailure THEN head ELSE NewHead(head, rps)
          /\ Reading(head) = Reading(theta) \/ ~AtGoal
      BY <2>1, <2>2 DEF ud_head, worldVars, HeadInv
    <3>2. CASE rps = RpsFailure
      BY <2>1, <3>1, <3>2 DEF HeadInv, SeenInv, AtGoal
    <3>3. CASE rps # RpsFailure
      <4>1. head' \in Angle /\ Reading(head') = Reading(theta)
        BY <2>1, <3>1, <3>3, NewHeadShows DEF SeenInv
      <4> QED BY <2>1, <3>1, <4>1 DEF HeadInv, SeenInv
    <3> QED BY <3>2, <3>3
  <2>3. CASE RotHeadDecide
    <3>1. /\ pc = "decide" /\ UNCHANGED <<theta, rps, head>>
          /\ Reading(head) = Reading(theta) \/ ~AtGoal
      BY <1>3, <2>1, <2>3 DEF RotHeadDecide, worldVars, rotHeadVars, HeadInv
    <3>2. CASE Steer(HeadDiff(head, goal), HeadErr) /\ pc' = "rest"
      <4>1. HeadDiff(head, goal) \in Int /\ HeadErr \in Int
        <5>1. head \in Int /\ goal \in Int /\ HalfTurn \in Int /\ QuarterTurn \in Int
          BY <2>1, TurnsAssumption, Units, SMT DEF Angle
        <5> QED BY <5>1, RotHeadAssumption, SMT DEF HeadDiff
      <4>2. HeadDiff(head, goal) > HeadErr \/ HeadDiff(head, goal) < -HeadErr
        BY <3>2 DEF Steer
      <4>3. ~AtGoal
        BY <4>1, <4>2, SMT DEF AtGoal, Near
      <4> QED BY <2>1, <3>1, <3>2, <4>3 DEF HeadInv, SeenInv, AtGoal
    <3>3. CASE AtGoal /\ motors' = "off" /\ pc' = "done"
      BY <2>1, <3>1, <3>3 DEF HeadInv, SeenInv, AtGoal
    <3> QED BY <2>3, <3>2, <3>3 DEF RotHeadDecide, AtGoal
  <2>4. CASE CrctHeadDecide
    <3>1. pc = "crct_decide" /\ UNCHANGED <<theta, rps, head>>
      BY <2>4 DEF CrctHeadDecide, worldVars, rotHeadVars
    <3>2. CASE pc' = "crct_poll"
      BY <2>1, <3>1, <3>2 DEF HeadInv, SeenInv
    <3>3. CASE Near(HeadDiff(goal, rps), CrctErr) /\ motors' = "off" /\ pc' = "done"
      BY <2>1, <3>1, <3>3 DEF HeadInv, SeenInv
    <3> QED BY <2>4, <3>2, <3>3 DEF CrctHeadDecide
  <2>5. CASE RotHeadTick
    <3>1. /\ pc \in {"rest", "crct_poll"} /\ head' = head
          /\ pc' = IF pc = "rest" THEN "update" ELSE "crct_decide"
      BY <2>5 DEF RotHeadTick, rotHeadVars
    <3>2. theta' \in Angle /\ rps' \in Report /\ SeenInv'
      BY <2>5, TickFacts DEF RotHeadTick, IInv
    <3>3. pc = "rest" => ~AtGoal /\ ~AtGoal'
      BY <2>1, <3>1 DEF HeadInv, AtGoal
    <3> QED BY <2>1, <3>1, <3>2, <3>3 DEF HeadInv
  <2> QED BY <1>3, <2>2, <2>3, <2>4, <2>5 DEF RotHeadStep, RotHeadNext
<1> QED BY <1>1, <1>2, <1>3 DEF Next

\* Wherever the robot is out of sight on the way, rot_head ends with the robot at
\* its goal as its reports show it, and so does crct_head if the last report was
\* one: for goals that are reports, which head_diff is made for.
THEOREM HeadingReached == Goals \subseteq Report /\ Spec => []StopsAtHeading
<1>1. ASSUME Goals \subseteq Report, HeadInv PROVE StopsAtHeading
  <2> DEFINE miss == Magnitude(Turn(Reading(theta), Reading(goal), HalfTurn))
  <2>1. ASSUME Done({"rot_head"}) PROVE motors = "off" /\ miss <= HeadErr + 1
    <3>1. /\ motors = "off" /\ Reading(head) = Reading(theta) /\ AtGoal
          /\ head \in Angle /\ goal \in Report
      BY <1>1, <2>1 DEF HeadInv, Done
    <3>2. Reading(goal) = goal /\ HeadErr \in Nat
      BY <3>1, Units, RotHeadAssumption, SMT DEF Report, Reading
    <3>3. Magnitude(Turn(Reading(head), goal, HalfTurn)) <= HeadErr + 1
      BY <3>1, <3>2, NearMeansClose DEF AtGoal, Near
    <3> QED BY <3>1, <3>2, <3>3
  <2>2. ASSUME Done({"crct_head"}), rps # RpsFailure PROVE motors = "off" /\ miss <= CrctErr + 1
    <3>1. /\ motors = "off" /\ rps = Reading(theta) /\ Near(HeadDiff(goal, rps), CrctErr)
          /\ rps \in Report /\ goal \in Report
      BY <1>1, <2>2 DEF HeadInv, Done, SeenInv
    <3>2. goal \in Angle /\ CrctErr \in Nat
      BY <3>1, Units, RotHeadAssumption, SMT DEF Report, Angle
    <3>3. Magnitude(Turn(rps, Reading(goal), HalfTurn)) <= CrctErr + 1
      BY <3>1, <3>2, NearMeansClose DEF Near
    <3> QED BY <3>1, <3>3
  <2> QED BY <2>1, <2>2 DEF StopsAtHeading
<1>2. SUFFICES ASSUME Goals \subseteq Report PROVE Spec => []StopsAtHeading
  BY <1>2
<1>3. HeadInv => StopsAtHeading
  BY <1>1, <1>2
<1> QED BY <1>3, HeadInitial, HeadStep, Invariance, PTL DEF Spec

-------------------------------------------------------------------------------
\* The target of a left turn is half a turn at most, and below half a turn unless
\* the call is for half a turn from the last heading before the wrap.
Reportable == \A h \in DegStarts, d \in Degrees : h + d < 2 * HalfTurn - 1

TypeInv ==
    /\ program \in {"rot_deg", "rot_head", "crct_head"}
    /\ program = "rot_deg" => pc \in {"start", "wrap", "sleep", "wake", "turn", "stop", "done"}
    /\ turned \in -MaxTurn..MaxTurn /\ outage \in 0..MaxOutage /\ unseen \in BOOLEAN
    /\ motors \in {"left", "right", "off"}
    /\ current_head \in Report /\ wrapped \in BOOLEAN
    /\ target \in 0..2 * HalfTurn
    /\ goal \in Angle /\ head \in Angle

TargetInv == degree > 0 => target \in Report

LEMMA TypeInitial == Init => TypeInv /\ TargetInv
<1> SUFFICES ASSUME Init PROVE TypeInv /\ TargetInv
  OBVIOUS
<1>1. 0 \in Report /\ 0 \in Angle /\ 0 \in 0..2 * HalfTurn /\ Report \subseteq Angle
  BY Units, SMT DEF Report, Angle
<1>2. 0 \in -MaxTurn..MaxTurn /\ 0 \in 0..MaxOutage
  BY TurningAssumption, SMT
<1>3. turned = 0 /\ outage = 0 /\ motors = "off" /\ unseen \in BOOLEAN
  BY DEF Init, WorldInit
<1>4. current_head = 0 /\ wrapped = FALSE /\ target = 0
  BY DEF Init, RotDegInit
<1>5. theta \in Angle /\ head = theta /\ goal \in Angle
  BY <1>1, TurnsAssumption DEF Init, WorldInit, RotHeadInit
<1> QED BY <1>1, <1>2, <1>3, <1>4, <1>5 DEF Init, TypeInv, TargetInv

LEMMA MagnitudeBound ==
    ASSUME NEW n \in Nat, NEW a \in Int, Magnitude(a) <= n PROVE a \in -n..n
<1>1. CASE a < 0
  BY <1>1, SMT DEF Magnitude
<1>2. CASE ~(a < 0)
  BY <1>2, SMT DEF Magnitude
<1> QED BY <1>1, <1>2

LEMMA TypeTick ==
    ASSUME TypeInv, WorldTick
    PROVE  turned' \in -MaxTurn..MaxTurn /\ outage' \in 0..MaxOutage /\ unseen' \in BOOLEAN
<1>1. MaxTurn \in Nat /\ MaxOutage \in Nat
  BY TurningAssumption
<1>2. turned' \in -MaxTurn..MaxTurn
  <2>1. PICK rate \in Rates : turned' = turned + Direction * rate
    BY DEF WorldTick
  <2>2. rate \in Int /\ turned \in Int
    BY <1>1, TurningAssumption, Units, SMT DEF TypeInv
  <2>3. turned' \in Int
    BY <2>1, <2>2, SMT DEF Direction
  <2>4. Magnitude(turned') <= MaxTurn
    BY DEF WorldTick
  <2> QED BY <1>1, <2>3, <2>4, MagnitudeBound
<1>3. outage' \in 0..MaxOutage
  <2>1. outage \in 0..MaxOutage
    BY DEF TypeInv
  <2> QED BY <1>1, <2>1, SMT DEF WorldTick, ReportComes
<1>4. unseen' \in BOOLEAN
  BY DEF WorldTick, ReportComes, TypeInv
<1> QED BY <1>2, <1>3, <1>4

LEMMA TypeBegin ==
    ASSUME IInv, CallInv, TypeInv, program = "rot_deg", program' = program,
           UNCHANGED rotHeadVars, Begin
    PROVE  TypeInv' /\ (Reportable => TargetInv')
<1>1. /\ rps # 0 /\ rps = Reading(theta) /\ theta \in DegStarts /\ degree \in Degrees
      /\ motors = "off" /\ current_head' = rps /\ rps \in Report
      /\ wrapped' = WrapsAround(rps + degree) /\ target' = Corrected(rps + degree)
      /\ pc' = IF degree = 0 THEN "stop" ELSE IF wrapped' THEN "wrap" ELSE "turn"
      /\ motors' = IF degree > 0 THEN "left" ELSE IF degree < 0 THEN "right" ELSE motors
      /\ UNCHANGED <<degree, turned, outage, unseen>>
  BY DEF IInv, Types, SeenInv, PhaseInv, CallInv, Begin, worldVars, RpsFailure
<1>2. /\ theta \in 1..HalfTurn - 1 /\ degree \in -HalfTurn..HalfTurn /\ HalfTurn \in Nat
  BY <1>1, TurnsAssumption, Units, SMT DEF Report
<1>3. rps = theta
  BY <1>1, <1>2, SMT DEF Reading
<1>4. Reportable => theta + degree < 2 * HalfTurn - 1
  BY <1>1 DEF Reportable
<1>5. target' = IF theta + degree < 0 THEN HalfTurn - (theta + degree)
                ELSE IF theta + degree > HalfTurn - 1 THEN theta + degree - (HalfTurn - 1)
                ELSE theta + degree
  BY <1>1, <1>2, <1>3, SMT DEF Corrected
<1>6. target' \in 0..2 * HalfTurn
  BY <1>2, <1>5, SMT
<1>7. Reportable => TargetInv'
  BY <1>1, <1>2, <1>4, <1>5, SMT DEF Report, TargetInv
<1>8. wrapped' \in BOOLEAN
  BY <1>1, Zenon DEF WrapsAround
<1>9. pc' \in {"stop", "wrap", "turn"} /\ motors' \in {"left", "right", "off"}
  BY <1>1
<1> QED BY <1>1, <1>6, <1>7, <1>8, <1>9 DEF TypeInv, Begin, rotHeadVars

LEMMA TypeStep ==
    ASSUME IInv, CallInv, HeadInv, TypeInv, [Next]_vars PROVE TypeInv'
<1>1. CASE RotDegStep
  <2>1. program = "rot_deg" /\ program' = program /\ goal' = goal /\ head' = head
    BY <1>1 DEF RotDegStep, rotHeadVars
  <2>2. CASE RotDegTick
    BY <2>1, <2>2, TypeTick DEF RotDegTick, TypeInv, rotDegVars, localVars
  <2>3. CASE Begin
    BY <1>1, <2>1, <2>3, TypeBegin DEF RotDegStep
  <2>4. CASE SeesHeading \/ Wake \/ Arrive \/ StopTurn
    BY <2>1, <2>4 DEF SeesHeading, Wake, Arrive, StopTurn, worldVars, rotDegVars, localVars,
                      TypeInv, IInv, Types
  <2> QED BY <1>1, <2>2, <2>3, <2>4 DEF RotDegStep, RotDegNext
<1>2. CASE RotHeadStep
  <2>1. program # "rot_deg" /\ program' = program /\ UNCHANGED rotDegVars
    BY <1>2 DEF RotHeadStep
  <2>2. CASE ud_head
    <3>1. head' \in Angle
      BY <2>1, <2>2, NewHeadShows DEF ud_head, HeadInv
    <3> QED BY <2>1, <2>2, <3>1 DEF ud_head, TypeInv, worldVars, rotDegVars, localVars
  <2>3. CASE RotHeadDecide \/ CrctHeadDecide
    <3>1. motors' \in {"left", "right", "off"}
      BY <2>3 DEF RotHeadDecide, CrctHeadDecide, Steer
    <3> QED BY <2>1, <2>3, <3>1 DEF RotHeadDecide, CrctHeadDecide, TypeInv, worldVars,
                                    rotHeadVars, rotDegVars, localVars
  <2>4. CASE RotHeadTick
    BY <2>1, <2>4, TypeTick DEF RotHeadTick, TypeInv, rotHeadVars, rotDegVars, localVars
  <2> QED BY <1>2, <2>2, <2>3, <2>4 DEF RotHeadStep, RotHeadNext
<1>3. CASE UNCHANGED vars
  BY <1>3 DEF vars, worldVars, rotDegVars, localVars, rotHeadVars, TypeInv
<1> QED BY <1>1, <1>2, <1>3 DEF Next

THEOREM TypeInvariance == Spec => []TypeInv
<1>1. Init => TypeInv
  BY TypeInitial
<1>2. IInv /\ CallInv /\ HeadInv /\ TypeInv /\ [Next]_vars => TypeInv'
  BY TypeStep
<1> QED BY <1>1, <1>2, HeadInitial, HeadStep, CallInvariance, Invariance, PTL DEF Spec

LEMMA TargetStep ==
    ASSUME Reportable, IInv, CallInv, TypeInv, TargetInv, [Next]_vars PROVE TargetInv'
<1>1. CASE RotDegStep /\ Begin
  BY <1>1, TypeBegin DEF RotDegStep
<1>2. CASE UNCHANGED <<degree, target>>
  BY <1>2 DEF TargetInv
<1> QED BY <1>1, <1>2 DEF Next, RotDegStep, RotDegNext, RotDegTick, SeesHeading, Wake, Arrive,
                          StopTurn, RotHeadStep, vars, rotDegVars, localVars

\* The variables of all three functions keep their types: the heading stored is one
\* of a full turn, and the target of a left turn one that can be reported, but for a
\* call of half a turn from 179.9 degrees, whose target is 180.
THEOREM TypeCorrect == Reportable /\ Spec => []TypeOK
<1> SUFFICES ASSUME Reportable PROVE Spec => []TypeOK
  OBVIOUS
<1>1. Init => TargetInv
  BY TypeInitial
<1>2. IInv /\ CallInv /\ TypeInv /\ TargetInv /\ [Next]_vars => TargetInv'
  BY TargetStep
<1>3. IInv /\ HeadInv /\ TypeInv /\ TargetInv => TypeOK
  BY DEF IInv, Types, HeadInv, TypeInv, TargetInv, TypeOK, WorldTypeOK, RotDegTypeOK, RotHeadTypeOK
<1> QED BY <1>1, <1>2, <1>3, HeadInitial, HeadStep, CallInvariance, TypeInvariance, Invariance,
           PTL DEF Spec

-------------------------------------------------------------------------------
\* The way rot_head turns as long as the heading it has stored is the same, and the
\* heading k further on that way.
Leftwards == HeadDiff(head, goal) > HeadErr

Along(k) ==
    IF Leftwards THEN IF head + k < FullTurn THEN head + k ELSE head + k - FullTurn
                 ELSE IF head - k >= 0 THEN head - k ELSE head - k + FullTurn

\* How far the robot may be on its way while it waits for a report other than zero:
\* as far as an outage lasts, or twice that, if it was seen in between where the
\* report of its heading is the one that stands for a failure.
Outage == outage * Sample
LongestOutage == MaxOutage * Sample

Unrenewed(k) ==
    \/ k <= Outage
    \/ \E z \in 0..k : /\ Reading(Along(z)) = 0
                       /\ z <= LongestOutage + Sample
                       /\ k - z <= Outage

TrueInv ==
    program = "rot_head" /\ pc # "done" =>
        /\ outage \in 0..MaxOutage
        /\ pc = "rest" => motors = IF Leftwards THEN "left" ELSE "right"
        /\ pc \in {"decide", "rest"} /\ rps # RpsFailure => head = theta
        /\ \E k \in 0..2 * (LongestOutage + Sample) :
              theta = Along(k) /\ (rps = RpsFailure => Unrenewed(k))

\* An outage ends before the robot has turned an eighth of a circle, even if the
\* heading 0 or 180 degrees follows it and another outage after that.
ShortOutages == 2 * (LongestOutage + Sample) < 45 * Degree

LEMMA TrueFacts ==
    ASSUME ShortOutages
    PROVE  /\ Sample \in Nat /\ Sample >= 1 /\ LongestOutage \in Nat
           /\ 2 * (LongestOutage + Sample) < 45 * Degree
           /\ Degree \in Nat /\ Degree >= 1
           /\ HalfTurn = 180 * Degree /\ FullTurn = 360 * Degree /\ QuarterTurn = 90 * Degree
<1>1. MaxOutage \in Nat /\ Sample \in Nat /\ Sample >= 1
  BY TurningAssumption, SampleIsMost
<1>2. LongestOutage \in Nat
  BY <1>1, SMT DEF LongestOutage
<1> QED BY <1>1, <1>2, Units DEF ShortOutages

\* One more tick of an outage is a sample more of it.
LEMMA OutageGrows ==
    ASSUME outage \in 0..MaxOutage, outage < MaxOutage, outage' = outage + 1
    PROVE  Outage' = Outage + Sample /\ Outage' <= LongestOutage /\ Outage \in Nat
<1>1. MaxOutage \in Nat /\ Sample \in Nat
  BY TurningAssumption, SampleIsMost
<1>2. /\ (outage + 1) * Sample = outage * Sample + Sample
      /\ (outage + 1) * Sample <= MaxOutage * Sample
      /\ outage * Sample \in Nat
  BY <1>1, SMT
<1> QED BY <1>2 DEF Outage, LongestOutage

LEMMA OutageType ==
    ASSUME outage \in 0..MaxOutage PROVE Outage \in Nat /\ Outage <= LongestOutage
<1>1. MaxOutage \in Nat /\ Sample \in Nat
  BY TurningAssumption, SampleIsMost
<1>2. outage * Sample <= MaxOutage * Sample /\ outage * Sample \in Nat
  BY <1>1, SMT
<1> QED BY <1>2 DEF Outage, LongestOutage

\* Within an eighth of a circle the report of where the robot is gives its heading.
LEMMA RenewedExactly ==
    ASSUME ShortOutages, head \in Angle, NEW k \in 0..2 * (LongestOutage + Sample)
    PROVE  Along(k) \in Angle /\ NewHead(head, Reading(Along(k))) = Along(k)
<1>1. /\ k \in Nat /\ k < 45 * Degree /\ Degree \in Nat /\ Degree >= 1
      /\ head \in 0..360 * Degree - 1 /\ FullTurn = 360 * Degree
  BY TrueFacts, SMT DEF Angle
<1>2. Along(k) \in Angle
  BY <1>1, SMT DEF Along, Angle
<1>3. Magnitude(Turn(head, Along(k), FullTurn)) < 45 * Degree
  <2>1. CASE Leftwards /\ head + k < FullTurn
    BY <1>1, <2>1, SMT DEF Along, Magnitude, Turn
  <2>2. CASE Leftwards /\ ~(head + k < FullTurn)
    BY <1>1, <2>2, SMT DEF Along, Magnitude, Turn
  <2>3. CASE ~Leftwards /\ head - k >= 0
    BY <1>1, <2>3, SMT DEF Along, Magnitude, Turn
  <2>4. CASE ~Leftwards /\ ~(head - k >= 0)
    BY <1>1, <2>4, SMT DEF Along, Magnitude, Turn
  <2> QED BY <2>1, <2>2, <2>3, <2>4
<1> QED BY <1>2, <1>3, NewHeadExact

\* Headings that report as zero are half a turn apart.
LEMMA OneZero ==
    ASSUME ShortOutages, head \in Angle,
           NEW y \in 0..2 * (LongestOutage + Sample), NEW z \in 0..2 * (LongestOutage + Sample),
           Reading(Along(y)) = 0, Reading(Along(z)) = 0
    PROVE  y = z
<1>1. /\ y \in Nat /\ y < 45 * Degree /\ z \in Nat /\ z < 45 * Degree
      /\ Degree \in Nat /\ Degree >= 1
      /\ head \in 0..360 * Degree - 1 /\ FullTurn = 360 * Degree /\ HalfTurn = 180 * Degree
  BY TrueFacts, SMT DEF Angle
<1>2. /\ Along(y) \in 0..360 * Degree - 1 /\ Along(z) \in 0..360 * Degree - 1
  BY <1>1, SMT DEF Along
<1>3. /\ Along(y) = 0 \/ Along(y) = 180 * Degree
      /\ Along(z) = 0 \/ Along(z) = 180 * Degree
  BY <1>1, <1>2, SMT DEF Reading
<1>4. CASE Leftwards
  BY <1>1, <1>3, <1>4, SMT DEF Along
<1>5. CASE ~Leftwards
  BY <1>1, <1>3, <1>5, SMT DEF Along
<1> QED BY <1>4, <1>5

LEMMA AlongZero == ASSUME head \in Angle PROVE Along(0) = head
<1>1. head \in Nat /\ head < FullTurn
  BY Units, SMT DEF Angle
<1> QED BY <1>1, SMT DEF Along

LEMMA TrueInitial == ShortOutages /\ Init => TrueInv
<1> SUFFICES ASSUME ShortOutages, Init, program = "rot_head" PROVE TrueInv
  BY DEF TrueInv
<1>1. pc = "update" /\ head = theta /\ outage = 0 /\ theta \in Angle
  BY TurnsAssumption DEF Init, WorldInit, RotHeadInit
<1>2. outage \in 0..MaxOutage /\ Outage \in Nat
  <2>1. outage \in 0..MaxOutage
    BY <1>1, TurningAssumption, SMT
  <2> QED BY <2>1, OutageType
<1>3. Along(0) = theta
  BY <1>1, AlongZero
<1>4. 0 \in 0..2 * (LongestOutage + Sample) /\ Unrenewed(0)
  BY <1>2, TrueFacts, SMT DEF Unrenewed
<1> QED BY <1>1, <1>2, <1>3, <1>4 DEF TrueInv

LEMMA TrueUpdate ==
    ASSUME ShortOutages, IInv, HeadInv, TrueInv, program = "rot_head", program' = program, ud_head
    PROVE  TrueInv'
<1>1. /\ pc = "update" /\ pc' = "decide" /\ UNCHANGED <<theta, rps, outage, goal, motors>>
      /\ head' = IF rps = RpsFailure THEN head ELSE NewHead(head, rps)
      /\ head \in Angle /\ SeenInv /\ outage \in 0..MaxOutage /\ theta \in Angle
  BY DEF ud_head, worldVars, HeadInv, TrueInv
<1>2. PICK k \in 0..2 * (LongestOutage + Sample) :
         theta = Along(k) /\ (rps = RpsFailure => Unrenewed(k))
  BY <1>1 DEF TrueInv
<1>3. CASE rps = RpsFailure
  BY <1>1, <1>2, <1>3 DEF TrueInv, Along, Leftwards, Unrenewed, Outage
<1>4. CASE rps # RpsFailure
  <2>1. head' = theta
    BY <1>1, <1>2, <1>4, RenewedExactly DEF SeenInv
  <2>2. Along(0)' = theta'
    <3>1. head' \in Nat /\ head' < FullTurn
      BY <1>1, <2>1, Units, SMT DEF Angle
    <3> QED BY <1>1, <2>1, <3>1, SMT DEF Along
  <2>3. 0 \in 0..2 * (LongestOutage + Sample)
    BY TrueFacts, SMT
  <2> QED BY <1>1, <1>4, <2>1, <2>2, <2>3 DEF TrueInv
<1> QED BY <1>3, <1>4

LEMMA TrueDecide ==
    ASSUME ShortOutages, IInv, HeadInv, TrueInv, program = "rot_head", program' = program,
           RotHeadDecide
    PROVE  TrueInv'
<1>1. /\ pc = "decide" /\ UNCHANGED <<theta, rps, outage, goal, head>>
  BY DEF RotHeadDecide, worldVars, rotHeadVars
<1>2. CASE pc' = "done"
  BY <1>2 DEF TrueInv
<1>3. CASE Steer(HeadDiff(head, goal), HeadErr) /\ pc' = "rest"
  <2>1. HeadErr \in Nat /\ HeadDiff(head, goal) \in Int
    <3>1. head \in Angle /\ goal \in Angle
      BY TurnsAssumption DEF HeadInv
    <3>2. head \in Int /\ goal \in Int
      BY <3>1, Units, SMT DEF Angle
    <3> QED BY <3>2, RotHeadAssumption, HeadDiffType
  <2>2. motors' = IF Leftwards THEN "left" ELSE "right"
    BY <1>3, <2>1, SMT DEF Steer, Leftwards
  <2> QED BY <1>1, <1>3, <2>2 DEF TrueInv, Along, Leftwards, Unrenewed, Outage
<1> QED BY <1>2, <1>3 DEF RotHeadDecide

LEMMA TrueTick ==
    ASSUME ShortOutages, IInv, HeadInv, TrueInv, program = "rot_head", program' = program,
           RotHeadTick
    PROVE  TrueInv'
<1>1. /\ pc = "rest" /\ pc' = "update" /\ UNCHANGED <<motors, goal, head>>
      /\ Types /\ WorldTick /\ head \in Angle /\ outage \in 0..MaxOutage /\ SeenInv
      /\ motors = IF Leftwards THEN "left" ELSE "right"
      /\ rps # RpsFailure => head = theta
  BY DEF RotHeadTick, rotHeadVars, HeadInv, IInv, TrueInv
<1> DEFINE far == 2 * (LongestOutage + Sample)
<1>2. /\ Sample \in Nat /\ Sample >= 1 /\ LongestOutage \in Nat
      /\ far \in Nat /\ far < 45 * Degree
      /\ Degree \in Nat /\ Degree >= 1 /\ FullTurn = 360 * Degree /\ QuarterTurn = 90 * Degree
      /\ Outage \in Nat /\ Outage <= LongestOutage
  BY <1>1, TrueFacts, OutageType, SMT
<1>3. PICK k \in 0..far : theta = Along(k) /\ (rps = RpsFailure => Unrenewed(k))
  BY <1>1 DEF TrueInv
\* Where the robot really was when it was last seen, if it has not moved from there.
<1>4. PICK j \in 0..far : theta = Along(j) /\ Unrenewed(j)
  <2>1. CASE rps = RpsFailure
    BY <1>3, <2>1
  <2>2. CASE rps # RpsFailure
    <3>1. theta = Along(0)
      BY <1>1, <2>2, AlongZero
    <3>2. Unrenewed(0) /\ 0 \in 0..far
      BY <1>2, SMT DEF Unrenewed
    <3> QED BY <3>1, <3>2
  <2> QED BY <2>1, <2>2
<1>5. PICK rate \in 1..Sample : theta' = Along(j + rate)
  <2>1. PICK rate \in 1..Sample :
           theta' = IF Leftwards THEN (theta + rate) % FullTurn ELSE (theta - rate) % FullTurn
    BY <1>1, TickFacts
  <2>2. rate \in 0..QuarterTurn /\ rate \in Nat /\ rate <= Sample /\ theta \in Angle
    <3>1. theta \in Angle
      BY <1>1 DEF Types
    <3> QED BY <1>2, <3>1, SampleIsMost, SMT
  <2>3. theta' = IF Leftwards
                 THEN IF theta + rate < FullTurn THEN theta + rate ELSE theta + rate - FullTurn
                 ELSE IF theta - rate >= 0 THEN theta - rate ELSE theta - rate + FullTurn
    BY <2>1, <2>2, Around
  <2>4. head \in 0..360 * Degree - 1 /\ j + rate < 90 * Degree /\ j \in Nat
    BY <1>1, <1>2, <2>2, SMT DEF Angle
  <2>5. theta' = Along(j + rate)
    <3>1. CASE Leftwards
      BY <1>2, <1>4, <2>2, <2>3, <2>4, <3>1, SMT DEF Along
    <3>2. CASE ~Leftwards
      BY <1>2, <1>4, <2>2, <2>3, <2>4, <3>2, SMT DEF Along
    <3> QED BY <3>1, <3>2
  <2> QED BY <2>5
<1> DEFINE k1 == j + rate
<1>6. k1 \in 0..far
  <2>1. j <= LongestOutage + Sample + LongestOutage
    BY <1>2, <1>4, SMT DEF Unrenewed
  <2> QED BY <1>2, <1>4, <1>5, <2>1, SMT
<1>7. \A z : Along(z)' = Along(z)
  BY <1>1 DEF Along, Leftwards
<1>8. CASE rps' = Reading(theta') /\ outage' = 0
  <2>1. outage' \in 0..MaxOutage
    BY <1>8, TurningAssumption, SMT
  <2>2. Outage' = 0
    BY <1>2, <1>8, SMT DEF Outage
  <2>3. rps' = RpsFailure => Unrenewed(k1)'
    <3> SUFFICES ASSUME rps' = 0 PROVE Unrenewed(k1)'
      BY DEF RpsFailure
    <3>1. Reading(Along(k1)) = 0
      BY <1>5, <1>8
    \* This is the first zero on the way: the robot has gone no further than the
    \* outage before it.
    <3>2. k1 <= LongestOutage + Sample
      <4>1. j <= Outage
        <5> SUFFICES ASSUME NEW z \in 0..j, Reading(Along(z)) = 0, z <= LongestOutage + Sample
                     PROVE FALSE
          BY <1>4 DEF Unrenewed
        <5>1. z \in 0..far /\ z # k1
          BY <1>2, <1>4, <1>5, <1>6, SMT
        <5> QED BY <1>1, <1>6, <3>1, <5>1, OneZero
      <4> QED BY <1>2, <1>4, <1>5, <4>1, SMT
    <3>3. k1 \in 0..k1 /\ k1 - k1 <= 0
      BY <1>6, SMT
    <3>4. Reading(Along(k1))' = 0 /\ (LongestOutage + Sample)' = LongestOutage + Sample
      BY <1>7, <3>1 DEF LongestOutage
    <3> HIDE DEF k1
    <3> QED BY <1>7, <2>2, <3>1, <3>2, <3>3 DEF Unrenewed, LongestOutage
  <2>4. theta' = Along(k1)'
    BY <1>5, <1>7
  <2> HIDE DEF k1
  <2> QED BY <1>1, <1>6, <2>1, <2>3, <2>4 DEF TrueInv, LongestOutage
<1>9. CASE outage < MaxOutage /\ rps' = RpsFailure /\ outage' = outage + 1
  <2>1. outage' \in 0..MaxOutage
    BY <1>1, <1>9, TurningAssumption, SMT
  <2>2. Outage' = Outage + Sample /\ Outage' <= LongestOutage
    BY <1>1, <1>9, OutageGrows
  <2>3. Unrenewed(k1)'
    <3>1. CASE j <= Outage
      <4>1. k1 <= Outage'
        BY <1>2, <1>4, <1>5, <2>2, <3>1, SMT
      <4> HIDE DEF k1
      <4> QED BY <4>1 DEF Unrenewed
    <3>2. ASSUME NEW z \in 0..j, Reading(Along(z)) = 0, z <= LongestOutage + Sample,
                 j - z <= Outage
          PROVE  Unrenewed(k1)'
      <4>1. z \in 0..k1 /\ k1 - z <= Outage'
        BY <1>2, <1>4, <1>5, <2>2, <3>2, SMT
      <4> HIDE DEF k1
      <4> QED BY <1>7, <3>2, <4>1 DEF Unrenewed, LongestOutage
    <3> QED BY <1>4, <3>1, <3>2 DEF Unrenewed
  <2>4. theta' = Along(k1)'
    BY <1>5, <1>7
  <2> HIDE DEF k1
  <2> QED BY <1>1, <1>6, <2>1, <2>3, <2>4 DEF TrueInv, LongestOutage
<1> QED BY <1>1, <1>8, <1>9 DEF WorldTick, ReportComes

LEMMA TrueStep ==
    ASSUME ShortOutages, IInv, HeadInv, TrueInv, [Next]_vars PROVE TrueInv'
<1>1. CASE RotDegStep
  BY <1>1 DEF RotDegStep, TrueInv
<1>2. CASE RotHeadStep
  <2>1. program' = program
    BY <1>2 DEF RotHeadStep
  <2>2. CASE program = "rot_head"
    <3>1. ~CrctHeadDecide
      BY <2>2 DEF CrctHeadDecide, HeadInv
    <3> QED BY <1>2, <2>1, <2>2, <3>1, TrueUpdate, TrueDecide, TrueTick
            DEF RotHeadStep, RotHeadNext
  <2>3. CASE program # "rot_head"
    BY <2>1, <2>3 DEF TrueInv
  <2> QED BY <2>2, <2>3
<1>3. CASE UNCHANGED vars
  BY <1>3 DEF vars, worldVars, rotHeadVars, TrueInv, Along, Leftwards, Unrenewed, Outage
<1> QED BY <1>1, <1>2, <1>3 DEF Next

\* However often the robot gets out of sight, and for however many half turns, the
\* heading rot_head has stored is its true one when it decides in sight, as long as
\* it turns less than an eighth of a circle in two of its longest outages.
THEOREM DecidesTruly == ShortOutages /\ Spec => []DecidesOnTrueHeading
<1> SUFFICES ASSUME ShortOutages PROVE Spec => []DecidesOnTrueHeading
  OBVIOUS
<1>1. Init => TrueInv
  BY TrueInitial
<1>2. IInv /\ HeadInv /\ TrueInv /\ [Next]_vars => TrueInv'
  BY TrueStep
<1>3. IInv /\ HeadInv /\ TrueInv /\ TypeInv => DecidesOnTrueHeading
  BY DEF HeadInv, TrueInv, DecidesOnTrueHeading, TypeInv
<1> QED BY <1>1, <1>2, <1>3, HeadInitial, HeadStep, Invariance, TypeInvariance, PTL DEF Spec

-------------------------------------------------------------------------------
\* The mission (Mission), whose turns are the calls of rot_deg above.  MissionInv says
\* for each step of the script at which headings it may begin (Band), and of a call
\* that runs where it began and how far it has come (Way), so that it ends (Ends)
\* where the next step may begin (Lands).
\*
\* The script, step by step.
LEMMA ScriptAt ==
    /\ Len(Script) = 34
    /\ Script[1] = Fork(15) /\ Script[2] = Fork(0) /\ Script[3] = Drive(90)
    /\ Script[4] = CorrectTo90 /\ Script[5] = Rotate(40) /\ Script[6] = Drive(130)
    /\ Script[7] = Rotate(-40) /\ Script[8] = CorrectTo90 /\ Script[9] = Drive(90)
    /\ Script[10] = Fork(-50) /\ Script[11] = Drive(90) /\ Script[12] = Fork(0)
    /\ Script[13] = Rotate(40) /\ Script[14] = Rotate(40) /\ Script[15] = CorrectTo0
    /\ Script[16] = Drive(175) /\ Script[17] = FullCorrectTo0
    /\ Script[18] = Rotate(45) /\ Script[19] = Drive(225) /\ Script[20] = Rotate(-45)
    /\ Script[21] = CorrectTo0
    /\ Script[22] = Drive(180) /\ Script[23] = Drive(180) /\ Script[24] = CorrectTo0
    /\ Script[25] = Rotate(45) /\ Script[26] = Drive(225) /\ Script[27] = Rotate(-45)
    /\ Script[28] = CorrectTo0 /\ Script[29] = Drive(180) /\ Script[30] = CorrectTo0
    /\ Script[31] = Rotate(40) /\ Script[32] = Rotate(40) /\ Script[33] = CorrectTo90
    /\ Script[34] = Drive(270)
  BY SMTT(60) DEF Script, MoveToPin, GrabPin, MoveToShop, LeftCounter, DepositScoop, UpRamp,
                  ChargingStation

\* The steps of the script, by what they do.
Drives == {3, 6, 9, 11, 16, 19, 22, 23, 26, 29, 34}
Forks == {1, 2, 10, 12}
Rotations == {5, 7, 13, 14, 18, 20, 25, 27, 31, 32}
Corrections90 == {4, 8, 33}
Corrections0 == {15, 17, 21, 24, 28, 30}

LEMMA ScriptOps ==
    ASSUME NEW i \in 1..34
    PROVE  /\ Script[i].op = "drive" => i \in Drives
           /\ Script[i].op = "fork" => i \in Forks
           /\ Script[i].op = "rot_deg" => i \in Rotations
           /\ Script[i].op = "correct" => i \in Corrections90
           /\ Script[i].op = "zero" => i \in Corrections0
BY ScriptAt, SMT DEF Drive, Fork, Rotate, CorrectTo90, CorrectTo0, FullCorrectTo0,
                     Drives, Forks, Rotations, Corrections90, Corrections0

\* Bounds of a heading, in half degrees.
Between(low, high, a) == low * Degree <= 2 * a /\ 2 * a <= high * Degree

\* The headings at which each step of the script may begin.
Band(i, a) ==
    /\ i \in 1..3 => Between(174, 188, a)
    /\ i = 4 => Between(172, 196, a)
    /\ i = 5 => Between(176, 188, a)
    /\ i = 6 => Between(256, 269, a)
    /\ i = 7 => Between(254, 277, a)
    /\ i = 8 => Between(173, 197, a)
    /\ i = 9 => Between(176, 189, a)
    /\ i \in 10..11 => Between(174, 197, a)
    /\ i \in 12..13 => Between(172, 205, a)
    /\ i = 14 => Between(252, 286, a)
    /\ i = 15 => Between(332, 367, a)
    /\ i = 16 => Between(345, 364, a)
    /\ i = 17 => Between(343, 372, a)
    /\ i = 18 => Between(357, 363, a)
    /\ i = 19 => Between(447, 454, a)
    /\ i = 20 => Between(445, 462, a)
    /\ i = 21 => Between(358, 372, a)
    /\ i = 22 => Between(357, 367, a)
    /\ i = 23 => Between(355, 375, a)
    /\ i = 24 => Between(353, 383, a)
    /\ i = 25 => Between(355, 372, a)
    /\ i = 26 => Between(445, 463, a)
    /\ i = 27 => Between(443, 471, a)
    /\ i = 28 => Between(358, 381, a)
    /\ i = 29 => Between(357, 371, a)
    /\ i = 30 => Between(355, 379, a)
    /\ i = 31 => Between(356, 370, a)
    /\ i = 32 => Between(436, 451, a)
    /\ i = 33 => Between(516, 532, a)
    /\ i = 34 => Between(528, 537, a)
    /\ i = 35 => Between(526, 545, a)

Called == pc \notin {"script", "zero"}

\* Where the call that is running began.
Base == theta - turned

\* A call of rot_deg has turned a robot that stood at base by t when it ends, unless
\* it was narrow.
Ends(base, d, t) ==
    LET r == Reading(base)
    IN  /\ d = 0 => t = 0
        /\ d > 0 /\ r + d <= HalfTurn - 1 =>
              r + d <= HalfTurn - Sample /\ t >= d /\ t < d + Sample
        /\ d > 0 /\ r + d > HalfTurn - 1 => t > d /\ t <= d + Sample
        /\ d < 0 /\ r + d >= 0 => r + d >= Sample - 1 /\ t <= d /\ t > d - Sample
        /\ d < 0 /\ r + d < 0 => t < -r /\ t >= -(r + 2 * Sample)

\* Wherever the call ends, the next step may begin.
Lands(base, d, i) == \A t \in Int : Ends(base, d, t) => Band(i + 1, base + t)

\* The calls of the mission stay in the middle of the circle.
Modest ==
    /\ Base \in 80*Degree..280*Degree /\ degree \in -46*Degree..46*Degree
    /\ Reading(Base) # RpsFailure => Lands(Base, degree, at)

\* What Begin has computed.
Begun ==
    /\ prev_head = Reading(Base) /\ prev_head # RpsFailure
    /\ wrapped = WrapsAround(prev_head + degree) /\ target = Corrected(prev_head + degree)

\* Narrow, from Begin to the end of the call.
Tight ==
    /\ ~wrapped
    /\ \/ degree < 0 /\ target < Sample - 1
       \/ degree > 0 /\ target > HalfTurn - Sample

\* How far a call has come, by the side it turns to and whether it goes round through
\* the wrap of the report.
NoWay == degree = 0 => turned = 0 /\ pc \in {"stop", "done"}

LeftWay ==
    degree > 0 /\ ~wrapped =>
        /\ pc \in {"turn", "stop", "done"} /\ (pc = "turn" => motors = "left")
        /\ turned >= 0 /\ turned < degree + Sample
        /\ pc \in {"stop", "done"} => turned >= degree

LeftWayRound ==
    degree > 0 /\ wrapped =>
        /\ pc \in {"wrap", "sleep", "wake", "turn"} => motors = "left"
        /\ turned >= 0
        /\ pc \in {"wrap", "sleep"} => theta < HalfTurn
        /\ pc = "wake" => theta < HalfTurn + Sample
        /\ pc \in {"turn", "stop", "done"} =>
              theta >= HalfTurn /\ theta < HalfTurn + target + Sample
        /\ pc \in {"stop", "done"} => theta >= HalfTurn + target

RightWay ==
    degree < 0 /\ ~wrapped =>
        /\ pc \in {"turn", "stop", "done"} /\ (pc = "turn" => motors = "right")
        /\ turned <= 0 /\ turned > degree - Sample
        /\ pc \in {"stop", "done"} => turned <= degree

RightWayRound ==
    degree < 0 /\ wrapped =>
        /\ pc \in {"wrap", "sleep", "wake", "turn"} => motors = "right"
        /\ turned <= 0
        /\ pc \in {"wrap", "sleep"} => theta >= HalfTurn - Sample
        /\ theta >= HalfTurn - 2 * Sample
        /\ pc \in {"turn", "stop", "done"} => theta < HalfTurn

Way == NoWay /\ LeftWay /\ LeftWayRound /\ RightWay /\ RightWayRound

\* The phases of the script, in sight of the positioning system.
MissionPhases ==
    /\ Types /\ rps = Reading(theta) /\ outage = 0 /\ narrow \in BOOLEAN
    /\ at \in 1..35 /\ (pc # "script" => at \in 1..34)
    /\ pc \in {"script", "zero", "start", "wrap", "sleep", "wake", "turn", "stop", "done"}
    /\ pc \in {"script", "zero", "start", "done"} => motors = "off"
    /\ pc = "zero" =>
          /\ at \in Corrections0 /\ rps # QuarterTurn
          /\ target = IF rps < QuarterTurn THEN Script[at].above ELSE Script[at].below

\* A call, as long as no turn was narrow.
CallWay ==
    Called /\ ~narrow =>
        /\ Modest
        /\ pc = "start" => turned = 0
        /\ pc # "start" => Begun
        /\ pc # "start" /\ Tight => pc = "turn" /\ turned = 0
        /\ pc # "start" /\ ~Tight => Way

\* Between its calls the robot is where the next step may begin.
PlaceInv == ~Called /\ ~narrow => Band(at, theta)

MissionInv == MissionPhases /\ CallWay /\ PlaceInv

LEMMA BudgetFacts ==
    ASSUME Budget
    PROVE  /\ Degree \in Nat /\ Degree >= 2 /\ Sample \in Nat /\ Sample >= 1 /\ 2 * Sample <= Degree
           /\ HalfTurn = 180 * Degree /\ QuarterTurn = 90 * Degree /\ FullTurn = 360 * Degree
           /\ HalfTurn \in Nat /\ FullTurn \in Nat
BY Units, SampleIsMost, SMT DEF Budget

\* A turn, a correction or a drive that begins in its band ends in that of the next step.
LEMMA RotationLands ==
    ASSUME Budget, NEW i \in Rotations, NEW a \in Int, Band(i, a)
    PROVE  /\ a \in 80*Degree..280*Degree /\ Script[i].by \in -46*Degree..46*Degree
           /\ Reading(a) # RpsFailure => Lands(a, Script[i].by, i)
<1> DEFINE r == Reading(a)
<1>1. /\ Script[5].by = 40 * Degree /\ Script[7].by = -40 * Degree
      /\ Script[13].by = 40 * Degree /\ Script[14].by = 40 * Degree
      /\ Script[18].by = 45 * Degree /\ Script[20].by = -45 * Degree
      /\ Script[25].by = 45 * Degree /\ Script[27].by = -45 * Degree
      /\ Script[31].by = 40 * Degree /\ Script[32].by = 40 * Degree
  BY ScriptAt, Units, SMT DEF Rotate
<1>2. /\ a \in 80*Degree..280*Degree
      /\ r = IF a < 180*Degree THEN a ELSE a - 180*Degree
  BY BudgetFacts, SMT DEF Rotations, Band, Between, Reading
<1>3. Script[i].by \in -46*Degree..46*Degree
  BY <1>1, BudgetFacts, SMT DEF Rotations
<1>4. ASSUME NEW t \in Int, Ends(a, Script[i].by, t), r # 0 PROVE Band(i + 1, a + t)
  <2>1. CASE i = 5
    BY <1>1, <1>2, <1>4, <2>1, BudgetFacts, SMT DEF Ends, Band, Between
  <2>2. CASE i = 7
    BY <1>1, <1>2, <1>4, <2>2, BudgetFacts, SMT DEF Ends, Band, Between
  <2>3. CASE i = 13
    BY <1>1, <1>2, <1>4, <2>3, BudgetFacts, SMT DEF Ends, Band, Between
  <2>4. CASE i = 14
    BY <1>1, <1>2, <1>4, <2>4, BudgetFacts, SMT DEF Ends, Band, Between
  <2>5. CASE i = 18
    BY <1>1, <1>2, <1>4, <2>5, BudgetFacts, SMT DEF Ends, Band, Between
  <2>6. CASE i = 20
    BY <1>1, <1>2, <1>4, <2>6, BudgetFacts, SMT DEF Ends, Band, Between
  <2>7. CASE i = 25
    BY <1>1, <1>2, <1>4, <2>7, BudgetFacts, SMT DEF Ends, Band, Between
  <2>8. CASE i = 27
    BY <1>1, <1>2, <1>4, <2>8, BudgetFacts, SMT DEF Ends, Band, Between
  <2>9. CASE i = 31
    BY <1>1, <1>2, <1>4, <2>9, BudgetFacts, SMT DEF Ends, Band, Between
  <2>10. CASE i = 32
    BY <1>1, <1>2, <1>4, <2>10, BudgetFacts, SMT DEF Ends, Band, Between
  <2> QED BY <2>1, <2>2, <2>3, <2>4, <2>5, <2>6, <2>7, <2>8, <2>9, <2>10 DEF Rotations
<1> QED BY <1>2, <1>3, <1>4 DEF Lands, RpsFailure

LEMMA Corrections90Land ==
    ASSUME Budget, NEW i \in Corrections90, NEW a \in Int, Band(i, a)
    PROVE  LET d == Half(90 * Degree - Reading(a))
           IN  /\ a \in 80*Degree..280*Degree /\ d \in -46*Degree..46*Degree
               /\ Reading(a) # RpsFailure => Lands(a, d, i)
<1> DEFINE r == Reading(a)
           d == Half(90 * Degree - r)
<1>1. /\ a \in 80*Degree..280*Degree
      /\ r = IF a < 180*Degree THEN a ELSE a - 180*Degree
  BY BudgetFacts, SMT DEF Corrections90, Band, Between, Reading
<1>2. /\ 90 * Degree - r >= 0 => 2 * d >= 90 * Degree - r /\ 2 * d <= 90 * Degree - r + 1
      /\ 90 * Degree - r < 0 => 2 * d <= 90 * Degree - r /\ 2 * d >= 90 * Degree - r - 1
      /\ d \in -46*Degree..46*Degree
  <2>1. r \in 0..180*Degree
    BY <1>1, BudgetFacts, SMT
  <2> HIDE DEF r
  <2> QED BY <2>1, BudgetFacts, SMT DEF Half
<1> HIDE DEF d
<1>3. ASSUME NEW t \in Int, Ends(a, d, t), r # 0 PROVE Band(i + 1, a + t)
  <2>1. CASE i = 4
    BY <1>1, <1>2, <1>3, <2>1, BudgetFacts, SMT DEF Ends, Band, Between
  <2>2. CASE i = 8
    BY <1>1, <1>2, <1>3, <2>2, BudgetFacts, SMT DEF Ends, Band, Between
  <2>3. CASE i = 33
    BY <1>1, <1>2, <1>3, <2>3, BudgetFacts, SMT DEF Ends, Band, Between
  <2> QED BY <2>1, <2>2, <2>3 DEF Corrections90
<1> QED BY <1>1, <1>2, <1>3 DEF Lands, RpsFailure, d

LEMMA Corrections0Land ==
    ASSUME Budget, NEW i \in Corrections0, NEW a \in Int, Band(i, a)
    PROVE  LET r == Reading(a)
               mark == IF r < QuarterTurn THEN Script[i].above ELSE Script[i].below
               d == IF Script[i].half THEN Half(mark - r) ELSE mark - r
           IN  /\ a \in 80*Degree..280*Degree /\ d \in -46*Degree..46*Degree
               /\ r # QuarterTurn
               /\ r # RpsFailure => Lands(a, d, i)
<1> DEFINE r == Reading(a)
           aim == IF r < QuarterTurn THEN Script[i].above ELSE Script[i].below
           d == IF Script[i].half THEN Half(aim - r) ELSE aim - r
<1>1. /\ a \in 160*Degree..200*Degree
      /\ r = IF a < 180*Degree THEN a ELSE a - 180*Degree
      /\ r < QuarterTurn <=> a >= 180*Degree
      /\ r \in 0..180*Degree /\ r # QuarterTurn
  BY BudgetFacts, SMT DEF Corrections0, Band, Between, Reading
<1>2. CASE i = 17
  <2>1. ~Script[i].half /\ Script[i].above = Degree /\ Script[i].below = HalfTurn - Degree
    BY <1>2, ScriptAt DEF FullCorrectTo0
  <2>2. d = IF a >= 180*Degree THEN Degree - r ELSE 179 * Degree - r
    BY <1>1, <2>1, BudgetFacts, SMT
  <2> HIDE DEF d, r
  <2>3. ASSUME NEW t \in Int, Ends(a, d, t), r # 0 PROVE Band(i + 1, a + t)
    <3>1. CASE a >= 180 * Degree
      <4>1. d = Degree - r /\ r \in Nat /\ r > 0 /\ a = 180 * Degree + r /\ Reading(a) = r
        BY <1>1, <2>2, <2>3, <3>1, BudgetFacts, SMT DEF r
      <4>2. t > d - Sample /\ t < d + Sample
        BY <2>3, <4>1, BudgetFacts, SMT DEF Ends
      <4> QED BY <1>2, <4>1, <4>2, BudgetFacts, SMT DEF Band, Between
    <3>2. CASE a < 180 * Degree
      BY <1>1, <1>2, <2>2, <2>3, <3>2, BudgetFacts, SMT DEF Ends, Band, Between, r
    <3> QED BY <1>1, <3>1, <3>2, BudgetFacts, SMT
  <2>4. d \in -46*Degree..46*Degree
    BY <1>1, <1>2, <2>2, BudgetFacts, SMT DEF Band, Between
  <2> QED BY <1>1, <2>3, <2>4, BudgetFacts, SMT DEF Lands, RpsFailure, d, r
<1>3. CASE i # 17
  <2>1. /\ Script[i].half
        /\ Script[i].above = Degree \div 2 /\ Script[i].below = HalfTurn - (6 * Degree) \div 10
    BY <1>3, ScriptAt, SMT DEF CorrectTo0, Corrections0
  <2> DEFINE above == Degree \div 2
             below == HalfTurn - (6 * Degree) \div 10
  <2>2. /\ above \in Nat /\ 2 * above <= Degree /\ 2 * above >= Degree - 1
        /\ below \in Nat /\ 10 * below >= 1800 * Degree - 6 * Degree
        /\ 10 * below <= 1800 * Degree - 6 * Degree + 9
    BY BudgetFacts, SMT
  <2>3. aim = IF a >= 180*Degree THEN above ELSE below
    BY <1>1, <2>1, Zenon
  <2> HIDE DEF above, below
  <2>4. d = Half(aim - r) /\ aim \in Nat
    BY <2>1, <2>2, <2>3
  <2> HIDE DEF aim, d, r
  <2>5. /\ aim - r >= 0 => 2 * d >= aim - r /\ 2 * d <= aim - r + 1
        /\ aim - r < 0 => 2 * d <= aim - r /\ 2 * d >= aim - r - 1
        /\ d \in Int
    BY <1>1, <2>4, BudgetFacts, SMT DEF Half
  <2>6. d \in -46*Degree..46*Degree
    BY <1>1, <2>2, <2>3, <2>5, BudgetFacts, SMT
  <2>7. ASSUME NEW t \in Int, Ends(a, d, t), r # 0 PROVE Band(i + 1, a + t)
    <3>1. CASE i = 15
      BY <1>1, <2>2, <2>3, <2>5, <2>7, <3>1, BudgetFacts, SMT DEF Ends, Band, Between, r
    <3>2. CASE i = 21
      BY <1>1, <2>2, <2>3, <2>5, <2>7, <3>2, BudgetFacts, SMT DEF Ends, Band, Between, r
    <3>3. CASE i = 24
      BY <1>1, <2>2, <2>3, <2>5, <2>7, <3>3, BudgetFacts, SMT DEF Ends, Band, Between, r
    <3>4. CASE i = 28
      BY <1>1, <2>2, <2>3, <2>5, <2>7, <3>4, BudgetFacts, SMT DEF Ends, Band, Between, r
    <3>5. CASE i = 30
      BY <1>1, <2>2, <2>3, <2>5, <2>7, <3>5, BudgetFacts, SMT DEF Ends, Band, Between, r
    <3> QED BY <1>3, <3>1, <3>2, <3>3, <3>4, <3>5 DEF Corrections0
  <2>8. a \in 80*Degree..280*Degree
    BY <1>1, BudgetFacts, SMT
  <2>9. r # RpsFailure => Lands(a, d, i)
    BY <2>7 DEF Lands, RpsFailure
  <2> QED BY <1>1, <2>6, <2>8, <2>9 DEF aim, d, r
<1> QED BY <1>2, <1>3

LEMMA DriveLands ==
    ASSUME Budget, NEW i \in Drives, NEW a \in Int, Band(i, a), NEW drift \in Drifts
    PROVE  (a + drift) % FullTurn = a + drift /\ Band(i + 1, a + drift)
<1>1. drift \in -Degree..4*Degree
  BY DEF Budget
<1>2. drift \in Int /\ -Degree <= drift /\ drift <= 4 * Degree
  BY <1>1, BudgetFacts, SMT
<1>3. a + drift \in Nat /\ a + drift < FullTurn
  BY <1>2, BudgetFacts, SMT DEF Drives, Band, Between
<1>4. (a + drift) % FullTurn = a + drift
  BY <1>3, NoWrap, BudgetFacts
<1>5. Band(i + 1, a + drift)
  <2>1. CASE i = 3
    BY <1>2, <2>1, BudgetFacts, SMT DEF Band, Between
  <2>2. CASE i = 6
    BY <1>2, <2>2, BudgetFacts, SMT DEF Band, Between
  <2>3. CASE i = 9
    BY <1>2, <2>3, BudgetFacts, SMT DEF Band, Between
  <2>4. CASE i = 11
    BY <1>2, <2>4, BudgetFacts, SMT DEF Band, Between
  <2>5. CASE i = 16
    BY <1>2, <2>5, BudgetFacts, SMT DEF Band, Between
  <2>6. CASE i = 19
    BY <1>2, <2>6, BudgetFacts, SMT DEF Band, Between
  <2>7. CASE i = 22
    BY <1>2, <2>7, BudgetFacts, SMT DEF Band, Between
  <2>8. CASE i = 23
    BY <1>2, <2>8, BudgetFacts, SMT DEF Band, Between
  <2>9. CASE i = 26
    BY <1>2, <2>9, BudgetFacts, SMT DEF Band, Between
  <2>10. CASE i = 29
    BY <1>2, <2>10, BudgetFacts, SMT DEF Band, Between
  <2>11. CASE i = 34
    BY <1>2, <2>11, BudgetFacts, SMT DEF Band, Between
  <2> QED BY <2>1, <2>2, <2>3, <2>4, <2>5, <2>6, <2>7, <2>8, <2>9, <2>10, <2>11 DEF Drives
<1> QED BY <1>4, <1>5

\* A drive that begins in its band is as near to its plan as the tolerance asks.
LEMMA DrivePlanned ==
    ASSUME Budget, NEW i \in Drives, NEW a \in Int, Band(i, a)
    PROVE  Magnitude(Turn(Script[i].plan, a, FullTurn)) <= Tolerance
<1> DEFINE plan == Script[i].plan
<1>1. /\ Script[3].plan = 90 * Degree /\ Script[6].plan = 130 * Degree
      /\ Script[9].plan = 90 * Degree /\ Script[11].plan = 90 * Degree
      /\ Script[16].plan = 175 * Degree /\ Script[19].plan = 225 * Degree
      /\ Script[22].plan = 180 * Degree /\ Script[23].plan = 180 * Degree
      /\ Script[26].plan = 225 * Degree /\ Script[29].plan = 180 * Degree
      /\ Script[34].plan = 270 * Degree
  BY ScriptAt DEF Drive
<1>2. /\ plan \in Int /\ 2 * (a - plan) <= 17 * Degree /\ 2 * (a - plan) >= -17 * Degree
  BY <1>1, BudgetFacts, SMT DEF Drives, Band, Between
<1>3. 17 * Degree <= 2 * Tolerance /\ Tolerance \in Nat
  BY MissionAssumption DEF Budget
<1> HIDE DEF plan
<1>4. Magnitude(Turn(plan, a, FullTurn)) <= Tolerance
  BY <1>2, <1>3, BudgetFacts, SMT DEF Magnitude, Turn
<1> QED BY <1>4 DEF plan

\* What the headings within the budget leave of a call: the target, and on which side
\* of the wrap the call begins.
LEMMA CallFacts ==
    ASSUME Budget, Types, Modest, Begun
    PROVE  /\ Base \in Int /\ turned \in Int /\ theta = Base + turned
           /\ Base >= 80 * Degree /\ Base <= 280 * Degree
           /\ degree \in Int /\ degree >= -46 * Degree /\ degree <= 46 * Degree
           /\ prev_head = IF Base < 180 * Degree THEN Base ELSE Base - 180 * Degree
           /\ prev_head \in Nat /\ prev_head >= 1
           /\ target \in Int
           /\ wrapped <=> prev_head + degree < 0 \/ prev_head + degree > HalfTurn - 1
           /\ ~wrapped => target = prev_head + degree /\ target >= 0 /\ target <= HalfTurn - 1
           /\ degree > 0 /\ wrapped =>
                 /\ target = prev_head + degree - (HalfTurn - 1)
                 /\ target >= 1 /\ target <= 46 * Degree
                 /\ Base < HalfTurn /\ Base > 133 * Degree
           /\ degree < 0 /\ wrapped =>
                 /\ target > HalfTurn
                 /\ Base >= HalfTurn /\ prev_head < 46 * Degree
<1>1. theta \in Nat /\ turned \in Int /\ Base \in Int /\ theta = Base + turned
  BY SMT DEF Types, Angle, Base
<1>2. /\ Base >= 80 * Degree /\ Base <= 280 * Degree
      /\ degree \in Int /\ degree >= -46 * Degree /\ degree <= 46 * Degree
  BY <1>1, BudgetFacts, SMT DEF Modest
<1>3. /\ prev_head = IF Base < 180 * Degree THEN Base ELSE Base - 180 * Degree
      /\ prev_head \in Nat /\ prev_head >= 1
  BY <1>1, <1>2, BudgetFacts, SMT DEF Begun, Reading, RpsFailure
<1>4. wrapped <=> prev_head + degree < 0 \/ prev_head + degree > HalfTurn - 1
  BY Zenon DEF Begun, WrapsAround
<1>5. target = IF prev_head + degree < 0 THEN HalfTurn - (prev_head + degree)
               ELSE IF prev_head + degree > HalfTurn - 1 THEN prev_head + degree - (HalfTurn - 1)
               ELSE prev_head + degree
  <2>1. target = Corrected(prev_head + degree)
    BY Zenon DEF Begun
  <2> QED BY <1>2, <1>3, <2>1, BudgetFacts, SMT DEF Corrected
<1>6. ASSUME ~wrapped
      PROVE  target = prev_head + degree /\ target >= 0 /\ target <= HalfTurn - 1
  <2>1. ~(prev_head + degree < 0) /\ ~(prev_head + degree > HalfTurn - 1)
    BY <1>4, <1>6, Zenon
  <2>2. target = prev_head + degree
    BY <1>5, <2>1, Zenon
  <2> QED BY <1>2, <1>3, <2>1, <2>2, BudgetFacts, SMT
<1>7. target \in Int
  BY <1>2, <1>3, <1>5, BudgetFacts, SMT
<1>8. ASSUME degree > 0, wrapped
      PROVE  /\ target = prev_head + degree - (HalfTurn - 1) /\ target >= 1 /\ target <= 46 * Degree
             /\ Base < HalfTurn /\ Base > 133 * Degree
  <2>1. prev_head + degree < 0 \/ prev_head + degree > HalfTurn - 1
    BY <1>4, <1>8, Zenon
  <2>2. ~(prev_head + degree < 0) /\ prev_head + degree > HalfTurn - 1
    BY <1>2, <1>3, <1>8, <2>1, BudgetFacts, SMT
  <2>3. target = prev_head + degree - (HalfTurn - 1)
    BY <1>5, <2>2, Zenon
  <2>4. Base < HalfTurn /\ Base > 133 * Degree
    BY <1>1, <1>2, <1>3, <2>2, BudgetFacts, SMT
  <2> QED BY <1>1, <1>2, <1>3, <2>2, <2>3, <2>4, BudgetFacts, SMT
<1>9. ASSUME degree < 0, wrapped
      PROVE  target > HalfTurn /\ Base >= HalfTurn /\ prev_head < 46 * Degree
  <2>1. prev_head + degree < 0 \/ prev_head + degree > HalfTurn - 1
    BY <1>4, <1>9, Zenon
  <2>2. prev_head + degree < 0
    BY <1>1, <1>2, <1>3, <1>9, <2>1, BudgetFacts, SMT
  <2>3. target = HalfTurn - (prev_head + degree)
    BY <1>5, <2>2, Zenon
  <2>4. prev_head < 46 * Degree
    BY <1>2, <1>3, <2>2, BudgetFacts, SMT
  <2> QED BY <1>1, <1>2, <1>3, <2>2, <2>3, <2>4, BudgetFacts, SMT
<1> QED BY <1>1, <1>2, <1>3, <1>4, <1>6, <1>7, <1>8, <1>9, Zenon

\* A call that has stopped has turned as far as Ends says.
LEMMA CallEnds ==
    ASSUME Budget, Types, Modest, Begun, Way, ~Tight, pc \in {"stop", "done"}
    PROVE  Ends(Base, degree, turned)
<1>1. Reading(Base) = prev_head
  BY DEF Begun
<1>2. CASE degree = 0
  BY <1>2, BudgetFacts, CallFacts, SMT DEF Ends, Way, NoWay
<1>3. CASE degree > 0 /\ ~wrapped
  <2>1. turned >= degree /\ turned < degree + Sample
    BY <1>3 DEF Way, LeftWay
  <2>2. ~(target > HalfTurn - Sample)
    BY <1>3 DEF Tight
  <2> QED BY <1>1, <1>3, <2>1, <2>2, BudgetFacts, CallFacts, SMT DEF Ends
<1>4. CASE degree > 0 /\ wrapped
  <2>1. theta >= HalfTurn + target /\ theta < HalfTurn + target + Sample
    BY <1>4 DEF Way, LeftWayRound
  <2> QED BY <1>1, <1>4, <2>1, BudgetFacts, CallFacts, SMT DEF Ends
<1>5. CASE degree < 0 /\ ~wrapped
  <2>1. turned <= degree /\ turned > degree - Sample
    BY <1>5 DEF Way, RightWay
  <2>2. ~(target < Sample - 1)
    BY <1>5 DEF Tight
  <2> QED BY <1>1, <1>5, <2>1, <2>2, BudgetFacts, CallFacts, SMT DEF Ends
<1>6. CASE degree < 0 /\ wrapped
  <2>1. theta >= HalfTurn - 2 * Sample /\ theta < HalfTurn
    BY <1>6 DEF Way, RightWayRound
  <2> QED BY <1>1, <1>6, <2>1, BudgetFacts, CallFacts, SMT DEF Ends
<1> QED BY <1>2, <1>3, <1>4, <1>5, <1>6, CallFacts, SMT

LEMMA MissionInitial == ASSUME Budget, MissionInit PROVE MissionInv
<1>1. /\ theta \in StartHeadings /\ turned = 0 /\ rps = Reading(theta) /\ outage = 0
      /\ motors = "off" /\ pc = "script" /\ at = 1 /\ narrow = FALSE
      /\ degree = 0 /\ prev_head = 0
  BY DEF Budget, MissionInit, WorldInit, RotDegInit
<1>2. theta \in Angle /\ theta \in 87*Degree..94*Degree
  BY <1>1, MissionAssumption DEF Budget
<1>3. Types
  <2>1. rps \in Report
    BY <1>1, <1>2, ReadingType
  <2>2. 0 \in Report /\ 0 \in -HalfTurn..HalfTurn
    BY Units, SMT DEF Report
  <2> QED BY <1>1, <1>2, <2>1, <2>2, SMT DEF Types
<1>4. MissionPhases
  <2>1. 1 \in 1..35
    BY SMT
  <2>2. narrow \in BOOLEAN
    BY <1>1
  <2> QED BY <1>1, <1>3, <2>1, <2>2, Zenon DEF MissionPhases
<1>5. Band(1, theta)
  BY <1>2, BudgetFacts, SMT DEF Band, Between
<1> QED BY <1>1, <1>4, <1>5, Zenon DEF MissionInv, CallWay, PlaceInv, Called

-------------------------------------------------------------------------------
\* A call begins.
LEMMA CallKeeps ==
    ASSUME Budget, MissionPhases, NEW angle \in -HalfTurn..HalfTurn, Call(angle),
           pc \in {"script", "zero"}, at \in 1..34,
           ~narrow => /\ theta \in 80*Degree..280*Degree /\ angle \in -46*Degree..46*Degree
                      /\ Reading(theta) # RpsFailure => Lands(theta, angle, at)
    PROVE  MissionInv'
<1>1. /\ degree' = angle /\ turned' = 0 /\ pc' = "start" /\ motors' = motors
      /\ theta' = theta /\ rps' = rps /\ outage' = outage /\ at' = at /\ narrow' = narrow
      /\ prev_head' = prev_head
  BY DEF Call, localVars, scriptVars
<1>2. /\ theta \in Angle /\ theta \in Int /\ rps \in Report /\ prev_head \in Report
      /\ rps = Reading(theta) /\ outage = 0 /\ narrow \in BOOLEAN /\ motors = "off"
  BY Units, SMT DEF MissionPhases, Types, Angle
<1>3. Types' /\ turned' \in Int
  BY <1>1, <1>2, SMT DEF Types
<1>4. (rps = Reading(theta))'
  BY <1>1, <1>2
<1>5. MissionPhases'
  BY <1>1, <1>2, <1>3, <1>4, SMT DEF MissionPhases
<1>6. Base' = theta
  BY <1>1, <1>2, SMT DEF Base
<1>7. ASSUME ~narrow PROVE Modest'
  BY <1>1, <1>6, <1>7 DEF Modest, Lands, Ends, Band, Between
<1>8. CallWay'
  BY <1>1, <1>7, Zenon DEF CallWay
<1>9. PlaceInv'
  BY <1>1, Zenon DEF PlaceInv, Called
<1> QED BY <1>5, <1>8, <1>9 DEF MissionInv

LEMMA RotateKeeps == ASSUME Budget, MissionInv, RotateStep PROVE MissionInv'
<1> DEFINE angle == Script[at].by
<1>1. /\ MissionPhases /\ Call(angle) /\ pc = "script" /\ at \in 1..34
      /\ at \in Rotations
  BY ScriptAt, ScriptOps, SMT DEF MissionInv, MissionPhases, RotateStep, Performs
<1>2. /\ Script[5].by = 40 * Degree /\ Script[7].by = -40 * Degree
      /\ Script[13].by = 40 * Degree /\ Script[14].by = 40 * Degree
      /\ Script[18].by = 45 * Degree /\ Script[20].by = -45 * Degree
      /\ Script[25].by = 45 * Degree /\ Script[27].by = -45 * Degree
      /\ Script[31].by = 40 * Degree /\ Script[32].by = 40 * Degree
  BY ScriptAt, Units, SMT DEF Rotate
<1>3. angle \in -HalfTurn..HalfTurn
  BY <1>1, <1>2, BudgetFacts, SMT DEF Rotations
<1>4. theta \in Int
  BY <1>1, Units, SMT DEF MissionPhases, Types, Angle
<1>5. ~narrow => Band(at, theta)
  BY <1>1 DEF MissionInv, PlaceInv, Called
<1> QED BY <1>1, <1>3, <1>4, <1>5, CallKeeps, RotationLands

LEMMA HalfSmall ==
    ASSUME Budget, NEW r \in Report, NEW aim \in 0..HalfTurn
    PROVE  Half(aim - r) \in -HalfTurn..HalfTurn /\ aim - r \in -HalfTurn..HalfTurn
<1>1. r \in Nat /\ r <= HalfTurn /\ aim \in Nat /\ aim <= HalfTurn /\ HalfTurn \in Nat
  BY BudgetFacts, SMT DEF Report
<1> QED BY <1>1, SMT DEF Half

LEMMA CorrectKeeps == ASSUME Budget, MissionInv, CorrectStep PROVE MissionInv'
<1> DEFINE angle == Half(90 * Degree - rps)
<1>1. /\ MissionPhases /\ Call(angle) /\ pc = "script" /\ at \in 1..34
      /\ at \in Corrections90 /\ rps = Reading(theta) /\ rps \in Report
  BY ScriptAt, ScriptOps, SMT DEF MissionInv, MissionPhases, Types, CorrectStep, Performs
<1>2. 90 * Degree \in 0..HalfTurn
  BY BudgetFacts, SMT
<1>3. angle \in -HalfTurn..HalfTurn
  BY <1>1, <1>2, HalfSmall
<1>4. theta \in Int
  BY <1>1, Units, SMT DEF MissionPhases, Types, Angle
<1>5. ~narrow => Band(at, theta)
  BY <1>1 DEF MissionInv, PlaceInv, Called
<1>6. angle = Half(90 * Degree - Reading(theta))
  BY <1>1
<1> HIDE DEF angle
<1>7. ~narrow => /\ theta \in 80*Degree..280*Degree /\ angle \in -46*Degree..46*Degree
                 /\ Reading(theta) # RpsFailure => Lands(theta, angle, at)
  BY <1>1, <1>4, <1>5, <1>6, Corrections90Land
<1> QED BY <1>1, <1>3, <1>7, CallKeeps

LEMMA ZeroCallKeeps == ASSUME Budget, MissionInv, ZeroCall PROVE MissionInv'
<1> DEFINE aim == IF rps < QuarterTurn THEN Script[at].above ELSE Script[at].below
           angle == IF Script[at].half THEN Half(target - rps) ELSE target - rps
<1>1. /\ MissionPhases /\ Call(angle) /\ pc = "zero"
      /\ at \in Corrections0 /\ target = aim /\ rps = Reading(theta) /\ rps \in Report
  BY DEF MissionInv, MissionPhases, Types, ZeroCall
<1>2. at \in 1..34 /\ at \in Nat
  BY <1>1, SMT DEF Corrections0
<1>3. aim \in 0..HalfTurn
  <2>1. CASE at = 17
    <3>1. Script[at].above = Degree /\ Script[at].below = HalfTurn - Degree
      BY <2>1, ScriptAt DEF FullCorrectTo0
    <3> QED BY <3>1, BudgetFacts, SMT
  <2>2. CASE at # 17
    <3>1. Script[at].above = Degree \div 2 /\ Script[at].below = HalfTurn - (6 * Degree) \div 10
      BY <1>1, <2>2, ScriptAt, SMT DEF CorrectTo0, Corrections0
    <3>2. Degree \div 2 \in 0..HalfTurn /\ HalfTurn - (6 * Degree) \div 10 \in 0..HalfTurn
      BY BudgetFacts, SMT
    <3> QED BY <3>1, <3>2
  <2> QED BY <2>1, <2>2
<1>4. angle \in -HalfTurn..HalfTurn
  BY <1>1, <1>3, HalfSmall
<1>5. theta \in Int
  BY <1>1, Units, SMT DEF MissionPhases, Types, Angle
<1>6. ~narrow => Band(at, theta)
  BY <1>1 DEF MissionInv, PlaceInv, Called
<1>7. angle = LET r == Reading(theta)
                  mark == IF r < QuarterTurn THEN Script[at].above ELSE Script[at].below
              IN  IF Script[at].half THEN Half(mark - r) ELSE mark - r
  BY <1>1
<1> HIDE DEF angle
<1>8. ~narrow => /\ theta \in 80*Degree..280*Degree /\ angle \in -46*Degree..46*Degree
                 /\ Reading(theta) # RpsFailure => Lands(theta, angle, at)
  BY <1>1, <1>5, <1>6, <1>7, Corrections0Land
<1> QED BY <1>1, <1>2, <1>4, <1>8, CallKeeps

LEMMA DriveKeeps == ASSUME Budget, MissionInv, DriveStep PROVE MissionInv'
<1>1. /\ MissionPhases /\ pc = "script" /\ at \in 1..34 /\ at \in Drives /\ motors = "off"
      /\ turned' = turned /\ motors' = motors /\ pc' = pc /\ degree' = degree
      /\ prev_head' = prev_head /\ narrow' = narrow /\ at' = at + 1
  BY ScriptAt, ScriptOps, SMT
  DEF MissionInv, MissionPhases, DriveStep, Performs, rotDegVars, localVars
<1>2. PICK drift \in Drifts : theta' = (theta + drift) % FullTurn
  BY DEF DriveStep
<1>3. /\ theta \in Int /\ outage = 0 /\ turned \in Int /\ degree \in -HalfTurn..HalfTurn
      /\ prev_head \in Report /\ narrow \in BOOLEAN
  BY <1>1, Units, SMT DEF MissionPhases, Types, Angle
<1>4. rps' = Reading(theta') /\ outage' = 0
  <2>1. ~(outage < MaxOutage)
    BY <1>3, SMT DEF Budget
  <2> QED BY <2>1 DEF DriveStep, ReportComes
<1>5. theta' \in Angle
  <2>1. theta + drift \in Int
    BY <1>2, <1>3, BudgetFacts, SMT DEF Budget
  <2>2. theta' \in 0..FullTurn-1
    BY <1>2, <2>1, BudgetFacts, Remainder
  <2> QED BY <2>2 DEF Angle
<1>6. rps' \in Report
  BY <1>4, <1>5, ReadingType
<1>7. at' \in 1..35
  BY <1>1, SMT
<1>8. MissionPhases'
  <2>1. Types'
    BY <1>1, <1>3, <1>5, <1>6 DEF Types
  <2> QED BY <1>1, <1>3, <1>4, <1>7, <2>1, Zenon DEF MissionPhases
<1>9. ASSUME ~narrow PROVE Band(at', theta')
  <2>1. Band(at, theta)
    BY <1>1, <1>9 DEF MissionInv, PlaceInv, Called
  <2> QED BY <1>1, <1>2, <1>3, <2>1, DriveLands
<1>10. PlaceInv'
  BY <1>1, <1>9 DEF PlaceInv, Called, Band, Between
<1>11. CallWay'
  BY <1>1, Zenon DEF CallWay, Called
<1> QED BY <1>8, <1>10, <1>11 DEF MissionInv

LEMMA ForkKeeps == ASSUME Budget, MissionInv, ForkStep PROVE MissionInv'
<1>1. /\ MissionPhases /\ pc = "script" /\ at \in 1..34 /\ at \in Forks /\ motors = "off"
      /\ theta' = theta /\ turned' = turned /\ rps' = rps /\ outage' = outage
      /\ motors' = motors /\ pc' = pc /\ degree' = degree
      /\ prev_head' = prev_head /\ narrow' = narrow /\ at' = at + 1
  BY ScriptAt, ScriptOps, SMT
  DEF MissionInv, MissionPhases, ForkStep, Performs, worldVars, rotDegVars, localVars
<1>2. theta \in Int
  BY <1>1, Units, SMT DEF MissionPhases, Types, Angle
<1>3. at' \in 1..35
  BY <1>1, SMT
<1>4. MissionPhases'
  <2>1. Types'
    BY <1>1 DEF MissionPhases, Types
  <2>2. (rps = Reading(theta))'
    BY <1>1 DEF MissionPhases
  <2>3. (outage = 0 /\ narrow \in BOOLEAN)'
    BY <1>1 DEF MissionPhases
  <2> QED BY <1>1, <1>3, <2>1, <2>2, <2>3, Zenon DEF MissionPhases
<1>5. ASSUME ~narrow PROVE Band(at', theta)
  <2>1. Band(at, theta)
    BY <1>1, <1>5 DEF MissionInv, PlaceInv, Called
  <2> QED BY <1>1, <1>2, <2>1, BudgetFacts, SMT DEF Forks, Band, Between
<1>6. PlaceInv'
  BY <1>1, <1>5 DEF PlaceInv, Called, Band, Between
<1>7. CallWay'
  BY <1>1, Zenon DEF CallWay, Called
<1> QED BY <1>4, <1>6, <1>7 DEF MissionInv

\* Where a correction to 0 is asked for, a robot that no turn was narrow for does
\* not stand across the circle.
LEMMA ZeroKeeps == ASSUME Budget, MissionInv, ZeroStep PROVE MissionInv'
<1>1. /\ MissionPhases /\ pc = "script" /\ at \in 1..34 /\ at \in Corrections0 /\ motors = "off"
      /\ theta' = theta /\ turned' = turned /\ rps' = rps /\ outage' = outage
      /\ motors' = motors /\ degree' = degree
      /\ prev_head' = prev_head /\ narrow' = narrow
  BY ScriptAt, ScriptOps, SMT
  DEF MissionInv, MissionPhases, ZeroStep, Performs, worldVars
<1>2. theta \in Int /\ rps = Reading(theta) /\ rps \in Int /\ QuarterTurn \in Int
  BY <1>1, Units, SMT DEF MissionPhases, Types, Angle, Report
<1>3. Types' /\ (rps = Reading(theta))' /\ (outage = 0 /\ narrow \in BOOLEAN)'
  BY <1>1 DEF MissionPhases, Types
<1>4. \/ /\ rps # QuarterTurn /\ pc' = "zero" /\ at' = at
         /\ target' = IF rps < QuarterTurn THEN Script[at].above ELSE Script[at].below
      \/ rps = QuarterTurn /\ at' = at + 1 /\ pc' = "script"
  BY <1>1, <1>2, SMT DEF ZeroStep
<1>5. at' \in 1..35 /\ (pc' # "script" => at' \in 1..34)
  BY <1>1, <1>4, SMT
<1>6. MissionPhases'
  <2>1. pc' \in {"script", "zero"} /\ motors' = "off"
    BY <1>1, <1>4
  <2>2. pc' = "zero" =>
          /\ at' = at /\ rps' = rps /\ rps # QuarterTurn
          /\ target' = IF rps < QuarterTurn THEN Script[at].above ELSE Script[at].below
    BY <1>1, <1>4
  <2>3. pc' = "zero" =>
          /\ at' \in Corrections0 /\ rps' # QuarterTurn
          /\ target' = IF rps' < QuarterTurn THEN Script[at'].above ELSE Script[at'].below
    BY <1>1, <2>2
  <2> QED BY <1>3, <1>5, <2>1, <2>3, Zenon DEF MissionPhases
<1>7. ASSUME ~narrow PROVE Band(at', theta)
  <2>1. Band(at, theta)
    BY <1>1, <1>7 DEF MissionInv, PlaceInv, Called
  <2>2. Reading(theta) # QuarterTurn
    BY <1>1, <1>2, <2>1, Corrections0Land
  <2> QED BY <1>2, <1>4, <2>1, <2>2
<1>8. PlaceInv'
  BY <1>1, <1>7 DEF PlaceInv, Called, Band, Between
<1>9. CallWay'
  BY <1>1, <1>4, Zenon DEF CallWay, Called
<1> QED BY <1>6, <1>8, <1>9 DEF MissionInv

\* The call that returns has landed where the next step may begin.
LEMMA ReturnKeeps == ASSUME Budget, MissionInv, Return PROVE MissionInv'
<1>1. /\ MissionPhases /\ pc = "done" /\ pc' = "script" /\ at \in 1..34 /\ motors = "off"
      /\ theta' = theta /\ turned' = turned /\ rps' = rps /\ outage' = outage
      /\ motors' = motors /\ degree' = degree
      /\ prev_head' = prev_head /\ narrow' = narrow /\ at' = at + 1
  BY SMT DEF MissionInv, MissionPhases, Return, worldVars, rotDegVars, localVars
<1>2. at' \in 1..35
  BY <1>1, SMT
<1>3. Types' /\ (rps = Reading(theta))' /\ (outage = 0 /\ narrow \in BOOLEAN)'
  BY <1>1 DEF MissionPhases, Types
<1>4. MissionPhases'
  BY <1>1, <1>2, <1>3, Zenon DEF MissionPhases
<1>5. ASSUME ~narrow PROVE Band(at', theta)
  <2>1. Modest /\ Begun /\ ~Tight /\ Way
    BY <1>1, <1>5, Zenon DEF MissionInv, CallWay, Called
  <2>2. Types
    BY <1>1 DEF MissionPhases
  <2>3. Ends(Base, degree, turned)
    BY <1>1, <2>1, <2>2, CallEnds
  <2>4. Lands(Base, degree, at)
    BY <2>1 DEF Modest, Begun
  <2>5. turned \in Int /\ Base + turned = theta
    BY <2>2, Units, SMT DEF Types, Angle, Base
  <2> QED BY <1>1, <2>3, <2>4, <2>5 DEF Lands
<1>6. PlaceInv'
  BY <1>1, <1>5 DEF PlaceInv, Called, Band, Between
<1>7. CallWay'
  BY <1>1, Zenon DEF CallWay, Called
<1> QED BY <1>4, <1>6, <1>7 DEF MissionInv

-------------------------------------------------------------------------------
\* While a call runs, a robot that no turn was narrow for is on its way.
LEMMA CallRuns ==
    ASSUME Budget, MissionInv, TurnStep
    PROVE  /\ MissionPhases /\ Called /\ Called' /\ at \in 1..34 /\ at' = at
           /\ narrow' \in BOOLEAN
           /\ ~narrow' => ~narrow /\ Modest
           /\ ~narrow' /\ pc # "start" => Begun /\ ~Tight /\ Way
<1>1. MissionPhases /\ RotDegNext /\ narrow' = (narrow \/ Narrow) /\ at' = at
  BY DEF MissionInv, TurnStep
<1>2. Called /\ Called'
  BY <1>1, Zenon
  DEF RotDegNext, RotDegTick, Blocked, Begin, SeesHeading, Wake, Arrive, StopTurn, Called
<1>3. at \in 1..34 /\ narrow \in BOOLEAN
  BY <1>1, <1>2, Zenon DEF MissionPhases, Called
<1>4. narrow' \in BOOLEAN /\ (~narrow' => ~narrow /\ ~Narrow)
  BY <1>1, <1>3, Zenon
<1>5. ASSUME ~narrow' PROVE Modest
  BY <1>2, <1>4, <1>5, Zenon DEF MissionInv, CallWay
<1>6. ASSUME ~narrow', pc # "start" PROVE Begun /\ ~Tight /\ Way
  <2>1. Begun /\ (Tight => pc = "turn") /\ (~Tight => Way)
    BY <1>2, <1>4, <1>6, Zenon DEF MissionInv, CallWay
  <2>2. ~Tight
    BY <1>4, <1>6, <2>1, Zenon DEF Tight, Narrow
  <2> QED BY <2>1, <2>2
<1> QED BY <1>1, <1>2, <1>3, <1>4, <1>5, <1>6

\* What the report shows during a call: how far the turn has come.
LEMMA InTurn ==
    ASSUME Budget, Types, Modest, Begun, ~Tight, Way,
           pc \in {"wrap", "sleep", "wake", "turn", "stop", "done"}
    PROVE  /\ degree > 0 /\ ~wrapped => Reading(theta) = prev_head + turned
           /\ degree < 0 /\ ~wrapped => Reading(theta) = prev_head + turned
           /\ theta \in Int /\ theta > 30 * Degree /\ theta < 330 * Degree
<1>1. theta \in Int
  BY Units, SMT DEF Types, Angle
<1>2. ASSUME degree > 0, ~wrapped
      PROVE  Reading(theta) = prev_head + turned /\ theta > 30 * Degree /\ theta < 330 * Degree
  <2>1. turned >= 0 /\ turned < degree + Sample
    BY <1>2 DEF Way, LeftWay
  <2>2. ~(target > HalfTurn - Sample)
    BY <1>2 DEF Tight
  <2> QED BY <1>1, <1>2, <2>1, <2>2, CallFacts, BudgetFacts, SMT DEF Reading
<1>3. ASSUME degree < 0, ~wrapped
      PROVE  Reading(theta) = prev_head + turned /\ theta > 30 * Degree /\ theta < 330 * Degree
  <2>1. turned <= 0 /\ turned > degree - Sample
    BY <1>3 DEF Way, RightWay
  <2>2. ~(target < Sample - 1)
    BY <1>3 DEF Tight
  <2> QED BY <1>1, <1>3, <2>1, <2>2, CallFacts, BudgetFacts, SMT DEF Reading
<1>4. ASSUME degree > 0, wrapped
      PROVE  theta > 30 * Degree /\ theta < 330 * Degree
  <2>1. /\ turned >= 0
        /\ \/ theta < HalfTurn
           \/ theta < HalfTurn + Sample
           \/ theta < HalfTurn + target + Sample
    BY <1>4 DEF Way, LeftWayRound
  <2> QED BY <1>1, <1>4, <2>1, CallFacts, BudgetFacts, SMT
<1>5. ASSUME degree < 0, wrapped
      PROVE  theta > 30 * Degree /\ theta < 330 * Degree
  <2>1. turned <= 0 /\ theta >= HalfTurn - 2 * Sample
    BY <1>5 DEF Way, RightWayRound
  <2> QED BY <1>1, <1>5, <2>1, CallFacts, BudgetFacts, SMT
<1>6. ASSUME degree = 0
      PROVE  theta > 30 * Degree /\ theta < 330 * Degree
  <2>1. turned = 0
    BY <1>6 DEF Way, NoWay
  <2> QED BY <1>1, <1>6, <2>1, CallFacts, BudgetFacts, SMT
<1>7. degree > 0 \/ degree < 0 \/ degree = 0
  BY CallFacts, SMT
<1> QED BY <1>1, <1>2, <1>3, <1>4, <1>5, <1>6, <1>7, Zenon

LEMMA CallBegins == ASSUME Budget, MissionInv, TurnStep, Begin PROVE MissionInv'
<1>1. /\ MissionPhases /\ Called' /\ at \in 1..34 /\ at' = at /\ narrow' \in BOOLEAN
      /\ pc = "start" /\ motors = "off" /\ rps = Reading(theta) /\ rps # RpsFailure
      /\ theta' = theta /\ turned' = turned /\ rps' = rps /\ outage' = outage /\ outage = 0
      /\ degree' = degree /\ prev_head' = rps
  BY CallRuns, Zenon DEF MissionPhases, Begin, worldVars
<1>2. /\ wrapped' = WrapsAround(rps + degree) /\ target' = Corrected(rps + degree)
      /\ motors' = IF degree > 0 THEN "left" ELSE IF degree < 0 THEN "right" ELSE motors
      /\ pc' = IF degree = 0 THEN "stop" ELSE IF wrapped' THEN "wrap" ELSE "turn"
  BY DEF Begin
<1>3. /\ theta \in Int /\ turned \in Int /\ degree \in Int /\ rps \in Report /\ Types
  BY <1>1, Units, SMT DEF MissionPhases, Types, Angle
<1>4. Types'
  BY <1>1, <1>3 DEF Types
<1>5. at' \in 1..35 /\ pc' \in {"stop", "wrap", "turn"}
  BY <1>1, <1>2, SMT
<1>6. MissionPhases'
  BY <1>1, <1>4, <1>5, Zenon DEF MissionPhases
<1>7. PlaceInv'
  BY <1>1 DEF PlaceInv
<1>8. ASSUME ~narrow' PROVE CallWay'
  <2>1. ~narrow /\ Modest /\ turned = 0
    BY <1>1, <1>8, CallRuns, Zenon DEF MissionInv, CallWay, Called
  <2>2. Base = theta /\ Base' = theta
    BY <1>1, <1>3, <2>1, SMT DEF Base
  <2>3. Modest'
    BY <1>1, <2>1, <2>2 DEF Modest, Lands, Ends, Band, Between
  <2>4. Begun'
    BY <1>1, <1>2, <2>2 DEF Begun
  <2>5. /\ theta >= 80 * Degree /\ theta <= 280 * Degree
        /\ degree >= -46 * Degree /\ degree <= 46 * Degree
    BY <1>3, <2>1, <2>2, BudgetFacts, SMT DEF Modest
  <2>6. rps = IF theta < HalfTurn THEN theta ELSE theta - HalfTurn
    BY <1>1 DEF Reading
  <2>7. wrapped' <=> rps + degree < 0 \/ rps + degree > HalfTurn - 1
    BY <1>2, Zenon DEF WrapsAround
  <2>8. Tight' => pc' = "turn" /\ turned' = 0
    <3>1. ASSUME Tight' PROVE ~wrapped' /\ degree # 0
      <4>1. ~wrapped' /\ (degree < 0 \/ degree > 0)
        BY <1>1, <3>1 DEF Tight
      <4> QED BY <1>3, <4>1, SMT
    <3> QED BY <1>1, <1>2, <2>1, <3>1
  <2>9. degree = 0 \/ degree > 0 \/ degree < 0
    BY <1>3, SMT
  <2>10. CASE degree = 0
    <3>1. ~(degree > 0) /\ ~(degree < 0)
      BY <2>10, SMT
    <3>2. pc' = "stop" /\ turned' = 0
      BY <1>1, <1>2, <2>1, <2>10
    <3>3. Way'
      BY <1>1, <3>1, <3>2, Zenon DEF Way, NoWay, LeftWay, LeftWayRound, RightWay, RightWayRound
    <3> QED BY <1>2, <2>3, <2>4, <2>8, <3>2, <3>3, Zenon DEF CallWay
  <2>11. CASE degree > 0
    <3>1. ~(degree = 0) /\ ~(degree < 0) /\ motors' = "left" /\ turned' >= 0
          /\ turned' < degree + Sample
      BY <1>1, <1>2, <1>3, <2>1, <2>11, BudgetFacts, SMT
    <3>2. ASSUME wrapped' PROVE theta' < HalfTurn /\ pc' = "wrap"
      <4>1. rps + degree < 0 \/ rps + degree > HalfTurn - 1
        BY <2>7, <3>2, Zenon
      <4>2. theta < HalfTurn
        BY <1>3, <2>5, <2>6, <2>11, <4>1, BudgetFacts, SMT
      <4> QED BY <1>1, <1>2, <3>1, <3>2, <4>2, Zenon
    <3>3. ASSUME ~wrapped' PROVE pc' = "turn"
      BY <1>2, <3>1, <3>3, Zenon
    <3>4. Way'
      BY <1>1, <3>1, <3>2, <3>3, Zenon
      DEF Way, NoWay, LeftWay, LeftWayRound, RightWay, RightWayRound
    <3> QED BY <1>1, <1>2, <1>5, <2>3, <2>4, <2>8, <3>4, Zenon DEF CallWay
  <2>12. CASE degree < 0
    <3>1. ~(degree = 0) /\ ~(degree > 0) /\ motors' = "right" /\ turned' <= 0
          /\ turned' > degree - Sample
      BY <1>1, <1>2, <1>3, <2>1, <2>12, BudgetFacts, SMT
    <3>2. ASSUME wrapped'
          PROVE  theta' >= HalfTurn - Sample /\ theta' >= HalfTurn - 2 * Sample /\ pc' = "wrap"
      <4>1. rps + degree < 0 \/ rps + degree > HalfTurn - 1
        BY <2>7, <3>2, Zenon
      <4>2. theta >= HalfTurn - Sample /\ theta >= HalfTurn - 2 * Sample
        <5>1. CASE rps + degree < 0
          BY <1>3, <2>5, <2>6, <2>12, <5>1, BudgetFacts, SMT
        <5>2. CASE rps + degree > HalfTurn - 1
          BY <1>3, <2>5, <2>6, <2>12, <5>2, BudgetFacts, SMT
        <5> QED BY <4>1, <5>1, <5>2
      <4> QED BY <1>1, <1>2, <3>1, <3>2, <4>2, Zenon
    <3>3. ASSUME ~wrapped' PROVE pc' = "turn"
      BY <1>2, <3>1, <3>3, Zenon
    <3>4. Way'
      BY <1>1, <3>1, <3>2, <3>3, Zenon
      DEF Way, NoWay, LeftWay, LeftWayRound, RightWay, RightWayRound
    <3> QED BY <1>1, <1>2, <1>5, <2>3, <2>4, <2>8, <3>4, Zenon DEF CallWay
  <2> QED BY <2>9, <2>10, <2>11, <2>12
<1>9. CallWay'
  BY <1>8, Zenon DEF CallWay
<1> QED BY <1>6, <1>7, <1>9 DEF MissionInv

\* A step in which the robot does not move.
LEMMA CallStands ==
    ASSUME Budget, MissionInv, TurnStep, pc # "start",
           SeesHeading \/ Wake \/ Arrive \/ StopTurn
    PROVE  /\ theta' = theta /\ turned' = turned /\ degree' = degree /\ target' = target
           /\ (wrapped' <=> wrapped)
           /\ MissionPhases' /\ PlaceInv'
           /\ (~narrow' => Modest' /\ Begun' /\ ~Tight')
           /\ (~narrow' /\ Way') => CallWay'
<1>1. /\ theta' = theta /\ turned' = turned /\ rps' = rps /\ outage' = outage
      /\ degree' = degree /\ prev_head' = prev_head /\ target' = target /\ wrapped' = wrapped
      /\ pc' \in {"sleep", "wrap", "turn", "stop", "done"}
      /\ pc' = "done" => motors' = "off"
  BY Zenon DEF SeesHeading, Wake, Arrive, StopTurn, worldVars, rotDegVars, localVars
<1>2. MissionPhases /\ Called' /\ at \in 1..34 /\ at' = at /\ narrow' \in BOOLEAN
  BY CallRuns
<1>3. Types' /\ (rps = Reading(theta))' /\ outage' = 0
  BY <1>1, <1>2 DEF MissionPhases, Types
<1>4. MissionPhases'
  <2>1. at' \in 1..35
    BY <1>2, SMT
  <2> QED BY <1>1, <1>2, <1>3, <2>1, Zenon DEF MissionPhases
<1>5. PlaceInv'
  BY <1>2 DEF PlaceInv
<1>6. ASSUME ~narrow' PROVE Modest' /\ Begun' /\ ~Tight'
  <2>1. Modest /\ Begun /\ ~Tight
    BY <1>6, CallRuns
  <2>2. Base' = Base
    BY <1>1 DEF Base
  <2>3. Modest'
    BY <1>1, <1>2, <2>1, <2>2 DEF Modest, Lands, Ends, Band, Between
  <2>4. Begun'
    BY <1>1, <2>1, <2>2 DEF Begun
  <2>5. ~Tight'
    BY <1>1, <2>1 DEF Tight
  <2> QED BY <2>3, <2>4, <2>5
<1> QED BY <1>1, <1>2, <1>4, <1>5, <1>6, Zenon DEF CallWay

\* The sign of the angle and the wrap it needs decide which way a call goes.
LEMMA Ways ==
    ASSUME Budget, Types
    PROVE  /\ \/ degree = 0
              \/ degree > 0 /\ wrapped
              \/ degree > 0 /\ ~wrapped
              \/ degree < 0 /\ wrapped
              \/ degree < 0 /\ ~wrapped
           /\ degree = 0 => ~(degree > 0) /\ ~(degree < 0)
           /\ degree > 0 => ~(degree = 0) /\ ~(degree < 0)
           /\ degree < 0 => ~(degree = 0) /\ ~(degree > 0)
<1>1. degree \in Int
  BY BudgetFacts, SMT DEF Types
<1>2. degree = 0 \/ degree > 0 \/ degree < 0
  BY <1>1, SMT
<1>3. /\ degree = 0 => ~(degree > 0) /\ ~(degree < 0)
      /\ degree > 0 => ~(degree = 0) /\ ~(degree < 0)
      /\ degree < 0 => ~(degree = 0) /\ ~(degree > 0)
  BY <1>1, SMT
<1> QED BY <1>2, <1>3, Zenon

LEMMA CallSees == ASSUME Budget, MissionInv, TurnStep, SeesHeading PROVE MissionInv'
<1>1. pc = "wrap" /\ pc' = "sleep" /\ motors' = motors
  BY DEF SeesHeading
<1>2. /\ theta' = theta /\ turned' = turned /\ degree' = degree /\ target' = target
      /\ (wrapped' <=> wrapped) /\ MissionPhases' /\ PlaceInv'
      /\ (~narrow' /\ Way') => CallWay'
  BY <1>1, CallStands
<1>3. ASSUME ~narrow' PROVE Way'
  <2>1. Way /\ Types
    BY <1>1, <1>3, CallRuns DEF MissionPhases
  <2>2. degree # 0 /\ wrapped
    BY <1>1, <2>1, Ways, Zenon DEF Way, NoWay, LeftWay, RightWay
  <2>3. LeftWayRound' /\ RightWayRound'
    BY <1>1, <1>2, <2>1, Zenon DEF Way, LeftWayRound, RightWayRound
  <2> QED BY <1>2, <2>2, <2>3, Zenon DEF Way, NoWay, LeftWay, RightWay
<1>4. CallWay'
  BY <1>2, <1>3, Zenon DEF CallWay
<1> QED BY <1>2, <1>4 DEF MissionInv

\* The wait for the wrap ends when the report has passed zero, and not before.
LEMMA CallWakes == ASSUME Budget, MissionInv, TurnStep, Wake PROVE MissionInv'
<1>1. /\ pc = "wake" /\ motors' = motors
      /\ pc' = IF StillWrapping(rps) THEN "wrap" ELSE "turn"
  BY DEF Wake
<1>2. /\ theta' = theta /\ turned' = turned /\ degree' = degree /\ target' = target
      /\ (wrapped' <=> wrapped) /\ MissionPhases' /\ PlaceInv'
      /\ (~narrow' /\ Way') => CallWay'
  BY <1>1, CallStands
<1>3. ASSUME ~narrow' PROVE Way'
  <2>1. Way /\ Types /\ rps = Reading(theta) /\ Modest /\ Begun /\ ~Tight
    BY <1>1, <1>3, CallRuns DEF MissionPhases
  <2>2. degree # 0 /\ wrapped
    BY <1>1, <2>1, Ways, Zenon DEF Way, NoWay, LeftWay, RightWay
  <2>3. theta \in Int
    BY <1>1, <2>1, InTurn
  <2>4. CASE degree > 0
    <3>1. /\ motors = "left" /\ turned >= 0 /\ theta < HalfTurn + Sample
      BY <1>1, <2>1, <2>2, <2>4 DEF Way, LeftWayRound
    <3>2. /\ target >= 0 /\ Base < HalfTurn /\ Base > 133 * Degree
          /\ prev_head = Base /\ theta = Base + turned
          /\ target \in Int /\ Base \in Int /\ turned \in Int
      BY <2>1, <2>2, <2>4, CallFacts, BudgetFacts, SMT
    <3>3. CASE prev_head <= rps
      <4>1. pc' = "wrap"
        BY <1>1, <2>4, <3>3 DEF StillWrapping
      <4>2. theta < HalfTurn
        BY <2>1, <2>3, <3>1, <3>2, <3>3, BudgetFacts, SMT DEF Reading
      <4> QED BY <1>1, <1>2, <2>1, <2>2, <2>4, <3>1, <4>1, <4>2, Ways, Zenon
          DEF Way, NoWay, LeftWay, LeftWayRound, RightWay, RightWayRound
    <3>4. CASE ~(prev_head <= rps)
      <4>1. pc' = "turn"
        BY <1>1, <2>4, <3>4 DEF StillWrapping
      <4>2. theta >= HalfTurn /\ theta < HalfTurn + target + Sample
        BY <2>1, <2>3, <3>1, <3>2, <3>4, BudgetFacts, SMT DEF Reading
      <4> QED BY <1>1, <1>2, <2>1, <2>2, <2>4, <3>1, <4>1, <4>2, Ways, Zenon
          DEF Way, NoWay, LeftWay, LeftWayRound, RightWay, RightWayRound
    <3> QED BY <3>3, <3>4
  <2>5. CASE degree < 0
    <3>1. /\ motors = "right" /\ turned <= 0 /\ theta >= HalfTurn - 2 * Sample
      BY <1>1, <2>1, <2>2, <2>5 DEF Way, RightWayRound
    <3>2. Base >= HalfTurn /\ prev_head < 46 * Degree /\ prev_head = Base - HalfTurn
          /\ theta = Base + turned /\ Base \in Int /\ turned \in Int
      BY <2>1, <2>2, <2>5, CallFacts, BudgetFacts, SMT
    <3>3. ~(degree > 0)
      BY <2>1, <2>5, Ways
    <3>4. CASE prev_head >= rps
      <4>1. pc' = "wrap"
        BY <1>1, <3>3, <3>4 DEF StillWrapping
      <4>2. theta >= HalfTurn - Sample
        BY <2>1, <2>3, <3>1, <3>2, <3>4, BudgetFacts, SMT DEF Reading
      <4> QED BY <1>1, <1>2, <2>1, <2>2, <2>5, <3>1, <4>1, <4>2, Ways, Zenon
          DEF Way, NoWay, LeftWay, LeftWayRound, RightWay, RightWayRound
    <3>5. CASE ~(prev_head >= rps)
      <4>1. pc' = "turn"
        BY <1>1, <3>3, <3>5 DEF StillWrapping
      <4>2. theta < HalfTurn
        BY <2>1, <2>3, <3>1, <3>2, <3>5, BudgetFacts, SMT DEF Reading
      <4> QED BY <1>1, <1>2, <2>1, <2>2, <2>5, <3>1, <4>1, <4>2, Ways, Zenon
          DEF Way, NoWay, LeftWay, LeftWayRound, RightWay, RightWayRound
    <3> QED BY <3>4, <3>5
  <2> QED BY <2>1, <2>2, <2>4, <2>5, Ways
<1>4. CallWay'
  BY <1>2, <1>3, Zenon DEF CallWay
<1> QED BY <1>2, <1>4 DEF MissionInv

LEMMA CallArrives == ASSUME Budget, MissionInv, TurnStep, Arrive PROVE MissionInv'
<1>1. /\ pc = "turn" /\ motors' = motors /\ pc' = "stop" /\ ~StillTurning
  BY DEF Arrive
<1>2. /\ theta' = theta /\ turned' = turned /\ degree' = degree /\ target' = target
      /\ (wrapped' <=> wrapped) /\ MissionPhases' /\ PlaceInv'
      /\ (~narrow' /\ Way') => CallWay'
  BY <1>1, CallStands
<1>3. ASSUME ~narrow' PROVE Way'
  <2>1. Way /\ Types /\ rps = Reading(theta) /\ Modest /\ Begun /\ ~Tight
    BY <1>1, <1>3, CallRuns DEF MissionPhases
  <2>2. theta \in Int /\ theta > 30 * Degree /\ theta < 330 * Degree
    BY <1>1, <2>1, InTurn
  <2>3. degree # 0
    BY <1>1, <2>1 DEF Way, NoWay
  <2>4. CASE degree > 0 /\ ~wrapped
    <3>1. turned >= 0 /\ turned < degree + Sample
      BY <1>1, <2>1, <2>4 DEF Way, LeftWay
    <3>2. turned >= degree
      <4>1. rps = prev_head + turned
        BY <1>1, <2>1, <2>4, InTurn
      <4>2. ~(rps < target)
        BY <1>1, <2>4 DEF StillTurning
      <4> QED BY <2>1, <2>4, <4>1, <4>2, CallFacts, BudgetFacts, SMT
    <3> QED BY <1>1, <1>2, <2>1, <2>4, <3>1, <3>2, Ways, Zenon
        DEF Way, NoWay, LeftWay, LeftWayRound, RightWay, RightWayRound
  <2>5. CASE degree > 0 /\ wrapped
    <3>1. turned >= 0 /\ theta >= HalfTurn /\ theta < HalfTurn + target + Sample
      BY <1>1, <2>1, <2>5 DEF Way, LeftWayRound
    <3>2. theta >= HalfTurn + target
      <4>1. ~(rps < target)
        BY <1>1, <2>5 DEF StillTurning
      <4>2. rps = theta - HalfTurn
        BY <2>1, <2>2, <3>1, BudgetFacts, SMT DEF Reading
      <4> QED BY <2>1, <2>2, <4>1, <4>2, CallFacts, BudgetFacts, SMT
    <3> QED BY <1>1, <1>2, <2>1, <2>5, <3>1, <3>2, Ways, Zenon
        DEF Way, NoWay, LeftWay, LeftWayRound, RightWay, RightWayRound
  <2>6. CASE degree < 0 /\ ~wrapped
    <3>1. turned <= 0 /\ turned > degree - Sample
      BY <1>1, <2>1, <2>6 DEF Way, RightWay
    <3>2. turned <= degree
      <4>1. rps = prev_head + turned
        BY <1>1, <2>1, <2>6, InTurn
      <4>2. ~(degree > 0)
        BY <2>1, <2>6, Ways
      <4>3. ~(rps > target)
        BY <1>1, <4>2 DEF StillTurning
      <4> QED BY <2>1, <2>6, <4>1, <4>3, CallFacts, BudgetFacts, SMT
    <3> QED BY <1>1, <1>2, <2>1, <2>6, <3>1, <3>2, Ways, Zenon
        DEF Way, NoWay, LeftWay, LeftWayRound, RightWay, RightWayRound
  <2>7. CASE degree < 0 /\ wrapped
    <3>1. turned <= 0 /\ theta >= HalfTurn - 2 * Sample /\ theta < HalfTurn
      BY <1>1, <2>1, <2>7 DEF Way, RightWayRound
    <3> QED BY <1>1, <1>2, <2>1, <2>7, <3>1, Ways, Zenon
        DEF Way, NoWay, LeftWay, LeftWayRound, RightWay, RightWayRound
  <2> QED BY <2>1, <2>3, <2>4, <2>5, <2>6, <2>7, Ways, Zenon
<1>4. CallWay'
  BY <1>2, <1>3, Zenon DEF CallWay
<1> QED BY <1>2, <1>4 DEF MissionInv

LEMMA CallStops == ASSUME Budget, MissionInv, TurnStep, StopTurn PROVE MissionInv'
<1>1. pc = "stop" /\ pc' = "done"
  BY DEF StopTurn
<1>2. /\ theta' = theta /\ turned' = turned /\ degree' = degree /\ target' = target
      /\ (wrapped' <=> wrapped) /\ MissionPhases' /\ PlaceInv'
      /\ (~narrow' /\ Way') => CallWay'
  BY <1>1, CallStands
<1>3. ASSUME ~narrow' PROVE Way'
  <2>1. Way
    BY <1>1, <1>3, CallRuns
  <2>2. NoWay' /\ LeftWay' /\ LeftWayRound' /\ RightWay' /\ RightWayRound'
    BY <1>1, <1>2, <2>1, Zenon DEF Way, NoWay, LeftWay, LeftWayRound, RightWay, RightWayRound
  <2> QED BY <2>2 DEF Way
<1>4. CallWay'
  BY <1>2, <1>3, Zenon DEF CallWay
<1> QED BY <1>2, <1>4 DEF MissionInv

\* How far a tick carries a robot that turns, in the middle of the circle.
LEMMA TickWay ==
    ASSUME Budget, Types, WorldTick, theta > 30 * Degree, theta < 330 * Degree
    PROVE  /\ motors = "left" =>
                 \E rate \in 1..Sample : turned' = turned + rate /\ theta' = theta + rate
           /\ motors = "right" =>
                 \E rate \in 1..Sample : turned' = turned - rate /\ theta' = theta - rate
<1>1. theta \in Angle /\ theta \in Int
  BY Units, SMT DEF Types, Angle
<1>2. ASSUME NEW rate \in 1..Sample
      PROVE  (theta + rate) % FullTurn = theta + rate /\ (theta - rate) % FullTurn = theta - rate
  <2>1. rate \in 0..QuarterTurn
    BY SampleIsMost, Units, SMT
  <2>2. theta + rate < FullTurn /\ theta - rate >= 0
    BY <1>1, BudgetFacts, SMT
  <2> QED BY <1>1, <2>1, <2>2, Around
<1>3. ASSUME motors = "left"
      PROVE  \E rate \in 1..Sample : turned' = turned + rate /\ theta' = theta + rate
  BY <1>2, <1>3, TickFacts
<1>4. ASSUME motors = "right"
      PROVE  \E rate \in 1..Sample : turned' = turned - rate /\ theta' = theta - rate
  BY <1>2, <1>4, TickFacts
<1> QED BY <1>3, <1>4

\* What every tick leaves alone.
LEMMA CallTickTypes ==
    ASSUME Budget, MissionInv, TurnStep, RotDegTick
    PROVE  /\ MissionPhases' /\ PlaceInv' /\ Types /\ WorldTick /\ Blocked
           /\ degree' = degree /\ prev_head' = prev_head /\ target' = target
           /\ wrapped' = wrapped /\ (wrapped' <=> wrapped) /\ motors' = motors
           /\ pc \in {"start", "wrap", "sleep", "turn"}
           /\ pc' = IF pc = "sleep" THEN "wake" ELSE pc
           /\ rps = Reading(theta)
           /\ pc = "start" => turned' = turned /\ theta' = theta
<1>1. /\ MissionPhases /\ Called' /\ at \in 1..34 /\ at' = at /\ narrow' \in BOOLEAN
  BY CallRuns
<1>2. /\ Types /\ rps = Reading(theta) /\ outage = 0 /\ (pc = "start" => motors = "off")
  BY <1>1, Zenon DEF MissionPhases
<1>3. /\ WorldTick /\ Blocked /\ motors' = motors
      /\ degree' = degree /\ prev_head' = prev_head /\ target' = target /\ wrapped' = wrapped
      /\ pc' = IF pc = "sleep" THEN "wake" ELSE pc
  BY DEF RotDegTick, rotDegVars, localVars
<1>4. pc \in {"start", "wrap", "sleep", "turn"}
  BY <1>3, Zenon DEF Blocked
<1>5. pc' \in {"start", "wrap", "wake", "turn"} /\ (pc' = "start" => pc = "start")
  BY <1>3, <1>4
<1>6. /\ theta' \in Angle /\ turned' \in Int /\ rps' \in Report
      /\ pc = "start" => turned' = turned /\ theta' = theta
  BY <1>2, <1>3, TickFacts
<1>7. rps' = Reading(theta') /\ outage' = 0
  <2>1. ~(outage < MaxOutage)
    BY <1>2, SMT DEF Budget
  <2> QED BY <1>3, <2>1 DEF WorldTick, ReportComes
<1>8. Types'
  BY <1>2, <1>3, <1>6 DEF Types
<1>9. MissionPhases'
  <2>1. at' \in 1..35
    BY <1>1, SMT
  <2>2. pc' = "start" => motors' = "off"
    BY <1>2, <1>3, <1>5
  <2> QED BY <1>1, <1>5, <1>7, <1>8, <2>1, <2>2, Zenon DEF MissionPhases
<1>10. PlaceInv'
  BY <1>1 DEF PlaceInv
<1> QED BY <1>2, <1>3, <1>4, <1>6, <1>9, <1>10, Zenon

\* A tick before the call has a heading to start from.
LEMMA CallWaits == ASSUME Budget, MissionInv, TurnStep, RotDegTick, pc = "start" PROVE CallWay'
<1>1. /\ degree' = degree /\ theta' = theta /\ turned' = turned /\ pc' = "start" /\ at' = at
  BY CallTickTypes, CallRuns
<1>2. ASSUME ~narrow' PROVE Modest' /\ turned' = 0
  <2>1. ~narrow /\ Modest /\ turned = 0
    BY <1>2, CallRuns, Zenon DEF MissionInv, CallWay, Called
  <2>2. Base' = Base
    BY <1>1 DEF Base
  <2> QED BY <1>1, <2>1, <2>2 DEF Modest, Lands, Ends, Band, Between
<1> QED BY <1>1, <1>2, Zenon DEF CallWay

\* A tick of a turn.
LEMMA CallTurns == ASSUME Budget, MissionInv, TurnStep, RotDegTick, pc # "start" PROVE CallWay'
<1>1. /\ Types /\ WorldTick /\ Blocked
      /\ degree' = degree /\ prev_head' = prev_head /\ target' = target
      /\ wrapped' = wrapped /\ (wrapped' <=> wrapped) /\ motors' = motors
      /\ pc \in {"wrap", "sleep", "turn"}
      /\ pc' = IF pc = "sleep" THEN "wake" ELSE pc
      /\ rps = Reading(theta) /\ at' = at
  BY CallTickTypes, CallRuns
<1>2. pc = "wrap" => rps = 0
  BY <1>1 DEF Blocked, RpsFailure
<1>3. pc = "turn" => StillTurning
  BY <1>1 DEF Blocked
<1>4. ASSUME ~narrow' PROVE CallWay'
  <2>1. Modest /\ Begun /\ ~Tight /\ Way
    BY <1>4, CallRuns
  <2>2. theta \in Int /\ theta > 30 * Degree /\ theta < 330 * Degree /\ turned \in Int
    BY <1>1, <2>1, InTurn DEF Types
  <2>3. /\ motors = "left" =>
              \E rate \in 1..Sample : turned' = turned + rate /\ theta' = theta + rate
        /\ motors = "right" =>
              \E rate \in 1..Sample : turned' = turned - rate /\ theta' = theta - rate
    BY <1>1, <2>2, TickWay
  <2>4. degree # 0
    BY <1>1, <2>1 DEF Way, NoWay
  <2>9. ASSUME Base' = Base, Way' PROVE CallWay'
    <3>1. Modest'
      BY <1>1, <2>1, <2>9 DEF Modest, Lands, Ends, Band, Between
    <3>2. Begun'
      BY <1>1, <2>1, <2>9 DEF Begun
    <3>3. ~Tight' /\ pc' # "start"
      BY <1>1, <2>1 DEF Tight
    <3> QED BY <2>9, <3>1, <3>2, <3>3, Zenon DEF CallWay
  <2>5. CASE degree > 0 /\ ~wrapped
    <3>1. pc = "turn" /\ motors = "left" /\ turned >= 0 /\ turned < degree + Sample
      BY <1>1, <2>1, <2>5 DEF Way, LeftWay
    <3>2. turned < degree
      <4>1. rps = prev_head + turned
        BY <1>1, <2>1, <2>5, InTurn
      <4>2. rps < target
        BY <1>3, <2>5, <3>1 DEF StillTurning
      <4> QED BY <1>1, <2>1, <2>2, <2>5, <4>1, <4>2, CallFacts, BudgetFacts, SMT
    <3>3. PICK rate \in 1..Sample : turned' = turned + rate /\ theta' = theta + rate
      BY <2>3, <3>1
    <3>4. Base' = Base /\ turned' >= 0 /\ turned' < degree + Sample
      BY <1>1, <2>1, <2>2, <3>1, <3>2, <3>3, CallFacts, BudgetFacts, SMT DEF Base
    <3>5. Way'
      BY <1>1, <2>5, <3>1, <3>4, Ways, Zenon
      DEF Way, NoWay, LeftWay, LeftWayRound, RightWay, RightWayRound
    <3> QED BY <3>1, <3>4, <3>5, <2>9
  <2>6. CASE degree > 0 /\ wrapped
    <3>1. /\ motors = "left" /\ turned >= 0
          /\ pc \in {"wrap", "sleep"} => theta < HalfTurn
          /\ pc = "turn" => theta >= HalfTurn /\ theta < HalfTurn + target + Sample
      BY <1>1, <2>1, <2>6 DEF Way, LeftWayRound
    <3>2. pc # "wrap"
      BY <1>1, <1>2, <2>2, <3>1, BudgetFacts, SMT DEF Reading
    <3>3. pc = "turn" => theta < HalfTurn + target
      <4>1. ASSUME pc = "turn" PROVE theta < HalfTurn + target
        <5>1. rps < target
          BY <1>3, <2>6, <4>1 DEF StillTurning
        <5>2. rps = theta - HalfTurn
          BY <1>1, <2>2, <3>1, <4>1, BudgetFacts, SMT DEF Reading
        <5> QED BY <1>1, <2>1, <2>2, <5>1, <5>2, CallFacts, BudgetFacts, SMT
      <4> QED BY <4>1
    <3>4. PICK rate \in 1..Sample : turned' = turned + rate /\ theta' = theta + rate
      BY <2>3, <3>1
    <3>5. /\ Base' = Base /\ turned' >= 0
          /\ theta < HalfTurn => theta' < HalfTurn + Sample
          /\ theta >= HalfTurn => theta' >= HalfTurn
          /\ theta < HalfTurn + target => theta' < HalfTurn + target + Sample
      BY <1>1, <2>1, <2>2, <3>1, <3>4, CallFacts, BudgetFacts, SMT DEF Base
    <3>6. Way'
      BY <1>1, <2>6, <3>1, <3>2, <3>3, <3>5, Ways, Zenon
      DEF Way, NoWay, LeftWay, LeftWayRound, RightWay, RightWayRound
    <3> QED BY <3>5, <3>6, <2>9
  <2>7. CASE degree < 0 /\ ~wrapped
    <3>1. pc = "turn" /\ motors = "right" /\ turned <= 0 /\ turned > degree - Sample
      BY <1>1, <2>1, <2>7 DEF Way, RightWay
    <3>2. turned > degree
      <4>1. rps = prev_head + turned
        BY <1>1, <2>1, <2>7, InTurn
      <4>2. ~(degree > 0)
        BY <1>1, <2>7, Ways
      <4>3. rps > target
        BY <1>3, <3>1, <4>2 DEF StillTurning
      <4> QED BY <1>1, <2>1, <2>2, <2>7, <4>1, <4>3, CallFacts, BudgetFacts, SMT
    <3>3. PICK rate \in 1..Sample : turned' = turned - rate /\ theta' = theta - rate
      BY <2>3, <3>1
    <3>4. Base' = Base /\ turned' <= 0 /\ turned' > degree - Sample
      BY <1>1, <2>1, <2>2, <3>1, <3>2, <3>3, CallFacts, BudgetFacts, SMT DEF Base
    <3>5. Way'
      BY <1>1, <2>7, <3>1, <3>4, Ways, Zenon
      DEF Way, NoWay, LeftWay, LeftWayRound, RightWay, RightWayRound
    <3> QED BY <3>1, <3>4, <3>5, <2>9
  <2>8. CASE degree < 0 /\ wrapped
    <3>1. /\ motors = "right" /\ turned <= 0
          /\ pc \in {"wrap", "sleep"} => theta >= HalfTurn - Sample
          /\ pc = "turn" => theta < HalfTurn
      BY <1>1, <2>1, <2>8 DEF Way, RightWayRound
    <3>2. pc # "turn"
      <4>1. ASSUME pc = "turn" PROVE FALSE
        <5>1. ~(degree > 0)
          BY <1>1, <2>8, Ways
        <5>2. rps > target
          BY <1>3, <4>1, <5>1 DEF StillTurning
        <5> QED BY <1>1, <2>1, <2>2, <2>8, <3>1, <4>1, <5>2, CallFacts, BudgetFacts, SMT DEF Reading
      <4> QED BY <4>1
    <3>3. pc = "wrap" => theta >= HalfTurn
      BY <1>1, <1>2, <2>2, BudgetFacts, SMT DEF Reading
    <3>4. PICK rate \in 1..Sample : turned' = turned - rate /\ theta' = theta - rate
      BY <2>3, <3>1
    <3>5. /\ Base' = Base /\ turned' <= 0
          /\ theta >= HalfTurn => theta' >= HalfTurn - Sample
          /\ theta >= HalfTurn - Sample => theta' >= HalfTurn - 2 * Sample
          /\ theta >= HalfTurn => theta >= HalfTurn - Sample
      BY <1>1, <2>1, <2>2, <3>1, <3>4, CallFacts, BudgetFacts, SMT DEF Base
    <3>6. Way'
      BY <1>1, <2>8, <3>1, <3>2, <3>3, <3>5, Ways, Zenon
      DEF Way, NoWay, LeftWay, LeftWayRound, RightWay, RightWayRound
    <3> QED BY <3>5, <3>6, <2>9
  <2> QED BY <1>1, <2>4, <2>5, <2>6, <2>7, <2>8, Ways, Zenon
<1> QED BY <1>4, Zenon DEF CallWay

LEMMA TurnKeeps == ASSUME Budget, MissionInv, TurnStep PROVE MissionInv'
<1>1. RotDegNext
  BY DEF TurnStep
<1>2. CASE RotDegTick
  BY <1>2, CallTickTypes, CallWaits, CallTurns DEF MissionInv
<1>3. CASE Begin
  BY <1>3, CallBegins
<1>4. CASE SeesHeading
  BY <1>4, CallSees
<1>5. CASE Wake
  BY <1>5, CallWakes
<1>6. CASE Arrive
  BY <1>6, CallArrives
<1>7. CASE StopTurn
  BY <1>7, CallStops
<1> QED BY <1>1, <1>2, <1>3, <1>4, <1>5, <1>6, <1>7 DEF RotDegNext

LEMMA MissionStutters == ASSUME MissionInv, UNCHANGED missionVars PROVE MissionInv'
<1>1. /\ theta' = theta /\ turned' = turned /\ rps' = rps /\ outage' = outage /\ motors' = motors
      /\ pc' = pc /\ degree' = degree /\ prev_head' = prev_head /\ target' = target
      /\ wrapped' = wrapped /\ at' = at /\ narrow' = narrow
  BY DEF missionVars, worldVars, rotDegVars, localVars, scriptVars
<1>2. Base' = Base
  BY <1>1 DEF Base
<1>3. MissionPhases'
  <2>1. Types' /\ (rps = Reading(theta))'
    BY <1>1 DEF MissionInv, MissionPhases, Types
  <2>2. MissionPhases
    BY DEF MissionInv
  <2> QED BY <1>1, <2>1, <2>2, Zenon DEF MissionPhases
<1>4. Modest => Modest'
  BY <1>1, <1>2 DEF Modest, Lands, Ends, Band, Between
<1>5. (Begun => Begun') /\ (Tight' <=> Tight)
  BY <1>1, <1>2, Zenon DEF Begun, WrapsAround, Corrected, Tight
<1>6. Way => Way'
  BY <1>1, Zenon DEF Way, NoWay, LeftWay, LeftWayRound, RightWay, RightWayRound
<1>7. Band(at, theta) => Band(at', theta')
  BY <1>1 DEF Band, Between
<1>8. narrow' <=> narrow
  BY <1>1
<1>9. CallWay /\ PlaceInv
  BY DEF MissionInv
<1>10. CallWay'
  BY <1>1, <1>4, <1>5, <1>6, <1>8, <1>9, Zenon DEF CallWay, Called
<1>11. PlaceInv'
  BY <1>1, <1>7, <1>8, <1>9, Zenon DEF PlaceInv, Called
<1> QED BY <1>3, <1>10, <1>11 DEF MissionInv

-------------------------------------------------------------------------------
LEMMA MissionStep == ASSUME Budget, MissionInv, [MissionNext]_missionVars PROVE MissionInv'
<1>1. CASE DriveStep
  BY <1>1, DriveKeeps
<1>2. CASE ForkStep
  BY <1>2, ForkKeeps
<1>3. CASE RotateStep
  BY <1>3, RotateKeeps
<1>4. CASE CorrectStep
  BY <1>4, CorrectKeeps
<1>5. CASE ZeroStep
  BY <1>5, ZeroKeeps
<1>6. CASE ZeroCall
  BY <1>6, ZeroCallKeeps
<1>7. CASE TurnStep
  BY <1>7, TurnKeeps
<1>8. CASE Return
  BY <1>8, ReturnKeeps
<1>9. CASE UNCHANGED missionVars
  BY <1>9, MissionStutters
<1> QED BY <1>1, <1>2, <1>3, <1>4, <1>5, <1>6, <1>7, <1>8, <1>9 DEF MissionNext

\* The robot that drives is where the plan of the drive says.
LEMMA MissionSafe == ASSUME Budget, MissionInv PROVE LegHeadings
<1>1. ASSUME Performs("drive"), ~narrow
      PROVE  Magnitude(Turn(Script[at].plan, theta, FullTurn)) <= Tolerance
  <2>1. /\ MissionPhases /\ pc = "script" /\ at \in Drives
    BY <1>1, ScriptAt, ScriptOps, SMT DEF MissionInv, MissionPhases, Performs
  <2>2. Band(at, theta)
    BY <1>1, <2>1 DEF MissionInv, PlaceInv, Called
  <2>3. theta \in Int
    BY <2>1, Units, SMT DEF MissionPhases, Types, Angle
  <2> QED BY <2>1, <2>2, <2>3, DrivePlanned
<1> QED BY <1>1 DEF LegHeadings

\* Every drive begins within the tolerance of the heading it is planned for, whatever
\* the resolution, the rates and the drifts within the budget, and whatever the calls
\* before it have added up to, unless a turn was narrow.
THEOREM LegsKept == Budget /\ MissionSpec => []LegHeadings
<1> SUFFICES ASSUME Budget PROVE MissionSpec => []LegHeadings
  OBVIOUS
<1>1. MissionInit => MissionInv
  BY MissionInitial
<1>2. MissionInv /\ [MissionNext]_missionVars => MissionInv'
  BY MissionStep
<1>3. MissionInv => LegHeadings
  BY MissionSafe
<1> QED BY <1>1, <1>2, <1>3, PTL DEF MissionSpec

-------------------------------------------------------------------------------
\* Every variable of a mission has its type, and the calls are for a quarter turn at
\* most, which keeps the target of a left turn a heading that can be reported.
MissionTypeInv ==
    /\ Types /\ degree \in -QuarterTurn..QuarterTurn
    /\ turned \in -MaxTurn..MaxTurn /\ outage \in 0..MaxOutage /\ unseen \in BOOLEAN
    /\ motors \in {"left", "right", "off"}
    /\ current_head \in Report /\ wrapped \in BOOLEAN
    /\ target \in 0..2 * HalfTurn
    /\ degree > 0 /\ motors = "left" => target \in Report
    /\ at \in 1..35 /\ (pc # "script" => at \in 1..34)
    /\ pc \in {"script", "zero", "start", "wrap", "sleep", "wake", "turn", "stop", "done"}
    /\ pc \in {"script", "zero", "start", "done"} => motors = "off"
    /\ pc = "zero" =>
          /\ at \in Corrections0 /\ rps # QuarterTurn
          /\ target = IF rps < QuarterTurn THEN Script[at].above ELSE Script[at].below
    /\ f_mot \in -100..100 /\ narrow \in BOOLEAN

LEMMA ZeroFits == /\ 0 \in Report /\ 0 \in -QuarterTurn..QuarterTurn /\ 0 \in -HalfTurn..HalfTurn
              /\ 0 \in -MaxTurn..MaxTurn /\ 0 \in 0..MaxOutage /\ 0 \in 0..2 * HalfTurn
              /\ 0 \in -100..100
<1>1. MaxTurn \in Nat /\ MaxOutage \in Nat
  BY TurningAssumption
<1> QED BY <1>1, Units, SMT DEF Report

LEMMA Quarters == -QuarterTurn..QuarterTurn \subseteq -HalfTurn..HalfTurn
BY Units, SMT

LEMMA TypedInitial == MissionInit => MissionTypeInv
<1> SUFFICES ASSUME MissionInit PROVE MissionTypeInv
  OBVIOUS
<1>1. /\ theta \in Angle /\ turned = 0 /\ rps \in {Reading(theta), RpsFailure} /\ outage = 0
      /\ unseen \in BOOLEAN /\ motors = "off" /\ pc = "script" /\ at = 1 /\ f_mot = 0
      /\ narrow = FALSE /\ degree = 0 /\ current_head = 0 /\ prev_head = 0 /\ target = 0
      /\ wrapped = FALSE
  BY MissionAssumption DEF MissionInit, WorldInit, RotDegInit
<1>2. rps \in Report
  BY <1>1, ZeroFits, ReadingType DEF RpsFailure
<1>3. Types /\ 1 \in 1..35
  BY <1>1, <1>2, ZeroFits, SMT DEF Types
<1>4. unseen \in BOOLEAN /\ wrapped \in BOOLEAN /\ narrow \in BOOLEAN
  BY <1>1
<1> QED BY <1>1, <1>3, <1>4, ZeroFits, Zenon DEF MissionTypeInv

\* A tick of the world, or the end of a drive.
LEMMA ReportTyped ==
    ASSUME MissionTypeInv, theta' \in Angle, ReportComes
    PROVE  rps' \in Report /\ outage' \in 0..MaxOutage /\ unseen' \in BOOLEAN
<1>1. outage' \in 0..MaxOutage
  <2>1. outage \in 0..MaxOutage /\ MaxOutage \in Nat
    BY TurningAssumption DEF MissionTypeInv
  <2> QED BY <2>1, SMT DEF ReportComes
<1>2. rps' \in Report
  BY ZeroFits, ReadingType DEF ReportComes, RpsFailure
<1>3. unseen' \in BOOLEAN
  BY Zenon DEF ReportComes, MissionTypeInv
<1> QED BY <1>1, <1>2, <1>3

LEMMA DriveTyped == ASSUME MissionTypeInv, DriveStep PROVE MissionTypeInv'
<1>1. /\ pc = "script" /\ at \in 1..34 /\ at' = at + 1 /\ pc' = pc
      /\ turned' = turned /\ motors' = motors /\ degree' = degree /\ current_head' = current_head
      /\ prev_head' = prev_head /\ target' = target /\ wrapped' = wrapped
      /\ f_mot' = f_mot /\ narrow' = narrow
  BY ScriptAt, SMT DEF MissionTypeInv, DriveStep, Performs, rotDegVars, localVars
<1>2. theta' \in Angle
  <2>1. PICK drift \in Drifts : theta' = (theta + drift) % FullTurn
    BY DEF DriveStep
  <2>2. theta \in Nat /\ drift \in Int /\ FullTurn \in Nat /\ FullTurn > 0
    BY MissionAssumption, Units, SMT DEF MissionTypeInv, Types, Angle
  <2>3. theta + drift \in Int
    BY <2>2, SMT
  <2> QED BY <2>1, <2>2, <2>3, Remainder DEF Angle
<1>3. rps' \in Report /\ outage' \in 0..MaxOutage /\ unseen' \in BOOLEAN
  BY <1>2, ReportTyped DEF DriveStep
<1>4. Types'
  BY <1>1, <1>2, <1>3 DEF MissionTypeInv, Types
<1>5. at' \in 1..35
  BY <1>1, SMT
<1> QED BY <1>1, <1>3, <1>4, <1>5, Zenon DEF MissionTypeInv

LEMMA ForkTyped == ASSUME MissionTypeInv, ForkStep PROVE MissionTypeInv'
<1>1. /\ pc = "script" /\ at \in 1..34 /\ at \in Forks /\ at' = at + 1 /\ pc' = pc
      /\ theta' = theta /\ turned' = turned /\ rps' = rps /\ outage' = outage /\ unseen' = unseen
      /\ motors' = motors /\ degree' = degree /\ current_head' = current_head
      /\ prev_head' = prev_head /\ target' = target /\ wrapped' = wrapped
      /\ narrow' = narrow /\ f_mot' = Script[at].power
  BY ScriptAt, ScriptOps, SMT
  DEF MissionTypeInv, ForkStep, Performs, worldVars, rotDegVars, localVars
<1>2. Types'
  BY <1>1 DEF MissionTypeInv, Types
<1>3. f_mot' \in -100..100
  BY <1>1, ScriptAt, SMT DEF Forks, Fork
<1>4. at' \in 1..35
  BY <1>1, SMT
<1> QED BY <1>1, <1>2, <1>3, <1>4, Zenon DEF MissionTypeInv

LEMMA CallTyped ==
    ASSUME MissionTypeInv, NEW angle \in -QuarterTurn..QuarterTurn, Call(angle),
           pc \in {"script", "zero"}, at \in 1..34
    PROVE  MissionTypeInv'
<1>1. /\ degree' = angle /\ turned' = 0 /\ unseen' = FALSE /\ pc' = "start"
      /\ theta' = theta /\ rps' = rps /\ outage' = outage /\ motors' = motors
      /\ current_head' = current_head /\ prev_head' = prev_head /\ target' = target
      /\ wrapped' = wrapped /\ at' = at /\ f_mot' = f_mot /\ narrow' = narrow
  BY DEF Call, localVars, scriptVars
<1>2. motors = "off" /\ at \in 1..35
  BY SMT DEF MissionTypeInv
<1>3. Types'
  BY <1>1, ZeroFits, Quarters, SMT DEF MissionTypeInv, Types
<1>4. unseen' \in BOOLEAN
  BY <1>1
<1> QED BY <1>1, <1>2, <1>3, <1>4, ZeroFits, Zenon DEF MissionTypeInv

\* The angles of the calls are within a quarter turn.
LEMMA RotateTyped == ASSUME MissionTypeInv, RotateStep PROVE MissionTypeInv'
<1> DEFINE angle == Script[at].by
<1>1. Call(angle) /\ pc = "script" /\ at \in 1..34 /\ at \in Rotations
  BY ScriptAt, ScriptOps, SMT DEF MissionTypeInv, RotateStep, Performs
<1>2. angle \in -QuarterTurn..QuarterTurn
  BY <1>1, ScriptAt, Units, SMT DEF Rotations, Rotate
<1> QED BY <1>1, <1>2, CallTyped

LEMMA CorrectTyped == ASSUME MissionTypeInv, CorrectStep PROVE MissionTypeInv'
<1> DEFINE angle == Half(90 * Degree - rps)
<1>1. Call(angle) /\ pc = "script" /\ at \in 1..34 /\ rps \in Report
  BY ScriptAt, SMT DEF MissionTypeInv, Types, CorrectStep, Performs
<1>2. angle \in -QuarterTurn..QuarterTurn
  BY <1>1, Units, SMT DEF Half, Report
<1> QED BY <1>1, <1>2, CallTyped

LEMMA Targets ==
    ASSUME NEW i \in Corrections0
    PROVE  /\ Script[i].above \in 0..Degree
           /\ Script[i].below \in HalfTurn - Degree..HalfTurn
<1>1. CASE i = 17
  <2>1. Script[i].above = Degree /\ Script[i].below = HalfTurn - Degree
    BY <1>1, ScriptAt DEF FullCorrectTo0
  <2> QED BY <2>1, Units, SMT
<1>2. CASE i # 17
  <2>1. Script[i].above = Degree \div 2 /\ Script[i].below = HalfTurn - (6 * Degree) \div 10
    BY <1>2, ScriptAt, SMT DEF CorrectTo0, Corrections0
  <2>2. /\ Degree \div 2 \in 0..Degree
        /\ HalfTurn - (6 * Degree) \div 10 \in HalfTurn - Degree..HalfTurn
    BY Units, SMT
  <2> QED BY <2>1, <2>2
<1> QED BY <1>1, <1>2

LEMMA ZeroTyped == ASSUME MissionTypeInv, ZeroStep PROVE MissionTypeInv'
<1>1. /\ pc = "script" /\ at \in 1..34 /\ at \in Corrections0 /\ motors = "off"
      /\ theta' = theta /\ turned' = turned /\ rps' = rps /\ outage' = outage /\ unseen' = unseen
      /\ motors' = motors /\ degree' = degree /\ current_head' = current_head
      /\ prev_head' = prev_head /\ wrapped' = wrapped /\ f_mot' = f_mot /\ narrow' = narrow
  BY ScriptAt, ScriptOps, SMT DEF MissionTypeInv, ZeroStep, Performs, worldVars
<1>2. rps \in Int /\ QuarterTurn \in Int
  BY Units, SMT DEF MissionTypeInv, Types, Report
<1>3. \/ /\ rps # QuarterTurn /\ pc' = "zero" /\ at' = at
         /\ target' = IF rps < QuarterTurn THEN Script[at].above ELSE Script[at].below
      \/ rps = QuarterTurn /\ at' = at + 1 /\ pc' = "script" /\ target' = target
  BY <1>1, <1>2, SMT DEF ZeroStep
<1>4. target' \in 0..2 * HalfTurn
  <2>1. target \in 0..2 * HalfTurn
    BY DEF MissionTypeInv
  <2>2. /\ Script[at].above \in 0..Degree
        /\ Script[at].below \in HalfTurn - Degree..HalfTurn
    BY <1>1, Targets
  <2>3. Script[at].above \in 0..2 * HalfTurn /\ Script[at].below \in 0..2 * HalfTurn
    BY <2>2, Units, SMT
  <2> QED BY <1>3, <2>1, <2>3
<1>5. at' \in 1..35 /\ (pc' # "script" => at' \in 1..34)
  BY <1>1, <1>3, SMT
<1>6. Types'
  BY <1>1 DEF MissionTypeInv, Types
<1>7. pc' \in {"script", "zero"} /\ motors' = "off"
  BY <1>1, <1>3
<1>8. pc' = "zero" =>
        /\ at' \in Corrections0 /\ rps' # QuarterTurn
        /\ target' = IF rps' < QuarterTurn THEN Script[at'].above ELSE Script[at'].below
  BY <1>1, <1>3
<1> QED BY <1>1, <1>4, <1>5, <1>6, <1>7, <1>8, Zenon DEF MissionTypeInv

LEMMA ZeroCallTyped == ASSUME MissionTypeInv, ZeroCall PROVE MissionTypeInv'
<1> DEFINE angle == IF Script[at].half THEN Half(target - rps) ELSE target - rps
<1>1. /\ Call(angle) /\ pc = "zero" /\ at \in 1..34 /\ at \in Corrections0 /\ rps \in Report
      /\ rps # QuarterTurn
      /\ target = IF rps < QuarterTurn THEN Script[at].above ELSE Script[at].below
  BY DEF MissionTypeInv, Types, ZeroCall
<1>2. target - rps \in -QuarterTurn..QuarterTurn
  <2>1. /\ Script[at].above \in 0..Degree
        /\ Script[at].below \in HalfTurn - Degree..HalfTurn
    BY <1>1, Targets
  <2>2. CASE rps < QuarterTurn
    BY <1>1, <2>1, <2>2, Units, SMT DEF Report
  <2>3. CASE ~(rps < QuarterTurn)
    BY <1>1, <2>1, <2>3, Units, SMT DEF Report
  <2> QED BY <2>2, <2>3
<1>3. angle \in -QuarterTurn..QuarterTurn
  <2> DEFINE way == target - rps
  <2> HIDE DEF way
  <2>1. Half(way) \in -QuarterTurn..QuarterTurn
    BY <1>2, Units, SMT DEF Half, way
  <2> QED BY <1>2, <2>1 DEF way
<1> QED BY <1>1, <1>3, CallTyped

LEMMA BeginTyped ==
    ASSUME MissionTypeInv, Begin
    PROVE  /\ target' \in 0..2 * HalfTurn /\ wrapped' \in BOOLEAN
           /\ degree > 0 => target' \in Report
           /\ pc' \in {"stop", "wrap", "turn"} /\ motors' \in {"left", "right", "off"}
<1>1. /\ wrapped' = WrapsAround(rps + degree) /\ target' = Corrected(rps + degree)
      /\ pc' = IF degree = 0 THEN "stop" ELSE IF wrapped' THEN "wrap" ELSE "turn"
      /\ motors' = IF degree > 0 THEN "left" ELSE IF degree < 0 THEN "right" ELSE motors
      /\ degree \in -QuarterTurn..QuarterTurn /\ rps \in Report
      /\ motors \in {"left", "right", "off"}
  BY DEF Begin, MissionTypeInv, Types
<1>2. target' = IF rps + degree < 0 THEN HalfTurn - (rps + degree)
                ELSE IF rps + degree > HalfTurn - 1 THEN rps + degree - (HalfTurn - 1)
                ELSE rps + degree
  BY <1>1, Units, SMT DEF Corrected, Report
<1>3. target' \in 0..2 * HalfTurn /\ (degree > 0 => target' \in Report)
  BY <1>1, <1>2, Units, SMT DEF Report
<1>4. wrapped' \in BOOLEAN
  BY <1>1, Zenon DEF WrapsAround
<1>5. pc' \in {"stop", "wrap", "turn"} /\ motors' \in {"left", "right", "off"}
  BY <1>1
<1> QED BY <1>3, <1>4, <1>5

LEMMA TurnTyped == ASSUME MissionTypeInv, TurnStep PROVE MissionTypeInv'
<1>1. RotDegNext /\ at' = at /\ f_mot' = f_mot /\ narrow' = (narrow \/ Narrow)
  BY DEF TurnStep
<1>2. narrow' \in BOOLEAN
  BY <1>1, Zenon DEF MissionTypeInv
<1>3. pc \notin {"script", "zero"} /\ pc' \notin {"script", "zero"}
  BY <1>1, Zenon DEF RotDegNext, RotDegTick, Blocked, Begin, SeesHeading, Wake, Arrive, StopTurn
<1>4. at \in 1..34 /\ at \in 1..35 /\ f_mot \in -100..100
  BY <1>3, SMT DEF MissionTypeInv
<1>5. CASE RotDegTick
  <2>1. /\ WorldTick /\ motors' = motors /\ degree' = degree /\ current_head' = current_head
        /\ prev_head' = prev_head /\ target' = target /\ wrapped' = wrapped
        /\ pc \in {"start", "wrap", "sleep", "turn"}
        /\ pc' = IF pc = "sleep" THEN "wake" ELSE pc
    BY <1>5, Zenon DEF RotDegTick, Blocked, rotDegVars, localVars
  <2>2. /\ pc' \in {"start", "wrap", "wake", "turn"} /\ (pc' = "start" => motors = "off")
    BY <2>1, Zenon DEF MissionTypeInv
  <2>3. theta' \in Angle /\ turned' \in Int
    BY <2>1, TickFacts DEF MissionTypeInv
  <2>4. rps' \in Report /\ outage' \in 0..MaxOutage /\ unseen' \in BOOLEAN
    BY <2>1, <2>3, ReportTyped DEF WorldTick
  <2>5. turned' \in -MaxTurn..MaxTurn
    <3>1. Magnitude(turned') <= MaxTurn /\ MaxTurn \in Nat
      BY <2>1, TurningAssumption DEF WorldTick
    <3> QED BY <2>3, <3>1, MagnitudeBound
  <2>6. Types'
    BY <2>1, <2>3, <2>4 DEF MissionTypeInv, Types
  <2> QED BY <1>1, <1>2, <1>4, <2>1, <2>2, <2>4, <2>5, <2>6, Zenon DEF MissionTypeInv
<1>6. CASE Begin
  <2>1. /\ theta' = theta /\ turned' = turned /\ rps' = rps /\ outage' = outage /\ unseen' = unseen
        /\ degree' = degree /\ current_head' = rps /\ prev_head' = rps
    BY <1>6 DEF Begin, worldVars
  <2>2. Types' /\ rps \in Report
    BY <2>1 DEF MissionTypeInv, Types
  <2> QED BY <1>1, <1>2, <1>4, <1>6, <2>1, <2>2, BeginTyped, Zenon DEF MissionTypeInv
<1>7. CASE SeesHeading \/ Wake \/ Arrive \/ StopTurn
  <2>1. /\ theta' = theta /\ turned' = turned /\ rps' = rps /\ outage' = outage /\ unseen' = unseen
        /\ degree' = degree /\ prev_head' = prev_head /\ target' = target /\ wrapped' = wrapped
        /\ current_head' = current_head \/ current_head' = rps
        /\ pc' \in {"sleep", "wrap", "turn", "stop", "done"}
        /\ motors' = motors \/ motors' = "off"
        /\ pc' = "done" => motors' = "off"
    BY <1>7, Zenon DEF SeesHeading, Wake, Arrive, StopTurn, worldVars, rotDegVars, localVars
  <2>2. Types' /\ rps \in Report /\ current_head' \in Report
    BY <2>1 DEF MissionTypeInv, Types
  <2>3. motors' \in {"left", "right", "off"} /\ (degree > 0 /\ motors' = "left" => target \in Report)
    BY <2>1 DEF MissionTypeInv
  <2> QED BY <1>1, <1>2, <1>4, <2>1, <2>2, <2>3, Zenon DEF MissionTypeInv
<1> QED BY <1>1, <1>5, <1>6, <1>7 DEF RotDegNext

LEMMA ReturnTyped == ASSUME MissionTypeInv, Return PROVE MissionTypeInv'
<1>1. /\ pc = "done" /\ pc' = "script" /\ at \in 1..34 /\ motors = "off"
      /\ theta' = theta /\ turned' = turned /\ rps' = rps /\ outage' = outage /\ unseen' = unseen
      /\ motors' = motors /\ degree' = degree /\ current_head' = current_head
      /\ prev_head' = prev_head /\ target' = target /\ wrapped' = wrapped
      /\ f_mot' = f_mot /\ narrow' = narrow /\ at' = at + 1
  BY SMT DEF MissionTypeInv, Return, worldVars, rotDegVars, localVars
<1>2. at' \in 1..35
  BY <1>1, SMT
<1>3. Types'
  BY <1>1 DEF MissionTypeInv, Types
<1> QED BY <1>1, <1>2, <1>3, Zenon DEF MissionTypeInv

LEMMA TypedStep == ASSUME MissionTypeInv, [MissionNext]_missionVars PROVE MissionTypeInv'
<1>1. CASE UNCHANGED missionVars
  <2>1. /\ theta' = theta /\ turned' = turned /\ rps' = rps /\ outage' = outage /\ unseen' = unseen
        /\ motors' = motors /\ pc' = pc /\ degree' = degree /\ current_head' = current_head
        /\ prev_head' = prev_head /\ target' = target /\ wrapped' = wrapped
        /\ at' = at /\ f_mot' = f_mot /\ narrow' = narrow
    BY <1>1 DEF missionVars, worldVars, rotDegVars, localVars, scriptVars
  <2>2. Types'
    BY <2>1 DEF MissionTypeInv, Types
  <2> QED BY <2>1, <2>2, Zenon DEF MissionTypeInv
<1> QED BY <1>1, DriveTyped, ForkTyped, RotateTyped, CorrectTyped, ZeroTyped, ZeroCallTyped,
           TurnTyped, ReturnTyped DEF MissionNext

\* The variables of a mission keep their types, in sight or out of it.
THEOREM MissionTypeCorrect == MissionSpec => []MissionTypeOK
<1>1. MissionTypeInv => MissionTypeOK
  <2> SUFFICES ASSUME MissionTypeInv PROVE MissionTypeOK
    OBVIOUS
  <2>1. at \in 1..Len(Script) + 1
    BY ScriptAt, SMT DEF MissionTypeInv
  <2>2. degree \in -HalfTurn..HalfTurn /\ theta \in Angle /\ rps \in Report /\ prev_head \in Report
    BY DEF MissionTypeInv, Types
  <2> QED BY <2>1, <2>2, Zenon DEF MissionTypeInv, MissionTypeOK, WorldTypeOK, RotDegTypeOK
<1> QED BY <1>1, TypedInitial, TypedStep, PTL DEF MissionSpec
===============================================================================
