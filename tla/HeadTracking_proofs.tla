-------------------------- MODULE HeadTracking_proofs -------------------------
(***************************************************************************)
(* How accurate the heading is that ud_head of src/src/movement.cpp keeps,   *)
(* for every resolution of the angles.                                       *)
(***************************************************************************)
EXTENDS HeadTracking, Heading_proofs

\* The report in force is the heading it was made at, unless it is a failure,
\* and ud_head decides by the report it has read.
Inv ==
    /\ TrackingTypeOK
    /\ report # RpsFailure => report = Reading(facing)
    /\ Steady /\ call = "checking" => raw = report
    /\ StaysAccurate

LEMMA ExactWhenSeen ==
    ASSUME Inv, Steady, call = "checking", report # RpsFailure
    PROVE  NewHead(stored, raw) = facing
  <1>1. raw = Reading(facing) /\ stored \in Angle /\ facing \in Angle
    BY DEF Inv, TrackingTypeOK
  <1>2. Magnitude(Turn(stored, facing, FullTurn)) < 45 * Degree
    <2>1. Magnitude(Turn(stored, facing, FullTurn)) <= MaxStray
      BY DEF Inv, StaysAccurate, Error
    <2>2. Magnitude(Turn(stored, facing, FullTurn)) \in Int
      BY <1>1, Units DEF Magnitude, Turn, Angle
    <2>. QED  BY <2>1, <2>2, Units, TrackingAssumption
  <1>. QED  BY <1>1, <1>2, NewHeadExact

LEMMA ErrorAtTheta == \A a \in Angle : Magnitude(Turn(a, a, FullTurn)) = 0
  BY Units DEF Angle, Magnitude, Turn

\* Between calls less than MaxStray apart the stored heading stays within MaxStray of
\* the true one, whatever reports are missing, if no packet arrives inside ud_head.
THEOREM Accuracy == Steady /\ TrackingSpec => []StaysAccurate
  <1> SUFFICES ASSUME Steady PROVE TrackingSpec => []StaysAccurate
    OBVIOUS
  <1>1. TrackingInit => Inv
    <2> SUFFICES ASSUME TrackingInit PROVE Inv
      OBVIOUS
    <2>1. facing \in Angle /\ stored = facing /\ report = Reading(facing)
      BY TrackingAssumption DEF TrackingInit
    <2>2. TrackingTypeOK
      BY <2>1, ReadingType, Units DEF TrackingInit, TrackingTypeOK, Report
    <2>3. StaysAccurate
      BY <2>1, ErrorAtTheta, TrackingAssumption DEF StaysAccurate, Error
    <2>. QED  BY <2>1, <2>2, <2>3 DEF TrackingInit, Inv
  <1>2. Inv /\ [TrackingNext]_trackingVars => Inv'
    <2> SUFFICES ASSUME Inv, [TrackingNext]_trackingVars PROVE Inv'
      OBVIOUS
    <2>1. CASE Packet
      <3>1. call = "out" /\ call' = "out" /\ stored' = stored /\ raw' = raw
        BY <2>1 DEF Packet, Inv, TrackingTypeOK
      <3>2. facing' \in Angle
        <4>1. PICK m \in Moves : facing' = Normal(facing + m)
          BY <2>1 DEF Packet
        <4>2. facing \in 0..360*Degree-1 /\ m \in -(90*Degree)..90*Degree
          BY Units, TrackingAssumption DEF Inv, TrackingTypeOK, Angle
        <4>. QED  BY <4>1, <4>2, Units DEF Normal, Angle
      <3>3. StaysAccurate'
        BY <2>1 DEF Packet, StaysAccurate, Error
      <3>4. report' \in Report /\ (report' # RpsFailure => report' = Reading(facing'))
        BY <2>1, <3>2, ReadingType, Units DEF Packet, Report, RpsFailure
      <3>. QED  BY <3>1, <3>2, <3>3, <3>4 DEF Inv, TrackingTypeOK
    <2>2. CASE ud_head_read
      BY <2>2 DEF ud_head_read, Inv, TrackingTypeOK, StaysAccurate, Error
    <2>3. CASE ud_head_store
      <3>1. CASE report = RpsFailure
        BY <2>3, <3>1 DEF ud_head_store, Inv, TrackingTypeOK, StaysAccurate, Error
      <3>2. CASE report # RpsFailure
        <4>1. stored' = facing
          BY <2>3, <3>2, ExactWhenSeen DEF ud_head_store
        <4>2. Error' = 0
          BY <4>1, <2>3, ErrorAtTheta DEF ud_head_store, Error, Inv, TrackingTypeOK
        <4>. QED  BY <2>3, <4>1, <4>2, TrackingAssumption
                  DEF ud_head_store, Inv, TrackingTypeOK, StaysAccurate
      <3>. QED  BY <3>1, <3>2
    <2>4. CASE UNCHANGED trackingVars
      BY <2>4 DEF trackingVars, Inv, TrackingTypeOK, StaysAccurate, Error
    <2>. QED  BY <2>1, <2>2, <2>3, <2>4 DEF TrackingNext
  <1>3. Inv => StaysAccurate
    BY DEF Inv
  <1>. QED  BY <1>1, <1>2, <1>3, PTL DEF TrackingSpec
===============================================================================
