--------------------------- MODULE XBeeLink_proofs ----------------------------
(***************************************************************************)
(* What the framing of src/Drivers/FEHXBee.cpp guarantees, for every packet  *)
(* size, every buffer that holds a packet, and any number of packets and     *)
(* losses.                                                                   *)
(***************************************************************************)
EXTENDS XBeeLink, TLAPS

USE SizeAssumption

\* The byte on the line, and where the transmitter goes from it.
LEMMA AdvanceFacts ==
    ASSUME TypeOK, Advance
    PROVE  /\ <<packet, offset>> \in Byte
           /\ packet' \in 1..MaxPackets+1 /\ offset' \in Offset
           /\ packet <= packet'
           /\ \/ offset < PacketSize - 1 /\ offset' = offset + 1 /\ packet' = packet
              \/ offset = PacketSize - 1 /\ offset' = 0 /\ packet' = packet + 1
           /\ <<packet, offset>> \in StartBytes <=> offset = 0 \/ <<packet, offset>> \in StartLike
  <1>1. /\ packet \in 1..MaxPackets /\ offset \in 0..PacketSize-1
        /\ MaxPackets \in Nat
    BY LinkAssumption DEF TypeOK, Advance, Offset
  <1>2. /\ <<packet, offset>> \in Byte
        /\ <<packet, offset>> \in StartBytes <=> offset = 0 \/ <<packet, offset>> \in StartLike
    BY <1>1, LinkByteAssumption DEF Offset
  <1>3. CASE offset = PacketSize - 1
    BY <1>1, <1>2, <1>3 DEF Advance, Offset
  <1>4. CASE offset # PacketSize - 1
    BY <1>1, <1>2, <1>4 DEF Advance, Offset
  <1>. QED  BY <1>3, <1>4

\* While nothing sent looks like a start byte, nothing sent before did.
LEMMA PlainFacts ==
    ASSUME TypeOK, Advance
    PROVE  /\ Plain' => Plain
           /\ Plain => <<packet, offset>> \notin StartLike
  <1>1. packet \in Nat /\ packet' \in Nat /\ packet <= packet'
    BY AdvanceFacts DEF TypeOK
  <1>2. \A b \in StartLike : b[1] \in Nat
    BY LinkAssumption
  <1>3. <<packet, offset>>[1] = packet
    OBVIOUS
  <1>. QED  BY <1>1, <1>2, <1>3 DEF Plain

\* UART0_ISR keeps the state machine, its index and its buffer within bounds.
LEMMA ISRType ==
    ASSUME TypeOK, NEW c \in Byte, UART0_ISR(c)
    PROVE  /\ XBeeTypeOK'
           /\ xbeestate' = "FoundStart" => xbeebufferindex' \in 1..PacketSize-1
  <1>1. CASE OnAwaitingStart(c)
    BY <1>1 DEF TypeOK, XBeeTypeOK, XBeePacketState, UART0_ISR, OnAwaitingStart,
                StartFrame, frameVars
  <1>2. CASE OnFoundStart(c)
    BY <1>2 DEF TypeOK, XBeeTypeOK, XBeePacketState, UART0_ISR, OnFoundStart,
                PacketReady
  <1>3. CASE OnPacketComplete(c)
    BY <1>3 DEF TypeOK, XBeeTypeOK, XBeePacketState, UART0_ISR, OnPacketComplete,
                StartFrame
  <1>. QED  BY <1>1, <1>2, <1>3 DEF UART0_ISR

\* The frame handed to XBeeDataProcess is made of bytes that were received.
LEMMA PacketType ==
    ASSUME TypeOK, NEW c \in Byte
    PROVE  Packet(c) \in [Offset -> Byte]
  BY DEF TypeOK, XBeeTypeOK, Packet, Offset

LEMMA InitInv == Init => Inv
  <1> SUFFICES ASSUME Init PROVE Inv
    OBVIOUS
  <1>1. ZeroByte \in Byte
    BY ByteAssumption
  <1>2. TypeOK
    <2>1. XBeeTypeOK /\ xbeestate # "FoundStart"
      <3>1. XBeeInit
        BY DEF Init
      <3>2. xbeebuffer \in [0..BufferSize-1 -> Byte]
        BY <1>1, <3>1 DEF XBeeInit
      <3>3. xbeebufferindex \in 0..PacketSize
        BY <3>1 DEF XBeeInit
      <3>. QED  BY <1>1, <3>1, <3>2, <3>3 DEF XBeeInit, XBeeTypeOK, XBeePacketState
    <2>2. packet \in 1..MaxPackets+1 /\ offset \in Offset /\ lastloss \in 0..packet
      BY LinkAssumption DEF Init
    <2>3. frame \in [Offset -> Byte] /\ lost \in Nat /\ frames \in Nat /\ spliced \in Nat
      BY <1>1 DEF Init
    <2>. QED  BY <2>1, <2>2, <2>3 DEF TypeOK
  <1>3. SpliceInv /\ ResyncInv /\ CleanPairDelivered
    BY DEF Init, XBeeInit, SpliceInv, Damaged, ResyncInv, InStep, CleanPairDelivered, Offset
  <1>4. LosslessInv /\ LosslessDelivery
    BY DEF Init, XBeeInit, LosslessInv, InStep, LosslessDelivery, Offset
  <1>. QED  BY <1>2, <1>3, <1>4 DEF Inv

LEMMA ReceiveType ==
    ASSUME TypeOK, Receive
    PROVE  TypeOK'
  <1> DEFINE c == <<packet, offset>>
  <1>1. c \in Byte /\ packet' \in 1..MaxPackets+1 /\ offset' \in Offset /\ packet <= packet'
    BY AdvanceFacts DEF Receive
  <1>2. XBeeTypeOK' /\ (xbeestate' = "FoundStart" => xbeebufferindex' \in 1..PacketSize-1)
    BY <1>1, ISRType DEF Receive
  <1>3. frame' \in [Offset -> Byte] /\ frames' \in Nat /\ spliced' \in Nat
    <2>1. CASE PacketReady(c)
      <3>1. Packet(c) \in [Offset -> Byte]
        BY <1>1, PacketType
      <3>2. frames \in Nat /\ spliced \in Nat
        BY DEF TypeOK
      <3>3. /\ frame' = Packet(c) /\ frames' = frames + 1
            /\ spliced' = spliced \/ spliced' = spliced + 1
        BY <2>1 DEF Receive, XBeeDataProcess
      <3>. QED  BY <3>1, <3>2, <3>3
    <2>2. CASE ~PacketReady(c)
      BY <2>2 DEF Receive, TypeOK
    <2>. QED  BY <2>1, <2>2
  <1>4. lost' \in Nat /\ lastloss' \in 0..packet'
    BY <1>1, LinkAssumption DEF Receive, TypeOK
  <1>. QED  BY <1>1, <1>2, <1>3, <1>4 DEF TypeOK

\* What a received byte does to a handler that is in step with the transmitter:
\* it stays in step, and the last byte of a packet hands over that packet whole.
LEMMA InStepReceive ==
    ASSUME TypeOK, Receive, InStep
    PROVE  /\ InStep'
           /\ IF offset = PacketSize - 1
                THEN frame' = Whole(packet) /\ frames' = frames + 1 /\ spliced' = spliced
                ELSE UNCHANGED <<frame, frames, spliced>>
  <1> DEFINE c == <<packet, offset>>
  <1>1. UART0_ISR(c) /\ Advance
    BY DEF Receive
  <1>2. /\ c \in Byte
        /\ \/ offset < PacketSize - 1 /\ offset' = offset + 1 /\ packet' = packet
           \/ offset = PacketSize - 1 /\ offset' = 0 /\ packet' = packet + 1
        /\ offset = 0 => c \in StartBytes
    BY <1>1, AdvanceFacts
  <1>3. CASE offset = 0
    <2>1. xbeestate \in {"AwaitingStart", "PacketComplete"}
      BY <1>3 DEF InStep, TypeOK, XBeeTypeOK, XBeePacketState
    <2>2. StartFrame(c)
      BY <2>1, <1>1, <1>2, <1>3 DEF UART0_ISR, OnAwaitingStart, OnFoundStart, OnPacketComplete
    <2>3. offset' = 1 /\ packet' = packet /\ offset # PacketSize - 1
      BY <1>2, <1>3
    <2>4. InStep'
      BY <2>2, <2>3, <1>3 DEF StartFrame, InStep, Aligned, TypeOK, XBeeTypeOK
    <2>5. ~PacketReady(c)
      BY <2>1 DEF PacketReady
    <2>. QED  BY <2>3, <2>4, <2>5 DEF Receive
  <1>4. CASE offset # 0 /\ offset < PacketSize - 1
    <2>1. OnFoundStart(c) /\ Aligned /\ xbeestate = "FoundStart"
      BY <1>1, <1>4 DEF InStep, UART0_ISR, OnAwaitingStart, OnFoundStart, OnPacketComplete
    <2>2. ~PacketReady(c)
      BY <2>1, <1>4 DEF PacketReady, Aligned, TypeOK, Offset
    <2>3. InStep'
      BY <2>1, <2>2, <1>2, <1>4 DEF OnFoundStart, InStep, Aligned, TypeOK, XBeeTypeOK, Offset
    <2>. QED  BY <2>2, <2>3, <1>4 DEF Receive
  <1>5. CASE offset # 0 /\ offset = PacketSize - 1
    <2>1. OnFoundStart(c) /\ Aligned /\ xbeestate = "FoundStart"
      BY <1>1, <1>5 DEF InStep, UART0_ISR, OnAwaitingStart, OnFoundStart, OnPacketComplete
    <2>2. PacketReady(c)
      BY <2>1, <1>5 DEF PacketReady, Aligned, TypeOK, Offset
    <2>3. Packet(c) = Whole(packet)
      BY <2>1, <1>5 DEF Packet, Whole, Aligned, Offset
    <2>4. IsWhole(Packet(c))
      <3>1. Packet(c)[0] = <<packet, 0>>
        <4>1. 0 \in Offset
          BY DEF Offset
        <4>. QED  BY <2>3, <4>1 DEF Whole
      <3>. QED  BY <2>3, <3>1 DEF IsWhole
    <2>5. InStep'
      BY <2>1, <2>2, <1>2, <1>5 DEF OnFoundStart, InStep
    <2>. QED  BY <2>2, <2>3, <2>4, <2>5, <1>5 DEF Receive, XBeeDataProcess
  <1>. QED  BY <1>3, <1>4, <1>5 DEF TypeOK, Offset

\* While no data byte equals the start byte, a received byte begins a frame only in step,
\* and only the frame a loss had damaged can be handed over spliced.
LEMMA DamagedReceive ==
    ASSUME TypeOK, Receive, Plain
    PROVE  /\ Damaged' => Damaged
           /\ Damaged' => xbeebufferindex' = xbeebufferindex + 1
           /\ spliced' # spliced => Damaged /\ ~Damaged' /\ spliced' = spliced + 1
  <1> DEFINE c == <<packet, offset>>
  <1>1. UART0_ISR(c) /\ Advance
    BY DEF Receive
  <1>2. /\ \/ offset < PacketSize - 1 /\ offset' = offset + 1 /\ packet' = packet
           \/ offset = PacketSize - 1 /\ offset' = 0 /\ packet' = packet + 1
        /\ c \in StartBytes <=> offset = 0
    BY <1>1, AdvanceFacts, PlainFacts
  <1>3. CASE xbeestate # "FoundStart"
    <2>1. ~PacketReady(c) /\ spliced' = spliced
      BY <1>3 DEF PacketReady, Receive
    <2>2. (offset = 0 /\ StartFrame(c)) \/ xbeestate' # "FoundStart"
      BY <1>1, <1>2, <1>3 DEF UART0_ISR, OnAwaitingStart, OnFoundStart, OnPacketComplete, frameVars
    <2>3. ~Damaged'
      BY <2>2, <1>2 DEF StartFrame, Damaged, Aligned, TypeOK, XBeeTypeOK
    <2>. QED  BY <2>1, <2>3
  <1>4. CASE xbeestate = "FoundStart"
    <2>1. OnFoundStart(c) /\ xbeebufferindex' = xbeebufferindex + 1
      BY <1>1, <1>4 DEF UART0_ISR, OnAwaitingStart, OnFoundStart, OnPacketComplete
    <2>2. CASE Aligned
      <3>1. InStep
        BY <2>2, <1>4 DEF InStep, Aligned, TypeOK
      <3>2. InStep' /\ spliced' = spliced
        BY <3>1, InStepReceive
      <3>. QED  BY <3>2 DEF InStep, Damaged
    <2>3. CASE ~Aligned
      <3>1. Damaged
        BY <2>3, <1>4 DEF Damaged
      <3>2. spliced' # spliced => PacketReady(c) /\ spliced' = spliced + 1
        BY DEF Receive, XBeeDataProcess
      <3>3. PacketReady(c) => ~Damaged'
        BY <2>1 DEF OnFoundStart, Damaged
      <3>. QED  BY <2>1, <3>1, <3>2, <3>3
    <2>. QED  BY <2>2, <2>3
  <1>. QED  BY <1>3, <1>4

LEMMA ReceiveInv == Inv /\ Receive => Inv'
  <1> SUFFICES ASSUME Inv, Receive PROVE Inv'
    OBVIOUS
  <1>1. TypeOK /\ TypeOK'
    BY ReceiveType DEF Inv
  <1>2. /\ lost' = lost /\ lastloss' = lastloss /\ Advance
        /\ lost \in Nat /\ spliced \in Nat /\ spliced' \in Nat
        /\ packet \in Nat /\ lastloss \in Nat /\ lastloss <= packet
        /\ xbeebufferindex \in Nat
        /\ xbeebufferindex < PacketSize \/ xbeestate # "FoundStart"
    BY <1>1 DEF Receive, TypeOK, XBeeTypeOK
  <1>3. \/ offset < PacketSize - 1 /\ offset' = offset + 1 /\ packet' = packet
        \/ offset = PacketSize - 1 /\ offset' = 0 /\ packet' = packet + 1
    BY <1>1, <1>2, AdvanceFacts
  <1>4. SpliceInv'
    <2> SUFFICES ASSUME Plain'
                 PROVE  spliced' + (IF Damaged' THEN 1 ELSE 0) <= lost'
      BY DEF SpliceInv
    <2>0. Plain
      BY <1>1, <1>2, PlainFacts
    <2>1. spliced + (IF Damaged THEN 1 ELSE 0) <= lost
      BY <2>0 DEF Inv, SpliceInv
    <2>2. /\ Damaged' => Damaged
          /\ spliced' # spliced => Damaged /\ ~Damaged' /\ spliced' = spliced + 1
      BY <1>1, <2>0, DamagedReceive
    <2>3. CASE spliced' = spliced
      BY <2>1, <2>2, <2>3, <1>2
    <2>4. CASE spliced' # spliced
      BY <2>1, <2>2, <2>4, <1>2
    <2>. QED  BY <2>3, <2>4
  <1>5. (ResyncInv /\ CleanPairDelivered)'
    <2> SUFFICES ASSUME Plain'
                 PROVE  /\ lastloss' = packet' - 1 /\ Damaged' => xbeebufferindex' > offset'
                        /\ lastloss' < packet' - 1 => InStep'
                        /\ offset' = 0 /\ lastloss' < packet' - 2 => frame' = Whole(packet' - 1)
      BY DEF ResyncInv, CleanPairDelivered, Whole
    <2>8. Plain
      BY <1>1, <1>2, PlainFacts
    <2>1. /\ lastloss = packet - 1 /\ Damaged => xbeebufferindex > offset
          /\ lastloss < packet - 1 => InStep
      BY <2>8 DEF Inv, ResyncInv
    <2>0. (InStep' => ~Damaged') /\ packet' \in Nat /\ offset \in Nat /\ offset' \in Nat
      BY <1>1 DEF InStep, Damaged, TypeOK, Offset
    <2>9. offset = PacketSize - 1 => packet' - 1 = packet
      BY <1>2, <1>3
    <2>2. CASE lastloss < packet - 1
      <3>1. InStep
        BY <2>1, <2>2
      <3>2. InStep' /\ (offset = PacketSize - 1 => frame' = Whole(packet))
        BY <3>1, <1>1, InStepReceive
      <3>. QED  
        <4>1. ~Damaged' /\ InStep'
          BY <3>2, <2>0
        <4>2. offset' = 0 => frame' = Whole(packet' - 1)
          BY <3>2, <2>0, <2>9, <1>3
        <4>. QED BY <4>1, <4>2
    <2>3. CASE lastloss = packet - 1
      <3>1. CASE InStep
        <4>1. InStep' /\ (offset = PacketSize - 1 => frame' = Whole(packet))
          BY <3>1, <1>1, InStepReceive
        <4>2. ~Damaged'
          BY <4>1, <2>0
        <4>3. offset' = 0 => frame' = Whole(packet' - 1)
          BY <4>1, <2>0, <2>9, <1>3
        <4>. QED  BY <4>1, <4>2, <4>3
      <3>2. CASE Damaged
        <4>1. xbeebufferindex > offset
          BY <3>2, <2>1, <2>3
        <4>2. offset < PacketSize - 1 /\ offset' = offset + 1 /\ packet' = packet
          BY <4>1, <3>2, <1>2, <1>3, <1>1 DEF Damaged, TypeOK, Offset
        <4>3. Damaged' => xbeebufferindex' = xbeebufferindex + 1
          BY <1>1, <2>8, DamagedReceive
        <4>. QED  BY <4>1, <4>2, <4>3, <2>3, <1>1, <1>2 DEF TypeOK, XBeeTypeOK, Offset
      <3>3. CASE ~InStep /\ ~Damaged
        <4>1. xbeestate # "FoundStart" /\ offset # 0
          BY <3>3, <1>1 DEF InStep, Damaged, Aligned, TypeOK, XBeeTypeOK
        <4>2. <<packet, offset>> \notin StartBytes
          BY <4>1, <2>8, <1>1, <1>2, AdvanceFacts, PlainFacts
        <4>3. xbeestate' # "FoundStart"
          BY <4>1, <4>2 DEF Receive, UART0_ISR, OnAwaitingStart, OnFoundStart,
                            OnPacketComplete, frameVars
        <4>4. ~Damaged' /\ (offset' = 0 => InStep')
          BY <4>3 DEF InStep, Damaged
        <4>5. lastloss' < packet' - 1 => offset' = 0
          BY <2>3, <1>2, <1>3
        <4>6. ~(lastloss' < packet' - 2)
          BY <2>3, <1>2, <1>3
        <4>. QED  BY <4>4, <4>5, <4>6
      <3>. QED  BY <3>1, <3>2, <3>3
    <2>4. CASE lastloss = packet
      <3>1. Damaged' => xbeebufferindex' \in Nat /\ xbeebufferindex' >= 1
        BY <1>1 DEF Damaged, TypeOK
      <3>. QED  BY <3>1, <2>4, <1>2, <1>3
    <2>. QED  BY <2>2, <2>3, <2>4, <1>2
  <1>6. (LosslessInv /\ LosslessDelivery)'
    <2> SUFFICES ASSUME lastloss' = 0
                 PROVE  /\ InStep'
                        /\ spliced' = 0 /\ frames' = packet' - 1
                        /\ frames' > 0 /\ offset' = 0 => frame' = Whole(packet' - 1)
      BY DEF LosslessInv, LosslessDelivery, Whole
    <2>1. InStep /\ spliced = 0 /\ frames = packet - 1
      BY <1>2 DEF Inv, LosslessInv, LosslessDelivery
    <2>2. /\ InStep'
          /\ IF offset = PacketSize - 1
               THEN frame' = Whole(packet) /\ frames' = frames + 1 /\ spliced' = spliced
               ELSE UNCHANGED <<frame, frames, spliced>>
      BY <2>1, <1>1, InStepReceive
    <2>3. frames \in Nat /\ offset \in Nat
      BY <1>1 DEF TypeOK, Offset
    <2>4. CASE offset = PacketSize - 1
      BY <2>1, <2>2, <2>3, <2>4, <1>2, <1>3
    <2>5. CASE offset # PacketSize - 1
      BY <2>1, <2>2, <2>3, <2>5, <1>2, <1>3
    <2>. QED  BY <2>4, <2>5
  <1>. QED  BY <1>1, <1>4, <1>5, <1>6 DEF Inv

LEMMA LoseInv == Inv /\ Lose => Inv'
  <1> SUFFICES ASSUME Inv, Lose PROVE Inv'
    OBVIOUS
  <1>1. TypeOK /\ Advance
    BY DEF Inv, Lose
  <1>2. /\ packet' \in 1..MaxPackets+1 /\ offset' \in Offset /\ packet <= packet'
        /\ \/ offset < PacketSize - 1 /\ offset' = offset + 1 /\ packet' = packet
           \/ offset = PacketSize - 1 /\ offset' = 0 /\ packet' = packet + 1
    BY <1>1, AdvanceFacts
  <1>3. TypeOK'
    BY <1>1, <1>2 DEF Lose, TypeOK, XBeeTypeOK, xbeeVars, frameVars, mailboxVars
  <1>4. SpliceInv'
    <2>1. Plain' => Plain
      BY <1>1, PlainFacts
    <2>. QED  BY <2>1, <1>1 DEF Inv, SpliceInv, Damaged, Aligned, Lose, TypeOK, xbeeVars, frameVars
  <1>5. (ResyncInv /\ CleanPairDelivered)'
    <2>1. lastloss' = packet /\ packet \in Nat
      BY <1>1 DEF Lose, TypeOK
    <2>2. Damaged' => xbeebufferindex' \in Nat /\ xbeebufferindex' >= 1
      BY <1>3 DEF Damaged, TypeOK
    <2>3. CASE packet' = packet /\ offset' = offset + 1
      BY <2>1, <2>3, <1>1 DEF ResyncInv, CleanPairDelivered, TypeOK, Offset
    <2>4. CASE packet' = packet + 1 /\ offset' = 0
      BY <2>1, <2>2, <2>4 DEF ResyncInv, CleanPairDelivered
    <2>. QED  BY <1>2, <2>3, <2>4
  <1>6. (LosslessInv /\ LosslessDelivery)'
    BY <1>1 DEF Lose, TypeOK, LosslessInv, LosslessDelivery
  <1>. QED  BY <1>3, <1>4, <1>5, <1>6 DEF Inv

LEMMA StutterInv == Inv /\ UNCHANGED vars => Inv'
  BY DEF Inv, TypeOK, XBeeTypeOK, SpliceInv, Damaged, Aligned, ResyncInv, InStep,
         CleanPairDelivered, LosslessInv, LosslessDelivery, Plain,
         vars, linkVars, xbeeVars, frameVars, mailboxVars

\* The strengthened invariant holds of every reachable state.
THEOREM Invariance == Spec => []Inv
  <1>1. Inv /\ [Next]_vars => Inv'
    BY ReceiveInv, LoseInv, StutterInv DEF Next
  <1>. QED  BY InitInv, <1>1, PTL DEF Spec

\* The handler never leaves its state machine, nor writes past the packet it
\* collects: _xbeebufferindex stays below XBEEPACKETSIZE at every store.
THEOREM TypeCorrect == Spec => []TypeOK
  <1>1. Inv => TypeOK
    BY DEF Inv
  <1>. QED  BY <1>1, Invariance, PTL

\* While no data byte equals the start byte, k lost bytes cause at most k false frames.
THEOREM SplicesBounded == Spec => []SplicesBoundedByLosses
  <1>1. Inv => SplicesBoundedByLosses
    BY DEF Inv, SpliceInv, SplicesBoundedByLosses, TypeOK
  <1>. QED  BY <1>1, Invariance, PTL

\* While no data byte equals the start byte, the second of two undamaged packets in a
\* row is always handed over whole.
THEOREM Resynchronises == Spec => []CleanPairDelivered
  <1>1. Inv => CleanPairDelivered
    BY DEF Inv
  <1>. QED  BY <1>1, Invariance, PTL

\* From a packet boundary, with nothing lost, every packet is handed over once
\* and whole, whatever its data bytes are.
THEOREM LosslessDelivers == Spec => []LosslessDelivery
  <1>1. Inv => LosslessDelivery
    BY DEF Inv
  <1>. QED  BY <1>1, Invariance, PTL

\* What is handed over is either no packet, or the packet whose last byte has just
\* arrived: the byte on the line is the last one of the frame.
LEMMA WholeMeansCurrent ==
    ASSUME TypeOK, Receive, PacketReady(<<packet, offset>>), IsWhole(Packet(<<packet, offset>>))
    PROVE  /\ offset = PacketSize - 1 /\ packet' = packet + 1
           /\ Packet(<<packet, offset>>)[0][1] = packet
  <1> DEFINE f == Packet(<<packet, offset>>)
             n == f[0][1]
  <1>1. xbeebufferindex = PacketSize - 1 /\ PacketSize - 1 \in Offset
    BY DEF PacketReady, TypeOK, XBeeTypeOK, Offset
  <1>2. f[PacketSize - 1] = <<packet, offset>>
    BY <1>1 DEF Packet, Offset
  <1>3. Whole(n)[PacketSize - 1] = <<n, PacketSize - 1>>
    BY <1>1 DEF Whole
  <1>4. f = Whole(n)
    BY DEF IsWhole
  <1>5. <<packet, offset>> = <<n, PacketSize - 1>>
    BY <1>2, <1>3, <1>4
  <1>6. packet = n /\ offset = PacketSize - 1
    BY <1>5
  <1>. QED  BY <1>6, AdvanceFacts DEF Receive, TypeOK

\* A handler that is not in step with the transmitter has lost a byte of this packet
\* or of the one before it, unless a data byte equals the start byte.
LEMMA OutOfStepMeansDisturbed == ASSUME Inv, ~InStep PROVE Feed!Disturbed
  <1>1. lastloss # 0 /\ (Plain => ~(lastloss < packet - 1))
    BY DEF Inv, LosslessInv, ResyncInv
  <1>2. packet \in Nat /\ lastloss \in Nat
    BY LinkAssumption DEF Inv, TypeOK
  <1>3. Feed!Plain => Plain
    BY DEF Feed!Plain, Plain
  <1>. QED  BY <1>1, <1>2, <1>3 DEF Feed!Disturbed

LEMMA ReceiveFeeds == Inv /\ Receive => [Feed!Next]_(Feed!feedVars)
  <1> SUFFICES ASSUME Inv, Receive PROVE [Feed!Next]_(Feed!feedVars)
    OBVIOUS
  <1> DEFINE c == <<packet, offset>>
  <1>1. TypeOK
    BY DEF Inv
  <1>2. /\ lost' = lost /\ lastloss' = lastloss
        /\ packet \in Nat /\ lost \in Nat /\ spliced \in Nat /\ frames \in Nat
        /\ \/ offset < PacketSize - 1 /\ offset' = offset + 1 /\ packet' = packet
           \/ offset = PacketSize - 1 /\ offset' = 0 /\ packet' = packet + 1
    BY <1>1, LinkAssumption, AdvanceFacts DEF Receive, TypeOK
  <1>3. CASE ~PacketReady(c)
    <2>1. frame' = frame /\ frames' = frames /\ spliced' = spliced
      BY <1>3 DEF Receive
    <2>2. IsWhole(frame') = IsWhole(frame)
      BY <2>1 DEF IsWhole, Whole
    <2>3. CASE packet' = packet
      BY <1>2, <2>1, <2>2, <2>3 DEF Feed!feedVars
    <2>4. CASE packet' = packet + 1 /\ offset = PacketSize - 1
      <3>1. ~InStep
        BY <1>3, <1>1, <2>4 DEF InStep, Aligned, PacketReady, Offset
      <3>2. Feed!Disturbed
        BY <3>1, OutOfStepMeansDisturbed
      <3>3. Feed!Miss
        BY <1>2, <2>1, <2>2, <2>4, <3>2 DEF Feed!Miss
      <3>. QED  BY <3>3 DEF Feed!Next
    <2>. QED  BY <1>2, <2>3, <2>4
  <1>4. CASE PacketReady(c) /\ IsWhole(Packet(c))
    <2>1. packet' = packet + 1 /\ Packet(c)[0][1] = packet
      BY <1>1, <1>4, WholeMeansCurrent
    <2>2. frame' = Packet(c) /\ frames' = frames + 1 /\ spliced' = spliced
      BY <1>4 DEF Receive, XBeeDataProcess
    <2>3. IsWhole(frame') /\ frame'[0][1] = packet
      BY <1>4, <2>1, <2>2 DEF IsWhole, Whole
    <2>4. Feed!Deliver
      BY <1>2, <2>1, <2>2, <2>3 DEF Feed!Deliver, IsWhole, Whole
    <2>. QED  BY <2>4 DEF Feed!Next
  <1>5. CASE PacketReady(c) /\ ~IsWhole(Packet(c))
    <2>1. frame' = Packet(c) /\ frames' = frames + 1 /\ spliced' = spliced + 1
      BY <1>5 DEF Receive, XBeeDataProcess
    <2>2. ~IsWhole(frame')
      BY <1>5, <2>1 DEF IsWhole, Whole
    <2>3. ~InStep
      <3> SUFFICES ASSUME InStep PROVE FALSE
        OBVIOUS
      <3>1. spliced' = spliced
        BY <1>1, InStepReceive
      <3>. QED  BY <2>1, <3>1, <1>2
    <2>4. Feed!Disturbed
      BY <2>3, OutOfStepMeansDisturbed
    <2>5. Plain => lost - spliced > 0
      <3> SUFFICES ASSUME Plain PROVE lost - spliced > 0
        OBVIOUS
      <3>1. Damaged
        BY <1>1, <1>2, <2>1, DamagedReceive
      <3>. QED  BY <3>1, <1>2 DEF Inv, SpliceInv
    <2>6. Feed!Plain <=> Plain
      BY DEF Feed!Plain, Plain
    <2>7. lost' - spliced' = (lost - spliced) - 1
      BY <1>2, <2>1
    <2>8. Feed!Splice
      BY <1>2, <2>1, <2>2, <2>4, <2>5, <2>6, <2>7 DEF Feed!Splice
    <2>. QED  BY <2>8 DEF Feed!Next
  <1>. QED  BY <1>3, <1>4, <1>5

LEMMA LoseFeeds == Inv /\ Lose => Feed!Next
  <1> SUFFICES ASSUME Inv, Lose PROVE Feed!Next
    OBVIOUS
  <1>1. TypeOK /\ Advance
    BY DEF Inv, Lose
  <1>2. packet' \in {packet, packet + 1} /\ lost \in Nat /\ spliced \in Nat
    BY <1>1, AdvanceFacts DEF TypeOK
  <1>3. /\ lastloss' = packet /\ lost' = lost + 1
        /\ frame' = frame /\ frames' = frames /\ spliced' = spliced
    BY DEF Lose
  <1>4. IsWhole(frame') = IsWhole(frame)
    BY <1>3 DEF IsWhole, Whole
  <1>5. lost' - spliced' = (lost - spliced) + 1
    BY <1>2, <1>3
  <1>6. Feed!Lose
    BY <1>2, <1>3, <1>4, <1>5 DEF Feed!Lose
  <1>. QED  BY <1>6 DEF Feed!Next

\* The interrupt handler implements PacketFeed: in order, whole, current, and
\* amiss only in the wake of a loss.
THEOREM FeedImplemented == Spec => FeedRefined
  <1>1. Init => Feed!Init
    <2> SUFFICES ASSUME Init PROVE Feed!Init
      OBVIOUS
    <2>1. frame = [k \in Offset |-> <<0, 0>>] /\ lost = 0 /\ spliced = 0 /\ frames = 0
      BY LinkByteAssumption DEF Init
    <2>2. 0 \in Offset
      BY DEF Offset
    <2>3. frame[0][1] = 0
      BY <2>1, <2>2
    <2>. QED  BY <2>1, <2>3 DEF Init, Feed!Init
  <1>2. Inv /\ [Next]_vars => [Feed!Next]_(Feed!feedVars)
    <2> SUFFICES ASSUME Inv, [Next]_vars PROVE [Feed!Next]_(Feed!feedVars)
      OBVIOUS
    <2>1. CASE Receive
      BY <2>1, ReceiveFeeds
    <2>2. CASE Lose
      BY <2>2, LoseFeeds
    <2>3. CASE UNCHANGED vars
      <3>1. /\ packet' = packet /\ lastloss' = lastloss /\ frames' = frames
            /\ lost' = lost /\ spliced' = spliced /\ frame' = frame
        BY <2>3 DEF vars, linkVars
      <3>2. IsWhole(frame') = IsWhole(frame)
        BY <3>1 DEF IsWhole, Whole
      <3>. QED  BY <3>1, <3>2 DEF Feed!feedVars
    <2>. QED  BY <2>1, <2>2, <2>3 DEF Next
  <1>. QED  BY <1>1, <1>2, Invariance, PTL DEF Spec, FeedRefined, Feed!Spec

-------------------------------------------------------------------------------
(* Why a false start keeps its place in the packet.                          *)

\* The byte on the line is the n-th after b.
Since(b, n) ==
    \/ packet = b[1] /\ offset = b[2] + n
    \/ packet = b[1] + 1 /\ offset + PacketSize = b[2] + n

\* A frame that has lost nothing is as long as the way from its first byte.
TrackInv ==
    xbeestate = "FoundStart" =>
        /\ xbeebuffer[0][1] <= packet
        /\ lastloss < xbeebuffer[0][1] => Since(xbeebuffer[0], xbeebufferindex)

Again == <<frame[0][1] + 1, frame[0][2]>>

\* After a frame that has lost nothing the line is where the frame began, one packet
\* on; if a start byte stands there, the next frame begins with it.
PersistInv ==
    frames > 0 =>
        /\ frame[0][1] <= packet
        /\ lastloss < frame[0][1] /\ Again \in StartLike =>
              \/ xbeestate = "PacketComplete" /\ Again = <<packet, offset>>
              \/ xbeestate = "FoundStart" /\ xbeebuffer[0] = Again

\* The handler by what it does with the first byte of its buffer.
LEMMA FirstByte ==
    ASSUME TypeOK, Receive
    PROVE  LET c == <<packet, offset>> IN
           /\ xbeestate = "FoundStart" =>
                 \/ /\ ~PacketReady(c) /\ xbeestate' = "FoundStart" /\ xbeebuffer'[0] = xbeebuffer[0]
                    /\ xbeebufferindex' = xbeebufferindex + 1
                 \/ /\ PacketReady(c) /\ xbeestate' = "PacketComplete" /\ Packet(c)[0] = xbeebuffer[0]
                    /\ xbeebufferindex + 1 = PacketSize
           /\ xbeestate # "FoundStart" =>
                 /\ ~PacketReady(c)
                 /\ \/ xbeestate' = "FoundStart" /\ xbeebuffer'[0] = c /\ xbeebufferindex' = 1
                    \/ c \notin StartBytes /\ xbeestate' # "FoundStart"
  <1> DEFINE c == <<packet, offset>>
  <1>1. UART0_ISR(c) /\ 0 \in 0..BufferSize-1 /\ xbeebuffer \in [0..BufferSize-1 -> Byte]
    BY DEF Receive, TypeOK, XBeeTypeOK
  <1> HIDE DEF c
  <1>2. CASE xbeestate = "FoundStart"
    <2>1. OnFoundStart(c) /\ xbeebufferindex \in 1..PacketSize-1 /\ 0 # xbeebufferindex
      BY <1>1, <1>2 DEF UART0_ISR, OnAwaitingStart, OnPacketComplete, TypeOK
    <2>2. xbeebuffer'[0] = xbeebuffer[0]
      BY <1>1, <2>1 DEF OnFoundStart
    <2>3. Packet(c)[0] = xbeebuffer[0]
      BY <2>1 DEF Packet
    <2>. QED  BY <1>2, <2>1, <2>2, <2>3 DEF OnFoundStart, PacketReady, c
  <1>3. CASE xbeestate # "FoundStart"
    <2>1. ~PacketReady(c)
      BY <1>3 DEF PacketReady
    <2>2. CASE c \in StartBytes /\ StartFrame(c)
      <3>1. xbeestate' = "FoundStart" /\ xbeebuffer'[0] = c /\ xbeebufferindex' = 1
        BY <1>1, <2>2 DEF StartFrame
      <3>. QED  BY <1>3, <2>1, <3>1 DEF c
    <2>3. CASE c \notin StartBytes /\ xbeestate' # "FoundStart"
      BY <1>3, <2>1, <2>3 DEF c
    <2>. QED  BY <1>1, <1>3, <2>2, <2>3 DEF UART0_ISR, OnAwaitingStart, OnFoundStart,
                OnPacketComplete, frameVars
  <1>. QED  BY <1>2, <1>3

LEMMA SinceAdvances ==
    ASSUME TypeOK, Advance, NEW b \in Byte, NEW n \in 0..PacketSize-1, Since(b, n)
    PROVE  /\ Since(b, n + 1)'
           /\ n + 1 = PacketSize => packet' = b[1] + 1 /\ offset' = b[2]
  <1>1. /\ b[1] \in Nat /\ b[2] \in 0..PacketSize-1
        /\ packet \in Nat /\ offset \in 0..PacketSize-1
    BY LinkByteAssumption DEF TypeOK, Offset
  <1>2. \/ offset < PacketSize - 1 /\ offset' = offset + 1 /\ packet' = packet
        \/ offset = PacketSize - 1 /\ offset' = 0 /\ packet' = packet + 1
    BY AdvanceFacts
  <1>. QED  BY <1>1, <1>2 DEF Since

LEMMA PersistReceive ==
    ASSUME TypeOK, TrackInv, PersistInv, Receive
    PROVE  /\ TrackInv' /\ PersistInv'
           /\ frames' # frames /\ frames > 0 /\ lastloss < frame[0][1] /\ Again \in StartLike =>
                 frame'[0] = Again
  <1> DEFINE c == <<packet, offset>>
  <1>1. /\ Advance /\ c \in Byte /\ packet <= packet' /\ packet \in Nat /\ packet' \in Nat
        /\ offset \in Offset /\ offset' \in Offset
        /\ lastloss' = lastloss /\ lastloss \in Nat /\ frames \in Nat
        /\ c \in StartLike => c \in StartBytes
    BY AdvanceFacts DEF Receive, TypeOK
  <1>2. /\ PacketReady(c) => frame' = Packet(c) /\ frames' = frames + 1
        /\ ~PacketReady(c) => frame' = frame /\ frames' = frames
    BY DEF Receive, XBeeDataProcess
  <1>3. xbeestate = "FoundStart" =>
           /\ xbeebuffer[0] \in Byte /\ xbeebuffer[0][1] \in Nat
           /\ xbeebufferindex \in 1..PacketSize-1 /\ xbeebufferindex \in 0..PacketSize-1
           /\ xbeebuffer[0] = <<xbeebuffer[0][1], xbeebuffer[0][2]>>
    <2>1. 0 \in 0..BufferSize-1 /\ xbeebuffer[0] \in Byte
      BY DEF TypeOK, XBeeTypeOK
    <2>. QED  BY <2>1, LinkByteAssumption DEF TypeOK
  <1>4. frame[0][1] \in Nat
    <2>1. frame[0] \in Byte
      BY DEF TypeOK, Offset
    <2>. QED  BY <2>1, LinkByteAssumption
  <1>5. CASE xbeestate = "FoundStart" /\ ~PacketReady(c)
    <2>1. xbeestate' = "FoundStart" /\ xbeebuffer'[0] = xbeebuffer[0]
          /\ xbeebufferindex' = xbeebufferindex + 1
      BY <1>5, FirstByte
    <2>2. xbeebuffer[0][1] <= packet'
      BY <1>1, <1>3, <1>5 DEF TrackInv
    <2>3. lastloss < xbeebuffer[0][1] => Since(xbeebuffer[0], xbeebufferindex)'
      <3> SUFFICES ASSUME lastloss < xbeebuffer[0][1], NEW b, NEW n,
                          b = xbeebuffer[0], n = xbeebufferindex
                   PROVE  Since(b, n + 1)'
        BY <2>1 DEF Since
      <3>1. Since(b, n) /\ b \in Byte /\ n \in 0..PacketSize-1
        BY <1>3, <1>5 DEF TrackInv
      <3>. QED  BY <1>1, <3>1, SinceAdvances
    <2>4. TrackInv'
      BY <1>1, <2>1, <2>2, <2>3 DEF TrackInv
    <2>5. PersistInv'
      BY <1>1, <1>2, <1>4, <1>5, <2>1 DEF PersistInv, Again
    <2>. QED  BY <1>2, <1>5, <2>4, <2>5
  <1>6. CASE xbeestate = "FoundStart" /\ PacketReady(c)
    <2>1. /\ xbeestate' = "PacketComplete" /\ frame'[0] = xbeebuffer[0] /\ frames' = frames + 1
          /\ xbeebufferindex + 1 = PacketSize
      BY <1>2, <1>6, FirstByte
    <2>2. TrackInv'
      BY <2>1 DEF TrackInv
    <2>3. frame'[0][1] <= packet'
      BY <1>1, <1>3, <1>6, <2>1 DEF TrackInv
    <2>4. lastloss < frame'[0][1] => Again' = <<packet', offset'>>
      <3> SUFFICES ASSUME lastloss < xbeebuffer[0][1]
                   PROVE  packet' = xbeebuffer[0][1] + 1 /\ offset' = xbeebuffer[0][2]
        BY <2>1 DEF Again
      <3>1. Since(xbeebuffer[0], xbeebufferindex)
        BY <1>6 DEF TrackInv
      <3>. QED  BY <1>1, <1>3, <1>6, <2>1, <3>1, SinceAdvances
    <2>5. PersistInv'
      BY <1>1, <2>1, <2>3, <2>4 DEF PersistInv
    <2>6. frames > 0 /\ lastloss < frame[0][1] /\ Again \in StartLike => xbeebuffer[0] = Again
      BY <1>6 DEF PersistInv
    <2>. QED  BY <2>1, <2>2, <2>5, <2>6
  <1>7. CASE xbeestate # "FoundStart"
    <2>1. /\ frame' = frame /\ frames' = frames
          /\ \/ xbeestate' = "FoundStart" /\ xbeebuffer'[0] = c /\ xbeebufferindex' = 1
             \/ c \notin StartBytes /\ xbeestate' # "FoundStart"
      BY <1>2, <1>7, FirstByte
    <2>2. TrackInv'
      <3> SUFFICES ASSUME xbeebuffer'[0] = c, xbeebufferindex' = 1 PROVE TrackInv'
        BY <2>1 DEF TrackInv
      <3>1. Since(c, 0) /\ 0 \in 0..PacketSize-1
        BY <1>1 DEF Since, Offset
      <3>2. \A b \in Byte : Since(b, 0) => Since(b, 1)'
        BY <1>1, <3>1, SinceAdvances
      <3>3. ASSUME NEW b \in Byte, b = c PROVE Since(b, 1)'
        BY <3>1, <3>2, <3>3
      <3>4. Since(xbeebuffer[0], xbeebufferindex)'
        BY <1>1, <3>3 DEF Since
      <3>. QED  BY <1>1, <3>4 DEF TrackInv
    <2>3. PersistInv'
      BY <1>1, <1>4, <1>7, <2>1 DEF PersistInv, Again
    <2>. QED  BY <2>1, <2>2, <2>3
  <1>. QED  BY <1>5, <1>6, <1>7

LEMMA PersistLose ==
    ASSUME TypeOK, TrackInv, PersistInv, Lose
    PROVE  TrackInv' /\ PersistInv' /\ frames' = frames
  <1>1. /\ Advance /\ lastloss' = packet
        /\ UNCHANGED <<xbeestate, xbeebufferindex, xbeebuffer, frame, frames>>
    BY DEF Lose, xbeeVars, frameVars
  <1>2. packet <= packet' /\ packet \in Nat /\ packet' \in Nat
    BY <1>1, AdvanceFacts DEF TypeOK
  <1>3. xbeestate = "FoundStart" => xbeebuffer[0][1] \in Nat
    <2>1. xbeebuffer[0] \in Byte
      BY DEF TypeOK, XBeeTypeOK
    <2>. QED  BY <2>1, LinkByteAssumption
  <1>4. frame[0][1] \in Nat
    <2>1. frame[0] \in Byte
      BY DEF TypeOK, Offset
    <2>. QED  BY <2>1, LinkByteAssumption
  <1>5. TrackInv'
    BY <1>1, <1>2, <1>3 DEF TrackInv
  <1>6. PersistInv'
    BY <1>1, <1>2, <1>4 DEF PersistInv
  <1>. QED  BY <1>1, <1>5, <1>6

\* A handler that has once taken a data byte for a start keeps doing so, packet after
\* packet, as long as the payload does not change at that place and nothing is lost.
THEOREM FalseStartStays == Spec => MisframingPersists
  <1>1. Init => TrackInv /\ PersistInv
    BY DEF Init, XBeeInit, TrackInv, PersistInv
  <1>2. Inv /\ TrackInv /\ PersistInv /\ [Next]_vars =>
          /\ TrackInv' /\ PersistInv'
          /\ frames' # frames /\ frames > 0 /\ lastloss < frame[0][1] /\ Again \in StartLike =>
                frame'[0] = Again
    <2> SUFFICES ASSUME TypeOK, TrackInv, PersistInv, [Next]_vars
                 PROVE  /\ TrackInv' /\ PersistInv'
                        /\ frames' # frames /\ frames > 0 /\ lastloss < frame[0][1]
                               /\ Again \in StartLike => frame'[0] = Again
      BY DEF Inv
    <2>1. CASE UNCHANGED vars
      BY <2>1 DEF TrackInv, PersistInv, Again, Since, vars, linkVars, xbeeVars, frameVars
    <2>. QED  BY <2>1, PersistReceive, PersistLose DEF Next
  <1>3. (frames' # frames /\ frames > 0 /\ lastloss < frame[0][1] /\ Again \in StartLike =>
            frame'[0] = Again)
        => (LET start == frame[0]
                again == <<start[1] + 1, start[2]>>
            IN  frames' # frames /\ frames > 0 /\ lastloss < start[1] /\ again \in StartLike
                  => frame'[0] = again)
    BY DEF Again
  <1>. QED  BY <1>1, <1>2, <1>3, Invariance, PTL DEF Spec, MisframingPersists
===============================================================================
