------------------------------- MODULE XBeeLink -------------------------------
(***************************************************************************)
(* The RPS transmitter, the radio and the interrupt handler of XBee: an     *)
(* endless stream of packets reaches UART0 one byte at a time, and any byte *)
(* may be lost on the way (there is no check sum, no length, no escape).    *)
(*                                                                          *)
(* A byte is a pair <<packet, offset>>.  Offset 0 is 0xFF by the protocol;  *)
(* StartLike holds the data bytes that happen to be 0xFF as well, as the    *)
(* low byte of the heading is at 25.5 degrees.                              *)
(***************************************************************************)
EXTENDS XBee, Integers

CONSTANTS
    StartLike,   \* data bytes that carry the value 0xFF
    MaxPackets,  \* bound: packets sent
    MaxLost      \* bound: bytes lost

ASSUME LinkAssumption ==
    /\ MaxPackets \in Nat /\ MaxLost \in Nat
    /\ StartLike \subseteq (1..MaxPackets) \X (1..PacketSize-1)

Offset == 0..PacketSize-1

\* Packet 0 is never sent: it stands for what the buffer holds before.
ASSUME LinkByteAssumption ==
    /\ Byte = (0..MaxPackets) \X Offset
    /\ StartBytes = ((1..MaxPackets) \X {0}) \cup StartLike
    /\ ZeroByte = <<0, 0>>

VARIABLES
    packet,     \* the packet being sent, from 1
    offset,     \* the offset of its next byte
    lost,       \* bytes lost so far
    lastloss,   \* the last packet that lost a byte, 0 for none
    frame,      \* what XBeeDataProcess was last called with
    frames,     \* how many times it was called
    spliced     \* how many of those frames were not one whole packet

linkVars == <<packet, offset, lost, lastloss, frame, frames, spliced>>
vars == <<xbeeVars, linkVars>>

Whole(n) == [k \in Offset |-> <<n, k>>]
IsWhole(f) == f = Whole(f[0][1])

\* The robot is switched on while the transmitter is at any point of a packet:
\* the part sent before that is as good as lost.
Init ==
    /\ XBeeInit
    /\ packet = 1
    /\ offset \in Offset
    /\ lost = 0
    /\ lastloss = IF offset = 0 THEN 0 ELSE 1
    /\ frame = [k \in Offset |-> ZeroByte]
    /\ frames = 0
    /\ spliced = 0

Advance ==
    /\ packet <= MaxPackets
    /\ offset' = IF offset = PacketSize - 1 THEN 0 ELSE offset + 1
    /\ packet' = IF offset = PacketSize - 1 THEN packet + 1 ELSE packet

\* The callback, seen from the driver: it is handed the buffer.
XBeeDataProcess(f) ==
    /\ frame' = f
    /\ frames' = frames + 1
    /\ spliced' = IF IsWhole(f) THEN spliced ELSE spliced + 1

Receive ==
    /\ Advance
    /\ UART0_ISR(<<packet, offset>>)
    /\ IF PacketReady(<<packet, offset>>)
         THEN XBeeDataProcess(Packet(<<packet, offset>>))
         ELSE UNCHANGED <<frame, frames, spliced>>
    /\ UNCHANGED <<lost, lastloss>>

Lose ==
    /\ Advance
    /\ lost < MaxLost
    /\ lost' = lost + 1
    /\ lastloss' = packet
    /\ UNCHANGED <<xbeeVars, frame, frames, spliced>>

Next == Receive \/ Lose

Spec == Init /\ [][Next]_vars

-------------------------------------------------------------------------------
(***************************************************************************)
(* Properties                                                               *)
(***************************************************************************)
\* Every variable has its type, and the handler never writes past the packet
\* it collects, hence never past the 16 bytes of _xbeebuffer.
TypeOK ==
    /\ XBeeTypeOK
    /\ xbeestate = "FoundStart" => xbeebufferindex \in 1..PacketSize-1
    /\ packet \in 1..MaxPackets+1 /\ offset \in Offset
    /\ lost \in Nat /\ lastloss \in 0..packet
    /\ frame \in [Offset -> Byte]
    /\ frames \in Nat /\ spliced \in Nat

\* The frame being collected is the prefix of the packet being sent.
Aligned ==
    /\ xbeebufferindex = offset
    /\ \A k \in 0..xbeebufferindex-1 : xbeebuffer[k] = <<packet, k>>

\* No data byte up to the packet being sent equals the start byte.
Plain == \A b \in StartLike : b[1] > packet

\* One lost byte can put at most one false frame in front of XBeeDataProcess,
\* as long as no data byte equals the start byte: the handler, which discards
\* nothing it has begun, resynchronises within the frame it is in.
SplicesBoundedByLosses == Plain => spliced <= lost

\* Two packets in a row sent without a loss: the second is handed over whole,
\* whatever state the losses before them left the handler in.
CleanPairDelivered ==
    Plain /\ offset = 0 /\ lastloss < packet - 2
        => frame = Whole(packet - 1)

\* A robot that listens from the start of a packet and loses nothing gets every
\* packet, once, whole, even when data bytes equal the start byte.
LosslessDelivery ==
    lastloss = 0 => /\ spliced = 0
                    /\ frames = packet - 1
                    /\ frames > 0 /\ offset = 0 => frame = Whole(packet - 1)

\* The link implements PacketFeed: a frame given to XBeeDataProcess is the packet
\* that has just ended, and packets are missed, or frames invented, only as far
\* as the losses and the ambiguous packets account for it.
Feed == INSTANCE PacketFeed WITH
            Ambiguous <- {b[1] : b \in StartLike},
            owed      <- lost - spliced,
            handed    <- IF IsWhole(frame) THEN frame[0][1] ELSE 0

FeedRefined == Feed!Spec

\* Once the handler has taken a data byte for a start, the next frame of a
\* loss-free stream begins at the same data byte if that is 0xFF again: under a
\* constant payload no genuine packet is handed over any more.
MisframingPersists ==
    [][ LET start == frame[0]
            again == <<start[1] + 1, start[2]>>
        IN  frames' # frames /\ frames > 0 /\ lastloss < start[1] /\ again \in StartLike
              => frame'[0] = again
      ]_vars

-------------------------------------------------------------------------------
(***************************************************************************)
(* The inductive invariant behind the first four properties.  Between       *)
(* packets an undisturbed handler collects nothing, within one it is        *)
(* Aligned; a frame that a loss has damaged is owed to that loss, and ends   *)
(* inside the packet after it.                                              *)
(***************************************************************************)
InStep ==
    IF offset = 0 THEN xbeestate # "FoundStart"
                  ELSE xbeestate = "FoundStart" /\ Aligned

Damaged == xbeestate = "FoundStart" /\ ~Aligned

SpliceInv == Plain => spliced + (IF Damaged THEN 1 ELSE 0) <= lost

ResyncInv ==
    Plain =>
        /\ lastloss = packet - 1 /\ Damaged => xbeebufferindex > offset
        /\ lastloss < packet - 1 => InStep

LosslessInv == lastloss = 0 => InStep

Inv ==
    /\ TypeOK
    /\ SpliceInv
    /\ ResyncInv /\ CleanPairDelivered
    /\ LosslessInv /\ LosslessDelivery
===============================================================================
