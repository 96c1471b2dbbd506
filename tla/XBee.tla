--------------------------------- MODULE XBee ---------------------------------
(***************************************************************************)
(* The receiving half of the XBee driver, src/Drivers/FEHXBee.cpp: the      *)
(* UART0 interrupt handler, its packet state machine over a static buffer,  *)
(* and the one-byte mailbox it shares with the polling readers.             *)
(*                                                                          *)
(* A byte of the model is a value that may also carry where it came from;   *)
(* the code tells apart only whether its eight bits are 0xFF, which is      *)
(* membership in StartBytes.  The handler runs to completion (the main      *)
(* program cannot preempt it), so one byte is one step.                     *)
(***************************************************************************)
EXTENDS Naturals

CONSTANTS
    Byte,         \* the bytes the UART can hand over
    StartBytes,   \* those of them equal to XBEESTARTBYTE
    ZeroByte,     \* the content of a static buffer before any byte is stored
    BufferSize,   \* XBEEBUFFERSIZE
    PacketSize    \* XBEEPACKETSIZE

ASSUME ByteAssumption == StartBytes \subseteq Byte /\ ZeroByte \in Byte
ASSUME SizeAssumption ==
    /\ BufferSize \in Nat /\ PacketSize \in Nat
    /\ 2 <= PacketSize /\ PacketSize <= BufferSize

VARIABLES
    xbeestate,         \* _xbeestate
    xbeebufferindex,   \* _xbeebufferindex
    xbeebuffer,        \* _xbeebuffer
    xbeebytereceived,  \* _xbeebytereceived, the mailbox flag
    xbeebyte           \* _xbeebyte, the mailbox

frameVars   == <<xbeestate, xbeebufferindex, xbeebuffer>>
mailboxVars == <<xbeebytereceived, xbeebyte>>
xbeeVars    == <<frameVars, mailboxVars>>

XBeePacketState == {"AwaitingStart", "FoundStart", "PacketComplete"}

XBeeInit ==
    /\ xbeestate = "AwaitingStart"
    /\ xbeebufferindex = 0
    /\ xbeebuffer = [k \in 0..BufferSize-1 |-> ZeroByte]
    /\ xbeebytereceived = FALSE
    /\ xbeebyte = ZeroByte

-------------------------------------------------------------------------------
\* Mutated forms (named for the fault) stand before the operators they replace.
PacketReady_OneLate(c) == xbeestate = "FoundStart" /\ xbeebufferindex = PacketSize
PacketReady_OneEarly(c) == xbeestate = "FoundStart" /\ xbeebufferindex + 2 = PacketSize

\* The byte c is the one that fills the packet: the handler calls
\* XBeeDataProcess with Packet(c) before it leaves FoundStart.
PacketReady(c) ==
    xbeestate = "FoundStart" /\ xbeebufferindex + 1 = PacketSize

Packet(c) ==
    [k \in 0..PacketSize-1 |-> IF k = xbeebufferindex THEN c ELSE xbeebuffer[k]]

StartFrame_NotStored(c) ==
    xbeestate' = "FoundStart" /\ xbeebufferindex' = 0 /\ UNCHANGED xbeebuffer

StartFrame(c) ==
    /\ xbeestate' = "FoundStart"
    /\ xbeebufferindex' = 1
    /\ xbeebuffer' = [xbeebuffer EXCEPT ![0] = c]

OnAwaitingStart(c) ==
    /\ xbeestate = "AwaitingStart"
    /\ IF c \in StartBytes THEN StartFrame(c) ELSE UNCHANGED frameVars

OnFoundStart_Restarts(c) ==
    /\ xbeestate = "FoundStart"
    /\ IF c \in StartBytes
         THEN StartFrame(c)
         ELSE /\ xbeebuffer' = [xbeebuffer EXCEPT ![xbeebufferindex] = c]
              /\ xbeebufferindex' = xbeebufferindex + 1
              /\ xbeestate' = IF PacketReady(c) THEN "PacketComplete" ELSE xbeestate

OnFoundStart(c) ==
    /\ xbeestate = "FoundStart"
    /\ xbeebuffer' = [xbeebuffer EXCEPT ![xbeebufferindex] = c]
    /\ xbeebufferindex' = xbeebufferindex + 1
    /\ xbeestate' = IF PacketReady(c) THEN "PacketComplete" ELSE xbeestate

OnPacketComplete_Drops(c) ==
    /\ xbeestate = "PacketComplete"
    /\ xbeestate' = "AwaitingStart" /\ xbeebufferindex' = 0 /\ UNCHANGED xbeebuffer

OnPacketComplete(c) ==
    /\ xbeestate = "PacketComplete"
    /\ \/ c \in StartBytes /\ StartFrame(c)
       \/ /\ c \notin StartBytes
          /\ xbeestate' = "AwaitingStart"
          /\ xbeebufferindex' = 0
          /\ UNCHANGED xbeebuffer

UART0_ISR(c) ==
    /\ xbeebyte' = c
    /\ xbeebytereceived' = TRUE
    /\ \/ OnAwaitingStart(c)
       \/ OnFoundStart(c)
       \/ OnPacketComplete(c)

XBeeTypeOK ==
    /\ xbeestate \in XBeePacketState
    /\ xbeebufferindex \in 0..PacketSize
    /\ xbeebuffer \in [0..BufferSize-1 -> Byte]
    /\ xbeebytereceived \in BOOLEAN
    /\ xbeebyte \in Byte
===============================================================================
