------------------------------ MODULE PacketFeed -------------------------------
(***************************************************************************)
(* What the XBee driver promises to the program above it, with the bytes    *)
(* left out: packets come in the order they were sent, each is handed over  *)
(* whole at the moment its last byte arrives or not at all, and it is       *)
(* missed, or a frame that is no packet handed over in its place, only in   *)
(* the wake of a loss.  XBeeLink implements this.                           *)
(***************************************************************************)
EXTENDS Integers

CONSTANT Ambiguous   \* packets that hold a data byte equal to the start byte

VARIABLES
    packet,     \* the packet being sent, from 1
    lastloss,   \* the last packet that lost a byte, 0 for none
    owed,       \* losses that have not yet been paid for with a false frame
    handed,     \* the packet handed over last, 0 for a false frame or none
    frames      \* how many frames were handed over

feedVars == <<packet, lastloss, owed, handed, frames>>

Init ==
    /\ packet = 1 /\ lastloss \in {0, 1}
    /\ owed = 0 /\ handed = 0 /\ frames = 0

\* No packet so far could be mistaken for another's beginning.
Plain == \A a \in Ambiguous : a > packet

\* A loss disturbs the packet it falls in and the one after it; after that only
\* an ambiguous packet keeps the receiver from being in step.
Disturbed == lastloss # 0 /\ (lastloss >= packet - 1 \/ ~Plain)

Deliver ==
    /\ handed' = packet /\ frames' = frames + 1 /\ packet' = packet + 1
    /\ UNCHANGED <<lastloss, owed>>

Miss ==
    /\ Disturbed
    /\ packet' = packet + 1
    /\ UNCHANGED <<lastloss, owed, handed, frames>>

Splice ==
    /\ Disturbed
    /\ owed > 0 \/ ~Plain
    /\ handed' = 0 /\ frames' = frames + 1 /\ owed' = owed - 1
    /\ packet' \in {packet, packet + 1}
    /\ UNCHANGED lastloss

Lose ==
    /\ lastloss' = packet /\ owed' = owed + 1
    /\ packet' \in {packet, packet + 1}
    /\ UNCHANGED <<handed, frames>>

Next == Deliver \/ Miss \/ Splice \/ Lose

Spec == Init /\ [][Next]_feedVars
===============================================================================
