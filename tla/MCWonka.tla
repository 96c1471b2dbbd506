------------------------------- MODULE MCWonka --------------------------------
(* Wonka at the sizes of the code, and data bytes of a plain kind.          *)
EXTENDS Wonka

MCByte == Char \X (0..MaxPackets) \X (0..8)

MCZeroByte == <<"data", 0, 0>>
MCStartBytes == {b \in MCByte : b[1] = "0xFF"}
MCFirstBytes == {b \in MCByte : b[1] = "O"}
MCCRBytes == {b \in MCByte : b[1] = "0x0D"}

\* No data byte looks like the beginning of a packet or of a reply.
PlainPayload == [k \in 1..8 |-> "data"]
===============================================================================
