------------------------------ MODULE MCXBeeLink ------------------------------
(* XBeeLink at the sizes of the code: 9-byte packets in a 16-byte buffer.    *)
EXTENDS XBeeLink

MCByte == (0..MaxPackets) \X (0..8)
MCZeroByte == <<0, 0>>
MCStartBytes == ((1..MaxPackets) \X {0}) \cup StartLike
\* From packet 5 on the low byte of the heading is 0xFF.
MCStartLike == {<<n, 6>> : n \in 5..MaxPackets}
===============================================================================
