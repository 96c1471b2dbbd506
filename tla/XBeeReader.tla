------------------------------ MODULE XBeeReader ------------------------------
(***************************************************************************)
(* FEHXBee::ReceiveDataSearch (src/Drivers/FEHXBee.cpp): the main program    *)
(* polls the one-byte mailbox the interrupt handler fills.  The handler can  *)
(* run between the read of the byte and the reset of its flag, so these are  *)
(* two steps; the poll and the read are one, since a byte that arrives       *)
(* between them is the byte that is read.                                    *)
(***************************************************************************)
EXTENDS XBee

CONSTANTS
    CRBytes,     \* the bytes equal to 0x0D
    FirstBytes,  \* the bytes equal to expectedfirstchar
    MaxLength    \* maxlength

ASSUME ReaderAssumption ==
    /\ CRBytes \subseteq Byte /\ FirstBytes \subseteq Byte
    /\ CRBytes \cap FirstBytes = {}
    /\ MaxLength \in Nat /\ MaxLength >= 2

VARIABLES
    reader,     \* where ReceiveDataSearch is; "idle": not called, or returned
    i,          \* the loop counter, and the result once returned
    foundfirst,
    first,      \* data[0]
    char        \* data[i]

readerVars == <<reader, i, foundfirst, first, char>>

ReaderInit ==
    /\ reader = "idle"
    /\ i = 0
    /\ foundfirst = FALSE
    /\ first = ZeroByte
    /\ char = ZeroByte

ReceiveDataSearch ==
    /\ reader = "idle"
    /\ reader' = "poll"
    /\ i' = 0
    /\ foundfirst' = FALSE
    /\ UNCHANGED <<first, char>>

\* while( !_xbeebytereceived ); data[ i ] = _xbeebyte;
TakeByte ==
    /\ reader = "poll" /\ xbeebytereceived
    /\ reader' = "taken"
    /\ char' = xbeebyte
    /\ first' = IF i = 0 THEN xbeebyte ELSE first
    /\ UNCHANGED <<xbeeVars, i, foundfirst>>

\* The iteration keeps its byte: the first character, or any one after it.
Keeps == foundfirst \/ char \in FirstBytes

ReleaseByte_KeepsFlag ==
    /\ reader = "taken"
    /\ IF char \in CRBytes
         THEN reader' = "idle" /\ UNCHANGED <<i, foundfirst>>
         ELSE /\ foundfirst' = Keeps
              /\ i' = IF Keeps THEN i + 1 ELSE i
              /\ reader' = IF i' = MaxLength THEN "idle" ELSE "poll"
    /\ UNCHANGED <<xbeeVars, first, char>>

ReleaseByte_NoBreak ==
    /\ reader = "taken"
    /\ xbeebytereceived' = FALSE
    /\ foundfirst' = Keeps
    /\ i' = IF Keeps THEN i + 1 ELSE i
    /\ reader' = IF i' = MaxLength THEN "idle" ELSE "poll"
    /\ UNCHANGED <<frameVars, xbeebyte, first, char>>

\* _xbeebytereceived = false, and the rest of the iteration.  A byte that is not
\* kept takes i back (i-- on 0 wraps, i++ wraps it again), so i stays where it is.
ReleaseByte ==
    /\ reader = "taken"
    /\ xbeebytereceived' = FALSE
    /\ IF char \in CRBytes
         THEN reader' = "idle" /\ UNCHANGED <<i, foundfirst>>
         ELSE /\ foundfirst' = Keeps
              /\ i' = IF Keeps THEN i + 1 ELSE i
              /\ reader' = IF i' = MaxLength THEN "idle" ELSE "poll"
    /\ UNCHANGED <<frameVars, xbeebyte, first, char>>

\* What every caller tests: rxlength < 2 || rxbuffer[ 0 ] != 'O'
Accepted == i >= 2 /\ first \in FirstBytes

ReaderTypeOK ==
    /\ reader \in {"idle", "poll", "taken"}
    /\ i \in 0..MaxLength
    /\ foundfirst \in BOOLEAN
    /\ first \in Byte /\ char \in Byte
===============================================================================
