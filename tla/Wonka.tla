-------------------------------- MODULE Wonka ---------------------------------
(***************************************************************************)
(* The robot positioning link, src/Libraries/FEHWONKA.cpp, on top of the     *)
(* XBee driver: the main program configures the radio with AT commands       *)
(* (Initialize), enables the feed and waits for a packet (Enable,            *)
(* WaitForPacket), and disables it, while the interrupt handler decodes      *)
(* packets into the globals the rest of the program reads                    *)
(* (WONKADataProcess).                                                       *)
(*                                                                          *)
(* The radio module and the transmitter are external.  The module answers    *)
(* each command with OK or ERROR, holds packets back while in command mode,  *)
(* and leaves command mode by itself after a silence.                        *)
(***************************************************************************)
EXTENDS XBeeReader, Sequences, FiniteSets

CONSTANTS
    PayloadChar,  \* what each data byte of a packet looks like, by offset
    MaxPackets,   \* packets are numbered 1..MaxPackets and then 1 again
    MaxLost,      \* bound: bytes lost on the serial line
    MaxErrors,    \* bound: commands the radio module answers with ERROR
    MaxEnables,   \* bound: calls of Enable
    Prompt        \* TRUE: a byte is taken before the next one arrives

Char == {"0xFF", "O", "K", "E", "R", "0x0D", "data"}
Command == 1..7              \* +++, ATMY, ATID, ATDL, ATDH, ATWR, ATCN
Enter == 1                   \* +++
Exit == 7                    \* ATCN
Offset == 0..PacketSize-1

\* A byte is what it looks like and where it comes from: the offset k of packet
\* n, <<ch, n, k>>, or the reply to command s, <<ch, 0, s>>.
PacketByte(n, k) == <<IF k = 0 THEN "0xFF" ELSE PayloadChar[k], n, k>>
PacketBytes(n) == [k \in 1..PacketSize |-> PacketByte(n, k-1)]
Reply(s, text) == [k \in 1..Len(text) |-> <<text[k], 0, s>>]
OK == <<"O", "K", "0x0D">>
ERROR == <<"E", "R", "R", "O", "R", "0x0D">>
FromPacket(b) == b[2] > 0
FromReply(b) == b[2] = 0

\* WONKADataProcess decodes eight data bytes, the UART hands over whatever comes, and
\* what the static buffer holds before the first byte comes from nowhere.
ASSUME WonkaAssumption ==
    /\ PacketSize = 9
    /\ Char \X (0..MaxPackets) \X (0..PacketSize-1) \subseteq Byte
    /\ FromReply(ZeroByte) /\ ZeroByte[3] = 0
    /\ PayloadChar \in [1..PacketSize-1 -> Char]
    /\ {MaxPackets, MaxLost, MaxErrors, MaxEnables} \subseteq Nat
    /\ MaxPackets >= 1
    /\ Prompt \in BOOLEAN
    /\ StartBytes = {b \in Byte : b[1] = "0xFF"}
    /\ FirstBytes = {b \in Byte : b[1] = "O"}
    /\ CRBytes = {b \in Byte : b[1] = "0x0D"}

VARIABLES
    line,         \* the bytes on their way to UART0
    sent,         \* the number of the last packet put on the line, 0 for none
    radiomode,    \* "data" or "command"
    commands,     \* the commands the radio module has to answer
    outcome,      \* how it answered each command: "none", "OK" or "ERROR"
    lost,         \* bytes lost on the line
    pc,           \* where the main program is
    step,         \* the command Initialize is at
    configured,   \* Initialize went through all of its commands
    enables,      \* calls of Enable
    enabled,      \* _enabled
    foundpacket,  \* _WONKA_foundpacket
    reading,      \* _WONKA_x .. _WONKA_time, each by the bytes it is decoded from
    unannounced   \* packets decoded since WaitForPacket last returned 0xFF (0, 1, many)

radioVars == <<line, sent, radiomode, commands, outcome, lost>>
mainVars == <<pc, step, configured, enables>>
dataVars == <<enabled, foundpacket, reading, unannounced>>
vars == <<xbeeVars, readerVars, radioVars, mainVars, dataVars>>

Decode_Swapped(data) ==
    [x |-> <<data[1], data[2]>>, y |-> <<data[3], data[4]>>,
     heading |-> <<data[5], data[6]>>, objective |-> data[8], time |-> data[7]]

\* The decoding loses nothing a property tells apart: the linear conversions of
\* WONKADataProcess are one-to-one on the two bytes they combine.
Decode(data) ==
    [x |-> <<data[1], data[2]>>, y |-> <<data[3], data[4]>>,
     heading |-> <<data[5], data[6]>>, objective |-> data[7], time |-> data[8]]

NoReading == Decode([k \in Offset |-> ZeroByte])

\* The radio may be configured for this course already, and be in the middle of
\* a packet when the robot is switched on.
Init ==
    /\ XBeeInit /\ ReaderInit
    /\ \E k \in 0..PacketSize : line = SubSeq(PacketBytes(1), k + 1, PacketSize)
    /\ sent = 1
    /\ radiomode = "data"
    /\ commands = <<>>
    /\ outcome = [s \in Command |-> "none"]
    /\ lost = 0
    /\ pc = "initialize"
    /\ step = 1
    /\ configured = FALSE
    /\ enables = 0
    /\ enabled = FALSE
    /\ foundpacket = FALSE
    /\ reading = NoReading
    /\ unannounced = 0

-------------------------------------------------------------------------------
(***************************************************************************)
(* The radio module and the transmitter                                     *)
(***************************************************************************)
PacketSent ==
    /\ radiomode = "data" /\ line = <<>>
    /\ sent' = (sent % MaxPackets) + 1
    /\ line' = PacketBytes(sent')
    /\ UNCHANGED <<radiomode, commands, outcome, lost>>

\* The module has read the next command off its serial input.
Reads(s) == commands # <<>> /\ s = Head(commands) /\ commands' = Tail(commands)

\* +++ enters command mode if nothing follows it for a second.
Entered == commands = <<Enter>>

\* What is sent in data mode is transmitted over the air and not answered.
Unanswered ==
    /\ radiomode = "data" /\ ~Entered
    /\ \E s \in Command : Reads(s)
    /\ UNCHANGED <<line, sent, radiomode, outcome, lost>>

AnswerOK ==
    \E s \in Command :
        /\ Reads(s)
        /\ Entered \/ radiomode = "command"
        /\ radiomode' = IF s = Exit THEN "data" ELSE "command"
        /\ outcome' = [outcome EXCEPT ![s] = "OK"]
        /\ line' = line \o Reply(s, OK)
        /\ UNCHANGED <<sent, lost>>

Refused == {s \in Command : outcome[s] = "ERROR"}

AnswerERROR ==
    \E s \in Command \ {Enter} :
        /\ Reads(s)
        /\ radiomode = "command"
        /\ Cardinality(Refused) < MaxErrors
        /\ outcome' = [outcome EXCEPT ![s] = "ERROR"]
        /\ line' = line \o Reply(s, ERROR)
        /\ UNCHANGED <<sent, radiomode, lost>>

\* The main program sends nothing either: it waits for a byte, or is done.
Silent ==
    /\ commands = <<>> /\ line = <<>>
    /\ \/ pc \notin {"initialize", "answer"}
       \/ reader = "poll" /\ ~xbeebytereceived

CommandModeTimeout ==
    /\ Silent
    /\ radiomode = "command"
    /\ radiomode' = "data"
    /\ UNCHANGED <<line, sent, commands, outcome, lost>>

ByteLost ==
    /\ line # <<>> /\ lost < MaxLost
    /\ lost' = lost + 1
    /\ line' = Tail(line)
    /\ UNCHANGED <<sent, radiomode, commands, outcome>>

Answer ==
    /\ Unanswered \/ AnswerOK \/ AnswerERROR
    /\ UNCHANGED <<xbeeVars, readerVars, mainVars, dataVars>>

Radio ==
    /\ PacketSent \/ CommandModeTimeout \/ ByteLost
    /\ UNCHANGED <<xbeeVars, readerVars, mainVars, dataVars>>

-------------------------------------------------------------------------------
(***************************************************************************)
(* The interrupt handler                                                    *)
(***************************************************************************)
WONKADataProcess_NoFlag(data) ==
    IF enabled THEN reading' = Decode(data) /\ UNCHANGED <<enabled, foundpacket, unannounced>>
               ELSE UNCHANGED dataVars

WONKADataProcess(data) ==
    IF enabled
      THEN /\ reading' = Decode(data)
           /\ foundpacket' = TRUE
           /\ unannounced' = IF unannounced = 2 THEN 2 ELSE unannounced + 1
           /\ UNCHANGED enabled
      ELSE UNCHANGED dataVars

Interrupt ==
    /\ line # <<>>
    /\ Prompt /\ reader # "idle" => ~xbeebytereceived
    /\ line' = Tail(line)
    /\ UART0_ISR(Head(line))
    /\ IF PacketReady(Head(line))
         THEN WONKADataProcess(Packet(Head(line)))
         ELSE UNCHANGED dataVars
    /\ UNCHANGED <<sent, radiomode, commands, outcome, lost, readerVars, mainVars>>

-------------------------------------------------------------------------------
(***************************************************************************)
(* The main program                                                         *)
(***************************************************************************)
\* _xbee.SendData( txbuffer, .. ); rxlength = _xbee.ReceiveDataSearch( .. );
SendCommand ==
    /\ pc = "initialize"
    /\ commands' = Append(commands, step)
    /\ ReceiveDataSearch
    /\ pc' = "answer"
    /\ UNCHANGED <<xbeeVars, line, sent, radiomode, outcome, lost, step, configured,
                   enables, dataVars>>

ReadAnswer ==
    /\ TakeByte \/ ReleaseByte
    /\ UNCHANGED <<radioVars, mainVars, dataVars>>

LastStep_Early == 6
LastStep == 7

\* if( rxlength < 2 || rxbuffer[ 0 ] != 'O' ) return;
CheckAnswer ==
    /\ pc = "answer" /\ reader = "idle"
    /\ \/ /\ Accepted /\ step # LastStep
          /\ step' = step + 1
          /\ pc' = "initialize"
          /\ UNCHANGED configured
       \/ /\ Accepted /\ step = LastStep
          /\ configured' = TRUE
          /\ pc' = "initialized"
          /\ UNCHANGED step
       \/ /\ ~Accepted
          /\ pc' = "initialized"
          /\ UNCHANGED <<step, configured>>
    /\ UNCHANGED <<xbeeVars, readerVars, radioVars, enables, dataVars>>

\* Initialize returns nothing, so the caller enables the feed either way.
Enable ==
    /\ pc \in {"initialized", "disabled"} /\ enables < MaxEnables
    /\ enabled' = TRUE
    /\ enables' = enables + 1
    /\ pc' = "wait"
    /\ UNCHANGED <<xbeeVars, readerVars, radioVars, step, configured, foundpacket, reading,
                   unannounced>>

WaitForPacket_OnTimeout ==
    /\ pc = "wait"
    /\ foundpacket' = FALSE /\ unannounced' = 0
    /\ pc' = "running"
    /\ UNCHANGED <<xbeeVars, readerVars, radioVars, step, configured, enables, enabled, reading>>

WaitForPacket_KeepsFlag ==
    /\ pc = "wait" /\ foundpacket
    /\ unannounced' = 0
    /\ pc' = "running"
    /\ UNCHANGED <<xbeeVars, readerVars, radioVars, step, configured, enables, enabled,
                   foundpacket, reading>>

\* WaitForPacket returns 0xFF, and Enable returns.  (When it returns 0x00 after a
\* second without a packet, Enable calls it again: nothing has changed.  A packet
\* that arrives between its test and its reset of the flag is as one that came
\* just before the test.)
WaitForPacket ==
    /\ pc = "wait" /\ foundpacket
    /\ foundpacket' = FALSE
    /\ unannounced' = 0
    /\ pc' = "running"
    /\ UNCHANGED <<xbeeVars, readerVars, radioVars, step, configured, enables, enabled, reading>>

Disable ==
    /\ pc = "running"
    /\ enabled' = FALSE
    /\ pc' = "disabled"
    /\ UNCHANGED <<xbeeVars, readerVars, radioVars, step, configured, enables, foundpacket,
                   reading, unannounced>>

Main == SendCommand \/ ReadAnswer \/ CheckAnswer \/ Enable \/ WaitForPacket \/ Disable

Next == Radio \/ Answer \/ Interrupt \/ Main

Spec == Init /\ [][Next]_vars

\* The transmitter never stops, the module answers, interrupts are served, and
\* the main program runs whenever it can; losses, refusals and timeouts need not
\* happen, and Disable is called only when the run is over.
Fairness ==
    /\ WF_vars(PacketSent /\ Radio)
    /\ WF_vars(Answer)
    /\ WF_vars(Interrupt)
    /\ WF_vars(SendCommand) /\ WF_vars(ReadAnswer) /\ WF_vars(CheckAnswer)
    /\ WF_vars(Enable) /\ WF_vars(WaitForPacket)

FairSpec == Spec /\ Fairness

-------------------------------------------------------------------------------
(***************************************************************************)
(* Properties                                                               *)
(***************************************************************************)
\* Every variable has its type; the driver's index stays within a packet and the
\* reader's within rxbuffer.
TypeOK ==
    /\ XBeeTypeOK /\ ReaderTypeOK
    /\ line \in Seq(Byte)
    /\ sent \in 1..MaxPackets
    /\ radiomode \in {"data", "command"}
    /\ commands \in Seq(Command)
    /\ outcome \in [Command -> {"none", "OK", "ERROR"}]
    /\ lost \in 0..MaxLost
    /\ pc \in {"initialize", "answer", "initialized", "wait", "running", "disabled"}
    /\ step \in Command
    /\ configured \in BOOLEAN
    /\ enables \in 0..MaxEnables
    /\ enabled \in BOOLEAN /\ foundpacket \in BOOLEAN
    /\ unannounced \in 0..2

\* The two bytes an accepted answer begins with are this command's own reply:
\* the dialogue never takes the echo of an earlier command, or of a packet.
DialogueInStep ==
    pc = "answer" /\ reader = "idle" /\ Accepted => FromReply(first) /\ first[3] = step

\* "Successfully initialized": the radio module has accepted every command, and
\* with the last one has left command mode (if it refuses none: ErrorDetected).
InitializedMeansConfigured ==
    configured /\ Refused = {} => \A s \in Command : outcome[s] = "OK"

\* The code's "if error" test: Initialize never goes on after a command that the
\* radio module answered with ERROR.
ErrorDetected ==
    [][ CheckAnswer /\ outcome[step] = "ERROR" => pc' = "initialized" /\ ~configured' ]_vars

ReadingBytes ==
    {reading.objective, reading.time} \cup
        {f[n] : f \in {reading.x, reading.y, reading.heading}, n \in 1..2}

\* What X(), Y(), Heading(), Oven() and Time() return is, on a line that loses
\* nothing, one transmitted packet, each byte in its own field; and whatever is
\* lost, it never comes from the replies of the radio module, although they reach
\* the same state machine.
ReadingIsOnePacket ==
    reading # NoReading =>
        /\ configured => \A b \in ReadingBytes : FromPacket(b)
        /\ lost = 0 =>
             \E n \in 1..MaxPackets :
                 /\ reading.x = <<PacketByte(n, 1), PacketByte(n, 2)>>
                 /\ reading.y = <<PacketByte(n, 3), PacketByte(n, 4)>>
                 /\ reading.heading = <<PacketByte(n, 5), PacketByte(n, 6)>>
                 /\ reading.objective = PacketByte(n, 7)
                 /\ reading.time = PacketByte(n, 8)

\* WaitForPacket announces a packet no caller was told of before.
NoPhantomPacket == [][ WaitForPacket => unannounced > 0 ]_vars

\* When Enable has returned, the globals hold a packet of the feed.
EnableMeansReading == pc = "running" => reading # NoReading

\* The dialogue of Initialize comes to an end on a link that loses nothing,
\* although its polling loops have no timeout.
InitializeTerminates ==
    [](lost = 0) => (pc = "initialize" ~> pc = "initialized")

\* Enable, which calls WaitForPacket until it announces a packet, returns, if
\* the dialogue before it went well.
EnableReturns ==
    [](lost = 0 /\ Refused = {}) => (pc = "wait" ~> pc = "running")
===============================================================================
