------------------------------ MODULE Wonka_proofs -----------------------------
(***************************************************************************)
(* The dialogue of Initialize and the announcements of WaitForPacket, for    *)
(* every number of packets, losses, refusals and calls of Enable, and        *)
(* whether or not the main program takes each byte before the next arrives.  *)
(***************************************************************************)
EXTENDS Wonka, TLAPS

\* What comes in over the line: a byte of a packet, or one of a reply.
LineByte == {b \in Char \X Nat \X Nat : FromPacket(b) \/ b[3] > 0}

\* The only byte a reply is recognised by, and the places it can be in.
IsO(b) == b[1] = "O"
OnLine(j) == j \in 1..Len(line) /\ IsO(line[j])
Latched == xbeebytereceived /\ IsO(xbeebyte)
InHand == reader = "taken" /\ IsO(char)
NoO == ~Latched /\ ~InHand /\ \A j \in Nat : ~OnLine(j)

Current(b) == FromReply(b) /\ b[3] = step

Types ==
    /\ line \in Seq(LineByte) /\ sent \in 1..MaxPackets
    /\ step \in Command /\ i \in Nat
    /\ outcome \in [Command -> {"none", "OK", "ERROR"}]

\* Before a command is sent nothing is left of the reply to the last one.
QuietInv == pc = "initialize" => commands = <<>> /\ reader = "idle" /\ NoO

\* While one is, there is at most one O on its way, the one of its own reply;
\* once the reader keeps it there is none.
AnswerInv ==
    pc = "answer" =>
        /\ \A j \in Nat : OnLine(j) =>
              /\ Current(line[j]) /\ i = 0 /\ ~Latched /\ ~InHand
              /\ \A k \in Nat : OnLine(k) => k = j
        /\ Latched => Current(xbeebyte) /\ i = 0
        /\ InHand => Current(char) /\ i = 0
        /\ commands # <<>> => commands = <<step>> /\ i = 0 /\ NoO
        /\ ~NoO \/ i > 0 => outcome[step] # "none"

\* What the reader has kept begins with that O.
KeptInv ==
    pc = "answer" =>
        /\ i = 0 => ~foundfirst
        /\ i = 0 /\ reader = "taken" => first = char
        /\ i > 0 => Current(first)

\* Every command before the present one has been answered.
DoneInv ==
    /\ pc \in {"initialize", "answer"} => \A s \in Command : s < step => outcome[s] # "none"
    /\ configured => \A s \in Command : outcome[s] # "none"

DialogueInv == Types /\ QuietInv /\ AnswerInv /\ KeptInv /\ DoneInv

\* No data byte looks like the beginning of a reply.
NoODataByte == \A k \in 1..PacketSize-1 : PayloadChar[k] # "O"

-------------------------------------------------------------------------------
LEMMA SearchedFor == ASSUME NEW b \in FirstBytes PROVE IsO(b)
BY WonkaAssumption DEF IsO

LEMMA ReplyOK ==
    ASSUME NEW s \in Command
    PROVE  /\ Reply(s, OK) \in Seq(LineByte) /\ Len(Reply(s, OK)) = 3
           /\ \A k \in 1..3 : /\ FromReply(Reply(s, OK)[k]) /\ Reply(s, OK)[k][3] = s
                              /\ IsO(Reply(s, OK)[k]) <=> k = 1
<1>1. /\ Len(OK) = 3 /\ OK[1] = "O" /\ OK[2] = "K" /\ OK[3] = "0x0D"
      /\ s \in Nat /\ s > 0
  BY SMT DEF OK, Command
<1>2. \A k \in 1..3 : Reply(s, OK)[k] = <<OK[k], 0, s>>
  BY <1>1 DEF Reply
<1>3. \A k \in 1..3 : OK[k] \in Char /\ (OK[k] = "O" <=> k = 1)
  BY <1>1, SMT DEF Char
<1>4. \A k \in 1..3 : Reply(s, OK)[k] \in LineByte
  BY <1>1, <1>2, <1>3, SMT DEF LineByte, FromPacket
<1>5. Reply(s, OK) \in Seq(LineByte) /\ Len(Reply(s, OK)) = 3
  BY <1>1, <1>4, SMT DEF Reply
<1> QED BY <1>2, <1>3, <1>5, SMT DEF FromReply, IsO

LEMMA ReplyERROR ==
    ASSUME NEW s \in Command
    PROVE  /\ Reply(s, ERROR) \in Seq(LineByte) /\ Len(Reply(s, ERROR)) = 6
           /\ \A k \in 1..6 : /\ FromReply(Reply(s, ERROR)[k]) /\ Reply(s, ERROR)[k][3] = s
                              /\ IsO(Reply(s, ERROR)[k]) <=> k = 4
<1>1. /\ Len(ERROR) = 6 /\ ERROR[1] = "E" /\ ERROR[2] = "R" /\ ERROR[3] = "R"
      /\ ERROR[4] = "O" /\ ERROR[5] = "R" /\ ERROR[6] = "0x0D"
      /\ s \in Nat /\ s > 0
  BY SMT DEF ERROR, Command
<1>2. \A k \in 1..6 : Reply(s, ERROR)[k] = <<ERROR[k], 0, s>>
  BY <1>1 DEF Reply
<1>3. \A k \in 1..6 : ERROR[k] \in Char /\ (ERROR[k] = "O" <=> k = 4)
  BY <1>1, SMT DEF Char
<1>4. \A k \in 1..6 : Reply(s, ERROR)[k] \in LineByte
  BY <1>1, <1>2, <1>3, SMT DEF LineByte, FromPacket
<1>5. Reply(s, ERROR) \in Seq(LineByte) /\ Len(Reply(s, ERROR)) = 6
  BY <1>1, <1>4, SMT DEF Reply
<1> QED BY <1>2, <1>3, <1>5, SMT DEF FromReply, IsO

LEMMA PacketType ==
    ASSUME NEW n \in 1..MaxPackets
    PROVE  /\ PacketBytes(n) \in Seq(LineByte) /\ Len(PacketBytes(n)) = PacketSize
           /\ NoODataByte => \A k \in 1..PacketSize : ~IsO(PacketBytes(n)[k])
<1>1. PacketSize = 9 /\ n \in Nat /\ n > 0 /\ PayloadChar \in [1..PacketSize-1 -> Char]
  BY WonkaAssumption, SMT
<1>2. \A k \in 1..PacketSize : PacketBytes(n)[k] = PacketByte(n, k-1)
  BY DEF PacketBytes
<1>3. ASSUME NEW k \in 1..PacketSize
      PROVE  /\ PacketByte(n, k-1) \in LineByte
             /\ NoODataByte => ~IsO(PacketByte(n, k-1))
  <2>1. CASE k = 1
    BY <1>1, <2>1, SMT DEF PacketByte, LineByte, FromPacket, Char, IsO
  <2>2. CASE k # 1
    <3>1. k - 1 \in 1..PacketSize-1 /\ k - 1 \in Nat /\ k - 1 # 0
      BY <1>1, <2>2, SMT
    <3>2. PayloadChar[k-1] \in Char /\ (NoODataByte => PayloadChar[k-1] # "O")
      BY <1>1, <3>1 DEF NoODataByte
    <3> QED BY <1>1, <3>1, <3>2, SMT DEF PacketByte, LineByte, FromPacket, IsO
  <2> QED BY <2>1, <2>2
<1>4. PacketBytes(n) \in Seq(LineByte) /\ Len(PacketBytes(n)) = PacketSize
  BY <1>1, <1>3, SMT DEF PacketBytes
<1> QED BY <1>2, <1>3, <1>4

LEMMA TailFacts ==
    ASSUME NEW S, NEW s \in Seq(S), s # <<>>
    PROVE  /\ Tail(s) \in Seq(S) /\ Len(Tail(s)) = Len(s) - 1 /\ Len(s) \in Nat /\ Len(s) > 0
           /\ Head(s) = s[1] /\ s[1] \in S
           /\ \A j \in 1..Len(Tail(s)) : Tail(s)[j] = s[j+1]
BY SMT

LEMMA ElementFacts == ASSUME NEW S, NEW s \in Seq(S) PROVE \A k \in 1..Len(s) : s[k] \in S
BY SMT

LEMMA SubSeqFacts ==
    ASSUME NEW S, NEW s \in Seq(S), NEW k \in 0..Len(s)
    PROVE  /\ SubSeq(s, k+1, Len(s)) \in Seq(S) /\ Len(SubSeq(s, k+1, Len(s))) = Len(s) - k
           /\ \A j \in 1..Len(s)-k : SubSeq(s, k+1, Len(s))[j] = s[j+k]
<1>1. Len(s) \in Nat /\ k \in Nat /\ k <= Len(s)
  BY SMT
<1>2. \A j \in k+1..Len(s) : s[j] \in S
  BY <1>1, SMT
<1>3. SubSeq(s, k+1, Len(s)) = [j \in 1..Len(s)-k |-> s[j+k]]
  BY <1>1, SMT
<1> QED BY <1>1, <1>2, <1>3, SMT

LEMMA ConcatFacts ==
    ASSUME NEW S, NEW s \in Seq(S), NEW t \in Seq(S)
    PROVE  /\ s \o t \in Seq(S) /\ Len(s \o t) = Len(s) + Len(t)
           /\ \A j \in 1..Len(s) : (s \o t)[j] = s[j]
           /\ \A j \in Len(s)+1..Len(s)+Len(t) : (s \o t)[j] = t[j - Len(s)]
BY SMT

-------------------------------------------------------------------------------
(* Where the bytes that leave or enter the line were before.                *)
LEMMA LineShrinks ==
    ASSUME Types, line # <<>>, line' = Tail(line)
    PROVE  /\ line' \in Seq(LineByte) /\ Head(line) = line[1]
           /\ IsO(Head(line)) <=> OnLine(1)
           /\ \A j \in Nat : OnLine(j)' => OnLine(j+1) /\ line'[j] = line[j+1]
<1>1. /\ line' \in Seq(LineByte) /\ Len(line') = Len(line) - 1 /\ Len(line) \in Nat /\ Len(line) > 0
      /\ Head(line) = line[1]
      /\ \A j \in 1..Len(line') : line'[j] = line[j+1]
  BY TailFacts DEF Types
<1>2. ASSUME NEW j \in Nat, OnLine(j)' PROVE OnLine(j+1) /\ line'[j] = line[j+1]
  <2>1. j \in 1..Len(line') /\ IsO(line'[j]) /\ line'[j] = line[j+1]
    BY <1>1, <1>2 DEF OnLine, IsO
  <2>2. j + 1 \in 1..Len(line)
    BY <1>1, <2>1, SMT
  <2> QED BY <2>1, <2>2 DEF OnLine
<1>3. IsO(Head(line)) <=> OnLine(1)
  BY <1>1, SMT DEF OnLine
<1> QED BY <1>1, <1>2, <1>3

LEMMA LineGrows ==
    ASSUME Types, NEW t \in Seq(LineByte), line' = line \o t
    PROVE  /\ line' \in Seq(LineByte) /\ Len(line) \in Nat
           /\ \A j \in Nat : OnLine(j)' =>
                 \/ OnLine(j)
                 \/ /\ j - Len(line) \in 1..Len(t) /\ IsO(t[j - Len(line)])
                    /\ line'[j] = t[j - Len(line)]
<1>1. /\ line' \in Seq(LineByte) /\ Len(line') = Len(line) + Len(t)
      /\ \A j \in 1..Len(line) : line'[j] = line[j]
      /\ \A j \in Len(line)+1..Len(line)+Len(t) : line'[j] = t[j - Len(line)]
  BY ConcatFacts DEF Types
<1>2. Len(line) \in Nat /\ Len(t) \in Nat
  BY SMT DEF Types
<1>3. ASSUME NEW j \in Nat, OnLine(j)'
      PROVE  \/ OnLine(j)
             \/ /\ j - Len(line) \in 1..Len(t) /\ IsO(t[j - Len(line)])
                /\ line'[j] = t[j - Len(line)]
  <2>1. j \in 1..Len(line') /\ IsO(line'[j])
    BY <1>3 DEF OnLine, IsO
  <2>2. CASE j <= Len(line)
    <3>1. j \in 1..Len(line)
      BY <1>2, <2>1, <2>2, SMT
    <3> QED BY <1>1, <2>1, <3>1 DEF OnLine
  <2>3. CASE ~(j <= Len(line))
    <3>1. j \in Len(line)+1..Len(line)+Len(t) /\ j - Len(line) \in 1..Len(t)
      BY <1>1, <1>2, <2>1, <2>3, SMT
    <3> QED BY <1>1, <2>1, <3>1
  <2> QED BY <2>2, <2>3
<1> QED BY <1>1, <1>2, <1>3

-------------------------------------------------------------------------------
LEMMA Initial == ASSUME NoODataByte, Init PROVE DialogueInv
<1>1. /\ sent = 1 /\ step = 1 /\ i = 0 /\ commands = <<>> /\ configured = FALSE
      /\ reader = "idle" /\ pc = "initialize" /\ xbeebytereceived = FALSE
      /\ outcome = [s \in Command |-> "none"]
  BY DEF Init, XBeeInit, ReaderInit
<1>2. PICK k \in 0..PacketSize : line = SubSeq(PacketBytes(1), k + 1, PacketSize)
  BY DEF Init
<1>3. 1 \in 1..MaxPackets /\ PacketSize = 9
  BY WonkaAssumption, SMT
<1>4. /\ PacketBytes(1) \in Seq(LineByte) /\ Len(PacketBytes(1)) = PacketSize
      /\ \A j \in 1..PacketSize : ~IsO(PacketBytes(1)[j])
  BY <1>3, PacketType
<1>5. /\ line \in Seq(LineByte) /\ Len(line) = PacketSize - k
      /\ \A j \in 1..Len(line) : line[j] = PacketBytes(1)[j+k]
  BY <1>2, <1>4, SubSeqFacts
<1>6. ASSUME NEW j \in Nat PROVE ~OnLine(j)
  <2>1. SUFFICES ASSUME j \in 1..Len(line) PROVE ~IsO(line[j])
    BY DEF OnLine
  <2>2. j + k \in 1..PacketSize
    BY <1>3, <1>5, <2>1, SMT
  <2> QED BY <1>4, <1>5, <2>1, <2>2
<1>7. NoO
  BY <1>1, <1>6 DEF NoO, Latched, InHand
<1>8. Types
  BY <1>1, <1>3, <1>5, SMT DEF Types, Command
<1>9. DoneInv
  BY <1>1, SMT DEF DoneInv, Command
<1> QED BY <1>1, <1>7, <1>8, <1>9 DEF DialogueInv, QuietInv, AnswerInv, KeptInv

\* A step that only lets the line get shorter, or puts no O on it.
LEMMA LineKeeps ==
    ASSUME DialogueInv, Types',
           UNCHANGED <<xbeebytereceived, xbeebyte, reader, i, foundfirst, first, char, pc, step,
                       configured, commands, outcome>>,
           NEW d \in {0, 1},
           \A j \in Nat : OnLine(j)' => OnLine(j+d) /\ line'[j] = line[j+d]
    PROVE  DialogueInv'
<1>1. \A j \in Nat : j + d \in Nat /\ \A n \in Nat : n + d = j + d => n = j
  BY SMT
<1>2. (Latched' <=> Latched) /\ (InHand' <=> InHand)
  BY DEF Latched, InHand, IsO
<1>3. NoO => NoO'
  BY <1>1, <1>2 DEF NoO
<1>4. QuietInv' /\ KeptInv' /\ DoneInv'
  BY <1>3 DEF DialogueInv, QuietInv, KeptInv, DoneInv, Current, FromReply
<1>5. AnswerInv'
  <2> SUFFICES ASSUME pc = "answer"
               PROVE  /\ \A j \in Nat : OnLine(j)' =>
                            /\ Current(line'[j]) /\ i = 0 /\ ~Latched /\ ~InHand
                            /\ \A n \in Nat : OnLine(n)' => n = j
                      /\ Latched => Current(xbeebyte) /\ i = 0
                      /\ InHand => Current(char) /\ i = 0
                      /\ commands # <<>> => commands = <<step>> /\ i = 0 /\ NoO'
                      /\ ~NoO' \/ i > 0 => outcome[step] # "none"
    BY <1>2 DEF AnswerInv, Current, FromReply
  <2>1. /\ \A j \in Nat : OnLine(j) =>
              /\ Current(line[j]) /\ i = 0 /\ ~Latched /\ ~InHand
              /\ \A n \in Nat : OnLine(n) => n = j
        /\ Latched => Current(xbeebyte) /\ i = 0
        /\ InHand => Current(char) /\ i = 0
        /\ commands # <<>> => commands = <<step>> /\ i = 0 /\ NoO
        /\ ~NoO \/ i > 0 => outcome[step] # "none"
    BY DEF DialogueInv, AnswerInv
  <2>2. ASSUME NEW j \in Nat, OnLine(j)'
        PROVE  /\ Current(line'[j]) /\ i = 0 /\ ~Latched /\ ~InHand
               /\ \A n \in Nat : OnLine(n)' => n = j
    <3>1. j + d \in Nat /\ OnLine(j+d) /\ line'[j] = line[j+d]
      BY <1>1, <2>2
    <3> QED BY <1>1, <2>1, <3>1
  <2> QED BY <1>3, <2>1, <2>2
<1> QED BY <1>4, <1>5 DEF DialogueInv

LEMMA RadioKeeps == ASSUME DialogueInv, NoODataByte, Radio PROVE DialogueInv'
<1>1. UNCHANGED <<xbeebytereceived, xbeebyte, reader, i, foundfirst, first, char, pc, step,
                  configured, commands, outcome>>
  BY DEF Radio, PacketSent, CommandModeTimeout, ByteLost, xbeeVars, frameVars, mailboxVars,
         readerVars, mainVars
<1>2. Types
  BY DEF DialogueInv
<1>3. CASE PacketSent
  <2>1. line' = PacketBytes(sent') /\ sent' \in 1..MaxPackets
    <3>1. line' = PacketBytes(sent') /\ sent' = (sent % MaxPackets) + 1 /\ sent \in Nat
      BY <1>2, <1>3, WonkaAssumption, SMT DEF PacketSent, Types
    <3> QED BY <3>1, WonkaAssumption, SMT
  <2>2. /\ line' \in Seq(LineByte) /\ Len(line') = PacketSize
        /\ \A j \in 1..PacketSize : ~IsO(line'[j])
    BY <2>1, PacketType
  <2>3. \A j \in Nat : ~OnLine(j)'
    BY <2>2 DEF OnLine, IsO
  <2>4. Types'
    BY <1>1, <1>2, <2>1, <2>2 DEF Types
  <2> QED BY <1>1, <2>3, <2>4, LineKeeps
<1>4. CASE CommandModeTimeout
  <2>1. line' = line /\ sent' = sent
    BY <1>4 DEF CommandModeTimeout
  <2>2. \A j \in Nat : OnLine(j)' => OnLine(j+0) /\ line'[j] = line[j+0]
    BY <2>1, SMT DEF OnLine, IsO
  <2>3. Types'
    BY <1>1, <1>2, <2>1 DEF Types
  <2> QED BY <1>1, <2>2, <2>3, LineKeeps
<1>5. CASE ByteLost
  <2>1. line # <<>> /\ line' = Tail(line) /\ sent' = sent
    BY <1>5 DEF ByteLost
  <2>2. line' \in Seq(LineByte) /\ \A j \in Nat : OnLine(j)' => OnLine(j+1) /\ line'[j] = line[j+1]
    BY <1>2, <2>1, LineShrinks
  <2>3. Types'
    BY <1>1, <1>2, <2>1, <2>2 DEF Types
  <2> QED BY <1>1, <2>2, <2>3, LineKeeps
<1> QED BY <1>3, <1>4, <1>5 DEF Radio

\* What the invariant says while a command is being answered, by its parts.
LEMMA Unfolded ==
    ASSUME DialogueInv, pc = "answer"
    PROVE  /\ \A j \in Nat : OnLine(j) =>
                 /\ Current(line[j]) /\ i = 0 /\ ~Latched /\ ~InHand
                 /\ \A n \in Nat : OnLine(n) => n = j
           /\ Latched => Current(xbeebyte) /\ i = 0
           /\ InHand => Current(char) /\ i = 0
           /\ commands # <<>> => commands = <<step>> /\ i = 0 /\ NoO
           /\ ~NoO \/ i > 0 => outcome[step] # "none"
           /\ i = 0 => ~foundfirst
           /\ i = 0 /\ reader = "taken" => first = char
           /\ i > 0 => Current(first)
BY DEF DialogueInv, AnswerInv, KeptInv

\* The reply t to the command the radio module reads holds one O, at place p.
LEMMA ReplyKeeps ==
    ASSUME DialogueInv, NEW s \in Command, Reads(s),
           UNCHANGED <<xbeebytereceived, xbeebyte, reader, i, foundfirst, first, char, pc, step,
                       configured, sent>>,
           NEW t \in Seq(LineByte), NEW p \in 1..Len(t), line' = line \o t,
           \A k \in 1..Len(t) : FromReply(t[k]) /\ t[k][3] = s /\ (IsO(t[k]) <=> k = p),
           NEW a \in {"OK", "ERROR"}, outcome' = [outcome EXCEPT ![s] = a]
    PROVE  DialogueInv'
<1>1. Types /\ commands # <<>> /\ s = Head(commands) /\ commands' = Tail(commands)
  BY DEF DialogueInv, Reads
<1>2. /\ line' \in Seq(LineByte) /\ Len(line) \in Nat
      /\ \A j \in Nat : OnLine(j)' =>
            \/ OnLine(j)
            \/ /\ j - Len(line) \in 1..Len(t) /\ IsO(t[j - Len(line)])
               /\ line'[j] = t[j - Len(line)]
  BY <1>1, LineGrows
<1>3. /\ outcome' \in [Command -> {"none", "OK", "ERROR"}] /\ outcome'[s] # "none"
      /\ \A r \in Command : outcome[r] # "none" => outcome'[r] # "none"
  BY <1>1, SMT DEF Types
<1>4. Types' /\ DoneInv'
  BY <1>1, <1>2, <1>3 DEF Types, DoneInv, DialogueInv
<1>5. pc # "initialize"
  BY <1>1 DEF DialogueInv, QuietInv
<1>6. ASSUME pc = "answer" PROVE AnswerInv' /\ KeptInv'
  <2>1. commands = <<step>> /\ i = 0 /\ ~Latched /\ ~InHand /\ \A j \in Nat : ~OnLine(j)
    BY <1>1, <1>6, Unfolded DEF NoO
  <2>2. s = step /\ commands' = <<>>
    BY <1>1, <2>1, SMT
  <2>3. ~Latched' /\ ~InHand'
    BY <2>1 DEF Latched, InHand, IsO
  <2>4. ASSUME NEW j \in Nat, OnLine(j)'
        PROVE  j = Len(line) + p /\ Current(line'[j])
    <3>1. /\ j - Len(line) \in 1..Len(t) /\ IsO(t[j - Len(line)])
          /\ line'[j] = t[j - Len(line)]
      BY <1>2, <2>1, <2>4
    <3>2. j - Len(line) = p /\ Current(line'[j])
      BY <2>2, <3>1 DEF Current
    <3>3. j = Len(line) + p
      BY <1>2, <3>2, SMT
    <3> QED BY <3>2, <3>3
  <2>5. Current(first)' = Current(first) /\ (\A j \in Nat : Current(line[j])' = Current(line'[j]))
    BY DEF Current, FromReply
  <2>6. AnswerInv'
    BY <1>3, <2>1, <2>2, <2>3, <2>4, <2>5 DEF AnswerInv
  <2>7. KeptInv'
    BY <1>6, <2>1, Unfolded DEF KeptInv
  <2> QED BY <2>6, <2>7
<1>7. QuietInv'
  BY <1>5 DEF QuietInv
<1>8. AnswerInv' /\ KeptInv'
  <2>1. CASE pc = "answer"
    BY <1>6, <2>1
  <2>2. CASE pc # "answer"
    BY <2>2 DEF AnswerInv, KeptInv
  <2> QED BY <2>1, <2>2
<1> QED BY <1>4, <1>7, <1>8 DEF DialogueInv

LEMMA AnswerKeeps == ASSUME DialogueInv, Answer PROVE DialogueInv'
<1>1. UNCHANGED <<xbeebytereceived, xbeebyte, reader, i, foundfirst, first, char, pc, step,
                  configured, sent>>
  BY DEF Answer, Unanswered, AnswerOK, AnswerERROR, xbeeVars, frameVars, mailboxVars,
         readerVars, mainVars
<1>2. ASSUME NEW s \in Command, Reads(s), outcome' = [outcome EXCEPT ![s] = "OK"],
             line' = line \o Reply(s, OK)
      PROVE  DialogueInv'
  <2>1. /\ Reply(s, OK) \in Seq(LineByte) /\ Len(Reply(s, OK)) = 3 /\ 1 \in 1..3
        /\ \A k \in 1..3 : /\ FromReply(Reply(s, OK)[k]) /\ Reply(s, OK)[k][3] = s
                           /\ IsO(Reply(s, OK)[k]) <=> k = 1
    BY ReplyOK
  <2>2. /\ 1 \in 1..Len(Reply(s, OK)) /\ "OK" \in {"OK", "ERROR"}
        /\ \A k \in 1..Len(Reply(s, OK)) :
              /\ FromReply(Reply(s, OK)[k]) /\ Reply(s, OK)[k][3] = s
              /\ IsO(Reply(s, OK)[k]) <=> k = 1
    BY <2>1
  <2> QED BY <1>1, <1>2, <2>1, <2>2, ReplyKeeps
<1>3. ASSUME NEW s \in Command, Reads(s), outcome' = [outcome EXCEPT ![s] = "ERROR"],
             line' = line \o Reply(s, ERROR)
      PROVE  DialogueInv'
  <2>1. /\ Reply(s, ERROR) \in Seq(LineByte) /\ Len(Reply(s, ERROR)) = 6 /\ 4 \in 1..6
        /\ \A k \in 1..6 : /\ FromReply(Reply(s, ERROR)[k]) /\ Reply(s, ERROR)[k][3] = s
                           /\ IsO(Reply(s, ERROR)[k]) <=> k = 4
    BY ReplyERROR
  <2>2. /\ 4 \in 1..Len(Reply(s, ERROR)) /\ "ERROR" \in {"OK", "ERROR"}
        /\ \A k \in 1..Len(Reply(s, ERROR)) :
              /\ FromReply(Reply(s, ERROR)[k]) /\ Reply(s, ERROR)[k][3] = s
              /\ IsO(Reply(s, ERROR)[k]) <=> k = 4
    BY <2>1
  <2> QED BY <1>1, <1>3, <2>1, <2>2, ReplyKeeps
<1>4. CASE Unanswered
  <2>1. /\ commands # <<>> /\ commands' = Tail(commands) /\ UNCHANGED <<line, outcome>>
    BY <1>4 DEF Unanswered, Reads
  <2>2. pc # "initialize"
    BY <2>1 DEF DialogueInv, QuietInv
  <2>3. Types' /\ DoneInv' /\ QuietInv' /\ KeptInv'
    BY <1>1, <2>1, <2>2 DEF DialogueInv, Types, DoneInv, QuietInv, KeptInv, Current, FromReply
  <2>4. AnswerInv'
    <3>1. CASE pc # "answer"
      BY <1>1, <3>1 DEF AnswerInv
    <3>2. CASE pc = "answer"
      <4>1. commands = <<step>> /\ i = 0 /\ ~Latched /\ ~InHand /\ \A j \in Nat : ~OnLine(j)
        BY <2>1, <3>2, Unfolded DEF NoO
      <4>2. commands' = <<>>
        BY <2>1, <4>1, SMT
      <4>3. ~Latched' /\ ~InHand' /\ \A j \in Nat : ~OnLine(j)'
        BY <1>1, <2>1, <4>1 DEF Latched, InHand, OnLine, IsO
      <4> QED BY <1>1, <4>1, <4>2, <4>3 DEF AnswerInv, NoO
    <3> QED BY <3>1, <3>2
  <2> QED BY <2>3, <2>4 DEF DialogueInv
<1> QED BY <1>2, <1>3, <1>4 DEF Answer, AnswerOK, AnswerERROR

LEMMA InterruptKeeps == ASSUME DialogueInv, Interrupt PROVE DialogueInv'
<1>1. /\ line # <<>> /\ line' = Tail(line) /\ xbeebyte' = Head(line) /\ xbeebytereceived' = TRUE
      /\ UNCHANGED <<reader, i, foundfirst, first, char, pc, step, configured, sent, commands,
                     outcome>>
  BY DEF Interrupt, UART0_ISR, readerVars, mainVars
<1>2. Types
  BY DEF DialogueInv
<1>3. /\ line' \in Seq(LineByte) /\ xbeebyte' = line[1]
      /\ IsO(xbeebyte') <=> OnLine(1)
      /\ \A j \in Nat : OnLine(j)' => OnLine(j+1) /\ line'[j] = line[j+1]
  BY <1>1, <1>2, LineShrinks
<1>4. (Latched' <=> OnLine(1)) /\ (InHand' <=> InHand)
  BY <1>1, <1>3 DEF Latched, InHand, IsO
<1>5. \A j \in Nat : j + 1 \in Nat /\ \A n \in Nat : n + 1 = j + 1 => n = j
  BY SMT
<1>6. /\ NoO => NoO'
      /\ \A j \in Nat : OnLine(j)' => j + 1 # 1
  <2>1. \A j \in Nat : OnLine(j)' => j \in 1..Len(line')
    BY DEF OnLine
  <2>2. \A j \in Nat : OnLine(j)' => j + 1 # 1
    BY <2>1, SMT
  <2>3. 1 \in Nat
    OBVIOUS
  <2> QED BY <1>3, <1>4, <1>5, <2>2, <2>3 DEF NoO
<1>7. Types' /\ QuietInv' /\ KeptInv' /\ DoneInv'
  BY <1>1, <1>2, <1>3, <1>6 DEF DialogueInv, Types, QuietInv, KeptInv, DoneInv, Current, FromReply
<1>8. AnswerInv'
  <2> SUFFICES ASSUME pc = "answer"
               PROVE  /\ \A j \in Nat : OnLine(j)' =>
                            /\ Current(line'[j]) /\ i = 0 /\ ~Latched' /\ ~InHand
                            /\ \A n \in Nat : OnLine(n)' => n = j
                      /\ Latched' => Current(xbeebyte') /\ i = 0
                      /\ InHand => Current(char) /\ i = 0
                      /\ commands # <<>> => commands = <<step>> /\ i = 0 /\ NoO'
                      /\ ~NoO' \/ i > 0 => outcome[step] # "none"
    BY <1>1, <1>4 DEF AnswerInv, Current, FromReply
  <2>1. ASSUME NEW j \in Nat, OnLine(j)'
        PROVE  /\ Current(line'[j]) /\ i = 0 /\ ~Latched' /\ ~InHand
               /\ \A n \in Nat : OnLine(n)' => n = j
    <3>1. j + 1 \in Nat /\ OnLine(j+1) /\ line'[j] = line[j+1] /\ j + 1 # 1
      BY <1>3, <1>5, <1>6, <2>1
    <3>2. Current(line'[j]) /\ i = 0 /\ ~InHand /\ \A n \in Nat : OnLine(n) => n = j + 1
      BY <3>1, Unfolded
    <3>3. 1 \in Nat
      OBVIOUS
    <3> QED BY <1>3, <1>4, <1>5, <3>1, <3>2, <3>3
  <2>2. Latched' => Current(xbeebyte') /\ i = 0
    BY <1>3, <1>4, Unfolded
  <2> QED BY <1>6, <2>1, <2>2, Unfolded
<1> QED BY <1>7, <1>8 DEF DialogueInv

LEMMA TakeKeeps ==
    ASSUME DialogueInv, TakeByte, UNCHANGED <<radioVars, mainVars>> PROVE DialogueInv'
<1>1. /\ reader = "poll" /\ xbeebytereceived /\ reader' = "taken" /\ char' = xbeebyte
      /\ first' = IF i = 0 THEN xbeebyte ELSE first
      /\ UNCHANGED <<xbeebytereceived, xbeebyte, i, foundfirst, pc, step, configured, line, sent,
                     commands, outcome>>
  BY DEF TakeByte, xbeeVars, mailboxVars, radioVars, mainVars
<1>2. /\ InHand' <=> Latched
      /\ Latched' <=> Latched
      /\ \A j \in Nat : OnLine(j)' <=> OnLine(j)
      /\ ~InHand
  BY <1>1 DEF InHand, Latched, OnLine, IsO
<1>3. (NoO => NoO') /\ (NoO' => NoO)
  BY <1>2 DEF NoO
<1>4. pc # "initialize"
  BY <1>1 DEF DialogueInv, QuietInv
<1>5. Types' /\ QuietInv' /\ DoneInv'
  BY <1>1, <1>4 DEF DialogueInv, Types, QuietInv, DoneInv
<1>6. AnswerInv' /\ KeptInv'
  <2>1. CASE pc # "answer"
    BY <1>1, <2>1 DEF AnswerInv, KeptInv
  <2>2. CASE pc = "answer"
    <3>1. /\ Current(xbeebyte)' = Current(xbeebyte) /\ Current(char)' = Current(xbeebyte)
          /\ \A j \in Nat : Current(line[j])' = Current(line[j])
          /\ i > 0 => Current(first)' = Current(first)
      BY <1>1, SMT DEF Current, FromReply
    <3>2. AnswerInv'
      BY <1>1, <1>2, <1>3, <2>2, <3>1, Unfolded DEF AnswerInv
    <3>3. KeptInv'
      BY <1>1, <2>2, <3>1, Unfolded DEF KeptInv
    <3> QED BY <3>2, <3>3
  <2> QED BY <2>1, <2>2
<1> QED BY <1>5, <1>6 DEF DialogueInv

LEMMA ReleaseKeeps ==
    ASSUME DialogueInv, ReleaseByte, UNCHANGED <<radioVars, mainVars>> PROVE DialogueInv'
<1>1. /\ reader = "taken" /\ xbeebytereceived' = FALSE /\ reader' # "taken"
      /\ \/ i' = i /\ foundfirst' = foundfirst
         \/ Keeps /\ i' = i + 1
         \/ ~Keeps /\ i' = i /\ foundfirst' = FALSE
      /\ UNCHANGED <<xbeebyte, first, char, pc, step, configured, line, sent, commands, outcome>>
  BY DEF ReleaseByte, radioVars, mainVars
<1>2. /\ ~InHand' /\ ~Latched'
      /\ \A j \in Nat : OnLine(j)' <=> OnLine(j)
  BY <1>1 DEF InHand, Latched, OnLine, IsO
<1>3. (NoO => NoO') /\ ((\A j \in Nat : ~OnLine(j)) => NoO')
  BY <1>2 DEF NoO
<1>4. pc # "initialize"
  BY <1>1 DEF DialogueInv, QuietInv
<1>5. /\ i \in Nat /\ i' \in Nat /\ (i' = i + 1 => i' > 0 /\ i' # 0)
      /\ ~(i > 0 /\ i = 0) /\ (i = 0 \/ i > 0)
  <2>1. i \in Nat
    BY DEF DialogueInv, Types
  <2> QED BY <1>1, <2>1, SMT
<1>6. Types' /\ QuietInv' /\ DoneInv'
  BY <1>1, <1>4, <1>5 DEF DialogueInv, Types, QuietInv, DoneInv
<1>7. AnswerInv' /\ KeptInv'
  <2>1. CASE pc # "answer"
    BY <1>1, <2>1 DEF AnswerInv, KeptInv
  <2>2. CASE pc = "answer"
    <3>1. /\ Current(first)' = Current(first)
          /\ \A j \in Nat : Current(line[j])' = Current(line[j])
      BY <1>1 DEF Current, FromReply
    <3>2. ASSUME Keeps
          PROVE  /\ commands = <<>> /\ outcome[step] # "none" /\ Current(first)
                 /\ \A j \in Nat : ~OnLine(j)
      <4>1. CASE i = 0
        <5>1. IsO(char)
          BY <2>2, <3>2, <4>1, Unfolded, SearchedFor DEF Keeps
        <5>2. InHand
          BY <1>1, <5>1 DEF InHand
        <5> QED BY <1>1, <2>2, <4>1, <5>2, Unfolded DEF NoO
      <4>2. CASE i > 0
        BY <1>5, <2>2, <4>2, Unfolded
      <4> QED BY <1>5, <4>1, <4>2
    <3>3. CASE Keeps /\ i' = i + 1
      <4>1. AnswerInv'
        BY <1>1, <1>2, <1>3, <3>2, <3>3 DEF AnswerInv
      <4>2. KeptInv'
        BY <1>1, <1>5, <3>1, <3>2, <3>3 DEF KeptInv
      <4> QED BY <4>1, <4>2
    <3>4. CASE i' = i /\ (foundfirst' = foundfirst \/ foundfirst' = FALSE)
      <4>1. AnswerInv'
        <5>1. NoO' => \A j \in Nat : ~OnLine(j)
          BY <1>2 DEF NoO
        <5>2. ~NoO' => ~NoO
          BY <1>3 DEF NoO
        <5> QED BY <1>1, <1>2, <1>3, <2>2, <3>1, <3>4, <5>1, <5>2, Unfolded DEF AnswerInv
      <4>2. KeptInv'
        BY <1>1, <2>2, <3>1, <3>4, Unfolded DEF KeptInv
      <4> QED BY <4>1, <4>2
    <3> QED BY <1>1, <3>3, <3>4
  <2> QED BY <2>1, <2>2
<1> QED BY <1>6, <1>7 DEF DialogueInv

LEMMA SendKeeps == ASSUME DialogueInv, SendCommand PROVE DialogueInv'
<1>1. /\ pc = "initialize" /\ pc' = "answer" /\ commands' = Append(commands, step)
      /\ i' = 0 /\ foundfirst' = FALSE /\ reader' = "poll"
      /\ UNCHANGED <<xbeebytereceived, xbeebyte, char, step, configured, line, sent, outcome>>
  BY DEF SendCommand, ReceiveDataSearch, xbeeVars, mailboxVars
<1>2. Types /\ DoneInv /\ commands = <<>> /\ NoO
  BY <1>1 DEF DialogueInv, QuietInv
<1>3. commands' = <<step>> /\ ~(i' > 0)
  BY <1>1, <1>2, SMT
<1>4. NoO' /\ ~InHand' /\ ~Latched' /\ \A j \in Nat : ~OnLine(j)'
  BY <1>1, <1>2 DEF NoO, InHand, Latched, OnLine, IsO
<1>5. Types' /\ DoneInv'
  BY <1>1, <1>2 DEF Types, DoneInv
<1> QED BY <1>1, <1>3, <1>4, <1>5 DEF DialogueInv, QuietInv, AnswerInv, KeptInv

LEMMA CheckKeeps == ASSUME DialogueInv, CheckAnswer PROVE DialogueInv'
<1>1. /\ pc = "answer" /\ reader = "idle"
      /\ UNCHANGED <<xbeebytereceived, xbeebyte, i, reader, char, line, sent, commands, outcome>>
  BY DEF CheckAnswer, xbeeVars, mailboxVars, readerVars, radioVars
<1>2. Types /\ DoneInv
  BY DEF DialogueInv
<1>3. /\ NoO' <=> NoO
      /\ Accepted => i > 0 /\ i # 0
  BY <1>1, <1>2, SMT DEF NoO, InHand, Latched, OnLine, IsO, Accepted, Types
<1>4. ASSUME Accepted
      PROVE  outcome[step] # "none" /\ commands = <<>> /\ NoO
  BY <1>1, <1>3, <1>4, Unfolded DEF NoO
<1>5. CASE /\ Accepted /\ step # LastStep
           /\ step' = step + 1 /\ pc' = "initialize" /\ UNCHANGED configured
  <2>1. step' \in Command /\ \A s \in Command : s < step' => s < step \/ s = step
    BY <1>2, <1>5, SMT DEF Types, Command, LastStep
  <2>2. Types'
    BY <1>1, <1>2, <2>1 DEF Types
  <2>3. DoneInv'
    BY <1>1, <1>2, <1>4, <1>5, <2>1 DEF DoneInv
  <2> QED BY <1>1, <1>3, <1>4, <1>5, <2>2, <2>3 DEF DialogueInv, QuietInv, AnswerInv, KeptInv
<1>6. CASE /\ Accepted /\ step = LastStep
           /\ configured' = TRUE /\ pc' = "initialized" /\ UNCHANGED step
  <2>1. \A s \in Command : s < step \/ s = step
    BY <1>6, SMT DEF Command, LastStep
  <2>2. Types' /\ DoneInv'
    BY <1>1, <1>2, <1>4, <1>6, <2>1 DEF Types, DoneInv
  <2> QED BY <1>6, <2>2 DEF DialogueInv, QuietInv, AnswerInv, KeptInv
<1>7. CASE ~Accepted /\ pc' = "initialized" /\ UNCHANGED <<step, configured>>
  BY <1>1, <1>2, <1>7 DEF DialogueInv, Types, DoneInv, QuietInv, AnswerInv, KeptInv
<1> QED BY <1>5, <1>6, <1>7 DEF CheckAnswer

\* Once Initialize has returned, the program calls nothing that reads a reply.
LEMMA FeedKeeps ==
    ASSUME DialogueInv, Enable \/ WaitForPacket \/ Disable PROVE DialogueInv'
<1>1. /\ pc' \notin {"initialize", "answer"}
      /\ UNCHANGED <<i, line, sent, step, configured, outcome>>
  BY DEF Enable, WaitForPacket, Disable, readerVars, radioVars
<1> QED BY <1>1 DEF DialogueInv, Types, DoneInv, QuietInv, AnswerInv, KeptInv

LEMMA Stutter == ASSUME DialogueInv, UNCHANGED vars PROVE DialogueInv'
<1>1. UNCHANGED <<xbeebytereceived, xbeebyte, reader, i, foundfirst, first, char, pc, step,
                  configured, commands, outcome, line, sent>>
  BY DEF vars, xbeeVars, frameVars, mailboxVars, readerVars, radioVars, mainVars
<1>2. Types'
  BY <1>1 DEF DialogueInv, Types
<1>3. \A j \in Nat : OnLine(j)' => OnLine(j+0) /\ line'[j] = line[j+0]
  BY <1>1, SMT DEF OnLine, IsO
<1> QED BY <1>1, <1>2, <1>3, LineKeeps

LEMMA Step == ASSUME DialogueInv, NoODataByte, [Next]_vars PROVE DialogueInv'
BY RadioKeeps, AnswerKeeps, InterruptKeeps, TakeKeeps, ReleaseKeeps, SendKeeps, CheckKeeps,
   FeedKeeps, Stutter DEF Next, Main, ReadAnswer

\* The invariant of the dialogue, in every state it can get to.
THEOREM Invariance == NoODataByte /\ Spec => []DialogueInv
<1>1. NoODataByte /\ Init => DialogueInv
  BY Initial
<1>2. NoODataByte /\ DialogueInv /\ [Next]_vars => DialogueInv'
  BY Step
<1>3. SUFFICES ASSUME NoODataByte PROVE Spec => []DialogueInv
  BY <1>3
<1> QED BY <1>1, <1>2, <1>3, PTL DEF Spec

\* Where no data byte looks like an O, an answer that Initialize accepts is the
\* answer to the command it has sent last: whatever bytes are lost, whichever
\* commands are refused, and however late the mailbox is looked at.
THEOREM DialogueStaysInStep == NoODataByte /\ Spec => []DialogueInStep
<1>1. DialogueInv => DialogueInStep
  <2> SUFFICES ASSUME DialogueInv, pc = "answer", Accepted PROVE FromReply(first) /\ first[3] = step
    BY DEF DialogueInStep
  <2>1. i > 0
    BY SMT DEF DialogueInv, Types, Accepted
  <2> QED BY <2>1, Unfolded DEF Current
<1> QED BY <1>1, Invariance, PTL

\* Under the same condition Initialize goes through all of its commands only if
\* the radio module has answered each; if it has refused none, it is configured.
THEOREM ConfiguredInFull == NoODataByte /\ Spec => []InitializedMeansConfigured
<1>1. DialogueInv => InitializedMeansConfigured
  <2> SUFFICES ASSUME DialogueInv, configured, Refused = {}, NEW s \in Command
               PROVE  outcome[s] = "OK"
    BY DEF InitializedMeansConfigured
  <2>1. outcome[s] # "none"
    BY DEF DialogueInv, DoneInv
  <2>2. outcome[s] # "ERROR"
    BY DEF Refused
  <2>3. outcome[s] \in {"none", "OK", "ERROR"}
    BY DEF DialogueInv, Types
  <2> QED BY <2>1, <2>2, <2>3
<1> QED BY <1>1, Invariance, PTL

-------------------------------------------------------------------------------
(* The feed.  No assumption on what the bytes of a packet look like is needed.*)

\* A flag that is set announces a packet nobody was told of, and that packet has
\* overwritten what the globals held when the robot was switched on.
FeedInv ==
    /\ line \in Seq(LineByte) /\ sent \in 1..MaxPackets /\ xbeebufferindex \in Nat
    /\ unannounced \in 0..2
    /\ foundpacket => unannounced > 0 /\ reading # NoReading
    /\ pc = "running" => reading # NoReading

\* The byte that completes a packet is one that came in over the line.
LEMMA DecodedIsNew ==
    ASSUME NEW c \in LineByte, xbeebufferindex \in Nat, PacketReady(c)
    PROVE  Decode(Packet(c)) # NoReading
<1>1. 8 \in Offset /\ 8 \in 0..PacketSize-1 /\ xbeebufferindex = 8
  BY WonkaAssumption, SMT DEF Offset, PacketReady
<1>2. NoReading.time = ZeroByte
  BY <1>1 DEF NoReading, Decode
<1>3. c # ZeroByte
  BY WonkaAssumption, SMT DEF LineByte, FromPacket, FromReply
<1>4. Decode(Packet(c)).time = c
  BY <1>1 DEF Decode, Packet
<1> QED BY <1>2, <1>3, <1>4

LEMMA FeedLine == ASSUME FeedInv, Next PROVE line' \in Seq(LineByte) /\ sent' \in 1..MaxPackets
<1>1. CASE PacketSent
  <2>1. line' = PacketBytes(sent') /\ sent' \in 1..MaxPackets
    <3>1. line' = PacketBytes(sent') /\ sent' = (sent % MaxPackets) + 1 /\ sent \in Nat
      BY <1>1, WonkaAssumption, SMT DEF PacketSent, FeedInv
    <3> QED BY <3>1, WonkaAssumption, SMT
  <2> QED BY <2>1, PacketType
<1>2. CASE line # <<>> /\ line' = Tail(line) /\ UNCHANGED sent
  BY <1>2, TailFacts DEF FeedInv
<1>3. ASSUME NEW s \in Command, UNCHANGED sent,
             line' = line \o Reply(s, OK) \/ line' = line \o Reply(s, ERROR)
      PROVE  line' \in Seq(LineByte) /\ sent' \in 1..MaxPackets
  BY <1>3, ReplyOK, ReplyERROR, ConcatFacts DEF FeedInv
<1>4. CASE UNCHANGED <<line, sent>>
  BY <1>4 DEF FeedInv
<1>5. CASE Radio
  BY <1>1, <1>2, <1>4, <1>5 DEF Radio, CommandModeTimeout, ByteLost
<1>6. CASE Answer
  BY <1>3, <1>4, <1>6 DEF Answer, Unanswered, AnswerOK, AnswerERROR
<1>7. CASE Interrupt
  BY <1>2, <1>7 DEF Interrupt
<1>8. CASE Main
  BY <1>4, <1>8 DEF Main, SendCommand, ReadAnswer, CheckAnswer, Enable, WaitForPacket, Disable,
              radioVars
<1> QED BY <1>5, <1>6, <1>7, <1>8 DEF Next

LEMMA FeedInitial == Init => FeedInv
<1> SUFFICES ASSUME Init PROVE FeedInv
  OBVIOUS
<1>1. /\ sent = 1 /\ xbeebufferindex = 0 /\ unannounced = 0 /\ foundpacket = FALSE
      /\ pc = "initialize"
  BY DEF Init, XBeeInit
<1>2. 1 \in 1..MaxPackets /\ 0 \in 0..2
  BY WonkaAssumption, SMT
<1>3. PICK k \in 0..PacketSize : line = SubSeq(PacketBytes(1), k + 1, PacketSize)
  BY DEF Init
<1>4. PacketBytes(1) \in Seq(LineByte) /\ Len(PacketBytes(1)) = PacketSize
  BY <1>2, PacketType
<1>5. line \in Seq(LineByte)
  BY <1>3, <1>4, SubSeqFacts
<1> QED BY <1>1, <1>2, <1>5 DEF FeedInv

LEMMA FeedStep == ASSUME FeedInv, [Next]_vars PROVE FeedInv'
<1>1. CASE Interrupt
  <2>1. line # <<>> /\ line \in Seq(LineByte) /\ pc' = pc
    BY <1>1 DEF Interrupt, mainVars, FeedInv
  <2>2. Head(line) \in LineByte
    BY <2>1, TailFacts
  <2>3. xbeebufferindex' \in Nat
    <3>1. xbeebufferindex' \in {0, 1, xbeebufferindex, xbeebufferindex + 1}
      BY <1>1 DEF Interrupt, UART0_ISR, OnAwaitingStart, OnFoundStart, OnPacketComplete,
                  StartFrame, frameVars
    <3> QED BY <3>1, SMT DEF FeedInv
  <2>4. CASE UNCHANGED dataVars
    BY <1>1, <2>1, <2>3, <2>4, FeedLine DEF FeedInv, dataVars, Next
  <2>5. CASE /\ PacketReady(Head(line)) /\ reading' = Decode(Packet(Head(line)))
             /\ foundpacket' = TRUE
             /\ unannounced' = IF unannounced = 2 THEN 2 ELSE unannounced + 1
    <3>1. reading' # NoReading
      BY <2>2, <2>5, DecodedIsNew DEF FeedInv
    <3>2. unannounced' \in 0..2 /\ unannounced' > 0
      BY <2>5, SMT DEF FeedInv
    <3> QED BY <1>1, <2>3, <3>1, <3>2, FeedLine DEF FeedInv, Next
  <2> QED BY <1>1, <2>4, <2>5 DEF Interrupt, WONKADataProcess
<1>2. CASE WaitForPacket
  <2>1. foundpacket /\ foundpacket' = FALSE /\ unannounced' = 0 /\ 0 \in 0..2
        /\ UNCHANGED <<xbeebufferindex, reading>>
    BY <1>2, SMT DEF WaitForPacket, xbeeVars, frameVars
  <2> QED BY <1>2, <2>1, FeedLine DEF FeedInv, Next, Main
<1>3. CASE Radio \/ Answer \/ SendCommand \/ ReadAnswer \/ CheckAnswer \/ Enable \/ Disable
  <2>1. /\ UNCHANGED <<xbeebufferindex, foundpacket, unannounced, reading>>
        /\ pc' = "running" => pc = "running"
    BY <1>3 DEF Radio, Answer, SendCommand, ReadAnswer, CheckAnswer, Enable, Disable,
                ReceiveDataSearch, TakeByte, ReleaseByte, xbeeVars, frameVars, dataVars, mainVars
  <2> QED BY <1>3, <2>1, FeedLine DEF FeedInv, Next, Main
<1>4. CASE UNCHANGED vars
  BY <1>4 DEF vars, xbeeVars, frameVars, radioVars, mainVars, dataVars, FeedInv
<1> QED BY <1>1, <1>2, <1>3, <1>4 DEF Next, Main

\* The invariant of the feed.
THEOREM FeedInvariance == Spec => []FeedInv
BY FeedInitial, FeedStep, PTL DEF Spec

\* WaitForPacket never announces the same packet twice, nor one that has not
\* come: a packet has been decoded since it last did.
THEOREM NoPhantoms == Spec => NoPhantomPacket
<1>1. FeedInv /\ [Next]_vars => [WaitForPacket => unannounced > 0]_vars
  BY DEF FeedInv, WaitForPacket
<1> QED BY <1>1, FeedInvariance, PTL DEF Spec, NoPhantomPacket

\* Enable returns only to a program whose globals hold a reading: the zeros they
\* start with are never taken for one.
THEOREM EnabledHasReading == Spec => []EnableMeansReading
<1>1. FeedInv => EnableMeansReading
  BY DEF FeedInv, EnableMeansReading
<1> QED BY <1>1, FeedInvariance, PTL

-------------------------------------------------------------------------------
(* Types, for which neither the order of the bytes nor their looks matter.   *)

HandlerInv ==
    /\ XBeeTypeOK
    /\ xbeestate = "FoundStart" => xbeebufferindex \in 1..PacketSize-1

\* ReceiveDataSearch returns as soon as its buffer is full.
TypeInv == TypeOK /\ HandlerInv /\ (reader # "idle" => i < MaxLength)

LEMMA PacketInByte ==
    ASSUME NEW n \in 1..MaxPackets
    PROVE  PacketBytes(n) \in Seq(Byte) /\ Len(PacketBytes(n)) = PacketSize
<1>1. PacketSize = 9 /\ n \in 0..MaxPackets /\ PayloadChar \in [1..PacketSize-1 -> Char]
  BY WonkaAssumption, SMT
<1>2. ASSUME NEW k \in 0..PacketSize-1 PROVE PacketByte(n, k) \in Byte
  <2>1. (IF k = 0 THEN "0xFF" ELSE PayloadChar[k]) \in Char
    BY <1>1, SMT DEF Char
  <2> QED BY <1>1, <2>1, WonkaAssumption, SMT DEF PacketByte
<1>3. \A k \in 1..PacketSize : k - 1 \in 0..PacketSize-1
  BY <1>1, SMT
<1>4. PacketBytes(n) = [k \in 1..PacketSize |-> PacketByte(n, k-1)]
  BY DEF PacketBytes
<1>5. \A k \in 1..PacketSize : PacketByte(n, k-1) \in Byte
  BY <1>2, <1>3
<1> QED BY <1>1, <1>4, <1>5, SMT

LEMMA ReplyInByte ==
    ASSUME NEW s \in Command
    PROVE  Reply(s, OK) \in Seq(Byte) /\ Reply(s, ERROR) \in Seq(Byte)
<1>1. s \in 0..8 /\ 0 \in 0..MaxPackets /\ PacketSize - 1 = 8
  BY WonkaAssumption, SMT DEF Command
<1>2. \A ch \in Char : <<ch, 0, s>> \in Byte
  BY <1>1, WonkaAssumption, SMT
<1>3. OK \in Seq(Char) /\ ERROR \in Seq(Char)
  BY SMT DEF OK, ERROR, Char
<1>4. ASSUME NEW text \in Seq(Char) PROVE Reply(s, text) \in Seq(Byte)
  <2>1. \A k \in 1..Len(text) : <<text[k], 0, s>> \in Byte
    BY <1>2, SMT
  <2> QED BY <2>1, SMT DEF Reply
<1> QED BY <1>3, <1>4

LEMMA TypeInitial == Init => TypeInv
<1> SUFFICES ASSUME Init PROVE TypeInv
  OBVIOUS
<1>1. XBeeTypeOK
  <2>1. 0 \in 0..PacketSize /\ [k \in 0..BufferSize-1 |-> ZeroByte] \in [0..BufferSize-1 -> Byte]
    BY ByteAssumption, SizeAssumption, SMT
  <2> QED BY <2>1, ByteAssumption, Zenon DEF Init, XBeeInit, XBeeTypeOK, XBeePacketState
<1>2. ReaderTypeOK /\ reader = "idle"
  <2>1. 0 \in 0..MaxLength
    BY ReaderAssumption, SMT
  <2> QED BY <2>1, ByteAssumption, Zenon DEF Init, ReaderInit, ReaderTypeOK
<1>3. line \in Seq(Byte)
  <2>1. PICK k \in 0..PacketSize : line = SubSeq(PacketBytes(1), k + 1, PacketSize)
    BY DEF Init
  <2>2. 1 \in 1..MaxPackets
    BY WonkaAssumption, SMT
  <2> QED BY <2>1, <2>2, PacketInByte, SubSeqFacts
<1>4. /\ sent \in 1..MaxPackets /\ lost \in 0..MaxLost /\ enables \in 0..MaxEnables
      /\ step \in Command /\ unannounced \in 0..2
  BY WonkaAssumption, SMT DEF Init, Command
<1>5. /\ radiomode \in {"data", "command"} /\ commands \in Seq(Command)
      /\ outcome \in [Command -> {"none", "OK", "ERROR"}]
      /\ pc = "initialize"
  BY SMT DEF Init
<1>6. configured \in BOOLEAN /\ enabled \in BOOLEAN /\ foundpacket \in BOOLEAN
  BY Zenon DEF Init
<1>7. xbeestate # "FoundStart"
  BY DEF Init, XBeeInit
<1> QED BY <1>1, <1>2, <1>3, <1>4, <1>5, <1>6, <1>7, Zenon DEF TypeInv, TypeOK, HandlerInv

\* The handler's four ways with a byte: it collects it, it completes a packet with it,
\* it begins one with it, or it waits for another.
LEMMA Handler ==
    ASSUME HandlerInv, NEW c \in Byte, UART0_ISR(c)
    PROVE  /\ HandlerInv'
           /\ xbeestate = "FoundStart" =>
                 \/ /\ ~PacketReady(c) /\ xbeestate' = "FoundStart"
                    /\ xbeebufferindex' = xbeebufferindex + 1
                    /\ xbeebuffer' = [xbeebuffer EXCEPT ![xbeebufferindex] = c]
                 \/ PacketReady(c) /\ xbeestate' = "PacketComplete"
           /\ xbeestate # "FoundStart" =>
                 \/ /\ c \in StartBytes /\ xbeestate' = "FoundStart"
                    /\ xbeebufferindex' = 1 /\ xbeebuffer' = [xbeebuffer EXCEPT ![0] = c]
                 \/ c \notin StartBytes /\ xbeestate' # "FoundStart"
<1>1. xbeebytereceived' \in BOOLEAN /\ xbeebyte' \in Byte
  BY Zenon DEF UART0_ISR
<1>2. CASE xbeestate # "FoundStart" /\ c \in StartBytes /\ StartFrame(c)
  <2>1. 1 \in 0..PacketSize /\ 1 \in 1..PacketSize-1
    BY SizeAssumption, SMT
  <2>2. xbeebuffer' \in [0..BufferSize-1 -> Byte]
    <3>1. xbeebuffer \in [0..BufferSize-1 -> Byte] /\ xbeebuffer' = [xbeebuffer EXCEPT ![0] = c]
      BY <1>2, Zenon DEF StartFrame, HandlerInv, XBeeTypeOK
    <3> QED BY <3>1, Zenon
  <2>3. HandlerInv'
    BY <1>1, <1>2, <2>1, <2>2, Zenon DEF StartFrame, HandlerInv, XBeeTypeOK, XBeePacketState
  <2> QED BY <1>2, <2>3 DEF StartFrame
<1>3. CASE OnFoundStart(c)
  <2>1. xbeebufferindex' \in 0..PacketSize
    BY <1>3, SizeAssumption, SMT DEF OnFoundStart, HandlerInv, XBeeTypeOK
  <2>2. xbeebuffer' \in [0..BufferSize-1 -> Byte]
    <3>1. /\ xbeebuffer \in [0..BufferSize-1 -> Byte]
          /\ xbeebuffer' = [xbeebuffer EXCEPT ![xbeebufferindex] = c]
      BY <1>3, Zenon DEF OnFoundStart, HandlerInv, XBeeTypeOK
    <3> QED BY <3>1, Zenon
  <2>3. CASE PacketReady(c)
    <3>1. xbeestate' = "PacketComplete"
      BY <1>3, <2>3 DEF OnFoundStart
    <3>2. HandlerInv'
      BY <1>1, <2>1, <2>2, <3>1, Zenon DEF HandlerInv, XBeeTypeOK, XBeePacketState
    <3> QED BY <1>3, <2>3, <3>1, <3>2 DEF OnFoundStart
  <2>4. CASE ~PacketReady(c)
    <3>1. xbeestate = "FoundStart" /\ xbeestate' = "FoundStart"
      BY <1>3, <2>4 DEF OnFoundStart
    <3>2. xbeebufferindex' \in 1..PacketSize-1
      BY <1>3, <2>4, SizeAssumption, SMT DEF OnFoundStart, HandlerInv, PacketReady
    <3>3. HandlerInv'
      BY <1>1, <2>1, <2>2, <3>1, <3>2, Zenon DEF HandlerInv, XBeeTypeOK, XBeePacketState
    <3> QED BY <1>3, <2>4, <3>1, <3>3 DEF OnFoundStart
  <2> QED BY <2>3, <2>4
<1>4. CASE /\ xbeestate # "FoundStart" /\ xbeestate' # "FoundStart" /\ c \notin StartBytes
           /\ \/ UNCHANGED frameVars
              \/ xbeestate' = "AwaitingStart" /\ xbeebufferindex' = 0 /\ UNCHANGED xbeebuffer
  <2>1. 0 \in 0..PacketSize
    BY SizeAssumption, SMT
  <2>2. HandlerInv'
    BY <1>1, <1>4, <2>1, Zenon DEF frameVars, HandlerInv, XBeeTypeOK, XBeePacketState
  <2> QED BY <1>4, <2>2
<1> QED BY <1>2, <1>3, <1>4 DEF UART0_ISR, OnAwaitingStart, OnPacketComplete, frameVars

LEMMA TypeInterrupt == ASSUME TypeInv, Interrupt PROVE TypeInv'
<1>1. /\ line # <<>> /\ line' = Tail(line) /\ line \in Seq(Byte) /\ UART0_ISR(Head(line))
      /\ UNCHANGED <<sent, radiomode, commands, outcome, lost, readerVars, mainVars>>
  BY DEF Interrupt, TypeInv, TypeOK
<1>2. Head(line) \in Byte /\ line' \in Seq(Byte)
  BY <1>1, TailFacts
<1>3. HandlerInv'
  BY <1>1, <1>2, Handler DEF TypeInv, TypeOK, HandlerInv
<1>4. enabled' \in BOOLEAN /\ foundpacket' \in BOOLEAN
  BY Zenon DEF Interrupt, WONKADataProcess, dataVars, TypeInv, TypeOK
<1>5. unannounced' \in 0..2
  BY SMT DEF Interrupt, WONKADataProcess, dataVars, TypeInv, TypeOK
<1> QED BY <1>1, <1>2, <1>3, <1>4, <1>5, Zenon DEF TypeInv, TypeOK, HandlerInv, ReaderTypeOK,
      readerVars, mainVars

LEMMA TypeRadio == ASSUME TypeInv, Radio \/ Answer PROVE TypeInv'
<1>1. UNCHANGED <<xbeeVars, readerVars, mainVars, dataVars>>
  BY DEF Radio, Answer
<1>2. line' \in Seq(Byte) /\ sent' \in 1..MaxPackets
  <2>1. CASE PacketSent
    <3>1. line' = PacketBytes(sent') /\ sent' = (sent % MaxPackets) + 1 /\ sent \in Nat
      BY <2>1, WonkaAssumption, SMT DEF PacketSent, TypeInv, TypeOK
    <3>2. sent' \in 1..MaxPackets
      BY <3>1, WonkaAssumption, SMT
    <3> QED BY <3>1, <3>2, PacketInByte
  <2>2. CASE line # <<>> /\ line' = Tail(line) /\ UNCHANGED sent
    BY <2>2, TailFacts DEF TypeInv, TypeOK
  <2>3. ASSUME NEW s \in Command, UNCHANGED sent,
               line' = line \o Reply(s, OK) \/ line' = line \o Reply(s, ERROR)
        PROVE  line' \in Seq(Byte) /\ sent' \in 1..MaxPackets
    <3>1. /\ line \in Seq(Byte) /\ sent \in 1..MaxPackets
          /\ Reply(s, OK) \in Seq(Byte) /\ Reply(s, ERROR) \in Seq(Byte)
      BY ReplyInByte DEF TypeInv, TypeOK
    <3>2. line \o Reply(s, OK) \in Seq(Byte) /\ line \o Reply(s, ERROR) \in Seq(Byte)
      BY <3>1, ConcatFacts
    <3> QED BY <2>3, <3>1, <3>2
  <2>4. CASE UNCHANGED <<line, sent>>
    BY <2>4 DEF TypeInv, TypeOK
  <2> QED BY <2>1, <2>2, <2>3, <2>4 DEF Radio, CommandModeTimeout, ByteLost, Answer, Unanswered,
       AnswerOK, AnswerERROR
<1>3. radiomode' \in {"data", "command"}
  BY DEF Radio, PacketSent, CommandModeTimeout, ByteLost, Answer, Unanswered, AnswerOK,
     AnswerERROR, TypeInv, TypeOK
<1>4. commands' \in Seq(Command)
  <2>1. commands' = commands \/ (commands # <<>> /\ commands' = Tail(commands))
    BY DEF Radio, PacketSent, CommandModeTimeout, ByteLost, Answer, Unanswered, AnswerOK,
       AnswerERROR, Reads
  <2> QED BY <2>1, TailFacts DEF TypeInv, TypeOK
<1>5. outcome' \in [Command -> {"none", "OK", "ERROR"}]
  <2>1. \/ outcome' = outcome
        \/ \E s \in Command : outcome' = [outcome EXCEPT ![s] = "OK"]
        \/ \E s \in Command : outcome' = [outcome EXCEPT ![s] = "ERROR"]
    BY DEF Radio, PacketSent, CommandModeTimeout, ByteLost, Answer, Unanswered, AnswerOK,
       AnswerERROR
  <2> QED BY <2>1, SMT DEF TypeInv, TypeOK
<1>6. lost' \in 0..MaxLost
  <2>1. lost' = lost \/ (lost < MaxLost /\ lost' = lost + 1)
    BY DEF Radio, PacketSent, CommandModeTimeout, ByteLost, Answer, Unanswered, AnswerOK,
       AnswerERROR
  <2> QED BY <2>1, WonkaAssumption, SMT DEF TypeInv, TypeOK
<1> QED BY <1>1, <1>2, <1>3, <1>4, <1>5, <1>6, Zenon DEF TypeInv, TypeOK, HandlerInv, ReaderTypeOK,
      XBeeTypeOK, xbeeVars, frameVars, mailboxVars, readerVars, mainVars, dataVars

LEMMA TypeMain == ASSUME TypeInv, Main PROVE TypeInv'
<1>1. HandlerInv'
  <2>1. /\ UNCHANGED <<frameVars, xbeebyte>>
        /\ xbeebytereceived' = xbeebytereceived \/ xbeebytereceived' = FALSE
    BY Zenon DEF Main, SendCommand, ReadAnswer, TakeByte, ReleaseByte, CheckAnswer, Enable,
       WaitForPacket, Disable, xbeeVars, mailboxVars, frameVars
  <2> QED BY <2>1, Zenon DEF TypeInv, TypeOK, HandlerInv, XBeeTypeOK, frameVars
<1>2. ReaderTypeOK' /\ (reader' # "idle" => i' < MaxLength)
  <2>1. CASE SendCommand
    <3>1. 0 \in 0..MaxLength /\ 0 < MaxLength
      BY ReaderAssumption, SMT
    <3> QED BY <2>1, <3>1, Zenon DEF SendCommand, ReceiveDataSearch, TypeInv, TypeOK, ReaderTypeOK
  <2>2. CASE ReadAnswer /\ TakeByte
    BY <2>2, Zenon DEF TakeByte, TypeInv, TypeOK, ReaderTypeOK, XBeeTypeOK
  <2>3. CASE ReadAnswer /\ ReleaseByte
    <3>1. i \in 0..MaxLength /\ i < MaxLength
      BY <2>3 DEF ReleaseByte, TypeInv, TypeOK, ReaderTypeOK
    <3>2. /\ i' = i \/ i' = i + 1
          /\ reader' \in {"idle", "poll"} /\ (reader' # "idle" => i' # MaxLength)
      BY <2>3 DEF ReleaseByte
    <3>3. i' \in 0..MaxLength /\ (reader' # "idle" => i' < MaxLength)
      BY <3>1, <3>2, ReaderAssumption, SMT
    <3>4. foundfirst' \in BOOLEAN
      BY <2>3, Zenon DEF ReleaseByte, Keeps, TypeInv, TypeOK, ReaderTypeOK
    <3> QED BY <2>3, <3>2, <3>3, <3>4, Zenon DEF ReleaseByte, TypeInv, TypeOK, ReaderTypeOK
  <2>4. CASE UNCHANGED readerVars
    BY <2>4, Zenon DEF readerVars, TypeInv, TypeOK, ReaderTypeOK
  <2> QED BY <2>1, <2>2, <2>3, <2>4 DEF Main, ReadAnswer, CheckAnswer, Enable, WaitForPacket, Disable
<1>3. commands' \in Seq(Command) /\ UNCHANGED <<line, sent, radiomode, outcome, lost>>
  <2>1. \/ UNCHANGED radioVars
        \/ commands' = Append(commands, step) /\ UNCHANGED <<line, sent, radiomode, outcome, lost>>
    BY DEF Main, SendCommand, ReadAnswer, CheckAnswer, Enable, WaitForPacket, Disable
  <2> QED BY <2>1 DEF radioVars, TypeInv, TypeOK
<1>4. step' \in Command
  <2>1. step' = step \/ (step # LastStep /\ step' = step + 1)
    BY DEF Main, SendCommand, ReadAnswer, CheckAnswer, Enable, WaitForPacket, Disable, mainVars
  <2> QED BY <2>1, SMT DEF TypeInv, TypeOK, Command, LastStep
<1>5. enables' \in 0..MaxEnables
  <2>1. enables' = enables \/ (enables < MaxEnables /\ enables' = enables + 1)
    BY DEF Main, SendCommand, ReadAnswer, CheckAnswer, Enable, WaitForPacket, Disable, mainVars
  <2> QED BY <2>1, WonkaAssumption, SMT DEF TypeInv, TypeOK
<1>6. unannounced' \in 0..2
  <2>1. unannounced' = unannounced \/ unannounced' = 0
    BY DEF Main, SendCommand, ReadAnswer, CheckAnswer, Enable, WaitForPacket, Disable, dataVars
  <2> QED BY <2>1, SMT DEF TypeInv, TypeOK
<1>7. /\ pc' \in {"initialize", "answer", "initialized", "wait", "running", "disabled"}
      /\ configured' \in BOOLEAN /\ enabled' \in BOOLEAN /\ foundpacket' \in BOOLEAN
  BY Zenon DEF Main, SendCommand, ReadAnswer, CheckAnswer, Enable, WaitForPacket, Disable, mainVars,
     dataVars, TypeInv, TypeOK
<1> QED BY <1>1, <1>2, <1>3, <1>4, <1>5, <1>6, <1>7, Zenon DEF TypeInv, TypeOK, HandlerInv

LEMMA TypeStutter == ASSUME TypeInv, UNCHANGED vars PROVE TypeInv'
<1>1. /\ UNCHANGED <<xbeestate, xbeebufferindex, xbeebuffer, xbeebytereceived, xbeebyte>>
      /\ UNCHANGED <<reader, i, foundfirst, first, char>>
      /\ UNCHANGED <<line, sent, radiomode, commands, outcome, lost>>
      /\ UNCHANGED <<pc, step, configured, enables, enabled, foundpacket, unannounced>>
  BY Zenon DEF vars, xbeeVars, frameVars, mailboxVars, readerVars, radioVars, mainVars, dataVars
<1>2. XBeeTypeOK' /\ HandlerInv'
  BY <1>1, Zenon DEF TypeInv, HandlerInv, XBeeTypeOK
<1>3. ReaderTypeOK' /\ (reader' # "idle" => i' < MaxLength)
  BY <1>1, Zenon DEF TypeInv, TypeOK, ReaderTypeOK
<1> QED BY <1>1, <1>2, <1>3, Zenon DEF TypeInv, TypeOK

THEOREM TypeInvariance == Spec => []TypeInv
<1>1. TypeInv /\ [Next]_vars => TypeInv'
  BY TypeInterrupt, TypeRadio, TypeMain, TypeStutter DEF Next
<1> QED BY TypeInitial, <1>1, PTL DEF Spec

\* Every variable keeps its type, the driver's index stays within a packet and the
\* reader's within rxbuffer, whatever comes in over the line and however late the
\* mailbox is looked at.
THEOREM TypeCorrect == Spec => []TypeOK
<1>1. TypeInv => TypeOK
  BY DEF TypeInv
<1> QED BY <1>1, TypeInvariance, PTL

-------------------------------------------------------------------------------
(* The feed and the dialogue share the line and the handler.                 *)

FeedByte == {b \in LineByte : FromPacket(b)}
ReplyByte == {b \in LineByte : FromReply(b) /\ b[1] # "0xFF"}

\* The radio module puts no packet behind a reply that is still on the line, and no
\* byte of a reply begins a packet.
LineInv ==
    /\ line \in Seq(FeedByte \cup ReplyByte)
    /\ \A j, k \in 1..Len(line) : j < k /\ line[j] \in ReplyByte => line[k] \in ReplyByte

\* No command is answered before it is sent, nor two at a time.
LaterInv ==
    pc \in {"initialize", "answer"} =>
        /\ \A s \in Command : s > step => outcome[s] = "none"
        /\ pc = "initialize" => outcome[step] = "none"

\* The reader will count the byte in hand, or the one in the mailbox.
Pending ==
    \/ reader = "taken" /\ (foundfirst \/ IsO(char))
    \/ reader = "poll" /\ xbeebytereceived /\ (foundfirst \/ IsO(xbeebyte))

\* In command mode a packet that was cut short takes the bytes of the replies for its
\* own: at least the two that the reader counts of each.
CountInv ==
    radiomode = "command" =>
        /\ pc = "initialize" =>
              /\ line \in Seq(ReplyByte)
              /\ xbeestate = "FoundStart" => xbeebufferindex >= 2 * step - 1
        /\ pc = "answer" =>
              /\ line \notin Seq(ReplyByte) => step = Enter /\ i = 0 /\ ~Pending
              /\ xbeestate = "FoundStart" =>
                    /\ xbeebufferindex >= 2 * step - 1 + i
                    /\ Pending => xbeebufferindex >= 2 * step + i

\* The answer to the last command is on the line, or has been.
LastAnswered ==
    configured \/ (pc = "answer" /\ step = Exit /\ outcome[Exit] # "none")

FrameOfFeed == \A k \in 0..xbeebufferindex-1 : FromPacket(xbeebuffer[k])

\* By then the packet that was cut short is full, so the rest of the last reply falls
\* between two packets.
ExitInv ==
    LastAnswered =>
        /\ commands = <<>>
        /\ line \in Seq(FeedByte) \/ (line \in Seq(ReplyByte) /\ xbeestate # "FoundStart")
        /\ xbeestate = "FoundStart" => FrameOfFeed

UnreadInv ==
    pc \in {"initialize", "answer"} => ~enabled /\ ~configured /\ reading = NoReading

ReadingInv == configured /\ reading # NoReading => \A b \in ReadingBytes : FromPacket(b)

FrameInv == LineInv /\ LaterInv /\ CountInv /\ ExitInv /\ UnreadInv /\ ReadingInv

\* The line holds packet n from offset m on, and then no start byte.
Rest(n, m) ==
    /\ Len(line) >= PacketSize - m
    /\ \A j \in 1..Len(line) :
          IF j <= PacketSize - m THEN line[j] = PacketByte(n, m + j - 1)
                                 ELSE line[j] \notin StartBytes

\* The handler has as much of packet n in its buffer as has left the line, or it is
\* between two packets and all of the packet, or none, is on the line.
InPacket(n, m) ==
    /\ Rest(n, m)
    /\ xbeestate = "FoundStart" =>
          m = xbeebufferindex /\ \A k \in 0..m-1 : xbeebuffer[k] = PacketByte(n, k)
    /\ xbeestate # "FoundStart" => m \in {0, PacketSize}

ReadingIs(n) ==
    /\ reading.x = <<PacketByte(n, 1), PacketByte(n, 2)>>
    /\ reading.y = <<PacketByte(n, 3), PacketByte(n, 4)>>
    /\ reading.heading = <<PacketByte(n, 5), PacketByte(n, 6)>>
    /\ reading.objective = PacketByte(n, 7)
    /\ reading.time = PacketByte(n, 8)

\* On a line that loses nothing the handler is never out of step with the packets.
WholeInv ==
    lost = 0 =>
        /\ \E n \in 1..MaxPackets, m \in 0..PacketSize : InPacket(n, m)
        /\ reading # NoReading => \E n \in 1..MaxPackets : ReadingIs(n)

\* No data byte of a packet looks like the start of one.
NoStartDataByte == \A k \in 1..PacketSize-1 : PayloadChar[k] # "0xFF"

LEMMA PacketInFeed ==
    ASSUME NEW n \in 1..MaxPackets
    PROVE  PacketBytes(n) \in Seq(FeedByte) /\ Len(PacketBytes(n)) = PacketSize
<1>1. /\ PacketSize = 9 /\ PacketBytes(n) \in Seq(LineByte) /\ Len(PacketBytes(n)) = PacketSize
      /\ n > 0
  BY PacketType, WonkaAssumption, SMT
<1>2. \A k \in 1..PacketSize : PacketBytes(n)[k] \in LineByte
  BY <1>1, ElementFacts
<1>3. \A k \in 1..PacketSize : PacketBytes(n)[k] = PacketByte(n, k-1)
  BY DEF PacketBytes
<1>4. \A k \in 1..PacketSize : PacketByte(n, k-1) \in FeedByte
  BY <1>1, <1>2, <1>3 DEF FeedByte, FromPacket, PacketByte
<1>5. PacketBytes(n) = [k \in 1..PacketSize |-> PacketByte(n, k-1)]
  BY DEF PacketBytes
<1> QED BY <1>1, <1>4, <1>5, SMT

LEMMA ReplyBytes ==
    ASSUME NEW s \in Command
    PROVE  Reply(s, OK) \in Seq(ReplyByte) /\ Reply(s, ERROR) \in Seq(ReplyByte)
<1>1. s \in Nat /\ s > 0
  BY SMT DEF Command
<1>2. \A ch \in Char \ {"0xFF"} : <<ch, 0, s>> \in ReplyByte
  BY <1>1, SMT DEF ReplyByte, LineByte, FromReply
<1>3. OK \in Seq(Char \ {"0xFF"}) /\ ERROR \in Seq(Char \ {"0xFF"})
  BY SMT DEF OK, ERROR, Char
<1>4. ASSUME NEW text \in Seq(Char \ {"0xFF"}) PROVE Reply(s, text) \in Seq(ReplyByte)
  <2>1. \A k \in 1..Len(text) : <<text[k], 0, s>> \in ReplyByte
    BY <1>2, SMT
  <2> QED BY <2>1, SMT DEF Reply
<1> QED BY <1>3, <1>4

LEMMA ByteKinds ==
    /\ \A b \in FeedByte : b \notin ReplyByte /\ FromPacket(b) /\ ~FromReply(b)
    /\ \A b \in ReplyByte : b \notin StartBytes /\ FromReply(b)
<1>1. \A b \in FeedByte : FromPacket(b) /\ ~FromReply(b)
  BY SMT DEF FeedByte, LineByte, FromPacket, FromReply
<1>2. \A b \in ReplyByte : b \notin StartBytes /\ FromReply(b)
  BY WonkaAssumption DEF ReplyByte
<1> QED BY <1>1, <1>2 DEF ReplyByte

\* What can happen to the line in one step.
Unchanged == UNCHANGED <<line, sent>>
Shorter == line # <<>> /\ line' = Tail(line) /\ UNCHANGED sent
Replied == \E t \in Seq(ReplyByte) : line' = line \o t /\ UNCHANGED sent
Refilled == line = <<>> /\ sent' \in 1..MaxPackets /\ line' = PacketBytes(sent')

LEMMA LineMoves ==
    ASSUME TypeInv, [Next]_vars
    PROVE  /\ Unchanged \/ Shorter \/ Replied \/ Refilled
           /\ PacketSent => Refilled
           /\ AnswerOK \/ AnswerERROR => Replied
<1>1. PacketSent => Refilled
  <2> SUFFICES ASSUME PacketSent PROVE Refilled
    OBVIOUS
  <2>1. /\ line = <<>> /\ line' = PacketBytes(sent') /\ sent' = (sent % MaxPackets) + 1
        /\ sent \in Nat
    BY WonkaAssumption, SMT DEF PacketSent, TypeInv, TypeOK
  <2>2. sent' \in 1..MaxPackets
    BY <2>1, WonkaAssumption, SMT
  <2> QED BY <2>1, <2>2 DEF Refilled
<1>2. AnswerOK \/ AnswerERROR => Replied
  BY ReplyBytes DEF AnswerOK, AnswerERROR, Replied
<1>3. Next \/ UNCHANGED vars
  OBVIOUS
<1>4. CASE Radio \/ Answer \/ Interrupt
  BY <1>1, <1>2, <1>4 DEF Radio, CommandModeTimeout, ByteLost, Answer, Unanswered, Interrupt,
                          Unchanged, Shorter
<1>5. CASE Main \/ UNCHANGED vars
  BY <1>1, <1>2, <1>5 DEF Main, SendCommand, ReadAnswer, CheckAnswer, Enable, WaitForPacket,
                          Disable, radioVars, vars, Unchanged
<1> QED BY <1>1, <1>2, <1>3, <1>4, <1>5 DEF Next

LEMMA LineSplit ==
    ASSUME LineInv, line # <<>>
    PROVE  /\ Head(line) \in FeedByte \/ (Head(line) \in ReplyByte /\ line \in Seq(ReplyByte))
           /\ Head(line) = line[1]
<1>1. /\ Len(line) \in Nat /\ Len(line) > 0 /\ Head(line) = line[1]
      /\ line[1] \in FeedByte \cup ReplyByte
  BY TailFacts DEF LineInv
<1>2. ASSUME line[1] \in ReplyByte PROVE line \in Seq(ReplyByte)
  <2>1. 1 \in 1..Len(line) /\ \A k \in 1..Len(line) : k = 1 \/ 1 < k
    BY <1>1, SMT
  <2>2. \A k \in 1..Len(line) : line[k] \in ReplyByte
    BY <1>2, <2>1 DEF LineInv
  <2>3. line \in Seq(FeedByte \cup ReplyByte)
    BY DEF LineInv
  <2> QED BY <2>2, <2>3, SMT
<1> QED BY <1>1, <1>2

LEMMA LineStep ==
    ASSUME LineInv, Unchanged \/ Shorter \/ Replied \/ Refilled
    PROVE  LineInv'
<1>1. CASE Unchanged
  BY <1>1 DEF Unchanged, LineInv
<1>2. CASE Shorter
  <2>1. line \in Seq(FeedByte \cup ReplyByte) /\ line # <<>> /\ line' = Tail(line)
    BY <1>2 DEF Shorter, LineInv
  <2>2. /\ line' \in Seq(FeedByte \cup ReplyByte) /\ Len(line') = Len(line) - 1
        /\ Len(line) \in Nat /\ \A j \in 1..Len(line') : line'[j] = line[j+1]
    BY <2>1, TailFacts
  <2>3. ASSUME NEW j \in 1..Len(line'), NEW k \in 1..Len(line'), j < k, line'[j] \in ReplyByte
        PROVE  line'[k] \in ReplyByte
    <3>1. j + 1 \in 1..Len(line) /\ k + 1 \in 1..Len(line) /\ j + 1 < k + 1
      BY <2>2, <2>3, SMT
    <3> QED BY <2>2, <2>3, <3>1 DEF LineInv
  <2> QED BY <2>2, <2>3 DEF LineInv
<1>3. CASE Replied
  <2>1. PICK t \in Seq(ReplyByte) : line' = line \o t
    BY <1>3 DEF Replied
  <2>2. line \in Seq(FeedByte \cup ReplyByte) /\ t \in Seq(FeedByte \cup ReplyByte)
    <3>1. \A k \in 1..Len(t) : t[k] \in FeedByte \cup ReplyByte
      BY <2>1, SMT
    <3> QED BY <3>1, SMT DEF LineInv
  <2>3. /\ line' \in Seq(FeedByte \cup ReplyByte) /\ Len(line') = Len(line) + Len(t)
        /\ \A j \in 1..Len(line) : line'[j] = line[j]
        /\ \A j \in Len(line)+1..Len(line)+Len(t) : line'[j] = t[j - Len(line)]
        /\ Len(line) \in Nat /\ Len(t) \in Nat
    BY <2>1, <2>2, ConcatFacts, SMT
  <2>4. ASSUME NEW j \in 1..Len(line'), NEW k \in 1..Len(line'), j < k, line'[j] \in ReplyByte
        PROVE  line'[k] \in ReplyByte
    <3>1. CASE k <= Len(line)
      <4>1. j \in 1..Len(line) /\ k \in 1..Len(line)
        BY <2>3, <2>4, <3>1, SMT
      <4> QED BY <2>3, <2>4, <4>1 DEF LineInv
    <3>2. CASE ~(k <= Len(line))
      <4>1. k \in Len(line)+1..Len(line)+Len(t) /\ k - Len(line) \in 1..Len(t)
        BY <2>3, <3>2, SMT
      <4>2. t[k - Len(line)] \in ReplyByte
        BY <2>1, <4>1, SMT
      <4> QED BY <2>3, <4>1, <4>2
    <3> QED BY <3>1, <3>2
  <2> QED BY <2>3, <2>4 DEF LineInv
<1>4. CASE Refilled
  <2>1. line' \in Seq(FeedByte)
    BY <1>4, PacketInFeed DEF Refilled
  <2>2. \A k \in 1..Len(line') : line'[k] \in FeedByte
    BY <2>1, SMT
  <2>3. line' \in Seq(FeedByte \cup ReplyByte)
    BY <2>1, <2>2, SMT
  <2> QED BY <2>2, <2>3, ByteKinds DEF LineInv
<1> QED BY <1>1, <1>2, <1>3, <1>4

\* Bytes only leave the line, come in from the radio module, or from the transmitter.
LEMMA LineHolds ==
    ASSUME LineInv
    PROVE  /\ Shorter => \A S \in {FeedByte, ReplyByte} : line \in Seq(S) => line' \in Seq(S)
           /\ Replied /\ line \in Seq(ReplyByte) => line' \in Seq(ReplyByte)
           /\ Refilled => line' \in Seq(FeedByte)
<1>1. Shorter => \A S \in {FeedByte, ReplyByte} : line \in Seq(S) => line' \in Seq(S)
  BY TailFacts DEF Shorter
<1>2. Replied /\ line \in Seq(ReplyByte) => line' \in Seq(ReplyByte)
  BY ConcatFacts DEF Replied
<1> QED BY <1>1, <1>2, PacketInFeed DEF Refilled

-------------------------------------------------------------------------------
LEMMA OneAtATime ==
    ASSUME DialogueInv, NEW s \in Command, Reads(s)
    PROVE  /\ pc # "initialize" /\ commands # <<>>
           /\ pc = "answer" =>
                 /\ commands = <<step>> /\ s = step /\ commands' = <<>>
                 /\ i = 0 /\ ~foundfirst /\ ~Latched /\ ~InHand
<1>1. commands # <<>> /\ s = Head(commands) /\ commands' = Tail(commands)
  BY DEF Reads
<1>2. pc # "initialize"
  BY <1>1 DEF DialogueInv, QuietInv
<1>3. ASSUME pc = "answer"
      PROVE  commands = <<step>> /\ i = 0 /\ ~foundfirst /\ ~Latched /\ ~InHand
  BY <1>1, <1>3, Unfolded DEF NoO
<1>4. commands = <<step>> => Head(commands) = step /\ Tail(commands) = <<>>
  BY SMT
<1> QED BY <1>1, <1>2, <1>3, <1>4

LEMMA LaterStep == ASSUME DialogueInv, LaterInv, [Next]_vars PROVE LaterInv'
<1>1. step \in Command /\ outcome \in [Command -> {"none", "OK", "ERROR"}]
  BY DEF DialogueInv, Types
<1>2. CASE Answer
  <2>1. UNCHANGED <<pc, step>>
    BY <1>2 DEF Answer, mainVars
  <2>2. CASE UNCHANGED outcome
    BY <2>1, <2>2 DEF LaterInv
  <2>3. ASSUME NEW s \in Command, Reads(s), NEW a \in {"OK", "ERROR"},
               outcome' = [outcome EXCEPT ![s] = a]
        PROVE  LaterInv'
    <3>1. pc # "initialize" /\ (pc = "answer" => s = step)
      BY <2>3, OneAtATime
    <3>2. \A r \in Command : r > step => r # step
      BY <1>1, SMT DEF Command
    <3>3. pc = "answer" => \A r \in Command : r > step => outcome'[r] = outcome[r]
      BY <1>1, <2>3, <3>1, <3>2
    <3> QED BY <2>1, <3>1, <3>3 DEF LaterInv
  <2> QED BY <1>2, <2>2, <2>3 DEF Answer, Unanswered, AnswerOK, AnswerERROR
<1>3. CASE CheckAnswer
  <2>1. UNCHANGED outcome /\ pc = "answer"
    BY <1>3 DEF CheckAnswer, radioVars
  <2>2. CASE step # LastStep /\ step' = step + 1 /\ pc' = "initialize"
    <3>1. /\ step' \in Command /\ step' > step
          /\ \A s \in Command : s > step' => s > step
      BY <1>1, <2>2, SMT DEF Command, LastStep
    <3> QED BY <2>1, <2>2, <3>1 DEF LaterInv
  <2>3. CASE pc' = "initialized"
    BY <2>3 DEF LaterInv
  <2> QED BY <1>3, <2>2, <2>3 DEF CheckAnswer
<1>4. CASE Enable \/ WaitForPacket \/ Disable
  BY <1>4 DEF Enable, WaitForPacket, Disable, LaterInv
<1>5. CASE Radio \/ Interrupt \/ SendCommand \/ ReadAnswer \/ UNCHANGED vars
  <2>1. UNCHANGED <<step, outcome>> /\ (UNCHANGED pc \/ (pc = "initialize" /\ pc' = "answer"))
    BY <1>5 DEF Radio, PacketSent, CommandModeTimeout, ByteLost, Interrupt, SendCommand, ReadAnswer,
                vars, mainVars, radioVars
  <2> QED BY <2>1 DEF LaterInv
<1> QED BY <1>2, <1>3, <1>4, <1>5 DEF Next, Main

LEMMA UnreadStep == ASSUME UnreadInv, [Next]_vars PROVE UnreadInv'
<1>1. CASE Interrupt
  BY <1>1 DEF Interrupt, WONKADataProcess, dataVars, mainVars, UnreadInv
<1>2. CASE Enable \/ WaitForPacket \/ Disable
  BY <1>2 DEF Enable, WaitForPacket, Disable, UnreadInv
<1>3. CASE CheckAnswer
  BY <1>3 DEF CheckAnswer, dataVars, UnreadInv
<1>4. CASE Radio \/ Answer \/ SendCommand \/ ReadAnswer \/ UNCHANGED vars
  <2>1. /\ UNCHANGED <<enabled, configured, reading>>
        /\ UNCHANGED pc \/ pc = "initialize"
    BY <1>4 DEF Radio, Answer, SendCommand, ReadAnswer, vars, mainVars, dataVars
  <2> QED BY <2>1 DEF UnreadInv
<1> QED BY <1>1, <1>2, <1>3, <1>4 DEF Next, Main

-------------------------------------------------------------------------------
LEMMA CountRadio == ASSUME LineInv, TypeInv, CountInv, Radio PROVE CountInv'
<1>1. UNCHANGED <<xbeestate, xbeebufferindex, xbeebytereceived, xbeebyte, reader, i, foundfirst,
                  char, pc, step>>
  BY DEF Radio, xbeeVars, frameVars, mailboxVars, readerVars, mainVars
<1>2. radiomode' = "command" => radiomode = "command" /\ Shorter
  BY DEF Radio, PacketSent, CommandModeTimeout, ByteLost, Shorter
<1>3. Shorter /\ line \in Seq(ReplyByte) => line' \in Seq(ReplyByte)
  BY LineHolds
<1>4. Pending' <=> Pending
  BY <1>1 DEF Pending, IsO
<1> QED BY <1>1, <1>2, <1>3, <1>4 DEF CountInv

LEMMA CountAnswer ==
    ASSUME DialogueInv, TypeInv, LineInv, CountInv, Answer PROVE CountInv'
<1>1. UNCHANGED <<xbeestate, xbeebufferindex, xbeebytereceived, xbeebyte, reader, i, foundfirst,
                  char, pc, step>>
  BY DEF Answer, xbeeVars, frameVars, mailboxVars, readerVars, mainVars
<1> SUFFICES ASSUME radiomode' = "command" PROVE CountInv'
  BY DEF CountInv
<1>2. PICK s \in Command : Reads(s) /\ (Entered \/ radiomode = "command") /\ Replied
  BY ReplyBytes DEF Answer, Unanswered, AnswerOK, AnswerERROR, Replied
<1>3. pc # "initialize"
  BY <1>2, OneAtATime
<1>4. ASSUME pc = "answer"
      PROVE  /\ line' \notin Seq(ReplyByte) => step = Enter /\ i = 0 /\ ~Pending'
             /\ xbeestate = "FoundStart" =>
                   /\ xbeebufferindex >= 2 * step - 1 + i
                   /\ Pending' => xbeebufferindex >= 2 * step + i
  <2>1. commands = <<step>> /\ i = 0 /\ ~foundfirst /\ ~Latched /\ ~InHand
    BY <1>2, <1>4, OneAtATime
  <2>2. ~Pending'
    BY <1>1, <2>1 DEF Pending, Latched, InHand, IsO
  <2>3. CASE Entered
    <3>1. step = Enter
      BY <2>1, <2>3, SMT DEF Entered
    <3>2. xbeestate = "FoundStart" => xbeebufferindex >= 2 * step - 1 + i
      BY <2>1, <3>1, SMT DEF TypeInv, HandlerInv, Enter
    <3> QED BY <2>1, <2>2, <3>1, <3>2
  <2>4. CASE radiomode = "command"
    <3>1. line \in Seq(ReplyByte) => line' \in Seq(ReplyByte)
      BY <1>2, LineHolds
    <3> QED BY <1>4, <2>1, <2>2, <2>4, <3>1 DEF CountInv
  <2> QED BY <1>2, <2>3, <2>4
<1> QED BY <1>1, <1>3, <1>4 DEF CountInv

LEMMA CountInterrupt ==
    ASSUME DialogueInv, TypeInv, LineInv, CountInv, Interrupt PROVE CountInv'
<1> DEFINE c == Head(line)
<1>1. /\ line # <<>> /\ line \in Seq(Byte) /\ UART0_ISR(c) /\ Shorter
      /\ xbeebyte' = c /\ xbeebytereceived' = TRUE
      /\ UNCHANGED <<radiomode, reader, i, foundfirst, char, pc, step>>
  BY DEF Interrupt, Shorter, TypeInv, TypeOK, readerVars, mainVars, UART0_ISR
<1>2. c \in Byte
  BY <1>1, TailFacts
<1>3. /\ xbeestate = "FoundStart" /\ xbeestate' = "FoundStart" =>
            xbeebufferindex' = xbeebufferindex + 1
      /\ xbeestate # "FoundStart" /\ xbeestate' = "FoundStart" =>
            c \in StartBytes /\ xbeebufferindex' = 1
  <2>1. HandlerInv
    BY DEF TypeInv
  <2> HIDE DEF c
  <2> QED BY <1>1, <1>2, <2>1, Handler
<1>4. c \in FeedByte \/ (c \in ReplyByte /\ line \in Seq(ReplyByte))
  BY <1>1, LineSplit
<1>5. line \in Seq(ReplyByte) => line' \in Seq(ReplyByte)
  BY <1>1, LineHolds
<1>6. step \in Nat /\ i \in Nat /\ xbeebufferindex \in Nat
  BY SMT DEF DialogueInv, Types, Command, TypeInv, TypeOK, XBeeTypeOK
<1>7. c \in FeedByte /\ pc = "answer" => ~IsO(c)
  <2>1. IsO(c) => OnLine(1) /\ c = line[1]
    BY <1>1, LineShrinks DEF DialogueInv, Shorter
  <2> SUFFICES ASSUME c \in FeedByte, pc = "answer", IsO(c) PROVE FALSE
    OBVIOUS
  <2>2. Current(c)
    BY <2>1, Unfolded
  <2> QED BY <2>2, ByteKinds DEF Current
<1> HIDE DEF c
<1> SUFFICES ASSUME radiomode = "command" PROVE CountInv'
  BY <1>1 DEF CountInv
<1>8. ASSUME pc = "initialize"
      PROVE  /\ line' \in Seq(ReplyByte)
             /\ xbeestate' = "FoundStart" => xbeebufferindex' >= 2 * step - 1
  <2>1. line \in Seq(ReplyByte) /\ (xbeestate = "FoundStart" => xbeebufferindex >= 2 * step - 1)
    BY <1>8 DEF CountInv
  <2>2. c \notin StartBytes
    <3>1. c \in ReplyByte
      <4>1. line[1] \in ReplyByte /\ c = line[1]
        BY <1>1, <2>1, TailFacts DEF c
      <4> QED BY <4>1
    <3> QED BY <3>1, ByteKinds
  <2>3. xbeestate' = "FoundStart" => xbeebufferindex' >= 2 * step - 1
    BY <1>3, <1>6, <2>1, <2>2, SMT
  <2> QED BY <1>5, <2>1, <2>3
<1>9. ASSUME pc = "answer"
      PROVE  /\ line' \notin Seq(ReplyByte) => step = Enter /\ i = 0 /\ ~Pending'
             /\ xbeestate' = "FoundStart" =>
                   /\ xbeebufferindex' >= 2 * step - 1 + i
                   /\ Pending' => xbeebufferindex' >= 2 * step + i
  <2>1. /\ line \notin Seq(ReplyByte) => step = Enter /\ i = 0 /\ ~Pending
        /\ xbeestate = "FoundStart" => xbeebufferindex >= 2 * step - 1 + i
    BY <1>9 DEF CountInv
  <2>2. line \notin Seq(ReplyByte) => c \in FeedByte /\ ~Pending'
    <3> SUFFICES ASSUME line \notin Seq(ReplyByte) PROVE c \in FeedByte /\ ~Pending'
      OBVIOUS
    <3>1. c \in FeedByte /\ ~IsO(c) /\ ~foundfirst /\ ~Pending
      BY <1>4, <1>7, <1>9, <2>1, Unfolded
    <3>2. IsO(xbeebyte)' <=> IsO(c)
      BY <1>1 DEF IsO
    <3>3. IsO(char)' <=> IsO(char)
      BY <1>1 DEF IsO
    <3> QED BY <1>1, <3>1, <3>2, <3>3 DEF Pending
  <2>3. line' \notin Seq(ReplyByte) => step = Enter /\ i = 0 /\ ~Pending'
    BY <1>5, <2>1, <2>2
  <2>4. CASE xbeestate = "FoundStart"
    <3>1. xbeestate' = "FoundStart" => xbeebufferindex' >= 2 * step + i
      BY <1>3, <1>6, <2>1, <2>4, SMT
    <3>2. xbeebufferindex' >= 2 * step + i => xbeebufferindex' >= 2 * step - 1 + i
      BY <1>6, TypeInterrupt, SMT DEF TypeInv, TypeOK, XBeeTypeOK
    <3> QED BY <2>3, <3>1, <3>2
  <2>5. CASE xbeestate # "FoundStart" /\ xbeestate' = "FoundStart"
    <3>1. c \in StartBytes /\ xbeebufferindex' = 1
      BY <1>3, <2>5
    <3>2. c \in FeedByte /\ line \notin Seq(ReplyByte)
      <4>1. c \notin ReplyByte
        BY <3>1, ByteKinds
      <4>2. line \in Seq(ReplyByte) => c \in ReplyByte
        BY <1>1, TailFacts DEF c
      <4> QED BY <1>4, <4>1, <4>2
    <3>3. step = 1 /\ i = 0 /\ ~Pending'
      BY <2>1, <2>2, <3>2 DEF Enter
    <3>4. xbeebufferindex' >= 2 * step - 1 + i
      BY <3>1, <3>3, SMT
    <3> QED BY <2>3, <3>3, <3>4
  <2> QED BY <2>3, <2>4, <2>5
<1> QED BY <1>1, <1>8, <1>9 DEF CountInv

LEMMA CountTake ==
    ASSUME CountInv, TakeByte, UNCHANGED <<radioVars, mainVars>> PROVE CountInv'
<1>1. /\ reader = "poll" /\ xbeebytereceived /\ char' = xbeebyte
      /\ UNCHANGED <<xbeestate, xbeebufferindex, i, foundfirst, radiomode, line, pc, step>>
      /\ reader' = "taken"
  BY DEF TakeByte, xbeeVars, frameVars, radioVars, mainVars
<1>2. Pending' => Pending
  BY <1>1 DEF Pending, IsO
<1> QED BY <1>1, <1>2 DEF CountInv

LEMMA CountRelease ==
    ASSUME DialogueInv, TypeInv, CountInv, ReleaseByte, UNCHANGED <<radioVars, mainVars>>
    PROVE  CountInv'
<1>1. /\ reader = "taken" /\ reader' # "taken" /\ xbeebytereceived' = FALSE
      /\ i' = i \/ (Keeps /\ i' = i + 1)
      /\ UNCHANGED <<xbeestate, xbeebufferindex, radiomode, line, pc, step>>
  BY DEF ReleaseByte, frameVars, radioVars, mainVars
<1>2. ~Pending' /\ (Keeps => Pending)
  BY <1>1, SearchedFor DEF Pending, Keeps
<1>3. pc # "initialize"
  BY <1>1 DEF DialogueInv, QuietInv
<1>4. ASSUME radiomode = "command", pc = "answer"
      PROVE  /\ line \notin Seq(ReplyByte) => step = Enter /\ i' = 0
             /\ xbeestate = "FoundStart" => xbeebufferindex >= 2 * step - 1 + i'
  <2>1. /\ line \notin Seq(ReplyByte) => step = Enter /\ i = 0 /\ ~Pending
        /\ xbeestate = "FoundStart" =>
              /\ xbeebufferindex >= 2 * step - 1 + i
              /\ Pending => xbeebufferindex >= 2 * step + i
    BY <1>4 DEF CountInv
  <2>2. step \in Nat /\ i \in Nat /\ xbeebufferindex \in Nat
    BY SMT DEF DialogueInv, Types, Command, TypeInv, TypeOK, XBeeTypeOK
  <2>3. CASE i' = i
    BY <2>1, <2>3
  <2>4. CASE Keeps /\ i' = i + 1
    <3>1. 2 * step - 1 + i' = 2 * step + i
      BY <2>2, <2>4, SMT
    <3> QED BY <1>2, <2>1, <2>4, <3>1
  <2> QED BY <1>1, <2>3, <2>4
<1> QED BY <1>1, <1>2, <1>3, <1>4 DEF CountInv

LEMMA CountSend == ASSUME DialogueInv, TypeInv, CountInv, SendCommand PROVE CountInv'
<1>1. /\ pc = "initialize" /\ pc' = "answer" /\ i' = 0 /\ foundfirst' = FALSE /\ reader' = "poll"
      /\ UNCHANGED <<xbeestate, xbeebufferindex, xbeebytereceived, xbeebyte, radiomode, line, step>>
  BY DEF SendCommand, ReceiveDataSearch, xbeeVars, frameVars, mailboxVars
<1>2. ~Pending'
  <2>1. ~Latched
    BY <1>1 DEF DialogueInv, QuietInv, NoO
  <2> QED BY <1>1, <2>1 DEF Pending, Latched, IsO
<1>3. ASSUME radiomode = "command"
      PROVE  line \in Seq(ReplyByte) /\
             (xbeestate = "FoundStart" => xbeebufferindex >= 2 * step - 1 + i')
  <2>1. line \in Seq(ReplyByte) /\ (xbeestate = "FoundStart" => xbeebufferindex >= 2 * step - 1)
    BY <1>1, <1>3 DEF CountInv
  <2>2. 2 * step - 1 + i' = 2 * step - 1
    BY <1>1, SMT DEF DialogueInv, Types, Command
  <2> QED BY <2>1, <2>2
<1> QED BY <1>1, <1>2, <1>3 DEF CountInv

LEMMA CountCheck == ASSUME DialogueInv, TypeInv, CountInv, CheckAnswer PROVE CountInv'
<1>1. /\ pc = "answer"
      /\ UNCHANGED <<xbeestate, xbeebufferindex, radiomode, line, i>>
      /\ \/ pc' = "initialize" /\ Accepted /\ step' = step + 1
         \/ pc' = "initialized"
  BY DEF CheckAnswer, xbeeVars, frameVars, radioVars, readerVars
<1>2. ASSUME radiomode = "command", Accepted, step' = step + 1
      PROVE  /\ line \in Seq(ReplyByte)
             /\ xbeestate = "FoundStart" => xbeebufferindex >= 2 * step' - 1
  <2>1. /\ line \notin Seq(ReplyByte) => i = 0
        /\ xbeestate = "FoundStart" => xbeebufferindex >= 2 * step - 1 + i
    BY <1>1, <1>2 DEF CountInv
  <2>2. i >= 2 /\ i \in Nat /\ step \in Nat /\ xbeebufferindex \in Nat
    BY <1>2, SMT DEF Accepted, DialogueInv, Types, Command, TypeInv, TypeOK, XBeeTypeOK
  <2> QED BY <1>2, <2>1, <2>2, SMT
<1> QED BY <1>1, <1>2 DEF CountInv

LEMMA CountStep ==
    ASSUME DialogueInv, TypeInv, LineInv, CountInv, [Next]_vars PROVE CountInv'
<1>1. CASE Enable \/ WaitForPacket \/ Disable
  BY <1>1 DEF Enable, WaitForPacket, Disable, CountInv
<1>2. CASE UNCHANGED vars
  <2>1. /\ UNCHANGED <<xbeestate, xbeebufferindex, xbeebytereceived, xbeebyte, reader, i>>
        /\ UNCHANGED <<foundfirst, char, pc, step, radiomode, line>>
    BY <1>2 DEF vars, xbeeVars, frameVars, mailboxVars, readerVars, radioVars, mainVars
  <2>2. Pending' <=> Pending
    BY <2>1 DEF Pending, IsO
  <2> QED BY <2>1, <2>2 DEF CountInv
<1> QED BY <1>1, <1>2, CountRadio, CountAnswer, CountInterrupt, CountTake, CountRelease, CountSend,
           CountCheck DEF Next, Main, ReadAnswer

-------------------------------------------------------------------------------
LEMMA BufferStored ==
    ASSUME TypeInv, NEW c, NEW k \in 0..PacketSize-1, xbeebuffer' = [xbeebuffer EXCEPT ![k] = c]
    PROVE  \A m \in 0..PacketSize-1 : xbeebuffer'[m] = IF m = k THEN c ELSE xbeebuffer[m]
<1>1. \A m \in 0..PacketSize-1 : m \in 0..BufferSize-1
  BY SizeAssumption, SMT
<1>2. xbeebuffer \in [0..BufferSize-1 -> Byte]
  BY DEF TypeInv, HandlerInv, XBeeTypeOK
<1> QED BY <1>1, <1>2

\* The handler in terms of what leaves the line.
LEMMA FrameStep ==
    ASSUME TypeInv, Interrupt
    PROVE  /\ line # <<>> /\ Shorter /\ Head(line) = line[1]
           /\ xbeestate = "FoundStart" =>
                 /\ xbeebufferindex \in 1..PacketSize-1
                 /\ \/ /\ ~PacketReady(Head(line)) /\ xbeestate' = "FoundStart"
                       /\ xbeebufferindex' = xbeebufferindex + 1
                       /\ xbeebufferindex + 1 \in 1..PacketSize-1
                       /\ \A k \in 0..PacketSize-1 : xbeebuffer'[k] =
                              IF k = xbeebufferindex THEN Head(line) ELSE xbeebuffer[k]
                    \/ /\ PacketReady(Head(line)) /\ xbeestate' = "PacketComplete"
                       /\ xbeebufferindex + 1 = PacketSize
           /\ xbeestate # "FoundStart" =>
                 /\ ~PacketReady(Head(line))
                 /\ \/ /\ Head(line) \in StartBytes /\ xbeestate' = "FoundStart"
                       /\ xbeebufferindex' = 1 /\ xbeebuffer'[0] = Head(line)
                    \/ Head(line) \notin StartBytes /\ xbeestate' # "FoundStart"
<1> DEFINE c == Head(line)
<1>1. line # <<>> /\ line \in Seq(Byte) /\ UART0_ISR(c) /\ Shorter
  BY DEF Interrupt, Shorter, TypeInv, TypeOK
<1>2. c \in Byte /\ c = line[1]
  BY <1>1, TailFacts
<1>3. HandlerInv /\ HandlerInv'
  BY TypeInterrupt DEF TypeInv
<1>4. /\ xbeestate = "FoundStart" =>
            xbeebufferindex \in 1..PacketSize-1 /\ xbeebufferindex \in 0..PacketSize-1
      /\ xbeestate' = "FoundStart" => xbeebufferindex' \in 1..PacketSize-1
      /\ 0 \in 0..PacketSize-1
  BY <1>3, SizeAssumption, SMT DEF HandlerInv
<1>5. PacketReady(c) => xbeestate = "FoundStart" /\ xbeebufferindex + 1 = PacketSize
  BY DEF PacketReady
<1> HIDE DEF c
<1>6. CASE xbeestate = "FoundStart"
  <2>1. CASE /\ ~PacketReady(c) /\ xbeestate' = "FoundStart"
             /\ xbeebufferindex' = xbeebufferindex + 1
             /\ xbeebuffer' = [xbeebuffer EXCEPT ![xbeebufferindex] = c]
    <3>1. \A k \in 0..PacketSize-1 : xbeebuffer'[k] =
             IF k = xbeebufferindex THEN c ELSE xbeebuffer[k]
      BY <1>4, <1>6, <2>1, BufferStored
    <3> QED BY <1>1, <1>2, <1>4, <1>6, <2>1, <3>1 DEF c
  <2>2. CASE PacketReady(c) /\ xbeestate' = "PacketComplete"
    BY <1>1, <1>2, <1>4, <1>5, <1>6, <2>2 DEF c
  <2> QED BY <1>1, <1>2, <1>3, <1>6, <2>1, <2>2, Handler
<1>7. CASE xbeestate # "FoundStart"
  <2>1. CASE /\ c \in StartBytes /\ xbeestate' = "FoundStart"
             /\ xbeebufferindex' = 1 /\ xbeebuffer' = [xbeebuffer EXCEPT ![0] = c]
    <3>1. xbeebuffer'[0] = c
      BY <1>4, <2>1, BufferStored
    <3> QED BY <1>1, <1>2, <1>5, <1>7, <2>1, <3>1 DEF c
  <2>2. CASE c \notin StartBytes /\ xbeestate' # "FoundStart"
    BY <1>1, <1>2, <1>5, <1>7, <2>2 DEF c
  <2> QED BY <1>1, <1>2, <1>3, <1>7, <2>1, <2>2, Handler
<1> QED BY <1>6, <1>7

LEMMA ExitRadio == ASSUME LineInv, TypeInv, ExitInv, Radio PROVE ExitInv'
<1>1. UNCHANGED <<xbeestate, xbeebufferindex, xbeebuffer, configured, pc, step, outcome, commands>>
  BY DEF Radio, PacketSent, CommandModeTimeout, ByteLost, xbeeVars, frameVars, mainVars
<1>2. Unchanged \/ Shorter \/ Refilled
  BY LineMoves DEF Radio, PacketSent, CommandModeTimeout, ByteLost, Unchanged, Shorter, Next
<1>3. (LastAnswered' <=> LastAnswered) /\ (FrameOfFeed' <=> FrameOfFeed)
  BY <1>1 DEF LastAnswered, FrameOfFeed, FromPacket
<1>4. LastAnswered =>
        line' \in Seq(FeedByte) \/ (line' \in Seq(ReplyByte) /\ xbeestate # "FoundStart")
  BY <1>2, LineHolds DEF ExitInv, Unchanged
<1> QED BY <1>1, <1>3, <1>4 DEF ExitInv

LEMMA ExitAnswer ==
    ASSUME DialogueInv, TypeInv, LineInv, CountInv, ExitInv, UnreadInv, Answer PROVE ExitInv'
<1>1. UNCHANGED <<xbeestate, xbeebufferindex, configured, pc, step>>
  BY DEF Answer, xbeeVars, frameVars, mainVars
<1>2. PICK s \in Command : Reads(s) /\ (Unanswered \/ AnswerOK \/ AnswerERROR)
  BY DEF Answer, Unanswered, AnswerOK, AnswerERROR
<1>3. ~LastAnswered
  BY <1>2, OneAtATime DEF ExitInv
<1> SUFFICES ASSUME LastAnswered' PROVE ExitInv'
  BY DEF ExitInv
<1>4. pc = "answer" /\ step = Exit /\ outcome'[Exit] # "none" /\ outcome[Exit] = "none"
  BY <1>1, <1>3 DEF LastAnswered
<1>5. commands = <<step>> /\ commands' = <<>>
  BY <1>2, <1>4, OneAtATime
<1>6. ~Entered
  BY <1>4, <1>5, SMT DEF Entered, Enter, Exit
<1>7. radiomode = "command" /\ Replied
  BY <1>4, <1>6, ReplyBytes DEF Answer, Unanswered, AnswerOK, AnswerERROR, Replied, Answer
<1>8. line' \in Seq(ReplyByte)
  <2>1. line \in Seq(ReplyByte)
    BY <1>4, <1>7 DEF CountInv, Enter, Exit
  <2> QED BY <1>7, <2>1, LineHolds
<1>9. xbeestate # "FoundStart"
  <2> SUFFICES ASSUME xbeestate = "FoundStart" PROVE FALSE
    OBVIOUS
  <2>1. xbeebufferindex >= 2 * step - 1 + i
    BY <1>4, <1>7 DEF CountInv
  <2>2. xbeebufferindex \in 1..PacketSize-1 /\ i \in Nat
    BY DEF TypeInv, HandlerInv, DialogueInv, Types
  <2> QED BY <1>4, <2>1, <2>2, WonkaAssumption, SMT DEF Exit
<1> QED BY <1>1, <1>5, <1>8, <1>9 DEF ExitInv

\* Between two packets only a byte of the feed begins one.
LEMMA ExitInterrupt == ASSUME TypeInv, LineInv, ExitInv, Interrupt PROVE ExitInv'
<1> DEFINE c == Head(line)
<1>1. UNCHANGED <<configured, pc, step, outcome, commands>>
  BY DEF Interrupt, mainVars
<1>2. LastAnswered' <=> LastAnswered
  BY <1>1 DEF LastAnswered
<1> SUFFICES ASSUME LastAnswered PROVE ExitInv'
  BY <1>2 DEF ExitInv
<1>3. /\ line # <<>> /\ Shorter /\ c = line[1]
      /\ xbeestate = "FoundStart" =>
            /\ xbeebufferindex \in 1..PacketSize-1
            /\ xbeestate' = "FoundStart" =>
                  /\ xbeebufferindex' = xbeebufferindex + 1
                  /\ xbeebufferindex + 1 \in 1..PacketSize-1
                  /\ \A k \in 0..PacketSize-1 :
                        xbeebuffer'[k] = IF k = xbeebufferindex THEN c ELSE xbeebuffer[k]
      /\ xbeestate # "FoundStart" =>
            \/ /\ c \in StartBytes /\ xbeestate' = "FoundStart"
               /\ xbeebufferindex' = 1 /\ xbeebuffer'[0] = c
            \/ xbeestate' # "FoundStart"
  BY FrameStep
<1>4. /\ commands = <<>>
      /\ line \in Seq(FeedByte) \/ (line \in Seq(ReplyByte) /\ xbeestate # "FoundStart")
      /\ xbeestate = "FoundStart" => FrameOfFeed
  BY DEF ExitInv
<1> HIDE DEF c
<1>5. CASE line \in Seq(FeedByte)
  <2>1. line' \in Seq(FeedByte)
    BY <1>3, <1>5, LineHolds
  <2>2. FromPacket(c)
    <3>1. line[1] \in FeedByte
      BY <1>3, <1>5, TailFacts
    <3> QED BY <1>3, <3>1, ByteKinds
  <2>3. ASSUME xbeestate' = "FoundStart" PROVE FrameOfFeed'
    <3>1. CASE xbeestate = "FoundStart"
      <4>1. \A k \in 0..xbeebufferindex :
               k \in 0..PacketSize-1 /\ (k # xbeebufferindex => k \in 0..xbeebufferindex-1)
        <5>1. xbeebufferindex \in 1..PacketSize-1 /\ PacketSize \in Nat
          BY <1>3, <3>1, SizeAssumption
        <5> QED BY <5>1, SMT
      <4>2. xbeebufferindex' - 1 = xbeebufferindex
        BY <1>3, <2>3, <3>1, SMT
      <4>3. \A k \in 0..xbeebufferindex : FromPacket(xbeebuffer'[k])
        <5>1. \A k \in 0..PacketSize-1 :
                 xbeebuffer'[k] = IF k = xbeebufferindex THEN c ELSE xbeebuffer[k]
          BY <1>3, <2>3, <3>1
        <5>2. \A k \in 0..xbeebufferindex-1 : FromPacket(xbeebuffer[k])
          BY <1>4, <3>1 DEF FrameOfFeed
        <5> QED BY <2>2, <4>1, <5>1, <5>2
      <4> QED BY <4>2, <4>3 DEF FrameOfFeed, FromPacket
    <3>2. CASE xbeestate # "FoundStart"
      <4>1. xbeebufferindex' = 1 /\ xbeebuffer'[0] = c
        BY <1>3, <2>3, <3>2
      <4>2. \A k \in 0..xbeebufferindex'-1 : k = 0
        BY <4>1, SMT
      <4> QED BY <2>2, <4>1, <4>2 DEF FrameOfFeed, FromPacket
    <3> QED BY <3>1, <3>2
  <2> QED BY <1>1, <1>4, <2>1, <2>3 DEF ExitInv
<1>6. CASE line \in Seq(ReplyByte) /\ xbeestate # "FoundStart"
  <2>1. line' \in Seq(ReplyByte)
    BY <1>3, <1>6, LineHolds
  <2>2. c \notin StartBytes
    <3>1. line[1] \in ReplyByte
      BY <1>3, <1>6, TailFacts
    <3> QED BY <1>3, <3>1, ByteKinds
  <2> QED BY <1>1, <1>3, <1>4, <1>6, <2>1, <2>2 DEF ExitInv
<1> QED BY <1>4, <1>5, <1>6

LEMMA ExitMain ==
    ASSUME DialogueInv, LaterInv, ExitInv, UnreadInv, Main \/ UNCHANGED vars PROVE ExitInv'
<1>1. UNCHANGED <<xbeestate, xbeebufferindex, xbeebuffer, line, outcome>>
  BY DEF Main, SendCommand, ReadAnswer, TakeByte, ReleaseByte, CheckAnswer, Enable, WaitForPacket,
         Disable, vars, xbeeVars, frameVars, radioVars
<1>2. FrameOfFeed' <=> FrameOfFeed
  BY <1>1 DEF FrameOfFeed, FromPacket
<1>3. CASE SendCommand
  <2>1. /\ pc = "initialize" /\ UNCHANGED <<step, configured>>
    BY <1>3 DEF SendCommand
  <2>2. ~configured /\ outcome[step] = "none"
    BY <2>1 DEF UnreadInv, LaterInv
  <2>3. ~LastAnswered'
    BY <1>1, <2>1, <2>2 DEF LastAnswered
  <2> QED BY <2>3 DEF ExitInv
<1>4. CASE CheckAnswer
  <2>1. pc = "answer" /\ UNCHANGED commands /\ pc' # "answer" /\ ~configured
    BY <1>4 DEF CheckAnswer, radioVars, UnreadInv
  <2>2. LastAnswered' => Accepted /\ step = LastStep
    BY <1>4, <2>1, Zenon DEF CheckAnswer, LastAnswered
  <2>3. Accepted => i > 0
    BY SMT DEF Accepted, DialogueInv, Types
  <2>4. LastAnswered' => LastAnswered
    BY <2>1, <2>2, <2>3, Unfolded DEF LastAnswered, LastStep, Exit
  <2> QED BY <1>1, <1>2, <2>1, <2>4 DEF ExitInv
<1>5. CASE ReadAnswer \/ Enable \/ WaitForPacket \/ Disable \/ UNCHANGED vars
  <2>1. UNCHANGED <<configured, step, commands>> /\ (UNCHANGED pc \/ pc' # "answer")
    BY <1>5 DEF ReadAnswer, Enable, WaitForPacket, Disable, vars, mainVars, radioVars
  <2>2. LastAnswered' => LastAnswered
    BY <1>1, <2>1 DEF LastAnswered
  <2> QED BY <1>1, <1>2, <2>1, <2>2 DEF ExitInv
<1> QED BY <1>3, <1>4, <1>5 DEF Main

LEMMA ExitStep ==
    ASSUME DialogueInv, TypeInv, LineInv, LaterInv, CountInv, ExitInv, UnreadInv, [Next]_vars
    PROVE  ExitInv'
BY ExitRadio, ExitAnswer, ExitInterrupt, ExitMain DEF Next

LEMMA DecodedBytes ==
    ASSUME NEW data, reading' = Decode(data), \A k \in 1..8 : FromPacket(data[k])
    PROVE  (\A b \in ReadingBytes : FromPacket(b))'
<1>1. /\ reading'.objective = data[7] /\ reading'.time = data[8]
      /\ reading'.x = <<data[1], data[2]>> /\ reading'.y = <<data[3], data[4]>>
      /\ reading'.heading = <<data[5], data[6]>>
  BY DEF Decode
<1>2. \A n \in 1..2 : n = 1 \/ n = 2
  BY SMT
<1>3. \A f \in {reading'.x, reading'.y, reading'.heading} : \A n \in 1..2 :
         \E k \in 1..8 : f[n] = data[k]
  BY <1>1, <1>2, SMT
<1>4. ReadingBytes' = {reading'.objective, reading'.time} \cup
         {f[n] : f \in {reading'.x, reading'.y, reading'.heading}, n \in 1..2}
  BY DEF ReadingBytes
<1>5. 7 \in 1..8 /\ 8 \in 1..8
  BY SMT
<1>6. \A b \in ReadingBytes' : \E k \in 1..8 : b = data[k]
  BY <1>1, <1>3, <1>4, <1>5
<1> QED BY <1>6 DEF FromPacket

LEMMA ReadingStep ==
    ASSUME TypeInv, LineInv, ExitInv, UnreadInv, ReadingInv, [Next]_vars PROVE ReadingInv'
<1>1. CASE Interrupt /\ PacketReady(Head(line)) /\ enabled
  <2>1. reading' = Decode(Packet(Head(line))) /\ UNCHANGED configured
    BY <1>1 DEF Interrupt, WONKADataProcess, mainVars
  <2> SUFFICES ASSUME configured PROVE (\A b \in ReadingBytes : FromPacket(b))'
    BY <2>1 DEF ReadingInv
  <2>2. xbeestate = "FoundStart" /\ xbeebufferindex = 8 /\ PacketSize = 9 /\ line # <<>>
    BY <1>1, WonkaAssumption, SMT DEF Interrupt, PacketReady, TypeInv, HandlerInv
  <2>3. line \in Seq(FeedByte) /\ FrameOfFeed
    BY <2>2 DEF ExitInv, LastAnswered
  <2>4. FromPacket(Head(line))
    <3>1. Head(line) \in FeedByte
      BY <2>2, <2>3, TailFacts
    <3> QED BY <3>1, ByteKinds
  <2>5. \A k \in 1..8 : FromPacket(Packet(Head(line))[k])
    <3>1. \A k \in 1..8 : k \in 0..PacketSize-1 /\ (k # 8 => k \in 0..xbeebufferindex-1)
      BY <2>2, SMT
    <3> QED BY <2>2, <2>3, <2>4, <3>1 DEF Packet, FrameOfFeed
  <2> QED BY <2>1, <2>5, DecodedBytes
<1>2. CASE CheckAnswer
  <2>1. reading' = NoReading
    BY <1>2 DEF CheckAnswer, dataVars, UnreadInv
  <2> QED BY <2>1 DEF ReadingInv
<1>3. CASE UNCHANGED <<reading, configured>>
  BY <1>3 DEF ReadingInv, ReadingBytes, FromPacket
<1>4. CASE Interrupt /\ ~(PacketReady(Head(line)) /\ enabled)
  BY <1>3, <1>4 DEF Interrupt, WONKADataProcess, mainVars, dataVars
<1>5. CASE Radio \/ Answer \/ SendCommand \/ ReadAnswer \/ Enable \/ WaitForPacket \/ Disable
           \/ UNCHANGED vars
  BY <1>3, <1>5 DEF Radio, Answer, SendCommand, ReadAnswer, Enable, WaitForPacket, Disable, vars,
                    mainVars, dataVars
<1> QED BY <1>1, <1>2, <1>4, <1>5 DEF Next, Main

LEMMA FrameInitial == Init => FrameInv
<1> SUFFICES ASSUME Init PROVE FrameInv
  OBVIOUS
<1>1. /\ radiomode = "data" /\ pc = "initialize" /\ step = 1 /\ configured = FALSE
      /\ enabled = FALSE /\ reading = NoReading /\ outcome = [s \in Command |-> "none"]
  BY DEF Init
<1>2. LineInv
  <2>1. PICK k \in 0..PacketSize : line = SubSeq(PacketBytes(1), k + 1, PacketSize)
    BY DEF Init
  <2>2. 1 \in 1..MaxPackets
    BY WonkaAssumption, SMT
  <2>3. line \in Seq(FeedByte)
    BY <2>1, <2>2, PacketInFeed, SubSeqFacts
  <2>4. \A j \in 1..Len(line) : line[j] \in FeedByte
    BY <2>3, ElementFacts
  <2>5. line \in Seq(FeedByte \cup ReplyByte)
    BY <2>3, <2>4, SMT
  <2> QED BY <2>4, <2>5, ByteKinds DEF LineInv
<1>3. outcome[step] = "none" /\ \A s \in Command : outcome[s] = "none"
  BY <1>1, SMT DEF Command
<1> QED BY <1>1, <1>2, <1>3 DEF FrameInv, LaterInv, CountInv, ExitInv, LastAnswered, UnreadInv,
     ReadingInv

\* The handler's packets and the dialogue of the main program, together.
THEOREM FrameInvariance == NoODataByte /\ Spec => []FrameInv
<1>1. DialogueInv /\ TypeInv /\ FrameInv /\ [Next]_vars => FrameInv'
  <2> SUFFICES ASSUME DialogueInv, TypeInv, FrameInv, [Next]_vars PROVE FrameInv'
    OBVIOUS
  <2>1. LineInv'
    BY LineMoves, LineStep DEF FrameInv
  <2> QED BY <2>1, LaterStep, CountStep, ExitStep, UnreadStep, ReadingStep DEF FrameInv
<1> QED BY <1>1, FrameInitial, Invariance, TypeInvariance, PTL DEF Spec

-------------------------------------------------------------------------------
LEMMA PacketStart == ASSUME NEW n \in 1..MaxPackets PROVE PacketByte(n, 0) \in StartBytes
<1>1. <<"0xFF", n, 0>> \in Char \X (0..MaxPackets) \X (0..PacketSize-1)
  BY WonkaAssumption, SMT DEF Char
<1>2. PacketByte(n, 0) = <<"0xFF", n, 0>>
  BY DEF PacketByte
<1>3. <<"0xFF", n, 0>>[1] = "0xFF"
  BY SMT
<1> QED BY <1>1, <1>2, <1>3, WonkaAssumption

LEMMA RestShorter ==
    ASSUME line \in Seq(Byte), Shorter, NEW n, NEW m \in 0..PacketSize, Rest(n, m)
    PROVE  /\ m # PacketSize => Head(line) = PacketByte(n, m) /\ Rest(n, m+1)'
           /\ m = PacketSize => Head(line) \notin StartBytes /\ Rest(n, m)'
<1>1. /\ Len(line') = Len(line) - 1 /\ Len(line) \in Nat /\ Len(line) > 0 /\ Head(line) = line[1]
      /\ \A j \in 1..Len(line') : line'[j] = line[j+1]
  BY TailFacts DEF Shorter
<1>2. /\ Len(line) >= PacketSize - m /\ PacketSize \in Nat /\ m \in Nat /\ m <= PacketSize
      /\ \A j \in 1..Len(line) :
            IF j <= PacketSize - m THEN line[j] = PacketByte(n, m + j - 1)
                                   ELSE line[j] \notin StartBytes
  BY SizeAssumption, SMT DEF Rest
<1>3. 1 \in 1..Len(line) /\ m + 1 - 1 = m
  BY <1>1, <1>2, SMT
<1>4. \A j \in 1..Len(line') : j + 1 \in 1..Len(line)
  BY <1>1, SMT
<1>5. CASE m # PacketSize
  <2>1. 1 <= PacketSize - m /\ Len(line') >= PacketSize - (m + 1)
    BY <1>1, <1>2, <1>5, SMT
  <2>2. Head(line) = PacketByte(n, m)
    BY <1>1, <1>2, <1>3, <2>1
  <2>3. ASSUME NEW j \in 1..Len(line')
        PROVE  IF j <= PacketSize - (m + 1) THEN line'[j] = PacketByte(n, (m + 1) + j - 1)
                                            ELSE line'[j] \notin StartBytes
    <3>1. /\ j + 1 <= PacketSize - m <=> j <= PacketSize - (m + 1)
          /\ m + (j + 1) - 1 = (m + 1) + j - 1
      BY <1>2, SMT
    <3>2. line'[j] = line[j+1] /\ j + 1 \in 1..Len(line)
      BY <1>1, <1>4
    <3>3. IF j + 1 <= PacketSize - m THEN line[j+1] = PacketByte(n, m + (j + 1) - 1)
                                     ELSE line[j+1] \notin StartBytes
      BY <1>2, <3>2, Zenon
    <3> QED BY <3>1, <3>2, <3>3, Zenon
  <2>4. Rest(n, m+1)'
    BY <2>1, <2>3, Zenon DEF Rest, PacketByte
  <2> QED BY <1>5, <2>2, <2>4
<1>6. CASE m = PacketSize
  <2>1. \A j \in 1..Len(line) : ~(j <= PacketSize - m)
    BY <1>2, <1>6, SMT
  <2>2. \A j \in 1..Len(line) : line[j] \notin StartBytes
    BY <1>2, <2>1, Zenon
  <2>3. \A j \in 1..Len(line') : ~(j <= PacketSize - m) /\ line'[j] \notin StartBytes
    BY <1>1, <1>4, <1>2, <1>6, <2>2, SMT
  <2>4. Len(line') >= PacketSize - m
    BY <1>1, <1>2, <1>6, SMT
  <2> QED BY <1>1, <1>3, <1>6, <2>2, <2>3, <2>4, Zenon DEF Rest
<1> QED BY <1>5, <1>6

LEMMA RestReplied ==
    ASSUME line \in Seq(Byte), Replied, NEW n, NEW m \in 0..PacketSize, Rest(n, m)
    PROVE  Rest(n, m)'
<1>1. PICK t \in Seq(ReplyByte) : line' = line \o t
  BY DEF Replied
<1>2. /\ Len(line') = Len(line) + Len(t) /\ Len(line) \in Nat /\ Len(t) \in Nat
      /\ \A j \in 1..Len(line) : line'[j] = line[j]
      /\ \A j \in Len(line)+1..Len(line)+Len(t) : line'[j] = t[j - Len(line)]
  BY <1>1, SMT
<1>3. Len(line) >= PacketSize - m /\ PacketSize - m \in Nat
  BY SizeAssumption, SMT DEF Rest
<1>4. Len(line') >= PacketSize - m
  BY <1>2, <1>3, SMT
<1>5. ASSUME NEW j \in 1..Len(line')
      PROVE  IF j <= PacketSize - m THEN line'[j] = PacketByte(n, m + j - 1)
                                    ELSE line'[j] \notin StartBytes
  <2>1. CASE j <= Len(line)
    <3>1. j \in 1..Len(line)
      BY <1>2, <2>1, SMT
    <3> QED BY <1>2, <3>1, Zenon DEF Rest
  <2>2. CASE ~(j <= Len(line))
    <3>1. /\ j \in Len(line)+1..Len(line)+Len(t) /\ j - Len(line) \in 1..Len(t)
          /\ ~(j <= PacketSize - m)
      BY <1>2, <1>3, <2>2, SMT
    <3>2. t[j - Len(line)] \in ReplyByte
      BY <3>1, ElementFacts
    <3>3. line'[j] \notin StartBytes
      BY <1>2, <3>1, <3>2, ByteKinds
    <3> QED BY <3>1, <3>3, Zenon
  <2> QED BY <2>1, <2>2
<1> QED BY <1>4, <1>5, Zenon DEF Rest, PacketByte

LEMMA RestRefilled == ASSUME Refilled, NEW n, n = sent' PROVE Rest(n, 0)'
<1>1. /\ n \in 1..MaxPackets /\ line' = PacketBytes(n) /\ PacketSize \in Nat
      /\ Len(line') = PacketSize
  BY PacketInFeed, SizeAssumption DEF Refilled
<1>2. PacketSize - 0 = PacketSize /\ \A j \in 1..PacketSize : j <= PacketSize /\ 0 + j - 1 = j - 1
  BY <1>1, SMT
<1>3. \A j \in 1..PacketSize : line'[j] = PacketByte(n, j - 1)
  BY <1>1 DEF PacketBytes
<1>4. Len(line') >= PacketSize
  BY <1>1, SMT
<1>5. \A j \in 1..PacketSize : IF j <= PacketSize - 0 THEN line'[j] = PacketByte(n, 0 + j - 1)
                                                      ELSE line'[j] \notin StartBytes
  BY <1>2, <1>3, Zenon
<1> QED BY <1>1, <1>2, <1>4, <1>5, Zenon DEF Rest, PacketByte

LEMMA WholeInitial == ASSUME NoStartDataByte, Init PROVE WholeInv
<1>1. xbeestate # "FoundStart" /\ reading = NoReading
  BY DEF Init, XBeeInit
<1>2. PICK k \in 0..PacketSize : line = SubSeq(PacketBytes(1), k + 1, PacketSize)
  BY DEF Init
<1>3. 1 \in 1..MaxPackets /\ PacketSize = 9
  BY WonkaAssumption, SMT
<1>4. /\ PacketBytes(1) \in Seq(FeedByte) /\ Len(PacketBytes(1)) = PacketSize
      /\ \A j \in 1..PacketSize : PacketBytes(1)[j] = PacketByte(1, j-1)
  BY <1>3, PacketInFeed DEF PacketBytes
<1>5. /\ Len(line) = PacketSize - k
      /\ \A j \in 1..PacketSize-k : line[j] = PacketBytes(1)[j+k]
  BY <1>2, <1>4, SubSeqFacts
<1>6. \A j \in 1..PacketSize-k : j + k \in 1..PacketSize /\ line[j] = PacketByte(1, j + k - 1)
  <2> SUFFICES ASSUME NEW j \in 1..PacketSize-k
               PROVE  j + k \in 1..PacketSize /\ line[j] = PacketByte(1, j + k - 1)
    OBVIOUS
  <2>1. j + k \in 1..PacketSize
    BY <1>3, SMT
  <2>2. PacketBytes(1)[j+k] = PacketByte(1, j + k - 1)
    <3>1. \A n \in 1..PacketSize : PacketBytes(1)[n] = PacketByte(1, n-1)
      BY <1>4
    <3> QED BY <2>1, <3>1
  <2>3. line[j] = PacketBytes(1)[j+k]
    BY <1>5, Zenon
  <2> QED BY <2>1, <2>2, <2>3, Zenon
<1>7. CASE k = 0
  <2>1. /\ Len(line) = PacketSize - 0 /\ Len(line) >= PacketSize - 0
        /\ \A j \in 1..Len(line) : j <= PacketSize - 0 /\ j + k - 1 = 0 + j - 1
    BY <1>3, <1>5, <1>7, SMT
  <2>2. \A j \in 1..Len(line) : IF j <= PacketSize - 0 THEN line[j] = PacketByte(1, 0 + j - 1)
                                                       ELSE line[j] \notin StartBytes
    BY <1>5, <1>6, <2>1, Zenon
  <2>3. Rest(1, 0)
    BY <2>1, <2>2, Zenon DEF Rest
  <2>4. 0 \in 0..PacketSize
    BY <1>3, SMT
  <2> QED BY <1>1, <1>3, <2>3, <2>4, Zenon DEF WholeInv, InPacket
<1>8. CASE k # 0
  <2>1. /\ Len(line) >= PacketSize - PacketSize /\ PacketSize \in 0..PacketSize
        /\ \A j \in 1..Len(line) : ~(j <= PacketSize - PacketSize) /\ j \in 1..PacketSize-k
        /\ \A j \in 1..PacketSize-k : j + k - 1 \in 1..PacketSize-1 /\ j + k - 1 # 0
    BY <1>3, <1>5, <1>8, SMT
  <2>2. \A j \in 1..PacketSize-1 : PacketByte(1, j) \notin StartBytes
    <3>1. ASSUME NEW j \in 1..PacketSize-1 PROVE PacketByte(1, j)[1] # "0xFF"
      <4>1. j # 0 /\ PayloadChar[j] # "0xFF"
        BY <1>3, SMT DEF NoStartDataByte
      <4> QED BY <4>1, SMT DEF PacketByte
    <3> QED BY <3>1, WonkaAssumption
  <2>3. \A j \in 1..Len(line) : line[j] \notin StartBytes
    BY <1>6, <2>1, <2>2
  <2>4. Rest(1, PacketSize)
    BY <2>1, <2>3, Zenon DEF Rest
  <2> QED BY <1>1, <1>3, <2>1, <2>4, Zenon DEF WholeInv, InPacket
<1> QED BY <1>7, <1>8

\* The handler takes the byte the packet is at.
LEMMA WholeInterrupt ==
    ASSUME TypeInv, Interrupt,
           NEW n \in 1..MaxPackets, NEW m \in 0..PacketSize, InPacket(n, m)
    PROVE  /\ \E k \in 0..PacketSize : InPacket(n, k)'
           /\ PacketReady(Head(line)) =>
                 \A k \in 0..PacketSize-1 : Packet(Head(line))[k] = PacketByte(n, k)
<1> DEFINE c == Head(line)
<1>1. Rest(n, m) /\ line \in Seq(Byte) /\ Shorter
  BY FrameStep DEF InPacket, TypeInv, TypeOK
<1>2. /\ m # PacketSize => c = PacketByte(n, m) /\ Rest(n, m+1)'
      /\ m = PacketSize => c \notin StartBytes /\ Rest(n, m)'
  BY <1>1, RestShorter
<1>3. PacketSize = 9
  BY WonkaAssumption
<1>4. CASE xbeestate = "FoundStart"
  <2>1. /\ m = xbeebufferindex /\ \A k \in 0..m-1 : xbeebuffer[k] = PacketByte(n, k)
        /\ m \in 1..PacketSize-1
    BY <1>4, FrameStep DEF InPacket
  <2>2. c = PacketByte(n, m) /\ Rest(n, m+1)' /\ m + 1 \in 0..PacketSize
    <3>1. m # PacketSize /\ m + 1 \in 0..PacketSize
      BY <1>3, <2>1, SMT
    <3> QED BY <1>2, <3>1
  <2> HIDE DEF c
  <2>3. CASE /\ ~PacketReady(c) /\ xbeestate' = "FoundStart"
             /\ xbeebufferindex' = xbeebufferindex + 1
             /\ \A k \in 0..PacketSize-1 : xbeebuffer'[k] =
                    IF k = xbeebufferindex THEN c ELSE xbeebuffer[k]
    <3>1. \A k \in 0..(m+1)-1 : k \in 0..PacketSize-1 /\ (k # m => k \in 0..m-1)
      BY <1>3, <2>1, SMT
    <3>2. \A k \in 0..(m+1)-1 : xbeebuffer'[k] = PacketByte(n, k)
      BY <2>1, <2>2, <2>3, <3>1
    <3>3. m + 1 = xbeebufferindex'
      BY <2>1, <2>3
    <3>4. InPacket(n, m+1)'
      BY <2>2, <2>3, <3>2, <3>3, Zenon DEF InPacket, PacketByte
    <3> QED BY <2>2, <2>3, <3>4 DEF c
  <2>4. CASE /\ PacketReady(c) /\ xbeestate' = "PacketComplete"
             /\ xbeebufferindex + 1 = PacketSize
    <3>1. m + 1 = PacketSize /\ PacketSize \in 0..PacketSize
      BY <1>3, <2>1, <2>4, SMT
    <3>2. Rest(n, PacketSize)'
      BY <2>2, <3>1
    <3>3. InPacket(n, PacketSize)'
      BY <2>4, <3>2 DEF InPacket
    <3>4. \A k \in 0..PacketSize-1 : k # m => k \in 0..m-1
      BY <1>3, <2>1, <3>1, SMT
    <3>5. \A k \in 0..PacketSize-1 : Packet(c)[k] = PacketByte(n, k)
      BY <2>1, <2>2, <3>4 DEF Packet
    <3> QED BY <3>1, <3>3, <3>5 DEF c
  <2> QED BY <1>4, <2>3, <2>4, FrameStep DEF c
<1>5. CASE xbeestate # "FoundStart"
  <2>1. m \in {0, PacketSize} /\ ~PacketReady(c)
    BY <1>5, FrameStep DEF InPacket
  <2>2. CASE m = 0
    <3>1. /\ m # PacketSize /\ m + 1 = 1 /\ 1 \in 0..PacketSize
          /\ \A k \in 0..1-1 : k = 0
      BY <1>3, <2>2, SMT
    <3>2. c = PacketByte(n, 0) /\ Rest(n, 1)'
      BY <1>2, <2>2, <3>1
    <3>3. c \in StartBytes
      BY <3>2, PacketStart
    <3>4. xbeestate' = "FoundStart" /\ xbeebufferindex' = 1 /\ xbeebuffer'[0] = c
      BY <1>5, <3>3, FrameStep
    <3>5. \A k \in 0..1-1 : xbeebuffer'[k] = PacketByte(n, k)
      BY <3>1, <3>2, <3>4
    <3>6. InPacket(n, 1)'
      BY <3>2, <3>4, <3>5, Zenon DEF InPacket, PacketByte
    <3> QED BY <2>1, <3>1, <3>6
  <2>3. CASE m = PacketSize
    <3>1. c \notin StartBytes /\ Rest(n, m)'
      BY <1>2, <2>3
    <3>2. xbeestate' # "FoundStart"
      BY <1>5, <3>1, FrameStep
    <3>3. InPacket(n, m)'
      BY <2>1, <3>1, <3>2 DEF InPacket
    <3> QED BY <2>1, <3>3
  <2> QED BY <2>1, <2>2, <2>3
<1> QED BY <1>4, <1>5

LEMMA WholeRefilled ==
    ASSUME TypeInv, Refilled, NEW n, NEW m \in 0..PacketSize, InPacket(n, m),
           UNCHANGED xbeestate
    PROVE  \E k \in 1..MaxPackets : InPacket(k, 0)'
<1>1. PICK k \in 1..MaxPackets : k = sent'
  BY DEF Refilled
<1>2. Rest(k, 0)'
  BY <1>1, RestRefilled
<1>3. xbeestate # "FoundStart"
  <2> SUFFICES ASSUME xbeestate = "FoundStart" PROVE FALSE
    OBVIOUS
  <2>1. m = xbeebufferindex /\ xbeebufferindex \in 1..PacketSize-1
    BY DEF InPacket, TypeInv, HandlerInv
  <2>2. Len(line) = 0 /\ Len(line) >= PacketSize - m
    BY SMT DEF Refilled, InPacket, Rest
  <2> QED BY <2>1, <2>2, WonkaAssumption, SMT
<1> QED BY <1>2, <1>3 DEF InPacket

LEMMA WholeStep ==
    ASSUME TypeInv, WholeInv, [Next]_vars PROVE WholeInv'
<1>1. lost' = 0 => lost = 0 /\ ~ByteLost
  <2>1. lost \in Nat
    BY WonkaAssumption, SMT DEF TypeInv, TypeOK
  <2>2. lost' = lost \/ (ByteLost /\ lost' = lost + 1)
    BY DEF Next, Radio, PacketSent, CommandModeTimeout, ByteLost, Answer, Unanswered, AnswerOK,
           AnswerERROR, Interrupt, Main, SendCommand, ReadAnswer, CheckAnswer, Enable,
           WaitForPacket, Disable, radioVars, vars
  <2> QED BY <2>1, <2>2, SMT DEF ByteLost
<1> SUFFICES ASSUME lost = 0, ~ByteLost
             PROVE  /\ \E n \in 1..MaxPackets, m \in 0..PacketSize : InPacket(n, m)'
                    /\ reading' # NoReading => \E n \in 1..MaxPackets : ReadingIs(n)'
  BY <1>1 DEF WholeInv
<1>2. PICK n \in 1..MaxPackets, m \in 0..PacketSize : InPacket(n, m)
  BY DEF WholeInv
<1>3. reading # NoReading => \E k \in 1..MaxPackets : ReadingIs(k)
  BY DEF WholeInv
<1>4. CASE Interrupt
  <2>1. \E k \in 0..PacketSize : InPacket(n, k)'
    BY <1>2, <1>4, WholeInterrupt
  <2>2. CASE UNCHANGED reading
    BY <1>3, <2>1, <2>2 DEF ReadingIs, PacketByte
  <2>3. CASE PacketReady(Head(line)) /\ reading' = Decode(Packet(Head(line)))
    <3>1. \A k \in 0..PacketSize-1 : Packet(Head(line))[k] = PacketByte(n, k)
      BY <1>2, <1>4, <2>3, WholeInterrupt
    <3>2. \A k \in 1..8 : k \in 0..PacketSize-1
      BY WonkaAssumption, SMT
    <3>3. /\ reading'.x = <<PacketByte(n, 1), PacketByte(n, 2)>>
          /\ reading'.y = <<PacketByte(n, 3), PacketByte(n, 4)>>
          /\ reading'.heading = <<PacketByte(n, 5), PacketByte(n, 6)>>
          /\ reading'.objective = PacketByte(n, 7) /\ reading'.time = PacketByte(n, 8)
      BY <2>3, <3>1, <3>2 DEF Decode
    <3>4. ReadingIs(n)'
      BY <3>3, Zenon DEF ReadingIs, PacketByte
    <3> QED BY <2>1, <3>4
  <2> QED BY <1>4, <2>2, <2>3 DEF Interrupt, WONKADataProcess, dataVars
<1>5. CASE PacketSent /\ Radio
  <2>1. UNCHANGED <<xbeestate, reading>> /\ Refilled
    BY <1>5, LineMoves DEF Radio, xbeeVars, frameVars, dataVars
  <2>2. 0 \in 0..PacketSize
    BY WonkaAssumption, SMT
  <2>3. \E k \in 1..MaxPackets : InPacket(k, 0)'
    BY <1>2, <2>1, WholeRefilled
  <2> QED BY <1>3, <2>1, <2>2, <2>3 DEF ReadingIs, PacketByte
<1>6. CASE UNCHANGED <<xbeestate, xbeebufferindex, xbeebuffer, reading>> /\ (Replied \/ Unchanged)
  <2>1. Rest(n, m) /\ line \in Seq(Byte)
    BY <1>2 DEF InPacket, TypeInv, TypeOK
  <2>2. Rest(n, m)'
    <3>1. CASE Replied
      BY <2>1, <3>1, RestReplied
    <3>2. CASE Unchanged
      BY <2>1, <3>2 DEF Unchanged, Rest, PacketByte
    <3> QED BY <1>6, <3>1, <3>2
  <2>3. InPacket(n, m)'
    BY <1>2, <1>6, <2>2 DEF InPacket, PacketByte
  <2> QED BY <1>3, <1>6, <2>3 DEF ReadingIs, PacketByte
<1>7. CASE Answer \/ (CommandModeTimeout /\ Radio)
  <2>1. UNCHANGED <<xbeestate, xbeebufferindex, xbeebuffer, reading>>
    BY <1>7 DEF Answer, Radio, xbeeVars, frameVars, dataVars
  <2>2. Replied \/ Unchanged
    BY <1>7, ReplyBytes DEF Answer, Unanswered, AnswerOK, AnswerERROR, CommandModeTimeout, Replied,
                            Unchanged
  <2> QED BY <1>6, <2>1, <2>2
<1>8. CASE Main \/ UNCHANGED vars
  <2>1. UNCHANGED <<xbeestate, xbeebufferindex, xbeebuffer, reading>> /\ Unchanged
    BY <1>8 DEF Main, SendCommand, ReadAnswer, TakeByte, ReleaseByte, CheckAnswer, Enable,
                WaitForPacket, Disable, vars, xbeeVars, frameVars, radioVars, dataVars, Unchanged
  <2> QED BY <1>6, <2>1
<1> QED BY <1>4, <1>5, <1>7, <1>8 DEF Next, Radio

\* The framing of the packets on a line that loses nothing.
THEOREM WholeInvariance == NoStartDataByte /\ Spec => []WholeInv
<1>1. NoStartDataByte /\ Init => WholeInv
  BY WholeInitial
<1>2. TypeInv /\ WholeInv /\ [Next]_vars => WholeInv'
  BY WholeStep
<1>3. SUFFICES ASSUME NoStartDataByte PROVE Spec => []WholeInv
  BY <1>3
<1> QED BY <1>1, <1>2, <1>3, TypeInvariance, PTL DEF Spec

\* Where no data byte looks like an O or like a start byte, what the program reads is
\* one packet, each byte in its own field, if the line loses nothing; and whatever is
\* lost or refused, none of it comes from the replies of the radio module once the
\* dialogue has been gone through, for all that they reach the same state machine.
THEOREM ReadsOnePacket ==
    NoODataByte /\ NoStartDataByte /\ Spec => []ReadingIsOnePacket
<1>1. FrameInv /\ WholeInv => ReadingIsOnePacket
  BY DEF FrameInv, ReadingInv, WholeInv, ReadingIs, ReadingIsOnePacket
<1> QED BY <1>1, FrameInvariance, WholeInvariance, PTL
===============================================================================
