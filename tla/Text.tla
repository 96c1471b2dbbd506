--------------------------------- MODULE Text ---------------------------------
(***************************************************************************)
(* The text cursor of the display (src/Libraries/FEHLCD.cpp): where Write,    *)
(* WriteLine and their helpers put the next character.  A string is a         *)
(* sequence of "char" and "\n".                                              *)
(***************************************************************************)
EXTENDS Display, Sequences

CONSTANT Strings  \* what is written

ASSUME StringsAssumption == Strings \subseteq Seq({"char", "\n"})

VARIABLES
    cursor,  \* line, char, and what has become of the text since the last clear
    rest,    \* what is left of the string being written
    ending   \* it is WriteLine that writes it

textVars == <<cursor, rest, ending, orientation>>

\* last is the last cell written, counted along the lines; the display is
\* overwritten when a character goes to a cell that is not after it, and broken
\* when a newline has been written on the last line.
Cleared == [line |-> 0, char |-> 0, last |-> -1, overwritten |-> FALSE, broken |-> FALSE]

TextInit == cursor = Cleared /\ rest = <<>> /\ ending = FALSE /\ orientation = "North"

CheckLine_OneLate(c) == IF c.line > maxlines THEN Cleared ELSE c
CheckLine(c) == IF c.line >= maxlines THEN Cleared ELSE c

NextLine_KeepsChar(c) == IF c.char > 0 THEN [c EXCEPT !.line = @ + 1] ELSE c
NextLine(c) == IF c.char > 0 THEN [c EXCEPT !.line = @ + 1, !.char = 0] ELSE c

NextChar(c) ==
    LET next == [c EXCEPT !.char = @ + 1]
    IN  IF next.char = maxcols THEN CheckLine(NextLine(next)) ELSE next

\* WriteChar and WriteCharAt: a newline moves the cursor, and leaves it to
\* NextChar to move it once more.
WriteChar(c, char) ==
    LET cell == c.line * maxcols + c.char
    IN  IF char = "\n"
        THEN NextLine([CheckLine(c) EXCEPT !.broken = @ \/ (c.line = maxlines - 1 /\ c.char > 0)])
        ELSE [c EXCEPT !.overwritten = @ \/ cell <= c.last, !.last = cell]

-------------------------------------------------------------------------------
Returned == rest = <<>> /\ ~ending

\* Every string begins with CheckLine, even one without a character.
Write ==
    /\ Returned
    /\ rest' \in Strings
    /\ cursor' = CheckLine(cursor)
    /\ UNCHANGED <<ending, orientation>>

\* CheckLine here and in Write.
WriteLine ==
    /\ Returned
    /\ rest' \in Strings /\ ending' = TRUE
    /\ cursor' = CheckLine(CheckLine(cursor))
    /\ UNCHANGED orientation

\* One pass of Write's loop.
PutChar ==
    /\ rest # <<>>
    /\ cursor' = NextChar(WriteChar(cursor, Head(rest)))
    /\ rest' = Tail(rest)
    /\ UNCHANGED <<ending, orientation>>

EndLine ==
    /\ rest = <<>> /\ ending /\ ending' = FALSE
    /\ cursor' = NextLine(cursor)
    /\ UNCHANGED <<rest, orientation>>

Clear == Returned /\ cursor' = Cleared /\ UNCHANGED <<rest, ending, orientation>>

Reorient == Returned /\ SetOrientation /\ cursor' = Cleared /\ UNCHANGED <<rest, ending>>

TextNext == Write \/ WriteLine \/ PutChar \/ EndLine \/ Clear \/ Reorient

TextTypeOK ==
    /\ orientation \in Orientation
    /\ rest \in Seq({"char", "\n"}) /\ ending \in BOOLEAN
    /\ cursor.line \in 0..maxlines + 1 /\ cursor.char \in 0..maxcols - 1

\* Until the display is cleared, every character goes to a cell of the display
\* that is free, although the cursor rests below the last line, and clears the
\* display only when there is more to write; only a newline on the last line
\* makes it write below the display.
TextStaysReadable ==
    /\ ~cursor.overwritten
    /\ ~cursor.broken => cursor.last < maxlines * maxcols
===============================================================================
