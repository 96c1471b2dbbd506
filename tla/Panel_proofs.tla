------------------------------ MODULE Panel_proofs -----------------------------
(***************************************************************************)
(* The region menu for any number of regions, the text cursor for any        *)
(* strings, circles of any radius, shapes made of straight lines, and test     *)
(* motions: each of the programs of Panel with an invariant of its own, which  *)
(* the others leave alone.                                                    *)
(***************************************************************************)
EXTENDS Panel, TLAPS, FiniteSetTheorems

\* A step of the panel is one of its program, and leaves what belongs to the others.
LEMMA Parts ==
    ASSUME [Next]_vars
    PROVE  /\ program' = program
           /\ [StartupNext]_startupVars
           /\ [CircleStep]_circleVars
           /\ [MotionsNext]_motionVars
           /\ program # "circle" => UNCHANGED circleVars
           /\ program = "text" => [TextNext]_textVars
           /\ program # "text" => UNCHANGED <<cursor, rest, ending>>
           /\ program \notin {"text", "lines"} => UNCHANGED orientation
<1>1. CASE StartupStep
  BY <1>1, Zenon DEF StartupStep, textVars
<1>2. CASE TextStep
  BY <1>2, Zenon DEF TextStep
<1>3. CASE DrawStep
  BY <1>3, Zenon DEF DrawStep, textVars
<1>4. CASE LineStep
  BY <1>4, Zenon DEF LineStep
<1>5. CASE MotionStep
  BY <1>5, Zenon DEF MotionStep, textVars
<1>6. CASE UNCHANGED vars
  BY <1>6, Zenon DEF vars, textVars
<1> QED BY <1>1, <1>2, <1>3, <1>4, <1>5, <1>6 DEF Next

-------------------------------------------------------------------------------
\* A button that is down, and whose release the menu is not waiting for, has
\* been pressed since the menu last obeyed it.
FreshInv ==
    /\ stage # "left" /\ "left" \in pressed => "left" \in fresh
    /\ stage # "right" /\ "right" \in pressed => "right" \in fresh

BeforeMenu == stage \in {"battery", "menu_start"} => region = 0

MenuInv == StartupTypeOK /\ FreshInv /\ BeforeMenu

LEMMA Durations ==
    Ticks(100) = 2 /\ Ticks(250) = 5 /\ Ticks(500) = 10 /\ Ticks(1000) = 20
BY SMT DEF Ticks

LEMMA Neighbours ==
    ASSUME NEW letter \in 0..Regions-1
    PROVE  Before(letter) \in 0..Regions-1 /\ After(letter) \in 0..Regions-1
BY RegionsAssumption, SMT DEF Before, After

LEMMA MenuInit == StartupInit => MenuInv
<1> SUFFICES ASSUME StartupInit PROVE MenuInv
  OBVIOUS
<1>1. 0 \in 0..Regions-1 /\ 0 \in 0..Ticks(1000)
  BY RegionsAssumption, Durations, SMT
<1>2. StartupTypeOK
  BY <1>1 DEF StartupInit, StartupTypeOK
<1> QED BY <1>2, SMT DEF StartupInit, MenuInv, FreshInv, BeforeMenu

LEMMA MenuStep == ASSUME MenuInv, StartupNext PROVE MenuInv'
<1> USE DEF MenuInv, FreshInv, BeforeMenu, At
<1>0. 0 \in 0..Regions-1 /\ region \in 0..Regions-1 /\ sleep \in 0..Ticks(1000)
  BY RegionsAssumption, SMT DEF StartupTypeOK
<1>1. CASE OperatorTick
  <2>1. sleep' \in 0..Ticks(1000)
    BY <1>0, <1>1, Durations, SMT DEF OperatorTick
  <2>2. pressed' \subseteq Buttons /\ fresh' \subseteq Buttons /\ lit' \in BOOLEAN
    BY <1>1, Zenon DEF OperatorTick, StartupTypeOK
  <2>3. StartupTypeOK'
    BY <1>1, <2>1, <2>2, Zenon DEF OperatorTick, StartupTypeOK
  <2>4. FreshInv'
    <3>1. stage' = stage /\ fresh' = fresh \cup (pressed' \ pressed)
      BY <1>1 DEF OperatorTick
    <3> QED BY <3>1
  <2> QED BY <1>1, <2>3, <2>4 DEF OperatorTick
<1>2. CASE BatteryPoll
  <2>1. /\ stage = "battery" /\ stage' \in {"battery", "menu_start"}
        /\ sleep' \in 0..Ticks(1000)
        /\ UNCHANGED <<pressed, fresh, region, set_region, lit>>
    BY <1>0, <1>2, Durations, SMT DEF BatteryPoll
  <2> QED BY <2>1, SMT DEF StartupTypeOK
<1>3. CASE MenuStart
  BY <1>0, <1>3, SMT DEF MenuStart, StartupTypeOK
<1>4. CASE MenuPoll
  <2>1. /\ stage = "menu" /\ stage' \in {"selected", "left", "right"}
        /\ region' \in 0..Regions-1 /\ fresh' \subseteq fresh
        /\ stage' = "selected" => set_region' = region' /\ fresh' = fresh
        /\ stage' = "left" => fresh' = fresh \ {"left"}
        /\ stage' = "right" => fresh' = fresh \ {"right"}
        /\ UNCHANGED <<sleep, pressed, lit>>
    BY <1>0, <1>4, Neighbours, SMT DEF MenuPoll, MoveLeft, MoveRight, Configured
  <2> QED BY <1>0, <2>1, SMT DEF StartupTypeOK
<1>5. CASE LeftReleased
  <2>1. sleep' \in 0..Ticks(1000)
    BY <1>5, Durations, SMT DEF LeftReleased
  <2> QED BY <1>0, <1>5, <2>1, SMT DEF LeftReleased, StartupTypeOK
<1>6. CASE MenuRight
  <2>1. /\ stage = "menu_right" /\ stage' \in {"menu", "right"}
        /\ region' \in 0..Regions-1 /\ fresh' \subseteq fresh
        /\ stage' = "menu" => fresh' = fresh
        /\ stage' = "right" => fresh' = fresh \ {"right"}
        /\ UNCHANGED <<sleep, pressed, set_region, lit>>
    BY <1>0, <1>6, Neighbours, SMT DEF MenuRight, MoveRight
  <2> QED BY <1>0, <2>1, SMT DEF StartupTypeOK
<1>7. CASE RightReleased
  <2>1. sleep' \in 0..Ticks(1000)
    BY <1>7, Durations, SMT DEF RightReleased
  <2> QED BY <1>0, <1>7, <2>1, SMT DEF RightReleased, StartupTypeOK
<1>8. CASE MenuEnd
  <2>1. sleep' \in 0..Ticks(1000)
    BY <1>8, Durations, SMT DEF MenuEnd
  <2> QED BY <1>0, <1>8, <2>1, SMT DEF MenuEnd, StartupTypeOK
<1>9. CASE EnableFeed \/ StartMission
  <2>1. sleep' \in 0..Ticks(1000)
    BY <1>0, <1>9, Durations, SMT DEF EnableFeed, StartMission
  <2> QED BY <1>0, <1>9, <2>1, SMT DEF EnableFeed, StartMission, StartupTypeOK
<1> QED BY <1>1, <1>2, <1>3, <1>4, <1>5, <1>6, <1>7, <1>8, <1>9 DEF StartupNext

LEMMA MenuStutter == ASSUME MenuInv, UNCHANGED startupVars PROVE MenuInv'
BY DEF startupVars, MenuInv, StartupTypeOK, FreshInv, BeforeMenu

LEMMA MenuInvariance == Spec => []MenuInv
<1>1. Init => MenuInv
  BY MenuInit DEF Init
<1>2. MenuInv /\ [Next]_vars => MenuInv'
  BY Parts, MenuStep, MenuStutter
<1> QED BY <1>1, <1>2, PTL DEF Spec

\* One press moves the region by one letter, whatever else is pressed meanwhile.
THEOREM PressMovesOnce == Spec => OneMovePerPress
<1>1. ASSUME MenuInv, [StartupNext]_startupVars
      PROVE  [region' # region =>
                \/ "left" \in fresh /\ region' = Before(region)
                \/ "right" \in fresh /\ region' = After(region)]_startupVars
  <2> SUFFICES ASSUME StartupNext, region' # region
               PROVE  \/ "left" \in fresh /\ region' = Before(region)
                      \/ "right" \in fresh /\ region' = After(region)
    BY <1>1
  <2>1. MenuStart \/ MenuPoll \/ MenuRight
    BY DEF StartupNext, OperatorTick, BatteryPoll, LeftReleased, RightReleased, MenuEnd,
           EnableFeed, StartMission
  <2>2. ~MenuStart
    BY <1>1 DEF MenuStart, MenuInv, BeforeMenu, At
  <2>3. CASE MenuPoll
    BY <1>1, <2>3, SMT DEF MenuPoll, MoveLeft, MoveRight, MenuInv, FreshInv, At
  <2>4. CASE MenuRight
    BY <1>1, <2>4, SMT DEF MenuRight, MoveRight, MenuInv, FreshInv, At
  <2> QED BY <2>1, <2>2, <2>3, <2>4
<1>2. MenuInv /\ [Next]_vars =>
        [region' # region =>
           \/ "left" \in fresh /\ region' = Before(region)
           \/ "right" \in fresh /\ region' = After(region)]_startupVars
  BY <1>1, Parts
<1> QED BY <1>2, MenuInvariance, PTL DEF Spec, OneMovePerPress

-------------------------------------------------------------------------------
\* The finger of a press that has stopped a test is still to leave the button
\* before the test returns.
FingerInv ==
    /\ clock \in Nat /\ held \in 0..MaxHold
    /\ stopped => call \in Tests
    /\ obeyed /\ held > 0 => stopped /\ held + clock >= 5

LEMMA FingerStep ==
    ASSUME MaxHold <= 4, FingerInv, [MotionsNext]_motionVars
    PROVE  FingerInv'
<1> USE MotionsAssumption DEF FingerInv
<1>1. CASE StopTest
  BY <1>1, SMT DEF StopTest, Polling, FingerSleep
<1>2. CASE \E fn \in DOMAIN MotionOf : Begin(fn)
  <2>1. PICK fn \in DOMAIN MotionOf : Begin(fn)
    BY <1>2
  <2>2. clock' \in Nat /\ UNCHANGED <<stopped, held, obeyed>> /\ call = "none"
    BY <2>1, SMT DEF Begin
  <2>3. ~stopped
    BY <2>2, SMT DEF Tests
  <2> QED BY <2>2, <2>3
<1>3. CASE EndTimed
  <2>1. call \notin Tests
    BY <1>3 DEF EndTimed, Timed
  <2> QED BY <1>3, <2>1 DEF EndTimed
<1>4. CASE EndTest
  <2>1. ~(obeyed /\ held > 0)
    BY <1>4, SMT DEF EndTest
  <2> QED BY <1>4, <2>1 DEF EndTest
<1>5. CASE Press
  BY <1>5, SMT DEF Press
<1>6. CASE Release
  BY <1>6, SMT DEF Release
<1>7. CASE MotionsTick
  <2>1. obeyed /\ held > 0 => clock > 0
    BY SMT
  <2> QED BY <1>7, <2>1, SMT DEF MotionsTick
<1>8. CASE UNCHANGED motionVars
  BY <1>8 DEF motionVars
<1> QED BY <1>1, <1>2, <1>3, <1>4, <1>5, <1>6, <1>7, <1>8 DEF MotionsNext

\* A finger that leaves the button within 200 ms ends one test motion and no more,
\* whatever motions are called and however long they last.
THEOREM PressEndsOnce == MaxHold <= 4 /\ Spec => OnePressPerTest
<1> SUFFICES ASSUME MaxHold <= 4 PROVE Spec => OnePressPerTest
  OBVIOUS
<1>1. Init => FingerInv
  BY MotionsAssumption, SMT DEF Init, MotionsInit, FingerInv
<1>2. FingerInv /\ [Next]_vars => FingerInv'
  BY Parts, FingerStep
<1>3. ASSUME FingerInv PROVE [StopTest => ~obeyed]_motionVars
  BY <1>3 DEF FingerInv, StopTest, Polling
<1> QED BY <1>1, <1>2, <1>3, PTL DEF Spec, OnePressPerTest

-------------------------------------------------------------------------------
\* The equations of the comments, with the nearest pixel.
CircleInv == CircleTypeOK /\ CircleInvariant

LEMMA CircleInitInv == CircleInit => CircleInv
<1> SUFFICES ASSUME CircleInit PROVE CircleInv
    OBVIOUS
<1>1. radius \in Nat
    BY RadiiAssumption DEF CircleInit
<1> QED
    BY <1>1 DEF CircleInit, CircleInv, circleVars, CircleTypeOK, CircleInvariant, SumsAsCommented, NearestToCircle

\* The squares of the next column and of the next row in.
LEMMA Squares ==
    ASSUME NEW a \in Int, NEW b \in Int
    PROVE  /\ (a + 1) * (a + 1) = a * a + 2 * a + 1
           /\ (b - 1) * (b - 1) = b * b - 2 * b + 1
OBVIOUS

\* A step keeps the sums and the nearness, with one case for each candidate.
LEMMA CircleStepInv == CircleInv /\ CircleStep => CircleInv'
<1> SUFFICES ASSUME CircleInv, CircleStep PROVE CircleInv'
    OBVIOUS
<1> USE DEF CircleInv, CircleInvariant
<1>1. /\ radius \in Nat /\ x \in Nat /\ y \in Nat /\ f \in Int /\ ddF_x \in Int /\ ddF_y \in Int
      /\ x < y /\ x' = x + 1 /\ radius' = radius
    BY DEF CircleStep, CircleTypeOK, circleVars
<1> DEFINE xx == x * x
           yy == y * y
           rr == radius * radius
<1>2. /\ xx \in Int /\ yy \in Int /\ rr \in Int
      /\ x' * x' = xx + 2 * x + 1
      /\ (y - 1) * (y - 1) = yy - 2 * y + 1
      /\ radius' * radius' = rr
    BY <1>1, Squares
<1>3. /\ ddF_x = 2 * x + 1 /\ ddF_y = -2 * y
      /\ f = xx + yy - rr + 2 * x - y + 1
      /\ xx + yy + y >= rr
      /\ x <= y => xx + yy - y <= rr
    BY DEF SumsAsCommented, NearestToCircle
<1> HIDE DEF xx, yy, rr
<1>4. CASE Inwards
    <2>1. /\ y' = y - 1 /\ ddF_y' = ddF_y + 2 /\ ddF_x' = ddF_x + 2
          /\ f' = f + ddF_y' + ddF_x' /\ f >= 0
        BY <1>4 DEF CircleStep, Inwards
    <2>2. y' * y' = yy - 2 * y + 1
        BY <1>2, <2>1
    <2>3. CircleTypeOK'
        BY <1>1, <2>1 DEF CircleTypeOK, circleVars
    <2>4. SumsAsCommented'
        BY <1>1, <1>2, <1>3, <2>1, <2>2 DEF SumsAsCommented
    <2>5. NearestToCircle'
        BY <1>1, <1>2, <1>3, <2>1, <2>2 DEF NearestToCircle
    <2> QED
        BY <2>3, <2>4, <2>5
<1>5. CASE ~Inwards
    <2>1. y' = y /\ ddF_y' = ddF_y /\ ddF_x' = ddF_x + 2 /\ f' = f + ddF_x' /\ ~(f >= 0)
        BY <1>5 DEF CircleStep, Inwards
    <2>2. y' * y' = yy
        BY <2>1 DEF yy
    <2>3. CircleTypeOK'
        BY <1>1, <2>1 DEF CircleTypeOK, circleVars
    <2>4. SumsAsCommented'
        BY <1>1, <1>2, <1>3, <2>1, <2>2 DEF SumsAsCommented
    <2>5. NearestToCircle'
        BY <1>1, <1>2, <1>3, <2>1, <2>2 DEF NearestToCircle
    <2> QED
        BY <2>3, <2>4, <2>5
<1> QED
    BY <1>4, <1>5

LEMMA CircleStutterInv == CircleInv /\ UNCHANGED circleVars => CircleInv'
BY DEF CircleInv, CircleTypeOK, CircleInvariant, SumsAsCommented, NearestToCircle, circleVars


\* For every radius the sums are what the comments of DrawCircle and FillCircle
\* say of them, and every pixel is the nearest to the circle in its column.
THEOREM CircleCorrect == Spec => []CircleAsCommented
<1> DEFINE I == program = "circle" => CircleInv
<1>1. Init => I
  BY CircleInitInv DEF Init
<1>2. I /\ [Next]_vars => I'
  BY Parts, CircleStepInv, CircleStutterInv
<1>3. I => CircleAsCommented
  BY DEF CircleInv, CircleAsCommented
<1> QED BY <1>1, <1>2, <1>3, PTL DEF Spec

-------------------------------------------------------------------------------
\* The cells before the cursor are the ones that may hold a character.  While a
\* string is being written the cursor is on the display, unless a newline on the
\* last line has taken it below; between strings it may rest there.
CursorType == [line : Int, char : Int, last : Int, overwritten : BOOLEAN, broken : BOOLEAN]

\* The four ways to move a cursor, each with what it makes of the fields.
Advanced(c) == [c EXCEPT !.char = @ + 1]
OnNewLine(c) == [c EXCEPT !.line = @ + 1, !.char = 0]
Broken(c, b) == [c EXCEPT !.broken = @ \/ b]
Filling(c, cell, o) == [c EXCEPT !.overwritten = @ \/ o, !.last = cell]

LEMMA AdvancedFields ==
    ASSUME NEW c \in CursorType
    PROVE  /\ Advanced(c) \in CursorType
           /\ Advanced(c).line = c.line /\ Advanced(c).char = c.char + 1
           /\ Advanced(c).last = c.last
           /\ Advanced(c).overwritten = c.overwritten /\ Advanced(c).broken = c.broken
<1>1. /\ Advanced(c) \in CursorType
      /\ Advanced(c).line = c.line /\ Advanced(c).char = c.char + 1
      /\ Advanced(c).last = c.last
  BY SMT DEF CursorType, Advanced
<1>2. Advanced(c).overwritten = c.overwritten /\ Advanced(c).broken = c.broken
  BY Zenon DEF CursorType, Advanced
<1> QED BY <1>1, <1>2

LEMMA OnNewLineFields ==
    ASSUME NEW c \in CursorType
    PROVE  /\ OnNewLine(c) \in CursorType
           /\ OnNewLine(c).line = c.line + 1 /\ OnNewLine(c).char = 0
           /\ OnNewLine(c).last = c.last
           /\ OnNewLine(c).overwritten = c.overwritten /\ OnNewLine(c).broken = c.broken
<1> DEFINE d == [c EXCEPT !.line = @ + 1]
<1>1. d \in CursorType
  BY SMT DEF CursorType
<1>2. OnNewLine(c) = [d EXCEPT !.char = 0]
  BY DEF OnNewLine
<1> HIDE DEF d
<1>3. [d EXCEPT !.char = 0] \in CursorType
  BY <1>1, SMT DEF CursorType
<1>4. /\ OnNewLine(c).line = c.line + 1 /\ OnNewLine(c).char = 0
      /\ OnNewLine(c).last = c.last
  BY SMT DEF CursorType, OnNewLine
<1>5. OnNewLine(c).overwritten = c.overwritten /\ OnNewLine(c).broken = c.broken
  BY Zenon DEF CursorType, OnNewLine
<1> QED BY <1>2, <1>3, <1>4, <1>5

LEMMA BrokenFields ==
    ASSUME NEW c \in CursorType, NEW b \in BOOLEAN
    PROVE  /\ Broken(c, b) \in CursorType
           /\ Broken(c, b).line = c.line /\ Broken(c, b).char = c.char
           /\ Broken(c, b).last = c.last
           /\ Broken(c, b).overwritten = c.overwritten
           /\ Broken(c, b).broken = (c.broken \/ b)
<1>1. c.broken \/ b \in BOOLEAN
  OBVIOUS
<1>2. Broken(c, b) \in CursorType
  BY <1>1, Zenon DEF CursorType, Broken
<1>3. /\ Broken(c, b).line = c.line /\ Broken(c, b).char = c.char
      /\ Broken(c, b).last = c.last
  BY SMT DEF CursorType, Broken
<1>4. /\ Broken(c, b).overwritten = c.overwritten
      /\ Broken(c, b).broken = (c.broken \/ b)
  BY Zenon DEF CursorType, Broken
<1> QED BY <1>2, <1>3, <1>4

LEMMA FillingFields ==
    ASSUME NEW c \in CursorType, NEW cell \in Int, NEW o \in BOOLEAN
    PROVE  /\ Filling(c, cell, o) \in CursorType
           /\ Filling(c, cell, o).line = c.line /\ Filling(c, cell, o).char = c.char
           /\ Filling(c, cell, o).last = cell
           /\ Filling(c, cell, o).overwritten = (c.overwritten \/ o)
           /\ Filling(c, cell, o).broken = c.broken
<1> DEFINE d == [c EXCEPT !.overwritten = @ \/ o]
<1>1. d \in CursorType
  BY Zenon DEF CursorType
<1>2. Filling(c, cell, o) = [d EXCEPT !.last = cell]
  BY DEF Filling
<1> HIDE DEF d
<1>3. [d EXCEPT !.last = cell] \in CursorType
  BY <1>1, SMT DEF CursorType
<1>4. /\ Filling(c, cell, o).line = c.line /\ Filling(c, cell, o).char = c.char
      /\ Filling(c, cell, o).last = cell
  BY SMT DEF CursorType, Filling
<1>5. /\ Filling(c, cell, o).overwritten = (c.overwritten \/ o)
      /\ Filling(c, cell, o).broken = c.broken
  BY Zenon DEF CursorType, Filling
<1> QED BY <1>2, <1>3, <1>4, <1>5

OnDisplay(c) ==
    /\ c \in CursorType /\ c.last \in Int
    /\ c.line \in 0..maxlines /\ c.char \in 0..maxcols - 1
    /\ c.last < c.line * maxcols + c.char
    /\ ~c.overwritten
    /\ ~c.broken => c.line < maxlines

Resting(c) ==
    /\ c \in CursorType /\ c.last \in Int
    /\ c.line \in 0..maxlines + 1 /\ c.char \in 0..maxcols - 1
    /\ c.last < c.line * maxcols + c.char
    /\ ~c.overwritten
    /\ ~c.broken => c.last < maxlines * maxcols
    /\ c.line > maxlines => c.char = 0

TextInv ==
    /\ orientation \in Orientation
    /\ rest \in Seq({"char", "\n"}) /\ ending \in BOOLEAN
    /\ IF Returned THEN Resting(cursor) ELSE OnDisplay(cursor)

LEMMA Extents ==
    ASSUME orientation \in Orientation
    PROVE  \/ maxlines = 18 /\ maxcols = 19
           \/ maxlines = 14 /\ maxcols = 26
BY DEF maxlines, maxcols

LEMMA ClearedRests == ASSUME orientation \in Orientation PROVE OnDisplay(Cleared)
BY Extents, SMT DEF Cleared, OnDisplay, CursorType

LEMMA DisplayRests ==
    ASSUME orientation \in Orientation, NEW c, OnDisplay(c)
    PROVE  Resting(c)
BY Extents, SMT DEF OnDisplay, Resting, CursorType

LEMMA Checked ==
    ASSUME orientation \in Orientation, NEW c, Resting(c)
    PROVE  OnDisplay(CheckLine(c))
<1>1. CASE c.line >= maxlines
  BY <1>1, ClearedRests DEF CheckLine
<1>2. CASE ~(c.line >= maxlines)
  <2>1. CheckLine(c) = c
    BY <1>2 DEF CheckLine
  <2>2. OnDisplay(c)
    BY <1>2, Extents, SMT DEF OnDisplay, Resting, CursorType
  <2> QED BY <2>1, <2>2
<1> QED BY <1>1, <1>2

LEMMA Ended ==
    ASSUME orientation \in Orientation, NEW c, OnDisplay(c)
    PROVE  Resting(NextLine(c))
<1>1. CASE c.char > 0
  <2>1. c \in CursorType /\ NextLine(c) = OnNewLine(c)
    BY <1>1 DEF NextLine, OnNewLine, OnDisplay
  <2> QED BY <2>1, OnNewLineFields, Extents, SMT DEF OnDisplay, Resting
<1>2. CASE ~(c.char > 0)
  <2>1. NextLine(c) = c
    BY <1>2 DEF NextLine
  <2> QED BY <2>1, DisplayRests
<1> QED BY <1>1, <1>2

\* What WriteChar leaves for NextChar to move on: the cell under the cursor may be
\* the last one written.
Put(c) ==
    /\ c \in CursorType /\ c.last \in Int
    /\ c.line \in 0..maxlines /\ c.char \in 0..maxcols - 1
    /\ c.last <= c.line * maxcols + c.char
    /\ ~c.overwritten
    /\ ~c.broken => c.line < maxlines

LEMMA PuttingNewline ==
    ASSUME orientation \in Orientation, NEW c, OnDisplay(c)
    PROVE  Put(WriteChar(c, "\n"))
<1> DEFINE below == c.line = maxlines - 1 /\ c.char > 0
<1>1. below \in BOOLEAN /\ c \in CursorType
  BY DEF OnDisplay
<1>2. WriteChar(c, "\n") = NextLine(Broken(CheckLine(c), below))
  BY DEF WriteChar, Broken
<1>3. CASE c.line = maxlines
  <2>1. CheckLine(c) = Cleared
    BY <1>3, Extents, SMT DEF CheckLine, OnDisplay
  <2>2. Cleared \in CursorType
    BY SMT DEF Cleared, CursorType
  <2>3. below = FALSE
    BY <1>3, Extents, SMT
  <2> DEFINE b == Broken(Cleared, FALSE)
  <2>4. /\ b \in CursorType /\ b.line = Cleared.line /\ b.char = Cleared.char
        /\ b.last = Cleared.last /\ b.overwritten = Cleared.overwritten
    BY <2>2, BrokenFields, Zenon
  <2>5. WriteChar(c, "\n") = NextLine(b)
    BY <1>2, <2>1, <2>3
  <2> HIDE DEF b
  <2>6. /\ b.line = 0 /\ b.char = 0 /\ b.last = -1 /\ b.last \in Int
        /\ ~b.overwritten
    BY <2>4, SMT DEF Cleared
  <2>7. NextLine(b) = b
    BY <2>6, SMT DEF NextLine
  <2>8. Put(b)
    BY <2>4, <2>6, Extents, SMT DEF Put
  <2> QED BY <2>5, <2>7, <2>8
<1>4. CASE c.line # maxlines
  <2> DEFINE b == Broken(c, below)
  <2>1. WriteChar(c, "\n") = NextLine(b)
    BY <1>2, <1>4, Extents, SMT DEF CheckLine, OnDisplay
  <2>2. /\ b \in CursorType /\ b.line = c.line /\ b.char = c.char /\ b.last = c.last
        /\ b.overwritten = c.overwritten /\ b.broken = (c.broken \/ below)
    BY <1>1, BrokenFields
  <2> HIDE DEF b
  <2>3. CASE c.char > 0
    <3>1. NextLine(b) = OnNewLine(b)
      BY <2>2, <2>3 DEF NextLine, OnNewLine
    <3> DEFINE e == OnNewLine(b)
    <3>2. /\ e \in CursorType /\ e.line = b.line + 1 /\ e.char = 0 /\ e.last = b.last
          /\ e.overwritten = b.overwritten /\ e.broken = b.broken
      BY <2>2, OnNewLineFields
    <3>3. ~e.broken => ~c.broken /\ c.line # maxlines - 1
      BY <2>2, <2>3, <3>2
    <3> HIDE DEF e, below
    <3>4. Put(e)
      BY <1>4, <2>2, <3>2, <3>3, Extents, SMT DEF Put, OnDisplay
    <3> QED BY <2>1, <3>1, <3>4 DEF e
  <2>4. CASE ~(c.char > 0)
    <3>1. NextLine(b) = b
      BY <2>2, <2>4 DEF NextLine
    <3> QED BY <1>4, <2>1, <2>2, <2>4, <3>1, Extents, SMT DEF Put, OnDisplay
  <2> QED BY <2>3, <2>4
<1> QED BY <1>3, <1>4

LEMMA Putting ==
    ASSUME orientation \in Orientation, NEW c, OnDisplay(c), NEW char
    PROVE  Put(WriteChar(c, char))
<1>1. CASE char = "\n"
  BY <1>1, PuttingNewline
<1>2. CASE char # "\n"
  <2> DEFINE cell == c.line * maxcols + c.char
             o == cell <= c.last
  <2>1. cell \in Int /\ c \in CursorType /\ ~o /\ o \in BOOLEAN
    BY Extents, SMT DEF OnDisplay, CursorType
  <2>2. WriteChar(c, char) = Filling(c, cell, o)
    BY <1>2 DEF WriteChar, Filling
  <2> HIDE DEF cell, o
  <2> DEFINE d == Filling(c, cell, o)
  <2>3. /\ d \in CursorType /\ d.line = c.line /\ d.char = c.char /\ d.last = cell
        /\ d.overwritten = (c.overwritten \/ o) /\ d.broken = c.broken
    <3>1. cell \in Int /\ c \in CursorType /\ o \in BOOLEAN
      BY <2>1
    <3>2. d \in CursorType /\ d.line = c.line /\ d.char = c.char /\ d.last = cell
      BY <3>1, FillingFields
    <3>3. d.overwritten = (c.overwritten \/ o) /\ d.broken = c.broken
      BY <3>1, FillingFields
    <3> HIDE DEF d
    <3> QED BY <3>2, <3>3
  <2>4. ~d.overwritten
    BY <2>1, <2>3, Zenon DEF OnDisplay
  <2> HIDE DEF d
  <2>5. d.last = c.line * maxcols + c.char
    BY <2>3 DEF cell
  <2>6. Put(d)
    BY <2>1, <2>3, <2>4, <2>5, SMT DEF Put, OnDisplay
  <2> QED BY <2>2, <2>6 DEF d
<1> QED BY <1>1, <1>2

LEMMA MovingOn ==
    ASSUME orientation \in Orientation, NEW c, Put(c)
    PROVE  OnDisplay(NextChar(c))
<1> DEFINE d == Advanced(c)
           e == OnNewLine(d)
<1>1. /\ d \in CursorType /\ d.line = c.line /\ d.char = c.char + 1 /\ d.last = c.last
      /\ d.overwritten = c.overwritten /\ d.broken = c.broken
  BY AdvancedFields DEF Put
<1>2. /\ e \in CursorType /\ e.line = d.line + 1 /\ e.char = 0 /\ e.last = d.last
      /\ e.overwritten = d.overwritten /\ e.broken = d.broken
  BY <1>1, OnNewLineFields
<1>3. NextChar(c) = IF d.char = maxcols THEN CheckLine(NextLine(d)) ELSE d
  BY DEF NextChar, Advanced
<1>4. NextLine(d) = IF d.char > 0 THEN e ELSE d
  BY DEF NextLine, OnNewLine
<1> HIDE DEF d, e
<1>5. CASE d.char # maxcols
  BY <1>1, <1>3, <1>5, Extents, SMT DEF Put, OnDisplay
<1>6. CASE d.char = maxcols
  <2>1. NextChar(c) = CheckLine(e)
    BY <1>3, <1>4, <1>6, Extents, SMT
  <2>2. CASE e.line >= maxlines
    BY <2>1, <2>2, ClearedRests DEF CheckLine
  <2>3. CASE ~(e.line >= maxlines)
    BY <1>1, <1>2, <1>6, <2>1, <2>3, Extents, SMT DEF Put, OnDisplay, CheckLine
  <2> QED BY <2>2, <2>3
<1> QED BY <1>5, <1>6

\* A cursor of this orientation is one of the next step's, if that keeps it.
LEMMA SameDisplay ==
    ASSUME UNCHANGED orientation
    PROVE  /\ Resting(cursor') => Resting(cursor)'
           /\ OnDisplay(cursor') => OnDisplay(cursor)'
<1>1. maxlines' = maxlines /\ maxcols' = maxcols
  BY DEF maxlines, maxcols, Upended
<1> QED BY <1>1, Zenon DEF Resting, OnDisplay

LEMMA ClearedInv ==
    ASSUME TextInv, Returned, orientation' \in Orientation, cursor' = Cleared,
           UNCHANGED <<rest, ending>>
    PROVE  TextInv'
<1>1. \/ maxlines' = 18 /\ maxcols' = 19
      \/ maxlines' = 14 /\ maxcols' = 26
  BY SMT DEF maxlines, maxcols
<1>2. Resting(cursor)'
  BY <1>1, SMT DEF Resting, Cleared, CursorType
<1> QED BY <1>2, SMT DEF TextInv, Returned

LEMMA TextStepInv == ASSUME TextInv, TextNext PROVE TextInv'
<1>0. /\ orientation \in Orientation
      /\ rest \in Seq({"char", "\n"}) /\ ending \in BOOLEAN
      /\ Returned => Resting(cursor)
      /\ ~Returned => OnDisplay(cursor)
  BY Zenon DEF TextInv
<1>1. ASSUME UNCHANGED orientation, OnDisplay(cursor'),
             rest' \in Seq({"char", "\n"}), ending' \in BOOLEAN
      PROVE  TextInv'
  <2>1. Resting(cursor)' /\ OnDisplay(cursor)'
    BY <1>0, <1>1, DisplayRests, SameDisplay
  <2> QED BY <1>0, <1>1, <2>1 DEF TextInv
<1>2. CASE Write
  BY <1>0, <1>1, <1>2, StringsAssumption, Checked DEF Write
<1>3. CASE WriteLine
  BY <1>0, <1>1, <1>3, StringsAssumption, Checked, DisplayRests DEF WriteLine
<1>4. CASE PutChar
  <2>1. OnDisplay(cursor) /\ rest' \in Seq({"char", "\n"})
    BY <1>0, <1>4 DEF PutChar, Returned
  <2> QED BY <1>0, <1>1, <1>4, <2>1, Putting, MovingOn DEF PutChar
<1>5. CASE EndLine
  <2>1. Resting(cursor')
    BY <1>0, <1>5, Ended DEF EndLine, Returned
  <2>2. Resting(cursor)'
    BY <1>5, <2>1, SameDisplay DEF EndLine
  <2> QED BY <1>0, <1>5, <2>2 DEF EndLine, TextInv, Returned
<1>6. CASE Clear
  BY <1>0, <1>6, ClearedInv DEF Clear
<1>7. CASE Reorient
  BY <1>0, <1>7, ClearedInv DEF Reorient, SetOrientation
<1> QED BY <1>2, <1>3, <1>4, <1>5, <1>6, <1>7 DEF TextNext

\* Every program leaves the display in one of its orientations.
LEMMA OrientationType ==
    ASSUME orientation \in Orientation, [Next]_vars
    PROVE  orientation' \in Orientation
<1>1. CASE TextStep
  BY <1>1 DEF TextStep, TextNext, Write, WriteLine, PutChar, EndLine, Clear, Reorient, SetOrientation
<1>2. CASE LineStep
  BY <1>2 DEF LineStep, LinesNext, TurnDisplay, CallDrawLine, CallDrawRectangle,
     CallFillRectangle, CallDrawStraight, BeginLine, PlotPixel, SetOrientation
<1>3. CASE StartupStep \/ DrawStep \/ MotionStep \/ UNCHANGED vars
  BY <1>3 DEF StartupStep, DrawStep, MotionStep, vars, textVars
<1> QED BY <1>1, <1>2, <1>3 DEF Next

\* Only the text has a cursor that moves; lines share its orientation.
TextsInv ==
    /\ TextInv
    /\ program # "text" => Returned /\ cursor = Cleared

LEMMA TextInvariance == Spec => []TextsInv
<1>1. ASSUME Init PROVE TextsInv
  <2>1. /\ orientation \in Orientation /\ Returned /\ cursor = Cleared
        /\ rest \in Seq({"char", "\n"}) /\ ending \in BOOLEAN
    <3>1. <<>> \in Seq({"char", "\n"})
      BY SMT
    <3>2. orientation = "North" /\ rest = <<>> /\ ending = FALSE /\ cursor = Cleared
      BY <1>1, Zenon DEF Init, TextInit
    <3> QED BY <3>1, <3>2 DEF Orientation, Returned
  <2>2. Resting(cursor)
    BY <2>1, ClearedRests, DisplayRests
  <2> QED BY <2>1, <2>2 DEF TextsInv, TextInv
<1>2. ASSUME TextsInv, [Next]_vars PROVE TextsInv'
  <2>1. CASE program = "text"
    <3>1. [TextNext]_textVars /\ program' = "text"
      BY <1>2, <2>1, Parts
    <3>2. CASE TextNext
      BY <1>2, <3>1, <3>2, TextStepInv DEF TextsInv
    <3>3. CASE UNCHANGED textVars
      BY <1>2, <3>1, <3>3, Zenon DEF textVars, TextsInv, TextInv, Returned, Resting, OnDisplay,
         maxlines, maxcols, Upended
    <3> QED BY <3>1, <3>2, <3>3
  <2>2. CASE program # "text"
    <3>1. /\ Returned /\ cursor' = Cleared /\ program' # "text"
          /\ UNCHANGED <<cursor, rest, ending>>
      BY <1>2, <2>2, Parts DEF TextsInv
    <3>2. orientation' \in Orientation
      BY <1>2, OrientationType DEF TextsInv, TextInv
    <3>3. TextInv'
      BY <1>2, <3>1, <3>2, ClearedInv DEF TextsInv
    <3> QED BY <3>1, <3>3 DEF TextsInv, Returned
  <2> QED BY <2>1, <2>2
<1> QED BY <1>1, <1>2, PTL DEF Spec

\* Whatever strings are written, cleared and turned: no character goes over another,
\* and none goes below the display unless a newline has been written on its last line.
THEOREM TextReadable == Spec => []TextStaysReadable
<1>1. ASSUME TextsInv PROVE TextStaysReadable
  <2>1. Resting(cursor)
    BY <1>1, DisplayRests DEF TextsInv, TextInv
  <2> QED BY <2>1 DEF Resting, TextStaysReadable
<1> QED BY <1>1, TextInvariance, PTL

-------------------------------------------------------------------------------
\* The motors run exactly while a timed motion or the loop of a test does.
MovesInv == MotionsTypeOK /\ (stopped => call \in Tests)

LEMMA Names ==
    /\ Tests \cup Timed = DOMAIN MotionOf /\ Tests \cap Timed = {}
    /\ "none" \notin DOMAIN MotionOf /\ "astray" \notin DOMAIN MotionOf
    /\ \A fn \in DOMAIN MotionOf : "off" \notin MotionOf[fn]
<1>1. DOMAIN MotionOf = {"fwd_time", "bck_time", "rot_time", "raise_fork", "lower_fork",
                         "fwd_tst", "bck_tst", "rot_tst"}
  BY SMT DEF MotionOf
<1>2. \A fn \in DOMAIN MotionOf : "off" \notin MotionOf[fn]
  BY <1>1, SMT DEF MotionOf
<1> HIDE DEF MotionOf
<1> QED BY <1>1, <1>2, SMT DEF Tests, Timed

LEMMA MovesStep == ASSUME MovesInv, MotionsNext PROVE MovesInv'
<1> USE MotionsAssumption DEF MovesInv, MotionsTypeOK, Polling
<1>1. CASE StopTest
  <2>1. clock' \in Nat
    BY <1>1, SMT DEF StopTest, FingerSleep
  <2> QED BY <1>1, <2>1, Names, Zenon DEF StopTest
<1>2. CASE \E fn \in DOMAIN MotionOf : Begin(fn)
  <2>1. PICK fn \in DOMAIN MotionOf : Begin(fn)
    BY <1>2
  <2>2. clock' \in Nat
    BY <2>1, SMT DEF Begin
  <2>3. call' = fn /\ motion' # "off" /\ ~stopped /\ UNCHANGED <<stopped, held, obeyed>>
    BY <2>1, Names, Zenon DEF Begin
  <2> QED BY <2>1, <2>2, <2>3, Names, Zenon
<1>3. CASE EndTimed
  BY <1>3, Names, Zenon DEF EndTimed
<1>4. CASE EndTest
  <2>1. call' \in {"none", "astray"}
    BY <1>4 DEF EndTest
  <2> QED BY <1>4, <2>1, Names, Zenon DEF EndTest
<1>5. CASE Press
  <2>1. held' \in 0..MaxHold
    BY <1>5, SMT DEF Press
  <2> QED BY <1>5, <2>1, Zenon DEF Press
<1>6. CASE Release
  <2>1. held' \in 0..MaxHold
    BY <1>6, SMT DEF Release
  <2> QED BY <1>6, <2>1, Zenon DEF Release
<1>7. CASE MotionsTick
  <2>1. held' \in 0..MaxHold /\ clock' \in Nat
    BY <1>7, SMT DEF MotionsTick
  <2> QED BY <1>7, <2>1, Zenon DEF MotionsTick
<1> QED BY <1>1, <1>2, <1>3, <1>4, <1>5, <1>6, <1>7 DEF MotionsNext

LEMMA MovesInvariance == Spec => []MovesInv
<1>1. ASSUME Init PROVE MovesInv
  <2>1. 0 \in 0..MaxHold /\ 0 \in Nat
    BY MotionsAssumption, SMT
  <2> QED BY <1>1, <2>1, Names, Zenon DEF Init, MotionsInit, MovesInv, MotionsTypeOK, Polling
<1>2. ASSUME MovesInv, UNCHANGED motionVars PROVE MovesInv'
  BY <1>2, Zenon DEF motionVars, MovesInv, MotionsTypeOK, Polling
<1>3. MovesInv /\ [Next]_vars => MovesInv'
  BY <1>2, Parts, MovesStep
<1> QED BY <1>1, <1>3, PTL DEF Spec

\* For any letters, strings, radii and times: the region is one of the menu's and the
\* one configured, the cursor rests where a line may begin, and nothing moves
\* between two motions.
THEOREM TypeCorrect == Spec => []TypeOK
<1> DEFINE I == /\ program \in {"startup", "text", "circle", "lines", "motions"}
                /\ CircleTypeOK
                /\ program = "circle" => CircleInv
<1>1. ASSUME Init PROVE I
  <2>1. CASE program = "circle"
    <3>1. CircleInv
      BY <1>1, <2>1, CircleInitInv DEF Init
    <3> QED BY <2>1, <3>1 DEF CircleInv
  <2>2. CASE program # "circle"
    BY <1>1, <2>2 DEF Init, CircleTypeOK, circleVars
  <2> QED BY <2>1, <2>2
<1>2. ASSUME I, [Next]_vars PROVE I'
  <2>1. program' = program
    BY <1>2, Parts
  <2>2. CASE program = "circle"
    <3>1. CircleInv'
      BY <1>2, <2>2, Parts, CircleStepInv, CircleStutterInv
    <3> QED BY <2>1, <2>2, <3>1 DEF CircleInv
  <2>3. CASE program # "circle"
    BY <1>2, <2>1, <2>3, Parts DEF CircleTypeOK, circleVars
  <2> QED BY <2>2, <2>3
<1>3. Spec => []I
  BY <1>1, <1>2, PTL DEF Spec
<1>4. ASSUME TextsInv PROVE TextTypeOK
  <2>1. Resting(cursor)
    BY <1>4, DisplayRests DEF TextsInv, TextInv
  <2> QED BY <1>4, <2>1 DEF TextsInv, TextInv, Resting, TextTypeOK
<1>5. I /\ TextsInv /\ MenuInv /\ MovesInv => TypeOK
  BY <1>4 DEF MenuInv, MovesInv, TypeOK
<1> QED BY <1>3, <1>5, TextInvariance, MenuInvariance, MovesInvariance, PTL
-------------------------------------------------------------------------------
\* (int)(y + .5) is the nearest whole number, either of two that are as near.
LEMMA RoundedBounds ==
    ASSUME NEW n \in Int, NEW d \in Nat \ {0}, NEW m \in Rounded(n, d)
    PROVE  m \in Int /\ 2 * n - d <= 2 * (d * m) /\ 2 * (d * m) <= 2 * n + d
<1>1. CASE m = (2 * n + d) \div (2 * d)
  BY <1>1, SMT
<1>2. CASE m = (2 * n - d) \div (2 * d) /\ (2 * n - d) % (2 * d) = 0
  BY <1>2, SMT
<1> QED BY <1>1, <1>2 DEF Rounded

LEMMA Nearest ==
    ASSUME NEW n \in Int, NEW m \in Int, NEW d \in Nat \ {0},
           2 * (n * d) - d <= 2 * (d * m), 2 * (d * m) <= 2 * (n * d) + d
    PROVE  m = n
BY SMT

\* A coordinate that is whole is not rounded.
LEMMA RoundedExact ==
    ASSUME NEW n \in Int, NEW d \in Nat \ {0}
    PROVE  Rounded(n * d, d) = {n}
<1>1. (2 * (n * d) + d) \div (2 * d) = n
  BY SMT
<1>2. n \in Rounded(n * d, d)
  BY <1>1 DEF Rounded
<1>3. n * d \in Int
  BY SMT
<1>4. \A m \in Rounded(n * d, d) : m = n
  BY <1>3, RoundedBounds, Nearest
<1> QED BY <1>2, <1>4

LEMMA Least ==
    ASSUME NEW a \in Int, NEW b \in Int, a <= b
    PROVE  (CHOOSE c \in a..b : \A d \in a..b : c <= d) = a
<1>1. \A c \in a..b : (\A d \in a..b : c <= d) <=> c = a
  BY SMT
<1>2. a \in a..b
  BY SMT
<1> QED BY <1>1, <1>2, Zenon

-------------------------------------------------------------------------------
\* A window that is written once over, or more, is filled.
LEMMA WindowFilled ==
    ASSUME NEW c \in Int, NEW d \in Int, NEW r \in Int, NEW s \in Int, c <= d, r <= s,
           NEW n \in Int, (d - c + 1) * (s - r + 1) <= n
    PROVE  Filled([cols |-> c..d, rows |-> r..s], n) = (c..d) \X (r..s)
<1> DEFINE cols == c..d
           rows == r..s
           w == d - c + 1
<1>2. Cardinality(cols) = w
  <2>1. Cardinality(cols) = IF c > d THEN 0 ELSE d - c + 1
    BY FS_Interval
  <2> QED BY <2>1, SMT
<1>3. (CHOOSE a \in cols : \A b \in cols : a <= b) = c
  BY Least
<1>4. (CHOOSE a \in rows : \A b \in rows : a <= b) = r
  BY Least
<1>5. \A a \in cols, b \in rows : (b - r) * w + (a - c) < n
  <2> SUFFICES ASSUME NEW a \in cols, NEW b \in rows PROVE (b - r) * w + (a - c) < n
    OBVIOUS
  <2>1. /\ a - c < w /\ b - r <= s - r /\ a - c \in Int /\ b - r \in Int
        /\ w \in Nat /\ s - r \in Nat
    BY SMT
  <2>2. w * (s - r + 1) = (s - r) * w + w
    BY <2>1, SMT
  <2> HIDE DEF w
  <2>3. (b - r) * w <= (s - r) * w
    BY <2>1, SMT
  <2>4. w * (s - r + 1) <= n
    BY DEF w
  <2> QED BY <2>1, <2>2, <2>3, <2>4, SMT
<1> HIDE DEF cols, rows, w
<1>6. Filled([cols |-> cols, rows |-> rows], n)
        = {p \in cols \X rows : (p[2] - r) * w + (p[1] - c) < n}
  BY <1>2, <1>3, <1>4 DEF Filled
<1>7. \A p \in cols \X rows : (p[2] - r) * w + (p[1] - c) < n
  BY <1>5
<1>8. Filled([cols |-> cols, rows |-> rows], n) = cols \X rows
  BY <1>6, <1>7
<1> QED BY <1>8 DEF cols, rows

\* The picture as the caller sees it.
Seen(pixels) == {Unplaced(p) : p \in pixels}

\* A region filled once over shows as the block that was asked for, in each orientation.
LEMMA RegionFilled ==
    ASSUME NEW u \in Int, NEW v \in Int, NEW w \in Nat \ {0}, NEW h \in Nat \ {0},
           NEW n \in Int, w * h <= n
    PROVE  Seen(Filled(SetDrawRegion(u, v, w, h), n)) = Block(u, v, w, h)
<1> DEFINE right == u + w - 1
           bottom == v + h - 1
           first == _width - u - (w - 1)
           last == _width - u
<1>1. /\ _width \in Int /\ right \in Int /\ bottom \in Int /\ first \in Int /\ last \in Int
      /\ u <= right /\ v <= bottom /\ first <= last
      /\ (right - u + 1) * (bottom - v + 1) <= n /\ (bottom - v + 1) * (last - first + 1) <= n
  <2>1. _width \in Int
    BY DEF _width
  <2>2. h * w = w * h /\ right - u + 1 = w /\ bottom - v + 1 = h /\ last - first + 1 = w
    BY <2>1, SMT
  <2>3. (right - u + 1) * (bottom - v + 1) <= n /\ (bottom - v + 1) * (last - first + 1) <= n
    <3> HIDE DEF right, bottom, first, last
    <3> QED BY <2>2
  <2> QED BY <2>1, <2>3, SMT
<1>2. \A b \in Int : /\ b \in first..last <=> _width - b \in u..right
                     /\ _width - (_width - b) = b /\ _width - b \in Int
  BY <1>1, SMT
<1>3. CASE Upended
  <2>1. SetDrawRegion(u, v, w, h) = [cols |-> v..bottom, rows |-> first..last]
    BY <1>3, Zenon DEF SetDrawRegion
  <2>2. Block(u, v, w, h) = (u..right) \X (v..bottom)
    BY Zenon DEF Block
  <2> HIDE DEF right, bottom, first, last
  <2>3. Filled(SetDrawRegion(u, v, w, h), n) = (v..bottom) \X (first..last)
    BY <1>1, <2>1, WindowFilled, SMT
  <2>4. \A p : Unplaced(p) = <<_width - p[2], p[1]>>
    BY <1>3 DEF Unplaced
  <2>5. \A p \in (v..bottom) \X (first..last) : Unplaced(p) \in Block(u, v, w, h)
    <3> SUFFICES ASSUME NEW p \in (v..bottom) \X (first..last) PROVE Unplaced(p) \in Block(u, v, w, h)
      OBVIOUS
    <3>1. p[1] \in v..bottom /\ p[2] \in first..last
      OBVIOUS
    <3>2. _width - p[2] \in u..right
      BY <1>1, <1>2, <3>1, SMT
    <3> QED BY <2>2, <2>4, <3>1, <3>2
  <2>6. ASSUME NEW q \in Block(u, v, w, h)
        PROVE  \E p \in (v..bottom) \X (first..last) : q = Unplaced(p)
    <3>1. q[1] \in u..right /\ q[2] \in v..bottom /\ q = <<q[1], q[2]>>
      BY <2>2
    <3>2. _width - q[1] \in first..last
      BY <1>1, <1>2, <3>1, SMT
    <3>3. Unplaced(<<q[2], _width - q[1]>>) = q
      BY <1>1, <1>2, <2>4, <3>1, SMT
    <3> QED BY <3>1, <3>2, <3>3
  <2> QED BY <2>3, <2>5, <2>6 DEF Seen
<1>4. CASE ~Upended
  <2>1. SetDrawRegion(u, v, w, h) = [cols |-> u..right, rows |-> v..bottom]
    BY <1>4, Zenon DEF SetDrawRegion
  <2>2. Block(u, v, w, h) = (u..right) \X (v..bottom)
    BY Zenon DEF Block
  <2> HIDE DEF right, bottom
  <2>3. Filled(SetDrawRegion(u, v, w, h), n) = Block(u, v, w, h)
    BY <1>1, <2>1, <2>2, WindowFilled, SMT
  <2>4. \A p : Unplaced(p) = p
    BY <1>4 DEF Unplaced
  <2> QED BY <2>3, <2>4 DEF Seen
<1> QED BY <1>3, <1>4

LEMMA PixelSeen ==
    ASSUME NEW u \in Int, NEW v \in Int
    PROVE  Seen(DrawPixel(u, v)) = {<<u, v>>}
<1>1. Seen(DrawPixel(u, v)) = Block(u, v, 1, 1)
  BY RegionFilled, SMT DEF DrawPixel
<1>2. u..u + 1 - 1 = {u} /\ v..v + 1 - 1 = {v}
  BY SMT
<1> QED BY <1>1, <1>2 DEF Block

\* A full line's worth of pixels is enough for every horizontal line: it goes over some twice.
LEMMA StrokesSeen ==
    ASSUME NEW p \in Int, NEW q \in Int, p <= q, q - p < 240, NEW c \in Int
    PROVE  /\ Seen(DrawHorizontalLine(c, p, q)) = Block(p, c, q - p + 1, 1)
           /\ Seen(DrawHorizontalLine(c, q, p)) = Block(p, c, q - p + 1, 1)
           /\ Seen(DrawVerticalLine(c, p, q)) = Block(c, p, 1, q - p + 1)
           /\ Seen(DrawVerticalLine(c, q, p)) = Block(c, p, 1, q - p + 1)
<1> DEFINE n == q - p + 1
<1>1. /\ n \in Nat \ {0} /\ n * 1 <= _width /\ 1 * n <= n /\ _width \in Int
      /\ n \in Int /\ 1 \in Nat \ {0}
  BY SMT DEF _width
<1>2. /\ DrawHorizontalLine(c, p, q) = Filled(SetDrawRegion(p, c, n, 1), _width)
      /\ DrawHorizontalLine(c, q, p) = Filled(SetDrawRegion(p, c, n, 1), _width)
      /\ DrawVerticalLine(c, p, q) = Filled(SetDrawRegion(c, p, 1, n), n)
      /\ DrawVerticalLine(c, q, p) = Filled(SetDrawRegion(c, p, 1, n), n)
  <2>1. CASE p < q
    BY <2>1, SMT DEF DrawHorizontalLine, DrawVerticalLine
  <2>2. CASE p = q
    BY <2>2, SMT DEF DrawHorizontalLine, DrawVerticalLine
  <2> QED BY <2>1, <2>2, SMT
<1> HIDE DEF n
<1>3. /\ Seen(Filled(SetDrawRegion(p, c, n, 1), _width)) = Block(p, c, n, 1)
      /\ Seen(Filled(SetDrawRegion(c, p, 1, n), n)) = Block(c, p, 1, n)
  BY <1>1, RegionFilled, SMT
<1> QED BY <1>2, <1>3, Zenon DEF n

-------------------------------------------------------------------------------
\* The pixel of a line with coordinate i along it and m across it.
Point(steep, i, m) == IF steep THEN <<m, i>> ELSE <<i, m>>

\* The pixels of a line, g[i] across for each i along it.
Traced(steep, g) == {Point(steep, i, g[i]) : i \in DOMAIN g}

\* What DrawLine's loop begins with: one end of the line, and the way to the other
\* in its own coordinates.
LoopFrom(steep, u, v, d, r) ==
    [op |-> "loop", steep |-> steep, x |-> u, last |-> u + d, y |-> v * d, rise |-> r, length |-> d]

Spans(a, b, steep, u, v, d, r) ==
    /\ steep <=> abs(b[2] - a[2]) > abs(b[1] - a[1])
    /\ -d <= r /\ r <= d
    /\ {a, b} = {Point(steep, u, v), Point(steep, u + d, v + r)}

\* Steep or not, upwards or downwards: the loop goes from one of the ends to the other.
LEMMA LoopShape ==
    ASSUME NEW a \in Int \X Int, NEW b \in Int \X Int, a # b
    PROVE  \E steep \in BOOLEAN, u, v \in Int, d \in Nat \ {0}, r \in Int :
              LineLoop(a, b) = LoopFrom(steep, u, v, d, r) /\ Spans(a, b, steep, u, v, d, r)
<1> DEFINE steep == abs(b[2] - a[2]) > abs(b[1] - a[1])
           p == IF steep THEN Swapped(a) ELSE a
           q == IF steep THEN Swapped(b) ELSE b
           from == IF p[1] > q[1] THEN q ELSE p
           to == IF p[1] > q[1] THEN p ELSE q
           d == to[1] - from[1]
           r == to[2] - from[2]
<1>1. a[1] \in Int /\ a[2] \in Int /\ b[1] \in Int /\ b[2] \in Int
  OBVIOUS
<1>2. a = <<a[1], a[2]>> /\ b = <<b[1], b[2]>>
  OBVIOUS
<1>3. /\ p \in Int \X Int /\ q \in Int \X Int
      /\ a = Point(steep, p[1], p[2]) /\ b = Point(steep, q[1], q[2])
  BY <1>1, <1>2, SMT DEF Swapped, Point
<1>4. p[1] # q[1] /\ abs(q[2] - p[2]) <= abs(q[1] - p[1])
  <2>1. CASE steep
    BY <1>1, <2>1, SMT DEF Swapped, abs
  <2>2. CASE ~steep
    <3>1. a[1] # b[1] \/ a[2] # b[2]
      BY <1>2
    <3> QED BY <1>1, <2>2, <3>1, SMT DEF abs
  <2> QED BY <2>1, <2>2
<1>5. steep \in BOOLEAN
  OBVIOUS
<1>6. LineLoop(a, b) = [op |-> "loop", steep |-> steep, x |-> from[1], last |-> to[1],
         y |-> from[2] * d, rise |-> r, length |-> d]
  BY Zenon DEF LineLoop
<1>7. steep <=> abs(b[2] - a[2]) > abs(b[1] - a[1])
  OBVIOUS
<1> HIDE DEF p, q, steep
<1>8. /\ from \in Int \X Int /\ to \in Int \X Int /\ d \in Nat \ {0} /\ r \in Int
      /\ -d <= r /\ r <= d /\ to[1] = from[1] + d /\ to[2] = from[2] + r
  <2>1. /\ p[1] \in Int /\ p[2] \in Int /\ q[1] \in Int /\ q[2] \in Int
    BY <1>3
  <2>2. CASE p[1] > q[1]
    BY <1>3, <1>4, <2>1, <2>2, SMT DEF abs
  <2>3. CASE ~(p[1] > q[1])
    BY <1>3, <1>4, <2>1, <2>3, SMT DEF abs
  <2> QED BY <2>2, <2>3
<1>9. {a, b} = {Point(steep, from[1], from[2]), Point(steep, to[1], to[2])}
  BY <1>3
<1> HIDE DEF from, to, d, r
<1>10. LineLoop(a, b) = LoopFrom(steep, from[1], from[2], d, r)
  BY <1>6, <1>8 DEF LoopFrom
<1>11. Spans(a, b, steep, from[1], from[2], d, r)
  BY <1>7, <1>8, <1>9 DEF Spans
<1>12. from[1] \in Int /\ from[2] \in Int
  BY <1>8
<1> QED BY <1>5, <1>8, <1>10, <1>11, <1>12

\* A choice of pixels along a line that the rounding allows.
Follows(g, u, v, d, r) ==
    g \in [u..u + d -> Int] /\ \A i \in u..u + d : g[i] \in Rounded(v * d + (i - u) * r, d)

\* It begins and ends at the ends of the line, and is at most half a pixel off it.
LEMMA AllFollow ==
    ASSUME NEW u \in Int, NEW v \in Int, NEW d \in Nat \ {0}, NEW r \in Int, NEW g,
           Follows(g, u, v, d, r)
    PROVE  /\ g[u] = v /\ g[u + d] = v + r
           /\ \A i \in u..u + d : /\ g[i] \in Int
                                 /\ 2 * ((i - u) * r - (g[i] - v) * d) <= d
                                 /\ -d <= 2 * ((i - u) * r - (g[i] - v) * d)
<1>1. ASSUME NEW i \in u..u + d
      PROVE  /\ g[i] \in Int
             /\ 2 * ((i - u) * r - (g[i] - v) * d) <= d
             /\ -d <= 2 * ((i - u) * r - (g[i] - v) * d)
             /\ i = u => g[i] = v
             /\ i = u + d => g[i] = v + r
  <2> DEFINE n == v * d + (i - u) * r
             m == g[i]
  <2>1. i \in Int
    BY SMT
  <2>2. n \in Int
    BY <2>1, SMT
  <2>3. m \in Rounded(n, d)
    BY DEF Follows
  <2> HIDE DEF m
  <2>4. /\ i = u => n = v * d
        /\ i = u + d => n = (v + r) * d
    BY <2>1, SMT
  <2>5. \A k \in Int : n - k * d = (i - u) * r - (k - v) * d /\ d * k = k * d /\ k * d \in Int
    BY <2>1, SMT
  <2>6. v + r \in Int
    BY SMT
  <2> HIDE DEF n
  <2>7. m \in Int /\ 2 * n - d <= 2 * (d * m) /\ 2 * (d * m) <= 2 * n + d
    BY <2>2, <2>3, RoundedBounds
  <2>8. 2 * (n - m * d) <= d /\ -d <= 2 * (n - m * d)
    BY <2>2, <2>5, <2>7, SMT
  <2>9. i = u => m = v
    BY <2>4, <2>7, Nearest
  <2>10. i = u + d => m = v + r
    BY <2>4, <2>6, <2>7, Nearest
  <2> QED BY <2>5, <2>7, <2>8, <2>9, <2>10 DEF m
<1>2. u \in u..u + d /\ u + d \in u..u + d
  BY SMT
<1> QED BY <1>1, <1>2

\* One pixel for each coordinate along the line.
LEMMA GraphCard ==
    ASSUME NEW steep \in BOOLEAN, NEW p \in Int, NEW q \in Int, p <= q, NEW g \in [p..q -> Int]
    PROVE  Cardinality(Traced(steep, g)) = q - p + 1
<1> DEFINE T == Traced(steep, g)
           h == [i \in p..q |-> Point(steep, i, g[i])]
<1>1. h \in [p..q -> T] /\ \A t \in T : \E i \in p..q : h[i] = t
  BY DEF Traced
<1>2. \A i, j \in p..q : h[i] = h[j] => i = j
  BY DEF Point
<1>3. h \in Bijection(p..q, T)
  BY <1>1, <1>2, Zenon DEF Bijection, Injection, Surjection, IsInjective
<1>4. ExistsBijection(p..q, T)
  BY <1>3, Zenon DEF ExistsBijection
<1>5. IsFiniteSet(p..q) /\ Cardinality(p..q) = q - p + 1
  BY FS_Interval
<1> QED BY <1>4, <1>5, FS_Bijection

LEMMA FollowedOff ==
    ASSUME NEW u \in Int, NEW v \in Int, NEW d \in Int, NEW r \in Int, NEW i \in Int, NEW m \in Int
    PROVE  /\ (i - (u + d)) * (-r) - (m - (v + r)) * (-d) = -((i - u) * r - (m - v) * d)
           /\ (m - v) * d - (i - u) * r = -((i - u) * r - (m - v) * d)
           /\ (m - (v + r)) * (-d) - (i - (u + d)) * (-r) = (i - u) * r - (m - v) * d
           /\ (i - u) * r - (m - v) * d \in Int
BY SMT

\* Whatever the roundings, the pixels of a full loop are the line.
LEMMA TraceIsLine ==
    ASSUME NEW a \in Int \X Int, NEW b \in Int \X Int, NEW steep \in BOOLEAN,
           NEW u \in Int, NEW v \in Int, NEW d \in Nat \ {0}, NEW r \in Int,
           Spans(a, b, steep, u, v, d, r), NEW g, Follows(g, u, v, d, r)
    PROVE  IsLine(Traced(steep, g), a, b)
<1> DEFINE P == Traced(steep, g)
           dx == b[1] - a[1]
           dy == b[2] - a[2]
           long == IF abs(dy) > abs(dx) THEN abs(dy) ELSE abs(dx)
           off(p) == (p[1] - a[1]) * dy - (p[2] - a[2]) * dx
           s == u + d
           t == v + r
<1>1. /\ u \in u..s /\ s \in u..s /\ s \in Int /\ u <= s /\ t \in Int /\ u # s
      /\ s - u = d /\ t - v = r /\ u - s = -d /\ v - t = -r
      /\ \A i \in u..s : i \in Int
  BY SMT
<1>2. /\ a[1] \in Int /\ a[2] \in Int /\ b[1] \in Int /\ b[2] \in Int
      /\ a = <<a[1], a[2]>> /\ b = <<b[1], b[2]>>
  OBVIOUS
<1>3. steep <=> abs(dy) > abs(dx)
  BY DEF Spans
<1>4. g[u] = v /\ g[s] = t
  BY AllFollow
<1>5. {a, b} = {Point(steep, u, v), Point(steep, s, t)}
  BY DEF Spans
<1> HIDE DEF s, t
<1>6. P = {Point(steep, i, g[i]) : i \in u..s}
  BY DEF Follows, Traced, s
<1>7. {a, b} \subseteq P
  <2>1. Point(steep, u, v) \in P /\ Point(steep, s, t) \in P
    BY <1>1, <1>4, <1>6
  <2> QED BY <1>5, <2>1
<1>8. \/ a = Point(steep, u, v) /\ b = Point(steep, s, t)
      \/ b = Point(steep, u, v) /\ a = Point(steep, s, t)
  <2>1. Point(steep, u, v) # Point(steep, s, t)
    BY <1>1 DEF Point
  <2> QED BY <1>5, <2>1
<1>9. \/ a = Point(steep, u, v) /\ IF steep THEN dy = d /\ dx = r ELSE dx = d /\ dy = r
      \/ a = Point(steep, s, t) /\ IF steep THEN dy = -d /\ dx = -r ELSE dx = -d /\ dy = -r
  BY <1>1, <1>8 DEF Point
<1> HIDE DEF dx, dy
<1>10. long = d
  <2>1. (steep <=> abs(dy) > abs(dx)) /\ -d <= r /\ r <= d
    BY <1>3 DEF Spans
  <2> QED BY <1>9, <2>1, SMT DEF abs
<1> HIDE DEF long
<1> HIDE DEF P
<1>11. Cardinality(P) = long + 1
  <2>1. g \in [u..s -> Int]
    BY DEF Follows, s
  <2>2. Cardinality(P) = s - u + 1
    BY <1>1, <2>1, GraphCard DEF P
  <2> QED BY <1>1, <1>10, <2>2
<1>12. ASSUME NEW p \in P PROVE 2 * abs(off(p)) <= long
  <2>1. PICK i \in u..s : p = Point(steep, i, g[i])
    BY <1>6, Zenon
  <2> DEFINE m == g[i]
             e == (i - u) * r - (m - v) * d
  <2>2. m \in Int /\ 2 * e <= d /\ -d <= 2 * e
    BY AllFollow DEF s
  <2>3. p = Point(steep, i, m)
    BY <2>1
  <2>4. i \in Int
    BY <1>1
  <2> HIDE DEF m, e
  <2>5. /\ (i - s) * (-r) - (m - t) * (-d) = -e /\ (m - v) * d - (i - u) * r = -e
        /\ (m - t) * (-d) - (i - s) * (-r) = e /\ (i - u) * r - (m - v) * d = e /\ e \in Int
    BY <2>2, <2>4, FollowedOff DEF s, t, e
  <2>6. off(p) = e \/ off(p) = -e
    <3>1. CASE a = Point(steep, u, v) /\ IF steep THEN dy = d /\ dx = r ELSE dx = d /\ dy = r
      BY <2>3, <2>5, <3>1, Zenon DEF Point
    <3>2. CASE a = Point(steep, s, t) /\ IF steep THEN dy = -d /\ dx = -r ELSE dx = -d /\ dy = -r
      BY <2>3, <2>5, <3>2, Zenon DEF Point
    <3> QED BY <1>9, <3>1, <3>2
  <2> HIDE DEF off
  <2>7. 2 * abs(off(p)) <= d
    BY <2>2, <2>5, <2>6, SMT DEF abs
  <2> QED BY <1>10, <2>7
<1>13. ASSUME NEW p \in P, NEW q \in P, p # q
       PROVE  IF abs(dy) > abs(dx) THEN p[2] # q[2] ELSE p[1] # q[1]
  <2>1. PICK i \in u..s : p = Point(steep, i, g[i])
    BY <1>6, Zenon
  <2>2. PICK j \in u..s : q = Point(steep, j, g[j])
    BY <1>6, Zenon
  <2>3. i # j
    BY <1>13, <2>1, <2>2
  <2> QED BY <1>3, <2>1, <2>2, <2>3 DEF Point
<1>14. IsLine(P, a, b)
  BY <1>7, <1>11, <1>12, <1>13 DEF IsLine, dx, dy, long
<1> QED BY <1>14 DEF P

-------------------------------------------------------------------------------
\* What a finished line from a to b may look like.
Stroke(P, a, b) ==
    IF a = b THEN P = {a}
    ELSE \E steep \in BOOLEAN, u, v \in Int, d \in Nat \ {0}, r \in Int :
            /\ Spans(a, b, steep, u, v, d, r)
            /\ \E g : Follows(g, u, v, d, r) /\ P = Traced(steep, g)

LEMMA StrokeIsLine ==
    ASSUME NEW a \in Int \X Int, NEW b \in Int \X Int, NEW P, Stroke(P, a, b)
    PROVE  IsLine(P, a, b)
<1>1. CASE a = b
  <2>1. P = {a}
    BY <1>1 DEF Stroke
  <2>2. b[1] - a[1] = 0 /\ b[2] - a[2] = 0 /\ abs(0) = 0
    BY <1>1, SMT DEF abs
  <2>3. Cardinality(P) = 0 + 1
    <3>1. Cardinality({a}) = 1
      BY FS_Singleton, Zenon
    <3> QED BY <2>1, <3>1
  <2>4. 2 * abs((a[1] - a[1]) * 0 - (a[2] - a[2]) * 0) <= 0
    BY SMT DEF abs
  <2> QED BY <1>1, <2>1, <2>2, <2>3, <2>4 DEF IsLine
<1>2. CASE a # b
  <2>1. PICK steep \in BOOLEAN, u \in Int, v \in Int, d \in Nat \ {0}, r \in Int :
           /\ Spans(a, b, steep, u, v, d, r)
           /\ \E g : Follows(g, u, v, d, r) /\ P = Traced(steep, g)
    BY <1>2, Zenon DEF Stroke
  <2>2. PICK g : Follows(g, u, v, d, r) /\ P = Traced(steep, g)
    BY <2>1
  <2> QED BY <2>1, <2>2, TraceIsLine
<1> QED BY <1>1, <1>2

\* A line along the columns or the rows has no choice.
LEMMA FlatFollows ==
    ASSUME NEW u \in Int, NEW v \in Int, NEW d \in Nat \ {0}, NEW g
    PROVE  Follows(g, u, v, d, 0) <=> g = [i \in u..u + d |-> v]
<1>1. \A i \in u..u + d : Rounded(v * d + (i - u) * 0, d) = {v}
  <2> SUFFICES ASSUME NEW i \in u..u + d PROVE Rounded(v * d + (i - u) * 0, d) = {v}
    OBVIOUS
  <2>1. v * d + (i - u) * 0 = v * d
    BY SMT
  <2> QED BY <2>1, RoundedExact
<1> QED BY <1>1 DEF Follows

LEMMA PointIs ==
    ASSUME NEW steep \in BOOLEAN, NEW i, NEW m, NEW j, NEW n
    PROVE  Point(steep, i, m) = Point(steep, j, n) <=> i = j /\ m = n
BY DEF Point

\* The pixels of a line of n pixels along the columns or the rows.
Bar(steep, u, v, n) == IF steep THEN Block(v, u, 1, n) ELSE Block(u, v, n, 1)

LEMMA FlatTraced ==
    ASSUME NEW steep \in BOOLEAN, NEW u \in Int, NEW v \in Int, NEW d \in Nat \ {0}
    PROVE  Traced(steep, [i \in u..u + d |-> v]) = Bar(steep, u, v, d + 1)
<1>1. v..v + 1 - 1 = {v} /\ u..u + (d + 1) - 1 = u..u + d
  BY SMT
<1>2. Bar(steep, u, v, d + 1) = IF steep THEN {v} \X (u..u + d) ELSE (u..u + d) \X {v}
  BY <1>1, Zenon DEF Block, Bar
<1>3. Traced(steep, [i \in u..u + d |-> v]) = {Point(steep, i, v) : i \in u..u + d}
  BY DEF Traced
<1> DEFINE D == u..u + d
<1> HIDE DEF D
<1>4. {<<v, i>> : i \in D} = {v} \X D /\ {<<i, v>> : i \in D} = D \X {v}
  OBVIOUS
<1>5. {Point(steep, i, v) : i \in D} = IF steep THEN {<<v, i>> : i \in D} ELSE {<<i, v>> : i \in D}
  BY DEF Point
<1> QED BY <1>2, <1>3, <1>4, <1>5, Zenon DEF D

\* So the pixels of such a line are all those between its ends.
LEMMA FlatStrokes ==
    ASSUME NEW p \in Int, NEW q \in Int, p < q, NEW c \in Int, NEW P, NEW a, NEW b,
           NEW flat \in BOOLEAN, {a, b} = {Point(flat, p, c), Point(flat, q, c)}
    PROVE  /\ Stroke(P, a, b) => P = Bar(flat, p, c, q - p + 1)
           /\ Stroke(Bar(flat, p, c, q - p + 1), a, b)
<1> DEFINE d == q - p
<1>1. d \in Nat \ {0} /\ p + d = q /\ p # q /\ -d <= 0 /\ 0 <= d /\ 0 \in Int /\ c + 0 = c
  BY SMT
<1>2. \/ a = Point(flat, p, c) /\ b = Point(flat, q, c)
      \/ a = Point(flat, q, c) /\ b = Point(flat, p, c)
  <2>1. Point(flat, p, c) # Point(flat, q, c)
    BY <1>1, PointIs
  <2> QED BY <2>1
<1>3. a # b
  BY <1>1, <1>2, PointIs
<1>4. flat <=> abs(b[2] - a[2]) > abs(b[1] - a[1])
  <2>1. CASE flat
    <3>1. a[1] = c /\ b[1] = c /\ ((a[2] = p /\ b[2] = q) \/ (a[2] = q /\ b[2] = p))
      BY <1>2, <2>1 DEF Point
    <3> QED BY <2>1, <3>1, SMT DEF abs
  <2>2. CASE ~flat
    <3>1. a[2] = c /\ b[2] = c /\ ((a[1] = p /\ b[1] = q) \/ (a[1] = q /\ b[1] = p))
      BY <1>2, <2>2 DEF Point
    <3> QED BY <2>2, <3>1, SMT DEF abs
  <2> QED BY <2>1, <2>2
<1>5. ASSUME NEW steep \in BOOLEAN, NEW u \in Int, NEW v \in Int, NEW e \in Nat \ {0}, NEW r \in Int,
             Spans(a, b, steep, u, v, e, r)
      PROVE  steep = flat /\ u = p /\ v = c /\ e = d /\ r = 0
  <2>1. steep = flat
    BY <1>4, <1>5 DEF Spans
  <2>2. {Point(flat, p, c), Point(flat, q, c)} = {Point(flat, u, v), Point(flat, u + e, v + r)}
    BY <1>5, <2>1 DEF Spans
  <2>3. (u = p \/ u = q) /\ v = c /\ (u + e = p \/ u + e = q) /\ v + r = c
    <3>1. /\ Point(flat, u, v) \in {Point(flat, p, c), Point(flat, q, c)}
          /\ Point(flat, u + e, v + r) \in {Point(flat, p, c), Point(flat, q, c)}
      BY <2>2, Zenon
    <3>2. \A i, m, j, n : Point(flat, i, m) = Point(flat, j, n) => i = j /\ m = n
      BY DEF Point
    <3>3. (u = p \/ u = q) /\ v = c
      BY <3>1, <3>2
    <3>4. (u + e = p \/ u + e = q) /\ v + r = c
      BY <3>1, <3>2
    <3> QED BY <3>3, <3>4
  <2> QED BY <2>1, <2>3, SMT
<1>6. Spans(a, b, flat, p, c, d, 0)
  BY <1>1, <1>4, Zenon DEF Spans
<1> HIDE DEF d
<1> DEFINE G == [i \in p..p + d |-> c]
<1>7. Traced(flat, G) = Bar(flat, p, c, d + 1)
  BY <1>1, FlatTraced
<1>8. \A g : Follows(g, p, c, d, 0) <=> g = G
  BY <1>1, FlatFollows
<1> HIDE DEF G
<1>9. ASSUME Stroke(P, a, b) PROVE P = Bar(flat, p, c, d + 1)
  <2>1. \E g : Follows(g, p, c, d, 0) /\ P = Traced(flat, g)
    BY <1>3, <1>5, <1>9 DEF Stroke
  <2> QED BY <1>7, <1>8, <2>1, Zenon
<1>10. Stroke(Traced(flat, G), a, b)
  BY <1>1, <1>3, <1>6, <1>8, Zenon DEF Stroke
<1> QED BY <1>7, <1>9, <1>10 DEF d

-------------------------------------------------------------------------------
LEMMA SeenMore ==
    ASSUME NEW S, orientation' = orientation, drawn' = drawn \cup S
    PROVE  Seen(drawn)' = Seen(drawn) \cup Seen(S)
<1>1. \A p : Unplaced(p)' = Unplaced(p)
  BY DEF Unplaced, Upended, _width
<1> QED BY <1>1 DEF Seen

\* A choice of pixels for the part of a line before k.
FollowsTo(g, k, u, v, d, r) ==
    g \in [u..k - 1 -> Int] /\ \A i \in u..k - 1 : g[i] \in Rounded(v * d + (i - u) * r, d)

LEMMA OneFurther ==
    ASSUME NEW u \in Int, NEW v \in Int, NEW d \in Nat \ {0}, NEW r \in Int,
           NEW k \in u..u + d, NEW j, j = k + 1, NEW n, n = v * d + (k - u) * r,
           NEW m \in Rounded(n, d), NEW steep \in BOOLEAN, NEW g, FollowsTo(g, k, u, v, d, r)
    PROVE  \E h : /\ FollowsTo(h, j, u, v, d, r)
                 /\ Traced(steep, h) = Traced(steep, g) \cup {Point(steep, k, m)}
<1> DEFINE h == [i \in u..k |-> IF i = k THEN m ELSE g[i]]
<1>1. k \in Int /\ k \in u..k /\ j - 1 = k /\ \A i \in u..k : i = k \/ i \in u..k - 1
  BY SMT
<1>2. \A i \in u..k - 1 : i \in u..k /\ i # k
  BY <1>1, SMT
<1>3. m \in Int
  <2>1. n \in Int
    BY <1>1, SMT
  <2> QED BY <2>1, RoundedBounds
<1>4. FollowsTo(h, j, u, v, d, r)
  <2>1. \A i \in u..k : h[i] \in Int /\ h[i] \in Rounded(v * d + (i - u) * r, d)
    BY <1>1, <1>3 DEF FollowsTo
  <2> QED BY <1>1, <2>1 DEF FollowsTo
<1>5. Traced(steep, h) = Traced(steep, g) \cup {Point(steep, k, m)}
  <2>1. DOMAIN g = u..k - 1 /\ DOMAIN h = u..k
    BY DEF FollowsTo
  <2>2. h[k] = m /\ \A i \in u..k - 1 : h[i] = g[i]
    BY <1>1, <1>2
  <2> HIDE DEF h
  <2> QED BY <1>1, <1>2, <2>1, <2>2 DEF Traced
<1> QED BY <1>4, <1>5

\* DrawLine's loop at k.
LoopAt(steep, u, v, d, r, k) ==
    [op |-> "loop", steep |-> steep, x |-> k, last |-> u + d, y |-> v * d + (k - u) * r,
     rise |-> r, length |-> d]

\* The loop of a line from a to b is running; what is in the picture is B and the
\* pixels it has plotted.
Drawing(B, a, b) ==
    \E steep \in BOOLEAN, u, v \in Int, d \in Nat \ {0}, r \in Int :
       /\ Spans(a, b, steep, u, v, d, r)
       /\ \E k \in u..u + d :
             /\ pen = LoopAt(steep, u, v, d, r, k)
             /\ \E g : FollowsTo(g, k, u, v, d, r) /\ Seen(drawn) = B \cup Traced(steep, g)

Drawn(B, a, b) == \E P : Stroke(P, a, b) /\ Seen(drawn) = B \cup P

\* What has been done of a line that is no longer waiting.
Begun(B, a, b) == IF pen = None THEN Drawn(B, a, b) ELSE Drawing(B, a, b)

\* BeginLine draws a line of one pixel, or goes into the loop with none plotted.
LEMMA Begins ==
    ASSUME BeginLine, NEW a \in Int \X Int, NEW b \in Int \X Int, Head(lines) = <<a, b>>,
           NEW B, Seen(drawn) = B
    PROVE  Begun(B, a, b)'
<1>1. CASE a = b
  <2>1. /\ drawn' = drawn \cup DrawPixel(a[1], a[2]) /\ pen' = None /\ orientation' = orientation
    BY <1>1 DEF BeginLine
  <2>2. Seen(drawn)' = B \cup Seen(DrawPixel(a[1], a[2]))
    BY <2>1, SeenMore
  <2>3. Seen(DrawPixel(a[1], a[2])) = {a}
    BY PixelSeen
  <2>4. Stroke({a}, a, b)
    BY <1>1 DEF Stroke
  <2> QED BY <2>1, <2>2, <2>3, <2>4 DEF Begun, Drawn
<1>2. CASE a # b
  <2>1. pen' = LineLoop(a, b) /\ drawn' = drawn \cup {} /\ orientation' = orientation
    BY <1>2 DEF BeginLine
  <2>2. PICK steep \in BOOLEAN, u \in Int, v \in Int, d \in Nat \ {0}, r \in Int :
           LineLoop(a, b) = LoopFrom(steep, u, v, d, r) /\ Spans(a, b, steep, u, v, d, r)
    BY <1>2, LoopShape
  <2>3. u \in u..u + d /\ u..u - 1 = {} /\ v * d + (u - u) * r = v * d
    BY SMT
  <2>4. LoopFrom(steep, u, v, d, r)
          = LoopAt(steep, u, v, d, r, u)
    BY <2>3, Zenon DEF LoopFrom, LoopAt
  <2> DEFINE g == [i \in u..u - 1 |-> 0]
  <2>5. FollowsTo(g, u, u, v, d, r) /\ Traced(steep, g) = {}
    BY <2>3 DEF FollowsTo, Traced
  <2>6. Seen(drawn)' = B \cup {}
    BY <2>1, SeenMore DEF Seen
  <2> HIDE DEF g
  <2>7. Drawing(B, a, b)'
    <3>1. pen' = LoopAt(steep, u, v, d, r, u) /\ Seen(drawn)' = B \cup Traced(steep, g)
      BY <2>1, <2>2, <2>4, <2>5, <2>6
    <3> QED BY <2>2, <2>3, <2>5, <3>1, Zenon DEF Drawing
  <2>8. pen' # None
    <3>1. pen'.op = "loop" /\ None.op = "none"
      BY <2>1, <2>2 DEF LoopFrom, None
    <3> QED BY <3>1
  <2> QED BY <2>7, <2>8 DEF Begun
<1> QED BY <1>1, <1>2

\* PlotPixel plots the pixel at k, and is done with the last one.
LEMMA Plots ==
    ASSUME PlotPixel, NEW a, NEW b, NEW B, Drawing(B, a, b)
    PROVE  Begun(B, a, b)'
<1>1. PICK steep \in BOOLEAN, u \in Int, v \in Int, d \in Nat \ {0}, r \in Int :
         /\ Spans(a, b, steep, u, v, d, r)
         /\ \E k \in u..u + d :
               /\ pen = LoopAt(steep, u, v, d, r, k)
               /\ \E g : FollowsTo(g, k, u, v, d, r) /\ Seen(drawn) = B \cup Traced(steep, g)
  BY Zenon DEF Drawing
<1>2. PICK k \in u..u + d :
         /\ pen = LoopAt(steep, u, v, d, r, k)
         /\ \E g : FollowsTo(g, k, u, v, d, r) /\ Seen(drawn) = B \cup Traced(steep, g)
  BY <1>1, Zenon
<1>3. PICK g : FollowsTo(g, k, u, v, d, r) /\ Seen(drawn) = B \cup Traced(steep, g)
  BY <1>2, Zenon
<1>4. /\ pen.op = "loop" /\ pen.steep = steep /\ pen.x = k /\ pen.last = u + d
      /\ pen.y = v * d + (k - u) * r /\ pen.rise = r /\ pen.length = d
  BY <1>2, Zenon DEF LoopAt
<1>5. PICK m \in Rounded(v * d + (k - u) * r, d) :
         drawn' = drawn \cup IF steep THEN DrawPixel(m, k) ELSE DrawPixel(k, m)
  BY <1>4 DEF PlotPixel
<1>6. k \in Int /\ m \in Int
  <2>1. k \in Int /\ v * d + (k - u) * r \in Int
    BY SMT
  <2> QED BY <2>1, RoundedBounds
<1>7. Seen(IF steep THEN DrawPixel(m, k) ELSE DrawPixel(k, m)) = {Point(steep, k, m)}
  BY <1>6, PixelSeen DEF Point
<1>8. Seen(drawn)' = Seen(drawn) \cup {Point(steep, k, m)}
  BY <1>5, <1>7, SeenMore DEF PlotPixel
<1> DEFINE j == k + 1
<1>9. j = k + 1
  OBVIOUS
<1> HIDE DEF j
<1>10. PICK h : FollowsTo(h, j, u, v, d, r) /\ Traced(steep, h) = Traced(steep, g) \cup {Point(steep, k, m)}
  BY <1>3, <1>4, <1>5, <1>9, OneFurther
<1>11. Seen(drawn)' = B \cup Traced(steep, h)
  BY <1>3, <1>8, <1>10
<1>12. CASE k = u + d
  <2>1. pen' = None
    BY <1>4, <1>12 DEF PlotPixel
  <2>2. a # b
    <3>1. Point(steep, u, v) # Point(steep, u + d, v + r)
      BY SMT, PointIs
    <3> QED BY <1>1, <3>1 DEF Spans
  <2>3. u..j - 1 = u..u + d
    BY <1>9, <1>12, SMT
  <2>4. Follows(h, u, v, d, r)
    BY <1>10, <2>3, Zenon DEF Follows, FollowsTo
  <2>5. Stroke(Traced(steep, h), a, b)
    BY <1>1, <2>2, <2>4, Zenon DEF Stroke
  <2> QED BY <1>11, <2>1, <2>5 DEF Begun, Drawn
<1>13. CASE k # u + d
  <2>1. j \in u..u + d /\ v * d + (k - u) * r + r = v * d + (j - u) * r
    BY <1>6, <1>9, <1>13, SMT
  <2>2. pen' = [pen EXCEPT !.x = @ + 1, !.y = @ + pen.rise]
    BY <1>4, <1>13 DEF PlotPixel
  <2>3. pen' = LoopAt(steep, u, v, d, r, j)
    <3>1. pen = [op |-> "loop", steep |-> steep, x |-> k, last |-> u + d, y |-> v * d + (k - u) * r,
                 rise |-> r, length |-> d]
      BY <1>2, Zenon DEF LoopAt
    <3>2. pen' = [op |-> "loop", steep |-> steep, x |-> k + 1, last |-> u + d,
                  y |-> v * d + (k - u) * r + r, rise |-> r, length |-> d]
      BY <2>2, <3>1
    <3> QED BY <1>9, <2>1, <3>2, Zenon DEF LoopAt
  <2>4. pen' # None
    <3>1. pen'.op = "loop" /\ None.op = "none"
      BY <2>3 DEF LoopAt, None
    <3> QED BY <3>1
  <2>5. Drawing(B, a, b)'
    BY <1>1, <1>10, <1>11, <2>1, <2>3, Zenon DEF Drawing
  <2> QED BY <2>4, <2>5 DEF Begun
<1> QED BY <1>12, <1>13

-------------------------------------------------------------------------------
\* Lines that are drawn one after the other, the first j of them taken off the list;
\* back[i] is the picture of the first i.
Remaining(Q, n, j) ==
    /\ lines \in Seq((Int \X Int) \X (Int \X Int)) /\ Len(lines) = n - j
    /\ \A i \in 1..n - j : lines[i] = Q[i + j]

PathAt(Q, n, back, j) ==
    /\ Remaining(Q, n, j)
    /\ IF j = 0 THEN pen = None /\ drawn = {} ELSE Begun(back[j - 1], Q[j][1], Q[j][2])

PathInv(Q, n, back) == \E j \in 0..n : PathAt(Q, n, back, j)

\* Lines that have no choice, but perhaps the last.
Fits(Q, n, back) ==
    /\ Q \in Seq((Int \X Int) \X (Int \X Int)) /\ Len(Q) = n
    /\ back[0] = {}
    /\ \A j \in 1..n - 1 : \A P : Stroke(P, Q[j][1], Q[j][2]) => back[j - 1] \cup P = back[j]

LEMMA SeenNothing == Seen({}) = {}
BY DEF Seen

\* Each line is drawn over what those before it have left, and they are complete.
LEMMA PathStep ==
    ASSUME BeginLine \/ PlotPixel, NEW n \in Nat, NEW Q, NEW back, Fits(Q, n, back),
           PathInv(Q, n, back)
    PROVE  PathInv(Q, n, back)'
<1> DEFINE Points == (Int \X Int) \X (Int \X Int)
<1>1. PICK j \in 0..n : PathAt(Q, n, back, j)
  BY DEF PathInv
<1>2. j \in Nat /\ j <= n
  BY SMT
<1>3. lines \in Seq(Points) /\ Len(lines) = n - j /\ \A i \in 1..n - j : lines[i] = Q[i + j]
  BY <1>1, Zenon DEF PathAt, Remaining
<1>4. CASE BeginLine
  <2> DEFINE k == j + 1
  <2>1. lines # <<>> /\ pen = None /\ lines' = Tail(lines)
    BY <1>4 DEF BeginLine
  <2>2. j < n
    <3>1. Len(lines) # 0
      BY <1>3, <2>1
    <3> QED BY <1>2, <1>3, <3>1, SMT
  <2>3. k \in 1..n /\ k \in 0..n /\ k # 0 /\ k - 1 = j /\ 1 \in 1..n - j /\ 1 + j = k /\ n - k = n - j - 1
    BY <1>2, <2>2, SMT
  <2>4. /\ lines' \in Seq(Points) /\ Len(lines') = n - j - 1 /\ Head(lines) = lines[1]
        /\ \A i \in 1..n - j - 1 : lines'[i] = lines[i + 1]
    BY <1>3, <2>1
  <2>5. \A i \in 1..n - j - 1 : i + 1 \in 1..n - j /\ i + 1 + j = i + k
    BY <1>2, SMT
  <2>6. \A i \in 1..n - j - 1 : lines'[i] = Q[i + k]
    <3> SUFFICES ASSUME NEW i \in 1..n - j - 1 PROVE lines'[i] = Q[i + k]
      OBVIOUS
    <3>1. lines[i + 1] = Q[i + 1 + j]
      BY <1>3, <2>5
    <3> QED BY <2>4, <2>5, <3>1
  <2>7. Head(lines) = Q[k] /\ Q[k] \in Points
    <3>1. lines[1] = Q[1 + j]
      BY <1>3, <2>3
    <3>2. Q[k] \in Points
      BY <2>3 DEF Fits
    <3> QED BY <2>3, <2>4, <3>1, <3>2
  <2> HIDE DEF k
  <2>8. Seen(drawn) = back[j]
    <3>1. CASE j = 0
      BY <1>1, <3>1, SeenNothing DEF PathAt, Fits
    <3>2. CASE j # 0
      <4>1. Drawn(back[j - 1], Q[j][1], Q[j][2])
        BY <1>1, <2>1, <3>2, Zenon DEF PathAt, Begun
      <4>2. PICK P : Stroke(P, Q[j][1], Q[j][2]) /\ Seen(drawn) = back[j - 1] \cup P
        BY <4>1, Zenon DEF Drawn
      <4>3. j \in 1..n - 1
        BY <1>2, <2>2, <3>2, SMT
      <4> QED BY <4>2, <4>3 DEF Fits
    <3> QED BY <3>1, <3>2
  <2>9. Begun(back[j], Q[k][1], Q[k][2])'
    <3>1. Q[k][1] \in Int \X Int /\ Q[k][2] \in Int \X Int /\ Head(lines) = <<Q[k][1], Q[k][2]>>
      BY <2>7
    <3> DEFINE a == Q[k][1]
               b == Q[k][2]
               B == back[j]
    <3> HIDE DEF a, b, B
    <3>2. a \in Int \X Int /\ b \in Int \X Int /\ Head(lines) = <<a, b>> /\ Seen(drawn) = B
      BY <2>8, <3>1 DEF a, b, B
    <3>3. Begun(B, a, b)'
      BY <1>4, <3>2, Begins
    <3> QED BY <3>3 DEF a, b, B
  <2>10. Remaining(Q, n, k)'
    BY <2>3, <2>4, <2>6 DEF Remaining
  <2>11. PathAt(Q, n, back, k)'
    BY <2>3, <2>9, <2>10 DEF PathAt
  <2> QED BY <2>3, <2>11 DEF PathInv
<1>5. CASE PlotPixel
  <2>1. pen # None /\ lines' = lines
    BY <1>5 DEF PlotPixel
  <2>2. j # 0 /\ Drawing(back[j - 1], Q[j][1], Q[j][2])
    BY <1>1, <2>1, Zenon DEF PathAt, Begun
  <2>3. Begun(back[j - 1], Q[j][1], Q[j][2])'
    <3> DEFINE a == Q[j][1]
               b == Q[j][2]
               B == back[j - 1]
    <3> HIDE DEF a, b, B
    <3>1. Drawing(B, a, b)
      BY <2>2 DEF a, b, B
    <3>2. Begun(B, a, b)'
      BY <1>5, <3>1, Plots
    <3> QED BY <3>2 DEF a, b, B
  <2>4. Remaining(Q, n, j)'
    BY <1>1, <2>1 DEF PathAt, Remaining
  <2>5. PathAt(Q, n, back, j)'
    BY <2>2, <2>3, <2>4 DEF PathAt
  <2> QED BY <2>5 DEF PathInv
<1> QED BY <1>4, <1>5

\* With nothing left on the list, the last line is complete.
LEMMA PathEnds ==
    ASSUME NEW n \in Nat \ {0}, NEW Q, NEW back, PathInv(Q, n, back), Idle
    PROVE  Drawn(back[n - 1], Q[n][1], Q[n][2])
<1>1. PICK j \in 0..n : PathAt(Q, n, back, j)
  BY DEF PathInv
<1>2. Len(lines) = 0 /\ pen = None
  BY DEF Idle
<1>3. j = n
  <2>1. Len(lines) = n - j
    BY <1>1 DEF PathAt, Remaining
  <2> QED BY <1>2, <2>1, SMT
<1> QED BY <1>1, <1>2, <1>3 DEF PathAt, Begun

\* The pixels of each side of an outline, and of the first of them.
SideBars(u, v, w, h) ==
    <<Block(u, v, w + 1, 1), Block(u + w, v, 1, h + 1), Block(u, v + h, w + 1, 1), Block(u, v, 1, h + 1)>>

Outline(u, v, w, h) ==
    Block(u, v, w + 1, h + 1) \ Block(u + 1, v + 1, w - 1, h - 1)

Behind(u, v, w, h) ==
    LET bars == SideBars(u, v, w, h)
    IN  [j \in 0..4 |-> CASE j = 0 -> {} [] j = 1 -> bars[1] [] j = 2 -> bars[1] \cup bars[2]
                          [] j = 3 -> bars[1] \cup bars[2] \cup bars[3]
                          [] j = 4 -> bars[1] \cup bars[2] \cup bars[3] \cup bars[4]]

\* The sides of an outline run along the columns and the rows.
LEMMA SideStrokes ==
    ASSUME NEW u \in Int, NEW v \in Int, NEW w \in Nat \ {0}, NEW h \in Nat \ {0}
    PROVE  /\ \A j \in 1..4 : \A P : Stroke(P, Sides(u, v, w, h)[j][1], Sides(u, v, w, h)[j][2])
                                => P = SideBars(u, v, w, h)[j]
           /\ Sides(u, v, w, h) \in Seq((Int \X Int) \X (Int \X Int))
           /\ Len(Sides(u, v, w, h)) = 4
<1> DEFINE s == u + w
           t == v + h
           nw == <<u, v>>
           ne == <<s, v>>
           se == <<s, t>>
           sw == <<u, t>>
<1>1. /\ s \in Int /\ t \in Int /\ u < s /\ v < t /\ s - u + 1 = w + 1 /\ t - v + 1 = h + 1
  BY SMT
<1> HIDE DEF s, t
<1>2. /\ Sides(u, v, w, h) = <<<<nw, ne>>, <<ne, se>>, <<se, sw>>, <<sw, nw>>>>
      /\ SideBars(u, v, w, h)
           = <<Block(u, v, w + 1, 1), Block(s, v, 1, h + 1), Block(u, t, w + 1, 1), Block(u, v, 1, h + 1)>>
  BY Zenon DEF Sides, SideBars, s, t
<1>3. \A a, b \in Int \X Int : <<a, b>> \in (Int \X Int) \X (Int \X Int)
  BY Zenon
<1>4. nw \in Int \X Int /\ ne \in Int \X Int /\ se \in Int \X Int /\ sw \in Int \X Int
  BY <1>1
<1>5. ASSUME NEW P, NEW a, NEW b, {a, b} = {nw, ne}, Stroke(P, a, b) PROVE P = Block(u, v, w + 1, 1)
  <2>1. {a, b} = {Point(FALSE, u, v), Point(FALSE, s, v)}
    BY <1>5 DEF Point
  <2>2. P = Bar(FALSE, u, v, s - u + 1)
    BY <1>1, <1>5, <2>1, FlatStrokes
  <2> QED BY <1>1, <2>2 DEF Bar
<1>6. ASSUME NEW P, NEW a, NEW b, {a, b} = {ne, se}, Stroke(P, a, b) PROVE P = Block(s, v, 1, h + 1)
  <2>1. {a, b} = {Point(TRUE, v, s), Point(TRUE, t, s)}
    BY <1>6 DEF Point
  <2>2. P = Bar(TRUE, v, s, t - v + 1)
    BY <1>1, <1>6, <2>1, FlatStrokes
  <2> QED BY <1>1, <2>2 DEF Bar
<1>7. ASSUME NEW P, NEW a, NEW b, {a, b} = {se, sw}, Stroke(P, a, b) PROVE P = Block(u, t, w + 1, 1)
  <2>1. {a, b} = {Point(FALSE, u, t), Point(FALSE, s, t)}
    BY <1>7 DEF Point
  <2>2. P = Bar(FALSE, u, t, s - u + 1)
    BY <1>1, <1>7, <2>1, FlatStrokes
  <2> QED BY <1>1, <2>2 DEF Bar
<1>8. ASSUME NEW P, NEW a, NEW b, {a, b} = {sw, nw}, Stroke(P, a, b) PROVE P = Block(u, v, 1, h + 1)
  <2>1. {a, b} = {Point(TRUE, v, u), Point(TRUE, t, u)}
    BY <1>8 DEF Point
  <2>2. P = Bar(TRUE, v, u, t - v + 1)
    BY <1>1, <1>8, <2>1, FlatStrokes
  <2> QED BY <1>1, <2>2 DEF Bar
<1> HIDE DEF nw, ne, se, sw
<1>9. Sides(u, v, w, h) \in Seq((Int \X Int) \X (Int \X Int)) /\ Len(Sides(u, v, w, h)) = 4
  BY <1>2, <1>3, <1>4
<1>10. \A j \in 1..4 : j = 1 \/ j = 2 \/ j = 3 \/ j = 4
  BY SMT
<1>11. \A j \in 1..4 : \A P : Stroke(P, Sides(u, v, w, h)[j][1], Sides(u, v, w, h)[j][2])
                                => P = SideBars(u, v, w, h)[j]
  BY <1>2, <1>5, <1>6, <1>7, <1>8, <1>10
<1> QED BY <1>9, <1>11

LEMMA OutlineFits ==
    ASSUME NEW u \in Int, NEW v \in Int, NEW w \in Nat \ {0}, NEW h \in Nat \ {0}
    PROVE  Fits(Sides(u, v, w, h), 4, Behind(u, v, w, h))
<1> DEFINE bars == SideBars(u, v, w, h)
           back == Behind(u, v, w, h)
<1>1. /\ back[0] = {} /\ back[1] = bars[1] /\ back[2] = bars[1] \cup bars[2]
      /\ back[3] = bars[1] \cup bars[2] \cup bars[3]
  BY SMT DEF Behind
<1>2. \A j \in 1..4 - 1 : (j = 1 \/ j = 2 \/ j = 3) /\ j \in 1..4
  BY SMT
<1> HIDE DEF bars, back
<1>3. back[1 - 1] = back[0] /\ back[2 - 1] = back[1] /\ back[3 - 1] = back[2]
  BY SMT
<1>4. \A j \in 1..4 - 1 : back[j - 1] \cup bars[j] = back[j]
  BY <1>1, <1>2, <1>3
<1>5. ASSUME NEW j \in 1..4 - 1, NEW P, Stroke(P, Sides(u, v, w, h)[j][1], Sides(u, v, w, h)[j][2])
      PROVE  back[j - 1] \cup P = back[j]
  <2>1. P = bars[j]
    <3>1. j \in 1..4
      BY <1>2
    <3> QED BY <1>5, <3>1, SideStrokes DEF bars
  <2> QED BY <1>4, <2>1
<1>6. /\ Sides(u, v, w, h) \in Seq((Int \X Int) \X (Int \X Int))
      /\ Len(Sides(u, v, w, h)) = 4
  BY SideStrokes
<1> QED BY <1>1, <1>5, <1>6, Zenon DEF Fits, back

\* The four sides together.
FourthCompletes(u, v, w, h) ==
    \A P : Stroke(P, Sides(u, v, w, h)[4][1], Sides(u, v, w, h)[4][2])
              => Behind(u, v, w, h)[4 - 1] \cup P = Outline(u, v, w, h)

LEMMA OutlineWhole ==
    ASSUME NEW u \in Int, NEW v \in Int, NEW w \in Nat \ {0}, NEW h \in Nat \ {0}
    PROVE  FourthCompletes(u, v, w, h)
<1> SUFFICES ASSUME NEW P, Stroke(P, Sides(u, v, w, h)[4][1], Sides(u, v, w, h)[4][2])
             PROVE  Behind(u, v, w, h)[4 - 1] \cup P = Outline(u, v, w, h)
  BY Zenon DEF FourthCompletes
<1> DEFINE bars == SideBars(u, v, w, h)
<1>1. Behind(u, v, w, h)[4 - 1] = bars[1] \cup bars[2] \cup bars[3]
  BY SMT DEF Behind
<1>2. P = bars[4]
  <2>1. 4 \in 1..4
    BY SMT
  <2>2. \A j \in 1..4 : \A R : Stroke(R, Sides(u, v, w, h)[j][1], Sides(u, v, w, h)[j][2]) => R = bars[j]
    BY SideStrokes
  <2> HIDE DEF bars
  <2> QED BY <2>1, <2>2
<1>3. \A b, c : <<b, c>> \in bars[1] \cup bars[2] \cup bars[3] \cup bars[4]
                  <=> <<b, c>> \in Outline(u, v, w, h)
  <2> SUFFICES ASSUME NEW b, NEW c
               PROVE  <<b, c>> \in bars[1] \cup bars[2] \cup bars[3] \cup bars[4]
                        <=> <<b, c>> \in Outline(u, v, w, h)
    OBVIOUS
  <2>1. /\ <<b, c>> \in bars[1] <=> b \in u..u + (w + 1) - 1 /\ c \in v..v + 1 - 1
        /\ <<b, c>> \in bars[2] <=> b \in u + w..u + w + 1 - 1 /\ c \in v..v + (h + 1) - 1
        /\ <<b, c>> \in bars[3] <=> b \in u..u + (w + 1) - 1 /\ c \in v + h..v + h + 1 - 1
        /\ <<b, c>> \in bars[4] <=> b \in u..u + 1 - 1 /\ c \in v..v + (h + 1) - 1
    BY DEF SideBars, Block
  <2>2. <<b, c>> \in Outline(u, v, w, h)
          <=> /\ b \in u..u + (w + 1) - 1 /\ c \in v..v + (h + 1) - 1
              /\ ~(b \in u + 1..u + 1 + (w - 1) - 1 /\ c \in v + 1..v + 1 + (h - 1) - 1)
    BY DEF Outline, Block
  <2> HIDE DEF bars
  <2> QED BY <2>1, <2>2, SMT
<1>4. \A p \in bars[1] \cup bars[2] \cup bars[3] \cup bars[4] : p = <<p[1], p[2]>>
  BY DEF SideBars, Block
<1>5. \A p \in Outline(u, v, w, h) : p = <<p[1], p[2]>>
  BY DEF Outline, Block
<1> HIDE DEF bars
<1>6. bars[1] \cup bars[2] \cup bars[3] \cup bars[4] = Outline(u, v, w, h)
  <2> DEFINE A == bars[1] \cup bars[2] \cup bars[3] \cup bars[4]
             O == Outline(u, v, w, h)
  <2> HIDE DEF A, O
  <2>1. \A b, c : <<b, c>> \in A <=> <<b, c>> \in O
    BY <1>3 DEF A, O
  <2>2. \A p : (p \in A => p = <<p[1], p[2]>>) /\ (p \in O => p = <<p[1], p[2]>>)
    BY <1>4, <1>5 DEF A, O
  <2>3. A = O
    BY <2>1, <2>2
  <2> QED BY <2>3 DEF A, O
<1> QED BY <1>1, <1>2, <1>6

-------------------------------------------------------------------------------
\* What is asked for, and how far it has got.
ALine(a, b) == [op |-> "line", from |-> a, to |-> b]
AnOutline(u, v, w, h) == [op |-> "outline", x |-> u, y |-> v, width |-> w, height |-> h]
AnArea(u, v, w, h) == [op |-> "filled", x |-> u, y |-> v, width |-> w, height |-> h]

Nothing == [j \in 0..1 |-> {}]

LineInv(a, b) == shape = ALine(a, b) /\ PathInv(<<<<a, b>>>>, 1, Nothing)
OutlineInv(u, v, w, h) ==
    shape = AnOutline(u, v, w, h) /\ PathInv(Sides(u, v, w, h), 4, Behind(u, v, w, h))
AreaInv(u, v, w, h) ==
    shape = AnArea(u, v, w, h) /\ Idle /\ Seen(drawn) = Block(u, v, w, h)

Untouched == shape = None /\ Idle /\ drawn = {}

ShapeInv ==
    \/ Untouched
    \/ \E a, b \in Coords \X Coords : LineInv(a, b)
    \/ \E u, v \in Coords, w, h \in Sizes : OutlineInv(u, v, w, h) \/ AreaInv(u, v, w, h)

LEMMA LineFits ==
    ASSUME NEW a \in Int \X Int, NEW b \in Int \X Int
    PROVE  Fits(<<<<a, b>>>>, 1, Nothing)
<1>1. <<a, b>> \in (Int \X Int) \X (Int \X Int)
  OBVIOUS
<1>2. <<<<a, b>>>> \in Seq((Int \X Int) \X (Int \X Int)) /\ Len(<<<<a, b>>>>) = 1
  BY <1>1
<1>3. Nothing[0] = {} /\ 1..1 - 1 = {}
  BY SMT DEF Nothing
<1> QED BY <1>2, <1>3 DEF Fits

LEMMA PathStarts ==
    ASSUME NEW n \in Nat, NEW Q, NEW back, Fits(Q, n, back), lines' = Q, pen' = None, drawn' = {}
    PROVE  PathInv(Q, n, back)'
<1>1. 0 \in 0..n /\ n - 0 = n /\ \A i \in 1..n : i + 0 = i
  BY SMT
<1>2. Remaining(Q, n, 0)'
  BY <1>1 DEF Remaining, Fits
<1>3. PathAt(Q, n, back, 0)'
  BY <1>2 DEF PathAt
<1> QED BY <1>1, <1>3 DEF PathInv

\* DrawHorizontalLine and DrawVerticalLine draw the line between any two points.
LEMMA StraightDrawn ==
    ASSUME NEW p \in 0..239, NEW q \in 0..239, NEW c \in Int
    PROVE  /\ Stroke(Seen(DrawHorizontalLine(c, p, q)), <<p, c>>, <<q, c>>)
           /\ Stroke(Seen(DrawVerticalLine(c, p, q)), <<c, p>>, <<c, q>>)
<1>1. /\ p \in Int /\ q \in Int /\ q - p < 240 /\ p - q < 240 /\ p - p < 240
      /\ p < q \/ q < p \/ p = q
  BY SMT
<1>2. CASE p < q
  <2>1. /\ Seen(DrawHorizontalLine(c, p, q)) = Bar(FALSE, p, c, q - p + 1)
        /\ Seen(DrawVerticalLine(c, p, q)) = Bar(TRUE, p, c, q - p + 1)
    BY <1>1, <1>2, StrokesSeen DEF Bar
  <2>2. {<<p, c>>, <<q, c>>} = {Point(FALSE, p, c), Point(FALSE, q, c)}
    BY DEF Point
  <2>3. {<<c, p>>, <<c, q>>} = {Point(TRUE, p, c), Point(TRUE, q, c)}
    BY DEF Point
  <2>4. /\ Stroke(Bar(FALSE, p, c, q - p + 1), <<p, c>>, <<q, c>>)
        /\ Stroke(Bar(TRUE, p, c, q - p + 1), <<c, p>>, <<c, q>>)
    BY <1>1, <1>2, <2>2, <2>3, FlatStrokes
  <2> QED BY <2>1, <2>4
<1>3. CASE q < p
  <2>1. /\ Seen(DrawHorizontalLine(c, p, q)) = Bar(FALSE, q, c, p - q + 1)
        /\ Seen(DrawVerticalLine(c, p, q)) = Bar(TRUE, q, c, p - q + 1)
    BY <1>1, <1>3, StrokesSeen DEF Bar
  <2>2. {<<p, c>>, <<q, c>>} = {Point(FALSE, q, c), Point(FALSE, p, c)}
    BY DEF Point
  <2>3. {<<c, p>>, <<c, q>>} = {Point(TRUE, q, c), Point(TRUE, p, c)}
    BY DEF Point
  <2>4. /\ Stroke(Bar(FALSE, q, c, p - q + 1), <<p, c>>, <<q, c>>)
        /\ Stroke(Bar(TRUE, q, c, p - q + 1), <<c, p>>, <<c, q>>)
    BY <1>1, <1>3, <2>2, <2>3, FlatStrokes
  <2> QED BY <2>1, <2>4
<1>4. CASE p = q
  <2>1. p..p + (p - p + 1) - 1 = {p} /\ c..c + 1 - 1 = {c}
    BY <1>1, SMT
  <2>2. Block(p, c, p - p + 1, 1) = {<<p, c>>} /\ Block(c, p, 1, p - p + 1) = {<<c, p>>}
    BY <2>1 DEF Block
  <2>3. p <= p
    BY <1>1
  <2>4. /\ Seen(DrawHorizontalLine(c, p, p)) = {<<p, c>>}
        /\ Seen(DrawVerticalLine(c, p, p)) = {<<c, p>>}
    BY <1>1, <2>2, <2>3, StrokesSeen
  <2> QED BY <1>4, <2>4 DEF Stroke
<1> QED BY <1>1, <1>2, <1>3, <1>4

LEMMA ShapesDiffer ==
    ASSUME NEW a, NEW b, NEW u, NEW v, NEW w, NEW h
    PROVE  /\ ALine(a, b) # None /\ AnOutline(u, v, w, h) # None /\ AnArea(u, v, w, h) # None
           /\ ALine(a, b).op = "line" /\ ALine(a, b).from = a /\ ALine(a, b).to = b
           /\ AnOutline(u, v, w, h).op = "outline" /\ AnArea(u, v, w, h).op = "filled"
           /\ AnOutline(u, v, w, h).x = u /\ AnOutline(u, v, w, h).y = v
           /\ AnOutline(u, v, w, h).width = w /\ AnOutline(u, v, w, h).height = h
           /\ AnArea(u, v, w, h).x = u /\ AnArea(u, v, w, h).y = v
           /\ AnArea(u, v, w, h).width = w /\ AnArea(u, v, w, h).height = h
<1>1. None.op = "none" /\ ALine(a, b).op = "line" /\ AnOutline(u, v, w, h).op = "outline"
      /\ AnArea(u, v, w, h).op = "filled"
  BY DEF None, ALine, AnOutline, AnArea
<1>2. ALine(a, b) # None /\ AnOutline(u, v, w, h) # None /\ AnArea(u, v, w, h) # None
  BY <1>1
<1> QED BY <1>1, <1>2 DEF ALine, AnOutline, AnArea

\* What each call that asks for a shape leaves on the list and in the picture.
LEMMA Asked ==
    ASSUME Coords \subseteq 0..239, Untouched,
           CallDrawLine \/ CallDrawRectangle \/ CallFillRectangle \/ CallDrawStraight
    PROVE  ShapeInv'
<1>1. Coords \subseteq Int /\ \A c \in Coords : c \in 0..239 /\ c \in Int
  BY SMT
<1>2. Sizes \subseteq Nat \ {0} /\ Sizes \subseteq Int
  BY LinesAssumption
<1>3. lines = <<>> /\ pen = None /\ drawn = {}
  BY DEF Untouched, Idle
<1>4. CASE CallDrawLine
  <2>1. PICK a, b \in Coords \X Coords :
           shape' = ALine(a, b) /\ lines' = <<<<a, b>>>> /\ UNCHANGED <<orientation, pen, drawn>>
    BY <1>4, Zenon DEF CallDrawLine, ALine
  <2>2. a \in Int \X Int /\ b \in Int \X Int
    BY <1>1
  <2>3. PathInv(<<<<a, b>>>>, 1, Nothing)'
    BY <1>3, <2>1, <2>2, LineFits, PathStarts
  <2> QED BY <2>1, <2>3 DEF ShapeInv, LineInv
<1>5. CASE CallDrawRectangle
  <2>1. PICK u, v \in Coords, w, h \in Sizes :
           /\ shape' = AnOutline(u, v, w, h) /\ lines' = Sides(u, v, w, h)
           /\ UNCHANGED <<orientation, pen, drawn>>
    BY <1>5, Zenon DEF CallDrawRectangle, AnOutline
  <2>2. PathInv(Sides(u, v, w, h), 4, Behind(u, v, w, h))'
    <3>1. Fits(Sides(u, v, w, h), 4, Behind(u, v, w, h))
      BY <1>1, <1>2, OutlineFits
    <3> QED BY <1>3, <2>1, <3>1, PathStarts
  <2> QED BY <2>1, <2>2 DEF ShapeInv, OutlineInv
<1>6. CASE CallFillRectangle
  <2>1. PICK u, v \in Coords, w, h \in Sizes :
           /\ shape' = AnArea(u, v, w, h) /\ drawn' = drawn \cup FillRectangle(u, v, w, h)
           /\ UNCHANGED <<orientation, lines, pen>>
    BY <1>6, Zenon DEF CallFillRectangle, AnArea
  <2>2. Seen(FillRectangle(u, v, w, h)) = Block(u, v, w, h)
    <3>1. u \in Int /\ v \in Int /\ w \in Nat \ {0} /\ h \in Nat \ {0}
      BY <1>1, <1>2
    <3> DEFINE n == w * h
    <3>2. n \in Int /\ w * h <= n
      BY <3>1, SMT
    <3> HIDE DEF n
    <3>3. Seen(Filled(SetDrawRegion(u, v, w, h), n)) = Block(u, v, w, h)
      BY <3>1, <3>2, RegionFilled
    <3> QED BY <3>3 DEF FillRectangle, n
  <2>3. Seen(drawn)' = Block(u, v, w, h)
    BY <1>3, <2>1, <2>2, SeenMore, SeenNothing
  <2> QED BY <1>3, <2>1, <2>3 DEF ShapeInv, AreaInv, Idle
<1>7. CASE CallDrawStraight
  <2>1. PICK a, b \in Coords \X Coords :
           /\ shape' = ALine(a, b) /\ UNCHANGED <<orientation, lines, pen>>
           /\ \/ a[2] = b[2] /\ drawn' = drawn \cup DrawHorizontalLine(a[2], a[1], b[1])
              \/ a[1] = b[1] /\ drawn' = drawn \cup DrawVerticalLine(a[1], a[2], b[2])
    BY <1>7, Zenon DEF CallDrawStraight, ALine
  <2>2. /\ a[1] \in 0..239 /\ a[2] \in 0..239 /\ b[1] \in 0..239 /\ b[2] \in 0..239
        /\ a[1] \in Int /\ a[2] \in Int /\ a = <<a[1], a[2]>> /\ b = <<b[1], b[2]>>
    <3>1. /\ a[1] \in Coords /\ a[2] \in Coords /\ b[1] \in Coords /\ b[2] \in Coords
          /\ a = <<a[1], a[2]>> /\ b = <<b[1], b[2]>>
      BY <2>1
    <3> QED BY <1>1, <3>1
  <2>3. \E P : Stroke(P, a, b) /\ Seen(drawn)' = P
    <3>1. CASE a[2] = b[2] /\ drawn' = drawn \cup DrawHorizontalLine(a[2], a[1], b[1])
      <4>1. Stroke(Seen(DrawHorizontalLine(a[2], a[1], b[1])), a, b)
        BY <2>2, <3>1, StraightDrawn
      <4>2. Seen(drawn)' = Seen(drawn) \cup Seen(DrawHorizontalLine(a[2], a[1], b[1]))
        BY <2>1, <3>1, SeenMore
      <4>3. Seen(drawn)' = Seen(DrawHorizontalLine(a[2], a[1], b[1]))
        BY <1>3, <4>2, SeenNothing
      <4> QED BY <4>1, <4>3
    <3>2. CASE a[1] = b[1] /\ drawn' = drawn \cup DrawVerticalLine(a[1], a[2], b[2])
      <4>1. Stroke(Seen(DrawVerticalLine(a[1], a[2], b[2])), a, b)
        BY <2>2, <3>2, StraightDrawn
      <4>2. Seen(drawn)' = Seen(drawn) \cup Seen(DrawVerticalLine(a[1], a[2], b[2]))
        BY <2>1, <3>2, SeenMore
      <4>3. Seen(drawn)' = Seen(DrawVerticalLine(a[1], a[2], b[2]))
        BY <1>3, <4>2, SeenNothing
      <4> QED BY <4>1, <4>3
    <3> QED BY <2>1, <3>1, <3>2
  <2>4. Nothing[1 - 1] = {} /\ <<<<a, b>>>>[1] = <<a, b>> /\ 1 \in 0..1 /\ 1 # 0
    BY SMT DEF Nothing
  <2>5. Begun(Nothing[1 - 1], <<<<a, b>>>>[1][1], <<<<a, b>>>>[1][2])'
    BY <1>3, <2>1, <2>3, <2>4 DEF Begun, Drawn
  <2>6. Remaining(<<<<a, b>>>>, 1, 1)'
    BY <1>3, <2>1 DEF Remaining
  <2>7. PathInv(<<<<a, b>>>>, 1, Nothing)'
    BY <2>4, <2>5, <2>6 DEF PathAt, PathInv
  <2> QED BY <2>1, <2>7 DEF ShapeInv, LineInv
<1> QED BY <1>4, <1>5, <1>6, <1>7

LEMMA NothingAsked == ShapeInv /\ shape = None => Untouched
<1> SUFFICES ASSUME ShapeInv, shape = None PROVE Untouched
  OBVIOUS
<1>1. \A a, b, u, v, w, h : /\ ALine(a, b) # None
                             /\ AnOutline(u, v, w, h) # None /\ AnArea(u, v, w, h) # None
  BY ShapesDiffer
<1>2. \A a, b : ~LineInv(a, b)
  BY <1>1, Zenon DEF LineInv
<1>3. \A u, v, w, h : ~OutlineInv(u, v, w, h) /\ ~AreaInv(u, v, w, h)
  BY <1>1, Zenon DEF OutlineInv, AreaInv
<1> QED BY <1>2, <1>3, Zenon DEF ShapeInv

LEMMA ShapeStep ==
    ASSUME Coords \subseteq 0..239, ShapeInv, LinesNext
    PROVE  ShapeInv'
<1>1. Coords \subseteq Int /\ Sizes \subseteq Nat \ {0}
  BY LinesAssumption
<1>2. CASE TurnDisplay
  <2>1. Untouched
    BY <1>2, NothingAsked DEF TurnDisplay
  <2>2. Untouched'
    BY <1>2, <2>1 DEF TurnDisplay, Untouched, Idle
  <2> QED BY <2>2 DEF ShapeInv
<1>3. CASE CallDrawLine \/ CallDrawRectangle \/ CallFillRectangle \/ CallDrawStraight
  <2>1. shape = None
    BY <1>3 DEF CallDrawLine, CallDrawRectangle, CallFillRectangle, CallDrawStraight
  <2>2. Untouched
    BY <2>1, NothingAsked
  <2> QED BY <1>3, <2>2, Asked
<1>4. CASE BeginLine \/ PlotPixel
  <2>1. ~Idle /\ shape' = shape
    BY <1>4 DEF BeginLine, PlotPixel, Idle
  <2>2. CASE \E a, b \in Coords \X Coords : LineInv(a, b)
    <3>1. PICK a, b \in Coords \X Coords : LineInv(a, b)
      BY <2>2
    <3>2. Fits(<<<<a, b>>>>, 1, Nothing)
      BY <1>1, LineFits
    <3>3. PathInv(<<<<a, b>>>>, 1, Nothing)'
      BY <1>4, <3>1, <3>2, PathStep DEF LineInv
    <3> QED BY <2>1, <3>1, <3>3 DEF ShapeInv, LineInv
  <2>3. CASE \E u, v \in Coords, w, h \in Sizes : OutlineInv(u, v, w, h)
    <3>1. PICK u, v \in Coords, w, h \in Sizes : OutlineInv(u, v, w, h)
      BY <2>3
    <3>2. Fits(Sides(u, v, w, h), 4, Behind(u, v, w, h))
      BY <1>1, OutlineFits
    <3>3. PathInv(Sides(u, v, w, h), 4, Behind(u, v, w, h))'
      BY <1>4, <3>1, <3>2, PathStep DEF OutlineInv
    <3> QED BY <2>1, <3>1, <3>3 DEF ShapeInv, OutlineInv
  <2> QED BY <2>1, <2>2, <2>3 DEF ShapeInv, Untouched, AreaInv
<1> QED BY <1>2, <1>3, <1>4 DEF LinesNext

\* Only the program that draws lines touches what is drawn; the text shares its orientation.
LEMMA LineParts ==
    ASSUME [Next]_vars
    PROVE  /\ program = "lines" => LinesNext \/ UNCHANGED <<linesVars, orientation>>
           /\ program # "lines" => UNCHANGED linesVars
<1>1. CASE LineStep
  BY <1>1, Zenon DEF LineStep
<1>2. CASE StartupStep \/ DrawStep \/ TextStep \/ MotionStep
  BY <1>2, Zenon DEF StartupStep, DrawStep, TextStep, MotionStep
<1>3. CASE UNCHANGED vars
  BY <1>3, Zenon DEF vars, textVars
<1> QED BY <1>1, <1>2, <1>3 DEF Next

ShapesInv == ShapeInv /\ (program # "lines" => shape = None)

LEMMA SamePicture ==
    ASSUME UNCHANGED <<linesVars, orientation>>, ShapeInv
    PROVE  ShapeInv'
<1>1. UNCHANGED <<shape, lines, pen, drawn>> /\ orientation' = orientation
  BY DEF linesVars
<1>2. Seen(drawn)' = Seen(drawn)
  <2>1. drawn' = drawn \cup {}
    BY <1>1
  <2> QED BY <1>1, <2>1, SeenMore, SeenNothing
<1>3. \A B, a, b : Begun(B, a, b)' <=> Begun(B, a, b)
  <2>1. \A B, a, b : Drawing(B, a, b)' <=> Drawing(B, a, b)
    BY <1>1, <1>2, SMT DEF Drawing
  <2>2. \A B, a, b : Drawn(B, a, b)' <=> Drawn(B, a, b)
    BY <1>2, SMT DEF Drawn
  <2> QED BY <1>1, <2>1, <2>2, Zenon DEF Begun
<1>4. \A Q, n, back, j : PathAt(Q, n, back, j)' <=> PathAt(Q, n, back, j)
  BY <1>1, <1>3 DEF PathAt, Remaining
<1>5. \A Q, n, back : PathInv(Q, n, back)' <=> PathInv(Q, n, back)
  BY <1>4, Zenon DEF PathInv
<1> QED BY <1>1, <1>2, <1>5, Zenon DEF ShapeInv, Untouched, Idle, LineInv, OutlineInv, AreaInv

LEMMA ShapeInvariance == Coords \subseteq 0..239 /\ Spec => []ShapesInv
<1>1. ASSUME Init PROVE ShapesInv
  <2>1. Untouched
    BY <1>1 DEF Init, LinesInit, Untouched, Idle
  <2> QED BY <2>1 DEF ShapesInv, ShapeInv, Untouched
<1>2. ASSUME Coords \subseteq 0..239, ShapesInv, [Next]_vars PROVE ShapesInv'
  <2>1. program' = program
    BY <1>2, Parts
  <2>2. CASE program = "lines"
    <3>1. LinesNext \/ UNCHANGED <<linesVars, orientation>>
      BY <1>2, <2>2, LineParts
    <3>2. ShapeInv'
      BY <1>2, <3>1, ShapeStep, SamePicture DEF ShapesInv
    <3> QED BY <2>1, <2>2, <3>2 DEF ShapesInv
  <2>3. CASE program # "lines"
    <3>1. UNCHANGED <<shape, lines, pen, drawn>>
      BY <1>2, <2>3, LineParts DEF linesVars
    <3>2. shape = None /\ Untouched
      BY <1>2, <2>3, NothingAsked DEF ShapesInv
    <3> QED BY <3>1, <3>2 DEF ShapesInv, ShapeInv, Untouched, Idle
  <2> QED BY <2>2, <2>3
<1>3. Coords \subseteq 0..239 => (Spec => []ShapesInv)
  <2> SUFFICES ASSUME Coords \subseteq 0..239 PROVE Spec => []ShapesInv
    OBVIOUS
  <2>1. ShapesInv /\ [Next]_vars => ShapesInv'
    BY <1>2
  <2> QED BY <1>1, <2>1, PTL DEF Spec
<1> QED BY <1>3

\* Whatever the line, area or outline, and however the display is turned: a line is the
\* nearest that pixels can draw, an area has no hole and no pixel too many, an outline is
\* that of an area one pixel larger each way.  The coordinates are those that each
\* orientation has: a longer horizontal line does not fit on an upended display.
THEOREM ShapesDrawn == Coords \subseteq 0..239 /\ Spec => []ShapesAsAsked
<1>1. ASSUME Coords \subseteq 0..239, ShapesInv PROVE ShapesAsAsked
  <2> SUFFICES ASSUME shape # None, Idle
               PROVE  LET pixels == {Unplaced(p) : p \in drawn}
                      IN  CASE shape.op = "line" -> IsLine(pixels, shape.from, shape.to)
                            [] shape.op = "filled" ->
                                 pixels = Block(shape.x, shape.y, shape.width, shape.height)
                            [] shape.op = "outline" ->
                                 pixels = Block(shape.x, shape.y, shape.width + 1, shape.height + 1)
                                            \ Block(shape.x + 1, shape.y + 1, shape.width - 1, shape.height - 1)
    BY Zenon DEF ShapesAsAsked
  <2>1. {Unplaced(p) : p \in drawn} = Seen(drawn)
    BY DEF Seen
  <2>2. Coords \subseteq Int /\ Sizes \subseteq Nat \ {0}
    BY <1>1, LinesAssumption
  <2>3. CASE \E a, b \in Coords \X Coords : LineInv(a, b)
    <3>1. PICK a, b \in Coords \X Coords : LineInv(a, b)
      BY <2>3
    <3>2. Drawn({}, a, b)
      <4>1. Drawn(Nothing[1 - 1], <<<<a, b>>>>[1][1], <<<<a, b>>>>[1][2])
        BY <3>1, PathEnds DEF LineInv
      <4>2. Nothing[1 - 1] = {} /\ <<<<a, b>>>>[1][1] = a /\ <<<<a, b>>>>[1][2] = b
        BY SMT DEF Nothing
      <4> QED BY <4>1, <4>2
    <3>3. Stroke(Seen(drawn), a, b)
      <4>1. PICK P : Stroke(P, a, b) /\ Seen(drawn) = {} \cup P
        BY <3>2 DEF Drawn
      <4>2. Seen(drawn) = P
        BY <4>1
      <4> QED BY <4>1, <4>2
    <3>4. IsLine(Seen(drawn), a, b)
      <4>1. a \in Int \X Int /\ b \in Int \X Int
        BY <2>2
      <4> QED BY <3>3, <4>1, StrokeIsLine
    <3>5. shape.op = "line" /\ shape.from = a /\ shape.to = b
      BY <3>1, ShapesDiffer DEF LineInv
    <3> QED BY <2>1, <3>4, <3>5
  <2>4. CASE \E u, v \in Coords, w, h \in Sizes : OutlineInv(u, v, w, h)
    <3>1. PICK u, v \in Coords, w, h \in Sizes : OutlineInv(u, v, w, h)
      BY <2>4
    <3>2. Drawn(Behind(u, v, w, h)[4 - 1], Sides(u, v, w, h)[4][1], Sides(u, v, w, h)[4][2])
      BY <3>1, PathEnds DEF OutlineInv
    <3>3. Seen(drawn) = Outline(u, v, w, h)
      <4>1. u \in Int /\ v \in Int /\ w \in Nat \ {0} /\ h \in Nat \ {0}
        BY <2>2
      <4>2. FourthCompletes(u, v, w, h)
        BY <4>1, OutlineWhole
      <4> QED BY <3>2, <4>2, Zenon DEF Drawn, FourthCompletes
    <3>4. shape.op = "outline" /\ shape.x = u /\ shape.y = v /\ shape.width = w /\ shape.height = h
      BY <3>1, ShapesDiffer DEF OutlineInv
    <3> QED BY <2>1, <3>3, <3>4 DEF Outline
  <2>5. CASE \E u, v \in Coords, w, h \in Sizes : AreaInv(u, v, w, h)
    <3>1. PICK u, v \in Coords, w, h \in Sizes : AreaInv(u, v, w, h)
      BY <2>5
    <3>2. shape.op = "filled" /\ shape.x = u /\ shape.y = v /\ shape.width = w /\ shape.height = h
      BY <3>1, ShapesDiffer DEF AreaInv
    <3>3. Seen(drawn) = Block(u, v, w, h)
      BY <3>1 DEF AreaInv
    <3> QED BY <2>1, <3>2, <3>3
  <2> QED BY <1>1, <2>3, <2>4, <2>5 DEF ShapesInv, ShapeInv, Untouched
<1>2. Coords \subseteq 0..239 => (Spec => []ShapesAsAsked)
  <2> SUFFICES ASSUME Coords \subseteq 0..239 PROVE Spec => []ShapesAsAsked
    OBVIOUS
  <2>1. ShapesInv => ShapesAsAsked
    BY <1>1
  <2> QED BY <2>1, ShapeInvariance, PTL
<1> QED BY <1>2
===============================================================================
