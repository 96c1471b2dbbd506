--------------------------------- MODULE Lines ---------------------------------
(***************************************************************************)
(* Straight lines, rectangles and orientations of the display, of            *)
(* src/Libraries/FEHLCD.cpp.  Every shape ends in SetDrawRegion, which turns  *)
(* the coordinates of the caller into a window of columns and rows of the     *)
(* panel, followed by the pixels that fill it; the controller of the panel    *)
(* fills the window row by row and starts over when it is full.               *)
(*                                                                          *)
(* DrawLine adds a float slope to a float ordinate; here the ordinate is an   *)
(* exact fraction over the length of the line, and the rounding of the floats *)
(* shows where it lies just between two pixels: either may be drawn.          *)
(***************************************************************************)
EXTENDS Display, Sequences, FiniteSets

CONSTANTS
    Coords,  \* the coordinates that lines are drawn between
    Sizes    \* the widths and heights of rectangles

ASSUME LinesAssumption == Coords \subseteq Nat /\ Sizes \subseteq Nat \ {0}

VARIABLES
    shape,  \* what was asked for, None before
    lines,  \* lines still to be drawn, each a pair of points
    pen,    \* DrawLine's loop, None outside it
    drawn   \* the pixels written, as <<column, row>> of the panel

linesVars == <<shape, lines, pen, drawn>>

None == [op |-> "none"]

LinesInit ==
    /\ shape = None /\ lines = <<>> /\ pen = None
    /\ drawn = {}

Idle == lines = <<>> /\ pen = None

\* _Clear empties the display.
TurnDisplay ==
    /\ shape = None
    /\ SetOrientation
    /\ drawn' = {}
    /\ UNCHANGED <<shape, lines, pen>>

-------------------------------------------------------------------------------
\* The rows of an upended display count down from _width.
SetDrawRegion(x, y, width, height) ==
    IF Upended
      THEN [cols |-> y..y + height - 1, rows |-> _width - x - (width - 1)..(_width - x)]
      ELSE [cols |-> x..x + width - 1, rows |-> y..y + height - 1]

\* What the controller makes of n pixels written to a window.
Filled(window, n) ==
    LET across == Cardinality(window.cols)
        left == CHOOSE c \in window.cols : \A d \in window.cols : c <= d
        top == CHOOSE r \in window.rows : \A s \in window.rows : r <= s
    IN  {p \in window.cols \X window.rows : (p[2] - top) * across + (p[1] - left) < n}

DrawPixel(x, y) == Filled(SetDrawRegion(x, y, 1, 1), 1)

\* Whatever the length, a full line's worth of pixels is written.
DrawHorizontalLine(y, x1, x2) ==
    LET from == IF x2 < x1 THEN x2 ELSE x1
        to == IF x2 < x1 THEN x1 ELSE x2
    IN  Filled(SetDrawRegion(from, y, to - from + 1, 1), _width)

DrawVerticalLine(x, y1, y2) ==
    LET from == IF y2 < y1 THEN y2 ELSE y1
        length == (IF y2 < y1 THEN y1 ELSE y2) - from + 1
    IN  Filled(SetDrawRegion(x, from, 1, length), length)

FillRectangle(x, y, width, height) ==
    Filled(SetDrawRegion(x, y, width, height), width * height)

-------------------------------------------------------------------------------
abs(z) == IF z < 0 THEN -z ELSE z
Swapped(p) == <<p[2], p[1]>>

\* The loop of DrawLine from a to b: it always runs over the first coordinate,
\* upwards, with the coordinates swapped if the line is steep.
LineLoop(a, b) ==
    LET steep == abs(b[2] - a[2]) > abs(b[1] - a[1])
        p == IF steep THEN Swapped(a) ELSE a
        q == IF steep THEN Swapped(b) ELSE b
        from == IF p[1] > q[1] THEN q ELSE p
        to == IF p[1] > q[1] THEN p ELSE q
    IN  [op |-> "loop", steep |-> steep, x |-> from[1], last |-> to[1],
         y |-> from[2] * (to[1] - from[1]),  \* times the length of the line
         rise |-> to[2] - from[2], length |-> to[1] - from[1]]

\* (int)(y + .5), where y is n divided by d.
Rounded_Truncated(n, d) == {n \div d}

Rounded(n, d) ==
    {(2 * n + d) \div (2 * d)}
        \cup {k \in {(2 * n - d) \div (2 * d)} : (2 * n - d) % (2 * d) = 0}

BeginLine ==
    /\ lines # <<>> /\ pen = None
    /\ LET a == Head(lines)[1]
           b == Head(lines)[2]
       IN  IF a = b
             THEN drawn' = drawn \cup DrawPixel(a[1], a[2]) /\ pen' = None
             ELSE pen' = LineLoop(a, b) /\ UNCHANGED drawn
    /\ lines' = Tail(lines)
    /\ UNCHANGED <<orientation, shape>>

PlotPixel ==
    /\ pen # None
    /\ \E y \in Rounded(pen.y, pen.length) :
          drawn' = drawn \cup IF pen.steep THEN DrawPixel(y, pen.x)
                                              ELSE DrawPixel(pen.x, y)
    /\ pen' = IF pen.x = pen.last THEN None
                 ELSE [pen EXCEPT !.x = @ + 1, !.y = @ + pen.rise]
    /\ UNCHANGED <<orientation, shape, lines>>

\* The four sides of DrawRectangle, which end a pixel right of and below those
\* of FillRectangle.
Sides(x, y, width, height) ==
    LET nw == <<x, y>>
        ne == <<x + width, y>>
        se == <<x + width, y + height>>
        sw == <<x, y + height>>
    IN  <<<<nw, ne>>, <<ne, se>>, <<se, sw>>, <<sw, nw>>>>

-------------------------------------------------------------------------------
CallDrawLine ==
    /\ shape = None
    /\ \E a, b \in Coords \X Coords :
          shape' = [op |-> "line", from |-> a, to |-> b] /\ lines' = <<<<a, b>>>>
    /\ UNCHANGED <<orientation, pen, drawn>>

CallDrawRectangle ==
    /\ shape = None
    /\ \E x, y \in Coords, w, h \in Sizes :
          /\ shape' = [op |-> "outline", x |-> x, y |-> y, width |-> w, height |-> h]
          /\ lines' = Sides(x, y, w, h)
    /\ UNCHANGED <<orientation, pen, drawn>>

CallFillRectangle ==
    /\ shape = None
    /\ \E x, y \in Coords, w, h \in Sizes :
          /\ shape' = [op |-> "filled", x |-> x, y |-> y, width |-> w, height |-> h]
          /\ drawn' = drawn \cup FillRectangle(x, y, w, h)
    /\ UNCHANGED <<orientation, lines, pen>>

\* The straight lines that FillCircle is made of.
CallDrawStraight ==
    /\ shape = None
    /\ \E a, b \in Coords \X Coords :
          /\ shape' = [op |-> "line", from |-> a, to |-> b]
          /\ \/ a[2] = b[2] /\ drawn' = drawn \cup DrawHorizontalLine(a[2], a[1], b[1])
             \/ a[1] = b[1] /\ drawn' = drawn \cup DrawVerticalLine(a[1], a[2], b[2])
    /\ UNCHANGED <<orientation, lines, pen>>

LinesNext ==
    \/ TurnDisplay \/ CallDrawLine \/ CallDrawRectangle \/ CallFillRectangle
    \/ CallDrawStraight \/ BeginLine \/ PlotPixel

-------------------------------------------------------------------------------
\* The caller's pixel at a place of the panel: an upended picture is that of North
\* turned by a quarter, and a row further down than the panel's 0..239.
Unplaced(p) == IF Upended THEN <<_width - p[2], p[1]>> ELSE p

\* A set of pixels is the line from a to b: one pixel for each step along its
\* longer side, at most half a pixel off, with both ends drawn.
IsLine(pixels, a, b) ==
    LET dx == b[1] - a[1]
        dy == b[2] - a[2]
        long == IF abs(dy) > abs(dx) THEN abs(dy) ELSE abs(dx)
    IN  /\ {a, b} \subseteq pixels
        /\ Cardinality(pixels) = long + 1
        /\ \A p \in pixels :
              2 * abs((p[1] - a[1]) * dy - (p[2] - a[2]) * dx) <= long
        /\ \A p, q \in pixels :
              p # q => IF abs(dy) > abs(dx) THEN p[2] # q[2] ELSE p[1] # q[1]

Block(x, y, width, height) == (x..x + width - 1) \X (y..y + height - 1)

\* Every shape comes out as asked for, in each orientation: a line is the nearest
\* one can draw with pixels, whatever its direction, an area has no hole and no
\* pixel too many, an outline is that of an area one pixel larger each way.
ShapesAsAsked ==
    shape # None /\ Idle =>
        LET pixels == {Unplaced(p) : p \in drawn}
        IN  CASE shape.op = "line" -> IsLine(pixels, shape.from, shape.to)
              [] shape.op = "filled" -> pixels = Block(shape.x, shape.y, shape.width, shape.height)
              [] shape.op = "outline" ->
                   pixels = Block(shape.x, shape.y, shape.width + 1, shape.height + 1)
                              \ Block(shape.x + 1, shape.y + 1, shape.width - 1, shape.height - 1)
===============================================================================
