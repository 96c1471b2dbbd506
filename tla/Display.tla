-------------------------------- MODULE Display --------------------------------
(***************************************************************************)
(* The orientation of the display, of src/Libraries/FEHLCD.cpp, which text     *)
(* and shapes share, and what depends on it.                                 *)
(***************************************************************************)
EXTENDS Integers

VARIABLE orientation

Orientation == {"North", "South", "East", "West"}
Upended == orientation \in {"East", "West"}

maxlines == IF Upended THEN 18 ELSE 14
maxcols == IF Upended THEN 19 ELSE 26
_width == IF Upended THEN 240 ELSE 320

SetOrientation == orientation' \in Orientation
===============================================================================
