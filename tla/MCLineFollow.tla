----------------------------- MODULE MCLineFollow ------------------------------
(* LineFollow with the sleeps of the code: a search of 100 steps of 10 ms each *)
(* way, ten steps between two decisions, and a line that is a little wider.    *)
EXTENDS LineFollow

\* Anywhere about the line, and from near to beyond the reach of the search.
MCBckStarts == -14..14 \cup {p \in -130..130 : p % 13 = 0}
\* Just to the left of the line.
MCNearLine == {-10}
===============================================================================
