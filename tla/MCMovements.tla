------------------------------ MODULE MCMovements -----------------------------
(* The turns of MCTurns, the line of MCLineFollow, and headings around the    *)
(* full turn for ud_head.                                                    *)
EXTENDS Movements, MCTurns, MCLineFollow

MCStarts == {a \in Angle : a % (9 * Degree) = 0}
MCMoves == {-2, -1, 0, 1, 3}
===============================================================================
