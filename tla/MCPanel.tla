-------------------------------- MODULE MCPanel -------------------------------
(* All letters, strings that fill up a line or break it, circles of any size  *)
(* up to the height of the display.                                          *)
EXTENDS Panel

MCStrings == {<<>>, <<"char">>, <<"char", "char", "char">>, <<"\n">>, <<"char", "\n", "char">>}
MCRadii == 0..120
MCCoords == 0..5
MCSizes == 1..3
MCTimes == {1, 3}
===============================================================================
