------------------------------ MODULE MCFiles ------------------------------
(* Small images for TLC: two files of a few bytes, names that may be equal *)
(* or hidden behind "dev", and two tasks.                                  *)
EXTENDS Files

CONSTANT MaxFiles      \* bound: files in an image

TwoContents == {<<>>, <<"y", "x", "x">>}

SmallNext == \/ Build /\ Len(list') <= MaxFiles
             \/ Call

SmallSpec == Init /\ [][SmallNext]_vars /\ Fairness
=============================================================================
