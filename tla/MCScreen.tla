------------------------------ MODULE MCScreen ------------------------------
(* A small screen for TLC: one task that prints anything, or two that      *)
(* print text and new lines.                                               *)
EXTENDS Screen, TLC

CONSTANTS MaxRows,     \* bound: rows of paper that are typed
          MaxCursor    \* bound: two writers print on while no x or y in use is over it

BiosCell == [char |-> "bios", color |-> "none"]

Symmetry == Permutations(Task)

Piece(conv, args) == {[conv |-> conv, arg |-> a] : a \in args}
Texts   == Piece("text", {"a"} \cup Control)
Numbers == UNION {Piece("d", {-(Word \div 2), 7}), Piece("u", {0, Word - 6}), Piece("x", {10})}
Strings == Piece("s", {NULL, <<>>, <<"a", "NL">>})
Others  == Piece("c", {"a"}) \cup Piece("f", {"a"})
AllPieces == Texts \cup Numbers \cup Strings \cup Others

BoundedPrintf(t, pieces) ==
    /\ {x, y} \cup {job[u].reg : u \in Task} \subseteq 0 .. MaxCursor
    /\ Printf(t, pieces) /\ Len(typed'.paper) <= MaxRows

(* One conversion is printed, in the last row of the screen, with a        *)
(* character of the format before it and new lines behind it, in one       *)
(* colour.                                                                 *)
Plain == \A r \in DOMAIN typed.paper : \A c \in Columns :
            typed.paper[r][c].char \in {"a", "blank", "bios"}

BoundedConversion(t, p) ==
    /\ Alone /\ typed.line = ROWS /\ Plain /\ color = Default
    /\ BoundedPrintf(t, <<[conv |-> "text", arg |-> "a"], p>>)

Printing(t) ==
    \/ \E p \in Texts : (p.arg = "NL" \/ Plain) /\ (Alone \/ p.arg \in {"a", "NL", "TAB"}) /\ BoundedPrintf(t, <<p>>)
    \/ \E p \in Numbers : BoundedConversion(t, p)
    \/ \E p \in Strings : BoundedConversion(t, p)
    \/ \E p \in Others : BoundedConversion(t, p)

(* The colour is changed once, in the last row of the screen, by a task    *)
(* that prints alone.                                                      *)
ChangeOnce(t, k) ==
    /\ Alone /\ Plain /\ typed.line = ROWS
    /\ color = Default /\ k # Default /\ SetColor(t, k)

BoundedNext ==
    \/ Initialize
    \/ \E t \in Task : \/ Printing(t)
                       \/ \E k \in Color : ChangeOnce(t, k)
                       \/ Step(t)

BoundedSpec == Init /\ [][BoundedNext]_vars
=============================================================================
