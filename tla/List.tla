-------------------------------- MODULE List --------------------------------
(***************************************************************************)
(* What a list of bounded length promises its callers: each operation is   *)
(* one step on a sequence, and one that cannot be done stops the program.  *)
(***************************************************************************)
EXTENDS Naturals, Sequences

CONSTANTS
    Item,
    Longest     \* the length it may have

VARIABLES
    list,
    given,      \* what the last removal gave back
    stopped

vars == <<list, given, stopped>>

Init == list = <<>> /\ given = <<>> /\ stopped = FALSE

(* x comes to stand behind the first n items.                              *)
Add(n, x) ==
    /\ Len(list) < Longest /\ ~stopped
    /\ list' = SubSeq(list, 1, n) \o <<x>> \o SubSeq(list, n + 1, Len(list))
    /\ UNCHANGED <<given, stopped>>

(* The item behind the first n is given back.                              *)
Take(n) ==
    /\ n < Len(list) /\ ~stopped
    /\ given' = <<list[n + 1]>>
    /\ list' = SubSeq(list, 1, n) \o SubSeq(list, n + 2, Len(list))
    /\ UNCHANGED stopped

Stop ==
    /\ Len(list) \in {0, Longest} /\ ~stopped
    /\ stopped' = TRUE /\ UNCHANGED <<list, given>>

Next ==
    \/ \E n \in 0 .. Len(list), x \in Item : Add(n, x)
    \/ \E n \in 0 .. Len(list) : Take(n)
    \/ Stop

Spec == Init /\ [][Next]_vars
=============================================================================
