---------------------------- MODULE MCContainers ----------------------------
(* The kernel's two containers for TLC: a small ordered array with two     *)
(* items of the same key, and a small vector.  A behaviour is about one of *)
(* them.                                                                   *)
EXTENDS OrderedArray

MCItem == {"a", "b", "c"}
MCKey  == [x \in MCItem |-> IF x = "c" THEN 2 ELSE 1]

VARIABLES container, array_, size_, vpc, index, i, vheld, popped
vvars == <<array_, size_, vpc, index, i, vheld, popped>>

V == INSTANCE Vector WITH
    Item <- MCItem \ {"c"}, Junk <- Blank, N <- 4, pc <- vpc, held <- vheld

MCInit == Init /\ V!Init /\ container \in {"ordered array", "vector"}

MCNext ==
    \/ container = "ordered array" /\ Next /\ UNCHANGED <<container, vvars>>
    \/ container = "vector" /\ V!Next /\ UNCHANGED <<container, vars>>

MCSpec == MCInit /\ [][MCNext]_<<container, vars, vvars>>

IsList == V!IsList
=============================================================================
