---------------------------- MODULE OrderedArray ----------------------------
(***************************************************************************)
(* OrderedArray<T> (ordered_array.h): the fixed-size array the kernel heap *)
(* indexes its holes with.  Insert and Remove are modelled one turn of     *)
(* their loops at a time, on the array's cells.  key gives the order: the  *)
(* predicate of two items is key[a] < key[b], so items may tie.            *)
(***************************************************************************)
EXTENDS Integers, FiniteSets

CONSTANTS
    Item,       \* what may be inserted
    Blank,      \* what the constructor fills the cells with
    key,        \* Item -> its key
    capacity

ASSUME OrderedArrayConstants ==
    /\ key \in [Item -> Nat]
    /\ capacity \in Nat \ {0}
    /\ Blank \notin Item

VARIABLES
    array,      \* the cells; Blank where nothing has been stored
    size,
    pc,         \* "idle", the loop that is running, or "panic"
    iterator, tmp,
    held        \* ghost: item -> how often it should be in the array

vars == <<array, size, pc, iterator, tmp, held>>

Cells     == 0 .. capacity - 1
predicate(a, b) == key[a] < key[b]

Init ==
    /\ array = [i \in Cells |-> Blank] /\ size = 0
    /\ pc = "idle" /\ iterator = 0 /\ tmp = Blank
    /\ held = [x \in Item |-> 0]

(* Insert: find the first item that is not less.                           *)
Insert(x) ==
    /\ pc = "idle"
    /\ pc' = "scan" /\ iterator' = 0 /\ tmp' = x
    /\ held' = [held EXCEPT ![x] = @ + 1]
    /\ UNCHANGED <<array, size>>

Scans_One(i) == i < size /\ i = 0 /\ predicate(array[i], tmp)  \* mutation
Scans(i) == i < size /\ predicate(array[i], tmp)

Scan ==
    /\ pc = "scan" /\ Scans(iterator)
    /\ iterator' = iterator + 1
    /\ UNCHANGED <<array, size, pc, tmp, held>>

(* Append, or exchange items up to and including the first unused cell.    *)
Ends_AtLast(i) == i + 1 >= size  \* mutation
Ends(i) == i >= size

Place ==
    /\ pc = "scan" /\ ~Scans(iterator)
    /\ array' = [array EXCEPT ![iterator] = tmp]
    /\ IF iterator = size
       THEN /\ pc' = "inserted" /\ UNCHANGED <<iterator, tmp>>
       ELSE /\ pc' = "shift" /\ tmp' = array[iterator] /\ UNCHANGED iterator
    /\ UNCHANGED <<size, held>>

Shift ==
    /\ pc = "shift" /\ ~Ends(iterator)
    /\ iterator' = iterator + 1
    /\ array' = [array EXCEPT ![iterator + 1] = tmp]
    /\ tmp' = array[iterator + 1]
    /\ UNCHANGED <<size, pc, held>>

Inserted ==
    /\ pc = "inserted" \/ (pc = "shift" /\ Ends(iterator))
    /\ size' = size + 1
    /\ pc' = IF size + 1 < capacity THEN "idle" ELSE "panic"
    /\ UNCHANGED <<array, iterator, tmp, held>>

(* Remove: move the items behind the ith forward, the cell at size too.    *)
Remove(i) ==
    /\ pc = "idle" /\ i < size
    /\ pc' = "remove" /\ iterator' = i
    /\ held' = [held EXCEPT ![array[i]] = @ - 1]
    /\ UNCHANGED <<array, size, tmp>>

Source_Skips(i) == IF i + 1 = size THEN i ELSE i + 2  \* mutation
Source(i) == i + 1

Close ==
    /\ pc = "remove" /\ iterator < size
    /\ array' = [array EXCEPT ![iterator] = array[Source(iterator)]]
    /\ iterator' = iterator + 1
    /\ UNCHANGED <<size, pc, tmp, held>>

Removed ==
    /\ pc = "remove" /\ iterator >= size
    /\ size' = size - 1 /\ pc' = "idle"
    /\ UNCHANGED <<array, iterator, tmp, held>>

Next ==
    \/ \E x \in Item : Insert(x)
    \/ Scan \/ Place \/ Shift \/ Inserted
    \/ \E i \in Cells : Remove(i)
    \/ Close \/ Removed

Spec == Init /\ [][Next]_vars

-----------------------------------------------------------------------------
(* Properties.                                                             *)

(* The loops stay within the array and below its size.                     *)
TypeOK ==
    /\ array \in [Cells -> Item \cup {Blank}]
    /\ size \in 0 .. capacity /\ iterator \in 0 .. capacity
    /\ tmp \in Item \cup {Blank}
    /\ pc \in {"idle", "scan", "shift", "inserted", "remove", "panic"}
    /\ pc # "remove" => \A i \in 0 .. size - 1 : array[i] \in Item

(* Between calls the items are in the order of the predicate, which is what*)
(* a search from the front relies on (heap.cc:298-317).                    *)
Sorted ==
    pc \in {"idle", "panic"} =>
        \A i, j \in 0 .. size - 1 : i < j => ~predicate(array[j], array[i])

(* Between calls the array has what was inserted and not removed, each as  *)
(* often (ordered_array.h:43-77).                                          *)
Conserved ==
    pc \in {"idle", "panic"} =>
        \A x \in Item : Cardinality({i \in 0 .. size - 1 : array[i] = x}) = held[x]
=============================================================================
