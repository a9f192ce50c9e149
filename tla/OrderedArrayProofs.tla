------------------------- MODULE OrderedArrayProofs -------------------------
(* Proofs about OrderedArray: its loops stay within the array, and between *)
(* calls the items are sorted and are those that were inserted and not     *)
(* removed, for every capacity, item type and key.                         *)
EXTENDS OrderedArray, FiniteSetTheorems, TLAPS

(* Ordered(S): S has items, in the order of the predicate.                 *)
Ordered(S) ==
    /\ \A i \in S : array[i] \in Item
    /\ \A i, j \in S : i < j => key[array[i]] <= key[array[j]]

Room == size < capacity

(* Where the new item goes: everything before it is less.                  *)
ScanInv ==
    pc = "scan" =>
        /\ Ordered(0 .. size - 1) /\ Room
        /\ tmp \in Item /\ iterator <= size
        /\ \A i \in 0 .. iterator - 1 : key[array[i]] < key[tmp]

(* tmp is the item that belongs between the cells 0 .. iterator and those  *)
(* behind them.                                                            *)
ShiftInv ==
    pc = "shift" =>
        /\ Ordered(0 .. iterator) /\ Room /\ iterator <= size
        /\ Ordered(iterator + 1 .. size - 1)
        /\ iterator < size =>
              /\ tmp \in Item
              /\ \A i \in 0 .. iterator : key[array[i]] <= key[tmp]
              /\ \A j \in iterator + 1 .. size - 1 : key[tmp] <= key[array[j]]
        /\ \A i \in 0 .. iterator, j \in iterator + 1 .. size - 1 :
              key[array[i]] <= key[array[j]]

InsertedInv == pc = "inserted" => Ordered(0 .. size) /\ Room

(* The cell at iterator is the one to be overwritten, at last the last one.*)
Hole == IF iterator < size THEN iterator ELSE size - 1
RemoveInv ==
    pc = "remove" =>
        Ordered((0 .. size - 1) \ {Hole}) /\ Room /\ size > 0 /\ iterator <= size

IdleInv ==
    /\ pc = "idle" => Room
    /\ pc \in {"idle", "panic"} => Ordered(0 .. size - 1)

Inv == TypeOK /\ IdleInv /\ ScanInv /\ ShiftInv /\ InsertedInv /\ RemoveInv

USE OrderedArrayConstants

(* The constructor's empty array satisfies the invariant.                  *)
LEMMA InitInv == Init => Inv
  BY DEF Init, Inv, TypeOK, IdleInv, ScanInv, ShiftInv, InsertedInv, RemoveInv,
         Ordered, Cells, Room

(* Every turn of a loop preserves it.                                      *)
LEMMA StepInv == Inv /\ [Next]_vars => Inv'
<1> SUFFICES ASSUME Inv, [Next]_vars PROVE Inv'
  OBVIOUS
<1> USE DEF Inv, TypeOK, IdleInv, ScanInv, ShiftInv, InsertedInv, RemoveInv,
            Ordered, Cells, Room, Hole
<1>1. ASSUME NEW x \in Item, Insert(x) PROVE Inv'
  BY <1>1 DEF Insert
<1>2. CASE Scan
  BY <1>2 DEF Scan, Scans, predicate
<1>3. CASE Place
  <2>1. /\ pc = "scan" /\ size' = size /\ iterator' = iterator
        /\ iterator \in Cells /\ iterator <= size /\ tmp \in Item
        /\ array' \in [Cells -> Item \cup {Blank}]
        /\ array'[iterator] = tmp
        /\ \A i \in Cells \ {iterator} : array'[i] = array[i]
    BY <1>3 DEF Place
  <2>2. CASE iterator = size
    <3>1. pc' = "inserted" /\ tmp' = tmp
      BY <1>3, <2>2 DEF Place
    <3>2. Ordered(0 .. size)'
      BY <2>1, <2>2, SMTT(30)
    <3> QED
      BY <2>1, <2>2, <3>1, <3>2
  <2>3. CASE iterator # size
    <3>1. pc' = "shift" /\ tmp' = array[iterator]
      BY <1>3, <2>3 DEF Place
    <3>2. iterator < size /\ key[tmp] <= key[array[iterator]]
      BY <1>3, <2>1, <2>3 DEF Place, Scans, predicate
    <3>3. Ordered(0 .. iterator)' /\ Ordered(iterator + 1 .. size - 1)'
      BY <2>1, <3>2
    <3>4. /\ tmp' \in Item
          /\ \A i \in 0 .. iterator : key[array'[i]] <= key[tmp']
          /\ \A j \in iterator + 1 .. size - 1 : key[tmp'] <= key[array'[j]]
      BY <2>1, <3>1, <3>2
    <3>5. \A i \in 0 .. iterator, j \in iterator + 1 .. size - 1 :
             key[array'[i]] <= key[array'[j]]
      BY <2>1, <3>2, SMTT(30)
    <3> QED
      BY <2>1, <3>1, <3>2, <3>3, <3>4, <3>5
  <2> QED
    BY <2>2, <2>3
<1>4. CASE Shift
  BY <1>4 DEF Shift, Ends
<1>5. CASE Inserted
  BY <1>5 DEF Inserted, Ends
<1>6. ASSUME NEW i \in Cells, Remove(i) PROVE Inv'
  BY <1>6 DEF Remove
<1>7. CASE Close
  BY <1>7 DEF Close, Source
<1>8. CASE Removed
  BY <1>8 DEF Removed
<1>9. CASE UNCHANGED vars
  BY <1>9 DEF vars
<1> QED
  BY <1>1, <1>2, <1>3, <1>4, <1>5, <1>6, <1>7, <1>8, <1>9 DEF Next

(* The loops never leave the array and never run past its size.            *)
THEOREM StaysInside == Spec => []TypeOK
<1>1. Inv => TypeOK
  BY DEF Inv
<1> QED
  BY InitInv, StepInv, <1>1, PTL DEF Spec

(* Between calls the items are sorted, whatever was inserted and removed.  *)
THEOREM AlwaysSorted == Spec => []Sorted
<1>1. Inv => Sorted
  BY DEF Inv, IdleInv, Ordered, Sorted, predicate, TypeOK
<1> QED
  BY InitInv, StepInv, <1>1, PTL DEF Spec

-----------------------------------------------------------------------------
(* How often x is in the first n cells of the array a, the cell h left out *)
(* (none, when h is n).                                                    *)
Holding(a, n, h, x) == {c \in 0 .. n - 1 : c # h /\ a[c] = x}
Count(a, n, h, x) == Cardinality(Holding(a, n, h, x))
Is(y, x) == IF y = x THEN 1 ELSE 0

(* During a call the item that is not in its cell is in tmp, or in none.   *)
CountInv ==
    /\ held \in [Item -> Int]
    /\ \A x \in Item :
          /\ pc \in {"idle", "panic"} => Count(array, size, size, x) = held[x]
          /\ pc = "scan" \/ (pc = "shift" /\ iterator < size) =>
                Count(array, size, size, x) + Is(tmp, x) = held[x]
          /\ pc = "inserted" \/ (pc = "shift" /\ iterator >= size) =>
                Count(array, size + 1, size + 1, x) = held[x]
          /\ pc = "remove" => Count(array, size, Hole, x) = held[x]

LEMMA CountType ==
    ASSUME NEW a, NEW n \in Nat, NEW h, NEW x
    PROVE  IsFiniteSet(Holding(a, n, h, x)) /\ Count(a, n, h, x) \in Nat
<1>1. 0 \in Int /\ n - 1 \in Int
  OBVIOUS
<1>2. IsFiniteSet(0 .. n - 1)
  BY <1>1, FS_Interval
<1>3. Holding(a, n, h, x) \in SUBSET (0 .. n - 1)
  BY DEF Holding
<1> QED
  BY <1>2, <1>3, FS_Subset, FS_CardinalityType DEF Count

LEMMA CountSame ==
    ASSUME NEW a, NEW b, NEW n, NEW h, NEW x,
           \A c \in 0 .. n - 1 : c # h => a[c] = b[c]
    PROVE  Count(a, n, h, x) = Count(b, n, h, x)
<1>1. Holding(a, n, h, x) = Holding(b, n, h, x)
  BY DEF Holding
<1> QED
  BY <1>1 DEF Count

(* One cell more in a set of cells, or none.                               *)
LEMMA HoldingMore ==
    ASSUME NEW S, NEW T, NEW d, NEW y, NEW x, IsFiniteSet(S), d \notin S,
           T = IF y = x THEN S \cup {d} ELSE S
    PROVE  Cardinality(T) = Cardinality(S) + Is(y, x)
<1>1. Cardinality(S) \in Nat /\ Cardinality(S \cup {d}) = Cardinality(S) + 1
  BY FS_CardinalityType, FS_AddElement
<1> QED
  BY <1>1 DEF Is

LEMMA CountNext ==
    ASSUME NEW a, NEW n \in Nat, NEW x
    PROVE  Count(a, n + 1, n + 1, x) = Count(a, n, n, x) + Is(a[n], x)
<1>1. PICK S, T : S = Holding(a, n, n, x) /\ T = Holding(a, n + 1, n + 1, x)
  OBVIOUS
<1>2. IsFiniteSet(S) /\ n \notin S
  <2>1. IsFiniteSet(Holding(a, n, n, x))
    BY CountType
  <2> QED
    BY <1>1, <2>1 DEF Holding
<1>3. T = IF a[n] = x THEN S \cup {n} ELSE S
  BY <1>1 DEF Holding
<1>4. Cardinality(T) = Cardinality(S) + Is(a[n], x)
  BY <1>2, <1>3, HoldingMore
<1> QED
  BY <1>1, <1>4 DEF Count

LEMMA CountBut ==
    ASSUME NEW a, NEW n \in Nat, NEW d \in 0 .. n - 1, NEW x
    PROVE  Count(a, n, n, x) = Count(a, n, d, x) + Is(a[d], x)
<1>1. PICK S, T : S = Holding(a, n, d, x) /\ T = Holding(a, n, n, x)
  OBVIOUS
<1>2. IsFiniteSet(S) /\ d \notin S
  <2>1. IsFiniteSet(Holding(a, n, d, x))
    BY CountType
  <2> QED
    BY <1>1, <2>1 DEF Holding
<1>3. T = IF a[d] = x THEN S \cup {d} ELSE S
  BY <1>1 DEF Holding
<1>4. Cardinality(T) = Cardinality(S) + Is(a[d], x)
  BY <1>2, <1>3, HoldingMore
<1> QED
  BY <1>1, <1>4 DEF Count

(* The cell d takes another item, the one it held is kept outside.         *)
LEMMA CountExchange ==
    ASSUME NEW a, NEW b, NEW n \in Nat, NEW d \in 0 .. n - 1, NEW x,
           \A c \in 0 .. n - 1 : c # d => a[c] = b[c]
    PROVE  Count(b, n, n, x) + Is(a[d], x) = Count(a, n, n, x) + Is(b[d], x)
<1>1. Count(a, n, d, x) = Count(b, n, d, x)
  BY CountSame
<1>2. Count(a, n, d, x) \in Nat /\ Is(a[d], x) \in Nat /\ Is(b[d], x) \in Nat
  BY CountType DEF Is
<1>3. /\ Count(a, n, n, x) = Count(a, n, d, x) + Is(a[d], x)
      /\ Count(b, n, n, x) = Count(b, n, d, x) + Is(b[d], x)
  BY CountBut
<1> QED
  BY <1>1, <1>2, <1>3

(* The item of cell d moves to cell e, whose item was left out.            *)
LEMMA CountMove ==
    ASSUME NEW a, NEW b, NEW n \in Nat, NEW d \in 0 .. n - 1, NEW e \in 0 .. n - 1,
           NEW x, d # e, b[e] = a[d],
           \A c \in 0 .. n - 1 : c \notin {d, e} => a[c] = b[c]
    PROVE  Count(b, n, d, x) = Count(a, n, e, x)
<1>1. PICK R, S, T :
          /\ R = {c \in Holding(a, n, d, x) : c # e}
          /\ S = Holding(b, n, d, x) /\ T = Holding(a, n, e, x)
  OBVIOUS
<1>2. IsFiniteSet(R) /\ d \notin R /\ e \notin R
  <2>1. R \in SUBSET Holding(a, n, d, x)
    BY <1>1
  <2>2. d \notin R /\ e \notin R
    BY <1>1 DEF Holding
  <2> QED
    BY <2>1, <2>2, CountType, FS_Subset
<1>3. S = IF b[e] = x THEN R \cup {e} ELSE R
  BY <1>1 DEF Holding
<1>4. T = IF a[d] = x THEN R \cup {d} ELSE R
  BY <1>1 DEF Holding
<1>5. Cardinality(S) = Cardinality(R) + Is(b[e], x)
  BY <1>2, <1>3, HoldingMore
<1>6. Cardinality(T) = Cardinality(R) + Is(a[d], x)
  BY <1>2, <1>4, HoldingMore
<1> QED
  BY <1>1, <1>5, <1>6 DEF Count

LEMMA InitCount == Init => CountInv
<1> SUFFICES ASSUME Init PROVE CountInv
  OBVIOUS
<1>1. \A x : Holding(array, size, size, x) = {}
  BY DEF Init, Holding
<1>2. \A x : Count(array, size, size, x) = 0
  BY <1>1, FS_EmptySet DEF Count
<1> QED
  BY <1>2 DEF Init, CountInv

(* The two ways an item comes to its cell: the item there goes to tmp, or  *)
(* the cell was the first unused one.                                      *)
LEMMA StepStore ==
    ASSUME Inv, Inv', CountInv, held' = held, size' = size,
           pc' \in {"shift", "inserted"},
           pc = "scan" \/ (pc = "shift" /\ iterator < size),
           NEW d \in 0 .. size, array'[d] = tmp,
           \A c \in 0 .. size : c # d => array'[c] = array[c],
           d < size  => pc' = "shift" /\ iterator' < size /\ tmp' = array[d],
           d >= size => pc' = "inserted" \/ iterator' >= size
    PROVE  CountInv'
<1>0. size \in Nat /\ iterator \in Nat /\ iterator' \in Nat
  BY DEF Inv, TypeOK
<1>1. PICK a, b : a = array /\ b = array'
  OBVIOUS
<1>2. \A x \in Item : Count(a, size, size, x) + Is(tmp, x) = held[x]
  BY <1>1 DEF CountInv
<1>3. CASE d < size
  <2>1. ASSUME NEW x \in Item PROVE Count(b, size, size, x) + Is(tmp', x) = held[x]
    <3>1. d \in 0 .. size - 1 /\ \A c \in 0 .. size - 1 : c # d => a[c] = b[c]
      BY <1>0, <1>1, <1>3
    <3>2. Count(b, size, size, x) + Is(a[d], x) = Count(a, size, size, x) + Is(b[d], x)
      BY <1>0, <3>1, CountExchange
    <3>3. b[d] = tmp /\ a[d] = tmp'
      BY <1>1, <1>3
    <3> QED
      BY <1>2, <3>2, <3>3
  <2>2. pc' = "shift" /\ iterator' < size
    BY <1>3
  <2>3. ~(iterator' >= size)
    BY <1>0, <2>2
  <2> QED
    BY <1>1, <2>1, <2>2, <2>3 DEF CountInv
<1>4. CASE d = size
  <2>1. ASSUME NEW x \in Item PROVE Count(b, size + 1, size + 1, x) = held[x]
    <3>1. \A c \in 0 .. size - 1 : c # size => a[c] = b[c]
      BY <1>0, <1>1, <1>4
    <3>2. Count(a, size, size, x) = Count(b, size, size, x)
      BY <3>1, CountSame
    <3>3. Count(b, size + 1, size + 1, x) = Count(b, size, size, x) + Is(b[size], x)
      BY <1>0, CountNext
    <3>4. b[size] = tmp
      BY <1>1, <1>4
    <3> QED
      BY <1>2, <3>2, <3>3, <3>4
  <2>2. pc' = "inserted" \/ (pc' = "shift" /\ ~(iterator' < size))
    BY <1>0, <1>4
  <2> QED
    BY <1>1, <2>1, <2>2 DEF CountInv
<1> QED
  BY <1>0, <1>3, <1>4

LEMMA StepCount == Inv /\ Inv' /\ CountInv /\ [Next]_vars => CountInv'
<1> SUFFICES ASSUME Inv, Inv', CountInv, [Next]_vars PROVE CountInv'
  OBVIOUS
<1>0. /\ held \in [Item -> Int] /\ size \in 0 .. capacity /\ iterator \in 0 .. capacity
      /\ array \in [Cells -> Item \cup {Blank}] /\ size \in Nat
      /\ iterator' \in 0 .. capacity
  BY DEF Inv, TypeOK, CountInv
<1>1. ASSUME NEW y \in Item, Insert(y) PROVE CountInv'
  <2>1. /\ pc = "idle" /\ pc' = "scan" /\ tmp' = y /\ UNCHANGED <<array, size>>
        /\ held' = [held EXCEPT ![y] = @ + 1]
    BY <1>1 DEF Insert
  <2>2. \A x \in Item : held'[x] = held[x] + Is(y, x)
    BY <1>0, <2>1 DEF Is
  <2>3. held' \in [Item -> Int]
    BY <1>0, <2>1
  <2> QED
    BY <2>1, <2>2, <2>3 DEF CountInv
<1>2. CASE Scan
  BY <1>2 DEF Scan, CountInv
<1>3. CASE Place
  <2>1. /\ pc = "scan" /\ UNCHANGED <<size, held, iterator>> /\ iterator \in 0 .. size
        /\ array' = [array EXCEPT ![iterator] = tmp] /\ size < capacity
    BY <1>0, <1>3 DEF Place, Inv, ScanInv, Room
  <2>2. /\ array'[iterator] = tmp
        /\ \A c \in 0 .. size : c # iterator => array'[c] = array[c]
    BY <1>0, <2>1 DEF Cells
  <2>3. CASE iterator = size
    BY <1>0, <1>3, <2>1, <2>2, <2>3, StepStore DEF Place
  <2>4. CASE iterator # size
    <3>1. /\ pc' = "shift" /\ tmp' = array[iterator] /\ iterator < size
          /\ iterator' < size /\ ~(iterator >= size)
      BY <1>0, <1>3, <2>1, <2>4 DEF Place
    <3> QED
      BY <2>1, <2>2, <3>1, StepStore
  <2> QED
    BY <2>3, <2>4
<1>4. CASE Shift
  <2>1. /\ pc = "shift" /\ pc' = "shift" /\ UNCHANGED <<size, held>> /\ iterator < size
        /\ array' = [array EXCEPT ![iterator + 1] = tmp]
        /\ tmp' = array[iterator + 1] /\ iterator' = iterator + 1
        /\ size < capacity
    BY <1>0, <1>4 DEF Shift, Ends, Inv, ShiftInv, Room
  <2>2. PICK d \in 0 .. size : d = iterator + 1
    BY <1>0, <2>1
  <2>3. array'[d] = tmp /\ \A c \in 0 .. size : c # d => array'[c] = array[c]
    BY <1>0, <2>1, <2>2 DEF Cells
  <2>4. /\ d < size => iterator' < size /\ tmp' = array[d]
        /\ d >= size => iterator' >= size
    BY <1>0, <2>1, <2>2
  <2> QED
    BY <2>1, <2>3, <2>4, StepStore
<1>5. CASE Inserted
  <2>1. /\ pc = "inserted" \/ (pc = "shift" /\ iterator >= size)
        /\ size' = size + 1 /\ pc' \in {"idle", "panic"} /\ UNCHANGED <<array, held>>
    BY <1>5 DEF Inserted, Ends
  <2>2. \A x \in Item : Count(array, size + 1, size + 1, x) = held[x]
    BY <2>1 DEF CountInv
  <2> QED
    BY <1>0, <2>1, <2>2 DEF CountInv
<1>6. ASSUME NEW d \in Cells, Remove(d) PROVE CountInv'
  <2>1. /\ pc = "idle" /\ pc' = "remove" /\ iterator' = d /\ UNCHANGED <<array, size>>
        /\ held' = [held EXCEPT ![array[d]] = @ - 1] /\ d \in 0 .. size - 1
    BY <1>0, <1>6 DEF Remove, Cells
  <2>2. Hole' = d /\ held' \in [Item -> Int]
    <3>1. Hole' = d
      BY <1>0, <2>1 DEF Hole
    <3>2. held' \in [Item -> Int]
      <4>1. array[d] \in Item
        BY <2>1 DEF Inv, TypeOK
      <4> QED
        BY <1>0, <2>1, <4>1
    <3> QED
      BY <3>1, <3>2
  <2>3. ASSUME NEW x \in Item PROVE Count(array, size, d, x) = held'[x]
    <3>1. PICK a : a = array
      OBVIOUS
    <3>2. Count(a, size, size, x) = Count(a, size, d, x) + Is(a[d], x)
      BY <1>0, <2>1, CountBut
    <3>3. Count(a, size, d, x) \in Nat
      BY <1>0, CountType
    <3>4. held'[x] = held[x] - Is(array[d], x)
      BY <1>0, <2>1 DEF Is
    <3>5. Count(a, size, size, x) = held[x]
      BY <2>1, <3>1 DEF CountInv
    <3>6. Is(a[d], x) \in Int
      BY DEF Is
    <3> QED
      BY <3>1, <3>2, <3>3, <3>4, <3>5, <3>6
  <2> QED
    BY <2>1, <2>2, <2>3 DEF CountInv
<1>7. CASE Close
  <2>1. /\ pc = "remove" /\ pc' = "remove" /\ UNCHANGED <<size, held>> /\ iterator < size
        /\ array' = [array EXCEPT ![iterator] = array[iterator + 1]]
        /\ iterator' = iterator + 1 /\ Hole = iterator
    BY <1>7 DEF Close, Source, Hole
  <2>2. PICK a, b : a = array /\ b = array'
    OBVIOUS
  <2>3. /\ b[iterator] = a[iterator + 1] /\ iterator \in 0 .. size - 1
        /\ \A c \in 0 .. size - 1 : c # iterator => a[c] = b[c]
    BY <1>0, <2>1, <2>2 DEF Cells
  <2>4. \A x \in Item : Count(a, size, iterator, x) = held[x]
    BY <2>1, <2>2 DEF CountInv
  <2>5. ASSUME NEW x \in Item PROVE Count(b, size, Hole', x) = held[x]
    <3>1. CASE iterator + 1 = size
      <4>1. Hole' = iterator
        BY <1>0, <2>1, <3>1 DEF Hole
      <4>2. Count(a, size, iterator, x) = Count(b, size, iterator, x)
        BY <2>3, CountSame
      <4> QED
        BY <2>4, <4>1, <4>2
    <3>2. CASE iterator + 1 # size
      <4>1. PICK e \in 0 .. size - 1 : e = iterator + 1
        BY <1>0, <2>1, <3>2
      <4>2. Hole' = e /\ e # iterator
        BY <1>0, <2>1, <3>2, <4>1 DEF Hole
      <4>3. Count(b, size, e, x) = Count(a, size, iterator, x)
        BY <1>0, <2>3, <4>1, <4>2, CountMove
      <4> QED
        BY <2>4, <4>2, <4>3
    <3> QED
      BY <3>1, <3>2
  <2> QED
    BY <1>0, <2>1, <2>2, <2>5 DEF CountInv
<1>8. CASE Removed
  <2>1. /\ pc = "remove" /\ pc' = "idle" /\ size' = size - 1 /\ UNCHANGED <<array, held>>
        /\ Hole = size - 1
    BY <1>0, <1>8 DEF Removed, Hole
  <2>2. \A x \in Item : Holding(array, size, size - 1, x) = Holding(array, size', size', x)
    BY <1>0, <2>1 DEF Holding
  <2>3. \A x \in Item : Count(array, size', size', x) = Count(array, size, Hole, x)
    BY <2>1, <2>2 DEF Count
  <2> QED
    BY <1>0, <2>1, <2>3 DEF CountInv
<1>9. CASE UNCHANGED vars
  BY <1>9 DEF vars, CountInv, Hole
<1> QED
  BY <1>1, <1>2, <1>3, <1>4, <1>5, <1>6, <1>7, <1>8, <1>9 DEF Next

(* Between calls the array has what was inserted and not removed, each as  *)
(* often: moving the items one by one loses none and doubles none.         *)
THEOREM AlwaysConserved == Spec => []Conserved
<1>1. Inv /\ CountInv => Conserved
  <2> SUFFICES ASSUME Inv, CountInv, pc \in {"idle", "panic"}, NEW x \in Item
               PROVE  Cardinality({i \in 0 .. size - 1 : array[i] = x}) = held[x]
    BY DEF Conserved
  <2>1. {i \in 0 .. size - 1 : array[i] = x} = Holding(array, size, size, x)
    BY DEF Holding, Inv, TypeOK
  <2> QED
    BY <2>1 DEF CountInv, Count
<1> QED
  BY InitInv, StepInv, InitCount, StepCount, <1>1, PTL DEF Spec
=============================================================================
