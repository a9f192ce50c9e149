------------------------------- MODULE Vector -------------------------------
(***************************************************************************)
(* vector<T, N> (vector.h): the list of fixed capacity behind the tables   *)
(* of the system calls.  insert and remove move the items one by one; each *)
(* turn of their loops is a step.  insert is called with an index up to    *)
(* the size: a larger one below N passes its assertions and leaves cells   *)
(* nobody wrote between the items (vector.h:84).                           *)
(***************************************************************************)
EXTENDS Naturals, Sequences

CONSTANTS
    Item,       \* what may be stored
    Junk,       \* what lies in a cell nobody wrote, and behind the array
    N           \* the capacity, a template argument

VARIABLES
    array_,     \* the cells
    size_,
    pc,         \* "idle", the loop that is running, or "panic"
    index, i,   \* of the running loop
    held,       \* t of insert, ret of remove
    popped      \* what the last removal returned

vars == <<array_, size_, pc, index, i, held, popped>>

Cells == 0 .. N - 1

Init ==
    /\ array_ = [c \in Cells |-> Junk] /\ size_ = 0
    /\ pc = "idle" /\ index = 0 /\ i = 0 /\ held = Junk /\ popped = <<>>

(* The locals of a call are gone when it returns.                          *)
Return == pc' = "idle" /\ index' = 0 /\ i' = 0 /\ held' = Junk

(* A failed ASSERT.                                                        *)
Panic == pc' = "panic" /\ UNCHANGED <<array_, size_, index, i, held, popped>>

push_back(t) ==
    /\ pc = "idle"
    /\ IF size_ < N
       THEN /\ array_' = [array_ EXCEPT ![size_] = t]
            /\ size_' = size_ + 1
            /\ UNCHANGED <<pc, index, i, held, popped>>
       ELSE Panic

pop_back ==
    /\ pc = "idle"
    /\ IF size_ > 0
       THEN /\ size_' = size_ - 1
            /\ popped' = <<array_[size_ - 1]>>
            /\ UNCHANGED <<array_, pc, index, i, held>>
       ELSE Panic

insert(n, t) ==
    /\ pc = "idle" /\ n <= size_
    /\ IF n < N /\ size_ < N
       THEN /\ pc' = "insert" /\ index' = n /\ i' = size_ /\ held' = t
            /\ UNCHANGED <<array_, size_, popped>>
       ELSE Panic

push_front(t) == insert(0, t)

(* The loop of insert, from the end down to index.                         *)
MoveBack_ToFront(k) == k > 0  \* mutation
MoveBack(k) == k > index

insert_loop ==
    /\ pc = "insert" /\ MoveBack(i)
    /\ array_' = [array_ EXCEPT ![i] = array_[i - 1]]
    /\ i' = i - 1
    /\ UNCHANGED <<size_, pc, index, held, popped>>

insert_end ==
    /\ pc = "insert" /\ ~MoveBack(i)
    /\ array_' = [array_ EXCEPT ![index] = held]
    /\ size_' = size_ + 1 /\ Return /\ UNCHANGED popped

remove(n) ==
    /\ pc = "idle"
    /\ IF n < N /\ size_ > 0 /\ n < size_
       THEN /\ pc' = "remove" /\ index' = n /\ i' = n /\ held' = array_[n]
            /\ UNCHANGED <<array_, size_, popped>>
       ELSE Panic

pop_front == remove(0)

(* The loop of remove reads the cell behind the last item, which in a full *)
(* vector is not in the array; what it read is never looked at.            *)
remove_loop ==
    /\ pc = "remove" /\ i < size_
    /\ array_' = [array_ EXCEPT ![i] = IF i + 1 \in Cells THEN array_[i + 1] ELSE Junk]
    /\ i' = i + 1
    /\ UNCHANGED <<size_, pc, index, held, popped>>

remove_end ==
    /\ pc = "remove" /\ i >= size_
    /\ size_' = size_ - 1 /\ popped' = <<held>> /\ Return /\ UNCHANGED array_

Next ==
    \/ \E t \in Item : push_front(t) \/ push_back(t)
    \/ pop_front \/ pop_back
    \/ \E n \in Cells, t \in Item : insert(n, t)
    \/ \E n \in Cells : n < size_ /\ remove(n)
    \/ insert_loop \/ insert_end \/ remove_loop \/ remove_end

Spec == Init /\ [][Next]_vars

-----------------------------------------------------------------------------
(* The list the cells stand for.  While a loop runs it is the list before  *)
(* the call: an insert has copied the items from i on one cell up, a       *)
(* remove the items up to i one cell down.                                 *)
StandsFor(k) ==
    CASE pc = "insert" /\ k >= i             -> array_[k + 1]
      [] pc = "remove" /\ k = index          -> held
      [] pc = "remove" /\ index < k /\ k <= i -> array_[k - 1]
      [] OTHER                               -> array_[k]

Promised == INSTANCE List WITH
    Longest <- N,
    list    <- [k \in 1 .. size_ |-> StandsFor(k - 1)],
    given   <- popped,
    stopped <- pc = "panic"

(* Whatever the loops do in between, callers see a list (vector.h:63-99):  *)
(* the operations put items in and take them out where they say, in one    *)
(* step each, and only a full or an empty vector stops the kernel.         *)
IsList == Promised!Spec
=============================================================================
