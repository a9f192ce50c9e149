------------------------------- MODULE MCHeap -------------------------------
(* Small instances of Heap for TLC.  Pages are a few words long.           *)
EXTENDS Heap

CONSTANTS MaxLive      \* bound: blocks held at once

Request(s, a) == [size |-> s, align |-> a]
AllRequests     == {Request(20, FALSE), Request(28, FALSE), Request(8, TRUE)}
GrowingRequests == {Request(s, FALSE) : s \in {8, 40}}

(* Next, with as many blocks as the bound allows.                          *)
BoundedTake == CarefulTake /\ Cardinality(live) < MaxLive

BoundedSpec ==
    Init /\ [][CarefulAlloc \/ CarefulGrow \/ BoundedTake \/ CarefulFree]_vars

(* The same without the clause that a heap is expanded at a hole.          *)
GrowAnywhere == Grow /\ Start + ExpandedLength <= MaxAddress

GrowAnywhereSpec ==
    Init /\ [][CarefulAlloc \/ GrowAnywhere \/ BoundedTake \/ CarefulFree]_vars
=============================================================================
