------------------------------ MODULE MCPaging ------------------------------
(* Small instances of Paging for TLC.  The boot image and the tables fill  *)
(* two page tables, so that the identity loop outgrows the first one, and  *)
(* the pages tasks allocate lie in two more.                               *)
EXTENDS Paging

CONSTANT MaxObjects      \* bound: other objects in the kernel heap at once

SplitPages == 59 .. 60

(* Every range is over all of UserPages, and only its first page written.  *)
BoundedRanges ==
    \E t \in Task :
        \/ RangeStart(t, Min(UserPages), Max(UserPages))
        \/ RangeTable(t) \/ RangeNext(t) \/ RangeSet(t)
        \/ \E x \in Value : Write(t, Min(UserPages), x)

BoundedAllocate == Allocate /\ Cardinality(objects') <= MaxObjects

Bounded == Boot \/ BoundedRanges \/ Clone \/ BoundedAllocate

BoundedSpec == Init /\ [][Bounded \/ KeepingRelease]_vars
=============================================================================
