-------------------------------- MODULE Heap --------------------------------
(***************************************************************************)
(* memory::Heap (memory/heap.cc): a heap of blocks and holes, each framed  *)
(* by a header and a footer in the heap's own memory, with an index of the *)
(* holes.  The memory is modelled word by word, so that a frame written on *)
(* top of another one is seen as what the code would read there.           *)
(*                                                                         *)
(* Addresses and sizes are bytes, frames are one word (4 bytes), requests  *)
(* are multiples of a word.  A request that finds no hole expands the heap *)
(* and is tried again: req holds it between those steps.                   *)
(***************************************************************************)
EXTENDS Integers, Sequences, FiniteSets

CONSTANTS
    Start,         \* first byte after the index array (start_address)
    InitialEnd,    \* end_addr of the constructor
    MaxAddress,    \* max_address
    Page,          \* PAGE_ALIGN
    MinSize,       \* HEAP_MIN_SIZE
    Capacity,      \* HEAP_INDEX_SIZE
    SizeMod,       \* the size fields wrap here (2^22)
    MaxAlloc,      \* the limit Alloc asserts (1 << 22)
    Requests,      \* bound: the [size, align] requests that are ever made
    ClientFills    \* TRUE when clients write over all of a payload they get;
                   \* otherwise whatever the heap left there stays

Word == 4
Overhead == 2 * Word                  \* a header and a footer
Words(from, to) == {a \in from .. to - 1 : a % Word = 0}

ASSUME HeapConstants ==
    /\ {Start, InitialEnd, MaxAddress, Page, MinSize, SizeMod, MaxAlloc} \subseteq Nat
    /\ Page >= Overhead /\ Page % Word = 0
    /\ \A a \in {Start, InitialEnd, MaxAddress, MinSize} : a % Page = 0
    /\ Page <= Start /\ Page <= MinSize /\ Start + MinSize <= InitialEnd /\ InitialEnd <= MaxAddress
    /\ ClientFills \in BOOLEAN
    /\ Capacity \in Nat \ {0, 1} /\ SizeMod > InitialEnd - Start
    /\ \A r \in Requests : r.size \in Nat /\ r.size % Word = 0 /\ r.align \in BOOLEAN

VARIABLES
    mem,           \* the words of the heap's address range
    index,         \* the index of holes: header addresses
    end_address,
    backed,        \* start addresses of the pages that have a frame
    live,          \* ghost: what clients hold, [p, size] of each Alloc's result
    req,           \* the request Alloc is working on, NoRequest when idle
    status         \* "ok"; "panic": an ASSERT failed; "outside": an access
                   \* outside the heap or of something that is not a frame

vars == <<mem, index, end_address, backed, live, req, status>>

NoRequest == [size |-> -1, align |-> FALSE]

-----------------------------------------------------------------------------
(* Frames.  bits is the word above its 9 magic bits: a Header keeps is_hole*)
(* in the lowest and size in the rest, a Footer size in all but the top.   *)
Zero      == [magic |-> FALSE, bits |-> 0]
HSize(w)  == w.bits \div 2
IsHole(w) == w.bits % 2 = 1
FSize(w)  == w.bits % SizeMod

Header(hole, size) == [magic |-> TRUE, bits |-> 2 * (size % SizeMod) + hole]
WithHSize_Kept(w, size) == w  \* mutation
WithHSize(w, size) == [w EXCEPT !.bits = 2 * (size % SizeMod) + (@ % 2)]
AsHole(w)  == [w EXCEPT !.bits = 2 * (@ \div 2) + 1]
WithFSize(w, size) ==
    [w EXCEPT !.bits = (@ \div SizeMod) * SizeMod + (size % SizeMod)]
Footer(w, size)    == [WithFSize(w, size) EXCEPT !.magic = TRUE]

Space     == DOMAIN mem
SizeAt(a) == HSize(mem[a])
Length    == end_address - Start

(* A step that fails leaves the machine halted.                            *)
Halt(how) ==
    /\ status' = how
    /\ req' = NoRequest
    /\ UNCHANGED <<mem, index, end_address, backed, live>>

-----------------------------------------------------------------------------
(* The index, an OrderedArray by size of the holes' headers in memory m.   *)
Inserted_Forgotten(ix, m, h) == ix  \* mutation
Inserted(ix, m, h) ==
    LET smaller(n) == \A i \in 1 .. n : HSize(m[ix[i]]) < HSize(m[h])
        k == CHOOSE n \in 0 .. Len(ix) :
                smaller(n) /\ (n = Len(ix) \/ ~smaller(n + 1))
    IN  SubSeq(ix, 1, k) \o <<h>> \o SubSeq(ix, k + 1, Len(ix))

Removed_Next(ix, i) ==  \* mutation
    IF i = Len(ix) THEN ix ELSE SubSeq(ix, 1, i) \o SubSeq(ix, i + 2, Len(ix))
Removed(ix, i) == SubSeq(ix, 1, i - 1) \o SubSeq(ix, i + 1, Len(ix))

RoundUp(n) == IF n >= Page THEN n - (n % Page) + Page ELSE n
PageOf(a)  == a - (a % Page)

-----------------------------------------------------------------------------
Init ==
    /\ mem = [a \in Words(Start - Word, MaxAddress) |->
                CASE a = Start -> Header(1, InitialEnd - Start)
                  [] a = InitialEnd - Word -> Footer(Zero, InitialEnd - Start)
                  [] OTHER -> Zero]
    /\ index = <<Start>>
    /\ end_address = InitialEnd
    /\ backed = {a \in Start .. InitialEnd - 1 : a % Page = 0}
    /\ live = {} /\ req = NoRequest /\ status = "ok"

-----------------------------------------------------------------------------
(* Alloc.                                                                  *)

Alloc(r) ==
    /\ status = "ok" /\ req = NoRequest
    /\ IF r.size <= MaxAlloc
       THEN req' = r /\ UNCHANGED <<mem, index, end_address, backed, live, status>>
       ELSE Halt("panic")

(* How far into a hole the block has to move to put its payload on a page. *)
AlignOffset(h) == IF h + Word >= Page THEN Page - ((h + Word) % Page) ELSE 0

Fits_Payload(h, r) ==  \* mutation
    SizeAt(h) - (IF r.align THEN AlignOffset(h) ELSE 0) >= r.size
Fits(h, r) ==
    SizeAt(h) - (IF r.align THEN AlignOffset(h) ELSE 0) >= r.size + Overhead

(* FindSmallestHole: the first hole in the index that is large enough.     *)
Fitting == {i \in DOMAIN index : Fits(index[i], req)}
FoundHole == CHOOSE i \in Fitting : \A j \in Fitting : i <= j

(* Expand and what Alloc does with the new space: it becomes a hole, or is *)
(* added to the hole with the highest address.                             *)
ExpandedLength == RoundUp(Length + req.size + Overhead)
HighestHole == CHOOSE h \in {index[i] : i \in DOMAIN index} :
                  \A i \in DOMAIN index : index[i] <= h

NewPages_Inclusive(added) ==  \* mutation
    {PageOf(end_address + k * Page) : k \in 0 .. added \div Page}
NewPages(added) ==
    {PageOf(end_address + k * Page) : k \in 0 .. (added - 1) \div Page}

Grow ==
    /\ req # NoRequest /\ Fitting = {}
    /\ IF Start + ExpandedLength > MaxAddress
       THEN Halt("panic")
       ELSE LET added == ExpandedLength - Length
                h     == IF index = <<>> THEN end_address ELSE HighestHole
                size  == IF index = <<>> THEN added
                         ELSE (SizeAt(h) + added) % SizeMod
                foot  == h + size - Word
                m     == [mem EXCEPT ![h] = IF index = <<>> THEN Header(1, size)
                                            ELSE WithHSize(@, size),
                                     ![foot] = Footer(@, size)]
            IN  IF foot \notin Space
                THEN Halt("outside")
                ELSE /\ mem' = m
                     /\ index' = IF index = <<>> THEN Inserted(index, m, h) ELSE index
                     /\ end_address' = Start + ExpandedLength
                     /\ backed' = backed \cup NewPages(added)
                     /\ UNCHANGED <<live, req, status>>

(* The block is cut from the front of the hole, or, for a page, from its   *)
(* middle: the front then stays in the index as a smaller hole.  What is   *)
(* left behind the block becomes a hole.                                   *)
Lead_IgnoresHeader(pos) == Page - (pos % Page)  \* mutation
Lead(pos) == Page - (pos % Page) - Word

Take ==
    /\ req # NoRequest /\ Fitting # {}
    /\ LET i       == FoundHole
           pos     == index[i]
           total   == SizeAt(pos)
           needed  == req.size + Overhead
           size    == IF total - needed < Overhead THEN total ELSE needed
           leads   == req.align /\ pos >= Page
           block   == IF leads THEN pos + Lead(pos) ELSE pos
           fronted == [mem EXCEPT ![pos] = Header(1, Lead(pos)),
                                  ![block - Word] = Footer(@, Lead(pos))]
           front   == IF leads THEN fronted ELSE mem
           rest    == IF leads THEN total - HSize(front[pos]) - size ELSE total - size
           foot    == block + size - Word
           after   == block + size
           last    == after + rest - Word
           framed  == [front EXCEPT ![block] = Header(0, size),
                                    ![foot] = Footer(@, size)]
           split   == [framed EXCEPT ![after] = Header(1, rest)]
           m       == IF rest = 0 THEN framed
                      ELSE IF last >= end_address THEN split
                      ELSE [split EXCEPT ![last] = Footer(@, rest)]
           kept    == IF leads THEN index ELSE Removed(index, i)
       IN  IF ~ {foot} \cup (IF rest = 0 THEN {} ELSE {after, last}) \subseteq Space
           THEN Halt("outside")
           ELSE IF rest # 0 /\ Len(kept) + 1 >= Capacity
           THEN Halt("panic")
           ELSE /\ mem' = [a \in Space |->
                              IF ClientFills /\ a > block /\ a < foot
                              THEN Zero ELSE m[a]]
                /\ index' = IF rest = 0 THEN kept ELSE Inserted(kept, m, after)
                /\ live' = live \cup {[p |-> block + Word, size |-> req.size,
                                       align |-> req.align]}
                /\ req' = NoRequest
                /\ UNCHANGED <<end_address, backed, status>>

-----------------------------------------------------------------------------
(* Free.                                                                   *)

(* Contract: one bit of the size decides whether it is "rounded".          *)
Contracted(n) ==
    LET rounded == IF (n \div Page) % 2 = 1 THEN 2 * Page ELSE n
    IN  IF rounded < MinSize THEN MinSize ELSE rounded

(* The merge of the block at h with its neighbours, and what it reads: the *)
(* header and size of the hole that results, whether its left or right     *)
(* neighbour went into it.                                                 *)
Merged(h) ==
    LET size  == SizeAt(h)
        lfoot == mem[h - Word]
        lhead == h - FSize(lfoot)
        right == h + size
        left  == lfoot.magic /\ lhead \in Space /\ IsHole(mem[lhead])
        joins == right \in Space /\ mem[right].magic /\ IsHole(mem[right])
        head  == IF left THEN lhead ELSE h
        joint == ((IF left THEN SizeAt(lhead) ELSE 0) + size) % SizeMod
    IN  [head |-> head, left |-> left, joins |-> joins, right |-> right,
         lost |-> lfoot.magic /\ lhead \notin Space, joint |-> joint,
         size |-> (joint + (IF joins THEN SizeAt(right) ELSE 0)) % SizeMod,
         foot |-> right - Word + (IF joins THEN SizeAt(right) ELSE 0)]

Framed(h) ==
    /\ h \in Space /\ mem[h].magic
    /\ h + SizeAt(h) - Word \in Space
    /\ mem[h + SizeAt(h) - Word].magic
    /\ FSize(mem[h + SizeAt(h) - Word]) = SizeAt(h)

(* The searches for a hole in the index, and its removal when it is found.  *)
IndexOf(ix, h) == {i \in DOMAIN ix : ix[i] = h}

Without_Kept(ix, h) == ix  \* mutation
Without(ix, h) ==
    IF IndexOf(ix, h) = {} THEN ix
    ELSE Removed(ix, CHOOSE i \in IndexOf(ix, h) : \A j \in IndexOf(ix, h) : i <= j)

Unbacked(length) ==
    {PageOf(end_address - k * Page) :
        k \in {j \in 1 .. Length \div Page : Length - j * Page > length}}

Free(b) ==
    LET h      == b.p - Word
        g      == Merged(h)
        ends   == g.foot + Word = end_address
        length == IF ends THEN Contracted(g.head - Start) ELSE Length
        size   == (g.size - (Length - length)) % SizeMod
        foot   == g.head + size - Word
        marked == [mem EXCEPT
                     ![h] = AsHole(@),
                     ![g.right - Word] = IF g.left THEN WithFSize(@, g.joint) ELSE @]
        joined == [marked EXCEPT ![g.head] = WithHSize(@, g.size),
                                 ![g.foot] = WithFSize(@, g.size)]
        m      == IF ends /\ size # 0
                  THEN [joined EXCEPT ![g.head] = WithHSize(@, size),
                                      ![foot] = Footer(@, size)]
                  ELSE joined
        kept   == IF g.joins \/ (ends /\ size = 0) THEN Without(index, g.right)
                  ELSE index
    IN  /\ status = "ok" /\ req = NoRequest
        /\ IF ~Framed(h)
           THEN Halt("panic")
           ELSE IF g.lost \/ g.right >= end_address
           THEN Halt("outside")
           ELSE IF \/ g.joins /\ IndexOf(index, g.right) = {}
                   \/ ends /\ g.head - Start >= Length
                   \/ ~g.left /\ Len(kept) + 1 >= Capacity
           THEN Halt("panic")
           ELSE IF {g.foot, foot} \subseteq Space
           THEN /\ mem' = m
                /\ index' = IF g.left THEN kept ELSE Inserted(kept, m, g.head)
                /\ end_address' = Start + length
                /\ backed' = backed \ Unbacked(length)
                /\ live' = live \ {b}
                /\ UNCHANGED <<req, status>>
           ELSE Halt("outside")

-----------------------------------------------------------------------------
Next == \/ \E r \in Requests : Alloc(r)
        \/ Grow
        \/ Take
        \/ \E b \in live : Free(b)

Spec == Init /\ [][Next]_vars

-----------------------------------------------------------------------------
(***************************************************************************)
(* The use the kernel's own start-up makes of its heap, in which the       *)
(* heap's promises hold; each clause is one the code does not check.       *)
(***************************************************************************)

(* A heap is expanded while its last bytes are a hole, or without holes,   *)
(* and stays below its maximum, which is asserted, and below what a size   *)
(* field holds, which is not.                                              *)
GrowsAtEnd ==
    req # NoRequest /\ Fitting = {} =>
        /\ Start + ExpandedLength <= MaxAddress /\ ExpandedLength < SizeMod
        /\ index # <<>> => HighestHole + SizeAt(HighestHole) = end_address

(* A page-aligned block leaves a front that holds two frames, and a rest   *)
(* that does or is empty.                                                  *)
RoomToAlign ==
    req # NoRequest /\ req.align /\ Fitting # {} =>
        LET pos  == index[FoundHole]
            rest == SizeAt(pos) - Lead(pos) - req.size - Overhead
        IN  Lead(pos) >= Overhead /\ (rest = 0 \/ rest >= Overhead)

(* A block is freed while something lies behind it, and the heap shrinks   *)
(* only to its minimum, which then cuts the last hole.                     *)
FreesInside(b) ==
    LET g    == Merged(b.p - Word)
        used == g.head - Start
    IN  /\ g.right < end_address
        /\ g.foot + Word = end_address =>
              /\ Contracted(used) = MinSize
              /\ used + Overhead <= MinSize

(* The array of the index has a place left (an assertion of Insert).       *)
RoomInIndex == Len(index) + 1 < Capacity

CarefulAlloc == \E r \in Requests : Alloc(r) /\ r.size <= MaxAlloc
CarefulGrow  == Grow /\ GrowsAtEnd
CarefulTake  == Take /\ RoomToAlign /\ RoomInIndex
CarefulFree  == \E b \in live : Free(b) /\ FreesInside(b) /\ RoomInIndex
CarefulNext  == CarefulAlloc \/ CarefulGrow \/ CarefulTake \/ CarefulFree

CarefulSpec == Init /\ [][CarefulNext]_vars

-----------------------------------------------------------------------------
(* Properties.                                                             *)

Holes   == {index[i] : i \in DOMAIN index}
Blocks  == {b.p - Word : b \in live}
Extent(h) == Words(h, h + SizeAt(h))

(* The heap's registers hold what heap.cc can put in them.                 *)
TypeOK ==
    /\ \A a \in Space : mem[a] \in [magic : BOOLEAN, bits : 0 .. 2 * SizeMod - 1]
    /\ Space = Words(Start - Word, MaxAddress)
    /\ Holes \subseteq Space /\ Len(index) < Capacity
    /\ end_address \in Start .. MaxAddress
    /\ backed \subseteq {a \in Start .. MaxAddress - 1 : a % Page = 0}
    /\ req \in Requests \cup {NoRequest}
    /\ status \in {"ok", "panic", "outside"}

(* Holes and blocks have their frames (VerifyHeader's assertions,          *)
(* heap.cc:249-255) and tile the heap: they do not overlap, and there is   *)
(* nothing else, so that walking from header to header visits every one    *)
(* (heap.cc:362-369).                                                      *)
Tiled ==
    /\ \A h \in Holes \cup Blocks : Framed(h)
    /\ \A g, h \in Holes \cup Blocks : g # h => Extent(g) \cap Extent(h) = {}
    /\ UNION {Extent(h) : h \in Holes \cup Blocks} = Words(Start, end_address)

(* The index holds each hole once and nothing that is in use, and a free   *)
(* merges with its neighbours, so no two holes touch (heap.cc:163-219).    *)
IndexExact ==
    /\ \A i, j \in DOMAIN index : index[i] = index[j] => i = j
    /\ \A h \in Holes : IsHole(mem[h]) /\ h + SizeAt(h) \notin Holes
    /\ \A h \in Blocks : ~IsHole(mem[h])

(* What Alloc returned is still all inside the heap, on a page if that was *)
(* asked for, on memory that has a frame, and belongs to one client; no    *)
(* assertion failed on the way and nothing outside the heap was touched.   *)
Served ==
    /\ status = "ok"
    /\ \A b \in live :
        LET payload(c) == Words(c.p, c.p + c.size)
        IN  /\ payload(b) \subseteq Words(Start, end_address)
            /\ b.align => b.p % Page = 0
            /\ \A a \in payload(b) : PageOf(a) \in backed
            /\ \A c \in live : c # b => payload(b) \cap payload(c) = {}

(* The heap works around its clients: no call changes a word of a payload  *)
(* somebody holds.                                                         *)
PayloadUntouched ==
    [][\A b \in live \cap live' :
         \A a \in Words(b.p, b.p + b.size) : mem'[a] = mem[a]]_vars
=============================================================================
