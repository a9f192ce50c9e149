------------------------------- MODULE Paging -------------------------------
(***************************************************************************)
(* Frames, page tables and address spaces: memory/paging.cc and bitset.cc, *)
(* with what memory/kalloc.cc and heap.cc ask of them.  It starts in       *)
(* memory::Initialize, before paging is on, and goes on with tasks that    *)
(* allocate ranges of their own address space and are forked.              *)
(*                                                                         *)
(* Memory is counted in pages, except base_address, which counts units of  *)
(* which PAGE make a page.  A page table and a page directory are named by *)
(* the page they start at, so that what maps that page is known.           *)
(***************************************************************************)
EXTENDS Integers, FiniteSets, FiniteSetsExt

CONSTANTS
    PAGE,           \* units in a page
    TABLE,          \* pages in a table (1024)
    DIRECTORY,      \* tables in a directory (1024)
    ImageEnd,       \* base_address at memory::Initialize
    NumFrames,      \* bits in the bitset of frames
    FRAME_SIZE,     \* PAGE_SIZE in bytes, by which FreeFrame divides
    KHEAP_START, KHEAP_INITIAL, KHEAP_END,     \* the kernel heap's pages
    UHEAP_START, UHEAP_INITIAL, UHEAP_END,     \* the user heap's pages
    KIndex,         \* pages the kernel heap uses for itself
    HEAP_MIN,       \* HEAP_MIN_SIZE in pages
    Task,           \* tasks; First is the one that boots
    First,
    UserPages,      \* bound: the pages outside the kernel tasks allocate
    Value,          \* what a page may hold
    Objects,        \* bound: sizes of the other objects in the kernel heap
    Preemptive      \* TRUE: the timer switches tasks inside AllocateRange

ASSUME PagingConstants ==
    /\ {PAGE, TABLE, DIRECTORY, NumFrames, FRAME_SIZE} \subseteq Nat \ {0}
    /\ {KHEAP_START, KHEAP_INITIAL, KHEAP_END, KIndex, HEAP_MIN,
        UHEAP_START, UHEAP_INITIAL, UHEAP_END, ImageEnd} \subseteq Nat
    /\ PAGE <= ImageEnd
    /\ KHEAP_START + KHEAP_INITIAL <= KHEAP_END /\ KHEAP_END <= UHEAP_START
    /\ UHEAP_START + UHEAP_INITIAL <= UHEAP_END
    /\ KIndex < HEAP_MIN /\ HEAP_MIN <= KHEAP_INITIAL
    /\ (ImageEnd + 1) \div PAGE + 1 < KHEAP_START      \* the image lies below the heap
    /\ {KHEAP_END, UHEAP_END} \subseteq 0 .. DIRECTORY * TABLE
    /\ First \in Task
    /\ UserPages \subseteq 0 .. DIRECTORY * TABLE - 1
    /\ \A from, to \in UserPages : from .. to \subseteq UserPages
    /\ Value # {} /\ Objects \subseteq Nat \ {0}
    /\ Preemptive \in BOOLEAN

VARIABLES
    phase,          \* how far memory::Initialize has come; "run" after it
    next_page,      \* the loop variable i of Initialize
    base_address,
    frames,         \* the bits that are set
    tables,         \* page table -> its entries
    dirs,           \* page directory -> [tables, physical, cr3]
    kheap_end,      \* pages in the kernel heap
    kheap_used,     \* those that are in use
    objects,        \* the other objects in it: [at, size]
    directory,      \* task -> its directory, 0 before it is forked
    job,            \* task -> the call it is in
    content,        \* frame -> what it holds
    view,           \* ghost: <<task, page>> -> what the task left there
    status          \* "ok" or "panic"

boot  == <<phase, next_page, base_address>>
kheap == <<kheap_end, kheap_used, objects>>
vars  == <<boot, frames, tables, dirs, kheap, directory, job, content, view, status>>


Frames == 0 .. NumFrames - 1
None   == -1
Idle   == [op |-> "idle"]
Entry(frame, present, rw) == [frame |-> frame, present |-> present, rw |-> rw]
NewTable == [j \in 0 .. TABLE - 1 |-> Entry(0, FALSE, FALSE)]
NewDirectory(phys) ==
    [tables   |-> [i \in 0 .. DIRECTORY - 1 |-> 0],
     physical |-> [i \in 0 .. DIRECTORY - 1 |-> 0],
     cr3      |-> phys]
Extended(f, x, v) == [y \in DOMAIN f \cup {x} |-> IF y = x THEN v ELSE f[y]]

Panic ==
    /\ status' = "panic"
    /\ UNCHANGED <<boot, frames, tables, dirs, kheap, directory, job, content, view>>

-----------------------------------------------------------------------------
(* The layout of boot memory: the bitset, then the kernel's directory.     *)
(* kalloc_pa moves to the next page even from the start of one.            *)
AlignedPage(base) == base \div PAGE + 1
Kernel == AlignedPage(ImageEnd + 1)          \* kernel_directory

KTable(i) == dirs[Kernel].tables[i]
IsKernelPage(v) == KTable(v \div TABLE) # 0
EntryIn(tb, v)  == tb[KTable(v \div TABLE)][v % TABLE]
FrameIn(tb, v)  == EntryIn(tb, v).frame
FrameOf(v)      == FrameIn(tables, v)

(* GetPhysicalAddress: of a page kalloc_pa has just returned, that is.      *)
Physical_Identity(tb, v) == v  \* mutation
Physical(tb, v) == FrameIn(tb, v)

(* bitset::next, n times over: the nth bit of bits that is not set.        *)
Unset(bits) == Frames \ bits
Nth(bits, n) == CHOOSE f \in Unset(bits) : Cardinality({g \in Unset(bits) : g < f}) = n
next(bits) == IF Unset(bits) = {} THEN None ELSE Min(Unset(bits))

(* AllocFrame on pages of kernel tables, in ascending order.               *)
Filled(pages, rw) ==
    LET need     == {v \in pages : FrameOf(v) = 0}
        fresh(v) == Nth(frames, Cardinality({u \in need : u < v}))
        page(i, j) == i * TABLE + j
        index(id) == {i \in 0 .. DIRECTORY - 1 : KTable(i) = id}
    IN  IF Cardinality(need) > Cardinality(Unset(frames))
        THEN [ok |-> FALSE]
        ELSE [ok     |-> TRUE,
              frames |-> frames \cup {fresh(v) : v \in need},
              tables |-> [id \in DOMAIN tables |->
                 [j \in 0 .. TABLE - 1 |->
                    IF \E i \in index(id) : page(i, j) \in need
                    THEN Entry(fresh(page(CHOOSE i \in index(id) : TRUE, j)), TRUE, rw)
                    ELSE tables[id][j]]]]

(* kalloc_pa from the kernel heap, in whole pages: into a run of free ones *)
(* or, without one, at the end of an expanded heap.  What it may return.   *)
Runs(n) == {p \in 0 .. kheap_end - n : p .. p + n - 1 \cap kheap_used = {}}
InUse(used) == Max({0} \cup {p + 1 : p \in used})
Placements(n) ==
    IF Runs(n) # {} THEN {[at |-> p, end |-> kheap_end] : p \in Runs(n)}
    ELSE {[at |-> InUse(kheap_used), end |-> kheap_end + n + 1]}

Allocated(n) ==
    {LET new == Filled({KHEAP_START + p : p \in kheap_end .. k.end - 1}, FALSE)
     IN  IF ~new.ok \/ KHEAP_START + k.end > KHEAP_END
         THEN [ok |-> FALSE]
         ELSE [ok |-> TRUE, page |-> KHEAP_START + k.at, end |-> k.end,
               used |-> kheap_used \cup k.at .. k.at + n - 1,
               tables |-> new.tables, frames |-> new.frames] : k \in Placements(n)}

SizeOfDirectory == 3      \* 8196 bytes with its frame
SizeOfTable     == 2      \* 4096 bytes with its frame

-----------------------------------------------------------------------------
(* memory::Initialize.                                                     *)

Init ==
    /\ phase = "heaps" /\ next_page = 0
    /\ base_address = Kernel * PAGE + 2 * PAGE + 1
    /\ frames = {} /\ tables = <<>> 
    /\ dirs = [d \in {Kernel} |-> NewDirectory(Kernel + 1)]
    /\ kheap_end = 0 /\ kheap_used = {} /\ objects = {}
    /\ directory = [t \in Task |-> IF t = First THEN Kernel ELSE 0]
    /\ job = [t \in Task |-> Idle]
    /\ content \in [Frames -> {CHOOSE x \in Value : TRUE}]
    /\ view = <<>> /\ status = "ok"

(* GetPage(page, true) while kalloc_pa still serves from base_address.     *)
BootGetPage(v) ==
    LET i == v \div TABLE
        id == AlignedPage(base_address)
    IN  IF KTable(i) # 0
        THEN UNCHANGED <<base_address, dirs>> /\ tables' = tables
        ELSE /\ base_address' = id * PAGE + PAGE
             /\ tables' = Extended(tables, id, NewTable)
             /\ dirs' = [dirs EXCEPT ![Kernel].tables[i] = id,
                                     ![Kernel].physical[i] = id]

HeapPages == KHEAP_START .. KHEAP_END - 1 \cup UHEAP_START .. UHEAP_END - 1

(* Each table of boot memory takes two pages, so that all of it ends below *)
(* BootEnd.  Tasks allocate the pages of programs (elf32_parser.cc:156),   *)
(* which are linked to addresses apart from boot memory and the heaps.     *)
BootEnd == Kernel + 2 * DIRECTORY + 4

ASSUME AddressSpace ==
    /\ BootEnd <= KHEAP_START /\ 2 <= HEAP_MIN
    /\ \A v \in UserPages, w \in HeapPages \cup 0 .. BootEnd - 1 : v \div TABLE # w \div TABLE

Unmapped  == {v \in HeapPages : ~IsKernelPage(v)}

MapHeaps ==
    /\ phase = "heaps"
    /\ IF Unmapped # {} THEN BootGetPage(Min(Unmapped)) /\ phase' = phase
       ELSE phase' = "identity" /\ UNCHANGED <<base_address, dirs, tables>>
    /\ UNCHANGED <<next_page, frames, kheap, directory, job, content, view, status>>

(* The loop ends a page above base_address, which its own calls raise.     *)
IdentityEnd_Tight == base_address  \* mutation
IdentityEnd == base_address + PAGE

IdentityMap ==
    /\ phase = "identity" /\ status = "ok" /\ next_page * PAGE < IdentityEnd
    /\ IF ~IsKernelPage(next_page)
       THEN /\ BootGetPage(next_page)
            /\ UNCHANGED <<phase, next_page, frames, kheap, directory, job, content, view,
                           status>>
       ELSE LET new == Filled({next_page}, FALSE)
            IN  IF ~new.ok THEN Panic
                ELSE /\ tables' = new.tables /\ frames' = new.frames
                     /\ next_page' = next_page + 1
                     /\ UNCHANGED <<phase, base_address, dirs, kheap, directory, job,
                                    content, view, status>>

BackHeaps ==
    /\ phase = "identity" /\ status = "ok" /\ next_page * PAGE >= IdentityEnd
    /\ LET k == Filled(KHEAP_START .. KHEAP_START + KHEAP_INITIAL - 1, FALSE)
       IN  IF ~k.ok THEN Panic
           ELSE /\ tables' = k.tables /\ frames' = k.frames
                /\ phase' = "backed"
                /\ UNCHANGED <<next_page, base_address, dirs, kheap, directory, job,
                               content, view, status>>

BackUserHeap ==
    /\ phase = "backed" /\ status = "ok"
    /\ LET u == Filled(UHEAP_START .. UHEAP_START + UHEAP_INITIAL - 1, TRUE)
       IN  IF ~u.ok THEN Panic
           ELSE /\ tables' = u.tables /\ frames' = u.frames
                /\ phase' = "create"
                /\ UNCHANGED <<next_page, base_address, dirs, kheap, directory, job,
                               content, view, status>>

(* Paging is on.  The first Heap object still comes from base_address, the *)
(* second from the first.                                                  *)
CreateHeaps ==
    /\ phase = "create" /\ phase' = "clone"
    /\ base_address' = base_address + 1
    /\ kheap_end' = KHEAP_INITIAL /\ kheap_used' = 0 .. KIndex
    /\ UNCHANGED <<next_page, frames, tables, dirs, objects, directory, job, content,
                   view, status>>

-----------------------------------------------------------------------------
(* Who may run: a task is switched away from inside AllocateRange only if  *)
(* Preemptive; Fork clones with interrupts off.                            *)
Running(t) ==
    /\ status = "ok" /\ directory[t] # 0 /\ phase \in {"clone", "run"}
    /\ \A u \in Task \ {t} :
          job[u].op = "idle" \/ (Preemptive /\ job[u].op = "range")

TablesOf(t) == dirs[directory[t]].tables

(* AllocateRange.                                                          *)
RangeStart(t, from, to) ==
    /\ Running(t) /\ phase = "run" /\ job[t] = Idle
    /\ job' = [job EXCEPT ![t] = [op |-> "range", i |-> from, end |-> to, index |-> None]]
    /\ UNCHANGED <<boot, frames, tables, dirs, kheap, directory, content, view, status>>

(* GetPage(i, true) when the task's directory has no table there.          *)
RangeTable(t) ==
    /\ Running(t) /\ job[t].op = "range" /\ job[t].index = None
    /\ LET i == job[t].i \div TABLE
       IN  /\ TablesOf(t)[i] = 0
           /\ \E k \in Allocated(SizeOfTable) :
                IF ~k.ok THEN Panic
                ELSE /\ tables' = Extended(k.tables, k.page, NewTable)
                     /\ frames' = k.frames
                     /\ kheap_end' = k.end /\ kheap_used' = k.used
                     /\ dirs' = [dirs EXCEPT
                          ![directory[t]].tables[i] = k.page,
                          ![directory[t]].physical[i] = Physical(k.tables, k.page)]
                     /\ UNCHANGED <<boot, objects, directory, job, content, view, status>>

(* The entry AllocFrame is called with, and its first half: a page that has*)
(* a frame is left alone, another one gets the first that is free.         *)
PageOf(t) == tables[TablesOf(t)[job[t].i \div TABLE]][job[t].i % TABLE]

Skips_Never(t) == FALSE  \* mutation
Skips(t) == PageOf(t).frame # 0

Advanced_Past(j) == IF j.i > j.end THEN Idle ELSE [j EXCEPT !.i = @ + 1, !.index = None]  \* mutation
Advanced(j) == IF j.i = j.end THEN Idle ELSE [j EXCEPT !.i = @ + 1, !.index = None]

RangeNext(t) ==
    /\ Running(t) /\ job[t].op = "range" /\ job[t].index = None
    /\ TablesOf(t)[job[t].i \div TABLE] # 0
    /\ IF ~Skips(t) /\ next(frames) = None THEN Panic
       ELSE /\ job' = [job EXCEPT ![t] = IF Skips(t) THEN Advanced(@)
                                         ELSE [@ EXCEPT !.index = next(frames)]]
            /\ UNCHANGED <<boot, frames, tables, dirs, kheap, directory, content, view,
                           status>>

(* The second half: the bit is set and the page filled in.                 *)
Marked_Not(f) == frames  \* mutation
Marked(f) == frames \cup {f}

RangeSet(t) ==
    /\ Running(t) /\ job[t].op = "range" /\ job[t].index # None
    /\ LET f == job[t].index
           v == job[t].i
       IN  /\ frames' = Marked(f)
           /\ tables' = [tables EXCEPT ![TablesOf(t)[v \div TABLE]][v % TABLE] =
                                       Entry(f, TRUE, TRUE)]
           /\ view' = Extended(view, <<t, v>>, content[f])
    /\ job' = [job EXCEPT ![t] = Advanced(@)]
    /\ UNCHANGED <<boot, dirs, kheap, directory, content, status>>

(* A task writes a page of its own.                                        *)
Write(t, v, x) ==
    /\ Running(t) /\ job[t] = Idle /\ <<t, v>> \in DOMAIN view
    /\ content' = [content EXCEPT ![tables[TablesOf(t)[v \div TABLE]][v % TABLE].frame] = x]
    /\ view' = [view EXCEPT ![<<t, v>>] = x]
    /\ UNCHANGED <<boot, frames, tables, dirs, kheap, directory, job, status>>

-----------------------------------------------------------------------------
(* Directory::Clone, of the running task's directory for c.  The physical  *)
(* address is that of the object's first page and an offset of one page.   *)
CloneDirectory(t, c) ==
    /\ Running(t) /\ job[t] = Idle
    /\ IF phase = "clone" THEN c = t ELSE directory[c] = 0
    /\ \E k \in Allocated(SizeOfDirectory) :
         IF ~k.ok THEN Panic
         ELSE /\ tables' = k.tables /\ frames' = k.frames
              /\ kheap_end' = k.end /\ kheap_used' = k.used
              /\ dirs' = Extended(dirs, k.page, NewDirectory(Physical(k.tables, k.page) + 1))
              /\ job' = [job EXCEPT ![t] = [op |-> "clone", dir |-> k.page, to |-> c, i |-> 0]]
              /\ UNCHANGED <<boot, objects, directory, content, view, status>>

(* The next table to clone: the kernel's are linked, others copied.        *)
Left(t) == {i \in job[t].i .. DIRECTORY - 1 : TablesOf(t)[i] # 0}

IsLinked_Never(t, i) == FALSE  \* mutation
IsLinked_Always(t, i) == TRUE  \* mutation
IsLinked(t, i) == KTable(i) = TablesOf(t)[i]

LinkTable(t) ==
    /\ Running(t) /\ job[t].op = "clone" /\ Left(t) # {}
    /\ LET i == Min(Left(t))
           d == dirs[directory[t]]
       IN  /\ IsLinked(t, i)
           /\ dirs' = [dirs EXCEPT ![job[t].dir].tables[i] = d.tables[i],
                                   ![job[t].dir].physical[i] = d.physical[i]]
           /\ job' = [job EXCEPT ![t].i = i + 1]
    /\ UNCHANGED <<boot, frames, tables, kheap, directory, content, view, status>>

(* Table::Clone: each page that has a frame gets one of its own, the first *)
(* free ones in order, with what the original holds.                       *)
Copies(table, bits) ==
    LET need == {j \in DOMAIN table : table[j].frame # 0}
    IN  [j \in need |-> Nth(bits, Cardinality({h \in need : h < j}))]

CopyTable(t) ==
    /\ Running(t) /\ job[t].op = "clone" /\ Left(t) # {}
    /\ LET i     == Min(Left(t))
           table == tables[TablesOf(t)[i]]
           need  == {j \in DOMAIN table : table[j].frame # 0}
       IN  /\ ~IsLinked(t, i)
           /\ \E k \in Allocated(SizeOfTable) :
                IF ~k.ok \/ Cardinality(need) > Cardinality(Unset(k.frames)) THEN Panic
                ELSE LET new == Copies(table, k.frames)
                         from(f) == CHOOSE j \in need : new[j] = f
                     IN  /\ tables' = Extended(k.tables, k.page,
                              [j \in DOMAIN table |->
                                 IF j \in need THEN [table[j] EXCEPT !.frame = new[j]]
                                 ELSE NewTable[j]])
                         /\ frames' = k.frames \cup {new[j] : j \in need}
                         /\ content' = [f \in Frames |->
                              IF \E j \in need : new[j] = f
                              THEN content[table[from(f)].frame] ELSE content[f]]
                         /\ dirs' = [dirs EXCEPT
                              ![job[t].dir].tables[i] = k.page,
                              ![job[t].dir].physical[i] = Physical(k.tables, k.page)]
                         /\ job' = [job EXCEPT ![t].i = i + 1]
                         /\ kheap_end' = k.end /\ kheap_used' = k.used
                         /\ UNCHANGED <<boot, objects, directory, view, status>>

CloneReturn(t) ==
    /\ Running(t) /\ job[t].op = "clone" /\ Left(t) = {}
    /\ LET c == job[t].to
       IN  /\ directory' = [directory EXCEPT ![c] = job[t].dir]
           /\ view' = [p \in DOMAIN view \cup {<<c, q[2]>> : q \in {r \in DOMAIN view : r[1] = t}}
                        |-> IF p[1] = c THEN view[<<t, p[2]>>] ELSE view[p]]
    /\ job' = [job EXCEPT ![t] = Idle]
    /\ phase' = "run"
    /\ UNCHANGED <<next_page, base_address, frames, tables, dirs, kheap, content, status>>

-----------------------------------------------------------------------------
(* The rest of the kernel allocates and frees in the kernel heap too.      *)
HeapAlloc(t, n) ==
    /\ Running(t) /\ phase = "run" /\ job[t] = Idle
    /\ \E k \in Allocated(n) :
         IF ~k.ok THEN Panic
         ELSE /\ tables' = k.tables /\ frames' = k.frames
              /\ kheap_end' = k.end /\ kheap_used' = k.used
              /\ objects' = objects \cup {[at |-> k.page - KHEAP_START, size |-> n]}
              /\ UNCHANGED <<boot, dirs, directory, job, content, view, status>>

(* Heap::Contract gives back the pages behind the one the new end is in;   *)
(* FreeFrame takes the frame's number for its address.                     *)
Contracted(used) == IF used % 2 = 1 THEN Max({2, HEAP_MIN}) ELSE Max({used, HEAP_MIN})

HeapFree(t, o) ==
    /\ Running(t) /\ phase = "run" /\ job[t] = Idle
    /\ LET used  == kheap_used \ o.at .. o.at + o.size - 1
           ends  == o.at >= InUse(used)
           end   == IF ends THEN Contracted(InUse(used)) ELSE kheap_end
           freed == {v \in KHEAP_START + end + 1 .. KHEAP_START + kheap_end - 1 :
                        FrameOf(v) # 0}
       IN  /\ frames' = frames \ {FrameOf(v) \div FRAME_SIZE : v \in freed}
           /\ tables' = [id \in DOMAIN tables |->
                [j \in 0 .. TABLE - 1 |->
                   IF \E v \in freed : KTable(v \div TABLE) = id /\ v % TABLE = j
                   THEN [tables[id][j] EXCEPT !.frame = 0] ELSE tables[id][j]]]
           /\ kheap_end' = end /\ kheap_used' = used
           /\ objects' = objects \ {o}
    /\ UNCHANGED <<boot, dirs, directory, job, content, view, status>>

-----------------------------------------------------------------------------
Boot == MapHeaps \/ IdentityMap \/ BackHeaps \/ BackUserHeap \/ CreateHeaps
Ranges == \E t \in Task :
            \/ \E from, to \in UserPages : from <= to /\ RangeStart(t, from, to)
            \/ RangeTable(t) \/ RangeNext(t) \/ RangeSet(t)
            \/ \E v \in UserPages, x \in Value : Write(t, v, x)
Clone == \E t \in Task :
            \/ \E c \in Task : CloneDirectory(t, c)
            \/ LinkTable(t) \/ CopyTable(t) \/ CloneReturn(t)
Allocate == \E t \in Task, n \in Objects : HeapAlloc(t, n)
Release  == \E t \in Task, o \in objects : HeapFree(t, o)

Next == Boot \/ Ranges \/ Clone \/ Allocate \/ Release

Spec == Init /\ [][Next]_vars

(* A release that leaves the end of the heap where it is frees no frames.  *)
Keeps(o) ==
    LET used == kheap_used \ o.at .. o.at + o.size - 1
    IN  o.at >= InUse(used) => /\ Contracted(InUse(used)) >= InUse(used)
                               /\ Contracted(InUse(used)) + 1 >= kheap_end

KeepingRelease == \E t \in Task, o \in objects : Keeps(o) /\ HeapFree(t, o)

KeepingSpec == Init /\ [][Boot \/ Ranges \/ Clone \/ Allocate \/ KeepingRelease]_vars

-----------------------------------------------------------------------------
(* Properties.                                                             *)

Known        == {t \in Task : directory[t] # 0}
EntryOf(t, v) == tables[TablesOf(t)[v \div TABLE]][v % TABLE]

(* What the structures of paging.cc can hold.                              *)
TypeOK ==
    /\ frames \subseteq Frames
    /\ \A id \in DOMAIN tables : tables[id] \in
          [0 .. TABLE - 1 -> [frame : Frames, present : BOOLEAN, rw : BOOLEAN]]
    /\ \A d \in DOMAIN dirs : \A i \in 0 .. DIRECTORY - 1 :
          dirs[d].tables[i] \in {0} \cup DOMAIN tables /\ dirs[d].physical[i] \in Nat
    /\ directory \in [Task -> {0} \cup DOMAIN dirs]
    /\ kheap_used \subseteq 0 .. kheap_end - 1
    /\ \A t \in Task : job[t].op = "range" => job[t].i \in UserPages
    /\ content \in [Frames -> Value]
    /\ \A p \in DOMAIN view : view[p] \in Value /\ p \in Task \X UserPages

(* The bitset has the used frames (paging.cc:59): the frame of a page that *)
(* is present is marked used, and no other present page has it.            *)
FramesExclusive ==
    LET pages == {p \in (DOMAIN tables) \X (0 .. TABLE - 1) : tables[p[1]][p[2]].present}
        frame(p) == tables[p[1]][p[2]].frame
    IN  \A p \in pages : /\ frame(p) \in frames
                         /\ \A q \in pages : frame(p) = frame(q) => p = q

IdentityMapped ==
    phase \in {"clone", "run"} =>
        \A t \in Known : \A v \in 0 .. (base_address - 1) \div PAGE :
            EntryOf(t, v).frame = v /\ EntryOf(t, v).present

KernelShared ==
    \A t \in Known : \A i \in 0 .. DIRECTORY - 1 :
        KTable(i) # 0 => TablesOf(t)[i] = KTable(i)

PhysicalAgrees ==
    phase = "run" => \A d \in DOMAIN dirs : \A i \in 0 .. DIRECTORY - 1 :
        dirs[d].tables[i] # 0 => dirs[d].physical[i] = FrameOf(dirs[d].tables[i])

(* Every address space is the kernel's where it should be: once paging is  *)
(* on, all the memory kalloc gave out before is mapped to itself           *)
(* (paging.cc:147-153); what the heap maps in one space is mapped in all,  *)
(* for they share the kernel's tables (247-250); and the entries that a    *)
(* directory has for the processor are the frames of the tables it has for *)
(* the kernel (250, 254-255).  Where cr3 points is Cr3Agrees.              *)
KernelMapped == IdentityMapped /\ KernelShared /\ PhysicalAgrees

(* "change directory to the physical address of the new directory"         *)
(* (task.cc:230): the processor's walk of a directory starts in the frame  *)
(* of the page its entries for the processor lie in (paging.cc:239-241).   *)
Cr3Agrees ==
    phase = "run" => \A d \in DOMAIN dirs : dirs[d].cr3 = FrameOf(d + 1)

(* A task reads in its own pages what it wrote there, or what its parent   *)
(* had when it was forked, whatever other tasks do (task.cc:153-154).      *)
Isolation ==
    \A p \in DOMAIN view : content[EntryOf(p[1], p[2]).frame] = view[p]

(* AllocFrame never takes a page off the frame it has (paging.cc:102-104). *)
FramesStay ==
    [][\A p \in DOMAIN view :
         EntryOf(p[1], p[2])' = EntryOf(p[1], p[2])]_vars
=============================================================================
