------------------------------- MODULE Files -------------------------------
(***************************************************************************)
(* The initial ramdisk from end to end: initrd_build.cc lays the image     *)
(* out, initrd::Initialize relocates it in memory, fs::Traverse looks a    *)
(* name up and Node::Read copies from the file that was found.             *)
(*                                                                         *)
(* Tasks traverse concurrently.  ReadDir answers in one static entry,      *)
(* curr_dir, which Traverse reads twice after ReadDir has returned; a tick *)
(* may come before each of the two.  Copying or comparing a name is one    *)
(* step.                                                                   *)
(***************************************************************************)
EXTENDS Integers, Sequences

CONSTANTS
    Task,
    Name,                  \* names of files, DEV among them
    DEV,
    Byte,
    HEADER, FILE_HEADER,   \* sizeof(Header), sizeof(FileHeader)
    Contents,              \* what files may hold
    Offsets, Sizes,        \* where readers start, and how much they ask for
    LOCATION,              \* where the boot loader puts the image
    WORD                   \* 2^32

ASSUME FilesConstants ==
    /\ DEV \in Name /\ "garbage" \notin Name /\ "garbage" \notin Byte
    /\ {HEADER, FILE_HEADER, LOCATION} \subseteq Nat /\ WORD \in Nat \ {0}
    /\ Contents \subseteq Seq(Byte) /\ Offsets \cup Sizes \subseteq Nat
    /\ "" \notin Name

VARIABLES
    phase,      \* "build", "loaded", "up"
    list,       \* the files the builder was given: name and content
    header,     \* the image: the Header,
    headers,    \*   the FileHeaders, a sequence
    content,    \*   and the contents behind them
    nodes,      \* the kernel's nodes, a sequence; num_nodes is its length
    curr_dir,   \* the name in the static DirEntry
    job,        \* task -> its call of Traverse and the reads after it
    serial      \* whether traversals exclude each other, as in test.cc:175

vars == <<phase, list, header, headers, content, nodes, curr_dir, job, serial>>

Null == -1
Dev  == -2
IsDirectory(n) == n = Dev

Idle == [pc |-> "idle", name |-> DEV, i |-> 0, node |-> Null, from |-> 0, buf |-> <<>>,
         short |-> FALSE]
Traversing == {"read_dir", "find_dir", "branch"}
At(t, pc) == phase = "up" /\ job[t].pc = pc

Init ==
    /\ phase = "build" /\ list = <<>>
    /\ header = [num_files |-> 0, content_offset |-> 0]
    /\ headers = <<>> /\ content = <<>> /\ nodes = <<>>
    /\ curr_dir = "" /\ job = [t \in Task |-> Idle]
    /\ serial \in BOOLEAN

-----------------------------------------------------------------------------
(* The builder.                                                            *)

AddFile(name, bytes) ==
    /\ phase = "build"
    /\ list' = Append(list, [name |-> name, bytes |-> bytes])
    /\ headers' = Append(headers, [size |-> Len(bytes), offset |-> Len(content), name |-> name])
    /\ content' = content \o bytes
    /\ UNCHANGED <<phase, header, nodes, curr_dir, job, serial>>

Finish ==
    /\ phase = "build" /\ phase' = "loaded"
    /\ header' = [num_files |-> Len(headers),
                  content_offset |-> HEADER + FILE_HEADER * Len(headers)]
    /\ UNCHANGED <<list, headers, content, nodes, curr_dir, job, serial>>

-----------------------------------------------------------------------------
(* The kernel.                                                             *)

Relocated(offset) == (offset + LOCATION + header.content_offset) % WORD

(* initrd::Initialize; offsets are relocated in the image itself.          *)
Initialize ==
    /\ phase = "loaded" /\ phase' = "up"
    /\ headers' = [k \in DOMAIN headers |-> [headers[k] EXCEPT !.offset = Relocated(@)]]
    /\ nodes' = [k \in 1 .. header.num_files |->
                   [name |-> headers[k].name, length |-> headers[k].size, inode |-> k - 1]]
    /\ UNCHANGED <<list, header, content, curr_dir, job, serial>>

Traverse(t, name) ==
    /\ At(t, "idle")
    /\ serial => \A u \in Task : job[u].pc \notin Traversing
    /\ job' = [job EXCEPT ![t] = [Idle EXCEPT !.pc = "read_dir", !.name = name]]
    /\ UNCHANGED <<phase, list, header, headers, content, nodes, curr_dir, serial>>

(* ReadDir(i) of the root: DEV, then the nodes; NULL after the last one,   *)
(* and Traverse returns NULL.                                              *)
Ended_Inclusive(i) == i > Len(nodes) + 1  \* mutation
Ended(i) == i > Len(nodes)
Entry(i) == IF i = 0 THEN DEV
            ELSE IF i \in DOMAIN nodes THEN nodes[i].name ELSE "garbage"

ReadDir(t) ==
    /\ At(t, "read_dir")
    /\ IF Ended(job[t].i)
       THEN /\ job' = [job EXCEPT ![t].pc = "returned", ![t].node = Null]
            /\ UNCHANGED curr_dir
       ELSE /\ curr_dir' = Entry(job[t].i)
            /\ job' = [job EXCEPT ![t].pc = "find_dir"]
    /\ UNCHANGED <<phase, list, header, headers, content, nodes, serial>>

(* FindDir(node->name): DEV first, then the first node of the name.        *)
Foremost(of) == CHOOSE k \in of : \A l \in of : k <= l
Lookup(name) ==
    IF name = DEV THEN Dev
    ELSE LET of == {k \in DOMAIN nodes : nodes[k].name = name}
         IN  IF of = {} THEN Null ELSE Foremost(of)

FindDir(t) ==
    /\ At(t, "find_dir")
    /\ job' = [job EXCEPT ![t].pc = "branch", ![t].node = Lookup(curr_dir)]
    /\ UNCHANGED <<phase, list, header, headers, content, nodes, curr_dir, serial>>

Advanced_Not(i) == i  \* mutation
Advanced(i) == i + 1
Matches_Directory(n, name) == curr_dir = name  \* mutation
Matches(n, name) == ~IsDirectory(n) /\ curr_dir = name

Branch(t) ==
    /\ At(t, "branch")
    /\ IF Matches(job[t].node, job[t].name)
       THEN job' = [job EXCEPT ![t].pc = "returned"]
       ELSE job' = [job EXCEPT ![t].pc = "read_dir", ![t].i = Advanced(@)]
    /\ UNCHANGED <<phase, list, header, headers, content, nodes, curr_dir, serial>>

(* Read clips what is asked for at the end of the file, in 32 bits; nodes  *)
(* that are not files have no read function and answer 0.                  *)
Clipped_Never(h, offset, size) == IF offset > h.size THEN 0 ELSE size  \* mutation
Clipped(h, offset, size) ==
    IF offset > h.size THEN 0
    ELSE IF (offset + size) % WORD > h.size THEN h.size - offset ELSE size

ByteAt(address) ==
    LET k == address - (LOCATION + HEADER + FILE_HEADER * Len(headers)) + 1
    IN  IF k \in DOMAIN content THEN content[k] ELSE "garbage"

Copied(n, offset, size) ==
    IF n \notin DOMAIN nodes THEN <<>>
    ELSE LET h == headers[nodes[n].inode + 1]
         IN  [k \in 1 .. Clipped(h, offset, size) |-> ByteAt((h.offset + offset + k - 1) % WORD)]

(* The caller reads on from some offset, in pieces of any size, until it   *)
(* gets less than it asked for.                                            *)
Open(t, offset) ==
    /\ At(t, "returned") /\ job[t].node # Null
    /\ job' = [job EXCEPT ![t].pc = "open", ![t].from = offset]
    /\ UNCHANGED <<phase, list, header, headers, content, nodes, curr_dir, serial>>

Read(t, size) ==
    /\ At(t, "open") /\ ~job[t].short
    /\ LET more == Copied(job[t].node, job[t].from + Len(job[t].buf), size)
       IN  job' = [job EXCEPT ![t].buf = @ \o more, ![t].short = Len(more) < size]
    /\ UNCHANGED <<phase, list, header, headers, content, nodes, curr_dir, serial>>

Close(t) ==
    /\ At(t, "open") \/ At(t, "returned")
    /\ job' = [job EXCEPT ![t] = Idle]
    /\ UNCHANGED <<phase, list, header, headers, content, nodes, curr_dir, serial>>

Walk(t) == ReadDir(t) \/ FindDir(t) \/ Branch(t)

Call == \E t \in Task : \/ \E n \in Name : Traverse(t, n)
                        \/ \E o \in Offsets : Open(t, o)
                        \/ \E s \in Sizes : Read(t, s)
                        \/ Close(t)
                        \/ Walk(t)

Build == \/ \E n \in Name, c \in Contents : AddFile(n, c)
         \/ Finish
         \/ Initialize

Next == Build \/ Call

Spec == Init /\ [][Next]_vars

(* The scheduler gives every task the processor again (Tasks).             *)
Fairness == \A t \in Task : WF_vars(Walk(t))

-----------------------------------------------------------------------------
(* Properties.                                                             *)

First(name) ==
    LET of == {k \in DOMAIN list : list[k].name = name}
    IN  IF of = {} \/ name = DEV THEN Null ELSE Foremost(of)

(* The static entry holds a name of the image, indices stay on the list    *)
(* and buffers hold bytes of the image.                                    *)
TypeOK ==
    /\ curr_dir \in Name \cup {""}
    /\ nodes # <<>> => Len(nodes) = Len(list)
    /\ \A t \in Task : /\ job[t].i \in 0 .. Len(nodes) + 1
                       /\ job[t].node \in {Null, Dev} \cup DOMAIN nodes
                       /\ job[t].buf \in Seq(Byte)

Finds == \A t \in Task : job[t].pc = "returned" => job[t].node = First(job[t].name)

(* Traverse (fs.cc:12-25) finds the first file the builder was given under *)
(* a name, from any position and past the directory, and nothing else, if  *)
(* traversals exclude each other.  Finds itself fails: a tick between      *)
(* ReadDir and the branch lets another traversal overwrite the entry.      *)
FindsAlone == serial => Finds

(* The image lies in the address space, and no reader asks for so much     *)
(* that offset + size wraps around: they are compared in 32 bits           *)
(* (initrd.cc:34).                                                         *)
Addressable ==
    /\ LOCATION + HEADER + FILE_HEADER * Len(headers) + Len(content) < WORD
    /\ \A s \in Sizes : Len(content) + s < WORD

(* What is read from a node, from any offset and in any pieces, is the     *)
(* file the builder was given at that place, and a short answer means its  *)
(* end (initrd.cc:29-37, 92; initrd_build.cc:37-49).                       *)
ReadsBack ==
    \A t \in Task : job[t].pc = "open" =>
        LET bytes == list[job[t].node].bytes
            past  == job[t].from + Len(job[t].buf)
        IN  /\ \A k \in DOMAIN job[t].buf : /\ job[t].from + k <= Len(bytes)
                                             /\ job[t].buf[k] = bytes[job[t].from + k]
            /\ job[t].short => past >= Len(bytes)

(* Traverse returns (fs.cc:15-24), whatever other traversals do to the     *)
(* entry: the index it counts with is its own.                             *)
Returns == \A t \in Task : job[t].pc \in Traversing ~> job[t].pc \notin Traversing
=============================================================================
