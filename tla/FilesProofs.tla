---------------------------- MODULE FilesProofs ----------------------------
(***************************************************************************)
(* The ramdisk end to end, for every image, every number of tasks and      *)
(* every interleaving: what is read is what the builder was given, and     *)
(* traversals that exclude each other find the first file of a name.       *)
(*                                                                         *)
(* ImageInv says where the image of each file is: at an offset o of the    *)
(* contents, which its header counts from the start of the contents while  *)
(* the image is built and from address 0 once it is relocated.  CallsInv   *)
(* says what a traversal knows when it is between two steps: that no name  *)
(* before its index is the one it looks for, and, when it has the static   *)
(* entry to itself, that the entry still is the one ReadDir answered with. *)
(***************************************************************************)
EXTENDS Files, SequenceTheorems, WellFoundedInduction, TLAPS

Shaped(j) == j = [pc |-> j.pc, name |-> j.name, i |-> j.i, node |-> j.node, from |-> j.from,
                  buf |-> j.buf, short |-> j.short]

-----------------------------------------------------------------------------
(* The image.                                                              *)

(* Where the contents are in memory; without a multiplication for the      *)
(* provers to look into.                                                   *)
ContentOffset == HEADER + FILE_HEADER * Len(headers)
Base == IF phase = "up" THEN LOCATION + ContentOffset ELSE 0

Lies(h, bytes, o) ==
    /\ h.offset = Base + o /\ h.size = Len(bytes)
    /\ o + Len(bytes) <= Len(content)
    /\ \A i \in 1 .. Len(bytes) : content[o + i] = bytes[i]

ImageInv ==
    /\ phase \in {"build", "loaded", "up"}
    /\ content \in Seq(Byte)
    /\ list \in Seq([name : Name, bytes : Seq(Byte)])
    /\ DOMAIN headers = 1 .. Len(list) /\ headers = [k \in 1 .. Len(list) |-> headers[k]]
    /\ Len(headers) = Len(list)
    /\ \A k \in 1 .. Len(list) :
          /\ headers[k] = [size |-> headers[k].size, offset |-> headers[k].offset,
                           name |-> list[k].name]
          /\ \E o \in Nat : Lies(headers[k], list[k].bytes, o)
    /\ phase # "build" => /\ header.num_files = Len(list)
                          /\ header.content_offset = ContentOffset

NodesInv ==
    IF phase = "up"
    THEN nodes = [k \in 1 .. Len(list) |->
                    [name |-> list[k].name, length |-> Len(list[k].bytes), inode |-> k - 1]]
    ELSE nodes = <<>>

-----------------------------------------------------------------------------
LEMMA Constants == HEADER \in Nat /\ FILE_HEADER \in Nat /\ LOCATION \in Nat /\ WORD \in Nat \ {0}
BY FilesConstants

LEMMA ContentOffsetType == ASSUME ImageInv PROVE ContentOffset \in Nat
<1>1. HEADER \in Nat /\ FILE_HEADER \in Nat
  BY FilesConstants
<1>2. Len(headers) \in Nat
  BY DEF ImageInv
<1>3. \A a, b \in Nat : a * b \in Nat
  OBVIOUS
<1> QED BY <1>1, <1>2, <1>3 DEF ContentOffset

LEMMA FileType ==
    ASSUME ImageInv, NEW k \in 1 .. Len(list)
    PROVE  list[k].name \in Name /\ list[k].bytes \in Seq(Byte) /\ Len(list[k].bytes) \in Nat
<1>1. list[k] \in [name : Name, bytes : Seq(Byte)]
  BY ElementOfSeq DEF ImageInv
<1> QED BY <1>1

LEMMA ImageInit == Init => ImageInv /\ NodesInv
<1> SUFFICES ASSUME Init PROVE ImageInv /\ NodesInv
  OBVIOUS
<1>1. list = <<>> /\ headers = <<>> /\ content = <<>> /\ nodes = <<>> /\ phase = "build"
  BY DEF Init
<1> QED BY <1>1 DEF ImageInv, NodesInv

(* A file is put behind those that are there.                              *)
LEMMA ImageAdd ==
    ASSUME ImageInv, NodesInv, NEW name \in Name, NEW bytes \in Contents, AddFile(name, bytes)
    PROVE  ImageInv' /\ NodesInv'
<1> DEFINE file == [name |-> name, bytes |-> bytes]
           h    == [size |-> Len(bytes), offset |-> Len(content), name |-> name]
           n    == Len(list) + 1
<1>1. phase = "build" /\ phase' = phase /\ list' = Append(list, file) /\ content' = content \o bytes
      /\ headers' = Append(headers, h) /\ nodes' = nodes
  BY DEF AddFile
<1>2. bytes \in Seq(Byte) /\ content \in Seq(Byte) /\ list \in Seq([name : Name, bytes : Seq(Byte)])
  BY FilesConstants DEF ImageInv
<1>3. list' \in Seq([name : Name, bytes : Seq(Byte)]) /\ Len(list') = n /\ list'[n] = file
      /\ \A k \in 1 .. Len(list) : list'[k] = list[k]
  BY <1>1, <1>2, AppendProperties
<1>4. content' \in Seq(Byte) /\ Len(content') = Len(content) + Len(bytes)
      /\ \A i \in 1 .. Len(content) : content'[i] = content[i]
  BY <1>1, <1>2, ConcatProperties
<1>14. ASSUME NEW i \in 1 .. Len(bytes) PROVE content'[Len(content) + i] = bytes[i]
  <2>1. Len(content) + i \in 1 .. Len(content) + Len(bytes) /\ Len(content) + i > Len(content)
        /\ Len(content) + i - Len(content) = i
    BY <1>2
  <2> QED BY <2>1, <1>1, <1>2, ConcatProperties
<1>5. Len(list) \in Nat /\ Len(content) \in Nat /\ Len(bytes) \in Nat /\ n \in Nat /\ Base' = 0 /\ Base = 0
  BY <1>1, <1>2 DEF Base
<1>6. headers \in Seq({headers[k] : k \in 1 .. Len(list)})
  <2>1. headers = [k \in 1 .. Len(list) |-> headers[k]]
    BY DEF ImageInv
  <2> QED BY <2>1, <1>5
<1>7. Len(headers) = Len(list)
  BY DEF ImageInv
<1>8. headers' \in Seq({headers[k] : k \in 1 .. Len(list)} \cup {h}) /\ Len(headers') = n
      /\ headers'[n] = h /\ \A k \in 1 .. Len(list) : headers'[k] = headers[k]
  <2>1. headers \in Seq({headers[k] : k \in 1 .. Len(list)} \cup {h})
    BY <1>6
  <2> HIDE DEF h
  <2> QED BY <2>1, <1>1, <1>7, AppendProperties
<1>9. DOMAIN headers' = 1 .. n /\ headers' = [k \in 1 .. n |-> headers'[k]]
  BY <1>8
<1>10. ASSUME NEW k \in 1 .. n
       PROVE  /\ headers'[k] = [size |-> headers'[k].size, offset |-> headers'[k].offset,
                                name |-> list'[k].name]
              /\ \E o \in Nat : Lies(headers[k], list[k].bytes, o)'
  <2>1. CASE k = n
    <3>1. headers'[k] = h /\ list'[k] = file
      BY <2>1, <1>3, <1>8
    <3>2. PICK o \in Nat : o = Len(content)
      BY <1>5
    <3>3. list'[k].bytes = bytes /\ headers'[k].offset = o /\ headers'[k].size = Len(bytes)
      BY <3>1, <3>2
    <3> HIDE DEF file, h
    <3>4. \A i \in 1 .. Len(list'[k].bytes) : content'[o + i] = list'[k].bytes[i]
      BY <1>14, <3>2, <3>3
    <3>5. headers'[k].offset = Base' + o /\ o + Len(list'[k].bytes) <= Len(content')
      BY <3>2, <3>3, <1>4, <1>5
    <3>6. Lies(headers[k], list[k].bytes, o)'
      BY <3>3, <3>4, <3>5, Zenon DEF Lies
    <3>7. headers'[k] = [size |-> headers'[k].size, offset |-> headers'[k].offset,
                         name |-> list'[k].name]
      BY <3>1 DEF file, h
    <3> QED BY <3>6, <3>7
  <2>2. CASE k # n
    <3>1. k \in 1 .. Len(list) /\ headers'[k] = headers[k] /\ list'[k] = list[k]
      BY <2>2, <1>3, <1>5, <1>8, SMTT(30)
    <3>2. PICK o \in Nat : Lies(headers[k], list[k].bytes, o)
      BY <3>1 DEF ImageInv
    <3>3. list[k].bytes \in Seq(Byte) /\ Len(list[k].bytes) \in Nat
      BY <3>1, FileType
    <3>4. Lies(headers[k], list[k].bytes, o)'
      <4>1. ASSUME NEW i \in 1 .. Len(list[k].bytes) PROVE content'[o + i] = list[k].bytes[i]
        <5>1. o + i \in 1 .. Len(content) /\ content[o + i] = list[k].bytes[i]
          BY <3>2, <3>3, <1>5 DEF Lies
        <5> QED BY <5>1, <1>4
      <4>2. headers'[k].offset = Base' + o /\ headers'[k].size = Len(list[k].bytes)
            /\ o + Len(list[k].bytes) <= Len(content')
        BY <3>1, <3>2, <3>3, <1>4, <1>5 DEF Lies
      <4> QED BY <3>1, <4>1, <4>2 DEF Lies
    <3> QED BY <3>1, <3>4 DEF ImageInv
  <2> QED BY <2>1, <2>2
<1>11. NodesInv'
  BY <1>1 DEF NodesInv
<1>12. phase' = "build"
  BY <1>1
<1>13. ImageInv'
  BY <1>3, <1>4, <1>8, <1>9, <1>10, <1>12 DEF ImageInv
<1> QED BY <1>11, <1>13

LEMMA FilesAddressable ==
    ASSUME Addressable, ImageInv
    PROVE  /\ WORD \in Nat \ {0} /\ LOCATION \in Nat /\ Len(content) \in Nat
           /\ LOCATION + ContentOffset + Len(content) < WORD
           /\ \A s \in Sizes : s \in Nat /\ Len(content) + s < WORD
<1> DEFINE m == FILE_HEADER * Len(headers)
<1>1. LOCATION + HEADER + m + Len(content) < WORD
  BY DEF Addressable
<1>2. ContentOffset = HEADER + m
  BY DEF ContentOffset
<1>3. HEADER \in Nat /\ LOCATION \in Nat /\ FILE_HEADER \in Nat /\ WORD \in Nat \ {0}
      /\ \A s \in Sizes : s \in Nat
  BY FilesConstants
<1>4. Len(headers) \in Nat /\ Len(content) \in Nat
  BY DEF ImageInv
<1>5. \A a, b \in Nat : a * b \in Nat
  OBVIOUS
<1>6. m \in Nat
  BY <1>3, <1>4, <1>5
<1>7. \A s \in Sizes : Len(content) + s < WORD
  BY DEF Addressable
<1> HIDE DEF m
<1> QED BY <1>1, <1>2, <1>3, <1>4, <1>6, <1>7

LEMMA NoWrap == ASSUME NEW a \in Nat, NEW w \in Nat, a < w PROVE a % w = a
OBVIOUS

(* The header is written last.                                             *)
LEMMA ImageFinish ==
    ASSUME ImageInv, NodesInv, Finish
    PROVE  ImageInv' /\ NodesInv'
<1>1. phase = "build" /\ phase' = "loaded" /\ UNCHANGED <<list, headers, content, nodes>>
      /\ header'.num_files = Len(headers) /\ header'.content_offset = ContentOffset
  BY DEF Finish, ContentOffset
<1>2. ContentOffset' = ContentOffset /\ Base' = Base
  BY <1>1 DEF ContentOffset, Base
<1>3. ASSUME NEW k \in 1 .. Len(list) PROVE \E o \in Nat : Lies(headers[k], list[k].bytes, o)'
  <2>1. PICK o \in Nat : Lies(headers[k], list[k].bytes, o)
    BY DEF ImageInv
  <2>2. Lies(headers[k], list[k].bytes, o)'
    BY <1>1, <1>2, <2>1 DEF Lies
  <2> QED BY <2>2
<1>4. ImageInv'
  BY <1>1, <1>2, <1>3 DEF ImageInv
<1> QED BY <1>1, <1>4 DEF NodesInv

(* Initialize moves every offset to where its file is in memory.           *)
LEMMA ImageInitialize ==
    ASSUME ImageInv, NodesInv, Addressable, Initialize
    PROVE  ImageInv' /\ NodesInv'
<1>1. phase = "loaded" /\ phase' = "up" /\ UNCHANGED <<list, header, content>>
      /\ header.num_files = Len(list) /\ header.content_offset = ContentOffset
  BY DEF Initialize, ImageInv
<1>2. headers' = [k \in 1 .. Len(list) |-> [headers[k] EXCEPT !.offset = Relocated(@)]]
  BY DEF Initialize, ImageInv
<1>3. Len(list) \in Nat /\ Len(headers) = Len(list) /\ Len(headers') = Len(list)
  <2>1. Len(list) \in Nat /\ Len(headers) = Len(list)
    BY DEF ImageInv
  <2> QED BY <1>2, <2>1
<1>4. ContentOffset' = ContentOffset /\ Base = 0 /\ Base' = LOCATION + ContentOffset
  BY <1>1, <1>3 DEF ContentOffset, Base
<1>5. ASSUME NEW k \in 1 .. Len(list)
      PROVE  /\ headers'[k] = [size |-> headers[k].size, offset |-> headers'[k].offset,
                               name |-> list[k].name]
             /\ \E o \in Nat : Lies(headers[k], list[k].bytes, o)'
  <2>1. PICK o \in Nat : Lies(headers[k], list[k].bytes, o)
    BY DEF ImageInv
  <2>2. headers[k] = [size |-> headers[k].size, offset |-> headers[k].offset, name |-> list[k].name]
    BY DEF ImageInv
  <2>3. headers'[k] = [headers[k] EXCEPT !.offset = Relocated(@)]
    BY <1>2
  <2>4. headers'[k] = [size |-> headers[k].size, offset |-> Relocated(headers[k].offset),
                       name |-> list[k].name]
    BY <2>2, <2>3
  <2>5. Len(list[k].bytes) \in Nat
    BY FileType
  <2>6. headers[k].offset = o /\ o <= Len(content)
    BY <1>4, <2>1, <2>5, FilesAddressable DEF Lies
  <2>7. Relocated(headers[k].offset) = Base' + o
    <3>1. Relocated(headers[k].offset) = (o + LOCATION + ContentOffset) % WORD
      BY <1>1, <2>6 DEF Relocated
    <3>2. o + LOCATION + ContentOffset \in Nat /\ o + LOCATION + ContentOffset < WORD
          /\ o + LOCATION + ContentOffset = Base' + o
      BY <1>4, <2>6, FilesAddressable, ContentOffsetType, SMTT(30)
    <3>3. (o + LOCATION + ContentOffset) % WORD = o + LOCATION + ContentOffset
      BY <3>2, FilesAddressable, NoWrap
    <3> QED BY <3>1, <3>2, <3>3
  <2>8. Lies(headers[k], list[k].bytes, o)'
    BY <1>1, <2>1, <2>4, <2>7 DEF Lies
  <2> QED BY <2>4, <2>8
<1>6. ImageInv'
  <2>1. DOMAIN headers' = 1 .. Len(list) /\ headers' = [k \in 1 .. Len(list) |-> headers'[k]]
    BY <1>2
  <2>2. \A k \in 1 .. Len(list) :
          headers'[k] = [size |-> headers'[k].size, offset |-> headers'[k].offset,
                         name |-> list[k].name]
    <3> TAKE k \in 1 .. Len(list)
    <3>1. headers'[k] = [size |-> headers[k].size, offset |-> headers'[k].offset,
                         name |-> list[k].name]
      BY <1>5
    <3> QED BY <3>1
  <2> QED BY <1>1, <1>3, <1>4, <1>5, <2>1, <2>2 DEF ImageInv
<1>7. NodesInv'
  <2>1. \A k \in 1 .. Len(list) : headers[k].name = list[k].name /\ headers[k].size = Len(list[k].bytes)
    BY DEF ImageInv, Lies
  <2> QED BY <1>1, <2>1 DEF NodesInv, Initialize
<1> QED BY <1>6, <1>7

LEMMA ImageSame ==
    ASSUME ImageInv, NodesInv, UNCHANGED <<phase, list, header, headers, content, nodes>>
    PROVE  ImageInv' /\ NodesInv'
<1>1. ContentOffset' = ContentOffset /\ Base' = Base
  BY DEF ContentOffset, Base
<1>2. ASSUME NEW k \in 1 .. Len(list) PROVE \E o \in Nat : Lies(headers[k], list[k].bytes, o)'
  <2>1. PICK o \in Nat : Lies(headers[k], list[k].bytes, o)
    BY DEF ImageInv
  <2>2. Lies(headers[k], list[k].bytes, o)'
    BY <1>1, <2>1 DEF Lies
  <2> QED BY <2>2
<1>3. ImageInv'
  BY <1>1, <1>2 DEF ImageInv
<1> QED BY <1>3 DEF NodesInv

-----------------------------------------------------------------------------
(* What Read copies is the file's own bytes from the offset on, and it is  *)
(* short only at the end of the file.                                      *)
LEMMA ReadCopies ==
    ASSUME ImageInv, NodesInv, Addressable, phase = "up",
           NEW n \in 1 .. Len(list), NEW offset \in Nat, NEW size \in Sizes,
           NEW c, c = Copied(n, offset, size)
    PROVE  /\ c \in Seq(Byte)
           /\ \A k \in 1 .. Len(c) : /\ offset + k <= Len(list[n].bytes)
                                     /\ c[k] = list[n].bytes[offset + k]
           /\ Len(c) < size => offset + Len(c) >= Len(list[n].bytes)
<1> DEFINE h == headers[n]
           bytes == list[n].bytes
           m == Clipped(h, offset, size)
<1>1. PICK o \in Nat : Lies(h, bytes, o)
  BY DEF ImageInv
<1>2. bytes \in Seq(Byte) /\ Len(bytes) \in Nat /\ size \in Nat
  BY FileType, FilesConstants
<1>3. n \in DOMAIN nodes /\ nodes[n].inode + 1 = n
  BY DEF NodesInv, ImageInv
<1>4. c = [k \in 1 .. m |-> ByteAt((h.offset + offset + k - 1) % WORD)]
  BY <1>3 DEF Copied
<1>5. h.size = Len(bytes) /\ h.offset = LOCATION + ContentOffset + o /\ o + Len(bytes) <= Len(content)
      /\ \A i \in 1 .. Len(bytes) : content[o + i] = bytes[i]
  BY <1>1 DEF Lies, Base
<1> HIDE DEF h, bytes
<1>6. m = IF offset > Len(bytes) THEN 0
          ELSE IF offset + size > Len(bytes) THEN Len(bytes) - offset ELSE size
  <2>1. CASE offset > Len(bytes)
    BY <1>5, <2>1 DEF Clipped
  <2>2. CASE ~(offset > Len(bytes))
    <3>1. offset + size \in Nat /\ offset + size < WORD
      BY <1>2, <1>5, <2>2, <1>1, FilesAddressable
    <3>2. (offset + size) % WORD = offset + size
      BY <3>1, FilesAddressable, NoWrap
    <3> QED BY <1>5, <2>2, <3>2 DEF Clipped
  <2> QED BY <2>1, <2>2
<1> HIDE DEF m
<1>7. m \in Nat /\ m <= size /\ (m < size => offset + m >= Len(bytes))
      /\ (m > 0 => offset + m <= Len(bytes))
  BY <1>2, <1>6
<1>8. ASSUME NEW k \in 1 .. m
      PROVE  /\ offset + k <= Len(bytes)
             /\ ByteAt((h.offset + offset + k - 1) % WORD) = bytes[offset + k]
             /\ bytes[offset + k] \in Byte
  <2> DEFINE a == h.offset + offset + k - 1
  <2>1. k \in Nat /\ k >= 1 /\ offset + k <= Len(bytes) /\ offset + k \in 1 .. Len(bytes)
    BY <1>2, <1>7
  <2>2. a \in Nat /\ a < WORD /\ a - (LOCATION + ContentOffset) + 1 = o + (offset + k)
        /\ o + (offset + k) \in 1 .. Len(content)
    <3>1. WORD \in Nat /\ LOCATION \in Nat /\ Len(content) \in Nat /\ ContentOffset \in Nat
          /\ LOCATION + ContentOffset + Len(content) < WORD
      BY FilesAddressable, ContentOffsetType
    <3>2. h.offset = LOCATION + ContentOffset + o /\ o + Len(bytes) <= Len(content)
      BY <1>5
    <3> HIDE DEF a
    <3>3. a = LOCATION + ContentOffset + o + offset + k - 1
      BY <3>2 DEF a
    <3> QED BY <1>2, <2>1, <3>1, <3>2, <3>3
  <2>3. a % WORD = a
    <3> HIDE DEF a
    <3> QED BY <2>2, FilesAddressable, NoWrap
  <2>4. ByteAt(a) = content[o + (offset + k)]
    <3>1. LOCATION + HEADER + FILE_HEADER * Len(headers) = LOCATION + ContentOffset
      <4> DEFINE f == FILE_HEADER * Len(headers)
      <4>1. f \in Int
        <5>1. Len(headers) \in Int /\ FILE_HEADER \in Int
          BY Constants DEF ImageInv
        <5>2. \A a2, b2 \in Int : a2 * b2 \in Int
          OBVIOUS
        <5> QED BY <5>1, <5>2
      <4>2. ContentOffset = HEADER + f
        BY DEF ContentOffset
      <4> HIDE DEF f
      <4>3. LOCATION + HEADER + f = LOCATION + ContentOffset
        <5>1. HEADER \in Int /\ LOCATION \in Int
          BY Constants
        <5> QED BY <4>1, <4>2, <5>1
      <4> QED BY <4>3 DEF f
    <3>2. DOMAIN content = 1 .. Len(content)
      BY DEF ImageInv
    <3> HIDE DEF a
    <3> QED BY <2>2, <3>1, <3>2 DEF ByteAt
  <2>5. content[o + (offset + k)] = bytes[offset + k]
    BY <2>1, <1>5
  <2>6. bytes[offset + k] \in Byte
    BY <2>1, <1>2, ElementOfSeq
  <2> HIDE DEF a
  <2>7. ByteAt(a % WORD) = bytes[offset + k]
    BY <2>3, <2>4, <2>5
  <2> QED BY <2>1, <2>6, <2>7 DEF a
<1>9. c \in Seq(Byte) /\ Len(c) = m
  BY <1>4, <1>7, <1>8
<1>10. \A k \in 1 .. m : c[k] = bytes[offset + k]
  BY <1>4, <1>8
<1>11. \A k \in 1 .. Len(c) : offset + k <= Len(bytes) /\ c[k] = bytes[offset + k]
  BY <1>8, <1>9, <1>10
<1>12. Len(c) < size => offset + Len(c) >= Len(bytes)
  BY <1>7, <1>9
<1> QED BY <1>9, <1>11, <1>12 DEF bytes

-----------------------------------------------------------------------------
(* The calls.                                                              *)

GoodRead(j) ==
    LET bytes == list[j.node].bytes
    IN  /\ \A k \in 1 .. Len(j.buf) : /\ j.from + k <= Len(bytes)
                                       /\ j.buf[k] = bytes[j.from + k]
        /\ j.short => j.from + Len(j.buf) >= Len(bytes)

(* What is known of a call, whatever the other tasks do.                   *)
CallOf(j) ==
    /\ Shaped(j) /\ j.name \in Name /\ j.from \in Nat /\ j.buf \in Seq(Byte)
    /\ j.pc \in {"idle", "read_dir", "find_dir", "branch", "returned", "open"}
    /\ j.i \in 0 .. Len(nodes) + 1
    /\ j.pc \in {"find_dir", "branch"} => j.i <= Len(nodes)
    /\ j.node \in {Null, Dev} \cup 1 .. Len(nodes)
    /\ phase # "up" => j = Idle
    /\ j.pc = "returned" => j.node # Dev
    /\ j.pc = "open" => j.node \in 1 .. Len(nodes) /\ GoodRead(j)
    /\ j.pc # "open" => j.buf = <<>> /\ ~j.short

(* What a traversal knows besides that when it has the entry to itself.    *)
Passed(j) == j.name = DEV \/ \A l \in 1 .. Len(list) : l < j.i => list[l].name # j.name

AloneOf(j) ==
    /\ j.pc \in Traversing => Passed(j)
    /\ j.pc \in {"find_dir", "branch"} => curr_dir = Entry(j.i)
    /\ j.pc = "branch" => j.node = Lookup(curr_dir)
    /\ j.pc = "returned" => j.node = First(j.name)

CallsInv ==
    /\ curr_dir \in Name \cup {""}
    /\ job = [t \in Task |-> job[t]]
    /\ \A t \in Task : CallOf(job[t])
    /\ serial => /\ \A t \in Task : AloneOf(job[t])
                 /\ \A t, u \in Task : job[t].pc \in Traversing /\ job[u].pc \in Traversing => t = u

FilesInv == ImageInv /\ NodesInv /\ CallsInv

-----------------------------------------------------------------------------
(* A set of numbers has a least one.                                       *)
LEMMA Least ==
    ASSUME NEW S \in SUBSET Nat, S # {}
    PROVE  \E n \in S : \A m \in S : n <= m
<1> DEFINE R == {p \in Nat \X Nat : p[1] < p[2]}
<1>1. IsWellFoundedOn(R, Nat)
  BY NatLessThanWellFounded DEF OpToRel
<1>2. PICK n \in S : \A m \in S : ~ (<<m, n>> \in R)
  <2> HIDE DEF R
  <2> QED BY <1>1, WFMin
<1>3. \A m \in S : n <= m
  <2> TAKE m \in S
  <2>1. n \in Nat /\ m \in Nat
    OBVIOUS
  <2>2. ~ (m < n)
    BY <1>2, <2>1
  <2> QED BY <2>1, <2>2
<1> QED BY <1>3

(* The nodes are the files; DEV hides a file of that name.                 *)
LEMMA NodesUp ==
    ASSUME ImageInv, NodesInv, phase = "up"
    PROVE  /\ Len(nodes) = Len(list) /\ Len(list) \in Nat
           /\ DOMAIN nodes = 1 .. Len(list) /\ DOMAIN list = 1 .. Len(list)
           /\ \A k \in 1 .. Len(list) : nodes[k].name = list[k].name /\ list[k].name \in Name
<1>1. Len(list) \in Nat /\ DOMAIN list = 1 .. Len(list)
  BY DEF ImageInv
<1>2. nodes = [k \in 1 .. Len(list) |->
                 [name |-> list[k].name, length |-> Len(list[k].bytes), inode |-> k - 1]]
  BY DEF NodesInv
<1>3. \A k \in 1 .. Len(list) : list[k].name \in Name
  BY FileType
<1> QED BY <1>1, <1>2, <1>3

LEMMA LookupFirst ==
    ASSUME ImageInv, NodesInv, phase = "up", NEW name
    PROVE  /\ Lookup(name) \in {Null, Dev} \cup 1 .. Len(nodes)
           /\ name = DEV => Lookup(name) = Dev
           /\ name # DEV => Lookup(name) = First(name)
           /\ First(name) \in {Null} \cup 1 .. Len(nodes)
           /\ (\A k \in 1 .. Len(list) : list[k].name # name) => First(name) = Null
<1> DEFINE of == {k \in DOMAIN list : list[k].name = name}
<1>1. of = {k \in DOMAIN nodes : nodes[k].name = name} /\ of \subseteq 1 .. Len(list)
  BY NodesUp
<1>2. of # {} => \E k \in of : \A l \in of : k <= l
  <2> SUFFICES ASSUME of # {} PROVE \E k \in of : \A l \in of : k <= l
    OBVIOUS
  <2>1. of \subseteq Nat
    BY <1>1, NodesUp
  <2> HIDE DEF of
  <2> QED BY <2>1, Least
<1> DEFINE least == Foremost(of)
<1>3. of # {} => least \in of
  <2> HIDE DEF of
  <2> QED BY <1>2 DEF Foremost
<1>4. First(name) = IF of = {} \/ name = DEV THEN Null ELSE least
  BY DEF First
<1>5. Lookup(name) = IF name = DEV THEN Dev ELSE IF of = {} THEN Null ELSE least
  <2> DEFINE named == {k \in DOMAIN nodes : nodes[k].name = name}
  <2>1. Lookup(name) = IF name = DEV THEN Dev ELSE IF named = {} THEN Null ELSE Foremost(named)
    BY DEF Lookup
  <2>2. of = named
    BY <1>1
  <2> HIDE DEF of, named
  <2> QED BY <2>1, <2>2
<1>6. (\A k \in 1 .. Len(list) : list[k].name # name) => of = {}
  BY NodesUp
<1> HIDE DEF of, least
<1> QED BY <1>1, <1>3, <1>4, <1>5, <1>6, NodesUp

LEMMA IdleType ==
    /\ Shaped(Idle) /\ Idle.name \in Name /\ Idle.from \in Nat /\ Idle.buf \in Seq(Byte)
    /\ Idle.pc = "idle" /\ Idle.i = 0 /\ Idle.node = Null /\ Idle.buf = <<>> /\ ~Idle.short
<1>1. DEV \in Name
  BY FilesConstants, Zenon
<1>2. <<>> \in Seq(Byte)
  OBVIOUS
<1> QED BY <1>1, <1>2 DEF Shaped, Idle

LEMMA CallIdle == ASSUME Len(nodes) \in Nat PROVE CallOf(Idle)
<1>1. 0 \in 0 .. Len(nodes) + 1
  OBVIOUS
<1> QED BY <1>1, IdleType DEF CallOf

LEMMA CallsInit == Init => CallsInv
<1> SUFFICES ASSUME Init PROVE CallsInv
  OBVIOUS
<1>1. \A t \in Task : job[t] = Idle
  BY DEF Init
<1>2. job = [t \in Task |-> job[t]] /\ curr_dir = "" /\ nodes = <<>> /\ phase = "build"
  BY DEF Init
<1>3. CallOf(Idle)
  BY <1>2, CallIdle
<1>4. AloneOf(Idle) /\ Idle.pc \notin Traversing
  BY DEF AloneOf, Idle, Traversing
<1> QED BY <1>1, <1>2, <1>3, <1>4 DEF CallsInv

(* Building and starting up leave the calls as they were.                  *)
LEMMA CallsBuild ==
    ASSUME FilesInv, phase # "up", UNCHANGED <<job, curr_dir, serial>>, Len(nodes') \in Nat
    PROVE  CallsInv'
<1>1. \A t \in Task : job'[t] = Idle
  BY DEF FilesInv, CallsInv, CallOf
<1>2. CallOf(Idle)'
  <2>1. /\ Shaped(Idle) /\ Idle.name \in Name /\ Idle.from \in Nat /\ Idle.buf \in Seq(Byte)
        /\ Idle.pc = "idle" /\ Idle.i = 0 /\ Idle.node = Null /\ Idle.buf = <<>> /\ ~Idle.short
    BY IdleType
  <2>2. 0 \in 0 .. Len(nodes') + 1
    OBVIOUS
  <2> QED BY <2>1, <2>2 DEF CallOf
<1>3. AloneOf(Idle)' /\ Idle.pc \notin Traversing
  BY DEF AloneOf, Idle, Traversing
<1> QED BY <1>1, <1>2, <1>3 DEF FilesInv, CallsInv

(* A step that changes the job of t alone, and the entry only if t has it  *)
(* to itself or nobody has.                                                *)
LEMMA CallTurn ==
    ASSUME FilesInv, NEW t \in Task, NEW j, job' = [job EXCEPT ![t] = j],
           UNCHANGED <<phase, list, header, headers, content, nodes, serial>>,
           CallOf(j), curr_dir' \in Name \cup {""},
           serial => AloneOf(j)',
           curr_dir' = curr_dir \/ job[t].pc \in Traversing,
           j.pc \in Traversing => \/ job[t].pc \in Traversing
                                  \/ serial => \A u \in Task : job[u].pc \notin Traversing
    PROVE  CallsInv'
<1>1. job' = [u \in Task |-> job'[u]] /\ job'[t] = j /\ \A u \in Task \ {t} : job'[u] = job[u]
  BY DEF FilesInv, CallsInv
<1>2. \A u \in Task : CallOf(job'[u])
  BY <1>1 DEF FilesInv, CallsInv
<1>3. \A u \in Task : CallOf(job[u])'
  <2> TAKE u \in Task
  <2>1. CallOf(job'[u])
    BY <1>2
  <2>2. GoodRead(job'[u]) => GoodRead(job[u])'
    BY DEF GoodRead
  <2> QED BY <2>1, <2>2 DEF CallOf
<1>4. ASSUME serial PROVE /\ \A u \in Task : AloneOf(job[u])'
                          /\ \A u, v \in Task : job'[u].pc \in Traversing /\ job'[v].pc \in Traversing => u = v
  <2>1. \A u, v \in Task : job[u].pc \in Traversing /\ job[v].pc \in Traversing => u = v
    BY <1>4 DEF FilesInv, CallsInv
  <2>2. \A u, v \in Task : job'[u].pc \in Traversing /\ job'[v].pc \in Traversing => u = v
    BY <1>1, <1>4, <2>1
  <2>3. ASSUME NEW u \in Task \ {t} PROVE AloneOf(job[u])'
    <3>1. AloneOf(job[u]) /\ job'[u] = job[u]
      BY <1>1, <1>4 DEF FilesInv, CallsInv
    <3>2. job[u].pc \in Traversing => curr_dir' = curr_dir
      BY <2>1
    <3>3. job[u].pc \in {"find_dir", "branch"} => job[u].pc \in Traversing
      BY DEF Traversing
    <3>4. Passed(job[u]) => Passed(job[u])'
      BY <3>1 DEF Passed
    <3>5. curr_dir' = curr_dir => /\ Entry(job[u].i)' = Entry(job[u].i)
                                  /\ Lookup(curr_dir)' = Lookup(curr_dir)
      <4>1. nodes' = nodes
        OBVIOUS
      <4>2. Entry(job[u].i)' = Entry(job[u].i)
        <5>1. \A i : (IF i = 0 THEN DEV ELSE IF i \in DOMAIN nodes' THEN nodes'[i].name ELSE "garbage")
                       = Entry(i)
          BY <4>1 DEF Entry
        <5>2. job'[u].i = job[u].i
          BY <3>1
        <5> QED BY <5>1, <5>2 DEF Entry
      <4>3. curr_dir' = curr_dir => Lookup(curr_dir)' = Lookup(curr_dir)
        BY <4>1, Zenon DEF Lookup
      <4> QED BY <4>2, <4>3
    <3>6. First(job[u].name)' = First(job[u].name)
      BY <3>1 DEF First
    <3> QED BY <3>1, <3>2, <3>3, <3>4, <3>5, <3>6 DEF AloneOf
  <2>4. AloneOf(job[t])'
    BY <1>1, <1>4 DEF AloneOf, Passed
  <2> QED BY <2>2, <2>3, <2>4
<1> QED BY <1>1, <1>3, <1>4 DEF FilesInv, CallsInv

LEMMA TraverseStep ==
    ASSUME FilesInv, NEW t \in Task, NEW name \in Name, Traverse(t, name)
    PROVE  CallsInv'
<1>1. PICK k : k = [Idle EXCEPT !.pc = "read_dir"]
  OBVIOUS
<1>2. PICK j : j = [k EXCEPT !.name = name]
  OBVIOUS
<1>3. k = [pc |-> "read_dir", name |-> DEV, i |-> 0, node |-> Null, from |-> 0, buf |-> <<>>,
           short |-> FALSE]
  BY <1>1 DEF Idle
<1>4. j = [pc |-> "read_dir", name |-> name, i |-> 0, node |-> Null, from |-> 0, buf |-> <<>>,
           short |-> FALSE]
  BY <1>2, <1>3
<1>5. job' = [job EXCEPT ![t] = j]
  BY <1>1, <1>2 DEF Traverse
<1>6. phase = "up" /\ Len(nodes) = Len(list) /\ Len(list) \in Nat
  BY NodesUp DEF Traverse, At, FilesInv
<1>7. CallOf(j)
  <2>1. <<>> \in Seq(Byte) /\ 0 \in 0 .. Len(nodes) + 1
    BY <1>6
  <2> QED BY <1>4, <1>6, <2>1 DEF CallOf, Shaped
<1>8. AloneOf(j)'
  BY <1>4 DEF AloneOf, Passed
<1> QED BY <1>5, <1>7, <1>8, CallTurn DEF Traverse, FilesInv, CallsInv

LEMMA ReadDirStep ==
    ASSUME FilesInv, NEW t \in Task, ReadDir(t)
    PROVE  CallsInv'
<1>1. PICK r : r = job[t]
  OBVIOUS
<1>2. /\ phase = "up" /\ Len(nodes) = Len(list) /\ Len(list) \in Nat /\ r.pc = "read_dir"
      /\ UNCHANGED <<phase, list, header, headers, content, nodes, serial>>
      /\ CallOf(r) /\ Shaped(r) /\ job = [u \in Task |-> job[u]]
  BY <1>1, NodesUp DEF ReadDir, At, FilesInv, CallsInv, CallOf
<1>3. serial => Passed(r)
  BY <1>1, <1>2 DEF FilesInv, CallsInv, AloneOf, Traversing
<1>4. curr_dir \in Name \cup {""}
  BY DEF FilesInv, CallsInv
<1>5. CASE Ended(r.i)
  <2>1. PICK k : k = [r EXCEPT !.pc = "returned"]
    OBVIOUS
  <2>2. PICK j : j = [k EXCEPT !.node = Null]
    OBVIOUS
  <2>3. k = [pc |-> "returned", name |-> r.name, i |-> r.i, node |-> r.node, from |-> r.from,
             buf |-> r.buf, short |-> r.short]
    BY <1>2, <2>1 DEF Shaped
  <2>4. j = [pc |-> "returned", name |-> r.name, i |-> r.i, node |-> Null, from |-> r.from,
             buf |-> r.buf, short |-> r.short]
    BY <2>2, <2>3
  <2>5. job' = [job EXCEPT ![t] = j] /\ curr_dir' = curr_dir
    <3>1. job' = [job EXCEPT ![t].pc = "returned", ![t].node = Null] /\ curr_dir' = curr_dir
      BY <1>1, <1>5 DEF ReadDir
    <3> QED BY <3>1, <1>1, <1>2, <2>1, <2>2
  <2>6. CallOf(j)
    BY <1>2, <2>4 DEF CallOf, Shaped, Null, Dev
  <2>7. ASSUME serial PROVE AloneOf(j)'
    <3>1. r.name = DEV \/ \A l \in 1 .. Len(list) : list[l].name # r.name
      <4>1. r.i > Len(list) /\ r.i \in Nat
        BY <1>2, <1>5 DEF Ended, CallOf
      <4>2. \A l \in 1 .. Len(list) : l < r.i
        BY <4>1, <1>2
      <4> QED BY <4>2, <1>3, <2>7 DEF Passed
    <3>2. First(r.name) = Null
      <4>1. CASE r.name = DEV
        BY <4>1 DEF First
      <4>2. CASE r.name # DEV
        BY <4>2, <3>1, <1>2, LookupFirst DEF FilesInv
      <4> QED BY <4>1, <4>2
    <3>3. First(j.name)' = First(r.name)
      BY <1>2, <2>4 DEF First
    <3> QED BY <2>4, <3>2, <3>3 DEF AloneOf, Traversing
  <2> QED BY <1>2, <1>4, <2>4, <2>5, <2>6, <2>7, CallTurn DEF Traversing
<1>6. CASE ~Ended(r.i)
  <2>1. PICK j : j = [r EXCEPT !.pc = "find_dir"]
    OBVIOUS
  <2>2. j = [pc |-> "find_dir", name |-> r.name, i |-> r.i, node |-> r.node, from |-> r.from,
             buf |-> r.buf, short |-> r.short]
    BY <1>2, <2>1 DEF Shaped
  <2>3. job' = [job EXCEPT ![t] = j] /\ curr_dir' = Entry(r.i)
    BY <1>1, <1>2, <1>6, <2>1 DEF ReadDir
  <2>4. r.i \in 0 .. Len(nodes)
    BY <1>2, <1>6 DEF Ended, CallOf
  <2>5. Entry(r.i) \in Name
    <3>1. CASE r.i = 0
      BY <3>1, IdleType DEF Entry, Idle
    <3>2. CASE r.i # 0
      <4>1. r.i \in 1 .. Len(list)
        BY <3>2, <2>4, <1>2
      <4> QED BY <4>1, <3>2, <1>2, NodesUp DEF Entry, FilesInv
    <3> QED BY <3>1, <3>2
  <2>6. CallOf(j)
    BY <1>2, <2>2, <2>4 DEF CallOf, Shaped
  <2>7. ASSUME serial PROVE AloneOf(j)'
    <3>1. Passed(j)'
      BY <1>2, <1>3, <2>2, <2>7 DEF Passed
    <3>2. Entry(j.i)' = Entry(r.i)
      BY <1>2, <2>2 DEF Entry
    <3> QED BY <2>2, <2>3, <3>1, <3>2 DEF AloneOf
  <2>8. job[t].pc \in Traversing
    BY <1>1, <1>2 DEF Traversing
  <2> QED BY <1>2, <2>3, <2>5, <2>6, <2>7, <2>8, CallTurn
<1> QED BY <1>5, <1>6

LEMMA FindDirStep ==
    ASSUME FilesInv, NEW t \in Task, FindDir(t)
    PROVE  CallsInv'
<1>1. PICK r : r = job[t]
  OBVIOUS
<1>2. /\ phase = "up" /\ r.pc = "find_dir" /\ curr_dir' = curr_dir
      /\ UNCHANGED <<phase, list, header, headers, content, nodes, serial>>
      /\ CallOf(r) /\ Shaped(r) /\ job = [u \in Task |-> job[u]] /\ curr_dir \in Name \cup {""}
  BY <1>1 DEF FindDir, At, FilesInv, CallsInv, CallOf
<1>3. PICK n : n = Lookup(curr_dir)
  OBVIOUS
<1>4. PICK k : k = [r EXCEPT !.pc = "branch"]
  OBVIOUS
<1>5. PICK j : j = [k EXCEPT !.node = n]
  OBVIOUS
<1>6. k = [pc |-> "branch", name |-> r.name, i |-> r.i, node |-> r.node, from |-> r.from,
           buf |-> r.buf, short |-> r.short]
  BY <1>2, <1>4 DEF Shaped
<1>7. j = [pc |-> "branch", name |-> r.name, i |-> r.i, node |-> n, from |-> r.from,
           buf |-> r.buf, short |-> r.short]
  BY <1>5, <1>6
<1>8. job' = [job EXCEPT ![t] = j]
  <2>1. job' = [job EXCEPT ![t].pc = "branch", ![t].node = n]
    BY <1>3 DEF FindDir
  <2> QED BY <2>1, <1>1, <1>2, <1>4, <1>5
<1>9. n \in {Null, Dev} \cup 1 .. Len(nodes)
  BY <1>2, <1>3, LookupFirst DEF FilesInv
<1>10. CallOf(j)
  BY <1>2, <1>7, <1>9 DEF CallOf, Shaped
<1>11. ASSUME serial PROVE AloneOf(j)'
  <2>1. Passed(r) /\ curr_dir = Entry(r.i)
    BY <1>1, <1>2, <1>11 DEF FilesInv, CallsInv, AloneOf, Traversing
  <2>2. Passed(j)' /\ Entry(j.i)' = Entry(r.i)
    BY <1>2, <1>7, <2>1 DEF Passed, Entry
  <2>3. Lookup(curr_dir)' = n
    <3>1. nodes' = nodes /\ curr_dir' = curr_dir
      BY <1>2
    <3>2. Lookup(curr_dir)' = Lookup(curr_dir)
      BY <3>1, Zenon DEF Lookup
    <3> QED BY <3>2, <1>3
  <2> QED BY <1>2, <1>7, <2>1, <2>2, <2>3 DEF AloneOf
<1>12. job[t].pc \in Traversing
  BY <1>1, <1>2 DEF Traversing
<1> QED BY <1>2, <1>8, <1>10, <1>11, <1>12, CallTurn

LEMMA BranchStep ==
    ASSUME FilesInv, NEW t \in Task, Branch(t)
    PROVE  CallsInv'
<1>1. PICK r : r = job[t]
  OBVIOUS
<1>2. /\ phase = "up" /\ r.pc = "branch" /\ curr_dir' = curr_dir
      /\ UNCHANGED <<phase, list, header, headers, content, nodes, serial>>
      /\ CallOf(r) /\ Shaped(r) /\ job = [u \in Task |-> job[u]] /\ curr_dir \in Name \cup {""}
      /\ Len(nodes) = Len(list) /\ Len(list) \in Nat
  BY <1>1, NodesUp DEF Branch, At, FilesInv, CallsInv, CallOf
<1>3. job[t].pc \in Traversing
  BY <1>1, <1>2 DEF Traversing
<1>4. serial => Passed(r) /\ curr_dir = Entry(r.i) /\ r.node = Lookup(curr_dir)
  BY <1>1, <1>2, <1>3 DEF FilesInv, CallsInv, AloneOf
<1>5. CASE Matches(r.node, r.name)
  <2>1. PICK j : j = [r EXCEPT !.pc = "returned"]
    OBVIOUS
  <2>2. j = [pc |-> "returned", name |-> r.name, i |-> r.i, node |-> r.node, from |-> r.from,
             buf |-> r.buf, short |-> r.short]
    BY <1>2, <2>1 DEF Shaped
  <2>3. job' = [job EXCEPT ![t] = j] /\ r.node # Dev /\ curr_dir = r.name
    BY <1>1, <1>2, <1>5, <2>1 DEF Branch, Matches, IsDirectory
  <2>4. CallOf(j)
    BY <1>2, <2>2, <2>3 DEF CallOf, Shaped
  <2>5. ASSUME serial PROVE AloneOf(j)'
    <3>1. r.node = First(r.name)
      BY <1>2, <1>4, <2>3, <2>5, LookupFirst DEF FilesInv
    <3>2. First(j.name)' = First(r.name)
      BY <1>2, <2>2 DEF First
    <3> QED BY <2>2, <3>1, <3>2 DEF AloneOf, Traversing
  <2> QED BY <1>2, <1>3, <2>3, <2>4, <2>5, CallTurn
<1>6. CASE ~Matches(r.node, r.name)
  <2>1. PICK k : k = [r EXCEPT !.pc = "read_dir"]
    OBVIOUS
  <2>2. PICK j : j = [k EXCEPT !.i = r.i + 1]
    OBVIOUS
  <2>3. k = [pc |-> "read_dir", name |-> r.name, i |-> r.i, node |-> r.node, from |-> r.from,
             buf |-> r.buf, short |-> r.short]
    BY <1>2, <2>1 DEF Shaped
  <2>4. j = [pc |-> "read_dir", name |-> r.name, i |-> r.i + 1, node |-> r.node, from |-> r.from,
             buf |-> r.buf, short |-> r.short]
    BY <2>2, <2>3
  <2>5. job' = [job EXCEPT ![t] = j]
    <3>1. job' = [job EXCEPT ![t].pc = "read_dir", ![t].i = r.i + 1]
      BY <1>1, <1>2, <1>6 DEF Branch, Advanced
    <3> QED BY <3>1, <1>1, <1>2, <2>1, <2>2
  <2>6. r.i \in 0 .. Len(nodes)
    <3>1. r.i \in 0 .. Len(nodes) + 1 /\ r.i <= Len(nodes)
      BY <1>2 DEF CallOf
    <3>2. Len(nodes) \in Nat
      BY <1>2
    <3> QED BY <3>1, <3>2
  <2>7. CallOf(j)
    <3>2. Len(nodes) \in Nat
      BY <1>2
    <3>1. r.i + 1 \in 0 .. Len(nodes) + 1
      BY <2>6, <3>2
    <3> QED BY <1>2, <2>4, <3>1 DEF CallOf, Shaped
  <2>8. ASSUME serial PROVE AloneOf(j)'
    <3>1. ASSUME r.name # DEV, NEW l \in 1 .. Len(list), l < r.i + 1 PROVE list[l].name # r.name
      <4>1. CASE l < r.i
        BY <1>4, <2>8, <3>1, <4>1 DEF Passed
      <4>2. CASE l = r.i
        <5>1. curr_dir = list[l].name
          <6>3. ImageInv /\ NodesInv /\ phase = "up"
            BY <1>2 DEF FilesInv
          <6>4. DOMAIN nodes = 1 .. Len(list)
                /\ \A m \in 1 .. Len(list) : nodes[m].name = list[m].name
            BY <6>3, NodesUp
          <6>1. l \in DOMAIN nodes /\ nodes[l].name = list[l].name /\ l # 0
            BY <3>1, <6>4
          <6>2. curr_dir = Entry(l)
            BY <1>4, <2>8, <4>2
          <6> QED BY <6>1, <6>2 DEF Entry
        <5>2. list[l].name = r.name => r.node # Dev
          <6>1. First(r.name) # Dev
            <7>1. First(r.name) \in {Null} \cup 1 .. Len(nodes)
              BY <1>2, LookupFirst DEF FilesInv
            <7>2. Dev # Null /\ \A m \in 1 .. Len(nodes) : m # Dev
              BY DEF Dev, Null
            <7> QED BY <7>1, <7>2
          <6>2. r.name # DEV => Lookup(r.name) = First(r.name)
            BY <1>2, LookupFirst DEF FilesInv
          <6> QED BY <1>4, <2>8, <3>1, <5>1, <6>1, <6>2
        <5> QED BY <1>6, <5>1, <5>2 DEF Matches, IsDirectory
      <4> QED BY <2>6, <3>1, <4>1, <4>2
    <3>2. Passed(j)'
      BY <1>2, <2>4, <3>1 DEF Passed
    <3> QED BY <2>4, <3>2 DEF AloneOf
  <2> QED BY <1>2, <1>3, <2>5, <2>7, <2>8, CallTurn
<1> QED BY <1>5, <1>6

LEMMA OpenStep ==
    ASSUME FilesInv, NEW t \in Task, NEW offset \in Offsets, Open(t, offset)
    PROVE  CallsInv'
<1>1. PICK r : r = job[t]
  OBVIOUS
<1>2. /\ phase = "up" /\ r.pc = "returned" /\ r.node # Null /\ curr_dir' = curr_dir
      /\ UNCHANGED <<phase, list, header, headers, content, nodes, serial>>
      /\ CallOf(r) /\ Shaped(r) /\ job = [u \in Task |-> job[u]] /\ curr_dir \in Name \cup {""}
  BY <1>1 DEF Open, At, FilesInv, CallsInv, CallOf
<1>3. PICK k : k = [r EXCEPT !.pc = "open"]
  OBVIOUS
<1>4. PICK j : j = [k EXCEPT !.from = offset]
  OBVIOUS
<1>5. k = [pc |-> "open", name |-> r.name, i |-> r.i, node |-> r.node, from |-> r.from,
           buf |-> r.buf, short |-> r.short]
  BY <1>2, <1>3 DEF Shaped
<1>6. j = [pc |-> "open", name |-> r.name, i |-> r.i, node |-> r.node, from |-> offset,
           buf |-> r.buf, short |-> r.short]
  BY <1>4, <1>5
<1>7. job' = [job EXCEPT ![t] = j]
  <2>1. job' = [job EXCEPT ![t].pc = "open", ![t].from = offset]
    BY DEF Open
  <2> QED BY <2>1, <1>1, <1>2, <1>3, <1>4
<1>8. offset \in Nat
  BY FilesConstants
<1>9. r.node \in 1 .. Len(nodes)
  BY <1>2 DEF CallOf
<1>10. r.buf = <<>> /\ ~r.short
  BY <1>1, <1>2 DEF FilesInv, CallsInv, CallOf
<1>11. CallOf(j)
  <2>1. GoodRead(j)
    BY <1>6, <1>10 DEF GoodRead
  <2> QED BY <1>2, <1>6, <1>8, <1>9, <2>1 DEF CallOf, Shaped
<1>12. AloneOf(j)'
  BY <1>6 DEF AloneOf, Traversing
<1> QED BY <1>2, <1>6, <1>7, <1>11, <1>12, CallTurn DEF Traversing

LEMMA ReadStep ==
    ASSUME FilesInv, Addressable, NEW t \in Task, NEW size \in Sizes, Read(t, size)
    PROVE  CallsInv'
<1>1. PICK r : r = job[t]
  OBVIOUS
<1>2. /\ phase = "up" /\ r.pc = "open" /\ ~r.short /\ curr_dir' = curr_dir
      /\ UNCHANGED <<phase, list, header, headers, content, nodes, serial>>
      /\ CallOf(r) /\ Shaped(r) /\ job = [u \in Task |-> job[u]] /\ curr_dir \in Name \cup {""}
  BY <1>1 DEF Read, At, FilesInv, CallsInv, CallOf
<1>3. r.node \in 1 .. Len(list) /\ r.buf \in Seq(Byte) /\ r.from \in Nat /\ GoodRead(r)
      /\ r.node \in 1 .. Len(nodes)
  BY <1>2, NodesUp DEF CallOf, FilesInv
<1>4. PICK offset \in Nat : offset = r.from + Len(r.buf)
  BY <1>3
<1>5. PICK more : more = Copied(r.node, offset, size)
  OBVIOUS
<1>6. PICK buf : buf = r.buf \o more
  OBVIOUS
<1>7. PICK short : short = (Len(more) < size)
  OBVIOUS
<1>8. PICK k : k = [r EXCEPT !.buf = buf]
  OBVIOUS
<1>9. PICK j : j = [k EXCEPT !.short = short]
  OBVIOUS
<1>10. k = [pc |-> "open", name |-> r.name, i |-> r.i, node |-> r.node, from |-> r.from,
            buf |-> buf, short |-> r.short]
  BY <1>2, <1>8 DEF Shaped
<1>11. j = [pc |-> "open", name |-> r.name, i |-> r.i, node |-> r.node, from |-> r.from,
            buf |-> buf, short |-> short]
  BY <1>9, <1>10
<1>12. job' = [job EXCEPT ![t] = j]
  <2>1. job' = [job EXCEPT ![t].buf = buf, ![t].short = short]
    BY <1>1, <1>2, <1>4, <1>5, <1>6, <1>7 DEF Read
  <2> QED BY <2>1, <1>1, <1>2, <1>8, <1>9
<1>18. ImageInv /\ NodesInv /\ phase = "up"
  BY <1>2 DEF FilesInv
<1>13. more \in Seq(Byte)
       /\ \A l \in 1 .. Len(more) : /\ offset + l <= Len(list[r.node].bytes)
                                    /\ more[l] = list[r.node].bytes[offset + l]
  <2>1. r.node \in 1 .. Len(list) /\ offset \in Nat /\ size \in Sizes
    BY <1>3
  <2> QED BY <2>1, <1>5, <1>18, ReadCopies, ZenonT(60)
<1>20. Len(more) < size => offset + Len(more) >= Len(list[r.node].bytes)
  <2>1. r.node \in 1 .. Len(list) /\ offset \in Nat /\ size \in Sizes
    BY <1>3
  <2> QED BY <2>1, <1>5, <1>18, ReadCopies, ZenonT(30)
<1>14. buf \in Seq(Byte) /\ Len(buf) = Len(r.buf) + Len(more)
       /\ \A l \in 1 .. Len(r.buf) : buf[l] = r.buf[l]
  BY <1>3, <1>6, <1>13, ConcatProperties
<1>19. ASSUME NEW l \in 1 .. Len(more) PROVE buf[Len(r.buf) + l] = more[l]
  <2>1. r.buf \in Seq(Byte) /\ more \in Seq(Byte)
    BY <1>3, <1>13
  <2>2. Len(r.buf) + l \in 1 .. Len(r.buf) + Len(more) /\ Len(r.buf) + l > Len(r.buf)
        /\ Len(r.buf) + l - Len(r.buf) = l
    BY <2>1
  <2> QED BY <2>1, <2>2, <1>6, ConcatProperties
<1>15. GoodRead(j)
  <2>1. ASSUME NEW l \in 1 .. Len(buf)
        PROVE  r.from + l <= Len(list[r.node].bytes) /\ buf[l] = list[r.node].bytes[r.from + l]
    <3>1. CASE l <= Len(r.buf)
      <4>1. l \in 1 .. Len(r.buf)
        BY <3>1, <1>3
      <4> QED BY <4>1, <1>3, <1>14 DEF GoodRead
    <3>2. CASE ~(l <= Len(r.buf))
      <4>1. PICK m \in 1 .. Len(more) : l = Len(r.buf) + m
        <5>1. l - Len(r.buf) \in 1 .. Len(more) /\ l = Len(r.buf) + (l - Len(r.buf))
          BY <3>2, <1>3, <1>13, <1>14
        <5> QED BY <5>1
      <4>2. offset + m = r.from + l
        BY <4>1, <1>3, <1>4, SMTT(30)
      <4>3. buf[l] = more[m]
        BY <4>1, <1>19
      <4> QED BY <4>2, <4>3, <1>13
    <3> QED BY <3>1, <3>2
  <2>2. short => r.from + Len(buf) >= Len(list[r.node].bytes)
    <3>1. r.from + Len(buf) = offset + Len(more)
      <4>1. Len(r.buf) \in Nat /\ Len(more) \in Nat /\ Len(buf) = Len(r.buf) + Len(more)
        BY <1>3, <1>13, <1>14
      <4> QED BY <4>1, <1>3, <1>4, SMTT(30)
    <3>2. short => offset + Len(more) >= Len(list[r.node].bytes)
      BY <1>7, <1>20, Zenon
    <3> QED BY <3>1, <3>2
  <2>3. j.node = r.node /\ j.buf = buf /\ j.from = r.from /\ j.short = short
    BY <1>11
  <2> QED BY <2>1, <2>2, <2>3 DEF GoodRead
<1>16. CallOf(j)
  BY <1>2, <1>3, <1>11, <1>14, <1>15 DEF CallOf, Shaped
<1>17. AloneOf(j)'
  BY <1>11 DEF AloneOf, Traversing
<1> QED BY <1>2, <1>11, <1>12, <1>16, <1>17, CallTurn DEF Traversing

LEMMA CloseStep ==
    ASSUME FilesInv, NEW t \in Task, Close(t)
    PROVE  CallsInv'
<1>1. PICK j : j = Idle
  OBVIOUS
<1>2. job' = [job EXCEPT ![t] = j] /\ curr_dir' = curr_dir /\ curr_dir \in Name \cup {""}
      /\ UNCHANGED <<phase, list, header, headers, content, nodes, serial>>
      /\ phase = "up"
  BY <1>1 DEF Close, At, FilesInv, CallsInv
<1>3. CallOf(j)
  BY <1>1, <1>2, CallIdle, NodesUp DEF FilesInv
<1>4. AloneOf(j)'
  BY <1>1 DEF AloneOf, Idle, Traversing
<1>5. j.pc \notin Traversing
  BY <1>1 DEF Idle, Traversing
<1> QED BY <1>2, <1>3, <1>4, <1>5, CallTurn

-----------------------------------------------------------------------------
LEMMA FilesNext == FilesInv /\ Addressable /\ [Next]_vars => FilesInv'
<1> SUFFICES ASSUME FilesInv, Addressable, [Next]_vars PROVE FilesInv'
  OBVIOUS
<1>1. CASE \E n \in Name, c \in Contents : AddFile(n, c)
  <2>1. PICK n \in Name, c \in Contents : AddFile(n, c)
    BY <1>1
  <2>2. ImageInv' /\ NodesInv'
    BY <2>1, ImageAdd DEF FilesInv
  <2>3. phase # "up" /\ UNCHANGED <<job, curr_dir, serial, nodes>>
    BY <2>1 DEF AddFile
  <2>4. Len(nodes') \in Nat
    BY <2>3 DEF FilesInv, NodesInv
  <2> QED BY <2>2, <2>3, <2>4, CallsBuild DEF FilesInv
<1>2. CASE Finish
  <2>1. ImageInv' /\ NodesInv'
    BY <1>2, ImageFinish DEF FilesInv
  <2>2. phase # "up" /\ UNCHANGED <<job, curr_dir, serial, nodes>>
    BY <1>2 DEF Finish
  <2>3. Len(nodes') \in Nat
    BY <2>2 DEF FilesInv, NodesInv
  <2> QED BY <2>1, <2>2, <2>3, CallsBuild DEF FilesInv
<1>3. CASE Initialize
  <2>1. ImageInv' /\ NodesInv' /\ phase' = "up"
    BY <1>3, ImageInitialize DEF FilesInv, Initialize
  <2>2. phase # "up" /\ UNCHANGED <<job, curr_dir, serial>>
    BY <1>3 DEF Initialize
  <2>3. Len(nodes') \in Nat
    <3>1. nodes' = [k \in 1 .. Len(list') |->
                      [name |-> list'[k].name, length |-> Len(list'[k].bytes), inode |-> k - 1]]
      BY <2>1, Zenon DEF NodesInv
    <3>2. Len(list') \in Nat
      BY <2>1 DEF ImageInv
    <3> QED BY <3>1, <3>2
  <2> QED BY <2>1, <2>2, <2>3, CallsBuild DEF FilesInv
<1>4. CASE Call
  <2>1. PICK t \in Task : \/ \E n \in Name : Traverse(t, n)
                          \/ \E o \in Offsets : Open(t, o)
                          \/ \E s \in Sizes : Read(t, s)
                          \/ Close(t)
                          \/ Walk(t)
    BY <1>4 DEF Call
  <2>2. UNCHANGED <<phase, list, header, headers, content, nodes>>
    BY <2>1, ZenonT(30) DEF Traverse, Open, Read, Close, Walk, ReadDir, FindDir, Branch
  <2>3. CallsInv'
    BY <2>1, TraverseStep, ReadDirStep, FindDirStep, BranchStep, OpenStep, ReadStep, CloseStep DEF Walk
  <2> QED BY <2>2, <2>3, ImageSame DEF FilesInv
<1>5. CASE UNCHANGED vars
  <2>1. UNCHANGED <<phase, list, header, headers, content, nodes, job, curr_dir, serial>>
    BY <1>5 DEF vars
  <2>2. ImageInv' /\ NodesInv'
    BY <2>1, ImageSame DEF FilesInv
  <2>3. ASSUME NEW t \in Task PROVE CallOf(job[t])' /\ (serial => AloneOf(job[t])')
    <3>1. CallOf(job[t]) /\ (serial => AloneOf(job[t]))
      BY DEF FilesInv, CallsInv
    <3>2. CallOf(job[t])'
      BY <2>1, <3>1 DEF CallOf, GoodRead
    <3>3. AloneOf(job[t]) => AloneOf(job[t])'
      <4>1. Passed(job[t]) => Passed(job[t])'
        BY <2>1 DEF Passed
      <4>2. Entry(job[t].i)' = Entry(job[t].i)
        BY <2>1, Zenon DEF Entry
      <4>3. Lookup(curr_dir)' = Lookup(curr_dir)
        BY <2>1, Zenon DEF Lookup
      <4>4. First(job[t].name)' = First(job[t].name)
        BY <2>1, Zenon DEF First
      <4> QED BY <2>1, <4>1, <4>2, <4>3, <4>4 DEF AloneOf
    <3> QED BY <3>1, <3>2, <3>3
  <2>4. CallsInv'
    BY <2>1, <2>3 DEF FilesInv, CallsInv
  <2> QED BY <2>2, <2>4 DEF FilesInv
<1> QED BY <1>1, <1>2, <1>3, <1>4, <1>5 DEF Next, Build

LEMMA FilesInitially == Init => FilesInv
BY ImageInit, CallsInit DEF FilesInv

LEMMA NodesOf ==
    ASSUME FilesInv
    PROVE  /\ Len(nodes) \in Nat /\ DOMAIN nodes = 1 .. Len(nodes)
           /\ nodes # <<>> => phase = "up" /\ Len(nodes) = Len(list)
<1>1. CASE phase = "up"
  BY <1>1, NodesUp DEF FilesInv
<1>2. CASE phase # "up"
  BY <1>2 DEF FilesInv, NodesInv
<1> QED BY <1>1, <1>2

(* The static entry holds a name of the image, indices stay on the list of *)
(* nodes and buffers hold bytes (fs.cc:12-25, initrd.cc:27-58).            *)
THEOREM AlwaysTypeOK == Spec /\ []Addressable => []TypeOK
<1>1. Init => FilesInv
  BY FilesInitially
<1>2. FilesInv /\ Addressable /\ [Next]_vars => FilesInv'
  BY FilesNext
<1>3. FilesInv => TypeOK
  <2> SUFFICES ASSUME FilesInv PROVE TypeOK
    OBVIOUS
  <2>1. ASSUME NEW t \in Task
        PROVE  /\ job[t].i \in 0 .. Len(nodes) + 1
               /\ job[t].node \in {Null, Dev} \cup DOMAIN nodes
               /\ job[t].buf \in Seq(Byte)
    BY NodesOf DEF FilesInv, CallsInv, CallOf
  <2>2. curr_dir \in Name \cup {""}
    BY DEF FilesInv, CallsInv
  <2> QED BY <2>1, <2>2, NodesOf DEF TypeOK
<1> QED BY <1>1, <1>2, <1>3, PTL DEF Spec

(* Traversals that exclude each other find the first file the builder was  *)
(* given under a name, past the directory, and nothing else                *)
(* (fs.cc:12-25).                                                          *)
THEOREM AlwaysFindsAlone == Spec /\ []Addressable => []FindsAlone
<1>1. Init => FilesInv
  BY FilesInitially
<1>2. FilesInv /\ Addressable /\ [Next]_vars => FilesInv'
  BY FilesNext
<1>3. FilesInv => FindsAlone
  BY DEF FilesInv, CallsInv, AloneOf, FindsAlone, Finds
<1> QED BY <1>1, <1>2, <1>3, PTL DEF Spec

(* What is read, from any offset and in any pieces, is the file the        *)
(* builder was given, and a short answer means its end, as long as no      *)
(* address or end of a request leaves 32 bits (initrd.cc:29-37, 92;        *)
(* initrd_build.cc:37-49).                                                 *)
THEOREM AlwaysReadsBack == Spec /\ []Addressable => []ReadsBack
<1>1. Init => FilesInv
  BY FilesInitially
<1>2. FilesInv /\ Addressable /\ [Next]_vars => FilesInv'
  BY FilesNext
<1>3. FilesInv => ReadsBack
  <2> SUFFICES ASSUME FilesInv, NEW t \in Task, job[t].pc = "open"
               PROVE  LET bytes == list[job[t].node].bytes
                          past  == job[t].from + Len(job[t].buf)
                      IN  /\ \A k \in DOMAIN job[t].buf :
                               /\ job[t].from + k <= Len(bytes)
                               /\ job[t].buf[k] = bytes[job[t].from + k]
                          /\ job[t].short => past >= Len(bytes)
    BY DEF ReadsBack
  <2>1. GoodRead(job[t]) /\ job[t].buf \in Seq(Byte)
    BY DEF FilesInv, CallsInv, CallOf
  <2>2. DOMAIN job[t].buf = 1 .. Len(job[t].buf)
    BY <2>1
  <2> QED BY <2>1, <2>2, Zenon DEF GoodRead
<1> QED BY <1>1, <1>2, <1>3, PTL DEF Spec

=============================================================================
