---------------------------- MODULE PagingProofs ----------------------------
(***************************************************************************)
(* Proofs about Paging, for every size of memory, of the heaps and of the  *)
(* page tables, and for every number of tasks.                             *)
(*                                                                         *)
(* The first part counts: the nth free frame exists and is another one     *)
(* for another n.  The second is about the helpers that allocate frames    *)
(* and heap pages, the third about the types of what the actions leave.    *)
(* The fourth follows the kernel's pages and the address spaces through    *)
(* the actions of the running kernel, the fifth memory::Initialize, and    *)
(* the last what the pages of tasks hold.                                  *)
(***************************************************************************)
EXTENDS Paging, FiniteSetTheorems, TLAPS

Below(S, f) == {g \in S : g < f}

-----------------------------------------------------------------------------
(* Counting.                                                               *)

(* The number of elements below an element tells it from the others.       *)
LEMMA RankOrder ==
    ASSUME NEW S \in SUBSET Nat, IsFiniteSet(S)
    PROVE  /\ \A f \in S : Cardinality(Below(S, f)) \in 0 .. Cardinality(S) - 1
           /\ \A f, g \in S : Cardinality(Below(S, f)) = Cardinality(Below(S, g)) => f = g
<1>1. ASSUME NEW T \in SUBSET S PROVE Cardinality(T) \in Nat /\ IsFiniteSet(T)
  <2>1. IsFiniteSet(T)
    BY FS_Subset
  <2> QED BY <2>1, FS_CardinalityType
<1>2. ASSUME NEW T \in SUBSET S, NEW U \in SUBSET T, T # U
      PROVE  Cardinality(U) < Cardinality(T)
  <2>1. Cardinality(U) <= Cardinality(T) /\ Cardinality(T) # Cardinality(U)
    BY <1>1, <1>2, FS_Subset
  <2>2. Cardinality(T) \in Nat /\ Cardinality(U) \in Nat
    BY <1>1, <1>2
  <2> QED BY <2>1, <2>2
<1>3. ASSUME NEW f \in S PROVE Cardinality(Below(S, f)) \in 0 .. Cardinality(S) - 1
  <2>1. Below(S, f) \in SUBSET S /\ Below(S, f) # S
    BY DEF Below
  <2>2. Cardinality(Below(S, f)) < Cardinality(S)
    BY <2>1, <1>2
  <2> QED BY <2>1, <2>2, <1>1
<1>4. ASSUME NEW f \in S, NEW g \in S, f < g
      PROVE  Cardinality(Below(S, f)) < Cardinality(Below(S, g))
  <2>1. Below(S, g) \in SUBSET S /\ Below(S, f) \in SUBSET Below(S, g)
    <3>1. \A h \in S : h < f => h < g
      BY <1>4
    <3> QED BY <3>1 DEF Below
  <2>2. f \in Below(S, g) /\ f \notin Below(S, f)
    BY <1>4 DEF Below
  <2> QED BY <2>1, <2>2, <1>2
<1>5. ASSUME NEW f \in S, NEW g \in S, Cardinality(Below(S, f)) = Cardinality(Below(S, g))
      PROVE  f = g
  <2>1. Cardinality(Below(S, f)) \in Nat /\ Cardinality(Below(S, g)) \in Nat
    BY <1>3
  <2>2. ~ (f < g) /\ ~ (g < f)
    BY <1>4, <1>5, <2>1
  <2>3. f \in Nat /\ g \in Nat
    OBVIOUS
  <2> QED BY <2>2, <2>3
<1> QED BY <1>3, <1>5

(* Every number of elements below occurs.                                  *)
LEMMA RankExists ==
    ASSUME NEW S \in SUBSET Nat, IsFiniteSet(S), NEW n \in 0 .. Cardinality(S) - 1
    PROVE  \E f \in S : Cardinality(Below(S, f)) = n
<1> DEFINE rank == [f \in S |-> Cardinality(Below(S, f))]
           T    == 0 .. Cardinality(S) - 1
<1>1. Cardinality(S) \in Nat
  BY FS_CardinalityType
<1>2. IsFiniteSet(T) /\ Cardinality(T) = Cardinality(S)
  BY <1>1, FS_Interval
<1>3. rank \in Injection(S, T)
  BY RankOrder DEF Injection, IsInjective
<1>4. rank \in Surjection(S, T)
  <2> HIDE DEF rank, T
  <2> QED BY <1>2, <1>3, FS_Injection
<1>5. \A m \in T : \E f \in S : rank[f] = m
  BY <1>4 DEF Surjection
<1> QED BY <1>5

LEMMA Extremes ==
    ASSUME NEW S \in SUBSET Nat, IsFiniteSet(S), S # {}
    PROVE  /\ Min(S) \in S /\ \A x \in S : Min(S) <= x
           /\ Max(S) \in S /\ \A x \in S : x <= Max(S)
<1>1. Cardinality(S) \in Nat /\ Cardinality(S) # 0
  BY FS_CardinalityType, FS_EmptySet
<1>2. \E f \in S : \A x \in S : f <= x
  <2>1. PICK f \in S : Cardinality(Below(S, f)) = 0
    BY <1>1, RankExists
  <2>2. Below(S, f) \in SUBSET S
    BY DEF Below
  <2>3. Below(S, f) = {}
    BY <2>1, <2>2, FS_Subset, FS_EmptySet
  <2> QED BY <2>3 DEF Below
<1>3. \E f \in S : \A x \in S : x <= f
  <2>1. PICK f \in S : Cardinality(Below(S, f)) = Cardinality(S) - 1
    BY <1>1, RankExists
  <2>2. IsFiniteSet(S \ {f}) /\ Cardinality(S \ {f}) = Cardinality(S) - 1
    BY FS_RemoveElement
  <2>3. Below(S, f) \in SUBSET (S \ {f})
    BY DEF Below
  <2>4. Below(S, f) = S \ {f}
    BY <2>1, <2>2, <2>3, FS_Subset
  <2>5. \A x \in S : x = f \/ x < f
    BY <2>4 DEF Below
  <2> QED BY <2>5
<1>4. Min(S) \in S /\ \A x \in S : Min(S) <= x
  BY <1>2 DEF Min
<1>5. Max(S) \in S /\ \A x \in S : x <= Max(S)
  BY <1>3 DEF Max
<1> QED BY <1>4, <1>5

(* bitset::next and its repetitions find bits that are not set, another    *)
(* one each time.                                                          *)
LEMMA FreshFrames ==
    ASSUME NEW bits, NEW need \in SUBSET Nat, IsFiniteSet(need),
           Cardinality(need) <= Cardinality(Unset(bits))
    PROVE  LET fresh(v) == Nth(bits, Cardinality({u \in need : u < v}))
           IN  /\ \A v \in need : fresh(v) \in Unset(bits)
               /\ \A u, v \in need : fresh(u) = fresh(v) => u = v
<1> DEFINE U     == Unset(bits)
           at(v) == Cardinality(Below(need, v))
<1>1. U \in SUBSET Nat /\ IsFiniteSet(U) /\ Cardinality(U) \in Nat
  <2>1. NumFrames \in Nat
    BY PagingConstants
  <2>2. IsFiniteSet(Frames)
    BY <2>1, FS_Interval DEF Frames
  <2>3. U \in SUBSET Frames
    BY DEF Unset
  <2>4. IsFiniteSet(U)
    BY <2>2, <2>3, FS_Subset
  <2>5. Frames \subseteq Nat
    BY <2>1 DEF Frames
  <2> QED BY <2>3, <2>4, <2>5, FS_CardinalityType
<1>2. Cardinality(need) \in Nat
  BY FS_CardinalityType
<1>3. ASSUME NEW n \in 0 .. Cardinality(U) - 1
      PROVE  Nth(bits, n) \in U /\ Cardinality(Below(U, Nth(bits, n))) = n
  <2>1. \E f \in U : Cardinality(Below(U, f)) = n
    BY <1>1, RankExists
  <2> QED BY <2>1 DEF Nth, Below
<1>4. \A v \in need : at(v) \in 0 .. Cardinality(need) - 1
  BY RankOrder
<1>5. \A v \in need : at(v) \in 0 .. Cardinality(U) - 1
  BY <1>1, <1>2, <1>4
<1>6. \A u, v \in need : at(u) = at(v) => u = v
  BY RankOrder
<1>7. \A v \in need : Nth(bits, at(v)) \in U
  BY <1>3, <1>5
<1>8. ASSUME NEW u \in need, NEW v \in need, Nth(bits, at(u)) = Nth(bits, at(v))
      PROVE  u = v
  <2>1. at(u) = at(v)
    BY <1>3, <1>5, <1>8
  <2> QED BY <2>1, <1>6
<1> QED BY <1>7, <1>8 DEF Below

-----------------------------------------------------------------------------
(* Tables and directories.                                                 *)

Slots == 0 .. DIRECTORY - 1
Cells == 0 .. TABLE - 1

Typed(tb, fr) ==
    /\ fr \subseteq Frames
    /\ \A id \in DOMAIN tb :
          /\ id \in Nat \ {0}
          /\ tb[id] \in [Cells -> [frame : Frames, present : BOOLEAN, rw : BOOLEAN]]

Exclusive(tb, fr) ==
    \A a \in DOMAIN tb, i \in Cells : tb[a][i].present =>
        /\ tb[a][i].frame \in fr
        /\ \A b \in DOMAIN tb, j \in Cells :
              tb[b][j].present /\ tb[b][j].frame = tb[a][i].frame => a = b /\ i = j

(* No table of the kernel's directory is in two places of it.              *)
DirsInv ==
    /\ Kernel \in DOMAIN dirs
    /\ \A d \in DOMAIN dirs :
          /\ dirs[d] = [tables |-> dirs[d].tables, physical |-> dirs[d].physical,
                        cr3 |-> dirs[d].cr3]
          /\ dirs[d].tables \in [Slots -> {0} \cup DOMAIN tables]
          /\ dirs[d].physical \in [Slots -> Nat]
    /\ \A i, k \in Slots : KTable(i) = KTable(k) /\ KTable(i) # 0 => i = k

LEMMA Sizes ==
    /\ PAGE \in Nat \ {0} /\ TABLE \in Nat \ {0} /\ DIRECTORY \in Nat \ {0}
    /\ NumFrames \in Nat \ {0} /\ FRAME_SIZE \in Nat \ {0}
    /\ {KHEAP_START, KHEAP_INITIAL, KHEAP_END, KIndex, HEAP_MIN,
        UHEAP_START, UHEAP_INITIAL, UHEAP_END, ImageEnd} \subseteq Nat
BY PagingConstants

LEMMA FramesType == Frames \subseteq Nat /\ 0 \in Frames /\ IsFiniteSet(Frames) /\ None \notin Frames
<1>1. NumFrames \in Nat \ {0}
  BY Sizes
<1>2. IsFiniteSet(0 .. NumFrames - 1)
  BY <1>1, FS_Interval
<1> QED BY <1>1, <1>2 DEF Frames, None

LEMMA ExclusiveFrames ==
    ASSUME Typed(tables, frames)
    PROVE  FramesExclusive <=> Exclusive(tables, frames)
<1> DEFINE pages == {p \in (DOMAIN tables) \X Cells : tables[p[1]][p[2]].present}
           frame(p) == tables[p[1]][p[2]].frame
<1>1. FramesExclusive <=> \A p \in pages : /\ frame(p) \in frames
                                           /\ \A q \in pages : frame(p) = frame(q) => p = q
  BY Zenon DEF FramesExclusive, Cells
<1>2. ASSUME Exclusive(tables, frames), NEW p \in pages
      PROVE  frame(p) \in frames /\ \A q \in pages : frame(p) = frame(q) => p = q
  <2>1. p[1] \in DOMAIN tables /\ p[2] \in Cells /\ tables[p[1]][p[2]].present /\ p = <<p[1], p[2]>>
    OBVIOUS
  <2>2. ASSUME NEW q \in pages, frame(p) = frame(q) PROVE p = q
    <3>1. q[1] \in DOMAIN tables /\ q[2] \in Cells /\ tables[q[1]][q[2]].present /\ q = <<q[1], q[2]>>
      OBVIOUS
    <3>2. p[1] = q[1] /\ p[2] = q[2]
      BY <1>2, <2>1, <2>2, <3>1 DEF Exclusive
    <3> QED BY <2>1, <3>1, <3>2
  <2> QED BY <1>2, <2>1, <2>2 DEF Exclusive
<1>3. ASSUME \A p \in pages : /\ frame(p) \in frames
                              /\ \A q \in pages : frame(p) = frame(q) => p = q,
             NEW a \in DOMAIN tables, NEW i \in Cells, tables[a][i].present
      PROVE  /\ tables[a][i].frame \in frames
             /\ \A b \in DOMAIN tables, j \in Cells :
                   tables[b][j].present /\ tables[b][j].frame = tables[a][i].frame
                   => a = b /\ i = j
  <2>1. \A b \in DOMAIN tables, j \in Cells : tables[b][j].present =>
           <<b, j>> \in pages /\ frame(<<b, j>>) = tables[b][j].frame
    OBVIOUS
  <2> HIDE DEF pages, frame
  <2>2. tables[a][i].frame \in frames
    <3>1. <<a, i>> \in pages /\ frame(<<a, i>>) = tables[a][i].frame
      BY <1>3, <2>1
    <3>2. frame(<<a, i>>) \in frames
      BY <1>3, <3>1
    <3> QED BY <3>1, <3>2
  <2>3. ASSUME NEW b \in DOMAIN tables, NEW j \in Cells, tables[b][j].present,
               tables[b][j].frame = tables[a][i].frame
        PROVE  a = b /\ i = j
    <3>1. /\ <<a, i>> \in pages /\ frame(<<a, i>>) = tables[a][i].frame
          /\ <<b, j>> \in pages /\ frame(<<b, j>>) = tables[b][j].frame
      BY <1>3, <2>1, <2>3
    <3>2. <<a, i>> = <<b, j>>
      BY <1>3, <2>3, <3>1
    <3> QED BY <3>2
  <2> QED BY <2>2, <2>3
<1> HIDE DEF pages, frame
<1> QED BY <1>1, <1>2, <1>3 DEF Exclusive

(* Pages and their places in the tables.                                   *)
LEMMA PlaceInjective ==
    ASSUME NEW i \in Nat, NEW k \in Nat, NEW j \in Cells, NEW l \in Cells,
           i * TABLE + j = k * TABLE + l
    PROVE  i = k /\ j = l
<1>1. TABLE \in Nat \ {0}
  BY Sizes
<1>2. ASSUME NEW m \in Nat, NEW n \in Nat, m < n PROVE m * TABLE + TABLE <= n * TABLE
  <2>1. PICK d \in Nat : n = m + 1 + d
    <3>1. n - m - 1 \in Nat
      BY <1>2
    <3> QED BY <3>1
  <2>2. n * TABLE = m * TABLE + TABLE + d * TABLE
    BY <1>1, <2>1
  <2>3. d * TABLE \in Nat /\ m * TABLE \in Nat
    BY <1>1
  <2> QED BY <1>1, <2>2, <2>3
<1>3. i * TABLE \in Nat /\ k * TABLE \in Nat
  BY <1>1
<1>4. ~ (i < k)
  BY <1>1, <1>2, <1>3 DEF Cells
<1>5. ~ (k < i)
  BY <1>1, <1>2, <1>3 DEF Cells
<1>6. i = k
  BY <1>4, <1>5
<1> QED BY <1>1, <1>3, <1>6 DEF Cells

LEMMA PlaceOf ==
    ASSUME NEW v \in Nat, v < DIRECTORY * TABLE
    PROVE  v \div TABLE \in Slots /\ v % TABLE \in Cells
<1>1. TABLE \in Nat \ {0} /\ DIRECTORY \in Nat \ {0}
  BY Sizes
<1>2. v \div TABLE \in Nat /\ v % TABLE \in Cells
  BY <1>1 DEF Cells
<1>3. \A n \in Nat \ {0}, d, u \in Nat : u < d * n => u \div n < d
  OBVIOUS
<1>4. v \div TABLE < DIRECTORY
  BY <1>1, <1>3
<1> QED BY <1>1, <1>2, <1>4 DEF Slots

(* AllocFrame on pages of the kernel's tables: each entry is the one it    *)
(* was or has a frame of its own that was free.                            *)
FilledBy(new, need, fresh, rw) ==
    /\ \A u, v \in need : fresh[u] = fresh[v] => u = v
    /\ \A v \in need : fresh[v] = Nth(frames, Cardinality({u \in need : u < v}))
    /\ new.frames = frames \cup {fresh[v] : v \in need}
    /\ DOMAIN new.tables = DOMAIN tables
    /\ \A i \in Slots, j \in Cells : KTable(i) # 0 /\ i * TABLE + j \in need
          => new.tables[KTable(i)][j] = Entry(fresh[i * TABLE + j], TRUE, rw)
    /\ \A id \in DOMAIN tables :
          /\ new.tables[id] = [j \in Cells |-> new.tables[id][j]]
          /\ \A j \in Cells :
               \/ new.tables[id][j] = tables[id][j]
               \/ \E i \in Slots :
                    /\ KTable(i) = id /\ i * TABLE + j \in need
                    /\ new.tables[id][j] = Entry(fresh[i * TABLE + j], TRUE, rw)

LEMMA FilledEntries ==
    ASSUME Typed(tables, frames), DirsInv, NEW pages \in SUBSET Nat, IsFiniteSet(pages), NEW rw,
           Filled(pages, rw).ok
    PROVE  LET need == {v \in pages : FrameOf(v) = 0}
           IN  \E fresh \in [need -> Unset(frames)] :
                  FilledBy(Filled(pages, rw), need, fresh, rw)
<1> DEFINE new == Filled(pages, rw)
           need == {v \in pages : FrameOf(v) = 0}
           fr(v) == Nth(frames, Cardinality({u \in need : u < v}))
           fresh == [v \in need |-> fr(v)]
           page(i, j) == i * TABLE + j
           index(id) == {i \in 0 .. DIRECTORY - 1 : KTable(i) = id}
           filled == [id \in DOMAIN tables |->
                 [j \in 0 .. TABLE - 1 |->
                    IF \E i \in index(id) : page(i, j) \in need
                    THEN Entry(fr(page(CHOOSE i \in index(id) : TRUE, j)), TRUE, rw)
                    ELSE tables[id][j]]]
<1>1. /\ Cardinality(need) <= Cardinality(Unset(frames))
      /\ new.frames = frames \cup {fr(v) : v \in need}
      /\ new.tables = filled
  <2>1. ~ (Cardinality(need) > Cardinality(Unset(frames)))
    BY DEF Filled
  <2>2. new = [ok |-> TRUE, frames |-> frames \cup {fr(v) : v \in need}, tables |-> filled]
    BY <2>1, Zenon DEF Filled
  <2>3. Cardinality(need) \in Nat /\ Cardinality(Unset(frames)) \in Nat
    <3>1. IsFiniteSet(need)
      BY FS_Subset
    <3>2. IsFiniteSet(Unset(frames))
      BY FramesType, FS_Subset DEF Unset
    <3> QED BY <3>1, <3>2, FS_CardinalityType
  <2> QED BY <2>1, <2>2, <2>3
<1>2. need \in SUBSET Nat /\ IsFiniteSet(need)
  BY FS_Subset
<1>3. /\ \A v \in need : fr(v) \in Unset(frames)
      /\ \A u, v \in need : fr(u) = fr(v) => u = v
  <2> HIDE DEF need
  <2> QED BY <1>1, <1>2, FreshFrames
<1>4. fresh \in [need -> Unset(frames)] /\ \A u, v \in need : fresh[u] = fresh[v] => u = v
  BY <1>3
<1>5. new.frames = frames \cup {fresh[v] : v \in need}
  BY <1>1
<1>6. /\ DOMAIN new.tables = DOMAIN tables
      /\ \A id \in DOMAIN tables : new.tables[id] = [j \in Cells |-> new.tables[id][j]]
  BY <1>1 DEF Cells
<1>7. ASSUME NEW i \in Slots, NEW j \in Cells, KTable(i) # 0, page(i, j) \in need
      PROVE  new.tables[KTable(i)][j] = Entry(fresh[page(i, j)], TRUE, rw)
  <2> DEFINE id == KTable(i)
  <2>1. id \in DOMAIN tables
    BY <1>7 DEF DirsInv, KTable
  <2>2. \A k \in index(id) : k = i
    BY <1>7 DEF DirsInv, Slots
  <2>3. i \in index(id)
    BY DEF Slots
  <2>4. (CHOOSE k \in index(id) : TRUE) = i
    <3> HIDE DEF index
    <3> QED BY <2>2, <2>3
  <2>5. new.tables[id][j] = IF \E k \in index(id) : page(k, j) \in need
                            THEN Entry(fr(page(CHOOSE k \in index(id) : TRUE, j)), TRUE, rw)
                            ELSE tables[id][j]
    <3> HIDE DEF fr, index, page, need, new, id
    <3> QED BY <1>1, <2>1 DEF Cells
  <2>6. new.tables[id][j] = Entry(fr(page(i, j)), TRUE, rw)
    <3> HIDE DEF fr, index, page, need, new, id
    <3> QED BY <2>5, <2>3, <2>4, <1>7
  <2>7. fresh[page(i, j)] = fr(page(i, j))
    <3> HIDE DEF fr, page, need
    <3> QED BY <1>7
  <2> HIDE DEF fr, index, page, need, new, fresh
  <2> QED BY <2>6, <2>7
<1>8. ASSUME NEW id \in DOMAIN tables, NEW j \in Cells
      PROVE  \/ new.tables[id][j] = tables[id][j]
             \/ \E i \in Slots : /\ KTable(i) = id /\ page(i, j) \in need
                                 /\ new.tables[id][j] = Entry(fresh[page(i, j)], TRUE, rw)
  <2>1. CASE ~ \E i \in index(id) : page(i, j) \in need
    BY <1>1, <2>1 DEF Cells
  <2>2. CASE \E i \in index(id) : page(i, j) \in need
    <3>1. PICK i \in index(id) : page(i, j) \in need
      BY <2>2
    <3>2. id # 0
      BY DEF Typed
    <3>3. i \in Slots /\ KTable(i) = id
      BY DEF Slots
    <3> HIDE DEF fr, index, page, need, new, fresh
    <3> QED BY <1>7, <3>1, <3>2, <3>3
  <2> QED BY <2>1, <2>2
<1>9. \A v \in need : fresh[v] = Nth(frames, Cardinality({u \in need : u < v}))
  <2>1. \A v \in need : fresh[v] = fr(v)
    <3> HIDE DEF fr, need
    <3> QED OBVIOUS
  <2> HIDE DEF fresh, need
  <2> QED BY <2>1
<1> HIDE DEF fresh, new, need
<1>10. FilledBy(new, need, fresh, rw)
  BY <1>4, <1>5, <1>6, <1>7, <1>8, <1>9 DEF FilledBy
<1> QED BY <1>4, <1>10 DEF new, need

(* Present pages stay exclusive if each keeps its frame or gets one that   *)
(* was free and that no other page gets.                                   *)
LEMMA ExclusiveGrows ==
    ASSUME NEW tb, NEW fr, NEW tb2, NEW fr2, Exclusive(tb, fr), fr \subseteq fr2,
           \A a \in DOMAIN tb2, i \in Cells : tb2[a][i].present =>
              \/ /\ a \in DOMAIN tb /\ tb[a][i].present
                 /\ tb2[a][i].frame = tb[a][i].frame
              \/ tb2[a][i].frame \in fr2 \ fr,
           \A a, b \in DOMAIN tb2, i, j \in Cells :
              /\ tb2[a][i].present /\ tb2[b][j].present
              /\ tb2[a][i].frame = tb2[b][j].frame /\ tb2[a][i].frame \notin fr
              => a = b /\ i = j
    PROVE  Exclusive(tb2, fr2)
<1> SUFFICES ASSUME NEW a \in DOMAIN tb2, NEW i \in Cells, tb2[a][i].present
             PROVE  /\ tb2[a][i].frame \in fr2
                    /\ \A b \in DOMAIN tb2, j \in Cells :
                          tb2[b][j].present /\ tb2[b][j].frame = tb2[a][i].frame
                          => a = b /\ i = j
  BY DEF Exclusive
<1>1. tb2[a][i].frame \in fr2
  BY DEF Exclusive
<1>2. ASSUME NEW b \in DOMAIN tb2, NEW j \in Cells, tb2[b][j].present,
             tb2[b][j].frame = tb2[a][i].frame
      PROVE  a = b /\ i = j
  <2>1. CASE tb2[a][i].frame \notin fr
    BY <1>2, <2>1
  <2>2. CASE tb2[a][i].frame \in fr
    <3>1. a \in DOMAIN tb /\ tb[a][i].present /\ tb2[a][i].frame = tb[a][i].frame
      BY <2>2
    <3>2. b \in DOMAIN tb /\ tb[b][j].present /\ tb2[b][j].frame = tb[b][j].frame
      BY <1>2, <2>2
    <3> QED BY <1>2, <3>1, <3>2 DEF Exclusive
  <2> QED BY <2>1, <2>2
<1> QED BY <1>1, <1>2

LEMMA FilledSound ==
    ASSUME Typed(tables, frames), DirsInv, NEW pages \in SUBSET Nat, IsFiniteSet(pages),
           NEW rw \in BOOLEAN, Filled(pages, rw).ok
    PROVE  LET new == Filled(pages, rw)
           IN  /\ DOMAIN new.tables = DOMAIN tables
               /\ frames \subseteq new.frames
               /\ Typed(new.tables, new.frames)
               /\ Exclusive(tables, frames) => Exclusive(new.tables, new.frames)
<1> DEFINE new  == Filled(pages, rw)
           need == {v \in pages : FrameOf(v) = 0}
           Gets(fresh, id, j, i) ==
              /\ KTable(i) = id /\ i * TABLE + j \in need
              /\ new.tables[id][j] = Entry(fresh[i * TABLE + j], TRUE, rw)
<1>1. PICK fresh \in [need -> Unset(frames)] :
         /\ \A u, v \in need : fresh[u] = fresh[v] => u = v
         /\ new.frames = frames \cup {fresh[v] : v \in need}
         /\ DOMAIN new.tables = DOMAIN tables
         /\ \A id \in DOMAIN tables :
              /\ new.tables[id] = [j \in Cells |-> new.tables[id][j]]
              /\ \A j \in Cells :
                   \/ new.tables[id][j] = tables[id][j]
                   \/ \E i \in Slots : Gets(fresh, id, j, i)
  <2>1. PICK fresh \in [need -> Unset(frames)] : FilledBy(new, need, fresh, rw)
    BY FilledEntries, Zenon
  <2> HIDE DEF need, new
  <2>2. \A id, j, i : Gets(fresh, id, j, i) <=>
           /\ KTable(i) = id /\ i * TABLE + j \in need
           /\ new.tables[id][j] = Entry(fresh[i * TABLE + j], TRUE, rw)
    OBVIOUS
  <2> HIDE DEF Gets
  <2>3. /\ \A u, v \in need : fresh[u] = fresh[v] => u = v
        /\ new.frames = frames \cup {fresh[v] : v \in need}
        /\ DOMAIN new.tables = DOMAIN tables
        /\ \A id \in DOMAIN tables :
              /\ new.tables[id] = [j \in Cells |-> new.tables[id][j]]
              /\ \A j \in Cells :
                   \/ new.tables[id][j] = tables[id][j]
                   \/ \E i \in Slots : Gets(fresh, id, j, i)
    BY <2>1, <2>2, ZenonT(40) DEF FilledBy
  <2> QED BY <2>3
<1> HIDE DEF new, need
<1>2. \A v \in need : fresh[v] \in Frames \ frames /\ fresh[v] \in new.frames
  BY <1>1 DEF Unset
<1>3. Typed(new.tables, new.frames)
  <2>1. new.frames \subseteq Frames
    BY <1>1, <1>2 DEF Typed
  <2>2. ASSUME NEW id \in DOMAIN tables, NEW j \in Cells
        PROVE  new.tables[id][j] \in [frame : Frames, present : BOOLEAN, rw : BOOLEAN]
    <3>1. CASE new.tables[id][j] = tables[id][j]
      BY <3>1 DEF Typed
    <3>2. CASE \E i \in Slots : Gets(fresh, id, j, i)
      BY <1>2, <3>2 DEF Entry
    <3> QED BY <1>1, <3>1, <3>2
  <2>3. ASSUME NEW id \in DOMAIN tables
        PROVE  new.tables[id] \in [Cells -> [frame : Frames, present : BOOLEAN, rw : BOOLEAN]]
    <3>1. new.tables[id] = [j \in Cells |-> new.tables[id][j]]
      BY <1>1
    <3> QED BY <2>2, <3>1
  <2> QED BY <1>1, <2>1, <2>3 DEF Typed
<1>4. ASSUME Exclusive(tables, frames) PROVE Exclusive(new.tables, new.frames)
  <2>1. ASSUME NEW a \in DOMAIN new.tables, NEW i \in Cells, new.tables[a][i].present
        PROVE  \/ /\ a \in DOMAIN tables /\ tables[a][i].present
                  /\ new.tables[a][i].frame = tables[a][i].frame
               \/ \E k \in Slots : Gets(fresh, a, i, k)
    BY <1>1, <2>1
  <2>2. \A a, i, k : Gets(fresh, a, i, k) => new.tables[a][i].frame = fresh[k * TABLE + i]
                                             /\ k * TABLE + i \in need
    BY DEF Entry
  <2>3. \A a \in DOMAIN new.tables, i \in Cells : new.tables[a][i].present =>
              \/ /\ a \in DOMAIN tables /\ tables[a][i].present
                 /\ new.tables[a][i].frame = tables[a][i].frame
              \/ new.tables[a][i].frame \in new.frames \ frames
    <3> SUFFICES ASSUME NEW a \in DOMAIN new.tables, NEW i \in Cells, new.tables[a][i].present,
                        NEW k \in Slots, Gets(fresh, a, i, k)
                 PROVE  new.tables[a][i].frame \in new.frames \ frames
      <4> HIDE DEF Gets
      <4> QED BY <2>1, Zenon
    <3>1. new.tables[a][i].frame = fresh[k * TABLE + i] /\ k * TABLE + i \in need
      BY <2>2
    <3> QED BY <1>2, <3>1
  <2>4. ASSUME NEW a \in DOMAIN new.tables, NEW b \in DOMAIN new.tables,
               NEW i \in Cells, NEW j \in Cells,
               new.tables[a][i].present, new.tables[b][j].present,
               new.tables[a][i].frame = new.tables[b][j].frame,
               new.tables[a][i].frame \notin frames
        PROVE  a = b /\ i = j
    <3>1. PICK k \in Slots : Gets(fresh, a, i, k)
      BY <1>4, <2>1, <2>4 DEF Exclusive
    <3>2. PICK l \in Slots : Gets(fresh, b, j, l)
      <4> HIDE DEF Gets
      <4>1. new.tables[b][j].frame \notin frames
        BY <2>4
      <4> QED BY <1>4, <2>1, <2>4, <4>1 DEF Exclusive
    <3>3. k * TABLE + i = l * TABLE + j
      <4>1. /\ k * TABLE + i \in need /\ new.tables[a][i].frame = fresh[k * TABLE + i]
            /\ l * TABLE + j \in need /\ new.tables[b][j].frame = fresh[l * TABLE + j]
        <5> HIDE DEF Gets
        <5> QED BY <2>2, <3>1, <3>2
      <4> HIDE DEF Gets
      <4> QED BY <1>1, <2>4, <4>1, ZenonT(40)
    <3>4. k \in Nat /\ l \in Nat
      BY Sizes DEF Slots
    <3>5. k = l /\ i = j
      BY <3>3, <3>4, PlaceInjective
    <3> QED BY <3>1, <3>2, <3>5
  <2>5. frames \subseteq new.frames
    BY <1>1
  <2> HIDE DEF Gets
  <2> QED BY <1>4, <2>3, <2>4, <2>5, ExclusiveGrows
<1> QED BY <1>1, <1>3, <1>4 DEF new

-----------------------------------------------------------------------------
(* The kernel heap.                                                        *)

(* A range of pages is a set as AllocFrame's lemmas want it.               *)
LEMMA RangeFinite ==
    ASSUME NEW a \in Nat, NEW b \in Int
    PROVE  a .. b \in SUBSET Nat /\ IsFiniteSet(a .. b)
BY FS_Interval

KHeapOK == kheap_end \in Nat /\ kheap_used \subseteq 0 .. kheap_end - 1

LEMMA InUseType ==
    ASSUME NEW e \in Nat, NEW used \in SUBSET (0 .. e - 1)
    PROVE  InUse(used) \in 0 .. e /\ \A p \in used : p < InUse(used)
<1> DEFINE S == {0} \cup {p + 1 : p \in used}
<1>1. S \subseteq 0 .. e /\ S # {}
  OBVIOUS
<1>2. S \in SUBSET Nat /\ IsFiniteSet(S)
  <2>1. 0 .. e \in SUBSET Nat /\ IsFiniteSet(0 .. e)
    BY RangeFinite
  <2> HIDE DEF S
  <2>2. S \in SUBSET (0 .. e)
    BY <1>1
  <2>3. IsFiniteSet(S)
    BY <2>1, <2>2, FS_Subset
  <2> QED BY <2>1, <2>2, <2>3
<1>3. Max(S) \in S /\ \A x \in S : x <= Max(S)
  <2> HIDE DEF S
  <2> QED BY <1>1, <1>2, Extremes
<1>4. InUse(used) = Max(S)
  BY DEF InUse
<1>5. \A p \in used : p + 1 \in S /\ p \in Nat
  OBVIOUS
<1> HIDE DEF S
<1>6. ASSUME NEW p \in used PROVE p < InUse(used)
  <2>1. p + 1 <= InUse(used) /\ p \in Nat /\ InUse(used) \in Nat
    BY <1>2, <1>3, <1>4, <1>5
  <2> QED BY <2>1
<1> QED BY <1>1, <1>3, <1>4, <1>6

LEMMA PlacementType ==
    ASSUME KHeapOK, NEW n \in Nat \ {0}, NEW k \in Placements(n)
    PROVE  /\ k.at \in Nat /\ k.end \in Nat /\ kheap_end <= k.end
           /\ k.at + n <= k.end
           /\ \A p \in k.at .. k.at + n - 1 : p \notin kheap_used
<1>1. CASE Runs(n) # {}
  <2>1. PICK p \in Runs(n) : k = [at |-> p, end |-> kheap_end]
    BY <1>1 DEF Placements
  <2>2. p \in 0 .. kheap_end - n /\ \A q \in p .. p + n - 1 : q \notin kheap_used
    BY DEF Runs
  <2> QED BY <2>1, <2>2 DEF KHeapOK
<1>2. CASE Runs(n) = {}
  <2>1. k = [at |-> InUse(kheap_used), end |-> kheap_end + n + 1]
    BY <1>2 DEF Placements
  <2>2. InUse(kheap_used) \in 0 .. kheap_end /\ \A p \in kheap_used : p < InUse(kheap_used)
    BY InUseType DEF KHeapOK
  <2>3. kheap_used \subseteq Nat
    BY DEF KHeapOK
  <2> QED BY <2>1, <2>2, <2>3 DEF KHeapOK
<1> QED BY <1>1, <1>2

LEMMA AllocatedSound ==
    ASSUME Typed(tables, frames), DirsInv, KHeapOK, NEW n \in Nat \ {0},
           NEW k \in Allocated(n), k.ok
    PROVE  /\ k.page \in KHEAP_START .. KHEAP_END - 1
           /\ k.end \in Nat /\ k.used \subseteq 0 .. k.end - 1
           /\ DOMAIN k.tables = DOMAIN tables /\ frames \subseteq k.frames
           /\ Typed(k.tables, k.frames)
           /\ Exclusive(tables, frames) => Exclusive(k.tables, k.frames)
<1> DEFINE pages(p) == {KHEAP_START + q : q \in kheap_end .. p.end - 1}
           new(p)   == Filled(pages(p), FALSE)
<1>1. PICK p \in Placements(n) :
         k = IF ~new(p).ok \/ KHEAP_START + p.end > KHEAP_END
             THEN [ok |-> FALSE]
             ELSE [ok |-> TRUE, page |-> KHEAP_START + p.at, end |-> p.end,
                   used |-> kheap_used \cup p.at .. p.at + n - 1,
                   tables |-> new(p).tables, frames |-> new(p).frames]
  BY Zenon DEF Allocated
<1> HIDE DEF new
<1>2. new(p).ok /\ ~(KHEAP_START + p.end > KHEAP_END)
  BY <1>1
<1>3. k = [ok |-> TRUE, page |-> KHEAP_START + p.at, end |-> p.end,
           used |-> kheap_used \cup p.at .. p.at + n - 1,
           tables |-> new(p).tables, frames |-> new(p).frames]
  BY <1>1, <1>2
<1>4. /\ p.at \in Nat /\ p.end \in Nat /\ kheap_end <= p.end /\ p.at + n <= p.end
      /\ KHEAP_START \in Nat /\ KHEAP_END \in Nat /\ kheap_end \in Nat
  BY PlacementType, Sizes DEF KHeapOK
<1>5. pages(p) \in SUBSET Nat /\ IsFiniteSet(pages(p))
  <2>1. pages(p) \in SUBSET (0 .. KHEAP_START + p.end)
    BY <1>4
  <2>2. IsFiniteSet(0 .. KHEAP_START + p.end)
    <3>1. KHEAP_START + p.end \in Int /\ 0 \in Int
      BY <1>4
    <3> QED BY <3>1, FS_Interval
  <2>3. IsFiniteSet(pages(p))
    <3> HIDE DEF pages
    <3> QED BY <2>1, <2>2, FS_Subset
  <2> QED BY <2>1, <2>3, <1>4
<1>6. /\ DOMAIN new(p).tables = DOMAIN tables /\ frames \subseteq new(p).frames
      /\ Typed(new(p).tables, new(p).frames)
      /\ Exclusive(tables, frames) => Exclusive(new(p).tables, new(p).frames)
  <2> HIDE DEF pages
  <2>1. Filled(pages(p), FALSE).ok
    BY <1>2 DEF new
  <2> QED BY <1>5, <2>1, FilledSound DEF new
<1> HIDE DEF pages
<1>7. kheap_used \cup p.at .. p.at + n - 1 \subseteq 0 .. p.end - 1
  <2>1. \A e, f \in Nat : e <= f => 0 .. e - 1 \subseteq 0 .. f - 1
    OBVIOUS
  <2>2. kheap_used \subseteq 0 .. p.end - 1
    BY <1>4, <2>1 DEF KHeapOK
  <2>3. \A a, f \in Nat : a + n <= f => a .. a + n - 1 \subseteq 0 .. f - 1
    OBVIOUS
  <2>4. p.at .. p.at + n - 1 \subseteq 0 .. p.end - 1
    BY <1>4, <2>3
  <2> QED BY <2>2, <2>4
<1>8. KHEAP_START + p.at \in KHEAP_START .. KHEAP_END - 1
  BY <1>2, <1>4
<1> QED BY <1>3, <1>4, <1>6, <1>7, <1>8

-----------------------------------------------------------------------------
(* The inductive invariant.                                                *)

(* Boot memory is given out upwards; once the heaps are mapped, all their  *)
(* pages have tables.                                                      *)
BootInv ==
    /\ phase \in {"heaps", "identity", "backed", "create", "clone", "run"}
    /\ base_address \in Nat /\ next_page \in Nat
    /\ phase \in {"heaps", "identity"} => \A id \in DOMAIN tables : id < AlignedPage(base_address)
    /\ phase # "heaps" => \A v \in HeapPages : IsKernelPage(v)

InRange(t) ==
    /\ phase = "run"
    /\ job[t] = [op |-> "range", i |-> job[t].i, end |-> job[t].end, index |-> job[t].index]
    /\ job[t].i \in UserPages /\ job[t].end \in UserPages /\ job[t].i <= job[t].end
    /\ job[t].index \in {None} \cup Frames

(* The first clone is the first task's, of the kernel's directory, which   *)
(* no task has afterwards.  A clone has no company but ranges.             *)
InClone(t) ==
    /\ phase \in {"clone", "run"}
    /\ job[t] = [op |-> "clone", dir |-> job[t].dir, to |-> job[t].to, i |-> job[t].i]
    /\ job[t].dir \in DOMAIN dirs \ {0, Kernel} /\ job[t].to \in Task /\ job[t].i \in Nat
    /\ IF phase = "clone" THEN t = First /\ job[t].to = First ELSE directory[job[t].to] = 0
    /\ \A u \in Task \ {t} : job[u].op # "clone"

JobsInv ==
    /\ directory \in [Task -> {0} \cup DOMAIN dirs]
    /\ \A t \in Task : IF phase = "run" THEN directory[t] # Kernel
                       ELSE directory[t] = IF t = First THEN Kernel ELSE 0
    /\ DOMAIN job = Task
    /\ \A t \in Task : job[t] = Idle \/ InRange(t) \/ InClone(t)

ViewInv ==
    /\ content \in [Frames -> Value]
    /\ \A p \in DOMAIN view : view[p] \in Value /\ p \in Task \X UserPages /\ directory[p[1]] # 0
    /\ phase # "run" => DOMAIN view = {}

PagingInv == Typed(tables, frames) /\ DirsInv /\ KHeapOK /\ BootInv /\ JobsInv /\ ViewInv

(* With one task at a time in AllocateRange, the frame that AllocFrame has *)
(* found stays free until it is marked.                                    *)
OwnerInv ==
    /\ Exclusive(tables, frames)
    /\ \A t \in Task : job[t].op = "range" => job[t].index \notin frames
    /\ \A t, u \in Task : job[t].op # "idle" /\ job[u].op # "idle" => t = u

-----------------------------------------------------------------------------
(* Directories.                                                            *)

LEMMA KernelType == Kernel \in Nat \ {0} /\ Kernel < KHEAP_START /\ KHEAP_START \in Nat
<1>1. PAGE \in Nat \ {0} /\ ImageEnd \in Nat /\ KHEAP_START \in Nat
  BY Sizes
<1>2. (ImageEnd + 1) \div PAGE + 1 < KHEAP_START
  BY PagingConstants
<1>3. (ImageEnd + 1) \div PAGE \in Nat
  BY <1>1
<1> QED BY <1>1, <1>2, <1>3 DEF Kernel, AlignedPage

LEMMA NewTableType ==
    /\ NewTable \in [Cells -> [frame : Frames, present : BOOLEAN, rw : BOOLEAN]]
    /\ \A j \in Cells : ~NewTable[j].present /\ NewTable[j].frame = 0
BY FramesType DEF NewTable, Cells, Entry

(* An empty table where there was one or none.                             *)
LEMMA TableAdded ==
    ASSUME NEW tb, NEW fr, Typed(tb, fr), NEW id \in Nat \ {0}
    PROVE  /\ Typed(Extended(tb, id, NewTable), fr)
           /\ Exclusive(tb, fr) => Exclusive(Extended(tb, id, NewTable), fr)
<1> DEFINE new == Extended(tb, id, NewTable)
<1>1. /\ DOMAIN new = DOMAIN tb \cup {id} /\ new[id] = NewTable
      /\ \A y \in DOMAIN tb : y # id => new[y] = tb[y]
  BY DEF Extended
<1> HIDE DEF new
<1>2. Typed(new, fr)
  BY <1>1, NewTableType DEF Typed
<1>3. ASSUME NEW y \in DOMAIN new, NEW j \in Cells, new[y][j].present
      PROVE  y \in DOMAIN tb /\ y # id /\ new[y] = tb[y]
  BY <1>1, <1>3, NewTableType
<1>4. Exclusive(tb, fr) => Exclusive(new, fr)
  BY <1>3 DEF Exclusive
<1> QED BY <1>2, <1>4 DEF new

(* A directory gets a table, and with it the physical address.             *)
TableSet(ds, d, i, a, b) == [ds EXCEPT ![d].tables[i] = a, ![d].physical[i] = b]

HasSet(ds, d, i, a, b, new) ==
    /\ DOMAIN new = DOMAIN ds
    /\ \A e \in DOMAIN ds : e # d => new[e] = ds[e]
    /\ new[d].tables = [ds[d].tables EXCEPT ![i] = a]
    /\ new[d].physical = [ds[d].physical EXCEPT ![i] = b]
    /\ new[d] = [tables |-> new[d].tables, physical |-> new[d].physical, cr3 |-> new[d].cr3]

DirectoryOf(r, T) ==
    /\ r = [tables |-> r.tables, physical |-> r.physical, cr3 |-> r.cr3]
    /\ r.tables \in [Slots -> T] /\ r.physical \in [Slots -> Nat]

LEMMA DirsUpdate ==
    ASSUME NEW ds, NEW d \in DOMAIN ds, NEW i, NEW a, NEW b, NEW T, DirectoryOf(ds[d], T),
           NEW new, new = TableSet(ds, d, i, a, b)
    PROVE  HasSet(ds, d, i, a, b, new)
<1> DEFINE m  == [ds EXCEPT ![d].tables[i] = a]
           ta == [ds[d].tables EXCEPT ![i] = a]
           ph == [ds[d].physical EXCEPT ![i] = b]
<1>1. new = [m EXCEPT ![d].physical[i] = b]
  BY DEF TableSet
<1>2. /\ DOMAIN m = DOMAIN ds /\ \A e \in DOMAIN ds : e # d => m[e] = ds[e]
      /\ m[d] = [ds[d] EXCEPT !.tables[i] = a]
  OBVIOUS
<1>3. m[d] = [tables |-> ta, physical |-> ds[d].physical, cr3 |-> ds[d].cr3]
  BY <1>2 DEF DirectoryOf
<1> HIDE DEF m
<1>4. /\ DOMAIN new = DOMAIN ds /\ \A e \in DOMAIN ds : e # d => new[e] = m[e]
      /\ new[d] = [m[d] EXCEPT !.physical[i] = b]
  BY <1>1, <1>2
<1>5. new[d] = [tables |-> ta, physical |-> ph, cr3 |-> ds[d].cr3]
  BY <1>3, <1>4
<1>6. new[d].tables = ta /\ new[d].physical = ph /\ new[d].cr3 = ds[d].cr3
  <2> HIDE DEF ta, ph
  <2> QED BY <1>5
<1> HIDE DEF ta, ph
<1>7. new[d] = [tables |-> new[d].tables, physical |-> new[d].physical, cr3 |-> new[d].cr3]
  BY <1>5, <1>6, Zenon
<1>8. \A e \in DOMAIN ds : e # d => new[e] = ds[e]
  BY <1>2, <1>4
<1> QED BY <1>4, <1>6, <1>7, <1>8 DEF HasSet, ta, ph

LEMMA DirsTyped ==
    ASSUME NEW ds, NEW d \in DOMAIN ds, NEW i, NEW T, NEW a \in T, NEW b \in Nat, NEW new,
           HasSet(ds, d, i, a, b, new), \A e \in DOMAIN ds : DirectoryOf(ds[e], T)
    PROVE  \A e \in DOMAIN ds : DirectoryOf(new[e], T)
<1> SUFFICES ASSUME NEW e \in DOMAIN ds PROVE DirectoryOf(new[e], T)
  OBVIOUS
<1>1. CASE e # d
  <2>1. new[e] = ds[e]
    BY <1>1 DEF HasSet
  <2> QED BY <2>1
<1>2. CASE e = d
  <2>1. ds[d].tables \in [Slots -> T] /\ ds[d].physical \in [Slots -> Nat]
    BY DEF DirectoryOf
  <2>2. [ds[d].tables EXCEPT ![i] = a] \in [Slots -> T]
    BY <2>1
  <2>3. [ds[d].physical EXCEPT ![i] = b] \in [Slots -> Nat]
    BY <2>1
  <2>4. DirectoryOf(new[d], T)
    BY <2>2, <2>3, Zenon DEF HasSet, DirectoryOf
  <2> QED BY <1>2, <2>4
<1> QED BY <1>1, <1>2

(* Directories do not mind more tables.                                    *)
LEMMA DirsWiden ==
    ASSUME DirsInv, NEW T, {0} \cup DOMAIN tables \subseteq T
    PROVE  \A e \in DOMAIN dirs : DirectoryOf(dirs[e], T)
<1> SUFFICES ASSUME NEW e \in DOMAIN dirs PROVE DirectoryOf(dirs[e], T)
  OBVIOUS
<1>1. /\ dirs[e] = [tables |-> dirs[e].tables, physical |-> dirs[e].physical,
                    cr3 |-> dirs[e].cr3]
      /\ dirs[e].tables \in [Slots -> {0} \cup DOMAIN tables]
      /\ dirs[e].physical \in [Slots -> Nat]
  BY DEF DirsInv
<1>2. dirs[e].tables \in [Slots -> T]
  BY <1>1
<1> QED BY <1>1, <1>2, Zenon DEF DirectoryOf

LEMMA DirsOfNext ==
    ASSUME Kernel \in DOMAIN dirs',
           \A e \in DOMAIN dirs' : DirectoryOf(dirs'[e], {0} \cup DOMAIN tables'),
           \A i, k \in Slots : KTable(i)' = KTable(k)' /\ KTable(i)' # 0 => i = k
    PROVE  DirsInv'
BY Zenon DEF DirsInv, DirectoryOf

(* A table comes into a directory that is not the kernel's.                *)
LEMMA DirsPrivate ==
    ASSUME DirsInv, NEW d \in DOMAIN dirs \ {Kernel}, NEW i, NEW a, NEW b \in Nat,
           dirs' = TableSet(dirs, d, i, a, b),
           DOMAIN tables \subseteq DOMAIN tables', a \in {0} \cup DOMAIN tables'
    PROVE  DirsInv' /\ DOMAIN dirs' = DOMAIN dirs /\ dirs'[Kernel] = dirs[Kernel]
<1> DEFINE T == {0} \cup DOMAIN tables'
<1>1. a \in T /\ {0} \cup DOMAIN tables \subseteq T
  OBVIOUS
<1> HIDE DEF T
<1>2. \A e \in DOMAIN dirs : DirectoryOf(dirs[e], T)
  BY <1>1, DirsWiden
<1>3. HasSet(dirs, d, i, a, b, dirs')
  BY <1>2, DirsUpdate
<1>4. \A e \in DOMAIN dirs : DirectoryOf(dirs'[e], T)
  BY <1>1, <1>2, <1>3, DirsTyped
<1>5. /\ DOMAIN dirs' = DOMAIN dirs /\ Kernel \in DOMAIN dirs
      /\ dirs'[Kernel] = dirs[Kernel]
  BY <1>3 DEF DirsInv, HasSet
<1>6. \A j, k \in Slots : KTable(j)' = KTable(k)' /\ KTable(j)' # 0 => j = k
  BY <1>5 DEF DirsInv, KTable
<1>7. DirsInv'
  BY <1>4, <1>5, <1>6, DirsOfNext DEF T
<1> QED BY <1>5, <1>7

LEMMA DirsKept ==
    ASSUME DirsInv, dirs' = dirs, DOMAIN tables \subseteq DOMAIN tables'
    PROVE  DirsInv'
<1>1. \A e \in DOMAIN dirs : dirs[e].tables \in [Slots -> {0} \cup DOMAIN tables']
  BY DEF DirsInv
<1> QED BY <1>1 DEF DirsInv, KTable

-----------------------------------------------------------------------------
(* memory::Initialize.                                                     *)

(* While the kernel boots, no task is in a call and none has a page.       *)
LEMMA TasksAsleep ==
    ASSUME JobsInv, ViewInv, phase \notin {"clone", "run"}, phase' # "run",
           UNCHANGED <<directory, job, content, view>>, DOMAIN dirs' = DOMAIN dirs
    PROVE  JobsInv' /\ ViewInv'
<1>1. \A t \in Task : job[t] = Idle
  BY DEF JobsInv, InRange, InClone
<1> QED BY <1>1 DEF JobsInv, ViewInv

LEMMA BootTable ==
    ASSUME PagingInv, phase \in {"heaps", "identity"}, NEW v \in Nat, BootGetPage(v)
    PROVE  /\ Typed(tables', frames) /\ DirsInv' /\ DOMAIN dirs' = DOMAIN dirs
           /\ Exclusive(tables, frames) => Exclusive(tables', frames)
           /\ base_address' \in Nat
           /\ \A id \in DOMAIN tables' : id < AlignedPage(base_address')
           /\ \A i \in Slots : KTable(i) # 0 => KTable(i)' # 0
<1> DEFINE i  == v \div TABLE
           id == AlignedPage(base_address)
<1>1. base_address \in Nat /\ PAGE \in Nat \ {0}
  BY Sizes DEF PagingInv, BootInv
<1>2. id \in Nat \ {0}
  <2>1. base_address \div PAGE \in Nat
    BY <1>1
  <2> QED BY <2>1 DEF AlignedPage
<1>3. CASE KTable(i) # 0
  <2>1. UNCHANGED <<base_address, dirs, tables>>
    BY <1>3 DEF BootGetPage
  <2> QED BY <2>1, DirsKept DEF PagingInv, BootInv, KTable
<1>4. CASE KTable(i) = 0
  <2> HIDE DEF id
  <2>1. /\ base_address' = id * PAGE + PAGE
        /\ tables' = Extended(tables, id, NewTable)
        /\ dirs' = TableSet(dirs, Kernel, i, id, id)
    BY <1>4 DEF BootGetPage, id, TableSet
  <2>2. Typed(tables', frames) /\ (Exclusive(tables, frames) => Exclusive(tables', frames))
    BY <1>2, <2>1, TableAdded DEF PagingInv
  <2>3. DOMAIN tables' = DOMAIN tables \cup {id}
    BY <2>1 DEF Extended
  <2>4. id \notin DOMAIN tables /\ id < AlignedPage(base_address')
        /\ base_address' \in Nat /\ \A x \in DOMAIN tables : x \in Nat /\ x < id
    <3>1. \A x \in DOMAIN tables : x \in Nat /\ x < id
      BY DEF PagingInv, BootInv, Typed, id
    <3>2. id * PAGE + PAGE \in Nat
      BY <1>1, <1>2
    <3>3. \A n \in Nat \ {0}, d, u \in Nat : d * n <= u => d <= u \div n
      OBVIOUS
    <3>4. id * PAGE <= id * PAGE + PAGE
      BY <1>1, <1>2
    <3>5. id <= (id * PAGE + PAGE) \div PAGE
      BY <1>1, <1>2, <3>2, <3>3, <3>4
    <3>6. (id * PAGE + PAGE) \div PAGE \in Nat
      BY <1>1, <3>2
    <3>7. id < AlignedPage(base_address')
      BY <1>2, <2>1, <3>5, <3>6 DEF AlignedPage
    <3> QED BY <1>2, <2>1, <3>1, <3>2, <3>7
  <2>5. \A x \in DOMAIN tables' : x < AlignedPage(base_address')
    <3>1. AlignedPage(base_address') \in Nat
      <4>1. \A u \in Nat : u \div PAGE \in Nat
        BY <1>1
      <4>2. base_address' \div PAGE \in Nat
        BY <2>4, <4>1
      <4> QED BY <4>2 DEF AlignedPage
    <3> QED BY <1>2, <2>3, <2>4, <3>1
  <2> DEFINE T == {0} \cup DOMAIN tables'
  <2>6. id \in T /\ {0} \cup DOMAIN tables \subseteq T /\ Kernel \in DOMAIN dirs
    BY <2>3 DEF PagingInv, DirsInv
  <2> HIDE DEF i, T
  <2>7. \A e \in DOMAIN dirs : DirectoryOf(dirs[e], T)
    BY <2>6, DirsWiden DEF PagingInv
  <2>8. HasSet(dirs, Kernel, i, id, id, dirs')
    BY <2>1, <2>6, <2>7, DirsUpdate
  <2>9. \A e \in DOMAIN dirs' : DirectoryOf(dirs'[e], T)
    <3>1. \A e \in DOMAIN dirs : DirectoryOf(dirs'[e], T)
      BY <1>2, <2>8, <2>6, <2>7, DirsTyped
    <3> QED BY <2>8, <3>1 DEF HasSet
  <2>10. \A j \in Slots : KTable(j)' = IF j = i THEN id ELSE KTable(j)
    <3>1. dirs[Kernel].tables \in [Slots -> T]
      BY <2>6, <2>7 DEF DirectoryOf
    <3> QED BY <2>8, <3>1 DEF KTable, HasSet
  <2>11. \A j \in Slots : KTable(j) \in {0} \cup DOMAIN tables
    BY DEF KTable, PagingInv, DirsInv
  <2>12. \A j, k \in Slots : KTable(j)' = KTable(k)' /\ KTable(j)' # 0 => j = k
    <3> HIDE DEF i
    <3> QED BY <2>4, <2>10, <2>11, <1>2 DEF PagingInv, DirsInv
  <2>13. DirsInv' /\ DOMAIN dirs' = DOMAIN dirs
    <3>1. Kernel \in DOMAIN dirs' /\ DOMAIN dirs' = DOMAIN dirs
      BY <2>8, <2>6 DEF HasSet
    <3> QED BY <2>12, <2>9, <3>1, DirsOfNext DEF T
  <2> QED BY <1>2, <2>2, <2>4, <2>5, <2>10, <2>13
<1> QED BY <1>3, <1>4

LEMMA HeapPagesType ==
    /\ HeapPages \in SUBSET Nat /\ IsFiniteSet(HeapPages)
    /\ \A v \in HeapPages : v \div TABLE \in Slots /\ v % TABLE \in Cells
<1>1. /\ KHEAP_START \in Nat /\ KHEAP_END \in Nat /\ UHEAP_START \in Nat /\ UHEAP_END \in Nat
      /\ DIRECTORY * TABLE \in Nat
  BY Sizes
<1>2. KHEAP_END \in 0 .. DIRECTORY * TABLE /\ UHEAP_END \in 0 .. DIRECTORY * TABLE
  BY PagingConstants
<1> DEFINE D == DIRECTORY * TABLE
<1>3. HeapPages \in SUBSET (0 .. D - 1)
  <2> HIDE DEF D
  <2>1. \A s \in Nat, e \in 0 .. D : s .. e - 1 \subseteq 0 .. D - 1
    BY <1>1 DEF D
  <2>2. KHEAP_START .. KHEAP_END - 1 \subseteq 0 .. D - 1
    BY <1>1, <1>2, <2>1 DEF D
  <2>3. UHEAP_START .. UHEAP_END - 1 \subseteq 0 .. D - 1
    BY <1>1, <1>2, <2>1 DEF D
  <2> QED BY <2>2, <2>3 DEF HeapPages
<1> HIDE DEF D
<1>4. IsFiniteSet(0 .. D - 1)
  <2>1. D - 1 \in Int
    BY <1>1 DEF D
  <2> QED BY <2>1, FS_Interval
<1>5. HeapPages \in SUBSET Nat /\ IsFiniteSet(HeapPages)
  <2>1. IsFiniteSet(HeapPages)
    BY <1>3, <1>4, FS_Subset
  <2> QED BY <1>3, <2>1
<1>6. \A v \in HeapPages : v \in Nat /\ v < DIRECTORY * TABLE
  BY <1>1, <1>3 DEF D
<1> QED BY <1>5, <1>6, PlaceOf

(* Before paging is on there is nobody who could be in a call.             *)
LEMMA OwnerAsleep ==
    ASSUME PagingInv, phase \notin {"clone", "run"}, UNCHANGED job,
           Exclusive(tables, frames) => Exclusive(tables', frames')
    PROVE  OwnerInv => OwnerInv'
<1>1. \A t \in Task : job[t].op = "idle"
  BY DEF PagingInv, JobsInv, InRange, InClone, Idle
<1> QED BY <1>1 DEF OwnerInv

LEMMA PagingInit == Init => PagingInv /\ OwnerInv
<1> SUFFICES ASSUME Init PROVE PagingInv /\ OwnerInv
  OBVIOUS
<1>1. tables = <<>> /\ DOMAIN tables = {} /\ frames = {} /\ phase = "heaps" /\ next_page = 0
  BY DEF Init
<1>2. Typed(tables, frames) /\ Exclusive(tables, frames)
  BY <1>1 DEF Typed, Exclusive
<1>3. DirsInv
  <2>1. DOMAIN dirs = {Kernel} /\ dirs[Kernel] = NewDirectory(Kernel + 1)
    BY DEF Init
  <2>2. /\ NewDirectory(Kernel + 1).tables = [i \in Slots |-> 0]
        /\ NewDirectory(Kernel + 1).physical = [i \in Slots |-> 0]
    BY DEF NewDirectory, Slots
  <2>3. dirs[Kernel] = [tables |-> dirs[Kernel].tables, physical |-> dirs[Kernel].physical,
                        cr3 |-> dirs[Kernel].cr3]
    BY <2>1 DEF NewDirectory
  <2> QED BY <2>1, <2>2, <2>3 DEF DirsInv, KTable
<1>4. KHeapOK
  BY DEF Init, KHeapOK
<1>5. BootInv
  <2>1. Kernel * PAGE + 2 * PAGE + 1 \in Nat
    BY KernelType, Sizes
  <2> QED BY <1>1, <2>1 DEF Init, BootInv
<1>6. JobsInv
  BY KernelType DEF Init, JobsInv
<1>7. ViewInv
  BY PagingConstants DEF Init, ViewInv
<1>8. OwnerInv
  BY <1>2 DEF Init, OwnerInv, Idle
<1> QED BY <1>2, <1>3, <1>4, <1>5, <1>6, <1>7, <1>8 DEF PagingInv

LEMMA JobsSame ==
    ASSUME PagingInv, UNCHANGED <<phase, directory, job>>, DOMAIN dirs \subseteq DOMAIN dirs'
    PROVE  JobsInv'
<1>1. \A t \in Task : (InRange(t) => InRange(t)') /\ (InClone(t) => InClone(t)')
  BY DEF InRange, InClone
<1>2. directory' \in [Task -> {0} \cup DOMAIN dirs']
  BY DEF PagingInv, JobsInv
<1> QED BY <1>1, <1>2 DEF PagingInv, JobsInv

LEMMA ViewSame ==
    ASSUME ViewInv, UNCHANGED <<phase, directory, content, view>>
    PROVE  ViewInv'
BY DEF ViewInv

(* An assertion that fails leaves everything as it is.                     *)
LEMMA PagingSame ==
    ASSUME PagingInv,
           UNCHANGED <<boot, frames, tables, dirs, kheap, directory, job, content, view>>
    PROVE  PagingInv' /\ (OwnerInv => OwnerInv')
<1>1. UNCHANGED <<phase, next_page, base_address, frames, tables, dirs, kheap_end, kheap_used,
                  directory, job, content, view>>
  BY DEF boot, kheap
<1>2. Typed(tables', frames') /\ KHeapOK' /\ DirsInv'
  BY <1>1, DirsKept DEF PagingInv, KHeapOK
<1>3. BootInv'
  BY <1>1 DEF PagingInv, BootInv, IsKernelPage, KTable
<1>4. JobsInv' /\ ViewInv'
  BY <1>1, JobsSame, ViewSame DEF PagingInv
<1>5. OwnerInv => OwnerInv'
  BY <1>1 DEF OwnerInv
<1> QED BY <1>2, <1>3, <1>4, <1>5 DEF PagingInv

LEMMA PagingBoot ==
    ASSUME PagingInv, Boot
    PROVE  PagingInv' /\ (OwnerInv => OwnerInv')
<1>1. CASE MapHeaps
  <2>1. phase = "heaps" /\ UNCHANGED <<next_page, frames, kheap, directory, job, content, view>>
    BY <1>1 DEF MapHeaps
  <2>2. CASE Unmapped # {}
    <3>1. Min(Unmapped) \in Nat
      <4>1. Unmapped \in SUBSET HeapPages
        BY DEF Unmapped
      <4>2. Unmapped \in SUBSET Nat /\ IsFiniteSet(Unmapped)
        BY <4>1, HeapPagesType, FS_Subset
      <4> QED BY <2>2, <4>2, Extremes
    <3>2. BootGetPage(Min(Unmapped)) /\ phase' = phase
      BY <1>1, <2>2 DEF MapHeaps
    <3>3. /\ Typed(tables', frames) /\ DirsInv' /\ DOMAIN dirs' = DOMAIN dirs
          /\ Exclusive(tables, frames) => Exclusive(tables', frames)
          /\ base_address' \in Nat
          /\ \A id \in DOMAIN tables' : id < AlignedPage(base_address')
      BY <2>1, <3>1, <3>2, BootTable
    <3>4. BootInv'
      BY <2>1, <3>2, <3>3 DEF PagingInv, BootInv
    <3>5. JobsInv' /\ ViewInv'
      BY <2>1, <3>2, <3>3, TasksAsleep DEF PagingInv
    <3>6. OwnerInv => OwnerInv'
      BY <2>1, <3>3, OwnerAsleep
    <3> QED BY <2>1, <3>3, <3>4, <3>5, <3>6 DEF PagingInv, KHeapOK, kheap
  <2>3. CASE Unmapped = {}
    <3>1. phase' = "identity" /\ UNCHANGED <<base_address, dirs, tables>>
      BY <1>1, <2>3 DEF MapHeaps
    <3>2. BootInv'
      BY <2>1, <2>3, <3>1 DEF PagingInv, BootInv, Unmapped, IsKernelPage, KTable
    <3>3. JobsInv' /\ ViewInv'
      BY <2>1, <3>1, TasksAsleep DEF PagingInv
    <3>4. OwnerInv => OwnerInv'
      BY <2>1, <3>1, OwnerAsleep
    <3>5. DirsInv'
      BY <3>1, DirsKept DEF PagingInv
    <3> QED BY <2>1, <3>1, <3>2, <3>3, <3>4, <3>5 DEF PagingInv, KHeapOK, kheap
  <2> QED BY <2>2, <2>3
<1>2. CASE IdentityMap
  <2>1. /\ phase = "identity" /\ phase' = phase
        /\ UNCHANGED <<kheap, directory, job, content, view>>
    BY <1>2, Zenon DEF IdentityMap, Panic, boot
  <2>2. next_page \in Nat
    BY DEF PagingInv, BootInv
  <2>3. CASE ~IsKernelPage(next_page)
    <3>1. BootGetPage(next_page) /\ UNCHANGED <<next_page, frames>>
      BY <1>2, <2>3 DEF IdentityMap
    <3>2. /\ Typed(tables', frames) /\ DirsInv' /\ DOMAIN dirs' = DOMAIN dirs
          /\ Exclusive(tables, frames) => Exclusive(tables', frames)
          /\ base_address' \in Nat
          /\ \A id \in DOMAIN tables' : id < AlignedPage(base_address')
          /\ \A i \in Slots : KTable(i) # 0 => KTable(i)' # 0
      BY <2>1, <2>2, <3>1, BootTable
    <3>3. \A v \in HeapPages : IsKernelPage(v)'
      <4>1. \A v \in HeapPages : KTable(v \div TABLE) # 0
        BY <2>1 DEF PagingInv, BootInv, IsKernelPage
      <4> QED BY <3>2, <4>1, HeapPagesType DEF IsKernelPage, KTable
    <3>4. BootInv'
      BY <2>1, <2>2, <3>1, <3>2, <3>3 DEF BootInv
    <3>5. JobsInv' /\ ViewInv'
      BY <2>1, <3>2, TasksAsleep DEF PagingInv
    <3>6. OwnerInv => OwnerInv'
      BY <2>1, <3>1, <3>2, OwnerAsleep
    <3> QED BY <2>1, <3>1, <3>2, <3>4, <3>5, <3>6 DEF PagingInv, KHeapOK, kheap
  <2>4. CASE IsKernelPage(next_page) /\ ~Filled({next_page}, FALSE).ok
    <3>1. Panic
      BY <1>2, <2>4 DEF IdentityMap
    <3> QED BY <3>1, PagingSame DEF Panic
  <2>5. CASE IsKernelPage(next_page) /\ Filled({next_page}, FALSE).ok
    <3> DEFINE new == Filled({next_page}, FALSE)
    <3>1. /\ new.ok /\ tables' = new.tables /\ frames' = new.frames
          /\ next_page' = next_page + 1 /\ UNCHANGED <<base_address, dirs>>
      BY <1>2, <2>5 DEF IdentityMap
    <3>2. {next_page} \in SUBSET Nat /\ IsFiniteSet({next_page})
      BY <2>2, FS_Singleton
    <3>3. /\ DOMAIN tables' = DOMAIN tables /\ Typed(tables', frames')
          /\ Exclusive(tables, frames) => Exclusive(tables', frames')
      BY <3>1, <3>2, FilledSound DEF PagingInv
    <3> HIDE DEF new
    <3>4. DirsInv'
      BY <3>1, <3>3, DirsKept DEF PagingInv
    <3>5. BootInv'
      BY <2>1, <2>2, <3>1, <3>3 DEF PagingInv, BootInv, IsKernelPage, KTable
    <3>6. JobsInv' /\ ViewInv'
      BY <2>1, <3>1, TasksAsleep DEF PagingInv
    <3>7. OwnerInv => OwnerInv'
      BY <2>1, <3>3, OwnerAsleep
    <3> QED BY <2>1, <3>3, <3>4, <3>5, <3>6, <3>7 DEF PagingInv, KHeapOK, kheap
  <2> QED BY <2>3, <2>4, <2>5
<1>3. ASSUME NEW pages \in SUBSET Nat, IsFiniteSet(pages), NEW rw \in BOOLEAN,
             Filled(pages, rw).ok,
             tables' = Filled(pages, rw).tables, frames' = Filled(pages, rw).frames,
             phase \in {"identity", "backed"}, phase' \in {"backed", "create"},
             UNCHANGED <<next_page, base_address, dirs, kheap, directory, job, content, view>>
      PROVE  PagingInv' /\ (OwnerInv => OwnerInv')
  <2>1. /\ DOMAIN tables' = DOMAIN tables /\ Typed(tables', frames')
        /\ Exclusive(tables, frames) => Exclusive(tables', frames')
    BY <1>3, FilledSound DEF PagingInv
  <2>2. DirsInv'
    BY <1>3, <2>1, DirsKept DEF PagingInv
  <2>3. BootInv'
    BY <1>3 DEF PagingInv, BootInv, IsKernelPage, KTable
  <2>4. JobsInv' /\ ViewInv'
    BY <1>3, TasksAsleep DEF PagingInv
  <2>5. OwnerInv => OwnerInv'
    BY <1>3, <2>1, OwnerAsleep
  <2> QED BY <1>3, <2>1, <2>2, <2>3, <2>4, <2>5 DEF PagingInv, KHeapOK, kheap
<1>4. CASE BackHeaps
  <2> DEFINE pages == KHEAP_START .. KHEAP_START + KHEAP_INITIAL - 1
  <2>1. pages \in SUBSET Nat /\ IsFiniteSet(pages)
    <3>1. KHEAP_START \in Nat /\ KHEAP_START + KHEAP_INITIAL - 1 \in Int
      BY Sizes
    <3> QED BY <3>1, RangeFinite
  <2>2. CASE Filled(pages, FALSE).ok
    <3>1. /\ tables' = Filled(pages, FALSE).tables /\ frames' = Filled(pages, FALSE).frames
          /\ phase = "identity" /\ phase' = "backed"
          /\ UNCHANGED <<next_page, base_address, dirs, kheap, directory, job, content, view>>
      BY <1>4, <2>2 DEF BackHeaps
    <3> HIDE DEF pages
    <3> QED BY <1>3, <2>1, <2>2, <3>1
  <2>3. CASE ~Filled(pages, FALSE).ok
    <3>1. Panic
      BY <1>4, <2>3 DEF BackHeaps
    <3> QED BY <3>1, PagingSame DEF Panic
  <2> QED BY <2>2, <2>3
<1>5. CASE BackUserHeap
  <2> DEFINE pages == UHEAP_START .. UHEAP_START + UHEAP_INITIAL - 1
  <2>1. pages \in SUBSET Nat /\ IsFiniteSet(pages)
    <3>1. UHEAP_START \in Nat /\ UHEAP_START + UHEAP_INITIAL - 1 \in Int
      BY Sizes
    <3> QED BY <3>1, RangeFinite
  <2>2. CASE Filled(pages, TRUE).ok
    <3>1. /\ tables' = Filled(pages, TRUE).tables /\ frames' = Filled(pages, TRUE).frames
          /\ phase = "backed" /\ phase' = "create"
          /\ UNCHANGED <<next_page, base_address, dirs, kheap, directory, job, content, view>>
      BY <1>5, <2>2 DEF BackUserHeap
    <3> HIDE DEF pages
    <3> QED BY <1>3, <2>1, <2>2, <3>1
  <2>3. CASE ~Filled(pages, TRUE).ok
    <3>1. Panic
      BY <1>5, <2>3 DEF BackUserHeap
    <3> QED BY <3>1, PagingSame DEF Panic
  <2> QED BY <2>2, <2>3
<1>6. CASE CreateHeaps
  <2>1. /\ phase = "create" /\ phase' = "clone" /\ base_address' = base_address + 1
        /\ kheap_end' = KHEAP_INITIAL /\ kheap_used' = 0 .. KIndex
        /\ UNCHANGED <<next_page, frames, tables, dirs, directory, job, content, view>>
    BY <1>6 DEF CreateHeaps
  <2>2. KHeapOK'
    <3>1. KIndex \in Nat /\ KHEAP_INITIAL \in Nat /\ HEAP_MIN \in Nat
      BY Sizes
    <3>2. KIndex < KHEAP_INITIAL
      BY <3>1, PagingConstants
    <3> QED BY <2>1, <3>1, <3>2 DEF KHeapOK
  <2>3. DirsInv'
    BY <2>1, DirsKept DEF PagingInv
  <2>4. BootInv'
    BY <2>1 DEF PagingInv, BootInv, IsKernelPage, KTable
  <2>5. JobsInv' /\ ViewInv'
    BY <2>1, TasksAsleep DEF PagingInv
  <2>6. OwnerInv => OwnerInv'
    BY <2>1, OwnerAsleep
  <2> QED BY <2>1, <2>2, <2>3, <2>4, <2>5, <2>6 DEF PagingInv
<1> QED BY <1>1, <1>2, <1>4, <1>5, <1>6 DEF Boot

-----------------------------------------------------------------------------
(* What the steps of a running task have in common.                        *)

LEMMA RunningDirectory ==
    ASSUME PagingInv, NEW t \in Task, Running(t)
    PROVE  /\ directory[t] \in DOMAIN dirs /\ phase \in {"clone", "run"}
           /\ phase = "run" => directory[t] # Kernel
           /\ phase = "clone" => t = First
           /\ \A i \in Slots : TablesOf(t)[i] \in {0} \cup DOMAIN tables
           /\ \A u \in Task \ {t} : job[u].op # "clone"
<1>1. directory[t] # 0 /\ phase \in {"clone", "run"}
      /\ \A u \in Task \ {t} : job[u].op = "idle" \/ job[u].op = "range"
  BY DEF Running
<1>2. directory[t] \in DOMAIN dirs
  BY <1>1 DEF PagingInv, JobsInv
<1>3. (phase = "run" => directory[t] # Kernel) /\ (phase = "clone" => t = First)
  BY <1>1 DEF PagingInv, JobsInv
<1>4. \A i \in Slots : TablesOf(t)[i] \in {0} \cup DOMAIN tables
  BY <1>2 DEF PagingInv, DirsInv, TablesOf
<1> QED BY <1>1, <1>2, <1>3, <1>4

LEMMA JobsTurn ==
    ASSUME PagingInv, NEW t \in Task, Running(t), phase' = phase, directory' = directory,
           DOMAIN dirs \subseteq DOMAIN dirs', DOMAIN job' = Task,
           \A u \in Task \ {t} : job'[u] = job[u],
           job'[t] = Idle \/ InRange(t)' \/ InClone(t)'
    PROVE  JobsInv'
<1>1. \A u \in Task \ {t} : job[u] = Idle \/ InRange(u)
  BY RunningDirectory DEF PagingInv, JobsInv, InClone
<1>2. ASSUME NEW u \in Task \ {t} PROVE job'[u] = Idle \/ InRange(u)'
  BY <1>1, <1>2 DEF InRange
<1>3. directory' \in [Task -> {0} \cup DOMAIN dirs']
  BY DEF PagingInv, JobsInv
<1> QED BY <1>2, <1>3 DEF PagingInv, JobsInv

LEMMA BootSame ==
    ASSUME PagingInv, phase \in {"clone", "run"}, phase' \in {"clone", "run"},
           UNCHANGED <<next_page, base_address>>, dirs'[Kernel] = dirs[Kernel]
    PROVE  BootInv'
BY DEF PagingInv, BootInv, IsKernelPage, KTable

LEMMA OwnerTurn ==
    ASSUME ~Preemptive, OwnerInv, NEW t \in Task, Running(t),
           \A u \in Task \ {t} : job'[u] = job[u],
           Exclusive(tables', frames'),
           job'[t].op = "range" => job'[t].index \notin frames'
    PROVE  OwnerInv'
<1>1. \A u \in Task \ {t} : job'[u].op = "idle"
  BY DEF Running
<1> QED BY <1>1 DEF OwnerInv

LEMMA PhysicalType ==
    ASSUME PagingInv, phase # "heaps", NEW v \in KHEAP_START .. KHEAP_END - 1,
           NEW tb, NEW fr, Typed(tb, fr), DOMAIN tb = DOMAIN tables
    PROVE  Physical(tb, v) \in Nat
<1>1. v \in HeapPages
  BY DEF HeapPages
<1>2. v \div TABLE \in Slots /\ v % TABLE \in Cells
  BY <1>1, HeapPagesType
<1>3. KTable(v \div TABLE) # 0
  BY <1>1 DEF PagingInv, BootInv, IsKernelPage
<1>4. KTable(v \div TABLE) \in DOMAIN tb
  BY <1>2, <1>3 DEF PagingInv, DirsInv, KTable
<1>5. tb[KTable(v \div TABLE)][v % TABLE].frame \in Frames
  BY <1>2, <1>4 DEF Typed
<1> QED BY <1>5, FramesType DEF Physical, FrameIn, EntryIn

LEMMA SizesOfObjects == SizeOfDirectory \in Nat \ {0} /\ SizeOfTable \in Nat \ {0}
BY DEF SizeOfDirectory, SizeOfTable

-----------------------------------------------------------------------------
(* AllocateRange.                                                          *)

LEMMA RangeStartStep ==
    ASSUME PagingInv, NEW t \in Task, NEW from \in UserPages, NEW to \in UserPages, from <= to,
           RangeStart(t, from, to)
    PROVE  PagingInv' /\ (~Preemptive /\ OwnerInv => OwnerInv')
<1>1. /\ Running(t) /\ phase = "run"
      /\ job' = [job EXCEPT ![t] = [op |-> "range", i |-> from, end |-> to, index |-> None]]
      /\ UNCHANGED <<phase, next_page, base_address, frames, tables, dirs, kheap_end, kheap_used,
                     directory, content, view>>
  BY DEF RangeStart, boot, kheap
<1>2. /\ DOMAIN job' = Task /\ \A u \in Task \ {t} : job'[u] = job[u]
      /\ job'[t] = [op |-> "range", i |-> from, end |-> to, index |-> None]
  BY <1>1 DEF PagingInv, JobsInv
<1>3. InRange(t)'
  BY <1>1, <1>2 DEF InRange
<1>4. JobsInv'
  BY <1>1, <1>2, <1>3, JobsTurn
<1>5. DirsInv' /\ BootInv' /\ ViewInv' /\ Typed(tables', frames') /\ KHeapOK'
  BY <1>1, DirsKept, BootSame, ViewSame DEF PagingInv, KHeapOK
<1>6. ASSUME ~Preemptive, OwnerInv PROVE OwnerInv'
  <2>1. Exclusive(tables', frames') /\ job'[t].index \notin frames'
    BY <1>1, <1>2, <1>6, FramesType DEF OwnerInv, PagingInv, Typed
  <2> QED BY <1>1, <1>2, <1>6, <2>1, OwnerTurn
<1> QED BY <1>4, <1>5, <1>6 DEF PagingInv

LEMMA UserPagesType == \A v \in UserPages : v \in Nat /\ v < DIRECTORY * TABLE
<1> DEFINE D == DIRECTORY * TABLE
<1>1. UserPages \subseteq 0 .. D - 1
  BY PagingConstants
<1>2. D \in Nat
  BY Sizes
<1> HIDE DEF D
<1>3. \A v \in UserPages : v \in Nat /\ v < D
  BY <1>1, <1>2
<1> QED BY <1>3 DEF D

LEMMA RangePlace ==
    ASSUME PagingInv, NEW t \in Task, job[t].op = "range"
    PROVE  /\ InRange(t) /\ phase = "run"
           /\ job[t].i \div TABLE \in Slots /\ job[t].i % TABLE \in Cells
<1>1. InRange(t)
  BY DEF PagingInv, JobsInv, InClone, Idle
<1>2. job[t].i \in Nat /\ job[t].i < DIRECTORY * TABLE
  BY <1>1, UserPagesType DEF InRange
<1> QED BY <1>1, <1>2, PlaceOf DEF InRange

LEMMA RangeTableStep ==
    ASSUME PagingInv, NEW t \in Task, RangeTable(t)
    PROVE  PagingInv' /\ (~Preemptive /\ OwnerInv => OwnerInv')
<1> DEFINE i == job[t].i \div TABLE
<1>1. Running(t) /\ job[t].op = "range"
  BY DEF RangeTable
<1>2. PICK k \in Allocated(SizeOfTable) :
        IF ~k.ok THEN Panic
        ELSE /\ tables' = Extended(k.tables, k.page, NewTable)
             /\ frames' = k.frames
             /\ kheap_end' = k.end /\ kheap_used' = k.used
             /\ dirs' = TableSet(dirs, directory[t], i, k.page, Physical(k.tables, k.page))
             /\ UNCHANGED <<boot, objects, directory, job, content, view, status>>
  BY DEF RangeTable, TableSet
<1>3. CASE ~k.ok
  <2>1. Panic
    BY <1>2, <1>3
  <2> QED BY <2>1, PagingSame DEF Panic
<1>4. CASE k.ok
  <2>1. /\ tables' = Extended(k.tables, k.page, NewTable)
        /\ frames' = k.frames /\ kheap_end' = k.end /\ kheap_used' = k.used
        /\ dirs' = TableSet(dirs, directory[t], i, k.page, Physical(k.tables, k.page))
        /\ UNCHANGED <<phase, next_page, base_address, directory, job, content, view>>
    BY <1>2, <1>4 DEF boot, TableSet
  <2>2. /\ k.page \in KHEAP_START .. KHEAP_END - 1
        /\ k.end \in Nat /\ k.used \subseteq 0 .. k.end - 1
        /\ DOMAIN k.tables = DOMAIN tables /\ Typed(k.tables, k.frames)
        /\ Exclusive(tables, frames) => Exclusive(k.tables, k.frames)
    BY <1>4, AllocatedSound, SizesOfObjects DEF PagingInv
  <2>3. k.page \in Nat \ {0}
    BY <2>2, KernelType
  <2>4. /\ Typed(tables', frames')
        /\ Exclusive(tables, frames) => Exclusive(tables', frames')
    BY <2>1, <2>2, <2>3, TableAdded
  <2>5. DOMAIN tables' = DOMAIN tables \cup {k.page}
    BY <2>1, <2>2 DEF Extended
  <2>6. phase = "run" /\ directory[t] \in DOMAIN dirs \ {Kernel}
    BY <1>1, RangePlace, RunningDirectory
  <2>7. Physical(k.tables, k.page) \in Nat
    BY <2>2, <2>6, PhysicalType
  <2>8. DirsInv' /\ DOMAIN dirs' = DOMAIN dirs /\ dirs'[Kernel] = dirs[Kernel]
    <3> HIDE DEF i
    <3> QED BY <2>1, <2>5, <2>6, <2>7, DirsPrivate DEF PagingInv
  <2>9. JobsInv' /\ ViewInv' /\ BootInv'
    BY <2>1, <2>6, <2>8, JobsSame, ViewSame, BootSame DEF PagingInv
  <2>10. ASSUME ~Preemptive, OwnerInv PROVE OwnerInv'
    <3>1. job'[t].index \notin frames'
      BY <2>1, <2>4, FramesType DEF RangeTable, Typed
    <3> QED BY <1>1, <2>1, <2>4, <2>10, <3>1, OwnerTurn DEF OwnerInv
  <2> QED BY <2>1, <2>2, <2>4, <2>8, <2>9, <2>10 DEF PagingInv, KHeapOK
<1> QED BY <1>3, <1>4

LEMMA AdvancedType ==
    ASSUME PagingInv, NEW t \in Task, InRange(t)
    PROVE  \/ Advanced(job[t]) = Idle
           \/ /\ Advanced(job[t]) = [op |-> "range", i |-> job[t].i + 1, end |-> job[t].end,
                                     index |-> None]
              /\ job[t].i + 1 \in UserPages /\ job[t].i + 1 <= job[t].end
<1> DEFINE j == job[t]
<1>1. CASE j.i = j.end
  BY <1>1 DEF Advanced
<1>2. CASE j.i # j.end
  <2>1. Advanced(j) = [j EXCEPT !.i = j.i + 1, !.index = None]
    BY <1>2 DEF Advanced
  <2>2. j = [op |-> "range", i |-> j.i, end |-> j.end, index |-> j.index]
    BY DEF InRange
  <2>3. [j EXCEPT !.i = j.i + 1] = [op |-> "range", i |-> j.i + 1, end |-> j.end,
                                    index |-> j.index]
    <3> HIDE DEF j
    <3> QED BY <2>2
  <2>4. Advanced(j) = [op |-> "range", i |-> j.i + 1, end |-> j.end, index |-> None]
    <3> DEFINE m == [j EXCEPT !.i = j.i + 1]
    <3>1. Advanced(j) = [m EXCEPT !.index = None]
      BY <2>1
    <3> HIDE DEF m, j
    <3> QED BY <2>3, <3>1 DEF m
  <2>5. j.i \in Nat /\ j.end \in Nat /\ j.i <= j.end
    BY UserPagesType DEF InRange
  <2>6. j.i + 1 \in j.i .. j.end
    BY <1>2, <2>5
  <2>7. j.i + 1 \in UserPages
    <3>1. j.i .. j.end \subseteq UserPages
      BY PagingConstants DEF InRange
    <3> QED BY <2>6, <3>1
  <2> QED BY <2>4, <2>6, <2>7
<1> QED BY <1>1, <1>2

LEMMA RangeNextStep ==
    ASSUME PagingInv, NEW t \in Task, RangeNext(t)
    PROVE  PagingInv' /\ (~Preemptive /\ OwnerInv => OwnerInv')
<1>1. Running(t) /\ job[t].op = "range" /\ InRange(t) /\ phase = "run"
  BY RangePlace DEF RangeNext
<1>2. CASE ~Skips(t) /\ next(frames) = None
  BY <1>2, PagingSame DEF RangeNext, Panic
<1>3. CASE ~(~Skips(t) /\ next(frames) = None)
  <2>1. /\ job' = [job EXCEPT ![t] = IF Skips(t) THEN Advanced(job[t])
                                     ELSE [job[t] EXCEPT !.index = next(frames)]]
        /\ UNCHANGED <<phase, next_page, base_address, frames, tables, dirs, kheap_end,
                       kheap_used, directory, content, view>>
    BY <1>3 DEF RangeNext, boot, kheap
  <2>2. /\ DOMAIN job' = Task /\ \A u \in Task \ {t} : job'[u] = job[u]
        /\ job'[t] = IF Skips(t) THEN Advanced(job[t])
                     ELSE [job[t] EXCEPT !.index = next(frames)]
    BY <2>1 DEF PagingInv, JobsInv
  <2>3. job'[t] = Idle \/ (InRange(t)' /\ job'[t].index \notin frames)
    <3>1. CASE Skips(t)
      <4>1. job'[t] = Advanced(job[t]) /\ job[t].end \in UserPages
        BY <1>1, <2>2, <3>1 DEF InRange
      <4>2. None \notin frames
        BY FramesType DEF PagingInv, Typed
      <4>3. CASE Advanced(job[t]) = Idle
        BY <4>1, <4>3
      <4>4. CASE /\ Advanced(job[t]) = [op |-> "range", i |-> job[t].i + 1, end |-> job[t].end,
                                         index |-> None]
                 /\ job[t].i + 1 \in UserPages /\ job[t].i + 1 <= job[t].end
        <5>1. job'[t] = [op |-> "range", i |-> job[t].i + 1, end |-> job[t].end, index |-> None]
          BY <4>1, <4>4
        <5> QED BY <1>1, <2>1, <4>1, <4>2, <4>4, <5>1 DEF InRange
      <4> QED BY <1>1, <4>3, <4>4, AdvancedType
    <3>2. CASE ~Skips(t)
      <4>1. next(frames) \in Frames \ frames
        <5>1. Unset(frames) # {} /\ next(frames) = Min(Unset(frames))
          BY <1>3, <3>2 DEF next
        <5>2. Unset(frames) \in SUBSET Nat /\ IsFiniteSet(Unset(frames))
          BY FramesType, FS_Subset DEF Unset
        <5>3. Min(Unset(frames)) \in Unset(frames)
          BY <5>1, <5>2, Extremes
        <5> QED BY <5>1, <5>3 DEF Unset
      <4>2. job[t] = [op |-> "range", i |-> job[t].i, end |-> job[t].end, index |-> job[t].index]
        BY <1>1 DEF InRange
      <4>3. job'[t] = [op |-> "range", i |-> job[t].i, end |-> job[t].end, index |-> next(frames)]
        BY <2>2, <3>2, <4>2
      <4> QED BY <1>1, <2>1, <4>1, <4>3 DEF InRange
    <3> QED BY <3>1, <3>2
  <2>4. JobsInv'
    BY <1>1, <2>1, <2>2, <2>3, JobsTurn
  <2>5. DirsInv' /\ BootInv' /\ ViewInv' /\ Typed(tables', frames') /\ KHeapOK'
    BY <1>1, <2>1, DirsKept, BootSame, ViewSame DEF PagingInv, KHeapOK
  <2>6. ASSUME ~Preemptive, OwnerInv PROVE OwnerInv'
    <3>1. Exclusive(tables', frames') /\ (job'[t].op = "range" => job'[t].index \notin frames')
      BY <2>1, <2>3, <2>6 DEF OwnerInv, Idle
    <3> QED BY <1>1, <2>2, <2>6, <3>1, OwnerTurn
  <2> QED BY <2>4, <2>5, <2>6 DEF PagingInv
<1> QED BY <1>2, <1>3

(* One entry of one table gets a frame; the place may be none at all.      *)
OneSet(tb, a, j, f, tb2) ==
    /\ DOMAIN tb2 = DOMAIN tb
    /\ \A b \in DOMAIN tb :
          tb2[b] = IF b = a THEN [tb[b] EXCEPT ![j] = Entry(f, TRUE, TRUE)] ELSE tb[b]

LEMMA EntrySet ==
    ASSUME NEW tb, NEW fr, Typed(tb, fr), NEW a, NEW j, NEW f \in Frames, NEW tb2,
           OneSet(tb, a, j, f, tb2)
    PROVE  /\ Typed(tb2, fr \cup {f})
           /\ Exclusive(tb, fr) /\ f \notin fr => Exclusive(tb2, fr \cup {f})
<1>0. DOMAIN tb2 = DOMAIN tb
  BY DEF OneSet
<1>1. Entry(f, TRUE, TRUE) \in [frame : Frames, present : BOOLEAN, rw : BOOLEAN]
      /\ Entry(f, TRUE, TRUE).frame = f
  BY DEF Entry
<1>2. ASSUME NEW b \in DOMAIN tb, NEW k \in Cells
      PROVE  IF b = a /\ k = j THEN tb2[b][k] = Entry(f, TRUE, TRUE) ELSE tb2[b][k] = tb[b][k]
  <2>1. DOMAIN tb[b] = Cells
    BY DEF Typed
  <2> QED BY <2>1 DEF OneSet
<1>3. Typed(tb2, fr \cup {f})
  <2>1. ASSUME NEW b \in DOMAIN tb
        PROVE  tb2[b] \in [Cells -> [frame : Frames, present : BOOLEAN, rw : BOOLEAN]]
    <3>1. tb[b] \in [Cells -> [frame : Frames, present : BOOLEAN, rw : BOOLEAN]]
      BY DEF Typed
    <3> QED BY <1>1, <3>1 DEF OneSet
  <2> QED BY <1>0, <2>1 DEF Typed
<1>4. ASSUME Exclusive(tb, fr), f \notin fr PROVE Exclusive(tb2, fr \cup {f})
  <2>1. ASSUME NEW b \in DOMAIN tb2, NEW k \in Cells, tb2[b][k].present
        PROVE  \/ b \in DOMAIN tb /\ tb[b][k].present /\ tb2[b][k].frame = tb[b][k].frame
               \/ b = a /\ k = j /\ tb2[b][k].frame = f
    BY <1>0, <1>1, <1>2, <2>1
  <2> DEFINE fr2 == fr \cup {f}
  <2>2. fr \subseteq fr2 /\ f \in fr2 \ fr
    BY <1>4
  <2>3. \A b \in DOMAIN tb2, k \in Cells : tb2[b][k].present =>
            \/ b \in DOMAIN tb /\ tb[b][k].present /\ tb2[b][k].frame = tb[b][k].frame
            \/ tb2[b][k].frame \in fr2 \ fr
    BY <2>1, <2>2
  <2>4. ASSUME NEW b \in DOMAIN tb2, NEW k \in Cells, tb2[b][k].present,
               tb2[b][k].frame \notin fr
        PROVE  b = a /\ k = j
    <3>1. ~ (b \in DOMAIN tb /\ tb[b][k].present /\ tb2[b][k].frame = tb[b][k].frame)
      BY <1>4, <2>4 DEF Exclusive
    <3> QED BY <2>1, <2>4, <3>1
  <2>5. ASSUME NEW b \in DOMAIN tb2, NEW c \in DOMAIN tb2, NEW k \in Cells, NEW l \in Cells,
               tb2[b][k].present, tb2[c][l].present,
               tb2[b][k].frame = tb2[c][l].frame, tb2[b][k].frame \notin fr
        PROVE  b = c /\ k = l
    <3>1. b = a /\ k = j
      BY <2>4, <2>5
    <3>2. tb2[c][l].frame \notin fr
      BY <2>5
    <3>3. c = a /\ l = j
      BY <2>4, <2>5, <3>2
    <3> QED BY <3>1, <3>3
  <2> HIDE DEF fr2
  <2>6. Exclusive(tb2, fr2)
    BY <1>4, <2>2, <2>3, <2>5, ExclusiveGrows
  <2> QED BY <2>6 DEF fr2
<1> QED BY <1>3, <1>4

LEMMA RangeSetStep ==
    ASSUME PagingInv, NEW t \in Task, RangeSet(t)
    PROVE  PagingInv' /\ (~Preemptive /\ OwnerInv => OwnerInv')
<1> DEFINE f == job[t].index
           v == job[t].i
           a == TablesOf(t)[v \div TABLE]
           j == v % TABLE
<1>1. /\ Running(t) /\ job[t].op = "range" /\ job[t].index # None
      /\ frames' = frames \cup {f}
      /\ tables' = [tables EXCEPT ![a][j] = Entry(f, TRUE, TRUE)]
      /\ view' = Extended(view, <<t, v>>, content[f])
      /\ job' = [job EXCEPT ![t] = Advanced(job[t])]
      /\ UNCHANGED <<phase, next_page, base_address, dirs, kheap_end, kheap_used, directory, content>>
  BY DEF RangeSet, Marked, boot, kheap
<1>2. InRange(t) /\ phase = "run" /\ f \in Frames /\ v \in UserPages
  BY <1>1, RangePlace DEF InRange
<1>3. /\ DOMAIN tables' = DOMAIN tables /\ Typed(tables', frames')
      /\ Exclusive(tables, frames) /\ f \notin frames => Exclusive(tables', frames')
  <2> HIDE DEF f, a, j, v
  <2>1. DOMAIN tables' = DOMAIN tables
        /\ \A b \in DOMAIN tables :
              tables'[b] = IF b = a THEN [tables[b] EXCEPT ![j] = Entry(f, TRUE, TRUE)]
                           ELSE tables[b]
    BY <1>1
  <2>2. frames' = frames \cup {f} /\ f \in Frames /\ Typed(tables, frames)
    BY <1>1, <1>2 DEF PagingInv
  <2>3. /\ Typed(tables', frames \cup {f})
        /\ Exclusive(tables, frames) /\ f \notin frames => Exclusive(tables', frames \cup {f})
    <3>1. OneSet(tables, a, j, f, tables')
      BY <2>1 DEF OneSet
    <3> QED BY <2>2, <3>1, EntrySet
  <2> QED BY <2>1, <2>2, <2>3
<1>4. DirsInv' /\ BootInv' /\ KHeapOK'
  BY <1>1, <1>2, <1>3, DirsKept, BootSame DEF PagingInv, KHeapOK
<1>5. /\ DOMAIN job' = Task /\ \A u \in Task \ {t} : job'[u] = job[u]
      /\ job'[t] = Advanced(job[t])
  BY <1>1 DEF PagingInv, JobsInv
<1>6. job'[t] = Idle \/ (InRange(t)' /\ job'[t].index = None)
  <2>1. job[t].end \in UserPages
    BY <1>2 DEF InRange
  <2>2. CASE Advanced(job[t]) = Idle
    BY <1>5, <2>2
  <2>3. CASE /\ Advanced(job[t]) = [op |-> "range", i |-> job[t].i + 1, end |-> job[t].end,
                                     index |-> None]
             /\ job[t].i + 1 \in UserPages /\ job[t].i + 1 <= job[t].end
    <3>1. job'[t] = [op |-> "range", i |-> job[t].i + 1, end |-> job[t].end, index |-> None]
      BY <1>5, <2>3
    <3> QED BY <1>1, <1>2, <2>1, <2>3, <3>1 DEF InRange
  <2> QED BY <1>2, <2>2, <2>3, AdvancedType
<1>7. JobsInv'
  BY <1>1, <1>5, <1>6, JobsTurn
<1>8. ViewInv'
  <2>1. content[f] \in Value /\ directory[t] # 0
    BY <1>1, <1>2 DEF PagingInv, ViewInv, Running
  <2> HIDE DEF f, v
  <2>2. /\ DOMAIN view' = DOMAIN view \cup {<<t, v>>} /\ view'[<<t, v>>] = content[f]
        /\ \A y \in DOMAIN view : y # <<t, v>> => view'[y] = view[y]
    BY <1>1 DEF Extended
  <2>3. ASSUME NEW p \in DOMAIN view'
        PROVE  view'[p] \in Value /\ p \in Task \X UserPages /\ directory[p[1]] # 0
    <3>1. CASE p = <<t, v>>
      BY <1>2, <2>1, <2>2, <3>1
    <3>2. CASE p # <<t, v>>
      BY <2>2, <2>3, <3>2 DEF PagingInv, ViewInv
    <3> QED BY <3>1, <3>2
  <2> QED BY <1>1, <1>2, <2>3 DEF PagingInv, ViewInv
<1>9. ASSUME ~Preemptive, OwnerInv PROVE OwnerInv'
  <2>1. Exclusive(tables', frames')
    BY <1>1, <1>3, <1>9 DEF OwnerInv
  <2>2. job'[t].op = "range" => job'[t].index \notin frames'
    <3>1. None \notin frames'
      BY <1>3, FramesType DEF Typed
    <3>2. Idle.op # "range"
      BY DEF Idle
    <3> QED BY <1>6, <3>1, <3>2
  <2> QED BY <1>1, <1>5, <1>9, <2>1, <2>2, OwnerTurn
<1> QED BY <1>3, <1>4, <1>7, <1>8, <1>9 DEF PagingInv

LEMMA WriteStep ==
    ASSUME PagingInv, NEW t \in Task, NEW v \in UserPages, NEW x \in Value, Write(t, v, x)
    PROVE  PagingInv' /\ (OwnerInv => OwnerInv')
<1>1. /\ Running(t) /\ <<t, v>> \in DOMAIN view
      /\ view' = [view EXCEPT ![<<t, v>>] = x]
      /\ UNCHANGED <<phase, next_page, base_address, frames, tables, dirs, kheap_end, kheap_used,
                     directory, job>>
  BY DEF Write, boot, kheap
<1>2. content' \in [Frames -> Value]
  <2>1. PICK f : content' = [content EXCEPT ![f] = x]
    BY DEF Write
  <2> QED BY <2>1 DEF PagingInv, ViewInv
<1>3. ViewInv'
  <2>1. DOMAIN view' = DOMAIN view /\ \A p \in DOMAIN view : view'[p] = x \/ view'[p] = view[p]
    BY <1>1
  <2> QED BY <1>1, <1>2, <2>1 DEF PagingInv, ViewInv
<1>4. DirsInv' /\ BootInv' /\ Typed(tables', frames') /\ KHeapOK' /\ JobsInv'
  BY <1>1, DirsKept, BootSame, JobsSame, RunningDirectory DEF PagingInv, KHeapOK
<1>5. OwnerInv => OwnerInv'
  BY <1>1 DEF OwnerInv
<1> QED BY <1>3, <1>4, <1>5 DEF PagingInv

-----------------------------------------------------------------------------
(* Directory::Clone.                                                       *)

LEMMA CloneDirectoryStep ==
    ASSUME PagingInv, NEW t \in Task, NEW c \in Task, CloneDirectory(t, c)
    PROVE  PagingInv' /\ (~Preemptive /\ OwnerInv => OwnerInv')
<1>1. Running(t) /\ job[t] = Idle /\ (IF phase = "clone" THEN c = t ELSE directory[c] = 0)
  BY DEF CloneDirectory
<1>2. PICK k \in Allocated(SizeOfDirectory) :
         IF ~k.ok THEN Panic
         ELSE /\ tables' = k.tables /\ frames' = k.frames
              /\ kheap_end' = k.end /\ kheap_used' = k.used
              /\ dirs' = Extended(dirs, k.page, NewDirectory(Physical(k.tables, k.page) + 1))
              /\ job' = [job EXCEPT ![t] = [op |-> "clone", dir |-> k.page, to |-> c, i |-> 0]]
              /\ UNCHANGED <<boot, objects, directory, content, view, status>>
  BY DEF CloneDirectory
<1>3. CASE ~k.ok
  <2>1. Panic
    BY <1>2, <1>3
  <2> QED BY <2>1, PagingSame DEF Panic
<1>4. CASE k.ok
  <2> DEFINE new == NewDirectory(Physical(k.tables, k.page) + 1)
  <2>1. /\ tables' = k.tables /\ frames' = k.frames
        /\ kheap_end' = k.end /\ kheap_used' = k.used
        /\ dirs' = Extended(dirs, k.page, new)
        /\ job' = [job EXCEPT ![t] = [op |-> "clone", dir |-> k.page, to |-> c, i |-> 0]]
        /\ UNCHANGED <<phase, next_page, base_address, directory, content, view>>
    BY <1>2, <1>4 DEF boot
  <2>2. /\ k.page \in KHEAP_START .. KHEAP_END - 1
        /\ k.end \in Nat /\ k.used \subseteq 0 .. k.end - 1
        /\ DOMAIN k.tables = DOMAIN tables /\ Typed(k.tables, k.frames)
        /\ Exclusive(tables, frames) => Exclusive(k.tables, k.frames)
    BY <1>4, AllocatedSound, SizesOfObjects DEF PagingInv
  <2>3. k.page # Kernel /\ k.page # 0
    BY <2>2, KernelType
  <2>4. /\ new.tables = [i \in Slots |-> 0] /\ new.physical = [i \in Slots |-> 0]
        /\ new = [tables |-> new.tables, physical |-> new.physical, cr3 |-> new.cr3]
    BY DEF NewDirectory, Slots
  <2> HIDE DEF new
  <2>5. /\ DOMAIN dirs' = DOMAIN dirs \cup {k.page} /\ dirs'[k.page] = new
        /\ \A d \in DOMAIN dirs : d # k.page => dirs'[d] = dirs[d]
    BY <2>1 DEF Extended
  <2>6. Kernel \in DOMAIN dirs /\ dirs'[Kernel] = dirs[Kernel]
    BY <2>3, <2>5 DEF PagingInv, DirsInv
  <2>7. DirsInv'
    <3>1. ASSUME NEW d \in DOMAIN dirs'
          PROVE  /\ dirs'[d] = [tables |-> dirs'[d].tables, physical |-> dirs'[d].physical,
                                cr3 |-> dirs'[d].cr3]
                 /\ dirs'[d].tables \in [Slots -> {0} \cup DOMAIN tables']
                 /\ dirs'[d].physical \in [Slots -> Nat]
      <4>1. CASE d = k.page
        <5>1. /\ [i \in Slots |-> 0] \in [Slots -> {0} \cup DOMAIN tables']
              /\ [i \in Slots |-> 0] \in [Slots -> Nat]
          OBVIOUS
        <5> QED BY <2>4, <2>5, <4>1, <5>1, Zenon
      <4>2. CASE d # k.page
        <5>1. d \in DOMAIN dirs /\ dirs'[d] = dirs[d]
          BY <2>5, <4>2
        <5> QED BY <2>1, <2>2, <5>1 DEF PagingInv, DirsInv
      <4> QED BY <4>1, <4>2
    <3>2. \A i, j \in Slots : KTable(i)' = KTable(j)' /\ KTable(i)' # 0 => i = j
      BY <2>6 DEF PagingInv, DirsInv, KTable
    <3> QED BY <2>5, <2>6, <3>1, <3>2 DEF DirsInv
  <2>8. /\ DOMAIN job' = Task /\ \A u \in Task \ {t} : job'[u] = job[u]
        /\ job'[t] = [op |-> "clone", dir |-> k.page, to |-> c, i |-> 0]
    BY <2>1 DEF PagingInv, JobsInv
  <2>9. InClone(t)'
    <3>1. /\ phase \in {"clone", "run"} /\ (phase = "clone" => t = First)
          /\ \A u \in Task \ {t} : job[u].op # "clone"
      BY <1>1, RunningDirectory
    <3>2. job'[t].dir \in DOMAIN dirs' \ {0, Kernel}
      BY <2>3, <2>5, <2>8
    <3>3. \A u \in Task \ {t} : job'[u].op # "clone"
      BY <2>8, <3>1
    <3>4. IF phase = "clone" THEN t = First /\ c = First ELSE directory[c] = 0
      BY <1>1, <3>1
    <3> QED BY <2>1, <2>8, <3>1, <3>2, <3>3, <3>4 DEF InClone
  <2>10. JobsInv'
    BY <1>1, <2>1, <2>5, <2>8, <2>9, JobsTurn
  <2>11. ViewInv' /\ BootInv'
    BY <1>1, <2>1, <2>6, ViewSame, BootSame, RunningDirectory DEF PagingInv
  <2>12. ASSUME ~Preemptive, OwnerInv PROVE OwnerInv'
    <3>1. Exclusive(tables', frames') /\ job'[t].op # "range"
      BY <2>1, <2>2, <2>8, <2>12 DEF OwnerInv
    <3> QED BY <1>1, <2>8, <2>12, <3>1, OwnerTurn
  <2> QED BY <2>1, <2>2, <2>7, <2>10, <2>11, <2>12 DEF PagingInv, KHeapOK
<1> QED BY <1>3, <1>4

LEMMA CloneJob ==
    ASSUME PagingInv, NEW t \in Task, Running(t), job[t].op = "clone"
    PROVE  /\ InClone(t)
           /\ \A n \in Nat : job' = [job EXCEPT ![t].i = n] =>
                /\ DOMAIN job' = Task /\ \A u \in Task \ {t} : job'[u] = job[u]
                /\ job'[t] = [op |-> "clone", dir |-> job[t].dir, to |-> job[t].to, i |-> n]
<1>1. InClone(t)
  BY DEF PagingInv, JobsInv, InRange, Idle
<1>2. ASSUME NEW n \in Nat, job' = [job EXCEPT ![t].i = n]
      PROVE  /\ DOMAIN job' = Task /\ \A u \in Task \ {t} : job'[u] = job[u]
             /\ job'[t] = [op |-> "clone", dir |-> job[t].dir, to |-> job[t].to, i |-> n]
  <2>1. /\ DOMAIN job' = Task /\ \A u \in Task \ {t} : job'[u] = job[u]
        /\ job'[t] = [job[t] EXCEPT !.i = n]
    BY <1>2 DEF PagingInv, JobsInv
  <2>2. job[t] = [op |-> "clone", dir |-> job[t].dir, to |-> job[t].to, i |-> job[t].i]
    BY <1>1 DEF InClone
  <2>3. [job[t] EXCEPT !.i = n]
        = [op |-> "clone", dir |-> job[t].dir, to |-> job[t].to, i |-> n]
    BY <2>2
  <2> QED BY <2>1, <2>3
<1> QED BY <1>1, <1>2

LEMMA CloneNext ==
    ASSUME PagingInv, NEW t \in Task, Running(t), job[t].op = "clone", Left(t) # {}
    PROVE  /\ Min(Left(t)) \in Slots /\ Min(Left(t)) + 1 \in Nat
           /\ TablesOf(t)[Min(Left(t))] \in DOMAIN tables
           /\ dirs[directory[t]].physical[Min(Left(t))] \in Nat
<1> DEFINE i == Min(Left(t))
<1>1. job[t].i \in Nat /\ DIRECTORY \in Nat
  BY CloneJob, Sizes DEF InClone
<1>2. Left(t) \in SUBSET Slots
  BY <1>1 DEF Left, Slots
<1>3. Slots \in SUBSET Nat /\ IsFiniteSet(Slots)
  <2>1. DIRECTORY - 1 \in Int
    BY <1>1
  <2> QED BY <2>1, RangeFinite DEF Slots
<1>4. i \in Left(t)
  <2>1. Left(t) \in SUBSET Nat /\ IsFiniteSet(Left(t))
    BY <1>2, <1>3, FS_Subset
  <2> QED BY <2>1, Extremes
<1>5. TablesOf(t)[i] # 0
  BY <1>4 DEF Left
<1> HIDE DEF i
<1>6. i \in Slots /\ i + 1 \in Nat
  <2>1. i \in Slots
    BY <1>2, <1>4
  <2>2. i \in Nat
    BY <1>3, <2>1
  <2> QED BY <2>1, <2>2
<1>7. TablesOf(t)[i] \in DOMAIN tables
  BY <1>5, <1>6, RunningDirectory
<1>8. directory[t] \in DOMAIN dirs
  BY RunningDirectory
<1>9. dirs[directory[t]].physical[i] \in Nat
  BY <1>6, <1>8 DEF PagingInv, DirsInv
<1> QED BY <1>6, <1>7, <1>9 DEF i

(* The clone goes on to another table, in a directory of its own.          *)
LEMMA CloneTurn ==
    ASSUME PagingInv, NEW t \in Task, Running(t), job[t].op = "clone", NEW n \in Nat,
           job' = [job EXCEPT ![t].i = n], DOMAIN dirs' = DOMAIN dirs,
           UNCHANGED <<phase, directory>>
    PROVE  JobsInv'
<1>1. /\ DOMAIN job' = Task /\ \A u \in Task \ {t} : job'[u] = job[u]
      /\ job'[t] = [op |-> "clone", dir |-> job[t].dir, to |-> job[t].to, i |-> n]
      /\ InClone(t)
  BY CloneJob
<1>2. InClone(t)'
  BY <1>1 DEF InClone
<1> QED BY <1>1, <1>2, JobsTurn

LEMMA LinkTableStep ==
    ASSUME PagingInv, NEW t \in Task, LinkTable(t)
    PROVE  PagingInv' /\ (~Preemptive /\ OwnerInv => OwnerInv')
<1> DEFINE i == Min(Left(t))
           d == dirs[directory[t]]
<1>1. /\ Running(t) /\ job[t].op = "clone" /\ Left(t) # {}
      /\ dirs' = TableSet(dirs, job[t].dir, i, d.tables[i], d.physical[i])
      /\ job' = [job EXCEPT ![t].i = i + 1]
      /\ UNCHANGED <<phase, next_page, base_address, frames, tables, kheap_end, kheap_used,
                     directory, content, view>>
  BY DEF LinkTable, boot, kheap, TableSet
<1>2. /\ i + 1 \in Nat /\ d.tables[i] \in DOMAIN tables /\ d.physical[i] \in Nat
      /\ job[t].dir \in DOMAIN dirs \ {Kernel}
  BY <1>1, CloneNext, CloneJob DEF TablesOf, InClone
<1> HIDE DEF i, d
<1>3. DirsInv' /\ DOMAIN dirs' = DOMAIN dirs /\ dirs'[Kernel] = dirs[Kernel]
  BY <1>1, <1>2, DirsPrivate DEF PagingInv
<1>4. JobsInv'
  BY <1>1, <1>2, <1>3, CloneTurn
<1>5. BootInv' /\ ViewInv' /\ Typed(tables', frames') /\ KHeapOK'
  BY <1>1, <1>3, BootSame, ViewSame, RunningDirectory DEF PagingInv, KHeapOK
<1>6. ASSUME ~Preemptive, OwnerInv PROVE OwnerInv'
  <2>1. /\ \A u \in Task \ {t} : job'[u] = job[u]
        /\ job'[t].op = "clone"
    BY <1>1, <1>2, CloneJob
  <2>2. Exclusive(tables', frames')
    BY <1>1, <1>6 DEF OwnerInv
  <2> QED BY <1>1, <1>6, <2>1, <2>2, OwnerTurn
<1> QED BY <1>3, <1>4, <1>5, <1>6 DEF PagingInv

(* Table::Clone fills a table with frames that no other page has.          *)
Cell == [frame : Frames, present : BOOLEAN, rw : BOOLEAN]

CopiedInto(tb, fr, table, id, need, new, tb2, fr2) ==
    /\ tb2 = Extended(tb, id, [j \in Cells |->
                IF j \in need THEN [table[j] EXCEPT !.frame = new[j]] ELSE NewTable[j]])
    /\ fr2 = fr \cup {new[j] : j \in need}

LEMMA TableCopied ==
    ASSUME NEW tb, NEW fr, Typed(tb, fr), NEW table \in [Cells -> Cell], NEW id \in Nat \ {0},
           NEW need \in SUBSET Cells, NEW new \in [need -> Unset(fr)],
           \A h, j \in need : new[h] = new[j] => h = j,
           NEW tb2, NEW fr2, CopiedInto(tb, fr, table, id, need, new, tb2, fr2)
    PROVE  /\ Typed(tb2, fr2) /\ DOMAIN tb2 = DOMAIN tb \cup {id}
           /\ Exclusive(tb, fr) => Exclusive(tb2, fr2)
<1> DEFINE copy == [j \in Cells |-> IF j \in need THEN [table[j] EXCEPT !.frame = new[j]]
                                    ELSE NewTable[j]]
<1>0. tb2 = Extended(tb, id, copy) /\ fr2 = fr \cup {new[j] : j \in need}
  BY DEF CopiedInto
<1>1. \A j \in need : new[j] \in Frames \ fr /\ new[j] \in fr2
  BY <1>0 DEF Unset
<1>2. ASSUME NEW j \in Cells
      PROVE  /\ copy[j] \in Cell
             /\ copy[j].present => j \in need
             /\ j \in need => copy[j].frame = new[j]
  <2>1. copy[j] = IF j \in need THEN [table[j] EXCEPT !.frame = new[j]] ELSE NewTable[j]
    OBVIOUS
  <2> HIDE DEF copy
  <2>2. CASE j \in need
    <3>1. table[j] \in Cell /\ new[j] \in Frames
      BY <1>1, <2>2
    <3> QED BY <2>1, <2>2, <3>1 DEF Cell
  <2>3. CASE j \notin need
    <3>1. NewTable[j] \in Cell /\ ~NewTable[j].present
      BY NewTableType DEF Cell
    <3> QED BY <2>1, <2>3, <3>1
  <2> QED BY <2>2, <2>3
<1>3. copy \in [Cells -> Cell]
  BY <1>2
<1>4. /\ DOMAIN tb2 = DOMAIN tb \cup {id} /\ tb2[id] = copy
      /\ \A b \in DOMAIN tb : b # id => tb2[b] = tb[b]
  <2> HIDE DEF copy
  <2> QED BY <1>0 DEF Extended
<1> HIDE DEF copy
<1>5. fr2 \subseteq Frames /\ fr \subseteq fr2
  BY <1>0, <1>1 DEF Typed
<1>6. Typed(tb2, fr2)
  BY <1>3, <1>4, <1>5 DEF Typed, Cell
<1>7. ASSUME Exclusive(tb, fr) PROVE Exclusive(tb2, fr2)
  <2>1. ASSUME NEW b \in DOMAIN tb2, NEW j \in Cells, tb2[b][j].present
        PROVE  \/ b \in DOMAIN tb /\ tb[b][j].present /\ tb2[b][j].frame = tb[b][j].frame
               \/ b = id /\ j \in need /\ tb2[b][j].frame = new[j]
    BY <1>2, <1>4, <2>1
  <2>2. \A b \in DOMAIN tb2, j \in Cells : tb2[b][j].present =>
            \/ b \in DOMAIN tb /\ tb[b][j].present /\ tb2[b][j].frame = tb[b][j].frame
            \/ tb2[b][j].frame \in fr2 \ fr
    BY <1>1, <2>1
  <2>3. ASSUME NEW b \in DOMAIN tb2, NEW j \in Cells, tb2[b][j].present,
               tb2[b][j].frame \notin fr
        PROVE  b = id /\ j \in need /\ tb2[b][j].frame = new[j]
    <3>1. ~ (b \in DOMAIN tb /\ tb[b][j].present /\ tb2[b][j].frame = tb[b][j].frame)
      BY <1>7, <2>3 DEF Exclusive
    <3> QED BY <2>1, <2>3, <3>1
  <2>4. ASSUME NEW b \in DOMAIN tb2, NEW c \in DOMAIN tb2, NEW j \in Cells, NEW l \in Cells,
               tb2[b][j].present, tb2[c][l].present,
               tb2[b][j].frame = tb2[c][l].frame, tb2[b][j].frame \notin fr
        PROVE  b = c /\ j = l
    <3>1. b = id /\ j \in need /\ tb2[b][j].frame = new[j]
      BY <2>3, <2>4
    <3>2. tb2[c][l].frame \notin fr
      BY <2>4
    <3>3. c = id /\ l \in need /\ tb2[c][l].frame = new[l]
      BY <2>3, <2>4, <3>2
    <3> QED BY <2>4, <3>1, <3>3
  <2> QED BY <1>5, <1>7, <2>2, <2>4, ExclusiveGrows
<1> QED BY <1>4, <1>6, <1>7

(* The copies take free frames, one each.                                  *)
LEMMA CopiesFresh ==
    ASSUME NEW table \in [Cells -> Cell], NEW bits,
           Cardinality({j \in DOMAIN table : table[j].frame # 0}) <= Cardinality(Unset(bits))
    PROVE  LET need == {j \in DOMAIN table : table[j].frame # 0}
               new  == Copies(table, bits)
           IN  /\ need \in SUBSET Cells /\ new \in [need -> Unset(bits)]
               /\ \A h, j \in need : new[h] = new[j] => h = j
<1> DEFINE need == {j \in DOMAIN table : table[j].frame # 0}
           at(v) == Nth(bits, Cardinality({u \in need : u < v}))
<1>1. need \in SUBSET Cells
  OBVIOUS
<1>2. Copies(table, bits) = [j \in need |-> at(j)]
  BY DEF Copies
<1> HIDE DEF need
<1>3. need \in SUBSET Nat /\ IsFiniteSet(need)
  <2>1. TABLE - 1 \in Int
    BY Sizes
  <2>2. Cells \in SUBSET Nat /\ IsFiniteSet(Cells)
    BY <2>1, RangeFinite DEF Cells
  <2> QED BY <1>1, <2>2, FS_Subset
<1>4. Cardinality(need) <= Cardinality(Unset(bits))
  BY DEF need
<1>5. /\ \A v \in need : at(v) \in Unset(bits)
      /\ \A u, v \in need : at(u) = at(v) => u = v
  BY <1>3, <1>4, FreshFrames
<1> HIDE DEF at
<1>6. /\ [j \in need |-> at(j)] \in [need -> Unset(bits)]
      /\ \A h, j \in need : [x \in need |-> at(x)][h] = [x \in need |-> at(x)][j] => h = j
  BY <1>5
<1> QED BY <1>1, <1>2, <1>6 DEF need

LEMMA CopyTableStep ==
    ASSUME PagingInv, NEW t \in Task, CopyTable(t)
    PROVE  PagingInv' /\ (~Preemptive /\ OwnerInv => OwnerInv')
<1> DEFINE i       == Min(Left(t))
           table   == tables[TablesOf(t)[i]]
           need    == {j \in DOMAIN table : table[j].frame # 0}
           new(k)  == Copies(table, k.frames)
           copy(k) == [j \in DOMAIN table |->
                         IF j \in need THEN [table[j] EXCEPT !.frame = new(k)[j]]
                         ELSE NewTable[j]]
           from(k, f) == CHOOSE j \in need : new(k)[j] = f
<1>1. Running(t) /\ job[t].op = "clone" /\ Left(t) # {}
  BY DEF CopyTable
<1>2. PICK k \in Allocated(SizeOfTable) :
           IF ~k.ok \/ Cardinality(need) > Cardinality(Unset(k.frames)) THEN Panic
           ELSE /\ tables' = Extended(k.tables, k.page, copy(k))
                /\ frames' = k.frames \cup {new(k)[j] : j \in need}
                /\ content' = [f \in Frames |->
                     IF \E j \in need : new(k)[j] = f
                     THEN content[table[from(k, f)].frame] ELSE content[f]]
                /\ dirs' = TableSet(dirs, job[t].dir, i, k.page, Physical(k.tables, k.page))
                /\ job' = [job EXCEPT ![t].i = i + 1]
                /\ kheap_end' = k.end /\ kheap_used' = k.used
                /\ UNCHANGED <<boot, objects, directory, view, status>>
  BY ZenonT(30) DEF CopyTable, TableSet
<1>3. /\ InClone(t) /\ i + 1 \in Nat /\ TablesOf(t)[i] \in DOMAIN tables
      /\ phase \in {"clone", "run"}
  BY <1>1, CloneJob, CloneNext, RunningDirectory
<1>4. table \in [Cells -> Cell]
  BY <1>3 DEF PagingInv, Typed, Cell
<1> HIDE DEF i, table
<1>5. CASE ~k.ok \/ Cardinality(need) > Cardinality(Unset(k.frames))
  <2>1. Panic
    BY <1>2, <1>5
  <2> QED BY <2>1, PagingSame DEF Panic
<1>6. CASE ~(~k.ok \/ Cardinality(need) > Cardinality(Unset(k.frames)))
  <2>1. /\ tables' = Extended(k.tables, k.page, copy(k))
        /\ frames' = k.frames \cup {new(k)[j] : j \in need}
        /\ content' = [f \in Frames |->
             IF \E j \in need : new(k)[j] = f
             THEN content[table[from(k, f)].frame] ELSE content[f]]
        /\ dirs' = TableSet(dirs, job[t].dir, i, k.page, Physical(k.tables, k.page))
        /\ job' = [job EXCEPT ![t].i = i + 1]
        /\ kheap_end' = k.end /\ kheap_used' = k.used
        /\ UNCHANGED <<boot, objects, directory, view, status>>
    BY <1>2, <1>6
  <2>2. UNCHANGED <<phase, next_page, base_address, directory, view>>
    BY <2>1 DEF boot
  <2>3. /\ k.page \in KHEAP_START .. KHEAP_END - 1
        /\ k.end \in Nat /\ k.used \subseteq 0 .. k.end - 1
        /\ DOMAIN k.tables = DOMAIN tables /\ Typed(k.tables, k.frames)
        /\ Exclusive(tables, frames) => Exclusive(k.tables, k.frames)
    BY <1>6, AllocatedSound, SizesOfObjects DEF PagingInv
  <2>4. k.page \in Nat \ {0}
    BY <2>3, KernelType
  <2>5. /\ need \in SUBSET Cells /\ new(k) \in [need -> Unset(k.frames)]
        /\ \A h, j \in need : new(k)[h] = new(k)[j] => h = j
    <3>1. need \in SUBSET Cells
      BY <1>4
    <3>2. Cardinality(need) \in Nat /\ Cardinality(Unset(k.frames)) \in Nat
      <4>1. TABLE - 1 \in Int
        BY Sizes
      <4>2. IsFiniteSet(Cells)
        BY <4>1, RangeFinite DEF Cells
      <4>3. IsFiniteSet(need)
        <5> HIDE DEF need
        <5> QED BY <3>1, <4>2, FS_Subset
      <4>4. IsFiniteSet(Unset(k.frames))
        BY FramesType, FS_Subset DEF Unset
      <4> QED BY <4>3, <4>4, FS_CardinalityType
    <3>3. Cardinality(need) <= Cardinality(Unset(k.frames))
      BY <1>6, <3>2
    <3> QED BY <1>4, <3>3, CopiesFresh
  <2>6. copy(k) = [j \in Cells |-> IF j \in need THEN [table[j] EXCEPT !.frame = new(k)[j]]
                                   ELSE NewTable[j]]
    BY <1>4
  <2>7. CopiedInto(k.tables, k.frames, table, k.page, need, new(k), tables', frames')
    <3> HIDE DEF need, new
    <3> QED BY <2>1, <2>6 DEF CopiedInto
  <2> HIDE DEF need, new, copy
  <2>8. /\ Typed(tables', frames') /\ DOMAIN tables' = DOMAIN k.tables \cup {k.page}
        /\ Exclusive(k.tables, k.frames) => Exclusive(tables', frames')
    BY <1>4, <2>3, <2>4, <2>5, <2>7, TableCopied
  <2>9. /\ Typed(tables', frames') /\ DOMAIN tables' = DOMAIN tables \cup {k.page}
        /\ Exclusive(tables, frames) => Exclusive(tables', frames')
    BY <2>3, <2>8
  <2>10. Physical(k.tables, k.page) \in Nat /\ job[t].dir \in DOMAIN dirs \ {Kernel}
    BY <1>3, <2>3, PhysicalType DEF InClone
  <2>11. DirsInv' /\ DOMAIN dirs' = DOMAIN dirs /\ dirs'[Kernel] = dirs[Kernel]
    BY <2>1, <2>9, <2>10, DirsPrivate DEF PagingInv
  <2>12. JobsInv' /\ BootInv'
    BY <1>1, <1>3, <2>1, <2>2, <2>11, CloneTurn, BootSame
  <2>13. ViewInv'
    <3>1. ASSUME NEW f \in Frames
          PROVE  (IF \E j \in need : new(k)[j] = f
                  THEN content[table[from(k, f)].frame] ELSE content[f]) \in Value
      <4>1. content \in [Frames -> Value]
        BY DEF PagingInv, ViewInv
      <4>2. CASE \E j \in need : new(k)[j] = f
        <5>1. from(k, f) \in need
          BY <4>2
        <5> HIDE DEF from
        <5>2. table[from(k, f)].frame \in Frames
          BY <1>4, <2>5, <5>1 DEF Cell
        <5> QED BY <4>1, <4>2, <5>2
      <4>3. CASE ~ \E j \in need : new(k)[j] = f
        BY <4>1, <4>3
      <4> QED BY <4>2, <4>3
    <3>2. content' \in [Frames -> Value]
      <4> HIDE DEF from
      <4> QED BY <2>1, <3>1
    <3> QED BY <2>2, <3>2 DEF PagingInv, ViewInv
  <2>14. ASSUME ~Preemptive, OwnerInv PROVE OwnerInv'
    <3>1. /\ \A u \in Task \ {t} : job'[u] = job[u]
          /\ job'[t].op = "clone"
      BY <1>1, <1>3, <2>1, CloneJob
    <3>2. Exclusive(tables', frames')
      BY <2>9, <2>14 DEF OwnerInv
    <3> QED BY <1>1, <2>14, <3>1, <3>2, OwnerTurn
  <2> QED BY <2>1, <2>3, <2>9, <2>11, <2>12, <2>13, <2>14 DEF PagingInv, KHeapOK
<1> HIDE DEF need, new, copy, from
<1> QED BY <1>5, <1>6, PTL

LEMMA CloneReturnStep ==
    ASSUME PagingInv, NEW t \in Task, CloneReturn(t)
    PROVE  PagingInv' /\ (~Preemptive /\ OwnerInv => OwnerInv')
<1> DEFINE c == job[t].to
           d == job[t].dir
<1>1. /\ Running(t) /\ job[t].op = "clone"
      /\ directory' = [directory EXCEPT ![c] = d]
      /\ view' = [p \in DOMAIN view \cup {<<c, q[2]>> : q \in {r \in DOMAIN view : r[1] = t}}
                    |-> IF p[1] = c THEN view[<<t, p[2]>>] ELSE view[p]]
      /\ job' = [job EXCEPT ![t] = Idle] /\ phase' = "run"
      /\ UNCHANGED <<next_page, base_address, frames, tables, dirs, kheap_end, kheap_used, content>>
  BY DEF CloneReturn, kheap
<1>2. /\ InClone(t) /\ c \in Task /\ d \in DOMAIN dirs \ {0, Kernel}
      /\ phase \in {"clone", "run"}
      /\ IF phase = "clone" THEN t = First /\ c = First ELSE directory[c] = 0
  BY <1>1, CloneJob DEF InClone
<1> HIDE DEF c, d
<1>3. /\ DOMAIN job' = Task /\ \A u \in Task \ {t} : job'[u] = job[u]
      /\ job'[t] = Idle
  BY <1>1 DEF PagingInv, JobsInv
<1>4. /\ directory' \in [Task -> {0} \cup DOMAIN dirs']
      /\ directory'[c] = d /\ \A u \in Task \ {c} : directory'[u] = directory[u]
  BY <1>1, <1>2 DEF PagingInv, JobsInv
<1>5. ASSUME NEW u \in Task PROVE directory'[u] # Kernel
  <2>1. CASE u = c
    BY <1>2, <1>4, <2>1
  <2>2. CASE u # c
    BY <1>2, <1>4, <2>2, KernelType DEF PagingInv, JobsInv
  <2> QED BY <2>1, <2>2
<1>6. ASSUME NEW u \in Task PROVE job'[u] = Idle \/ InRange(u)'
  <2>1. CASE u = t
    BY <1>3, <2>1
  <2>2. CASE u # t
    <3>1. job[u].op # "clone"
      BY <1>1, <2>2, RunningDirectory
    <3>2. job[u] = Idle \/ InRange(u)
      BY <3>1 DEF PagingInv, JobsInv, InClone
    <3> QED BY <1>1, <1>3, <2>2, <3>2 DEF InRange
  <2> QED BY <2>1, <2>2
<1>7. JobsInv'
  BY <1>1, <1>3, <1>4, <1>5, <1>6 DEF JobsInv
<1>8. ViewInv'
  <2>1. /\ DOMAIN view' = DOMAIN view \cup {<<c, q[2]>> : q \in {r \in DOMAIN view : r[1] = t}}
        /\ \A p \in DOMAIN view' :
              view'[p] = IF p[1] = c THEN view[<<t, p[2]>>] ELSE view[p]
    BY <1>1
  <2>2. \A p \in DOMAIN view : /\ view[p] \in Value /\ p \in Task \X UserPages
                               /\ directory[p[1]] # 0 /\ phase = "run"
    BY DEF PagingInv, ViewInv
  <2>3. \A p \in DOMAIN view : p[1] # c
    BY <1>2, <2>2
  <2>4. ASSUME NEW p \in DOMAIN view'
        PROVE  view'[p] \in Value /\ p \in Task \X UserPages /\ directory'[p[1]] # 0
    <3>1. CASE p \in DOMAIN view
      BY <1>4, <2>1, <2>2, <2>3, <3>1
    <3>2. CASE p \notin DOMAIN view
      <4>1. PICK q \in DOMAIN view : q[1] = t /\ p = <<c, q[2]>>
        BY <2>1, <3>2
      <4>2. q = <<t, q[2]>> /\ q[2] \in UserPages /\ view[q] \in Value
        BY <2>2, <4>1
      <4>3. p[1] = c /\ p[2] = q[2]
        BY <4>1
      <4>4. view'[p] = view[<<t, p[2]>>]
        BY <2>1, <4>3
      <4>5. view'[p] \in Value
        BY <4>2, <4>3, <4>4
      <4> QED BY <1>2, <1>4, <4>1, <4>2, <4>3, <4>5
    <3> QED BY <3>1, <3>2
  <2> QED BY <1>1, <2>4 DEF PagingInv, ViewInv
<1>9. DirsInv' /\ BootInv' /\ Typed(tables', frames') /\ KHeapOK'
  BY <1>1, <1>2, DirsKept, BootSame DEF PagingInv, KHeapOK
<1>10. ASSUME ~Preemptive, OwnerInv PROVE OwnerInv'
  <2>1. Exclusive(tables', frames') /\ job'[t].op # "range"
    BY <1>1, <1>3, <1>10 DEF OwnerInv, Idle
  <2> QED BY <1>1, <1>3, <1>10, <2>1, OwnerTurn
<1> QED BY <1>7, <1>8, <1>9, <1>10 DEF PagingInv

-----------------------------------------------------------------------------
(* The kernel heap of the running kernel.                                  *)

LEMMA HeapAllocStep ==
    ASSUME PagingInv, NEW t \in Task, NEW n \in Objects, HeapAlloc(t, n)
    PROVE  PagingInv' /\ (~Preemptive /\ OwnerInv => OwnerInv')
<1>1. Running(t) /\ phase = "run" /\ job[t] = Idle
  BY DEF HeapAlloc
<1>2. PICK k \in Allocated(n) :
         IF ~k.ok THEN Panic
         ELSE /\ tables' = k.tables /\ frames' = k.frames
              /\ kheap_end' = k.end /\ kheap_used' = k.used
              /\ UNCHANGED <<boot, dirs, directory, job, content, view, status>>
  BY DEF HeapAlloc
<1>3. CASE ~k.ok
  <2>1. Panic
    BY <1>2, <1>3
  <2> QED BY <2>1, PagingSame DEF Panic
<1>4. CASE k.ok
  <2>1. /\ tables' = k.tables /\ frames' = k.frames
        /\ kheap_end' = k.end /\ kheap_used' = k.used
        /\ UNCHANGED <<phase, next_page, base_address, dirs, directory, job, content, view>>
    BY <1>2, <1>4 DEF boot
  <2>2. n \in Nat \ {0}
    BY PagingConstants
  <2>3. /\ k.end \in Nat /\ k.used \subseteq 0 .. k.end - 1
        /\ DOMAIN k.tables = DOMAIN tables /\ Typed(k.tables, k.frames)
        /\ Exclusive(tables, frames) => Exclusive(k.tables, k.frames)
    BY <1>4, <2>2, AllocatedSound DEF PagingInv
  <2>4. DirsInv' /\ BootInv' /\ ViewInv' /\ JobsInv'
    BY <1>1, <2>1, <2>3, DirsKept, BootSame, ViewSame, JobsSame DEF PagingInv
  <2>5. ASSUME ~Preemptive, OwnerInv PROVE OwnerInv'
    <3>1. Exclusive(tables', frames') /\ job'[t].op # "range"
      BY <1>1, <2>1, <2>3, <2>5 DEF OwnerInv, Idle
    <3> QED BY <1>1, <2>1, <2>5, <3>1, OwnerTurn
  <2> QED BY <2>1, <2>3, <2>4, <2>5 DEF PagingInv, KHeapOK
<1> QED BY <1>3, <1>4

LEMMA ContractedType == ASSUME NEW u \in Nat PROVE Contracted(u) \in Nat
<1>1. ASSUME NEW a \in Nat, NEW b \in Nat PROVE Max({a, b}) \in Nat
  <2>1. IsFiniteSet({a, b})
    <3>1. {a, b} = {b} \cup {a} /\ IsFiniteSet({b})
      BY FS_Singleton
    <3> QED BY <3>1, FS_AddElement
  <2>2. {a, b} \in SUBSET Nat /\ {a, b} # {}
    OBVIOUS
  <2>3. Max({a, b}) \in {a, b}
    BY <2>1, <2>2, Extremes
  <2> QED BY <2>3
<1>2. HEAP_MIN \in Nat /\ 2 \in Nat
  BY Sizes
<1>3. Max({2, HEAP_MIN}) \in Nat /\ Max({u, HEAP_MIN}) \in Nat
  BY <1>1, <1>2
<1> QED BY <1>3 DEF Contracted

(* A release that leaves the heap its pages frees no frames.               *)
LEMMA HeapFreeStep ==
    ASSUME PagingInv, NEW t \in Task, NEW o \in objects, Keeps(o), HeapFree(t, o)
    PROVE  PagingInv' /\ (OwnerInv => OwnerInv')
<1> DEFINE used  == kheap_used \ o.at .. o.at + o.size - 1
           ends  == o.at >= InUse(used)
           end   == IF ends THEN Contracted(InUse(used)) ELSE kheap_end
           freed == {v \in KHEAP_START + end + 1 .. KHEAP_START + kheap_end - 1 : FrameOf(v) # 0}
<1>1. /\ Running(t) /\ phase = "run"
      /\ frames' = frames \ {FrameOf(v) \div FRAME_SIZE : v \in freed}
      /\ tables' = [id \in DOMAIN tables |->
           [j \in 0 .. TABLE - 1 |->
              IF \E v \in freed : KTable(v \div TABLE) = id /\ v % TABLE = j
              THEN [tables[id][j] EXCEPT !.frame = 0] ELSE tables[id][j]]]
      /\ kheap_end' = end /\ kheap_used' = used
      /\ UNCHANGED <<phase, next_page, base_address, dirs, directory, job, content, view>>
  BY Zenon DEF HeapFree, boot
<1>2. used \in SUBSET (0 .. kheap_end - 1) /\ kheap_end \in Nat /\ KHEAP_START \in Nat
  BY Sizes DEF PagingInv, KHeapOK
<1>3. ends => Contracted(InUse(used)) >= InUse(used) /\ Contracted(InUse(used)) + 1 >= kheap_end
  BY DEF Keeps
<1> HIDE DEF used
<1>4. InUse(used) \in Nat /\ \A p \in used : p \in Nat /\ p < InUse(used)
  BY <1>2, InUseType
<1>5. Contracted(InUse(used)) \in Nat
  BY <1>4, ContractedType
<1>6. end \in Nat /\ end + 1 >= kheap_end /\ used \subseteq 0 .. end - 1
  <2>1. CASE ends
    BY <1>3, <1>4, <1>5, <2>1
  <2>2. CASE ~ends
    BY <1>2, <2>2
  <2> QED BY <2>1, <2>2
<1> HIDE DEF end, ends
<1>7. freed = {}
  <2>1. KHEAP_START + end + 1 > KHEAP_START + kheap_end - 1
    BY <1>2, <1>6
  <2>2. \A a, b \in Int : a > b => a .. b = {}
    OBVIOUS
  <2>3. KHEAP_START + end + 1 .. KHEAP_START + kheap_end - 1 = {}
    BY <1>2, <1>6, <2>1, <2>2
  <2> QED BY <2>3
<1> HIDE DEF freed
<1>8. /\ DOMAIN tables' = DOMAIN tables /\ frames' = frames
      /\ \A id \in DOMAIN tables : tables'[id] = [j \in Cells |-> tables[id][j]]
  BY <1>1, <1>7 DEF Cells
<1>9. \A id \in DOMAIN tables : tables'[id] = tables[id]
  BY <1>8 DEF PagingInv, Typed
<1>10. /\ Typed(tables', frames')
       /\ Exclusive(tables, frames) => Exclusive(tables', frames')
  BY <1>8, <1>9 DEF PagingInv, Typed, Exclusive
<1>11. DirsInv' /\ BootInv' /\ ViewInv' /\ JobsInv' /\ KHeapOK'
  BY <1>1, <1>6, <1>8, DirsKept, BootSame, ViewSame, JobsSame DEF PagingInv, KHeapOK
<1>12. OwnerInv => OwnerInv'
  BY <1>1, <1>8, <1>10 DEF OwnerInv
<1> QED BY <1>10, <1>11, <1>12 DEF PagingInv

-----------------------------------------------------------------------------
(* The steps together.                                                     *)

LEMMA PagingNext ==
    ASSUME PagingInv, [Boot \/ Ranges \/ Clone \/ Allocate \/ KeepingRelease]_vars
    PROVE  PagingInv' /\ (~Preemptive /\ OwnerInv => OwnerInv')
<1>1. CASE Boot
  BY <1>1, PagingBoot
<1>2. CASE Ranges
  BY <1>2, RangeStartStep, RangeTableStep, RangeNextStep, RangeSetStep, WriteStep DEF Ranges
<1>3. CASE Clone
  BY <1>3, CloneDirectoryStep, LinkTableStep, CopyTableStep, CloneReturnStep DEF Clone
<1>4. CASE Allocate
  BY <1>4, HeapAllocStep DEF Allocate
<1>5. CASE KeepingRelease
  BY <1>5, HeapFreeStep DEF KeepingRelease
<1>6. CASE UNCHANGED vars
  BY <1>6, PagingSame DEF vars
<1> QED BY <1>1, <1>2, <1>3, <1>4, <1>5, <1>6

LEMMA PagingType == PagingInv => TypeOK
<1> SUFFICES ASSUME PagingInv PROVE TypeOK
  OBVIOUS
<1>1. /\ frames \subseteq Frames
      /\ \A id \in DOMAIN tables : tables[id] \in
            [0 .. TABLE - 1 -> [frame : Frames, present : BOOLEAN, rw : BOOLEAN]]
  BY DEF PagingInv, Typed, Cells
<1>2. \A d \in DOMAIN dirs : \A i \in 0 .. DIRECTORY - 1 :
        dirs[d].tables[i] \in {0} \cup DOMAIN tables /\ dirs[d].physical[i] \in Nat
  BY DEF PagingInv, DirsInv, Slots
<1>3. directory \in [Task -> {0} \cup DOMAIN dirs] /\ kheap_used \subseteq 0 .. kheap_end - 1
  BY DEF PagingInv, JobsInv, KHeapOK
<1>4. \A t \in Task : job[t].op = "range" => job[t].i \in UserPages
  BY RangePlace DEF InRange
<1>5. /\ content \in [Frames -> Value]
      /\ \A p \in DOMAIN view : view[p] \in Value /\ p \in Task \X UserPages
  BY DEF PagingInv, ViewInv
<1> QED BY <1>1, <1>2, <1>3, <1>4, <1>5 DEF TypeOK

(* What the structures of paging.cc hold is what their types say: every    *)
(* directory names tables there are, every task has a directory there is,  *)
(* and AllocateRange stays in its range, whether the timer switches tasks  *)
(* inside AllocFrame (paging.cc:102-108) or not.                           *)
THEOREM AlwaysTypeOK == KeepingSpec => []TypeOK
<1>1. Init => PagingInv
  BY PagingInit
<1>2. PagingInv /\ [Boot \/ Ranges \/ Clone \/ Allocate \/ KeepingRelease]_vars => PagingInv'
  BY PagingNext
<1>3. PagingInv => TypeOK
  BY PagingType
<1> QED BY <1>1, <1>2, <1>3, PTL DEF KeepingSpec

(* The bitset has the used frames (paging.cc:59): when the timer switches  *)
(* no task inside AllocFrame, between the test of the bitset and the mark  *)
(* in it (paging.cc:102-108), the frame of a present page is marked used   *)
(* and no other present page of any address space has it.                  *)
THEOREM AlwaysFramesExclusive ==
    ASSUME ~Preemptive
    PROVE  KeepingSpec => []FramesExclusive
<1>1. Init => PagingInv /\ OwnerInv
  BY PagingInit
<1>2. /\ PagingInv /\ OwnerInv
      /\ [Boot \/ Ranges \/ Clone \/ Allocate \/ KeepingRelease]_vars
      => PagingInv' /\ OwnerInv'
  BY PagingNext
<1>3. PagingInv /\ OwnerInv => FramesExclusive
  BY ExclusiveFrames DEF PagingInv, OwnerInv
<1> QED BY <1>1, <1>2, <1>3, PTL DEF KeepingSpec

-----------------------------------------------------------------------------
(* What the kernel maps: boot memory page by page to itself, and the pages *)
(* of its heap.                                                            *)

Booting == phase \in {"heaps", "identity"}
KSlots  == {i \in Slots : KTable(i) # 0}
BootSlots == {v \div TABLE : v \in HeapPages \cup 0 .. BootEnd - 1}

(* The frames found while boot memory is mapped are those of the pages.    *)
IdentityInv ==
    /\ Booting => frames = 0 .. next_page - 1
    /\ phase = "heaps" => next_page = 0
    /\ 0 .. next_page - 1 \subseteq frames
    /\ next_page <= BootEnd /\ (~Booting => 0 < next_page)
    /\ \A v \in 0 .. next_page - 1 :
          IsKernelPage(v) /\ FrameOf(v) = v /\ EntryIn(tables, v).present
    /\ Booting => \A v \in next_page .. DIRECTORY * TABLE - 1 :
                     IsKernelPage(v) => FrameOf(v) = 0
    /\ phase \in {"backed", "create"} => base_address + PAGE <= next_page * PAGE
    /\ phase \in {"clone", "run"} => base_address + PAGE <= next_page * PAGE + 1

(* Boot memory has room for the kernel's tables, which lie in it.          *)
BootTablesInv ==
    /\ Booting => base_address <= (Kernel + 3 + 2 * Cardinality(KSlots)) * PAGE
    /\ phase \notin {"clone", "run"} => DOMAIN dirs = {Kernel}
    /\ \A i \in KSlots :
          /\ i \in BootSlots
          /\ dirs[Kernel].physical[i] = KTable(i)
          /\ Booting => (KTable(i) + 1) * PAGE <= base_address
          /\ ~Booting => KTable(i) < next_page

(* The pages of the kernel heap have frames.                               *)
HeapBacked(e) == \A v \in KHEAP_START .. KHEAP_START + e - 1 : FrameOf(v) # 0

BackedInv ==
    /\ phase \in {"backed", "create"} => HeapBacked(KHEAP_INITIAL)
    /\ phase \in {"clone", "run"} =>
          /\ HeapBacked(kheap_end)
          /\ KHEAP_START + kheap_end <= KHEAP_END /\ HEAP_MIN <= kheap_end

KernelInv == IdentityInv /\ BootTablesInv /\ BackedInv

(* The kernel maps what it did when its tables do not change.              *)
LEMMA KernelSame ==
    ASSUME UNCHANGED <<tables, dirs>>
    PROVE  /\ \A i : KTable(i)' = KTable(i)
           /\ \A v : /\ IsKernelPage(v)' <=> IsKernelPage(v)
                     /\ EntryIn(tables, v)' = EntryIn(tables, v)
                     /\ FrameOf(v)' = FrameOf(v)
           /\ KSlots' = KSlots
<1>1. tables' = tables /\ dirs' = dirs
  OBVIOUS
<1>2. ASSUME NEW i PROVE KTable(i)' = KTable(i)
  BY <1>1 DEF KTable
<1>3. ASSUME NEW v PROVE IsKernelPage(v)' <=> IsKernelPage(v)
  BY <1>2 DEF IsKernelPage
<1>4. ASSUME NEW v PROVE EntryIn(tables, v)' = EntryIn(tables, v)
  BY <1>1, <1>2 DEF EntryIn
<1>5. ASSUME NEW v PROVE FrameOf(v)' = FrameOf(v)
  BY <1>1, <1>2 DEF FrameOf, FrameIn, EntryIn
<1>6. KSlots' = KSlots
  BY <1>2 DEF KSlots
<1> QED BY <1>2, <1>3, <1>4, <1>5, <1>6

(* And so does a task.                                                     *)
LEMMA TaskSame ==
    ASSUME UNCHANGED <<tables, dirs, directory>>
    PROVE  /\ \A t : TablesOf(t)' = TablesOf(t)
           /\ \A t, v : EntryOf(t, v)' = EntryOf(t, v)
<1>1. tables' = tables /\ dirs' = dirs /\ directory' = directory
  OBVIOUS
<1>2. ASSUME NEW t PROVE TablesOf(t)' = TablesOf(t)
  BY <1>1 DEF TablesOf
<1>3. ASSUME NEW t, NEW v PROVE EntryOf(t, v)' = EntryOf(t, v)
  BY <1>1, <1>2 DEF EntryOf
<1> QED BY <1>2, <1>3

(* A table changes only where a page had no frame.                         *)
NonzeroKept(tb2) ==
    /\ DOMAIN tables \subseteq DOMAIN tb2
    /\ \A id \in DOMAIN tables, j \in Cells : tables[id][j].frame # 0 => tb2[id][j] = tables[id][j]

(* And if it is not the kernel's, nowhere.                                 *)
OthersKept(tb2) ==
    \A id \in DOMAIN tables : (\A i \in Slots : KTable(i) # id) =>
        \A j \in Cells : tb2[id][j] = tables[id][j]

LEMMA Layout ==
    /\ Kernel \in Nat \ {0} /\ BootEnd \in Nat /\ Kernel < BootEnd /\ BootEnd <= KHEAP_START
    /\ KHEAP_START \in Nat /\ KHEAP_END \in Nat /\ KHEAP_INITIAL \in Nat /\ HEAP_MIN \in Nat
    /\ KHEAP_START + KHEAP_INITIAL <= KHEAP_END /\ HEAP_MIN <= KHEAP_INITIAL /\ 2 <= HEAP_MIN
    /\ BootEnd = Kernel + 2 * DIRECTORY + 4
    /\ DIRECTORY * TABLE \in Nat /\ KHEAP_END <= DIRECTORY * TABLE
<1>1. Kernel \in Nat \ {0} /\ DIRECTORY \in Nat \ {0} /\ DIRECTORY * TABLE \in Nat
  BY KernelType, Sizes
<1>2. KHEAP_END \in 0 .. DIRECTORY * TABLE
  BY PagingConstants
<1> QED BY <1>1, <1>2, Sizes, PagingConstants, AddressSpace DEF BootEnd

(* The pages the kernel's tables are about.                                *)
LEMMA KernelPages ==
    /\ \A v \in HeapPages \cup 0 .. BootEnd - 1 :
          /\ v \in Nat /\ v < DIRECTORY * TABLE
          /\ v \div TABLE \in Slots /\ v % TABLE \in Cells
    /\ \A v \in KHEAP_START .. KHEAP_END - 1 : v \in HeapPages
    /\ \A v \in UserPages : v \div TABLE \notin BootSlots
<1>1. \A v \in 0 .. BootEnd - 1 : v \in Nat /\ v < DIRECTORY * TABLE
  <2>1. BootEnd \in Nat /\ DIRECTORY * TABLE \in Nat /\ BootEnd <= DIRECTORY * TABLE
    <3> DEFINE D == DIRECTORY * TABLE
    <3>1. D \in Nat /\ KHEAP_END <= D
      BY Layout
    <3> HIDE DEF D
    <3>2. BootEnd <= D
      BY <3>1, Layout
    <3> QED BY <3>1, <3>2, Layout DEF D
  <2> DEFINE D == DIRECTORY * TABLE
  <2> HIDE DEF D
  <2>2. BootEnd \in Nat /\ D \in Nat /\ BootEnd <= D
    BY <2>1 DEF D
  <2>3. \A v \in 0 .. BootEnd - 1 : v \in Nat /\ v < D
    BY <2>2
  <2> QED BY <2>3 DEF D
<1>2. \A v \in HeapPages : v \in Nat /\ v < DIRECTORY * TABLE
  <2> DEFINE D == DIRECTORY * TABLE
  <2>1. {KHEAP_END, UHEAP_END} \subseteq 0 .. D /\ D \in Nat
    BY PagingConstants, Layout
  <2> HIDE DEF D
  <2>2. \A v \in HeapPages : v \in Nat /\ v < D
    BY <2>1, Sizes DEF HeapPages
  <2> QED BY <2>2 DEF D
<1>3. \A v \in HeapPages \cup 0 .. BootEnd - 1 : v \div TABLE \in Slots /\ v % TABLE \in Cells
  BY <1>1, <1>2, PlaceOf
<1>4. \A v \in UserPages : v \div TABLE \notin BootSlots
  BY AddressSpace DEF BootSlots
<1> QED BY <1>1, <1>2, <1>3, <1>4 DEF HeapPages

LEMMA PlaceBack ==
    ASSUME NEW i \in Slots, NEW j \in Cells
    PROVE  /\ i * TABLE + j \in Nat
           /\ (i * TABLE + j) \div TABLE = i /\ (i * TABLE + j) % TABLE = j
<1>1. TABLE \in Nat \ {0} /\ i \in Nat /\ j \in 0 .. TABLE - 1
  BY Sizes DEF Slots, Cells
<1>2. ASSUME NEW n \in Nat \ {0}, NEW a \in Nat, NEW b \in 0 .. n - 1
      PROVE  a * n + b \in Nat /\ (a * n + b) \div n = a /\ (a * n + b) % n = b
  OBVIOUS
<1> QED BY <1>1, <1>2

LEMMA PlaceForth ==
    ASSUME NEW v \in Nat
    PROVE  (v \div TABLE) * TABLE + (v % TABLE) = v
<1>1. TABLE \in Nat \ {0}
  BY Sizes
<1>2. ASSUME NEW n \in Nat \ {0}, NEW u \in Nat PROVE u % n = u - n * (u \div n)
  BY SMTT(30)
<1>3. v % TABLE = v - TABLE * (v \div TABLE)
  BY <1>1, <1>2
<1>4. v \div TABLE \in Nat
  BY <1>1
<1>5. TABLE * (v \div TABLE) = (v \div TABLE) * TABLE /\ TABLE * (v \div TABLE) \in Nat
  BY <1>1, <1>4
<1> DEFINE r == v % TABLE
           p == (v \div TABLE) * TABLE
<1>6. r = v - p /\ p \in Nat /\ r \in Int
  BY <1>1, <1>3, <1>5
<1> HIDE DEF r, p
<1>7. p + r = v
  BY <1>6
<1> QED BY <1>7, Zenon DEF r, p

(* The kernel's entry of a page is in no other place.                      *)
LEMMA KernelEntry ==
    ASSUME DirsInv, NEW v \in Nat, v \div TABLE \in Slots, v % TABLE \in Cells, IsKernelPage(v)
    PROVE  /\ KTable(v \div TABLE) \in DOMAIN tables
           /\ \A i \in Slots : KTable(i) = KTable(v \div TABLE) => i = v \div TABLE
           /\ \A i \in Slots : KTable(i) = KTable(v \div TABLE) => i * TABLE + (v % TABLE) = v
<1>1. KTable(v \div TABLE) \in DOMAIN tables
  BY DEF DirsInv, KTable, IsKernelPage
<1>2. \A i \in Slots : KTable(i) = KTable(v \div TABLE) => i = v \div TABLE
  BY DEF DirsInv, IsKernelPage
<1> QED BY <1>1, <1>2, PlaceForth

(* AllocFrame leaves pages alone that have a frame or are not asked for,   *)
(* and gives those asked for one.                                          *)
LEMMA FilledKept ==
    ASSUME Typed(tables, frames), DirsInv, NEW pages \in SUBSET Nat, IsFiniteSet(pages), NEW rw,
           Filled(pages, rw).ok
    PROVE  LET tb2 == Filled(pages, rw).tables
           IN  /\ DOMAIN tb2 = DOMAIN tables /\ NonzeroKept(tb2) /\ OthersKept(tb2)
               /\ \A v \in Nat : /\ v \div TABLE \in Slots /\ v % TABLE \in Cells
                                 /\ IsKernelPage(v) /\ v \notin pages
                                 => EntryIn(tb2, v) = EntryIn(tables, v)
               /\ 0 \in frames =>
                     \A v \in pages : /\ v \div TABLE \in Slots /\ v % TABLE \in Cells
                                      /\ IsKernelPage(v)
                                      => FrameIn(tb2, v) # 0
<1> DEFINE new  == Filled(pages, rw)
           tb2  == new.tables
           need == {v \in pages : FrameOf(v) = 0}
<1>1. PICK fresh \in [need -> Unset(frames)] : FilledBy(new, need, fresh, rw)
  BY FilledEntries, Zenon
<1> HIDE DEF need, new
<1>2. DOMAIN tb2 = DOMAIN tables
  BY <1>1 DEF FilledBy
<1>3. ASSUME NEW id \in DOMAIN tables, NEW j \in Cells, tb2[id][j] # tables[id][j]
      PROVE  \E i \in Slots : /\ KTable(i) = id /\ i * TABLE + j \in pages
                              /\ tables[id][j].frame = 0
  <2>1. PICK i \in Slots : KTable(i) = id /\ i * TABLE + j \in need
    BY <1>1, <1>3 DEF FilledBy
  <2>2. i * TABLE + j \in pages /\ FrameOf(i * TABLE + j) = 0
    BY <2>1 DEF need
  <2>3. tables[id][j].frame = 0
    BY <2>1, <2>2, PlaceBack DEF FrameOf, FrameIn, EntryIn
  <2> QED BY <2>1, <2>2, <2>3
<1>4. NonzeroKept(tb2)
  BY <1>2, <1>3 DEF NonzeroKept
<1>5. OthersKept(tb2)
  BY <1>3 DEF OthersKept
<1>6. ASSUME NEW v \in Nat, v \div TABLE \in Slots, v % TABLE \in Cells, IsKernelPage(v),
             v \notin pages
      PROVE  EntryIn(tb2, v) = EntryIn(tables, v)
  <2>1. PICK id \in DOMAIN tables, j \in Cells :
           /\ id = KTable(v \div TABLE) /\ j = v % TABLE
           /\ \A i \in Slots : KTable(i) = id => i * TABLE + j = v
    BY <1>6, KernelEntry
  <2>2. tb2[id][j] = tables[id][j]
    BY <1>3, <1>6, <2>1
  <2> QED BY <2>1, <2>2 DEF EntryIn
<1>7. ASSUME 0 \in frames, NEW v \in pages, v \div TABLE \in Slots, v % TABLE \in Cells,
             IsKernelPage(v)
      PROVE  FrameIn(tb2, v) # 0
  <2>0. v \in Nat
    OBVIOUS
  <2>1. KTable(v \div TABLE) \in DOMAIN tables
    BY <1>7, <2>0, KernelEntry
  <2>2. CASE FrameOf(v) # 0
    <3> HIDE DEF tb2
    <3>1. tb2[KTable(v \div TABLE)][v % TABLE] = tables[KTable(v \div TABLE)][v % TABLE]
      BY <1>4, <1>7, <2>1, <2>2 DEF NonzeroKept, FrameOf, FrameIn, EntryIn
    <3> QED BY <2>2, <3>1 DEF FrameOf, FrameIn, EntryIn
  <2>3. CASE FrameOf(v) = 0
    <3>1. v \in need
      BY <2>3 DEF need
    <3>2. PICK i \in Slots, j \in Cells : i = v \div TABLE /\ j = v % TABLE /\ i * TABLE + j = v
      BY <1>7, <2>0, PlaceForth
    <3>3. new.tables[KTable(i)][j] = Entry(fresh[v], TRUE, rw)
      <4>1. KTable(i) # 0 /\ i * TABLE + j \in need
        BY <1>7, <3>1, <3>2 DEF IsKernelPage
      <4>2. new.tables[KTable(i)][j] = Entry(fresh[i * TABLE + j], TRUE, rw)
        BY <1>1, <4>1 DEF FilledBy
      <4> QED BY <3>2, <4>2
    <3>4. fresh[v] \in Unset(frames)
      BY <1>1, <3>1
    <3>5. fresh[v] # 0
      BY <1>7, <3>4 DEF Unset
    <3> QED BY <3>2, <3>3, <3>5 DEF FrameIn, EntryIn, Entry
  <2> QED BY <2>2, <2>3
<1> QED BY <1>2, <1>4, <1>5, <1>6, <1>7 DEF new

-----------------------------------------------------------------------------
(* What the kernel heap gives out is nobody's.                             *)

Ids == DOMAIN tables \cup DOMAIN dirs
RangeOf(o) == o.at .. o.at + o.size - 1

(* A table or a directory lies in boot memory or in heap pages in use that *)
(* no other object has.                                                    *)
FreshInv ==
    /\ phase \notin {"clone", "run"} => objects = {} /\ kheap_used = {}
    /\ \A x \in Ids : x \in Nat /\ (x < KHEAP_START \/ x - KHEAP_START \in kheap_used)
    /\ \A o \in objects :
          /\ o.at \in Nat /\ o.size \in Nat \ {0} /\ RangeOf(o) \subseteq kheap_used
          /\ \A x \in Ids : x - KHEAP_START \notin RangeOf(o)
    /\ \A o, q \in objects : o # q => RangeOf(o) \cap RangeOf(q) = {}

Granted(k, n) ==
    /\ DOMAIN k.tables = DOMAIN tables /\ NonzeroKept(k.tables) /\ OthersKept(k.tables)
    /\ EntryIn(k.tables, 0) = EntryIn(tables, 0)
    /\ k.end \in Nat /\ kheap_end <= k.end /\ KHEAP_START + k.end <= KHEAP_END
    /\ \A v \in KHEAP_START .. KHEAP_START + k.end - 1 : FrameIn(k.tables, v) # 0
    /\ k.page \in KHEAP_START .. KHEAP_START + k.end - 1 /\ k.page \notin Ids
    /\ k.used = kheap_used \cup k.page - KHEAP_START .. k.page - KHEAP_START + n - 1
    /\ \A p \in k.page - KHEAP_START .. k.page - KHEAP_START + n - 1 : p \notin kheap_used

(* The first page and the frame of it are there when paging is on.         *)
LEMMA PageZero ==
    ASSUME PagingInv, KernelInv, ~Booting
    PROVE  /\ 0 \in frames /\ IsKernelPage(0) /\ 0 \notin HeapPages
           /\ 0 \div TABLE \in Slots /\ 0 % TABLE \in Cells
<1>1. next_page \in Nat /\ 0 < next_page
  BY DEF PagingInv, BootInv, KernelInv, IdentityInv
<1>2. 0 \in 0 .. next_page - 1
  BY <1>1
<1>3. 0 \in frames /\ IsKernelPage(0)
  BY <1>2 DEF KernelInv, IdentityInv
<1>4. 0 \notin HeapPages
  BY Layout, PagingConstants, Sizes DEF HeapPages
<1>5. 0 \in HeapPages \cup 0 .. BootEnd - 1
  BY Layout
<1> QED BY <1>3, <1>4, <1>5, KernelPages

LEMMA AllocatedKept ==
    ASSUME PagingInv, KernelInv, FreshInv, phase \in {"clone", "run"}, NEW n \in Nat \ {0},
           NEW k \in Allocated(n), k.ok
    PROVE  Granted(k, n)
<1> DEFINE pages(p) == {KHEAP_START + q : q \in kheap_end .. p.end - 1}
           new(p)   == Filled(pages(p), FALSE)
<1>1. PICK p \in Placements(n) :
         k = IF ~new(p).ok \/ KHEAP_START + p.end > KHEAP_END
             THEN [ok |-> FALSE]
             ELSE [ok |-> TRUE, page |-> KHEAP_START + p.at, end |-> p.end,
                   used |-> kheap_used \cup p.at .. p.at + n - 1,
                   tables |-> new(p).tables, frames |-> new(p).frames]
  BY Zenon DEF Allocated
<1> HIDE DEF new
<1>2. new(p).ok /\ ~(KHEAP_START + p.end > KHEAP_END)
  BY <1>1
<1>3. k = [ok |-> TRUE, page |-> KHEAP_START + p.at, end |-> p.end,
           used |-> kheap_used \cup p.at .. p.at + n - 1,
           tables |-> new(p).tables, frames |-> new(p).frames]
  BY <1>1, <1>2
<1>4. /\ k.page = KHEAP_START + p.at /\ k.end = p.end
      /\ k.used = kheap_used \cup p.at .. p.at + n - 1 /\ k.tables = new(p).tables
  BY <1>3
<1>5. /\ p.at \in Nat /\ p.end \in Nat /\ kheap_end <= p.end /\ p.at + n <= p.end
      /\ \A q \in p.at .. p.at + n - 1 : q \notin kheap_used
      /\ kheap_end \in Nat /\ KHEAP_START \in Nat /\ KHEAP_END \in Nat
  BY PlacementType, Layout DEF PagingInv, KHeapOK
<1>6. \A v \in pages(p) : v \in KHEAP_START .. KHEAP_END - 1
  BY <1>2, <1>5
<1>7. pages(p) \in SUBSET Nat /\ IsFiniteSet(pages(p))
  <2> HIDE DEF pages
  <2>1. pages(p) \in SUBSET HeapPages
    BY <1>6, KernelPages
  <2> QED BY <2>1, HeapPagesType, FS_Subset
<1>8. /\ DOMAIN k.tables = DOMAIN tables /\ NonzeroKept(k.tables) /\ OthersKept(k.tables)
      /\ \A v \in Nat : /\ v \div TABLE \in Slots /\ v % TABLE \in Cells
                        /\ IsKernelPage(v) /\ v \notin pages(p)
                        => EntryIn(k.tables, v) = EntryIn(tables, v)
      /\ 0 \in frames =>
            \A v \in pages(p) : /\ v \div TABLE \in Slots /\ v % TABLE \in Cells
                                /\ IsKernelPage(v)
                                => FrameIn(k.tables, v) # 0
  <2> HIDE DEF pages
  <2>1. Filled(pages(p), FALSE).ok /\ k.tables = Filled(pages(p), FALSE).tables
    BY <1>2, <1>4 DEF new
  <2>2. Typed(tables, frames) /\ DirsInv
    BY DEF PagingInv
  <2> QED BY <1>7, <2>1, <2>2, FilledKept, ZenonT(60)
<1>9. /\ 0 \in frames /\ IsKernelPage(0) /\ 0 \notin HeapPages
      /\ 0 \div TABLE \in Slots /\ 0 % TABLE \in Cells
  BY PageZero DEF Booting
<1> HIDE DEF pages
<1>10. EntryIn(k.tables, 0) = EntryIn(tables, 0)
  <2>1. 0 \notin pages(p)
    BY <1>6, <1>9, KernelPages
  <2> QED BY <1>8, <1>9, <2>1
<1>11. ASSUME NEW v \in KHEAP_START .. KHEAP_START + k.end - 1
       PROVE  FrameIn(k.tables, v) # 0
  <2>1. v \in HeapPages /\ v \in Nat
    <3>1. v \in KHEAP_START .. KHEAP_END - 1
      BY <1>2, <1>4, <1>5
    <3> QED BY <3>1, <1>5, KernelPages
  <2>2. v \div TABLE \in Slots /\ v % TABLE \in Cells /\ IsKernelPage(v)
    BY <2>1, HeapPagesType DEF PagingInv, BootInv
  <2>3. CASE v \in pages(p)
    BY <1>8, <1>9, <2>2, <2>3
  <2>4. CASE v \notin pages(p)
    <3>1. EntryIn(k.tables, v) = EntryIn(tables, v)
      BY <1>8, <2>1, <2>2, <2>4
    <3>2. v \in KHEAP_START .. KHEAP_START + kheap_end - 1
      <4>1. CASE v >= KHEAP_START + kheap_end
        <5>1. v - KHEAP_START \in kheap_end .. p.end - 1 /\ v = KHEAP_START + (v - KHEAP_START)
          BY <1>4, <1>5, <2>1, <4>1
        <5>2. v \in pages(p)
          BY <5>1 DEF pages
        <5> QED BY <2>4, <5>2
      <4>2. CASE v < KHEAP_START + kheap_end
        BY <1>5, <2>1, <4>2
      <4> QED BY <1>5, <2>1, <4>1, <4>2
    <3>3. FrameOf(v) # 0
      BY <3>2 DEF KernelInv, BackedInv, HeapBacked
    <3> QED BY <3>1, <3>3 DEF FrameOf, FrameIn
  <2> QED BY <2>3, <2>4
<1>12. k.page \in KHEAP_START .. KHEAP_START + k.end - 1 /\ k.page - KHEAP_START = p.at
  BY <1>4, <1>5
<1>13. k.page \notin Ids
  <2>1. p.at \notin kheap_used
    BY <1>5
  <2>2. ~(k.page < KHEAP_START)
    BY <1>4, <1>5
  <2> QED BY <1>12, <2>1, <2>2 DEF FreshInv
<1> QED BY <1>2, <1>4, <1>5, <1>8, <1>10, <1>11, <1>12, <1>13 DEF Granted

-----------------------------------------------------------------------------
(* What a step of a running task leaves: tables and directories only grow. *)

TablesGrow ==
    /\ NonzeroKept(tables') /\ EntryIn(tables', 0) = EntryIn(tables, 0)
    /\ frames \subseteq frames'

DirsGrow ==
    /\ DOMAIN dirs \subseteq DOMAIN dirs' /\ dirs'[Kernel] = dirs[Kernel]
    /\ \A d \in DOMAIN dirs, i \in Slots : dirs[d].tables[i] # 0 =>
          /\ dirs'[d].tables[i] = dirs[d].tables[i]
          /\ dirs'[d].physical[i] = dirs[d].physical[i]

HeapGrows ==
    /\ HeapBacked(kheap_end)'
    /\ KHEAP_START + kheap_end' <= KHEAP_END /\ HEAP_MIN <= kheap_end'

RunStep ==
    /\ phase \in {"clone", "run"} /\ phase' \in {"clone", "run"}
    /\ UNCHANGED <<next_page, base_address>>
    /\ TablesGrow /\ DirsGrow /\ HeapGrows

(* A page of boot memory or of the heaps that is mapped.                   *)
Solid(v) ==
    /\ v \in HeapPages \cup 0 .. BootEnd - 1
    /\ IsKernelPage(v) /\ FrameOf(v) # 0

LEMMA EntryGrows ==
    ASSUME PagingInv, RunStep, NEW v \in Nat, v \div TABLE \in Slots, v % TABLE \in Cells,
           IsKernelPage(v), FrameOf(v) # 0
    PROVE  IsKernelPage(v)' /\ EntryIn(tables, v)' = EntryIn(tables, v) /\ FrameOf(v)' = FrameOf(v)
<1>1. KTable(v \div TABLE)' = KTable(v \div TABLE)
  BY DEF RunStep, DirsGrow, KTable
<1>2. KTable(v \div TABLE) \in DOMAIN tables
  BY KernelEntry DEF PagingInv
<1>3. tables'[KTable(v \div TABLE)][v % TABLE] = tables[KTable(v \div TABLE)][v % TABLE]
  BY <1>2 DEF RunStep, TablesGrow, NonzeroKept, FrameOf, FrameIn, EntryIn
<1> QED BY <1>1, <1>3 DEF IsKernelPage, EntryIn, FrameOf, FrameIn

LEMMA SolidKept ==
    ASSUME PagingInv, RunStep, NEW v, Solid(v)
    PROVE  Solid(v)' /\ FrameOf(v)' = FrameOf(v)
<1>1. v \in Nat /\ v \div TABLE \in Slots /\ v % TABLE \in Cells
  BY KernelPages DEF Solid
<1> QED BY <1>1, EntryGrows DEF Solid

LEMMA KernelKept ==
    ASSUME PagingInv, KernelInv, RunStep
    PROVE  KernelInv'
<1>1. /\ phase \in {"clone", "run"} /\ phase' \in {"clone", "run"}
      /\ UNCHANGED <<next_page, base_address>> /\ frames \subseteq frames'
      /\ \A i \in Slots : KTable(i)' = KTable(i)
      /\ dirs'[Kernel] = dirs[Kernel]
  BY DEF RunStep, TablesGrow, DirsGrow, KTable
<1>2. next_page \in Nat /\ next_page <= BootEnd
  BY DEF PagingInv, BootInv, KernelInv, IdentityInv
<1>3. ASSUME NEW v \in 0 .. next_page - 1
      PROVE  (IsKernelPage(v) /\ FrameOf(v) = v /\ EntryIn(tables, v).present)'
  <2>1. v \in Nat /\ v \div TABLE \in Slots /\ v % TABLE \in Cells
    <3>1. v \in 0 .. BootEnd - 1
      BY <1>2, Layout
    <3> QED BY <3>1, KernelPages
  <2>2. IsKernelPage(v) /\ FrameOf(v) = v /\ EntryIn(tables, v).present
    BY DEF KernelInv, IdentityInv
  <2>3. CASE v = 0
    <3>1. EntryIn(tables, v)' = EntryIn(tables, v) /\ IsKernelPage(v)'
      <4>1. KTable(0 \div TABLE)' = KTable(0 \div TABLE)
        BY <1>1, <2>1, <2>3
      <4>2. EntryIn(tables', 0) = EntryIn(tables, 0)
        BY DEF RunStep, TablesGrow
      <4> QED BY <2>2, <2>3, <4>1, <4>2 DEF EntryIn, IsKernelPage
    <3> QED BY <2>2, <3>1 DEF FrameOf, FrameIn, EntryIn
  <2>4. CASE v # 0
    <3>1. IsKernelPage(v)' /\ EntryIn(tables, v)' = EntryIn(tables, v) /\ FrameOf(v)' = FrameOf(v)
      BY <2>1, <2>2, <2>4, EntryGrows
    <3> QED BY <2>2, <3>1 DEF FrameOf, FrameIn, EntryIn
  <2> QED BY <2>3, <2>4
<1>4. IdentityInv'
  BY <1>1, <1>3 DEF KernelInv, IdentityInv, Booting
<1>5. BootTablesInv'
  <2>1. KSlots' = KSlots
    BY <1>1 DEF KSlots
  <2>2. BootSlots' = BootSlots
    BY DEF BootSlots
  <2> QED BY <1>1, <2>1, <2>2 DEF KernelInv, BootTablesInv, Booting, KSlots
<1>6. BackedInv'
  BY <1>1 DEF RunStep, HeapGrows, BackedInv, HeapBacked
<1> QED BY <1>4, <1>5, <1>6 DEF KernelInv

-----------------------------------------------------------------------------
(* Address spaces.                                                         *)

(* Two directories share a table only in the kernel's place of it.         *)
SlotsInv ==
    \A d, e \in DOMAIN dirs, i, k \in Slots :
       dirs[d].tables[i] # 0 /\ dirs[d].tables[i] = dirs[e].tables[k]
       => i = k /\ (d = e \/ dirs[d].tables[i] = KTable(i))

Sharing(t) == \A i \in Slots : KTable(i) # 0 => TablesOf(t)[i] = KTable(i)

(* What a clone has done, and that nobody has its directory yet.           *)
CloneSpace(t) ==
    /\ \A u \in Task : directory[u] # job[t].dir
    /\ \A i \in Slots :
          IF i < job[t].i THEN KTable(i) # 0 => dirs[job[t].dir].tables[i] = KTable(i)
          ELSE dirs[job[t].dir].tables[i] = 0

SpacesInv ==
    /\ \A t, u \in Task : directory[t] # 0 /\ directory[t] = directory[u] => t = u
    /\ \A t \in Task : job[t].op # "idle" => directory[t] # 0
    /\ \A t \in Known : Sharing(t)
    /\ \A t \in Task : job[t].op = "clone" => CloneSpace(t)

WalkInv ==
    \A d \in DOMAIN dirs, i \in Slots : dirs[d].tables[i] # 0 =>
       /\ Solid(dirs[d].tables[i])
       /\ dirs[d].physical[i] = FrameOf(dirs[d].tables[i])

Mapped(t, v) ==
    /\ TablesOf(t)[v \div TABLE] # 0
    /\ EntryOf(t, v).frame # 0 /\ EntryOf(t, v).present

(* Between the halves of AllocFrame the page has no frame yet.             *)
Pending(t) == job[t].op = "range" /\ job[t].index # None
PendingOf(t) == job[t].index # 0 /\ TablesOf(t)[job[t].i \div TABLE] # 0 /\ PageOf(t).frame = 0

Cloned(t)  == {i \in Slots : i < job[t].i /\ TablesOf(t)[i] # 0 /\ KTable(i) = 0}
Orig(t, i) == tables[TablesOf(t)[i]]
Copy(t, i) == tables[dirs[job[t].dir].tables[i]]

ClonedOf(t) ==
    \A i \in Cloned(t) :
       /\ dirs[job[t].dir].tables[i] # 0
       /\ \A j \in Cells : Orig(t, i)[j].frame # 0 =>
             Copy(t, i)[j].frame # 0 /\ Copy(t, i)[j].present = Orig(t, i)[j].present

MappedInv ==
    /\ \A p \in DOMAIN view : Mapped(p[1], p[2])
    /\ \A t \in Task : Pending(t) => PendingOf(t)
    /\ \A t \in Task : job[t].op = "clone" => ClonedOf(t)

RunInv ==
    phase \in {"clone", "run"} => SlotsInv /\ SpacesInv /\ WalkInv /\ MappedInv

(* A directory that is not the kernel's gets a table, a new one or the     *)
(* kernel's.                                                               *)
LEMMA SlotSet ==
    ASSUME DirsInv, NEW d \in DOMAIN dirs \ {Kernel}, NEW i \in Slots, NEW a, NEW b \in Nat,
           dirs' = TableSet(dirs, d, i, a, b)
    PROVE  /\ DOMAIN dirs' = DOMAIN dirs /\ dirs'[Kernel] = dirs[Kernel]
           /\ dirs'[d].tables[i] = a /\ dirs'[d].physical[i] = b
           /\ \A e \in DOMAIN dirs, k \in Slots : ~(e = d /\ k = i) =>
                 dirs'[e].tables[k] = dirs[e].tables[k] /\ dirs'[e].physical[k] = dirs[e].physical[k]
<1> DEFINE T == {0} \cup DOMAIN tables
<1>1. \A e \in DOMAIN dirs : DirectoryOf(dirs[e], T)
  BY DirsWiden
<1>2. HasSet(dirs, d, i, a, b, dirs')
  BY <1>1, DirsUpdate
<1>3. dirs[d].tables \in [Slots -> T] /\ dirs[d].physical \in [Slots -> Nat]
  BY <1>1 DEF DirectoryOf
<1>4. Kernel \in DOMAIN dirs
  BY DEF DirsInv
<1> HIDE DEF T
<1> QED BY <1>2, <1>3, <1>4 DEF HasSet

LEMMA SlotsPrivate ==
    ASSUME DirsInv, SlotsInv, NEW d \in DOMAIN dirs \ {Kernel}, NEW i \in Slots, NEW a, NEW b \in Nat,
           dirs' = TableSet(dirs, d, i, a, b), dirs[d].tables[i] = 0,
           a # 0, a \in DOMAIN tables => a = KTable(i)
    PROVE  SlotsInv' /\ DirsGrow
<1>1. /\ DOMAIN dirs' = DOMAIN dirs /\ dirs'[Kernel] = dirs[Kernel]
      /\ dirs'[d].tables[i] = a /\ dirs'[d].physical[i] = b
      /\ \A e \in DOMAIN dirs, k \in Slots : ~(e = d /\ k = i) =>
            dirs'[e].tables[k] = dirs[e].tables[k] /\ dirs'[e].physical[k] = dirs[e].physical[k]
  BY SlotSet
<1>2. DirsGrow
  BY <1>1 DEF DirsGrow
<1>3. \A k \in Slots : KTable(k)' = KTable(k)
  BY <1>1 DEF KTable
<1>4. ASSUME NEW e \in DOMAIN dirs, NEW k \in Slots, dirs[e].tables[k] = a
      PROVE  k = i /\ a = KTable(i)
  <2>1. dirs[e].tables[k] \in {0} \cup DOMAIN tables
    BY DEF DirsInv
  <2>2. a = KTable(i)
    BY <1>4, <2>1
  <2>3. Kernel \in DOMAIN dirs /\ dirs[Kernel].tables[i] = a
    BY <2>2 DEF KTable, DirsInv
  <2>4. k = i
    BY <1>4, <2>3 DEF SlotsInv
  <2> QED BY <2>2, <2>4
<1>5. ASSUME NEW e \in DOMAIN dirs', NEW f \in DOMAIN dirs', NEW k \in Slots, NEW l \in Slots,
             dirs'[e].tables[k] # 0, dirs'[e].tables[k] = dirs'[f].tables[l]
      PROVE  k = l /\ (e = f \/ dirs'[e].tables[k] = KTable(k)')
  <2>1. CASE e = d /\ k = i
    <3>1. CASE f = d /\ l = i
      BY <2>1, <3>1
    <3>2. CASE ~(f = d /\ l = i)
      <4>1. dirs[f].tables[l] = a /\ f \in DOMAIN dirs
        BY <1>1, <1>5, <2>1, <3>2
      <4>2. l = i /\ a = KTable(i)
        BY <1>4, <4>1
      <4> QED BY <1>1, <1>3, <2>1, <4>2
    <3> QED BY <3>1, <3>2
  <2>2. CASE ~(e = d /\ k = i)
    <3>1. CASE f = d /\ l = i
      <4>1. dirs[e].tables[k] = a /\ e \in DOMAIN dirs
        BY <1>1, <1>5, <2>2, <3>1
      <4>2. k = i /\ a = KTable(i)
        BY <1>4, <4>1
      <4>3. dirs'[e].tables[k] = a
        BY <1>1, <2>2, <4>1
      <4> QED BY <1>3, <3>1, <4>2, <4>3
    <3>2. CASE ~(f = d /\ l = i)
      <4>1. /\ dirs'[e].tables[k] = dirs[e].tables[k] /\ dirs'[f].tables[l] = dirs[f].tables[l]
            /\ e \in DOMAIN dirs /\ f \in DOMAIN dirs
        BY <1>1, <2>2, <3>2
      <4>2. dirs[e].tables[k] # 0 /\ dirs[e].tables[k] = dirs[f].tables[l]
        BY <1>5, <4>1
      <4>3. k = l /\ (e = f \/ dirs[e].tables[k] = KTable(k))
        BY <4>1, <4>2 DEF SlotsInv
      <4> QED BY <1>3, <4>1, <4>3
    <3> QED BY <3>1, <3>2
  <2> QED BY <2>1, <2>2
<1>6. SlotsInv'
  BY <1>5 DEF SlotsInv
<1> QED BY <1>2, <1>6

LEMMA SlotsSame ==
    ASSUME SlotsInv, DirsInv, dirs' = dirs
    PROVE  SlotsInv' /\ DirsGrow
<1>1. DirsGrow
  BY DEF DirsGrow
<1>2. SlotsInv'
  BY DEF SlotsInv, KTable
<1> QED BY <1>1, <1>2

(* A new directory starts empty.                                           *)
LEMMA SlotsNew ==
    ASSUME SlotsInv, DirsInv, NEW d, d \notin DOMAIN dirs, NEW p,
           dirs' = Extended(dirs, d, NewDirectory(p))
    PROVE  /\ SlotsInv' /\ DirsGrow /\ DOMAIN dirs' = DOMAIN dirs \cup {d}
           /\ \A i \in Slots : dirs'[d].tables[i] = 0
           /\ \A e \in DOMAIN dirs : dirs'[e] = dirs[e]
<1>1. /\ DOMAIN dirs' = DOMAIN dirs \cup {d} /\ dirs'[d] = NewDirectory(p)
      /\ \A e \in DOMAIN dirs : dirs'[e] = dirs[e]
  BY DEF Extended
<1>2. \A i \in Slots : dirs'[d].tables[i] = 0
  <2>1. NewDirectory(p).tables = [i \in Slots |-> 0]
    BY DEF NewDirectory, Slots
  <2> QED BY <1>1, <2>1
<1>3. Kernel \in DOMAIN dirs
  BY DEF DirsInv
<1>4. DirsGrow
  BY <1>1, <1>3 DEF DirsGrow
<1>5. \A k \in Slots : KTable(k)' = KTable(k)
  BY <1>1, <1>3 DEF KTable
<1>6. SlotsInv'
  BY <1>1, <1>2, <1>5 DEF SlotsInv
<1> QED BY <1>1, <1>2, <1>4, <1>6

(* A table of user pages is in one place of one task's directory.          *)
LEMMA UserTable ==
    ASSUME PagingInv, KernelInv, SlotsInv, SpacesInv, NEW t \in Known, NEW v \in UserPages,
           TablesOf(t)[v \div TABLE] # 0
    PROVE  /\ v \div TABLE \in Slots /\ v % TABLE \in Cells /\ directory[t] \in DOMAIN dirs
           /\ TablesOf(t)[v \div TABLE] \in DOMAIN tables
           /\ KTable(v \div TABLE) = 0
           /\ \A k \in Slots : KTable(k) # TablesOf(t)[v \div TABLE]
           /\ \A u \in Known, k \in Slots : TablesOf(u)[k] = TablesOf(t)[v \div TABLE]
                                            => u = t /\ k = v \div TABLE
<1>1. v \div TABLE \in Slots /\ v % TABLE \in Cells
  BY UserPagesType, PlaceOf
<1>2. v \div TABLE \notin BootSlots
  BY KernelPages
<1> DEFINE i == v \div TABLE
<1> HIDE DEF i
<1>3. i \in Slots /\ i \notin BootSlots /\ TablesOf(t)[i] # 0
  BY <1>1, <1>2 DEF i
<1>4. KTable(i) = 0
  BY <1>3 DEF KernelInv, BootTablesInv, KSlots
<1>5. \A u \in Known : directory[u] \in DOMAIN dirs /\ u \in Task
  BY DEF Known, PagingInv, JobsInv
<1>6. Kernel \in DOMAIN dirs
  BY DEF PagingInv, DirsInv
<1>7. TablesOf(t)[i] \in DOMAIN tables
  BY <1>3, <1>5 DEF PagingInv, DirsInv, TablesOf
<1>8. ASSUME NEW d \in DOMAIN dirs, NEW k \in Slots, dirs[d].tables[k] = TablesOf(t)[i]
      PROVE  k = i /\ d = directory[t]
  <2>1. dirs[directory[t]].tables[i] # 0 /\ dirs[directory[t]].tables[i] = dirs[d].tables[k]
    BY <1>3, <1>8 DEF TablesOf
  <2>2. i = k /\ (directory[t] = d \/ dirs[directory[t]].tables[i] = KTable(i))
    BY <1>3, <1>5, <2>1 DEF SlotsInv
  <2> QED BY <1>4, <2>1, <2>2
<1>9. \A k \in Slots : KTable(k) # TablesOf(t)[i]
  <2> SUFFICES ASSUME NEW k \in Slots, KTable(k) = TablesOf(t)[i] PROVE FALSE
    OBVIOUS
  <2>1. k = i
    BY <1>6, <1>8 DEF KTable
  <2> QED BY <1>3, <1>4, <2>1
<1>10. ASSUME NEW u \in Known, NEW k \in Slots, TablesOf(u)[k] = TablesOf(t)[i]
       PROVE  u = t /\ k = i
  <2>1. directory[u] = directory[t] /\ k = i
    BY <1>5, <1>8, <1>10 DEF TablesOf
  <2> QED BY <1>5, <2>1 DEF SpacesInv, Known
<1> QED BY <1>1, <1>4, <1>5, <1>7, <1>9, <1>10 DEF i

LEMMA SpacesTurn ==
    ASSUME PagingInv, SpacesInv, NEW t \in Task, Running(t), UNCHANGED directory,
           \A u \in Task \ {t} : job'[u] = job[u], DirsGrow,
           job'[t].op = "clone" => CloneSpace(t)'
    PROVE  SpacesInv'
<1>1. \A u \in Task \ {t} : job[u].op # "clone"
  BY RunningDirectory
<1>2. \A u \in Task : job'[u].op = "clone" => CloneSpace(u)'
  BY <1>1
<1>3. \A i \in Slots : KTable(i)' = KTable(i)
  BY DEF DirsGrow, KTable
<1>4. ASSUME NEW u \in Task, directory[u] # 0 PROVE Sharing(u)'
  <2>1. directory[u] \in DOMAIN dirs /\ Sharing(u)
    BY <1>4 DEF PagingInv, JobsInv, SpacesInv, Known
  <2>2. ASSUME NEW i \in Slots, KTable(i) # 0 PROVE TablesOf(u)[i]' = KTable(i)
    <3>1. dirs[directory[u]].tables[i] = KTable(i)
      BY <2>1, <2>2 DEF Sharing, TablesOf
    <3>2. dirs'[directory[u]].tables[i] = KTable(i)
      BY <2>1, <2>2, <3>1 DEF DirsGrow
    <3> QED BY <3>2 DEF TablesOf
  <2> QED BY <1>3, <2>2 DEF Sharing
<1>5. \A u \in Known' : Sharing(u)'
  BY <1>4 DEF Known
<1>6. \A u \in Task : job'[u].op # "idle" => directory'[u] # 0
  BY DEF SpacesInv, Running
<1> QED BY <1>2, <1>5, <1>6 DEF SpacesInv

(* Where a directory points, after the step.                               *)
LEMMA PrimedWalk ==
    ASSUME NEW d, NEW i, NEW w, w = dirs'[d].tables[i]
    PROVE  /\ Solid(dirs[d].tables[i])' <=> Solid(w)'
           /\ FrameOf(dirs[d].tables[i])' = FrameOf(w)'
<1>1. KTable(w \div TABLE)' = KTable(dirs[d].tables[i] \div TABLE)'
  BY DEF KTable
<1>2. EntryIn(tables, w)' = EntryIn(tables, dirs[d].tables[i])'
  BY <1>1, Zenon DEF EntryIn, KTable
<1>3. FrameOf(dirs[d].tables[i])' = FrameOf(w)'
  BY <1>2, Zenon DEF FrameOf, FrameIn
<1>4. IsKernelPage(dirs[d].tables[i])' <=> IsKernelPage(w)'
  BY <1>1, Zenon DEF IsKernelPage
<1> QED BY <1>3, <1>4, Zenon DEF Solid

LEMMA WalkSame ==
    ASSUME WalkInv, dirs' = dirs, \A v : FrameOf(v)' = FrameOf(v), \A v : Solid(v)' <=> Solid(v)
    PROVE  WalkInv'
<1> SUFFICES ASSUME NEW d \in DOMAIN dirs, NEW i \in Slots, dirs[d].tables[i] # 0
             PROVE  /\ Solid(dirs[d].tables[i])'
                    /\ dirs'[d].physical[i] = FrameOf(dirs[d].tables[i])'
  BY DEF WalkInv
<1>1. PICK w : w = dirs[d].tables[i] /\ w = dirs'[d].tables[i]
  OBVIOUS
<1>2. Solid(w)' /\ dirs'[d].physical[i] = FrameOf(w)'
  BY <1>1 DEF WalkInv
<1> QED BY <1>1, <1>2, PrimedWalk

LEMMA WalkKept ==
    ASSUME PagingInv, WalkInv, RunStep,
           \A d \in DOMAIN dirs', i \in Slots : dirs'[d].tables[i] # 0 =>
              \/ /\ d \in DOMAIN dirs /\ dirs'[d].tables[i] = dirs[d].tables[i]
                 /\ dirs'[d].physical[i] = dirs[d].physical[i]
              \/ Solid(dirs[d].tables[i])' /\ dirs'[d].physical[i] = FrameOf(dirs[d].tables[i])'
    PROVE  WalkInv'
<1> SUFFICES ASSUME NEW d \in DOMAIN dirs', NEW i \in Slots, dirs'[d].tables[i] # 0,
                    d \in DOMAIN dirs, dirs'[d].tables[i] = dirs[d].tables[i],
                    dirs'[d].physical[i] = dirs[d].physical[i]
             PROVE  Solid(dirs[d].tables[i])' /\ dirs'[d].physical[i] = FrameOf(dirs[d].tables[i])'
  BY DEF WalkInv
<1>1. PICK w : w = dirs[d].tables[i] /\ w = dirs'[d].tables[i]
  OBVIOUS
<1>2. Solid(w) /\ dirs[d].physical[i] = FrameOf(w)
  BY <1>1 DEF WalkInv
<1>3. Solid(w)' /\ FrameOf(w)' = FrameOf(w)
  BY <1>2, SolidKept
<1> QED BY <1>1, <1>2, <1>3, PrimedWalk

(* A page of a task keeps its entry.                                       *)
LEMMA EntryKept ==
    ASSUME PagingInv, RunStep, NEW t \in Known, NEW v \in UserPages, Mapped(t, v),
           directory'[t] = directory[t]
    PROVE  Mapped(t, v)' /\ EntryOf(t, v)' = EntryOf(t, v)
<1>1. v \div TABLE \in Slots /\ v % TABLE \in Cells
  BY UserPagesType, PlaceOf
<1>2. directory[t] \in DOMAIN dirs
  BY DEF Known, PagingInv, JobsInv
<1>3. PICK a : a = TablesOf(t)[v \div TABLE]
  OBVIOUS
<1>4. a \in DOMAIN tables /\ a # 0
  BY <1>1, <1>2, <1>3 DEF Mapped, PagingInv, DirsInv, TablesOf
<1>5. TablesOf(t)[v \div TABLE]' = a
  BY <1>1, <1>2, <1>3, <1>4 DEF RunStep, DirsGrow, TablesOf
<1>6. EntryOf(t, v) = tables[a][v % TABLE] /\ EntryOf(t, v)' = tables'[a][v % TABLE]
  BY <1>3, <1>5 DEF EntryOf
<1>7. tables'[a][v % TABLE] = tables[a][v % TABLE]
  BY <1>1, <1>4, <1>6 DEF RunStep, TablesGrow, NonzeroKept, Mapped
<1> QED BY <1>4, <1>5, <1>6, <1>7 DEF Mapped

(* The tables that are neither the kernel's nor the running task's.        *)
OwnKept(t) ==
    \A id \in DOMAIN tables :
       (\A i \in Slots : KTable(i) # id /\ TablesOf(t)[i] # id) =>
          \A j \in Cells : tables'[id][j] = tables[id][j]

LEMMA PendingTurn ==
    ASSUME PagingInv, KernelInv, SlotsInv, SpacesInv, MappedInv, RunStep,
           NEW t \in Task, Running(t), UNCHANGED directory, OwnKept(t),
           NEW u \in Task \ {t}, job'[u] = job[u], Pending(u)'
    PROVE  PendingOf(u)'
<1>1. Pending(u) /\ PendingOf(u) /\ job[u].op = "range"
  BY DEF Pending, MappedInv
<1>2. InRange(u) /\ phase = "run"
  BY <1>1, RangePlace
<1>3. directory[t] # 0 /\ t \in Known
  BY DEF Running, Known
<1>4. PICK v \in UserPages : v = job[u].i
  BY <1>2 DEF InRange
<1>5. PICK a : a = TablesOf(u)[v \div TABLE]
  OBVIOUS
<1>6. a # 0 /\ tables[a][v % TABLE].frame = 0
  BY <1>1, <1>4, <1>5 DEF PendingOf, PageOf
<1>7. u \in Known
  BY <1>1 DEF Known, SpacesInv
<1>8. /\ v \div TABLE \in Slots /\ v % TABLE \in Cells /\ directory[u] \in DOMAIN dirs
      /\ a \in DOMAIN tables
      /\ \A k \in Slots : KTable(k) # a /\ TablesOf(t)[k] # a
  BY <1>3, <1>4, <1>5, <1>6, <1>7, UserTable
<1>9. tables'[a][v % TABLE] = tables[a][v % TABLE]
  BY <1>8 DEF OwnKept
<1>10. TablesOf(u)[v \div TABLE]' = a
  BY <1>5, <1>6, <1>8 DEF RunStep, DirsGrow, TablesOf
<1>11. PageOf(u)' = tables'[a][v % TABLE]
  BY <1>4, <1>10 DEF PageOf
<1> QED BY <1>1, <1>4, <1>6, <1>9, <1>10, <1>11 DEF PendingOf

ViewStays == \A p \in DOMAIN view : EntryOf(p[1], p[2])' = EntryOf(p[1], p[2])

SafeInv == PagingInv /\ KernelInv /\ FreshInv /\ RunInv

LEMMA MappedTurn ==
    ASSUME PagingInv, KernelInv, SlotsInv, SpacesInv, MappedInv, RunStep,
           NEW t \in Task, Running(t), UNCHANGED directory, OwnKept(t),
           \A u \in Task \ {t} : job'[u] = job[u],
           \A p \in DOMAIN view' : p \in DOMAIN view \/ Mapped(p[1], p[2])',
           Pending(t)' => PendingOf(t)', job'[t].op = "clone" => ClonedOf(t)'
    PROVE  MappedInv' /\ ViewStays
<1>1. ASSUME NEW p \in DOMAIN view
      PROVE  Mapped(p[1], p[2])' /\ EntryOf(p[1], p[2])' = EntryOf(p[1], p[2])
  <2>1. p[1] \in Known /\ p[2] \in UserPages
    BY DEF PagingInv, ViewInv, Known
  <2>2. Mapped(p[1], p[2])
    BY DEF MappedInv
  <2> QED BY <2>1, <2>2, EntryKept
<1>2. ViewStays
  BY <1>1 DEF ViewStays
<1>3. \A u \in Task : Pending(u)' => PendingOf(u)'
  <2> SUFFICES ASSUME NEW u \in Task, Pending(u)' PROVE PendingOf(u)'
    OBVIOUS
  <2>1. CASE u = t
    BY <2>1
  <2>2. CASE u # t
    BY <2>2, PendingTurn
  <2> QED BY <2>1, <2>2
<1>4. ASSUME NEW u \in Task, job'[u].op = "clone" PROVE ClonedOf(u)'
  <2>1. u = t
    BY <1>4, RunningDirectory
  <2> QED BY <1>4, <2>1
<1>5. \A p \in DOMAIN view' : Mapped(p[1], p[2])'
  BY <1>1
<1> QED BY <1>2, <1>3, <1>4, <1>5 DEF MappedInv

LEMMA SafeTurn ==
    ASSUME SafeInv, PagingInv', RunStep, SlotsInv', FreshInv', WalkInv',
           NEW t \in Task, Running(t), UNCHANGED directory, OwnKept(t),
           \A u \in Task \ {t} : job'[u] = job[u],
           \A p \in DOMAIN view' : p \in DOMAIN view \/ Mapped(p[1], p[2])',
           Pending(t)' => PendingOf(t)', job'[t].op = "clone" => CloneSpace(t)' /\ ClonedOf(t)'
    PROVE  SafeInv' /\ ViewStays
<1>1. PagingInv /\ KernelInv /\ SlotsInv /\ SpacesInv /\ MappedInv
  BY DEF SafeInv, RunInv, RunStep
<1>2. KernelInv'
  BY <1>1, KernelKept
<1>3. SpacesInv'
  BY <1>1, SpacesTurn DEF RunStep
<1>4. MappedInv' /\ ViewStays
  BY <1>1, MappedTurn
<1> QED BY <1>2, <1>3, <1>4 DEF SafeInv, RunInv

(* The steps that leave the tables and the heap as they are.               *)
LEMMA StillStep ==
    ASSUME PagingInv, KernelInv, FreshInv, phase \in {"clone", "run"}, phase' \in {"clone", "run"},
           UNCHANGED <<next_page, base_address, frames, tables, kheap_end, kheap_used, objects>>,
           DirsGrow, NEW t
    PROVE  RunStep /\ OwnKept(t) /\ (UNCHANGED dirs => FreshInv')
<1>1. TablesGrow
  BY DEF TablesGrow, NonzeroKept, EntryIn
<1>2. HeapGrows
  BY DEF KernelInv, BackedInv, HeapGrows, HeapBacked, DirsGrow, FrameOf, FrameIn, EntryIn, KTable
<1>3. OwnKept(t)
  BY DEF OwnKept
<1>4. UNCHANGED dirs => FreshInv'
  BY DEF FreshInv, Ids, RangeOf
<1> QED BY <1>1, <1>2, <1>3, <1>4 DEF RunStep

(* The steps that allocate in the kernel heap.                             *)
LEMMA GrantedStep ==
    ASSUME PagingInv, phase \in {"clone", "run"}, phase' \in {"clone", "run"},
           UNCHANGED <<next_page, base_address>>, DirsGrow,
           KernelInv, NEW n \in Nat \ {0}, NEW k, Granted(k, n),
           DOMAIN tables \subseteq DOMAIN tables',
           \A id \in DOMAIN tables : tables'[id] = k.tables[id],
           frames \subseteq frames', kheap_end' = k.end, NEW t
    PROVE  /\ RunStep /\ OwnKept(t)
           /\ Solid(k.page)' /\ FrameOf(k.page)' = Physical(k.tables, k.page)
<1>1. \A i \in Slots : KTable(i)' = KTable(i)
  BY DEF DirsGrow, KTable
<1>2. ASSUME NEW v \in HeapPages
      PROVE  IsKernelPage(v)' /\ FrameOf(v)' = FrameIn(k.tables, v)
  <2>1. /\ v \in Nat /\ v \div TABLE \in Slots /\ v % TABLE \in Cells
        /\ IsKernelPage(v)
    BY KernelPages DEF PagingInv, BootInv
  <2>2. KTable(v \div TABLE) \in DOMAIN tables
    BY <2>1, KernelEntry DEF PagingInv
  <2> QED BY <1>1, <2>1, <2>2 DEF IsKernelPage, FrameOf, FrameIn, EntryIn
<1>3. TablesGrow
  <2>1. NonzeroKept(tables')
    BY DEF Granted, NonzeroKept
  <2>2. EntryIn(tables', 0) = EntryIn(tables, 0)
    <3>1. 0 \div TABLE \in Slots /\ 0 % TABLE \in Cells /\ IsKernelPage(0)
      BY PageZero DEF Booting
    <3>2. KTable(0 \div TABLE) \in DOMAIN tables
      BY <3>1, KernelEntry DEF PagingInv
    <3>3. EntryIn(tables', 0) = EntryIn(k.tables, 0)
      BY <3>2 DEF EntryIn
    <3> QED BY <3>3 DEF Granted
  <2> QED BY <2>1, <2>2 DEF TablesGrow
<1>4. /\ k.end \in Nat /\ kheap_end <= k.end /\ KHEAP_START + k.end <= KHEAP_END
      /\ \A v \in KHEAP_START .. KHEAP_START + k.end - 1 : FrameIn(k.tables, v) # 0
      /\ k.page \in KHEAP_START .. KHEAP_START + k.end - 1
  BY DEF Granted
<1>5. \A v \in KHEAP_START .. KHEAP_START + k.end - 1 : v \in HeapPages
  <2>1. \A v \in KHEAP_START .. KHEAP_START + k.end - 1 : v \in KHEAP_START .. KHEAP_END - 1
    BY <1>4, Layout
  <2> QED BY <2>1, KernelPages
<1>6. HeapGrows
  <2>1. HEAP_MIN <= kheap_end /\ kheap_end \in Nat
    BY DEF KernelInv, BackedInv, PagingInv, KHeapOK
  <2>2. HEAP_MIN <= kheap_end'
    BY <1>4, <2>1, Layout
  <2>3. \A v \in KHEAP_START .. KHEAP_START + k.end - 1 : FrameOf(v)' # 0
    BY <1>2, <1>4, <1>5
  <2> QED BY <1>4, <2>2, <2>3 DEF HeapGrows, HeapBacked
<1>7. OwnKept(t)
  BY DEF Granted, OthersKept, OwnKept
<1>8. Solid(k.page)' /\ FrameOf(k.page)' = Physical(k.tables, k.page)
  <2>1. PICK v : v = k.page
    OBVIOUS
  <2>2. v \in HeapPages /\ FrameIn(k.tables, v) # 0
    BY <1>4, <1>5, <2>1
  <2>3. IsKernelPage(v)' /\ FrameOf(v)' = FrameIn(k.tables, v)
    BY <1>2, <2>2
  <2> QED BY <2>1, <2>2, <2>3 DEF Solid, Physical
<1> QED BY <1>3, <1>6, <1>7, <1>8 DEF RunStep

(* What the heap has given out is used by one object, table or directory.  *)
LEMMA FreshGranted ==
    ASSUME FreshInv, phase' \in {"clone", "run"}, NEW n \in Nat \ {0}, NEW k, Granted(k, n),
           kheap_used' = k.used, objects' = objects,
           Ids' \subseteq Ids \cup {k.page}
    PROVE  FreshInv'
<1> DEFINE new == k.page - KHEAP_START .. k.page - KHEAP_START + n - 1
<1>1. /\ k.used = kheap_used \cup new
      /\ \A p \in new : p \notin kheap_used
      /\ k.page \in Nat /\ KHEAP_START \in Nat /\ k.page - KHEAP_START \in new
  BY Layout DEF Granted
<1> HIDE DEF new
<1>2. \A x \in Ids' : x \in Nat /\ (x < KHEAP_START \/ x - KHEAP_START \in kheap_used')
  BY <1>1 DEF FreshInv
<1>3. ASSUME NEW o \in objects'
      PROVE  /\ o.at \in Nat /\ o.size \in Nat \ {0} /\ RangeOf(o) \subseteq kheap_used'
             /\ \A x \in Ids' : x - KHEAP_START \notin RangeOf(o)
  <2>1. RangeOf(o) \subseteq kheap_used
    BY DEF FreshInv
  <2> QED BY <1>1, <2>1 DEF FreshInv
<1> QED BY <1>2, <1>3 DEF FreshInv, RangeOf

LEMMA FreshObject ==
    ASSUME FreshInv, phase' \in {"clone", "run"}, NEW n \in Nat \ {0}, NEW k, Granted(k, n),
           kheap_used' = k.used, Ids' = Ids,
           objects' = objects \cup {[at |-> k.page - KHEAP_START, size |-> n]}
    PROVE  FreshInv'
<1> DEFINE new == k.page - KHEAP_START .. k.page - KHEAP_START + n - 1
           q   == [at |-> k.page - KHEAP_START, size |-> n]
<1>1. /\ k.used = kheap_used \cup new
      /\ \A p \in new : p \notin kheap_used
      /\ k.page \in Nat /\ KHEAP_START \in Nat /\ k.page - KHEAP_START \in Nat
      /\ \A p \in new : p >= 0
  BY Layout DEF Granted
<1>2. RangeOf(q) = new /\ q.at = k.page - KHEAP_START /\ q.size = n
  BY DEF RangeOf
<1> HIDE DEF new, q
<1>3. \A x \in Ids : x \in Nat /\ x - KHEAP_START \notin new
  <2> SUFFICES ASSUME NEW x \in Ids, x - KHEAP_START \in new PROVE FALSE
    BY DEF FreshInv
  <2>1. x \in Nat /\ ~(x < KHEAP_START)
    BY <1>1 DEF FreshInv
  <2>2. x - KHEAP_START \in kheap_used
    BY <2>1 DEF FreshInv
  <2> QED BY <1>1, <2>2
<1>4. \A o \in objects : RangeOf(o) \subseteq kheap_used
  BY DEF FreshInv
<1>5. \A x \in Ids' : x \in Nat /\ (x < KHEAP_START \/ x - KHEAP_START \in kheap_used')
  BY <1>1 DEF FreshInv
<1>6. ASSUME NEW o \in objects'
      PROVE  /\ o.at \in Nat /\ o.size \in Nat \ {0} /\ RangeOf(o) \subseteq kheap_used'
             /\ \A x \in Ids' : x - KHEAP_START \notin RangeOf(o)
  <2>1. CASE o = q
    BY <1>1, <1>2, <1>3, <2>1
  <2>2. CASE o # q
    <3>1. o \in objects
      BY <2>2 DEF q
    <3> QED BY <1>1, <1>4, <3>1 DEF FreshInv
  <2> QED BY <2>1, <2>2
<1>7. \A o, r \in objects' : o # r => RangeOf(o) \cap RangeOf(r) = {}
  <2>1. \A o \in objects : RangeOf(o) \cap RangeOf(q) = {}
    BY <1>1, <1>2, <1>4
  <2>2. \A o \in objects' : o = q \/ o \in objects
    BY DEF q
  <2> QED BY <2>1, <2>2 DEF FreshInv
<1> QED BY <1>5, <1>6, <1>7 DEF FreshInv, RangeOf

LEMMA FreshFreed ==
    ASSUME FreshInv, phase' \in {"clone", "run"}, NEW o \in objects,
           kheap_used' = kheap_used \ RangeOf(o), objects' = objects \ {o}, Ids' = Ids
    PROVE  FreshInv'
<1>1. \A x \in Ids : x - KHEAP_START \notin RangeOf(o)
  BY DEF FreshInv
<1>2. \A x \in Ids' : x \in Nat /\ (x < KHEAP_START \/ x - KHEAP_START \in kheap_used')
  BY <1>1 DEF FreshInv
<1>3. \A q \in objects' : RangeOf(q) \subseteq kheap_used'
  BY DEF FreshInv
<1> QED BY <1>2, <1>3 DEF FreshInv, RangeOf

-----------------------------------------------------------------------------
(* The steps of AllocateRange and of a task that writes.                   *)

LEMMA RangeStartSafe ==
    ASSUME SafeInv, NEW t \in Task, NEW from \in UserPages, NEW to \in UserPages, from <= to,
           RangeStart(t, from, to)
    PROVE  SafeInv' /\ ViewStays
<1>1. /\ Running(t) /\ phase = "run"
      /\ job' = [job EXCEPT ![t] = [op |-> "range", i |-> from, end |-> to, index |-> None]]
      /\ UNCHANGED <<phase, next_page, base_address, frames, tables, dirs, kheap_end, kheap_used,
                     objects, directory, content, view>>
  BY DEF RangeStart, boot, kheap
<1>2. PagingInv /\ KernelInv /\ FreshInv /\ SlotsInv /\ WalkInv
  BY <1>1 DEF SafeInv, RunInv
<1>3. PagingInv'
  BY <1>2, RangeStartStep
<1>4. SlotsInv' /\ DirsGrow
  BY <1>1, <1>2, SlotsSame DEF PagingInv
<1>5. RunStep /\ OwnKept(t) /\ FreshInv'
  BY <1>1, <1>2, <1>4, StillStep
<1>6. WalkInv'
  BY <1>1, <1>2, <1>5, WalkKept
<1>7. /\ \A u \in Task \ {t} : job'[u] = job[u]
      /\ job'[t] = [op |-> "range", i |-> from, end |-> to, index |-> None]
  BY <1>1, <1>2 DEF PagingInv, JobsInv
<1>8. ~Pending(t)' /\ job'[t].op # "clone"
  BY <1>7 DEF Pending
<1> QED BY <1>1, <1>3, <1>4, <1>5, <1>6, <1>7, <1>8, SafeTurn

LEMMA WriteSafe ==
    ASSUME SafeInv, NEW t \in Task, NEW v \in UserPages, NEW x \in Value, Write(t, v, x)
    PROVE  SafeInv' /\ ViewStays
<1>1. /\ Running(t) /\ job[t] = Idle /\ <<t, v>> \in DOMAIN view
      /\ view' = [view EXCEPT ![<<t, v>>] = x]
      /\ UNCHANGED <<phase, next_page, base_address, frames, tables, dirs, kheap_end, kheap_used,
                     objects, directory, job>>
  BY DEF Write, boot, kheap
<1>2. PagingInv /\ KernelInv /\ FreshInv /\ SlotsInv /\ WalkInv /\ phase \in {"clone", "run"}
  BY <1>1 DEF SafeInv, RunInv, Running
<1>3. PagingInv'
  BY <1>2, WriteStep
<1>4. SlotsInv' /\ DirsGrow
  BY <1>1, <1>2, SlotsSame DEF PagingInv
<1>5. RunStep /\ OwnKept(t) /\ FreshInv'
  BY <1>1, <1>2, <1>4, StillStep
<1>6. WalkInv'
  BY <1>1, <1>2, <1>5, WalkKept
<1>7. DOMAIN view' = DOMAIN view
  BY <1>1
<1>8. ~Pending(t)' /\ job'[t].op # "clone"
  BY <1>1 DEF Pending, Idle
<1> QED BY <1>1, <1>3, <1>4, <1>5, <1>6, <1>7, <1>8, SafeTurn

LEMMA PanicSafe ==
    ASSUME SafeInv,
           UNCHANGED <<boot, frames, tables, dirs, kheap, directory, job, content, view>>
    PROVE  SafeInv' /\ ViewStays
<1>1. UNCHANGED <<phase, next_page, base_address, frames, tables, dirs, kheap_end, kheap_used,
                  objects, directory, job, content, view>>
  BY DEF boot, kheap
<1>2. PagingInv'
  BY PagingSame DEF SafeInv
<1>3. KernelInv' /\ FreshInv'
  <2>1. /\ \A i : KTable(i)' = KTable(i)
        /\ \A v : /\ IsKernelPage(v)' <=> IsKernelPage(v)
                  /\ EntryIn(tables, v)' = EntryIn(tables, v)
                  /\ FrameOf(v)' = FrameOf(v)
        /\ KSlots' = KSlots
    BY <1>1, KernelSame
  <2>2. BootSlots' = BootSlots /\ (Booting' <=> Booting) /\ Ids' = Ids
    BY <1>1 DEF BootSlots, Booting, Ids
  <2>3. IdentityInv'
    BY <1>1, <2>1, <2>2 DEF SafeInv, KernelInv, IdentityInv
  <2>4. BootTablesInv'
    BY <1>1, <2>1, <2>2 DEF SafeInv, KernelInv, BootTablesInv
  <2>5. BackedInv'
    BY <1>1, <2>1 DEF SafeInv, KernelInv, BackedInv, HeapBacked
  <2>6. FreshInv'
    BY <1>1, <2>2 DEF SafeInv, FreshInv, RangeOf
  <2> QED BY <2>3, <2>4, <2>5, <2>6 DEF KernelInv
<1>4. RunInv'
  <2>1. SlotsInv => SlotsInv'
    BY <1>1 DEF SlotsInv, KTable
  <2>2. SpacesInv => SpacesInv'
    BY <1>1 DEF SpacesInv, Known, Sharing, CloneSpace, TablesOf, KTable
  <2>3. WalkInv => WalkInv'
    <3>1. ASSUME NEW v PROVE Solid(v)' <=> Solid(v)
      BY <1>1, KernelSame DEF Solid
    <3>2. \A v : FrameOf(v)' = FrameOf(v)
      BY <1>1, KernelSame
    <3>3. dirs' = dirs
      BY <1>1
    <3> QED BY <3>1, <3>2, <3>3, WalkSame
  <2>4. ASSUME MappedInv PROVE MappedInv'
    <3>1. \A p \in DOMAIN view : Mapped(p[1], p[2]) => Mapped(p[1], p[2])'
      BY <1>1, TaskSame DEF Mapped
    <3>2. ASSUME NEW t \in Task PROVE Pending(t)' => Pending(t) /\ (PendingOf(t) => PendingOf(t)')
      <4>1. job' = job /\ tables' = tables /\ TablesOf(t)' = TablesOf(t)
        BY <1>1, TaskSame
      <4>2. PageOf(t)' = PageOf(t)
        BY <4>1 DEF PageOf
      <4> QED BY <4>1, <4>2 DEF Pending, PendingOf
    <3>3. ASSUME NEW t \in Task, ClonedOf(t) PROVE ClonedOf(t)'
      <4>1. Cloned(t)' = Cloned(t)
        BY <1>1 DEF Cloned, TablesOf, KTable
      <4>2. \A i : Orig(t, i)' = Orig(t, i) /\ Copy(t, i)' = Copy(t, i)
        BY <1>1 DEF Orig, Copy, TablesOf
      <4> QED BY <1>1, <3>3, <4>1, <4>2 DEF ClonedOf
    <3> QED BY <1>1, <2>4, <3>1, <3>2, <3>3 DEF MappedInv
  <2> QED BY <1>1, <2>1, <2>2, <2>3, <2>4 DEF SafeInv, RunInv
<1>5. ViewStays
  BY <1>1, TaskSame DEF ViewStays
<1> QED BY <1>2, <1>3, <1>4, <1>5 DEF SafeInv

LEMMA WalkAdded ==
    ASSUME PagingInv, WalkInv, RunStep, NEW d \in DOMAIN dirs \ {Kernel}, NEW i \in Slots,
           NEW a, NEW b \in Nat, dirs' = TableSet(dirs, d, i, a, b), Solid(a)', FrameOf(a)' = b
    PROVE  WalkInv'
<1>1. /\ DOMAIN dirs' = DOMAIN dirs
      /\ dirs'[d].tables[i] = a /\ dirs'[d].physical[i] = b
      /\ \A e \in DOMAIN dirs, k \in Slots : ~(e = d /\ k = i) =>
            dirs'[e].tables[k] = dirs[e].tables[k] /\ dirs'[e].physical[k] = dirs[e].physical[k]
  BY SlotSet DEF PagingInv
<1>2. Solid(dirs[d].tables[i])'
  BY <1>1 DEF Solid, IsKernelPage, FrameOf, FrameIn, EntryIn
<1>3. FrameOf(dirs[d].tables[i])' = b
  BY <1>1 DEF FrameOf, FrameIn, EntryIn
<1>4. ASSUME NEW e \in DOMAIN dirs', NEW k \in Slots, dirs'[e].tables[k] # 0
      PROVE  \/ /\ e \in DOMAIN dirs /\ dirs'[e].tables[k] = dirs[e].tables[k]
                /\ dirs'[e].physical[k] = dirs[e].physical[k]
             \/ /\ Solid(dirs[e].tables[k])'
                /\ dirs'[e].physical[k] = FrameOf(dirs[e].tables[k])'
  <2>1. CASE e = d /\ k = i
    BY <1>1, <1>2, <1>3, <2>1
  <2>2. CASE ~(e = d /\ k = i)
    BY <1>1, <2>2
  <2> QED BY <2>1, <2>2
<1> QED BY <1>4, WalkKept

LEMMA RangeTableSafe ==
    ASSUME SafeInv, NEW t \in Task, RangeTable(t)
    PROVE  SafeInv' /\ ViewStays
<1> DEFINE i == job[t].i \div TABLE
<1>1. /\ Running(t) /\ job[t].op = "range" /\ job[t].index = None
      /\ TablesOf(t)[i] = 0
  BY DEF RangeTable
<1>2. PICK k \in Allocated(SizeOfTable) :
        IF ~k.ok THEN Panic
        ELSE /\ tables' = Extended(k.tables, k.page, NewTable)
             /\ frames' = k.frames
             /\ kheap_end' = k.end /\ kheap_used' = k.used
             /\ dirs' = TableSet(dirs, directory[t], i, k.page, Physical(k.tables, k.page))
             /\ UNCHANGED <<boot, objects, directory, job, content, view, status>>
  BY DEF RangeTable, TableSet
<1>3. CASE ~k.ok
  <2>1. Panic
    BY <1>2, <1>3
  <2> QED BY <2>1, PanicSafe DEF Panic
<1>4. CASE k.ok
  <2>1. /\ tables' = Extended(k.tables, k.page, NewTable)
        /\ frames' = k.frames /\ kheap_end' = k.end /\ kheap_used' = k.used
        /\ dirs' = TableSet(dirs, directory[t], i, k.page, Physical(k.tables, k.page))
        /\ UNCHANGED <<phase, next_page, base_address, objects, directory, job, content, view>>
    BY <1>2, <1>4 DEF boot, TableSet
  <2>2. PagingInv /\ KernelInv /\ FreshInv
    BY DEF SafeInv
  <2>3. phase = "run" /\ i \in Slots /\ directory[t] \in DOMAIN dirs \ {Kernel}
    BY <1>1, <2>2, RangePlace, RunningDirectory
  <2>4. SlotsInv /\ WalkInv
    BY <2>3 DEF SafeInv, RunInv
  <2>5. PagingInv'
    BY <2>2, RangeTableStep
  <2>6. Granted(k, SizeOfTable) /\ SizeOfTable \in Nat \ {0}
    BY <1>4, <2>2, <2>3, AllocatedKept, SizesOfObjects
  <2>7. /\ frames \subseteq k.frames /\ k.page \in KHEAP_START .. KHEAP_END - 1
        /\ Typed(k.tables, k.frames) /\ DOMAIN k.tables = DOMAIN tables
    BY <1>4, <2>2, AllocatedSound, SizesOfObjects DEF PagingInv
  <2>8. k.page \notin Ids /\ k.page # 0
    BY <2>6, <2>7, KernelType DEF Granted
  <2>9. Physical(k.tables, k.page) \in Nat
    BY <2>2, <2>3, <2>7, PhysicalType
  <2> HIDE DEF i
  <2>10. SlotsInv' /\ DirsGrow /\ DOMAIN dirs' = DOMAIN dirs
    <3>1. dirs[directory[t]].tables[i] = 0
      BY <1>1 DEF TablesOf
    <3>2. k.page \notin DOMAIN tables
      BY <2>8 DEF Ids
    <3>3. SlotsInv' /\ DirsGrow
      BY <2>1, <2>2, <2>3, <2>4, <2>8, <2>9, <3>1, <3>2, SlotsPrivate DEF PagingInv
    <3> QED BY <2>1, <2>2, <2>3, <2>9, <3>3, SlotSet DEF PagingInv
  <2>11. /\ DOMAIN tables' = DOMAIN tables \cup {k.page}
         /\ \A id \in DOMAIN tables : tables'[id] = k.tables[id]
    <3>1. k.page \notin DOMAIN tables
      BY <2>8 DEF Ids
    <3> QED BY <2>1, <2>7, <3>1 DEF Extended
  <2>12. /\ RunStep /\ OwnKept(t)
         /\ Solid(k.page)' /\ FrameOf(k.page)' = Physical(k.tables, k.page)
    BY <2>1, <2>2, <2>3, <2>6, <2>7, <2>10, <2>11, GrantedStep
  <2>13. FreshInv'
    BY <2>1, <2>2, <2>3, <2>6, <2>10, <2>11, FreshGranted DEF Ids
  <2>14. WalkInv'
    BY <2>1, <2>2, <2>3, <2>4, <2>9, <2>12, WalkAdded
  <2>15. ~Pending(t)' /\ job'[t].op # "clone" /\ \A u \in Task \ {t} : job'[u] = job[u]
    BY <1>1, <2>1 DEF Pending
  <2> QED BY <1>1, <2>1, <2>5, <2>10, <2>12, <2>13, <2>14, <2>15, SafeTurn
<1> QED BY <1>3, <1>4

LEMMA RangeNextSafe ==
    ASSUME SafeInv, NEW t \in Task, RangeNext(t)
    PROVE  SafeInv' /\ ViewStays
<1>1. /\ Running(t) /\ job[t].op = "range" /\ job[t].index = None
      /\ TablesOf(t)[job[t].i \div TABLE] # 0
  BY DEF RangeNext
<1>2. CASE ~Skips(t) /\ next(frames) = None
  BY <1>2, PanicSafe DEF RangeNext, Panic
<1>3. CASE ~(~Skips(t) /\ next(frames) = None)
  <2>1. /\ job' = [job EXCEPT ![t] = IF Skips(t) THEN Advanced(job[t])
                                     ELSE [job[t] EXCEPT !.index = next(frames)]]
        /\ UNCHANGED <<phase, next_page, base_address, frames, tables, dirs, kheap_end,
                       kheap_used, objects, directory, content, view>>
    BY <1>3 DEF RangeNext, boot, kheap
  <2>2. PagingInv /\ KernelInv /\ FreshInv
    BY DEF SafeInv
  <2>3. phase = "run" /\ InRange(t)
    BY <1>1, <2>2, RangePlace
  <2>4. SlotsInv /\ WalkInv
    BY <2>3 DEF SafeInv, RunInv
  <2>5. PagingInv'
    BY <2>2, RangeNextStep
  <2>6. SlotsInv' /\ DirsGrow
    BY <2>1, <2>2, <2>4, SlotsSame DEF PagingInv
  <2>7. RunStep /\ OwnKept(t) /\ FreshInv'
    BY <2>1, <2>2, <2>3, <2>6, StillStep
  <2>8. WalkInv'
    BY <2>1, <2>2, <2>4, <2>7, WalkKept
  <2>9. /\ \A u \in Task \ {t} : job'[u] = job[u]
        /\ job'[t] = IF Skips(t) THEN Advanced(job[t]) ELSE [job[t] EXCEPT !.index = next(frames)]
    BY <2>1, <2>2 DEF PagingInv, JobsInv
  <2>10. (Pending(t)' => PendingOf(t)') /\ job'[t].op # "clone"
    <3>1. CASE Skips(t)
      <4>1. job'[t].op # "clone" /\ (job'[t].op = "range" => job'[t].index = None)
        <5>1. job'[t] = Advanced(job[t])
          BY <2>9, <3>1
        <5>2. \/ job'[t] = Idle
              \/ job'[t] = [op |-> "range", i |-> job[t].i + 1, end |-> job[t].end,
                            index |-> None]
          BY <2>2, <2>3, <5>1, AdvancedType
        <5> QED BY <5>2 DEF Idle
      <4> QED BY <4>1 DEF Pending
    <3>2. CASE ~Skips(t)
      <4>1. job[t] = [op |-> "range", i |-> job[t].i, end |-> job[t].end, index |-> job[t].index]
        BY <2>3 DEF InRange
      <4>2. job'[t] = [op |-> "range", i |-> job[t].i, end |-> job[t].end, index |-> next(frames)]
        BY <2>9, <3>2, <4>1
      <4>3. job'[t].i = job[t].i /\ job'[t].index = next(frames) /\ job'[t].op = "range"
        BY <4>2
      <4>4. next(frames) # 0
        <5>1. Unset(frames) # {} /\ next(frames) = Min(Unset(frames))
          BY <1>3, <3>2 DEF next
        <5>2. Unset(frames) \in SUBSET Nat /\ IsFiniteSet(Unset(frames))
          BY FramesType, FS_Subset DEF Unset
        <5>3. Min(Unset(frames)) \in Unset(frames)
          BY <5>1, <5>2, Extremes
        <5>4. 0 \in frames
          BY <2>2, <2>3, PageZero DEF Booting
        <5> QED BY <5>1, <5>3, <5>4 DEF Unset
      <4>5. PageOf(t).frame = 0
        BY <3>2 DEF Skips
      <4>6. PageOf(t)' = PageOf(t) /\ TablesOf(t)' = TablesOf(t)
        BY <2>1, <4>3 DEF PageOf, TablesOf
      <4> QED BY <1>1, <4>3, <4>4, <4>5, <4>6 DEF PendingOf
    <3> QED BY <3>1, <3>2
  <2> QED BY <1>1, <2>1, <2>5, <2>6, <2>7, <2>8, <2>9, <2>10, SafeTurn
<1> QED BY <1>2, <1>3

(* A cell of the task's own table that has no frame gets one.              *)
LEMMA RangeSetTables ==
    ASSUME SafeInv, NEW t \in Task, RangeSet(t)
    PROVE  \E v \in UserPages, a \in DOMAIN tables, j \in Cells, f \in Frames \ {0} :
              /\ phase = "run" /\ t \in Known /\ Pending(t)
              /\ v = job[t].i /\ f = job[t].index
              /\ a = TablesOf(t)[v \div TABLE] /\ j = v % TABLE /\ v \div TABLE \in Slots
              /\ tables[a][j].frame = 0
              /\ \A k \in Slots : KTable(k) # a
              /\ DOMAIN tables' = DOMAIN tables /\ tables'[a][j] = Entry(f, TRUE, TRUE)
              /\ \A b \in DOMAIN tables, k \in Cells : ~(b = a /\ k = j) =>
                    tables'[b][k] = tables[b][k]
<1> DEFINE Found(v, a, j, f) ==
             /\ phase = "run" /\ t \in Known /\ Pending(t)
             /\ v = job[t].i /\ f = job[t].index
             /\ a = TablesOf(t)[v \div TABLE] /\ j = v % TABLE /\ v \div TABLE \in Slots
             /\ tables[a][j].frame = 0
             /\ \A k \in Slots : KTable(k) # a
             /\ DOMAIN tables' = DOMAIN tables /\ tables'[a][j] = Entry(f, TRUE, TRUE)
             /\ \A b \in DOMAIN tables, k \in Cells : ~(b = a /\ k = j) =>
                   tables'[b][k] = tables[b][k]
<1> SUFFICES \E v \in UserPages, a \in DOMAIN tables, j \in Cells, f \in Frames \ {0} :
                Found(v, a, j, f)
  OBVIOUS
<1>1. /\ Running(t) /\ job[t].op = "range" /\ job[t].index # None
      /\ tables' = [tables EXCEPT ![TablesOf(t)[job[t].i \div TABLE]][job[t].i % TABLE] =
                                  Entry(job[t].index, TRUE, TRUE)]
  BY DEF RangeSet
<1>2. PagingInv /\ KernelInv
  BY DEF SafeInv
<1>3. InRange(t) /\ phase = "run"
  BY <1>1, <1>2, RangePlace
<1>4. SlotsInv /\ SpacesInv /\ PendingOf(t) /\ Pending(t) /\ t \in Known
  BY <1>1, <1>3 DEF SafeInv, RunInv, MappedInv, Pending, Known, Running
<1>5. PICK v \in UserPages : v = job[t].i
  BY <1>3 DEF InRange
<1>6. PICK f \in Frames \ {0} : f = job[t].index
  BY <1>1, <1>3, <1>4 DEF InRange, PendingOf
<1>7. TablesOf(t)[v \div TABLE] # 0
  BY <1>4, <1>5 DEF PendingOf
<1>8. PICK a \in DOMAIN tables, j \in Cells :
         /\ a = TablesOf(t)[v \div TABLE] /\ j = v % TABLE /\ v \div TABLE \in Slots
         /\ \A k \in Slots : KTable(k) # a
  BY <1>2, <1>4, <1>7, UserTable
<1>9. tables[a][j].frame = 0
  BY <1>4, <1>5, <1>8 DEF PendingOf, PageOf
<1>10. tables' = [tables EXCEPT ![a][j] = Entry(f, TRUE, TRUE)]
  BY <1>1, <1>5, <1>6, <1>8
<1>11. /\ DOMAIN tables' = DOMAIN tables /\ tables'[a][j] = Entry(f, TRUE, TRUE)
       /\ \A b \in DOMAIN tables, k \in Cells : ~(b = a /\ k = j) =>
             tables'[b][k] = tables[b][k]
  <2>1. \A b \in DOMAIN tables : DOMAIN tables[b] = Cells
    BY <1>2 DEF PagingInv, Typed
  <2> QED BY <1>10, <2>1
<1>12. Found(v, a, j, f)
  BY <1>3, <1>4, <1>5, <1>6, <1>8, <1>9, <1>11
<1> HIDE DEF Found
<1> QED BY <1>12

LEMMA RangeSetSafe ==
    ASSUME SafeInv, NEW t \in Task, RangeSet(t)
    PROVE  SafeInv' /\ ViewStays
<1>1. /\ Running(t) /\ frames \subseteq frames'
      /\ view' = Extended(view, <<t, job[t].i>>, content[job[t].index])
      /\ job' = [job EXCEPT ![t] = Advanced(job[t])]
      /\ UNCHANGED <<phase, next_page, base_address, dirs, kheap_end, kheap_used, objects,
                     directory, content>>
  BY DEF RangeSet, Marked, boot, kheap
<1>2. PICK v \in UserPages, a \in DOMAIN tables, j \in Cells, f \in Frames \ {0} :
         /\ phase = "run" /\ t \in Known /\ Pending(t)
         /\ v = job[t].i /\ f = job[t].index
         /\ a = TablesOf(t)[v \div TABLE] /\ j = v % TABLE /\ v \div TABLE \in Slots
         /\ tables[a][j].frame = 0
         /\ \A k \in Slots : KTable(k) # a
         /\ DOMAIN tables' = DOMAIN tables /\ tables'[a][j] = Entry(f, TRUE, TRUE)
         /\ \A b \in DOMAIN tables, k \in Cells : ~(b = a /\ k = j) =>
               tables'[b][k] = tables[b][k]
  BY RangeSetTables, Zenon
<1>3. PagingInv /\ KernelInv /\ FreshInv /\ SlotsInv /\ WalkInv
  BY <1>2 DEF SafeInv, RunInv
<1>4. PagingInv'
  BY <1>3, RangeSetStep
<1>5. SlotsInv' /\ DirsGrow
  BY <1>1, <1>3, SlotsSame DEF PagingInv
<1>6. ASSUME NEW v2 \in HeapPages \cup {0}
      PROVE  EntryIn(tables', v2) = EntryIn(tables, v2) /\ FrameOf(v2)' = FrameOf(v2)
  <2>1. v2 \in Nat /\ v2 \div TABLE \in Slots /\ v2 % TABLE \in Cells /\ IsKernelPage(v2)
    BY <1>2, <1>3, KernelPages, PageZero DEF PagingInv, BootInv, Booting
  <2>2. KTable(v2 \div TABLE) \in DOMAIN tables /\ KTable(v2 \div TABLE) # a
    BY <1>2, <1>3, <2>1, KernelEntry DEF PagingInv
  <2>3. tables'[KTable(v2 \div TABLE)][v2 % TABLE] = tables[KTable(v2 \div TABLE)][v2 % TABLE]
    BY <1>2, <2>1, <2>2
  <2>4. KTable(v2 \div TABLE)' = KTable(v2 \div TABLE)
    BY <1>1 DEF KTable
  <2> QED BY <2>3, <2>4 DEF EntryIn, FrameOf, FrameIn
<1>7. TablesGrow
  BY <1>1, <1>2, <1>6 DEF TablesGrow, NonzeroKept
<1>8. HeapGrows
  <2>1. /\ HeapBacked(kheap_end) /\ KHEAP_START + kheap_end <= KHEAP_END /\ HEAP_MIN <= kheap_end
        /\ kheap_end \in Nat
    BY <1>2, <1>3 DEF KernelInv, BackedInv, PagingInv, KHeapOK
  <2>2. ASSUME NEW w \in KHEAP_START .. KHEAP_START + kheap_end - 1
        PROVE  FrameOf(w)' # 0
    <3>1. w \in KHEAP_START .. KHEAP_END - 1
      BY <2>1, Layout
    <3>2. w \in HeapPages
      BY <3>1, KernelPages
    <3>3. FrameOf(w) # 0
      BY <2>1 DEF HeapBacked
    <3> QED BY <1>6, <3>2, <3>3
  <2> QED BY <1>1, <2>1, <2>2 DEF HeapGrows, HeapBacked
<1>9. RunStep
  BY <1>1, <1>2, <1>5, <1>7, <1>8 DEF RunStep
<1>10. OwnKept(t)
  BY <1>2 DEF OwnKept
<1>11. WalkInv'
  BY <1>1, <1>3, <1>9, WalkKept
<1>12. FreshInv'
  BY <1>1, <1>2, <1>3 DEF FreshInv, Ids, RangeOf
<1>13. \A p \in DOMAIN view' : p \in DOMAIN view \/ Mapped(p[1], p[2])'
  <2>1. \A p \in DOMAIN view' : p \in DOMAIN view \/ p = <<t, v>>
    BY <1>1, <1>2 DEF Extended
  <2>2. Mapped(t, v)'
    <3>1. TablesOf(t)' = TablesOf(t)
      BY <1>1 DEF TablesOf
    <3>2. EntryOf(t, v)' = Entry(f, TRUE, TRUE)
      BY <1>2, <3>1 DEF EntryOf
    <3>3. a # 0
      BY <1>3 DEF PagingInv, Typed
    <3> QED BY <1>2, <3>1, <3>2, <3>3 DEF Mapped, Entry
  <2> QED BY <2>1, <2>2
<1>14. /\ \A u \in Task \ {t} : job'[u] = job[u]
       /\ ~Pending(t)' /\ job'[t].op # "clone"
  <2>1. /\ \A u \in Task \ {t} : job'[u] = job[u]
        /\ job'[t] = Advanced(job[t])
    BY <1>1, <1>3 DEF PagingInv, JobsInv
  <2>2. InRange(t)
    BY <1>2, <1>3, RangePlace DEF Pending
  <2>3. \/ job'[t] = Idle
        \/ job'[t] = [op |-> "range", i |-> job[t].i + 1, end |-> job[t].end, index |-> None]
    BY <1>3, <2>1, <2>2, AdvancedType
  <2> QED BY <2>1, <2>3 DEF Idle, Pending
<1> QED BY <1>1, <1>4, <1>5, <1>9, <1>10, <1>11, <1>12, <1>13, <1>14, SafeTurn

-----------------------------------------------------------------------------
(* The steps in the kernel heap.                                           *)

LEMMA HeapAllocSafe ==
    ASSUME SafeInv, NEW t \in Task, NEW n \in Objects, HeapAlloc(t, n)
    PROVE  SafeInv' /\ ViewStays
<1>1. Running(t) /\ phase = "run" /\ job[t] = Idle
  BY DEF HeapAlloc
<1>2. PICK k \in Allocated(n) :
         IF ~k.ok THEN Panic
         ELSE /\ tables' = k.tables /\ frames' = k.frames
              /\ kheap_end' = k.end /\ kheap_used' = k.used
              /\ objects' = objects \cup {[at |-> k.page - KHEAP_START, size |-> n]}
              /\ UNCHANGED <<boot, dirs, directory, job, content, view, status>>
  BY DEF HeapAlloc
<1>3. CASE ~k.ok
  <2>1. Panic
    BY <1>2, <1>3
  <2> QED BY <2>1, PanicSafe DEF Panic
<1>4. CASE k.ok
  <2>1. /\ tables' = k.tables /\ frames' = k.frames
        /\ kheap_end' = k.end /\ kheap_used' = k.used
        /\ objects' = objects \cup {[at |-> k.page - KHEAP_START, size |-> n]}
        /\ UNCHANGED <<phase, next_page, base_address, dirs, directory, job, content, view>>
    BY <1>2, <1>4 DEF boot
  <2>2. PagingInv /\ KernelInv /\ FreshInv /\ SlotsInv /\ WalkInv
    BY <1>1 DEF SafeInv, RunInv
  <2>3. PagingInv'
    BY <2>2, HeapAllocStep
  <2>4. n \in Nat \ {0}
    BY PagingConstants
  <2>5. Granted(k, n)
    BY <1>1, <1>4, <2>2, <2>4, AllocatedKept
  <2>6. frames \subseteq k.frames /\ DOMAIN k.tables = DOMAIN tables
    BY <1>4, <2>2, <2>4, AllocatedSound DEF PagingInv
  <2>7. SlotsInv' /\ DirsGrow
    BY <2>1, <2>2, SlotsSame DEF PagingInv
  <2>8. RunStep /\ OwnKept(t)
    BY <1>1, <2>1, <2>2, <2>4, <2>5, <2>6, <2>7, GrantedStep
  <2>9. FreshInv'
    BY <1>1, <2>1, <2>2, <2>4, <2>5, <2>6, FreshObject DEF Ids
  <2>10. WalkInv'
    BY <2>1, <2>2, <2>8, WalkKept
  <2>11. ~Pending(t)' /\ job'[t].op # "clone" /\ \A u \in Task \ {t} : job'[u] = job[u]
    BY <1>1, <2>1 DEF Pending, Idle
  <2> QED BY <1>1, <2>1, <2>3, <2>7, <2>8, <2>9, <2>10, <2>11, SafeTurn
<1> QED BY <1>3, <1>4

(* Contract leaves the heap its least size, and not more than it had.      *)
LEMMA ContractedBounds ==
    ASSUME NEW u \in Nat, NEW e \in Nat, u <= e, HEAP_MIN <= e
    PROVE  Contracted(u) \in HEAP_MIN .. e
<1>1. ASSUME NEW a \in Nat, NEW b \in Nat
      PROVE  Max({a, b}) \in {a, b} /\ a <= Max({a, b}) /\ b <= Max({a, b})
  <2>1. IsFiniteSet({a, b})
    <3>1. {a, b} = {b} \cup {a} /\ IsFiniteSet({b})
      BY FS_Singleton
    <3> QED BY <3>1, FS_AddElement
  <2>2. {a, b} \in SUBSET Nat /\ {a, b} # {}
    OBVIOUS
  <2> QED BY <2>1, <2>2, Extremes
<1>2. HEAP_MIN \in Nat /\ 2 <= HEAP_MIN
  BY Layout
<1>3. Max({2, HEAP_MIN}) \in HEAP_MIN .. e
  BY <1>1, <1>2
<1>4. Max({u, HEAP_MIN}) \in HEAP_MIN .. e
  BY <1>1, <1>2
<1> QED BY <1>3, <1>4 DEF Contracted

LEMMA HeapFreeSafe ==
    ASSUME SafeInv, NEW t \in Task, NEW o \in objects, Keeps(o), HeapFree(t, o)
    PROVE  SafeInv' /\ ViewStays
<1> DEFINE used  == kheap_used \ o.at .. o.at + o.size - 1
           ends  == o.at >= InUse(used)
           end   == IF ends THEN Contracted(InUse(used)) ELSE kheap_end
           freed == {v \in KHEAP_START + end + 1 .. KHEAP_START + kheap_end - 1 : FrameOf(v) # 0}
<1>1. /\ Running(t) /\ phase = "run" /\ job[t] = Idle
      /\ frames' = frames \ {FrameOf(v) \div FRAME_SIZE : v \in freed}
      /\ tables' = [id \in DOMAIN tables |->
           [j \in 0 .. TABLE - 1 |->
              IF \E v \in freed : KTable(v \div TABLE) = id /\ v % TABLE = j
              THEN [tables[id][j] EXCEPT !.frame = 0] ELSE tables[id][j]]]
      /\ kheap_end' = end /\ kheap_used' = used /\ objects' = objects \ {o}
      /\ UNCHANGED <<phase, next_page, base_address, dirs, directory, job, content, view>>
  BY Zenon DEF HeapFree, boot
<1>2. PagingInv /\ KernelInv /\ FreshInv /\ SlotsInv /\ WalkInv
  BY <1>1 DEF SafeInv, RunInv
<1>3. PagingInv'
  BY <1>2, HeapFreeStep
<1>4. /\ used \in SUBSET (0 .. kheap_end - 1) /\ kheap_end \in Nat /\ KHEAP_START \in Nat
      /\ HEAP_MIN <= kheap_end /\ KHEAP_START + kheap_end <= KHEAP_END /\ HeapBacked(kheap_end)
      /\ KHEAP_END \in Nat /\ HEAP_MIN \in Nat
  BY <1>1, <1>2, Layout DEF PagingInv, KHeapOK, KernelInv, BackedInv
<1>5. ends => Contracted(InUse(used)) + 1 >= kheap_end
  BY DEF Keeps
<1>6. used = kheap_used \ RangeOf(o)
  BY DEF RangeOf
<1> HIDE DEF used
<1>7. Contracted(InUse(used)) \in HEAP_MIN .. kheap_end
  <2>1. InUse(used) \in 0 .. kheap_end
    BY <1>4, InUseType
  <2> QED BY <1>4, <2>1, ContractedBounds
<1>8. end \in HEAP_MIN .. kheap_end /\ end + 1 >= kheap_end
  BY <1>4, <1>5, <1>7
<1> HIDE DEF end, ends
<1>9. freed = {}
  <2>1. KHEAP_START + end + 1 > KHEAP_START + kheap_end - 1
    BY <1>4, <1>8
  <2>2. \A a, b \in Int : a > b => a .. b = {}
    OBVIOUS
  <2>3. KHEAP_START + end + 1 .. KHEAP_START + kheap_end - 1 = {}
    BY <1>4, <1>8, <2>1, <2>2
  <2> QED BY <2>3
<1> HIDE DEF freed
<1>10. DOMAIN tables' = DOMAIN tables /\ frames' = frames
  BY <1>1, <1>9
<1>11. \A id \in DOMAIN tables : tables'[id] = tables[id]
  <2>1. \A id \in DOMAIN tables : tables'[id] = [j \in Cells |-> tables[id][j]]
    BY <1>1, <1>9 DEF Cells
  <2> QED BY <1>2, <2>1 DEF PagingInv, Typed
<1>12. SlotsInv' /\ DirsGrow
  BY <1>1, <1>2, SlotsSame DEF PagingInv
<1>13. ASSUME NEW v \in HeapPages \cup {0}
       PROVE  EntryIn(tables', v) = EntryIn(tables, v) /\ FrameOf(v)' = FrameOf(v)
  <2>1. v \in Nat /\ v \div TABLE \in Slots /\ v % TABLE \in Cells /\ IsKernelPage(v)
    BY <1>1, <1>2, KernelPages, PageZero DEF PagingInv, BootInv, Booting
  <2>2. KTable(v \div TABLE) \in DOMAIN tables
    BY <1>2, <2>1, KernelEntry DEF PagingInv
  <2>3. tables'[KTable(v \div TABLE)] = tables[KTable(v \div TABLE)]
    BY <1>11, <2>2
  <2>4. KTable(v \div TABLE)' = KTable(v \div TABLE)
    BY <1>1 DEF KTable
  <2> QED BY <2>3, <2>4 DEF EntryIn, FrameOf, FrameIn
<1>14. TablesGrow
  BY <1>10, <1>11, <1>13 DEF TablesGrow, NonzeroKept
<1>15. HeapGrows
  <2>1. ASSUME NEW w \in KHEAP_START .. KHEAP_START + end - 1
        PROVE  FrameOf(w)' # 0
    <3>1. w \in KHEAP_START .. KHEAP_START + kheap_end - 1 /\ w \in KHEAP_START .. KHEAP_END - 1
      BY <1>4, <1>8
    <3>2. w \in HeapPages
      BY <3>1, KernelPages
    <3>3. FrameOf(w) # 0
      BY <1>4, <3>1 DEF HeapBacked
    <3> QED BY <1>13, <3>2, <3>3
  <2>2. HEAP_MIN <= end /\ KHEAP_START + end <= KHEAP_END
    BY <1>4, <1>8
  <2> QED BY <1>1, <2>1, <2>2 DEF HeapGrows, HeapBacked
<1>16. RunStep
  BY <1>1, <1>12, <1>14, <1>15 DEF RunStep
<1>17. OwnKept(t)
  BY <1>11 DEF OwnKept
<1>18. FreshInv'
  <2>1. Ids' = Ids
    BY <1>1, <1>10 DEF Ids
  <2>2. kheap_used' = kheap_used \ RangeOf(o)
    BY <1>1, <1>6
  <2> QED BY <1>1, <1>2, <2>1, <2>2, FreshFreed
<1>19. WalkInv'
  BY <1>1, <1>2, <1>16, WalkKept
<1>20. ~Pending(t)' /\ job'[t].op # "clone" /\ \A u \in Task \ {t} : job'[u] = job[u]
  BY <1>1 DEF Pending, Idle
<1> QED BY <1>1, <1>3, <1>12, <1>16, <1>17, <1>18, <1>19, <1>20, SafeTurn

-----------------------------------------------------------------------------
(* The steps of a clone.                                                   *)

LEMMA CloneDirectorySafe ==
    ASSUME SafeInv, NEW t \in Task, NEW c \in Task, CloneDirectory(t, c)
    PROVE  SafeInv' /\ ViewStays
<1>1. Running(t) /\ job[t] = Idle /\ phase \in {"clone", "run"}
  BY DEF CloneDirectory, Running
<1>2. PICK k \in Allocated(SizeOfDirectory) :
         IF ~k.ok THEN Panic
         ELSE /\ tables' = k.tables /\ frames' = k.frames
              /\ kheap_end' = k.end /\ kheap_used' = k.used
              /\ dirs' = Extended(dirs, k.page, NewDirectory(Physical(k.tables, k.page) + 1))
              /\ job' = [job EXCEPT ![t] = [op |-> "clone", dir |-> k.page, to |-> c, i |-> 0]]
              /\ UNCHANGED <<boot, objects, directory, content, view, status>>
  BY DEF CloneDirectory
<1>3. CASE ~k.ok
  <2>1. Panic
    BY <1>2, <1>3
  <2> QED BY <2>1, PanicSafe DEF Panic
<1>4. CASE k.ok
  <2>1. /\ tables' = k.tables /\ frames' = k.frames
        /\ kheap_end' = k.end /\ kheap_used' = k.used
        /\ dirs' = Extended(dirs, k.page, NewDirectory(Physical(k.tables, k.page) + 1))
        /\ job' = [job EXCEPT ![t] = [op |-> "clone", dir |-> k.page, to |-> c, i |-> 0]]
        /\ UNCHANGED <<phase, next_page, base_address, objects, directory, content, view>>
    BY <1>2, <1>4 DEF boot
  <2>2. PagingInv /\ KernelInv /\ FreshInv /\ SlotsInv /\ WalkInv
    BY <1>1 DEF SafeInv, RunInv
  <2>3. PagingInv'
    BY <2>2, CloneDirectoryStep
  <2>4. Granted(k, SizeOfDirectory) /\ SizeOfDirectory \in Nat \ {0}
    BY <1>1, <1>4, <2>2, AllocatedKept, SizesOfObjects
  <2>5. /\ frames \subseteq k.frames /\ DOMAIN k.tables = DOMAIN tables
        /\ k.page \in KHEAP_START .. KHEAP_END - 1
    BY <1>4, <2>2, AllocatedSound, SizesOfObjects DEF PagingInv
  <2>6. k.page \notin DOMAIN dirs /\ k.page # 0
    BY <2>4, <2>5, KernelType DEF Granted, Ids
  <2>7. /\ SlotsInv' /\ DirsGrow /\ DOMAIN dirs' = DOMAIN dirs \cup {k.page}
        /\ \A i \in Slots : dirs'[k.page].tables[i] = 0
        /\ \A e \in DOMAIN dirs : dirs'[e] = dirs[e]
    BY <2>1, <2>2, <2>6, SlotsNew DEF PagingInv
  <2>8. RunStep /\ OwnKept(t)
    BY <1>1, <2>1, <2>2, <2>4, <2>5, <2>7, GrantedStep
  <2>9. FreshInv'
    BY <1>1, <2>1, <2>2, <2>4, <2>5, <2>7, FreshGranted DEF Ids
  <2>10. WalkInv'
    BY <2>2, <2>7, <2>8, WalkKept
  <2>11. /\ \A u \in Task \ {t} : job'[u] = job[u]
         /\ job'[t] = [op |-> "clone", dir |-> k.page, to |-> c, i |-> 0]
    BY <2>1, <2>2 DEF PagingInv, JobsInv
  <2>12. job'[t].dir = k.page /\ job'[t].i = 0 /\ ~Pending(t)'
    BY <2>11 DEF Pending
  <2>13. CloneSpace(t)'
    <3>1. \A u \in Task : directory'[u] # k.page
      BY <2>1, <2>2, <2>6 DEF PagingInv, JobsInv
    <3>2. \A i \in Slots : ~(i < 0)
      BY Sizes DEF Slots
    <3> QED BY <2>7, <2>12, <3>1, <3>2 DEF CloneSpace
  <2>14. ClonedOf(t)'
    <3>1. Cloned(t)' = {}
      BY <2>12, Sizes DEF Cloned, Slots
    <3> QED BY <3>1 DEF ClonedOf
  <2> QED BY <1>1, <2>1, <2>3, <2>7, <2>8, <2>9, <2>10, <2>11, <2>12, <2>13, <2>14, SafeTurn
<1> QED BY <1>3, <1>4

(* The slots a clone passes over are empty in the kernel's directory too.  *)
LEMMA CloneLeft ==
    ASSUME PagingInv, SpacesInv, NEW t \in Task, Running(t), job[t].op = "clone", Left(t) # {}
    PROVE  /\ Min(Left(t)) \in Slots /\ TablesOf(t)[Min(Left(t))] # 0
           /\ ~(Min(Left(t)) < job[t].i)
           /\ \A k \in Slots : ~(k < job[t].i) /\ k < Min(Left(t)) =>
                 TablesOf(t)[k] = 0 /\ KTable(k) = 0
<1>1. job[t].i \in Nat /\ DIRECTORY \in Nat
  BY CloneJob, Sizes DEF InClone
<1>2. Left(t) \in SUBSET Nat /\ IsFiniteSet(Left(t)) /\ Left(t) \in SUBSET Slots
  <2>1. DIRECTORY - 1 \in Int
    BY <1>1
  <2>2. Slots \in SUBSET Nat /\ IsFiniteSet(Slots)
    BY <2>1, RangeFinite DEF Slots
  <2>3. Left(t) \in SUBSET Slots
    BY <1>1 DEF Left, Slots
  <2> QED BY <2>2, <2>3, FS_Subset
<1>3. PICK i \in Left(t) : i = Min(Left(t)) /\ \A x \in Left(t) : i <= x
  BY <1>2, Extremes
<1>4. i \in Slots /\ i \in Nat /\ TablesOf(t)[i] # 0 /\ ~(i < job[t].i)
  BY <1>1, <1>2, <1>3 DEF Left
<1>5. Sharing(t)
  BY DEF SpacesInv, Known, Running
<1>6. ASSUME NEW k \in Slots, ~(k < job[t].i), k < i
      PROVE  TablesOf(t)[k] = 0 /\ KTable(k) = 0
  <2>1. k \notin Left(t)
    BY <1>1, <1>3, <1>4, <1>6 DEF Slots
  <2>2. k \in job[t].i .. DIRECTORY - 1
    BY <1>1, <1>6 DEF Slots
  <2>3. TablesOf(t)[k] = 0
    BY <2>1, <2>2 DEF Left
  <2> QED BY <1>5, <2>3 DEF Sharing
<1> QED BY <1>3, <1>4, <1>6

(* The next slot of the clone is filled, with a.                           *)
Advancing(t, i, a, b) ==
    /\ Running(t) /\ job[t].op = "clone" /\ Left(t) # {} /\ i = Min(Left(t))
    /\ b \in Nat /\ (KTable(i) # 0 => a = KTable(i))
    /\ dirs' = TableSet(dirs, job[t].dir, i, a, b)
    /\ job' = [job EXCEPT ![t].i = i + 1]
    /\ UNCHANGED directory

HasAdvanced(t, i, a) ==
    /\ CloneSpace(t)' /\ TablesOf(t)' = TablesOf(t)
    /\ \A u \in Task \ {t} : job'[u] = job[u]
    /\ job'[t].op = "clone" /\ job'[t].dir = job[t].dir
    /\ dirs'[job[t].dir].tables[i] = a
    /\ \A k \in Slots : k # i => dirs'[job[t].dir].tables[k] = dirs[job[t].dir].tables[k]
    /\ \A k \in Cloned(t)' : k = i \/ k \in Cloned(t)
    /\ i \in Cloned(t)' => KTable(i) = 0

LEMMA CloneAdvance ==
    ASSUME PagingInv, SpacesInv, NEW t \in Task, NEW i, NEW a, NEW b, Advancing(t, i, a, b)
    PROVE  HasAdvanced(t, i, a)
<1> USE DEF Advancing
<1>1. /\ i \in Slots /\ i \in Nat /\ ~(i < job[t].i) /\ job[t].i \in Nat
      /\ \A k \in Slots : ~(k < job[t].i) /\ k < i => TablesOf(t)[k] = 0 /\ KTable(k) = 0
      /\ InClone(t)
  BY CloneLeft, CloneNext, CloneJob, Sizes DEF InClone, Slots
<1>2. /\ job[t].dir \in DOMAIN dirs \ {Kernel} /\ CloneSpace(t)
      /\ directory[t] \in DOMAIN dirs /\ directory[t] # job[t].dir
  BY <1>1, RunningDirectory DEF InClone, SpacesInv, CloneSpace
<1>3. /\ DOMAIN dirs' = DOMAIN dirs /\ dirs'[Kernel] = dirs[Kernel]
      /\ dirs'[job[t].dir].tables[i] = a
      /\ \A e \in DOMAIN dirs, k \in Slots : ~(e = job[t].dir /\ k = i) =>
            dirs'[e].tables[k] = dirs[e].tables[k] /\ dirs'[e].physical[k] = dirs[e].physical[k]
  BY <1>1, <1>2, SlotSet DEF PagingInv
<1>4. /\ \A u \in Task \ {t} : job'[u] = job[u]
      /\ job'[t] = [op |-> "clone", dir |-> job[t].dir, to |-> job[t].to, i |-> i + 1]
  <2>1. PICK n \in Nat : n = i + 1
    BY <1>1
  <2>2. job' = [job EXCEPT ![t].i = n]
    BY <2>1
  <2>3. /\ DOMAIN job' = Task /\ \A u \in Task \ {t} : job'[u] = job[u]
        /\ job'[t] = [op |-> "clone", dir |-> job[t].dir, to |-> job[t].to, i |-> n]
    BY <2>2, CloneJob
  <2> QED BY <2>1, <2>3
<1>5. job'[t].op = "clone" /\ job'[t].dir = job[t].dir /\ job'[t].i = i + 1
  BY <1>4
<1>6. TablesOf(t)' = TablesOf(t)
  <2>1. \A e \in DOMAIN dirs : DirectoryOf(dirs[e], {0} \cup DOMAIN tables)
    BY DirsWiden DEF PagingInv
  <2>2. HasSet(dirs, job[t].dir, i, a, b, dirs')
    BY <1>2, <2>1, DirsUpdate
  <2>3. dirs'[directory[t]] = dirs[directory[t]]
    BY <1>2, <2>2 DEF HasSet
  <2> QED BY <2>3 DEF TablesOf
<1>7. \A k \in Slots : KTable(k)' = KTable(k) /\ k \in Int
  BY <1>3, Sizes DEF KTable, Slots
<1>8. \A k \in Slots : k # i => dirs'[job[t].dir].tables[k] = dirs[job[t].dir].tables[k]
  BY <1>2, <1>3
<1>9. CloneSpace(t)'
  <2>1. ASSUME NEW k \in Slots
        PROVE  IF k < i + 1 THEN KTable(k) # 0 => dirs'[job[t].dir].tables[k] = KTable(k)
               ELSE dirs'[job[t].dir].tables[k] = 0
    <3>1. CASE k = i
      BY <1>1, <1>3, <3>1
    <3>2. CASE k # i /\ k < job[t].i
      <4>1. k < i + 1
        BY <1>1, <1>7, <3>2
      <4> QED BY <1>2, <1>8, <3>2, <4>1 DEF CloneSpace
    <3>3. CASE k # i /\ ~(k < job[t].i)
      <4>1. dirs[job[t].dir].tables[k] = 0
        BY <1>2, <3>3 DEF CloneSpace
      <4>2. k < i + 1 => k < i
        BY <1>1, <1>7, <3>3
      <4> QED BY <1>1, <1>8, <3>3, <4>1, <4>2
    <3> QED BY <3>1, <3>2, <3>3
  <2>2. \A u \in Task : directory'[u] # job'[t].dir
    BY <1>2, <1>5 DEF CloneSpace
  <2> QED BY <1>5, <1>7, <2>1, <2>2 DEF CloneSpace
<1>10. ASSUME NEW k \in Cloned(t)' PROVE k = i \/ k \in Cloned(t)
  <2>1. k \in Slots /\ k < i + 1 /\ TablesOf(t)[k] # 0 /\ KTable(k) = 0
    BY <1>5, <1>6, <1>7 DEF Cloned
  <2>2. k = i \/ k < i
    BY <1>1, <1>7, <2>1
  <2> QED BY <1>1, <2>1, <2>2 DEF Cloned
<1>11. i \in Cloned(t)' => KTable(i) = 0
  BY <1>7 DEF Cloned
<1> QED BY <1>3, <1>4, <1>5, <1>6, <1>8, <1>9, <1>10, <1>11 DEF HasAdvanced

LEMMA LinkTableSafe ==
    ASSUME SafeInv, NEW t \in Task, LinkTable(t)
    PROVE  SafeInv' /\ ViewStays
<1>1. PICK i, a, b :
         /\ i = Min(Left(t)) /\ a = TablesOf(t)[i] /\ b = dirs[directory[t]].physical[i]
         /\ Running(t) /\ job[t].op = "clone" /\ Left(t) # {} /\ a = KTable(i)
         /\ dirs' = TableSet(dirs, job[t].dir, i, a, b)
         /\ job' = [job EXCEPT ![t].i = i + 1]
         /\ UNCHANGED <<phase, next_page, base_address, frames, tables, kheap_end, kheap_used,
                        objects, directory, content, view>>
  BY DEF LinkTable, boot, kheap, TableSet, IsLinked, TablesOf
<1>2. phase \in {"clone", "run"}
  BY <1>1 DEF Running
<1>3. PagingInv /\ KernelInv /\ FreshInv /\ SlotsInv /\ SpacesInv /\ WalkInv /\ MappedInv
  BY <1>2 DEF SafeInv, RunInv
<1>4. PagingInv'
  BY <1>3, LinkTableStep
<1>5. /\ i \in Slots /\ a # 0 /\ ~(i < job[t].i) /\ b \in Nat
      /\ job[t].dir \in DOMAIN dirs \ {Kernel} /\ directory[t] \in DOMAIN dirs
      /\ CloneSpace(t)
  <2>1. i \in Slots /\ a # 0 /\ b \in Nat
    BY <1>1, <1>3, CloneLeft, CloneNext
  <2>2. job[t].dir \in DOMAIN dirs \ {Kernel} /\ directory[t] \in DOMAIN dirs /\ InClone(t)
    BY <1>1, <1>3, CloneJob, RunningDirectory DEF InClone
  <2>3. ~(i < job[t].i)
    BY <1>1, <1>3, <2>1, CloneLeft, CloneNext
  <2>4. CloneSpace(t)
    BY <1>1, <1>3 DEF SpacesInv
  <2> QED BY <2>1, <2>2, <2>3, <2>4
<1>6. dirs[job[t].dir].tables[i] = 0
  BY <1>5 DEF CloneSpace
<1>7. SlotsInv' /\ DirsGrow /\ DOMAIN dirs' = DOMAIN dirs
  <2>1. SlotsInv' /\ DirsGrow
    BY <1>1, <1>3, <1>5, <1>6, SlotsPrivate DEF PagingInv
  <2>2. DOMAIN dirs' = DOMAIN dirs
    BY <1>1, <1>3, <1>5, SlotSet DEF PagingInv
  <2> QED BY <2>1, <2>2
<1>8. RunStep /\ OwnKept(t)
  BY <1>1, <1>2, <1>3, <1>7, StillStep
<1>9. FreshInv'
  BY <1>1, <1>3, <1>7 DEF FreshInv, Ids, RangeOf
<1>10. WalkInv'
  <2>1. Solid(a) /\ FrameOf(a) = b
    BY <1>1, <1>3, <1>5 DEF WalkInv, TablesOf
  <2>2. Solid(a)' /\ FrameOf(a)' = b
    BY <1>3, <1>8, <2>1, SolidKept
  <2> QED BY <1>1, <1>3, <1>5, <1>8, <2>2, WalkAdded
<1>11. HasAdvanced(t, i, a)
  <2>1. Advancing(t, i, a, b)
    BY <1>1, <1>5 DEF Advancing
  <2> QED BY <1>3, <2>1, CloneAdvance
<1>12. ClonedOf(t)'
  <2> SUFFICES ASSUME NEW k \in Cloned(t)'
               PROVE  /\ dirs'[job'[t].dir].tables[k] # 0
                      /\ \A j \in Cells : Orig(t, k)'[j].frame # 0 =>
                            /\ Copy(t, k)'[j].frame # 0
                            /\ Copy(t, k)'[j].present = Orig(t, k)'[j].present
    BY DEF ClonedOf
  <2>1. k # i /\ k \in Cloned(t) /\ k \in Slots
    BY <1>1, <1>5, <1>11 DEF HasAdvanced, Cloned
  <2>2. dirs'[job'[t].dir].tables[k] = dirs[job[t].dir].tables[k]
    BY <1>11, <2>1 DEF HasAdvanced
  <2>3. Orig(t, k)' = Orig(t, k) /\ Copy(t, k)' = Copy(t, k)
    <3>1. tables' = tables /\ TablesOf(t)' = TablesOf(t)
      BY <1>1, <1>11 DEF HasAdvanced
    <3> QED BY <2>2, <3>1 DEF Orig, Copy
  <2>4. ClonedOf(t)
    BY <1>1, <1>3 DEF MappedInv
  <2> QED BY <2>1, <2>2, <2>3, <2>4 DEF ClonedOf
<1>13. ~Pending(t)'
  BY <1>11 DEF HasAdvanced, Pending
<1>14. CloneSpace(t)' /\ \A u \in Task \ {t} : job'[u] = job[u]
  BY <1>11 DEF HasAdvanced
<1> QED BY <1>1, <1>4, <1>7, <1>8, <1>9, <1>10, <1>12, <1>13, <1>14, SafeTurn

(* What a task has after Table::Clone has copied the table in slot i: k is *)
(* the heap's answer, need are the pages that have a frame, new are the    *)
(* frames of the copies.                                                   *)
Copied(t, i, k, need, new) ==
    /\ Running(t) /\ job[t].op = "clone" /\ Left(t) # {} /\ i = Min(Left(t))
    /\ phase \in {"clone", "run"} /\ KTable(i) # TablesOf(t)[i]
    /\ k \in Allocated(SizeOfTable) /\ k.ok
    /\ need = {j \in Cells : Orig(t, i)[j].frame # 0}
    /\ new \in [need -> Unset(k.frames)] /\ (\A h, j \in need : new[h] = new[j] => h = j)
    /\ DOMAIN tables' = DOMAIN tables \cup {k.page}
    /\ \A id \in DOMAIN tables : id # k.page => tables'[id] = k.tables[id]
    /\ \A j \in need : /\ tables'[k.page][j].frame = new[j]
                       /\ tables'[k.page][j].present = Orig(t, i)[j].present
    /\ k.frames \subseteq frames'
    /\ \A f \in Frames : (\A j \in need : new[j] # f) => content'[f] = content[f]
    /\ \A j \in need : content'[new[j]] = content[Orig(t, i)[j].frame]
    /\ dirs' = TableSet(dirs, job[t].dir, i, k.page, Physical(k.tables, k.page))
    /\ job' = [job EXCEPT ![t].i = i + 1]
    /\ kheap_end' = k.end /\ kheap_used' = k.used
    /\ UNCHANGED <<phase, next_page, base_address, objects, directory, view>>

LEMMA CopyTableCopied ==
    ASSUME PagingInv, NEW t \in Task, CopyTable(t)
    PROVE  Panic \/ \E i, k, need, new : Copied(t, i, k, need, new)
<1> DEFINE i       == Min(Left(t))
           table   == tables[TablesOf(t)[i]]
           need    == {j \in DOMAIN table : table[j].frame # 0}
           new(k)  == Copies(table, k.frames)
           copy(k) == [j \in DOMAIN table |->
                         IF j \in need THEN [table[j] EXCEPT !.frame = new(k)[j]]
                         ELSE NewTable[j]]
           from(k, f) == CHOOSE j \in need : new(k)[j] = f
<1>1. Running(t) /\ job[t].op = "clone" /\ Left(t) # {} /\ KTable(i) # TablesOf(t)[i]
  BY DEF CopyTable, IsLinked
<1>2. PICK k \in Allocated(SizeOfTable) :
           IF ~k.ok \/ Cardinality(need) > Cardinality(Unset(k.frames)) THEN Panic
           ELSE /\ tables' = Extended(k.tables, k.page, copy(k))
                /\ frames' = k.frames \cup {new(k)[j] : j \in need}
                /\ content' = [f \in Frames |->
                     IF \E j \in need : new(k)[j] = f
                     THEN content[table[from(k, f)].frame] ELSE content[f]]
                /\ dirs' = TableSet(dirs, job[t].dir, i, k.page, Physical(k.tables, k.page))
                /\ job' = [job EXCEPT ![t].i = i + 1]
                /\ kheap_end' = k.end /\ kheap_used' = k.used
                /\ UNCHANGED <<boot, objects, directory, view, status>>
  BY ZenonT(30) DEF CopyTable, TableSet
<1>3. TablesOf(t)[i] \in DOMAIN tables /\ phase \in {"clone", "run"}
  BY <1>1, CloneNext DEF Running
<1>4. table \in [Cells -> Cell] /\ table = Orig(t, i)
  BY <1>3 DEF PagingInv, Typed, Cell, Orig
<1> HIDE DEF i, table
<1>5. ASSUME ~(~k.ok \/ Cardinality(need) > Cardinality(Unset(k.frames)))
      PROVE  Copied(t, i, k, need, new(k))
  <2>1. /\ tables' = Extended(k.tables, k.page, copy(k))
        /\ frames' = k.frames \cup {new(k)[j] : j \in need}
        /\ content' = [f \in Frames |->
             IF \E j \in need : new(k)[j] = f
             THEN content[table[from(k, f)].frame] ELSE content[f]]
        /\ dirs' = TableSet(dirs, job[t].dir, i, k.page, Physical(k.tables, k.page))
        /\ job' = [job EXCEPT ![t].i = i + 1]
        /\ kheap_end' = k.end /\ kheap_used' = k.used
        /\ UNCHANGED <<boot, objects, directory, view, status>>
    <3> HIDE DEF need, new, copy, from
    <3> QED BY <1>2, <1>5, Zenon
  <2>2. UNCHANGED <<phase, next_page, base_address, objects, directory, view>>
    BY <2>1 DEF boot
  <2>3. DOMAIN k.tables = DOMAIN tables
    BY <1>5, AllocatedSound, SizesOfObjects DEF PagingInv
  <2>4. /\ need \in SUBSET Cells /\ new(k) \in [need -> Unset(k.frames)]
        /\ \A h, j \in need : new(k)[h] = new(k)[j] => h = j
    <3>1. need \in SUBSET Cells
      BY <1>4
    <3>2. Cardinality(need) \in Nat /\ Cardinality(Unset(k.frames)) \in Nat
      <4>1. TABLE - 1 \in Int
        BY Sizes
      <4>2. IsFiniteSet(Cells)
        BY <4>1, RangeFinite DEF Cells
      <4>3. IsFiniteSet(need)
        <5> HIDE DEF need
        <5> QED BY <3>1, <4>2, FS_Subset
      <4>4. IsFiniteSet(Unset(k.frames))
        BY FramesType, FS_Subset DEF Unset
      <4> QED BY <4>3, <4>4, FS_CardinalityType
    <3>3. Cardinality(need) <= Cardinality(Unset(k.frames))
      BY <1>5, <3>2
    <3> QED BY <1>4, <3>3, CopiesFresh
  <2>5. need = {j \in Cells : Orig(t, i)[j].frame # 0}
    BY <1>4
  <2>6. ASSUME NEW j \in need
        PROVE  copy(k)[j].frame = new(k)[j] /\ copy(k)[j].present = table[j].present
    <3>1. copy(k)[j] = [table[j] EXCEPT !.frame = new(k)[j]]
      BY <1>4
    <3>2. table[j] \in Cell
      BY <1>4, <2>4
    <3> HIDE DEF need, new, copy
    <3> QED BY <3>1, <3>2 DEF Cell
  <2> HIDE DEF need, new, copy
  <2>7. /\ DOMAIN tables' = DOMAIN tables \cup {k.page} /\ tables'[k.page] = copy(k)
        /\ \A id \in DOMAIN tables : id # k.page => tables'[id] = k.tables[id]
    BY <2>1, <2>3 DEF Extended
  <2>8. \A j \in need : new(k)[j] \in Frames
    BY <2>4 DEF Unset
  <2>9. \A f \in Frames : (\A j \in need : new(k)[j] # f) => content'[f] = content[f]
    <3> HIDE DEF from
    <3> QED BY <2>1
  <2>10. ASSUME NEW j \in need PROVE content'[new(k)[j]] = content[table[j].frame]
    <3>1. content'[new(k)[j]] = content[table[from(k, new(k)[j])].frame]
      <4> HIDE DEF from
      <4> QED BY <2>1, <2>8
    <3>2. from(k, new(k)[j]) \in need /\ new(k)[from(k, new(k)[j])] = new(k)[j]
      OBVIOUS
    <3>3. from(k, new(k)[j]) = j
      <4> HIDE DEF from
      <4> QED BY <2>4, <3>2
    <3> QED BY <3>1, <3>3
  <2>11. k.frames \subseteq frames'
    BY <2>1
  <2> QED BY <1>1, <1>3, <1>4, <1>5, <2>1, <2>2, <2>4, <2>5, <2>6, <2>7, <2>9, <2>10, <2>11
          DEF Copied, i
<1> HIDE DEF need, new, copy, from
<1>6. CASE ~k.ok \/ Cardinality(need) > Cardinality(Unset(k.frames))
  <2>1. Panic
    BY <1>2, <1>6, Zenon
  <2> QED BY <2>1
<1>7. CASE ~(~k.ok \/ Cardinality(need) > Cardinality(Unset(k.frames)))
  <2>1. Copied(t, i, k, need, new(k))
    BY <1>5, <1>7, PTL
  <2> QED BY <2>1
<1> QED BY <1>6, <1>7, PTL

LEMMA PrivateTable ==
    ASSUME PagingInv, SlotsInv, NEW d \in DOMAIN dirs, NEW l \in Slots, dirs[d].tables[l] # 0,
           KTable(l) = 0
    PROVE  dirs[d].tables[l] \in DOMAIN tables /\ \A m \in Slots : KTable(m) # dirs[d].tables[l]
<1>1. dirs[d].tables[l] \in DOMAIN tables /\ Kernel \in DOMAIN dirs
  BY DEF PagingInv, DirsInv
<1>2. \A m \in Slots : KTable(m) # dirs[d].tables[l]
  BY <1>1 DEF SlotsInv, KTable
<1> QED BY <1>1, <1>2

(* Copying the table of one slot keeps those of the slots before, and the  *)
(* copies of them.                                                         *)
CopyKept(t, i, k) ==
    /\ RunStep /\ OwnKept(t) /\ SlotsInv' /\ FreshInv' /\ WalkInv' /\ HasAdvanced(t, i, k.page)
    /\ k.page \notin Ids /\ k.page # 0 /\ 0 \in frames /\ frames \subseteq k.frames
    /\ i \in Slots /\ KTable(i) = 0 /\ Copy(t, i)' = tables'[k.page]
    /\ \A l \in Cloned(t)', j \in Cells : Orig(t, l)'[j] = Orig(t, l)[j]
    /\ \A l \in Cloned(t), j \in Cells : l # i => Copy(t, l)'[j] = Copy(t, l)[j]

LEMMA CopiedKept ==
    ASSUME SafeInv, NEW t \in Task, NEW i, NEW k, NEW need, NEW new, Copied(t, i, k, need, new)
    PROVE  CopyKept(t, i, k)
<1>1. /\ Running(t) /\ job[t].op = "clone" /\ Left(t) # {} /\ i = Min(Left(t))
      /\ phase \in {"clone", "run"} /\ KTable(i) # TablesOf(t)[i]
      /\ k \in Allocated(SizeOfTable) /\ k.ok
      /\ DOMAIN tables' = DOMAIN tables \cup {k.page}
      /\ \A id \in DOMAIN tables : id # k.page => tables'[id] = k.tables[id]
      /\ k.frames \subseteq frames'
      /\ dirs' = TableSet(dirs, job[t].dir, i, k.page, Physical(k.tables, k.page))
      /\ job' = [job EXCEPT ![t].i = i + 1]
      /\ kheap_end' = k.end /\ kheap_used' = k.used
      /\ UNCHANGED <<phase, next_page, base_address, objects, directory, view>>
  BY DEF Copied
<1>2. PagingInv /\ KernelInv /\ FreshInv /\ SlotsInv /\ SpacesInv /\ WalkInv /\ MappedInv
  BY <1>1 DEF SafeInv, RunInv
<1>3. /\ i \in Slots /\ TablesOf(t)[i] # 0 /\ ~(i < job[t].i)
      /\ job[t].dir \in DOMAIN dirs \ {Kernel} /\ directory[t] \in DOMAIN dirs
      /\ CloneSpace(t) /\ Sharing(t)
  BY <1>1, <1>2, CloneLeft, CloneJob, RunningDirectory DEF InClone, SpacesInv, Running, Known
<1>4. dirs[job[t].dir].tables[i] = 0 /\ KTable(i) = 0
  BY <1>1, <1>3 DEF CloneSpace, Sharing
<1>5. Granted(k, SizeOfTable) /\ SizeOfTable \in Nat \ {0}
  BY <1>1, <1>2, AllocatedKept, SizesOfObjects
<1>6. /\ frames \subseteq k.frames /\ k.page \in KHEAP_START .. KHEAP_END - 1
      /\ Typed(k.tables, k.frames) /\ DOMAIN k.tables = DOMAIN tables
  BY <1>1, <1>2, AllocatedSound, SizesOfObjects DEF PagingInv
<1>7. k.page \notin Ids /\ k.page # 0 /\ k.page \notin DOMAIN tables
  BY <1>5, <1>6, KernelType DEF Granted, Ids
<1>8. Physical(k.tables, k.page) \in Nat
  BY <1>1, <1>2, <1>6, PhysicalType
<1>9. SlotsInv' /\ DirsGrow /\ DOMAIN dirs' = DOMAIN dirs
  <2>1. SlotsInv' /\ DirsGrow
    BY <1>1, <1>2, <1>3, <1>4, <1>7, <1>8, SlotsPrivate DEF PagingInv
  <2>2. DOMAIN dirs' = DOMAIN dirs
    BY <1>1, <1>2, <1>3, <1>8, SlotSet DEF PagingInv
  <2> QED BY <2>1, <2>2
<1>10. \A id \in DOMAIN tables : tables'[id] = k.tables[id]
  BY <1>1, <1>7
<1>11. /\ RunStep /\ OwnKept(t)
       /\ Solid(k.page)' /\ FrameOf(k.page)' = Physical(k.tables, k.page)
  <2>1. frames \subseteq frames' /\ DOMAIN tables \subseteq DOMAIN tables'
    BY <1>1, <1>6
  <2> QED BY <1>1, <1>2, <1>5, <1>9, <1>10, <2>1, GrantedStep
<1>12. FreshInv'
  <2>1. Ids' \subseteq Ids \cup {k.page}
    BY <1>1, <1>9 DEF Ids
  <2> QED BY <1>1, <1>2, <1>5, <2>1, FreshGranted
<1>13. WalkInv'
  BY <1>1, <1>2, <1>3, <1>8, <1>11, WalkAdded
<1>14. HasAdvanced(t, i, k.page)
  <2>1. Advancing(t, i, k.page, Physical(k.tables, k.page))
    BY <1>1, <1>4, <1>8 DEF Advancing
  <2> QED BY <1>2, <2>1, CloneAdvance
<1>15. ASSUME NEW d \in DOMAIN dirs, NEW l \in Slots, dirs[d].tables[l] # 0, KTable(l) = 0,
              NEW j \in Cells
       PROVE  tables'[dirs[d].tables[l]][j] = tables[dirs[d].tables[l]][j]
  <2>1. dirs[d].tables[l] \in DOMAIN tables /\ \A m \in Slots : KTable(m) # dirs[d].tables[l]
    BY <1>2, <1>15, PrivateTable
  <2>2. k.tables[dirs[d].tables[l]][j] = tables[dirs[d].tables[l]][j]
    BY <1>5, <2>1 DEF Granted, OthersKept
  <2> QED BY <1>10, <2>1, <2>2
<1>16. ASSUME NEW l \in Cloned(t)', NEW j \in Cells PROVE Orig(t, l)'[j] = Orig(t, l)[j]
  <2>1. TablesOf(t)' = TablesOf(t) /\ (l = i \/ l \in Cloned(t))
    BY <1>14 DEF HasAdvanced
  <2>2. l \in Slots /\ TablesOf(t)[l] # 0 /\ KTable(l) = 0
    BY <1>3, <1>4, <2>1 DEF Cloned
  <2>3. tables'[TablesOf(t)[l]][j] = tables[TablesOf(t)[l]][j]
    BY <1>3, <1>15, <2>2 DEF TablesOf
  <2> QED BY <2>1, <2>3 DEF Orig
<1>17. ASSUME NEW l \in Cloned(t), NEW j \in Cells, l # i PROVE Copy(t, l)'[j] = Copy(t, l)[j]
  <2>1. l \in Slots /\ KTable(l) = 0
    BY DEF Cloned
  <2>2. job'[t].dir = job[t].dir /\ dirs'[job[t].dir].tables[l] = dirs[job[t].dir].tables[l]
    BY <1>14, <1>17, <2>1 DEF HasAdvanced
  <2>3. dirs[job[t].dir].tables[l] # 0
    BY <1>1, <1>2 DEF MappedInv, ClonedOf
  <2>4. tables'[dirs[job[t].dir].tables[l]][j] = tables[dirs[job[t].dir].tables[l]][j]
    BY <1>3, <1>15, <2>1, <2>3
  <2> QED BY <2>2, <2>4 DEF Copy
<1>18. Copy(t, i)' = tables'[k.page]
  BY <1>14 DEF HasAdvanced, Copy
<1>19. 0 \in frames
  BY <1>1, <1>2, PageZero DEF Booting
<1> QED BY <1>3, <1>4, <1>6, <1>7, <1>9, <1>11, <1>12, <1>13, <1>14, <1>16, <1>17, <1>18, <1>19
        DEF CopyKept

LEMMA CopyTableSafe ==
    ASSUME SafeInv, NEW t \in Task, CopyTable(t)
    PROVE  SafeInv' /\ ViewStays
<1>1. PagingInv /\ PagingInv'
  BY CopyTableStep DEF SafeInv
<1>2. CASE Panic
  BY <1>2, PanicSafe DEF Panic
<1>3. ASSUME NEW i, NEW k, NEW need, NEW new, Copied(t, i, k, need, new)
      PROVE  SafeInv' /\ ViewStays
  <2>1. CopyKept(t, i, k)
    BY <1>3, CopiedKept
  <2>2. /\ Running(t) /\ job[t].op = "clone" /\ phase \in {"clone", "run"}
        /\ need = {j \in Cells : Orig(t, i)[j].frame # 0}
        /\ new \in [need -> Unset(k.frames)]
        /\ \A j \in need : /\ tables'[k.page][j].frame = new[j]
                           /\ tables'[k.page][j].present = Orig(t, i)[j].present
        /\ UNCHANGED <<directory, view>>
    BY <1>3 DEF Copied
  <2>3. ClonedOf(t)
    BY <2>2 DEF SafeInv, RunInv, MappedInv
  <2>4. /\ job'[t].dir = job[t].dir /\ job'[t].op = "clone" /\ CloneSpace(t)'
        /\ \A u \in Task \ {t} : job'[u] = job[u]
        /\ dirs'[job[t].dir].tables[i] = k.page
        /\ \A l \in Slots : l # i => dirs'[job[t].dir].tables[l] = dirs[job[t].dir].tables[l]
        /\ \A l \in Cloned(t)' : l = i \/ l \in Cloned(t)
    BY <2>1 DEF CopyKept, HasAdvanced
  <2>5. ClonedOf(t)'
    <3> SUFFICES ASSUME NEW l \in Cloned(t)'
                 PROVE  /\ dirs'[job'[t].dir].tables[l] # 0
                        /\ \A j \in Cells : Orig(t, l)'[j].frame # 0 =>
                              /\ Copy(t, l)'[j].frame # 0
                              /\ Copy(t, l)'[j].present = Orig(t, l)'[j].present
      BY DEF ClonedOf
    <3>1. \A j \in Cells : Orig(t, l)'[j] = Orig(t, l)[j]
      BY <2>1 DEF CopyKept
    <3>2. CASE l = i
      <4>1. dirs'[job'[t].dir].tables[l] # 0 /\ Copy(t, l)' = tables'[k.page]
        BY <2>1, <2>4, <3>2 DEF CopyKept
      <4>2. ASSUME NEW j \in Cells, Orig(t, l)'[j].frame # 0
            PROVE  /\ tables'[k.page][j].frame # 0
                   /\ tables'[k.page][j].present = Orig(t, l)'[j].present
        <5>1. j \in need
          BY <2>2, <3>1, <3>2, <4>2
        <5>2. new[j] # 0
          BY <2>1, <2>2, <5>1 DEF CopyKept, Unset
        <5> QED BY <2>2, <3>1, <3>2, <5>1, <5>2
      <4> QED BY <4>1, <4>2
    <3>3. CASE l # i
      <4>1. l \in Cloned(t) /\ l \in Slots
        BY <2>4, <3>3 DEF Cloned
      <4>2. \A j \in Cells : Copy(t, l)'[j] = Copy(t, l)[j]
        BY <2>1, <3>3, <4>1 DEF CopyKept
      <4>3. dirs'[job'[t].dir].tables[l] # 0
        BY <2>3, <2>4, <3>3, <4>1 DEF ClonedOf
      <4> QED BY <2>3, <3>1, <4>1, <4>2, <4>3 DEF ClonedOf
    <3> QED BY <3>2, <3>3
  <2>6. ~Pending(t)'
    BY <2>4 DEF Pending
  <2> QED BY <1>1, <2>1, <2>2, <2>4, <2>5, <2>6, SafeTurn DEF CopyKept
<1> QED BY <1>1, <1>2, <1>3, CopyTableCopied

(* The child gets its directory, in which all tables have been cloned.     *)
Returned(t, c, d) ==
    /\ Running(t) /\ job[t].op = "clone" /\ c = job[t].to /\ d = job[t].dir
    /\ PagingInv /\ KernelInv /\ FreshInv /\ SlotsInv /\ SpacesInv /\ WalkInv /\ MappedInv
    /\ c \in Task /\ d \in DOMAIN dirs \ {0, Kernel} /\ (phase = "clone" => t = c)
    /\ phase # "clone" => phase = "run" /\ directory[c] = 0
    /\ directory[t] \in DOMAIN dirs
    /\ \A i \in Slots : TablesOf(t)[i] # 0 => i < job[t].i
    /\ directory'[c] = d /\ \A u \in Task \ {c} : directory'[u] = directory[u]
    /\ job'[t] = Idle /\ \A u \in Task \ {t} : job'[u] = job[u] /\ job[u].op # "clone"
    /\ DOMAIN view' = DOMAIN view \cup {<<c, q[2]>> : q \in {r \in DOMAIN view : r[1] = t}}
    /\ \A p \in DOMAIN view' : view'[p] = IF p[1] = c THEN view[<<t, p[2]>>] ELSE view[p]
    /\ \A p \in DOMAIN view : p[1] # c /\ p[1] \in Known /\ p[2] \in UserPages
    /\ phase' = "run"
    /\ UNCHANGED <<next_page, base_address, frames, tables, dirs, kheap_end, kheap_used, objects,
                   content>>

LEMMA CloneReturned ==
    ASSUME SafeInv, NEW t \in Task, CloneReturn(t)
    PROVE  \E c, d : Returned(t, c, d)
<1> DEFINE c == job[t].to
           d == job[t].dir
<1>1. /\ Running(t) /\ job[t].op = "clone" /\ Left(t) = {}
      /\ directory' = [directory EXCEPT ![c] = d]
      /\ view' = [p \in DOMAIN view \cup {<<c, q[2]>> : q \in {r \in DOMAIN view : r[1] = t}}
                    |-> IF p[1] = c THEN view[<<t, p[2]>>] ELSE view[p]]
      /\ job' = [job EXCEPT ![t] = Idle] /\ phase' = "run"
      /\ UNCHANGED <<next_page, base_address, frames, tables, dirs, kheap_end, kheap_used, objects,
                     content>>
  BY DEF CloneReturn, kheap
<1>2. PagingInv /\ KernelInv /\ FreshInv /\ SlotsInv /\ SpacesInv /\ WalkInv /\ MappedInv
  BY <1>1 DEF SafeInv, RunInv, Running
<1>3. /\ InClone(t) /\ c \in Task /\ d \in DOMAIN dirs \ {0, Kernel}
      /\ phase \in {"clone", "run"} /\ job[t].i \in Nat
      /\ IF phase = "clone" THEN t = First /\ c = First ELSE directory[c] = 0
  BY <1>1, <1>2, CloneJob DEF InClone
<1>4. directory[t] \in DOMAIN dirs /\ \A u \in Task \ {t} : job[u].op # "clone"
  BY <1>1, <1>2, RunningDirectory
<1>5. ASSUME NEW i \in Slots, TablesOf(t)[i] # 0 PROVE i < job[t].i
  <2>1. i \in Nat /\ i <= DIRECTORY - 1 /\ DIRECTORY \in Nat
    BY Sizes DEF Slots
  <2>2. i \notin Left(t)
    BY <1>1
  <2>3. i \notin job[t].i .. DIRECTORY - 1
    BY <1>5, <2>2 DEF Left
  <2> QED BY <1>3, <2>1, <2>3
<1> HIDE DEF c, d
<1>6. \A p \in DOMAIN view : p[1] # c /\ p[1] \in Known /\ p[2] \in UserPages
  BY <1>2, <1>3 DEF PagingInv, ViewInv, Known
<1>7. /\ directory'[c] = d /\ \A u \in Task \ {c} : directory'[u] = directory[u]
      /\ job'[t] = Idle /\ \A u \in Task \ {t} : job'[u] = job[u]
  BY <1>1, <1>2, <1>3 DEF PagingInv, JobsInv
<1>8. /\ DOMAIN view' = DOMAIN view \cup {<<c, q[2]>> : q \in {r \in DOMAIN view : r[1] = t}}
      /\ \A p \in DOMAIN view' : view'[p] = IF p[1] = c THEN view[<<t, p[2]>>] ELSE view[p]
  BY <1>1
<1>9. Returned(t, c, d)
  BY <1>1, <1>2, <1>3, <1>4, <1>5, <1>6, <1>7, <1>8 DEF Returned, c, d
<1> QED BY <1>9

(* A page of the child is the copy of one of its parent's.                 *)
IsChild(t, c, d, p) ==
    /\ p[2] \in UserPages /\ <<t, p[2]>> \in DOMAIN view /\ view'[p] = view[<<t, p[2]>>]
    /\ p[2] \div TABLE \in Cloned(t) /\ p[2] % TABLE \in Cells /\ Mapped(t, p[2])
    /\ TablesOf(c)[p[2] \div TABLE]' = dirs[d].tables[p[2] \div TABLE]
    /\ EntryOf(t, p[2]) = Orig(t, p[2] \div TABLE)[p[2] % TABLE]
    /\ EntryOf(c, p[2])' = Copy(t, p[2] \div TABLE)[p[2] % TABLE]

LEMMA ChildPage ==
    ASSUME NEW t \in Task, NEW c, NEW d, Returned(t, c, d), NEW p \in DOMAIN view', p[1] = c
    PROVE  IsChild(t, c, d, p)
<1>1. PICK q \in DOMAIN view : q[1] = t /\ p = <<c, q[2]>>
  BY DEF Returned
<1>2. p[2] = q[2] /\ q[2] \in UserPages /\ q[1] \in Known
  BY <1>1 DEF Returned
<1>3. q = <<t, p[2]>>
  <2>1. q \in Task \X UserPages
    BY DEF Returned, PagingInv, ViewInv
  <2> QED BY <1>1, <1>2, <2>1
<1>4. Mapped(t, p[2])
  <2>1. Mapped(q[1], q[2])
    BY DEF Returned, MappedInv
  <2> QED BY <1>1, <1>2, <2>1
<1>5. t \in Known /\ TablesOf(t)[p[2] \div TABLE] # 0
  BY <1>1, <1>2, <1>4 DEF Mapped
<1>6. p[2] \div TABLE \in Slots /\ p[2] % TABLE \in Cells /\ KTable(p[2] \div TABLE) = 0
  BY <1>2, <1>5, UserTable DEF Returned
<1>7. p[2] \div TABLE \in Cloned(t)
  BY <1>5, <1>6 DEF Returned, Cloned
<1>8. TablesOf(c)' = dirs[d].tables /\ tables' = tables /\ d = job[t].dir
  BY DEF Returned, TablesOf
<1>9. view'[p] = view[<<t, p[2]>>]
  BY DEF Returned
<1> QED BY <1>2, <1>3, <1>4, <1>6, <1>7, <1>8, <1>9 DEF EntryOf, Orig, Copy, IsChild

LEMMA CloneReturnSafe ==
    ASSUME SafeInv, NEW t \in Task, CloneReturn(t)
    PROVE  SafeInv' /\ ViewStays
<1>1. PICK c, d : Returned(t, c, d)
  BY CloneReturned
<1> USE DEF Returned
<1>2. PagingInv'
  BY CloneReturnStep DEF SafeInv
<1>3. SlotsInv' /\ DirsGrow
  BY <1>1, SlotsSame DEF PagingInv
<1>4. RunStep /\ FreshInv'
  <2>1. phase \in {"clone", "run"} /\ phase' \in {"clone", "run"}
    BY <1>1
  <2> QED BY <1>1, <1>3, <2>1, StillStep
<1>5. KernelInv'
  BY <1>1, <1>4, KernelKept
<1>6. WalkInv'
  <2>1. UNCHANGED <<tables, dirs>> /\ WalkInv
    BY <1>1
  <2>2. \A v : FrameOf(v)' = FrameOf(v) /\ (Solid(v)' <=> Solid(v))
    BY <2>1, KernelSame DEF Solid
  <2> QED BY <2>1, <2>2, WalkSame
<1>7. \A i \in Slots : KTable(i)' = KTable(i)
  BY <1>1 DEF KTable
<1>8. CloneSpace(t) /\ Sharing(t) /\ ClonedOf(t) /\ directory[t] # 0
  BY <1>1 DEF SpacesInv, MappedInv, Known, Running
<1>9. ASSUME NEW u \in Task \ {c}
      PROVE  TablesOf(u)' = TablesOf(u) /\ \A v : EntryOf(u, v)' = EntryOf(u, v)
  BY <1>1 DEF TablesOf, EntryOf
<1>10. SpacesInv'
  <2>1. \A u, w \in Task : directory'[u] # 0 /\ directory'[u] = directory'[w] => u = w
    <3> SUFFICES ASSUME NEW u \in Task, NEW w \in Task, directory'[u] # 0,
                        directory'[u] = directory'[w]
                 PROVE  u = w
      OBVIOUS
    <3>1. \A x \in Task : directory[x] # d
      BY <1>1, <1>8 DEF CloneSpace
    <3> QED BY <1>1, <3>1 DEF SpacesInv
  <2>2. \A u \in Task : job'[u].op # "idle" => directory'[u] # 0
    BY <1>1 DEF SpacesInv, Idle
  <2>3. ASSUME NEW u \in Task, directory'[u] # 0 PROVE Sharing(u)'
    <3>1. CASE u = c
      <4>1. TablesOf(c)' = dirs[d].tables
        BY <1>1 DEF TablesOf
      <4>2. ASSUME NEW i \in Slots, KTable(i) # 0 PROVE dirs[d].tables[i] = KTable(i)
        <5>1. TablesOf(t)[i] # 0
          BY <1>8, <4>2 DEF Sharing
        <5>2. i < job[t].i
          BY <1>1, <5>1
        <5> QED BY <1>1, <1>8, <4>2, <5>2 DEF CloneSpace
      <4> QED BY <1>7, <3>1, <4>1, <4>2 DEF Sharing
    <3>2. CASE u # c
      <4>1. directory[u] # 0 /\ Sharing(u)
        BY <1>1, <2>3, <3>2 DEF SpacesInv, Known
      <4> QED BY <1>7, <1>9, <3>2, <4>1 DEF Sharing
    <3> QED BY <3>1, <3>2
  <2>4. \A u \in Task : job'[u].op # "clone"
    BY <1>1 DEF Idle
  <2> QED BY <2>1, <2>2, <2>3, <2>4 DEF SpacesInv, Known
<1>11. ASSUME NEW p \in DOMAIN view'
       PROVE  Mapped(p[1], p[2])'
  <2>1. CASE p[1] = c
    <3>1. /\ p[2] \div TABLE \in Cloned(t) /\ p[2] % TABLE \in Cells /\ Mapped(t, p[2])
          /\ TablesOf(c)[p[2] \div TABLE]' = dirs[d].tables[p[2] \div TABLE]
          /\ EntryOf(t, p[2]) = Orig(t, p[2] \div TABLE)[p[2] % TABLE]
          /\ EntryOf(c, p[2])' = Copy(t, p[2] \div TABLE)[p[2] % TABLE]
      <4>1. IsChild(t, c, d, p)
        BY <1>1, <2>1, ChildPage
      <4> QED BY <4>1 DEF IsChild
    <3>2. /\ dirs[d].tables[p[2] \div TABLE] # 0
          /\ Copy(t, p[2] \div TABLE)[p[2] % TABLE].frame # 0
          /\ Copy(t, p[2] \div TABLE)[p[2] % TABLE].present
      BY <1>1, <1>8, <3>1 DEF ClonedOf, Mapped
    <3>3. Mapped(c, p[2])'
      BY <3>1, <3>2 DEF Mapped
    <3> QED BY <2>1, <3>3
  <2>2. CASE p[1] # c
    <3>1. p \in DOMAIN view
      BY <1>1, <2>2
    <3>2. Mapped(p[1], p[2]) /\ p[1] \in Task \ {c}
      BY <1>1, <2>2, <3>1 DEF MappedInv, Known
    <3> QED BY <1>9, <3>2 DEF Mapped
  <2> QED BY <2>1, <2>2
<1>12. ASSUME NEW u \in Task, Pending(u)' PROVE PendingOf(u)'
  <2>1. u # t /\ job'[u] = job[u]
    BY <1>1, <1>12 DEF Pending, Idle
  <2>2. Pending(u) /\ job[u].op = "range"
    BY <1>12, <2>1 DEF Pending
  <2>3. u # c
    BY <1>1, <2>1, <2>2 DEF SpacesInv
  <2>4. TablesOf(u)' = TablesOf(u) /\ PageOf(u)' = PageOf(u)
    BY <1>1, <1>9, <2>1, <2>3 DEF PageOf
  <2>5. PendingOf(u)
    BY <1>1, <2>2 DEF MappedInv
  <2> QED BY <2>1, <2>4, <2>5 DEF PendingOf
<1>13. MappedInv'
  <2>1. \A u \in Task : job'[u].op # "clone"
    BY <1>1 DEF Idle
  <2> QED BY <1>11, <1>12, <2>1 DEF MappedInv
<1>14. ViewStays
  BY <1>1, <1>9 DEF ViewStays, Known
<1> QED BY <1>2, <1>3, <1>4, <1>5, <1>6, <1>10, <1>13, <1>14 DEF SafeInv, RunInv

-----------------------------------------------------------------------------
(* memory::Initialize reaches what the running kernel relies on.           *)

LEMMA KSlotsType ==
    KSlots \in SUBSET Slots /\ IsFiniteSet(KSlots) /\ Cardinality(KSlots) \in 0 .. DIRECTORY
<1>1. DIRECTORY \in Nat \ {0} /\ 0 \in Int /\ DIRECTORY - 1 \in Int
  BY Sizes
<1>2. IsFiniteSet(Slots) /\ Cardinality(Slots) = DIRECTORY
  BY <1>1, FS_Interval DEF Slots
<1>3. KSlots \in SUBSET Slots
  BY DEF KSlots
<1>4. IsFiniteSet(KSlots) /\ Cardinality(KSlots) <= Cardinality(Slots)
  BY <1>2, <1>3, FS_Subset
<1> QED BY <1>1, <1>2, <1>3, <1>4, FS_CardinalityType

(* Base addresses and the pages they are in.                               *)
LEMMA PageOfBase ==
    ASSUME NEW b \in Nat
    PROVE  /\ AlignedPage(b) \in Nat \ {0} /\ b < AlignedPage(b) * PAGE
           /\ \A n \in Nat : b <= n * PAGE => AlignedPage(b) <= n + 1
<1>1. PAGE \in Nat \ {0}
  BY Sizes
<1>2. \A s \in Nat \ {0}, u \in Nat : u \div s \in Nat /\ u < (u \div s + 1) * s
  BY SMTT(30)
<1>3. \A s \in Nat \ {0}, u, n \in Nat : u <= n * s => u \div s <= n
  BY SMTT(30)
<1>4. b \div PAGE \in Nat /\ b < (b \div PAGE + 1) * PAGE
  BY <1>1, <1>2
<1>5. \A n \in Nat : b <= n * PAGE => b \div PAGE <= n
  BY <1>1, <1>3
<1> QED BY <1>4, <1>5 DEF AlignedPage

LEMMA Multiples ==
    ASSUME NEW m \in Nat, NEW n \in Nat
    PROVE  /\ m <= n => m * PAGE <= n * PAGE
           /\ m * PAGE < n * PAGE => m < n
           /\ m * PAGE \in Nat /\ m * PAGE + PAGE = (m + 1) * PAGE
<1>1. PAGE \in Nat \ {0}
  BY Sizes
<1>2. \A s \in Nat \ {0}, a, b \in Nat : a <= b => a * s <= b * s
  BY SMTT(30)
<1>3. \A s \in Nat \ {0}, a, b \in Nat : a * s < b * s => a < b
  BY <1>2
<1> QED BY <1>1, <1>2, <1>3

(* GetPage adds a table of pages without frames, in boot memory.           *)
TableBooted ==
    /\ DOMAIN tables \subseteq DOMAIN tables'
    /\ \A id \in DOMAIN tables : tables'[id] = tables[id]
    /\ \A k \in Slots : KTable(k) # 0 => KTable(k)' = KTable(k)
    /\ \A k \in Slots : KTable(k) = 0 /\ KTable(k)' # 0 =>
          \A j \in Cells : tables'[KTable(k)'][j].frame = 0
    /\ \A x \in Ids' : x \in Ids \/ x \in 0 .. KHEAP_START - 1

LEMMA TableBoots ==
    ASSUME PagingInv, KernelInv, Booting, Booting', NEW v \in HeapPages \cup 0 .. BootEnd - 1,
           BootGetPage(v)
    PROVE  TableBooted /\ BootTablesInv'
<1> DEFINE i  == v \div TABLE
           id == AlignedPage(base_address)
           c  == Cardinality(KSlots)
<1>1. /\ base_address \in Nat /\ i \in Slots /\ c \in 0 .. DIRECTORY /\ i \in BootSlots
      /\ Kernel \in Nat /\ DIRECTORY \in Nat
  BY KSlotsType, KernelPages, Layout, Sizes DEF PagingInv, BootInv, BootSlots
<1>2. /\ base_address <= (Kernel + 3 + 2 * c) * PAGE
      /\ DOMAIN dirs = {Kernel}
      /\ \A k \in KSlots : /\ k \in BootSlots /\ dirs[Kernel].physical[k] = KTable(k)
                           /\ (KTable(k) + 1) * PAGE <= base_address
  BY DEF KernelInv, BootTablesInv, Booting
<1>3. CASE KTable(i) # 0
  <2>1. UNCHANGED <<base_address, dirs, tables>>
    BY <1>3 DEF BootGetPage
  <2>2. TableBooted
    BY <2>1 DEF TableBooted, KTable, Ids
  <2>3. BootTablesInv'
    BY <2>1 DEF KernelInv, BootTablesInv, Booting, KSlots, BootSlots, KTable
  <2> QED BY <2>2, <2>3
<1>4. CASE KTable(i) = 0
  <2> HIDE DEF id, c
  <2>1. /\ base_address' = id * PAGE + PAGE
        /\ tables' = Extended(tables, id, NewTable)
        /\ dirs' = TableSet(dirs, Kernel, i, id, id)
    BY <1>4 DEF BootGetPage, id, TableSet
  <2> HIDE DEF i
  <2>2. id \in Nat \ {0} /\ base_address < id * PAGE /\ id <= Kernel + 4 + 2 * c
    <3>1. Kernel + 3 + 2 * c \in Nat
      BY <1>1
    <3>2. /\ id \in Nat \ {0} /\ base_address < id * PAGE
          /\ \A n \in Nat : base_address <= n * PAGE => id <= n + 1
      BY <1>1, PageOfBase DEF id
    <3>3. id <= Kernel + 3 + 2 * c + 1
      BY <1>2, <3>1, <3>2
    <3> QED BY <1>1, <3>2, <3>3
  <2>3. /\ KSlots' = KSlots \cup {i} /\ i \notin KSlots
        /\ dirs'[Kernel].physical[i] = id /\ DOMAIN dirs' = {Kernel}
        /\ \A k \in Slots : KTable(k)' = IF k = i THEN id ELSE KTable(k)
        /\ \A k \in Slots : k # i => dirs'[Kernel].physical[k] = dirs[Kernel].physical[k]
    <3> DEFINE T == {0} \cup DOMAIN tables
    <3>1. \A e \in DOMAIN dirs : DirectoryOf(dirs[e], T)
      BY DirsWiden DEF PagingInv
    <3>2. HasSet(dirs, Kernel, i, id, id, dirs')
      BY <1>2, <2>1, <3>1, DirsUpdate
    <3>3. dirs[Kernel].tables \in [Slots -> T] /\ dirs[Kernel].physical \in [Slots -> Nat]
      BY <1>2, <3>1 DEF DirectoryOf
    <3> HIDE DEF T
    <3>4. \A k \in Slots : KTable(k)' = IF k = i THEN id ELSE KTable(k)
      BY <3>2, <3>3 DEF KTable, HasSet
    <3>5. KSlots' = KSlots \cup {i} /\ i \notin KSlots
      BY <1>1, <1>4, <2>2, <3>4 DEF KSlots
    <3> QED BY <1>1, <1>2, <3>2, <3>3, <3>4, <3>5 DEF HasSet
  <2>4. Cardinality(KSlots') = c + 1
    BY <2>3, KSlotsType, FS_AddElement DEF c
  <2>5. c + 1 <= DIRECTORY
    <3>1. KSlots' \in SUBSET Slots
      BY <1>1, <2>3, KSlotsType
    <3>2. IsFiniteSet(Slots) /\ Cardinality(Slots) = DIRECTORY
      BY <1>1, FS_Interval DEF Slots
    <3>3. Cardinality(KSlots') <= Cardinality(Slots)
      BY <3>1, <3>2, FS_Subset
    <3> QED BY <2>4, <3>2, <3>3
  <2>6. id < BootEnd /\ id < KHEAP_START
    BY <1>1, <2>2, <2>5, Layout
  <2>7. base_address' <= (Kernel + 3 + 2 * (c + 1)) * PAGE
    <3>1. PICK n \in Nat : n = Kernel + 4 + 2 * c
      BY <1>1
    <3>2. /\ id * PAGE <= n * PAGE /\ n * PAGE + PAGE = (n + 1) * PAGE
          /\ n * PAGE \in Nat /\ id * PAGE \in Nat /\ PAGE \in Nat
      BY <2>2, <3>1, Multiples, Sizes
    <3>3. n + 1 = Kernel + 3 + 2 * (c + 1)
      BY <1>1, <3>1
    <3>4. base_address' <= (n + 1) * PAGE
      BY <2>1, <3>2
    <3> QED BY <3>3, <3>4
  <2>8. base_address' = (id + 1) * PAGE /\ base_address <= base_address'
    <3>1. id * PAGE + PAGE = (id + 1) * PAGE /\ id * PAGE \in Nat /\ PAGE \in Nat
      BY <2>2, Multiples, Sizes
    <3> QED BY <1>1, <2>1, <2>2, <3>1
  <2>9. \A k \in KSlots : KTable(k) \in Nat
    BY DEF KSlots, KTable, PagingInv, DirsInv, Typed
  <2>10. BootTablesInv'
    <3>1. ASSUME NEW k \in KSlots'
          PROVE  /\ k \in BootSlots /\ dirs'[Kernel].physical[k] = KTable(k)'
                 /\ (KTable(k)' + 1) * PAGE <= base_address'
      <4>1. CASE k = i
        <5>1. (id + 1) * PAGE \in Nat
          BY <2>2, Multiples
        <5> QED BY <1>1, <2>3, <2>8, <4>1, <5>1
      <4>2. CASE k # i
        <5>1. k \in KSlots /\ k \in Slots
          BY <2>3, <4>2 DEF KSlots
        <5>2. KTable(k)' = KTable(k) /\ dirs'[Kernel].physical[k] = dirs[Kernel].physical[k]
          BY <2>3, <4>2, <5>1
        <5>3. (KTable(k) + 1) * PAGE \in Nat
          BY <2>9, <5>1, Multiples
        <5>4. base_address' \in Nat
          BY <2>2, <2>8, Multiples
        <5>5. (KTable(k) + 1) * PAGE <= base_address'
          BY <1>1, <1>2, <2>8, <5>1, <5>3, <5>4
        <5> QED BY <1>2, <5>1, <5>2, <5>5
      <4> QED BY <4>1, <4>2
    <3>2. BootSlots' = BootSlots
      BY DEF BootSlots
    <3> QED BY <2>3, <2>4, <2>7, <3>1, <3>2 DEF BootTablesInv, Booting
  <2>11. TableBooted
    <3>1. /\ DOMAIN tables' = DOMAIN tables \cup {id} /\ tables'[id] = NewTable
          /\ \A x \in DOMAIN tables : x # id => tables'[x] = tables[x]
      BY <2>1 DEF Extended
    <3>2. id \notin DOMAIN tables
      <4>1. \A x \in DOMAIN tables : x \in Nat /\ x < id
        BY DEF PagingInv, BootInv, Typed, Booting, id
      <4> QED BY <2>2, <4>1
    <3>3. \A k \in Slots : KTable(k) # 0 => KTable(k)' = KTable(k)
      BY <1>4, <2>3
    <3>4. ASSUME NEW k \in Slots, KTable(k) = 0, KTable(k)' # 0
          PROVE  \A j \in Cells : tables'[KTable(k)'][j].frame = 0
      BY <2>3, <3>1, <3>4, NewTableType
    <3>5. \A x \in Ids' : x \in Ids \/ x \in 0 .. KHEAP_START - 1
      <4>1. id \in 0 .. KHEAP_START - 1
        BY <2>2, <2>6, Layout
      <4>2. Ids' = Ids \cup {id}
        BY <1>2, <2>3, <3>1 DEF Ids
      <4> QED BY <4>1, <4>2
    <3> QED BY <3>1, <3>2, <3>3, <3>4, <3>5 DEF TableBooted
  <2> QED BY <2>10, <2>11
<1> QED BY <1>3, <1>4

LEMMA BootedEntry ==
    ASSUME PagingInv, TableBooted, NEW v \in Nat, v \div TABLE \in Slots, v % TABLE \in Cells
    PROVE  /\ IsKernelPage(v) => /\ IsKernelPage(v)' /\ EntryIn(tables, v)' = EntryIn(tables, v)
                                 /\ FrameOf(v)' = FrameOf(v)
           /\ ~IsKernelPage(v) /\ IsKernelPage(v)' => FrameOf(v)' = 0
<1>1. PICK i : i = v \div TABLE
  OBVIOUS
<1>2. ASSUME KTable(i) # 0
      PROVE  /\ KTable(i)' = KTable(i) /\ tables'[KTable(i)] = tables[KTable(i)]
  <2>1. KTable(i) \in DOMAIN tables
    BY <1>1, <1>2 DEF PagingInv, DirsInv, KTable
  <2> QED BY <1>1, <1>2, <2>1 DEF TableBooted
<1>3. KTable(i) = 0 /\ KTable(i)' # 0 => tables'[KTable(i)'][v % TABLE].frame = 0
  BY <1>1 DEF TableBooted
<1> QED BY <1>1, <1>2, <1>3 DEF IsKernelPage, FrameOf, FrameIn, EntryIn

LEMMA IdentityTabled ==
    ASSUME PagingInv, KernelInv, Booting, Booting', TableBooted,
           phase' = "heaps" => phase = "heaps", UNCHANGED <<next_page, frames>>
    PROVE  IdentityInv'
<1>1. /\ frames = 0 .. next_page - 1 /\ next_page <= BootEnd /\ next_page \in Nat
      /\ phase = "heaps" => next_page = 0
      /\ \A v \in 0 .. next_page - 1 :
            IsKernelPage(v) /\ FrameOf(v) = v /\ EntryIn(tables, v).present
      /\ \A v \in next_page .. DIRECTORY * TABLE - 1 : IsKernelPage(v) => FrameOf(v) = 0
  BY DEF KernelInv, IdentityInv, PagingInv, BootInv
<1>2. ASSUME NEW v \in 0 .. next_page - 1
      PROVE  (IsKernelPage(v) /\ FrameOf(v) = v /\ EntryIn(tables, v).present)'
  <2>1. v \in Nat /\ v \div TABLE \in Slots /\ v % TABLE \in Cells
    <3>1. v \in 0 .. BootEnd - 1
      BY <1>1, Layout
    <3> QED BY <3>1, KernelPages
  <2>2. IsKernelPage(v)' /\ EntryIn(tables, v)' = EntryIn(tables, v) /\ FrameOf(v)' = FrameOf(v)
    BY <1>1, <2>1, BootedEntry
  <2> QED BY <1>1, <2>2
<1>3. ASSUME NEW v \in next_page .. DIRECTORY * TABLE - 1, IsKernelPage(v)'
      PROVE  FrameOf(v)' = 0
  <2>1. v \in Nat /\ v \div TABLE \in Slots /\ v % TABLE \in Cells
    <3> DEFINE D == DIRECTORY * TABLE
    <3>1. D \in Nat
      BY Layout
    <3> HIDE DEF D
    <3>2. v \in Nat /\ v < D
      BY <1>1, <3>1 DEF D
    <3> QED BY <3>2, PlaceOf DEF D
  <2> QED BY <1>1, <1>3, <2>1, BootedEntry
<1> QED BY <1>1, <1>2, <1>3 DEF IdentityInv, Booting

(* Each step of the boot keeps what the next ones build on.                *)
LEMMA BootAsleep ==
    ASSUME PagingInv, PagingInv', phase \notin {"clone", "run"}, phase' \notin {"clone", "run"},
           KernelInv', FreshInv'
    PROVE  SafeInv' /\ ViewStays
<1>1. phase # "run"
  OBVIOUS
<1>2. DOMAIN view = {}
  BY <1>1 DEF PagingInv, ViewInv
<1>3. RunInv'
  BY DEF RunInv
<1> QED BY <1>2, <1>3 DEF SafeInv, ViewStays

LEMMA FreshBoots ==
    ASSUME FreshInv, phase \notin {"clone", "run"}, phase' \notin {"clone", "run"},
           UNCHANGED <<kheap_used, objects>>,
           \A x \in Ids' : x \in Ids \/ x \in 0 .. KHEAP_START - 1
    PROVE  FreshInv'
<1>1. objects' = {} /\ kheap_used' = {} /\ kheap_used = {}
  BY DEF FreshInv
<1>2. \A x \in Ids' : x \in Nat /\ x < KHEAP_START
  BY <1>1, Layout DEF FreshInv
<1> QED BY <1>1, <1>2 DEF FreshInv

LEMMA TabledSafe ==
    ASSUME SafeInv, PagingInv', Booting, Booting', phase' = "heaps" => phase = "heaps",
           NEW v \in HeapPages \cup 0 .. BootEnd - 1, BootGetPage(v),
           UNCHANGED <<next_page, frames, kheap_used, objects>>
    PROVE  SafeInv' /\ ViewStays
<1>1. PagingInv /\ KernelInv /\ FreshInv
  BY DEF SafeInv
<1>2. TableBooted /\ BootTablesInv'
  BY <1>1, TableBoots
<1>3. IdentityInv'
  BY <1>1, <1>2, IdentityTabled
<1>4. phase \notin {"clone", "run"} /\ phase' \notin {"clone", "run"}
  BY DEF Booting
<1>5. FreshInv'
  BY <1>1, <1>2, <1>4, FreshBoots DEF TableBooted
<1>6. BackedInv'
  BY DEF BackedInv, Booting
<1> QED BY <1>1, <1>2, <1>3, <1>4, <1>5, <1>6, BootAsleep DEF KernelInv

LEMMA MapHeapsSafe ==
    ASSUME SafeInv, MapHeaps
    PROVE  SafeInv' /\ ViewStays
<1>1. /\ phase = "heaps" /\ Booting
      /\ UNCHANGED <<next_page, frames, kheap_end, kheap_used, objects, directory, job, content, view>>
  BY DEF MapHeaps, kheap, Booting
<1>2. PagingInv /\ KernelInv /\ FreshInv /\ PagingInv'
  BY PagingBoot DEF SafeInv, Boot
<1>3. CASE Unmapped # {}
  <2>1. Min(Unmapped) \in HeapPages
    <3>1. Unmapped \in SUBSET HeapPages
      BY DEF Unmapped
    <3>2. Unmapped \in SUBSET Nat /\ IsFiniteSet(Unmapped)
      BY <3>1, HeapPagesType, FS_Subset
    <3> QED BY <1>3, <3>1, <3>2, Extremes
  <2>2. BootGetPage(Min(Unmapped)) /\ phase' = phase
    BY <1>3 DEF MapHeaps
  <2> QED BY <1>1, <1>2, <2>1, <2>2, TabledSafe DEF Booting
<1>4. CASE Unmapped = {}
  <2>1. phase' = "identity" /\ UNCHANGED <<base_address, dirs, tables>>
    BY <1>4 DEF MapHeaps
  <2>2. KernelInv'
    <3>1. /\ \A i : KTable(i)' = KTable(i)
          /\ \A v : /\ IsKernelPage(v)' <=> IsKernelPage(v)
                    /\ EntryIn(tables, v)' = EntryIn(tables, v)
                    /\ FrameOf(v)' = FrameOf(v)
          /\ KSlots' = KSlots
      BY <2>1, KernelSame
    <3>2. Booting /\ Booting' /\ BootSlots' = BootSlots
      BY <1>1, <2>1 DEF Booting, BootSlots
    <3>3. IdentityInv'
      BY <1>1, <1>2, <2>1, <3>1, <3>2 DEF KernelInv, IdentityInv
    <3>4. BootTablesInv'
      BY <1>1, <1>2, <2>1, <3>1, <3>2 DEF KernelInv, BootTablesInv
    <3>5. BackedInv'
      BY <2>1 DEF BackedInv
    <3> QED BY <3>3, <3>4, <3>5 DEF KernelInv
  <2>3. FreshInv'
    <3>1. Ids' = Ids
      BY <2>1 DEF Ids
    <3> QED BY <1>1, <1>2, <2>1, <3>1, FreshBoots
  <2> QED BY <1>1, <1>2, <2>1, <2>2, <2>3, BootAsleep
<1> QED BY <1>3, <1>4

(* bitset::next in a bitset that is full up to n finds n.                  *)
LEMMA FirstFree ==
    ASSUME NEW n \in Nat, Unset(0 .. n - 1) # {}
    PROVE  Nth(0 .. n - 1, 0) = n
<1> DEFINE U == Unset(0 .. n - 1)
<1>1. U \in SUBSET Nat /\ IsFiniteSet(U)
  BY FramesType, FS_Subset DEF Unset
<1>2. Cardinality(U) \in Nat /\ Cardinality(U) # 0
  BY <1>1, FS_CardinalityType, FS_EmptySet
<1>3. \E f \in U : Cardinality(Below(U, f)) = 0
  <2> HIDE DEF U
  <2> QED BY <1>1, <1>2, RankExists
<1>4. PICK f : f = Nth(0 .. n - 1, 0) /\ f \in U /\ Cardinality(Below(U, f)) = 0
  BY <1>3 DEF Nth, Below
<1>5. Below(U, f) = {}
  <2> HIDE DEF U
  <2>1. Below(U, f) \in SUBSET U
    BY DEF Below
  <2> QED BY <1>1, <1>4, <2>1, FS_Subset, FS_EmptySet
<1>6. f \in Frames /\ f \notin 0 .. n - 1 /\ Frames = 0 .. NumFrames - 1 /\ NumFrames \in Nat
  BY <1>4, Sizes DEF Unset, Frames
<1>7. n < f => n \in U
  BY <1>6 DEF Unset
<1>8. ~(n < f)
  <2> HIDE DEF U
  <2> QED BY <1>5, <1>7 DEF Below
<1> QED BY <1>4, <1>6, <1>8

(* The loop stays within boot memory.                                      *)
LEMMA LoopBound ==
    ASSUME PagingInv, KernelInv, Booting, next_page * PAGE < IdentityEnd
    PROVE  next_page < BootEnd
<1> DEFINE c == Cardinality(KSlots)
<1>1. /\ base_address \in Nat /\ next_page \in Nat /\ c \in 0 .. DIRECTORY
      /\ Kernel \in Nat /\ DIRECTORY \in Nat /\ PAGE \in Nat
      /\ base_address <= (Kernel + 3 + 2 * c) * PAGE
  BY KSlotsType, Layout, Sizes DEF PagingInv, BootInv, KernelInv, BootTablesInv
<1> HIDE DEF c
<1>2. PICK n \in Nat : n = Kernel + 3 + 2 * c
  BY <1>1
<1>3. /\ n * PAGE + PAGE = (n + 1) * PAGE /\ n * PAGE \in Nat /\ next_page * PAGE \in Nat
      /\ next_page * PAGE < (n + 1) * PAGE => next_page < n + 1
      /\ (n + 1) * PAGE \in Nat
  <2>1. n + 1 \in Nat
    OBVIOUS
  <2> QED BY <1>1, <2>1, Multiples
<1>4. next_page * PAGE < (n + 1) * PAGE
  BY <1>1, <1>2, <1>3 DEF IdentityEnd
<1> QED BY <1>1, <1>2, <1>3, <1>4, Layout

(* The next page gets the frame of its own number.                         *)
LEMMA IdentityFilled ==
    ASSUME PagingInv, KernelInv, Booting, NEW n \in Nat, n = next_page, n < BootEnd,
           IsKernelPage(n), Filled({n}, FALSE).ok
    PROVE  LET new == Filled({n}, FALSE)
           IN  /\ DOMAIN new.tables = DOMAIN tables /\ new.frames = 0 .. n
               /\ EntryIn(new.tables, n) = Entry(n, TRUE, FALSE)
               /\ \A v \in Nat : /\ v \div TABLE \in Slots /\ v % TABLE \in Cells
                                 /\ IsKernelPage(v) /\ v # n
                                 => EntryIn(new.tables, v) = EntryIn(tables, v)
<1> DEFINE new == Filled({n}, FALSE)
<1>1. n < DIRECTORY * TABLE /\ n \div TABLE \in Slots /\ n % TABLE \in Cells
  <2>1. n \in 0 .. BootEnd - 1
    BY Layout
  <2> QED BY <2>1, KernelPages
<1>2. FrameOf(n) = 0 /\ frames = 0 .. n - 1
  <2>1. n \in n .. DIRECTORY * TABLE - 1
    <3> DEFINE D == DIRECTORY * TABLE
    <3>1. D \in Nat /\ n < D
      BY <1>1, Layout
    <3> HIDE DEF D
    <3>2. n \in n .. D - 1
      BY <3>1
    <3> QED BY <3>2 DEF D
  <2> QED BY <2>1 DEF KernelInv, IdentityInv
<1>3. {n} \in SUBSET Nat /\ IsFiniteSet({n})
  BY FS_Singleton
<1>4. {v \in {n} : FrameOf(v) = 0} = {n}
  BY <1>2
<1>5. PICK fresh \in [{n} -> Unset(frames)] : FilledBy(new, {n}, fresh, FALSE)
  <2>1. \E fresh \in [{v \in {n} : FrameOf(v) = 0} -> Unset(frames)] :
           FilledBy(new, {v \in {n} : FrameOf(v) = 0}, fresh, FALSE)
    BY <1>3, FilledEntries, Zenon DEF PagingInv
  <2> HIDE DEF new
  <2> QED BY <1>4, <2>1
<1> HIDE DEF new
<1>6. fresh[n] = n
  <2>1. fresh[n] = Nth(frames, Cardinality({u \in {n} : u < n}))
    BY <1>5 DEF FilledBy
  <2>2. {u \in {n} : u < n} = {}
    OBVIOUS
  <2>3. fresh[n] = Nth(0 .. n - 1, 0)
    BY <1>2, <2>1, <2>2, FS_EmptySet
  <2>4. Unset(0 .. n - 1) # {}
    BY <1>2, <1>5
  <2> QED BY <2>3, <2>4, FirstFree
<1>7. new.frames = 0 .. n
  <2>1. new.frames = frames \cup {fresh[v] : v \in {n}}
    BY <1>5 DEF FilledBy
  <2>2. new.frames = 0 .. n - 1 \cup {n}
    BY <1>2, <1>6, <2>1
  <2> QED BY <2>2
<1>8. EntryIn(new.tables, n) = Entry(n, TRUE, FALSE)
  <2>1. PICK i \in Slots, j \in Cells : i = n \div TABLE /\ j = n % TABLE /\ i * TABLE + j = n
    BY <1>1, PlaceForth
  <2>2. KTable(i) # 0 /\ i * TABLE + j \in {n}
    BY <2>1 DEF IsKernelPage
  <2>3. new.tables[KTable(i)][j] = Entry(fresh[i * TABLE + j], TRUE, FALSE)
    BY <1>5, <2>2 DEF FilledBy
  <2> QED BY <1>6, <2>1, <2>3 DEF EntryIn
<1>9. /\ DOMAIN new.tables = DOMAIN tables
      /\ \A v \in Nat : /\ v \div TABLE \in Slots /\ v % TABLE \in Cells
                        /\ IsKernelPage(v) /\ v \notin {n}
                        => EntryIn(new.tables, v) = EntryIn(tables, v)
  BY <1>3, FilledKept DEF PagingInv, new
<1> QED BY <1>7, <1>8, <1>9 DEF new

LEMMA IdentityMapSafe ==
    ASSUME SafeInv, IdentityMap
    PROVE  SafeInv' /\ ViewStays
<1>1. PICK n \in Nat : n = next_page
  BY DEF SafeInv, PagingInv, BootInv
<1>2. /\ phase = "identity" /\ phase' = "identity" /\ Booting /\ Booting'
      /\ next_page * PAGE < IdentityEnd
      /\ UNCHANGED <<kheap_end, kheap_used, objects, directory, job, content, view>>
  BY Zenon DEF IdentityMap, Panic, boot, kheap, Booting
<1>3. PagingInv /\ KernelInv /\ FreshInv /\ PagingInv'
  BY PagingBoot DEF SafeInv, Boot
<1>4. n < BootEnd /\ n \in 0 .. BootEnd - 1
  BY <1>1, <1>2, <1>3, LoopBound, Layout
<1>5. CASE ~IsKernelPage(n)
  <2>1. BootGetPage(n) /\ UNCHANGED <<next_page, frames>>
    BY <1>1, <1>5 DEF IdentityMap
  <2> QED BY <1>2, <1>3, <1>4, <2>1, TabledSafe
<1>6. CASE IsKernelPage(n) /\ Filled({n}, FALSE).ok
  <2> DEFINE new == Filled({n}, FALSE)
  <2>1. /\ new.ok /\ tables' = new.tables /\ frames' = new.frames
        /\ next_page' = n + 1 /\ UNCHANGED <<base_address, dirs>>
    BY <1>1, <1>6 DEF IdentityMap
  <2>2. /\ DOMAIN tables' = DOMAIN tables /\ frames' = 0 .. n
        /\ EntryIn(tables', n) = Entry(n, TRUE, FALSE)
        /\ \A v \in Nat : /\ v \div TABLE \in Slots /\ v % TABLE \in Cells
                          /\ IsKernelPage(v) /\ v # n
                          => EntryIn(tables', v) = EntryIn(tables, v)
    BY <1>1, <1>2, <1>3, <1>4, <1>6, <2>1, IdentityFilled
  <2> HIDE DEF new
  <2>3. \A v : EntryIn(tables, v)' = EntryIn(tables', v) /\ (IsKernelPage(v)' <=> IsKernelPage(v))
    BY <2>1 DEF EntryIn, IsKernelPage, KTable
  <2>4. BootTablesInv'
    BY <1>2, <1>3, <2>1 DEF KernelInv, BootTablesInv, Booting, KSlots, BootSlots, KTable
  <2>5. IdentityInv'
    <3>1. /\ frames = 0 .. n - 1
          /\ \A v \in 0 .. n - 1 :
                IsKernelPage(v) /\ FrameOf(v) = v /\ EntryIn(tables, v).present
          /\ \A v \in n .. DIRECTORY * TABLE - 1 : IsKernelPage(v) => FrameOf(v) = 0
      BY <1>1, <1>2, <1>3 DEF KernelInv, IdentityInv
    <3>2. ASSUME NEW v \in 0 .. n
          PROVE  (IsKernelPage(v) /\ FrameOf(v) = v /\ EntryIn(tables, v).present)'
      <4>1. CASE v = n
        BY <1>6, <2>2, <2>3, <4>1 DEF Entry, FrameOf, FrameIn, EntryIn
      <4>2. CASE v # n
        <5>1. v \in 0 .. n - 1 /\ v \in Nat
          BY <4>2
        <5>2. v \div TABLE \in Slots /\ v % TABLE \in Cells
          <6>1. v \in 0 .. BootEnd - 1
            BY <1>4, Layout
          <6> QED BY <6>1, KernelPages
        <5>3. EntryIn(tables, v)' = EntryIn(tables, v)
          BY <2>2, <2>3, <3>1, <4>2, <5>1, <5>2
        <5> QED BY <2>3, <3>1, <5>1, <5>3 DEF FrameOf, FrameIn, EntryIn
      <4> QED BY <4>1, <4>2
    <3>3. ASSUME NEW v \in n + 1 .. DIRECTORY * TABLE - 1, IsKernelPage(v)'
          PROVE  FrameOf(v)' = 0
      <4> DEFINE D == DIRECTORY * TABLE
      <4>1. D \in Nat
        BY Layout
      <4> HIDE DEF D
      <4>2. v \in Nat /\ v < D /\ v # n /\ v \in n .. D - 1
        BY <4>1 DEF D
      <4>3. v \div TABLE \in Slots /\ v % TABLE \in Cells
        BY <4>2, PlaceOf DEF D
      <4>4. EntryIn(tables, v)' = EntryIn(tables, v) /\ FrameOf(v) = 0
        BY <2>2, <2>3, <3>1, <3>3, <4>2, <4>3 DEF D
      <4> QED BY <4>4 DEF FrameOf, FrameIn, EntryIn
    <3>4. n + 1 <= BootEnd /\ (n + 1) - 1 = n
      BY <1>4, Layout
    <3> QED BY <1>2, <2>1, <2>2, <3>2, <3>3, <3>4 DEF IdentityInv, Booting
  <2>6. FreshInv'
    <3>1. Ids' = Ids
      BY <2>1, <2>2 DEF Ids
    <3> QED BY <1>2, <1>3, <3>1, FreshBoots
  <2>7. BackedInv'
    BY <1>2 DEF BackedInv
  <2> QED BY <1>2, <1>3, <2>4, <2>5, <2>6, <2>7, BootAsleep DEF KernelInv
<1>7. CASE IsKernelPage(n) /\ ~Filled({n}, FALSE).ok
  <2>1. Panic
    BY <1>1, <1>7 DEF IdentityMap
  <2> QED BY <2>1, PanicSafe DEF Panic
<1> QED BY <1>5, <1>6, <1>7

(* Backing the heaps leaves boot memory mapped as it is.                   *)
LEMMA BackedSafe ==
    ASSUME SafeInv, PagingInv', NEW pages \in SUBSET HeapPages, NEW rw, Filled(pages, rw).ok,
           tables' = Filled(pages, rw).tables, frames' = Filled(pages, rw).frames,
           frames \subseteq frames',
           phase \in {"identity", "backed"}, phase' \in {"backed", "create"},
           base_address + PAGE <= next_page * PAGE,
           UNCHANGED <<next_page, base_address, dirs, kheap_end, kheap_used, objects, view>>,
           \/ HeapBacked(KHEAP_INITIAL)
           \/ pages = KHEAP_START .. KHEAP_START + KHEAP_INITIAL - 1
    PROVE  SafeInv' /\ ViewStays
<1>1. /\ PagingInv /\ KernelInv /\ FreshInv
      /\ next_page \in Nat /\ base_address \in Nat /\ PAGE \in Nat \ {0}
      /\ next_page <= BootEnd
      /\ \A v \in HeapPages : IsKernelPage(v)
  BY Sizes DEF SafeInv, PagingInv, BootInv, KernelInv, IdentityInv
<1>2. pages \in SUBSET Nat /\ IsFiniteSet(pages)
  BY HeapPagesType, FS_Subset
<1>3. 0 < next_page
  <2>1. 0 * PAGE < next_page * PAGE
    <3>1. next_page * PAGE \in Nat
      BY <1>1
    <3> QED BY <1>1, <3>1
  <2> QED BY <1>1, <2>1, Multiples
<1>4. 0 \in frames
  <2>1. 0 \in 0 .. next_page - 1
    BY <1>1, <1>3
  <2> QED BY <1>1, <2>1 DEF KernelInv, IdentityInv
<1>5. /\ DOMAIN tables' = DOMAIN tables /\ NonzeroKept(tables')
      /\ \A v \in Nat : /\ v \div TABLE \in Slots /\ v % TABLE \in Cells
                        /\ IsKernelPage(v) /\ v \notin pages
                        => EntryIn(tables', v) = EntryIn(tables, v)
      /\ \A v \in pages : /\ v \div TABLE \in Slots /\ v % TABLE \in Cells
                          /\ IsKernelPage(v)
                          => FrameIn(tables', v) # 0
  BY <1>1, <1>2, <1>4, FilledKept DEF PagingInv
<1>6. /\ \A i : KTable(i)' = KTable(i)
      /\ \A v : /\ EntryIn(tables, v)' = EntryIn(tables', v)
                /\ FrameOf(v)' = FrameIn(tables', v) /\ (IsKernelPage(v)' <=> IsKernelPage(v))
  BY DEF KTable, EntryIn, FrameOf, FrameIn, IsKernelPage
<1>7. IdentityInv'
  <2>1. ASSUME NEW v \in 0 .. next_page - 1
        PROVE  (IsKernelPage(v) /\ FrameOf(v) = v /\ EntryIn(tables, v).present)'
    <3>1. v \in Nat /\ v < BootEnd /\ v \in 0 .. BootEnd - 1
      BY <1>1, Layout
    <3>2. v \div TABLE \in Slots /\ v % TABLE \in Cells
      BY <3>1, KernelPages
    <3>3. v \notin HeapPages
      BY <3>1, SMTT(30), Layout, PagingConstants, Sizes DEF HeapPages
    <3>4. IsKernelPage(v) /\ FrameOf(v) = v /\ EntryIn(tables, v).present
      BY <1>1 DEF KernelInv, IdentityInv
    <3>5. EntryIn(tables', v) = EntryIn(tables, v)
      BY <1>5, <3>1, <3>2, <3>3, <3>4
    <3> QED BY <1>6, <3>4, <3>5 DEF FrameOf, FrameIn
  <2>2. 0 .. next_page - 1 \subseteq frames'
    BY <1>1 DEF KernelInv, IdentityInv
  <2> QED BY <1>1, <1>3, <2>1, <2>2 DEF IdentityInv, Booting
<1>8. BootTablesInv'
  <2>1. ASSUME NEW i \in KSlots PROVE KTable(i) < next_page
    <3>1. CASE Booting
      <4>1. (KTable(i) + 1) * PAGE <= base_address
        BY <1>1, <3>1 DEF KernelInv, BootTablesInv
      <4>2. KTable(i) \in Nat
        BY DEF KSlots, KTable, SafeInv, PagingInv, DirsInv, Typed
      <4>3. KTable(i) * PAGE < next_page * PAGE
        <5>1. /\ KTable(i) * PAGE \in Nat /\ KTable(i) * PAGE + PAGE = (KTable(i) + 1) * PAGE
              /\ next_page * PAGE \in Nat
          BY <1>1, <4>2, Multiples
        <5> QED BY <1>1, <4>1, <5>1
      <4> QED BY <1>1, <4>2, <4>3, Multiples
    <3>2. CASE ~Booting
      BY <1>1, <3>2 DEF KernelInv, BootTablesInv
    <3> QED BY <3>1, <3>2
  <2>2. KSlots' = KSlots /\ BootSlots' = BootSlots
    BY <1>6 DEF KSlots, BootSlots
  <2> QED BY <1>1, <1>6, <2>1, <2>2 DEF KernelInv, BootTablesInv, Booting, KSlots
<1>9. ASSUME NEW v \in KHEAP_START .. KHEAP_START + KHEAP_INITIAL - 1 PROVE FrameOf(v)' # 0
  <2>1. v \in HeapPages /\ v \in Nat
    <3>1. v \in KHEAP_START .. KHEAP_END - 1
      BY Layout
    <3> QED BY <3>1, KernelPages
  <2>2. v \div TABLE \in Slots /\ v % TABLE \in Cells /\ IsKernelPage(v)
    BY <1>1, <2>1, HeapPagesType
  <2>3. CASE v \in pages
    BY <1>5, <1>6, <2>2, <2>3
  <2>4. CASE v \notin pages
    <3>1. FrameOf(v) # 0
      BY <2>4 DEF HeapBacked
    <3>2. EntryIn(tables', v) = EntryIn(tables, v)
      BY <1>5, <2>1, <2>2, <2>4
    <3> QED BY <1>6, <3>1, <3>2 DEF FrameOf, FrameIn
  <2> QED BY <2>3, <2>4
<1>10. BackedInv'
  BY <1>9 DEF BackedInv, HeapBacked
<1>11. FreshInv'
  <2>1. Ids' = Ids
    BY <1>5 DEF Ids
  <2>2. phase \notin {"clone", "run"} /\ phase' \notin {"clone", "run"}
    OBVIOUS
  <2> QED BY <1>1, <2>1, <2>2, FreshBoots
<1> QED BY <1>1, <1>7, <1>8, <1>10, <1>11, BootAsleep DEF KernelInv

LEMMA BackHeapsSafe ==
    ASSUME SafeInv, BackHeaps
    PROVE  SafeInv' /\ ViewStays
<1> DEFINE pages == KHEAP_START .. KHEAP_START + KHEAP_INITIAL - 1
<1>1. PagingInv /\ PagingInv'
  BY PagingBoot DEF SafeInv, Boot
<1>2. pages \in SUBSET HeapPages
  <2>1. \A v \in pages : v \in KHEAP_START .. KHEAP_END - 1
    BY Layout
  <2> QED BY <2>1, KernelPages
<1>3. CASE ~Filled(pages, FALSE).ok
  <2>1. Panic
    BY <1>3 DEF BackHeaps
  <2> QED BY <2>1, PanicSafe DEF Panic
<1>4. CASE Filled(pages, FALSE).ok
  <2>1. /\ phase = "identity" /\ phase' = "backed" /\ next_page * PAGE >= IdentityEnd
        /\ tables' = Filled(pages, FALSE).tables /\ frames' = Filled(pages, FALSE).frames
        /\ UNCHANGED <<next_page, base_address, dirs, kheap_end, kheap_used, objects, view>>
    BY <1>4 DEF BackHeaps, kheap
  <2> HIDE DEF pages
  <2>2. base_address + PAGE <= next_page * PAGE
    BY <1>1, <2>1, Sizes DEF IdentityEnd, PagingInv, BootInv
  <2>3. frames \subseteq frames'
    <3>1. pages \in SUBSET Nat /\ IsFiniteSet(pages)
      BY <1>2, HeapPagesType, FS_Subset
    <3> QED BY <1>1, <1>4, <2>1, <3>1, FilledSound DEF PagingInv
  <2> QED BY <1>1, <1>2, <1>4, <2>1, <2>2, <2>3, BackedSafe DEF pages
<1> QED BY <1>3, <1>4

LEMMA BackUserHeapSafe ==
    ASSUME SafeInv, BackUserHeap
    PROVE  SafeInv' /\ ViewStays
<1> DEFINE pages == UHEAP_START .. UHEAP_START + UHEAP_INITIAL - 1
<1>1. PagingInv /\ PagingInv' /\ KernelInv
  BY PagingBoot DEF SafeInv, Boot
<1>2. pages \in SUBSET HeapPages
  <2>1. /\ UHEAP_START \in Nat /\ UHEAP_END \in Nat /\ UHEAP_INITIAL \in Nat
        /\ UHEAP_START + UHEAP_INITIAL <= UHEAP_END
    BY Sizes, PagingConstants
  <2> QED BY <2>1 DEF HeapPages
<1>3. CASE ~Filled(pages, TRUE).ok
  <2>1. Panic
    BY <1>3 DEF BackUserHeap
  <2> QED BY <2>1, PanicSafe DEF Panic
<1>4. CASE Filled(pages, TRUE).ok
  <2>1. /\ phase = "backed" /\ phase' = "create"
        /\ tables' = Filled(pages, TRUE).tables /\ frames' = Filled(pages, TRUE).frames
        /\ UNCHANGED <<next_page, base_address, dirs, kheap_end, kheap_used, objects, view>>
    BY <1>4 DEF BackUserHeap, kheap
  <2> HIDE DEF pages
  <2>2. base_address + PAGE <= next_page * PAGE /\ HeapBacked(KHEAP_INITIAL)
    BY <1>1, <2>1 DEF KernelInv, IdentityInv, BackedInv
  <2>3. frames \subseteq frames'
    <3>1. pages \in SUBSET Nat /\ IsFiniteSet(pages)
      BY <1>2, HeapPagesType, FS_Subset
    <3> QED BY <1>1, <1>4, <2>1, <3>1, FilledSound DEF PagingInv
  <2> QED BY <1>1, <1>2, <1>4, <2>1, <2>2, <2>3, BackedSafe
<1> QED BY <1>3, <1>4

(* Paging comes on: only the kernel's directory exists, and the first task *)
(* has it.                                                                 *)
LEMMA CreateHeapsSafe ==
    ASSUME SafeInv, CreateHeaps
    PROVE  SafeInv' /\ ViewStays
<1>1. /\ phase = "create" /\ phase' = "clone" /\ base_address' = base_address + 1
      /\ kheap_end' = KHEAP_INITIAL /\ kheap_used' = 0 .. KIndex
      /\ UNCHANGED <<next_page, frames, tables, dirs, objects, directory, job, content, view>>
  BY DEF CreateHeaps
<1>2. PagingInv /\ KernelInv /\ FreshInv /\ PagingInv'
  BY PagingBoot DEF SafeInv, Boot
<1>3. /\ \A i : KTable(i)' = KTable(i)
      /\ \A v : /\ EntryIn(tables, v)' = EntryIn(tables, v) /\ FrameOf(v)' = FrameOf(v)
                /\ (IsKernelPage(v)' <=> IsKernelPage(v))
      /\ \A t : TablesOf(t)' = TablesOf(t)
  BY <1>1 DEF KTable, EntryIn, FrameOf, FrameIn, IsKernelPage, TablesOf
<1>4. /\ base_address \in Nat /\ next_page \in Nat /\ next_page <= BootEnd /\ 0 < next_page
      /\ base_address + PAGE <= next_page * PAGE /\ PAGE \in Nat
      /\ DOMAIN dirs = {Kernel} /\ HeapBacked(KHEAP_INITIAL)
      /\ \A v \in 0 .. next_page - 1 :
            IsKernelPage(v) /\ FrameOf(v) = v /\ EntryIn(tables, v).present
      /\ \A i \in KSlots : dirs[Kernel].physical[i] = KTable(i) /\ KTable(i) < next_page
  BY <1>1, <1>2, Sizes DEF PagingInv, BootInv, KernelInv, IdentityInv, BootTablesInv, BackedInv,
     Booting
<1>5. KernelInv'
  <2>1. base_address' + PAGE <= next_page * PAGE + 1
    <3>1. next_page * PAGE \in Nat
      BY <1>4
    <3> QED BY <1>1, <1>4, <3>1
  <2>2. IdentityInv'
    BY <1>1, <1>2, <1>3, <1>4, <2>1 DEF KernelInv, IdentityInv, Booting
  <2>3. BootTablesInv'
    <3>1. KSlots' = KSlots /\ BootSlots' = BootSlots
      BY <1>3 DEF KSlots, BootSlots
    <3> QED BY <1>1, <1>2, <1>3, <3>1 DEF KernelInv, BootTablesInv, Booting, KSlots
  <2>4. BackedInv'
    BY <1>1, <1>3, <1>4, Layout DEF BackedInv, HeapBacked
  <2> QED BY <2>2, <2>3, <2>4 DEF KernelInv
<1>6. FreshInv'
  <2>1. kheap_used = {} /\ objects = {} /\ Ids' = Ids
    BY <1>1, <1>2 DEF FreshInv, Ids
  <2> QED BY <1>1, <1>2, <2>1 DEF FreshInv
<1>7. /\ directory \in [Task -> {0} \cup DOMAIN dirs]
      /\ \A t \in Task : directory[t] = IF t = First THEN Kernel ELSE 0
      /\ \A t \in Task : job[t] = Idle
      /\ DOMAIN view = {}
  BY <1>1, <1>2 DEF PagingInv, JobsInv, InRange, InClone, ViewInv
<1>8. SlotsInv'
  BY <1>1, <1>2, <1>4 DEF PagingInv, DirsInv, SlotsInv, KTable
<1>9. SpacesInv'
  <2>1. \A t \in Known' : Sharing(t)'
    BY <1>1, <1>3, <1>7 DEF Known, Sharing, TablesOf, KTable
  <2> QED BY <1>1, <1>7, <2>1 DEF SpacesInv, Idle
<1>10. WalkInv'
  <2> SUFFICES ASSUME NEW i \in Slots, KTable(i) # 0
               PROVE  Solid(KTable(i))' /\ dirs'[Kernel].physical[i] = FrameOf(KTable(i))'
    BY <1>1, <1>4 DEF WalkInv, KTable
  <2>1. PICK x : x = KTable(i) /\ x = KTable(i)'
    BY <1>3
  <2>2. x \in Nat \ {0} /\ x < next_page /\ dirs[Kernel].physical[i] = x
    <3>1. i \in KSlots
      BY DEF KSlots
    <3>2. KTable(i) \in DOMAIN tables
      BY <1>2 DEF KTable, PagingInv, DirsInv
    <3>3. KTable(i) \in Nat \ {0}
      BY <1>2, <3>2 DEF PagingInv, Typed
    <3> QED BY <1>4, <2>1, <3>1, <3>3
  <2>3. x \in 0 .. next_page - 1 /\ x \in 0 .. BootEnd - 1
    BY <1>4, <2>2, Layout
  <2>4. IsKernelPage(x) /\ FrameOf(x) = x
    BY <1>4, <2>3
  <2>5. Solid(x)' /\ FrameOf(x)' = x
    BY <1>3, <2>2, <2>3, <2>4 DEF Solid
  <2>6. Solid(KTable(i))' /\ FrameOf(KTable(i))' = x
    BY <2>1, <2>5 DEF Solid, FrameOf, FrameIn, EntryIn, IsKernelPage
  <2> QED BY <1>1, <2>2, <2>6
<1>11. MappedInv'
  BY <1>1, <1>7 DEF MappedInv, Pending, Idle
<1> QED BY <1>2, <1>5, <1>6, <1>7, <1>8, <1>9, <1>10, <1>11 DEF SafeInv, RunInv, ViewStays

LEMMA SafeInit == Init => SafeInv
<1> SUFFICES ASSUME Init PROVE SafeInv
  OBVIOUS
<1>1. /\ tables = <<>> /\ DOMAIN tables = {} /\ frames = {} /\ phase = "heaps" /\ next_page = 0
      /\ DOMAIN dirs = {Kernel} /\ dirs[Kernel] = NewDirectory(Kernel + 1)
      /\ base_address = Kernel * PAGE + 2 * PAGE + 1
      /\ kheap_used = {} /\ objects = {}
  BY DEF Init
<1>2. PagingInv
  BY PagingInit
<1>3. \A i \in Slots : KTable(i) = 0
  <2>1. NewDirectory(Kernel + 1).tables = [i \in Slots |-> 0]
    BY DEF NewDirectory, Slots
  <2> QED BY <1>1, <2>1 DEF KTable
<1>4. KSlots = {}
  BY <1>3 DEF KSlots
<1>5. IdentityInv
  <2>1. ASSUME NEW v \in 0 .. DIRECTORY * TABLE - 1 PROVE ~IsKernelPage(v)
    <3> DEFINE D == DIRECTORY * TABLE
    <3>1. D \in Nat
      BY Layout
    <3> HIDE DEF D
    <3>2. v \in Nat /\ v < D
      BY <3>1 DEF D
    <3>3. v \div TABLE \in Slots
      BY <3>2, PlaceOf DEF D
    <3> QED BY <1>3, <3>3 DEF IsKernelPage
  <2> QED BY <1>1, <2>1, Layout DEF IdentityInv, Booting
<1>6. BootTablesInv
  <2>1. Kernel * PAGE + 2 * PAGE + 1 <= (Kernel + 3) * PAGE
    <3>1. /\ Kernel * PAGE + PAGE = (Kernel + 1) * PAGE
          /\ (Kernel + 1) * PAGE + PAGE = (Kernel + 1 + 1) * PAGE
          /\ (Kernel + 1 + 1) * PAGE + PAGE = (Kernel + 1 + 1 + 1) * PAGE
          /\ Kernel * PAGE \in Nat /\ PAGE \in Nat \ {0} /\ Kernel \in Nat
      BY Layout, Multiples, Sizes
    <3>2. (Kernel + 1 + 1 + 1) * PAGE = Kernel * PAGE + PAGE + PAGE + PAGE
      BY <3>1
    <3>3. Kernel + 1 + 1 + 1 = Kernel + 3
      BY <3>1
    <3> QED BY <3>1, <3>2, <3>3
  <2>2. Cardinality(KSlots) = 0
    BY <1>4, FS_EmptySet
  <2>3. Kernel + 3 + 2 * Cardinality(KSlots) = Kernel + 3
    BY <2>2, Layout
  <2> QED BY <1>1, <1>4, <2>1, <2>3 DEF BootTablesInv, Booting
<1>7. FreshInv
  <2>1. Ids = {Kernel} /\ Kernel \in Nat /\ Kernel < KHEAP_START
    BY <1>1, KernelType DEF Ids
  <2> QED BY <1>1, <2>1 DEF FreshInv
<1> QED BY <1>1, <1>2, <1>5, <1>6, <1>7 DEF SafeInv, KernelInv, BackedInv, RunInv

LEMMA SafeNext ==
    ASSUME SafeInv, [Boot \/ Ranges \/ Clone \/ Allocate \/ KeepingRelease]_vars
    PROVE  SafeInv' /\ ViewStays
<1>1. CASE Boot
  BY <1>1, MapHeapsSafe, IdentityMapSafe, BackHeapsSafe, BackUserHeapSafe, CreateHeapsSafe DEF Boot
<1>2. CASE Ranges
  BY <1>2, RangeStartSafe, RangeTableSafe, RangeNextSafe, RangeSetSafe, WriteSafe DEF Ranges
<1>3. CASE Clone
  BY <1>3, CloneDirectorySafe, LinkTableSafe, CopyTableSafe, CloneReturnSafe DEF Clone
<1>4. CASE Allocate
  BY <1>4, HeapAllocSafe DEF Allocate
<1>5. CASE KeepingRelease
  BY <1>5, HeapFreeSafe DEF KeepingRelease
<1>6. CASE UNCHANGED vars
  BY <1>6, PanicSafe DEF vars
<1> QED BY <1>1, <1>2, <1>3, <1>4, <1>5, <1>6

LEMMA SafeMapped == SafeInv => KernelMapped
<1> SUFFICES ASSUME SafeInv PROVE KernelMapped
  OBVIOUS
<1>1. PagingInv /\ KernelInv
  BY DEF SafeInv
<1>2. ASSUME NEW t \in Known, NEW i \in Slots, KTable(i) # 0
      PROVE  TablesOf(t)[i] = KTable(i)
  <2>1. CASE phase \in {"clone", "run"}
    BY <1>2, <2>1 DEF SafeInv, RunInv, SpacesInv, Sharing
  <2>2. CASE phase \notin {"clone", "run"}
    <3>1. directory[t] = Kernel
      BY <1>1, <2>2 DEF Known, PagingInv, JobsInv
    <3> QED BY <3>1 DEF TablesOf, KTable
  <2> QED BY <2>1, <2>2
<1>3. KernelShared
  BY <1>2 DEF KernelShared, Slots
<1>4. ASSUME phase \in {"clone", "run"}, NEW t \in Known,
             NEW v \in 0 .. (base_address - 1) \div PAGE
      PROVE  EntryOf(t, v).frame = v /\ EntryOf(t, v).present
  <2>1. /\ base_address + PAGE <= next_page * PAGE + 1 /\ base_address \in Nat
        /\ next_page \in Nat \ {0} /\ next_page <= BootEnd /\ PAGE \in Nat \ {0}
    BY <1>1, <1>4, Sizes DEF KernelInv, IdentityInv, PagingInv, BootInv, Booting
  <2>2. v < next_page
    <3>1. \A s, b \in Nat, n \in Nat \ {0} : s # 0 /\ b + s <= n * s + 1 =>
             (b - 1) \div s < n
      <4> SUFFICES ASSUME NEW s \in Nat \ {0}, NEW b \in Nat, NEW n \in Nat \ {0},
                          b + s <= n * s + 1
                   PROVE  (b - 1) \div s < n
        OBVIOUS
      <4>1. n * s = (n - 1) * s + s /\ n - 1 \in Nat /\ (n - 1) * s \in Nat /\ n * s \in Nat
        BY SMTT(30)
      <4>2. b - 1 <= (n - 1) * s
        BY <4>1
      <4>3. \A m \in Nat, x \in Int : x <= m * s => x \div s <= m
        BY SMTT(30)
      <4>4. (b - 1) \div s <= n - 1 /\ (b - 1) \div s \in Int
        BY <4>1, <4>2, <4>3
      <4> QED BY <4>4
    <3>2. (base_address - 1) \div PAGE < next_page
      BY <2>1, <3>1
    <3>3. (base_address - 1) \div PAGE \in Int
      BY <2>1
    <3> QED BY <2>1, <3>2, <3>3
  <2>3. v \in 0 .. next_page - 1 /\ v \in 0 .. BootEnd - 1
    BY <2>1, <2>2, Layout
  <2>4. IsKernelPage(v) /\ FrameOf(v) = v /\ EntryIn(tables, v).present
    BY <1>1, <2>3 DEF KernelInv, IdentityInv
  <2>5. v \div TABLE \in Slots
    BY <2>3, KernelPages
  <2>6. EntryOf(t, v) = EntryIn(tables, v)
    BY <1>2, <2>4, <2>5 DEF EntryOf, EntryIn, IsKernelPage
  <2> QED BY <2>4, <2>6 DEF FrameOf, FrameIn
<1>5. IdentityMapped
  BY <1>4 DEF IdentityMapped
<1>6. PhysicalAgrees
  BY DEF PhysicalAgrees, SafeInv, RunInv, WalkInv, Slots
<1> QED BY <1>3, <1>5, <1>6 DEF KernelMapped

(* Every address space is the kernel's where it should be: once paging is  *)
(* on, the memory kalloc gave out before is mapped to itself               *)
(* (paging.cc:147-153), every directory has the kernel's tables where the  *)
(* kernel has one (paging.cc:247-250), and a directory's entries for the   *)
(* processor are the frames of the tables it has for the kernel            *)
(* (paging.cc:250, 254-255).  It does not say where cr3 points.            *)
THEOREM AlwaysKernelMapped == KeepingSpec => []KernelMapped
<1>1. Init => SafeInv
  BY SafeInit
<1>2. SafeInv /\ [Boot \/ Ranges \/ Clone \/ Allocate \/ KeepingRelease]_vars => SafeInv'
  BY SafeNext
<1>3. SafeInv => KernelMapped
  BY SafeMapped
<1> QED BY <1>1, <1>2, <1>3, PTL DEF KeepingSpec

(* AllocFrame never takes a page off the frame it has (paging.cc:102-104): *)
(* a page that a task has stays where it is when the task or another one   *)
(* allocates, forks, or has the kernel heap grow or shrink.                *)
THEOREM FramesAlwaysStay == KeepingSpec => FramesStay
<1>1. Init => SafeInv
  BY SafeInit
<1>2. SafeInv /\ [Boot \/ Ranges \/ Clone \/ Allocate \/ KeepingRelease]_vars => SafeInv'
  BY SafeNext
<1>3. SafeInv /\ [Boot \/ Ranges \/ Clone \/ Allocate \/ KeepingRelease]_vars
      => [\A p \in DOMAIN view : EntryOf(p[1], p[2])' = EntryOf(p[1], p[2])]_vars
  BY SafeNext DEF ViewStays
<1> QED BY <1>1, <1>2, <1>3, PTL DEF KeepingSpec, FramesStay

-----------------------------------------------------------------------------
(* What is in the pages.                                                   *)

(* A copy holds what the original does until the clone is over, for who    *)
(* clones has the processor.                                               *)
CopiesAgree(t) ==
    \A i \in Cloned(t), j \in Cells :
       Orig(t, i)[j].frame # 0 /\ Orig(t, i)[j].present =>
          content[Copy(t, i)[j].frame] = content[Orig(t, i)[j].frame]

ContentInv == Isolation /\ \A t \in Task : job[t].op = "clone" => CopiesAgree(t)

LEMMA ContentStill ==
    ASSUME ContentInv, ViewStays, UNCHANGED <<content, view>>, \A t \in Task : job'[t].op # "clone"
    PROVE  ContentInv'
<1>1. Isolation'
  BY DEF ContentInv, Isolation, ViewStays
<1> QED BY <1>1 DEF ContentInv

LEMMA ContentPanic ==
    ASSUME ContentInv,
           UNCHANGED <<boot, frames, tables, dirs, kheap, directory, job, content, view>>
    PROVE  ContentInv'
<1>1. UNCHANGED <<tables, dirs, directory, job, content, view>>
  OBVIOUS
<1>2. Isolation'
  BY <1>1, TaskSame DEF ContentInv, Isolation
<1>3. ASSUME NEW t \in Task, job'[t].op = "clone" PROVE CopiesAgree(t)'
  <2>1. Cloned(t)' = Cloned(t) /\ \A i : Orig(t, i)' = Orig(t, i) /\ Copy(t, i)' = Copy(t, i)
    BY <1>1 DEF Cloned, Orig, Copy, TablesOf, KTable
  <2>2. CopiesAgree(t)
    BY <1>1, <1>3 DEF ContentInv
  <2> QED BY <1>1, <2>1, <2>2 DEF CopiesAgree
<1> QED BY <1>2, <1>3 DEF ContentInv

LEMMA ContentBoot ==
    ASSUME SafeInv, ContentInv, ViewStays, Boot
    PROVE  ContentInv'
<1>1. phase \notin {"clone", "run"} /\ UNCHANGED <<job, content, view>>
  BY Zenon DEF Boot, MapHeaps, IdentityMap, BackHeaps, BackUserHeap, CreateHeaps, Panic
<1>2. \A t \in Task : job[t] = Idle
  BY <1>1 DEF SafeInv, PagingInv, JobsInv, InRange, InClone
<1> QED BY <1>1, <1>2, ContentStill DEF Idle

(* The steps of a task that leave its pages as they are.                   *)
LEMMA ContentTurn ==
    ASSUME SafeInv, ContentInv, ViewStays, UNCHANGED <<content, view>>, NEW t \in Task, Running(t),
           \A u \in Task \ {t} : job'[u] = job[u], job'[t].op # "clone"
    PROVE  ContentInv'
<1>1. \A u \in Task \ {t} : job[u].op # "clone"
  BY RunningDirectory DEF SafeInv
<1> QED BY <1>1, ContentStill

LEMMA JobsDomain == SafeInv => DOMAIN job = Task
BY DEF SafeInv, PagingInv, JobsInv

LEMMA ContentRange ==
    ASSUME SafeInv, ContentInv, ViewStays, NEW t \in Task,
           \/ \E from, to \in UserPages : RangeStart(t, from, to)
           \/ RangeTable(t) \/ RangeNext(t)
    PROVE  ContentInv'
<1>1. CASE \E from, to \in UserPages : RangeStart(t, from, to)
  <2>1. PICK from, to \in UserPages : RangeStart(t, from, to)
    BY <1>1
  <2>2. /\ Running(t) /\ UNCHANGED <<content, view>>
        /\ job' = [job EXCEPT ![t] = [op |-> "range", i |-> from, end |-> to, index |-> None]]
    BY <2>1 DEF RangeStart
  <2>3. (\A u \in Task \ {t} : job'[u] = job[u]) /\ job'[t].op # "clone"
    BY <2>2, JobsDomain
  <2> QED BY <2>2, <2>3, ContentTurn
<1>2. CASE RangeTable(t)
  <2>1. Running(t) /\ job[t].op = "range" /\ UNCHANGED <<job, content, view>>
    BY <1>2 DEF RangeTable, Panic
  <2> QED BY <2>1, ContentTurn
<1>3. CASE RangeNext(t)
  <2>1. Running(t) /\ job[t].op = "range" /\ UNCHANGED <<content, view>>
    BY <1>3 DEF RangeNext, Panic
  <2>2. CASE UNCHANGED job
    BY <2>1, <2>2, ContentTurn
  <2>3. CASE job' = [job EXCEPT ![t] = IF Skips(t) THEN Advanced(job[t])
                                       ELSE [job[t] EXCEPT !.index = next(frames)]]
    <3>1. /\ \A u \in Task \ {t} : job'[u] = job[u]
          /\ \/ job'[t] = Advanced(job[t])
             \/ job'[t] = [job[t] EXCEPT !.index = next(frames)]
      BY <2>3, JobsDomain
    <3>2. InRange(t)
      BY <2>1, RangePlace DEF SafeInv
    <3>3. CASE job'[t] = Advanced(job[t])
      <4>1. \/ job'[t] = Idle
            \/ job'[t] = [op |-> "range", i |-> job[t].i + 1, end |-> job[t].end, index |-> None]
        BY <3>2, <3>3, AdvancedType DEF SafeInv
      <4>2. job'[t].op # "clone"
        BY <4>1 DEF Idle
      <4> QED BY <2>1, <3>1, <4>2, ContentTurn
    <3>4. CASE job'[t] = [job[t] EXCEPT !.index = next(frames)]
      <4>1. job[t] = [op |-> "range", i |-> job[t].i, end |-> job[t].end, index |-> job[t].index]
        BY <3>2 DEF InRange
      <4>2. job'[t] = [op |-> "range", i |-> job[t].i, end |-> job[t].end, index |-> next(frames)]
        BY <3>4, <4>1
      <4>3. job'[t].op # "clone"
        BY <4>2
      <4> QED BY <2>1, <3>1, <4>3, ContentTurn
    <3> QED BY <3>1, <3>3, <3>4
  <2> QED BY <1>3, <2>2, <2>3 DEF RangeNext, Panic
<1> QED BY <1>1, <1>2, <1>3

LEMMA ContentHeap ==
    ASSUME SafeInv, ContentInv, ViewStays, NEW t \in Task,
           (\E n \in Objects : HeapAlloc(t, n)) \/ (\E o \in objects : HeapFree(t, o))
    PROVE  ContentInv'
<1>1. Running(t) /\ job[t] = Idle /\ UNCHANGED <<job, content, view>>
  BY Zenon DEF HeapAlloc, HeapFree, Panic
<1> QED BY <1>1, ContentTurn DEF Idle

(* No two pages of tasks have a frame in common.                           *)
LEMMA PageFrames ==
    ASSUME SafeInv, OwnerInv, phase \in {"clone", "run"},
           NEW t \in Known, NEW v \in UserPages, Mapped(t, v),
           NEW u \in Known, NEW w \in UserPages, Mapped(u, w),
           EntryOf(t, v).frame = EntryOf(u, w).frame
    PROVE  t = u /\ v = w
<1>1. PagingInv /\ KernelInv /\ SlotsInv /\ SpacesInv
  BY DEF SafeInv, RunInv
<1>2. PICK a, b, i, k :
         a = TablesOf(t)[v \div TABLE] /\ b = TablesOf(u)[w \div TABLE]
         /\ i = v \div TABLE /\ k = w \div TABLE
  OBVIOUS
<1>3. a # 0 /\ b # 0 /\ EntryOf(t, v).present /\ EntryOf(u, w).present
  BY <1>2 DEF Mapped
<1>4. /\ i \in Slots /\ v % TABLE \in Cells /\ a \in DOMAIN tables
      /\ \A x \in Known, l \in Slots : TablesOf(x)[l] = a => x = t /\ l = i
  BY <1>1, <1>2, <1>3, UserTable
<1>5. k \in Slots /\ w % TABLE \in Cells /\ b \in DOMAIN tables
  BY <1>1, <1>2, <1>3, UserTable
<1>6. EntryOf(t, v) = tables[a][v % TABLE] /\ EntryOf(u, w) = tables[b][w % TABLE]
  BY <1>2 DEF EntryOf
<1>7. a = b /\ v % TABLE = w % TABLE
  BY <1>3, <1>4, <1>5, <1>6 DEF OwnerInv, Exclusive
<1>8. t = u /\ i = k
  BY <1>2, <1>4, <1>5, <1>7
<1>9. v \in Nat /\ w \in Nat
  BY UserPagesType
<1>10. v = i * TABLE + (v % TABLE) /\ w = k * TABLE + (w % TABLE)
  BY <1>2, <1>9, PlaceForth
<1> QED BY <1>7, <1>8, <1>10

LEMMA ViewPages ==
    ASSUME SafeInv, phase \in {"clone", "run"}, NEW p \in DOMAIN view
    PROVE  p = <<p[1], p[2]>> /\ p[1] \in Known /\ p[2] \in UserPages /\ Mapped(p[1], p[2])
BY DEF SafeInv, RunInv, MappedInv, PagingInv, ViewInv, Known

LEMMA ContentWrite ==
    ASSUME SafeInv, OwnerInv, ContentInv, ViewStays,
           NEW t \in Task, NEW v \in UserPages, NEW x \in Value, Write(t, v, x)
    PROVE  ContentInv'
<1>1. /\ Running(t) /\ job[t] = Idle /\ <<t, v>> \in DOMAIN view
      /\ content' = [content EXCEPT ![EntryOf(t, v).frame] = x]
      /\ view' = [view EXCEPT ![<<t, v>>] = x] /\ job' = job
  BY DEF Write, EntryOf
<1>2. phase \in {"clone", "run"} /\ \A u \in Task : job'[u].op # "clone"
  BY <1>1, RunningDirectory DEF SafeInv, Idle
<1>3. t \in Known /\ Mapped(t, v)
  BY <1>1, <1>2, ViewPages
<1>4. PICK f : f = EntryOf(t, v).frame
  OBVIOUS
<1>5. f \in Frames
  <2>1. PICK a : a = TablesOf(t)[v \div TABLE]
    OBVIOUS
  <2>2. a \in DOMAIN tables /\ v % TABLE \in Cells
    BY <1>2, <1>3, <2>1, UserTable DEF SafeInv, RunInv, Mapped
  <2>3. f = tables[a][v % TABLE].frame
    BY <1>4, <2>1 DEF EntryOf
  <2> QED BY <2>2, <2>3 DEF SafeInv, PagingInv, Typed
<1>6. content'[f] = x /\ \A g \in Frames : g # f => content'[g] = content[g]
  BY <1>1, <1>4, <1>5 DEF SafeInv, PagingInv, ViewInv
<1>7. ASSUME NEW p \in DOMAIN view PROVE content'[EntryOf(p[1], p[2]).frame] = view'[p]
  <2>1. CASE p = <<t, v>>
    BY <1>1, <1>4, <1>6, <2>1
  <2>2. CASE p # <<t, v>>
    <3>1. p = <<p[1], p[2]>> /\ p[1] \in Known /\ p[2] \in UserPages /\ Mapped(p[1], p[2])
      BY <1>2, ViewPages
    <3>2. PICK g : g = EntryOf(p[1], p[2]).frame
      OBVIOUS
    <3>3. g # f
      BY <1>2, <1>3, <1>4, <2>2, <3>1, <3>2, PageFrames
    <3>4. content'[g] = content[g]
      BY <1>1, <1>4, <3>3
    <3>5. view'[p] = view[p] /\ content[g] = view[p]
      BY <1>1, <2>2, <3>2 DEF ContentInv, Isolation
    <3> QED BY <3>2, <3>4, <3>5
  <2> QED BY <2>1, <2>2
<1>8. Isolation'
  <2>1. DOMAIN view' = DOMAIN view
    BY <1>1
  <2> QED BY <1>7, <2>1 DEF Isolation, ViewStays
<1> QED BY <1>2, <1>8 DEF ContentInv

LEMMA ContentRangeSet ==
    ASSUME SafeInv, ContentInv, ViewStays, NEW t \in Task, RangeSet(t)
    PROVE  ContentInv'
<1>1. /\ Running(t) /\ job[t].op = "range" /\ job[t].index # None
      /\ view' = Extended(view, <<t, job[t].i>>, content[job[t].index])
      /\ job' = [job EXCEPT ![t] = Advanced(job[t])]
      /\ UNCHANGED <<dirs, directory, content>>
  BY DEF RangeSet
<1>2. PICK v \in UserPages, a \in DOMAIN tables, j \in Cells, f \in Frames \ {0} :
         /\ phase = "run" /\ t \in Known /\ Pending(t)
         /\ v = job[t].i /\ f = job[t].index
         /\ a = TablesOf(t)[v \div TABLE] /\ j = v % TABLE /\ v \div TABLE \in Slots
         /\ tables[a][j].frame = 0
         /\ \A k \in Slots : KTable(k) # a
         /\ DOMAIN tables' = DOMAIN tables /\ tables'[a][j] = Entry(f, TRUE, TRUE)
         /\ \A b \in DOMAIN tables, k \in Cells : ~(b = a /\ k = j) =>
               tables'[b][k] = tables[b][k]
  BY RangeSetTables, Zenon
<1>3. EntryOf(t, v)'.frame = f
  <2>1. TablesOf(t)' = TablesOf(t)
    BY <1>1 DEF TablesOf
  <2>2. EntryOf(t, v)' = Entry(f, TRUE, TRUE)
    BY <1>2, <2>1 DEF EntryOf
  <2> QED BY <2>2 DEF Entry
<1>4. /\ DOMAIN view' = DOMAIN view \cup {<<t, v>>} /\ view'[<<t, v>>] = content[f]
      /\ \A p \in DOMAIN view : p # <<t, v>> => view'[p] = view[p]
  BY <1>1, <1>2 DEF Extended
<1>5. ASSUME NEW p \in DOMAIN view' PROVE content'[EntryOf(p[1], p[2])'.frame] = view'[p]
  <2>1. CASE p = <<t, v>>
    <3>1. EntryOf(p[1], p[2])' = EntryOf(t, v)'
      BY <2>1
    <3> QED BY <1>1, <1>3, <1>4, <2>1, <3>1
  <2>2. CASE p # <<t, v>>
    <3>1. p \in DOMAIN view
      BY <1>4, <2>2
    <3>2. EntryOf(p[1], p[2])' = EntryOf(p[1], p[2])
      BY <3>1 DEF ViewStays
    <3> QED BY <1>1, <1>4, <2>2, <3>1, <3>2 DEF ContentInv, Isolation
  <2> QED BY <2>1, <2>2
<1>6. Isolation'
  BY <1>5 DEF Isolation
<1>7. \A u \in Task : job'[u].op # "clone"
  <2>1. InRange(t) /\ \A u \in Task \ {t} : job[u].op # "clone"
    BY <1>1, RangePlace, RunningDirectory DEF SafeInv
  <2>2. (\A u \in Task \ {t} : job'[u] = job[u]) /\ job'[t] = Advanced(job[t])
    BY <1>1, JobsDomain
  <2>3. \/ job'[t] = Idle
        \/ job'[t] = [op |-> "range", i |-> job[t].i + 1, end |-> job[t].end, index |-> None]
    BY <2>1, <2>2, AdvancedType DEF SafeInv
  <2> QED BY <2>1, <2>2, <2>3 DEF Idle
<1> QED BY <1>6, <1>7 DEF ContentInv

LEMMA ContentDirectory ==
    ASSUME SafeInv, ContentInv, ViewStays, NEW t \in Task, NEW c \in Task, CloneDirectory(t, c)
    PROVE  ContentInv'
<1>1. /\ Running(t) /\ UNCHANGED <<content, view>>
      /\ \/ UNCHANGED job
         \/ \E d : job' = [job EXCEPT ![t] = [op |-> "clone", dir |-> d, to |-> c, i |-> 0]]
  BY Zenon DEF CloneDirectory, Panic
<1>2. job[t] = Idle
  BY DEF CloneDirectory
<1>3. CASE UNCHANGED job
  BY <1>1, <1>2, <1>3, ContentTurn DEF Idle
<1>4. ASSUME NEW d, job' = [job EXCEPT ![t] = [op |-> "clone", dir |-> d, to |-> c, i |-> 0]]
      PROVE  ContentInv'
  <2>1. (\A u \in Task \ {t} : job'[u] = job[u] /\ job[u].op # "clone") /\ job'[t].i = 0
    BY <1>1, <1>4, JobsDomain, RunningDirectory DEF SafeInv
  <2>2. Cloned(t)' = {}
    BY <2>1, Sizes DEF Cloned, Slots
  <2>3. Isolation'
    BY <1>1 DEF ContentInv, Isolation, ViewStays
  <2> QED BY <2>1, <2>2, <2>3 DEF ContentInv, CopiesAgree
<1> QED BY <1>1, <1>3, <1>4

LEMMA ContentLink ==
    ASSUME SafeInv, ContentInv, ViewStays, NEW t \in Task, LinkTable(t)
    PROVE  ContentInv'
<1>1. PICK i, a, b :
         /\ i = Min(Left(t)) /\ a = TablesOf(t)[i] /\ b = dirs[directory[t]].physical[i]
         /\ Running(t) /\ job[t].op = "clone" /\ Left(t) # {} /\ a = KTable(i)
         /\ dirs' = TableSet(dirs, job[t].dir, i, a, b)
         /\ job' = [job EXCEPT ![t].i = i + 1]
         /\ UNCHANGED <<tables, directory, content, view>>
  BY DEF LinkTable, TableSet, IsLinked, TablesOf
<1>2. PagingInv /\ SpacesInv /\ \A u \in Task \ {t} : job[u].op # "clone"
  BY <1>1, RunningDirectory DEF SafeInv, RunInv, Running
<1>3. i \in Slots /\ a # 0 /\ b \in Nat
  BY <1>1, <1>2, CloneLeft, CloneNext
<1>4. HasAdvanced(t, i, a)
  <2>1. Advancing(t, i, a, b)
    BY <1>1, <1>3 DEF Advancing
  <2> QED BY <1>2, <2>1, CloneAdvance
<1>5. CopiesAgree(t)'
  <2>1. ASSUME NEW k \in Cloned(t)'
        PROVE  k \in Cloned(t) /\ Orig(t, k)' = Orig(t, k) /\ Copy(t, k)' = Copy(t, k)
    <3>1. k # i /\ k \in Cloned(t) /\ k \in Slots
      BY <1>1, <1>3, <1>4 DEF HasAdvanced, Cloned
    <3>2. dirs'[job'[t].dir].tables[k] = dirs[job[t].dir].tables[k]
      BY <1>4, <3>1 DEF HasAdvanced
    <3>3. tables' = tables /\ TablesOf(t)' = TablesOf(t)
      BY <1>1, <1>4 DEF HasAdvanced
    <3> QED BY <3>1, <3>2, <3>3 DEF Orig, Copy
  <2>2. CopiesAgree(t) /\ content' = content
    BY <1>1 DEF ContentInv
  <2> QED BY <2>1, <2>2 DEF CopiesAgree
<1>6. Isolation'
  BY <1>1 DEF ContentInv, Isolation, ViewStays
<1>7. \A u \in Task \ {t} : job'[u] = job[u]
  BY <1>4 DEF HasAdvanced
<1> QED BY <1>2, <1>5, <1>6, <1>7 DEF ContentInv

(* The copies of a table are made in frames that nothing present has.      *)
LEMMA ContentCopied ==
    ASSUME SafeInv, OwnerInv, ContentInv, ViewStays, NEW t \in Task,
           NEW i, NEW k, NEW need, NEW new, Copied(t, i, k, need, new)
    PROVE  ContentInv'
<1>1. CopyKept(t, i, k)
  BY CopiedKept
<1>2. /\ Running(t) /\ job[t].op = "clone" /\ phase \in {"clone", "run"}
      /\ need = {j \in Cells : Orig(t, i)[j].frame # 0}
      /\ new \in [need -> Unset(k.frames)]
      /\ \A j \in need : tables'[k.page][j].frame = new[j]
      /\ \A f \in Frames : (\A j \in need : new[j] # f) => content'[f] = content[f]
      /\ \A j \in need : content'[new[j]] = content[Orig(t, i)[j].frame]
      /\ UNCHANGED view
  BY DEF Copied
<1>3. /\ HasAdvanced(t, i, k.page) /\ frames \subseteq k.frames
      /\ i \in Slots /\ Copy(t, i)' = tables'[k.page]
      /\ \A l \in Cloned(t)', j \in Cells : Orig(t, l)'[j] = Orig(t, l)[j]
      /\ \A l \in Cloned(t), j \in Cells : l # i => Copy(t, l)'[j] = Copy(t, l)[j]
  BY <1>1 DEF CopyKept
<1>4. PagingInv /\ SlotsInv /\ SpacesInv /\ MappedInv
  BY <1>2 DEF SafeInv, RunInv
<1>5. \A f \in frames : content'[f] = content[f]
  <2> SUFFICES ASSUME NEW f \in frames PROVE content'[f] = content[f]
    OBVIOUS
  <2>1. f \in Frames
    BY <1>4 DEF PagingInv, Typed
  <2>2. \A j \in need : new[j] # f
    BY <1>2, <1>3 DEF Unset
  <2> QED BY <1>2, <2>1, <2>2
<1>6. \A a \in DOMAIN tables, j \in Cells : tables[a][j].present => tables[a][j].frame \in frames
  BY DEF OwnerInv, Exclusive
<1>7. Isolation'
  <2>1. ASSUME NEW p \in DOMAIN view PROVE content'[EntryOf(p[1], p[2]).frame] = view[p]
    <3>1. PICK u, v : u = p[1] /\ v = p[2] /\ u \in Known /\ v \in UserPages /\ Mapped(u, v)
      BY <1>2, ViewPages
    <3>2. PICK a : a = TablesOf(u)[v \div TABLE]
      OBVIOUS
    <3>3. a \in DOMAIN tables /\ v % TABLE \in Cells /\ EntryOf(u, v) = tables[a][v % TABLE]
      BY <1>2, <3>1, <3>2, UserTable DEF Mapped, SafeInv, RunInv, EntryOf
    <3>4. EntryOf(u, v).frame \in frames
      BY <1>6, <3>1, <3>3 DEF Mapped
    <3>5. content[EntryOf(u, v).frame] = view[p]
      BY <3>1 DEF ContentInv, Isolation
    <3> QED BY <1>5, <3>1, <3>4, <3>5
  <2> QED BY <1>2, <2>1 DEF Isolation, ViewStays
<1>8. ASSUME NEW l \in Cloned(t)', NEW j \in Cells, Orig(t, l)'[j].frame # 0, Orig(t, l)'[j].present
      PROVE  content'[Copy(t, l)'[j].frame] = content'[Orig(t, l)'[j].frame]
  <2>1. /\ Orig(t, l)'[j] = Orig(t, l)[j] /\ (l = i \/ l \in Cloned(t))
        /\ TablesOf(t)' = TablesOf(t)
    BY <1>3 DEF HasAdvanced
  <2>2. Orig(t, l)[j].frame # 0 /\ Orig(t, l)[j].present
    BY <1>8, <2>1
  <2>3. content'[Orig(t, l)[j].frame] = content[Orig(t, l)[j].frame]
    <3>1. TablesOf(t)[l] \in DOMAIN tables
      <4>1. l \in Slots /\ TablesOf(t)[l] # 0
        BY <2>1 DEF Cloned
      <4> QED BY <1>2, <1>4, <4>1, RunningDirectory
    <3> QED BY <1>5, <1>6, <2>2, <3>1 DEF Orig
  <2>4. CASE l = i
    <3>1. j \in need
      BY <1>2, <2>2, <2>4
    <3>2. Copy(t, l)'[j].frame = new[j]
      BY <1>2, <1>3, <2>4, <3>1
    <3> QED BY <1>2, <2>1, <2>3, <2>4, <3>1, <3>2
  <2>5. CASE l # i
    <3>1. l \in Cloned(t) /\ l \in Slots /\ KTable(l) = 0 /\ Copy(t, l)'[j] = Copy(t, l)[j]
      BY <1>3, <2>1, <2>5 DEF Cloned
    <3>2. content[Copy(t, l)[j].frame] = content[Orig(t, l)[j].frame]
      BY <1>2, <2>2, <3>1 DEF ContentInv, CopiesAgree
    <3>3. Copy(t, l)[j].frame \in frames
      <4>1. /\ dirs[job[t].dir].tables[l] # 0 /\ Copy(t, l)[j].present
        BY <1>2, <1>4, <2>2, <3>1 DEF MappedInv, ClonedOf
      <4>2. dirs[job[t].dir].tables[l] \in DOMAIN tables
        <5>1. job[t].dir \in DOMAIN dirs
          BY <1>2, <1>4, CloneJob DEF InClone
        <5> QED BY <1>4, <3>1, <4>1, <5>1 DEF PagingInv, DirsInv
      <4> QED BY <1>6, <4>1, <4>2 DEF Copy
    <3> QED BY <1>5, <2>1, <2>3, <3>1, <3>2, <3>3
  <2> QED BY <2>4, <2>5
<1>9. \A u \in Task \ {t} : job'[u].op # "clone"
  BY <1>2, <1>3, <1>4, RunningDirectory DEF HasAdvanced
<1>10. CopiesAgree(t)'
  BY <1>8 DEF CopiesAgree
<1> QED BY <1>7, <1>9, <1>10 DEF ContentInv

LEMMA ContentReturn ==
    ASSUME SafeInv, ContentInv, ViewStays, NEW t \in Task, CloneReturn(t)
    PROVE  ContentInv'
<1>1. PICK c, d : Returned(t, c, d)
  BY CloneReturned
<1>2. /\ job[t].op = "clone" /\ job'[t] = Idle /\ UNCHANGED content
      /\ \A u \in Task \ {t} : job'[u] = job[u] /\ job[u].op # "clone"
      /\ DOMAIN view' = DOMAIN view \cup {<<c, q[2]>> : q \in {r \in DOMAIN view : r[1] = t}}
      /\ \A p \in DOMAIN view' : view'[p] = IF p[1] = c THEN view[<<t, p[2]>>] ELSE view[p]
  BY <1>1 DEF Returned
<1>3. ASSUME NEW p \in DOMAIN view' PROVE content[EntryOf(p[1], p[2])'.frame] = view'[p]
  <2>1. CASE p[1] = c
    <3>1. PICK v, i, j : v = p[2] /\ i = v \div TABLE /\ j = v % TABLE
      OBVIOUS
    <3>2. /\ <<t, v>> \in DOMAIN view /\ view'[p] = view[<<t, v>>]
          /\ i \in Cloned(t) /\ j \in Cells /\ Mapped(t, v)
          /\ EntryOf(t, v) = Orig(t, i)[j]
          /\ EntryOf(p[1], p[2])' = Copy(t, i)[j]
      <4>1. IsChild(t, c, d, p)
        BY <1>1, <2>1, ChildPage
      <4>2. EntryOf(p[1], p[2])' = EntryOf(c, p[2])'
        BY <2>1
      <4> QED BY <3>1, <4>1, <4>2 DEF IsChild
    <3>3. content[EntryOf(t, v).frame] = view[<<t, v>>]
      BY <3>2 DEF ContentInv, Isolation
    <3>4. content[Copy(t, i)[j].frame] = content[Orig(t, i)[j].frame]
      BY <1>2, <3>2 DEF ContentInv, CopiesAgree, Mapped
    <3> QED BY <3>2, <3>3, <3>4
  <2>2. CASE p[1] # c
    <3>1. p \in DOMAIN view
      <4>1. p \notin {<<c, q[2]>> : q \in {r \in DOMAIN view : r[1] = t}}
        BY <2>2
      <4> QED BY <1>2, <4>1
    <3>2. view'[p] = view[p]
      BY <1>2, <2>2
    <3>3. EntryOf(p[1], p[2])' = EntryOf(p[1], p[2])
      BY <3>1 DEF ViewStays
    <3> QED BY <3>1, <3>2, <3>3 DEF ContentInv, Isolation
  <2> QED BY <2>1, <2>2
<1>4. Isolation'
  BY <1>2, <1>3 DEF Isolation
<1> QED BY <1>2, <1>4 DEF ContentInv, Idle

LEMMA ContentNext ==
    ASSUME SafeInv, OwnerInv, ContentInv,
           [Boot \/ Ranges \/ Clone \/ Allocate \/ KeepingRelease]_vars
    PROVE  ContentInv'
<1>1. ViewStays
  BY SafeNext
<1>2. CASE Boot
  BY <1>1, <1>2, ContentBoot
<1>3. CASE Ranges
  BY <1>1, <1>3, ContentRange, ContentRangeSet, ContentWrite DEF Ranges
<1>4. CASE Clone
  <2>1. PICK t \in Task : \/ \E c \in Task : CloneDirectory(t, c)
                          \/ LinkTable(t) \/ CopyTable(t) \/ CloneReturn(t)
    BY <1>4 DEF Clone
  <2>2. CASE CopyTable(t)
    <3>1. Panic \/ \E i, k, need, new : Copied(t, i, k, need, new)
      BY <2>2, CopyTableCopied DEF SafeInv
    <3>2. Panic => ContentInv'
      BY ContentPanic DEF Panic
    <3> QED BY <1>1, <3>1, <3>2, ContentCopied
  <2> QED BY <1>1, <2>1, <2>2, ContentDirectory, ContentLink, ContentReturn
<1>5. CASE Allocate
  BY <1>1, <1>5, ContentHeap DEF Allocate
<1>6. CASE KeepingRelease
  BY <1>1, <1>6, ContentHeap DEF KeepingRelease
<1>7. CASE UNCHANGED vars
  BY <1>7, ContentPanic DEF vars
<1> QED BY <1>2, <1>3, <1>4, <1>5, <1>6, <1>7

(* A task reads in its own pages what it wrote there, or what its parent   *)
(* had when it was forked (task.cc:153-154): when the timer switches no    *)
(* task inside AllocFrame (paging.cc:102-108), a copy that Table::Clone    *)
(* makes is in frames of its own (paging.cc:281-294), holds what the       *)
(* original held, and nothing another task does afterwards reaches it.     *)
THEOREM AlwaysIsolated ==
    ASSUME ~Preemptive
    PROVE  KeepingSpec => []Isolation
<1> DEFINE Inv == SafeInv /\ OwnerInv /\ ContentInv
<1>1. Init => Inv
  <2>1. Init => ContentInv
    BY DEF Init, ContentInv, Isolation, Idle
  <2> QED BY <2>1, SafeInit, PagingInit
<1>2. Inv /\ [Boot \/ Ranges \/ Clone \/ Allocate \/ KeepingRelease]_vars => Inv'
  BY SafeNext, PagingNext, ContentNext DEF SafeInv
<1>3. Inv => Isolation
  BY DEF ContentInv
<1> QED BY <1>1, <1>2, <1>3, PTL DEF KeepingSpec
=============================================================================
