----------------------------- MODULE HeapProofs -----------------------------
(***************************************************************************)
(* Proofs about Heap, under the uses that CarefulSpec allows: the blocks   *)
(* and holes tile the heap, the index holds the holes, what is handed out  *)
(* belongs to one client and no call changes it.                           *)
(***************************************************************************)
EXTENDS Heap, TLAPS, FiniteSetTheorems, SequenceTheorems

-----------------------------------------------------------------------------
(* Numbers.                                                                *)

LEMMA Multiple ==
    ASSUME NEW n \in Int, n % Page = 0
    PROVE  n % Word = 0
<1>1. Page \in Nat /\ Page > 0 /\ Page % 4 = 0
  BY HeapConstants DEF Overhead, Word
<1>2. PICK j \in Int : Page = 4 * j
  BY <1>1
<1>3. PICK k \in Int : n = Page * k
  BY <1>1
<1>4. n = 4 * (j * k) /\ j * k \in Int
  BY <1>2, <1>3
<1> QED BY <1>4 DEF Word

LEMMA Consts ==
    /\ Page \in Nat /\ Page >= 8 /\ Page % 4 = 0
    /\ Start \in Nat /\ InitialEnd \in Nat /\ MaxAddress \in Nat /\ MinSize \in Nat
    /\ Page <= Start /\ Page <= MinSize /\ Start + MinSize <= InitialEnd /\ InitialEnd <= MaxAddress
    /\ Start % 4 = 0 /\ InitialEnd % 4 = 0 /\ MaxAddress % 4 = 0 /\ MinSize % 4 = 0
    /\ SizeMod \in Nat /\ SizeMod > InitialEnd - Start /\ SizeMod > 0
    /\ Word = 4 /\ Overhead = 8
  BY HeapConstants, Multiple DEF Overhead, Word

-----------------------------------------------------------------------------
(* The words of frames.                                                    *)

FrameWord == [magic : BOOLEAN, bits : 0 .. 2 * SizeMod - 1]

LEMMA HeaderWord ==
    ASSUME NEW hole \in {0, 1}, NEW n \in 0 .. SizeMod - 1
    PROVE  /\ Header(hole, n) \in FrameWord
           /\ Header(hole, n).magic /\ HSize(Header(hole, n)) = n
           /\ IsHole(Header(hole, n)) <=> hole = 1
<1>1. n % SizeMod = n
  BY Consts
<1>2. Header(hole, n) = [magic |-> TRUE, bits |-> 2 * n + hole]
  BY <1>1 DEF Header
<1>3. 2 * n + hole \in 0 .. 2 * SizeMod - 1
  BY Consts
<1>4. (2 * n + hole) \div 2 = n /\ (2 * n + hole) % 2 = hole
  BY Consts
<1> QED BY <1>2, <1>3, <1>4 DEF FrameWord, HSize, IsHole

LEMMA WithHSizeWord ==
    ASSUME NEW w \in FrameWord, NEW n \in 0 .. SizeMod - 1
    PROVE  /\ WithHSize(w, n) \in FrameWord
           /\ WithHSize(w, n).magic = w.magic /\ HSize(WithHSize(w, n)) = n
           /\ IsHole(WithHSize(w, n)) <=> IsHole(w)
<1>1. n % SizeMod = n
  BY Consts
<1>2. w.bits \in Nat /\ w.bits % 2 \in {0, 1}
  BY Consts DEF FrameWord
<1>3. PICK o \in {0, 1} : o = w.bits % 2
  BY <1>2
<1>4. WithHSize(w, n) = [magic |-> w.magic, bits |-> 2 * n + o]
  BY <1>1, <1>3 DEF WithHSize, FrameWord
<1>5. 2 * n + o \in 0 .. 2 * SizeMod - 1
  BY Consts
<1>6. (2 * n + o) \div 2 = n /\ (2 * n + o) % 2 = o
  BY Consts
<1> QED BY <1>3, <1>4, <1>5, <1>6 DEF FrameWord, HSize, IsHole

LEMMA MarkedWord ==
    ASSUME NEW w \in FrameWord
    PROVE  /\ AsHole(w) \in FrameWord /\ AsHole(w).magic = w.magic
           /\ HSize(AsHole(w)) = HSize(w) /\ IsHole(AsHole(w))
<1>1. PICK q \in Nat : q = w.bits \div 2 /\ 2 * q + 1 \in 0 .. 2 * SizeMod - 1
  BY Consts DEF FrameWord
<1>2. AsHole(w) = [magic |-> w.magic, bits |-> 2 * q + 1]
  BY <1>1 DEF AsHole, FrameWord
<1>3. (2 * q + 1) \div 2 = q /\ (2 * q + 1) % 2 = 1
  OBVIOUS
<1> QED BY <1>1, <1>2, <1>3 DEF FrameWord, HSize, IsHole

(* The size of a footer, and the bit that is not part of it.               *)
LEMMA FooterBits ==
    ASSUME NEW b \in 0 .. 2 * SizeMod - 1, NEW n \in 0 .. SizeMod - 1
    PROVE  LET c == (b \div SizeMod) * SizeMod + n
           IN  c \in 0 .. 2 * SizeMod - 1 /\ c % SizeMod = n
<1>1. PICK q \in Int : q = b \div SizeMod
  BY Consts
<1>2. q \in {0, 1}
  BY <1>1, Consts
<1>3. CASE q = 0
  BY <1>1, <1>3, Consts
<1>4. CASE q = 1
  <2>1. q * SizeMod + n = SizeMod + n
    BY <1>4, Consts
  <2>2. (SizeMod + n) % SizeMod = n
    BY Consts
  <2> QED BY <1>1, <2>1, <2>2, Consts
<1> QED BY <1>2, <1>3, <1>4

LEMMA FooterWord ==
    ASSUME NEW w \in FrameWord, NEW n \in 0 .. SizeMod - 1
    PROVE  /\ WithFSize(w, n) \in FrameWord
           /\ WithFSize(w, n).magic = w.magic /\ FSize(WithFSize(w, n)) = n
           /\ Footer(w, n) \in FrameWord
           /\ Footer(w, n).magic /\ FSize(Footer(w, n)) = n
<1>1. n % SizeMod = n
  BY Consts
<1>2. w.bits \in 0 .. 2 * SizeMod - 1
  BY DEF FrameWord
<1>3. PICK c \in 0 .. 2 * SizeMod - 1 :
          c = (w.bits \div SizeMod) * SizeMod + n /\ c % SizeMod = n
  BY <1>2, FooterBits
<1>4. WithFSize(w, n) = [magic |-> w.magic, bits |-> c]
  BY <1>1, <1>3 DEF WithFSize, FrameWord
<1>5. WithFSize(w, n) \in FrameWord /\ WithFSize(w, n).bits = c
  BY <1>3, <1>4 DEF FrameWord
<1>6. Footer(w, n) \in FrameWord /\ Footer(w, n).magic /\ Footer(w, n).bits = c
  <2>1. PICK v \in FrameWord : v = WithFSize(w, n) /\ v.bits = c
    BY <1>5
  <2>2. PICK f : f = [v EXCEPT !.magic = TRUE]
    OBVIOUS
  <2>3. f \in FrameWord /\ f.magic /\ f.bits = c
    BY <2>1, <2>2 DEF FrameWord
  <2>4. Footer(w, n) = f
    BY <2>1, <2>2, Zenon DEF Footer
  <2> QED BY <2>3, <2>4
<1> QED BY <1>3, <1>4, <1>5, <1>6 DEF FSize

-----------------------------------------------------------------------------
(* Tilings.  s maps the address of each tile to its size.                  *)

Tiling(s, from, to) ==
    /\ \A h \in DOMAIN s : /\ h \in Words(from, to) /\ s[h] \in Nat
                           /\ s[h] % Word = 0 /\ s[h] >= Overhead /\ h + s[h] <= to
    /\ \A g, h \in DOMAIN s : g < h => g + s[g] <= h
    /\ \A a \in Words(from, to) : \E h \in DOMAIN s : h <= a /\ a < h + s[h]

LEMMA WordSteps ==
    ASSUME NEW a \in Int, NEW b \in Int, a % 4 = 0, b % 4 = 0
    PROVE  (a + b) % 4 = 0 /\ (a - b) % 4 = 0 /\ (a < b => a <= b - 4)
OBVIOUS

(* One tile, and one put behind a tiling.                                  *)
LEMMA OneTile ==
    ASSUME NEW h \in Int, NEW n \in Nat, h % 4 = 0, n % 4 = 0, n >= 8
    PROVE  Tiling([x \in {h} |-> n], h, h + n)
BY Consts, WordSteps DEF Tiling, Words

(* The section from lo to hi of a tiling made anew: r is t there and s     *)
(* elsewhere.  Its end, and with it the whole's, may move.                 *)
Outside(s, lo, hi) == {g \in DOMAIN s : g < lo \/ hi <= g}
Apart(s, lo, hi) ==
    \A g \in DOMAIN s : g + s[g] <= lo \/ (lo <= g /\ g + s[g] <= hi) \/ hi <= g
Remade(s, t, r, lo, hi) ==
    /\ DOMAIN r = Outside(s, lo, hi) \cup DOMAIN t
    /\ \A g \in DOMAIN r : r[g] = IF g \in DOMAIN t THEN t[g] ELSE s[g]

LEMMA Replaced ==
    ASSUME NEW from \in Int, NEW to \in Int, NEW lo \in Int, NEW hi \in Int, NEW hi2 \in Int,
           NEW to2 \in Int, NEW s, NEW t, NEW r,
           Tiling(s, from, to), Tiling(t, lo, hi2), from <= lo, lo <= hi, hi <= to,
           \/ hi2 = hi /\ to2 = to
           \/ hi = to /\ hi2 = to2 /\ lo <= to2,
           Apart(s, lo, hi), Remade(s, t, r, lo, hi)
    PROVE  Tiling(r, from, to2)
<1> DEFINE out == Outside(s, lo, hi)
<1>1. \A g \in out : g \in DOMAIN s /\ (g < lo \/ hi <= g)
  BY DEF Outside
<1>2. \A g \in DOMAIN s : /\ g \in Int /\ from <= g /\ g % 4 = 0 /\ s[g] \in Nat
                          /\ s[g] % 4 = 0 /\ s[g] >= 8 /\ g + s[g] <= to
  BY Consts DEF Tiling, Words
<1>3. \A g \in DOMAIN t : /\ g \in Int /\ lo <= g /\ g % 4 = 0 /\ t[g] \in Nat
                          /\ t[g] % 4 = 0 /\ t[g] >= 8 /\ g + t[g] <= hi2
  BY Consts DEF Tiling, Words
<1>4. \A g \in out : /\ g \notin DOMAIN t /\ r[g] = s[g] /\ g \in DOMAIN r
                     /\ g + s[g] <= lo \/ (hi <= g /\ hi2 = hi /\ to2 = to)
  <2> TAKE g \in out
  <2>1. g + s[g] <= lo \/ hi <= g
    BY <1>2, <1>1 DEF Apart
  <2>2. hi <= g => hi2 = hi /\ to2 = to
    BY <1>2, <1>1
  <2>3. g \notin DOMAIN t
    BY <1>2, <1>3, <1>1, <2>1, <2>2
  <2>4. g \in DOMAIN r /\ r[g] = s[g]
    BY <2>3 DEF Remade
  <2> QED BY <2>1, <2>2, <2>3, <2>4
<1>5. \A g \in DOMAIN t : r[g] = t[g] /\ g \in DOMAIN r
  BY DEF Remade
<1>6. \A g, h \in DOMAIN s : g < h => g + s[g] <= h
  BY DEF Tiling
<1>7. DOMAIN r = out \cup DOMAIN t
  BY DEF Remade
<1> HIDE DEF out
<1>8. lo <= hi2 /\ hi2 <= to2
  BY <1>2
<1>9. \A h \in DOMAIN r : /\ h \in Words(from, to2) /\ r[h] \in Nat
                          /\ r[h] % Word = 0 /\ r[h] >= Overhead /\ h + r[h] <= to2
  <2> TAKE h \in DOMAIN r
  <2>1. CASE h \in DOMAIN t
    BY <1>3, <1>5, <1>8, <2>1, Consts DEF Words
  <2>2. CASE h \in out
    <3>1. h \in DOMAIN s
      BY <2>2, <1>1
    <3> QED BY <1>2, <1>4, <1>8, <2>2, <3>1, Consts DEF Words
  <2> QED BY <1>7, <2>1, <2>2
<1>10. \A g, h \in DOMAIN r : g < h => g + r[g] <= h
  <2> TAKE g \in DOMAIN r, h \in DOMAIN r
  <2> HAVE g < h
  <2>1. CASE g \in DOMAIN t /\ h \in DOMAIN t
    BY <1>5, <2>1 DEF Tiling
  <2>2. CASE g \in out /\ h \in out
    <3>1. g \in DOMAIN s /\ h \in DOMAIN s
      BY <2>2, <1>1
    <3>2. g + s[g] <= h
      BY <3>1, <1>6
    <3> QED BY <1>4, <2>2, <3>2
  <2>3. CASE g \in out /\ h \in DOMAIN t
    <3>1. g \in DOMAIN s
      BY <2>3, <1>1
    <3> QED BY <1>2, <1>3, <1>4, <2>3, <3>1
  <2>4. CASE g \in DOMAIN t /\ h \in out
    <3>1. h \in DOMAIN s
      BY <2>4, <1>1
    <3> QED BY <1>2, <1>3, <1>4, <1>5, <2>4, <3>1
  <2> QED BY <1>7, <2>1, <2>2, <2>3, <2>4
<1>11. ASSUME NEW a \in Words(from, to2) PROVE \E h \in DOMAIN r : h <= a /\ a < h + r[h]
  <2>1. a \in Int /\ from <= a /\ a < to2 /\ a % 4 = 0
    BY Consts DEF Words
  <2>2. CASE lo <= a /\ a < hi2
    <3>1. a \in Words(lo, hi2)
      BY <2>1, <2>2, Consts DEF Words
    <3>2. PICK h \in DOMAIN t : h <= a /\ a < h + t[h]
      BY <3>1 DEF Tiling
    <3> QED BY <3>2, <1>5
  <2>3. CASE a < lo \/ hi2 <= a
    <3>1. a \in Words(from, to)
      BY <2>1, <2>3, <1>8, Consts DEF Words
    <3>2. PICK h \in DOMAIN s : h <= a /\ a < h + s[h]
      BY <3>1 DEF Tiling
    <3>3. h \in out
      <4>1. h < lo \/ hi <= h \/ (lo <= h /\ h + s[h] <= hi)
        BY <1>2, <3>2 DEF Apart
      <4>2. ASSUME lo <= h, h + s[h] <= hi PROVE hi <= h
        BY <1>2, <2>1, <2>3, <3>2, <4>2
      <4>3. h < lo \/ hi <= h
        BY <4>1, <4>2
      <4> QED BY <3>2, <4>3 DEF out, Outside
    <3> QED BY <3>2, <3>3, <1>4
  <2> QED BY <2>1, <2>2, <2>3
<1> QED BY <1>9, <1>10, <1>11 DEF Tiling

(* What stands beside a tile.                                              *)
LEMMA Neighbours ==
    ASSUME NEW from \in Int, NEW to \in Int, NEW s, Tiling(s, from, to), from % 4 = 0,
           NEW h \in DOMAIN s
    PROVE  /\ h + s[h] = to \/ h + s[h] \in DOMAIN s
           /\ h = from \/ \E g \in DOMAIN s : g + s[g] = h
<1>1. \A g \in DOMAIN s : /\ g \in Int /\ from <= g /\ g % 4 = 0 /\ s[g] \in Nat
                          /\ s[g] % 4 = 0 /\ s[g] >= 8 /\ g + s[g] <= to
  BY Consts DEF Tiling, Words
<1>2. ASSUME h + s[h] # to PROVE h + s[h] \in DOMAIN s
  <2>1. PICK a \in Int : a = h + s[h] /\ a % 4 = 0
    BY <1>1, WordSteps
  <2>2. a \in Words(from, to)
    BY <1>1, <1>2, <2>1, Consts DEF Words
  <2>3. PICK g \in DOMAIN s : g <= a /\ a < g + s[g]
    BY <2>2 DEF Tiling
  <2>4. (g < h => g + s[g] <= h) /\ (h < g => h + s[h] <= g)
    BY DEF Tiling
  <2> QED BY <1>1, <2>1, <2>3, <2>4
<1>3. ASSUME h # from PROVE \E g \in DOMAIN s : g + s[g] = h
  <2>1. PICK a \in Int : a = h - 4 /\ a % 4 = 0
    BY <1>1, WordSteps
  <2>2. a \in Words(from, to)
    <3>1. h \in Int /\ from < h /\ h % 4 = 0
      BY <1>1, <1>3
    <3>2. from <= h - 4
      BY <3>1
    <3> QED BY <1>1, <2>1, <3>2, Consts DEF Words
  <2>3. PICK g \in DOMAIN s : g <= a /\ a < g + s[g]
    BY <2>2 DEF Tiling
  <2>4. g < h /\ g + s[g] <= h
    BY <1>1, <2>1, <2>3 DEF Tiling
  <2>5. (g + s[g]) % 4 = 0
    BY <1>1, WordSteps
  <2> QED BY <1>1, <2>1, <2>3, <2>4, <2>5
<1> QED BY <1>2, <1>3

-----------------------------------------------------------------------------
(* Extremes of finite sets of numbers.                                     *)

LEMMA Successor ==
    ASSUME NEW S \in SUBSET Nat, IsFiniteSet(S), 0 \in S
    PROVE  \E n \in S : n + 1 \notin S
<1> SUFFICES ASSUME \A n \in S : n + 1 \in S PROVE FALSE
  OBVIOUS
<1>1. PICK T : T = S \ {0}
  OBVIOUS
<1>2. IsFiniteSet(T) /\ Cardinality(T) = Cardinality(S) - 1 /\ Cardinality(S) \in Nat
  BY <1>1, FS_RemoveElement, FS_CardinalityType
<1>3. PICK f : f = [n \in S |-> n + 1]
  OBVIOUS
<1>4. f \in [S -> T]
  BY <1>1, <1>3
<1>5. Cardinality(T) < Cardinality(S)
  BY <1>2
<1>6. \E x, y \in S : x # y /\ f[x] = f[y]
  BY <1>2, <1>4, <1>5, FS_PigeonHole
<1> QED BY <1>3, <1>6

LEMMA Greatest ==
    ASSUME NEW b \in Nat, NEW S \in SUBSET (0 .. b), S # {}
    PROVE  \E m \in S : \A x \in S : x <= m
<1>1. PICK T : T = {n \in Nat : \E x \in S : n <= x}
  OBVIOUS
<1>2. T \in SUBSET Nat /\ 0 \in T /\ \A n \in T : n <= b
  <2>1. PICK x \in S : x \in 0 .. b
    OBVIOUS
  <2>2. 0 \in T
    BY <1>1, <2>1
  <2>3. ASSUME NEW n \in T PROVE n \in Nat /\ n <= b
    <3>1. PICK y \in S : n \in Nat /\ n <= y
      BY <1>1
    <3>2. y \in 0 .. b
      BY <3>1
    <3> QED BY <3>1, <3>2
  <2> QED BY <2>2, <2>3
<1>3. IsFiniteSet(T)
  BY <1>2, FS_BoundedSetOfNaturals
<1>4. PICK n \in T : n + 1 \notin T
  BY <1>2, <1>3, Successor
<1>5. n \in Nat /\ \A x \in S : ~(n + 1 <= x)
  BY <1>1, <1>2, <1>4
<1>6. PICK m \in S : n <= m
  BY <1>1, <1>4
<1>7. \A x \in S : x <= n
  BY <1>5
<1> QED BY <1>5, <1>6, <1>7

LEMMA Least ==
    ASSUME NEW S \in SUBSET Nat, S # {}
    PROVE  \E m \in S : \A x \in S : m <= x
<1>1. PICK y \in S : TRUE
  OBVIOUS
<1>2. PICK T : T = {n \in Nat : \A x \in S : n <= x}
  OBVIOUS
<1>3. T \in SUBSET Nat /\ 0 \in T /\ \A n \in T : n <= y
  BY <1>1, <1>2
<1>4. IsFiniteSet(T)
  BY <1>1, <1>3, FS_BoundedSetOfNaturals
<1>5. PICK n \in T : n + 1 \notin T
  BY <1>3, <1>4, Successor
<1>6. n \in Nat /\ \A x \in S : n <= x
  BY <1>2, <1>5
<1>7. PICK x \in S : ~(n + 1 <= x)
  BY <1>2, <1>5, <1>6
<1>8. x = n
  BY <1>6, <1>7
<1> QED BY <1>6, <1>8

-----------------------------------------------------------------------------
(* The index.                                                              *)

Elements(ix) == {ix[i] : i \in DOMAIN ix}
OneOne(ix)   == \A i, j \in DOMAIN ix : ix[i] = ix[j] => i = j

LEMMA Prefix ==
    ASSUME NEW S, NEW s \in Seq(S), NEW n \in 0 .. Len(s)
    PROVE  /\ SubSeq(s, 1, n) \in Seq(S) /\ Len(SubSeq(s, 1, n)) = n
           /\ \A k \in 1 .. n : SubSeq(s, 1, n)[k] = s[k]
<1>1. Len(s) \in Nat /\ n \in Nat /\ \A k \in 1 .. n : s[k] \in S
  BY LenProperties, ElementOfSeq
<1>2. /\ SubSeq(s, 1, n) \in Seq(S)
      /\ Len(SubSeq(s, 1, n)) = IF 1 <= n THEN n - 1 + 1 ELSE 0
      /\ \A k \in 1 .. n - 1 + 1 : SubSeq(s, 1, n)[k] = s[1 + k - 1]
  BY <1>1, SubSeqProperties
<1> QED BY <1>1, <1>2

LEMMA Suffix ==
    ASSUME NEW S, NEW s \in Seq(S), NEW n \in 0 .. Len(s)
    PROVE  /\ SubSeq(s, n + 1, Len(s)) \in Seq(S)
           /\ Len(SubSeq(s, n + 1, Len(s))) = Len(s) - n
           /\ \A k \in 1 .. Len(s) - n : SubSeq(s, n + 1, Len(s))[k] = s[n + k]
<1>1. Len(s) \in Nat /\ n \in Nat /\ \A k \in n + 1 .. Len(s) : s[k] \in S
  BY LenProperties, ElementOfSeq
<1>2. PICK b : b = SubSeq(s, n + 1, Len(s))
  OBVIOUS
<1>3. /\ b \in Seq(S) /\ Len(b) = IF n + 1 <= Len(s) THEN Len(s) - (n + 1) + 1 ELSE 0
      /\ \A k \in 1 .. Len(s) - (n + 1) + 1 : b[k] = s[n + 1 + k - 1]
  BY <1>1, <1>2, SubSeqProperties
<1>4. Len(b) = Len(s) - n
  BY <1>1, <1>3
<1>5. ASSUME NEW k \in 1 .. Len(s) - n PROVE b[k] = s[n + k]
  <2>1. k \in 1 .. Len(s) - (n + 1) + 1 /\ n + 1 + k - 1 = n + k
    BY <1>1
  <2> QED BY <1>3, <2>1
<1> QED BY <1>2, <1>3, <1>4, <1>5

(* An item between two sequences.                                          *)
LEMMA Between ==
    ASSUME NEW S, NEW a \in Seq(S), NEW b \in Seq(S), NEW h \in S
    PROVE  /\ a \o <<h>> \o b \in Seq(S)
           /\ Len(a \o <<h>> \o b) = Len(a) + 1 + Len(b)
           /\ \A i \in 1 .. Len(a) + 1 + Len(b) :
                  (a \o <<h>> \o b)[i] = IF i <= Len(a) THEN a[i]
                                         ELSE IF i = Len(a) + 1 THEN h ELSE b[i - (Len(a) + 1)]
<1>1. PICK m \in Nat, n \in Nat : m = Len(a) /\ n = Len(b)
  BY LenProperties
<1>2. <<h>> \in Seq(S) /\ Len(<<h>>) = 1 /\ <<h>>[1] = h
  OBVIOUS
<1>3. PICK c \in Seq(S) :
          /\ c = a \o <<h>> /\ Len(c) = m + 1
          /\ \A i \in 1 .. m + 1 : c[i] = IF i <= m THEN a[i] ELSE h
  <2>1. PICK one \in Seq(S) : one = <<h>> /\ Len(one) = 1 /\ one[1] = h
    BY <1>2
  <2>2. /\ a \o one \in Seq(S) /\ Len(a \o one) = Len(a) + Len(one)
        /\ \A i \in 1 .. Len(a) + Len(one) : (a \o one)[i] =
               IF i <= Len(a) THEN a[i] ELSE one[i - Len(a)]
    BY <2>1, ConcatProperties
  <2>3. PICK c \in Seq(S) : /\ c = a \o one /\ Len(c) = m + 1
                            /\ \A i \in 1 .. m + 1 : c[i] = IF i <= m THEN a[i] ELSE one[i - m]
    BY <1>1, <2>1, <2>2
  <2>4. ASSUME NEW i \in 1 .. m + 1 PROVE c[i] = IF i <= m THEN a[i] ELSE h
    <3>1. i <= m \/ i - m = 1
      OBVIOUS
    <3> QED BY <2>1, <2>3, <3>1
  <2> QED BY <2>1, <2>3, <2>4
<1>4. PICK p \in Nat : p = m + 1
  OBVIOUS
<1>5. /\ c \o b \in Seq(S) /\ Len(c \o b) = p + n
      /\ \A i \in 1 .. p + n : (c \o b)[i] = IF i <= p THEN c[i] ELSE b[i - p]
  <2>1. Len(c) = p
    BY <1>3, <1>4
  <2> QED BY <1>1, <2>1, ConcatProperties
<1>6. PICK d : d = c \o b
  OBVIOUS
<1>7. ASSUME NEW i \in 1 .. m + 1 + n
      PROVE  d[i] = IF i <= m THEN a[i] ELSE IF i = m + 1 THEN h ELSE b[i - (m + 1)]
  BY <1>3, <1>4, <1>5, <1>6, SMTT(30)
<1> QED BY <1>1, <1>3, <1>4, <1>5, <1>6, <1>7

LEMMA InsertedIndex ==
    ASSUME NEW ix \in Seq(Int), NEW m, NEW h \in Int, OneOne(ix), h \notin Elements(ix)
    PROVE  /\ Inserted(ix, m, h) \in Seq(Int)
           /\ Len(Inserted(ix, m, h)) = Len(ix) + 1
           /\ Elements(Inserted(ix, m, h)) = Elements(ix) \cup {h}
           /\ OneOne(Inserted(ix, m, h))
<1> DEFINE smaller(n) == \A i \in 1 .. n : HSize(m[ix[i]]) < HSize(m[h])
           here(n) == smaller(n) /\ (n = Len(ix) \/ ~smaller(n + 1))
<1>1. PICK l \in Nat : l = Len(ix) /\ DOMAIN ix = 1 .. l
  BY LenProperties
<1>2. \E n \in 0 .. l : here(n)
  <2>1. PICK T : T = {n \in 0 .. l : smaller(n)}
    OBVIOUS
  <2> HIDE DEF smaller
  <2>2. smaller(0)
    BY DEF smaller
  <2>3. 0 \in T /\ T \in SUBSET Nat /\ \A n \in T : n <= l
    BY <2>1, <2>2
  <2>4. IsFiniteSet(T)
    BY <2>3, FS_BoundedSetOfNaturals
  <2>5. PICK n \in T : n + 1 \notin T
    BY <2>3, <2>4, Successor
  <2>6. n \in 0 .. l /\ smaller(n) /\ (n = l \/ ~smaller(n + 1))
    BY <2>1, <2>5
  <2> QED BY <1>1, <2>6
<1>3. PICK k \in 0 .. l : k = CHOOSE n \in 0 .. Len(ix) : here(n)
  <2>1. \E n \in 0 .. Len(ix) : here(n)
    BY <1>1, <1>2
  <2>2. (CHOOSE n \in 0 .. Len(ix) : here(n)) \in 0 .. Len(ix)
    <3> HIDE DEF here
    <3> QED BY <2>1
  <2> QED BY <1>1, <2>2
<1> HIDE DEF here, smaller
<1>4. PICK a \in Seq(Int) : /\ a = SubSeq(ix, 1, k) /\ Len(a) = k
                            /\ \A i \in 1 .. k : a[i] = ix[i]
  BY <1>1, Prefix, ZenonT(40)
<1>5. PICK b \in Seq(Int) : /\ b = SubSeq(ix, k + 1, Len(ix)) /\ Len(b) = l - k
                            /\ \A i \in 1 .. l - k : b[i] = ix[k + i]
  <2>1. /\ SubSeq(ix, k + 1, Len(ix)) \in Seq(Int)
        /\ Len(SubSeq(ix, k + 1, Len(ix))) = Len(ix) - k
        /\ \A i \in 1 .. Len(ix) - k : SubSeq(ix, k + 1, Len(ix))[i] = ix[k + i]
    BY <1>1, Suffix
  <2> QED BY <1>1, <2>1
<1>6. PICK n \in Nat : n = l - k
  OBVIOUS
<1>7. PICK r \in Seq(Int) :
          /\ r = a \o <<h>> \o b /\ Len(r) = k + 1 + n
          /\ \A i \in 1 .. k + 1 + n :
                 r[i] = IF i <= k THEN a[i] ELSE IF i = k + 1 THEN h ELSE b[i - (k + 1)]
  <2>1. Len(a) = k /\ Len(b) = n /\ k \in Nat
    BY <1>4, <1>5, <1>6
  <2>2. /\ a \o <<h>> \o b \in Seq(Int)
        /\ Len(a \o <<h>> \o b) = Len(a) + 1 + Len(b)
        /\ \A i \in 1 .. Len(a) + 1 + Len(b) :
               (a \o <<h>> \o b)[i] = IF i <= Len(a) THEN a[i]
                                      ELSE IF i = Len(a) + 1 THEN h ELSE b[i - (Len(a) + 1)]
    BY Between
  <2> QED BY <2>1, <2>2
<1>8. r = Inserted(ix, m, h)
  BY <1>3, <1>4, <1>5, <1>7, Zenon DEF Inserted, here, smaller
<1>9. /\ r \in Seq(Int) /\ Len(r) = k + 1 + n
      /\ \A i \in 1 .. k + 1 + n :
             r[i] = IF i <= k THEN a[i] ELSE IF i = k + 1 THEN h ELSE b[i - (k + 1)]
  BY <1>7
<1>10. k + 1 + n = l + 1 /\ DOMAIN r = 1 .. l + 1
  BY <1>6, <1>9, LenProperties
<1>11. ASSUME NEW i \in 1 .. l + 1
       PROVE  r[i] = IF i <= k THEN ix[i] ELSE IF i = k + 1 THEN h ELSE ix[i - 1]
  <2>1. CASE i <= k
    BY <1>4, <1>9, <1>10, <2>1
  <2>2. CASE i = k + 1
    BY <1>9, <1>10, <2>2
  <2>3. CASE i > k + 1
    <3>1. PICK j \in 1 .. l - k : j = i - (k + 1) /\ k + j = i - 1
      BY <2>3
    <3>2. b[j] = ix[i - 1]
      BY <1>5, <3>1
    <3> QED BY <1>9, <1>10, <2>3, <3>1, <3>2, SMTT(30)
  <2> QED BY <2>1, <2>2, <2>3
<1>12. /\ \A x : x \in Elements(ix) <=> \E i \in 1 .. l : x = ix[i]
       /\ \A x : x \in Elements(r) <=> \E i \in 1 .. l + 1 : x = r[i]
  BY <1>1, <1>10 DEF Elements
<1>13. Elements(r) = Elements(ix) \cup {h}
  <2>1. ASSUME NEW x \in Elements(r) PROVE x \in Elements(ix) \cup {h}
    <3>1. PICK i \in 1 .. l + 1 : x = r[i]
      BY <1>12
    <3>2. CASE i = k + 1
      BY <1>11, <3>1, <3>2
    <3>3. CASE i # k + 1
      <4>1. \E j \in 1 .. l : x = ix[j]
        BY <1>11, <3>1, <3>3
      <4> QED BY <1>12, <4>1
    <3> QED BY <3>2, <3>3
  <2>2. ASSUME NEW x \in Elements(ix) PROVE x \in Elements(r)
    <3>1. PICK i \in 1 .. l : x = ix[i]
      BY <1>12
    <3>2. \E j \in 1 .. l + 1 : r[j] = ix[i]
      <4>1. CASE i <= k
        BY <1>11, <4>1
      <4>2. CASE i > k
        <5>1. i + 1 \in 1 .. l + 1 /\ ~(i + 1 <= k) /\ i + 1 # k + 1 /\ (i + 1) - 1 = i
          BY <4>2
        <5> QED BY <1>11, <5>1
      <4> QED BY <4>1, <4>2
    <3> QED BY <1>12, <3>1, <3>2
  <2>3. h \in Elements(r)
    <3>1. r[k + 1] = h /\ k + 1 \in 1 .. l + 1
      BY <1>11
    <3> QED BY <1>12, <3>1
  <2> QED BY <2>1, <2>2, <2>3
<1>14. OneOne(r)
  <2> SUFFICES ASSUME NEW i \in 1 .. l + 1, NEW j \in 1 .. l + 1, r[i] = r[j] PROVE i = j
    BY <1>10 DEF OneOne
  <2>1. \A p \in 1 .. l : ix[p] # h
    BY <1>1 DEF Elements
  <2>2. \A p, q \in 1 .. l : ix[p] = ix[q] => p = q
    BY <1>1 DEF OneOne
  <2>3. CASE i = k + 1 \/ j = k + 1
    <3>1. ASSUME NEW x \in 1 .. l + 1, x # k + 1 PROVE r[x] # h
      <4>1. PICK p \in 1 .. l : p = IF x <= k THEN x ELSE x - 1
        BY <3>1
      <4>2. r[x] = ix[p]
        BY <1>11, <3>1, <4>1
      <4> QED BY <2>1, <4>2
    <3>2. r[k + 1] = h
      BY <1>11
    <3> QED BY <2>3, <3>1, <3>2
  <2>4. CASE i # k + 1 /\ j # k + 1
    <3>1. PICK p \in 1 .. l : r[i] = ix[p] /\ ((i <= k /\ p = i) \/ (i > k + 1 /\ p = i - 1))
      BY <1>11, <2>4
    <3>2. PICK q \in 1 .. l : r[j] = ix[q] /\ ((j <= k /\ q = j) \/ (j > k + 1 /\ q = j - 1))
      BY <1>11, <2>4
    <3>3. p = q
      BY <2>2, <3>1, <3>2
    <3> QED BY <2>4, <3>1, <3>2, <3>3
  <2> QED BY <2>3, <2>4
<1> QED BY <1>1, <1>8, <1>9, <1>10, <1>13, <1>14

LEMMA RemovedIndex ==
    ASSUME NEW ix \in Seq(Int), OneOne(ix), NEW i \in 1 .. Len(ix)
    PROVE  /\ Removed(ix, i) \in Seq(Int)
           /\ Len(Removed(ix, i)) = Len(ix) - 1
           /\ Elements(Removed(ix, i)) = Elements(ix) \ {ix[i]}
           /\ OneOne(Removed(ix, i))
<1>1. PICK l \in Nat : l = Len(ix) /\ DOMAIN ix = 1 .. l
  BY LenProperties
<1>2. i \in 1 .. l /\ i - 1 \in 0 .. l /\ i \in 0 .. l
  BY <1>1
<1>3. PICK a \in Seq(Int) : /\ a = SubSeq(ix, 1, i - 1) /\ Len(a) = i - 1
                            /\ \A j \in 1 .. i - 1 : a[j] = ix[j]
  BY <1>1, <1>2, Prefix
<1>4. PICK b \in Seq(Int) : /\ b = SubSeq(ix, i + 1, Len(ix)) /\ Len(b) = l - i
                            /\ \A j \in 1 .. l - i : b[j] = ix[i + j]
  <2>1. /\ SubSeq(ix, i + 1, Len(ix)) \in Seq(Int)
        /\ Len(SubSeq(ix, i + 1, Len(ix))) = Len(ix) - i
        /\ \A j \in 1 .. Len(ix) - i : SubSeq(ix, i + 1, Len(ix))[j] = ix[i + j]
    BY <1>1, <1>2, Suffix
  <2> QED BY <1>1, <2>1
<1>5. PICK r : r = a \o b
  OBVIOUS
<1>6. r = Removed(ix, i)
  BY <1>3, <1>4, <1>5 DEF Removed
<1>7. /\ r \in Seq(Int) /\ Len(r) = (i - 1) + (l - i)
      /\ \A j \in 1 .. (i - 1) + (l - i) :
             r[j] = IF j <= i - 1 THEN a[j] ELSE b[j - (i - 1)]
  <2>1. /\ r \in Seq(Int) /\ Len(r) = Len(a) + Len(b)
        /\ \A j \in 1 .. Len(a) + Len(b) : r[j] = IF j <= Len(a) THEN a[j] ELSE b[j - Len(a)]
    BY <1>5, ConcatProperties
  <2> QED BY <1>3, <1>4, <2>1
<1>8. (i - 1) + (l - i) = l - 1 /\ DOMAIN r = 1 .. l - 1
  BY <1>2, <1>7, LenProperties
<1>9. ASSUME NEW j \in 1 .. l - 1 PROVE r[j] = IF j < i THEN ix[j] ELSE ix[j + 1]
  <2>1. CASE j < i
    <3>1. j \in 1 .. i - 1
      BY <1>2, <2>1
    <3> QED BY <1>3, <1>7, <1>8, <2>1, <3>1, SMTT(30)
  <2>2. CASE j >= i
    <3>1. PICK p \in 1 .. l - i : p = j - (i - 1) /\ i + p = j + 1
      BY <1>2, <2>2
    <3>2. b[p] = ix[j + 1]
      BY <1>4, <3>1
    <3> QED BY <1>2, <1>7, <1>8, <2>2, <3>1, <3>2, SMTT(30)
  <2> QED BY <1>2, <2>1, <2>2
<1>10. \A p, q \in 1 .. l : ix[p] = ix[q] => p = q
  BY <1>1 DEF OneOne
<1>11. Elements(r) = Elements(ix) \ {ix[i]}
  <2>1. ASSUME NEW x \in Elements(r) PROVE x \in Elements(ix) \ {ix[i]}
    <3>1. PICK j \in 1 .. l - 1 : x = r[j]
      BY <1>8 DEF Elements
    <3>2. PICK p \in 1 .. l : x = ix[p] /\ p # i
      BY <1>2, <1>9, <3>1
    <3> QED BY <1>1, <1>2, <1>10, <3>2 DEF Elements
  <2>2. ASSUME NEW x \in Elements(ix) \ {ix[i]} PROVE x \in Elements(r)
    <3>1. PICK p \in 1 .. l : x = ix[p] /\ p # i
      BY <1>1 DEF Elements
    <3>2. \E j \in 1 .. l - 1 : r[j] = ix[p]
      <4>1. CASE p < i
        <5>1. p \in 1 .. l - 1
          BY <1>2, <4>1
        <5> QED BY <1>9, <4>1, <5>1
      <4>2. CASE p > i
        <5>1. p - 1 \in 1 .. l - 1 /\ ~(p - 1 < i) /\ (p - 1) + 1 = p
          BY <1>2, <4>2
        <5> QED BY <1>9, <5>1
      <4> QED BY <1>2, <3>1, <4>1, <4>2
    <3> QED BY <1>8, <3>1, <3>2 DEF Elements
  <2> QED BY <2>1, <2>2
<1>12. OneOne(r)
  <2> SUFFICES ASSUME NEW j \in 1 .. l - 1, NEW n \in 1 .. l - 1, r[j] = r[n] PROVE j = n
    BY <1>8 DEF OneOne
  <2>1. PICK p \in 1 .. l : p = IF j < i THEN j ELSE j + 1
    BY <1>2
  <2>2. PICK q \in 1 .. l : q = IF n < i THEN n ELSE n + 1
    BY <1>2
  <2>3. r[j] = ix[p] /\ r[n] = ix[q]
    BY <1>9, <2>1, <2>2
  <2>4. p = q
    BY <1>10, <2>3
  <2> QED BY <1>2, <2>1, <2>2, <2>4
<1> QED BY <1>1, <1>6, <1>7, <1>8, <1>11, <1>12

-----------------------------------------------------------------------------
(* The invariant.                                                          *)

Tiles  == Holes \cup Blocks
Sizes  == [h \in Tiles |-> SizeAt(h)]
Memory == [Words(Start - Word, MaxAddress) -> FrameWord]

(* The heap's registers, and its limits.                                   *)
ShapeInv ==
    /\ mem \in Memory /\ ~mem[Start - Word].magic
    /\ index \in Seq(Int) /\ OneOne(index) /\ Len(index) < Capacity
    /\ end_address \in Int /\ end_address % Page = 0
    /\ Start + MinSize <= end_address /\ end_address <= MaxAddress
    /\ end_address - Start < SizeMod
    /\ backed \subseteq {a \in Start .. MaxAddress - 1 : a % Page = 0}
    /\ {a \in Start .. end_address - 1 : a % Page = 0} \subseteq backed
    /\ req \in Requests \cup {NoRequest}
    /\ status = "ok"

(* Blocks and holes, their frames and which of them are which.             *)
FrameInv ==
    /\ Tiling(Sizes, Start, end_address)
    /\ \A h \in Tiles : Framed(h)
    /\ \A h \in Holes : IsHole(mem[h]) /\ h + SizeAt(h) \notin Holes
    /\ \A h \in Blocks : ~IsHole(mem[h])

(* What clients hold.                                                      *)
ClientInv ==
    /\ \A b \in live : /\ b.p \in Int /\ b.size \in Nat /\ b.size % Word = 0
                       /\ b.size + Overhead <= SizeAt(b.p - Word)
                       /\ b.align => b.p % Page = 0
    /\ \A b, c \in live : b.p = c.p => b = c

HeapInv == ShapeInv /\ FrameInv /\ ClientInv

LEMMA SpaceWords ==
    ASSUME mem \in Memory
    PROVE  /\ Space = Words(Start - Word, MaxAddress)
           /\ \A a : a \in Space <=> a \in Int /\ Start - 4 <= a /\ a < MaxAddress /\ a % 4 = 0
           /\ \A a \in Space : mem[a] \in FrameWord
  BY Consts DEF Memory, Space, Words

LEMMA TileFacts ==
    ASSUME end_address \in Int, FrameInv
    PROVE  /\ \A h \in Tiles : /\ h \in Int /\ Start <= h /\ h % 4 = 0 /\ SizeAt(h) \in Nat
                               /\ SizeAt(h) % 4 = 0 /\ SizeAt(h) >= 8
                               /\ h + SizeAt(h) <= end_address
           /\ \A g, h \in Tiles : g < h => g + SizeAt(g) <= h
           /\ \A h \in Tiles : h + SizeAt(h) = end_address \/ h + SizeAt(h) \in Tiles
           /\ \A h \in Tiles : h = Start \/ \E g \in Tiles : g + SizeAt(g) = h
<1>1. DOMAIN Sizes = Tiles /\ \A h \in Tiles : Sizes[h] = SizeAt(h)
  BY DEF Sizes
<1>2. Tiling(Sizes, Start, end_address)
  BY DEF FrameInv
<1>3. \A h \in Tiles : /\ h \in Int /\ Start <= h /\ h % 4 = 0 /\ SizeAt(h) \in Nat
                       /\ SizeAt(h) % 4 = 0 /\ SizeAt(h) >= 8
                       /\ h + SizeAt(h) <= end_address
  BY <1>1, <1>2, Consts DEF Tiling, Words
<1>4. \A g, h \in Tiles : g < h => g + SizeAt(g) <= h
  BY <1>1, <1>2 DEF Tiling
<1>5. ASSUME NEW h \in Tiles
      PROVE  /\ h + SizeAt(h) = end_address \/ h + SizeAt(h) \in Tiles
             /\ h = Start \/ \E g \in Tiles : g + SizeAt(g) = h
  <2>1. /\ h + Sizes[h] = end_address \/ h + Sizes[h] \in DOMAIN Sizes
        /\ h = Start \/ \E g \in DOMAIN Sizes : g + Sizes[g] = h
    BY <1>1, <1>2, Consts, Neighbours
  <2> QED BY <1>1, <2>1
<1> QED BY <1>3, <1>4, <1>5

(* A step that makes the tiles from lo to hi anew, in the place up to hi2, *)
(* as those at the addresses in new.                                       *)
Kept(lo, hi) == Outside(Sizes, lo, hi)
NewSizes(new) == [h \in new |-> SizeAt(h)']
Rebuild(lo, hi, hi2, new) ==
    /\ lo \in Int /\ hi \in Int /\ hi2 \in Int
    /\ Start <= lo /\ lo <= hi /\ hi <= end_address /\ end_address' \in Int
    /\ \/ hi2 = hi /\ end_address' = end_address
       \/ hi = end_address /\ hi2 = end_address' /\ lo <= hi2
    /\ Apart(Sizes, lo, hi)
    /\ mem' \in Memory
    /\ \A a \in Space : a < lo \/ (hi <= a /\ hi2 <= a) => mem'[a] = mem[a]
    /\ Tiling(NewSizes(new), lo, hi2)
    /\ \A h \in new : Framed(h)'
    /\ Tiles' = Kept(lo, hi) \cup new

LEMMA Rebuilt ==
    ASSUME mem \in Memory, end_address \in Int, end_address <= MaxAddress, FrameInv,
           NEW lo, NEW hi, NEW hi2, NEW new, Rebuild(lo, hi, hi2, new)
    PROVE  /\ Tiling(Sizes, Start, end_address)' /\ \A h \in Tiles' : Framed(h)'
           /\ \A g \in Kept(lo, hi) :
                 /\ g \in Tiles /\ g \notin new /\ SizeAt(g)' = SizeAt(g) /\ mem'[g] = mem[g]
                 /\ \A a \in Words(g, g + SizeAt(g)) : mem'[a] = mem[a]
           /\ \A g \in Tiles : g \in Kept(lo, hi) \/ (lo <= g /\ g + SizeAt(g) <= hi)
<1>1. /\ lo \in Int /\ hi \in Int /\ hi2 \in Int
      /\ Start <= lo /\ lo <= hi /\ hi <= end_address /\ end_address' \in Int
      /\ \/ hi2 = hi /\ end_address' = end_address
         \/ hi = end_address /\ hi2 = end_address' /\ lo <= hi2
  BY DEF Rebuild
<1>2. \A h \in Tiles : /\ h \in Int /\ Start <= h /\ h % 4 = 0 /\ SizeAt(h) \in Nat
                       /\ SizeAt(h) % 4 = 0 /\ SizeAt(h) >= 8
                       /\ h + SizeAt(h) <= end_address
  BY TileFacts
<1>3. \A g \in Tiles : /\ g + SizeAt(g) <= lo \/ (lo <= g /\ g + SizeAt(g) <= hi) \/ hi <= g
                       /\ g \in Kept(lo, hi) <=> g < lo \/ hi <= g
  <2>1. DOMAIN Sizes = Tiles /\ \A h \in Tiles : Sizes[h] = SizeAt(h)
    BY DEF Sizes
  <2>2. Apart(Sizes, lo, hi)
    BY DEF Rebuild
  <2> QED BY <2>1, <2>2 DEF Apart, Kept, Outside
<1>4. \A g \in Kept(lo, hi) : g \in Tiles
  BY DEF Kept, Outside, Sizes
<1>5. \A g \in Tiles : g \in Kept(lo, hi) \/ (lo <= g /\ g + SizeAt(g) <= hi)
  BY <1>1, <1>2, <1>3
<1>6. \A a \in Space : a < lo \/ (hi <= a /\ hi2 <= a) => mem'[a] = mem[a]
  BY DEF Rebuild
<1>7. ASSUME NEW g \in Kept(lo, hi)
      PROVE  \A a \in Words(g, g + SizeAt(g)) : a \in Space /\ mem'[a] = mem[a]
  <2>1. g \in Tiles /\ (g + SizeAt(g) <= lo \/ (hi <= g /\ hi2 = hi))
    BY <1>1, <1>2, <1>3, <1>4
  <2> TAKE a \in Words(g, g + SizeAt(g))
  <2>2. a \in Int /\ a % 4 = 0 /\ g <= a /\ a < g + SizeAt(g)
    BY <1>2, <2>1, Consts DEF Words
  <2>3. a \in Space
    BY <1>2, <2>1, <2>2, SpaceWords, Consts
  <2>4. a < lo \/ (hi <= a /\ hi2 <= a)
    BY <1>1, <1>2, <2>1, <2>2
  <2> QED BY <1>6, <2>3, <2>4
<1>8. ASSUME NEW g \in Kept(lo, hi)
      PROVE  mem'[g] = mem[g] /\ SizeAt(g)' = SizeAt(g) /\ Framed(g)'
  <2>1. PICK s \in Nat : s = SizeAt(g) /\ s % 4 = 0 /\ s >= 8 /\ g \in Int /\ g % 4 = 0
    BY <1>2, <1>4
  <2>2. g \in Words(g, g + SizeAt(g)) /\ g + s - 4 \in Words(g, g + SizeAt(g))
    BY <2>1, Consts, WordSteps DEF Words
  <2>3. mem'[g] = mem[g] /\ mem'[g + s - 4] = mem[g + s - 4]
    BY <1>7, <2>2
  <2>4. SizeAt(g)' = SizeAt(g)
    BY <2>3 DEF SizeAt
  <2>5. Framed(g)
    BY <1>4 DEF FrameInv
  <2>6. Space' = Space
    BY SpaceWords DEF Rebuild, Memory, Space
  <2> QED BY <2>1, <2>3, <2>4, <2>5, <2>6, Consts DEF Framed
<1>9. Tiles' = Kept(lo, hi) \cup new /\ Tiling(NewSizes(new), lo, hi2)
  BY DEF Rebuild
<1>10. Tiling(Sizes, Start, end_address)'
  <2>1. PICK t : t = NewSizes(new)
    OBVIOUS
  <2>2. DOMAIN t = new /\ \A h \in new : t[h] = SizeAt(h)'
    BY <2>1 DEF NewSizes
  <2>3. DOMAIN Sizes' = Tiles' /\ \A h \in Tiles' : Sizes'[h] = SizeAt(h)'
    BY DEF Sizes
  <2>4. Remade(Sizes, t, Sizes', lo, hi)
    <3>1. \A h \in Kept(lo, hi) : Sizes[h] = SizeAt(h)'
      BY <1>4, <1>8 DEF Sizes
    <3> QED BY <1>9, <2>2, <2>3, <3>1 DEF Remade, Kept
  <2>5. Tiling(Sizes, Start, end_address) /\ Apart(Sizes, lo, hi) /\ Tiling(t, lo, hi2)
    BY <2>1 DEF FrameInv, Rebuild
  <2>6. Tiling(Sizes', Start, end_address')
    BY <1>1, <2>4, <2>5, Consts, Replaced
  <2> QED BY <2>6
<1>11. \A h \in Tiles' : Framed(h)'
  BY <1>8, <1>9 DEF Rebuild
<1>12. \A g \in Kept(lo, hi) : g \notin new
  <2>1. \A h \in new : lo <= h /\ h < hi2 /\ h \in Int
    <3>1. DOMAIN NewSizes(new) = new
      BY DEF NewSizes
    <3> QED BY <1>1, <1>9, <3>1, Consts DEF Tiling, Words
  <2> QED BY <1>1, <1>2, <1>3, <1>4, <2>1
<1> QED BY <1>4, <1>5, <1>7, <1>8, <1>10, <1>11, <1>12

(* What such a step has to say about holes, for FrameInv to hold again.    *)
LEMMA RebuiltFrames ==
    ASSUME mem \in Memory, end_address \in Int, end_address <= MaxAddress, FrameInv,
           NEW lo, NEW hi, NEW hi2, NEW new, Rebuild(lo, hi, hi2, new),
           \A g \in Kept(lo, hi) : /\ g \in Holes' <=> g \in Holes
                                   /\ g \in Blocks' <=> g \in Blocks,
           \A h \in new : /\ h \in Holes' => IsHole(mem'[h]) /\ h + SizeAt(h)' \notin Holes'
                          /\ h \in Blocks' => ~IsHole(mem'[h])
                          /\ h \in Holes' => \A g \in Kept(lo, hi) \cap Holes : g + SizeAt(g) # h
    PROVE  FrameInv'
<1>1. /\ Tiling(Sizes, Start, end_address)' /\ \A h \in Tiles' : Framed(h)'
      /\ \A g \in Kept(lo, hi) : /\ g \in Tiles /\ g \notin new
                                 /\ SizeAt(g)' = SizeAt(g) /\ mem'[g] = mem[g]
  BY Rebuilt
<1>2. Tiles' = Kept(lo, hi) \cup new
  BY DEF Rebuild
<1>3. ASSUME NEW h \in Holes' PROVE IsHole(mem'[h]) /\ h + SizeAt(h)' \notin Holes'
  <2>1. h \in Tiles'
    BY DEF Tiles
  <2>2. CASE h \in Kept(lo, hi)
    <3>1. h \in Holes /\ IsHole(mem[h]) /\ h + SizeAt(h) \notin Holes
      BY <2>2 DEF FrameInv
    <3>2. h + SizeAt(h) \notin Holes'
      <4> SUFFICES ASSUME h + SizeAt(h) \in Holes' PROVE FALSE
        OBVIOUS
      <4>1. h + SizeAt(h) \in Tiles'
        BY DEF Tiles
      <4>2. h + SizeAt(h) \in new
        BY <1>2, <3>1, <4>1
      <4> QED BY <2>2, <3>1, <4>2
    <3> QED BY <1>1, <2>2, <3>1, <3>2
  <2>3. CASE h \in new
    BY <2>3
  <2> QED BY <1>2, <2>1, <2>2, <2>3
<1>4. ASSUME NEW h \in Blocks' PROVE ~IsHole(mem'[h])
  <2>1. h \in Tiles'
    BY DEF Tiles
  <2>2. CASE h \in Kept(lo, hi)
    BY <1>1, <2>2 DEF FrameInv
  <2>3. CASE h \in new
    BY <2>3
  <2> QED BY <1>2, <2>1, <2>2, <2>3
<1> QED BY <1>1, <1>3, <1>4 DEF FrameInv

(* Clients keep what they have, and at most one, c, gets something new.    *)
LEMMA RebuiltClients ==
    ASSUME mem \in Memory, end_address \in Int, end_address <= MaxAddress, FrameInv, ClientInv,
           NEW lo, NEW hi, NEW hi2, NEW new, Rebuild(lo, hi, hi2, new),
           \A b \in live \cap live' : b.p - Word \in Kept(lo, hi),
           \A c \in live' \ live :
              /\ c.p \in Int /\ c.p - Word \in new /\ c.size \in Nat /\ c.size % Word = 0
              /\ c.size + Overhead <= SizeAt(c.p - Word)'
              /\ c.align => c.p % Page = 0,
           \A b, c \in live' \ live : b = c
    PROVE  /\ ClientInv'
           /\ \A b \in live \cap live' :
                 \A a \in Words(b.p, b.p + b.size) : mem'[a] = mem[a]
<1>1. \A g \in Kept(lo, hi) :
         /\ g \in Tiles /\ g \notin new /\ SizeAt(g)' = SizeAt(g)
         /\ \A a \in Words(g, g + SizeAt(g)) : mem'[a] = mem[a]
  BY Rebuilt
<1>2. \A b \in live : /\ b.p \in Int /\ b.size \in Nat /\ b.size % Word = 0
                      /\ b.size + Overhead <= SizeAt(b.p - Word)
                      /\ b.align => b.p % Page = 0
  BY DEF ClientInv
<1>3. \A h \in Tiles : SizeAt(h) \in Nat
  BY TileFacts
<1>4. ASSUME NEW b \in live'
      PROVE  /\ b.p \in Int /\ b.size \in Nat /\ b.size % Word = 0
             /\ b.size + Overhead <= SizeAt(b.p - Word)'
             /\ b.align => b.p % Page = 0
  <2>1. CASE b \in live
    BY <1>1, <1>2, <2>1
  <2>2. CASE b \notin live
    BY <2>2
  <2> QED BY <2>1, <2>2
<1>5. ASSUME NEW b \in live', NEW c \in live', b.p = c.p PROVE b = c
  <2>1. CASE b \in live /\ c \in live
    BY <1>5, <2>1 DEF ClientInv
  <2>2. CASE b \in live /\ c \notin live
    <3>1. b.p - Word \in Kept(lo, hi) /\ c.p - Word \in new
      BY <2>2
    <3> QED BY <1>1, <1>5, <3>1
  <2>3. CASE b \notin live /\ c \in live
    <3>1. c.p - Word \in Kept(lo, hi) /\ b.p - Word \in new
      BY <2>3
    <3> QED BY <1>1, <1>5, <3>1
  <2>4. CASE b \notin live /\ c \notin live
    BY <2>4
  <2> QED BY <2>1, <2>2, <2>3, <2>4
<1>6. ASSUME NEW b \in live \cap live', NEW a \in Words(b.p, b.p + b.size)
      PROVE  mem'[a] = mem[a]
  <2>1. PICK h \in Kept(lo, hi) : h = b.p - 4 /\ SizeAt(h) \in Nat /\ b.size + 8 <= SizeAt(h)
    BY <1>1, <1>2, <1>3, Consts
  <2>2. b.p \in Int /\ b.size \in Nat
    BY <1>2
  <2>3. a \in Words(h, h + SizeAt(h))
    BY <2>1, <2>2, Consts DEF Words
  <2> QED BY <1>1, <2>1, <2>3
<1> QED BY <1>4, <1>5, <1>6 DEF ClientInv

(* An update of the memory.                                                *)
LEMMA Written ==
    ASSUME NEW m \in Memory, NEW a \in Words(Start - Word, MaxAddress), NEW w \in FrameWord
    PROVE  LET n == [m EXCEPT ![a] = w]
           IN  /\ n \in Memory /\ n[a] = w
               /\ \A b \in Words(Start - Word, MaxAddress) : b # a => n[b] = m[b]
BY DEF Memory

LEMMA ZeroWord == Zero \in FrameWord
BY Consts DEF Zero, FrameWord

LEMMA InitInv == Init => HeapInv
<1> SUFFICES ASSUME Init PROVE HeapInv
  OBVIOUS
<1>1. PICK n \in 0 .. SizeMod - 1 : n = InitialEnd - Start /\ n % 4 = 0 /\ n >= 8
  BY Consts, WordSteps
<1>2. mem \in Memory
  <2>1. Header(1, InitialEnd - Start) \in FrameWord
    BY <1>1, HeaderWord
  <2>2. Footer(Zero, InitialEnd - Start) \in FrameWord
    BY <1>1, ZeroWord, FooterWord
  <2> QED BY <2>1, <2>2, ZeroWord DEF Init, Memory
<1>3. Start \in Space /\ InitialEnd - 4 \in Space
  BY <1>1, <1>2, SpaceWords, Consts, WordSteps
<1>4. mem[Start] = Header(1, n) /\ mem[InitialEnd - 4] = Footer(Zero, n)
  BY <1>1, <1>3, Consts DEF Init, Space
<1>5. Holes = {Start} /\ Blocks = {} /\ Tiles = {Start}
  BY DEF Init, Holes, Blocks, Tiles
<1>6. mem[Start].magic /\ SizeAt(Start) = n /\ IsHole(mem[Start])
  BY <1>1, <1>4, HeaderWord DEF SizeAt
<1>7. Framed(Start)
  <2>1. mem[InitialEnd - 4].magic /\ FSize(mem[InitialEnd - 4]) = n
    BY <1>1, <1>4, ZeroWord, FooterWord
  <2> QED BY <1>1, <1>3, <1>6, <2>1, Consts DEF Framed
<1>8. Tiling(Sizes, Start, end_address)
  <2>1. Sizes = [x \in {Start} |-> n]
    BY <1>5, <1>6 DEF Sizes
  <2>2. end_address = Start + n
    BY <1>1, Consts DEF Init
  <2>3. Start \in Int /\ Start % 4 = 0 /\ n \in Nat
    BY <1>1, Consts
  <2>4. Tiling([x \in {Start} |-> n], Start, Start + n)
    BY <1>1, <2>3, OneTile
  <2> QED BY <2>1, <2>2, <2>4
<1>9. FrameInv
  BY <1>1, <1>5, <1>6, <1>7, <1>8, Consts DEF FrameInv
<1>10. ClientInv
  BY DEF ClientInv, Init
<1>11. ShapeInv
  <2>1. index = <<Start>> /\ Len(index) = 1 /\ index \in Seq(Int) /\ OneOne(index)
    BY Consts DEF Init, OneOne
  <2>2. Len(index) < Capacity /\ InitialEnd % Page = 0
    BY <2>1, HeapConstants
  <2>3. ~mem[Start - Word].magic
    <3>1. (Start - 4) % 4 = 0 /\ Start - 4 \in Int /\ Start - 4 # Start
          /\ Start - 4 # InitialEnd - 4 /\ Start - 4 < MaxAddress
      BY Consts, WordSteps
    <3>2. Start - 4 \in Space
      BY <1>2, <3>1, SpaceWords
    <3>3. mem[Start - 4] = Zero
      BY <3>1, <3>2, Consts DEF Init, Space
    <3> QED BY <3>3, Consts DEF Zero
  <2> QED BY <1>1, <1>2, <2>1, <2>2, <2>3, Consts DEF Init, ShapeInv
<1> QED BY <1>9, <1>10, <1>11 DEF HeapInv

-----------------------------------------------------------------------------
(* Pages.                                                                  *)

LEMMA PageNumber ==
    ASSUME NEW n \in Int, n % Page = 0
    PROVE  \E k \in Int : n = Page * k
<1>1. Page \in Nat /\ Page > 0
  BY Consts
<1>2. n = Page * (n \div Page) /\ n \div Page \in Int
  BY <1>1
<1> QED BY <1>2

LEMMA PageTimes ==
    ASSUME NEW k \in Int
    PROVE  (Page * k) % Page = 0
<1>1. Page \in Nat /\ Page > 0
  BY Consts
<1>2. PICK q \in Int, r \in 0 .. Page - 1 : Page * k = Page * q + r /\ r = (Page * k) % Page
  BY <1>1
<1>3. PICK d \in Int : d = k - q
  OBVIOUS
<1>4. r = Page * d
  BY <1>1, <1>2, <1>3
<1>5. d >= 1 => Page * d >= Page
  BY <1>1
<1>6. d <= -1 => Page * d <= -Page
  BY <1>1
<1>7. d = 0
  BY <1>1, <1>2, <1>4, <1>5, <1>6
<1> QED BY <1>1, <1>2, <1>4, <1>7

LEMMA PageSteps ==
    ASSUME NEW a \in Int, NEW b \in Int, a % Page = 0, b % Page = 0
    PROVE  (a + b) % Page = 0 /\ (a - b) % Page = 0
<1>1. PICK j \in Int : a = Page * j
  BY PageNumber
<1>2. PICK k \in Int : b = Page * k
  BY PageNumber
<1>3. a + b = Page * (j + k) /\ a - b = Page * (j - k)
  BY <1>1, <1>2, Consts
<1> QED BY <1>3, PageTimes

(* The page an address is on.                                              *)
LEMMA OnPage ==
    ASSUME NEW a \in Int
    PROVE  /\ PageOf(a) \in Int /\ PageOf(a) % Page = 0
           /\ PageOf(a) <= a /\ a < PageOf(a) + Page
<1>1. Page \in Nat /\ Page > 0
  BY Consts
<1>2. PICK q \in Int, r \in 0 .. Page - 1 : a = Page * q + r /\ r = a % Page
  BY <1>1
<1>3. PICK m \in Int : m = Page * q
  BY <1>1
<1>4. PageOf(a) = m
  BY <1>2, <1>3 DEF PageOf
<1>5. m % Page = 0
  BY <1>3, PageTimes
<1> QED BY <1>1, <1>2, <1>3, <1>4, <1>5

(* From one page boundary on, the next ones.                               *)
LEMMA NextPage ==
    ASSUME NEW a \in Int, NEW b \in Int, a % Page = 0, b % Page = 0, a < b
    PROVE  a + Page <= b
<1>1. PICK j \in Int : a = Page * j
  BY PageNumber
<1>2. PICK k \in Int : b = Page * k
  BY PageNumber
<1>3. Page \in Nat /\ Page > 0
  BY Consts
<1>4. j < k
  <2> SUFFICES ASSUME k <= j PROVE FALSE
    OBVIOUS
  <2>1. Page * k <= Page * j
    BY <1>3
  <2> QED BY <1>1, <1>2, <2>1
<1>5. Page * (j + 1) <= Page * k
  BY <1>3, <1>4
<1> QED BY <1>1, <1>2, <1>3, <1>5

LEMMA RoundedUp ==
    ASSUME NEW n \in Nat, n >= Page
    PROVE  RoundUp(n) \in Nat /\ RoundUp(n) % Page = 0 /\ n < RoundUp(n)
<1>1. Page \in Nat /\ Page > 0
  BY Consts
<1>2. RoundUp(n) = PageOf(n) + Page
  BY DEF RoundUp, PageOf
<1>3. PICK g \in Int : g = Page /\ g % Page = 0
  BY <1>1
<1>4. PICK p \in Int : p = PageOf(n) /\ p % Page = 0 /\ p <= n /\ n < p + Page
  BY OnPage
<1>5. (p + g) % Page = 0
  BY <1>3, <1>4, PageSteps
<1> QED BY <1>1, <1>2, <1>3, <1>4, <1>5

(* The pages that an expansion maps are those of the new space.            *)
LEMMA AddedPages ==
    ASSUME NEW e \in Int, NEW n \in Nat, NEW to \in Int, to = e + n,
           e = end_address, e % Page = 0, n % Page = 0, n > 0
    PROVE  NewPages(n) = {a \in e .. to - 1 : a % Page = 0}
<1>1. Page \in Nat /\ Page > 0
  BY Consts
<1>2. PICK q \in Int : q = (n - 1) \div Page
  BY <1>1
<1>3. \A k \in Int : k * Page = Page * k /\ (Page * k) % Page = 0
  BY <1>1, PageTimes
<1>4. \A k \in Int : PageOf(e + k * Page) = e + Page * k /\ (e + Page * k) % Page = 0
  <2> TAKE k \in Int
  <2>1. PICK c \in Int : c = Page * k /\ k * Page = c /\ c % Page = 0
    BY <1>1, <1>3
  <2>2. (e + c) % Page = 0
    BY <2>1, PageSteps
  <2> QED BY <1>1, <2>1, <2>2 DEF PageOf
<1>5. Page * q <= n - 1 /\ n - 1 < Page * q + Page
  BY <1>1, <1>2
<1>6. ASSUME NEW k \in 0 .. q PROVE e + Page * k \in e .. to - 1
  <2>1. Page * k <= Page * q /\ 0 <= Page * k /\ Page * k \in Int
    BY <1>1, <1>2
  <2> QED BY <1>1, <1>2, <1>5, <2>1
<1>7. ASSUME NEW a \in e .. to - 1, a % Page = 0
      PROVE  \E k \in 0 .. q : a = e + Page * k
  <2>1. (a - e) % Page = 0
    BY <1>7, PageSteps
  <2>2. PICK k \in Int : a - e = Page * k
    BY <2>1, PageNumber
  <2>3. 0 <= k
    <3> SUFFICES ASSUME k <= -1 PROVE FALSE
      OBVIOUS
    <3>1. Page * k <= -Page
      BY <1>1
    <3> QED BY <1>1, <2>2, <3>1
  <2>4. k <= q
    <3> SUFFICES ASSUME q + 1 <= k PROVE FALSE
      BY <1>2
    <3>1. Page * (q + 1) <= Page * k
      BY <1>1, <1>2
    <3>2. Page * (q + 1) = Page * q + Page
      BY <1>1, <1>2
    <3> QED BY <1>1, <1>2, <1>5, <2>2, <3>1, <3>2
  <2> QED BY <1>2, <2>2, <2>3, <2>4
<1>8. NewPages(n) = {e + Page * k : k \in 0 .. q}
  BY <1>2, <1>4 DEF NewPages
<1>9. \A k \in 0 .. q : e + Page * k \in e .. to - 1 /\ (e + Page * k) % Page = 0
  BY <1>2, <1>4, <1>6
<1> QED BY <1>7, <1>8, <1>9

-----------------------------------------------------------------------------
(* The steps.  Every one of them keeps the invariant and the payloads.     *)

PayloadKept ==
    \A b \in live \cap live' : \A a \in Words(b.p, b.p + b.size) : mem'[a] = mem[a]

LEMMA Shaped ==
    ASSUME HeapInv
    PROVE  /\ mem \in Memory /\ index \in Seq(Int) /\ OneOne(index) /\ Elements(index) = Holes
           /\ end_address \in Int /\ end_address % Page = 0 /\ end_address % 4 = 0
           /\ Start + MinSize <= end_address /\ end_address <= MaxAddress
           /\ end_address - Start < SizeMod /\ FrameInv /\ ClientInv /\ status = "ok"
<1>1. ShapeInv /\ FrameInv /\ ClientInv
  BY DEF HeapInv
<1>2. end_address \in Int /\ end_address % Page = 0
  BY <1>1 DEF ShapeInv
<1>3. end_address % 4 = 0
  BY <1>2, Multiple, Consts
<1> QED BY <1>1, <1>2, <1>3 DEF ShapeInv, Elements, Holes

LEMMA AllocInv ==
    ASSUME HeapInv, CarefulAlloc
    PROVE  HeapInv' /\ PayloadKept
<1>1. PICK r \in Requests : Alloc(r) /\ r.size <= MaxAlloc
  BY DEF CarefulAlloc
<1>2. req' = r /\ UNCHANGED <<mem, index, end_address, backed, live, status>>
  BY <1>1 DEF Alloc
<1>3. ShapeInv'
  BY <1>2 DEF HeapInv, ShapeInv
<1>4. UNCHANGED <<Holes, Blocks, Tiles, Sizes>> /\ \A h : Framed(h)' <=> Framed(h)
  BY <1>2 DEF Holes, Blocks, Tiles, Sizes, SizeAt, Framed, Space
<1>5. FrameInv'
  BY <1>2, <1>4 DEF HeapInv, FrameInv, SizeAt
<1>6. ClientInv'
  BY <1>2 DEF HeapInv, ClientInv, SizeAt
<1> QED BY <1>2, <1>3, <1>5, <1>6 DEF HeapInv, PayloadKept

(* What an expansion writes: one hole, from h to the heap's new end.       *)
LEMMA GrowWrites ==
    ASSUME HeapInv, CarefulGrow
    PROVE  \E h \in Int, size \in 8 .. SizeMod - 1 :
              /\ Start <= h /\ h <= end_address /\ h % 4 = 0 /\ size % 4 = 0
              /\ end_address' = h + size /\ end_address' % Page = 0
              /\ end_address + 8 <= end_address' /\ end_address' <= MaxAddress
              /\ end_address' - Start < SizeMod
              /\ \/ h = end_address /\ Holes = {}
                 \/ h \in Holes /\ h + SizeAt(h) = end_address
              /\ mem' \in Memory /\ \A a \in Space : a # h /\ a # h + size - 4 => mem'[a] = mem[a]
              /\ mem'[h].magic /\ HSize(mem'[h]) = size /\ IsHole(mem'[h])
              /\ mem'[h + size - 4].magic /\ FSize(mem'[h + size - 4]) = size
              /\ index' \in Seq(Int) /\ OneOne(index') /\ Elements(index') = Holes \cup {h}
              /\ Len(index') < Capacity
              /\ backed' = backed \cup {a \in end_address .. end_address' - 1 : a % Page = 0}
              /\ UNCHANGED <<live, req, status>>
<1>1. /\ mem \in Memory /\ index \in Seq(Int) /\ OneOne(index) /\ Elements(index) = Holes
      /\ end_address \in Int /\ end_address % 4 = 0
      /\ Start + MinSize <= end_address /\ end_address <= MaxAddress
      /\ end_address - Start < SizeMod /\ FrameInv
  BY Shaped
<1>2. end_address % Page = 0
  BY Shaped
<1>3. Grow /\ GrowsAtEnd /\ req # NoRequest /\ Fitting = {}
  BY DEF CarefulGrow, Grow
<1>4. req.size \in Nat /\ req \in Requests
  BY <1>3, HeapConstants DEF HeapInv, ShapeInv
<1>5. PICK len \in Nat : /\ len = ExpandedLength /\ len % Page = 0
                         /\ Length + 8 <= len /\ len < SizeMod /\ Start + len <= MaxAddress
  <2>1. PICK n \in Nat : n = Length + req.size + Overhead /\ Length + 8 <= n /\ n >= Page
    <3>1. Length = end_address - Start
      BY DEF Length
    <3>2. PICK n \in Int : n = Length + req.size + Overhead
      BY <1>1, <1>4, <3>1, Consts
    <3> QED BY <1>1, <1>4, <3>1, <3>2, Consts
  <2>2. RoundUp(n) \in Nat /\ RoundUp(n) % Page = 0 /\ n < RoundUp(n)
    BY <2>1, RoundedUp
  <2>3. Length \in Int /\ Start + ExpandedLength <= MaxAddress /\ ExpandedLength < SizeMod
    BY <1>1, <1>3, Consts DEF GrowsAtEnd, Length
  <2> QED BY <2>1, <2>2, <2>3 DEF ExpandedLength
<1>6. len \in Nat /\ Length + 8 <= len /\ len < SizeMod /\ Start + len <= MaxAddress
  BY <1>5
<1>7. PICK e \in Int, added \in Nat :
         /\ e = Start + len /\ added = len - Length /\ e = end_address + added
         /\ e % Page = 0 /\ e % 4 = 0 /\ added % Page = 0 /\ added % 4 = 0 /\ added >= 8
  <2>1. PICK e \in Int, added \in Nat :
           e = Start + len /\ added = len - Length /\ e = end_address + added /\ added >= 8
    BY <1>1, <1>6, Consts DEF Length
  <2>2. Start \in Int /\ Start % Page = 0
    BY HeapConstants
  <2>3. (Start + len) % Page = 0
    BY <1>5, <2>2, PageSteps
  <2>4. e % Page = 0
    BY <2>1, <2>3
  <2>5. (e - end_address) % Page = 0
    BY <1>1, <1>2, <2>4, PageSteps
  <2>6. added % Page = 0
    BY <1>1, <2>1, <2>5, SMTT(30)
  <2> QED BY <2>1, <2>4, <2>6, Multiple, Consts
<1>8. e = Start + len /\ e = end_address + added /\ added >= 8 /\ e \in Int /\ added \in Nat
  BY <1>7
<1>9. /\ e = Start + len /\ e = end_address + added /\ added >= 8
      /\ Start \in Int /\ end_address \in Int /\ e <= MaxAddress
  BY <1>1, <1>6, <1>8, Consts
<1>10. PICK h : h = IF index = <<>> THEN end_address ELSE HighestHole
  OBVIOUS
<1>11. /\ h \in Int /\ Start <= h /\ h <= end_address /\ h % 4 = 0
       /\ index = <<>> => h = end_address /\ Holes = {}
       /\ index # <<>> => h \in Holes /\ h + SizeAt(h) = end_address
  <2>1. CASE index = <<>>
    BY <1>1, <1>10, <2>1, Consts DEF Holes
  <2>2. CASE index # <<>>
    <3>1. \A g \in Holes : g \in Int /\ Start <= g /\ g <= end_address /\ g % 4 = 0
      BY <1>1, TileFacts DEF Tiles
    <3>2. PICK b \in Nat : b = end_address
      BY <1>1, Consts
    <3>3. Holes \in SUBSET (0 .. b) /\ Holes # {}
      <4>1. 1 \in DOMAIN index
        BY <1>1, <2>2, LenProperties, EmptySeq
      <4>2. index[1] \in Holes
        BY <4>1 DEF Holes
      <4> QED BY <3>1, <3>2, <4>2, Consts
    <3>4. \E m \in Holes : \A x \in Holes : x <= m
      BY <3>2, <3>3, Greatest
    <3>5. \E m \in {index[i] : i \in DOMAIN index} : \A i \in DOMAIN index : index[i] <= m
      BY <3>4 DEF Holes
    <3>6. HighestHole \in Holes
      BY <3>5 DEF HighestHole, Holes
    <3>7. HighestHole + SizeAt(HighestHole) = end_address
      BY <1>3, <2>2 DEF GrowsAtEnd
    <3> QED BY <1>10, <2>2, <3>1, <3>6, <3>7
  <2> QED BY <2>1, <2>2
<1>12. PICK size \in 8 .. SizeMod - 1 :
         /\ size = e - h /\ size % 4 = 0
         /\ size = IF index = <<>> THEN added ELSE (SizeAt(h) + added) % SizeMod
  <2>1. PICK size \in Int : size = e - h
    BY <1>7, <1>11
  <2>2. size \in 8 .. SizeMod - 1 /\ size % 4 = 0
    <3>1. size % 4 = 0
      BY <1>7, <1>11, <2>1, WordSteps
    <3>2. h \in Int /\ Start <= h /\ h <= end_address
      BY <1>11
    <3>3. 8 <= size /\ size <= len
      BY <1>9, <2>1, <3>2
    <3> QED BY <1>5, <2>1, <3>1, <3>3, Consts
  <2>3. index = <<>> => size = added
    BY <1>7, <1>11, <2>1, SMTT(30)
  <2>4. index # <<>> => size = (SizeAt(h) + added) % SizeMod
    <3> HAVE index # <<>>
    <3>1. SizeAt(h) \in Nat
      BY <1>1, <1>11, TileFacts DEF Tiles
    <3>2. SizeAt(h) + added = size
      BY <1>7, <1>11, <2>1, <3>1, SMTT(30)
    <3>3. size % SizeMod = size
      BY <2>2, Consts
    <3> QED BY <3>2, <3>3
  <2> QED BY <2>1, <2>2, <2>3, <2>4
<1>13. PICK f \in Space : f = h + size - 4 /\ h \in Space /\ f # h
  <2>1. h \in Int /\ Start <= h /\ h <= end_address /\ size = e - h
    BY <1>11, <1>12
  <2>2. PICK g \in Int : g = h + size - 4 /\ g = e - 4
    BY <1>9, <2>1
  <2>3. h < MaxAddress /\ g < MaxAddress /\ Start - 4 <= g /\ Start - 4 <= h /\ g # h
    BY <1>9, <2>1, <2>2, Consts
  <2>4. g % 4 = 0
    BY <1>7, <2>2
  <2>5. g \in Space /\ h \in Space
    <3>1. mem \in Memory /\ h % 4 = 0
      BY <1>1, <1>11
    <3>2. \A a \in Int : Start - 4 <= a /\ a < MaxAddress /\ a % 4 = 0 => a \in Space
      BY <3>1, SpaceWords
    <3> QED BY <3>1, <3>2, <2>1, <2>2, <2>4, <2>3
  <2> QED BY <2>2, <2>5, <2>3
<1>14. PICK head \in FrameWord : /\ head = IF index = <<>> THEN Header(1, size) ELSE WithHSize(mem[h], size)
                                 /\ head.magic /\ HSize(head) = size /\ IsHole(head)
  <2>1. CASE index = <<>>
    BY <1>12, <2>1, HeaderWord
  <2>2. CASE index # <<>>
    <3>1. mem[h] \in FrameWord /\ mem[h].magic /\ IsHole(mem[h])
      BY <1>1, <1>11, <1>13, <2>2, SpaceWords DEF FrameInv, Framed, Tiles
    <3> QED BY <1>12, <2>2, <3>1, WithHSizeWord
  <2> QED BY <2>1, <2>2
<1>15. PICK foot \in FrameWord : foot = Footer(mem[f], size) /\ foot.magic /\ FSize(foot) = size
  BY <1>1, <1>12, <1>13, SpaceWords, FooterWord
<1>16. PICK m : m = [mem EXCEPT ![h] = head, ![f] = foot]
  OBVIOUS
<1>17. m \in Memory /\ m[h] = head /\ m[f] = foot /\ \A a \in Space : a # h /\ a # f => m[a] = mem[a]
  BY <1>1, <1>13, <1>16, SpaceWords DEF Memory
<1>18. /\ mem' = m /\ index' = IF index = <<>> THEN Inserted(index, m, h) ELSE index
       /\ end_address' = Start + ExpandedLength /\ backed' = backed \cup NewPages(added)
       /\ UNCHANGED <<live, req, status>>
  <2>1. ~(Start + ExpandedLength > MaxAddress)
    BY <1>5, Consts
  <2>2. added = ExpandedLength - Length
    BY <1>5, <1>7
  <2> QED BY <1>3, <1>10, <1>12, <1>13, <1>14, <1>15, <1>16, <2>1, <2>2, Consts DEF Grow
<1>19. /\ index' \in Seq(Int) /\ OneOne(index') /\ Elements(index') = Holes \cup {h}
       /\ Len(index') < Capacity
  <2>1. CASE index = <<>>
    <3>1. index \in Seq(Int) /\ OneOne(index) /\ Elements(index) = {} /\ Len(index) = 0
      BY <2>1, <1>1, <1>11
    <3>2. /\ Inserted(index, m, h) \in Seq(Int) /\ Len(Inserted(index, m, h)) = Len(index) + 1
          /\ Elements(Inserted(index, m, h)) = Elements(index) \cup {h}
          /\ OneOne(Inserted(index, m, h))
      BY <1>11, <3>1, InsertedIndex
    <3>3. 1 < Capacity
      BY HeapConstants
    <3>4. index' = Inserted(index, m, h)
      BY <1>18, <2>1
    <3>5. Holes = {} /\ Len(index') = 1
      BY <1>11, <2>1, <3>1, <3>2, <3>4
    <3>6. Len(index') < Capacity
      BY <3>3, <3>5
    <3> QED BY <3>1, <3>2, <3>4, <3>5, <3>6
  <2>2. CASE index # <<>>
    BY <1>1, <1>11, <1>18, <2>2 DEF HeapInv, ShapeInv
  <2> QED BY <2>1, <2>2
<1>20. backed' = backed \cup {a \in end_address .. e - 1 : a % Page = 0}
  <2>1. added > 0
    BY <1>7
  <2>2. NewPages(added) = {a \in end_address .. e - 1 : a % Page = 0}
    BY <1>1, <1>2, <1>7, <2>1, AddedPages
  <2>3. backed' = backed \cup NewPages(added)
    BY <1>18
  <2> QED BY <2>2, <2>3
<1>21. end_address' = e /\ e = h + size
  BY <1>5, <1>7, <1>11, <1>12, <1>18, SMTT(30)
<1>22. /\ mem'[h].magic /\ HSize(mem'[h]) = size /\ IsHole(mem'[h])
       /\ mem'[h + size - 4].magic /\ FSize(mem'[h + size - 4]) = size
       /\ mem' \in Memory /\ \A a \in Space : a # h /\ a # h + size - 4 => mem'[a] = mem[a]
  BY <1>13, <1>14, <1>15, <1>17, <1>18
<1>23. end_address + 8 <= e /\ e <= MaxAddress /\ e - Start < SizeMod
  BY <1>1, <1>5, <1>7, Consts, SMTT(30)
<1>24. \/ h = end_address /\ Holes = {}
       \/ h \in Holes /\ h + SizeAt(h) = end_address
  BY <1>11
<1> QED BY <1>7, <1>11, <1>12, <1>18, <1>19, <1>20, <1>21, <1>22, <1>23, <1>24

LEMMA GrowInv ==
    ASSUME HeapInv, CarefulGrow
    PROVE  HeapInv' /\ PayloadKept
<1>1. /\ mem \in Memory /\ end_address \in Int /\ end_address % 4 = 0
      /\ Start + MinSize <= end_address /\ end_address <= MaxAddress /\ FrameInv /\ ClientInv
  BY Shaped
<1>2. PICK h \in Int, size \in 8 .. SizeMod - 1 :
         /\ Start <= h /\ h <= end_address /\ h % 4 = 0 /\ size % 4 = 0
         /\ end_address' = h + size /\ end_address' % Page = 0
         /\ end_address + 8 <= end_address' /\ end_address' <= MaxAddress
         /\ end_address' - Start < SizeMod
         /\ \/ h = end_address /\ Holes = {}
            \/ h \in Holes /\ h + SizeAt(h) = end_address
         /\ mem' \in Memory /\ \A a \in Space : a # h /\ a # h + size - 4 => mem'[a] = mem[a]
         /\ mem'[h].magic /\ HSize(mem'[h]) = size /\ IsHole(mem'[h])
         /\ mem'[h + size - 4].magic /\ FSize(mem'[h + size - 4]) = size
         /\ index' \in Seq(Int) /\ OneOne(index') /\ Elements(index') = Holes \cup {h}
         /\ Len(index') < Capacity
         /\ backed' = backed \cup {a \in end_address .. end_address' - 1 : a % Page = 0}
         /\ UNCHANGED <<live, req, status>>
  BY GrowWrites
<1>3. PICK e \in Int : e = end_address' /\ e = h + size
  BY <1>2
<1>4. /\ h \in Int /\ Start <= h /\ h <= end_address /\ end_address + 8 <= e /\ e <= MaxAddress
      /\ h % 4 = 0 /\ size % 4 = 0 /\ end_address \in Int /\ size \in Nat /\ size >= 8
  BY <1>1, <1>2, <1>3, Consts
<1>5. \A g \in Tiles : /\ g \in Int /\ Start <= g /\ g % 4 = 0 /\ SizeAt(g) \in Nat
                       /\ SizeAt(g) % 4 = 0 /\ SizeAt(g) >= 8 /\ g + SizeAt(g) <= end_address
  BY <1>1, TileFacts
<1>6. \A f, g \in Tiles : f < g => f + SizeAt(f) <= g
  BY <1>1, TileFacts
<1>7. Holes' = Holes \cup {h} /\ Blocks' = Blocks /\ Tiles' = Tiles \cup {h}
  <2>1. Holes' = Holes \cup {h}
    BY <1>2 DEF Elements, Holes
  <2>2. Blocks' = Blocks
    BY <1>2 DEF Blocks
  <2> QED BY <2>1, <2>2 DEF Tiles
<1>8. \A g \in Tiles : g = h \/ g + SizeAt(g) <= h
  <2> TAKE g \in Tiles
  <2>1. CASE h = end_address
    BY <1>5, <2>1
  <2>2. CASE h \in Holes /\ h + SizeAt(h) = end_address
    <3>1. h \in Tiles
      BY <2>2 DEF Tiles
    <3>2. h < g => FALSE
      BY <1>5, <1>6, <2>2, <3>1
    <3>3. g < h => g + SizeAt(g) <= h
      BY <1>6, <3>1
    <3> QED BY <1>4, <1>5, <3>2, <3>3
  <2> QED BY <1>2, <2>1, <2>2
<1>9. SizeAt(h)' = size
  BY <1>2 DEF SizeAt
<1>10. Framed(h)'
  <2>1. h + size - 4 \in Space' /\ h \in Space'
    <3>1. \A a \in Int : Start - 4 <= a /\ a < MaxAddress /\ a % 4 = 0 => a \in Space
      BY <1>1, SpaceWords
    <3>2. Space' = Space
      BY <1>1, <1>2 DEF Space, Memory
    <3>3. h < MaxAddress /\ Start - 4 <= h
      BY <1>4, Consts
    <3>4. PICK f \in Int : f = h + size - 4 /\ f = e - 4 /\ f % 4 = 0
      BY <1>3, <1>4
    <3>5. f < MaxAddress /\ Start - 4 <= f
      BY <1>4, <3>4, Consts
    <3> QED BY <1>4, <3>1, <3>2, <3>3, <3>4, <3>5
  <2> QED BY <1>2, <1>9, <2>1, Consts DEF Framed
<1>11. Tiling(NewSizes({h}), h, e)
  <2>1. NewSizes({h}) = [x \in {h} |-> size]
    BY <1>9 DEF NewSizes
  <2>2. Tiling([x \in {h} |-> size], h, h + size)
    BY <1>4, OneTile
  <2> QED BY <1>3, <2>1, <2>2
<1>12. Apart(Sizes, h, end_address)
  <2>1. DOMAIN Sizes = Tiles /\ \A g \in Tiles : Sizes[g] = SizeAt(g)
    BY DEF Sizes
  <2>2. \A g \in Tiles : g + SizeAt(g) <= h \/ (h <= g /\ g + SizeAt(g) <= end_address)
    BY <1>5, <1>8
  <2> QED BY <2>1, <2>2 DEF Apart
<1>13. Kept(h, end_address) = Tiles \ {h}
  <2>1. \A g \in Tiles : (g < h \/ end_address <= g) <=> g # h
    <3> TAKE g \in Tiles
    <3>1. /\ g \in Int /\ SizeAt(g) \in Nat /\ SizeAt(g) >= 8 /\ g + SizeAt(g) <= end_address
          /\ g = h \/ g + SizeAt(g) <= h
      BY <1>5, <1>8
    <3> QED BY <1>4, <3>1
  <2> QED BY <2>1 DEF Kept, Outside, Sizes
<1>14. Rebuild(h, end_address, e, {h})
  <2>1. /\ h \in Int /\ end_address \in Int /\ e \in Int /\ Start <= h /\ h <= end_address
        /\ end_address' \in Int /\ e = end_address' /\ h <= e
    BY <1>1, <1>3, <1>4
  <2>2. \A a \in Space : a < h \/ (end_address <= a /\ e <= a) => mem'[a] = mem[a]
    <3> TAKE a \in Space
    <3>1. a \in Int
      BY <1>1, SpaceWords
    <3>2. a < h \/ (end_address <= a /\ e <= a) => a # h /\ a # h + size - 4
      BY <1>3, <1>4, <3>1
    <3> QED BY <1>2, <3>2
  <2>3. Tiles' = Kept(h, end_address) \cup {h} /\ mem' \in Memory
    BY <1>2, <1>7, <1>13
  <2> QED BY <1>10, <1>11, <1>12, <2>1, <2>2, <2>3 DEF Rebuild
<1>15. FrameInv'
  <2>1. \A g \in Kept(h, end_address) : /\ g \in Holes' <=> g \in Holes
                                        /\ g \in Blocks' <=> g \in Blocks
    BY <1>7, <1>13
  <2>2. h \notin Blocks
    <3> SUFFICES ASSUME h \in Blocks PROVE FALSE
      OBVIOUS
    <3>1. h \in Tiles /\ ~IsHole(mem[h])
      BY <1>1 DEF FrameInv, Tiles
    <3>2. h \in Holes
      BY <1>2, <1>5, <3>1
    <3> QED BY <1>1, <3>1, <3>2 DEF FrameInv
  <2>3. h + SizeAt(h)' \notin Holes'
    <3> SUFFICES ASSUME e \in Tiles \cup {h} PROVE FALSE
      BY <1>3, <1>7, <1>9 DEF Tiles
    <3> QED BY <1>1, <1>4, <1>5
  <2>4. \A g \in Kept(h, end_address) \cap Holes : g + SizeAt(g) # h
    <3> SUFFICES ASSUME NEW g \in Holes, g # h, g + SizeAt(g) = h PROVE FALSE
      BY <1>13
    <3>1. g \in Tiles /\ g + SizeAt(g) \notin Holes
      BY <1>1 DEF FrameInv, Tiles
    <3> QED BY <1>2, <3>1
  <2>5. PICK new, k : new = {h} /\ k = end_address
    OBVIOUS
  <2>6. \A g \in Kept(h, k) : /\ g \in Holes' <=> g \in Holes
                              /\ g \in Blocks' <=> g \in Blocks
    BY <2>1, <2>5
  <2>7. \A x \in new : /\ x \in Holes' => IsHole(mem'[x]) /\ x + SizeAt(x)' \notin Holes'
                       /\ x \in Blocks' => ~IsHole(mem'[x])
                       /\ x \in Holes' => \A g \in Kept(h, k) \cap Holes : g + SizeAt(g) # x
    BY <1>2, <1>7, <2>2, <2>3, <2>4, <2>5
  <2>8. Rebuild(h, k, e, new)
    BY <1>14, <2>5
  <2> QED BY <1>1, <2>8, <2>6, <2>7, RebuiltFrames
<1>16. ClientInv' /\ PayloadKept
  <2>1. \A b \in live \cap live' : b.p - Word \in Kept(h, end_address)
    <3> TAKE b \in live \cap live'
    <3>1. b.p - Word \in Blocks /\ ~IsHole(mem[b.p - Word])
      BY <1>1 DEF Blocks, FrameInv
    <3>2. b.p - Word # h
      <4>1. h \in Holes => IsHole(mem[h])
        BY <1>1 DEF FrameInv
      <4>2. b.p - Word \in Tiles
        BY <3>1 DEF Tiles
      <4> QED BY <1>2, <1>5, <3>1, <4>1, <4>2
    <3> QED BY <1>13, <3>1, <3>2 DEF Tiles
  <2>2. live' \ live = {}
    BY <1>2
  <2> QED BY <1>1, <1>14, <2>1, <2>2, RebuiltClients DEF PayloadKept
<1>17. ShapeInv'
  <2>1. ShapeInv
    BY DEF HeapInv
  <2>2. ~mem'[Start - Word].magic
    <3>1. Start - 4 \in Space
      <4>1. (Start - 4) % 4 = 0 /\ Start - 4 \in Int /\ Start - 4 < MaxAddress
        BY Consts
      <4> QED BY <1>1, <4>1, SpaceWords
    <3>2. Start - 4 # h /\ Start - 4 # h + size - 4
      BY <1>4, Consts
    <3>3. mem'[Start - 4] = mem[Start - 4]
      BY <1>2, <3>1, <3>2
    <3> QED BY <2>1, <3>3, Consts DEF ShapeInv
  <2>3. /\ backed' \subseteq {a \in Start .. MaxAddress - 1 : a % Page = 0}
        /\ {a \in Start .. e - 1 : a % Page = 0} \subseteq backed'
    <3>1. backed' = backed \cup {a \in end_address .. e - 1 : a % Page = 0}
      BY <1>2, <1>3
    <3>2. /\ backed \subseteq {a \in Start .. MaxAddress - 1 : a % Page = 0}
          /\ {a \in Start .. end_address - 1 : a % Page = 0} \subseteq backed
      BY <2>1 DEF ShapeInv
    <3>3. \A a \in end_address .. e - 1 : a \in Start .. MaxAddress - 1
      BY <1>1, <1>4, Consts
    <3>4. \A a \in Start .. e - 1 : a \in Start .. end_address - 1 \/ a \in end_address .. e - 1
      BY <1>1, <1>4, Consts
    <3> QED BY <3>1, <3>2, <3>3, <3>4
  <2>4. Start + MinSize <= e
    BY <1>1, <1>4, Consts
  <2> QED BY <1>2, <1>3, <2>1, <2>2, <2>3, <2>4 DEF ShapeInv
<1> QED BY <1>15, <1>16, <1>17 DEF HeapInv

(* What a free finds around the block.                                     *)
LEMMA FreeReads ==
    ASSUME HeapInv, NEW b \in live, FreesInside(b), NEW h, h = b.p - Word, NEW g, g = Merged(h)
    PROVE  /\ h \in Blocks /\ Framed(h) /\ ~g.lost
           /\ g.left \in BOOLEAN /\ g.joins \in BOOLEAN
           /\ g.left => g.head \in Holes /\ g.head + SizeAt(g.head) = h
           /\ ~g.left => g.head = h /\ \A f \in Holes : f + SizeAt(f) # h
           /\ g.right = h + SizeAt(h) /\ g.right \in Tiles /\ g.right < end_address
           /\ g.joins <=> g.right \in Holes
           /\ g.joint = g.right - g.head /\ g.joint \in 0 .. SizeMod - 1
           /\ g.foot = g.right - Word + (IF g.joins THEN SizeAt(g.right) ELSE 0)
           /\ g.size = g.foot + Word - g.head /\ g.size \in 8 .. SizeMod - 1
<1>1. /\ mem \in Memory /\ end_address \in Int /\ end_address - Start < SizeMod
      /\ FrameInv /\ end_address <= MaxAddress
  BY Shaped
<1>2. \A f \in Tiles : /\ f \in Int /\ Start <= f /\ f % 4 = 0 /\ SizeAt(f) \in Nat
                       /\ SizeAt(f) % 4 = 0 /\ SizeAt(f) >= 8 /\ f + SizeAt(f) <= end_address
  BY <1>1, TileFacts
<1>3. h \in Blocks /\ h \in Tiles /\ Framed(h) /\ ~IsHole(mem[h])
  BY <1>1 DEF Blocks, Tiles, FrameInv
<1>4. PICK n \in Nat : n = SizeAt(h) /\ n >= 8 /\ h \in Int /\ Start <= h /\ h + n <= end_address
  BY <1>2, <1>3
<1>5. PICK r \in Int : r = h + n
  BY <1>4
<1>6. g.right = r
  BY <1>4, <1>5 DEF Merged
<1>7. r < end_address /\ r \in Tiles
  <2>1. r < end_address
    BY <1>6 DEF FreesInside
  <2> QED BY <1>1, <1>3, <1>4, <1>5, <2>1, TileFacts
<1>8. r \in Space /\ mem[r].magic /\ (IsHole(mem[r]) <=> r \in Holes)
  BY <1>1, <1>7 DEF FrameInv, Framed, Tiles
<1>9. g.joins \in BOOLEAN /\ (g.joins <=> r \in Holes)
  BY <1>4, <1>5, <1>8 DEF Merged
<1>10. \A f \in Tiles : f + SizeAt(f) = h => mem[h - Word].magic /\ h - FSize(mem[h - Word]) = f
  <2> SUFFICES ASSUME NEW f \in Tiles, f + SizeAt(f) = h
               PROVE  mem[h - Word].magic /\ h - FSize(mem[h - Word]) = f
    OBVIOUS
  <2>1. Framed(f) /\ f \in Int /\ SizeAt(f) \in Nat
    BY <1>1, <1>2 DEF FrameInv
  <2> QED BY <2>1, Consts DEF Framed
<1>11. h = Start => ~mem[h - Word].magic
  BY DEF HeapInv, ShapeInv
<1>12. h = Start \/ \E f \in Tiles : f + SizeAt(f) = h
  BY <1>1, <1>3, TileFacts
<1>13. /\ g.left \in BOOLEAN /\ ~g.lost
       /\ g.left => g.head \in Holes /\ g.head + SizeAt(g.head) = h
       /\ ~g.left => g.head = h /\ \A f \in Holes : f + SizeAt(f) # h
  <2>1. CASE h = Start
    <3>1. ~g.left /\ ~g.lost /\ g.left \in BOOLEAN /\ g.head = h
      BY <1>11, <2>1 DEF Merged
    <3>2. \A f \in Holes : f + SizeAt(f) # h
      BY <1>2, <2>1, Consts DEF Tiles
    <3> QED BY <3>1, <3>2
  <2>2. CASE \E f \in Tiles : f + SizeAt(f) = h
    <3>1. PICK f \in Tiles : f + SizeAt(f) = h
      BY <2>2
    <3>2. mem[h - Word].magic /\ h - FSize(mem[h - Word]) = f
      BY <1>10, <3>1
    <3>3. f \in Space /\ (IsHole(mem[f]) <=> f \in Holes)
      BY <1>1 DEF FrameInv, Framed, Tiles
    <3>4. g.left \in BOOLEAN /\ ~g.lost /\ (g.left <=> f \in Holes)
          /\ g.head = IF g.left THEN f ELSE h
      BY <3>2, <3>3 DEF Merged
    <3>5. \A e \in Holes : e + SizeAt(e) = h => e = f
      BY <1>10, <3>2 DEF Tiles
    <3> QED BY <3>1, <3>4, <3>5
  <2> QED BY <1>12, <2>1, <2>2
<1>14. g.head \in Tiles /\ g.head \in Int /\ Start <= g.head /\ g.head <= h
  <2>1. g.head \in Tiles
    BY <1>3, <1>13 DEF Tiles
  <2> QED BY <1>2, <1>4, <1>13, <2>1
<1>15. g.joint = r - g.head /\ g.joint \in 0 .. SizeMod - 1
  <2>1. g.joint = ((IF g.left THEN SizeAt(g.head) ELSE 0) + n) % SizeMod
    BY <1>4 DEF Merged
  <2>2. SizeAt(g.head) \in Nat
    BY <1>2, <1>14
  <2>3. PICK j \in Int : j = (IF g.left THEN SizeAt(g.head) ELSE 0) + n /\ j = r - g.head
    BY <1>4, <1>5, <1>13, <1>14, <2>2
  <2>4. j \in 0 .. SizeMod - 1
    BY <1>1, <1>4, <1>5, <1>7, <1>14, <2>3, Consts
  <2>5. j % SizeMod = j
    BY <2>4, Consts
  <2> QED BY <2>1, <2>3, <2>4, <2>5
<1>16. PICK m \in Nat : m = IF g.joins THEN SizeAt(r) ELSE 0
  BY <1>2, <1>7, <1>9
<1>17. g.foot = r - Word + m
  BY <1>4, <1>5, <1>16 DEF Merged
<1>18. r + m <= end_address
  BY <1>1, <1>2, <1>7, <1>9, <1>16
<1>19. g.size = r + m - g.head /\ g.size \in 8 .. SizeMod - 1
  <2>1. g.size = (g.joint + m) % SizeMod
    BY <1>4, <1>5, <1>16 DEF Merged
  <2>2. PICK j \in Int : j = g.joint + m /\ j = r + m - g.head
    BY <1>14, <1>15
  <2>3. j \in 8 .. SizeMod - 1
    BY <1>1, <1>4, <1>5, <1>14, <1>18, <2>2, Consts
  <2>4. j % SizeMod = j
    BY <2>3, Consts
  <2> QED BY <2>1, <2>2, <2>3, <2>4
<1>20. g.size = g.foot + Word - g.head
  BY <1>14, <1>17, <1>19, Consts
<1> QED BY <1>3, <1>4, <1>5, <1>6, <1>7, <1>9, <1>13, <1>15, <1>16, <1>17, <1>19, <1>20

(* A contraction frees no page below the heap's new end.                   *)
LEMMA UnbackedPages ==
    ASSUME NEW e \in Int, e = end_address, e % Page = 0, NEW n \in Int
    PROVE  \A a \in Unbacked(n) : a > Start + n
<1>1. Page \in Nat /\ Start \in Int /\ Length = e - Start
  BY Consts DEF Length
<1>2. SUFFICES ASSUME NEW k \in 1 .. Length \div Page, Length - k * Page > n
               PROVE  PageOf(e - k * Page) > Start + n
  BY DEF Unbacked
<1>3. k \in Int
  BY <1>1, Consts
<1>4. PICK c \in Int : c = Page * k /\ c = k * Page /\ c % Page = 0
  BY <1>1, <1>3, PageTimes
<1>5. (e - c) % Page = 0
  BY <1>4, PageSteps
<1>6. PageOf(e - c) = e - c
  BY <1>5 DEF PageOf
<1> QED BY <1>1, <1>2, <1>4, <1>6

(* The names that Free gives to what it computes, for a block whose header *)
(* is at h and the merge g; Freed is the memory it leaves.                 *)
FreeEnds(g)   == g.foot + Word = end_address
FreeLength(g) == IF FreeEnds(g) THEN Contracted(g.head - Start) ELSE Length
FreeSize(g)   == (g.size - (Length - FreeLength(g))) % SizeMod
FreeFoot(g)   == g.head + FreeSize(g) - Word
FreeKept(g)   == IF g.joins \/ (FreeEnds(g) /\ FreeSize(g) = 0) THEN Without(index, g.right)
                 ELSE index

Freed(M, h, r, lo, gf, f, joint, gs, size, left, cut) ==
    LET marked == [M EXCEPT ![h] = AsHole(@),
                            ![r] = IF left THEN WithFSize(@, joint) ELSE @]
        joined == [marked EXCEPT ![lo] = WithHSize(@, gs),
                                 ![gf] = WithFSize(@, gs)]
    IN  IF cut THEN [joined EXCEPT ![lo] = WithHSize(@, size),
                                   ![f]  = Footer(@, size)]
        ELSE joined

FreeMem(h, g) ==
    Freed(mem, h, g.right - Word, g.head, g.foot, FreeFoot(g), g.joint, g.size, FreeSize(g),
          g.left, FreeEnds(g) /\ FreeSize(g) # 0)

LEMMA FreeBranch ==
    ASSUME NEW b, Free(b), Framed(b.p - Word),
           ~(Merged(b.p - Word).lost \/ Merged(b.p - Word).right >= end_address),
           ~(Merged(b.p - Word).joins /\ IndexOf(index, Merged(b.p - Word).right) = {}),
           ~(FreeEnds(Merged(b.p - Word)) /\ Merged(b.p - Word).head - Start >= Length),
           ~(Len(FreeKept(Merged(b.p - Word))) + 1 >= Capacity),
           {Merged(b.p - Word).foot, FreeFoot(Merged(b.p - Word))} \subseteq Space
    PROVE  /\ mem' = FreeMem(b.p - Word, Merged(b.p - Word))
           /\ index' = IF Merged(b.p - Word).left THEN FreeKept(Merged(b.p - Word))
                       ELSE Inserted(FreeKept(Merged(b.p - Word)),
                                     FreeMem(b.p - Word, Merged(b.p - Word)),
                                     Merged(b.p - Word).head)
           /\ end_address' = Start + FreeLength(Merged(b.p - Word))
           /\ backed' = backed \ Unbacked(FreeLength(Merged(b.p - Word)))
           /\ live' = live \ {b} /\ UNCHANGED <<req, status>>
BY Zenon DEF Free, FreeEnds, FreeLength, FreeSize, FreeFoot, FreeKept, Freed, FreeMem

(* What a free leaves in the words of the hole it makes, from lo to hi.    *)
FreeArgs(M, h, r, lo, gf, f, joint, gs, size, left, cut) ==
    /\ M \in Memory /\ {h, r, lo, gf, f} \subseteq Words(Start - Word, MaxAddress)
    /\ {joint, gs, size} \subseteq 0 .. SizeMod - 1 /\ {left, cut} \subseteq BOOLEAN
    /\ M[h].magic /\ M[lo].magic /\ M[gf].magic /\ (lo # h => IsHole(M[lo]))
    /\ h # r /\ h # gf /\ lo # r /\ lo # gf /\ lo # f
    /\ cut \/ (f = gf /\ size = gs)

LEMMA FreeWords ==
    ASSUME NEW M, NEW h, NEW r, NEW lo, NEW gf, NEW f, NEW joint, NEW gs, NEW size, NEW left, NEW cut,
           FreeArgs(M, h, r, lo, gf, f, joint, gs, size, left, cut)
    PROVE  LET m == Freed(M, h, r, lo, gf, f, joint, gs, size, left, cut)
           IN  /\ m \in Memory
               /\ \A a \in Words(Start - Word, MaxAddress) :
                      a \notin {h, r, lo, gf, f} => m[a] = M[a]
               /\ m[lo].magic /\ HSize(m[lo]) = size /\ IsHole(m[lo])
               /\ m[f].magic /\ FSize(m[f]) = size
<1> DEFINE m == Freed(M, h, r, lo, gf, f, joint, gs, size, left, cut)
<1> HIDE DEF m
<1>1. /\ M \in Memory /\ {h, r, lo, gf, f} \subseteq Words(Start - Word, MaxAddress)
      /\ joint \in 0 .. SizeMod - 1 /\ gs \in 0 .. SizeMod - 1 /\ size \in 0 .. SizeMod - 1
      /\ left \in BOOLEAN /\ cut \in BOOLEAN
      /\ M[h].magic /\ M[lo].magic /\ M[gf].magic /\ (lo # h => IsHole(M[lo]))
      /\ h # r /\ h # gf /\ lo # r /\ lo # gf /\ lo # f
      /\ cut \/ (f = gf /\ size = gs)
  BY DEF FreeArgs
<1> DEFINE W == Words(Start - Word, MaxAddress)
<1>2. PICK u : u = AsHole(M[h])
  OBVIOUS
<1>3. M[h] \in FrameWord /\ M[r] \in FrameWord
  BY <1>1 DEF Memory
<1>4. u \in FrameWord /\ u.magic /\ IsHole(u)
  BY <1>1, <1>2, <1>3, MarkedWord
<1>5. PICK v \in FrameWord : v = (IF left THEN WithFSize(M[r], joint) ELSE M[r]) /\ v.magic = M[r].magic
  BY <1>1, <1>3, FooterWord
<1>6. PICK n : n = [M EXCEPT ![h] = u, ![r] = v]
  OBVIOUS
<1>7. n \in Memory /\ n[h] = u /\ n[r] = v /\ \A a \in W : a # h /\ a # r => n[a] = M[a]
  BY <1>1, <1>4, <1>5, <1>6 DEF Memory
<1>8. [M EXCEPT ![h] = AsHole(@),
                ![r] = IF left THEN WithFSize(@, joint) ELSE @] = n
  BY <1>1, <1>2, <1>5, <1>6
<1>9. n[lo] \in FrameWord /\ n[lo].magic /\ IsHole(n[lo])
  BY <1>1, <1>4, <1>7 DEF Memory
<1>10. n[gf] \in FrameWord /\ n[gf].magic
  BY <1>1, <1>5, <1>7 DEF Memory
<1>11. PICK x \in FrameWord : x = WithHSize(n[lo], gs) /\ x.magic /\ HSize(x) = gs /\ IsHole(x)
  BY <1>1, <1>9, WithHSizeWord
<1>12. PICK y \in FrameWord : y = WithFSize(n[gf], gs) /\ y.magic /\ FSize(y) = gs
  BY <1>1, <1>10, FooterWord
<1>13. PICK o : o = [n EXCEPT ![lo] = x, ![gf] = y]
  OBVIOUS
<1>14. o \in Memory /\ o[lo] = x /\ o[gf] = y /\ \A a \in W : a # lo /\ a # gf => o[a] = n[a]
  BY <1>1, <1>7, <1>13 DEF Memory
<1>15. [n EXCEPT ![lo] = WithHSize(@, gs), ![gf] = WithFSize(@, gs)] = o
  BY <1>1, <1>11, <1>12, <1>13
<1>16. PICK p \in FrameWord : p = WithHSize(x, size) /\ p.magic /\ HSize(p) = size /\ IsHole(p)
  BY <1>1, <1>11, WithHSizeWord
<1>17. o[f] \in FrameWord
  BY <1>1, <1>14 DEF Memory
<1>18. PICK q \in FrameWord : q = Footer(o[f], size) /\ q.magic /\ FSize(q) = size
  BY <1>1, <1>17, FooterWord
<1>19. PICK z : z = [o EXCEPT ![lo] = p, ![f] = q]
  OBVIOUS
<1>20. z \in Memory /\ z[lo] = p /\ z[f] = q /\ \A a \in W : a # lo /\ a # f => z[a] = o[a]
  BY <1>1, <1>14, <1>19 DEF Memory
<1>21. [o EXCEPT ![lo] = WithHSize(@, size), ![f] = Footer(@, size)] = z
  BY <1>1, <1>14, <1>16, <1>18, <1>19
<1>22. m = IF cut THEN z ELSE o
  BY <1>8, <1>15, <1>21 DEF Freed, m
<1>23. m \in Memory /\ \A a \in W : a \notin {h, r, lo, gf, f} => m[a] = M[a]
  BY <1>1, <1>7, <1>14, <1>20, <1>22
<1>24. m[lo].magic /\ HSize(m[lo]) = size /\ IsHole(m[lo])
  BY <1>1, <1>11, <1>14, <1>16, <1>20, <1>22
<1>25. m[f].magic /\ FSize(m[f]) = size
  BY <1>1, <1>12, <1>14, <1>18, <1>20, <1>22
<1> QED BY <1>23, <1>24, <1>25 DEF m

(* The effect of a free: the tiles from lo to hi become one hole.          *)
FreeEffect(b, g, lo, hi, hi2, size) ==
    /\ lo = g.head /\ hi = g.foot + Word /\ hi2 = lo + size /\ hi2 <= hi
    /\ \/ hi2 = hi /\ end_address' = end_address
       \/ hi = end_address /\ hi2 = end_address'
    /\ end_address' \in Int /\ end_address' % Page = 0
    /\ Start + MinSize <= end_address' /\ end_address' <= end_address
    /\ mem' \in Memory
    /\ \A a \in Space : a < lo \/ hi <= a => mem'[a] = mem[a]
    /\ mem'[lo].magic /\ HSize(mem'[lo]) = size /\ IsHole(mem'[lo])
    /\ mem'[hi2 - 4].magic /\ FSize(mem'[hi2 - 4]) = size
    /\ index' \in Seq(Int) /\ OneOne(index') /\ Len(index') < Capacity
    /\ Elements(index') = (Holes \ {g.right}) \cup {lo}
    /\ backed' \subseteq backed /\ \A a \in backed : a < end_address' => a \in backed'
    /\ live' = live \ {b} /\ UNCHANGED <<req, status>>

LEMMA FreeWrites ==
    ASSUME HeapInv, NEW b \in live, Free(b), FreesInside(b), RoomInIndex,
           NEW h, h = b.p - Word, NEW g, g = Merged(h)
    PROVE  \E lo \in Int, hi \in Int, hi2 \in Int, size \in 8 .. SizeMod - 1 :
              FreeEffect(b, g, lo, hi, hi2, size)
<1> DEFINE ends   == FreeEnds(g)
           length == FreeLength(g)
           size   == FreeSize(g)
           foot   == FreeFoot(g)
           kept   == FreeKept(g)
           m      == FreeMem(h, g)
<1> HIDE DEF ends, length, size, foot, kept, m
<1>1. /\ mem \in Memory /\ index \in Seq(Int) /\ OneOne(index) /\ Elements(index) = Holes
      /\ end_address \in Int /\ end_address % 4 = 0
      /\ Start + MinSize <= end_address /\ end_address <= MaxAddress
      /\ end_address - Start < SizeMod /\ FrameInv /\ status = "ok"
  BY Shaped
<1>2. /\ h \in Blocks /\ Framed(h) /\ ~g.lost
      /\ g.left \in BOOLEAN /\ g.joins \in BOOLEAN
      /\ g.left => g.head \in Holes /\ g.head + SizeAt(g.head) = h
      /\ ~g.left => g.head = h /\ \A f \in Holes : f + SizeAt(f) # h
      /\ g.right = h + SizeAt(h) /\ g.right \in Tiles /\ g.right < end_address
      /\ g.joins <=> g.right \in Holes
      /\ g.joint = g.right - g.head /\ g.joint \in 0 .. SizeMod - 1
      /\ g.foot = g.right - Word + (IF g.joins THEN SizeAt(g.right) ELSE 0)
      /\ g.size = g.foot + Word - g.head /\ g.size \in 8 .. SizeMod - 1
  BY FreeReads
<1>3. \A f \in Tiles : /\ f \in Int /\ Start <= f /\ f % 4 = 0 /\ SizeAt(f) \in Nat
                       /\ SizeAt(f) % 4 = 0 /\ SizeAt(f) >= 8 /\ f + SizeAt(f) <= end_address
  BY <1>1, TileFacts
<1>4. /\ g.head \in Int /\ g.right \in Int /\ g.foot + 4 \in Int /\ g.foot \in Int
      /\ SizeAt(h) \in Nat /\ SizeAt(g.right) \in Nat
      /\ g.foot + 4 = IF g.joins THEN g.right + SizeAt(g.right) ELSE g.right
      /\ g.size = (g.foot + 4) - g.head
  <2>1. h \in Tiles /\ g.head \in Tiles /\ g.right \in Tiles
    BY <1>2 DEF Tiles
  <2>2. /\ g.head \in Int /\ g.right \in Int /\ SizeAt(h) \in Nat
        /\ SizeAt(g.right) \in Nat /\ h \in Int
    BY <1>3, <2>1
  <2>3. PICK j \in Nat : j = IF g.joins THEN SizeAt(g.right) ELSE 0
    BY <1>2, <2>2
  <2>4. g.foot = g.right - 4 + j
    BY <1>2, <2>3, Consts
  <2>5. PICK hi \in Int : hi = g.foot + 4 /\ g.foot = hi - 4 /\ hi = g.right + j
    BY <2>2, <2>4
  <2>6. hi = IF g.joins THEN g.right + SizeAt(g.right) ELSE g.right
    BY <2>2, <2>3, <2>5
  <2>7. g.size = hi - g.head
    <3>1. g.size = g.foot + Word - g.head
      BY <1>2
    <3>2. g.foot + Word = hi
      BY <2>5 DEF Word
    <3> QED BY <2>2, <2>5, <3>1, <3>2 DEF Word
  <2>8. g.foot \in Int
    BY <2>2, <2>4
  <2> QED BY <2>2, <2>5, <2>6, <2>7, <2>8
<1>5. PICK lo \in Int, r \in Int, hi \in Int : lo = g.head /\ r = g.right /\ hi = g.foot + 4
  BY <1>4
<1>6. PICK n \in Nat, k \in Nat, e \in Int : n = SizeAt(h) /\ k = SizeAt(r) /\ e = end_address
  BY <1>1, <1>4, <1>5
<1>7. PICK left \in BOOLEAN, joins \in BOOLEAN : left = g.left /\ joins = g.joins
  BY <1>2
<1>8. PICK gs \in 8 .. SizeMod - 1 : gs = g.size
  BY <1>2
<1>9. /\ lo = g.head /\ r = g.right /\ hi = g.foot + 4 /\ g.foot = hi - 4 /\ gs = g.size
      /\ left = g.left /\ joins = g.joins /\ n = SizeAt(h) /\ k = SizeAt(r) /\ e = end_address
      /\ r = h + n /\ gs = hi - lo /\ hi = IF joins THEN r + k ELSE r
  <2>1. r = h + n
    BY <1>2, <1>5, <1>6
  <2>2. gs = hi - lo
    BY <1>4, <1>5, <1>8
  <2>3. hi = IF joins THEN r + k ELSE r
    BY <1>4, <1>5, <1>6, <1>7
  <2>4. g.foot = hi - 4
    BY <1>4, <1>5
  <2> QED BY <1>5, <1>6, <1>7, <1>8, <2>1, <2>2, <2>3, <2>4
<1>10. h \in Tiles /\ lo \in Tiles /\ r \in Tiles
  BY <1>2, <1>9 DEF Tiles
<1>11. h % 4 = 0 /\ lo % 4 = 0 /\ r % 4 = 0 /\ k % 4 = 0 /\ e % 4 = 0 /\ (Start + MinSize) % 4 = 0
  <2>1. (Start + MinSize) % 4 = 0
    BY Consts, WordSteps
  <2> QED BY <1>1, <1>3, <1>9, <1>10, <2>1
<1>12. /\ h \in Int /\ Start <= h /\ n >= 8 /\ lo \in Int /\ Start <= lo
       /\ k >= 8 /\ r < e /\ r + k <= e
  BY <1>2, <1>3, <1>9, <1>10
<1>13. /\ Start + MinSize <= e /\ e <= MaxAddress /\ e - Start < SizeMod /\ Word = 4
       /\ Start \in Nat /\ MinSize \in Nat /\ SizeMod \in Nat /\ MaxAddress \in Nat
  BY <1>1, <1>9, Consts
<1>14. /\ h \in Int /\ Start <= h /\ n >= 8 /\ lo \in Int /\ Start <= lo
       /\ k >= 8 /\ r < e /\ r + k <= e /\ n \in Nat /\ k \in Nat /\ r \in Int /\ hi \in Int
       /\ Start + MinSize <= e /\ e <= MaxAddress /\ e - Start < SizeMod /\ Word = 4 /\ e \in Int
       /\ Start \in Nat /\ MinSize \in Nat /\ SizeMod \in Nat /\ MaxAddress \in Nat
  BY <1>12, <1>13
<1>15. r = h + n /\ gs = hi - lo /\ hi = (IF joins THEN r + k ELSE r)
       /\ gs \in Int /\ 8 <= gs /\ gs < SizeMod
  BY <1>9, Consts
<1>16. /\ lo <= h /\ h + 8 <= r /\ r <= hi /\ hi <= e
       /\ lo # h => lo + 8 <= h
       /\ r # hi => joins /\ r + 8 <= hi
       /\ hi % 4 = 0
  <2>1. lo <= h /\ (lo # h => lo + 8 <= h)
    <3>1. CASE left
      <4>1. lo + SizeAt(lo) = h
        BY <1>2, <1>9, <3>1
      <4>2. SizeAt(lo) \in Nat /\ SizeAt(lo) >= 8
        BY <1>3, <1>10
      <4> QED BY <1>14, <4>1, <4>2
    <3>2. CASE ~left
      BY <1>2, <1>9, <1>14, <3>2
    <3> QED BY <3>1, <3>2
  <2>2. hi % 4 = 0
    BY <1>15, <1>11
  <2>3. h + 8 <= r /\ r <= hi /\ hi <= e /\ (r # hi => joins /\ r + 8 <= hi)
    BY <1>14, <1>15
  <2> QED BY <2>1, <2>2, <2>3
<1>17. /\ lo <= h /\ h + 8 <= r /\ r <= hi /\ hi <= e
       /\ lo # h => lo + 8 <= h
       /\ r # hi => joins /\ r + 8 <= hi
  BY <1>16
<1>18. ends <=> hi = e
  BY <1>9, <1>14 DEF ends, length, size, FreeEnds
<1>19. ends => Contracted(lo - Start) = MinSize /\ lo - Start + 8 <= MinSize
  BY <1>9, <1>18, Consts DEF FreesInside
<1>20. Length = e - Start
  BY <1>9 DEF Length
<1>21. PICK len \in Int : /\ len = length
                          /\ ends => len = MinSize
                          /\ ~ends => len = e - Start
  <2>1. length = IF ends THEN Contracted(lo - Start) ELSE e - Start
    BY <1>9, <1>20 DEF ends, length, size, FreeLength
  <2> QED BY <1>19, <1>14, <2>1
<1>22. PICK e2 \in Int : /\ e2 = Start + len /\ Start + MinSize <= e2 /\ e2 <= e /\ e2 % 4 = 0
                         /\ ends => e2 = Start + MinSize
                         /\ ~ends => e2 = e
  <2>1. PICK e2 \in Int : e2 = Start + len
    BY <1>14
  <2>2. ends => e2 = Start + MinSize
    BY <1>21, <2>1
  <2>3. ~ends => e2 = e
    BY <1>21, <1>14, <2>1
  <2>4. Start + MinSize <= e2 /\ e2 <= e
    BY <1>14, <2>1, <2>2, <2>3
  <2>5. e2 % 4 = 0
    BY <1>11, <2>2, <2>3
  <2> QED BY <2>1, <2>2, <2>3, <2>4, <2>5
<1>23. PICK hi2 \in Int, sz \in 8 .. SizeMod - 1 :
          /\ hi2 = lo + sz /\ hi2 <= hi /\ sz = size /\ sz % 4 = 0
          /\ ends => hi2 = e2 /\ hi = e
          /\ ~ends => hi2 = hi /\ sz = gs
  <2>1. PICK sz \in Int : sz = gs - ((e - Start) - len)
    BY <1>14, <1>15
  <2>2. size = sz % SizeMod
    <3>1. size = (gs - ((e - Start) - len)) % SizeMod
      BY <1>9, <1>21, <1>20 DEF ends, length, size, FreeSize
    <3> QED BY <2>1, <3>1
  <2>3. CASE ends
    <3>1. sz = e2 - lo /\ hi = e
      BY <1>18, <1>22, <1>14, <1>15, <2>1, <2>3
    <3>2. sz >= 8 /\ sz <= gs
      BY <1>19, <1>22, <1>14, <1>15, <2>3, <3>1
    <3>3. sz \in 8 .. SizeMod - 1
      BY <1>14, <1>15, <3>2
    <3>4. sz % SizeMod = sz
      BY <3>3, Consts
    <3>5. sz % 4 = 0
      BY <1>22, <1>11, <3>1, WordSteps
    <3>6. e2 = lo + sz /\ e2 <= hi
      BY <1>22, <1>14, <3>1
    <3> QED BY <2>2, <2>3, <3>1, <3>3, <3>4, <3>5, <3>6
  <2>4. CASE ~ends
    <3>1. sz = gs
      BY <1>21, <1>14, <1>15, <2>1, <2>4
    <3>2. sz % SizeMod = sz
      BY <1>9, <3>1, Consts
    <3>3. sz % 4 = 0
      BY <1>16, <1>15, <1>11, <3>1, WordSteps
    <3>4. hi = lo + sz
      BY <1>14, <1>15, <3>1
    <3> QED BY <1>9, <2>2, <2>4, <3>1, <3>2, <3>3, <3>4
  <2> QED BY <2>3, <2>4
<1>24. hi2 = lo + sz /\ hi2 <= hi /\ sz % 4 = 0 /\ sz \in Int /\ 8 <= sz /\ sz < SizeMod
  BY <1>23, Consts
<1>25. PICK f \in Int : f = foot /\ f = hi2 - 4
  BY <1>9, <1>23, <1>14, <1>24 DEF ends, length, size, foot, FreeFoot
<1>26. {h, r - 4, lo, hi - 4, f} \subseteq Space /\ g.right - Word = r - 4 /\ g.foot = hi - 4
  <2>1. \A a \in Int : Start - 4 <= a /\ a < MaxAddress /\ a % 4 = 0 => a \in Space
    BY <1>1, SpaceWords
  <2>2. h < MaxAddress /\ lo < MaxAddress /\ Start - 4 <= h /\ Start - 4 <= lo
    BY <1>17, <1>14, <1>15
  <2>3. /\ r - 4 \in Int /\ Start - 4 <= r - 4 /\ r - 4 < MaxAddress
        /\ hi - 4 \in Int /\ Start - 4 <= hi - 4 /\ hi - 4 < MaxAddress
    BY <1>17, <1>14, <1>15
  <2>4. Start - 4 <= f /\ f < MaxAddress
    BY <1>17, <1>25, <1>14, <1>24
  <2>5. (r - 4) % 4 = 0 /\ (hi - 4) % 4 = 0
    BY <1>16, <1>11
  <2>6. f % 4 = 0
    <3>1. (lo + sz) % 4 = 0
      BY <1>11, <1>24, WordSteps
    <3> QED BY <1>25, <1>24, <3>1
  <2>7. f \in Space /\ r - 4 \in Space /\ hi - 4 \in Space
    BY <2>1, <2>3, <2>4, <2>5, <2>6
  <2>8. h \in Space /\ lo \in Space
    BY <1>14, <1>11, <2>1, <2>2
  <2>9. g.right - Word = r - 4 /\ g.foot = hi - 4
    BY <1>9, <1>14
  <2> QED BY <2>7, <2>8, <2>9
<1>27. kept = IF joins THEN Without(index, r) ELSE index
  <2>1. size # 0
    BY <1>23, <1>24
  <2> QED BY <1>9, <2>1 DEF ends, length, size, kept, FreeKept
<1>28. PICK ks \in Seq(Int) : /\ ks = kept /\ OneOne(ks) /\ Elements(ks) = Holes \ {r}
                              /\ Len(ks) <= Len(index) /\ Len(ks) \in Nat /\ Len(index) \in Nat
                              /\ joins => IndexOf(index, r) # {}
  <2>1. CASE joins
    <3>1. r \in Elements(index)
      BY <1>1, <1>2, <1>9, <2>1
    <3>2. IndexOf(index, r) # {}
      BY <3>1 DEF IndexOf, Elements
    <3>3. IndexOf(index, r) \in SUBSET Nat
      BY <1>1, LenProperties DEF IndexOf
    <3>4. PICK i : i = CHOOSE least \in IndexOf(index, r) : \A j \in IndexOf(index, r) : least <= j
      OBVIOUS
    <3>5. \E i0 \in IndexOf(index, r) : \A j \in IndexOf(index, r) : i0 <= j
      BY <3>2, <3>3, Least
    <3>6. i \in IndexOf(index, r)
      BY <3>4, <3>5
    <3>7. i \in 1 .. Len(index) /\ index[i] = r
      BY <1>1, <3>6, LenProperties DEF IndexOf
    <3>8. /\ Removed(index, i) \in Seq(Int) /\ Len(Removed(index, i)) = Len(index) - 1
          /\ Elements(Removed(index, i)) = Elements(index) \ {index[i]}
          /\ OneOne(Removed(index, i))
      BY <1>1, <3>7, RemovedIndex
    <3>9. kept = Removed(index, i)
      BY <1>27, <2>1, <3>2, <3>4 DEF Without
    <3>10. Len(index) \in Nat
      BY <1>1, LenProperties
    <3> QED BY <1>1, <3>2, <3>7, <3>8, <3>9, <3>10
  <2>2. CASE ~joins
    <3>1. r \notin Holes
      BY <1>2, <1>9, <2>2
    <3>2. kept = index
      BY <1>27, <2>2
    <3>3. Len(index) \in Nat
      BY <1>1, LenProperties
    <3> QED BY <1>1, <2>2, <3>1, <3>2, <3>3
  <2> QED BY <2>1, <2>2
<1>29. Len(ks) + 1 < Capacity /\ Len(index) < Capacity
  BY <1>28, HeapConstants DEF RoomInIndex, HeapInv, ShapeInv
<1>30. /\ mem' = m /\ index' = IF g.left THEN kept ELSE Inserted(kept, m, g.head)
       /\ end_address' = Start + length /\ backed' = backed \ Unbacked(length)
       /\ live' = live \ {b} /\ UNCHANGED <<req, status>>
  <2>1. Framed(h) /\ ~(g.lost \/ g.right >= end_address)
    <3>1. ~(r >= e)
      BY <1>14
    <3> QED BY <1>2, <1>9, <3>1
  <2>2. /\ ~(g.joins /\ IndexOf(index, g.right) = {})
        /\ ~(ends /\ g.head - Start >= Length)
        /\ ~(Len(kept) + 1 >= Capacity)
    <3>1. ~(g.joins /\ IndexOf(index, g.right) = {})
      BY <1>9, <1>28
    <3>2. ~(ends /\ lo - Start >= e - Start)
      BY <1>19, <1>14
    <3>3. ~(Len(kept) + 1 >= Capacity)
      BY <1>28, <1>29, HeapConstants, SMTT(30)
    <3> QED BY <1>9, <1>20, <3>1, <3>2, <3>3
  <2>3. {g.foot, foot} \subseteq Space
    BY <1>25, <1>26
  <2>4. b.p - Word = h /\ Merged(h) = g
    OBVIOUS
  <2> QED BY <2>1, <2>2, <2>3, <2>4, FreeBranch DEF ends, length, size, foot, kept, m
<1>31. /\ m \in Memory
       /\ \A a \in Space : a \notin {h, r - 4, lo, hi - 4, f} => m[a] = mem[a]
       /\ m[lo].magic /\ HSize(m[lo]) = sz /\ IsHole(m[lo])
       /\ m[f].magic /\ FSize(m[f]) = sz
  <2>1. mem[h].magic
    BY <1>2 DEF Framed
  <2>2. mem[lo].magic /\ (lo # h => IsHole(mem[lo]))
    BY <1>1, <1>2, <1>9, <2>1 DEF FrameInv, Framed, Tiles
  <2>3. mem[hi - 4].magic
    <3>1. CASE joins
      <4>1. Framed(r) /\ SizeAt(r) = k
        BY <1>1, <1>2, <1>9 DEF FrameInv
      <4>2. hi = r + k
        BY <1>15, <3>1
      <4>3. hi - 4 = r + k - Word
        BY <1>14, <4>2
      <4> QED BY <4>1, <4>3 DEF Framed
    <3>2. CASE ~joins
      <4>1. hi = r /\ r = h + n
        BY <1>15, <3>2
      <4>2. h \in Int /\ Word = 4
        BY <1>14
      <4>3. hi - 4 = h + n - Word
        BY <4>1, <4>2, SMTT(30)
      <4> QED BY <1>2, <1>9, <4>3 DEF Framed
    <3> QED BY <3>1, <3>2
  <2>4. h # r - 4 /\ h # hi - 4 /\ lo # r - 4 /\ lo # hi - 4 /\ lo # f
    BY <1>17, <1>25, <1>14, <1>24, SMTT(30)
  <2>5. Space = Words(Start - Word, MaxAddress)
    BY <1>1, SpaceWords
  <2>6. PICK cut \in BOOLEAN : cut <=> ends /\ size # 0
    OBVIOUS
  <2>7. cut \/ (f = hi - 4 /\ sz = gs)
    <3>1. size # 0
      BY <1>23, <1>24
    <3> QED BY <1>23, <1>25, <2>6, <3>1
  <2>8. PICK a1, a2, a4, a5, joint : a1 = mem /\ a2 = r - 4 /\ a4 = hi - 4 /\ a5 = f /\ joint = g.joint
    OBVIOUS
  <2>9. joint \in 0 .. SizeMod - 1
    BY <1>2, <2>8
  <2>10. gs \in 0 .. SizeMod - 1 /\ sz \in 0 .. SizeMod - 1
    BY Consts
  <2>11. m = Freed(a1, h, a2, lo, a4, a5, joint, gs, sz, left, cut)
    <3>1. (ends /\ size # 0) = cut
      BY <2>6
    <3> QED BY <1>9, <1>23, <1>25, <1>26, <2>8, <3>1 DEF FreeMem, ends, size, foot, m
  <2>12. PICK mm : mm = Freed(a1, h, a2, lo, a4, a5, joint, gs, sz, left, cut) /\ mm = m
    BY <2>11
  <2>13. /\ mm \in Memory
         /\ \A a \in Words(Start - Word, MaxAddress) : a \notin {h, a2, lo, a4, a5} => mm[a] = a1[a]
         /\ mm[lo].magic /\ HSize(mm[lo]) = sz /\ IsHole(mm[lo])
         /\ mm[a5].magic /\ FSize(mm[a5]) = sz
    <3>1. {h, a2, lo, a4, a5} \subseteq Words(Start - Word, MaxAddress) /\ a1 \in Memory
      BY <1>1, <1>26, <2>5, <2>8
    <3>2. a1[h].magic /\ a1[lo].magic /\ a1[a4].magic /\ (lo # h => IsHole(a1[lo]))
      BY <2>1, <2>2, <2>3, <2>8
    <3>3. /\ h # a2 /\ h # a4 /\ lo # a2 /\ lo # a4 /\ lo # a5
          /\ cut \/ (a5 = a4 /\ sz = gs)
      BY <2>4, <2>7, <2>8
    <3>4. FreeArgs(a1, h, a2, lo, a4, a5, joint, gs, sz, left, cut)
      BY <2>10, <2>9, <3>1, <3>2, <3>3 DEF FreeArgs
    <3> QED BY <2>12, <3>4, FreeWords
  <2> QED BY <2>5, <2>8, <2>13, <2>12
<1>32. mem' \in Memory /\ \A a \in Space : a < lo \/ hi <= a => mem'[a] = mem[a]
  <2>1. ASSUME NEW a \in Space, a < lo \/ hi <= a PROVE m[a] = mem[a]
    <3>1. a \in Int
      BY <1>1, SpaceWords
    <3>2. a \notin {h, r - 4, lo, hi - 4, f}
      BY <1>17, <1>25, <1>14, <1>24, <2>1, <3>1
    <3> QED BY <1>31, <3>2
  <2> QED BY <1>30, <1>31, <2>1
<1>33. /\ index' \in Seq(Int) /\ OneOne(index') /\ Len(index') < Capacity
       /\ Elements(index') = (Holes \ {r}) \cup {lo}
  <2>1. CASE left
    <3>1. index' = ks
      BY <1>28, <1>30, <1>9, <2>1
    <3>2. lo # r
      BY <1>16, <1>14
    <3>3. lo \in Holes /\ lo # r
      BY <1>2, <1>9, <2>1, <3>2
    <3>4. Capacity \in Nat
      BY HeapConstants
    <3> QED BY <1>28, <1>29, <3>1, <3>3, <3>4
  <2>2. CASE ~left
    <3>1. PICK mm : mm = m
      OBVIOUS
    <3>2. index' = Inserted(ks, mm, lo)
      BY <1>9, <1>28, <1>30, <2>2, <3>1
    <3>3. lo \notin Elements(ks)
      <4>1. lo = h /\ h \in Blocks
        BY <1>2, <1>9, <2>2
      <4>2. h \notin Holes
        BY <1>1, <4>1 DEF FrameInv
      <4> QED BY <1>28, <4>1, <4>2
    <3>4. /\ Inserted(ks, mm, lo) \in Seq(Int) /\ Len(Inserted(ks, mm, lo)) = Len(ks) + 1
          /\ Elements(Inserted(ks, mm, lo)) = Elements(ks) \cup {lo}
          /\ OneOne(Inserted(ks, mm, lo))
      BY <1>28, <3>3, InsertedIndex
    <3> QED BY <1>28, <1>29, <3>2, <3>4
  <2> QED BY <2>1, <2>2
<1>34. end_address' = e2 /\ e2 % Page = 0
  <2>1. end_address' = e2
    BY <1>21, <1>22, <1>30
  <2>2. Start % Page = 0 /\ MinSize % Page = 0 /\ Start \in Int /\ MinSize \in Int
    BY HeapConstants
  <2>3. (Start + MinSize) % Page = 0
    BY <2>2, PageSteps
  <2>4. e % Page = 0
    BY <1>9, Shaped
  <2> QED BY <1>22, <2>1, <2>3, <2>4
<1>35. backed' \subseteq backed /\ \A a \in backed : a < e2 => a \in backed'
  <2>1. \A a \in Unbacked(len) : a > Start + len
    <3>1. end_address \in Int /\ end_address % Page = 0
      BY Shaped
    <3> QED BY <3>1, UnbackedPages
  <2>2. backed' = backed \ Unbacked(len)
    BY <1>21, <1>30
  <2>3. \A a \in backed : a \in Int
    BY DEF HeapInv, ShapeInv
  <2> QED BY <1>22, <2>1, <2>2, <2>3
<1>36. (hi2 = hi /\ e2 = end_address) \/ (hi = end_address /\ hi2 = e2)
  BY <1>9, <1>22, <1>23
<1>37. /\ mem'[lo].magic /\ HSize(mem'[lo]) = sz /\ IsHole(mem'[lo])
       /\ mem'[hi2 - 4].magic /\ FSize(mem'[hi2 - 4]) = sz
  BY <1>25, <1>30, <1>31
<1>38. lo = g.head /\ hi = g.foot + Word /\ hi2 = lo + sz /\ hi2 <= hi /\ r = g.right
  BY <1>9, <1>23, <1>14
<1>39. live' = live \ {b} /\ UNCHANGED <<req, status>>
  BY <1>30
<1>40. e2 \in Int /\ Start + MinSize <= e2 /\ e2 <= end_address
  BY <1>9, <1>22
<1>41. FreeEffect(b, g, lo, hi, hi2, sz)
  BY <1>32, <1>33, <1>34, <1>35, <1>36, <1>37, <1>38, <1>39, <1>40 DEF FreeEffect
<1> QED BY <1>41

LEMMA FreeInv ==
    ASSUME HeapInv, CarefulFree
    PROVE  HeapInv' /\ PayloadKept
<1>1. PICK b \in live : Free(b) /\ FreesInside(b) /\ RoomInIndex
  BY DEF CarefulFree
<1>2. PICK h, g : h = b.p - Word /\ g = Merged(h)
  OBVIOUS
<1>3. /\ mem \in Memory /\ end_address \in Int /\ Start + MinSize <= end_address
      /\ end_address <= MaxAddress /\ end_address - Start < SizeMod /\ FrameInv /\ ClientInv
  BY Shaped
<1>4. /\ h \in Blocks /\ Framed(h)
      /\ g.left \in BOOLEAN /\ g.joins \in BOOLEAN
      /\ g.left => g.head \in Holes /\ g.head + SizeAt(g.head) = h
      /\ ~g.left => g.head = h /\ \A f \in Holes : f + SizeAt(f) # h
      /\ g.right = h + SizeAt(h) /\ g.right \in Tiles /\ g.right < end_address
      /\ g.joins <=> g.right \in Holes
      /\ g.foot = g.right - Word + (IF g.joins THEN SizeAt(g.right) ELSE 0)
  BY <1>1, <1>2, FreeReads
<1>5. PICK lo \in Int, hi \in Int, hi2 \in Int, size \in 8 .. SizeMod - 1 :
           FreeEffect(b, g, lo, hi, hi2, size)
  BY <1>1, <1>2, FreeWrites
<1>6. /\ lo = g.head /\ hi = g.foot + Word /\ hi2 = lo + size /\ hi2 <= hi
      /\ \/ hi2 = hi /\ end_address' = end_address
         \/ hi = end_address /\ hi2 = end_address'
      /\ end_address' \in Int /\ end_address' % Page = 0
      /\ Start + MinSize <= end_address' /\ end_address' <= end_address
      /\ mem' \in Memory
      /\ \A a \in Space : a < lo \/ hi <= a => mem'[a] = mem[a]
      /\ mem'[lo].magic /\ HSize(mem'[lo]) = size /\ IsHole(mem'[lo])
      /\ mem'[hi2 - 4].magic /\ FSize(mem'[hi2 - 4]) = size
      /\ index' \in Seq(Int) /\ OneOne(index') /\ Len(index') < Capacity
      /\ Elements(index') = (Holes \ {g.right}) \cup {lo}
      /\ backed' \subseteq backed /\ \A a \in backed : a < end_address' => a \in backed'
      /\ live' = live \ {b} /\ UNCHANGED <<req, status>>
  BY <1>5 DEF FreeEffect
<1>7. \A f \in Tiles : /\ f \in Int /\ Start <= f /\ f % 4 = 0 /\ SizeAt(f) \in Nat
                       /\ SizeAt(f) % 4 = 0 /\ SizeAt(f) >= 8 /\ f + SizeAt(f) <= end_address
  BY <1>3, TileFacts
<1>8. \A f, x \in Tiles : f < x => f + SizeAt(f) <= x
  BY <1>3, TileFacts
<1>9. PICK r \in Int, n \in Nat, k \in Nat, e \in Int, e2 \in Int, left \in BOOLEAN, joins \in BOOLEAN :
         /\ r = g.right /\ n = SizeAt(h) /\ k = SizeAt(r) /\ e = end_address /\ e2 = end_address'
         /\ left = g.left /\ joins = g.joins
  <2>1. h \in Tiles /\ g.right \in Tiles
    BY <1>4 DEF Tiles
  <2>2. PICK r \in Int, n \in Nat, k \in Nat : r = g.right /\ n = SizeAt(h) /\ k = SizeAt(r)
    BY <1>7, <2>1
  <2> QED BY <1>3, <1>4, <1>6, <2>2
<1>10. h \in Tiles /\ lo \in Tiles /\ r \in Tiles
  BY <1>4, <1>6, <1>9 DEF Tiles
<1>11. /\ h \in Int /\ n >= 8 /\ Start <= lo /\ r = h + n /\ k >= 8 /\ r + k <= e /\ r < e
       /\ hi = IF joins THEN r + k ELSE r
  <2>1. h \in Int /\ n >= 8 /\ Start <= lo /\ k >= 8 /\ r + k <= e
    BY <1>7, <1>9, <1>10
  <2>2. r = h + n /\ r < e
    BY <1>4, <1>9
  <2>3. g.foot = r - 4 + (IF joins THEN k ELSE 0)
    BY <1>4, <1>9, Consts
  <2>4. PICK j \in Int : j = r - 4 + (IF joins THEN k ELSE 0) /\ j + 4 = IF joins THEN r + k ELSE r
    OBVIOUS
  <2>5. hi = j + 4
    BY <1>6, <2>3, <2>4, Consts
  <2> QED BY <2>1, <2>2, <2>4, <2>5
<1>12. /\ left => lo \in Holes /\ lo + SizeAt(lo) = h /\ SizeAt(lo) \in Nat /\ SizeAt(lo) >= 8
       /\ ~left => lo = h
  BY <1>4, <1>6, <1>7, <1>9, <1>10
<1>13. lo <= h /\ h < r /\ r <= hi /\ hi <= e /\ h \in Int
  <2>1. lo <= h
    BY <1>11, <1>12
  <2> QED BY <1>11, <2>1
<1>14. /\ hi2 = lo + size /\ hi2 <= hi /\ size \in Nat /\ size >= 8
       /\ (hi2 = hi /\ e2 = e) \/ (hi = e /\ hi2 = e2)
       /\ Start + MinSize <= e2 /\ e2 <= e
  BY <1>6, <1>9, Consts

<1>15. \A f \in Tiles : f # lo /\ f # h /\ (joins => f # r) => f < lo \/ hi <= f
  <2> SUFFICES ASSUME NEW f \in Tiles, f # lo, f # h, joins => f # r, lo < f, f < hi PROVE FALSE
    BY <1>7, <1>13
  <2>1. f \in Int /\ SizeAt(f) \in Nat /\ SizeAt(f) >= 8
    BY <1>7
  <2>2. (lo < f => lo + SizeAt(lo) <= f) /\ (f < h => f + SizeAt(f) <= h) /\ (h < f => h + n <= f)
    BY <1>8, <1>9, <1>10
  <2>3. h < f
    BY <1>11, <1>12, <2>1, <2>2
  <2>4. r <= f
    BY <1>11, <2>2, <2>3
  <2>5. CASE joins
    <3>1. r < f => r + k <= f
      BY <1>8, <1>9, <1>10
    <3> QED BY <1>11, <2>1, <2>4, <2>5, <3>1
  <2>6. CASE ~joins
    BY <1>11, <2>1, <2>4, <2>6
  <2> QED BY <2>5, <2>6
<1>16. \A f \in Tiles : f < lo => f + SizeAt(f) <= lo
  BY <1>8, <1>10
<1>17. Apart(Sizes, lo, hi)
  <2>1. DOMAIN Sizes = Tiles /\ \A f \in Tiles : Sizes[f] = SizeAt(f)
    BY DEF Sizes
  <2>2. ASSUME NEW f \in Tiles
        PROVE  f + SizeAt(f) <= lo \/ (lo <= f /\ f + SizeAt(f) <= hi) \/ hi <= f
    <3>1. CASE f = h
      BY <1>9, <1>11, <1>13, <3>1
    <3>2. CASE f = lo /\ f # h
      <4>1. left
        BY <1>12, <3>2
      <4> QED BY <1>11, <1>12, <1>13, <3>2, <4>1
    <3>3. CASE joins /\ f = r
      <4>1. hi = r + k /\ SizeAt(f) = k
        BY <1>9, <1>11, <3>3
      <4> QED BY <1>13, <3>3, <4>1
    <3>4. CASE f < lo \/ hi <= f
      BY <1>16, <3>4
    <3> QED BY <1>15, <3>1, <3>2, <3>3, <3>4
  <2> QED BY <2>1, <2>2 DEF Apart
<1>18. Kept(lo, hi) = {f \in Tiles : f # lo /\ f # h /\ (joins => f # r)}
  <2>1. \A f \in Tiles : f < lo \/ hi <= f <=> f # lo /\ f # h /\ (joins => f # r)
    <3> SUFFICES ASSUME NEW f \in Tiles, f < lo \/ hi <= f PROVE f # lo /\ f # h /\ (joins => f # r)
      BY <1>15
    <3>1. f \in Int
      BY <1>7
    <3> QED BY <1>11, <1>13, <3>1
  <2> QED BY <2>1 DEF Kept, Outside, Sizes
<1>19. Holes' = (Holes \ {r}) \cup {lo} /\ Blocks' = Blocks \ {h}
  <2>1. Holes' = (Holes \ {r}) \cup {lo}
    BY <1>6, <1>9 DEF Elements, Holes
  <2>2. \A c \in live : c.p \in Int /\ (c.p = b.p => c = b)
    BY <1>3 DEF ClientInv
  <2>3. \A c \in live : c.p - Word = h => c = b
    <3> SUFFICES ASSUME NEW c \in live, c.p - Word = h PROVE c = b
      OBVIOUS
    <3>1. c.p \in Int /\ b.p \in Int
      BY <2>2
    <3>2. c.p = b.p
      BY <1>2, <3>1, Consts
    <3> QED BY <2>2, <3>2
  <2>4. Blocks' = {c.p - Word : c \in live \ {b}}
    BY <1>6 DEF Blocks
  <2>5. Blocks' = Blocks \ {h}
    BY <1>2, <2>3, <2>4 DEF Blocks
  <2> QED BY <2>1, <2>5
<1>20. Holes \cap Blocks = {}
  BY <1>3 DEF FrameInv
<1>21. /\ h \in Blocks /\ (joins <=> r \in Holes) /\ (left => lo \in Holes) /\ (~left => lo = h)
       /\ h # r /\ lo # r
  <2>1. h # r /\ lo # r
    BY <1>11, <1>13
  <2> QED BY <1>4, <1>9, <1>12, <2>1
<1>22. Tiles' = Kept(lo, hi) \cup {lo}
  <2>1. Tiles' = (Holes \ {r}) \cup {lo} \cup (Blocks \ {h})
    BY <1>19 DEF Tiles
  <2>2. \A f : f \in Tiles /\ f # lo /\ f # h /\ (joins => f # r) =>
                  f \in (Holes \ {r}) \cup (Blocks \ {h})
    BY <1>21 DEF Tiles
  <2>3. \A f \in (Holes \ {r}) \cup (Blocks \ {h}) :
           f # lo => f \in Tiles /\ f # lo /\ f # h /\ (joins => f # r)
    BY <1>20, <1>21 DEF Tiles
  <2> QED BY <1>18, <2>1, <2>2, <2>3
<1>23. SizeAt(lo)' = size
  BY <1>6 DEF SizeAt
<1>24. lo % 4 = 0 /\ hi2 % 4 = 0 /\ size % 4 = 0
  <2>1. lo % 4 = 0 /\ r % 4 = 0 /\ k % 4 = 0
    BY <1>7, <1>9, <1>10
  <2>2. hi % 4 = 0
    BY <1>11, <2>1
  <2>3. e2 % 4 = 0
    BY <1>6, <1>9, Multiple, Consts
  <2>4. hi2 % 4 = 0
    BY <1>14, <2>2, <2>3
  <2> QED BY <1>14, <2>1, <2>4
<1>25. Framed(lo)'
  <2>1. \A a \in Int : Start - 4 <= a /\ a < MaxAddress /\ a % 4 = 0 => a \in Space
    BY <1>3, SpaceWords
  <2>2. Space' = Space
    BY <1>3, <1>6 DEF Space, Memory
  <2>3. PICK f \in Int : f = hi2 - 4 /\ f = lo + size - 4
    BY <1>14
  <2>4. e <= MaxAddress /\ MaxAddress \in Int /\ Start \in Int
    BY <1>3, <1>9, Consts
  <2>5. lo < MaxAddress /\ Start - 4 <= lo /\ f < MaxAddress /\ Start - 4 <= f
    BY <1>11, <1>13, <1>14, <2>3, <2>4
  <2>6. f % 4 = 0
    BY <1>24, <2>3
  <2>7. lo \in Space' /\ f \in Space'
    BY <1>24, <2>1, <2>2, <2>5, <2>6
  <2> QED BY <1>6, <1>23, <2>3, <2>7, Consts DEF Framed
<1>26. Tiling(NewSizes({lo}), lo, hi2)
  <2>1. NewSizes({lo}) = [x \in {lo} |-> size]
    BY <1>23 DEF NewSizes
  <2>2. Tiling([x \in {lo} |-> size], lo, lo + size)
    BY <1>14, <1>24, OneTile
  <2> QED BY <1>14, <2>1, <2>2
<1>27. Rebuild(lo, hi, hi2, {lo})
  <2>1. /\ Start <= lo /\ lo <= hi /\ hi <= end_address /\ end_address' \in Int
        /\ \/ hi2 = hi /\ end_address' = end_address
           \/ hi = end_address /\ hi2 = end_address' /\ lo <= hi2
    <3>1. lo <= hi
      BY <1>13
    <3>2. lo <= hi2
      BY <1>14
    <3> QED BY <1>6, <1>9, <1>11, <1>13, <3>1, <3>2
  <2>2. \A a \in Space : a < lo \/ (hi <= a /\ hi2 <= a) => mem'[a] = mem[a]
    BY <1>6
  <2> QED BY <1>6, <1>17, <1>22, <1>25, <1>26, <2>1, <2>2 DEF Rebuild
<1>28. FrameInv'
  <2>1. \A x \in Kept(lo, hi) : /\ x \in Holes' <=> x \in Holes
                                /\ x \in Blocks' <=> x \in Blocks
    BY <1>18, <1>19, <1>21
  <2>2. PICK new : new = {lo}
    OBVIOUS
  <2>3. lo \notin Blocks'
    BY <1>19, <1>20, <1>21
  <2>4. hi2 \notin Holes'
    <3> SUFFICES ASSUME hi2 \in Holes' PROVE FALSE
      OBVIOUS
    <3>1. hi2 # lo
      BY <1>14
    <3>2. hi2 \in Holes /\ hi2 # r
      BY <1>19, <3>1
    <3>3. hi2 \in Tiles
      BY <3>2 DEF Tiles
    <3>4. CASE hi2 = hi
      <4>1. joins /\ hi = r + k
        BY <1>11, <3>2, <3>4
      <4>2. r \in Holes /\ r + SizeAt(r) \notin Holes
        BY <1>3, <1>21, <4>1 DEF FrameInv
      <4> QED BY <1>9, <3>2, <3>4, <4>1, <4>2
    <3>5. CASE hi2 # hi
      <4>1. hi = e /\ hi2 = e2 /\ hi2 < hi
        BY <1>14, <3>5
      <4>2. hi2 = h \/ hi2 < lo \/ hi <= hi2
        BY <1>15, <3>1, <3>2, <3>3
      <4>3. hi2 # h
        BY <1>20, <1>21, <3>2
      <4> QED BY <1>14, <4>1, <4>2, <4>3
    <3> QED BY <3>4, <3>5
  <2>5. \A f \in Kept(lo, hi) \cap Holes : f + SizeAt(f) # lo
    <3> SUFFICES ASSUME NEW f \in Holes, f + SizeAt(f) = lo PROVE FALSE
      OBVIOUS
    <3>1. f + SizeAt(f) \notin Holes
      BY <1>3 DEF FrameInv
    <3>2. ~left
      BY <1>21, <3>1
    <3> QED BY <1>4, <1>9, <1>21, <3>2
  <2>6. \A x \in new : /\ x \in Holes' => IsHole(mem'[x]) /\ x + SizeAt(x)' \notin Holes'
                       /\ x \in Blocks' => ~IsHole(mem'[x])
                       /\ x \in Holes' => \A f \in Kept(lo, hi) \cap Holes : f + SizeAt(f) # x
    BY <1>6, <1>23, <2>2, <2>3, <2>4, <2>5
  <2>7. Rebuild(lo, hi, hi2, new)
    BY <1>27, <2>2
  <2> QED BY <1>3, <2>1, <2>6, <2>7, RebuiltFrames
<1>29. ClientInv' /\ PayloadKept
  <2>1. \A c \in live \cap live' : c.p - Word \in Kept(lo, hi)
    <3> TAKE c \in live \cap live'
    <3>1. c # b /\ c \in live
      BY <1>6
    <3>2. c.p - Word \in Blocks
      BY <3>1 DEF Blocks
    <3>3. c.p - Word # h
      <4>1. c.p \in Int /\ b.p \in Int /\ c.p # b.p
        BY <1>3, <3>1 DEF ClientInv
      <4> QED BY <1>2, <4>1, Consts
    <3>4. c.p - Word \notin Holes
      BY <1>20, <3>2
    <3>5. c.p - Word # lo /\ (joins => c.p - Word # r)
      BY <1>21, <3>3, <3>4
    <3> QED BY <1>18, <3>2, <3>3, <3>5 DEF Tiles
  <2>2. live' \ live = {}
    BY <1>6
  <2> QED BY <1>3, <1>27, <2>1, <2>2, RebuiltClients DEF PayloadKept
<1>30. ShapeInv'
  <2>1. ShapeInv
    BY DEF HeapInv
  <2>2. ~mem'[Start - Word].magic
    <3>1. Start - 4 \in Space
      <4>1. (Start - 4) % 4 = 0 /\ Start - 4 \in Int /\ Start - 4 < MaxAddress
        BY Consts
      <4> QED BY <1>3, <4>1, SpaceWords
    <3>2. Start - 4 < lo
      BY <1>11, Consts
    <3>3. mem'[Start - 4] = mem[Start - 4]
      BY <1>6, <3>1, <3>2
    <3> QED BY <2>1, <3>3, Consts DEF ShapeInv
  <2>3. /\ backed' \subseteq {a \in Start .. MaxAddress - 1 : a % Page = 0}
        /\ {a \in Start .. e2 - 1 : a % Page = 0} \subseteq backed'
    <3>1. /\ backed \subseteq {a \in Start .. MaxAddress - 1 : a % Page = 0}
          /\ {a \in Start .. end_address - 1 : a % Page = 0} \subseteq backed
      BY <2>1 DEF ShapeInv
    <3>2. \A a \in Start .. e2 - 1 : a \in Start .. end_address - 1 /\ a < e2
      <4>1. Start \in Int /\ e2 <= e
        BY <1>14, Consts
      <4>2. \A a \in Start .. e2 - 1 : a \in Start .. e - 1 /\ a < e2
        BY <4>1
      <4> QED BY <1>9, <4>2
    <3> QED BY <1>6, <1>9, <3>1, <3>2
  <2>4. e2 <= MaxAddress /\ e2 - Start < SizeMod
    <3>1. e <= MaxAddress /\ e - Start < SizeMod
      BY <1>3, <1>9
    <3>2. Start \in Int /\ MaxAddress \in Int /\ SizeMod \in Int /\ e2 <= e
      BY <1>14, Consts
    <3> QED BY <3>1, <3>2
  <2> QED BY <1>6, <1>9, <2>1, <2>2, <2>3, <2>4 DEF ShapeInv
<1> QED BY <1>28, <1>29, <1>30 DEF HeapInv

(* The names that Take gives to what it computes; Taken is the memory it   *)
(* leaves, from the memory F in which the front, if any, has its frame.    *)
Front(M, pos, block, lead, leads) ==
    IF leads THEN [M EXCEPT ![pos] = Header(1, lead), ![block - Word] = Footer(@, lead)]
    ELSE M

TakePos   == index[FoundHole]
TakeTotal == SizeAt(TakePos)
TakeSize  == IF TakeTotal - (req.size + Overhead) < Overhead THEN TakeTotal
             ELSE req.size + Overhead
TakeLeads == req.align /\ TakePos >= Page
TakeBlock == IF TakeLeads THEN TakePos + Lead(TakePos) ELSE TakePos
TakeFront == Front(mem, TakePos, TakeBlock, Lead(TakePos), TakeLeads)
TakeRest  == IF TakeLeads THEN TakeTotal - HSize(TakeFront[TakePos]) - TakeSize
             ELSE TakeTotal - TakeSize
TakeFoot  == TakeBlock + TakeSize - Word
TakeAfter == TakeBlock + TakeSize
TakeLast  == TakeAfter + TakeRest - Word
TakeKept  == IF TakeLeads THEN index ELSE Removed(index, FoundHole)

Cut(F, block, foot, after, last, size, rest, beyond) ==
    LET framed == [F EXCEPT ![block] = Header(0, size), ![foot] = Footer(@, size)]
        split  == [framed EXCEPT ![after] = Header(1, rest)]
    IN  IF rest = 0 THEN framed
        ELSE IF beyond THEN split
        ELSE [split EXCEPT ![last] = Footer(@, rest)]

Taken(S, m, block, foot) ==
    [a \in S |-> IF ClientFills /\ a > block /\ a < foot THEN Zero ELSE m[a]]

TakeCut == Cut(TakeFront, TakeBlock, TakeFoot, TakeAfter, TakeLast, TakeSize, TakeRest,
               TakeLast >= end_address)

LEMMA TakeBranch ==
    ASSUME Take,
           {TakeFoot} \cup (IF TakeRest = 0 THEN {} ELSE {TakeAfter, TakeLast}) \subseteq Space,
           ~(TakeRest # 0 /\ Len(TakeKept) + 1 >= Capacity)
    PROVE  /\ mem' = Taken(Space, TakeCut, TakeBlock, TakeFoot)
           /\ index' = IF TakeRest = 0 THEN TakeKept ELSE Inserted(TakeKept, TakeCut, TakeAfter)
           /\ live' = live \cup {[p |-> TakeBlock + Word, size |-> req.size, align |-> req.align]}
           /\ req' = NoRequest /\ UNCHANGED <<end_address, backed, status>>
BY Zenon DEF Take, Front, TakePos, TakeTotal, TakeSize, TakeLeads, TakeBlock, TakeFront, TakeRest,
             TakeFoot, TakeAfter, TakeLast, TakeKept, Cut, Taken, TakeCut

(* A frame of n bytes at h in memory M.                                    *)
FrameAt(M, h, n, hole) ==
    /\ M[h].magic /\ HSize(M[h]) = n /\ (IsHole(M[h]) <=> hole)
    /\ M[h + n - 4].magic /\ FSize(M[h + n - 4]) = n

TakeArgs(M, pos, lead, size, rest) ==
    /\ M \in Memory /\ pos \in Int /\ lead \in Nat /\ size \in Nat /\ rest \in Nat
    /\ lead = 0 \/ lead >= 8
    /\ size >= 8
    /\ rest = 0 \/ rest >= 8
    /\ {lead, size, rest} \subseteq 0 .. SizeMod - 1
    /\ \A a \in Int : pos <= a /\ a < pos + lead + size + rest /\ a % 4 = 0 =>
                         a \in Words(Start - Word, MaxAddress)
    /\ pos % 4 = 0 /\ lead % 4 = 0 /\ size % 4 = 0 /\ rest % 4 = 0

LEMMA TakeWords ==
    ASSUME NEW M, NEW pos, NEW lead, NEW size, NEW rest, TakeArgs(M, pos, lead, size, rest),
           NEW F, F = Front(M, pos, pos + lead, lead, lead # 0),
           NEW m, m = Cut(F, pos + lead, pos + lead + size - Word, pos + lead + size,
                          pos + lead + size + rest - Word, size, rest, FALSE),
           NEW t, t = Taken(Words(Start - Word, MaxAddress), m, pos + lead, pos + lead + size - Word)
    PROVE  /\ t \in Memory
           /\ \A a \in Words(Start - Word, MaxAddress) :
                  a < pos \/ pos + lead + size + rest <= a => t[a] = M[a]
           /\ FrameAt(t, pos + lead, size, FALSE)
           /\ lead # 0 => FrameAt(t, pos, lead, TRUE)
           /\ rest # 0 => FrameAt(t, pos + lead + size, rest, TRUE)
<1> DEFINE W == Words(Start - Word, MaxAddress)
<1>1. /\ M \in Memory /\ pos \in Int /\ lead \in Nat /\ size \in Nat /\ rest \in Nat
      /\ lead = 0 \/ lead >= 8
      /\ size >= 8
      /\ rest = 0 \/ rest >= 8
      /\ lead \in 0 .. SizeMod - 1 /\ size \in 0 .. SizeMod - 1 /\ rest \in 0 .. SizeMod - 1
  BY DEF TakeArgs
<1>2. PICK b \in Int, f \in Int, x \in Int, l \in Int, e \in Int, c \in Int :
         /\ b = pos + lead /\ f = b + size - 4 /\ x = b + size /\ e = x + rest /\ l = e - 4
         /\ c = b - 4
  BY <1>1
<1>3. m = Cut(F, b, f, x, l, size, rest, FALSE)
  BY <1>1, <1>2, Consts
<1>4. /\ b \in W /\ f \in W /\ (rest # 0 => x \in W /\ l \in W)
      /\ (lead # 0 => pos \in W /\ c \in W)
  <2>1. \A a \in Int : pos <= a /\ a < e /\ a % 4 = 0 => a \in W
    BY <1>1, <1>2 DEF TakeArgs
  <2>2. b % 4 = 0 /\ f % 4 = 0 /\ x % 4 = 0 /\ l % 4 = 0 /\ c % 4 = 0 /\ pos % 4 = 0
    BY <1>1, <1>2 DEF TakeArgs
  <2>3. pos <= b /\ b < e /\ pos <= f /\ f < e
    BY <1>1, <1>2
  <2>4. rest # 0 => pos <= x /\ x < e /\ pos <= l /\ l < e
    BY <1>1, <1>2
  <2>5. lead # 0 => pos < e /\ pos <= c /\ c < e
    BY <1>1, <1>2
  <2> QED BY <1>1, <1>2, <2>1, <2>2, <2>3, <2>4, <2>5
<1> HIDE DEF W
<1>5. /\ F \in Memory
      /\ \A a \in W : a < pos \/ b <= a => F[a] = M[a]
      /\ lead # 0 => /\ F[pos].magic /\ HSize(F[pos]) = lead /\ IsHole(F[pos])
                     /\ F[c].magic /\ FSize(F[c]) = lead
  <2>1. CASE lead = 0
    BY <1>1, <2>1 DEF Front
  <2>2. CASE lead # 0
    <3>1. PICK u \in FrameWord : u = Header(1, lead) /\ u.magic /\ HSize(u) = lead /\ IsHole(u)
      BY <1>1, HeaderWord
    <3>2. M[c] \in FrameWord
      BY <1>1, <1>4, <2>2 DEF Memory, W
    <3>3. PICK v \in FrameWord : v = Footer(M[c], lead) /\ v.magic /\ FSize(v) = lead
      BY <1>1, <3>2, FooterWord
    <3>4. pos # c
      BY <1>1, <1>2, <2>2
    <3>5. F = [M EXCEPT ![pos] = u, ![c] = v]
      BY <1>2, <2>2, <3>1, <3>3, <3>4, Consts DEF Front
    <3>6. F \in Memory /\ F[pos] = u /\ F[c] = v /\ \A a \in W : a # pos /\ a # c => F[a] = M[a]
      BY <1>1, <1>4, <2>2, <3>4, <3>5 DEF Memory, W
    <3>7. \A a \in W : a < pos \/ b <= a => a # pos /\ a # c
      BY <1>1, <1>2, <2>2 DEF W, Words
    <3> QED BY <3>1, <3>3, <3>6, <3>7
  <2> QED BY <2>1, <2>2
<1>6. PICK u \in FrameWord : u = Header(0, size) /\ u.magic /\ HSize(u) = size /\ ~IsHole(u)
  BY <1>1, HeaderWord
<1>7. PICK v \in FrameWord : v = Footer(F[f], size) /\ v.magic /\ FSize(v) = size
  <2>1. F[f] \in FrameWord
    BY <1>4, <1>5 DEF Memory, W
  <2> QED BY <1>1, <2>1, FooterWord
<1>8. PICK n : n = [F EXCEPT ![b] = u, ![f] = v]
  OBVIOUS
<1>9. b # f /\ n \in Memory /\ n[b] = u /\ n[f] = v /\ \A a \in W : a # b /\ a # f => n[a] = F[a]
  <2>1. b # f
    BY <1>1, <1>2
  <2> QED BY <1>4, <1>5, <1>8, <2>1 DEF Memory, W
<1>10. [F EXCEPT ![b] = Header(0, size), ![f] = Footer(@, size)] = n
  BY <1>6, <1>7, <1>8, <1>9
<1>11. /\ m \in Memory /\ m[b] = u /\ m[f] = v
       /\ \A a \in W : a < b \/ e <= a => m[a] = F[a]
       /\ rest # 0 => /\ m[x].magic /\ HSize(m[x]) = rest /\ IsHole(m[x])
                      /\ m[l].magic /\ FSize(m[l]) = rest
  <2>1. \A a \in W : a < b \/ e <= a => a # b /\ a # f
    BY <1>1, <1>2 DEF W, Words
  <2>2. CASE rest = 0
    <3>1. m = n
      BY <1>10, <1>3, <2>2 DEF Cut
    <3> QED BY <1>9, <2>1, <2>2, <3>1
  <2>3. CASE rest # 0
    <3>1. PICK y \in FrameWord : y = Header(1, rest) /\ y.magic /\ HSize(y) = rest /\ IsHole(y)
      BY <1>1, HeaderWord
    <3>2. PICK s : s = [n EXCEPT ![x] = y]
      OBVIOUS
    <3>3. s \in Memory /\ s[x] = y /\ \A a \in W : a # x => s[a] = n[a]
      BY <1>4, <1>9, <2>3, <3>2 DEF Memory, W
    <3>4. s[l] \in FrameWord
      BY <1>4, <2>3, <3>3 DEF Memory, W
    <3>5. PICK z \in FrameWord : z = Footer(s[l], rest) /\ z.magic /\ FSize(z) = rest
      BY <1>1, <3>4, FooterWord
    <3>6. m = [s EXCEPT ![l] = z]
      <4>1. m = [[n EXCEPT ![x] = Header(1, rest)] EXCEPT ![l] = Footer(@, rest)]
        BY <1>10, <1>3, <2>3, Zenon DEF Cut
      <4>2. m = [s EXCEPT ![l] = Footer(@, rest)]
        BY <3>1, <3>2, <4>1
      <4> QED BY <3>5, <4>2
    <3>7. m \in Memory /\ m[l] = z /\ \A a \in W : a # l => m[a] = s[a]
      BY <1>4, <2>3, <3>3, <3>6 DEF Memory, W
    <3>8. x # l /\ b # x /\ b # l /\ f # x /\ f # l
      BY <1>1, <1>2, <2>3
    <3>9. \A a \in W : a < b \/ e <= a => a # x /\ a # l
      BY <1>1, <1>2, <2>3 DEF W, Words
    <3> QED BY <1>4, <1>9, <2>1, <2>3, <3>1, <3>3, <3>5, <3>7, <3>8, <3>9, ZenonT(40)
  <2> QED BY <2>2, <2>3
<1>12. t = [a \in W |-> IF ClientFills /\ a > b /\ a < f THEN Zero ELSE m[a]]
  BY <1>2, Consts DEF Taken, W
<1>13. t \in Memory
  <2>1. \A a \in W : m[a] \in FrameWord
    BY <1>11 DEF Memory, W
  <2> QED BY <1>12, <2>1, ZeroWord DEF Memory, W
<1>14. \A a \in W : a \in Int
  BY DEF W, Words
<1>15. b < f /\ f < x /\ x <= e /\ pos <= b
  BY <1>1, <1>2
<1>16. \A a \in W : a <= b \/ f <= a => t[a] = m[a]
  <2>1. \A a \in W : a <= b \/ f <= a => ~(a > b /\ a < f)
    BY <1>14
  <2> QED BY <1>12, <2>1
<1>17. \A a \in W : a < b \/ e <= a => t[a] = F[a]
  <2>1. \A a \in W : a < b \/ e <= a => a <= b \/ f <= a
    BY <1>14, <1>15
  <2> QED BY <1>11, <1>16, <2>1
<1>18. \A a \in W : a < pos \/ e <= a => t[a] = M[a]
  <2>1. \A a \in W : a < pos \/ e <= a => (a < b \/ e <= a) /\ (a < pos \/ b <= a)
    BY <1>1, <1>14, <1>15
  <2> QED BY <1>5, <1>17, <2>1
<1>19. FrameAt(t, b, size, FALSE)
  <2>1. t[b] = m[b] /\ t[f] = m[f]
    <3>1. b <= b /\ f <= f
      BY <1>2
    <3> QED BY <1>4, <1>16, <3>1
  <2>2. b + size - 4 = f
    BY <1>2
  <2> QED BY <1>6, <1>7, <1>11, <2>1, <2>2, ZenonT(40) DEF FrameAt
<1>20. lead # 0 => FrameAt(t, pos, lead, TRUE)
  <2> HAVE lead # 0
  <2>1. pos < b /\ c < b /\ c = pos + lead - 4
    BY <1>1, <1>2
  <2>2. t[pos] = F[pos] /\ t[c] = F[c]
    BY <1>4, <1>17, <2>1
  <2> QED BY <1>5, <2>1, <2>2 DEF FrameAt
<1>21. rest # 0 => FrameAt(t, x, rest, TRUE)
  <2> HAVE rest # 0
  <2>1. f <= x /\ f <= l /\ l = x + rest - 4
    BY <1>1, <1>2
  <2>2. t[x] = m[x] /\ t[l] = m[l]
    BY <1>4, <1>16, <2>1
  <2> QED BY <1>11, <2>1, <2>2 DEF FrameAt
<1> QED BY <1>1, <1>2, <1>13, <1>18, <1>19, <1>20, <1>21 DEF W

(* A block with the hole before it and the hole behind it, if any.         *)
LEMMA TakeTiles ==
    ASSUME NEW r, NEW pos \in Int, NEW lead \in Nat, NEW size \in Nat, NEW rest \in Nat,
           NEW b \in Int, NEW x \in Int, NEW e \in Int, b = pos + lead, x = b + size, e = x + rest,
           pos % 4 = 0, lead % 4 = 0, size % 4 = 0, rest % 4 = 0,
           lead = 0 \/ lead >= 8, size >= 8, rest = 0 \/ rest >= 8,
           DOMAIN r = {b} \cup (IF lead = 0 THEN {} ELSE {pos}) \cup (IF rest = 0 THEN {} ELSE {x}),
           r[b] = size, lead # 0 => r[pos] = lead, rest # 0 => r[x] = rest
    PROVE  Tiling(r, pos, e)
<1>1. b % 4 = 0 /\ x % 4 = 0
  OBVIOUS
<1>2. pos <= b /\ b < e /\ b + size <= e /\ x <= e
  OBVIOUS
<1>3. lead # 0 => pos < b /\ pos + lead = b /\ pos < e
  OBVIOUS
<1>4. rest # 0 => b < x /\ pos <= x /\ x < e /\ x + rest = e
  OBVIOUS
<1>5. \A h \in DOMAIN r : h = b \/ (lead # 0 /\ h = pos) \/ (rest # 0 /\ h = x)
  OBVIOUS
<1>6. \A h \in DOMAIN r : /\ h \in Int /\ pos <= h /\ h < e /\ h % 4 = 0
                          /\ r[h] \in Nat /\ r[h] % 4 = 0 /\ r[h] >= 8 /\ h + r[h] <= e
  <2> TAKE h \in DOMAIN r
  <2>1. CASE h = b
    BY <1>1, <1>2, <2>1
  <2>2. CASE lead # 0 /\ h = pos
    BY <1>2, <1>3, <2>2
  <2>3. CASE rest # 0 /\ h = x
    BY <1>1, <1>4, <2>3
  <2> QED BY <1>5, <2>1, <2>2, <2>3
<1>7. ASSUME NEW g \in DOMAIN r, NEW h \in DOMAIN r, g < h PROVE g + r[g] <= h
  <2>1. CASE g = b
    <3>1. h # b /\ (lead # 0 => h # pos)
      BY <1>3, <1>7, <2>1
    <3> QED BY <1>5, <2>1, <3>1
  <2>2. CASE lead # 0 /\ g = pos
    BY <1>2, <1>3, <1>4, <1>5, <1>7, <2>2
  <2>3. CASE rest # 0 /\ g = x
    <3>1. h # b /\ h # x /\ (lead # 0 => h # pos)
      BY <1>3, <1>4, <1>7, <2>3
    <3> QED BY <1>5, <3>1
  <2> QED BY <1>5, <2>1, <2>2, <2>3
<1>8. ASSUME NEW a \in Int, pos <= a, a < e PROVE \E h \in DOMAIN r : h <= a /\ a < h + r[h]
  <2>1. CASE a < b
    <3>1. lead # 0
      BY <1>8, <2>1
    <3> QED BY <1>3, <1>8, <2>1, <3>1
  <2>2. CASE b <= a /\ a < x
    BY <2>2
  <2>3. CASE x <= a
    <3>1. rest # 0
      BY <1>8, <2>3
    <3> QED BY <1>4, <1>8, <2>3, <3>1
  <2> QED BY <2>1, <2>2, <2>3
<1> QED BY <1>6, <1>7, <1>8, Consts DEF Tiling, Words

LEMMA FrontSize ==
    ASSUME NEW M \in Memory, NEW pos \in Words(Start - Word, MaxAddress),
           NEW lead \in 8 .. SizeMod - 1, NEW b, b = pos + lead
    PROVE  HSize(Front(M, pos, b, lead, TRUE)[pos]) = lead
<1>1. PICK u \in FrameWord : u = Header(1, lead) /\ HSize(u) = lead
  BY HeaderWord
<1>2. pos \in Int /\ lead \in Int /\ lead >= 8
  BY DEF Words
<1>3. PICK c \in Int : c = b - Word /\ c # pos
  BY <1>2, Consts
<1>4. Front(M, pos, b, lead, TRUE) = [[M EXCEPT ![pos] = u] EXCEPT ![c] = Footer(@, lead)]
  BY <1>1, <1>3, Zenon DEF Front
<1>5. Front(M, pos, b, lead, TRUE)[pos] = u
  BY <1>3, <1>4, Zenon DEF Memory
<1> QED BY <1>1, <1>5

(* The hole at pos that Take uses, and how it divides it.                  *)
TakeFacts(pos, lead, size, rest) ==
    /\ pos \in Holes /\ TakePos = pos /\ FoundHole \in DOMAIN index
    /\ req \in Requests /\ req.size \in Nat /\ req.size % 4 = 0
    /\ TakeArgs(mem, pos, lead, size, rest)
    /\ SizeAt(pos) = lead + size + rest /\ req.size + 8 <= size
    /\ TakeLeads <=> lead # 0
    /\ TakeBlock = pos + lead /\ TakeSize = size /\ TakeRest = rest
    /\ Lead(pos) = lead \/ ~TakeLeads
    /\ req.align => (pos + lead + 4) % Page = 0

LEMMA TakeFound ==
    ASSUME HeapInv, Take
    PROVE  /\ FoundHole \in DOMAIN index /\ TakePos \in Holes
           /\ Fits(TakePos, req) /\ Fitting # {}
           /\ req # NoRequest /\ req \in Requests /\ req.size \in Nat /\ req.size % 4 = 0
           /\ req.align \in BOOLEAN
<1>1. req # NoRequest /\ Fitting # {}
  BY Zenon DEF Take
<1>2. req \in Requests
  BY <1>1 DEF HeapInv, ShapeInv
<1>3. Fitting \in SUBSET Nat
  <2>1. DOMAIN index \subseteq Nat
    BY LenProperties, Shaped
  <2> QED BY <2>1 DEF Fitting
<1>4. \E m \in Fitting : \A x \in Fitting : m <= x
  BY <1>1, <1>3, Least
<1>5. FoundHole \in Fitting
  BY <1>4, Zenon DEF FoundHole
<1> QED BY <1>1, <1>2, <1>5, HeapConstants, Consts DEF Fitting, TakePos, Holes

LEMMA TakeReads ==
    ASSUME HeapInv, CarefulTake
    PROVE  \E pos, lead, size, rest \in Int : TakeFacts(pos, lead, size, rest)
<1>1. /\ mem \in Memory /\ end_address \in Int /\ Start + MinSize <= end_address
      /\ end_address <= MaxAddress /\ end_address - Start < SizeMod /\ FrameInv
  BY Shaped
<1>2. /\ FoundHole \in DOMAIN index /\ TakePos \in Holes
      /\ Fits(TakePos, req) /\ Fitting # {}
      /\ req # NoRequest /\ req \in Requests /\ req.size \in Nat /\ req.size % 4 = 0
      /\ req.align \in BOOLEAN
  BY TakeFound DEF CarefulTake
<1>3. TakePos \in Tiles
  BY <1>2 DEF Tiles
<1>4. PICK pos \in Int, total \in Nat :
         /\ pos = TakePos /\ total = SizeAt(pos) /\ Start <= pos /\ pos % 4 = 0 /\ total % 4 = 0
         /\ total >= 8 /\ pos + total <= end_address
  BY <1>1, <1>3, TileFacts
<1>5. PICK n \in Nat : n = req.size /\ n % 4 = 0
  BY <1>2
<1>6. TakeLeads <=> req.align
  BY <1>4, Consts DEF TakeLeads
<1>7. TakeTotal = total /\ TakeSize = IF total - (n + 8) < 8 THEN total ELSE n + 8
  BY <1>4, <1>5, Consts DEF TakeTotal, TakeSize
<1>8. total < SizeMod /\ Start \in Int /\ SizeMod \in Int /\ MaxAddress \in Int
  BY <1>1, <1>4, Consts
<1>9. \A a \in Int : pos <= a /\ a < pos + total /\ a % 4 = 0 =>
                        a \in Words(Start - Word, MaxAddress)
  BY <1>1, <1>4, <1>8, Consts DEF Words
<1>10. CASE ~req.align
  <2>1. total >= n + 8
    <3>1. SizeAt(TakePos) - 0 >= req.size + Overhead
      BY <1>2, <1>10, Zenon DEF Fits
    <3>2. SizeAt(TakePos) = total /\ req.size = n
      BY <1>4, <1>5
    <3>3. total - 0 >= n + Overhead
      BY <3>1, <3>2, Zenon
    <3>4. Overhead = 8
      BY Consts
    <3> QED BY <3>3, <3>4
  <2>2. PICK size \in Nat, rest \in Nat :
           /\ size = IF total - (n + 8) < 8 THEN total ELSE n + 8
           /\ rest = total - size
    BY <2>1
  <2>3. TakeSize = size /\ TakeRest = rest
    BY <1>6, <1>7, <1>10, <2>2 DEF TakeRest
  <2>4. size >= 8 /\ (rest = 0 \/ rest >= 8) /\ n + 8 <= size /\ total = size + rest
    BY <2>1, <2>2
  <2>5. size % 4 = 0 /\ rest % 4 = 0
    BY <1>4, <1>5, <2>2
  <2>6. TakeBlock = pos + 0
    BY <1>4, <1>6, <1>10 DEF TakeBlock
  <2>7. \A a \in Int : pos <= a /\ a < pos + 0 + size + rest /\ a % 4 = 0 =>
                          a \in Words(Start - Word, MaxAddress)
    <3>1. pos + 0 + size + rest = pos + total
      BY <2>4
    <3> QED BY <1>9, <3>1
  <2>8. {0, size, rest} \subseteq 0 .. SizeMod - 1
    BY <1>8, <2>4
  <2>9. TakeArgs(mem, pos, 0, size, rest)
    BY <1>1, <1>4, <2>4, <2>5, <2>7, <2>8 DEF TakeArgs
  <2>10. SizeAt(pos) = 0 + size + rest
    BY <1>4, <2>4
  <2>11. TakeFacts(pos, 0, size, rest)
    BY <1>2, <1>4, <1>5, <1>6, <1>10, <2>3, <2>4, <2>6, <2>9, <2>10 DEF TakeFacts
  <2> QED BY <2>2, <2>11
<1>11. CASE req.align
  <2>1. PICK q \in Int : q = PageOf(pos) /\ q % Page = 0
    BY OnPage
  <2>2. PICK g \in Int : g = Page /\ g % Page = 0 /\ g % 4 = 0
    BY Consts
  <2>3. PICK lead \in Int : lead = q + g - pos - 4
    OBVIOUS
  <2>4. Lead(pos) = lead
    <3>1. PICK k \in Int : k = pos % Page
      BY Consts
    <3>2. q = pos - k
      BY <2>1, <3>1 DEF PageOf
    <3> QED BY <2>2, <2>3, <3>1, <3>2, Consts DEF Lead
  <2>5. q % 4 = 0
    BY <2>1, Multiple, Consts
  <2>6. lead % 4 = 0
    BY <1>4, <2>2, <2>3, <2>5
  <2>7. pos = index[FoundHole]
    BY <1>4 DEF TakePos
  <2>8. Lead(pos) >= 8 /\ \/ total - Lead(pos) - n - 8 = 0
                          \/ total - Lead(pos) - n - 8 >= 8
    <3>1. LET rest == SizeAt(pos) - Lead(pos) - req.size - 8
          IN  Lead(pos) >= 8 /\ (rest = 0 \/ rest >= 8)
      BY <1>2, <1>11, <2>7, Consts, Zenon DEF CarefulTake, RoomToAlign
    <3> QED BY <1>4, <1>5, <3>1
  <2>9. PICK size \in Nat, rest \in Nat :
           /\ size = n + 8 /\ rest = total - lead - size /\ (rest = 0 \/ rest >= 8) /\ lead >= 8
    BY <2>4, <2>8
  <2>10. TakeSize = size
    BY <1>7, <2>9
  <2>11. total = lead + size + rest
    BY <2>9
  <2>12. lead \in 8 .. SizeMod - 1 /\ {lead, size, rest} \subseteq 0 .. SizeMod - 1
    BY <1>8, <2>9, <2>11
  <2>13. TakeBlock = pos + lead
    BY <1>4, <1>6, <1>11, <2>4 DEF TakeBlock
  <2>14. TakeFront = Front(mem, pos, pos + lead, lead, TRUE)
    BY <1>4, <1>6, <1>11, <2>4, <2>13, Zenon DEF TakeFront
  <2>15. pos \in Words(Start - Word, MaxAddress)
    BY <1>4, <1>9
  <2>16. HSize(TakeFront[pos]) = lead
    BY <1>1, <2>12, <2>14, <2>15, FrontSize
  <2>17. TakeRest = rest
    BY <1>4, <1>6, <1>7, <1>11, <2>9, <2>10, <2>16 DEF TakeRest
  <2>18. size % 4 = 0 /\ rest % 4 = 0
    BY <1>4, <1>5, <2>6, <2>9
  <2>19. \A a \in Int : pos <= a /\ a < pos + lead + size + rest /\ a % 4 = 0 =>
                           a \in Words(Start - Word, MaxAddress)
    <3>1. pos + lead + size + rest = pos + total
      BY <2>11
    <3> QED BY <1>9, <3>1
  <2>20. TakeArgs(mem, pos, lead, size, rest)
    BY <1>1, <1>4, <2>6, <2>9, <2>12, <2>18, <2>19 DEF TakeArgs
  <2>21. (pos + lead + 4) % Page = 0
    <3>1. pos + lead + 4 = q + g
      BY <2>3
    <3> QED BY <2>1, <2>2, <3>1, PageSteps
  <2>22. lead # 0 /\ n + 8 <= size
    BY <2>9
  <2>23. TakeFacts(pos, lead, size, rest)
    BY <1>2, <1>4, <1>5, <1>6, <1>11, <2>4, <2>10, <2>11, <2>13, <2>17, <2>20, <2>21, <2>22
       DEF TakeFacts
  <2> QED BY <2>9, <2>23
<1> QED BY <1>2, <1>10, <1>11

(* What Take leaves: a block, and at its sides the holes that remain.      *)
TakeNew(pos, lead, size, rest) ==
    {pos + lead} \cup (IF lead = 0 THEN {} ELSE {pos})
                 \cup (IF rest = 0 THEN {} ELSE {pos + lead + size})
TakeEffect(pos, lead, size, rest) ==
    /\ mem' \in Memory
    /\ \A a \in Space : a < pos \/ pos + lead + size + rest <= a => mem'[a] = mem[a]
    /\ FrameAt(mem', pos + lead, size, FALSE)
    /\ lead # 0 => FrameAt(mem', pos, lead, TRUE)
    /\ rest # 0 => FrameAt(mem', pos + lead + size, rest, TRUE)
    /\ index' \in Seq(Int) /\ OneOne(index') /\ Len(index') < Capacity
    /\ Elements(index') = (IF lead = 0 THEN Holes \ {pos} ELSE Holes)
                          \cup (IF rest = 0 THEN {} ELSE {pos + lead + size})
    /\ live' = live \cup {[p |-> pos + lead + 4, size |-> req.size, align |-> req.align]}
    /\ req' = NoRequest /\ UNCHANGED <<end_address, backed, status>>

LEMMA TakeWrites ==
    ASSUME HeapInv, CarefulTake, NEW pos \in Int, NEW lead \in Int, NEW size \in Int, NEW rest \in Int,
           TakeFacts(pos, lead, size, rest)
    PROVE  TakeEffect(pos, lead, size, rest)
<1>1. /\ mem \in Memory /\ end_address \in Int /\ end_address <= MaxAddress /\ FrameInv
      /\ index \in Seq(Int) /\ OneOne(index) /\ Elements(index) = Holes
  BY Shaped
<1>2. /\ pos \in Holes /\ TakePos = pos /\ FoundHole \in DOMAIN index
      /\ TakeArgs(mem, pos, lead, size, rest)
      /\ SizeAt(pos) = lead + size + rest
      /\ TakeLeads <=> lead # 0
      /\ TakeBlock = pos + lead /\ TakeSize = size /\ TakeRest = rest
      /\ Lead(pos) = lead \/ ~TakeLeads
  BY DEF TakeFacts
<1>3. /\ lead \in Nat /\ size \in Nat /\ rest \in Nat /\ size >= 8
      /\ lead = 0 \/ lead >= 8
      /\ rest = 0 \/ rest >= 8
      /\ \A a \in Int : pos <= a /\ a < pos + lead + size + rest /\ a % 4 = 0 =>
                           a \in Words(Start - Word, MaxAddress)
      /\ pos % 4 = 0 /\ lead % 4 = 0 /\ size % 4 = 0 /\ rest % 4 = 0
  BY <1>2 DEF TakeArgs
<1>4. pos \in Tiles
  BY <1>2 DEF Tiles
<1>5. /\ pos + (lead + size + rest) <= end_address
      /\ pos + (lead + size + rest) = end_address \/ pos + (lead + size + rest) \in Tiles
      /\ \A h \in Tiles : h \in Int /\ SizeAt(h) \in Nat /\ SizeAt(h) >= 8
      /\ \A g, h \in Tiles : g < h => g + SizeAt(g) <= h
  BY <1>1, <1>2, <1>4, TileFacts
<1>6. PICK b \in Int, f \in Int, x \in Int, l \in Int :
         b = pos + lead /\ f = b + size - 4 /\ x = b + size /\ l = x + rest - 4
  BY <1>3
<1>7. /\ TakeFoot = f /\ TakeAfter = x /\ TakeLast = l /\ TakeBlock = b
  BY <1>2, <1>6, Consts DEF TakeFoot, TakeAfter, TakeLast
<1>8. {f} \cup (IF rest = 0 THEN {} ELSE {x, l}) \subseteq Words(Start - Word, MaxAddress)
  <2>1. f % 4 = 0 /\ x % 4 = 0 /\ l % 4 = 0
    BY <1>3, <1>6
  <2>2. pos <= f /\ f < pos + lead + size + rest
    BY <1>3, <1>6
  <2>3. rest # 0 => pos <= x /\ x < pos + lead + size + rest /\ pos <= l /\ l < pos + lead + size + rest
    BY <1>3, <1>6
  <2> QED BY <1>3, <2>1, <2>2, <2>3
<1>9. TakeFront = Front(mem, pos, pos + lead, lead, lead # 0)
  <2>1. CASE lead = 0
    BY <1>2, <2>1 DEF TakeFront, Front
  <2>2. CASE lead # 0
    <3>1. Lead(pos) = lead
      BY <1>2, <2>2
    <3>2. TakeLeads = TRUE /\ (lead # 0) = TRUE
      BY <1>2, <2>2 DEF TakeLeads
    <3> QED BY <1>2, <3>1, <3>2 DEF TakeFront
  <2> QED BY <2>1, <2>2
<1>10. ~(l >= end_address)
  <2>1. l < pos + (lead + size + rest)
    BY <1>3, <1>6
  <2> QED BY <1>1, <1>3, <1>5, <2>1
<1>11. TakeCut = Cut(TakeFront, pos + lead, pos + lead + size - Word, pos + lead + size,
                     pos + lead + size + rest - Word, size, rest, FALSE)
  <2>1. TakeCut = Cut(TakeFront, b, f, x, l, size, rest, l >= end_address)
    BY <1>2, <1>7 DEF TakeCut
  <2>2. (l >= end_address) = FALSE
    BY <1>10
  <2> QED BY <1>3, <1>6, <2>1, <2>2, Consts
<1>12. Space = Words(Start - Word, MaxAddress)
  BY <1>1, SpaceWords
<1>13. TakeKept \in Seq(Int) /\ OneOne(TakeKept) /\ Len(TakeKept) + 1 < Capacity
       /\ Elements(TakeKept) = IF lead = 0 THEN Holes \ {pos} ELSE Holes
  <2>1. Len(index) + 1 < Capacity /\ Len(index) \in Nat /\ FoundHole \in 1 .. Len(index)
    BY <1>1, <1>2, LenProperties DEF CarefulTake, RoomInIndex
  <2>2. CASE lead # 0
    BY <1>1, <1>2, <2>1, <2>2 DEF TakeKept
  <2>3. CASE lead = 0
    <3>1. TakeKept = Removed(index, FoundHole) /\ index[FoundHole] = pos
      BY <1>2, <2>3 DEF TakeKept, TakePos
    <3>2. /\ TakeKept \in Seq(Int) /\ OneOne(TakeKept) /\ Len(TakeKept) = Len(index) - 1
          /\ Elements(TakeKept) = Holes \ {pos}
      BY <1>1, <2>1, <3>1, RemovedIndex
    <3>3. Capacity \in Int
      BY HeapConstants
    <3> QED BY <2>1, <2>3, <3>2, <3>3
  <2> QED BY <2>2, <2>3
<1>14. /\ mem' = Taken(Space, TakeCut, TakeBlock, TakeFoot)
       /\ index' = IF TakeRest = 0 THEN TakeKept ELSE Inserted(TakeKept, TakeCut, TakeAfter)
       /\ live' = live \cup {[p |-> TakeBlock + Word, size |-> req.size, align |-> req.align]}
       /\ req' = NoRequest /\ UNCHANGED <<end_address, backed, status>>
  <2>1. {TakeFoot} \cup (IF TakeRest = 0 THEN {} ELSE {TakeAfter, TakeLast}) \subseteq Space
    BY <1>2, <1>7, <1>8, <1>12
  <2>2. ~(TakeRest # 0 /\ Len(TakeKept) + 1 >= Capacity)
    <3>1. Len(TakeKept) \in Nat /\ Capacity \in Int
      BY <1>13, LenProperties, HeapConstants
    <3> QED BY <1>13, <3>1
  <2> QED BY <2>1, <2>2, TakeBranch DEF CarefulTake
<1>15. mem' = Taken(Words(Start - Word, MaxAddress), TakeCut, pos + lead, pos + lead + size - Word)
  BY <1>3, <1>6, <1>7, <1>12, <1>14, Consts
<1>16. /\ mem' \in Memory
       /\ \A a \in Words(Start - Word, MaxAddress) :
              a < pos \/ pos + lead + size + rest <= a => mem'[a] = mem[a]
       /\ FrameAt(mem', pos + lead, size, FALSE)
       /\ lead # 0 => FrameAt(mem', pos, lead, TRUE)
       /\ rest # 0 => FrameAt(mem', pos + lead + size, rest, TRUE)
  <2>1. PICK F, m, t :
           /\ F = Front(mem, pos, pos + lead, lead, lead # 0)
           /\ m = Cut(F, pos + lead, pos + lead + size - Word, pos + lead + size,
                      pos + lead + size + rest - Word, size, rest, FALSE)
           /\ t = Taken(Words(Start - Word, MaxAddress), m, pos + lead, pos + lead + size - Word)
           /\ t = mem'
    BY <1>9, <1>11, <1>15, Zenon
  <2>2. /\ t \in Memory
        /\ \A a \in Words(Start - Word, MaxAddress) :
               a < pos \/ pos + lead + size + rest <= a => t[a] = mem[a]
        /\ FrameAt(t, pos + lead, size, FALSE)
        /\ lead # 0 => FrameAt(t, pos, lead, TRUE)
        /\ rest # 0 => FrameAt(t, pos + lead + size, rest, TRUE)
    BY <1>2, <2>1, TakeWords, Zenon
  <2> QED BY <2>1, <2>2, Zenon
<1>17. /\ index' \in Seq(Int) /\ OneOne(index') /\ Len(index') < Capacity
       /\ Elements(index') = (IF lead = 0 THEN Holes \ {pos} ELSE Holes)
                             \cup (IF rest = 0 THEN {} ELSE {pos + lead + size})
  <2>1. Len(TakeKept) \in Nat /\ Capacity \in Int
    BY <1>13, LenProperties, HeapConstants
  <2>2. CASE rest = 0
    BY <1>2, <1>13, <1>14, <2>1, <2>2
  <2>3. CASE rest # 0
    <3>1. x \notin Tiles
      <4>1. pos < x /\ x < pos + (lead + size + rest)
        BY <1>3, <1>6, <2>3
      <4> QED BY <1>2, <1>4, <1>5, <4>1
    <3>2. x \notin Elements(TakeKept)
      BY <1>13, <3>1 DEF Tiles
    <3>3. index' = Inserted(TakeKept, TakeCut, x)
      BY <1>2, <1>7, <1>14, <2>3
    <3>4. /\ index' \in Seq(Int) /\ OneOne(index') /\ Len(index') = Len(TakeKept) + 1
          /\ Elements(index') = Elements(TakeKept) \cup {x}
      BY <1>13, <3>2, <3>3, InsertedIndex
    <3> QED BY <1>6, <1>13, <2>1, <2>3, <3>4
  <2> QED BY <2>2, <2>3
<1>18. live' = live \cup {[p |-> pos + lead + 4, size |-> req.size, align |-> req.align]}
  BY <1>2, <1>14, Consts
<1> QED BY <1>12, <1>14, <1>16, <1>17, <1>18 DEF TakeEffect

LEMMA TakeInv ==
    ASSUME HeapInv, CarefulTake
    PROVE  HeapInv' /\ PayloadKept
<1>1. /\ mem \in Memory /\ end_address \in Int /\ Start + MinSize <= end_address
      /\ end_address <= MaxAddress /\ end_address - Start < SizeMod /\ FrameInv /\ ClientInv
  BY Shaped
<1>2. PICK pos \in Int, lead \in Int, size \in Int, rest \in Int :
         TakeFacts(pos, lead, size, rest) /\ TakeEffect(pos, lead, size, rest)
  BY TakeReads, TakeWrites
<1>3. /\ pos \in Holes /\ req \in Requests /\ req.size \in Nat /\ req.size % 4 = 0
      /\ TakeArgs(mem, pos, lead, size, rest)
      /\ SizeAt(pos) = lead + size + rest /\ req.size + 8 <= size
      /\ req.align => (pos + lead + 4) % Page = 0
  BY <1>2 DEF TakeFacts
<1>4. /\ lead \in Nat /\ size \in Nat /\ rest \in Nat /\ size >= 8
      /\ lead = 0 \/ lead >= 8
      /\ rest = 0 \/ rest >= 8
      /\ \A a \in Int : pos <= a /\ a < pos + lead + size + rest /\ a % 4 = 0 =>
                           a \in Words(Start - Word, MaxAddress)
      /\ pos % 4 = 0 /\ lead % 4 = 0 /\ size % 4 = 0 /\ rest % 4 = 0
  BY <1>3 DEF TakeArgs
<1>5. PICK b \in Int, x \in Int, e \in Int : b = pos + lead /\ x = b + size /\ e = x + rest
  BY <1>4
<1>6. PICK new : new = {b} \cup (IF lead = 0 THEN {} ELSE {pos}) \cup (IF rest = 0 THEN {} ELSE {x})
  OBVIOUS
<1>7. /\ mem' \in Memory
      /\ \A a \in Space : a < pos \/ e <= a => mem'[a] = mem[a]
      /\ FrameAt(mem', b, size, FALSE)
      /\ lead # 0 => FrameAt(mem', pos, lead, TRUE)
      /\ rest # 0 => FrameAt(mem', x, rest, TRUE)
      /\ index' \in Seq(Int) /\ OneOne(index') /\ Len(index') < Capacity
      /\ Elements(index') = (IF lead = 0 THEN Holes \ {pos} ELSE Holes)
                            \cup (IF rest = 0 THEN {} ELSE {x})
      /\ live' = live \cup {[p |-> b + 4, size |-> req.size, align |-> req.align]}
      /\ req' = NoRequest /\ UNCHANGED <<end_address, backed, status>>
  BY <1>2, <1>5 DEF TakeEffect
<1>8. pos <= b /\ b < x /\ x <= e /\ pos < e /\ e = pos + SizeAt(pos)
  BY <1>3, <1>4, <1>5
<1>9. lead # 0 => pos < b
  BY <1>4, <1>5
<1>10. rest # 0 => x < e
  BY <1>4, <1>5
<1>11. \A g \in Tiles : /\ g \in Int /\ Start <= g /\ g % 4 = 0 /\ SizeAt(g) \in Nat
                        /\ SizeAt(g) % 4 = 0 /\ SizeAt(g) >= 8 /\ g + SizeAt(g) <= end_address
  BY <1>1, TileFacts
<1>12. pos \in Tiles
  BY <1>3 DEF Tiles
<1>13. /\ \A g \in Tiles : g < pos => g + SizeAt(g) <= pos
       /\ \A g \in Tiles : pos < g => e <= g
  BY <1>1, <1>8, <1>12, TileFacts
<1>14. Start <= pos /\ e <= end_address
  BY <1>8, <1>11, <1>12
<1>15. \A g \in Tiles : g # pos <=> g < pos \/ e <= g
  <2> SUFFICES ASSUME NEW g \in Tiles PROVE g # pos <=> g < pos \/ e <= g
    OBVIOUS
  <2>1. g \in Int /\ (pos < g => e <= g)
    BY <1>11, <1>13
  <2> QED BY <1>8, <2>1
<1>16. Kept(pos, e) = Tiles \ {pos}
  BY <1>15 DEF Kept, Outside, Sizes
<1>17. /\ \A g \in Tiles : g # pos => g # b
       /\ rest # 0 => x \notin Tiles
  <2>1. \A g \in Tiles : g # pos => g \in Int /\ (g < pos \/ e <= g)
    BY <1>11, <1>15
  <2>2. \A g \in Tiles : g # pos => g # b
    BY <1>8, <2>1
  <2>3. rest # 0 => x \notin Tiles
    BY <1>8, <1>10, <2>1
  <2> QED BY <2>2, <2>3
<1>18. Holes' = (IF lead = 0 THEN Holes \ {pos} ELSE Holes) \cup (IF rest = 0 THEN {} ELSE {x})
  BY <1>7 DEF Elements, Holes
<1>19. Blocks' = Blocks \cup {b}
  <2>1. PICK c : c = [p |-> b + 4, size |-> req.size, align |-> req.align]
    OBVIOUS
  <2>2. c.p - Word = b
    BY <2>1, Consts
  <2>3. live' = live \cup {c}
    BY <1>7, <2>1
  <2> QED BY <2>2, <2>3 DEF Blocks
<1>20. Holes \cap Blocks = {}
  BY <1>1 DEF FrameInv
<1>21. Tiles' = Kept(pos, e) \cup new
  BY <1>3, <1>5, <1>6, <1>16, <1>18, <1>19, <1>20 DEF Tiles
<1>22. b \notin Holes'
  <2>1. b # x
    BY <1>8
  <2>2. lead = 0 => b = pos
    BY <1>5
  <2>3. lead # 0 => b \notin Holes
    <3>1. lead # 0 => b # pos
      BY <1>8, <1>9
    <3> QED BY <1>17, <3>1 DEF Tiles
  <2> QED BY <1>18, <2>1, <2>2, <2>3
<1>23. lead # 0 => pos \notin Blocks'
  <2>1. lead # 0 => b # pos
    BY <1>8, <1>9
  <2> QED BY <1>3, <1>19, <1>20, <2>1
<1>24. rest # 0 => x \notin Blocks'
  <2>1. x # b
    BY <1>8
  <2> QED BY <1>17, <1>19, <2>1 DEF Tiles
<1>25. \A h, n, hole : FrameAt(mem', h, n, hole) => SizeAt(h)' = n
  BY DEF FrameAt, SizeAt
<1>26. /\ SizeAt(b)' = size
       /\ lead # 0 => SizeAt(pos)' = lead
       /\ rest # 0 => SizeAt(x)' = rest
  BY <1>7, <1>25
<1>27. Space' = Words(Start - Word, MaxAddress)
  BY <1>7 DEF Space, Memory
<1>28. \A h \in Int, n \in Nat : \A hole :
          FrameAt(mem', h, n, hole) /\ pos <= h /\ n >= 8 /\ h + n <= e /\ h % 4 = 0 /\ n % 4 = 0
          => Framed(h)'
  <2> TAKE h \in Int, n \in Nat
  <2> TAKE hole
  <2> HAVE FrameAt(mem', h, n, hole) /\ pos <= h /\ n >= 8 /\ h + n <= e /\ h % 4 = 0 /\ n % 4 = 0
  <2>1. PICK f \in Int : f = h + n - 4 /\ f % 4 = 0
    OBVIOUS
  <2>2. e = pos + lead + size + rest
    BY <1>5
  <2>3. pos <= h /\ h < e /\ pos <= f /\ f < e
    BY <2>1
  <2>4. h \in Space' /\ f \in Space'
    BY <1>4, <1>27, <2>1, <2>2, <2>3
  <2>5. SizeAt(h)' = n
    BY <1>25
  <2>6. h + SizeAt(h)' - Word = f
    BY <2>1, <2>5, Consts
  <2> QED BY <2>1, <2>4, <2>5, <2>6 DEF Framed, FrameAt
<1>29. b % 4 = 0 /\ x % 4 = 0
  BY <1>4, <1>5
<1>30. \A h \in new : Framed(h)'
  <2>1. Framed(b)'
    <3>1. b + size <= e
      BY <1>5, <1>8
    <3> QED BY <1>4, <1>7, <1>8, <1>28, <1>29, <3>1
  <2>2. lead # 0 => Framed(pos)'
    <3>1. lead # 0 => pos + lead <= e /\ pos <= pos /\ lead >= 8
      BY <1>4, <1>5, <1>8
    <3> QED BY <1>4, <1>7, <1>28, <3>1
  <2>3. rest # 0 => Framed(x)'
    <3>1. rest # 0 => x + rest <= e /\ pos <= x /\ rest >= 8
      BY <1>4, <1>5, <1>8
    <3> QED BY <1>4, <1>7, <1>28, <1>29, <3>1
  <2> QED BY <1>6, <2>1, <2>2, <2>3
<1>31. Tiling(NewSizes(new), pos, e)
  <2>1. PICK r : r = NewSizes(new)
    OBVIOUS
  <2>2. DOMAIN r = new /\ r[b] = size /\ (lead # 0 => r[pos] = lead) /\ (rest # 0 => r[x] = rest)
    BY <1>6, <1>26, <2>1 DEF NewSizes
  <2>3. Tiling(r, pos, e)
    BY <1>4, <1>5, <1>6, <2>2, TakeTiles, ZenonT(60)
  <2> QED BY <2>1, <2>3
<1>32. Apart(Sizes, pos, e)
  <2>1. DOMAIN Sizes = Tiles /\ \A g \in Tiles : Sizes[g] = SizeAt(g)
    BY DEF Sizes
  <2>2. ASSUME NEW g \in Tiles
        PROVE  g + SizeAt(g) <= pos \/ (pos <= g /\ g + SizeAt(g) <= e) \/ e <= g
    <3>1. CASE g = pos
      BY <1>8, <3>1
    <3>2. CASE g # pos
      BY <1>13, <1>15, <3>2
    <3> QED BY <3>1, <3>2
  <2> QED BY <2>1, <2>2 DEF Apart
<1>33. Rebuild(pos, e, e, new)
  BY <1>1, <1>7, <1>8, <1>14, <1>21, <1>30, <1>31, <1>32 DEF Rebuild
<1>34. FrameInv'
  <2>1. \A g \in Kept(pos, e) : /\ g \in Holes' <=> g \in Holes
                                /\ g \in Blocks' <=> g \in Blocks
    BY <1>16, <1>17, <1>18, <1>19
  <2>2. e \notin Holes'
    <3>1. e \notin Holes
      BY <1>1, <1>3, <1>8 DEF FrameInv
    <3>2. rest # 0 => e # x
      BY <1>10
    <3> QED BY <1>18, <3>1, <3>2
  <2>3. ASSUME NEW h \in new
        PROVE  /\ h \in Holes' => IsHole(mem'[h]) /\ h + SizeAt(h)' \notin Holes'
               /\ h \in Blocks' => ~IsHole(mem'[h])
               /\ h \in Holes' => \A g \in Kept(pos, e) \cap Holes : g + SizeAt(g) # h
    <3>1. CASE h = b
      <4>1. ~IsHole(mem'[h])
        BY <1>7, <3>1 DEF FrameAt
      <4> QED BY <1>22, <3>1, <4>1
    <3>2. CASE lead # 0 /\ h = pos
      <4>1. IsHole(mem'[h]) /\ h \notin Blocks'
        BY <1>7, <1>23, <3>2 DEF FrameAt
      <4>2. h + SizeAt(h)' = b
        BY <1>5, <1>26, <3>2
      <4>3. \A g \in Holes : g + SizeAt(g) # h
        BY <1>1, <1>3, <3>2 DEF FrameInv
      <4> QED BY <1>22, <4>1, <4>2, <4>3
    <3>3. CASE rest # 0 /\ h = x
      <4>1. IsHole(mem'[h]) /\ h \notin Blocks'
        BY <1>7, <1>24, <3>3 DEF FrameAt
      <4>2. h + SizeAt(h)' = e
        BY <1>5, <1>26, <3>3
      <4>3. ASSUME NEW g \in Tiles, g # pos, g + SizeAt(g) = x PROVE FALSE
        <5>1. g \in Int /\ SizeAt(g) \in Nat /\ (g < pos \/ e <= g)
          BY <1>11, <1>15, <4>3
        <5>2. g < pos => g + SizeAt(g) <= pos
          BY <1>13
        <5> QED BY <1>8, <1>10, <3>3, <4>3, <5>1, <5>2
      <4>4. \A g \in Kept(pos, e) \cap Holes : g + SizeAt(g) # h
        BY <1>16, <3>3, <4>3
      <4> QED BY <2>2, <4>1, <4>2, <4>4
    <3> QED BY <1>6, <3>1, <3>2, <3>3
  <2> QED BY <1>1, <1>33, <2>1, <2>3, RebuiltFrames
<1>35. ClientInv' /\ PayloadKept
  <2>1. PICK c : c = [p |-> b + 4, size |-> req.size, align |-> req.align]
    OBVIOUS
  <2>2. live' = live \cup {c} /\ c.p = b + 4 /\ c.size = req.size /\ c.align = req.align
    BY <1>7, <2>1
  <2>3. \A d \in live \cap live' : d.p - Word \in Kept(pos, e)
    <3> TAKE d \in live \cap live'
    <3>1. d.p - Word \in Blocks
      BY DEF Blocks
    <3> QED BY <1>3, <1>16, <1>20, <3>1 DEF Tiles
  <2>4. /\ c.p \in Int /\ c.p - Word \in new /\ c.size \in Nat /\ c.size % Word = 0
        /\ c.size + Overhead <= SizeAt(c.p - Word)'
        /\ c.align => c.p % Page = 0
    <3>1. c.p \in Int /\ c.p - Word = b /\ b \in new
      BY <1>6, <2>2, Consts
    <3>2. c.size \in Nat /\ c.size % Word = 0 /\ c.size + Overhead <= size
      BY <1>3, <2>2, Consts
    <3>3. c.align => c.p % Page = 0
      BY <1>3, <1>5, <2>2
    <3> QED BY <1>26, <3>1, <3>2, <3>3
  <2>5. \A d \in live' \ live : d = c
    BY <2>2
  <2> QED BY <1>1, <1>33, <2>3, <2>4, <2>5, RebuiltClients DEF PayloadKept
<1>36. ShapeInv'
  <2>1. ShapeInv
    BY DEF HeapInv
  <2>2. ~mem'[Start - Word].magic
    <3>1. Start - 4 \in Space
      <4>1. (Start - 4) % 4 = 0 /\ Start - 4 \in Int /\ Start - 4 < MaxAddress
        BY Consts
      <4> QED BY <1>1, <4>1, SpaceWords
    <3>2. Start - 4 < pos
      BY <1>14, Consts
    <3>3. mem'[Start - 4] = mem[Start - 4]
      BY <1>7, <3>1, <3>2
    <3> QED BY <2>1, <3>3, Consts DEF ShapeInv
  <2> QED BY <1>7, <2>1, <2>2 DEF ShapeInv
<1> QED BY <1>34, <1>35, <1>36 DEF HeapInv

-----------------------------------------------------------------------------
(* The theorems.                                                           *)

LEMMA StepInv == HeapInv /\ [CarefulNext]_vars => HeapInv' /\ PayloadKept
<1> SUFFICES ASSUME HeapInv, [CarefulNext]_vars PROVE HeapInv' /\ PayloadKept
  OBVIOUS
<1>1. CASE CarefulAlloc
  BY <1>1, AllocInv
<1>2. CASE CarefulGrow
  BY <1>2, GrowInv
<1>3. CASE CarefulTake
  BY <1>3, TakeInv
<1>4. CASE CarefulFree
  BY <1>4, FreeInv
<1>5. CASE UNCHANGED vars
  <2>1. UNCHANGED <<mem, index, end_address, backed, live, req, status>>
    BY <1>5 DEF vars
  <2>2. UNCHANGED <<Holes, Blocks, Tiles, Sizes>> /\ \A h : Framed(h)' <=> Framed(h)
    BY <2>1 DEF Holes, Blocks, Tiles, Sizes, SizeAt, Framed, Space
  <2>3. ShapeInv'
    BY <2>1 DEF HeapInv, ShapeInv
  <2>4. FrameInv'
    BY <2>1, <2>2 DEF HeapInv, FrameInv, SizeAt
  <2>5. ClientInv'
    BY <2>1 DEF HeapInv, ClientInv, SizeAt
  <2> QED BY <2>1, <2>3, <2>4, <2>5 DEF HeapInv, PayloadKept
<1> QED BY <1>1, <1>2, <1>3, <1>4, <1>5 DEF CarefulNext

LEMMA AlwaysHeapInv == CarefulSpec => []HeapInv
<1>1. Init => HeapInv
  BY InitInv
<1>2. HeapInv /\ [CarefulNext]_vars => HeapInv'
  BY StepInv
<1> QED BY <1>1, <1>2, PTL DEF CarefulSpec

LEMMA HeapTypes == HeapInv => TypeOK
<1> SUFFICES ASSUME HeapInv PROVE TypeOK
  OBVIOUS
<1>1. /\ mem \in Memory /\ end_address \in Int /\ Start + MinSize <= end_address
      /\ end_address <= MaxAddress /\ FrameInv
  BY Shaped
<1>2. Space = Words(Start - Word, MaxAddress) /\ \A a \in Space : mem[a] \in FrameWord
  BY <1>1, SpaceWords
<1>3. Holes \subseteq Space
  BY <1>1 DEF FrameInv, Framed, Tiles
<1>4. end_address \in Start .. MaxAddress
  BY <1>1, Consts
<1>5. ShapeInv
  BY DEF HeapInv
<1> QED BY <1>2, <1>3, <1>4, <1>5 DEF TypeOK, ShapeInv, FrameWord

(* The registers of the heap keep to their types and widths                *)
(* (memory/heap.cc:16-38), for every size of the heap, of its pages and of *)
(* its index.                                                              *)
THEOREM AlwaysTypeOK == CarefulSpec => []TypeOK
BY AlwaysHeapInv, HeapTypes, PTL

LEMMA HeapTiled == HeapInv => Tiled
<1> SUFFICES ASSUME HeapInv PROVE Tiled
  OBVIOUS
<1>1. end_address \in Int /\ FrameInv
  BY Shaped
<1>2. \A h \in Tiles : /\ h \in Int /\ Start <= h /\ SizeAt(h) \in Nat
                       /\ h + SizeAt(h) <= end_address
  BY <1>1, TileFacts
<1>3. \A g, h \in Tiles : g < h => g + SizeAt(g) <= h
  BY <1>1, TileFacts
<1>4. \A h \in Tiles : Extent(h) = {a \in Int : h <= a /\ a < h + SizeAt(h) /\ a % 4 = 0}
  BY <1>2, Consts DEF Extent, Words
<1>5. ASSUME NEW g \in Tiles, NEW h \in Tiles, g < h PROVE Extent(g) \cap Extent(h) = {}
  <2>1. /\ g + SizeAt(g) <= h /\ g \in Int /\ h \in Int /\ SizeAt(g) \in Nat
    BY <1>2, <1>3, <1>5
  <2>2. PICK j \in Int : j = g + SizeAt(g) /\ j <= h
    BY <2>1
  <2>3. \A a \in Int : ~(a < j /\ h <= a)
    BY <2>1, <2>2
  <2> QED BY <1>4, <2>2, <2>3
<1>6. \A g, h \in Tiles : g # h => Extent(g) \cap Extent(h) = {}
  <2> TAKE g, h \in Tiles
  <2> HAVE g # h
  <2>1. g < h \/ h < g
    BY <1>2
  <2> QED BY <1>5, <2>1
<1>7. \A a \in Words(Start, end_address) : \E h \in Tiles : a \in Extent(h)
  <2> TAKE a \in Words(Start, end_address)
  <2>1. a \in Int /\ a % 4 = 0
    BY Consts DEF Words
  <2>2. PICK h \in Tiles : h <= a /\ a < h + SizeAt(h)
    BY <1>1 DEF FrameInv, Tiling, Sizes
  <2> QED BY <1>4, <2>1, <2>2
<1>8. ASSUME NEW h \in Tiles, NEW a \in Extent(h) PROVE a \in Words(Start, end_address)
  <2>1. a \in Int /\ h <= a /\ a < h + SizeAt(h) /\ a % 4 = 0
    BY <1>4
  <2>2. Start <= a /\ a < end_address
    BY <1>1, <1>2, <2>1, Consts
  <2> QED BY <1>1, <2>1, <2>2, Consts DEF Words
<1>9. UNION {Extent(h) : h \in Tiles} = Words(Start, end_address)
  BY <1>7, <1>8
<1>10. \A h \in Tiles : Framed(h)
  BY <1>1 DEF FrameInv
<1> QED BY <1>6, <1>9, <1>10 DEF Tiled, Tiles

(* Blocks and holes tile the heap, each with its frames, however it is cut,*)
(* merged, expanded and contracted (heap.cc:63-241): the walk from header  *)
(* to header reaches every one of them and the end.                        *)
THEOREM AlwaysTiled == CarefulSpec => []Tiled
BY AlwaysHeapInv, HeapTiled, PTL

LEMMA HeapIndex == HeapInv => IndexExact
BY DEF HeapInv, ShapeInv, FrameInv, IndexExact, OneOne

(* The index holds the holes, each once, and no two holes touch            *)
(* (heap.cc:163-219): what is freed has merged with its neighbours.        *)
THEOREM AlwaysIndexExact == CarefulSpec => []IndexExact
BY AlwaysHeapInv, HeapIndex, PTL

LEMMA HeapServed == HeapInv => Served
<1> SUFFICES ASSUME HeapInv PROVE Served
  OBVIOUS
<1>1. end_address \in Int /\ FrameInv /\ ClientInv /\ end_address <= MaxAddress /\ status = "ok"
  BY Shaped
<1>2. \A h \in Tiles : /\ h \in Int /\ Start <= h /\ SizeAt(h) \in Nat
                       /\ h + SizeAt(h) <= end_address
  BY <1>1, TileFacts
<1>3. \A g, h \in Tiles : g < h => g + SizeAt(g) <= h
  BY <1>1, TileFacts
<1>4. \A b \in live : /\ b.p \in Int /\ b.size \in Nat /\ b.size + 8 <= SizeAt(b.p - 4)
                      /\ b.p - 4 \in Tiles
                      /\ b.align => b.p % Page = 0
  <2> TAKE b \in live
  <2>1. b.p - 4 \in Tiles
    BY Consts DEF Tiles, Blocks
  <2> QED BY <1>1, <2>1, Consts DEF ClientInv
<1>5. ASSUME NEW b \in live, NEW a \in Words(b.p, b.p + b.size)
      PROVE  /\ a \in Int /\ a % 4 = 0 /\ Start <= a /\ a < end_address
             /\ b.p - 4 <= a /\ a < b.p - 4 + SizeAt(b.p - 4)
  <2>1. a \in Int /\ a % 4 = 0 /\ b.p <= a /\ a < b.p + b.size
    BY <1>4, Consts DEF Words
  <2>2. PICK h \in Tiles : h = b.p - 4
    BY <1>4
  <2>3. PICK n \in Nat : n = SizeAt(h) /\ b.size + 8 <= n
    BY <1>2, <1>4, <2>2
  <2>4. b.p = h + 4 /\ b.size \in Nat /\ h \in Int /\ Start <= h /\ h + n <= end_address
    BY <1>2, <1>4, <2>2, <2>3
  <2>5. h <= a /\ a < h + n
    BY <2>1, <2>3, <2>4
  <2>6. Start <= a /\ a < end_address
    <3>1. Start \in Int
      BY Consts
    <3> QED BY <1>1, <2>1, <2>4, <2>5, <3>1
  <2> QED BY <2>1, <2>2, <2>3, <2>5, <2>6
<1>6. ASSUME NEW a \in Int, Start <= a, a < end_address PROVE PageOf(a) \in backed
  <2>1. PICK p \in Int : p = PageOf(a) /\ p % Page = 0 /\ p <= a /\ a < p + Page
    BY OnPage
  <2>2. Start \in Int /\ Start % Page = 0 /\ Page \in Int
    BY HeapConstants, Consts
  <2>3. ~(p < Start)
    <3> SUFFICES ASSUME p < Start PROVE FALSE
      OBVIOUS
    <3>1. p + Page <= Start
      BY <2>1, <2>2, NextPage
    <3>2. PICK g \in Int : g = Page
      BY <2>2
    <3> QED BY <1>6, <2>1, <2>2, <3>1, <3>2
  <2>4. p \in Start .. end_address - 1
    BY <1>1, <1>6, <2>1, <2>2, <2>3
  <2> QED BY <2>1, <2>4 DEF HeapInv, ShapeInv
<1>7. ASSUME NEW b \in live, NEW c \in live, c # b
      PROVE  Words(b.p, b.p + b.size) \cap Words(c.p, c.p + c.size) = {}
  <2> SUFFICES ASSUME NEW a \in Words(b.p, b.p + b.size), a \in Words(c.p, c.p + c.size)
               PROVE  FALSE
    OBVIOUS
  <2>1. PICK g \in Tiles, h \in Tiles : g = b.p - 4 /\ h = c.p - 4 /\ g # h
    <3>1. b.p \in Int /\ c.p \in Int /\ b.p # c.p /\ b.p - 4 \in Tiles /\ c.p - 4 \in Tiles
      BY <1>1, <1>4, <1>7 DEF ClientInv
    <3> QED BY <3>1
  <2>2. a \in Int /\ g <= a /\ a < g + SizeAt(g) /\ h <= a /\ a < h + SizeAt(h)
    BY <1>5, <2>1
  <2>3. g \in Int /\ h \in Int /\ SizeAt(g) \in Nat /\ SizeAt(h) \in Nat
    BY <1>2
  <2>4. g < h => g + SizeAt(g) <= h
    BY <1>3
  <2>5. h < g => h + SizeAt(h) <= g
    BY <1>3
  <2> QED BY <2>1, <2>2, <2>3, <2>4, <2>5
<1>8. \A b \in live : /\ Words(b.p, b.p + b.size) \subseteq Words(Start, end_address)
                      /\ \A a \in Words(b.p, b.p + b.size) : PageOf(a) \in backed
  <2> TAKE b \in live
  <2>1. \A a \in Words(b.p, b.p + b.size) :
           a \in Int /\ a % 4 = 0 /\ Start <= a /\ a < end_address
    BY <1>5
  <2>2. Words(Start, end_address) = {a \in Int : Start <= a /\ a < end_address /\ a % 4 = 0}
    BY <1>1, Consts DEF Words
  <2>3. \A a \in Words(b.p, b.p + b.size) : PageOf(a) \in backed
    BY <1>6, <2>1
  <2>4. Words(b.p, b.p + b.size) \subseteq Words(Start, end_address)
    BY <2>1, <2>2
  <2> QED BY <2>3, <2>4
<1> QED BY <1>1, <1>4, <1>7, <1>8 DEF Served

(* What a client was given is its own: inside the heap, on a page if it    *)
(* asked for one (heap.cc:87-110), in memory that the page tables have a   *)
(* frame for, and apart from what everybody else was given; no assertion   *)
(* of the heap fails and no access leaves it.                              *)
THEOREM AlwaysServed == CarefulSpec => []Served
BY AlwaysHeapInv, HeapServed, PTL

(* No call of Alloc or Free, no expansion and no contraction of the heap   *)
(* writes on a word of a payload that somebody holds before and after it   *)
(* (heap.cc:63-241).                                                       *)
THEOREM NeverTouchesPayload == CarefulSpec => PayloadUntouched
<1>1. HeapInv /\ [CarefulNext]_vars =>
         [\A b \in live \cap live' : \A a \in Words(b.p, b.p + b.size) : mem'[a] = mem[a]]_vars
  BY StepInv DEF PayloadKept
<1> QED BY <1>1, AlwaysHeapInv, PTL DEF CarefulSpec, PayloadUntouched
=============================================================================
