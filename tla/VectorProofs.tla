----------------------------- MODULE VectorProofs ----------------------------
(***************************************************************************)
(* Vector implements List, for every capacity, item and junk: whatever the *)
(* loops of insert and remove have done so far, callers see a sequence on  *)
(* which each call is one step.                                            *)
(***************************************************************************)
EXTENDS Vector, SequenceTheorems, TLAPS

(* What a cell may hold.                                                   *)
Content == Item \cup {Junk}

(* The loops stay between the place of the call and the last item, and a   *)
(* loop of insert has room for one more.                                   *)
VectorInv ==
    /\ array_ \in [Cells -> Content] /\ held \in Content
    /\ size_ \in 0 .. N /\ index \in Nat /\ i \in Nat
    /\ pc \in {"idle", "insert", "remove", "panic"}
    /\ pc = "insert" => index <= i /\ i <= size_ /\ size_ < N /\ held \in Item
    /\ pc = "remove" => index < size_ /\ index <= i /\ i <= size_

Shown == [k \in 1 .. size_ |-> StandsFor(k - 1)]

-----------------------------------------------------------------------------
LEMMA Prefix ==
    ASSUME NEW S, NEW s \in Seq(S), NEW n \in 0 .. Len(s)
    PROVE  /\ SubSeq(s, 1, n) \in Seq(S) /\ Len(SubSeq(s, 1, n)) = n
           /\ \A k \in 1 .. n : SubSeq(s, 1, n)[k] = s[k]
<1>1. Len(s) \in Nat /\ n \in Nat /\ \A k \in 1 .. n : s[k] \in S
  BY LenProperties, ElementOfSeq
<1>2. /\ SubSeq(s, 1, n) \in Seq(S)
      /\ Len(SubSeq(s, 1, n)) = IF 1 <= n THEN n - 1 + 1 ELSE 0
      /\ \A k \in 1 .. n - 1 + 1 : SubSeq(s, 1, n)[k] = s[1 + k - 1]
  BY <1>1, SubSeqProperties
<1> QED
  BY <1>1, <1>2

LEMMA Suffix ==
    ASSUME NEW S, NEW s \in Seq(S), NEW n \in 0 .. Len(s)
    PROVE  /\ SubSeq(s, n + 1, Len(s)) \in Seq(S)
           /\ Len(SubSeq(s, n + 1, Len(s))) = Len(s) - n
           /\ \A k \in 1 .. Len(s) - n : SubSeq(s, n + 1, Len(s))[k] = s[n + k]
<1>1. Len(s) \in Nat /\ n \in Nat /\ \A k \in n + 1 .. Len(s) : s[k] \in S
  BY LenProperties, ElementOfSeq
<1>2. PICK b : b = SubSeq(s, n + 1, Len(s))
  OBVIOUS
<1>3. /\ b \in Seq(S) /\ Len(b) = IF n + 1 <= Len(s) THEN Len(s) - (n + 1) + 1 ELSE 0
      /\ \A k \in 1 .. Len(s) - (n + 1) + 1 : b[k] = s[n + 1 + k - 1]
  BY <1>1, <1>2, SubSeqProperties
<1>4. Len(b) = Len(s) - n
  BY <1>1, <1>3
<1>5. ASSUME NEW k \in 1 .. Len(s) - n PROVE b[k] = s[n + k]
  <2>1. k \in 1 .. Len(s) - (n + 1) + 1 /\ n + 1 + k - 1 = n + k
    BY <1>1
  <2> QED
    BY <1>3, <2>1
<1> QED
  BY <1>2, <1>3, <1>4, <1>5

(* List's two operations, item by item.                                    *)
LEMMA AddItems ==
    ASSUME NEW S, NEW s \in Seq(S), NEW n \in 0 .. Len(s), NEW x \in S,
           NEW r \in Seq(S), Len(r) = Len(s) + 1,
           \A k \in 1 .. Len(r) :
               r[k] = IF k <= n THEN s[k] ELSE IF k = n + 1 THEN x ELSE s[k - 1]
    PROVE  r = SubSeq(s, 1, n) \o <<x>> \o SubSeq(s, n + 1, Len(s))
<1>0. PICK m \in Nat : m = Len(s)
  BY LenProperties
<1>1. PICK a \in Seq(S) :
          a = SubSeq(s, 1, n) /\ Len(a) = n /\ \A k \in 1 .. n : a[k] = s[k]
  <2>1. /\ SubSeq(s, 1, n) \in Seq(S) /\ Len(SubSeq(s, 1, n)) = n
        /\ \A k \in 1 .. n : SubSeq(s, 1, n)[k] = s[k]
    BY Prefix
  <2> QED
    BY <2>1
<1>2. PICK b \in Seq(S) :
          /\ b = SubSeq(s, n + 1, Len(s)) /\ Len(b) = m - n
          /\ \A k \in 1 .. m - n : b[k] = s[n + k]
  <2>1. /\ SubSeq(s, n + 1, Len(s)) \in Seq(S)
        /\ Len(SubSeq(s, n + 1, Len(s))) = Len(s) - n
        /\ \A k \in 1 .. Len(s) - n : SubSeq(s, n + 1, Len(s))[k] = s[n + k]
    BY Suffix
  <2> QED
    BY <1>0, <2>1
<1>3. PICK c \in Seq(S) :
          /\ c = a \o <<x>> /\ Len(c) = n + 1
          /\ \A k \in 1 .. n + 1 : c[k] = IF k <= n THEN s[k] ELSE x
  <2>1. <<x>> \in Seq(S) /\ Len(<<x>>) = 1 /\ <<x>>[1] = x
    OBVIOUS
  <2>2. /\ a \o <<x>> \in Seq(S) /\ Len(a \o <<x>>) = n + 1
        /\ \A k \in 1 .. n + 1 :
              (a \o <<x>>)[k] = IF k <= n THEN a[k] ELSE <<x>>[k - n]
    BY <1>1, <2>1, ConcatProperties
  <2>3. \A k \in 1 .. n + 1 : (a \o <<x>>)[k] = IF k <= n THEN s[k] ELSE x
    BY <1>1, <2>1, <2>2, SMTT(30)
  <2> QED
    BY <2>2, <2>3, Zenon
<1>4. PICK d \in Seq(S) :
          /\ d = c \o b /\ Len(d) = m + 1
          /\ \A k \in 1 .. m + 1 : d[k] = IF k <= n + 1 THEN c[k] ELSE b[k - (n + 1)]
  <2>1. /\ c \o b \in Seq(S) /\ Len(c \o b) = Len(c) + Len(b)
        /\ \A k \in 1 .. Len(c) + Len(b) :
              (c \o b)[k] = IF k <= Len(c) THEN c[k] ELSE b[k - Len(c)]
    BY ConcatProperties
  <2>2. Len(c) = n + 1 /\ Len(b) = m - n
    BY <1>2, <1>3, Zenon
  <2>3. Len(c) + Len(b) = m + 1
    BY <1>0, <2>2
  <2> QED
    BY <2>1, <2>2, <2>3, ZenonT(60)
<1>5. ASSUME NEW k \in 1 .. m + 1 PROVE r[k] = d[k]
  <2>1. CASE k <= n + 1
    BY <1>0, <1>3, <1>4, <2>1
  <2>2. CASE k > n + 1
    <3>1. k - (n + 1) \in 1 .. m - n /\ n + (k - (n + 1)) = k - 1
      BY <1>0, <2>2
    <3>2. d[k] = b[k - (n + 1)] /\ b[k - (n + 1)] = s[n + (k - (n + 1))]
      BY <1>2, <1>4, <2>2, <3>1, SMTT(30)
    <3>3. r[k] = s[k - 1]
      BY <1>0, <2>2
    <3> QED
      BY <3>1, <3>2, <3>3
  <2> QED
    BY <2>1, <2>2
<1>6. r = d
  BY <1>0, <1>4, <1>5, SeqEqual
<1> QED
  BY <1>1, <1>2, <1>3, <1>4, <1>6

LEMMA TakeItems ==
    ASSUME NEW S, NEW s \in Seq(S), NEW n \in 0 .. Len(s) - 1,
           NEW r \in Seq(S), Len(r) = Len(s) - 1,
           \A k \in 1 .. Len(r) : r[k] = IF k <= n THEN s[k] ELSE s[k + 1]
    PROVE  r = SubSeq(s, 1, n) \o SubSeq(s, n + 2, Len(s))
<1>0. PICK m \in Nat : m = Len(s)
  BY LenProperties
<1>1. PICK a \in Seq(S) :
          a = SubSeq(s, 1, n) /\ Len(a) = n /\ \A k \in 1 .. n : a[k] = s[k]
  <2>1. n \in 0 .. Len(s)
    BY <1>0
  <2>2. /\ SubSeq(s, 1, n) \in Seq(S) /\ Len(SubSeq(s, 1, n)) = n
        /\ \A k \in 1 .. n : SubSeq(s, 1, n)[k] = s[k]
    BY Prefix
  <2> QED
    BY <2>2
<1>2. PICK b \in Seq(S) :
          /\ b = SubSeq(s, n + 2, Len(s)) /\ Len(b) = m - (n + 1)
          /\ \A k \in 1 .. m - (n + 1) : b[k] = s[n + 1 + k]
  <2>1. PICK p \in 0 .. Len(s) : p = n + 1
    BY <1>0
  <2>2. p + 1 = n + 2
    BY <2>1
  <2>3. /\ SubSeq(s, p + 1, Len(s)) \in Seq(S)
        /\ Len(SubSeq(s, p + 1, Len(s))) = Len(s) - p
        /\ \A k \in 1 .. Len(s) - p : SubSeq(s, p + 1, Len(s))[k] = s[p + k]
    BY Suffix
  <2> QED
    BY <1>0, <2>1, <2>2, <2>3
<1>3. PICK d \in Seq(S) :
          /\ d = a \o b /\ Len(d) = m - 1
          /\ \A k \in 1 .. m - 1 : d[k] = IF k <= n THEN a[k] ELSE b[k - n]
  <2>1. /\ a \o b \in Seq(S) /\ Len(a \o b) = Len(a) + Len(b)
        /\ \A k \in 1 .. Len(a) + Len(b) :
              (a \o b)[k] = IF k <= Len(a) THEN a[k] ELSE b[k - Len(a)]
    BY ConcatProperties
  <2>2. Len(a) = n /\ Len(b) = m - (n + 1)
    BY <1>1, <1>2, Zenon
  <2>3. Len(a) + Len(b) = m - 1
    BY <1>0, <2>2
  <2> QED
    BY <2>1, <2>2, <2>3, Zenon
<1>4. ASSUME NEW k \in 1 .. m - 1 PROVE r[k] = d[k]
  <2>1. CASE k <= n
    BY <1>0, <1>1, <1>3, <2>1
  <2>2. CASE k > n
    <3>1. k - n \in 1 .. m - (n + 1) /\ n + 1 + (k - n) = k + 1
      BY <1>0, <2>2
    <3>2. d[k] = b[k - n]
      <4>1. ~(k <= n)
        BY <1>0, <2>2
      <4> QED
        BY <1>3, <4>1, Zenon
    <3>4. b[k - n] = s[n + 1 + (k - n)]
      BY <1>2, <3>1
    <3>3. r[k] = s[k + 1]
      BY <1>0, <2>2
    <3> QED
      BY <3>1, <3>2, <3>3, <3>4
  <2> QED
    BY <2>1, <2>2
<1>5. r = d
  BY <1>0, <1>3, <1>4, SeqEqual
<1> QED
  BY <1>1, <1>2, <1>3, <1>5

-----------------------------------------------------------------------------
LEMMA InitVectorInv == ASSUME N \in Nat PROVE Init => VectorInv
BY DEF Init, VectorInv, Content, Cells

LEMMA StepVectorInv ==
    ASSUME N \in Nat, VectorInv, [Next]_vars
    PROVE  VectorInv'
<1> USE DEF VectorInv, Cells, Content, Panic, Return
<1>1. ASSUME NEW t \in Item, push_back(t) PROVE VectorInv'
  BY <1>1 DEF push_back
<1>2. CASE pop_back
  BY <1>2 DEF pop_back
<1>3. ASSUME NEW n \in Nat, NEW t \in Item, insert(n, t) PROVE VectorInv'
  BY <1>3 DEF insert
<1>4. ASSUME NEW n \in Nat, remove(n) PROVE VectorInv'
  BY <1>4 DEF remove
<1>5. CASE insert_loop
  BY <1>5 DEF insert_loop, MoveBack
<1>6. CASE insert_end
  BY <1>6 DEF insert_end, MoveBack
<1>7. CASE remove_loop
  BY <1>7 DEF remove_loop
<1>8. CASE remove_end
  BY <1>8 DEF remove_end
<1>9. CASE UNCHANGED vars
  BY <1>9 DEF vars
<1> QED
  BY <1>1, <1>2, <1>3, <1>4, <1>5, <1>6, <1>7, <1>8, <1>9
  DEF Next, push_front, pop_front

-----------------------------------------------------------------------------
(* What callers see: the cells, with the moves of a running loop undone.   *)
ShownOK ==
    /\ Shown \in Seq(Content) /\ Len(Shown) = size_ /\ size_ \in 0 .. N
    /\ \A k \in 1 .. size_ : Shown[k] = StandsFor(k - 1) /\ Shown[k] \in Content

LEMMA ShownType == ASSUME N \in Nat PROVE VectorInv => ShownOK
<1> SUFFICES ASSUME VectorInv PROVE ShownOK
  OBVIOUS
<1>1. \A k \in 1 .. size_ : StandsFor(k - 1) \in Content
  BY DEF VectorInv, StandsFor, Cells
<1>2. Shown \in [1 .. size_ -> Content] /\ size_ \in Nat
  BY <1>1 DEF Shown, VectorInv
<1>3. Shown \in Seq(Content) /\ Len(Shown) = size_
  BY <1>2, SeqDef
<1> QED
  BY <1>1, <1>2, <1>3 DEF Shown, ShownOK, VectorInv

(* A step that leaves what the cells stand for as it is.                   *)
LEMMA ShownKept ==
    ASSUME N \in Nat, VectorInv, size_' = size_, popped' = popped,
           pc' = "panic" <=> pc = "panic",
           \A k \in 0 .. size_ - 1 : StandsFor(k)' = StandsFor(k)
    PROVE  UNCHANGED Promised!vars
<1>1. size_ \in Nat
  BY DEF VectorInv
<1>2. \A k \in 1 .. size_ : StandsFor(k - 1)' = StandsFor(k - 1)
  BY <1>1
<1>3. Shown' = Shown
  BY <1>2 DEF Shown
<1>4. (pc' = "panic") = (pc = "panic")
  OBVIOUS
<1> QED
  BY <1>3, <1>4 DEF Promised!vars, Shown

(* A step that puts x behind the first n items.                            *)
LEMMA ShownAdd ==
    ASSUME N \in Nat, ShownOK, ShownOK', NEW n \in 0 .. size_, NEW x \in Item,
           size_ < N, size_' = size_ + 1, popped' = popped,
           pc # "panic", pc' # "panic",
           \A k \in 0 .. size_ :
               StandsFor(k)' = IF k < n THEN StandsFor(k)
                               ELSE IF k = n THEN x ELSE StandsFor(k - 1)
    PROVE  Promised!Next
<1>1. PICK s \in Seq(Content) :
          /\ s = Shown /\ Len(s) = size_
          /\ \A k \in 1 .. size_ : s[k] = StandsFor(k - 1)
  BY DEF ShownOK
<1>2. PICK r \in Seq(Content) :
          /\ r = Shown' /\ Len(r) = size_ + 1
          /\ \A k \in 1 .. size_ + 1 : r[k] = StandsFor(k - 1)'
  BY DEF ShownOK
<1>3. size_ \in Nat /\ n \in 0 .. Len(s) /\ x \in Content
  BY <1>1 DEF ShownOK, Content
<1>4. ASSUME NEW k \in 1 .. size_ + 1
      PROVE  r[k] = IF k <= n THEN s[k] ELSE IF k = n + 1 THEN x ELSE s[k - 1]
  <2>1. k - 1 \in 0 .. size_ /\ r[k] = StandsFor(k - 1)'
    BY <1>2, <1>3
  <2>2. CASE k <= n
    <3>1. k - 1 < n /\ k \in 1 .. size_
      BY <1>3, <2>2
    <3> QED
      BY <1>1, <2>1, <2>2, <3>1
  <2>3. CASE k = n + 1
    <3>1. k - 1 = n /\ ~(k <= n)
      BY <1>3, <2>3
    <3> QED
      BY <2>1, <2>3, <3>1
  <2>4. CASE k > n + 1
    <3>1. k - 1 > n /\ k - 1 \in 1 .. size_ /\ k - 1 - 1 = (k - 1) - 1
      BY <1>3, <2>4
    <3>2. r[k] = StandsFor(k - 1 - 1)
      BY <1>3, <2>1, <3>1
    <3>3. s[k - 1] = StandsFor(k - 1 - 1)
      BY <1>1, <3>1
    <3> QED
      BY <1>3, <2>4, <3>2, <3>3
  <2> QED
    BY <1>3, <2>2, <2>3, <2>4
<1>5. r = SubSeq(s, 1, n) \o <<x>> \o SubSeq(s, n + 1, Len(s))
  BY <1>1, <1>2, <1>3, <1>4, AddItems, SMTT(30)
<1>6. Promised!Add(n, x)
  BY <1>1, <1>2, <1>5 DEF Promised!Add, Shown
<1>7. n \in 0 .. Len(Shown)
  BY <1>1, <1>3
<1> QED
  BY <1>6, <1>7 DEF Promised!Next, Shown

(* A step that gives back the item behind the first n.                     *)
LEMMA ShownTake ==
    ASSUME N \in Nat, ShownOK, ShownOK', NEW n \in 0 .. size_ - 1,
           size_' = size_ - 1, popped' = <<StandsFor(n)>>,
           pc # "panic", pc' # "panic",
           \A k \in 0 .. size_ - 2 :
               StandsFor(k)' = IF k < n THEN StandsFor(k) ELSE StandsFor(k + 1)
    PROVE  Promised!Next
<1>1. PICK s \in Seq(Content) :
          /\ s = Shown /\ Len(s) = size_
          /\ \A k \in 1 .. size_ : s[k] = StandsFor(k - 1)
  BY DEF ShownOK
<1>2. PICK r \in Seq(Content) :
          /\ r = Shown' /\ Len(r) = size_ - 1
          /\ \A k \in 1 .. size_ - 1 : r[k] = StandsFor(k - 1)'
  BY DEF ShownOK
<1>3. size_ \in Nat /\ n \in 0 .. Len(s) - 1
  BY <1>1 DEF ShownOK
<1>4. ASSUME NEW k \in 1 .. size_ - 1
      PROVE  r[k] = IF k <= n THEN s[k] ELSE s[k + 1]
  <2>1. k - 1 \in 0 .. size_ - 2 /\ r[k] = StandsFor(k - 1)'
    BY <1>2, <1>3
  <2>2. CASE k <= n
    <3>1. k - 1 < n /\ k \in 1 .. size_
      BY <1>3, <2>2
    <3> QED
      BY <1>1, <2>1, <2>2, <3>1
  <2>3. CASE k > n
    <3>1. ~(k - 1 < n) /\ k + 1 \in 1 .. size_ /\ k - 1 + 1 = k + 1 - 1 /\ ~(k <= n)
      BY <1>3, <2>3
    <3>2. r[k] = StandsFor(k - 1 + 1)
      BY <2>1, <3>1
    <3>3. s[k + 1] = StandsFor(k + 1 - 1)
      BY <1>1, <3>1
    <3> QED
      BY <3>1, <3>2, <3>3
  <2> QED
    BY <1>3, <2>2, <2>3
<1>5. r = SubSeq(s, 1, n) \o SubSeq(s, n + 2, Len(s))
  BY <1>1, <1>2, <1>3, <1>4, TakeItems
<1>6. StandsFor(n) = Shown[n + 1]
  <2>1. n + 1 \in 1 .. size_ /\ n + 1 - 1 = n
    BY <1>3
  <2> QED
    BY <1>1, <2>1
<1>7. Promised!Take(n)
  <2>1. n < Len(Shown)
    BY <1>1, <1>3
  <2>2. UNCHANGED (pc = "panic")
    OBVIOUS
  <2> QED
    BY <1>1, <1>2, <1>5, <1>6, <2>1, <2>2 DEF Promised!Take, Shown
<1>8. n \in 0 .. Len(Shown)
  BY <1>1, <1>3
<1> QED
  BY <1>7, <1>8 DEF Promised!Next, Shown

(* A step that stops the program, which a full or an empty vector may.     *)
LEMMA ShownStop ==
    ASSUME N \in Nat, VectorInv, ShownOK, pc = "idle", Panic, size_ \in {0, N}
    PROVE  Promised!Next
<1>1. Shown' = Shown
  <2>1. \A k : StandsFor(k)' = StandsFor(k)
    BY DEF Panic, StandsFor
  <2>2. size_' = size_
    BY DEF Panic
  <2> QED
    BY <2>1, <2>2 DEF Shown
<1>2. Promised!Stop
  BY <1>1 DEF Promised!Stop, Panic, Shown, ShownOK
<1> QED
  BY <1>2 DEF Promised!Next

-----------------------------------------------------------------------------
(* Each step of Vector is a step of List, or is not seen.                  *)
LEMMA VectorStep ==
    ASSUME N \in Nat
    PROVE  VectorInv /\ VectorInv' /\ [Next]_vars => [Promised!Next]_(Promised!vars)
<1> SUFFICES ASSUME VectorInv, VectorInv', [Next]_vars
             PROVE  Promised!Next \/ UNCHANGED Promised!vars
  OBVIOUS
<1>0. /\ ShownOK /\ ShownOK' /\ size_ \in 0 .. N
      /\ array_ \in [Cells -> Content] /\ index \in Nat /\ i \in Nat
  <2>1. ShownOK'
    BY ShownType, PTL
  <2> QED
    BY <2>1, ShownType DEF VectorInv
<1>1. ASSUME NEW t \in Item, push_back(t) PROVE Promised!Next
  <2>1. CASE size_ < N
    <3>1. /\ pc = "idle" /\ pc' = "idle" /\ size_' = size_ + 1 /\ popped' = popped
          /\ array_' = [array_ EXCEPT ![size_] = t] /\ size_ \in 0 .. size_
      BY <1>0, <1>1, <2>1 DEF push_back
    <3>2. \A k \in 0 .. size_ :
            StandsFor(k)' = IF k < size_ THEN StandsFor(k)
                            ELSE IF k = size_ THEN t ELSE StandsFor(k - 1)
      BY <1>0, <2>1, <3>1 DEF StandsFor, Cells
    <3> QED
      BY <1>0, <2>1, <3>1, <3>2, ShownAdd
  <2>2. CASE ~(size_ < N)
    BY <1>0, <1>1, <2>2, ShownStop DEF push_back
  <2> QED
    BY <2>1, <2>2
<1>2. CASE pop_back
  <2>1. CASE size_ > 0
    <3>1. /\ pc = "idle" /\ pc' = "idle" /\ size_' = size_ - 1 /\ array_' = array_
          /\ popped' = <<StandsFor(size_ - 1)>> /\ size_ - 1 \in 0 .. size_ - 1
      BY <1>0, <1>2, <2>1 DEF pop_back, StandsFor
    <3>2. \A k \in 0 .. size_ - 2 :
            StandsFor(k)' = IF k < size_ - 1 THEN StandsFor(k) ELSE StandsFor(k + 1)
      BY <1>0, <3>1 DEF StandsFor
    <3> QED
      BY <1>0, <3>1, <3>2, ShownTake
  <2>2. CASE ~(size_ > 0)
    BY <1>0, <1>2, <2>2, ShownStop DEF pop_back
  <2> QED
    BY <2>1, <2>2
<1>3. ASSUME NEW n \in Nat, NEW t \in Item, insert(n, t)
      PROVE  Promised!Next \/ UNCHANGED Promised!vars
  <2>1. CASE n < N /\ size_ < N
    <3>1. /\ pc = "idle" /\ pc' = "insert" /\ size_' = size_ /\ popped' = popped
          /\ array_' = array_ /\ i' = size_
      BY <1>3, <2>1 DEF insert
    <3>2. \A k \in 0 .. size_ - 1 : StandsFor(k)' = StandsFor(k)
      BY <1>0, <3>1 DEF StandsFor
    <3> QED
      BY <3>1, <3>2, ShownKept
  <2>2. CASE ~(n < N /\ size_ < N)
    <3>1. Panic /\ pc = "idle" /\ size_ = N
      BY <1>0, <1>3, <2>2 DEF insert
    <3> QED
      BY <1>0, <3>1, ShownStop
  <2> QED
    BY <2>1, <2>2
<1>4. ASSUME NEW n \in Nat, n < size_ \/ n = 0, remove(n)
      PROVE  Promised!Next \/ UNCHANGED Promised!vars
  <2>1. CASE n < size_
    <3>1. /\ pc = "idle" /\ pc' = "remove" /\ size_' = size_ /\ popped' = popped
          /\ array_' = array_ /\ i' = n /\ index' = n /\ held' = array_[n]
      BY <1>0, <1>4, <2>1 DEF remove
    <3>2. \A k \in 0 .. size_ - 1 : StandsFor(k)' = StandsFor(k)
      BY <1>0, <3>1 DEF StandsFor
    <3> QED
      BY <3>1, <3>2, ShownKept
  <2>2. CASE ~(n < size_)
    <3>1. Panic /\ pc = "idle" /\ size_ = 0
      BY <1>0, <1>4, <2>2 DEF remove
    <3> QED
      BY <1>0, <3>1, ShownStop
  <2> QED
    BY <2>1, <2>2
<1>5. CASE insert_loop
  <2>1. /\ pc = "insert" /\ pc' = "insert" /\ size_' = size_ /\ popped' = popped
        /\ array_' = [array_ EXCEPT ![i] = array_[i - 1]] /\ i' = i - 1
        /\ i > index /\ i <= size_ /\ size_ < N
    BY <1>5 DEF insert_loop, MoveBack, VectorInv
  <2>2. \A k \in 0 .. size_ - 1 : StandsFor(k)' = StandsFor(k)
    BY <1>0, <2>1 DEF StandsFor, Cells
  <2> QED
    BY <2>1, <2>2, ShownKept
<1>6. CASE insert_end
  <2>1. /\ pc = "insert" /\ pc' = "idle" /\ size_' = size_ + 1 /\ popped' = popped
        /\ array_' = [array_ EXCEPT ![index] = held] /\ i = index
        /\ index \in 0 .. size_ /\ size_ < N /\ held \in Item
    BY <1>0, <1>6 DEF insert_end, MoveBack, VectorInv, Return
  <2>2. \A k \in 0 .. size_ :
          StandsFor(k)' = IF k < index THEN StandsFor(k)
                          ELSE IF k = index THEN held ELSE StandsFor(k - 1)
    BY <1>0, <2>1 DEF StandsFor, Cells
  <2>3. PICK n \in 0 .. size_, x \in Item : n = index /\ x = held
    BY <2>1
  <2> QED
    BY <1>0, <2>1, <2>2, <2>3, ShownAdd
<1>7. CASE remove_loop
  <2>1. /\ pc = "remove" /\ pc' = "remove" /\ size_' = size_ /\ popped' = popped
        /\ array_' = [array_ EXCEPT
                        ![i] = IF i + 1 \in Cells THEN array_[i + 1] ELSE Junk]
        /\ i' = i + 1 /\ index' = index /\ held' = held
        /\ i < size_ /\ index <= i
    BY <1>7 DEF remove_loop, VectorInv
  <2>2. \A k \in 0 .. size_ - 1 : StandsFor(k)' = StandsFor(k)
    BY <1>0, <2>1 DEF StandsFor, Cells
  <2> QED
    BY <2>1, <2>2, ShownKept
<1>8. CASE remove_end
  <2>1. /\ pc = "remove" /\ pc' = "idle" /\ size_' = size_ - 1 /\ popped' = <<held>>
        /\ array_' = array_ /\ i = size_ /\ index \in 0 .. size_ - 1
    BY <1>0, <1>8 DEF remove_end, VectorInv, Return
  <2>2. StandsFor(index) = held
    BY <2>1 DEF StandsFor
  <2>3. \A k \in 0 .. size_ - 2 :
          StandsFor(k)' = IF k < index THEN StandsFor(k) ELSE StandsFor(k + 1)
    BY <1>0, <2>1 DEF StandsFor, Cells
  <2>4. PICK n \in 0 .. size_ - 1 : n = index
    BY <2>1
  <2> QED
    BY <1>0, <2>1, <2>2, <2>3, <2>4, ShownTake
<1>9. CASE UNCHANGED vars
  BY <1>9, ShownKept DEF vars, StandsFor
<1> QED
  BY <1>0, <1>1, <1>2, <1>3, <1>4, <1>5, <1>6, <1>7, <1>8, <1>9
  DEF Next, push_front, pop_front, Cells

(* Callers of a vector see a list, however far a loop of insert or remove  *)
(* has come: for every capacity and whatever the items are.                *)
THEOREM VectorIsList ==
    ASSUME N \in Nat
    PROVE  Spec => IsList
<1>1. Init => Promised!Init
  <2> SUFFICES ASSUME Init PROVE Promised!Init
    OBVIOUS
  <2>1. ShownOK /\ size_ = 0
    BY InitVectorInv, ShownType DEF Init
  <2>2. Shown = <<>>
    BY <2>1, EmptySeq DEF ShownOK
  <2> QED
    BY <2>2 DEF Promised!Init, Shown, Init
<1>2. VectorInv /\ [Next]_vars => VectorInv'
  BY StepVectorInv
<1>3. Init => VectorInv
  BY InitVectorInv
<1>4. VectorInv /\ VectorInv' /\ [Next]_vars => [Promised!Next]_(Promised!vars)
  BY VectorStep
<1> QED
  BY <1>1, <1>2, <1>3, <1>4, PTL DEF Spec, IsList, Promised!Spec
=============================================================================
