---------------------------- MODULE ScreenProofs ----------------------------
(***************************************************************************)
(* Whenever nobody is inside putc the cursor is on the screen, for every   *)
(* size of screen, every number of tasks that print and every format.      *)
(*                                                                         *)
(* Settled speaks of quiet states only and is not inductive: inside putc   *)
(* the cursor does leave the screen.  SettledInv says who will bring it    *)
(* back: a column beyond the last one belongs to a task that has yet to    *)
(* test x or to set it to 0, a line below the last one to a task that has  *)
(* yet to reach Scroll or the store after it.                              *)
(***************************************************************************)
EXTENDS Screen, FiniteSetTheorems, TLAPS

Shaped(j) == j = [pc |-> j.pc, c |-> j.c, reg |-> j.reg, then |-> j.then, out |-> j.out]

WillWrap   == {"wrap", "wrap_home"}
WillScroll == WillWrap \cup {"load_y", "store_y", "scroll", "last_row"}

Jobs ==
    /\ job = [t \in Task |-> job[t]]
    /\ \A t \in Task : /\ Shaped(job[t])
                       /\ job[t].reg \in Nat /\ job[t].then \in {"wrap", "scroll"}

Writing == \A t \in Task : job[t].pc # "idle" \/ job[t].out # <<>> => t \in writers

Tested == \A t \in Task : job[t].c = "BS" => /\ job[t].pc = "load_x" => x > 0
                                            /\ job[t].pc # "cell"

ColumnOwned == x >= COLS => \E t \in Task : job[t].pc \in WillWrap
LineOwned   == y >= ROWS => \E t \in Task : job[t].pc \in WillScroll

SettledInv ==
    /\ x \in Nat /\ y \in Nat /\ writers \subseteq Task
    /\ phase = "boot" => x = 0 /\ y = 0
    /\ Jobs /\ Writing /\ Tested /\ ColumnOwned /\ LineOwned

-----------------------------------------------------------------------------
(* A tab ends at a column, whatever TAB_WIDTH is (screen.cc:70).           *)
LEMMA NextTabType ==
    ASSUME NEW n \in Nat
    PROVE  NextTab(n) \in Nat
<1>1. TAB \in Nat \ {0}
  BY ScreenConstants
<1>2. n \div TAB + 1 \in Nat
  BY <1>1
<1>3. \A a, b \in Nat : a * b \in Nat
  OBVIOUS
<1> QED BY <1>1, <1>2, <1>3 DEF NextTab

(* When one task prints alone, no other one is in putc or about to be.     *)
LEMMA OthersIdle ==
    ASSUME Alone, Writing, writers \subseteq Task, NEW t \in Task, NEW u \in Task,
           job[t].pc # "idle" \/ job[t].out # <<>>,
           job[u].pc # "idle" \/ job[u].out # <<>>
    PROVE  t = u
<1>1. IsFiniteSet(writers)
  BY FS_Subset, ScreenConstants
<1>2. PICK w : writers = {w}
  BY <1>1, FS_Singleton DEF Alone
<1> QED BY <1>2 DEF Writing

LEMMA SettledInit == Init => SettledInv
<1> SUFFICES ASSUME Init PROVE SettledInv
  OBVIOUS
<1> USE DEF Init, Idle
<1>1. x = 0 /\ y = 0 /\ writers \subseteq Task
  OBVIOUS
<1>2. Jobs
  BY DEF Jobs, Shaped
<1>3. Writing /\ Tested
  BY DEF Writing, Tested
<1>4. ColumnOwned /\ LineOwned
  BY ScreenConstants DEF ColumnOwned, LineOwned
<1> QED BY <1>1, <1>2, <1>3, <1>4 DEF SettledInv

(* What a step of t does to job: the job of t alone changes, and the step  *)
(* is taken by a writer.                                                   *)
Turns(t, j) == job' = [job EXCEPT ![t] = j] /\ Shaped(j) /\ j.reg \in Nat /\ j.then \in {"wrap", "scroll"}

LEMMA JobsTurn ==
    ASSUME Jobs, NEW t \in Task, NEW j, Turns(t, j)
    PROVE  /\ Jobs'
           /\ job'[t] = j
           /\ \A u \in Task \ {t} : job'[u] = job[u]
BY DEF Jobs, Turns

LEMMA WritingTurn ==
    ASSUME Jobs, Writing, NEW t \in Task, NEW j, Turns(t, j), t \in writers, writers' = writers
    PROVE  Writing'
BY JobsTurn DEF Writing

(* Records updated field by field.                                         *)
LEMMA Updated ==
    ASSUME NEW j, Shaped(j), NEW p, NEW n
    PROVE  /\ [j EXCEPT !.pc = p, !.reg = n] =
                 [pc |-> p, c |-> j.c, reg |-> n, then |-> j.then, out |-> j.out]
           /\ [j EXCEPT !.pc = p, !.then = n] =
                 [pc |-> p, c |-> j.c, reg |-> j.reg, then |-> n, out |-> j.out]
<1> DEFINE k == [j EXCEPT !.pc = p]
<1>1. k = [pc |-> p, c |-> j.c, reg |-> j.reg, then |-> j.then, out |-> j.out]
  BY DEF Shaped
<1>2. /\ [j EXCEPT !.pc = p, !.reg = n] = [k EXCEPT !.reg = n]
      /\ [j EXCEPT !.pc = p, !.then = n] = [k EXCEPT !.then = n]
  OBVIOUS
<1> HIDE DEF k
<1>3. /\ [k EXCEPT !.reg = n] = [pc |-> p, c |-> j.c, reg |-> n, then |-> j.then, out |-> j.out]
      /\ [k EXCEPT !.then = n] = [pc |-> p, c |-> j.c, reg |-> j.reg, then |-> n, out |-> j.out]
  BY <1>1
<1> QED BY <1>2, <1>3

(* What has to be seen of a step for it to keep the invariant: the task    *)
(* that takes it moves the cursor off the screen only on its way to the    *)
(* test that brings it back.                                               *)
LEMMA TurnKeeps ==
    ASSUME SettledInv, BackspacesAlone, NEW t \in writers, NEW j, Turns(t, j), writers' = writers,
           At(t, job[t].pc), phase' = phase, x' \in Nat, y' \in Nat,
           j.c = "BS" => (j.pc = "load_x" => x' > 0) /\ j.pc # "cell",
           x' = x \/ job[t].pc # "idle",
           x' >= COLS => j.pc \in WillWrap \/ (x >= COLS /\ job[t].pc \notin WillWrap),
           y' >= ROWS => j.pc \in WillScroll \/ (y >= ROWS /\ job[t].pc \notin WillScroll)
    PROVE  SettledInv'
<1>1. t \in Task
  BY DEF SettledInv
<1>2. Jobs' /\ job'[t] = j /\ \A u \in Task \ {t} : job'[u] = job[u]
  BY <1>1, JobsTurn DEF SettledInv
<1>3. Writing'
  BY <1>1, WritingTurn DEF SettledInv
<1>4. Tested'
  <2> SUFFICES ASSUME NEW u \in Task, job'[u].c = "BS"
               PROVE  (job'[u].pc = "load_x" => x' > 0) /\ job'[u].pc # "cell"
    BY DEF Tested
  <2>1. CASE u = t
    BY <2>1, <1>2
  <2>2. CASE u # t
    <3>1. job'[u] = job[u] /\ job[u].c = "BS" /\ Alone
      BY <2>2, <1>2 DEF BackspacesAlone
    <3>2. (job[u].pc = "load_x" => x > 0) /\ job[u].pc # "cell"
      BY <3>1 DEF SettledInv, Tested
    <3>3. job[u].pc = "load_x" => job[t].pc = "idle"
      BY <1>1, <2>2, <3>1, OthersIdle DEF SettledInv
    <3> QED BY <3>1, <3>2, <3>3
  <2> QED BY <2>1, <2>2
<1>5. ColumnOwned'
  <2> SUFFICES ASSUME x' >= COLS PROVE \E u \in Task : job'[u].pc \in WillWrap
    BY DEF ColumnOwned, WillWrap
  <2>1. CASE j.pc \in WillWrap
    BY <2>1, <1>1, <1>2
  <2>2. CASE x >= COLS /\ job[t].pc \notin WillWrap
    <3>1. PICK v \in Task : job[v].pc \in WillWrap
      BY <2>2 DEF SettledInv, ColumnOwned
    <3> QED BY <3>1, <2>2, <1>2
  <2> QED BY <2>1, <2>2
<1>6. LineOwned'
  <2> SUFFICES ASSUME y' >= ROWS PROVE \E u \in Task : job'[u].pc \in WillScroll
    BY DEF LineOwned, WillScroll, WillWrap
  <2>1. CASE j.pc \in WillScroll
    BY <2>1, <1>1, <1>2
  <2>2. CASE y >= ROWS /\ job[t].pc \notin WillScroll
    <3>1. PICK v \in Task : job[v].pc \in WillScroll
      BY <2>2 DEF SettledInv, LineOwned
    <3> QED BY <3>1, <2>2, <1>2
  <2> QED BY <2>1, <2>2
<1> QED BY <1>2, <1>3, <1>4, <1>5, <1>6 DEF SettledInv, At

-----------------------------------------------------------------------------
(* One lemma for the steps of a Printf, one for those of putc on x, one    *)
(* for those on y and on the rest.                                         *)

LEMMA PrintSteps ==
    ASSUME SettledInv, BackspacesAlone, NEW t \in Task,
           (\E pieces \in Seq(Pieces) : Printf(t, pieces)) \/ Putc(t)
    PROVE  SettledInv'
<1>1. CASE \E pieces \in Seq(Pieces) : Printf(t, pieces)
  <2>1. PICK pieces \in Seq(Pieces) : Printf(t, pieces)
    BY <1>1
  <2> DEFINE out == FlattenSeq([k \in DOMAIN pieces |-> Convert(pieces[k])])
             j   == [job[t] EXCEPT !.out = out]
  <2>2. job' = [job EXCEPT ![t].out = out] /\ job[t].pc = "idle" /\ t \in writers
        /\ UNCHANGED <<phase, x, y, writers>> /\ At(t, job[t].pc)
    BY <2>1 DEF Printf, At
  <2> HIDE DEF out
  <2>3. Shaped(job[t]) /\ job[t].reg \in Nat /\ job[t].then \in {"wrap", "scroll"}
    BY DEF SettledInv, Jobs
  <2>4. Turns(t, j)
    BY <2>2, <2>3 DEF Turns, Shaped
  <2>5. j.pc = "idle"
    BY <2>2, <2>3 DEF Shaped
  <2> QED BY <2>2, <2>4, <2>5, TurnKeeps DEF SettledInv, WillWrap, WillScroll
<1>2. CASE Putc(t)
  <2> DEFINE c == Head(job[t].out)
             j == [job[t] EXCEPT !.pc = Branch(c), !.c = c, !.out = Tail(job[t].out)]
  <2>1. job' = [job EXCEPT ![t] = j] /\ job[t].pc = "idle" /\ job[t].out # <<>>
        /\ UNCHANGED <<phase, x, y, writers>> /\ At(t, job[t].pc)
    BY <1>2 DEF Putc, At
  <2>2. t \in writers
    BY <2>1 DEF SettledInv, Writing
  <2>3. Shaped(job[t]) /\ job[t].reg \in Nat /\ job[t].then \in {"wrap", "scroll"}
    BY DEF SettledInv, Jobs
  <2>4. j = [pc |-> Branch(c), c |-> c, reg |-> job[t].reg, then |-> job[t].then, out |-> Tail(job[t].out)]
    <3> DEFINE k == [job[t] EXCEPT !.pc = Branch(c), !.c = c]
    <3>1. k = [pc |-> Branch(c), c |-> c, reg |-> job[t].reg, then |-> job[t].then, out |-> job[t].out]
      <4> DEFINE l == [job[t] EXCEPT !.pc = Branch(c)]
      <4> HIDE DEF c
      <4>1. l = [pc |-> Branch(c), c |-> job[t].c, reg |-> job[t].reg, then |-> job[t].then,
                 out |-> job[t].out]
        BY <2>3 DEF Shaped
      <4>2. k = [l EXCEPT !.c = c]
        OBVIOUS
      <4> HIDE DEF k, l
      <4> QED BY <4>1, <4>2
    <3>2. j = [k EXCEPT !.out = Tail(job[t].out)]
      OBVIOUS
    <3> HIDE DEF k, j
    <3> QED BY <3>1, <3>2
  <2>5. c = "BS" => (Branch(c) = "load_x" => x > 0) /\ Branch(c) # "cell"
    BY ScreenConstants DEF Branch
  <2>6. Turns(t, j) /\ j.pc = Branch(c) /\ j.c = c
    <3> HIDE DEF j, c
    <3> QED BY <2>1, <2>3, <2>4 DEF Turns, Shaped
  <2> HIDE DEF j, c
  <2> QED BY <2>1, <2>2, <2>5, <2>6, TurnKeeps DEF SettledInv, WillWrap, WillScroll
<1> QED BY <1>1, <1>2

LEMMA ColumnSteps ==
    ASSUME SettledInv, BackspacesAlone, NEW t \in Task,
           PutCell(t) \/ LoadX(t) \/ StoreX(t) \/ Home(t) \/ Wrap(t) \/ WrapHome(t)
    PROVE  SettledInv'
<1>1. Shaped(job[t]) /\ job[t].reg \in Nat /\ job[t].then \in {"wrap", "scroll"}
  BY DEF SettledInv, Jobs
<1>2. job[t].pc # "idle" => t \in writers
  BY DEF SettledInv, Writing
<1>3. job = [u \in Task |-> job[u]] /\ x \in Nat /\ y \in Nat /\ {ROWS, COLS} \subseteq Nat \ {0}
  BY ScreenConstants DEF SettledInv, Jobs
<1> USE DEF At, Goto
<1>4. CASE PutCell(t)
  <2> DEFINE j == [job[t] EXCEPT !.pc = "load_x"]
  <2>1. Turns(t, j) /\ j.pc = "load_x" /\ j.c = job[t].c
    BY <1>1, <1>3, <1>4 DEF Turns, Shaped, PutCell
  <2>2. job[t].c # "BS"
    BY <1>4 DEF PutCell, SettledInv, Tested
  <2> HIDE DEF j
  <2> QED BY <1>2, <1>3, <1>4, <2>1, <2>2, TurnKeeps DEF PutCell, WillWrap, WillScroll
<1>5. CASE LoadX(t)
  <2> DEFINE j == [job[t] EXCEPT !.pc = "store_x", !.reg = NewX(job[t].c)]
  <2>1. job[t].c = "BS" => x > 0
    BY <1>5 DEF LoadX, SettledInv, Tested
  <2>2. NewX(job[t].c) \in Nat
    BY <1>3, <2>1, NextTabType DEF NewX
  <2>3. job' = [job EXCEPT ![t] = j]
    BY <1>3, <1>5 DEF LoadX
  <2>4. j = [pc |-> "store_x", c |-> job[t].c, reg |-> NewX(job[t].c), then |-> job[t].then,
             out |-> job[t].out]
    BY <1>1, Updated
  <2> HIDE DEF j
  <2>5. Turns(t, j) /\ j.pc = "store_x"
    BY <1>1, <2>2, <2>3, <2>4 DEF Turns, Shaped
  <2> QED BY <1>2, <1>3, <1>5, <2>5, TurnKeeps DEF LoadX, WillWrap, WillScroll
<1>6. CASE StoreX(t)
  <2> DEFINE j == [job[t] EXCEPT !.pc = "wrap"]
  <2>1. Turns(t, j) /\ j.pc = "wrap"
    BY <1>1, <1>3, <1>6 DEF Turns, Shaped, StoreX
  <2> HIDE DEF j
  <2> QED BY <1>1, <1>2, <1>3, <1>6, <2>1, TurnKeeps DEF StoreX, WillWrap, WillScroll
<1>7. CASE Home(t)
  <2> DEFINE j == [job[t] EXCEPT !.pc = IF job[t].c = "NL" THEN "load_y" ELSE "wrap"]
  <2>1. Turns(t, j) /\ j.pc \in {"load_y", "wrap"}
    BY <1>1, <1>3, <1>7 DEF Turns, Shaped, Home
  <2> HIDE DEF j
  <2>2. y >= ROWS => y' >= ROWS
    BY <1>7 DEF Home
  <2> QED BY <1>2, <1>3, <1>7, <2>1, TurnKeeps DEF Home, WillWrap, WillScroll
<1>8. CASE Wrap(t)
  <2> DEFINE j == [job[t] EXCEPT !.pc = IF Wraps THEN "wrap_home" ELSE "scroll", !.then = "scroll"]
  <2>1. job' = [job EXCEPT ![t] = j]
    BY <1>3, <1>8 DEF Wrap
  <2>2. j = [pc |-> IF Wraps THEN "wrap_home" ELSE "scroll", c |-> job[t].c, reg |-> job[t].reg,
             then |-> "scroll", out |-> job[t].out]
    BY <1>1, Updated
  <2> HIDE DEF j
  <2>3. Turns(t, j) /\ j.pc = IF Wraps THEN "wrap_home" ELSE "scroll"
    BY <1>1, <2>1, <2>2 DEF Turns, Shaped
  <2> QED BY <1>2, <1>3, <1>8, <2>3, TurnKeeps DEF Wrap, Wraps, WillWrap, WillScroll
<1>9. CASE WrapHome(t)
  <2> DEFINE j == [job[t] EXCEPT !.pc = "load_y"]
  <2>1. Turns(t, j) /\ j.pc = "load_y"
    BY <1>1, <1>3, <1>9 DEF Turns, Shaped, WrapHome
  <2> HIDE DEF j
  <2> QED BY <1>2, <1>3, <1>9, <2>1, TurnKeeps DEF WrapHome, WillWrap, WillScroll
<1> QED BY <1>4, <1>5, <1>6, <1>7, <1>8, <1>9

LEMMA LineSteps ==
    ASSUME SettledInv, BackspacesAlone, NEW t \in Task,
           LoadY(t) \/ StoreY(t) \/ Scroll(t) \/ LastRow(t) \/ Move(t)
    PROVE  SettledInv'
<1>1. Shaped(job[t]) /\ job[t].reg \in Nat /\ job[t].then \in {"wrap", "scroll"}
  BY DEF SettledInv, Jobs
<1>2. job[t].pc # "idle" => t \in writers
  BY DEF SettledInv, Writing
<1>3. job = [u \in Task |-> job[u]] /\ x \in Nat /\ y \in Nat /\ {ROWS, COLS} \subseteq Nat \ {0}
  BY ScreenConstants DEF SettledInv, Jobs
<1> USE DEF At, Goto
<1>4. CASE LoadY(t)
  <2> DEFINE j == [job[t] EXCEPT !.pc = "store_y", !.reg = y + 1]
  <2>1. job' = [job EXCEPT ![t] = j]
    BY <1>3, <1>4 DEF LoadY
  <2>2. j = [pc |-> "store_y", c |-> job[t].c, reg |-> y + 1, then |-> job[t].then,
             out |-> job[t].out]
    BY <1>1, Updated
  <2> HIDE DEF j
  <2>3. Turns(t, j) /\ j.pc = "store_y"
    BY <1>1, <1>3, <2>1, <2>2 DEF Turns, Shaped
  <2> QED BY <1>2, <1>3, <1>4, <2>3, TurnKeeps DEF LoadY, WillWrap, WillScroll
<1>5. CASE StoreY(t)
  <2> DEFINE j == [job[t] EXCEPT !.pc = job[t].then]
  <2>1. Turns(t, j) /\ j.pc \in {"wrap", "scroll"}
    BY <1>1, <1>3, <1>5 DEF Turns, Shaped, StoreY
  <2> HIDE DEF j
  <2> QED BY <1>1, <1>2, <1>3, <1>5, <2>1, TurnKeeps DEF StoreY, WillWrap, WillScroll
<1>6. CASE Scroll(t)
  <2> DEFINE j == [job[t] EXCEPT !.pc = IF Scrolls THEN "last_row" ELSE "move"]
  <2>1. Turns(t, j) /\ j.pc = IF Scrolls THEN "last_row" ELSE "move"
    BY <1>1, <1>3, <1>6 DEF Turns, Shaped, Scroll
  <2> HIDE DEF j
  <2> QED BY <1>2, <1>3, <1>6, <2>1, TurnKeeps DEF Scroll, Scrolls, WillWrap, WillScroll
<1>7. CASE LastRow(t)
  <2> DEFINE j == [job[t] EXCEPT !.pc = "move"]
  <2>1. Turns(t, j) /\ j.pc = "move"
    BY <1>1, <1>3, <1>7 DEF Turns, Shaped, LastRow
  <2> HIDE DEF j
  <2> QED BY <1>2, <1>3, <1>7, <2>1, TurnKeeps DEF LastRow, WillWrap, WillScroll
<1>8. CASE Move(t)
  <2> DEFINE j == [Idle EXCEPT !.out = job[t].out]
  <2>1. Turns(t, j) /\ j.pc = "idle"
    BY <1>1, <1>3, <1>8 DEF Turns, Shaped, Move, Idle
  <2> HIDE DEF j
  <2> QED BY <1>2, <1>3, <1>8, <2>1, TurnKeeps DEF Move, WillWrap, WillScroll
<1> QED BY <1>4, <1>5, <1>6, <1>7, <1>8

-----------------------------------------------------------------------------
LEMMA SettledStep == SettledInv /\ BackspacesAlone /\ [Next]_vars => SettledInv'
<1> SUFFICES ASSUME SettledInv, BackspacesAlone, [Next]_vars PROVE SettledInv'
  OBVIOUS
<1>1. CASE UNCHANGED <<x, y, job, writers>> /\ (phase' = "boot" => phase = "boot")
  BY <1>1 DEF SettledInv, Jobs, Writing, Tested, ColumnOwned, LineOwned
<1>2. CASE Initialize
  <2>1. x' = x /\ y' = y /\ UNCHANGED <<job, writers>> /\ phase' # "boot"
    BY <1>2 DEF Initialize, SettledInv
  <2> QED BY <2>1, <1>1
<1>3. CASE \E t \in Task : \/ \E pieces \in Seq(Pieces) : Printf(t, pieces)
                         \/ Step(t)
  <2>1. PICK t \in Task : (\E pieces \in Seq(Pieces) : Printf(t, pieces)) \/ Step(t)
    BY <1>3
  <2>2. CASE Panic(t)
    BY <2>2, <1>1 DEF Panic
  <2> QED BY <2>1, <2>2, PrintSteps, ColumnSteps, LineSteps DEF Step
<1>4. CASE \E t \in Task : \E k \in Color : SetColor(t, k)
  BY <1>4, <1>1 DEF SetColor
<1>5. CASE UNCHANGED vars
  BY <1>5, <1>1 DEF vars
<1> QED BY <1>2, <1>3, <1>4, <1>5 DEF Next

LEMMA SettledFollows == SettledInv => Settled
<1> SUFFICES ASSUME SettledInv, Quiet PROVE x \in Columns /\ y \in 0 .. ROWS - 1
  BY DEF Settled
<1>1. \A t \in Task : job[t].pc \notin WillScroll /\ job[t].pc \notin WillWrap
  BY DEF Quiet, WillScroll, WillWrap
<1> QED BY <1>1, ScreenConstants DEF SettledInv, ColumnOwned, LineOwned, Columns

(* The cursor is on the screen whenever nobody is inside putc, whatever    *)
(* the tasks print and wherever the timer switches between them, as long   *)
(* as backspaces are left to a task that prints alone (screen.cc:58-99).   *)
THEOREM AlwaysSettled == Spec /\ []BackspacesAlone => []Settled
<1>1. Init => SettledInv
  BY SettledInit
<1>2. SettledInv /\ BackspacesAlone /\ [Next]_vars => SettledInv'
  BY SettledStep
<1>3. SettledInv => Settled
  BY SettledFollows
<1> QED BY <1>1, <1>2, <1>3, PTL DEF Spec

=============================================================================
