------------------------------- MODULE Screen -------------------------------
(***************************************************************************)
(* The text screen (screen.cc): Clear, Printf, putc and Scroll, called by  *)
(* tasks that the timer may switch between at any statement.  cursor and   *)
(* the video memory are shared; reading x or y, or testing it, and writing *)
(* it back are steps of their own, as in the debug build (-O0,             *)
(* src/Makefile).  Storing a cell and copying the rows up are one step     *)
(* each; Printf converts in its own variables, so that what it hands to    *)
(* putc is a function of its arguments.                                    *)
(*                                                                         *)
(* What is meant by a Printf is also typed, as a ghost, on paper that      *)
(* never ends: its last ROWS rows are what the screen should show.         *)
(***************************************************************************)
EXTENDS Integers, SequencesExt, FiniteSets

CONSTANTS
    ROWS, COLS, TAB,   \* NUM_ROWS, NUM_COLS, TAB_WIDTH
    Task,
    HEX,               \* hexadecimal digits of an unsigned int: 8
    Glyph,             \* printable characters
    Color,             \* pairs of fore and back colour; Default at start
    Default,
    Pieces,            \* what formats are made of: [conv, arg]
    Firmware           \* what the cells hold before the kernel starts

ASSUME ScreenConstants ==
    /\ {ROWS, COLS, TAB, HEX} \subseteq Nat \ {0}
    /\ Default \in Color
    /\ {"BS", "TAB", "CR", "NL", "other", "blank", "panic"} \cap Glyph = {}
    /\ IsFiniteSet(Task)

VARIABLES
    phase,         \* "boot" until screen::Initialize, then "up"; "panic"
    vram,          \* the cells on the screen
    x, y,          \* cursor
    color,         \* fore_color and back_color
    crtc,          \* the position the display's own cursor was moved to
    job,           \* task -> what it has yet to print, and where it is in putc
    writers,       \* the tasks that print in this behaviour
    typed          \* ghost: the paper and the line and column to type on

vars == <<phase, vram, x, y, color, crtc, job, writers, typed>>

Cells   == 0 .. ROWS * COLS - 1
Columns == 0 .. COLS - 1
Control == {"BS", "TAB", "CR", "NL", "other"}
Cell(c) == [char |-> c, color |-> color]
Blank   == Cell("blank")
Idle    == [pc |-> "idle", c |-> "other", reg |-> 0, then |-> "wrap", out |-> <<>>]

At(t, pc)   == phase = "up" /\ job[t].pc = pc
Goto(t, pc) == job' = [job EXCEPT ![t].pc = pc]

RowsOf(cells) == [r \in 1 .. ROWS |-> [c \in Columns |-> cells[(r - 1) * COLS + c]]]

Init ==
    /\ phase = "boot"
    /\ vram = [i \in Cells |-> Firmware]
    /\ x = 0 /\ y = 0 /\ color = Default /\ crtc = 0
    /\ job = [t \in Task |-> Idle]
    /\ writers \in SUBSET Task
    /\ typed = [paper |-> RowsOf(vram), line |-> 1, column |-> 0]

(* Initialize clears the screen, all cells but the last one.               *)
Initialize ==
    /\ phase = "boot" /\ phase' = "up"
    /\ vram' = [i \in Cells |-> IF i < ROWS * COLS - 1 THEN Blank ELSE vram[i]]
    /\ x' = 0 /\ y' = 0 /\ crtc' = 0
    /\ typed' = [paper |-> RowsOf(vram'), line |-> 1, column |-> 0]
    /\ UNCHANGED <<color, job, writers>>

SetColor(t, k) ==
    /\ At(t, "idle") /\ t \in writers /\ job[t].out = <<>>
    /\ color' = k
    /\ UNCHANGED <<phase, vram, x, y, crtc, job, writers, typed>>

-----------------------------------------------------------------------------
(* Printf.  A format and its arguments are a sequence of pieces: a         *)
(* character of the format, or a conversion with its argument.             *)

Word == 16 ^ HEX
Digit(d) == <<"0", "1", "2", "3", "4", "5", "6", "7", "8", "9", "A", "B", "C", "D", "E", "F">>[d + 1]

Puth(n) == [k \in 1 .. HEX |-> Digit((n \div 16 ^ (HEX - k)) % 16)]

(* putu takes the digits from the low end and turns them round.            *)
LowFirst[n \in Nat] == IF n = 0 THEN <<>> ELSE <<Digit(n % 10)>> \o LowFirst[n \div 10]
Putu_LowFirst(n) == IF n = 0 THEN <<"0">> ELSE LowFirst[n]  \* mutation
Putu(n) == IF n = 0 THEN <<"0">> ELSE Reverse(LowFirst[n])

(* -dec is taken in the width of an int and passed as an unsigned one.     *)
Putd(n) == IF n < 0 THEN <<"-">> \o Putu((-n) % Word) ELSE Putu(n)

NULL == <<"NULL">>
Convert(piece) ==
    CASE piece.conv = "d" -> Putd(piece.arg)
      [] piece.conv = "u" -> Putu(piece.arg)
      [] piece.conv = "x" -> Puth(piece.arg)
      [] piece.conv \in {"text", "c"} -> <<piece.arg>>
      [] piece.conv = "s" -> IF piece.arg = NULL THEN <<"(", "n", "u", "l", "l", ")">> ELSE piece.arg
      [] OTHER -> <<"panic">>

(* The ghost: what a piece means, and what typing a character does.        *)
Numeral(n, base, size) == [k \in 1 .. size |-> Digit((n \div base ^ (size - k)) % base)]
Size(n) == CHOOSE k \in 1 .. n + 1 : n < 10 ^ k /\ (k = 1 \/ n >= 10 ^ (k - 1))
Meant(piece) ==
    CASE piece.conv \in {"d", "u"} -> LET m == IF piece.arg < 0 THEN -piece.arg ELSE piece.arg
                                     IN  (IF piece.arg < 0 THEN <<"-">> ELSE <<>>) \o Numeral(m, 10, Size(m))
      [] piece.conv = "x" -> Numeral(piece.arg, 16, HEX)
      [] OTHER -> Convert(piece)

NextTab(n) == (n \div TAB + 1) * TAB
TypedColumn(column, c) ==
    CASE c = "BS"  -> IF column > 0 THEN column - 1 ELSE 0
      [] c = "TAB" -> NextTab(column)
      [] c \in {"CR", "NL"} -> 0
      [] c \in Glyph -> column + 1
      [] OTHER -> column

Type(on, c) ==
    LET column == TypedColumn(on.column, c)
        line   == IF c = "NL" \/ column >= COLS THEN on.line + 1 ELSE on.line
        paper  == IF c \in Glyph
                  THEN [on.paper EXCEPT ![on.line] = [@ EXCEPT ![on.column] = Cell(c)]]
                  ELSE on.paper
    IN  [paper  |-> IF line > Len(paper) THEN Append(paper, [k \in Columns |-> Blank]) ELSE paper,
         line   |-> line,
         column |-> IF column >= COLS THEN 0 ELSE column]

Printf(t, pieces) ==
    /\ At(t, "idle") /\ t \in writers /\ job[t].out = <<>>
    /\ job' = [job EXCEPT ![t].out = FlattenSeq([k \in DOMAIN pieces |-> Convert(pieces[k])])]
    /\ typed' = IF writers = {t}
                THEN FoldLeft(Type, typed, FlattenSeq([k \in DOMAIN pieces |-> Meant(pieces[k])]))
                ELSE typed
    /\ UNCHANGED <<phase, vram, x, y, color, crtc, writers>>

(* An unsupported conversion panics; the message is left out.              *)
Panic(t) ==
    /\ At(t, "idle") /\ job[t].out # <<>> /\ Head(job[t].out) = "panic"
    /\ phase' = "panic"
    /\ UNCHANGED <<vram, x, y, color, crtc, job, writers, typed>>

-----------------------------------------------------------------------------
(* putc.                                                                   *)

(* The branch on the character; a backspace looks at x first.              *)
Branch_Untested(c) ==  \* mutation
    CASE c \in Glyph -> "cell"
      [] c \in {"TAB", "BS"} -> "load_x"
      [] c \in {"CR", "NL"} -> "home"
      [] OTHER -> "wrap"

Branch(c) ==
    CASE c \in Glyph -> "cell"
      [] c = "TAB" \/ (c = "BS" /\ x > 0) -> "load_x"
      [] c \in {"CR", "NL"} -> "home"
      [] OTHER -> "wrap"

Putc(t) ==
    /\ At(t, "idle") /\ job[t].out # <<>> /\ Head(job[t].out) # "panic"
    /\ LET c == Head(job[t].out)
       IN  job' = [job EXCEPT ![t].pc = Branch(c), ![t].c = c, ![t].out = Tail(@)]
    /\ UNCHANGED <<phase, vram, x, y, color, crtc, writers, typed>>

Index == y * COLS + x
PutCell(t) ==
    /\ At(t, "cell")
    /\ vram' = IF Index \in Cells THEN [vram EXCEPT ![Index] = Cell(job[t].c)] ELSE vram
    /\ Goto(t, "load_x")
    /\ UNCHANGED <<phase, x, y, color, crtc, writers, typed>>

NewX_TabAdds(c) == CASE c = "BS" -> x - 1 [] c = "TAB" -> x + TAB [] OTHER -> x + 1  \* mutation
NewX(c) == CASE c = "BS" -> x - 1 [] c = "TAB" -> NextTab(x) [] OTHER -> x + 1

LoadX(t) ==
    /\ At(t, "load_x")
    /\ job' = [job EXCEPT ![t].pc = "store_x", ![t].reg = NewX(job[t].c)]
    /\ UNCHANGED <<phase, vram, x, y, color, crtc, writers, typed>>

StoreX(t) ==
    /\ At(t, "store_x")
    /\ x' = job[t].reg
    /\ Goto(t, "wrap")
    /\ UNCHANGED <<phase, vram, y, color, crtc, writers, typed>>

Home(t) ==
    /\ At(t, "home")
    /\ x' = 0
    /\ Goto(t, IF job[t].c = "NL" THEN "load_y" ELSE "wrap")
    /\ UNCHANGED <<phase, vram, y, color, crtc, writers, typed>>

Wraps_Past == x > COLS  \* mutation
Wraps == x >= COLS

Wrap(t) ==
    /\ At(t, "wrap")
    /\ job' = [job EXCEPT ![t].pc = IF Wraps THEN "wrap_home" ELSE "scroll", ![t].then = "scroll"]
    /\ UNCHANGED <<phase, vram, x, y, color, crtc, writers, typed>>

WrapHome(t) ==
    /\ At(t, "wrap_home")
    /\ x' = 0
    /\ Goto(t, "load_y")
    /\ UNCHANGED <<phase, vram, y, color, crtc, writers, typed>>

LoadY(t) ==
    /\ At(t, "load_y")
    /\ job' = [job EXCEPT ![t].pc = "store_y", ![t].reg = y + 1]
    /\ UNCHANGED <<phase, vram, x, y, color, crtc, writers, typed>>

StoreY(t) ==
    /\ At(t, "store_y")
    /\ y' = job[t].reg
    /\ Goto(t, job[t].then)
    /\ UNCHANGED <<phase, vram, x, color, crtc, writers, typed>>

Scrolls_Once == y = ROWS  \* mutation
Scrolls == y >= ROWS

Scrolled_NoBlank == [i \in Cells |-> IF i + COLS \in Cells THEN vram[i + COLS] ELSE vram[i]]  \* mutation
Scrolled == [i \in Cells |-> IF i + COLS \in Cells THEN vram[i + COLS] ELSE Blank]

Scroll(t) ==
    /\ At(t, "scroll")
    /\ vram' = IF Scrolls THEN Scrolled ELSE vram
    /\ Goto(t, IF Scrolls THEN "last_row" ELSE "move")
    /\ UNCHANGED <<phase, x, y, color, crtc, writers, typed>>

LastRow(t) ==
    /\ At(t, "last_row")
    /\ y' = ROWS - 1
    /\ Goto(t, "move")
    /\ UNCHANGED <<phase, vram, x, color, crtc, writers, typed>>

(* Move: its four writes to the display are taken as one.                  *)
Moved_Column == x  \* mutation
Moved == Index

Move(t) ==
    /\ At(t, "move")
    /\ crtc' = Moved
    /\ job' = [job EXCEPT ![t] = [Idle EXCEPT !.out = job[t].out]]
    /\ UNCHANGED <<phase, vram, x, y, color, writers, typed>>

Step(t) == \/ Putc(t) \/ Panic(t) \/ PutCell(t) \/ LoadX(t) \/ StoreX(t) \/ Home(t) \/ Wrap(t)
           \/ WrapHome(t) \/ LoadY(t) \/ StoreY(t) \/ Scroll(t) \/ LastRow(t) \/ Move(t)

Next == \/ Initialize
        \/ \E t \in Task : \/ \E pieces \in Seq(Pieces) : Printf(t, pieces)
                           \/ \E k \in Color : SetColor(t, k)
                           \/ Step(t)

Spec == Init /\ [][Next]_vars

-----------------------------------------------------------------------------
(* Properties.                                                             *)

Quiet == phase = "up" /\ \A t \in Task : job[t].pc = "idle"
Alone == Cardinality(writers) = 1
Printed == Quiet /\ Alone /\ \A t \in Task : job[t].out = <<>>
Above == Len(typed.paper) - ROWS  \* lines of paper that have left the screen

(* The cells, the cursor and the paper hold what screen.cc can put there.  *)
TypeOK ==
    /\ \A i \in Cells : vram[i] = Firmware \/ (vram[i].char \in Glyph \cup {"blank"}
                                               /\ vram[i].color \in Color)
    /\ x \in Nat /\ y \in Nat /\ crtc \in Nat
    /\ \A t \in Task : job[t].pc # "idle" \/ job[t].out # <<>> => t \in writers
    /\ Len(typed.paper) >= ROWS /\ typed.line \in 1 .. Len(typed.paper) /\ typed.column \in Columns

(* Whenever nobody is inside putc the cursor is on the screen, however the *)
(* printing tasks were interleaved: the last one to change it also checks  *)
(* it (screen.cc:82-87).                                                   *)
Settled == Quiet => x \in Columns /\ y \in 0 .. ROWS - 1

(* A backspace is only printed by a task that prints alone: the test of x  *)
(* and the subtraction are two steps, between which another task may move  *)
(* the cursor home, and x would become negative.                           *)
BackspacesAlone == \A t \in Task : job[t].c = "BS" => Alone

(* A task that prints alone sees the last rows of what it meant: numbers   *)
(* as numerals of their value, text as it is, each cell in the colour of   *)
(* its time, and the cursor, also the display's own, where it types        *)
(* (screen.cc:31-37, 41-195).                                              *)
Shows ==
    Printed =>
        /\ RowsOf(vram) = SubSeq(typed.paper, Above + 1, Above + ROWS)
        /\ x = typed.column /\ y = typed.line - 1 - Above
        /\ crtc = y * COLS + x
=============================================================================
