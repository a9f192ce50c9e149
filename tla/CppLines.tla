------------------------------ MODULE CppLines ------------------------------
(***************************************************************************)
(* The lines of a C++ file as cpplint.py sees them, and what it makes of   *)
(* them before it checks anything: comments removed, strings collapsed,    *)
(* brackets matched across lines.                                          *)
(*                                                                         *)
(* A line is a sequence of tokens; the token " " stands at the front of an *)
(* indented line and nowhere else.  The space between tokens, escapes and  *)
(* character constants are left out.  Line numbers start at 1, which is    *)
(* what the marker at the front of the code's list is for.                 *)
(***************************************************************************)
EXTENDS Integers, Sequences, SequencesExt

CONSTANTS
    Name,       \* identifiers that are not keywords
    Macro       \* those of capitals and underscores only

Quote   == "\""
Dummy   == <<"//", "dummy">>
Keyword == {"class", "struct", "namespace", "public", "protected", "private", "for",
            "while", "do", "if", "else", "asm", "volatile", "TEST", "DISALLOW_COPY_AND_ASSIGN"}
Word    == Name \cup Macro \cup Keyword
Directive == {"#if", "#ifdef", "#ifndef", "#else", "#elif", "#endif", "#include", "#define"}

(* Op applied n times.                                                     *)
Iterate(Op(_), x, n) ==
    LET it[k \in 0 .. n] == IF k = 0 THEN x ELSE Op(it[k - 1]) IN it[n]

Count(line, t)    == Len(SelectSeq(line, LAMBDA u : u = t))
Find(line, t)     == SelectInSeq(line, LAMBDA u : u = t)
Has(line, t)      == Contains(line, t)
From(line, i)     == SubSeq(line, i, Len(line))
Indented(line)    == line # <<>> /\ line[1] = " "
strip(line)       == IF Indented(line) THEN Tail(line) ELSE line
Starts(line, s)   == IsPrefix(s, strip(line))
StartsIn(line, S) == strip(line) # <<>> /\ strip(line)[1] \in S
Ends(line, S)     == line # <<>> /\ Last(line) \in S

(* The errors with this line, category and confidence if P.                *)
If(P, linenum, category, confidence) ==
    IF P THEN <<[linenum |-> linenum, category |-> category, confidence |-> confidence]>> ELSE <<>>

IsBlankLine(line) == strip(line) = <<>>
IsInclude(line)   == StartsIn(line, {"#include"})

-----------------------------------------------------------------------------
(* Cleansing.  A line of spaces only becomes empty when a comment behind   *)
(* them goes.                                                              *)

IsCppString(line) == Count(line, Quote) % 2 = 1

CleanseComments(line) ==
    LET c     == Find(line, "//")
        code  == IF c > 0 /\ ~IsCppString(SubSeq(line, 1, c - 1))
                 THEN SubSeq(line, 1, c - 1) ELSE line
        open  == Find(code, "/*")
        close == SelectLastInSeq(code, LAMBDA u : u = "*/")
        rest  == IF 0 < open /\ open < close
                 THEN SubSeq(code, 1, open - 1) \o From(code, close + 1) ELSE code
    IN  IF rest = <<" ">> /\ rest # line THEN <<>> ELSE rest

(* Quotes pair up from the left; what is between a pair goes.              *)
Kept(line, i) ==
    LET before == Count(SubSeq(line, 1, i - 1), Quote)
    IN  line[i] = Quote \/ before % 2 = 0 \/ before = Count(line, Quote)

CollapseStrings(line) ==
    IF IsInclude(line) THEN line
    ELSE FoldLeftDomain(LAMBDA acc, i : IF Kept(line, i) THEN Append(acc, line[i]) ELSE acc,
                        <<>>, line)

(* clean_lines of the code: lines, elided and raw_lines.                   *)
CleansedLines(text) ==
    [raw_lines |-> text,
     lines     |-> [n \in DOMAIN text |-> CleanseComments(text[n])],
     elided    |-> [n \in DOMAIN text |-> CleanseComments(CollapseStrings(text[n]))]]

-----------------------------------------------------------------------------
(* Comments over several lines.                                            *)

OpensComment(line)  == Starts(line, <<"/*">>) /\ ~Has(line, "*/")
ClosesComment(line) == Ends(line, {"*/"})

(* The first line from n on with property P, or the one behind the last.   *)
FirstLine(text, n, P(_)) ==
    LET i == SelectInSubSeq(text, n, Len(text), P) IN IF i = 0 THEN Len(text) + 1 ELSE i

FindNextMultiLineCommentStart(text, n) == FirstLine(text, n, OpensComment)
FindNextMultiLineCommentEnd(text, n)   == FirstLine(text, n, ClosesComment)

(* One turn of the loop of RemoveMultiLineComments: text with its next     *)
(* comment blanked, at the line to go on from; lost is the line reported   *)
(* when the comment does not end.                                          *)
RemoveNextComment(r) ==
    LET begin == FindNextMultiLineCommentStart(r.text, r.lineix)
        end   == FindNextMultiLineCommentEnd(r.text, begin)
    IN  CASE begin > Len(r.text) -> [r EXCEPT !.lineix = begin]
          [] begin <= Len(r.text) /\ end > Len(r.text) ->
                 [r EXCEPT !.lineix = end, !.lost = begin + 1]
          [] OTHER ->
                 [r EXCEPT !.lineix = end + 1,
                           !.text = [n \in DOMAIN @ |-> IF n \in begin .. end THEN Dummy ELSE @[n]]]

RemoveMultiLineComments(text) ==
    Iterate(RemoveNextComment, [text |-> text, lineix |-> 1, lost |-> 0], Len(text))

-----------------------------------------------------------------------------
(* Brackets.  A position is just behind the closing one, -1 for none.      *)

Closing == [c \in {"(", "[", "{"} |-> CASE c = "(" -> ")" [] c = "[" -> "]" [] c = "{" -> "}"]
Balance(line, c) == Count(line, c) - Count(line, Closing[c])

FindEndOfExpressionInLine(line, startpos, depth, c) ==
    LET ends == {i \in startpos .. Len(line) :
                    /\ line[i] = Closing[c]
                    /\ depth + Balance(SubSeq(line, startpos, i), c) = 0}
    IN  IF ends = {} THEN -1 ELSE 1 + CHOOSE i \in ends : \A j \in ends : i <= j

(* The line on which the balance of whole lines reaches zero is searched   *)
(* for the bracket that closes.                                            *)
CloseExpression(elided, n, pos) ==
    LET c       == elided[n][pos]
        first   == FindEndOfExpressionInLine(elided[n], pos, 0, c)
        open[k \in n .. Len(elided)] ==
                   IF k = n THEN Balance(From(elided[n], pos), c)
                   ELSE open[k - 1] + Balance(elided[k], c)
        closers == {k \in n + 1 .. Len(elided) : open[k] <= 0}
        k       == CHOOSE k \in closers : \A l \in closers : k <= l
    IN  CASE first > -1 -> [line |-> n, pos |-> first]
          [] first = -1 /\ closers # {} ->
                 [line |-> k, pos |-> FindEndOfExpressionInLine(elided[k], 1, open[k - 1], c)]
          [] OTHER -> [line |-> Len(elided) + 1, pos |-> -1]

GetPreviousNonBlankLine(elided, n) ==
    LET p == SelectLastInSubSeq(elided, 1, n - 1, LAMBDA l : ~IsBlankLine(l))
    IN  [line |-> IF p = 0 THEN <<>> ELSE elided[p], linenum |-> p]
=============================================================================
