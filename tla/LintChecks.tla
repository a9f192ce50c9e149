----------------------------- MODULE LintChecks -----------------------------
(***************************************************************************)
(* Checks of cpplint.py that look at more than one line or keep a state:   *)
(* function lengths, braces, loops, classes, header guards and the whole   *)
(* file's.  Each returns the errors it reports, in order.  Of CheckStyle    *)
(* and of the other checks of a single line only those here are modelled.  *)
(***************************************************************************)
EXTENDS LintNesting

CONSTANTS
    NormalTrigger,  \* lines of a function at verbosity 0: 250 in the code
    TestTrigger,    \* the same for a TEST: 400
    SmallClass,     \* lines up to which a class may do without blank lines: 24
    CopyrightLines  \* lines in which a copyright must appear: 10

-----------------------------------------------------------------------------
(* _FunctionState and CheckForFunctionLengths.                             *)

FunctionState == [in_a_function |-> FALSE, lines_in_function |-> 0, current_function |-> None]

Begin_GoesOn(fn, name) == [fn EXCEPT !.in_a_function = TRUE, !.current_function = name]  \* mutation
Begin(fn, name) == [in_a_function |-> TRUE, lines_in_function |-> 0, current_function |-> name]
CountLine(fn)   == [fn EXCEPT !.lines_in_function = IF fn.in_a_function THEN @ + 1 ELSE @]
End(fn)         == [fn EXCEPT !.in_a_function = FALSE]

BaseTrigger(fn) == IF fn.current_function = "TEST" THEN TestTrigger ELSE NormalTrigger

(* int(math.log(n, 2)).                                                    *)
Log2(n) == CHOOSE k \in 0 .. n : 2 ^ k <= n /\ n < 2 ^ (k + 1)

Level(n) == IF n > 5 THEN 5 ELSE n

Check(fn, verbose_level, linenum) ==
    LET base == BaseTrigger(fn)
    IN  If(fn.lines_in_function > base * 2 ^ verbose_level, linenum, <<"readability", "fn_size">>,
           Level(Log2(fn.lines_in_function \div base)))

(* An unindented name and "(": the name, unless a macro's.                 *)
StartingFunc(line) ==
    LET p == Find(line, "(")
    IN  IF /\ p > 1 /\ \A i \in 1 .. p - 1 : line[i] \in Word
           /\ line[p - 1] \notin Macro \cup {"DISALLOW_COPY_AND_ASSIGN"}
        THEN line[p - 1] ELSE None

(* The state and the errors after this line.  A function starts if a "{"   *)
(* comes before any ";" or "}" line.                                       *)
CheckForFunctionLengths(fn, clean_lines, linenum, verbose_level) ==
    LET lines == clean_lines.lines
        line  == lines[linenum]
        name  == StartingFunc(line)
        body  == SelectInSubSeq(lines, linenum, Len(lines),
                                LAMBDA l : \E t \in {";", "}", "{"} : Has(l, t))
        opens == body > 0 /\ ~Has(lines[body], ";") /\ ~Has(lines[body], "}")
    IN  CASE name # None ->
                 [function_state |-> IF opens THEN Begin(fn, name) ELSE fn,
                  errors |-> If(body = 0, linenum, <<"readability", "fn_size">>, 5)]
          [] name = None /\ line = <<"}">> ->
                 [function_state |-> End(fn), errors |-> Check(fn, verbose_level, linenum)]
          [] OTHER ->
                 [function_state |-> IF IsBlankLine(line) THEN fn ELSE CountLine(fn), errors |-> <<>>]

-----------------------------------------------------------------------------
(* Comments and strings that go on in the next line.                       *)

CheckForMultilineCommentsAndStrings(line, linenum) ==
    If(Count(line, "/*") > Count(line, "*/"), linenum, <<"readability", "multiline_comment">>, 5)
    \o If(Count(line, Quote) % 2 = 1, linenum, <<"readability", "multiline_string">>, 5)

-----------------------------------------------------------------------------
(* CheckBraces.                                                            *)

(* "} else ... " without "{", "else {" without "}", and the first of them  *)
(* with a condition.                                                       *)
OneSidedElse(line) ==
    \E i \in DOMAIN line :
        /\ line[i] = "else"
        /\ \/ i > 1 /\ line[i - 1] = "}" /\ ~Has(From(line, i), "{")
           \/ i < Len(line) /\ line[i + 1] = "{" /\ ~Has(SubSeq(line, 1, i), "}")
ElseIfs(line) == {i \in 1 .. Len(line) - 1 : line[i] = "else" /\ line[i + 1] = "if"}

(* What stands behind the condition of an else if; nothing if it is never  *)
(* closed, for then the end marker is the line.                            *)
BehindCondition(elided, linenum, pos) ==
    LET close == CloseExpression(elided, linenum, pos)
    IN  IF close.pos >= 0 THEN From(elided[close.line], close.pos)
        ELSE <<>>

ElseBraces(elided, linenum) ==
    LET line == elided[linenum]
        long == \E i \in ElseIfs(line) : i > 1 /\ line[i - 1] = "}" /\ ~Has(From(line, i), "{")
        first == CHOOSE i \in ElseIfs(line) : \A j \in ElseIfs(line) : i <= j
        pos  == SelectInSubSeq(line, first, Len(line), LAMBDA t : t = "(")
    IN  IF ~OneSidedElse(line) THEN <<>>
        ELSE If(long => (pos > 0 /\ ~Has(BehindCondition(elided, linenum, pos), "{")),
                linenum, <<"readability", "braces">>, 5)

(* An indented "{ ... };" takes the lines before it up to a ";" with it.   *)
OpensBlock(line)  == Len(line) > 1 /\ line[1] = " " /\ line[2] = "{"
BlockThenSemicolon(line) ==
    \E a, b \in DOMAIN line : a < b /\ b < Len(line) /\ line[a] = "{" /\ line[b] = "}" /\ line[b + 1] = ";"

EndsJoin_Never(prev) == FALSE  \* mutation
EndsJoin(prev) == Has(prev.line, ";")

JoinPrevious(j, elided) ==
    LET prev == GetPreviousNonBlankLine(elided, j.linenum)
    IN  IF OpensBlock(j.line) /\ BlockThenSemicolon(j.line) /\ ~EndsJoin(prev) /\ ~j.done
        THEN [line |-> IF prev.linenum = 0 THEN j.line ELSE prev.line \o strip(j.line), linenum |-> prev.linenum, done |-> FALSE]
        ELSE [j EXCEPT !.done = TRUE]

Joined(elided, linenum) ==
    Iterate(LAMBDA j : JoinPrevious(j, elided),
            [line |-> elided[linenum], linenum |-> linenum, done |-> FALSE], linenum + 1)

(* Before the first code line there is the empty line, again and again.    *)
LoopsForever(elided, linenum) == ~Joined(elided, linenum).done

NeedlessSemicolon(elided, linenum) ==
    LET j == Joined(elided, linenum).line
    IN  /\ BlockThenSemicolon(j)
        /\ Balance(j, "{") = 0
        /\ ~Has(j, "struct") /\ ~Has(j, "class") /\ ~\E a \in 2 .. Len(j) : j[a - 1] = "=" /\ j[a] = "{"

CheckBraces(elided, linenum) ==
    LET line == elided[linenum]
        prev == GetPreviousNonBlankLine(elided, linenum).line
        After(t) == {line[i + 1] : i \in {k \in 1 .. Len(line) - 1 : line[k] = t}}
    IN  If(strip(line) = <<"{">> /\ ~Ends(prev, {";", ":", "}", "{"}) /\ ~StartsIn(prev, Directive),
           linenum, <<"whitespace", "braces">>, 4)
        \o If(Starts(line, <<"else">>) /\ strip(prev) = <<"}">>, linenum, <<"whitespace", "newline">>, 4)
        \o ElseBraces(elided, linenum)
        \o If(After("else") \ {"{"} # {} /\ "if" \notin After("else"), linenum, <<"whitespace", "newline">>, 4)
        \o If(StartsIn(line, {"do"}) /\ Len(strip(line)) > 1 /\ strip(line)[2] # "{",
              linenum, <<"whitespace", "newline">>, 4)

CheckSemicolon(elided, linenum) ==
    If(NeedlessSemicolon(elided, linenum), linenum, <<"readability", "braces">>, 4)

(* The error is reported where the condition ends.                         *)
CheckEmptyLoopBody(elided, linenum) ==
    LET line == elided[linenum]
        loop == StartsIn(line, {"for", "while"}) /\ Len(strip(line)) > 1 /\ strip(line)[2] = "("
        end  == CloseExpression(elided, linenum, Find(line, "("))
    IN  IF ~loop THEN <<>>
        ELSE If(/\ end.pos >= 0 /\ end.pos <= Len(elided[end.line])
                /\ elided[end.line][end.pos] = ";",
                end.line, <<"whitespace", "empty_loop_body">>, 5)

-----------------------------------------------------------------------------
(* Checks that ask the nesting state.                                      *)

CheckAccess(stack, line, linenum) ==
    If(/\ StartsIn(line, {"DISALLOW_COPY_AND_ASSIGN"})
       /\ stack # <<>> /\ Last(stack).kind = "class" /\ Last(stack).access # "private",
       linenum, <<"readability", "constructors">>, 3)

(* A blank line before public:, protected: and private: of a long class.   *)
CheckSectionSpacing(stack, lines, linenum) ==
    LET class == stack[InnermostClass(stack)]
        line  == strip(lines[linenum])
        prev  == lines[linenum - 1]
        heads == {i \in class.starting_linenum .. linenum - 1 : Ends(lines[i], {"{"})}
        head  == IF heads = {} THEN class.starting_linenum
                 ELSE CHOOSE i \in heads : \A j \in heads : i <= j
    IN  IF \/ InnermostClass(stack) = 0
           \/ class.last_line - class.starting_linenum <= SmallClass
           \/ linenum <= class.starting_linenum
        THEN <<>>
        ELSE If(/\ Len(line) > 1 /\ line[1] \in {"public", "protected", "private"} /\ line[2] = ":"
                /\ ~IsBlankLine(prev) /\ ~Has(prev, "class") /\ ~Has(prev, "struct")
                /\ ~Ends(prev, {"\\"}) /\ head < linenum - 1,
                linenum, <<"whitespace", "blank_line">>, 3)

(* A constructor of one argument that is neither explicit nor void nor a   *)
(* copy.                                                                   *)
CheckForNonStandardConstructs(stack, line, linenum) ==
    LET class == stack[InnermostClass(stack)]
        l     == SelectSeq(strip(line), LAMBDA t : t # "inline")
        close == Find(l, ")")
        args  == SubSeq(l, 3, close - 1)
    IN  IF InnermostClass(stack) = 0 \/ ~class.seen_open_brace THEN <<>>
        ELSE If(/\ Indented(line) /\ IsPrefix(<<class.name, "(">>, l) /\ close > 3
                /\ Range(args) \cap {",", "("} = {} /\ args # <<"void">>
                /\ ~IsPrefix(<<class.name, "&">>, args) /\ ~IsPrefix(<<"const", class.name, "&">>, args),
                linenum, <<"runtime", "explicit">>, 5)

CheckOneCommand(elided, linenum) ==
    LET prev == GetPreviousNonBlankLine(elided, linenum).line
    IN  If(/\ Count(elided[linenum], ";") > 1 /\ ~Has(elided[linenum], "for")
           /\ ~Has(prev, "for") \/ Has(prev, ";"),
           linenum, <<"whitespace", "newline">>, 0)

(* CheckStyle, as far as the checks above go: up to the loop in the middle *)
(* of CheckBraces, which may not end, and behind it.                       *)
StyleBefore(elided, linenum) ==
    CheckOneCommand(elided, linenum) \o CheckBraces(elided, linenum)
StyleBehind(stack, clean_lines, linenum) ==
    CheckSemicolon(clean_lines.elided, linenum)
    \o CheckEmptyLoopBody(clean_lines.elided, linenum)
    \o CheckAccess(stack, clean_lines.elided[linenum], linenum)
    \o CheckSectionSpacing(stack, clean_lines.lines, linenum)

-----------------------------------------------------------------------------
(* Checks of the whole file.                                               *)

(* #ifndef, #define and #endif name the guard, or, told only to those who  *)
(* ask for everything, the guard with an underscore more.  The errors with *)
(* a line come after the NOLINT of that line is read.                      *)
CheckForHeaderGuard(text, cppvar) ==
    LET First(d) == LET n == SelectInSeq(text, LAMBDA l : Starts(l, <<d>>) /\ Len(strip(l)) > 1)
                    IN  [linenum |-> n, guard |-> IF n = 0 THEN None ELSE strip(text[n])[2]]
        ifndef == First("#ifndef")
        define == First("#define")
        endif  == SelectLastInSeq(text, LAMBDA l : l # <<>> /\ l[1] = "#endif")
        line   == IF endif = 0 THEN <<>> ELSE text[endif]
        cppvar_ == cppvar \o "_"
        wrong(P, linenum, level) == If(P, linenum, <<"build", "header_guard">>, level)
    IN  IF ifndef.guard = None \/ define.guard = None THEN wrong(TRUE, 0, 5)
        ELSE wrong(ifndef.guard # cppvar, ifndef.linenum, IF ifndef.guard = cppvar_ THEN 0 ELSE 5)
             \o IF define.guard # ifndef.guard THEN wrong(TRUE, 0, 5)
                ELSE wrong(line # <<"#endif", "//", cppvar>>, endif,
                           IF line = <<"#endif", "//", cppvar_>> THEN 0 ELSE 5)

CheckForCopyright(text) ==
    If(~\E n \in DOMAIN text : n <= CopyrightLines /\ Has(text[n], "Copyright"),
       0, <<"legal", "copyright">>, 5)

CheckForUnicodeReplacementCharacters(text) ==
    FoldLeftDomain(LAMBDA es, n : es \o If(Has(text[n], "U+FFFD"), n, <<"readability", "utf8">>, 5),
                   <<>>, text)

(* The text ends with an empty line if it ends with a newline.             *)
CheckForNewlineAtEOF(text) ==
    If(text = <<>> \/ Last(text) # <<>>, Len(text), <<"whitespace", "ending_newline">>, 5)
=============================================================================
