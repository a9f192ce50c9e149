-------------------------------- MODULE Lint --------------------------------
(***************************************************************************)
(* The program scripts/cpplint.py, which scripts/presubmit.sh runs over    *)
(* the sources before a change is submitted: the command line, then file   *)
(* by file and line by line, then the exit status.                         *)
(*                                                                         *)
(* A corpus is one use of the program: its options, its file names and the *)
(* texts each file may hold, none for a file that cannot be opened.        *)
(***************************************************************************)
EXTENDS LintErrors, LintIncludes, LintChecks

CONSTANTS
    Corpora,    \* corpus -> [opts, filenames, texts : file -> set of texts]
    Extension,  \* file -> what follows the last dot of its name
    CppVar,     \* header file -> the name its guard should have
    TestFile    \* the files whose names say they are tests

ASSUME CorporaAssumption ==
    \A c \in DOMAIN Corpora :
        /\ Range(Corpora[c].filenames) = DOMAIN Corpora[c].texts
        /\ IsInjective(Corpora[c].filenames)
        /\ \A f \in DOMAIN Corpora[c].texts : <<>> \notin Corpora[c].texts[f]   \* split("\n") gives a line
ASSUME NamesAssumption == Name \cap (Macro \cup Keyword) = {} /\ Macro \cap Keyword = {}

VARIABLES
    pc,             \* "start", "files", "lines", "looping" or "exit"
    corpus,
    filenames,      \* those not opened yet
    file,           \* the current one, then the last; None before the first
    clean_lines,    \* of that file: no lines before the first
    carriage_return_found,
    line,           \* of the file, to be processed next
    include_state,
    function_state,
    nesting_state,
    suppressions,   \* _error_suppressions
    log,            \* _cpplint_state, what was reported and what was printed
    status          \* what the program exits with, -1 until then

perFile == <<clean_lines, carriage_return_found, include_state, function_state, nesting_state,
             suppressions>>
vars == <<pc, corpus, filenames, file, line, log, status, perFile>>

Init ==
    /\ pc = "start"
    /\ corpus \in DOMAIN Corpora
    /\ filenames = Corpora[corpus].filenames
    /\ file = None
    /\ clean_lines = CleansedLines(<<>>)
    /\ carriage_return_found = FALSE
    /\ line = 1
    /\ include_state = IncludeState
    /\ function_state = FunctionState
    /\ nesting_state = NestingState
    /\ suppressions = {}
    /\ log = [state |-> CppLintState, reported |-> <<>>, printed |-> <<>>]
    /\ status = -1

-----------------------------------------------------------------------------
(* r is a file, the log and the suppressions in force: what a check leaves *)
(* behind when it reports es or reads the NOLINT of a line.                *)

Report(r, es) == [r EXCEPT !.log = Errors(@, r.suppressions, r.file, es)]

ReadNolint(r, raw_line, linenum) ==
    LET p == ParseNolintSuppressions(raw_line, linenum)
    IN  [Report(r, p.errors) EXCEPT !.suppressions = @ \cup p.adds]

ReportGuard(r, text, es) ==
    FoldLeft(LAMBDA s, e : Report(IF e.linenum > 0 THEN ReadNolint(s, text[e.linenum], e.linenum) ELSE s,
                                  <<e>>),
             r, es)

ResetNolintSuppressions_Never(old) == old  \* mutation
ResetNolintSuppressions(old) == {}

WithoutReturns(text) ==
    [n \in DOMAIN text |-> IF Ends(text[n], {"\r"}) THEN Front(text[n]) ELSE text[n]]

-----------------------------------------------------------------------------
(* main                                                                    *)

ReadArguments ==
    LET p == ParseArguments(log.state, Corpora[corpus].opts, Corpora[corpus].filenames)
    IN  /\ pc = "start"
        /\ pc' = IF p.exit >= 0 THEN "exit" ELSE "files"
        /\ status' = p.exit
        /\ log' = [log EXCEPT !.state = p.state]
        /\ UNCHANGED <<corpus, filenames, file, line, perFile>>

(* ProcessFile of a file that cannot be opened or is not C++.              *)
SkipFile ==
    /\ pc = "files"
    /\ filenames # <<>>
    /\ Corpora[corpus].texts[Head(filenames)] = {} \/ Extension[Head(filenames)] \notin {"cc", "h", "cpp"}
    /\ filenames' = Tail(filenames)
    /\ UNCHANGED <<pc, corpus, file, line, log, status, perFile>>

(* ProcessFile and ProcessFileData up to the loop over the lines.          *)
OpenFile ==
    /\ pc = "files"
    /\ filenames # <<>>
    /\ Extension[Head(filenames)] \in {"cc", "h", "cpp"}
    /\ file' = Head(filenames)
    /\ filenames' = Tail(filenames)
    /\ \E read \in Corpora[corpus].texts[file'] :
        LET text  == WithoutReturns(read)
            fresh == [file |-> file', log |-> log,
                      suppressions |-> ResetNolintSuppressions(suppressions)]
            r1    == Report(fresh, CheckForCopyright(text))
            r2    == IF Extension[file'] = "h"
                     THEN ReportGuard(r1, text, CheckForHeaderGuard(text, CppVar[file'])) ELSE r1
            left  == RemoveMultiLineComments(text)
            r3    == Report(r2, If(left.lost > 0, left.lost, <<"readability", "multiline_comment">>, 5))
        IN  /\ clean_lines' = CleansedLines(left.text)
            /\ carriage_return_found' = (text # read)
            /\ log' = r3.log
            /\ suppressions' = r3.suppressions
    /\ include_state' = IncludeState
    /\ function_state' = FunctionState
    /\ nesting_state' = NestingState
    /\ line' = 1
    /\ pc' = "lines"
    /\ UNCHANGED <<corpus, status>>

(* ProcessLine: nothing is checked in inline assembly, and the loop in     *)
(* CheckBraces may not end.                                                *)
ProcessLine ==
    LET elided == clean_lines.elided
        r0  == [file |-> file, log |-> log, suppressions |-> suppressions]
        r1  == ReadNolint(r0, clean_lines.raw_lines[line], line)
        u   == Update(nesting_state, clean_lines, line)
        r2  == Report(r1, u.errors)
        fun == CheckForFunctionLengths(function_state, clean_lines, line, log.state.verbose_level)
        r3  == Report(r2, fun.errors \o CheckForMultilineCommentsAndStrings(elided[line], line)
                          \o StyleBefore(elided, line))
        inc == IF IsInclude(elided[line])
               THEN CheckIncludeLine(include_state, file, clean_lines.lines[line], line, file \in TestFile)
               ELSE [include_state |-> include_state, errors |-> <<>>]
        r4  == Report(r3, StyleBehind(u.nest.stack, clean_lines, line) \o inc.errors
                          \o CheckForNonStandardConstructs(u.nest.stack, clean_lines.lines[line], line))
        Leaves(r) == log' = r.log /\ suppressions' = r.suppressions
    IN  /\ pc = "lines"
        /\ line <= Len(elided)
        /\ nesting_state' = u.nest
        /\ \/ /\ InlineAsm(u.nest.stack) # "no"
              /\ Leaves(r2)
              /\ line' = line + 1
              /\ UNCHANGED <<pc, include_state, function_state>>
           \/ /\ InlineAsm(u.nest.stack) = "no"
              /\ LoopsForever(elided, line)
              /\ Leaves(r3)
              /\ function_state' = fun.function_state
              /\ pc' = "looping"
              /\ UNCHANGED <<line, include_state>>
           \/ /\ InlineAsm(u.nest.stack) = "no"
              /\ ~LoopsForever(elided, line)
              /\ Leaves(r4)
              /\ function_state' = fun.function_state
              /\ include_state' = inc.include_state
              /\ line' = line + 1
              /\ pc' = pc
        /\ UNCHANGED <<corpus, filenames, file, clean_lines, carriage_return_found, status>>

(* The loop of CheckBraces joins the empty line to the front for ever.     *)
JoinForever == pc = "looping" /\ UNCHANGED vars

(* The rest of ProcessFileData and of ProcessFile.                         *)
CloseFile ==
    LET raw == clean_lines.raw_lines
        r   == [file |-> file, log |-> log, suppressions |-> suppressions]
    IN  /\ pc = "lines"
        /\ line > Len(raw)
        /\ log' = Report(r, CheckClassFinished(nesting_state)
                            \o CheckForIncludeWhatYouUse(clean_lines.elided, include_state.include, file,
                                                         Extension[file] = "cc")
                            \o CheckForUnicodeReplacementCharacters(raw)
                            \o CheckForNewlineAtEOF(raw)
                            \o If(carriage_return_found, 0, <<"whitespace", "newline">>, 1)).log
        /\ pc' = "files"
        /\ UNCHANGED <<corpus, filenames, file, line, status, perFile>>

Exit ==
    /\ pc = "files"
    /\ filenames = <<>>
    /\ status' = IF log.state.error_count > 0 THEN 1 ELSE 0
    /\ pc' = "exit"
    /\ UNCHANGED <<corpus, filenames, file, line, log, perFile>>

Exited == pc = "exit" /\ UNCHANGED vars

Next == ReadArguments \/ SkipFile \/ OpenFile \/ ProcessLine \/ JoinForever \/ CloseFile \/ Exit \/ Exited

Spec == Init /\ [][Next]_vars

(* The program runs by itself: WF_vars(Next), written out with the states  *)
(* in which no step changes anything.                                      *)
FairSpec == Spec /\ ([]<><<TRUE>>_vars \/ <>[](pc \in {"looping", "exit"}))

-----------------------------------------------------------------------------
(* Properties                                                              *)

Errorlike == [linenum : Nat, category : ErrorCategories, confidence : Nat]

(* The variables stay in their types, and only what the code knows as a    *)
(* category is ever reported.                                              *)
TypeOK ==
    /\ pc \in {"start", "files", "lines", "looping", "exit"}
    /\ status \in {-1, 0, 1} /\ (status >= 0 <=> pc = "exit")
    /\ IsSuffix(filenames, Corpora[corpus].filenames)
    /\ pc \in {"lines", "looping"} => file \in Range(Corpora[corpus].filenames)
    /\ line \in 1 .. Len(clean_lines.raw_lines) + 1
    /\ \A s \in suppressions : s[1] \in ErrorCategories \cup {AllCategories} /\ s[2] \in Nat
    /\ \A i \in DOMAIN log.reported :
           log.reported[i][1] \in Range(Corpora[corpus].filenames) /\ log.reported[i][2] \in Errorlike

(* What the options say about an error, without the program's state: the   *)
(* last value given for an option counts, and of the filters the last that *)
(* fits.                                                                   *)
Given(o, default) ==
    LET i == SelectLastInSeq(Corpora[corpus].opts, LAMBDA p : p[1] = o)
    IN  IF i = 0 THEN default ELSE Corpora[corpus].opts[i][2]
Filtered(category) ==
    LET filters == DefaultFilters \o Given("filter", <<>>)
        i == SelectLastInSeq(filters, LAMBDA f : IsPrefix(f.prefix, category))
    IN  i > 0 /\ filters[i].sign = "-"
Asked(e) == e.confidence >= Given("verbose", 1) /\ ~Filtered(e.category)

(* The first NOLINT on a line speaks for that line of that file.           *)
Excused(e) ==
    /\ e.linenum \in DOMAIN clean_lines.raw_lines
    /\ NolintTokens(clean_lines.raw_lines[e.linenum]) # <<>>
    /\ NolintCategory[Head(NolintTokens(clean_lines.raw_lines[e.linenum]))] \in {e.category, AllCategories}

(* Reported before the program has come to the line the error is on, and   *)
(* so before it knows of that line's NOLINT.                               *)
Ahead(e) == e.category \in {<<"whitespace", "empty_loop_body">>, <<"readability", "multiline_comment">>}

OfFile(es) == SelectSeq(es, LAMBDA fe : fe[1] = file)

(* Every error a check finds in the current file is printed if the options *)
(* ask for it and its line has no NOLINT, in the order found, whatever the *)
(* files before it held; one excused is printed only when it was found     *)
(* ahead of its line.  The counts and the exit status are of those printed.*)
Told ==
    /\ LET mine == OfFile(log.reported)
           must == SelectSeq(mine, LAMBDA fe : Asked(fe[2]) /\ ~Excused(fe[2]))
           may  == SelectSeq(mine, LAMBDA fe : Asked(fe[2]) /\ (Excused(fe[2]) => Ahead(fe[2])))
           told == OfFile(log.printed)
       IN  /\ Range(must) \subseteq Range(told) /\ Range(told) \subseteq Range(may)
           /\ SelectSeq(told, LAMBDA fe : ~Ahead(fe[2])) = SelectSeq(must, LAMBDA fe : ~Ahead(fe[2]))
    /\ log.state.error_count = Len(log.printed)
    /\ pc = "exit" /\ file # None => (status = 1 <=> log.printed # <<>>)

-----------------------------------------------------------------------------
(* The conditionals of the lines before n that are open, innermost last:   *)
(* TRUE in the first branch.                                               *)
Branches(n) ==
    LET elided == clean_lines.elided
        b[k \in 0 .. n - 1] ==
            CASE k = 0 -> <<>>
              [] k > 0 /\ StartsIn(elided[k], {"#if", "#ifdef", "#ifndef"}) -> Append(b[k - 1], TRUE)
              [] k > 0 /\ StartsIn(elided[k], {"#else", "#elif"}) /\ b[k - 1] # <<>> ->
                     Append(Front(b[k - 1]), FALSE)
              [] k > 0 /\ StartsIn(elided[k], {"#endif"}) /\ b[k - 1] # <<>> -> Front(b[k - 1])
              [] OTHER -> b[k - 1]
    IN  b[n - 1]

(* The code before line n with every branch but the first of a conditional *)
(* left out, the braces open behind it, and whether a class or namespace   *)
(* in it meets a "}" before its own "{" or the end of its declaration.     *)
FirstBranches(n) ==
    FlattenSeq([k \in 1 .. n - 1 |-> IF FALSE \in Range(Branches(k + 1)) THEN <<>> ELSE clean_lines.elided[k]])
BracesOpen(code) ==
    FoldLeft(LAMBDA d, t : CASE t = "{" -> d + 1 [] t = "}" /\ d > 0 -> d - 1 [] OTHER -> d, 0, code)
HeadCut(code) ==
    \E i, j \in DOMAIN code :
        /\ i < j /\ code[i] \in {"class", "struct", "namespace"} /\ code[j] = "}"
        /\ \A k \in i .. j : code[k] \notin {"{", ";", ")"}

(* Outside of alternative branches the nesting stack has one entry for     *)
(* every brace open in the code that the first branches make, whatever the *)
(* others open or close.                                                   *)
NestedAsFirstBranches ==
    pc = "lines" /\ FALSE \notin Range(Branches(line)) /\ ~HeadCut(FirstBranches(line)) =>
        Len(SelectSeq(nesting_state.stack, LAMBDA b : b.seen_open_brace)) = BracesOpen(FirstBranches(line))

-----------------------------------------------------------------------------
(* The headers included before line n, each at its first line.             *)
FirstIncludes(n) ==
    SelectSeq([k \in 1 .. n - 1 |-> k],
              LAMBDA k : /\ IsInclude(clean_lines.elided[k])
                         /\ ~\E j \in 1 .. k - 1 : /\ IsInclude(clean_lines.elided[j])
                                                   /\ strip(clean_lines.lines[j])[3] = strip(clean_lines.lines[k])[3])
TypeAt(k) ==
    LET l == strip(clean_lines.lines[k]) IN ClassifyInclude(file, l[3], l[2] = "<")

(* A header of the file's own counts as another one behind any other kind. *)
Behind(type, k, firsts) ==
    LET own    == {LIKELY_MY, POSSIBLE_MY}
        before == {j \in Range(firsts) : j < k}
        other  == \E j \in before : \/ TypeAt(j) = OTHER_HEADER
                                   \/ /\ TypeAt(j) \in own
                                      /\ \E i \in before : i < j /\ TypeAt(i) \notin own
    IN  \/ other
        \/ type = C_SYS /\ \E j \in before : TypeAt(j) = CPP_SYS

(* A system header is reported as out of order exactly if, at its first    *)
(* place, it comes behind one of a later section: own, C, C++, other.      *)
OrderedIncludes ==
    pc = "lines" =>
        LET firsts   == FirstIncludes(line)
            late     == {k \in Range(firsts) :
                            TypeAt(k) \in {C_SYS, CPP_SYS} /\ Behind(TypeAt(k), k, firsts)}
            reported == {fe[2].linenum : fe \in
                            {x \in Range(log.reported) :
                                x[1] = file /\ x[2].category = <<"build", "include", "_order">>}}
        IN  late = reported

-----------------------------------------------------------------------------
(* The function whose end line n is: the last one that begins before it,   *)
(* with no end of another between them; 0 for none.                        *)
FunctionAt(n) ==
    LET lines == clean_lines.lines
        opens(i) == LET b == SelectInSubSeq(lines, i, Len(lines), LAMBDA l : \E t \in {";", "}", "{"} : Has(l, t))
                    IN  b > 0 /\ ~Has(lines[b], ";") /\ ~Has(lines[b], "}")
    IN  Max({0} \cup {k \in 1 .. n - 1 : /\ StartingFunc(lines[k]) # None /\ opens(k)
                                        /\ \A j \in k .. n - 1 : lines[j] # <<"}">>})

(* Each unindented function whose lines of code between the line it begins *)
(* on and its "}" are more than 2^verbosity times what is allowed is       *)
(* reported there, once, with the number of doublings as its confidence,   *)
(* five at most; no other function is.                                     *)
LongFunctions ==
    pc = "lines" /\ (\A i \in DOMAIN clean_lines.elided : ~MatchAsm(clean_lines.elided[i])) =>
        \A n \in 1 .. line - 1 : clean_lines.lines[n] = <<"}">> /\ FunctionAt(n) > 0 =>
            LET lines  == clean_lines.lines
                begin  == FunctionAt(n)
                length == Cardinality({k \in begin + 1 .. n - 1 :
                                          ~IsBlankLine(lines[k]) /\ StartingFunc(lines[k]) = None})
                allowed == IF StartingFunc(lines[begin]) = "TEST" THEN TestTrigger ELSE NormalTrigger
                told   == SelectSeq(log.reported,
                                    LAMBDA fe : /\ fe[1] = file /\ fe[2].linenum = n
                                                /\ fe[2].category = <<"readability", "fn_size">>)
            IN  IF length <= allowed * 2 ^ Given("verbose", 1) THEN told = <<>>
                ELSE /\ Len(told) = 1
                     /\ LET doublings == told[1][2].confidence
                        IN  /\ doublings <= 5 /\ allowed * 2 ^ doublings <= length
                            /\ doublings < 5 => length < allowed * 2 ^ (doublings + 1)

-----------------------------------------------------------------------------
(* The file has an indented "{ ... };" with nothing before it but lines of *)
(* the same kind that have no ";".                                         *)
StartsWithBlock ==
    LET elided == clean_lines.elided
    IN  \E n \in DOMAIN elided :
           /\ OpensBlock(elided[n]) /\ BlockThenSemicolon(elided[n])
           /\ \A m \in 1 .. n - 1 : IsBlankLine(elided[m]) \/ (OpensBlock(elided[m]) /\ ~Has(elided[m], ";"))

(* The program ends, unless a file starts with an indented block and its   *)
(* semicolon, before which CheckBraces joins empty lines for ever.         *)
Finishes == <>(pc = "exit" \/ StartsWithBlock)
=============================================================================
