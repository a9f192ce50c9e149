----------------------------- MODULE LintErrors -----------------------------
(***************************************************************************)
(* What cpplint.py does with an error a check reports: NOLINT comments,    *)
(* confidence and filters decide whether it is printed and counted.  Also  *)
(* the command line that sets them up.  A category is a sequence, so that  *)
(* a filter's string is a prefix of it: <<"build", "include", "_order">>.  *)
(***************************************************************************)
EXTENDS Integers, Sequences, SequencesExt

CONSTANT
    NolintCategory  \* token of a NOLINT comment -> what is in its parentheses

AllCategories == <<"*">>    \* the key None of _error_suppressions

(* The tails of the categories of each kind.                               *)
CategoryTails == [
    build |-> {<<"class">>, <<"deprecated">>, <<"endif_comment">>, <<"explicit_make_pair">>,
        <<"forward_decl">>, <<"header_guard">>, <<"include">>, <<"include", "_alpha">>,
        <<"include", "_order">>, <<"include", "_what_you_use">>, <<"namespaces">>,
        <<"printf_format">>, <<"storage_class">>},
    legal |-> {<<"copyright">>},
    readability |-> {<<"alt_tokens">>, <<"braces">>, <<"casting">>, <<"check">>,
        <<"constructors">>, <<"fn_size">>, <<"function">>, <<"multiline_comment">>,
        <<"multiline_string">>, <<"namespace">>, <<"nolint">>, <<"streams">>, <<"todo">>,
        <<"utf8">>},
    runtime |-> {<<"arrays">>, <<"casting">>, <<"explicit">>, <<"int">>, <<"init">>,
        <<"invalid_increment">>, <<"member_string_references">>, <<"memset">>, <<"operator">>,
        <<"printf">>, <<"printf", "_format">>, <<"references">>, <<"rtti">>, <<"sizeof">>,
        <<"string">>, <<"threadsafe_fn">>},
    whitespace |-> {<<"blank_line">>, <<"braces">>, <<"comma">>, <<"comments">>,
        <<"empty_loop_body">>, <<"end_of_line">>, <<"ending_newline">>, <<"forcolon">>,
        <<"indent">>, <<"labels">>, <<"line_length">>, <<"newline">>, <<"operators">>,
        <<"parens">>, <<"semicolon">>, <<"tab">>, <<"todo">>}]

ErrorCategories == UNION {{<<k>> \o t : t \in CategoryTails[k]} : k \in DOMAIN CategoryTails}

DefaultFilters == <<[sign |-> "-", prefix |-> <<"build", "include", "_alpha">>]>>

-----------------------------------------------------------------------------
(* NOLINT.  Suppressions are pairs of a category and a line number.        *)

NolintTokens(raw_line) == SelectSeq(raw_line, LAMBDA t : t \in DOMAIN NolintCategory)

Known_Any(category) == TRUE  \* mutation
Known(category) == category \in ErrorCategories \cup {AllCategories}

(* The first NOLINT of the line, the suppression it makes and the error it *)
(* makes instead if it names no category.                                  *)
ParseNolintSuppressions(raw_line, linenum) ==
    LET found == NolintTokens(raw_line)
        named == NolintCategory[Head(found)]
    IN  CASE found = <<>> -> [adds |-> {}, errors |-> <<>>]
          [] found # <<>> /\ Known(named) ->
                 [adds |-> {<<named, linenum>>}, errors |-> <<>>]
          [] OTHER ->
                 [adds   |-> {},
                  errors |-> <<[linenum |-> linenum, category |-> <<"readability", "nolint">>,
                                confidence |-> 5]>>]

IsErrorSuppressedByNolint(suppressions, category, linenum) ==
    {<<category, linenum>>, <<AllCategories, linenum>>} \cap suppressions # {}

-----------------------------------------------------------------------------
(* The state all files share: _cpplint_state and what was written.         *)

CppLintState == [
    verbose_level      |-> 1,
    error_count        |-> 0,
    filters            |-> DefaultFilters,
    counting           |-> "total",
    errors_by_category |-> <<>>,    \* a function, empty at first
    output_format      |-> "emacs"]

(* Filters apply from the left; each one that fits overrides the verdict.  *)
IsFiltered_First(filters, category) ==  \* mutation
    LET i == SelectInSeq(filters, LAMBDA f : IsPrefix(f.prefix, category))
    IN  i > 0 /\ filters[i].sign = "-"
IsFiltered(filters, category) ==
    FoldLeft(LAMBDA is_filtered, f : IF IsPrefix(f.prefix, category) THEN f.sign = "-" ELSE is_filtered,
             FALSE, filters)

ShouldPrintError(state, suppressions, e) ==
    /\ ~IsErrorSuppressedByNolint(suppressions, e.category, e.linenum)
    /\ e.confidence >= state.verbose_level
    /\ ~IsFiltered(state.filters, e.category)

Bump(counts, category) ==
    [c \in DOMAIN counts \cup {category} |->
        (IF c \in DOMAIN counts THEN counts[c] ELSE 0) + IF c = category THEN 1 ELSE 0]

IncrementErrorCount(state, category) ==
    [state EXCEPT
        !.error_count = @ + 1,
        !.errors_by_category =
            CASE state.counting = "toplevel" -> Bump(@, SubSeq(category, 1, 1))
              [] state.counting = "detailed" -> Bump(@, category)
              [] OTHER                       -> @]

(* Error.  log is the state with what has been printed and, beyond the     *)
(* code, every error that was reported with the file it was about.         *)
Error(log, suppressions, file, e) ==
    LET told == [log EXCEPT !.reported = Append(@, <<file, e>>)]
    IN  IF ShouldPrintError(log.state, suppressions, e)
        THEN [told EXCEPT !.state = IncrementErrorCount(@, e.category),
                          !.printed = Append(@, <<file, e>>)]
        ELSE told

Errors(log, suppressions, file, es) ==
    FoldLeft(LAMBDA l, e : Error(l, suppressions, file, e), log, es)

-----------------------------------------------------------------------------
(* The command line.  An option is a pair of a name and a value; exit is   *)
(* the status with which the program ends at once, or -1.                  *)

Refused(o) ==
    \/ o[1] = "help"
    \/ o[1] = "output" /\ o[2] \notin {"emacs", "vs7"}
    \/ o[1] = "counting" /\ o[2] \notin {"total", "toplevel", "detailed"}

OneOption(p, o) ==
    CASE p.exit >= 0                    -> p
      [] p.exit < 0 /\ Refused(o)       -> [p EXCEPT !.exit = 1]    \* PrintUsage
      [] p.exit < 0 /\ o = <<"filter", <<>>>> -> [p EXCEPT !.exit = 0]    \* PrintCategories
      [] OTHER                          -> [p EXCEPT ![o[1]] = o[2]]

(* The setters of ParseArguments.  Every filter must have a sign.          *)
SetFilters_FlagsFirst(state, given) ==  \* mutation
    [state EXCEPT !.filters = given \o DefaultFilters]
SetFilters(state, given) == [state EXCEPT !.filters = DefaultFilters \o given]

ParseArguments(state, opts, filenames) ==
    LET p == FoldLeft(OneOption,
                      [exit |-> -1, verbose |-> state.verbose_level, output |-> state.output_format,
                       filter |-> <<>>, counting |-> ""], opts)
        set == [SetFilters(state, p.filter) EXCEPT
                    !.output_format = p.output, !.verbose_level = p.verbose, !.counting = p.counting]
        fails == \/ filenames = <<>>
                 \/ \E f \in Range(set.filters) : f.sign = ""    \* ValueError
    IN  CASE \E o \in Range(opts) : o[1] = "unknown" -> [exit |-> 1, state |-> state]
          [] OTHER ->
                 [exit  |-> IF p.exit >= 0 THEN p.exit ELSE IF fails THEN 1 ELSE -1,
                  state |-> IF p.exit >= 0 \/ fails THEN state ELSE set]
=============================================================================
