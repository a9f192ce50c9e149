----------------------------- MODULE LintNesting ----------------------------
(***************************************************************************)
(* _NestingState of cpplint.py: the stack of open namespaces, classes and  *)
(* blocks, and what becomes of it in #if and #else.                        *)
(***************************************************************************)
EXTENDS CppLines

CONSTANT
    NamespaceLimit  \* lines from which a namespace needs a closing comment: 10 in the code

None == ""

(* _BlockInfo, _ClassInfo and _NamespaceInfo; fields a kind has not are 0  *)
(* or None.  is_derived is never read and left out.                        *)
BlockInfo(seen_open_brace, inline_asm) ==
    [kind |-> "block", name |-> None, seen_open_brace |-> seen_open_brace, open_parentheses |-> 0,
     inline_asm |-> inline_asm, starting_linenum |-> 0, access |-> None, last_line |-> 0]

NamespaceInfo(name, linenum) ==
    [BlockInfo(FALSE, "no") EXCEPT
        !.kind = "namespace", !.name = name, !.starting_linenum = linenum]

(* The first line on which the braces counted from the class head balance. *)
LastLine(elided, linenum) ==
    LET depth[k \in linenum - 1 .. Len(elided)] ==
            IF k < linenum THEN 0 ELSE depth[k - 1] + Balance(elided[k], "{")
        ends == {k \in linenum .. Len(elided) : depth[k] = 0}
    IN  IF ends = {} THEN 0 ELSE CHOOSE k \in ends : \A l \in ends : k <= l

ClassInfo(name, class_or_struct, elided, linenum) ==
    [BlockInfo(FALSE, "no") EXCEPT
        !.kind = "class", !.name = name, !.starting_linenum = linenum,
        !.access = IF class_or_struct = "struct" THEN "public" ELSE "private",
        !.last_line = LastLine(elided, linenum)]

(* stack and pp_stack; saved are the checkpoints of the open #ifs.         *)
NestingState == [stack |-> <<>>, pp_stack |-> <<>>]

SeenOpenBrace(stack)  == stack = <<>> \/ Last(stack).seen_open_brace
InlineAsm(stack)      == IF stack = <<>> THEN "no" ELSE Last(stack).inline_asm
SetTop(stack, top)    == Append(Front(stack), top)

InnermostClass(stack) ==
    SelectLastInSeq(stack, LAMBDA b : b.kind = "class")     \* its place, or 0

-----------------------------------------------------------------------------
(* Conditionals.  What comes up to the first #else counts; each further    *)
(* branch starts again from the stack before the #if and is forgotten at   *)
(* the #endif.                                                             *)

KeepsFirst_Latest(pp) == TRUE  \* mutation
KeepsFirst(pp) == ~pp.seen_else

UpdatePreprocessor(nest, line) ==
    LET pp     == Last(nest.pp_stack)
        inside == nest.pp_stack # <<>>
    IN  CASE StartsIn(line, {"#if", "#ifdef", "#ifndef"}) ->
                 [nest EXCEPT !.pp_stack = Append(@,
                     [stack_before_if |-> nest.stack, stack_before_else |-> <<>>, seen_else |-> FALSE])]
          [] StartsIn(line, {"#else", "#elif"}) /\ inside ->
                 [stack    |-> pp.stack_before_if,
                  pp_stack |-> IF KeepsFirst(pp)
                               THEN SetTop(nest.pp_stack,
                                           [pp EXCEPT !.seen_else = TRUE, !.stack_before_else = nest.stack])
                               ELSE nest.pp_stack]
          [] StartsIn(line, {"#endif"}) /\ inside ->
                 [stack    |-> IF pp.seen_else THEN pp.stack_before_else ELSE nest.stack,
                  pp_stack |-> Front(nest.pp_stack)]
          [] OTHER -> nest

-----------------------------------------------------------------------------
(* Update, part by part.  u holds the stack, the rest of the line and the  *)
(* errors so far.                                                          *)

MatchAsm(line) ==
    LET l == strip(line)
    IN  /\ l # <<>> /\ l[1] = "asm"
        /\ \E i \in {2, 3} : /\ i <= Len(l) /\ l[i] \in {"(", "{"}
                             /\ i = 3 => l[2] = "volatile"

CountParentheses(stack, line) ==
    LET change == Balance(line, "(")
        top    == Last(stack)
        open   == top.open_parentheses + change
    IN  IF stack = <<>> THEN stack
        ELSE SetTop(stack, [top EXCEPT
                 !.open_parentheses = open,
                 !.inline_asm =
                     CASE @ \in {"no", "end"} /\ change # 0 /\ open = 1 /\ MatchAsm(line) -> "inside"
                       [] @ \in {"no", "end"} /\ ~(change # 0 /\ open = 1 /\ MatchAsm(line)) -> "no"
                       [] @ = "inside" /\ open = 0 -> "end"
                       [] OTHER -> @])

(* One namespace at the front of the line.                                 *)
OpenNamespace(u, linenum) ==
    LET l     == strip(u.line)
        named == Len(l) > 1 /\ l[2] \in Word
        rest  == From(l, IF named THEN 3 ELSE 2)
        brace == Find(rest, "{")
    IN  IF ~Starts(u.line, <<"namespace">>) THEN u
        ELSE [u EXCEPT
                 !.stack = Append(@, [NamespaceInfo(IF named THEN l[2] ELSE None, linenum)
                                          EXCEPT !.seen_open_brace = brace > 0]),
                 !.line  = IF brace > 0 THEN From(rest, brace + 1) ELSE rest]

(* A class or struct at the front; not one in the arguments of a function, *)
(* nor one that "=" or ">" shows to be a template's.                       *)
OpenClass(u, elided, linenum) ==
    LET l == strip(u.line)
    IN  IF /\ Len(l) > 1 /\ l[1] \in {"class", "struct"} /\ l[2] \in Word
           /\ ~Has(l, "=") /\ ~Has(l, ">")
           /\ u.stack = <<>> \/ Last(u.stack).open_parentheses = 0
        THEN [u EXCEPT !.stack = Append(@, ClassInfo(l[2], l[1], elided, linenum)),
                       !.line  = From(l, 3)]
        ELSE u

SetAccess(u) ==
    LET l == strip(u.line)
    IN  IF /\ u.stack # <<>> /\ Last(u.stack).kind = "class"
           /\ Len(l) > 1 /\ l[1] \in {"public", "protected", "private"} /\ l[2] = ":"
        THEN [u EXCEPT !.stack = SetTop(@, [Last(@) EXCEPT !.access = l[1]])]
        ELSE u

(* _NamespaceInfo.CheckEnd: the comment behind the closing brace, which    *)
(* may be missing after few lines but not be wrong.                        *)
CheckEnd(block, raw_line, linenum) ==
    LET c       == SelectInSeq(raw_line, LAMBDA t : t \in {"//", "/*"})
        comment == IF c > 1 /\ raw_line[1] = "}" /\ \A i \in 2 .. c - 1 : raw_line[i] = ";"
                   THEN From(raw_line, c + 1) ELSE <<>>
        tail    == SelectSeq(comment, LAMBDA t : t # "*/")
        right   == IF block.name = None THEN <<"namespace">> ELSE <<"namespace", block.name>>
    IN  IF /\ block.kind = "namespace"
           /\ linenum - block.starting_linenum >= NamespaceLimit \/ Has(comment, "namespace")
           /\ ~IsSuffix(right, tail)
        THEN <<[linenum |-> linenum, category |-> <<"readability", "namespace">>, confidence |-> 5]>>
        ELSE <<>>

(* The first brace, semicolon or closed parenthesis of what is left.  A    *)
(* head still without its brace ends at ";" or ")": a declaration, or an   *)
(* argument.                                                               *)
ConsumeToken(u, raw_line, linenum) ==
    LET i     == SelectInSeq(u.line, LAMBDA t : t \in {"{", ";", ")", "}"})
        token == u.line[i]
        top   == Last(u.stack)
        gone  == [u EXCEPT !.line = From(@, i + 1)]
    IN  CASE i = 0 -> u
          [] i > 0 /\ token = "{" /\ ~SeenOpenBrace(u.stack) ->
                 [gone EXCEPT !.stack = SetTop(@, [top EXCEPT !.seen_open_brace = TRUE])]
          [] i > 0 /\ token = "{" /\ SeenOpenBrace(u.stack) ->
                 [gone EXCEPT !.stack = Append(@, BlockInfo(TRUE, IF MatchAsm(u.line) THEN "block" ELSE "no"))]
          [] i > 0 /\ token \in {";", ")"} /\ ~SeenOpenBrace(u.stack) ->
                 [gone EXCEPT !.stack = Front(@)]
          [] i > 0 /\ token = "}" /\ u.stack # <<>> ->
                 [gone EXCEPT !.stack = Front(@), !.errors = @ \o CheckEnd(top, raw_line, linenum)]
          [] OTHER -> gone

Update(nest, clean_lines, linenum) ==
    LET line   == clean_lines.elided[linenum]
        nest1  == UpdatePreprocessor(nest, line)
        start  == [stack |-> CountParentheses(nest1.stack, line), line |-> line, errors |-> <<>>]
        spaces == Iterate(LAMBDA u : OpenNamespace(u, linenum), start, Len(line))
        head   == SetAccess(OpenClass(spaces, clean_lines.elided, linenum))
        all    == Iterate(LAMBDA u : ConsumeToken(u, clean_lines.raw_lines[linenum], linenum),
                          head, Len(line))
    IN  [nest   |-> [nest1 EXCEPT !.stack = all.stack],
         errors |-> all.errors]

CheckClassFinished(nest) ==
    LET classes == SelectSeq(nest.stack, LAMBDA b : b.kind = "class")
    IN  [i \in DOMAIN classes |->
            [linenum |-> classes[i].starting_linenum, category |-> <<"build", "class">>, confidence |-> 5]]
=============================================================================
