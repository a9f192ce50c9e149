----------------------------- MODULE LintIncludes ---------------------------
(***************************************************************************)
(* The #include lines of a file in cpplint.py: what kind of header each is *)
(* and whether it stands in the right place.  Paths are values; Path gives *)
(* the parts of them that are looked at.                                   *)
(***************************************************************************)
EXTENDS CppLines

CONSTANTS
    Path,       \* file or header -> [dir, base, first, rank, stream]: its directory, its name
                \* without common suffixes, the first component of that, its place in the
                \* alphabet, from 1 on, and whether it is a header of streams
    CppHeader,  \* the headers of _STL_HEADERS and _CPP_HEADERS
    PublicDir,  \* directory -> the directory ../public beside it
    Provides,   \* a name of the library -> the header it comes from
    SameModule, \* file -> the headers its module may have, after their names
    HeaderText  \* header that can be opened -> its text

C_SYS == "C system header"
CPP_SYS == "C++ system header"
LIKELY_MY == "header this file implements"
POSSIBLE_MY == "header this file may implement"
OTHER_HEADER == "other header"

(* The sections, in the order the code numbers them.                       *)
INITIAL_SECTION == 0
MY_H_SECTION    == 1
C_SECTION       == 2
CPP_SECTION     == 3
OTHER_H_SECTION == 4

(* include is the dict (header -> line), last_header the rank of the last  *)
(* header, 0 for the empty string.                                         *)
IncludeState == [include |-> <<>>, section |-> INITIAL_SECTION, last_header |-> 0]

ClassifyInclude(file, include, is_system) ==
    LET target == Path[file]
        header == Path[include]
    IN  CASE is_system /\ include \in CppHeader    -> CPP_SYS
          [] is_system /\ include \notin CppHeader -> C_SYS
          [] ~is_system /\ target.base = header.base
             /\ header.dir \in {target.dir, PublicDir[target.dir]} -> LIKELY_MY
          [] ~is_system /\ target.first = header.first
             /\ ~(target.base = header.base /\ header.dir \in {target.dir, PublicDir[target.dir]})
             -> POSSIBLE_MY
          [] OTHER -> OTHER_HEADER

(* A system header that comes too late leaves the section where it is; one *)
(* of the file's own goes with the others then.                            *)
InOrder_Strict(section, last) == section < last  \* mutation
InOrder(section, last) == section <= last

NextSection(section, header_type) ==
    CASE header_type = C_SYS /\ InOrder(section, C_SECTION)     -> C_SECTION
      [] header_type = CPP_SYS /\ InOrder(section, CPP_SECTION) -> CPP_SECTION
      [] header_type \in {LIKELY_MY, POSSIBLE_MY} /\ section <= MY_H_SECTION -> MY_H_SECTION
      [] header_type \in {C_SYS, CPP_SYS}                       -> section
      [] OTHER                                                  -> OTHER_H_SECTION

IsLate(section, header_type) ==
    \/ header_type = C_SYS /\ ~InOrder(section, C_SECTION)
    \/ header_type = CPP_SYS /\ ~InOrder(section, CPP_SECTION)

CheckNextIncludeOrder(inc, header_type) ==
    LET next == NextSection(inc.section, header_type)
        late == IsLate(inc.section, header_type)
    IN  [inc EXCEPT !.section = next,
                    !.last_header = IF late \/ next # inc.section THEN 0 ELSE @]

IsInAlphabeticalOrder(inc, include) == inc.last_header <= Path[include].rank

(* An include line is <<"#include", "<" or Quote, header, ...>>.  Streams  *)
(* are for tests only.                                                     *)
CheckIncludeLine(inc, file, line, linenum, is_test) ==
    LET l         == strip(line)
        include   == l[3]
        is_system == l[2] = "<"
        known     == include \in DOMAIN inc.include
        type      == ClassifyInclude(file, include, is_system)
        ordered   == CheckNextIncludeOrder(inc, type)
        in_order  == IsInAlphabeticalOrder(ordered, include)
    IN  [include_state |->
             IF known THEN inc
             ELSE [ordered EXCEPT
                      !.include = [h \in DOMAIN @ \cup {include} |-> IF h = include THEN linenum ELSE @[h]],
                      !.last_header = IF in_order THEN Path[include].rank ELSE @],
         errors |->
             If(~is_system /\ Path[include].dir = "", linenum, <<"build", "include">>, 4)
             \o If(known, linenum, <<"build", "include">>, 4)
             \o If(~known /\ IsLate(inc.section, type), linenum, <<"build", "include", "_order">>, 4)
             \o If(~known /\ ~in_order, linenum, <<"build", "include", "_alpha">>, 4)
             \o If(Path[include].stream /\ ~is_test, linenum, <<"readability", "streams">>, 3)]

-----------------------------------------------------------------------------
(* CheckForIncludeWhatYouUse.  A header is required at the last line that  *)
(* uses something of it.  The code reports them in the order of a dict;    *)
(* here they come by their lines.                                          *)

Required(elided) ==
    LET uses(n) == IF elided[n] # <<>> /\ elided[n][1] \in Directive THEN {}
                   ELSE Range(elided[n]) \cap DOMAIN Provides
    IN  FoldLeftDomain(LAMBDA required, n :
                          [h \in DOMAIN required \cup {Provides[t] : t \in uses(n)} |->
                              IF \E t \in uses(n) : Provides[t] = h THEN n ELSE required[h]],
                      <<>>, elided)

(* UpdateIncludeState: the headers the file's own headers include.         *)
IncludesOf(text) ==
    {strip(CleanseComments(text[n]))[3] : n \in {k \in DOMAIN text : IsInclude(CleanseComments(text[k]))}}

CheckForIncludeWhatYouUse(elided, include, file, is_source) ==
    LET own      == DOMAIN include \cap SameModule[file] \cap DOMAIN HeaderText
        included == DOMAIN include \cup UNION {IncludesOf(HeaderText[h]) : h \in own}
        required == Required(elided)
        missing  == SetToSortSeq(DOMAIN required \ included, LAMBDA g, h : required[g] <= required[h])
    IN  IF is_source /\ own = {} THEN <<>>
        ELSE [i \in DOMAIN missing |->
                 [linenum |-> required[missing[i]], category |-> <<"build", "include", "_what_you_use">>,
                  confidence |-> 4]]
=============================================================================
