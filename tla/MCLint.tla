------------------------------- MODULE MCLint -------------------------------
(* cpplint for TLC.  Each corpus is about one part of the program: every   *)
(* text of up to so many lines from a few that matter to that part.  The   *)
(* limits of the code, 10 lines, 24, 250 and 400, are small enough for     *)
(* these texts to pass them.                                               *)
EXTENDS Lint

S(n, L) == UNION {[1 .. k -> L] : k \in 1 .. n}

Use(o, fs, ts) == [opts |-> o, filenames |-> fs, texts |-> ts]
All == <<<<"verbose", 0>>>>
Only(prefix) ==
    <<<<"filter", <<[sign |-> "-", prefix |-> <<>>], [sign |-> "+", prefix |-> prefix]>>>>>>

-----------------------------------------------------------------------------
(* Blocks, classes and namespaces, with conditionals.                      *)
NestingLines == {
    <<"#if">>, <<"#else">>, <<"#endif">>, <<"}", ";">>,
    <<"class", "K", "{">>, <<" ", "f", "(", ")", "{">>}
NamespaceLines == {
    <<"namespace", "n", "{">>, <<"namespace", "{">>, <<"}">>, <<"}", "//", "namespace">>,
    <<"}", "//", "namespace", "n">>, <<>>}
ClassLines == {
    <<"class", "K">>, <<"struct", "K", "{">>, <<" ", "public", ":">>, <<" ", "private", ":">>,
    <<" ", "DISALLOW_COPY_AND_ASSIGN", ";">>, <<" ", "K", "(", "n", ")", ";">>, <<"{">>, <<"}", ";">>}
AsmLines == {
    <<" ", "f", "(", ")", "{">>, <<" ", "asm", "volatile", "(", Quote, "f">>, <<" ", ")", ";">>,
    <<" ", "asm", "{">>, <<"}">>}

(* Comments, strings and NOLINT.                                           *)
CommentLines == {
    <<"/*">>, <<" ", "/*", "f">>, <<"f", "*/">>, <<"n", ";", "//", "NOLINT">>,
    <<Quote, "//", Quote, ";", "/*", "f", "*/">>, <<"f", "(", Quote, ")", ";">>, <<>>}
NolintLines == {
    <<" ", "while", "(", "n">>, <<" ", ")", ";", "//", "NOLINT">>, <<"f", ")", ";">>,
    <<"n", ";", "n", ";", "//", "NOLINT(", "f">>, <<"else", "n", ";", "//", "NOLINT(newline)">>,
    <<"U+FFFD", "//", "NOLINT">>}

(* Braces and loops.                                                       *)
BraceLines == {
    <<" ", "{", "n", "}", ";">>, <<" ", "{">>, <<" ", "{", "n", ";">>, <<" ", "}", "else", "if", "(", "n">>,
    <<" ", ")", "{">>, <<" ", "else", "{">>, <<"do", "n", ";">>, <<>>}

(* Functions.                                                              *)
FunctionLines == {
    <<"f", "(", ")", "{">>, <<"TEST", "(", "f", ")">>, <<" ", "n", ";">>, <<"}">>, <<"{">>}

(* Includes of the file d/f.cc.                                            *)
IncludeLines == {
    <<"#include", "<", "c.h", ">">>, <<"#include", "<", "vector", ">">>, <<"#include", "<", "iostream", ">">>,
    <<"#include", Quote, "d/f.h", Quote>>, <<"#include", Quote, "f_x.h", Quote>>,
    <<"#include", Quote, "e/g.h", Quote>>, <<"n", "vector<", "string<", ">", ";">>}

(* A header guard.                                                         *)
GuardLines == {
    <<"#ifndef", "D_H_">>, <<"#ifndef", "D_H__", "//", "NOLINT">>, <<"#define", "D_H_">>, <<"#define", "D_H__">>,
    <<"#endif", "//", "D_H_">>, <<"#endif", "//", "D_H__">>, <<"n", "\r">>}

-----------------------------------------------------------------------------

D(pairs) == [f \in {p[1] : p \in pairs} |-> (CHOOSE p \in pairs : p[1] = f)[2]]
CC(o, ts) == Use(o, <<"d/f.cc">>, D({<<"d/f.cc", ts>>}))

(* A function of n lines.                                                  *)
Long(n) == <<<<"f", "(", ")", "{">>>> \o [k \in 1 .. n |-> <<" ", "n", ";">>] \o <<<<"}">>, <<>>>>

Mixed == {<<"else", "n", ";">>, <<"else", "n", ";", "//", "NOLINT(newline)">>, <<"U+FFFD">>,
          <<"{", "n", "}", ";", "//", "NOLINT(typo)">>}
Minus(prefix) == [sign |-> "-", prefix |-> prefix]
Plus(prefix)  == [sign |-> "+", prefix |-> prefix]

MCCorpora == [
    nesting   |-> CC(All, S(5, NestingLines)),
    namespace |-> CC(All, S(4, NamespaceLines)),
    class     |-> CC(All, S(4, ClassLines)),
    asm       |-> CC(All, S(4, AsmLines)),
    comment   |-> CC(All, S(4, CommentLines)),
    nolint    |-> CC(All, S(4, NolintLines)),
    brace     |-> CC(All, S(4, BraceLines)),
    function  |-> CC(All, S(5, FunctionLines)),
    verbose1  |-> CC(<<>>, S(5, FunctionLines \ {<<"{">>, <<"}", "n">>})),
    long      |-> CC(All, {Long(n) : n \in {3, 4, 31, 32, 64}}),
    include   |-> CC(All, S(4, IncludeLines)),
    guard     |-> Use(All, <<"d.h">>, D({<<"d.h", S(4, GuardLines)>>})),
    two       |-> Use(<<<<"counting", "detailed">>>>, <<"gone.cc", "d.h", "g.py", "d/f.cc">>,
                      D({<<"gone.cc", {}>>, <<"d.h", S(2, NolintLines)>>, <<"g.py", S(1, GuardLines)>>,
                         <<"d/f.cc", S(2, NolintLines)>>})),
    filter1   |-> CC(<<<<"filter", <<Minus(<<>>), Plus(<<"whitespace">>)>>>>, <<"counting", "toplevel">>>>,
                     S(2, Mixed)),
    filter2   |-> CC(<<<<"filter", <<Plus(<<"build">>), Minus(<<"readability">>), Plus(<<"readability", "braces">>)>>>>>>,
                     S(2, Mixed)),
    filter3   |-> CC(<<<<"filter", <<Minus(<<>>)>>>>, <<"filter", <<Minus(<<"legal">>), Plus(<<"build", "include">>)>>>>,
                       <<"verbose", 5>>, <<"verbose", 0>>, <<"output", "vs7">>>>,
                     S(3, IncludeLines)),
    unsigned  |-> CC(<<<<"filter", <<[sign |-> "", prefix |-> <<"build">>]>>>>>>, S(1, Mixed)),
    help      |-> CC(<<<<"verbose", 2>>, <<"help", <<>>>>>>, S(1, Mixed)),
    listing   |-> CC(<<<<"filter", <<>>>>, <<"help", <<>>>>>>, S(1, Mixed)),
    wrong     |-> CC(<<<<"output", "html">>>>, S(1, Mixed)),
    unknown   |-> CC(<<<<"filter", <<>>>>, <<"unknown", <<>>>>>>, S(1, Mixed)),
    nofiles   |-> Use(<<>>, <<>>, <<>>)]

MCName == {"K", "n", "f"}
MCMacro == {"M"}
MCNolintCategory == D({<<"NOLINT", AllCategories>>, <<"NOLINT(", AllCategories>>,
                       <<"NOLINT(newline)", <<"whitespace", "newline">>>>, <<"NOLINT(typo)", <<"typo">>>>})
P(dir, base, first, rank, stream) ==
    [dir |-> dir, base |-> base, first |-> first, rank |-> rank, stream |-> stream]
MCPath == D({<<"d/f.cc", P("d", "f", "f", 1, FALSE)>>, <<"d.h", P("", "d", "d", 1, FALSE)>>,
             <<"g.py", P("", "g", "g", 1, FALSE)>>, <<"gone.cc", P("", "gone", "gone", 1, FALSE)>>,
             <<"c.h", P("", "c", "c", 1, FALSE)>>, <<"vector", P("", "vector", "vector", 6, FALSE)>>,
             <<"iostream", P("", "iostream", "iostream", 5, TRUE)>>, <<"d/f.h", P("d", "f", "f", 2, FALSE)>>,
             <<"f_x.h", P("", "f_x", "f", 4, FALSE)>>, <<"e/g.h", P("e", "g", "g", 3, FALSE)>>})
MCCppHeader == {"vector", "iostream"}
MCPublicDir == [d \in {"d", ""} |-> d]
MCProvides == D({<<"vector<", "vector">>, <<"string<", "string">>})
MCSameModule == D({<<"d/f.cc", {"d/f.h"}>>, <<"d.h", {}>>})
MCHeaderText == D({<<"d/f.h", <<<<"#include", "<", "string", ">">>>>>>})
MCExtension == D({<<"d/f.cc", "cc">>, <<"d.h", "h">>, <<"g.py", "py">>, <<"gone.cc", "cc">>})
MCCppVar == D({<<"d.h", "D_H_">>})
=============================================================================
