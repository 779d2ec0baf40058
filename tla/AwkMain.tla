------------------------------ MODULE AwkMain ------------------------------
(***************************************************************************)
(* awk-src/main.c: a call of awk, and what it finds of the calls before it *)
(* in the same shell: how often SYNTAX() has been called, the brackets     *)
(* that are open, the range patterns there have been, the last program     *)
(* that was parsed, the separator that was saved and whether the fields    *)
(* and $0 were made from each other.                                       *)
(*                                                                         *)
(* A call c is [prog, args, fs, in, sep, assigns, csv, names]: the parsed  *)
(* program, the other arguments, the files, the standard input, the -F and *)
(* -v options, --csv and the names that assignments have.  A program is    *)
(* [begin, body, end, funs, arrays, ranges, braces, bad, upto]: arrays are *)
(* the names it uses as such, braces has a 1 for each { of its text and a  *)
(* -1 for each }, and a bad program has its error behind the first upto of *)
(* them.                                                                   *)
(***************************************************************************)
EXTENDS AwkRun

CONSTANT Pa2Num     \* PA2NUM

Fresh == [been |-> 0, braces |-> 0, paircnt |-> 0, winner |-> <<>>, vars |-> <<>>, pairs |-> {}, inputFS |-> <<>>, donefld |-> FALSE, donerec |-> FALSE]

-----------------------------------------------------------------------------
(* yyparse() and SYNTAX().                                                 *)

\* The closing braces of the first n that nothing is open for.
Extra(open, braces, n) ==
    Cardinality({i \in 1..n : braces[i] = -1 /\ FoldLeft(LAMBDA a, b : a + b, open, SubSeq(braces, 1, i)) < 0})
SyntaxCalls(old, prog) ==
    Extra(old.braces, prog.braces, IF prog.bad THEN prog.upto ELSE Len(prog.braces))
    + (IF prog.bad THEN 2 ELSE Cardinality({k \in 1..prog.ranges : old.paircnt + k > Pa2Num}))
\* Only the first three calls of SYNTAX() do anything.
Errorflag(old, prog) == IF old.been <= 2 /\ SyntaxCalls(old, prog) > 0 THEN 2 ELSE 0
Parsed(old, prog) ==
    [old EXCEPT !.been = @ + SyntaxCalls(old, prog),
                !.braces = FoldLeft(LAMBDA a, b : a + b, @, prog.braces),
                !.paircnt = @ + prog.ranges,
                !.winner = IF ~prog.bad /\ Errorflag(old, prog) = 0 THEN prog ELSE @]

-----------------------------------------------------------------------------
(* syminit(), arginit(), -v and -F.                                        *)

Syminit ==
    [x \in {"FS", "OFS"} |-> StrCell(<<Space>>)] @@ [x \in {"RS", "ORS"} |-> StrCell(<<NL>>)]
    @@ [x \in {"FILENAME", "OFMT", "CONVFMT"} |-> StrCell(<<>>)] @@ [x \in {"NF", "NR", "FNR", "RSTART", "RLENGTH"} |-> NumCell(0)]
    @@ [SUBSEP |-> StrCell(<<28>>)]
Setargs(args) ==
    FoldLeft(LAMBDA tb, k : Setsymtab(tb, Decimal(k), IF k = 0 THEN StrCell(<<97, 119, 107>>) ELSE Input(args[k])),
             Makesymtab, [k \in 1..(Len(args) + 1) |-> k - 1])
Assigned(names, assigns) ==
    FoldLeft(LAMBDA vars, s : names[SubSeq(s, 1, NameEnd(s, 1) - 1)] :> Input(Qstring(s, NameEnd(s, 1) + 1)) @@ vars, <<>>, assigns)
Setfs(vars, sep) ==
    CASE sep = <<>> -> vars
      [] sep = <<116>> -> [vars EXCEPT !.FS.s = <<9>>]
      [] OTHER -> [vars EXCEPT !.FS.s = Qstring(sep, 1)]

World(old, c) ==
    [vars |-> Setfs(Assigned(c.names, c.assigns) @@ Syminit, c.sep) @@ [ARGC |-> NumCell(Len(c.args) + 1), ARGV |-> ArrayCell(1)],
     heap |-> <<Setargs(c.args)>>, loc |-> <<>>, frames |-> <<>>, funs |-> c.prog.funs, pairs |-> {},
     rec |-> [t |-> {"REC", "STR", "DONTFREE"}, s |-> <<>>, n |-> 0], fld |-> <<>>, donefld |-> old.donefld, donerec |-> old.donerec,
     inputFS |-> old.inputFS, csv |-> c.csv, argno |-> 1, infile |-> 0, innew |-> FALSE, firsttime |-> TRUE,
     open |-> <<Stream(StdIn, c.in), Stream(StdOut, <<>>), Stream(StdErr, <<>>)>>, files |-> <<>>, fp |-> 0, new |-> FALSE,
     fs |-> c.fs, out |-> <<>>, err |-> <<>>, stop |-> "", status |-> 0, x |-> <<"bool", TRUE>>, goto |-> <<>>, xs |-> <<>>, of |-> <<"bool", TRUE>>, fa |-> <<>>, buf |-> <<>>, is |-> FALSE,
     names |-> c.names, seed |-> 1]

\* makearr()
Makearr(w, names) == FoldLeft(LAMBDA v, x : AsArray(v, <<"var", x>>), w, names)
\* A program that was not parsed, without an error that is told, leaves the
\* last one to be run, with its variables and its ranges as it left them (those of
\* another program have numbers of their own, from paircnt); one that uses
\* arrays or awk's own variables is beyond this model then.
Rerun(w, old, prog) ==
    IF prog.bad /\ old.winner # <<>> THEN [w EXCEPT !.vars = old.vars @@ @, !.funs = old.winner.funs, !.pairs = old.pairs] ELSE Makearr(w, prog.arrays)
Kept(now, e) ==
    [statics |-> [now EXCEPT !.vars = e.vars, !.pairs = e.pairs, !.inputFS = e.inputFS, !.donefld = e.donefld, !.donerec = e.donerec],
     out |-> e.out, fs |-> e.fs, rc |-> e.status]
RunWinner(w, now) == Kept(now, IF now.winner = <<>> THEN w ELSE Exec(w, <<"program", now.winner>>))
AwkMain(old, c) ==
    IF Errorflag(old, c.prog) # 0
    THEN [statics |-> Parsed(old, c.prog), out |-> <<>>, fs |-> c.fs, rc |-> 2]
    ELSE RunWinner(Stdinit(Rerun(World(old, c), old, c.prog)), Parsed(old, c.prog))
=============================================================================
