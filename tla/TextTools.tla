----------------------------- MODULE TextTools -----------------------------
(***************************************************************************)
(* The text tools as builtins of one shell.  As programs each of them ran  *)
(* in a process of its own; as builtins (sed_mod.c, diff_mod.c) they are   *)
(* functions that are called again and again in one process, and their     *)
(* static variables are still there at the next call.  A call gets the     *)
(* variables the last one left, and sets them back as far as it does.      *)
(***************************************************************************)
EXTENDS Integers, Sequences, TLC

CONSTANTS
    Hash, Fold, Ignored, Incomplete, Dots, MaxTries, Context0, Memory,  \* see DiffLines, DiffFormats, Diff
    Termwidth, Octal,                                                   \* see Sed
    BufSize,                                                            \* see Filters
    NSymtab, Pa2Num,                                                    \* see AwkCells, AwkMain
    Cases,      \* a sequence of sets of calls
    Series,     \* for each tool, the calls that are made one after the other
    MaxCalls,   \* how many of them
    MakeCall(_) \* a call, as its tool takes it

D == INSTANCE Diff
S == INSTANCE SedPromises
F == INSTANCE SbasePromises
A == INSTANCE AwkPromises

VARIABLES
    case,     \* the call: its tool, and what MakeCall() makes it from
    statics,  \* the static variables of the tools
    calls,    \* the calls made
    result    \* what is seen of the last one
vars == <<case, statics, calls, result>>

SbaseTools == {"cat", "tee", "head", "tail", "cut", "uniq", "wc", "tr", "sort", "grep", "ls"}
Fresh ==
    [diff |-> D!Fresh, sed |-> S!Fresh, awk |-> A!Fresh, grep |-> "none", ls |-> [tree |-> {}, cwd |-> 1]] @@ [t \in SbaseTools |-> <<>>]
None == [rc |-> -1]

\* bin_diff(), bin_sed(), bin_awk() and run_sbase_tool(): the results [statics, seen]
\* that a call can have.
DiffRun(r) == [statics |-> r.statics, seen |-> [out |-> r.out, rc |-> r.rc]]
SedRun(s) == [statics |-> s, seen |-> S!SedSeen(s)]
SbaseMain(tool, s, c) ==
    CASE tool = "cat" -> F!CatMain(s, c)
      [] tool = "tee" -> F!TeeMain(s, c)
      [] tool = "head" -> F!HeadMain(s, c)
      [] tool = "tail" -> F!TailMain(s, c)
      [] tool = "cut" -> F!CutMain(s, c)
      [] tool = "uniq" -> F!UniqMain(s, c)
      [] tool = "wc" -> F!WcMain(s, c)
      [] tool = "tr" -> F!TrMain(s, c)
      [] tool = "sort" -> F!SortMain(s, c)
      [] tool = "grep" -> F!GrepMain(s, c)
      [] tool = "ls" -> F!LsMain(s, c)
ToolRun(r) == [statics |-> r.statics, seen |-> [out |-> r.out, fs |-> r.fs, rc |-> r.rc]]
Run(tool, old, c) ==
    CASE tool = "diff" -> {DiffRun(D!Main(old, c))}
      [] tool = "sed" -> {SedRun(S!SedMain(old, c))}
      [] tool = "awk" -> {ToolRun(A!AwkMain(old, c))}
      [] tool \in SbaseTools -> {ToolRun(r) : r \in SbaseMain(tool, old, c)}

Init ==
    /\ \E k \in DOMAIN Cases : case \in Cases[k]
    /\ statics = Fresh
    /\ calls = 0
    /\ result = None

Returns(tool, r) ==
    /\ statics' = [statics EXCEPT ![tool] = r.statics]
    /\ result' = r.seen
    /\ calls' = calls + 1

Do(c) == \E r \in Run(c.tool, statics[c.tool], MakeCall(c)) : Returns(c.tool, r)

First == calls = 0 /\ Do(case) /\ UNCHANGED case

Next1 ==
    /\ calls \in 1..(MaxCalls - 1) /\ case.tool \in DOMAIN Series /\ case \in Series[case.tool]
    /\ \E t \in DOMAIN Series : \E c \in Series[t] : Do(c) /\ case' = c

Next == First \/ Next1
Spec == Init /\ [][Next]_vars

-----------------------------------------------------------------------------
Done(tool) == case.tool = tool /\ calls > 0

\* What call c finds of the calls before it because nothing sets it back: diff's
\* max_context (diffreg.c:1011), the line sort -c kept (sort.c:214), awk's counts of
\* calls of SYNTAX() (lib.c:688), of open braces (lex.c:36) and of ranges (parse.c:203)
\* and, for a wrong program once SYNTAX() says nothing, all the last program left.
Lasting(c, s) ==
    CASE c.tool = "diff" -> [D!Fresh EXCEPT !.maxContext = s.maxContext]
      [] c.tool = "sort" -> s
      [] c.tool = "awk" ->
            IF c.prog.bad /\ s.been > 2 THEN s
            ELSE [A!Fresh EXCEPT !.been = s.been, !.braces = s.braces, !.paircnt = s.paircnt]
      [] OTHER -> Fresh[c.tool]


\* The resets of awk-src/main.c:152-154 are there so that a call is like the first,
\* whatever calls were made before it.  It is not for awk's programs with errors.
LikeTheFirst == calls > 1 => \E r \in Run(case.tool, Fresh[case.tool], MakeCall(case)) : result = r.seen

\* What diff prints turns the old file into the new one: its default output,
\* -n and -e are edits, -u and -c edits with their surroundings, -D has both.
\* Its exit status is 0 exactly for files that are the same.  This is so unless it
\* is out of memory (2).
ScriptsApply ==
    Done("diff") => D!Applied(MakeCall(case), result) /\ D!Told(MakeCall(case), result)

\* With -d no other choice of matching lines would keep more of them.
Shortest == Done("diff") => D!MatchesMost(MakeCall(case))

\* diff: of two directories every entry that differs is told, in order, and no
\* other.  ls: every directory that is asked for is listed, once, its entries
\* in order, although links lead back to it, and the shell stays where it is.
TreeReported ==
    /\ Done("diff") => D!Reported(MakeCall(case), result)
    /\ Done("ls") => F!LsRight(MakeCall(case), result)

\* sed replaces the occurrences of a regular expression that its definition
\* says, the wanted one or all, also where they are empty or adjacent.
SubstituteRight == Done("sed") => S!SubstituteRight(MakeCall(case), result)

\* The lines between the addresses of a command are those of its ranges, over
\* all input files.
RangesRight == Done("sed") => S!RangesRight(MakeCall(case), result)

\* Editing many files in place edits each as if it were alone, and keeps the
\* original as its backup.
EditedAlone == Done("sed") => S!EditedAlone(MakeCall(case), result)

\* The filters, of their standard input, print what their options define, however the ranges of cut
\* overlap, the reads of tail fall and the sets of tr are written.
Reads(tool) == Done(tool) /\ case.args = <<>>
FiltersRight ==
    /\ Reads("cut") => F!CutRight(MakeCall(case), result)
    /\ Reads("uniq") => F!UniqRight(MakeCall(case), result)
    /\ Reads("head") => F!HeadRight(MakeCall(case), result)
    /\ Reads("tail") => F!TailRight(MakeCall(case), result)
    /\ Reads("tr") => F!TrRight(MakeCall(case), result)

\* sort prints the lines it was given, in the order of their keys, and with -u
\* one of those that are equal; sort -c agrees.
InputSorted == Reads("sort") => F!SortRight(MakeCall(case), result)

\* grep prints the lines that are selected and those near them, each once, with
\* a mark where some are left out, and with -o the matches.
LinesFound ==
    Done("grep") => F!GrepRight(MakeCall(case), result) /\ F!OnlyMatching(MakeCall(case), result)

\* An awk program means what its text says: a regular expression matches at the
\* leftmost place the longest text, although automata are built for it state by
\* state; an assignment to $0, a field, NF, FS or OFS has its effect at once,
\* although the record and its fields are made from each other only when they
\* are read; a loop visits each element of an array once, however the table has
\* grown; functions have variables of their own; the records of many files, and
\* ranges of them, are those of their texts.
AwkMeans == Done("awk") => A!AwkRight(MakeCall(case), result)
=============================================================================
