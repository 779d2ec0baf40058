-------------------------------- MODULE Sed --------------------------------
(***************************************************************************)
(* The builtin sed: a script is compiled to commands with next pointers    *)
(* (sed-src/compile.c), and run over the lines of the files                *)
(* (sed-src/process.c), which are read, and with -i replaced, one after    *)
(* the other (sed-src/main.c).                                             *)
(*                                                                         *)
(* Text is a sequence of characters.  A file is a record of its lines,     *)
(* without their newlines, and of whether the last one has a newline.      *)
(* A regular expression is [bol, char, star, eol, sub]: one character, any *)
(* number of them when star, between anchors; Empty is the empty one,      *)
(* which stands for the last one used.                                     *)
(***************************************************************************)
EXTENDS Integers, Sequences, SequencesExt, FiniteSetsExt, TLC

CONSTANTS
    Termwidth,  \* 72: the columns of a line of l
    Octal       \* the characters that l shows by their code

Newline == "\n"
Empty == [bol |-> FALSE, char |-> "", star |-> FALSE, eol |-> FALSE]

-----------------------------------------------------------------------------
(* compile.c                                                               *)

\* What compile_stream() is given of a command: code, addresses, "!", and the
\* argument (text, file name, label, substitution or translation).
Addr(type, v) == [type |-> type, v |-> v]
Maximum(code) ==
    CASE code \in {"}", ":"} -> 0 [] code \in {"a", "i", "q", "r", "="} -> 1 [] OTHER -> 2
Addresses(c) == Cardinality({k \in 1..2 : <<c.a1, c.a2>>[k].type # "none"})

Blocks(cmds, i) == Cardinality({k \in 1..i : cmds[k].code = "{"}) - Cardinality({k \in 1..i : cmds[k].code = "}"})

\* The command at which the group opened at i ends.
Close(cmds, i) == Min({j \in (i + 1)..Len(cmds) : Blocks(cmds, j) = Blocks(cmds, i) - 1})

Labels(cmds, l) == {k \in DOMAIN cmds : cmds[k].code = ":" /\ cmds[k].arg = l}

\* compile_tr(): the two strings are of one length and the first has no
\* character twice.
TrOK(y) == Len(y[1]) = Len(y[2]) /\ Cardinality(ToSet(y[1])) = Len(y[1])

\* error(): the script is refused, with exit status 1, at one of its commands
\* or, when a group is open or a label missing, at its end.
BadAt(cmds, k) ==
    LET c == cmds[k]
    IN  \/ Addresses(c) > Maximum(c.code) \/ Blocks(cmds, k) < 0
        \/ c.code = ":" /\ \E j \in Labels(cmds, c.arg) : j < k
        \/ c.code = "y" /\ ~TrOK(c.arg)
BadAtEnd(cmds) ==
    \/ Blocks(cmds, Len(cmds)) # 0
    \/ \E k \in DOMAIN cmds : cmds[k].code \in {"b", "t"} /\ cmds[k].arg # "" /\ Labels(cmds, cmds[k].arg) = {}
Refused(cmds) == BadAtEnd(cmds) \/ \E k \in DOMAIN cmds : BadAt(cmds, k)
ReadOf(cmds) == SubSeq(cmds, 1, Min({Len(cmds) + 1} \cup {k \in DOMAIN cmds : BadAt(cmds, k)}) - 1)

\* compile_stream() and fixuplabel(): the next command, which for "{" is the
\* one that closes the group, and the one that "{", b or t goes to.  The end of
\* the script is the place behind the last command.
Compiled(cmds) ==
    LET end == Len(cmds) + 1
    IN  [k \in DOMAIN cmds |->
           cmds[k] @@
           [next |-> IF cmds[k].code = "{" THEN Close(cmds, k) ELSE k + 1,
            to |-> IF cmds[k].code = "{" THEN k + 1
                   ELSE IF cmds[k].code \notin {"b", "t"} \/ cmds[k].arg = "" THEN end
                   ELSE CHOOSE j \in Labels(cmds, cmds[k].arg) : TRUE,
            nonsel |-> IF cmds[k].code = "}" THEN TRUE ELSE cmds[k].not]]

\* The files that w and the w flag of s name; they are emptied when the
\* command is read, with -a when they are first written to.
Written(cmds) ==
    {cmds[k].arg : k \in {j \in DOMAIN cmds : cmds[j].code = "w"}}
    \cup ({cmds[k].arg.w : k \in {j \in DOMAIN cmds : cmds[j].code = "s"}} \ {""})

-----------------------------------------------------------------------------
(* The input and the output: main.c.                                       *)

\* A run is a record: options nflag and inplace (NoInplace, or the extension);
\* fs, the files; cur, rest and final, the current file, its remaining lines
\* and whether the last has a newline; queue, the files to come; out and tmp,
\* what went to standard output and to the temporary file; opened, the w files with a
\* descriptor; ps, anl, hs: the pattern space, its append_newline, the hold
\* space; appends and room, the queue of a and r and the size of its array;
\* lastaddr, sdone, defre, linenum; inrange of every command; and rval and
\* exit, which is -1 while it goes on.  These are the static variables of the
\* builtin.
NoInplace == "-"
NoFile == "."
Stdin == "/dev/stdin"

Emit(s, text) ==
    IF s.inplace # NoInplace /\ s.cur # NoFile THEN [s EXCEPT !.tmp = @ \o text]
    ELSE [s EXCEPT !.out = @ \o text]

\* OUT()
Out(s) == Emit(s, s.ps \o IF s.anl THEN <<Newline>> ELSE <<>>)

\* The lines of a text.
RECURSIVE LinesOf(_)
LinesOf(text) ==
    IF text = <<>> THEN [lines |-> <<>>, nl |-> TRUE]
    ELSE LET stops == {k \in DOMAIN text : text[k] = Newline}
             n == IF stops = {} THEN Len(text) ELSE Min(stops)
             tail == LinesOf(SubSeq(text, n + 1, Len(text)))
         IN  [lines |-> <<SubSeq(text, 1, IF stops = {} THEN n ELSE n - 1)>> \o tail.lines,
              nl |-> IF n = Len(text) THEN stops # {} ELSE tail.nl]
TextOf(f) ==
    FlattenSeq([k \in DOMAIN f.lines |->
                  f.lines[k] \o IF k = Len(f.lines) /\ ~f.nl THEN <<>> ELSE <<Newline>>])

\* Mutation of FinishFile: the backup is made of the edited file.
FinishFileLate(s) ==
    IF s.cur = NoFile \/ s.inplace = NoInplace THEN s
    ELSE [s EXCEPT !.fs = (s.cur :> LinesOf(s.tmp))
                          @@ (IF s.inplace = "" THEN <<>> ELSE (s.cur \o s.inplace) :> LinesOf(s.tmp)) @@ @,
                   !.tmp = <<>>, !.cur = NoFile]

\* finish_file(): with -i the file goes to its backup and the temporary file
\* takes its place.
FinishFile(s) ==
    IF s.cur = NoFile \/ s.inplace = NoInplace THEN s
    ELSE [s EXCEPT !.fs = (s.cur :> LinesOf(s.tmp))
                          @@ (IF s.inplace = "" THEN <<>> ELSE (s.cur \o s.inplace) :> @[s.cur]) @@ @,
                   !.tmp = <<>>, !.cur = NoFile]

\* resetstate(): for each file of -i the hold space and the ranges start afresh.
ResetState(s) == [s EXCEPT !.hs = <<>>, !.inrange = [k \in DOMAIN @ |-> FALSE]]

\* mf_getline(): the next file that has a line.
RECURSIVE NextFile(_), OpenNext(_)
NextFile(s) == IF s.rest # <<>> \/ s.cur = Stdin THEN s ELSE OpenNext(FinishFile(s))

OpenNext(t) ==
    LET f == Head(t.queue)
        u == [t EXCEPT !.queue = Tail(@), !.cur = NoFile]
    IN  IF t.queue = <<>> THEN t
        ELSE IF t.inplace # NoInplace /\ f \notin DOMAIN t.fs THEN [u EXCEPT !.exit = 1]
        ELSE IF f \notin DOMAIN t.fs THEN NextFile([u EXCEPT !.rval = 1])
        ELSE NextFile([(IF t.inplace = NoInplace THEN u ELSE [ResetState(u) EXCEPT !.linenum = 0])
                       EXCEPT !.cur = f, !.rest = t.fs[f].lines, !.final = t.fs[f].nl])

\* lastline(): with -i each file has a last line of its own.
LastLine(s) ==
    /\ s.rest = <<>>
    /\ s.inplace # NoInplace
       \/ \A k \in DOMAIN s.queue : s.queue[k] \in DOMAIN s.fs => s.fs[s.queue[k]].lines = <<>>

\* A line is read: into the pattern space, or behind it.  got is FALSE at the
\* end of the input.
LineOf(t, kept) ==
    LET u == [t EXCEPT !.rest = Tail(@)]
    IN  IF t.exit # -1 \/ t.rest = <<>> THEN [s |-> [t EXCEPT !.ps = <<>>], got |-> FALSE]
        ELSE [s |-> [u EXCEPT !.ps = kept \o Head(t.rest), !.linenum = @ + 1,
                              !.anl = u.rest # <<>> \/ t.final \/ ~LastLine(u)],
              got |-> TRUE]

GetLine(s, kept) == LineOf(NextFile(s), kept)

\* The command at this place writes the pattern space to its file, for which
\* it has a descriptor of its own: with -a from now on.
WriteTo(s, f, place) ==
    LET old == IF place \in s.opened THEN s.fs[f] ELSE [lines |-> <<>>, nl |-> TRUE]
    IN  [s EXCEPT !.fs = (f :> LinesOf(TextOf(old) \o s.ps \o <<Newline>>)) @@ @,
                  !.opened = @ \cup {place}]

-----------------------------------------------------------------------------
(* Regular expressions and the command s.                                  *)

\* The places a match may begin at and end at, in what is left from start on;
\* REG_NOTBOL stands behind the first match.
MatchesFrom(re, text, start, notbol) ==
    {m \in (start..Len(text)) \X (start..Len(text)) :
        /\ m[1] <= m[2]
        /\ re.bol => m[1] = start /\ ~notbol
        /\ re.eol => m[2] = Len(text)
        /\ \A k \in (m[1] + 1)..m[2] : text[k] = re.char
        /\ ~re.star => m[2] = m[1] + IF re.char = "" THEN 0 ELSE 1}

\* Mutation of Exec: "^" matches again behind a match.
ExecBol(re, text, start, notbol) ==
    LET ms == MatchesFrom(re, text, start, FALSE)
        left == {m \in ms : \A n \in ms : m[1] <= n[1]}
    IN  IF ms = {} THEN <<>> ELSE CHOOSE m \in left : \A n \in left : n[2] <= m[2]

\* regexec(): the leftmost match, and of these the longest, as the places
\* before and behind it; <<>> when there is none.
Exec(re, text, start, notbol) ==
    LET ms == MatchesFrom(re, text, start, notbol)
        left == {m \in ms : \A n \in ms : m[1] <= n[1]}
    IN  IF ms = {} THEN <<>> ELSE CHOOSE m \in left : \A n \in left : n[2] <= m[2]

\* regexec_e(): the expression that is used.
Used(s, re) == IF re = Empty THEN s.defre ELSE re

\* regsub(): "&" is the match.
Regsub(new, match) == FlattenSeq([k \in DOMAIN new |-> IF new[k] = "&" THEN match ELSE <<new[k]>>])

\* substitute(): n is the number of the wanted match, 0 for all; le is where
\* the last match ended, done what is built.  The result is <<>>, for nothing
\* done, or <<text>>.
RECURSIVE SubstLoop(_, _, _, _, _, _, _, _)
SubstLoop(re, text, new, m, le, n, lastempty, done) ==
    LET empty == m[1] = m[2]
        lead == IF n <= 1 THEN SubSeq(text, le + 1, m[1]) ELSE <<>>
        counts == lastempty \/ m[1] # le \/ ~empty
        put == IF ~counts THEN <<>>
               ELSE IF n <= 1 THEN Regsub(new, SubSeq(text, m[1] + 1, m[2]))
               ELSE SubSeq(text, le + 1, m[2])
        left == IF ~counts \/ n = 0 THEN n ELSE IF n = 1 THEN -1 ELSE n - 1
        over == empty /\ m[2] = Len(text)
        step == IF empty /\ ~over THEN 1 ELSE 0
        at == m[2] + step
        built == done \o lead \o put \o SubSeq(text, m[2] + 1, at)
        again == IF left >= 0 /\ ~over THEN Exec(re, text, at, TRUE) ELSE <<>>
    IN  IF again # <<>> THEN SubstLoop(re, text, new, again, at, left, empty, built)
        ELSE IF left > 0 THEN <<>>
        ELSE <<built \o SubSeq(text, at + 1, Len(text))>>

Subst(re, text, new, n) ==
    LET m == Exec(re, text, 0, FALSE)
    IN  IF m = <<>> THEN <<>> ELSE SubstLoop(re, text, new, m, 0, n, TRUE, <<>>)

\* substitute() on the pattern space, with the flags p and w.
Replace(s, c, place, text) ==
    LET t == [s EXCEPT !.ps = text[1], !.sdone = TRUE]
        u == IF c.arg.p THEN Out(t) ELSE t
    IN  IF text = <<>> THEN s ELSE IF c.arg.w = "" THEN u ELSE WriteTo(u, c.arg.w, place)

Substitute(s, c, place) ==
    LET re == Used(s, c.arg.re)
    IN  IF re = Empty THEN [s EXCEPT !.exit = 1]
        ELSE Replace([s EXCEPT !.defre = re], c, place, Subst(re, s.ps, c.arg.new, c.arg.n))

-----------------------------------------------------------------------------
(* process.c                                                               *)

\* MATCH(): [s, is], since a regular expression becomes the last one used.
Match(s, a) ==
    CASE a.type = "line" -> [s |-> s, is |-> s.linenum = a.v]
      [] a.type = "last" -> [s |-> s, is |-> LastLine(s)]
      [] a.type = "re" -> LET re == Used(s, a.v)
                          IN  IF re = Empty THEN [s |-> [s EXCEPT !.exit = 1], is |-> FALSE]
                              ELSE [s |-> [s EXCEPT !.defre = re], is |-> Exec(re, s.ps, 0, FALSE) # <<>>]

\* Mutation of Applies: a range whose last line is behind it already goes on.
AppliesOn(s, c, k) ==
    LET m1 == Match([s EXCEPT !.lastaddr = FALSE], c.a1)
        m2 == Match([s EXCEPT !.lastaddr = FALSE], c.a2)
        r == IF c.a1.type = "none" THEN [s |-> [s EXCEPT !.lastaddr = FALSE], is |-> TRUE]
             ELSE IF c.a2.type = "none" THEN m1
             ELSE IF s.inrange[k]
             THEN [s |-> [m2.s EXCEPT !.inrange[k] = ~m2.is, !.lastaddr = m2.is], is |-> TRUE]
             ELSE IF ~m1.is THEN m1
             ELSE [m1 EXCEPT !.s.inrange[k] = TRUE]
    IN  [r EXCEPT !.is = (@ # c.nonsel)]

\* applies(): does command k apply to the current line?
Applies(s, c, k) ==
    LET m1 == Match([s EXCEPT !.lastaddr = FALSE], c.a1)
        m2 == Match([s EXCEPT !.lastaddr = FALSE], c.a2)
        r == IF c.a1.type = "none" THEN [s |-> [s EXCEPT !.lastaddr = FALSE], is |-> TRUE]
             ELSE IF c.a2.type = "none" THEN m1
             ELSE IF s.inrange[k]
             THEN [s |-> [m2.s EXCEPT !.inrange[k] = ~m2.is, !.lastaddr = m2.is], is |-> TRUE]
             ELSE IF ~m1.is THEN m1
             ELSE IF c.a2.type = "line" /\ s.linenum >= c.a2.v THEN [m1 EXCEPT !.s.lastaddr = TRUE]
             ELSE [m1 EXCEPT !.s.inrange[k] = TRUE]
    IN  [r EXCEPT !.is = (@ # c.nonsel)]

\* a and r: the array is doubled when it is full.
Queue(s, x) ==
    [s EXCEPT !.appends = Append(@, x), !.room = IF Len(s.appends) >= @ THEN 2 * @ ELSE @]

\* flush_appends(): a file that cannot be read is passed over.
FlushAppends(s) ==
    LET Text(x) == IF x.file = "" THEN x.text
                   ELSE IF x.file \in DOMAIN s.fs THEN TextOf(s.fs[x.file]) ELSE <<>>
    IN  [Emit(s, FlattenSeq([k \in DOMAIN s.appends |-> Text(s.appends[k])]))
         EXCEPT !.appends = <<>>, !.sdone = FALSE]

FirstNewline(text) ==
    LET stops == {k \in DOMAIN text : text[k] = Newline} IN IF stops = {} THEN 0 ELSE Min(stops)

\* lputs(): what is not printed as itself takes four columns (two for a
\* backslash), and the line is folded at termwidth.
RECURSIVE Lputs(_, _)
Lputs(text, count) ==
    IF text = <<>> THEN <<"$", Newline>>
    ELSE IF count >= Termwidth THEN <<"\\", Newline>> \o Lputs(text, 0)
    ELSE IF Head(text) = Newline THEN <<"$", Newline>> \o Lputs(Tail(text), 0)
    ELSE IF Head(text) = "\\" THEN <<"\\", "\\">> \o Lputs(Tail(text), count + 2)
    ELSE IF Head(text) \in Octal THEN <<"\\", Head(text)>> \o Lputs(Tail(text), count + 4)
    ELSE <<Head(text)>> \o Lputs(Tail(text), count + 1)

AutoPrint(s) == IF s.nflag THEN s ELSE Out(s)
Exit(s, status) == [s EXCEPT !.exit = status]

\* n and N at the end of the input.
OrExit(line) == IF line.got \/ line.s.exit # -1 THEN line.s ELSE Exit(line.s, 0)

\* What a command that applies does: the run, and where it goes on: "next",
\* "to" (the branch or the group), "top" (the script again) or "new" (the end
\* of the cycle, which prints nothing when deleted).
Do(s, c, place) ==
    LET Go(t, where) == [s |-> t, go |-> where, deleted |-> FALSE]
        On(t) == Go(t, "next")
        Deleted(t) == [s |-> t, go |-> "new", deleted |-> TRUE]
        stop == FirstNewline(s.ps)
    IN  CASE c.code \in {"{", "b"} -> Go(s, "to")
          [] c.code = "a" -> On(Queue(s, [file |-> "", text |-> c.arg]))
          [] c.code = "r" -> On(Queue(s, [file |-> c.arg, text |-> <<>>]))
          [] c.code = "c" -> Deleted([(IF c.a2.type = "none" \/ s.lastaddr \/ LastLine(s)
                                       THEN Emit(s, c.arg) ELSE s) EXCEPT !.ps = <<>>])
          [] c.code = "d" -> Deleted(s)
          [] c.code = "D" -> IF stop = 0 THEN Deleted(s)
                             ELSE Go([s EXCEPT !.ps = SubSeq(@, stop + 1, Len(@))], "top")
          [] c.code = "g" -> On([s EXCEPT !.ps = s.hs])
          [] c.code = "G" -> On([s EXCEPT !.ps = @ \o <<Newline>> \o s.hs])
          [] c.code = "h" -> On([s EXCEPT !.hs = s.ps])
          [] c.code = "H" -> On([s EXCEPT !.hs = @ \o <<Newline>> \o s.ps])
          [] c.code = "x" -> On([s EXCEPT !.ps = s.hs, !.hs = s.ps])
          [] c.code = "i" -> On(Emit(s, c.arg))
          [] c.code = "l" -> On(Emit(s, Lputs(s.ps, 0)))
          [] c.code = "n" -> On(OrExit(GetLine(FlushAppends(AutoPrint(s)), <<>>)))
          [] c.code = "N" -> On(OrExit(GetLine(FlushAppends(s), s.ps \o <<Newline>>)))
          [] c.code = "p" -> On(Out(s))
          [] c.code = "P" -> On(IF stop = 0 THEN Out(s) ELSE [Emit(s, SubSeq(s.ps, 1, stop)) EXCEPT !.anl = TRUE])
          [] c.code = "q" -> On(Exit(FinishFile(FlushAppends(AutoPrint(s))), 0))
          [] c.code = "s" -> On(Substitute(s, c, place))
          [] c.code = "t" -> IF s.sdone THEN Go([s EXCEPT !.sdone = FALSE], "to") ELSE On(s)
          [] c.code = "w" -> On(WriteTo(s, c.arg, place))
          [] c.code = "y" -> On([s EXCEPT !.ps = [k \in DOMAIN @ |->
                                IF \E i \in DOMAIN c.arg[1] : c.arg[1][i] = @[k]
                                THEN c.arg[2][CHOOSE i \in DOMAIN c.arg[1] : c.arg[1][i] = @[k]] ELSE @[k]]])
          [] c.code = "=" -> On(Emit(s, <<ToString(s.linenum), Newline>>))
          [] c.code \in {":", "}"} -> On(s)

\* process(), from command k on to the end of the cycle.
RECURSIVE Cycle(_, _, _), Tried(_, _, _), Done(_, _, _)
Cycle(p, s, k) ==
    IF s.exit # -1 THEN s
    ELSE IF k > Len(p) THEN FlushAppends(AutoPrint(s))
    ELSE Tried(p, Applies(s, p[k], k), k)

Tried(p, a, k) ==
    IF a.s.exit # -1 THEN a.s
    ELSE IF ~a.is THEN Cycle(p, a.s, p[k].next)
    ELSE Done(p, Do(a.s, p[k], k), k)

Done(p, d, k) ==
    IF d.s.exit # -1 THEN d.s
    ELSE IF d.go = "new" THEN FlushAppends(d.s)
    ELSE Cycle(p, d.s, CASE d.go = "next" -> p[k].next [] d.go = "to" -> p[k].to [] OTHER -> 1)

RECURSIVE Process(_, _), Read(_, _), Cycled(_, _)
Process(p, s) == Read(p, GetLine(s, <<>>))
Read(p, line) ==
    IF line.s.exit # -1 THEN line.s
    ELSE IF ~line.got THEN [line.s EXCEPT !.exit = line.s.rval, !.opened = {}]
    ELSE Cycled(p, Cycle(p, line.s, 1))
Cycled(p, s) == IF s.exit # -1 THEN s ELSE Process(p, s)

-----------------------------------------------------------------------------
(* A call: sed_main() and sed_full_reset().                                *)

\* The variables of a program that has just started.
Fresh ==
    [nflag |-> FALSE, inplace |-> NoInplace, fs |-> <<>>, cur |-> NoFile, rest |-> <<>>, final |-> TRUE,
     queue |-> <<>>, out |-> <<>>, tmp |-> <<>>, opened |-> {}, ps |-> <<>>, anl |-> FALSE, hs |-> <<>>,
     appends |-> <<>>, room |-> 0, lastaddr |-> FALSE, sdone |-> FALSE, defre |-> Empty, linenum |-> 0,
     inrange |-> <<>>, rval |-> 0, exit |-> -1]

\* What a call sets back of what the last one left.
ResetAll(s) ==
    [s EXCEPT !.nflag = FALSE, !.inplace = NoInplace, !.cur = NoFile, !.rest = <<>>, !.queue = <<>>,
              !.out = <<>>, !.tmp = <<>>, !.appends = <<>>, !.rval = 0, !.linenum = 0, !.exit = -1,
              !.ps = <<>>, !.hs = <<>>, !.lastaddr = FALSE, !.sdone = FALSE, !.defre = Empty]

\* A call is a record: cmds, n, a and i (the options), args (the files named)
\* and fs.
SedMain(statics, c) ==
    LET t == [ResetAll(statics) EXCEPT
                !.fs = [f \in IF c.a THEN {} ELSE Written(ReadOf(c.cmds)) |-> [lines |-> <<>>, nl |-> TRUE]] @@ c.fs]
        places == {k \in DOMAIN c.cmds : c.cmds[k].code = "w" \/ (c.cmds[k].code = "s" /\ c.cmds[k].arg.w # "")}
        u == [t EXCEPT !.nflag = c.n, !.inplace = c.i, !.queue = c.args, !.opened = IF c.a THEN {} ELSE places,
                       !.room = Cardinality({k \in DOMAIN c.cmds : c.cmds[k].code \in {"a", "r"}}),
                       !.inrange = [k \in DOMAIN c.cmds |-> FALSE]]
    IN  IF Refused(c.cmds) \/ (c.i # NoInplace /\ c.args = <<Stdin>>) THEN [t EXCEPT !.exit = 1]
        ELSE Process(Compiled(c.cmds), u)

\* What a caller sees of it.
SedSeen(s) == [out |-> s.out, fs |-> s.fs, rc |-> s.exit]
=============================================================================
