------------------------------- MODULE AwkRun -------------------------------
(***************************************************************************)
(* awk-src/run.c: the execution of a parsed awk program.  A node is        *)
(* <<kind, child, ...>>, a missing child <<>>, a list of statements or     *)
(* arguments a sequence; a condition is a comparison, as the parser makes  *)
(* it one.                                                                 *)
(*                                                                         *)
(* Exec(w, t) is the state after t, with its cell in x.  The operands of a *)
(* node, those that are always evaluated, are executed in their order;     *)
(* Step() is what the node does with them.  What it executes after that is *)
(* a node in goto: a loop goes to itself, and what the code does in the    *)
(* middle of a function, between two operands, has a node of its own.      *)
(***************************************************************************)
EXTENDS AwkFormat

Amp == 38
Ran(w) == w.stop = ""
True(w) == w.x = <<"bool", TRUE>>
Jumps(w, kinds) == w.x \in {<<"jump", k>> : k \in kinds}
Leaving == {"next", "nextfile", "return"}
TmpF(w, n) == Tmp(w, NumCell(n))
TmpS(w, s) == Tmp(w, StrCell(s))
Goto(w, t) == [w EXCEPT !.goto = <<t>>]
\* The cell r becomes v, and x is the result.
Assigning(w, r, v, x) == Goto(w, <<"put", r, v, x, <<>>>>)

-----------------------------------------------------------------------------
(* Operands: what is done with one that has been executed.  Its text or    *)
(* its number is made in its cell, it becomes an array, an automaton is    *)
(* made of it, or it is copied as the argument of a function.              *)

AsArray(w, r) ==
    IF IsArr(w, r) THEN w ELSE Put(Table(w, Makesymtab), r, ArrayCell(Len(w.heap) + 1))
Remade(w, c) == [Put(w, w.x, c) EXCEPT !.x = IF @[1] \in {"tmp", "bool"} THEN <<"tmp", c>> ELSE @]
Copycell(c) == [c EXCEPT !.t = @ \ {"CON", "FLD", "REC", "DONTFREE"}]
Copied(w) == [w EXCEPT !.loc = Append(@, Copycell(Cell(w, w.x))), !.x = <<"loc", Len(w.loc) + 1>>]
Compiled(w, made) == IF made.bad THEN Fatal(w) ELSE [w EXCEPT !.fa = made.fa]
Patterned(w, anchor) == Compiled(w, Makedfa(TextOf(Cell(w, w.x)), anchor))

Numbers == {"number", "value"}
Texts == {"text", "length", "fflush", "match", "search"}
Converted(w, mode) ==
    CASE ~Scalar(w, w.x) -> Fatal(w)
      [] Scalar(w, w.x) /\ mode = "number" -> Remade(w, Sized(Cell(w, w.x)))
      [] Scalar(w, w.x) /\ mode \in Texts -> Remade(w, Written(Cell(w, w.x)))
      [] OTHER -> w
Used(w, mode) ==
    CASE ~Ran(w) \/ mode = "cell" -> w
      [] Ran(w) /\ mode = "array" -> AsArray(w, w.x)
      [] Ran(w) /\ mode = "argument" -> IF IsArr(w, w.x) THEN w ELSE Copied(w)
      [] Ran(w) /\ mode = "length" /\ IsArr(w, w.x) -> w
      [] Ran(w) /\ mode = "fflush" /\ w.x = <<"rec">> -> w
      [] OTHER -> Converted(w, mode)
Automated(w, mode) == IF Ran(w) /\ mode \in {"match", "search"} THEN Patterned(w, mode = "search") ELSE w
After(w, mode) == IF Ran(w) THEN Automated(Used(Touch([w EXCEPT !.of = w.x], w.x), mode), mode) ELSE w

\* The operands that were executed: the cell, what it was then, what the
\* argument is a copy of, and the automaton.
Entry(w) == [r |-> w.x, c |-> Cell(w, w.x), of |-> w.of, fa |-> w.fa]
Ref(w, k) == w.xs[k].r
Num(w, k) == w.xs[k].c.n
Txt(w, k) == w.xs[k].c.s
\* A text that is kept while something else is executed: its cell may change.
Moved(w, k) == TextOf(Cell(w, Ref(w, k))) # Txt(w, k)

All(list, mode) == [k \in DOMAIN list |-> <<list[k], mode>>]
Maybe(t, mode) == IF t = <<>> THEN <<>> ELSE <<<<t, mode>>>>

-----------------------------------------------------------------------------
(* Arrays. *)

Id(w, r) == Cell(w, r).n
\* makearraystring()
Key(w, entries) == Joined([k \in DOMAIN entries |-> entries[k].c.s], TextOf(w.vars.SUBSEP))
NewTable(w, r) == Put(Table(w, Makesymtab), r, ArrayCell(Len(w.heap) + 1))
NewArray(w, r) == NewTable(IF IsArr(w, r) THEN [w EXCEPT !.heap[Id(w, r)] = Freed] ELSE w, r)

ElementOf(w, id, key) == [w EXCEPT !.heap[id] = Setsymtab(@, key, Null), !.x = <<"elem", id, key>>]
InArray(w, r, key) == ElementOf(w, Id(w, r), key)
Array(w) == InArray(AsArray(w, Ref(w, 1)), Ref(w, 1), Key(w, Tail(w.xs)))
Awkdelete(w, list) ==
    CASE ~IsArr(w, Ref(w, 1)) -> Is(w, TRUE)
      [] IsArr(w, Ref(w, 1)) /\ list = <<>> -> Is(NewArray(w, Ref(w, 1)), TRUE)
      [] OTHER -> Goto(w, <<"remove", Ref(w, 1), list>>)
Removed(w, r) == Is([w EXCEPT !.heap[Id(w, r)] = Freeelem(@, Key(w, w.xs))], TRUE)
Intest(w) == Is(w, Key(w, Tail(w.xs)) \in DOMAIN w.heap[Id(w, Ref(w, 1))].cells)

-----------------------------------------------------------------------------
(* Expressions. *)

RECURSIVE Ipow(_, _)
Ipow(x, n) ==
    IF n <= 0 THEN 1 ELSE LET v == Ipow(x, n \div 2) IN IF n % 2 = 0 THEN v * v ELSE x * v * v
Sign(n) == IF n < 0 THEN -1 ELSE 1
Quotient(i, j) == Sign(i) * Sign(j) * ((Sign(i) * i) \div (Sign(j) * j))
Result(op, i, j) ==
    CASE op = "+" -> i + j
      [] op = "-" -> i - j
      [] op = "*" -> i * j
      [] op = "/" -> Quotient(i, j)
      [] op = "%" -> i - j * Quotient(i, j)
      [] op = "^" -> Ipow(i, j)

\* Division is of multiples, the exponents are not negative.
Arith(w, op, i, j) == IF op \in {"/", "%"} /\ j = 0 THEN Fatal(w) ELSE TmpF(w, Result(op, i, j))
Incrdecr(w, op) ==
    Assigning(w, Ref(w, 1), NumCell(Num(w, 1) + (IF op \in {"++x", "x++"} THEN 1 ELSE -1)),
              IF op \in {"++x", "--x"} THEN Ref(w, 1) ELSE <<"tmp", NumCell(Num(w, 1))>>)

\* The right side is executed before the left one.
CopyOf(c) == [c EXCEPT !.t = @ \cap {"NUM", "STR"}]
Itself(w) == Ref(w, 1) = Ref(w, 2) /\ Ref(w, 1)[1] \notin {"fld", "rec"} /\ Ref(w, 1) # <<"var", "NF">>
\* A field behind the last one sets NF before the text is copied: NF's own is gone.
Overtakes(w) == Ref(w, 2)[1] = "fld" /\ Ref(w, 2)[2] > Var(w, "NF").n /\ Ref(w, 1) = <<"var", "NF">> /\ "STR" \in Var(w, "NF").t
Assign(w, op) ==
    CASE op # "=" -> Goto(w, <<"update", op, <<"ref", Ref(w, 2)>>, <<"ref", Ref(w, 1)>>>>)
      [] op = "=" /\ Itself(w) -> [w EXCEPT !.x = Ref(w, 2)]
      [] op = "=" /\ ~Itself(w) /\ ~Scalar(w, Ref(w, 1)) -> Fatal(w)
      [] op = "=" /\ Overtakes(w) -> Stop(w, "wild")
      [] OTHER -> Assigning(w, Ref(w, 2), CopyOf(Cell(w, Ref(w, 1))), Ref(w, 2))
Update(w, op) ==
    IF op \in {"/", "%"} /\ Num(w, 2) = 0
    THEN Fatal(w)
    ELSE Assigning(w, Ref(w, 1), NumCell(Result(op, Num(w, 1), Num(w, 2))), Ref(w, 1))

\* strcmp()
Before(s, r) ==
    \E i \in 1..(Len(r)) : At(s, i) < r[i] /\ \A k \in 1..(i - 1) : At(s, k) = r[k]
Ordered(op, lt, eq) ==
    CASE op = "<" -> lt
      [] op = "<=" -> lt \/ eq
      [] op = "==" -> eq
      [] op = "!=" -> ~eq
      [] op = ">" -> ~lt /\ ~eq
      [] op = ">=" -> ~lt
Compared(w, op, i, j) ==
    IF "NUM" \in i.t \cap j.t
    THEN Is(w, Ordered(op, i.n < j.n, i.n = j.n))
    ELSE Goto(w, <<"relstr", op, <<"ref", Ref(w, 1)>>, <<"ref", Ref(w, 2)>>>>)
Relop(w, op) == Compared(w, op, Cell(w, Ref(w, 1)), Cell(w, Ref(w, 2)))
Boolop(w, op, second) ==
    CASE op = "!" -> Is(w, ~True(w))
      [] op \in {"&&", "||"} /\ True(w) = (op = "||") -> w
      [] OTHER -> Goto(w, second)
Indirect(w, n) == IF n < 0 THEN Fatal(w) ELSE [w EXCEPT !.x = IF n = 0 THEN <<"rec">> ELSE <<"fld", n>>]

-----------------------------------------------------------------------------
(* Text functions: a letter is a place in the text. *)

\* substr(): the text first; of an empty one the numbers are not made.
Refs(entries) == [k \in DOMAIN entries |-> <<"ref", entries[k].r>>]
Substr1(w, rest) == IF Txt(w, 1) = <<>> THEN TmpS(w, <<>>) ELSE Goto(w, <<"substr2", Txt(w, 1), rest>>)
CutFrom(s, k, m, n) == Cut(s, m, Within(n, 0, k - m))
Substr2(w, s, k) == TmpS(w, CutFrom(s, k, Within(Num(w, 1), 1, k), IF Len(w.xs) = 2 THEN Num(w, 2) ELSE k - 1))

\* The number of the letter that the byte i belongs to.
RECURSIVE Starts(_, _)
Starts(s, i) == IF At(s, i) = 0 THEN {i} ELSE {i} \cup Starts(s, i + U8Len(s, i))
LetterOf(s, i) == Cardinality({b \in Starts(s, 1) : b <= i})
Occurs(in, s, i) == i + Len(s) - 1 <= Len(in) /\ SubSeq(in, i, i + Len(s) - 1) = s
Lowest(set) == CHOOSE i \in set : \A j \in set : i <= j
FirstOf(in, found) == IF found = {} THEN 0 ELSE LetterOf(in, Lowest(found))
Sindex(w, in, s) == TmpF(w, FirstOf(in, {i \in DOMAIN in : Occurs(in, s, i)}))

\* A pattern of the program is made with it, another when it is needed.
Matchop(w, op) == Is(w, Match(w.fa, Txt(w, 1)) = (op = "~"))
Matched(w, start, length) ==
    TmpF([w EXCEPT !.vars.RSTART = Changed(@, NumCell(start)), !.vars.RLENGTH = Changed(@, NumCell(length))], start)
Matching(w, s, m) ==
    IF m = NoMatch THEN Matched(w, 0, -1) ELSE Matched(w, LetterOf(s, m.beg), Len(Letters(SubSeq(s, m.beg, m.beg + m.len - 1))))
Matchfcn(w) == Matching(w, Txt(w, 1), Pmatch(w.fa, Txt(w, 1), 1))

\* split(): its pieces become the elements.
Numbered(tb, pieces) ==
    FoldLeft(LAMBDA acc, k : Setsymtab(acc, Decimal(k), Input(pieces[k])), tb, [k \in DOMAIN pieces |-> k])
Filled(w, r, list) == TmpF([NewArray(w, r) EXCEPT !.heap[Len(w.heap) + 1] = Numbered(Makesymtab, list)], Len(list))
SplitInto(w, r, pieces) == IF pieces.bad THEN Fatal(w) ELSE Filled(w, r, pieces.list)
Listed(list) == [bad |-> FALSE, list |-> list]
Splitted(w, s, fs, explicit, re) ==
    CASE s # <<>> /\ (Len(fs) > 1 \/ (re /\ fs # <<>>)) -> RegexPieces(s, Makedfa(fs, TRUE))
      [] (s = <<>> \/ (Len(fs) < 2 /\ ~re)) /\ w.csv /\ ~explicit -> Listed(CsvPieces(s, 1))
      [] s # <<>> /\ w.csv /\ explicit /\ ~re /\ fs = <<Space>> -> Listed(Singles(s, 1, {Space}))
      [] OTHER -> Pieces(s, fs, FALSE, {})
Split(w, sep) ==
    SplitInto(w, Ref(w, 3), Splitted(w, Txt(w, 1), Txt(w, 2), sep # <<>>, sep # <<>> /\ sep[1] = "re"))

\* The text that stands for a match: & is the match, and \ may quote it.
RECURSIVE Replacement(_, _, _)
Backsub(r, i) ==
    LET next == [k \in 1..3 |-> At(r, i + k)]
    IN  CASE next = <<Escape, Escape, Amp>> -> [s |-> <<Escape, Amp>>, at |-> i + 4]
          [] next[1] = Escape /\ next[2] = Amp -> [s |-> <<Escape>>, at |-> i + 2]
          [] next[1] = Amp -> [s |-> <<Amp>>, at |-> i + 2]
          [] next[1] = Escape /\ next[2] # Amp /\ next # <<Escape, Escape, Amp>> -> [s |-> <<Escape, Escape>>, at |-> i + 2]
          [] OTHER -> [s |-> <<Escape>>, at |-> i + 1]
Replacement(r, i, match) ==
    CASE At(r, i) = 0 -> <<>>
      [] At(r, i) = Escape -> Backsub(r, i).s \o Replacement(r, Backsub(r, i).at, match)
      [] At(r, i) = Amp -> match \o Replacement(r, i + 1, match)
      [] OTHER -> <<r[i]>> \o Replacement(r, i + 1, match)

\* dosub(): from start on, the matches so far, and where an empty match is not
\* one because the last match ended there.
RECURSIVE Dosub(_, _, _, _)
Skip(q, m) == IF m.len = 0 THEN U8Len(q.s, m.beg) ELSE 0
Inserted(q, m, ignored) ==
    [q EXCEPT !.n = IF ignored THEN @ ELSE @ + 1,
              !.out = IF ignored THEN @ ELSE @ \o Replacement(q.repl, 1, SubSeq(q.s, m.beg, m.beg + m.len - 1))]
Tailed(q, from) == [q EXCEPT !.out = @ \o SubSeq(q.s, from, Len(q.s))]
Passed(q, m, noempty) ==
    IF At(q.s, m.beg) = 0 \/ ~q.global
    THEN Tailed(q, m.beg + m.len)
    ELSE Dosub([q EXCEPT !.out = @ \o SubSeq(q.s, m.beg, m.beg + Skip(q, m) - 1)], m.beg + m.len + Skip(q, m), q.fa.start,
               IF m.len > 0 THEN m.beg + m.len ELSE noempty)
Replaced(q, start, m, noempty) ==
    IF m = NoMatch
    THEN Tailed(q, start)
    ELSE Passed(Inserted([q EXCEPT !.out = @ \o SubSeq(q.s, start, m.beg - 1)], m, m.beg = noempty /\ m.len = 0), m, noempty)
Dosub(q, start, state, noempty) == Replaced(q, start, Search(q.fa, q.s, start, state, 0, FALSE), noempty)
Substituted(w, q) == IF q.n = 0 THEN TmpF(w, 0) ELSE Assigning(w, Ref(w, 3), StrCell(q.out), <<"tmp", NumCell(q.n)>>)
Substitute(w, op, fa) ==
    Substituted(w, Dosub([fa |-> fa, s |-> Txt(w, 3), repl |-> Txt(w, 2), global |-> op = "gsub", n |-> 0, out |-> <<>>], 1, fa.init, 0))

-----------------------------------------------------------------------------
\* format(): an argument that is missing or a $ is an error.  Numbers with a
\* fraction are beyond this model, as is what is behind the end of a format
\* that ends within an item.
Format(w, parts, then) ==
    CASE Len(w.xs) < Len(Modes(parts)) \/ \E k \in DOMAIN parts : parts[k].letter = Dollar -> Fatal(w)
      [] \E k \in DOMAIN parts : parts[k].item /\ parts[k].letter \in Fractions \cup {0} -> Stop(w, "beyond")
      [] OTHER -> Goto(w, Append(then, Formatted(parts, [k \in DOMAIN w.xs |-> w.xs[k].c], <<>>)))

-----------------------------------------------------------------------------
(* Files.  The table has the standard streams first; a file that is        *)
(* written is written at once, as every print flushes it.                  *)

Slot(name, mode, fp) == [name |-> name, mode |-> mode, fp |-> fp]
Free == Slot(<<>>, "", 0)
Dev(name) == <<47, 100, 101, 118, 47>> \o name
StdIn == Dev(<<115, 116, 100, 105, 110>>)
StdOut == Dev(<<115, 116, 100, 111, 117, 116>>)
StdErr == Dev(<<115, 116, 100, 101, 114, 114>>)
Stdinit(w) == [w EXCEPT !.files = <<Slot(StdIn, "<", 1), Slot(StdOut, ">", 2), Slot(StdErr, ">", 3)>>]

\* openfile(): the stream of a file in w.fp, 0 if there is none; w.new says
\* that it was opened.  There are no pipes.
OpenAs(file, mode, name) ==
    file.name = name /\ (mode \in {file.mode, "fflush"} \/ (mode = ">>" /\ file.mode = ">"))
Found1(w, i) == [w EXCEPT !.fp = w.files[i].fp, !.new = FALSE]
Entered(files, i, slot) == [k \in 1..(IF i > Len(files) THEN i ELSE Len(files)) |-> IF k = i THEN slot ELSE files[k]]
InSlot(w, mode, name, fp, data) ==
    [w EXCEPT !.files = Entered(@, Lowest({i \in DOMAIN @ : @[i].fp = 0} \cup {Len(@) + 1}), Slot(name, IF mode = "<" THEN "<" ELSE ">", fp)),
              !.open = IF fp = 1 THEN @ ELSE Append(@, Stream(name, data)), !.fp = fp, !.new = TRUE,
              !.fs = CASE mode = "<" -> @ [] mode = ">" -> name :> <<>> @@ @ [] mode = ">>" -> @ @@ (name :> <<>>)]
Fopen(w, mode, name) ==
    CASE mode = "<" /\ name = <<Minus>> -> InSlot(w, mode, name, 1, <<>>)
      [] mode = "<" /\ name # <<Minus>> /\ name \in DOMAIN w.fs -> InSlot(w, mode, name, Len(w.open) + 1, w.fs[name])
      [] mode \in {">", ">>"} -> InSlot(w, mode, name, Len(w.open) + 1, <<>>)
      [] OTHER -> [w EXCEPT !.fp = 0, !.new = FALSE]
FindOrOpen(w, mode, name, open) == IF open # {} THEN Found1(w, Lowest(open)) ELSE Fopen(w, mode, name)
OpenFile(w, mode, name) ==
    IF name = <<>> THEN Fatal(w) ELSE FindOrOpen(w, mode, name, {i \in DOMAIN w.files : OpenAs(w.files[i], mode, name)})
\* What is to be done with the file gets its stream.
Opened(w, then) == Goto(w, Append(then, w.fp))
Redirected(redirect, then) == IF redirect = <<>> THEN Append(then, 2) ELSE <<"redirect", redirect[1], redirect[2], then>>

WriteAs(w, name, s) ==
    CASE name = <<>> -> w
      [] name = StdOut -> [w EXCEPT !.out = @ \o s]
      [] name = StdErr -> [w EXCEPT !.err = @ \o s]
      [] OTHER -> [w EXCEPT !.fs[name] = @ \o s]
Shut(w, fp) == fp > 3 /\ \A i \in DOMAIN w.files : w.files[i].fp # fp
WriteTo(w, fp, s) ==
    CASE fp = 0 -> Fatal(w)
      [] fp # 0 /\ Shut(w, fp) -> Stop(w, "wild")
      [] OTHER -> Is(WriteAs(w, w.open[fp].name, s), TRUE)
\* print writes each of its arguments before it executes the next one.
Printing(w, args, fp) ==
    IF Len(args) < 2
    THEN WriteTo(w, fp, Txt(w, 1) \o TextOf(w.vars.ORS))
    ELSE Goto(WriteTo(w, fp, Txt(w, 1) \o TextOf(w.vars.OFS)), <<"printing", Tail(args), fp>>)

\* close() of a standard stream leaves it without a file.
CloseSlot(w, i, fp) ==
    TmpF([w EXCEPT !.files[i] = Free, !.open[fp] = IF fp <= 3 THEN Stream(<<>>, <<>>) ELSE @], 0)
CloseOne(w, i) == CloseSlot(w, i, w.files[i].fp)
CloseFound(w, found) == IF found = {} THEN TmpF(w, -1) ELSE CloseOne(w, Lowest(found))
Closefile(w, name) == CloseFound(w, {i \in DOMAIN w.files : w.files[i].fp # 0 /\ w.files[i].name = name})

\* getline, of the input or of a file, for a variable or for $0.
Gotten(w, target) ==
    IF ~w.is \/ target = <<>> THEN TmpF(w, IF w.is THEN 1 ELSE 0) ELSE Goto(w, <<"getvar", target, w.buf>>)
FromStream(w, target) == Gotten(w, IF target = <<>> THEN <<"rec">> ELSE target)
Filerec(w, target, fp) == IF fp = 0 THEN TmpF(w, -1) ELSE FromStream(Readrec(w, fp, w.new), target)
Getvar(w, target, buf) ==
    Assigning(w, IF target = <<"rec">> THEN target ELSE Ref(w, 1), Input(buf), <<"tmp", NumCell(1)>>)

\* bltin(); letters are those of Latin-1.
Small == LowerCase \cup ((224..254) \ {247})
Large == UpperCase \cup ((192..222) \ {215})
Turned(c, upper) ==
    CASE upper /\ c \in Small -> c - 32
      [] ~upper /\ c \in Large -> c + 32
      [] OTHER -> c
Cased(letters, upper) == FlattenSeq([k \in DOMAIN letters |-> Encode(Turned(U8Rune(letters[k], 1), upper))])
Illegal(letters) == \E k \in DOMAIN letters : Len(letters[k]) = 1 /\ letters[k][1] > 127
Convert(w, letters, upper) == IF Illegal(letters) THEN Fatal(w) ELSE TmpS(w, Cased(letters, upper))
Length(w, r) == IF IsArr(w, r) THEN Cardinality(DOMAIN w.heap[Id(w, r)].cells) ELSE Len(Letters(Txt(w, 1)))
BltinMode(f) == CASE f \in {"length", "fflush"} -> f [] f \in {"int", "srand"} -> "number" [] OTHER -> "text"
Discard(w, args) == IF args = <<>> THEN w ELSE Goto(w, <<"discard", args, w.x>>)
Value(w, f) ==
    CASE f = "length" -> TmpF(w, Length(w, Ref(w, 1)))
      [] f = "int" -> TmpF(w, Num(w, 1))
      [] f = "system" -> TmpF(w, -1)
      [] f = "srand" -> TmpF([w EXCEPT !.seed = Num(w, 1)], w.seed)
Bltin(w, f, args) ==
    CASE f \in {"toupper", "tolower"} -> Convert(w, Letters(Txt(w, 1)), f = "toupper")
      [] f = "fflush" ->
            IF Ref(w, 1) = <<"rec">> \/ Txt(w, 1) = <<>> THEN Goto(w, <<"flushed", args, 1>>)
            ELSE Goto(w, <<"opening", "fflush", Txt(w, 1), <<"flushed", args>>>>)
      [] OTHER -> Discard(Value(w, f), args)
Flushed(w, args, fp) == Discard(TmpF(w, IF fp = 0 THEN -1 ELSE 0), args)

-----------------------------------------------------------------------------
(* Statements.  A for loop is a while loop with its third part. *)

While(w, t) == IF t[2] = <<>> \/ True(w) THEN Goto(w, <<"looped", t>>) ELSE w
Looped(w, again) ==
    CASE Jumps(w, {"break"}) -> Is(w, TRUE)
      [] Jumps(w, Leaving) -> w
      [] OTHER -> Goto(w, again)

\* for (x in a): the chains from the bucket i on.  The next key is read before
\* the body runs, which may add elements, and so move them, or delete them:
\* then what is read is not there any more.
Instat(w, body) ==
    IF IsArr(w, Ref(w, 2)) THEN Goto(w, <<"forbucket", Ref(w, 1), Id(w, Ref(w, 2)), body, 0>>) ELSE Is(w, TRUE)
Bucket(w, t, id, i) ==
    CASE Gone(w, id) -> Stop(w, "wild")
      [] ~Gone(w, id) /\ i = w.heap[id].size -> Is(w, TRUE)
      [] ~Gone(w, id) /\ i < w.heap[id].size /\ w.heap[id].tab[i] = <<>> -> Goto(w, [t EXCEPT ![5] = i + 1])
      [] OTHER -> Goto(w, <<"forkey", t[2], id, t[4], i, w.heap[id].tab[i][1]>>)
Forkey(w, t, id, key) ==
    IF Deleted(w, <<"elem", id, key>>)
    THEN Stop(w, "wild")
    ELSE Goto(w, <<"put", t[2], StrCell(key), t[2], <<<<"forbody", t[2], id, t[4], t[5], NextIn(w.heap[id], key)>>>>>>)
Forbody(w, t, next) ==
    Looped(w, IF next = <<>> THEN <<"forbucket", t[2], t[3], t[4], t[5] + 1>> ELSE <<"forkey", t[2], t[3], t[4], t[5], next[1]>>)

\* A range is open from the record its first pattern matches on, to the one its
\* second does: they may be the same.
Dopa2(w, pair, last, body) ==
    IF pair \in w.pairs \/ True(w)
    THEN Goto([w EXCEPT !.pairs = @ \cup {pair}], <<"within", pair, last, body>>)
    ELSE Is(w, FALSE)
Ranged(w, pair, body) == Goto(IF True(w) THEN [w EXCEPT !.pairs = @ \ {pair}] ELSE w, body)

Jumping(w, kind) == [w EXCEPT !.x = <<"jump", kind>>]
Returning(w, c) ==
    IF CopyOf(c).t = {} THEN Fatal(w) ELSE Jumping([w EXCEPT !.frames[Len(w.frames)].ret = CopyOf(c)], "return")
Jump(w, kind, value) ==
    CASE kind = "exit" -> Stop(IF value = <<>> THEN w ELSE [w EXCEPT !.status = Num(w, 1)], "exit")
      [] kind = "nextfile" -> Jumping(Nextfile(w), kind)
      [] kind = "return" /\ value # <<>> -> Returning(w, Cell(w, Ref(w, 1)))
      [] OTHER -> Jumping(w, kind)

-----------------------------------------------------------------------------
(* Functions.  A frame has the cells of the arguments: arrays themselves,  *)
(* copies of everything else.                                              *)

NArgs == 50
Call(w, f, args) ==
    IF f \notin DOMAIN w.funs \/ Len(args) + w.funs[f].args > NArgs THEN Fatal(w) ELSE Goto(w, <<"arguments", f, args>>)
Entering(w, fcn, args) ==
    Goto([w EXCEPT !.frames = Append(@, [args |-> args, ret |-> Null])], <<"leaving", fcn.body, w.xs, args>>)
Locals(w, n) == [w EXCEPT !.loc = @ \o Repeated(Null, n)]
Arguments(w, fcn) ==
    Entering(Locals(w, fcn.args - Len(w.xs)), fcn,
             [k \in 1..fcn.args |-> IF k <= Len(w.xs) THEN Ref(w, k) ELSE <<"loc", Len(w.loc) + k - Len(w.xs)>>])
\* A copy that became an array in the function makes its original one.
Returned(w, given, args) ==
    FoldLeft(LAMBDA u, k :
                 CASE ~IsArr(u, args[k]) \/ (k <= Len(given) /\ given[k].of = args[k]) -> u
                   [] IsArr(u, args[k]) /\ k <= Len(given) /\ given[k].of # args[k] -> Put(u, given[k].of, ArrayCell(Id(u, args[k])))
                   [] OTHER -> [u EXCEPT !.heap[Id(u, args[k])] = Freed],
             w, [k \in DOMAIN args |-> k])
Leave(w) == Tmp([w EXCEPT !.frames = Front(@)], Last(w.frames).ret)
LeaveCall(w, given, args) ==
    IF Jumps(w, {"next", "nextfile"}) THEN [Returned(w, given, args) EXCEPT !.x = w.x] ELSE Leave(Returned(w, given, args))
Arg(w, n) == [w EXCEPT !.x = Last(w.frames).args[n + 1]]

-----------------------------------------------------------------------------
(* program(): the records, until the input ends or the program does.  A    *)
(* program may leave a rule for the next record, but not BEGIN and END.    *)

Resuming == {"program", "record", "end"}
Ended(w, prog) == Goto([w EXCEPT !.stop = ""], <<"end", prog>>)
Begun(w, prog) ==
    CASE ~Ran(w) -> Ended(w, prog)
      [] Ran(w) /\ w.x[1] = "jump" -> Fatal(w)
      [] OTHER -> Goto(w, IF prog.body = <<>> /\ prog.end = <<>> THEN <<"end", prog>> ELSE <<"getrec", TRUE, <<"records", prog>>>>)
Records(w, prog) == Goto(w, <<IF w.is THEN "record" ELSE "end", prog>>)
Recorded(w, prog) == IF Ran(w) THEN Goto(w, <<"getrec", TRUE, <<"records", prog>>>>) ELSE Ended(w, prog)
End(w) ==
    CASE ~Ran(w) -> [w EXCEPT !.stop = ""]
      [] Ran(w) /\ Jumps(w, {"break", "continue", "next", "nextfile"}) -> Fatal(w)
      [] OTHER -> w

-----------------------------------------------------------------------------
(* execute(): the operands of a node, and what it does.                    *)

Binary(t, mode) == <<<<t[3], mode>>, <<t[4], mode>>>>
ValueNeeds(w, t) ==
    CASE t[1] = "arith" -> Binary(t, "number")
      [] t[1] \in {"sign", "incr"} -> <<<<t[3], "number">>>>
      [] t[1] = "assign" -> <<<<t[4], "cell">>, <<t[3], "cell">>>>
      [] t[1] = "update" -> Binary(t, "number")
      [] t[1] = "cat" -> <<<<t[2], "text">>, <<t[3], "text">>>>
      [] t[1] = "rel" -> Binary(t, "cell")
      [] t[1] = "relstr" -> Binary(t, "text")
      [] t[1] = "bool" -> <<<<t[3], "cell">>>>
      [] t[1] = "cond" -> <<<<t[2], "cell">>>>
      [] t[1] = "field" -> <<<<t[2], "number">>>>
      [] t[1] = "substr" -> <<<<t[2], "cell">>, <<t[3], "cell">>>> \o Maybe(t[4], "cell")
      [] t[1] = "substr1" -> <<<<t[2], "text">>>>
      [] t[1] = "substr2" -> All(t[3], "number")
      [] t[1] = "index" -> <<<<t[2], "text">>, <<t[3], "text">>>>
      [] t[1] = "match" -> <<<<t[3], "text">>, <<t[4], "match">>>>
      [] t[1] = "matchfcn" -> <<<<t[2], "text">>, <<t[3], "search">>>>
      [] t[1] = "split" -> <<<<t[2], "text">>, <<IF t[4] = <<>> THEN <<"var", "FS">> ELSE t[4], "text">>, <<t[3], "cell">>>>
      [] t[1] = "sub" -> <<<<t[3], "search">>, <<t[4], "text">>, <<t[5], "text">>>>
      [] t[1] = "sprintf" -> <<<<t[2][1], "text">>>>
      [] t[1] = "format" -> Formats(t[3], Modes(t[2]))
      [] t[1] = "getline" -> IF t[3] = <<>> THEN <<>> ELSE <<<<t[3][2], "text">>>>
      [] t[1] = "getvar" -> IF t[2] = <<"rec">> THEN <<>> ELSE <<<<t[2], "cell">>>>
      [] t[1] = "bltin" -> <<<<t[3], BltinMode(t[2])>>>>
      [] t[1] = "discard" -> All(t[2], "cell")
      [] t[1] = "arguments" -> All(t[3], "argument")
      [] t[1] = "leaving" -> <<<<<<"list", t[2]>>, "cell">>>>
      [] t[1] = "elem" -> <<<<t[2], "cell">>>> \o All(t[3], "text")
      [] t[1] = "in" -> <<<<t[3], "array">>>> \o All(t[2], "text")
      [] t[1] = "close" -> <<<<t[2], "text">>>>
      [] OTHER -> <<>>
StatementNeeds(w, t) ==
    CASE t[1] = "printing" -> IF t[3] = 0 THEN <<>> ELSE <<<<t[2][1], "text">>>>
      [] t[1] = "printf" -> <<<<t[2][1], "text">>>>
      [] t[1] = "redirect" -> <<<<t[3], "text">>>>
      [] t[1] \in {"if", "while", "pattern"} -> Maybe(t[2], "cell")
      [] t[1] \in {"do", "for", "next"} -> Maybe(t[2], "cell")
      [] t[1] = "looped" -> <<<<t[2][3], "cell">>>>
      [] t[1] = "again" -> <<<<t[2][3], "cell">>>>
      [] t[1] = "forin" -> <<<<t[2], "cell">>, <<t[3], "cell">>>>
      [] t[1] = "forbody" -> <<<<t[4], "cell">>>>
      [] t[1] = "range" -> IF t[2] \in w.pairs THEN <<>> ELSE <<<<t[3], "cell">>>>
      [] t[1] = "within" -> <<<<t[3], "cell">>>>
      [] t[1] = "jump" -> Maybe(t[3], IF t[2] = "exit" THEN "number" ELSE "cell")
      [] t[1] = "delete" -> <<<<t[2], "cell">>>>
      [] t[1] = "remove" -> All(t[3], "text")
      [] t[1] = "list" -> IF t[2] = <<>> THEN <<>> ELSE <<<<t[2][1], "cell">>>>
      [] t[1] = "program" -> <<<<<<"list", t[2].begin>>, "cell">>>>
      [] t[1] = "record" -> <<<<<<"list", t[2].body>>, "cell">>>>
      [] t[1] = "end" -> <<<<<<"list", t[2].end>>, "cell">>>>
      [] OTHER -> <<>>

Statements ==
    {"print", "printing", "printf", "redirect", "opening", "writing", "if", "while", "looped", "next", "do", "again", "for", "forin", "forbucket",
     "forkey", "forbody", "pattern", "range", "within", "jump", "delete", "remove", "list", "program", "getrec", "records", "record", "end"}
Needs(w, t) ==
    CASE t = <<>> -> <<>>
      [] t # <<>> /\ t[1] \in Statements -> StatementNeeds(w, t)
      [] OTHER -> ValueNeeds(w, t)

Expression(w, t) ==
    CASE t[1] = "const" -> Tmp(w, t[2])
      [] t[1] = "re" -> TmpS(w, t[2])
      [] t[1] = "var" -> [w EXCEPT !.x = t]
      [] t[1] = "ref" -> [w EXCEPT !.x = t[2]]
      [] t[1] = "arg" -> Arg(w, t[2])
      [] t[1] = "put" -> [Set(w, t[2], t[3]) EXCEPT !.x = t[4], !.goto = t[5]]
      [] t[1] = "arith" -> Arith(w, t[2], Num(w, 1), Num(w, 2))
      [] t[1] = "sign" -> TmpF(w, IF t[2] = "-" THEN -Num(w, 1) ELSE Num(w, 1))
      [] t[1] = "incr" -> Incrdecr(w, t[2])
      [] t[1] = "assign" -> Assign(w, t[2])
      [] t[1] = "update" -> Update(w, t[2])
      [] t[1] = "cat" -> TmpS(w, Txt(w, 1) \o Txt(w, 2))
      [] t[1] = "rel" -> Relop(w, t[2])
      [] t[1] = "relstr" -> Is(w, Ordered(t[2], Before(Txt(w, 1), Txt(w, 2)), Txt(w, 1) = Txt(w, 2)))
      [] t[1] = "bool" -> Boolop(w, t[2], t[4])
      [] t[1] = "cond" -> Goto(w, IF True(w) THEN t[3] ELSE t[4])
      [] t[1] = "field" -> Indirect(w, Num(w, 1))
      [] t[1] = "substr" -> Goto(w, <<"substr1", <<"ref", Ref(w, 1)>>, Refs(Tail(w.xs))>>)
      [] t[1] = "substr1" -> Substr1(w, t[3])
      [] t[1] = "substr2" -> Substr2(w, t[2], Len(Letters(t[2])) + 1)
      [] t[1] \in {"index", "match", "matchfcn"} /\ Moved(w, 1) -> Stop(w, "wild")
      [] t[1] = "index" -> Sindex(w, Txt(w, 1), Txt(w, 2))
      [] t[1] = "match" -> Matchop(w, t[2])
      [] t[1] = "matchfcn" -> Matchfcn(w)
      [] t[1] = "split" -> Split(w, t[4])
      [] t[1] = "sub" -> Substitute(w, t[2], w.xs[1].fa)
      [] t[1] = "sprintf" -> Goto(w, <<"format", Parts(Txt(w, 1), 1), Tail(t[2]), <<"text">>>>)
      [] t[1] = "format" -> Format(w, t[2], t[4])
      [] t[1] = "text" -> TmpS(w, SubSeq(t[2], 1, UpTo(t[2], 1, {}) - 1))
      [] t[1] = "getline" ->
            Goto(w, IF t[3] = <<>> THEN <<"getrec", t[2] = <<>>, <<"gotten", t[2]>>>> ELSE <<"opening", "<", Txt(w, 1), <<"filerec", t[2]>>>>)
      [] t[1] = "gotten" -> Gotten(w, t[2])
      [] t[1] = "filerec" -> Filerec(w, t[2], t[3])
      [] t[1] = "getvar" -> Getvar(w, t[2], t[3])
      [] t[1] = "bltin" -> Bltin(w, t[2], t[4])
      [] t[1] = "flushed" -> Flushed(w, t[2], t[3])
      [] t[1] = "discard" -> [w EXCEPT !.x = t[3]]
      [] t[1] = "call" -> Call(w, t[2], t[3])
      [] t[1] = "arguments" -> Arguments(w, w.funs[t[2]])
      [] t[1] = "leaving" -> LeaveCall(w, t[3], t[4])
      [] t[1] = "elem" -> Array(w)
      [] t[1] = "in" -> Intest(w)
      [] t[1] = "close" -> Closefile(w, Txt(w, 1))
Statement(w, t) ==
    CASE t[1] = "print" -> Goto(w, Redirected(t[3], <<"printing", t[2]>>))
      [] t[1] = "printing" -> Printing(w, t[2], t[3])
      [] t[1] = "printf" -> Goto(w, <<"format", Parts(Txt(w, 1), 1), Tail(t[2]), <<"writing", t[3]>>>>)
      [] t[1] = "redirect" -> Goto(w, <<"opening", t[2], Txt(w, 1), t[4]>>)
      [] t[1] = "opening" -> Opened(OpenFile(w, t[2], t[3]), t[4])
      [] t[1] = "writing" -> IF Len(t) = 3 THEN Goto(w, Redirected(t[2], t)) ELSE WriteTo(w, t[4], t[3])
      [] t[1] = "if" -> IF True(w) THEN Goto(w, t[3]) ELSE IF t[4] # <<>> THEN Goto(w, t[4]) ELSE w
      [] t[1] = "while" -> While(w, t)
      [] t[1] = "looped" -> Looped(w, <<"next", t[2][4], t[2]>>)
      [] t[1] = "next" -> Goto(w, t[3])
      [] t[1] = "do" -> Looped(w, <<"again", t>>)
      [] t[1] = "again" -> IF True(w) THEN Goto(w, t[2]) ELSE w
      [] t[1] = "for" -> Goto(w, <<"while", t[3], t[5], t[4]>>)
      [] t[1] = "forin" -> Instat(w, t[4])
      [] t[1] = "forbucket" -> Bucket(w, t, t[3], t[5])
      [] t[1] = "forkey" -> Forkey(w, t, t[3], t[6])
      [] t[1] = "forbody" -> Forbody(w, t, t[6])
      [] t[1] = "pattern" -> IF t[2] = <<>> \/ True(w) THEN Goto(w, t[3]) ELSE w
      [] t[1] = "range" -> Dopa2(w, t[2], t[4], t[5])
      [] t[1] = "within" -> Ranged(w, t[2], t[4])
      [] t[1] = "jump" -> Jump(w, t[2], t[3])
      [] t[1] = "delete" -> Awkdelete(w, t[3])
      [] t[1] = "remove" -> Removed(w, t[2])
      [] t[1] = "list" -> IF Len(t[2]) > 1 /\ w.x[1] # "jump" THEN Goto(w, <<"list", Tail(t[2])>>) ELSE IF t[2] = <<>> THEN Is(w, TRUE) ELSE w
      [] t[1] = "program" -> Begun(w, t[2])
      [] t[1] = "getrec" -> Goto(Getrec(w, t[2]), t[3])
      [] t[1] = "records" -> Records(w, t[2])
      [] t[1] = "record" -> Recorded(w, t[2])
      [] t[1] = "end" -> End(w)

Step(w, t) ==
    CASE t = <<>> -> Is(w, TRUE)
      [] t # <<>> /\ t[1] \in Statements -> Statement(w, t)
      [] OTHER -> Expression(w, t)
\* A cell may be gone since it was an operand.
Lost(w, t) == t # <<>> /\ t[1] \in {"rel", "assign"} /\ \E k \in DOMAIN w.xs : Deleted(w, Ref(w, k))
Stepped(w, t) ==
    CASE Ran(w) /\ Lost(w, t) -> Stop(w, "wild")
      [] ~Ran(w) /\ (w.stop # "exit" \/ t = <<>> \/ t[1] \notin Resuming) -> w
      [] OTHER -> Step(w, t)
RECURSIVE Exec(_, _), Operands(_, _, _)
NextOperand(w, needs, xs) == Operands(w, needs, Append(xs, Entry(w)))
Operands(w, needs, xs) ==
    IF needs = <<>> \/ ~Ran(w)
    THEN [w EXCEPT !.xs = xs]
    ELSE NextOperand(After(Exec(w, needs[1][1]), needs[1][2]), Tail(needs), xs)
Continue(w) == IF w.goto = <<>> THEN w ELSE Exec([w EXCEPT !.goto = <<>>], w.goto[1])
Exec(w, t) == Continue(Stepped(Operands(w, IF Ran(w) THEN Needs(w, t) ELSE <<>>, <<>>), t))
=============================================================================
