------------------------------ MODULE Sorting ------------------------------
(***************************************************************************)
(* sbase's sort (sbase-src/sort.c): lines are compared by their keys, one  *)
(* after the other; -c compares each line with the one before it.          *)
(*                                                                         *)
(* A key is [sc, sch, ec, ech, flags]: where it starts and ends, columns   *)
(* and characters, and flags, a subset of {"sb", "eb", "n", "d", "f", "i", *)
(* "r"}.  A position in a line is the number of bytes before it; a line    *)
(* has its newline.                                                        *)
(***************************************************************************)
EXTENDS Filters

RECURSIVE Span(_, _, _)  \* over the bytes of S
Span(line, p, S) == IF p < Len(line) /\ line[p + 1] \in S THEN Span(line, p + 1, S) ELSE p

\* skipcolumn(): to the next separator, or over it; a column has the blanks
\* before it when there is no separator.
SkipColumn(sep, line, p, over) ==
    LET at == {q \in p..(Len(line) - Len(sep)) : SubSeq(line, q + 1, q + Len(sep)) = sep}
    IN  IF sep = <<>> THEN Span(line, Span(line, p, Blanks), 0..255 \ Spaces)
        ELSE IF at = {} THEN Len(line) - 1
        ELSE Least(at) + (IF over THEN Len(sep) ELSE 0)
RECURSIVE SkipColumns(_, _, _, _)
SkipColumns(sep, line, p, n) == IF n < 1 THEN p ELSE SkipColumns(sep, line, SkipColumn(sep, line, p, TRUE), n - 1)
SkipChars(line, p, n) == IF p + n < Len(line) THEN p + n ELSE Greatest({p, Len(line) - 1})
SkipBlanksIf(skip, line, p) == IF skip THEN Span(line, p, Blanks) ELSE p

\* columns(): the key of a line.
KeyStart(sep, line, kd) ==
    SkipChars(line, SkipBlanksIf("sb" \in kd.flags, line, SkipColumns(sep, line, 0, kd.sc - 1)), kd.sch - 1)
KeyEnd(sep, line, kd) ==
    LET column == SkipBlanksIf("eb" \in kd.flags, line, SkipColumns(sep, line, 0, kd.ec - 1))
    IN  IF kd.ec = 0 THEN Len(line) - 1
        ELSE IF kd.ech = 0 THEN SkipColumn(sep, line, column, FALSE) ELSE SkipChars(line, column, kd.ech)
Columns(sep, line, kd) == SubSeq(line, KeyStart(sep, line, kd) + 1, KeyEnd(sep, line, kd))

\* strtod(), of whole numbers.
Numeric(key) ==
    LET at == Span(key, 0, Spaces)
        signed == at < Len(key) /\ key[at + 1] \in {43, 45}
        from == IF signed THEN at + 1 ELSE at
        n == FoldLeft(LAMBDA m, d : m * 10 + (d - 48), 0, SubSeq(key, from + 1, Span(key, from, Digits)))
    IN  IF signed /\ key[at + 1] = 45 THEN -n ELSE n

\* memcmp() and then the lengths: negative, zero or positive.
Compare(a, b) ==
    LET differ == {k \in DOMAIN a \cap DOMAIN b : a[k] # b[k]}
    IN  IF differ = {} THEN Len(a) - Len(b) ELSE a[Least(differ)] - b[Least(differ)]

\* skipmodcmp(): with -d and -i some characters do not count; the last of a
\* key always does.
Ignorable(flags, b) == ("d" \in flags /\ b \notin Blanks \cup Alnum) \/ ("i" \in flags /\ b \notin Printable)
Counted(flags, key) ==
    LET kept == {k \in DOMAIN key : k = Len(key) \/ ~Ignorable(flags, key[k])}
        shown(b) == IF "f" \in flags THEN ToUpper(b) ELSE b
    IN  [j \in 1..Cardinality(kept) |-> shown(key[Ascending(kept)[j]])]

CompareKeys(flags, a, b) ==
    IF "n" \in flags THEN Numeric(a) - Numeric(b)
    ELSE IF flags \cap {"d", "f", "i"} # {} THEN Compare(Counted(flags, a), Counted(flags, b))
    ELSE Compare(a, b)

\* slinecmp(): with -u the last of several keys is passed over: it is the key
\* that main() appended.
RECURSIVE CompareFrom(_, _, _, _, _)
CompareFrom(c, keys, k, a, b) ==
    LET unused == c.unique /\ k = Len(keys) /\ k > 1
        res == IF unused THEN 0
               ELSE CompareKeys(keys[k].flags, Columns(c.sep, a, keys[k]), Columns(c.sep, b, keys[k]))
        Signed(r) == IF "r" \in keys[k].flags THEN -r ELSE r
        OrNext(r) == IF r # 0 THEN r ELSE CompareFrom(c, keys, k + 1, a, b)
    IN  IF k > Len(keys) THEN 0 ELSE OrNext(Signed(res))
LineCmp(c, keys, a, b) == CompareFrom(c, keys, 1, a, b)

\* The keys of a call: modifiers before and after -k apply to every key; -b
\* only to those that come after it.
WholeLine(flags) == [sc |-> 1, sch |-> 1, ec |-> 0, ech |-> 0, flags |-> flags]
\* Mutation of Modified: those after -k do not, as in sbase before its change.
ModifiedEarly(c) == c.keys
Modified(c) ==
    [k \in DOMAIN c.keys |-> [c.keys[k] EXCEPT !.flags = @ \cup c.global \cup IF c.blanks THEN {"sb", "eb"} ELSE {}]]
Keys(c) ==
    LET own == IF c.keys = <<>> /\ (c.global # {} \/ c.blanks) THEN <<WholeLine(c.global)>> ELSE Modified(c)
    IN  IF own = <<>> \/ ~c.check THEN Append(own, WholeLine(c.global \cap {"r"})) ELSE own

BadKey(kd) == kd.sc < 1 \/ kd.sch < 1 \/ kd.ec < 0 \/ kd.ech < 0

\* check(): prev, a static variable, is the last line that was in order, the
\* one of the last call when there was one.  -1 is no line at all.
RECURSIVE InOrder(_, _, _, _)
InOrder(c, keys, prev, lines) ==
    IF lines = <<>> THEN [prev |-> prev, disorder |-> FALSE]
    ELSE IF prev = <<>> THEN InOrder(c, keys, Head(lines), Tail(lines))
    ELSE IF (IF c.unique THEN 1 ELSE 0) > LineCmp(c, keys, Head(lines), prev) THEN [prev |-> prev, disorder |-> TRUE]
    ELSE InOrder(c, keys, Head(lines), Tail(lines))

\* The operands, in order; the standard input can be read once.
Operands(c) == IF c.args = <<>> THEN <<Dash>> ELSE c.args
Missing(c) == {k \in DOMAIN Operands(c) : Operands(c)[k] # Dash /\ Operands(c)[k] \notin DOMAIN c.fs}
TextAt(c, k) ==
    IF Operands(c)[k] # Dash THEN c.fs[Operands(c)[k]]
    ELSE IF \E j \in 1..(k - 1) : Operands(c)[j] = Dash THEN <<>> ELSE c.in

\* As <<prev, rc>>.  getline() at the end of an empty file, before there is a
\* line to compare with, ends the tool, and so does a file that is not there.
RECURSIVE CheckFrom(_, _, _, _, _)
CheckFrom(c, keys, prev, k, rc) ==
    LET Then(r) == CheckFrom(c, keys, r.prev, k + 1, IF r.disorder THEN 1 ELSE rc)
    IN  IF k > Len(Operands(c)) THEN <<prev, rc>>
        ELSE IF k \in Missing(c) THEN <<prev, 2>>
        ELSE IF prev = <<>> /\ TextAt(c, k) = <<>> THEN <<prev, 1>>
        ELSE Then(InOrder(c, keys, prev, Lines(TextAt(c, k))))

\* getlines(): each file ends with a newline.
Completed(lines) ==
    [k \in DOMAIN lines |-> IF Last(lines[k]) = NL THEN lines[k] ELSE Append(lines[k], NL)]

\* qsort(), and with -u one line of those that compare equal: which of them is
\* first depends on the order in which qsort() left them.
Ordered(c, keys, lines) == SortSeq(lines, LAMBDA a, b : LineCmp(c, keys, a, b) < 0)
Selections(c, keys, sorted) ==
    LET first == {k \in DOMAIN sorted : k = 1 \/ LineCmp(c, keys, sorted[k], sorted[k - 1]) # 0}
        same(k) == {sorted[j] : j \in {i \in DOMAIN sorted : LineCmp(c, keys, sorted[i], sorted[k]) = 0}}
        starts == Ascending(first)
    IN  {[j \in DOMAIN starts |-> choice[starts[j]]] :
            choice \in {f \in [first -> Range(sorted)] : \A k \in first : f[k] \in same(k)}}

\* What is written to a -o file stays in its buffer.
SortOut(s, c, text) ==
    IF c.outfile = <<>> THEN Result(s, Put(Started(c), text))
    ELSE Result(s, [Started(c) EXCEPT !.fs = (c.outfile :> <<>>) @@ @])
Sorted(s, c, keys, sorted) ==
    {SortOut(s, c, FlattenSeq(chosen)) : chosen \in IF c.unique THEN Selections(c, keys, sorted) ELSE {sorted}}
Checked(s, c, r) == {[Result(r[1], Started(c)) EXCEPT !.rc = r[2]]}

SortMain(s, c) ==
    IF \E k \in DOMAIN c.keys : BadKey(c.keys[k]) THEN Dies(s, Started(c), 2)
    ELSE IF c.check THEN Checked(s, c, CheckFrom(c, Keys(c), s, 1, 0))
    ELSE IF Missing(c) # {} THEN Dies(s, Started(c), 2)
    ELSE Sorted(s, c, Keys(c), Ordered(c, Keys(c), FlattenSeq([k \in DOMAIN Operands(c) |-> Completed(Lines(TextAt(c, k)))])))
=============================================================================
