------------------------------ MODULE Filters ------------------------------
(***************************************************************************)
(* The sbase tools that pass text on (sbase-src/): cat, tee, head, tail,   *)
(* cut, uniq, wc and tr.  They are compiled as they are and become         *)
(* builtins of the shell, so their static variables outlive a call; a      *)
(* reset_state() at the start of main() puts back what it knows of.        *)
(*                                                                         *)
(* A text is a sequence of bytes, a file name too.  A call is a record of  *)
(* its options, with args, the operands, fs, the files, and in, the        *)
(* standard input.  What comes of a call is a set of results [statics,     *)
(* out, fs, rc]: one, unless the code leaves open what happens.            *)
(***************************************************************************)
EXTENDS Integers, Sequences, SequencesExt, FiniteSets, TLC

CONSTANT BufSize  \* the bytes that a read() gives at most

NL == 10
Dash == <<45>>
Blanks == {9, 32}
Spaces == Blanks \cup {NL}
Lower == 97..122
Upper == 65..90
Digits == 48..57
Alnum == Lower \cup Upper \cup Digits

\* UTF8_POINT(): a byte that starts a rune.
Utf8Point(b) == b \notin 128..191
ToUpper(b) == IF b \in Lower THEN b - 32 ELSE b
ToLower(b) == IF b \in Upper THEN b + 32 ELSE b
Least(S) == CHOOSE k \in S : \A j \in S : k <= j
Greatest(S) == CHOOSE k \in S : \A j \in S : j <= k
Ascending(S) == SelectSeq([k \in 1..Greatest(S \cup {0}) |-> k], LAMBDA k : k \in S)
Smaller(a, b) == IF a < b THEN a ELSE b
Behind(text, k) == SubSeq(text, k + 1, Len(text))

RECURSIVE Decimal(_)
Decimal(n) == IF n < 10 THEN <<48 + n>> ELSE Decimal(n \div 10) \o <<48 + (n % 10)>>

\* What getline() gives of a text: lines, with their newlines.
Cuts(text) == Ascending({k \in DOMAIN text : text[k] = NL \/ k = Len(text)})
LinesAt(text, cuts) == [j \in DOMAIN cuts |-> SubSeq(text, IF j = 1 THEN 1 ELSE cuts[j - 1] + 1, cuts[j])]
Lines(text) == LinesAt(text, Cuts(text))
Chomp(line) == IF line # <<>> /\ Last(line) = NL THEN Front(line) ELSE line

\* A call in progress: out, rc, the files, the standard input that is left, and
\* whether a file has been printed already.
Started(c) == [out |-> <<>>, rc |-> 0, fs |-> c.fs, in |-> c.in, any |-> FALSE]
Put(acc, text) == [acc EXCEPT !.out = @ \o text]
Result(statics, acc) == [statics |-> statics, out |-> acc.out, fs |-> acc.fs, rc |-> acc.rc]

\* eprintf(): the tool ends, by a longjmp to run_sbase_tool().
Dies(statics, acc, rc) == {[Result(statics, acc) EXCEPT !.rc = rc]}

\* The loop over the operands; one that cannot be opened is passed over.
TextOf(acc, name) == IF name = Dash THEN acc.in ELSE acc.fs[name]
EachFile(c, Use(_, _, _)) ==
    FoldLeft(LAMBDA acc, name : IF name # Dash /\ name \notin DOMAIN acc.fs THEN [acc EXCEPT !.rc = 1]
                                ELSE Use(acc, name, TextOf(acc, name)),
             Started(c), IF c.args = <<>> THEN <<Dash>> ELSE c.args)

\* The input, when all of it was read.
Spent(acc, name) == [acc EXCEPT !.in = IF name = Dash THEN <<>> ELSE @, !.any = TRUE]

\* Many files have headers, with an empty line between them.
Header(acc, c, name) ==
    IF Len(c.args) < 2 THEN acc ELSE Put(acc, (IF acc.any THEN <<NL>> ELSE <<>>) \o <<61>> \o name \o <<61, NL>>)

-----------------------------------------------------------------------------
(* cat, tee, head and tail.                                                *)

CatMain(s, c) == LET Use(acc, name, text) == Spent(Put(acc, text), name) IN {Result(s, EachFile(c, Use))}

\* -a appends to the files, which are truncated otherwise.
TeeMain(s, c) ==
    LET Into(f) == IF c.append /\ f \in DOMAIN c.fs THEN c.fs[f] \o c.in ELSE c.in
    IN  {[Result(s, Started(c)) EXCEPT !.out = c.in, !.fs = [f \in Range(c.args) |-> Into(f)] @@ @]}

\* head(), head_bytes(): the first n lines or bytes; the rest of the standard
\* input stays for the next operand.
HeadLen(c, text) ==
    IF c.bytes THEN Smaller(c.count, Len(text))
    ELSE LET cuts == Cuts(text) IN IF c.count = 0 \/ cuts = <<>> THEN 0 ELSE cuts[Smaller(c.count, Len(cuts))]
HeadMain(s, c) ==
    LET Printed(acc, name, text, k) ==
            [Put(acc, SubSeq(text, 1, k)) EXCEPT !.in = IF name = Dash THEN Behind(text, k) ELSE @, !.any = TRUE]
        Use(acc, name, text) == Printed(Header(acc, c, name), name, text, HeadLen(c, text))
    IN  {Result(s, EachFile(c, Use))}

\* dropinit(): from unit count on.
RunesAt(text) == {k \in DOMAIN text : Utf8Point(text[k])}
LastOf(mode, text) == CASE mode = "n" -> {k \in DOMAIN text : text[k] = NL}
                        [] mode = "c" -> DOMAIN text
                        [] mode = "m" -> {k \in DOMAIN text : k = Len(text) \/ Utf8Point(text[k + 1])}
Dropped(mode, text, count) ==
    LET ends == Ascending(LastOf(mode, text))
    IN  IF count < 2 THEN text ELSE IF Len(ends) < count - 1 THEN <<>> ELSE Behind(text, ends[count - 1])

\* taketail(): what is kept of the buffer after each read(); the last byte does
\* not count as a newline.  With -m the bytes that are counted are those inside
\* a rune.
\* Mutation of From: a newline at the end begins a line.
FromEnd(mode, buf) == IF mode = "n" THEN {k \in 2..(Len(buf) + 1) : buf[k - 1] = NL} ELSE DOMAIN buf
From(mode, buf) == CASE mode = "n" -> {k \in 2..Len(buf) : buf[k - 1] = NL}
                     [] mode = "c" -> DOMAIN buf
                     [] mode = "m" -> DOMAIN buf \ RunesAt(buf)
Kept(mode, buf, count) ==
    LET from == Ascending(From(mode, buf))
    IN  IF Len(from) < count THEN buf ELSE Behind(buf, from[Len(from) - count + 1] - 1)
RECURSIVE Taken(_, _, _, _)
Taken(mode, buf, text, count) ==
    IF text = <<>> \/ count = 0 THEN buf
    ELSE Taken(mode, Kept(mode, buf \o SubSeq(text, 1, Smaller(BufSize, Len(text))), count), Behind(text, BufSize), count)

TailMain(s, c) ==
    LET Use(acc, name, text) ==
            Spent(Put(Header(acc, c, name), IF c.plus THEN Dropped(c.mode, text, c.count) ELSE Taken(c.mode, <<>>, text, c.count)), name)
    IN  {Result(s, EachFile(c, Use))}

-----------------------------------------------------------------------------
(* cut.                                                                    *)

\* A range [min, max, base]: max is 0 for one with no end; base: its memory is
\* what malloc() returned, that of the first range of a list.
Apart(r, l) == r.max # 0 /\ r.max + 1 < l.min
Passes(r, l) == ~Apart(r, l) /\ l.max # 0 /\ r.min >= l.max + 2

\* insert(): in order, and ranges that touch become one.
Insert(list, r) ==
    LET at == Least({k \in DOMAIN list : ~Passes(r, list[k])} \cup {Len(list) + 1})
        to == Least({k \in DOMAIN list : k > at /\ Apart(r, list[k])} \cup {Len(list) + 1})
        last == list[to - 1].max
    IN  IF at > Len(list) \/ Apart(r, list[at]) THEN InsertAt(list, at, r)
        ELSE SubSeq(list, 1, at - 1)
             \o <<[list[at] EXCEPT !.min = Smaller(r.min, @), !.max = IF r.max = 0 \/ last = 0 THEN 0 ELSE Greatest({r.max, last})]>>
             \o Behind(list, to - 1)

\* parselist(): the ranges up to the first bad one.
BadRange(r) == r.min = 0 \/ (r.max # 0 /\ r.max < r.min)
Parsed(ranges) ==
    LET bad == Least({k \in DOMAIN ranges : BadRange(ranges[k])} \cup {Len(ranges) + 1})
    IN  FoldLeft(Insert, <<>>, [k \in 1..(bad - 1) |-> [min |-> ranges[k].min, max |-> ranges[k].max, base |-> k = 1]])

\* seek(): how many bytes of s to go over to be at position pos from prev, as
\* <<bytes, the new prev>>; first: no field has been gone over.
StartsAt(d, s, i) == i + Len(d) <= Len(s) /\ SubSeq(s, i + 1, i + Len(d)) = d
RECURSIVE SeekField(_, _, _, _, _)
SeekField(d, s, i, n, first) ==
    IF n = 0 \/ i >= Len(s) THEN i
    ELSE IF ~StartsAt(d, s, i) THEN SeekField(d, s, Least({k \in (i + 1)..Len(s) : k = Len(s) \/ Utf8Point(s[k + 1])}), n, first)
    ELSE IF n = 1 /\ ~first THEN i
    ELSE SeekField(d, s, i + Len(d), n - 1, first)
SeekByte(s, n, prev, whole) ==
    LET at == IF whole THEN Greatest({0} \cup {k \in 1..n : Utf8Point(s[k + 1])}) ELSE n
    IN  IF n >= Len(s) THEN <<Len(s), prev>> ELSE <<at, prev + at>>
SeekRune(s, n) == LET starts == Ascending(RunesAt(s)) IN IF Len(starts) <= n THEN Len(s) ELSE starts[n + 1] - 1
Seek(c, s, pos, prev, count) ==
    CASE c.mode = "b" -> SeekByte(s, pos - prev, prev, c.whole)
      [] c.mode = "c" -> <<SeekRune(s, pos - prev), pos>>
      [] c.mode = "f" -> <<SeekField(c.delim, s, IF count < 2 THEN 0 ELSE Len(c.delim), pos - prev, count = 0), pos>>

\* cut(), from range list[k] on: count counts the seeks.
RECURSIVE CutFrom(_, _, _, _, _, _)
CutFrom(c, list, k, s, prev, count) ==
    LET Last2(r, t, to) == SubSeq(t, 1, to[1]) \o CutFrom(c, list, k + 1, Behind(t, to[1]), to[2], count + 2)
        Found(r, t, p) == IF t = <<>> THEN <<>> ELSE IF r.max = 0 THEN t ELSE Last2(r, t, Seek(c, t, r.max + 1, p, count + 1))
        At(r, from) == Found(r, Behind(s, from[1]), from[2])
    IN  IF k > Len(list) THEN <<>> ELSE At(list[k], Seek(c, s, list[k].min, prev, count))

CutLine(c, list, line) ==
    IF c.mode = "f" /\ \A i \in 0..Len(line) : ~StartsAt(c.delim, line, i) THEN (IF c.only THEN <<>> ELSE line \o <<NL>>)
    ELSE CutFrom(c, list, 1, line, 1, 0) \o <<NL>>

\* reset_state() gives each range of the last call to free(), but a list is one
\* array: what free() makes of any other place in it is left open, and with it
\* whether the shell goes on.
Aborted == 134
CutMain(s, c) ==
    LET list == Parsed(c.list)
        Use(acc, name, text) ==
            Spent(Put(acc, FlattenSeq([k \in DOMAIN Lines(text) |-> CutLine(c, list, Chomp(Lines(text)[k]))])), name)
        outcome == IF \E k \in DOMAIN c.list : BadRange(c.list[k]) THEN Dies(list, Started(c), 1)
                   ELSE {Result(list, EachFile(c, Use))}
    IN  outcome \cup IF \A k \in DOMAIN s : s[k].base THEN {} ELSE Dies(list, Started(c), Aborted)

-----------------------------------------------------------------------------
(* uniq and wc.                                                            *)

\* uniqskip(): the bytes of the fields and characters that do not count.
RECURSIVE UniqSkip(_, _, _, _)
UniqSkip(line, i, fields, chars) ==
    LET word == Least({k \in i..Len(line) : k = Len(line) \/ line[k + 1] \notin Blanks})
        over == Least({k \in word..Len(line) : k = Len(line) \/ line[k + 1] \in Blanks})
    IN  IF i < Len(line) /\ fields > 0 THEN UniqSkip(line, over, fields - 1, chars)
        ELSE IF chars > 0 /\ i < Len(line) /\ line[i + 1] # NL THEN UniqSkip(line, i + 1, 0, chars - 1)
        ELSE i

\* uniqline(): u is [prev, key, count, out]; prev is <<>> when there is none.
UniqFlush(c, u) ==
    IF u.prev # <<>> /\ ((u.count = 1 /\ ~c.doubles) \/ (u.count # 1 /\ ~c.singles))
    THEN u.out \o (IF c.counts THEN Decimal(u.count) \o <<32>> ELSE <<>>) \o u.prev
    ELSE u.out
UniqLine(c, u, line, key) ==
    IF u.prev # <<>> /\ key = u.key THEN [u EXCEPT !.count = @ + 1]
    ELSE [prev |-> line, key |-> key, count |-> 1, out |-> UniqFlush(c, u)]
UniqOf(c, text) ==
    UniqFlush(c, FoldLeft(LAMBDA u, line : UniqLine(c, u, line, Behind(line, UniqSkip(line, 0, c.fields, c.chars))),
                          [prev |-> <<>>, key |-> <<>>, count |-> 0, out |-> <<>>], Lines(text)))

\* The second operand is the output.
UniqMain(s, c) ==
    LET name == IF c.args = <<>> THEN Dash ELSE c.args[1]
        missing == name # Dash /\ name \notin DOMAIN c.fs
        out == UniqOf(c, TextOf(Started(c), name))
    IN  IF missing \/ Len(c.args) > 2 THEN Dies(s, Started(c), 1)
        ELSE IF Len(c.args) < 2 \/ c.args[2] = Dash THEN {Result(s, Put(Started(c), out))}
        ELSE {Result(s, [Started(c) EXCEPT !.fs = (c.args[2] :> out) @@ @])}

\* wc(): lines, words and bytes or runes, those that are asked for.
Words(text) == Cardinality({k \in DOMAIN text : text[k] \notin Spaces /\ (k = Len(text) \/ text[k + 1] \in Spaces)})
Counts(c, text) ==
    <<Cardinality({k \in DOMAIN text : text[k] = NL}), Words(text), IF c.runes THEN Cardinality(RunesAt(text)) ELSE Len(text)>>
Shown(c, counts) ==
    LET all == c.show = {}
        which == SelectSeq(<<1, 2, 3>>, LAMBDA k : all \/ k \in c.show)
    IN  FlattenSeq([j \in DOMAIN which |-> (IF j = 1 THEN <<>> ELSE <<32>>) \o Decimal(counts[which[j]])])
WcMain(s, c) ==
    LET Line(counts, name) == Shown(c, counts) \o (IF c.args = <<>> THEN <<>> ELSE <<32>> \o name) \o <<NL>>
        Added(acc, name, counts) ==
            [Spent(Put(acc, Line(counts, name)), name) EXCEPT !.total = [k \in 1..3 |-> @[k] + counts[k]]]
        Use(acc, name, text) == Added(IF "total" \in DOMAIN acc THEN acc ELSE acc @@ [total |-> <<0, 0, 0>>], name, Counts(c, text))
        Totalled(acc) ==
            IF Len(c.args) < 2 THEN acc
            ELSE Put(acc, Line(IF "total" \in DOMAIN acc THEN acc.total ELSE <<0, 0, 0>>, <<116>>))
    IN  {Result(s, Totalled(EachFile(c, Use)))}

-----------------------------------------------------------------------------
(* tr.  The texts and the sets are ASCII, so bytes are runes.              *)

Control == (0..31) \cup {127}
Printable == 32..126
Classes ==  \* the names, in the order of classes[], and what they hold
    <<<<<<97, 108, 110, 117, 109>>, Alnum>>, <<<<97, 108, 112, 104, 97>>, Lower \cup Upper>>,
      <<<<98, 108, 97, 110, 107>>, Blanks>>, <<<<99, 110, 116, 114, 108>>, Control>>,
      <<<<100, 105, 103, 105, 116>>, Digits>>, <<<<103, 114, 97, 112, 104>>, Printable \ {32}>>,
      <<<<108, 111, 119, 101, 114>>, Lower>>, <<<<112, 114, 105, 110, 116>>, Printable>>,
      <<<<112, 117, 110, 99, 116>>, Printable \ (Alnum \cup {32})>>, <<<<115, 112, 97, 99, 101>>, Spaces \cup 11..13>>,
      <<<<117, 112, 112, 101, 114>>, Upper>>, <<<<120, 100, 105, 103, 105, 116>>, Digits \cup (97..102) \cup 65..70>>>>
LowerClass == 7
UpperClass == 11
InClass(checks, r) == \E k \in checks : r \in Classes[k][2]
InRange(set, r) == \E k \in DOMAIN set : r \in set[k].start..set[k].end

RangeLen(r) == (r.end - r.start + 1) * r.quant
SetLen(set) == FoldLeft(LAMBDA n, r : n + RangeLen(r), 0, set)

\* makeset(): what stands at offset i, as [ranges, checks, next], or Invalid.
\* A bracket goes up to offset j, the first ] that makes it an equivalence
\* class, a character class or a repetition; other brackets are literal.
Open == 91
Close == 93
At(str, k) == IF k < Len(str) THEN str[k + 1] ELSE 0
Item(start, end, quant, next) == [ranges |-> <<[start |-> start, end |-> end, quant |-> quant]>>, checks |-> {}, next |-> next]
Invalid == [ranges |-> <<>>, checks |-> {}, next |-> -1]
Literal(str, i) ==
    IF At(str, i + 1) = 45 /\ i + 2 < Len(str) /\ At(str, i + 2) >= At(str, i)
    THEN Item(At(str, i), At(str, i + 2), 1, i + 3) ELSE Item(At(str, i), At(str, i), 1, i + 1)
Named(str, i, j) ==
    LET found == {n \in DOMAIN Classes : IsPrefix(SubSeq(str, i + 3, j - 1), Classes[n][1])}
    IN  IF found = {} THEN Invalid ELSE [ranges |-> <<>>, checks |-> {Least(found)}, next |-> j + 1]
Number(digits) ==
    FoldLeft(LAMBDA n, d : n * (IF digits[1] = 48 THEN 8 ELSE 10) + (d - 48), 0, digits)
Repeated(n, set1) == IF n = 0 THEN SetLen(set1) ELSE n
RECURSIVE Bracket(_, _, _, _)
Bracket(str, i, from, set1) ==
    LET m == Least({k \in from..Len(str) : k = Len(str) \/ At(str, k) = Close})
        j == IF m = Len(str) THEN from ELSE m
        marked(b) == j - i > 3 /\ At(str, i + 1) = b /\ At(str, m - 1) = b
        digits == SubSeq(str, i + 4, j)
    IN  IF from >= Len(str) \/ j = i THEN Literal(str, i)
        ELSE IF marked(61) THEN (IF j - i = 4 THEN Item(At(str, i + 2), At(str, i + 2), 1, j + 1) ELSE Literal(str, i))
        ELSE IF marked(58) THEN Named(str, i, j)
        ELSE IF j - i > 2 /\ At(str, i + 2) = 42 /\ Range(digits) \subseteq Digits
        THEN Item(At(str, i + 1), At(str, i + 1), Repeated(Number(digits), set1), j + 1)
        ELSE Bracket(str, i, m + 1, set1)

WithRest(item, rest) == [rest EXCEPT !.ranges = item.ranges \o @, !.checks = item.checks \cup @]
RECURSIVE MakeSet(_, _, _)
MakeSet(str, i, set1) ==
    LET Then(item) == IF item.next < 0 THEN item ELSE WithRest(item, MakeSet(str, item.next, set1))
    IN  IF i >= Len(str) THEN [ranges |-> <<>>, checks |-> {}, next |-> i]
        ELSE Then(IF At(str, i) = Open THEN Bracket(str, i, i, set1) ELSE Literal(str, i))

\* The rune of set2 that stands at offset off: the last one for what is past it.
OffsetOf(set, k) == SetLen(SubSeq(set, 1, k - 1))
Standing(set, off) ==
    LET k == Greatest({j \in DOMAIN set : OffsetOf(set, j) <= off})
    IN  IF off >= SetLen(set) THEN Last(set).end ELSE set[k].start + (off - OffsetOf(set, k)) \div set[k].quant

\* A rune that no range of the first set holds goes to the last of the second.
Cased(checks, r) == IF checks = {LowerClass} THEN ToLower(r) ELSE ToUpper(r)
ToLast(t2, r) == IF t2.checks # {} THEN Cased(t2.checks, r) ELSE Last(t2.ranges).end
ToSet2(t1, t2, k, r) ==
    IF t2.checks # {} THEN Cased(t2.checks, r)
    ELSE Standing(t2.ranges, OffsetOf(t1.ranges, k) + r - t1.ranges[k].start)

\* What becomes of a rune, -1 when it is deleted.
Mapped(c, t1, t2, r) ==
    LET found == {k \in DOMAIN t1.ranges : r \in t1.ranges[k].start..t1.ranges[k].end}
        inside == found # {} \/ InClass(t1.checks, r)
    IN  IF c.squeeze /\ ~c.translate THEN r
        ELSE IF c.delete THEN (IF inside = c.complement THEN r ELSE -1)
        ELSE IF inside THEN (IF c.complement THEN r ELSE IF found # {} THEN ToSet2(t1, t2, Least(found), r) ELSE ToLast(t2, r))
        ELSE IF c.complement THEN ToLast(t2, r) ELSE r

\* -s: a rune of the last set is not repeated.
Squeezed(c, t, r, last) == c.squeeze /\ r = last /\ (InClass(t.checks, r) \/ InRange(t.ranges, r))
Translated(c, t1, t2, text) ==
    FoldLeft(LAMBDA acc, r : IF r = -1 \/ Squeezed(c, IF c.translate THEN t2 ELSE t1, r, acc.last) THEN acc
                             ELSE [out |-> Append(acc.out, r), last |-> r],
             [out |-> <<>>, last |-> 0], [k \in DOMAIN text |-> Mapped(c, t1, t2, text[k])]).out

\* c.translate: there are two sets.
TrUsage(c) == (c.delete = c.squeeze /\ ~c.translate) \/ (c.delete /\ c.translate)
BadSet2(c, t2) == c.translate /\ ((t2.ranges = <<>> /\ t2.checks = {}) \/ t2.checks \notin {{}, {LowerClass}, {UpperClass}})
NoSet == [ranges |-> <<>>, checks |-> {}, next |-> 0]
TrSets(s, c, t1, t2) ==
    IF t1.next < 0 \/ t2.next < 0 \/ BadSet2(c, t2) THEN Dies(s, Started(c), 1)
    ELSE {Result(s, Put(Started(c), Translated(c, t1, t2, c.in)))}
TrMain(s, c) ==
    LET Second(t1) == TrSets(s, c, t1, IF c.translate THEN MakeSet(c.set2, 0, t1.ranges) ELSE NoSet)
    IN  IF TrUsage(c) THEN Dies(s, Started(c), 1) ELSE Second(MakeSet(c.set1, 0, <<>>))
=============================================================================
