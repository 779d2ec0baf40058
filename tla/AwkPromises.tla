---------------------------- MODULE AwkPromises ----------------------------
(***************************************************************************)
(* What awk promises, said without its automata, its lazy fields, its hash *)
(* tables and its table of files: a regular expression by the places where *)
(* its matches can end, a record by what each assignment makes of it at    *)
(* once.  A call has a shape, and c.means what its program was made from;  *)
(* seen is [out, fs, rc].                                                  *)
(***************************************************************************)
EXTENDS AwkMain

Line(words) == FlattenSeq([k \in DOMAIN words |-> (IF k = 1 THEN <<>> ELSE <<Space>>) \o words[k]]) \o <<NL>>
Flag(b) == IF b THEN <<49>> ELSE <<48>>
Greatest(S) == CHOOSE x \in S : \A y \in S : y <= x
Ascending(S) == [k \in 1..Cardinality(S) |-> CHOOSE x \in S : Cardinality({y \in S : y < x}) = k - 1]

-----------------------------------------------------------------------------
(* Regular expressions, as trees.                                          *)

RECURSIVE Ends(_, _, _), Times(_, _, _, _)
Times(a, s, is, n) == IF n = 0 THEN is ELSE Times(a, s, UNION {Ends(a, s, i) : i \in is}, n - 1)
Ends(a, s, i) ==
    CASE a[1] \in {"char", "any", "set"} ->
            IF i <= Len(s) /\ (a[1] = "any" \/ U8Rune(s, i) \in a[2]) THEN {i + U8Len(s, i)} ELSE {}
      [] a[1] = "bol" -> {i} \cap {1}
      [] a[1] = "eol" -> {i} \cap {Len(s) + 1}
      [] a[1] = "empty" -> {i}
      [] a[1] = "cat" -> UNION {Ends(a[3], s, j) : j \in Ends(a[2], s, i)}
      [] a[1] = "or" -> Ends(a[2], s, i) \cup Ends(a[3], s, i)
      [] a[1] = "rep" -> UNION {Times(a[2], s, {i}, n) : n \in a[3]..(IF a[4] = -1 THEN a[3] + Len(s) ELSE a[4])}

LetterStarts(s) == {i \in 1..(Len(s) + 1) : i > Len(s) \/ s[i] \div 64 # 2}
\* The leftmost match from a place on, of at least so many bytes, the longest there.
Leftmost(a, s, from, least) ==
    LET ps == {p \in LetterStarts(s) : p >= from /\ \E e \in Ends(a, s, p) : e >= p + least}
    IN  IF ps = {} THEN NoMatch ELSE [beg |-> Lowest(ps), len |-> Greatest(Ends(a, s, Lowest(ps))) - Lowest(ps)]
\* The matches that do not overlap, from a place on; an empty one where the
\* last one ended is none.
RECURSIVE Matches(_, _, _, _, _)
PastMatch(s, m) == IF m.len = 0 THEN m.beg + U8Len(s, m.beg) ELSE m.beg + m.len
Matches(a, s, from, last, least) ==
    LET m == Leftmost(a, s, from, least)
    IN  CASE from > Len(s) + 1 \/ m = NoMatch -> <<>>
          [] m.len = 0 /\ m.beg = last -> Matches(a, s, PastMatch(s, m), 0, least)
          [] OTHER -> <<m>> \o Matches(a, s, PastMatch(s, m), m.beg + m.len, least)
\* The text before each match, and behind the last one.
Between2(s, ms) ==
    [k \in 1..(Len(ms) + 1) |->
        SubSeq(s, IF k = 1 THEN 1 ELSE ms[k - 1].beg + ms[k - 1].len, IF k > Len(ms) THEN Len(s) ELSE ms[k].beg - 1)]

\* match(), RSTART and RLENGTH count letters.
LettersTo(s, p) == Cardinality({i \in LetterStarts(s) : i < p})
MatchLine(a, s, m) ==
    LET start == IF m = NoMatch THEN 0 ELSE LettersTo(s, m.beg) + 1
    IN  Line(<<Decimal(start), Decimal(IF m = NoMatch THEN -1 ELSE LettersTo(s, m.beg + m.len) - LettersTo(s, m.beg)), Flag(m # NoMatch)>>)
SplitLine(a, s) ==
    LET parts == Between2(s, Matches(a, s, 1, 0, 1))
    IN  IF s = <<>> THEN Line(<<Decimal(0), <<>>>>) ELSE Line(<<Decimal(Len(parts)), Last(parts)>>)
GsubLine(a, s) ==
    LET ms == Matches(a, s, 1, 0, 0)
        parts == Between2(s, ms)
    IN  Line(<<Decimal(Len(ms)),
               FlattenSeq([k \in DOMAIN parts |->
                   parts[k] \o (IF k > Len(ms) THEN <<>> ELSE <<60>> \o SubSeq(s, ms[k].beg, ms[k].beg + ms[k].len - 1) \o <<62>>)])>>)
RegexRight(means, seen) ==
    seen.out = FlattenSeq([k \in DOMAIN means.texts |->
                   LET s == means.texts[k]
                   IN  MatchLine(means.tree, s, Leftmost(means.tree, s, 1, 0)) \o SplitLine(means.tree, s) \o GsubLine(means.tree, s)])

-----------------------------------------------------------------------------
(* Records.  Every assignment has its effect at once; the separator of the *)
(* fields is the one there was when the record was made.                   *)

Cuts(s, c) == {0, Len(s) + 1} \cup {k \in DOMAIN s : s[k] = c}
Parted(s, c) ==
    LET m == Ascending(Cuts(s, c)) IN [k \in 1..(Len(m) - 1) |-> SubSeq(s, m[k] + 1, m[k + 1] - 1)]
Runs(s) ==
    LET starts == {k \in DOMAIN s : s[k] # Space /\ (k = 1 \/ s[k - 1] = Space)}
    IN  [k \in 1..Cardinality(starts) |->
            LET from == Ascending(starts)[k]
            IN  SubSeq(s, from, Greatest({e \in from..Len(s) : \A j \in from..e : s[j] # Space}))]
FieldsOf(s, fs) == CASE fs = <<Space>> -> Runs(s) [] fs # <<Space>> /\ s = <<>> -> <<>> [] OTHER -> Parted(s, fs[1])

OfText(st, s) == [st EXCEPT !.rec = s, !.fields = FieldsOf(s, st.FS)]
OfFields(st, fields) ==
    [st EXCEPT !.fields = fields, !.rec = FlattenSeq([k \in DOMAIN fields |-> (IF k = 1 THEN <<>> ELSE st.OFS) \o fields[k]])]
FieldAt(st, k) == CASE k = 0 -> st.rec [] k \in DOMAIN st.fields -> st.fields[k] [] OTHER -> <<>>
Lengthened(st, n) == [k \in 1..n |-> FieldAt(st, k)]
Assigning1(st, k, s) ==
    IF k = 0 THEN OfText(st, s) ELSE OfFields(st, [Lengthened(st, Greatest({k, Len(st.fields)})) EXCEPT ![k] = s])
Effect(st, op) ==
    CASE op.do = "set" -> Assigning1(st, op.k, op.s)
      [] op.do = "nf" -> OfFields(st, Lengthened(st, op.k))
      [] op.do = "fs" -> [st EXCEPT !.FS = op.s]
      [] op.do = "ofs" -> [st EXCEPT !.OFS = op.s]
      [] op.do = "see" -> [st EXCEPT !.out = @ \o Line(<<FieldAt(st, op.k)>>)]
      [] op.do = "seenf" -> [st EXCEPT !.out = @ \o Line(<<Decimal(Len(st.fields))>>)]
      [] op.do = "copy" -> Assigning1(st, op.k, FieldAt(st, op.from))
      [] op.do = "getline" -> IF st.rest = <<>> THEN st ELSE OfText([st EXCEPT !.rest = Tail(@)], Head(st.rest))
RECURSIVE Rules(_, _)
Rules(st, ops) ==
    IF st.rest = <<>> THEN st ELSE Rules(FoldLeft(Effect, OfText([st EXCEPT !.rest = Tail(@)], Head(st.rest)), ops), ops)
RecordRight(means, seen) ==
    seen.out = Rules([rec |-> <<>>, fields |-> <<>>, FS |-> <<Space>>, OFS |-> <<Space>>, out |-> <<>>, rest |-> means.records], means.ops).out

-----------------------------------------------------------------------------
(* The input: records of many files, and the ranges of them.               *)

\* The records of a text: its lines, what is between runs of a letter, or its
\* paragraphs.
Unended(parts) == IF Last(parts) = <<>> THEN Front(parts) ELSE parts
RunsOf(s, c) ==
    LET starts == Ascending({k \in 2..(Len(s) + 1) : s[k - 1] = c /\ (k > Len(s) \/ s[k] # c)} \cup {1})
    IN  [k \in DOMAIN starts |->
            SubSeq(s, starts[k], Greatest({e \in (starts[k] - 1)..Len(s) : \A j \in starts[k]..e : s[j] # c}))]
Paragraphs(s) ==
    LET starts == {k \in DOMAIN s : s[k] # NL /\ \A j \in {k - 1, k - 2} \cap DOMAIN s : s[j] = NL}
        inside(k, e) == s[e] # NL /\ \A j \in k..(e - 1) : s[j] # NL \/ s[j + 1] # NL
    IN  [k \in 1..Cardinality(starts) |->
            LET from == Ascending(starts)[k] IN SubSeq(s, from, Greatest({e \in from..Len(s) : inside(from, e)}))]
RecordsOf(s, rs) ==
    CASE rs = <<>> -> Paragraphs(s)
      [] Len(rs) = 1 -> Unended(Parted(s, rs[1]))
      [] OTHER -> Unended(RunsOf(s, rs[1]))
InputLines(texts, rs, before) ==
    FlattenSeq([f \in DOMAIN texts |->
        LET rest == RecordsOf(texts[f], rs)
            already == FoldLeft(LAMBDA n, g : n + Len(RecordsOf(texts[g], rs)), before, [g \in 1..(f - 1) |-> g])
        IN  FlattenSeq([k \in DOMAIN rest |-> Line(<<Decimal(f), Decimal(k), Decimal(already + k), rest[k]>>)])])
InputRight(means, seen) == seen.out = InputLines(means.texts, means.rs, 0)

\* A record is within a range if the last one before it, or it itself, that
\* could begin the range is not behind its end.
Within1(texts, first, last, k) ==
    \E b \in 1..k :
        /\ first \in Range(texts[b])
        /\ \A j \in b..(k - 1) : last \notin Range(texts[j])
RangeRight(means, seen) ==
    seen.out = FlattenSeq([k \in DOMAIN means.texts |->
                   IF Within1(means.texts, means.first, means.last, k) THEN Line(<<means.texts[k]>>) ELSE <<>>])

-----------------------------------------------------------------------------
(* Values, arrays, functions and files.                                    *)

\* Fields that look like numbers are compared as such.
Trimmed(s) ==
    LET inner == {k \in DOMAIN s : s[k] # Space} IN IF inner = {} THEN <<>> ELSE SubSeq(s, Lowest(inner), Greatest(inner))
DigitsOf(s) == IF s # <<>> /\ s[1] \in {Plus, Minus} THEN Tail(s) ELSE s
Numeric(s) == DigitsOf(Trimmed(s)) # <<>> /\ Range(DigitsOf(Trimmed(s))) \subseteq 48..57
ValueOf(s) ==
    LET ds == DigitsOf(Trimmed(s))
        n == FoldLeft(LAMBDA v, d : v * 10 + d - 48, 0, ds)
    IN  IF Trimmed(s)[1] = Minus THEN -n ELSE n
Sorted1(s, r) == \E i \in 1..Len(r) : SubSeq(s, 1, i - 1) = SubSeq(r, 1, i - 1) /\ Len(s) >= i - 1 /\ (Len(s) = i - 1 \/ s[i] < r[i])
Compare(s, r) ==
    IF Numeric(s) /\ Numeric(r)
    THEN <<Flag(ValueOf(s) < ValueOf(r)), Flag(ValueOf(s) = ValueOf(r))>>
    ELSE <<Flag(Sorted1(s, r)), Flag(s = r)>>
CompareRight(means, seen) == seen.out = Line(Compare(means.s, means.r) \o <<Flag(Sorted1(means.s, means.r))>>)

\* A loop over an array visits the elements that it has, each once.
ArrayRight(means, seen) ==
    LET lines == Parted(seen.out, NL)
    IN  /\ Len(lines) = Cardinality(means.keys) + 1
        /\ Range(lines) \ {<<>>} = {Decimal(k) : k \in means.keys}

\* A function called by itself has its own variables, and the array that a
\* variable becomes in it is the caller's.
CallRight(means, seen) ==
    seen.out = Line(<<Decimal((means.n * (means.n + 1)) \div 2), Decimal(means.n)>>)

\* What is written to a file: > empties it when it is opened, and it is open
\* until it is closed.
Writes(fs, w) ==
    CASE w.mode = "close" -> [fs EXCEPT !.open = FALSE]
      [] w.mode = ">" /\ ~fs.open -> [open |-> TRUE, text |-> Line(<<w.s>>)]
      [] OTHER -> [open |-> TRUE, text |-> fs.text \o Line(<<w.s>>)]
FilesRight(means, seen) ==
    seen.fs[means.name] = FoldLeft(Writes, [open |-> FALSE, text |-> means.text], means.writes).text

AwkRight(c, seen) ==
    CASE c.shape = "regex" -> RegexRight(c.means, seen)
      [] c.shape = "record" -> RecordRight(c.means, seen)
      [] c.shape = "input" -> InputRight(c.means, seen)
      [] c.shape = "range" -> RangeRight(c.means, seen)
      [] c.shape = "compare" -> CompareRight(c.means, seen)
      [] c.shape = "array" -> ArrayRight(c.means, seen)
      [] c.shape = "call" -> CallRight(c.means, seen)
      [] c.shape = "files" -> FilesRight(c.means, seen)
      [] OTHER -> TRUE
=============================================================================
