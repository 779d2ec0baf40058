------------------------------ MODULE AwkCells ------------------------------
(***************************************************************************)
(* awk-src/tran.c and lib.c: the cells of a running awk program, the       *)
(* record with its fields, arrays, and the records that are read.          *)
(*                                                                         *)
(* A cell has flags, a string and a number; reading one may make the other *)
(* from it.  $0 and the fields are made from each other when one of them   *)
(* is needed: donefld says that the fields are those of $0, donerec that   *)
(* $0 is that of the fields.  An array is a hash table with chains, and    *)
(* the order of its chains is the order of a for loop.                     *)
(*                                                                         *)
(* The state w of a program is a record.  w.stop is not empty once it has  *)
(* ended; w.x is the cell the last step left, a reference:             *)
(*   <<"var", name>>, <<"rec">>, <<"fld", k>>, <<"elem", table, key>>,     *)
(*   <<"loc", k>> (an argument), <<"tmp", cell>>, <<"bool", b>>,           *)
(*   <<"jump", kind>>.                                                     *)
(* Numbers are integers; a text has no fraction and no exponent.           *)
(***************************************************************************)
EXTENDS AwkRegex

CONSTANT NSymtab    \* the buckets of a new array
FullTab == 2
GrowTab == 4

Space == 32
NL == 10
Quote == 34
White == {Space, 9, NL}

-----------------------------------------------------------------------------
(* Numbers and texts. *)

RECURSIVE Decimal(_)
Decimal(n) ==
    CASE n < 0 -> <<Minus>> \o Decimal(-n)
      [] n \in 0..9 -> <<48 + n>>
      [] OTHER -> Append(Decimal(n \div 10), 48 + (n % 10))

Blanks == 9..13 \cup {Space}
RECURSIVE PastBlanks(_, _)
PastBlanks(s, i) == IF At(s, i) \in Blanks THEN PastBlanks(s, i + 1) ELSE i

\* is_valid_number(): the number s starts with, and whether it is all of s.
Hexadecimal(s, i) == At(s, i) = 48 /\ At(s, i + 1) \in {88, 120} /\ At(s, i + 2) \in DOMAIN Hex
NoNumber == [ok |-> FALSE, all |-> FALSE, n |-> 0]
Valued(s, i, digits, end) ==
    LET value == NumberOf(SubSeq(s, digits, end - 1), Digit, 10)
    IN  IF end = digits \/ Hexadecimal(s, i)
        THEN NoNumber
        ELSE [ok |-> TRUE, all |-> PastBlanks(s, end) = Len(s) + 1, n |-> IF At(s, i) = Minus THEN -value ELSE value]
Unsigned(s, i, digits) == Valued(s, i, digits, digits + DigitsAt(s, digits, 9, Digit))
Signed(s, i) == Unsigned(s, i, IF At(s, i) \in {Plus, Minus} THEN i + 1 ELSE i)
ValidNumber(s) == Signed(s, PastBlanks(s, 1))

NumCell(n) == [t |-> {"NUM"}, s |-> <<>>, n |-> n]
StrCell(s) == [t |-> {"STR"}, s |-> s, n |-> 0]
Null == [t |-> {"NUM", "STR"}, s |-> <<>>, n |-> 0]
\* A text from outside is a number too when it looks like one.
InputOf(s, v) == [t |-> IF v.all THEN {"NUM", "STR"} ELSE {"STR"}, s |-> s, n |-> v.n]
Input(s) == InputOf(s, ValidNumber(s))
FldCell(s) == [Input(s) EXCEPT !.t = @ \cup {"FLD"}]
Blank == FldCell(<<>>)

-----------------------------------------------------------------------------
(* Arrays. *)

\* hash(): 31 * h + c in 32 bits, c signed; in two halves.
HashStep(h, c) ==
    LET lo == h.lo * 31 + (IF c < 128 THEN c ELSE c - 256)
    IN  [lo |-> lo % 65536, hi |-> (h.hi * 31 + (lo \div 65536)) % 65536]
HashOf(s, n) ==
    LET h == FoldLeft(HashStep, [lo |-> 0, hi |-> 0], s) IN ((h.hi % n) * (65536 % n) + h.lo) % n

Makesymtab == [size |-> NSymtab, tab |-> [b \in 0..(NSymtab - 1) |-> <<>>], cells |-> <<>>]
Chained(tab, size, key) == [tab EXCEPT ![HashOf(key, size)] = <<key>> \o @]
\* rehash(): the old chains, from the first bucket on, onto the new ones.
Rehash(tb) ==
    LET size == GrowTab * tb.size
        keys == FlattenSeq([b \in 1..tb.size |-> tb.tab[b - 1]])
    IN  [tb EXCEPT !.size = size,
                   !.tab = FoldLeft(LAMBDA tab, k : Chained(tab, size, k), [b \in 0..(size - 1) |-> <<>>], keys)]
Grown(tb) == IF Cardinality(DOMAIN tb.cells) + 1 > FullTab * tb.size THEN Rehash(tb) ELSE tb
Hung(tb, key, cell) == [tb EXCEPT !.tab = Chained(@, tb.size, key), !.cells = key :> cell @@ @]
Setsymtab(tb, key, cell) == IF key \in DOMAIN tb.cells THEN tb ELSE Hung(Grown(tb), key, cell)
Freeelem(tb, key) ==
    [tb EXCEPT !.tab = [b \in DOMAIN @ |-> SelectSeq(@[b], LAMBDA k : k # key)],
               !.cells = [k \in DOMAIN @ \ {key} |-> @[k]]]
\* The keys behind this one in its chain.
NextIn(tb, key) ==
    LET chain == tb.tab[HashOf(key, tb.size)]
    IN  SubSeq(chain, (CHOOSE i \in DOMAIN chain : chain[i] = key) + 1, Len(chain))

\* A new table, and the cell that becomes its array.
Table(w, tb) == [w EXCEPT !.heap = Append(@, tb)]
ArrayCell(id) == [t |-> {"ARR"}, s |-> <<>>, n |-> id]
\* A table that is gone is not one any more.
Freed == [size |-> 0]
Gone(w, id) == w.heap[id] = Freed
\* An element that was deleted: its memory is anything.
Deleted(w, r) == r[1] = "elem" /\ (Gone(w, r[2]) \/ r[3] \notin DOMAIN w.heap[r[2]].cells)

-----------------------------------------------------------------------------
(* Cells. *)

Stop(w, why) == IF w.stop = "" THEN [w EXCEPT !.stop = why] ELSE w
Fatal(w) == [Stop(w, "fatal") EXCEPT !.status = 2]
Tmp(w, c) == [w EXCEPT !.x = <<"tmp", c>>]
Is(w, b) == [w EXCEPT !.x = <<"bool", b>>]

Cell(w, r) ==
    CASE r[1] = "var" -> IF r[2] \in DOMAIN w.vars THEN w.vars[r[2]] ELSE Null
      [] r[1] = "rec" -> w.rec
      [] r[1] = "fld" -> IF r[2] <= Len(w.fld) THEN w.fld[r[2]] ELSE Blank
      [] r[1] = "elem" -> IF Deleted(w, r) THEN Null ELSE w.heap[r[2]].cells[r[3]]
      [] r[1] = "loc" -> w.loc[r[2]]
      [] r[1] = "tmp" -> r[2]
      [] r[1] = "bool" -> NumCell(IF r[2] THEN 1 ELSE 0)
      [] r[1] = "jump" -> NumCell(0)
Put(w, r, c) ==
    CASE r[1] = "var" -> [w EXCEPT !.vars = r[2] :> c @@ @]
      [] r[1] = "rec" -> [w EXCEPT !.rec = c]
      [] r[1] = "fld" -> IF r[2] <= Len(w.fld) THEN [w EXCEPT !.fld[r[2]] = c] ELSE w
      [] r[1] = "elem" -> IF Deleted(w, r) THEN w ELSE [w EXCEPT !.heap[r[2]].cells[r[3]] = c]
      [] r[1] = "loc" -> [w EXCEPT !.loc[r[2]] = c]
      [] OTHER -> w
Var(w, x) == Cell(w, <<"var", x>>)
IsArr(w, r) == "ARR" \in Cell(w, r).t

\* The number and the text of a cell.
NumOf(c) == IF "NUM" \in c.t THEN c.n ELSE ValidNumber(c.s).n
TextOf(c) == IF "STR" \in c.t THEN c.s ELSE Decimal(c.n)

\* getfval() and getsval() leave what they made in the cell; the number only
\* if it is all of the text, and not in a constant.
Measured(c, v) == [c EXCEPT !.n = v.n, !.t = IF v.all /\ "CON" \notin @ THEN @ \cup {"NUM"} ELSE @]
Sized(c) == IF "NUM" \in c.t THEN c ELSE Measured(c, ValidNumber(c.s))
Written(c) == IF "STR" \in c.t THEN c ELSE [c EXCEPT !.s = TextOf(c), !.t = (@ \cup {"STR"}) \ {"DONTFREE"}]

\* The pieces of s: of a line of comma separated values, between white
\* space, single letters, between matches of a regular expression, between
\* single separators.
RECURSIVE Quoteds(_, _, _), CsvPieces(_, _), Words(_, _), RunesAt(_, _), Between(_, _, _, _), UpTo(_, _, _)
Quoteds(s, i, out) ==
    CASE At(s, i) = 0 -> [s |-> out, at |-> i]
      [] At(s, i) = Quote /\ At(s, i + 1) = Quote -> Quoteds(s, i + 2, Append(out, Quote))
      [] At(s, i) = Quote /\ At(s, i + 1) \in {0, Comma} -> [s |-> out, at |-> i + 1]
      [] OTHER -> Quoteds(s, i + 1, Append(out, s[i]))
UpTo(s, i, ends) == IF At(s, i) \in ends \cup {0} THEN i ELSE UpTo(s, i + 1, ends)
CsvRest(s, piece) == <<piece.s>> \o (IF At(s, piece.at) = 0 THEN <<>> ELSE CsvPieces(s, piece.at + 1))
CsvPlain(s, i, end) == [s |-> SubSeq(s, i, end - 1), at |-> end]
CsvPieces(s, i) ==
    CsvRest(s, IF At(s, i) = Quote THEN Quoteds(s, i + 1, <<>>) ELSE CsvPlain(s, i, UpTo(s, i, {Comma})))
Words(s, i) ==
    CASE At(s, i) = 0 -> <<>>
      [] At(s, i) \in White -> Words(s, i + 1)
      [] OTHER -> LET end == UpTo(s, i, White) IN <<SubSeq(s, i, end - 1)>> \o Words(s, end)
RunesAt(s, i) == IF At(s, i) = 0 THEN <<>> ELSE <<SubSeq(s, i, i + U8Len(s, i) - 1)>> \o RunesAt(s, i + U8Len(s, i))
BeforeMatch(fa, s, i, m) ==
    IF m = NoMatch THEN <<SubSeq(s, i, Len(s))>> ELSE <<SubSeq(s, i, m.beg - 1)>> \o Between(fa, s, m.beg + m.len, fa.start)
Between(fa, s, i, S) == BeforeMatch(fa, s, i, Nematch(fa, s, i, S))
RECURSIVE Singles(_, _, _)
Singles(s, i, ends) ==
    LET end == UpTo(s, i, ends) IN <<SubSeq(s, i, end - 1)>> \o (IF At(s, end) = 0 THEN <<>> ELSE Singles(s, end + 1, ends))

\* makedfa() of a pattern that is made while the program runs.
Made(p, anchor) == [bad |-> p.bad, fa |-> IF p.bad THEN <<>> ELSE Mkdfa(p.tree, anchor)]
Makedfa(pat, anchor) == Made(Reparse(pat, 0), anchor)
RegexPieces(s, made) == [bad |-> made.bad, list |-> IF made.bad THEN <<>> ELSE Between(made.fa, s, 1, made.fa.init)]
Pieces(s, fs, csv, more) ==
    IF ~csv /\ Len(fs) > 1 /\ s # <<>>
    THEN RegexPieces(s, Makedfa(fs, TRUE))
    ELSE [bad |-> FALSE,
          list |-> CASE s = <<>> -> <<>>
                     [] s # <<>> /\ csv -> CsvPieces(s, 1)
                     [] s # <<>> /\ ~csv /\ fs = <<Space>> -> Words(s, 1)
                     [] s # <<>> /\ ~csv /\ fs = <<>> -> RunesAt(s, 1)
                     [] OTHER -> Singles(s, 1, {fs[1]} \cup more)]

SetNF(w, n) == [w EXCEPT !.vars.NF = [@ EXCEPT !.n = n, !.t = {"NUM"}]]
\* setlastfld(): the fields from n on are gone, and those up to it are there.
Setlastfld(w, n) ==
    IF n < 0 THEN Fatal(w) ELSE [w EXCEPT !.fld = [k \in 1..n |-> IF k <= Len(@) THEN @[k] ELSE Blank]]
Newfld(w, n) == [Setlastfld(SetNF(w, n), n) EXCEPT !.donerec = FALSE]
Savefs(w) == [w EXCEPT !.vars.FS = Written(@), !.inputFS = TextOf(w.vars.FS)]

\* fldbld(): the fields of $0, split as FS was when it was read.
Divided(w, pieces) ==
    IF pieces.bad
    THEN Fatal(w)
    ELSE SetNF([w EXCEPT !.fld = [k \in DOMAIN pieces.list |-> FldCell(pieces.list[k])], !.donefld = TRUE, !.donerec = TRUE],
               Len(pieces.list))
Divide(w) == Divided(w, Pieces(w.rec.s, w.inputFS, w.csv, IF TextOf(w.vars.RS) = <<>> THEN {NL} ELSE {}))
Fldbld(w) == IF w.donefld THEN w ELSE Divide([w EXCEPT !.rec = Written(@)])

\* recbld(): $0 is the fields with OFS between them.
Joined(parts, sep) ==
    FlattenSeq([k \in DOMAIN parts |-> IF k < Len(parts) THEN parts[k] \o sep ELSE parts[k]])
Rejoined(w, fields, sep) ==
    [w EXCEPT !.fld = fields, !.donerec = TRUE, !.vars.OFS = Written(@),
              !.rec = [@ EXCEPT !.t = {"REC", "STR", "DONTFREE"}, !.s = Joined([k \in DOMAIN fields |-> fields[k].s], sep)]]
Rejoin(w) ==
    IF w.stop # "" THEN w ELSE Rejoined(w, [k \in DOMAIN w.fld |-> Written(w.fld[k])], TextOf(w.vars.OFS))
Recbld(w) ==
    IF w.donerec THEN w ELSE Rejoin(IF w.vars.NF.n = 0 THEN [w EXCEPT !.fld = <<>>] ELSE Fldbld(w))

\* What is needed of $0 and the fields before a cell is used.
Touch(w, r) ==
    CASE (r[1] = "fld" \/ r = <<"var", "NF">>) /\ ~w.donefld -> Fldbld(w)
      [] r[1] = "rec" /\ ~w.donerec -> Recbld(w)
      [] Deleted(w, r) -> Stop(w, "wild")
      [] OTHER -> w
Scalar(w, r) == Cell(w, r).t \cap {"NUM", "STR"} # {}

\* Mutation of Disturb: the record is not rebuilt before OFS changes.
DisturbQuietly(w, r) ==
    CASE r[1] = "fld" -> [(IF r[2] > w.vars.NF.n THEN Newfld(w, r[2]) ELSE w) EXCEPT !.donerec = FALSE]
      [] r[1] = "rec" -> Savefs([w EXCEPT !.donefld = FALSE, !.donerec = TRUE])
      [] OTHER -> w
\* What the assignment to r does to $0 and the fields.
Disturb(w, r) ==
    CASE r[1] = "fld" -> [(IF r[2] > w.vars.NF.n THEN Newfld(w, r[2]) ELSE w) EXCEPT !.donerec = FALSE]
      [] r[1] = "rec" -> Savefs([w EXCEPT !.donefld = FALSE, !.donerec = TRUE])
      [] r = <<"var", "OFS">> -> Recbld(w)
      [] OTHER -> w
Changed(c, v) ==
    [t |-> (c.t \ (IF "STR" \in v.t THEN {"NUM", "STR", "DONTFREE"} ELSE {"NUM", "STR"})) \cup (v.t \cap {"NUM", "STR"}),
     s |-> IF "STR" \in v.t THEN v.s ELSE c.s,
     n |-> IF "NUM" \in v.t THEN v.n ELSE c.n]
Stored(w, r, v) == Put(w, r, Changed(Cell(w, r), v))
Resized(w) == Setlastfld([w EXCEPT !.vars.NF = Sized(@), !.donerec = FALSE], NumOf(w.vars.NF))
\* setfval() and setsval(): v is a number, a text or a text that is its number.
Set(w, r, v) ==
    CASE w.stop # "" -> w
      [] w.stop = "" /\ ~Scalar(w, r) -> Fatal(w)
      [] w.stop = "" /\ Scalar(w, r) /\ r = <<"var", "NF">> -> Resized(Stored(w, r, v))
      [] OTHER -> Stored(Disturb(w, r), r, v)

-----------------------------------------------------------------------------
(* Input.  w.open is the sequence of streams: the standard ones are 1, 2   *)
(* and 3.  A file is read whole when it is opened.                         *)

Stream(name, data) == [name |-> name, data |-> data, at |-> 1]
Read(w, fp, buf, at, is) == [w EXCEPT !.open[fp].at = at, !.buf = buf, !.is = is]

\* The end of a line of comma separated values: not within quotes.
RECURSIVE CsvLine(_, _, _, _)
Chopped(s) == IF s # <<>> /\ Last(s) = 13 THEN Front(s) ELSE s
CsvLine(s, i, quoted, buf) ==
    CASE At(s, i) = 0 -> [s |-> buf, at |-> i, is |-> FALSE]
      [] At(s, i) = NL /\ ~quoted -> [s |-> Chopped(buf), at |-> i + 1, is |-> TRUE]
      [] At(s, i) = NL /\ quoted -> CsvLine(s, i + 1, quoted, Append(Chopped(buf), NL))
      [] OTHER -> CsvLine(s, i + 1, quoted # (s[i] = Quote), Append(buf, s[i]))
\* The lines up to an empty one.
RECURSIVE Paragraph(_, _, _)
Paragraph(s, i, buf) ==
    LET end == UpTo(s, i, {NL})
        line == buf \o SubSeq(s, i, end - 1)
    IN  CASE At(s, end) = 0 -> [s |-> line, at |-> end]
          [] At(s, end) = NL /\ At(s, end + 1) \in {0, NL} -> [s |-> line, at |-> end + 2]
          [] OTHER -> Paragraph(s, end + 1, Append(line, NL))
RECURSIVE PastLines(_, _)
PastLines(s, i) == IF At(s, i) = NL THEN PastLines(s, i + 1) ELSE i

\* readrec(): a record of the stream fp, in w.buf.
ReadSlice(w, fp, from, end, past, is) == Read(w, fp, SubSeq(w.open[fp].data, from, end - 1), past, is)
ReadPiece(w, fp, piece, is) == Read(w, fp, piece.s, piece.at, is)
ReadParagraph(w, fp, par) == ReadPiece(w, fp, par, par.s # <<>>)
ReadTo(w, fp, f, m) ==
    IF m = NoMatch
    THEN ReadSlice(w, fp, f.at, Len(f.data) + 1, Len(f.data) + 1, f.at <= Len(f.data))
    ELSE ReadSlice(w, fp, f.at, m.beg, m.beg + m.len, TRUE)
ReadRegex(w, fp, f, new, made) ==
    IF made.bad THEN Fatal(w) ELSE ReadTo(w, fp, f, Fnematch(made.fa, f.data, f.at, IF new THEN made.fa.init ELSE made.fa.start))
ReadLine(w, fp, f, end) == ReadSlice(w, fp, f.at, end, end + 1, At(f.data, end) # 0 \/ end > f.at)
ReadCsv(w, fp, line) == ReadPiece(w, fp, line, line.is)
ReadAs(w, fp, f, new, rs) ==
    CASE w.csv -> ReadCsv(w, fp, CsvLine(f.data, f.at, FALSE, <<>>))
      [] ~w.csv /\ Len(rs) > 1 -> ReadRegex(w, fp, f, new, Makedfa(rs, TRUE))
      [] ~w.csv /\ rs = <<>> -> ReadParagraph(w, fp, Paragraph(f.data, PastLines(f.data, f.at), <<>>))
      [] OTHER -> ReadLine(w, fp, f, UpTo(f.data, f.at, {rs[1]}))
Readrec(w, fp, new) == ReadAs(w, fp, w.open[fp], new, TextOf(w.vars.RS))

-----------------------------------------------------------------------------
(* The files of the command line. *)

Argc(w) == w.vars.ARGC.n
Argv(w, k) ==
    LET cells == w.heap[w.vars.ARGV.n].cells IN IF Decimal(k) \in DOMAIN cells THEN TextOf(cells[Decimal(k)]) ELSE <<>>

Letter(c) == c \in UpperCase \cup LowerCase \cup {95}
RECURSIVE NameEnd(_, _)
NameEnd(s, i) == IF Letter(At(s, i)) \/ At(s, i) \in DOMAIN Digit THEN NameEnd(s, i + 1) ELSE i
Isclvar(s) == Letter(At(s, 1)) /\ At(s, NameEnd(s, 1)) = Equals

RECURSIVE Qstring(_, _)
QChar(s, i, c) == IF c \in DOMAIN Digit THEN Number(s, i + 1, 3, Digit, 8) ELSE [c |-> IF c \in DOMAIN Escapes THEN Escapes[c] ELSE c, at |-> i + 2]
QMore(s, q) == <<q.c % 256>> \o Qstring(s, q.at)
Qstring(s, i) ==
    CASE At(s, i) = 0 -> <<>>
      [] At(s, i) = Escape /\ At(s, i + 1) = 0 -> <<Escape>>
      [] OTHER -> QMore(s, IF s[i] = Escape THEN QChar(s, i, At(s, i + 1)) ELSE [c |-> s[i], at |-> i + 1])
\* A variable of the command line: w.names gives its name.
SetVariable(w, name, value) == Set([w EXCEPT !.vars = @ @@ (name :> StrCell(<<>>))], <<"var", name>>, value)
Setclvar(w, s, end) == SetVariable(w, w.names[SubSeq(s, 1, end - 1)], Input(Qstring(s, end + 1)))

\* The arguments up to the next file: assignments are made, empty ones left out.
RECURSIVE Skipped(_), SkipOne(_, _)
SkipOne(w, s) ==
    CASE s = <<>> -> Skipped([w EXCEPT !.argno = @ + 1])
      [] s # <<>> /\ Isclvar(s) -> Skipped([Setclvar(w, s, NameEnd(s, 1)) EXCEPT !.argno = @ + 1])
      [] OTHER -> w
Skipped(w) == IF w.argno >= Argc(w) \/ w.stop # "" THEN w ELSE SkipOne(w, Argv(w, w.argno))

OpenNext(w, s) ==
    LET v == [w EXCEPT !.vars.FILENAME = Changed(@, StrCell(s)), !.vars.FNR = NumCell(0), !.innew = TRUE]
    IN  CASE s = <<Minus>> -> [v EXCEPT !.infile = 1]
          [] s # <<Minus>> /\ s \in DOMAIN w.fs -> [v EXCEPT !.open = Append(@, Stream(s, w.fs[s])), !.infile = Len(w.open) + 1]
          [] OTHER -> Fatal(w)
\* initgetrec() and getrec(): the first time the standard input may be it.
Chosen(w) ==
    CASE w.stop # "" -> w
      [] w.stop = "" /\ w.argno < Argc(w) -> OpenNext([w EXCEPT !.firsttime = FALSE], Argv(w, w.argno))
      [] OTHER -> [w EXCEPT !.firsttime = FALSE, !.innew = TRUE, !.infile = IF w.firsttime THEN 1 ELSE 0]

\* getrec(): the next record of the input, for $0 or only in w.buf; w.is says
\* whether there was one.  At the end $0 stays: all of it, or its first byte.
Counted(w) == [w EXCEPT !.vars.NR = NumCell(@.n + 1), !.vars.FNR = NumCell(@.n + 1), !.is = TRUE]
Record(w) == Savefs([w EXCEPT !.rec = [Input(w.buf) EXCEPT !.t = @ \cup {"REC", "DONTFREE"}], !.donefld = FALSE, !.donerec = TRUE])
Wiped(w) ==
    [w EXCEPT !.rec.s = IF ~w.csv /\ Len(TextOf(w.vars.RS)) > 1 /\ "DONTFREE" \in w.rec.t /\ @ # <<>> THEN <<@[1]>> ELSE @]
Nextfile(w) == [w EXCEPT !.infile = 0, !.argno = @ + 1]
RECURSIVE Getrec(_, _)
OneRecord(w, isrecord) ==
    CASE w.stop # "" -> w
      [] w.stop = "" /\ (w.is \/ w.buf # <<>>) -> Counted(IF isrecord THEN Record(w) ELSE w)
      [] OTHER -> Getrec(Nextfile(IF isrecord THEN Wiped(w) ELSE w), isrecord)
FromFile(w, isrecord) ==
    CASE w.stop # "" -> w
      [] w.stop = "" /\ w.infile = 0 -> [w EXCEPT !.is = FALSE]
      [] OTHER -> OneRecord([Readrec(w, w.infile, w.innew) EXCEPT !.innew = FALSE], isrecord)
Getrec(w, isrecord) == FromFile(IF w.infile = 0 THEN Chosen(Skipped(w)) ELSE w, isrecord)
=============================================================================
