---------------------------- MODULE MCTextTools ----------------------------
(***************************************************************************)
(* The calls of the text tools: small files of few lines, few options.     *)
(***************************************************************************)
EXTENDS TextTools, SequencesExt, FiniteSets

Files(lines, n) == UNION {[1..k -> lines] : k \in 0..n}

-----------------------------------------------------------------------------
(* diff: x has the hash of a, i is ignorable, and a0 is a without its      *)
(* newline.                                                                *)

MCHash == [a |-> 1, b |-> 2, x |-> 1, i |-> 3, c |-> 4, d |-> 5, e |-> 6, f |-> 7, a0 |-> 1] @@ ("." :> 8)
MCFold == [l \in DOMAIN MCHash |-> IF l = "b" THEN "a" ELSE l]
MCIgnored == {"i"}
MCIncomplete == {"a0"}

O(format, context) ==
    [format |-> format, context |-> context, fold |-> FALSE, minimal |-> FALSE, ignore |-> FALSE]
Pairs(os, fs, gs) == [tool: {"diff"}, kind: {"files"}, o: os, old: fs, new: gs]

\* A file of six lines and what becomes of it when some are changed, deleted
\* or doubled: the groups of -u and -c.
Long == <<"a", "b", "c", "d", "e", "a">>
Edited ==
    {FlattenSeq([k \in 1..6 |-> CASE k \notin s -> <<Long[k]>> [] m = "deleted" -> <<>>
                                  [] m = "changed" -> <<"x">> [] OTHER -> <<Long[k], "x">>]) :
        s \in SUBSET (1..6), m \in {"deleted", "changed", "doubled"}}
Grouped == {O("unified", 0), O("unified", 1), O("context", 0), O("context", 1)}

Ends == {<<>>, <<"a">>, <<"a0">>, <<"b", "a0">>, <<"b", "a">>, <<"a", "a0">>, <<"b">>}

Dir(f) == [kind |-> "dir", in |-> f]
File(t) == [kind |-> "file", text |-> t]
Missing == [kind |-> "none"]
Leaves == {Missing, File("p"), File(""), Dir(<<>>), Dir([n \in {1} |-> File("p")])}
Trees == {Dir([n \in {m \in 1..2 : l[m] # Missing} |-> l[n]]) : l \in [1..2 -> Leaves]}
Flags(flags) ==
    [N |-> "N" \in flags, P |-> "P" \in flags, r |-> "r" \in flags, s |-> "s" \in flags,
     start |-> 0, excluded |-> {}]
DirOpts ==
    {Flags({}), Flags({"r", "s"}), Flags({"r", "N"}), Flags({"P"}), Flags({"r", "P"}),
     [Flags({"r", "P"}) EXCEPT !.start = 2], [Flags({"r"}) EXCEPT !.excluded = {1}]}

DiffSeries ==
    {[tool |-> "diff", kind |-> "files", o |-> o, old |-> <<"a", "b">>, new |-> new] :
        o \in {O("normal", 0), O("unified", 1), [O("normal", 0) EXCEPT !.ignore = TRUE], [O("rcs", 0) EXCEPT !.fold = TRUE]},
        new \in {<<"a", "x">>, <<"a", "b", "i">>, <<"a", "b">>}}

DiffSets == <<
    Pairs({O("normal", 0)}, Files({"a", "b", "x"}, 3), Files({"a", "b", "x"}, 3)),
    Pairs({O(f, 0) : f \in {"rcs", "edit", "ifdef", "brief"}}, Files({"a", "b"}, 3), Files({"a", "x"}, 3)),
    Pairs({[O("normal", 0) EXCEPT !.minimal = TRUE]}, Files({"a", "b"}, 4), Files({"a", "b"}, 4)),
    Pairs(Grouped, {Long}, Edited),
    Pairs({O("unified", 1), O("context", 1), O("normal", 0), O("rcs", 0), O("ifdef", 0)}, Ends, Ends),
    Pairs({O("edit", 0)}, Files({"a", "."}, 2), Files({"a", "."}, 3)),
    Pairs({[O(f, 0) EXCEPT !.ignore = TRUE] : f \in {"edit", "rcs", "ifdef"}}, Files({"a", "i"}, 2), Files({"a", "i", "."}, 3)),
    Pairs({[O(f, 0) EXCEPT !.fold = TRUE] : f \in {"normal", "rcs"}}, Files({"a", "b", "x"}, 2), Files({"a", "b", "x"}, 3)),
    [tool: {"diff"}, kind: {"dirs"}, o: DirOpts, t1: Trees, t2: Trees] >>

-----------------------------------------------------------------------------
(* sed: a case has the commands, a choice of files and of options.         *)

NoAddr == S!Addr("none", 0)
Com(code, a1, a2, not, arg) == [code |-> code, a1 |-> a1, a2 |-> a2, not |-> not, arg |-> arg]
C(code, arg) == Com(code, NoAddr, NoAddr, FALSE, arg)
Re(bol, char, star, eol) == [bol |-> bol, char |-> char, star |-> star, eol |-> eol]
ReAddr(char) == S!Addr("re", Re(FALSE, char, FALSE, FALSE))
NoFiles == <<>>
LinesFile(ls) == [lines |-> [k \in DOMAIN ls |-> <<ls[k]>>], nl |-> TRUE]
Input == "f"

Words == UNION {[1..k -> {"a", "b"}] : k \in 0..4}
Regexps == {Re(b, ch, s, e) : b \in BOOLEAN, ch \in {"a", "b"}, s \in BOOLEAN, e \in BOOLEAN} \cup {Re(TRUE, "", FALSE, FALSE), Re(FALSE, "", FALSE, TRUE)}
SubstCases == [tool: {"sed"}, shape: {"s"}, re: Regexps, new: {<<"x">>, <<"&", "&">>, <<>>}, n: 0..3, text: Words, nl: {TRUE}]

Addresses == [k \in 1..4 |-> S!Addr("line", k)] \o <<S!Addr("last", 0), ReAddr("a"), ReAddr("b"), NoAddr>>
RangeCases == [tool: {"sed"}, shape: {"range"}, a1: DOMAIN Addresses, a2: DOMAIN Addresses, not: BOOLEAN,
               first: Files({"a", "b"}, 3), second: {<<>>, <<"a">>, <<"b", "a">>}]

Sub(n, p, w) == C("s", [re |-> Re(FALSE, "a", FALSE, FALSE), new |-> <<"x">>, n |-> n, p |-> p, w |-> w])
Edits ==
    [k \in 1..9 |-> C(<<"d", "g", "G", "h", "H", "P", "p", "x", "=">>[k], "")]
    \o [k \in 1..3 |-> C(<<"a", "i", "c">>[k], <<"t">>)]
    \o <<Com("d", S!Addr("line", 1), S!Addr("last", 0), FALSE, ""), Com("d", S!Addr("line", 1), ReAddr("b"), FALSE, ""),
          Com("d", ReAddr("a"), S!Addr("line", 2), FALSE, ""), Com("d", ReAddr("a"), ReAddr("b"), FALSE, ""),
          Com("c", S!Addr("line", 1), S!Addr("line", 2), FALSE, <<"t">>), Com("{", ReAddr("a"), NoAddr, FALSE, ""), C("}", ""),
          Com("q", S!Addr("line", 2), NoAddr, FALSE, ""), Com("N", S!Addr("last", 0), NoAddr, TRUE, ""), C("w", "o"),
          Sub(1, TRUE, ""), C("t", ""), C("l", ""), C("y", <<<<"a">>, <<"b">>>>)>>
InPlaceCases == [tool: {"sed"}, shape: {"inplace"}, c1: DOMAIN Edits, c2: DOMAIN Edits, first: Files({"a", "b"}, 2), second: {<<"a">>, <<"b", "a">>}, i: {"", "~"}, nl: BOOLEAN]

Scripts ==
    << <<C("G", "")>>, <<C("H", "")>>, <<C("x", "")>>, <<Com("p", S!Addr("re", S!Empty), NoAddr, FALSE, "")>>,
       <<Com("p", ReAddr("a"), S!Addr("line", 9), FALSE, "")>>, <<Sub(0, FALSE, "o"), C("q", "")>>,
       <<C("t", ""), C("=", "")>>, <<C("N", ""), C("N", "")>>,
       <<Com("N", S!Addr("last", 0), NoAddr, TRUE, ""), C("P", ""), C("D", "")>> >>
SedSeries ==
    [tool: {"sed"}, shape: {"series"}, script: DOMAIN Scripts, n: BOOLEAN, i: {S!NoInplace, "~"}, args: {<<Input>>, <<"z">>}]

SedSets == <<SubstCases, RangeCases, InPlaceCases, SedSeries>>

SedCall(c) ==
    LET base == [cmds |-> <<>>, n |-> FALSE, a |-> FALSE, i |-> S!NoInplace, args |-> <<Input>>, fs |-> NoFiles]
    IN  CASE c.shape = "s" -> [base EXCEPT !.cmds = <<C("s", [re |-> c.re, new |-> c.new, n |-> c.n, p |-> FALSE, w |-> ""])>>,
                                           !.fs = Input :> [lines |-> <<c.text>>, nl |-> c.nl]]
          [] c.shape = "range" -> [base EXCEPT !.cmds = <<Com("p", Addresses[c.a1], IF Addresses[c.a1].type = "none" THEN NoAddr ELSE Addresses[c.a2], c.not, "")>>, !.n = TRUE,
                                               !.args = <<Input, "g">>, !.fs = Input :> LinesFile(c.first) @@ "g" :> LinesFile(c.second)]
          [] c.shape = "inplace" -> [base EXCEPT !.cmds = <<Edits[c.c1], Edits[c.c2]>>, !.i = c.i, !.args = <<Input, "g">>,
                                                 !.fs = Input :> [LinesFile(c.first) EXCEPT !.nl = c.nl \/ c.first = <<>>] @@ "g" :> LinesFile(c.second)]
          [] c.shape = "series" -> [base EXCEPT !.cmds = Scripts[c.script], !.n = c.n, !.i = c.i, !.args = c.args, !.fs = Input :> LinesFile(<<"a", "b">>)]

-----------------------------------------------------------------------------
(* The sbase tools: a and b are letters, : a separator.                    *)

NewL == 10
Texts(bytes, n) == UNION {[1..k -> bytes] : k \in 0..n}
Joins(lines, n) == {FlattenSeq(ls) : ls \in Texts(lines, n)}
NoInput == [args |-> <<>>, fs |-> <<>>, in |-> <<>>]
With(tool, options) == options @@ [tool |-> tool] @@ NoInput

ByteRanges == [min: 1..3, max: 0..4]
RangeLists == Texts({r \in ByteRanges : r.max = 0 \/ r.min <= r.max}, 2)
              \cup {<<[min |-> 2, max |-> 2], [min |-> 4, max |-> 4], [min |-> 1, max |-> 3]>>, <<[min |-> 6, max |-> 0], [min |-> 3, max |-> 3], [min |-> 1, max |-> 1], [min |-> 2, max |-> 6]>>,
                    <<[min |-> 0, max |-> 1]>>, <<[min |-> 2, max |-> 2], [min |-> 3, max |-> 1]>>}
CutTexts ==
    <<97, 58, 98, 58, 97, 98, 58, 58, 97, NewL, 58, 97, 58, NewL, NewL, 97, 195, 169, 98, NewL, 195, 169, 58, 97>>
CutCases ==
    {With("cut", [mode |-> m, list |-> l, delim |-> <<58>>, only |-> o, whole |-> FALSE, in |-> CutTexts]) :
        m \in {"b", "c", "f"}, l \in RangeLists \ {<<>>}, o \in BOOLEAN}
UniqCases ==
    {With("uniq", [fields |-> f, chars |-> k, counts |-> d[1], doubles |-> d[2], singles |-> d[3], in |-> t]) :
        f \in 0..1, k \in 0..1, d \in {<<TRUE, FALSE, FALSE>>, <<FALSE, TRUE, FALSE>>, <<FALSE, FALSE, TRUE>>},
        t \in Texts({97, 32, NewL}, 4) \cup Joins({<<97, NewL>>, <<98, 97, NewL>>, <<98, 32, 97, NewL>>}, 3)}
HeadCases == {With("head", [bytes |-> b, count |-> n, in |-> t]) : b \in BOOLEAN, n \in 0..2, t \in Texts({97, NewL}, 4)}
TailCases ==
    {With("tail", [mode |-> m, plus |-> p, count |-> n, in |-> t]) :
        m \in {"n", "c"}, p \in BOOLEAN, n \in 0..3, t \in Texts({97, NewL}, 6)}

\* The items of a set of tr, and how they are written.
Items == {<<"range", 97, 99>>, <<"range", 98, 98>>, <<"range", 45, 45>>, <<"class", 7>>, <<"class", 5>>}
Second == Items \cup {<<"class", 11>>, <<"rep", 120, 2>>, <<"rep", 121, 0>>}
Written(item) ==
    CASE item[1] = "range" -> IF item[2] = item[3] THEN <<item[2]>> ELSE <<item[2], 45, item[3]>>
      [] item[1] = "class" -> <<91, 58>> \o F!Classes[item[2]][1] \o <<58, 93>>
      [] item[1] = "rep" -> <<91, item[2], 42>> \o (IF item[3] = 0 THEN <<>> ELSE F!Decimal(item[3])) \o <<93>>
SetText(items) == FlattenSeq([k \in DOMAIN items |-> Written(items[k])])
TrText == <<97, 97, 98, 98, 45, 45, 99, 100, 66, 66, 49, 49, 120, 120>>
TrCall(one, two, flags) ==
    With("tr", [items1 |-> one, items2 |-> two, set1 |-> SetText(one), set2 |-> SetText(two), translate |-> flags[1],
                complement |-> flags[2], delete |-> flags[3], squeeze |-> flags[4], in |-> TrText])
TrCases ==
    {TrCall(one, two, <<TRUE, c, FALSE, s>>) :
        one \in {i \in Texts(Items, 2) : \E k \in DOMAIN i : i[k][1] = "range"},
        two \in {i \in Texts(Second, 2) : Len(i) = 2 => i[1][1] = "rep"}, c \in BOOLEAN, s \in BOOLEAN}
    \cup {TrCall(one, <<>>, <<FALSE, c, TRUE, FALSE>>) : one \in Texts(Items, 2) \ {<<>>}, c \in BOOLEAN}
    \cup {TrCall(one, <<>>, <<FALSE, FALSE, FALSE, TRUE>>) : one \in Texts(Items, 2) \ {<<>>}}

SortLines == {<<97, 58, 98, NewL>>, <<65, 32, 97, NewL>>, <<32, 97, 32, 98, NewL>>, <<49, 48, 32, 97, NewL>>, <<57, 32, 98, 58, 97, NewL>>}
Key(sc, sch, ec, ech, flags) == [sc |-> sc, sch |-> sch, ec |-> ec, ech |-> ech, flags |-> flags]
SortKeys ==
    {<<>>, <<Key(2, 1, 0, 0, {})>>, <<Key(1, 1, 1, 0, {"n"})>>, <<Key(2, 1, 2, 0, {"sb"}), Key(1, 1, 1, 0, {"r"})>>,
     <<Key(1, 2, 1, 2, {})>>, <<Key(2, 1, 2, 1, {"sb", "eb"})>>}
\* -d only where no key ends with a character that does not count.
SortCases ==
    {With("sort", [keys |-> k, global |-> {"d", "f"}, blanks |-> b, sep |-> <<>>, unique |-> u, check |-> FALSE, outfile |-> <<>>, in |-> t]) :
        k \in {l \in SortKeys : \A j \in DOMAIN l : l[j].ech = 0}, b \in BOOLEAN, u \in BOOLEAN, t \in Joins(SortLines, 2)} \cup
    {With("sort", [keys |-> k, global |-> g, blanks |-> FALSE, sep |-> p, unique |-> u, check |-> FALSE, outfile |-> <<>>, in |-> t]) :
        k \in SortKeys, g \in {{}, {"r"}, {"f"}, {"n"}}, p \in {<<>>, <<58>>}, u \in BOOLEAN, t \in Joins(SortLines, 2)} \cup
    {With("sort", [keys |-> k, global |-> {}, blanks |-> FALSE, sep |-> <<>>, unique |-> u, check |-> FALSE, outfile |-> <<>>, in |-> t]) :
        k \in SortKeys, u \in BOOLEAN, t \in Joins(SortLines, 3)}

FName == <<102>>
GName == <<103>>
Pattern(b, chars, s, e) == [bol |-> b, chars |-> chars, star |-> s, eol |-> e]
GrepBase ==
    With("grep", [patterns |-> <<Pattern(FALSE, <<97>>, FALSE, FALSE)>>, fixed |-> FALSE, i |-> FALSE, v |-> FALSE, w |-> FALSE,
                  x |-> FALSE, o |-> FALSE, max |-> 0, after |-> 0, before |-> 0, mode |-> "", names |-> FALSE, noname |-> FALSE,
                  recursive |-> "", links |-> {}, dirs |-> <<>>, bad |-> FALSE])
GrepFiles(c, f, g) == [c EXCEPT !.args = IF g = <<>> THEN <<FName>> ELSE <<FName, GName>>, !.fs = FName :> f @@ GName :> g]
GrepContext ==
    {GrepFiles([GrepBase EXCEPT !.after = a, !.before = b, !.mode = m, !.max = x, !.v = v], t, g) :
        a \in 0..2, b \in 0..2, m \in {"", "n"}, x \in {0, 2}, v \in BOOLEAN, t \in Joins({<<97, NewL>>, <<98, NewL>>}, 5), g \in {<<>>}}
    \cup {GrepFiles([GrepBase EXCEPT !.mode = m, !.max = x, !.v = v, !.before = b], t, g) :
        b \in 0..1, m \in {"", "n", "c", "l", "q"}, x \in {0, 1}, v \in BOOLEAN, t \in Joins({<<97, NewL>>, <<98, NewL>>}, 3), g \in {<<>>, <<97, NewL, 98, NewL>>}}
GrepPatterns == {Pattern(b, chars, s, e) : b \in BOOLEAN, chars \in {<<97>>, <<98, 97>>, <<97, 98>>}, s \in BOOLEAN, e \in BOOLEAN}
GrepMatches ==
    {GrepFiles([GrepBase EXCEPT !.patterns = <<p>>, !.o = o, !.w = k = "w", !.x = k = "x", !.i = k = "i"], t \o <<NewL>>, <<>>) :
        p \in GrepPatterns, o \in BOOLEAN, k \in {"", "w", "x", "i"}, t \in Texts({97, 98, 45}, 3)}
    \cup {GrepFiles([GrepBase EXCEPT !.patterns = <<p, q>>, !.o = TRUE, !.fixed = f], t \o <<NewL>>, <<>>) :
        p \in {Pattern(FALSE, <<97>>, FALSE, FALSE)}, q \in {Pattern(FALSE, c, FALSE, FALSE) : c \in {<<97, 98>>, <<98>>, <<97, 98, 97>>}},
        f \in BOOLEAN, t \in Texts({97, 98}, 4)}

\* ls: a directory with another in it, a file and a link to any of them.
Node(kind, entries, to, size, exec) == [kind |-> kind, entries |-> entries, to |-> to, size |-> size, time |-> 3 - size, exec |-> exec]
Entry(letters, ino) == <<letters, ino>>
LsNodes(top, sub, to) ==
    <<Node("dir", <<Entry(<<46>>, 1), Entry(<<46, 46>>, 1)>> \o SetToSeq(top), 0, 1, FALSE),
      Node("dir", <<Entry(<<46>>, 2), Entry(<<46, 46>>, 1)>> \o SetToSeq(sub), 0, 1, FALSE),
      Node("file", <<>>, 0, 2, TRUE), Node("link", <<>>, to, 1, FALSE), Node("file", <<>>, 0, 1, FALSE)>>
LsFlags == [k \in {"a", "A", "d", "F", "H", "i", "L", "l", "p", "q", "R", "r", "U", "showdirs"} |-> FALSE] @@ [sort |-> ""]
Set(flags, sort) == [k \in flags |-> TRUE] @@ [LsFlags EXCEPT !.sort = sort]
LsCases ==
    {With("ls", Set(o[1], o[2]) @@ [nodes |-> LsNodes(top, sub, to)]) :
        o \in {<<{}, "">>, <<{"a", "R"}, "">>, <<{"A", "F", "r"}, "">>, <<{"R", "L"}, "S">>, <<{"R", "l", "p"}, "t">>, <<{"L", "i"}, "">>, <<{"U", "R"}, "">>},
        top \in SUBSET {Entry(<<99>>, 2), Entry(<<97>>, 3), Entry(<<98>>, 4), Entry(<<46, 104>>, 5)},
        sub \in SUBSET {Entry(<<97>>, 3), Entry(<<98>>, 4), Entry(<<99>>, 5)}, to \in 0..3}

SbaseSets == <<CutCases, UniqCases, HeadCases, TailCases, TrCases, SortCases, GrepContext, GrepMatches, LsCases>>

\* One call after the other, of each tool two or three.
SmallText == <<98, 58, 97, NewL, 97, NewL, 97, NewL>>
SmallFile(c) == [c EXCEPT !.args = <<FName, GName>>, !.fs = FName :> SmallText]
Counted(k) == [fields |-> 0, chars |-> 0, counts |-> k, doubles |-> ~k, singles |-> FALSE, in |-> SmallText]
CutOne(mode, r, only) == [mode |-> mode, list |-> <<r>>, delim |-> <<58>>, only |-> only, whole |-> FALSE, in |-> SmallText]
SbaseSeries ==
    [cat |-> {SmallFile(With("cat", NoInput)), With("cat", [in |-> SmallText])},
     tee |-> {[With("tee", [append |-> a, in |-> SmallText]) EXCEPT !.args = <<FName>>, !.fs = FName :> <<97>>] : a \in BOOLEAN},
     head |-> {SmallFile(With("head", [bytes |-> FALSE, count |-> 1])), With("head", [bytes |-> TRUE, count |-> 3, in |-> SmallText])},
     tail |-> {SmallFile(With("tail", [mode |-> "n", plus |-> FALSE, count |-> 1])), With("tail", [mode |-> "c", plus |-> TRUE, count |-> 3, in |-> SmallText])},
     cut |-> {With("cut", CutOne("f", [min |-> 2, max |-> 0], TRUE)), With("cut", CutOne("b", [min |-> 1, max |-> 1], FALSE))},
     uniq |-> {With("uniq", Counted(k)) : k \in BOOLEAN}
              \cup {[With("uniq", Counted(TRUE)) EXCEPT !.args = <<FName, GName>>, !.fs = FName :> SmallText]},
     wc |-> {SmallFile(With("wc", [show |-> {1, 2}, runes |-> FALSE])), With("wc", [show |-> {}, runes |-> TRUE, in |-> SmallText])},
     tr |-> {TrCall(<<<<"range", 97, 99>>>>, <<<<"class", 11>>>>, <<TRUE, FALSE, FALSE, TRUE>>), TrCall(<<<<"range", 98, 98>>>>, <<>>, <<FALSE, TRUE, TRUE, FALSE>>)},
     sort |-> {With("sort", [keys |-> <<>>, global |-> {}, blanks |-> FALSE, sep |-> <<>>, unique |-> u, check |-> ~u, outfile |-> <<>>, in |-> t]) :
                  u \in BOOLEAN, t \in {SmallText, <<97, NewL, 98, NewL>>}}
              \cup {With("sort", [keys |-> <<Key(2, 1, 2, 0, {})>>, global |-> {"r"}, blanks |-> FALSE, sep |-> <<58>>, unique |-> FALSE, check |-> FALSE, outfile |-> GName, in |-> SmallText])},
     grep |-> {SmallFile([GrepBase EXCEPT !.v = TRUE, !.mode = "c"]), SmallFile([GrepBase EXCEPT !.before = 1, !.x = TRUE]),
               [GrepBase EXCEPT !.recursive = "r", !.dirs = F!Here :> {FName, GName}, !.links = {GName}, !.fs = FName :> SmallText @@ GName :> SmallText]},
     ls |-> {With("ls", Set({"R", "L", "a"}, "S") @@ [nodes |-> LsNodes({Entry(<<99>>, 2), Entry(<<97>>, 3)}, {Entry(<<98>>, 4)}, 1)]),
             [With("ls", Set({"F"}, "") @@ [nodes |-> LsNodes({Entry(<<99>>, 2), Entry(<<97>>, 3)}, {Entry(<<98>>, 4)}, 1)]) EXCEPT !.args = <<<<99>>, <<97>>>>]}]

SbaseFirst == <<SbaseSeries.cat, SbaseSeries.tee, SbaseSeries.head, SbaseSeries.tail, SbaseSeries.cut, SbaseSeries.uniq, SbaseSeries.wc,
                SbaseSeries.tr, SbaseSeries.sort, SbaseSeries.grep, SbaseSeries.ls>>

-----------------------------------------------------------------------------
(* awk: a case has what its program is made from; f and g are files, x a   *)
(* variable, a and b letters, 233 is a letter of two bytes.                *)

Con(n) == <<"const", [t |-> {"NUM", "CON"}, s |-> <<>>, n |-> n]>>
Str(s) == <<"const", [t |-> {"STR", "CON"}, s |-> s, n |-> 0]>>
AVar(x) == <<"var", x>>
Fld(k) == <<"field", Con(k)>>
Prints(args) == <<"print", args, <<>>>>
Let(x, v) == <<"assign", "=", x, v>>
Always(body) == <<"pattern", <<>>, <<"list", body>>>>
Truly(e) == <<"rel", "!=", e, <<"const", [t |-> {"NUM", "STR", "CON"}, s |-> <<>>, n |-> 0]>>>>
Program(begin, body) ==
    [begin |-> begin, body |-> body, end |-> <<>>, funs |-> <<>>, arrays |-> <<>>, ranges |-> 0, braces |-> <<1, -1>>, bad |-> FALSE, upto |-> 0]
Awk(shape, means, prog) ==
    [tool |-> "awk", shape |-> shape, means |-> means, prog |-> prog, args |-> <<>>, fs |-> <<>>, in |-> <<>>, sep |-> <<>>, assigns |-> <<>>,
     csv |-> FALSE, names |-> <<>>]
LinesOf(texts) == FlattenSeq([k \in DOMAIN texts |-> texts[k] \o <<10>>])

\* A regular expression as a tree, and how it is written.
Ch(r) == <<"char", {r}>>
RAny == <<"any">>
RepOf(a, lo, hi) == <<"rep", a, lo, hi>>
Rune(r) == IF r < 128 THEN <<r>> ELSE <<192 + (r \div 64), 128 + (r % 64)>>
Group(s) == <<40>> \o s \o <<41>>
Times1(lo, hi) ==
    CASE <<lo, hi>> = <<0, -1>> -> <<42>> [] <<lo, hi>> = <<1, -1>> -> <<43>> [] <<lo, hi>> = <<0, 1>> -> <<63>>
      [] hi = lo -> <<123, 48 + lo, 125>> [] hi = -1 /\ lo > 1 -> <<123, 48 + lo, 44, 125>>
      [] OTHER -> <<123, 48 + lo, 44, 48 + hi, 125>>
RECURSIVE Spelling(_)
Spelling(a) ==
    CASE a[1] = "char" -> Rune(CHOOSE r \in a[2] : TRUE)
      [] a[1] = "set" -> <<91>> \o a[3] \o <<93>>
      [] a[1] = "any" -> <<46>>
      [] a[1] = "bol" -> <<94>>
      [] a[1] = "eol" -> <<36>>
      [] a[1] = "empty" -> <<40, 41>>
      [] a[1] = "cat" -> Spelling(a[2]) \o Spelling(a[3])
      [] a[1] = "or" -> Group(Spelling(a[2]) \o <<124>> \o Spelling(a[3]))
      [] a[1] = "rep" -> (IF a[2][1] = "cat" THEN Group(Spelling(a[2])) ELSE Spelling(a[2])) \o Times1(a[3], a[4])
RSingle == {Ch(97), Ch(98), RAny, <<"set", {97, 98}, <<97, 45, 98>>>>, <<"set", {98, 233}, <<94, 97, 10>>>>}
RCounts == {<<0, -1>>, <<1, -1>>, <<0, 1>>, <<2, 2>>, <<2, -1>>, <<1, 2>>, <<0, 0>>, <<0, 2>>}
RRepeated == {RepOf(a, n[1], n[2]) : a \in {Ch(97), RAny}, n \in RCounts}
ROr == {<<"or", a, b>> : a \in {Ch(97), <<"empty">>, <<"cat", Ch(97), Ch(98)>>}, b \in {Ch(98), RepOf(Ch(97), 2, 2), <<"cat", Ch(98), Ch(97)>>}}
RGroups == {RepOf(a, n[1], n[2]) : a \in ROr \cup {<<"cat", Ch(97), RepOf(Ch(98), 0, 1)>>}, n \in {<<0, -1>>, <<2, 2>>, <<0, 2>>}}
RTrees ==
    RSingle \cup RRepeated \cup ROr \cup RGroups \cup {Ch(233), <<"eol">>, <<"bol">>}
    \cup {<<"cat", a, b>> : a \in RSingle \cup RRepeated, b \in RRepeated}
    \cup {<<"cat", <<"bol">>, a>> : a \in RRepeated \cup ROr} \cup {<<"cat", a, <<"eol">>>> : a \in RRepeated \cup ROr}
RWords(n) == [k \in 1..2^n |-> [i \in 1..n |-> 97 + (((k - 1) \div 2^(i - 1)) % 2)]]
RTexts == RWords(0) \o RWords(1) \o RWords(2) \o <<<<98, 97, 98>>, <<97, 97, 97>>, <<195, 169>>, <<97, 195, 169, 98>>, <<97, 98, 97, 97, 98, 98>>>>
ArrayB == AVar("B")
RegexCase(a) ==
    LET re == <<"re", Spelling(a)>>
        n == AVar("n")
        body == <<Prints(<<<<"matchfcn", Fld(0), re>>, AVar("RLENGTH"), <<"match", "~", Fld(0), re>>>>),
                  Let(n, <<"split", Fld(0), ArrayB, re>>), Prints(<<n, <<"elem", ArrayB, <<n>>>>>>),
                  Prints(<<<<"sub", "gsub", re, Str(<<60, 38, 62>>), Fld(0)>>, Fld(0)>>)>>
    IN  [Awk("regex", [tree |-> a, texts |-> RTexts], [Program(<<>>, <<Always(body)>>) EXCEPT !.arrays = <<"B">>])
            EXCEPT !.in = LinesOf(RTexts)]
RegexCases == {RegexCase(a) : a \in RTrees}

\* What is done to each of two records.
OpOf(do, k, s) == [do |-> do, k |-> k, s |-> s, from |-> 0]
RecordOps ==
    {OpOf("set", 0, <<98, 58, 97>>), OpOf("set", 1, <<98, 32, 98>>), OpOf("set", 4, <<>>), OpOf("nf", 1, <<>>), OpOf("nf", 3, <<>>), OpOf("fs", 0, <<58>>),
     OpOf("ofs", 0, <<45>>), OpOf("see", 0, <<>>), OpOf("see", 2, <<>>), OpOf("seenf", 0, <<>>), OpOf("getline", 0, <<>>),
     [OpOf("copy", 3, <<>>) EXCEPT !.from = 0], [OpOf("copy", 0, <<>>) EXCEPT !.from = 2]}
LastLook == <<OpOf("see", 3, <<>>), OpOf("see", 0, <<>>), OpOf("seenf", 0, <<>>), OpOf("see", 1, <<>>)>>
StepOf(op) ==
    CASE op.do = "set" -> Let(Fld(op.k), Str(op.s))
      [] op.do = "nf" -> Let(AVar("NF"), Con(op.k))
      [] op.do = "fs" -> Let(AVar("FS"), Str(op.s))
      [] op.do = "ofs" -> Let(AVar("OFS"), Str(op.s))
      [] op.do = "see" -> Prints(<<Fld(op.k)>>)
      [] op.do = "seenf" -> Prints(<<AVar("NF")>>)
      [] op.do = "copy" -> Let(Fld(op.k), Fld(op.from))
      [] op.do = "getline" -> <<"getline", <<>>, <<>>>>
TwoRecords == <<<<97, 32, 98, 58, 99>>, <<97, 58, 58, 98>>>>
RecordCases ==
    {[Awk("record", [records |-> TwoRecords, ops |-> ops \o LastLook],
          Program(<<>>, <<Always([k \in DOMAIN ops |-> StepOf(ops[k])] \o [k \in DOMAIN LastLook |-> StepOf(LastLook[k])])>>)) EXCEPT !.in = LinesOf(TwoRecords)] :
        ops \in Texts(RecordOps, 3)}

InputCases ==
    {[Awk("input", [texts |-> <<f, g>>, rs |-> rs],
          Program(<<Let(AVar("RS"), Str(rs))>>,
                  <<Always(<<Prints(<<<<"arith", "+", <<"rel", "==", AVar("FILENAME"), Str(<<103>>)>>, Con(1)>>, AVar("FNR"), AVar("NR"), Fld(0)>>)>>)>>))
        EXCEPT !.args = <<<<102>>, <<>>, <<103>>>>, !.fs = <<102>> :> f @@ <<103>> :> g] :
        f \in Texts({97, 98, 10}, 4), g \in {<<>>, <<97>>, <<10, 10, 97, 10>>}, rs \in {<<10>>, <<98>>, <<>>, <<98, 43>>}}
RangeCases1 ==
    {[Awk("range", [texts |-> ts, first |-> e[1], last |-> e[2]],
          [Program(<<>>, <<<<"range", 0, <<"match", "~", Fld(0), <<"re", <<e[1]>>>>>>, <<"match", "~", Fld(0), <<"re", <<e[2]>>>>>>, <<"list", <<Prints(<<Fld(0)>>)>>>>>>>>)
              EXCEPT !.ranges = 1]) EXCEPT !.in = LinesOf(ts)] :
        ts \in Texts({<<97>>, <<98>>, <<97, 98>>, <<99>>}, 4), e \in {<<97, 98>>, <<97, 97>>}}
Values == {<<49>>, <<50>>, <<49, 48>>, <<45, 49>>, <<43, 49>>, <<32, 50>>, <<50, 32>>, <<48, 50>>, <<97>>, <<49, 97>>, <<>>, <<32>>, <<45>>}
CompareCases ==
    {[Awk("compare", [s |-> s, r |-> r],
          Program(<<>>, <<Always(<<Prints(<<<<"rel", "<", Fld(1), Fld(2)>>, <<"rel", "==", Fld(1), Fld(2)>>, <<"rel", "<", Fld(1), <<"cat", Fld(2), Str(<<>>)>>>>>>)>>)>>))
        EXCEPT !.in = s \o <<58>> \o r \o <<10>>, !.sep = <<58>>] : s \in Values, r \in Values}

Forin(body) == <<"forin", AVar("k"), ArrayB, body>>
ArrayCases ==
    {Awk("array", [keys |-> (1..n) \ ((gone[1] + 1)..(gone[1] + gone[2]))],
         [Program([k \in 1..n |-> <<"elem", ArrayB, <<Con(k)>>>>] \o [k \in 1..gone[2] |-> <<"delete", ArrayB, <<Con(gone[1] + k)>>>>]
                  \o <<Forin(Prints(<<AVar("k")>>))>>, <<>>) EXCEPT !.arrays = <<"B">>]) :
        n \in 0..18, gone \in {<<0, 0>>, <<0, 1>>, <<1, 3>>, <<2, 7>>}}
\* function f(n, a, l) { l = n; if (n) { m = f(n - 1, a); a[n] = 1; l = l + m }; return l }
Deeper ==
    <<Let(AVar("m"), <<"call", "f", <<<<"arith", "-", <<"arg", 0>>, Con(1)>>, <<"arg", 1>>>>>>),
      Let(<<"elem", <<"arg", 1>>, <<<<"arg", 0>>>>>>, Con(1)), Let(<<"arg", 2>>, <<"arith", "+", <<"arg", 2>>, AVar("m")>>)>>
SumTo ==
    [args |-> 3, body |-> <<Let(<<"arg", 2>>, <<"arg", 0>>), <<"if", Truly(<<"arg", 0>>), <<"list", Deeper>>, <<>>>>, <<"jump", "return", <<"arg", 2>>>>>>]
CallCases ==
    {Awk("call", [n |-> n],
         [Program(<<Let(AVar("x"), <<"call", "f", <<Con(n), AVar("y")>>>>), Prints(<<AVar("x"), <<"bltin", "length", AVar("y"), <<>>>>>>)>>, <<>>) EXCEPT !.funs = [f |-> SumTo]]) :
        n \in 0..5}
OName == <<111>>
WriteStep(w) == IF w.mode = "close" THEN <<"close", Str(OName)>> ELSE <<"print", <<Str(w.s)>>, <<w.mode, Str(OName)>>>>
FileCases ==
    {[Awk("files", [name |-> OName, text |-> <<122, 10>>, writes |-> ws], Program([k \in DOMAIN ws |-> WriteStep(ws[k])], <<>>)) EXCEPT !.fs = OName :> <<122, 10>>] :
        ws \in Texts([mode: {">", ">>"}, s: {<<97>>}] \cup [mode: {">"}, s: {<<98>>}] \cup {[mode |-> "close", s |-> <<>>]}, 4)}
AwkSets == <<RegexCases, RecordCases, InputCases, RangeCases1, CompareCases, ArrayCases, CallCases, FileCases>>

\* Programs that leave something: ranges that are open, separators, $0 and
\* fields that are not made from each other, files; and some with an error.
LeftText == LinesOf(<<<<99>>, <<97, 58, 98>>>>)
Left(prog) == [Awk("", <<>>, prog) EXCEPT !.in = LeftText, !.args = <<<<45>>>>, !.fs = OName :> <<122, 10>>]
OpenRange ==
    [Program(<<Let(AVar("FS"), Str(<<58>>))>>,
             <<<<"range", 0, <<"match", "~", Fld(0), <<"re", <<97>>>>>>, <<"match", "~", Fld(0), <<"re", <<120>>>>>>, Prints(<<Fld(1), AVar("x")>>)>>>>) EXCEPT !.ranges = 1]
Unmade == Program(<<>>, <<Always(<<Let(Fld(3), Str(<<97>>)), Let(AVar("x"), Con(1)), <<"getline", AVar("y"), <<"<", Str(OName)>>>>, Let(AVar("OFS"), AVar("y"))>>)>>)
Looking == Program(<<Prints(<<Fld(0), AVar("NF"), AVar("x"), AVar("RSTART")>>)>>, <<Always(<<Prints(<<Fld(3), AVar("NF")>>), <<"jump", "exit", Con(3)>>>>)>>)
TwoRanges ==
    [OpenRange EXCEPT !.body = <<@[1], <<"range", 1, @[1][3], @[1][4], Prints(<<Fld(0)>>)>>>>, !.ranges = 2]
Broken == [Program(<<>>, <<>>) EXCEPT !.bad = TRUE, !.upto = 2]
\* With a } that nothing is open for, behind the error or before it.
Unbalanced == {[Broken EXCEPT !.braces = <<1, -1, -1>>, !.upto = k] : k \in 2..3}
AwkSeries ==
    {Left(p) : p \in {OpenRange, TwoRanges, Unmade, Looking, Broken} \cup Unbalanced} \cup {[Left(Looking) EXCEPT !.sep = <<98>>], [Left(Unmade) EXCEPT !.csv = TRUE]}
Wrong == [awk |-> {Left(Broken), Left(Looking)}]
WrongSets == <<Wrong.awk>>

MCCall(c) == IF c.tool = "sed" THEN SedCall(c) ELSE c
AllSets == DiffSets \o SedSets \o SbaseSets \o AwkSets \o <<DiffSeries, AwkSeries>> \o SbaseFirst
AllSeries == [diff |-> DiffSeries, sed |-> SedSeries, awk |-> AwkSeries] @@ SbaseSeries
=============================================================================
