------------------------------ MODULE AwkRegex ------------------------------
(***************************************************************************)
(* awk-src/b.c: the regular expressions of awk.  A pattern is parsed to a  *)
(* tree; each leaf gets its number and the set of leaves that can follow   *)
(* it, and a state of the automaton is a set of leaves.  The code makes    *)
(* the states as it meets them and finds a set it has made already again,  *)
(* so a state is modelled by its set.  Bounds {n,m} are expanded in the    *)
(* text of the pattern, while it is parsed.                                *)
(*                                                                         *)
(* Texts and patterns are sequences of bytes, in the C.UTF-8 locale.       *)
(***************************************************************************)
EXTENDS Integers, Sequences, FiniteSets, SequencesExt, TLC

Caret == 94
Dollar == 36
LParen == 40
RParen == 41
LBracket == 91
RBracket == 93
LBrace == 123
RBrace == 125
Escape == 92
Minus == 45
Query == 63
Plus == 43
Comma == 44
Colon == 58
Equals == 61
\* What an automaton reads before the beginning of a text: a number that is
\* also the code of a letter.
Hat == 1261

-----------------------------------------------------------------------------
(* Runes. *)

At(s, i) == IF i \in DOMAIN s THEN s[i] ELSE 0
Trails(s, i, n) == \A k \in 1..n : At(s, i + k) \div 64 = 2
U8Len(s, i) ==
    CASE At(s, i) \div 32 = 6 /\ Trails(s, i, 1) -> 2
      [] At(s, i) \div 16 = 14 /\ Trails(s, i, 2) -> 3
      [] At(s, i) \div 8 = 30 /\ Trails(s, i, 3) -> 4
      [] OTHER -> 1
RuneOf(s, i, n) ==
    IF n = 1 THEN At(s, i) ELSE FoldLeft(LAMBDA r, b : r * 64 + (b % 64), At(s, i) % 2^(7 - n), SubSeq(s, i + 1, i + n - 1))
U8Rune(s, i) == RuneOf(s, i, U8Len(s, i))
RuneAt(s, i, n) == [c |-> RuneOf(s, i, n), at |-> i + n]

-----------------------------------------------------------------------------
(* The characters of a pattern. *)

Digit == [c \in 48..57 |-> c - 48]
OctalDigits == [c \in 48..55 |-> c - 48]
Hex == Digit @@ [c \in 65..70 |-> c - 55] @@ [c \in 97..102 |-> c - 87]

\* The number that at most max digits at i make, and what is behind them.
DigitsAt(s, i, max, value) ==
    CHOOSE n \in 0..max :
        /\ \A k \in 0..(n - 1) : At(s, i + k) \in DOMAIN value
        /\ n = max \/ At(s, i + n) \notin DOMAIN value
NumberOf(s, value, base) == FoldLeft(LAMBDA n, c : n * base + value[c], 0, s)
NumberAt(s, i, n, value, base) == [c |-> NumberOf(SubSeq(s, i, i + n - 1), value, base), at |-> i + n]
Number(s, i, max, value, base) == NumberAt(s, i, DigitsAt(s, i, max, value), value, base)

Escapes == 116 :> 9 @@ 110 :> 10 @@ 102 :> 12 @@ 114 :> 13 @@ 98 :> 8 @@ 118 :> 11 @@ 97 :> 7
Quoted(s, i) ==
    CASE At(s, i) \in DOMAIN Escapes -> [c |-> Escapes[s[i]], at |-> i + 1]
      [] At(s, i) \in {117, 120} -> Number(s, i + 1, IF s[i] = 117 THEN 8 ELSE 2, Hex, 16)
      [] At(s, i) \in DOMAIN OctalDigits -> Number(s, i, 3, OctalDigits, 8)
      [] OTHER -> [c |-> At(s, i), at |-> i + 1]

UpperCase == 65..90
LowerCase == 97..122
Graphic == 33..126
CharClasses == <<
    <<<<97, 108, 110, 117, 109>>, UpperCase \cup LowerCase \cup DOMAIN Digit>>,
    <<<<97, 108, 112, 104, 97>>, UpperCase \cup LowerCase>>,
    <<<<98, 108, 97, 110, 107>>, {9, 32}>>,
    <<<<99, 110, 116, 114, 108>>, 1..31 \cup {127}>>,
    <<<<100, 105, 103, 105, 116>>, DOMAIN Digit>>,
    <<<<103, 114, 97, 112, 104>>, Graphic>>,
    <<<<108, 111, 119, 101, 114>>, LowerCase>>,
    <<<<112, 114, 105, 110, 116>>, Graphic \cup {32}>>,
    <<<<112, 117, 110, 99, 116>>, Graphic \ (UpperCase \cup LowerCase \cup DOMAIN Digit)>>,
    <<<<115, 112, 97, 99, 101>>, 9..13 \cup {32}>>,
    <<<<117, 112, 112, 101, 114>>, UpperCase>>,
    <<<<120, 100, 105, 103, 105, 116>>, DOMAIN Hex>> >>
Named(class, s, i) == class \o <<Colon, RBracket>> = SubSeq(s, i, i + Len(class) + 1)
NamedAt(s, i) == {class \in Range(CharClasses) : Named(class[1], s, i)}

\* The characters of a class, in order, as relex() writes them out.
Spelled(chars) ==
    FlattenSeq([c \in 1..127 |-> IF c \in chars THEN (IF c = Escape THEN <<c, c>> ELSE <<c>>) ELSE <<>>])

\* A piece of what is between [ and ]: how long it is and what it stands for.
\* [[.a.]] is the letter a; within a class with others it is nothing.
Piece(n, more) == [n |-> n, more |-> more]
ClassPiece(classes, n, s, at) ==
    CASE At(s, at) = Escape -> Piece(2, SubSeq(s, at, at + 1))
      [] At(s, at) = LBracket /\ At(s, at + 1) \in {46, Equals} ->
            Piece(IF At(s, at + 3) = s[at + 1] /\ At(s, at + 4) = RBracket THEN 5 ELSE 3, <<>>)
      [] At(s, at) = LBracket /\ At(s, at + 1) = Colon /\ classes # {} ->
            LET class == CHOOSE k \in classes : TRUE IN Piece(Len(class[1]) + 4, Spelled(class[2]))
      [] OTHER -> Piece(n, SubSeq(s, at, at + n - 1))
Collating(s, at) ==
    /\ At(s, at) = LBracket /\ At(s, at + 1) \in {46, Equals} /\ At(s, at + 3) = s[at + 1]
    /\ At(s, at + 4) = RBracket /\ At(s, at + 5) = RBracket
RECURSIVE ClassScan(_, _, _)
ClassMore(s, at, buf, piece) == ClassScan(s, at + piece.n, buf \o piece.more)
\* What is between [ and ], with the named classes written out.
ClassScan(s, at, buf) ==
    CASE At(s, at) = 0 \/ (At(s, at) = Escape /\ At(s, at + 1) = 0) -> [tok |-> "bad", val |-> <<>>, at |-> at]
      [] Collating(s, at) -> [tok |-> "CHAR", val |-> At(s, at + 2), at |-> at + 6]
      [] At(s, at) = RBracket /\ buf # <<>> -> [tok |-> "CCL", val |-> buf, at |-> at + 1]
      [] OTHER -> ClassMore(s, at, buf, ClassPiece(NamedAt(s, at + 2), U8Len(s, at), s, at))

OneAt(s, i) == IF At(s, i) = Escape THEN Quoted(s, i + 1) ELSE RuneAt(s, i, U8Len(s, i))
RECURSIVE CclEnter(_, _, _)
CclRange(out, last) == IF Last(out) > last THEN Front(out) ELSE out \o [k \in 1..(last - Last(out)) |-> Last(out) + k]
CclMore(s, out, range, one) == CclEnter(s, one.at, IF range THEN CclRange(out, one.c) ELSE Append(out, one.c))
CclFrom(s, i, out, range) == CclMore(s, out, range, OneAt(s, IF range THEN i + 1 ELSE i))
CclEnter(s, i, out) ==
    IF At(s, i) = 0 THEN out ELSE CclFrom(s, i, out, At(s, i) = Minus /\ out # <<>> /\ At(s, i + 1) # 0)
\* The list of a class ends at its first zero.
Members(list) == {list[k] : k \in {j \in DOMAIN list : \A i \in 1..j : list[i] # 0}}

-----------------------------------------------------------------------------
(* Tokens.  The state of the scanner: the pattern and the place in it, the *)
(* places of the token and of the last atom (0 none, -1 one in the text of *)
(* the pattern before a bound was expanded), the parentheses that are open *)
(* and whether an error ended it.                                          *)

Scanner(s, parens) ==
    [s |-> s, at |-> 1, start |-> 1, atom |-> 0, parens |-> parens, tok |-> "", val |-> 0, tree |-> <<>>, bad |-> FALSE]
Fail(p) == [p EXCEPT !.bad = TRUE, !.tok = "end"]
Token(p, tok, val, at) == [p EXCEPT !.start = p.at, !.tok = tok, !.val = val, !.at = at]
Marks == 124 :> "OR" @@ 42 :> "STAR" @@ Plus :> "PLUS" @@ Query :> "QUEST" @@ 46 :> "DOT" @@ Caret :> "^" @@ Dollar :> "$"

Bracketed(p, not, r) ==
    CASE r.tok = "bad" -> Fail(p)
      [] r.tok = "CHAR" -> Token(p, "CHAR", r.val, r.at)
      [] OTHER -> Token(p, IF not THEN "NCCL" ELSE "CCL", Members(CclEnter(r.val, 1, <<>>)), r.at)
Class(p) == LET not == At(p.s, p.at + 1) = Caret IN Bracketed(p, not, ClassScan(p.s, p.at + (IF not THEN 2 ELSE 1), <<>>))

RECURSIVE Relex(_)
Copies(s, n) == IF n < 1 THEN <<>> ELSE [k \in 1..(n * Len(s)) |-> s[((k - 1) % Len(s)) + 1]]
Retold(p, s, behind, at) == [p EXCEPT !.s = s \o behind, !.at = at, !.start = at, !.atom = -1]
\* replace_repeat(): x{n,m} becomes xx...x?x?, in the text of the pattern.
Repeat(p, atom, behind, lo, hi) ==
    CASE hi = 0 -> [Retold(p, SubSeq(p.s, 1, p.atom - 1) \o <<LParen, RParen>>, behind, p.atom) EXCEPT !.tok = "ZERO"]
      [] OTHER ->
            Relex(Retold(p, SubSeq(p.s, 1, p.at - 1) \o Copies(atom, lo - 1) \o (IF lo = 0 THEN <<Query>> ELSE <<>>)
                            \o (IF hi = -1 THEN <<Plus>> ELSE Copies(Append(atom, Query), hi - (IF lo = 0 THEN 1 ELSE lo))),
                         behind, p.at))

Bounded(p, end, lo, hi) ==
    CASE At(p.s, end) # RBrace \/ lo > 255 \/ hi > 255 \/ hi \in 0..(lo - 1) -> Fail(p)
      [] At(p.s, end) = RBrace /\ <<lo, hi>> = <<0, 1>> -> Token(p, "QUEST", 0, end + 1)
      [] At(p.s, end) = RBrace /\ <<lo, hi>> = <<0, -1>> -> Token(p, "STAR", 0, end + 1)
      [] At(p.s, end) = RBrace /\ <<lo, hi>> = <<1, -1>> -> Token(p, "PLUS", 0, end + 1)
      [] OTHER ->
            CASE p.atom = 0 -> Token(p, "PLUS", 0, end + 1)
              [] p.atom = -1 -> Fail(p)
              [] p.atom > 0 -> Repeat(p, SubSeq(p.s, p.atom, p.at - 1), SubSeq(p.s, end + 1, Len(p.s)), lo, hi)
Upper(p, lo, hi) == Bounded(p, hi.at, lo.c, hi.c)
Lower(p, lo) ==
    Upper(p, lo, CASE At(p.s, lo.at) # Comma -> lo
                   [] At(p.s, lo.at) = Comma /\ At(p.s, lo.at + 1) \notin DOMAIN Digit -> [c |-> -1, at |-> lo.at + 1]
                   [] OTHER -> Number(p.s, lo.at + 1, 9, Digit, 10))
Bound(p) == Lower(p, Number(p.s, p.at + 1, 9, Digit, 10))

QuotedChar(p, q) == Token(p, "CHAR", q.c, q.at)
\* The token of a letter of several bytes starts behind it.
Lexed(p, n, c) ==
    LET Of(tok, val) == Token(p, tok, val, p.at + n)
    IN  CASE n > 1 -> [Of("CHAR", RuneOf(p.s, p.at, n)) EXCEPT !.start = p.at + n]
          [] n = 1 /\ c = 0 -> Token(p, "end", 0, p.at)
          [] n = 1 /\ c \in DOMAIN Marks -> Of(Marks[c], 0)
          [] n = 1 /\ c = LParen -> [Of("(", 0) EXCEPT !.parens = @ + 1]
          [] n = 1 /\ c = RParen /\ p.parens > 0 -> [Of(")", 0) EXCEPT !.parens = @ - 1]
          [] n = 1 /\ c = Escape -> QuotedChar(p, Quoted(p.s, p.at + 1))
          [] n = 1 /\ c = LBracket -> Class(p)
          [] n = 1 /\ c = LBrace /\ At(p.s, p.at + 1) \in DOMAIN Digit -> Bound(p)
          [] OTHER -> Of("CHAR", c)
Relex(p) == IF p.bad THEN p ELSE Lexed(p, U8Len(p.s, p.at), At(p.s, p.at))

-----------------------------------------------------------------------------
(* The tree of a pattern.  An anchor is a character that only the ends of  *)
(* a text have.                                                            *)

RECURSIVE Unary(_, _)
Unaried(p, t) == IF p.tok \in {"STAR", "PLUS", "QUEST", "ZERO"} THEN Unary(p, <<p.tok, t>>) ELSE [p EXCEPT !.tree = t]
Unary(p, t) == Unaried(Relex(p), t)

RECURSIVE Regexp(_)
Leaves == {"CHAR", "DOT", "CCL", "NCCL"}
Leaf(p, tree) == [p EXCEPT !.tree = tree]
Inside(p) == IF p.tok = ")" THEN Leaf(p, <<"CCL", {}>>) ELSE Regexp(p)
Grouped(p, in) == IF in.tok = ")" THEN [in EXCEPT !.atom = p.start] ELSE Fail(in)
Ready(p) ==
    CASE p.tok \in Leaves -> Leaf([p EXCEPT !.atom = p.start], <<p.tok, p.val>>)
      [] p.tok = "^" -> Leaf(p, <<"CHAR", Hat>>)
      [] p.tok = "$" -> Leaf(p, <<"CHAR", 0>>)
      [] p.tok = "(" -> Grouped(p, Inside(Relex([p EXCEPT !.atom = p.start])))
      [] OTHER -> Fail(p)
Atom(p) == IF p.bad THEN p ELSE Unary(p, p.tree)
Primary(p) == Atom(Ready(p))

\* concat() and alt(), with the tree l of what is to the left.
RECURSIVE Concat(_, _), Alt(_, _)
Beside(op, l, q) == IF l = <<>> THEN q ELSE [q EXCEPT !.tree = <<op, l, q.tree>>]
Concatenated(q) == IF q.tok \in Leaves \cup {"$", "("} THEN Concat(q.tree, q) ELSE q
Concat(l, p) == Concatenated(Beside("CAT", l, Primary(p)))
Alternative(q) == IF q.tok = "OR" THEN Alt(q.tree, Relex(q)) ELSE q
Alt(l, p) == Alternative(Beside("OR", l, Concat(<<>>, p)))
Regexp(p) == Alt(<<>>, p)

Whole(q) == IF q.tok = "end" THEN q ELSE Fail(q)
Reparse1(p) == IF p.tok = "end" /\ ~p.bad THEN [p EXCEPT !.tree = <<"EMPTYRE">>] ELSE Whole(Regexp(p))
Reparse(s, parens) == Reparse1(Relex(Scanner(s, parens)))

-----------------------------------------------------------------------------
(* The automaton.                                                          *)

Repeats == {"STAR", "PLUS"}
Pairs == {"CAT", "OR"}
IsLeaf(v) == v[1] \in {"CHAR", "DOT", "CCL", "NCCL", "ALL", "EMPTYRE", "FINAL"}

RECURSIVE Size(_), Empty(_), First(_, _), Follow(_, _, _)
\* penter(): the number of leaves.  What is repeated zero times has none.
Size(v) ==
    CASE IsLeaf(v) -> 1
      [] v[1] = "ZERO" -> 0
      [] v[1] \in Pairs -> Size(v[2]) + Size(v[3])
      [] OTHER -> Size(v[2])
\* first(): whether v matches the empty text, and the leaves it starts with,
\* when its own are numbered from k.
Empty(v) ==
    CASE IsLeaf(v) -> v[1] = "EMPTYRE" \/ v = <<"CCL", {}>>
      [] v[1] = "CAT" -> Empty(v[2]) /\ Empty(v[3])
      [] v[1] = "OR" -> Empty(v[2]) \/ Empty(v[3])
      [] v[1] = "PLUS" -> Empty(v[2])
      [] OTHER -> TRUE
First(v, k) ==
    CASE IsLeaf(v) -> IF v[1] = "EMPTYRE" THEN {} ELSE {k}
      [] v[1] = "ZERO" -> {}
      [] v[1] = "CAT" -> First(v[2], k) \cup (IF Empty(v[2]) THEN First(v[3], k + Size(v[2])) ELSE {})
      [] v[1] = "OR" -> First(v[2], k) \cup First(v[3], k + Size(v[2]))
      [] OTHER -> First(v[2], k)
\* cfoll() and follow(): each leaf of v with those that can follow it.
Follow(v, k, after) ==
    LET right == k + Size(v[2])
    IN  CASE IsLeaf(v) -> <<[leaf |-> v, follow |-> after]>>
          [] v[1] = "ZERO" -> <<>>
          [] v[1] = "CAT" ->
                Follow(v[2], k, First(v[3], right) \cup (IF Empty(v[3]) THEN after ELSE {})) \o Follow(v[3], right, after)
          [] v[1] = "OR" -> Follow(v[2], k, after) \o Follow(v[3], right, after)
          [] v[1] \in Repeats -> Follow(v[2], k, First(v[2], k) \cup after)
          [] OTHER -> Follow(v[2], k, after)

Takes(leaf, c) ==
    CASE leaf[1] = "CHAR" -> c = leaf[2]
      [] leaf[1] = "DOT" -> c \notin {0, Hat}
      [] leaf[1] \in {"ALL", "EMPTYRE"} -> c # 0
      [] leaf[1] = "CCL" -> c \in leaf[2]
      [] leaf[1] = "NCCL" -> c \notin leaf[2] \cup {0, Hat}
      [] leaf[1] = "FINAL" -> FALSE
Cgoto(rows, S, c) == UNION {rows[k].follow : k \in {j \in S : Takes(rows[j].leaf, c)}}

\* mkdfa() and makeinit(): leaf 1 passes over what is before a match.  An
\* anchored automaton is one that is started at each place itself.
Automaton(rows, pass) ==
    [rows |-> rows, accept |-> Len(rows), start |-> rows[1].follow \ pass, init |-> Cgoto(rows, rows[1].follow, Hat) \ pass]
Mkdfa(tree, anchor) ==
    Automaton(Follow(<<"CAT", <<"CAT", <<"STAR", <<"ALL">>>>, tree>>, <<"FINAL">>>>, 1, {}), IF anchor THEN {1} ELSE {})

Out(fa, S) == fa.accept \in S

\* match(): whether there is a match anywhere.
RECURSIVE MatchFrom(_, _, _, _)
MatchFrom(fa, s, p, S) ==
    LET T == Cgoto(fa.rows, S, U8Rune(s, p))
    IN  Out(fa, S) \/ (IF At(s, p) = 0 THEN Out(fa, T) ELSE MatchFrom(fa, s, p + U8Len(s, p), T))
Match(fa, s) == MatchFrom(fa, s, 1, fa.init)

\* The end of the longest match that the state S makes of what is at q, or
\* the best end found before.
RECURSIVE Longest(_, _, _, _, _)
Further(fa, s, q, T, here) ==
    CASE T = {} -> here
      [] T # {} /\ At(s, q) = 0 -> IF Out(fa, T) THEN q ELSE here
      [] OTHER -> Longest(fa, s, q + U8Len(s, q), T, here)
Longest(fa, s, q, S, best) == Further(fa, s, q, Cgoto(fa.rows, S, U8Rune(s, q)), IF Out(fa, S) THEN q ELSE best)

\* The leftmost longest match of at least so many bytes: pmatch() and
\* fnematch() look for it from letter to letter, nematch() from byte to byte.
NoMatch == [beg |-> 0, len |-> -1]
RECURSIVE Search(_, _, _, _, _, _)
Found(fa, s, p, end, least, bytes) ==
    CASE end >= p + least -> [beg |-> p, len |-> end - p]
      [] end < p + least /\ At(s, p) = 0 -> NoMatch
      [] OTHER -> Search(fa, s, p + (IF bytes THEN 1 ELSE U8Len(s, p)), fa.start, least, bytes)
Search(fa, s, p, S, least, bytes) == Found(fa, s, p, Longest(fa, s, p, S, 0), least, bytes)
Pmatch(fa, s, p) == Search(fa, s, p, fa.init, 0, FALSE)
Nematch(fa, s, p, S) == Search(fa, s, p, S, 1, TRUE)
Fnematch(fa, s, p, S) == Search(fa, s, p, S, 1, FALSE)
=============================================================================
