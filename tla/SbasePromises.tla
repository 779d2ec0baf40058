---------------------------- MODULE SbasePromises ----------------------------
(***************************************************************************)
(* What the sbase tools promise, each said without the tool's algorithm:   *)
(* cut by the set of positions that its ranges hold, uniq by the runs of a *)
(* text, tail by its suffixes, tr by expanded sets, sort by the order of   *)
(* its output, grep by the set of lines to print, ls by the directories    *)
(* that can be reached.  seen is [out, fs, rc].                            *)
(***************************************************************************)
EXTENDS Grep, Ls

-----------------------------------------------------------------------------
(* cut, uniq, head and tail.                                               *)

Chosen(ranges, k) == \E j \in DOMAIN ranges : ranges[j].min <= k /\ (ranges[j].max = 0 \/ k <= ranges[j].max)

\* The pieces of a line between its separators.
SeparatorsOf(d, line) == Ascending({k \in DOMAIN line : line[k] = d})
PieceOf(line, ps, j) ==
    SubSeq(line, IF j = 1 THEN 1 ELSE ps[j - 1] + 1, IF j > Len(ps) THEN Len(line) ELSE ps[j] - 1)
Pieces(d, line) ==
    LET ps == SeparatorsOf(d, line) IN [j \in 1..(Len(ps) + 1) |-> PieceOf(line, ps, j)]
Joined(pieces, d) ==
    FlattenSeq([j \in DOMAIN pieces |-> (IF j = 1 THEN <<>> ELSE <<d>>) \o pieces[j]])
ChosenPieces(ranges, pieces) ==
    LET ks == Ascending({k \in DOMAIN pieces : Chosen(ranges, k)}) IN [j \in DOMAIN ks |-> pieces[ks[j]]]

PlaceOf(mode, line, k) == IF mode = "b" THEN k ELSE Cardinality({j \in 1..k : Utf8Point(line[j])})
CutOf(c, line) ==
    IF c.mode # "f"
    THEN LET ks == Ascending({k \in DOMAIN line : Chosen(c.list, PlaceOf(c.mode, line, k))})
         IN  [j \in DOMAIN ks |-> line[ks[j]]] \o <<NL>>
    ELSE IF c.delim[1] \in Range(line) THEN Joined(ChosenPieces(c.list, Pieces(c.delim[1], line)), c.delim[1]) \o <<NL>>
    ELSE IF c.only THEN <<>> ELSE line \o <<NL>>
EachLine(Of(_), text) == FlattenSeq([k \in DOMAIN Lines(text) |-> Of(Chomp(Lines(text)[k]))])
CutRight(c, seen) ==
    LET Of(line) == CutOf(c, line)
    IN  IF \E k \in DOMAIN c.list : BadRange(c.list[k]) THEN seen.rc = 1 /\ seen.out = <<>>
        ELSE seen.out = EachLine(Of, c.in)

\* The part of a line that counts: what follows the fields and characters.
KeyOf(c, line) ==
    LET ends == Ascending({k \in DOMAIN line : line[k] \notin Blanks /\ (k = Len(line) \/ line[k + 1] \in Blanks)})
        at == IF c.fields = 0 THEN 0 ELSE IF Len(ends) < c.fields THEN Len(line) ELSE ends[c.fields]
        inside == Cardinality({k \in (at + 1)..Len(line) : line[k] # NL})
    IN  Behind(line, at + Smaller(c.chars, inside))
RunOf(c, lines, k) ==
    Cardinality({j \in k..Len(lines) : \A i \in k..j : KeyOf(c, lines[i]) = KeyOf(c, lines[k])})
RunText(c, line, n) ==
    IF (n = 1 /\ c.doubles) \/ (n > 1 /\ c.singles) THEN <<>>
    ELSE (IF c.counts THEN Decimal(n) \o <<32>> ELSE <<>>) \o line
UniqRight(c, seen) ==
    LET lines == Lines(c.in)
        firsts == Ascending({k \in DOMAIN lines : k = 1 \/ KeyOf(c, lines[k]) # KeyOf(c, lines[k - 1])})
    IN  seen.out = FlattenSeq([j \in DOMAIN firsts |-> RunText(c, lines[firsts[j]], RunOf(c, lines, firsts[j]))])

HeadRight(c, seen) ==
    seen.out = IF c.bytes THEN SubSeq(c.in, 1, Smaller(c.count, Len(c.in)))
               ELSE FlattenSeq(SubSeq(Lines(c.in), 1, Smaller(c.count, Len(Lines(c.in)))))
LastLines(text, n) == FlattenSeq(Behind(Lines(text), IF Len(Lines(text)) < n THEN 0 ELSE Len(Lines(text)) - n))
TailRight(c, seen) ==
    seen.out = CASE c.mode = "n" /\ ~c.plus -> LastLines(c.in, c.count)
                 [] c.mode = "n" /\ c.plus -> FlattenSeq(Behind(Lines(c.in), IF c.count = 0 THEN 0 ELSE c.count - 1))
                 [] c.mode = "c" /\ ~c.plus -> Behind(c.in, IF Len(c.in) < c.count THEN 0 ELSE Len(c.in) - c.count)
                 [] c.mode = "c" /\ c.plus -> Behind(c.in, IF c.count = 0 THEN 0 ELSE c.count - 1)

-----------------------------------------------------------------------------
(* tr: c.items1 and c.items2 are what the sets were written from: ranges   *)
(* <<"range", first, last>>, repetitions <<"rep", rune, n>> and classes     *)
(* <<"class", n>>.                                                         *)

ItemRunes(item, fill) ==
    CASE item[1] = "range" -> [k \in 1..(item[3] - item[2] + 1) |-> item[2] + k - 1]
      [] item[1] = "rep" -> [k \in 1..(IF item[3] = 0 THEN fill ELSE item[3]) |-> item[2]]
      [] item[1] = "class" -> <<>>
Expanded(items, fill) == FlattenSeq([k \in DOMAIN items |-> ItemRunes(items[k], fill)])
ClassesOf(items) == {items[k][2] : k \in {j \in DOMAIN items : items[j][1] = "class"}}
Members(items) == Range(Expanded(items, 1)) \cup UNION {Classes[n][2] : n \in ClassesOf(items)}

Replaced(c, r) ==
    LET from == Expanded(c.items1, 1)
        to == Expanded(c.items2, Len(from))
        at == IF r \in Range(from) /\ ~c.complement THEN Least({k \in DOMAIN from : from[k] = r}) ELSE Len(to)
    IN  IF (r \in Members(c.items1)) = c.complement THEN r
        ELSE IF ClassesOf(c.items2) = {LowerClass} THEN ToLower(r)
        ELSE IF ClassesOf(c.items2) = {UpperClass} THEN ToUpper(r)
        ELSE to[Smaller(at, Len(to))]
Squeeze(text, S) == SelectSeq([k \in DOMAIN text |-> IF k > 1 /\ text[k] = text[k - 1] /\ text[k] \in S THEN -1 ELSE text[k]], LAMBDA r : r >= 0)
Impossible(c) == c.translate /\ (c.items2 = <<>> \/ ClassesOf(c.items2) \notin {{}, {LowerClass}, {UpperClass}})
TrRight(c, seen) ==
    seen.out = IF Impossible(c) THEN <<>>
               ELSE IF c.translate
               THEN Squeeze([k \in DOMAIN c.in |-> Replaced(c, c.in[k])], IF c.squeeze THEN Members(c.items2) ELSE {})
               ELSE IF c.delete THEN SelectSeq(c.in, LAMBDA r : (r \in Members(c.items1)) = c.complement)
               ELSE Squeeze(c.in, Members(c.items1))

-----------------------------------------------------------------------------
(* sort.                                                                   *)

\* Where the fields of a line start and end; blanks before a field are its own
\* when there is no separator.
FieldEnds(sep, line) ==
    Ascending({k \in 1..(Len(line) - 1) : IF sep = <<>> THEN line[k] \notin Blanks /\ line[k + 1] \in Spaces
                                            ELSE line[k + 1] = sep[1]} \cup {Len(line) - 1})
FieldStart(sep, line, k) ==
    LET es == FieldEnds(sep, line)
    IN  IF k = 1 THEN 0 ELSE IF k - 1 >= Len(es) THEN Len(line) - 1
        ELSE es[k - 1] + (IF sep = <<>> THEN 0 ELSE 1)
FieldEnd(sep, line, k) == LET es == FieldEnds(sep, line) IN IF k > Len(es) THEN Len(line) - 1 ELSE es[k]
OverBlanks(skip, line, p) == IF ~skip THEN p ELSE Least({q \in p..(Len(line) - 1) : line[q + 1] \notin Blanks})
KeyText(sep, line, kd) ==
    LET from == OverBlanks("sb" \in kd.flags, line, FieldStart(sep, line, kd.sc)) + kd.sch - 1
        to == IF kd.ec = 0 THEN Len(line) - 1
              ELSE IF kd.ech = 0 THEN FieldEnd(sep, line, kd.ec)
              ELSE OverBlanks("eb" \in kd.flags, line, FieldStart(sep, line, kd.ec)) + kd.ech
    IN  SubSeq(line, from + 1, Smaller(to, Len(line) - 1))

ValueOf(kd, key) ==
    IF "n" \in kd.flags THEN <<Numeric(key)>>
    ELSE LET kept == SelectSeq(key, LAMBDA b : ~Ignorable(kd.flags, b))
         IN  [k \in DOMAIN kept |-> IF "f" \in kd.flags THEN ToUpper(kept[k]) ELSE kept[k]]
OrderOf(c, kd, a, b) ==
    LET d == Compare(ValueOf(kd, KeyText(c.sep, a, kd)), ValueOf(kd, KeyText(c.sep, b, kd)))
    IN  IF "r" \in kd.flags THEN -d ELSE d

\* The keys that were given, with the modifiers of the call; where they leave two lines equal, and -u does not
\* make them one, the whole lines decide.
Given(c) ==
    IF c.keys = <<>> THEN <<WholeLine(c.global)>>
    ELSE [k \in DOMAIN c.keys |-> [c.keys[k] EXCEPT !.flags = @ \cup c.global \cup IF c.blanks THEN {"sb", "eb"} ELSE {}]]
Deciding(c) == IF c.unique THEN Given(c) ELSE Append(Given(c), WholeLine(c.global \cap {"r"}))
Orders(c, keys, a, b) == [k \in DOMAIN keys |-> OrderOf(c, keys[k], a, b)]
Negative(orders) == \E k \in DOMAIN orders : orders[k] < 0 /\ \A j \in 1..(k - 1) : orders[j] = 0
Before(c, a, b) == Negative(Orders(c, Deciding(c), a, b))
Same(c, a, b) == Range(Orders(c, Deciding(c), a, b)) \subseteq {0}
Times(line, lines) == Cardinality({k \in DOMAIN lines : lines[k] = line})

\* The lines are those of the input, in order, and -c finds them so.
SortRight(c, seen) ==
    LET lines == Lines(seen.out)
        given == Completed(Lines(c.in))
        again == [c EXCEPT !.check = TRUE, !.in = seen.out]
    IN  ~c.check /\ c.outfile = <<>> =>
        /\ \A k \in 2..Len(lines) : ~Before(c, lines[k], lines[k - 1]) /\ (c.unique => ~Same(c, lines[k], lines[k - 1]))
        /\ IF c.unique
           THEN Range(lines) \subseteq Range(given) /\ \A k \in DOMAIN given : \E l \in Range(lines) : Same(c, l, given[k])
           ELSE \A l \in Range(lines) \cup Range(given) : Times(l, lines) = Times(l, given)
        /\ (lines # <<>> /\ ~(c.unique /\ Len(c.keys) > 1)) => \A r \in SortMain(<<>>, again) : r.rc = 0

-----------------------------------------------------------------------------
(* grep.                                                                   *)

Wanted(c, lines) ==
    LET all == Ascending({n \in DOMAIN lines : LineMatches(c, FoldedText(c, Chomp(lines[n]))) # c.v})
    IN  IF c.max = 0 THEN all ELSE SubSeq(all, 1, Smaller(c.max, Len(all)))
\* The lines to print, for the wanted ones and those near them; nothing follows
\* the last line that -m asks for.
Near(c, lines, wanted) ==
    LET last == IF c.max > 0 /\ Len(wanted) = c.max THEN Last(wanted) ELSE Len(lines)
    IN  {n \in 1..last : \E k \in DOMAIN wanted : n \in (wanted[k] - c.before)..(wanted[k] + c.after)}
GroupText(c, name, lines, wanted, n, near) ==
    LET gap == n # Least(near) /\ n - 1 \notin near /\ Context(c)
        sep == IF n \in Range(wanted) THEN Colon ELSE Dash
        shown == Prefix(c, name, n, sep) \o Chomp(lines[n]) \o <<NL>>
    IN  (IF gap THEN <<45, 45, NL>> ELSE <<>>) \o shown
FileText(c, name, lines, wanted) ==
    LET near == IF Context(c) THEN Near(c, lines, wanted) ELSE Range(wanted)
        ns == Ascending(near)
    IN  CASE c.mode = "l" -> IF wanted = <<>> THEN <<>> ELSE name \o <<NL>>
          [] c.mode = "q" -> <<>>
          [] c.mode = "c" -> IF c.max > 0 /\ Len(wanted) = c.max THEN <<>> ELSE Decimal(Len(wanted)) \o <<NL>>
          [] OTHER -> FlattenSeq([j \in DOMAIN ns |-> GroupText(c, name, lines, wanted, ns[j], near)])

GrepRight(call, seen) ==
    LET c == Patterned(call)
        lines(k) == Lines(c.fs[c.args[k]])
        text(k) == FileText(c, c.args[k], lines(k), Wanted(c, lines(k)))
        found == {k \in DOMAIN c.args : Wanted(c, lines(k)) # <<>>}
    IN  (~c.o /\ ~c.bad /\ Range(c.args) \subseteq DOMAIN c.fs /\ c.recursive = "") =>
        /\ seen.out = FlattenSeq([k \in DOMAIN c.args |-> text(k)])
        /\ seen.rc = IF found # {} THEN Match ELSE NoMatch

\* With -o the parts of a line are matches that are not empty; between two of
\* them no match begins, and none is longer.
PartsRight(c, line, ps) ==
    LET end(k) == IF k = 0 THEN 0 ELSE ps[k][2]
        hits(pos) == UNION {Hits(c, c.patterns[j], line, pos) : j \in DOMAIN c.patterns}
    IN  /\ \A k \in DOMAIN ps : ps[k] \in hits(end(k - 1)) /\ ps[k][1] < ps[k][2]
        /\ \A k \in 0..Len(ps) : \A h \in hits(end(k)) :
               h[1] < h[2] => k < Len(ps) /\ (ps[k + 1][1] < h[1] \/ (ps[k + 1][1] = h[1] /\ h[2] <= ps[k + 1][2]))
\* Where the parts that were printed can be.
Placed(line, parts) ==
    {f \in [DOMAIN parts -> 0..Len(line)] :
        \A k \in DOMAIN parts : StartsAt(parts[k], line, f[k]) /\ (k > 1 => f[k] >= f[k - 1] + Len(parts[k - 1]))}
OnlyMatching(c, seen) ==
    c.o /\ Len(c.args) = 1 /\ ~c.v /\ c.mode = "" /\ c.max = 0 /\ ~c.w /\ ~c.names /\ Len(Lines(c.fs[c.args[1]])) = 1 =>
        LET line == FoldedText(c, Chomp(c.fs[c.args[1]]))
            parts == [k \in DOMAIN Lines(seen.out) |-> FoldedText(c, Chomp(Lines(seen.out)[k]))]
        IN  \E f \in Placed(line, parts) : PartsRight(c, line, [k \in DOMAIN f |-> <<f[k], f[k] + Len(parts[k])>>])

-----------------------------------------------------------------------------
(* ls.                                                                     *)

\* The directories that -R goes into, as <<the path before it, name, inode>>:
\* none of them is inside itself.
Visible(c, ino) == {e \in Range(c.nodes[ino].entries) : ~Hidden(c, e[1])}
InodeOf(c, ino) == IF c.L THEN Followed(c.nodes, ino) ELSE ino
DirsIn(c, ino) == {e \in Visible(c, ino) : e[1] \notin {Dot, DotDot} /\ InodeOf(c, e[2]) # 0 /\ c.nodes[InodeOf(c, e[2])].kind = "dir"}
RECURSIVE Reached(_, _, _, _, _)
Reached(c, path, name, ino, trail) ==
    {<<path, name, ino>>}
    \cup IF ~c.R THEN {}
         ELSE UNION {Reached(c, path \o name \o <<Slash>>, e[1], InodeOf(c, e[2]), trail \cup {ino}) :
                     e \in {d \in DirsIn(c, ino) : InodeOf(c, d[2]) \notin trail \cup {ino}}}
RECURSIVE Cyclic(_, _, _)
Cyclic(c, ino, trail) ==
    c.R /\ \E e \in DirsIn(c, ino) : InodeOf(c, e[2]) \in trail \cup {ino} \/ Cyclic(c, InodeOf(c, e[2]), trail \cup {ino})
Dangling(c, inos) == \E i \in inos : Stuck(c, i)

\* The listings of the output, between its empty lines.
EmptyAt(out) == Ascending({k \in DOMAIN out : out[k] = EmptyLine})
Listings(out) ==
    LET es == EmptyAt(out) IN {PieceOf(out, es, j) : j \in 1..(Len(es) + 1)}
Heading(c, d) == IF d[1] = <<>> THEN <<>> ELSE <<Header1(d[1], Readable(c, d[2]))>>

\* A listing has what can be seen of its directory, each entry once, in the
\* order that was asked for.
ListingOf(c, d, l) ==
    LET n == Len(Heading(c, d))
        order == {f \in [1..Cardinality(Visible(c, d[3])) -> Visible(c, d[3])] :
                    /\ Range(f) = Visible(c, d[3])
                    /\ \A j \in 2..Len(f) : c.U \/ EntCmp(c, Entry(c, f[j - 1][1], f[j - 1][2], c.L), Entry(c, f[j][1], f[j][2], c.L)) < 0}
    IN  /\ Len(l) = n + Cardinality(Visible(c, d[3])) /\ SubSeq(l, 1, n) = Heading(c, d)
        /\ \E f \in order : \A k \in DOMAIN f : l[n + k] = Output(c, Entry(c, f[k][1], f[k][2], c.L /\ StatsAll(c)))

\* ls of the directory it is in: every directory is listed once, a link that
\* leads back is told, and the shell is where it was.
LsRight(c, seen) ==
    LET dirs == Reached(c, <<>>, Dot, 1, {})
        ls == Listings(seen.out)
    IN  c.args = <<>> /\ ~c.d /\ ~Dangling(c, {d[3] : d \in dirs}) =>
        /\ Len(EmptyAt(seen.out)) + 1 = Cardinality(dirs)
        /\ \A d \in dirs : \E l \in ls : ListingOf(c, d, l)
        /\ seen.rc = IF Cyclic(c, 1, {}) THEN 1 ELSE 0
        /\ seen.fs = 1
=============================================================================
