-------------------------------- MODULE Grep --------------------------------
(***************************************************************************)
(* grep (sbase-src/grep.c), with what this project added to it: -o, -m,    *)
(* context, recursion.  regexec() is that of the C library: a pattern      *)
(* stands for [bol, chars, star, eol], the regular expression ^chars*$     *)
(* with the star and the anchors that it has.                              *)
(*                                                                         *)
(* A path names a text in fs or, in dirs, the set of paths of its entries; *)
(* those in links are symbolic links.                                      *)
(***************************************************************************)
EXTENDS Sorting

Word == Alnum \cup {95}
Colon == <<58>>
Error == 2
NoMatch == 1
Match == 0

-----------------------------------------------------------------------------
(* regexec(), from offset pos on: line begins there for \<, but not for ^. *)

WordStart(line, pos, at) == (at = pos \/ line[at] \notin Word) /\ at < Len(line) /\ line[at + 1] \in Word
WordEnd(line, pos, at) == at > pos /\ line[at] \in Word /\ (at = Len(line) \/ line[at + 1] \notin Word)
Repeats(line, from, b) == {k \in from..Len(line) : \A j \in (from + 1)..k : line[j] = b}
MatchEnds(p, line, at) ==
    LET fixed == IF p.star THEN Front(p.chars) ELSE p.chars
        ends == IF ~StartsAt(fixed, line, at) THEN {}
                ELSE IF p.star THEN Repeats(line, at + Len(fixed), Last(p.chars)) ELSE {at + Len(fixed)}
    IN  {e \in ends : (p.bol => at = 0) /\ (p.eol => e = Len(line))}

\* -w and -x are put around each pattern (wrappattern).
Wrapped(c, line, pos, at, ends) ==
    IF c.x THEN {e \in ends : at = 0 /\ e = Len(line)}
    ELSE IF c.w THEN {e \in ends : WordStart(line, pos, at) /\ WordEnd(line, pos, e)} ELSE ends
FoldedText(c, text) == IF c.i THEN [k \in DOMAIN text |-> ToUpper(text[k])] ELSE text
Folded(c, p) == [p EXCEPT !.chars = FoldedText(c, @)]

\* The matches <<start, end>>; a fixed string is looked for as it is, -w does
\* nothing to it, and only a whole line matches it under -x.
Hits(c, p, line, pos) ==
    UNION {{<<at, e>> : e \in IF c.fixed THEN MatchEnds(Folded(c, p), line, at)
                              ELSE Wrapped(c, line, pos, at, MatchEnds(Folded(c, p), line, at))} : at \in pos..Len(line)}
FixedLine(c, line) == \E k \in DOMAIN c.patterns : Folded(c, c.patterns[k]).chars = line
LineMatches(c, line) ==
    IF c.fixed /\ c.x THEN FixedLine(c, line)
    ELSE \E k \in DOMAIN c.patterns : Hits(c, c.patterns[k], line, 0) # {}

\* nextmatch(): of all patterns the leftmost match, and the longest there.
NextMatch(hits) ==
    LET start == Least({h[1] : h \in hits}) IN <<start, Greatest({h[2] : h \in {g \in hits : g[1] = start}})>>
RECURSIVE Parts(_, _, _)
Parts(c, line, pos) ==
    LET hits == UNION {Hits(c, c.patterns[k], line, pos) : k \in DOMAIN c.patterns}
        After(m) == IF m[2] > m[1] THEN <<m>> \o Parts(c, line, m[2])
                    ELSE IF m[1] = Len(line) THEN <<>> ELSE Parts(c, line, m[1] + 1)
    IN  IF hits = {} THEN <<>> ELSE After(NextMatch(hits))

-----------------------------------------------------------------------------
(* grepfile().  A scan g is the state of its loop; ring holds up to c.before *)
(* lines: those of the slots before next.                                    *)

Context(c) == (c.after > 0 \/ c.before > 0) /\ c.mode \in {"", "n"}
Scan(c) == [out |-> <<>>, count |-> 0, matched |-> 0, after |-> 0, printed |-> 0, any |-> FALSE,
            ring |-> [k \in 0..(c.before - 1) |-> [num |-> 0, line |-> <<>>]], next |-> 0, held |-> 0,
            rc |-> NoMatch, done |-> FALSE, quit |-> FALSE]

Prefix(c, name, n, sep) ==
    (IF c.names THEN name \o sep ELSE <<>>) \o (IF c.mode = "n" THEN Decimal(n) \o sep ELSE <<>>)
PrintLine(c, g, name, n, line, sep) ==
    [g EXCEPT !.out = @ \o Prefix(c, name, n, sep) \o line \o <<NL>>, !.printed = n, !.any = TRUE]

\* The lines before: a gap is marked, and no line is printed twice.
Retell(c, g, name, n, slots) ==
    LET gap == g.any /\ n - g.held > g.printed + 1
        Told(h, slot) == IF g.ring[slot].num <= h.printed THEN h
                         ELSE PrintLine(c, h, name, g.ring[slot].num, g.ring[slot].line, Dash)
    IN  [FoldLeft(Told, IF gap THEN [g EXCEPT !.out = @ \o <<45, 45, NL>>] ELSE g, slots) EXCEPT !.held = 0]
\* Mutation of PrintHeld: the slots in their order, and not in that of the lines.
PrintSlots(c, g, name, n) == Retell(c, g, name, n, [k \in 1..g.held |-> k - 1])
PrintHeld(c, g, name, n) ==
    Retell(c, g, name, n, [k \in 1..g.held |-> (g.next - g.held + (k - 1) + c.before) % c.before])

PartsText(c, name, n, line) ==
    FlattenSeq([k \in DOMAIN Parts(c, FoldedText(c, line), 0) |->
        Prefix(c, name, n, Colon) \o SubSeq(line, Parts(c, FoldedText(c, line), 0)[k][1] + 1, Parts(c, FoldedText(c, line), 0)[k][2]) \o <<NL>>])
PrintSelected(c, g, name, n, line) ==
    IF c.o THEN [g EXCEPT !.out = @ \o IF c.v THEN <<>> ELSE PartsText(c, name, n, line), !.printed = n, !.any = TRUE]
    ELSE PrintLine(c, g, name, n, line, Colon)
Limited(c, g) == IF c.max > 0 /\ g.matched >= c.max THEN [g EXCEPT !.done = TRUE] ELSE g

Selected(c, g, name, n, line) ==
    LET found == [g EXCEPT !.rc = Match, !.matched = @ + 1]
    IN  CASE c.mode = "l" -> [found EXCEPT !.out = name \o <<NL>>, !.done = TRUE]
          [] c.mode = "q" -> [found EXCEPT !.done = TRUE, !.quit = TRUE]
          [] c.mode = "c" -> Limited(c, [found EXCEPT !.count = @ + 1])
          [] OTHER -> Limited(c, [PrintSelected(c, IF Context(c) THEN PrintHeld(c, found, name, n) ELSE found, name, n, line)
                                  EXCEPT !.after = c.after])
Passed(c, g, name, n, line) ==
    IF ~Context(c) THEN g
    ELSE IF g.after > 0 THEN [PrintLine(c, g, name, n, line, Dash) EXCEPT !.after = @ - 1]
    ELSE IF c.before = 0 THEN g
    ELSE [g EXCEPT !.ring[g.next] = [num |-> n, line |-> line], !.next = (@ + 1) % c.before, !.held = Smaller(c.before, @ + 1)]

GrepLine(c, g, name, n, line) ==
    IF g.done THEN g
    ELSE IF LineMatches(c, FoldedText(c, line)) # c.v THEN Selected(c, g, name, n, line) ELSE Passed(c, g, name, n, line)
\* The count is not printed when -m ended the loop.
Finished(c, g) == IF c.mode = "c" /\ ~g.done THEN [g EXCEPT !.out = Decimal(g.count) \o <<NL>>] ELSE g
GrepFile(c, text, name) ==
    Finished(c, FoldLeft(LAMBDA g, n : GrepLine(c, g, name, n, Chomp(Lines(text)[n])), Scan(c), [n \in DOMAIN Lines(text) |-> n]))

-----------------------------------------------------------------------------
(* The files of a call: w is [out, rc, quit].                              *)

Seen(w, g) ==
    [out |-> w.out \o g.out, quit |-> w.quit \/ g.quit, rc |-> IF w.rc # Error /\ g.rc = Match THEN Match ELSE w.rc]
Failed(w) == [w EXCEPT !.rc = Error]

\* greppath() and grepdir(): -r follows the links it is given and no other.
NameOrder(paths) ==
    [j \in 1..Cardinality(paths) |-> CHOOSE p \in paths : Cardinality({q \in paths : Compare(q, p) <= 0}) = j]
RECURSIVE GrepPath(_, _, _, _)
GrepPath(c, w, path, toplevel) ==
    IF w.quit \/ (c.recursive = "r" /\ ~toplevel /\ path \in c.links) THEN w
    ELSE IF path \in DOMAIN c.dirs
    THEN FoldLeft(LAMBDA v, child : GrepPath(c, v, child, FALSE), w, NameOrder(c.dirs[path]))
    ELSE IF path \notin DOMAIN c.fs THEN Failed(w)
    ELSE Seen(w, GrepFile(c, c.fs[path], path))
StdinName == <<60>>
GrepOperand(c, w, name, k) ==
    IF w.quit THEN w
    ELSE IF name = Dash THEN Seen(w, GrepFile(c, TextAt(c, k), StdinName))
    ELSE IF c.recursive # "" THEN GrepPath(c, w, name, TRUE)
    ELSE IF name \notin DOMAIN c.fs THEN Failed(w) ELSE Seen(w, GrepFile(c, c.fs[name], name))

Nothing == [out |-> <<>>, rc |-> NoMatch, quit |-> FALSE]
Here == <<46>>
GrepAll(c) ==
    IF c.args = <<>> /\ c.recursive # "" THEN GrepPath(c, Nothing, Here, TRUE)
    ELSE FoldLeft(LAMBDA w, k : GrepOperand(c, w, Operands(c)[k], k), Nothing, [k \in DOMAIN Operands(c) |-> k])

\* c.bad: a file of -f is not there, or a pattern is no regular expression.
\* The tool ends with patterns that are listed and not compiled; reset_state()
\* gives them to regfree() all the same.
Patterned(c) == [c EXCEPT !.names = ~c.noname /\ (@ \/ Len(c.args) > 1 \/ c.recursive # "")]
Remembered(c) == IF c.bad /\ ~c.fixed THEN "listed" ELSE "compiled"
Found(c, w) == [statics |-> Remembered(c), out |-> w.out, fs |-> c.fs, rc |-> IF w.quit THEN Match ELSE w.rc]
GrepMain(s, c) ==
    (IF c.bad THEN Dies(Remembered(c), Started(c), Error) ELSE {Found(c, GrepAll(Patterned(c)))})
    \cup IF s = "listed" THEN Dies(Remembered(c), Started(c), Aborted) ELSE {}
=============================================================================
