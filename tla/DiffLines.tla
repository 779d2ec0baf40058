----------------------------- MODULE DiffLines -----------------------------
(***************************************************************************)
(* How diff compares two files (diff-src/diffreg.c): Stone's algorithm on  *)
(* hashed lines, the check against the lines themselves, and the output    *)
(* formats.                                                                *)
(*                                                                         *)
(* A file is a sequence of lines.  A line without its newline, which can   *)
(* only be the last one, is a line of its own that has the hash of the     *)
(* complete one.  Output is a sequence of items: <<"text", l>> is a line   *)
(* of a file printed as it is, every other item is a line that diff makes  *)
(* up itself.                                                              *)
(***************************************************************************)
EXTENDS Integers, Sequences, SequencesExt, FiniteSetsExt, TLC

CONSTANTS
    Hash,    \* readhash(): a function on lines, with collisions
    Fold,    \* what -i, -b or -w makes of a line
    Ignored, \* the lines that match the pattern of -I
    Dots,    \* what fetch() prints for a line "."
    MaxTries \* 256 in stone()

\* o is a record of options: format, context, fold, minimal, ignore.
Canonical(o, l) == IF o.fold THEN Fold[l] ELSE l
Hashes(o, f) == [i \in DOMAIN f |-> Hash[Canonical(o, f[i])]]

-----------------------------------------------------------------------------
(* Which lines are matched.                                                *)

\* prune(): the common prefix and suffix of two sequences of hashes.
Pref(g, h) ==
    Max({p \in 0..Min({Len(g), Len(h)}) : \A i \in 1..p : g[i] = h[i]})
Suff(g, h) ==
    Max({s \in 0..(Min({Len(g), Len(h)}) - Pref(g, h)) :
            \A i \in 0..(s - 1) : g[Len(g) - i] = h[Len(h) - i]})
Pruned(g, h, f) == SubSeq(f, Pref(g, h) + 1, Len(f) - Suff(g, h))

\* sort(): by hash, then by position.
Sorted(h) ==
    LET Rank(i) == Cardinality({k \in 1..Len(h) : h[k] < h[i] \/ (h[k] = h[i] /\ k <= i)})
    IN  [j \in 1..Len(h) |-> CHOOSE i \in 1..Len(h) : Rank(i) = j]

\* equiv(): the classes of h one after another, each first member negative.
Member(h) ==
    LET s == Sorted(h)
    IN  [j \in 1..(Len(h) + 1) |->
           IF j > Len(h) THEN -1
           ELSE IF j = 1 \/ h[s[j]] # h[s[j - 1]] THEN -s[j] ELSE s[j]]

\* equiv() and unsort(): where the class of each line of g begins, or 0.
Class(g, h) ==
    LET s == Sorted(h)
    IN  [i \in DOMAIN g |->
           LET ofClass == {j \in 1..Len(h) : h[s[j]] = g[i]}
           IN  IF ofClass = {} THEN 0 ELSE Min(ofClass)]

\* The candidates; klist[l + 1] is the place of the l-candidate.
NoCandidates == [klist |-> <<1>>, clist |-> <<[x |-> 0, y |-> 0, pred |-> 1]>>]
NewCand(s, x, y, p) == Append(s.clist, [x |-> x, y |-> y, pred |-> p])
YOf(s, l) == s.clist[s.klist[l + 1]].y
Longest(s) == Len(s.klist) - 1

RECURSIVE Halve(_, _, _, _)
Halve(s, y, i, j) ==
    LET l == (i + j) \div 2
    IN  IF l <= i THEN l + 1
        ELSE IF YOf(s, l) > y THEN Halve(s, y, i, l)
        ELSE IF YOf(s, l) < y THEN Halve(s, y, l, j)
        ELSE l

\* Mutation of Search: the second half starts one too far.
RECURSIVE HalveFar(_, _, _, _)
HalveFar(s, y, i, j) ==
    LET l == (i + j) \div 2
    IN  IF l <= i THEN l + 1
        ELSE IF YOf(s, l) > y THEN HalveFar(s, y, i, l)
        ELSE IF YOf(s, l) < y THEN HalveFar(s, y, l + 1, j)
        ELSE l

SearchFar(s, y) ==
    IF YOf(s, Longest(s)) < y THEN Longest(s) + 1 ELSE HalveFar(s, y, 0, Longest(s) + 1)

Search(s, y) ==
    IF YOf(s, Longest(s)) < y THEN Longest(s) + 1 ELSE Halve(s, y, 0, Longest(s) + 1)

\* The inner loop of stone(): line i of the old file with the members of its
\* class from place j on.
RECURSIVE Mate(_, _, _, _, _, _, _, _)
Mate(s, i, b, j, oldc, oldl, tries, bound) ==
    LET y == IF b[j] < 0 THEN -b[j] ELSE b[j]
        More(t, c, l, n) ==
            IF b[j + 1] > 0 /\ n < bound THEN Mate(t, i, b, j + 1, c, l, n, bound) ELSE t
        l == Search(s, y)
        pred == IF l # oldl + 1 THEN s.klist[l] ELSE oldc
        new == Len(s.clist) + 1
    IN  IF y <= s.clist[oldc].y THEN More(s, oldc, oldl, tries)
        ELSE IF l > Longest(s)
        THEN [klist |-> Append(s.klist, new), clist |-> NewCand(s, i, y, pred)]
        ELSE IF YOf(s, l) <= y THEN More(s, pred, oldl, tries)
        ELSE More([klist |-> [s.klist EXCEPT ![l + 1] = new], clist |-> NewCand(s, i, y, pred)],
                  s.klist[l + 1], l, tries + 1)

Stone(a, b, bound) ==
    FoldLeftDomain(LAMBDA s, i : IF a[i] = 0 THEN s
                                 ELSE Mate(s, i, b, a[i], s.klist[1], 0, 0, bound),
                   NoCandidates, a)

\* unravel(): the pairs of the longest chain.
RECURSIVE Chain(_, _)
Chain(clist, p) ==
    IF clist[p].y = 0 THEN {} ELSE {<<clist[p].x, clist[p].y>>} \cup Chain(clist, clist[p].pred)

\* The match vector J, with its two sentinels: J[i] is the line of the new
\* file that line i of the old one is matched with.
Unravel(g, h, chain) ==
    LET p == Pref(g, h)
    IN  [i \in 0..(Len(g) + 1) |->
           IF i <= p THEN i
           ELSE IF i > Len(g) - Suff(g, h) THEN i + Len(h) - Len(g)
           ELSE IF \E y \in 1..Len(h) : <<i - p, y>> \in chain
                THEN p + (CHOOSE y \in 1..Len(h) : <<i - p, y>> \in chain)
                ELSE 0]

LongestChain(s) == Chain(s.clist, Last(s.klist))
ChainOf(pg, ph, bound) == LongestChain(Stone(Class(pg, ph), Member(ph), bound))
MatchesOf(g, h, bound) == Unravel(g, h, ChainOf(Pruned(g, h, g), Pruned(g, h, h), bound))

Matches(o, old, new) ==
    MatchesOf(Hashes(o, old), Hashes(o, new), IF o.minimal THEN Len(new) + 1 ELSE MaxTries)

\* check(): a match of lines that only have the same hash is broken.
Check(o, old, new, J) ==
    [i \in DOMAIN J |->
       IF i \in DOMAIN old /\ J[i] # 0 /\ Canonical(o, old[i]) # Canonical(o, new[J[i]])
       THEN 0 ELSE J[i]]

-----------------------------------------------------------------------------
(* output(): the changes.  Lines a to b of the old file become lines c to  *)
(* d of the new one.                                                       *)

RECURSIVE Forward(_, _, _), Backward(_, _, _)

Forward(J, m, from) ==
    IF from > m THEN <<>>
    ELSE LET i0 == Min({i \in from..(m + 1) : i = m + 1 \/ J[i] # J[i - 1] + 1})
             i1 == Max({i \in (i0 - 1)..m : \A k \in i0..i : J[k] = 0})
             j1 == J[i1 + 1] - 1
         IN  <<[a |-> i0, b |-> i1, c |-> J[i0 - 1] + 1, d |-> j1]>>
             \o Forward([J EXCEPT ![i1] = j1], m, i1 + 1)

Backward(J, m, from) ==
    IF from < 1 THEN <<>>
    ELSE LET i0 == Max({i \in 0..from : i = 0 \/ J[i] # J[i + 1] - 1 \/ J[i] = 0})
             i1 == Min({i \in 1..(i0 + 1) : \A k \in i..i0 : J[k] = 0})
             j1 == J[i1 - 1] + 1
         IN  <<[a |-> i1, b |-> i0, c |-> j1, d |-> J[i0 + 1] - 1]>>
             \o Backward([J EXCEPT ![i1] = j1], m, i1 - 1)

\* change() returns at once when nothing changes, or all of it is ignored.
Counts(o, old, new, h) ==
    /\ h.a <= h.b \/ h.c <= h.d \/ o.format = "ifdef"
    /\ ~(o.ignore /\ (\A i \in h.a..h.b : old[i] \in Ignored)
                  /\ (\A i \in h.c..h.d : new[i] \in Ignored))

AllChanges(o, J, m, n) ==
    IF m = 0 THEN <<[a |-> 1, b |-> 0, c |-> 1, d |-> n]>>
    ELSE IF o.format = "edit" THEN Backward(J, m, m) ELSE Forward(J, m, 1)

Changes(o, old, new) ==
    SelectSeq(AllChanges(o, [Check(o, old, new, Matches(o, old, new))
                             EXCEPT ![0] = 0, ![Len(old) + 1] = Len(new) + 1], Len(old), Len(new)),
              LAMBDA h : Counts(o, old, new, h))
=============================================================================
