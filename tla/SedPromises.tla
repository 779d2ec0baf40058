---------------------------- MODULE SedPromises ----------------------------
(***************************************************************************)
(* What a call of sed promises: definitions that say what a substitution,  *)
(* a range of lines and the editing of files in place mean, and not how    *)
(* sed goes about them.  c is a call and r what is seen of it.             *)
(***************************************************************************)
EXTENDS Sed

\* The lines of the input, one file after the other.
InputLines(c) == FlattenSeq([k \in DOMAIN c.args |-> c.fs[c.args[k]].lines])
Plain(c) == c.i = NoInplace /\ \A k \in DOMAIN c.args : c.args[k] \in DOMAIN c.fs

-----------------------------------------------------------------------------
(* Substitutions.                                                          *)

\* The ends of the matches of re in text that begin behind place b.
Ends(re, text, b) ==
    {e \in b..Len(text) :
        /\ re.bol => b = 0
        /\ re.eol => e = Len(text)
        /\ \A k \in (b + 1)..e : text[k] = re.char
        /\ ~re.star => e = b + IF re.char = "" THEN 0 ELSE 1}

\* The occurrences are the longest matches that overlap none before them; an
\* empty one does not stand where another one ends.
Occurrences(re, text) ==
    LET last == [b \in 0..Len(text) |-> Max(Ends(re, text, b) \cup {-1})]
        begins[b \in 0..Len(text)] ==
            /\ last[b] # -1
            /\ \A a \in 0..(b - 1) : begins[a] => last[a] < b \/ (last[a] = b /\ last[b] > b)
    IN  {m \in {<<b, last[b]>> : b \in 0..Len(text)} : begins[m[1]]}

\* The text with the n-th occurrence replaced, or with all of them when n is 0.
Replaced(arg, text) ==
    LET all == Occurrences(arg.re, text)
        chosen == IF arg.n = 0 THEN all
                  ELSE {m \in all : Cardinality({o \in all : o[1] <= m[1]}) = arg.n}
        Put(k) == IF \E m \in chosen : m[1] = k
                  THEN LET m == CHOOSE m \in chosen : m[1] = k
                       IN  Regsub(arg.new, SubSeq(text, m[1] + 1, m[2]))
                  ELSE <<>>
        Kept(k) == IF \E m \in chosen : m[1] < k /\ k <= m[2] THEN <<>> ELSE <<text[k]>>
    IN  Put(0) \o FlattenSeq([k \in 1..Len(text) |-> Kept(k) \o Put(k)])

\* The script s/re/new/ prints every line with its occurrences replaced.
SubstituteRight(c, r) ==
    Plain(c) /\ ~c.n /\ Len(c.args) = 1 /\ Len(c.cmds) = 1 /\ c.cmds[1].code = "s"
    /\ Addresses(c.cmds[1]) = 0 /\ ~c.cmds[1].not /\ ~c.cmds[1].arg.p /\ c.cmds[1].arg.re # Empty =>
        LET f == c.fs[c.args[1]]
        IN  r.out = TextOf([f EXCEPT !.lines = [k \in DOMAIN @ |-> Replaced(c.cmds[1].arg, @[k])]])

-----------------------------------------------------------------------------
(* Ranges.                                                                 *)

Is(a, lines, k) ==
    CASE a.type = "line" -> a.v = k
      [] a.type = "last" -> k = Len(lines)
      [] a.type = "re" -> \E b \in 0..Len(lines[k]) : Ends(a.v, lines[k], b) # {}

\* The lines that the addresses of a command choose: of two, a range goes from
\* a line that is the first, outside any range before it, to the next one that
\* is the second, to the end when there is none, and to itself when the second
\* is a line number that is not behind it.
Chosen(c, lines) ==
    LET n == Len(lines)
        end == [k \in 1..n |->
                  IF c.a2.type = "line" THEN IF c.a2.v > n THEN n ELSE Max({k, c.a2.v})
                  ELSE Min({n} \cup {j \in (k + 1)..n : Is(c.a2, lines, j)})]
        begins[k \in 1..n] == Is(c.a1, lines, k) /\ \A j \in 1..(k - 1) : begins[j] => end[j] < k
        in == CASE Addresses(c) = 0 -> 1..n
                [] Addresses(c) = 1 -> {k \in 1..n : Is(c.a1, lines, k)}
                [] OTHER -> {k \in 1..n : \E j \in 1..k : begins[j] /\ k <= end[j]}
    IN  IF c.not THEN (1..n) \ in ELSE in

\* None of its addresses is the regular expression used before.
NamesItsOwn(c) == (c.a1.type = "re" => c.a1.v # Empty) /\ (c.a2.type = "re" => c.a2.v # Empty)

\* The script a1,a2p with -n prints the lines of the ranges and no others.
RangesRight(c, r) ==
    Plain(c) /\ c.n /\ Len(c.cmds) = 1 /\ c.cmds[1].code = "p" /\ NamesItsOwn(c.cmds[1]) =>
        LET lines == InputLines(c)
            chosen == Chosen(c.cmds[1], lines)
            full == SelectSeq(c.args, LAMBDA f : c.fs[f].lines # <<>>)
            nl == full = <<>> \/ c.fs[Last(full)].nl
        IN  r.out = FlattenSeq([k \in DOMAIN lines |->
                        IF k \notin chosen THEN <<>>
                        ELSE lines[k] \o IF k = Len(lines) /\ ~nl THEN <<>> ELSE <<Newline>>])

-----------------------------------------------------------------------------
(* Files edited in place.                                                  *)

\* None of its commands goes on to the next file (n, N), ends the run (q),
\* reads or writes another file or needs a regular expression used before.
KeepsToItsFile(c) ==
    /\ c.i # NoInplace /\ ToSet(c.args) \subseteq DOMAIN c.fs /\ ~Refused(c.cmds)
    /\ Cardinality(ToSet(c.args)) = Len(c.args)
    /\ \A k \in DOMAIN c.cmds :
        /\ c.cmds[k].code \notin {"n", "N", "q", "w", "r"}
        /\ c.cmds[k].code = "s" => c.cmds[k].arg.w = "" /\ c.cmds[k].arg.re # Empty
        /\ NamesItsOwn(c.cmds[k])

\* With -i every file becomes what it becomes when it is the only one named,
\* and its backup what it was.
EditedAlone(c, r) ==
    KeepsToItsFile(c) =>
        \A f \in ToSet(c.args) :
            /\ r.fs[f] = SedSeen(SedMain(Fresh, [c EXCEPT !.args = <<f>>])).fs[f]
            /\ c.i # "" => r.fs[f \o c.i] = c.fs[f]
=============================================================================
