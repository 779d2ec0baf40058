------------------------------ MODULE DiffDirs ------------------------------
(***************************************************************************)
(* How diff walks two directories (diff-src/diffdir.c).                    *)
(*                                                                         *)
(* A node is [kind |-> "file", text |-> t], [kind |-> "dir", in |-> f] with *)
(* f a function on names, or None.  Names are numbers, in the order of     *)
(* alphasort().  d is a record of options: N, P, r, s, start (0 when there *)
(* is none) and excluded, the names a pattern of -x or -X matches.         *)
(***************************************************************************)
EXTENDS Integers, Sequences, SequencesExt, FiniteSetsExt

None == [kind |-> "none"]
Entry(t, n) == IF t.kind = "dir" /\ n \in DOMAIN t.in THEN t.in[n] ELSE None

\* Mutation of Selected: the starting file is skipped too.
SelectedPast(d, t) ==
    {n \in (IF t.kind = "dir" THEN DOMAIN t.in ELSE {}) : n \notin d.excluded /\ n > d.start}

\* scandir() with selectfile(), then the skip to the starting file.
Selected(d, t) ==
    {n \in (IF t.kind = "dir" THEN DOMAIN t.in ELSE {}) : n \notin d.excluded /\ n >= d.start}

\* The kind an entry is taken for: a missing one is like the other.
KindOf(e, other) == IF e = None THEN other.kind ELSE e.kind
TextOf(e) == IF e = None THEN "" ELSE e.text

RECURSIVE DiffDir(_, _, _, _)

\* diffit(): an entry that is in both, or that a flag makes up for.
DiffIt(d, e1, e2, path) ==
    LET k1 == KindOf(e1, e2)
        k2 == KindOf(e2, e1)
    IN  IF k1 = "dir" /\ k2 = "dir"
        THEN IF d.r THEN DiffDir(d, e1, e2, path) ELSE <<[is |-> "common", at |-> path]>>
        ELSE IF k1 # k2 THEN <<[is |-> "mismatch", at |-> path]>>
        ELSE IF TextOf(e1) # TextOf(e2) THEN <<[is |-> "differ", at |-> path]>>
        ELSE IF d.s THEN <<[is |-> "same", at |-> path]>>
        ELSE <<>>

\* diffdir(): the two sorted lists are merged.
DiffDir(d, t1, t2, path) ==
    LET names == Selected(d, t1) \cup Selected(d, t2)
        Visit(n) ==
            LET e1 == Entry(t1, n)
                e2 == Entry(t2, n)
            IN  IF (e2 = None /\ ~d.N) \/ (e1 = None /\ ~d.N /\ ~d.P)
                THEN <<[is |-> IF e2 = None THEN "only1" ELSE "only2", at |-> Append(path, n)]>>
                ELSE DiffIt(d, e1, e2, Append(path, n))
        Nth(k) == CHOOSE n \in names : Cardinality({m \in names : m <= n}) = k
    IN  FlattenSeq([k \in 1..Cardinality(names) |-> Visit(Nth(k))])

Walk(d, t1, t2) == DiffDir(d, t1, t2, <<>>)

\* status: a mismatch of kinds is reported and leaves it alone.
WalkStatus(events) ==
    IF \E k \in DOMAIN events : events[k].is \in {"only1", "only2", "differ"} THEN 1 ELSE 0

-----------------------------------------------------------------------------
(* What a walk is to report, path by path.                                 *)

RECURSIVE NodesOf(_, _)
NodesOf(t, path) ==
    {<<path, t>>} \cup (IF t.kind = "dir" THEN UNION {NodesOf(t.in[n], Append(path, n)) : n \in DOMAIN t.in}
                                        ELSE {})

At(t, p) == LET here == {x \in NodesOf(t, <<>>) : x[1] = p}
            IN  IF here = {} THEN None ELSE (CHOOSE x \in here : TRUE)[2]

Seen(d, p) ==
    /\ Len(p) \in 1..(IF d.r THEN Len(p) ELSE 1)
    /\ \A k \in DOMAIN p : p[k] \notin d.excluded /\ p[k] >= d.start

\* A path is reached when every directory above it is one on both sides, or on
\* one side with nothing on the other and a flag that makes up for it.
Reached(d, t1, t2, p) ==
    \A k \in 0..(Len(p) - 1) :
        LET a == At(t1, SubSeq(p, 1, k))
            b == At(t2, SubSeq(p, 1, k))
        IN  /\ a.kind \in {"dir", "none"} /\ b.kind \in {"dir", "none"}
            /\ a = None => d.N \/ d.P
            /\ b = None => d.N

Report(d, a, b) ==
    IF (b = None /\ ~d.N) \/ (a = None /\ ~d.N /\ ~d.P)
    THEN IF b = None THEN "only1" ELSE "only2"
    ELSE IF {a.kind, b.kind} \subseteq {"dir", "none"}
    THEN IF d.r THEN "nothing" ELSE "common"
    ELSE IF a # None /\ b # None /\ a.kind # b.kind THEN "mismatch"
    ELSE IF TextOf(a) # TextOf(b) THEN "differ"
    ELSE IF d.s THEN "same" ELSE "nothing"

Expected(d, t1, t2) ==
    {[is |-> Report(d, At(t1, p), At(t2, p)), at |-> p] :
        p \in {x[1] : x \in {y \in NodesOf(t1, <<>>) \cup NodesOf(t2, <<>>) :
                                Seen(d, y[1]) /\ Reached(d, t1, t2, y[1])}}}

Before(p, q) == \E k \in 1..Len(q) :
                    /\ \A i \in 1..(k - 1) : i \in DOMAIN p /\ p[i] = q[i]
                    /\ k \in DOMAIN p => p[k] < q[k]

WalkRight(d, t1, t2, events) ==
    /\ ToSet(events) = {e \in Expected(d, t1, t2) : e.is # "nothing"}
    /\ \A i, j \in DOMAIN events : i < j => Before(events[i].at, events[j].at)
=============================================================================
