-------------------------------- MODULE Diff --------------------------------
(***************************************************************************)
(* A call of the builtin diff: bin_diff() in                               *)
(* diff-src/diff_mod.c, main() in diff.c, diffreg() in diffreg.c and       *)
(* diffdir() in diffdir.c.  A program starts with its static variables at  *)
(* their initial values; this one starts each call with what               *)
(* diff_reset_state() makes of the values the last call left.              *)
(***************************************************************************)
EXTENDS DiffFormats, DiffDirs

CONSTANTS
    Incomplete, \* the lines without a newline
    Context0,   \* 64: the initial value of max_context
    Memory      \* the records of the largest context vector there is memory for

\* status and ignore_pats of diff.c, the capacity of the context vector and
\* chrtran of diffreg.c, and max_context, which is local to change().
Fresh == [status |-> 0, ignore |-> FALSE, capacity |-> 0, fold |-> FALSE, maxContext |-> Context0]


\* diff_reset_state() and diffreg_reset_state().
ResetState(s) == [Fresh EXCEPT !.maxContext = s.maxContext]

\* change(): the context vector grows when a group fills it.  The result is
\* the statics, with capacity -1 when there was no memory.
RECURSIVE Grow(_, _, _)
Grow(s, pending, k) ==
    IF k = 0 THEN s
    ELSE IF s.capacity = -1 \/ pending < s.capacity THEN Grow(s, pending + 1, k - 1)
    ELSE IF 2 * s.maxContext > Memory THEN [s EXCEPT !.capacity = -1]
    ELSE Grow([s EXCEPT !.maxContext = 2 * @, !.capacity = 2 * s.maxContext], pending + 1, k - 1)

GrowAll(s, o, hs) ==
    IF o.format \in {"unified", "context"}
    THEN FoldLeft(LAMBDA t, g : Grow(t, 0, Len(g)), s, Groups(o, hs))
    ELSE s

\* What comes of the changes hs: the call ends when there is no memory for them.
Printed(s, o, c, hs, grown) ==
    IF grown.capacity = -1
    THEN [statics |-> [s EXCEPT !.maxContext = 2 * grown.maxContext], out |-> <<>>, rc |-> 2]
    ELSE [statics |-> [grown EXCEPT !.status = IF hs # <<>> THEN 1 ELSE @],
          out |-> IF c.old = c.new THEN <<>> ELSE Output(o, c.old, c.new, hs),
          rc |-> IF hs # <<>> THEN 1 ELSE s.status]

Compared(s, o, c, hs) == Printed(s, o, c, hs, GrowAll(s, o, hs))

\* diffreg(): files_differ() ends it early when the bytes are the same.
DiffReg(s, c) ==
    LET o == [c.o EXCEPT !.ignore = s.ignore, !.fold = s.fold]
    IN  Compared(s, o, c, IF c.old = c.new THEN <<>> ELSE Changes(o, c.old, c.new))

Walked(s, events, status) ==
    [statics |-> [s EXCEPT !.status = status], out |-> events, rc |-> status]

DiffDirs(s, c) ==
    LET events == Walk(c.o, c.t1, c.t2)
    IN  Walked(s, events, IF WalkStatus(events) = 1 THEN 1 ELSE s.status)

\* A call is [kind, o, old, new], of two files, or [kind, o, t1, t2], of two
\* directories.
Main(s, c) ==
    LET t == [ResetState(s) EXCEPT !.ignore = @ \/ (c.kind = "files" /\ c.o.ignore),
                                   !.fold = @ \/ (c.kind = "files" /\ c.o.fold)]
    IN  IF c.kind = "files" THEN DiffReg(t, c) ELSE DiffDirs(t, c)

-----------------------------------------------------------------------------
(* What a call c promises of its result r.                                 *)

AsRead(o, f) ==
    LET g == [k \in DOMAIN f |-> Canonical(o, f[k])]
    IN  IF o.ignore THEN SelectSeq(g, LAMBDA l : l \notin Ignored) ELSE g

Complete(f) == \A k \in DOMAIN f : f[k] \notin Incomplete

\* Reading what was printed turns the old file into the new one.  A script for
\* ed cannot say that a line has no newline, and diff warns; of two files that
\* are the same nothing is printed, with -D too.
Applied(c, r) ==
    c.kind = "files" /\ r.rc # 2 /\ c.o.format # "brief"
    /\ (c.o.format = "edit" => Complete(c.new))
    /\ (c.o.format = "ifdef" => c.old # c.new) =>
        AsRead(c.o, Reads(c.o, c.old, r.out)) = AsRead(c.o, c.new)

\* The exit status tells whether the files are the same.
Told(c, r) ==
    c.kind = "files" /\ r.rc # 2 /\ ~c.o.ignore /\ c.o.format # "ifdef" =>
        (r.rc = 0 <=> AsRead(c.o, c.old) = AsRead(c.o, c.new))

RECURSIVE CommonLength(_, _)
CommonLength(f, g) ==
    IF f = <<>> \/ g = <<>> THEN 0
    ELSE IF Head(f) = Head(g) THEN 1 + CommonLength(Tail(f), Tail(g))
    ELSE Max({CommonLength(Tail(f), g), CommonLength(f, Tail(g))})

Distinct(f, g) == \A k \in DOMAIN f, l \in DOMAIN g : Hash[f[k]] = Hash[g[l]] => f[k] = g[l]

\* The lines that are matched are a longest common subsequence.
MatchesMost(c) ==
    c.kind = "files" /\ c.o.minimal /\ ~c.o.fold /\ Distinct(c.old, c.new) =>
        LET J == Check(c.o, c.old, c.new, Matches(c.o, c.old, c.new))
        IN  Cardinality({k \in DOMAIN c.old : J[k] # 0}) = CommonLength(c.old, c.new)

Reported(c, r) == c.kind = "dirs" => WalkRight(c.o, c.t1, c.t2, r.out)
=============================================================================
