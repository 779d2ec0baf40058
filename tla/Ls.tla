--------------------------------- MODULE Ls ---------------------------------
(***************************************************************************)
(* ls (sbase-src/ls.c).  The files are inodes: c.nodes[ino] is [kind,      *)
(* entries, to, size, time, exec], with kind "file", "dir" or "link"; entries *)
(* are the pairs <<name, ino>> of a directory as readdir() gives them, . and  *)
(* .. among them; to is the inode that a link leads to, 0 for none.        *)
(*                                                                         *)
(* What is printed is a sequence of pieces: entries, with what stands      *)
(* before and after their names, headers and empty lines.                  *)
(***************************************************************************)
EXTENDS Sorting

Slash == 47
Dot == <<46>>
DotDot == <<46, 46>>

\* mkent(): with -L, and -H for operands, what a link leads to.  An inode of 0
\* is what stat() did not find.
Followed(nodes, ino) == IF nodes[ino].kind = "link" THEN nodes[ino].to ELSE ino
Entry(c, name, ino, follow) ==
    LET at == IF follow THEN Followed(c.nodes, ino) ELSE ino
    IN  [name |-> name, ino |-> at, kind |-> c.nodes[at].kind, size |-> c.nodes[at].size, time |-> c.nodes[at].time,
         exec |-> c.nodes[at].exec, tino |-> IF c.nodes[at].kind = "link" THEN c.nodes[at].to ELSE 0]
Absent(c, ino, follow) == ino = 0 \/ (follow /\ Followed(c.nodes, ino) = 0)
IsDir(ent) == ent.kind = "dir"
LinkToDir(c, ent) == ent.kind = "link" /\ ent.tino # 0 /\ c.nodes[ent.tino].kind = "dir"

Indicator(c, kind, exec) ==
    CASE kind = "dir" /\ (c.p \/ c.F) -> "/"
      [] kind = "link" /\ c.F -> "@"
      [] kind = "file" /\ c.F /\ exec -> "*"
      [] OTHER -> ""

\* output(): of the long format, what kind of file it is and its size; -q has
\* a ? for what cannot be printed.
Readable(c, name) == [k \in DOMAIN name |-> IF c.q /\ name[k] \notin Printable THEN 63 ELSE name[k]]
Target(c, ent) ==
    IF ent.kind # "link" THEN <<>>
    ELSE <<ent.tino, IF ent.tino = 0 THEN "" ELSE Indicator(c, c.nodes[ent.tino].kind, c.nodes[ent.tino].exec)>>
Output(c, ent) ==
    [is |-> "entry", ino |-> IF c.i THEN ent.ino ELSE 0, name |-> Readable(c, ent.name),
     mark |-> Indicator(c, ent.kind, ent.exec),
     long |-> IF c.l THEN <<ent.kind, ent.size, Target(c, ent)>> ELSE <<>>]
Header1(path, name) == [is |-> "header", name |-> path \o name]
EmptyLine == [is |-> "empty"]

\* entcmp().
EntCmp(c, a, b) ==
    LET major == CASE c.sort = "S" -> b.size - a.size [] c.sort = "t" -> b.time - a.time [] OTHER -> 0
        cmp == IF major # 0 THEN major ELSE Compare(a.name, b.name)
    IN  IF c.r THEN -cmp ELSE cmp
InEntOrder(c, ents) == SortSeq(ents, LAMBDA a, b : EntCmp(c, a, b) < 0)

\* A listing in progress is [out, rc, first, tree, cwd, dead].  tree has the
\* inodes that visit() wrote down; dead: eprintf() ended the tool, wherever it
\* was.
Show(w, pieces) == [w EXCEPT !.out = @ \o pieces]
Hidden(c, name) ==
    IF c.A THEN name \in {Dot, DotDot} ELSE name[1] = Dot[1] /\ ~c.a
Names(c, ino) == SelectSeq(c.nodes[ino].entries, LAMBDA e : ~Hidden(c, e[1]))
StatsAll(c) == c.F \/ c.i \/ c.l \/ c.p \/ c.R \/ c.sort # ""
Entries(c, ino) == [k \in DOMAIN Names(c, ino) |-> Entry(c, Names(c, ino)[k][1], Names(c, ino)[k][2], c.L /\ StatsAll(c))]
Stuck(c, ino) == StatsAll(c) /\ \E k \in DOMAIN Names(c, ino) : Absent(c, Names(c, ino)[k][2], c.L)
Listed(c, ino) == IF c.U THEN Entries(c, ino) ELSE InEntOrder(c, Entries(c, ino))

\* The directories below, for -R; links to directories are gone into only when
\* they are followed.
Below(c, ents) == SelectSeq(ents, LAMBDA e : e.name \notin {Dot, DotDot} /\ ~(LinkToDir(c, e) /\ ~c.L))

Inode(ent) == IF ent.kind = "link" THEN ent.tino ELSE ent.ino
RECURSIVE LsEnt(_, _, _, _)
LsDir(c, w, path, ent, ents) ==
    LET headed == IF path # <<>> \/ c.showdirs THEN <<Header1(path, Readable(c, ent.name))>> ELSE <<>>
        shown == Show(w, headed \o [k \in DOMAIN ents |-> Output(c, ents[k])])
    IN  IF ~c.R THEN shown
        ELSE FoldLeft(LAMBDA v, e : LsEnt(c, v, path \o ent.name \o <<Slash>>, e), shown, Below(c, ents))

\* ls(), of what may be a directory: gone into, listed, and left again.
Leave(w, ino, cwd) == IF w.dead THEN w ELSE [w EXCEPT !.tree = @ \ {ino}, !.cwd = cwd]
Visit(c, w, path, ent, ino) ==
    LET in == [Show(w, IF w.first THEN <<>> ELSE <<EmptyLine>>) EXCEPT !.first = FALSE, !.tree = @ \cup {ino}, !.cwd = ino]
    IN  IF ino \in w.tree THEN [w EXCEPT !.rc = 1]
        ELSE IF Stuck(c, ino) THEN [in EXCEPT !.rc = 1, !.dead = TRUE]
        ELSE Leave(LsDir(c, in, path, ent, Listed(c, ino)), ino, w.cwd)
LsEnt(c, w, path, ent) ==
    IF w.dead \/ ~(IsDir(ent) \/ LinkToDir(c, ent)) THEN w ELSE Visit(c, w, path, ent, Inode(ent))

\* main(): the operands that are not directories, or links to them, first.
ListsDir(c, ent) == (IsDir(ent) /\ ~c.d) \/ (LinkToDir(c, ent) /\ ~(c.d \/ c.F \/ c.l))
Find(c, cwd, name) ==
    LET at == {k \in DOMAIN c.nodes[cwd].entries : c.nodes[cwd].entries[k][1] = name}
    IN  IF at = {} THEN 0 ELSE c.nodes[cwd].entries[Least(at)][2]
Begun(s) == [out |-> <<>>, rc |-> 0, first |-> TRUE, tree |-> s.tree, cwd |-> s.cwd, dead |-> FALSE]

LsOne(c, w, ent) == IF ListsDir(c, ent) THEN LsEnt(c, w, <<>>, ent) ELSE Show(w, <<Output(c, ent)>>)
LsMany(c, w, files, dirs) ==
    LET told == Show(w, [k \in DOMAIN files |-> Output(c, files[k])] \o IF files # <<>> /\ dirs # <<>> THEN <<EmptyLine>> ELSE <<>>)
        asked == [c EXCEPT !.showdirs = Len(dirs) > 1 \/ (dirs # <<>> /\ files # <<>>)]
    IN  FoldLeft(LAMBDA v, e : LsEnt(asked, v, <<>>, e), told, dirs)
LsOperands(c, w, ents) ==
    IF Len(ents) = 1 THEN LsOne(c, w, ents[1])
    ELSE LsMany(c, w, InEntOrder(c, SelectSeq(ents, LAMBDA e : ~ListsDir(c, e))), InEntOrder(c, SelectSeq(ents, LAMBDA e : ListsDir(c, e))))

\* The table that visit() uses is freed before it is used: it lies at address
\* zero, where what a call leaves in it stays.  In place of files a result has
\* the directory that the shell is in.
LsResult(w) == [statics |-> [tree |-> w.tree, cwd |-> w.cwd], out |-> w.out, fs |-> w.cwd, rc |-> w.rc]
LsMain(s, c) ==
    LET names == IF c.args = <<>> THEN <<Dot>> ELSE c.args
        inos == [k \in DOMAIN names |-> Find(c, s.cwd, names[k])]
        follow == c.H \/ c.L
    IN  IF \E k \in DOMAIN names : Absent(c, inos[k], follow) THEN {[LsResult(Begun(s)) EXCEPT !.rc = 1]}
        ELSE {LsResult(LsOperands(c, Begun(s), [k \in DOMAIN names |-> Entry(c, names[k], inos[k], follow)]))}
=============================================================================
