---------------------------- MODULE DiffFormats ----------------------------
(***************************************************************************)
(* What diff prints (diff-src/diffreg.c), as a sequence of hunks or        *)
(* directives, and the readers of these scripts: what ed, rcs, patch and   *)
(* the C preprocessor make of them.                                        *)
(*                                                                         *)
(* <<mark, line>> is a line of a file printed behind a mark.  An added or  *)
(* deleted range has the numbers change() is called with: a > b when no    *)
(* line of the old file is involved, c > d when none of the new one is.    *)
(***************************************************************************)
EXTENDS DiffLines

Marked(mark, f, from, to) == [k \in 1..(to - from + 1) |-> <<mark, f[from + k - 1]>>]
Op(h) == IF h.a > h.b THEN "a" ELSE IF h.c > h.d THEN "d" ELSE "c"
Range2(a, b) == IF a > b THEN <<b, b>> ELSE <<a, b>>
UniRange(a, b) == IF a <= b THEN <<a, b - a + 1>> ELSE <<b, 0>>

-----------------------------------------------------------------------------
(* The formats that print a change at once.                                *)

Normal(old, new, h) ==
    <<[op |-> Op(h), from |-> Range2(h.a, h.b), to |-> Range2(h.c, h.d),
       body |-> Marked("<", old, h.a, h.b) \o Marked(">", new, h.c, h.d)]>>

\* -n: a deletion, an addition, or one after the other.
Rcs(new, h) ==
    (IF h.a > h.b THEN <<>> ELSE <<[op |-> "d", at |-> h.a, count |-> h.b - h.a + 1, body |-> <<>>]>>)
    \o (IF h.c > h.d THEN <<>>
        ELSE <<[op |-> "a", at |-> h.b, count |-> h.d - h.c + 1, body |-> Marked("", new, h.c, h.d)]>>)

\* -e: a line "." would end the input of ed.  It is printed as Dots, the
\* command is ended, a substitution makes it "." again, and what is left of
\* the change is added behind it.
RECURSIVE Edit(_, _, _, _)
Edit(o, old, new, h) ==
    LET dots == {k \in h.c..h.d : new[k] = "."}
        command == [op |-> Op(h), from |-> Range2(h.a, h.b)]
    IN  IF ~Counts(o, old, new, h) THEN <<>>
        ELSE IF dots = {}
        THEN <<command @@ [text |-> SubSeq(new, h.c, h.d), undot |-> 0]>>
        ELSE LET n == Min(dots) - h.c + 1
             IN  <<command @@ [text |-> Append(SubSeq(new, h.c, h.c + n - 2), Dots),
                               undot |-> h.a + n - 1]>>
                 \o Edit(o, old, new, [a |-> h.a + n, b |-> h.a + n - 1, c |-> h.c + n, d |-> h.d])

\* -D: the old file, copied up to the change, with the change in directives.
\* The rest of the old file is printed at the end.
Directives(old, new, h) ==
    (IF h.a <= h.b THEN <<<<"#ifndef">>>> \o Marked("", old, h.a, h.b) ELSE <<>>)
    \o (IF h.c > h.d THEN <<>>
        ELSE <<IF h.a <= h.b THEN <<"#else">> ELSE <<"#ifdef">>>> \o Marked("", new, h.c, h.d))
    \o (IF h.a <= h.b \/ h.c <= h.d THEN <<<<"#endif">>>> ELSE <<>>)

Ifdef(old, new, hs) ==
    LET Copied(k) == IF k = 0 THEN 0 ELSE hs[k].b
    IN  FoldLeftDomain(LAMBDA out, k : out \o Marked("", old, Copied(k - 1) + 1, hs[k].a - 1)
                                           \o Directives(old, new, hs[k]),
                       <<>>, hs)
        \o Marked("", old, Copied(Len(hs)) + 1, Len(old))

-----------------------------------------------------------------------------
(* The formats with context.  Changes are gathered until one is far enough *)
(* from the last, and each group is dumped as one hunk.                    *)

Far(o, last, h) == h.a > last.b + 2 * o.context + 1 /\ h.c > last.d + 2 * o.context + 1

\* Mutation of Groups: groups whose contexts overlap.
GroupsNear(o, hs) ==
    FoldLeft(LAMBDA gs, h :
               IF gs # <<>> /\ ~(h.a > Last(Last(gs)).b + o.context /\ h.c > Last(Last(gs)).d + o.context)
               THEN [gs EXCEPT ![Len(gs)] = Append(@, h)] ELSE Append(gs, <<h>>),
             <<>>, hs)

Groups(o, hs) ==
    FoldLeft(LAMBDA gs, h :
               IF gs # <<>> /\ ~Far(o, Last(Last(gs)), h)
               THEN [gs EXCEPT ![Len(gs)] = Append(@, h)] ELSE Append(gs, <<h>>),
             <<>>, hs)

LowA(o, g) == Max({1, g[1].a - o.context})
LowC(o, g) == Max({1, g[1].c - o.context})
UpB(o, old, g) == Min({Len(old), Last(g).b + o.context})
UpD(o, new, g) == Min({Len(new), Last(g).d + o.context})

Unified(o, old, new, g) ==
    LET OldFrom(k) == IF k = 1 THEN LowA(o, g) ELSE g[k - 1].b + 1
        NewFrom(k) == IF k = 1 THEN LowC(o, g) ELSE g[k - 1].d + 1
        Change(k) ==
            (IF Op(g[k]) = "a" THEN Marked(" ", new, NewFrom(k), g[k].c - 1)
                               ELSE Marked(" ", old, OldFrom(k), g[k].a - 1))
            \o Marked("-", old, g[k].a, g[k].b) \o Marked("+", new, g[k].c, g[k].d)
    IN  <<[from |-> UniRange(LowA(o, g), UpB(o, old, g)),
           to |-> UniRange(LowC(o, g), UpD(o, new, g)),
           body |-> FoldLeftDomain(LAMBDA out, k : out \o Change(k), <<>>, g)
                    \o Marked(" ", new, Last(g).d + 1, UpD(o, new, g))]>>

\* One side of -c, nothing when no line of this side changes.  r[k] is the
\* range of the k-th change on this side.
Side(f, mark, g, r, from, to) ==
    LET From(k) == IF k = 1 THEN from ELSE r[k - 1][2] + 1
    IN  IF \A k \in DOMAIN g : r[k][1] > r[k][2] THEN <<>>
        ELSE FoldLeftDomain(LAMBDA out, k :
                out \o Marked(" ", f, From(k), r[k][1] - 1)
                    \o Marked(IF Op(g[k]) = "c" THEN "!" ELSE mark, f, r[k][1], r[k][2]),
                <<>>, g)
             \o Marked(" ", f, Last(r)[2] + 1, to)

Context(o, old, new, g) ==
    <<[from |-> Range2(LowA(o, g), UpB(o, old, g)),
       to |-> Range2(LowC(o, g), UpD(o, new, g)),
       olds |-> Side(old, "-", g, [k \in DOMAIN g |-> <<g[k].a, g[k].b>>], LowA(o, g), UpB(o, old, g)),
       news |-> Side(new, "+", g, [k \in DOMAIN g |-> <<g[k].c, g[k].d>>], LowC(o, g), UpD(o, new, g))]>>

\* What output() prints, given the changes that count.
Output(o, old, new, hs) ==
    LET Each(Show(_)) == FlattenSeq([k \in DOMAIN hs |-> Show(hs[k])])
        gs == Groups(o, hs)
    IN  CASE o.format = "normal" -> Each(LAMBDA h : Normal(old, new, h))
          [] o.format = "rcs" -> Each(LAMBDA h : Rcs(new, h))
          [] o.format = "edit" -> Each(LAMBDA h : Edit(o, old, new, h))
          [] o.format = "ifdef" -> Ifdef(old, new, hs)
          [] o.format = "unified" -> FlattenSeq([k \in DOMAIN gs |-> Unified(o, old, new, gs[k])])
          [] o.format = "context" -> FlattenSeq([k \in DOMAIN gs |-> Context(o, old, new, gs[k])])
          [] OTHER -> <<>>

-----------------------------------------------------------------------------
(* The readers.                                                            *)

With(body, marks) ==
    LET kept == SelectSeq(body, LAMBDA l : l[1] \in marks)
    IN  [k \in DOMAIN kept |-> kept[k][2]]

\* A hunk as patch sees it: from line start of the old file on, the lines
\* olds are to be replaced by news, and the first of these becomes line at.
\* fits: the numbers printed agree with the lines printed.
Plain(h) ==
    LET olds == With(h.body, {"<"})
        news == With(h.body, {">"})
    IN  [start |-> IF h.op = "a" THEN h.from[1] + 1 ELSE h.from[1], olds |-> olds, news |-> news,
         at |-> IF h.op = "d" THEN h.to[1] + 1 ELSE h.to[1],
         fits |-> /\ Len(olds) = IF h.op = "a" THEN 0 ELSE h.from[2] - h.from[1] + 1
                  /\ Len(news) = IF h.op = "d" THEN 0 ELSE h.to[2] - h.to[1] + 1]

Uni(h) ==
    [start |-> IF h.from[2] = 0 THEN h.from[1] + 1 ELSE h.from[1],
     at |-> IF h.to[2] = 0 THEN h.to[1] + 1 ELSE h.to[1],
     olds |-> With(h.body, {" ", "-"}), news |-> With(h.body, {" ", "+"}),
     fits |-> /\ Len(With(h.body, {" ", "-"})) = h.from[2]
              /\ Len(With(h.body, {" ", "+"})) = h.to[2]]

\* A side of -c that is left out is the context of the other one.
Both(h) ==
    LET olds == With(IF h.olds = <<>> THEN h.news ELSE h.olds, {" ", "-", "!"} \ (IF h.olds = <<>> THEN {"!"} ELSE {}))
        news == With(IF h.news = <<>> THEN h.olds ELSE h.news, {" ", "+", "!"} \ (IF h.news = <<>> THEN {"!"} ELSE {}))
    IN  [start |-> IF olds = <<>> THEN h.from[1] + 1 ELSE h.from[1],
         at |-> IF news = <<>> THEN h.to[1] + 1 ELSE h.to[1], olds |-> olds, news |-> news,
         fits |-> /\ olds = <<>> \/ Len(olds) = h.from[2] - h.from[1] + 1
                  /\ news = <<>> \/ Len(news) = h.to[2] - h.to[1] + 1]

\* The lines an rcs command deletes are the ones of the file itself.
OfRcs(h, old) ==
    [start |-> IF h.op = "a" THEN h.at + 1 ELSE h.at, at |-> 0,
     olds |-> IF h.op = "a" THEN <<>> ELSE SubSeq(old, h.at, h.at + h.count - 1),
     news |-> With(h.body, {""}), fits |-> h.op = "a" => Len(h.body) = h.count]

\* patch: the new file, or <<"rejected">>.
Patch(old, hunks) ==
    LET Apply(s, h) ==
            IF /\ s.ok /\ h.fits /\ h.start >= s.next /\ h.start + Len(h.olds) - 1 <= Len(old)
               /\ SubSeq(old, h.start, h.start + Len(h.olds) - 1) = h.olds
               /\ h.at \in {0, Len(s.new) + h.start - s.next + 1}
            THEN [new |-> s.new \o SubSeq(old, s.next, h.start - 1) \o h.news,
                  next |-> h.start + Len(h.olds), ok |-> TRUE]
            ELSE [s EXCEPT !.ok = FALSE]
        end == FoldLeft(Apply, [new |-> <<>>, next |-> 1, ok |-> TRUE], hunks)
    IN  IF end.ok THEN end.new \o SubSeq(old, end.next, Len(old)) ELSE <<"rejected">>

\* ed: each command changes the buffer that the next one sees.
Ed(old, commands) ==
    LET Run(f, c) ==
            LET kept == IF c.op = "a" THEN c.from[1] ELSE c.from[1] - 1
                g == SubSeq(f, 1, kept) \o c.text \o SubSeq(f, c.from[2] + 1, Len(f))
            IN  IF "." \in ToSet(c.text) \/ (c.undot # 0 /\ g[c.undot] # Dots) THEN <<"rejected">>
                ELSE IF c.undot = 0 THEN g ELSE [g EXCEPT ![c.undot] = "."]
    IN  FoldLeft(Run, old, commands)

\* The preprocessor, with the name of -D defined or not.
Cpp(items, defined) ==
    LET Read(s, i) ==
            CASE i[1] = "#ifndef" -> [s EXCEPT !.on = ~defined]
              [] i[1] = "#ifdef" -> [s EXCEPT !.on = defined]
              [] i[1] = "#else" -> [s EXCEPT !.on = ~@]
              [] i[1] = "#endif" -> [s EXCEPT !.on = TRUE]
              [] OTHER -> IF s.on THEN [s EXCEPT !.file = Append(@, i[2])] ELSE s
    IN  FoldLeft(Read, [file |-> <<>>, on |-> TRUE], items).file

\* What a reader makes of the output, given the old file.
Reads(o, old, out) ==
    LET Hunks(Of(_)) == Patch(old, [k \in DOMAIN out |-> Of(out[k])])
    IN  CASE o.format = "normal" -> Hunks(Plain)
          [] o.format = "unified" -> Hunks(Uni)
          [] o.format = "context" -> Hunks(Both)
          [] o.format = "rcs" -> Hunks(LAMBDA h : OfRcs(h, old))
          [] o.format = "edit" -> Ed(old, out)
          [] o.format = "ifdef" -> IF Cpp(out, FALSE) = old THEN Cpp(out, TRUE) ELSE <<"rejected">>
=============================================================================
