---------------------------- MODULE BcReference ----------------------------
(***************************************************************************)
(* What a bc program means, as its trees: statements and expressions are   *)
(* walked, names are bound to cells of a store, and a call binds its       *)
(* parameters and locals to new cells.  A place is read when an operator   *)
(* is applied to it.  Render() writes a program with no more parentheses   *)
(* and braces than it needs.                                               *)
(***************************************************************************)
EXTENDS BcProgram

\* Expressions.
NumE(t) == [k |-> "num", t |-> t]
VarE(n) == [k |-> "var", n |-> n]
ElemE(n, e) == [k |-> "elem", n |-> n, e |-> e]
ArrE(n) == [k |-> "array", n |-> n]
BinE(op, l, r) == [k |-> "bin", op |-> op, l |-> l, r |-> r]
UnE(op, e) == [k |-> "un", op |-> op, e |-> e]
SetE(op, l, e) == [k |-> "set", op |-> op, l |-> l, e |-> e]
PreE(op, l) == [k |-> "pre", op |-> op, l |-> l]
PostE(op, l) == [k |-> "post", op |-> op, l |-> l]
CallE(f, args) == [k |-> "call", f |-> f, args |-> args]
GlobalE(g) == [k |-> "global", g |-> g]
FnE(f, args) == [k |-> "fn", f |-> f, args |-> args]

\* Statements.  A list is in braces; nl says that a part begins a line.
ExprS(e) == [k |-> "expr", e |-> e]
IfS(c, t, nl) == [k |-> "if", c |-> c, t |-> t, nl |-> nl]
ElseS(c, t, e, nl) == [k |-> "else", c |-> c, t |-> t, e |-> e, nl |-> nl]
WhileS(c, b, nl) == [k |-> "while", c |-> c, b |-> b, nl |-> nl]
ForS(i, c, u, b, nl) == [k |-> "for", i |-> i, c |-> c, u |-> u, b |-> b, nl |-> nl]
ListS(ss) == [k |-> "list", ss |-> ss]
ExitS(k) == [k |-> k]
RetS(e) == [k |-> "return", e |-> e]
PrintS(es) == [k |-> "print", es |-> es]

\* A function is [n, params, autos, void, body]; a parameter or a local is <<name, type>>.

-----------------------------------------------------------------------------
RECURSIVE Toks(_)
Strength(e) == CASE e.k = "bin" -> Prec(e.op) [] e.k = "un" -> 1 [] e.k = "set" -> 8 [] OTHER -> 0
Wrapped(e, wrap) == IF wrap THEN <<"(">> \o Toks(e) \o <<")">> ELSE Toks(e)
Commas(ss) == FlattenSeq([j \in DOMAIN ss |-> IF j = 1 THEN ss[j] ELSE <<",">> \o ss[j]])

Toks(e) ==
    CASE e.k = "num" -> <<e.t>>
      [] e.k = "var" -> <<e.n>>
      [] e.k = "elem" -> <<e.n, "[">> \o Toks(e.e) \o <<"]">>
      [] e.k = "array" -> <<e.n, "[", "]">>
      [] e.k = "bin" -> LET l == Strength(e.l) r == Strength(e.r) p == Prec(e.op)
                        IN  Wrapped(e.l, l > p \/ (l = p /\ ~LeftFirst(e.op))) \o <<e.op>>
                            \o Wrapped(e.r, r > p \/ (r = p /\ LeftFirst(e.op)))
      [] e.k = "un" -> <<IF e.op = "neg" THEN "-" ELSE "!">>
                       \o Wrapped(e.e, Strength(e.e) > 1 \/ (e.e.k = "un" /\ e.e.op = "!" /\ e.op = "neg"))
      [] e.k = "set" -> Toks(e.l) \o <<e.op>> \o Wrapped(e.e, Strength(e.e) > 8)
      [] e.k = "pre" -> <<e.op>> \o Toks(e.l)
      [] e.k = "post" -> Toks(e.l) \o <<e.op>>
      [] e.k = "global" -> <<e.g>>
      [] e.k \in {"call", "fn"} -> <<e.f, "(">> \o Commas([j \in DOMAIN e.args |-> Toks(e.args[j])]) \o <<")">>

\* Would an else after this statement be taken for its own?
RECURSIVE Open(_)
Open(s) == CASE s.k = "if" -> TRUE [] s.k = "else" -> Open(s.e) [] s.k \in {"while", "for"} -> Open(s.b) [] OTHER -> FALSE

RECURSIVE Render(_)
Line(nl) == IF nl THEN <<"nl">> ELSE <<>>
Render(s) ==
    CASE s.k = "expr" -> Toks(s.e)
      [] s.k = "if" -> <<"if", "(">> \o Toks(s.c) \o <<")">> \o Line(s.nl) \o Render(s.t)
      [] s.k = "else" -> <<"if", "(">> \o Toks(s.c) \o <<")">> \o Line(s.nl)
                         \o Render(IF Open(s.t) THEN ListS(<<s.t>>) ELSE s.t)
                         \o Line(s.nl) \o <<"else">> \o Line(s.nl) \o Render(s.e)
      [] s.k = "while" -> <<"while", "(">> \o Toks(s.c) \o <<")">> \o Line(s.nl) \o Render(s.b)
      [] s.k = "for" -> <<"for", "(">> \o Toks(s.i) \o <<";">> \o Toks(s.c) \o <<";">> \o Toks(s.u) \o <<")">>
                        \o Line(s.nl) \o Render(s.b)
      [] s.k = "list" -> <<"{", "nl">> \o FlattenSeq([j \in DOMAIN s.ss |-> Render(s.ss[j]) \o <<"nl">>]) \o <<"}">>
      [] s.k \in {"break", "continue", "halt", "quit"} -> <<s.k>>
      [] s.k = "print" -> <<"print">> \o Commas([j \in DOMAIN s.es |-> Toks(s.es[j])])
      [] s.k = "return" -> <<"return">> \o Toks(s.e)

LocalToks(a) == CASE a[2] = "var" -> <<a[1]>> [] a[2] = "array" -> <<a[1], "[", "]">> [] a[2] = "ref" -> <<"*", a[1], "[", "]">>
RenderFunction(f) ==
    <<"define">> \o (IF f.void THEN <<"void">> ELSE <<>>) \o <<f.n, "(">>
    \o Commas([j \in DOMAIN f.params |-> LocalToks(f.params[j])]) \o <<")", "{", "nl">>
    \o (IF f.autos = <<>> THEN <<>>
        ELSE <<"auto">> \o Commas([j \in DOMAIN f.autos |-> LocalToks(f.autos[j])]) \o <<"nl">>)
    \o FlattenSeq([j \in DOMAIN f.body |-> Render(f.body[j]) \o <<"nl">>]) \o <<"}", "nl">>

RECURSIVE CutLines(_)
CutLines(ts) ==
    IF ts = <<>> THEN <<>>
    ELSE LET n == CHOOSE j \in DOMAIN ts : ts[j] = "nl" /\ \A l \in 1..(j - 1) : ts[l] # "nl"
         IN  <<SubSeq(ts, 1, n)>> \o CutLines(SubSeq(ts, n + 1, Len(ts)))

\* The text of a program, as lines: functions fs and statements ss.  Lines it
\* reads with read() are the expressions in.
Text(c) == CutLines(FlattenSeq([j \in DOMAIN c.fs |-> RenderFunction(c.fs[j])])
                    \o FlattenSeq([j \in DOMAIN c.ss |-> Render(c.ss[j]) \o <<"nl">>]))

Input(c) == [j \in DOMAIN c.in |-> Toks(c.in[j]) \o <<"nl">>]

-----------------------------------------------------------------------------
(* The store: cells, and arrays as functions from the indices assigned.    *)

Global(v) == <<"global", v>>
Globally == [v \in Names |-> Global(v)]
World0 == [vars |-> Globally, arrs |-> Globally, cells |-> [a \in Range(Globally) |-> 0],
           tables |-> [a \in Range(Globally) |-> << >>],
           globals |-> [ibase |-> 10, obase |-> 10, scale |-> 0], last |-> 0,
           made |-> 0, in |-> <<>>, out |-> <<>>, sig |-> "none", val |-> 0, err |-> FALSE, fuel |-> 60]
Stopped(w) == w.err \/ w.sig # "none"

ReadAt(w, r) ==
    CASE r.t \in {"val", "global"} -> r.n
      [] r.t = "last" -> w.last
      [] r.t = "cell" -> w.cells[r.a]
      [] r.t = "slot" -> IF r.i \in DOMAIN w.tables[r.a] THEN w.tables[r.a][r.i] ELSE 0
WriteAt(w, r, n) ==
    CASE r.t = "cell" -> [w EXCEPT !.cells[r.a] = n]
      [] r.t = "slot" -> [w EXCEPT !.tables[r.a] = (r.i :> n) @@ @]
      [] r.t = "last" -> [w EXCEPT !.last = n]
      [] r.t = "global" -> IF n \in Lowest(r.g)..MaxBase THEN [w EXCEPT !.globals[r.g] = n] ELSE [w EXCEPT !.err = TRUE]
Val(n) == [t |-> "val", n |-> n]

RECURSIVE Eval(_, _, _), Exec(_, _, _), ExecAll(_, _, _)

\* [w, r]: the world after the expression, and its place or value.
Bind(fs, w, f, rs) ==
    LET locals == f.params \o f.autos
        Cell(j) == <<"cell", w.made + j>>
        Initial(j) == IF j > Len(f.params) THEN 0 ELSE ReadAt(w, rs[j])
        vs == {j \in DOMAIN locals : locals[j][2] = "var"}
        as == DOMAIN locals \ vs
        Where(j) == IF locals[j][2] = "ref" THEN rs[j].a ELSE Cell(j)
        Table(j) == IF j > Len(f.params) THEN << >> ELSE w.tables[rs[j].a]
        fresh == {j \in as : locals[j][2] = "array"}
        Index(S, name) == CHOOSE j \in S : locals[j][1] = name
    IN  [w EXCEPT !.vars = [v \in Names |-> IF \E j \in vs : locals[j][1] = v THEN Cell(Index(vs, v)) ELSE @[v]],
                  !.arrs = [v \in Names |-> IF \E j \in as : locals[j][1] = v THEN Where(Index(as, v)) ELSE @[v]],
                  !.cells = [a \in {Cell(j) : j \in vs} |-> Initial(a[2] - w.made)] @@ @,
                  !.tables = [a \in {Cell(j) : j \in fresh} |-> Table(a[2] - w.made)] @@ @,
                  !.made = @ + Len(locals)]

Failed(w) == [w |-> [w EXCEPT !.err = TRUE], r |-> Val(0)]
Number(x) == IF x.w.err THEN 0 ELSE ReadAt(x.w, x.r)

EvalCall(fs, w, f, args) ==
    LET EvalArg(acc, e) ==
            LET Add(x) == [w |-> x.w, rs |-> Append(acc.rs, x.r)]
            IN  IF e.k = "array" THEN Add([w |-> acc.w, r |-> [t |-> "array", a |-> acc.w.arrs[e.n]]])
                ELSE Add(Eval(fs, acc.w, e))
        Back(done) ==
            [w |-> [done EXCEPT !.vars = w.vars, !.arrs = w.arrs, !.sig = "none", !.val = 0],
             r |-> IF f.void THEN [t |-> "void"] ELSE Val(IF done.sig = "return" THEN done.val ELSE 0)]
        With(given) == IF given.w.err THEN Failed(given.w)
                       ELSE Back(ExecAll(fs, Bind(fs, given.w, f, given.rs), f.body))
    IN  With(FoldLeft(EvalArg, [w |-> w, rs |-> <<>>], args))

\* What bc has of its own; read() evaluates a line of input, and divmod leaves the rest in element 0 of its array.
FnFails(f, n) == \/ f = "sqrt" /\ n[1] < 0
                 \/ f = "divmod" /\ n[2] = 0
                 \/ f = "modexp" /\ (n[2] < 0 \/ n[3] = 0)
FnValue(f, n) == CASE f = "abs" -> Magnitude(n[1])
                   [] f = "length" -> DigitsOf(Magnitude(n[1]))
                   [] f = "scale" -> 0
                   [] f = "sqrt" -> CHOOSE k \in 0..n[1] : k * k <= n[1] /\ n[1] < (k + 1) * (k + 1)
                   [] f = "divmod" -> QuotientOf(n[1], n[2])
                   [] f = "modexp" -> Computed("%", Raise(n[1], n[2]), n[3])
EvalFn(fs, w, f, args) ==
    LET EvalArg(acc, e) ==
            LET Add(x) == [w |-> x.w, ns |-> Append(acc.ns, Number(x))] IN Add(Eval(fs, acc.w, e))
        With(v, n) ==
            IF v.err \/ FnFails(f, n) THEN Failed(v)
            ELSE [w |-> IF f # "divmod" THEN v
                        ELSE WriteAt(v, [t |-> "slot", a |-> v.arrs[Last(args).n], i |-> 0], Computed("%", n[1], n[2])),
                  r |-> Val(FnValue(f, n))]
        Of(given) == With(given.w, given.ns)
        Answered(x) == [w |-> x.w, r |-> Val(Number(x))]
    IN  IF f # "read" THEN Of(FoldLeft(EvalArg, [w |-> w, ns |-> <<>>], IF f = "divmod" THEN Front(args) ELSE args))
        ELSE IF w.in = <<>> THEN Failed(w)
        ELSE Answered(Eval(fs, [w EXCEPT !.in = Tail(@)], Head(w.in)))

\* The place or value of an expression, after what it has an operand x, or x and y.
Element(x, n) ==
    IF x.w.err \/ Number(x) < 0 THEN Failed(x.w)
    ELSE [w |-> x.w, r |-> [t |-> "slot", a |-> x.w.arrs[n], i |-> Number(x)]]
UnaryOf(x, op) == IF x.w.err THEN x ELSE [w |-> x.w, r |-> Val(IF op = "neg" THEN -Number(x) ELSE Bit(Number(x) = 0))]
Stored(x, n) == [w |-> WriteAt(x.w, x.r, n), r |-> Val(n)]
Stepped(x, e) ==
    LET new == IF e.op = "++" THEN Number(x) + 1 ELSE Number(x) - 1
    IN  IF x.w.err THEN x ELSE [w |-> WriteAt(x.w, x.r, new), r |-> Val(IF e.k = "pre" THEN new ELSE Number(x))]
BinaryOf(y, op, a, b) ==
    IF y.w.err \/ Undefined(op, a, b) THEN Failed(y.w) ELSE [w |-> y.w, r |-> Val(Computed(op, a, b))]
SetTo(z, place) == IF z.w.err THEN z ELSE Stored([z EXCEPT !.r = place], Number(z))

Eval(fs, w, e) ==
    LET Then(x, y) ==
            IF e.k = "bin" THEN BinaryOf(y, e.op, ReadAt(y.w, x.r), Number(y))
            ELSE IF e.op = "=" THEN SetTo(y, x.r)
            ELSE SetTo(BinaryOf(y, Operation(e.op), ReadAt(y.w, x.r), Number(y)), x.r)
        Second(x) == IF x.w.err THEN x ELSE Then(x, Eval(fs, x.w, IF e.k = "bin" THEN e.r ELSE e.e))
    IN  CASE e.k = "num" -> [w |-> w, r |-> Val(ValueOf(e.t, w.globals.ibase))]
          [] e.k = "global" -> [w |-> w, r |-> IF e.g = "last" THEN [t |-> "last"]
                                              ELSE [t |-> "global", g |-> e.g, n |-> w.globals[e.g]]]
          [] e.k = "fn" -> EvalFn(fs, w, e.f, e.args)
          [] e.k = "var" -> [w |-> w, r |-> [t |-> "cell", a |-> w.vars[e.n]]]
          [] e.k = "elem" -> Element(Eval(fs, w, e.e), e.n)
          [] e.k = "un" -> UnaryOf(Eval(fs, w, e.e), e.op)
          [] e.k \in {"bin", "set"} -> Second(Eval(fs, w, e.l))
          [] e.k \in {"pre", "post"} -> Stepped(Eval(fs, w, e.l), e)
          [] e.k = "call" -> EvalCall(fs, w, CHOOSE f \in Range(fs) : f.n = e.f, e.args)

\* A condition: the world after it, and whether it holds.
Tested(x) == [w |-> x.w, b |-> ~x.w.err /\ Number(x) # 0]
Test(fs, w, e) == Tested(Eval(fs, w, e))

RECURSIVE Loop(_, _, _, _, _)
Loop(fs, w, c, u, b) ==
    LET Onwards(next) == IF Stopped(next) THEN next ELSE Loop(fs, next, c, u, b)
        Done(v) == IF v.sig = "break" THEN [v EXCEPT !.sig = "none"]
                   ELSE IF u.k = "none" \/ Stopped(v) THEN Onwards(v)
                   ELSE Onwards(Eval(fs, v, u).w)
        Continued(v) == Done([v EXCEPT !.sig = IF @ = "continue" THEN "none" ELSE @])
        On(t) == IF t.b THEN Continued(Exec(fs, t.w, b)) ELSE t.w
    IN  IF w.fuel = 0 THEN [w EXCEPT !.err = TRUE] ELSE On(Test(fs, [w EXCEPT !.fuel = @ - 1], c))

ShowIn(x) ==
    LET n == ReadAt(x.w, x.r) IN [x.w EXCEPT !.out = Append(@, <<n, x.w.globals.obase>>), !.last = n]

\* A statement that has quit anywhere ends bc when it is read.
RECURSIVE Quits(_)
Quits(s) ==
    CASE s.k = "quit" -> TRUE
      [] s.k = "if" -> Quits(s.t)
      [] s.k = "else" -> Quits(s.t) \/ Quits(s.e)
      [] s.k \in {"while", "for"} -> Quits(s.b)
      [] s.k = "list" -> \E j \in DOMAIN s.ss : Quits(s.ss[j])
      [] OTHER -> FALSE

\* An expression that does not assign is shown, unless it has no value.
Exec(fs, w, s) ==
    LET Shown(x) == IF x.w.err THEN x.w ELSE ShowIn(x)
        Alone(x) == IF s.e.k = "set" \/ x.r.t = "void" THEN x.w ELSE Shown(x)
        Choose(t) == IF t.b THEN Exec(fs, t.w, s.t) ELSE IF s.k = "else" THEN Exec(fs, t.w, s.e) ELSE t.w
        Begun(x) == IF x.w.err THEN x.w ELSE Loop(fs, x.w, s.c, s.u, s.b)
        Answer(x) == IF x.w.err THEN x.w ELSE [x.w EXCEPT !.sig = "return", !.val = ReadAt(x.w, x.r)]
    IN  IF Stopped(w) THEN w
        ELSE CASE s.k = "expr" -> Alone(Eval(fs, w, s.e))
               [] s.k = "print" -> FoldLeft(LAMBDA v, e : IF v.err THEN v ELSE Shown(Eval(fs, v, e)), w, s.es)
               [] s.k \in {"if", "else"} -> Choose(Test(fs, w, s.c))
               [] s.k = "while" -> Loop(fs, w, s.c, [k |-> "none"], s.b)
               [] s.k = "for" -> Begun(Eval(fs, w, s.i))
               [] s.k = "list" -> ExecAll(fs, w, s.ss)
               [] s.k \in {"break", "continue", "halt"} -> [w EXCEPT !.sig = s.k]
               [] s.k = "return" -> Answer(Eval(fs, w, s.e))
ExecAll(fs, w, ss) == FoldLeft(LAMBDA v, s : Exec(fs, v, s), w, ss)

-----------------------------------------------------------------------------
\* The machine m did what the program c means: the same output, the same
\* failure, the same variables.
Meant(c, m) ==
    LET TopExec(v, s) == IF Quits(s) /\ ~Stopped(v) THEN [v EXCEPT !.sig = "quit"] ELSE Exec(c.fs, v, s)
        Agrees(w) ==
            /\ m.out = w.out
            /\ m.err = w.err
            /\ ~m.err => \A v \in Names : Last(m.vars[v]) = w.cells[Global(v)]
    IN  m.fuel > 0 => Agrees(FoldLeft(TopExec, [World0 EXCEPT !.in = c.in], c.ss))
=============================================================================
