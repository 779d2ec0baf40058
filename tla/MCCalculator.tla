---------------------------- MODULE MCCalculator ----------------------------
(***************************************************************************)
(* The cases of the builtin bc: numbers of few limbs, short texts in small *)
(* bases, and programs put together from small parts.                      *)
(***************************************************************************)
EXTENDS Calculator

MCNames == {"a", "b", "r", "f"}
MCDigits == [t \in Numbers |-> CASE t = "0" -> <<0>> [] t = "1" -> <<1>> [] t = "2" -> <<2>> [] t = "3" -> <<3>>
                                 [] t = "10" -> <<1, 0>>]

-----------------------------------------------------------------------------
(* Numbers and texts.                                                      *)

NumbersOf(lens, limbs, scales) ==
    {n \in [neg: BOOLEAN, scale: scales, num: UNION {[1..k -> limbs] : k \in lens}] : B!Canonical(n)}
NumberCases(ops, as, bs, scales) == [kind: {"number"}, op: ops, a: as, b: bs, scale: scales]

Edges == {0, 1, B!BasePow \div 2, B!BasePow - 1}
Short == NumbersOf(0..2, Edges, {0, 1, BaseDigs + 1})
Long == NumbersOf({3}, {0, 1, B!BasePow - 1}, {0, BaseDigs - 1})
AllOf(lens, scales) == {n \in NumbersOf(lens, 0..(B!BasePow - 1), scales) : ~n.neg}
Whole(k) == B!FromInt(k)

Digit == {0, 1, 5}
Texts == UNION {[1..k -> Digit] : k \in 1..3}
    \cup {i \o <<B!Point>> \o f : i \in UNION {[1..k -> Digit] : k \in 0..2}, f \in UNION {[1..k -> Digit] : k \in 1..2}}

NumberSets == <<
    NumberCases({"+", "-", "cmp"}, Short, Short, {0}),
    NumberCases({"*", "/", "%", "divmod"}, Short, Short, {0, 3}),
    NumberCases({"*", "/"}, Long, Long, {0, 1}),
    NumberCases({"sqrt"}, AllOf(0..2, {0, 1, 2}) \cup Long, {B!One}, {0, 1, 3}),
    NumberCases({"^"}, NumbersOf(0..1, {1, 2, 3}, {0, 1}), {Whole(k) : k \in 0..5} \cup {[Whole(k) EXCEPT !.neg = TRUE] : k \in 1..3}, {0, 2}),
    NumberCases({"length"}, Short \cup Long, {B!One}, {0}),
    NumberCases({"modexp"}, {Whole(k) : k \in 0..6}, {Whole(k) : k \in 0..6}, {0, 2, 3, 5, 7}),
    [kind: {"text"}, val: Texts, base: {2, 3, Radix, 5, 16}, obase: {2, 3, Radix, 8, 16}] >>
RootSets == <<NumberCases({"sqrt"}, AllOf({3}, {0}), {B!One}, {0})>>

-----------------------------------------------------------------------------
(* Programs of expressions: a is 2, b is 3 and r[1] is 3.                  *)

a == VarE("a")
b == VarE("b")
r(e) == ElemE("r", e)
c0 == NumE("0")
c1 == NumE("1")
c2 == NumE("2")
c3 == NumE("3")
Set(l, e) == ExprS(SetE("=", l, e))
Before == <<Set(a, c2), Set(b, c3), Set(r(c1), c3)>>
After == <<ExprS(a), ExprS(b), ExprS(r(c1))>>
Reading(fs, ss) == [fs |-> fs, ss |-> ss, in |-> <<BinE("+", PostE("++", a), c1), c2>>]
Showing(e) == Reading(<<>>, Before \o <<ExprS(e)>> \o After)

Operators == Binaries \cup {"-"}
PairCases == [kind: {"program"}, from: {"file"}, shape: {"left", "right"}, o: Operators, p: Operators,
              x: {a, UnE("neg", a), r(c1)}, y: {a, c2}, z: {PreE("--", a), PostE("++", a), UnE("!", b), c1}]
StoreCases == [kind: {"program"}, from: {"file"}, shape: {"store"}, o: Operators \ {"^"}, s: Assigns,
               l: {a, r(c1), r(PostE("++", a))}, x: {a, PostE("--", b)}, y: {c2, SetE("=", a, c1), UnE("neg", a)}]

\* divmod of numbers below zero is left to the cases above; a minus after it or
\* after modexp() is taken for a sign, which bc then rejects.
Functions1 == {FnE(f, <<x>>) : f \in {"abs", "length", "scale", "sqrt"}, x \in {a, UnE("neg", b), BinE("+", a, c2)}}
Functions3 == {FnE("divmod", <<b, x, ArrE("r")>>) : x \in {a, c0}} \cup {FnE("modexp", <<b, x, c2>>) : x \in {a, UnE("neg", a)}}
FunctionPairs == [kind: {"program"}, from: {"file"}, shape: {"store"}, o: Operators \ {"-"}, s: {"=", "-="},
                  l: {a, r(FnE("abs", <<UnE("neg", c1)>>))}, x: Functions1 \cup Functions3 \cup {FnE("read", <<>>)}, y: {c2, FnE("abs", <<FnE("read", <<>>)>>), r(c0)}]

ten == NumE("10")
GlobalSteps ==
    {Set(GlobalE(g), v) : g \in {"ibase", "obase"}, v \in {c2, ten, c0}} \cup
    {ExprS(PreE("++", GlobalE("scale"))), ExprS(PostE("--", GlobalE("obase"))), ExprS(BinE("+", GlobalE("last"), ten)),
     Set(GlobalE("last"), c3), PrintS(<<a, GlobalE("last")>>), IfS(c0, ExitS("quit"), FALSE), ExprS(ten)}
GlobalCases == [kind: {"program"}, from: {"file", "input", "option"}, shape: {"globals"}, x: GlobalSteps, y: GlobalSteps, z: GlobalSteps]

-----------------------------------------------------------------------------
(* Programs of conditions and loops, done twice.                           *)

Tick == ExprS(PostE("++", a))
Inner == {Tick, ExitS("break"), ExitS("continue"), ListS(<<Tick, ExitS("break")>>), ListS(<<>>)}
Outer == {ExprS(b), Set(b, c1), ListS(<<ExprS(b), Tick>>), ListS(<<>>), ExitS("halt")}
Twice(s) == Reading(<<>>, <<Set(a, c1), s, ExprS(a), s, ExprS(b)>>)

Chosen(c) ==
    LET two == BinE("==", a, c2)
        inner == IfS(two, c.t, c.nl)
    IN  CASE c.if = "if" -> inner
          [] c.if = "else" -> ElseS(two, c.t, c.e, c.nl)
          [] c.if = "nested" -> ElseS(BinE("<", a, c3), inner, c.e, c.nl)
          [] c.if = "chain" -> ElseS(BinE("<", a, c2), c.e, ElseS(two, c.t, c.e, c.nl), c.nl)
LoopOf(c, s) ==
    IF c.loop = "while" THEN WhileS(BinE("<", PostE("++", a), c3), s, c.nl)
    ELSE ForS(SetE("=", a, c0), BinE("<", a, c3), PreE("++", a), s, c.nl)
Around(c, s) ==
    LET small == BinE("<", PreE("++", b), c3)
    IN  CASE c.around = "while" -> WhileS(small, s, c.nl)
          [] c.around = "for" -> ForS(PreE("--", b), small, c1, s, c.nl)
          [] c.around = "if" -> IfS(small, s, c.nl)
          [] c.around = "else" -> ElseS(small, s, s, c.nl)
          [] c.around = "list" -> ListS(<<s, Tick>>)
          [] c.around = "none" -> s

Ifs == {"if", "else", "nested", "chain"}
IfCases == [kind: {"program"}, from: {"file", "input"}, shape: {"if", "last"}, if: Ifs, t: Outer, e: Outer, nl: BOOLEAN,
            around: {"none", "else", "list"}]
LoopCases == [kind: {"program"}, from: {"file", "input"}, shape: {"loop"}, if: Ifs, t: Inner, e: {Tick, ExitS("break"), ListS(<<>>)},
              nl: BOOLEAN, loop: {"while", "for"}, around: {"none", "while", "for", "else", "list"}]

-----------------------------------------------------------------------------
(* Programs with a function, called twice.                                 *)

pa == <<"a", "var">>
pb == <<"b", "var">>
pr(type) == <<"r", type>>
Function(params, autos, void, body) == [n |-> "f", params |-> params, autos |-> autos, void |-> void, body |-> body]
CallF(e) == CallE("f", <<e, ArrE("r")>>)
Smaller1 == BinE("-", a, c1)
Changes == {Set(a, FnE("read", <<>>)), Set(b, a), Set(r(c1), BinE("+", r(c1), a)), Set(r(a), b)}
Again == IfS(a, Set(b, CallF(Smaller1)), FALSE)
Calling(f, e) == Reading(<<f>>, Before \o <<ExprS(e), ExprS(e)>> \o After)

FunctionCases == [kind: {"program"}, from: {"file"}, shape: {"function"}, type: {"array", "ref"}, autos: {<<>>, <<pb>>},
                  x: Changes \cup {Again}, y: Changes \cup {Again}, z: {a, BinE("+", r(c1), b)},
                  call: {CallF(c2), BinE("+", a, CallF(PostE("++", a))), BinE("-", CallF(a), r(c1))}]
RecursionCases == [kind: {"program"}, from: {"input"}, shape: {"recursion"}, type: {"array", "ref"}, autos: {<<>>, <<pb>>},
                   x: Changes, y: Changes, z: {a, b},
                   call: {BinE("+", a, CallF(PostE("++", a))), BinE("-", CallF(a), r(c1))}]
LocalCases == [kind: {"program"}, from: {"file"}, shape: {"local"}, autos: {<<pr("array")>>, <<pb, pr("array")>>, <<>>},
               x: Changes, y: Changes, void: BOOLEAN]

MCProgram(c) ==
    LET params == <<pa, pr(c.type)>>
        deeper == BinE("+", CallF(Smaller1), c.z)
        alone == RetS(BinE("+", CallE("f", <<Smaller1>>), r(c1)))
    IN  CASE c.shape = "left" -> Showing(BinE(c.o, BinE(c.p, c.x, c.y), c.z))
          [] c.shape = "right" -> Showing(BinE(c.o, c.x, BinE(c.p, c.y, c.z)))
          [] c.shape = "store" -> Showing(SetE(c.s, c.l, BinE(c.o, c.x, c.y)))
          [] c.shape = "globals" -> Reading(<<>>, <<c.x, c.y, c.z, ExprS(ten), ExprS(GlobalE("obase"))>>)
          [] c.shape = "if" -> Twice(Around(c, Chosen(c)))
          [] c.shape = "last" -> Reading(<<>>, <<Set(a, c2), Around(c, Chosen(c))>>)
          [] c.shape = "loop" -> Twice(Around(c, LoopOf(c, Chosen(c))))
          [] c.shape = "function" -> Calling(Function(params, c.autos, FALSE, <<c.x, c.y, RetS(c.z)>>), c.call)
          [] c.shape = "recursion" ->
                Calling(Function(params, c.autos, FALSE, <<IfS(a, ListS(<<c.x, RetS(deeper)>>), FALSE), c.y>>), c.call)
          [] c.shape = "local" ->
                Calling(Function(<<pa>>, c.autos, c.void, <<c.x, c.y>> \o IF c.void THEN <<>> ELSE <<IfS(a, alone, FALSE)>>),
                        CallE("f", <<a>>))

ProgramSets == <<PairCases, StoreCases, FunctionPairs, GlobalCases, IfCases, LoopCases, FunctionCases, RecursionCases, LocalCases>>
AllSets == NumberSets \o ProgramSets
=============================================================================
