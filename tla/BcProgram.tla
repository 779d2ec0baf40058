----------------------------- MODULE BcProgram -----------------------------
(***************************************************************************)
(* The machine of the builtin bc, bc-src/program.c, and the loop of vm.c   *)
(* that parses a statement and runs it.  What is on the results stack may  *)
(* be a place, read only when an operator takes it.  A variable is a stack *)
(* of values, one for each call that has it as a local; an array is one of *)
(* sequences, or of references to the array of another call.               *)
(* Numbers are integers, with the arithmetic of scale 0; BcArith has the   *)
(* rest.                                                                   *)
(***************************************************************************)
EXTENDS BcStatements

CONSTANTS
    Digits,   \* Digits[t]: the digits of the number t
    MaxBase,  \* the largest ibase, obase and scale
    Fuel      \* the steps after which a run counts as endless

NewMachine ==
    [p |-> NewParser, vars |-> [n \in Names |-> <<0>>], arrays |-> [n \in Names |-> <<[ref |-> FALSE, s |-> <<0>>]>>],
     stack |-> <<[f |-> "main", idx |-> 1, len |-> 0]>>, results |-> <<>>,
     globals |-> [ibase |-> 10, obase |-> 10, scale |-> 0], last |-> 0,
     out |-> <<>>, input |-> <<>>, err |-> FALSE, halted |-> FALSE, leak |-> FALSE, fuel |-> Fuel]

Wrong(m) == [m EXCEPT !.err = TRUE]
Temp(n) == [t |-> "temp", n |-> n]

\* The results, the top first.
Operand(m, k) == m.results[Len(m.results) + 1 - k]
Push(m, r) == [m EXCEPT !.results = Append(@, r)]
Drop(m, k) == [m EXCEPT !.results = SubSeq(@, 1, Len(@) - k)]

\* bc_program_dereference(): where the values of an array are.
Home(m, name, at) ==
    LET a == m.arrays[name][at] IN IF a.ref THEN <<a.name, a.at>> ELSE <<name, at>>
ArrayAt(m, name, at) == LET h == Home(m, name, at) IN m.arrays[h[1]][h[2]].s

\* bc_program_num().
Num(m, r) ==
    CASE r.t \in {"temp", "ibase", "obase", "scale"} -> r.n
      [] r.t = "zero" -> 0
      [] r.t = "one" -> 1
      [] r.t = "last" -> m.last
      [] r.t = "var" -> m.vars[r.name][r.at]
      [] r.t = "elem" -> ArrayAt(m, r.name, r.at)[r.idx + 1]

\* Taking an element as an operand makes the array long enough.
Touch(m, r) ==
    IF r.t = "elem" /\ Len(ArrayAt(m, r.name, r.at)) <= r.idx
    THEN LET h == Home(m, r.name, r.at)
         IN  [m EXCEPT !.arrays[h[1]][h[2]].s = @ \o [k \in 1..(r.idx + 1 - Len(@)) |-> 0]]
    ELSE m
Numeric(r) == r.t \notin {"array", "void"}

\* bc_program_binOpPrep() and the like: the top k results as numbers.
Prep(m, k) ==
    LET touched == FoldLeft(LAMBDA n, j : Touch(n, Operand(n, k + 1 - j)), m, [j \in 1..k |-> j])
    IN  IF \E j \in 1..k : ~Numeric(Operand(m, j)) THEN Wrong(m) ELSE touched

RECURSIVE Raise(_, _)
Raise(a, b) == IF b = 0 THEN 1 ELSE a * Raise(a, b - 1)
Magnitude(a) == IF a < 0 THEN -a ELSE a
QuotientOf(a, b) == IF (a < 0) = (b < 0) THEN Magnitude(a) \div Magnitude(b) ELSE -(Magnitude(a) \div Magnitude(b))
Bit(b) == IF b THEN 1 ELSE 0

Undefined(op, a, b) == (op \in {"/", "%"} /\ b = 0) \/ (op = "^" /\ a = 0 /\ b < 0)
Computed(op, a, b) ==
    CASE op = "+" -> a + b [] op = "-" -> a - b [] op = "*" -> a * b
      [] op = "/" -> QuotientOf(a, b) [] op = "%" -> a - QuotientOf(a, b) * b
      [] op = "^" -> IF b < 0 THEN QuotientOf(1, Raise(a, -b)) ELSE Raise(a, b)
      [] op = "==" -> Bit(a = b) [] op = "!=" -> Bit(a # b) [] op = "<" -> Bit(a < b)
      [] op = "<=" -> Bit(a <= b) [] op = ">" -> Bit(a > b) [] op = ">=" -> Bit(a >= b)
      [] op = "&&" -> Bit(a # 0 /\ b # 0) [] op = "||" -> Bit(a # 0 \/ b # 0)

\* bc_program_op() and bc_program_logical(): both sides are always evaluated.
NumAt(m, k) == Num(m, Operand(m, k))
Applied(q, op, a, b) ==
    IF q.err \/ Undefined(op, a, b) THEN Wrong(q) ELSE Push(Drop(q, 2), Temp(Computed(op, a, b)))
Op(m, op) ==
    LET With(q) == Applied(q, op, NumAt(q, 2), NumAt(q, 1)) IN With(Prep(m, 2))

Unary(m, op) ==
    LET With(q, a) == IF q.err THEN q ELSE Push(Drop(q, 1), Temp(IF op = "neg" THEN -a ELSE Bit(a = 0)))
        Of(q) == With(q, NumAt(q, 1))
    IN  Of(Prep(m, 1))

Lowest(g) == IF g = "scale" THEN 0 ELSE 2

\* The place r gets the value n.
Store(m, r, n) ==
    LET h == Home(m, r.name, r.at)
    IN  CASE r.t = "var" -> [m EXCEPT !.vars[r.name][r.at] = n]
          [] r.t = "elem" -> [m EXCEPT !.arrays[h[1]][h[2]].s[r.idx + 1] = n]
          [] r.t = "last" -> [m EXCEPT !.last = n]
          [] OTHER -> IF n < Lowest(r.t) \/ n > MaxBase THEN Wrong(m) ELSE [m EXCEPT !.globals[r.t] = n]

Operation(assign) == CASE assign = "+=" -> "+" [] assign = "-=" -> "-" [] assign = "*=" -> "*"
                       [] assign = "/=" -> "/" [] assign = "%=" -> "%" [] assign = "^=" -> "^"

\* bc_program_assign().
Unless(m, used, n) == IF ~m.err /\ used THEN Push(m, Temp(n)) ELSE m
Assigned(q, left, n, used) == Unless(Drop(Store(q, left, n), 2), used, n)
AssignTo(q, left, op, a, b, used) ==
    IF q.err \/ left.t \in {"temp", "zero", "one"} THEN Wrong(q)
    ELSE IF op = "=" THEN Assigned(q, left, b, used)
    ELSE IF Undefined(Operation(op), a, b) THEN Wrong(q)
    ELSE Assigned(q, left, Computed(Operation(op), a, b), used)
Assign(m, op, used) ==
    LET With(q) == AssignTo(q, Operand(q, 2), op, NumAt(q, 2), NumAt(q, 1), used) IN With(Prep(m, 2))

\* bc_program_incdec().
Step(m, op) ==
    LET Of(q) == IF q.err THEN q
                 ELSE Unless(Assign(Push(q, [t |-> "one"]), IF op = "inc" THEN "+=" ELSE "-=", FALSE), TRUE, NumAt(q, 1))
    IN  Of(Prep(m, 1))

\* Mutation of Place: the place is the one of the first call.
PlaceOfFirst(m, kind, name, idx) == [t |-> kind, name |-> name, idx |-> idx, at |-> 1]

\* The place of a variable is that of the call that pushes it.
Place(m, kind, name, idx) ==
    [t |-> kind, name |-> name, idx |-> idx, at |-> IF kind = "var" THEN Len(m.vars[name]) ELSE Len(m.arrays[name])]

PushElem(m, name) ==
    LET With(q, n) == IF q.err \/ n < 0 THEN Wrong(q) ELSE Push(Drop(q, 1), Place(m, "elem", name, n))
        Of(q) == With(q, NumAt(q, 1))
    IN  Of(Prep(m, 1))

\* bc_program_copyToVar(): a parameter gets the argument on top.
CopyToVar(m, name, type) ==
    LET r == Operand(m, 1)
        Var(q) == Drop([q EXCEPT !.vars[name] = Append(@, Num(q, r))], 1)
        array == m.arrays[r.name][r.at]
        copy == IF type # "ref" THEN [ref |-> FALSE, s |-> ArrayAt(m, r.name, r.at)]
                ELSE IF array.ref THEN array
                ELSE [ref |-> TRUE, name |-> r.name, at |-> r.at]
    IN  IF r.t = "void" \/ (type = "var") = (r.t = "array") THEN Wrong(m)
        ELSE IF type = "var" THEN Var(Prep(m, 1))
        ELSE Drop([m EXCEPT !.arrays[name] = Append(@, copy)], 1)

\* bc_program_call(): the last argument first, then the locals.
CallFunction(m, nargs, name) ==
    LET f == m.p.fns[name]
        Param(q, k) == IF q.err THEN q ELSE CopyToVar(q, f.autos[nargs + 1 - k][1], f.autos[nargs + 1 - k][2])
        NewLocal(q, a) == IF a[2] = "var" THEN [q EXCEPT !.vars[a[1]] = Append(@, 0)]
                          ELSE [q EXCEPT !.arrays[a[1]] = Append(@, [ref |-> FALSE, s |-> <<0>>])]
        Entered(q) == IF q.err THEN q
                      ELSE [FoldLeft(NewLocal, q, SubSeq(f.autos, nargs + 1, Len(f.autos)))
                            EXCEPT !.stack = Append(@, [f |-> name, idx |-> 1, len |-> Len(m.results) - nargs])]
    IN  IF f.code = <<>> \/ nargs # f.nparams THEN Wrong(m)
        ELSE Entered(FoldLeft(Param, m, [k \in 1..nargs |-> k]))

Unlocal(m, a) == IF a[2] = "var" THEN [m EXCEPT !.vars[a[1]] = Front(@)] ELSE [m EXCEPT !.arrays[a[1]] = Front(@)]

\* Mutation of Unlocals: the locals that are not parameters stay.
UnlocalsFew(m, f) == FoldLeft(Unlocal, m, SubSeq(f.autos, 1, f.nparams))

Unlocals(m, f) == FoldLeft(Unlocal, m, f.autos)

\* bc_program_return(): what the call left on the results is dropped, and the
\* value is read before the locals go.
Left(m, value) ==
    IF m.err THEN m
    ELSE LET frame == Last(m.stack)
         IN  Push([Unlocals(m, m.p.fns[frame.f]) EXCEPT !.stack = Front(@), !.results = SubSeq(@, 1, frame.len)], value)

Leave(m, op) ==
    LET Valued(q) == Left(q, Temp(NumAt(q, 1)))
    IN  CASE op = "ret" -> Valued(Prep(m, 1)) [] op = "ret0" -> Left(m, Temp(0)) [] op = "retvoid" -> Left(m, [t |-> "void"])

RECURSIVE RootOf(_, _)
RootOf(n, k) == IF (k + 1) * (k + 1) > n THEN k ELSE RootOf(n, k + 1)
RECURSIVE DigitsOf(_)
DigitsOf(n) == IF n < 10 THEN 1 ELSE 1 + DigitsOf(n \div 10)

Builtin(m, op) ==
    LET r == Operand(m, 1)
        Value(a) == CASE op = "length" -> DigitsOf(Magnitude(a))
                      [] op = "abs" -> Magnitude(a)
                      [] op = "scale()" -> 0
                      [] op = "sqrt" -> RootOf(a, 0)
        With(q, a) == IF q.err \/ (op = "sqrt" /\ a < 0) THEN Wrong(q) ELSE Push(Drop(q, 1), Temp(Value(a)))
        Of(q) == With(q, NumAt(q, 1))
    IN  IF op = "length" /\ r.t = "array" THEN Push(Drop(m, 1), Temp(Len(ArrayAt(m, r.name, r.at))))
        ELSE Of(Prep(m, 1))

\* bc_program_divmod(): the quotient, and the rest above it; of numbers of one
\* limb bc_num_divmod() divides the limbs, whatever the signs.
DivModNumbers(m) ==
    LET With(q, a, b) ==
            IF q.err \/ b = 0 THEN Wrong(q)
            ELSE Push(Push(Drop(q, 2), Temp(Magnitude(a) \div Magnitude(b))), Temp(Magnitude(a) % Magnitude(b)))
        Of(q) == With(q, NumAt(q, 2), NumAt(q, 1))
    IN  Of(Prep(m, 2))

ModExpNumbers(m) ==
    LET With(q, a, b, c) == IF q.err \/ c = 0 \/ b < 0 THEN Wrong(q)
                            ELSE Push(Drop(q, 3), Temp(Computed("%", Raise(a, b), c)))
        Of(q) == With(q, NumAt(q, 3), NumAt(q, 2), NumAt(q, 1))
    IN  Of(Prep(m, 3))

\* bc_program_read(): a line of input is an expression, run like a call.
Read(m) ==
    LET Enter(read) ==
            IF read.err \/ read.empty THEN Wrong(m)
            ELSE [m EXCEPT !.p.fns = Put(read, "ret", TRUE).fns, !.input = Tail(@),
                           !.stack = Append(@, [f |-> "read", idx |-> 1, len |-> Len(m.results)])]
    IN  IF m.input = <<>> \/ \E k \in DOMAIN m.stack : m.stack[k].f = "read" THEN Wrong(m)
        ELSE Enter(Expr([m.p EXCEPT !.toks = Head(m.input), !.i = 1, !.fns = ("read" :> Func(0)) @@ @, !.f = "read"],
                        {"noread", "needval"}, {"nl", "EOF"}))

\* bc_program_print(): a void value prints nothing.
Show(m, pop) ==
    LET With(q, n) == IF q.err THEN q ELSE Drop([q EXCEPT !.out = Append(@, <<n, q.globals.obase>>), !.last = n], 1)
        Of(q) == With(q, NumAt(q, 1))
    IN  IF Operand(m, 1).t = "void" THEN (IF pop THEN Wrong(m) ELSE Drop(m, 1)) ELSE Of(Prep(m, 1))

\* A number is read with the ibase of the moment it is executed.
ValueOf(t, ibase) == FoldLeft(LAMBDA v, d : v * ibase + d, 0, Digits[t])

Swap(m) ==
    LET n == Len(m.results)
    IN  [m EXCEPT !.results[n] = m.results[n - 1], !.results[n - 1] = m.results[n]]

\* bc_program_exec(): the instruction i; jumps and calls move the frame.
Jump(m, label) == [m EXCEPT !.stack[Len(m.stack)].idx = m.p.fns[Last(m.stack).f].labels[label]]
JumpZero(m, label) ==
    LET With(q, n) == IF q.err THEN q ELSE IF n = 0 THEN Jump(Drop(q, 1), label) ELSE Drop(q, 1)
        Of(q) == With(q, NumAt(q, 1))
    IN  Of(Prep(m, 1))

Execute(m, i) ==
    CASE i.op \in {"+", "-", "*", "/", "%", "^", "&&", "||"} \cup Relations -> Op(m, i.op)
      [] i.op \in PrefixOps -> Unary(m, i.op)
      [] i.op \in Assigns -> Assign(m, i.op, i.x)
      [] i.op \in {"inc", "dec"} -> Step(m, i.op)
      [] i.op = "num" -> Push(m, Temp(ValueOf(i.x, m.globals.ibase)))
      [] i.op \in {"zero", "one", "last"} -> Push(m, [t |-> i.op])
      [] i.op \in {"ibase", "obase", "scale"} -> Push(m, [t |-> i.op, n |-> m.globals[i.op]])
      [] i.op \in {"var", "array"} -> Push(m, Place(m, i.op, i.x, 0))
      [] i.op = "elem" -> PushElem(m, i.x)
      [] i.op \in Builtins1 \cup {"scale()"} -> Builtin(m, i.op)
      [] i.op = "divmod" -> DivModNumbers(m)
      [] i.op = "modexp" -> ModExpNumbers(m)
      [] i.op = "swap" -> Swap(m)
      [] i.op = "read" -> Read(m)
      [] i.op = "print" -> Show(m, FALSE)
      [] i.op = "printpop" -> Show(m, TRUE)
      [] i.op = "pop" -> Drop(m, 1)
      [] i.op = "jump" -> Jump(m, i.x)
      [] i.op = "jumpzero" -> JumpZero(m, i.x)
      [] i.op = "call" -> CallFunction(m, i.x[1], i.x[2])
      [] i.op \in {"ret", "ret0", "retvoid"} -> Leave(m, i.op)
      [] i.op = "halt" -> [m EXCEPT !.halted = TRUE]

RECURSIVE Run(_)
Run(m) ==
    LET frame == Last(m.stack)
        code == m.p.fns[frame.f].code
    IN  IF m.err \/ m.halted \/ frame.idx > Len(code) THEN m
        ELSE IF m.fuel = 0 THEN Wrong(m)
        ELSE Run(Execute([m EXCEPT !.stack[Len(m.stack)].idx = @ + 1, !.fuel = @ - 1], code[frame.idx]))

\* bc_vm_process(): a statement is run as soon as all of it is read.
RECURSIVE Statements(_)
Checked(ran) == [ran EXCEPT !.leak = @ \/ (~ran.err /\ ~ran.halted /\ ran.results # <<>>)]
Parsed(m) ==
    IF m.p.err THEN Wrong(m)
    ELSE IF m.p.quit THEN [m EXCEPT !.halted = TRUE]
    ELSE IF NoExec(m.p) THEN m
    ELSE Checked(Run(m))
Statements(m) ==
    IF m.err \/ m.halted \/ Tok(m.p) = "EOF" THEN m ELSE Statements(Parsed([m EXCEPT !.p = Parse(@)]))

Process(m, text) == IF m.err \/ m.halted THEN m ELSE Statements([m EXCEPT !.p.toks = text, !.p.i = 1])

\* bc_vm_endif().
Ended(m) ==
    LET Finally(q) == IF q.p.err THEN Wrong(m) ELSE Run(q)
    IN  IF m.err \/ m.halted THEN m ELSE Finally([m EXCEPT !.p = EndIf([@ EXCEPT !.toks = <<>>])])
=============================================================================
