------------------------------- MODULE BcCalc -------------------------------
(***************************************************************************)
(* The roots of the builtin bc (bc-src/num.c), and what its arithmetic and *)
(* texts promise, in terms of integers.  A number stands for               *)
(* V(n) / Radix^n.scale.                                                   *)
(***************************************************************************)
EXTENDS BcText

Endless == Error("endless")

Half == Num(FALSE, 1, <<BasePow \div 2>>)

\* The iteration of Newton's method ends when it gives what it was given.  One
\* that comes back to an earlier number goes on for ever.
RECURSIVE Newton(_, _, _, _), Nearer(_, _, _, _, _)
Newton(a, x0, scale, seen) == Nearer(a, x0, Mul(Add(x0, Div(a, x0, scale)), Half, scale), scale, seen)
Nearer(a, x0, x1, scale, seen) ==
    IF Cmp(x1, x0) = 0 THEN x1
    ELSE IF x1 \in seen THEN Endless
    ELSE Newton(a, x1, scale, seen \cup {x1})

\* bc_num_sqrt(): from an estimate with half the digits.
Sqrt(a, scale) ==
    LET real == Bigger(a.scale, scale)
        pow == IntDigits(a)
        start == IF pow = 0 THEN One
                 ELSE ShiftLeft(Integer(<<IF pow % 2 = 1 THEN 2 ELSE 6>>),
                                (pow - (2 - (pow % 2))) \div 2)
        Root(x) == IF ~Failed(x) /\ x.scale > real THEN Truncate(x, x.scale - real) ELSE x
    IN  IF a.neg THEN Error("negative number")
        ELSE IF IsZero(a) THEN Zero(real)
        ELSE IF IsOne(a) THEN Extend(One, real)
        ELSE Root(Newton(a, start, real + BaseDigs + 2, {start}))

-----------------------------------------------------------------------------
(* Arithmetic.                                                             *)

\* A number as every operation leaves it: no zeros above, limbs in their
\* range, no digits below the scale, and one zero.
Canonical(n) ==
    /\ \A k \in DOMAIN n.num : n.num[k] \in 0..(BasePow - 1)
    /\ IsZero(n) => ~n.neg
    /\ ~IsZero(n) =>
        /\ Len(n.num) >= RdxOf(n.scale)
        /\ Len(n.num) > RdxOf(n.scale) => n.num[Len(n.num)] # 0
        /\ n.num[1] % LeastSigPow(n.scale) = 0 \/ RdxOf(n.scale) = 0
        /\ Strip(n.num) # <<>>

Abs(v) == IF v < 0 THEN -v ELSE v
V(n) ==
    LET v == Worth(n.num) \div Radix^(Rdx(n) * BaseDigs - n.scale)
    IN  IF IsZero(n) THEN 0 ELSE IF n.neg THEN -v ELSE v

\* The quotient towards zero.
Quot(v, w) == IF (v < 0) = (w < 0) THEN Abs(v) \div Abs(w) ELSE -(Abs(v) \div Abs(w))
To(v, from, scale) == IF from <= scale THEN v * Radix^(scale - from) ELSE Quot(v, Radix^(from - scale))

Is(r, v, scale) == ~Failed(r) /\ Canonical(r) /\ r.scale = scale /\ V(r) = v

Sum(c, r, sign) ==
    LET s == Bigger(c.a.scale, c.b.scale)
    IN  ~Failed(r) /\ Canonical(r) /\ To(V(r), r.scale, s) = To(V(c.a), c.a.scale, s) + sign * To(V(c.b), c.b.scale, s)

Times(c, r) ==
    LET exact == c.a.scale + c.b.scale
        s == Smaller(exact, Bigger(c.scale, Bigger(c.a.scale, c.b.scale)))
        v == To(V(c.a) * V(c.b), exact, s)
    IN  IF ~Failed(r) /\ IsZero(r) THEN v = 0 ELSE Is(r, v, s)

QuotientOf(a, b, scale) ==
    LET s == Bigger(0, scale + b.scale - a.scale)
    IN  To(Quot(V(a) * Radix^s, V(b)), s + a.scale - b.scale, scale)
Quotient(c, r) == IF IsZero(c.b) THEN Failed(r) ELSE Is(r, QuotientOf(c.a, c.b, c.scale), c.scale)

\* a - (a / b) * b, with the quotient to the scale.
Rest(c, r) ==
    LET s == Bigger(c.scale + c.b.scale, c.a.scale)
        product == To(QuotientOf(c.a, c.b, c.scale) * V(c.b), c.scale + c.b.scale, s)
    IN  IF IsZero(c.b) THEN Failed(r) ELSE Is(r, To(V(c.a), c.a.scale, s) - product, s)

Order(c, r) ==
    LET s == Bigger(c.a.scale, c.b.scale)
        d == To(V(c.a), c.a.scale, s) - To(V(c.b), c.b.scale, s)
    IN  r = IF d < 0 THEN -1 ELSE IF d > 0 THEN 1 ELSE 0

\* The largest number of the scale whose square is not above a.
Root(c, r) ==
    LET s == Bigger(c.a.scale, c.scale)
        v == To(V(c.a), c.a.scale, 2 * s)
    IN  IF c.a.neg THEN Failed(r)
        ELSE ~Failed(r) /\ Canonical(r) /\ r.scale = s /\ V(r) * V(r) <= v /\ v < (V(r) + 1) * (V(r) + 1)

\* a^b exactly, to the scale of the power; and one over it.
Power(c, r) ==
    LET e == Abs(V(c.b))
        exact == c.a.scale * e
        s == IF c.b.neg THEN c.scale ELSE r.scale
        v == V(c.a)^e
    IN  IF c.b.neg /\ IsZero(c.a) THEN Failed(r)
        ELSE IF e = 0 THEN r = One
        ELSE ~Failed(r) /\ Canonical(r)
             /\ V(r) = IF c.b.neg THEN To(Quot(Radix^(exact + s), v), s, r.scale) ELSE To(v, exact, s)

RECURSIVE PowerMod(_, _, _)
PowerMod(v, e, m) == IF e = 0 THEN 1 % m ELSE (v * PowerMod(v, e - 1, m)) % m
Residue(c, r) ==
    IF c.scale = 0 \/ c.b.neg THEN Failed(r)
    ELSE ~Failed(r) /\ V(r) % c.scale = PowerMod(V(c.a), V(c.b), c.scale)

\* Division and modulus together; of single limbs without a scale bc leaves out
\* the signs.
Parted(c, r) ==
    LET Like(m, n) == IF Failed(m) \/ Failed(n) THEN m = n ELSE Cmp([m EXCEPT !.neg = FALSE], [n EXCEPT !.neg = FALSE]) = 0
    IN  /\ Like(r.quotient, Div(c.a, c.b, c.scale)) /\ Like(r.rest, Mod(c.a, c.b, c.scale))
        /\ c.scale > 0 /\ ~Failed(r.rest) => r.rest.neg = Mod(c.a, c.b, c.scale).neg

\* The digits that count: none above the first that is not zero.
Length(c, r) ==
    IF IsZero(c.a) THEN r = Bigger(c.a.scale, 1) ELSE Radix^(r - 1) <= Abs(V(c.a)) /\ Abs(V(c.a)) < Radix^r

\* The operation c.op of the numbers a and b, where scale is the scale of the
\* machine, or the modulus of modexp.
Value(c) ==
    CASE c.op = "+" -> Add(c.a, c.b)
      [] c.op = "-" -> Sub(c.a, c.b)
      [] c.op = "*" -> Mul(c.a, c.b, c.scale)
      [] c.op = "/" -> Div(c.a, c.b, c.scale)
      [] c.op = "%" -> Mod(c.a, c.b, c.scale)
      [] c.op = "^" -> Pow(c.a, c.b, c.scale)
      [] c.op = "cmp" -> Cmp(c.a, c.b)
      [] c.op = "sqrt" -> Sqrt(c.a, c.scale)
      [] c.op = "modexp" -> ModExp(c.a, c.b, FromInt(c.scale))
      [] c.op = "divmod" -> DivMod(c.a, c.b, c.scale)
      [] c.op = "length" -> LenOf(c.a)

Calculated(c, r) ==
    CASE c.op = "+" -> Sum(c, r, 1)
      [] c.op = "-" -> Sum(c, r, -1)
      [] c.op = "*" -> Times(c, r)
      [] c.op = "/" -> Quotient(c, r)
      [] c.op = "%" -> Rest(c, r)
      [] c.op = "^" -> Power(c, r)
      [] c.op = "cmp" -> Order(c, r)
      [] c.op = "sqrt" -> r = Endless \/ Root(c, r)
      [] c.op = "modexp" -> Residue(c, r)
      [] c.op = "divmod" -> Parted(c, r)
      [] c.op = "length" -> Length(c, r)

-----------------------------------------------------------------------------
(* Texts.                                                                  *)

ValueOf(digits, base) == FoldLeft(LAMBDA v, d : v * base + ParseChar(d, base), 0, digits)
RECURSIVE DigitsOf(_, _)
DigitsOf(v, base) == IF v = 0 THEN <<>> ELSE DigitsOf(v \div base, base) \o <<v % base>>

\* A text is read as what it stands for, to as many digits as it has.
ReadRight(val, base, n) ==
    LET digs == Len(FracPart(val))
        v == (ValueOf(IntPart(val) \o FracPart(val), base) * Radix^digs) \div base^digs
    IN  IF Len(val) = 1 THEN Is(n, val[1], 0)
        ELSE IF IsZero(n) THEN v = 0 ELSE Is(n, v, digs)

\* What is printed is the integer in the base, and of the rest the digits that
\* the scale is worth.
PrintedRight(n, base, text) ==
    LET whole == Abs(V(n)) \div Radix^n.scale
        rest == Abs(V(n)) % Radix^n.scale
        count == IF base = Radix THEN n.scale
                 ELSE Cardinality({k \in 0..2 * n.scale : base^k < Radix^n.scale})
    IN  text.neg = n.neg /\ text.text =
            IF IsZero(n) THEN <<0>>
            ELSE DigitsOf(whole, base) \o
                 IF n.scale = 0 THEN <<>>
                 ELSE <<Point>> \o [k \in 1..count |-> ((rest * base^k) \div Radix^n.scale) % base]

\* The text c.val, read in c.base and printed in c.obase.
PrintedIn(n, base) == [n |-> n, text |-> PrintNumber(n, base)]
Printed(c) == PrintedIn(Parse(c.val, c.base), c.obase)
TextRight(c, r) == ReadRight(c.val, c.base, r.n) /\ PrintedRight(r.n, c.obase, r.text)
=============================================================================
