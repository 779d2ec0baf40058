------------------------------- MODULE BcNum -------------------------------
(***************************************************************************)
(* The numbers of the builtin bc (bc-src/num.c): a sign, a scale, which is *)
(* the number of digits after the radix point, and limbs of BaseDigs       *)
(* digits, the least significant first.  The point is always between two   *)
(* limbs: Rdx of them are behind it, and the digits of the lowest limb     *)
(* beyond the scale are zeros.                                             *)
(***************************************************************************)
EXTENDS Integers, Sequences, SequencesExt, FiniteSetsExt

CONSTANTS
    Radix,         \* 10: BC_BASE, the base of a digit
    BaseDigs,      \* 4: BC_BASE_DIGS, the digits of a limb where a long has 32 bits
    KaratsubaLen,  \* 32: limbs from which on multiplication is by halves
    DefSize,       \* 8: BC_NUM_DEF_SIZE, the limbs of a new number
    DivisorBound,  \* 128: the leading limb of a divisor up to which it is shifted
    BigDigMax      \* 2^32: vm->max, which an exponent or a shift must not reach

BasePow == Radix^BaseDigs
Bigger(m, n) == IF m < n THEN n ELSE m
Smaller(m, n) == IF m < n THEN m ELSE n

RdxOf(scale) == (scale + BaseDigs - 1) \div BaseDigs
Num(neg, scale, limbs) == [neg |-> neg, scale |-> scale, num |-> limbs]
Zero(scale) == Num(FALSE, scale, <<>>)
One == Num(FALSE, 0, <<1>>)
IsZero(n) == n.num = <<>>
IsOne(n) == n.num = <<1>> /\ n.scale = 0 /\ ~n.neg
Rdx(n) == IF IsZero(n) THEN 0 ELSE RdxOf(n.scale)
IntLimbs(n) == Len(n.num) - Rdx(n)

Zeros(k) == [i \in 1..k |-> 0]
Limb(a, i) == IF i \in DOMAIN a THEN a[i] ELSE 0
Strip(a) == SubSeq(a, 1, Max({0} \cup {i \in DOMAIN a : a[i] # 0}))
Drop(a, k) == SubSeq(a, k + 1, Len(a))

\* bc_num_clean().
WithLimbs(n, s) ==
    IF s = <<>> THEN Zero(n.scale)
    ELSE [n EXCEPT !.num = s \o Zeros(Bigger(0, RdxOf(n.scale) - Len(s)))]
Clean(n) == WithLimbs(n, Strip(n.num))

-----------------------------------------------------------------------------
(* Arrays of limbs.                                                        *)

\* What is beyond a limb, or missing in it, is carried to the next.
Carries(a) ==
    LET carry[i \in 0..Len(a)] == IF i = 0 THEN 0 ELSE (a[i] + carry[i - 1]) \div BasePow
    IN  carry
Carried(a) ==
    LET carry == Carries(a)
        limbs == [i \in 1..Len(a) |-> (a[i] + carry[i - 1]) % BasePow]
    IN  IF carry[Len(a)] = 0 THEN limbs ELSE Append(limbs, carry[Len(a)])

AddArrays(a, b) == Carried([i \in 1..Bigger(Len(a), Len(b)) |-> Limb(a, i) + Limb(b, i)])
SubArrays(a, b) == Carried([i \in 1..Bigger(Len(a), Len(b)) |-> Limb(a, i) - Limb(b, i)])
MulArray(a, d) == Carried([i \in 1..Len(a) |-> a[i] * d])

\* bc_num_m_simp(): the products of a column are added up, then carried.
Column(a, b, k) ==
    LET sum[i \in 0..Len(a)] == IF i = 0 THEN 0 ELSE sum[i - 1] + a[i] * Limb(b, k + 1 - i)
    IN  sum[Len(a)]
Simple(a, b) == Carried([k \in 1..(Len(a) + Len(b) - 1) |-> Column(a, b, k)])

DivArray(a, d) ==
    LET in[i \in 1..(Len(a) + 1)] == IF i > Len(a) THEN 0 ELSE (in[i + 1] % d) * BasePow + a[i]
    IN  [num |-> [i \in DOMAIN a |-> in[i] \div d], rem |-> in[1] % d]

\* bc_num_bigdig2() and bc_num_bigdig2num(): the integer that limbs stand for,
\* and its limbs.
Worth(a) ==
    LET worth[i \in 1..(Len(a) + 1)] == IF i > Len(a) THEN 0 ELSE a[i] + BasePow * worth[i + 1]
    IN  worth[1]
LimbsOf(v) ==
    LET limbs[u \in 0..v] == IF u = 0 THEN <<>> ELSE <<u % BasePow>> \o limbs[u \div BasePow]
    IN  limbs[v]

\* Of two arrays of one length.
Compare(a, b) ==
    LET i == Max({0} \cup {k \in DOMAIN a : a[k] # b[k]})
    IN  IF i = 0 THEN 0 ELSE IF a[i] < b[i] THEN -1 ELSE 1

\* bc_num_cmp(): the sign of the comparison.
Aligned(a, rdx) == Zeros(rdx - Rdx(a)) \o a.num
Cmp(a, b) ==
    LET sign == IF a.neg THEN -1 ELSE 1
        rdx == Bigger(Rdx(a), Rdx(b))
    IN  IF IsZero(a) THEN (IF IsZero(b) THEN 0 ELSE IF b.neg THEN 1 ELSE -1)
        ELSE IF IsZero(b) \/ a.neg # b.neg THEN sign
        ELSE IF IntLimbs(a) # IntLimbs(b) THEN (IF IntLimbs(a) < IntLimbs(b) THEN -sign ELSE sign)
        ELSE sign * Compare(Aligned(a, rdx), Aligned(b, rdx))

\* bc_num_divCmp(), of a part of the dividend that has a limb more.
DivCmp(n, b) == IF n[Len(b) + 1] # 0 THEN 1 ELSE Compare(SubSeq(n, 1, Len(b)), b)

\* bc_num_d_long(): what the two upper limbs are divided by is the leading limb,
\* and one more when there is anything below it.  The estimate of a limb of the
\* quotient is never too large.
Below(b) == Strip(SubSeq(b, 1, Len(b) - 1)) # <<>>
Estimate(b) == b[Len(b)] + IF Below(b) THEN 1 ELSE 0
Guess(n, b, divisor) == Bigger(1, (n[Len(b) + 1] * BasePow + n[Len(b)]) \div divisor)
Less(n, b, quotient) == SubSeq(SubArrays(n, MulArray(b, quotient)), 1, Len(n))

\* A limb of the quotient, from estimates: only one where the estimate is exact.
\* Each takes the divisor off at least once, so there are less than BasePow.
DivLimb(n, b) ==
    LET pass[k \in 0..BasePow] ==
            IF k = 0 THEN [n |-> n, digit |-> 0]
            ELSE LET s == pass[k - 1]
                     quotient == Guess(s.n, b, Estimate(b))
                 IN  IF DivCmp(s.n, b) < 0 \/ (k > 1 /\ ~Below(b)) THEN s
                     ELSE [n |-> Less(s.n, b, quotient), digit |-> s.digit + quotient]
    IN  pass[BasePow]

\* The limbs of the quotient from the top down to place stop, in an array of
\* len limbs, and what is left of the dividend.
DivLimbs(a, b, stop, len) ==
    LET top == Len(a) - Len(b)
        down[i \in 1..(top + 1)] ==
            IF i > top THEN [a |-> a, c |-> Zeros(len)]
            ELSE LET s == down[i + 1]
                     d == DivLimb(SubSeq(s.a, i, i + Len(b)), b)
                 IN  [a |-> [k \in DOMAIN a |-> IF k \in i..(i + Len(b)) THEN d.n[k - i + 1] ELSE s.a[k]],
                      c |-> [k \in 1..len |-> IF k = i THEN d.digit ELSE s.c[k]]]
    IN  down[Smaller(stop, top + 1)]

-----------------------------------------------------------------------------
(* Scales and shifts.                                                      *)

\* bc_num_leastSigPow().
LeastSigPow(scale) == IF scale % BaseDigs = 0 THEN 1 ELSE Radix^(BaseDigs - (scale % BaseDigs))

Truncate(n, places) ==
    LET scale == n.scale - places
        a == Drop(n.num, Rdx(n) - RdxOf(scale))
    IN  IF places = 0 THEN n
        ELSE IF IsZero(n) \/ a = <<>> THEN Zero(scale)
        ELSE Clean(Num(n.neg, scale, [a EXCEPT ![1] = @ - (@ % LeastSigPow(scale))]))

Extend(n, places) ==
    IF IsZero(n) THEN Zero(n.scale + places)
    ELSE Num(n.neg, n.scale + places, Zeros(RdxOf(n.scale + places) - Rdx(n)) \o n.num)

\* bc_num_retireMul().
Signed(n, neg) == IF IsZero(n) THEN n ELSE [n EXCEPT !.neg = neg]
ToScale(n, scale) == IF n.scale < scale THEN Extend(n, scale - n.scale) ELSE Truncate(n, n.scale - scale)
Retire(n, scale, neg) == Signed(Clean(ToScale(n, scale)), neg)

\* bc_num_shift(): to the right, by less than a limb.
Shift(a, dig) ==
    [i \in DOMAIN a |-> a[i] \div Radix^dig + (Limb(a, i + 1) % Radix^dig) * Radix^(BaseDigs - dig)]

\* How many limbs are put below n by a shift to the left.
LimbsLeft(n, places) ==
    LET mod == IF n.scale % BaseDigs = 0 THEN BaseDigs ELSE n.scale % BaseDigs
        revdig == IF places % BaseDigs = 0 THEN 0 ELSE BaseDigs - (places % BaseDigs)
    IN  IF n.scale = 0 THEN RdxOf(places)
        ELSE IF Rdx(n) < RdxOf(places) THEN RdxOf(places) - Rdx(n)
        ELSE IF mod + revdig > BaseDigs THEN 1 ELSE 0

ShiftLeft(n, places) ==
    LET scale == Bigger(0, n.scale - places)
        dig == places % BaseDigs
        a == Zeros(LimbsLeft(n, places)) \o n.num
    IN  IF places = 0 THEN n
        ELSE IF IsZero(n) THEN Zero(scale)
        ELSE Clean(Num(n.neg, scale, IF dig = 0 THEN a ELSE Shift(a, BaseDigs - dig)))

ShiftRight(n, places) ==
    LET dig == places % BaseDigs
        mod == IF n.scale % BaseDigs = 0 THEN BaseDigs ELSE n.scale % BaseDigs
        past == mod + dig > BaseDigs
        expand == Bigger(0, RdxOf(places) - (IF past THEN 1 ELSE 0) - IntLimbs(n))
        a == Zeros(IF past THEN 1 ELSE 0) \o n.num \o Zeros(expand)
    IN  IF places = 0 THEN n
        ELSE IF IsZero(n) THEN Zero(n.scale + places)
        ELSE Clean(Num(n.neg, n.scale + places, IF dig = 0 THEN a ELSE Shift(a, dig)))

\* bc_num_nonInt(): the integer, or what is not one.
IsInt(n) == \A i \in 1..Rdx(n) : n.num[i] = 0
ToInt(n) == IF Rdx(n) = 0 THEN n ELSE Num(n.neg, 0, Drop(n.num, Rdx(n)))

BigDig(n) == Worth(Drop(n.num, Rdx(n)))
FromInt(v) == Num(FALSE, 0, LimbsOf(v))

-----------------------------------------------------------------------------
(* Addition and subtraction.                                               *)

\* Whether a is to be taken from b: do_rev_sub of bc_num_as().
Reversed(a, b) ==
    IF IntLimbs(a) # IntLimbs(b) THEN IntLimbs(a) < IntLimbs(b)
    ELSE LET diff == Rdx(a) - Rdx(b)
         IN  IF diff > 0 THEN Compare(Drop(a.num, diff), b.num) < 0
             ELSE Compare(a.num, Drop(b.num, -diff)) <= 0

\* bc_num_as(): the limbs that only one of them has behind the point are
\* copied, or taken from zero.
Arrays(x, y, less, rev) ==
    IF ~less THEN AddArrays(x, y) ELSE IF rev THEN SubArrays(y, x) ELSE SubArrays(x, y)
Combined(a, b, rdx, less, rev) ==
    Clean(Num(a.neg # rev, Bigger(a.scale, b.scale), Arrays(Aligned(a, rdx), Aligned(b, rdx), less, rev)))

AddSub(a, b, sub) ==
    LET less == a.neg # (b.neg # sub)
    IN  IF IsZero(b) THEN a
        ELSE IF IsZero(a) THEN [b EXCEPT !.neg = (@ # sub)]
        ELSE Combined(a, b, Bigger(Rdx(a), Rdx(b)), less, less /\ Reversed(a, b))

Add(a, b) == AddSub(a, b, FALSE)
Sub(a, b) == AddSub(a, b, TRUE)

\* What an operation gives that has no result, with what the program reports.
Error(what) == [error |-> what]
Failed(r) == "error" \in DOMAIN r

-----------------------------------------------------------------------------
(* Multiplication.                                                         *)

\* bc_num_split().
Low(a, k) == Strip(SubSeq(a, 1, Smaller(k, Len(a))))
High(a, k) == Drop(a, Smaller(k, Len(a)))

Integer(limbs) == Num(FALSE, 0, limbs)

\* Mutation of Third: the product of the differences is always added.
ThirdAdded(m1, m2, c, third) == AddArrays(c, third)

\* The product of the differences of the halves, h1 - l1 and l2 - h2, is added
\* to the sum of the others or taken from it.
Third(m1, m2, c, third) == IF m1.neg # m2.neg THEN SubArrays(c, third) ELSE AddArrays(c, third)

\* z2 and z0 are the products of the upper and of the lower halves, z1 that of
\* the differences.
Up(limbs, k) == IF limbs = <<>> THEN <<>> ELSE Zeros(k) \o limbs
Joined(m1, m2, z2, z0, z1, half) ==
    Third(m1, m2, AddArrays(AddArrays(Up(z2, 2 * half), Up(z2, half)), AddArrays(Up(z0, half), z0)), Up(z1, half))

\* bc_num_m() of two integers: without the zeros below, unless one of them is one
\* limb and neither is negative.  kara has the products of arrays.
ShiftZero(a) == Min({Len(a)} \cup {i - 1 : i \in {k \in DOMAIN a : a[k] # 0}})
OneLimb(a, b) == (Len(a.num) = 1 \/ Len(b.num) = 1) /\ ~a.neg /\ ~b.neg
ByLimb(x, y) == Strip(IF Len(x) = 1 THEN MulArray(y, x[1]) ELSE MulArray(x, y[1]))
Unshifted(x, y, kara) ==
    Strip(Zeros(ShiftZero(x) + ShiftZero(y)) \o kara[<<Strip(Drop(x, ShiftZero(x))), Strip(Drop(y, ShiftZero(y)))>>])
Whole(a, b, kara) == IF OneLimb(a, b) THEN ByLimb(a.num, b.num) ELSE Unshifted(a.num, b.num, kara)

Halves(l1, h1, l2, h2, half, kara) ==
    LET m1 == Sub(h1, l1)
        m2 == Sub(l2, h2)
    IN  Joined(m1, m2, Whole(h1, h2, kara), Whole(l1, l2, kara), Whole(m1, m2, kara), half)

\* bc_num_k(): of two arrays, by halves when both are long.
ByHalves(a, b, kara) ==
    LET half == (Bigger(Bigger(Len(a), Len(b)), DefSize) + 1) \div 2
    IN  IF a = <<>> \/ b = <<>> THEN <<>>
        ELSE IF a = <<1>> THEN b
        ELSE IF b = <<1>> THEN a
        ELSE IF Len(a) < KaratsubaLen \/ Len(b) < KaratsubaLen THEN Simple(a, b)
        ELSE Halves(Integer(Low(a, half)), Integer(High(a, half)), Integer(Low(b, half)), Integer(High(b, half)), half, kara)

\* Halves are shorter, so it is called in itself at most as often as there are limbs.
Karatsuba(depth) ==
    LET kara[d \in 0..depth] ==
            [p \in Seq(0..(BasePow - 1)) \X Seq(0..(BasePow - 1)) |->
                IF d = 0 THEN <<>> ELSE ByHalves(p[1], p[2], kara[d - 1])]
    IN  kara[depth]

Mul(a, b, scale) ==
    LET real == Smaller(a.scale + b.scale, Bigger(Bigger(scale, a.scale), b.scale))
        kara == Karatsuba(Bigger(Len(a.num), Len(b.num)))
    IN  IF OneLimb(a, b) /\ Rdx(a) = 0 /\ Rdx(b) = 0 THEN Integer(ByLimb(a.num, b.num))
        ELSE Retire(ShiftRight(Integer(Unshifted(a.num, b.num, kara)), (Rdx(a) + Rdx(b)) * BaseDigs),
                    real, a.neg # b.neg)

-----------------------------------------------------------------------------
(* Division.                                                               *)

\* bc_num_d_long(): both are shifted when the divisor's leading limb is small,
\* and the dividend gets a limb more.
DivLong(a, b, scale) ==
    LET top == b.num[Len(b.num)]
        pow == CHOOSE k \in 0..BaseDigs : top * Radix^k \in (BasePow \div Radix)..(BasePow - 1)
        Topped(x, y) == x \o Zeros(Bigger(0, Bigger(Len(x), Len(y)) + 1 - Len(x)))
        Shifted(x, y) == <<Topped(x, y), y>>
        ab == IF Below(b.num) /\ top <= DivisorBound
              THEN Shifted(ShiftLeft(a, pow).num, ShiftLeft(b, pow).num) ELSE <<a.num, b.num>>
    IN  Num(FALSE, a.scale, DivLimbs(ab[1], ab[2], Rdx(a) - RdxOf(scale) + 1, Len(a.num)).c)

\* bc_num_d(): the dividend gets as many limbs behind its point as the quotient
\* and the divisor have, then the points are left out.
OfLimbs(n) == [n EXCEPT !.scale = Rdx(n) * BaseDigs]
AsLong(a, b) == OfLimbs(IF Len(b.num) > Len(a.num) THEN Extend(a, (Len(b.num) - Len(a.num)) * BaseDigs) ELSE a)
ForPoint(a, b) == [Extend(a, b.scale) EXCEPT !.scale = a.scale]
ForScale(a, scale) == IF scale > a.scale THEN OfLimbs(Extend(a, scale)) ELSE a
OneMore(a) ==
    LET whole == Append(a.num, 0)
    IN  Num(FALSE, a.scale, IF RdxOf(a.scale) = Len(whole) THEN Strip(whole) ELSE whole)

Div(a, b, scale) ==
    LET divisor == Num(FALSE, 0, IF Rdx(b) = Len(b.num) THEN Strip(b.num) ELSE b.num)
    IN  IF IsZero(b) THEN Error("divide by zero")
        ELSE IF IsZero(a) THEN Zero(scale)
        ELSE IF IsOne(b) THEN Retire(a, scale, a.neg # b.neg)
        ELSE IF Rdx(a) = 0 /\ Rdx(b) = 0 /\ Len(b.num) = 1 /\ scale = 0
        THEN Retire(Clean(Num(FALSE, a.scale, DivArray(a.num, b.num[1]).num)), 0, a.neg # b.neg)
        ELSE Retire(DivLong(OneMore(ForScale(ForPoint(AsLong(a, b), b), scale)), divisor, scale), scale, a.neg # b.neg)

\* bc_num_r(): the quotient, and a - (a / b) * b.
RestOf(d, ts) == Retire(IF ts > d.scale /\ ~IsZero(d) THEN Extend(d, ts - d.scale) ELSE d, ts, d.neg)
WithRest(a, b, c, scale, ts) ==
    [quotient |-> c, rest |-> RestOf(Sub(a, Mul(c, b, IF scale = 0 THEN 0 ELSE ts + 1)), ts)]

Both(a, b, scale, ts) ==
    IF IsZero(b) THEN [quotient |-> Error("divide by zero"), rest |-> Error("divide by zero")]
    ELSE IF IsZero(a) THEN [quotient |-> Zero(ts), rest |-> Zero(ts)]
    ELSE WithRest(a, b, Div(a, b, scale), scale, ts)

Mod(a, b, scale) == Both(a, b, scale, Bigger(scale + b.scale, a.scale)).rest

\* bc_num_divmod(): with a short way for integers.  The quotient is another number than a.
DivMod(a, b, scale) ==
    IF ~IsZero(a) /\ Rdx(a) = 0 /\ Rdx(b) = 0 /\ Len(b.num) = 1 /\ scale = 0
    THEN LET d == DivArray(a.num, b.num[1])
         IN  [quotient |-> Clean(Num(FALSE, 0, d.num)), rest |-> FromInt(d.rem)]
    ELSE Both(a, b, scale, Bigger(scale + b.scale, a.scale))

-----------------------------------------------------------------------------
(* Powers.                                                                 *)

\* bc_num_p(), one square: copy, of scale powrdx, is a power of the base, and c, of
\* scale resrdx, the product of those that the exponent had, or NoPower before
\* there was one.  exp is what is left of it, and halved each time.
NoPower == Error("none")
Squared(s) ==
    LET used == s.exp % 2 = 1
    IN  IF s.exp = 0 THEN s
        ELSE [copy |-> Mul(s.copy, s.copy, 2 * s.powrdx), powrdx |-> 2 * s.powrdx, exp |-> s.exp \div 2,
              c |-> IF ~used THEN s.c ELSE IF s.c = NoPower THEN s.copy ELSE Mul(s.c, s.copy, s.resrdx + s.powrdx),
              resrdx |-> IF used THEN s.resrdx + s.powrdx ELSE s.resrdx]
Squares(a, exp) ==
    LET at[k \in 0..exp] ==
            IF k = 0 THEN [copy |-> a, powrdx |-> a.scale, exp |-> exp, c |-> NoPower, resrdx |-> 0]
            ELSE Squared(at[k - 1])
    IN  at[exp].c

\* bc_num_p().
PowScale(a, n, scale) == IF n.neg THEN scale ELSE Smaller(a.scale * BigDig(n), Bigger(scale, a.scale))
Inverted(c, n, scale) == IF n.neg THEN Div(One, c, scale) ELSE c
AtMost(d, scale) == IF Failed(d) THEN d ELSE Clean(IF d.scale > scale THEN Truncate(d, d.scale - scale) ELSE d)

Pow(a, b, scale) ==
    LET n == ToInt(b)
    IN  IF ~IsInt(b) THEN Error("non integer")
        ELSE IF IsZero(n) THEN One
        ELSE IF IsZero(a) THEN (IF n.neg THEN Error("divide by zero") ELSE Zero(scale))
        ELSE IF n.num = <<1>> THEN (IF n.neg THEN Div(One, a, scale) ELSE a)
        ELSE IF BigDig(n) >= BigDigMax THEN Error("overflow")
        ELSE LET real == PowScale(a, n, scale)
             IN  AtMost(Inverted(Squares(a, BigDig(n)), n, real), real)

\* bc_num_divmod() with the quotient in the place of a: bc_num_init() has left a without
\* limbs by the time the short way is asked for, so it is never taken.
DivModHere(a, b, scale) == Both(a, b, scale, Bigger(scale + b.scale, a.scale))

\* bc_num_modexp(), one round: exp is halved, and base and, when exp was odd, d are
\* multiplied by base, modulo c.
Two == Integer(<<2>>)
ModSquared(s, c) ==
    LET half == DivModHere(s.exp, Two, 0)
    IN  IF IsZero(s.exp) THEN s
        ELSE [base |-> Mod(Mul(s.base, s.base, 0), c, 0), exp |-> half.quotient,
              d |-> IF IsOne(half.rest) THEN Mod(Mul(s.d, s.base, 0), c, 0) ELSE s.d]
ModSquares(base, exp, c) ==
    LET at[k \in 0..Worth(exp.num)] ==
            IF k = 0 THEN [base |-> base, exp |-> exp, d |-> One] ELSE ModSquared(at[k - 1], c)
    IN  at[Worth(exp.num)].d

\* bc_num_modexp().
ModExp(a, b, c) ==
    IF IsZero(c) THEN Error("divide by zero")
    ELSE IF b.neg THEN Error("negative number")
    ELSE IF ~IsInt(a) \/ ~IsInt(b) \/ ~IsInt(c) THEN Error("non integer")
    ELSE ModSquares(Mod(ToInt(a), ToInt(c), 0), ToInt(b), ToInt(c))
=============================================================================
