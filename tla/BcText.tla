------------------------------- MODULE BcText -------------------------------
(***************************************************************************)
(* How the builtin bc reads and prints a number (bc-src/num.c).  A text is *)
(* a sequence of digits, which are letters from Radix on, and at most one  *)
(* Point.                                                                  *)
(***************************************************************************)
EXTENDS BcNum

Point == -1
MaxDigit == 101  \* BC_NUM_MAX_LBASE

PointAt(val) == Min({Len(val) + 1} \cup {k \in DOMAIN val : val[k] = Point})
IntPart(val) == SubSeq(val, 1, PointAt(val) - 1)
FracPart(val) == SubSeq(val, PointAt(val) + 1, Len(val))

\* bc_num_parseChar(): a letter that the base does not have is its last digit.
ParseChar(d, base) == IF d >= Radix THEN Smaller(d, base - 1) ELSE d

\* bc_num_parseDecimal(): the digits are put into limbs from the last on.
ParseDecimal(val) ==
    LET frac == FracPart(val)
        digits == [k \in DOMAIN frac |-> Smaller(frac[k], Radix - 1)]
        whole == [k \in DOMAIN IntPart(val) |-> Smaller(val[k], Radix - 1)]
        pad == RdxOf(Len(frac)) * BaseDigs - Len(frac)
        all == Reverse(whole \o digits \o Zeros(pad))
        limbs == [i \in 1..RdxOf(Len(all)) |->
                    FoldRight(LAMBDA x, y : x + Radix * y,
                              SubSeq(all, (i - 1) * BaseDigs + 1, Smaller(i * BaseDigs, Len(all))), 0)]
    IN  Clean(Num(FALSE, Len(frac), limbs))

Accumulate(digits, base) ==
    FoldLeft(LAMBDA n, d : Add(Clean(Integer(MulArray(n.num, base))), FromInt(ParseChar(d, base))),
             Zero(0), digits)

\* bc_num_parseBase(): the digits behind the point are an integer that is
\* divided by a power of the base.
ParseBase(val, base) ==
    LET digs == Len(FracPart(val))
        power == FoldLeft(LAMBDA m, d : MulArray(m, base), <<1>>, FracPart(val))
        Long(n) == IF IsZero(n) THEN Zero(0) ELSE IF n.scale < digs THEN Extend(n, digs - n.scale) ELSE n
    IN  IF \A k \in DOMAIN val : val[k] \in {0, Point} THEN Zero(0)
        ELSE IF Point \notin ToSet(val) THEN Accumulate(val, base)
        ELSE Long(Add(Accumulate(IntPart(val), base),
                      Truncate(Div(Accumulate(FracPart(val), base), Integer(Strip(power)), 2 * digs), digs)))

\* bc_num_parse(): one digit is read in the largest base.
Parse(val, base) ==
    IF Len(val) = 1 THEN FromInt(ParseChar(val[1], MaxDigit))
    ELSE IF base = Radix THEN ParseDecimal(val) ELSE ParseBase(val, base)

-----------------------------------------------------------------------------

\* The digits of a limb, the highest first.
LimbDigits(limb) == [k \in 1..BaseDigs |-> (limb \div Radix^(BaseDigs - k)) % Radix]
WithoutZeros(ds) == Drop(ds, Min({Len(ds)} \cup {k - 1 : k \in {i \in DOMAIN ds : ds[i] # 0}}))

\* bc_num_printDecimal().
PrintDecimal(n) ==
    LET ds(a) == FlattenSeq([k \in DOMAIN a |-> LimbDigits(a[Len(a) + 1 - k])])
        whole == WithoutZeros(ds(Drop(n.num, Rdx(n))))
        frac == SubSeq(ds(SubSeq(n.num, 1, Rdx(n))), 1, n.scale)
    IN  IF frac = <<>> THEN whole ELSE whole \o <<Point>> \o frac

\* bc_num_printFixup(): limb i - 1 becomes one of base pow, from the top down
\* to the one above idx.
RECURSIVE Fixup(_, _, _, _, _)
Fixup(a, rem, pow, idx, i) ==
    LET low == a[i] * rem + a[i - 1]
        acc == low \div pow + a[i]
        b == [a EXCEPT ![i - 1] = low % pow, ![i] = acc % BasePow]
        more == acc \div BasePow
        c == IF more = 0 THEN b ELSE IF i = Len(b) THEN Append(b, more) ELSE [b EXCEPT ![i + 1] = @ + more]
    IN  IF i <= idx + 1 THEN a ELSE Fixup(c, rem, pow, idx, i - 1)

RECURSIVE CarriedIn(_, _, _)
CarriedIn(a, pow, carry) ==
    IF a = <<>> THEN IF carry = 0 THEN <<>> ELSE CarriedIn(<<carry>>, pow, 0)
    ELSE <<(Head(a) + carry) % pow>> \o CarriedIn(Tail(a), pow, (Head(a) + carry) \div pow)

\* Mutation of Prepare: the limbs are not carried once more.
PrepareOnce(a, rem, pow) ==
    LET fix[i \in 0..(2 * Len(a))] ==
            IF i = 0 THEN a
            ELSE IF i > Len(fix[i - 1]) THEN fix[i - 1]
            ELSE Fixup(fix[i - 1], rem, pow, i - 1, Len(fix[i - 1]))
    IN  fix[2 * Len(a)]

\* bc_num_printPrepare(): limbs of base BasePow become limbs of base pow.
Prepare(a, rem, pow) ==
    LET fix[i \in 0..(2 * Len(a))] ==
            IF i = 0 THEN a
            ELSE IF i > Len(fix[i - 1]) THEN fix[i - 1]
            ELSE Fixup(fix[i - 1], rem, pow, i - 1, Len(fix[i - 1]))
    IN  CarriedIn(fix[2 * Len(a)], pow, 0)

\* bc_num_intDigits(): the digits in front of the point.
IntDigits(n) ==
    IF IntLimbs(n) = 0 THEN 0
    ELSE IntLimbs(n) * BaseDigs - Cardinality({k \in 1..(BaseDigs - 1) : n.num[Len(n.num)] < Radix^(BaseDigs - k)})

\* The exponent of the largest power of the base that is not above BasePow.
RECURSIVE LastExp(_, _)
LastExp(base, k) == IF base^(k + 1) > BasePow THEN k ELSE LastExp(base, k + 1)

RECURSIVE FracDigits(_, _, _, _)
FracDigits(frac, base, power, scale) ==
    LET grown == Clean(Num(FALSE, frac.scale, MulArray(frac.num, base)))
        dig == BigDig(grown)
    IN  IF IntDigits(power) > scale THEN <<>>
        ELSE <<dig>> \o FracDigits(Sub(grown, FromInt(dig)), base,
                                   Integer(Strip(MulArray(power.num, base))), scale)

\* bc_num_printNum(): the integer by powers of the base, then the digits behind
\* the point one by one, as many as tell the number.
PrintNum(n, base) ==
    LET size == [n EXCEPT !.neg = FALSE]
        intp == Truncate(size, n.scale)
        exp == LastExp(base, 0)
        pow == base^exp
        ds(limb) == [k \in 1..exp |-> (limb \div base^(exp - k)) % base]
        Text(limbs) == WithoutZeros(FlattenSeq([k \in DOMAIN limbs |-> ds(limbs[Len(limbs) + 1 - k])]))
        whole == Text(IF pow = BasePow THEN intp.num ELSE Prepare(intp.num, BasePow - pow, pow))
    IN  IF n.scale = 0 THEN whole
        ELSE whole \o <<Point>> \o FracDigits([Sub(size, intp) EXCEPT !.scale = n.scale], base, One, n.scale)

\* bc_num_print(), without the lines it is broken into: the sign and the text.
PrintNumber(n, base) ==
    [neg |-> n.neg,
     text |-> IF IsZero(n) THEN <<0>> ELSE IF base = Radix THEN PrintDecimal(n) ELSE PrintNum(n, base)]

\* bc_num_len(): the digits that count.
LenOf(n) ==
    LET a == Strip(n.num)
        top == a[Len(a)]
        zeros == Cardinality({k \in 1..(BaseDigs - 1) : top < Radix^(BaseDigs - k)})
        last == IF n.scale % BaseDigs = 0 THEN BaseDigs ELSE n.scale % BaseDigs
    IN  IF IsZero(n) THEN Bigger(n.scale, 1)
        ELSE IF Rdx(n) = Len(n.num) THEN Len(a) * BaseDigs - zeros - (BaseDigs - last)
        ELSE IntDigits(n) + n.scale
=============================================================================
