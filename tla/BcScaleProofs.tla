--------------------------- MODULE BcScaleProofs ---------------------------
(***************************************************************************)
(* Theorems about the operations of BcNum on numbers with signs and        *)
(* scales: products, quotients, remainders and powers are exact where the  *)
(* language says so, and otherwise cut at the scale that it gives them.    *)
(* They rest on what BcNumProofs says of arrays of limbs.                  *)
(***************************************************************************)
EXTENDS BcNumProofs

-----------------------------------------------------------------------------
(* Scales                                                                  *)

\* A quotient and a remainder are what they are in one way only.
LEMMA RemainderIs ==
    \A d \in Nat \ {0} : \A q \in Int : \A r \in 0..(d - 1) : (d * q + r) % d = r /\ (d * q + r) \div d = q
  <1> TAKE d \in Nat \ {0}
  <1> TAKE q \in Int
  <1> TAKE r \in 0..(d - 1)
  <1> DEFINE y == d * q + r  s == y % d  p == y \div d
  <1>1. y \in Int OBVIOUS
  <1>2. s \in 0..(d - 1) /\ p \in Int /\ y = d * p + s BY <1>1, Quotients
  <1>3. d * p + s = d * q + r BY <1>2
  <1> HIDE DEF s, p
  <1>4. p = q
    <2>1. \A e, f \in Int : \A v, w \in 0..(d - 1) : e >= f + 1 => d * e + v > d * f + w
      <3> TAKE e, f \in Int
      <3> TAKE v, w \in 0..(d - 1)
      <3> HAVE e >= f + 1
      <3>1. PICK g \in Nat : e = f + 1 + g OBVIOUS
      <3>2. d * e = d * f + d + d * g BY <3>1
      <3>3. d * g \in Nat /\ d * f \in Int OBVIOUS
      <3> QED BY <3>2, <3>3
    <2>2. ~(p >= q + 1) BY <1>2, <1>3, <2>1
    <2>3. ~(q >= p + 1) BY <1>2, <1>3, <2>1
    <2> QED BY <1>2, <2>2, <2>3
  <1>5. s = r BY <1>2, <1>3, <1>4
  <1> QED BY <1>4, <1>5 DEF s, p

\* A multiple of the divisor does not count for a remainder.
LEMMA RemainderStays ==
    \A d \in Nat \ {0} : \A x, y \in Nat : (x + d * y) % d = x % d
  <1> TAKE d \in Nat \ {0}
  <1> TAKE x, y \in Nat
  <1> DEFINE r == x % d  q == x \div d
  <1>1. r \in 0..(d - 1) /\ q \in Int /\ x = d * q + r BY Quotients
  <1> HIDE DEF r, q
  <1>2. x + d * y = d * (q + y) + r BY <1>1
  <1>3. q + y \in Int BY <1>1
  <1>4. (d * (q + y) + r) % d = r BY <1>1, <1>3, RemainderIs
  <1> QED BY <1>2, <1>4 DEF r

\* What is cut off w units of u and low is less than p such units.
LEMMA CutOff ==
    \A u, p \in Nat \ {0} : \A w, low \in Nat :
        low < u => u * (w - (w % p)) = (u * w + low) - ((u * w + low) % (u * p))
  <1> TAKE u, p \in Nat \ {0}
  <1> TAKE w, low \in Nat
  <1> HAVE low < u
  <1> DEFINE r == w % p  q == w \div p  s == u * r + low
  <1>1. r \in 0..(p - 1) /\ q \in Int /\ w = p * q + r BY Quotients
  <1> HIDE DEF r, q
  <1>2. u * p \in Nat \ {0}
    <2>1. \A e, f \in Nat \ {0} : e * f \in Nat /\ e * f # 0 OBVIOUS
    <2> QED BY <2>1
  <1>3. s \in 0..(u * p - 1)
    <2>1. PICK g \in Nat : p = r + 1 + g BY <1>1
    <2>2. r \in Nat BY <1>1
    <2>3. u * p = u * r + u + u * g BY <2>1, <2>2
    <2>4. u * r \in Nat /\ u * g \in Nat BY <2>2
    <2> QED BY <2>3, <2>4
  <1>4. u * w + low = (u * p) * q + s
    <2>1. u * w = u * (p * q) + u * r
      <3>1. \A e, f, g \in Int : e * (f + g) = e * f + e * g OBVIOUS
      <3>2. p * q \in Int /\ r \in Int BY <1>1
      <3> QED BY <1>1, <3>1, <3>2
    <2>2. u * (p * q) = (u * p) * q BY <1>1
    <2>3. u * r \in Int /\ (u * p) * q \in Int BY <1>1
    <2> QED BY <2>1, <2>2, <2>3
  <1> HIDE DEF s
  <1>5. ((u * p) * q + s) % (u * p) = s BY <1>1, <1>2, <1>3, RemainderIs
  <1>6. (u * w + low) - s = u * (w - r)
    <2>1. u * (w - r) = u * w - u * r BY <1>1
    <2>2. u * w \in Int /\ u * r \in Int BY <1>1
    <2> QED BY <2>1, <2>2 DEF s
  <1> QED BY <1>4, <1>5, <1>6 DEF r

\* An array cut at k: what is above, and less than a one with k limbs below.
LEMMA CutAt ==
    ASSUME Based, NEW a \in Seq(Digit), NEW k \in Nat, k <= Len(a)
    PROVE  /\ Drop(a, k) \in Seq(Digit) /\ Len(Drop(a, k)) = Len(a) - k
           /\ \E low \in Nat : /\ low < Worth(Unit(k))
                               /\ Worth(a) = Worth(Unit(k)) * Worth(Drop(a, k)) + low
  <1>1. Len(a) \in Nat BY DomainIs
  <1>2. Smaller(k, Len(a)) = k BY <1>1 DEF Smaller
  <1>3. /\ Proper(Low(a, k)) /\ Len(Low(a, k)) <= k /\ High(a, k) \in Seq(Digit)
        /\ Worth(a) = Worth(Low(a, k)) + Worth(Unit(k)) * Worth(High(a, k))
    BY SplitIs
  <1>4. High(a, k) = Drop(a, k) BY <1>2 DEF High
  <1>5. Low(a, k) \in Seq(Digit) BY <1>3 DEF Proper
  <1>6. Worth(Low(a, k)) \in Nat /\ Worth(Low(a, k)) < Worth(Unit(k)) BY <1>3, <1>5, WorthIsNat, BelowUnit
  <1>7. Worth(a) = Worth(Unit(k)) * Worth(Drop(a, k)) + Worth(Low(a, k))
    <2>1. Worth(Unit(k)) \in Nat /\ Worth(High(a, k)) \in Nat BY <1>3, UnitIs, WorthIsNat
    <2>2. Worth(Unit(k)) * Worth(High(a, k)) \in Nat BY <2>1
    <2> QED BY <1>3, <1>4, <1>6, <2>2
  <1>8. Drop(a, k) \in Seq(Digit) /\ Len(Drop(a, k)) = Len(a) - k BY DropIs
  <1> QED BY <1>6, <1>7, <1>8

\* The lowest limb rounded down to a divisor of the base of limbs is the array rounded down.
LEMMA RoundedDown ==
    ASSUME Based, NEW a \in Seq(Digit), Len(a) >= 1, NEW p \in Nat \ {0}, NEW c \in Nat, BasePow = p * c
    PROVE  LET r == [a EXCEPT ![1] = @ - (@ % p)]
           IN  r \in Seq(Digit) /\ Len(r) = Len(a) /\ Worth(r) = Worth(a) - (Worth(a) % p)
  <1> DEFINE r == [a EXCEPT ![1] = a[1] - (a[1] % p)]
  <1>1. Len(a) \in Nat /\ DOMAIN a = 1..Len(a) /\ \A i \in 1..Len(a) : a[i] \in Nat /\ Limb(a, i) = a[i] BY DomainIs
  <1>2. PICK n \in Nat : n = Len(a) OBVIOUS
  <1>3. 1 \in 1..n /\ a[1] \in Nat BY <1>1, <1>2
  <1>4. PICK e \in Nat, f \in Nat : e = a[1] /\ f = e % p /\ f <= e /\ e - f \in Nat
    <2>1. PICK e \in Nat : e = a[1] BY <1>3
    <2>2. e % p \in 0..(p - 1) /\ e \div p \in Int /\ e = p * (e \div p) + (e % p)
      <3>1. e \in Int /\ p \in Nat \ {0} OBVIOUS
      <3> QED BY <3>1, Quotients
    <2>3. PICK f \in Nat : f = e % p BY <2>2
    <2>4. f <= e
      <3> DEFINE q == e \div p
      <3>1. q \in Int /\ e = p * q + f /\ f < p BY <2>2, <2>3
      <3> HIDE DEF q
      <3>2. ~(q <= -1)
        <4> SUFFICES ASSUME q <= -1 PROVE FALSE OBVIOUS
        <4>1. PICK g \in Nat : q = -1 - g BY <3>1
        <4>2. p * q = -p - p * g BY <4>1
        <4>3. p * g \in Nat OBVIOUS
        <4> QED BY <3>1, <4>2, <4>3
      <3>3. q \in Nat BY <3>1, <3>2
      <3>4. p * q \in Nat BY <3>3
      <3> QED BY <3>1, <3>4
    <2> QED BY <2>1, <2>3, <2>4
  <1>5. a[1] - (a[1] % p) = e - f BY <1>4
  <1>6. e \in Digit /\ e - f \in Digit
    <2>1. \A i \in 1..Len(a) : a[i] \in Digit OBVIOUS
    <2>2. e \in Digit BY <1>2, <1>3, <1>4, <2>1
    <2>3. \A x, y \in Nat : x \in Digit /\ y <= x => x - y \in Digit BY DEF Digit, Based
    <2> QED BY <1>4, <2>2, <2>3
  <1>7. r = [i \in 1..n |-> IF i = 1 THEN e - f ELSE a[i]] BY <1>1, <1>2, <1>4, <1>5
  <1> HIDE DEF r
  <1>8. r \in [1..n -> Digit]
    <2>1. \A i \in 1..Len(a) : a[i] \in Digit OBVIOUS
    <2> QED BY <1>2, <1>6, <1>7, <2>1
  <1>9. r \in Seq(Digit) /\ Len(r) = n /\ \A i \in 1..n : Limb(r, i) = r[i] BY <1>8, ArrayOf
  <1> DEFINE w == Worth(Drop(a, 1))
  <1>10. Worth(a) = e + BasePow * w
    <2>1. Worth(Drop(a, 1 - 1)) = a[1] + BasePow * w BY <1>2, <1>3, DropStep
    <2>2. 1 - 1 = 0 /\ Drop(a, 0) = a
      <3>1. Drop(a, 0) \in Seq(Digit) /\ Len(Drop(a, 0)) = Len(a) /\ \A i \in Nat \ {0} : Limb(Drop(a, 0), i) = Limb(a, 0 + i)
        BY <1>1, DropIs
      <3> QED BY <1>1 DEF Drop
    <2> QED BY <1>4, <2>1, <2>2
  <1>11. Worth(r) = (e - f) + BasePow * w
    <2>1. 1 \in 1..Len(r) /\ r[1] = e - f BY <1>3, <1>7, <1>9
    <2>2. Worth(Drop(r, 1 - 1)) = r[1] + BasePow * Worth(Drop(r, 1)) BY <1>9, <2>1, DropStep
    <2>3. 1 - 1 = 0 /\ Drop(r, 0) = r BY <1>9 DEF Drop
    <2>4. Worth(Drop(r, 1)) = w
      <3>1. /\ Drop(r, 1) \in Seq(Digit) /\ Drop(a, 1) \in Seq(Digit)
            /\ \A i \in Nat \ {0} : Limb(Drop(r, 1), i) = Limb(r, 1 + i)
            /\ \A i \in Nat \ {0} : Limb(Drop(a, 1), i) = Limb(a, 1 + i)
        <4>1. 1 \in Nat /\ 1 <= Len(r) /\ 1 <= Len(a) BY <1>2, <1>9
        <4>2. Drop(r, 1) \in Seq(Digit) /\ \A i \in Nat \ {0} : Limb(Drop(r, 1), i) = Limb(r, 1 + i)
          BY <1>9, <4>1, DropIs
        <4>3. Drop(a, 1) \in Seq(Digit) /\ \A i \in Nat \ {0} : Limb(Drop(a, 1), i) = Limb(a, 1 + i)
          BY <4>1, DropIs
        <4> QED BY <4>2, <4>3
      <3>2. \A i \in Nat \ {0} : Limb(r, 1 + i) = Limb(a, 1 + i)
        <4> TAKE i \in Nat \ {0}
        <4>1. DOMAIN r = 1..n BY <1>8
        <4>2. 1 + i # 1 OBVIOUS
        <4> QED BY <1>1, <1>2, <1>7, <4>1, <4>2 DEF Limb
      <3> QED BY <3>1, <3>2, SameLimbs
    <2> QED BY <2>1, <2>2, <2>3, <2>4
  <1>12. w \in Nat
    <2>1. Drop(a, 1) \in Seq(Digit) BY DropIs
    <2> QED BY <2>1, WorthIsNat
  <1> HIDE DEF w
  <1>13. (e + BasePow * w) % p = f
    <2>1. BasePow * w = p * (c * w)
      <3>1. (p * c) * w = p * (c * w) BY <1>12
      <3> QED BY <3>1
    <2>2. c * w \in Nat BY <1>12
    <2>3. (e + p * (c * w)) % p = e % p BY <2>2, RemainderStays
    <2> QED BY <1>4, <2>1, <2>3
  <1>14. BasePow * w \in Nat BY <1>12 DEF Based
  <1>15. Worth(r) = Worth(a) - (Worth(a) % p)
    <2>1. PICK x \in Nat : x = BasePow * w BY <1>14
    <2>2. Worth(a) = e + x /\ Worth(r) = (e - f) + x /\ (e + x) % p = f BY <1>10, <1>11, <1>13, <2>1
    <2>3. (e - f) + x = (e + x) - f OBVIOUS
    <2>4. Worth(a) % p = f BY <2>2, Zenon
    <2> QED BY <2>2, <2>3, <2>4, Zenon
  <1> QED BY <1>2, <1>9, <1>15 DEF r

\* The part of the base of limbs that the digits left out of the lowest limb stand for
\* divides it: Radix^BaseDigs = Radix^k * Radix^(BaseDigs - k), of which the provers
\* know nothing.
Places == \A s \in Nat : LeastSigPow(s) \in Nat \ {0} /\ \E c \in Nat : BasePow = LeastSigPow(s) * c

\* bc_num_clean() of what is a number's parts.
LEMMA CleanWorth ==
    ASSUME Based, Digits, NEW neg \in BOOLEAN, NEW scale \in Nat, NEW a \in Seq(Digit)
    PROVE  LET r == Clean(Num(neg, scale, a))
           IN  /\ Number(r) /\ r.scale = scale /\ r.num \in Seq(Digit) /\ Worth(r.num) = Worth(a)
               /\ ~IsZero(r) => r.neg = neg
  <1> DEFINE r == Clean(Num(neg, scale, a))
  <1>1. /\ Number(r) /\ r.scale = scale /\ (~IsZero(r) => r.neg = neg)
        /\ \A i \in Nat \ {0} : Limb(r.num, i) = Limb(a, i)
    BY Cleaned
  <1> HIDE DEF r
  <1>2. r.num \in Seq(Digit) BY <1>1 DEF Number
  <1>3. Worth(r.num) = Worth(a) BY <1>1, <1>2, SameLimbs
  <1> QED BY <1>1, <1>2, <1>3 DEF r

\* bc_num_clean() of limbs without a sign.
LEMMA CleanPlain ==
    ASSUME Based, Digits, NEW scale \in Nat, NEW a \in Seq(Digit)
    PROVE  LET r == Clean(Num(FALSE, scale, a))
           IN  Number(r) /\ r.scale = scale /\ Worth(r.num) = Worth(a) /\ ~r.neg
  <1>1. PICK neg \in BOOLEAN : neg = FALSE OBVIOUS
  <1> DEFINE r == Clean(Num(neg, scale, a))
  <1>2. Number(r) /\ r.scale = scale /\ Worth(r.num) = Worth(a) /\ (~IsZero(r) => r.neg = neg) BY CleanWorth
  <1> HIDE DEF r
  <1>3. ~r.neg BY <1>1, <1>2 DEF Number
  <1> QED BY <1>1, <1>2, <1>3 DEF r

\* A number is its parts; it is zero when its limbs stand for nothing.
LEMMA NumberIs ==
    ASSUME Based, NEW n, Number(n)
    PROVE  /\ n = Num(n.neg, n.scale, n.num) /\ n.neg \in BOOLEAN /\ n.scale \in Nat /\ n.num \in Seq(Digit)
           /\ Worth(n.num) \in Nat /\ (IsZero(n) <=> Worth(n.num) = 0)
  <1>1. n \in [neg : BOOLEAN, scale : Nat, num : Seq(Digit)] BY DEF Number
  <1>2. n = Num(n.neg, n.scale, n.num) /\ n.neg \in BOOLEAN /\ n.scale \in Nat /\ n.num \in Seq(Digit)
    BY <1>1 DEF Num
  <1>3. Worth(n.num) \in Nat BY <1>2, WorthIsNat
  <1>4. CASE IsZero(n)
    <2>1. Worth(n.num) = 0 BY <1>4, EmptyWorth DEF IsZero
    <2> QED BY <1>2, <1>3, <1>4, <2>1
  <1>5. CASE ~IsZero(n)
    <2>1. PICK i \in DOMAIN n.num : n.num[i] # 0 BY <1>5 DEF Number
    <2>2. i \in 1..Len(n.num) BY <1>2, <2>1, DomainIs
    <2>3. Worth(n.num) >= 1 BY <1>2, <2>1, <2>2, WorthIsNat
    <2>4. Worth(n.num) # 0 BY <1>3, <2>3
    <2> QED BY <1>2, <1>3, <1>5, <2>4
  <1> QED BY <1>4, <1>5

\* Zero is a number.
LEMMA ZeroIs ==
    ASSUME Based, NEW s \in Nat
    PROVE  Number(Zero(s)) /\ IsZero(Zero(s)) /\ Zero(s).scale = s /\ Zero(s).num = <<>> /\ ~Zero(s).neg
  <1>1. Zero(s) = [neg |-> FALSE, scale |-> s, num |-> <<>>] BY DEF Zero, Num
  <1>2. <<>> \in Seq(Digit) BY EmptyWorth
  <1>3. Zero(s) \in [neg : BOOLEAN, scale : Nat, num : Seq(Digit)] /\ Zero(s).scale = s /\ Zero(s).num = <<>> /\ ~Zero(s).neg
    BY <1>1, <1>2
  <1> QED BY <1>3 DEF Number, IsZero

\* bc_num_truncate(): what is behind the places left is cut off, in the lowest limb too.
LEMMA TruncateIs ==
    ASSUME Based, Digits, Places, NEW n, Number(n), ~IsZero(n), NEW places \in Nat \ {0}, places <= n.scale
    PROVE  LET s == n.scale - places
               k == RdxOf(n.scale) - RdxOf(s)
               r == Truncate(n, places)
           IN  /\ Number(r) /\ r.scale = s /\ k \in Nat
               /\ ~IsZero(r) => r.neg = n.neg
               /\ Worth(Unit(k)) * Worth(r.num)
                    = Worth(n.num) - (Worth(n.num) % (Worth(Unit(k)) * LeastSigPow(s)))
  <1> DEFINE s == n.scale - places
             k == RdxOf(n.scale) - RdxOf(s)
             r == Truncate(n, places)
             p == LeastSigPow(s)
             a == Drop(n.num, k)
             e == [a EXCEPT ![1] = @ - (@ % p)]
             u == Worth(Unit(k))
             w == Worth(a)
  <1>1. /\ n.neg \in BOOLEAN /\ n.scale \in Nat /\ n.num \in Seq(Digit) /\ Worth(n.num) \in Nat
        /\ Len(n.num) \in Nat /\ Len(n.num) >= RdxOf(n.scale)
    BY NumberIs, DomainIs DEF Number
  <1>2. s \in Nat /\ s <= n.scale BY <1>1
  <1> HIDE DEF s
  <1>3. k \in Nat /\ k <= Len(n.num)
    <2>1. RdxOf(s) \in Nat /\ RdxOf(n.scale) \in Nat /\ RdxOf(s) <= RdxOf(n.scale) BY <1>1, <1>2, RdxGrows
    <2> QED BY <1>1, <2>1
  <1> HIDE DEF k
  <1>4. a \in Seq(Digit) /\ Len(a) = Len(n.num) - k BY <1>1, <1>3, CutAt
  <1>5. PICK low \in Nat : low < u /\ Worth(n.num) = u * w + low BY <1>1, <1>3, CutAt
  <1>6. u \in Nat \ {0} BY <1>3, UnitIs
  <1>7. p \in Nat \ {0} /\ \E c \in Nat : BasePow = p * c BY <1>2 DEF Places
  <1>8. Len(a) \in Nat /\ w \in Nat BY <1>4, DomainIs, WorthIsNat
  <1>9. Rdx(n) = RdxOf(n.scale) BY DEF Rdx
  <1>10. r = IF a = <<>> THEN Zero(s) ELSE Clean(Num(n.neg, s, e)) BY <1>9 DEF Truncate, s, k
  <1> HIDE DEF a, u, p
  <1>11. u * (w - (w % p)) = Worth(n.num) - (Worth(n.num) % (u * p)) BY <1>5, <1>6, <1>7, <1>8, CutOff
  <1>12. CASE a = <<>>
    <2>1. Number(r) /\ IsZero(r) /\ r.scale = s /\ r.num = <<>> BY <1>2, <1>10, <1>12, ZeroIs
    <2>2. w = 0 /\ Worth(r.num) = 0 BY <1>12, <2>1, EmptyWorth
    <2>3. w % p = 0 BY <1>7, <2>2
    <2>4. w - (w % p) = Worth(r.num) BY <2>2, <2>3
    <2> QED BY <1>3, <1>11, <2>1, <2>4 DEF s, k, u, p, r
  <1>13. CASE a # <<>>
    <2>1. Len(a) >= 1 BY <1>4, <1>8, <1>13
    <2>2. PICK c \in Nat : BasePow = p * c BY <1>7
    <2>3. e \in Seq(Digit) /\ Worth(e) = w - (w % p) BY <1>4, <1>7, <2>1, <2>2, RoundedDown
    <2> HIDE DEF e, w
    <2>4. r = Clean(Num(n.neg, s, e)) BY <1>10, <1>13
    <2> HIDE DEF r
    <2>5. Number(r) /\ r.scale = s /\ Worth(r.num) = Worth(e) /\ (~IsZero(r) => r.neg = n.neg)
      BY <1>1, <1>2, <2>3, <2>4, CleanWorth
    <2> QED BY <1>3, <1>11, <2>3, <2>5 DEF s, k, u, p, r
  <1> QED BY <1>12, <1>13

\* bc_num_retireMul() of a positive number with limbs enough behind its point: cut to the
\* scale, in the form of a number, with its sign.
LEMMA RetireIs ==
    ASSUME Based, Digits, Places, NEW n, Number(n), NEW scale \in Nat, scale <= n.scale, NEW neg \in BOOLEAN,
           ~IsZero(n), LeastSigPow(n.scale) = 1
    PROVE  LET k == RdxOf(n.scale) - RdxOf(scale)
               r == Retire(n, scale, neg)
           IN  /\ Number(r) /\ r.scale = scale /\ k \in Nat
               /\ ~IsZero(r) => r.neg = neg
               /\ Worth(Unit(k)) * Worth(r.num)
                    = Worth(n.num) - (Worth(n.num) % (Worth(Unit(k)) * LeastSigPow(scale)))
  <1> DEFINE k == RdxOf(n.scale) - RdxOf(scale)
             t == ToScale(n, scale)
             c == Clean(t)
             r == Retire(n, scale, neg)
             u == Worth(Unit(k))
             p == LeastSigPow(scale)
             q == Worth(n.num)
  <1>1. n.scale \in Nat /\ q \in Nat BY NumberIs
  <1>2. t = Truncate(n, n.scale - scale) BY <1>1 DEF ToScale
  <1>3. /\ Number(t) /\ t.scale = scale /\ k \in Nat
        /\ u * Worth(t.num) = q - (q % (u * p))
    <2>1. CASE n.scale = scale
      <3>1. t = n
        <4>1. n.scale - scale = 0 BY <1>1, <2>1
        <4> QED BY <1>2, <4>1 DEF Truncate
      <3>2. k = 0 BY <1>1, <2>1, RdxGrows
      <3>3. u = 1 /\ p = 1 BY <2>1, <3>2, UnitZero
      <3> HIDE DEF u, p, q, k, t
      <3>4. q % (u * p) = 0 BY <1>1, <3>3
      <3>5. u * q = q - (q % (u * p)) BY <1>1, <3>3, <3>4
      <3> QED BY <2>1, <3>1, <3>2, <3>5 DEF q
    <2>2. CASE n.scale # scale
      <3>1. PICK places \in Nat \ {0} : places = n.scale - scale BY <1>1, <2>2
      <3>2. places <= n.scale /\ n.scale - places = scale BY <1>1, <3>1
      <3>3. t = Truncate(n, places) BY <1>2, <3>1
      <3> HIDE DEF t
      <3> QED BY <3>2, <3>3, TruncateIs
    <2> QED BY <2>1, <2>2
  <1> HIDE DEF t, k, u, p, q
  <1>4. t = Num(t.neg, t.scale, t.num) /\ t.neg \in BOOLEAN /\ t.num \in Seq(Digit) BY <1>3, NumberIs
  <1>5. Number(c) /\ c.scale = scale /\ Worth(c.num) = Worth(t.num)
    <2> DEFINE d == Clean(Num(t.neg, t.scale, t.num))
    <2>1. Number(d) /\ d.scale = t.scale /\ Worth(d.num) = Worth(t.num) BY <1>3, <1>4, CleanWorth
    <2>2. c = d BY <1>4
    <2> QED BY <1>3, <2>1, <2>2
  <1>6. r = Signed(c, neg) BY DEF Retire, t
  <1> HIDE DEF c, r
  <1>7. Number(r) /\ r.scale = c.scale /\ r.num = c.num /\ (~IsZero(r) => r.neg = neg)
    <2>1. CASE IsZero(c) BY <1>5, <1>6, <2>1 DEF Signed
    <2>2. CASE ~IsZero(c)
      <3>1. c \in [neg : BOOLEAN, scale : Nat, num : Seq(Digit)] BY <1>5 DEF Number
      <3>2. r = [c EXCEPT !.neg = neg] BY <1>6, <2>2 DEF Signed
      <3>3. /\ r \in [neg : BOOLEAN, scale : Nat, num : Seq(Digit)]
            /\ r.neg = neg /\ r.scale = c.scale /\ r.num = c.num
        BY <3>1, <3>2
      <3> QED BY <1>5, <2>2, <3>3 DEF Number, IsZero
    <2> QED BY <2>1, <2>2
  <1> QED BY <1>3, <1>5, <1>7 DEF k, r, u, p, q

\* So many limbs hold so many digits.
LEMMA RdxCovers ==
    ASSUME Digits, NEW s \in Nat, NEW m \in Nat
    PROVE  /\ s <= RdxOf(s) * BaseDigs /\ RdxOf(s) \in Nat
           /\ RdxOf(m * BaseDigs) = m /\ (m * BaseDigs) % BaseDigs = 0 /\ m * BaseDigs \in Nat
           /\ RdxOf(s) = 0 => s = 0
  <1>1. PICK b \in Nat \ {0} : b = BaseDigs BY DEF Digits
  <1>2. RdxOf(s) \in Nat BY RdxGrows
  <1>3. s <= RdxOf(s) * b
    <2> DEFINE y == s + b - 1  q == y \div b  r == y % b
    <2>1. y \in Int OBVIOUS
    <2>2. r \in 0..(b - 1) /\ q \in Int /\ y = b * q + r BY <2>1, Quotients
    <2>3. RdxOf(s) = q BY <1>1 DEF RdxOf
    <2> HIDE DEF q, r
    <2>4. b * q >= s BY <2>2
    <2>5. b * q = q * b BY <2>2
    <2> QED BY <2>3, <2>4, <2>5
  <1>4. RdxOf(m * b) = m
    <2>1. m * b + b - 1 = b * m + (b - 1) OBVIOUS
    <2>2. m \in Int /\ b - 1 \in 0..(b - 1) OBVIOUS
    <2>3. (b * m + (b - 1)) \div b = m BY <2>2, RemainderIs
    <2> QED BY <1>1, <2>1, <2>3 DEF RdxOf
  <1>5. (m * b) % b = 0
    <2>1. m * b = b * m + 0 /\ m \in Int /\ 0 \in 0..(b - 1) OBVIOUS
    <2> QED BY <2>1, RemainderIs
  <1>6. m * b \in Nat OBVIOUS
  <1>7. RdxOf(s) = 0 => s = 0
    <2> SUFFICES ASSUME RdxOf(s) = 0 PROVE s = 0 OBVIOUS
    <2>1. 0 * b = 0 OBVIOUS
    <2> QED BY <1>3, <2>1
  <1> QED BY <1>1, <1>2, <1>3, <1>4, <1>5, <1>6, <1>7

\* bc_num_shiftRight() of an integer by whole limbs: the same limbs behind the point.
LEMMA ShiftLimbs ==
    ASSUME Based, Digits, NEW p, Proper(p), NEW m \in Nat
    PROVE  LET n == ShiftRight(Integer(p), m * BaseDigs)
           IN  Number(n) /\ ~n.neg /\ n.scale = m * BaseDigs /\ Worth(n.num) = Worth(p)
  <1> DEFINE i == Integer(p)  places == m * BaseDigs  n == ShiftRight(i, places)
             x == Bigger(0, m - Len(p))  a == Zeros(0) \o p \o Zeros(x)
  <1>1. Number(i) /\ i.num = p /\ i.scale = 0 /\ ~i.neg /\ Rdx(i) = 0 BY IntegerIs
  <1>2. places \in Nat /\ RdxOf(places) = m /\ places % BaseDigs = 0 BY RdxCovers
  <1>3. p \in Seq(Digit) /\ Len(p) \in Nat BY DomainIs DEF Proper
  <1> HIDE DEF i
  <1>4. i.neg = FALSE /\ IntLimbs(i) = Len(p) /\ (IsZero(i) <=> p = <<>>)
    <2>1. i.neg \in BOOLEAN BY <1>1, NumberIs
    <2> QED BY <1>1, <1>3, <2>1 DEF IntLimbs, IsZero
  <1>5. CASE places = 0
    <2>1. n = i BY <1>5 DEF ShiftRight
    <2> QED BY <1>1, <1>5, <2>1 DEF i
  <1>6. CASE places # 0 /\ p = <<>>
    <2>1. n = Zero(0 + places) BY <1>1, <1>4, <1>6 DEF ShiftRight
    <2>2. 0 + places = places BY <1>2
    <2> QED BY <1>2, <1>6, <2>1, <2>2, ZeroIs DEF i
  <1>7. CASE places # 0 /\ p # <<>>
    <2>1. x \in Nat BY <1>3 DEF Bigger
    <2>2. n = Clean(Num(FALSE, places, a))
      <3>1. PICK b \in Nat \ {0} : b = BaseDigs BY DEF Digits
      <3>2. 0 % b = 0 /\ ~(b + 0 > b) OBVIOUS
      <3>3. 0 % BaseDigs = 0 /\ ~(BaseDigs + 0 > BaseDigs) BY <3>1, <3>2
      <3>4. m - 0 - Len(p) = m - Len(p) BY <1>3
      <3>5. 0 + places = places BY <1>2
      <3> HIDE DEF places
      <3> QED BY <1>1, <1>2, <1>4, <1>7, <3>3, <3>4, <3>5 DEF ShiftRight
    <2> HIDE DEF x, n, places
    <2>3. /\ Zeros(0) \o p \in Seq(Digit)
          /\ \A j \in Nat \ {0} : Limb(Zeros(0) \o p, j) = IF j <= 0 THEN 0 ELSE Limb(p, j - 0)
      BY <1>3, ZerosBelow
    <2> DEFINE z == Zeros(0) \o p
    <2>4. \A j \in Nat \ {0} : Limb(z, j) = Limb(p, j)
      <3> TAKE j \in Nat \ {0}
      <3>1. ~(j <= 0) /\ j - 0 = j OBVIOUS
      <3> QED BY <2>3, <3>1
    <2> HIDE DEF z
    <2>5. a \in Seq(Digit) /\ \A j \in Nat \ {0} : Limb(a, j) = Limb(z, j)
      <3>1. z \in Seq(Digit) BY <2>3 DEF z
      <3>2. z \o Zeros(x) \in Seq(Digit) /\ \A j \in Nat \ {0} : Limb(z \o Zeros(x), j) = Limb(z, j)
        BY <2>1, <3>1, ZerosAbove
      <3> QED BY <3>2 DEF z
    <2> HIDE DEF a
    <2>6. Worth(a) = Worth(p) BY <1>3, <2>4, <2>5, SameLimbs
    <2>7. Number(n) /\ n.scale = places /\ Worth(n.num) = Worth(a) /\ ~n.neg BY <1>2, <2>2, <2>5, CleanPlain
    <2> QED BY <2>6, <2>7 DEF n, i, places
  <1> QED BY <1>5, <1>6, <1>7

\* The same of zero.
LEMMA RetireZero ==
    ASSUME Based, Digits, NEW n, Number(n), IsZero(n), NEW scale \in Nat, NEW neg
    PROVE  Number(Retire(n, scale, neg)) /\ IsZero(Retire(n, scale, neg))
  <1> DEFINE t == ToScale(n, scale)  c == Clean(t)
  <1>1. n.scale \in Nat /\ n.num = <<>> BY NumberIs DEF IsZero
  <1>2. PICK s \in Nat : t.scale = s /\ t.num = <<>>
    <2>1. CASE n.scale < scale
      <3>1. t = Zero(n.scale + (scale - n.scale)) BY <2>1 DEF ToScale, Extend
      <3>2. n.scale + (scale - n.scale) \in Nat BY <1>1
      <3> QED BY <3>1, <3>2, ZeroIs
    <2>2. CASE ~(n.scale < scale)
      <3>1. t = n \/ t = Zero(n.scale - (n.scale - scale)) BY <2>2 DEF ToScale, Truncate
      <3>2. n.scale - (n.scale - scale) \in Nat BY <1>1, <2>2
      <3> QED BY <1>1, <3>1, <3>2, ZeroIs
    <2> QED BY <2>1, <2>2
  <1> HIDE DEF t
  <1>3. c = Zero(s)
    <2>1. Strip(<<>>) = <<>>
      <3>1. Strip(<<>>) \in Seq(Digit) /\ Len(Strip(<<>>)) <= Len(<<>>) BY EmptyWorth, Stripped
      <3> QED BY <3>1
    <2> QED BY <1>2, <2>1 DEF Clean, WithLimbs
  <1>4. Number(c) /\ IsZero(c) BY <1>3, ZeroIs
  <1>5. Retire(n, scale, neg) = c BY <1>4 DEF Retire, Signed, t
  <1> QED BY <1>4, <1>5

\* At each depth the products of arrays that are no longer are right.
LEMMA KaratsubaRight ==
    ASSUME Based, Digits, Halving, NEW d \in Nat
    PROVE  Right(Karatsuba(d), d)
  BY ProductsByHalves DEF Right

\* The limbs that bc_num_m() multiplies give the product of what they stand for.
LEMMA ArrayProduct ==
    ASSUME Based, Digits, Halving, NEW x \in Seq(Digit), NEW y \in Seq(Digit)
    PROVE  LET u == Unshifted(x, y, Karatsuba(Bigger(Len(x), Len(y))))
           IN  Proper(u) /\ Worth(u) = Worth(x) * Worth(y)
  <1>1. Len(x) \in Nat /\ Len(y) \in Nat BY DomainIs
  <1>2. PICK d \in Nat : d = Bigger(Len(x), Len(y)) /\ Len(x) <= d /\ Len(y) <= d BY <1>1, BiggerIs
  <1>3. Right(Karatsuba(d), d) BY KaratsubaRight
  <1> DEFINE kara == Karatsuba(d)
  <1> HIDE DEF kara
  <1>4. Right(kara, d) BY <1>3 DEF kara
  <1>5. Proper(Unshifted(x, y, kara)) /\ Worth(Unshifted(x, y, kara)) = Worth(x) * Worth(y)
    BY <1>2, <1>4, UnshiftedIs
  <1> QED BY <1>2, <1>5 DEF kara

\* bc_num_m(): for every two numbers and every scale, the product in the form that every
\* number has, with the sign of a product, cut to the scale that the language gives it;
\* also when the limbs are multiplied by halves, and by the short ways for one limb.
THEOREM Multiplication ==
    ASSUME Based, Digits, Halving, Places, NEW a, Number(a), NEW b, Number(b), NEW scale \in Nat
    PROVE  LET r == Mul(a, b, scale)
               real == Smaller(a.scale + b.scale, Bigger(Bigger(scale, a.scale), b.scale))
               k == (Rdx(a) + Rdx(b)) - RdxOf(real)
               q == Worth(a.num) * Worth(b.num)
           IN  /\ Number(r)
               /\ IsZero(a) \/ IsZero(b) => IsZero(r)
               /\ ~IsZero(a) /\ ~IsZero(b) =>
                    /\ r.scale = real /\ k \in Nat
                    /\ ~IsZero(r) => r.neg = (a.neg # b.neg)
                    /\ Worth(Unit(k)) * Worth(r.num) = q - (q % (Worth(Unit(k)) * LeastSigPow(real)))
  <1> DEFINE r == Mul(a, b, scale)
             real == Smaller(a.scale + b.scale, Bigger(Bigger(scale, a.scale), b.scale))
             m == Rdx(a) + Rdx(b)
             k == m - RdxOf(real)
             q == Worth(a.num) * Worth(b.num)
             neg == a.neg # b.neg
             short == OneLimb(a, b) /\ Rdx(a) = 0 /\ Rdx(b) = 0
  <1>1. /\ a.num \in Seq(Digit) /\ a.scale \in Nat /\ a.neg \in BOOLEAN /\ Worth(a.num) \in Nat
        /\ IsZero(a) <=> Worth(a.num) = 0
    BY NumberIs
  <1>2. /\ b.num \in Seq(Digit) /\ b.scale \in Nat /\ b.neg \in BOOLEAN /\ Worth(b.num) \in Nat
        /\ IsZero(b) <=> Worth(b.num) = 0
    BY NumberIs
  <1>3. /\ q \in Nat /\ neg \in BOOLEAN
        /\ IsZero(a) \/ IsZero(b) => q = 0
        /\ ~IsZero(a) /\ ~IsZero(b) => q # 0
    <2>1. \A e, f \in Nat : e * f \in Nat /\ (e = 0 \/ f = 0 => e * f = 0) /\ (e # 0 /\ f # 0 => e * f # 0) OBVIOUS
    <2> QED BY <1>1, <1>2, <2>1
  <1>4. Rdx(a) \in Nat /\ Rdx(b) \in Nat /\ m \in Nat
    <2>1. RdxOf(a.scale) \in Nat /\ RdxOf(b.scale) \in Nat BY <1>1, <1>2, RdxGrows
    <2>2. Rdx(a) \in Nat /\ Rdx(b) \in Nat BY <2>1 DEF Rdx
    <2> QED BY <2>2
  <1>5. real \in Nat /\ real <= a.scale + b.scale
    <2>1. PICK e \in Nat : e = Bigger(Bigger(scale, a.scale), b.scale) BY <1>1, <1>2, BiggerIs
    <2>2. a.scale + b.scale \in Nat BY <1>1, <1>2
    <2> QED BY <2>1, <2>2, SmallerIs
  <1>6. ASSUME short PROVE Proper(a.num) /\ Proper(b.num) /\ (~IsZero(a) => a.scale = 0) /\ (~IsZero(b) => b.scale = 0)
    <2>1. \A n : Number(n) /\ Rdx(n) = 0 => Proper(n.num) /\ (~IsZero(n) => n.scale = 0)
      <3> SUFFICES ASSUME NEW n, Number(n), Rdx(n) = 0 PROVE Proper(n.num) /\ (~IsZero(n) => n.scale = 0) OBVIOUS
      <3>1. n.num \in Seq(Digit) /\ n.scale \in Nat BY NumberIs
      <3>2. CASE IsZero(n) BY <3>1, <3>2 DEF IsZero, Proper
      <3>3. CASE ~IsZero(n)
        <4>1. RdxOf(n.scale) = 0 BY <3>3 DEF Rdx
        <4>2. n.scale = 0 BY <3>1, <4>1, RdxCovers
        <4>3. Len(n.num) \in Nat /\ (Len(n.num) > 0 => n.num[Len(n.num)] # 0)
          BY <3>1, <3>3, <4>1, DomainIs DEF Number
        <4>4. Len(n.num) # 0 => n.num[Len(n.num)] # 0 BY <4>3
        <4> QED BY <3>1, <3>3, <4>2, <4>4 DEF Proper
      <3> QED BY <3>2, <3>3
    <2> QED BY <1>6, <2>1
  <1> HIDE DEF q, m, real
  <1>7. CASE short
    <2> DEFINE p == ByLimb(a.num, b.num)
    <2>1. r = Integer(p) BY <1>7 DEF Mul
    <2>2. Proper(p) /\ Worth(p) = q BY <1>6, <1>7, ByLimbIs DEF OneLimb, q
    <2> HIDE DEF p, r
    <2>3. Number(r) /\ r.num = p /\ r.scale = 0 /\ ~r.neg BY <2>1, <2>2, IntegerIs
    <2>4. IsZero(r) <=> q = 0 BY <2>2, <2>3, NumberIs
    <2>5. CASE IsZero(a) \/ IsZero(b) BY <1>3, <2>3, <2>4, <2>5 DEF r
    <2>6. CASE ~IsZero(a) /\ ~IsZero(b)
      <3>1. real = 0
        <4>1. a.scale + b.scale = 0 BY <1>6, <1>7, <2>6
        <4> QED BY <1>5, <4>1
      <3>2. k = 0 BY <1>7, <3>1, NoRdx DEF m
      <3>3. LeastSigPow(real) = 1
        <4>1. PICK e \in Nat \ {0} : e = BaseDigs BY DEF Digits
        <4>2. 0 % e = 0 OBVIOUS
        <4> QED BY <3>1, <4>1, <4>2 DEF LeastSigPow
      <3>4. ~neg BY <1>1, <1>2, <1>7 DEF OneLimb
      <3>5. q % (1 * 1) = 0 /\ 1 * q = q - (q % (1 * 1)) BY <1>3
      <3>6. Worth(Unit(k)) = 1 BY <3>2, UnitZero
      <3>7. Worth(Unit(k)) * Worth(r.num) = q - (q % (Worth(Unit(k)) * LeastSigPow(real)))
        BY <2>2, <2>3, <3>3, <3>5, <3>6
      <3>8. r.neg = neg BY <2>3, <3>4, NumberIs
      <3> HIDE DEF neg, k
      <3>9. k \in Nat BY <3>2
      <3> QED BY <2>3, <2>6, <3>1, <3>7, <3>8, <3>9, Zenon DEF r, real, m, k, q, neg
    <2> QED BY <2>5, <2>6
  <1>8. CASE ~short
    <2> DEFINE u == Unshifted(a.num, b.num, Karatsuba(Bigger(Len(a.num), Len(b.num))))
               n == ShiftRight(Integer(u), m * BaseDigs)
    <2>1. r = Retire(n, real, neg) BY <1>8 DEF Mul, m, real
    <2>2. Proper(u) /\ Worth(u) = q BY <1>1, <1>2, ArrayProduct DEF q
    <2> HIDE DEF u, r
    <2>3. Number(n) /\ ~n.neg /\ n.scale = m * BaseDigs /\ Worth(n.num) = q BY <1>4, <2>2, ShiftLimbs
    <2> HIDE DEF n
    <2>4. IsZero(n) <=> q = 0 BY <2>3, NumberIs
    <2>5. /\ RdxOf(m * BaseDigs) = m /\ (m * BaseDigs) % BaseDigs = 0 /\ m * BaseDigs \in Nat
      BY <1>4, RdxCovers
    <2>6. CASE IsZero(a) \/ IsZero(b)
      <3>1. IsZero(n) BY <1>3, <2>4, <2>6
      <3> HIDE DEF neg
      <3>2. Number(r) /\ IsZero(r) BY <1>3, <1>5, <2>1, <2>3, <3>1, RetireZero
      <3> QED BY <2>6, <3>2 DEF r
    <2>7. CASE ~IsZero(a) /\ ~IsZero(b)
      <3>1. ~IsZero(n) BY <1>3, <2>4, <2>7
      <3>2. LeastSigPow(n.scale) = 1 BY <2>3, <2>5 DEF LeastSigPow
      <3>3. real <= n.scale
        <4>1. a.scale <= Rdx(a) * BaseDigs /\ b.scale <= Rdx(b) * BaseDigs
          <5>1. Rdx(a) = RdxOf(a.scale) /\ Rdx(b) = RdxOf(b.scale) BY <2>7 DEF Rdx
          <5> QED BY <1>1, <1>2, <5>1, RdxCovers
        <4>2. PICK e \in Nat : e = BaseDigs BY DEF Digits
        <4>3. m * e = Rdx(a) * e + Rdx(b) * e BY <1>4 DEF m
        <4>4. PICK v \in Nat, w \in Nat : v = Rdx(a) * e /\ w = Rdx(b) * e BY <1>4
        <4>5. a.scale <= v /\ b.scale <= w BY <4>1, <4>2, <4>4
        <4>6. n.scale = v + w BY <2>3, <4>2, <4>3, <4>4
        <4> HIDE DEF neg, k
        <4> QED BY <1>1, <1>2, <1>5, <4>5, <4>6
      <3> HIDE DEF neg, k
      <3> DEFINE l == RdxOf(n.scale) - RdxOf(real)
      <3>4. /\ Number(r) /\ r.scale = real /\ l \in Nat
            /\ ~IsZero(r) => r.neg = neg
            /\ Worth(Unit(l)) * Worth(r.num)
                 = Worth(n.num) - (Worth(n.num) % (Worth(Unit(l)) * LeastSigPow(real)))
        BY <1>3, <1>5, <2>1, <2>3, <3>1, <3>2, <3>3, RetireIs
      <3>5. l = k BY <2>3, <2>5 DEF k
      <3> HIDE DEF l
      <3>6. /\ k \in Nat
            /\ Worth(Unit(k)) * Worth(r.num) = q - (q % (Worth(Unit(k)) * LeastSigPow(real)))
        BY <2>3, <3>4, <3>5
      <3> QED BY <2>7, <3>4, <3>6, Zenon DEF r, real, m, k, q, neg
    <2> QED BY <2>6, <2>7
  <1> QED BY <1>7, <1>8

\* What ^ stands for, of which the provers know nothing, for a radix above 1.
Exponents ==
    /\ Radix \in Nat /\ Radix >= 2
    /\ Radix^0 = 1 /\ \A k \in Nat : Radix^(k + 1) = Radix * Radix^k
RadixTo(k) == Radix^k

\* A power from the one below.
LEMMA PowNext ==
    ASSUME Exponents
    PROVE  /\ Radix \in Nat /\ Radix >= 2 /\ RadixTo(0) = 1
           /\ \A k \in Nat : RadixTo(k + 1) = Radix * RadixTo(k)
  BY DEF Exponents, RadixTo

\* Powers are natural numbers above zero.
LEMMA PowIs ==
    ASSUME Exponents, NEW k \in Nat
    PROVE  RadixTo(k) \in Nat /\ RadixTo(k) >= 1
  <1> DEFINE T == {i \in 0..k : RadixTo(i) \in Nat /\ RadixTo(i) >= 1}
  <1>1. 0 \in T BY PowNext
  <1>2. ASSUME NEW i \in 0..(k - 1), i \in T PROVE i + 1 \in T
    <2>1. RadixTo(i + 1) = Radix * RadixTo(i) BY PowNext
    <2>2. RadixTo(i) \in Nat /\ RadixTo(i) >= 1 /\ i + 1 \in 0..k BY <1>2
    <2>3. \A x, y \in Nat : x >= 2 /\ y >= 1 => x * y \in Nat /\ x * y >= 1
      <3> TAKE x, y \in Nat
      <3> HAVE x >= 2 /\ y >= 1
      <3>1. PICK e, f \in Nat : x = e + 1 /\ y = f + 1
        <4>1. x - 1 \in Nat /\ y - 1 \in Nat /\ x = (x - 1) + 1 /\ y = (y - 1) + 1 OBVIOUS
        <4> QED BY <4>1
      <3>2. x * y = e * f + e + f + 1 /\ e * f \in Nat BY <3>1
      <3> QED BY <3>2
    <2>4. RadixTo(i + 1) \in Nat /\ RadixTo(i + 1) >= 1 BY <2>1, <2>2, <2>3, PowNext
    <2> QED BY <2>2, <2>4
  <1> HIDE DEF T
  <1>3. \A i \in 0..k : i \in T BY <1>1, <1>2, Induction
  <1> QED BY <1>3 DEF T

\* Exponents add up.
LEMMA PowSum ==
    ASSUME Exponents, NEW j \in Nat, NEW k \in Nat
    PROVE  RadixTo(k + j) = RadixTo(k) * RadixTo(j)
  <1> DEFINE T == {i \in 0..k : RadixTo(i + j) = RadixTo(i) * RadixTo(j)}
  <1>1. 0 \in T
    <2>1. 0 + j = j /\ 1 * RadixTo(j) = RadixTo(j) BY PowIs
    <2> QED BY <2>1, PowNext
  <1>2. ASSUME NEW i \in 0..(k - 1), i \in T PROVE i + 1 \in T
    <2>1. i \in Nat /\ i + j \in Nat /\ (i + 1) + j = (i + j) + 1 /\ i + 1 \in 0..k OBVIOUS
    <2>2. RadixTo(i + 1) = Radix * RadixTo(i) /\ RadixTo((i + j) + 1) = Radix * RadixTo(i + j) BY <2>1, PowNext
    <2>3. RadixTo(i + j) = RadixTo(i) * RadixTo(j) BY <1>2
    <2>4. RadixTo(i) \in Nat /\ RadixTo(j) \in Nat /\ Radix \in Nat BY <2>1, PowIs, PowNext
    <2>5. \A x, y, z \in Nat : x * (y * z) = (x * y) * z OBVIOUS
    <2>6. Radix * (RadixTo(i) * RadixTo(j)) = (Radix * RadixTo(i)) * RadixTo(j) BY <2>4, <2>5
    <2> QED BY <2>1, <2>2, <2>3, <2>6
  <1> HIDE DEF T
  <1>3. \A i \in 0..k : i \in T BY <1>1, <1>2, Induction
  <1> QED BY <1>3 DEF T

\* A product of natural numbers is above its factors.
LEMMA AboveFactors ==
    \A x, y \in Nat : x >= 1 /\ y >= 1 => x * y \in Nat /\ x * y >= x /\ x * y >= y
  <1> TAKE x, y \in Nat
  <1> HAVE x >= 1 /\ y >= 1
  <1>1. PICK e, f \in Nat : x = e + 1 /\ y = f + 1
    <2>1. x - 1 \in Nat /\ y - 1 \in Nat /\ x = (x - 1) + 1 /\ y = (y - 1) + 1 OBVIOUS
    <2> QED BY <2>1
  <1>2. x * y = e * f + e + f + 1 /\ e * f \in Nat BY <1>1
  <1> QED BY <1>1, <1>2

\* The digit that a scale ends in, and the limbs it takes.
LEMMA Placing ==
    ASSUME Digits, NEW s \in Nat
    PROVE  \E q \in Int : /\ s = BaseDigs * q + (s % BaseDigs)
                          /\ RdxOf(s) = IF s % BaseDigs = 0 THEN q ELSE q + 1
  <1>1. PICK b \in Nat \ {0} : b = BaseDigs BY DEF Digits
  <1>2. PICK q \in Int, d \in 0..(b - 1) : d = s % b /\ s = b * q + d
    <2>1. s \in Int OBVIOUS
    <2>2. s % b \in 0..(b - 1) /\ s \div b \in Int /\ s = b * (s \div b) + (s % b) BY <2>1, Quotients
    <2> QED BY <2>2
  <1>3. CASE d = 0
    <2>1. s + b - 1 = b * q + (b - 1) /\ b - 1 \in 0..(b - 1) BY <1>2, <1>3
    <2>2. (b * q + (b - 1)) \div b = q BY <2>1, RemainderIs
    <2> QED BY <1>1, <1>2, <1>3, <2>1, <2>2 DEF RdxOf
  <1>4. CASE d # 0
    <2>1. s + b - 1 = b * (q + 1) + (d - 1) /\ d - 1 \in 0..(b - 1) /\ q + 1 \in Int BY <1>2, <1>4
    <2>2. (b * (q + 1) + (d - 1)) \div b = q + 1 BY <2>1, RemainderIs
    <2> QED BY <1>1, <1>2, <1>4, <2>1, <2>2 DEF RdxOf
  <1> QED BY <1>3, <1>4

\* So the base of a limb is a base, and the digits cut from a limb divide it.
LEMMA BaseIs ==
    ASSUME Digits, Exponents
    PROVE  /\ Based /\ Places /\ BasePow = RadixTo(BaseDigs)
           /\ \A s, t \in Nat : s <= t /\ RdxOf(s) = RdxOf(t) =>
                \E c \in Nat : LeastSigPow(s) = LeastSigPow(t) * c
           /\ \A k \in 0..BaseDigs : BasePow = RadixTo(k) * RadixTo(BaseDigs - k)
  <1>1. PICK b \in Nat \ {0} : b = BaseDigs BY DEF Digits
  <1>2. BasePow = RadixTo(b) BY <1>1 DEF BasePow, RadixTo
  <1>3. \A k \in 0..b : b - k \in Nat /\ RadixTo(b) = RadixTo(k) * RadixTo(b - k)
    <2> TAKE k \in 0..b
    <2>1. PICK j \in Nat : j = b - k /\ k + j = b
      <3>1. b - k \in Nat /\ k + (b - k) = b OBVIOUS
      <3> QED BY <3>1
    <2> QED BY <2>1, PowSum
  <1>4. Based
    <2>1. PICK c \in Nat : b = c + 1
      <3>1. b - 1 \in Nat /\ b = (b - 1) + 1 OBVIOUS
      <3> QED BY <3>1
    <2>2. RadixTo(b) = Radix * RadixTo(c) BY <2>1, PowNext
    <2>3. RadixTo(c) \in Nat /\ RadixTo(c) >= 1 BY PowIs
    <2>4. Radix * RadixTo(c) \in Nat /\ Radix * RadixTo(c) >= Radix BY <2>3, PowNext, AboveFactors
    <2> QED BY <1>2, <2>2, <2>4, PowNext DEF Based
  <1>5. ASSUME NEW s \in Nat
        PROVE  /\ s % b \in 0..(b - 1)
               /\ b - (s % b) \in Nat
               /\ LeastSigPow(s) = IF s % b = 0 THEN 1 ELSE RadixTo(b - (s % b))
    <2>1. s % b \in 0..(b - 1) BY Quotients
    <2>2. \A x \in 0..(b - 1) : b - x \in Nat OBVIOUS
    <2>3. LeastSigPow(s) = IF s % b = 0 THEN 1 ELSE RadixTo(b - (s % b)) BY <1>1 DEF LeastSigPow, RadixTo
    <2> QED BY <2>1, <2>2, <2>3
  <1>6. Places
    <2> SUFFICES ASSUME NEW s \in Nat
                 PROVE  LeastSigPow(s) \in Nat \ {0} /\ \E c \in Nat : BasePow = LeastSigPow(s) * c
      BY DEF Places
    <2>1. PICK e \in 0..(b - 1) : e = s % b /\ b - e \in Nat /\ LeastSigPow(s) = IF e = 0 THEN 1 ELSE RadixTo(b - e)
      BY <1>5
    <2>2. CASE e = 0
      <3>1. RadixTo(b) \in Nat /\ RadixTo(b) = 1 * RadixTo(b) BY PowIs
      <3> QED BY <1>2, <2>1, <2>2, <3>1
    <2>3. CASE e # 0
      <3>1. b - e \in 0..b /\ b - (b - e) = e OBVIOUS
      <3>2. RadixTo(b) = RadixTo(b - e) * RadixTo(e) BY <1>3, <3>1
      <3>3. RadixTo(e) \in Nat /\ RadixTo(b - e) \in Nat /\ RadixTo(b - e) >= 1 BY <2>1, PowIs
      <3> QED BY <1>2, <2>1, <2>3, <3>2, <3>3
    <2> QED BY <2>2, <2>3
  <1>7. ASSUME NEW s \in Nat, NEW t \in Nat, s <= t, RdxOf(s) = RdxOf(t)
        PROVE  \E c \in Nat : LeastSigPow(s) = LeastSigPow(t) * c
    <2>1. PICK d \in 0..(b - 1) : d = s % b /\ b - d \in Nat /\ LeastSigPow(s) = IF d = 0 THEN 1 ELSE RadixTo(b - d)
      BY <1>5
    <2>2. PICK e \in 0..(b - 1) : e = t % b /\ b - e \in Nat /\ LeastSigPow(t) = IF e = 0 THEN 1 ELSE RadixTo(b - e)
      BY <1>5
    <2>3. e = 0 \/ (d # 0 /\ d <= e)
      <3>1. PICK q \in Int : s = b * q + d /\ RdxOf(s) = IF d = 0 THEN q ELSE q + 1 BY <1>1, <2>1, Placing
      <3>2. PICK r \in Int : t = b * r + e /\ RdxOf(t) = IF e = 0 THEN r ELSE r + 1 BY <1>1, <2>2, Placing
      <3> SUFFICES ASSUME e # 0 PROVE d # 0 /\ d <= e OBVIOUS
      <3>5. CASE d = 0
        <4>1. q = r + 1 BY <1>7, <3>1, <3>2, <3>5
        <4>2. s = b * r + b BY <3>1, <3>5, <4>1
        <4> DEFINE z == b * r
        <4>3. z \in Int OBVIOUS
        <4> HIDE DEF z
        <4>4. s = z + b /\ t = z + e BY <3>2, <4>2 DEF z
        <4> QED BY <1>7, <4>3, <4>4
      <3>6. CASE d # 0
        <4>4. q + 1 = r + 1 BY <1>7, <3>1, <3>2, <3>6
        <4>1. q = r BY <4>4
        <4> DEFINE z == b * r
        <4>2. z \in Int OBVIOUS
        <4> HIDE DEF z
        <4>3. s = z + d /\ t = z + e BY <3>1, <3>2, <4>1 DEF z
        <4> QED BY <1>7, <3>6, <4>2, <4>3
      <3> QED BY <3>5, <3>6
    <2>4. LeastSigPow(s) \in Nat BY <1>6 DEF Places
    <2>5. CASE e = 0
      <3>1. LeastSigPow(s) = 1 * LeastSigPow(s) BY <2>4
      <3> QED BY <2>2, <2>4, <2>5, <3>1
    <2>6. CASE e # 0
      <3>1. PICK f \in Nat : f = e - d /\ b - d = (b - e) + f
        <4>1. e - d \in Nat /\ b - d = (b - e) + (e - d) BY <2>3, <2>6
        <4> QED BY <4>1
      <3>2. RadixTo(b - d) = RadixTo(b - e) * RadixTo(f) BY <2>2, <3>1, PowSum
      <3>3. RadixTo(f) \in Nat BY PowIs
      <3> QED BY <2>1, <2>2, <2>3, <2>6, <3>2, <3>3
    <2> QED BY <2>5, <2>6
  <1> QED BY <1>1, <1>2, <1>3, <1>4, <1>6, <1>7

\* The leading limb of a divisor can be brought up to the upper part of a limb, by
\* less than a limb.
LEMMA RaisedTop ==
    ASSUME Digits, Exponents, NEW top \in Digit, top # 0
    PROVE  /\ \E k \in 0..BaseDigs : top * RadixTo(k) \in (BasePow \div Radix)..(BasePow - 1)
           /\ \A k \in 0..BaseDigs : top * RadixTo(k) \in (BasePow \div Radix)..(BasePow - 1) => k \in 0..(BaseDigs - 1)
  <1>1. PICK b \in Nat \ {0} : b = BaseDigs BY DEF Digits
  <1>2. BasePow \in Nat /\ BasePow > 1 /\ BasePow = RadixTo(b) BY <1>1, BaseIs DEF Based
  <1>3. top \in Nat /\ top >= 1 /\ top < BasePow BY <1>2 DEF Digit
  <1>4. \A k \in 0..b : RadixTo(k) \in Nat /\ RadixTo(k) >= 1 /\ top * RadixTo(k) \in Nat /\ top * RadixTo(k) >= RadixTo(k)
    <2> TAKE k \in 0..b
    <2>1. RadixTo(k) \in Nat /\ RadixTo(k) >= 1 BY PowIs
    <2> QED BY <1>3, <2>1, AboveFactors
  <1>5. top * RadixTo(b) >= BasePow BY <1>2, <1>4
  <1>6. \A k \in 0..b : top * RadixTo(k) \in (BasePow \div Radix)..(BasePow - 1) => k \in 0..(b - 1)
    <2> TAKE k \in 0..b
    <2> HAVE top * RadixTo(k) \in (BasePow \div Radix)..(BasePow - 1)
    <2>1. top * RadixTo(k) < BasePow BY <1>2, <1>4
    <2>2. k # b BY <1>2, <1>4, <1>5, <2>1
    <2> QED BY <2>2
  <1> DEFINE S == {k \in 0..b : top * RadixTo(k) < BasePow}
  <1>7. S \in SUBSET (0..b) /\ 0 \in S
    <2>1. top * RadixTo(0) = top BY <1>3, PowNext
    <2> QED BY <1>3, <2>1
  <1>8. PICK m \in S : \A k \in S : k <= m
    <2>1. Max(S) \in S /\ \A x \in S : x <= Max(S) BY <1>7, MaxIs
    <2> QED BY <2>1
  <1>9. m \in 0..b /\ top * RadixTo(m) < BasePow /\ top * RadixTo(m) \in Nat BY <1>4, <1>8
  <1>10. m # b BY <1>2, <1>4, <1>5, <1>9
  <1>11. top * RadixTo(m + 1) >= BasePow
    <2>1. PICK n \in Nat : n = m + 1 /\ n \in 0..b BY <1>9, <1>10
    <2>2. n \notin S BY <1>8, <1>9, <2>1
    <2>3. ~(top * RadixTo(n) < BasePow) BY <2>1, <2>2
    <2> QED BY <1>2, <1>4, <2>1, <2>3
  <1>12. top * RadixTo(m + 1) = Radix * (top * RadixTo(m))
    <2>1. m \in Nat /\ RadixTo(m) \in Nat /\ Radix \in Nat BY <1>4, <1>9, PowNext
    <2>2. RadixTo(m + 1) = Radix * RadixTo(m) BY <2>1, PowNext
    <2>3. \A x, y, z \in Nat : x * (y * z) = y * (x * z) OBVIOUS
    <2>4. top * (Radix * RadixTo(m)) = Radix * (top * RadixTo(m)) BY <1>3, <2>1, <2>3
    <2> QED BY <2>2, <2>4
  <1>13. BasePow \div Radix \in 0..(top * RadixTo(m))
    <2> DEFINE z == top * RadixTo(m)
    <2>1. z \in Nat /\ Radix * z >= BasePow BY <1>9, <1>11, <1>12
    <2> HIDE DEF z
    <2>2. PICK x \in Nat : x = Radix /\ x >= 2 BY PowNext
    <2>3. x * 0 <= BasePow BY <1>2
    <2>4. BasePow < x * (z + 1)
      <3>1. x * (z + 1) = x * z + x /\ x * z \in Nat BY <2>1
      <3> QED BY <1>2, <2>1, <2>2, <3>1
    <2>5. BasePow \div x \in 0..z BY <1>2, <2>1, <2>2, <2>3, <2>4, QuotientBounds
    <2> QED BY <2>2, <2>5 DEF z
  <1>14. top * RadixTo(m) \in (BasePow \div Radix)..(BasePow - 1) BY <1>2, <1>9, <1>13
  <1> HIDE DEF S
  <1> QED BY <1>1, <1>6, <1>9, <1>14

\* bc_num_shift(): a shift by less than a limb divides, and drops what is below.
LEMMA ShiftIs ==
    ASSUME Digits, Exponents, NEW a \in Seq(Digit), NEW d \in 0..BaseDigs
    PROVE  LET s == Shift(a, d)
           IN  /\ s \in Seq(Digit) /\ Len(s) = Len(a)
               /\ Worth(a) = RadixTo(d) * Worth(s) + (Limb(a, 1) % RadixTo(d))
  <1> DEFINE q == RadixTo(d)  g == RadixTo(BaseDigs - d)  n == Len(a)  s == Shift(a, d)
             lo == [i \in 1..n |-> Limb(a, i) % q]
             up == [i \in 1..n |-> Limb(a, i + 1) % q]
             t == [i \in 1..n |-> Limb(a, i) - lo[i]]
             v == [i \in 1..n |-> t[i] + BasePow * up[i]]
  <1>1. /\ Based /\ BasePow = q * g /\ q \in Nat \ {0} /\ g \in Nat \ {0} /\ BasePow \in Nat
    <2>1. PICK b \in Nat : b = BaseDigs BY DEF Digits
    <2>2. d \in Nat /\ b - d \in Nat BY <2>1
    <2>3. RadixTo(d) \in Nat /\ RadixTo(d) >= 1 /\ RadixTo(b - d) \in Nat /\ RadixTo(b - d) >= 1 BY <2>2, PowIs
    <2>4. Based /\ BasePow = RadixTo(d) * RadixTo(BaseDigs - d) BY BaseIs
    <2>5. BasePow \in Nat BY <2>4 DEF Based
    <2> QED BY <2>1, <2>3, <2>4, <2>5
  <1>2. n \in Nat /\ DOMAIN a = 1..n /\ a \in Seq(Int) /\ \A i \in Nat : Limb(a, i) \in Digit
    BY <1>1, DomainIs, DigitIsInt
  <1>3. s = [i \in 1..n |-> a[i] \div q + (Limb(a, i + 1) % q) * g] BY <1>2 DEF Shift, RadixTo
  <1>4. \A i \in 1..n : Limb(a, i) = a[i] BY <1>1, DomainIs
  <1> HIDE DEF q, g, n, s
  <1>5. \A x \in Nat : x % q \in 0..(q - 1) /\ x \div q \in Int /\ x = q * (x \div q) + (x % q)
    <2> TAKE x \in Nat
    <2>1. x \in Int OBVIOUS
    <2> QED BY <1>1, <2>1, Quotients
  <1>24. \A x \in Digit : x \in Nat /\ x \in Int /\ x < BasePow BY <1>1 DEF Digit
  <1>6. \A i \in Nat : Limb(a, i) \in Nat /\ Limb(a, i) < BasePow BY <1>2, <1>24
  <1>7. \A i \in 1..n : i \in Nat /\ i + 1 \in Nat BY <1>2
  <1>8. \A i \in 1..n : lo[i] \in 0..(q - 1) /\ up[i] \in 0..(q - 1) BY <1>5, <1>6, <1>7
  <1>9. \A i \in 1..n : s[i] \in Digit /\ q * s[i] = v[i] /\ t[i] \in Int /\ v[i] \in Int
    <2> TAKE i \in 1..n
    <2> DEFINE x == Limb(a, i)  h == x \div q  l == lo[i]  m == up[i]
    <2>1. x \in Nat /\ x < q * g BY <1>1, <1>6, <1>7
    <2>2. h \in Int /\ l \in 0..(q - 1) /\ m \in 0..(q - 1) /\ x = q * h + l BY <1>5, <1>8, <2>1
    <2>3. s[i] = h + m * g BY <1>3, <1>4
    <2>4. t[i] = x - l /\ v[i] = (x - l) + BasePow * m OBVIOUS
    <2>5. h \in 0..(g - 1)
      <3>1. PICK f \in Nat : f = g - 1 /\ g = f + 1
        <4>1. g - 1 \in Nat /\ g = (g - 1) + 1 BY <1>1
        <4> QED BY <4>1
      <3>2. q * 0 <= x BY <1>1, <2>1
      <3>3. x < q * (f + 1) BY <2>1, <3>1
      <3> HIDE DEF x
      <3>4. x \div q \in 0..f BY <1>1, <2>1, <3>1, <3>2, <3>3, QuotientBounds
      <3> QED BY <3>1, <3>4
    <2> HIDE DEF x, h, l, m, lo, up, t, v
    <2>6. m * g \in Nat /\ m * g <= q * g - g
      <3>1. PICK f \in Nat : q = (m + f) + 1
        <4>1. (q - 1) - m \in Nat /\ q = (m + ((q - 1) - m)) + 1 BY <1>1, <2>2
        <4> QED BY <4>1
      <3>2. m \in Nat BY <1>1, <2>2
      <3>3. q * g = m * g + f * g + g /\ m * g \in Nat /\ f * g \in Nat BY <1>1, <3>1, <3>2
      <3> QED BY <1>1, <3>3
    <2>7. s[i] \in 0..(BasePow - 1)
      <3> DEFINE e == m * g
      <3>1. e \in Nat /\ e <= BasePow - g BY <1>1, <2>6
      <3> HIDE DEF e
      <3>2. h + e \in 0..(BasePow - 1) BY <1>1, <2>5, <3>1
      <3> QED BY <2>3, <3>2 DEF e
    <2>8. q * s[i] = v[i]
      <3>1. m \in Nat /\ h \in Nat /\ l \in Nat BY <1>1, <2>2, <2>5
      <3>2. \A w, y, z, k, o \in Nat : w * (y + z * k) = ((w * y + o) - o) + (w * k) * z OBVIOUS
      <3>3. q * (h + m * g) = ((q * h + l) - l) + (q * g) * m BY <1>1, <3>1, <3>2
      <3> QED BY <1>1, <2>2, <2>3, <2>4, <3>3
    <2>9. t[i] \in Int BY <1>1, <2>1, <2>2, <2>4
    <2>10. v[i] \in Int
      <3>1. m \in Int /\ l \in Int BY <2>2
      <3>2. BasePow * m \in Int BY <1>1, <3>1
      <3> QED BY <2>1, <2>4, <3>1, <3>2
    <2> QED BY <2>7, <2>8, <2>9, <2>10 DEF Digit
  <1>10. s \in Seq(Digit) /\ Len(s) = n /\ \A i \in 1..n : Limb(s, i) = s[i]
    <2>1. s \in [1..n -> Digit]
      <3>1. s = [i \in 1..n |-> s[i]] BY <1>3
      <3> QED BY <1>9, <3>1
    <2> QED BY <1>2, <2>1, ArrayOf
  <1>11. lo \in Seq(Int) /\ Len(lo) = n /\ \A i \in 1..n : Limb(lo, i) = lo[i]
    <2>1. lo \in [1..n -> Int] BY <1>8, <1>1
    <2> HIDE DEF lo
    <2> QED BY <1>2, <2>1, ArrayOf
  <1>12. up \in Seq(Int) /\ Len(up) = n /\ \A i \in 1..n : Limb(up, i) = up[i]
    <2>1. up \in [1..n -> Int] BY <1>8, <1>1
    <2> HIDE DEF up
    <2> QED BY <1>2, <2>1, ArrayOf
  <1>13. t \in Seq(Int) /\ Len(t) = n /\ \A i \in 1..n : Limb(t, i) = t[i]
    <2>1. t \in [1..n -> Int] BY <1>9
    <2> HIDE DEF t
    <2> QED BY <1>2, <2>1, ArrayOf
  <1>14. v \in Seq(Int) /\ Len(v) = n /\ \A i \in 1..n : Limb(v, i) = v[i]
    <2>1. v \in [1..n -> Int] BY <1>9
    <2> HIDE DEF v
    <2> QED BY <1>2, <2>1, ArrayOf
  <1>15. s \in Seq(Int) BY <1>1, <1>10, DigitIsInt
  <1>16. /\ \A i \in 1..n : Limb(t, i) = 1 * Limb(a, i) + (-1) * Limb(lo, i)
         /\ \A i \in 1..n : Limb(v, i) = 1 * Limb(t, i) + BasePow * Limb(up, i)
         /\ \A i \in 1..n : Limb(v, i) = q * Limb(s, i) + 0 * Limb(s, i)
    <2>1. ASSUME NEW i \in 1..n
          PROVE  /\ Limb(t, i) = 1 * Limb(a, i) + (-1) * Limb(lo, i)
                 /\ Limb(v, i) = 1 * Limb(t, i) + BasePow * Limb(up, i)
                 /\ Limb(v, i) = q * Limb(s, i) + 0 * Limb(s, i)
      <3>1. t[i] = Limb(a, i) - lo[i] /\ v[i] = t[i] + BasePow * up[i] OBVIOUS
      <3> HIDE DEF t, v, lo, up
      <3>6. s[i] \in Int /\ q * s[i] = v[i] /\ t[i] \in Int /\ v[i] \in Int BY <1>9, <1>24
      <3>7. lo[i] \in 0..(q - 1) BY <1>8
      <3>8. lo[i] \in Int BY <3>7
      <3>9. Limb(a, i) \in Int BY <1>6, <1>7
      <3>2. s[i] \in Int /\ q * s[i] = v[i] /\ t[i] \in Int /\ v[i] \in Int /\ lo[i] \in Int /\ Limb(a, i) \in Int
        BY <3>6, <3>8, <3>9
      <3>3. Limb(t, i) = 1 * Limb(a, i) + (-1) * Limb(lo, i) BY <1>11, <1>13, <3>1, <3>2
      <3>4. Limb(v, i) = 1 * Limb(t, i) + BasePow * Limb(up, i) BY <1>12, <1>13, <1>14, <3>1, <3>2
      <3>5. Limb(v, i) = q * Limb(s, i) + 0 * Limb(s, i) BY <1>10, <1>14, <3>2
      <3> QED BY <3>3, <3>4, <3>5
    <2> QED BY <2>1
  <1>17. Limb(lo, 1) = Limb(a, 1) % q /\ \A i \in 1..n : Limb(lo, i + 1) = Limb(up, i)
    <2>1. \A i \in 1..n : i \in 1..n /\ lo[i] = Limb(a, i) % q /\ up[i] = Limb(a, i + 1) % q OBVIOUS
    <2>2. 0 % q = 0 BY <1>1
    <2>3. DOMAIN lo = 1..n OBVIOUS
    <2> HIDE DEF lo, up
    <2>4. \A i \in Nat \ {0} : Limb(lo, i) = Limb(a, i) % q
      <3> TAKE i \in Nat \ {0}
      <3>1. CASE i <= n BY <1>2, <1>11, <2>1, <3>1
      <3>2. CASE i > n
        <4>1. i \notin DOMAIN lo /\ i \notin DOMAIN a BY <1>2, <2>3, <3>2
        <4> QED BY <2>2, <4>1 DEF Limb
      <3> QED BY <1>2, <3>1, <3>2
    <2>5. ASSUME NEW i \in 1..n PROVE Limb(lo, i + 1) = Limb(up, i)
      <3>1. i + 1 \in Nat \ {0} BY <1>2
      <3> QED BY <1>12, <2>1, <2>4, <3>1
    <2> QED BY <2>4, <2>5
  <1> HIDE DEF lo, up, t, v
  <1>23. n >= Len(a) /\ n >= Len(lo) /\ n >= Len(up) /\ n >= Len(t) /\ n >= Len(v) /\ n >= Len(s)
    BY <1>2, <1>10, <1>11, <1>12, <1>13, <1>14 DEF n
  <1>18. Worth(t) = 1 * Worth(a) + (-1) * Worth(lo)
    <2>1. 1 \in Int /\ -1 \in Int OBVIOUS
    <2>2. \A i \in 1..n : Limb(t, i) = 1 * Limb(a, i) + (-1) * Limb(lo, i) BY <1>16
    <2> QED BY <1>1, <1>2, <1>11, <1>13, <1>23, <2>1, <2>2, Linear, SMTT(60)
  <1>19. Worth(v) = 1 * Worth(t) + BasePow * Worth(up)
    <2>1. 1 \in Int /\ BasePow \in Int BY <1>1
    <2>2. \A i \in 1..n : Limb(v, i) = 1 * Limb(t, i) + BasePow * Limb(up, i) BY <1>16
    <2> QED BY <1>1, <1>2, <1>12, <1>13, <1>14, <1>23, <2>1, <2>2, Linear, SMTT(60)
  <1>20. Worth(v) = q * Worth(s) + 0 * Worth(s)
    <2>1. 0 \in Int /\ q \in Int BY <1>1
    <2>2. \A i \in 1..n : Limb(v, i) = q * Limb(s, i) + 0 * Limb(s, i) BY <1>16
    <2> QED BY <1>1, <1>2, <1>14, <1>15, <1>23, <2>1, <2>2, Linear, SMTT(60)
  <1>21. Worth(lo) = Limb(lo, 1) + BasePow * Worth(up)
    <2>1. Limb(lo, 1) \in Int
      <3>1. Limb(a, 1) % q \in 0..(q - 1) BY <1>5, <1>6
      <3> QED BY <1>17, <1>1, <3>1
    <2>2. n >= Len(up) /\ n + 1 >= Len(lo) BY <1>2, <1>11, <1>12
    <2>3. \A i \in 1..n : Limb(lo, i + 1) = Limb(up, i) BY <1>17
    <2> QED BY <1>1, <1>2, <1>11, <1>12, <2>1, <2>2, <2>3, OneBelow
  <1>22. Worth(a) = q * Worth(s) + (Limb(a, 1) % q)
    <2> DEFINE wa == Worth(a)  ws == Worth(s)  wl == Worth(lo)  wu == Worth(up)  wt == Worth(t)  r == Limb(a, 1) % q
               y == BasePow * wu  z == q * ws
    <2>1. wa \in Int /\ ws \in Int /\ wl \in Int /\ wu \in Int /\ wt \in Int /\ Worth(v) \in Int
      BY <1>1, <1>2, <1>11, <1>12, <1>13, <1>14, <1>15, WorthIsInt
    <2>2. r \in Int
      <3>1. r \in 0..(q - 1) BY <1>5, <1>6
      <3> HIDE DEF r
      <3> QED BY <1>1, <3>1
    <2>3. y \in Int /\ z \in Int BY <1>1, <2>1
    <2>4. wl = r + y BY <1>17, <1>21
    <2>5. wt = wa - wl BY <1>18, <2>1
    <2>6. Worth(v) = wt + y BY <1>19, <2>1, <2>3
    <2>7. Worth(v) = z BY <1>20, <2>1, <2>3
    <2> HIDE DEF wa, ws, wl, wu, wt, r, y, z
    <2>8. wa = z + r BY <2>1, <2>2, <2>3, <2>4, <2>5, <2>6, <2>7
    <2> QED BY <2>8 DEF wa, r, z, ws
  <1> QED BY <1>10, <1>22 DEF q, s, n

\* bc_num_clean() does not make a number longer than its limbs and its scale are.
LEMMA WithLimbsIs ==
    ASSUME Based, Digits, NEW neg \in BOOLEAN, NEW scale \in Nat, NEW a \in Seq(Digit)
    PROVE  LET r == Clean(Num(neg, scale, a))
           IN  /\ Len(r.num) <= Bigger(Len(a), RdxOf(scale))
               /\ scale = 0 => Proper(r.num)
  <1> DEFINE r == Clean(Num(neg, scale, a))  s == Strip(a)  x == RdxOf(scale)
  <1>1. s \in Seq(Digit) /\ Len(s) <= Len(a) /\ Proper(s) BY Stripped, StripIs
  <1>2. Len(s) \in Nat /\ Len(a) \in Nat BY <1>1, DomainIs
  <1>3. x \in Nat BY RdxGrows
  <1>4. Bigger(Len(a), x) >= Len(a) /\ Bigger(Len(a), x) >= x /\ Bigger(Len(a), x) \in Nat BY <1>2, <1>3, BiggerIs
  <1>5. r.num = IF s = <<>> THEN <<>> ELSE s \o Zeros(Bigger(0, x - Len(s)))
    <2> DEFINE m == Num(neg, scale, a)
    <2>1. m = [neg |-> neg, scale |-> scale, num |-> a] BY DEF Num
    <2>2. m.num = a /\ m.scale = scale BY <2>1
    <2>3. r = IF s = <<>> THEN Zero(m.scale) ELSE [m EXCEPT !.num = s \o Zeros(Bigger(0, RdxOf(m.scale) - Len(s)))]
      BY <2>2 DEF Clean, WithLimbs
    <2>4. CASE s = <<>> BY <2>2, <2>3, <2>4, ZeroIs
    <2>5. CASE s # <<>>
      <3> DEFINE y == s \o Zeros(Bigger(0, x - Len(s)))
      <3> HIDE DEF s, y
      <3>1. r = [m EXCEPT !.num = y] BY <2>2, <2>3, <2>5 DEF y
      <3>2. r.num = y BY <2>1, <3>1
      <3> QED BY <2>5, <3>2 DEF y
    <2> QED BY <2>4, <2>5
  <1> HIDE DEF r, x, s
  <1>6. CASE s = <<>>
    <2>1. r.num = <<>> /\ Len(r.num) = 0 BY <1>5, <1>6
    <2>2. Proper(r.num) BY <2>1, EmptyWorth DEF Proper
    <2> QED BY <1>2, <1>4, <2>1, <2>2 DEF r, x
  <1>7. CASE s # <<>>
    <2>1. PICK k \in Nat : k = Bigger(0, x - Len(s)) /\ (k = 0 \/ k = x - Len(s))
      <3>1. Bigger(0, x - Len(s)) \in Nat /\ (Bigger(0, x - Len(s)) = 0 \/ Bigger(0, x - Len(s)) = x - Len(s))
        BY <1>2, <1>3 DEF Bigger
      <3> QED BY <3>1
    <2>2. r.num = s \o Zeros(k) BY <1>5, <1>7, <2>1
    <2>3. Len(s \o Zeros(k)) = Len(s) + k BY <1>1, ZerosAbove
    <2>4. Len(r.num) <= Bigger(Len(a), x)
      <3>1. Len(s) + k <= Len(a) \/ Len(s) + k <= x BY <1>1, <1>2, <1>3, <2>1
      <3> QED BY <1>2, <1>3, <1>4, <2>2, <2>3, <3>1
    <2>5. ASSUME scale = 0 PROVE Proper(r.num)
      <3>1. x = 0 BY <2>5, NoRdx DEF x
      <3>2. k = 0
        <4>1. k = 0 \/ k = 0 - Len(s) BY <2>1, <3>1
        <4> QED BY <1>2, <4>1
      <3>3. Zeros(0) = <<>> BY DEF Zeros
      <3>4. r.num = s BY <1>1, <2>2, <3>2, <3>3
      <3> QED BY <1>1, <3>4
    <2> QED BY <2>4, <2>5 DEF r, x
  <1> QED BY <1>6, <1>7

\* bc_num_shiftLeft() of a number with whole limbs behind its point, by less than a
\* limb: a limb is put below and the rest divided.
LEMMA ShiftLeftIs ==
    ASSUME Digits, Exponents, NEW neg \in BOOLEAN, NEW d \in Nat, NEW a \in Seq(Digit),
           a # <<>>, d <= Len(a), NEW k \in 0..(BaseDigs - 1)
    PROVE  LET r == ShiftLeft(Num(neg, d * BaseDigs, a), k).num
           IN  /\ r \in Seq(Digit) /\ Len(r) <= Len(a) + 1
               /\ Worth(r) = RadixTo(k) * Worth(a)
               /\ d = 0 /\ Proper(a) => Proper(r)
  <1> DEFINE n == Num(neg, d * BaseDigs, a)  r == ShiftLeft(n, k).num
             z == Zeros(1) \o a  s == Shift(z, BaseDigs - k)  scale == Bigger(0, n.scale - k)
  <1>1. Based /\ n = [neg |-> neg, scale |-> d * BaseDigs, num |-> a] BY BaseIs DEF Num
  <1>2. n.neg = neg /\ n.scale = d * BaseDigs /\ n.num = a BY <1>1
  <1>3. PICK b \in Nat \ {0} : b = BaseDigs BY DEF Digits
  <1>4. /\ RdxOf(d * BaseDigs) = d /\ (d * BaseDigs) % BaseDigs = 0 /\ d * BaseDigs \in Nat
    BY RdxCovers
  <1>5. Rdx(n) = d /\ ~IsZero(n) BY <1>2, <1>4 DEF Rdx, IsZero
  <1>6. Len(a) \in Nat /\ Len(a) >= 1 BY <1>1, DomainIs
  <1>7. k \in Nat /\ k < b BY <1>3
  <1> HIDE DEF n
  <1>8. CASE k = 0
    <2>1. r = a BY <1>2, <1>8 DEF ShiftLeft
    <2>2. Worth(a) = RadixTo(0) * Worth(a)
      <3>1. Worth(a) \in Nat BY <1>1, WorthIsNat
      <3> QED BY <3>1, PowNext
    <2> HIDE DEF r
    <2>3. Len(r) <= Len(a) + 1 BY <1>6, <2>1
    <2> QED BY <1>8, <2>1, <2>2, <2>3 DEF r, n
  <1>9. CASE k # 0
    <2>1. k % BaseDigs = k
      <3>1. k = b * 0 + k /\ k \in 0..(b - 1) /\ 0 \in Int BY <1>7
      <3> QED BY <1>3, <3>1, RemainderIs
    <2>2. RdxOf(k) = 1
      <3>1. k + b - 1 = b * 1 + (k - 1) /\ k - 1 \in 0..(b - 1) /\ 1 \in Int BY <1>7, <1>9
      <3>2. (b * 1 + (k - 1)) \div b = 1 BY <3>1, RemainderIs
      <3> QED BY <1>3, <3>1, <3>2 DEF RdxOf
    <2>3. LimbsLeft(n, k) = 1
      <3>1. BaseDigs + (BaseDigs - k) > BaseDigs BY <1>3, <1>7
      <3>2. d >= 1 \/ n.scale = 0
        <4>1. 0 * BaseDigs = 0 BY <1>3
        <4> QED BY <1>2, <4>1
      <3>3. ~(d < 1) \/ n.scale = 0 BY <3>2
      <3> HIDE DEF n
      <3> QED BY <1>2, <1>4, <1>5, <1>9, <2>1, <2>2, <3>1, <3>3 DEF LimbsLeft
    <2>4. scale \in Nat /\ scale <= n.scale /\ (n.scale = 0 => scale = 0)
      <3>1. n.scale \in Nat BY <1>2, <1>4
      <3> QED BY <1>7, <3>1 DEF Bigger
    <2>5. r = Clean(Num(neg, scale, s)).num
      <3> HIDE DEF scale
      <3>1. scale = Bigger(0, n.scale - k) BY DEF scale
      <3> QED BY <1>2, <1>5, <1>9, <2>1, <2>3, <3>1 DEF ShiftLeft
    <2>6. z \in Seq(Digit) /\ Len(z) = 1 + Len(a) /\ Limb(z, 1) = 0 /\ Worth(z) = BasePow * Worth(a)
      <3>1. 1 \in Nat \ {0} /\ 1 \in Nat OBVIOUS
      <3>2. z \in Seq(Digit) /\ Len(z) = 1 + Len(a) /\ Limb(z, 1) = IF 1 <= 1 THEN 0 ELSE Limb(a, 1 - 1)
        BY <1>1, <3>1, ZerosBelow
      <3>3. Worth(z) = Worth(Unit(1)) * Worth(a) BY <1>1, <3>1, ZerosWorth
      <3>4. Worth(Unit(1)) = BasePow
        <4>1. Worth(Unit(0 + 1)) = BasePow * Worth(Unit(0)) BY <1>1, UnitNext
        <4>2. 0 + 1 = 1 /\ BasePow * 1 = BasePow BY <1>1 DEF Based
        <4> QED BY <1>1, <4>1, <4>2, UnitZero
      <3> QED BY <3>2, <3>3, <3>4
    <2> HIDE DEF z
    <2> DEFINE e == b - k
    <2>7. e \in Nat /\ e \in 0..BaseDigs /\ BaseDigs - e = k BY <1>3, <1>7
    <2>8. s = Shift(z, e) BY <1>3
    <2> HIDE DEF s, e
    <2>9. s \in Seq(Digit) /\ Len(s) = Len(a) + 1 /\ Worth(s) = RadixTo(k) * Worth(a)
      <3>1. /\ s \in Seq(Digit) /\ Len(s) = Len(z)
            /\ Worth(z) = RadixTo(e) * Worth(s) + (Limb(z, 1) % RadixTo(e))
        BY <2>6, <2>7, <2>8, ShiftIs
      <3>2. PICK q \in Nat \ {0} : q = RadixTo(e)
        <4>1. RadixTo(e) \in Nat /\ RadixTo(e) >= 1 BY <2>7, PowIs
        <4> QED BY <4>1
      <3>3. 0 % q = 0 OBVIOUS
      <3>4. Worth(s) \in Nat /\ Worth(a) \in Nat /\ RadixTo(k) \in Nat BY <1>1, <1>7, <3>1, WorthIsNat, PowIs
      <3>5. BasePow * Worth(a) = q * Worth(s)
        <4>1. q * Worth(s) \in Nat BY <3>4
        <4> QED BY <2>6, <3>1, <3>2, <3>3, <4>1
      <3>6. BasePow = q * RadixTo(k) BY <2>7, <3>2, BaseIs
      <3>7. q * (RadixTo(k) * Worth(a)) = q * Worth(s)
        <4>1. \A x, y, w \in Nat : (x * y) * w = x * (y * w) OBVIOUS
        <4>2. (q * RadixTo(k)) * Worth(a) = q * (RadixTo(k) * Worth(a)) BY <3>4, <4>1
        <4> QED BY <3>5, <3>6, <4>2
      <3>8. \A x, y \in Nat : q * x = q * y => x = y
        <4> TAKE x, y \in Nat
        <4> HAVE q * x = q * y
        <4>1. (q * x + 0) \div q = x /\ (q * y + 0) \div q = y
          <5>1. 0 \in 0..(q - 1) /\ x \in Int /\ y \in Int OBVIOUS
          <5> QED BY <5>1, RemainderIs
        <4> QED BY <4>1
      <3>9. RadixTo(k) * Worth(a) \in Nat BY <3>4
      <3>10. Worth(s) = RadixTo(k) * Worth(a) BY <3>4, <3>7, <3>8, <3>9
      <3> QED BY <1>6, <2>6, <3>1, <3>10
    <2>10. r \in Seq(Digit) /\ Worth(r) = Worth(s) BY <1>1, <2>4, <2>5, <2>9, CleanWorth
    <2>11. Len(r) <= Len(a) + 1
      <3>1. Len(r) <= Bigger(Len(s), RdxOf(scale)) BY <1>1, <2>4, <2>5, <2>9, WithLimbsIs
      <3>2. RdxOf(scale) \in Nat /\ RdxOf(scale) <= d
        <4>1. n.scale \in Nat /\ RdxOf(n.scale) = d BY <1>2, <1>4
        <4> QED BY <2>4, <4>1, RdxGrows
      <3> HIDE DEF scale, r
      <3>3. Len(s) \in Nat /\ Len(r) \in Nat BY <1>1, <2>9, <2>10, DomainIs
      <3>4. Bigger(Len(s), RdxOf(scale)) = Len(s) \/ Bigger(Len(s), RdxOf(scale)) = RdxOf(scale)
        BY <3>2, <3>3, BiggerIs
      <3> QED BY <1>6, <2>9, <3>1, <3>2, <3>3, <3>4
    <2>12. ASSUME d = 0 PROVE Proper(r)
      <3>1. n.scale = 0
        <4>1. 0 * BaseDigs = 0 BY <1>3
        <4> QED BY <1>2, <2>12, <4>1
      <3>2. scale = 0 BY <2>4, <3>1
      <3> QED BY <1>1, <2>4, <2>5, <2>9, <3>2, WithLimbsIs
    <2> HIDE DEF r
    <2> QED BY <2>9, <2>10, <2>11, <2>12 DEF r, n
  <1> QED BY <1>8, <1>9

\* q is how often d goes into n.
Goes(n, d, q) == d * q <= n /\ n < d * (q + 1)

\* How often a divisor goes into a number is the quotient.
LEMMA GoesIs ==
    /\ \A n, q \in Nat : \A d \in Nat \ {0} : Goes(n, d, q) => n \div d = q
    /\ \A n \in Nat : \A d \in Nat \ {0} : n \div d \in Nat /\ Goes(n, d, n \div d)
  <1>1. ASSUME NEW n \in Nat, NEW q \in Nat, NEW d \in Nat \ {0}, Goes(n, d, q) PROVE n \div d = q
    <2>1. d * q <= n /\ n < d * (q + 1) /\ n \in Int /\ q \in Int BY <1>1 DEF Goes
    <2>2. n \div d \in q..q BY <2>1, QuotientBounds
    <2> QED BY <2>2
  <1>2. ASSUME NEW n \in Nat, NEW d \in Nat \ {0} PROVE n \div d \in Nat /\ Goes(n, d, n \div d)
    <2>1. n \in Int OBVIOUS
    <2>2. PICK q \in Int, r \in 0..(d - 1) : q = n \div d /\ n = d * q + r BY <2>1, Quotients
    <2>3. q >= 0
      <3> SUFFICES ASSUME q <= -1 PROVE FALSE BY <2>2
      <3>1. PICK e \in Nat : q = -1 - e
        <4>1. -1 - q \in Nat /\ q = -1 - (-1 - q) OBVIOUS
        <4> QED BY <4>1
      <3>2. d * q = -d - d * e /\ d * e \in Nat BY <3>1
      <3> QED BY <2>2, <3>2
    <2>4. d * (q + 1) = d * q + d /\ d * q \in Int BY <2>2
    <2> QED BY <2>2, <2>3, <2>4 DEF Goes
  <1> QED BY <1>1, <1>2

\* The same when both are multiplied.
LEMMA Scaled ==
    ASSUME NEW u \in Nat \ {0}, NEW n \in Nat, NEW d \in Nat, NEW q \in Nat
    PROVE  Goes(u * n, u * d, q) <=> Goes(n, d, q)
  <1>1. \A x, y \in Nat : u * x <= u * y <=> x <= y
    <2> TAKE x, y \in Nat
    <2>1. ASSUME x <= y PROVE u * x <= u * y
      <3>1. PICK e \in Nat : y = x + e
        <4>1. y - x \in Nat /\ y = x + (y - x) BY <2>1
        <4> QED BY <4>1
      <3>2. u * y = u * x + u * e /\ u * e \in Nat /\ u * x \in Nat BY <3>1
      <3> QED BY <3>2
    <2>2. ASSUME ~(x <= y) PROVE ~(u * x <= u * y)
      <3>1. PICK e \in Nat : x = y + e + 1
        <4>1. x - y - 1 \in Nat /\ x = y + (x - y - 1) + 1 BY <2>2
        <4> QED BY <4>1
      <3>2. u * x = u * y + u * e + u /\ u * e \in Nat /\ u * y \in Nat BY <3>1
      <3> QED BY <3>2
    <2> QED BY <2>1, <2>2
  <1> DEFINE p == d * q  s == d * (q + 1)
  <1>2. p \in Nat /\ s \in Nat OBVIOUS
  <1>3. (u * d) * q = u * p /\ (u * d) * (q + 1) = u * s
    <2>1. \A x, y, z \in Nat : (x * y) * z = x * (y * z) OBVIOUS
    <2>2. u \in Nat /\ q + 1 \in Nat OBVIOUS
    <2> QED BY <2>1, <2>2
  <1>4. Goes(n, d, q) <=> p <= n /\ n < s BY DEF Goes
  <1>5. Goes(u * n, u * d, q) <=> u * p <= u * n /\ u * n < u * s BY <1>3 DEF Goes
  <1> HIDE DEF p, s
  <1>6. u * p <= u * n <=> p <= n BY <1>1, <1>2
  <1>7. u * s <= u * n <=> s <= n BY <1>1, <1>2
  <1>8. u * s \in Nat /\ u * n \in Nat BY <1>2
  <1>9. u * n < u * s <=> n < s BY <1>2, <1>7, <1>8
  <1> QED BY <1>4, <1>5, <1>6, <1>9

\* A divisor goes into a number as often when both are moved up.
LEMMA GoesWith ==
    \A u, w \in Nat \ {0} : \A q, r, l \in Nat :
        r < w /\ l < u => Goes(u * (q * w + r) + l, u * w, q) /\ u * (q * w + r) + l \in Nat
  <1> TAKE u, w \in Nat \ {0}
  <1> TAKE q, r, l \in Nat
  <1> HAVE r < w /\ l < u
  <1>1. PICK e \in Nat : w = r + 1 + e
    <2>1. w - r - 1 \in Nat /\ w = r + 1 + (w - r - 1) OBVIOUS
    <2> QED BY <2>1
  <1> DEFINE x == u * w  y == x * q  z == u * r
  <1>2. x \in Nat /\ y \in Nat /\ z \in Nat OBVIOUS
  <1>3. u * (q * w + r) + l = y + z + l
    <2>1. \A a, b, c, d \in Nat : a * (b * c + d) = (a * c) * b + a * d OBVIOUS
    <2>2. u \in Nat /\ w \in Nat OBVIOUS
    <2>3. u * (q * w + r) = y + z BY <2>1, <2>2
    <2> QED BY <2>3
  <1>4. x * (q + 1) = y + x BY <1>2
  <1>5. x >= z + u
    <2>1. x = z + u + u * e /\ u * e \in Nat BY <1>1
    <2> QED BY <1>2, <2>1
  <1> HIDE DEF x, y, z
  <1>6. x * q = y BY DEF y
  <1> QED BY <1>2, <1>3, <1>4, <1>5, <1>6 DEF Goes, x

\* bc_num_d_long(), the loop: from place j up, the limbs are the quotient by the divisor
\* moved up by j limbs, also when the dividend has no limb there.
LEMMA QuotientAbove ==
    ASSUME Based, NEW x \in Seq(Digit), NEW y \in Seq(Digit), Len(y) # 0, y[Len(y)] # 0,
           NEW top \in Nat, Len(x) = top + Len(y), x[Len(x)] = 0,
           NEW len \in Nat, top <= len, NEW j \in Nat, j <= len
    PROVE  LET c == DivLimbs(x, y, j + 1, len).c
           IN  /\ c \in Seq(Digit) /\ Len(c) = len
               /\ Goes(Worth(x), Worth(Unit(j)) * Worth(y), Worth(Drop(c, j)))
  <1> DEFINE c == DivLimbs(x, y, j + 1, len).c  w == Worth(y)  u == Worth(Unit(j))  v == Worth(Unit(top))
  <1>1. w \in Nat \ {0}
    <2>1. Len(y) \in 1..Len(y) BY DomainIs
    <2>2. w \in Nat /\ w >= 1 BY <2>1, WorthIsNat
    <2> QED BY <2>2
  <1>2. u \in Nat \ {0} /\ v \in Nat \ {0}
    <2>1. u \in Nat /\ u >= 1 /\ v \in Nat /\ v >= 1 BY UnitIs
    <2> QED BY <2>1
  <1>3. Len(x) \in Nat /\ Len(y) \in Nat BY DomainIs
  <1>4. CASE j <= top
    <2> DEFINE s == DivLimbs(x, y, j + 1, len)  q == Worth(Drop(s.c, j))  r == Worth(Drop(s.a, j))
    <2>1. PICK stop \in 1..(top + 1) : stop = j + 1 /\ stop - 1 = j
      <3>1. j + 1 \in 1..(top + 1) /\ (j + 1) - 1 = j BY <1>4
      <3> QED BY <3>1
    <2>2. /\ s.a \in Seq(Digit) /\ Len(s.a) = Len(x)
          /\ s.c \in Seq(Digit) /\ Len(s.c) = len
          /\ Worth(Drop(x, j)) = q * w + r
          /\ r < w
      <3> DEFINE t == DivLimbs(x, y, stop, len)
      <3>1. /\ t.a \in Seq(Digit) /\ Len(t.a) = Len(x)
            /\ t.c \in Seq(Digit) /\ Len(t.c) = len
            /\ Worth(Drop(x, stop - 1)) = Worth(Drop(t.c, stop - 1)) * Worth(y) + Worth(Drop(t.a, stop - 1))
            /\ Worth(Drop(t.a, stop - 1)) < Worth(y)
        BY LongDivision
      <3>2. t = s BY <2>1
      <3> HIDE DEF t, s
      <3> QED BY <2>1, <3>1, <3>2
    <2>3. c = s.c OBVIOUS
    <2> HIDE DEF s, c
    <2>4. q \in Nat /\ r \in Nat
      <3>1. j <= Len(s.c) /\ j <= Len(s.a) BY <1>3, <1>4, <2>2
      <3>2. Drop(s.c, j) \in Seq(Digit) /\ Drop(s.a, j) \in Seq(Digit) BY <2>2, <3>1, DropIs
      <3> QED BY <3>2, WorthIsNat
    <2>5. PICK l \in Nat : l < u /\ Worth(x) = u * Worth(Drop(x, j)) + l
      <3>1. j <= Len(x) BY <1>3, <1>4
      <3> QED BY <3>1, CutAt
    <2>6. Goes(u * (q * w + r) + l, u * w, q)
      <3> HIDE DEF q, r, w, u, v
      <3> QED BY <1>1, <1>2, <2>2, <2>4, <2>5, GoesWith
    <2>7. Goes(Worth(x), u * w, q) BY <2>2, <2>5, <2>6
    <2> QED BY <2>2, <2>3, <2>7 DEF c
  <1>5. CASE j > top
    <2> DEFINE s == DivLimbs(x, y, top + 1, len)  d == Drop(x, top)  q == Worth(Drop(s.c, top))  r == Worth(Drop(s.a, top))
    <2>1. DivLimbs(x, y, j + 1, len) = s
      <3>1. Smaller(j + 1, (Len(x) - Len(y)) + 1) = Smaller(top + 1, (Len(x) - Len(y)) + 1)
        <4>1. (Len(x) - Len(y)) + 1 = top + 1 BY <1>3
        <4>2. Smaller(j + 1, top + 1) = top + 1 /\ Smaller(top + 1, top + 1) = top + 1 BY <1>5 DEF Smaller
        <4> QED BY <4>1, <4>2
      <3> QED BY <3>1, Zenon DEF DivLimbs
    <2>2. /\ s.a \in Seq(Digit) /\ Len(s.a) = Len(x)
          /\ s.c \in Seq(Digit) /\ Len(s.c) = len
          /\ Worth(d) = q * w + r
      <3>1. PICK stop \in 1..(top + 1) : stop = top + 1 /\ stop - 1 = top
        <4>1. top + 1 \in 1..(top + 1) /\ (top + 1) - 1 = top OBVIOUS
        <4> QED BY <4>1
      <3> DEFINE t == DivLimbs(x, y, stop, len)
      <3>2. /\ t.a \in Seq(Digit) /\ Len(t.a) = Len(x)
            /\ t.c \in Seq(Digit) /\ Len(t.c) = len
            /\ Worth(Drop(x, stop - 1)) = Worth(Drop(t.c, stop - 1)) * Worth(y) + Worth(Drop(t.a, stop - 1))
            /\ Worth(Drop(t.a, stop - 1)) < Worth(y)
        BY LongDivision
      <3>3. t = s BY <3>1
      <3> HIDE DEF t, s
      <3> QED BY <3>1, <3>2, <3>3
    <2>3. c = s.c BY <2>1
    <2> HIDE DEF s, c
    <2>4. /\ top <= Len(x) /\ top <= Len(s.c) /\ top <= Len(s.a) /\ j <= Len(s.c) BY <1>3, <2>2
    <2>5. /\ d \in Seq(Digit) /\ Len(d) = Len(x) - top
          /\ \A i \in Nat \ {0} : Limb(d, i) = Limb(x, top + i)
      BY <2>4, DropIs
    <2>6. Drop(s.c, top) \in Seq(Digit) /\ Drop(s.a, top) \in Seq(Digit) BY <2>2, <2>4, DropIs
    <2>7. q \in Nat /\ r \in Nat BY <2>6, WorthIsNat
    <2> HIDE DEF d
    <2>8. Worth(d) < w
      <3>1. PICK m \in Nat : m = Len(y) /\ m \in 1..m /\ Len(d) = m /\ top + m = Len(x) BY <1>3, <2>5
      <3>2. Limb(d, m) = 0
        <4>1. Limb(d, m) = Limb(x, top + m) BY <2>5, <3>1
        <4>2. Len(x) \in 1..Len(x) BY <1>3, <3>1
        <4>3. Limb(x, Len(x)) = 0 BY <4>2, DomainIs
        <4> QED BY <3>1, <4>1, <4>3
      <3>3. Limb(y, m) > 0
        <4>1. y[m] \in Nat /\ Limb(y, m) = y[m] BY <3>1, DomainIs
        <4> QED BY <3>1, <4>1
      <3>4. m >= Len(d) /\ m >= Len(y) BY <3>1
      <3>5. Limb(d, m) < Limb(y, m) BY <3>2, <3>3
      <3>6. \A i \in 1..m : i > m => Limb(d, i) = Limb(y, i) OBVIOUS
      <3> QED BY <2>5, <3>1, <3>4, <3>5, <3>6, TopDecides
    <2>9. q = 0
      <3> HIDE DEF q, r, w
      <3> SUFFICES ASSUME q >= 1 PROVE FALSE BY <2>7
      <3>1. w >= 1 /\ w \in Nat BY <1>1
      <3> DEFINE z == q * w
      <3>2. z \in Nat /\ z >= w BY <2>7, <3>1, AboveFactors
      <3>3. Worth(d) = z + r BY <2>2
      <3> HIDE DEF z
      <3> QED BY <2>7, <2>8, <3>1, <3>2, <3>3
    <2>10. Worth(Drop(c, j)) = 0
      <3> DEFINE e == Drop(s.c, top)  f == Drop(s.c, j)
      <3>1. /\ e \in Seq(Digit) /\ \A i \in Nat \ {0} : Limb(e, i) = Limb(s.c, top + i) BY <2>2, <2>4, DropIs
      <3>2. /\ f \in Seq(Digit) /\ \A i \in Nat \ {0} : Limb(f, i) = Limb(s.c, j + i) BY <2>2, <2>4, DropIs
      <3>3. Worth(e) = 0 BY <2>9
      <3> HIDE DEF e, f
      <3>4. \A i \in 1..Len(e) : e[i] = 0
        <4>1. ~(Worth(e) >= 1) BY <3>3
        <4> QED BY <3>1, <4>1, WorthIsNat
      <3>5. \A i \in Nat \ {0} : Limb(e, i) = 0
        <4> TAKE i \in Nat \ {0}
        <4>1. CASE i \in DOMAIN e BY <3>1, <3>4, <4>1, DomainIs DEF Limb
        <4>2. CASE i \notin DOMAIN e BY <4>2 DEF Limb
        <4> QED BY <4>1, <4>2
      <3>6. \A i \in 1..Len(f) : f[i] = 0
        <4> TAKE i \in 1..Len(f)
        <4>4. Limb(f, i) = f[i] BY <3>2, DomainIs
        <4>5. i \in Nat \ {0} OBVIOUS
        <4>1. i \in Nat \ {0} /\ Limb(f, i) = f[i] BY <4>4, <4>5
        <4>2. PICK k \in Nat \ {0} : top + k = j + i
          <5>1. (j + i) - top \in Nat \ {0} /\ top + ((j + i) - top) = j + i BY <1>5, <4>1
          <5> QED BY <5>1
        <4>3. Limb(e, k) = Limb(s.c, top + k) /\ Limb(f, i) = Limb(s.c, j + i) BY <3>1, <3>2, <4>1
        <4> QED BY <3>5, <4>1, <4>2, <4>3
      <3>7. Worth(f) = 0 BY <3>2, <3>6, WorthIsNat
      <3> QED BY <2>3, <3>7 DEF f
    <2>11. Worth(x) \in Nat /\ Worth(x) < v * w
      <3>1. PICK l \in Nat : l < v /\ Worth(x) = v * Worth(d) + l BY <2>4, CutAt DEF d
      <3>2. Worth(d) \in Nat BY <2>5, WorthIsNat
      <3> HIDE DEF w, u, v
      <3> DEFINE o == Worth(d)
      <3>8. o \in Nat /\ o < w /\ 0 \in Nat BY <2>8, <3>2
      <3> HIDE DEF o
      <3>9. Goes(v * (0 * w + o) + l, v * w, 0) BY <1>1, <1>2, <3>1, <3>8, GoesWith
      <3>3. Goes(v * (0 * w + Worth(d)) + l, v * w, 0) BY <3>9 DEF o
      <3>4. 0 * w + Worth(d) = Worth(d) BY <1>1, <3>2
      <3>5. v * w \in Nat BY <1>1, <1>2
      <3>6. (v * w) * (0 + 1) = v * w BY <3>5
      <3>7. Worth(x) \in Nat BY WorthIsNat
      <3> QED BY <3>1, <3>3, <3>4, <3>6, <3>7 DEF Goes
    <2>12. v * w <= u * w /\ u * w \in Nat /\ v * w \in Nat
      <3>1. PICK k \in Nat : top + k = j
        <4>1. j - top \in Nat /\ top + (j - top) = j BY <1>5
        <4> QED BY <4>1
      <3> DEFINE o == Worth(Unit(k))
      <3>2. v * o = u BY <3>1, UnitTimes
      <3>6. o \in Nat /\ o >= 1 BY UnitIs
      <3> HIDE DEF o
      <3> HIDE DEF u, v, w
      <3>3. v \in Nat /\ v >= 1 /\ u \in Nat BY <1>2
      <3>4. u >= v
        <4>1. v * o >= v BY <3>3, <3>6, AboveFactors
        <4> QED BY <3>2, <4>1
      <3>5. \A a, b, z \in Nat : a <= b => a * z <= b * z /\ a * z \in Nat /\ b * z \in Nat
        <4> TAKE a, b, z \in Nat
        <4> HAVE a <= b
        <4>1. PICK g \in Nat : b = a + g
          <5>1. b - a \in Nat /\ b = a + (b - a) OBVIOUS
          <5> QED BY <5>1
        <4>2. b * z = a * z + g * z /\ a * z \in Nat /\ g * z \in Nat BY <4>1
        <4> QED BY <4>2
      <3> QED BY <1>1, <3>3, <3>4, <3>5
    <2>13. Goes(Worth(x), u * w, 0)
      <3> DEFINE z == u * w
      <3>1. z \in Nat /\ Worth(x) < z BY <2>11, <2>12
      <3> HIDE DEF z
      <3>2. z * 0 = 0 /\ z * (0 + 1) = z BY <3>1
      <3>3. Goes(Worth(x), z, 0) BY <2>11, <3>1, <3>2 DEF Goes
      <3> QED BY <3>3 DEF z
    <2> QED BY <2>2, <2>3, <2>10, <2>13 DEF c
  <1> QED BY <1>4, <1>5

\* bc_num_d_long(): the shift of both leaves the quotient as it is.
LEMMA DivLongIs ==
    ASSUME Digits, Exponents, NEW d \in Nat, NEW x \in Seq(Digit), x # <<>>, x[Len(x)] = 0, d < Len(x),
           NEW y, Proper(y), y # <<>>, Len(y) < Len(x), NEW scale \in Nat, RdxOf(scale) <= d
    PROVE  LET n == DivLong(Num(FALSE, d * BaseDigs, x), Num(FALSE, 0, y), scale)
               j == d - RdxOf(scale)
           IN  \E c \in Seq(Digit) : /\ n = Num(FALSE, d * BaseDigs, c) /\ Len(c) = Len(x)
                                     /\ Goes(Worth(x), Worth(Unit(j)) * Worth(y), Worth(Drop(c, j)))
  <1> DEFINE a == Num(FALSE, d * BaseDigs, x)  b == Num(FALSE, 0, y)
             top == y[Len(y)]
             k == CHOOSE p \in 0..BaseDigs : top * Radix^p \in (BasePow \div Radix)..(BasePow - 1)
             e == ShiftLeft(a, k).num  f == ShiftLeft(b, k).num
             g == e \o Zeros(Bigger(0, Bigger(Len(e), Len(f)) + 1 - Len(e)))
             short == Below(y) /\ top <= DivisorBound
             len == Len(x)
             n == DivLong(a, b, scale)
  <1>1. Based BY BaseIs
  <1>2. PICK j \in Nat : j = d - RdxOf(scale) /\ j <= d
    <2>1. RdxOf(scale) \in Nat BY RdxGrows
    <2>2. d - RdxOf(scale) \in Nat /\ d - RdxOf(scale) <= d BY <2>1
    <2> QED BY <2>2
  <1>3. y \in Seq(Digit) /\ len \in Nat /\ Len(y) \in Nat /\ Len(y) >= 1 /\ len >= 1
    <2>1. y \in Seq(Digit) BY DEF Proper
    <2>2. Len(y) \in Nat /\ Len(x) \in Nat BY <1>1, <2>1, DomainIs
    <2>3. Len(y) # 0 /\ Len(x) # 0 BY <2>1
    <2> QED BY <2>1, <2>2, <2>3
  <1>5. a.scale = d * BaseDigs /\ a.num = x /\ b.num = y BY DEF Num
  <1>4. Rdx(a) = d
    <2>2. RdxOf(d * BaseDigs) = d BY RdxCovers
    <2> HIDE DEF a
    <2> QED BY <1>5, <2>2 DEF Rdx, IsZero
  <1>6. Len(y) \in 1..Len(y) /\ top # 0 /\ top \in Digit BY <1>3 DEF Proper
  <1>7. (d - RdxOf(scale)) + 1 = j + 1 BY <1>2
  <1>8. CASE ~short
    <2> DEFINE c == DivLimbs(x, y, j + 1, len).c
    <2>1. n = Num(FALSE, d * BaseDigs, c)
      <3> HIDE DEF a, b
      <3> QED BY <1>4, <1>5, <1>7, <1>8 DEF DivLong
    <2>2. PICK t \in Nat : len = t + Len(y) /\ t <= len
      <3>1. len - Len(y) \in Nat /\ len = (len - Len(y)) + Len(y) /\ len - Len(y) <= len BY <1>3
      <3> QED BY <3>1, Zenon
    <2>3. j <= len BY <1>2, <1>3
    <2>4. c \in Seq(Digit) /\ Len(c) = len /\ Goes(Worth(x), Worth(Unit(j)) * Worth(y), Worth(Drop(c, j)))
      <3>1. Len(y) # 0 /\ y[Len(y)] # 0 BY <1>3, <1>6
      <3> QED BY <1>1, <1>3, <2>2, <2>3, <3>1, QuotientAbove, SMTT(60)
    <2> HIDE DEF c, n
    <2> QED BY <1>2, <2>1, <2>4 DEF n
  <1>9. CASE short
    <2> DEFINE c == DivLimbs(g, f, j + 1, len).c
    <2>1. n = Num(FALSE, d * BaseDigs, c)
      <3> HIDE DEF a, b
      <3> QED BY <1>4, <1>5, <1>7, <1>9 DEF DivLong
    <2>2. k \in 0..(BaseDigs - 1)
      <3>1. \E p \in 0..BaseDigs : top * Radix^p \in (BasePow \div Radix)..(BasePow - 1) BY <1>6, RaisedTop DEF RadixTo
      <3>2. k \in 0..BaseDigs /\ top * Radix^k \in (BasePow \div Radix)..(BasePow - 1) BY <3>1
      <3> HIDE DEF k
      <3> QED BY <1>6, <3>2, RaisedTop DEF RadixTo
    <2> HIDE DEF k
    <2>3. k \in Nat BY <2>2
    <2> DEFINE p == RadixTo(k)
    <2>4. p \in Nat \ {0}
      <3>1. RadixTo(k) \in Nat /\ RadixTo(k) >= 1 BY <2>3, PowIs
      <3> QED BY <3>1
    <2>5. e \in Seq(Digit) /\ Len(e) <= len + 1 /\ Worth(e) = p * Worth(x)
      <3>1. d <= Len(x) BY <1>3
      <3> QED BY <2>2, <3>1, ShiftLeftIs
    <2>6. f \in Seq(Digit) /\ Worth(f) = p * Worth(y) /\ Proper(f)
      <3> DEFINE h == Num(FALSE, 0 * BaseDigs, y)
      <3>1. 0 \in Nat /\ 0 <= Len(y) /\ FALSE \in BOOLEAN BY <1>3
      <3>2. h = b
        <4>1. PICK z \in Nat : z = BaseDigs BY DEF Digits
        <4>2. 0 * z = 0 OBVIOUS
        <4> QED BY <4>1, <4>2
      <3>3. /\ ShiftLeft(h, k).num \in Seq(Digit) /\ Worth(ShiftLeft(h, k).num) = RadixTo(k) * Worth(y)
            /\ Proper(ShiftLeft(h, k).num)
        BY <1>3, <2>2, <3>1, ShiftLeftIs
      <3> HIDE DEF h, b
      <3> QED BY <3>2, <3>3
    <2> HIDE DEF e, f
    <2>7. Worth(x) \in Nat /\ Worth(y) \in Nat BY <1>1, <1>3, WorthIsNat
    <2>8. Len(y) >= 2
      <3> DEFINE z == SubSeq(y, 1, Len(y) - 1)
      <3>1. PICK m \in Nat : m = Len(y) - 1 /\ m <= Len(y)
        <4>1. Len(y) - 1 \in Nat /\ Len(y) - 1 <= Len(y) BY <1>3
        <4> QED BY <4>1
      <3>2. z \in Seq(Digit) /\ Len(z) = m BY <1>1, <1>3, <3>1, LowLimbs
      <3>3. Strip(z) # <<>> BY <1>9 DEF Below
      <3> HIDE DEF z
      <3>4. Strip(z) \in Seq(Digit) /\ Len(Strip(z)) <= Len(z) BY <1>1, <3>2, Stripped
      <3>5. Len(Strip(z)) \in Nat /\ Len(Strip(z)) # 0 BY <3>3, <3>4
      <3>6. m >= 1 BY <3>2, <3>4, <3>5
      <3> QED BY <1>3, <3>1, <3>6
    <2>9. Len(f) \in Nat /\ Len(e) \in Nat BY <1>1, <2>5, <2>6, DomainIs
    <2>10. Len(f) >= Len(y)
      <3> SUFFICES ASSUME Len(f) < Len(y) PROVE FALSE BY <1>3, <2>9
      <3>1. Limb(y, Len(y)) >= 1
        <4>1. y[Len(y)] \in Nat /\ Limb(y, Len(y)) = y[Len(y)] BY <1>1, <1>3, <1>6, DomainIs
        <4> QED BY <1>6, <4>1
      <3>2. Worth(f) < Worth(y) BY <1>1, <1>3, <2>6, <3>1, Longer
      <3>3. Worth(y) >= 1
        <4>1. \E i \in 1..Len(y) : y[i] # 0 BY <1>6
        <4> QED BY <1>1, <1>3, <4>1, WorthIsNat
      <3>4. p * Worth(y) >= Worth(y) /\ p * Worth(y) \in Nat
        <4>1. p \in Nat /\ p >= 1 BY <2>4
        <4> QED BY <2>7, <3>3, <4>1, AboveFactors
      <3> QED BY <2>6, <2>7, <3>2, <3>4
    <2> DEFINE m == Bigger(Len(e), Len(f))
    <2>11. m \in Nat /\ m >= Len(e) /\ m >= Len(f) /\ (m = Len(e) \/ m = Len(f)) BY <2>9, BiggerIs
    <2> HIDE DEF m
    <2>12. PICK z \in Nat : z = Bigger(0, m + 1 - Len(e)) /\ Len(e) + z = m + 1
      <3>1. m + 1 - Len(e) \in Nat /\ Len(e) + (m + 1 - Len(e)) = m + 1 BY <2>9, <2>11
      <3>2. Bigger(0, m + 1 - Len(e)) = m + 1 - Len(e) BY <3>1 DEF Bigger
      <3> QED BY <3>1, <3>2
    <2>13. g = e \o Zeros(z) BY <2>12 DEF m
    <2>14. /\ g \in Seq(Digit) /\ Len(g) = m + 1
           /\ \A i \in Nat \ {0} : Limb(g, i) = Limb(e, i)
      <3>1. /\ e \o Zeros(z) \in Seq(Digit) /\ Len(e \o Zeros(z)) = Len(e) + z
            /\ \A i \in Nat \ {0} : Limb(e \o Zeros(z), i) = Limb(e, i)
        BY <1>1, <2>5, ZerosAbove
      <3> HIDE DEF g
      <3> QED BY <2>12, <2>13, <3>1
    <2> HIDE DEF g
    <2>15. Worth(g) = p * Worth(x) BY <1>1, <2>5, <2>14, SameLimbs
    <2>16. g[Len(g)] = 0
      <3>1. Len(g) \in 1..Len(g) /\ Len(g) \in Nat \ {0} /\ Len(g) > Len(e) BY <2>9, <2>11, <2>14
      <3>2. Limb(g, Len(g)) = Limb(e, Len(g)) BY <2>14, <3>1
      <3>3. Limb(e, Len(g)) = 0 BY <1>1, <2>5, <3>1, DigitIsInt
      <3>4. Limb(g, Len(g)) = g[Len(g)] BY <1>1, <2>14, <3>1, DomainIs
      <3> QED BY <3>2, <3>3, <3>4
    <2>17. PICK t \in Nat : Len(g) = t + Len(f) /\ t <= len
      <3>1. (m + 1) - Len(f) \in Nat /\ m + 1 = ((m + 1) - Len(f)) + Len(f) BY <2>9, <2>11
      <3>2. (m + 1) - Len(f) <= len BY <1>3, <2>5, <2>8, <2>9, <2>10, <2>11
      <3> QED BY <2>14, <3>1, <3>2
    <2>18. Len(f) # 0 /\ f[Len(f)] # 0
      <3>1. Len(f) # 0 BY <1>3, <2>8, <2>9, <2>10
      <3> QED BY <2>6, <3>1 DEF Proper
    <2>19. j <= len BY <1>2, <1>3
    <2>20. c \in Seq(Digit) /\ Len(c) = len /\ Goes(Worth(g), Worth(Unit(j)) * Worth(f), Worth(Drop(c, j)))
      BY <1>1, <1>3, <2>6, <2>14, <2>16, <2>17, <2>18, <2>19, QuotientAbove
    <2> HIDE DEF c
    <2> DEFINE u == Worth(Unit(j))  v == Worth(x)  w == Worth(y)  q == Worth(Drop(c, j))
    <2>21. u \in Nat /\ q \in Nat /\ v \in Nat /\ w \in Nat
      <3>1. j <= Len(c) BY <2>19, <2>20
      <3>2. Drop(c, j) \in Seq(Digit) BY <1>1, <2>20, <3>1, DropIs
      <3> QED BY <1>1, <2>7, <3>2, UnitIs, WorthIsNat
    <2>22. Goes(p * v, u * (p * w), q) BY <2>6, <2>15, <2>20
    <2> HIDE DEF u, v, w, q, p
    <2>23. u * (p * w) = p * (u * w) /\ u * w \in Nat
      <3>1. \A r, s, o \in Nat : r * (s * o) = s * (r * o) /\ r * o \in Nat OBVIOUS
      <3>2. p \in Nat BY <2>4
      <3> QED BY <2>21, <3>1, <3>2
    <2>24. Goes(v, u * w, q) BY <2>4, <2>21, <2>22, <2>23, Scaled
    <2> HIDE DEF n
    <2> QED BY <1>2, <2>1, <2>20, <2>24 DEF n, u, v, w, q
  <1> QED BY <1>8, <1>9

\* The sign is set in what is not zero.
LEMMA SignedIs ==
    ASSUME Based, NEW c, Number(c), NEW neg \in BOOLEAN
    PROVE  LET r == Signed(c, neg)
           IN  Number(r) /\ r.scale = c.scale /\ r.num = c.num /\ (~IsZero(r) => r.neg = neg)
  <1> DEFINE r == Signed(c, neg)
  <1>1. CASE IsZero(c) BY <1>1 DEF Signed
  <1>2. CASE ~IsZero(c)
    <2>1. c \in [neg : BOOLEAN, scale : Nat, num : Seq(Digit)] BY DEF Number
    <2>2. r = [c EXCEPT !.neg = neg] BY <1>2 DEF Signed
    <2>3. /\ r \in [neg : BOOLEAN, scale : Nat, num : Seq(Digit)]
          /\ r.neg = neg /\ r.scale = c.scale /\ r.num = c.num
      BY <2>1, <2>2
    <2> HIDE DEF r
    <2>4. Number(r) /\ r.scale = c.scale /\ r.num = c.num /\ (~IsZero(r) => r.neg = neg)
      BY <1>2, <2>3 DEF Number, IsZero
    <2> QED BY <2>4 DEF r
  <1> QED BY <1>1, <1>2

\* What bc_num_retireMul() makes of a number that has its scale.
LEMMA Retired ==
    ASSUME Based, Digits, NEW n \in [neg : BOOLEAN, scale : Nat, num : Seq(Digit)], NEW neg \in BOOLEAN
    PROVE  LET r == Signed(Clean(n), neg)
           IN  /\ Number(r) /\ r.scale = n.scale /\ Worth(r.num) = Worth(n.num)
               /\ ~IsZero(r) => r.neg = neg
  <1> DEFINE c == Clean(n)
  <1>1. n = Num(n.neg, n.scale, n.num) /\ n.neg \in BOOLEAN /\ n.scale \in Nat /\ n.num \in Seq(Digit) BY DEF Num
  <1>2. Number(c) /\ c.scale = n.scale /\ Worth(c.num) = Worth(n.num)
    <2> DEFINE d == Clean(Num(n.neg, n.scale, n.num))
    <2>1. Number(d) /\ d.scale = n.scale /\ Worth(d.num) = Worth(n.num) BY <1>1, CleanWorth
    <2>2. c = d BY <1>1
    <2> HIDE DEF c, d
    <2> QED BY <2>1, <2>2
  <1> HIDE DEF c
  <1>3. LET r == Signed(c, neg)
        IN  Number(r) /\ r.scale = c.scale /\ r.num = c.num /\ (~IsZero(r) => r.neg = neg)
    BY <1>2, SignedIs
  <1> QED BY <1>2, <1>3 DEF c

\* Without a limb dropped, an array stands for the same.
LEMMA DropNone ==
    ASSUME Based, NEW a \in Seq(Digit)
    PROVE  Worth(Drop(a, 0)) = Worth(a)
  <1>1. 0 \in Nat /\ 0 <= Len(a) BY DomainIs
  <1>2. Drop(a, 0) \in Seq(Digit) /\ \A i \in Nat \ {0} : Limb(Drop(a, 0), i) = Limb(a, 0 + i) BY <1>1, DropIs
  <1>3. \A i \in Nat \ {0} : Limb(Drop(a, 0), i) = Limb(a, i)
    <2> TAKE i \in Nat \ {0}
    <2>1. 0 + i = i OBVIOUS
    <2> QED BY <1>2, <2>1
  <1> QED BY <1>2, <1>3, SameLimbs

\* c without the digits below p.
Cut(c, p) == c - (c % p)

\* r has the scale and the sign asked for, and of q, which has RdxOf(scale) limbs behind
\* the point, the digits down to that scale.
Holds(r, scale, neg, q) ==
    /\ Number(r) /\ r.scale = scale
    /\ ~IsZero(r) => r.neg = neg
    /\ Worth(r.num) = Cut(q, LeastSigPow(scale))

\* bc_num_retireMul() of a quotient: the limbs below its scale are dropped, and the
\* digits of the lowest limb that are beyond it.
LEMMA RetireLong ==
    ASSUME Based, Digits, Places, NEW d \in Nat, NEW c \in Seq(Digit), d < Len(c),
           NEW scale \in Nat, RdxOf(scale) <= d, NEW neg \in BOOLEAN
    PROVE  Holds(Retire(Num(FALSE, d * BaseDigs, c), scale, neg), scale, neg, Worth(Drop(c, d - RdxOf(scale))))
  <1> DEFINE n == Num(FALSE, d * BaseDigs, c)  r == Retire(n, scale, neg)  p == LeastSigPow(scale)
             q == Worth(Drop(c, d - RdxOf(scale)))  places == n.scale - scale  t == ToScale(n, scale)
             a == Drop(c, d - RdxOf(scale))
             e == [a EXCEPT ![1] = @ - (@ % p)]
  <1>1. PICK j \in Nat : j = d - RdxOf(scale) /\ j <= d
    <2>1. RdxOf(scale) \in Nat BY RdxGrows
    <2>2. d - RdxOf(scale) \in Nat /\ d - RdxOf(scale) <= d BY <2>1
    <2> QED BY <2>2
  <1>2. n.scale = d * BaseDigs /\ n.num = c /\ n.neg = FALSE /\ n = [neg |-> FALSE, scale |-> d * BaseDigs, num |-> c]
    BY DEF Num
  <1>3. Len(c) \in Nat /\ c # <<>>
    <2>1. Len(c) \in Nat BY DomainIs
    <2> QED BY <2>1
  <1>4. RdxOf(d * BaseDigs) = d /\ (d * BaseDigs) % BaseDigs = 0 /\ d * BaseDigs \in Nat BY RdxCovers
  <1>5. Rdx(n) = d BY <1>2, <1>3, <1>4 DEF Rdx, IsZero
  <1> HIDE DEF n
  <1>6. scale <= n.scale
    <2>1. PICK b \in Nat : b = BaseDigs BY DEF Digits
    <2>2. RdxOf(scale) \in Nat /\ scale <= RdxOf(scale) * b BY <2>1, RdxCovers
    <2>3. PICK k \in Nat : d = RdxOf(scale) + k BY <1>1, <2>2
    <2>4. d * b = RdxOf(scale) * b + k * b /\ k * b \in Nat /\ RdxOf(scale) * b \in Nat BY <2>2, <2>3
    <2> QED BY <1>2, <2>1, <2>2, <2>4
  <1>7. n.scale \in Nat /\ ~(n.scale < scale) BY <1>2, <1>4, <1>6
  <1>8. t = Truncate(n, places) BY <1>7 DEF ToScale
  <1>9. a \in Seq(Digit) /\ Len(a) = Len(c) - j /\ Len(a) >= 1 /\ a # <<>> /\ q \in Nat
    <2>1. j <= Len(c) BY <1>1, <1>3
    <2>2. Drop(c, j) \in Seq(Digit) /\ Len(Drop(c, j)) = Len(c) - j BY <2>1, DropIs
    <2>3. a = Drop(c, j) BY <1>1
    <2> HIDE DEF a
    <2>4. Len(a) >= 1 BY <1>1, <1>3, <2>2, <2>3
    <2>5. a # <<>> BY <2>4
    <2>6. Worth(a) \in Nat BY <2>2, <2>3, WorthIsNat
    <2> QED BY <2>2, <2>3, <2>4, <2>5, <2>6 DEF a
  <1>10. p \in Nat \ {0} /\ \E k \in Nat : BasePow = p * k BY DEF Places
  <1>11. /\ t \in [neg : BOOLEAN, scale : Nat, num : Seq(Digit)] /\ t.scale = scale
         /\ Worth(t.num) = q - (q % p)
    <2>1. CASE places = 0
      <3>1. t = n BY <1>8, <2>1 DEF Truncate
      <3>2. scale = d * BaseDigs BY <1>2, <1>4, <1>7, <2>1
      <3>3. RdxOf(scale) = d /\ p = 1 BY <1>4, <3>2 DEF LeastSigPow
      <3>4. j = 0 BY <1>1, <3>3
      <3>5. q = Worth(c) BY <1>1, <3>4, DropNone
      <3> HIDE DEF q, p, t
      <3>6. q % p = 0 /\ q - (q % p) = q BY <1>9, <3>3
      <3> QED BY <1>2, <1>4, <3>1, <3>2, <3>5, <3>6
    <2>2. CASE places # 0
      <3>1. n.scale - places = scale BY <1>7
      <3>2. t = Clean(Num(FALSE, scale, e))
        <4>1. Drop(n.num, Rdx(n) - RdxOf(n.scale - places)) = a BY <1>2, <1>5, <3>1
        <4>2. ~IsZero(n) BY <1>2, <1>3 DEF IsZero
        <4> HIDE DEF t, p, a, places
        <4> QED BY <1>2, <1>8, <1>9, <2>2, <3>1, <4>1, <4>2 DEF Truncate, p
      <3>3. e \in Seq(Digit) /\ Worth(e) = q - (q % p)
        <4>1. PICK k \in Nat : BasePow = p * k BY <1>10
        <4> HIDE DEF a, p
        <4>2. e \in Seq(Digit) /\ Worth(e) = Worth(a) - (Worth(a) % p) BY <1>9, <1>10, <4>1, RoundedDown
        <4> QED BY <4>2 DEF a
      <3> HIDE DEF e, t, q, p
      <3>4. Number(t) /\ t.scale = scale /\ Worth(t.num) = Worth(e) BY <3>2, <3>3, CleanWorth
      <3> QED BY <3>3, <3>4 DEF Number
    <2> QED BY <2>1, <2>2
  <1>12. r = Signed(Clean(t), neg) BY DEF Retire
  <1> HIDE DEF t, q, p, r
  <1>13. LET s == Signed(Clean(t), neg)
         IN  /\ Number(s) /\ s.scale = t.scale /\ Worth(s.num) = Worth(t.num)
             /\ ~IsZero(s) => s.neg = neg
    BY <1>11, Retired
  <1>14. /\ Number(r) /\ r.scale = scale /\ Worth(r.num) = Cut(q, p)
         /\ ~IsZero(r) => r.neg = neg
    BY <1>11, <1>12, <1>13 DEF Cut
  <1> QED BY <1>14 DEF r, q, p, n, Holds

\* Limbs added to a scale are limbs added to its radix point.
LEMMA RdxPlus ==
    ASSUME Digits, NEW s \in Nat, NEW m \in Nat
    PROVE  RdxOf(m * BaseDigs + s) = m + RdxOf(s)
  <1>1. PICK b \in Nat \ {0} : b = BaseDigs BY DEF Digits
  <1> DEFINE y == s + b - 1  q == y \div b  r == y % b
  <1>2. q \in Int /\ r \in 0..(b - 1) /\ y = b * q + r
    <2>1. y \in Int OBVIOUS
    <2> QED BY <2>1, Quotients
  <1>3. RdxOf(s) = q BY <1>1 DEF RdxOf
  <1>4. (m * b + s) + b - 1 = b * (m + q) + r /\ m + q \in Int
    <2> HIDE DEF q, r
    <2>1. b * (m + q) = b * m + b * q /\ m * b = b * m BY <1>2
    <2> QED BY <1>2, <2>1
  <1> HIDE DEF q, r
  <1>5. (b * (m + q) + r) \div b = m + q BY <1>2, <1>4, RemainderIs
  <1>6. RdxOf(m * BaseDigs + s) = ((m * b + s) + b - 1) \div b BY <1>1 DEF RdxOf
  <1> QED BY <1>3, <1>4, <1>5, <1>6

\* Zeros below zeros.
LEMMA ZerosJoin ==
    ASSUME NEW a \in Seq(Digit), NEW k \in Nat, NEW z \in Nat
    PROVE  /\ Zeros(0) \o a = a
           /\ Zeros(k) \o (Zeros(z) \o a) = Zeros(k + z) \o a
  <1>1. Zeros(0) = <<>> BY DEF Zeros
  <1>2. Zeros(0) \o a = a BY <1>1
  <1>3. \A m \in Nat : Zeros(m) \in Seq({0}) /\ Len(Zeros(m)) = m /\ \A i \in 1..m : Zeros(m)[i] = 0
    <2> TAKE m \in Nat
    <2>1. Zeros(m) = [i \in 1..m |-> 0] BY DEF Zeros
    <2>2. Zeros(m) \in [1..m -> {0}] BY <2>1
    <2>3. Zeros(m) \in Seq({0}) /\ Len(Zeros(m)) = m BY <2>2, ArrayOf
    <2> QED BY <2>1, <2>3
  <1> DEFINE x == Zeros(k)  y == Zeros(z)  w == Zeros(k + z)
  <1>4. /\ x \in Seq({0}) /\ Len(x) = k /\ \A i \in 1..k : x[i] = 0
        /\ y \in Seq({0}) /\ Len(y) = z /\ \A i \in 1..z : y[i] = 0
        /\ w \in Seq({0}) /\ Len(w) = k + z /\ \A i \in 1..(k + z) : w[i] = 0
    <2>1. k + z \in Nat OBVIOUS
    <2> QED BY <1>3, <2>1
  <1> HIDE DEF x, y, w
  <1>5. x \o (y \o a) = (x \o y) \o a BY <1>4
  <1>6. x \o y = w
    <2>1. Len(x \o y) = k + z
      <3>1. x \in Seq({0}) /\ y \in Seq({0}) BY <1>4
      <3>2. Len(x \o y) = Len(x) + Len(y) BY <3>1
      <3> QED BY <1>4, <3>2
    <2>3. x \o y \in Seq({0}) BY <1>4
    <2>2. \A i \in 1..(k + z) : (x \o y)[i] = w[i]
      <3> TAKE i \in 1..(k + z)
      <3>1. (x \o y)[i] = IF i <= k THEN x[i] ELSE y[i - k]
        <4>1. i \in 1..(Len(x) + Len(y)) BY <1>4
        <4>2. (x \o y)[i] = IF i <= Len(x) THEN x[i] ELSE y[i - Len(x)] BY <1>4, <4>1
        <4> QED BY <1>4, <4>2
      <3>2. CASE i <= k
        <4>1. i \in 1..k BY <3>2
        <4> QED BY <1>4, <3>1, <3>2, <4>1
      <3>3. CASE i > k
        <4>1. i - k \in 1..z /\ ~(i <= k) BY <3>3
        <4>2. w[i] = 0 BY <1>4
        <4>3. y[i - k] = 0 BY <1>4, <4>1
        <4> QED BY <3>1, <4>1, <4>2, <4>3
      <3>4. i <= k \/ i > k OBVIOUS
      <3> QED BY <3>2, <3>3, <3>4
    <2> QED BY <1>4, <2>1, <2>2, <2>3
  <1> QED BY <1>2, <1>5, <1>6 DEF x, y, w

\* bc_num_extend(): limbs are put below what there is.
LEMMA ExtendIs ==
    ASSUME NEW neg, NEW v, NEW x, x # <<>>, NEW p
    PROVE  /\ Rdx(Num(neg, v, x)) = RdxOf(v)
           /\ Extend(Num(neg, v, x), p) = Num(neg, v + p, Zeros(RdxOf(v + p) - RdxOf(v)) \o x)
  <1> DEFINE n == Num(neg, v, x)
  <1>1. n.neg = neg /\ n.scale = v /\ n.num = x BY DEF Num
  <1> HIDE DEF n
  <1>2. ~IsZero(n) BY <1>1 DEF IsZero
  <1>3. Rdx(n) = RdxOf(v) BY <1>1, <1>2 DEF Rdx
  <1> QED BY <1>1, <1>2, <1>3 DEF Extend, n

\* Zeros below limbs leave limbs.
LEMMA NotEmpty ==
    ASSUME Based, NEW a \in Seq(Digit), a # <<>>, NEW z \in Nat
    PROVE  Zeros(z) \o a # <<>>
  <1> DEFINE x == Zeros(z) \o a
  <1>1. Len(x) = z + Len(a) BY ZerosBelow
  <1>2. Len(a) \in Nat /\ Len(a) # 0 BY DomainIs
  <1> HIDE DEF x
  <1>3. x # <<>> BY <1>1, <1>2
  <1> QED BY <1>3 DEF x

\* What a number that is not zero is made of.
LEMMA NonZero ==
    ASSUME Based, Digits, NEW a, Number(a), ~IsZero(a)
    PROVE  /\ a.neg \in BOOLEAN /\ a.scale \in Nat /\ a.num \in Seq(Digit) /\ a.num # <<>>
           /\ a = Num(a.neg, a.scale, a.num) /\ a \in [neg : BOOLEAN, scale : Nat, num : Seq(Digit)]
           /\ Rdx(a) = RdxOf(a.scale) /\ Rdx(a) \in Nat /\ Rdx(a) <= Len(a.num) /\ Len(a.num) \in Nat \ {0}
           /\ Worth(a.num) \in Nat \ {0}
  <1>1. /\ a \in [neg : BOOLEAN, scale : Nat, num : Seq(Digit)]
        /\ Len(a.num) >= RdxOf(a.scale) /\ \E i \in DOMAIN a.num : a.num[i] # 0
    BY DEF Number
  <1>2. a.neg \in BOOLEAN /\ a.scale \in Nat /\ a.num \in Seq(Digit) BY <1>1
  <1>3. a = [neg |-> a.neg, scale |-> a.scale, num |-> a.num] BY <1>1
  <1>4. Rdx(a) = RdxOf(a.scale) /\ a.num # <<>> BY DEF Rdx, IsZero
  <1>5. Len(a.num) \in Nat /\ DOMAIN a.num = 1..Len(a.num) BY <1>2, DomainIs
  <1>6. Len(a.num) # 0 BY <1>1, <1>5
  <1>7. RdxOf(a.scale) \in Nat BY <1>2, RdxGrows
  <1>8. Worth(a.num) \in Nat /\ Worth(a.num) >= 1 BY <1>1, <1>2, <1>5, WorthIsNat
  <1> QED BY <1>1, <1>2, <1>3, <1>4, <1>5, <1>6, <1>7, <1>8 DEF Num

\* What the scale of limbs is, and the same number with another scale.
LEMMA OfLimbsIs ==
    /\ \A neg, s, x : OfLimbs(Num(neg, s, x)) = Num(neg, Rdx(Num(neg, s, x)) * BaseDigs, x)
    /\ \A neg, s, t, x : [Num(neg, s, x) EXCEPT !.scale = t] = Num(neg, t, x)
  BY DEF OfLimbs, Num

\* bc_num_extend() by whole limbs.
LEMMA ExtendedLimbs ==
    ASSUME Based, Digits, NEW neg, NEW a \in Seq(Digit), a # <<>>, NEW s \in Nat, NEW t \in Nat
    PROVE  LET r == Num(neg, t * BaseDigs + s, Zeros(t) \o a)
           IN  Extend(Num(neg, s, a), t * BaseDigs) = r /\ Rdx(r) = t + RdxOf(s)
  <1>1. PICK p \in Nat, v \in Nat : p = t * BaseDigs /\ v = p + s /\ v = s + p
    <2>1. PICK p \in Nat : p = t * BaseDigs BY DEF Digits
    <2> QED BY <2>1
  <1>2. PICK k \in Nat : k = RdxOf(s) BY RdxGrows
  <1>3. RdxOf(v) = t + k /\ (t + k) - k = t
    <2>1. RdxOf(v) = t + k BY <1>1, <1>2, RdxPlus
    <2> QED BY <2>1
  <1>4. /\ Rdx(Num(neg, s, a)) = RdxOf(s)
        /\ Extend(Num(neg, s, a), p) = Num(neg, s + p, Zeros(RdxOf(s + p) - RdxOf(s)) \o a)
    BY ExtendIs
  <1>5. Extend(Num(neg, s, a), p) = Num(neg, v, Zeros(t) \o a) BY <1>1, <1>2, <1>3, <1>4
  <1>6. Zeros(t) \o a # <<>> BY NotEmpty
  <1>7. Rdx(Num(neg, v, Zeros(t) \o a)) = RdxOf(v) BY <1>6, ExtendIs
  <1> QED BY <1>1, <1>2, <1>3, <1>5, <1>7

\* bc_num_extend() of a number that has whole limbs behind its point.
LEMMA ExtendedScale ==
    ASSUME Based, Digits, NEW neg, NEW a \in Seq(Digit), a # <<>>, NEW z \in Nat, NEW m \in Nat, NEW t \in Nat
    PROVE  LET r == Num(neg, m * BaseDigs + t, Zeros(RdxOf(t) + z) \o a)
           IN  Extend(Num(neg, m * BaseDigs, Zeros(z) \o a), t) = r /\ Rdx(r) = m + RdxOf(t)
  <1>1. PICK v \in Nat, w \in Nat : v = m * BaseDigs /\ w = v + t
    <2>1. PICK v \in Nat : v = m * BaseDigs BY DEF Digits
    <2> QED BY <2>1
  <1>2. PICK k \in Nat : k = RdxOf(t) BY RdxGrows
  <1>3. RdxOf(v) = m BY <1>1, RdxCovers
  <1>4. RdxOf(w) = m + k /\ (m + k) - m = k
    <2>1. RdxOf(w) = m + k BY <1>1, <1>2, RdxPlus
    <2> QED BY <2>1
  <1>5. PICK x : x = Zeros(z) \o a OBVIOUS
  <1>11. x # <<>> BY <1>5, NotEmpty
  <1>6. /\ Rdx(Num(neg, v, x)) = RdxOf(v)
        /\ Extend(Num(neg, v, x), t) = Num(neg, v + t, Zeros(RdxOf(v + t) - RdxOf(v)) \o x)
    BY <1>11, ExtendIs
  <1>7. Zeros(k) \o x = Zeros(k + z) \o a BY <1>5, ZerosJoin
  <1>8. Extend(Num(neg, v, x), t) = Num(neg, w, Zeros(k + z) \o a) BY <1>1, <1>3, <1>4, <1>6, <1>7
  <1>9. Zeros(k + z) \o a # <<>>
    <2>1. k + z \in Nat OBVIOUS
    <2> QED BY <2>1, NotEmpty
  <1>10. Rdx(Num(neg, w, Zeros(k + z) \o a)) = RdxOf(w) BY <1>9, ExtendIs
  <1> QED BY <1>1, <1>2, <1>4, <1>5, <1>8, <1>10

\* bc_num_d(): the dividend is made as long as the divisor by limbs behind its point.
LEMMA AsLongIs ==
    ASSUME Based, Digits, NEW a, NEW b, Number(a), Number(b), ~IsZero(a), ~IsZero(b)
    PROVE  \E e \in Nat : /\ AsLong(a, b) = Num(a.neg, (Rdx(a) + e) * BaseDigs, Zeros(e) \o a.num)
                          /\ Len(b.num) <= e + Len(a.num)
  <1>1. PICK neg \in BOOLEAN, s \in Nat, x \in Seq(Digit) : neg = a.neg /\ s = a.scale /\ x = a.num /\ x # <<>>
    BY NonZero
  <1>2. Rdx(a) = RdxOf(a.scale) /\ Rdx(a) \in Nat BY NonZero
  <1>3. PICK la \in Nat : la = Len(a.num) BY NonZero
  <1>4. PICK lb \in Nat : lb = Len(b.num) BY NonZero
  <1>5. a = Num(a.neg, a.scale, a.num) BY NonZero
  <1>6. CASE lb > la
    <2>1. PICK t \in Nat : t = lb - la /\ lb = t + la
      <3>1. lb - la \in Nat /\ lb = (lb - la) + la BY <1>6
      <3> QED BY <3>1
    <2> DEFINE m == Num(neg, t * BaseDigs + s, Zeros(t) \o x)
    <2>2. Extend(Num(neg, s, x), t * BaseDigs) = m /\ Rdx(m) = t + RdxOf(s) BY <1>1, ExtendedLimbs
    <2>3. OfLimbs(m) = Num(neg, Rdx(m) * BaseDigs, Zeros(t) \o x) BY OfLimbsIs
    <2>4. AsLong(a, b) = OfLimbs(Extend(a, t * BaseDigs)) BY <1>3, <1>4, <1>6, <2>1 DEF AsLong
    <2> HIDE DEF m
    <2>5. AsLong(a, b) = OfLimbs(m) BY <1>1, <1>5, <2>2, <2>4
    <2>6. Rdx(m) = Rdx(a) + t BY <1>1, <1>2, <2>2
    <2>7. AsLong(a, b) = Num(a.neg, (Rdx(a) + t) * BaseDigs, Zeros(t) \o a.num) BY <1>1, <2>3, <2>5, <2>6
    <2>8. lb <= t + la BY <2>1
    <2> QED BY <1>3, <1>4, <2>7, <2>8
  <1>7. CASE ~(lb > la)
    <2>1. AsLong(a, b) = OfLimbs(a) BY <1>3, <1>4, <1>7 DEF AsLong
    <2>2. OfLimbs(a) = Num(a.neg, Rdx(a) * BaseDigs, a.num) BY <1>5, OfLimbsIs
    <2>3. Rdx(a) = Rdx(a) + 0 /\ lb <= 0 + la BY <1>2, <1>7
    <2>4. Zeros(0) \o a.num = a.num BY <1>1, ZerosJoin
    <2>5. AsLong(a, b) = Num(a.neg, (Rdx(a) + 0) * BaseDigs, Zeros(0) \o a.num) BY <2>1, <2>2, <2>3, <2>4, Zenon
    <2> QED BY <1>3, <1>4, <2>3, <2>5
  <1> QED BY <1>6, <1>7

\* bc_num_d(): what is divided is the dividend with e limbs more behind its point, as
\* many below it as the divisor has behind its own, and a zero above.
LEMMA DividendIs ==
    ASSUME Based, Digits, NEW a, NEW b, Number(a), Number(b), ~IsZero(a), ~IsZero(b), NEW scale \in Nat
    PROVE  \E e \in Nat :
              /\ OneMore(ForScale(ForPoint(AsLong(a, b), b), scale))
                   = Num(FALSE, (Rdx(a) + e) * BaseDigs, Append(Zeros(Rdx(b) + e) \o a.num, 0))
              /\ RdxOf(scale) <= Rdx(a) + e
              /\ Len(b.num) <= e + Len(a.num)
  <1>1. PICK neg \in BOOLEAN, y \in Seq(Digit) : neg = a.neg /\ y = a.num /\ y # <<>> BY NonZero
  <1>2. PICK ra \in Nat, la \in Nat : ra = Rdx(a) /\ la = Len(a.num) /\ ra <= la
    BY NonZero
  <1>3. PICK sb \in Nat : sb = b.scale /\ Rdx(b) = RdxOf(sb) BY NonZero
  <1>4. PICK rb \in Nat, lb \in Nat : rb = Rdx(b) /\ lb = Len(b.num) BY NonZero
  <1>5. PICK rs \in Nat : rs = RdxOf(scale) BY RdxGrows
  <1>6. PICK e \in Nat : /\ AsLong(a, b) = Num(neg, (ra + e) * BaseDigs, Zeros(e) \o y)
                         /\ lb <= e + la
    BY <1>1, <1>2, <1>4, AsLongIs
  <1>7. PICK m \in Nat : m = ra + e OBVIOUS
  <1>8. m * BaseDigs \in Nat BY DEF Digits
  <1> DEFINE f == ForPoint(AsLong(a, b), b)  g == ForScale(f, scale)
  <1>9. f = Num(neg, m * BaseDigs, Zeros(rb + e) \o y)
    <2> DEFINE n == Num(neg, m * BaseDigs, Zeros(e) \o y)
    <2>1. Extend(n, sb) = Num(neg, m * BaseDigs + sb, Zeros(RdxOf(sb) + e) \o y)
      <3>1. LET r == Num(neg, m * BaseDigs + sb, Zeros(RdxOf(sb) + e) \o y)
            IN  Extend(n, sb) = r /\ Rdx(r) = m + RdxOf(sb)
        BY <1>1, ExtendedScale
      <3> QED BY <3>1
    <2>2. n.scale = m * BaseDigs BY DEF Num
    <2>3. AsLong(a, b) = n BY <1>6, <1>7
    <2> HIDE DEF n
    <2>4. f = [Extend(n, sb) EXCEPT !.scale = n.scale] BY <1>3, <2>3 DEF ForPoint
    <2> HIDE DEF f
    <2> QED BY <1>3, <1>4, <2>1, <2>2, <2>4, OfLimbsIs
  <1>10. f.scale = m * BaseDigs BY <1>9 DEF Num
  <1> HIDE DEF f
  <1>11. PICK h \in Nat : /\ g = Num(neg, (ra + h) * BaseDigs, Zeros(rb + h) \o y)
                          /\ rs <= ra + h /\ e <= h
    <2>1. CASE scale > f.scale
      <3>1. PICK z \in Nat : z = rb + e OBVIOUS
      <3> DEFINE n == Num(neg, m * BaseDigs, Zeros(z) \o y)
                 k == Num(neg, m * BaseDigs + scale, Zeros(RdxOf(scale) + z) \o y)
      <3>2. Extend(n, scale) = k /\ Rdx(k) = m + RdxOf(scale) BY <1>1, ExtendedScale
      <3>3. f = n BY <1>9, <3>1
      <3>4. OfLimbs(k) = Num(neg, Rdx(k) * BaseDigs, Zeros(RdxOf(scale) + z) \o y) BY OfLimbsIs
      <3> HIDE DEF n, k
      <3>5. g = OfLimbs(k) BY <2>1, <3>2, <3>3 DEF ForScale
      <3>6. PICK h \in Nat : h = e + rs OBVIOUS
      <3>7. m + rs = ra + h /\ rs + z = rb + h /\ rs <= ra + h /\ e <= h BY <1>7, <3>1, <3>6
      <3>8. g = Num(neg, (ra + h) * BaseDigs, Zeros(rb + h) \o y) BY <1>5, <3>2, <3>4, <3>5, <3>7
      <3> QED BY <3>7, <3>8
    <2>2. CASE ~(scale > f.scale)
      <3>1. g = f BY <2>2 DEF ForScale
      <3>2. RdxOf(m * BaseDigs) = m BY RdxCovers
      <3>3. scale <= m * BaseDigs BY <1>8, <1>10, <2>2
      <3>4. rs <= m BY <1>5, <1>8, <3>2, <3>3, RdxGrows
      <3>5. e <= e /\ rs <= ra + e BY <1>7, <3>4
      <3> QED BY <1>7, <1>9, <3>1, <3>5
    <2> QED BY <2>1, <2>2
  <1> HIDE DEF g
  <1>12. PICK z \in Nat, d \in Nat : z = rb + h /\ d = ra + h OBVIOUS
  <1> DEFINE x == Zeros(z) \o y  w == Append(x, 0)
  <1>13. w = Append(x, 0) /\ Len(w) = (z + la) + 1
    <2>1. x \in Seq(Digit) /\ Len(x) = z + Len(y) BY <1>1, ZerosBelow
    <2> HIDE DEF x
    <2>2. Len(Append(x, 0)) = Len(x) + 1 BY <2>1
    <2>3. Len(y) = la BY <1>1, <1>2
    <2>4. w = Append(x, 0) OBVIOUS
    <2> HIDE DEF w
    <2> QED BY <2>1, <2>2, <2>3, <2>4
  <1>14. OneMore(g) = Num(FALSE, d * BaseDigs, w)
    <2>1. g.num = x /\ g.scale = d * BaseDigs BY <1>11, <1>12 DEF Num
    <2>2. RdxOf(d * BaseDigs) = d BY RdxCovers
    <2> HIDE DEF x, w
    <2>3. d # Len(w)
      <3>1. Len(w) = z + la + 1 BY <1>13
      <3>2. d < z + la + 1
        <4>1. ra <= la /\ d = ra + h /\ z = rb + h BY <1>2, <1>12
        <4> QED BY <4>1
      <3> QED BY <3>1, <3>2
    <2> QED BY <1>13, <2>1, <2>2, <2>3 DEF OneMore
  <1>15. lb <= h + la BY <1>6, <1>11
  <1> HIDE DEF w
  <1>16. OneMore(g) = Num(FALSE, (ra + h) * BaseDigs, Append(Zeros(rb + h) \o a.num, 0)) BY <1>1, <1>12, <1>14 DEF w
  <1> QED BY <1>2, <1>4, <1>5, <1>11, <1>15, <1>16 DEF g, f

\* A factor cancels.
LEMMA Cancel ==
    \A u \in Nat \ {0} : \A x, y \in Nat : u * x = u * y => x = y
  <1>1. \A u \in Nat \ {0} : \A x, y \in Nat : x < y => u * x < u * y
    <2> TAKE u \in Nat \ {0}
    <2> TAKE x, y \in Nat
    <2> HAVE x < y
    <2>1. PICK e \in Nat : y = x + e + 1
      <3>1. y - x - 1 \in Nat /\ y = x + (y - x - 1) + 1 OBVIOUS
      <3> QED BY <3>1
    <2>2. u * y = u * x + u * e + u /\ u * e \in Nat /\ u * x \in Nat BY <2>1
    <2> QED BY <2>2
  <1> TAKE u \in Nat \ {0}
  <1> TAKE x, y \in Nat
  <1> HAVE u * x = u * y
  <1>2. PICK s \in Nat, t \in Nat : s = u * x /\ t = u * y OBVIOUS
  <1>3. ~(x < y) /\ ~(y < x) BY <1>1, <1>2
  <1> QED BY <1>3

\* Digits that are cut off at p.
LEMMA Floored ==
    /\ \A p \in Nat \ {0} : \A k \in Nat : (p * k) % p = 0
    /\ \A p \in Nat \ {0} : \A c \in Nat : c - (c % p) \in Nat /\ (c - (c % p)) % p = 0
    /\ \A p \in Nat \ {0} : \A c \in Nat : c % p = 0 => \E k \in Nat : c = p * k
  <1>1. ASSUME NEW p \in Nat \ {0}, NEW k \in Nat PROVE (p * k) % p = 0
    <2>1. p * k + 0 = p * k /\ 0 \in 0..(p - 1) /\ k \in Int OBVIOUS
    <2>2. (p * k + 0) % p = 0 BY <2>1, RemainderIs
    <2> QED BY <2>1, <2>2
  <1>2. ASSUME NEW p \in Nat \ {0}, NEW c \in Nat
        PROVE  \E k \in Nat : c - (c % p) = p * k /\ c % p \in Nat
    <2>1. PICK k \in Nat : k = c \div p BY GoesIs
    <2>2. PICK r \in 0..(p - 1) : r = c % p /\ c = p * k + r
      <3>1. c \in Int OBVIOUS
      <3> QED BY <2>1, <3>1, Quotients
    <2>3. PICK m \in Nat : m = p * k OBVIOUS
    <2>4. c - r = m BY <2>2, <2>3
    <2>5. c - (c % p) = p * k /\ c % p \in Nat BY <2>2, <2>3, <2>4
    <2> QED BY <2>5
  <1>3. ASSUME NEW p \in Nat \ {0}, NEW c \in Nat
        PROVE  c - (c % p) \in Nat /\ (c - (c % p)) % p = 0
    <2>1. PICK k \in Nat : c - (c % p) = p * k BY <1>2
    <2>2. PICK m \in Nat : m = p * k OBVIOUS
    <2>3. m % p = 0 BY <1>1, <2>2
    <2> QED BY <2>1, <2>2, <2>3
  <1>4. ASSUME NEW p \in Nat \ {0}, NEW c \in Nat, c % p = 0 PROVE \E k \in Nat : c = p * k
    <2>1. PICK k \in Nat : c - (c % p) = p * k BY <1>2
    <2>2. c - (c % p) = c BY <1>4
    <2> QED BY <2>1, <2>2
  <1> QED BY <1>1, <1>3, <1>4

\* v is w without its lowest limbs, worth u, and without the digits below p.
Shorn(w, u, p, v) == u * v = Cut(w, u * p)

\* It is then the quotient by u, without the digits below p.
LEMMA FlooredLimbs ==
    \A u, p \in Nat \ {0} : \A w, v \in Nat :
        Shorn(w, u, p, v) => \E q \in Nat : Goes(w, u, q) /\ v = Cut(q, p)
  <1> TAKE u, p \in Nat \ {0}
  <1> TAKE w, v \in Nat
  <1> HAVE Shorn(w, u, p, v)
  <1>1. PICK q \in Nat : q = w \div u /\ Goes(w, u, q) BY GoesIs
  <1>2. PICK low \in Nat : w = u * q + low /\ low < u
    <2>1. w \in Int OBVIOUS
    <2>2. w % u \in 0..(u - 1) /\ w = u * q + (w % u) BY <1>1, <2>1, Quotients
    <2> QED BY <2>2
  <1>3. u * Cut(q, p) = Cut(w, u * p)
    <2>1. PICK k \in Nat : k = q \div p BY GoesIs
    <2>2. PICK r \in 0..(p - 1) : r = q % p /\ q = p * k + r
      <3>1. q \in Int OBVIOUS
      <3> QED BY <2>1, <3>1, Quotients
    <2>3. PICK m \in Nat, d \in Nat \ {0} : m = p * k /\ d = u * p
      <3>1. p \in Nat /\ u \in Nat /\ p >= 1 /\ u >= 1 OBVIOUS
      <3>2. u * p \in Nat /\ u * p >= u BY <3>1, AboveFactors
      <3>3. p * k \in Nat /\ u * p \in Nat \ {0} BY <3>1, <3>2
      <3> QED BY <3>3
    <2>4. PICK z \in 0..(d - 1) : z = u * r + low
      <3>1. PICK e \in Nat : p = r + e + 1
        <4>1. p - r - 1 \in Nat /\ p = r + (p - r - 1) + 1 OBVIOUS
        <4> QED BY <4>1
      <3>2. r \in Nat OBVIOUS
      <3>3. d = u * r + u * e + u /\ u * r \in Nat /\ u * e \in Nat BY <2>3, <3>1, <3>2
      <3> QED BY <1>2, <3>3
    <2>5. w = d * k + z
      <3>1. \A f, g, h, i, j \in Nat : f * (g * h + i) + j = (f * g) * h + (f * i + j) OBVIOUS
      <3>2. r \in Nat OBVIOUS
      <3> QED BY <1>2, <2>2, <2>3, <2>4, <3>1, <3>2
    <2>6. PICK y \in Nat : y = d * k /\ y = u * m
      <3>1. \A f, g, h \in Nat : (f * g) * h = f * (g * h) /\ (f * g) * h \in Nat OBVIOUS
      <3> QED BY <2>3, <3>1
    <2>7. w % d = z
      <3>1. k \in Int OBVIOUS
      <3> QED BY <2>5, <3>1, RemainderIs
    <2>8. Cut(w, d) = y BY <2>5, <2>6, <2>7 DEF Cut
    <2>9. Cut(q, p) = m BY <2>2, <2>3 DEF Cut
    <2> QED BY <2>3, <2>6, <2>8, <2>9
  <1>4. PICK t \in Nat : t = Cut(q, p) BY Floored DEF Cut
  <1>5. u * t = u * v BY <1>3, <1>4 DEF Shorn
  <1>6. t = v BY <1>5, Cancel
  <1>7. Goes(w, u, q) /\ v = Cut(q, p) BY <1>1, <1>4, <1>6
  <1> QED BY <1>7

\* bc_num_retireMul() of a number that already has the scale asked for.
LEMMA RetireSame ==
    ASSUME Based, Digits, NEW n \in [neg : BOOLEAN, scale : Nat, num : Seq(Digit)],
           NEW scale, scale = n.scale, NEW neg \in BOOLEAN
    PROVE  LET r == Retire(n, scale, neg)
           IN  /\ Number(r) /\ r.scale = scale /\ Worth(r.num) = Worth(n.num)
               /\ ~IsZero(r) => r.neg = neg
  <1>1. n.scale \in Nat OBVIOUS
  <1>2. ~(n.scale < scale) /\ n.scale - scale = 0 BY <1>1
  <1>3. ToScale(n, scale) = n BY <1>2 DEF ToScale, Truncate
  <1>4. Retire(n, scale, neg) = Signed(Clean(n), neg) BY <1>3 DEF Retire
  <1>5. LET r == Signed(Clean(n), neg)
        IN  /\ Number(r) /\ r.scale = n.scale /\ Worth(r.num) = Worth(n.num)
            /\ ~IsZero(r) => r.neg = neg
    BY Retired
  <1> QED BY <1>4, <1>5

\* No digit of n is beyond its scale.
Tidy(n) == Worth(n.num) % LeastSigPow(n.scale) = 0

\* Limbs put below a number leave it so, and none put below but a greater scale too.
LEMMA TidyBelow ==
    ASSUME Digits, Exponents, NEW w \in Nat, NEW s \in Nat, NEW t \in Nat, s <= t,
           NEW k \in Nat, RdxOf(t) = k + RdxOf(s), w % LeastSigPow(s) = 0
    PROVE  (Worth(Unit(k)) * w) % LeastSigPow(t) = 0
  <1>1. Based /\ Places BY BaseIs
  <1>2. LeastSigPow(s) \in Nat \ {0} BY <1>1 DEF Places
  <1>3. PICK p \in Nat \ {0}, m \in Nat : p = LeastSigPow(t) /\ BasePow = p * m BY <1>1 DEF Places
  <1>4. CASE k = 0
    <2>1. RdxOf(s) \in Nat BY RdxGrows
    <2>2. RdxOf(s) = RdxOf(t) BY <1>4, <2>1
    <2>3. PICK c \in Nat : LeastSigPow(s) = p * c BY <1>3, <2>2, BaseIs
    <2>4. PICK j \in Nat : w = LeastSigPow(s) * j BY <1>2, Floored
    <2>5. w = p * (c * j) /\ c * j \in Nat BY <2>3, <2>4
    <2>6. Worth(Unit(0)) * w = w
      <3>1. Worth(Unit(0)) = 1 BY <1>1, UnitZero
      <3> QED BY <3>1
    <2>7. w % p = 0 BY <2>5, Floored
    <2> QED BY <1>3, <1>4, <2>6, <2>7
  <1>5. CASE k # 0
    <2>1. PICK j \in Nat : k = j + 1
      <3>1. k - 1 \in Nat /\ k = (k - 1) + 1 BY <1>5
      <3> QED BY <3>1
    <2>2. PICK u \in Nat : u = Worth(Unit(j)) BY <1>1, UnitIs
    <2>3. Worth(Unit(k)) = BasePow * u BY <1>1, <2>1, <2>2, UnitNext
    <2>4. PICK v \in Nat : v = m * u /\ Worth(Unit(k)) = p * v
      <3>1. (p * m) * u = p * (m * u) OBVIOUS
      <3> QED BY <1>3, <2>3, <3>1
    <2>5. Worth(Unit(k)) * w = p * (v * w) /\ v * w \in Nat BY <2>4
    <2>6. (p * (v * w)) % p = 0 BY <2>5, Floored
    <2> QED BY <1>3, <2>5, <2>6
  <1> QED BY <1>4, <1>5

\* bc_num_d() by one: only the scale may change.
LEMMA ByOne ==
    ASSUME Digits, Exponents, NEW a, Number(a), ~IsZero(a), Tidy(a), NEW scale \in Nat, NEW neg \in BOOLEAN
    PROVE  LET r == Retire(a, scale, neg)
           IN  \E c \in Nat : /\ Goes(Worth(Unit(RdxOf(scale))) * Worth(a.num), Worth(Unit(Rdx(a))), c)
                              /\ Holds(r, scale, neg, c)
  <1> DEFINE r == Retire(a, scale, neg)
  <1>1. Based /\ Places BY BaseIs
  <1>2. PICK x \in Seq(Digit) : x = a.num /\ x # <<>> BY <1>1, NonZero
  <1>3. PICK s \in Nat : s = a.scale BY <1>1, NonZero
  <1>4. a = Num(a.neg, s, x) BY <1>1, <1>2, <1>3, NonZero
  <1>5. PICK ra \in Nat : ra = RdxOf(s) /\ ra = Rdx(a) BY <1>1, <1>3, NonZero
  <1>6. PICK rs \in Nat : rs = RdxOf(scale) BY RdxGrows
  <1>7. PICK w \in Nat : w = Worth(x) BY <1>1, WorthIsNat
  <1>8. PICK p \in Nat \ {0} : p = LeastSigPow(scale) BY <1>1 DEF Places
  <1>9. w % LeastSigPow(s) = 0 BY <1>2, <1>3, <1>7 DEF Tidy
  <1>10. a \in [neg : BOOLEAN, scale : Nat, num : Seq(Digit)] BY <1>1, NonZero
  <1>11. CASE s <= scale
    <2>1. PICK k \in Nat : rs = k + ra
      <3>1. ra <= rs BY <1>5, <1>6, <1>11, RdxGrows
      <3>2. rs - ra \in Nat /\ rs = (rs - ra) + ra BY <3>1
      <3> QED BY <3>2
    <2>2. PICK u \in Nat \ {0}, v \in Nat \ {0} : u = Worth(Unit(ra)) /\ v = Worth(Unit(k))
      <3>1. Worth(Unit(ra)) \in Nat /\ Worth(Unit(ra)) >= 1 /\ Worth(Unit(k)) \in Nat /\ Worth(Unit(k)) >= 1 BY <1>1, UnitIs
      <3> QED BY <3>1
    <2>3. Worth(Unit(rs)) = v * u BY <1>1, <2>1, <2>2, UnitTimes
    <2>4. PICK c \in Nat : c = v * w OBVIOUS
    <2>5. c % p = 0
      <3>1. (Worth(Unit(k)) * w) % LeastSigPow(scale) = 0 BY <1>5, <1>6, <1>9, <1>11, <2>1, TidyBelow
      <3> QED BY <1>8, <2>2, <2>4, <3>1
    <2>6. Goes((v * u) * w, u, c)
      <3>1. \A f, g, h \in Nat : (f * g) * h = g * (f * h) OBVIOUS
      <3>2. (v * u) * w = u * c BY <2>4, <3>1
      <3>3. u * (c + 1) = u * c + u /\ u * c \in Nat OBVIOUS
      <3> QED BY <3>2, <3>3 DEF Goes
    <2>7. PICK n : n = ToScale(a, scale) OBVIOUS
    <2>8. n \in [neg : BOOLEAN, scale : Nat, num : Seq(Digit)] /\ n.scale = scale /\ Worth(n.num) = c
      <3>1. CASE s = scale
        <4>1. n = a BY <1>3, <2>7, <3>1 DEF ToScale, Truncate
        <4>2. k = 0
          <5>1. rs = ra BY <1>5, <1>6, <3>1
          <5> QED BY <2>1, <5>1
        <4>3. v = 1 BY <1>1, <2>2, <4>2, UnitZero
        <4>4. c = w BY <2>4, <4>3
        <4> QED BY <1>2, <1>3, <1>7, <1>10, <3>1, <4>1, <4>4
      <3>2. CASE s # scale
        <4>1. PICK t \in Nat : t = scale - s /\ s + t = scale
          <5>1. scale - s \in Nat /\ s + (scale - s) = scale BY <1>11
          <5> QED BY <5>1
        <4>2. s < scale BY <1>11, <3>2
        <4>3. n = Extend(a, t) BY <1>3, <2>7, <4>1, <4>2 DEF ToScale
        <4>4. /\ Rdx(Num(a.neg, s, x)) = RdxOf(s)
              /\ Extend(Num(a.neg, s, x), t) = Num(a.neg, s + t, Zeros(RdxOf(s + t) - RdxOf(s)) \o x)
          <5>1. x # <<>> BY <1>2
          <5>2. PICK g : g = a.neg OBVIOUS
          <5>3. /\ Rdx(Num(g, s, x)) = RdxOf(s)
                /\ Extend(Num(g, s, x), t) = Num(g, s + t, Zeros(RdxOf(s + t) - RdxOf(s)) \o x)
            BY <5>1, ExtendIs
          <5> QED BY <5>2, <5>3
        <4>5. RdxOf(s + t) - RdxOf(s) = k
          <5>1. RdxOf(s + t) = rs /\ RdxOf(s) = ra BY <1>5, <1>6, <4>1
          <5>2. rs - ra = k BY <2>1
          <5> QED BY <5>1, <5>2
        <4>6. n = Num(a.neg, scale, Zeros(k) \o x) BY <1>4, <4>1, <4>3, <4>4, <4>5
        <4>7. Zeros(k) \o x \in Seq(Digit) BY <1>1, ZerosBelow
        <4>8. Worth(Zeros(k) \o x) = c BY <1>1, <1>7, <2>2, <2>4, ZerosWorth
        <4>9. a.neg \in BOOLEAN BY <1>10
        <4> QED BY <4>6, <4>7, <4>8, <4>9 DEF Num
      <3> QED BY <3>1, <3>2
    <2>9. r = Signed(Clean(n), neg) BY <2>7 DEF Retire
    <2> HIDE DEF r
    <2>10. LET q == Signed(Clean(n), neg)
           IN  /\ Number(q) /\ q.scale = n.scale /\ Worth(q.num) = Worth(n.num)
               /\ ~IsZero(q) => q.neg = neg
      BY <1>1, <2>8, Retired
    <2>11. /\ Number(r) /\ r.scale = scale /\ Worth(r.num) = c
           /\ ~IsZero(r) => r.neg = neg
      BY <2>8, <2>9, <2>10
    <2>12. c = Cut(c, p) BY <2>5 DEF Cut
    <2>13. Goes(Worth(Unit(RdxOf(scale))) * Worth(a.num), Worth(Unit(Rdx(a))), c)
      BY <1>2, <1>5, <1>6, <1>7, <2>2, <2>3, <2>6
    <2> QED BY <1>8, <2>11, <2>12, <2>13 DEF r, Holds
  <1>12. CASE ~(s <= scale)
    <2>1. PICK t \in Nat \ {0} : t = s - scale /\ s - t = scale /\ t <= s
      <3>1. s - scale \in Nat \ {0} /\ s - (s - scale) = scale /\ s - scale <= s BY <1>12
      <3> QED BY <3>1
    <2>2. PICK k \in Nat : k = ra - rs /\ ra = k + rs
      <3>3. scale <= s BY <1>12
      <3>1. rs <= ra BY <1>5, <1>6, <3>3, RdxGrows
      <3>2. ra - rs \in Nat /\ ra = (ra - rs) + rs BY <3>1
      <3> QED BY <3>2
    <2>3. PICK n : n = Truncate(a, t) OBVIOUS
    <2>4. ~(s < scale) BY <1>12
    <2>5. r = Signed(Clean(n), neg) BY <1>3, <2>1, <2>3, <2>4 DEF Retire, ToScale
    <2> HIDE DEF r
    <2>6. LET z == a.scale - t
              j == RdxOf(a.scale) - RdxOf(z)
              q == Truncate(a, t)
          IN  /\ Number(q) /\ q.scale = z /\ j \in Nat
              /\ ~IsZero(q) => q.neg = a.neg
              /\ Worth(Unit(j)) * Worth(q.num)
                   = Worth(a.num) - (Worth(a.num) % (Worth(Unit(j)) * LeastSigPow(z)))
      BY <1>1, <1>3, <2>1, TruncateIs
    <2>7. /\ Number(n) /\ n.scale = scale
          /\ Worth(Unit(k)) * Worth(n.num) = w - (w % (Worth(Unit(k)) * p))
      BY <1>2, <1>3, <1>5, <1>6, <1>7, <1>8, <2>1, <2>2, <2>3, <2>6
    <2>8. n \in [neg : BOOLEAN, scale : Nat, num : Seq(Digit)] BY <2>7 DEF Number
    <2>9. LET q == Signed(Clean(n), neg)
          IN  /\ Number(q) /\ q.scale = n.scale /\ Worth(q.num) = Worth(n.num)
              /\ ~IsZero(q) => q.neg = neg
      BY <1>1, <2>8, Retired
    <2>10. PICK u \in Nat \ {0}, v \in Nat \ {0} : u = Worth(Unit(rs)) /\ v = Worth(Unit(k))
      <3>1. Worth(Unit(rs)) \in Nat /\ Worth(Unit(rs)) >= 1 /\ Worth(Unit(k)) \in Nat /\ Worth(Unit(k)) >= 1 BY <1>1, UnitIs
      <3> QED BY <3>1
    <2>11. Worth(Unit(ra)) = u * v
      <3>1. Worth(Unit(rs)) * Worth(Unit(k)) = Worth(Unit(rs + k)) /\ rs + k = ra BY <1>1, <2>2, UnitTimes
      <3> QED BY <2>10, <3>1
    <2>12. PICK q \in Nat : q = Worth(n.num)
      <3>1. n.num \in Seq(Digit) BY <2>8
      <3> QED BY <1>1, <3>1, WorthIsNat
    <2>13. PICK c \in Nat : Goes(w, v, c) /\ q = Cut(c, p)
      <3>1. v * q = w - (w % (v * p)) BY <2>7, <2>10, <2>12
      <3>2. Shorn(w, v, p, q) BY <3>1 DEF Shorn, Cut
      <3>3. \E h \in Nat : Goes(w, v, h) /\ q = Cut(h, p) BY <3>2, FlooredLimbs
      <3> QED BY <3>3
    <2>14. Goes(u * w, u * v, c) BY <2>13, Scaled
    <2>15. Goes(Worth(Unit(RdxOf(scale))) * Worth(a.num), Worth(Unit(Rdx(a))), c)
      BY <1>2, <1>5, <1>6, <1>7, <2>10, <2>11, <2>14
    <2>16. /\ Number(r) /\ r.scale = scale /\ Worth(r.num) = q
           /\ ~IsZero(r) => r.neg = neg
      BY <2>5, <2>7, <2>9, <2>12
    <2> QED BY <1>8, <2>13, <2>15, <2>16 DEF r, Holds
  <1> QED BY <1>11, <1>12

\* bc_num_d() of an integer by a limb.
LEMMA ByShort ==
    ASSUME Based, Digits, NEW x \in Seq(Digit), NEW d \in Digit \ {0}, NEW neg \in BOOLEAN
    PROVE  LET r == Retire(Clean(Num(FALSE, 0, DivArray(x, d).num)), 0, neg)
           IN  /\ Number(r) /\ r.scale = 0
               /\ ~IsZero(r) => r.neg = neg
               /\ Goes(Worth(x), d, Worth(r.num))
  <1> DEFINE y == DivArray(x, d).num  m == DivArray(x, d).rem
  <1>1. /\ Worth(x) = d * Worth(y) + m /\ m \in 0..(d - 1)
        /\ y \in Seq(Digit) /\ Len(y) = Len(x)
    BY ShortDivision
  <1> HIDE DEF y, m
  <1>2. PICK n : n = Clean(Num(FALSE, 0, y)) OBVIOUS
  <1>3. PICK zero \in Nat : zero = 0 OBVIOUS
  <1>4. LET r == Clean(Num(FALSE, zero, y))
        IN  /\ Number(r) /\ r.scale = zero /\ r.num \in Seq(Digit) /\ Worth(r.num) = Worth(y)
            /\ ~IsZero(r) => r.neg = FALSE
    BY <1>1, CleanWorth
  <1>5. n \in [neg : BOOLEAN, scale : Nat, num : Seq(Digit)] /\ n.scale = 0 /\ Worth(n.num) = Worth(y)
    BY <1>2, <1>3, <1>4 DEF Number
  <1>6. LET r == Retire(n, 0, neg)
        IN  /\ Number(r) /\ r.scale = 0 /\ Worth(r.num) = Worth(n.num)
            /\ ~IsZero(r) => r.neg = neg
    BY <1>5, RetireSame
  <1>7. PICK q \in Nat, k \in Nat : q = Worth(y) /\ d \in Nat /\ k = d * q
    <2>1. Worth(y) \in Nat /\ d \in Nat BY <1>1, WorthIsNat DEF Based, Digit
    <2>2. d * Worth(y) \in Nat BY <2>1
    <2> QED BY <2>1, <2>2
  <1>8. d * (q + 1) = k + d BY <1>7
  <1>9. k <= Worth(x) /\ Worth(x) < k + d BY <1>1, <1>7
  <1>10. Goes(Worth(x), d, q) BY <1>7, <1>8, <1>9 DEF Goes
  <1> QED BY <1>2, <1>5, <1>6, <1>7, <1>10 DEF y

\* bc_num_d(): the divisor without the zeros above its limbs.
LEMMA DivisorIs ==
    ASSUME Based, Digits, NEW b, Number(b), ~IsZero(b)
    PROVE  LET y == IF Rdx(b) = Len(b.num) THEN Strip(b.num) ELSE b.num
           IN  /\ Proper(y) /\ y \in Seq(Digit) /\ y # <<>>
               /\ Len(y) <= Len(b.num) /\ Worth(y) = Worth(b.num)
  <1>1. PICK x \in Seq(Digit) : x = b.num /\ Worth(x) \in Nat \ {0} /\ Len(x) \in Nat BY NonZero
  <1>2. Rdx(b) = RdxOf(b.scale) /\ Rdx(b) \in Nat BY NonZero
  <1>3. Len(x) >= Rdx(b) /\ (Len(x) > Rdx(b) => x[Len(x)] # 0) BY <1>1, <1>2 DEF Number
  <1>4. \A y \in Seq(Digit) : Worth(y) # 0 => y # <<>> BY EmptyWorth
  <1>5. CASE Rdx(b) = Len(x)
    <2>1. Proper(Strip(x)) /\ Len(Strip(x)) <= Len(x) /\ Worth(Strip(x)) = Worth(x) BY StripIs
    <2>2. Strip(x) \in Seq(Digit) BY <2>1 DEF Proper
    <2>3. Strip(x) # <<>> BY <1>1, <1>4, <2>1, <2>2
    <2> QED BY <1>1, <1>5, <2>1, <2>2, <2>3
  <1>6. CASE Rdx(b) # Len(x)
    <2>1. x[Len(x)] # 0 BY <1>1, <1>2, <1>3, <1>6
    <2>2. Proper(x) BY <2>1 DEF Proper
    <2>3. x # <<>> BY <1>1, <1>4
    <2> QED BY <1>1, <1>6, <2>2, <2>3
  <1> QED BY <1>5, <1>6

\* bc_num_d(), where it calls bc_num_d_long().
Long(a, b, scale, neg) ==
    LET divisor == Num(FALSE, 0, IF Rdx(b) = Len(b.num) THEN Strip(b.num) ELSE b.num)
    IN  Retire(DivLong(OneMore(ForScale(ForPoint(AsLong(a, b), b), scale)), divisor, scale), scale, neg)

\* r is the quotient of a and b, with the digits down to scale and the sign asked for.
IsQuotient(r, a, b, scale, neg) ==
    \E c \in Nat : /\ Goes(Worth(Unit(Rdx(b) + RdxOf(scale))) * Worth(a.num), Worth(Unit(Rdx(a))) * Worth(b.num), c)
                  /\ Holds(r, scale, neg, c)

\* bc_num_d() by the long division.
LEMMA ByLong ==
    ASSUME Digits, Exponents, NEW a, NEW b, Number(a), Number(b), ~IsZero(a), ~IsZero(b),
           NEW scale \in Nat, NEW neg \in BOOLEAN
    PROVE  IsQuotient(Long(a, b, scale, neg), a, b, scale, neg)
  <1> DEFINE y == IF Rdx(b) = Len(b.num) THEN Strip(b.num) ELSE b.num
             n == OneMore(ForScale(ForPoint(AsLong(a, b), b), scale))
             r == Retire(DivLong(n, Num(FALSE, 0, y), scale), scale, neg)
  <1>1. Based /\ Places BY BaseIs
  <1>2. PICK x \in Seq(Digit) : x = a.num BY <1>1, NonZero
  <1>3. PICK ra \in Nat, la \in Nat : ra = Rdx(a) /\ la = Len(x) /\ ra <= la BY <1>1, <1>2, NonZero
  <1>4. PICK rb \in Nat, lb \in Nat : rb = Rdx(b) /\ lb = Len(b.num) BY <1>1, NonZero
  <1>5. PICK rs \in Nat : rs = RdxOf(scale) BY RdxGrows
  <1>6. PICK wa \in Nat, wb \in Nat : wa = Worth(x) /\ wb = Worth(b.num) BY <1>1, <1>2, NonZero
  <1>7. y \in Seq(Digit) /\ Proper(y) /\ y # <<>> /\ Len(y) <= lb /\ Worth(y) = wb BY <1>1, <1>4, <1>6, DivisorIs
  <1>8. PICK e \in Nat : /\ n = Num(FALSE, (ra + e) * BaseDigs, Append(Zeros(rb + e) \o x, 0))
                         /\ rs <= ra + e /\ lb <= e + la
    BY <1>1, <1>2, <1>3, <1>4, <1>5, DividendIs
  <1> HIDE DEF y, n
  <1>9. PICK d \in Nat, z \in Nat, j \in Nat : d = ra + e /\ z = rb + e /\ j = d - rs /\ rs + j = ra + e
    <2>1. (ra + e) - rs \in Nat /\ rs + ((ra + e) - rs) = ra + e BY <1>8
    <2> QED BY <2>1
  <1>10. PICK w : w = Append(Zeros(z) \o x, 0) OBVIOUS
  <1>11. w \in Seq(Digit) /\ Len(w) = (z + la) + 1 /\ w[Len(w)] = 0 /\ Worth(w) = Worth(Unit(z)) * wa
    <2>1. PICK v : v = Zeros(z) \o x OBVIOUS
    <2>2. v \in Seq(Digit) /\ Len(v) = z + la BY <1>1, <1>3, <2>1, ZerosBelow
    <2>3. Worth(v) = Worth(Unit(z)) * wa BY <1>1, <1>6, <2>1, ZerosWorth
    <2>4. w = Append(v, 0) BY <1>10, <2>1
    <2>5. 0 \in Digit BY <1>1 DEF Based, Digit
    <2>6. w \in Seq(Digit) BY <2>2, <2>4, <2>5
    <2>7. Len(w) = Len(v) + 1 BY <2>2, <2>4
    <2>8. w[Len(v) + 1] = 0 BY <2>2, <2>4
    <2>9. \A i \in Nat \ {0} : Limb(w, i) = Limb(v, i)
      <3> TAKE i \in Nat \ {0}
      <3>1. Len(v) \in Nat /\ DOMAIN v = 1..Len(v) /\ DOMAIN w = 1..Len(w) BY <1>1, <2>2, <2>6, DomainIs
      <3>2. CASE i <= Len(v)
        <4>1. i \in 1..Len(v) /\ i \in 1..Len(w) BY <2>7, <3>1, <3>2
        <4>2. w[i] = v[i] BY <2>2, <2>4, <4>1
        <4> QED BY <3>1, <4>1, <4>2 DEF Limb
      <3>3. CASE i = Len(v) + 1
        <4>1. i \notin 1..Len(v) /\ i \in 1..Len(w) BY <2>7, <3>1, <3>3
        <4> QED BY <2>8, <3>1, <3>3, <4>1 DEF Limb
      <3>4. CASE i > Len(v) + 1
        <4>1. i \notin 1..Len(v) /\ i \notin 1..Len(w) BY <2>7, <3>1, <3>4
        <4> QED BY <3>1, <4>1 DEF Limb
      <3> QED BY <3>1, <3>2, <3>3, <3>4
    <2>10. Worth(w) = Worth(v) BY <1>1, <2>2, <2>6, <2>9, SameLimbs
    <2> QED BY <2>2, <2>3, <2>6, <2>7, <2>8, <2>10
  <1>12. n = Num(FALSE, d * BaseDigs, w) BY <1>8, <1>9, <1>10
  <1>13. w # <<>> /\ d < Len(w) /\ Len(y) < Len(w) /\ rs <= d
    <2>1. PICK lw \in Nat, ly \in Nat : lw = Len(w) /\ ly = Len(y) BY <1>1, <1>7, <1>11, DomainIs
    <2>2. lw = (z + la) + 1 /\ ly <= lb BY <1>7, <1>11, <2>1
    <2>6. ra <= la /\ rs <= ra + e /\ lb <= e + la /\ d = ra + e /\ z = rb + e BY <1>3, <1>8, <1>9
    <2>3. d < lw /\ ly < lw /\ rs <= d
      <3>1. \A p, q, g, h, s, t, u \in Nat :
               p <= q /\ g <= s + q /\ u <= g => p + s < ((h + s) + q) + 1 /\ u < ((h + s) + q) + 1
        OBVIOUS
      <3>2. lw = ((rb + e) + la) + 1 BY <2>2, <2>6
      <3>3. ra + e < ((rb + e) + la) + 1 /\ ly < ((rb + e) + la) + 1 BY <2>1, <2>2, <2>6, <3>1
      <3> QED BY <2>6, <3>2, <3>3
    <2>4. lw # 0 BY <2>2
    <2>5. w # <<>> BY <2>1, <2>4
    <2> QED BY <2>1, <2>3, <2>5
  <1>14. PICK m : m = DivLong(n, Num(FALSE, 0, y), scale) OBVIOUS
  <1>15. RdxOf(scale) <= d BY <1>5, <1>13
  <1>16. LET h == DivLong(Num(FALSE, d * BaseDigs, w), Num(FALSE, 0, y), scale)
             i == d - RdxOf(scale)
         IN  \E c \in Seq(Digit) : /\ h = Num(FALSE, d * BaseDigs, c) /\ Len(c) = Len(w)
                                   /\ Goes(Worth(w), Worth(Unit(i)) * Worth(y), Worth(Drop(c, i)))
    BY <1>7, <1>11, <1>13, <1>15, DivLongIs
  <1>17. PICK c \in Seq(Digit) : /\ m = Num(FALSE, d * BaseDigs, c) /\ Len(c) = Len(w)
                                 /\ Goes(Worth(w), Worth(Unit(j)) * wb, Worth(Drop(c, j)))
    BY <1>5, <1>7, <1>9, <1>12, <1>14, <1>16
  <1>18. d < Len(c) BY <1>13, <1>17
  <1>24. j = d - RdxOf(scale) BY <1>5, <1>9
  <1>19. Holds(Retire(Num(FALSE, d * BaseDigs, c), scale, neg), scale, neg, Worth(Drop(c, d - RdxOf(scale))))
    BY <1>1, <1>15, <1>18, RetireLong
  <1>20. PICK q \in Nat : q = Worth(Drop(c, j))
    <2>1. j <= Len(c)
      <3>1. PICK l \in Nat : l = Len(c) BY <1>1, DomainIs
      <3>2. d < l /\ j <= d BY <1>8, <1>9, <1>18, <3>1
      <3> QED BY <3>1, <3>2
    <2>2. Drop(c, j) \in Seq(Digit) BY <1>1, <2>1, DropIs
    <2> QED BY <1>1, <2>2, WorthIsNat
  <1>21. r = Retire(m, scale, neg) BY <1>14
  <1> HIDE DEF r
  <1>22. Holds(r, scale, neg, q)
    BY <1>17, <1>19, <1>20, <1>21, <1>24
  <1>23. Goes(Worth(Unit(rb + rs)) * wa, Worth(Unit(ra)) * wb, q)
    <2>1. ASSUME NEW i \in Nat PROVE Worth(Unit(i)) \in Nat \ {0}
      <3>1. Worth(Unit(i)) \in Nat /\ Worth(Unit(i)) >= 1 BY <1>1, UnitIs
      <3> QED BY <3>1
    <2>2. rb + rs \in Nat /\ ra \in Nat OBVIOUS
    <2>3. PICK ub \in Nat, ua \in Nat : ub = Worth(Unit(rb + rs)) /\ ua = Worth(Unit(ra)) BY <2>1, <2>2
    <2>4. PICK uz \in Nat, uj \in Nat, us \in Nat \ {0}, ue \in Nat \ {0} :
             uz = Worth(Unit(z)) /\ uj = Worth(Unit(j)) /\ us = Worth(Unit(rs)) /\ ue = Worth(Unit(e))
      BY <2>1
    <2>5. us * uz = ue * ub
      <3>1. us * uz = Worth(Unit(rs + z)) BY <1>1, <2>4, UnitTimes
      <3>2. Worth(Unit(e)) * Worth(Unit(rb + rs)) = Worth(Unit(e + (rb + rs))) BY <1>1, <2>2, UnitTimes
      <3>3. rs + z = e + (rb + rs) BY <1>9
      <3> QED BY <2>3, <2>4, <3>1, <3>2, <3>3
    <2>6. us * uj = ue * ua
      <3>1. us * uj = Worth(Unit(rs + j)) BY <1>1, <2>4, UnitTimes
      <3>2. Worth(Unit(e)) * Worth(Unit(ra)) = Worth(Unit(e + ra)) BY <1>1, UnitTimes
      <3>3. rs + j = e + ra BY <1>9
      <3> QED BY <2>3, <2>4, <3>1, <3>2, <3>3
    <2>7. Goes(uz * wa, uj * wb, q) BY <1>11, <1>17, <1>20, <2>4
    <2>8. Goes(us * (uz * wa), us * (uj * wb), q)
      <3>1. PICK f \in Nat, g \in Nat : f = uz * wa /\ g = uj * wb OBVIOUS
      <3>2. Goes(f, g, q) BY <2>7, <3>1
      <3>3. Goes(us * f, us * g, q) BY <3>2, Scaled
      <3> QED BY <3>1, <3>3
    <2>9. us * (uz * wa) = ue * (ub * wa) /\ us * (uj * wb) = ue * (ua * wb)
      <3>1. \A f, g, h \in Nat : f * (g * h) = (f * g) * h OBVIOUS
      <3>2. us * (uz * wa) = (us * uz) * wa /\ us * (uj * wb) = (us * uj) * wb BY <3>1
      <3>3. ue * (ub * wa) = (ue * ub) * wa /\ ue * (ua * wb) = (ue * ua) * wb BY <3>1
      <3> QED BY <2>5, <2>6, <3>2, <3>3
    <2>10. PICK f \in Nat, g \in Nat : f = ub * wa /\ g = ua * wb OBVIOUS
    <2>11. Goes(ue * f, ue * g, q) BY <2>8, <2>9, <2>10
    <2>12. Goes(f, g, q) BY <2>11, Scaled
    <2> QED BY <2>3, <2>10, <2>12
  <1> QED BY <1>2, <1>3, <1>4, <1>5, <1>6, <1>22, <1>23 DEF r, n, y, Long, IsQuotient

\* What holds the digits down to a scale has none beyond it.
LEMMA HoldsTidy ==
    ASSUME Digits, Exponents, NEW r, NEW scale \in Nat, NEW neg, NEW q \in Nat, Holds(r, scale, neg, q)
    PROVE  Tidy(r)
  <1>1. Places BY BaseIs
  <1>2. PICK p \in Nat \ {0} : p = LeastSigPow(scale) BY <1>1 DEF Places
  <1>3. (q - (q % p)) % p = 0 BY Floored
  <1>4. r.scale = scale /\ Worth(r.num) = q - (q % p) BY <1>2 DEF Holds, Cut
  <1> QED BY <1>2, <1>3, <1>4 DEF Tidy

\* bc_num_d(): a divided by b, whichever way it is done, is the quotient of what the limbs
\* stand for, with the digits that the scale asks for and no other, and the sign of the
\* two; a division by zero fails.
THEOREM Division ==
    ASSUME Digits, Exponents, NEW a, NEW b, Number(a), Number(b), Tidy(a), NEW scale \in Nat
    PROVE  LET r == Div(a, b, scale)
               n == Worth(Unit(Rdx(b) + RdxOf(scale))) * Worth(a.num)
               d == Worth(Unit(Rdx(a))) * Worth(b.num)
           IN  /\ IsZero(b) => Failed(r)
               /\ ~IsZero(b) => Holds(r, scale, a.neg # b.neg, n \div d) /\ Tidy(r)
  <1> DEFINE r == Div(a, b, scale)
             n == Worth(Unit(Rdx(b) + RdxOf(scale))) * Worth(a.num)
             d == Worth(Unit(Rdx(a))) * Worth(b.num)
  <1>1. Based /\ Places BY BaseIs
  <1>2. CASE IsZero(b)
    <2>1. r = [error |-> "divide by zero"] BY <1>2 DEF Div, Error
    <2> HIDE DEF r
    <2>2. DOMAIN r = {"error"} BY <2>1
    <2>3. Failed(r) BY <2>2 DEF Failed
    <2> QED BY <1>2, <2>3 DEF r
  <1>3. CASE ~IsZero(b)
    <2>1. PICK neg \in BOOLEAN : neg = (a.neg # b.neg) OBVIOUS
    <2>2. PICK rb \in Nat, wb \in Nat \ {0} : rb = Rdx(b) /\ wb = Worth(b.num) BY <1>1, <1>3, NonZero
    <2>3. PICK rs \in Nat : rs = RdxOf(scale) BY RdxGrows
    <2>4. ASSUME NEW i \in Nat PROVE Worth(Unit(i)) \in Nat \ {0}
      <3>1. Worth(Unit(i)) \in Nat /\ Worth(Unit(i)) >= 1 BY <1>1, UnitIs
      <3> QED BY <3>1
    <2>5. PICK k \in Nat \ {0} : k = Worth(Unit(rb + rs))
      <3>1. rb + rs \in Nat OBVIOUS
      <3> QED BY <2>4, <3>1
    <2>6. ~IsOne(b) \/ (wb = 1 /\ rb = 0)
      <3> SUFFICES ASSUME IsOne(b) PROVE wb = 1 /\ rb = 0 OBVIOUS
      <3>1. b.num = <<1>> /\ b.scale = 0 BY DEF IsOne
      <3>2. Rdx(b) = 0 BY <1>3, <3>1, NoRdx DEF Rdx
      <3>3. Unit(0) = <<1>>
        <4>1. <<1>> \in Seq(Digit) BY <1>1 DEF Based, Digit
        <4> QED BY <4>1, ZerosJoin DEF Unit
      <3>4. Worth(b.num) = 1 BY <1>1, <3>1, <3>3, UnitZero
      <3> QED BY <2>2, <3>2, <3>4
    <2>7. CASE IsZero(a)
      <3>1. /\ Number(Zero(scale)) /\ IsZero(Zero(scale)) /\ Zero(scale).scale = scale
            /\ Zero(scale).num = <<>> /\ ~Zero(scale).neg
        BY <1>1, ZeroIs
      <3>2. r = Zero(scale) BY <1>3, <2>7 DEF Div
      <3>3. a.num = <<>> /\ Worth(<<>>) = 0 BY <1>1, <2>7, EmptyWorth DEF IsZero
      <3>4. n = 0 BY <2>2, <2>3, <2>5, <3>3
      <3>5. PICK u \in Nat \ {0} : u = Worth(Unit(Rdx(a)))
        <4>1. Rdx(a) = 0 BY <2>7 DEF Rdx
        <4> QED BY <2>4, <4>1
      <3>6. PICK e \in Nat \ {0} : e = d
        <4>1. u * wb \in Nat /\ u * wb >= u BY AboveFactors
        <4> QED BY <2>2, <3>5, <4>1
      <3> HIDE DEF n, d, r
      <3>7. Goes(0, e, 0) BY DEF Goes
      <3>8. n \div d = 0 BY <3>4, <3>6, <3>7, GoesIs
      <3>9. Cut(0, LeastSigPow(scale)) = 0
        <4>1. PICK p \in Nat \ {0} : p = LeastSigPow(scale) BY <1>1 DEF Places
        <4>2. 0 % p = 0 BY <4>1
        <4> QED BY <4>1, <4>2 DEF Cut
      <3>10. Holds(r, scale, a.neg # b.neg, 0) BY <3>1, <3>2, <3>3, <3>9 DEF Holds
      <3>11. Tidy(r) BY <3>10, HoldsTidy
      <3> QED BY <1>3, <3>8, <3>10, <3>11 DEF n, d, r
    <2>8. CASE ~IsZero(a)
      <3>1. PICK x \in Seq(Digit), ra \in Nat, wa \in Nat, s \in Nat :
               x = a.num /\ ra = Rdx(a) /\ ra = RdxOf(s) /\ wa = Worth(x) /\ s = a.scale
        BY <1>1, <2>8, NonZero
      <3>2. PICK u \in Nat \ {0} : u = Worth(Unit(ra)) BY <2>4
      <3>3. PICK e \in Nat \ {0} : e = u * wb
        <4>1. u * wb \in Nat /\ u * wb >= u BY AboveFactors
        <4> QED BY <4>1
      <3>4. PICK m \in Nat : m = k * wa OBVIOUS
      <3>5. n = m /\ d = e BY <2>2, <2>3, <2>5, <3>1, <3>2, <3>3, <3>4
      <3> HIDE DEF n, d
      <3>6. \E c \in Nat : Goes(m, e, c) /\ Holds(r, scale, neg, c)
        <4>1. CASE IsOne(b)
          <5>1. PICK g : g = Retire(a, scale, neg) OBVIOUS
          <5>2. LET h == Retire(a, scale, neg)
                IN  \E c \in Nat : /\ Goes(Worth(Unit(RdxOf(scale))) * Worth(a.num), Worth(Unit(Rdx(a))), c)
                                   /\ Holds(h, scale, neg, c)
            BY <2>8, ByOne
          <5>3. r = g BY <1>3, <2>1, <2>8, <4>1, <5>1 DEF Div
          <5> HIDE DEF r
          <5>4. rb = 0 /\ wb = 1 BY <2>6, <4>1
          <5>5. rb + rs = rs BY <5>4
          <5>6. e = u /\ k = Worth(Unit(rs)) BY <2>5, <3>3, <5>4, <5>5
          <5> QED BY <2>3, <3>1, <3>2, <3>4, <5>1, <5>2, <5>3, <5>6
        <4>2. CASE ~IsOne(b) /\ Rdx(a) = 0 /\ Rdx(b) = 0 /\ Len(b.num) = 1 /\ scale = 0
          <5>1. PICK f \in Digit \ {0} : f = b.num[1] /\ wb = f
            <6>1. PICK y \in Seq(Digit) : y = b.num /\ Len(y) = 1 /\ wb = Worth(y) BY <1>1, <1>3, <2>2, <4>2, NonZero
            <6>2. y[1] \in Digit /\ y = <<y[1]>> BY <6>1
            <6>3. Worth(<<y[1]>>) = y[1] BY <1>1, <6>2, OneLimbWorth
            <6>4. wb = y[1] BY <6>1, <6>2, <6>3
            <6> QED BY <6>1, <6>2, <6>4
          <5>2. s = 0 BY <3>1, <4>2, RdxCovers
          <5>3. PICK g : g = Retire(Clean(Num(FALSE, 0, DivArray(x, f).num)), 0, neg) OBVIOUS
          <5>4. LET h == Retire(Clean(Num(FALSE, 0, DivArray(x, f).num)), 0, neg)
                IN  /\ Number(h) /\ h.scale = 0
                    /\ ~IsZero(h) => h.neg = neg
                    /\ Goes(Worth(x), f, Worth(h.num))
            BY <1>1, ByShort
          <5>5. r = g BY <1>3, <2>1, <2>8, <3>1, <4>2, <5>1, <5>2, <5>3 DEF Div
          <5> HIDE DEF r
          <5>6. Number(r) /\ r.scale = 0 /\ (~IsZero(r) => r.neg = neg) /\ Goes(wa, f, Worth(r.num))
            BY <3>1, <5>3, <5>4, <5>5
          <5>7. PICK c \in Nat : c = Worth(r.num)
            <6>1. r.num \in Seq(Digit) BY <5>6 DEF Number
            <6> QED BY <1>1, <6>1, WorthIsNat
          <5>8. rb = 0 /\ rs = 0 /\ ra = 0 /\ rb + rs = 0
            <6>1. RdxOf(0) = 0 BY NoRdx
            <6>2. rb = 0 /\ ra = 0 BY <2>2, <3>1, <4>2
            <6>3. rs = 0 BY <2>3, <4>2, <6>1
            <6> QED BY <6>2, <6>3
          <5>9. u = 1 /\ k = 1 BY <1>1, <2>5, <3>2, <5>8, UnitZero
          <5>10. m = wa /\ e = f BY <3>3, <3>4, <5>1, <5>9
          <5>11. Cut(c, LeastSigPow(scale)) = c
            <6>1. RdxOf(0) = 0 BY NoRdx
            <6>2. PICK q \in Int : 0 = BaseDigs * q + (0 % BaseDigs) /\ RdxOf(0) = IF 0 % BaseDigs = 0 THEN q ELSE q + 1
              BY Placing
            <6>3. 0 % BaseDigs = 0 BY DEF Digits
            <6>4. LeastSigPow(scale) = 1 BY <4>2, <6>3 DEF LeastSigPow
            <6>5. c % 1 = 0 OBVIOUS
            <6> QED BY <6>4, <6>5 DEF Cut
          <5>12. Holds(r, scale, neg, c) BY <4>2, <5>6, <5>7, <5>11 DEF Holds
          <5> QED BY <5>6, <5>7, <5>10, <5>12
        <4>3. CASE ~IsOne(b) /\ ~(Rdx(a) = 0 /\ Rdx(b) = 0 /\ Len(b.num) = 1 /\ scale = 0)
          <5>1. IsQuotient(Long(a, b, scale, neg), a, b, scale, neg) BY <1>3, <2>8, ByLong
          <5>2. r = Long(a, b, scale, neg) BY <1>3, <2>1, <2>8, <4>3 DEF Div, Long
          <5> HIDE DEF r
          <5> QED BY <2>2, <2>3, <2>5, <3>1, <3>2, <3>3, <3>4, <5>1, <5>2 DEF IsQuotient
        <4> QED BY <4>1, <4>2, <4>3
      <3> HIDE DEF r
      <3>7. PICK c \in Nat : Goes(m, e, c) /\ Holds(r, scale, neg, c) BY <3>6
      <3>8. m \div e = c BY <3>7, GoesIs
      <3>9. Tidy(r) BY <3>7, HoldsTidy
      <3> QED BY <1>3, <2>1, <3>5, <3>7, <3>8, <3>9 DEF r, n, d
    <2> QED BY <2>7, <2>8
  <1> QED BY <1>2, <1>3

\* bc_num_m(): a product too has no digit beyond its scale.
THEOREM TidyProducts ==
    ASSUME Digits, Exponents, Halving, NEW a, Number(a), NEW b, Number(b), NEW scale \in Nat
    PROVE  Tidy(Mul(a, b, scale))
  <1> DEFINE r == Mul(a, b, scale)
             real == Smaller(a.scale + b.scale, Bigger(Bigger(scale, a.scale), b.scale))
             k == (Rdx(a) + Rdx(b)) - RdxOf(real)
             q == Worth(a.num) * Worth(b.num)
  <1>1. Based /\ Places BY BaseIs
  <1>2. /\ Number(r)
        /\ IsZero(a) \/ IsZero(b) => IsZero(r)
        /\ ~IsZero(a) /\ ~IsZero(b) =>
             /\ r.scale = real /\ k \in Nat
             /\ ~IsZero(r) => r.neg = (a.neg # b.neg)
             /\ Worth(Unit(k)) * Worth(r.num) = q - (q % (Worth(Unit(k)) * LeastSigPow(real)))
    BY <1>1, Multiplication
  <1>3. r.scale \in Nat /\ r.num \in Seq(Digit) BY <1>2 DEF Number
  <1> HIDE DEF r
  <1>4. PICK p \in Nat \ {0} : p = LeastSigPow(r.scale) BY <1>1, <1>3 DEF Places
  <1>5. CASE IsZero(a) \/ IsZero(b)
    <2>1. Worth(r.num) = 0 BY <1>1, <1>2, <1>5, EmptyWorth DEF IsZero
    <2>2. 0 % p = 0 OBVIOUS
    <2> QED BY <1>4, <2>1, <2>2 DEF Tidy, r
  <1>6. CASE ~IsZero(a) /\ ~IsZero(b)
    <2>1. PICK w \in Nat : w = q
      <3>1. Worth(a.num) \in Nat /\ Worth(b.num) \in Nat BY <1>1, <1>6, NonZero
      <3> QED BY <3>1
    <2> HIDE DEF q, k, real
    <2>2. PICK u \in Nat \ {0} : u = Worth(Unit(k))
      <3>1. Worth(Unit(k)) \in Nat /\ Worth(Unit(k)) >= 1 BY <1>1, <1>2, <1>6, UnitIs
      <3> QED BY <3>1
    <2>3. PICK v \in Nat : v = Worth(r.num) BY <1>1, <1>3, WorthIsNat
    <2>4. u * v = w - (w % (u * p)) BY <1>2, <1>4, <1>6, <2>1, <2>2, <2>3
    <2>5. Shorn(w, u, p, v) BY <2>4 DEF Shorn, Cut
    <2>6. \E c \in Nat : Goes(w, u, c) /\ v = Cut(c, p) BY <2>5, FlooredLimbs
    <2>7. PICK c \in Nat : v = Cut(c, p) BY <2>6
    <2>8. v % p = 0 BY <2>7, Floored DEF Cut
    <2> QED BY <1>4, <2>3, <2>8 DEF Tidy, r
  <1> QED BY <1>5, <1>6

\* The digits that the lowest limb of a scale has left, as a power.
LEMMA LeastIs ==
    ASSUME Digits, Exponents, NEW s \in Nat
    PROVE  \E e \in Nat : LeastSigPow(s) = RadixTo(e) /\ BaseDigs * RdxOf(s) = s + e
  <1>1. PICK b \in Nat \ {0} : b = BaseDigs BY DEF Digits
  <1>2. PICK q \in Int : s = b * q + (s % b) /\ RdxOf(s) = IF s % b = 0 THEN q ELSE q + 1 BY <1>1, Placing
  <1>3. PICK d \in 0..(b - 1) : d = s % b BY Quotients
  <1>4. PICK m \in Int : m = b * q OBVIOUS
  <1>5. s = m + d /\ RdxOf(s) = IF d = 0 THEN q ELSE q + 1 BY <1>2, <1>3, <1>4
  <1>6. LeastSigPow(s) = IF d = 0 THEN 1 ELSE RadixTo(b - d) BY <1>1, <1>3 DEF LeastSigPow, RadixTo
  <1>7. CASE d = 0
    <2>1. LeastSigPow(s) = RadixTo(0) BY <1>6, <1>7, PowNext
    <2>2. b * RdxOf(s) = s + 0 BY <1>4, <1>5, <1>7
    <2> QED BY <1>1, <2>1, <2>2
  <1>8. CASE d # 0
    <2>1. PICK e \in Nat : e = b - d /\ b = d + e OBVIOUS
    <2>2. b * (q + 1) = m + b BY <1>4
    <2>3. b * RdxOf(s) = s + e BY <1>5, <1>8, <2>1, <2>2
    <2>4. LeastSigPow(s) = RadixTo(e) BY <1>6, <1>8, <2>1
    <2> QED BY <1>1, <2>3, <2>4
  <1> QED BY <1>7, <1>8

\* A place of limbs is worth a power.
LEMMA UnitPow ==
    ASSUME Digits, Exponents, NEW k \in Nat
    PROVE  Worth(Unit(k)) = RadixTo(BaseDigs * k)
  <1> DEFINE T == {i \in 0..k : Worth(Unit(i)) = RadixTo(BaseDigs * i)}
  <1>1. Based /\ BasePow = RadixTo(BaseDigs) BY BaseIs
  <1>2. PICK b \in Nat : b = BaseDigs BY DEF Digits
  <1>3. 0 \in T
    <2>1. BaseDigs * 0 = 0 BY <1>2
    <2>2. Worth(Unit(0)) = RadixTo(BaseDigs * 0) BY <1>1, <2>1, UnitZero, PowNext
    <2> QED BY <2>2
  <1>4. ASSUME NEW i \in 0..(k - 1), i \in T PROVE i + 1 \in T
    <2>1. PICK m \in Nat : m = b * i OBVIOUS
    <2>2. b * (i + 1) = b + m BY <2>1
    <2>3. Worth(Unit(i)) = RadixTo(m) BY <1>2, <1>4, <2>1
    <2>4. i \in Nat OBVIOUS
    <2>5. Worth(Unit(i + 1)) = BasePow * Worth(Unit(i)) BY <1>1, <2>4, UnitNext
    <2>6. RadixTo(b + m) = RadixTo(b) * RadixTo(m) BY PowSum
    <2>7. Worth(Unit(i + 1)) = RadixTo(BaseDigs * (i + 1)) BY <1>1, <1>2, <2>2, <2>3, <2>5, <2>6
    <2>8. i + 1 \in 0..k OBVIOUS
    <2> QED BY <2>7, <2>8
  <1> HIDE DEF T
  <1>5. \A i \in 0..k : i \in T BY <1>3, <1>4, Induction
  <1> QED BY <1>5 DEF T

\* What two scales leave of their lowest limbs is left by the scale of a product, in
\* the same limbs.
LEMMA LeastOfBoth ==
    ASSUME Digits, Exponents, NEW s \in Nat, NEW t \in Nat, NEW k \in Nat, RdxOf(s) + RdxOf(t) = RdxOf(s + t) + k
    PROVE  Worth(Unit(k)) * LeastSigPow(s + t) = LeastSigPow(s) * LeastSigPow(t)
  <1>1. PICK b \in Nat \ {0} : b = BaseDigs BY DEF Digits
  <1>2. PICK v \in Nat : v = s + t OBVIOUS
  <1>3. PICK rs \in Nat, rt \in Nat, rv \in Nat : rs = RdxOf(s) /\ rt = RdxOf(t) /\ rv = RdxOf(v) BY RdxGrows
  <1>4. PICK d \in Nat : LeastSigPow(s) = RadixTo(d) /\ b * rs = s + d BY <1>1, <1>3, LeastIs
  <1>5. PICK e \in Nat : LeastSigPow(t) = RadixTo(e) /\ b * rt = t + e BY <1>1, <1>3, LeastIs
  <1>6. PICK f \in Nat : LeastSigPow(v) = RadixTo(f) /\ b * rv = v + f BY <1>1, <1>3, LeastIs
  <1>7. rs + rt = rv + k BY <1>2, <1>3
  <1>8. PICK m \in Nat : m = b * k OBVIOUS
  <1>9. m + f = d + e
    <2>1. b * (rs + rt) = b * rs + b * rt /\ b * (rv + k) = b * rv + b * k OBVIOUS
    <2>2. b * rs + b * rt = b * rv + m BY <1>7, <1>8, <2>1
    <2>3. (s + d) + (t + e) = (v + f) + m BY <1>4, <1>5, <1>6, <2>2
    <2> QED BY <1>2, <2>3
  <1>10. Worth(Unit(k)) = RadixTo(m) BY <1>1, <1>8, UnitPow
  <1>11. RadixTo(m + f) = RadixTo(m) * RadixTo(f) /\ RadixTo(d + e) = RadixTo(d) * RadixTo(e) BY PowSum
  <1>12. Worth(Unit(k)) * LeastSigPow(v) = LeastSigPow(s) * LeastSigPow(t) BY <1>4, <1>5, <1>6, <1>9, <1>10, <1>11
  <1> QED BY <1>2, <1>12

\* bc_num_m(): where the scale leaves room for all digits of a product, it is exact.
LEMMA WholeProduct ==
    ASSUME Digits, Exponents, Halving, NEW a, Number(a), ~IsZero(a), Tidy(a),
           NEW b, Number(b), ~IsZero(b), Tidy(b), NEW scale \in Nat,
           a.scale + b.scale <= Bigger(Bigger(scale, a.scale), b.scale)
    PROVE  LET r == Mul(a, b, scale)
           IN  /\ Number(r) /\ ~IsZero(r) /\ r.scale = a.scale + b.scale /\ r.neg = (a.neg # b.neg)
               /\ \E k \in Nat : /\ Rdx(a) + Rdx(b) = RdxOf(a.scale + b.scale) + k
                                 /\ Worth(Unit(k)) * Worth(r.num) = Worth(a.num) * Worth(b.num)
  <1> DEFINE r == Mul(a, b, scale)
             real == Smaller(a.scale + b.scale, Bigger(Bigger(scale, a.scale), b.scale))
             k == (Rdx(a) + Rdx(b)) - RdxOf(real)
             q == Worth(a.num) * Worth(b.num)
  <1>1. Based /\ Places BY BaseIs
  <1>2. PICK s \in Nat, t \in Nat : s = a.scale /\ t = b.scale BY <1>1, NonZero
  <1>3. PICK v \in Nat, w \in Nat : v = Worth(a.num) /\ w = Worth(b.num) /\ v # 0 /\ w # 0 BY <1>1, NonZero
  <1>4. PICK u \in Nat : u = s + t OBVIOUS
  <1>5. real = u
    <2>1. PICK z \in Nat : z = Bigger(Bigger(scale, a.scale), b.scale) BY <1>2, BiggerIs
    <2>2. u <= z BY <1>2, <1>4, <2>1
    <2>3. real = Smaller(u, z) BY <1>2, <1>4, <2>1
    <2> QED BY <2>2, <2>3 DEF Smaller
  <1>6. /\ Number(r) /\ r.scale = real /\ k \in Nat
        /\ ~IsZero(r) => r.neg = (a.neg # b.neg)
        /\ Worth(Unit(k)) * Worth(r.num) = q - (q % (Worth(Unit(k)) * LeastSigPow(real)))
    BY <1>1, Multiplication
  <1> HIDE DEF r, real
  <1>7. PICK rs \in Nat, rt \in Nat, ru \in Nat : /\ rs = RdxOf(s) /\ rt = RdxOf(t) /\ ru = RdxOf(u)
                                                  /\ rs = Rdx(a) /\ rt = Rdx(b)
    <2>1. Rdx(a) = RdxOf(s) /\ Rdx(b) = RdxOf(t) BY <1>1, <1>2, NonZero
    <2> QED BY <2>1, RdxGrows
  <1>8. PICK j \in Nat : j = k /\ rs + rt = ru + j
    <2>1. k = (rs + rt) - ru BY <1>5, <1>7
    <2>2. k \in Nat BY <1>6
    <2> HIDE DEF k
    <2> QED BY <2>1, <2>2
  <1> HIDE DEF k
  <1>9. PICK x \in Nat \ {0}, y \in Nat \ {0} : x = LeastSigPow(s) /\ y = LeastSigPow(t) BY <1>1 DEF Places
  <1>10. PICK g \in Nat, h \in Nat : v = x * g /\ w = y * h
    <2>1. v % x = 0 /\ w % y = 0 BY <1>2, <1>3, <1>9 DEF Tidy
    <2>2. \A p \in Nat \ {0} : \A c \in Nat : c % p = 0 => \E e \in Nat : c = p * e BY Floored
    <2>3. \E e \in Nat : v = x * e BY <2>1, <2>2
    <2>4. \E e \in Nat : w = y * e BY <2>1, <2>2
    <2> QED BY <2>3, <2>4
  <1>11. Worth(Unit(j)) * LeastSigPow(u) = x * y
    <2>1. RdxOf(s) + RdxOf(t) = RdxOf(s + t) + j BY <1>4, <1>7, <1>8
    <2>2. Worth(Unit(j)) * LeastSigPow(s + t) = LeastSigPow(s) * LeastSigPow(t) BY <2>1, LeastOfBoth
    <2> QED BY <1>4, <1>9, <2>2
  <1>12. PICK d \in Nat \ {0}, m \in Nat : d = x * y /\ m = v * w /\ m = d * (g * h) /\ m # 0
    <2>1. \A e, f \in Nat \ {0} : e * f \in Nat \ {0} OBVIOUS
    <2>2. x * y \in Nat \ {0} /\ v * w \in Nat \ {0} BY <1>3, <2>1
    <2>3. \A e, f, i, l \in Nat : (e * i) * (f * l) = (e * f) * (i * l) OBVIOUS
    <2>4. v * w = (x * y) * (g * h) BY <1>10, <2>3
    <2> QED BY <2>2, <2>4
  <1>13. m % d = 0
    <2>1. PICK e \in Nat : e = g * h OBVIOUS
    <2>2. (d * e) % d = 0 BY Floored
    <2> QED BY <1>12, <2>1, <2>2
  <1>14. q = m BY <1>3, <1>12
  <1> HIDE DEF q
  <1>15. Worth(Unit(j)) * Worth(r.num) = m BY <1>5, <1>6, <1>8, <1>11, <1>12, <1>13, <1>14
  <1>16. ~IsZero(r)
    <2> SUFFICES ASSUME IsZero(r) PROVE FALSE OBVIOUS
    <2>1. Worth(r.num) = 0 BY <1>1, EmptyWorth DEF IsZero
    <2>2. Worth(Unit(j)) \in Nat BY <1>1, UnitIs
    <2>3. Worth(Unit(j)) * 0 = 0 BY <2>2
    <2> QED BY <1>12, <1>15, <2>1, <2>3
  <1>17. /\ Rdx(a) + Rdx(b) = RdxOf(a.scale + b.scale) + j
         /\ Worth(Unit(j)) * Worth(r.num) = Worth(a.num) * Worth(b.num)
    BY <1>2, <1>3, <1>4, <1>7, <1>8, <1>12, <1>15
  <1>18. r.scale = a.scale + b.scale BY <1>2, <1>4, <1>5, <1>6
  <1> QED BY <1>6, <1>16, <1>17, <1>18 DEF r

\* A number that is aligned stands for itself, some places up.
LEMMA AlignedWorth ==
    ASSUME Based, Digits, NEW n, Number(n), NEW j \in Nat
    PROVE  /\ Worth(Aligned(n, Rdx(n) + j)) = Worth(Unit(j)) * Worth(n.num)
           /\ Rdx(n) \in Nat /\ Worth(n.num) \in Nat
  <1>1. PICK x \in Seq(Digit) : x = n.num /\ n.scale \in Nat BY DEF Number
  <1>2. PICK r \in Nat : r = Rdx(n)
    <2>1. RdxOf(n.scale) \in Nat BY <1>1, RdxGrows
    <2> QED BY <2>1 DEF Rdx
  <1>3. (r + j) - r = j OBVIOUS
  <1>4. Aligned(n, r + j) = Zeros(j) \o x BY <1>1, <1>2, <1>3 DEF Aligned
  <1>5. Worth(Zeros(j) \o x) = Worth(Unit(j)) * Worth(x) BY ZerosWorth
  <1> QED BY <1>1, <1>2, <1>4, <1>5, WorthIsNat

\* And with more places further up.
LEMMA AlignedMore ==
    ASSUME Based, Digits, NEW n, Number(n), NEW r \in Nat, Rdx(n) <= r, NEW j \in Nat
    PROVE  /\ Worth(Aligned(n, r + j)) = Worth(Unit(j)) * Worth(Aligned(n, r))
           /\ Worth(Aligned(n, r)) \in Nat
  <1>1. PICK rn \in Nat, w \in Nat : rn = Rdx(n) /\ w = Worth(n.num)
    <2>1. Rdx(n) \in Nat /\ Worth(n.num) \in Nat BY AlignedWorth
    <2> QED BY <2>1
  <1>2. PICK i \in Nat : r = rn + i
    <2>1. r - rn \in Nat /\ r = rn + (r - rn) BY <1>1
    <2> QED BY <2>1
  <1>3. PICK m \in Nat : m = i + j /\ r + j = rn + m BY <1>2
  <1>4. Worth(Aligned(n, Rdx(n) + i)) = Worth(Unit(i)) * Worth(n.num) BY AlignedWorth
  <1>5. Worth(Aligned(n, Rdx(n) + m)) = Worth(Unit(m)) * Worth(n.num) BY AlignedWorth
  <1>6. PICK u \in Nat, v \in Nat : u = Worth(Unit(i)) /\ v = Worth(Unit(j)) BY UnitIs
  <1>7. Worth(Unit(m)) = u * v BY <1>3, <1>6, UnitTimes
  <1>8. (u * v) * w = v * (u * w)
    <2>1. \A e, f, g \in Nat : (e * f) * g = f * (e * g) OBVIOUS
    <2> QED BY <2>1
  <1>9. u * w \in Nat OBVIOUS
  <1> QED BY <1>1, <1>2, <1>3, <1>4, <1>5, <1>6, <1>7, <1>8, <1>9

\* What a number stands for with more places behind the point.
LEMMA StandsMore ==
    ASSUME Based, Digits, NEW n, Number(n), NEW r \in Nat, Rdx(n) <= r, NEW j \in Nat
    PROVE  Stands(n, r + j) = Worth(Unit(j)) * Stands(n, r) /\ Stands(n, r) \in Int
  <1>1. PICK u \in Nat, w \in Nat : /\ u = Worth(Unit(j)) /\ w = Worth(Aligned(n, r))
                                    /\ Worth(Aligned(n, r + j)) = u * w
    <2>1. Worth(Unit(j)) \in Nat BY UnitIs
    <2>2. Worth(Aligned(n, r + j)) = Worth(Unit(j)) * Worth(Aligned(n, r)) /\ Worth(Aligned(n, r)) \in Nat BY AlignedMore
    <2> QED BY <2>1, <2>2
  <1>2. u * (-w) = -(u * w) /\ -w \in Int /\ w \in Int OBVIOUS
  <1>3. Stands(n, r) = IF n.neg THEN -w ELSE w BY <1>1 DEF Stands
  <1>4. Stands(n, r + j) = IF n.neg THEN -(u * w) ELSE u * w BY <1>1 DEF Stands
  <1> QED BY <1>1, <1>2, <1>3, <1>4

\* A sum has no more limbs behind the point than its operands.
LEMMA SumReaches ==
    ASSUME Based, Digits, NEW a, NEW b, Number(a), Number(b), NEW sub \in BOOLEAN
    PROVE  /\ Rdx(AddSub(a, b, sub)) \in Nat /\ Rdx(a) \in Nat /\ Rdx(b) \in Nat
           /\ Rdx(AddSub(a, b, sub)) <= Bigger(Rdx(a), Rdx(b))
  <1> DEFINE r == AddSub(a, b, sub)
  <1>1. /\ r.scale = IF IsZero(b) THEN a.scale ELSE IF IsZero(a) THEN b.scale ELSE Bigger(a.scale, b.scale)
    BY Addition
  <1>2. IsZero(b) => r = a BY DEF AddSub
  <1> HIDE DEF r
  <1>3. PICK s \in Nat, t \in Nat : s = a.scale /\ t = b.scale BY DEF Number
  <1>4. PICK ra \in Nat, rb \in Nat : ra = Rdx(a) /\ rb = Rdx(b)
    <2>1. RdxOf(s) \in Nat /\ RdxOf(t) \in Nat BY RdxGrows
    <2> QED BY <1>3, <2>1 DEF Rdx
  <1>5. PICK m \in Nat : m = Bigger(ra, rb) /\ m >= ra /\ m >= rb BY BiggerIs
  <1>6. CASE IsZero(b)
    <2>1. Rdx(r) = ra BY <1>2, <1>4, <1>6
    <2> QED BY <1>4, <1>5, <2>1 DEF r
  <1>7. CASE IsZero(r)
    <2>1. Rdx(r) = 0 BY <1>7 DEF Rdx
    <2> QED BY <1>4, <1>5, <2>1 DEF r
  <1>8. CASE ~IsZero(b) /\ ~IsZero(r) /\ IsZero(a)
    <2>1. Rdx(r) = RdxOf(t) /\ rb = RdxOf(t) BY <1>1, <1>3, <1>4, <1>8 DEF Rdx
    <2> QED BY <1>4, <1>5, <2>1 DEF r
  <1>9. CASE ~IsZero(b) /\ ~IsZero(r) /\ ~IsZero(a)
    <2>1. Rdx(r) = RdxOf(Bigger(s, t)) BY <1>1, <1>3, <1>9 DEF Rdx
    <2>2. ra = RdxOf(s) /\ rb = RdxOf(t) BY <1>3, <1>4, <1>9 DEF Rdx
    <2>3. RdxOf(Bigger(s, t)) = Bigger(RdxOf(s), RdxOf(t)) BY RdxGrows
    <2>4. Rdx(r) = m BY <1>5, <2>1, <2>2, <2>3
    <2> QED BY <1>4, <1>5, <2>4 DEF r
  <1> QED BY <1>6, <1>7, <1>8, <1>9

\* The sum of two numbers, at any place behind both points.
LEMMA SumAt ==
    ASSUME Based, Digits, NEW a, NEW b, Number(a), Number(b), NEW sub \in BOOLEAN,
           NEW rdx \in Nat, Rdx(a) <= rdx, Rdx(b) <= rdx
    PROVE  LET r == AddSub(a, b, sub)
           IN  /\ Number(r) /\ Rdx(r) \in Nat /\ Rdx(r) <= rdx
               /\ Stands(r, rdx) = IF sub THEN Stands(a, rdx) - Stands(b, rdx) ELSE Stands(a, rdx) + Stands(b, rdx)
  <1> DEFINE r == AddSub(a, b, sub)
  <1>1. PICK ra \in Nat, rb \in Nat, rr \in Nat : ra = Rdx(a) /\ rb = Rdx(b) /\ rr = Rdx(r) /\ rr <= Bigger(ra, rb)
    <2>1. /\ Rdx(r) \in Nat /\ Rdx(a) \in Nat /\ Rdx(b) \in Nat
          /\ Rdx(r) <= Bigger(Rdx(a), Rdx(b))
      BY SumReaches
    <2> QED BY <2>1
  <1>2. PICK m \in Nat : m = Bigger(ra, rb) /\ m >= ra /\ m >= rb /\ m <= rdx
    <2>1. Bigger(ra, rb) \in Nat /\ Bigger(ra, rb) >= ra /\ Bigger(ra, rb) >= rb
          /\ (Bigger(ra, rb) = ra \/ Bigger(ra, rb) = rb)
      BY BiggerIs
    <2> QED BY <1>1, <2>1
  <1>3. PICK j \in Nat : rdx = m + j
    <2>1. rdx - m \in Nat /\ rdx = m + (rdx - m) BY <1>2
    <2> QED BY <2>1
  <1>4. /\ Number(r)
        /\ Stands(r, m) = IF sub THEN Stands(a, m) - Stands(b, m) ELSE Stands(a, m) + Stands(b, m)
    BY <1>1, <1>2, Addition
  <1> HIDE DEF r
  <1>5. Stands(a, m + j) = Worth(Unit(j)) * Stands(a, m) /\ Stands(a, m) \in Int BY <1>1, <1>2, StandsMore
  <1>6. Stands(b, m + j) = Worth(Unit(j)) * Stands(b, m) /\ Stands(b, m) \in Int BY <1>1, <1>2, StandsMore
  <1>7. Stands(r, m + j) = Worth(Unit(j)) * Stands(r, m) /\ Stands(r, m) \in Int BY <1>1, <1>2, <1>4, StandsMore
  <1>8. PICK u \in Nat : u = Worth(Unit(j)) BY UnitIs
  <1>9. PICK x \in Int, y \in Int, z \in Int : x = Stands(a, m) /\ y = Stands(b, m) /\ z = Stands(r, m)
    BY <1>5, <1>6, <1>7
  <1>10. u * (x - y) = u * x - u * y /\ u * (x + y) = u * x + u * y OBVIOUS
  <1>11. z = IF sub THEN x - y ELSE x + y BY <1>4, <1>9
  <1>12. u * z = IF sub THEN u * x - u * y ELSE u * x + u * y BY <1>10, <1>11
  <1> QED BY <1>1, <1>2, <1>3, <1>4, <1>5, <1>6, <1>7, <1>8, <1>9, <1>12 DEF r

\* Aligned at the point of a scale that is no less, a number has no digit beyond it.
LEMMA TidyAligned ==
    ASSUME Digits, Exponents, NEW n, Number(n), ~IsZero(n), Tidy(n), NEW s \in Nat, n.scale <= s
    PROVE  \E i \in Int : Stands(n, RdxOf(s)) = LeastSigPow(s) * i
  <1>1. Based /\ Places BY BaseIs
  <1>2. PICK t \in Nat : t = n.scale BY <1>1, NonZero
  <1>3. PICK rt \in Nat, rs \in Nat : rt = RdxOf(t) /\ rs = RdxOf(s) /\ rt <= rs BY <1>2, RdxGrows
  <1>4. PICK k \in Nat : rs = rt + k /\ rs = k + rt
    <2>1. rs - rt \in Nat /\ rs = rt + (rs - rt) /\ rs = (rs - rt) + rt BY <1>3
    <2> QED BY <2>1
  <1>5. PICK w \in Nat : w = Worth(n.num) BY <1>1, NonZero
  <1>6. Rdx(n) = rt BY <1>1, <1>2, <1>3, NonZero
  <1>7. Worth(Aligned(n, rs)) = Worth(Unit(k)) * w
    <2>1. Worth(Aligned(n, Rdx(n) + k)) = Worth(Unit(k)) * Worth(n.num) BY <1>1, AlignedWorth
    <2> QED BY <1>4, <1>5, <1>6, <2>1
  <1>8. w % LeastSigPow(t) = 0 BY <1>2, <1>5 DEF Tidy
  <1>9. (Worth(Unit(k)) * w) % LeastSigPow(s) = 0
    <2>1. RdxOf(s) = k + RdxOf(t) /\ t <= s BY <1>2, <1>3, <1>4
    <2> QED BY <1>8, <2>1, TidyBelow
  <1>10. PICK p \in Nat \ {0} : p = LeastSigPow(s) BY <1>1 DEF Places
  <1>11. PICK v \in Nat : v = Worth(Unit(k)) * w
    <2>1. Worth(Unit(k)) \in Nat BY <1>1, UnitIs
    <2> QED BY <2>1
  <1>12. PICK e \in Nat : v = p * e
    <2>1. v % p = 0 BY <1>9, <1>10, <1>11
    <2>2. \A q \in Nat \ {0} : \A c \in Nat : c % q = 0 => \E g \in Nat : c = q * g BY Floored
    <2> QED BY <2>1, <2>2
  <1>13. Stands(n, rs) = IF n.neg THEN -v ELSE v BY <1>7, <1>11 DEF Stands
  <1>14. -e \in Int /\ e \in Int /\ p * (-e) = -(p * e) OBVIOUS
  <1>15. \E i \in Int : (IF n.neg THEN -v ELSE v) = p * i BY <1>12, <1>14
  <1> QED BY <1>3, <1>10, <1>13, <1>15

\* bc_num_add() and bc_num_sub(): a sum has no digit beyond its scale.
THEOREM TidySums ==
    ASSUME Digits, Exponents, NEW a, NEW b, Number(a), Number(b), Tidy(a), Tidy(b), NEW sub \in BOOLEAN
    PROVE  Tidy(AddSub(a, b, sub))
  <1> DEFINE r == AddSub(a, b, sub)
  <1>1. Based /\ Places BY BaseIs
  <1>2. /\ Number(r)
        /\ r.scale = IF IsZero(b) THEN a.scale ELSE IF IsZero(a) THEN b.scale ELSE Bigger(a.scale, b.scale)
        /\ Stands(r, Bigger(Rdx(a), Rdx(b)))
             = IF sub THEN Stands(a, Bigger(Rdx(a), Rdx(b))) - Stands(b, Bigger(Rdx(a), Rdx(b)))
               ELSE Stands(a, Bigger(Rdx(a), Rdx(b))) + Stands(b, Bigger(Rdx(a), Rdx(b)))
    BY <1>1, Addition
  <1>3. CASE IsZero(b) BY <1>3 DEF AddSub
  <1>4. CASE ~IsZero(b) /\ IsZero(a)
    <2>1. r = [b EXCEPT !.neg = (b.neg # sub)] BY <1>4 DEF AddSub
    <2>2. b \in [neg : BOOLEAN, scale : Nat, num : Seq(Digit)] BY DEF Number
    <2>3. r.num = b.num /\ r.scale = b.scale BY <2>1, <2>2
    <2> QED BY <2>3 DEF Tidy
  <1>5. CASE ~IsZero(b) /\ ~IsZero(a)
    <2> HIDE DEF r
    <2>1. PICK s \in Nat, t \in Nat, m \in Nat : s = a.scale /\ t = b.scale /\ m = Bigger(s, t) /\ s <= m /\ t <= m
      <3>1. a.scale \in Nat /\ b.scale \in Nat BY DEF Number
      <3>2. \A x, y \in Nat : Bigger(x, y) \in Nat /\ x <= Bigger(x, y) /\ y <= Bigger(x, y) BY BiggerIs
      <3> QED BY <3>1, <3>2
    <2>2. PICK rdx \in Nat : rdx = RdxOf(m) BY RdxGrows
    <2>3. Bigger(Rdx(a), Rdx(b)) = rdx
      <3>1. Rdx(a) = RdxOf(s) /\ Rdx(b) = RdxOf(t) BY <1>1, <1>5, <2>1, NonZero
      <3>2. RdxOf(Bigger(s, t)) = Bigger(RdxOf(s), RdxOf(t)) BY RdxGrows
      <3> QED BY <2>1, <2>2, <3>1, <3>2
    <2>4. PICK p \in Nat \ {0} : p = LeastSigPow(m) BY <1>1 DEF Places
    <2>5. PICK i \in Int : Stands(a, rdx) = p * i
      <3>1. \E h \in Int : Stands(a, RdxOf(m)) = LeastSigPow(m) * h BY <1>5, <2>1, TidyAligned
      <3> QED BY <2>2, <2>4, <3>1
    <2>6. PICK j \in Int : Stands(b, rdx) = p * j
      <3>1. \E h \in Int : Stands(b, RdxOf(m)) = LeastSigPow(m) * h BY <1>5, <2>1, TidyAligned
      <3> QED BY <2>2, <2>4, <3>1
    <2>7. PICK l \in Int : Stands(r, rdx) = p * l
      <3>1. p * i - p * j = p * (i - j) /\ p * i + p * j = p * (i + j) /\ i - j \in Int /\ i + j \in Int OBVIOUS
      <3>2. Stands(r, rdx) = IF sub THEN p * i - p * j ELSE p * i + p * j BY <1>2, <2>3, <2>5, <2>6
      <3> QED BY <3>1, <3>2
    <2>8. r.scale = m BY <1>2, <1>5, <2>1
    <2>9. CASE IsZero(r)
      <3>1. Worth(r.num) = 0 BY <1>1, <2>9, EmptyWorth DEF IsZero
      <3>2. 0 % p = 0 OBVIOUS
      <3> QED BY <2>4, <2>8, <3>1, <3>2 DEF Tidy, r
    <2>10. CASE ~IsZero(r)
      <3>1. Rdx(r) = rdx BY <1>1, <1>2, <2>2, <2>8, <2>10, NonZero
      <3>2. Aligned(r, rdx) = r.num BY <1>2, <3>1, AlignedSelf
      <3>3. PICK w \in Nat : w = Worth(r.num) BY <1>1, <1>2, <2>10, NonZero
      <3>4. p * l = IF r.neg THEN -w ELSE w BY <2>7, <3>2, <3>3 DEF Stands
      <3>5. PICK e \in Int : w = p * e
        <4>1. p * (-l) = -(p * l) /\ -l \in Int /\ p * l \in Int OBVIOUS
        <4>2. \A y \in Int : -y = w => y = -w OBVIOUS
        <4>3. \A y \in Int : y = -w => -y = w OBVIOUS
        <4> QED BY <3>4, <4>1, <4>3
      <3>6. (p * e + 0) % p = 0
        <4>1. 0 \in 0..(p - 1) OBVIOUS
        <4> QED BY <4>1, RemainderIs
      <3>7. p * e + 0 = w BY <3>5
      <3>8. w % p = 0 BY <3>6, <3>7
      <3> QED BY <2>4, <2>8, <3>3, <3>8 DEF Tidy, r
    <2> QED BY <2>9, <2>10
  <1> QED BY <1>3, <1>4, <1>5

\* Two numbers with the same scale and limbs that are worth the same.
LEMMA SameAligned ==
    ASSUME Based, Digits, NEW m, NEW n, Number(m), Number(n), m.scale = n.scale, Worth(m.num) = Worth(n.num),
           NEW rdx \in Nat, RdxOf(n.scale) <= rdx
    PROVE  Worth(Aligned(m, rdx)) = Worth(Aligned(n, rdx))
  <1>1. (IsZero(m) <=> Worth(m.num) = 0) /\ (IsZero(n) <=> Worth(n.num) = 0) /\ n.scale \in Nat BY NumberIs
  <1>2. PICK r \in Nat : r = RdxOf(n.scale) BY <1>1, RdxGrows
  <1>3. CASE IsZero(n)
    <2>1. IsZero(m) BY <1>1, <1>3
    <2>2. Rdx(m) = 0 /\ Rdx(n) = 0 BY <1>3, <2>1 DEF Rdx
    <2>3. Worth(Aligned(m, rdx)) = 0 BY <2>1, <2>2, AlignedIs
    <2>4. Worth(Aligned(n, rdx)) = 0 BY <1>3, <2>2, AlignedIs
    <2> QED BY <2>3, <2>4
  <1>4. CASE ~IsZero(n)
    <2>1. ~IsZero(m) BY <1>1, <1>4
    <2>2. Rdx(m) = r /\ Rdx(n) = r BY <1>2, <1>4, <2>1 DEF Rdx
    <2>3. PICK j \in Nat : rdx = r + j
      <3>1. rdx - r \in Nat /\ rdx = r + (rdx - r) BY <1>2
      <3> QED BY <3>1
    <2>4. Worth(Aligned(m, Rdx(m) + j)) = Worth(Unit(j)) * Worth(m.num) BY AlignedWorth
    <2>5. Worth(Aligned(n, Rdx(n) + j)) = Worth(Unit(j)) * Worth(n.num) BY AlignedWorth
    <2> QED BY <2>2, <2>3, <2>4, <2>5
  <1> QED BY <1>3, <1>4

\* bc_num_r(): what is left gets its scale, and stands for the same.
LEMMA RestIs ==
    ASSUME Digits, Exponents, NEW d, Number(d), Tidy(d), NEW ts \in Nat,
           d.scale = ts \/ (~IsZero(d) /\ d.scale < ts), NEW rdx \in Nat, RdxOf(ts) <= rdx
    PROVE  LET r == RestOf(d, ts)
           IN  /\ Number(r) /\ Tidy(r) /\ r.scale = ts
               /\ ~IsZero(r) => r.neg = d.neg
               /\ Worth(Aligned(r, rdx)) = Worth(Aligned(d, rdx))
  <1> DEFINE r == RestOf(d, ts)
  <1>1. Based /\ Places BY BaseIs
  <1>2. d \in [neg : BOOLEAN, scale : Nat, num : Seq(Digit)] BY DEF Number
  <1>3. PICK g \in BOOLEAN, s \in Nat, x \in Seq(Digit) : g = d.neg /\ s = d.scale /\ x = d.num BY <1>2
  <1>4. CASE s = ts
    <2>1. r = Retire(d, ts, g) BY <1>3, <1>4 DEF RestOf
    <2>2. LET h == Retire(d, ts, g)
          IN  /\ Number(h) /\ h.scale = ts /\ Worth(h.num) = Worth(d.num)
              /\ ~IsZero(h) => h.neg = g
      <3>1. ts = d.scale BY <1>3, <1>4
      <3> QED BY <1>1, <1>2, <3>1, RetireSame
    <2>3. Number(r) /\ r.scale = ts /\ Worth(r.num) = Worth(d.num) /\ (~IsZero(r) => r.neg = d.neg) BY <1>3, <2>1, <2>2
    <2> HIDE DEF r
    <2>4. r.scale = d.scale /\ RdxOf(d.scale) <= rdx BY <1>3, <1>4, <2>3
    <2>5. Worth(Aligned(r, rdx)) = Worth(Aligned(d, rdx)) BY <1>1, <2>3, <2>4, SameAligned
    <2>6. Tidy(r) BY <2>3, <2>4 DEF Tidy
    <2> QED BY <2>3, <2>5, <2>6 DEF r
  <1>5. CASE s # ts
    <2>1. ~IsZero(d) /\ s < ts BY <1>3, <1>5
    <2>2. x # <<>> BY <1>3, <2>1 DEF IsZero
    <2>3. PICK t \in Nat : t = ts - s /\ s + t = ts
      <3>1. ts - s \in Nat /\ s + (ts - s) = ts BY <2>1
      <3> QED BY <3>1
    <2>4. d = Num(g, s, x) BY <1>2, <1>3 DEF Num
    <2>5. PICK rs \in Nat, rt \in Nat : rs = RdxOf(s) /\ rt = RdxOf(ts) /\ rs <= rt BY <2>1, RdxGrows
    <2>6. PICK k \in Nat : k = rt - rs /\ rt = rs + k /\ rt = k + rs
      <3>1. rt - rs \in Nat /\ rt = rs + (rt - rs) /\ rt = (rt - rs) + rs BY <2>5
      <3> QED BY <3>1
    <2>7. PICK n : n = Extend(d, t) OBVIOUS
    <2>8. n = Num(g, ts, Zeros(k) \o x)
      <3>1. /\ Rdx(Num(g, s, x)) = RdxOf(s)
            /\ Extend(Num(g, s, x), t) = Num(g, s + t, Zeros(RdxOf(s + t) - RdxOf(s)) \o x)
        BY <2>2, ExtendIs
      <3>2. RdxOf(s + t) - RdxOf(s) = k BY <2>3, <2>5, <2>6
      <3> QED BY <2>3, <2>4, <2>7, <3>1, <3>2
    <2>9. Zeros(k) \o x \in Seq(Digit) /\ Worth(Zeros(k) \o x) = Worth(Unit(k)) * Worth(x)
      BY <1>1, ZerosBelow, ZerosWorth
    <2>10. n \in [neg : BOOLEAN, scale : Nat, num : Seq(Digit)] /\ n.scale = ts /\ n.num = Zeros(k) \o x
      BY <2>8, <2>9 DEF Num
    <2>11. r = Retire(n, ts, g) BY <1>3, <2>1, <2>3, <2>7 DEF RestOf
    <2>12. LET h == Retire(n, ts, g)
           IN  /\ Number(h) /\ h.scale = ts /\ Worth(h.num) = Worth(n.num)
               /\ ~IsZero(h) => h.neg = g
      BY <1>1, <2>10, RetireSame
    <2> HIDE DEF r
    <2>13. /\ Number(r) /\ r.scale = ts /\ Worth(r.num) = Worth(Unit(k)) * Worth(x)
           /\ ~IsZero(r) => r.neg = d.neg
      BY <1>3, <2>9, <2>10, <2>11, <2>12
    <2>14. PICK u \in Nat \ {0} : u = Worth(Unit(k))
      <3>1. Worth(Unit(k)) \in Nat /\ Worth(Unit(k)) >= 1 BY <1>1, UnitIs
      <3> QED BY <3>1
    <2>15. PICK w \in Nat \ {0} : w = Worth(x) BY <1>1, <1>3, <2>1, NonZero
    <2>16. Worth(r.num) = u * w BY <2>13, <2>14, <2>15
    <2>17. ~IsZero(r)
      <3>1. IsZero(r) <=> Worth(r.num) = 0 BY <1>1, <2>13, NumberIs
      <3>2. \A e, f \in Nat \ {0} : e * f # 0 OBVIOUS
      <3> QED BY <2>16, <3>1, <3>2
    <2>18. Rdx(r) = rt /\ Rdx(d) = rs BY <1>3, <2>1, <2>5, <2>13, <2>17 DEF Rdx
    <2>19. PICK j \in Nat, m \in Nat : rdx = rt + j /\ m = j + k /\ rdx = rs + m
      <3>1. rt <= rdx BY <2>5
      <3>2. PICK j \in Nat : rdx = rt + j
        <4>1. rdx - rt \in Nat /\ rdx = rt + (rdx - rt) BY <3>1
        <4> QED BY <4>1
      <3>3. j + k \in Nat /\ rdx = rs + (j + k) BY <2>6, <3>2
      <3> QED BY <3>2, <3>3
    <2>20. Worth(Aligned(r, Rdx(r) + j)) = Worth(Unit(j)) * Worth(r.num) BY <1>1, <2>13, AlignedWorth
    <2>21. Worth(Aligned(d, Rdx(d) + m)) = Worth(Unit(m)) * Worth(d.num) BY <1>1, AlignedWorth
    <2>22. PICK v \in Nat : v = Worth(Unit(j)) BY <1>1, UnitIs
    <2>23. Worth(Unit(m)) = v * u BY <1>1, <2>14, <2>19, <2>22, UnitTimes
    <2>24. v * (u * w) = (v * u) * w
      <3>1. \A e, f, h \in Nat : e * (f * h) = (e * f) * h OBVIOUS
      <3> QED BY <3>1
    <2>25. Worth(Aligned(r, rdx)) = Worth(Aligned(d, rdx))
      BY <1>3, <2>15, <2>16, <2>18, <2>19, <2>20, <2>21, <2>22, <2>23, <2>24
    <2>26. Tidy(r)
      <3>1. w % LeastSigPow(s) = 0 BY <1>3, <2>15 DEF Tidy
      <3>2. RdxOf(ts) = k + RdxOf(s) /\ s <= ts BY <2>1, <2>5, <2>6
      <3>3. (Worth(Unit(k)) * w) % LeastSigPow(ts) = 0 BY <3>1, <3>2, TidyBelow
      <3> QED BY <2>13, <2>15, <3>3 DEF Tidy
    <2> QED BY <2>13, <2>25, <2>26 DEF r
  <1> QED BY <1>4, <1>5

\* What is left below a quotient cut at p is less than p times the divisor.
LEMMA LeftBelow ==
    \A n, d, q \in Nat : \A p \in Nat \ {0} :
        Goes(n, d, q) => /\ Cut(q, p) \in Nat /\ d * Cut(q, p) <= n /\ n < d * Cut(q, p) + d * p
  <1> TAKE n, d, q \in Nat
  <1> TAKE p \in Nat \ {0}
  <1> HAVE Goes(n, d, q)
  <1>1. PICK r \in 0..(p - 1) : r = q % p
    <2>1. q \in Int OBVIOUS
    <2>2. q % p \in 0..(p - 1) BY <2>1, Quotients
    <2> QED BY <2>2
  <1>2. PICK v \in Nat : v = Cut(q, p) BY Floored DEF Cut
  <1>3. q = v + r
    <2>1. v = q - r BY <1>1, <1>2 DEF Cut
    <2> QED BY <1>2, <2>1
  <1>4. PICK e \in Nat : p = (r + 1) + e
    <2>1. p - (r + 1) \in Nat /\ p = (r + 1) + (p - (r + 1)) OBVIOUS
    <2> QED BY <2>1
  <1>5. r \in Nat OBVIOUS
  <1>6. PICK x \in Nat, y \in Nat, z \in Nat : x = d * v /\ y = d * r /\ z = d * e BY <1>5
  <1>7. d * q = x + y /\ d * (q + 1) = x + y + d /\ d * p = y + d + z BY <1>3, <1>4, <1>5, <1>6
  <1>8. x + y <= n /\ n < x + y + d BY <1>7 DEF Goes
  <1>9. x <= n /\ n < x + (y + d + z) BY <1>6, <1>8
  <1> QED BY <1>2, <1>6, <1>7, <1>9

\* A number less one of its sign that is not more.
LEMMA Lessened ==
    ASSUME Based, Digits, NEW a, NEW p, Number(a), Number(p), a.neg = p.neg, NEW rdx \in Nat, Rdx(a) <= rdx, Rdx(p) <= rdx,
           Worth(Aligned(p, rdx)) <= Worth(Aligned(a, rdx))
    PROVE  LET d == Sub(a, p)
           IN  /\ Number(d)
               /\ Worth(Aligned(d, rdx)) + Worth(Aligned(p, rdx)) = Worth(Aligned(a, rdx))
               /\ ~IsZero(d) => d.neg = a.neg
  <1> DEFINE d == Sub(a, p)
  <1>1. /\ Number(d) /\ Rdx(d) \in Nat /\ Rdx(d) <= rdx
        /\ Stands(d, rdx) = Stands(a, rdx) - Stands(p, rdx)
    <2>1. LET r == AddSub(a, p, TRUE)
          IN  /\ Number(r) /\ Rdx(r) \in Nat /\ Rdx(r) <= rdx
              /\ Stands(r, rdx) = IF TRUE THEN Stands(a, rdx) - Stands(p, rdx) ELSE Stands(a, rdx) + Stands(p, rdx)
      BY SumAt
    <2>2. d = AddSub(a, p, TRUE) BY DEF Sub
    <2> HIDE DEF d
    <2> QED BY <2>1, <2>2
  <1> HIDE DEF d
  <1>2. PICK u \in Nat : u = Worth(Aligned(a, rdx)) BY AlignedMore
  <1>3. PICK v \in Nat : v = Worth(Aligned(p, rdx)) BY AlignedMore
  <1>4. PICK w \in Nat : w = Worth(Aligned(d, rdx)) BY <1>1, AlignedMore
  <1>5. v <= u BY <1>2, <1>3
  <1>6. PICK g \in BOOLEAN, h \in BOOLEAN : g = a.neg /\ g = p.neg /\ h = d.neg BY <1>1 DEF Number
  <1>7. /\ Stands(a, rdx) = IF g THEN -u ELSE u
        /\ Stands(p, rdx) = IF g THEN -v ELSE v
        /\ Stands(d, rdx) = IF h THEN -w ELSE w
    BY <1>2, <1>3, <1>4, <1>6 DEF Stands
  <1>8. (IF h THEN -w ELSE w) = IF g THEN (-u) - (-v) ELSE u - v BY <1>1, <1>6, <1>7
  <1>9. w + v = u /\ (w # 0 => h = g)
    <2>1. CASE g
      <3>1. (IF h THEN -w ELSE w) = (-u) - (-v) BY <1>8, <2>1
      <3>2. CASE h
        <4>1. -w = (-u) - (-v) BY <3>1, <3>2
        <4>2. w + v = u BY <4>1
        <4> QED BY <2>1, <3>2, <4>2
      <3>3. CASE ~h
        <4>1. w = (-u) - (-v) BY <3>1, <3>3
        <4>2. w = 0 /\ u = v BY <1>5, <4>1
        <4> QED BY <4>2
      <3> QED BY <3>2, <3>3
    <2>2. CASE ~g
      <3>1. (IF h THEN -w ELSE w) = u - v BY <1>8, <2>2
      <3>2. CASE h
        <4>1. -w = u - v BY <3>1, <3>2
        <4>2. w = 0 /\ u = v BY <1>5, <4>1
        <4> QED BY <4>2
      <3>3. CASE ~h
        <4>1. w = u - v BY <3>1, <3>3
        <4>2. w + v = u BY <4>1
        <4> QED BY <2>2, <3>3, <4>2
      <3> QED BY <3>2, <3>3
    <2> QED BY <2>1, <2>2
  <1>10. ~IsZero(d) => w # 0
    <2> HAVE ~IsZero(d)
    <2>1. Worth(Aligned(d, rdx)) >= 1 BY <1>1, AlignedIs
    <2> QED BY <1>4, <2>1
  <1> QED BY <1>1, <1>2, <1>3, <1>4, <1>6, <1>9, <1>10 DEF d

\* A quotient of numbers is that of their limbs at any place behind both.
LEMMA GoesAligned ==
    ASSUME Based, NEW ra \in Nat, NEW e \in Nat, NEW x \in Nat, NEW y \in Nat, ra + x = e + y,
           NEW wa \in Nat, NEW wb \in Nat, NEW q \in Nat, Goes(Worth(Unit(e)) * wa, Worth(Unit(ra)) * wb, q)
    PROVE  Goes(Worth(Unit(x)) * wa, Worth(Unit(y)) * wb, q)
  <1>1. \A m \in Nat : Worth(Unit(m)) \in Nat \ {0}
    <2> TAKE m \in Nat
    <2>1. Worth(Unit(m)) \in Nat /\ Worth(Unit(m)) >= 1 BY UnitIs
    <2> QED BY <2>1
  <1>2. PICK ua \in Nat \ {0}, ue \in Nat \ {0}, ux \in Nat \ {0}, uy \in Nat \ {0} :
           ua = Worth(Unit(ra)) /\ ue = Worth(Unit(e)) /\ ux = Worth(Unit(x)) /\ uy = Worth(Unit(y))
    BY <1>1
  <1>3. ua * ux = ue * uy
    <2>1. ua * ux = Worth(Unit(ra + x)) BY <1>2, UnitTimes
    <2>2. ue * uy = Worth(Unit(e + y)) BY <1>2, UnitTimes
    <2> QED BY <2>1, <2>2
  <1>4. PICK n \in Nat, d \in Nat, f \in Nat, g \in Nat : n = ue * wa /\ d = ua * wb /\ f = ux * wa /\ g = uy * wb OBVIOUS
  <1>5. Goes(n, d, q) BY <1>2, <1>4
  <1>6. Goes(uy * n, uy * d, q) BY <1>5, Scaled
  <1>7. uy * n = ua * f /\ uy * d = ua * g
    <2>1. \A i, j, k \in Nat : i * (j * k) = (j * i) * k /\ i * (j * k) = j * (i * k) OBVIOUS
    <2>2. uy * (ue * wa) = (ue * uy) * wa /\ ua * (ux * wa) = (ux * ua) * wa BY <2>1
    <2>3. ux * ua = ua * ux OBVIOUS
    <2>4. uy * (ua * wb) = ua * (uy * wb) BY <2>1
    <2> QED BY <1>3, <1>4, <2>2, <2>3, <2>4
  <1>8. Goes(ua * f, ua * g, q) BY <1>6, <1>7
  <1>9. Goes(f, g, q) BY <1>8, Scaled
  <1> QED BY <1>2, <1>4, <1>9

\* c is a quotient cut to a scale: times the divisor, unit limbs up, it is no more than
\* the dividend, and less than it by no more than the divisor at that scale.
LEMMA QuotientNear ==
    ASSUME Digits, Exponents, NEW a, NEW b, Number(a), Number(b), ~IsZero(b), NEW scale \in Nat,
           NEW rdx \in Nat, Rdx(a) <= rdx, NEW y \in Nat, rdx = (Rdx(b) + RdxOf(scale)) + y,
           NEW c, Worth(c.num) = Cut((Worth(Unit(Rdx(b) + RdxOf(scale))) * Worth(a.num))
                                       \div (Worth(Unit(Rdx(a))) * Worth(b.num)), LeastSigPow(scale))
    PROVE  LET unit == Worth(Unit(y))
               part == unit * (Worth(c.num) * Worth(b.num))
               least == unit * (LeastSigPow(scale) * Worth(b.num))
           IN  /\ Worth(c.num) \in Nat /\ part \in Nat /\ least \in Nat \ {0}
               /\ part <= Worth(Aligned(a, rdx)) /\ Worth(Aligned(a, rdx)) < part + least
  <1>1. Based /\ Places BY BaseIs
  <1>2. PICK ra \in Nat, wa \in Nat : ra = Rdx(a) /\ wa = Worth(a.num)
    <2>1. Rdx(a) \in Nat /\ Worth(a.num) \in Nat BY <1>1, AlignedWorth
    <2> QED BY <2>1
  <1>3. PICK rb \in Nat, wb \in Nat \ {0} : rb = Rdx(b) /\ wb = Worth(b.num) BY <1>1, NonZero
  <1>4. PICK e \in Nat : e = Rdx(b) + RdxOf(scale)
    <2>1. RdxOf(scale) \in Nat BY RdxGrows
    <2> QED BY <1>3, <2>1
  <1>5. PICK x \in Nat : rdx = ra + x
    <2>1. rdx - ra \in Nat /\ rdx = ra + (rdx - ra) BY <1>2
    <2> QED BY <2>1
  <1>6. \A m \in Nat : Worth(Unit(m)) \in Nat \ {0}
    <2> TAKE m \in Nat
    <2>1. Worth(Unit(m)) \in Nat /\ Worth(Unit(m)) >= 1 BY <1>1, UnitIs
    <2> QED BY <2>1
  <1>7. PICK ua \in Nat \ {0}, ue \in Nat \ {0}, ux \in Nat \ {0}, uy \in Nat \ {0} :
           ua = Worth(Unit(ra)) /\ ue = Worth(Unit(e)) /\ ux = Worth(Unit(x)) /\ uy = Worth(Unit(y))
    BY <1>6
  <1>8. PICK p \in Nat \ {0} : p = LeastSigPow(scale) BY <1>1 DEF Places
  <1>9. \A i, j \in Nat \ {0} : i * j \in Nat \ {0} OBVIOUS
  <1>10. PICK n \in Nat, d \in Nat \ {0} : n = ue * wa /\ d = ua * wb
    <2>1. ue * wa \in Nat OBVIOUS
    <2>2. ua * wb \in Nat \ {0} BY <1>9
    <2> QED BY <2>1, <2>2
  <1>11. PICK q \in Nat : q = n \div d /\ Goes(n, d, q) BY GoesIs
  <1>12. Goes(ux * wa, uy * wb, q)
    <2>1. Goes(Worth(Unit(e)) * wa, Worth(Unit(ra)) * wb, q) BY <1>7, <1>10, <1>11
    <2>2. ra + x = e + y BY <1>4, <1>5
    <2>3. Goes(Worth(Unit(x)) * wa, Worth(Unit(y)) * wb, q) BY <1>1, <2>1, <2>2, GoesAligned
    <2> QED BY <1>7, <2>3
  <1>13. PICK f \in Nat, g \in Nat \ {0} : f = ux * wa /\ g = uy * wb
    <2>1. ux * wa \in Nat OBVIOUS
    <2>2. uy * wb \in Nat \ {0} BY <1>9
    <2> QED BY <2>1, <2>2
  <1>14. PICK v \in Nat : v = Cut(q, p) /\ g * v <= f /\ f < g * v + g * p
    <2>1. Goes(f, g, q) BY <1>12, <1>13
    <2>2. Cut(q, p) \in Nat /\ g * Cut(q, p) <= f /\ f < g * Cut(q, p) + g * p BY <2>1, LeftBelow
    <2> QED BY <2>2
  <1>15. Worth(c.num) = v BY <1>2, <1>3, <1>4, <1>7, <1>8, <1>10, <1>11, <1>14
  <1>16. Worth(Aligned(a, rdx)) = f
    <2>1. Worth(Aligned(a, Rdx(a) + x)) = Worth(Unit(x)) * Worth(a.num) BY <1>1, AlignedWorth
    <2> QED BY <1>2, <1>5, <1>7, <1>13, <2>1
  <1>17. g * v = uy * (v * wb) /\ g * p = uy * (p * wb)
    <2>1. \A i, j, k \in Nat : (i * j) * k = i * (k * j) OBVIOUS
    <2>2. p \in Nat /\ uy \in Nat /\ wb \in Nat OBVIOUS
    <2> QED BY <1>13, <2>1, <2>2
  <1>18. g * v \in Nat /\ g * p \in Nat \ {0}
    <2>1. g * v \in Nat OBVIOUS
    <2> QED BY <1>9, <2>1
  <1>19. PICK s \in Nat, t \in Nat \ {0} : s = g * v /\ t = g * p BY <1>18
  <1>20. Worth(Unit(y)) * (Worth(c.num) * Worth(b.num)) = s /\ Worth(Unit(y)) * (LeastSigPow(scale) * Worth(b.num)) = t
    BY <1>3, <1>7, <1>8, <1>15, <1>17, <1>19
  <1>21. s <= f /\ f < s + t BY <1>14, <1>19
  <1> QED BY <1>15, <1>16, <1>20, <1>21

\* bc_num_r(): the rest r of a and b, of which c is the quotient to a scale, is what c
\* times b leaves of a, and less than the divisor at that scale.
IsRest(r, c, a, b, scale, rdx) ==
    LET unit == Worth(Unit(rdx - (Rdx(b) + RdxOf(scale))))
    IN  /\ Worth(Aligned(r, rdx)) + unit * (Worth(c.num) * Worth(b.num)) = Worth(Aligned(a, rdx))
        /\ Worth(Aligned(r, rdx)) < unit * (LeastSigPow(scale) * Worth(b.num))
        /\ ~IsZero(r) => r.neg = a.neg

\* bc_num_r(), what is left of a dividend that is not zero by a quotient c that is right.
LEMMA RestLeft ==
    ASSUME Digits, Exponents, Halving, NEW a, NEW b, Number(a), Number(b), ~IsZero(a), ~IsZero(b), Tidy(a), Tidy(b),
           NEW scale \in Nat, NEW rdx \in Nat, Rdx(a) <= rdx, Rdx(b) + RdxOf(scale) <= rdx,
           NEW c, Tidy(c),
           Holds(c, scale, a.neg # b.neg, (Worth(Unit(Rdx(b) + RdxOf(scale))) * Worth(a.num))
                                             \div (Worth(Unit(Rdx(a))) * Worth(b.num))),
           NEW ts \in Nat, ts = Bigger(scale + b.scale, a.scale)
    PROVE  LET r == RestOf(Sub(a, Mul(c, b, IF scale = 0 THEN 0 ELSE ts + 1)), ts)
           IN  Number(r) /\ Tidy(r) /\ r.scale = ts /\ IsRest(r, c, a, b, scale, rdx)
  <1> DEFINE more == IF scale = 0 THEN 0 ELSE ts + 1
             p == Mul(c, b, more)
             d == Sub(a, p)
             r == RestOf(d, ts)
  <1>1. Based /\ Places BY BaseIs
  <1>2. Number(c) /\ c.scale = scale /\ (~IsZero(c) => c.neg = (a.neg # b.neg)) BY DEF Holds
  <1>3. PICK sa \in Nat, sb \in Nat : sa = a.scale /\ sb = b.scale BY <1>1, NonZero
  <1>4. PICK ra \in Nat, rb \in Nat, rs \in Nat : ra = Rdx(a) /\ rb = Rdx(b) /\ rs = RdxOf(scale)
    <2>1. Rdx(a) \in Nat /\ Rdx(b) \in Nat /\ RdxOf(scale) \in Nat BY <1>1, NonZero, RdxGrows
    <2> QED BY <2>1
  <1>5. PICK y \in Nat : rdx = (rb + rs) + y /\ y = rdx - (rb + rs)
    <2>1. rb + rs <= rdx BY <1>4
    <2>2. rdx - (rb + rs) \in Nat /\ rdx = (rb + rs) + (rdx - (rb + rs)) BY <2>1
    <2> QED BY <2>2
  <1>6. PICK sp \in Nat : sp = scale + sb OBVIOUS
  <1>7. ts = Bigger(sp, sa) /\ sp <= ts /\ sa <= ts
    <2>1. \A m, n \in Nat : m <= Bigger(m, n) /\ n <= Bigger(m, n) BY BiggerIs
    <2> QED BY <1>3, <1>6, <2>1
  <1>8. PICK unit \in Nat : unit = Worth(Unit(y)) BY <1>1, UnitIs
  <1>9. PICK v \in Nat, wb \in Nat, part \in Nat, least \in Nat \ {0} :
           /\ v = Worth(c.num) /\ wb = Worth(b.num)
           /\ part = unit * (v * wb) /\ least = unit * (LeastSigPow(scale) * wb)
           /\ part <= Worth(Aligned(a, rdx)) /\ Worth(Aligned(a, rdx)) < part + least
    <2>1. Worth(c.num) = Cut((Worth(Unit(Rdx(b) + RdxOf(scale))) * Worth(a.num))
                               \div (Worth(Unit(Rdx(a))) * Worth(b.num)), LeastSigPow(scale))
      BY DEF Holds
    <2>2. rdx = (Rdx(b) + RdxOf(scale)) + y BY <1>4, <1>5
    <2>3. LET u == Worth(Unit(y))
              m == u * (Worth(c.num) * Worth(b.num))
              n == u * (LeastSigPow(scale) * Worth(b.num))
          IN  /\ Worth(c.num) \in Nat /\ m \in Nat /\ n \in Nat \ {0}
              /\ m <= Worth(Aligned(a, rdx)) /\ Worth(Aligned(a, rdx)) < m + n
      BY <2>1, <2>2, QuotientNear
    <2>4. Worth(b.num) \in Nat BY <1>1, NonZero
    <2> QED BY <1>8, <2>3, <2>4
  <1>10. PICK w \in Nat : w = Worth(Aligned(a, rdx))
    <2>1. Worth(Aligned(a, rdx)) \in Nat BY <1>1, AlignedMore
    <2> QED BY <2>1
  <1>11. RdxOf(ts) \in Nat /\ RdxOf(ts) <= rdx
    <2>1. RdxOf(Bigger(sp, sa)) = Bigger(RdxOf(sp), RdxOf(sa)) /\ RdxOf(sp) \in Nat /\ RdxOf(sa) \in Nat BY RdxGrows
    <2>2. RdxOf(sa) = ra BY <1>1, <1>3, <1>4, NonZero
    <2>3. RdxOf(sp) <= rb + rs
      <3>1. RdxOf(sb) = rb BY <1>1, <1>3, <1>4, NonZero
      <3>2. PICK b1 \in Nat \ {0} : b1 = BaseDigs BY DEF Digits
      <3>3. sb <= RdxOf(sb) * BaseDigs /\ scale <= RdxOf(scale) * BaseDigs BY RdxCovers
      <3>4. PICK m \in Nat, i \in Nat, j \in Nat : m = (rb + rs) * b1 /\ i = rb * b1 /\ j = rs * b1 /\ m = i + j
        <4>1. (rb + rs) * b1 = rb * b1 + rs * b1 OBVIOUS
        <4> QED BY <4>1
      <3>5. sp <= m BY <1>4, <1>6, <3>1, <3>2, <3>3, <3>4
      <3>6. rb + rs \in Nat OBVIOUS
      <3>7. RdxOf((rb + rs) * BaseDigs) = rb + rs BY <3>6, RdxCovers
      <3>8. RdxOf(m) = rb + rs BY <3>2, <3>4, <3>7
      <3>9. RdxOf(sp) <= RdxOf(m) BY <3>5, RdxGrows
      <3> QED BY <3>8, <3>9
    <2>4. rb + rs <= rdx /\ ra <= rdx BY <1>4
    <2>5. PICK f \in Nat, g \in Nat : f = RdxOf(sp) /\ g = RdxOf(sa) /\ f <= rdx /\ g <= rdx
      <3>1. PICK f \in Nat : f = RdxOf(sp) BY <2>1
      <3>2. f <= rb + rs BY <2>3, <3>1
      <3>3. f <= rdx BY <2>4, <3>2
      <3> QED BY <2>2, <2>4, <3>1, <3>3
    <2>6. Bigger(f, g) \in Nat /\ Bigger(f, g) <= rdx BY <2>5 DEF Bigger
    <2> QED BY <1>7, <2>1, <2>5, <2>6
  <1>12. more \in Nat OBVIOUS
  <1> HIDE DEF p, more
  <1>13. /\ Number(d) /\ Tidy(d) /\ (d.scale = ts \/ (~IsZero(d) /\ d.scale < ts))
         /\ Worth(Aligned(d, rdx)) + part = w
         /\ ~IsZero(d) => d.neg = a.neg
    <2>1. CASE IsZero(c)
      <3>1. IsZero(p)
        <4>1. LET m == Mul(c, b, more)
              IN  IsZero(c) \/ IsZero(b) => IsZero(m)
          BY <1>1, <1>2, <1>12, Multiplication
        <4> QED BY <2>1, <4>1 DEF p
      <3>2. d = a BY <3>1 DEF Sub, AddSub
      <3>3. v = 0 BY <1>1, <1>9, <2>1, EmptyWorth DEF IsZero
      <3>4. v * wb = 0 BY <3>3
      <3>5. part = 0 BY <1>9, <3>4
      <3>6. d.scale = sa BY <1>3, <3>2
      <3>7. d.scale = ts \/ (~IsZero(d) /\ d.scale < ts) BY <1>7, <3>2, <3>6
      <3> HIDE DEF d
      <3>8. Worth(Aligned(d, rdx)) + part = w BY <1>10, <3>2, <3>5
      <3>9. Number(d) /\ Tidy(d) /\ d.neg = a.neg BY <3>2
      <3> QED BY <3>7, <3>8, <3>9, Zenon
    <2>2. CASE ~IsZero(c)
      <3>1. /\ Number(p) /\ ~IsZero(p) /\ p.scale = c.scale + b.scale /\ p.neg = (c.neg # b.neg)
            /\ \E k \in Nat : /\ Rdx(c) + Rdx(b) = RdxOf(c.scale + b.scale) + k
                              /\ Worth(Unit(k)) * Worth(p.num) = Worth(c.num) * Worth(b.num)
        <4>1. c.scale + b.scale <= Bigger(Bigger(more, c.scale), b.scale)
          <5>1. PICK m \in Nat, n \in Nat : m = Bigger(more, scale) /\ n = Bigger(m, sb) /\ more <= m /\ m <= n /\ sb <= n
            <6>1. \A i, j \in Nat : Bigger(i, j) \in Nat /\ i <= Bigger(i, j) /\ j <= Bigger(i, j) BY BiggerIs
            <6> QED BY <1>12, <6>1
          <5>2. sp <= n
            <6>1. CASE scale = 0
              <7>1. sp = sb BY <1>6, <6>1
              <7> QED BY <5>1, <7>1
            <6>2. CASE scale # 0
              <7>1. more = ts + 1 BY <6>2 DEF more
              <7> QED BY <1>7, <1>12, <5>1, <7>1
            <6> QED BY <6>1, <6>2
          <5> QED BY <1>2, <1>3, <1>6, <5>1, <5>2
        <4>2. LET m == Mul(c, b, more)
              IN  /\ Number(m) /\ ~IsZero(m) /\ m.scale = c.scale + b.scale /\ m.neg = (c.neg # b.neg)
                  /\ \E k \in Nat : /\ Rdx(c) + Rdx(b) = RdxOf(c.scale + b.scale) + k
                                    /\ Worth(Unit(k)) * Worth(m.num) = Worth(c.num) * Worth(b.num)
          BY <1>2, <1>12, <2>2, <4>1, WholeProduct
        <4> QED BY <4>2 DEF p
      <3>2. p.neg = a.neg
        <4>1. a.neg \in BOOLEAN /\ b.neg \in BOOLEAN BY <1>1, NonZero
        <4> QED BY <1>2, <2>2, <3>1, <4>1
      <3>3. p.scale = sp BY <1>2, <1>3, <1>6, <3>1
      <3>4. PICK rp \in Nat, wp \in Nat : rp = RdxOf(sp) /\ rp = Rdx(p) /\ wp = Worth(p.num)
        <4>1. Rdx(p) = RdxOf(p.scale) /\ Rdx(p) \in Nat /\ Worth(p.num) \in Nat BY <1>1, <3>1, NonZero
        <4> QED BY <3>3, <4>1
      <3>5. PICK k \in Nat : rb + rs = rp + k /\ Worth(Unit(k)) * wp = v * wb
        <4>1. Rdx(c) = rs BY <1>1, <1>2, <1>4, <2>2, NonZero
        <4>2. PICK k \in Nat : /\ Rdx(c) + Rdx(b) = RdxOf(c.scale + b.scale) + k
                               /\ Worth(Unit(k)) * Worth(p.num) = Worth(c.num) * Worth(b.num)
          BY <3>1
        <4>3. rs + rb = rp + k BY <1>2, <1>3, <1>4, <1>6, <3>4, <4>1, <4>2
        <4>4. rb + rs = rp + k BY <4>3
        <4> QED BY <1>9, <3>4, <4>2, <4>4
      <3>6. PICK m \in Nat : m = y + k /\ rdx = rp + m BY <1>5, <3>5
      <3>7. Worth(Aligned(p, rdx)) = part
        <4>1. Worth(Aligned(p, Rdx(p) + m)) = Worth(Unit(m)) * Worth(p.num) BY <1>1, <3>1, AlignedWorth
        <4>2. Worth(Unit(y)) * Worth(Unit(k)) = Worth(Unit(y + k)) BY <1>1, UnitTimes
        <4>3. PICK f \in Nat : f = Worth(Unit(k)) BY <1>1, UnitIs
        <4>4. (unit * f) * wp = unit * (f * wp)
          <5>1. \A g, h, i \in Nat : (g * h) * i = g * (h * i) OBVIOUS
          <5> QED BY <5>1
        <4>5. Worth(Unit(m)) = unit * f BY <1>8, <3>6, <4>2, <4>3
        <4>6. f * wp = v * wb BY <3>5, <4>3
        <4>7. Worth(Aligned(p, rdx)) = (unit * f) * wp BY <3>4, <3>6, <4>1, <4>5
        <4> QED BY <1>9, <4>4, <4>6, <4>7
      <3>8. Rdx(p) <= rdx BY <3>4, <3>6
      <3>9. Worth(Aligned(p, rdx)) <= Worth(Aligned(a, rdx)) BY <1>9, <3>7
      <3>10. /\ Number(d)
             /\ Worth(Aligned(d, rdx)) + Worth(Aligned(p, rdx)) = Worth(Aligned(a, rdx))
             /\ ~IsZero(d) => d.neg = a.neg
        BY <1>1, <3>1, <3>2, <3>8, <3>9, Lessened
      <3>11. Tidy(p) BY <1>2, <1>12, TidyProducts DEF p
      <3>12. d = AddSub(a, p, TRUE) BY DEF Sub
      <3>13. Tidy(d) BY <3>1, <3>11, <3>12, TidySums
      <3>14. d.scale = ts
        <4>1. LET h == AddSub(a, p, TRUE)
              IN  h.scale = IF IsZero(p) THEN a.scale ELSE IF IsZero(a) THEN p.scale ELSE Bigger(a.scale, p.scale)
          BY <1>1, <3>1, Addition
        <4>2. d.scale = Bigger(sa, sp) BY <1>3, <3>1, <3>3, <3>12, <4>1
        <4>3. Bigger(sa, sp) = Bigger(sp, sa) BY DEF Bigger
        <4> QED BY <1>7, <4>2, <4>3
      <3> HIDE DEF d
      <3> QED BY <1>10, <3>7, <3>10, <3>13, <3>14
    <2> QED BY <2>1, <2>2
  <1> HIDE DEF d
  <1>14. /\ Number(r) /\ Tidy(r) /\ r.scale = ts
         /\ ~IsZero(r) => r.neg = d.neg
         /\ Worth(Aligned(r, rdx)) = Worth(Aligned(d, rdx))
    BY <1>11, <1>13, RestIs
  <1> HIDE DEF r
  <1>15. ~IsZero(r) => r.neg = a.neg
    <2> HAVE ~IsZero(r)
    <2>1. Rdx(r) <= rdx
      <3>1. Rdx(r) = RdxOf(ts) BY <1>1, <1>14, NonZero
      <3> QED BY <1>11, <3>1
    <2>2. Worth(Aligned(r, rdx)) >= 1 BY <1>1, <1>14, <2>1, AlignedIs
    <2>3. ~IsZero(d)
      <3> SUFFICES ASSUME IsZero(d) PROVE FALSE OBVIOUS
      <3>1. Rdx(d) = 0 BY DEF Rdx
      <3>2. Worth(Aligned(d, rdx)) = 0 BY <1>1, <1>13, <3>1, AlignedIs
      <3> QED BY <1>14, <2>2, <3>2
    <2> QED BY <1>13, <1>14, <2>3
  <1>16. PICK l \in Nat : l = Worth(Aligned(r, rdx))
    <2>1. Rdx(r) <= rdx
      <3>1. CASE IsZero(r) BY <3>1 DEF Rdx
      <3>2. CASE ~IsZero(r)
        <4>1. Rdx(r) = RdxOf(ts) BY <1>1, <1>14, <3>2, NonZero
        <4> QED BY <1>11, <4>1
      <3> QED BY <3>1, <3>2
    <2>2. Worth(Aligned(r, rdx)) \in Nat BY <1>1, <1>14, <2>1, AlignedMore
    <2> QED BY <2>2
  <1>17. l + part = w /\ l < least
    <2>1. l + part = w BY <1>13, <1>14, <1>16
    <2>2. w < part + least BY <1>9, <1>10
    <2> QED BY <2>1, <2>2
  <1>18. IsRest(r, c, a, b, scale, rdx)
    <2>1. Worth(Unit(rdx - (Rdx(b) + RdxOf(scale)))) = unit BY <1>4, <1>5, <1>8
    <2> QED BY <1>9, <1>10, <1>15, <1>16, <1>17, <2>1 DEF IsRest
  <1> QED BY <1>14, <1>18 DEF r, d, p, more

\* bc_num_mod(): whatever the signs and scales of a and b, the quotient to the scale
\* times b, and what is left, make up a exactly; what is left has the sign of a and is less
\* than b at that scale. rdx is any place behind all points.
THEOREM Remainders ==
    ASSUME Digits, Exponents, Halving, NEW a, NEW b, Number(a), Number(b), Tidy(a), Tidy(b),
           NEW scale \in Nat, NEW rdx \in Nat, Rdx(a) <= rdx, Rdx(b) + RdxOf(scale) <= rdx
    PROVE  LET r == Mod(a, b, scale)
           IN  /\ IsZero(b) => Failed(r)
               /\ ~IsZero(b) => /\ Number(r) /\ Tidy(r) /\ r.scale = Bigger(scale + b.scale, a.scale)
                                /\ IsRest(r, Div(a, b, scale), a, b, scale, rdx)
  <1> DEFINE ts == Bigger(scale + b.scale, a.scale)
             c == Div(a, b, scale)
             r == Mod(a, b, scale)
             more == IF scale = 0 THEN 0 ELSE ts + 1
  <1>1. Based /\ Places BY BaseIs
  <1>2. ts \in Nat
    <2>1. a.scale \in Nat /\ b.scale \in Nat BY DEF Number
    <2>2. scale + b.scale \in Nat BY <2>1
    <2> QED BY <2>1, <2>2, BiggerIs
  <1>3. CASE IsZero(b)
    <2>1. r = [error |-> "divide by zero"] BY <1>3 DEF Mod, Both, Error
    <2> HIDE DEF r
    <2>2. DOMAIN r = {"error"} BY <2>1
    <2>3. Failed(r) BY <2>2 DEF Failed
    <2> QED BY <1>3, <2>3 DEF r
  <1>4. CASE ~IsZero(b) /\ IsZero(a)
    <2>1. r = Zero(ts) BY <1>4 DEF Mod, Both
    <2>2. c = Zero(scale) BY <1>4 DEF Div
    <2> HIDE DEF r, c, ts
    <2>3. c.num = <<>> BY <2>2 DEF Zero, Num
    <2>4. Worth(c.num) = 0 BY <1>1, <2>3, EmptyWorth
    <2>5. r = [neg |-> FALSE, scale |-> ts, num |-> <<>>] BY <2>1 DEF Zero, Num
    <2>6. r.num = <<>> /\ r.scale = ts /\ r.neg = FALSE /\ <<>> \in Seq(Digit) BY <2>5
    <2>7. IsZero(r) /\ Number(r) BY <1>2, <2>5, <2>6 DEF Number, IsZero
    <2>8. PICK p \in Nat \ {0} : p = LeastSigPow(ts) BY <1>1, <1>2 DEF Places
    <2>9. Tidy(r)
      <3>1. Worth(r.num) = 0 BY <1>1, <2>6, EmptyWorth
      <3>2. 0 % p = 0 OBVIOUS
      <3> QED BY <2>6, <2>8, <3>1, <3>2 DEF Tidy
    <2>10. Rdx(r) = 0 BY <2>7 DEF Rdx
    <2>11. Worth(Aligned(r, rdx)) = 0 BY <1>1, <2>7, <2>10, AlignedIs
    <2>12. Worth(Aligned(a, rdx)) = 0
      <3>1. Rdx(a) = 0 BY <1>4 DEF Rdx
      <3> QED BY <1>1, <1>4, <3>1, AlignedIs
    <2>13. PICK rb \in Nat, rs \in Nat, wb \in Nat \ {0} : rb = Rdx(b) /\ rs = RdxOf(scale) /\ wb = Worth(b.num)
      <3>1. Rdx(b) \in Nat /\ RdxOf(scale) \in Nat /\ Worth(b.num) \in Nat \ {0} BY <1>1, <1>4, NonZero, RdxGrows
      <3> QED BY <3>1
    <2>14. PICK y \in Nat : y = rdx - (rb + rs)
      <3>1. rb + rs <= rdx BY <2>13
      <3>2. rdx - (rb + rs) \in Nat BY <3>1
      <3> QED BY <3>2
    <2>15. PICK unit \in Nat \ {0} : unit = Worth(Unit(y))
      <3>1. Worth(Unit(y)) \in Nat /\ Worth(Unit(y)) >= 1 BY <1>1, UnitIs
      <3> QED BY <3>1
    <2>16. PICK q \in Nat \ {0} : q = LeastSigPow(scale) BY <1>1 DEF Places
    <2>17. unit * (q * wb) \in Nat \ {0}
      <3>1. \A i, j \in Nat \ {0} : i * j \in Nat \ {0} OBVIOUS
      <3>2. q * wb \in Nat \ {0} BY <3>1
      <3> QED BY <3>1, <3>2
    <2>18. PICK least \in Nat \ {0} : least = unit * (q * wb) BY <2>17
    <2>19. unit * (0 * wb) = 0 OBVIOUS
    <2>20. IsRest(r, c, a, b, scale, rdx)
      <3>1. Worth(Unit(rdx - (Rdx(b) + RdxOf(scale)))) = unit BY <2>13, <2>14, <2>15
      <3>2. 0 + unit * (0 * wb) = 0 BY <2>19
      <3>3. 0 < least OBVIOUS
      <3> QED BY <2>4, <2>7, <2>11, <2>12, <2>13, <2>16, <2>18, <3>1, <3>2, <3>3 DEF IsRest
    <2> QED BY <1>4, <2>6, <2>7, <2>9, <2>20 DEF r, c, ts
  <1>5. CASE ~IsZero(b) /\ ~IsZero(a)
    <2>1. r = RestOf(Sub(a, Mul(c, b, more)), ts) BY <1>5 DEF Mod, Both, WithRest
    <2>2. /\ Tidy(c)
          /\ Holds(c, scale, a.neg # b.neg, (Worth(Unit(Rdx(b) + RdxOf(scale))) * Worth(a.num))
                                               \div (Worth(Unit(Rdx(a))) * Worth(b.num)))
      BY <1>5, Division
    <2> HIDE DEF c, r
    <2>3. PICK t \in Nat : t = ts /\ t = Bigger(scale + b.scale, a.scale) BY <1>2
    <2>4. LET h == RestOf(Sub(a, Mul(c, b, IF scale = 0 THEN 0 ELSE t + 1)), t)
          IN  Number(h) /\ Tidy(h) /\ h.scale = t /\ IsRest(h, c, a, b, scale, rdx)
      BY <1>5, <2>2, <2>3, RestLeft
    <2>5. Number(r) /\ Tidy(r) /\ r.scale = ts /\ IsRest(r, c, a, b, scale, rdx) BY <2>1, <2>3, <2>4
    <2> QED BY <1>5, <2>5 DEF r, c, ts
  <1> QED BY <1>3, <1>4, <1>5

-----------------------------------------------------------------------------
(* Powers                                                                  *)

\* v is the product of n factors w.
Power(v, w, n) ==
    \E f \in [0..n -> Nat] : f[0] = 1 /\ f[n] = v /\ \A i \in 1..n : f[i] = w * f[i - 1]

\* c is a, which is not zero, to the power n: with all its digits.
IsPower(c, a, n) ==
    /\ Number(c) /\ ~IsZero(c) /\ Tidy(c)
    /\ c.scale = n * a.scale
    /\ c.neg = (a.neg /\ n % 2 = 1)
    /\ \E k, v \in Nat : /\ n * Rdx(a) = RdxOf(c.scale) + k
                         /\ Power(v, Worth(a.num), n)
                         /\ Worth(Unit(k)) * Worth(c.num) = v

\* A number to the power of one.
LEMMA PowerOnce ==
    ASSUME NEW w \in Nat
    PROVE  Power(w, w, 1)
  <1> DEFINE f == [i \in 0..1 |-> IF i = 0 THEN 1 ELSE w]
  <1>1. f \in [0..1 -> Nat] /\ f[0] = 1 /\ f[1] = w OBVIOUS
  <1> HIDE DEF f
  <1>2. \A i \in 1..1 : f[i] = w * f[i - 1]
    <2> TAKE i \in 1..1
    <2>1. i = 1 /\ i - 1 = 0 /\ w * 1 = w OBVIOUS
    <2> QED BY <1>1, <2>1
  <1> QED BY <1>1, <1>2 DEF Power

\* Factors after factors.
LEMMA PowersJoin ==
    ASSUME NEW w \in Nat, NEW i \in Nat, NEW j \in Nat, NEW u \in Nat, NEW v \in Nat,
           Power(u, w, i), Power(v, w, j)
    PROVE  Power(u * v, w, i + j)
  <1>1. PICK f \in [0..i -> Nat] : f[0] = 1 /\ f[i] = u /\ \A m \in 1..i : f[m] = w * f[m - 1] BY DEF Power
  <1>2. PICK g \in [0..j -> Nat] : g[0] = 1 /\ g[j] = v /\ \A m \in 1..j : g[m] = w * g[m - 1] BY DEF Power
  <1>3. PICK n \in Nat : n = i + j OBVIOUS
  <1> DEFINE h == [m \in 0..n |-> IF m <= i THEN f[m] ELSE u * g[m - i]]
  <1>4. \A x, y \in Nat : x * y \in Nat OBVIOUS
  <1>5. ASSUME NEW m \in 0..j PROVE i + m \in 0..n /\ h[i + m] = u * g[m] /\ g[m] \in Nat
    <2>1. i + m \in 0..n /\ (i + m) - i = m BY <1>3
    <2>2. CASE m = 0
      <3>1. u * 1 = u /\ i + m = i BY <2>2
      <3>2. h[i + m] = f[i] BY <2>1, <3>1
      <3> QED BY <1>1, <1>2, <2>1, <2>2, <3>1, <3>2
    <2>3. CASE m # 0
      <3>1. ~(i + m <= i) BY <2>3
      <3>2. h[i + m] = u * g[m] BY <2>1, <3>1
      <3> QED BY <2>1, <3>2
    <2> QED BY <2>2, <2>3
  <1>6. ASSUME NEW m \in 0..i PROVE m \in 0..n /\ h[m] = f[m] BY <1>3
  <1>7. ASSUME NEW m \in 0..n PROVE h[m] \in Nat
    <2>1. CASE m <= i
      <3>1. m \in 0..i BY <2>1
      <3>2. f[m] \in Nat BY <3>1
      <3> QED BY <1>6, <3>1, <3>2
    <2>2. CASE ~(m <= i)
      <3>1. PICK l \in 0..j : m = i + l
        <4>1. m - i \in 0..j /\ m = i + (m - i) BY <1>3, <2>2
        <4> QED BY <4>1
      <3>2. h[i + l] = u * g[l] /\ g[l] \in Nat BY <1>5
      <3> HIDE DEF h
      <3> QED BY <1>4, <3>1, <3>2
    <2> QED BY <2>1, <2>2
  <1>8. h \in [0..n -> Nat]
    <2>1. h = [m \in 0..n |-> h[m]] OBVIOUS
    <2> HIDE DEF h
    <2> QED BY <1>7, <2>1
  <1> HIDE DEF h
  <1>9. h[0] = 1
    <2>1. 0 \in 0..i OBVIOUS
    <2> QED BY <1>1, <1>6, <2>1
  <1>10. h[n] = u * v
    <2>1. j \in 0..j OBVIOUS
    <2> QED BY <1>2, <1>3, <1>5, <2>1
  <1>11. ASSUME NEW m \in 1..n PROVE h[m] = w * h[m - 1]
    <2>1. CASE m <= i
      <3>1. m \in 1..i /\ m \in 0..i /\ m - 1 \in 0..i BY <2>1
      <3>2. f[m] = w * f[m - 1] BY <1>1, <3>1
      <3> QED BY <1>6, <3>1, <3>2
    <2>2. CASE ~(m <= i)
      <3>1. PICK l \in 1..j : m = i + l
        <4>1. m - i \in 1..j /\ m = i + (m - i) BY <1>3, <2>2
        <4> QED BY <4>1
      <3>2. PICK o \in 0..j : o = l - 1 /\ m - 1 = i + o
        <4>1. l - 1 \in 0..j /\ m - 1 = i + (l - 1) BY <3>1
        <4> QED BY <4>1
      <3>3. h[m] = u * g[l] BY <1>5, <3>1
      <3>4. h[m - 1] = u * g[o] /\ g[o] \in Nat BY <1>5, <3>2
      <3>5. g[l] = w * g[o] BY <1>2, <3>2
      <3>6. \A x, y, z \in Nat : x * (y * z) = y * (x * z) OBVIOUS
      <3>7. u * (w * g[o]) = w * (u * g[o]) BY <3>4, <3>6
      <3> QED BY <3>3, <3>4, <3>5, <3>7
    <2> QED BY <2>1, <2>2
  <1>12. Power(u * v, w, n) BY <1>8, <1>9, <1>10, <1>11 DEF Power
  <1> QED BY <1>3, <1>12

\* Every number is itself to the power of one.
LEMMA PowerOne ==
    ASSUME Digits, Exponents, NEW a, Number(a), ~IsZero(a), Tidy(a)
    PROVE  IsPower(a, a, 1)
  <1>1. Based /\ Places BY BaseIs
  <1>2. PICK s \in Nat, w \in Nat, r \in Nat : s = a.scale /\ w = Worth(a.num) /\ r = Rdx(a) /\ r = RdxOf(s)
    <2>1. a.scale \in Nat /\ Worth(a.num) \in Nat /\ Rdx(a) \in Nat /\ Rdx(a) = RdxOf(a.scale) BY <1>1, NonZero
    <2> QED BY <2>1
  <1>3. a.neg \in BOOLEAN BY <1>1, NonZero
  <1>4. 1 * s = s /\ 1 * r = r + 0 /\ 1 % 2 = 1 /\ 1 * w = w OBVIOUS
  <1>5. Worth(Unit(0)) * w = w BY <1>1, <1>4, UnitZero
  <1>6. Power(w, w, 1) BY PowerOnce
  <1>7. \E k, v \in Nat : 1 * r = RdxOf(s) + k /\ Power(v, w, 1) /\ Worth(Unit(k)) * w = v
    <2>1. 0 \in Nat OBVIOUS
    <2> QED BY <1>2, <1>4, <1>5, <1>6, <2>1
  <1>8. a.scale = 1 * a.scale BY <1>2, <1>4
  <1>9. a.neg = (a.neg /\ 1 % 2 = 1) BY <1>3, <1>4
  <1>10. \E k, v \in Nat : /\ 1 * Rdx(a) = RdxOf(a.scale) + k
                           /\ Power(v, Worth(a.num), 1)
                           /\ Worth(Unit(k)) * Worth(a.num) = v
    BY <1>2, <1>7
  <1> QED BY <1>8, <1>9, <1>10 DEF IsPower

\* A product of powers, to a scale that leaves room for its digits, is a power.
LEMMA PowersTimes ==
    ASSUME Digits, Exponents, Halving, NEW a, Number(a), ~IsZero(a), NEW i \in Nat, NEW j \in Nat,
           NEW c, IsPower(c, a, i), NEW d, IsPower(d, a, j), NEW scale \in Nat, scale = c.scale + d.scale
    PROVE  IsPower(Mul(c, d, scale), a, i + j) /\ Mul(c, d, scale).scale = scale
  <1> DEFINE r == Mul(c, d, scale)
  <1>1. Based /\ Places BY BaseIs
  <1>2. PICK s \in Nat, w \in Nat, ra \in Nat : s = a.scale /\ w = Worth(a.num) /\ ra = Rdx(a)
    <2>1. a.scale \in Nat /\ Worth(a.num) \in Nat /\ Rdx(a) \in Nat BY <1>1, NonZero
    <2> QED BY <2>1
  <1>3. PICK neg \in BOOLEAN : neg = a.neg BY <1>1, NonZero
  <1>4. /\ Number(c) /\ ~IsZero(c) /\ Tidy(c) /\ c.scale = i * s /\ c.neg = (neg /\ i % 2 = 1)
        /\ \E k, v \in Nat : i * ra = RdxOf(c.scale) + k /\ Power(v, w, i) /\ Worth(Unit(k)) * Worth(c.num) = v
    BY <1>2, <1>3 DEF IsPower
  <1>5. /\ Number(d) /\ ~IsZero(d) /\ Tidy(d) /\ d.scale = j * s /\ d.neg = (neg /\ j % 2 = 1)
        /\ \E k, v \in Nat : j * ra = RdxOf(d.scale) + k /\ Power(v, w, j) /\ Worth(Unit(k)) * Worth(d.num) = v
    BY <1>2, <1>3 DEF IsPower
  <1>6. PICK k1 \in Nat, v1 \in Nat : i * ra = RdxOf(c.scale) + k1 /\ Power(v1, w, i) /\ Worth(Unit(k1)) * Worth(c.num) = v1
    BY <1>4
  <1>7. PICK k2 \in Nat, v2 \in Nat : j * ra = RdxOf(d.scale) + k2 /\ Power(v2, w, j) /\ Worth(Unit(k2)) * Worth(d.num) = v2
    BY <1>5
  <1>8. PICK sc \in Nat, wc \in Nat, rc \in Nat : sc = c.scale /\ wc = Worth(c.num) /\ rc = Rdx(c) /\ rc = RdxOf(c.scale)
    <2>1. c.scale \in Nat /\ Worth(c.num) \in Nat /\ Rdx(c) \in Nat /\ Rdx(c) = RdxOf(c.scale) BY <1>1, <1>4, NonZero
    <2> QED BY <2>1
  <1>9. PICK sd \in Nat, wd \in Nat, rd \in Nat : sd = d.scale /\ wd = Worth(d.num) /\ rd = Rdx(d) /\ rd = RdxOf(d.scale)
    <2>1. d.scale \in Nat /\ Worth(d.num) \in Nat /\ Rdx(d) \in Nat /\ Rdx(d) = RdxOf(d.scale) BY <1>1, <1>5, NonZero
    <2> QED BY <2>1
  <1>10. c.scale + d.scale <= Bigger(Bigger(scale, c.scale), d.scale)
    <2>1. PICK e \in Nat : e = Bigger(scale, c.scale) /\ e >= scale BY <1>8, BiggerIs
    <2>2. PICK g \in Nat : g = Bigger(e, d.scale) /\ g >= e BY <1>9, BiggerIs
    <2>3. scale <= g BY <2>1, <2>2
    <2> QED BY <2>1, <2>2, <2>3
  <1>11. /\ Number(r) /\ ~IsZero(r) /\ r.scale = c.scale + d.scale /\ r.neg = (c.neg # d.neg)
         /\ \E k \in Nat : /\ Rdx(c) + Rdx(d) = RdxOf(c.scale + d.scale) + k
                           /\ Worth(Unit(k)) * Worth(r.num) = Worth(c.num) * Worth(d.num)
    BY <1>4, <1>5, <1>10, WholeProduct
  <1>12. Tidy(r) BY <1>4, <1>5, TidyProducts
  <1> HIDE DEF r
  <1>13. PICK k3 \in Nat : rc + rd = RdxOf(scale) + k3 /\ Worth(Unit(k3)) * Worth(r.num) = wc * wd
    BY <1>8, <1>9, <1>11
  <1>14. PICK n \in Nat : n = i + j OBVIOUS
  <1>15. scale = n * s /\ r.scale = scale
    <2>1. i * s + j * s = n * s BY <1>14
    <2> QED BY <1>4, <1>5, <1>11, <2>1
  <1>16. r.neg = (neg /\ n % 2 = 1)
    <2>1. (n % 2 = 1) = ((i % 2 = 1) # (j % 2 = 1)) BY <1>14
    <2> QED BY <1>4, <1>5, <1>11, <2>1
  <1>17. PICK rs \in Nat : rs = RdxOf(scale) BY RdxGrows
  <1>18. PICK k \in Nat : k = (k1 + k2) + k3 OBVIOUS
  <1>19. n * ra = rs + k
    <2>1. PICK x \in Nat, y \in Nat : x = i * ra /\ y = j * ra OBVIOUS
    <2>2. n * ra = x + y BY <1>14, <2>1
    <2>3. x = rc + k1 /\ y = rd + k2 BY <1>6, <1>7, <1>8, <1>9, <2>1
    <2>4. rc + rd = rs + k3 BY <1>13, <1>17
    <2>5. x + y = rs + k BY <1>18, <2>3, <2>4
    <2> QED BY <2>2, <2>5
  <1>20. PICK u1 \in Nat, u2 \in Nat, u3 \in Nat : u1 = Worth(Unit(k1)) /\ u2 = Worth(Unit(k2)) /\ u3 = Worth(Unit(k3))
    BY <1>1, UnitIs
  <1>21. Worth(Unit(k)) = (u1 * u2) * u3
    <2>1. k1 + k2 \in Nat OBVIOUS
    <2>2. Worth(Unit(k1 + k2)) = u1 * u2 BY <1>1, <1>20, UnitTimes
    <2>3. Worth(Unit((k1 + k2) + k3)) = Worth(Unit(k1 + k2)) * Worth(Unit(k3)) BY <1>1, <2>1, UnitTimes
    <2> QED BY <1>18, <1>20, <2>2, <2>3
  <1>22. PICK wr \in Nat : wr = Worth(r.num) BY <1>1, <1>11, NonZero
  <1>23. ((u1 * u2) * u3) * wr = v1 * v2
    <2>1. \A x, y, z, t \in Nat : ((x * y) * z) * t = (x * y) * (z * t) OBVIOUS
    <2>2. \A x, y, z, t \in Nat : (x * y) * (z * t) = (x * z) * (y * t) OBVIOUS
    <2>3. u3 * wr = wc * wd BY <1>13, <1>20, <1>22
    <2>4. u1 * wc = v1 /\ u2 * wd = v2 BY <1>6, <1>7, <1>8, <1>9, <1>20
    <2>5. ((u1 * u2) * u3) * wr = (u1 * u2) * (u3 * wr) BY <2>1
    <2>6. (u1 * u2) * (wc * wd) = (u1 * wc) * (u2 * wd) BY <2>2
    <2> QED BY <2>3, <2>4, <2>5, <2>6
  <1>24. PICK v \in Nat : v = v1 * v2
    <2>1. v1 * v2 \in Nat OBVIOUS
    <2> QED BY <2>1
  <1>25. Power(v, w, n)
    <2>1. Power(v1 * v2, w, i + j) BY <1>6, <1>7, PowersJoin
    <2> QED BY <1>14, <1>24, <2>1
  <1>26. \E l, y \in Nat : /\ n * Rdx(a) = RdxOf(r.scale) + l
                           /\ Power(y, Worth(a.num), n)
                           /\ Worth(Unit(l)) * Worth(r.num) = y
    <2>1. /\ n * Rdx(a) = RdxOf(r.scale) + k
          /\ Power(v, Worth(a.num), n)
          /\ Worth(Unit(k)) * Worth(r.num) = v
      BY <1>2, <1>15, <1>17, <1>19, <1>21, <1>22, <1>23, <1>24, <1>25
    <2> QED BY <2>1
  <1>27. IsPower(r, a, n)
    <2>1. r.scale = n * a.scale BY <1>2, <1>15
    <2>2. r.neg = (a.neg /\ n % 2 = 1) BY <1>3, <1>16
    <2> QED BY <1>11, <1>12, <1>26, <2>1, <2>2 DEF IsPower
  <1> QED BY <1>14, <1>15, <1>27 DEF r


\* What a round of bc_num_p() finds and leaves: copy is the power of a that a digit of the
\* exponent stands for, and c that of the digits there were; the rest of the exponent
\* is that of copy.
Shares(s, a, n) ==
    \E m \in Nat \ {0} :
        /\ IsPower(s.copy, a, m) /\ s.powrdx = s.copy.scale
        /\ \/ s.c = NoPower /\ s.resrdx = 0 /\ m * s.exp = n
           \/ \E i \in Nat : IsPower(s.c, a, i) /\ s.resrdx = s.c.scale /\ i + m * s.exp = n
Numerals == [neg : BOOLEAN, scale : Nat, num : Seq(Digit)]
Rounds == [copy : Numerals, powrdx : Nat, exp : Nat, c : Numerals \cup {NoPower}, resrdx : Nat]

\* A number is not the absence of one.
LEMMA PowerThere ==
    ASSUME NEW c, Number(c)
    PROVE  c # NoPower /\ c \in Numerals
  <1>1. c \in Numerals BY DEF Number, Numerals
  <1>2. DOMAIN c = {"neg", "scale", "num"} BY <1>1 DEF Numerals
  <1>3. NoPower = [error |-> "none"] BY DEF NoPower, Error
  <1>4. DOMAIN NoPower = {"error"}
    <2>1. DOMAIN [error |-> "none"] = {"error"} OBVIOUS
    <2> QED BY <1>3, <2>1
  <1>5. "neg" \in DOMAIN c /\ "neg" \notin DOMAIN NoPower BY <1>2, <1>4
  <1>6. c # NoPower BY <1>5
  <1> QED BY <1>1, <1>6

\* A round keeps what the rounds share, and takes at least one off the exponent.
LEMMA SquaredIs ==
    ASSUME Digits, Exponents, Halving, NEW a, Number(a), ~IsZero(a), NEW n \in Nat,
           NEW s \in Rounds, Shares(s, a, n), s.exp # 0
    PROVE  LET t == Squared(s) IN t \in Rounds /\ Shares(t, a, n) /\ t.exp < s.exp
  <1> DEFINE t == Squared(s)
             used == s.exp % 2 = 1
             copy == Mul(s.copy, s.copy, 2 * s.powrdx)
             times == Mul(s.c, s.copy, s.resrdx + s.powrdx)
  <1>1. PICK e \in Nat, p \in Nat, r \in Nat : e = s.exp /\ p = s.powrdx /\ r = s.resrdx BY DEF Rounds
  <1>2. PICK m \in Nat \ {0} :
            /\ IsPower(s.copy, a, m) /\ s.powrdx = s.copy.scale
            /\ \/ s.c = NoPower /\ s.resrdx = 0 /\ m * s.exp = n
               \/ \E i \in Nat : IsPower(s.c, a, i) /\ s.resrdx = s.c.scale /\ i + m * s.exp = n
    BY DEF Shares
  <1>3. PICK h \in Nat : h = e \div 2 /\ h < e /\ e = IF used THEN 2 * h + 1 ELSE 2 * h
    <2>1. \A y \in Nat \ {0} : /\ y \div 2 \in Nat /\ y \div 2 < y
                               /\ y % 2 = 1 \/ y % 2 = 0
                               /\ y = 2 * (y \div 2) + (y % 2)
      OBVIOUS
    <2>2. e \in Nat \ {0} BY <1>1
    <2>3. e \div 2 \in Nat /\ e \div 2 < e /\ (e % 2 = 1 \/ e % 2 = 0) /\ e = 2 * (e \div 2) + (e % 2)
      BY <2>1, <2>2
    <2> QED BY <1>1, <2>3
  <1>4. 2 * p \in Nat /\ 2 * p = p + p /\ r + p \in Nat /\ m + m \in Nat \ {0} OBVIOUS
  <1>5. IsPower(copy, a, m + m) /\ copy.scale = 2 * p
    <2>1. 2 * s.powrdx \in Nat /\ 2 * s.powrdx = s.copy.scale + s.copy.scale BY <1>1, <1>2, <1>4
    <2> QED BY <1>1, <1>2, <2>1, PowersTimes
  <1>6. s.copy \in Numerals /\ copy \in Numerals /\ Number(s.copy)
    <2>1. Number(s.copy) /\ Number(copy) BY <1>2, <1>5 DEF IsPower
    <2> HIDE DEF copy
    <2> QED BY <2>1, PowerThere
  <1> DEFINE c == IF ~used THEN s.c ELSE IF s.c = NoPower THEN s.copy ELSE times
             resrdx == IF used THEN r + p ELSE r
  <1>7. t = [copy |-> copy, powrdx |-> 2 * p, exp |-> h, c |-> c, resrdx |-> resrdx]
    BY <1>1, <1>3 DEF Squared
  <1>8. s.c \in Numerals \cup {NoPower} BY DEF Rounds
  <1>9. PICK x \in Nat : x = m * h OBVIOUS
  <1>10. (m + m) * h = x + x /\ m * s.exp = IF used THEN (x + x) + m ELSE x + x
    <2>1. (m + m) * h = x + x BY <1>9
    <2>2. m * (2 * h) = x + x /\ m * (2 * h + 1) = (x + x) + m BY <1>9
    <2> HIDE DEF used
    <2>3. e = s.exp BY <1>1
    <2>4. CASE used
      <3>1. e = 2 * h + 1 BY <1>3, <2>4
      <3> QED BY <2>1, <2>2, <2>3, <2>4, <3>1
    <2>5. CASE ~used
      <3>1. e = 2 * h BY <1>3, <2>5
      <3> QED BY <2>1, <2>2, <2>3, <2>5, <3>1
    <2> QED BY <2>4, <2>5
  <1> HIDE DEF used, copy
  <1>11. /\ c \in Numerals \cup {NoPower}
         /\ \/ c = NoPower /\ resrdx = 0 /\ (m + m) * h = n
            \/ \E i \in Nat : IsPower(c, a, i) /\ resrdx = c.scale /\ i + (m + m) * h = n
    <2>1. CASE s.c = NoPower /\ s.resrdx = 0 /\ m * s.exp = n
      <3>1. CASE used
        <4>1. c = s.copy /\ resrdx = s.copy.scale BY <1>1, <1>2, <2>1, <3>1
        <4>2. m + (m + m) * h = n
          <5>1. (x + x) + m = n BY <1>10, <2>1, <3>1
          <5> QED BY <1>10, <5>1
        <4> QED BY <1>2, <1>6, <4>1, <4>2
      <3>2. CASE ~used
        <4>1. c = NoPower /\ resrdx = 0 BY <1>1, <2>1, <3>2
        <4>2. (m + m) * h = n BY <1>10, <2>1, <3>2
        <4> QED BY <4>1, <4>2
      <3> QED BY <3>1, <3>2
    <2>2. ASSUME NEW i \in Nat, IsPower(s.c, a, i) /\ s.resrdx = s.c.scale /\ i + m * s.exp = n
          PROVE  /\ c \in Numerals \cup {NoPower}
                 /\ \E l \in Nat : IsPower(c, a, l) /\ resrdx = c.scale /\ l + (m + m) * h = n
      <3>1. Number(s.c) /\ s.c # NoPower
        <4>1. Number(s.c) BY <2>2 DEF IsPower
        <4> QED BY <4>1, PowerThere
      <3>2. CASE used
        <4>1. c = times /\ resrdx = r + p BY <3>1, <3>2
        <4>2. IsPower(times, a, i + m) /\ times.scale = r + p
          <5>1. s.resrdx + s.powrdx \in Nat /\ s.resrdx + s.powrdx = s.c.scale + s.copy.scale BY <1>1, <1>2, <2>2
          <5>2. s.resrdx + s.powrdx = r + p BY <1>1
          <5> QED BY <1>2, <2>2, <5>1, <5>2, PowersTimes
        <4>3. i + m \in Nat /\ (i + m) + (m + m) * h = n
          <5>1. i + ((x + x) + m) = n BY <1>10, <2>2, <3>2
          <5> QED BY <1>10, <5>1
        <4>4. Number(times) BY <4>2 DEF IsPower
        <4> HIDE DEF times, resrdx
        <4>5. times \in Numerals BY <4>4, PowerThere
        <4> QED BY <4>1, <4>2, <4>3, <4>5
      <3>3. CASE ~used
        <4>1. c = s.c /\ resrdx = s.c.scale BY <1>1, <2>2, <3>3
        <4>2. i + (m + m) * h = n
          <5>1. i + (x + x) = n BY <1>10, <2>2, <3>3
          <5> QED BY <1>10, <5>1
        <4> HIDE DEF c
        <4> QED BY <1>8, <2>2, <4>1, <4>2
      <3> QED BY <3>2, <3>3
    <2> HIDE DEF c, resrdx
    <2> QED BY <1>2, <2>1, <2>2
  <1>12. resrdx \in Nat BY <1>4
  <1> HIDE DEF c, resrdx
  <1>13. t.copy = copy /\ t.powrdx = 2 * p /\ t.exp = h /\ t.c = c /\ t.resrdx = resrdx /\ t \in Rounds
    <2>1. [copy |-> copy, powrdx |-> 2 * p, exp |-> h, c |-> c, resrdx |-> resrdx] \in Rounds
      BY <1>4, <1>6, <1>11, <1>12 DEF Rounds
    <2> HIDE DEF t
    <2> QED BY <1>7, <2>1
  <1> HIDE DEF t
  <1>14. Shares(t, a, n)
    <2>1. /\ IsPower(t.copy, a, m + m) /\ t.powrdx = t.copy.scale
          /\ \/ t.c = NoPower /\ t.resrdx = 0 /\ (m + m) * t.exp = n
             \/ \E i \in Nat : IsPower(t.c, a, i) /\ t.resrdx = t.c.scale /\ i + (m + m) * t.exp = n
      BY <1>5, <1>11, <1>13
    <2> QED BY <1>4, <2>1 DEF Shares
  <1>15. t.exp < s.exp BY <1>1, <1>3, <1>13
  <1> QED BY <1>13, <1>14, <1>15 DEF t

\* bc_num_p(), the squarings: after as many rounds as the exponent says, and fewer do, what
\* has been multiplied is the power, exactly.
THEOREM Squaring ==
    ASSUME Digits, Exponents, Halving, NEW a, Number(a), ~IsZero(a), Tidy(a), NEW n \in Nat \ {0}
    PROVE  IsPower(Squares(a, n), a, n)
  <1> DEFINE S == {s \in Rounds : Shares(s, a, n)}
             start == [copy |-> a, powrdx |-> a.scale, exp |-> n, c |-> NoPower, resrdx |-> 0]
             Is(g) == g = [k \in 0..n |->
                             IF k = 0 THEN [copy |-> a, powrdx |-> a.scale, exp |-> n, c |-> NoPower, resrdx |-> 0]
                             ELSE Squared(g[k - 1])]
             p == CHOOSE g : Is(g)
             step == [x \in (1..n) \X S |-> Squared(x[2])]
  <1>1. a.scale \in Nat /\ a \in Numerals BY PowerThere DEF Number
  <1>2. start \in S /\ start.exp = n
    <2>1. /\ start.copy = a /\ start.powrdx = a.scale /\ start.exp = n /\ start.c = NoPower /\ start.resrdx = 0
          /\ start \in Rounds
      BY <1>1 DEF Rounds
    <2> HIDE DEF start
    <2>2. IsPower(a, a, 1) BY PowerOne
    <2>3. 1 \in Nat \ {0} /\ 1 * n = n OBVIOUS
    <2>4. Shares(start, a, n)
      <3>1. /\ IsPower(start.copy, a, 1) /\ start.powrdx = start.copy.scale
            /\ start.c = NoPower /\ start.resrdx = 0 /\ 1 * start.exp = n
        BY <2>1, <2>2, <2>3
      <3> QED BY <2>3, <3>1 DEF Shares
    <2> QED BY <2>1, <2>4
  <1>3. ASSUME NEW s \in S
        PROVE  /\ Squared(s) \in S /\ s.exp \in Nat
               /\ s.exp = 0 => Squared(s) = s
               /\ s.exp # 0 => Squared(s).exp < s.exp
    <2>1. s \in Rounds /\ Shares(s, a, n) OBVIOUS
    <2>2. s.exp \in Nat BY <2>1 DEF Rounds
    <2>3. CASE s.exp = 0
      <3>1. Squared(s) = s BY <2>3 DEF Squared
      <3> QED BY <2>2, <2>3, <3>1
    <2>4. CASE s.exp # 0
      <3>1. Squared(s) \in Rounds /\ Shares(Squared(s), a, n) /\ Squared(s).exp < s.exp
        BY <2>1, <2>4, SquaredIs
      <3> QED BY <2>2, <2>4, <3>1
    <2> QED BY <2>3, <2>4
  <1> HIDE DEF S, start
  <1>4. ASSUME NEW k \in 1..n, NEW s \in S PROVE step[<<k, s>>] = Squared(s) /\ step[<<k, s>>] \in S
    <2>1. <<k, s>> \in (1..n) \X S OBVIOUS
    <2>2. step[<<k, s>>] = Squared(s) BY <2>1
    <2> QED BY <1>3, <2>2
  <1> HIDE DEF step
  <1>5. PICK f : Chain(f, start, step, S, n)
    <2>1. Steps(step, S, n) BY <1>4, Zenon DEF Steps
    <2>2. n \in Nat OBVIOUS
    <2>3. \E f : Chain(f, start, step, S, n) BY <1>2, <2>1, <2>2, Recursion, Zenon
    <2> QED BY <2>3
  <1>6. /\ f \in [0..n -> S] /\ f[0] = start
        /\ \A k \in 1..n : f[k] = Squared(f[k - 1])
    <2>1. ASSUME NEW k \in 1..n PROVE f[k] = Squared(f[k - 1])
      <3>1. k - 1 \in 0..n OBVIOUS
      <3>2. f[k - 1] \in S BY <1>5, <3>1 DEF Chain
      <3>3. f[k] = step[<<k, f[k - 1]>>] BY <1>5 DEF Chain
      <3> QED BY <1>4, <3>2, <3>3
    <2> QED BY <1>5, <2>1 DEF Chain
  <1>7. Is(f)
    <2>1. \A k \in 0..n : k # 0 => k \in 1..n OBVIOUS
    <2>2. f = [k \in 0..n |-> f[k]] BY <1>6
    <2>3. \A k \in 0..n : f[k] = IF k = 0 THEN start ELSE Squared(f[k - 1]) BY <1>6, <2>1, Zenon
    <2> QED BY <2>2, <2>3, Zenon DEF start
  <1>8. Is(p) BY <1>7
  <1>9. Squares(a, n) = p[n].c BY DEF Squares
  <1> HIDE DEF p
  <1>10. /\ p[0] = start
         /\ \A k \in 1..n : p[k] = Squared(p[k - 1])
    <2>1. \A k \in 0..n : p[k] = IF k = 0 THEN start ELSE Squared(p[k - 1]) BY <1>8, Zenon DEF start
    <2>2. 0 \in 0..n /\ \A k \in 1..n : k \in 0..n /\ k # 0 OBVIOUS
    <2> HIDE DEF Is
    <2> QED BY <2>1, <2>2
  <1> HIDE DEF Is
  <1> DEFINE T == {k \in 0..n : p[k] \in S /\ p[k].exp <= n - k}
  <1>11. 0 \in T
    <2>1. n - 0 = n /\ n <= n OBVIOUS
    <2> QED BY <1>2, <1>10, <2>1
  <1>12. ASSUME NEW k \in 0..(n - 1), k \in T PROVE k + 1 \in T
    <2>1. k + 1 \in 1..n /\ (k + 1) - 1 = k /\ k + 1 \in 0..n OBVIOUS
    <2>2. p[k + 1] = Squared(p[k]) BY <1>10, <2>1
    <2>3. p[k] \in S /\ p[k].exp <= n - k BY <1>12
    <2> HIDE DEF T
    <2>4. /\ Squared(p[k]) \in S /\ p[k].exp \in Nat
          /\ p[k].exp = 0 => Squared(p[k]) = p[k]
          /\ p[k].exp # 0 => Squared(p[k]).exp < p[k].exp
      BY <1>3, <2>3
    <2>5. Squared(p[k]).exp \in Nat BY <1>3, <2>4
    <2>6. Squared(p[k]).exp <= n - (k + 1)
      <3>1. PICK e \in Nat, g \in Nat : e = p[k].exp /\ g = Squared(p[k]).exp BY <2>4, <2>5
      <3>2. CASE e = 0
        <4>1. g = 0 BY <2>4, <3>1, <3>2
        <4> QED BY <3>1, <4>1
      <3>3. CASE e # 0
        <4>1. g < e /\ e <= n - k BY <2>3, <2>4, <3>1, <3>3
        <4> QED BY <3>1, <4>1
      <3> QED BY <3>2, <3>3
    <2>7. p[k + 1] \in S /\ p[k + 1].exp <= n - (k + 1) BY <2>2, <2>4, <2>6
    <2> QED BY <2>1, <2>7 DEF T
  <1> HIDE DEF T
  <1>13. \A k \in 0..n : k \in T BY <1>11, <1>12, Induction
  <1>14. p[n] \in S /\ p[n].exp = 0
    <2>1. n \in 0..n /\ n - n = 0 OBVIOUS
    <2>2. p[n] \in S /\ p[n].exp <= 0 BY <1>13, <2>1 DEF T
    <2>3. p[n].exp \in Nat BY <1>3, <2>2
    <2> QED BY <2>2, <2>3
  <1>15. PICK s \in Rounds : s = p[n] /\ Shares(s, a, n) /\ s.exp = 0 BY <1>14 DEF S
  <1>16. PICK m \in Nat \ {0} :
            /\ IsPower(s.copy, a, m) /\ s.powrdx = s.copy.scale
            /\ \/ s.c = NoPower /\ s.resrdx = 0 /\ m * s.exp = n
               \/ \E i \in Nat : IsPower(s.c, a, i) /\ s.resrdx = s.c.scale /\ i + m * s.exp = n
    BY <1>15 DEF Shares
  <1>17. m * s.exp = 0
    <2>1. m * 0 = 0 OBVIOUS
    <2> QED BY <1>15, <2>1
  <1>18. PICK i \in Nat : IsPower(s.c, a, i) /\ i + m * s.exp = n
    <2>1. ~(m * s.exp = n) BY <1>17
    <2> QED BY <1>16, <2>1
  <1>19. i = n BY <1>17, <1>18
  <1> QED BY <1>9, <1>15, <1>18, <1>19


\* Limbs below k that are all zero, and what is above them.
LEMMA ZeroBelow ==
    ASSUME Based, NEW a \in Seq(Digit), NEW k \in Nat, k <= Len(a)
    PROVE  /\ (\A i \in 1..k : a[i] = 0) <=> \E e \in Nat : Worth(a) = Worth(Unit(k)) * e
           /\ \A e \in Nat : Worth(a) = Worth(Unit(k)) * e => Worth(Drop(a, k)) = e
  <1> DEFINE s == SubSeq(a, 1, k)
  <1>1. s \in Seq(Digit) /\ Len(s) = k /\ \A i \in 1..k : Limb(s, i) = a[i] BY LowLimbs
  <1>2. Len(a) \in Nat /\ Smaller(k, Len(a)) = k BY DomainIs DEF Smaller
  <1>3. /\ Proper(Low(a, k)) /\ Len(Low(a, k)) <= k /\ High(a, k) \in Seq(Digit)
        /\ Worth(a) = Worth(Low(a, k)) + Worth(Unit(k)) * Worth(High(a, k))
    BY SplitIs
  <1>4. High(a, k) = Drop(a, k) /\ Low(a, k) = Strip(s) BY <1>2 DEF High, Low
  <1> HIDE DEF s
  <1>5. Worth(Strip(s)) = Worth(s) BY <1>1, StripIs
  <1>6. PICK low \in Nat, h \in Nat, u \in Nat :
            low = Worth(s) /\ h = Worth(Drop(a, k)) /\ u = Worth(Unit(k)) /\ low < u
    <2>1. Worth(s) \in Nat BY <1>1, WorthIsNat
    <2>2. Worth(Drop(a, k)) \in Nat BY <1>3, <1>4, WorthIsNat
    <2>3. Worth(Unit(k)) \in Nat BY UnitIs
    <2>4. Worth(s) < Worth(Unit(k)) BY <1>1, BelowUnit
    <2> QED BY <2>1, <2>2, <2>3, <2>4
  <1>7. Worth(a) = u * h + low
    <2>1. PICK x \in Nat : x = u * h OBVIOUS
    <2>2. Worth(a) = low + x BY <1>3, <1>4, <1>5, <1>6, <2>1
    <2> QED BY <2>1, <2>2
  <1>8. (\A i \in 1..k : a[i] = 0) <=> low = 0
    <2>1. ASSUME \A i \in 1..k : a[i] = 0 PROVE low = 0
      <3>1. ASSUME NEW i \in Nat \ {0} PROVE Limb(s, i) = Limb(<<>>, i)
        <4>1. Limb(<<>>, i) = 0 BY DEF Limb
        <4>2. CASE i \in 1..k BY <1>1, <2>1, <4>1, <4>2
        <4>3. CASE i \notin 1..k
          <5>1. i > Len(s) BY <1>1, <4>3
          <5> QED BY <1>1, <4>1, <5>1, DigitIsInt
        <4> QED BY <4>2, <4>3
      <3>2. Worth(s) = Worth(<<>>) BY <1>1, <3>1, SameLimbs, EmptyWorth
      <3> QED BY <1>6, <3>2, EmptyWorth
    <2>2. ASSUME low = 0, NEW i \in 1..k PROVE a[i] = 0
      <3> SUFFICES ASSUME a[i] # 0 PROVE FALSE OBVIOUS
      <3>1. i \in 1..Len(s) /\ Limb(s, i) = a[i] BY <1>1
      <3>2. s[i] = Limb(s, i) BY <1>1, <3>1, DomainIs
      <3>3. Worth(s) >= 1 BY <1>1, <3>1, <3>2, WorthIsNat
      <3> QED BY <1>6, <2>2, <3>3
    <2> QED BY <2>1, <2>2
  <1>9. ASSUME NEW e \in Nat, Worth(a) = u * e PROVE low = 0 /\ h = e
    <2>1. u * e = u * h + low BY <1>7, <1>9
    <2>2. PICK x \in Nat, y \in Nat : x = u * e /\ y = u * h OBVIOUS
    <2>3. x = y + low /\ low < u BY <1>6, <2>1, <2>2
    <2>4. CASE e = h
      <3>1. x = y BY <2>2, <2>4
      <3> QED BY <2>3, <2>4, <3>1
    <2>5. CASE e < h
      <3>1. PICK d \in Nat : h = e + 1 + d
        <4>1. h - (e + 1) \in Nat /\ h = e + 1 + (h - (e + 1)) BY <2>5
        <4> QED BY <4>1
      <3>2. PICK z \in Nat : z = u * d OBVIOUS
      <3>3. y = x + u + z BY <2>2, <3>1, <3>2
      <3> QED BY <2>3, <3>3
    <2>6. CASE e > h
      <3>1. PICK d \in Nat : e = h + 1 + d
        <4>1. e - (h + 1) \in Nat /\ e = h + 1 + (e - (h + 1)) BY <2>6
        <4> QED BY <4>1
      <3>2. PICK z \in Nat : z = u * d OBVIOUS
      <3>3. x = y + u + z BY <2>2, <3>1, <3>2
      <3> QED BY <2>3, <3>3
    <2> QED BY <2>4, <2>5, <2>6
  <1>10. (\A i \in 1..k : a[i] = 0) <=> \E e \in Nat : Worth(a) = Worth(Unit(k)) * e
    <2>1. low = 0 => Worth(a) = u * h
      <3>1. u * h \in Nat OBVIOUS
      <3> QED BY <1>7, <3>1
    <2> QED BY <1>6, <1>8, <1>9, <2>1
  <1>11. \A e \in Nat : Worth(a) = Worth(Unit(k)) * e => Worth(Drop(a, k)) = e BY <1>6, <1>9
  <1> QED BY <1>10, <1>11

\* Limbs without a zero at the top are worth one only when they are the limb one.
LEMMA OneWorth ==
    ASSUME Based, NEW y \in Seq(Digit), Len(y) # 0 => y[Len(y)] # 0
    PROVE  y = <<1>> <=> Worth(y) = 1
  <1>1. Worth(<<1>>) = 1
    <2>1. <<1>> \in Seq(Digit) /\ Len(<<1>>) = 1 /\ <<1>>[1] = 1 BY DEF Digit, Based
    <2> QED BY <2>1, OneLimbWorth
  <1>2. ASSUME Worth(y) = 1 PROVE y = <<1>>
    <2>1. Len(y) # 0
      <3> SUFFICES ASSUME Len(y) = 0 PROVE FALSE OBVIOUS
      <3>1. y = <<>> OBVIOUS
      <3> QED BY <1>2, <3>1, EmptyWorth
    <2>2. Len(y) <= 1
      <3> SUFFICES ASSUME Len(y) > 1 PROVE FALSE OBVIOUS
      <3>1. PICK l \in Nat : l = Len(y) - 1 /\ l >= 1 /\ Len(y) = l + 1
        <4>1. Len(y) - 1 \in Nat /\ Len(y) - 1 >= 1 /\ Len(y) = (Len(y) - 1) + 1 OBVIOUS
        <4> QED BY <4>1, Zenon
      <3>2. <<1>> \in Seq(Digit) /\ Len(<<1>>) = 1 BY DEF Digit, Based
      <3>3. Len(y) \in 1..Len(y) BY <3>1
      <3>4. Limb(y, Len(y)) = y[Len(y)] /\ y[Len(y)] \in Nat BY <3>3, DomainIs
      <3>5. Limb(y, Len(y)) >= 1 BY <2>1, <3>4
      <3>6. Worth(<<1>>) < Worth(y) BY <3>1, <3>2, <3>5, Longer
      <3> QED BY <1>1, <1>2, <3>6
    <2>3. Len(y) = 1
      <3>1. PICK l \in Nat : l = Len(y) OBVIOUS
      <3>2. l = 1 BY <2>1, <2>2, <3>1
      <3> QED BY <3>1, <3>2
    <2>4. Worth(y) = y[1] BY <2>3, OneLimbWorth
    <2> QED BY <1>2, <2>3, <2>4
  <1> QED BY <1>1, <1>2

\* bc_num_nonInt(): a number that stands for e is seen to, and others are refused.
LEMMA ToIntIs ==
    ASSUME Based, Digits, NEW b, Number(b)
    PROVE  LET n == ToInt(b)
               u == Worth(Unit(Rdx(b)))
           IN  /\ IsInt(b) <=> \E e \in Nat : Worth(b.num) = u * e
               /\ \A e \in Nat : Worth(b.num) = u * e =>
                     /\ n.neg = b.neg /\ BigDig(n) = e
                     /\ IsZero(n) <=> e = 0
                     /\ n.num = <<1>> <=> e = 1
                     /\ Number(n) /\ Rdx(n) = 0 /\ Worth(n.num) = e
  <1> DEFINE n == ToInt(b)
  <1>1. b \in [neg : BOOLEAN, scale : Nat, num : Seq(Digit)] BY DEF Number
  <1>2. PICK x \in Seq(Digit) : x = b.num BY <1>1
  <1>3. PICK k \in Nat : k = Rdx(b) /\ k <= Len(x) /\ (Len(x) > k => x[Len(x)] # 0)
    <2>1. CASE IsZero(b)
      <3>1. Rdx(b) = 0 /\ x = <<>> BY <1>2, <2>1 DEF IsZero, Rdx
      <3>2. Len(x) = 0 BY <3>1
      <3> QED BY <3>1, <3>2
    <2>2. CASE ~IsZero(b)
      <3>1. Rdx(b) = RdxOf(b.scale) BY <2>2 DEF Rdx
      <3>2. RdxOf(b.scale) \in Nat BY <1>1, RdxGrows
      <3>3. Len(x) \in Nat BY <1>2
      <3> QED BY <1>2, <2>2, <3>1, <3>2, <3>3 DEF Number
    <2> QED BY <2>1, <2>2
  <1> DEFINE y == Drop(x, k)
  <1>4. y \in Seq(Digit) /\ Len(y) = Len(x) - k /\ Len(y) \in Nat
    <2>1. y \in Seq(Digit) /\ Len(y) = Len(x) - k BY <1>3, DropIs
    <2> HIDE DEF y
    <2>2. Len(y) \in Nat BY <2>1
    <2> QED BY <2>1, <2>2
  <1>5. Len(y) # 0 => y[Len(y)] # 0
    <2> SUFFICES ASSUME Len(y) # 0 PROVE y[Len(y)] # 0 OBVIOUS
    <2>1. PICK l \in Nat \ {0} : l = Len(y) /\ Len(x) = k + l
      <3>1. Len(x) \in Nat OBVIOUS
      <3> HIDE DEF y
      <3>2. Len(y) \in Nat \ {0} /\ Len(x) = k + Len(y) BY <1>4, <3>1
      <3> QED BY <3>2
    <2>2. Limb(y, l) = Limb(x, k + l) BY <1>3, DropIs
    <2>3. l \in 1..Len(y) /\ k + l \in 1..Len(x) BY <2>1
    <2> HIDE DEF y
    <2>4. y[l] = Limb(y, l) BY <1>4, <2>3, DomainIs
    <2>5. x[k + l] = Limb(x, k + l) BY <2>3, DomainIs
    <2>6. x[Len(x)] # 0 BY <1>3, <2>1
    <2> QED BY <2>1, <2>2, <2>4, <2>5, <2>6
  <1>6. /\ n.num = y /\ n.neg = b.neg /\ Rdx(n) = 0
        /\ n = b \/ (n.scale = 0 /\ n \in [neg : BOOLEAN, scale : Nat, num : Seq(Digit)])
    <2>1. CASE k = 0
      <3>1. n = b BY <1>3, <2>1 DEF ToInt
      <3>2. y = x
        <4>1. Drop(x, 0) = SubSeq(x, 1, Len(x)) BY DEF Drop
        <4>2. SubSeq(x, 1, Len(x)) = x OBVIOUS
        <4> QED BY <2>1, <4>1, <4>2
      <3> HIDE DEF n, y
      <3>3. n.num = y /\ n.neg = b.neg /\ Rdx(n) = 0 BY <1>2, <1>3, <2>1, <3>1, <3>2
      <3> QED BY <3>1, <3>3
    <2>2. CASE k # 0
      <3>1. n = [neg |-> b.neg, scale |-> 0, num |-> y] BY <1>2, <1>3, <2>2 DEF ToInt, Num
      <3> HIDE DEF n, y
      <3>2. n.num = y /\ n.neg = b.neg /\ n.scale = 0 BY <3>1
      <3>3. Rdx(n) = 0 BY <3>2, NoRdx DEF Rdx
      <3>4. n \in [neg : BOOLEAN, scale : Nat, num : Seq(Digit)] BY <1>1, <1>4, <3>1
      <3> QED BY <3>2, <3>3, <3>4
    <2> QED BY <2>1, <2>2
  <1>7. BigDig(n) = Worth(y)
    <2> HIDE DEF n, y
    <2>1. BigDig(n) = Worth(Drop(y, 0)) BY <1>6 DEF BigDig
    <2> QED BY <1>4, <2>1, DropNone
  <1>8. IsInt(b) <=> \A i \in 1..k : x[i] = 0 BY <1>2, <1>3 DEF IsInt
  <1>9. /\ (\A i \in 1..k : x[i] = 0) <=> \E e \in Nat : Worth(x) = Worth(Unit(k)) * e
        /\ \A e \in Nat : Worth(x) = Worth(Unit(k)) * e => Worth(y) = e
    BY <1>3, ZeroBelow
  <1> HIDE DEF y, n
  <1>10. IsZero(n) <=> Worth(y) = 0
    <2>1. CASE y = <<>> BY <1>6, <2>1, EmptyWorth DEF IsZero
    <2>2. CASE y # <<>>
      <3>1. Len(y) # 0 BY <1>4, <2>2
      <3>2. Len(y) \in 1..Len(y) BY <1>4, <3>1
      <3>3. Worth(y) >= 1 BY <1>4, <1>5, <3>1, <3>2, WorthIsNat
      <3> QED BY <1>6, <2>2, <3>3 DEF IsZero
    <2> QED BY <2>1, <2>2
  <1>11. n.num = <<1>> <=> Worth(y) = 1 BY <1>3, <1>4, <1>5, <1>6, OneWorth
  <1>12. IsInt(b) <=> \E e \in Nat : Worth(b.num) = Worth(Unit(Rdx(b))) * e BY <1>2, <1>3, <1>8, <1>9
  <1>13. ASSUME NEW e \in Nat, Worth(b.num) = Worth(Unit(Rdx(b))) * e
         PROVE  /\ n.neg = b.neg /\ BigDig(n) = e /\ (IsZero(n) <=> e = 0) /\ (n.num = <<1>> <=> e = 1)
                /\ Number(n) /\ Rdx(n) = 0 /\ Worth(n.num) = e
    <2>1. Worth(y) = e BY <1>2, <1>3, <1>9, <1>13
    <2>2. Number(n)
      <3>1. CASE n = b BY <3>1
      <3>2. CASE n.scale = 0 /\ n \in [neg : BOOLEAN, scale : Nat, num : Seq(Digit)]
        <4>1. IsZero(n) => ~n.neg
          <5> SUFFICES ASSUME e = 0 PROVE ~b.neg BY <1>6, <1>10, <2>1
          <5>1. PICK u \in Nat : u = Worth(Unit(Rdx(b))) BY <1>3, UnitIs
          <5>2. u * 0 = 0 BY <5>1
          <5>3. Worth(b.num) = 0 BY <1>13, <5>1, <5>2
          <5>4. IsZero(b) BY <5>3, NumberIs
          <5> QED BY <5>4 DEF Number
        <4>2. ~IsZero(n) => Len(y) # 0 /\ Len(y) \in DOMAIN y
          <5> SUFFICES ASSUME ~IsZero(n) PROVE Len(y) # 0 /\ Len(y) \in DOMAIN y OBVIOUS
          <5>1. Len(y) # 0 BY <1>4, <1>6 DEF IsZero
          <5>2. DOMAIN y = 1..Len(y) BY <1>4, DomainIs
          <5> QED BY <1>4, <5>1, <5>2
        <4>3. RdxOf(n.scale) = 0 BY <3>2, NoRdx
        <4>4. ~IsZero(n) => /\ Len(n.num) >= RdxOf(n.scale)
                            /\ Len(n.num) > RdxOf(n.scale) => n.num[Len(n.num)] # 0
                            /\ \E i \in DOMAIN n.num : n.num[i] # 0
          BY <1>4, <1>5, <1>6, <4>2, <4>3
        <4> QED BY <3>2, <4>1, <4>4 DEF Number
      <3> QED BY <1>6, <3>1, <3>2
    <2> QED BY <1>6, <1>7, <1>10, <1>11, <2>1, <2>2
  <1> QED BY <1>12, <1>13 DEF n


\* r is c with the digits down to the scale and no other.
IsCut(r, c, scale) ==
    /\ Number(r) /\ Tidy(r) /\ r.scale = scale
    /\ ~IsZero(r) => r.neg = c.neg
    /\ \E k \in Nat : /\ RdxOf(c.scale) = RdxOf(scale) + k
                      /\ Worth(Unit(k)) * Worth(r.num) = Cut(Worth(c.num), Worth(Unit(k)) * LeastSigPow(scale))

\* r is one divided by c, to the scale.
IsInverse(r, c, scale) ==
    Tidy(r) /\ Holds(r, scale, c.neg, Worth(Unit(Rdx(c) + RdxOf(scale))) \div Worth(c.num))

\* What an operation gives that has no result fails, and a number does not.
LEMMA Fails ==
    /\ \A what : Failed(Error(what))
    /\ \A n : Number(n) => ~Failed(n)
  <1>1. \A what : Failed(Error(what))
    <2> TAKE what
    <2>1. DOMAIN [error |-> what] = {"error"} OBVIOUS
    <2> QED BY <2>1 DEF Failed, Error
  <1>2. ASSUME NEW n, Number(n) PROVE ~Failed(n)
    <2>1. DOMAIN n = {"neg", "scale", "num"} BY <1>2 DEF Number
    <2>2. "error" \notin DOMAIN n BY <2>1
    <2> QED BY <2>2 DEF Failed
  <1> QED BY <1>1, <1>2

\* bc_num_clean() of a number.
LEMMA CleanNumber ==
    ASSUME Based, Digits, NEW n, Number(n)
    PROVE  LET r == Clean(n)
           IN  /\ Number(r) /\ r.scale = n.scale /\ Worth(r.num) = Worth(n.num)
               /\ (~IsZero(r) => r.neg = n.neg) /\ (IsZero(r) <=> IsZero(n))
  <1> DEFINE r == Clean(n)
             d == Clean(Num(n.neg, n.scale, n.num))
  <1>1. n = Num(n.neg, n.scale, n.num) /\ n.neg \in BOOLEAN /\ n.scale \in Nat /\ n.num \in Seq(Digit) BY NumberIs
  <1>2. Number(d) /\ d.scale = n.scale /\ Worth(d.num) = Worth(n.num) /\ (~IsZero(d) => d.neg = n.neg)
    BY <1>1, CleanWorth
  <1>3. r = d BY <1>1
  <1> HIDE DEF r, d
  <1>4. Number(r) /\ r.scale = n.scale /\ Worth(r.num) = Worth(n.num) /\ (~IsZero(r) => r.neg = n.neg)
    BY <1>2, <1>3
  <1>5. IsZero(r) <=> Worth(r.num) = 0 BY <1>4, NumberIs
  <1>6. IsZero(n) <=> Worth(n.num) = 0 BY NumberIs
  <1> QED BY <1>4, <1>5, <1>6 DEF r

\* What is left when it is cut at a multiple of p has no digits below p.
LEMMA ShornTidy ==
    ASSUME NEW u \in Nat \ {0}, NEW p \in Nat \ {0}, NEW w \in Nat, NEW v \in Nat, u * v = Cut(w, u * p)
    PROVE  v % p = 0
  <1>1. Shorn(w, u, p, v) BY DEF Shorn
  <1>2. \E c \in Nat : Goes(w, u, c) /\ v = Cut(c, p) BY <1>1, FlooredLimbs
  <1>3. PICK c \in Nat : v = Cut(c, p) BY <1>2
  <1> QED BY <1>3, Floored DEF Cut

\* A number that has the scale is cut to itself.
LEMMA CutSame ==
    ASSUME Digits, Exponents, NEW c, Number(c), Tidy(c)
    PROVE  IsCut(c, c, c.scale)
  <1>1. Based /\ Places BY BaseIs
  <1>2. PICK s \in Nat, w \in Nat : s = c.scale /\ w = Worth(c.num) BY <1>1, NumberIs
  <1>3. PICK p \in Nat \ {0} : p = LeastSigPow(s) BY <1>1 DEF Places
  <1>4. w % p = 0 BY <1>2, <1>3 DEF Tidy
  <1>5. RdxOf(s) = RdxOf(s) + 0
    <2>1. RdxOf(s) \in Nat BY RdxGrows
    <2> QED BY <2>1
  <1>6. Worth(Unit(0)) * w = Cut(w, Worth(Unit(0)) * p)
    <2>1. Worth(Unit(0)) = 1 /\ 1 * w = w /\ 1 * p = p BY <1>1, UnitZero
    <2>2. Cut(w, p) = w BY <1>4 DEF Cut
    <2> QED BY <2>1, <2>2
  <1>7. \E k \in Nat : /\ RdxOf(c.scale) = RdxOf(c.scale) + k
                       /\ Worth(Unit(k)) * Worth(c.num) = Cut(Worth(c.num), Worth(Unit(k)) * LeastSigPow(c.scale))
    <2>1. 0 \in Nat OBVIOUS
    <2> QED BY <1>2, <1>3, <1>5, <1>6, <2>1
  <1> QED BY <1>7 DEF IsCut

\* The end of bc_num_p(): what has more digits than the scale is cut to it.
LEMMA AtMostIs ==
    ASSUME Digits, Exponents, NEW c, Number(c), ~IsZero(c), Tidy(c), NEW scale \in Nat, scale <= c.scale
    PROVE  IsCut(AtMost(c, scale), c, scale)
  <1> DEFINE t == IF c.scale > scale THEN Truncate(c, c.scale - scale) ELSE c
             r == Clean(t)
  <1>1. Based /\ Places BY BaseIs
  <1>2. AtMost(c, scale) = r BY Fails DEF AtMost
  <1>3. PICK s \in Nat, w \in Nat : s = c.scale /\ w = Worth(c.num) BY <1>1, NumberIs
  <1>4. PICK p \in Nat \ {0} : p = LeastSigPow(scale) BY <1>1 DEF Places
  <1>5. IsCut(t, c, scale)
    <2>1. CASE s = scale
      <3>1. t = c BY <1>3, <2>1
      <3> HIDE DEF t
      <3>2. IsCut(c, c, c.scale) BY CutSame
      <3> QED BY <1>3, <2>1, <3>1, <3>2
    <2>2. CASE s # scale
      <3>1. PICK places \in Nat \ {0} : places = s - scale /\ places <= s /\ s - places = scale
        <4>1. s - scale \in Nat \ {0} /\ s - scale <= s /\ s - (s - scale) = scale BY <1>3, <2>2
        <4> QED BY <4>1
      <3>2. s > scale BY <1>3, <2>2
      <3>3. t = Truncate(c, places) BY <1>3, <3>1, <3>2
      <3> DEFINE k == RdxOf(s) - RdxOf(scale)
      <3>4. /\ Number(t) /\ t.scale = scale /\ k \in Nat
            /\ ~IsZero(t) => t.neg = c.neg
            /\ Worth(Unit(k)) * Worth(t.num) = w - (w % (Worth(Unit(k)) * LeastSigPow(scale)))
        <4> HIDE DEF t
        <4>1. places <= c.scale BY <1>3, <3>1
        <4>2. LET z == c.scale - places
                  j == RdxOf(c.scale) - RdxOf(z)
                  q == Truncate(c, places)
              IN  /\ Number(q) /\ q.scale = z /\ j \in Nat
                  /\ ~IsZero(q) => q.neg = c.neg
                  /\ Worth(Unit(j)) * Worth(q.num)
                       = Worth(c.num) - (Worth(c.num) % (Worth(Unit(j)) * LeastSigPow(z)))
          BY <1>1, <4>1, TruncateIs
        <4> QED BY <1>3, <3>1, <3>3, <4>2
      <3> HIDE DEF t
      <3>5. PICK j \in Nat : j = k /\ RdxOf(s) = RdxOf(scale) + j
        <4>1. RdxOf(s) \in Nat /\ RdxOf(scale) \in Nat BY RdxGrows
        <4>2. RdxOf(s) = RdxOf(scale) + k BY <4>1
        <4> HIDE DEF k
        <4> QED BY <3>4, <4>2
      <3> HIDE DEF k
      <3>6. Worth(Unit(j)) * Worth(t.num) = Cut(w, Worth(Unit(j)) * p) BY <1>4, <3>4, <3>5 DEF Cut
      <3>7. Tidy(t)
        <4>1. PICK u \in Nat \ {0} : u = Worth(Unit(j))
          <5>1. Worth(Unit(j)) \in Nat /\ Worth(Unit(j)) >= 1 BY <1>1, UnitIs
          <5> QED BY <5>1
        <4>2. PICK v \in Nat : v = Worth(t.num) BY <1>1, <3>4, NumberIs
        <4>3. u * v = Cut(w, u * p) BY <3>6, <4>1, <4>2
        <4>4. v % p = 0 BY <4>3, ShornTidy
        <4> QED BY <1>4, <3>4, <4>2, <4>4 DEF Tidy
      <3>8. \E i \in Nat : /\ RdxOf(c.scale) = RdxOf(scale) + i
                           /\ Worth(Unit(i)) * Worth(t.num) = Cut(Worth(c.num), Worth(Unit(i)) * LeastSigPow(scale))
        BY <1>3, <1>4, <3>5, <3>6
      <3> QED BY <3>4, <3>7, <3>8 DEF IsCut
    <2> QED BY <2>1, <2>2
  <1> HIDE DEF t
  <1>6. Number(t) BY <1>5 DEF IsCut
  <1>7. /\ Number(r) /\ r.scale = t.scale /\ Worth(r.num) = Worth(t.num)
        /\ ~IsZero(r) => r.neg = t.neg
        /\ IsZero(r) <=> IsZero(t)
    BY <1>1, <1>6, CleanNumber
  <1> HIDE DEF r
  <1>8. IsCut(r, c, scale) BY <1>5, <1>7 DEF IsCut, Tidy
  <1> QED BY <1>2, <1>8

\* One divided by a number, with the digits down to the scale.
LEMMA InverseIs ==
    ASSUME Digits, Exponents, NEW c, Number(c), ~IsZero(c), NEW scale \in Nat
    PROVE  IsInverse(Div(One, c, scale), c, scale)
  <1> DEFINE d == Div(One, c, scale)
  <1>1. Based /\ Places BY BaseIs
  <1>2. <<1>> \in Seq(Digit) /\ Len(<<1>>) = 1 /\ <<1>>[1] = 1 BY <1>1 DEF Digit, Based
  <1>3. One = [neg |-> FALSE, scale |-> 0, num |-> <<1>>] BY DEF One, Num
  <1>4. One.neg = FALSE /\ One.scale = 0 /\ One.num = <<1>> /\ One \in [neg : BOOLEAN, scale : Nat, num : Seq(Digit)]
    BY <1>2, <1>3
  <1>5. ~IsZero(One)
    <2>1. <<1>> # <<>> BY <1>2
    <2> QED BY <1>4, <2>1 DEF IsZero
  <1>6. Rdx(One) = 0 BY <1>4, <1>5, NoRdx DEF Rdx
  <1>7. Number(One)
    <2>1. RdxOf(One.scale) = 0 BY <1>4, NoRdx
    <2>2. 1 \in DOMAIN One.num /\ One.num[1] # 0 /\ Len(One.num) = 1 BY <1>2, <1>4
    <2>3. Len(One.num) >= RdxOf(One.scale) /\ One.num[Len(One.num)] # 0 /\ \E i \in DOMAIN One.num : One.num[i] # 0
      BY <2>1, <2>2
    <2> QED BY <1>4, <1>5, <2>3 DEF Number
  <1>8. Worth(One.num) = 1 BY <1>1, <1>2, <1>4, OneLimbWorth
  <1>9. Tidy(One)
    <2>1. LeastSigPow(0) = 1
      <3>1. PICK e \in Nat \ {0} : e = BaseDigs BY DEF Digits
      <3>2. 0 % e = 0 OBVIOUS
      <3> QED BY <3>1, <3>2 DEF LeastSigPow
    <2>2. 1 % 1 = 0 OBVIOUS
    <2> QED BY <1>4, <1>8, <2>1, <2>2 DEF Tidy
  <1>10. LET n == Worth(Unit(Rdx(c) + RdxOf(scale))) * Worth(One.num)
             e == Worth(Unit(Rdx(One))) * Worth(c.num)
         IN  Holds(d, scale, One.neg # c.neg, n \div e) /\ Tidy(d)
    BY <1>7, <1>9, Division
  <1> HIDE DEF d
  <1>11. PICK x \in Nat, w \in Nat : x = Worth(Unit(Rdx(c) + RdxOf(scale))) /\ w = Worth(c.num)
    <2>1. PICK rc \in Nat, rs \in Nat : rc = Rdx(c) /\ rs = RdxOf(scale)
      <3>1. Rdx(c) \in Nat BY <1>1, NonZero
      <3> QED BY <3>1, RdxGrows
    <2>2. rc + rs \in Nat OBVIOUS
    <2>3. Worth(Unit(rc + rs)) \in Nat BY <1>1, <2>2, UnitIs
    <2>4. Worth(c.num) \in Nat BY <1>1, NumberIs
    <2> QED BY <2>1, <2>3, <2>4
  <1>12. x * 1 = x /\ 1 * w = w OBVIOUS
  <1>13. (One.neg # c.neg) = c.neg
    <2>1. c.neg \in BOOLEAN BY <1>1, NumberIs
    <2> QED BY <1>4, <2>1
  <1>14. Worth(Unit(Rdx(One))) = 1 BY <1>1, <1>6, UnitZero
  <1>15. Holds(d, scale, c.neg, x \div w) /\ Tidy(d) BY <1>8, <1>10, <1>11, <1>12, <1>13, <1>14
  <1> QED BY <1>11, <1>15 DEF d, IsInverse

\* The end of bc_num_p() leaves a quotient as it is.
LEMMA InverseStays ==
    ASSUME Digits, Exponents, NEW c, NEW d, NEW scale \in Nat, IsInverse(d, c, scale)
    PROVE  IsInverse(AtMost(d, scale), c, scale)
  <1> DEFINE r == Clean(d)
  <1>1. Based /\ Places BY BaseIs
  <1>2. Number(d) /\ d.scale = scale BY DEF IsInverse, Holds
  <1>3. ~(d.scale > scale) BY <1>2
  <1>4. AtMost(d, scale) = r BY <1>2, <1>3, Fails DEF AtMost
  <1>5. /\ Number(r) /\ r.scale = d.scale /\ Worth(r.num) = Worth(d.num)
        /\ ~IsZero(r) => r.neg = d.neg
        /\ IsZero(r) <=> IsZero(d)
    BY <1>1, <1>2, CleanNumber
  <1> HIDE DEF r
  <1>6. IsInverse(r, c, scale) BY <1>5 DEF IsInverse, Holds, Tidy
  <1> QED BY <1>4, <1>6

\* bc_num_p(): a to the power b. What is no integer, or too large, is refused. Otherwise
\* the exact power with all its digits, cut and not rounded to the scale that the language
\* gives it, and for a negative exponent one divided by the exact power.
THEOREM Powers ==
    ASSUME Digits, Exponents, Halving, NEW a, Number(a), Tidy(a), NEW b, Number(b), NEW scale \in Nat
    PROVE  LET r == Pow(a, b, scale)
               Is(e) == Worth(b.num) = Worth(Unit(Rdx(b))) * e
           IN  /\ (~\E e \in Nat : Is(e)) => Failed(r)
               /\ \A e \in Nat : Is(e) =>
                    /\ e = 0 => r = One
                    /\ e # 0 /\ IsZero(a) => IF b.neg THEN Failed(r) ELSE r = Zero(scale)
                    /\ e # 0 /\ ~IsZero(a) =>
                         \/ e # 1 /\ e >= BigDigMax /\ Failed(r)
                         \/ /\ e = 1 \/ ~(e >= BigDigMax)
                            /\ \E c : /\ IsPower(c, a, e)
                                      /\ IF b.neg THEN IsInverse(r, c, scale)
                                         ELSE IsCut(r, c, Smaller(e * a.scale, Bigger(scale, a.scale)))
  <1> DEFINE r == Pow(a, b, scale)
             Is(e) == Worth(b.num) = Worth(Unit(Rdx(b))) * e
             n == ToInt(b)
  <1>1. Based /\ Places BY BaseIs
  <1>2. /\ IsInt(b) <=> \E e \in Nat : Is(e)
        /\ \A e \in Nat : Is(e) =>
              /\ n.neg = b.neg /\ BigDig(n) = e
              /\ IsZero(n) <=> e = 0
              /\ n.num = <<1>> <=> e = 1
    BY <1>1, ToIntIs
  <1> HIDE DEF Is, n
  <1>3. ASSUME ~\E e \in Nat : Is(e) PROVE Failed(r)
    <2>1. ~IsInt(b) BY <1>2, <1>3
    <2>2. r = Error("non integer") BY <2>1 DEF Pow
    <2> HIDE DEF r
    <2> QED BY <2>2, Fails
  <1>4. ASSUME NEW e \in Nat, Is(e)
        PROVE  /\ e = 0 => r = One
               /\ e # 0 /\ IsZero(a) => IF b.neg THEN Failed(r) ELSE r = Zero(scale)
               /\ e # 0 /\ ~IsZero(a) =>
                    \/ e # 1 /\ e >= BigDigMax /\ Failed(r)
                    \/ /\ e = 1 \/ ~(e >= BigDigMax)
                       /\ \E c : /\ IsPower(c, a, e)
                                 /\ IF b.neg THEN IsInverse(r, c, scale)
                                    ELSE IsCut(r, c, Smaller(e * a.scale, Bigger(scale, a.scale)))
    <2>1. IsInt(b) /\ n.neg = b.neg /\ BigDig(n) = e /\ (IsZero(n) <=> e = 0) /\ (n.num = <<1>> <=> e = 1)
      BY <1>2, <1>4
    <2> DEFINE real == PowScale(a, n, scale)
               c == Squares(a, e)
    <2>2. r = IF e = 0 THEN One
              ELSE IF IsZero(a) THEN (IF b.neg THEN Error("divide by zero") ELSE Zero(scale))
              ELSE IF e = 1 THEN (IF b.neg THEN Div(One, a, scale) ELSE a)
              ELSE IF e >= BigDigMax THEN Error("overflow")
              ELSE AtMost(Inverted(c, n, real), real)
      BY <2>1 DEF Pow, n
    <2> HIDE DEF r, c, real
    <2>3. e = 0 => r = One BY <2>2
    <2>4. e # 0 /\ IsZero(a) => IF b.neg THEN Failed(r) ELSE r = Zero(scale) BY <2>2, Fails
    <2>5. ASSUME e # 0, ~IsZero(a)
          PROVE  \/ e # 1 /\ e >= BigDigMax /\ Failed(r)
                 \/ /\ e = 1 \/ ~(e >= BigDigMax)
                    /\ \E x : /\ IsPower(x, a, e)
                              /\ IF b.neg THEN IsInverse(r, x, scale)
                                 ELSE IsCut(r, x, Smaller(e * a.scale, Bigger(scale, a.scale)))
      <3>1. PICK s \in Nat : s = a.scale BY <1>1, NonZero, <2>5
      <3>2. PICK y \in Nat : y = e * s /\ y >= s
        <4>1. PICK i \in Nat : e = i + 1
          <5>1. e - 1 \in Nat /\ e = (e - 1) + 1 BY <2>5
          <5> QED BY <5>1
        <4>2. e * s = i * s + s /\ i * s \in Nat BY <4>1
        <4> QED BY <4>2
      <3>3. PICK z \in Nat : z = Bigger(scale, s) /\ z >= s BY BiggerIs
      <3>4. CASE e = 1
        <4>1. IsPower(a, a, e) BY <2>5, <3>4, PowerOne
        <4>2. CASE b.neg
          <5>1. r = Div(One, a, scale) BY <2>2, <2>5, <3>4, <4>2
          <5>2. IsInverse(r, a, scale) BY <2>5, <5>1, InverseIs
          <5> QED BY <3>4, <4>1, <4>2, <5>2
        <4>3. CASE ~b.neg
          <5>1. r = a BY <2>2, <2>5, <3>4, <4>3
          <5>2. Smaller(e * a.scale, Bigger(scale, a.scale)) = a.scale
            <6>1. y = s BY <3>2, <3>4
            <6>2. Smaller(y, z) = s BY <3>3, <6>1 DEF Smaller
            <6> QED BY <3>1, <3>2, <3>3, <6>2
          <5>3. IsCut(a, a, a.scale) BY CutSame
          <5>4. IsCut(r, a, Smaller(e * a.scale, Bigger(scale, a.scale))) BY <5>1, <5>2, <5>3
          <5> QED BY <3>4, <4>1, <4>3, <5>4
        <4> QED BY <4>2, <4>3
      <3>5. CASE e # 1 /\ e >= BigDigMax
        <4>1. r = Error("overflow") BY <2>2, <2>5, <3>5
        <4> QED BY <3>5, <4>1, Fails
      <3>6. CASE e # 1 /\ ~(e >= BigDigMax)
        <4>1. e \in Nat \ {0} BY <2>5
        <4>2. IsPower(c, a, e) BY <2>5, <4>1, Squaring DEF c
        <4>3. Number(c) /\ ~IsZero(c) /\ Tidy(c) /\ c.scale = e * a.scale BY <4>2 DEF IsPower
        <4>4. r = AtMost(Inverted(c, n, real), real) BY <2>2, <2>5, <3>6
        <4>5. CASE b.neg
          <5>1. real = scale BY <2>1, <4>5 DEF real, PowScale
          <5>2. Inverted(c, n, real) = Div(One, c, scale) BY <2>1, <4>5, <5>1 DEF Inverted
          <5>3. IsInverse(Div(One, c, scale), c, scale) BY <4>3, InverseIs
          <5>4. IsInverse(AtMost(Div(One, c, scale), scale), c, scale) BY <5>3, InverseStays
          <5>5. IsInverse(r, c, scale) BY <4>4, <5>1, <5>2, <5>4
          <5> QED BY <3>6, <4>2, <4>5, <5>5
        <4>6. CASE ~b.neg
          <5>1. a.scale * e = y /\ e * a.scale = y BY <3>1, <3>2
          <5>2. real = Smaller(y, z) BY <2>1, <3>1, <3>3, <4>6, <5>1 DEF real, PowScale
          <5>3. Inverted(c, n, real) = c BY <2>1, <4>6 DEF Inverted
          <5>4. real \in Nat /\ real <= c.scale
            <6>1. c.scale = y BY <4>3, <5>1
            <6>2. Smaller(y, z) \in Nat /\ Smaller(y, z) <= y BY SmallerIs
            <6> QED BY <5>2, <6>1, <6>2
          <5>5. IsCut(AtMost(c, real), c, real) BY <4>3, <5>4, AtMostIs
          <5>6. real = Smaller(e * a.scale, Bigger(scale, a.scale)) BY <3>1, <3>3, <5>1, <5>2
          <5>7. IsCut(r, c, Smaller(e * a.scale, Bigger(scale, a.scale))) BY <4>4, <5>3, <5>5, <5>6
          <5> QED BY <3>6, <4>2, <4>6, <5>7
        <4> QED BY <4>5, <4>6
      <3> QED BY <3>4, <3>5, <3>6
    <2> QED BY <2>3, <2>4, <2>5
  <1> QED BY <1>3, <1>4 DEF Is, r


-----------------------------------------------------------------------------
(* Modular powers                                                          *)

\* n is an integer, which has no limbs behind the point.
IsWhole(n) == Number(n) /\ Rdx(n) = 0

\* What is known of an integer.
LEMMA WholeNumber ==
    ASSUME Digits, Exponents, NEW n, IsWhole(n)
    PROVE  /\ Number(n) /\ Rdx(n) = 0 /\ Tidy(n) /\ Worth(n.num) \in Nat /\ (IsZero(n) <=> Worth(n.num) = 0)
           /\ n.neg \in BOOLEAN /\ n.scale \in Nat /\ Worth(Aligned(n, 0)) = Worth(n.num)
           /\ IsZero(n) \/ (n.scale = 0 /\ LeastSigPow(0) = 1)
  <1>1. Based /\ Places BY BaseIs
  <1>2. Number(n) /\ Rdx(n) = 0 BY DEF IsWhole
  <1>3. /\ n.neg \in BOOLEAN /\ n.scale \in Nat /\ Worth(n.num) \in Nat /\ (IsZero(n) <=> Worth(n.num) = 0)
    BY <1>1, <1>2, NumberIs
  <1>4. Worth(Aligned(n, 0)) = Worth(n.num)
    <2>1. Worth(Aligned(n, 0 + 0)) = Worth(Unit(0)) * Worth(n.num) BY <1>1, <1>2, AlignedWorth
    <2>2. 0 + 0 = 0 /\ 1 * Worth(n.num) = Worth(n.num) BY <1>3
    <2> QED BY <1>1, <2>1, <2>2, UnitZero
  <1>5. LeastSigPow(0) = 1
    <2>1. 0 % BaseDigs = 0 BY DEF Digits
    <2> QED BY <2>1 DEF LeastSigPow
  <1>6. ~IsZero(n) => n.scale = 0
    <2> SUFFICES ASSUME ~IsZero(n) PROVE n.scale = 0 OBVIOUS
    <2>1. RdxOf(n.scale) = 0 BY <1>2 DEF Rdx
    <2>2. PICK e \in Nat : LeastSigPow(n.scale) = RadixTo(e) /\ BaseDigs * RdxOf(n.scale) = n.scale + e
      BY <1>3, LeastIs
    <2>3. BaseDigs * 0 = 0 BY DEF Digits
    <2> QED BY <1>3, <2>1, <2>2, <2>3
  <1>7. Tidy(n)
    <2>1. CASE IsZero(n)
      <3>1. Worth(n.num) = 0 BY <1>3, <2>1
      <3>2. LeastSigPow(n.scale) \in Nat \ {0} BY <1>1, <1>3 DEF Places
      <3>3. \A d \in Nat \ {0} : 0 % d = 0 OBVIOUS
      <3> QED BY <3>1, <3>2, <3>3 DEF Tidy
    <2>2. CASE ~IsZero(n)
      <3>1. \A w \in Nat : w % 1 = 0 OBVIOUS
      <3> QED BY <1>3, <1>5, <1>6, <2>2, <3>1 DEF Tidy
    <2> QED BY <2>1, <2>2
  <1> QED BY <1>2, <1>3, <1>4, <1>5, <1>6, <1>7

\* bc_num_rem() of integers, and the quotient that it is the rest of.
LEMMA ModIs ==
    ASSUME Digits, Exponents, Halving, NEW a, IsWhole(a), NEW b, IsWhole(b), ~IsZero(b)
    PROVE  LET r == Mod(a, b, 0)
               c == Div(a, b, 0)
           IN  /\ IsWhole(r) /\ Worth(r.num) = Worth(a.num) % Worth(b.num) /\ (~IsZero(r) => r.neg = a.neg)
               /\ ~IsZero(a) => /\ IsWhole(c) /\ (~IsZero(c) => c.neg = (a.neg # b.neg))
                                /\ Worth(a.num) = Worth(b.num) * Worth(c.num) + Worth(r.num)
  <1> DEFINE r == Mod(a, b, 0)
             c == Div(a, b, 0)
  <1>1. Based /\ Places BY BaseIs
  <1>2. /\ Number(a) /\ Rdx(a) = 0 /\ Tidy(a) /\ Worth(a.num) \in Nat /\ (IsZero(a) <=> Worth(a.num) = 0)
        /\ Worth(Aligned(a, 0)) = Worth(a.num) /\ a.scale \in Nat /\ (IsZero(a) \/ a.scale = 0)
    BY WholeNumber
  <1>3. /\ Number(b) /\ Rdx(b) = 0 /\ Tidy(b) /\ Worth(b.num) \in Nat \ {0}
        /\ b.scale = 0 /\ LeastSigPow(0) = 1
    BY WholeNumber
  <1>4. RdxOf(0) = 0 BY NoRdx
  <1>5. CASE IsZero(a)
    <2>1. r = Zero(Bigger(0 + b.scale, a.scale)) BY <1>3, <1>5 DEF Mod, Both, IsZero
    <2>2. Bigger(0 + b.scale, a.scale) \in Nat BY <1>2, <1>3 DEF Bigger
    <2> HIDE DEF r
    <2>3. Number(r) /\ IsZero(r) /\ Worth(r.num) = 0 BY <1>1, <2>1, <2>2, ZeroIs, NumberIs
    <2>4. Rdx(r) = 0 BY <2>3 DEF Rdx
    <2>5. \A d \in Nat \ {0} : 0 % d = 0 OBVIOUS
    <2>6. Worth(a.num) % Worth(b.num) = 0 BY <1>2, <1>3, <1>5, <2>5
    <2> QED BY <1>5, <2>3, <2>4, <2>6 DEF IsWhole, r
  <1>6. CASE ~IsZero(a)
    <2>1. Number(r) /\ r.scale = Bigger(0 + b.scale, a.scale) /\ IsRest(r, c, a, b, 0, 0)
      <3>1. 0 \in Nat /\ Rdx(a) <= 0 /\ Rdx(b) + RdxOf(0) <= 0 BY <1>2, <1>3, <1>4
      <3> HIDE DEF r, c
      <3> QED BY <1>2, <1>3, <3>1, Remainders DEF r, c
    <2>2. Number(c) /\ c.scale = 0 /\ (~IsZero(c) => c.neg = (a.neg # b.neg))
      <3>1. 0 \in Nat OBVIOUS
      <3> HIDE DEF c
      <3>2. Holds(c, 0, a.neg # b.neg, (Worth(Unit(Rdx(b) + RdxOf(0))) * Worth(a.num))
                                           \div (Worth(Unit(Rdx(a))) * Worth(b.num)))
        BY <1>2, <1>3, <3>1, Division DEF c
      <3> QED BY <3>2 DEF Holds
    <2> HIDE DEF r, c
    <2>3. r.scale = 0
      <3>1. Bigger(0 + 0, 0) = 0 BY DEF Bigger
      <3> QED BY <1>2, <1>3, <1>6, <2>1, <3>1
    <2>4. IsWhole(r) BY <1>4, <2>1, <2>3 DEF IsWhole, Rdx
    <2>5. Worth(Aligned(r, 0)) = Worth(r.num) /\ Worth(r.num) \in Nat BY <2>4, WholeNumber
    <2>6. PICK x \in Nat, y \in Nat \ {0}, q \in Nat, z \in Nat :
              x = Worth(a.num) /\ y = Worth(b.num) /\ q = Worth(c.num) /\ z = Worth(r.num)
      BY <1>1, <1>2, <1>3, <2>2, <2>5, NumberIs
    <2>7. z + 1 * (q * y) = x /\ z < 1 * (1 * y) /\ (~IsZero(r) => r.neg = a.neg)
      <3>1. 0 - (0 + 0) = 0 OBVIOUS
      <3>2. Worth(Unit(0)) = 1 BY <1>1, UnitZero
      <3> QED BY <1>2, <1>3, <1>4, <2>1, <2>5, <2>6, <3>1, <3>2 DEF IsRest
    <2>8. x = y * q + z /\ z \in 0..(y - 1) /\ q \in Int BY <2>7
    <2>9. x % y = z BY <2>8, RemainderIs
    <2>10. IsWhole(c) BY <1>4, <2>2 DEF IsWhole, Rdx
    <2> QED BY <1>6, <2>2, <2>4, <2>6, <2>7, <2>8, <2>9, <2>10 DEF r, c
  <1> QED BY <1>5, <1>6

\* bc_num_mul() of integers.
LEMMA MulIs ==
    ASSUME Digits, Exponents, Halving, NEW a, IsWhole(a), NEW b, IsWhole(b)
    PROVE  LET r == Mul(a, b, 0)
           IN  IsWhole(r) /\ Worth(r.num) = Worth(a.num) * Worth(b.num) /\ (~IsZero(r) => r.neg = (a.neg # b.neg))
  <1> DEFINE r == Mul(a, b, 0)
  <1>1. Based /\ Places BY BaseIs
  <1>2. /\ Number(a) /\ Rdx(a) = 0 /\ Tidy(a) /\ Worth(a.num) \in Nat /\ (IsZero(a) <=> Worth(a.num) = 0)
        /\ IsZero(a) \/ a.scale = 0
    BY WholeNumber
  <1>3. /\ Number(b) /\ Rdx(b) = 0 /\ Tidy(b) /\ Worth(b.num) \in Nat /\ (IsZero(b) <=> Worth(b.num) = 0)
        /\ IsZero(b) \/ b.scale = 0
    BY WholeNumber
  <1> HIDE DEF r
  <1>4. CASE IsZero(a) \/ IsZero(b)
    <2>1. 0 \in Nat OBVIOUS
    <2>2. Number(r) /\ IsZero(r) BY <1>1, <1>2, <1>3, <1>4, <2>1, Multiplication DEF r
    <2>3. Worth(r.num) = 0 BY <1>1, <2>2, NumberIs
    <2>4. \A x, y \in Nat : (x = 0 \/ y = 0) => x * y = 0 OBVIOUS
    <2>5. Worth(a.num) * Worth(b.num) = 0 BY <1>2, <1>3, <1>4, <2>4
    <2> QED BY <2>2, <2>3, <2>5 DEF IsWhole, Rdx, r
  <1>5. CASE ~IsZero(a) /\ ~IsZero(b)
    <2>1. a.scale = 0 /\ b.scale = 0 BY <1>2, <1>3, <1>5
    <2>2. a.scale + b.scale = 0 /\ 0 <= Bigger(Bigger(0, a.scale), b.scale) /\ 0 \in Nat BY <2>1 DEF Bigger
    <2>3. /\ Number(r) /\ ~IsZero(r) /\ r.scale = 0 /\ r.neg = (a.neg # b.neg)
          /\ \E k \in Nat : /\ Rdx(a) + Rdx(b) = RdxOf(0) + k
                            /\ Worth(Unit(k)) * Worth(r.num) = Worth(a.num) * Worth(b.num)
      BY <1>2, <1>3, <1>5, <2>2, WholeProduct DEF r
    <2>4. RdxOf(0) = 0 BY NoRdx
    <2>5. IsWhole(r) BY <2>3, <2>4 DEF IsWhole, Rdx
    <2>6. Worth(r.num) \in Nat BY <2>5, WholeNumber
    <2>7. Worth(r.num) = Worth(a.num) * Worth(b.num)
      <3>1. PICK k \in Nat : 0 + 0 = 0 + k /\ Worth(Unit(k)) * Worth(r.num) = Worth(a.num) * Worth(b.num)
        BY <1>2, <1>3, <2>3, <2>4
      <3>2. k = 0 BY <3>1
      <3>3. 1 * Worth(r.num) = Worth(r.num) BY <2>6
      <3> QED BY <1>1, <3>1, <3>2, <3>3, UnitZero
    <2> QED BY <2>3, <2>5, <2>7 DEF r
  <1> QED BY <1>4, <1>5

\* What is left of a product is what is left of the product of what is left.
LEMMA RestTimes ==
    \A d \in Nat \ {0} : \A x, y, u, v \in Nat : x % d = u % d /\ y % d = v % d => (x * y) % d = (u * v) % d
  <1> TAKE d \in Nat \ {0}
  <1> TAKE x, y, u, v \in Nat
  <1> HAVE x % d = u % d /\ y % d = v % d
  <1>1. ASSUME NEW w \in Nat, NEW z \in Nat PROVE (w * z) % d = ((w % d) * (z % d)) % d
    <2>1. /\ w % d \in 0..(d - 1) /\ w \div d \in Int /\ w = d * (w \div d) + (w % d)
          /\ z % d \in 0..(d - 1) /\ z \div d \in Int /\ z = d * (z \div d) + (z % d)
      BY Quotients
    <2>2. w % d \in Nat /\ z % d \in Nat /\ w \div d \in Nat /\ z \div d \in Nat
      <3>1. \A n \in Nat : n \div d \in Nat /\ n % d \in Nat OBVIOUS
      <3> QED BY <3>1
    <2>3. PICK p \in Nat, r \in Nat, q \in Nat, s \in Nat :
              p = w \div d /\ r = w % d /\ q = z \div d /\ s = z % d
      BY <2>1, <2>2
    <2>4. w = d * p + r /\ z = d * q + s BY <2>1, <2>3
    <2>5. PICK g \in Nat, h \in Nat : g = r * s /\ h = p * (d * q + s) + r * q
      <3>1. r * s \in Nat /\ p * (d * q + s) + r * q \in Nat OBVIOUS
      <3> QED BY <3>1
    <2>6. w * z = g + d * h
      <3>1. w * z = (d * p) * z + r * z BY <2>4
      <3>2. (d * p) * z = d * (p * z) OBVIOUS
      <3>3. r * z = d * (r * q) + g BY <2>4, <2>5
      <3>4. PICK i \in Nat, j \in Nat : i = p * z /\ j = r * q OBVIOUS
      <3>5. h = i + j BY <2>4, <2>5, <3>4
      <3>6. d * h = d * i + d * j BY <3>5
      <3> QED BY <3>1, <3>2, <3>3, <3>4, <3>6
    <2>7. (g + d * h) % d = g % d BY RemainderStays
    <2> QED BY <2>3, <2>5, <2>6, <2>7
  <1>2. (x * y) % d = ((x % d) * (y % d)) % d BY <1>1
  <1>3. (u * v) % d = ((u % d) * (v % d)) % d BY <1>1
  <1> QED BY <1>2, <1>3

\* bc_num_divmod() by two.
LEMMA HalfOf ==
    ASSUME Digits, Exponents, Halving, 2 \in Digit, NEW n, IsWhole(n), ~IsZero(n), ~n.neg
    PROVE  LET h == DivModHere(n, Two, 0)
           IN  /\ IsWhole(h.quotient) /\ ~h.quotient.neg /\ Worth(h.quotient.num) = Worth(n.num) \div 2
               /\ IsOne(h.rest) <=> Worth(n.num) % 2 = 1
  <1> DEFINE h == DivModHere(n, Two, 0)
             q == Div(n, Two, 0)
             r == Mod(n, Two, 0)
  <1>1. Based BY BaseIs
  <1>2. IsWhole(Two) /\ ~IsZero(Two) /\ Worth(Two.num) = 2 /\ Two.neg = FALSE
    <2>1. Two = [neg |-> FALSE, scale |-> 0, num |-> <<2>>] BY DEF Two, Integer, Num
    <2>2. <<2>> \in Seq(Digit) /\ Len(<<2>>) = 1 /\ <<2>>[1] = 2 OBVIOUS
    <2>3. Worth(<<2>>) = 2 BY <1>1, <2>2, OneLimbWorth
    <2>4. Proper(<<2>>) BY <2>2 DEF Proper
    <2>5. Number(Two) /\ Rdx(Two) = 0 BY <1>1, <2>4, IntegerIs DEF Two
    <2>6. ~IsZero(Two) BY <2>1 DEF IsZero
    <2> QED BY <2>1, <2>3, <2>5, <2>6 DEF IsWhole
  <1>3. /\ IsWhole(r) /\ (~IsZero(r) => r.neg = n.neg)
        /\ IsWhole(q) /\ (~IsZero(q) => q.neg = (n.neg # Two.neg))
        /\ Worth(n.num) = Worth(Two.num) * Worth(q.num) + Worth(r.num)
        /\ Worth(r.num) = Worth(n.num) % Worth(Two.num)
    BY <1>2, ModIs
  <1>4. h.rest = r BY DEF DivModHere, Mod
  <1>5. h.quotient = q BY <1>2 DEF DivModHere, Both, WithRest
  <1> HIDE DEF h, q, r
  <1>6. n.neg = FALSE /\ r.neg \in BOOLEAN /\ q.neg \in BOOLEAN
    <2>1. n.neg \in BOOLEAN /\ r.neg \in BOOLEAN /\ q.neg \in BOOLEAN BY <1>3, WholeNumber
    <2> QED BY <2>1
  <1>7. ~q.neg
    <2>1. CASE IsZero(q) BY <1>3, <2>1 DEF IsWhole, Number
    <2>2. CASE ~IsZero(q) BY <1>2, <1>3, <1>6, <2>2
    <2> QED BY <2>1, <2>2
  <1>8. PICK w \in Nat, v \in Nat, x \in Nat : w = Worth(q.num) /\ v = Worth(r.num) /\ x = Worth(n.num)
    BY <1>3, WholeNumber
  <1>9. x \div 2 = w /\ x % 2 = v
    <2>1. x = 2 * w + v /\ v = x % 2 BY <1>2, <1>3, <1>8
    <2>2. x % 2 \in 0..1 OBVIOUS
    <2>3. (2 * w + v) \div 2 = w BY <2>1, <2>2
    <2> QED BY <2>1, <2>3
  <1>10. IsOne(r) <=> v = 1
    <2>1. CASE IsZero(r)
      <3>1. v = 0 BY <1>3, <1>8, <2>1, WholeNumber
      <3>2. ~IsOne(r) BY <2>1 DEF IsZero, IsOne
      <3> QED BY <3>1, <3>2
    <2>2. CASE ~IsZero(r)
      <3>1. r.scale = 0 /\ Number(r) /\ Rdx(r) = 0 /\ r.neg = FALSE BY <1>3, <1>6, <2>2, WholeNumber
      <3>2. r.num \in Seq(Digit) /\ (Len(r.num) # 0 => r.num[Len(r.num)] # 0)
        <4>1. r.num \in Seq(Digit) BY <3>1 DEF Number
        <4>2. Len(r.num) \in Nat BY <4>1
        <4>3. Len(r.num) # 0 => Len(r.num) > Rdx(r) BY <3>1, <4>2
        <4> QED BY <2>2, <3>1, <4>1, <4>3 DEF Number, Rdx
      <3>3. r.num = <<1>> <=> v = 1 BY <1>1, <1>8, <3>2, OneWorth
      <3> QED BY <3>1, <3>3 DEF IsOne
    <2> QED BY <2>1, <2>2
  <1> QED BY <1>3, <1>4, <1>5, <1>7, <1>8, <1>9, <1>10 DEF h

\* n is the power i of a, modulo c.
IsResidue(n, a, c, i) ==
    /\ IsWhole(n)
    /\ \E v \in Nat : Power(v, Worth(a.num), i) /\ Worth(n.num) % Worth(c.num) = v % Worth(c.num)
    /\ ~IsZero(n) => n.neg = (a.neg /\ i % 2 = 1)

\* A product of powers modulo c.
LEMMA ResidueTimes ==
    ASSUME Digits, Exponents, Halving, NEW a, IsWhole(a), NEW c, IsWhole(c), ~IsZero(c), NEW i \in Nat, NEW j \in Nat,
           NEW x, IsResidue(x, a, c, i), NEW y, IsResidue(y, a, c, j)
    PROVE  LET r == Mod(Mul(x, y, 0), c, 0) IN IsResidue(r, a, c, i + j) /\ Worth(r.num) < Worth(c.num)
  <1> DEFINE t == Mul(x, y, 0)
             r == Mod(t, c, 0)
  <1>1. IsWhole(x) /\ IsWhole(y) BY DEF IsResidue
  <1>2. /\ IsWhole(t) /\ Worth(t.num) = Worth(x.num) * Worth(y.num)
        /\ ~IsZero(t) => t.neg = (x.neg # y.neg)
    BY <1>1, MulIs
  <1> HIDE DEF t
  <1>3. IsWhole(r) /\ Worth(r.num) = Worth(t.num) % Worth(c.num) /\ (~IsZero(r) => r.neg = t.neg) BY <1>2, ModIs
  <1> HIDE DEF r
  <1>4. PICK w \in Nat, m \in Nat \ {0}, p \in Nat, q \in Nat, s \in Nat, z \in Nat :
            /\ w = Worth(a.num) /\ m = Worth(c.num) /\ p = Worth(x.num) /\ q = Worth(y.num)
            /\ s = Worth(t.num) /\ z = Worth(r.num)
    BY <1>1, <1>2, <1>3, WholeNumber
  <1>5. PICK u \in Nat : Power(u, w, i) /\ p % m = u % m BY <1>4 DEF IsResidue
  <1>6. PICK v \in Nat : Power(v, w, j) /\ q % m = v % m BY <1>4 DEF IsResidue
  <1>7. u * v \in Nat /\ Power(u * v, w, i + j) BY <1>5, <1>6, PowersJoin
  <1>8. z = s % m /\ s = p * q BY <1>2, <1>3, <1>4
  <1>9. z < m /\ z % m = z
    <2>1. \A l \in Nat : l % m < m OBVIOUS
    <2>2. z < m BY <1>8, <2>1
    <2>3. \A l \in Nat : l < m => l % m = l OBVIOUS
    <2> QED BY <2>2, <2>3
  <1>10. (p * q) % m = (u * v) % m
    <2>1. \A k, l, g, h \in Nat : k % m = g % m /\ l % m = h % m => (k * l) % m = (g * h) % m BY RestTimes, Zenon
    <2>2. \A l, g, h \in Nat : p % m = g % m /\ l % m = h % m => (p * l) % m = (g * h) % m BY <2>1, Zenon
    <2>3. \A g, h \in Nat : p % m = g % m /\ q % m = h % m => (p * q) % m = (g * h) % m BY <2>2, Zenon
    <2>4. \A h \in Nat : p % m = u % m /\ q % m = h % m => (p * q) % m = (u * h) % m BY <2>3, Zenon
    <2>5. p % m = u % m /\ q % m = v % m => (p * q) % m = (u * v) % m BY <2>4, Zenon
    <2> QED BY <1>5, <1>6, <2>5, Zenon
  <1>11. z % m = (u * v) % m BY <1>8, <1>9, <1>10
  <1>12. ~IsZero(r) => r.neg = (a.neg /\ (i + j) % 2 = 1)
    <2> SUFFICES ASSUME ~IsZero(r) PROVE r.neg = (a.neg /\ (i + j) % 2 = 1) OBVIOUS
    <2>1. z # 0 BY <1>3, <1>4, WholeNumber
    <2>2. s # 0
      <3>1. 0 % m = 0 OBVIOUS
      <3> QED BY <1>8, <2>1, <3>1
    <2>3. p # 0 /\ q # 0
      <3>1. \A k, l \in Nat : (k = 0 \/ l = 0) => k * l = 0 OBVIOUS
      <3> QED BY <1>8, <2>2, <3>1
    <2>4. ~IsZero(x) /\ ~IsZero(y) /\ ~IsZero(t) BY <1>1, <1>2, <1>4, <2>2, <2>3, WholeNumber
    <2>5. x.neg = (a.neg /\ i % 2 = 1) /\ y.neg = (a.neg /\ j % 2 = 1) BY <2>4 DEF IsResidue
    <2>6. r.neg = (x.neg # y.neg) BY <1>2, <1>3, <2>4
    <2>7. /\ i % 2 = 1 /\ j % 2 = 1 => (i + j) % 2 # 1
          /\ i % 2 = 1 /\ j % 2 # 1 => (i + j) % 2 = 1
          /\ i % 2 # 1 /\ j % 2 = 1 => (i + j) % 2 = 1
          /\ i % 2 # 1 /\ j % 2 # 1 => (i + j) % 2 # 1
      OBVIOUS
    <2>8. a.neg \in BOOLEAN BY WholeNumber
    <2>9. CASE a.neg = TRUE BY <2>5, <2>6, <2>7, <2>9
    <2>10. CASE a.neg = FALSE BY <2>5, <2>6, <2>10
    <2> QED BY <2>8, <2>9, <2>10
  <1> QED BY <1>3, <1>4, <1>7, <1>9, <1>11, <1>12 DEF IsResidue, r, t

\* What a round of bc_num_modexp() finds and leaves: base is the power of a that a digit of
\* the exponent stands for, modulo c, and d that of the digits there were; the rest of the
\* exponent is that of base.
ModShares(s, a, c, n) ==
    \E m \in Nat \ {0}, i \in Nat :
        /\ IsResidue(s.base, a, c, m) /\ IsResidue(s.d, a, c, i)
        /\ IF i = 0 THEN s.d = One ELSE Worth(s.d.num) < Worth(c.num)
        /\ IsWhole(s.exp) /\ ~s.exp.neg
        /\ i + m * Worth(s.exp.num) = n
ModRounds == [base : Numerals, exp : Numerals, d : Numerals]

\* A round keeps it.
LEMMA ModSquaredIs ==
    ASSUME Digits, Exponents, Halving, 2 \in Digit, NEW a, IsWhole(a), NEW c, IsWhole(c), ~IsZero(c), NEW n \in Nat,
           NEW s \in ModRounds, ModShares(s, a, c, n), ~IsZero(s.exp)
    PROVE  LET t == ModSquared(s, c)
           IN  t \in ModRounds /\ ModShares(t, a, c, n) /\ Worth(t.exp.num) < Worth(s.exp.num)
  <1> DEFINE t == ModSquared(s, c)
             h == DivModHere(s.exp, Two, 0)
             base == Mod(Mul(s.base, s.base, 0), c, 0)
             times == Mod(Mul(s.d, s.base, 0), c, 0)
             exp == h.quotient
             used == IsOne(h.rest)
             d == IF used THEN times ELSE s.d
  <1>1. PICK m \in Nat \ {0}, i \in Nat :
            /\ IsResidue(s.base, a, c, m) /\ IsResidue(s.d, a, c, i)
            /\ IF i = 0 THEN s.d = One ELSE Worth(s.d.num) < Worth(c.num)
            /\ IsWhole(s.exp) /\ ~s.exp.neg
            /\ i + m * Worth(s.exp.num) = n
    BY DEF ModShares
  <1>2. t = [base |-> base, exp |-> exp, d |-> d] BY DEF ModSquared
  <1>3. IsWhole(exp) /\ ~exp.neg /\ Worth(exp.num) = Worth(s.exp.num) \div 2 /\ (used <=> Worth(s.exp.num) % 2 = 1)
    BY <1>1, HalfOf
  <1>4. m + m \in Nat \ {0} /\ i + m \in Nat \ {0} OBVIOUS
  <1>5. IsResidue(base, a, c, m + m) BY <1>1, ResidueTimes
  <1>6. IsResidue(times, a, c, i + m) /\ Worth(times.num) < Worth(c.num) BY <1>1, ResidueTimes
  <1> HIDE DEF base, times, exp, used, h
  <1>7. PICK e \in Nat \ {0}, l \in Nat : e = Worth(s.exp.num) /\ l = Worth(exp.num) /\ l = e \div 2 /\ (used <=> e % 2 = 1)
    <2>1. Worth(s.exp.num) \in Nat \ {0} BY <1>1, WholeNumber
    <2>2. Worth(exp.num) \in Nat BY <1>3, WholeNumber
    <2> QED BY <1>3, <2>1, <2>2
  <1>8. l < e /\ e = IF used THEN 2 * l + 1 ELSE 2 * l
    <2>1. \A y \in Nat \ {0} : /\ y \div 2 < y /\ (y % 2 = 1 \/ y % 2 = 0)
                               /\ y = 2 * (y \div 2) + (y % 2)
      OBVIOUS
    <2>2. e \div 2 < e /\ (e % 2 = 1 \/ e % 2 = 0) /\ e = 2 * (e \div 2) + (e % 2) BY <2>1
    <2> QED BY <1>7, <2>2
  <1>9. PICK x \in Nat : x = m * l OBVIOUS
  <1>10. (m + m) * l = x + x /\ i + m * e = n BY <1>1, <1>7, <1>9
  <1>11. ModShares(t, a, c, n)
    <2>1. t.base = base /\ t.exp = exp /\ t.d = d BY <1>2
    <2>2. CASE used
      <3>1. d = times BY <2>2
      <3>2. m * e = (x + x) + m
        <4>1. m * (2 * l + 1) = (x + x) + m BY <1>9
        <4> QED BY <1>8, <2>2, <4>1
      <3>3. (i + m) + (m + m) * l = n
        <4>1. i + ((x + x) + m) = n BY <1>10, <3>2
        <4> QED BY <1>10, <4>1
      <3> HIDE DEF t, d
      <3>4. /\ IsResidue(t.base, a, c, m + m) /\ IsResidue(t.d, a, c, i + m)
            /\ IF i + m = 0 THEN t.d = One ELSE Worth(t.d.num) < Worth(c.num)
            /\ IsWhole(t.exp) /\ ~t.exp.neg
            /\ (i + m) + (m + m) * Worth(t.exp.num) = n
        BY <1>3, <1>4, <1>5, <1>6, <1>7, <2>1, <3>1, <3>3
      <3> QED BY <1>4, <3>4 DEF ModShares
    <2>3. CASE ~used
      <3>1. d = s.d BY <2>3
      <3>2. m * e = x + x
        <4>1. m * (2 * l) = x + x BY <1>9
        <4> QED BY <1>8, <2>3, <4>1
      <3>3. i + (m + m) * l = n BY <1>10, <3>2
      <3> HIDE DEF t, d
      <3>4. /\ IsResidue(t.base, a, c, m + m) /\ IsResidue(t.d, a, c, i)
            /\ IF i = 0 THEN t.d = One ELSE Worth(t.d.num) < Worth(c.num)
            /\ IsWhole(t.exp) /\ ~t.exp.neg
            /\ i + (m + m) * Worth(t.exp.num) = n
        BY <1>1, <1>3, <1>5, <1>7, <2>1, <3>1, <3>3
      <3> QED BY <1>4, <3>4 DEF ModShares
    <2> QED BY <2>2, <2>3
  <1>12. base \in Numerals /\ exp \in Numerals /\ times \in Numerals
    <2>1. Number(base) /\ Number(exp) /\ Number(times) BY <1>3, <1>5, <1>6 DEF IsResidue, IsWhole
    <2> QED BY <2>1, PowerThere
  <1>13. d \in Numerals BY <1>12 DEF ModRounds
  <1> HIDE DEF d, t
  <1>14. t \in ModRounds BY <1>2, <1>12, <1>13 DEF ModRounds
  <1>15. Worth(t.exp.num) < Worth(s.exp.num) BY <1>2, <1>7, <1>8
  <1> QED BY <1>11, <1>14, <1>15 DEF t

\* Nothing multiplied is one.
LEMMA PowerNone ==
    ASSUME NEW w \in Nat
    PROVE  Power(1, w, 0)
  <1> DEFINE f == [i \in 0..0 |-> 1]
  <1>1. f \in [0..0 -> Nat] /\ f[0] = 1 OBVIOUS
  <1> HIDE DEF f
  <1>2. \A i \in 1..0 : f[i] = w * f[i - 1] OBVIOUS
  <1> QED BY <1>1, <1>2 DEF Power

\* bc_num_modexp(), the rounds: base is what is left of a, and is squared as often as
\* the exponent says, and fewer do.
LEMMA ModSquaring ==
    ASSUME Digits, Exponents, Halving, 2 \in Digit, NEW a, IsWhole(a), NEW c, IsWhole(c), ~IsZero(c),
           NEW b, IsWhole(b), ~b.neg
    PROVE  LET r == ModSquares(Mod(a, c, 0), b, c)
               n == Worth(b.num)
           IN  IsResidue(r, a, c, n) /\ IF n = 0 THEN r = One ELSE Worth(r.num) < Worth(c.num)
  <1>1. Based BY BaseIs
  <1>2. PICK n \in Nat : n = Worth(b.num) BY WholeNumber
  <1> DEFINE base == Mod(a, c, 0)
             S == {s \in ModRounds : ModShares(s, a, c, n)}
             start == [base |-> base, exp |-> b, d |-> One]
             Is(g) == g = [k \in 0..n |->
                             IF k = 0 THEN [base |-> base, exp |-> b, d |-> One] ELSE ModSquared(g[k - 1], c)]
             p == CHOOSE g : Is(g)
             step == [x \in (1..n) \X S |-> ModSquared(x[2], c)]
             Left(s) == Worth(s.exp.num)
  <1>3. IsWhole(One) /\ Worth(One.num) = 1 /\ One.neg = FALSE
    <2>1. One = [neg |-> FALSE, scale |-> 0, num |-> <<1>>] BY DEF One, Num
    <2>2. One = Integer(<<1>>) BY DEF One, Integer
    <2>3. <<1>> \in Seq(Digit) /\ Len(<<1>>) = 1 /\ <<1>>[1] = 1 BY <1>1 DEF Digit, Based
    <2>4. Worth(<<1>>) = 1 BY <1>1, <2>3, OneLimbWorth
    <2>5. Proper(<<1>>) BY <2>3 DEF Proper
    <2>6. Number(One) /\ Rdx(One) = 0 BY <1>1, <2>2, <2>5, IntegerIs
    <2> QED BY <2>1, <2>4, <2>6 DEF IsWhole
  <1>4. IsResidue(base, a, c, 1) /\ Number(base)
    <2>1. IsWhole(base) /\ Worth(base.num) = Worth(a.num) % Worth(c.num) /\ (~IsZero(base) => base.neg = a.neg)
      BY ModIs
    <2> HIDE DEF base
    <2>2. PICK w \in Nat, m \in Nat \ {0} : w = Worth(a.num) /\ m = Worth(c.num) BY WholeNumber
    <2>3. (w % m) % m = w % m
      <3>1. w % m \in Nat /\ w % m < m BY <2>2
      <3>2. \A l \in Nat : l < m => l % m = l OBVIOUS
      <3> QED BY <3>1, <3>2
    <2>4. Power(w, w, 1) BY PowerOnce
    <2>5. 1 % 2 = 1 /\ a.neg \in BOOLEAN BY WholeNumber
    <2> QED BY <2>1, <2>2, <2>3, <2>4, <2>5 DEF IsResidue, IsWhole
  <1>5. IsResidue(One, a, c, 0)
    <2>1. PICK w \in Nat : w = Worth(a.num) BY WholeNumber
    <2>2. Power(1, w, 0) BY PowerNone
    <2>3. ~(0 % 2 = 1) OBVIOUS
    <2> QED BY <1>3, <2>1, <2>2, <2>3 DEF IsResidue
  <1> HIDE DEF base
  <1>6. start \in S /\ Left(start) = n
    <2>1. Number(One) /\ Number(b) /\ Number(base) BY <1>3, <1>4 DEF IsWhole
    <2>2. One \in Numerals /\ b \in Numerals /\ base \in Numerals BY <2>1, PowerThere
    <2>3. start.base = base /\ start.exp = b /\ start.d = One /\ start \in ModRounds BY <2>2 DEF ModRounds
    <2> HIDE DEF start
    <2>4. 1 \in Nat \ {0} /\ 0 \in Nat /\ 0 + 1 * n = n OBVIOUS
    <2>5. /\ IsResidue(start.base, a, c, 1) /\ IsResidue(start.d, a, c, 0) /\ start.d = One
          /\ IsWhole(start.exp) /\ ~start.exp.neg /\ 0 + 1 * Worth(start.exp.num) = n
      BY <1>2, <1>4, <1>5, <2>3, <2>4
    <2>6. ModShares(start, a, c, n) BY <2>4, <2>5 DEF ModShares
    <2> QED BY <1>2, <2>3, <2>6
  <1>7. ASSUME NEW s \in S
        PROVE  /\ ModSquared(s, c) \in S /\ Left(s) \in Nat
               /\ Left(s) = 0 => ModSquared(s, c) = s
               /\ Left(s) # 0 => Left(ModSquared(s, c)) < Left(s)
    <2>1. s \in ModRounds /\ ModShares(s, a, c, n) OBVIOUS
    <2>2. IsWhole(s.exp) BY <2>1 DEF ModShares
    <2>3. Left(s) \in Nat /\ (IsZero(s.exp) <=> Left(s) = 0) BY <2>2, WholeNumber
    <2>4. CASE Left(s) = 0
      <3>1. ModSquared(s, c) = s BY <2>3, <2>4 DEF ModSquared
      <3> QED BY <2>3, <2>4, <3>1
    <2>5. CASE Left(s) # 0
      <3>1. /\ ModSquared(s, c) \in ModRounds /\ ModShares(ModSquared(s, c), a, c, n)
            /\ Worth(ModSquared(s, c).exp.num) < Worth(s.exp.num)
        BY <2>1, <2>3, <2>5, ModSquaredIs
      <3> QED BY <2>3, <2>5, <3>1
    <2> QED BY <2>4, <2>5
  <1> HIDE DEF S, start, Left
  <1>8. ASSUME NEW k \in 1..n, NEW s \in S PROVE step[<<k, s>>] = ModSquared(s, c) /\ step[<<k, s>>] \in S
    <2>1. <<k, s>> \in (1..n) \X S OBVIOUS
    <2>2. step[<<k, s>>] = ModSquared(s, c) BY <2>1
    <2> QED BY <1>7, <2>2
  <1> HIDE DEF step
  <1>9. PICK f : Chain(f, start, step, S, n)
    <2>1. Steps(step, S, n) BY <1>8, Zenon DEF Steps
    <2>2. n \in Nat OBVIOUS
    <2>3. \E f : Chain(f, start, step, S, n) BY <1>6, <2>1, <2>2, Recursion, Zenon
    <2> QED BY <2>3
  <1>10. /\ f \in [0..n -> S] /\ f[0] = start
         /\ \A k \in 1..n : f[k] = ModSquared(f[k - 1], c)
    <2>1. ASSUME NEW k \in 1..n PROVE f[k] = ModSquared(f[k - 1], c)
      <3>1. k - 1 \in 0..n OBVIOUS
      <3>2. f[k - 1] \in S BY <1>9, <3>1 DEF Chain
      <3>3. f[k] = step[<<k, f[k - 1]>>] BY <1>9 DEF Chain
      <3> QED BY <1>8, <3>2, <3>3
    <2> QED BY <1>9, <2>1 DEF Chain
  <1>11. Is(f)
    <2>1. \A k \in 0..n : k # 0 => k \in 1..n OBVIOUS
    <2>2. f = [k \in 0..n |-> f[k]] BY <1>10
    <2>3. \A k \in 0..n : f[k] = IF k = 0 THEN start ELSE ModSquared(f[k - 1], c) BY <1>10, <2>1, Zenon
    <2> QED BY <2>2, <2>3, Zenon DEF start
  <1>12. Is(p)
    <2> HIDE DEF Is
    <2> QED BY <1>11, Zenon
  <1>13. ModSquares(base, b, c) = p[n].d BY <1>2 DEF ModSquares
  <1> HIDE DEF p
  <1>14. /\ p[0] = start
         /\ \A k \in 1..n : p[k] = ModSquared(p[k - 1], c)
    <2>1. \A k \in 0..n : p[k] = IF k = 0 THEN start ELSE ModSquared(p[k - 1], c) BY <1>12, Zenon DEF start
    <2>2. 0 \in 0..n /\ \A k \in 1..n : k \in 0..n /\ k # 0 OBVIOUS
    <2> HIDE DEF Is
    <2> QED BY <2>1, <2>2
  <1> HIDE DEF Is
  <1> DEFINE T == {k \in 0..n : p[k] \in S /\ Left(p[k]) <= n - k}
  <1>15. 0 \in T
    <2>1. n - 0 = n /\ n <= n OBVIOUS
    <2> QED BY <1>6, <1>14, <2>1
  <1>16. ASSUME NEW k \in 0..(n - 1), k \in T PROVE k + 1 \in T
    <2>1. k + 1 \in 1..n /\ (k + 1) - 1 = k /\ k + 1 \in 0..n OBVIOUS
    <2>2. p[k + 1] = ModSquared(p[k], c) BY <1>14, <2>1
    <2>3. p[k] \in S /\ Left(p[k]) <= n - k BY <1>16
    <2> HIDE DEF T
    <2>4. /\ p[k + 1] \in S /\ Left(p[k]) \in Nat
          /\ Left(p[k]) = 0 => p[k + 1] = p[k]
          /\ Left(p[k]) # 0 => Left(p[k + 1]) < Left(p[k])
      BY <1>7, <2>2, <2>3
    <2>5. Left(p[k + 1]) \in Nat BY <1>7, <2>4
    <2>6. Left(p[k + 1]) <= n - (k + 1)
      <3>1. PICK e \in Nat, g \in Nat : e = Left(p[k]) /\ g = Left(p[k + 1]) BY <2>4, <2>5
      <3>2. CASE e = 0
        <4>1. g = 0 BY <2>4, <3>1, <3>2
        <4> QED BY <3>1, <4>1
      <3>3. CASE e # 0
        <4>1. g < e /\ e <= n - k BY <2>3, <2>4, <3>1, <3>3
        <4> QED BY <3>1, <4>1
      <3> QED BY <3>2, <3>3
    <2> QED BY <2>1, <2>4, <2>6 DEF T
  <1> HIDE DEF T
  <1>17. \A k \in 0..n : k \in T BY <1>15, <1>16, Induction
  <1>18. p[n] \in S /\ Left(p[n]) = 0
    <2>1. n \in 0..n /\ n - n = 0 OBVIOUS
    <2>2. p[n] \in S /\ Left(p[n]) <= 0 BY <1>17, <2>1 DEF T
    <2>3. Left(p[n]) \in Nat BY <1>7, <2>2
    <2> QED BY <2>2, <2>3
  <1>19. PICK s : s = p[n] /\ ModShares(s, a, c, n) /\ Worth(s.exp.num) = 0 BY <1>18 DEF S, Left
  <1>20. PICK m \in Nat \ {0}, i \in Nat :
            /\ IsResidue(s.d, a, c, i)
            /\ IF i = 0 THEN s.d = One ELSE Worth(s.d.num) < Worth(c.num)
            /\ i + m * Worth(s.exp.num) = n
    BY <1>19 DEF ModShares
  <1>21. i = n
    <2>1. m * 0 = 0 OBVIOUS
    <2> QED BY <1>19, <1>20, <2>1
  <1> QED BY <1>2, <1>13, <1>19, <1>20, <1>21 DEF base

\* bc_num_modexp(): what is divided by zero, the negative exponent and what is no integer
\* are refused. Otherwise the result is an integer that differs from the exact power of a
\* by a multiple of c, is less than c unless nothing was multiplied, and has the sign of the power.
THEOREM ModularPowers ==
    ASSUME Digits, Exponents, Halving, 2 \in Digit, NEW a, Number(a), NEW b, Number(b), NEW c, Number(c)
    PROVE  LET r == ModExp(a, b, c)
               Is(n, v) == Worth(n.num) = Worth(Unit(Rdx(n))) * v
               Integers == \A n \in {a, b, c} : \E v \in Nat : Is(n, v)
           IN  /\ IsZero(c) \/ b.neg \/ ~Integers => Failed(r)
               /\ \A x, e, m \in Nat :
                     ~IsZero(c) /\ ~b.neg /\ Is(a, x) /\ Is(b, e) /\ Is(c, m) =>
                        /\ Number(r) /\ Rdx(r) = 0
                        /\ \E v \in Nat : Power(v, x, e) /\ Worth(r.num) % m = v % m
                        /\ IF e = 0 THEN r = One ELSE Worth(r.num) < m
                        /\ ~IsZero(r) => r.neg = (a.neg /\ e % 2 = 1)
  <1> DEFINE r == ModExp(a, b, c)
             Is(n, v) == Worth(n.num) = Worth(Unit(Rdx(n))) * v
             Integral(n) == \E v \in Nat : Is(n, v)
  <1>1. Based BY BaseIs
  <1>2. ASSUME NEW n, Number(n)
        PROVE  /\ IsInt(n) <=> Integral(n)
               /\ \A v \in Nat : Is(n, v) =>
                    IsWhole(ToInt(n)) /\ Worth(ToInt(n).num) = v /\ ToInt(n).neg = n.neg
    BY <1>1, <1>2, ToIntIs DEF IsWhole
  <1> HIDE DEF Is, Integral
  <1>3. ASSUME IsZero(c) \/ b.neg \/ ~(Integral(a) /\ Integral(b) /\ Integral(c)) PROVE Failed(r)
    <2>1. IsZero(c) \/ b.neg \/ ~IsInt(a) \/ ~IsInt(b) \/ ~IsInt(c) BY <1>2, <1>3
    <2>2. r = Error("divide by zero") \/ r = Error("negative number") \/ r = Error("non integer") BY <2>1 DEF ModExp
    <2> HIDE DEF r
    <2> QED BY <2>2, Fails
  <1>4. ASSUME NEW x \in Nat, NEW e \in Nat, NEW m \in Nat, ~IsZero(c), ~b.neg, Is(a, x), Is(b, e), Is(c, m)
        PROVE  /\ Number(r) /\ Rdx(r) = 0
               /\ \E v \in Nat : Power(v, x, e) /\ Worth(r.num) % m = v % m
               /\ IF e = 0 THEN r = One ELSE Worth(r.num) < m
               /\ ~IsZero(r) => r.neg = (a.neg /\ e % 2 = 1)
    <2> DEFINE y == ToInt(a)  n == ToInt(b)  d == ToInt(c)
    <2>1. IsInt(a) /\ IsInt(b) /\ IsInt(c) BY <1>2, <1>4 DEF Integral
    <2>2. /\ IsWhole(y) /\ Worth(y.num) = x /\ y.neg = a.neg
          /\ IsWhole(n) /\ Worth(n.num) = e /\ n.neg = b.neg
          /\ IsWhole(d) /\ Worth(d.num) = m
      BY <1>2, <1>4
    <2>3. r = ModSquares(Mod(y, d, 0), n, d) BY <1>4, <2>1 DEF ModExp
    <2> HIDE DEF r, y, n, d
    <2>4. ~IsZero(d)
      <3>1. PICK u \in Nat : u = Worth(Unit(Rdx(c))) BY <1>1, <1>4, AlignedWorth, UnitIs
      <3>2. u * 0 = 0 OBVIOUS
      <3>3. Worth(c.num) # 0 BY <1>1, <1>4, NumberIs
      <3>4. m # 0 BY <1>4, <3>1, <3>2, <3>3 DEF Is
      <3> QED BY <2>2, <3>4, WholeNumber
    <2>5. IsResidue(r, y, d, e) /\ IF e = 0 THEN r = One ELSE Worth(r.num) < m
      BY <1>4, <2>2, <2>3, <2>4, ModSquaring
    <2> QED BY <2>2, <2>5 DEF IsResidue, IsWhole
  <1> HIDE DEF r
  <1> QED BY <1>3, <1>4 DEF Is, Integral, r
=============================================================================
