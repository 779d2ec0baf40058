---------------------------- MODULE BcNumProofs ----------------------------
(***************************************************************************)
(* Theorems about the arithmetic of BcNum, for limbs of any base and       *)
(* arrays of any length: what the loops over limbs leave is the sum, the   *)
(* difference, the product or the quotient of what their operands stand    *)
(* for.                                                                    *)
(*                                                                         *)
(* A loop over limbs is a recursive function over an interval.  Induction  *)
(* is over a set of indices, as the one that is not in it and is the least *)
(* does not exist (NatLessThanWellFounded).                                *)
(***************************************************************************)
EXTENDS BcNum, WellFoundedInduction, TLAPS

\* The base of a limb, which is all that is used of Radix and BaseDigs here.
Based == BasePow \in Nat /\ BasePow > 1

Digit == 0..(BasePow - 1)

-----------------------------------------------------------------------------
(* Induction and recursion over intervals                                  *)

\* A set that has 0, and the next of each below n, has all up to n.
LEMMA Induction ==
    ASSUME NEW n \in Nat, NEW T, 0 \in T,
           \A m \in 0..(n - 1) : m \in T => m + 1 \in T
    PROVE  \A m \in 0..n : m \in T
  <1> DEFINE Bad == {m \in 0..n : m \notin T}
  <1> SUFFICES ASSUME Bad # {} PROVE FALSE OBVIOUS
  <1>1. IsWellFoundedOn(OpToRel(<, Nat), Nat) BY NatLessThanWellFounded, Zenon
  <1>2. Bad \subseteq Nat OBVIOUS
  <1>3. PICK x \in Bad : \A y \in Bad : ~(<<y, x>> \in OpToRel(<, Nat))
    BY <1>1, <1>2, WFMin, Zenon
  <1>4. \A y \in Bad : ~(y < x) BY <1>2, <1>3 DEF OpToRel
  <1>5. x \in 1..n /\ x - 1 \in 0..(n - 1) /\ x - 1 < x /\ x - 1 + 1 = x OBVIOUS
  <1>6. x - 1 \in T BY <1>4, <1>5
  <1> QED BY <1>5, <1>6

\* The same from the top down.
LEMMA DownInduction ==
    ASSUME NEW n \in Nat, NEW T, n + 1 \in T,
           \A m \in 1..n : m + 1 \in T => m \in T
    PROVE  \A m \in 1..(n + 1) : m \in T
  <1> DEFINE U == {k \in 0..n : n + 1 - k \in T}
  <1>1. 0 \in U OBVIOUS
  <1>2. ASSUME NEW m \in 0..(n - 1), m \in U PROVE m + 1 \in U
    <2>1. n - m \in 1..n /\ n - m + 1 = n + 1 - m /\ n - m = n + 1 - (m + 1) /\ m + 1 \in 0..n OBVIOUS
    <2>2. n + 1 - m \in T BY <1>2
    <2> QED BY <2>1, <2>2
  <1> HIDE DEF U
  <1>3. \A m \in 0..n : m \in U BY <1>1, <1>2, Induction
  <1> QED
    <2> TAKE m \in 1..(n + 1)
    <2>1. n + 1 - m \in 0..n /\ n + 1 - (n + 1 - m) = m OBVIOUS
    <2> QED BY <1>3, <2>1 DEF U

\* f begins with c, and the step with number i leads from one value to the next.
Steps(step, S, n) == \A i \in 1..n, x \in S : step[<<i, x>>] \in S
Chain(f, c, step, S, n) ==
    /\ f \in [0..n -> S]
    /\ f[0] = c
    /\ \A i \in 1..n : f[i] = step[<<i, f[i - 1]>>]

\* What is computed from its last value exists, in a set that the steps do not leave.
LEMMA Recursion ==
    ASSUME NEW S, NEW c \in S, NEW n \in Nat, NEW step, Steps(step, S, n)
    PROVE  \E f : Chain(f, c, step, S, n)
  <1> DEFINE T == {m \in 0..n : \E f : Chain(f, c, step, S, m)}
  <1>1. 0 \in T
    <2> DEFINE f == [i \in 0..0 |-> c]
    <2>1. f \in [0..0 -> S] /\ f[0] = c OBVIOUS
    <2> HIDE DEF f
    <2>2. \A i \in 1..0 : f[i] = step[<<i, f[i - 1]>>] OBVIOUS
    <2>3. 0 \in 0..n OBVIOUS
    <2> QED BY <2>1, <2>2, <2>3 DEF Chain
  <1>2. ASSUME NEW m \in 0..(n - 1), m \in T PROVE m + 1 \in T
    <2>1. PICK f : Chain(f, c, step, S, m) BY <1>2
    <2> DEFINE g == [i \in 0..(m + 1) |-> IF i = m + 1 THEN step[<<m + 1, f[m]>>] ELSE f[i]]
    <2>2. m + 1 \in 1..n /\ m \in 0..m /\ f[m] \in S BY <2>1 DEF Chain
    <2>3. step[<<m + 1, f[m]>>] \in S BY <2>2 DEF Steps
    <2>4. g \in [0..(m + 1) -> S] BY <2>1, <2>3 DEF Chain
    <2>5. \A i \in 0..m : g[i] = f[i] OBVIOUS
    <2>6. g[m + 1] = step[<<m + 1, f[m]>>] OBVIOUS
    <2> HIDE DEF g
    <2>7. ASSUME NEW i \in 1..(m + 1) PROVE g[i] = step[<<i, g[i - 1]>>]
      <3>1. i - 1 \in 0..m BY <2>2
      <3>2. CASE i = m + 1 BY <2>5, <2>6, <3>1, <3>2
      <3>3. CASE i # m + 1
        <4>1. i \in 1..m /\ i \in 0..m BY <3>3
        <4> QED BY <2>1, <2>5, <3>1, <4>1 DEF Chain
      <3> QED BY <3>2, <3>3
    <2>8. g[0] = c BY <2>1, <2>5 DEF Chain
    <2>9. Chain(g, c, step, S, m + 1) BY <2>4, <2>7, <2>8 DEF Chain
    <2> QED BY <2>2, <2>9
  <1> HIDE DEF T
  <1>3. n \in T BY <1>1, <1>2, Induction
  <1> QED BY <1>3 DEF T

\* The same with the last index first.
DownChain(f, c, step, S, n) ==
    /\ f \in [1..(n + 1) -> S]
    /\ f[n + 1] = c
    /\ \A i \in 1..n : f[i] = step[<<i, f[i + 1]>>]

\* A function defined from the top of an interval down.
LEMMA DownRecursion ==
    ASSUME NEW S, NEW c \in S, NEW n \in Nat, NEW step, Steps(step, S, n)
    PROVE  \E f : DownChain(f, c, step, S, n)
  <1> DEFINE up == [p \in (1..n) \X S |-> step[<<n + 1 - p[1], p[2]>>]]
  <1>1. ASSUME NEW i \in 1..n, NEW x \in S
        PROVE  up[<<i, x>>] = step[<<n + 1 - i, x>>] /\ up[<<i, x>>] \in S
    <2>1. <<i, x>> \in (1..n) \X S /\ n + 1 - i \in 1..n OBVIOUS
    <2>2. up[<<i, x>>] = step[<<n + 1 - i, x>>] BY <2>1
    <2> QED BY <2>1, <2>2 DEF Steps
  <1> HIDE DEF up
  <1>2. Steps(up, S, n) BY <1>1, Zenon DEF Steps
  <1>3. \E g : Chain(g, c, up, S, n) BY <1>2, Recursion, Zenon
  <1>4. PICK g : Chain(g, c, up, S, n) BY <1>3
  <1> DEFINE f == [i \in 1..(n + 1) |-> g[n + 1 - i]]
  <1>5. f \in [1..(n + 1) -> S] /\ f[n + 1] = c BY <1>4 DEF Chain
  <1>6. ASSUME NEW i \in 1..n PROVE f[i] = step[<<i, f[i + 1]>>]
    <2>1. PICK k : k = n + 1 - i OBVIOUS
    <2>2. k \in 1..n /\ k - 1 \in 0..n /\ n + 1 - k = i /\ n + 1 - (i + 1) = k - 1
          /\ i \in 1..(n + 1) /\ i + 1 \in 1..(n + 1)
      BY <2>1
    <2>3. f[i] = g[k] /\ f[i + 1] = g[k - 1] BY <2>1, <2>2
    <2>4. g[k - 1] \in S /\ g[k] = up[<<k, g[k - 1]>>] BY <1>4, <2>2 DEF Chain
    <2> HIDE DEF f
    <2>5. up[<<k, g[k - 1]>>] = step[<<n + 1 - k, g[k - 1]>>] BY <1>1, <2>2, <2>4
    <2> QED BY <2>2, <2>3, <2>4, <2>5
  <1> HIDE DEF f
  <1> QED BY <1>5, <1>6 DEF DownChain

-----------------------------------------------------------------------------
(* What limbs stand for                                                    *)

\* w[i] is what the limbs of a from i to n stand for.
Tower(a, n, w) ==
    /\ w \in [1..(n + 1) -> Int]
    /\ w[n + 1] = 0
    /\ \A i \in 1..n : w[i] = Limb(a, i) + BasePow * w[i + 1]

\* A place of an array of integers, or what is above it.
LEMMA LimbIsInt ==
    \A a \in Seq(Int) : \A i \in Nat : Limb(a, i) \in Int
  BY DEF Limb

\* There is such a w,
LEMMA TowerExists ==
    ASSUME Based, NEW a \in Seq(Int), NEW n \in Nat
    PROVE  \E w : Tower(a, n, w)
  <1> DEFINE step == [p \in (1..n) \X Int |-> Limb(a, p[1]) + BasePow * p[2]]
  <1>1. ASSUME NEW i \in 1..n, NEW x \in Int
        PROVE  /\ step[<<i, x>>] = Limb(a, i) + BasePow * x
               /\ step[<<i, x>>] \in Int
    <2>1. <<i, x>> \in (1..n) \X Int /\ Limb(a, i) \in Int BY LimbIsInt
    <2>2. step[<<i, x>>] = Limb(a, i) + BasePow * x BY <2>1
    <2> QED BY <2>1, <2>2 DEF Based
  <1> HIDE DEF step
  <1>2. Steps(step, Int, n) BY <1>1, Zenon DEF Steps
  <1>3. \E w : DownChain(w, 0, step, Int, n)
    <2>1. 0 \in Int OBVIOUS
    <2> QED BY <1>2, <2>1, DownRecursion, Zenon
  <1>4. PICK w : DownChain(w, 0, step, Int, n) BY <1>3
  <1>5. \A i \in 1..n : w[i + 1] \in Int BY <1>4 DEF DownChain
  <1>6. Tower(a, n, w) BY <1>1, <1>4, <1>5 DEF DownChain, Tower
  <1> QED BY <1>6

\* and it is what Worth() computes, however many zeros are taken along.
LEMMA WorthOfTower ==
    ASSUME Based, NEW a \in Seq(Int), NEW n \in Nat, n >= Len(a), NEW w, Tower(a, n, w)
    PROVE  Worth(a) = w[1]
  <1> DEFINE Is(g) == g = [i \in 1..(Len(a) + 1) |-> IF i > Len(a) THEN 0 ELSE a[i] + BasePow * g[i + 1]]
             v == CHOOSE g : Is(g)
  <1>1. Len(a) \in Nat /\ BasePow \in Nat BY DEF Based
  <1>2. PICK f : Tower(a, Len(a), f) BY TowerExists
  <1>3. Is(f)
    <2>1. \A i \in 1..Len(a) : f[i] = a[i] + BasePow * f[i + 1]
      BY <1>2, SMTT(60) DEF Tower, Limb
    <2>2. ASSUME NEW i \in 1..(Len(a) + 1)
          PROVE  f[i] = IF i > Len(a) THEN 0 ELSE a[i] + BasePow * f[i + 1]
      <3>1. f[Len(a) + 1] = 0 BY <1>2 DEF Tower
      <3>2. i = Len(a) + 1 \/ (i \in 1..Len(a) /\ ~(i > Len(a))) BY <1>1
      <3>3. Len(a) + 1 > Len(a) BY <1>1
      <3> QED BY <2>1, <3>1, <3>2, <3>3
    <2> QED BY <1>2, <2>2 DEF Tower
  <1>4. Is(v) BY <1>3
  <1>5. Worth(a) = v[1] BY DEF Worth
  <1> HIDE DEF v
  <1>6. /\ v[Len(a) + 1] = 0
        /\ \A i \in 1..Len(a) : v[i] = a[i] + BasePow * v[i + 1]
    <2>1. \A i \in 1..(Len(a) + 1) : v[i] = IF i > Len(a) THEN 0 ELSE a[i] + BasePow * v[i + 1]
      BY <1>4, Zenon
    <2>2. Len(a) + 1 \in 1..(Len(a) + 1) /\ Len(a) + 1 > Len(a) BY <1>1
    <2>3. \A i \in 1..Len(a) : i \in 1..(Len(a) + 1) /\ ~(i > Len(a)) BY <1>1
    <2> QED BY <2>1, <2>2, <2>3
  <1> DEFINE T == {i \in 1..(n + 1) : (i > Len(a) => w[i] = 0) /\ (i <= Len(a) + 1 => w[i] = v[i])}
  <1>7. n + 1 \in T
    BY <1>1, <1>6 DEF Tower
  <1>8. ASSUME NEW i \in 1..n, i + 1 \in T PROVE i \in T
    <2>1. w[i] = Limb(a, i) + BasePow * w[i + 1] BY DEF Tower
    <2>2. CASE i > Len(a)
      <3>1. Limb(a, i) = 0 /\ w[i + 1] = 0 BY <1>1, <1>8, <2>2 DEF Limb
      <3>2. w[i] = 0 BY <1>1, <2>1, <3>1
      <3>3. i <= Len(a) + 1 => i = Len(a) + 1 BY <1>1, <2>2
      <3> QED BY <1>6, <3>2, <3>3
    <2>3. CASE i <= Len(a)
      <3>1. Limb(a, i) = a[i] /\ w[i + 1] = v[i + 1] BY <1>1, <1>8, <2>3 DEF Limb
      <3>2. i \in 1..Len(a) BY <1>1, <2>3
      <3>3. w[i] = v[i] BY <1>6, <2>1, <3>1, <3>2
      <3> QED BY <1>1, <2>3, <3>3
    <2> QED BY <1>1, <2>2, <2>3
  <1> HIDE DEF T
  <1>9. 1 \in T BY <1>7, <1>8, DownInduction
  <1>10. 1 <= Len(a) + 1 BY <1>1
  <1> QED BY <1>5, <1>9, <1>10 DEF T

\* A number of limbs has one value, and an array its tower.
LEMMA WorthTower ==
    ASSUME Based, NEW a \in Seq(Int), NEW n \in Nat, n >= Len(a)
    PROVE  \E w : Tower(a, n, w) /\ w[1] = Worth(a)
  <1>1. PICK w : Tower(a, n, w) BY TowerExists
  <1>2. Worth(a) = w[1] BY <1>1, WorthOfTower
  <1> QED BY <1>1, <1>2

\* What an array of integers stands for.
LEMMA WorthIsInt ==
    ASSUME Based, NEW a \in Seq(Int)
    PROVE  Worth(a) \in Int
  <1>1. PICK w : Tower(a, Len(a), w) /\ w[1] = Worth(a) BY WorthTower
  <1> QED BY <1>1 DEF Tower
-----------------------------------------------------------------------------
(* Carrying                                                                *)

\* What is divided is made up of the quotient and what is left over.
LEMMA Quotients ==
    \A y \in Int : \A d \in Nat \ {0} : /\ y % d \in 0..(d - 1)
                                       /\ y \div d \in Int
                                       /\ y = d * (y \div d) + (y % d)
  OBVIOUS

\* A limb and what is carried make up what there was.
LEMMA Divided ==
    ASSUME Based
    PROVE  \A y \in Int : /\ y % BasePow \in Digit
                          /\ y \div BasePow \in Int
                          /\ y = BasePow * (y \div BasePow) + (y % BasePow)
  BY Quotients DEF Based, Digit

\* Bounds of a quotient.
LEMMA QuotientBounds ==
    ASSUME NEW b \in Nat \ {0}, NEW y \in Int, NEW lo \in Int, NEW hi \in Int,
           b * lo <= y, y < b * (hi + 1)
    PROVE  y \div b \in lo..hi
  <1> DEFINE q == y \div b  r == y % b
  <1>1. b \in Nat /\ b > 0 /\ q \in Int /\ r \in 0..(b - 1) /\ y = b * q + r
    BY Quotients
  <1>2. b * lo <= y /\ y < b * (hi + 1) OBVIOUS
  <1> HIDE DEF q, r
  <1>3. \A k, l, m, x \in Int : k > 0 /\ x < k /\ k * l <= k * m + x => l <= m
    <2> SUFFICES ASSUME NEW k \in Int, NEW l \in Int, NEW m \in Int, NEW x \in Int,
                        k > 0, x < k, k * l <= k * m + x, l >= m + 1
                 PROVE  FALSE
      OBVIOUS
    <2>1. k * l >= k * m + k OBVIOUS
    <2> QED BY <2>1
  <1>4. lo <= q BY <1>1, <1>2, <1>3
  <1>5. \A k, l, m, x \in Int : k > 0 /\ x >= 0 /\ k * l + x < k * (m + 1) => l <= m
    <2> SUFFICES ASSUME NEW k \in Int, NEW l \in Int, NEW m \in Int, NEW x \in Int,
                        k > 0, x >= 0, k * l + x < k * (m + 1), l >= m + 1
                 PROVE  FALSE
      OBVIOUS
    <2>1. k * l >= k * (m + 1) OBVIOUS
    <2> QED BY <2>1
  <1>6. q <= hi BY <1>1, <1>2, <1>5
  <1> QED BY <1>1, <1>4, <1>6 DEF q

\* Bounds of what is carried.
LEMMA Bounds ==
    ASSUME Based, NEW y \in Int, NEW lo \in Int, NEW hi \in Int,
           BasePow * lo <= y, y < BasePow * (hi + 1)
    PROVE  y \div BasePow \in lo..hi
  BY QuotientBounds DEF Based

\* What is carried stands for as much in the next limb.
LEMMA CarryOn ==
    \A b, y, q, r, v \in Int : y = b * q + r => r + b * (v + q) = y + b * v
  OBVIOUS

\* The carries, one after the other.
LEMMA CarriesAre ==
    ASSUME Based, NEW a \in Seq(Int)
    PROVE  /\ Carries(a) \in [0..Len(a) -> Int]
           /\ Carries(a)[0] = 0
           /\ \A i \in 1..Len(a) : Carries(a)[i] = (a[i] + Carries(a)[i - 1]) \div BasePow
  <1> DEFINE Is(g) == g = [i \in 0..Len(a) |-> IF i = 0 THEN 0 ELSE (a[i] + g[i - 1]) \div BasePow]
             c == CHOOSE g : Is(g)
             step == [p \in (1..Len(a)) \X Int |-> (a[p[1]] + p[2]) \div BasePow]
  <1>1. ASSUME NEW i \in 1..Len(a), NEW x \in Int
        PROVE  step[<<i, x>>] = (a[i] + x) \div BasePow /\ step[<<i, x>>] \in Int
    <2>1. <<i, x>> \in (1..Len(a)) \X Int /\ a[i] + x \in Int OBVIOUS
    <2>2. step[<<i, x>>] = (a[i] + x) \div BasePow BY <2>1
    <2> QED BY <2>1, <2>2, Divided
  <1> HIDE DEF step
  <1>2. Len(a) \in Nat /\ 0 \in Int OBVIOUS
  <1>3. Steps(step, Int, Len(a)) BY <1>1, Zenon DEF Steps
  <1>4. \E f : Chain(f, 0, step, Int, Len(a)) BY <1>2, <1>3, Recursion, Zenon
  <1>5. PICK f : Chain(f, 0, step, Int, Len(a)) BY <1>4
  <1>6. Is(f)
    <2>1. \A i \in 1..Len(a) : f[i] = (a[i] + f[i - 1]) \div BasePow
      <3> TAKE i \in 1..Len(a)
      <3>1. f[i - 1] \in Int BY <1>5 DEF Chain
      <3> QED BY <1>1, <1>5, <3>1 DEF Chain
    <2>2. ASSUME NEW i \in 0..Len(a)
          PROVE  f[i] = IF i = 0 THEN 0 ELSE (a[i] + f[i - 1]) \div BasePow
      <3>1. i = 0 \/ i \in 1..Len(a) OBVIOUS
      <3>2. f[0] = 0 BY <1>5 DEF Chain
      <3> QED BY <2>1, <3>1, <3>2
    <2> QED BY <1>5, <2>2 DEF Chain
  <1>7. Is(c) BY <1>6
  <1>8. Carries(a) = c BY DEF Carries
  <1> HIDE DEF c
  <1>9. /\ c = [i \in 0..Len(a) |-> c[i]]
        /\ c[0] = 0
        /\ \A i \in 1..Len(a) : c[i] = (a[i] + c[i - 1]) \div BasePow
    <2>1. \A i \in 0..Len(a) : c[i] = IF i = 0 THEN 0 ELSE (a[i] + c[i - 1]) \div BasePow
      BY <1>7, Zenon
    <2>2. 0 \in 0..Len(a) /\ \A i \in 1..Len(a) : i \in 0..Len(a) /\ i # 0 OBVIOUS
    <2>3. DOMAIN c = 0..Len(a) /\ c = [i \in DOMAIN c |-> c[i]] BY <1>7
    <2> QED BY <2>1, <2>2, <2>3
  <1> DEFINE T == {i \in 0..Len(a) : c[i] \in Int}
  <1>10. 0 \in T BY <1>9
  <1>11. ASSUME NEW i \in 0..(Len(a) - 1), i \in T PROVE i + 1 \in T
    <2> DEFINE k == i + 1
    <2>1. k \in 1..Len(a) /\ k \in 0..Len(a) /\ k - 1 = i /\ c[i] \in Int BY <1>11
    <2> HIDE DEF k
    <2>2. c[k] = (a[k] + c[i]) \div BasePow BY <1>9, <2>1
    <2>3. a[k] + c[i] \in Int BY <2>1
    <2>4. c[k] \in Int BY <2>2, <2>3, Divided
    <2>5. k \in T BY <2>1, <2>4
    <2> QED BY <2>5 DEF k
  <1> HIDE DEF T
  <1>12. \A i \in 0..Len(a) : i \in T BY <1>2, <1>10, <1>11, Induction
  <1>13. c \in [0..Len(a) -> Int] BY <1>9, <1>12 DEF T
  <1> QED BY <1>8, <1>9, <1>13

\* Carrying changes the limbs, not what they stand for; the last carry is a
\* limb of its own.
LEMMA CarriedIs ==
    ASSUME Based, NEW a \in Seq(Int)
    PROVE  /\ Carried(a) \in Seq(Int)
           /\ Len(Carried(a)) = Len(a) + (IF Carries(a)[Len(a)] = 0 THEN 0 ELSE 1)
           /\ \A i \in 1..Len(a) : Carried(a)[i] \in Digit
           /\ \A i \in 1..Len(a) : Carried(a)[i] = (a[i] + Carries(a)[i - 1]) % BasePow
           /\ Limb(Carried(a), Len(a) + 1) = Carries(a)[Len(a)]
           /\ Worth(Carried(a)) = Worth(a)
  <1> DEFINE c == Carries(a)
             n == Len(a)
             limbs == [i \in 1..n |-> (a[i] + c[i - 1]) % BasePow]
             r == Carried(a)
  <1>1. /\ c \in [0..n -> Int] /\ c[0] = 0 /\ n \in Nat
        /\ \A i \in 1..n : c[i] = (a[i] + c[i - 1]) \div BasePow
    BY CarriesAre
  <1>2. r = IF c[n] = 0 THEN limbs ELSE Append(limbs, c[n]) BY DEF Carried
  <1>3. \A i \in 1..n : /\ a[i] + c[i - 1] \in Int
                        /\ limbs[i] = (a[i] + c[i - 1]) % BasePow
                        /\ limbs[i] \in Digit
    <2> TAKE i \in 1..n
    <2>1. i - 1 \in 0..n /\ a[i] \in Int BY <1>1
    <2>2. limbs[i] = (a[i] + c[i - 1]) % BasePow BY <1>1
    <2> HIDE DEF limbs, c, n
    <2>3. c[i - 1] \in Int BY <1>1, <2>1
    <2>4. a[i] + c[i - 1] \in Int BY <2>1, <2>3
    <2> QED BY <2>2, <2>4, Divided
  <1>4. limbs \in Seq(Int) /\ Len(limbs) = n
    <2>1. \A i \in 1..n : limbs[i] \in Int BY <1>3 DEF Digit
    <2> QED BY <1>1, <2>1
  <1>5. c[n] \in Int BY <1>1
  <1> HIDE DEF limbs, c, n, r
  <1>6. /\ r \in Seq(Int)
        /\ Len(r) = n + (IF c[n] = 0 THEN 0 ELSE 1)
        /\ \A i \in 1..n : r[i] = limbs[i]
        /\ c[n] # 0 => r[n + 1] = c[n]
    BY <1>1, <1>2, <1>4, <1>5
  <1>7. /\ \A i \in 1..n : Limb(r, i) = limbs[i]
        /\ Limb(r, n + 1) = c[n]
    <2>1. \A i \in 1..n : i \in DOMAIN r BY <1>1, <1>6
    <2>2. c[n] # 0 => n + 1 \in DOMAIN r BY <1>1, <1>6
    <2>3. c[n] = 0 => n + 1 \notin DOMAIN r BY <1>1, <1>6
    <2> QED BY <1>6, <2>1, <2>2, <2>3 DEF Limb
  <1>8. Worth(r) = Worth(a)
    <2>1. PICK w : Tower(r, n + 1, w) /\ w[1] = Worth(r)
      <3>1. n + 1 \in Nat /\ n + 1 >= Len(r) BY <1>1, <1>6
      <3> QED BY <1>6, <3>1, WorthTower
    <2>2. PICK v : Tower(a, n, v) /\ v[1] = Worth(a) BY <1>1, WorthTower DEF n
    <2>3. /\ \A i \in 1..(n + 2) : w[i] \in Int
          /\ w[n + 2] = 0
          /\ \A i \in 1..(n + 1) : w[i] = Limb(r, i) + BasePow * w[i + 1]
      <3>1. n + 1 + 1 = n + 2 BY <1>1
      <3> QED BY <2>1, <3>1 DEF Tower
    <2>4. /\ \A i \in 1..(n + 1) : v[i] \in Int
          /\ v[n + 1] = 0
          /\ \A i \in 1..n : v[i] = a[i] + BasePow * v[i + 1]
      BY <2>2, SMTT(60) DEF Tower, Limb, n
    <2> DEFINE T == {i \in 1..(n + 1) : w[i] = v[i] + c[i - 1]}
    <2>5. n + 1 \in T
      <3>1. PICK k : k = n + 1 OBVIOUS
      <3>2. k \in 1..(n + 1) /\ k + 1 = n + 2 /\ k - 1 = n BY <1>1, <3>1
      <3>3. w[k] = c[n] + BasePow * 0 BY <1>7, <2>3, <3>1, <3>2
      <3>4. w[k] = c[n] /\ v[k] = 0 BY <1>5, <2>4, <3>1, <3>3 DEF Based
      <3>5. k \in T BY <1>5, <3>2, <3>4
      <3> QED BY <3>1, <3>5
    <2>6. ASSUME NEW i \in 1..n, i + 1 \in T PROVE i \in T
      <3>1. i \in 1..(n + 1) /\ i + 1 \in 1..(n + 1) /\ i + 1 - 1 = i /\ i \in 0..n /\ i - 1 \in 0..n BY <1>1
      <3> DEFINE y == a[i] + c[i - 1]
      <3>2. y \in Int /\ c[i] = y \div BasePow /\ Limb(r, i) = y % BasePow BY <1>1, <1>3, <1>7
      <3>3. w[i + 1] = v[i + 1] + c[i] BY <2>6, <3>1
      <3>4. y = BasePow * c[i] + Limb(r, i) BY <3>2, Divided
      <3>5. w[i] = Limb(r, i) + BasePow * (v[i + 1] + c[i]) BY <2>3, <3>1, <3>3
      <3>6. v[i] = a[i] + BasePow * v[i + 1] BY <2>4
      <3>7. /\ Limb(r, i) \in Int /\ c[i] \in Int /\ c[i - 1] \in Int /\ v[i + 1] \in Int /\ a[i] \in Int
        <4>1. i \in Nat /\ c[i] \in Int /\ c[i - 1] \in Int /\ v[i + 1] \in Int BY <1>1, <2>4, <3>1
        <4>2. Limb(r, i) \in Int BY <1>6, <4>1, LimbIsInt
        <4>3. a[i] \in Int BY <1>1 DEF n
        <4> QED BY <4>1, <4>2, <4>3
      <3> HIDE DEF y
      <3>8. w[i] = y + BasePow * v[i + 1]
        <4> DEFINE b == BasePow  q == c[i]  l == Limb(r, i)  u == v[i + 1]
        <4>1. b \in Int /\ q \in Int /\ l \in Int /\ u \in Int /\ y \in Int BY <3>2, <3>7 DEF Based
        <4>2. y = b * q + l /\ w[i] = l + b * (u + q) BY <3>4, <3>5
        <4> HIDE DEF b, q, l, u
        <4>3. w[i] = y + b * u BY <4>1, <4>2, CarryOn
        <4> QED BY <4>3 DEF b, u
      <3>9. y = a[i] + c[i - 1] BY DEF y
      <3>10. BasePow * v[i + 1] \in Int BY <3>7 DEF Based
      <3>11. w[i] = v[i] + c[i - 1] BY <3>6, <3>7, <3>8, <3>9, <3>10
      <3> QED BY <3>1, <3>11
    <2> HIDE DEF T
    <2>7. \A i \in 1..(n + 1) : i \in T BY <1>1, <2>5, <2>6, DownInduction
    <2>8. w[1] = v[1] + c[0]
      <3>1. 1 \in 1..(n + 1) /\ 1 - 1 = 0 BY <1>1
      <3> QED BY <2>7, <3>1 DEF T
    <2> QED BY <1>1, <2>1, <2>2, <2>4, <2>8
  <1> QED BY <1>3, <1>6, <1>7, <1>8 DEF c, n, r
-----------------------------------------------------------------------------
(* Sums of arrays, limb by limb                                            *)

\* Products over sums, for what the provers leave alone.
LEMMA Distributes ==
    \A p, q, x, y, u, v, b \in Int :
        p * x + q * y + b * (p * u + q * v) = p * (x + b * u) + q * (y + b * v)
  OBVIOUS

\* What limbs stand for is linear in them.
LEMMA Linear ==
    ASSUME Based, NEW a \in Seq(Int), NEW b \in Seq(Int), NEW c \in Seq(Int),
           NEW p \in Int, NEW q \in Int, NEW n \in Nat,
           n >= Len(a), n >= Len(b), n >= Len(c),
           \A i \in 1..n : Limb(c, i) = p * Limb(a, i) + q * Limb(b, i)
    PROVE  Worth(c) = p * Worth(a) + q * Worth(b)
  <1>1. PICK u : Tower(a, n, u) /\ u[1] = Worth(a) BY WorthTower
  <1>2. PICK v : Tower(b, n, v) /\ v[1] = Worth(b) BY WorthTower
  <1>3. PICK w : Tower(c, n, w) /\ w[1] = Worth(c) BY WorthTower
  <1> DEFINE T == {i \in 1..(n + 1) : w[i] = p * u[i] + q * v[i]}
  <1>4. n + 1 \in T
    <2>1. u[n + 1] = 0 /\ v[n + 1] = 0 /\ w[n + 1] = 0 BY <1>1, <1>2, <1>3 DEF Tower
    <2> QED BY <2>1
  <1>5. ASSUME NEW i \in 1..n, i + 1 \in T PROVE i \in T
    <2> DEFINE x == Limb(a, i)  y == Limb(b, i)  s == u[i + 1]  t == v[i + 1]  e == BasePow
    <2>1. i \in 1..(n + 1) /\ i + 1 \in 1..(n + 1) /\ i \in Nat OBVIOUS
    <2>2. /\ x \in Int /\ y \in Int /\ s \in Int /\ t \in Int /\ e \in Int
      <3>1. x \in Int /\ y \in Int BY <2>1, LimbIsInt
      <3>2. s \in Int /\ t \in Int BY <1>1, <1>2, <2>1 DEF Tower
      <3>3. e \in Int BY DEF Based
      <3> QED BY <3>1, <3>2, <3>3
    <2>3. u[i] = x + e * s /\ v[i] = y + e * t BY <1>1, <1>2 DEF Tower
    <2>4. w[i + 1] = p * s + q * t BY <1>5
    <2>5. w[i] = p * x + q * y + e * (p * s + q * t) BY <1>3, <2>4 DEF Tower
    <2> HIDE DEF x, y, s, t, e
    <2>6. w[i] = p * (x + e * s) + q * (y + e * t) BY <2>2, <2>5, Distributes
    <2> QED BY <2>1, <2>3, <2>6
  <1> HIDE DEF T
  <1>6. \A i \in 1..(n + 1) : i \in T BY <1>4, <1>5, DownInduction
  <1>7. 1 \in T BY <1>6
  <1> QED BY <1>1, <1>2, <1>3, <1>7 DEF T

\* The longer of two.
LEMMA BiggerIs ==
    \A m, n \in Nat : Bigger(m, n) \in Nat /\ Bigger(m, n) >= m /\ Bigger(m, n) >= n
                      /\ (Bigger(m, n) = m \/ Bigger(m, n) = n)
  BY DEF Bigger

\* A function over an interval is an array.
LEMMA ArrayOf ==
    ASSUME NEW S, NEW n \in Nat, NEW a \in [1..n -> S]
    PROVE  a \in Seq(S) /\ Len(a) = n /\ \A i \in 1..n : Limb(a, i) = a[i]
  BY DEF Limb

\* A last carry that is a limb leaves nothing but limbs.
LEMMA CarriedDigits ==
    ASSUME Based, NEW a \in Seq(Int), Carries(a)[Len(a)] \in Digit
    PROVE  Carried(a) \in Seq(Digit)
  <1> DEFINE r == Carried(a)  n == Len(a)
  <1>1. /\ r \in Seq(Int) /\ n \in Nat
        /\ Len(r) = n + (IF Carries(a)[n] = 0 THEN 0 ELSE 1)
        /\ \A i \in 1..n : r[i] \in Digit
        /\ Limb(r, n + 1) = Carries(a)[n]
    BY CarriedIs
  <1>2. Limb(r, n + 1) \in Digit BY <1>1
  <1> HIDE DEF r, n
  <1>3. \A i \in 1..Len(r) : r[i] \in Digit
    <2> TAKE i \in 1..Len(r)
    <2>1. i \in 1..n \/ i = n + 1 BY <1>1
    <2>2. i = n + 1 => Limb(r, n + 1) = r[i] BY <1>1 DEF Limb
    <2> QED BY <1>1, <1>2, <2>1, <2>2
  <1>4. r \in Seq(Digit) BY <1>1, <1>3
  <1> QED BY <1>4 DEF r

\* Limbs are integers.
LEMMA DigitIsInt ==
    ASSUME Based, NEW a \in Seq(Digit)
    PROVE  /\ a \in Seq(Int)
           /\ \A i \in Nat : Limb(a, i) \in Digit
           /\ \A i \in Nat : i > Len(a) => Limb(a, i) = 0
  BY DEF Based, Digit, Limb

\* A carry stays between two bounds that a limb and a carry between them lead to.
LEMMA CarriesStay ==
    ASSUME Based, NEW a \in Seq(Int), NEW S \in SUBSET Int, 0 \in S,
           \A i \in 1..Len(a) : \A x \in S : (a[i] + x) \div BasePow \in S
    PROVE  \A i \in 0..Len(a) : Carries(a)[i] \in S
  <1> DEFINE c == Carries(a)
             T == {i \in 0..Len(a) : c[i] \in S}
  <1>1. /\ c[0] = 0 /\ Len(a) \in Nat
        /\ \A i \in 1..Len(a) : c[i] = (a[i] + c[i - 1]) \div BasePow
    BY CarriesAre
  <1> HIDE DEF c
  <1>2. 0 \in T BY <1>1
  <1>3. ASSUME NEW i \in 0..(Len(a) - 1), i \in T PROVE i + 1 \in T
    <2>1. PICK k : k = i + 1 OBVIOUS
    <2>2. k \in 1..Len(a) /\ k \in 0..Len(a) /\ k - 1 = i /\ c[i] \in S BY <1>1, <1>3, <2>1
    <2>3. c[k] = (a[k] + c[i]) \div BasePow BY <1>1, <2>2
    <2>4. c[k] \in S BY <2>2, <2>3
    <2> QED BY <2>1, <2>2, <2>4
  <1> HIDE DEF T
  <1>4. \A i \in 0..Len(a) : i \in T BY <1>1, <1>2, <1>3, Induction
  <1> QED BY <1>4 DEF T, c

-----------------------------------------------------------------------------
(* Addition, subtraction and multiplication of arrays                      *)

\* bc_num_addArrays(): the sum of two arrays of limbs stands for the sum of what
\* they stand for, and is limbs again, with one more when the last carry needs it.
THEOREM Sums ==
    ASSUME Based, NEW a \in Seq(Digit), NEW b \in Seq(Digit)
    PROVE  /\ Worth(AddArrays(a, b)) = Worth(a) + Worth(b)
           /\ AddArrays(a, b) \in Seq(Digit)
           /\ Len(AddArrays(a, b)) >= Bigger(Len(a), Len(b))
  <1> DEFINE n == Bigger(Len(a), Len(b))
             s == [i \in 1..n |-> Limb(a, i) + Limb(b, i)]
  <1>1. n \in Nat /\ n >= Len(a) /\ n >= Len(b) BY BiggerIs
  <1>2. \A i \in Nat : Limb(a, i) \in Digit /\ Limb(b, i) \in Digit BY DigitIsInt
  <1>3. a \in Seq(Int) /\ b \in Seq(Int) BY DigitIsInt
  <1> HIDE DEF n
  <1>4. \A i \in 1..n : s[i] \in 0..(BasePow + BasePow - 2) /\ s[i] = Limb(a, i) + Limb(b, i)
    <2> TAKE i \in 1..n
    <2>1. s[i] = Limb(a, i) + Limb(b, i) OBVIOUS
    <2>2. Limb(a, i) \in Digit /\ Limb(b, i) \in Digit BY <1>1, <1>2
    <2> HIDE DEF s
    <2> QED BY <2>1, <2>2 DEF Digit, Based
  <1>5. s \in [1..n -> Int] BY <1>4
  <1> HIDE DEF s
  <1>6. s \in Seq(Int) /\ Len(s) = n /\ \A i \in 1..n : Limb(s, i) = s[i] BY <1>1, <1>5, ArrayOf
  <1>7. AddArrays(a, b) = Carried(s) BY DEF AddArrays, s, n
  <1>8. Worth(s) = Worth(a) + Worth(b)
    <2>1. \A i \in 1..n : Limb(s, i) = 1 * Limb(a, i) + 1 * Limb(b, i)
      BY <1>1, <1>2, <1>4, <1>6 DEF Digit, Based
    <2>2. Worth(s) = 1 * Worth(a) + 1 * Worth(b) BY <1>1, <1>3, <1>6, <2>1, Linear
    <2> QED BY <1>3, <2>2, WorthIsInt
  <1>9. Carries(s)[Len(s)] \in 0..1
    <2>1. ASSUME NEW i \in 1..Len(s), NEW x \in 0..1 PROVE (s[i] + x) \div BasePow \in 0..1
      <3>1. s[i] \in 0..(BasePow + BasePow - 2) BY <1>4, <1>6
      <3> DEFINE y == s[i] + x
      <3>2. y \in Int /\ BasePow * 0 <= y /\ y < BasePow * (1 + 1) /\ 0 \in Int /\ 1 \in Int
        BY <3>1 DEF Based
      <3> HIDE DEF y
      <3>3. y \div BasePow \in 0..1 BY <3>2, Bounds, Zenon
      <3> QED BY <3>3 DEF y
    <2>2. 0 \in 0..1 /\ 0..1 \in SUBSET Int OBVIOUS
    <2>3. \A i \in 0..Len(s) : Carries(s)[i] \in 0..1 BY <1>6, <2>1, <2>2, CarriesStay
    <2> QED BY <1>1, <1>6, <2>3
  <1>10. Carries(s)[Len(s)] \in Digit BY <1>9 DEF Digit, Based
  <1> QED BY <1>1, <1>6, <1>7, <1>8, <1>10, CarriedIs, CarriedDigits DEF n

\* MulArray, the loop of bc_num_m() for a limb: the product of an array and a
\* limb stands for the product, and is limbs again.
THEOREM Multiples ==
    ASSUME Based, NEW a \in Seq(Digit), NEW d \in Digit
    PROVE  /\ Worth(MulArray(a, d)) = Worth(a) * d
           /\ MulArray(a, d) \in Seq(Digit)
           /\ Len(MulArray(a, d)) \in {Len(a), Len(a) + 1}
  <1> DEFINE n == Len(a)
             s == [i \in 1..n |-> a[i] * d]
  <1>1. n \in Nat /\ a \in Seq(Int) /\ d \in Int /\ d \in Nat BY DigitIsInt DEF Digit, Based
  <1>2. \A i \in 1..n : Limb(a, i) = a[i] /\ a[i] \in Digit /\ s[i] = a[i] * d BY DEF Limb
  <1>3. \A x, y \in Int : x * y \in Int OBVIOUS
  <1>4. s \in [1..n -> Int] BY <1>1, <1>2, <1>3 DEF Digit, Based
  <1> HIDE DEF s
  <1>5. s \in Seq(Int) /\ Len(s) = n /\ \A i \in 1..n : Limb(s, i) = s[i] BY <1>1, <1>4, ArrayOf
  <1>6. MulArray(a, d) = Carried(s) BY DEF MulArray, s, n
  <1>7. Worth(s) = Worth(a) * d
    <2>1. ASSUME NEW i \in 1..n PROVE Limb(s, i) = d * Limb(a, i) + 0 * Limb(a, i)
      <3> DEFINE x == a[i]
      <3>1. Limb(s, i) = x * d /\ Limb(a, i) = x /\ x \in Digit BY <1>2, <1>5, Zenon
      <3> HIDE DEF x
      <3>2. x \in Int BY <3>1 DEF Digit, Based
      <3> QED BY <1>1, <3>1, <3>2
    <2>2. Worth(s) = d * Worth(a) + 0 * Worth(a) BY <1>1, <1>5, <2>1, Linear
    <2> DEFINE x == Worth(a)
    <2>3. x \in Int BY <1>1, WorthIsInt
    <2> HIDE DEF x
    <2> QED BY <1>1, <2>2, <2>3 DEF x
  <1>8. \A i \in 1..Len(s) : \A x \in Digit : (s[i] + x) \div BasePow \in Digit
    <2> TAKE i \in 1..Len(s)
    <2> TAKE x \in Digit
    <2> DEFINE y == a[i]  b == BasePow
    <2>1. y \in 0..(b - 1) /\ d \in 0..(b - 1) /\ x \in 0..(b - 1) /\ s[i] = y * d /\ b \in Nat /\ b > 1
      BY <1>2, <1>5 DEF Digit, Based
    <2>2. y * d \in Int BY <1>3, <2>1
    <2>3. y * d + x \in Int BY <2>1, <2>2
    <2> HIDE DEF y
    <2>4. y * d <= (b - 1) * (b - 1) /\ y * d >= 0
      <3>1. \A k, l, m \in Nat : k <= m /\ l <= m => k * l <= m * m /\ k * l >= 0 OBVIOUS
      <3>2. y \in Nat /\ d \in Nat /\ b - 1 \in Nat /\ y <= b - 1 /\ d <= b - 1 BY <2>1
      <3> QED BY <3>1, <3>2
    <2>5. y * d + x < b * b
      <3>1. (b - 1) * (b - 1) + (b - 1) < b * b BY <2>1
      <3>2. (b - 1) * (b - 1) \in Int /\ b * b \in Int BY <1>3, <2>1
      <3> QED BY <2>1, <2>2, <2>4, <3>1, <3>2
    <2>6. b * 0 <= s[i] + x /\ s[i] + x < b * (b - 1 + 1) /\ s[i] + x \in Int
      BY <2>1, <2>3, <2>4, <2>5
    <2> HIDE DEF b
    <2>7. (s[i] + x) \div BasePow \in 0..(b - 1)
      <3> DEFINE z == s[i] + x
      <3>1. z \in Int /\ 0 \in Int /\ b - 1 \in Int /\ BasePow * 0 <= z /\ z < BasePow * (b - 1 + 1)
        BY <2>1, <2>6 DEF b
      <3> HIDE DEF z
      <3>2. z \div BasePow \in 0..(b - 1) BY <3>1, Bounds
      <3> QED BY <3>2 DEF z
    <2> QED BY <2>7 DEF Digit, b
  <1>9. Carries(s)[Len(s)] \in Digit
    <2>1. 0 \in Digit /\ Digit \in SUBSET Int BY DEF Digit, Based
    <2>2. \A i \in 0..Len(s) : Carries(s)[i] \in Digit BY <1>5, <1>8, <2>1, CarriesStay
    <2> QED BY <1>1, <1>5, <2>2
  <1> QED BY <1>5, <1>6, <1>7, <1>9, CarriedIs, CarriedDigits

-----------------------------------------------------------------------------
(* Comparison                                                              *)

\* The topmost limb that is not zero decides over the sign: what the lower ones
\* can take away is less than it stands for.
LEMMA Positive ==
    ASSUME Based, NEW c \in Seq(Int), NEW n \in Nat, n >= Len(c), NEW k \in 1..n,
           \A i \in 1..n : Limb(c, i) >= -(BasePow - 1),
           Limb(c, k) >= 1,
           \A i \in 1..n : i > k => Limb(c, i) = 0
    PROVE  Worth(c) >= 1
  <1>1. PICK w : Tower(c, n, w) /\ w[1] = Worth(c) BY WorthTower
  <1> DEFINE T == {i \in 1..(n + 1) : IF i > k THEN w[i] = 0 ELSE w[i] >= 1}
  <1>2. n + 1 \in T BY <1>1 DEF Tower
  <1>3. ASSUME NEW i \in 1..n, i + 1 \in T PROVE i \in T
    <2> DEFINE x == Limb(c, i)  v == w[i + 1]  b == BasePow
    <2>1. /\ i \in 1..(n + 1) /\ i + 1 \in 1..(n + 1) /\ i \in Nat
          /\ x \in Int /\ v \in Int /\ b \in Nat /\ b > 1
      <3>1. i \in 1..(n + 1) /\ i + 1 \in 1..(n + 1) /\ i \in Nat OBVIOUS
      <3>2. x \in Int BY <3>1, LimbIsInt
      <3>3. v \in Int BY <1>1, <3>1 DEF Tower
      <3> QED BY <3>1, <3>2, <3>3 DEF Based
    <2>2. w[i] = x + b * v BY <1>1 DEF Tower
    <2>3. IF i + 1 > k THEN v = 0 ELSE v >= 1 BY <1>3
    <2>4. /\ x >= -(b - 1)
          /\ i = k => x >= 1
          /\ i > k => x = 0
      OBVIOUS
    <2> HIDE DEF x, v, b
    <2>5. CASE i > k BY <2>1, <2>2, <2>3, <2>4, <2>5
    <2>6. CASE i = k BY <2>1, <2>2, <2>3, <2>4, <2>6
    <2>7. CASE i < k
      <3>1. v >= 1 BY <2>1, <2>3, <2>7
      <3>2. b * v >= b BY <2>1, <3>1
      <3>3. b * v \in Int BY <2>1
      <3>4. w[i] >= 1 BY <2>1, <2>2, <2>4, <3>2, <3>3
      <3> QED BY <2>1, <2>7, <3>4
    <2> QED BY <2>5, <2>6, <2>7
  <1> HIDE DEF T
  <1>4. \A i \in 1..(n + 1) : i \in T BY <1>2, <1>3, DownInduction
  <1>5. 1 \in T /\ ~(1 > k) BY <1>4
  <1> QED BY <1>1, <1>5 DEF T

\* Of two arrays the topmost difference decides.
LEMMA TopDecides ==
    ASSUME Based, NEW a \in Seq(Digit), NEW b \in Seq(Digit), NEW n \in Nat,
           n >= Len(a), n >= Len(b), NEW k \in 1..n,
           Limb(a, k) < Limb(b, k),
           \A i \in 1..n : i > k => Limb(a, i) = Limb(b, i)
    PROVE  Worth(a) < Worth(b)
  <1> DEFINE c == [i \in 1..n |-> Limb(b, i) - Limb(a, i)]
  <1>1. \A i \in 1..n : Limb(a, i) \in Digit /\ Limb(b, i) \in Digit
    BY DigitIsInt
  <1>2. \A i \in 1..n : c[i] = Limb(b, i) - Limb(a, i) OBVIOUS
  <1>3. c \in [1..n -> Int] BY <1>1 DEF Digit, Based
  <1> HIDE DEF c
  <1>4. c \in Seq(Int) /\ Len(c) = n /\ \A i \in 1..n : Limb(c, i) = c[i] BY <1>3, ArrayOf
  <1>5. a \in Seq(Int) /\ b \in Seq(Int) BY DigitIsInt
  <1>6. ASSUME NEW i \in 1..n
        PROVE  /\ Limb(c, i) = 1 * Limb(b, i) + (-1) * Limb(a, i)
               /\ Limb(c, i) >= -(BasePow - 1)
               /\ i = k => Limb(c, i) >= 1
               /\ i > k => Limb(c, i) = 0
    <2> DEFINE x == Limb(a, i)  y == Limb(b, i)  z == Limb(c, i)
    <2>1. x \in 0..(BasePow - 1) /\ y \in 0..(BasePow - 1) BY <1>1 DEF Digit
    <2>2. z = y - x BY <1>2, <1>4
    <2>3. (i = k => x < y) /\ (i > k => x = y) OBVIOUS
    <2> HIDE DEF x, y, z
    <2>4. /\ z = 1 * y + (-1) * x
          /\ z >= -(BasePow - 1)
          /\ i = k => z >= 1
          /\ i > k => z = 0
      BY <2>1, <2>2, <2>3 DEF Based
    <2> QED BY <2>4 DEF x, y, z
  <1>7. Worth(c) = 1 * Worth(b) + (-1) * Worth(a)
    <2>1. 1 \in Int /\ -1 \in Int /\ n >= Len(c) BY <1>4
    <2> QED BY <1>4, <1>5, <1>6, <2>1, Linear, SMTT(60)
  <1>8. Worth(c) >= 1 BY <1>4, <1>6, Positive
  <1>9. Worth(a) \in Int /\ Worth(b) \in Int BY <1>5, WorthIsInt
  <1> QED BY <1>7, <1>8, <1>9

\* Limbs that are the same stand for the same, zeros above them or not.
LEMMA SameLimbs ==
    ASSUME Based, NEW a \in Seq(Digit), NEW b \in Seq(Digit),
           \A i \in Nat \ {0} : Limb(a, i) = Limb(b, i)
    PROVE  Worth(a) = Worth(b)
  <1> DEFINE n == Bigger(Len(a), Len(b))
  <1>1. n \in Nat /\ n >= Len(a) /\ n >= Len(b) BY BiggerIs
  <1>2. a \in Seq(Int) /\ b \in Seq(Int) BY DigitIsInt
  <1> HIDE DEF n
  <1>3. \A i \in 1..n : Limb(a, i) = 1 * Limb(b, i) + 0 * Limb(b, i)
    <2> TAKE i \in 1..n
    <2>1. i \in Nat \ {0} BY <1>1
    <2>2. Limb(b, i) \in Int BY <1>2, <2>1, LimbIsInt
    <2> QED BY <2>1, <2>2
  <1>4. Worth(a) = 1 * Worth(b) + 0 * Worth(b) BY <1>1, <1>2, <1>3, Linear
  <1> QED BY <1>2, <1>4, WorthIsInt

\* The greatest of some numbers up to n.
LEMMA MaxIs ==
    ASSUME NEW n \in Nat, NEW S \in SUBSET (0..n), S # {}
    PROVE  Max(S) \in S /\ \A x \in S : x <= Max(S)
  <1> DEFINE Has(R) == \E x \in R : \A y \in R : x >= y
             T == {m \in 0..n : \A R \in SUBSET (0..m) : R # {} => Has(R)}
  <1>1. 0 \in T
    <2>1. ASSUME NEW R \in SUBSET (0..0), R # {} PROVE Has(R)
      <3>1. PICK x \in R : TRUE BY <2>1
      <3>2. \A y \in R : y = 0 OBVIOUS
      <3> QED BY <3>1, <3>2
    <2> QED BY <2>1
  <1>2. ASSUME NEW m \in 0..(n - 1), m \in T PROVE m + 1 \in T
    <2> SUFFICES ASSUME NEW R \in SUBSET (0..(m + 1)), R # {} PROVE Has(R) OBVIOUS
    <2>1. CASE m + 1 \in R BY <2>1
    <2>2. CASE m + 1 \notin R
      <3>1. R \in SUBSET (0..m) BY <2>2
      <3> QED BY <1>2, <3>1
    <2> QED BY <2>1, <2>2
  <1> HIDE DEF T
  <1>3. n \in T BY <1>1, <1>2, Induction
  <1>4. Has(S) BY <1>3 DEF T
  <1> QED BY <1>4 DEF Max

\* bc_num_compare() finds the topmost difference.
LEMMA TopDifference ==
    ASSUME Based, NEW a \in Seq(Digit), NEW b \in Seq(Digit), Len(a) = Len(b)
    PROVE  \/ /\ Compare(a, b) = 0
              /\ \A k \in 1..Len(a) : a[k] = b[k]
           \/ /\ Compare(a, b) = -1
              /\ \E i \in 1..Len(a) : a[i] < b[i] /\ \A k \in 1..Len(a) : k > i => a[k] = b[k]
           \/ /\ Compare(a, b) = 1
              /\ \E i \in 1..Len(a) : b[i] < a[i] /\ \A k \in 1..Len(a) : k > i => a[k] = b[k]
  <1> DEFINE n == Len(a)
             S == {0} \cup {k \in DOMAIN a : a[k] # b[k]}
             i == Max(S)
  <1>1. n \in Nat /\ DOMAIN a = 1..n /\ S \in SUBSET (0..n) /\ S # {} OBVIOUS
  <1>2. \A k \in 1..n : a[k] \in Int /\ b[k] \in Int BY DEF Digit, Based
  <1>3. Compare(a, b) = IF i = 0 THEN 0 ELSE IF a[i] < b[i] THEN -1 ELSE 1 BY DEF Compare
  <1> HIDE DEF i
  <1>4. i \in S /\ \A x \in S : x <= i BY <1>1, MaxIs DEF i
  <1>5. \A k \in 1..n : k > i => a[k] = b[k] BY <1>1, <1>4
  <1>6. i = 0 \/ (i \in 1..n /\ a[i] # b[i]) BY <1>4
  <1> HIDE DEF S
  <1>7. CASE i = 0 BY <1>1, <1>3, <1>5, <1>7
  <1>8. CASE i \in 1..n /\ a[i] # b[i]
    <2>1. a[i] < b[i] \/ b[i] < a[i] BY <1>2, <1>8
    <2>2. CASE a[i] < b[i] BY <1>1, <1>3, <1>5, <1>8, <2>2
    <2>3. CASE b[i] < a[i] BY <1>1, <1>2, <1>3, <1>5, <1>8, <2>3
    <2> QED BY <2>1, <2>2, <2>3
  <1> QED BY <1>6, <1>7, <1>8

\* The sign of the comparison of two arrays of one length is that of what they
\* stand for (bc_num_compare()).
THEOREM Comparison ==
    ASSUME Based, NEW a \in Seq(Digit), NEW b \in Seq(Digit), Len(a) = Len(b)
    PROVE  /\ Worth(a) < Worth(b) => Compare(a, b) = -1
           /\ Worth(a) = Worth(b) => Compare(a, b) = 0
           /\ Worth(a) > Worth(b) => Compare(a, b) = 1
  <1> DEFINE n == Len(a)
  <1>1. n \in Nat /\ n >= Len(a) /\ n >= Len(b) OBVIOUS
  <1>2. \A k \in 1..n : Limb(a, k) = a[k] /\ Limb(b, k) = b[k] BY DEF Limb
  <1>3. Worth(a) \in Int /\ Worth(b) \in Int BY DigitIsInt, WorthIsInt
  <1>4. CASE Compare(a, b) = 0 /\ \A k \in 1..n : a[k] = b[k]
    <2>1. \A k \in Nat \ {0} : Limb(a, k) = Limb(b, k)
      <3> TAKE k \in Nat \ {0}
      <3>1. k \in 1..n \/ k > n BY <1>1
      <3>2. k > n => Limb(a, k) = 0 /\ Limb(b, k) = 0 BY DigitIsInt
      <3> QED BY <1>2, <1>4, <3>1, <3>2
    <2>2. Worth(a) = Worth(b) BY <2>1, SameLimbs
    <2> QED BY <1>3, <1>4, <2>2
  <1>5. ASSUME Compare(a, b) = -1, NEW i \in 1..n, a[i] < b[i], \A k \in 1..n : k > i => a[k] = b[k]
        PROVE  Worth(a) < Worth(b)
    <2>1. Limb(a, i) < Limb(b, i) /\ \A k \in 1..n : k > i => Limb(a, k) = Limb(b, k)
      BY <1>2, <1>5
    <2> QED BY <1>1, <2>1, TopDecides
  <1>6. ASSUME Compare(a, b) = 1, NEW i \in 1..n, b[i] < a[i], \A k \in 1..n : k > i => a[k] = b[k]
        PROVE  Worth(b) < Worth(a)
    <2>1. Limb(b, i) < Limb(a, i) /\ \A k \in 1..n : k > i => Limb(b, k) = Limb(a, k)
      BY <1>2, <1>6
    <2> QED BY <1>1, <2>1, TopDecides
  <1> HIDE DEF n
  <1>7. \/ Compare(a, b) = 0 /\ Worth(a) = Worth(b)
        \/ Compare(a, b) = -1 /\ Worth(a) < Worth(b)
        \/ Compare(a, b) = 1 /\ Worth(b) < Worth(a)
    <2>1. CASE Compare(a, b) = 0 /\ \A k \in 1..n : a[k] = b[k] BY <1>3, <1>4, <2>1
    <2>2. CASE Compare(a, b) = -1 /\ \E i \in 1..n : a[i] < b[i] /\ \A k \in 1..n : k > i => a[k] = b[k]
      BY <1>5, <2>2
    <2>3. CASE Compare(a, b) = 1 /\ \E i \in 1..n : b[i] < a[i] /\ \A k \in 1..n : k > i => a[k] = b[k]
      BY <1>6, <2>3
    <2> QED BY <2>1, <2>2, <2>3, TopDifference DEF n
  <1> QED BY <1>3, <1>7

\* bc_num_subArrays(): the difference of two arrays stands for the difference of
\* what they stand for; when the first is not the smaller one nothing is borrowed
\* beyond the top, and the limbs are limbs.
THEOREM Differences ==
    ASSUME Based, NEW a \in Seq(Digit), NEW b \in Seq(Digit)
    PROVE  /\ Worth(SubArrays(a, b)) = Worth(a) - Worth(b)
           /\ Worth(a) >= Worth(b) => /\ SubArrays(a, b) \in Seq(Digit)
                                      /\ Len(SubArrays(a, b)) = Bigger(Len(a), Len(b))
  <1> DEFINE n == Bigger(Len(a), Len(b))
             s == [i \in 1..n |-> Limb(a, i) - Limb(b, i)]
             r == Carried(s)
             t == Carries(s)[n]
  <1>1. n \in Nat /\ n >= Len(a) /\ n >= Len(b) BY BiggerIs
  <1>2. \A i \in Nat : Limb(a, i) \in Digit /\ Limb(b, i) \in Digit BY DigitIsInt
  <1>3. a \in Seq(Int) /\ b \in Seq(Int) BY DigitIsInt
  <1>4. SubArrays(a, b) = r BY DEF SubArrays
  <1> HIDE DEF n
  <1>5. \A i \in 1..n : s[i] \in (-(BasePow - 1))..(BasePow - 1) /\ s[i] = Limb(a, i) - Limb(b, i)
    <2> TAKE i \in 1..n
    <2>1. s[i] = Limb(a, i) - Limb(b, i) OBVIOUS
    <2>2. Limb(a, i) \in Digit /\ Limb(b, i) \in Digit BY <1>1, <1>2
    <2> HIDE DEF s
    <2> QED BY <2>1, <2>2 DEF Digit, Based
  <1>6. s \in [1..n -> Int] BY <1>5
  <1> HIDE DEF s
  <1>7. s \in Seq(Int) /\ Len(s) = n /\ \A i \in 1..n : Limb(s, i) = s[i] BY <1>1, <1>6, ArrayOf
  <1>8. Worth(s) = Worth(a) - Worth(b)
    <2>1. ASSUME NEW i \in 1..n PROVE Limb(s, i) = 1 * Limb(a, i) + (-1) * Limb(b, i)
      <3>1. i \in Nat BY <1>1
      <3>2. Limb(a, i) \in Int /\ Limb(b, i) \in Int BY <1>3, <3>1, LimbIsInt
      <3> QED BY <1>5, <1>7, <3>2
    <2>2. Worth(s) = 1 * Worth(a) + (-1) * Worth(b) BY <1>1, <1>3, <1>7, <2>1, Linear
    <2>3. Worth(a) \in Int /\ Worth(b) \in Int BY <1>3, WorthIsInt
    <2> QED BY <2>2, <2>3
  <1>9. t \in (-1)..0
    <2>1. ASSUME NEW i \in 1..Len(s), NEW x \in (-1)..0 PROVE (s[i] + x) \div BasePow \in (-1)..0
      <3>1. s[i] \in (-(BasePow - 1))..(BasePow - 1) BY <1>5, <1>7
      <3> DEFINE y == s[i] + x
      <3>2. y \in Int /\ BasePow * (-1) <= y /\ y < BasePow * (0 + 1) /\ 0 \in Int /\ -1 \in Int
        BY <3>1 DEF Based
      <3> HIDE DEF y
      <3>3. y \div BasePow \in (-1)..0 BY <3>2, Bounds, Zenon
      <3> QED BY <3>3 DEF y
    <2>2. 0 \in (-1)..0 /\ (-1)..0 \in SUBSET Int OBVIOUS
    <2>3. \A i \in 0..Len(s) : Carries(s)[i] \in (-1)..0 BY <1>7, <2>1, <2>2, CarriesStay
    <2> QED BY <1>1, <1>7, <2>3
  <1>10. /\ r \in Seq(Int)
         /\ Len(r) = n + (IF t = 0 THEN 0 ELSE 1)
         /\ \A i \in 1..n : r[i] \in Digit
         /\ Limb(r, n + 1) = t
         /\ Worth(r) = Worth(s)
    BY <1>7, CarriedIs
  <1> HIDE DEF t
  <1>11. ASSUME t = -1 PROVE Worth(r) <= -1
    <2> HIDE DEF r
    <2> DEFINE c == [i \in 1..(n + 1) |-> -Limb(r, i)]
    <2>1. \A i \in 1..n : Limb(r, i) \in Digit
      <3> TAKE i \in 1..n
      <3>1. i \in DOMAIN r /\ r[i] \in Digit BY <1>1, <1>10, <1>11
      <3> QED BY <3>1 DEF Limb
    <2>2. \A i \in 1..(n + 1) : Limb(r, i) \in Int /\ c[i] = -Limb(r, i)
      BY <1>1, <1>10, LimbIsInt
    <2>3. c \in [1..(n + 1) -> Int] BY <2>2
    <2> HIDE DEF c
    <2>4. PICK m \in Nat : m = n + 1 BY <1>1
    <2>5. c \in Seq(Int) /\ Len(c) = m /\ \A i \in 1..m : Limb(c, i) = c[i]
      <3>1. c \in [1..m -> Int] BY <2>3, <2>4
      <3> QED BY <3>1, ArrayOf
    <2>6. ASSUME NEW i \in 1..m
          PROVE  /\ Limb(c, i) = (-1) * Limb(r, i) + 0 * Limb(r, i)
                 /\ Limb(c, i) >= -(BasePow - 1)
      <3>1. Limb(c, i) = -Limb(r, i) /\ Limb(r, i) \in Int BY <2>2, <2>4, <2>5
      <3>2. i \in 1..n \/ i = n + 1 BY <1>1, <2>4
      <3>3. Limb(r, i) <= BasePow - 1
        <4>1. CASE i \in 1..n BY <2>1, <4>1 DEF Digit, Based
        <4>2. CASE i = n + 1 BY <1>10, <1>11, <4>2 DEF Based
        <4> QED BY <3>2, <4>1, <4>2
      <3> QED BY <3>1, <3>3 DEF Based
    <2>7. m \in 1..m /\ Limb(c, m) >= 1 /\ \A i \in 1..m : i > m => Limb(c, i) = 0
      <3>1. m \in 1..m BY <1>1, <2>4
      <3>2. Limb(c, m) = -t BY <1>10, <2>2, <2>4, <2>5, <3>1
      <3> QED BY <1>11, <3>1, <3>2
    <2>8. Worth(c) >= 1 BY <2>5, <2>6, <2>7, Positive
    <2>9. m >= Len(r) /\ m >= Len(c) BY <1>1, <1>10, <2>4, <2>5
    <2>10. Worth(c) = (-1) * Worth(r) + 0 * Worth(r)
      <3>1. -1 \in Int /\ 0 \in Int OBVIOUS
      <3>2. \A i \in 1..m : Limb(c, i) = (-1) * Limb(r, i) + 0 * Limb(r, i) BY <2>6
      <3> QED BY <1>10, <2>5, <2>9, <3>1, <3>2, Linear, SMTT(60)
    <2>11. Worth(r) \in Int BY <1>10, WorthIsInt
    <2> QED BY <2>8, <2>10, <2>11
  <1>12. ASSUME Worth(a) >= Worth(b) PROVE r \in Seq(Digit) /\ Len(r) = n
    <2>1. Worth(a) \in Int /\ Worth(b) \in Int BY <1>3, WorthIsInt
    <2>2. t = 0 BY <1>8, <1>9, <1>10, <1>11, <1>12, <2>1
    <2> HIDE DEF r
    <2>3. Len(r) = n /\ \A i \in 1..Len(r) : r[i] \in Digit BY <1>1, <1>10, <2>2
    <2> QED BY <1>10, <2>3
  <1> QED BY <1>4, <1>8, <1>10, <1>12 DEF n

-----------------------------------------------------------------------------
(* Division by a limb                                                      *)

\* What is left over stands in front of the next limb.
LEMMA Brought ==
    \A b, d, q, r, s, u, x, y : 
        b \in Int /\ d \in Int /\ q \in Int /\ r \in Int /\ s \in Int /\ u \in Int /\ x \in Int /\ y \in Int
        /\ y = s * b + x /\ y = d * q + r
        => x + b * (d * u + s) = d * (q + b * u) + r
  OBVIOUS

\* bc_num_divArray(): the quotient and the rest of an array and a limb.
THEOREM ShortDivision ==
    ASSUME Based, NEW a \in Seq(Digit), NEW d \in Digit \ {0}
    PROVE  LET q == DivArray(a, d)
           IN  /\ Worth(a) = d * Worth(q.num) + q.rem
               /\ q.rem \in 0..(d - 1)
               /\ q.num \in Seq(Digit)
               /\ Len(q.num) = Len(a)
  <1> DEFINE n == Len(a)
             Is(g) == g = [i \in 1..(n + 1) |-> IF i > n THEN 0 ELSE (g[i + 1] % d) * BasePow + a[i]]
             in == CHOOSE g : Is(g)
             num == [i \in 1..n |-> in[i] \div d]
             S == 0..(d * BasePow - 1)
             step == [p \in (1..n) \X S |-> (p[2] % d) * BasePow + a[p[1]]]
  <1>1. n \in Nat /\ d \in Nat \ {0} /\ d \in Int /\ DOMAIN a = 1..n /\ \A i \in 1..n : a[i] \in Digit
    BY DEF Digit, Based
  <1>2. ASSUME NEW y \in S, NEW x \in Digit
        PROVE  (y % d) * BasePow + x \in S
    <2> DEFINE r == y % d  b == BasePow
    <2>1. b \in Nat /\ b > 1 /\ x \in 0..(b - 1) BY DEF Based, Digit
    <2>2. d * b \in Int
      <3>1. \A k, l \in Int : k * l \in Int OBVIOUS
      <3> QED BY <1>1, <2>1, <3>1
    <2>3. y \in Int BY <2>2
    <2>4. r \in 0..(d - 1) BY <1>1, <2>3, Quotients
    <2> HIDE DEF r
    <2>5. /\ r * b \in Int /\ r * b >= 0
          /\ r * b + b <= d * b
      <3>1. \A k, l, m \in Int : k >= 0 /\ k <= m - 1 /\ l > 0 =>
                                 k * l \in Int /\ k * l >= 0 /\ k * l + l <= m * l
        <4> TAKE k, l, m \in Int
        <4> HAVE k >= 0 /\ k <= m - 1 /\ l > 0
        <4>1. k * l \in Int /\ k * l >= 0 OBVIOUS
        <4>2. k * l <= (m - 1) * l OBVIOUS
        <4>3. (m - 1) * l = m * l - l OBVIOUS
        <4> QED BY <4>1, <4>2, <4>3
      <3>2. r \in Int /\ b \in Int /\ r >= 0 /\ r <= d - 1 /\ b > 0 BY <1>1, <2>1, <2>4
      <3> QED BY <1>1, <3>1, <3>2
    <2> HIDE DEF b
    <2>6. r * b + x \in 0..(d * b - 1) BY <2>1, <2>2, <2>5
    <2> QED BY <2>6 DEF b, r
  <1>3. ASSUME NEW i \in 1..n, NEW x \in S
        PROVE  step[<<i, x>>] = (x % d) * BasePow + a[i] /\ step[<<i, x>>] \in S
    <2>1. <<i, x>> \in (1..n) \X S OBVIOUS
    <2>2. step[<<i, x>>] = (x % d) * BasePow + a[i] BY <2>1
    <2> HIDE DEF S, step
    <2> QED BY <1>1, <1>2, <2>2
  <1>4. 0 \in S
    <2>1. \A k, l \in Nat : k > 0 /\ l > 0 => 0 \in 0..(k * l - 1) OBVIOUS
    <2> QED BY <1>1, <2>1 DEF Based
  <1>5. S \subseteq Int OBVIOUS
  <1> HIDE DEF step, S
  <1>6. Steps(step, S, n) BY <1>3, Zenon DEF Steps
  <1>7. \E f : DownChain(f, 0, step, S, n) BY <1>1, <1>4, <1>6, DownRecursion, Zenon
  <1>8. PICK f : DownChain(f, 0, step, S, n) BY <1>7
  <1>9. Is(f)
    <2>1. ASSUME NEW i \in 1..n PROVE f[i] = (f[i + 1] % d) * BasePow + a[i]
      <3>1. i + 1 \in 1..(n + 1) BY <1>1
      <3>2. f[i + 1] \in S BY <1>8, <3>1 DEF DownChain
      <3> QED BY <1>3, <1>8, <3>2 DEF DownChain
    <2>2. ASSUME NEW i \in 1..(n + 1)
          PROVE  f[i] = IF i > n THEN 0 ELSE (f[i + 1] % d) * BasePow + a[i]
      <3>1. (i = n + 1 /\ i > n) \/ (i \in 1..n /\ ~(i > n)) BY <1>1
      <3>2. f[n + 1] = 0 BY <1>8 DEF DownChain
      <3> QED BY <2>1, <3>1, <3>2
    <2> QED BY <1>8, <2>2 DEF DownChain
  <1>10. Is(in) BY <1>9
  <1>11. DivArray(a, d) = [num |-> num, rem |-> in[1] % d]
    <2>1. DOMAIN a = 1..n BY <1>1
    <2> QED BY <2>1 DEF DivArray
  <1> HIDE DEF in
  <1>12. /\ in[n + 1] = 0
         /\ \A i \in 1..n : in[i] = (in[i + 1] % d) * BasePow + a[i]
    <2>1. \A i \in 1..(n + 1) : in[i] = IF i > n THEN 0 ELSE (in[i + 1] % d) * BasePow + a[i]
      BY <1>10, Zenon
    <2>2. n + 1 \in 1..(n + 1) /\ n + 1 > n BY <1>1
    <2>3. \A i \in 1..n : i \in 1..(n + 1) /\ ~(i > n) BY <1>1
    <2> QED BY <2>1, <2>2, <2>3
  <1> DEFINE T == {i \in 1..(n + 1) : in[i] \in S}
  <1>13. n + 1 \in T BY <1>1, <1>4, <1>12
  <1>14. ASSUME NEW i \in 1..n, i + 1 \in T PROVE i \in T
    <2>1. in[i + 1] \in S BY <1>14
    <2>2. in[i] \in S BY <1>1, <1>2, <1>12, <2>1
    <2> QED BY <1>1, <2>2
  <1> HIDE DEF T
  <1>15. \A i \in 1..(n + 1) : in[i] \in S
    <2>1. \A i \in 1..(n + 1) : i \in T BY <1>1, <1>13, <1>14, DownInduction
    <2> QED BY <2>1 DEF T
  <1>16. ASSUME NEW i \in 1..n PROVE num[i] \in Digit /\ num[i] = in[i] \div d
    <2> DEFINE y == in[i]  b == BasePow
    <2>1. y \in S /\ y \in Int
      <3>1. i \in 1..(n + 1) BY <1>1
      <3>2. y \in S BY <1>15, <3>1
      <3> HIDE DEF y
      <3> QED BY <1>5, <3>2
    <2>2. b \in Nat /\ b > 1 /\ d * b \in Int
      <3>1. \A k, l \in Int : k * l \in Int OBVIOUS
      <3> QED BY <1>1, <3>1 DEF Based
    <2>3. y >= 0 /\ y < d * b BY <2>1, <2>2 DEF S
    <2>4. num[i] = y \div d OBVIOUS
    <2> HIDE DEF y, b, num
    <2>5. d * 0 <= y /\ y < d * (b - 1 + 1) BY <1>1, <2>1, <2>2, <2>3
    <2>6. 0 \in Int /\ b - 1 \in Int BY <2>2
    <2>7. y \div d \in 0..(b - 1) BY <1>1, <2>1, <2>5, <2>6, QuotientBounds
    <2> QED BY <2>4, <2>7 DEF b, Digit, y
  <1>17. num \in [1..n -> Digit]
    <2>1. num = [i \in 1..n |-> num[i]] OBVIOUS
    <2> HIDE DEF num
    <2> QED BY <1>16, <2>1
  <1> HIDE DEF num
  <1>18. num \in Seq(Digit) /\ Len(num) = n /\ \A i \in 1..n : Limb(num, i) = num[i] BY <1>1, <1>17, ArrayOf
  <1>19. PICK w : Tower(a, n, w) /\ w[1] = Worth(a) BY <1>1, DigitIsInt, WorthTower
  <1>20. PICK u : Tower(num, n, u) /\ u[1] = Worth(num) BY <1>1, <1>18, DigitIsInt, WorthTower
  <1> DEFINE R == {i \in 1..(n + 1) : w[i] = d * u[i] + (in[i] % d)}
  <1>21. n + 1 \in R
    <2>1. w[n + 1] = 0 /\ u[n + 1] = 0 BY <1>19, <1>20 DEF Tower
    <2>2. 0 % d = 0 BY <1>1
    <2>3. d * 0 + 0 = 0 BY <1>1
    <2> QED BY <1>1, <1>12, <2>1, <2>2, <2>3
  <1>22. ASSUME NEW i \in 1..n, i + 1 \in R PROVE i \in R
    <2> DEFINE b == BasePow  s == in[i + 1] % d  y == in[i]  q == y \div d  r == y % d
               x == a[i]  v == u[i + 1]
    <2>1. i + 1 \in 1..(n + 1) /\ i \in 1..(n + 1) BY <1>1
    <2>2. y \in Int /\ in[i + 1] \in Int BY <1>5, <1>15, <2>1
    <2>3. /\ q \in Int /\ r \in Int /\ y = d * q + r
          /\ s \in Int
      <3>1. s \in 0..(d - 1) BY <1>1, <2>2, Quotients
      <3> HIDE DEF y
      <3>2. q \in Int /\ r \in 0..(d - 1) /\ y = d * q + r BY <1>1, <2>2, Quotients
      <3> QED BY <1>1, <3>1, <3>2
    <2>4. x \in Int /\ b \in Int BY <1>1 DEF Digit, Based
    <2>5. v \in Int BY <1>20, <2>1 DEF Tower
    <2>6. y = s * b + x BY <1>12
    <2>7. w[i + 1] = d * v + s BY <1>22
    <2>8. w[i] = x + b * w[i + 1]
      <3>1. Limb(a, i) = a[i] BY <1>1 DEF Limb
      <3> QED BY <1>19, <3>1 DEF Tower
    <2>9. u[i] = q + b * v BY <1>16, <1>18, <1>20 DEF Tower
    <2> HIDE DEF b, s, y, q, r, x, v
    <2>10. x + b * (d * v + s) = d * (q + b * v) + r
      BY <1>1, <2>2, <2>3, <2>4, <2>5, <2>6, Brought
    <2>11. w[i] = d * u[i] + r BY <2>7, <2>8, <2>9, <2>10
    <2> QED BY <2>1, <2>11 DEF r, y
  <1> HIDE DEF R
  <1>23. \A i \in 1..(n + 1) : i \in R BY <1>1, <1>21, <1>22, DownInduction
  <1>24. 1 \in 1..(n + 1) BY <1>1
  <1>25. w[1] = d * u[1] + (in[1] % d) BY <1>23, <1>24 DEF R
  <1>26. in[1] % d \in 0..(d - 1) BY <1>1, <1>5, <1>15, <1>24, Quotients
  <1> QED BY <1>11, <1>18, <1>19, <1>20, <1>25, <1>26

-----------------------------------------------------------------------------
(* Numbers: zeros below and above, and what they stand for                 *)

\* Zeros below move the limbs up.
LEMMA ZerosBelow ==
    ASSUME Based, NEW k \in Nat, NEW a \in Seq(Digit)
    PROVE  /\ Zeros(k) \o a \in Seq(Digit)
           /\ Len(Zeros(k) \o a) = k + Len(a)
           /\ \A i \in Nat \ {0} : Limb(Zeros(k) \o a, i) = IF i <= k THEN 0 ELSE Limb(a, i - k)
  <1> DEFINE z == Zeros(k)  x == z \o a
  <1>1. z \in Seq(Digit) /\ Len(z) = k /\ \A i \in 1..k : z[i] = 0
    BY DEF Zeros, Digit, Based
  <1> HIDE DEF z
  <1>2. /\ x \in Seq(Digit) /\ Len(x) = k + Len(a)
        /\ \A i \in 1..(k + Len(a)) : x[i] = IF i <= k THEN z[i] ELSE a[i - k]
    BY <1>1
  <1> HIDE DEF x
  <1>3. ASSUME NEW i \in Nat \ {0} PROVE Limb(x, i) = IF i <= k THEN 0 ELSE Limb(a, i - k)
    <2>1. DOMAIN x = 1..(k + Len(a)) /\ DOMAIN a = 1..Len(a) /\ Len(a) \in Nat BY <1>2
    <2>2. CASE i <= k
      <3>1. i \in 1..(k + Len(a)) /\ i \in 1..k BY <2>1, <2>2
      <3> QED BY <1>1, <1>2, <2>1, <2>2, <3>1 DEF Limb
    <2>3. CASE i > k /\ i <= k + Len(a)
      <3>1. i \in 1..(k + Len(a)) /\ i - k \in 1..Len(a) /\ ~(i <= k) BY <2>1, <2>3
      <3> QED BY <1>2, <2>1, <3>1 DEF Limb
    <2>4. CASE i > k + Len(a)
      <3>1. i \notin 1..(k + Len(a)) /\ i - k \notin 1..Len(a) /\ ~(i <= k) BY <2>1, <2>4
      <3> QED BY <2>1, <3>1 DEF Limb
    <2> QED BY <2>1, <2>2, <2>3, <2>4
  <1> QED BY <1>2, <1>3 DEF x, z

\* Zeros above change nothing.
LEMMA ZerosAbove ==
    ASSUME Based, NEW k \in Nat, NEW a \in Seq(Digit)
    PROVE  /\ a \o Zeros(k) \in Seq(Digit)
           /\ Len(a \o Zeros(k)) = Len(a) + k
           /\ \A i \in Nat \ {0} : Limb(a \o Zeros(k), i) = Limb(a, i)
  <1> DEFINE z == Zeros(k)  x == a \o z
  <1>1. z \in Seq(Digit) /\ Len(z) = k /\ \A i \in 1..k : z[i] = 0
    BY DEF Zeros, Digit, Based
  <1> HIDE DEF z
  <1>2. /\ x \in Seq(Digit) /\ Len(x) = Len(a) + k
        /\ \A i \in 1..(Len(a) + k) : x[i] = IF i <= Len(a) THEN a[i] ELSE z[i - Len(a)]
    BY <1>1
  <1> HIDE DEF x
  <1>3. ASSUME NEW i \in Nat \ {0} PROVE Limb(x, i) = Limb(a, i)
    <2>1. DOMAIN x = 1..(Len(a) + k) /\ DOMAIN a = 1..Len(a) /\ Len(a) \in Nat BY <1>2
    <2>2. CASE i <= Len(a)
      <3>1. i \in 1..(Len(a) + k) /\ i \in 1..Len(a) BY <2>1, <2>2
      <3> QED BY <1>2, <2>1, <2>2, <3>1 DEF Limb
    <2>3. CASE i > Len(a) /\ i <= Len(a) + k
      <3>1. i \in 1..(Len(a) + k) /\ i - Len(a) \in 1..k /\ ~(i <= Len(a)) /\ i \notin 1..Len(a) BY <2>1, <2>3
      <3> QED BY <1>1, <1>2, <2>1, <3>1 DEF Limb
    <2>4. CASE i > Len(a) + k
      <3>1. i \notin 1..(Len(a) + k) /\ i \notin 1..Len(a) BY <2>1, <2>4
      <3> QED BY <2>1, <3>1 DEF Limb
    <2> QED BY <2>1, <2>2, <2>3, <2>4
  <1> QED BY <1>2, <1>3 DEF x, z

\* bc_num_nonZeroLen(): what is stripped are the zeros above the topmost limb
\* that is not one.
LEMMA Stripped ==
    ASSUME Based, NEW a \in Seq(Digit)
    PROVE  /\ Strip(a) \in Seq(Digit)
           /\ Len(Strip(a)) <= Len(a)
           /\ \A i \in Nat \ {0} : Limb(Strip(a), i) = Limb(a, i)
           /\ Len(Strip(a)) # 0 => Strip(a)[Len(Strip(a))] # 0
  <1> DEFINE n == Len(a)
             S == {0} \cup {i \in DOMAIN a : a[i] # 0}
             m == Max(S)
             s == Strip(a)
  <1>1. n \in Nat /\ DOMAIN a = 1..n /\ S \in SUBSET (0..n) /\ S # {} OBVIOUS
  <1>2. s = SubSeq(a, 1, m) BY DEF Strip
  <1> HIDE DEF m
  <1>3. m \in S /\ \A x \in S : x <= m BY <1>1, MaxIs DEF m
  <1>4. m \in 0..n /\ (m # 0 => a[m] # 0) /\ \A i \in 1..n : i > m => a[i] = 0 BY <1>1, <1>3
  <1> HIDE DEF S, s, n
  <1>5. s \in Seq(Digit) /\ Len(s) = m /\ \A i \in 1..m : s[i] = a[i]
    <2>1. \A i \in 1..m : a[i] \in Digit BY <1>1, <1>4 DEF n
    <2> QED BY <1>1, <1>2, <1>4, <2>1
  <1>6. ASSUME NEW i \in Nat \ {0} PROVE Limb(s, i) = Limb(a, i)
    <2>1. DOMAIN s = 1..m BY <1>4, <1>5
    <2>2. CASE i <= m BY <1>1, <1>4, <1>5, <2>1, <2>2 DEF Limb
    <2>3. CASE i > m BY <1>1, <1>4, <2>1, <2>3 DEF Limb
    <2> QED BY <1>4, <2>2, <2>3
  <1> QED BY <1>1, <1>4, <1>5, <1>6 DEF s, n

\* The form every number has: limbs in their range, as many as are behind the
\* point at least and none but those when the topmost is zero, and one zero.
Number(n) ==
    /\ n \in [neg : BOOLEAN, scale : Nat, num : Seq(Digit)]
    /\ IsZero(n) => ~n.neg
    /\ ~IsZero(n) => /\ Len(n.num) >= RdxOf(n.scale)
                     /\ Len(n.num) > RdxOf(n.scale) => n.num[Len(n.num)] # 0
                     /\ \E i \in DOMAIN n.num : n.num[i] # 0

\* A limb has digits.
Digits == BaseDigs \in Nat \ {0}

\* What n stands for, counted in limbs with number rdx behind the point.
Stands(n, rdx) == IF n.neg THEN -Worth(Aligned(n, rdx)) ELSE Worth(Aligned(n, rdx))

\* More digits behind the point take no fewer limbs.
LEMMA RdxGrows ==
    ASSUME Digits, NEW s \in Nat, NEW t \in Nat
    PROVE  /\ RdxOf(s) \in Nat
           /\ s <= t => RdxOf(s) <= RdxOf(t)
           /\ RdxOf(Bigger(s, t)) = Bigger(RdxOf(s), RdxOf(t))
  <1>1. ASSUME NEW x \in Nat, NEW y \in Nat, x <= y PROVE RdxOf(x) \in Nat /\ RdxOf(x) <= RdxOf(y)
    <2> DEFINE b == BaseDigs  u == x + b - 1  v == y + b - 1  p == u \div b  q == v \div b
    <2>1. b \in Nat \ {0} /\ u \in Nat /\ v \in Nat /\ u <= v BY <1>1 DEF Digits
    <2>2. RdxOf(x) = p /\ RdxOf(y) = q BY DEF RdxOf
    <2> HIDE DEF b, u, v
    <2>3. /\ p \in Int /\ u % b \in 0..(b - 1) /\ u = b * p + (u % b)
          /\ q \in Int /\ v % b \in 0..(b - 1) /\ v = b * q + (v % b)
      BY <2>1, Quotients
    <2>4. PICK k \in 0..(b - 1), l \in 0..(b - 1) : k = u % b /\ l = v % b BY <2>3
    <2> HIDE DEF p, q
    <2>5. \A c, i, j, m : c \in Int /\ i \in Int /\ j \in Int /\ m \in Int /\ c > 0 /\ m < c /\ c * i <= c * j + m => i <= j
      <3> SUFFICES ASSUME NEW c \in Int, NEW i \in Int, NEW j \in Int, NEW m \in Int,
                          c > 0, m < c, c * i <= c * j + m, i >= j + 1
                   PROVE  FALSE
        OBVIOUS
      <3>1. c * i >= c * j + c OBVIOUS
      <3> QED BY <3>1
    <2>6. b * p <= b * q + l /\ b * 0 <= b * p + k
      <3>1. b * p \in Int /\ b * q \in Int
        <4>1. \A i, j \in Int : i * j \in Int OBVIOUS
        <4> QED BY <2>1, <2>3, <4>1
      <3>2. b * 0 = 0 BY <2>1
      <3> QED BY <2>1, <2>3, <2>4, <3>1, <3>2
    <2>7. p <= q /\ 0 <= p BY <2>1, <2>3, <2>4, <2>5, <2>6
    <2> QED BY <2>2, <2>3, <2>7
  <1>2. RdxOf(s) \in Nat /\ RdxOf(t) \in Nat BY <1>1
  <1>3. s <= t => RdxOf(s) <= RdxOf(t) BY <1>1
  <1>4. t <= s => RdxOf(t) <= RdxOf(s) BY <1>1
  <1> QED BY <1>2, <1>3, <1>4 DEF Bigger

\* bc_num_clean(): limbs become a number, and what they are stays.
LEMMA Cleaned ==
    ASSUME Based, Digits, NEW neg \in BOOLEAN, NEW scale \in Nat, NEW a \in Seq(Digit)
    PROVE  LET r == Clean(Num(neg, scale, a))
           IN  /\ Number(r)
               /\ r.scale = scale
               /\ ~IsZero(r) => r.neg = neg
               /\ \A i \in Nat \ {0} : Limb(r.num, i) = Limb(a, i)
  <1> DEFINE s == Strip(a)
             k == Bigger(0, RdxOf(scale) - Len(s))
             r == Clean(Num(neg, scale, a))
  <1>1. /\ s \in Seq(Digit)
        /\ \A i \in Nat \ {0} : Limb(s, i) = Limb(a, i)
        /\ Len(s) # 0 => s[Len(s)] # 0
    BY Stripped
  <1>2. RdxOf(scale) \in Nat BY RdxGrows
  <1>3. r = IF s = <<>> THEN Zero(scale) ELSE [neg |-> neg, scale |-> scale, num |-> s \o Zeros(k)]
    <2> DEFINE n == Num(neg, scale, a)
    <2>1. n = [neg |-> neg, scale |-> scale, num |-> a] BY DEF Num
    <2>2. n.num = a /\ n.scale = scale BY <2>1
    <2> HIDE DEF n, s
    <2>3. \A x : [n EXCEPT !.num = x] = [neg |-> neg, scale |-> scale, num |-> x] BY <2>1
    <2>4. Clean(n) = WithLimbs(n, s) BY <2>2 DEF Clean, s
    <2>5. WithLimbs(n, s) = IF s = <<>> THEN Zero(scale) ELSE [n EXCEPT !.num = s \o Zeros(k)]
      BY <2>2, Zenon DEF WithLimbs
    <2>6. WithLimbs(n, s) = IF s = <<>> THEN Zero(scale) ELSE [neg |-> neg, scale |-> scale, num |-> s \o Zeros(k)]
      BY <2>3, <2>5, Zenon
    <2> QED BY <2>4, <2>6 DEF n
  <1> HIDE DEF s, r
  <1>4. k \in Nat /\ (k # 0 => Len(s) + k = RdxOf(scale)) /\ Len(s) + k >= RdxOf(scale)
    <2>1. Len(s) \in Nat BY <1>1
    <2> QED BY <1>2, <2>1 DEF Bigger
  <1> HIDE DEF k
  <1>5. CASE s = <<>>
    <2>1. r = [neg |-> FALSE, scale |-> scale, num |-> <<>>] BY <1>3, <1>5 DEF Zero, Num
    <2>2. Number(r) /\ IsZero(r) /\ r.scale = scale /\ r.num = s BY <1>5, <2>1 DEF Number, IsZero
    <2> QED BY <1>1, <2>2 DEF r
  <1>6. CASE s # <<>>
    <2> DEFINE x == s \o Zeros(k)
    <2>1. /\ x \in Seq(Digit) /\ Len(x) = Len(s) + k
          /\ \A i \in Nat \ {0} : Limb(x, i) = Limb(s, i)
      BY <1>1, <1>4, ZerosAbove
    <2> HIDE DEF x
    <2>2. r = [neg |-> neg, scale |-> scale, num |-> x] BY <1>3, <1>6 DEF x
    <2>3. Len(s) \in Nat \ {0} /\ s[Len(s)] # 0 BY <1>1, <1>6
    <2>4. Limb(x, Len(s)) = s[Len(s)]
      <3>1. Limb(s, Len(s)) = s[Len(s)] BY <1>1, <2>3 DEF Limb
      <3> QED BY <2>1, <2>3, <3>1
    <2>5. Len(s) \in DOMAIN x /\ x[Len(s)] # 0
      <3>1. Len(s) \in 1..Len(x) /\ DOMAIN x = 1..Len(x) BY <1>4, <2>1, <2>3
      <3> QED BY <2>3, <2>4, <3>1 DEF Limb
    <2>6. Len(x) > RdxOf(scale) => x[Len(x)] # 0
      <3>1. Len(x) > RdxOf(scale) => k = 0 BY <1>2, <1>4, <2>1
      <3>2. k = 0 => Len(x) = Len(s) BY <2>1, <2>3
      <3> QED BY <2>5, <3>1, <3>2
    <2>7. Number(r)
      <3>1. x # <<>> BY <2>1, <2>3, <1>4
      <3> QED BY <1>4, <2>1, <2>2, <2>5, <2>6, <3>1 DEF Number, IsZero
    <2> QED BY <1>1, <2>1, <2>2, <2>7 DEF r
  <1> QED BY <1>5, <1>6

\* What limbs stand for is not negative, and zero only when they all are.
LEMMA WorthIsNat ==
    ASSUME Based, NEW a \in Seq(Digit)
    PROVE  /\ Worth(a) \in Nat
           /\ (\E i \in 1..Len(a) : a[i] # 0) => Worth(a) >= 1
           /\ (\A i \in 1..Len(a) : a[i] = 0) => Worth(a) = 0
  <1> DEFINE n == Len(a)
             S == {0} \cup {i \in 1..n : a[i] # 0}
             m == Max(S)
  <1>1. /\ n \in Nat /\ n >= Len(a) /\ S \in SUBSET (0..n) /\ S # {} /\ a \in Seq(Int)
        /\ \A i \in 1..n : Limb(a, i) = a[i]
        /\ \A i \in 1..n : a[i] >= 0 /\ a[i] \in Int
    BY DigitIsInt DEF Limb, Digit, Based
  <1> HIDE DEF m
  <1>2. m \in S /\ \A x \in S : x <= m BY <1>1, MaxIs DEF m
  <1>3. m \in 0..n /\ \A i \in 1..n : i > m => a[i] = 0 BY <1>1, <1>2
  <1>4. m # 0 => a[m] # 0 BY <1>2
  <1> HIDE DEF S, n
  <1>5. ASSUME \A i \in 1..n : a[i] = 0 PROVE Worth(a) = 0
    <2>1. \A i \in 1..n : Limb(a, i) = 0 * Limb(a, i) + 0 * Limb(a, i) BY <1>1, <1>5
    <2>2. Worth(a) = 0 * Worth(a) + 0 * Worth(a) BY <1>1, <2>1, Linear
    <2> QED BY <1>1, <2>2, WorthIsInt
  <1>6. ASSUME m # 0 PROVE Worth(a) >= 1
    <2>1. m \in 1..n BY <1>3, <1>6
    <2>2. Limb(a, m) >= 1 BY <1>1, <1>4, <1>6, <2>1
    <2>3. \A i \in 1..n : Limb(a, i) >= -(BasePow - 1) /\ (i > m => Limb(a, i) = 0)
      BY <1>1, <1>3 DEF Based
    <2> QED BY <1>1, <2>1, <2>2, <2>3, Positive
  <1>7. m = 0 => \A i \in 1..n : a[i] = 0 BY <1>1, <1>3
  <1>8. Worth(a) \in Int BY <1>1, WorthIsInt
  <1> QED BY <1>3, <1>5, <1>6, <1>7, <1>8 DEF n

\* Of two arrays of which one has no limb smaller than the other has.
LEMMA NoLimbLess ==
    ASSUME Based, NEW a \in Seq(Digit), NEW b \in Seq(Digit), NEW n \in Nat,
           n >= Len(a), n >= Len(b), \A i \in 1..n : Limb(a, i) <= Limb(b, i)
    PROVE  Worth(a) <= Worth(b)
  <1> DEFINE c == [i \in 1..n |-> Limb(b, i) - Limb(a, i)]
  <1>1. \A i \in 1..n : c[i] = Limb(b, i) - Limb(a, i) OBVIOUS
  <1>2. c \in [1..n -> Digit]
    <2>1. \A i \in 1..n : Limb(a, i) \in Digit /\ Limb(b, i) \in Digit /\ Limb(a, i) <= Limb(b, i)
      BY DigitIsInt
    <2>2. \A x, y \in Digit : x <= y => y - x \in Digit BY DEF Digit, Based
    <2>3. \A i \in 1..n : Limb(b, i) - Limb(a, i) \in Digit BY <2>1, <2>2, Zenon
    <2> QED BY <2>3
  <1> HIDE DEF c
  <1>3. c \in Seq(Digit) /\ Len(c) = n /\ \A i \in 1..n : Limb(c, i) = c[i] BY <1>2, ArrayOf
  <1>4. a \in Seq(Int) /\ b \in Seq(Int) /\ c \in Seq(Int) BY <1>3, DigitIsInt
  <1>5. ASSUME NEW i \in 1..n PROVE Limb(c, i) = 1 * Limb(b, i) + (-1) * Limb(a, i)
    <2>1. i \in Nat BY <1>1
    <2>2. Limb(a, i) \in Int /\ Limb(b, i) \in Int BY <1>4, <2>1, LimbIsInt, Zenon
    <2>3. Limb(c, i) = Limb(b, i) - Limb(a, i) BY <1>3 DEF c
    <2> QED BY <2>2, <2>3
  <1>6. Worth(c) = 1 * Worth(b) + (-1) * Worth(a) BY <1>3, <1>4, <1>5, Linear
  <1>7. Worth(c) \in Nat BY <1>3, WorthIsNat
  <1>8. Worth(a) \in Int /\ Worth(b) \in Int BY <1>4, WorthIsInt
  <1> QED BY <1>6, <1>7, <1>8

\* A longer array whose topmost limb is not zero is more.
LEMMA Longer ==
    ASSUME Based, NEW a \in Seq(Digit), NEW b \in Seq(Digit),
           Len(a) < Len(b), Limb(b, Len(b)) >= 1
    PROVE  Worth(a) < Worth(b)
  <1> DEFINE n == Len(b)
  <1>1. n \in Nat /\ n \in 1..n /\ n >= Len(a) /\ n >= Len(b) OBVIOUS
  <1>2. Limb(a, n) = 0 BY DigitIsInt
  <1>3. Limb(a, n) < Limb(b, n)
    <2>1. Limb(b, n) \in Int BY DigitIsInt, LimbIsInt
    <2> QED BY <1>2, <2>1
  <1>4. \A i \in 1..n : i > n => Limb(a, i) = Limb(b, i) BY <1>1
  <1> QED BY <1>1, <1>3, <1>4, TopDecides

\* The comparison of an array with one that has k limbs less below, of which
\* the lowest k limbs are left out: they matter when the others are the same.
LEMMA WithoutLowest ==
    ASSUME Based, NEW p \in Seq(Digit), NEW q \in Seq(Digit), NEW k \in Nat,
           Len(p) = k + Len(q)
    PROVE  LET d == Drop(p, k)  z == Zeros(k) \o q
           IN  /\ Compare(d, q) \in {-1, 0, 1} /\ Compare(q, d) \in {-1, 0, 1}
               /\ Compare(d, q) = -1 => Worth(p) < Worth(z)
               /\ Compare(d, q) \in {0, 1} => Worth(p) >= Worth(z)
               /\ Compare(q, d) = 1 => Worth(p) < Worth(z)
               /\ Compare(q, d) \in {-1, 0} => Worth(p) >= Worth(z)
  <1> DEFINE d == Drop(p, k)  z == Zeros(k) \o q  m == Len(q)  n == k + m
  <1>1. m \in Nat /\ n \in Nat /\ Len(p) = n OBVIOUS
  <1>2. d \in Seq(Digit) /\ Len(d) = m /\ \A i \in 1..m : d[i] = p[i + k]
    <2>1. \A i \in 1..n : p[i] \in Digit OBVIOUS
    <2> QED BY <1>1, <2>1 DEF Drop
  <1>3. /\ z \in Seq(Digit) /\ Len(z) = n
        /\ \A i \in Nat \ {0} : Limb(z, i) = IF i <= k THEN 0 ELSE Limb(q, i - k)
    BY ZerosBelow
  <1> HIDE DEF d, z
  <1>4. \A i \in 1..n : Limb(p, i) = p[i] /\ p[i] \in Digit BY <1>1 DEF Limb
  <1>5. \A i \in 1..n : i <= k => Limb(z, i) = 0 BY <1>1, <1>3
  <1>6. ASSUME NEW i \in 1..m PROVE Limb(z, i + k) = q[i] /\ Limb(p, i + k) = d[i]
    <2>1. i + k \in 1..n /\ i + k \in Nat \ {0} /\ ~(i + k <= k) /\ i + k - k = i BY <1>1
    <2>2. Limb(q, i) = q[i] BY <1>1 DEF Limb
    <2> QED BY <1>2, <1>3, <1>4, <2>1, <2>2
  <1>7. \A i \in 1..n : i > k => i - k \in 1..m /\ i - k + k = i BY <1>1
  <1>8. Worth(p) \in Int /\ Worth(z) \in Int BY <1>3, DigitIsInt, WorthIsInt
  <1>9. ASSUME NEW i \in 1..m, d[i] < q[i], \A j \in 1..m : j > i => d[j] = q[j]
        PROVE  Worth(p) < Worth(z)
    <2>1. i + k \in 1..n BY <1>1
    <2>2. Limb(p, i + k) < Limb(z, i + k) BY <1>6, <1>9
    <2>3. ASSUME NEW j \in 1..n, j > i + k PROVE Limb(p, j) = Limb(z, j)
      <3>1. PICK l \in 1..m : l = j - k /\ j = l + k BY <1>1, <1>7, <2>3
      <3>2. l > i BY <1>1, <2>3, <3>1
      <3> QED BY <1>6, <1>9, <3>1, <3>2
    <2> QED BY <1>1, <1>3, <2>1, <2>2, <2>3, TopDecides, SMTT(60)
  <1>10. ASSUME NEW i \in 1..m, q[i] < d[i], \A j \in 1..m : j > i => d[j] = q[j]
         PROVE  Worth(z) < Worth(p)
    <2>1. i + k \in 1..n BY <1>1
    <2>2. Limb(z, i + k) < Limb(p, i + k) BY <1>6, <1>10
    <2>3. ASSUME NEW j \in 1..n, j > i + k PROVE Limb(z, j) = Limb(p, j)
      <3>1. PICK l \in 1..m : l = j - k /\ j = l + k BY <1>1, <1>7, <2>3
      <3>2. l > i BY <1>1, <2>3, <3>1
      <3> QED BY <1>6, <1>10, <3>1, <3>2
    <2> QED BY <1>1, <1>3, <2>1, <2>2, <2>3, TopDecides
  <1>11. ASSUME \A j \in 1..m : d[j] = q[j] PROVE Worth(z) <= Worth(p)
    <2>1. ASSUME NEW j \in 1..n PROVE Limb(z, j) <= Limb(p, j)
      <3>1. CASE j <= k BY <1>4, <1>5, <3>1 DEF Digit, Based
      <3>2. CASE j > k
        <4>1. PICK l \in 1..m : l = j - k /\ j = l + k BY <1>1, <1>7, <3>2
        <4>2. Limb(z, j) = Limb(p, j) BY <1>6, <1>11, <4>1
        <4>3. Limb(p, j) \in Int BY <1>4 DEF Digit, Based
        <4> QED BY <4>2, <4>3
      <3> QED BY <3>1, <3>2
    <2> QED BY <1>1, <1>3, <2>1, NoLimbLess
  <1>12. /\ Compare(d, q) \in {-1, 0, 1}
         /\ Compare(d, q) = -1 => Worth(p) < Worth(z)
         /\ Compare(d, q) \in {0, 1} => Worth(p) >= Worth(z)
    <2>1. \/ /\ Compare(d, q) = 0
             /\ \A j \in 1..m : d[j] = q[j]
          \/ /\ Compare(d, q) = -1
             /\ \E i \in 1..m : d[i] < q[i] /\ \A j \in 1..m : j > i => d[j] = q[j]
          \/ /\ Compare(d, q) = 1
             /\ \E i \in 1..m : q[i] < d[i] /\ \A j \in 1..m : j > i => d[j] = q[j]
      <3>1. Len(d) = Len(q) /\ 1..Len(d) = 1..m BY <1>2
      <3> HIDE DEF m
      <3> QED BY <1>2, <3>1, TopDifference, Zenon
    <2>2. \/ Compare(d, q) = 0 /\ Worth(z) <= Worth(p)
          \/ Compare(d, q) = -1 /\ Worth(p) < Worth(z)
          \/ Compare(d, q) = 1 /\ Worth(z) < Worth(p)
      BY <1>9, <1>10, <1>11, <2>1
    <2> QED BY <1>8, <2>2
  <1>13. /\ Compare(q, d) \in {-1, 0, 1}
         /\ Compare(q, d) = 1 => Worth(p) < Worth(z)
         /\ Compare(q, d) \in {-1, 0} => Worth(p) >= Worth(z)
    <2>1. \/ /\ Compare(q, d) = 0
             /\ \A j \in 1..m : q[j] = d[j]
          \/ /\ Compare(q, d) = -1
             /\ \E i \in 1..m : q[i] < d[i] /\ \A j \in 1..m : j > i => q[j] = d[j]
          \/ /\ Compare(q, d) = 1
             /\ \E i \in 1..m : d[i] < q[i] /\ \A j \in 1..m : j > i => q[j] = d[j]
      BY <1>2, TopDifference
    <2>2. \/ Compare(q, d) = 0 /\ Worth(z) <= Worth(p)
          \/ Compare(q, d) = -1 /\ Worth(z) < Worth(p)
          \/ Compare(q, d) = 1 /\ Worth(p) < Worth(z)
      BY <1>9, <1>10, <1>11, <2>1
    <2> QED BY <1>8, <2>2
  <1> QED BY <1>12, <1>13 DEF d, z

-----------------------------------------------------------------------------
(* Addition, subtraction and comparison of numbers                         *)

\* A number and one with which it is aligned.
LEMMA AlignedIs ==
    ASSUME Based, Digits, NEW n, Number(n), NEW rdx \in Nat, rdx >= Rdx(n)
    PROVE  /\ Rdx(n) \in Nat /\ Rdx(n) <= RdxOf(n.scale)
           /\ Aligned(n, rdx) \in Seq(Digit)
           /\ IntLimbs(n) \in Nat
           /\ Len(Aligned(n, rdx)) = rdx + IntLimbs(n)
           /\ IsZero(n) => Worth(Aligned(n, rdx)) = 0
           /\ ~IsZero(n) => Worth(Aligned(n, rdx)) >= 1
           /\ IntLimbs(n) > 0 => Limb(Aligned(n, rdx), Len(Aligned(n, rdx))) >= 1
  <1> DEFINE k == rdx - Rdx(n)  a == n.num  x == Zeros(k) \o a
  <1>1. /\ a \in Seq(Digit) /\ n.scale \in Nat
        /\ ~IsZero(n) => /\ Len(a) >= RdxOf(n.scale)
                         /\ Len(a) > RdxOf(n.scale) => a[Len(a)] # 0
                         /\ \E i \in DOMAIN a : a[i] # 0
    BY DEF Number
  <1>2. RdxOf(n.scale) \in Nat BY <1>1, RdxGrows
  <1>3. Rdx(n) \in Nat /\ Rdx(n) <= RdxOf(n.scale) /\ (~IsZero(n) => Rdx(n) = RdxOf(n.scale))
        /\ (IsZero(n) => Rdx(n) = 0 /\ a = <<>>)
    BY <1>2 DEF Rdx, IsZero
  <1>4. IntLimbs(n) = Len(a) - Rdx(n) /\ IntLimbs(n) \in Nat
    <2>1. Len(a) \in Nat /\ (IsZero(n) => Len(a) = 0) BY <1>1, <1>3
    <2> QED BY <1>1, <1>3, <2>1 DEF IntLimbs
  <1>5. k \in Nat BY <1>3
  <1>6. Aligned(n, rdx) = x BY DEF Aligned
  <1> HIDE DEF k, a
  <1>7. /\ x \in Seq(Digit) /\ Len(x) = k + Len(a)
        /\ \A i \in Nat \ {0} : Limb(x, i) = IF i <= k THEN 0 ELSE Limb(a, i - k)
    BY <1>1, <1>5, ZerosBelow
  <1> HIDE DEF x
  <1>8. Len(x) = rdx + IntLimbs(n)
    <2>1. Len(a) \in Nat BY <1>1
    <2> QED BY <1>3, <1>4, <1>7, <2>1 DEF k
  <1>9. ASSUME NEW i \in 1..Len(a) PROVE i + k \in 1..Len(x) /\ x[i + k] = a[i]
    <2>1. Len(a) \in Nat /\ i + k \in 1..Len(x) /\ i + k \in Nat \ {0} /\ ~(i + k <= k) /\ i + k - k = i
      BY <1>1, <1>5, <1>7
    <2>2. Limb(x, i + k) = Limb(a, i)
      <3>1. PICK j \in Nat \ {0} : j = i + k BY <2>1
      <3>2. j - k = i /\ ~(j <= k) BY <1>5, <2>1, <3>1
      <3>3. Limb(x, j) = Limb(a, j - k) BY <1>7, <3>2
      <3> QED BY <3>1, <3>2, <3>3
    <2>3. Limb(a, i) = a[i] BY <1>1 DEF Limb
    <2>4. Limb(x, i + k) = x[i + k] BY <1>7, <2>1 DEF Limb
    <2> QED BY <2>1, <2>2, <2>3, <2>4
  <1>10. IsZero(n) => Worth(x) = 0
    <2> SUFFICES ASSUME IsZero(n) PROVE Worth(x) = 0 OBVIOUS
    <2>1. a = <<>> /\ Len(a) = 0 BY <1>3
    <2>2. ASSUME NEW i \in 1..Len(x) PROVE x[i] = 0
      <3>1. i <= k /\ i \in Nat \ {0} BY <1>5, <1>7, <2>1
      <3>2. Limb(x, i) = 0 BY <1>7, <3>1
      <3> QED BY <1>7, <3>2 DEF Limb
    <2> QED BY <1>7, <2>2, WorthIsNat
  <1>11. ~IsZero(n) => Worth(x) >= 1
    <2> SUFFICES ASSUME ~IsZero(n) PROVE Worth(x) >= 1 OBVIOUS
    <2>1. PICK i \in 1..Len(a) : a[i] # 0 BY <1>1
    <2>2. \E j \in 1..Len(x) : x[j] # 0 BY <1>9, <2>1
    <2> QED BY <1>7, <2>2, WorthIsNat
  <1>12. IntLimbs(n) > 0 => Limb(x, Len(x)) >= 1
    <2> SUFFICES ASSUME IntLimbs(n) > 0 PROVE Limb(x, Len(x)) >= 1 OBVIOUS
    <2>1. Len(a) \in Nat /\ Len(a) > Rdx(n) /\ Len(a) \in 1..Len(a) BY <1>1, <1>3, <1>4
    <2>2. ~IsZero(n) BY <1>3, <2>1
    <2>3. a[Len(a)] # 0 /\ a[Len(a)] \in Digit BY <1>1, <1>3, <2>1, <2>2
    <2>4. Len(a) + k = Len(x) /\ x[Len(x)] = a[Len(a)] /\ Len(x) \in 1..Len(x)
      <3>1. Len(a) + k = Len(x) BY <1>5, <1>7, <2>1
      <3> QED BY <1>9, <2>1, <3>1
    <2>5. Limb(x, Len(x)) = a[Len(a)] BY <1>7, <2>4 DEF Limb
    <2> QED BY <2>3, <2>5 DEF Digit, Based
  <1> QED BY <1>3, <1>4, <1>6, <1>7, <1>8, <1>10, <1>11, <1>12

\* A number aligned at its own point gets no limbs more.
LEMMA AlignedSelf ==
    ASSUME NEW n, Number(n), Rdx(n) \in Nat
    PROVE  Aligned(n, Rdx(n)) = n.num
  <1>1. Rdx(n) - Rdx(n) = 0 OBVIOUS
  <1>2. Zeros(0) = <<>> BY DEF Zeros
  <1>3. n.num \in Seq(Digit) BY DEF Number
  <1>4. <<>> \o n.num = n.num BY <1>3
  <1> QED BY <1>1, <1>2, <1>4 DEF Aligned

\* bc_num_as() takes the one that is not more from the other.
LEMMA ReversedIs ==
    ASSUME Based, Digits, NEW a, NEW b, Number(a), Number(b)
    PROVE  LET rdx == Bigger(Rdx(a), Rdx(b))
               x == Aligned(a, rdx)
               y == Aligned(b, rdx)
           IN  IF Reversed(a, b) THEN Worth(x) <= Worth(y) ELSE Worth(y) <= Worth(x)
  <1> DEFINE rdx == Bigger(Rdx(a), Rdx(b))  x == Aligned(a, rdx)  y == Aligned(b, rdx)
             diff == Rdx(a) - Rdx(b)
  <1>1. Rdx(a) \in Nat /\ Rdx(b) \in Nat
    <2>1. a.scale \in Nat /\ b.scale \in Nat BY DEF Number
    <2> QED BY <2>1, RdxGrows DEF Rdx
  <1>2. rdx \in Nat /\ rdx >= Rdx(a) /\ rdx >= Rdx(b) BY <1>1, BiggerIs
  <1>3. diff > 0 => rdx = Rdx(a) BY <1>1 DEF Bigger
  <1>4. ~(diff > 0) => rdx = Rdx(b) BY <1>1 DEF Bigger
  <1> HIDE DEF rdx
  <1>5. /\ x \in Seq(Digit) /\ IntLimbs(a) \in Nat /\ Len(x) = rdx + IntLimbs(a)
        /\ IntLimbs(a) > 0 => Limb(x, Len(x)) >= 1
    BY <1>2, AlignedIs
  <1>6. /\ y \in Seq(Digit) /\ IntLimbs(b) \in Nat /\ Len(y) = rdx + IntLimbs(b)
        /\ IntLimbs(b) > 0 => Limb(y, Len(y)) >= 1
    BY <1>2, AlignedIs
  <1>7. Worth(x) \in Int /\ Worth(y) \in Int BY <1>5, <1>6, DigitIsInt, WorthIsInt
  <1>8. a.num \in Seq(Digit) /\ b.num \in Seq(Digit) BY DEF Number
  <1>9. Len(a.num) = Rdx(a) + IntLimbs(a) /\ Len(b.num) = Rdx(b) + IntLimbs(b)
    <2>1. Len(a.num) \in Nat /\ Len(b.num) \in Nat BY <1>8
    <2> QED BY <1>1, <2>1 DEF IntLimbs
  <1> HIDE DEF x, y
  <1>10. CASE IntLimbs(a) # IntLimbs(b)
    <2>1. Reversed(a, b) <=> IntLimbs(a) < IntLimbs(b) BY <1>10 DEF Reversed
    <2>2. CASE IntLimbs(a) < IntLimbs(b)
      <3>1. Len(x) < Len(y) /\ IntLimbs(b) > 0 BY <1>2, <1>5, <1>6, <2>2
      <3>2. Worth(x) < Worth(y) BY <1>5, <1>6, <3>1, Longer
      <3> QED BY <1>7, <2>1, <2>2, <3>2 DEF x, y, rdx
    <2>3. CASE IntLimbs(b) < IntLimbs(a)
      <3>1. Len(y) < Len(x) /\ IntLimbs(a) > 0 BY <1>2, <1>5, <1>6, <2>3
      <3>2. Worth(y) < Worth(x) BY <1>5, <1>6, <3>1, Longer
      <3>3. ~(IntLimbs(a) < IntLimbs(b)) BY <1>5, <1>6, <2>3
      <3> QED BY <1>7, <2>1, <3>2, <3>3 DEF x, y, rdx
    <2> QED BY <1>5, <1>6, <1>10, <2>2, <2>3
  <1>11. CASE IntLimbs(a) = IntLimbs(b) /\ diff > 0
    <2> DEFINE d == Drop(a.num, diff)  z == Zeros(diff) \o b.num  c == Compare(d, b.num)
    <2>1. Reversed(a, b) <=> c < 0 BY <1>11 DEF Reversed
    <2>2. x = a.num BY <1>1, <1>3, <1>11, AlignedSelf DEF x
    <2>3. y = z BY <1>3, <1>11 DEF y, Aligned
    <2>4. diff \in Nat /\ Len(a.num) = diff + Len(b.num) BY <1>1, <1>5, <1>6, <1>9, <1>11
    <2> HIDE DEF diff
    <2>5. /\ c \in {-1, 0, 1}
          /\ c = -1 => Worth(a.num) < Worth(z)
          /\ c \in {0, 1} => Worth(a.num) >= Worth(z)
      BY <1>8, <2>4, WithoutLowest
    <2> HIDE DEF c, z
    <2>6. /\ c < 0 => Worth(x) < Worth(y)
          /\ ~(c < 0) => Worth(x) >= Worth(y)
      BY <2>2, <2>3, <2>5
    <2> QED BY <1>7, <2>1, <2>6 DEF x, y, rdx
  <1>12. CASE IntLimbs(a) = IntLimbs(b) /\ ~(diff > 0)
    <2> DEFINE k == -diff  d == Drop(b.num, k)  z == Zeros(k) \o a.num  c == Compare(a.num, d)
    <2>1. Reversed(a, b) <=> c <= 0 BY <1>12 DEF Reversed
    <2>2. y = b.num BY <1>1, <1>4, <1>12, AlignedSelf DEF y
    <2>3. k \in Nat /\ Len(b.num) = k + Len(a.num) /\ k = Rdx(b) - Rdx(a)
      BY <1>1, <1>5, <1>6, <1>9, <1>12
    <2>4. x = z BY <1>4, <1>12, <2>3 DEF x, Aligned
    <2> HIDE DEF k
    <2>5. /\ c \in {-1, 0, 1}
          /\ c = 1 => Worth(b.num) < Worth(z)
          /\ c \in {-1, 0} => Worth(b.num) >= Worth(z)
      BY <1>8, <2>3, WithoutLowest
    <2> HIDE DEF c, z
    <2>6. /\ c <= 0 => Worth(x) <= Worth(y)
          /\ ~(c <= 0) => Worth(y) < Worth(x)
      BY <1>7, <2>2, <2>4, <2>5
    <2> QED BY <1>7, <2>1, <2>6 DEF x, y, rdx
  <1> QED BY <1>10, <1>11, <1>12

\* A number made of limbs stands for what they stand for.
LEMMA CleanStands ==
    ASSUME Based, Digits, NEW neg \in BOOLEAN, NEW scale \in Nat, NEW a \in Seq(Digit)
    PROVE  LET r == Clean(Num(neg, scale, a))
               rdx == RdxOf(scale)
           IN  /\ Number(r) /\ r.scale = scale
               /\ Stands(r, rdx) = IF neg THEN -Worth(a) ELSE Worth(a)
  <1> DEFINE r == Clean(Num(neg, scale, a))  rdx == RdxOf(scale)  x == Aligned(r, rdx)
  <1>1. /\ Number(r) /\ r.scale = scale
        /\ ~IsZero(r) => r.neg = neg
        /\ \A i \in Nat \ {0} : Limb(r.num, i) = Limb(a, i)
    BY Cleaned
  <1>2. rdx \in Nat BY RdxGrows
  <1> HIDE DEF r, rdx
  <1>3. Worth(a) \in Int BY DigitIsInt, WorthIsInt
  <1>4. r.num \in Seq(Digit) /\ (IsZero(r) => ~r.neg /\ r.num = <<>>) BY <1>1 DEF Number, IsZero
  <1>5. Worth(r.num) = Worth(a) BY <1>1, <1>4, SameLimbs
  <1>6. CASE IsZero(r)
    <2>1. Rdx(r) = 0 BY <1>6 DEF Rdx
    <2>2. Worth(x) = 0 BY <1>1, <1>2, <1>6, <2>1, AlignedIs
    <2>3. Worth(a) = 0
      <3>1. \A i \in 1..Len(r.num) : r.num[i] = 0 BY <1>4, <1>6
      <3> QED BY <1>4, <1>5, <3>1, WorthIsNat
    <2>4. Stands(r, rdx) = 0 BY <1>4, <1>6, <2>2 DEF Stands
    <2>5. PICK v \in Int : v = Worth(a) BY <1>3
    <2>6. v = 0 BY <2>3, <2>5
    <2>7. 0 = IF neg THEN -v ELSE v
      <3>1. \A u \in Int : -u = 0 - u OBVIOUS
      <3>2. -v = 0 - v BY <3>1
      <3>3. 0 - v = 0 BY <2>6
      <3> QED BY <2>6, <3>2, <3>3, Zenon
    <2> QED BY <1>1, <2>4, <2>5, <2>7 DEF r, rdx
  <1>7. CASE ~IsZero(r)
    <2>1. Rdx(r) = rdx BY <1>1, <1>7 DEF Rdx, rdx
    <2>2. x = r.num BY <1>1, <1>2, <2>1, AlignedSelf
    <2>3. Worth(x) = Worth(a) BY <1>5, <2>2
    <2>4. Stands(r, rdx) = IF neg THEN -Worth(a) ELSE Worth(a) BY <1>1, <1>7, <2>3 DEF Stands
    <2> QED BY <1>1, <2>4 DEF r, rdx
  <1> QED BY <1>6, <1>7

\* bc_num_add() and bc_num_sub(): the sum of two numbers, or their difference,
\* stands for the sum or the difference of what they stand for, exactly, and has
\* the form that every number has: the signs, which of the two is taken from the
\* other, and the limbs only one of them has behind the point.
THEOREM Addition ==
    ASSUME Based, Digits, NEW a, NEW b, Number(a), Number(b), NEW sub \in BOOLEAN
    PROVE  LET r == AddSub(a, b, sub)
               rdx == Bigger(Rdx(a), Rdx(b))
           IN  /\ Number(r)
               /\ r.scale = IF IsZero(b) THEN a.scale ELSE IF IsZero(a) THEN b.scale ELSE Bigger(a.scale, b.scale)
               /\ Stands(r, rdx) = IF sub THEN Stands(a, rdx) - Stands(b, rdx) ELSE Stands(a, rdx) + Stands(b, rdx)
  <1> DEFINE r == AddSub(a, b, sub)
             rdx == Bigger(Rdx(a), Rdx(b))
             x == Aligned(a, rdx)
             y == Aligned(b, rdx)
             less == a.neg # (b.neg # sub)
             rev == less /\ Reversed(a, b)
             scale == Bigger(a.scale, b.scale)
             limbs == Arrays(x, y, less, rev)
  <1>1. a.scale \in Nat /\ b.scale \in Nat /\ a.neg \in BOOLEAN /\ b.neg \in BOOLEAN
        /\ (IsZero(a) => ~a.neg) /\ (IsZero(b) => ~b.neg)
    BY DEF Number
  <1>2. Rdx(a) \in Nat /\ Rdx(b) \in Nat BY <1>1, RdxGrows DEF Rdx
  <1>3. rdx \in Nat /\ rdx >= Rdx(a) /\ rdx >= Rdx(b) BY <1>2, BiggerIs
  <1>4. scale \in Nat BY <1>1, BiggerIs
  <1> HIDE DEF rdx, scale
  <1>5. x \in Seq(Digit) /\ (IsZero(a) => Worth(x) = 0) BY <1>3, AlignedIs
  <1>6. y \in Seq(Digit) /\ (IsZero(b) => Worth(y) = 0) BY <1>3, AlignedIs
  <1>7. Worth(x) \in Int /\ Worth(y) \in Int BY <1>5, <1>6, DigitIsInt, WorthIsInt
  <1>8. /\ Stands(a, rdx) = IF a.neg THEN -Worth(x) ELSE Worth(x)
        /\ Stands(b, rdx) = IF b.neg THEN -Worth(y) ELSE Worth(y)
    BY DEF Stands
  <1>9. IF Reversed(a, b) THEN Worth(x) <= Worth(y) ELSE Worth(y) <= Worth(x) BY ReversedIs DEF rdx
  <1>10. CASE IsZero(b)
    <2>1. r = a BY <1>10 DEF AddSub
    <2>2. Stands(b, rdx) = 0 BY <1>1, <1>6, <1>8, <1>10
    <2>3. Stands(a, rdx) \in Int BY <1>7, <1>8
    <2>4. /\ Stands(a, rdx) - 0 = Stands(a, rdx)
          /\ Stands(a, rdx) + 0 = Stands(a, rdx)
      BY <2>3
    <2> QED BY <1>10, <2>1, <2>2, <2>4 DEF rdx
  <1>11. CASE IsZero(a) /\ ~IsZero(b)
    <2>1. r = [b EXCEPT !.neg = (b.neg # sub)] BY <1>11 DEF AddSub
    <2>2. /\ b \in [neg : BOOLEAN, scale : Nat, num : Seq(Digit)]
          /\ r \in [neg : BOOLEAN, scale : Nat, num : Seq(Digit)]
          /\ r.num = b.num /\ r.scale = b.scale /\ r.neg = (b.neg # sub)
      BY <2>1 DEF Number
    <2> HIDE DEF r
    <2>3. Number(r) /\ ~IsZero(r) BY <1>11, <2>2 DEF Number, IsZero
    <2>4. Aligned(r, rdx) = y BY <2>2 DEF Aligned, Rdx, IsZero
    <2>5. Stands(r, rdx) = IF b.neg # sub THEN -Worth(y) ELSE Worth(y) BY <2>2, <2>4 DEF Stands
    <2>6. Stands(a, rdx) = 0 BY <1>1, <1>5, <1>8, <1>11
    <2>7. Stands(r, rdx) = IF sub THEN 0 - Stands(b, rdx) ELSE 0 + Stands(b, rdx)
      BY <1>1, <1>7, <1>8, <2>5
    <2> QED BY <1>11, <2>2, <2>3, <2>6, <2>7 DEF rdx, r
  <1>12. CASE ~IsZero(a) /\ ~IsZero(b)
    <2>1. r = Clean(Num(a.neg # rev, scale, limbs)) BY <1>12 DEF AddSub, Combined, rdx, scale
    <2>2. rdx = RdxOf(scale) BY <1>1, <1>12, RdxGrows DEF rdx, scale, Rdx
    <2>3. less \in BOOLEAN /\ rev \in BOOLEAN /\ (a.neg # rev) \in BOOLEAN OBVIOUS
    <2>4. limbs = IF ~less THEN AddArrays(x, y) ELSE IF rev THEN SubArrays(y, x) ELSE SubArrays(x, y)
      BY DEF Arrays
    <2>5. less <=> a.neg # (b.neg # sub) OBVIOUS
    <2>6. rev => less /\ Worth(x) <= Worth(y) BY <1>9
    <2>7. less /\ ~rev => Worth(y) <= Worth(x) BY <1>9
    <2> HIDE DEF limbs, less, rev, x, y, r
    <2>8. /\ limbs \in Seq(Digit)
          /\ Worth(limbs) = IF ~less THEN Worth(x) + Worth(y) ELSE IF rev THEN Worth(y) - Worth(x)
                            ELSE Worth(x) - Worth(y)
      <3>1. CASE ~less BY <1>5, <1>6, <2>4, <3>1, Sums
      <3>2. CASE less /\ rev
        <4>1. Worth(y) >= Worth(x) BY <1>7, <2>6, <3>2
        <4> QED BY <1>5, <1>6, <2>4, <3>2, <4>1, Differences
      <3>3. CASE less /\ ~rev
        <4>1. Worth(x) >= Worth(y) BY <1>7, <2>7, <3>3
        <4> QED BY <1>5, <1>6, <2>4, <3>3, <4>1, Differences
      <3> QED BY <2>3, <3>1, <3>2, <3>3
    <2>9. /\ Number(r) /\ r.scale = scale
          /\ Stands(r, rdx) = IF a.neg # rev THEN -Worth(limbs) ELSE Worth(limbs)
      BY <1>4, <2>1, <2>2, <2>3, <2>8, CleanStands
    <2>10. Stands(r, rdx) = IF sub THEN Stands(a, rdx) - Stands(b, rdx) ELSE Stands(a, rdx) + Stands(b, rdx)
      <3> DEFINE v == Worth(x)  w == Worth(y)
      <3>1. v \in Int /\ w \in Int BY <1>7
      <3>2. Worth(limbs) = IF ~less THEN v + w ELSE IF rev THEN w - v ELSE v - w BY <2>8
      <3>3. /\ Stands(a, rdx) = IF a.neg THEN -v ELSE v
            /\ Stands(b, rdx) = IF b.neg THEN -w ELSE w
        BY <1>8
      <3> HIDE DEF v, w
      <3> QED BY <1>1, <2>3, <2>5, <2>6, <2>9, <3>1, <3>2, <3>3
    <2> QED BY <1>12, <2>9, <2>10 DEF scale, rdx, r
  <1> QED BY <1>10, <1>11, <1>12

\* bc_num_cmp(): numbers compare as what they stand for does, whatever their
\* signs, their lengths and the limbs only one of them has behind the point.
THEOREM Ordered ==
    ASSUME Based, Digits, NEW a, NEW b, Number(a), Number(b)
    PROVE  LET rdx == Bigger(Rdx(a), Rdx(b))
           IN  Cmp(a, b) = IF Stands(a, rdx) < Stands(b, rdx) THEN -1
                           ELSE IF Stands(a, rdx) = Stands(b, rdx) THEN 0 ELSE 1
  <1> DEFINE rdx == Bigger(Rdx(a), Rdx(b))
             x == Aligned(a, rdx)
             y == Aligned(b, rdx)
             v == Worth(x)
             w == Worth(y)
             sign == IF a.neg THEN -1 ELSE 1
             c == Compare(x, y)
             s == Stands(a, rdx)
             t == Stands(b, rdx)
  <1>1. a.scale \in Nat /\ b.scale \in Nat /\ a.neg \in BOOLEAN /\ b.neg \in BOOLEAN
        /\ (IsZero(a) => ~a.neg) /\ (IsZero(b) => ~b.neg)
    BY DEF Number
  <1>2. Rdx(a) \in Nat /\ Rdx(b) \in Nat BY <1>1, RdxGrows DEF Rdx
  <1>3. rdx \in Nat /\ rdx >= Rdx(a) /\ rdx >= Rdx(b) BY <1>2, BiggerIs
  <1>4. Cmp(a, b) =
            IF IsZero(a) THEN (IF IsZero(b) THEN 0 ELSE IF b.neg THEN 1 ELSE -1)
            ELSE IF IsZero(b) \/ a.neg # b.neg THEN sign
            ELSE IF IntLimbs(a) # IntLimbs(b) THEN (IF IntLimbs(a) < IntLimbs(b) THEN -sign ELSE sign)
            ELSE sign * c
    BY DEF Cmp
  <1> HIDE DEF rdx
  <1>5. /\ x \in Seq(Digit) /\ IntLimbs(a) \in Nat /\ Len(x) = rdx + IntLimbs(a)
        /\ IntLimbs(a) > 0 => Limb(x, Len(x)) >= 1
        /\ IsZero(a) => v = 0
        /\ ~IsZero(a) => v >= 1
    BY <1>3, AlignedIs
  <1>6. /\ y \in Seq(Digit) /\ IntLimbs(b) \in Nat /\ Len(y) = rdx + IntLimbs(b)
        /\ IntLimbs(b) > 0 => Limb(y, Len(y)) >= 1
        /\ IsZero(b) => w = 0
        /\ ~IsZero(b) => w >= 1
    BY <1>3, AlignedIs
  <1>7. s = (IF a.neg THEN -v ELSE v) /\ t = (IF b.neg THEN -w ELSE w) BY DEF Stands
  <1> HIDE DEF x, y
  <1>8. v \in Int /\ w \in Int BY <1>5, <1>6, DigitIsInt, WorthIsInt
  <1>9. IntLimbs(a) < IntLimbs(b) => v < w
    <2> SUFFICES ASSUME IntLimbs(a) < IntLimbs(b) PROVE v < w OBVIOUS
    <2>1. Len(x) < Len(y) /\ IntLimbs(b) > 0 BY <1>3, <1>5, <1>6
    <2> QED BY <1>5, <1>6, <2>1, Longer
  <1>10. IntLimbs(b) < IntLimbs(a) => w < v
    <2> SUFFICES ASSUME IntLimbs(b) < IntLimbs(a) PROVE w < v OBVIOUS
    <2>1. Len(y) < Len(x) /\ IntLimbs(a) > 0 BY <1>3, <1>5, <1>6
    <2> QED BY <1>5, <1>6, <2>1, Longer
  <1>11. IntLimbs(a) = IntLimbs(b) => /\ v < w => c = -1
                                      /\ v = w => c = 0
                                      /\ v > w => c = 1
    <2> SUFFICES ASSUME IntLimbs(a) = IntLimbs(b)
                 PROVE  (v < w => c = -1) /\ (v = w => c = 0) /\ (v > w => c = 1)
      OBVIOUS
    <2>1. Len(x) = Len(y) BY <1>5, <1>6
    <2> QED BY <1>5, <1>6, <2>1, Comparison
  <1> HIDE DEF v, w, c, s, t
  <1>12. CASE IsZero(a) \/ IsZero(b) \/ a.neg # b.neg
    <2>1. Cmp(a, b) = IF s < t THEN -1 ELSE IF s = t THEN 0 ELSE 1
      BY <1>1, <1>4, <1>5, <1>6, <1>7, <1>8, <1>12
    <2> QED BY <2>1 DEF s, t, rdx
  <1>13. CASE ~IsZero(a) /\ ~IsZero(b) /\ a.neg = b.neg /\ IntLimbs(a) # IntLimbs(b)
    <2>1. Cmp(a, b) = IF IntLimbs(a) < IntLimbs(b) THEN -sign ELSE sign BY <1>4, <1>13
    <2>2. IntLimbs(a) < IntLimbs(b) \/ IntLimbs(b) < IntLimbs(a) BY <1>5, <1>6, <1>13
    <2>3. Cmp(a, b) = IF s < t THEN -1 ELSE IF s = t THEN 0 ELSE 1
      BY <1>1, <1>5, <1>6, <1>7, <1>8, <1>9, <1>10, <1>13, <2>1, <2>2
    <2> QED BY <2>3 DEF s, t, rdx
  <1>14. CASE ~IsZero(a) /\ ~IsZero(b) /\ a.neg = b.neg /\ IntLimbs(a) = IntLimbs(b)
    <2>1. Cmp(a, b) = sign * c BY <1>4, <1>14
    <2>2. \/ v < w /\ c = -1
          \/ v = w /\ c = 0
          \/ v > w /\ c = 1
      BY <1>8, <1>11, <1>14
    <2>3. Cmp(a, b) = IF s < t THEN -1 ELSE IF s = t THEN 0 ELSE 1
      BY <1>1, <1>7, <1>8, <1>14, <2>1, <2>2
    <2> QED BY <2>3 DEF s, t, rdx
  <1> QED BY <1>12, <1>13, <1>14

-----------------------------------------------------------------------------
(* Multiplication of arrays                                                *)

\* A limb below the others.
LEMMA OneBelow ==
    ASSUME Based, NEW x \in Int, NEW a \in Seq(Int), NEW c \in Seq(Int), NEW n \in Nat,
           n >= Len(a), n + 1 >= Len(c),
           Limb(c, 1) = x, \A i \in 1..n : Limb(c, i + 1) = Limb(a, i)
    PROVE  Worth(c) = x + BasePow * Worth(a)
  <1>1. PICK u : Tower(a, n, u) /\ u[1] = Worth(a) BY WorthTower
  <1>2. PICK m \in Nat : m = n + 1 OBVIOUS
  <1>3. m >= Len(c) BY <1>2
  <1>4. PICK w : Tower(c, m, w) /\ w[1] = Worth(c) BY <1>3, WorthTower
  <1> DEFINE T == {i \in 1..(n + 1) : w[i + 1] = u[i]}
  <1>5. n + 1 \in T
    <2>1. u[m] = 0 /\ w[m + 1] = 0 BY <1>1, <1>2, <1>4 DEF Tower
    <2>2. m \in 1..(n + 1) BY <1>2
    <2>3. m \in T BY <2>1, <2>2
    <2> QED BY <1>2, <2>3
  <1>6. ASSUME NEW i \in 1..n, i + 1 \in T PROVE i \in T
    <2>1. PICK k \in Nat : k = i + 1 OBVIOUS
    <2>2. k \in 1..m /\ w[k + 1] = u[k] BY <1>2, <1>6, <2>1
    <2>3. w[k] = Limb(c, k) + BasePow * w[k + 1] BY <1>4, <2>2 DEF Tower
    <2>4. u[i] = Limb(a, i) + BasePow * u[k] BY <1>1, <2>1 DEF Tower
    <2>5. Limb(c, k) = Limb(a, i) BY <2>1
    <2>6. w[k] = u[i] BY <2>2, <2>3, <2>4, <2>5
    <2> QED BY <2>1, <2>6
  <1> HIDE DEF T
  <1>7. \A i \in 1..(n + 1) : i \in T BY <1>5, <1>6, DownInduction
  <1>8. 1 \in T BY <1>7
  <1>9. w[2] = u[1] BY <1>8 DEF T
  <1>10. 1 \in 1..m BY <1>2
  <1>11. w[1] = Limb(c, 1) + BasePow * w[2]
    <2>1. w[1] = Limb(c, 1) + BasePow * w[1 + 1] BY <1>4, <1>10 DEF Tower
    <2> QED BY <2>1
  <1> QED BY <1>1, <1>4, <1>9, <1>11

\* The sums of a column, one product after the other.
Partial(a, b, k, s) ==
    /\ s \in [0..Len(a) -> Int]
    /\ s[0] = 0
    /\ \A i \in 1..Len(a) : s[i] = s[i - 1] + a[i] * Limb(b, k + 1 - i)

\* A place of an array of integers, or what is beyond it.
LEMMA LimbTyped ==
    ASSUME NEW a \in Seq(Int), NEW i \in Int
    PROVE  Limb(a, i) \in Int /\ (i < 1 => Limb(a, i) = 0)
  BY DEF Limb

\* A product is an integer.
LEMMA Multiplied == \A x, y \in Int : x * y \in Int
  OBVIOUS

\* A column is the last of the sums of its products.
LEMMA ColumnIs ==
    ASSUME NEW a \in Seq(Int), NEW b \in Seq(Int), NEW k \in Int
    PROVE  \E s : Partial(a, b, k, s) /\ Column(a, b, k) = s[Len(a)]
  <1> DEFINE n == Len(a)
             Is(g) == g = [i \in 0..n |-> IF i = 0 THEN 0 ELSE g[i - 1] + a[i] * Limb(b, k + 1 - i)]
             c == CHOOSE g : Is(g)
             step == [p \in (1..n) \X Int |-> p[2] + a[p[1]] * Limb(b, k + 1 - p[1])]
  <1>1. n \in Nat /\ 0 \in Int OBVIOUS
  <1>2. \A i \in 1..n : a[i] * Limb(b, k + 1 - i) \in Int
    <2> TAKE i \in 1..n
    <2>1. k + 1 - i \in Int /\ a[i] \in Int BY <1>1
    <2> QED BY <2>1, LimbTyped, Multiplied
  <1>3. ASSUME NEW i \in 1..n, NEW x \in Int
        PROVE  step[<<i, x>>] = x + a[i] * Limb(b, k + 1 - i) /\ step[<<i, x>>] \in Int
    <2>1. <<i, x>> \in (1..n) \X Int OBVIOUS
    <2>2. step[<<i, x>>] = x + a[i] * Limb(b, k + 1 - i) BY <2>1
    <2> QED BY <1>2, <2>2
  <1> HIDE DEF step, n
  <1>4. Steps(step, Int, n) BY <1>3, Zenon DEF Steps
  <1>5. \E f : Chain(f, 0, step, Int, n) BY <1>1, <1>4, Recursion, Zenon
  <1>6. PICK f : Chain(f, 0, step, Int, n) BY <1>5
  <1>7. Is(f)
    <2>1. ASSUME NEW i \in 1..n PROVE f[i] = f[i - 1] + a[i] * Limb(b, k + 1 - i)
      <3>1. i - 1 \in 0..n BY <1>1
      <3>2. f[i - 1] \in Int BY <1>6, <3>1 DEF Chain
      <3> QED BY <1>3, <1>6, <3>2 DEF Chain
    <2>2. ASSUME NEW i \in 0..n
          PROVE  f[i] = IF i = 0 THEN 0 ELSE f[i - 1] + a[i] * Limb(b, k + 1 - i)
      <3>1. i = 0 \/ i \in 1..n BY <1>1
      <3>2. f[0] = 0 BY <1>6 DEF Chain
      <3> QED BY <2>1, <3>1, <3>2
    <2> QED BY <1>6, <2>2 DEF Chain
  <1>8. Is(c) BY <1>7
  <1>9. Column(a, b, k) = c[n] BY DEF Column, n
  <1> HIDE DEF c
  <1>10. /\ c = [i \in 0..n |-> c[i]]
         /\ c[0] = 0
         /\ \A i \in 1..n : c[i] = c[i - 1] + a[i] * Limb(b, k + 1 - i)
    <2>1. \A i \in 0..n : c[i] = IF i = 0 THEN 0 ELSE c[i - 1] + a[i] * Limb(b, k + 1 - i)
      BY <1>8, Zenon
    <2>2. 0 \in 0..n /\ \A i \in 1..n : i \in 0..n /\ i # 0 BY <1>1
    <2>3. DOMAIN c = 0..n /\ c = [i \in DOMAIN c |-> c[i]] BY <1>8
    <2> QED BY <2>1, <2>2, <2>3
  <1> DEFINE T == {i \in 0..n : c[i] \in Int}
  <1>11. 0 \in T BY <1>1, <1>10
  <1>12. ASSUME NEW i \in 0..(n - 1), i \in T PROVE i + 1 \in T
    <2>1. PICK m : m = i + 1 OBVIOUS
    <2>2. m \in 1..n /\ m \in 0..n /\ m - 1 = i /\ c[i] \in Int BY <1>1, <1>12, <2>1
    <2>3. c[m] = c[i] + a[m] * Limb(b, k + 1 - m) BY <1>10, <2>2
    <2>4. c[m] \in Int
      <3> DEFINE y == a[m] * Limb(b, k + 1 - m)
      <3>1. y \in Int BY <1>2, <2>2
      <3>2. c[m] = c[i] + y BY <2>3
      <3> HIDE DEF y
      <3> QED BY <2>2, <3>1, <3>2
    <2>5. m \in T BY <2>2, <2>4
    <2> QED BY <2>1, <2>5
  <1> HIDE DEF T
  <1>13. \A i \in 0..n : i \in T BY <1>1, <1>11, <1>12, Induction
  <1>14. c \in [0..n -> Int] BY <1>10, <1>13 DEF T
  <1>15. Partial(a, b, k, c) BY <1>10, <1>14 DEF Partial, n
  <1> QED BY <1>9, <1>15 DEF n

\* The products that a column has not.
LEMMA NothingMore ==
    ASSUME NEW a \in Seq(Int), NEW b \in Seq(Int), NEW k \in 0..Len(a), NEW s, Partial(a, b, k, s)
    PROVE  s[Len(a)] = s[k]
  <1> DEFINE n == Len(a)
             T == {i \in 0..n : i >= k => s[i] = s[k]}
  <1>1. n \in Nat /\ k \in 0..n OBVIOUS
  <1>2. 0 \in T BY <1>1
  <1>3. ASSUME NEW i \in 0..(n - 1), i \in T PROVE i + 1 \in T
    <2>1. PICK m \in Nat : m = i + 1 OBVIOUS
    <2>2. m \in 1..n /\ m \in 0..n /\ m - 1 = i BY <1>1, <2>1
    <2>3. CASE m <= k BY <1>1, <2>1, <2>2, <2>3
    <2>4. CASE m > k
      <3>1. s[i] = s[k] /\ s[i] \in Int
        <4>1. i >= k /\ i \in 0..n BY <1>1, <2>1, <2>4
        <4>2. s[i] \in Int BY <4>1 DEF Partial
        <4> QED BY <1>3, <4>1, <4>2
      <3>2. s[m] = s[i] + a[m] * Limb(b, k + 1 - m) BY <2>2 DEF Partial
      <3>3. k + 1 - m \in Int /\ k + 1 - m < 1 /\ a[m] \in Int BY <1>1, <2>2, <2>4
      <3>4. Limb(b, k + 1 - m) = 0 BY <3>3, LimbTyped
      <3>5. s[m] = s[k] BY <3>1, <3>2, <3>3, <3>4
      <3> QED BY <2>1, <2>2, <3>5
    <2> QED BY <1>1, <2>3, <2>4
  <1> HIDE DEF T, n
  <1>4. \A i \in 0..n : i \in T BY <1>1, <1>2, <1>3, Induction
  <1>5. n \in T /\ n >= k BY <1>1, <1>4
  <1> QED BY <1>5 DEF T, n

\* A place more of the first factor of a product.
LEMMA Horner ==
    \A x, y, v, b : x \in Int /\ y \in Int /\ v \in Int /\ b \in Int
                    => x * y + 1 * (0 + b * (v * y)) = (x + b * v) * y
  OBVIOUS

\* The columns stand for the product.
LEMMA Convolved ==
    ASSUME Based, NEW a \in Seq(Int), NEW b \in Seq(Int), Len(a) > 0, Len(b) > 0
    PROVE  LET c == [k \in 1..(Len(a) + Len(b) - 1) |-> Column(a, b, k)]
           IN  c \in Seq(Int) /\ Len(c) = Len(a) + Len(b) - 1 /\ Worth(c) = Worth(a) * Worth(b)
  <1> DEFINE la == Len(a)  lb == Len(b)  n == la + lb - 1
             S(k) == CHOOSE s : Partial(a, b, k, s) /\ Column(a, b, k) = s[la]
             E(m) == [j \in 1..(n + 1 - m) |-> S(m + j - 1)[la] - S(m + j - 1)[m - 1]]
             y == Worth(b)
             c == [k \in 1..n |-> Column(a, b, k)]
  <1>1. la \in Nat /\ lb \in Nat /\ la > 0 /\ lb > 0 /\ n \in Nat OBVIOUS
  <1>2. ASSUME NEW k \in Int PROVE Partial(a, b, k, S(k)) /\ Column(a, b, k) = S(k)[la]
    <2>1. \E s : Partial(a, b, k, s) /\ Column(a, b, k) = s[la] BY ColumnIs
    <2> QED BY <2>1
  <1>3. \A k \in Int : /\ \A i \in 0..la : S(k)[i] \in Int
                       /\ S(k)[0] = 0
                       /\ \A i \in 1..la : S(k)[i] = S(k)[i - 1] + a[i] * Limb(b, k + 1 - i)
    <2> TAKE k \in Int
    <2>1. Partial(a, b, k, S(k)) BY <1>2
    <2> HIDE DEF S
    <2> QED BY <2>1 DEF Partial
  <1>4. \A k \in 0..la : S(k)[la] = S(k)[k]
    <2> TAKE k \in 0..la
    <2>1. Partial(a, b, k, S(k)) BY <1>1, <1>2
    <2> HIDE DEF S
    <2> QED BY <2>1, NothingMore
  <1>5. \A k \in Int : Column(a, b, k) = S(k)[la] BY <1>2
  <1> HIDE DEF S
  <1>6. ASSUME NEW m \in 1..(la + 1)
        PROVE  /\ E(m) \in Seq(Int) /\ Len(E(m)) = n + 1 - m
               /\ \A j \in 1..(n + 1 - m) : Limb(E(m), j) = S(m + j - 1)[la] - S(m + j - 1)[m - 1]
    <2> DEFINE e == E(m)
    <2>1. \A j \in 1..(n + 1 - m) : e[j] = S(m + j - 1)[la] - S(m + j - 1)[m - 1] OBVIOUS
    <2>2. ASSUME NEW j \in 1..(n + 1 - m) PROVE e[j] \in Int
      <3>1. PICK k \in Int : k = m + j - 1 BY <1>1
      <3>2. la \in 0..la /\ m - 1 \in 0..la BY <1>1
      <3>3. S(k)[la] \in Int /\ S(k)[m - 1] \in Int BY <1>3, <3>2
      <3> QED BY <2>1, <3>1, <3>3
    <2>3. e = [j \in 1..(n + 1 - m) |-> e[j]] OBVIOUS
    <2>4. n + 1 - m \in Nat BY <1>1
    <2> HIDE DEF e
    <2>5. e \in [1..(n + 1 - m) -> Int] BY <2>2, <2>3
    <2>6. e \in Seq(Int) /\ Len(e) = n + 1 - m /\ \A j \in 1..(n + 1 - m) : Limb(e, j) = e[j]
      BY <2>4, <2>5, ArrayOf
    <2>7. /\ e \in Seq(Int) /\ Len(e) = n + 1 - m
          /\ \A j \in 1..(n + 1 - m) : Limb(e, j) = S(m + j - 1)[la] - S(m + j - 1)[m - 1]
      BY <2>1, <2>6
    <2> QED BY <2>7 DEF e
  <1>7. c = E(1)
    <2>1. n + 1 - 1 = n BY <1>1
    <2>2. ASSUME NEW j \in 1..n PROVE Column(a, b, j) = S(1 + j - 1)[la] - S(1 + j - 1)[1 - 1]
      <3>1. 1 + j - 1 = j /\ 1 - 1 = 0 /\ j \in Int /\ la \in 0..la BY <1>1
      <3>2. S(j)[la] \in Int /\ S(j)[0] = 0 BY <1>3, <3>1
      <3> QED BY <1>5, <3>1, <3>2
    <2> QED BY <2>1, <2>2
  <1> HIDE DEF E, n
  <1>8. PICK w : Tower(a, la, w) /\ w[1] = Worth(a) BY <1>1, WorthTower
  <1>9. y \in Int BY WorthIsInt
  <1> DEFINE T == {m \in 1..(la + 1) : Worth(E(m)) = w[m] * y}
  <1>10. la + 1 \in T
    <2>1. PICK m \in 1..(la + 1) : m = la + 1 BY <1>1
    <2>2. n + 1 - m \in Nat BY <1>1, <2>1 DEF n
    <2>3. ASSUME NEW j \in 1..(n + 1 - m) PROVE Limb(E(m), j) = 0
      <3>1. PICK k \in Int : k = m + j - 1
        <4>1. j \in Int /\ m \in Int BY <1>1, <2>2
        <4> QED BY <4>1
      <3>2. m - 1 = la /\ la \in 0..la BY <1>1, <2>1
      <3>3. S(k)[la] \in Int BY <1>3, <3>2
      <3>4. Limb(E(m), j) = S(k)[la] - S(k)[la] BY <1>6, <3>1, <3>2
      <3> QED BY <3>3, <3>4
    <2>4. E(m) \in Seq(Int) /\ Len(E(m)) = n + 1 - m BY <1>6
    <2>5. Worth(E(m)) = 0
      <3> DEFINE e == E(m)  l == n + 1 - m
      <3>1. e \in Seq(Int) /\ l \in Nat /\ l >= Len(e) BY <2>2, <2>4
      <3>2. \A j \in 1..l : Limb(e, j) = 0 * Limb(e, j) + 0 * Limb(e, j) BY <2>3
      <3> HIDE DEF e, l
      <3>3. Worth(e) = 0 * Worth(e) + 0 * Worth(e) BY <3>1, <3>2, Linear
      <3>4. Worth(e) = 0 BY <3>1, <3>3, WorthIsInt
      <3> QED BY <3>4 DEF e
    <2>6. w[m] = 0 BY <1>8, <2>1 DEF Tower
    <2>7. w[m] * y = 0 BY <1>9, <2>6
    <2>8. m \in T BY <2>5, <2>7
    <2> QED BY <2>1, <2>8
  <1>11. ASSUME NEW m \in 1..la, m + 1 \in T PROVE m \in T
    <2>1. PICK p \in 1..(la + 1) : p = m + 1 BY <1>1
    <2> DEFINE e == E(m)  f == E(p)  l == n - m  q == n + 1 - m
               g == [j \in 1..q |-> IF j = 1 THEN 0 ELSE f[j - 1]]
    <2>2. /\ m \in 1..(la + 1) /\ l \in Nat /\ q \in Nat /\ q = l + 1 /\ n + 1 - p = l
          /\ q >= lb /\ m - 1 \in 0..la /\ m \in 0..la /\ p - 1 = m
      BY <1>1, <2>1 DEF n
    <2>3. /\ e \in Seq(Int) /\ Len(e) = q
          /\ \A j \in 1..q : Limb(e, j) = S(m + j - 1)[la] - S(m + j - 1)[m - 1]
      BY <1>6, <2>2
    <2>4. /\ f \in Seq(Int) /\ Len(f) = l
          /\ \A j \in 1..l : Limb(f, j) = S(p + j - 1)[la] - S(p + j - 1)[m]
      BY <1>6, <2>2
    <2> HIDE DEF e, f, l, q
    <2>5. g \in [1..q -> Int]
      <3>1. ASSUME NEW j \in 1..q PROVE (IF j = 1 THEN 0 ELSE f[j - 1]) \in Int
        <4>1. CASE j = 1 BY <4>1
        <4>2. CASE j # 1
          <5>1. j - 1 \in 1..Len(f) BY <2>2, <2>4, <4>2
          <5>2. f[j - 1] \in Int BY <2>4, <5>1
          <5> QED BY <4>2, <5>2
        <4> QED BY <4>1, <4>2
      <3> QED BY <3>1
    <2>6. \A j \in 1..q : g[j] = IF j = 1 THEN 0 ELSE f[j - 1] BY Zenon
    <2> HIDE DEF g
    <2>7. g \in Seq(Int) /\ Len(g) = q /\ \A j \in 1..q : Limb(g, j) = g[j]
      <3>1. q \in Nat BY <2>2
      <3> QED BY <2>5, <3>1, ArrayOf, Zenon
    <2>8. Worth(g) = 0 + BasePow * Worth(f)
      <3>1. Limb(g, 1) = 0
        <4>1. 1 \in 1..q BY <2>2
        <4> QED BY <2>6, <2>7, <4>1
      <3>2. ASSUME NEW j \in 1..l PROVE Limb(g, j + 1) = Limb(f, j)
        <4>1. PICK i \in 1..q : i = j + 1 BY <2>2
        <4>2. i # 1 /\ i - 1 = j BY <2>2, <4>1
        <4>3. Limb(g, i) = f[j] BY <2>6, <2>7, <4>2
        <4>4. Limb(f, j) = f[j] BY <2>4 DEF Limb
        <4> QED BY <4>1, <4>3, <4>4
      <3>3. l >= Len(f) /\ l + 1 >= Len(g) BY <2>2, <2>4, <2>7
      <3>4. 0 \in Int OBVIOUS
      <3> QED BY <2>2, <2>4, <2>7, <3>1, <3>2, <3>3, <3>4, OneBelow
    <2>9. ASSUME NEW j \in 1..q PROVE Limb(e, j) = a[m] * Limb(b, j) + 1 * Limb(g, j)
      <3>1. PICK k \in Int : k = m + j - 1 BY <2>2
      <3>2. k + 1 - m = j /\ la \in 0..la /\ j \in Nat BY <1>1, <2>2, <3>1
      <3> DEFINE x == a[m] * Limb(b, j)  t == S(k)[la]  u == S(k)[m]  v == S(k)[m - 1]
      <3>3. t \in Int /\ u \in Int /\ v \in Int BY <1>3, <2>2, <3>2
      <3>4. u = v + a[m] * Limb(b, k + 1 - m) BY <1>3
      <3>5. u = v + x BY <3>2, <3>4
      <3>6. x \in Int
        <4>1. a[m] \in Int BY <1>1
        <4>2. Limb(b, j) \in Int BY <3>2, LimbTyped
        <4> QED BY <4>1, <4>2, Multiplied
      <3>7. Limb(e, j) = t - v BY <2>3, <3>1
      <3>8. Limb(g, j) = t - u
        <4>1. CASE j = 1
          <5>1. k = m /\ k \in 0..la BY <2>2, <3>1, <4>1
          <5>2. t = u BY <1>4, <5>1
          <5>3. Limb(g, j) = 0 BY <2>6, <2>7, <4>1
          <5>4. t - t = 0 BY <3>3
          <5> QED BY <5>2, <5>3, <5>4
        <4>2. CASE j # 1
          <5>1. PICK i \in 1..l : i = j - 1 BY <2>2, <4>2
          <5>2. p + i - 1 = k BY <2>1, <3>1, <5>1
          <5>3. Limb(f, i) = t - u BY <2>4, <5>2
          <5>4. Limb(f, i) = f[i] BY <2>4 DEF Limb
          <5>5. Limb(g, j) = f[i] BY <2>6, <2>7, <4>2, <5>1
          <5> QED BY <5>3, <5>4, <5>5
        <4> QED BY <4>1, <4>2
      <3> HIDE DEF x, t, u, v
      <3>9. Limb(e, j) = x + 1 * Limb(g, j) BY <3>3, <3>5, <3>6, <3>7, <3>8
      <3> QED BY <3>9 DEF x
    <2>10. a[m] \in Int /\ 1 \in Int /\ q >= Len(b) /\ q >= Len(g) /\ q >= Len(e)
      BY <1>1, <2>2, <2>3, <2>7
    <2>11. Worth(e) = a[m] * y + 1 * Worth(g)
      <3> DEFINE x == a[m]
      <3>1. /\ b \in Seq(Int) /\ g \in Seq(Int) /\ e \in Seq(Int) /\ x \in Int /\ 1 \in Int /\ q \in Nat
            /\ q >= Len(b) /\ q >= Len(g) /\ q >= Len(e)
        BY <2>2, <2>3, <2>7, <2>10
      <3>2. \A j \in 1..q : Limb(e, j) = x * Limb(b, j) + 1 * Limb(g, j) BY <2>9
      <3> HIDE DEF x
      <3>3. Worth(e) = x * Worth(b) + 1 * Worth(g) BY <3>1, <3>2, Linear, SMTT(30)
      <3> QED BY <3>3 DEF x
    <2>12. Worth(f) = w[p] * y BY <1>11, <2>1 DEF f
    <2>13. w[m] = a[m] + BasePow * w[p] /\ w[p] \in Int
      <3>1. Limb(a, m) = a[m] BY <1>1 DEF Limb
      <3> QED BY <1>8, <2>1, <3>1 DEF Tower
    <2>14. Worth(e) = w[m] * y
      <3> DEFINE x == a[m]  v == w[p]  k == BasePow
      <3>1. x \in Int /\ v \in Int /\ k \in Int /\ y \in Int BY <1>9, <2>10, <2>13 DEF Based
      <3>2. Worth(e) = x * y + 1 * (0 + k * (v * y)) BY <2>8, <2>11, <2>12
      <3>3. w[m] = x + k * v BY <2>13
      <3> HIDE DEF x, v, k, y
      <3>4. x * y + 1 * (0 + k * (v * y)) = (x + k * v) * y BY <3>1, Horner
      <3> QED BY <3>2, <3>3, <3>4
    <2> QED BY <2>2, <2>14 DEF e
  <1> HIDE DEF T
  <1>12. \A m \in 1..(la + 1) : m \in T BY <1>1, <1>10, <1>11, DownInduction
  <1>13. 1 \in T /\ 1 \in 1..(la + 1) BY <1>1, <1>12
  <1>14. Worth(E(1)) = Worth(a) * y BY <1>8, <1>13 DEF T
  <1>15. E(1) \in Seq(Int) /\ Len(E(1)) = n + 1 - 1 BY <1>6, <1>13
  <1>16. n + 1 - 1 = n BY <1>1
  <1>17. c \in Seq(Int) /\ Len(c) = n /\ Worth(c) = Worth(a) * y BY <1>7, <1>14, <1>15, <1>16
  <1> QED BY <1>17 DEF n

-----------------------------------------------------------------------------
(* Powers of the base                                                      *)

\* A one with m limbs below it.
Unit(m) == Zeros(m) \o <<1>>

\* The array of one limb m places up: all its places are zero but that.
LEMMA UnitIs ==
    ASSUME Based, NEW m \in Nat
    PROVE  /\ Unit(m) \in Seq(Digit) /\ Unit(m) \in Seq(Int) /\ Len(Unit(m)) = m + 1
           /\ Limb(Unit(m), m + 1) = 1
           /\ \A i \in Nat \ {0} : i # m + 1 => Limb(Unit(m), i) = 0
           /\ Worth(Unit(m)) \in Nat /\ Worth(Unit(m)) >= 1
  <1> DEFINE u == Unit(m)  o == <<1>>
  <1>1. o \in Seq(Digit) /\ Len(o) = 1 /\ o[1] = 1 BY DEF Digit, Based
  <1>2. \A i \in Int : Limb(o, i) = IF i = 1 THEN 1 ELSE 0 BY <1>1 DEF Limb
  <1>3. u = Zeros(m) \o o BY DEF Unit
  <1> HIDE DEF o, u
  <1>4. /\ u \in Seq(Digit) /\ Len(u) = m + 1
        /\ \A i \in Nat \ {0} : Limb(u, i) = IF i <= m THEN 0 ELSE Limb(o, i - m)
    BY <1>1, <1>3, ZerosBelow
  <1>5. ASSUME NEW i \in Nat \ {0} PROVE Limb(u, i) = IF i = m + 1 THEN 1 ELSE 0
    <2>1. PICK k \in Int : k = i - m OBVIOUS
    <2>2. Limb(u, i) = IF i <= m THEN 0 ELSE Limb(o, k) BY <1>4, <2>1
    <2>3. Limb(o, k) = IF k = 1 THEN 1 ELSE 0 BY <1>2
    <2> QED BY <2>1, <2>2, <2>3
  <1>6. PICK k \in Nat \ {0} : k = m + 1 OBVIOUS
  <1>7. Limb(u, k) = 1 BY <1>5, <1>6
  <1>8. k \in 1..Len(u) /\ u[k] # 0 BY <1>4, <1>6, <1>7 DEF Limb
  <1>9. Worth(u) \in Nat /\ Worth(u) >= 1 BY <1>4, <1>8, WorthIsNat
  <1>10. u \in Seq(Int) BY <1>4, DigitIsInt
  <1> QED BY <1>4, <1>5, <1>6, <1>7, <1>9, <1>10 DEF u

\* A place more is worth the base.
LEMMA UnitNext ==
    ASSUME Based, NEW m \in Nat
    PROVE  Worth(Unit(m + 1)) = BasePow * Worth(Unit(m))
  <1> DEFINE u == Unit(m)  v == Unit(m + 1)
  <1>1. PICK n \in Nat : n = m + 1 OBVIOUS
  <1>2. /\ u \in Seq(Int) /\ Len(u) = n /\ Worth(u) \in Nat
        /\ Limb(u, n) = 1 /\ \A i \in Nat \ {0} : i # n => Limb(u, i) = 0
    BY <1>1, UnitIs
  <1>3. /\ v \in Seq(Int) /\ Len(v) = n + 1
        /\ Limb(v, n + 1) = 1 /\ \A i \in Nat \ {0} : i # n + 1 => Limb(v, i) = 0
    BY <1>1, UnitIs
  <1> HIDE DEF u, v
  <1>4. Limb(v, 1) = 0 BY <1>1, <1>3
  <1>5. ASSUME NEW i \in 1..n PROVE Limb(v, i + 1) = Limb(u, i)
    <2>1. PICK k \in Nat \ {0} : k = i + 1 OBVIOUS
    <2>2. CASE i = n BY <1>2, <1>3, <2>2
    <2>3. CASE i # n
      <3>1. k # n + 1 BY <2>1, <2>3
      <3>2. Limb(v, k) = 0 BY <1>3, <3>1
      <3>3. Limb(u, i) = 0 BY <1>2, <2>3
      <3> QED BY <2>1, <3>2, <3>3
    <2> QED BY <2>2, <2>3
  <1>6. 0 \in Int /\ n >= Len(u) /\ n + 1 >= Len(v) BY <1>2, <1>3
  <1>7. Worth(v) = 0 + BasePow * Worth(u) BY <1>2, <1>3, <1>4, <1>5, <1>6, OneBelow
  <1>8. BasePow * Worth(u) \in Int BY <1>2, Multiplied DEF Based
  <1>9. Worth(v) = BasePow * Worth(u) BY <1>7, <1>8
  <1> QED BY <1>9 DEF u, v

\* A product in another order.
LEMMA Regrouped == \A b, u, v \in Int : u * (b * v) = b * (u * v)
  OBVIOUS

\* No place up, it is one.
LEMMA UnitZero ==
    ASSUME Based
    PROVE  Worth(Unit(0)) = 1
  <1> DEFINE u == Unit(0)  e == <<>>
  <1>1. PICK z \in Nat : z = 0 OBVIOUS
  <1>2. /\ u \in Seq(Int) /\ Len(u) = 1 /\ Limb(u, 1) = 1
    <2>1. 0 + 1 = 1 OBVIOUS
    <2> QED BY <2>1, UnitIs
  <1>3. e \in Seq(Digit) /\ e \in Seq(Int) /\ Len(e) = 0 /\ \A i \in 1..Len(e) : e[i] = 0 OBVIOUS
  <1>4. Worth(e) = 0 BY <1>3, WorthIsNat
  <1> HIDE DEF u, e
  <1>5. z >= Len(e) /\ z + 1 >= Len(u) /\ 1 \in Int BY <1>1, <1>2, <1>3
  <1>6. \A i \in 1..z : Limb(u, i + 1) = Limb(e, i) BY <1>1
  <1>7. Worth(u) = 1 + BasePow * Worth(e) BY <1>2, <1>3, <1>5, <1>6, OneBelow
  <1>8. Worth(u) = 1 BY <1>4, <1>7 DEF Based
  <1> QED BY <1>8 DEF u

\* Places add up.
LEMMA UnitTimes ==
    ASSUME Based, NEW m \in Nat, NEW n \in Nat
    PROVE  Worth(Unit(m)) * Worth(Unit(n)) = Worth(Unit(m + n))
  <1> DEFINE T == {k \in 0..n : Worth(Unit(m)) * Worth(Unit(k)) = Worth(Unit(m + k))}
  <1>1. 0 \in T
    <2>1. m + 0 = m /\ Worth(Unit(m)) \in Int BY UnitIs
    <2> QED BY <2>1, UnitZero
  <1>2. ASSUME NEW k \in 0..(n - 1), k \in T PROVE k + 1 \in T
    <2> DEFINE u == Worth(Unit(m))  v == Worth(Unit(k))  w == Worth(Unit(k + 1))
    <2>1. k \in Nat /\ m + k \in Nat /\ m + (k + 1) = (m + k) + 1 /\ k + 1 \in 0..n OBVIOUS
    <2>2. u \in Int /\ v \in Int /\ BasePow \in Int BY <2>1, UnitIs DEF Based
    <2>3. w = BasePow * v BY <2>1, UnitNext
    <2>4. Worth(Unit((m + k) + 1)) = BasePow * Worth(Unit(m + k)) BY <2>1, UnitNext
    <2>5. u * v = Worth(Unit(m + k)) BY <1>2
    <2> HIDE DEF u, v, w
    <2>6. u * w = BasePow * (u * v) BY <2>2, <2>3, Regrouped
    <2>7. u * w = Worth(Unit(m + (k + 1))) BY <2>1, <2>4, <2>5, <2>6
    <2> QED BY <2>1, <2>7 DEF u, w
  <1> HIDE DEF T
  <1>3. n \in T BY <1>1, <1>2, Induction
  <1> QED BY <1>3 DEF T

\* Limbs are less than a one above them.
LEMMA BelowUnit ==
    ASSUME Based, NEW a \in Seq(Digit), NEW m \in Nat, Len(a) <= m
    PROVE  Worth(a) < Worth(Unit(m))
  <1> DEFINE u == Unit(m)
  <1>1. u \in Seq(Digit) /\ Len(u) = m + 1 /\ Limb(u, m + 1) = 1 BY UnitIs
  <1> HIDE DEF u
  <1>2. Len(a) < Len(u) /\ Limb(u, Len(u)) >= 1 BY <1>1
  <1>3. Worth(a) < Worth(u) BY <1>1, <1>2, Longer
  <1> QED BY <1>3 DEF u

\* A limb with limbs below it.
LEMMA TopWorth ==
    ASSUME Based, NEW c \in Seq(Int), NEW n \in Nat, Len(c) <= n + 1,
           \A i \in 1..n : Limb(c, i) \in Digit
    PROVE  LET l == [i \in 1..n |-> Limb(c, i)]
           IN  /\ l \in Seq(Digit) /\ Len(l) = n
               /\ Worth(l) \in Nat /\ Worth(l) < Worth(Unit(n))
               /\ Worth(c) = Limb(c, n + 1) * Worth(Unit(n)) + Worth(l)
  <1> DEFINE l == [i \in 1..n |-> Limb(c, i)]  u == Unit(n)  t == Limb(c, n + 1)
  <1>1. l \in [1..n -> Digit] /\ \A i \in 1..n : l[i] = Limb(c, i) OBVIOUS
  <1> HIDE DEF l
  <1>2. l \in Seq(Digit) /\ Len(l) = n /\ \A i \in 1..n : Limb(l, i) = Limb(c, i)
    BY <1>1, ArrayOf
  <1>3. PICK m \in Nat : m = n + 1 OBVIOUS
  <1>4. /\ u \in Seq(Int) /\ Len(u) = m /\ Worth(u) \in Nat
        /\ Limb(u, m) = 1
        /\ \A i \in Nat \ {0} : i # m => Limb(u, i) = 0
    BY <1>3, UnitIs
  <1>5. t \in Int /\ t = Limb(c, m) BY <1>3, LimbIsInt
  <1>6. l \in Seq(Int) /\ Limb(l, m) = 0 BY <1>2, <1>3, DigitIsInt
  <1> HIDE DEF u, t
  <1>7. ASSUME NEW i \in 1..m PROVE Limb(c, i) = t * Limb(u, i) + 1 * Limb(l, i)
    <2>1. Limb(c, i) \in Int /\ Limb(l, i) \in Int BY <1>6, LimbIsInt
    <2>2. CASE i = m BY <1>4, <1>5, <1>6, <2>1, <2>2
    <2>3. CASE i # m
      <3>1. i \in 1..n /\ i \in Nat \ {0} BY <1>3, <2>3
      <3>2. Limb(u, i) = 0 /\ Limb(l, i) = Limb(c, i) BY <1>2, <1>4, <2>3, <3>1
      <3> QED BY <1>5, <2>1, <3>2
    <2> QED BY <2>2, <2>3
  <1>8. m >= Len(u) /\ m >= Len(l) /\ m >= Len(c) /\ 1 \in Int BY <1>2, <1>3, <1>4
  <1>9. Worth(c) = t * Worth(u) + 1 * Worth(l)
    <2>1. u \in Seq(Int) /\ l \in Seq(Int) /\ t \in Int BY <1>4, <1>5, <1>6
    <2> QED BY <1>7, <1>8, <2>1, Linear, SMTT(30)
  <1>10. Worth(l) \in Nat BY <1>2, WorthIsNat
  <1>11. Worth(l) < Worth(u)
    <2>1. Len(l) <= n BY <1>2
    <2> QED BY <1>2, <2>1, BelowUnit DEF u
  <1>12. Worth(c) = t * Worth(u) + Worth(l) BY <1>9, <1>10
  <1> QED BY <1>2, <1>10, <1>11, <1>12 DEF l, u, t

\* A limb in front is no more than a limb when the whole is less than a limb more
\* than it could have.
LEMMA TopIsDigit ==
    ASSUME Based, NEW t \in Int, NEW u \in Int, NEW l \in Int, NEW p \in Int,
           u >= 1, 0 <= l, l < u, p = t * u + l, 0 <= p, p < BasePow * u
    PROVE  t \in Digit
  <1> DEFINE b == BasePow
  <1>1. b \in Int /\ b > 1 BY DEF Based
  <1> HIDE DEF b
  <1>2. t > -1
    <2> SUFFICES ASSUME t <= -1 PROVE FALSE OBVIOUS
    <2>1. \A x, y \in Int : x <= -1 /\ y >= 1 => x * y <= -y OBVIOUS
    <2>2. t * u <= -u /\ t * u \in Int BY <2>1, Multiplied
    <2> QED BY <2>2
  <1>3. t < b
    <2> SUFFICES ASSUME t >= b PROVE FALSE BY <1>1
    <2>1. \A x, y, z \in Int : x >= y /\ z >= 1 => x * z >= y * z OBVIOUS
    <2>2. t * u >= b * u /\ t * u \in Int /\ b * u \in Int BY <1>1, <2>1, Multiplied
    <2>3. p < b * u BY DEF b
    <2> QED BY <2>2, <2>3
  <1>4. t \in 0..(b - 1) BY <1>1, <1>2, <1>3
  <1> QED BY <1>4 DEF Digit, b

\* bc_num_m_simp(): the columns added up and carried stand for the product of
\* what the two arrays stand for, and the last carry is a limb - which the code
\* asserts.
THEOREM Products ==
    ASSUME Based, NEW a \in Seq(Digit), NEW b \in Seq(Digit), Len(a) > 0, Len(b) > 0
    PROVE  /\ Worth(Simple(a, b)) = Worth(a) * Worth(b)
           /\ Simple(a, b) \in Seq(Digit)
  <1> DEFINE n == Len(a) + Len(b) - 1
             c == [k \in 1..n |-> Column(a, b, k)]
             r == Simple(a, b)
             t == Carries(c)[n]
             u == Worth(Unit(n))
             v == Worth(a)
             w == Worth(b)
             l == [i \in 1..n |-> Limb(r, i)]
  <1>1. a \in Seq(Int) /\ b \in Seq(Int) /\ n \in Nat /\ Len(a) \in Nat /\ Len(b) \in Nat
    BY DigitIsInt
  <1>2. c \in Seq(Int) /\ Len(c) = n /\ Worth(c) = v * w BY <1>1, Convolved
  <1>3. r = Carried(c) BY DEF Simple
  <1> HIDE DEF c, n
  <1>4. /\ r \in Seq(Int)
        /\ Len(r) = n + (IF t = 0 THEN 0 ELSE 1)
        /\ \A i \in 1..n : r[i] \in Digit
        /\ Limb(r, n + 1) = t
        /\ Worth(r) = v * w
    BY <1>2, <1>3, CarriedIs
  <1> HIDE DEF r
  <1>5. \A i \in 1..n : Limb(r, i) \in Digit
    <2> TAKE i \in 1..n
    <2>1. i \in 1..Len(r) BY <1>1, <1>4
    <2> QED BY <1>4, <2>1 DEF Limb
  <1>6. Len(r) <= n + 1 BY <1>1, <1>4
  <1>7. Worth(l) \in Nat /\ Worth(l) < u /\ v * w = t * u + Worth(l)
    <2>1. /\ Worth(l) \in Nat /\ Worth(l) < u
          /\ Worth(r) = Limb(r, n + 1) * u + Worth(l)
      BY <1>1, <1>4, <1>5, <1>6, TopWorth
    <2> QED BY <1>4, <2>1
  <1> HIDE DEF l
  <1>8. u \in Nat /\ u >= 1 BY <1>1, UnitIs
  <1>9. v \in Nat /\ w \in Nat BY WorthIsNat
  <1>10. v * w \in Nat /\ v * w < BasePow * u
    <2> DEFINE x == Worth(Unit(Len(a)))  y == Worth(Unit(Len(b)))
    <2>1. x \in Nat /\ y \in Nat BY <1>1, UnitIs
    <2>2. v < x /\ w < y
      <3>1. Len(a) <= Len(a) /\ Len(b) <= Len(b) BY <1>1
      <3> QED BY <1>1, <3>1, BelowUnit
    <2>3. x * y = Worth(Unit(Len(a) + Len(b))) BY <1>1, UnitTimes
    <2>4. Len(a) + Len(b) = n + 1 BY <1>1 DEF n
    <2>5. Worth(Unit(n + 1)) = BasePow * u BY <1>1, UnitNext
    <2> HIDE DEF x, y, u, v, w
    <2>6. \A i, j, k, m \in Nat : i < k /\ j < m => i * j \in Nat /\ i * j < k * m
      <3> SUFFICES ASSUME NEW i \in Nat, NEW j \in Nat, NEW k \in Nat, NEW m \in Nat, i < k, j < m
                   PROVE  i * j \in Nat /\ i * j < k * m
        OBVIOUS
      <3>1. i * j \in Nat OBVIOUS
      <3>2. i * j <= i * m OBVIOUS
      <3>3. i * m < k * m OBVIOUS
      <3>4. i * m \in Int /\ k * m \in Int OBVIOUS
      <3> QED BY <3>1, <3>2, <3>3, <3>4
    <2>7. v * w \in Nat /\ v * w < x * y BY <1>9, <2>1, <2>2, <2>6
    <2> QED BY <2>3, <2>4, <2>5, <2>7
  <1>11. t \in Int
    <2>1. PICK m \in Nat : m = n + 1 BY <1>1
    <2> QED BY <1>4, <2>1, LimbIsInt
  <1> DEFINE p == v * w  q == Worth(l)
  <1>12. p \in Int /\ 0 <= p /\ p < BasePow * u /\ q \in Int /\ 0 <= q /\ q < u /\ p = t * u + q
    BY <1>7, <1>10
  <1> HIDE DEF t, u, v, w, p, q
  <1>13. t \in Digit
    <2>1. u \in Int /\ u >= 1 /\ t \in Int BY <1>8, <1>11
    <2> QED BY <1>12, <2>1, TopIsDigit, Zenon
  <1>14. r \in Seq(Digit) BY <1>2, <1>3, <1>13, CarriedDigits DEF t
  <1> QED BY <1>4, <1>14 DEF r, v, w

-----------------------------------------------------------------------------
(* Long division                                                           *)

\* The limbs below a place.
LEMMA LowLimbs ==
    ASSUME Based, NEW a \in Seq(Digit), NEW k \in Nat, k <= Len(a)
    PROVE  LET s == SubSeq(a, 1, k)
           IN  /\ s \in Seq(Digit) /\ Len(s) = k
               /\ \A i \in 1..k : Limb(s, i) = a[i] /\ Limb(a, i) = a[i]
               /\ s = [i \in 1..k |-> Limb(a, i)]
  <1> DEFINE s == SubSeq(a, 1, k)
  <1>1. s \in Seq(Digit) /\ Len(s) = k /\ \A i \in 1..k : s[i] = a[i] OBVIOUS
  <1> HIDE DEF s
  <1>2. \A i \in 1..k : i \in DOMAIN s /\ i \in DOMAIN a BY <1>1
  <1>3. \A i \in 1..k : Limb(s, i) = a[i] /\ Limb(a, i) = a[i] BY <1>1, <1>2 DEF Limb
  <1>4. s = [i \in 1..k |-> Limb(a, i)]
    <2>1. s = [i \in 1..k |-> s[i]] BY <1>1
    <2> QED BY <1>1, <1>3, <2>1
  <1> QED BY <1>1, <1>3, <1>4 DEF s

\* A comparison gives one of two signs or 0.
LEMMA DivCmpSign ==
    ASSUME NEW n, NEW b
    PROVE  DivCmp(n, b) \in Int
  <1> DEFINE c == SubSeq(n, 1, Len(b))  i == Max({0} \cup {k \in DOMAIN c : c[k] # b[k]})
  <1>1. Compare(c, b) = IF i = 0 THEN 0 ELSE IF c[i] < b[i] THEN -1 ELSE 1 BY DEF Compare
  <1> HIDE DEF i, c
  <1>2. Compare(c, b) \in Int
    <2>1. 0 \in Int /\ -1 \in Int /\ 1 \in Int OBVIOUS
    <2> QED BY <1>1, <2>1, Zenon
  <1>3. DivCmp(n, b) = IF n[Len(b) + 1] # 0 THEN 1 ELSE Compare(c, b) BY DEF DivCmp, c
  <1> QED BY <1>2, <1>3

\* bc_num_divCmp() tells whether the divisor is to be taken away.
LEMMA DivCmpIs ==
    ASSUME Based, NEW b \in Seq(Digit), Len(b) # 0,
           NEW n \in Seq(Digit), Len(n) = Len(b) + 1
    PROVE  DivCmp(n, b) >= 0 <=> Worth(n) >= Worth(b)
  <1> DEFINE m == Len(b)  s == SubSeq(n, 1, m)  v == Worth(n)  w == Worth(b)
  <1>1. m \in Nat /\ m >= 1 /\ v \in Nat /\ w \in Nat BY WorthIsNat
  <1>2. PICK k \in Nat : k = m + 1 BY <1>1
  <1>3. n[k] \in Nat /\ Limb(n, k) = n[k] /\ Len(n) = k
    <2>1. k \in DOMAIN n /\ k \in 1..Len(n) BY <1>1, <1>2
    <2>2. n[k] \in Digit BY <2>1
    <2> QED BY <1>2, <2>1, <2>2 DEF Limb, Digit
  <1>4. CASE n[k] # 0
    <2>1. w < v
      <3>1. Len(b) < Len(n) /\ Limb(n, Len(n)) >= 1 BY <1>1, <1>2, <1>3, <1>4
      <3> QED BY <3>1, Longer
    <2>2. DivCmp(n, b) = 1 BY <1>2, <1>4 DEF DivCmp
    <2> QED BY <1>1, <2>1, <2>2
  <1>5. CASE n[k] = 0
    <2>1. /\ s \in Seq(Digit) /\ Len(s) = m
          /\ \A i \in 1..m : Limb(s, i) = n[i] /\ Limb(n, i) = n[i]
      <3>1. m <= Len(n) BY <1>1
      <3> QED BY <1>1, <3>1, LowLimbs
    <2>2. DivCmp(n, b) = Compare(s, b) BY <1>2, <1>5 DEF DivCmp
    <2> HIDE DEF s
    <2>3. \A i \in Nat \ {0} : Limb(s, i) = Limb(n, i)
      <3> TAKE i \in Nat \ {0}
      <3>1. CASE i \in 1..m BY <2>1, <3>1
      <3>2. CASE i = k
        <4>1. k > Len(s) BY <1>1, <1>2, <2>1
        <4> QED BY <1>3, <1>5, <2>1, <3>2, <4>1, DigitIsInt
      <3>3. CASE i > k
        <4>1. i > Len(s) /\ i > Len(n) BY <1>1, <1>2, <1>3, <2>1, <3>3
        <4> QED BY <2>1, <4>1, DigitIsInt
      <3> QED BY <1>1, <1>2, <3>1, <3>2, <3>3
    <2>4. Worth(s) = v BY <2>1, <2>3, SameLimbs
    <2>5. /\ v < w => Compare(s, b) = -1
          /\ v = w => Compare(s, b) = 0
          /\ v > w => Compare(s, b) = 1
      BY <2>1, <2>4, Comparison
    <2> HIDE DEF v, w
    <2>6. DivCmp(n, b) >= 0 <=> v >= w BY <1>1, <2>2, <2>5
    <2> QED BY <2>6 DEF v, w
  <1> QED BY <1>2, <1>4, <1>5

\* What the divisor is worth, next to the limb it is estimated by.
LEMMA EstimateIs ==
    ASSUME Based, NEW b \in Seq(Digit), NEW m \in Nat, Len(b) = m + 1, b[m + 1] # 0
    PROVE  LET e == Estimate(b)  u == Worth(Unit(m))
           IN  /\ e \in Nat /\ e >= 1
               /\ Worth(b) >= 1 /\ Worth(b) <= e * u
               /\ ~Below(b) => Worth(b) = e * u
  <1> DEFINE e == Estimate(b)  u == Worth(Unit(m))  s == SubSeq(b, 1, m)  w == Worth(b)
  <1>1. PICK k \in Nat : k = m + 1 OBVIOUS
  <1> DEFINE t == b[k]
  <1>2. t \in Nat /\ t >= 1 /\ Limb(b, k) = t /\ k \in 1..Len(b)
    <2>1. k \in DOMAIN b /\ k \in 1..Len(b) BY <1>1
    <2>2. t \in Digit BY <2>1
    <2> QED BY <1>1, <2>1, <2>2 DEF Limb, Digit
  <1>3. u \in Nat /\ u >= 1 BY UnitIs
  <1>4. /\ s \in Seq(Digit) /\ Len(s) = m /\ s = [i \in 1..m |-> Limb(b, i)]
        /\ \A i \in 1..m : Limb(s, i) = b[i] /\ Limb(b, i) = b[i]
    <2>1. m <= Len(b) OBVIOUS
    <2> QED BY <2>1, LowLimbs
  <1>5. w = t * u + Worth(s) /\ Worth(s) \in Nat /\ Worth(s) < u
    <2>1. b \in Seq(Int) /\ Len(b) <= m + 1 BY DigitIsInt
    <2>2. \A i \in 1..m : Limb(b, i) \in Digit BY DigitIsInt
    <2> HIDE DEF s, u, w, t
    <2>3. /\ Worth(s) \in Nat /\ Worth(s) < Worth(Unit(m))
          /\ Worth(b) = Limb(b, m + 1) * Worth(Unit(m)) + Worth(s)
      BY <1>4, <2>1, <2>2, TopWorth
    <2> QED BY <1>1, <1>2, <2>3 DEF u, w
  <1>6. e = t + (IF Below(b) THEN 1 ELSE 0) /\ (Below(b) <=> Strip(s) # <<>>)
    <2>1. Len(b) = k /\ Len(b) - 1 = m BY <1>1
    <2> QED BY <2>1 DEF Estimate, Below
  <1>7. Strip(s) = <<>> => Worth(s) = 0
    <2> HAVE Strip(s) = <<>>
    <2> HIDE DEF s
    <2>1. \A i \in Nat \ {0} : Limb(Strip(s), i) = Limb(s, i) BY <1>4, Stripped
    <2>2. \A i \in 1..Len(s) : s[i] = 0
      <3> TAKE i \in 1..Len(s)
      <3>1. Limb(s, i) = Limb(<<>>, i) BY <2>1
      <3> QED BY <3>1 DEF Limb
    <2> QED BY <1>4, <2>2, WorthIsNat
  <1> HIDE DEF e, u, w, s, t
  <1>8. t * u >= 1 /\ t * u \in Nat /\ (t + 1) * u = t * u + u
    <2>1. \A x, y \in Nat : x >= 1 /\ y >= 1 => x * y >= 1 /\ x * y \in Nat /\ (x + 1) * y = x * y + y OBVIOUS
    <2> QED BY <1>2, <1>3, <2>1
  <1>9. CASE Strip(s) = <<>>
    <2>1. e = t /\ w = t * u BY <1>2, <1>5, <1>6, <1>7, <1>8, <1>9
    <2> QED BY <1>2, <1>6, <1>8, <1>9, <2>1 DEF e, u, w
  <1>10. CASE Strip(s) # <<>>
    <2>1. e = t + 1 BY <1>6, <1>10
    <2>2. w >= 1 /\ w <= (t + 1) * u BY <1>3, <1>5, <1>8
    <2> QED BY <1>2, <1>6, <1>10, <2>1, <2>2 DEF e, u, w
  <1> QED BY <1>9, <1>10

\* bc_num_d_long(), a pass of the loop for one limb of the quotient: what is taken
\* off the dividend is a limb times the divisor, never more than there is, and
\* what is left is as long and again less than the divisor moved up by a limb.
\* When the divisor is one limb and zeros, one pass leaves less than the divisor,
\* which is why the code does not look again.
THEOREM LongDivisionPass ==
    ASSUME Based, NEW b \in Seq(Digit), Len(b) # 0, b[Len(b)] # 0,
           NEW n \in Seq(Digit), Len(n) = Len(b) + 1,
           DivCmp(n, b) >= 0, Worth(n) < BasePow * Worth(b)
    PROVE  LET q == Guess(n, b, Estimate(b))
               rest == Less(n, b, q)
           IN  /\ q \in Digit \ {0}
               /\ rest \in Seq(Digit) /\ Len(rest) = Len(n)
               /\ Worth(n) = q * Worth(b) + Worth(rest)
               /\ Worth(rest) < BasePow * Worth(b)
               /\ ~Below(b) => Worth(rest) < Worth(b)
  <1> DEFINE k == Len(b)  e == Estimate(b)  v == Worth(n)  w == Worth(b)
             q == Guess(n, b, e)  rest == Less(n, b, q)
  <1>1. PICK m \in Nat : k = m + 1
    <2>1. Len(b) - 1 \in Nat /\ Len(b) = (Len(b) - 1) + 1 OBVIOUS
    <2> QED BY <2>1
  <1>2. PICK j \in Nat : j = k + 1 BY <1>1
  <1> DEFINE u == Worth(Unit(m))  t == n[j]  s == n[k]  c == t * BasePow + s
  <1>3. u \in Nat /\ u >= 1 /\ Worth(Unit(k)) = BasePow * u
    BY <1>1, UnitIs, UnitNext
  <1>4. /\ e \in Nat /\ e >= 1 /\ w >= 1 /\ w <= e * u
        /\ ~Below(b) => w = e * u
    <2>1. Len(b) = m + 1 /\ b[m + 1] # 0 /\ Len(b) - 1 = m BY <1>1
    <2> QED BY <2>1, EstimateIs
  <1>5. v \in Nat /\ w \in Nat /\ v >= w BY <1>2, WorthIsNat, DivCmpIs
  <1>6. /\ j \in 1..Len(n) /\ k \in 1..Len(n) /\ Len(n) = j
        /\ t \in Digit /\ s \in Digit /\ Limb(n, j) = t /\ Limb(n, k) = s
    <2>1. j \in 1..Len(n) /\ k \in 1..Len(n) /\ Len(n) = j BY <1>1, <1>2
    <2>2. j \in DOMAIN n /\ k \in DOMAIN n BY <2>1
    <2> QED BY <2>1, <2>2 DEF Limb
  <1>7. BasePow \in Nat /\ t \in Nat /\ s \in Nat /\ c \in Nat /\ t * BasePow \in Nat
    <2>1. BasePow \in Nat /\ t \in Nat /\ s \in Nat BY <1>6 DEF Digit, Based
    <2>2. \A x, y \in Nat : x * y \in Nat OBVIOUS
    <2>3. t * BasePow \in Nat BY <2>1, <2>2
    <2> QED BY <2>1, <2>3
  <1>8. \E low \in Nat : low < u /\ v = c * u + low
    <2> DEFINE y == [i \in 1..k |-> Limb(n, i)]  z == [i \in 1..m |-> Limb(y, i)]
    <2>1. /\ y \in Seq(Digit) /\ Len(y) = k
          /\ v = Limb(n, k + 1) * Worth(Unit(k)) + Worth(y)
      <3>1. n \in Seq(Int) /\ Len(n) <= k + 1 /\ k \in Nat BY DigitIsInt
      <3>2. \A i \in 1..k : Limb(n, i) \in Digit BY DigitIsInt
      <3> QED BY <3>1, <3>2, TopWorth
    <2>2. Limb(y, k) = s
      <3>1. y \in [1..k -> Digit] /\ y[k] = Limb(n, k)
        <4>1. \A i \in 1..k : Limb(n, i) \in Digit BY DigitIsInt
        <4> QED BY <1>1, <4>1
      <3> HIDE DEF y
      <3>2. k \in 1..k /\ k \in Nat BY <1>1
      <3>3. Limb(y, k) = y[k] BY <3>1, <3>2, ArrayOf
      <3> QED BY <1>6, <3>1, <3>3
    <2> HIDE DEF y
    <2>3. /\ Worth(z) \in Nat /\ Worth(z) < u
          /\ Worth(y) = Limb(y, m + 1) * u + Worth(z)
      <3>1. y \in Seq(Int) /\ Len(y) <= m + 1 BY <1>1, <2>1, DigitIsInt
      <3>2. \A i \in 1..m : Limb(y, i) \in Digit BY <2>1, DigitIsInt
      <3> QED BY <3>1, <3>2, TopWorth
    <2>4. Limb(y, m + 1) = s /\ Limb(n, k + 1) = t BY <1>1, <1>2, <1>6, <2>2
    <2> DEFINE low == Worth(z)
    <2> HIDE DEF z, u, v, t, s
    <2>5. v = t * (BasePow * u) + (s * u + low) BY <1>3, <2>1, <2>3, <2>4
    <2>6. \A x, d, g, h, l \in Nat : x * (d * h) + (g * h + l) = (x * d + g) * h + l OBVIOUS
    <2>7. v = c * u + low
      <3>1. low \in Nat BY <2>3
      <3> HIDE DEF low
      <3>2. t * (BasePow * u) + (s * u + low) = (t * BasePow + s) * u + low
        BY <1>3, <1>7, <2>6, <3>1
      <3> QED BY <2>5, <3>2 DEF c
    <2> QED BY <2>3, <2>7
  <1>9. q = Bigger(1, c \div e)
    <2>1. Len(b) + 1 = j BY <1>2
    <2> QED BY <2>1 DEF Guess
  <1> HIDE DEF q
  <1>10. /\ q \in Nat /\ q >= 1 /\ c < (q + 1) * e /\ (q # 1 => q * e <= c)
    <2>1. \A x \in Nat, y \in Nat \ {0} : x \div y \in Nat /\ (x \div y) * y <= x /\ x < (x \div y + 1) * y
      BY SMTT(30)
    <2> DEFINE d == c \div e
    <2> HIDE DEF c, e
    <2>2. d \in Nat /\ d * e <= c /\ c < (d + 1) * e
      <3>1. c \in Nat /\ e \in Nat \ {0} BY <1>4, <1>7
      <3> QED BY <2>1, <3>1, Zenon
    <2> HIDE DEF d
    <2>3. q = IF 1 < d THEN d ELSE 1 BY <1>9 DEF Bigger, d
    <2>4. CASE 1 < d BY <2>2, <2>3, <2>4
    <2>5. CASE d <= 1
      <3>1. \A x \in Nat : x <= 1 => (x + 1) * e <= (1 + 1) * e BY <1>4
      <3>2. (d + 1) * e \in Nat /\ (1 + 1) * e \in Nat BY <1>4, <2>2
      <3>3. q = 1 BY <2>2, <2>3, <2>5
      <3> QED BY <1>7, <2>2, <2>5, <3>1, <3>2, <3>3
    <2> QED BY <2>2, <2>4, <2>5
  <1> HIDE DEF u, t, s, c, e, v, w
  <1>11. q * w <= v /\ q * w \in Nat
    <2>1. \A x, y \in Nat : x * y \in Nat OBVIOUS
    <2>2. CASE q = 1 BY <1>5, <2>2
    <2>3. CASE q # 1
      <3>1. \A x, y, z \in Nat : x <= y => z * x <= z * y /\ x * z <= y * z OBVIOUS
      <3>2. q * w <= q * (e * u) BY <1>3, <1>4, <1>5, <1>10, <2>1, <3>1
      <3>3. (q * e) * u <= c * u BY <1>3, <1>4, <1>7, <1>10, <2>1, <2>3, <3>1
      <3>4. q * (e * u) = (q * e) * u BY <1>3, <1>4, <1>10
      <3>5. c * u <= v
        <4>1. c * u \in Nat BY <1>3, <1>7, <2>1
        <4> QED BY <1>8, <4>1
      <3>6. q * w \in Nat /\ (q * e) * u \in Nat /\ c * u \in Nat
        BY <1>3, <1>4, <1>5, <1>7, <1>10, <2>1
      <3> QED BY <1>5, <3>2, <3>3, <3>4, <3>5, <3>6
    <2> QED BY <1>5, <1>10, <2>1, <2>2, <2>3
  <1>12. v < BasePow * w BY DEF v, w
  <1>13. q \in Digit
    <2>1. q < BasePow
      <3> SUFFICES ASSUME q >= BasePow PROVE FALSE BY <1>7, <1>10
      <3>1. \A x, y, z \in Nat : x <= y => x * z <= y * z /\ x * z \in Nat /\ y * z \in Nat OBVIOUS
      <3>2. BasePow * w <= q * w /\ BasePow * w \in Nat BY <1>5, <1>7, <1>10, <3>1
      <3> QED BY <1>5, <1>11, <1>12, <3>2
    <2> QED BY <1>7, <1>10, <2>1 DEF Digit
  <1> DEFINE p == MulArray(b, q)  d == SubArrays(n, p)
  <1>14. /\ p \in Seq(Digit) /\ Worth(p) = q * w /\ Len(p) <= Len(n) /\ Len(p) \in Nat
    <2>1. /\ p \in Seq(Digit) /\ Worth(p) = w * q /\ Len(p) \in {Len(b), Len(b) + 1}
      BY <1>13, Multiples DEF w
    <2>2. w * q = q * w BY <1>5, <1>10
    <2> HIDE DEF p
    <2> QED BY <2>1, <2>2
  <1> HIDE DEF p
  <1>15. d \in Seq(Digit) /\ Len(d) = Len(n) /\ Worth(d) = v - q * w
    <2>1. Worth(n) >= Worth(p) BY <1>11, <1>14 DEF v
    <2>2. d \in Seq(Digit) /\ Len(d) = Bigger(Len(n), Len(p)) /\ Worth(d) = Worth(n) - Worth(p)
      BY <1>14, <2>1, Differences
    <2>3. Bigger(Len(n), Len(p)) = Len(n) BY <1>14 DEF Bigger
    <2> QED BY <1>14, <2>2, <2>3 DEF v
  <1>16. rest = d
    <2>1. rest = SubSeq(d, 1, Len(n)) BY DEF Less, p
    <2> HIDE DEF rest, d
    <2>2. SubSeq(d, 1, Len(d)) = d BY <1>15
    <2> QED BY <1>15, <2>1, <2>2
  <1> HIDE DEF d, rest
  <1>17. Worth(rest) \in Nat /\ v = q * w + Worth(rest) /\ Worth(rest) < BasePow * w
    <2>1. BasePow * w \in Nat
      <3>1. \A x, y \in Nat : x * y \in Nat OBVIOUS
      <3> QED BY <1>5, <1>7, <3>1
    <2>2. Worth(rest) = v - q * w BY <1>15, <1>16
    <2> QED BY <1>5, <1>11, <1>12, <2>1, <2>2
  <1>18. ASSUME w = e * u PROVE Worth(rest) < w
    <2>1. PICK low \in Nat : low < u /\ v = c * u + low BY <1>8
    <2>2. \A x, y, z \in Nat : x < y => x * z + z <= y * z /\ x * z \in Nat /\ y * z \in Nat
      <3> SUFFICES ASSUME NEW x \in Nat, NEW y \in Nat, NEW z \in Nat, x < y
                   PROVE  x * z + z <= y * z /\ x * z \in Nat /\ y * z \in Nat
        OBVIOUS
      <3>1. x * z + z = (x + 1) * z OBVIOUS
      <3>2. \A g, h \in Nat : g <= h => g * z <= h * z OBVIOUS
      <3>3. (x + 1) * z <= y * z BY <3>2
      <3> QED BY <3>1, <3>3
    <2>3. (q + 1) * e \in Nat
      <3>1. \A x, y \in Nat : (x + 1) * y \in Nat OBVIOUS
      <3> QED BY <1>4, <1>10, <3>1
    <2>4. c * u + u <= ((q + 1) * e) * u /\ c * u \in Nat BY <1>3, <1>7, <1>10, <2>2, <2>3
    <2>5. ((q + 1) * e) * u = q * w + w
      <3>1. \A x, y, z \in Nat : ((x + 1) * y) * z = x * (y * z) + y * z OBVIOUS
      <3> QED BY <1>3, <1>4, <1>10, <1>18, <3>1
    <2> QED BY <1>3, <1>5, <1>11, <1>17, <2>1, <2>4, <2>5
  <1>19. q \in Digit \ {0} BY <1>10, <1>13
  <1>20. ~Below(b) => Worth(rest) < w BY <1>4, <1>18
  <1>21. rest \in Seq(Digit) /\ Len(rest) = Len(n) BY <1>15, <1>16
  <1> QED BY <1>17, <1>19, <1>20, <1>21 DEF q, e, v, w, rest

\* bc_num_d_long(), the loop for one limb of the quotient: it comes to an end, with
\* less than the divisor left, and what was taken off is counted by a limb - which
\* the code asserts.
THEOREM QuotientLimb ==
    ASSUME Based, NEW b \in Seq(Digit), Len(b) # 0, b[Len(b)] # 0,
           NEW n \in Seq(Digit), Len(n) = Len(b) + 1, Worth(n) < BasePow * Worth(b)
    PROVE  LET d == DivLimb(n, b)
           IN  /\ d.n \in Seq(Digit) /\ Len(d.n) = Len(n)
               /\ d.digit \in Digit
               /\ Worth(n) = d.digit * Worth(b) + Worth(d.n)
               /\ Worth(d.n) < Worth(b)
  <1> DEFINE v == Worth(n)  w == Worth(b)
             Ends(k, s) == DivCmp(s.n, b) < 0 \/ (k > 1 /\ ~Below(b))
             Passed(s) == LET quotient == Guess(s.n, b, Estimate(b))
                          IN  [n |-> Less(s.n, b, quotient), digit |-> s.digit + quotient]
             Done(s) == Worth(s.n) < w
             S == {s \in [n : Seq(Digit), digit : Nat] :
                      Len(s.n) = Len(n) /\ v = s.digit * w + Worth(s.n)}
             start == [n |-> n, digit |-> 0]
             Is(g) == g = [k \in 0..BasePow |->
                             IF k = 0 THEN [n |-> n, digit |-> 0]
                             ELSE LET s == g[k - 1]
                                      quotient == Guess(s.n, b, Estimate(b))
                                  IN  IF DivCmp(s.n, b) < 0 \/ (k > 1 /\ ~Below(b)) THEN s
                                      ELSE [n |-> Less(s.n, b, quotient), digit |-> s.digit + quotient]]
             p == CHOOSE g : Is(g)
  <1>1. v \in Nat /\ w \in Nat /\ BasePow \in Nat /\ BasePow > 1 BY WorthIsNat DEF Based
  <1>2. v < BasePow * w OBVIOUS
  <1>3. w >= 1
    <2>1. Len(b) \in 1..Len(b) OBVIOUS
    <2> QED BY <2>1, WorthIsNat
  <1>4. ASSUME NEW s \in S
        PROVE  /\ s.n \in Seq(Digit) /\ s.digit \in Nat /\ Len(s.n) = Len(n)
               /\ v = s.digit * w + Worth(s.n) /\ Worth(s.n) \in Nat
               /\ s.digit * w \in Nat
               /\ Worth(s.n) <= v
               /\ DivCmp(s.n, b) < 0 <=> Worth(s.n) < w
    <2>1. s.n \in Seq(Digit) /\ s.digit \in Nat /\ Len(s.n) = Len(n) /\ v = s.digit * w + Worth(s.n)
      OBVIOUS
    <2>2. Worth(s.n) \in Nat BY <2>1, WorthIsNat
    <2>3. s.digit * w \in Nat
      <3>1. \A x, y \in Nat : x * y \in Nat OBVIOUS
      <3> QED BY <1>1, <2>1, <3>1
    <2>4. DivCmp(s.n, b) >= 0 <=> Worth(s.n) >= w
      <3>1. Len(s.n) = Len(b) + 1 BY <2>1
      <3> QED BY <2>1, <3>1, DivCmpIs
    <2>5. DivCmp(s.n, b) \in Int BY DivCmpSign
    <2> HIDE DEF v, w, S
    <2> QED BY <1>1, <2>1, <2>2, <2>3, <2>4, <2>5
  <1>5. ASSUME NEW s \in S, ~Done(s)
        PROVE  /\ Passed(s) \in S
               /\ Passed(s).digit >= s.digit + 1
               /\ ~Below(b) => Done(Passed(s))
    <2> DEFINE q == Guess(s.n, b, Estimate(b))  rest == Less(s.n, b, q)
    <2>1. /\ s.n \in Seq(Digit) /\ Len(s.n) = Len(b) + 1 /\ DivCmp(s.n, b) >= 0
          /\ Worth(s.n) < BasePow * Worth(b)
      <3>1. BasePow * w \in Nat
        <4>1. \A x, y \in Nat : x * y \in Nat OBVIOUS
        <4> QED BY <1>1, <4>1
      <3>2. DivCmp(s.n, b) \in Int BY DivCmpSign
      <3>4. Worth(s.n) <= v /\ Worth(s.n) \in Nat BY <1>4
      <3> HIDE DEF S
      <3>3. Worth(s.n) < BasePow * w
        <4> DEFINE x == BasePow * w  y == Worth(s.n)
        <4>1. x \in Nat /\ v < x /\ y <= v /\ y \in Nat BY <1>2, <3>1, <3>4
        <4> HIDE DEF x, y, v
        <4>2. y < x BY <1>1, <4>1
        <4> QED BY <4>2 DEF x, y
      <3> QED BY <1>1, <1>4, <1>5, <3>2, <3>3
    <2>2. /\ q \in Digit \ {0}
          /\ rest \in Seq(Digit) /\ Len(rest) = Len(s.n)
          /\ Worth(s.n) = q * w + Worth(rest)
          /\ ~Below(b) => Worth(rest) < w
      BY <2>1, LongDivisionPass
    <2>3. Passed(s) = [n |-> rest, digit |-> s.digit + q] OBVIOUS
    <2> HIDE DEF q, rest, Passed
    <2>4. q \in Nat /\ q >= 1 BY <1>1, <2>2 DEF Digit
    <2>5. s.n \in Seq(Digit) /\ s.digit \in Nat /\ Len(s.n) = Len(n) /\ v = s.digit * w + Worth(s.n)
      BY <1>4
    <2>6. v = (s.digit + q) * w + Worth(rest)
      <3>1. \A x, y, z, r \in Nat : x * z + (y * z + r) = (x + y) * z + r OBVIOUS
      <3>2. Worth(rest) \in Nat BY <2>2, WorthIsNat
      <3> HIDE DEF v, w, S
      <3>3. s.digit * w + (q * w + Worth(rest)) = (s.digit + q) * w + Worth(rest)
        <4> DEFINE x == s.digit  r == Worth(rest)
        <4>1. x \in Nat /\ q \in Nat /\ w \in Nat /\ r \in Nat BY <1>1, <2>4, <2>5, <3>2
        <4> HIDE DEF x, r
        <4>2. x * w + (q * w + r) = (x + q) * w + r BY <3>1, <4>1
        <4> QED BY <4>2 DEF x, r
      <3> QED BY <2>2, <2>5, <3>3
    <2>7. Passed(s).n = rest /\ Passed(s).digit = s.digit + q BY <2>3
    <2>8. Passed(s) \in [n : Seq(Digit), digit : Nat] BY <2>2, <2>3, <2>4, <2>5
    <2>9. Passed(s) \in S BY <2>2, <2>5, <2>6, <2>7, <2>8
    <2> QED BY <2>2, <2>4, <2>5, <2>7, <2>9
  <1>6. start \in S
    <2>1. 0 * w + Worth(n) = v BY <1>1
    <2> QED BY <2>1
  <1> DEFINE step == [x \in (1..BasePow) \X S |-> IF Ends(x[1], x[2]) THEN x[2] ELSE Passed(x[2])]
  <1> HIDE DEF S, v, w, Ends, Passed, start
  <1>7. ASSUME NEW k \in 1..BasePow, NEW s \in S
        PROVE  /\ step[<<k, s>>] = IF Ends(k, s) THEN s ELSE Passed(s)
               /\ step[<<k, s>>] \in S
    <2>1. <<k, s>> \in (1..BasePow) \X S OBVIOUS
    <2>2. step[<<k, s>>] = IF Ends(k, s) THEN s ELSE Passed(s) BY <2>1
    <2> HIDE DEF step
    <2>3. ~Ends(k, s) => ~Done(s) BY <1>4 DEF Ends
    <2> QED BY <1>5, <2>2, <2>3
  <1> HIDE DEF step
  <1>8. PICK f : Chain(f, start, step, S, BasePow)
    <2>1. Steps(step, S, BasePow) BY <1>7, Zenon DEF Steps
    <2>2. \E f : Chain(f, start, step, S, BasePow) BY <1>1, <1>6, <2>1, Recursion, Zenon
    <2> QED BY <2>2
  <1>9. /\ f \in [0..BasePow -> S] /\ f[0] = start
        /\ \A k \in 1..BasePow : f[k] = IF Ends(k, f[k - 1]) THEN f[k - 1] ELSE Passed(f[k - 1])
    <2>1. ASSUME NEW k \in 1..BasePow PROVE f[k] = IF Ends(k, f[k - 1]) THEN f[k - 1] ELSE Passed(f[k - 1])
      <3>1. k - 1 \in 0..BasePow BY <1>1
      <3>2. f[k - 1] \in S BY <1>8, <3>1 DEF Chain
      <3>3. f[k] = step[<<k, f[k - 1]>>] BY <1>8 DEF Chain
      <3> QED BY <1>7, <3>2, <3>3
    <2> QED BY <1>8, <2>1 DEF Chain
  <1>10. Is(f)
    <2>1. \A k \in 0..BasePow : k # 0 => k \in 1..BasePow BY <1>1
    <2>2. f = [k \in 0..BasePow |-> f[k]] BY <1>9
    <2>3. \A k \in 0..BasePow : f[k] = IF k = 0 THEN start
                                       ELSE IF Ends(k, f[k - 1]) THEN f[k - 1] ELSE Passed(f[k - 1])
      BY <1>9, <2>1, Zenon
    <2> QED BY <2>2, <2>3, Zenon DEF start, Ends, Passed
  <1>11. Is(p) BY <1>10
  <1>12. DivLimb(n, b) = p[BasePow] BY DEF DivLimb
  <1> HIDE DEF p
  <1>13. /\ p[0] = start
         /\ \A k \in 1..BasePow : p[k] = IF Ends(k, p[k - 1]) THEN p[k - 1] ELSE Passed(p[k - 1])
    <2>1. \A k \in 0..BasePow : p[k] = IF k = 0 THEN start
                                       ELSE IF Ends(k, p[k - 1]) THEN p[k - 1] ELSE Passed(p[k - 1])
      BY <1>11, Zenon DEF start, Ends, Passed
    <2>2. 0 \in 0..BasePow /\ \A k \in 1..BasePow : k \in 0..BasePow /\ k # 0 BY <1>1
    <2> HIDE DEF Is
    <2> QED BY <2>1, <2>2
  <1> HIDE DEF Is
  <1> DEFINE T == {k \in 0..BasePow : /\ p[k] \in S
                                      /\ Done(p[k]) \/ (p[k].digit >= k /\ (k = 0 \/ Below(b)))}
  <1>14. 0 \in T
    <2>1. start.digit = 0 BY DEF start
    <2> QED BY <1>1, <1>6, <1>13, <2>1
  <1>15. ASSUME NEW m \in 0..(BasePow - 1), m \in T PROVE m + 1 \in T
    <2>1. PICK k \in 1..BasePow : k = m + 1 /\ k - 1 = m /\ k \in 0..BasePow BY <1>1
    <2> DEFINE s == p[m]
    <2>2. s \in S /\ (Done(s) \/ (s.digit >= m /\ (m = 0 \/ Below(b)))) BY <1>15
    <2>3. p[k] = IF Ends(k, s) THEN s ELSE Passed(s) BY <1>13, <2>1
    <2> HIDE DEF s, T, Done
    <2>4. Done(s) => Ends(k, s) BY <1>4, <2>2 DEF Ends, Done
    <2>5. CASE Done(s)
      <3>1. p[k] = s BY <2>3, <2>4, <2>5
      <3> QED BY <2>1, <2>2, <2>5, <3>1 DEF T
    <2>6. CASE ~Done(s)
      <3>1. ~Ends(k, s)
        <4>1. ~(DivCmp(s.n, b) < 0) BY <1>4, <2>2, <2>6 DEF Done
        <4>2. m = 0 \/ Below(b) BY <2>2, <2>6
        <4>3. k > 1 => m # 0 BY <2>1
        <4> QED BY <4>1, <4>2, <4>3 DEF Ends
      <3>2. p[k] = Passed(s) BY <2>3, <3>1
      <3>3. /\ Passed(s) \in S
            /\ Passed(s).digit >= s.digit + 1
            /\ ~Below(b) => Done(Passed(s))
        BY <1>5, <2>2, <2>6
      <3>4. s.digit \in Nat /\ Passed(s).digit \in Nat BY <1>4, <2>2, <3>3
      <3>5. Passed(s).digit >= k BY <2>1, <2>2, <2>6, <3>3, <3>4
      <3> QED BY <2>1, <3>2, <3>3, <3>5 DEF T
    <2> QED BY <2>1, <2>5, <2>6
  <1> HIDE DEF T
  <1>16. BasePow \in T
    <2>1. \A k \in 0..BasePow : k \in T BY <1>1, <1>14, <1>15, Induction
    <2> QED BY <1>1, <2>1
  <1> DEFINE d == p[BasePow]
  <1>17. d \in S /\ (Done(d) \/ d.digit >= BasePow) BY <1>16 DEF T
  <1> HIDE DEF d
  <1>18. d.digit < BasePow
    <2> SUFFICES ASSUME d.digit >= BasePow PROVE FALSE BY <1>1, <1>4, <1>17
    <2>1. \A x, y, z \in Nat : x <= y => x * z <= y * z /\ x * z \in Nat OBVIOUS
    <2>2. BasePow * w <= d.digit * w /\ BasePow * w \in Nat BY <1>1, <1>4, <1>17, <2>1
    <2>3. v < BasePow * w BY <1>2
    <2> HIDE DEF Done
    <2> QED BY <1>1, <1>4, <1>17, <2>2, <2>3
  <1>19. Done(d) BY <1>1, <1>4, <1>17, <1>18
  <1>20. d.digit \in Digit
    <2>1. d.digit \in Nat BY <1>4, <1>17
    <2>2. \A e \in Nat : e < BasePow => e \in Digit BY <1>1 DEF Digit
    <2> QED BY <1>18, <2>1, <2>2
  <1>21. d = DivLimb(n, b) BY <1>12 DEF d
  <1> QED BY <1>4, <1>17, <1>19, <1>20, <1>21 DEF v, w

\* The limbs from a place up.
LEMMA DropIs ==
    ASSUME Based, NEW a \in Seq(Digit), NEW k \in Nat, k <= Len(a)
    PROVE  /\ Drop(a, k) \in Seq(Digit) /\ Len(Drop(a, k)) = Len(a) - k
           /\ \A i \in Nat \ {0} : Limb(Drop(a, k), i) = Limb(a, k + i)
  <1> DEFINE d == SubSeq(a, k + 1, Len(a))  n == Len(a)
  <1>1. n \in Nat /\ DOMAIN a = 1..n OBVIOUS
  <1>2. d \in Seq(Digit) /\ Len(d) = n - k /\ \A i \in 1..(n - k) : d[i] = a[k + i]
    <2>1. \A i \in 1..n : a[i] \in Digit OBVIOUS
    <2>2. Len(d) = n - k /\ \A i \in 1..(n - k) : d[i] = a[k + i] OBVIOUS
    <2>3. d \in Seq(Digit) OBVIOUS
    <2> QED BY <2>2, <2>3
  <1>3. Drop(a, k) = d BY DEF Drop
  <1> HIDE DEF d
  <1>4. ASSUME NEW i \in Nat \ {0} PROVE Limb(d, i) = Limb(a, k + i)
    <2>1. DOMAIN d = 1..(n - k) BY <1>2
    <2>2. CASE i <= n - k
      <3>1. i \in DOMAIN d /\ k + i \in DOMAIN a BY <1>1, <2>1, <2>2
      <3> QED BY <1>1, <1>2, <2>1, <3>1 DEF Limb
    <2>3. CASE i > n - k
      <3>1. i \notin DOMAIN d /\ k + i \notin DOMAIN a BY <1>1, <2>1, <2>3
      <3> QED BY <3>1 DEF Limb
    <2> QED BY <1>1, <2>2, <2>3
  <1> QED BY <1>2, <1>3, <1>4

\* What limbs from place k on stand for, by the first of them.
LEMMA DropStep ==
    ASSUME Based, NEW a \in Seq(Digit), NEW k \in 1..Len(a)
    PROVE  Worth(Drop(a, k - 1)) = a[k] + BasePow * Worth(Drop(a, k))
  <1> DEFINE x == Drop(a, k - 1)  y == Drop(a, k)
  <1> DEFINE l == Len(a)
  <1>20. l \in Nat /\ k \in Nat /\ k >= 1 /\ k <= l OBVIOUS
  <1> HIDE DEF l
  <1>21. PICK n \in Nat : n = l - k /\ n + 1 = l - (k - 1)
    <2>1. l - k \in Nat /\ (l - k) + 1 = l - (k - 1) BY <1>20
    <2> QED BY <2>1
  <1>1. n = Len(a) - k /\ n + 1 = Len(a) - (k - 1) BY <1>21 DEF l
  <1>22. k - 1 \in Nat /\ k \in Nat /\ k - 1 <= l /\ k <= l /\ k - 1 + 1 = k BY <1>20
  <1>2. k - 1 \in Nat /\ k \in Nat /\ k - 1 <= Len(a) /\ k <= Len(a) /\ k - 1 + 1 = k
    BY <1>22 DEF l
  <1>3. /\ x \in Seq(Digit) /\ Len(x) = n + 1
        /\ \A i \in Nat \ {0} : Limb(x, i) = Limb(a, (k - 1) + i)
    BY <1>1, <1>2, DropIs
  <1>4. /\ y \in Seq(Digit) /\ Len(y) = n
        /\ \A i \in Nat \ {0} : Limb(y, i) = Limb(a, k + i)
    BY <1>1, <1>2, DropIs
  <1> HIDE DEF x, y
  <1>5. Limb(x, 1) = a[k]
    <2>1. k \in DOMAIN a OBVIOUS
    <2>2. Limb(x, 1) = Limb(a, k) BY <1>2, <1>3
    <2> QED BY <2>1, <2>2 DEF Limb
  <1>6. ASSUME NEW i \in 1..n PROVE Limb(x, i + 1) = Limb(y, i)
    <2>1. i \in Nat \ {0} /\ i + 1 \in Nat \ {0} /\ (k - 1) + (i + 1) = k + i OBVIOUS
    <2>2. Limb(x, i + 1) = Limb(a, (k - 1) + (i + 1)) BY <1>3, <2>1
    <2> QED BY <1>4, <2>1, <2>2
  <1>7. PICK m \in Nat : m = n + 1 OBVIOUS
  <1>8. PICK w : Tower(x, m, w) /\ w[1] = Worth(x)
    <2>1. x \in Seq(Int) /\ m >= Len(x) BY <1>3, <1>7, DigitIsInt
    <2> QED BY <2>1, WorthTower
  <1>9. /\ \A i \in 1..(m + 1) : w[i] \in Int
        /\ w[m + 1] = 0
        /\ \A i \in 1..m : w[i] = Limb(x, i) + BasePow * w[i + 1]
    BY <1>8 DEF Tower
  <1> DEFINE v == [i \in 1..(n + 1) |-> w[i + 1]]
  <1>10. \A i \in 1..(n + 1) : v[i] = w[i + 1] /\ v[i] \in Int BY <1>7, <1>9
  <1>11. v \in [1..(n + 1) -> Int] BY <1>10
  <1> HIDE DEF v
  <1>12. Tower(y, n, v)
    <2>1. v[n + 1] = 0
      <3>1. n + 1 \in 1..(n + 1) BY <1>1
      <3>2. v[n + 1] = w[m + 1] BY <1>7, <1>10, <3>1
      <3> QED BY <1>9, <3>2
    <2>2. ASSUME NEW i \in 1..n PROVE v[i] = Limb(y, i) + BasePow * v[i + 1]
      <3>1. PICK j \in 1..m : j = i + 1 BY <1>7
      <3>2. i \in 1..(n + 1) /\ j \in 1..(n + 1) BY <1>7, <3>1
      <3>3. v[i] = w[j] /\ v[j] = w[j + 1] BY <1>10, <3>1, <3>2
      <3>4. w[j] = Limb(x, j) + BasePow * w[j + 1] BY <1>9
      <3>5. Limb(x, j) = Limb(y, i) BY <1>6, <3>1
      <3> QED BY <3>1, <3>3, <3>4, <3>5
    <2> QED BY <1>11, <2>1, <2>2 DEF Tower
  <1>13. Worth(y) = v[1]
    <2>1. y \in Seq(Int) /\ n >= Len(y) BY <1>4, DigitIsInt
    <2> QED BY <1>12, <2>1, WorthOfTower
  <1>14. 1 \in 1..(n + 1) /\ 1 \in 1..m /\ 1 + 1 = 2 BY <1>7
  <1>15. v[1] = w[2] /\ w[1] = Limb(x, 1) + BasePow * w[2] BY <1>9, <1>10, <1>14
  <1> QED BY <1>5, <1>8, <1>13, <1>15 DEF x, y

\* The quotient of a by b when the places from i on are done: the limbs below are
\* as they were, the rest is less than b, and quotient and rest make up a.
Placed(a, b, len, i, s) ==
    LET d == DivLimb(SubSeq(s.a, i, i + Len(b)), b)
    IN  [a |-> [k \in DOMAIN a |-> IF k \in i..(i + Len(b)) THEN d.n[k - i + 1] ELSE s.a[k]],
         c |-> [k \in 1..len |-> IF k = i THEN d.digit ELSE s.c[k]]]

Halfway(a, len) == {s \in [a : Seq(Digit), c : Seq(Digit)] : Len(s.a) = Len(a) /\ Len(s.c) = len}

Partway(a, b, len, i, s) ==
    /\ s \in Halfway(a, len)
    /\ \A k \in 1..(i - 1) : s.a[k] = a[k] /\ (k <= len => s.c[k] = 0)
    /\ \A k \in 1..Len(a) : k > i - 1 + Len(b) => s.a[k] = 0
    /\ Worth(Drop(s.a, i - 1)) < Worth(b)
    /\ Worth(Drop(a, i - 1)) = Worth(Drop(s.c, i - 1)) * Worth(b) + Worth(Drop(s.a, i - 1))

\* One place more: the limb of the quotient is set, and the rest moves down.
LEMMA QuotientPlace ==
    ASSUME Based, NEW a \in Seq(Digit), NEW b \in Seq(Digit), Len(b) # 0, b[Len(b)] # 0,
           NEW top \in Nat, Len(a) = top + Len(b), NEW len \in Nat, top <= len,
           NEW i \in 1..top, NEW s, Partway(a, b, len, i + 1, s)
    PROVE  Partway(a, b, len, i, Placed(a, b, len, i, s))
  <1> DEFINE r == s.a  c == s.c  n == SubSeq(r, i, i + Len(b))  w == Worth(b)
             d == DivLimb(n, b)
             x == [k \in DOMAIN a |-> IF k \in i..(i + Len(b)) THEN d.n[k - i + 1] ELSE s.a[k]]
             y == [k \in 1..len |-> IF k = i THEN d.digit ELSE s.c[k]]
             t == Placed(a, b, len, i, s)
  <1>1. PICK m \in Nat : m = Len(b) /\ m >= 1 OBVIOUS
  <1>2. PICK h \in Nat : h = i - 1 /\ h + 1 = i OBVIOUS
  <1>3. /\ r \in Seq(Digit) /\ Len(r) = top + m /\ c \in Seq(Digit) /\ Len(c) = len
        /\ \A k \in 1..i : r[k] = a[k] /\ (k <= len => c[k] = 0)
        /\ \A k \in 1..Len(a) : k > i + m => r[k] = 0
        /\ Worth(Drop(r, i)) < w
        /\ Worth(Drop(a, i)) = Worth(Drop(c, i)) * w + Worth(Drop(r, i))
    <2>1. (i + 1) - 1 = i OBVIOUS
    <2>2. s \in Halfway(a, len) BY DEF Partway
    <2> QED BY <1>1, <2>1, <2>2 DEF Partway, Halfway
  <1> HIDE DEF r, c
  <1>4. n \in Seq(Digit) /\ Len(n) = m + 1 /\ \A j \in 1..(m + 1) : n[j] = r[h + j]
    <2>1. \A k \in 1..Len(r) : r[k] \in Digit BY <1>3
    <2>2. i + m <= Len(r) /\ i >= 1 /\ (i + m) - i + 1 = m + 1 BY <1>1, <1>3
    <2>3. Len(n) = m + 1 BY <1>1, <1>3, <2>2
    <2>4. \A j \in 1..(m + 1) : n[j] = r[h + j] BY <1>1, <1>2, <1>3, <2>2
    <2>5. n \in Seq(Digit) BY <1>1, <1>3, <2>1, <2>2
    <2> QED BY <2>3, <2>4, <2>5
  <1> HIDE DEF n
  <1> DEFINE g == Drop(r, h)
  <1>5. /\ g \in Seq(Digit) /\ Len(g) = top + m - h
        /\ \A j \in Nat \ {0} : Limb(g, j) = Limb(r, h + j)
    <2>1. h <= Len(r) BY <1>1, <1>2, <1>3
    <2>2. /\ Drop(r, h) \in Seq(Digit) /\ Len(Drop(r, h)) = Len(r) - h
          /\ \A j \in Nat \ {0} : Limb(Drop(r, h), j) = Limb(r, h + j)
      BY <1>3, <2>1, DropIs
    <2> QED BY <1>3, <2>2
  <1> HIDE DEF g
  <1>6. Worth(n) = Worth(g)
    <2>1. ASSUME NEW j \in Nat \ {0} PROVE Limb(n, j) = Limb(g, j)
      <3>1. Limb(g, j) = Limb(r, h + j) BY <1>5
      <3>2. CASE j <= m + 1
        <4>1. j \in DOMAIN n /\ h + j \in DOMAIN r BY <1>1, <1>2, <1>3, <1>4, <3>2
        <4> QED BY <1>4, <3>1, <4>1 DEF Limb
      <3>3. CASE j > m + 1
        <4>1. j \notin DOMAIN n BY <1>4, <3>3
        <4>2. h + j > i + m BY <1>2, <3>3
        <4>3. Limb(r, h + j) = 0
          <5>1. CASE h + j \in DOMAIN r
            <6>1. h + j \in 1..Len(a) BY <1>1, <1>3, <5>1
            <6> QED BY <1>3, <4>2, <6>1 DEF Limb
          <5> QED BY <5>1 DEF Limb
        <4> QED BY <3>1, <4>1, <4>3 DEF Limb
      <3> QED BY <3>2, <3>3
    <2> QED BY <1>4, <1>5, <2>1, SameLimbs
  <1>7. Worth(g) = a[i] + BasePow * Worth(Drop(r, i)) /\ a[i] \in Digit
    <2>1. i \in 1..Len(r) /\ i \in 1..Len(a) /\ i \in 1..i /\ i - 1 = h BY <1>1, <1>2, <1>3
    <2>2. Worth(Drop(r, i - 1)) = r[i] + BasePow * Worth(Drop(r, i)) BY <1>3, <2>1, DropStep
    <2> QED BY <1>2, <1>3, <2>1, <2>2 DEF g
  <1>8. /\ w \in Nat /\ BasePow \in Nat /\ BasePow > 1
        /\ Worth(Drop(r, i)) \in Nat /\ Worth(Drop(c, i)) \in Nat
        /\ Drop(c, i) \in Seq(Digit)
    <2>1. i \in Nat /\ i <= Len(r) /\ i <= Len(c) BY <1>1, <1>3
    <2>2. Drop(r, i) \in Seq(Digit) /\ Drop(c, i) \in Seq(Digit) BY <1>3, <2>1, DropIs
    <2> QED BY <2>2, WorthIsNat DEF Based
  <1>9. Worth(n) < BasePow * w
    <2> DEFINE v == Worth(Drop(r, i))  e == a[i]  q == BasePow
    <2>1. v \in Nat /\ w \in Nat /\ q \in Nat /\ v < w /\ e \in 0..(q - 1) BY <1>3, <1>7, <1>8 DEF Digit
    <2>2. \A p, u, z \in Nat : u < z => p * u + p <= p * z /\ p * u \in Nat /\ p * z \in Nat
      <3> TAKE p, u, z \in Nat
      <3> HAVE u < z
      <3>1. PICK f \in Nat : z = u + 1 + f
        <4>1. z - u - 1 \in Nat /\ z = u + 1 + (z - u - 1) OBVIOUS
        <4> QED BY <4>1
      <3>2. p * z = p * u + p + p * f /\ p * f \in Nat /\ p * u \in Nat BY <3>1
      <3> QED BY <3>2
    <2>3. Worth(n) = e + q * v BY <1>6, <1>7
    <2> HIDE DEF v, e, q, w
    <2>4. q * v + q <= q * w /\ q * v \in Nat /\ q * w \in Nat BY <2>1, <2>2
    <2>5. e + q * v < q * w BY <2>1, <2>4
    <2> QED BY <2>3, <2>5 DEF q
  <1>10. /\ d.n \in Seq(Digit) /\ Len(d.n) = m + 1
         /\ d.digit \in Digit
         /\ Worth(n) = d.digit * w + Worth(d.n)
         /\ Worth(d.n) < w
    <2>1. Len(n) = Len(b) + 1 BY <1>1, <1>4
    <2> QED BY <1>4, <1>9, <2>1, QuotientLimb
  <1> HIDE DEF d, w
  <1> DEFINE f == d.n
  <1>25. DOMAIN f = 1..(m + 1) /\ \A j \in 1..(m + 1) : f[j] \in Digit BY <1>10
  <1>11. Limb(d.n, m + 1) = 0
    <2> SUFFICES ASSUME Limb(d.n, m + 1) # 0 PROVE FALSE OBVIOUS
    <2>1. m + 1 \in DOMAIN f BY <1>25
    <2>2. Limb(f, m + 1) \in Digit BY <1>25, <2>1 DEF Limb
    <2>6. Limb(d.n, m + 1) >= 1 BY <2>2 DEF Digit
    <2>3. Len(b) < Len(d.n) /\ Limb(d.n, Len(d.n)) >= 1 BY <1>1, <1>10, <2>6
    <2>4. w < Worth(d.n) BY <1>10, <2>3, Longer DEF w
    <2>5. Worth(d.n) \in Nat BY <1>10, WorthIsNat
    <2> QED BY <1>8, <1>10, <2>4, <2>5
  <1>12. t.a = x /\ t.c = y /\ t = [a |-> x, c |-> y] BY DEF Placed, d, n, r, t, x, y
  <1>13. /\ x \in Seq(Digit) /\ Len(x) = top + m
         /\ \A k \in 1..(top + m) : x[k] = IF k \in i..(i + m) THEN d.n[k - h] ELSE r[k]
    <2>1. DOMAIN a = 1..(top + m) /\ top + m \in Nat BY <1>1
    <2>2. \A k \in 1..(top + m) : x[k] = IF k \in i..(i + m) THEN d.n[k - i + 1] ELSE r[k]
      BY <1>1, <2>1 DEF r
    <2>3. \A k \in i..(i + m) : k - i + 1 = k - h /\ k - h \in 1..(m + 1) BY <1>2
    <2>4. \A k \in 1..(top + m) : x[k] = IF k \in i..(i + m) THEN d.n[k - h] ELSE r[k] BY <2>2, <2>3
    <2>5. \A k \in 1..(top + m) : x[k] \in Digit
      <3> TAKE k \in 1..(top + m)
      <3>1. r[k] \in Digit BY <1>3
      <3>2. CASE k \in i..(i + m)
        <4>1. k - h \in 1..(m + 1) BY <2>3, <3>2
        <4>2. f[k - h] \in Digit BY <1>25, <4>1
        <4> QED BY <2>4, <3>2, <4>2
      <3>3. CASE k \notin i..(i + m) BY <2>4, <3>1, <3>3
      <3> QED BY <3>2, <3>3
    <2>6. x = [k \in 1..(top + m) |-> x[k]] BY <2>1
    <2> HIDE DEF x
    <2>7. x \in [1..(top + m) -> Digit] BY <2>5, <2>6
    <2>8. x \in Seq(Digit) /\ Len(x) = top + m BY <2>1, <2>7, ArrayOf
    <2> QED BY <2>4, <2>8
  <1>14. /\ y \in Seq(Digit) /\ Len(y) = len
         /\ \A k \in 1..len : y[k] = IF k = i THEN d.digit ELSE c[k]
    <2>1. \A k \in 1..len : y[k] = IF k = i THEN d.digit ELSE c[k] BY DEF c
    <2>2. y = [k \in 1..len |-> y[k]] OBVIOUS
    <2> HIDE DEF y
    <2>3. \A k \in 1..len : y[k] \in Digit BY <1>3, <1>10, <2>1
    <2>4. y \in [1..len -> Digit] BY <2>2, <2>3
    <2> QED BY <2>1, <2>4, ArrayOf
  <1> HIDE DEF x, y, t
  <1>15. Worth(Drop(x, h)) = Worth(d.n)
    <2> DEFINE z == Drop(x, h)
    <2>1. z \in Seq(Digit) /\ \A j \in Nat \ {0} : Limb(z, j) = Limb(x, h + j)
      <3>1. h <= Len(x) BY <1>1, <1>2, <1>13
      <3> QED BY <1>13, <3>1, DropIs
    <2> HIDE DEF z
    <2>2. ASSUME NEW j \in Nat \ {0} PROVE Limb(z, j) = Limb(d.n, j)
      <3>1. Limb(z, j) = Limb(x, h + j) BY <2>1
      <3>2. CASE j <= m + 1
        <4>1. j \in DOMAIN d.n BY <1>1, <1>25, <3>2
        <4>2. PICK k \in Nat : k = h + j BY <1>2
        <4>3. k \in i..(i + m) /\ k - h = j BY <1>1, <1>2, <3>2, <4>2
        <4>4. k \in 1..(top + m) BY <1>1, <4>3
        <4>5. k \in DOMAIN x BY <1>13, <4>4
        <4>6. x[k] = d.n[j] BY <1>13, <4>3, <4>4
        <4> QED BY <3>1, <4>1, <4>2, <4>5, <4>6 DEF Limb
      <3>3. CASE j > m + 1
        <4>1. j \notin DOMAIN d.n BY <1>25, <3>3
        <4>2. Limb(x, h + j) = 0
          <5>1. CASE h + j \in DOMAIN x
            <6>1. h + j \in 1..(top + m) /\ h + j \notin i..(i + m) /\ h + j > i + m
              BY <1>1, <1>2, <1>13, <3>3, <5>1
            <6>2. x[h + j] = r[h + j] BY <1>13, <6>1
            <6>3. r[h + j] = 0 BY <1>1, <1>3, <6>1
            <6> QED BY <5>1, <6>2, <6>3 DEF Limb
          <5> QED BY <5>1 DEF Limb
        <4> QED BY <3>1, <4>1, <4>2 DEF Limb
      <3> QED BY <3>2, <3>3
    <2>3. Worth(z) = Worth(d.n) BY <1>10, <2>1, <2>2, SameLimbs
    <2> QED BY <2>3 DEF z
  <1>16. Worth(Drop(y, i)) = Worth(Drop(c, i))
    <2> DEFINE z == Drop(y, i)  o == Drop(c, i)
    <2>1. i \in Nat /\ i <= Len(y) /\ i <= Len(c) BY <1>3, <1>14
    <2>2. z \in Seq(Digit) /\ \A j \in Nat \ {0} : Limb(z, j) = Limb(y, i + j) BY <1>14, <2>1, DropIs
    <2>3. o \in Seq(Digit) /\ \A j \in Nat \ {0} : Limb(o, j) = Limb(c, i + j) BY <1>3, <2>1, DropIs
    <2> HIDE DEF z, o
    <2>4. ASSUME NEW j \in Nat \ {0} PROVE Limb(z, j) = Limb(o, j)
      <3>1. i + j # i /\ i + j \in Nat /\ i + j >= 1 OBVIOUS
      <3>2. DOMAIN y = 1..len /\ DOMAIN c = 1..len BY <1>3, <1>14
      <3>3. Limb(y, i + j) = Limb(c, i + j) BY <1>14, <3>1, <3>2 DEF Limb
      <3> QED BY <2>2, <2>3, <3>3
    <2>5. Worth(z) = Worth(o) BY <2>2, <2>3, <2>4, SameLimbs
    <2> QED BY <2>5 DEF z, o
  <1>17. Worth(Drop(y, h)) = d.digit + BasePow * Worth(Drop(c, i))
    <2>1. i \in 1..Len(y) /\ i \in 1..len /\ i - 1 = h BY <1>2, <1>14
    <2>2. Worth(Drop(y, i - 1)) = y[i] + BasePow * Worth(Drop(y, i)) BY <1>14, <2>1, DropStep
    <2> QED BY <1>14, <1>16, <2>1, <2>2
  <1>18. Worth(Drop(a, h)) = a[i] + BasePow * Worth(Drop(a, i))
    <2>1. i \in 1..Len(a) /\ i - 1 = h BY <1>1, <1>2
    <2>2. Worth(Drop(a, i - 1)) = a[i] + BasePow * Worth(Drop(a, i)) BY <2>1, DropStep
    <2> QED BY <2>1, <2>2
  <1>19. Worth(Drop(a, h)) = Worth(Drop(y, h)) * w + Worth(Drop(x, h))
    <2> DEFINE e == a[i]  q == BasePow  u == Worth(Drop(c, i))  v == Worth(Drop(r, i))
               o == d.digit  z == Worth(d.n)
               p == Worth(Drop(a, i))  l == Worth(Drop(a, h))
    <2>1. e \in Nat /\ q \in Nat /\ u \in Nat /\ v \in Nat /\ o \in Nat /\ z \in Nat /\ w \in Nat
      BY <1>7, <1>8, <1>10, WorthIsNat DEF Digit
    <2>2. l = e + q * p /\ p = u * w + v BY <1>3, <1>18
    <2>3. e + q * v = o * w + z BY <1>6, <1>7, <1>10
    <2>4. Worth(Drop(y, h)) = o + q * u /\ Worth(Drop(x, h)) = z BY <1>15, <1>17
    <2> HIDE DEF e, q, u, v, o, z, p, l, w
    <2>5. \A g0, j, k, g1, g2 \in Nat : g0 + j * (k * g1 + g2) = (j * k) * g1 + (g0 + j * g2) OBVIOUS
    <2>6. \A g0, j, g1, g2 \in Nat : j * g1 + (g0 * g1 + g2) = (g0 + j) * g1 + g2 OBVIOUS
    <2>7. q * u \in Nat
      <3>1. \A g0, j \in Nat : g0 * j \in Nat OBVIOUS
      <3> QED BY <2>1, <3>1
    <2>8. e + q * (u * w + v) = (q * u) * w + (e + q * v) BY <2>1, <2>5
    <2>9. (q * u) * w + (o * w + z) = (o + q * u) * w + z BY <2>1, <2>6, <2>7
    <2>10. l = (o + q * u) * w + z BY <2>2, <2>3, <2>8, <2>9
    <2> QED BY <2>4, <2>10 DEF l
  <1>20. t \in Halfway(a, len)
    <2>1. t \in [a : Seq(Digit), c : Seq(Digit)] BY <1>12, <1>13, <1>14
    <2>2. Len(t.a) = Len(a) /\ Len(t.c) = len BY <1>1, <1>12, <1>13, <1>14
    <2> QED BY <2>1, <2>2 DEF Halfway
  <1>21. \A k \in 1..h : x[k] = a[k] /\ (k <= len => y[k] = 0)
    <2> TAKE k \in 1..h
    <2>1. k \in 1..(top + m) /\ k \notin i..(i + m) /\ k \in 1..i /\ k # i BY <1>1, <1>2
    <2>2. x[k] = a[k] BY <1>3, <1>13, <2>1
    <2>3. k <= len => y[k] = 0 BY <1>3, <1>14, <2>1
    <2> QED BY <2>2, <2>3
  <1>22. \A k \in 1..Len(a) : k > h + m => x[k] = 0
    <2> TAKE k \in 1..Len(a)
    <2> HAVE k > h + m
    <2>1. k \in 1..(top + m) BY <1>1
    <2>2. CASE k = i + m
      <3>1. k \in i..(i + m) /\ k - h = m + 1 /\ m + 1 \in DOMAIN d.n BY <1>1, <1>2, <1>25, <2>2
      <3>2. x[k] = d.n[m + 1] BY <1>13, <2>1, <3>1
      <3> QED BY <1>11, <3>1, <3>2 DEF Limb
    <2>3. CASE k # i + m
      <3>1. k > h + m /\ k \in Nat BY <2>1
      <3>3. i + m = h + m + 1 /\ h + m \in Nat BY <1>1, <1>2
      <3>4. k > i + m
        <4> DEFINE e == h + m  l == i + m
        <4>1. k \in Nat /\ e \in Nat /\ k > e /\ l = e + 1 /\ k # l BY <2>3, <3>1, <3>3
        <4> HIDE DEF e, l
        <4>2. k > l BY <4>1
        <4> QED BY <4>2 DEF l
      <3>2. k > i + m /\ k \notin i..(i + m) BY <3>1, <3>3, <3>4
      <3> QED BY <1>3, <1>13, <2>1, <3>2
    <2> QED BY <2>2, <2>3
  <1>23. Worth(Drop(x, h)) < w BY <1>10, <1>15
  <1>24. Partway(a, b, len, i, t)
    <2>1. \A k \in 1..h : t.a[k] = a[k] /\ (k <= len => t.c[k] = 0) BY <1>12, <1>21
    <2>2. \A k \in 1..Len(a) : k > h + Len(b) => t.a[k] = 0 BY <1>1, <1>12, <1>22
    <2>3. Worth(Drop(t.a, h)) < Worth(b) BY <1>12, <1>23 DEF w
    <2>4. Worth(Drop(a, h)) = Worth(Drop(t.c, h)) * Worth(b) + Worth(Drop(t.a, h))
      BY <1>12, <1>19 DEF w
    <2> QED BY <1>2, <1>20, <2>1, <2>2, <2>3, <2>4 DEF Partway
  <1> QED BY <1>24 DEF t

\* Before the first place: the two arrays as long as each other, without the zero
\* that tops the dividend.
LEMMA QuotientStart ==
    ASSUME Based, NEW a \in Seq(Digit), NEW b \in Seq(Digit), Len(b) # 0, b[Len(b)] # 0,
           NEW top \in Nat, Len(a) = top + Len(b), a[Len(a)] = 0, NEW len \in Nat, top <= len
    PROVE  Partway(a, b, len, top + 1, [a |-> a, c |-> Zeros(len)])
  <1> DEFINE c == Zeros(len)  s == [a |-> a, c |-> c]  x == Drop(a, top)  y == Drop(c, top)  w == Worth(b)
  <1>1. PICK m \in Nat : m = Len(b) /\ m >= 1 OBVIOUS
  <1>2. c \in Seq(Digit) /\ Len(c) = len /\ \A i \in 1..len : c[i] = 0
    <2>1. \A i \in 1..len : c[i] = 0 BY DEF Zeros
    <2>2. c = [i \in 1..len |-> c[i]] BY DEF Zeros
    <2>3. 0 \in Digit BY DEF Digit, Based
    <2> HIDE DEF c
    <2>4. c \in [1..len -> Digit] BY <2>1, <2>2, <2>3
    <2> QED BY <2>1, <2>4, ArrayOf
  <1> HIDE DEF c
  <1>3. /\ x \in Seq(Digit) /\ Len(x) = m
        /\ \A i \in Nat \ {0} : Limb(x, i) = Limb(a, top + i)
    <2>1. top <= Len(a) /\ Len(a) - top = m BY <1>1
    <2> QED BY <2>1, DropIs
  <1>4. /\ y \in Seq(Digit) /\ Len(y) = len - top
        /\ \A i \in Nat \ {0} : Limb(y, i) = Limb(c, top + i)
    BY <1>2, DropIs
  <1> HIDE DEF x, y
  <1>5. Worth(y) = 0
    <2>1. \A i \in 1..Len(y) : y[i] = 0
      <3> TAKE i \in 1..Len(y)
      <3>1. i \in Nat \ {0} /\ i \in DOMAIN y OBVIOUS
      <3>2. y[i] = Limb(c, top + i) BY <1>4, <3>1 DEF Limb
      <3>3. Limb(c, top + i) = 0
        <4>1. CASE top + i \in DOMAIN c
          <5>1. top + i \in 1..len BY <1>2, <4>1
          <5> QED BY <1>2, <4>1, <5>1 DEF Limb
        <4> QED BY <4>1 DEF Limb
      <3> QED BY <3>2, <3>3
    <2> QED BY <1>4, <2>1, WorthIsNat
  <1>6. w \in Nat /\ Worth(x) \in Nat BY <1>3, WorthIsNat
  <1>7. Worth(x) < w
    <2>1. Limb(x, m) = 0
      <3>1. top + m \in DOMAIN a /\ top + m = Len(a) BY <1>1
      <3>2. Limb(x, m) = Limb(a, top + m) BY <1>1, <1>3
      <3> QED BY <3>1, <3>2 DEF Limb
    <2>2. Limb(b, m) >= 1
      <3>1. m \in DOMAIN b /\ m \in 1..Len(b) BY <1>1
      <3>2. b[m] \in Digit /\ b[m] # 0 BY <1>1, <3>1
      <3> QED BY <3>1, <3>2 DEF Limb, Digit
    <2>3. Limb(x, m) < Limb(b, m)
      <3>1. Limb(b, m) \in Int BY <1>1, DigitIsInt, LimbIsInt
      <3> QED BY <2>1, <2>2, <3>1
    <2>4. m \in 1..m /\ m >= Len(x) /\ m >= Len(b) /\ \A i \in 1..m : i > m => Limb(x, i) = Limb(b, i)
      BY <1>1, <1>3
    <2> QED BY <1>3, <2>3, <2>4, TopDecides
  <1>8. s \in Halfway(a, len) BY <1>2 DEF Halfway
  <1>9. Worth(x) = Worth(y) * w + Worth(x) BY <1>5, <1>6
  <1>10. PICK e \in Nat : e = top + 1 /\ e - 1 = top OBVIOUS
  <1>11. Partway(a, b, len, e, s)
    <2>1. s.a = a /\ s.c = c OBVIOUS
    <2>2. \A k \in 1..top : s.a[k] = a[k] /\ (k <= len => s.c[k] = 0) BY <1>2, <2>1
    <2>3. \A k \in 1..Len(a) : k > top + Len(b) => s.a[k] = 0 OBVIOUS
    <2>4. Worth(Drop(s.a, top)) < Worth(b) BY <1>7, <2>1 DEF x
    <2>5. Worth(Drop(a, top)) = Worth(Drop(s.c, top)) * Worth(b) + Worth(Drop(s.a, top))
      BY <1>9, <2>1 DEF x, y
    <2> HIDE DEF s
    <2> QED BY <1>8, <1>10, <2>2, <2>3, <2>4, <2>5 DEF Partway
  <1> QED BY <1>10, <1>11 DEF c

\* bc_num_d_long(), the loop over the places of the quotient: down to the place it
\* stops at, the limbs of the quotient times the divisor, and what is left of the
\* dividend, make up the dividend.  What is left is less than the divisor, so the
\* quotient is cut off and not rounded, and the limbs below the place it stops at
\* stay zeros.
THEOREM LongDivision ==
    ASSUME Based, NEW a \in Seq(Digit), NEW b \in Seq(Digit), Len(b) # 0, b[Len(b)] # 0,
           NEW top \in Nat, Len(a) = top + Len(b), a[Len(a)] = 0,
           NEW len \in Nat, top <= len, NEW stop \in 1..(top + 1)
    PROVE  LET s == DivLimbs(a, b, stop, len)
           IN  /\ s.a \in Seq(Digit) /\ Len(s.a) = Len(a)
               /\ s.c \in Seq(Digit) /\ Len(s.c) = len
               /\ Worth(Drop(a, stop - 1)) = Worth(Drop(s.c, stop - 1)) * Worth(b) + Worth(Drop(s.a, stop - 1))
               /\ Worth(Drop(s.a, stop - 1)) < Worth(b)
               /\ \A k \in 1..(stop - 1) : k <= len => s.c[k] = 0
  <1> DEFINE S == Halfway(a, len)
             start == [a |-> a, c |-> Zeros(len)]
             Next1(i, s) == Placed(a, b, len, i, s)
             Is(g) == g = [i \in 1..(top + 1) |->
                             IF i > top THEN [a |-> a, c |-> Zeros(len)]
                             ELSE LET s == g[i + 1]
                                      d == DivLimb(SubSeq(s.a, i, i + Len(b)), b)
                                  IN  [a |-> [k \in DOMAIN a |-> IF k \in i..(i + Len(b)) THEN d.n[k - i + 1] ELSE s.a[k]],
                                       c |-> [k \in 1..len |-> IF k = i THEN d.digit ELSE s.c[k]]]]
             p == CHOOSE g : Is(g)
             step == [x \in (1..top) \X S |->
                        IF Partway(a, b, len, x[1] + 1, x[2]) THEN Next1(x[1], x[2]) ELSE x[2]]
             T == {i \in 1..(top + 1) : Partway(a, b, len, i, p[i])}
  <1>1. ASSUME NEW i \in 1..top, NEW s, Partway(a, b, len, i + 1, s)
        PROVE  Partway(a, b, len, i, Next1(i, s)) /\ Next1(i, s) \in S
    <2>1. Partway(a, b, len, i, Next1(i, s)) BY <1>1, QuotientPlace
    <2> HIDE DEF Next1
    <2> QED BY <2>1 DEF Partway
  <1>2. Partway(a, b, len, top + 1, start) BY QuotientStart
  <1>3. start \in S BY <1>2 DEF Partway
  <1> HIDE DEF S, Next1, start
  <1>4. ASSUME NEW i \in 1..top, NEW s \in S
        PROVE  /\ step[<<i, s>>] = IF Partway(a, b, len, i + 1, s) THEN Next1(i, s) ELSE s
               /\ step[<<i, s>>] \in S
    <2>1. <<i, s>> \in (1..top) \X S OBVIOUS
    <2>2. step[<<i, s>>] = IF Partway(a, b, len, i + 1, s) THEN Next1(i, s) ELSE s BY <2>1
    <2> HIDE DEF step
    <2> QED BY <1>1, <2>2
  <1> HIDE DEF step
  <1>5. PICK f : DownChain(f, start, step, S, top)
    <2>1. Steps(step, S, top) BY <1>4, Zenon DEF Steps
    <2>2. \E f : DownChain(f, start, step, S, top) BY <1>3, <2>1, DownRecursion, Zenon
    <2> QED BY <2>2
  <1> DEFINE V == {i \in 1..(top + 1) : Partway(a, b, len, i, f[i])}
  <1>6. \A i \in 1..(top + 1) : i \in V
    <2>1. top + 1 \in V
      <3>1. top + 1 \in 1..(top + 1) OBVIOUS
      <3>2. f[top + 1] = start BY <1>5 DEF DownChain
      <3> QED BY <1>2, <3>1, <3>2
    <2>2. ASSUME NEW i \in 1..top, i + 1 \in V PROVE i \in V
      <3>1. i \in 1..(top + 1) /\ i + 1 \in 1..(top + 1) OBVIOUS
      <3>2. f[i] = step[<<i, f[i + 1]>>] /\ f[i + 1] \in S BY <1>5, <3>1 DEF DownChain
      <3>3. Partway(a, b, len, i + 1, f[i + 1]) BY <2>2
      <3>4. f[i] = Next1(i, f[i + 1]) BY <1>4, <3>2, <3>3
      <3>5. Partway(a, b, len, i, f[i]) BY <1>1, <3>3, <3>4
      <3> QED BY <3>1, <3>5
    <2> HIDE DEF V
    <2> QED BY <2>1, <2>2, DownInduction
  <1>7. /\ f = [i \in 1..(top + 1) |-> f[i]] /\ f[top + 1] = start
        /\ \A i \in 1..top : f[i] = Next1(i, f[i + 1])
    <2>1. f = [i \in 1..(top + 1) |-> f[i]] /\ f[top + 1] = start BY <1>5 DEF DownChain
    <2>2. ASSUME NEW i \in 1..top PROVE f[i] = Next1(i, f[i + 1])
      <3>1. i + 1 \in 1..(top + 1) OBVIOUS
      <3>2. f[i] = step[<<i, f[i + 1]>>] /\ f[i + 1] \in S BY <1>5, <3>1 DEF DownChain
      <3>3. Partway(a, b, len, i + 1, f[i + 1]) BY <1>6, <3>1
      <3> QED BY <1>4, <3>2, <3>3
    <2> QED BY <2>1, <2>2
  <1> HIDE DEF V
  <1>8. \A i \in 1..(top + 1) : (i > top => i = top + 1) /\ (~(i > top) => i \in 1..top) OBVIOUS
  <1>9. Is(f)
    <2>1. \A i \in 1..(top + 1) : f[i] = IF i > top THEN start ELSE Next1(i, f[i + 1])
      BY <1>7, <1>8, Zenon
    <2> QED BY <1>7, <2>1, Zenon DEF start, Next1, Placed
  <1>10. Is(p) BY <1>9, Zenon
  <1>11. \A i \in 1..(top + 1) : p[i] = IF i > top THEN start ELSE Next1(i, p[i + 1])
    BY <1>10, Zenon DEF start, Next1, Placed
  <1>12. DivLimbs(a, b, stop, len) = p[stop]
    <2>1. Len(a) - Len(b) = top OBVIOUS
    <2>2. Smaller(stop, top + 1) = stop BY DEF Smaller
    <2> QED BY <2>1, <2>2 DEF DivLimbs
  <1> HIDE DEF p, Is
  <1>13. top + 1 \in T
    <2>1. top + 1 \in 1..(top + 1) /\ top + 1 > top OBVIOUS
    <2>2. p[top + 1] = start BY <1>11, <2>1
    <2> QED BY <1>2, <2>1, <2>2
  <1>14. ASSUME NEW i \in 1..top, i + 1 \in T PROVE i \in T
    <2>1. i \in 1..(top + 1) /\ ~(i > top) OBVIOUS
    <2>2. p[i] = Next1(i, p[i + 1]) BY <1>11, <2>1
    <2>3. Partway(a, b, len, i + 1, p[i + 1]) BY <1>14
    <2>4. Partway(a, b, len, i, p[i]) BY <1>1, <2>2, <2>3
    <2> QED BY <2>1, <2>4
  <1> HIDE DEF T
  <1>15. \A i \in 1..(top + 1) : i \in T BY <1>13, <1>14, DownInduction
  <1>16. Partway(a, b, len, stop, p[stop]) BY <1>15 DEF T
  <1> QED BY <1>12, <1>16 DEF Partway, Halfway

-----------------------------------------------------------------------------
(* Products by halves                                                      *)

\* The places of an array of limbs are natural numbers.
LEMMA DomainIs ==
    ASSUME Based, NEW a \in Seq(Digit)
    PROVE  /\ Len(a) \in Nat /\ DOMAIN a = 1..Len(a)
           /\ \A i \in 1..Len(a) : a[i] \in Nat /\ Limb(a, i) = a[i]
           /\ \A i \in Nat : Limb(a, i) \in Nat
  <1>1. Len(a) \in Nat /\ DOMAIN a = 1..Len(a) /\ \A i \in 1..Len(a) : a[i] \in Digit OBVIOUS
  <1>2. Digit \subseteq Nat BY DEF Digit, Based
  <1>3. \A i \in 1..Len(a) : Limb(a, i) = a[i] BY <1>1 DEF Limb
  <1>4. \A i \in Nat : Limb(a, i) \in Nat BY <1>1, <1>2 DEF Limb
  <1> QED BY <1>1, <1>2, <1>3, <1>4

\* Limbs moved up by a place stand for BasePow times as much, by k places for a
\* one above k zeros times as much.
LEMMA UpOne ==
    ASSUME Based, NEW a \in Seq(Digit), NEW b \in Seq(Digit),
           Limb(b, 1) = 0, \A i \in Nat \ {0} : Limb(b, i + 1) = Limb(a, i)
    PROVE  Worth(b) = BasePow * Worth(a)
  <1>1. CASE Len(b) = 0
    <2>1. \A i \in 1..Len(a) : a[i] = 0
      <3> TAKE i \in 1..Len(a)
      <3>1. i \in Nat \ {0} /\ DOMAIN b = {} BY <1>1, DomainIs
      <3>2. Limb(a, i) = a[i] /\ Limb(b, i + 1) = 0 BY <3>1, DomainIs DEF Limb
      <3> QED BY <3>1, <3>2
    <2>2. \A i \in 1..Len(b) : b[i] = 0 BY <1>1
    <2>3. Worth(a) = 0 /\ Worth(b) = 0 BY <2>1, <2>2, WorthIsNat
    <2> QED BY <2>3 DEF Based
  <1>2. CASE Len(b) # 0
    <2> DEFINE x == Drop(b, 0)  y == Drop(b, 1)
    <2>1. 1 \in 1..Len(b) /\ 1 \in DOMAIN b /\ 1 - 1 = 0
      <3>1. Len(b) \in Nat /\ DOMAIN b = 1..Len(b) BY DomainIs
      <3> QED BY <1>2, <3>1
    <2>2. Worth(Drop(b, 1 - 1)) = b[1] + BasePow * Worth(Drop(b, 1)) BY <2>1, DropStep
    <2>3. b[1] = 0 BY <2>1 DEF Limb
    <2>4. x \in Seq(Digit) /\ \A i \in Nat \ {0} : Limb(x, i) = Limb(b, 0 + i)
      <3>1. 0 \in Nat /\ 0 <= Len(b) OBVIOUS
      <3> QED BY <3>1, DropIs
    <2>5. y \in Seq(Digit) /\ \A i \in Nat \ {0} : Limb(y, i) = Limb(b, 1 + i)
      <3>1. 1 \in Nat /\ 1 <= Len(b) BY <2>1
      <3> QED BY <3>1, DropIs
    <2> HIDE DEF x, y
    <2>6. Worth(x) = Worth(b)
      <3>1. \A i \in Nat \ {0} : Limb(x, i) = Limb(b, i) BY <2>4
      <3> QED BY <2>4, <3>1, SameLimbs
    <2>7. Worth(y) = Worth(a)
      <3>1. \A i \in Nat \ {0} : 1 + i = i + 1 OBVIOUS
      <3>2. \A i \in Nat \ {0} : Limb(y, i) = Limb(a, i) BY <2>5, <3>1
      <3> QED BY <2>5, <3>2, SameLimbs
    <2>8. Worth(x) = b[1] + BasePow * Worth(y) BY <2>1, <2>2 DEF x, y
    <2>9. BasePow * Worth(a) \in Nat
      <3>1. \A u, v \in Nat : u * v \in Nat OBVIOUS
      <3>2. Worth(a) \in Nat /\ BasePow \in Nat BY WorthIsNat DEF Based
      <3> QED BY <3>1, <3>2
    <2> QED BY <2>3, <2>6, <2>7, <2>8, <2>9
  <1> QED BY <1>1, <1>2

\* Zeros below multiply.
LEMMA ZerosWorth ==
    ASSUME Based, NEW a \in Seq(Digit), NEW k \in Nat
    PROVE  Worth(Zeros(k) \o a) = Worth(Unit(k)) * Worth(a)
  <1> DEFINE x(n) == Zeros(n) \o a
             T == {n \in 0..k : Worth(x(n)) = Worth(Unit(n)) * Worth(a)}
  <1>1. \A n \in Nat : /\ x(n) \in Seq(Digit)
                       /\ \A i \in Nat \ {0} : Limb(x(n), i) = IF i <= n THEN 0 ELSE Limb(a, i - n)
    BY ZerosBelow
  <1>2. Worth(a) \in Nat /\ BasePow \in Nat /\ \A n \in Nat : Worth(Unit(n)) \in Nat BY WorthIsNat, UnitIs DEF Based
  <1> HIDE DEF x
  <1>3. 0 \in T
    <2>1. \A i \in Nat \ {0} : Limb(x(0), i) = Limb(a, i)
      <3> TAKE i \in Nat \ {0}
      <3>1. ~(i <= 0) /\ i - 0 = i OBVIOUS
      <3> QED BY <1>1, <3>1
    <2>2. Worth(x(0)) = Worth(a) BY <1>1, <2>1, SameLimbs
    <2> QED BY <1>2, <2>2, UnitZero
  <1>4. ASSUME NEW n \in 0..(k - 1), n \in T PROVE n + 1 \in T
    <2>1. n \in Nat /\ n + 1 \in Nat /\ n + 1 \in 0..k OBVIOUS
    <2>2. PICK m \in Nat : m = n + 1 OBVIOUS
    <2>3. Limb(x(m), 1) = 0 BY <1>1, <2>2
    <2>4. ASSUME NEW i \in Nat \ {0} PROVE Limb(x(m), i + 1) = Limb(x(n), i)
      <3>1. PICK j \in Nat \ {0} : j = i + 1 OBVIOUS
      <3>2. Limb(x(m), j) = IF j <= m THEN 0 ELSE Limb(a, j - m) BY <1>1
      <3>3. Limb(x(n), i) = IF i <= n THEN 0 ELSE Limb(a, i - n) BY <1>1, <2>1
      <3>4. (j <= m <=> i <= n) /\ j - m = i - n BY <2>1, <2>2, <3>1
      <3> QED BY <3>1, <3>2, <3>3, <3>4
    <2>5. Worth(x(m)) = BasePow * Worth(x(n)) BY <1>1, <2>1, <2>3, <2>4, UpOne
    <2>6. Worth(Unit(m)) = BasePow * Worth(Unit(n)) BY <2>1, <2>2, UnitNext
    <2>7. Worth(x(n)) = Worth(Unit(n)) * Worth(a) BY <1>4
    <2>8. BasePow * (Worth(Unit(n)) * Worth(a)) = (BasePow * Worth(Unit(n))) * Worth(a)
      <3>1. \A u, v, w \in Nat : u * (v * w) = (u * v) * w OBVIOUS
      <3> QED BY <1>2, <2>1, <3>1
    <2> QED BY <2>1, <2>2, <2>5, <2>6, <2>7, <2>8
  <1> HIDE DEF T
  <1>5. \A n \in 0..k : n \in T BY <1>3, <1>4, Induction
  <1>6. k \in T BY <1>5
  <1> QED BY <1>6 DEF T, x

\* Zeros below an array, unless it is empty.
LEMMA UpIs ==
    ASSUME Based, NEW a \in Seq(Digit), NEW k \in Nat
    PROVE  /\ Up(a, k) \in Seq(Digit)
           /\ Worth(Up(a, k)) = Worth(Unit(k)) * Worth(a)
           /\ \A i \in Nat \ {0} : Limb(Up(a, k), i) = IF i <= k THEN 0 ELSE Limb(a, i - k)
  <1>1. CASE a = <<>>
    <2>1. Up(a, k) = <<>> BY <1>1 DEF Up
    <2>2. Worth(a) = 0
      <3>1. \A i \in 1..Len(a) : a[i] = 0 BY <1>1
      <3> QED BY <3>1, WorthIsNat
    <2>3. Worth(Unit(k)) \in Nat BY UnitIs
    <2>4. Worth(Unit(k)) * 0 = 0 BY <2>3
    <2>5. \A i \in Nat : Limb(a, i) = 0 /\ Limb(Up(a, k), i) = 0 BY <1>1, <2>1 DEF Limb
    <2>6. \A i \in Nat \ {0} : i <= k \/ i - k \in Nat OBVIOUS
    <2> QED BY <1>1, <2>1, <2>2, <2>4, <2>5, <2>6
  <1>2. CASE a # <<>>
    <2>1. Up(a, k) = Zeros(k) \o a BY <1>2 DEF Up
    <2>2. /\ Zeros(k) \o a \in Seq(Digit)
          /\ \A i \in Nat \ {0} : Limb(Zeros(k) \o a, i) = IF i <= k THEN 0 ELSE Limb(a, i - k)
      BY ZerosBelow
    <2>3. Worth(Zeros(k) \o a) = Worth(Unit(k)) * Worth(a) BY ZerosWorth
    <2> QED BY <2>1, <2>2, <2>3
  <1> QED BY <1>1, <1>2

\* No zero on top.
Proper(a) == a \in Seq(Digit) /\ (Len(a) # 0 => a[Len(a)] # 0)

\* Without the zeros above, an array stands for the same.
LEMMA StripIs ==
    ASSUME Based, NEW a \in Seq(Digit)
    PROVE  Proper(Strip(a)) /\ Len(Strip(a)) <= Len(a) /\ Worth(Strip(a)) = Worth(a)
  <1>1. /\ Strip(a) \in Seq(Digit) /\ Len(Strip(a)) <= Len(a)
        /\ \A i \in Nat \ {0} : Limb(Strip(a), i) = Limb(a, i)
        /\ Len(Strip(a)) # 0 => Strip(a)[Len(Strip(a))] # 0
    BY Stripped
  <1>2. Worth(Strip(a)) = Worth(a) BY <1>1, SameLimbs
  <1> QED BY <1>1, <1>2 DEF Proper

\* The smaller of two numbers.
LEMMA SmallerIs ==
    \A m, n \in Nat : Smaller(m, n) \in Nat /\ Smaller(m, n) <= m /\ Smaller(m, n) <= n
                      /\ (Smaller(m, n) = m \/ Smaller(m, n) = n)
  BY DEF Smaller

\* bc_num_split(): the two halves of an array.
LEMMA SplitIs ==
    ASSUME Based, NEW a \in Seq(Digit), NEW k \in Nat
    PROVE  /\ Proper(Low(a, k)) /\ Len(Low(a, k)) <= k
           /\ High(a, k) \in Seq(Digit) /\ (Proper(a) => Proper(High(a, k))) /\ Len(High(a, k)) = Len(a) - Smaller(k, Len(a))
           /\ Worth(a) = Worth(Low(a, k)) + Worth(Unit(k)) * Worth(High(a, k))
  <1> DEFINE m == Smaller(k, Len(a))  s == SubSeq(a, 1, m)  h == Drop(a, m)  u == Up(h, k)  l == Strip(s)
  <1>1. a \in Seq(Digit) /\ Len(a) \in Nat BY DomainIs
  <1>2. m \in Nat /\ m <= k /\ m <= Len(a) /\ (m = k \/ m = Len(a)) BY <1>1, SmallerIs
  <1> HIDE DEF m
  <1>3. s \in Seq(Digit) /\ Len(s) = m /\ \A i \in 1..m : Limb(s, i) = a[i] /\ Limb(a, i) = a[i]
    BY <1>1, <1>2, LowLimbs
  <1>4. /\ h \in Seq(Digit) /\ Len(h) = Len(a) - m
        /\ \A i \in Nat \ {0} : Limb(h, i) = Limb(a, m + i)
    BY <1>1, <1>2, DropIs
  <1> HIDE DEF s, h
  <1>5. Proper(l) /\ Len(l) <= m /\ Worth(l) = Worth(s) BY <1>3, StripIs
  <1>6. Proper(a) => Proper(h)
    <2> SUFFICES ASSUME Len(a) # 0 => a[Len(a)] # 0, Len(h) # 0 PROVE h[Len(h)] # 0 BY <1>4 DEF Proper
    <2>1. PICK n \in Nat \ {0} : n = Len(h) BY <1>4
    <2>2. n \in DOMAIN h /\ m + n = Len(a) /\ Len(a) # 0 /\ Len(a) \in DOMAIN a
      <3>1. DOMAIN h = 1..Len(h) /\ DOMAIN a = 1..Len(a) BY <1>1, <1>4, DomainIs
      <3>2. m + n = Len(a) BY <1>1, <1>2, <1>4, <2>1
      <3>3. n \in 1..Len(h) /\ Len(a) # 0 /\ Len(a) \in 1..Len(a) BY <1>1, <1>2, <2>1, <3>2
      <3> QED BY <3>1, <3>2, <3>3
    <2>3. h[n] = Limb(h, n) /\ Limb(a, Len(a)) = a[Len(a)] BY <2>2 DEF Limb
    <2>4. Limb(h, n) = Limb(a, m + n) BY <1>4
    <2> QED BY <1>1, <2>1, <2>2, <2>3, <2>4
  <1>7. /\ u \in Seq(Digit) /\ Worth(u) = Worth(Unit(k)) * Worth(h)
        /\ \A i \in Nat \ {0} : Limb(u, i) = IF i <= k THEN 0 ELSE Limb(h, i - k)
    BY <1>4, UpIs
  <1> HIDE DEF u, l
  <1>8. ASSUME NEW i \in Nat \ {0} PROVE Limb(a, i) = 1 * Limb(s, i) + 1 * Limb(u, i)
    <2>1. Limb(a, i) \in Nat /\ Limb(s, i) \in Nat /\ Limb(u, i) \in Nat BY <1>1, <1>3, <1>7, DomainIs
    <2>2. CASE i <= m
      <3>1. i \in 1..m /\ i <= k BY <1>2, <2>2
      <3>2. Limb(s, i) = Limb(a, i) /\ Limb(u, i) = 0 BY <1>3, <1>7, <3>1
      <3> QED BY <2>1, <3>2
    <2>3. CASE i > m
      <3>1. Limb(s, i) = 0 BY <1>3, <2>3, DigitIsInt
      <3>2. Limb(u, i) = Limb(a, i)
        <4>1. CASE m = k
          <5>1. PICK j \in Nat \ {0} : j = i - k BY <2>3, <4>1
          <5>2. ~(i <= k) /\ m + j = i BY <2>3, <4>1, <5>1
          <5>3. Limb(u, i) = Limb(h, j) BY <1>7, <5>1, <5>2
          <5>4. Limb(h, j) = Limb(a, m + j) BY <1>4
          <5> QED BY <5>2, <5>3, <5>4
        <4>2. CASE m = Len(a)
          <5>1. Limb(a, i) = 0 BY <1>1, <2>3, <4>2, DigitIsInt
          <5>2. i <= k \/ i - k \in Nat OBVIOUS
          <5>3. Len(h) = 0 BY <1>1, <1>4, <4>2
          <5>4. \A j \in Nat : Limb(h, j) = 0 BY <1>4, <5>3 DEF Limb
          <5> QED BY <1>7, <5>1, <5>2, <5>4
        <4> QED BY <1>2, <4>1, <4>2
      <3> QED BY <2>1, <3>1, <3>2
    <2> QED BY <1>2, <2>2, <2>3
  <1>9. Worth(a) = 1 * Worth(s) + 1 * Worth(u)
    <2> DEFINE n == Bigger(Len(a), Bigger(Len(s), Len(u)))
    <2>1. n \in Nat /\ n >= Len(a) /\ n >= Len(s) /\ n >= Len(u)
      <3>1. Len(s) \in Nat /\ Len(u) \in Nat BY <1>3, <1>7, DomainIs
      <3>2. PICK e \in Nat : e = Bigger(Len(s), Len(u)) /\ e >= Len(s) /\ e >= Len(u) BY <3>1, BiggerIs
      <3>3. Bigger(Len(a), e) \in Nat /\ Bigger(Len(a), e) >= Len(a) /\ Bigger(Len(a), e) >= e
        BY <1>1, BiggerIs
      <3> QED BY <1>1, <3>1, <3>2, <3>3
    <2>2. a \in Seq(Int) /\ s \in Seq(Int) /\ u \in Seq(Int) BY <1>1, <1>3, <1>7, DigitIsInt
    <2> HIDE DEF n
    <2>3. \A i \in 1..n : Limb(a, i) = 1 * Limb(s, i) + 1 * Limb(u, i) BY <1>8, <2>1
    <2> QED BY <2>1, <2>2, <2>3, Linear
  <1>10. Worth(s) \in Nat /\ Worth(u) \in Nat /\ Worth(a) \in Nat BY <1>1, <1>3, <1>7, WorthIsNat
  <1>11. Worth(a) = Worth(l) + Worth(u) BY <1>5, <1>9, <1>10
  <1>12. Len(l) <= k
    <2>1. Len(l) \in Nat BY <1>5 DEF Proper
    <2> QED BY <1>2, <1>5, <2>1
  <1>13. Low(a, k) = l /\ High(a, k) = h BY DEF Low, High, l, s, h, m
  <1>14. Smaller(k, Len(a)) = m BY DEF m
  <1> QED BY <1>4, <1>5, <1>6, <1>7, <1>11, <1>12, <1>13, <1>14

\* Nothing is behind the point of an integer.
LEMMA NoRdx ==
    ASSUME Digits
    PROVE  RdxOf(0) = 0
  <1>1. BaseDigs \in Nat /\ BaseDigs >= 1 BY DEF Digits
  <1>2. \A x \in Nat : x >= 1 => (0 + x - 1) \div x = 0 OBVIOUS
  <1> QED BY <1>1, <1>2 DEF RdxOf

\* An array without zeros above is a number, and stands for what its limbs do.
LEMMA IntegerIs ==
    ASSUME Based, Digits, NEW a, Proper(a)
    PROVE  LET n == Integer(a)
           IN  /\ Number(n) /\ n.num = a /\ n.scale = 0 /\ ~n.neg
               /\ Rdx(n) = 0
               /\ Stands(n, 0) = Worth(a)
  <1> DEFINE n == Integer(a)
  <1>1. n = [neg |-> FALSE, scale |-> 0, num |-> a] BY DEF Integer, Num
  <1>2. n.num = a /\ n.scale = 0 /\ n.neg = FALSE BY <1>1
  <1>3. a \in Seq(Digit) /\ Len(a) \in Nat /\ DOMAIN a = 1..Len(a) /\ (Len(a) # 0 => a[Len(a)] # 0)
    BY DomainIs DEF Proper
  <1>4. n \in [neg : BOOLEAN, scale : Nat, num : Seq(Digit)] BY <1>1, <1>3
  <1> HIDE DEF n
  <1>5. RdxOf(n.scale) = 0 BY <1>2, NoRdx
  <1>6. Rdx(n) = 0 BY <1>5 DEF Rdx
  <1>7. Number(n)
    <2>1. ~IsZero(n) => Len(a) # 0 BY <1>2, <1>3 DEF IsZero
    <2>2. Len(a) # 0 => Len(a) \in DOMAIN a BY <1>3
    <2> QED BY <1>2, <1>3, <1>4, <1>5, <2>1, <2>2 DEF Number
  <1>8. Stands(n, 0) = Worth(a)
    <2>1. Aligned(n, 0) = Zeros(0) \o a BY <1>2, <1>6 DEF Aligned
    <2>2. Worth(Zeros(0) \o a) = Worth(Unit(0)) * Worth(a) BY <1>3, ZerosWorth
    <2>3. Worth(a) \in Nat BY <1>3, WorthIsNat
    <2>4. Worth(Unit(0)) = 1 BY UnitZero
    <2>5. Worth(Zeros(0) \o a) = Worth(a) BY <2>2, <2>3, <2>4
    <2> QED BY <1>2, <2>1, <2>5 DEF Stands
  <1> QED BY <1>2, <1>6, <1>7, <1>8 DEF n

\* The difference of two integers, which is no longer than they are.
LEMMA DifferenceIs ==
    ASSUME Based, Digits, NEW a, Proper(a), NEW b, Proper(b)
    PROVE  LET r == Sub(Integer(a), Integer(b))
           IN  /\ Proper(r.num) /\ Len(r.num) <= Bigger(Len(a), Len(b))
               /\ r.neg \in BOOLEAN
               /\ Worth(a) - Worth(b) = IF r.neg THEN -Worth(r.num) ELSE Worth(r.num)
  <1> DEFINE x == Integer(a)  y == Integer(b)  r == AddSub(x, y, TRUE)
             u == Worth(a)  v == Worth(b)  w == Worth(r.num)
  <1>1. Number(x) /\ x.num = a /\ x.scale = 0 /\ Rdx(x) = 0 /\ Stands(x, 0) = u BY IntegerIs
  <1>2. Number(y) /\ y.num = b /\ y.scale = 0 /\ Rdx(y) = 0 /\ Stands(y, 0) = v BY IntegerIs
  <1>3. a \in Seq(Digit) /\ b \in Seq(Digit) BY DEF Proper
  <1>4. u \in Nat /\ v \in Nat BY <1>3, WorthIsNat
  <1>5. Bigger(0, 0) = 0 BY DEF Bigger
  <1> HIDE DEF x, y
  <1>6. Number(r) /\ r.scale = 0 /\ Stands(r, 0) = u - v
    <2>1. TRUE \in BOOLEAN OBVIOUS
    <2>2. LET rdx == Bigger(Rdx(x), Rdx(y))
          IN  /\ Number(r)
              /\ r.scale = IF IsZero(y) THEN x.scale ELSE IF IsZero(x) THEN y.scale ELSE Bigger(x.scale, y.scale)
              /\ Stands(r, rdx) = IF TRUE THEN Stands(x, rdx) - Stands(y, rdx) ELSE Stands(x, rdx) + Stands(y, rdx)
      BY <1>1, <1>2, <2>1, Addition
    <2> HIDE DEF r, u, v
    <2> QED BY <1>1, <1>2, <1>5, <2>2
  <1> HIDE DEF r
  <1>7. r.num \in Seq(Digit) /\ r.neg \in BOOLEAN /\ Rdx(r) = 0 /\ (Len(r.num) # 0 => r.num[Len(r.num)] # 0)
    <2>1. r.num \in Seq(Digit) /\ r.neg \in BOOLEAN BY <1>6 DEF Number
    <2>2. RdxOf(r.scale) = 0 BY <1>6, NoRdx
    <2>3. Rdx(r) = 0 BY <2>2 DEF Rdx
    <2>4. Len(r.num) \in Nat BY <2>1, DomainIs
    <2>5. Len(r.num) # 0 => ~IsZero(r) /\ Len(r.num) > 0
      <3>1. IsZero(r) => Len(r.num) = 0 BY DEF IsZero
      <3> QED BY <2>4, <3>1
    <2> QED BY <1>6, <2>1, <2>2, <2>3, <2>5 DEF Number
  <1>8. w \in Nat /\ Stands(r, 0) = IF r.neg THEN -w ELSE w
    <2>1. Aligned(r, 0) = Zeros(0) \o r.num BY <1>7 DEF Aligned
    <2>2. Worth(Zeros(0) \o r.num) = Worth(Unit(0)) * w BY <1>7, ZerosWorth
    <2>3. w \in Nat BY <1>7, WorthIsNat
    <2>4. Worth(Unit(0)) = 1 BY UnitZero
    <2>5. Worth(Zeros(0) \o r.num) = w BY <2>2, <2>3, <2>4
    <2> QED BY <2>1, <2>3, <2>5 DEF Stands
  <1> DEFINE m == Bigger(Len(a), Len(b))
  <1>9. m \in Nat /\ m >= Len(a) /\ m >= Len(b) /\ Len(a) \in Nat /\ Len(b) \in Nat /\ Len(r.num) \in Nat
    <2>1. Len(a) \in Nat /\ Len(b) \in Nat /\ Len(r.num) \in Nat BY <1>3, <1>7, DomainIs
    <2> QED BY <2>1, BiggerIs
  <1> HIDE DEF m
  <1>10. Len(r.num) <= m
    <2> SUFFICES ASSUME Len(r.num) > m PROVE FALSE BY <1>9
    <2>1. Limb(r.num, Len(r.num)) >= 1
      <3>1. Len(r.num) # 0 /\ Len(r.num) \in 1..Len(r.num) BY <1>9
      <3>2. r.num[Len(r.num)] \in Nat /\ Limb(r.num, Len(r.num)) = r.num[Len(r.num)] BY <1>7, <3>1, DomainIs
      <3> QED BY <1>7, <3>1, <3>2
    <2>2. Len(a) < Len(r.num) /\ Len(b) < Len(r.num) BY <1>9
    <2>3. u < w BY <1>3, <1>7, <2>1, <2>2, Longer
    <2>4. v < w BY <1>3, <1>7, <2>1, <2>2, Longer
    <2> HIDE DEF u, v, w
    <2> QED BY <1>4, <1>6, <1>7, <1>8, <2>3, <2>4
  <1>11. Sub(Integer(a), Integer(b)) = r BY DEF Sub, r, x, y
  <1> QED BY <1>6, <1>7, <1>8, <1>10, <1>11 DEF Proper, m

\* The sum of the cross products, from the product of the differences.
LEMMA Crossed ==
    \A u, h, l, g, k \in Int :
        (((u * u) * (h * g) + u * (h * g)) + (u * (l * k) + l * k)) + u * ((h - l) * (k - g)) = (l + u * h) * (k + u * g)
  <1> TAKE u, h, l, g, k \in Int
  <1> DEFINE p == h * g  q == l * k  r == h * k  s == l * g
  <1>1. p \in Int /\ q \in Int /\ r \in Int /\ s \in Int OBVIOUS
  <1>2. (h - l) * (k - g) = r - p - q + s OBVIOUS
  <1>3. (l + u * h) * (k + u * g) = q + u * s + u * r + (u * u) * p OBVIOUS
  <1> HIDE DEF p, q, r, s
  <1>4. u * (r - p - q + s) = u * r - u * p - u * q + u * s BY <1>1
  <1>5. (u * u) * p \in Int /\ u * p \in Int /\ u * q \in Int /\ u * r \in Int /\ u * s \in Int BY <1>1
  <1>6. (((u * u) * p + u * p) + (u * q + q)) + u * (r - p - q + s) = q + u * s + u * r + (u * u) * p
    BY <1>1, <1>4, <1>5
  <1> QED BY <1>2, <1>3, <1>6 DEF p, q

\* z2, z0 and z1 are the products of h and g, of l and k, and of the amounts d1 and d2
\* of the differences m1 and m2.
Parts(h, l, g, k, half, z2, z0, z1, m1, m2, d1, d2) ==
    /\ h \in Nat /\ l \in Nat /\ g \in Nat /\ k \in Nat /\ half \in Nat /\ d1 \in Nat /\ d2 \in Nat
    /\ z2 \in Seq(Digit) /\ z0 \in Seq(Digit) /\ z1 \in Seq(Digit)
    /\ m1.neg \in BOOLEAN /\ m2.neg \in BOOLEAN
    /\ h - l = IF m1.neg THEN -d1 ELSE d1
    /\ k - g = IF m2.neg THEN -d2 ELSE d2
    /\ Worth(z2) = h * g /\ Worth(z0) = l * k /\ Worth(z1) = d1 * d2

\* bc_num_k(), the last steps: the products of the halves and that of their
\* differences, added and taken off where the halves are, are the product.
LEMMA JoinedIs ==
    ASSUME Based, NEW h, NEW l, NEW g, NEW k, NEW half, NEW z2, NEW z0, NEW z1, NEW m1, NEW m2, NEW d1, NEW d2,
           Parts(h, l, g, k, half, z2, z0, z1, m1, m2, d1, d2)
    PROVE  LET u == Worth(Unit(half))
           IN  /\ Joined(m1, m2, z2, z0, z1, half) \in Seq(Digit)
               /\ Worth(Joined(m1, m2, z2, z0, z1, half)) = (l + u * h) * (k + u * g)
  <1>0. /\ h \in Nat /\ l \in Nat /\ g \in Nat /\ k \in Nat /\ half \in Nat /\ d1 \in Nat /\ d2 \in Nat
        /\ z2 \in Seq(Digit) /\ z0 \in Seq(Digit) /\ z1 \in Seq(Digit)
        /\ m1.neg \in BOOLEAN /\ m2.neg \in BOOLEAN
        /\ h - l = IF m1.neg THEN -d1 ELSE d1
        /\ k - g = IF m2.neg THEN -d2 ELSE d2
        /\ Worth(z2) = h * g /\ Worth(z0) = l * k /\ Worth(z1) = d1 * d2
    BY DEF Parts
  <1> USE <1>0
  <1> DEFINE u == Worth(Unit(half))
             a2 == Up(z2, 2 * half)  a1 == Up(z2, half)  b1 == Up(z0, half)  t == Up(z1, half)
             p == AddArrays(a2, a1)  q == AddArrays(b1, z0)  c == AddArrays(p, q)
             j == Joined(m1, m2, z2, z0, z1, half)
             e == (h - l) * (k - g)  w == ((u * u) * (h * g) + u * (h * g)) + (u * (l * k) + l * k)
             total == (l + u * h) * (k + u * g)
  <1>1. u \in Nat /\ Worth(Unit(2 * half)) = u * u
    <2>1. half + half = 2 * half OBVIOUS
    <2>2. Worth(Unit(half)) * Worth(Unit(half)) = Worth(Unit(half + half)) BY UnitTimes
    <2>3. u \in Nat BY UnitIs
    <2> QED BY <2>1, <2>2, <2>3
  <1>2. /\ a2 \in Seq(Digit) /\ a1 \in Seq(Digit) /\ b1 \in Seq(Digit) /\ t \in Seq(Digit)
        /\ Worth(a2) = (u * u) * (h * g) /\ Worth(a1) = u * (h * g)
        /\ Worth(b1) = u * (l * k) /\ Worth(t) = u * (d1 * d2)
    <2>1. 2 * half \in Nat OBVIOUS
    <2>2. a2 \in Seq(Digit) /\ Worth(a2) = Worth(Unit(2 * half)) * Worth(z2) BY <2>1, UpIs
    <2>3. a1 \in Seq(Digit) /\ Worth(a1) = u * Worth(z2) BY UpIs
    <2>4. b1 \in Seq(Digit) /\ Worth(b1) = u * Worth(z0) BY UpIs
    <2>5. t \in Seq(Digit) /\ Worth(t) = u * Worth(z1) BY UpIs
    <2> HIDE DEF u, a2, a1, b1, t
    <2> QED BY <1>1, <2>2, <2>3, <2>4, <2>5
  <1> HIDE DEF a2, a1, b1, t
  <1>3. c \in Seq(Digit) /\ Worth(c) = w
    <2>1. p \in Seq(Digit) /\ Worth(p) = Worth(a2) + Worth(a1) BY <1>2, Sums
    <2>2. q \in Seq(Digit) /\ Worth(q) = Worth(b1) + Worth(z0) BY <1>2, Sums
    <2> HIDE DEF p, q
    <2>3. c \in Seq(Digit) /\ Worth(c) = Worth(p) + Worth(q) BY <2>1, <2>2, Sums
    <2> HIDE DEF c, u
    <2> QED BY <1>2, <2>1, <2>2, <2>3
  <1>4. j = IF m1.neg # m2.neg THEN SubArrays(c, t) ELSE AddArrays(c, t)
    BY DEF Joined, Third, j, c, p, q, a2, a1, b1, t
  <1> HIDE DEF c, j, u
  <1>5. w + u * e = total BY <1>1, Crossed
  <1>20. \A x, y \in Nat : (-x) * y = -(x * y) /\ x * (-y) = -(x * y) /\ (-x) * (-y) = x * y OBVIOUS
  <1>6. e = IF m1.neg # m2.neg THEN -(d1 * d2) ELSE d1 * d2
    <2>2. CASE m1.neg /\ m2.neg
      <3>1. e = (-d1) * (-d2) BY <2>2
      <3> HIDE DEF e
      <3>2. e = d1 * d2 BY <3>1, <1>20
      <3> QED BY <2>2, <3>2
    <2>3. CASE m1.neg /\ ~m2.neg
      <3>1. e = (-d1) * d2 BY <2>3
      <3> HIDE DEF e
      <3>2. e = -(d1 * d2) BY <3>1, <1>20
      <3> QED BY <2>3, <3>2
    <2>4. CASE ~m1.neg /\ m2.neg
      <3>1. e = d1 * (-d2) BY <2>4
      <3> HIDE DEF e
      <3>2. e = -(d1 * d2) BY <3>1, <1>20
      <3> QED BY <2>4, <3>2
    <2>5. CASE ~m1.neg /\ ~m2.neg
      <3>1. e = d1 * d2 BY <2>5
      <3> QED BY <2>5, <3>1
    <2> HIDE DEF e
    <2> QED BY <2>2, <2>3, <2>4, <2>5
  <1>7. total \in Nat
    <2>1. \A x, y \in Nat : x * y \in Nat /\ x + y \in Nat OBVIOUS
    <2>2. u * h \in Nat /\ u * g \in Nat BY <1>1, <2>1
    <2>3. l + u * h \in Nat /\ k + u * g \in Nat BY <2>1, <2>2
    <2> QED BY <2>1, <2>3
  <1>8. w \in Nat
    <2>1. \A x, y \in Nat : x * y \in Nat /\ x + y \in Nat OBVIOUS
    <2>2. h * g \in Nat /\ l * k \in Nat /\ u * u \in Nat BY <1>1, <2>1
    <2>3. (u * u) * (h * g) \in Nat /\ u * (h * g) \in Nat /\ u * (l * k) \in Nat BY <1>1, <2>1, <2>2
    <2> QED BY <2>1, <2>2, <2>3
  <1> DEFINE d == d1 * d2
  <1>9. d \in Nat /\ u * d \in Nat
    <2>1. \A x, y \in Nat : x * y \in Nat OBVIOUS
    <2>2. d \in Nat BY <2>1
    <2> HIDE DEF d
    <2> QED BY <1>1, <2>1, <2>2
  <1>10. CASE m1.neg # m2.neg
    <2>1. u * e = -(u * d)
      <3>1. \A x, y \in Int : x * (-y) = -(x * y) OBVIOUS
      <3>2. e = -d BY <1>6, <1>10
      <3> HIDE DEF e, d
      <3> QED BY <1>1, <1>9, <3>1, <3>2
    <2> HIDE DEF w, e, total
    <2>2. w - u * d = total BY <1>5, <1>8, <1>9, <2>1
    <2>3. Worth(t) = u * d BY <1>2
    <2> HIDE DEF d
    <2> DEFINE f == u * d
    <2>6. f \in Nat /\ w - f = total BY <1>9, <2>2 DEF d
    <2> HIDE DEF f
    <2>7. w >= f BY <1>7, <1>8, <2>6
    <2>4. w >= u * d BY <2>7 DEF f
    <2>5. Worth(SubArrays(c, t)) = w - u * d /\ SubArrays(c, t) \in Seq(Digit)
      <3>1. Worth(c) >= Worth(t) BY <1>3, <2>3, <2>4
      <3>2. Worth(SubArrays(c, t)) = Worth(c) - Worth(t) /\ SubArrays(c, t) \in Seq(Digit)
        BY <1>2, <1>3, <3>1, Differences
      <3> QED BY <1>3, <2>3, <3>2
    <2> QED BY <1>4, <1>10, <2>2, <2>5 DEF j, total, u
  <1>11. CASE m1.neg = m2.neg
    <2>1. e = d BY <1>6, <1>11
    <2>2. Worth(t) = u * d BY <1>2
    <2> HIDE DEF w, e, total, d
    <2>3. Worth(AddArrays(c, t)) = Worth(c) + Worth(t) /\ AddArrays(c, t) \in Seq(Digit)
      BY <1>2, <1>3, Sums
    <2>4. Worth(AddArrays(c, t)) = total BY <1>3, <1>5, <2>1, <2>2, <2>3
    <2> QED BY <1>4, <1>11, <2>3, <2>4 DEF j, total, u
  <1> QED BY <1>10, <1>11

\* The least of some numbers.
LEMMA MinIs ==
    ASSUME NEW n \in Nat, NEW S \in SUBSET (0..n), S # {}
    PROVE  Min(S) \in S /\ \A x \in S : Min(S) <= x
  <1> DEFINE R == {n - x : x \in S}
  <1>1. R \in SUBSET (0..n) /\ R # {}
    <2>1. \A x \in 0..n : n - x \in 0..n OBVIOUS
    <2>2. \A x \in S : n - x \in 0..n BY <2>1
    <2>3. R \subseteq 0..n BY <2>2
    <2>4. R # {}
      <3>1. PICK x \in S : TRUE OBVIOUS
      <3>2. n - x \in R BY <3>1
      <3> QED BY <3>2
    <2> QED BY <2>3, <2>4
  <1>2. Max(R) \in R /\ \A y \in R : y <= Max(R) BY <1>1, MaxIs
  <1>3. PICK x \in S : Max(R) = n - x BY <1>2
  <1>4. \A y \in S : x <= y
    <2> TAKE y \in S
    <2>1. n - y \in R /\ y \in 0..n /\ x \in 0..n OBVIOUS
    <2>2. n - y <= n - x BY <1>2, <1>3, <2>1
    <2> QED BY <2>1, <2>2
  <1>5. \E z \in S : \A y \in S : z <= y BY <1>4
  <1> HIDE DEF R
  <1> QED BY <1>5 DEF Min

\* bc_num_shiftZero(): the zeros below an array.
LEMMA ShiftZeroIs ==
    ASSUME Based, NEW a \in Seq(Digit)
    PROVE  LET z == ShiftZero(a)
           IN  /\ z \in Nat /\ z <= Len(a)
               /\ Proper(Strip(Drop(a, z))) /\ Len(Strip(Drop(a, z))) <= Len(a)
               /\ Worth(a) = Worth(Unit(z)) * Worth(Strip(Drop(a, z)))
  <1> DEFINE n == Len(a)  S == {n} \cup {i - 1 : i \in {k \in DOMAIN a : a[k] # 0}}  z == Min(S)
             d == Drop(a, z)
  <1>1. a \in Seq(Digit) /\ n \in Nat /\ DOMAIN a = 1..n BY DomainIs
  <1>2. S \in SUBSET (0..n) /\ S # {} BY <1>1
  <1>3. z \in S /\ \A x \in S : z <= x BY <1>1, <1>2, MinIs
  <1>4. z \in Nat /\ z <= n BY <1>1, <1>2, <1>3
  <1>5. \A i \in 1..n : i <= z => a[i] = 0
    <2> TAKE i \in 1..n
    <2> SUFFICES ASSUME a[i] # 0 PROVE i > z BY <1>4
    <2>1. i - 1 \in S BY <1>1
    <2> HIDE DEF S, z
    <2>2. z <= i - 1 BY <1>3, <2>1
    <2> QED BY <1>4, <2>2
  <1>6. ShiftZero(a) = z BY DEF ShiftZero
  <1> HIDE DEF S, z
  <1>7. /\ d \in Seq(Digit) /\ Len(d) = n - z
        /\ \A i \in Nat \ {0} : Limb(d, i) = Limb(a, z + i)
    <2>1. /\ Drop(a, z) \in Seq(Digit) /\ Len(Drop(a, z)) = Len(a) - z
          /\ \A i \in Nat \ {0} : Limb(Drop(a, z), i) = Limb(a, z + i)
      <3>1. a \in Seq(Digit) /\ z \in Nat /\ z <= Len(a) BY <1>1, <1>4
      <3> HIDE DEF d
      <3> QED BY <3>1, DropIs
    <2> QED BY <2>1
  <1> HIDE DEF d
  <1>8. Proper(Strip(d)) /\ Len(Strip(d)) <= Len(d) /\ Worth(Strip(d)) = Worth(d) BY <1>7, StripIs
  <1>9. Len(Strip(d)) <= n
    <2>1. Len(Strip(d)) \in Nat BY <1>8, DomainIs DEF Proper
    <2> QED BY <1>1, <1>4, <1>7, <1>8, <2>1
  <1> DEFINE x == Zeros(z) \o d
  <1>10. x \in Seq(Digit) /\ \A i \in Nat \ {0} : Limb(x, i) = IF i <= z THEN 0 ELSE Limb(d, i - z)
    BY <1>4, <1>7, ZerosBelow
  <1>11. Worth(x) = Worth(Unit(z)) * Worth(d) BY <1>4, <1>7, ZerosWorth
  <1> HIDE DEF x
  <1>12. \A i \in Nat \ {0} : Limb(x, i) = Limb(a, i)
    <2> TAKE i \in Nat \ {0}
    <2>1. CASE i <= z
      <3>1. i \in 1..n BY <1>1, <1>4, <2>1
      <3>2. Limb(a, i) = 0 BY <1>1, <1>5, <2>1, <3>1 DEF Limb
      <3> QED BY <1>10, <2>1, <3>2
    <2>2. CASE i > z
      <3>1. PICK j \in Nat \ {0} : j = i - z /\ z + j = i BY <1>4, <2>2
      <3>2. Limb(x, i) = Limb(d, j) BY <1>4, <1>10, <2>2, <3>1
      <3> QED BY <1>7, <3>1, <3>2
    <2> QED BY <1>4, <2>1, <2>2
  <1>13. Worth(x) = Worth(a) BY <1>1, <1>10, <1>12, SameLimbs
  <1> QED BY <1>4, <1>6, <1>8, <1>9, <1>11, <1>13 DEF d

\* One limb stands for itself.
LEMMA OneLimbWorth ==
    ASSUME Based, NEW a \in Seq(Digit), Len(a) = 1
    PROVE  a[1] \in Digit /\ Worth(a) = a[1]
  <1>1. a \in Seq(Int) /\ DOMAIN a = 1..1 /\ 1 \in DOMAIN a BY DigitIsInt, DomainIs
  <1>2. a[1] \in Digit /\ Limb(a, 1) = a[1]
    <2>1. \A i \in 1..Len(a) : a[i] \in Digit OBVIOUS
    <2>2. 1 \in 1..Len(a) BY <2>1
    <2>3. Limb(a, 1) = a[1] BY <2>2, DomainIs
    <2> QED BY <2>1, <2>2, <2>3
  <1> DEFINE l == [i \in 1..0 |-> Limb(a, i)]
  <1>3. Worth(l) \in Nat /\ Worth(l) < Worth(Unit(0)) /\ Worth(a) = Limb(a, 0 + 1) * Worth(Unit(0)) + Worth(l)
    <2>1. 0 \in Nat /\ Len(a) <= 0 + 1 /\ \A i \in 1..0 : Limb(a, i) \in Digit OBVIOUS
    <2> QED BY <1>1, <2>1, TopWorth
  <1> HIDE DEF l
  <1>4. Worth(Unit(0)) = 1 BY UnitZero
  <1>5. Worth(l) = 0 /\ 0 + 1 = 1 BY <1>3, <1>4
  <1>6. a[1] \in Nat BY <1>1, DomainIs
  <1> QED BY <1>2, <1>3, <1>4, <1>5, <1>6

\* bc_num_m() where one of them is one limb.
LEMMA ByLimbIs ==
    ASSUME Based, NEW a, NEW b, Proper(a), Proper(b), Len(a) = 1 \/ Len(b) = 1
    PROVE  Proper(ByLimb(a, b)) /\ Worth(ByLimb(a, b)) = Worth(a) * Worth(b)
  <1>1. a \in Seq(Digit) /\ b \in Seq(Digit) /\ Worth(a) \in Nat /\ Worth(b) \in Nat BY WorthIsNat DEF Proper
  <1>2. \A x, y \in Nat : x * y = y * x OBVIOUS
  <1>3. CASE Len(a) = 1
    <2>1. a[1] \in Digit /\ Worth(a) = a[1] BY <1>1, <1>3, OneLimbWorth
    <2> DEFINE m == MulArray(b, a[1])
    <2>2. m \in Seq(Digit) /\ Worth(m) = Worth(b) * a[1] BY <1>1, <2>1, Multiples
    <2>3. ByLimb(a, b) = Strip(m) BY <1>3 DEF ByLimb
    <2> HIDE DEF m
    <2>4. Proper(Strip(m)) /\ Worth(Strip(m)) = Worth(m) BY <2>2, StripIs
    <2> QED BY <1>1, <1>2, <2>1, <2>2, <2>3, <2>4
  <1>4. CASE Len(a) # 1
    <2>1. b[1] \in Digit /\ Worth(b) = b[1] BY <1>1, <1>4, OneLimbWorth
    <2> DEFINE m == MulArray(a, b[1])
    <2>2. m \in Seq(Digit) /\ Worth(m) = Worth(a) * b[1] BY <1>1, <2>1, Multiples
    <2>3. ByLimb(a, b) = Strip(m) BY <1>4 DEF ByLimb
    <2> HIDE DEF m
    <2>4. Proper(Strip(m)) /\ Worth(Strip(m)) = Worth(m) BY <2>2, StripIs
    <2> QED BY <2>1, <2>2, <2>3, <2>4
  <1> QED BY <1>3, <1>4

\* kara has the products of the arrays of up to d limbs.
Right(kara, d) ==
    \A a, b \in Seq(Digit) :
        Proper(a) /\ Proper(b) /\ Len(a) <= d /\ Len(b) <= d =>
            kara[<<a, b>>] \in Seq(Digit) /\ Worth(kara[<<a, b>>]) = Worth(a) * Worth(b)

\* bc_num_m() without the zeros below, which are put back.
LEMMA UnshiftedIs ==
    ASSUME Based, NEW d \in Nat, NEW kara, Right(kara, d),
           NEW a \in Seq(Digit), NEW b \in Seq(Digit), Len(a) <= d, Len(b) <= d
    PROVE  Proper(Unshifted(a, b, kara)) /\ Worth(Unshifted(a, b, kara)) = Worth(a) * Worth(b)
  <1> DEFINE y == ShiftZero(a)  z == ShiftZero(b)
             s == Strip(Drop(a, y))  t == Strip(Drop(b, z))
             k == kara[<<s, t>>]  m == Zeros(y + z) \o k
             u == Worth(Unit(y))  v == Worth(Unit(z))
  <1>1. Len(a) \in Nat /\ Len(b) \in Nat BY DomainIs
  <1>2. /\ y \in Nat /\ Proper(s) /\ Len(s) <= Len(a) /\ Worth(a) = u * Worth(s)
        /\ z \in Nat /\ Proper(t) /\ Len(t) <= Len(b) /\ Worth(b) = v * Worth(t)
    BY ShiftZeroIs
  <1>3. Unshifted(a, b, kara) = Strip(m) BY DEF Unshifted
  <1> HIDE DEF y, z, s, t
  <1>4. s \in Seq(Digit) /\ t \in Seq(Digit) /\ Len(s) \in Nat /\ Len(t) \in Nat BY <1>2, DomainIs DEF Proper
  <1>5. k \in Seq(Digit) /\ Worth(k) = Worth(s) * Worth(t)
    <2>1. Len(s) <= d /\ Len(t) <= d BY <1>1, <1>2, <1>4
    <2> QED BY <1>2, <1>4, <2>1 DEF Right
  <1> HIDE DEF k
  <1>6. y + z \in Nat /\ u * v = Worth(Unit(y + z)) /\ u \in Nat /\ v \in Nat BY <1>2, UnitTimes, UnitIs
  <1>7. m \in Seq(Digit) /\ Worth(m) = Worth(Unit(y + z)) * Worth(k)
    <2>1. m \in Seq(Digit) BY <1>5, <1>6, ZerosBelow
    <2>2. Worth(m) = Worth(Unit(y + z)) * Worth(k) BY <1>5, <1>6, ZerosWorth
    <2> QED BY <2>1, <2>2
  <1> HIDE DEF m
  <1>8. Proper(Strip(m)) /\ Worth(Strip(m)) = Worth(m) BY <1>7, StripIs
  <1>9. (u * v) * (Worth(s) * Worth(t)) = (u * Worth(s)) * (v * Worth(t))
    <2>1. \A e, f, g, h \in Nat : (e * f) * (g * h) = (e * g) * (f * h)
      <3> TAKE e, f, g, h \in Nat
      <3>1. (e * f) * (g * h) = e * (f * (g * h)) OBVIOUS
      <3>2. f * (g * h) = g * (f * h) OBVIOUS
      <3>3. \A i \in Nat : e * (g * i) = (e * g) * i OBVIOUS
      <3>4. f * h \in Nat OBVIOUS
      <3> QED BY <3>1, <3>2, <3>3, <3>4
    <2>2. Worth(s) \in Nat /\ Worth(t) \in Nat BY <1>4, WorthIsNat
    <2> QED BY <1>6, <2>1, <2>2
  <1> QED BY <1>2, <1>3, <1>5, <1>6, <1>7, <1>8, <1>9

\* bc_num_m() of two integers, from the products of arrays.
LEMMA WholeIs ==
    ASSUME Based, NEW d \in Nat, NEW kara, Right(kara, d),
           NEW a, NEW b, Proper(a.num), Proper(b.num), Len(a.num) <= d, Len(b.num) <= d
    PROVE  Proper(Whole(a, b, kara)) /\ Worth(Whole(a, b, kara)) = Worth(a.num) * Worth(b.num)
  <1>1. CASE OneLimb(a, b)
    <2>1. Len(a.num) = 1 \/ Len(b.num) = 1 BY <1>1 DEF OneLimb
    <2> QED BY <1>1, <2>1, ByLimbIs DEF Whole
  <1>2. CASE ~OneLimb(a, b)
    <2>1. a.num \in Seq(Digit) /\ b.num \in Seq(Digit) BY DEF Proper
    <2>2. Whole(a, b, kara) = Unshifted(a.num, b.num, kara) BY <1>2 DEF Whole
    <2> QED BY <2>1, <2>2, UnshiftedIs
  <1> QED BY <1>1, <1>2

\* Halves are shorter than what is halved, when that is as long as the code asks.
Halving == KaratsubaLen \in Nat /\ KaratsubaLen >= 2 /\ DefSize \in Nat /\ DefSize <= KaratsubaLen

\* Both halves of arrays that are cut are shorter than they.
LEMMA HalfIs ==
    ASSUME Halving, NEW m \in Nat, NEW n \in Nat, m >= KaratsubaLen, n >= KaratsubaLen,
           NEW d \in Nat, m <= d, n <= d
    PROVE  LET half == (Bigger(Bigger(m, n), DefSize) + 1) \div 2
           IN  /\ half \in Nat /\ half <= d - 1
               /\ m - Smaller(half, m) <= d - 1 /\ n - Smaller(half, n) <= d - 1
  <1> DEFINE l == Bigger(m, n)  half == (l + 1) \div 2
  <1>1. l \in Nat /\ l >= m /\ l >= n /\ l <= d /\ l >= 2 /\ l >= DefSize
    <2>1. l \in Nat /\ l >= m /\ l >= n /\ (l = m \/ l = n) BY DEF Bigger
    <2> HIDE DEF l
    <2> QED BY <2>1 DEF Halving
  <1>2. Bigger(l, DefSize) = l BY <1>1 DEF Bigger, Halving
  <1> HIDE DEF l
  <1>3. half \in Nat /\ 2 * half <= l + 1 /\ 2 * half >= l BY <1>1
  <1> HIDE DEF half
  <1>4. half <= l - 1 /\ half >= 1 BY <1>1, <1>3
  <1>5. m - Smaller(half, m) <= d - 1 BY <1>1, <1>3, <1>4 DEF Smaller, Halving
  <1>6. n - Smaller(half, n) <= d - 1 BY <1>1, <1>3, <1>4 DEF Smaller, Halving
  <1> QED BY <1>1, <1>2, <1>3, <1>4, <1>5, <1>6 DEF l, half

\* No limb stands for zero.
LEMMA EmptyWorth ==
    ASSUME Based
    PROVE  <<>> \in Seq(Digit) /\ Worth(<<>>) = 0
  <1>1. <<>> \in Seq(Digit) /\ \A i \in 1..Len(<<>>) : <<>>[i] = 0 OBVIOUS
  <1> QED BY <1>1, WorthIsNat

\* bc_num_k(): when it has the products of shorter arrays.
LEMMA ByHalvesIs ==
    ASSUME Based, Digits, Halving, NEW d \in Nat, NEW kara, Right(kara, d - 1), d >= 1,
           NEW a, NEW b, Proper(a), Proper(b), Len(a) <= d, Len(b) <= d
    PROVE  /\ ByHalves(a, b, kara) \in Seq(Digit)
           /\ Worth(ByHalves(a, b, kara)) = Worth(a) * Worth(b)
  <1> DEFINE half == (Bigger(Bigger(Len(a), Len(b)), DefSize) + 1) \div 2
             l1 == Low(a, half)  h1 == High(a, half)  l2 == Low(b, half)  h2 == High(b, half)
             r == ByHalves(a, b, kara)
  <1>1. /\ a \in Seq(Digit) /\ b \in Seq(Digit) /\ Len(a) \in Nat /\ Len(b) \in Nat
        /\ Worth(a) \in Nat /\ Worth(b) \in Nat
    BY DomainIs, WorthIsNat DEF Proper
  <1>2. CASE a = <<>> \/ b = <<>>
    <2>1. r = <<>> BY <1>2 DEF ByHalves
    <2>2. Worth(a) = 0 \/ Worth(b) = 0 BY <1>2, EmptyWorth
    <2>3. Worth(a) * Worth(b) = 0 BY <1>1, <2>2
    <2> QED BY <2>1, <2>3, EmptyWorth
  <1>3. CASE ~(a = <<>> \/ b = <<>>) /\ a = <<1>>
    <2>1. r = b BY <1>3 DEF ByHalves
    <2>2. Worth(a) = 1
      <3>1. Len(a) = 1 /\ a[1] = 1 BY <1>3
      <3> QED BY <1>1, <3>1, OneLimbWorth
    <2> QED BY <1>1, <2>1, <2>2
  <1>4. CASE ~(a = <<>> \/ b = <<>>) /\ a # <<1>> /\ b = <<1>>
    <2>1. r = a BY <1>4 DEF ByHalves
    <2>2. Worth(b) = 1
      <3>1. Len(b) = 1 /\ b[1] = 1 BY <1>4
      <3> QED BY <1>1, <3>1, OneLimbWorth
    <2> QED BY <1>1, <2>1, <2>2
  <1>5. CASE /\ ~(a = <<>> \/ b = <<>>) /\ a # <<1>> /\ b # <<1>>
             /\ (Len(a) < KaratsubaLen \/ Len(b) < KaratsubaLen)
    <2>1. r = Simple(a, b) BY <1>5 DEF ByHalves
    <2>2. Len(a) > 0 /\ Len(b) > 0 BY <1>1, <1>5
    <2> QED BY <1>1, <2>1, <2>2, Products
  <1>6. CASE /\ ~(a = <<>> \/ b = <<>>) /\ a # <<1>> /\ b # <<1>>
             /\ ~(Len(a) < KaratsubaLen \/ Len(b) < KaratsubaLen)
    <2>0. PICK e \in Nat : e = d - 1 OBVIOUS
    <2> DEFINE m1 == Sub(Integer(h1), Integer(l1))  m2 == Sub(Integer(l2), Integer(h2))
               z2 == Whole(Integer(h1), Integer(h2), kara)
               z0 == Whole(Integer(l1), Integer(l2), kara)
               z1 == Whole(m1, m2, kara)
    <2>1. r = Joined(m1, m2, z2, z0, z1, half) BY <1>6 DEF ByHalves, Halves
    <2>2. /\ half \in Nat /\ half <= e /\ Right(kara, e)
          /\ Len(a) - Smaller(half, Len(a)) <= e /\ Len(b) - Smaller(half, Len(b)) <= e
      <3>1. Len(a) >= KaratsubaLen /\ Len(b) >= KaratsubaLen BY <1>1, <1>6 DEF Halving
      <3>2. /\ half \in Nat /\ half <= d - 1
            /\ Len(a) - Smaller(half, Len(a)) <= d - 1 /\ Len(b) - Smaller(half, Len(b)) <= d - 1
        BY <1>1, <3>1, HalfIs
      <3> HIDE DEF half
      <3>3. Right(kara, e) BY <2>0
      <3> QED BY <2>0, <3>2, <3>3
    <2> HIDE DEF half, r
    <2>3. /\ Proper(l1) /\ Len(l1) <= half /\ Proper(h1) /\ Len(h1) = Len(a) - Smaller(half, Len(a))
          /\ Worth(a) = Worth(l1) + Worth(Unit(half)) * Worth(h1)
      BY <1>1, <2>2, SplitIs
    <2>4. /\ Proper(l2) /\ Len(l2) <= half /\ Proper(h2) /\ Len(h2) = Len(b) - Smaller(half, Len(b))
          /\ Worth(b) = Worth(l2) + Worth(Unit(half)) * Worth(h2)
      BY <1>1, <2>2, SplitIs
    <2> HIDE DEF l1, h1, l2, h2
    <2>5. /\ Len(l1) \in Nat /\ Len(h1) \in Nat /\ Len(l2) \in Nat /\ Len(h2) \in Nat
          /\ Worth(l1) \in Nat /\ Worth(h1) \in Nat /\ Worth(l2) \in Nat /\ Worth(h2) \in Nat
      BY <2>3, <2>4, DomainIs, WorthIsNat DEF Proper
    <2>6. Len(l1) <= e /\ Len(h1) <= e /\ Len(l2) <= e /\ Len(h2) <= e
      <3>1. \A x, y, z \in Nat : x <= y /\ y <= z => x <= z OBVIOUS
      <3>2. Len(l1) <= e /\ Len(l2) <= e BY <2>2, <2>3, <2>4, <2>5, <3>1
      <3>3. Len(h1) <= e BY <2>2, <2>3
      <3>4. Len(h2) <= e BY <2>2, <2>4
      <3> QED BY <3>2, <3>3, <3>4
    <2>7. Integer(l1).num = l1 /\ Integer(h1).num = h1 /\ Integer(l2).num = l2 /\ Integer(h2).num = h2
      BY DEF Integer, Num
    <2>8. Proper(z2) /\ Worth(z2) = Worth(h1) * Worth(h2) BY <2>2, <2>3, <2>4, <2>6, <2>7, WholeIs
    <2>9. Proper(z0) /\ Worth(z0) = Worth(l1) * Worth(l2) BY <2>2, <2>3, <2>4, <2>6, <2>7, WholeIs
    <2>10. /\ Proper(m1.num) /\ Len(m1.num) <= Bigger(Len(h1), Len(l1)) /\ m1.neg \in BOOLEAN
           /\ Worth(h1) - Worth(l1) = IF m1.neg THEN -Worth(m1.num) ELSE Worth(m1.num)
      BY <2>3, DifferenceIs
    <2>11. /\ Proper(m2.num) /\ Len(m2.num) <= Bigger(Len(l2), Len(h2)) /\ m2.neg \in BOOLEAN
           /\ Worth(l2) - Worth(h2) = IF m2.neg THEN -Worth(m2.num) ELSE Worth(m2.num)
      BY <2>4, DifferenceIs
    <2> HIDE DEF m1, m2
    <2>12. /\ Len(m1.num) \in Nat /\ Len(m2.num) \in Nat /\ Worth(m1.num) \in Nat /\ Worth(m2.num) \in Nat
      BY <2>10, <2>11, DomainIs, WorthIsNat DEF Proper
    <2>13. Len(m1.num) <= e /\ Len(m2.num) <= e
      <3>1. \A x, y, z, w \in Nat : x <= Bigger(y, z) /\ y <= w /\ z <= w => x <= w BY DEF Bigger
      <3>2. Len(m1.num) <= e BY <2>5, <2>6, <2>10, <2>12, <3>1
      <3>3. Len(m2.num) <= e BY <2>5, <2>6, <2>11, <2>12, <3>1
      <3> QED BY <3>2, <3>3
    <2>14. Proper(z1) /\ Worth(z1) = Worth(m1.num) * Worth(m2.num)
      BY <2>2, <2>10, <2>11, <2>13, WholeIs
    <2> HIDE DEF z2, z0, z1
    <2>15. z2 \in Seq(Digit) /\ z0 \in Seq(Digit) /\ z1 \in Seq(Digit) BY <2>8, <2>9, <2>14 DEF Proper
    <2> DEFINE j == Joined(m1, m2, z2, z0, z1, half)
    <2>16. /\ j \in Seq(Digit)
           /\ Worth(j) = (Worth(l1) + Worth(Unit(half)) * Worth(h1)) * (Worth(l2) + Worth(Unit(half)) * Worth(h2))
      <3> DEFINE h == Worth(h1)  l == Worth(l1)  g == Worth(h2)  k == Worth(l2)  d1 == Worth(m1.num)  d2 == Worth(m2.num)
      <3>1. h \in Nat /\ l \in Nat /\ g \in Nat /\ k \in Nat /\ d1 \in Nat /\ d2 \in Nat BY <2>5, <2>12
      <3>2. /\ m1.neg \in BOOLEAN /\ m2.neg \in BOOLEAN
            /\ h - l = IF m1.neg THEN -d1 ELSE d1
            /\ k - g = IF m2.neg THEN -d2 ELSE d2
        BY <2>10, <2>11
      <3>3. Worth(z2) = h * g /\ Worth(z0) = l * k /\ Worth(z1) = d1 * d2 BY <2>8, <2>9, <2>14
      <3> HIDE DEF h, l, g, k, d1, d2, j
      <3>4. j \in Seq(Digit) /\ Worth(j) = (l + Worth(Unit(half)) * h) * (k + Worth(Unit(half)) * g)
        <4>1. Parts(h, l, g, k, half, z2, z0, z1, m1, m2, d1, d2) BY <2>2, <2>15, <3>1, <3>2, <3>3 DEF Parts
        <4> QED BY <4>1, JoinedIs DEF j
      <3> QED BY <3>4 DEF h, l, g, k
    <2> QED BY <2>1, <2>3, <2>4, <2>16 DEF r
  <1> QED BY <1>2, <1>3, <1>4, <1>5, <1>6

\* What Karatsuba() defines up to the depth m.
Kara(f, m) ==
    f = [d \in 0..m |->
            [p \in Seq(0..(BasePow - 1)) \X Seq(0..(BasePow - 1)) |->
                IF d = 0 THEN <<>> ELSE ByHalves(p[1], p[2], f[d - 1])]]

\* The products by halves exist at each depth.
LEMMA KaraExists ==
    ASSUME NEW depth \in Nat
    PROVE  \E f : Kara(f, depth)
  <1> DEFINE P == Seq(0..(BasePow - 1)) \X Seq(0..(BasePow - 1))
             T == {m \in 0..depth : \E f : Kara(f, m)}
  <1>1. 0 \in T
    <2> DEFINE f == [d \in 0..0 |-> [p \in P |-> <<>>]]
    <2>1. f = [d \in 0..0 |-> [p \in P |-> IF d = 0 THEN <<>> ELSE ByHalves(p[1], p[2], f[d - 1])]]
      <3> HIDE DEF P
      <3>1. \A d \in 0..0 : d = 0 OBVIOUS
      <3>2. \A d \in 0..0 : [p \in P |-> <<>>] = [p \in P |-> IF d = 0 THEN <<>> ELSE ByHalves(p[1], p[2], f[d - 1])]
        BY <3>1
      <3> QED BY <3>2
    <2> HIDE DEF f
    <2>2. Kara(f, 0) BY <2>1 DEF Kara
    <2>3. 0 \in 0..depth OBVIOUS
    <2> QED BY <2>2, <2>3
  <1>2. ASSUME NEW m \in 0..(depth - 1), m \in T PROVE m + 1 \in T
    <2>1. PICK f : Kara(f, m) BY <1>2
    <2> DEFINE last == [p \in P |-> ByHalves(p[1], p[2], f[m])]
               g == [d \in 0..(m + 1) |-> IF d <= m THEN f[d] ELSE last]
    <2>2. \A d \in 0..m : f[d] = [p \in P |-> IF d = 0 THEN <<>> ELSE ByHalves(p[1], p[2], f[d - 1])]
      BY <2>1 DEF Kara
    <2> HIDE DEF P
    <2>3. \A d \in 0..(m + 1) : g[d] = [p \in P |-> IF d = 0 THEN <<>> ELSE ByHalves(p[1], p[2], g[d - 1])]
      <3> TAKE d \in 0..(m + 1)
      <3>1. CASE d <= m
        <4>1. d \in 0..m /\ g[d] = f[d] BY <3>1
        <4>2. d # 0 => g[d - 1] = f[d - 1]
          <5>1. d # 0 => d - 1 \in 0..(m + 1) /\ d - 1 <= m BY <3>1
          <5> QED BY <5>1
        <4> HIDE DEF g
        <4>3. CASE d = 0 BY <2>2, <4>1, <4>3
        <4>4. CASE d # 0 BY <2>2, <4>1, <4>2, <4>4
        <4> QED BY <4>3, <4>4
      <3>2. CASE ~(d <= m)
        <4>1. d = m + 1 /\ m \in 0..(m + 1) /\ m <= m /\ m + 1 - 1 = m /\ d # 0 BY <3>2
        <4>2. g[d] = last BY <3>2
        <4>3. g[d - 1] = f[m] BY <4>1
        <4> HIDE DEF g
        <4> QED BY <4>1, <4>2, <4>3
      <3> QED BY <3>1, <3>2
    <2>4. g = [d \in 0..(m + 1) |-> g[d]] OBVIOUS
    <2> HIDE DEF g
    <2>5. g = [d \in 0..(m + 1) |-> [p \in P |-> IF d = 0 THEN <<>> ELSE ByHalves(p[1], p[2], g[d - 1])]]
      BY <2>3, <2>4
    <2>6. Kara(g, m + 1) BY <2>5 DEF Kara, P
    <2>7. m + 1 \in 0..depth OBVIOUS
    <2> QED BY <2>6, <2>7
  <1> HIDE DEF T
  <1>3. \A m \in 0..depth : m \in T BY <1>1, <1>2, Induction
  <1>4. depth \in T BY <1>3
  <1> QED BY <1>4 DEF T

\* bc_num_k(): called in itself as deep as the longer of two arrays is long, it gives
\* their product, whether it multiplies limb by limb or by halves.
THEOREM ProductsByHalves ==
    ASSUME Based, Digits, Halving, NEW depth \in Nat, NEW a, NEW b,
           Proper(a), Proper(b), Len(a) <= depth, Len(b) <= depth
    PROVE  /\ Karatsuba(depth)[<<a, b>>] \in Seq(Digit)
           /\ Worth(Karatsuba(depth)[<<a, b>>]) = Worth(a) * Worth(b)
  <1> DEFINE P == Seq(0..(BasePow - 1)) \X Seq(0..(BasePow - 1))
  <1>1. PICK f : Kara(f, depth) /\ Karatsuba(depth) = f[depth]
    <2> DEFINE k == CHOOSE kara : Kara(kara, depth)
    <2>1. Kara(k, depth) BY KaraExists
    <2>2. Karatsuba(depth) = k[depth] BY DEF Karatsuba, Kara
    <2> QED BY <2>1, <2>2
  <1>2. \A d \in 0..depth : f[d] = [p \in P |-> IF d = 0 THEN <<>> ELSE ByHalves(p[1], p[2], f[d - 1])]
    BY <1>1 DEF Kara
  <1> DEFINE T == {d \in 0..depth : Right(f[d], d)}
  <1>3. \A x, y \in Seq(Digit) : <<x, y>> \in P BY DEF Digit
  <1>4. 0 \in T
    <2>1. 0 \in 0..depth OBVIOUS
    <2>2. Right(f[0], 0)
      <3> SUFFICES ASSUME NEW x \in Seq(Digit), NEW y \in Seq(Digit), Len(x) <= 0
                   PROVE  f[0][<<x, y>>] \in Seq(Digit) /\ Worth(f[0][<<x, y>>]) = Worth(x) * Worth(y)
        BY DEF Right
      <3>1. <<x, y>> \in P BY <1>3
      <3> HIDE DEF P
      <3>2. f[0][<<x, y>>] = <<>> BY <1>2, <2>1, <3>1
      <3>3. x = <<>> OBVIOUS
      <3>4. Worth(x) = 0 /\ Worth(y) \in Nat BY <3>3, EmptyWorth, WorthIsNat
      <3>5. Worth(x) * Worth(y) = 0 BY <3>4
      <3> QED BY <3>2, <3>5, EmptyWorth
    <2> QED BY <2>1, <2>2
  <1>5. ASSUME NEW m \in 0..(depth - 1), m \in T PROVE m + 1 \in T
    <2>1. PICK n \in Nat : n = m + 1 /\ n - 1 = m /\ n >= 1 /\ n \in 0..depth OBVIOUS
    <2>2. Right(f[n - 1], n - 1) BY <1>5, <2>1
    <2>3. Right(f[n], n)
      <3> SUFFICES ASSUME NEW x \in Seq(Digit), NEW y \in Seq(Digit), Proper(x), Proper(y), Len(x) <= n, Len(y) <= n
                   PROVE  f[n][<<x, y>>] \in Seq(Digit) /\ Worth(f[n][<<x, y>>]) = Worth(x) * Worth(y)
        BY DEF Right
      <3>1. <<x, y>> \in P BY <1>3
      <3> HIDE DEF P
      <3>2. f[n][<<x, y>>] = ByHalves(x, y, f[n - 1])
        <4>1. n # 0 /\ n \in 0..depth BY <2>1
        <4> QED BY <1>2, <3>1, <4>1
      <3> DEFINE k == f[n - 1]
      <3>3. Right(k, n - 1) BY <2>2
      <3> HIDE DEF k
      <3>4. ByHalves(x, y, k) \in Seq(Digit) /\ Worth(ByHalves(x, y, k)) = Worth(x) * Worth(y)
        BY <2>1, <3>3, ByHalvesIs
      <3> QED BY <3>2, <3>4 DEF k
    <2> QED BY <2>1, <2>3
  <1> HIDE DEF T
  <1>6. \A d \in 0..depth : d \in T BY <1>4, <1>5, Induction
  <1>7. Right(f[depth], depth)
    <2>1. depth \in T BY <1>6
    <2> QED BY <2>1 DEF T
  <1>8. a \in Seq(Digit) /\ b \in Seq(Digit) BY DEF Proper
  <1> QED BY <1>1, <1>7, <1>8 DEF Right
=============================================================================
