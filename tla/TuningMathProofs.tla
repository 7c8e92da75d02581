-------------------------- MODULE TuningMathProofs --------------------------
(***************************************************************************)
(* What TuningMath's operators return, for every frequency, rate and        *)
(* correction: the quotients and remainders, the ratio and the rate it      *)
(* gives, the filter's corners and IF, the PLL's fraction.                  *)
(*                                                                          *)
(* What a recursive function says is proved from the induction at the head: *)
(* the least number outside a set (SmallestOf).                             *)
(***************************************************************************)
EXTENDS TuningMath, WellFoundedInduction, FiniteSetTheorems, TLAPS

\* A recursive function's equation says what it is: the least of a set, and with
\* it induction, from the library's well-founded orders.
LEMMA SmallestOf ==
  ASSUME NEW T, T \subseteq Nat, T # {}
  PROVE  \E x \in T : \A y \in T : x <= y
<1> DEFINE R == OpToRel(<, Nat)
<1>1. \A x, y \in Nat : <<y, x>> \in R <=> y < x
  BY DEF OpToRel
<1>2. IsWellFoundedOn(R, Nat)
  BY NatLessThanWellFounded DEF OpToRel
<1> HIDE DEF R
<1>3. PICK x \in T : \A y \in T : ~(<<y, x>> \in R)
  BY <1>2, WFMin
<1>4. ASSUME NEW y \in T PROVE x <= y
  <2>1. ~(y < x) /\ x \in Nat /\ y \in Nat
    BY <1>1, <1>3
  <2> QED  BY <2>1
<1> QED
  BY <1>3, <1>4

LEMMA InductionUpTo ==
  ASSUME NEW n \in Nat, NEW S, 0 \in S, \A i \in 0..n : i \in S /\ i # n => i + 1 \in S
  PROVE  0..n \subseteq S
<1> DEFINE T == (0..n) \ S
<1> SUFFICES ASSUME T # {} PROVE FALSE
  OBVIOUS
<1>1. T \subseteq Nat
  OBVIOUS
<1>2. PICK x \in T : \A y \in T : x <= y
  <2> HIDE DEF T
  <2> QED  BY <1>1, SmallestOf
<1>3. x - 1 \in 0..n /\ x - 1 \in S
  BY <1>2
<1> QED
  BY <1>2, <1>3

\* A sum's equation has a solution, so the recursive definitions are what they say.
LEMMA SumExists ==
  ASSUME NEW n \in Nat, NEW step, \A i \in 1..n : step[i] \in Int
  PROVE  \E g \in [0..n -> Int] : g = [i \in 0..n |-> IF i = 0 THEN 0 ELSE g[i - 1] + step[i]]
<1> DEFINE Good(m, g) == /\ g \in [0..m -> Int]
                         /\ g[0] = 0 /\ \A i \in 1..m : g[i] = g[i - 1] + step[i]
           S == {m \in 0..n : \E g : Good(m, g)}
<1>1. 0 \in S
  <2> DEFINE g == [i \in 0..0 |-> 0]
  <2>1. Good(0, g)
    OBVIOUS
  <2> HIDE DEF g, Good
  <2> QED  BY <2>1
<1>2. ASSUME NEW i \in 0..n, i \in S, i # n
      PROVE  i + 1 \in S
  <2>1. PICK g : Good(i, g)
    BY <1>2
  <2> DEFINE h == [j \in 0..(i + 1) |-> IF j = i + 1 THEN g[i] + step[i + 1] ELSE g[j]]
  <2>2. i + 1 \in 0..n /\ i \in 0..i /\ g[i] \in Int /\ step[i + 1] \in Int
    BY <1>2, <2>1
  <2>3. h \in [0..(i + 1) -> Int] /\ h[0] = 0
    BY <2>1, <2>2
  <2>4. \A j \in 1..(i + 1) : h[j] = h[j - 1] + step[j]
    BY <2>1, <2>2
  <2> HIDE DEF h
  <2> QED  BY <2>2, <2>3, <2>4
<1>3. n \in S
  <2> HIDE DEF S
  <2>1. 0..n \subseteq S
    BY <1>1, <1>2, InductionUpTo
  <2> QED  BY <2>1
<1>4. PICK g : Good(n, g)
  BY <1>3
<1>5. g = [i \in 0..n |-> IF i = 0 THEN 0 ELSE g[i - 1] + step[i]]
  BY <1>4
<1> QED
  BY <1>4, <1>5

----------------------------------------------------------------------------
(* Recursive functions.                                                    *)

\* A recursive function's values, from the first by steps; there are such.
Recurs(g, n, V, first, step) ==
  g \in [0..n -> V] /\ g[0] = first /\ \A i \in 1..n : g[i] = step[<<i, g[i - 1]>>]

LEMMA RecursionExists ==
  ASSUME NEW n \in Nat, NEW V, NEW first \in V, NEW step \in [(1..n) \X V -> V]
  PROVE  \E g : Recurs(g, n, V, first, step)
<1> DEFINE Good(m, g) == /\ g \in [0..m -> V]
                         /\ g[0] = first /\ \A i \in 1..m : g[i] = step[<<i, g[i - 1]>>]
           S == {m \in 0..n : \E g : Good(m, g)}
<1>1. 0 \in S
  <2> DEFINE g == [i \in 0..0 |-> first]
  <2>1. Good(0, g)
    OBVIOUS
  <2> HIDE DEF g, Good
  <2> QED  BY <2>1
<1>2. ASSUME NEW i \in 0..n, i \in S, i # n
      PROVE  i + 1 \in S
  <2>1. PICK g : Good(i, g)
    BY <1>2
  <2> DEFINE new == step[<<i + 1, g[i]>>]
             h == [j \in 0..(i + 1) |-> IF j = i + 1 THEN new ELSE g[j]]
  <2>2. i + 1 \in 1..n /\ i \in 0..i /\ g[i] \in V /\ <<i + 1, g[i]>> \in (1..n) \X V
    BY <1>2, <2>1
  <2>3. new \in V
    BY <2>2
  <2>4. h \in [0..(i + 1) -> V] /\ h[0] = first
    <3> HIDE DEF new
    <3> QED  BY <2>1, <2>2, <2>3
  <2>5. \A j \in 1..(i + 1) : h[j] = step[<<j, h[j - 1]>>]
    <3>1. h[i + 1] = new /\ \A j \in 0..i : h[j] = g[j]
      BY <2>2
    <3> HIDE DEF h
    <3>2. ASSUME NEW j \in 1..i PROVE h[j] = step[<<j, h[j - 1]>>]
      <4>1. j \in 0..i /\ j - 1 \in 0..i
        BY <2>2
      <4> QED  BY <2>1, <3>1, <4>1
    <3>3. h[i + 1] = step[<<i + 1, h[(i + 1) - 1]>>]
      <4>1. (i + 1) - 1 = i
        BY <2>2
      <4> QED  BY <2>2, <3>1, <4>1
    <3>4. \A j \in 1..(i + 1) : j \in 1..i \/ j = i + 1
      BY <2>2
    <3> QED  BY <3>2, <3>3, <3>4
  <2> HIDE DEF h
  <2> QED  BY <2>2, <2>4, <2>5
<1>3. n \in S
  <2> HIDE DEF S
  <2>1. 0..n \subseteq S
    BY <1>1, <1>2, InductionUpTo
  <2> QED  BY <2>1
<1> QED
  BY <1>3 DEF Recurs

----------------------------------------------------------------------------
(* Products that the code computes in 64 bits.                             *)

LEMMA Euclid ==
  ASSUME NEW n \in Int, NEW d \in Nat \ {0}
  PROVE  n = (n \div d) * d + (n % d) /\ n % d \in 0..d - 1 /\ n \div d \in Int
OBVIOUS

\* Shifted's quotient and remainder by d of n doubled k times.
LEMMA ShiftedSays ==
  ASSUME NEW n \in Int, NEW k \in Nat, NEW d \in Nat \ {0},
         NEW y, y[0] = n, \A i \in 1..k : y[i] = 2 * y[i - 1]
  PROVE  /\ Shifted(n, k, d).quot \in Int /\ Shifted(n, k, d).rest \in 0..d - 1
         /\ y[k] = Shifted(n, k, d).quot * d + Shifted(n, k, d).rest
<1> DEFINE V == [quot : Int, rest : Int]
           Twice(half) ==
             LET carry == IF 2 * half.rest >= d THEN 1 ELSE 0
             IN [quot |-> 2 * half.quot + carry, rest |-> 2 * half.rest - carry * d]
           first == [quot |-> n \div d, rest |-> n % d]
           F(g) == [i \in 0..k |-> IF i = 0 THEN first ELSE Twice(g[i - 1])]
           f == CHOOSE g : g = F(g)
<1>1. Shifted(n, k, d) = f[k]
  BY DEF Shifted
<1>2. ASSUME NEW half \in V PROVE Twice(half) \in V
  <2> DEFINE q == half.quot
             r == half.rest
             carry == IF 2 * r >= d THEN 1 ELSE 0
  <2>1. q \in Int /\ r \in Int /\ d \in Int /\ carry \in Int
    OBVIOUS
  <2>2. Twice(half) = [quot |-> 2 * q + carry, rest |-> 2 * r - carry * d]
    OBVIOUS
  <2> HIDE DEF q, r, carry, Twice
  <2>3. 2 * q + carry \in Int /\ 2 * r - carry * d \in Int
    BY <2>1
  <2> QED  BY <2>2, <2>3
<1>3. first \in V /\ first.quot = n \div d /\ first.rest = n % d
  <2>1. n \div d \in Int /\ n % d \in Int
    OBVIOUS
  <2> DEFINE q == n \div d
             r == n % d
  <2>2. first = [quot |-> q, rest |-> r]
    OBVIOUS
  <2> HIDE DEF first, q, r
  <2>3. q \in Int /\ r \in Int
    BY <2>1 DEF q, r
  <2>4. first \in V /\ first.quot = q /\ first.rest = r
    BY <2>2, <2>3
  <2> QED  BY <2>4 DEF q, r
<1> HIDE DEF first, Twice
<1>4. \E g : g = F(g)
  <2> DEFINE step == [p \in (1..k) \X V |-> Twice(p[2])]
  <2>1. step \in [(1..k) \X V -> V]
    BY <1>2
  <2>2. \A i \in 1..k, v \in V : step[<<i, v>>] = Twice(v)
    OBVIOUS
  <2> HIDE DEF step, V
  <2>5. PICK g : Recurs(g, k, V, first, step)
    BY <1>3, <2>1, RecursionExists
  <2>3. g \in [0..k -> V] /\ g[0] = first /\ \A i \in 1..k : g[i] = step[<<i, g[i - 1]>>]
    BY <2>5 DEF Recurs
  <2>4. ASSUME NEW i \in 0..k PROVE g[i] = IF i = 0 THEN first ELSE Twice(g[i - 1])
    <3>1. CASE i = 0
      BY <2>3, <3>1
    <3>2. CASE i # 0
      <4>1. i \in 1..k /\ i - 1 \in 0..k
        BY <3>2
      <4>2. g[i - 1] \in V /\ g[i] = step[<<i, g[i - 1]>>]
        BY <2>3, <4>1
      <4> QED  BY <2>2, <3>2, <4>1, <4>2
    <3> QED  BY <3>1, <3>2
  <2> QED  BY <2>3, <2>4
<1>5. f = F(f)
  <2> HIDE DEF F
  <2> QED  BY <1>4
<1> HIDE DEF f
<1>6. f[0] = first /\ \A i \in 1..k : f[i] = Twice(f[i - 1])
  BY <1>5
<1> DEFINE S == {i \in 0..k : /\ f[i] \in V /\ f[i].rest \in 0..d - 1
                              /\ y[i] = f[i].quot * d + f[i].rest}
<1>7. 0 \in S
  <2>1. n = (n \div d) * d + (n % d) /\ n % d \in 0..d - 1 /\ n \div d \in Int
    BY Euclid
  <2> DEFINE a == n \div d
             b == n % d
  <2>2. n = a * d + b /\ b \in 0..d - 1 /\ f[0].quot = a /\ f[0].rest = b /\ f[0] \in V
    BY <1>3, <1>6, <2>1
  <2> HIDE DEF a, b, V
  <2>3. y[0] = f[0].quot * d + f[0].rest /\ 0 \in 0..k
    BY <2>2
  <2> QED  BY <2>2, <2>3
<1>8. ASSUME NEW i \in 0..k, i \in S, i # k
      PROVE  i + 1 \in S
  <2> DEFINE q == f[i].quot
             r == f[i].rest
             carry == IF 2 * r >= d THEN 1 ELSE 0
  <2>1. q \in Int /\ r \in 0..d - 1 /\ y[i] = q * d + r
    BY <1>8
  <2>2. i + 1 \in 1..k /\ (i + 1) - 1 = i
    BY <1>8
  <2>3. f[i + 1] = Twice(f[i]) /\ y[i + 1] = 2 * y[i]
    BY <1>6, <2>2
  <2>4. f[i + 1] = [quot |-> 2 * q + carry, rest |-> 2 * r - carry * d]
    BY <2>3 DEF Twice
  <2> HIDE DEF q, r
  <2>5. 2 * q + carry \in Int /\ 2 * r - carry * d \in 0..d - 1
    <3>1. CASE 2 * r >= d
      BY <2>1, <3>1
    <3>2. CASE ~(2 * r >= d)
      BY <2>1, <3>2
    <3> QED  BY <3>1, <3>2
  <2>6. 2 * (q * d + r) = (2 * q + carry) * d + (2 * r - carry * d)
    <3> HIDE DEF carry
    <3>1. carry \in Int
      BY DEF carry
    <3>2. \A a, b, c \in Int : (2 * a + b) * c = 2 * (a * c) + b * c
      OBVIOUS
    <3>3. q * d \in Int /\ carry * d \in Int /\ d \in Int
      BY <2>1, <3>1
    <3>4. (2 * q + carry) * d = 2 * (q * d) + carry * d
      BY <2>1, <3>1, <3>2, <3>3
    <3> DEFINE a == q * d
               b == carry * d
    <3> HIDE DEF a, b
    <3> QED  BY <2>1, <3>3, <3>4 DEF a, b
  <2> HIDE DEF carry
  <2> QED  BY <2>1, <2>2, <2>3, <2>4, <2>5, <2>6
<1>9. k \in S
  <2> HIDE DEF S
  <2>1. 0..k \subseteq S
    BY <1>7, <1>8, InductionUpTo
  <2> QED  BY <2>1
<1> QED
  BY <1>1, <1>9

\* n doubled k times, for ShiftedSays.
LEMMA Doubles ==
  ASSUME NEW n \in Int, NEW k \in Nat
  PROVE  \E y : y \in [0..k -> Int] /\ y[0] = n /\ \A i \in 1..k : y[i] = 2 * y[i - 1]
<1> DEFINE step == [p \in (1..k) \X Int |-> 2 * p[2]]
<1>1. step \in [(1..k) \X Int -> Int] /\ \A i \in 1..k, v \in Int : step[<<i, v>>] = 2 * v
  OBVIOUS
<1> HIDE DEF step
<1>2. PICK y : Recurs(y, k, Int, n, step)
  BY <1>1, RecursionExists
<1>3. y \in [0..k -> Int] /\ y[0] = n /\ \A i \in 1..k : y[i] = step[<<i, y[i - 1]>>]
  BY <1>2 DEF Recurs
<1>4. ASSUME NEW i \in 1..k PROVE y[i] = 2 * y[i - 1]
  <2>1. i - 1 \in 0..k
    OBVIOUS
  <2> QED  BY <1>1, <1>3, <2>1
<1> QED
  BY <1>3, <1>4

LEMMA ShiftedTyped ==
  ASSUME NEW n \in Int, NEW k \in Nat, NEW d \in Nat \ {0}
  PROVE  Shifted(n, k, d).quot \in Int /\ Shifted(n, k, d).rest \in 0..d - 1
<1>1. PICK y : y \in [0..k -> Int] /\ y[0] = n /\ \A i \in 1..k : y[i] = 2 * y[i - 1]
  BY Doubles
<1> QED
  BY <1>1, ShiftedSays

TwoTo22 == 4194304

LEMMA TwentyTwo ==
  ASSUME NEW n \in Int
  PROVE  \E y : /\ y[0] = n /\ \A i \in 1..22 : y[i] = 2 * y[i - 1]
                /\ y[22] = TwoTo22 * n
<1>1. PICK y : y \in [0..22 -> Int] /\ y[0] = n /\ \A i \in 1..22 : y[i] = 2 * y[i - 1]
  <2> DEFINE k == 22
  <2>1. k \in Nat
    OBVIOUS
  <2> HIDE DEF k
  <2>2. \E y : y \in [0..k -> Int] /\ y[0] = n /\ \A i \in 1..k : y[i] = 2 * y[i - 1]
    BY <2>1, Doubles
  <2> QED  BY <2>2 DEF k
<1>2. \A i \in 0..22 : y[i] \in Int
  <2>1. y \in [0..22 -> Int]
    BY <1>1
  <2> QED  BY <2>1
<1>3. \A i \in 0..11 : y[i + 11] = 2048 * y[i]
  <2> SUFFICES ASSUME NEW i \in 0..11 PROVE y[i + 11] = 2048 * y[i]
    OBVIOUS
  <2>1. \A j \in 0..10 : y[(i + j) + 1] = 2 * y[i + j] /\ y[i + j] \in Int
    <3> SUFFICES ASSUME NEW j \in 0..10 PROVE y[(i + j) + 1] = 2 * y[i + j] /\ y[i + j] \in Int
      OBVIOUS
    <3> DEFINE m == i + j
    <3>1. m + 1 \in 1..22 /\ (m + 1) - 1 = m /\ m \in 0..22
      OBVIOUS
    <3> HIDE DEF m
    <3>2. y[m + 1] = 2 * y[m] /\ y[m] \in Int
      BY <1>1, <1>2, <3>1
    <3> QED  BY <3>2 DEF m
  <2>2. /\ y[i + 1] = 2 * y[i] /\ y[i + 2] = 2 * y[i + 1] /\ y[i + 3] = 2 * y[i + 2]
        /\ y[i + 4] = 2 * y[i + 3] /\ y[i + 5] = 2 * y[i + 4] /\ y[i + 6] = 2 * y[i + 5]
        /\ y[i + 7] = 2 * y[i + 6] /\ y[i + 8] = 2 * y[i + 7] /\ y[i + 9] = 2 * y[i + 8]
        /\ y[i + 10] = 2 * y[i + 9] /\ y[i + 11] = 2 * y[i + 10]
    BY <2>1
  <2>3. /\ y[i] \in Int /\ y[i + 1] \in Int /\ y[i + 2] \in Int /\ y[i + 3] \in Int /\ y[i + 4] \in Int
        /\ y[i + 5] \in Int /\ y[i + 6] \in Int /\ y[i + 7] \in Int /\ y[i + 8] \in Int
        /\ y[i + 9] \in Int /\ y[i + 10] \in Int
    BY <1>2
  <2> QED  BY <2>2, <2>3, SMT
<1>4. y[11] = 2048 * y[0] /\ y[22] = 2048 * y[11] /\ y[0] \in Int /\ y[11] \in Int
  <2>1. 0 \in 0..11 /\ 11 \in 0..11 /\ 0 + 11 = 11 /\ 11 + 11 = 22 /\ 0 \in 0..22 /\ 11 \in 0..22
    OBVIOUS
  <2>2. y[0 + 11] = 2048 * y[0] /\ y[11 + 11] = 2048 * y[11]
    BY <1>3, <2>1, SMT
  <2> QED  BY <1>2, <2>1, <2>2, SMT
<1>5. y[22] = TwoTo22 * n
  BY <1>1, <1>4, SMT DEF TwoTo22
<1> QED
  BY <1>1, <1>5

\* Multiples compare as their factors do.
LEMMA FactorBelow ==
  ASSUME NEW a \in Int, NEW b \in Int, NEW d \in Int, d > 0, a * d < b * d
  PROVE  a < b
<1> SUFFICES ASSUME a >= b PROVE FALSE
  OBVIOUS
<1>1. a * d >= b * d
  <2>1. (a - b) * d >= 0
    BY SMT
  <2>2. (a - b) * d = a * d - b * d
    BY SMT
  <2> QED  BY <2>1, <2>2, SMT
<1> QED
  BY <1>1, SMT

\* The ratio without the two bits that are cleared: read back, it is the rate.
LEMMA ReadsBack ==
  ASSUME NEW n \in Int, NEW rate \in Nat \ {0}, NEW q \in Int, NEW r \in 0..rate - 1, n = q * rate + r,
         NEW e \in Nat \ {0}, NEW lost \in 0..3, q = e + lost, 4 * rate <= e,
         NEW a \in Int, NEW s \in 0..e - 1, n = a * e + s
  PROVE  a = rate
<1>1. q * rate = e * rate + lost * rate
  BY SMT
<1>2. lost * rate <= 3 * rate /\ lost * rate >= 0 /\ lost * rate \in Int
  <2>1. lost = 0 \/ lost = 1 \/ lost = 2 \/ lost = 3
    OBVIOUS
  <2> QED  BY <2>1, SMT
<1> DEFINE x == a * e
           y == rate * e
           z == lost * rate
<1>3. x \in Int /\ y \in Int /\ z \in Int /\ e * rate = y
  BY SMT
<1>4. x + s = y + z + r
  BY <1>1, <1>3, SMT
<1>5. z >= 0 /\ z <= 3 * rate
  BY <1>2
<1>6. (a - 1) * e = x - e /\ (rate - 1) * e = y - e
  BY SMT
<1> HIDE DEF x, y, z
<1>7. x - e < y /\ y - e < x
  BY <1>3, <1>4, <1>5, SMT
<1>8. a - 1 < rate
  <2>1. (a - 1) * e < rate * e
    BY <1>6, <1>7 DEF y
  <2> HIDE DEF x
  <2>2. a - 1 \in Int /\ e \in Int /\ e > 0 /\ rate \in Int
    OBVIOUS
  <2> QED  BY <2>1, <2>2, FactorBelow
<1>9. rate - 1 < a
  <2>1. (rate - 1) * e < a * e
    BY <1>6, <1>7 DEF x
  <2>2. rate - 1 \in Int /\ e \in Int /\ e > 0 /\ rate \in Int
    OBVIOUS
  <2> QED  BY <2>1, <2>2, FactorBelow
<1> QED
  BY <1>8, <1>9

\* Shifted by the 22 bits of a ratio or of the converter.
LEMMA ByTwentyTwo ==
  ASSUME NEW n \in Int, NEW d \in Nat \ {0}
  PROVE  LET s == Shifted(n, 22, d)
         IN s.quot \in Int /\ s.rest \in 0..d - 1 /\ TwoTo22 * n = s.quot * d + s.rest
<1>1. PICK y : /\ y[0] = n /\ \A i \in 1..22 : y[i] = 2 * y[i - 1]
               /\ y[22] = TwoTo22 * n
  BY TwentyTwo
<1> DEFINE k == 22
<1>2. k \in Nat /\ y[0] = n /\ \A i \in 1..k : y[i] = 2 * y[i - 1]
  BY <1>1
<1> HIDE DEF k
<1>3. /\ Shifted(n, k, d).quot \in Int /\ Shifted(n, k, d).rest \in 0..d - 1
      /\ y[k] = Shifted(n, k, d).quot * d + Shifted(n, k, d).rest
  BY <1>2, ShiftedSays
<1> QED
  BY <1>1, <1>3 DEF k

\* A product taken in two parts, as VCOOf and DDCOf take theirs, is the product less
\* what the division truncates.
Thousandth(n, x) == n * (x \div 1000) + (n * (x % 1000)) \div 1000

Floors(v, p) == 1000 * v <= p /\ p < 1000 * v + 1000

Fraction(word, t) == ((word \div 256) * t + ((word % 256) * t) \div 256) \div 256

Rounds(v, p) == 65536 * v <= p /\ p < 65536 * v + 65536

LEMMA ThousandthOf ==
  ASSUME NEW n \in Int, NEW x \in Int
  PROVE  LET v == Thousandth(n, x)
         IN v \in Int /\ Floors(v, n * x)
<1> DEFINE a == x \div 1000
           b == x % 1000
           na == n * a
           nb == n * b
<1>1. a \in Int /\ b \in Int /\ x = 1000 * a + b
  BY SMT
<1> HIDE DEF a, b
<1>2. n * (1000 * a + b) = 1000 * (n * a) + n * b
  BY <1>1, SMT
<1>3. na \in Int /\ nb \in Int /\ n * x = 1000 * na + nb
  BY <1>1, <1>2
<1> HIDE DEF na, nb
<1>4. /\ na + nb \div 1000 \in Int /\ 1000 * (na + nb \div 1000) <= n * x
      /\ n * x < 1000 * (na + nb \div 1000) + 1000
  BY <1>3, SMT
<1> QED
  BY <1>4 DEF Thousandth, Floors, na, nb, a, b

LEMMA FractionOf ==
  ASSUME NEW word \in Nat, NEW t \in Int
  PROVE  LET v == Fraction(word, t)
         IN v \in Int /\ Rounds(v, t * word)
<1> DEFINE a == word \div 256
           b == word % 256
           at == a * t
           bt == b * t
<1>1. a \in Int /\ b \in Int /\ word = 256 * a + b
  BY SMT
<1> HIDE DEF a, b
<1>2. t * (256 * a + b) = 256 * (a * t) + b * t
  BY <1>1, SMT
<1>3. at \in Int /\ bt \in Int /\ t * word = 256 * at + bt
  BY <1>1, <1>2
<1> HIDE DEF at, bt
<1>4. /\ (at + bt \div 256) \div 256 \in Int
      /\ 65536 * ((at + bt \div 256) \div 256) <= t * word
      /\ t * word < 65536 * ((at + bt \div 256) \div 256) + 65536
  BY <1>3, SMT
<1> QED
  BY <1>4 DEF Fraction, Rounds, at, bt, a, b

\* What the converter's word says is the IF, or one kHz less.
Converter(m, x) == ((m \div 2048) * x + ((m % 2048) * x) \div 2048) \div 2048

Converts(v, p) == 4194304 * v <= p /\ p < 4194304 * v + 4194304

LEMMA ConverterOf ==
  ASSUME NEW m \in Int, NEW x \in Int
  PROVE  Converter(m, x) \in Int /\ Converts(Converter(m, x), m * x)
<1> DEFINE a == m \div 2048
           b == m % 2048
           ax == a * x
           bx == b * x
<1>1. a \in Int /\ b \in Int /\ m = 2048 * a + b
  BY SMT
<1> HIDE DEF a, b
<1>2. (2048 * a + b) * x = 2048 * (a * x) + b * x
  BY <1>1, SMT
<1>3. ax \in Int /\ bx \in Int /\ m * x = 2048 * ax + bx
  BY <1>1, <1>2
<1> HIDE DEF ax, bx
<1>4. /\ (ax + bx \div 2048) \div 2048 \in Int
      /\ 4194304 * ((ax + bx \div 2048) \div 2048) <= m * x
      /\ m * x < 4194304 * ((ax + bx \div 2048) \div 2048) + 4194304
  BY <1>3, SMT
<1> QED
  BY <1>4 DEF Converter, Converts, ax, bx, a, b

----------------------------------------------------------------------------
(* The crystal and the resampler.                                          *)

LEMMA XtalIs ==
  ASSUME NEW ppm \in -PPMMax..PPMMax
  PROVE  EffectiveXtal(ppm) \in Nat \ {0}
<1>1. ppm \in Int /\ -1000 <= ppm /\ ppm <= 1000
  BY SMT DEF PPMMax
<1> DEFINE size == IF ppm < 0 THEN -ppm ELSE ppm
           moved == (288 * size) \div 10
<1>2. size \in 0..1000
  BY <1>1, SMT
<1> HIDE DEF size
<1>3. moved \in Int /\ 0 <= moved /\ moved <= 28800
  BY <1>2, SMT
<1> HIDE DEF moved
<1>4. EffectiveXtal(ppm) = 28800000 - moved \/ EffectiveXtal(ppm) = 28800000 + moved
  BY SMT DEF EffectiveXtal, ReferenceClock, moved, size
<1> QED
  BY <1>3, <1>4, SMT

LEMMA XtalRange ==
  ASSUME NEW ppm \in -PPMMax..PPMMax
  PROVE  LET xtal == EffectiveXtal(ppm)
         IN /\ xtal \in Int /\ 28771200 <= xtal /\ xtal <= 28828800
            /\ ppm = 0 => xtal = 28800000
<1>1. ppm \in Int /\ -1000 <= ppm /\ ppm <= 1000
  BY SMT DEF PPMMax
<1> DEFINE size == IF ppm < 0 THEN -ppm ELSE ppm
           moved == (288 * size) \div 10
<1>2. size \in Int /\ 0 <= size /\ size <= 1000 /\ (ppm = 0 => size = 0)
  BY <1>1, SMT
<1> HIDE DEF size
<1>3. moved \in Int /\ 0 <= moved /\ moved <= 28800 /\ (ppm = 0 => moved = 0)
  BY <1>2, SMT
<1> HIDE DEF moved
<1>4. EffectiveXtal(ppm) = 28800000 - moved \/ EffectiveXtal(ppm) = 28800000 + moved
  BY SMT DEF EffectiveXtal, ReferenceClock, moved, size
<1> QED
  BY <1>3, <1>4, SMT

\* The bits the resampler keeps, as its ratio and as the chip expands it.
LEMMA RatioBits ==
  ASSUME NEW q \in Int, (33554432 <= q /\ q < 134217728) \/ (402653184 <= q /\ q < 536870912)
  PROVE  LET ratio == (q % 2^28) - ((q % 2^28) % 4)
         IN /\ ratio \in Int /\ ratio >= 33554432
            /\ Expanded(ratio) = q - (q % 4) /\ q % 4 \in 0..3
<1> DEFINE m == q % 268435456
           ratio == m - (m % 4)
<1>1. 2^28 = 268435456 /\ 2^27 = 134217728
  BY SMT
<1>2. m = q \/ m = q - 268435456
  BY SMT
<1>3. m \in Int /\ m % 4 = q % 4 /\ q % 4 \in Int /\ 0 <= q % 4 /\ q % 4 <= 3
  BY <1>2, SMT
<1>4. CASE q < 134217728
  <2>1. m = q
    BY <1>4, SMT
  <2>2. ratio >= 33554432 /\ ratio < 134217728 /\ ratio = q - (q % 4)
    BY <1>3, <1>4, <2>1, SMT
  <2>3. Expanded(ratio) = ratio
    BY <1>1, <2>2, SMT DEF Expanded
  <2> HIDE DEF m
  <2> QED  BY <1>1, <1>3, <2>2, <2>3, SMT DEF m
<1>5. CASE q >= 402653184
  <2>1. m = q - 268435456
    BY <1>5, SMT
  <2>2. ratio >= 134217728 /\ ratio + 268435456 = q - (q % 4)
    BY <1>3, <1>5, <2>1, SMT
  <2>3. Expanded(ratio) = ratio + 268435456
    BY <1>1, <2>2, SMT DEF Expanded
  <2> HIDE DEF m
  <2> QED  BY <1>1, <1>3, <2>2, <2>3, SMT DEF m
<1> QED
  BY <1>4, <1>5, SMT

LEMMA RateIsReproduced ==
  ASSUME NEW rate \in Nat, NEW xtal \in Int, 225000 < rate, rate <= 3200000,
         \/ 900000 < rate /\ 8 * rate < xtal /\ xtal < 32 * rate
         \/ rate <= 300000 /\ 96 * rate <= xtal /\ xtal < 128 * rate
  PROVE  /\ ResamplerRatio(rate, xtal) \in Int /\ ResamplerRatio(rate, xtal) >= 2^25
         /\ ActualRate(ResamplerRatio(rate, xtal), xtal) = rate
<1> DEFINE n == TwoTo22 * xtal
           q == Shifted(xtal, 22, rate).quot
           r == Shifted(xtal, 22, rate).rest
<1>2. ASSUME NEW d \in Nat \ {0}
      PROVE  /\ Shifted(xtal, 22, d).quot \in Int /\ Shifted(xtal, 22, d).rest \in 0..d - 1
             /\ n = Shifted(xtal, 22, d).quot * d + Shifted(xtal, 22, d).rest
  BY ByTwentyTwo
<1>3. rate \in Nat \ {0}
  OBVIOUS
<1>4. q \in Int /\ r \in 0..rate - 1 /\ n = q * rate + r
  BY <1>2, <1>3
<1>5. n = 4194304 * xtal
  BY SMT DEF TwoTo22
<1>6. ResamplerRatio(rate, xtal) = (q % 2^28) - ((q % 2^28) % 4)
  BY DEF ResamplerRatio
<1> HIDE DEF n, q, r
<1>7. ASSUME NEW b \in Int, n < b * rate PROVE q < b
  <2> DEFINE x == q * rate
             z == b * rate
  <2>1. x \in Int /\ z \in Int /\ n = x + r /\ r >= 0 /\ r \in Int
    BY <1>4
  <2>2. n < z
    BY <1>7
  <2> HIDE DEF x, z
  <2>3. x < z
    BY <2>1, <2>2, SMT
  <2>4. rate \in Int /\ rate > 0
    BY <1>3
  <2> QED  BY <1>4, <2>3, <2>4, FactorBelow DEF x, z
<1>8. ASSUME NEW b \in Int, b * rate <= n PROVE b <= q
  <2> DEFINE x == q * rate
             z == b * rate
  <2>1. x \in Int /\ z \in Int /\ n = x + r /\ r < rate /\ r \in Int
    BY <1>4
  <2>2. z <= n
    BY <1>8
  <2>3. (q + 1) * rate = x + rate
    BY <1>4, SMT
  <2> HIDE DEF x, z
  <2>4. z < x + rate
    BY <2>1, <2>2, SMT
  <2>5. b * rate < (q + 1) * rate
    BY <2>3, <2>4 DEF z
  <2>6. rate \in Int /\ rate > 0 /\ q + 1 \in Int
    BY <1>3, <1>4
  <2>7. b < q + 1
    BY <2>5, <2>6, FactorBelow
  <2> QED  BY <1>4, <2>7, SMT
<1>9. (33554432 <= q /\ q < 134217728) \/ (402653184 <= q /\ q < 536870912)
  <2>1. CASE 900000 < rate /\ 8 * rate < xtal /\ xtal < 32 * rate
    <3>1. n < 134217728 * rate /\ 33554432 * rate <= n
      BY <1>5, <2>1, SMT
    <3> QED  BY <1>7, <1>8, <3>1, SMT
  <2>2. CASE rate <= 300000 /\ 96 * rate <= xtal /\ xtal < 128 * rate
    <3>1. n < 536870912 * rate /\ 402653184 * rate <= n
      BY <1>5, <2>2, SMT
    <3> QED  BY <1>7, <1>8, <3>1, SMT
  <2> QED  BY <2>1, <2>2
<1> DEFINE ratio == (q % 2^28) - ((q % 2^28) % 4)
           lost == q % 4
           e == q - lost
<1>10. ratio \in Int /\ ratio >= 33554432 /\ Expanded(ratio) = e /\ lost \in 0..3
  BY <1>4, <1>9, RatioBits
<1>11. q >= 33554432
  BY <1>4, <1>9, SMT
<1> HIDE DEF ratio, lost
<1>12. e \in Nat \ {0} /\ q = e + lost /\ 4 * rate <= e
  BY <1>4, <1>10, <1>11, SMT
<1> HIDE DEF e
<1> DEFINE a == Shifted(xtal, 22, e).quot
           s == Shifted(xtal, 22, e).rest
<1>13. a \in Int /\ s \in 0..e - 1 /\ n = a * e + s
  BY <1>2, <1>12
<1> HIDE DEF a, s
<1>14. n \in Int
  BY <1>5, SMT
<1>15. a = rate
  BY <1>3, <1>4, <1>10, <1>12, <1>13, <1>14, ReadsBack
<1>16. ActualRate(ratio, xtal) = a
  <2>1. ratio # 0
    BY <1>10, SMT
  <2>2. ActualRate(ratio, xtal) = Shifted(xtal, 22, Expanded(ratio)).quot
    BY <2>1 DEF ActualRate
  <2> QED  BY <1>10, <2>2 DEF a
<1>17. ResamplerRatio(rate, xtal) = ratio
  BY <1>6 DEF ratio
<1>18. ratio >= 2^25
  BY <1>10, SMT
<1> QED
  BY <1>10, <1>15, <1>16, <1>17, <1>18, SMT

----------------------------------------------------------------------------
(* The filter.                                                             *)

LEMMA CornersAre ==
  /\ Len(LowPassCorners) = 10 /\ DOMAIN LowPassCorners = 1..10
  /\ LowPassCorners[1] = 1700000 /\ LowPassCorners[2] = 1600000 /\ LowPassCorners[3] = 1550000
  /\ LowPassCorners[4] = 1450000 /\ LowPassCorners[5] = 1200000 /\ LowPassCorners[6] = 900000
  /\ LowPassCorners[7] = 700000 /\ LowPassCorners[8] = 550000 /\ LowPassCorners[9] = 450000
  /\ LowPassCorners[10] = 350000
BY SMT DEF LowPassCorners

\* The corner chosen is wide enough, and the next one is not.
LEMMA CornerFits ==
  ASSUME NEW left \in Int, left <= LowPassCorners[1]
  PROVE  LET low == LowPassCorners[LowPassIndex(left)]
         IN /\ LowPassIndex(left) \in 1..10 /\ low \in Int /\ low >= left
            /\ \A i \in 1..9 : LowPassCorners[i] = low => LowPassCorners[i + 1] < left
<1> DEFINE wide == {i \in DOMAIN LowPassCorners : left <= LowPassCorners[i]}
           Falls(i) == (i + 1 \in 1..10 => LowPassCorners[i + 1] < left)
<1>1. ASSUME NEW i \in 1..10, left <= LowPassCorners[i], Falls(i)
      PROVE  LowPassIndex(left) = i
  <2>1. wide = 1..i
    BY <1>1, CornersAre
  <2>2. Cardinality(1..i) = i
    <3>1. Cardinality(1..i) = IF 1 > i THEN 0 ELSE i - 1 + 1
      BY FS_Interval
    <3> QED  BY <3>1
  <2>3. LowPassIndex(left) = Cardinality(wide)
    BY DEF LowPassIndex
  <2> HIDE DEF wide
  <2> QED  BY <2>1, <2>2, <2>3
<1>2. \E i \in 1..10 : left <= LowPassCorners[i] /\ Falls(i)
  BY CornersAre, SMT
<1>3. PICK i \in 1..10 : left <= LowPassCorners[i] /\ Falls(i)
  BY <1>2
<1>4. LowPassIndex(left) = i
  BY <1>1, <1>3
<1>5. ASSUME NEW j \in 1..9, LowPassCorners[j] = LowPassCorners[i]
      PROVE  LowPassCorners[j + 1] < left
  BY <1>3, <1>5, CornersAre
<1> QED
  BY <1>3, <1>4, <1>5, CornersAre

LEMMA FilterFits ==
  ASSUME NEW rate \in Nat, ValidRate(rate), IFFilter(rate).width # 0
  PROVE  /\ IFFilter(rate).width >= rate
         /\ \A i \in 1..9 :
              LowPassCorners[i] = IFFilter(rate).low =>
                IFFilter(rate).width - IFFilter(rate).low + LowPassCorners[i + 1] < rate
<1> DEFINE hp2 == IF rate > 2050000 THEN HighPass2 ELSE 0
           hp1 == IF rate - hp2 > 1700000 THEN HighPass1 ELSE 0
           left == rate - hp2 - hp1
           low == LowPassCorners[LowPassIndex(left)]
<1>1. rate <= 2430000
  <2>1. CASE rate > 6000000
    <3>1. IFFilter(rate) = [width |-> 0, low |-> 0, if |-> 4570000]
      BY <2>1 DEF IFFilter
    <3> QED  BY <3>1
  <2>2. CASE rate > 2430000 /\ rate <= 6000000
    <3>1. IFFilter(rate) = [width |-> 0, low |-> 0, if |-> 3570000]
      BY <2>2, SMT DEF IFFilter
    <3> QED  BY <3>1
  <2> QED  BY <2>1, <2>2, SMT
<1>2. IFFilter(rate) = [width |-> hp2 + hp1 + low, low |-> low,
                        if |-> 2300000 + hp2 + hp1 - (hp2 + hp1 + low) \div 2]
  BY <1>1, SMT DEF IFFilter
<1>3. left \in Int /\ left <= LowPassCorners[1] /\ rate = hp2 + hp1 + left /\ hp1 \in Int /\ hp2 \in Int
  BY <1>1, CornersAre, SMT DEF HighPass1, HighPass2
<1> HIDE DEF left, hp1, hp2
<1>4. low \in Int /\ low >= left
  BY <1>3, CornerFits
<1>5. \A i \in 1..9 : LowPassCorners[i] = low => LowPassCorners[i + 1] < left
  BY <1>3, CornerFits
<1>6. \A i \in 1..9 : LowPassCorners[i + 1] \in Int
  BY CornersAre, SMT
<1> HIDE DEF low
<1>7. IFFilter(rate).width = hp2 + hp1 + low /\ IFFilter(rate).low = low
  BY <1>2
<1>8. ASSUME NEW i \in 1..9, LowPassCorners[i] = low
      PROVE  (hp2 + hp1 + low) - low + LowPassCorners[i + 1] < rate
  <2>1. LowPassCorners[i + 1] < left /\ LowPassCorners[i + 1] \in Int
    BY <1>5, <1>6, <1>8
  <2> QED  BY <1>3, <1>4, <2>1
<1> QED
  BY <1>3, <1>4, <1>7, <1>8

\* Every IF is whole kHz, so the converter's word loses at most one.
IsIF(if, i) == if = 1000 * i /\ 1000 <= i /\ i <= 4570

LEMMA FilterIFIs ==
  ASSUME NEW rate \in Nat
  PROVE  \E i \in Int : IsIF(IFFilter(rate).if, i)
<1> DEFINE hp2 == IF rate > 2050000 THEN HighPass2 ELSE 0
           hp1 == IF rate - hp2 > 1700000 THEN HighPass1 ELSE 0
           left == rate - hp2 - hp1
           low == LowPassCorners[LowPassIndex(left)]
           if == IFFilter(rate).if
           i == if \div 1000
<1>1. CASE rate > 6000000
  <2>1. IFFilter(rate) = [width |-> 0, low |-> 0, if |-> 4570000]
    BY <1>1 DEF IFFilter
  <2>2. if = 4570000
    BY <2>1
  <2> HIDE DEF if
  <2>3. i \in Int /\ IsIF(if, i)
    BY <2>2, SMT DEF IsIF
  <2> QED  BY <2>3 DEF if
<1>2. CASE rate > 2430000 /\ rate <= 6000000
  <2>1. IFFilter(rate) = [width |-> 0, low |-> 0, if |-> 3570000]
    BY <1>2, SMT DEF IFFilter
  <2>2. if = 3570000
    BY <2>1
  <2> HIDE DEF if
  <2>3. i \in Int /\ IsIF(if, i)
    BY <2>2, SMT DEF IsIF
  <2> QED  BY <2>3 DEF if
<1>3. CASE rate <= 2430000
  <2>1. IFFilter(rate) = [width |-> hp2 + hp1 + low, low |-> low,
                          if |-> 2300000 + hp2 + hp1 - (hp2 + hp1 + low) \div 2]
    BY <1>3, SMT DEF IFFilter
  <2>2. left \in Int /\ left <= LowPassCorners[1]
    BY <1>3, CornersAre, SMT DEF HighPass1, HighPass2
  <2>3. hp2 \in {0, 380000} /\ hp1 \in {0, 350000}
    BY SMT DEF HighPass1, HighPass2
  <2> HIDE DEF left, hp1, hp2
  <2>4. \E j \in 1..10 : low = LowPassCorners[j]
    BY <2>2, CornerFits
  <2>5. low \in {1700000, 1600000, 1550000, 1450000, 1200000, 900000, 700000, 550000, 450000, 350000}
    BY <2>4, CornersAre, SMT
  <2> HIDE DEF low
  <2>6. if = 2300000 + hp2 + hp1 - (hp2 + hp1 + low) \div 2
    BY <2>1
  <2> HIDE DEF if
  <2>7. i \in Int /\ IsIF(if, i)
    BY <2>3, <2>5, <2>6, SMT DEF IsIF
  <2> QED  BY <2>7 DEF if
<1> QED
  BY <1>1, <1>2, <1>3, SMT

LEMMA FilterIF ==
  ASSUME NEW rate \in Nat
  PROVE  IFFilter(rate).if \in Int
<1>1. PICK i \in Int : IsIF(IFFilter(rate).if, i)
  BY FilterIFIs
<1> QED
  BY <1>1, SMT DEF IsIF

----------------------------------------------------------------------------
(* The PLL's fraction.                                                     *)

\* The divisor and the bit of computeSDM's step k, and their values.
Divisor(k) == 2^k

Bit(k) == 2^(16 - k)

\* A step: what is left of the fraction, and the word so far.
SDMStep(twoXtal, k, prev) ==
  LET step == twoXtal \div Divisor(k)
  IN IF prev.rest > 1 /\ prev.rest > step
     THEN [rest |-> prev.rest - step, sdm |-> prev.sdm + Bit(k)] ELSE prev

LEMMA BitsAre ==
  ASSUME NEW k \in 1..15
  PROVE  /\ Bit(k) \in Nat \ {0} /\ Divisor(k) \in Nat \ {0}
         /\ k # 15 => Bit(k) = 2 * Bit(k + 1)
         /\ k = 1 => Bit(k) = 32768
<1> USE DEF Bit, Divisor
<1>1. CASE k = 1
  BY <1>1, SMT
<1>2. CASE k = 2
  BY <1>2, SMT
<1>3. CASE k = 3
  BY <1>3, SMT
<1>4. CASE k = 4
  BY <1>4, SMT
<1>5. CASE k = 5
  BY <1>5, SMT
<1>6. CASE k = 6
  BY <1>6, SMT
<1>7. CASE k = 7
  BY <1>7, SMT
<1>8. CASE k = 8
  BY <1>8, SMT
<1>9. CASE k = 9
  BY <1>9, SMT
<1>10. CASE k = 10
  BY <1>10, SMT
<1>11. CASE k = 11
  BY <1>11, SMT
<1>12. CASE k = 12
  BY <1>12, SMT
<1>13. CASE k = 13
  BY <1>13, SMT
<1>14. CASE k = 14
  BY <1>14, SMT
<1>15. CASE k = 15
  BY <1>15, SMT
<1> HIDE DEF Bit, Divisor
<1> DEFINE Goal == /\ Bit(k) \in Nat \ {0} /\ Divisor(k) \in Nat \ {0}
                   /\ k # 15 => Bit(k) = 2 * Bit(k + 1)
                   /\ k = 1 => Bit(k) = 32768
<1>16. Goal
  <2> SUFFICES ASSUME ~Goal PROVE FALSE
    OBVIOUS
  <2> QED
    BY <1>1, <1>2, <1>3, <1>4, <1>5, <1>6, <1>7, <1>8, <1>9, <1>10, <1>11, <1>12, <1>13, <1>14, <1>15, SMT
<1> QED
  BY <1>16, SMT

LEMMA SDMSays ==
  ASSUME NEW frac \in Nat, NEW twoXtal \in Nat
  PROVE  \E acc : /\ SDM(frac, twoXtal) = acc[15].sdm
                  /\ acc \in [0..15 -> [rest : Int, sdm : Int]]
                  /\ acc[0] = [rest |-> frac, sdm |-> 0]
                  /\ \A k \in 1..15 : acc[k] = SDMStep(twoXtal, k, acc[k - 1])
<1> DEFINE V == [rest : Int, sdm : Int]
           first == [rest |-> frac, sdm |-> 0]
           F(g) == [k \in 0..15 |-> IF k = 0 THEN first ELSE SDMStep(twoXtal, k, g[k - 1])]
           f == CHOOSE g : g = F(g)
<1>1. SDM(frac, twoXtal) = f[15].sdm
  BY DEF SDM, SDMStep, Divisor, Bit
<1>2. ASSUME NEW k \in 1..15, NEW prev \in V PROVE SDMStep(twoXtal, k, prev) \in V
  <2>1. Divisor(k) \in Nat \ {0} /\ Bit(k) \in Int
    BY BitsAre, SMT
  <2> DEFINE step == twoXtal \div Divisor(k)
             bit == Bit(k)
  <2>2. step \in Int /\ bit \in Int
    BY <2>1
  <2>3. SDMStep(twoXtal, k, prev) =
          IF prev.rest > 1 /\ prev.rest > step THEN [rest |-> prev.rest - step, sdm |-> prev.sdm + bit] ELSE prev
    BY DEF SDMStep
  <2> HIDE DEF step, bit
  <2> QED  BY <2>2, <2>3
<1>3. first \in V
  OBVIOUS
<1> HIDE DEF first
<1>4. \E g : g = F(g) /\ g \in [0..15 -> V]
  <2> DEFINE step == [p \in (1..15) \X V |-> SDMStep(twoXtal, p[1], p[2])]
  <2>1. step \in [(1..15) \X V -> V]
    BY <1>2
  <2>2. \A k \in 1..15, v \in V : step[<<k, v>>] = SDMStep(twoXtal, k, v)
    OBVIOUS
  <2> HIDE DEF step, V
  <2>3. PICK g : Recurs(g, 15, V, first, step)
    <3>1. 15 \in Nat
      OBVIOUS
    <3> QED  BY <1>3, <2>1, <3>1, RecursionExists
  <2>4. g \in [0..15 -> V] /\ g[0] = first /\ \A k \in 1..15 : g[k] = step[<<k, g[k - 1]>>]
    BY <2>3 DEF Recurs
  <2>5. ASSUME NEW k \in 0..15 PROVE g[k] = IF k = 0 THEN first ELSE SDMStep(twoXtal, k, g[k - 1])
    <3>1. CASE k = 0
      BY <2>4, <3>1
    <3>2. CASE k # 0
      <4>1. k \in 1..15 /\ k - 1 \in 0..15
        BY <3>2
      <4>2. g[k - 1] \in V /\ g[k] = step[<<k, g[k - 1]>>]
        BY <2>4, <4>1
      <4> QED  BY <2>2, <3>2, <4>1, <4>2
    <3> QED  BY <3>1, <3>2
  <2> QED  BY <2>4, <2>5
<1>5. f = F(f)
  <2> HIDE DEF F
  <2> QED  BY <1>4
<1> HIDE DEF f
<1>6. f[0] = first /\ \A k \in 1..15 : f[k] = SDMStep(twoXtal, k, f[k - 1])
  BY <1>5
<1> DEFINE S == {k \in 0..15 : f[k] \in V}
<1>7. 0 \in S
  BY <1>3, <1>6
<1>8. ASSUME NEW k \in 0..15, k \in S, k # 15
      PROVE  k + 1 \in S
  <2>1. k + 1 \in 1..15 /\ (k + 1) - 1 = k
    BY <1>8
  <2>2. f[k + 1] = SDMStep(twoXtal, k + 1, f[k])
    BY <1>6, <2>1
  <2> HIDE DEF V
  <2> QED  BY <1>2, <1>8, <2>1, <2>2
<1>9. 0..15 \subseteq S
  <2> HIDE DEF S
  <2>1. 15 \in Nat
    OBVIOUS
  <2> QED  BY <1>7, <1>8, <2>1, InductionUpTo
<1>10. f \in [0..15 -> V]
  <2>1. f = [k \in 0..15 |-> f[k]]
    <3> HIDE DEF V, first
    <3> QED  BY <1>5
  <2> HIDE DEF V
  <2> QED  BY <1>9, <2>1
<1> QED
  BY <1>1, <1>6, <1>10 DEF first

\* The word fits its sixteen bits.
LEMMA SDMFits ==
  ASSUME NEW frac \in Nat, NEW twoXtal \in Nat
  PROVE  SDM(frac, twoXtal) \in Nat /\ SDM(frac, twoXtal) < 2^16
<1>1. PICK acc : /\ SDM(frac, twoXtal) = acc[15].sdm
                 /\ acc \in [0..15 -> [rest : Int, sdm : Int]]
                 /\ acc[0] = [rest |-> frac, sdm |-> 0]
                 /\ \A k \in 1..15 : acc[k] = SDMStep(twoXtal, k, acc[k - 1])
  BY SDMSays
<1> DEFINE W(k) == IF k = 0 THEN 65536 ELSE Bit(k)
           S == {k \in 0..15 : acc[k].sdm \in Nat /\ acc[k].sdm + W(k) <= 65536}
<1>2. W(0) = 65536 /\ \A k \in 1..15 : W(k) \in Int /\ Bit(k) = W(k) /\ W(k) > 0
  BY BitsAre, SMT
<1>3. \A k \in 0..14 : W(k) = 2 * W(k + 1)
  <2>1. 1 \in 1..15 /\ \A k \in 1..14 : k \in 1..15 /\ k # 15
    OBVIOUS
  <2>2. W(0) = 2 * W(1)
    BY <2>1, BitsAre, SMT
  <2>3. \A k \in 1..14 : W(k) = 2 * W(k + 1)
    BY <2>1, BitsAre, SMT
  <2> QED  BY <2>2, <2>3, SMT
<1> HIDE DEF W
<1>4. 0 \in S
  BY <1>1, <1>2, SMT
<1>5. ASSUME NEW k \in 0..15, k \in S, k # 15
      PROVE  k + 1 \in S
  <2>1. k + 1 \in 1..15 /\ (k + 1) - 1 = k /\ k \in 0..14
    BY <1>5
  <2>2. acc[k + 1] = SDMStep(twoXtal, k + 1, acc[k])
    BY <1>1, <2>1
  <2>3. acc[k] \in [rest : Int, sdm : Int]
    BY <1>1
  <2>4. acc[k + 1].sdm = acc[k].sdm + W(k + 1) \/ acc[k + 1].sdm = acc[k].sdm
    BY <1>2, <2>1, <2>2, SMT DEF SDMStep
  <2>5. W(k + 1) \in Int /\ W(k + 1) > 0 /\ W(k) = 2 * W(k + 1)
    BY <1>2, <1>3, <2>1
  <2>6. acc[k].sdm \in Nat /\ acc[k].sdm + W(k) <= 65536
    BY <1>5
  <2>7. acc[k + 1].sdm \in Nat /\ acc[k + 1].sdm + W(k + 1) <= 65536
    BY <2>4, <2>5, <2>6, SMT
  <2> QED  BY <2>1, <2>7
<1>6. 0..15 \subseteq S
  <2> HIDE DEF S
  <2>1. 15 \in Nat
    OBVIOUS
  <2> QED  BY <1>4, <1>5, <2>1, InductionUpTo
<1>7. acc[15].sdm \in Nat /\ acc[15].sdm + W(15) <= 65536
  BY <1>6, SMT
<1> DEFINE word == acc[15].sdm
           w == W(15)
<1>8. word \in Nat /\ word + w <= 65536
  BY <1>7
<1>9. w \in Int /\ w > 0
  BY <1>2
<1> HIDE DEF word, w
<1>10. word < 65536
  BY <1>8, <1>9, SMT
<1>11. word < 2^16
  BY <1>8, <1>10, SMT
<1> QED
  BY <1>1, <1>8, <1>11, SMT DEF word

\* How much too large the word may be after k bits, in units of a 65536th of a kHz:
\* at each bit the step that is taken off the fraction is truncated to a kHz.
LostBounds ==
  <<32768, 81920, 139264, 200704, 264192, 328704, 393728, 459008, 499072, 519104,
    529120, 534128, 536632, 570652, 620430>>

Lost(k) == IF k = 0 THEN 0 ELSE LostBounds[k]

\* Twice the corrected crystal, in kHz.
TwoXtalKHz(t) == 57542 <= t /\ t <= 57657

LEMMA LostAtBit ==
  ASSUME NEW t \in Int, TwoXtalKHz(t), NEW k \in 1..15
  PROVE  /\ 0 <= Bit(k) * t - 65536 * (t \div Divisor(k))
         /\ Bit(k) * t - 65536 * (t \div Divisor(k)) <= Lost(k) - Lost(k - 1)
         /\ 65536 <= Bit(k) * t
         /\ Lost(k) \in Int /\ Lost(k - 1) \in Int /\ t \div Divisor(k) \in Nat
<1> USE DEF Bit, Divisor, Lost, LostBounds, TwoXtalKHz
<1>1. CASE k = 1
  BY <1>1, SMT
<1>2. CASE k = 2
  BY <1>2, SMT
<1>3. CASE k = 3
  BY <1>3, SMT
<1>4. CASE k = 4
  BY <1>4, SMT
<1>5. CASE k = 5
  BY <1>5, SMT
<1>6. CASE k = 6
  BY <1>6, SMT
<1>7. CASE k = 7
  BY <1>7, SMT
<1>8. CASE k = 8
  BY <1>8, SMT
<1>9. CASE k = 9
  BY <1>9, SMT
<1>10. CASE k = 10
  BY <1>10, SMT
<1>11. CASE k = 11
  BY <1>11, SMT
<1>12. CASE k = 12
  BY <1>12, SMT
<1>13. CASE k = 13
  BY <1>13, SMT
<1>14. CASE k = 14
  BY <1>14, SMT
<1>15. CASE k = 15
  BY <1>15, SMT
<1> HIDE DEF Bit, Divisor, Lost, LostBounds
<1> DEFINE Goal ==
      /\ 0 <= Bit(k) * t - 65536 * (t \div Divisor(k))
      /\ Bit(k) * t - 65536 * (t \div Divisor(k)) <= Lost(k) - Lost(k - 1)
      /\ 65536 <= Bit(k) * t
      /\ Lost(k) \in Int /\ Lost(k - 1) \in Int /\ t \div Divisor(k) \in Nat
<1>16. Goal
  <2> SUFFICES ASSUME ~Goal PROVE FALSE
    OBVIOUS
  <2> QED
    BY <1>1, <1>2, <1>3, <1>4, <1>5, <1>6, <1>7, <1>8, <1>9, <1>10, <1>11, <1>12, <1>13, <1>14, <1>15, SMT
<1> QED
  BY <1>16, SMT

\* One step of the reduction: x is the word so far times t, y what the bit is worth.
LEMMA FractionStep ==
  ASSUME NEW frac \in Int, NEW rest \in Int, NEW x \in Int, NEW rest2 \in Int, NEW x2 \in Int,
         NEW step \in Nat, NEW y \in Int, NEW lost \in Int, NEW more \in Int,
         0 <= y - 65536 * step, y - 65536 * step <= more, 65536 <= y,
         rest >= 0, 0 <= x + 65536 * rest - 65536 * frac, x + 65536 * rest - 65536 * frac <= lost,
         65536 * frac - x <= 2 * y,
         \/ rest > 1 /\ rest > step /\ rest2 = rest - step /\ x2 = x + y
         \/ ~(rest > 1 /\ rest > step) /\ rest2 = rest /\ x2 = x
  PROVE  /\ rest2 >= 0 /\ 0 <= x2 + 65536 * rest2 - 65536 * frac
         /\ x2 + 65536 * rest2 - 65536 * frac <= lost + more
         /\ 65536 * frac - x2 <= y
         /\ x2 # x => rest2 >= 1
BY SMT

\* The word is the fraction, in 65536ths: at most 2 kHz too low, less than 9 too high.
CloseTo(p, frac) == p - 65536 * frac < 589824 /\ 65536 * frac - p <= 131072

\* What the reduction loses at each bit, and what has been lost up to each.
Loses(t, lost) ==
  /\ lost \in [0..15 -> Int] /\ lost[0] = 0
  /\ \A k \in 1..15 :
       /\ 0 <= Bit(k) * t - 65536 * (t \div Divisor(k))
       /\ Bit(k) * t - 65536 * (t \div Divisor(k)) <= lost[k] - lost[k - 1]
       /\ 65536 <= Bit(k) * t /\ t \div Divisor(k) \in Nat

\* The word is too large by what is lost at most, too small by a bit of the last.
LEMMA SDMWithin ==
  ASSUME NEW t \in Nat, NEW lost, Loses(t, lost), NEW frac \in Nat, frac <= t
  PROVE  LET p == t * SDM(frac, t)
         IN /\ p \in Int /\ 65536 * frac - p <= 2 * t
            /\ p - 65536 * frac <= lost[15]
            /\ p - 65536 * frac <= lost[14] \/ p - 65536 * frac <= lost[15] - 65536
<1>1. PICK acc : /\ SDM(frac, t) = acc[15].sdm
                 /\ acc \in [0..15 -> [rest : Int, sdm : Int]]
                 /\ acc[0] = [rest |-> frac, sdm |-> 0]
                 /\ \A k \in 1..15 : acc[k] = SDMStep(t, k, acc[k - 1])
  BY SDMSays
<1> DEFINE W(k) == IF k = 0 THEN 65536 ELSE Bit(k)
           X(k) == t * acc[k].sdm
           R(k) == acc[k].rest
           S == {k \in 0..15 : /\ R(k) >= 0 /\ 0 <= X(k) + 65536 * R(k) - 65536 * frac
                               /\ X(k) + 65536 * R(k) - 65536 * frac <= lost[k]
                               /\ 65536 * frac - X(k) <= W(k) * t}
<1>2. \A k \in 0..15 : X(k) \in Int /\ R(k) \in Int /\ acc[k].sdm \in Int
  <2> SUFFICES ASSUME NEW k \in 0..15 PROVE X(k) \in Int /\ R(k) \in Int /\ acc[k].sdm \in Int
    OBVIOUS
  <2>1. acc[k] \in [rest : Int, sdm : Int]
    BY <1>1
  <2> QED  BY <2>1
<1>3. \A k \in 0..14 : W(k) = 2 * W(k + 1) /\ W(k + 1) = Bit(k + 1) /\ Bit(k + 1) \in Nat
  <2>1. 1 \in 1..15 /\ \A k \in 1..14 : k \in 1..15 /\ k + 1 \in 1..15 /\ k # 15
    OBVIOUS
  <2>2. W(0) = 2 * W(1) /\ W(1) = Bit(1) /\ Bit(1) \in Nat
    BY <2>1, BitsAre, SMT
  <2>3. \A k \in 1..14 : W(k) = 2 * W(k + 1) /\ W(k + 1) = Bit(k + 1) /\ Bit(k + 1) \in Nat
    BY <2>1, BitsAre, SMT
  <2> QED  BY <2>2, <2>3, SMT
<1>4. 0 \in S
  <2>1. X(0) = 0 /\ R(0) = frac
    BY <1>1
  <2>2. W(0) = 65536 /\ lost[0] = 0
    BY SMT DEF Loses
  <2> HIDE DEF X, R, W
  <2> QED  BY <2>1, <2>2, SMT
<1> HIDE DEF W
<1>5. ASSUME NEW k \in 0..14
      PROVE  \/ /\ R(k) > 1 /\ R(k) > t \div Divisor(k + 1)
                /\ R(k + 1) = R(k) - (t \div Divisor(k + 1)) /\ X(k + 1) = X(k) + Bit(k + 1) * t
             \/ ~(R(k) > 1 /\ R(k) > t \div Divisor(k + 1)) /\ R(k + 1) = R(k) /\ X(k + 1) = X(k)
  <2>1. k + 1 \in 1..15 /\ (k + 1) - 1 = k /\ k \in 0..15
    OBVIOUS
  <2>2. acc[k + 1] = SDMStep(t, k + 1, acc[k])
    BY <1>1, <2>1
  <2> DEFINE step == t \div Divisor(k + 1)
             bit == Bit(k + 1)
             d == acc[k].sdm
  <2>3. d \in Int /\ bit \in Int
    BY <1>2, <1>3, <2>1
  <2>4. t * (d + bit) = t * d + bit * t
    <3> HIDE DEF d, bit
    <3> QED  BY <2>3, SMT
  <2>5. acc[k + 1] = IF R(k) > 1 /\ R(k) > step THEN [rest |-> R(k) - step, sdm |-> d + bit] ELSE acc[k]
    BY <2>2 DEF SDMStep
  <2> HIDE DEF step, bit
  <2>6. CASE R(k) > 1 /\ R(k) > step
    <3>1. acc[k + 1] = [rest |-> R(k) - step, sdm |-> d + bit]
      BY <2>5, <2>6
    <3>2. R(k + 1) = R(k) - step /\ acc[k + 1].sdm = d + bit
      BY <3>1
    <3> QED  BY <2>4, <2>6, <3>2 DEF step, bit
  <2>7. CASE ~(R(k) > 1 /\ R(k) > step)
    <3>1. acc[k + 1] = acc[k]
      BY <2>5, <2>7
    <3> QED  BY <2>7, <3>1 DEF step, bit
  <2> QED  BY <2>6, <2>7
<1> HIDE DEF X, R
<1>6. ASSUME NEW k \in 0..14, k \in S
      PROVE  /\ R(k + 1) >= 0 /\ 0 <= X(k + 1) + 65536 * R(k + 1) - 65536 * frac
             /\ X(k + 1) + 65536 * R(k + 1) - 65536 * frac <= lost[k + 1]
             /\ 65536 * frac - X(k + 1) <= W(k + 1) * t
             /\ X(k + 1) # X(k) => R(k + 1) >= 1
  <2> DEFINE step == t \div Divisor(k + 1)
             y == Bit(k + 1) * t
             more == lost[k + 1] - lost[k]
             sofar == lost[k]
             x == X(k)
             x2 == X(k + 1)
             rest == R(k)
             rest2 == R(k + 1)
  <2>1. k + 1 \in 1..15 /\ (k + 1) - 1 = k /\ k \in 0..15 /\ k + 1 \in 0..15
    OBVIOUS
  <2>2. /\ 0 <= y - 65536 * step /\ y - 65536 * step <= more /\ 65536 <= y
        /\ sofar \in Int /\ lost[k + 1] \in Int /\ more \in Int /\ step \in Nat
    BY <2>1 DEF Loses
  <2>3. x \in Int /\ x2 \in Int /\ rest \in Int /\ rest2 \in Int /\ frac \in Int
    BY <1>2, <2>1
  <2>4. W(k) * t = 2 * y /\ W(k + 1) * t = y /\ y \in Int
    <3>1. W(k) = 2 * W(k + 1) /\ W(k + 1) = Bit(k + 1) /\ Bit(k + 1) \in Nat
      BY <1>3
    <3> QED  BY <3>1, SMT
  <2>5. /\ rest >= 0 /\ 0 <= x + 65536 * rest - 65536 * frac /\ x + 65536 * rest - 65536 * frac <= sofar
        /\ 65536 * frac - x <= 2 * y
    BY <1>6, <2>4
  <2>6. \/ rest > 1 /\ rest > step /\ rest2 = rest - step /\ x2 = x + y
        \/ ~(rest > 1 /\ rest > step) /\ rest2 = rest /\ x2 = x
    BY <1>5
  <2>7. sofar + more = lost[k + 1]
    BY <2>2, SMT
  <2> HIDE DEF step, y, more, sofar, x, x2, rest, rest2
  <2>8. /\ rest2 >= 0 /\ 0 <= x2 + 65536 * rest2 - 65536 * frac
        /\ x2 + 65536 * rest2 - 65536 * frac <= sofar + more
        /\ 65536 * frac - x2 <= y
        /\ x2 # x => rest2 >= 1
    BY <2>2, <2>3, <2>4, <2>5, <2>6, FractionStep
  <2> QED  BY <2>4, <2>7, <2>8 DEF x, x2, rest, rest2
<1>7. ASSUME NEW k \in 0..15, k \in S, k # 15 PROVE k + 1 \in S
  <2>1. k \in 0..14 /\ k + 1 \in 0..15
    BY <1>7
  <2> QED  BY <1>6, <1>7, <2>1
<1>8. 0..15 \subseteq S
  <2> HIDE DEF S
  <2>1. 15 \in Nat
    OBVIOUS
  <2> QED  BY <1>4, <1>7, <2>1, InductionUpTo
<1>9. 14 \in 0..14 /\ 14 \in S /\ 14 + 1 = 15 /\ 14 \in 0..15 /\ 15 \in 0..15 /\ 15 \in S
  BY <1>8, SMT
<1>10. X(15) # X(14) => R(15) >= 1
  <2> DEFINE k == 14
  <2>1. k \in 0..14 /\ k \in S /\ k + 1 = 15
    BY <1>9, SMT
  <2> HIDE DEF k, S
  <2>2. X(k + 1) # X(k) => R(k + 1) >= 1
    BY <1>6, <2>1
  <2> QED  BY <2>1, <2>2 DEF k
<1>11. W(15) = 2 /\ lost[14] \in Int /\ lost[15] \in Int
  <2>1. W(15) = 2
    BY SMT DEF W, Bit
  <2>2. lost[14] \in Int /\ lost[15] \in Int
    BY SMT DEF Loses
  <2> QED  BY <2>1, <2>2
<1> DEFINE l14 == lost[14]
           l15 == lost[15]
<1>12. /\ R(14) >= 0 /\ X(14) + 65536 * R(14) - 65536 * frac <= l14
       /\ R(15) >= 0 /\ X(15) + 65536 * R(15) - 65536 * frac <= l15
       /\ 65536 * frac - X(15) <= 2 * t
  BY <1>9, <1>11
<1>13. X(14) \in Int /\ X(15) \in Int /\ R(14) \in Int /\ R(15) \in Int /\ l14 \in Int /\ l15 \in Int
  BY <1>2, <1>9, <1>11
<1> HIDE DEF l14, l15
<1>14. /\ X(15) \in Int /\ 65536 * frac - X(15) <= 2 * t /\ X(15) - 65536 * frac <= l15
       /\ X(15) - 65536 * frac <= l14 \/ X(15) - 65536 * frac <= l15 - 65536
  BY <1>10, <1>12, <1>13, SMT
<1> QED
  BY <1>1, <1>14 DEF X, l14, l15

LEMMA SDMNear ==
  ASSUME NEW t \in Nat, TwoXtalKHz(t), NEW frac \in Nat, frac <= t
  PROVE  CloseTo(t * SDM(frac, t), frac)
<1> DEFINE lost == [k \in 0..15 |-> Lost(k)]
           p == t * SDM(frac, t)
<1>1. Loses(t, lost)
  <2>1. Lost(0) = 0 /\ Lost(0) \in Int
    BY SMT DEF Lost
  <2>2. \A k \in 1..15 : /\ Lost(k) \in Int /\ k \in 0..15 /\ k - 1 \in 0..15
                         /\ lost[k] = Lost(k) /\ lost[k - 1] = Lost(k - 1)
    BY LostAtBit
  <2>3. lost \in [0..15 -> Int]
    <3>1. \A k \in 0..15 : k = 0 \/ k \in 1..15
      OBVIOUS
    <3>2. \A k \in 0..15 : Lost(k) \in Int
      BY <2>1, <2>2, <3>1
    <3> QED  BY <3>2
  <2>4. lost[0] = 0
    BY <2>1
  <2> HIDE DEF lost
  <2> QED  BY <2>2, <2>3, <2>4, LostAtBit DEF Loses
<1>2. Lost(14) = 570652 /\ Lost(15) = 620430
  BY SMT DEF Lost, LostBounds
<1>3. lost[14] = Lost(14) /\ lost[15] = Lost(15)
  BY SMT
<1> HIDE DEF lost
<1>4. /\ p \in Int /\ 65536 * frac - p <= 2 * t /\ p - 65536 * frac <= lost[15]
      /\ p - 65536 * frac <= lost[14] \/ p - 65536 * frac <= lost[15] - 65536
  BY <1>1, SDMWithin
<1> HIDE DEF p
<1>5. p - 65536 * frac < 589824 /\ 65536 * frac - p <= 131072
  BY <1>2, <1>3, <1>4, SMT DEF TwoXtalKHz
<1> QED
  BY <1>5 DEF CloseTo, p

\* With the crystal as it is, half of what is taken off is exact.
ReferenceLosses ==
  <<0, 0, 0, 0, 0, 0, 0, 0, 32768, 49152, 57344, 61440, 63488, 97280, 146944>>

LEMMA ReferenceLoses ==
  \E lost : Loses(57600, lost) /\ lost[15] = 146944
<1> DEFINE L(k) == IF k = 0 THEN 0 ELSE ReferenceLosses[k]
           lost == [k \in 0..15 |-> L(k)]
           t == 57600
<1>1. L(0) = 0 /\ L(15) = 146944
  BY SMT DEF ReferenceLosses
<1>2. ASSUME NEW k \in 1..15
      PROVE  /\ 0 <= Bit(k) * t - 65536 * (t \div Divisor(k))
             /\ Bit(k) * t - 65536 * (t \div Divisor(k)) <= L(k) - L(k - 1)
             /\ 65536 <= Bit(k) * t /\ L(k) \in Int /\ t \div Divisor(k) \in Nat
  <2> USE DEF Bit, Divisor, ReferenceLosses
  <2>1. CASE k = 1
    BY <2>1, SMT
  <2>2. CASE k = 2
    BY <2>2, SMT
  <2>3. CASE k = 3
    BY <2>3, SMT
  <2>4. CASE k = 4
    BY <2>4, SMT
  <2>5. CASE k = 5
    BY <2>5, SMT
  <2>6. CASE k = 6
    BY <2>6, SMT
  <2>7. CASE k = 7
    BY <2>7, SMT
  <2>8. CASE k = 8
    BY <2>8, SMT
  <2>9. CASE k = 9
    BY <2>9, SMT
  <2>10. CASE k = 10
    BY <2>10, SMT
  <2>11. CASE k = 11
    BY <2>11, SMT
  <2>12. CASE k = 12
    BY <2>12, SMT
  <2>13. CASE k = 13
    BY <2>13, SMT
  <2>14. CASE k = 14
    BY <2>14, SMT
  <2>15. CASE k = 15
    BY <2>15, SMT
  <2> HIDE DEF Bit, Divisor, L
  <2> DEFINE Goal ==
        /\ 0 <= Bit(k) * t - 65536 * (t \div Divisor(k))
        /\ Bit(k) * t - 65536 * (t \div Divisor(k)) <= L(k) - L(k - 1)
        /\ 65536 <= Bit(k) * t /\ L(k) \in Int /\ t \div Divisor(k) \in Nat
  <2>16. Goal
    <3> SUFFICES ASSUME ~Goal PROVE FALSE
      OBVIOUS
    <3> QED
      BY <2>1, <2>2, <2>3, <2>4, <2>5, <2>6, <2>7, <2>8, <2>9, <2>10, <2>11, <2>12, <2>13, <2>14, <2>15, SMT
  <2> QED
    BY <2>16, SMT
<1> HIDE DEF L
<1>3. lost \in [0..15 -> Int]
  <2>1. \A k \in 0..15 : k = 0 \/ k \in 1..15
    OBVIOUS
  <2>2. \A k \in 0..15 : L(k) \in Int
    BY <1>1, <1>2, <2>1
  <2> QED  BY <2>2
<1>4. \A k \in 1..15 : k \in 0..15 /\ k - 1 \in 0..15 /\ lost[k] = L(k) /\ lost[k - 1] = L(k - 1)
  OBVIOUS
<1>5. lost[0] = 0 /\ lost[15] = 146944
  BY <1>1
<1> HIDE DEF lost, t
<1>6. Loses(t, lost)
  BY <1>2, <1>3, <1>4, <1>5 DEF Loses
<1> QED
  BY <1>5, <1>6 DEF t

LEMMA PartNear ==
  ASSUME NEW t \in Nat, TwoXtalKHz(t), NEW frac \in Nat, frac <= t
  PROVE  LET part == Fraction(SDM(frac, t), t)
         IN part \in Int /\ part <= frac + 8 /\ frac - 2 <= part
<1> DEFINE word == SDM(frac, t)
           part == Fraction(word, t)
           tw == t * word
<1>1. word \in Nat /\ t \in Int
  <2>1. SDM(frac, t) \in Nat /\ SDM(frac, t) < 2^16
    BY SDMFits
  <2> QED  BY <2>1
<1>2. CloseTo(tw, frac)
  BY SDMNear
<1> HIDE DEF word
<1>3. part \in Int /\ Rounds(part, t * word)
  BY <1>1, FractionOf
<1>4. tw \in Int
  BY <1>1
<1>5. 65536 * part <= tw /\ tw < 65536 * part + 65536
  BY <1>3 DEF Rounds
<1> HIDE DEF part, tw
<1>6. part \in Int /\ part <= frac + 8 /\ frac - 2 <= part
  BY <1>2, <1>3, <1>4, <1>5, SMT DEF CloseTo
<1> QED
  BY <1>6 DEF part, word

----------------------------------------------------------------------------
(* The octave.                                                             *)

\* The six dividers, a = 2^k, with their halves b.
Divides(k, a, b) ==
  \/ k = 1 /\ a = 2 /\ b = 1
  \/ k = 2 /\ a = 4 /\ b = 2
  \/ k = 3 /\ a = 8 /\ b = 4
  \/ k = 4 /\ a = 16 /\ b = 8
  \/ k = 5 /\ a = 32 /\ b = 16
  \/ k = 6 /\ a = 64 /\ b = 32

LEMMA PowersAre ==
  ASSUME NEW k \in 1..6
  PROVE  Divides(k, 2^k, 2^(k - 1))
<1> USE DEF Divides
<1>1. CASE k = 1
  BY <1>1, SMT
<1>2. CASE k = 2
  BY <1>2, SMT
<1>3. CASE k = 3
  BY <1>3, SMT
<1>4. CASE k = 4
  BY <1>4, SMT
<1>5. CASE k = 5
  BY <1>5, SMT
<1>6. CASE k = 6
  BY <1>6, SMT
<1> QED
  BY <1>1, <1>2, <1>3, <1>4, <1>5, <1>6, SMT

InVCO(h) == 1770000000 <= h /\ h < 3540000000

LEMMA InOctave ==
  ASSUME NEW lo \in Int, NEW k \in MixDivs(lo)
  PROVE  InVCO(lo * 2^k)
<1> DEFINE a == 2^k
           b == 2^(k - 1)
<1>1. k \in 1..6 /\ lo > (VCOMin - 1) \div a /\ lo <= (VCOMin - 1) \div b
  <2>1. k \in 1..6
    BY Zenon DEF MixDivs
  <2>2. lo > (VCOMin - 1) \div a
    BY Zenon DEF MixDivs
  <2>3. lo <= (VCOMin - 1) \div b
    BY Zenon DEF MixDivs
  <2> QED  BY <2>1, <2>2, <2>3
<1>2. Divides(k, a, b)
  BY <1>1, PowersAre
<1> HIDE DEF a, b
<1>3. InVCO(lo * a)
  BY <1>1, <1>2, SMT DEF Divides, InVCO, VCOMin
<1> QED
  BY <1>3 DEF a

\* n doubled k times is n * 2^k.
LEMMA DoublesTo ==
  ASSUME NEW n \in Int, NEW k \in 1..6
  PROVE  \E y : y[0] = n /\ (\A i \in 1..k : y[i] = 2 * y[i - 1]) /\ y[k] = n * 2^k
<1>1. PICK y : y \in [0..k -> Int] /\ y[0] = n /\ \A i \in 1..k : y[i] = 2 * y[i - 1]
  <2>1. k \in Nat
    OBVIOUS
  <2> QED  BY <2>1, Doubles
<1>2. y[k] = n * 2^k
  <2>1. y[1] = 2 * n
    BY <1>1
  <2>2. k >= 2 => y[2] = 4 * n
    BY <1>1, <2>1
  <2>3. k >= 3 => y[3] = 8 * n
    BY <1>1, <2>2
  <2>4. k >= 4 => y[4] = 16 * n
    BY <1>1, <2>3
  <2>5. k >= 5 => y[5] = 32 * n
    BY <1>1, <2>4
  <2>6. k >= 6 => y[6] = 64 * n
    BY <1>1, <2>5
  <2> DEFINE z == y[k]
             a == 2^k
             b == 2^(k - 1)
  <2>7. \/ a = 2 /\ z = 2 * n
        \/ a = 4 /\ z = 4 * n
        \/ a = 8 /\ z = 8 * n
        \/ a = 16 /\ z = 16 * n
        \/ a = 32 /\ z = 32 * n
        \/ a = 64 /\ z = 64 * n
    <3>1. /\ k = 1 => z = 2 * n
          /\ k = 2 => z = 4 * n
          /\ k = 3 => z = 8 * n
          /\ k = 4 => z = 16 * n
          /\ k = 5 => z = 32 * n
          /\ k = 6 => z = 64 * n
      BY <2>1, <2>2, <2>3, <2>4, <2>5, <2>6
    <3>2. Divides(k, a, b)
      BY PowersAre
    <3> HIDE DEF a, b, z
    <3> QED  BY <3>1, <3>2, SMT DEF Divides
  <2> HIDE DEF a, z
  <2>8. z = n * a
    BY <2>7, SMT
  <2> QED  BY <2>8 DEF a, z
<1> QED
  BY <1>1, <1>2
=============================================================================
