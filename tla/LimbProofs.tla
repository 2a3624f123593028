------------------------------ MODULE LimbProofs -----------------------------
(***************************************************************************)
(* Arrays of limbs of any length, with limbs of any number of bits: what   *)
(* the kernels of Limbs compute of the numbers that the arrays stand for,  *)
(* carry by carry, row by row and column by column, and what their signs   *)
(* add to it.                                                              *)
(***************************************************************************)
EXTENDS Numbers, Powers

-----------------------------------------------------------------------------
(* Words and weights                                                       *)

\* The base is at least 4, and words are natural numbers.
LEMMA BaseIs == Base \in Nat /\ Base >= 4 /\ Word \subseteq Nat
<1>1. LimbBits \in Nat /\ LimbBits >= 2
  BY LimbBitsAssumption
<1>2. 2^2 = 4
  <2>1. 0 + 1 = 1 /\ 1 + 1 = 2
    OBVIOUS
  <2>2. 2^(0 + 1) = 2 * 2^0 /\ 2^(1 + 1) = 2 * 2^1
    BY Pow2Succ
  <2> QED BY <2>1, <2>2, Pow2Zero
<1>3. 2^2 <= 2^LimbBits /\ 2^LimbBits \in Nat
  BY <1>1, Pow2Monotone, Pow2Nat
<1> QED BY <1>2, <1>3 DEF Base, Word

\* Weights are positive.
LEMMA WeightIs ==
  ASSUME NEW i \in Nat
  PROVE  Weight(i) \in Nat /\ Weight(i) >= 1
<1>1. LimbBits * i \in Nat
  BY LimbBitsAssumption
<1> QED BY <1>1, Pow2Positive DEF Weight

\* The weight of limb i + j.
LEMMA WeightAdd ==
  ASSUME NEW i \in Nat, NEW j \in Nat
  PROVE  Weight(i + j) = Weight(i) * Weight(j)
<1>1. LimbBits * i \in Nat /\ LimbBits * j \in Nat /\ LimbBits * (i + j) = LimbBits * i + LimbBits * j
  BY LimbBitsAssumption
<1> QED BY <1>1, Pow2Add DEF Weight

\* The first two weights.
LEMMA WeightFirst == Weight(0) = 1 /\ Weight(1) = Base
<1>1. LimbBits * 0 = 0 /\ LimbBits * 1 = LimbBits
  BY LimbBitsAssumption
<1> QED BY <1>1, Pow2Zero DEF Weight, Base

\* Each weight is Base times the one before.
LEMMA WeightNext ==
  ASSUME NEW i \in Nat
  PROVE  Weight(i + 1) = Base * Weight(i) /\ Weight(i) \in Nat /\ Weight(i) >= 1
<1>1. Weight(i + 1) = Weight(i) * Weight(1)
  BY WeightAdd
<1> QED BY <1>1, WeightFirst, WeightIs, BaseIs

\* A word is a number below Base.
LEMMA WordIs ==
  ASSUME NEW x \in Word
  PROVE  x \in Nat /\ x \in Int /\ x < Base
<1>1. x \in 0 .. Base - 1 /\ Base \in Nat
  BY BaseIs DEF Word
<1> QED BY <1>1

\* Words are natural numbers below Base.
LEMMA WordsAre ==
  ASSUME NEW S, NEW a \in [S -> Word]
  PROVE  a \in [S -> Int] /\ a \in [S -> Nat] /\ \A i \in S : a[i] \in Nat /\ a[i] < Base /\ a[i] \in Word
<1>1. \A x \in Word : x \in Nat /\ x \in Int /\ x < Base
  BY BaseIs DEF Word
<1>2. \A i \in S : a[i] \in Word
  OBVIOUS
<1> QED BY <1>1, <1>2, Zenon

\* A function on 0 .. n - 1 has n limbs.
LEMMA WidthIs ==
  ASSUME NEW n \in Nat, NEW a, DOMAIN a = 0 .. n - 1
  PROVE  Width(a) = n
<1>1. IsFiniteSet(0 .. n - 1) /\ Cardinality(0 .. n - 1) = n
  BY FS_Interval
<1> QED BY <1>1 DEF Width

-----------------------------------------------------------------------------
(* Sums and values                                                         *)

\* The sums of the first i terms, term by term.
LEMMA SumsIs ==
  ASSUME NEW n \in Nat, NEW f, \A i \in 0 .. n - 1 : f[i] \in Int
  PROVE  /\ Sums(f, n) \in [0 .. n -> Int]
         /\ Sums(f, n)[0] = 0
         /\ \A i \in 0 .. n - 1 : Sums(f, n)[i + 1] = Sums(f, n)[i] + f[i]
<1> DEFINE G == [p \in Int \X Nat |-> IF p[2] \in 1 .. n THEN p[1] + f[p[2] - 1] ELSE 0]
           P(h) == h = [i \in 0 .. n |-> IF i = 0 THEN 0 ELSE h[i - 1] + f[i - 1]]
<1>1. G \in [Int \X Nat -> Int]
  OBVIOUS
<1>2. PICK g \in [0 .. n -> Int] : Up(g, n, 0, G)
  <2> HIDE DEF G
  <2> 0 \in Int
    OBVIOUS
  <2> QED BY <1>1, Recursion, Zenon
<1>3. ASSUME NEW i \in 1 .. n, NEW x \in Int PROVE G[<<x, i>>] = x + f[i - 1]
  <2> <<x, i>> \in Int \X Nat /\ <<x, i>>[1] = x /\ <<x, i>>[2] = i
    OBVIOUS
  <2> QED OBVIOUS
<1> HIDE DEF G
<1>4. \A i \in 1 .. n : g[i] = g[i - 1] + f[i - 1]
  <2> TAKE i \in 1 .. n
  <2>1. i - 1 \in 0 .. n /\ g[i - 1] \in Int
    OBVIOUS
  <2> QED BY <2>1, <1>2, <1>3 DEF Up
<1>5. P(g)
  BY <1>2, <1>4 DEF Up
<1>6. Sums(f, n) = CHOOSE h : P(h)
  BY DEF Sums
<1> DEFINE h == Sums(f, n)
<1>7. P(h)
  <2> HIDE DEF P
  <2> QED BY <1>5, <1>6
<1> HIDE DEF h
<1>8. h = [i \in 0 .. n |-> h[i]] /\ h[0] = 0
  BY <1>7
<1>9. ASSUME NEW i \in 1 .. n, h[i - 1] \in Int PROVE h[i] = G[<<h[i - 1], i>>]
  <2>1. i \in 0 .. n /\ i # 0
    OBVIOUS
  <2>2. h[i] = h[i - 1] + f[i - 1]
    BY <1>7, <2>1
  <2> QED BY <1>3, <1>9, <2>2
<1>10. UpWithin(h, n, 0, Int, G)
  BY <1>8, <1>9 DEF UpWithin
<1>12. h = g
  <2> 0 \in Int
    OBVIOUS
  <2> QED BY <1>1, <1>2, <1>10, UpUnique, Zenon
<1>11. \A i \in 0 .. n - 1 : i + 1 \in 1 .. n /\ (i + 1) - 1 = i
  OBVIOUS
<1> QED BY <1>2, <1>4, <1>11, <1>12 DEF h, Up

\* Two functions that agree below k have the same sum there.
LEMMA SumsAgree ==
  ASSUME NEW n \in Nat, NEW m \in Nat, NEW k \in Nat, k <= n, k <= m,
         NEW f, \A i \in 0 .. n - 1 : f[i] \in Int,
         NEW g, \A i \in 0 .. m - 1 : g[i] \in Int,
         \A i \in 0 .. k - 1 : f[i] = g[i]
  PROVE  Sums(f, n)[k] = Sums(g, m)[k]
<1> DEFINE T == {j \in Nat : j <= k => Sums(f, n)[j] = Sums(g, m)[j]}
<1>0. /\ Sums(f, n)[0] = 0 /\ \A i \in 0 .. n - 1 : Sums(f, n)[i + 1] = Sums(f, n)[i] + f[i]
      /\ Sums(g, m)[0] = 0 /\ \A i \in 0 .. m - 1 : Sums(g, m)[i + 1] = Sums(g, m)[i] + g[i]
  BY SumsIs
<1>1. 0 \in T
  BY <1>0
<1>2. ASSUME NEW j \in T PROVE j + 1 \in T
  <2>1. SUFFICES ASSUME j + 1 <= k PROVE Sums(f, n)[j + 1] = Sums(g, m)[j + 1]
    OBVIOUS
  <2>2. j \in 0 .. n - 1 /\ j \in 0 .. m - 1 /\ j \in 0 .. k - 1
    BY <2>1
  <2>3. Sums(f, n)[j] = Sums(g, m)[j]
    BY <2>2
  <2> QED BY <1>0, <2>2, <2>3
<1>3. T = Nat
  <2> T \subseteq Nat
    OBVIOUS
  <2> HIDE DEF T
  <2> QED BY <1>1, <1>2, SetInduction
<1> QED BY <1>3

\* Below k, c is x times a and y times b.
Combines(c, x, a, y, b, k) == \A i \in 0 .. k - 1 : c[i] = x * a[i] + y * b[i]

\* So are the sums.
SumsCombined(c, x, a, y, b, k) == Sums(c, k)[k] = x * Sums(a, k)[k] + y * Sums(b, k)[k]

\* The sum of a combination is the combination of the sums.
LEMMA SumsLinear ==
  ASSUME NEW n \in Nat, NEW f, NEW g, NEW h, NEW x \in Int, NEW y \in Int,
         \A i \in 0 .. n - 1 : f[i] \in Int, \A i \in 0 .. n - 1 : g[i] \in Int,
         \A i \in 0 .. n - 1 : h[i] \in Int, Combines(h, x, f, y, g, n)
  PROVE  SumsCombined(h, x, f, y, g, n)
<1>a. \A i \in 0 .. n - 1 : f[i] \in Int /\ g[i] \in Int /\ h[i] \in Int
  OBVIOUS
<1> DEFINE T == {j \in Nat : j <= n => Sums(h, n)[j] = x * Sums(f, n)[j] + y * Sums(g, n)[j]}
<1>0. /\ Sums(f, n) \in [0 .. n -> Int] /\ Sums(f, n)[0] = 0
      /\ \A i \in 0 .. n - 1 : Sums(f, n)[i + 1] = Sums(f, n)[i] + f[i]
  BY SumsIs
<1>1. /\ Sums(g, n) \in [0 .. n -> Int] /\ Sums(g, n)[0] = 0
      /\ \A i \in 0 .. n - 1 : Sums(g, n)[i + 1] = Sums(g, n)[i] + g[i]
  BY SumsIs
<1>2. /\ Sums(h, n) \in [0 .. n -> Int] /\ Sums(h, n)[0] = 0
      /\ \A i \in 0 .. n - 1 : Sums(h, n)[i + 1] = Sums(h, n)[i] + h[i]
  <2> \A i \in 0 .. n - 1 : h[i] \in Int
    OBVIOUS
  <2> QED BY SumsIs
<1>3. 0 \in T
  BY <1>0, <1>1, <1>2
<1>4. ASSUME NEW j \in T PROVE j + 1 \in T
  <2>1. SUFFICES ASSUME j + 1 <= n PROVE Sums(h, n)[j + 1] = x * Sums(f, n)[j + 1] + y * Sums(g, n)[j + 1]
    OBVIOUS
  <2>2. j \in 0 .. n - 1 /\ j \in 0 .. n
    BY <2>1
  <2>3. Sums(h, n)[j] = x * Sums(f, n)[j] + y * Sums(g, n)[j]
    BY <2>2
  <2>4. \A u, v, p, q \in Int : (x * u + y * v) + (x * p + y * q) = x * (u + p) + y * (v + q)
    OBVIOUS
  <2>5. Sums(f, n)[j] \in Int /\ Sums(g, n)[j] \in Int /\ f[j] \in Int /\ g[j] \in Int
    BY <1>0, <1>1, <2>2
  <2>h. h[j] = x * f[j] + y * g[j]
    BY <2>2 DEF Combines
  <2>6. Sums(h, n)[j + 1] = (x * Sums(f, n)[j] + y * Sums(g, n)[j]) + (x * f[j] + y * g[j])
    BY <1>2, <2>2, <2>3, <2>h
  <2>7. Sums(h, n)[j + 1] = x * (Sums(f, n)[j] + f[j]) + y * (Sums(g, n)[j] + g[j])
    BY <2>4, <2>5, <2>6
  <2> QED BY <1>0, <1>1, <2>2, <2>7
<1>5. T = Nat
  <2> T \subseteq Nat
    OBVIOUS
  <2> HIDE DEF T
  <2> QED BY <1>3, <1>4, SetInduction
<1>6. n \in T
  <2> HIDE DEF T
  <2> QED BY <1>5
<1>7. Sums(h, n)[n] = x * Sums(f, n)[n] + y * Sums(g, n)[n]
  BY <1>6
<1> QED BY <1>7 DEF SumsCombined

\* The values of the limbs below i, limb by limb.
LEMMA BelowIs ==
  ASSUME NEW n \in Nat, NEW a \in [0 .. n - 1 -> Int]
  PROVE  /\ Width(a) = n /\ Value(a) = Below(a)[n] /\ Value(a) \in Int
         /\ Below(a) \in [0 .. n -> Int] /\ Below(a)[0] = 0
         /\ \A i \in 0 .. n - 1 : Below(a)[i + 1] = Below(a)[i] + a[i] * Weight(i)
<1> DEFINE f == [i \in DOMAIN a |-> a[i] * Weight(i)]
<1>1. Width(a) = n /\ DOMAIN a = 0 .. n - 1
  BY WidthIs
<1>2. \A i \in 0 .. n - 1 : f[i] = a[i] * Weight(i) /\ f[i] \in Int
  <2> TAKE i \in 0 .. n - 1
  <2> a[i] \in Int /\ Weight(i) \in Int
    BY WeightIs
  <2> QED BY <1>1
<1>3. Below(a) = Sums(f, n)
  BY <1>1 DEF Below
<1> HIDE DEF f
<1>4. /\ Sums(f, n) \in [0 .. n -> Int] /\ Sums(f, n)[0] = 0
      /\ \A i \in 0 .. n - 1 : Sums(f, n)[i + 1] = Sums(f, n)[i] + f[i]
  BY <1>2, SumsIs
<1> QED BY <1>1, <1>2, <1>3, <1>4 DEF Value

\* From k to m - 1.
Agree(a, b, k, m) == \A i \in k .. m - 1 : a[i] = b[i]

\* a, of n columns, and b, of m, agree below k.
AgreeBelow(a, n, b, m, k) ==
    /\ a \in [0 .. n - 1 -> Int] /\ b \in [0 .. m - 1 -> Int] /\ k <= n /\ k <= m
    /\ Agree(a, b, 0, k)

\* Arrays that agree below k have the same value there.
LEMMA BelowAgree ==
  ASSUME NEW n \in Nat, NEW m \in Nat, NEW k \in Nat, NEW a, NEW b, AgreeBelow(a, n, b, m, k)
  PROVE  Below(a)[k] = Below(b)[k]
<1>a. /\ a \in [0 .. n - 1 -> Int] /\ b \in [0 .. m - 1 -> Int] /\ k <= n /\ k <= m
      /\ Agree(a, b, 0, k)
  BY DEF AgreeBelow
<1> DEFINE T == {j \in Nat : j <= k => Below(a)[j] = Below(b)[j]}
<1>0. /\ Below(a)[0] = 0 /\ \A i \in 0 .. n - 1 : Below(a)[i + 1] = Below(a)[i] + a[i] * Weight(i)
      /\ Below(b)[0] = 0 /\ \A i \in 0 .. m - 1 : Below(b)[i + 1] = Below(b)[i] + b[i] * Weight(i)
  BY <1>a, BelowIs
<1>1. 0 \in T
  BY <1>0
<1>2. ASSUME NEW j \in T PROVE j + 1 \in T
  <2>1. SUFFICES ASSUME j + 1 <= k PROVE Below(a)[j + 1] = Below(b)[j + 1]
    OBVIOUS
  <2>2. j \in 0 .. n - 1 /\ j \in 0 .. m - 1 /\ j \in 0 .. k - 1
    BY <1>a, <2>1
  <2>3. Below(a)[j] = Below(b)[j]
    BY <2>2
  <2> QED BY <1>0, <1>a, <2>2, <2>3 DEF Agree
<1>3. T = Nat
  <2> T \subseteq Nat
    OBVIOUS
  <2> HIDE DEF T
  <2> QED BY <1>1, <1>2, SetInduction
<1> QED BY <1>3

\* So are the values below k.
Combined(c, x, a, y, b, k) == Below(c)[k] = x * Below(a)[k] + y * Below(b)[k]

\* The value of a combination is the combination of the values.
LEMMA BelowLinear ==
  ASSUME NEW n \in Nat, NEW a \in [0 .. n - 1 -> Int], NEW b \in [0 .. n - 1 -> Int],
         NEW c \in [0 .. n - 1 -> Int], NEW x \in Int, NEW y \in Int,
         NEW k \in 0 .. n, Combines(c, x, a, y, b, k)
  PROVE  Combined(c, x, a, y, b, k)
<1> DEFINE T == {j \in Nat : j <= k => Below(c)[j] = x * Below(a)[j] + y * Below(b)[j]}
<1>0. /\ Below(a) \in [0 .. n -> Int] /\ Below(a)[0] = 0
      /\ \A i \in 0 .. n - 1 : Below(a)[i + 1] = Below(a)[i] + a[i] * Weight(i)
  BY BelowIs
<1>1. /\ Below(b) \in [0 .. n -> Int] /\ Below(b)[0] = 0
      /\ \A i \in 0 .. n - 1 : Below(b)[i + 1] = Below(b)[i] + b[i] * Weight(i)
  BY BelowIs
<1>2. /\ Below(c) \in [0 .. n -> Int] /\ Below(c)[0] = 0
      /\ \A i \in 0 .. n - 1 : Below(c)[i + 1] = Below(c)[i] + c[i] * Weight(i)
  BY BelowIs
<1>3. 0 \in T
  BY <1>0, <1>1, <1>2
<1>4. ASSUME NEW j \in T PROVE j + 1 \in T
  <2>1. SUFFICES ASSUME j + 1 <= k PROVE Below(c)[j + 1] = x * Below(a)[j + 1] + y * Below(b)[j + 1]
    OBVIOUS
  <2>2. j \in 0 .. n - 1 /\ j \in 0 .. n /\ j \in Nat /\ j \in 0 .. k - 1
    BY <2>1
  <2>3. Below(c)[j] = x * Below(a)[j] + y * Below(b)[j] /\ c[j] = x * a[j] + y * b[j]
    BY <2>2 DEF Combines
  <2>4. \A u, v, p, q, w \in Int : (x * u + y * v) + (x * p + y * q) * w = x * (u + p * w) + y * (v + q * w)
    <3> TAKE u, v, p, q, w \in Int
    <3>1. (x * p + y * q) * w = x * (p * w) + y * (q * w)
      OBVIOUS
    <3>2. x * (u + p * w) = x * u + x * (p * w) /\ y * (v + q * w) = y * v + y * (q * w)
      OBVIOUS
    <3> QED BY <3>1, <3>2
  <2>5. Below(a)[j] \in Int /\ Below(b)[j] \in Int /\ a[j] \in Int /\ b[j] \in Int /\ Weight(j) \in Int
    BY <1>0, <1>1, <2>2, WeightIs
  <2>6. Below(c)[j + 1] = (x * Below(a)[j] + y * Below(b)[j]) + (x * a[j] + y * b[j]) * Weight(j)
    BY <1>2, <2>2, <2>3
  <2>7. Below(c)[j + 1] = x * (Below(a)[j] + a[j] * Weight(j)) + y * (Below(b)[j] + b[j] * Weight(j))
    <3> DEFINE u == Below(a)[j]
               v == Below(b)[j]
               p == a[j]
               q == b[j]
               w == Weight(j)
    <3>1. u \in Int /\ v \in Int /\ p \in Int /\ q \in Int /\ w \in Int
      BY <2>5
    <3>2. Below(c)[j + 1] = (x * u + y * v) + (x * p + y * q) * w
      BY <2>6
    <3> HIDE DEF u, v, p, q, w
    <3>3. Below(c)[j + 1] = x * (u + p * w) + y * (v + q * w)
      BY <2>4, <3>1, <3>2
    <3> QED BY <3>3 DEF u, v, p, q, w
  <2> QED BY <1>0, <1>1, <2>2, <2>7
<1>5. T = Nat
  <2> T \subseteq Nat
    OBVIOUS
  <2> HIDE DEF T
  <2> QED BY <1>3, <1>4, SetInduction
<1>6. k \in T
  <2> k \in Nat
    OBVIOUS
  <2> HIDE DEF T
  <2> QED BY <1>5
<1> QED BY <1>6 DEF Combined

\* The limbs below i are a number below the weight of limb i.
LEMMA BelowBound ==
  ASSUME NEW n \in Nat, NEW a \in [0 .. n - 1 -> Word]
  PROVE  \A k \in 0 .. n : Below(a)[k] \in 0 .. Weight(k) - 1
<1> DEFINE T == {j \in Nat : j <= n => Below(a)[j] \in 0 .. Weight(j) - 1}
<1>0. /\ a \in [0 .. n - 1 -> Int] /\ Below(a)[0] = 0
      /\ \A i \in 0 .. n - 1 : Below(a)[i + 1] = Below(a)[i] + a[i] * Weight(i)
  <2>1. a \in [0 .. n - 1 -> Int]
    BY WordsAre
  <2> QED BY <2>1, BelowIs
<1>1. 0 \in T
  BY <1>0, WeightFirst
<1>2. ASSUME NEW j \in T PROVE j + 1 \in T
  <2>1. SUFFICES ASSUME j + 1 <= n PROVE Below(a)[j + 1] \in 0 .. Weight(j + 1) - 1
    OBVIOUS
  <2>2. j \in 0 .. n - 1 /\ j \in Nat
    BY <2>1
  <2> DEFINE u == Below(a)[j]
             x == a[j]
             w == Weight(j)
             B == Base
  <2>3. u \in 0 .. w - 1 /\ x \in 0 .. B - 1 /\ w \in Nat /\ B \in Nat /\ w >= 1 /\ B >= 4
    BY <2>2, BaseIs, WeightIs DEF Word
  <2>4. Below(a)[j + 1] = u + x * w /\ Weight(j + 1) = B * w
    BY <1>0, <2>2, WeightNext
  <2> HIDE DEF u, x, w, B
  <2>5. x * w \in Nat /\ x * w <= (B - 1) * w /\ (B - 1) * w = B * w - w
    BY <2>3
  <2> QED BY <2>3, <2>4, <2>5
<1>3. T = Nat
  <2> T \subseteq Nat
    OBVIOUS
  <2> HIDE DEF T
  <2> QED BY <1>1, <1>2, SetInduction
<1>4. ASSUME NEW k \in 0 .. n PROVE Below(a)[k] \in 0 .. Weight(k) - 1
  <2> k \in T
    BY <1>3
  <2> QED OBVIOUS
<1> QED BY <1>4

\* The values of the limbs below i of an array of words.
LEMMA BelowWords ==
  ASSUME NEW n \in Nat, NEW a \in [0 .. n - 1 -> Word]
  PROVE  /\ Width(a) = n /\ Value(a) = Below(a)[n] /\ Value(a) \in Nat /\ Value(a) < Weight(n)
         /\ a \in [0 .. n - 1 -> Int] /\ Below(a) \in [0 .. n -> Nat] /\ Below(a)[0] = 0
         /\ \A i \in 0 .. n - 1 : Below(a)[i + 1] = Below(a)[i] + a[i] * Weight(i)
         /\ \A k \in 0 .. n : Below(a)[k] \in Nat /\ Below(a)[k] < Weight(k)
<1>1. a \in [0 .. n - 1 -> Int]
  BY WordsAre
<1>2. /\ Width(a) = n /\ Value(a) = Below(a)[n]
      /\ Below(a) \in [0 .. n -> Int] /\ Below(a)[0] = 0
      /\ \A i \in 0 .. n - 1 : Below(a)[i + 1] = Below(a)[i] + a[i] * Weight(i)
  BY <1>1, BelowIs
<1>3. ASSUME NEW k \in 0 .. n PROVE Below(a)[k] \in Nat /\ Below(a)[k] < Weight(k)
  <2>1. Below(a)[k] \in 0 .. Weight(k) - 1
    BY BelowBound
  <2>2. Weight(k) \in Nat
    BY WeightIs
  <2> QED BY <2>1, <2>2
<1>4. n \in 0 .. n
  OBVIOUS
<1>5. Below(a) \in [0 .. n -> Nat]
  BY <1>2, <1>3
<1> QED BY <1>1, <1>2, <1>3, <1>4, <1>5

\* What the limbs are worth from k on is a multiple of the weight of limb k.
LEMMA AboveIs ==
  ASSUME NEW n \in Nat, NEW a \in [0 .. n - 1 -> Word], NEW k \in 0 .. n
  PROVE  \E t \in Nat : Value(a) = Below(a)[k] + t * Weight(k)
<1> DEFINE T == {j \in Nat : k + j <= n => \E t \in Nat : Below(a)[k + j] = Below(a)[k] + t * Weight(k)}
<1>0. /\ a \in [0 .. n - 1 -> Int] /\ Below(a) \in [0 .. n -> Int] /\ Value(a) = Below(a)[n]
      /\ \A i \in 0 .. n - 1 : Below(a)[i + 1] = Below(a)[i] + a[i] * Weight(i)
  <2>1. a \in [0 .. n - 1 -> Int]
    BY WordsAre
  <2> QED BY <2>1, BelowIs
<1>w. Weight(k) \in Nat
  BY WeightIs
<1>1. 0 \in T
  <2>1. Below(a)[k] \in Int /\ Below(a)[k] = Below(a)[k] + 0 * Weight(k) /\ k + 0 = k
    BY <1>0, <1>w
  <2>2. \E t \in Nat : Below(a)[k + 0] = Below(a)[k] + t * Weight(k)
    BY <2>1
  <2> QED BY <2>2
<1>2. ASSUME NEW j \in T PROVE j + 1 \in T
  <2>1. SUFFICES ASSUME k + (j + 1) <= n
                 PROVE  \E t \in Nat : Below(a)[k + (j + 1)] = Below(a)[k] + t * Weight(k)
    OBVIOUS
  <2>2. j \in Nat /\ k + j \in 0 .. n - 1 /\ k + (j + 1) = (k + j) + 1
    BY <2>1
  <2>3. PICK t \in Nat : Below(a)[k + j] = Below(a)[k] + t * Weight(k)
    BY <2>2
  <2> DEFINE u == Below(a)[k]
             x == a[k + j]
             w == Weight(k)
             v == Weight(j)
  <2>4. u \in Int /\ x \in Nat /\ w \in Nat /\ v \in Nat
    <3>1. k + j \in 0 .. n - 1 /\ k \in Nat /\ k \in 0 .. n
      BY <2>2
    <3>2. x \in Nat
      BY <3>1, WordsAre
    <3> QED BY <1>0, <2>2, <3>1, <3>2, WeightIs
  <2>5. Below(a)[k + (j + 1)] = (u + t * w) + x * (w * v)
    BY <1>0, <2>2, <2>3, WeightAdd
  <2> HIDE DEF u, x, w, v
  <2>6. (u + t * w) + x * (w * v) = u + (t + x * v) * w /\ t + x * v \in Nat
    <3>1. x * (w * v) = (x * v) * w /\ x * v \in Nat
      BY <2>4
    <3>2. (t + x * v) * w = t * w + (x * v) * w
      BY <2>4, <3>1
    <3> QED BY <2>4, <3>1, <3>2
  <2>7. Below(a)[k + (j + 1)] = u + (t + x * v) * w
    BY <2>5, <2>6
  <2> QED BY <2>6, <2>7 DEF u, w
<1>3. T = Nat
  <2> T \subseteq Nat
    OBVIOUS
  <2> HIDE DEF T
  <2> QED BY <1>1, <1>2, SetInduction
<1>4. n - k \in Nat /\ k + (n - k) = n
  OBVIOUS
<1>5. n - k \in T
  <2> HIDE DEF T
  <2> QED BY <1>3, <1>4
<1>6. \E t \in Nat : Below(a)[k + (n - k)] = Below(a)[k] + t * Weight(k)
  BY <1>4, <1>5
<1> QED BY <1>0, <1>4, <1>6

\* An array of n words is a number below the weight of n limbs.
LEMMA ValueNat ==
  ASSUME NEW n \in Nat, NEW a \in [0 .. n - 1 -> Word]
  PROVE  Value(a) \in Nat /\ Value(a) < Weight(n)
BY BelowWords

\* A limb is a digit of the value.
LEMMA DigitIs ==
  ASSUME NEW n \in Nat, NEW a \in [0 .. n - 1 -> Word], NEW k \in 0 .. n - 1
  PROVE  a[k] = (Value(a) \div Weight(k)) % Base
<1>1. k + 1 \in 0 .. n /\ k \in 0 .. n /\ k \in Nat
  OBVIOUS
<1>2. PICK t \in Nat : Value(a) = Below(a)[k + 1] + t * Weight(k + 1)
  BY <1>1, AboveIs
<1> DEFINE u == Below(a)[k]
           x == a[k]
           w == Weight(k)
           v == Value(a)
           B == Base
<1>3. u \in Nat /\ u < w /\ w \in Nat /\ w > 0
  <2>1. \A j \in 0 .. n : Below(a)[j] \in Nat /\ Below(a)[j] < Weight(j)
    BY BelowWords
  <2>2. Weight(k) \in Nat /\ Weight(k) >= 1
    BY <1>1, WeightIs
  <2> QED BY <1>1, <2>1, <2>2
<1>4. x \in Nat /\ x < B /\ B \in Nat /\ B > 0
  BY WordsAre, BaseIs
<1>5. v = (u + x * w) + t * (B * w)
  <2>1. \A i \in 0 .. n - 1 : Below(a)[i + 1] = Below(a)[i] + a[i] * Weight(i)
    BY BelowWords
  <2>2. Below(a)[k + 1] = u + x * w
    BY <2>1
  <2> QED BY <1>1, <1>2, <2>2, WeightNext
<1> HIDE DEF u, x, w, v, B
<1>6. v = (t * B + x) * w + u /\ t * B + x \in Int
  <2>1. t * B \in Nat /\ t * (B * w) = (t * B) * w
    BY <1>3, <1>4
  <2>2. (t * B + x) * w = (t * B) * w + x * w
    BY <1>3, <1>4, <2>1
  <2> QED BY <1>3, <1>4, <1>5, <2>1, <2>2
<1>7. v \div w = t * B + x
  <2> DEFINE q == t * B + x
  <2>1. v \in Int /\ q \in Int /\ v = q * w + u
    BY <1>3, <1>6
  <2> HIDE DEF q
  <2>2. v \div w = q
    BY <1>3, <2>1, EuclidUnique
  <2> QED BY <2>2 DEF q
<1>8. (t * B + x) % B = x
  BY <1>4, <1>6, EuclidUnique
<1> QED BY <1>7, <1>8 DEF x, w, v, B

\* Arrays of words with the same value are the same.
LEMMA ValueInjective ==
  ASSUME NEW n \in Nat, NEW a \in [0 .. n - 1 -> Word], NEW b \in [0 .. n - 1 -> Word],
         Value(a) = Value(b)
  PROVE  a = b
<1>1. ASSUME NEW k \in 0 .. n - 1 PROVE a[k] = b[k]
  <2>1. a[k] = (Value(a) \div Weight(k)) % Base
    BY DigitIs
  <2>2. b[k] = (Value(b) \div Weight(k)) % Base
    BY DigitIs
  <2> QED BY <2>1, <2>2
<1> QED BY <1>1

\* The value, cut to k limbs.
LEMMA ValueMod ==
  ASSUME NEW n \in Nat, NEW a \in [0 .. n - 1 -> Word], NEW k \in 0 .. n
  PROVE  Value(a) % Weight(k) = Below(a)[k] /\ Value(a) \in 0 .. Weight(n) - 1
<1>1. PICK t \in Nat : Value(a) = Below(a)[k] + t * Weight(k)
  BY AboveIs
<1>2. /\ Below(a)[k] \in Nat /\ Below(a)[k] < Weight(k) /\ Weight(k) \in Nat /\ Weight(k) > 0
  <2>1. \A j \in 0 .. n : Below(a)[j] \in Nat /\ Below(a)[j] < Weight(j)
    BY BelowWords
  <2>2. Weight(k) \in Nat /\ Weight(k) >= 1
    BY WeightIs
  <2> QED BY <2>1, <2>2
<1>3. Value(a) \in Nat /\ Value(a) < Weight(n) /\ Weight(n) \in Nat
  BY BelowWords, WeightIs
<1> DEFINE u == Below(a)[k]
           w == Weight(k)
<1>4. u \in Nat /\ u < w /\ w \in Nat /\ w > 0 /\ Value(a) = u + t * w
  BY <1>1, <1>2
<1> HIDE DEF u, w
<1>5. Value(a) = t * w + u
  BY <1>4
<1>6. Value(a) % w = u
  BY <1>4, <1>5, EuclidUnique
<1> QED BY <1>2, <1>3, <1>6 DEF u, w

\* The array that stands for a number, cut to n limbs.
LEMMA ToLimbsIs ==
  ASSUME NEW n \in Nat, NEW x \in Nat
  PROVE  /\ ToLimbs(x, n) \in [0 .. n - 1 -> Word]
         /\ \A k \in 0 .. n : Below(ToLimbs(x, n))[k] = x % Weight(k)
         /\ Value(ToLimbs(x, n)) = x % Weight(n)
<1> DEFINE a == ToLimbs(x, n)
<1>1. \A i \in 0 .. n - 1 : a[i] = (x \div Weight(i)) % Base /\ a[i] \in Word
  <2> TAKE i \in 0 .. n - 1
  <2>1. Weight(i) \in Nat /\ Weight(i) >= 1 /\ Base \in Nat /\ Base >= 4
    BY WeightIs, BaseIs
  <2>2. \A w, b \in Nat : w >= 1 /\ b >= 4 => (x \div w) % b \in 0 .. b - 1
    OBVIOUS
  <2>3. (x \div Weight(i)) % Base \in Word
    BY <2>1, <2>2 DEF Word
  <2> QED BY <2>3 DEF ToLimbs
<1>2. a \in [0 .. n - 1 -> Word]
  <2>1. a = [i \in 0 .. n - 1 |-> a[i]]
    BY DEF ToLimbs
  <2> HIDE DEF a
  <2> QED BY <1>1, <2>1
<1> HIDE DEF a
<1>3. /\ a \in [0 .. n - 1 -> Int] /\ Below(a)[0] = 0 /\ Value(a) = Below(a)[n]
      /\ \A i \in 0 .. n - 1 : Below(a)[i + 1] = Below(a)[i] + a[i] * Weight(i)
  BY <1>2, BelowWords
<1> DEFINE T == {j \in Nat : j <= n => Below(a)[j] = x % Weight(j)}
<1>4. 0 \in T
  BY <1>3, WeightFirst
<1>5. ASSUME NEW j \in T PROVE j + 1 \in T
  <2>1. SUFFICES ASSUME j + 1 <= n PROVE Below(a)[j + 1] = x % Weight(j + 1)
    OBVIOUS
  <2>2. j \in 0 .. n - 1 /\ j \in Nat /\ Below(a)[j] = x % Weight(j)
    BY <2>1
  <2> DEFINE w == Weight(j)
             B == Base
             q == x \div w
             r == x % w
             d == q % B
             h == q \div B
  <2>3. w \in Nat /\ w >= 1 /\ B \in Nat /\ B >= 4 /\ Weight(j + 1) = B * w
    BY <2>2, BaseIs, WeightNext
  <2> HIDE DEF w, B
  <2>4. x = w * q + r /\ q \in Nat /\ r \in 0 .. w - 1
    BY <2>3, DivRem
  <2> HIDE DEF q, r
  <2>5. q = B * h + d /\ h \in Nat /\ d \in 0 .. B - 1
    BY <2>3, <2>4, DivRem
  <2>6. Below(a)[j + 1] = r + d * w
    BY <1>1, <1>3, <2>2 DEF w, B, q, r
  <2> HIDE DEF d, h
  <2>7. x = h * (B * w) + (r + d * w)
    <3>1. w * (B * h + d) = h * (B * w) + d * w
      <4>1. w * (B * h) = h * (B * w)
        BY <2>3, <2>5
      <4> QED BY <2>3, <2>5, <4>1
    <3> QED BY <2>3, <2>4, <2>5, <3>1
  <2>8. d * w \in Nat /\ d * w <= (B - 1) * w /\ (B - 1) * w = B * w - w /\ B * w \in Nat
    BY <2>3, <2>5
  <2>9. 0 <= r + d * w /\ r + d * w < B * w /\ B * w > 0 /\ r + d * w \in Int
    BY <2>3, <2>4, <2>8
  <2>10. x % (B * w) = r + d * w
    <3> DEFINE p == B * w
               s == r + d * w
    <3>1. x = h * p + s /\ p \in Nat /\ p > 0 /\ s \in Int /\ 0 <= s /\ s < p /\ h \in Int /\ x \in Int
      BY <2>5, <2>7, <2>8, <2>9
    <3> HIDE DEF p, s
    <3>2. x % p = s
      BY <3>1, EuclidUnique
    <3> QED BY <3>2 DEF p, s
  <2> QED BY <2>3, <2>6, <2>10
<1>6. T = Nat
  <2> T \subseteq Nat
    OBVIOUS
  <2> HIDE DEF T
  <2> QED BY <1>4, <1>5, SetInduction
<1>7. ASSUME NEW k \in 0 .. n PROVE Below(a)[k] = x % Weight(k)
  <2> k \in T
    BY <1>6
  <2> QED OBVIOUS
<1> QED BY <1>2, <1>3, <1>7 DEF a

-----------------------------------------------------------------------------
(* Comparison                                                              *)

\* The maximum of a set of naturals with a bound.
LEMMA MaxIs ==
  ASSUME NEW n \in Nat, NEW S, S \subseteq 0 .. n, S # {}
  PROVE  Max(S) \in S /\ \A y \in S : Max(S) >= y
<1> DEFINE Top(R) == \E x \in R : \A y \in R : x >= y
           T == {k \in Nat : \A R \in SUBSET (0 .. k) : R # {} => Top(R)}
<1>1. 0 \in T
  <2>1. ASSUME NEW R \in SUBSET (0 .. 0), R # {} PROVE Top(R)
    <3>1. PICK x \in R : TRUE
      BY <2>1
    <3>2. \A y \in R : y = 0
      OBVIOUS
    <3> QED BY <3>1, <3>2
  <2> QED BY <2>1
<1>2. ASSUME NEW k \in T PROVE k + 1 \in T
  <2>1. ASSUME NEW R \in SUBSET (0 .. k + 1), R # {} PROVE Top(R)
    <3>1. CASE k + 1 \in R
      BY <3>1
    <3>2. CASE k + 1 \notin R
      <4>1. R \in SUBSET (0 .. k)
        BY <3>2
      <4> QED BY <2>1, <4>1
    <3> QED BY <3>1, <3>2
  <2> QED BY <2>1
<1>3. T = Nat
  <2> T \subseteq Nat
    OBVIOUS
  <2> HIDE DEF T
  <2> QED BY <1>1, <1>2, SetInduction
<1>4. Top(S)
  <2> n \in T
    BY <1>3
  <2> QED OBVIOUS
<1> DEFINE P(x) == \A y \in S : x >= y
<1>5. \E x \in S : P(x)
  BY <1>4
<1>6. Max(S) = CHOOSE x \in S : P(x)
  BY DEF Max
<1> HIDE DEF P
<1>7. Max(S) \in S /\ P(Max(S))
  BY <1>5, <1>6
<1> QED BY <1>7 DEF P

\* The minimum of a set of naturals.
LEMMA MinIs ==
  ASSUME NEW S, S \subseteq Nat, S # {}
  PROVE  Min(S) \in S /\ \A y \in S : Min(S) =< y
<1> DEFINE P(x) == \A y \in S : x =< y
           T == {k \in Nat : \A y \in S : y > k}
<1>1. \E x \in S : P(x)
  <2> SUFFICES ASSUME \A x \in S : ~ P(x) PROVE FALSE
    OBVIOUS
  <2>1. 0 \in T
    <3>1. 0 \notin S
      OBVIOUS
    <3> QED BY <3>1
  <2>2. ASSUME NEW k \in T PROVE k + 1 \in T
    <3>1. \A y \in S : y >= k + 1
      OBVIOUS
    <3>2. k + 1 \notin S
      BY <3>1
    <3> QED BY <3>1, <3>2
  <2>3. T = Nat
    <3> T \subseteq Nat
      OBVIOUS
    <3> HIDE DEF T
    <3> QED BY <2>1, <2>2, SetInduction
  <2>4. PICK y \in S : TRUE
    OBVIOUS
  <2>5. y \in T
    BY <2>3
  <2> QED BY <2>4, <2>5
<1>2. Min(S) = CHOOSE x \in S : P(x)
  BY DEF Min
<1> HIDE DEF P
<1>3. Min(S) \in S /\ P(Min(S))
  BY <1>1, <1>2
<1> QED BY <1>3 DEF P

\* Arrays that agree from k on differ by what is below k.
Gap(a, k, m) == Below(a)[m] - Below(a)[k]

\* Arrays that agree from k to m differ there by what is below k.
LEMMA BelowGap ==
  ASSUME NEW n \in Nat, NEW a \in [0 .. n - 1 -> Int], NEW b \in [0 .. n - 1 -> Int],
         NEW k \in 0 .. n, NEW m \in k .. n, Agree(a, b, k, m)
  PROVE  Gap(a, k, m) = Gap(b, k, m)
<1> DEFINE T == {j \in Nat : k + j <= m => Below(a)[k + j] - Below(a)[k] = Below(b)[k + j] - Below(b)[k]}
<1>0. /\ Below(a) \in [0 .. n -> Int]
      /\ \A i \in 0 .. n - 1 : Below(a)[i + 1] = Below(a)[i] + a[i] * Weight(i)
  BY BelowIs
<1>1. /\ Below(b) \in [0 .. n -> Int]
      /\ \A i \in 0 .. n - 1 : Below(b)[i + 1] = Below(b)[i] + b[i] * Weight(i)
  BY BelowIs
<1>2. 0 \in T
  <2>1. k + 0 = k /\ Below(a)[k] \in Int /\ Below(b)[k] \in Int
    BY <1>0, <1>1
  <2> QED BY <2>1
<1>3. ASSUME NEW j \in T PROVE j + 1 \in T
  <2>1. SUFFICES ASSUME k + (j + 1) <= m
                 PROVE  Below(a)[k + (j + 1)] - Below(a)[k] = Below(b)[k + (j + 1)] - Below(b)[k]
    OBVIOUS
  <2>2. j \in Nat /\ k + j \in 0 .. n - 1 /\ k + j \in k .. m - 1 /\ k + (j + 1) = (k + j) + 1 /\ k + j \in 0 .. n
    BY <2>1
  <2>3. Below(a)[k + j] - Below(a)[k] = Below(b)[k + j] - Below(b)[k]
    BY <2>2
  <2> DEFINE x == a[k + j] * Weight(k + j)
             i == k + j
  <2>4. x \in Int
    <3>1. a[i] \in Int /\ Weight(i) \in Int
      BY <2>2, WeightIs
    <3> QED BY <3>1
  <2>5. Below(a)[i + 1] = Below(a)[i] + x /\ Below(b)[i + 1] = Below(b)[i] + x
    BY <1>0, <1>1, <2>2 DEF Agree
  <2>6. Below(a)[i] \in Int /\ Below(b)[i] \in Int /\ Below(a)[k] \in Int /\ Below(b)[k] \in Int
    BY <1>0, <1>1, <2>2
  <2>a. Below(a)[i] - Below(a)[k] = Below(b)[i] - Below(b)[k]
    BY <2>3
  <2> HIDE DEF x, i
  <2>c. (Below(a)[i] + x) - Below(a)[k] = (Below(b)[i] + x) - Below(b)[k]
    <3> DEFINE p == Below(a)[i]
               q == Below(a)[k]
               r == Below(b)[i]
               s == Below(b)[k]
    <3>1. p \in Int /\ q \in Int /\ r \in Int /\ s \in Int /\ p - q = r - s
      BY <2>a, <2>6
    <3> HIDE DEF p, q, r, s
    <3>2. (p + x) - q = (r + x) - s
      BY <3>1, <2>4
    <3> QED BY <3>2 DEF p, q, r, s
  <2>7. Below(a)[i + 1] - Below(a)[k] = Below(b)[i + 1] - Below(b)[k]
    BY <2>5, <2>c
  <2> QED BY <2>2, <2>7 DEF i
<1>4. T = Nat
  <2> T \subseteq Nat
    OBVIOUS
  <2> HIDE DEF T
  <2> QED BY <1>2, <1>3, SetInduction
<1>5. m - k \in Nat /\ k + (m - k) = m
  OBVIOUS
<1>6. m - k \in T
  <2> HIDE DEF T
  <2> QED BY <1>4, <1>5
<1> QED BY <1>5, <1>6 DEF Gap

\* The array of zeros is worth nothing.
LEMMA ZerosAre ==
  ASSUME NEW n \in Nat
  PROVE  /\ Zeros(n) \in [0 .. n - 1 -> Word] /\ \A k \in 0 .. n : Below(Zeros(n))[k] = 0
         /\ Value(Zeros(n)) = 0
<1>1. Zeros(n) \in [0 .. n - 1 -> Word]
  BY BaseIs DEF Zeros, Word
<1> DEFINE a == Zeros(n)
           T == {j \in Nat : j <= n => Below(a)[j] = 0}
<1>2. /\ Below(a)[0] = 0 /\ Value(a) = Below(a)[n]
      /\ \A i \in 0 .. n - 1 : Below(a)[i + 1] = Below(a)[i] + a[i] * Weight(i)
  BY <1>1, BelowWords
<1>3. ASSUME NEW j \in T PROVE j + 1 \in T
  <2>1. SUFFICES ASSUME j + 1 <= n PROVE Below(a)[j + 1] = 0
    OBVIOUS
  <2>2. j \in 0 .. n - 1 /\ j \in Nat /\ Below(a)[j] = 0
    BY <2>1
  <2>3. a[j] = 0 /\ Weight(j) \in Nat
    BY <2>2, WeightIs DEF Zeros
  <2> QED BY <1>2, <2>2, <2>3
<1>4. T = Nat
  <2>1. 0 \in T
    BY <1>2
  <2> T \subseteq Nat
    OBVIOUS
  <2> HIDE DEF T
  <2> QED BY <1>3, <2>1, SetInduction
<1>5. ASSUME NEW k \in 0 .. n PROVE Below(a)[k] = 0
  <2> k \in T
    BY <1>4
  <2> QED OBVIOUS
<1> QED BY <1>1, <1>2, <1>5

\* Zeros from k on are worth nothing; and what is small has zeros from k on.
LEMMA HighZeros ==
  ASSUME NEW n \in Nat, NEW a \in [0 .. n - 1 -> Word], NEW k \in 0 .. n
  PROVE  /\ (\A i \in k .. n - 1 : a[i] = 0) => Value(a) = Below(a)[k]
         /\ Value(a) < Weight(k) => \A i \in k .. n - 1 : a[i] = 0
<1>1. ASSUME \A i \in k .. n - 1 : a[i] = 0 PROVE Value(a) = Below(a)[k]
  <2> DEFINE z == Zeros(n)
  <2>1. a \in [0 .. n - 1 -> Int] /\ Value(a) = Below(a)[n] /\ Below(a) \in [0 .. n -> Nat]
    BY BelowWords
  <2>2. z \in [0 .. n - 1 -> Word] /\ Below(z)[n] = 0 /\ Below(z)[k] = 0
    BY ZerosAre
  <2>3. z \in [0 .. n - 1 -> Int]
    BY <2>2, WordsAre
  <2>4. Agree(a, z, k, n)
    BY <1>1 DEF Zeros, Agree
  <2> HIDE DEF z
  <2>5. n \in k .. n
    OBVIOUS
  <2>6. Below(a)[n] - Below(a)[k] = Below(z)[n] - Below(z)[k]
    BY <2>1, <2>3, <2>4, <2>5, BelowGap DEF Gap
  <2>7. Below(a)[n] \in Nat /\ Below(a)[k] \in Nat
    BY <2>1
  <2> QED BY <2>1, <2>2, <2>6, <2>7
<1>2. ASSUME Value(a) < Weight(k), NEW i \in k .. n - 1 PROVE a[i] = 0
  <2>1. a[i] = (Value(a) \div Weight(i)) % Base
    BY DigitIs
  <2>2. i = k + (i - k) /\ i - k \in Nat /\ k \in Nat
    OBVIOUS
  <2>3. Weight(i) = Weight(k) * Weight(i - k) /\ Weight(k) \in Nat /\ Weight(i - k) \in Nat /\ Weight(i - k) >= 1
    BY <2>2, WeightAdd, WeightIs
  <2>4. \A w, v \in Nat : v >= 1 => w <= w * v
    OBVIOUS
  <2>5. Weight(k) <= Weight(i) /\ Weight(i) \in Nat
    BY <2>3, <2>4
  <2>6. Value(a) \in Nat
    BY BelowWords
  <2>7. Value(a) = 0 * Weight(i) + Value(a) /\ Value(a) < Weight(i) /\ Weight(i) > 0
    BY <1>2, <2>3, <2>5, <2>6
  <2>8. Value(a) \div Weight(i) = 0
    BY <2>5, <2>6, <2>7, EuclidUnique
  <2>9. 0 % Base = 0
    BY BaseIs
  <2> QED BY <2>1, <2>8, <2>9
<1> QED BY <1>1, <1>2

\* An array of words is zero exactly when its value is.
LEMMA IsZero ==
  ASSUME NEW n \in Nat, NEW a \in [0 .. n - 1 -> Word]
  PROVE  mag_is_zero(a) <=> Value(a) = 0
<1>1. ASSUME mag_is_zero(a) PROVE Value(a) = 0
  <2>1. a = Zeros(n)
    BY <1>1 DEF mag_is_zero, Zeros
  <2> QED BY <2>1, ZerosAre
<1>2. ASSUME Value(a) = 0 PROVE mag_is_zero(a)
  <2>1. Zeros(n) \in [0 .. n - 1 -> Word] /\ Value(Zeros(n)) = 0
    BY ZerosAre
  <2>2. a = Zeros(n)
    BY <1>2, <2>1, ValueInjective
  <2> QED BY <2>2 DEF mag_is_zero, Zeros
<1> QED BY <1>1, <1>2

\* The limbs in use.
LEMMA LengthIs ==
  ASSUME NEW n \in Nat, NEW a \in [0 .. n - 1 -> Word], NEW len, len = mag_effective_len(a)
  PROVE  /\ len \in 0 .. n /\ \A i \in len .. n - 1 : a[i] = 0
         /\ len = 0 <=> Value(a) = 0
         /\ len > 0 => a[len - 1] > 0
         /\ Value(a) = Below(a)[len] /\ Value(a) < Weight(len)
         /\ len > 0 => Value(a) >= Weight(len - 1)
<1> DEFINE S == {i \in DOMAIN a : a[i] # 0}
<1>0. S \subseteq 0 .. n - 1 /\ \A i \in 0 .. n - 1 : a[i] \in Nat
  BY WordsAre
<1>1. CASE mag_is_zero(a)
  <2>1. len = 0 /\ \A i \in 0 .. n - 1 : a[i] = 0
    BY <1>1 DEF mag_effective_len, mag_is_zero
  <2>2. Value(a) = 0
    BY <1>1, IsZero
  <2>3. Below(a)[0] = 0
    BY BelowWords
  <2> QED BY <2>1, <2>2, <2>3, WeightFirst
<1>2. CASE ~ mag_is_zero(a)
  <2>1. S # {} /\ n > 0
    BY <1>2 DEF mag_is_zero
  <2>2. len = 1 + Max(S)
    BY <1>2 DEF mag_effective_len
  <2>3. n - 1 \in Nat /\ S \subseteq 0 .. n - 1
    BY <1>0, <2>1
  <2> HIDE DEF S
  <2>4. Max(S) \in S /\ \A y \in S : Max(S) >= y
    BY <2>1, <2>3, MaxIs
  <2>5. Max(S) \in 0 .. n - 1 /\ a[Max(S)] # 0
    BY <2>3, <2>4 DEF S
  <2>6. len \in 0 .. n /\ len > 0 /\ len - 1 = Max(S) /\ len - 1 \in 0 .. n - 1
    BY <2>2, <2>5
  <2>7. \A i \in len .. n - 1 : a[i] = 0
    <3> TAKE i \in len .. n - 1
    <3>1. i \in 0 .. n - 1 /\ i > Max(S)
      BY <2>2, <2>6
    <3>2. i \notin S
      BY <2>4, <2>5, <3>1
    <3> QED BY <3>1, <3>2 DEF S
  <2>8. Value(a) = Below(a)[len]
    BY <2>6, <2>7, HighZeros
  <2>9. \A k \in 0 .. n : Below(a)[k] \in Nat /\ Below(a)[k] < Weight(k)
    BY BelowWords
  <2>10. \A i \in 0 .. n - 1 : Below(a)[i + 1] = Below(a)[i] + a[i] * Weight(i)
    BY BelowWords
  <2> DEFINE i == len - 1
             x == a[i]
             w == Weight(i)
  <2>11. i \in 0 .. n - 1 /\ i \in 0 .. n /\ i \in Nat /\ i + 1 = len
    BY <2>6
  <2>12. Below(a)[len] = Below(a)[i] + x * w /\ x \in Nat /\ x > 0 /\ w \in Nat /\ w >= 1 /\ Below(a)[i] \in Nat
    <3>1. x \in Nat /\ x # 0
      BY <1>0, <2>5, <2>6
    <3>2. w \in Nat /\ w >= 1
      BY <2>11, WeightIs
    <3>3. Below(a)[i + 1] = Below(a)[i] + x * w
      BY <2>10, <2>11
    <3>4. Below(a)[i] \in Nat
      BY <2>9, <2>11
    <3> QED BY <3>1, <3>2, <3>3, <3>4, <2>11
  <2> HIDE DEF i, x, w
  <2>13. x * w >= w
    BY <2>12
  <2>14. Value(a) >= w /\ Value(a) > 0
    BY <2>8, <2>12, <2>13
  <2> QED BY <2>6, <2>7, <2>8, <2>9, <2>12, <2>14 DEF i, x, w
<1> QED BY <1>1, <1>2

\* The carry into each limb.
LEMMA CarriesAre ==
  ASSUME NEW n \in Nat, NEW col, \A i \in 0 .. n - 1 : col[i] \in Int
  PROVE  /\ Carries(col, n) \in [0 .. n -> Int]
         /\ Carries(col, n)[0] = 0
         /\ \A i \in 0 .. n - 1 : Carries(col, n)[i + 1] = (col[i] + Carries(col, n)[i]) \div Base
<1> DEFINE G == [p \in Int \X Nat |-> IF p[2] \in 1 .. n THEN (col[p[2] - 1] + p[1]) \div Base ELSE 0]
           P(h) == h = [i \in 0 .. n |-> IF i = 0 THEN 0 ELSE (col[i - 1] + h[i - 1]) \div Base]
<1>s. 0 \in Int
  OBVIOUS
<1>0. ASSUME NEW x \in Int, NEW i \in 1 .. n PROVE (col[i - 1] + x) \div Base \in Int
  <2>1. i - 1 \in 0 .. n - 1
    OBVIOUS
  <2>2. col[i - 1] \in Int /\ Base \in Nat /\ Base >= 4
    BY <2>1, BaseIs
  <2> QED BY <2>2
<1>1. G \in [Int \X Nat -> Int]
  <2> SUFFICES ASSUME NEW p \in Int \X Nat PROVE (IF p[2] \in 1 .. n THEN (col[p[2] - 1] + p[1]) \div Base ELSE 0) \in Int
    OBVIOUS
  <2>1. p[1] \in Int
    OBVIOUS
  <2> QED BY <1>0, <1>s, <2>1
<1>2. PICK g \in [0 .. n -> Int] : Up(g, n, 0, G)
  <2> HIDE DEF G
  <2> QED BY <1>1, <1>s, Recursion, Zenon
<1>3. ASSUME NEW i \in 1 .. n, NEW x \in Int PROVE G[<<x, i>>] = (col[i - 1] + x) \div Base
  <2> <<x, i>> \in Int \X Nat /\ <<x, i>>[1] = x /\ <<x, i>>[2] = i
    OBVIOUS
  <2> QED OBVIOUS
<1> HIDE DEF G
<1>4. \A i \in 1 .. n : g[i] = (col[i - 1] + g[i - 1]) \div Base
  <2> TAKE i \in 1 .. n
  <2>1. i - 1 \in 0 .. n /\ g[i - 1] \in Int
    OBVIOUS
  <2>2. g[i] = G[<<g[i - 1], i>>]
    BY <1>2 DEF Up
  <2> QED BY <2>1, <2>2, <1>3
<1>5. P(g)
  <2>1. g[0] = 0
    BY <1>2 DEF Up
  <2>2. g = [i \in 0 .. n |-> g[i]]
    OBVIOUS
  <2>3. \A i \in 0 .. n : i # 0 => i \in 1 .. n
    OBVIOUS
  <2> QED BY <1>4, <2>1, <2>2, <2>3
<1>6. Carries(col, n) = CHOOSE h : P(h)
  BY DEF Carries
<1> DEFINE h == Carries(col, n)
<1>7. P(h)
  <2> HIDE DEF P
  <2> QED BY <1>5, <1>6
<1> HIDE DEF h
<1>8. h = [i \in 0 .. n |-> h[i]] /\ h[0] = 0
  <2>1. DOMAIN h = 0 .. n /\ 0 \in 0 .. n
    BY <1>7
  <2> QED BY <1>7, <2>1
<1>9. ASSUME NEW i \in 1 .. n, h[i - 1] \in Int PROVE h[i] = G[<<h[i - 1], i>>]
  <2>1. i \in 0 .. n /\ i # 0
    OBVIOUS
  <2>2. h[i] = (col[i - 1] + h[i - 1]) \div Base
    BY <1>7, <2>1
  <2> QED BY <1>3, <1>9, <2>2
<1>10. UpWithin(h, n, 0, Int, G)
  BY <1>8, <1>9 DEF UpWithin
<1>11. h = g
  BY <1>1, <1>2, <1>s, <1>10, UpUnique, Zenon
<1>12. \A i \in 0 .. n - 1 : i + 1 \in 1 .. n /\ (i + 1) - 1 = i
  OBVIOUS
<1>13. \A i \in 0 .. n - 1 : g[i + 1] = (col[i] + g[i]) \div Base
  BY <1>4, <1>12
<1> QED BY <1>2, <1>11, <1>13 DEF h, Up

\* The borrow from each limb.
LEMMA BorrowsAre ==
  ASSUME NEW n \in Nat, NEW col
  PROVE  /\ Borrows(col, n) \in [0 .. n -> {0, 1}]
         /\ Borrows(col, n)[0] = 0
         /\ \A i \in 0 .. n - 1 : Borrows(col, n)[i + 1] = (IF col[i] - Borrows(col, n)[i] >= 0 THEN 0 ELSE 1)
<1> DEFINE G == [p \in {0, 1} \X Nat |-> IF p[2] \in 1 .. n THEN (IF col[p[2] - 1] - p[1] >= 0 THEN 0 ELSE 1) ELSE 0]
           P(h) == h = [i \in 0 .. n |-> IF i = 0 THEN 0 ELSE (IF col[i - 1] - h[i - 1] >= 0 THEN 0 ELSE 1)]
<1>s. 0 \in {0, 1}
  OBVIOUS
<1>0. ASSUME NEW x \in {0, 1}, NEW i \in 1 .. n PROVE (IF col[i - 1] - x >= 0 THEN 0 ELSE 1) \in {0, 1}
  OBVIOUS
<1>1. G \in [{0, 1} \X Nat -> {0, 1}]
  <2> SUFFICES ASSUME NEW p \in {0, 1} \X Nat PROVE (IF p[2] \in 1 .. n THEN (IF col[p[2] - 1] - p[1] >= 0 THEN 0 ELSE 1) ELSE 0) \in {0, 1}
    OBVIOUS
  <2>1. p[1] \in {0, 1}
    OBVIOUS
  <2> QED BY <1>0, <1>s, <2>1
<1>2. PICK g \in [0 .. n -> {0, 1}] : Up(g, n, 0, G)
  <2> HIDE DEF G
  <2> QED BY <1>1, <1>s, Recursion, Zenon
<1>3. ASSUME NEW i \in 1 .. n, NEW x \in {0, 1} PROVE G[<<x, i>>] = (IF col[i - 1] - x >= 0 THEN 0 ELSE 1)
  <2> <<x, i>> \in {0, 1} \X Nat /\ <<x, i>>[1] = x /\ <<x, i>>[2] = i
    OBVIOUS
  <2> QED OBVIOUS
<1> HIDE DEF G
<1>4. \A i \in 1 .. n : g[i] = (IF col[i - 1] - g[i - 1] >= 0 THEN 0 ELSE 1)
  <2> TAKE i \in 1 .. n
  <2>1. i - 1 \in 0 .. n /\ g[i - 1] \in {0, 1}
    OBVIOUS
  <2>2. g[i] = G[<<g[i - 1], i>>]
    BY <1>2 DEF Up
  <2> QED BY <2>1, <2>2, <1>3
<1>5. P(g)
  <2>1. g[0] = 0
    BY <1>2 DEF Up
  <2>2. g = [i \in 0 .. n |-> g[i]]
    OBVIOUS
  <2>3. \A i \in 0 .. n : i # 0 => i \in 1 .. n
    OBVIOUS
  <2> QED BY <1>4, <2>1, <2>2, <2>3
<1>6. Borrows(col, n) = CHOOSE h : P(h)
  BY DEF Borrows
<1> DEFINE h == Borrows(col, n)
<1>7. P(h)
  <2> HIDE DEF P
  <2> QED BY <1>5, <1>6
<1> HIDE DEF h
<1>8. h = [i \in 0 .. n |-> h[i]] /\ h[0] = 0
  <2>1. DOMAIN h = 0 .. n /\ 0 \in 0 .. n
    BY <1>7
  <2> QED BY <1>7, <2>1
<1>9. ASSUME NEW i \in 1 .. n, h[i - 1] \in {0, 1} PROVE h[i] = G[<<h[i - 1], i>>]
  <2>1. i \in 0 .. n /\ i # 0
    OBVIOUS
  <2>2. h[i] = (IF col[i - 1] - h[i - 1] >= 0 THEN 0 ELSE 1)
    BY <1>7, <2>1
  <2> QED BY <1>3, <1>9, <2>2
<1>10. UpWithin(h, n, 0, {0, 1}, G)
  BY <1>8, <1>9 DEF UpWithin
<1>11. h = g
  BY <1>1, <1>2, <1>s, <1>10, UpUnique, Zenon
<1>12. \A i \in 0 .. n - 1 : i + 1 \in 1 .. n /\ (i + 1) - 1 = i
  OBVIOUS
<1>13. \A i \in 0 .. n - 1 : g[i + 1] = (IF col[i] - g[i] >= 0 THEN 0 ELSE 1)
  BY <1>4, <1>12
<1> QED BY <1>2, <1>11, <1>13 DEF h, Up


\* A table is the function it is made of.
LEMMA TableIs == \A f : Table(f) = f
BY DEF Table

\* There is one way to cut a number to a width.
LEMMA CutIs ==
  ASSUME NEW n \in Nat, NEW x \in Int, NEW v \in Nat, v < Weight(n), NEW t \in Int, x = v + t * Weight(n)
  PROVE  v = x % Weight(n) /\ t = x \div Weight(n)
<1> DEFINE w == Weight(n)
<1>1. w \in Nat /\ w > 0 /\ v < w /\ x = v + t * w
  BY WeightIs
<1> HIDE DEF w
<1>2. x = t * w + v /\ v \in Int /\ 0 <= v
  BY <1>1
<1>3. x \div w = t /\ x % w = v
  BY <1>1, <1>2, EuclidUnique
<1> QED BY <1>3 DEF w

\* Carrying keeps the value of the columns.
LEMMA ColumnsCarried ==
  ASSUME NEW n \in Nat, NEW col \in [0 .. n - 1 -> Int], NEW k \in 0 .. n
  PROVE  /\ AddColumns(col, n).limbs \in [0 .. n - 1 -> Word]
         /\ AddColumns(col, n).carry = Carries(col, n)[n]
         /\ Carries(col, n) \in [0 .. n -> Int]
         /\ Below(AddColumns(col, n).limbs)[k] + Carries(col, n)[k] * Weight(k) = Below(col)[k]
<1> DEFINE cy == Carries(col, n)
           l == AddColumns(col, n).limbs
           B == Base
<1>1. /\ cy \in [0 .. n -> Int] /\ cy[0] = 0
      /\ \A i \in 0 .. n - 1 : cy[i + 1] = (col[i] + cy[i]) \div B
  BY CarriesAre
<1>2. l = [i \in 0 .. n - 1 |-> (col[i] + cy[i]) % B] /\ AddColumns(col, n).carry = cy[n]
  BY TableIs DEF AddColumns
<1>3. B \in Nat /\ B >= 4 /\ Word = 0 .. B - 1
  BY BaseIs DEF Word
<1> HIDE DEF cy, l, B
<1>4. ASSUME NEW i \in 0 .. n - 1 PROVE col[i] + cy[i] = B * cy[i + 1] + l[i] /\ l[i] \in Word
  <2>1. i \in 0 .. n /\ col[i] \in Int /\ cy[i] \in Int /\ col[i] + cy[i] \in Int
    BY <1>1
  <2>2. l[i] = (col[i] + cy[i]) % B /\ cy[i + 1] = (col[i] + cy[i]) \div B
    BY <1>1, <1>2
  <2>3. \A x \in Int : x = B * (x \div B) + (x % B) /\ x % B \in 0 .. B - 1
    BY <1>3
  <2> QED BY <1>3, <2>1, <2>2, <2>3
<1>5. l \in [0 .. n - 1 -> Word]
  BY <1>2, <1>4
<1>6. /\ Below(l) \in [0 .. n -> Nat] /\ Below(l)[0] = 0
      /\ \A i \in 0 .. n - 1 : Below(l)[i + 1] = Below(l)[i] + l[i] * Weight(i)
  BY <1>5, BelowWords
<1>7. /\ Below(col) \in [0 .. n -> Int] /\ Below(col)[0] = 0
      /\ \A i \in 0 .. n - 1 : Below(col)[i + 1] = Below(col)[i] + col[i] * Weight(i)
  BY BelowIs
<1> DEFINE T == {j \in Nat : j <= n => Below(l)[j] + cy[j] * Weight(j) = Below(col)[j]}
<1>8. 0 \in T
  BY <1>1, <1>6, <1>7, WeightFirst
<1>9. ASSUME NEW j \in T PROVE j + 1 \in T
  <2>1. SUFFICES ASSUME j + 1 <= n PROVE Below(l)[j + 1] + cy[j + 1] * Weight(j + 1) = Below(col)[j + 1]
    OBVIOUS
  <2>2. j \in 0 .. n - 1 /\ j \in 0 .. n /\ j \in Nat /\ j + 1 \in 0 .. n
    BY <2>1
  <2> DEFINE p == Below(l)[j]
             q == Below(col)[j]
             c == cy[j]
             d == cy[j + 1]
             x == l[j]
             y == col[j]
             w == Weight(j)
  <2>3. p \in Int /\ q \in Int /\ c \in Int /\ d \in Int /\ x \in Int /\ y \in Int /\ w \in Int
    <3>1. x \in Int
      BY <1>3, <1>4, <2>2
    <3> QED BY <1>1, <1>6, <1>7, <2>2, <3>1, WeightIs
  <2>4. p + c * w = q /\ y + c = B * d + x
    BY <1>4, <2>2
  <2>5. Below(l)[j + 1] = p + x * w /\ Below(col)[j + 1] = q + y * w /\ Weight(j + 1) = B * w
    BY <1>6, <1>7, <2>2, WeightNext DEF B
  <2> HIDE DEF p, q, c, x, y, w, d
  <2>6. p + x * w + d * (B * w) = q + y * w
    <3>1. (y + c) * w = y * w + c * w /\ (B * d + x) * w = d * (B * w) + x * w
      BY <1>3, <2>3
    <3>2. y * w + c * w = d * (B * w) + x * w
      BY <3>1, <2>4
    <3> DEFINE yw == y * w
               cw == c * w
               dw == d * (B * w)
               xw == x * w
    <3>3. yw \in Int /\ cw \in Int /\ dw \in Int /\ xw \in Int
      BY <1>3, <2>3
    <3>4. p + cw = q /\ yw + cw = dw + xw
      BY <3>2, <2>4
    <3> HIDE DEF yw, cw, dw, xw
    <3>5. p + xw + dw = q + yw
      BY <3>3, <3>4, <2>3
    <3> QED BY <3>5 DEF yw, dw, xw
  <2>7. Below(l)[j + 1] + d * Weight(j + 1) = Below(col)[j + 1]
    BY <2>5, <2>6
  <2> QED BY <2>7 DEF d
<1>10. T = Nat
  <2> T \subseteq Nat
    OBVIOUS
  <2> HIDE DEF T
  <2> QED BY <1>8, <1>9, SetInduction
<1>11. k \in T
  BY <1>10
<1> QED BY <1>1, <1>2, <1>5, <1>11 DEF cy, l

\* Columns with their carries run up: the value cut to the width, and the carry.
LEMMA AddColumnsIs ==
  ASSUME NEW n \in Nat, NEW col \in [0 .. n - 1 -> Int]
  PROVE  /\ AddColumns(col, n).limbs \in [0 .. n - 1 -> Word]
         /\ Value(AddColumns(col, n).limbs) = Value(col) % Weight(n)
         /\ AddColumns(col, n).carry = Value(col) \div Weight(n)
         /\ AddColumns(col, n).carry \in Int
<1> DEFINE l == AddColumns(col, n).limbs
           c == AddColumns(col, n).carry
<1>1. n \in 0 .. n
  OBVIOUS
<1>2. l \in [0 .. n - 1 -> Word] /\ c = Carries(col, n)[n] /\ c \in Int
  BY <1>1, ColumnsCarried
<1>3. Below(l)[n] + Carries(col, n)[n] * Weight(n) = Below(col)[n]
  BY <1>1, ColumnsCarried
<1> HIDE DEF l, c
<1>4. Value(l) = Below(l)[n] /\ Value(l) \in Nat /\ Value(l) < Weight(n)
  BY <1>2, BelowWords
<1>5. Value(col) = Below(col)[n] /\ Value(col) \in Int
  BY BelowIs
<1>6. Value(col) = Value(l) + c * Weight(n)
  BY <1>2, <1>3, <1>4, <1>5
<1>7. Value(l) = Value(col) % Weight(n) /\ c = Value(col) \div Weight(n)
  BY <1>2, <1>4, <1>5, <1>6, CutIs
<1> QED BY <1>2, <1>7 DEF l, c

\* So does borrowing, of columns that a borrow of one settles.
LEMMA SubColumnsIs ==
  ASSUME NEW n \in Nat, NEW col \in [0 .. n - 1 -> Int],
         \A i \in 0 .. n - 1 : - Base < col[i] /\ col[i] < Base
  PROVE  /\ SubColumns(col, n).limbs \in [0 .. n - 1 -> Word]
         /\ SubColumns(col, n).borrow \in {0, 1}
         /\ Value(SubColumns(col, n).limbs) - SubColumns(col, n).borrow * Weight(n) = Value(col)
<1> DEFINE bo == Borrows(col, n)
           l == SubColumns(col, n).limbs
           B == Base
<1>1. /\ bo \in [0 .. n -> {0, 1}] /\ bo[0] = 0
      /\ \A i \in 0 .. n - 1 : bo[i + 1] = IF col[i] - bo[i] >= 0 THEN 0 ELSE 1
  <2> HIDE DEF B, l, bo
  <2>2. /\ Borrows(col, n) \in [0 .. n -> {0, 1}] /\ Borrows(col, n)[0] = 0
        /\ \A i \in 0 .. n - 1 : Borrows(col, n)[i + 1] = IF col[i] - Borrows(col, n)[i] >= 0 THEN 0 ELSE 1
    BY BorrowsAre
  <2> QED BY <2>2 DEF bo
<1>2. l = [i \in 0 .. n - 1 |-> (col[i] - bo[i]) % B] /\ SubColumns(col, n).borrow = bo[n]
  BY TableIs DEF SubColumns
<1>3. B \in Nat /\ B >= 4 /\ Word = 0 .. B - 1
  BY BaseIs DEF Word
<1>a. \A i \in 0 .. n - 1 : - B < col[i] /\ col[i] < B
  OBVIOUS
<1> HIDE DEF bo, l, B
<1>4. ASSUME NEW i \in 0 .. n - 1 PROVE col[i] - bo[i] = l[i] - B * bo[i + 1] /\ l[i] \in Word
  <2>1. i \in 0 .. n /\ col[i] \in Int /\ bo[i] \in {0, 1} /\ - B < col[i] /\ col[i] < B
    BY <1>1, <1>a
  <2>2. l[i] = (col[i] - bo[i]) % B /\ bo[i + 1] = IF col[i] - bo[i] >= 0 THEN 0 ELSE 1
    BY <1>1, <1>2
  <2> DEFINE x == col[i] - bo[i]
  <2>3. x \in Int /\ - B <= x /\ x < B
    BY <2>1, <1>3
  <2> HIDE DEF x
  <2>4. CASE x >= 0
    <3>1. x = 0 * B + x
      BY <1>3, <2>3
    <3>2. x % B = x
      BY <1>3, <2>3, <2>4, <3>1, EuclidUnique
    <3> QED BY <1>3, <2>2, <2>3, <2>4, <3>2 DEF x
  <2>5. CASE x < 0
    <3>1. x = (-1) * B + (x + B)
      BY <1>3, <2>3
    <3> DEFINE r == x + B
    <3>2. r \in Int /\ 0 <= r /\ r < B /\ x = (-1) * B + r /\ -1 \in Int
      BY <1>3, <2>3, <2>5, <3>1
    <3> HIDE DEF r
    <3>3. x % B = r
      BY <1>3, <2>3, <3>2, EuclidUnique
    <3>4. l[i] = r /\ bo[i + 1] = 1
      BY <2>2, <2>3, <2>5, <3>3 DEF x
    <3>5. r \in 0 .. B - 1 /\ x = r - B * 1
      BY <1>3, <3>2, <3>1 DEF r
    <3> QED BY <1>3, <3>4, <3>5 DEF x
  <2> QED BY <2>3, <2>4, <2>5
<1>5. l \in [0 .. n - 1 -> Word]
  BY <1>2, <1>4
<1>6. /\ Below(l) \in [0 .. n -> Nat] /\ Below(l)[0] = 0 /\ Value(l) = Below(l)[n]
      /\ \A i \in 0 .. n - 1 : Below(l)[i + 1] = Below(l)[i] + l[i] * Weight(i)
  BY <1>5, BelowWords
<1>7. /\ Below(col) \in [0 .. n -> Int] /\ Below(col)[0] = 0 /\ Value(col) = Below(col)[n]
      /\ \A i \in 0 .. n - 1 : Below(col)[i + 1] = Below(col)[i] + col[i] * Weight(i)
  BY BelowIs
<1> DEFINE T == {j \in Nat : j <= n => Below(l)[j] - bo[j] * Weight(j) = Below(col)[j]}
<1>8. 0 \in T
  BY <1>1, <1>6, <1>7, WeightFirst
<1>9. ASSUME NEW j \in T PROVE j + 1 \in T
  <2>1. SUFFICES ASSUME j + 1 <= n PROVE Below(l)[j + 1] - bo[j + 1] * Weight(j + 1) = Below(col)[j + 1]
    OBVIOUS
  <2>2. j \in 0 .. n - 1 /\ j \in 0 .. n /\ j \in Nat /\ j + 1 \in 0 .. n
    BY <2>1
  <2> DEFINE p == Below(l)[j]
             q == Below(col)[j]
             c == bo[j]
             d == bo[j + 1]
             x == l[j]
             y == col[j]
             w == Weight(j)
  <2>3. p \in Int /\ q \in Int /\ c \in Int /\ d \in Int /\ x \in Int /\ y \in Int /\ w \in Int
    <3>1. x \in Int
      BY <1>3, <1>4, <2>2
    <3>2. c \in Int /\ d \in Int
      BY <1>1, <2>2
    <3>3. p \in Int /\ q \in Int
      BY <1>6, <1>7, <2>2
    <3>4. y \in Int /\ w \in Int
      BY <2>2, WeightIs
    <3> QED BY <3>1, <3>2, <3>3, <3>4
  <2>4. p - c * w = q /\ y - c = x - B * d
    BY <1>4, <2>2
  <2>5. Below(l)[j + 1] = p + x * w /\ Below(col)[j + 1] = q + y * w /\ Weight(j + 1) = B * w
    BY <1>6, <1>7, <2>2, WeightNext DEF B
  <2> HIDE DEF p, q, c, x, y, w, d
  <2>6. (p + x * w) - d * (B * w) = q + y * w
    <3>1. (y - c) * w = y * w - c * w /\ (x - B * d) * w = x * w - d * (B * w)
      BY <1>3, <2>3
    <3>2. y * w - c * w = x * w - d * (B * w)
      BY <3>1, <2>4
    <3> DEFINE yw == y * w
               cw == c * w
               dw == d * (B * w)
               xw == x * w
    <3>3. yw \in Int /\ cw \in Int /\ dw \in Int /\ xw \in Int
      BY <1>3, <2>3
    <3>4. p - cw = q /\ yw - cw = xw - dw
      BY <3>2, <2>4
    <3> HIDE DEF yw, cw, dw, xw
    <3>5. (p + xw) - dw = q + yw
      BY <3>3, <3>4, <2>3
    <3> QED BY <3>5 DEF yw, dw, xw
  <2>7. Below(l)[j + 1] - d * Weight(j + 1) = Below(col)[j + 1]
    BY <2>5, <2>6
  <2> QED BY <2>7 DEF d
<1>10. T = Nat
  <2> T \subseteq Nat
    OBVIOUS
  <2> HIDE DEF T
  <2> QED BY <1>8, <1>9, SetInduction
<1>11. n \in T /\ n \in 0 .. n
  BY <1>10
<1> QED BY <1>1, <1>2, <1>5, <1>6, <1>7, <1>11 DEF l

-----------------------------------------------------------------------------
(* Sums and differences of magnitudes                                      *)

\* mag_add: the sum cut to the width, and the carry.
LEMMA MagAddIs ==
  ASSUME NEW n \in Nat, NEW a \in [0 .. n - 1 -> Word], NEW b \in [0 .. n - 1 -> Word]
  PROVE  /\ mag_add(a, b).limbs \in [0 .. n - 1 -> Word]
         /\ Value(mag_add(a, b).limbs) = (Value(a) + Value(b)) % Weight(n)
         /\ mag_add(a, b).carry = (Value(a) + Value(b)) \div Weight(n)
         /\ mag_add(a, b).carry \in Int
<1> DEFINE col == [i \in DOMAIN a |-> a[i] + b[i]]
<1>1. a \in [0 .. n - 1 -> Int] /\ b \in [0 .. n - 1 -> Int]
  BY WordsAre
<1>2. col \in [0 .. n - 1 -> Int] /\ \A i \in 0 .. n - 1 : col[i] = 1 * a[i] + 1 * b[i]
  BY <1>1
<1>3. mag_add(a, b) = AddColumns(col, n)
  BY WidthIs DEF mag_add
<1> HIDE DEF col
<1>4. n \in 0 .. n /\ 1 \in Int
  OBVIOUS
<1>5. Below(col)[n] = 1 * Below(a)[n] + 1 * Below(b)[n]
  <2> DEFINE x == 1
  <2>1. x \in Int /\ Combines(col, x, a, x, b, n)
    BY <1>2 DEF Combines
  <2> HIDE DEF x
  <2>2. Combined(col, x, a, x, b, n)
    BY <1>1, <1>2, <1>4, <2>1, BelowLinear
  <2> QED BY <2>2 DEF Combined, x
<1>6. Value(col) = Below(col)[n]
  BY <1>2, BelowIs
<1>7. Value(a) = Below(a)[n] /\ Value(b) = Below(b)[n] /\ Value(a) \in Nat /\ Value(b) \in Nat
  BY BelowWords
<1>8. Value(col) = Value(a) + Value(b)
  BY <1>5, <1>6, <1>7
<1> QED BY <1>2, <1>3, <1>8, AddColumnsIs

\* mag_sub: the difference cut to the width, and the borrow.
LEMMA MagSubIs ==
  ASSUME NEW n \in Nat, NEW a \in [0 .. n - 1 -> Word], NEW b \in [0 .. n - 1 -> Word]
  PROVE  /\ mag_sub(a, b).limbs \in [0 .. n - 1 -> Word]
         /\ Value(mag_sub(a, b).limbs) = (Value(a) - Value(b)) % Weight(n)
         /\ mag_sub(a, b).borrow = IF Value(a) < Value(b) THEN 1 ELSE 0
         /\ Value(mag_sub(a, b).limbs) - mag_sub(a, b).borrow * Weight(n) = Value(a) - Value(b)
<1> DEFINE col == [i \in DOMAIN a |-> a[i] - b[i]]
<1>1. a \in [0 .. n - 1 -> Int] /\ b \in [0 .. n - 1 -> Int]
  BY WordsAre
<1>2. col \in [0 .. n - 1 -> Int] /\ \A i \in 0 .. n - 1 : col[i] = 1 * a[i] + (-1) * b[i]
  BY <1>1
<1>3. \A i \in 0 .. n - 1 : - Base < col[i] /\ col[i] < Base
  <2> TAKE i \in 0 .. n - 1
  <2>1. a[i] \in Nat /\ a[i] < Base /\ b[i] \in Nat /\ b[i] < Base
    BY WordsAre
  <2> QED BY <2>1, BaseIs
<1>4. mag_sub(a, b) = SubColumns(col, n)
  BY WidthIs DEF mag_sub
<1> HIDE DEF col
<1>5. n \in 0 .. n /\ -1 \in Int /\ 1 \in Int
  OBVIOUS
<1>6. Below(col)[n] = 1 * Below(a)[n] + (-1) * Below(b)[n]
  <2> DEFINE x == 1
             y == -1
  <2>1. x \in Int /\ y \in Int /\ Combines(col, x, a, y, b, n)
    BY <1>2 DEF Combines
  <2> HIDE DEF x, y
  <2>2. Combined(col, x, a, y, b, n)
    BY <1>1, <1>2, <1>5, <2>1, BelowLinear
  <2> QED BY <2>2 DEF Combined, x, y
<1>7. Value(col) = Below(col)[n]
  BY <1>2, BelowIs
<1>8. Value(a) = Below(a)[n] /\ Value(b) = Below(b)[n] /\ Value(a) \in Nat /\ Value(b) \in Nat
  BY BelowWords
<1> DEFINE l == mag_sub(a, b).limbs
           c == mag_sub(a, b).borrow
           A == Value(a)
           B == Value(b)
           w == Weight(n)
<1>9. A \in Nat /\ B \in Nat /\ Value(col) = A - B
  BY <1>6, <1>7, <1>8
<1>10. l \in [0 .. n - 1 -> Word] /\ c \in {0, 1} /\ Value(l) - c * w = Value(col)
  BY <1>2, <1>3, <1>4, SubColumnsIs
<1>11. A < w /\ B < w /\ w \in Nat
  BY BelowWords, WeightIs
<1> HIDE DEF l, c, A, B, w
<1>12. Value(l) \in Nat /\ Value(l) < w
  BY <1>10, BelowWords DEF w
<1> DEFINE v == Value(l)
<1>13. v \in Nat /\ v < w /\ v - c * w = A - B
  BY <1>9, <1>10, <1>12
<1> HIDE DEF v
<1>14. A - B = v + (- c) * w /\ - c \in Int /\ A - B \in Int
  <2>1. CASE c = 0
    BY <1>9, <1>11, <1>13, <2>1
  <2>2. CASE c = 1
    BY <1>9, <1>11, <1>13, <2>2
  <2> QED BY <1>10, <2>1, <2>2
<1>15. v = (A - B) % w
  <2> DEFINE x == A - B
             t == - c
  <2>1. x \in Int /\ t \in Int /\ x = v + t * w
    BY <1>14
  <2> HIDE DEF x, t
  <2>2. v = x % Weight(n)
    BY <1>13, <2>1, CutIs DEF w
  <2> QED BY <2>2 DEF x, w
<1>16. c = IF A < B THEN 1 ELSE 0
  <2>1. CASE c = 0
    BY <1>9, <1>11, <1>13, <2>1
  <2>2. CASE c = 1
    BY <1>9, <1>11, <1>13, <2>2
  <2> QED BY <1>10, <2>1, <2>2
<1> QED BY <1>10, <1>13, <1>15, <1>16 DEF l, c, v, A, B, w

\* mag_negate: two's complement.
LEMMA MagNegateIs ==
  ASSUME NEW n \in Nat, NEW a \in [0 .. n - 1 -> Word]
  PROVE  /\ mag_negate(a) \in [0 .. n - 1 -> Word]
         /\ Value(mag_negate(a)) = (- Value(a)) % Weight(n)
<1>1. Zeros(n) \in [0 .. n - 1 -> Word] /\ Value(Zeros(n)) = 0
  BY ZerosAre
<1>2. mag_negate(a) = mag_sub(Zeros(n), a).limbs
  BY WidthIs DEF mag_negate
<1>3. 0 - Value(a) = - Value(a)
  <2> Value(a) \in Nat
    BY BelowWords
  <2> QED OBVIOUS
<1> QED BY <1>1, <1>2, <1>3, MagSubIs

\* The short paths take the limbs in use, and lose nothing.
LEMMA ShortPaths ==
  ASSUME NEW n \in Nat, NEW a \in [0 .. n - 1 -> Word], NEW b \in [0 .. n - 1 -> Word],
         NEW la \in 0 .. n, NEW lb \in 0 .. n,
         \A i \in la .. n - 1 : a[i] = 0, \A i \in lb .. n - 1 : b[i] = 0
  PROVE  /\ mag_add_short(a, b, la, lb) = mag_add(a, b)
         /\ mag_sub_short(a, b, la, lb) = mag_sub(a, b)
         /\ Max({la, lb}) \in {la, lb} /\ Max({la, lb}) >= la /\ Max({la, lb}) >= lb
<1> DEFINE m == Max({la, lb})
<1>1. m \in {la, lb} /\ m >= la /\ m >= lb
  <2>1. {la, lb} \subseteq 0 .. n /\ {la, lb} # {}
    OBVIOUS
  <2>2. m \in {la, lb} /\ \A y \in {la, lb} : m >= y
    BY <2>1, MaxIs
  <2> QED BY <2>2
<1> HIDE DEF m
<1>2. ASSUME NEW i \in DOMAIN a PROVE i < m \/ (a[i] + b[i] = 0 /\ a[i] - b[i] = 0)
  <2>1. SUFFICES ASSUME ~(i < m) PROVE a[i] = 0 /\ b[i] = 0
    OBVIOUS
  <2>2. i \in 0 .. n - 1 /\ i >= la /\ i >= lb
    BY <1>1, <2>1
  <2> QED BY <2>2
<1>3. [i \in DOMAIN a |-> IF i < m THEN a[i] + b[i] ELSE 0] = [i \in DOMAIN a |-> a[i] + b[i]]
  BY <1>2
<1>4. [i \in DOMAIN a |-> IF i < m THEN a[i] - b[i] ELSE 0] = [i \in DOMAIN a |-> a[i] - b[i]]
  BY <1>2
<1> QED BY <1>1, <1>3, <1>4 DEF m, mag_add_short, mag_add, mag_sub_short, mag_sub

-----------------------------------------------------------------------------
(* Signs                                                                   *)

\* x is the canonical BigInt of n limbs for v, cut to the width.
Stands(x, v, n) ==
    /\ x = Big(x.sign, x.limbs) /\ x.limbs \in [0 .. n - 1 -> Word]
    /\ Value(x.limbs) = Magnitude(v) % Weight(n)
    /\ x.sign = IF v < 0 /\ Value(x.limbs) # 0 THEN 1 ELSE 0

\* The size of an integer.
LEMMA MagnitudeIs ==
  ASSUME NEW v \in Int
  PROVE  Magnitude(v) \in Nat /\ Magnitude(v) = (IF v < 0 THEN - v ELSE v) /\ (Magnitude(v) = 0 <=> v = 0)
BY DEF Magnitude

\* One BigInt of n limbs stands for an integer.
LEMMA StandsOnce ==
  ASSUME NEW n \in Nat, NEW v \in Int, NEW x, NEW y, Stands(x, v, n), Stands(y, v, n)
  PROVE  x = y
<1>1. x.limbs = y.limbs
  BY ValueInjective DEF Stands
<1>2. x.sign = y.sign
  BY <1>1 DEF Stands
<1>3. x = Big(x.sign, x.limbs) /\ y = Big(y.sign, y.limbs)
  BY DEF Stands
<1> QED BY <1>1, <1>2, <1>3

\* A BigInt with the right limbs and a sign that is right unless they are zero.
LEMMA CanonicalIs ==
  ASSUME NEW n \in Nat, NEW v \in Int, NEW s \in {0, 1}, NEW l \in [0 .. n - 1 -> Word],
         Value(l) = Magnitude(v) % Weight(n), v < 0 => s = 1, v > 0 => s = 0
  PROVE  Stands(Canonical(s, l), v, n)
<1> DEFINE x == Canonical(s, l)
<1>1. x.limbs = l /\ x = Big(x.sign, x.limbs) /\ x.sign = IF mag_is_zero(l) THEN 0 ELSE s
  BY DEF Canonical, Big
<1>2. mag_is_zero(l) <=> Value(l) = 0
  BY IsZero
<1>3. v = 0 => Value(l) = 0
  <2>1. Weight(n) \in Nat /\ Weight(n) >= 1
    BY WeightIs
  <2> QED BY <2>1 DEF Magnitude
<1> HIDE DEF x
<1>4. x.sign = IF v < 0 /\ Value(l) # 0 THEN 1 ELSE 0
  BY <1>1, <1>2, <1>3
<1> QED BY <1>1, <1>4 DEF Stands, x

\* What fits stands as it is.
LEMMA StandsFit ==
  ASSUME NEW n \in Nat, NEW v \in Int, NEW x, Stands(x, v, n), Magnitude(v) < Weight(n)
  PROVE  /\ x = Big(x.sign, x.limbs) /\ x.limbs \in [0 .. n - 1 -> Word]
         /\ Value(x.limbs) = Magnitude(v) /\ x.sign = (IF v < 0 THEN 1 ELSE 0) /\ IntOf(x) = v
         /\ Value(x.limbs) \in Nat
<1>1. Magnitude(v) \in Nat /\ Magnitude(v) = (IF v < 0 THEN - v ELSE v) /\ Weight(n) \in Nat /\ Weight(n) > 0
  BY MagnitudeIs, WeightIs
<1> DEFINE m == Magnitude(v)
           w == Weight(n)
<1>2. m \in Nat /\ w \in Nat /\ w > 0 /\ m < w
  BY <1>1
<1> HIDE DEF m, w
<1>3. m % w = m
  BY <1>2, ModSmall
<1>4. Value(x.limbs) = m
  BY <1>3 DEF m, w, Stands
<1> QED BY <1>1, <1>4 DEF m, Stands, IntOf

\* The BigInt of an integer that fits.
LEMMA BigOfIs ==
  ASSUME NEW n \in Nat, NEW v \in Int, Magnitude(v) < Weight(n)
  PROVE  Stands(BigOf(v, n), v, n)
<1> DEFINE x == BigOf(v, n)
           m == Magnitude(v)
<1>1. m \in Nat /\ m = (IF v < 0 THEN - v ELSE v) /\ (m = 0 <=> v = 0)
  BY MagnitudeIs
<1>2. x.sign = (IF v < 0 THEN 1 ELSE 0) /\ x.limbs = ToLimbs(m, n) /\ x = Big(x.sign, x.limbs)
  BY DEF BigOf, Big, Magnitude
<1> HIDE DEF x, m
<1>3. x.limbs \in [0 .. n - 1 -> Word] /\ Value(x.limbs) = m % Weight(n)
  BY <1>1, <1>2, ToLimbsIs
<1>4. m % Weight(n) = m
  <2>1. Weight(n) \in Nat /\ m < Weight(n)
    BY WeightIs DEF m
  <2> QED BY <1>1, <2>1, ModSmall
<1> QED BY <1>1, <1>2, <1>3, <1>4 DEF Stands, x, m

\* Below the weight of a width, remainders as the two cases give them.
LEMMA ModCases ==
  ASSUME NEW w \in Nat, NEW v \in Nat, v < w
  PROVE  v % w = v /\ (v > 0 => (- v) % w = w - v)
<1>1. v = 0 * w + v /\ w > 0 /\ 0 <= v /\ v \in Int
  OBVIOUS
<1>2. v % w = v
  BY <1>1, EuclidUnique
<1>3. ASSUME v > 0 PROVE (- v) % w = w - v
  <2> DEFINE r == w - v
             x == - v
  <2>1. r \in Int /\ 0 <= r /\ r < w /\ x = (-1) * w + r /\ x \in Int /\ -1 \in Int
    BY <1>3
  <2> HIDE DEF r, x
  <2>2. x % w = r
    BY <1>1, <2>1, EuclidUnique
  <2> QED BY <2>2 DEF r, x
<1> QED BY <1>2, <1>3

\* The two paths of a sum of BigInts, by their signs and by what borrows.
LEMMA BySignsIs ==
  ASSUME NEW n \in Nat, NEW u \in Int, NEW v \in Int, NEW x, NEW y, Stands(x, u, n), Stands(y, v, n),
         Magnitude(u) < Weight(n), Magnitude(v) < Weight(n)
  PROVE  Stands(ct_add(x, y), u + v, n)
<1> DEFINE a == x.limbs
           b == y.limbs
           w == Weight(n)
           A == Magnitude(u)
           B == Magnitude(v)
<1>1. a \in [0 .. n - 1 -> Word] /\ Value(a) = A /\ x.sign = (IF u < 0 THEN 1 ELSE 0)
  BY StandsFit
<1>2. b \in [0 .. n - 1 -> Word] /\ Value(b) = B /\ y.sign = (IF v < 0 THEN 1 ELSE 0)
  BY StandsFit
<1>3. A \in Nat /\ A = (IF u < 0 THEN - u ELSE u) /\ A < w /\ w \in Nat /\ w > 0
  BY MagnitudeIs, WeightIs
<1>4. B \in Nat /\ B = (IF v < 0 THEN - v ELSE v) /\ B < w
  BY MagnitudeIs
<1>5. u + v \in Int /\ Magnitude(u + v) = (IF u + v < 0 THEN - (u + v) ELSE u + v)
  BY DEF Magnitude
<1> HIDE DEF a, b, w, A, B
<1>6. CASE x.sign = y.sign
  <2> DEFINE l == mag_add(a, b).limbs
  <2>1. l \in [0 .. n - 1 -> Word] /\ Value(l) = (A + B) % w
    BY <1>1, <1>2, MagAddIs DEF w
  <2>2. ct_add(x, y) = Canonical(x.sign, l)
    BY <1>6 DEF ct_add, BySigns, a, b
  <2> HIDE DEF l
  <2>3. Magnitude(u + v) = A + B /\ x.sign \in {0, 1}
    BY <1>1, <1>2, <1>3, <1>4, <1>5, <1>6
  <2>4. (u + v < 0 => x.sign = 1) /\ (u + v > 0 => x.sign = 0)
    BY <1>1, <1>2, <1>6
  <2> QED BY <1>5, <2>1, <2>2, <2>3, <2>4, CanonicalIs DEF w
<1>7. CASE x.sign # y.sign
  <2> DEFINE d == mag_sub(a, b)
             l == d.limbs
  <2>1. l \in [0 .. n - 1 -> Word] /\ Value(l) = (A - B) % w /\ d.borrow = (IF A < B THEN 1 ELSE 0)
    BY <1>1, <1>2, MagSubIs DEF w
  <2>2. ct_add(x, y) = IF d.borrow = 0 THEN Canonical(x.sign, l) ELSE Canonical(y.sign, mag_negate(l))
    BY <1>7 DEF ct_add, BySigns, a, b
  <2>3. Value(l) - d.borrow * w = A - B
    BY <1>1, <1>2, MagSubIs DEF w
  <2> HIDE DEF d, l
  <2>4. Value(l) \in Nat /\ Value(l) < w
    BY <2>1, BelowWords DEF w
  <2>5. CASE ~(A < B)
    <3>1. Value(l) = A - B
      BY <1>3, <1>4, <2>1, <2>3, <2>4, <2>5
    <3>2. Magnitude(u + v) = A - B /\ x.sign \in {0, 1}
      BY <1>1, <1>2, <1>3, <1>4, <1>5, <1>7, <2>5
    <3>3. (u + v < 0 => x.sign = 1) /\ (u + v > 0 => x.sign = 0)
      BY <1>1, <1>2, <1>3, <1>4, <1>7, <2>5
    <3>4. Value(l) = Magnitude(u + v) % w
      BY <1>3, <2>4, <3>1, <3>2, ModCases
    <3>5. ct_add(x, y) = Canonical(x.sign, l)
      BY <2>1, <2>2, <2>5
    <3> QED BY <1>5, <2>1, <3>2, <3>3, <3>4, <3>5, CanonicalIs DEF w
  <2>6. CASE A < B
    <3> DEFINE m == mag_negate(l)
               z == Value(l)
    <3>1. m \in [0 .. n - 1 -> Word] /\ Value(m) = (- z) % w
      BY <2>1, MagNegateIs DEF w
    <3>2. z = A - B + w /\ z \in Nat /\ z < w /\ z > 0
      BY <1>3, <1>4, <2>1, <2>3, <2>4, <2>6
    <3>3. ct_add(x, y) = Canonical(y.sign, m)
      BY <2>1, <2>2, <2>6
    <3> HIDE DEF m, z
    <3>4. Value(m) = B - A
      <4>1. (- z) % w = w - z
        BY <1>3, <3>2, ModCases
      <4> QED BY <1>3, <1>4, <3>1, <3>2, <4>1
    <3>5. Magnitude(u + v) = B - A /\ y.sign \in {0, 1}
      BY <1>1, <1>2, <1>3, <1>4, <1>5, <1>7, <2>6
    <3>6. (u + v < 0 => y.sign = 1) /\ (u + v > 0 => y.sign = 0)
      BY <1>1, <1>2, <1>3, <1>4, <1>7, <2>6
    <3>7. Value(m) = Magnitude(u + v) % w
      <4> DEFINE k == B - A
      <4>1. k \in Nat /\ k < w
        BY <1>3, <1>4, <2>6
      <4> HIDE DEF k
      <4>2. k % w = k
        BY <1>3, <4>1, ModCases
      <4> QED BY <3>4, <3>5, <4>2 DEF k
    <3> QED BY <1>5, <3>1, <3>3, <3>5, <3>6, <3>7, CanonicalIs DEF w
  <2> QED BY <2>5, <2>6
<1> QED BY <1>6, <1>7

\* wrapping_neg of an integer that fits.
LEMMA NegationIs ==
  ASSUME NEW n \in Nat, NEW u \in Int, NEW x, Stands(x, u, n), Magnitude(u) < Weight(n)
  PROVE  Stands(wrapping_neg(x), - u, n) /\ Magnitude(- u) = Magnitude(u)
<1>1. x.limbs \in [0 .. n - 1 -> Word] /\ x.sign = (IF u < 0 THEN 1 ELSE 0)
  BY StandsFit
<1>2. Magnitude(- u) = Magnitude(u) /\ - u \in Int
  BY DEF Magnitude
<1>3. Value(x.limbs) = Magnitude(- u) % Weight(n)
  BY <1>2 DEF Stands
<1>4. 1 - x.sign \in {0, 1} /\ (- u < 0 => 1 - x.sign = 1) /\ (- u > 0 => 1 - x.sign = 0)
  BY <1>1
<1> QED BY <1>1, <1>2, <1>3, <1>4, CanonicalIs DEF wrapping_neg

\* The lengths are those of the operands, and so the short path is right.
LEMMA VtAddIs ==
  ASSUME NEW n \in Nat, NEW x, NEW y, x.limbs \in [0 .. n - 1 -> Word], y.limbs \in [0 .. n - 1 -> Word],
         x.sign \in {0, 1}, y.sign \in {0, 1}
  PROVE  vt_add(x, y) = ct_add(x, y)
<1> DEFINE a == x.limbs
           b == y.limbs
           la == mag_effective_len(a)
           lb == mag_effective_len(b)
<1>1. a \in [0 .. n - 1 -> Word] /\ la \in 0 .. n /\ \A i \in la .. n - 1 : a[i] = 0
  BY LengthIs
<1>2. b \in [0 .. n - 1 -> Word] /\ lb \in 0 .. n /\ \A i \in lb .. n - 1 : b[i] = 0
  BY LengthIs
<1> DEFINE d == mag_sub(a, b)
<1>3. vt_add(x, y) = AddOfLengths(x, y, la, lb)
  BY DEF vt_add
<1>x. x.sign = y.sign => ct_add(x, y) = Canonical(x.sign, mag_add(a, b).limbs)
  BY DEF ct_add, BySigns
<1>y. x.sign # y.sign => ct_add(x, y) = IF d.borrow = 0 THEN Canonical(x.sign, d.limbs) ELSE Canonical(y.sign, mag_negate(d.limbs))
  BY DEF ct_add, BySigns
<1> HIDE DEF la, lb
<1>4. mag_add_short(a, b, la, lb) = mag_add(a, b) /\ mag_sub_short(a, b, la, lb) = mag_sub(a, b)
  BY <1>1, <1>2, ShortPaths
<1>5. mag_sub_short(b, a, lb, la) = mag_sub(b, a)
  BY <1>1, <1>2, ShortPaths
<1>6. mag_negate(d.limbs) = mag_sub(b, a).limbs \/ d.borrow = 0
  <2> DEFINE l == d.limbs
             m == mag_negate(l)
             k == mag_sub(b, a).limbs
             A == Value(a)
             B == Value(b)
             w == Weight(n)
  <2>1. l \in [0 .. n - 1 -> Word] /\ d.borrow = (IF A < B THEN 1 ELSE 0) /\ Value(l) - d.borrow * w = A - B
    BY <1>1, <1>2, MagSubIs
  <2>2. k \in [0 .. n - 1 -> Word] /\ Value(k) = (B - A) % w
    BY <1>1, <1>2, MagSubIs
  <2>3. A \in Nat /\ A < w /\ B \in Nat /\ B < w /\ w \in Nat
    BY <1>1, <1>2, BelowWords, WeightIs
  <2> HIDE DEF d, l, k, A, B, w
  <2>4. m \in [0 .. n - 1 -> Word] /\ Value(m) = (- Value(l)) % w
    BY <2>1, MagNegateIs DEF w
  <2>5. Value(l) \in Nat /\ Value(l) < w
    BY <2>1, BelowWords DEF w
  <2> HIDE DEF m
  <2>6. SUFFICES ASSUME A < B PROVE m = k
    BY <2>1 DEF m, k, l
  <2>7. Value(l) = A - B + w /\ Value(l) > 0
    BY <2>1, <2>3, <2>5, <2>6
  <2> DEFINE z == Value(l)
             j == B - A
  <2>8. z \in Nat /\ z < w /\ z > 0 /\ j \in Nat /\ j < w /\ w - z = j /\ Value(m) = (- z) % w /\ Value(k) = j % w
    BY <2>2, <2>3, <2>4, <2>5, <2>6, <2>7
  <2> HIDE DEF z, j
  <2>9. Value(m) = Value(k)
    <3>1. (- z) % w = w - z
      BY <2>3, <2>8, ModCases
    <3>2. j % w = j
      BY <2>3, <2>8, ModCases
    <3> QED BY <2>8, <3>1, <3>2
  <2> QED BY <2>2, <2>4, <2>9, ValueInjective
<1>7. vt_add(x, y) = ct_add(x, y) \/ vt_add(x, y) = ShortBySigns(x, y, la, lb, mag_sub_short(a, b, la, lb))
  BY <1>3 DEF AddOfLengths
<1>8. ShortBySigns(x, y, la, lb, d) = ct_add(x, y)
  <2>1. CASE x.sign = y.sign
    BY <1>4, <1>x, <2>1 DEF ShortBySigns
  <2>2. CASE x.sign # y.sign
    BY <1>5, <1>6, <1>y, <2>2 DEF ShortBySigns
  <2> QED BY <2>1, <2>2
<1> QED BY <1>4, <1>7, <1>8

-----------------------------------------------------------------------------
(* Order                                                                   *)

Order(u, v) == IF u > v THEN 1 ELSE IF u = v THEN 0 ELSE -1

\* The highest limb that differs decides.
LEMMA MagCmpIs ==
  ASSUME NEW n \in Nat, NEW a \in [0 .. n - 1 -> Word], NEW b \in [0 .. n - 1 -> Word]
  PROVE  mag_cmp(a, b) = Order(Value(a), Value(b))
<1> DEFINE D == {i \in DOMAIN a : a[i] # b[i]}
<1>0. Value(a) \in Nat /\ Value(b) \in Nat
  BY BelowWords
<1>1. CASE D = {}
  <2>1. a = b
    BY <1>1
  <2>2. mag_cmp(a, b) = 0
    BY <1>1 DEF mag_cmp
  <2> QED BY <1>0, <2>1, <2>2 DEF Order
<1>2. CASE D # {}
  <2> DEFINE k == Max(D)
  <2>1. D \subseteq 0 .. n - 1 /\ n - 1 \in Nat
    <3>1. PICK i \in D : TRUE
      BY <1>2
    <3> QED BY <3>1
  <2>2. mag_cmp(a, b) = IF a[k] > b[k] THEN 1 ELSE -1
    BY <1>2 DEF mag_cmp
  <2>3. \A i \in 0 .. n - 1 : i \in D <=> a[i] # b[i]
    OBVIOUS
  <2> HIDE DEF D
  <2>4. k \in D /\ \A y \in D : k >= y
    BY <1>2, <2>1, MaxIs
  <2> HIDE DEF k
  <2>5. k \in 0 .. n - 1 /\ a[k] # b[k] /\ k + 1 \in 0 .. n /\ n \in k + 1 .. n /\ k \in Nat /\ k \in 0 .. n
    BY <2>1, <2>3, <2>4
  <2>6. Agree(a, b, k + 1, n)
    <3> SUFFICES ASSUME NEW i \in k + 1 .. n - 1 PROVE a[i] = b[i]
      BY DEF Agree
    <3>1. i \in 0 .. n - 1 /\ ~(k >= i)
      BY <2>5
    <3> QED BY <2>3, <2>4, <3>1
  <2>7. /\ a \in [0 .. n - 1 -> Int] /\ Value(a) = Below(a)[n] /\ Below(a) \in [0 .. n -> Nat]
        /\ \A i \in 0 .. n - 1 : Below(a)[i + 1] = Below(a)[i] + a[i] * Weight(i)
        /\ \A i \in 0 .. n : Below(a)[i] \in Nat /\ Below(a)[i] < Weight(i)
    BY BelowWords
  <2>8. /\ b \in [0 .. n - 1 -> Int] /\ Value(b) = Below(b)[n] /\ Below(b) \in [0 .. n -> Nat]
        /\ \A i \in 0 .. n - 1 : Below(b)[i + 1] = Below(b)[i] + b[i] * Weight(i)
        /\ \A i \in 0 .. n : Below(b)[i] \in Nat /\ Below(b)[i] < Weight(i)
    BY BelowWords
  <2>9. Below(a)[n] - Below(a)[k + 1] = Below(b)[n] - Below(b)[k + 1]
    BY <2>5, <2>6, <2>7, <2>8, BelowGap DEF Gap
  <2> DEFINE x == a[k]
             y == b[k]
             w == Weight(k)
             p == Below(a)[k]
             q == Below(b)[k]
             A == Value(a)
             B == Value(b)
             aa == Below(a)[k + 1]
             bb == Below(b)[k + 1]
  <2>10. x \in Nat /\ y \in Nat /\ x # y
    BY <2>5, WordsAre
  <2>11. w \in Nat /\ p \in Nat /\ q \in Nat /\ p < w /\ q < w
    BY <2>5, <2>7, <2>8, WeightIs
  <2>12. aa = p + x * w /\ bb = q + y * w
    BY <2>5, <2>7, <2>8
  <2>13. A - aa = B - bb /\ A \in Nat /\ B \in Nat
    BY <1>0, <2>7, <2>8, <2>9
  <2> HIDE DEF x, y, w, p, q, A, B, aa, bb
  <2>14. x > y => x * w >= y * w + w
    <3> SUFFICES ASSUME x > y PROVE x * w >= y * w + w
      OBVIOUS
    <3>1. y + 1 \in Nat /\ y + 1 <= x
      BY <2>10
    <3>2. (y + 1) * w <= x * w
      BY <2>10, <2>11, <3>1, TimesMonotone
    <3> QED BY <2>10, <2>11, <3>2
  <2>15. y > x => y * w >= x * w + w
    <3> SUFFICES ASSUME y > x PROVE y * w >= x * w + w
      OBVIOUS
    <3>1. x + 1 \in Nat /\ x + 1 <= y
      BY <2>10
    <3>2. (x + 1) * w <= y * w
      BY <2>10, <2>11, <3>1, TimesMonotone
    <3> QED BY <2>10, <2>11, <3>2
  <2> DEFINE xw == x * w
             yw == y * w
  <2>16. xw \in Nat /\ yw \in Nat /\ aa = p + xw /\ bb = q + yw /\ (x > y => xw >= yw + w) /\ (y > x => yw >= xw + w)
    BY <2>10, <2>11, <2>12, <2>14, <2>15
  <2> HIDE DEF xw, yw
  <2>17. (x > y => A > B) /\ (y > x => B > A)
    BY <2>10, <2>11, <2>13, <2>16
  <2> QED BY <2>2, <2>10, <2>13, <2>17 DEF Order, x, y, A, B
<1> QED BY <1>1, <1>2

\* cmp and ct_eq of integers that fit: their order.
LEMMA CmpIs ==
  ASSUME NEW n \in Nat, NEW u \in Int, NEW v \in Int, NEW x, NEW y, Stands(x, u, n), Stands(y, v, n),
         Magnitude(u) < Weight(n), Magnitude(v) < Weight(n)
  PROVE  cmp(x, y) = Order(u, v) /\ (ct_eq(x, y) <=> u = v)
<1> DEFINE a == x.limbs
           b == y.limbs
           A == Magnitude(u)
           B == Magnitude(v)
<1>1. a \in [0 .. n - 1 -> Word] /\ Value(a) = A /\ x.sign = (IF u < 0 THEN 1 ELSE 0)
  BY StandsFit
<1>2. b \in [0 .. n - 1 -> Word] /\ Value(b) = B /\ y.sign = (IF v < 0 THEN 1 ELSE 0)
  BY StandsFit
<1>3. A \in Nat /\ A = (IF u < 0 THEN - u ELSE u) /\ (A = 0 <=> u = 0) /\ B \in Nat /\ B = (IF v < 0 THEN - v ELSE v) /\ (B = 0 <=> v = 0)
  BY MagnitudeIs
<1>4. (mag_is_zero(a) <=> u = 0) /\ (mag_is_zero(b) <=> v = 0)
  BY <1>1, <1>2, <1>3, IsZero
<1>5. (is_negative(x) <=> u < 0) /\ (is_negative(y) <=> v < 0)
  BY <1>1, <1>2, <1>4 DEF is_negative
<1>6. mag_cmp(a, b) = Order(A, B) /\ mag_cmp(b, a) = Order(B, A)
  BY <1>1, <1>2, MagCmpIs
<1>7. a = b <=> A = B
  BY <1>1, <1>2, ValueInjective
<1> HIDE DEF a, b, A, B
<1>8. cmp(x, y) = Order(u, v)
  <2>1. CASE u >= 0 /\ v >= 0
    <3>1. cmp(x, y) = mag_cmp(a, b)
      BY <1>5, <2>1 DEF cmp, a, b
    <3> QED BY <1>3, <1>6, <2>1, <3>1
  <2>2. CASE u < 0 /\ v < 0
    <3>1. cmp(x, y) = mag_cmp(b, a)
      BY <1>5, <2>2 DEF cmp, a, b
    <3>2. A = - u /\ B = - v
      BY <1>3, <2>2
    <3> QED BY <1>6, <2>2, <3>1, <3>2 DEF Order
  <2>3. CASE u < 0 /\ v >= 0
    <3>1. cmp(x, y) = -1
      BY <1>5, <2>3 DEF cmp
    <3> QED BY <2>3, <3>1 DEF Order
  <2>4. CASE u >= 0 /\ v < 0
    <3>1. cmp(x, y) = 1
      BY <1>5, <2>4 DEF cmp
    <3> QED BY <2>4, <3>1 DEF Order
  <2> QED BY <2>1, <2>2, <2>3, <2>4
<1>9. ct_eq(x, y) <=> u = v
  <2>1. ct_eq(x, y) <=> (u = 0 /\ v = 0) \/ (x.sign = y.sign /\ a = b)
    BY <1>4 DEF ct_eq, a, b
  <2> QED BY <1>1, <1>2, <1>3, <1>7, <2>1
<1> QED BY <1>8, <1>9

-----------------------------------------------------------------------------
(* Sums of many terms                                                      *)

Total(n) == [limbs : [0 .. n - 1 -> Word], carry : Int]

\* A total is its limbs, and its carry in the weight of the width.
TotalValue(t, n) == Value(t.limbs) + t.carry * Weight(n)

\* A total takes one more term, and the carry it leaves.
LEMMA MacStepIs ==
  ASSUME NEW n \in Nat, NEW t \in Total(n), NEW l \in [0 .. n - 1 -> Word]
  PROVE  /\ mac_step(t, mag_add(t.limbs, l)) \in Total(n)
         /\ TotalValue(mac_step(t, mag_add(t.limbs, l)), n) = TotalValue(t, n) + Value(l)
<1> DEFINE s == mag_add(t.limbs, l)
           w == Weight(n)
           x == Value(t.limbs) + Value(l)
<1>1. t.limbs \in [0 .. n - 1 -> Word] /\ t.carry \in Int
  BY DEF Total
<1>2. s.limbs \in [0 .. n - 1 -> Word] /\ Value(s.limbs) = x % w /\ s.carry = x \div w /\ s.carry \in Int
  BY <1>1, MagAddIs
<1>3. mac_step(t, s) = [limbs |-> s.limbs, carry |-> t.carry + s.carry]
  BY DEF mac_step
<1>4. Value(t.limbs) \in Nat /\ Value(l) \in Nat /\ w \in Nat /\ w > 0
  BY <1>1, BelowWords, WeightIs
<1>5. x \in Nat
  BY <1>4
<1> HIDE DEF s, w, x
<1>6. x = w * (x \div w) + (x % w)
  BY <1>4, <1>5
<1>7. mac_step(t, s) \in Total(n)
  BY <1>1, <1>2, <1>3 DEF Total
<1> DEFINE c == t.carry
           d == s.carry
           p == Value(s.limbs)
<1>8. TotalValue(mac_step(t, s), n) = p + (c + d) * w
  BY <1>3 DEF TotalValue, w
<1>9. p \in Int /\ c \in Int /\ d \in Int /\ x = w * d + p
  BY <1>1, <1>2, <1>4, <1>5, <1>6
<1> HIDE DEF p, c, d
<1>10. p + (c + d) * w = x + c * w
  BY <1>4, <1>9
<1>11. x + c * w = (Value(t.limbs) + c * w) + Value(l)
  <2> DEFINE e == Value(t.limbs)
             f == Value(l)
  <2>1. e \in Int /\ f \in Int /\ x = e + f
    BY <1>4 DEF x
  <2> HIDE DEF e, f
  <2>2. x + c * w = (e + c * w) + f
    BY <1>4, <1>9, <2>1
  <2> QED BY <2>2 DEF e, f
<1>12. TotalValue(mac_step(t, s), n) = TotalValue(t, n) + Value(l)
  BY <1>8, <1>10, <1>11 DEF TotalValue, c, w
<1> QED BY <1>7, <1>12 DEF s

\* The terms of a sum.
Terms(terms, n) ==
    /\ Len(terms) \in Nat
    /\ \A i \in 1 .. Len(terms) : terms[i].limbs \in [0 .. n - 1 -> Word] /\ terms[i].sign \in {0, 1}

\* The totals of the terms of one sign.
LEMMA MacTotalsAre ==
  ASSUME NEW n \in Nat, NEW sign, NEW terms, Terms(terms, n)
  PROVE  /\ mac_totals(terms, n, sign) \in [0 .. Len(terms) -> Total(n)]
         /\ mac_totals(terms, n, sign)[0] = [limbs |-> Zeros(n), carry |-> 0]
         /\ \A i \in 0 .. Len(terms) - 1 : mac_totals(terms, n, sign)[i + 1] = mac_step(mac_totals(terms, n, sign)[i], mag_add(mac_totals(terms, n, sign)[i].limbs, IF terms[(i + 1)].sign = sign THEN terms[(i + 1)].limbs ELSE Zeros(n)))
<1> DEFINE G == [p \in Total(n) \X Nat |-> IF p[2] \in 1 .. Len(terms) THEN mac_step(p[1], mag_add(p[1].limbs, IF terms[p[2]].sign = sign THEN terms[p[2]].limbs ELSE Zeros(n))) ELSE [limbs |-> Zeros(n), carry |-> 0]]
           P(h) == h = [i \in 0 .. Len(terms) |-> IF i = 0 THEN [limbs |-> Zeros(n), carry |-> 0] ELSE mac_step(h[i - 1], mag_add(h[i - 1].limbs, IF terms[i].sign = sign THEN terms[i].limbs ELSE Zeros(n)))]
<1>n. Len(terms) \in Nat
  BY DEF Terms
<1>s. [limbs |-> Zeros(n), carry |-> 0] \in Total(n)
  BY ZerosAre DEF Total
<1>0. ASSUME NEW x \in Total(n), NEW i \in 1 .. Len(terms) PROVE mac_step(x, mag_add(x.limbs, IF terms[i].sign = sign THEN terms[i].limbs ELSE Zeros(n))) \in Total(n)
  <2> DEFINE l == IF terms[i].sign = sign THEN terms[i].limbs ELSE Zeros(n)
  <2>1. l \in [0 .. n - 1 -> Word]
    BY ZerosAre DEF Terms
  <2> HIDE DEF l
  <2>2. mac_step(x, mag_add(x.limbs, l)) \in Total(n)
    BY <2>1, MacStepIs
  <2> QED BY <2>2 DEF l
<1>1. G \in [Total(n) \X Nat -> Total(n)]
  <2> SUFFICES ASSUME NEW p \in Total(n) \X Nat PROVE (IF p[2] \in 1 .. Len(terms) THEN mac_step(p[1], mag_add(p[1].limbs, IF terms[p[2]].sign = sign THEN terms[p[2]].limbs ELSE Zeros(n))) ELSE [limbs |-> Zeros(n), carry |-> 0]) \in Total(n)
    OBVIOUS
  <2>1. p[1] \in Total(n)
    OBVIOUS
  <2> QED BY <1>0, <1>s, <2>1
<1>2. PICK g \in [0 .. Len(terms) -> Total(n)] : Up(g, Len(terms), [limbs |-> Zeros(n), carry |-> 0], G)
  <2> HIDE DEF G
  <2> QED BY <1>n, <1>1, <1>s, Recursion, Zenon
<1>3. ASSUME NEW i \in 1 .. Len(terms), NEW x \in Total(n) PROVE G[<<x, i>>] = mac_step(x, mag_add(x.limbs, IF terms[i].sign = sign THEN terms[i].limbs ELSE Zeros(n)))
  <2> <<x, i>> \in Total(n) \X Nat /\ <<x, i>>[1] = x /\ <<x, i>>[2] = i
    OBVIOUS
  <2> QED OBVIOUS
<1> HIDE DEF G
<1>4. \A i \in 1 .. Len(terms) : g[i] = mac_step(g[i - 1], mag_add(g[i - 1].limbs, IF terms[i].sign = sign THEN terms[i].limbs ELSE Zeros(n)))
  <2> TAKE i \in 1 .. Len(terms)
  <2>1. i - 1 \in 0 .. Len(terms) /\ g[i - 1] \in Total(n)
    OBVIOUS
  <2>2. g[i] = G[<<g[i - 1], i>>]
    BY <1>2 DEF Up
  <2> QED BY <2>1, <2>2, <1>3
<1>5. P(g)
  <2>1. g[0] = [limbs |-> Zeros(n), carry |-> 0]
    BY <1>2 DEF Up
  <2>2. g = [i \in 0 .. Len(terms) |-> g[i]]
    OBVIOUS
  <2>3. \A i \in 0 .. Len(terms) : i # 0 => i \in 1 .. Len(terms)
    OBVIOUS
  <2> QED BY <1>4, <2>1, <2>2, <2>3
<1>6. mac_totals(terms, n, sign) = CHOOSE h : P(h)
  BY DEF mac_totals
<1> DEFINE h == mac_totals(terms, n, sign)
<1>7. P(h)
  <2> HIDE DEF P
  <2> QED BY <1>5, <1>6
<1> HIDE DEF h
<1>8. h = [i \in 0 .. Len(terms) |-> h[i]] /\ h[0] = [limbs |-> Zeros(n), carry |-> 0]
  <2>1. DOMAIN h = 0 .. Len(terms) /\ 0 \in 0 .. Len(terms)
    BY <1>7
  <2> QED BY <1>7, <2>1
<1>9. ASSUME NEW i \in 1 .. Len(terms), h[i - 1] \in Total(n) PROVE h[i] = G[<<h[i - 1], i>>]
  <2>1. i \in 0 .. Len(terms) /\ i # 0
    OBVIOUS
  <2>2. h[i] = mac_step(h[i - 1], mag_add(h[i - 1].limbs, IF terms[i].sign = sign THEN terms[i].limbs ELSE Zeros(n)))
    BY <1>7, <2>1
  <2> QED BY <1>3, <1>9, <2>2
<1>10. UpWithin(h, Len(terms), [limbs |-> Zeros(n), carry |-> 0], Total(n), G)
  BY <1>8, <1>9 DEF UpWithin
<1>11. h = g
  BY <1>n, <1>1, <1>2, <1>s, <1>10, UpUnique, Zenon
<1>12. \A i \in 0 .. Len(terms) - 1 : i + 1 \in 1 .. Len(terms) /\ (i + 1) - 1 = i
  OBVIOUS
<1>13. \A i \in 0 .. Len(terms) - 1 : g[i + 1] = mac_step(g[i], mag_add(g[i].limbs, IF terms[(i + 1)].sign = sign THEN terms[(i + 1)].limbs ELSE Zeros(n)))
  BY <1>4, <1>12
<1> QED BY <1>2, <1>11, <1>13 DEF h, Up


\* The integers that the terms stand for.
Integers(terms) == [i \in 0 .. Len(terms) - 1 |-> IntOf(terms[i + 1])]

\* The integer of a BigInt.
LEMMA IntOfIs ==
  ASSUME NEW n \in Nat, NEW x, x.limbs \in [0 .. n - 1 -> Word], x.sign \in {0, 1}
  PROVE  IntOf(x) \in Int /\ IntOf(x) = (IF x.sign = 1 THEN - Value(x.limbs) ELSE Value(x.limbs)) /\ Value(x.limbs) \in Nat
BY BelowWords DEF IntOf

\* The terms of a sum are integers.
LEMMA IntegersAre ==
  ASSUME NEW n \in Nat, NEW terms, Terms(terms, n)
  PROVE  Len(terms) \in Nat /\ \A i \in 0 .. Len(terms) - 1 : Integers(terms)[i] \in Int
<1>1. Len(terms) \in Nat
  BY DEF Terms
<1>2. ASSUME NEW i \in 0 .. Len(terms) - 1 PROVE Integers(terms)[i] \in Int
  <2>1. i + 1 \in 1 .. Len(terms)
    BY <1>1
  <2> DEFINE x == terms[i + 1]
  <2>2. x.limbs \in [0 .. n - 1 -> Word] /\ x.sign \in {0, 1}
    BY <2>1 DEF Terms
  <2> HIDE DEF x
  <2>3. IntOf(x) \in Int
    BY <2>2, IntOfIs
  <2> QED BY <2>3 DEF Integers, x
<1> QED BY <1>1, <1>2

\* A positive term goes to one total and a negative one to the other.
LEMMA MacTotalsDiffer ==
  ASSUME NEW n \in Nat, NEW terms, Terms(terms, n)
  PROVE  /\ mac_of_sign(terms, n, 0) \in Total(n) /\ mac_of_sign(terms, n, 1) \in Total(n)
         /\ TotalValue(mac_of_sign(terms, n, 0), n) - TotalValue(mac_of_sign(terms, n, 1), n)
              = Sums(Integers(terms), Len(terms))[Len(terms)]
<1> DEFINE m == Len(terms)
           p == mac_totals(terms, n, 0)
           q == mac_totals(terms, n, 1)
           f == Integers(terms)
           z == [limbs |-> Zeros(n), carry |-> 0]
           Limbs0(i, s) == IF terms[i].sign = s THEN terms[i].limbs ELSE Zeros(n)
<1>1. /\ p \in [0 .. m -> Total(n)] /\ p[0] = z
      /\ \A i \in 0 .. m - 1 : p[i + 1] = mac_step(p[i], mag_add(p[i].limbs, Limbs0(i + 1, 0)))
  BY MacTotalsAre
<1>2. /\ q \in [0 .. m -> Total(n)] /\ q[0] = z
      /\ \A i \in 0 .. m - 1 : q[i + 1] = mac_step(q[i], mag_add(q[i].limbs, Limbs0(i + 1, 1)))
  BY MacTotalsAre
<1>3. m \in Nat /\ \A i \in 0 .. m - 1 : f[i] \in Int
  BY IntegersAre
<1>4. ASSUME NEW i \in 1 .. m, NEW s \in {0, 1} PROVE Limbs0(i, s) \in [0 .. n - 1 -> Word]
  BY ZerosAre DEF Terms
<1>5. ASSUME NEW i \in 1 .. m PROVE Value(Limbs0(i, 0)) - Value(Limbs0(i, 1)) = f[i - 1]
  <2> DEFINE x == terms[i]
  <2>1. x.limbs \in [0 .. n - 1 -> Word] /\ x.sign \in {0, 1}
    BY DEF Terms
  <2>2. i - 1 \in 0 .. m - 1 /\ (i - 1) + 1 = i
    BY <1>3
  <2>3. f[i - 1] = IntOf(x)
    BY <2>2 DEF Integers
  <2>4. Value(Zeros(n)) = 0
    BY ZerosAre
  <2>5. IntOf(x) = (IF x.sign = 1 THEN - Value(x.limbs) ELSE Value(x.limbs)) /\ Value(x.limbs) \in Nat
    <3> HIDE DEF x
    <3> QED BY <2>1, IntOfIs
  <2>6. CASE x.sign = 0
    <3>1. Limbs0(i, 0) = x.limbs /\ Limbs0(i, 1) = Zeros(n)
      BY <2>6
    <3> HIDE DEF x, f, Limbs0
    <3> QED BY <2>3, <2>4, <2>5, <2>6, <3>1
  <2>7. CASE x.sign = 1
    <3>1. Limbs0(i, 1) = x.limbs /\ Limbs0(i, 0) = Zeros(n)
      BY <2>7
    <3> HIDE DEF x, f, Limbs0
    <3> QED BY <2>3, <2>4, <2>5, <2>7, <3>1
  <2> QED BY <2>1, <2>6, <2>7
<1> HIDE DEF p, q, f, Limbs0, m, z
<1>6. /\ Sums(f, m) \in [0 .. m -> Int] /\ Sums(f, m)[0] = 0
      /\ \A i \in 0 .. m - 1 : Sums(f, m)[i + 1] = Sums(f, m)[i] + f[i]
  BY <1>3, SumsIs
<1> DEFINE T == {j \in Nat : j <= m => TotalValue(p[j], n) - TotalValue(q[j], n) = Sums(f, m)[j]}
<1>7. 0 \in T
  <2>1. z.limbs = Zeros(n) /\ z.carry = 0 /\ Value(Zeros(n)) = 0 /\ Weight(n) \in Nat
    BY ZerosAre, WeightIs DEF z
  <2>2. TotalValue(z, n) = 0
    BY <2>1 DEF TotalValue
  <2>3. TotalValue(p[0], n) - TotalValue(q[0], n) = Sums(f, m)[0]
    BY <1>1, <1>2, <1>6, <2>2
  <2> QED BY <2>3
<1>8. ASSUME NEW j \in T PROVE j + 1 \in T
  <2>1. SUFFICES ASSUME j + 1 <= m
                 PROVE  TotalValue(p[j + 1], n) - TotalValue(q[j + 1], n) = Sums(f, m)[j + 1]
    OBVIOUS
  <2>2. j \in 0 .. m - 1 /\ j \in 0 .. m /\ j + 1 \in 1 .. m /\ (j + 1) - 1 = j
    BY <2>1, <1>3
  <2>3. TotalValue(p[j], n) - TotalValue(q[j], n) = Sums(f, m)[j]
    BY <2>2
  <2> DEFINE a == Limbs0(j + 1, 0)
             b == Limbs0(j + 1, 1)
  <2>4. a \in [0 .. n - 1 -> Word] /\ b \in [0 .. n - 1 -> Word] /\ Value(a) - Value(b) = f[j]
    BY <1>4, <1>5, <2>2
  <2>5. p[j + 1] = mac_step(p[j], mag_add(p[j].limbs, a)) /\ q[j + 1] = mac_step(q[j], mag_add(q[j].limbs, b))
    BY <1>1, <1>2, <2>2
  <2>6. p[j] \in Total(n) /\ q[j] \in Total(n)
    BY <1>1, <1>2, <2>2
  <2> HIDE DEF a, b
  <2>7. TotalValue(p[j + 1], n) = TotalValue(p[j], n) + Value(a)
    BY <2>4, <2>5, <2>6, MacStepIs
  <2>8. TotalValue(q[j + 1], n) = TotalValue(q[j], n) + Value(b)
    BY <2>4, <2>5, <2>6, MacStepIs
  <2>9. \A t \in Total(n) : TotalValue(t, n) \in Int
    <3> TAKE t \in Total(n)
    <3>1. Value(t.limbs) \in Nat /\ t.carry \in Int /\ Weight(n) \in Nat
      BY BelowWords, WeightIs DEF Total
    <3> QED BY <3>1 DEF TotalValue
  <2> DEFINE P == TotalValue(p[j], n)
             Q == TotalValue(q[j], n)
             va == Value(a)
             vb == Value(b)
  <2>10. P \in Int /\ Q \in Int /\ va \in Int /\ vb \in Int
    BY <2>4, <2>6, <2>9, BelowWords
  <2>11. P - Q = Sums(f, m)[j] /\ va - vb = f[j]
    BY <2>3, <2>4
  <2>12. TotalValue(p[j + 1], n) = P + va /\ TotalValue(q[j + 1], n) = Q + vb
    BY <2>7, <2>8
  <2> HIDE DEF P, Q, va, vb
  <2>13. (P + va) - (Q + vb) = (P - Q) + (va - vb)
    BY <2>10
  <2> QED BY <1>6, <2>2, <2>11, <2>12, <2>13
<1>9. T = Nat
  <2> T \subseteq Nat
    OBVIOUS
  <2> HIDE DEF T
  <2> QED BY <1>7, <1>8, SetInduction
<1>10. TotalValue(p[m], n) - TotalValue(q[m], n) = Sums(f, m)[m]
  <2>1. m \in Nat
    BY <1>3
  <2>2. m \in T
    <3> HIDE DEF T
    <3> QED BY <1>9, <2>1
  <2> QED BY <2>1, <2>2
<1>11. p[m] \in Total(n) /\ q[m] \in Total(n)
  <2> m \in 0 .. m
    BY <1>3
  <2> QED BY <1>1, <1>2
<1>12. mac_of_sign(terms, n, 0) = p[m] /\ mac_of_sign(terms, n, 1) = q[m]
  BY DEF mac_of_sign, p, q, m
<1> QED BY <1>10, <1>11, <1>12 DEF f, m

\* What a total of either sign says of the integer it is for.
LEMMA MacFinalizeIs ==
  ASSUME NEW n \in Nat, NEW p \in Total(n), NEW q \in Total(n)
  PROVE  Stands(mac_finalize(p, q), TotalValue(p, n) - TotalValue(q, n), n)
<1> DEFINE d == mag_sub(p.limbs, q.limbs)
           w == Weight(n)
           P == Value(p.limbs)
           Q == Value(q.limbs)
           c == p.carry
           e == q.carry
           l == d.limbs
           D == Value(l)
           o == d.borrow
           v == TotalValue(p, n) - TotalValue(q, n)
           top == c - e - o
<1>1. p.limbs \in [0 .. n - 1 -> Word] /\ q.limbs \in [0 .. n - 1 -> Word] /\ c \in Int /\ e \in Int
  BY DEF Total
<1>2. P \in Nat /\ Q \in Nat /\ w \in Nat /\ w > 0
  <2>1. P \in Nat /\ Q \in Nat
    BY <1>1, ValueNat
  <2>2. w \in Nat /\ w >= 1
    BY WeightIs
  <2> QED BY <2>1, <2>2
<1>3. l \in [0 .. n - 1 -> Word] /\ o = (IF P < Q THEN 1 ELSE 0) /\ D - o * w = P - Q
  BY <1>1, MagSubIs
<1>4. Width(p.limbs) = n
  BY <1>1, BelowWords
<1>5. mac_finalize(p, q) = IF top >= 0 THEN Big(0, l) ELSE Canonical(1, mag_negate(l))
  BY DEF mac_finalize
<1>6. v = (P + c * w) - (Q + e * w)
  BY DEF TotalValue
<1>n. mag_negate(l) \in [0 .. n - 1 -> Word] /\ Value(mag_negate(l)) = (- D) % w
  <2> HIDE DEF l, D
  <2> QED BY <1>3, MagNegateIs DEF D
<1>7. D \in Nat /\ D < w
  <2> HIDE DEF l
  <2> QED BY <1>3, BelowWords
<1> HIDE DEF d, w, P, Q, c, e, l, D, o, v
<1>8. o \in Int /\ top \in Int
  BY <1>1, <1>3
<1>9. v = D + top * w /\ v \in Int
  <2> DEFINE cw == c * w
             ew == e * w
             ow == o * w
  <2>1. top * w = (cw - ew) - ow
    BY <1>1, <1>2, <1>8
  <2>2. cw \in Int /\ ew \in Int /\ ow \in Int /\ D - ow = P - Q /\ v = (P + cw) - (Q + ew)
    BY <1>1, <1>2, <1>3, <1>6, <1>8
  <2> HIDE DEF cw, ew, ow
  <2>3. v = D + ((cw - ew) - ow) /\ v \in Int
    BY <1>2, <1>7, <2>2
  <2> QED BY <2>1, <2>3
<1> HIDE DEF top
<1>10. CASE top >= 0
  <2>1. top * w \in Nat /\ v >= 0
    BY <1>2, <1>7, <1>8, <1>9, <1>10
  <2>2. D = v % w
    BY <1>7, <1>8, <1>9, CutIs DEF w
  <2>3. Magnitude(v) = v
    BY <1>9, <2>1 DEF Magnitude
  <2> DEFINE x == Big(0, l)
  <2>4. mac_finalize(p, q) = x
    BY <1>5, <1>10
  <2>5. x.sign = 0 /\ x.limbs = l /\ x = Big(x.sign, x.limbs)
    BY DEF Big
  <2> HIDE DEF x
  <2> QED BY <1>3, <1>9, <2>1, <2>2, <2>3, <2>4, <2>5 DEF Stands, D, w, v
<1>11. CASE top < 0
  <2>1. v < 0
    <3>1. (- top) * w >= w /\ (- top) * w = - (top * w) /\ top * w \in Int
      BY <1>2, <1>8, <1>11
    <3> DEFINE tw == top * w
    <3>2. tw \in Int /\ - tw >= w /\ v = D + tw
      BY <1>9, <3>1
    <3> HIDE DEF tw
    <3> QED BY <1>2, <1>7, <3>2
  <2>2. Magnitude(v) = - v /\ - v \in Int
    BY <1>9, <2>1 DEF Magnitude
  <2>3. (- D) % w = (- v) % w
    <3> DEFINE x == - D
    <3>1. - v = x + (- top) * w /\ x \in Int /\ - top \in Int
      BY <1>2, <1>7, <1>8, <1>9
    <3> DEFINE t == - top
    <3>2. - v = x + t * w /\ t \in Int
      BY <3>1
    <3> HIDE DEF x, t
    <3>3. (x + t * w) % w = x % w
      BY <1>2, <3>1, <3>2, ModShift
    <3>4. x % w = (- v) % w
      BY <3>2, <3>3
    <3> QED BY <3>4 DEF x
  <2> DEFINE m == mag_negate(l)
  <2>4. mac_finalize(p, q) = Canonical(1, m)
    BY <1>5, <1>8, <1>11
  <2>5. m \in [0 .. n - 1 -> Word] /\ Value(m) = Magnitude(v) % Weight(n)
    BY <1>n, <2>2, <2>3 DEF w
  <2> HIDE DEF m
  <2>6. Stands(Canonical(1, m), v, n)
    BY <1>9, <2>1, <2>5, CanonicalIs
  <2> QED BY <2>4, <2>6 DEF v
<1> QED BY <1>8, <1>10, <1>11

\* mac_sum: the sum of the terms, cut to the width once.
LEMMA MacSumIs ==
  ASSUME NEW n \in Nat, NEW terms, Terms(terms, n)
  PROVE  Stands(mac_sum(terms, n), Sums(Integers(terms), Len(terms))[Len(terms)], n)
<1> DEFINE p == mac_of_sign(terms, n, 0)
           q == mac_of_sign(terms, n, 1)
           v == Sums(Integers(terms), Len(terms))[Len(terms)]
<1>1. p \in Total(n) /\ q \in Total(n) /\ TotalValue(p, n) - TotalValue(q, n) = v
  BY MacTotalsDiffer
<1>2. mac_sum(terms, n) = mac_finalize(p, q)
  BY DEF mac_sum
<1> HIDE DEF p, q, v
<1>3. Stands(mac_finalize(p, q), TotalValue(p, n) - TotalValue(q, n), n)
  BY <1>1, MacFinalizeIs
<1> QED BY <1>1, <1>2, <1>3 DEF v

-----------------------------------------------------------------------------
(* Rows of a product                                                       *)

\* A word, a product of two words and a carry leave a carry of one word.
LEMMA WordProduct ==
  ASSUME NEW r \in Word, NEW x \in Word, NEW y \in Word, NEW c \in Word
  PROVE  (r + x * y + c) \div Base \in Word
<1> DEFINE B == Base
           z == r + x * y + c
<1>1. B \in Nat /\ B >= 4 /\ r \in 0 .. B - 1 /\ x \in 0 .. B - 1 /\ y \in 0 .. B - 1 /\ c \in 0 .. B - 1
  BY BaseIs DEF Word
<1>2. z \in Nat /\ z < B * B
  <2> DEFINE xy == x * y
             k == B - 1
             kk == k * k
  <2>1. k \in Nat /\ x <= k /\ y <= k /\ B * B = kk + 2 * k + 1 /\ r <= k /\ c <= k
    BY <1>1
  <2>2. x * y <= k * y /\ k * y <= k * k
    <3> HIDE DEF k
    <3>1. x \in Nat /\ y \in Nat
      BY <1>1
    <3>2. x * y <= k * y /\ y * k <= k * k
      BY <2>1, <3>1, TimesMonotone
    <3> QED BY <2>1, <3>1, <3>2
  <2>3. xy \in Nat /\ kk \in Nat /\ xy <= kk /\ B * B \in Nat /\ z = r + xy + c
    <3>1. x * y \in Nat /\ k * y \in Nat /\ k * k \in Nat
      BY <1>1
    <3> HIDE DEF k
    <3> QED BY <1>1, <2>2, <3>1
  <2> HIDE DEF xy, kk, k
  <2>4. r + xy + c \in Nat /\ r + xy + c < B * B
    BY <1>1, <2>1, <2>3
  <2> QED BY <2>3, <2>4
<1> HIDE DEF B, z
<1>3. z \div B \in Nat /\ z = B * (z \div B) + (z % B) /\ z % B \in Nat
  BY <1>1, <1>2
<1> DEFINE q == z \div B
<1>4. q < B
  <2> SUFFICES ASSUME q >= B PROVE FALSE
    BY <1>1, <1>3
  <2>1. B * B <= B * q
    <3>1. q \in Nat
      BY <1>3
    <3> HIDE DEF q
    <3>2. B * B <= q * B
      BY <1>1, <3>1, TimesMonotone
    <3> QED BY <1>1, <3>1, <3>2
  <2>2. B * q \in Nat /\ B * B \in Nat
    BY <1>1, <1>3
  <2> HIDE DEF q
  <2> QED BY <1>2, <1>3, <2>1, <2>2 DEF q
<1> QED BY <1>1, <1>3, <1>4 DEF B, z, Word


\* The carries along a row.
Carried(cy, r, x, b, at, len) ==
    /\ cy \in [0 .. len -> Word] /\ cy[0] = 0
    /\ \A i \in 0 .. len - 1 : cy[i + 1] = (r[at + i] + x * b[i] + cy[i]) \div Base

\* A row carries from each limb to the next.
LEMMA RowCarried ==
  ASSUME NEW n \in Nat, NEW r \in [0 .. n - 1 -> Word], NEW m \in Nat, NEW b \in [0 .. m - 1 -> Word],
         NEW x \in Word, NEW at \in Nat, NEW len \in 0 .. m, at + len <= n
  PROVE  Carried(RowCarries(r, x, b, at, len), r, x, b, at, len)
<1> DEFINE G == [p \in Word \X Nat |-> IF p[2] \in 1 .. len THEN (r[at + p[2] - 1] + x * b[p[2] - 1] + p[1]) \div Base ELSE 0]
           P(h) == h = [i \in 0 .. len |-> IF i = 0 THEN 0 ELSE (r[at + i - 1] + x * b[i - 1] + h[i - 1]) \div Base]
<1>n. len \in Nat
  OBVIOUS
<1>s. 0 \in Word
  BY BaseIs DEF Word
<1>0. ASSUME NEW prev \in Word, NEW i \in 1 .. len PROVE (r[at + i - 1] + x * b[i - 1] + prev) \div Base \in Word
  <2>1. at + i - 1 \in 0 .. n - 1 /\ i - 1 \in 0 .. m - 1
    OBVIOUS
  <2>2. r[at + i - 1] \in Word /\ b[i - 1] \in Word
    BY <2>1
  <2> QED BY <2>2, WordProduct
<1>1. G \in [Word \X Nat -> Word]
  <2> SUFFICES ASSUME NEW p \in Word \X Nat PROVE (IF p[2] \in 1 .. len THEN (r[at + p[2] - 1] + x * b[p[2] - 1] + p[1]) \div Base ELSE 0) \in Word
    OBVIOUS
  <2>1. p[1] \in Word
    OBVIOUS
  <2> QED BY <1>0, <1>s, <2>1
<1>2. PICK g \in [0 .. len -> Word] : Up(g, len, 0, G)
  <2> HIDE DEF G
  <2> QED BY <1>n, <1>1, <1>s, Recursion, Zenon
<1>3. ASSUME NEW i \in 1 .. len, NEW prev \in Word PROVE G[<<prev, i>>] = (r[at + i - 1] + x * b[i - 1] + prev) \div Base
  <2> <<prev, i>> \in Word \X Nat /\ <<prev, i>>[1] = prev /\ <<prev, i>>[2] = i
    OBVIOUS
  <2> QED OBVIOUS
<1> HIDE DEF G
<1>4. \A i \in 1 .. len : g[i] = (r[at + i - 1] + x * b[i - 1] + g[i - 1]) \div Base
  <2> TAKE i \in 1 .. len
  <2>1. i - 1 \in 0 .. len /\ g[i - 1] \in Word
    OBVIOUS
  <2>2. g[i] = G[<<g[i - 1], i>>]
    BY <1>2 DEF Up
  <2> QED BY <2>1, <2>2, <1>3
<1>5. P(g)
  <2>1. g[0] = 0
    BY <1>2 DEF Up
  <2>2. g = [i \in 0 .. len |-> g[i]]
    OBVIOUS
  <2>3. \A i \in 0 .. len : i # 0 => i \in 1 .. len
    OBVIOUS
  <2> QED BY <1>4, <2>1, <2>2, <2>3
<1>6. RowCarries(r, x, b, at, len) = CHOOSE h : P(h)
  BY DEF RowCarries
<1> DEFINE h == RowCarries(r, x, b, at, len)
<1>7. P(h)
  <2> HIDE DEF P
  <2> QED BY <1>5, <1>6
<1> HIDE DEF h
<1>8. h = [i \in 0 .. len |-> h[i]] /\ h[0] = 0
  <2>1. DOMAIN h = 0 .. len /\ 0 \in 0 .. len
    BY <1>7
  <2> QED BY <1>7, <2>1
<1>9. ASSUME NEW i \in 1 .. len, h[i - 1] \in Word PROVE h[i] = G[<<h[i - 1], i>>]
  <2>1. i \in 0 .. len /\ i # 0
    OBVIOUS
  <2>2. h[i] = (r[at + i - 1] + x * b[i - 1] + h[i - 1]) \div Base
    BY <1>7, <2>1
  <2> QED BY <1>3, <1>9, <2>2
<1>10. UpWithin(h, len, 0, Word, G)
  BY <1>8, <1>9 DEF UpWithin
<1>11. h = g
  BY <1>n, <1>1, <1>2, <1>s, <1>10, UpUnique, Zenon
<1>12. \A i \in 0 .. len - 1 : i + 1 \in 1 .. len /\ (i + 1) - 1 = i /\ at + (i + 1) - 1 = at + i
  OBVIOUS
<1>13. \A i \in 0 .. len - 1 : g[i + 1] = (r[at + i] + x * b[i] + g[i]) \div Base
  BY <1>4, <1>12
<1> QED BY <1>2, <1>11, <1>13 DEF h, Up, Carried


\* What a row adds.
RowKept(row, r, x, b, at, len) ==
    Value(row.limbs) + row.carry * Weight(at + len) = Value(r) + (x * Below(b)[len]) * Weight(at)

\* A row adds x times the limbs of b at its place, and carries the rest.
LEMMA RowIs ==
  ASSUME NEW n \in Nat, NEW r \in [0 .. n - 1 -> Word], NEW m \in Nat, NEW b \in [0 .. m - 1 -> Word],
         NEW x \in Word, NEW at \in Nat, NEW len \in 0 .. m, at + len <= n,
         NEW row, row = Row(r, x, b, at, len)
  PROVE  /\ row.limbs \in [0 .. n - 1 -> Word] /\ row.carry \in Word
         /\ RowKept(row, r, x, b, at, len)
<1> DEFINE cy == RowCarries(r, x, b, at, len)
           B == Base
<1>1. /\ cy \in [0 .. len -> Word] /\ cy[0] = 0
      /\ \A i \in 0 .. len - 1 : cy[i + 1] = (r[at + i] + x * b[i] + cy[i]) \div B
  <2> HIDE DEF cy, B
  <2>1. Carried(cy, r, x, b, at, len)
    BY RowCarried DEF cy
  <2> QED BY <2>1 DEF Carried, B
<1> DEFINE l == [k \in DOMAIN r |-> IF k \in at .. at + len - 1
                                    THEN (r[k] + x * b[k - at] + cy[k - at]) % B ELSE r[k]]
<1>2. row.limbs = l /\ row.carry = cy[len]
  BY TableIs DEF Row
<1>3. B \in Nat /\ B >= 4 /\ Word = 0 .. B - 1
  BY BaseIs DEF Word
<1> HIDE DEF cy, B
<1>4. ASSUME NEW j \in 0 .. len - 1 PROVE /\ l[at + j] = (r[at + j] + x * b[j] + cy[j]) % B
                                          /\ r[at + j] + x * b[j] + cy[j] \in Nat
                                          /\ r[at + j] + x * b[j] + cy[j] = B * cy[j + 1] + l[at + j]
  <2>1. at + j \in 0 .. n - 1 /\ at + j \in at .. at + len - 1 /\ (at + j) - at = j /\ j \in 0 .. m - 1 /\ j \in 0 .. len
    OBVIOUS
  <2>2. l[at + j] = (r[at + j] + x * b[j] + cy[j]) % B
    BY <2>1
  <2>3. r[at + j] \in Nat /\ b[j] \in Nat /\ cy[j] \in Nat /\ x \in Nat
    <3>1. r[at + j] \in Word /\ b[j] \in Word /\ cy[j] \in Word
      BY <1>1, <2>1
    <3> QED BY <1>3, <3>1
  <2> DEFINE z == r[at + j] + x * b[j] + cy[j]
  <2>4. z \in Nat
    BY <2>3
  <2> HIDE DEF z
  <2>5. z = B * (z \div B) + (z % B)
    BY <1>3, <2>4
  <2> QED BY <1>1, <2>2, <2>4, <2>5 DEF z
<1>5. l \in [0 .. n - 1 -> Word]
  <2>1. ASSUME NEW k \in 0 .. n - 1 PROVE l[k] \in Word
    <3>1. CASE k \in at .. at + len - 1
      <4>1. k - at \in 0 .. len - 1 /\ at + (k - at) = k
        BY <3>1
      <4> DEFINE z == r[at + (k - at)] + x * b[k - at] + cy[k - at]
      <4>2. l[k] = z % B /\ z \in Nat
        BY <1>4, <4>1
      <4> HIDE DEF z
      <4>3. z % B \in 0 .. B - 1
        BY <1>3, <4>2
      <4> HIDE DEF l
      <4> QED BY <1>3, <4>2, <4>3
    <3>2. CASE k \notin at .. at + len - 1
      BY <3>2
    <3> QED BY <3>1, <3>2
  <2>2. l = [k \in 0 .. n - 1 |-> l[k]]
    OBVIOUS
  <2> HIDE DEF l
  <2> QED BY <2>1, <2>2
<1>6. /\ l \in [0 .. n - 1 -> Int] /\ Below(l) \in [0 .. n -> Nat] /\ Value(l) = Below(l)[n]
      /\ \A i \in 0 .. n - 1 : Below(l)[i + 1] = Below(l)[i] + l[i] * Weight(i)
  <2> HIDE DEF l
  <2> QED BY <1>5, BelowWords
<1>7. /\ r \in [0 .. n - 1 -> Int] /\ Below(r) \in [0 .. n -> Nat] /\ Value(r) = Below(r)[n]
      /\ \A i \in 0 .. n - 1 : Below(r)[i + 1] = Below(r)[i] + r[i] * Weight(i)
  BY BelowWords
<1>8. /\ Below(b) \in [0 .. m -> Nat] /\ Below(b)[0] = 0
      /\ \A i \in 0 .. m - 1 : Below(b)[i + 1] = Below(b)[i] + b[i] * Weight(i)
  BY BelowWords
<1>9. Below(l)[at] = Below(r)[at]
  <2>1. Agree(l, r, 0, at)
    BY DEF Agree
  <2>2. at <= n
    OBVIOUS
  <2> HIDE DEF l
  <2>3. AgreeBelow(l, n, r, n, at) /\ at \in Nat
    BY <1>6, <1>7, <2>1, <2>2 DEF AgreeBelow
  <2> QED BY <2>3, BelowAgree
<1>10. Gap(l, at + len, n) = Gap(r, at + len, n)
  <2>1. Agree(l, r, at + len, n)
    BY DEF Agree
  <2>2. at + len \in 0 .. n /\ n \in at + len .. n
    OBVIOUS
  <2> HIDE DEF l
  <2> QED BY <1>6, <1>7, <2>1, <2>2, BelowGap
<1> HIDE DEF l
<1> DEFINE Holds(j) == Below(l)[at + j] + cy[j] * Weight(at + j) = Below(r)[at + j] + (x * Below(b)[j]) * Weight(at)
           T == {j \in Nat : j <= len => Holds(j)}
<1>11. 0 \in T
  <2>1. at + 0 = at /\ Weight(at) \in Nat /\ Below(r)[at] \in Nat /\ x \in Nat
    <3>1. at \in 0 .. n
      OBVIOUS
    <3> QED BY <1>3, <1>7, <3>1, WeightIs
  <2>2. cy[0] * Weight(at + 0) = 0 /\ (x * Below(b)[0]) * Weight(at) = 0
    BY <1>1, <1>8, <2>1
  <2>3. Holds(0)
    BY <1>9, <2>1, <2>2
  <2> HIDE DEF Holds
  <2> QED BY <2>3
<1>12. ASSUME NEW j \in T PROVE j + 1 \in T
  <2>1. SUFFICES ASSUME j + 1 <= len PROVE Holds(j + 1)
    OBVIOUS
  <2>2. j \in 0 .. len - 1 /\ at + j \in 0 .. n - 1 /\ j \in 0 .. m - 1 /\ j \in Nat /\ at + (j + 1) = (at + j) + 1 /\ at + j \in Nat /\ j + 1 \in 0 .. len /\ j \in 0 .. len
    BY <2>1
  <2> DEFINE p == Below(l)[at + j]
             q == Below(r)[at + j]
             c == cy[j]
             d == cy[j + 1]
             y == b[j]
             s == r[at + j]
             t == l[at + j]
             w == Weight(at + j)
             v == Weight(j)
             u == Weight(at)
             e == Below(b)[j]
  <2>3. p + c * w = q + (x * e) * u
    BY <2>2
  <2>4. s + x * y + c = B * d + t
    BY <1>4, <2>2
  <2>5. Below(l)[(at + j) + 1] = p + t * w /\ Below(r)[(at + j) + 1] = q + s * w /\ Below(b)[j + 1] = e + y * v
    BY <1>6, <1>7, <1>8, <2>2
  <2>6. Weight((at + j) + 1) = B * w
    BY <2>2, WeightNext DEF B
  <2>w. w = u * v
    BY <2>2, WeightAdd
  <2>7. p \in Int /\ q \in Int /\ e \in Int
    BY <1>6, <1>7, <1>8, <2>2
  <2>8. c \in Int /\ d \in Int /\ y \in Int /\ s \in Int /\ t \in Int /\ x \in Int
    <3>1. c \in Word /\ d \in Word /\ y \in Word /\ s \in Word /\ t \in Word
      BY <1>1, <1>5, <2>2
    <3>2. \A z \in Word : z \in Int
      BY <1>3
    <3> HIDE DEF c, d, y, s, t
    <3> QED BY <3>1, <3>2
  <2>9. w \in Int /\ v \in Int /\ u \in Int
    BY <2>2, WeightIs
  <2> HIDE DEF p, q, c, d, y, s, t, w, v, u, e
  <2>10. (p + t * w) + d * (B * w) = (q + s * w) + (x * (e + y * v)) * u
    <3> DEFINE tw == t * w
               dbw == d * (B * w)
               sw == s * w
               xeu == (x * e) * u
               xyw == (x * y) * w
               cw == c * w
    <3>1. (s + x * y + c) * w = sw + xyw + cw
      <4> DEFINE xy == x * y
      <4>1. xy \in Int
        BY <2>8
      <4> HIDE DEF xy
      <4>2. (s + xy + c) * w = s * w + xy * w + c * w
        BY <2>8, <2>9, <4>1
      <4> QED BY <4>2 DEF xy
    <3>2. (B * d + t) * w = dbw + tw
      BY <1>3, <2>8, <2>9
    <3>3. (x * (e + y * v)) * u = xeu + xyw
      <4>1. x * (e + y * v) = x * e + (x * y) * v
        BY <2>7, <2>8, <2>9
      <4> DEFINE xe == x * e
                 xy == x * y
      <4>2. xe \in Int /\ xy \in Int
        BY <2>7, <2>8
      <4> HIDE DEF xe, xy
      <4>3. (xe + xy * v) * u = xe * u + xy * (u * v)
        BY <2>9, <4>2
      <4> QED BY <2>w, <4>1, <4>3 DEF xe, xy
    <3>4. tw \in Int /\ dbw \in Int /\ sw \in Int /\ xeu \in Int /\ xyw \in Int /\ cw \in Int
      BY <1>3, <2>7, <2>8, <2>9
    <3>5. sw + xyw + cw = dbw + tw /\ p + cw = q + xeu
      BY <2>3, <2>4, <3>1, <3>2
    <3> HIDE DEF tw, dbw, sw, xeu, xyw, cw
    <3>6. (p + tw) + dbw = (q + sw) + (xeu + xyw)
      BY <2>7, <3>4, <3>5
    <3> QED BY <3>3, <3>6 DEF tw, dbw, sw
  <2> QED BY <2>2, <2>5, <2>6, <2>10 DEF d, u
<1>13. T = Nat
  <2> T \subseteq Nat
    OBVIOUS
  <2> HIDE DEF T
  <2> QED BY <1>11, <1>12, SetInduction
<1>14. Holds(len)
  <2>1. len \in Nat
    OBVIOUS
  <2>2. len \in T
    <3> HIDE DEF T
    <3> QED BY <1>13, <2>1
  <2> QED BY <2>1, <2>2
<1>15. RowKept(row, r, x, b, at, len)
  <2> DEFINE p == Below(l)[at + len]
             q == Below(r)[at + len]
             L == Value(l)
             R == Value(r)
             c == cy[len] * Weight(at + len)
             d == (x * Below(b)[len]) * Weight(at)
  <2>1. at + len \in 0 .. n /\ at + len \in Nat /\ len \in 0 .. len /\ n \in 0 .. n
    OBVIOUS
  <2>2. p + c = q + d /\ L - p = R - q
    BY <1>6, <1>7, <1>10, <1>14 DEF Gap
  <2>3. p \in Int /\ q \in Int /\ L \in Int /\ R \in Int
    BY <1>6, <1>7, <2>1
  <2>4. c \in Int /\ d \in Int
    <3>1. cy[len] \in Int /\ x \in Int /\ Weight(at + len) \in Int /\ Weight(at) \in Int
      <4>1. cy[len] \in Word
        BY <1>1, <2>1
      <4>2. x \in Int /\ cy[len] \in Int
        BY <1>3, <4>1
      <4> QED BY <2>1, <4>2, WeightIs
    <3>2. Below(b)[len] \in Int
      BY <1>8
    <3> QED BY <3>1, <3>2
  <2> HIDE DEF p, q, L, R, c, d
  <2>5. L + c = R + d
    BY <2>2, <2>3, <2>4
  <2> QED BY <1>2, <2>5 DEF RowKept, L, R, c, d
<1>16. row.carry \in Word
  <2> len \in 0 .. len
    OBVIOUS
  <2> QED BY <1>1, <1>2
<1> QED BY <1>2, <1>5, <1>15, <1>16


-----------------------------------------------------------------------------
(* Products, cut to the width                                              *)

\* x and y agree below the weight of n limbs.
Same(x, y, n) == \E t \in Int : x = y + t * Weight(n)

\* Same is reflexive,
LEMMA SameRefl ==
  ASSUME NEW n \in Nat, NEW x \in Int
  PROVE  Same(x, x, n)
<1>1. Weight(n) \in Nat
  BY WeightIs
<1>2. x = x + 0 * Weight(n)
  BY <1>1
<1> QED BY <1>2 DEF Same

\* symmetric
LEMMA SameSym ==
  ASSUME NEW n \in Nat, NEW x \in Int, NEW y \in Int, Same(x, y, n)
  PROVE  Same(y, x, n)
<1>1. PICK t \in Int : x = y + t * Weight(n)
  BY DEF Same
<1> DEFINE w == Weight(n)
           s == - t
<1>2. w \in Int /\ x = y + t * w /\ s \in Int
  BY <1>1, WeightIs
<1>3. s * w = - (t * w)
  BY <1>2
<1> DEFINE tw == t * w
<1>4. tw \in Int /\ s * w = - tw /\ x = y + tw
  BY <1>2, <1>3
<1> HIDE DEF tw, s, w
<1>5. y = x + s * w
  BY <1>4
<1> QED BY <1>2, <1>5 DEF Same, w

\* and transitive,
LEMMA SameTrans ==
  ASSUME NEW n \in Nat, NEW x \in Int, NEW y \in Int, NEW z \in Int, Same(x, y, n), Same(y, z, n)
  PROVE  Same(x, z, n)
<1>1. PICK t \in Int : x = y + t * Weight(n)
  BY DEF Same
<1>2. PICK s \in Int : y = z + s * Weight(n)
  BY DEF Same
<1> DEFINE w == Weight(n)
           q == t + s
<1>3. w \in Int /\ q \in Int /\ q * w = t * w + s * w /\ t * w \in Int /\ s * w \in Int
  BY WeightIs
<1> DEFINE tw == t * w
           sw == s * w
<1>4. tw \in Int /\ sw \in Int /\ x = y + tw /\ y = z + sw /\ q * w = tw + sw
  BY <1>1, <1>2, <1>3
<1> HIDE DEF tw, sw, w, q
<1>5. x = z + q * w
  BY <1>4
<1> QED BY <1>3, <1>5 DEF Same, w

\* and it is kept by sums.
LEMMA SameAdd ==
  ASSUME NEW n \in Nat, NEW x \in Int, NEW y \in Int, NEW u \in Int, NEW v \in Int, Same(x, y, n), Same(u, v, n)
  PROVE  Same(x + u, y + v, n)
<1>1. PICK t \in Int : x = y + t * Weight(n)
  BY DEF Same
<1>2. PICK s \in Int : u = v + s * Weight(n)
  BY DEF Same
<1> DEFINE w == Weight(n)
           q == t + s
<1>3. w \in Int /\ q \in Int /\ q * w = t * w + s * w /\ t * w \in Int /\ s * w \in Int
  BY WeightIs
<1> DEFINE tw == t * w
           sw == s * w
<1>4. tw \in Int /\ sw \in Int /\ x = y + tw /\ u = v + sw /\ q * w = tw + sw
  BY <1>1, <1>2, <1>3
<1> HIDE DEF tw, sw, w, q
<1>5. x + u = (y + v) + q * w
  BY <1>4
<1> QED BY <1>3, <1>5 DEF Same, w

\* A multiple of the weight of m limbs is nothing below that of n, if m is n or more.
LEMMA SameHigh ==
  ASSUME NEW n \in Nat, NEW m \in Nat, n <= m, NEW q \in Int, NEW t \in Int, q = t * Weight(m)
  PROVE  Same(q, 0, n)
<1>1. m - n \in Nat /\ m = n + (m - n)
  OBVIOUS
<1>2. Weight(m) = Weight(n) * Weight(m - n)
  <2> DEFINE d == m - n
  <2>1. d \in Nat /\ m = n + d
    BY <1>1
  <2> HIDE DEF d
  <2>2. Weight(n + d) = Weight(n) * Weight(d)
    BY <2>1, WeightAdd
  <2> QED BY <2>1, <2>2 DEF d
<1> DEFINE w == Weight(n)
           v == Weight(m - n)
           s == t * v
<1>w. w \in Int /\ v \in Int
  <2>1. w \in Nat
    BY WeightIs
  <2>2. v \in Nat
    BY <1>1, WeightIs
  <2> QED BY <2>1, <2>2
<1>3. q = s * w /\ s \in Int
  BY <1>2, <1>w
<1>4. s * w = 0 + s * w
  BY <1>w, <1>3
<1> HIDE DEF s
<1>5. q = 0 + s * Weight(n)
  BY <1>3, <1>4
<1> QED BY <1>3, <1>5 DEF Same

\* What fits the width is the remainder of what it is the same as.
LEMMA SameMod ==
  ASSUME NEW n \in Nat, NEW x \in Nat, x < Weight(n), NEW y \in Int, Same(x, y, n)
  PROVE  x = y % Weight(n)
<1>1. PICK t \in Int : y = x + t * Weight(n)
  BY SameSym DEF Same
<1> QED BY <1>1, CutIs

\* A row of as many limbs as fit adds x times the whole of b.
LEMMA RowSame ==
  ASSUME NEW n \in Nat, NEW r \in [0 .. n - 1 -> Word], NEW m \in Nat, NEW b \in [0 .. m - 1 -> Word],
         NEW x \in Word, NEW at \in Nat, NEW len \in 0 .. m, at + len = n,
         NEW row, row = Row(r, x, b, at, len)
  PROVE  Same(Value(row.limbs), Value(r) + (x * Value(b)) * Weight(at), n)
<1> DEFINE V == Value(row.limbs)
           R == Value(r)
           W == Weight(n)
           w == Weight(at)
           v == Weight(len)
           e == Below(b)[len]
           B == Value(b)
           c == row.carry
<1>1. row.limbs \in [0 .. n - 1 -> Word] /\ c \in Word /\ RowKept(row, r, x, b, at, len)
  <2> at + len <= n
    OBVIOUS
  <2> QED BY RowIs
<1>2. V + c * W = R + (x * e) * w
  BY <1>1 DEF RowKept
<1>3. PICK t \in Nat : B = e + t * v
  BY AboveIs
<1>4. V \in Int /\ R \in Int
  <2>1. Value(r) \in Nat
    BY ValueNat
  <2>2. row.limbs \in [0 .. n - 1 -> Word]
    BY <1>1
  <2> DEFINE l == row.limbs
  <2> HIDE DEF l
  <2>3. Value(l) \in Nat
    BY <2>2, ValueNat DEF l
  <2> QED BY <2>1, <2>3 DEF l
<1>5. W \in Int /\ w \in Int /\ v \in Int /\ W = w * v
  <2>1. len \in Nat /\ Weight(at + len) = Weight(n)
    OBVIOUS
  <2>2. Weight(at + len) = Weight(at) * Weight(len)
    BY <2>1, WeightAdd
  <2>3. W \in Int /\ w \in Int /\ v \in Int
    BY <2>1, WeightIs
  <2> QED BY <2>1, <2>2, <2>3
<1>6. e \in Int /\ c \in Int /\ x \in Int
  <2>1. \A z \in Word : z \in Int
    BY BaseIs
  <2>2. Below(b) \in [0 .. m -> Nat]
    BY BelowWords
  <2> QED BY <1>1, <2>1, <2>2
<1> HIDE DEF V, R, w, v, e, B, c, W
<1>7. (x * B) * w = (x * e) * w + (x * t) * W
  <2>1. x * (e + t * v) = x * e + (x * t) * v
    BY <1>5, <1>6
  <2> DEFINE p == x * e
             q == x * t
  <2>2. p \in Int /\ q \in Int
    BY <1>6
  <2> HIDE DEF p, q
  <2>3. (p + q * v) * w = p * w + q * (w * v)
    BY <1>5, <2>2
  <2> QED BY <1>3, <1>5, <2>1, <2>3 DEF p, q
<1> DEFINE s == c + x * t
           p == (x * e) * w
           q == (x * t) * W
           o == c * W
           f == - s
<1>8. s * W = o + q /\ p \in Int /\ q \in Int /\ o \in Int /\ s \in Int /\ f \in Int /\ f * W = - (s * W)
  BY <1>5, <1>6
<1>9. V + o = R + p
  BY <1>2
<1> DEFINE k == (x * B) * w
<1>10. k = p + q
  BY <1>7
<1> HIDE DEF s, p, q, o, k, f
<1>11. V = (R + k) + f * W
  BY <1>4, <1>8, <1>9, <1>10
<1> QED BY <1>8, <1>11 DEF Same, V, R, k, B, w, W

\* The rows of the portable product.
LEMMA RowsByWidth ==
  ASSUME NEW n \in Nat, NEW a \in [0 .. n - 1 -> Word], NEW b \in [0 .. n - 1 -> Word]
  PROVE  /\ Rows(a, b) \in [0 .. Width(a) -> [0 .. n - 1 -> Word]]
         /\ Rows(a, b)[0] = Zeros(Width(a))
         /\ \A i \in 0 .. Width(a) - 1 : Rows(a, b)[i + 1] = Row(Rows(a, b)[i], a[i], b, i, Width(a) - (i)).limbs
<1> DEFINE G == [p \in [0 .. n - 1 -> Word] \X Nat |-> IF p[2] \in 1 .. Width(a) THEN Row(p[1], a[p[2] - 1], b, p[2] - 1, Width(a) - (p[2] - 1)).limbs ELSE Zeros(Width(a))]
           P(h) == h = [i \in 0 .. Width(a) |-> IF i = 0 THEN Zeros(Width(a)) ELSE CHOOSE next \in {Row(s, a[i - 1], b, i - 1, Width(a) - (i - 1)).limbs : s \in {h[i - 1]}} : TRUE]
<1>n. Width(a) = n /\ Width(a) \in Nat
  BY WidthIs
<1>s. Zeros(Width(a)) \in [0 .. n - 1 -> Word]
  BY <1>n, ZerosAre
<1>0. ASSUME NEW prev \in [0 .. n - 1 -> Word], NEW i \in 1 .. Width(a) PROVE Row(prev, a[i - 1], b, i - 1, Width(a) - (i - 1)).limbs \in [0 .. n - 1 -> Word]
  <2>1. i - 1 \in 0 .. n - 1 /\ i - 1 \in Nat /\ n - (i - 1) \in 0 .. n /\ (i - 1) + (n - (i - 1)) <= n
    BY <1>n
  <2>2. a[i - 1] \in Word
    BY <2>1
  <2> DEFINE x == a[i - 1]
             at == i - 1
             len == n - at
             row == Row(prev, x, b, at, len)
  <2>3. at \in Nat /\ x \in Word /\ len \in 0 .. n /\ at + len <= n
    BY <2>1, <2>2
  <2> HIDE DEF x, at, len
  <2>4. row.limbs \in [0 .. n - 1 -> Word]
    <3> HIDE DEF row
    <3> QED BY <2>3, RowIs DEF row
  <2> QED BY <1>n, <2>4 DEF x, at, len
<1>1. G \in [[0 .. n - 1 -> Word] \X Nat -> [0 .. n - 1 -> Word]]
  <2> SUFFICES ASSUME NEW p \in [0 .. n - 1 -> Word] \X Nat PROVE (IF p[2] \in 1 .. Width(a) THEN Row(p[1], a[p[2] - 1], b, p[2] - 1, Width(a) - (p[2] - 1)).limbs ELSE Zeros(Width(a))) \in [0 .. n - 1 -> Word]
    OBVIOUS
  <2>1. p[1] \in [0 .. n - 1 -> Word]
    OBVIOUS
  <2> QED BY <1>0, <1>s, <2>1
<1>2. PICK g \in [0 .. Width(a) -> [0 .. n - 1 -> Word]] : Up(g, Width(a), Zeros(Width(a)), G)
  <2> HIDE DEF G
  <2> QED BY <1>n, <1>1, <1>s, Recursion, Zenon
<1>3. ASSUME NEW i \in 1 .. Width(a), NEW prev \in [0 .. n - 1 -> Word] PROVE G[<<prev, i>>] = Row(prev, a[i - 1], b, i - 1, Width(a) - (i - 1)).limbs
  <2> <<prev, i>> \in [0 .. n - 1 -> Word] \X Nat /\ <<prev, i>>[1] = prev /\ <<prev, i>>[2] = i
    OBVIOUS
  <2> QED OBVIOUS
<1> HIDE DEF G
<1>4. \A i \in 1 .. Width(a) : g[i] = Row(g[i - 1], a[i - 1], b, i - 1, Width(a) - (i - 1)).limbs
  <2> TAKE i \in 1 .. Width(a)
  <2>1. i - 1 \in 0 .. Width(a) /\ g[i - 1] \in [0 .. n - 1 -> Word]
    BY <1>n
  <2>2. g[i] = G[<<g[i - 1], i>>]
    BY <1>2 DEF Up
  <2> QED BY <2>1, <2>2, <1>3
<1>c. ASSUME NEW i, NEW z PROVE (CHOOSE next \in {Row(s, a[i - 1], b, i - 1, Width(a) - (i - 1)).limbs : s \in {z}} : TRUE) = Row(z, a[i - 1], b, i - 1, Width(a) - (i - 1)).limbs
  <2>1. {Row(s, a[i - 1], b, i - 1, Width(a) - (i - 1)).limbs : s \in {z}} = {Row(z, a[i - 1], b, i - 1, Width(a) - (i - 1)).limbs}
    OBVIOUS
  <2> QED BY <2>1
<1>5. P(g)
  <2>1. g[0] = Zeros(Width(a))
    BY <1>2 DEF Up
  <2>2. g = [i \in 0 .. Width(a) |-> g[i]]
    OBVIOUS
  <2>3. \A i \in 0 .. Width(a) : i # 0 => i \in 1 .. Width(a)
    BY <1>n
  <2> QED BY <1>c, <1>4, <2>1, <2>2, <2>3
<1>6. Rows(a, b) = CHOOSE h : P(h)
  BY DEF Rows, Iterates
<1> DEFINE h == Rows(a, b)
<1>7. P(h)
  <2> HIDE DEF P
  <2> QED BY <1>5, <1>6
<1> HIDE DEF h
<1>8. h = [i \in 0 .. Width(a) |-> h[i]] /\ h[0] = Zeros(Width(a))
  <2>1. DOMAIN h = 0 .. Width(a) /\ 0 \in 0 .. Width(a)
    BY <1>n, <1>7
  <2> QED BY <1>7, <2>1
<1>9. ASSUME NEW i \in 1 .. Width(a), h[i - 1] \in [0 .. n - 1 -> Word] PROVE h[i] = G[<<h[i - 1], i>>]
  <2>1. i \in 0 .. Width(a) /\ i # 0
    BY <1>n
  <2>2. h[i] = Row(h[i - 1], a[i - 1], b, i - 1, Width(a) - (i - 1)).limbs
    BY <1>c, <1>7, <2>1
  <2> QED BY <1>3, <1>9, <2>2
<1>10. UpWithin(h, Width(a), Zeros(Width(a)), [0 .. n - 1 -> Word], G)
  BY <1>8, <1>9 DEF UpWithin
<1>11. h = g
  BY <1>n, <1>1, <1>2, <1>s, <1>10, UpUnique, Zenon
<1>12. \A i \in 0 .. Width(a) - 1 : i + 1 \in 1 .. Width(a) /\ (i + 1) - 1 = i
  BY <1>n
<1>13. \A i \in 0 .. Width(a) - 1 : g[i + 1] = Row(g[i], a[i], b, i, Width(a) - (i)).limbs
  BY <1>4, <1>12
<1> QED BY <1>2, <1>11, <1>13 DEF h, Up


\* Every step adds its product: x times B at its place.
Grows(f, a, B, k, n) ==
    /\ f \in [0 .. k -> Int] /\ f[0] = 0
    /\ \A i \in 0 .. k - 1 : Same(f[i + 1], f[i] + (a[i] * B) * Weight(i), n)

\* The steps below k add what the limbs below k are worth.
LEMMA StepsAdd ==
  ASSUME NEW n \in Nat, NEW a \in [0 .. n - 1 -> Word], NEW B \in Nat, NEW k \in 0 .. n,
         NEW f, Grows(f, a, B, k, n)
  PROVE  Same(f[k], Below(a)[k] * B, n)
<1>1. /\ f \in [0 .. k -> Int] /\ f[0] = 0
      /\ \A i \in 0 .. k - 1 : Same(f[i + 1], f[i] + (a[i] * B) * Weight(i), n)
  BY DEF Grows
<1>2. /\ Below(a) \in [0 .. n -> Nat] /\ Below(a)[0] = 0
      /\ \A i \in 0 .. n - 1 : Below(a)[i + 1] = Below(a)[i] + a[i] * Weight(i)
  BY BelowWords
<1> DEFINE T == {j \in Nat : j <= k => Same(f[j], Below(a)[j] * B, n)}
<1>4. 0 \in T
  <2>1. f[0] = 0 /\ Below(a)[0] * B = 0
    BY <1>1, <1>2
  <2>2. Same(f[0], Below(a)[0] * B, n)
    BY <2>1, SameRefl
  <2> QED BY <2>2
<1>5. ASSUME NEW j \in T PROVE j + 1 \in T
  <2>1. SUFFICES ASSUME j + 1 <= k PROVE Same(f[j + 1], Below(a)[j + 1] * B, n)
    OBVIOUS
  <2>2. j \in 0 .. k - 1 /\ j \in 0 .. n - 1 /\ j \in 0 .. k /\ j \in Nat /\ j + 1 \in 0 .. k /\ j \in 0 .. n
    BY <2>1
  <2> DEFINE R == f[j]
             V == f[j + 1]
             x == a[j]
             u == Below(a)[j]
             w == Weight(j)
  <2>3. R \in Int /\ x \in Word /\ V \in Int
    BY <1>1, <2>2
  <2>5. u \in Nat /\ w \in Nat /\ x \in Nat /\ Below(a)[j + 1] = u + x * w
    <3>1. w \in Nat
      BY <2>2, WeightIs
    <3>2. x \in Nat
      BY <2>3, WordIs
    <3> QED BY <1>2, <2>2, <3>1, <3>2
  <2>6. Same(R, u * B, n)
    BY <2>2
  <2>7. Same(V, R + (x * B) * w, n)
    BY <1>1, <2>2
  <2> HIDE DEF x, u, w
  <2> DEFINE p == (x * B) * w
             q == u * B
  <2>8. p \in Int /\ q \in Int
    BY <2>5
  <2>9. (u + x * w) * B = q + p
    BY <2>5
  <2>10. Same(R, q, n) /\ Same(V, R + p, n)
    BY <2>6, <2>7
  <2>g. Below(a)[j + 1] * B = q + p
    BY <2>5, <2>9
  <2> HIDE DEF p, q
  <2>11. Same(p, p, n)
    BY <2>8, SameRefl
  <2> HIDE DEF R, V
  <2>12. Same(R + p, q + p, n)
    BY <2>3, <2>8, <2>10, <2>11, SameAdd
  <2>13. R + p \in Int /\ q + p \in Int
    BY <2>3, <2>8
  <2>14. Same(V, q + p, n)
    BY <2>3, <2>8, <2>10, <2>12, <2>13, SameTrans
  <2> QED BY <2>g, <2>14 DEF V
<1>6. T = Nat
  <2> T \subseteq Nat
    OBVIOUS
  <2> HIDE DEF T
  <2> QED BY <1>4, <1>5, SetInduction
<1>7. k \in T
  <2> k \in Nat
    OBVIOUS
  <2> HIDE DEF T
  <2> QED BY <1>6
<1> QED BY <1>7

\* So does every row.
Adds(h, a, B, k, n) ==
    /\ h \in [0 .. k -> [0 .. n - 1 -> Word]] /\ h[0] = Zeros(n)
    /\ \A i \in 0 .. k - 1 : Same(Value(h[i + 1]), Value(h[i]) + (a[i] * B) * Weight(i), n)

\* So do the rows.
LEMMA RowsAdd ==
  ASSUME NEW n \in Nat, NEW a \in [0 .. n - 1 -> Word], NEW B \in Nat, NEW k \in 0 .. n,
         NEW h, Adds(h, a, B, k, n)
  PROVE  Same(Value(h[k]), Below(a)[k] * B, n) /\ h[k] \in [0 .. n - 1 -> Word]
<1>1. /\ h \in [0 .. k -> [0 .. n - 1 -> Word]] /\ h[0] = Zeros(n)
      /\ \A i \in 0 .. k - 1 : Same(Value(h[i + 1]), Value(h[i]) + (a[i] * B) * Weight(i), n)
  BY DEF Adds
<1> DEFINE f == [i \in 0 .. k |-> Value(h[i])]
<1>2. k \in 0 .. k /\ h[k] \in [0 .. n - 1 -> Word] /\ f[k] = Value(h[k])
  BY <1>1
<1>3. f \in [0 .. k -> Int]
  <2> SUFFICES ASSUME NEW i \in 0 .. k PROVE Value(h[i]) \in Int
    OBVIOUS
  <2> DEFINE r == h[i]
  <2>1. r \in [0 .. n - 1 -> Word]
    BY <1>1
  <2> HIDE DEF r
  <2>2. Value(r) \in Nat
    BY <2>1, ValueNat
  <2> QED BY <2>2 DEF r
<1>4. f[0] = 0
  BY <1>1, ZerosAre
<1>5. ASSUME NEW i \in 0 .. k - 1 PROVE Same(f[i + 1], f[i] + (a[i] * B) * Weight(i), n)
  <2>1. i \in 0 .. k /\ i + 1 \in 0 .. k
    OBVIOUS
  <2>2. f[i + 1] = Value(h[i + 1]) /\ f[i] = Value(h[i])
    BY <2>1
  <2> HIDE DEF f
  <2> QED BY <1>1, <2>2
<1>6. Grows(f, a, B, k, n)
  <2> HIDE DEF f
  <2> QED BY <1>3, <1>4, <1>5 DEF Grows
<1> HIDE DEF f
<1> QED BY <1>2, <1>6, StepsAdd

\* A product is the one value below the width.
LEMMA ProductIs ==
  ASSUME NEW n \in Nat, NEW l \in [0 .. n - 1 -> Word], NEW y \in Int, Same(Value(l), y, n)
  PROVE  Value(l) = y % Weight(n)
<1> Value(l) \in Nat /\ Value(l) < Weight(n)
  BY ValueNat
<1> QED BY SameMod

\* mag_mul: the product cut to the width.
LEMMA MagMulIs ==
  ASSUME NEW n \in Nat, NEW a \in [0 .. n - 1 -> Word], NEW b \in [0 .. n - 1 -> Word]
  PROVE  mag_mul(a, b) \in [0 .. n - 1 -> Word] /\ Value(mag_mul(a, b)) = (Value(a) * Value(b)) % Weight(n)
<1> DEFINE h == Rows(a, b)
           B == Value(b)
<1>n. Width(a) = n
  BY WidthIs
<1>1. /\ h \in [0 .. n -> [0 .. n - 1 -> Word]] /\ h[0] = Zeros(n)
      /\ \A i \in 0 .. n - 1 : h[i + 1] = Row(h[i], a[i], b, i, n - i).limbs
  BY <1>n, RowsByWidth
<1>2. B \in Nat /\ n \in 0 .. n /\ Value(a) \in Nat
  <2>1. Value(a) \in Nat
    BY ValueNat
  <2>2. B \in Nat
    BY ValueNat
  <2> QED BY <2>1, <2>2
<1>3. mag_mul(a, b) = h[n] /\ Value(a) = Below(a)[n]
  BY <1>n, BelowWords DEF mag_mul
<1> HIDE DEF h
<1>4. ASSUME NEW i \in 0 .. n - 1 PROVE Same(Value(h[i + 1]), Value(h[i]) + (a[i] * B) * Weight(i), n)
  <2> DEFINE x == a[i]
             r == h[i]
             len == n - i
             row == Row(r, x, b, i, len)
  <2>1. r \in [0 .. n - 1 -> Word] /\ x \in Word /\ len \in 0 .. n /\ i + len = n /\ i \in Nat /\ h[i + 1] = row.limbs
    BY <1>1
  <2> HIDE DEF x, r, len, row
  <2>2. Same(Value(row.limbs), Value(r) + (x * B) * Weight(i), n)
    BY <2>1, RowSame DEF row
  <2> QED BY <2>1, <2>2 DEF x, r
<1>5. Adds(h, a, B, n, n)
  BY <1>1, <1>4 DEF Adds
<1> HIDE DEF B
<1>6. Same(Value(h[n]), Below(a)[n] * B, n) /\ h[n] \in [0 .. n - 1 -> Word]
  BY <1>2, <1>5, RowsAdd
<1>7. Value(h[n]) = (Value(a) * B) % Weight(n)
  <2> DEFINE y == Value(a) * B
             l == h[n]
  <2>1. y \in Int /\ l \in [0 .. n - 1 -> Word] /\ Same(Value(l), y, n)
    BY <1>2, <1>3, <1>6
  <2> HIDE DEF y, l
  <2>2. Value(l) = y % Weight(n)
    BY <2>1, ProductIs
  <2> QED BY <2>2 DEF y, l
<1> QED BY <1>3, <1>6, <1>7 DEF B



\* An array in which one limb is another.
LEMMA ValueChanged ==
  ASSUME NEW n \in Nat, NEW a \in [0 .. n - 1 -> Int], NEW c \in [0 .. n - 1 -> Int], NEW k \in 0 .. n - 1,
         \A i \in 0 .. n - 1 : i # k => c[i] = a[i]
  PROVE  Value(c) = Value(a) + (c[k] - a[k]) * Weight(k) /\ Value(a) \in Int /\ Value(c) \in Int
<1>1. /\ Below(a) \in [0 .. n -> Int] /\ Value(a) = Below(a)[n]
      /\ \A i \in 0 .. n - 1 : Below(a)[i + 1] = Below(a)[i] + a[i] * Weight(i)
  BY BelowIs
<1>2. /\ Below(c) \in [0 .. n -> Int] /\ Value(c) = Below(c)[n]
      /\ \A i \in 0 .. n - 1 : Below(c)[i + 1] = Below(c)[i] + c[i] * Weight(i)
  BY BelowIs
<1>3. k \in Nat /\ k <= n /\ k \in 0 .. n /\ k + 1 \in 0 .. n /\ n \in k + 1 .. n /\ n \in 0 .. n
  OBVIOUS
<1>4. Below(c)[k] = Below(a)[k]
  <2>1. Agree(c, a, 0, k)
    BY DEF Agree
  <2>2. AgreeBelow(c, n, a, n, k)
    BY <1>3, <2>1 DEF AgreeBelow
  <2> QED BY <1>3, <2>2, BelowAgree
<1>5. Gap(c, k + 1, n) = Gap(a, k + 1, n)
  <2>1. Agree(c, a, k + 1, n)
    BY DEF Agree
  <2> QED BY <1>3, <2>1, BelowGap
<1> DEFINE p == Below(a)[k]
           A == Value(a)
           C == Value(c)
           aa == Below(a)[k + 1]
           cc == Below(c)[k + 1]
           x == a[k]
           y == c[k]
           w == Weight(k)
<1>6. p \in Int /\ A \in Int /\ C \in Int /\ x \in Int /\ y \in Int /\ w \in Int
  <2>1. w \in Int
    BY <1>3, WeightIs
  <2> QED BY <1>1, <1>2, <1>3, <2>1
<1>7. aa = p + x * w /\ cc = p + y * w
  BY <1>1, <1>2, <1>4
<1>8. C - cc = A - aa
  BY <1>1, <1>2, <1>5 DEF Gap
<1> HIDE DEF p, A, C, aa, cc, x, y, w
<1> DEFINE xw == x * w
           yw == y * w
<1>9. (y - x) * w = yw - xw /\ xw \in Int /\ yw \in Int /\ C - (p + yw) = A - (p + xw)
  BY <1>6, <1>7, <1>8
<1> HIDE DEF xw, yw
<1>10. C = A + (yw - xw)
  BY <1>6, <1>9
<1> QED BY <1>6, <1>9, <1>10 DEF A, C, x, y, w

\* A row with its carry run up.
LEMMA CarriedFromIs ==
  ASSUME NEW n \in Nat, NEW row, row.limbs \in [0 .. n - 1 -> Word], row.carry \in Word, NEW top \in 0 .. n
  PROVE  /\ CarriedFrom(row, top) \in [0 .. n - 1 -> Word]
         /\ Same(Value(CarriedFrom(row, top)), Value(row.limbs) + row.carry * Weight(top), n)
<1> DEFINE l == row.limbs
           c == row.carry
           col == [k \in DOMAIN l |-> l[k] + (IF k = top THEN c ELSE 0)]
           W == Weight(n)
           V == Value(l)
           q == c * Weight(top)
<1>1. l \in [0 .. n - 1 -> Word] /\ c \in Int /\ \A i \in 0 .. n - 1 : l[i] \in Int
  <2>1. c \in Int
    BY WordIs
  <2>2. ASSUME NEW i \in 0 .. n - 1 PROVE l[i] \in Int
    <3>1. l[i] \in Word
      OBVIOUS
    <3> HIDE DEF l
    <3> QED BY <3>1, WordIs
  <2> QED BY <2>1, <2>2
<1>2. col \in [0 .. n - 1 -> Int] /\ \A i \in 0 .. n - 1 : i # top => col[i] = l[i]
  BY <1>1
<1>3. CarriedFrom(row, top) = AddColumns(col, n).limbs
  BY WidthIs DEF CarriedFrom
<1>4. V \in Int /\ Weight(top) \in Int /\ W \in Int /\ W > 0 /\ q \in Int
  <2>1. Weight(top) \in Int /\ W \in Int /\ W >= 1
    BY WeightIs
  <2>2. V \in Int
    BY ValueNat
  <2> QED BY <1>1, <2>1, <2>2
<1>5. Value(col) \in Int /\ Same(Value(col), V + q, n)
  <2>1. CASE top = n
    <3>1. col = l
      BY <1>1, <2>1
    <3>2. Same(V, V, n)
      BY <1>4, SameRefl
    <3>3. Same(q, 0, n)
      <4>1. q = c * Weight(n)
        BY <2>1
      <4> HIDE DEF q, c
      <4> QED BY <1>1, <1>4, <4>1, SameHigh
    <3> HIDE DEF q, V
    <3>4. Same(V + q, V + 0, n)
      BY <1>4, <3>2, <3>3, SameAdd
    <3>5. V + 0 = V /\ V + q \in Int
      BY <1>4
    <3>6. Same(V, V + q, n)
      BY <1>4, <3>4, <3>5, SameSym
    <3> QED BY <1>4, <3>1, <3>6 DEF V
  <2>2. CASE top < n
    <3>1. top \in 0 .. n - 1
      BY <2>2
    <3>2. col[top] - l[top] = c
      BY <1>1, <3>1
    <3>3. l \in [0 .. n - 1 -> Int]
      BY <1>1
    <3> HIDE DEF col, l, c
    <3>4. Value(col) = Value(l) + (col[top] - l[top]) * Weight(top) /\ Value(col) \in Int
      BY <1>2, <3>1, <3>3, ValueChanged
    <3>5. Value(col) = V + q
      BY <3>2, <3>4
    <3>6. Same(Value(col), Value(col), n)
      BY <3>4, SameRefl
    <3> QED BY <3>4, <3>5, <3>6
  <2> QED BY <2>1, <2>2
<1> DEFINE z == CarriedFrom(row, top)
<1> HIDE DEF col, q, V, W
<1>6. z \in [0 .. n - 1 -> Word] /\ Value(z) = Value(col) % Weight(n)
  BY <1>2, <1>3, AddColumnsIs
<1>7. Same(Value(z), Value(col), n)
  <2> DEFINE x == Value(col)
             v == Value(z)
  <2>1. x \in Int /\ v = x % W /\ W \in Nat /\ W > 0
    BY <1>4, <1>5, <1>6 DEF W
  <2> HIDE DEF x, v
  <2>2. x = W * (x \div W) + (x % W) /\ x \div W \in Int /\ x % W \in Int
    BY <2>1
  <2> DEFINE t == x \div W
             s == - t
  <2>3. x = t * W + v /\ t \in Int /\ v \in Int /\ s \in Int /\ s * W = - (t * W) /\ t * W \in Int
    BY <2>1, <2>2
  <2> HIDE DEF t, s
  <2>4. v = x + s * W
    BY <2>1, <2>3
  <2> QED BY <2>3, <2>4 DEF Same, x, v, W
<1>8. Value(z) \in Int /\ V + q \in Int
  <2>1. Value(z) \in Nat
    BY <1>6, ValueNat
  <2> QED BY <1>4, <2>1
<1>9. Same(Value(z), V + q, n)
  BY <1>5, <1>7, <1>8, SameTrans
<1> QED BY <1>6, <1>9 DEF z, V, q

\* The rows of the limbs in use.
ShortStep(h, a, b, lb, i, n) ==
    h[i + 1] = CarriedFrom(Row(h[i], a[i], b, i, Min({lb, n - i})), i + Min({lb, n - i}))

\* The rows of the limbs in use, their carries run up.
LEMMA ShortRowsAre ==
  ASSUME NEW n \in Nat, NEW a \in [0 .. n - 1 -> Word], NEW b \in [0 .. n - 1 -> Word],
         NEW la \in 0 .. n, NEW lb \in 0 .. n
  PROVE  /\ ShortRows(a, b, la, lb) \in [0 .. la -> [0 .. n - 1 -> Word]]
         /\ ShortRows(a, b, la, lb)[0] = Zeros(Width(a))
         /\ \A i \in 0 .. la - 1 : ShortStep(ShortRows(a, b, la, lb), a, b, lb, i, Width(a))
<1> DEFINE G == [p \in [0 .. n - 1 -> Word] \X Nat |-> IF p[2] \in 1 .. la THEN CarriedFrom(Row(p[1], a[p[2] - 1], b, p[2] - 1, Min({lb, Width(a) - (p[2] - 1)})), p[2] - 1 + Min({lb, Width(a) - (p[2] - 1)})) ELSE Zeros(Width(a))]
           P(h) == h = [i \in 0 .. la |-> IF i = 0 THEN Zeros(Width(a)) ELSE CHOOSE next \in {CarriedFrom(Row(s, a[i - 1], b, i - 1, Min({lb, Width(a) - (i - 1)})), i - 1 + Min({lb, Width(a) - (i - 1)})) : s \in {h[i - 1]}} : TRUE]
<1>n. Width(a) = n /\ la \in Nat
  BY WidthIs
<1>s. Zeros(Width(a)) \in [0 .. n - 1 -> Word]
  BY <1>n, ZerosAre
<1>0. ASSUME NEW prev \in [0 .. n - 1 -> Word], NEW i \in 1 .. la PROVE CarriedFrom(Row(prev, a[i - 1], b, i - 1, Min({lb, Width(a) - (i - 1)})), i - 1 + Min({lb, Width(a) - (i - 1)})) \in [0 .. n - 1 -> Word]
  <2> DEFINE x == a[i - 1]
             at == i - 1
             len == Min({lb, n - at})
             row == Row(prev, x, b, at, len)
  <2>3. at \in Nat /\ x \in Word /\ len \in 0 .. n /\ at + len <= n
    <3>1. at \in 0 .. n - 1 /\ {lb, n - at} \subseteq Nat /\ {lb, n - at} # {}
      BY <1>n
    <3>2. len \in {lb, n - at} /\ \A y \in {lb, n - at} : len =< y
      <4> HIDE DEF at
      <4> QED BY <3>1, MinIs
    <3> HIDE DEF len
    <3> QED BY <3>1, <3>2
  <2> HIDE DEF x, at, len
  <2>4. row.limbs \in [0 .. n - 1 -> Word] /\ row.carry \in Word
    <3> HIDE DEF row
    <3> QED BY <2>3, RowIs DEF row
  <2> HIDE DEF row
  <2>5. at + len \in 0 .. n
    BY <2>3
  <2>6. CarriedFrom(row, at + len) \in [0 .. n - 1 -> Word]
    BY <2>4, <2>5, CarriedFromIs
  <2> QED BY <1>n, <2>6 DEF x, at, len, row
<1>1. G \in [[0 .. n - 1 -> Word] \X Nat -> [0 .. n - 1 -> Word]]
  <2> SUFFICES ASSUME NEW p \in [0 .. n - 1 -> Word] \X Nat PROVE (IF p[2] \in 1 .. la THEN CarriedFrom(Row(p[1], a[p[2] - 1], b, p[2] - 1, Min({lb, Width(a) - (p[2] - 1)})), p[2] - 1 + Min({lb, Width(a) - (p[2] - 1)})) ELSE Zeros(Width(a))) \in [0 .. n - 1 -> Word]
    OBVIOUS
  <2>1. p[1] \in [0 .. n - 1 -> Word]
    OBVIOUS
  <2> QED BY <1>0, <1>s, <2>1
<1>2. PICK g \in [0 .. la -> [0 .. n - 1 -> Word]] : Up(g, la, Zeros(Width(a)), G)
  <2> HIDE DEF G
  <2> QED BY <1>n, <1>1, <1>s, Recursion, Zenon
<1>3. ASSUME NEW i \in 1 .. la, NEW prev \in [0 .. n - 1 -> Word] PROVE G[<<prev, i>>] = CarriedFrom(Row(prev, a[i - 1], b, i - 1, Min({lb, Width(a) - (i - 1)})), i - 1 + Min({lb, Width(a) - (i - 1)}))
  <2> <<prev, i>> \in [0 .. n - 1 -> Word] \X Nat /\ <<prev, i>>[1] = prev /\ <<prev, i>>[2] = i
    OBVIOUS
  <2> QED OBVIOUS
<1> HIDE DEF G
<1>4. \A i \in 1 .. la : g[i] = CarriedFrom(Row(g[i - 1], a[i - 1], b, i - 1, Min({lb, Width(a) - (i - 1)})), i - 1 + Min({lb, Width(a) - (i - 1)}))
  <2> TAKE i \in 1 .. la
  <2>1. i - 1 \in 0 .. la /\ g[i - 1] \in [0 .. n - 1 -> Word]
    BY <1>n
  <2>2. g[i] = G[<<g[i - 1], i>>]
    BY <1>2 DEF Up
  <2> QED BY <2>1, <2>2, <1>3
<1>c. ASSUME NEW i, NEW z PROVE (CHOOSE next \in {CarriedFrom(Row(s, a[i - 1], b, i - 1, Min({lb, Width(a) - (i - 1)})), i - 1 + Min({lb, Width(a) - (i - 1)})) : s \in {z}} : TRUE) = CarriedFrom(Row(z, a[i - 1], b, i - 1, Min({lb, Width(a) - (i - 1)})), i - 1 + Min({lb, Width(a) - (i - 1)}))
  <2>1. {CarriedFrom(Row(s, a[i - 1], b, i - 1, Min({lb, Width(a) - (i - 1)})), i - 1 + Min({lb, Width(a) - (i - 1)})) : s \in {z}} = {CarriedFrom(Row(z, a[i - 1], b, i - 1, Min({lb, Width(a) - (i - 1)})), i - 1 + Min({lb, Width(a) - (i - 1)}))}
    OBVIOUS
  <2> QED BY <2>1
<1>5. P(g)
  <2>1. g[0] = Zeros(Width(a))
    BY <1>2 DEF Up
  <2>2. g = [i \in 0 .. la |-> g[i]]
    OBVIOUS
  <2>3. \A i \in 0 .. la : i # 0 => i \in 1 .. la
    BY <1>n
  <2> QED BY <1>c, <1>4, <2>1, <2>2, <2>3
<1>6. ShortRows(a, b, la, lb) = CHOOSE h : P(h)
  BY DEF ShortRows, Iterates
<1> DEFINE h == ShortRows(a, b, la, lb)
<1>7. P(h)
  <2> HIDE DEF P
  <2> QED BY <1>5, <1>6
<1> HIDE DEF h
<1>8. h = [i \in 0 .. la |-> h[i]] /\ h[0] = Zeros(Width(a))
  <2>1. DOMAIN h = 0 .. la /\ 0 \in 0 .. la
    BY <1>n, <1>7
  <2> QED BY <1>7, <2>1
<1>9. ASSUME NEW i \in 1 .. la, h[i - 1] \in [0 .. n - 1 -> Word] PROVE h[i] = G[<<h[i - 1], i>>]
  <2>1. i \in 0 .. la /\ i # 0
    BY <1>n
  <2>2. h[i] = CarriedFrom(Row(h[i - 1], a[i - 1], b, i - 1, Min({lb, Width(a) - (i - 1)})), i - 1 + Min({lb, Width(a) - (i - 1)}))
    BY <1>c, <1>7, <2>1
  <2> QED BY <1>3, <1>9, <2>2
<1>10. UpWithin(h, la, Zeros(Width(a)), [0 .. n - 1 -> Word], G)
  BY <1>8, <1>9 DEF UpWithin
<1>11. h = g
  BY <1>n, <1>1, <1>2, <1>s, <1>10, UpUnique, Zenon
<1>12. \A i \in 0 .. la - 1 : i + 1 \in 1 .. la /\ (i + 1) - 1 = i
  BY <1>n
<1>13. \A i \in 0 .. la - 1 : g[i + 1] = CarriedFrom(Row(g[i], a[i], b, i, Min({lb, Width(a) - i})), i + Min({lb, Width(a) - i}))
  BY <1>4, <1>12
<1>14. \A i \in 0 .. la - 1 : ShortStep(g, a, b, lb, i, Width(a))
  BY <1>13 DEF ShortStep
<1> QED BY <1>2, <1>11, <1>14 DEF h, Up


\* The short product is the full one.
LEMMA MulShortIs ==
  ASSUME NEW n \in Nat, NEW a \in [0 .. n - 1 -> Word], NEW b \in [0 .. n - 1 -> Word],
         NEW la \in 0 .. n, NEW lb \in 0 .. n, Value(a) = Below(a)[la], Value(b) = Below(b)[lb]
  PROVE  mag_mul_short(a, b, la, lb) = mag_mul(a, b)
<1> DEFINE h == ShortRows(a, b, la, lb)
           B == Value(b)
<1>n. Width(a) = n
  BY WidthIs
<1>1. /\ h \in [0 .. la -> [0 .. n - 1 -> Word]] /\ h[0] = Zeros(n)
      /\ \A i \in 0 .. la - 1 : h[i + 1] = CarriedFrom(Row(h[i], a[i], b, i, Min({lb, n - i})), i + Min({lb, n - i}))
  <2> DEFINE m == Width(a)
  <2>1. /\ h \in [0 .. la -> [0 .. n - 1 -> Word]] /\ h[0] = Zeros(m)
        /\ \A i \in 0 .. la - 1 : h[i + 1] = CarriedFrom(Row(h[i], a[i], b, i, Min({lb, m - i})), i + Min({lb, m - i}))
    <3>1. h \in [0 .. la -> [0 .. n - 1 -> Word]]
      BY ShortRowsAre
    <3>2. h[0] = Zeros(m)
      BY ShortRowsAre
    <3>3. ASSUME NEW i \in 0 .. la - 1
          PROVE  h[i + 1] = CarriedFrom(Row(h[i], a[i], b, i, Min({lb, m - i})), i + Min({lb, m - i}))
      <4>1. ShortStep(h, a, b, lb, i, m)
        <5> HIDE DEF h
        <5> QED BY ShortRowsAre DEF h
      <4> HIDE DEF h, m
      <4> QED BY <4>1 DEF ShortStep
    <3> QED BY <3>1, <3>2, <3>3
  <2>2. m = n
    BY <1>n
  <2> HIDE DEF m, h
  <2> QED BY <2>1, <2>2
<1>2. B \in Nat /\ Value(a) \in Nat
  BY ValueNat
<1>3. mag_mul_short(a, b, la, lb) = h[la]
  BY DEF mag_mul_short
<1> HIDE DEF h
<1>4. ASSUME NEW i \in 0 .. la - 1 PROVE Same(Value(h[i + 1]), Value(h[i]) + (a[i] * B) * Weight(i), n)
  <2> DEFINE x == a[i]
             r == h[i]
             len == Min({lb, n - i})
             row == Row(r, x, b, i, len)
             z == CarriedFrom(row, i + len)
  <2>1. i \in 0 .. n - 1 /\ i \in Nat /\ i \in 0 .. la /\ n - i \in Nat /\ lb \in Nat
    OBVIOUS
  <2>2. r \in [0 .. n - 1 -> Word] /\ x \in Word /\ h[i + 1] = z
    BY <1>1, <2>1
  <2>3. len \in {lb, n - i} /\ len <= lb /\ len <= n - i
    <3>1. {lb, n - i} \subseteq Nat /\ {lb, n - i} # {}
      BY <2>1
    <3>2. len \in {lb, n - i} /\ \A y \in {lb, n - i} : len =< y
      BY <3>1, MinIs
    <3> QED BY <3>2
  <2> HIDE DEF len, x, r
  <2>4. len \in 0 .. n /\ i + len <= n /\ i + len \in 0 .. n
    BY <2>1, <2>3
  <2>5. row.limbs \in [0 .. n - 1 -> Word] /\ row.carry \in Word /\ RowKept(row, r, x, b, i, len)
    <3> HIDE DEF row
    <3> QED BY <2>1, <2>2, <2>4, RowIs DEF row
  <2>6. Same(Value(z), Value(row.limbs) + row.carry * Weight(i + len), n) /\ z \in [0 .. n - 1 -> Word]
    <3> HIDE DEF row
    <3> QED BY <2>4, <2>5, CarriedFromIs
  <2> HIDE DEF z
  <2> DEFINE V == Value(row.limbs)
             q == row.carry * Weight(i + len)
             y == Value(r) + (x * B) * Weight(i)
             Z == Value(z)
  <2>7. V \in Int /\ q \in Int /\ y \in Int /\ Z \in Int /\ Same(Z, V + q, n)
    <3>1. Value(row.limbs) \in Nat
      <4> HIDE DEF row
      <4> QED BY <2>5, ValueNat
    <3>2. row.carry \in Int /\ Weight(i + len) \in Int
      <4> HIDE DEF row
      <4>1. row.carry \in Int
        BY <2>5, WordIs
      <4>2. i + len \in Nat
        BY <2>4
      <4> DEFINE e == i + len
      <4> HIDE DEF e
      <4>3. Weight(e) \in Nat
        BY <4>2, WeightIs DEF e
      <4> QED BY <4>1, <4>3 DEF e
    <3>3. Value(r) \in Nat
      BY <2>2, ValueNat
    <3>4. x \in Nat /\ Weight(i) \in Nat
      <4>1. x \in Nat
        BY <2>2, WordIs
      <4>2. Weight(i) \in Nat
        BY <2>1, WeightIs
      <4> QED BY <4>1, <4>2
    <3>5. Value(z) \in Nat
      BY <2>6, ValueNat
    <3>6. q \in Int
      <4> HIDE DEF row
      <4> QED BY <3>2
    <3>7. y \in Int
      <4> HIDE DEF B
      <4> QED BY <1>2, <3>3, <3>4
    <3> QED BY <2>6, <3>1, <3>5, <3>6, <3>7
  <2>8. Same(V + q, y, n)
    <3>1. CASE len = lb
      <4>1. V + q = y
        BY <2>5, <3>1 DEF RowKept
      <4> HIDE DEF V, q, y
      <4> QED BY <2>7, <4>1, SameRefl
    <3>2. CASE len = n - i
      <4>1. i + len = n
        BY <2>1, <3>2
      <4>2. Same(V, y, n)
        <5> HIDE DEF row
        <5> QED BY <2>1, <2>2, <2>4, <4>1, RowSame DEF row
      <4>3. Same(q, 0, n)
        <5> DEFINE c == row.carry
        <5>1. c \in Int /\ q = c * Weight(n)
          <6> HIDE DEF row
          <6> QED BY <2>5, <4>1, WordIs
        <5> HIDE DEF c, q
        <5> QED BY <2>7, <5>1, SameHigh
      <4> HIDE DEF V, q, y
      <4>4. Same(V + q, y + 0, n)
        BY <2>7, <4>2, <4>3, SameAdd
      <4> QED BY <2>7, <4>4
    <3> QED BY <2>3, <3>1, <3>2
  <2> HIDE DEF V, q, y, Z
  <2>9. V + q \in Int
    BY <2>7
  <2>10. Same(Z, y, n)
    BY <2>7, <2>8, <2>9, SameTrans
  <2> QED BY <2>2, <2>10 DEF Z, y, x, r
<1>5. Adds(h, a, B, la, n)
  BY <1>1, <1>4 DEF Adds
<1>v. Value(a) = Below(a)[la]
  OBVIOUS
<1> HIDE DEF B
<1>6. Same(Value(h[la]), Below(a)[la] * B, n) /\ h[la] \in [0 .. n - 1 -> Word]
  BY <1>2, <1>5, RowsAdd
<1>7. Value(h[la]) = (Value(a) * B) % Weight(n)
  <2> DEFINE y == Value(a) * B
             l == h[la]
  <2>1. y \in Int /\ l \in [0 .. n - 1 -> Word] /\ Same(Value(l), y, n)
    BY <1>2, <1>v, <1>6
  <2> HIDE DEF y, l
  <2>2. Value(l) = y % Weight(n)
    BY <2>1, ProductIs
  <2> QED BY <2>2 DEF y, l
<1>8. mag_mul(a, b) \in [0 .. n - 1 -> Word] /\ Value(mag_mul(a, b)) = (Value(a) * B) % Weight(n)
  BY MagMulIs DEF B
<1> QED BY <1>3, <1>6, <1>7, <1>8, ValueInjective



-----------------------------------------------------------------------------
(* Signed products                                                         *)

\* The size and the sign of a product.
LEMMA MagnitudeTimes ==
  ASSUME NEW u \in Int, NEW v \in Int
  PROVE  /\ u * v \in Int /\ Magnitude(u * v) = Magnitude(u) * Magnitude(v)
         /\ u * v < 0 <=> (u < 0 /\ v > 0) \/ (u > 0 /\ v < 0)
         /\ u * v > 0 <=> (u < 0 /\ v < 0) \/ (u > 0 /\ v > 0)
<1>1. \A a, b \in Nat : a * b \in Nat /\ (a > 0 /\ b > 0 => a * b > 0) /\ (a = 0 \/ b = 0 => a * b = 0)
  OBVIOUS
<1> DEFINE a == Magnitude(u)
           b == Magnitude(v)
           p == a * b
<1>2. a \in Nat /\ a = (IF u < 0 THEN - u ELSE u)
  BY MagnitudeIs
<1>3. b \in Nat /\ b = (IF v < 0 THEN - v ELSE v)
  BY MagnitudeIs
<1>4. p \in Nat /\ (a > 0 /\ b > 0 => p > 0) /\ (a = 0 \/ b = 0 => p = 0)
  BY <1>1, <1>2, <1>3
<1>5. u * v = IF (u < 0) = (v < 0) THEN p ELSE - p
  <2>1. CASE u < 0 /\ v < 0
    <3>1. p = (- u) * (- v) /\ (- u) * (- v) = u * v
      BY <1>2, <1>3, <2>1
    <3> QED BY <2>1, <3>1
  <2>2. CASE u < 0 /\ ~(v < 0)
    <3>1. p = (- u) * v /\ (- u) * v = - (u * v) /\ u * v \in Int
      BY <1>2, <1>3, <2>2
    <3> DEFINE z == u * v
    <3>2. z \in Int /\ p = - z
      BY <3>1
    <3> HIDE DEF z, p
    <3>3. z = - p
      BY <3>2
    <3> QED BY <2>2, <3>3 DEF z
  <2>3. CASE ~(u < 0) /\ v < 0
    <3>1. p = u * (- v) /\ u * (- v) = - (u * v) /\ u * v \in Int
      BY <1>2, <1>3, <2>3
    <3> DEFINE z == u * v
    <3>2. z \in Int /\ p = - z
      BY <3>1
    <3> HIDE DEF z, p
    <3>3. z = - p
      BY <3>2
    <3> QED BY <2>3, <3>3 DEF z
  <2>4. CASE ~(u < 0) /\ ~(v < 0)
    BY <1>2, <1>3, <2>4
  <2> QED BY <2>1, <2>2, <2>3, <2>4
<1> DEFINE z == u * v
<1>6. z \in Int /\ z = (IF (u < 0) = (v < 0) THEN p ELSE - p)
  BY <1>5
<1> HIDE DEF z, p
<1>7. Magnitude(z) = p
  <2>1. Magnitude(z) = IF z < 0 THEN - z ELSE z
    BY <1>6, MagnitudeIs
  <2> QED BY <1>4, <1>6, <2>1
<1>8. (z < 0 <=> (u < 0 /\ v > 0) \/ (u > 0 /\ v < 0)) /\ (z > 0 <=> (u < 0 /\ v < 0) \/ (u > 0 /\ v > 0))
  <2>1. a > 0 /\ b > 0 => p > 0
    BY <1>4
  <2>2. u = 0 \/ v = 0 => p = 0
    BY <1>2, <1>3, <1>4
  <2> QED BY <1>2, <1>3, <1>4, <1>6, <2>1, <2>2
<1> QED BY <1>6, <1>7, <1>8 DEF z, p

\* The product of two BigInts, by their signs.
LEMMA CtMulIs ==
  ASSUME NEW n \in Nat, NEW u \in Int, NEW v \in Int, NEW x, NEW y, Stands(x, u, n), Stands(y, v, n),
         Magnitude(u) < Weight(n), Magnitude(v) < Weight(n)
  PROVE  Stands(ct_mul(x, y), u * v, n)
<1> DEFINE a == x.limbs
           b == y.limbs
           l == mag_mul(a, b)
           s == (x.sign + y.sign) % 2
           z == u * v
<1>1. a \in [0 .. n - 1 -> Word] /\ Value(a) = Magnitude(u) /\ x.sign = (IF u < 0 THEN 1 ELSE 0)
  BY StandsFit
<1>2. b \in [0 .. n - 1 -> Word] /\ Value(b) = Magnitude(v) /\ y.sign = (IF v < 0 THEN 1 ELSE 0)
  BY StandsFit
<1>3. l \in [0 .. n - 1 -> Word] /\ Value(l) = (Value(a) * Value(b)) % Weight(n)
  <2> HIDE DEF a, b, l
  <2> QED BY <1>1, <1>2, MagMulIs DEF l
<1>4. z \in Int /\ Magnitude(z) = Value(a) * Value(b)
  BY <1>1, <1>2, MagnitudeTimes
<1>5. (z < 0 => (u < 0 /\ v > 0) \/ (u > 0 /\ v < 0)) /\ (z > 0 => (u < 0 /\ v < 0) \/ (u > 0 /\ v > 0))
  BY MagnitudeTimes
<1>6. ct_mul(x, y) = Canonical(s, l)
  BY DEF ct_mul
<1> HIDE DEF z, l
<1>7. s \in {0, 1} /\ (z < 0 => s = 1) /\ (z > 0 => s = 0)
  BY <1>1, <1>2, <1>5
<1> HIDE DEF s, a, b
<1>8. Value(l) = Magnitude(z) % Weight(n)
  BY <1>3, <1>4
<1>9. Stands(Canonical(s, l), z, n)
  BY <1>3, <1>4, <1>7, <1>8, CanonicalIs
<1> QED BY <1>6, <1>9 DEF z

\* The short product is that of the limbs in use.
LEMMA VtMulIs ==
  ASSUME NEW n \in Nat, NEW x, NEW y, x.limbs \in [0 .. n - 1 -> Word], y.limbs \in [0 .. n - 1 -> Word]
  PROVE  vt_mul(x, y) = ct_mul(x, y)
<1> DEFINE a == x.limbs
           b == y.limbs
           la == mag_effective_len(a)
           lb == mag_effective_len(b)
<1>1. a \in [0 .. n - 1 -> Word] /\ la \in 0 .. n /\ Value(a) = Below(a)[la]
  BY LengthIs
<1>2. b \in [0 .. n - 1 -> Word] /\ lb \in 0 .. n /\ Value(b) = Below(b)[lb]
  BY LengthIs
<1>3. vt_mul(x, y) = Canonical((x.sign + y.sign) % 2, MulOfLengths(x, y, la, lb))
  BY DEF vt_mul
<1>4. ct_mul(x, y) = Canonical((x.sign + y.sign) % 2, mag_mul(a, b))
  BY DEF ct_mul
<1>5. MulOfLengths(x, y, la, lb) = mag_mul_short(a, b, la, lb) \/ MulOfLengths(x, y, la, lb) = mag_mul(a, b)
  BY DEF MulOfLengths
<1> HIDE DEF a, b, la, lb
<1>6. mag_mul_short(a, b, la, lb) = mag_mul(a, b)
  BY <1>1, <1>2, MulShortIs
<1> QED BY <1>3, <1>4, <1>5, <1>6


-----------------------------------------------------------------------------
(* Products by columns                                                     *)

\* Each of the terms is at most Q.
LEMMA SumsBound ==
  ASSUME NEW n \in Nat, NEW Q \in Nat, NEW f, \A i \in 0 .. n - 1 : f[i] \in 0 .. Q
  PROVE  Sums(f, n)[n] \in 0 .. n * Q
<1>1. /\ Sums(f, n) \in [0 .. n -> Int] /\ Sums(f, n)[0] = 0
      /\ \A i \in 0 .. n - 1 : Sums(f, n)[i + 1] = Sums(f, n)[i] + f[i]
  BY SumsIs
<1> DEFINE s == Sums(f, n)
           T == {j \in Nat : j <= n => s[j] \in 0 .. j * Q}
<1>2. 0 \in T
  BY <1>1
<1>3. ASSUME NEW j \in T PROVE j + 1 \in T
  <2>1. SUFFICES ASSUME j + 1 <= n PROVE s[j + 1] \in 0 .. (j + 1) * Q
    OBVIOUS
  <2>2. j \in 0 .. n - 1 /\ j \in Nat /\ j \in 0 .. n
    BY <2>1
  <2>3. s[j + 1] = s[j] + f[j] /\ f[j] \in 0 .. Q /\ s[j] \in 0 .. j * Q
    BY <1>1, <2>2
  <2>4. (j + 1) * Q = j * Q + Q /\ j * Q \in Int
    BY <2>2
  <2> DEFINE p == j * Q
             q == (j + 1) * Q
             x == s[j]
             y == f[j]
  <2>5. q = p + Q /\ p \in Int /\ s[j + 1] = x + y /\ x \in 0 .. p /\ y \in 0 .. Q
    BY <2>3, <2>4
  <2> HIDE DEF p, q, x, y
  <2>6. x + y \in 0 .. q
    BY <2>5
  <2> QED BY <2>5, <2>6 DEF q
<1>4. T = Nat
  <2> T \subseteq Nat
    OBVIOUS
  <2> HIDE DEF T
  <2> QED BY <1>2, <1>3, SetInduction
<1>5. n \in T
  <2> HIDE DEF T
  <2> QED BY <1>4
<1> QED BY <1>5

\* A product of two words.
LEMMA WordTimes ==
  ASSUME NEW x \in Word, NEW y \in Word
  PROVE  x * y \in 0 .. (Base - 1) * (Base - 1)
<1>1. x \in Nat /\ x <= Base - 1 /\ y \in Nat /\ y <= Base - 1 /\ Base - 1 \in Nat
  <2>1. x \in Nat /\ x < Base /\ Base \in Nat /\ Base >= 4
    BY WordIs, BaseIs
  <2>2. y \in Nat /\ y < Base
    BY WordIs
  <2> QED BY <2>1, <2>2
<1> DEFINE m == Base - 1
<1>2. x \in Nat /\ y \in Nat /\ m \in Nat /\ x <= m /\ y <= m
  BY <1>1
<1> HIDE DEF m
<1>3. x * y <= m * y
  BY <1>2, TimesMonotone
<1>4. y * m <= m * m
  BY <1>2, TimesMonotone
<1>5. m * y = y * m /\ x * y \in Nat /\ m * m \in Nat /\ m * y \in Nat
  BY <1>2
<1>6. x * y <= m * m
  BY <1>3, <1>4, <1>5
<1> QED BY <1>5, <1>6 DEF m

\* Column k adds up k + 1 products.
LEMMA ColumnBound ==
  ASSUME NEW n \in Nat, NEW a \in [0 .. n - 1 -> Word], NEW b \in [0 .. n - 1 -> Word], NEW k \in 0 .. n - 1
  PROVE  Column(a, b, k) \in 0 .. (k + 1) * ((Base - 1) * (Base - 1))
<1> DEFINE f == [i \in 0 .. k |-> a[i] * b[k - i]]
           m == k + 1
           Q == (Base - 1) * (Base - 1)
<1>1. m \in Nat /\ 0 .. m - 1 = 0 .. k
  OBVIOUS
<1>2. Q \in Nat
  BY BaseIs
<1>3. ASSUME NEW i \in 0 .. m - 1 PROVE f[i] \in 0 .. Q
  <2> DEFINE x == a[i]
             y == b[k - i]
  <2>1. i \in 0 .. k /\ x \in Word /\ y \in Word /\ f[i] = x * y
    OBVIOUS
  <2> HIDE DEF x, y, f
  <2> QED BY <2>1, WordTimes
<1>4. Column(a, b, k) = Sums(f, m)[m]
  BY DEF Column
<1> HIDE DEF f, m, Q
<1>5. Sums(f, m)[m] \in 0 .. m * Q
  BY <1>1, <1>2, <1>3, SumsBound
<1> QED BY <1>4, <1>5 DEF m, Q

\* Two of the three registers hold what is carried.
Registers == 0 .. Base * Base - 1

\* What a column leaves of three registers, and carries.
LEMMA ColumnFits ==
  ASSUME NEW n \in Nat, n <= Base, NEW a \in [0 .. n - 1 -> Word], NEW b \in [0 .. n - 1 -> Word], NEW k \in 0 .. n - 1,
         NEW acc \in Registers
  PROVE  /\ acc + Column(a, b, k) \in Nat /\ (acc + Column(a, b, k)) % Weight(3) = acc + Column(a, b, k)
         /\ (acc + Column(a, b, k)) \div Base \in Registers
<1> DEFINE B == Base
           m == B - 1
           Q == m * m
           c == Column(a, b, k)
           t == acc + c
<1>1. B \in Nat /\ B >= 4 /\ m \in Nat /\ Q \in Nat
  BY BaseIs
<1>2. c \in 0 .. (k + 1) * Q
  BY ColumnBound
<1>3. (k + 1) * Q <= B * Q /\ (k + 1) * Q \in Nat /\ B * Q \in Nat
  <2>1. k + 1 \in Nat /\ k + 1 <= B
    BY <1>1
  <2> HIDE DEF B, Q
  <2>2. (k + 1) * Q <= B * Q
    BY <1>1, <2>1, TimesMonotone
  <2> QED BY <1>1, <2>1, <2>2
<1>4. Weight(3) = B * (B * B)
  <2>1. Weight(0 + 1) = Base * Weight(0) /\ Weight(1 + 1) = Base * Weight(1) /\ Weight(2 + 1) = Base * Weight(2)
    BY WeightNext
  <2>2. 0 + 1 = 1 /\ 1 + 1 = 2 /\ 2 + 1 = 3 /\ Weight(0) = 1
    BY WeightFirst
  <2>3. Weight(1) = B /\ Weight(2) = B * Weight(1) /\ Weight(3) = B * Weight(2)
    BY <1>1, <2>1, <2>2
  <2> QED BY <2>3
<1> HIDE DEF c
<1> DEFINE bb == B * B
           bbb == B * bb
<1>5. bb \in Nat /\ bbb \in Nat /\ bb >= 4 * B /\ B * Q = bbb - 2 * bb + B /\ bbb >= 4 * bb
  <2>1. m * m = bb - 2 * B + 1 /\ bb \in Nat /\ bb >= 4 * B
    BY <1>1
  <2>2. B * (bb - 2 * B + 1) = B * bb - 2 * (B * B) + B
    BY <1>1, <2>1
  <2>3. bbb \in Nat /\ bbb >= 4 * bb
    BY <1>1, <2>1
  <2> HIDE DEF m
  <2> QED BY <2>1, <2>2, <2>3
<1>6. acc \in 0 .. bb - 1
  BY DEF Registers
<1>7. Weight(3) = bbb
  BY <1>4
<1> DEFINE e == (k + 1) * Q
           f == B * Q
<1>8. c \in 0 .. e /\ e <= f /\ f = bbb - 2 * bb + B
  BY <1>2, <1>3, <1>5
<1>9. t = acc + c /\ e \in Nat
  BY <1>3
<1> HIDE DEF t, B, m, Q, e, f, bb, bbb
<1>10. t \in Nat /\ t < bbb - bb + B
  BY <1>1, <1>5, <1>6, <1>8, <1>9
<1>11. t % bbb = t
  <2> t < bbb
    BY <1>1, <1>5, <1>10
  <2> QED BY <1>5, <1>10, ModSmall
<1>12. t \div B \in 0 .. bb - 1
  <2> DEFINE q == t \div B
             r == t % B
  <2>1. t = B * q + r /\ q \in Nat /\ r \in 0 .. B - 1
    BY <1>1, <1>10, DivRem
  <2> HIDE DEF q, r
  <2>2. B * q < bbb
    <3> DEFINE p == B * q
    <3>1. p \in Nat /\ t = p + r
      BY <1>1, <2>1
    <3> HIDE DEF p
    <3>2. p < bbb
      BY <1>1, <1>5, <1>10, <2>1, <3>1
    <3> QED BY <3>2 DEF p
  <2>3. q * B < bb * B
    <3>1. B * q = q * B /\ bbb = bb * B
      BY <1>1, <1>5, <2>1 DEF bbb
    <3> QED BY <2>2, <3>1
  <2>4. q < bb
    BY <1>1, <1>5, <2>1, <2>3, Cancel
  <2> QED BY <1>5, <2>1, <2>4 DEF q
<1> QED BY <1>7, <1>10, <1>11, <1>12 DEF t, c, B, bb, Registers

\* The registers before each column.
LEMMA AccumulatorsAre ==
  ASSUME NEW n \in Nat, n <= Base, NEW a \in [0 .. n - 1 -> Word], NEW b \in [0 .. n - 1 -> Word]
  PROVE  /\ Accumulators(a, b) \in [0 .. Width(a) -> Registers]
         /\ Accumulators(a, b)[0] = 0
         /\ \A i \in 0 .. Width(a) - 1 : Accumulators(a, b)[i + 1] = ((Accumulators(a, b)[i] + Column(a, b, i)) % Weight(3)) \div Base
<1> DEFINE G == [p \in Registers \X Nat |-> IF p[2] \in 1 .. Width(a) THEN ((p[1] + Column(a, b, p[2] - 1)) % Weight(3)) \div Base ELSE 0]
           P(h) == h = [i \in 0 .. Width(a) |-> IF i = 0 THEN 0 ELSE ((h[i - 1] + Column(a, b, i - 1)) % Weight(3)) \div Base]
<1>n. Width(a) = n /\ Width(a) \in Nat
  BY WidthIs
<1>s. 0 \in Registers
  <2>1. Base * Base \in Nat /\ Base * Base > 0
    BY BaseIs
  <2> DEFINE bb == Base * Base
  <2> HIDE DEF bb
  <2>2. 0 \in 0 .. bb - 1
    BY <2>1 DEF bb
  <2> QED BY <2>2 DEF bb, Registers
<1>0. ASSUME NEW prev \in Registers, NEW i \in 1 .. Width(a) PROVE ((prev + Column(a, b, i - 1)) % Weight(3)) \div Base \in Registers
  <2> DEFINE k == i - 1
  <2>0. i \in 1 .. n
    BY <1>n
  <2>1. k \in 0 .. n - 1
    BY <2>0
  <2> HIDE DEF k
  <2>2. (prev + Column(a, b, k)) % Weight(3) = prev + Column(a, b, k)
    BY <2>1, ColumnFits
  <2>3. (prev + Column(a, b, k)) \div Base \in Registers
    BY <2>1, ColumnFits
  <2> QED BY <2>2, <2>3 DEF k
<1>1. G \in [Registers \X Nat -> Registers]
  <2> SUFFICES ASSUME NEW p \in Registers \X Nat PROVE (IF p[2] \in 1 .. Width(a) THEN ((p[1] + Column(a, b, p[2] - 1)) % Weight(3)) \div Base ELSE 0) \in Registers
    OBVIOUS
  <2>1. p[1] \in Registers
    OBVIOUS
  <2> QED BY <1>0, <1>s, <2>1
<1>2. PICK g \in [0 .. Width(a) -> Registers] : Up(g, Width(a), 0, G)
  <2> HIDE DEF G
  <2> QED BY <1>n, <1>1, <1>s, Recursion, Zenon
<1>3. ASSUME NEW i \in 1 .. Width(a), NEW prev \in Registers PROVE G[<<prev, i>>] = ((prev + Column(a, b, i - 1)) % Weight(3)) \div Base
  <2> <<prev, i>> \in Registers \X Nat /\ <<prev, i>>[1] = prev /\ <<prev, i>>[2] = i
    OBVIOUS
  <2> QED OBVIOUS
<1> HIDE DEF G
<1>4. \A i \in 1 .. Width(a) : g[i] = ((g[i - 1] + Column(a, b, i - 1)) % Weight(3)) \div Base
  <2> TAKE i \in 1 .. Width(a)
  <2>1. i - 1 \in 0 .. Width(a) /\ g[i - 1] \in Registers
    BY <1>n
  <2>2. g[i] = G[<<g[i - 1], i>>]
    BY <1>2 DEF Up
  <2> QED BY <2>1, <2>2, <1>3
<1>5. P(g)
  <2>1. g[0] = 0
    BY <1>2 DEF Up
  <2>2. g = [i \in 0 .. Width(a) |-> g[i]]
    OBVIOUS
  <2>3. \A i \in 0 .. Width(a) : i # 0 => i \in 1 .. Width(a)
    BY <1>n
  <2> QED BY <1>4, <2>1, <2>2, <2>3
<1>6. Accumulators(a, b) = CHOOSE h : P(h)
  BY DEF Accumulators
<1> DEFINE h == Accumulators(a, b)
<1>7. P(h)
  <2> HIDE DEF P
  <2> QED BY <1>5, <1>6
<1> HIDE DEF h
<1>8. h = [i \in 0 .. Width(a) |-> h[i]] /\ h[0] = 0
  <2>1. DOMAIN h = 0 .. Width(a) /\ 0 \in 0 .. Width(a)
    BY <1>n, <1>7
  <2> QED BY <1>7, <2>1
<1>9. ASSUME NEW i \in 1 .. Width(a), h[i - 1] \in Registers PROVE h[i] = G[<<h[i - 1], i>>]
  <2>1. i \in 0 .. Width(a) /\ i # 0
    BY <1>n
  <2>2. h[i] = ((h[i - 1] + Column(a, b, i - 1)) % Weight(3)) \div Base
    BY <1>7, <2>1
  <2> QED BY <1>3, <1>9, <2>2
<1>10. UpWithin(h, Width(a), 0, Registers, G)
  BY <1>8, <1>9 DEF UpWithin
<1>11. h = g
  BY <1>n, <1>1, <1>2, <1>s, <1>10, UpUnique, Zenon
<1>12. \A i \in 0 .. Width(a) - 1 : i + 1 \in 1 .. Width(a) /\ (i + 1) - 1 = i
  BY <1>n
<1>13. \A i \in 0 .. Width(a) - 1 : g[i + 1] = ((g[i] + Column(a, b, i)) % Weight(3)) \div Base
  BY <1>4, <1>12
<1> QED BY <1>2, <1>11, <1>13 DEF h, Up


\* The columns with their carries run up are the product.
LEMMA CombaColumns ==
  ASSUME NEW n \in Nat, n <= Base, NEW a \in [0 .. n - 1 -> Word], NEW b \in [0 .. n - 1 -> Word],
         NEW col, col = [k \in 0 .. n - 1 |-> Column(a, b, k)]
  PROVE  mag_mul_comba(a, b) = AddColumns(col, n).limbs /\ col \in [0 .. n - 1 -> Int]
<1> DEFINE acc == Accumulators(a, b)
           cy == Carries(col, n)
<1>n. Width(a) = n /\ DOMAIN a = 0 .. n - 1
  BY WidthIs
<1>0. ASSUME NEW k \in 0 .. n - 1 PROVE col[k] = Column(a, b, k) /\ col[k] \in Int
  <2>1. Column(a, b, k) \in 0 .. (k + 1) * ((Base - 1) * (Base - 1))
    BY ColumnBound
  <2>2. Column(a, b, k) \in Int
    BY <2>1
  <2> QED BY <2>2
<1>1. /\ acc \in [0 .. n -> Registers] /\ acc[0] = 0
      /\ \A i \in 0 .. n - 1 : acc[i + 1] = ((acc[i] + Column(a, b, i)) % Weight(3)) \div Base
  BY <1>n, AccumulatorsAre
<1>2. cy[0] = 0 /\ \A i \in 0 .. n - 1 : cy[i + 1] = (col[i] + cy[i]) \div Base
  BY <1>0, CarriesAre
<1>3. mag_mul_comba(a, b) = [k \in 0 .. n - 1 |-> (acc[k] + Column(a, b, k)) % Base]
  BY <1>n DEF mag_mul_comba
<1>4. AddColumns(col, n).limbs = [k \in 0 .. n - 1 |-> (col[k] + cy[k]) % Base]
  BY TableIs DEF AddColumns
<1>5. col \in [0 .. n - 1 -> Int]
  <2> DOMAIN col = 0 .. n - 1 /\ col = [k \in 0 .. n - 1 |-> col[k]]
    OBVIOUS
  <2> QED BY <1>0
<1> HIDE DEF acc, cy
<1> DEFINE T == {j \in Nat : j <= n => acc[j] = cy[j]}
<1>6. 0 \in T
  BY <1>1, <1>2
<1>7. ASSUME NEW j \in T PROVE j + 1 \in T
  <2>1. SUFFICES ASSUME j + 1 <= n PROVE acc[j + 1] = cy[j + 1]
    OBVIOUS
  <2>2. j \in 0 .. n - 1 /\ j \in 0 .. n /\ j <= n
    BY <2>1
  <2> DEFINE x == acc[j]
             c == Column(a, b, j)
  <2>3. x \in Registers /\ cy[j] = x /\ col[j] = c
    BY <1>0, <1>1, <2>2
  <2>4. (x + c) % Weight(3) = x + c
    <3> HIDE DEF x
    <3> QED BY <2>2, <2>3, ColumnFits
  <2>5. acc[j + 1] = (x + c) \div Base
    BY <1>1, <2>2, <2>4
  <2>6. cy[j + 1] = (c + x) \div Base
    BY <1>2, <2>2, <2>3
  <2>7. x \in Int /\ c \in Int
    BY <1>0, <2>2, <2>3, BaseIs DEF Registers
  <2>8. x + c = c + x
    BY <2>7
  <2> QED BY <2>5, <2>6, <2>8
<1>8. T = Nat
  <2> T \subseteq Nat
    OBVIOUS
  <2> HIDE DEF T
  <2> QED BY <1>6, <1>7, SetInduction
<1>9. ASSUME NEW k \in 0 .. n - 1 PROVE (acc[k] + Column(a, b, k)) % Base = (col[k] + cy[k]) % Base
  <2>1. k \in T
    <3> k \in Nat
      OBVIOUS
    <3> HIDE DEF T
    <3> QED BY <1>8
  <2>2. acc[k] = cy[k] /\ k \in 0 .. n
    BY <2>1
  <2>3. acc[k] \in Int
    BY <1>1, <2>2, BaseIs DEF Registers
  <2> DEFINE x == acc[k]
             c == Column(a, b, k)
  <2>4. x + c = c + x
    <3> x \in Int /\ c \in Int
      BY <1>0, <2>3
    <3> HIDE DEF x, c
    <3> QED OBVIOUS
  <2> QED BY <1>0, <2>2, <2>4
<1> QED BY <1>3, <1>4, <1>5, <1>9



\* The products of a and b below limb m, row by row.
Triangle(a, b, m) == [i \in 0 .. m - 1 |-> (a[i] * Weight(i)) * Below(b)[m - i]]
TriangleSum(a, b, m) == Sums(Triangle(a, b, m), m)[m]

\* A column more is a product more in every row.
LEMMA TriangleNext ==
  ASSUME NEW n \in Nat, NEW a \in [0 .. n - 1 -> Word], NEW b \in [0 .. n - 1 -> Word], NEW m \in 0 .. n - 1
  PROVE  /\ TriangleSum(a, b, m + 1) = TriangleSum(a, b, m) + Column(a, b, m) * Weight(m)
         /\ TriangleSum(a, b, m) \in Int
<1> DEFINE k == m + 1
           h == Triangle(a, b, k)
           f == [i \in 0 .. m |-> (a[i] * Weight(i)) * Below(b)[m - i]]
           g == [i \in 0 .. m |-> a[i] * b[m - i]]
           e == Triangle(a, b, m)
           w == Weight(m)
<1>1. /\ Below(b) \in [0 .. n -> Nat] /\ Below(b)[0] = 0
      /\ \A i \in 0 .. n - 1 : Below(b)[i + 1] = Below(b)[i] + b[i] * Weight(i)
  BY BelowWords
<1>2. k \in Nat /\ m \in Nat /\ 0 .. k - 1 = 0 .. m /\ m <= k /\ k <= n
  OBVIOUS
<1>w. w \in Nat
  BY <1>2, WeightIs
<1>3. ASSUME NEW i \in 0 .. m
      PROVE  /\ f[i] \in Int /\ g[i] \in Int /\ h[i] \in Int /\ h[i] = 1 * f[i] + w * g[i]
  <2> DEFINE x == a[i]
             y == b[m - i]
             u == Weight(i)
             v == Weight(m - i)
             B == Below(b)[m - i]
             C == Below(b)[k - i]
  <2>1. i \in Nat /\ m - i \in Nat /\ i + (m - i) = m /\ m - i \in 0 .. n - 1 /\ k - i = (m - i) + 1 /\ i \in 0 .. n - 1
        /\ m - i \in 0 .. n /\ k - i \in 0 .. n
    BY <1>2
  <2>2. x \in Word /\ y \in Word
    BY <2>1
  <2>3. x \in Nat
    BY <2>2, WordIs
  <2>4. y \in Nat
    BY <2>2, WordIs
  <2>5. u \in Nat
    BY <2>1, WeightIs
  <2>6. v \in Nat
    BY <2>1, WeightIs
  <2>7. w = u * v
    <3> DEFINE d == m - i
    <3>1. d \in Nat /\ i \in Nat /\ i + d = m
      BY <2>1
    <3> HIDE DEF d
    <3>2. Weight(i + d) = Weight(i) * Weight(d)
      BY <3>1, WeightAdd
    <3> QED BY <3>1, <3>2 DEF d
  <2>8. B \in Nat /\ C = B + y * v
    BY <1>1, <2>1
  <2>9. f[i] = (x * u) * B /\ g[i] = x * y /\ h[i] = (x * u) * C
    BY <1>2 DEF Triangle
  <2> HIDE DEF x, y, u, v, B, C, f, g, h, w
  <2>10. (x * u) * (B + y * v) = (x * u) * B + (u * v) * (x * y)
    BY <2>3, <2>4, <2>5, <2>6, <2>8
  <2> DEFINE p == (x * u) * B
             q == x * y
             r == w * q
  <2>11. p \in Int /\ q \in Int /\ r \in Int
    BY <1>w, <2>3, <2>4, <2>5, <2>8
  <2>12. h[i] = p + r /\ f[i] = p /\ g[i] = q
    BY <2>7, <2>8, <2>9, <2>10
  <2>13. h[i] = p + w * g[i]
    BY <2>12
  <2> HIDE DEF p, q, r
  <2>14. f[i] \in Int /\ g[i] \in Int /\ h[i] \in Int /\ 1 * p = p
    BY <2>11, <2>12
  <2> QED BY <2>12, <2>13, <2>14
<1>4. SumsCombined(h, 1, f, w, g, k)
  <2>1. Combines(h, 1, f, w, g, k)
    BY <1>2, <1>3 DEF Combines
  <2>2. \A i \in 0 .. k - 1 : f[i] \in Int
    BY <1>2, <1>3
  <2>3. \A i \in 0 .. k - 1 : g[i] \in Int
    BY <1>2, <1>3
  <2>4. \A i \in 0 .. k - 1 : h[i] \in Int
    BY <1>2, <1>3
  <2> HIDE DEF h, f, g, w, k
  <2> QED BY <1>2, <1>w, <2>1, <2>2, <2>3, <2>4, SumsLinear
<1>5. Sums(f, k)[k] = Sums(e, m)[m] /\ Sums(e, m)[m] \in Int
  <2>1. \A i \in 0 .. m - 1 : e[i] = f[i] /\ f[i] \in Int /\ e[i] \in Int
    <3> SUFFICES ASSUME NEW i \in 0 .. m - 1 PROVE e[i] = f[i] /\ f[i] \in Int
      OBVIOUS
    <3>1. i \in 0 .. m
      BY <1>2
    <3>2. e[i] = f[i]
      BY <3>1 DEF Triangle
    <3> QED BY <1>3, <3>1, <3>2
  <2>2. \A i \in 0 .. k - 1 : f[i] \in Int
    BY <1>2, <1>3
  <2>3. f[m] = 0
    <3>1. m \in 0 .. m /\ m - m = 0 /\ Below(b)[m - m] = 0
      BY <1>1, <1>2
    <3>2. f[m] = (a[m] * Weight(m)) * 0
      BY <3>1
    <3> DEFINE x == a[m]
    <3>3. x \in Word
      OBVIOUS
    <3> HIDE DEF x
    <3>4. x \in Nat
      BY <3>3, WordIs
    <3>5. (x * w) * 0 = 0
      <4> HIDE DEF w
      <4> QED BY <1>w, <3>4
    <3> QED BY <3>2, <3>5 DEF x
  <2> HIDE DEF e, f, k
  <2>4. Sums(f, k)[m] = Sums(e, m)[m]
    BY <1>2, <2>1, <2>2, SumsAgree
  <2>5. /\ Sums(f, k) \in [0 .. k -> Int]
        /\ \A i \in 0 .. k - 1 : Sums(f, k)[i + 1] = Sums(f, k)[i] + f[i]
    BY <1>2, <2>2, SumsIs
  <2>6. m \in 0 .. k - 1 /\ m \in 0 .. k /\ m + 1 = k
    BY <1>2 DEF k
  <2>7. Sums(f, k)[k] = Sums(f, k)[m] + f[m] /\ Sums(f, k)[m] \in Int
    BY <2>5, <2>6
  <2> QED BY <2>3, <2>4, <2>7
<1>6. Sums(g, k)[k] = Column(a, b, m) /\ Column(a, b, m) \in Int
  <2>1. Sums(g, k)[k] = Column(a, b, m)
    BY DEF Column
  <2>2. Column(a, b, m) \in 0 .. (m + 1) * ((Base - 1) * (Base - 1))
    BY ColumnBound
  <2> QED BY <2>1, <2>2
<1> DEFINE p == Sums(e, m)[m]
           c == Column(a, b, m)
<1>7. TriangleSum(a, b, k) = 1 * p + w * c
  BY <1>4, <1>5, <1>6 DEF SumsCombined, TriangleSum
<1>8. TriangleSum(a, b, m) = p
  BY DEF TriangleSum
<1>9. p \in Int /\ c \in Int
  BY <1>5, <1>6
<1> HIDE DEF p, c, w
<1>10. 1 * p + w * c = p + c * w
  BY <1>w, <1>9
<1> QED BY <1>7, <1>8, <1>9, <1>10 DEF k, w, c

\* All the columns.
LEMMA TriangleColumns ==
  ASSUME NEW n \in Nat, NEW a \in [0 .. n - 1 -> Word], NEW b \in [0 .. n - 1 -> Word],
         NEW col \in [0 .. n - 1 -> Int], \A k \in 0 .. n - 1 : col[k] = Column(a, b, k)
  PROVE  Value(col) = TriangleSum(a, b, n)
<1>1. /\ Below(col) \in [0 .. n -> Int] /\ Below(col)[0] = 0 /\ Value(col) = Below(col)[n]
      /\ \A i \in 0 .. n - 1 : Below(col)[i + 1] = Below(col)[i] + col[i] * Weight(i)
  BY BelowIs
<1> DEFINE T == {j \in Nat : j <= n => Below(col)[j] = TriangleSum(a, b, j)}
<1>2. 0 \in T
  <2>1. Sums(Triangle(a, b, 0), 0)[0] = 0
    <3> DEFINE f == Triangle(a, b, 0)
    <3>1. \A i \in 0 .. 0 - 1 : f[i] \in Int
      OBVIOUS
    <3> HIDE DEF f
    <3>2. Sums(f, 0)[0] = 0
      BY <3>1, SumsIs
    <3> QED BY <3>2 DEF f
  <2> QED BY <1>1, <2>1 DEF TriangleSum
<1>3. ASSUME NEW j \in T PROVE j + 1 \in T
  <2>1. SUFFICES ASSUME j + 1 <= n PROVE Below(col)[j + 1] = TriangleSum(a, b, j + 1)
    OBVIOUS
  <2>2. j \in 0 .. n - 1 /\ j <= n
    BY <2>1
  <2>3. TriangleSum(a, b, j + 1) = TriangleSum(a, b, j) + Column(a, b, j) * Weight(j)
    BY <2>2, TriangleNext
  <2>4. Below(col)[j] = TriangleSum(a, b, j)
    BY <2>2
  <2>5. Below(col)[j + 1] = Below(col)[j] + Column(a, b, j) * Weight(j)
    BY <1>1, <2>2
  <2> QED BY <2>3, <2>4, <2>5
<1>4. T = Nat
  <2> T \subseteq Nat
    OBVIOUS
  <2> HIDE DEF T
  <2> QED BY <1>2, <1>3, SetInduction
<1>5. n \in T
  <2> HIDE DEF T
  <2> QED BY <1>4
<1> QED BY <1>1, <1>5

\* Cut to the width, the rows are those of the whole product.
LEMMA TriangleSame ==
  ASSUME NEW n \in Nat, NEW a \in [0 .. n - 1 -> Word], NEW b \in [0 .. n - 1 -> Word]
  PROVE  Same(TriangleSum(a, b, n), Value(a) * Value(b), n)
<1> DEFINE e == Triangle(a, b, n)
           f == Sums(e, n)
           B == Value(b)
           W == Weight(n)
<1>1. Below(b) \in [0 .. n -> Nat]
  BY BelowWords
<1>2. B \in Nat
  BY ValueNat
<1>w. W \in Nat
  BY WeightIs
<1>3. ASSUME NEW j \in 0 .. n - 1
      PROVE  e[j] \in Int /\ Same(e[j], (a[j] * B) * Weight(j), n)
  <2> DEFINE x == a[j]
             u == Weight(j)
             v == Weight(n - j)
             z == Below(b)[n - j]
  <2>1. j \in Nat /\ n - j \in 0 .. n /\ n - j \in Nat /\ j + (n - j) = n
    OBVIOUS
  <2>2. x \in Word
    OBVIOUS
  <2>3. x \in Nat
    BY <2>2, WordIs
  <2>4. u \in Nat
    BY <2>1, WeightIs
  <2>5. v \in Nat
    BY <2>1, WeightIs
  <2>6. W = u * v
    <3> DEFINE d == n - j
    <3>1. d \in Nat /\ j + d = n
      BY <2>1
    <3> HIDE DEF d
    <3>2. Weight(j + d) = Weight(j) * Weight(d)
      BY <2>1, <3>1, WeightAdd
    <3> QED BY <3>1, <3>2 DEF d
  <2>7. PICK t \in Nat : B = z + t * v
    <3> DEFINE d == n - j
    <3>1. d \in 0 .. n
      BY <2>1
    <3> HIDE DEF d
    <3>2. \E t \in Nat : Value(b) = Below(b)[d] + t * Weight(d)
      BY <3>1, AboveIs
    <3> QED BY <3>2 DEF d
  <2>8. z \in Nat
    BY <1>1, <2>1
  <2>9. e[j] = (x * u) * z
    BY DEF Triangle
  <2> HIDE DEF x, u, v, z, B, W, e
  <2>10. (x * (z + t * v)) * u = (x * u) * z + (x * t) * (u * v)
    BY <2>3, <2>4, <2>5, <2>7, <2>8
  <2> DEFINE p == (x * u) * z
             q == x * t
             s == - q
             y == (x * B) * u
             o == q * W
  <2>11. p \in Int /\ q \in Int /\ y \in Int /\ s \in Int /\ o \in Int /\ s * W = - o
    BY <1>w, <2>3, <2>4, <2>7, <2>8, <1>2
  <2>12. y = p + o
    BY <2>6, <2>7, <2>10
  <2>13. e[j] = p
    BY <2>9
  <2> HIDE DEF p, q, y, s, o
  <2>14. p = y + s * W
    BY <2>11, <2>12
  <2>15. Same(p, y, n)
    BY <2>11, <2>14 DEF Same, W
  <2> QED BY <2>11, <2>13, <2>15 DEF x, u, y
<1>4. /\ f \in [0 .. n -> Int] /\ f[0] = 0
      /\ \A i \in 0 .. n - 1 : f[i + 1] = f[i] + e[i]
  <2>1. \A i \in 0 .. n - 1 : e[i] \in Int
    BY <1>3
  <2> HIDE DEF e
  <2> QED BY <2>1, SumsIs
<1> HIDE DEF e, f, B
<1>5. ASSUME NEW j \in 0 .. n - 1 PROVE Same(f[j + 1], f[j] + (a[j] * B) * Weight(j), n)
  <2> DEFINE x == a[j]
             y == (x * B) * Weight(j)
             p == e[j]
             F == f[j]
  <2>0. x \in Word /\ j \in Nat
    OBVIOUS
  <2>3. x \in Nat
    <3> HIDE DEF x
    <3> QED BY <2>0, WordIs
  <2>4. Weight(j) \in Nat
    BY <2>0, WeightIs
  <2>1. y \in Int
    <3> HIDE DEF x
    <3> QED BY <1>2, <2>3, <2>4
  <2>2. p \in Int /\ F \in Int /\ f[j + 1] = F + p /\ Same(p, y, n)
    BY <1>3, <1>4
  <2> HIDE DEF x, y, p, F
  <2>5. Same(F, F, n)
    BY <2>2, SameRefl
  <2>6. Same(F + p, F + y, n)
    BY <2>1, <2>2, <2>5, SameAdd
  <2> QED BY <2>2, <2>6 DEF F, y, x
<1>6. Grows(f, a, B, n, n)
  BY <1>4, <1>5 DEF Grows
<1>7. n \in 0 .. n
  OBVIOUS
<1>8. Same(f[n], Below(a)[n] * B, n)
  BY <1>2, <1>6, <1>7, StepsAdd
<1>9. Value(a) = Below(a)[n]
  BY BelowWords
<1> QED BY <1>8, <1>9 DEF f, e, B, TriangleSum

\* mag_mul_comba is mag_mul.
LEMMA CombaIs ==
  ASSUME NEW n \in Nat, n <= Base, NEW a \in [0 .. n - 1 -> Word], NEW b \in [0 .. n - 1 -> Word]
  PROVE  mag_mul_comba(a, b) = mag_mul(a, b)
<1> DEFINE col == [k \in 0 .. n - 1 |-> Column(a, b, k)]
           l == mag_mul_comba(a, b)
           y == Value(a) * Value(b)
<1>1. \A k \in 0 .. n - 1 : col[k] = Column(a, b, k)
  OBVIOUS
<1>2. l = AddColumns(col, n).limbs /\ col \in [0 .. n - 1 -> Int]
  <2>0. col = [k \in 0 .. n - 1 |-> Column(a, b, k)]
    OBVIOUS
  <2> HIDE DEF col
  <2> QED BY <2>0, CombaColumns
<1> HIDE DEF col, l
<1>3. l \in [0 .. n - 1 -> Word] /\ Value(l) = Value(col) % Weight(n)
  BY <1>2, AddColumnsIs
<1>4. Value(col) = TriangleSum(a, b, n)
  BY <1>1, <1>2, TriangleColumns
<1>5. PICK t \in Int : TriangleSum(a, b, n) = y + t * Weight(n)
  BY TriangleSame DEF Same
<1>6. y \in Int
  <2>1. Value(a) \in Nat
    BY ValueNat
  <2>2. Value(b) \in Nat
    BY ValueNat
  <2> QED BY <2>1, <2>2
<1>7. Weight(n) \in Nat /\ Weight(n) > 0
  <2>1. Weight(n) \in Nat /\ Weight(n) >= 1
    BY WeightIs
  <2> QED BY <2>1
<1> HIDE DEF y
<1>8. (y + t * Weight(n)) % Weight(n) = y % Weight(n)
  BY <1>6, <1>7, ModShift
<1>9. Value(l) = y % Weight(n)
  BY <1>3, <1>4, <1>5, <1>8
<1>10. mag_mul(a, b) \in [0 .. n - 1 -> Word] /\ Value(mag_mul(a, b)) = y % Weight(n)
  BY MagMulIs DEF y
<1>11. l = mag_mul(a, b)
  BY <1>3, <1>9, <1>10, ValueInjective
<1> QED BY <1>11 DEF l


-----------------------------------------------------------------------------
(* Products in two carry chains                                            *)

Adx(n) == [limbs : [0 .. n - 1 -> Word], cf : {0, 1}, of : {0, 1}]

\* The limbs and the two carries, that into limb k and that into the next.
AdxValue(s, k) == Value(s.limbs) + s.cf * Weight(k) + s.of * Weight(k + 1)

\* Two words and a carry leave a word and a carry.
LEMMA WordSum ==
  ASSUME NEW x \in Word, NEW y \in Word, NEW c \in {0, 1}
  PROVE  /\ (x + y + c) % Base \in Word /\ (x + y + c) \div Base \in {0, 1}
         /\ x + y + c = ((x + y + c) \div Base) * Base + ((x + y + c) % Base)
<1> DEFINE B == Base
           t == x + y + c
           q == t \div B
           r == t % B
<1>1. x \in Nat /\ x < B
  BY WordIs
<1>2. y \in Nat /\ y < B
  BY WordIs
<1>3. B \in Nat /\ B >= 4
  BY BaseIs
<1>4. t \in Nat /\ t < 2 * B
  BY <1>1, <1>2, <1>3
<1>5. t = B * q + r /\ q \in Nat /\ r \in 0 .. B - 1
  <2> HIDE DEF B, t
  <2> QED BY <1>3, <1>4, DivRem
<1> HIDE DEF t, q, r
<1>6. r \in Word
  BY <1>5 DEF Word
<1> HIDE DEF B
<1>7. q < 2
  <2> SUFFICES ASSUME q >= 2 PROVE FALSE
    BY <1>5
  <2>1. 2 * B <= q * B
    BY <1>3, <1>5, TimesMonotone
  <2>2. q * B = B * q
    BY <1>3, <1>5
  <2> DEFINE z == B * q
  <2>3. z \in Nat /\ 2 * B <= z /\ t = z + r
    BY <1>3, <1>5, <2>1, <2>2
  <2> HIDE DEF z
  <2> QED BY <1>3, <1>4, <1>5, <2>3
<1>8. q \in {0, 1}
  BY <1>5, <1>7
<1>9. t = q * B + r
  <2>1. B * q = q * B
    BY <1>3, <1>5
  <2> QED BY <1>5, <2>1
<1> QED BY <1>6, <1>8, <1>9 DEF t, q, r, B

\* The halves of a product of two words.
LEMMA WordHalves ==
  ASSUME NEW x \in Word, NEW y \in Word, NEW p, p = x * y
  PROVE  p \in Nat /\ p % Base \in Word /\ p \div Base \in Word /\ p = (p \div Base) * Base + (p % Base)
<1> DEFINE B == Base
           m == B - 1
           q == p \div B
           r == p % B
<1>1. B \in Nat /\ B >= 4
  BY BaseIs
<1>2. p \in 0 .. m * m
  BY WordTimes
<1>3. m * m = (B - 2) * B + 1 /\ m * m \in Nat
  BY <1>1
<1>4. p \in Nat
  BY <1>2, <1>3
<1>5. p = B * q + r /\ q \in Nat /\ r \in 0 .. B - 1
  <2> HIDE DEF B
  <2> QED BY <1>1, <1>4, DivRem
<1>6. r \in Word
  BY <1>5 DEF Word
<1> DEFINE o == (B - 2) * B
           z == B * q
<1>7. p <= o + 1 /\ p = z + r /\ z \in Nat /\ o \in Nat
  <2> DEFINE mm == m * m
  <2>1. p \in 0 .. mm /\ mm = o + 1 /\ mm \in Nat
    BY <1>2, <1>3
  <2>2. o \in Nat
    BY <1>1
  <2>3. z \in Nat
    <3> HIDE DEF q
    <3> QED BY <1>1, <1>5
  <2>4. p = z + r
    BY <1>5
  <2> HIDE DEF mm, o, z
  <2> QED BY <2>1, <2>2, <2>3, <2>4
<1>8. q < B
  <2> SUFFICES ASSUME q >= B PROVE FALSE
    BY <1>1, <1>5
  <2>1. B * B <= q * B
    <3> HIDE DEF q, B
    <3> QED BY <1>1, <1>5, TimesMonotone
  <2>2. q * B = z /\ o = B * B - 2 * B
    <3> HIDE DEF q
    <3> QED BY <1>1, <1>5
  <2> DEFINE bb == B * B
  <2>3. bb \in Nat /\ bb <= z /\ o = bb - 2 * B
    BY <1>1, <2>1, <2>2
  <2> HIDE DEF bb, z, o, B, r
  <2> QED BY <1>1, <1>5, <1>7, <2>3
<1>9. q \in Word
  BY <1>1, <1>5, <1>8 DEF Word
<1>10. B * q = q * B
  <2> HIDE DEF q, B
  <2> QED BY <1>1, <1>5
<1> QED BY <1>4, <1>5, <1>6, <1>9, <1>10

\* A product, its low half at a limb and its high half above it.
LEMMA AdxStepIs ==
  ASSUME NEW n \in Nat, NEW s \in Adx(n), NEW at \in 0 .. n - 1, NEW x \in Word, NEW y \in Word,
         NEW p, p = x * y, NEW next, next = AdxStep(s, at, p)
  PROVE  next \in Adx(n) /\ Same(AdxValue(next, at + 1), AdxValue(s, at) + p * Weight(at), n)
<1> DEFINE l == s.limbs
           B == Base
           d == p % B
           h == p \div B
           u == l[at]
           v == LimbAt(l, at + 1)
           lo == u + d + s.cf
           hi == v + h + s.of
           f == lo \div B
           e == lo % B
           g == hi \div B
           k == hi % B
           m == [i \in 0 .. n - 1 |-> IF i = at THEN e ELSE l[i]]
           z == [i \in 0 .. n - 1 |-> IF i = at THEN e ELSE IF i = at + 1 THEN k ELSE l[i]]
<1>1. l \in [0 .. n - 1 -> Word] /\ s.cf \in {0, 1} /\ s.of \in {0, 1}
  BY DEF Adx
<1>2. d \in Word /\ h \in Word /\ p = h * B + d /\ p \in Nat
  BY WordHalves
<1>3. u \in Word /\ v \in Word
  <2>1. 0 \in Word
    BY BaseIs DEF Word
  <2> QED BY <1>1, <2>1 DEF LimbAt
<1> HIDE DEF d, h, u, v
<1>4. e \in Word /\ f \in {0, 1} /\ lo = f * B + e
  BY <1>1, <1>2, <1>3, WordSum
<1>5. k \in Word /\ g \in {0, 1} /\ hi = g * B + k
  BY <1>1, <1>2, <1>3, WordSum
<1> HIDE DEF e, f, g, k
<1>6. next = [limbs |-> z, cf |-> f, of |-> g]
  BY <1>1 DEF AdxStep, e, f, g, k, d, h, u, v
<1>7. m \in [0 .. n - 1 -> Word] /\ z \in [0 .. n - 1 -> Word]
  BY <1>1, <1>4, <1>5
<1>8. next \in Adx(n)
  BY <1>4, <1>5, <1>6, <1>7 DEF Adx
<1> DEFINE V == Value(l)
           M == Value(m)
           Z == Value(z)
           w == Weight(at)
           ww == Weight(at + 1)
           www == Weight(at + 2)
<1>9. w \in Nat /\ ww = B * w /\ www = B * ww /\ ww \in Nat /\ www \in Nat
  <2>1. at \in Nat /\ at + 1 \in Nat /\ (at + 1) + 1 = at + 2 /\ at + 2 \in Nat
    OBVIOUS
  <2>2. Weight(at + 1) = Base * Weight(at) /\ Weight(at) \in Nat
    BY <2>1, WeightNext
  <2> DEFINE j == at + 1
  <2>3. j \in Nat /\ j + 1 = at + 2
    BY <2>1
  <2> HIDE DEF j
  <2>4. Weight(j + 1) = Base * Weight(j) /\ Weight(j) \in Nat
    BY <2>3, WeightNext
  <2>5. www \in Nat
    BY <2>1, WeightIs
  <2> QED BY <2>2, <2>3, <2>4, <2>5 DEF j
<1>10. M = V + (e - u) * w /\ V \in Int /\ M \in Int
  <2>1. l \in [0 .. n - 1 -> Int]
    BY <1>1, WordsAre
  <2>2. m \in [0 .. n - 1 -> Int]
    BY <1>7, WordsAre
  <2>3. m[at] = e /\ l[at] = u /\ \A i \in 0 .. n - 1 : i # at => m[i] = l[i]
    BY DEF u
  <2> HIDE DEF m, l
  <2>4. Value(m) = Value(l) + (m[at] - l[at]) * Weight(at) /\ Value(l) \in Int /\ Value(m) \in Int
    BY <2>1, <2>2, <2>3, ValueChanged
  <2> QED BY <2>3, <2>4
<1>11. Z \in Int
  <2> HIDE DEF z
  <2>1. Value(z) \in Nat
    BY <1>7, ValueNat
  <2> QED BY <2>1
<1>12. AdxValue(next, at + 1) = Z + f * ww + g * www /\ AdxValue(s, at) = V + s.cf * w + s.of * ww
  <2>1. next.limbs = z /\ next.cf = f /\ next.of = g /\ (at + 1) + 1 = at + 2
    BY <1>6
  <2> HIDE DEF z
  <2> QED BY <2>1 DEF AdxValue
<1>i. /\ e \in Int /\ f \in Int /\ g \in Int /\ k \in Int /\ u \in Int /\ v \in Int /\ d \in Int /\ h \in Int
      /\ s.cf \in Int /\ s.of \in Int /\ B \in Nat
  <2>1. e \in Int
    BY <1>4, WordIs
  <2>2. k \in Int
    BY <1>5, WordIs
  <2>3. u \in Int
    BY <1>3, WordIs
  <2>4. v \in Int
    BY <1>3, WordIs
  <2>5. d \in Int
    BY <1>2, WordIs
  <2>6. h \in Int
    BY <1>2, WordIs
  <2>7. f \in Int /\ g \in Int /\ s.cf \in Int /\ s.of \in Int
    BY <1>1, <1>4, <1>5
  <2> QED BY <2>1, <2>2, <2>3, <2>4, <2>5, <2>6, <2>7, BaseIs
<1> DEFINE cf == s.cf
           of == s.of
           S == V + cf * w + of * ww + p * w
           N1 == Z + f * ww + g * www
<1>13. S \in Int /\ N1 \in Int
  <2> HIDE DEF V, Z, w, ww, www, B, cf, of
  <2>1. cf * w \in Int /\ of * ww \in Int
    BY <1>9, <1>i DEF cf, of
  <2>2. p * w \in Int
    BY <1>2, <1>9
  <2>3. f * ww \in Int /\ g * www \in Int
    BY <1>9, <1>i
  <2>4. V \in Int /\ Z \in Int
    BY <1>10, <1>11
  <2> DEFINE a1 == cf * w
             a2 == of * ww
             a3 == p * w
             a4 == f * ww
             a5 == g * www
  <2> HIDE DEF a1, a2, a3, a4, a5
  <2>5. (V + a1 + a2 + a3) \in Int /\ (Z + a4 + a5) \in Int
    BY <2>1, <2>2, <2>3, <2>4 DEF a1, a2, a3, a4, a5
  <2> QED BY <2>5 DEF a1, a2, a3, a4, a5
<1>14. Same(N1, S, n)
  <2> HIDE DEF V, Z, M, w, ww, www, B, cf, of
  <2>e. e = u + d + cf - f * B
    <3> DEFINE fb == f * B
    <3>1. fb \in Int /\ u + d + cf = fb + e
      BY <1>4, <1>i DEF B, cf
    <3> HIDE DEF fb
    <3>2. e = u + d + cf - fb
      BY <1>i, <3>1 DEF cf
    <3> QED BY <3>2 DEF fb
  <2>h. k = v + h + of - g * B
    <3> DEFINE fb == g * B
    <3>1. fb \in Int /\ v + h + of = fb + k
      BY <1>5, <1>i DEF B, of
    <3> HIDE DEF fb
    <3>2. k = v + h + of - fb
      BY <1>i, <3>1 DEF of
    <3> QED BY <3>2 DEF fb
  <2>i. cf \in Int /\ of \in Int
    BY <1>i DEF cf, of
  <2>1. M = V + d * w + cf * w - f * ww
    <3>1. e - u = d + cf - f * B /\ f * B \in Int
      BY <1>i, <2>e, <2>i
    <3>2. (d + cf - f * B) * w = d * w + cf * w - f * (B * w)
      BY <1>i, <1>9, <2>i
    <3> DEFINE r == d * w
               o == cf * w
               q == f * ww
    <3>3. M = V + (r + o - q) /\ r \in Int /\ o \in Int /\ q \in Int
      BY <1>9, <1>10, <1>i, <2>i, <3>1, <3>2
    <3> HIDE DEF r, o, q
    <3>4. M = V + r + o - q
      BY <1>10, <3>3
    <3> QED BY <3>4 DEF r, o, q
  <2>2. p * w = h * ww + d * w
    <3>1. (h * B + d) * w = h * (B * w) + d * w
      BY <1>9, <1>i
    <3> QED BY <1>2, <1>9, <3>1 DEF B
  <2>3. CASE at + 1 < n
    <3>1. Z = M + (k - v) * ww
      <4> DEFINE j == at + 1
      <4>1. j \in 0 .. n - 1 /\ j # at
        BY <2>3
      <4>2. m \in [0 .. n - 1 -> Int]
        BY <1>7, WordsAre
      <4>3. z \in [0 .. n - 1 -> Int]
        BY <1>7, WordsAre
      <4>4. m[j] = v /\ z[j] = k /\ \A i \in 0 .. n - 1 : i # j => z[i] = m[i]
        BY <1>1, <4>1 DEF LimbAt, v
      <4> HIDE DEF m, z, j
      <4>5. Value(z) = Value(m) + (z[j] - m[j]) * Weight(j)
        BY <4>1, <4>2, <4>3, <4>4, ValueChanged
      <4> QED BY <4>4, <4>5 DEF Z, M, ww, j
    <3>2. k - v = h + of - g * B /\ g * B \in Int
      BY <1>i, <2>h, <2>i
    <3>3. (h + of - g * B) * ww = h * ww + of * ww - g * (B * ww)
      BY <1>i, <1>9, <2>i
    <3> DEFINE a1 == h * ww
               a2 == of * ww
               a3 == g * www
               a4 == d * w
               a5 == cf * w
               a6 == f * ww
               a7 == p * w
    <3>4. Z = M + (a1 + a2 - a3) /\ M = V + a4 + a5 - a6 /\ a7 = a1 + a4
      BY <1>9, <2>1, <2>2, <3>1, <3>2, <3>3
    <3>5. a1 \in Int /\ a2 \in Int /\ a3 \in Int /\ a4 \in Int /\ a5 \in Int /\ a6 \in Int
      BY <1>9, <1>i, <2>i
    <3>6. N1 = Z + a6 + a3 /\ S = V + a5 + a2 + a7
      OBVIOUS
    <3> HIDE DEF a1, a2, a3, a4, a5, a6, a7, N1, S
    <3>v. V \in Int /\ M \in Int /\ Z \in Int
      BY <1>10, <1>11
    <3>7. N1 = S
      <4>1. Z = V + a4 + a5 - a6 + a1 + a2 - a3
        BY <3>v, <3>4, <3>5
      <4> QED BY <3>v, <3>4, <3>5, <3>6, <4>1
    <3> QED BY <1>13, <3>7, SameRefl
  <2>4. CASE at + 1 = n
    <3>1. z = m
      BY <2>4
    <3>2. Z = M
      BY <3>1 DEF Z, M
    <3> DEFINE a1 == h * ww
               a2 == of * ww
               a3 == g * www
               a4 == d * w
               a5 == cf * w
               a6 == f * ww
               a7 == p * w
               q == g * B - h - of
    <3>4. M = V + a4 + a5 - a6 /\ a7 = a1 + a4
      BY <2>1, <2>2
    <3>5. a1 \in Int /\ a2 \in Int /\ a3 \in Int /\ a4 \in Int /\ a5 \in Int /\ a6 \in Int /\ q \in Int
      BY <1>9, <1>i, <2>i
    <3>6. N1 = Z + a6 + a3 /\ S = V + a5 + a2 + a7
      OBVIOUS
    <3>7. q * ww = a3 - a1 - a2
      <4>1. (g * B - h - of) * ww = g * (B * ww) - h * ww - of * ww
        BY <1>9, <1>i, <2>i
      <4> QED BY <1>9, <4>1
    <3>8. ww = Weight(n)
      BY <2>4 DEF ww
    <3> HIDE DEF a1, a2, a3, a4, a5, a6, a7, N1, S, q
    <3>9. N1 = S + (a3 - a1 - a2)
      BY <1>10, <1>11, <3>2, <3>4, <3>5, <3>6
    <3>10. N1 = S + q * Weight(n)
      BY <3>7, <3>8, <3>9
    <3> QED BY <3>5, <3>10 DEF Same
  <2> QED BY <2>3, <2>4
<1>15. N1 = AdxValue(next, at + 1) /\ S = AdxValue(s, at) + p * Weight(at)
  BY <1>12
<1> HIDE DEF N1, S
<1> QED BY <1>8, <1>14, <1>15

\* The steps of a row.
LEMMA AdxStepsAre ==
  ASSUME NEW n \in Nat, NEW r \in [0 .. n - 1 -> Word], NEW b \in [0 .. n - 1 -> Word], NEW x \in Word, NEW i0 \in 0 .. n - 1
  PROVE  /\ AdxSteps(r, x, b, i0) \in [0 .. (Width(r) - i0) -> Adx(n)]
         /\ AdxSteps(r, x, b, i0)[0] = [limbs |-> r, cf |-> 0, of |-> 0]
         /\ \A i \in 0 .. (Width(r) - i0) - 1 : AdxSteps(r, x, b, i0)[i + 1] = AdxStep(AdxSteps(r, x, b, i0)[i], i0 + i, x * b[i])
<1> DEFINE G == [p \in Adx(n) \X Nat |-> IF p[2] \in 1 .. (Width(r) - i0) THEN AdxStep(p[1], i0 + p[2] - 1, x * b[p[2] - 1]) ELSE [limbs |-> r, cf |-> 0, of |-> 0]]
           P(h) == h = [i \in 0 .. (Width(r) - i0) |-> IF i = 0 THEN [limbs |-> r, cf |-> 0, of |-> 0] ELSE AdxStep(h[i - 1], i0 + i - 1, x * b[i - 1])]
<1>n. Width(r) = n /\ Width(r) - i0 \in Nat
  <2>1. Width(r) = n
    BY WidthIs
  <2> QED BY <2>1
<1>s. [limbs |-> r, cf |-> 0, of |-> 0] \in Adx(n)
  BY DEF Adx
<1>0. ASSUME NEW prev \in Adx(n), NEW i \in 1 .. (Width(r) - i0) PROVE AdxStep(prev, i0 + i - 1, x * b[i - 1]) \in Adx(n)
  <2> DEFINE at == i0 + i - 1
             y == b[i - 1]
             p == x * y
  <2>0. i \in 1 .. n - i0
    BY <1>n
  <2>1. at \in 0 .. n - 1 /\ i - 1 \in 0 .. n - 1
    BY <2>0
  <2>2. y \in Word
    BY <2>1
  <2> HIDE DEF at, y
  <2>3. p = x * y
    OBVIOUS
  <2> HIDE DEF p
  <2>4. AdxStep(prev, at, p) \in Adx(n)
    BY <2>1, <2>2, <2>3, AdxStepIs
  <2> QED BY <2>4 DEF at, y, p
<1>1. G \in [Adx(n) \X Nat -> Adx(n)]
  <2> SUFFICES ASSUME NEW p \in Adx(n) \X Nat PROVE (IF p[2] \in 1 .. (Width(r) - i0) THEN AdxStep(p[1], i0 + p[2] - 1, x * b[p[2] - 1]) ELSE [limbs |-> r, cf |-> 0, of |-> 0]) \in Adx(n)
    OBVIOUS
  <2>1. p[1] \in Adx(n)
    OBVIOUS
  <2> QED BY <1>0, <1>s, <2>1
<1>2. PICK g \in [0 .. (Width(r) - i0) -> Adx(n)] : Up(g, (Width(r) - i0), [limbs |-> r, cf |-> 0, of |-> 0], G)
  <2> HIDE DEF G
  <2> QED BY <1>n, <1>1, <1>s, Recursion, Zenon
<1>3. ASSUME NEW i \in 1 .. (Width(r) - i0), NEW prev \in Adx(n) PROVE G[<<prev, i>>] = AdxStep(prev, i0 + i - 1, x * b[i - 1])
  <2> <<prev, i>> \in Adx(n) \X Nat /\ <<prev, i>>[1] = prev /\ <<prev, i>>[2] = i
    OBVIOUS
  <2> QED OBVIOUS
<1> HIDE DEF G
<1>4. \A i \in 1 .. (Width(r) - i0) : g[i] = AdxStep(g[i - 1], i0 + i - 1, x * b[i - 1])
  <2> TAKE i \in 1 .. (Width(r) - i0)
  <2>1. i - 1 \in 0 .. (Width(r) - i0) /\ g[i - 1] \in Adx(n)
    BY <1>n
  <2>2. g[i] = G[<<g[i - 1], i>>]
    BY <1>2 DEF Up
  <2> QED BY <2>1, <2>2, <1>3
<1>5. P(g)
  <2>1. g[0] = [limbs |-> r, cf |-> 0, of |-> 0]
    BY <1>2 DEF Up
  <2>2. g = [i \in 0 .. (Width(r) - i0) |-> g[i]]
    OBVIOUS
  <2>3. \A i \in 0 .. (Width(r) - i0) : i # 0 => i \in 1 .. (Width(r) - i0)
    BY <1>n
  <2> QED BY <1>4, <2>1, <2>2, <2>3
<1>6. AdxSteps(r, x, b, i0) = CHOOSE h : P(h)
  BY DEF AdxSteps
<1> DEFINE h == AdxSteps(r, x, b, i0)
<1>7. P(h)
  <2> HIDE DEF P
  <2> QED BY <1>5, <1>6
<1> HIDE DEF h
<1>8. h = [i \in 0 .. (Width(r) - i0) |-> h[i]] /\ h[0] = [limbs |-> r, cf |-> 0, of |-> 0]
  <2>1. DOMAIN h = 0 .. (Width(r) - i0) /\ 0 \in 0 .. (Width(r) - i0)
    BY <1>n, <1>7
  <2> QED BY <1>7, <2>1
<1>9. ASSUME NEW i \in 1 .. (Width(r) - i0), h[i - 1] \in Adx(n) PROVE h[i] = G[<<h[i - 1], i>>]
  <2>1. i \in 0 .. (Width(r) - i0) /\ i # 0
    BY <1>n
  <2>2. h[i] = AdxStep(h[i - 1], i0 + i - 1, x * b[i - 1])
    BY <1>7, <2>1
  <2> QED BY <1>3, <1>9, <2>2
<1>10. UpWithin(h, (Width(r) - i0), [limbs |-> r, cf |-> 0, of |-> 0], Adx(n), G)
  BY <1>8, <1>9 DEF UpWithin
<1>11. h = g
  BY <1>n, <1>1, <1>2, <1>s, <1>10, UpUnique, Zenon
<1>12. \A i \in 0 .. (Width(r) - i0) - 1 : i + 1 \in 1 .. (Width(r) - i0) /\ (i + 1) - 1 = i
  BY <1>n
<1>13. \A i \in 0 .. (Width(r) - i0) - 1 : g[i + 1] = AdxStep(g[i], i0 + i, x * b[i])
  BY <1>4, <1>12
<1> QED BY <1>2, <1>11, <1>13 DEF h, Up


\* A row adds x times as much of b as fits.
LEMMA AdxRowIs ==
  ASSUME NEW n \in Nat, NEW r \in [0 .. n - 1 -> Word], NEW b \in [0 .. n - 1 -> Word], NEW x \in Word, NEW i \in 0 .. n - 1
  PROVE  /\ AdxRow(r, x, b, i) \in [0 .. n - 1 -> Word]
         /\ Same(Value(AdxRow(r, x, b, i)), Value(r) + (x * Value(b)) * Weight(i), n)
<1> DEFINE h == AdxSteps(r, x, b, i)
           m == n - i
           B == Below(b)
           R == Value(r)
           w == Weight(i)
<1>n. Width(r) = n /\ Width(r) - i \in Nat
  <2>1. Width(r) = n
    BY WidthIs
  <2> QED BY <2>1
<1>1. /\ h \in [0 .. m -> Adx(n)] /\ h[0] = [limbs |-> r, cf |-> 0, of |-> 0]
      /\ \A j \in 0 .. m - 1 : h[j + 1] = AdxStep(h[j], i + j, x * b[j])
  <2> DEFINE k == Width(r) - i
  <2>1. /\ h \in [0 .. k -> Adx(n)] /\ h[0] = [limbs |-> r, cf |-> 0, of |-> 0]
        /\ \A j \in 0 .. k - 1 : h[j + 1] = AdxStep(h[j], i + j, x * b[j])
    BY AdxStepsAre
  <2>2. k = m
    BY <1>n
  <2> HIDE DEF k, m, h
  <2> QED BY <2>1, <2>2
<1>2. /\ B \in [0 .. n -> Nat] /\ B[0] = 0
      /\ \A j \in 0 .. n - 1 : B[j + 1] = B[j] + b[j] * Weight(j)
  BY BelowWords
<1>3. R \in Nat
  BY ValueNat
<1>4. w \in Nat /\ i \in Nat /\ m \in Nat /\ i + m = n /\ m <= n
  <2>1. i \in Nat
    OBVIOUS
  <2>2. w \in Nat
    BY <2>1, WeightIs
  <2> QED BY <2>1, <2>2
<1>5. x \in Nat
  BY WordIs
<1> HIDE DEF h, B, R
<1> DEFINE T == {j \in Nat : j <= m => Same(AdxValue(h[j], i + j), R + (x * B[j]) * w, n)}
<1>6. 0 \in T
  <2>1. AdxValue(h[0], i + 0) = R + (x * B[0]) * w
    <3>1. i + 0 = i /\ i + 1 \in Nat
      BY <1>4
    <3>2. Weight(i + 1) \in Nat
      BY <3>1, WeightIs
    <3> DEFINE v == Weight(i + 1)
    <3>3. AdxValue(h[0], i) = R + 0 * w + 0 * v
      BY <1>1 DEF AdxValue, R
    <3> HIDE DEF v, w
    <3>4. R + 0 * w + 0 * v = R + (x * 0) * w
      BY <1>3, <1>4, <1>5, <3>2 DEF v
    <3> QED BY <1>2, <3>1, <3>3, <3>4
  <2>2. R + (x * B[0]) * w = R
    <3> HIDE DEF w
    <3>1. (x * 0) * w = 0
      BY <1>4, <1>5
    <3> QED BY <1>2, <1>3, <3>1
  <2>3. Same(R, R, n)
    BY <1>3, SameRefl
  <2> QED BY <2>1, <2>2, <2>3
<1>7. ASSUME NEW j \in T PROVE j + 1 \in T
  <2>1. SUFFICES ASSUME j + 1 <= m PROVE Same(AdxValue(h[j + 1], i + (j + 1)), R + (x * B[j + 1]) * w, n)
    OBVIOUS
  <2>2. j \in 0 .. m - 1 /\ j \in 0 .. m /\ j \in Nat /\ j \in 0 .. n - 1 /\ j \in 0 .. n /\ i + j \in 0 .. n - 1
        /\ i + (j + 1) = (i + j) + 1 /\ j <= m /\ j + 1 \in 0 .. m
    BY <1>4, <2>1
  <2> DEFINE s == h[j]
             z == h[j + 1]
             at == i + j
             y == b[j]
             p == x * y
             u == B[j]
             v == Weight(j)
             q == (x * u) * w
             o == p * Weight(at)
             S == AdxValue(s, at)
             Z == AdxValue(z, at + 1)
  <2>3. s \in Adx(n) /\ z = AdxStep(s, at, p) /\ y \in Word /\ z \in Adx(n)
    BY <1>1, <2>2
  <2>4. y \in Nat
    <3> HIDE DEF y
    <3> QED BY <2>3, WordIs
  <2>5. u \in Nat /\ B[j + 1] = u + y * v
    BY <1>2, <2>2
  <2>6. v \in Nat
    BY <2>2, WeightIs
  <2>7. Weight(at) = w * v
    BY <1>4, <2>2, WeightAdd
  <2>8. Same(S, R + q, n)
    BY <2>2
  <2>9. Same(Z, S + o, n)
    <3>1. p = x * y /\ at \in 0 .. n - 1
      BY <2>2
    <3> HIDE DEF s, z, at, p, y
    <3> QED BY <2>3, <3>1, AdxStepIs
  <2>g. /\ AdxValue(h[j + 1], i + (j + 1)) = Z
        /\ R + (x * B[j + 1]) * w = R + (x * (u + y * v)) * w
    BY <2>2, <2>5
  <2>h. ASSUME NEW c \in Adx(n), NEW k \in Nat PROVE AdxValue(c, k) \in Int
    <3>1. c.limbs \in [0 .. n - 1 -> Word] /\ c.cf \in Int /\ c.of \in Int
      BY DEF Adx
    <3> DEFINE l == c.limbs
    <3> HIDE DEF l
    <3>2. Value(l) \in Nat
      BY <3>1, ValueNat DEF l
    <3>3. Weight(k) \in Nat
      BY WeightIs
    <3>4. Weight(k + 1) \in Nat
      BY WeightIs
    <3> DEFINE a1 == c.cf * Weight(k)
               a2 == c.of * Weight(k + 1)
    <3>5. a1 \in Int /\ a2 \in Int
      BY <3>1, <3>3, <3>4
    <3> HIDE DEF a1, a2
    <3>6. Value(l) + a1 + a2 \in Int
      BY <3>2, <3>5
    <3> QED BY <3>6 DEF AdxValue, a1, a2, l
  <2>10. S \in Int
    <3>1. at \in Nat
      BY <1>4, <2>2
    <3> HIDE DEF s, at
    <3> QED BY <2>h, <2>3, <3>1
  <2>11. Z \in Int
    <3>1. at + 1 \in Nat
      BY <1>4, <2>2
    <3> HIDE DEF z, at
    <3> QED BY <2>h, <2>3, <3>1
  <2> HIDE DEF S, Z, u, v, w, y, z, s, at
  <2>12. (x * (u + y * v)) * w = q + o /\ q \in Int /\ o \in Int
    <3>1. (x * (u + y * v)) * w = (x * u) * w + (x * y) * (w * v)
      BY <1>4, <1>5, <2>4, <2>5, <2>6
    <3>2. q \in Int
      BY <1>4, <1>5, <2>5
    <3>3. o = (x * y) * (w * v)
      BY <2>7
    <3>4. o \in Int
      BY <1>4, <1>5, <2>4, <2>6, <3>3
    <3> QED BY <3>1, <3>2, <3>3, <3>4
  <2> HIDE DEF q, o, p
  <2>13. Same(o, o, n)
    BY <2>12, SameRefl
  <2> DEFINE Q == R + q
  <2>14. Q \in Int
    BY <1>3, <2>12
  <2>15. Same(S, Q, n)
    BY <2>8
  <2> HIDE DEF Q
  <2>16. Same(S + o, Q + o, n)
    BY <2>10, <2>12, <2>13, <2>14, <2>15, SameAdd
  <2>17. S + o \in Int /\ Q + o \in Int
    BY <2>10, <2>12, <2>14
  <2>18. Same(Z, Q + o, n)
    BY <2>9, <2>11, <2>16, <2>17, SameTrans
  <2>19. Q + o = R + (q + o)
    BY <1>3, <2>12 DEF Q
  <2> QED BY <2>g, <2>12, <2>18, <2>19
<1>8. T = Nat
  <2> T \subseteq Nat
    OBVIOUS
  <2> HIDE DEF T
  <2> QED BY <1>6, <1>7, SetInduction
<1>9. Same(AdxValue(h[m], i + m), R + (x * B[m]) * w, n)
  <2>1. m \in T
    <3> HIDE DEF T, m
    <3> QED BY <1>4, <1>8
  <2> QED BY <2>1
<1> DEFINE s == h[m]
           l == s.limbs
<1>10. s \in Adx(n)
  <2>1. m \in 0 .. m
    BY <1>4
  <2> HIDE DEF m
  <2> QED BY <1>1, <2>1
<1>11. AdxRow(r, x, b, i) = l
  BY <1>n DEF AdxRow, h
<1> HIDE DEF s
<1>12. l \in [0 .. n - 1 -> Word] /\ s.cf \in Int /\ s.of \in Int
  BY <1>10 DEF Adx
<1> HIDE DEF l
<1> DEFINE L == Value(l)
           c == s.cf * Weight(n)
           d == s.of * Weight(n + 1)
           p == (x * B[m]) * w
           q == (x * Value(b)) * w
<1>13. Same(L + c + d, R + p, n)
  <2>1. AdxValue(s, n) = L + c + d
    BY DEF AdxValue, l
  <2> QED BY <1>4, <1>9, <2>1 DEF s
<1>14. L \in Int /\ c \in Int /\ d \in Int /\ Same(c, 0, n) /\ Same(d, 0, n)
  <2>1. Value(l) \in Nat
    BY <1>12, ValueNat
  <2>2. Weight(n) \in Nat
    BY WeightIs
  <2>3. n + 1 \in Nat /\ n <= n + 1
    OBVIOUS
  <2>4. Weight(n + 1) \in Nat
    BY <2>3, WeightIs
  <2>5. c \in Int /\ d \in Int
    BY <1>12, <2>2, <2>4
  <2>6. c = s.cf * Weight(n) /\ d = s.of * Weight(n + 1)
    OBVIOUS
  <2> HIDE DEF c, d
  <2>7. Same(c, 0, n)
    <3> DEFINE t == s.cf
    <3>1. t \in Int /\ c = t * Weight(n)
      BY <1>12, <2>6
    <3> HIDE DEF t
    <3> QED BY <2>5, <3>1, SameHigh
  <2>8. Same(d, 0, n)
    <3> DEFINE t == s.of
               k == n + 1
    <3>1. t \in Int /\ d = t * Weight(k) /\ k \in Nat /\ n <= k
      BY <1>12, <2>3, <2>6
    <3> HIDE DEF t, k
    <3> QED BY <2>5, <3>1, SameHigh
  <2> QED BY <2>1, <2>5, <2>7, <2>8
<1>15. p \in Int /\ q \in Int /\ Same(p, q, n)
  <2> DEFINE u == B[m]
             V == Value(b)
             v == Weight(m)
  <2>1. u \in Nat
    BY <1>2, <1>4
  <2>2. V \in Nat
    BY ValueNat
  <2>3. v \in Nat
    BY <1>4, WeightIs
  <2>4. PICK t \in Nat : V = u + t * v
    <3>1. m \in 0 .. n
      BY <1>4
    <3> HIDE DEF m
    <3>2. \E t \in Nat : Value(b) = Below(b)[m] + t * Weight(m)
      BY <3>1, AboveIs
    <3> QED BY <3>2 DEF B
  <2>5. Weight(n) = w * v
    <3> HIDE DEF m
    <3>1. Weight(i + m) = Weight(i) * Weight(m)
      BY <1>4, WeightAdd
    <3> QED BY <1>4, <3>1
  <2> HIDE DEF u, V, v, w
  <2>6. (x * (u + t * v)) * w = (x * u) * w + (x * t) * (w * v)
    BY <1>4, <1>5, <2>1, <2>3, <2>4
  <2>7. p \in Int
    BY <1>4, <1>5, <2>1 DEF u
  <2>8. q \in Int
    BY <1>4, <1>5, <2>2 DEF V
  <2> DEFINE e == x * t
             o == e * Weight(n)
             f == - e
  <2>9. e \in Int /\ o \in Int /\ f \in Int /\ f * Weight(n) = - o
    <3>1. e \in Int
      BY <1>5, <2>4
    <3>2. Weight(n) \in Int
      BY <1>4, <2>3, <2>5
    <3> HIDE DEF e
    <3> QED BY <3>1, <3>2
  <2>10. q = p + o
    BY <2>4, <2>5, <2>6 DEF u, V
  <2> HIDE DEF p, q, o, e, f
  <2>11. p = q + f * Weight(n)
    BY <2>7, <2>8, <2>9, <2>10
  <2>12. Same(p, q, n)
    BY <2>9, <2>11 DEF Same
  <2> QED BY <2>7, <2>8, <2>12
<1>16. R + q = R + (x * Value(b)) * Weight(i)
  OBVIOUS
<1> HIDE DEF L, c, d, p, q
<1>17. Same(R + p, R + q, n)
  <2>1. Same(R, R, n)
    BY <1>3, SameRefl
  <2> QED BY <1>3, <1>15, <2>1, SameAdd
<1>18. Same(L, L + c + d, n)
  <2>1. Same(L, L, n)
    BY <1>14, SameRefl
  <2> DEFINE e == L + c
  <2>2. Same(L + c, L + 0, n)
    BY <1>14, <2>1, SameAdd
  <2>3. e \in Int /\ Same(e, L, n)
    BY <1>14, <2>2
  <2>5. e + d = L + c + d
    BY <1>14
  <2> HIDE DEF e
  <2>4. Same(e + d, L + 0, n)
    BY <1>14, <2>3, SameAdd
  <2>6. e + d \in Int /\ L + 0 = L
    BY <1>14, <2>3
  <2>7. Same(L, e + d, n)
    BY <1>14, <2>4, <2>6, SameSym
  <2> QED BY <2>5, <2>7
<1>19. L + c + d \in Int /\ R + p \in Int /\ R + q \in Int
  BY <1>3, <1>14, <1>15
<1>20. Same(L, R + p, n)
  BY <1>13, <1>14, <1>18, <1>19, SameTrans
<1>21. Same(L, R + q, n)
  BY <1>14, <1>17, <1>19, <1>20, SameTrans
<1> QED BY <1>11, <1>12, <1>16, <1>21 DEF L, R

\* The rows of the ADX kernel.
LEMMA AdxRowsAre ==
  ASSUME NEW n \in Nat, NEW a \in [0 .. n - 1 -> Word], NEW b \in [0 .. n - 1 -> Word]
  PROVE  /\ AdxRows(a, b) \in [0 .. Width(a) -> [0 .. n - 1 -> Word]]
         /\ AdxRows(a, b)[0] = Zeros(Width(a))
         /\ \A i \in 0 .. Width(a) - 1 : AdxRows(a, b)[i + 1] = AdxRow(AdxRows(a, b)[i], a[i], b, i)
<1> DEFINE G == [p \in [0 .. n - 1 -> Word] \X Nat |-> IF p[2] \in 1 .. Width(a) THEN AdxRow(p[1], a[p[2] - 1], b, p[2] - 1) ELSE Zeros(Width(a))]
           P(h) == h = [i \in 0 .. Width(a) |-> IF i = 0 THEN Zeros(Width(a)) ELSE AdxRow(h[i - 1], a[i - 1], b, i - 1)]
<1>n. Width(a) = n /\ Width(a) \in Nat
  BY WidthIs
<1>s. Zeros(Width(a)) \in [0 .. n - 1 -> Word]
  BY <1>n, ZerosAre
<1>0. ASSUME NEW prev \in [0 .. n - 1 -> Word], NEW i \in 1 .. Width(a) PROVE AdxRow(prev, a[i - 1], b, i - 1) \in [0 .. n - 1 -> Word]
  <2> DEFINE k == i - 1
             x == a[k]
  <2>0. i \in 1 .. n
    BY <1>n
  <2>1. k \in 0 .. n - 1
    BY <2>0
  <2>2. x \in Word
    BY <2>1
  <2> HIDE DEF k, x
  <2>3. AdxRow(prev, x, b, k) \in [0 .. n - 1 -> Word]
    BY <2>1, <2>2, AdxRowIs
  <2> QED BY <2>3 DEF k, x
<1>1. G \in [[0 .. n - 1 -> Word] \X Nat -> [0 .. n - 1 -> Word]]
  <2> SUFFICES ASSUME NEW p \in [0 .. n - 1 -> Word] \X Nat PROVE (IF p[2] \in 1 .. Width(a) THEN AdxRow(p[1], a[p[2] - 1], b, p[2] - 1) ELSE Zeros(Width(a))) \in [0 .. n - 1 -> Word]
    OBVIOUS
  <2>1. p[1] \in [0 .. n - 1 -> Word]
    OBVIOUS
  <2> QED BY <1>0, <1>s, <2>1
<1>2. PICK g \in [0 .. Width(a) -> [0 .. n - 1 -> Word]] : Up(g, Width(a), Zeros(Width(a)), G)
  <2> HIDE DEF G
  <2> QED BY <1>n, <1>1, <1>s, Recursion, Zenon
<1>3. ASSUME NEW i \in 1 .. Width(a), NEW prev \in [0 .. n - 1 -> Word] PROVE G[<<prev, i>>] = AdxRow(prev, a[i - 1], b, i - 1)
  <2> <<prev, i>> \in [0 .. n - 1 -> Word] \X Nat /\ <<prev, i>>[1] = prev /\ <<prev, i>>[2] = i
    OBVIOUS
  <2> QED OBVIOUS
<1> HIDE DEF G
<1>4. \A i \in 1 .. Width(a) : g[i] = AdxRow(g[i - 1], a[i - 1], b, i - 1)
  <2> TAKE i \in 1 .. Width(a)
  <2>1. i - 1 \in 0 .. Width(a) /\ g[i - 1] \in [0 .. n - 1 -> Word]
    BY <1>n
  <2>2. g[i] = G[<<g[i - 1], i>>]
    BY <1>2 DEF Up
  <2> QED BY <2>1, <2>2, <1>3
<1>5. P(g)
  <2>1. g[0] = Zeros(Width(a))
    BY <1>2 DEF Up
  <2>2. g = [i \in 0 .. Width(a) |-> g[i]]
    OBVIOUS
  <2>3. \A i \in 0 .. Width(a) : i # 0 => i \in 1 .. Width(a)
    BY <1>n
  <2> QED BY <1>4, <2>1, <2>2, <2>3
<1>6. AdxRows(a, b) = CHOOSE h : P(h)
  BY DEF AdxRows
<1> DEFINE h == AdxRows(a, b)
<1>7. P(h)
  <2> HIDE DEF P
  <2> QED BY <1>5, <1>6
<1> HIDE DEF h
<1>8. h = [i \in 0 .. Width(a) |-> h[i]] /\ h[0] = Zeros(Width(a))
  <2>1. DOMAIN h = 0 .. Width(a) /\ 0 \in 0 .. Width(a)
    BY <1>n, <1>7
  <2> QED BY <1>7, <2>1
<1>9. ASSUME NEW i \in 1 .. Width(a), h[i - 1] \in [0 .. n - 1 -> Word] PROVE h[i] = G[<<h[i - 1], i>>]
  <2>1. i \in 0 .. Width(a) /\ i # 0
    BY <1>n
  <2>2. h[i] = AdxRow(h[i - 1], a[i - 1], b, i - 1)
    BY <1>7, <2>1
  <2> QED BY <1>3, <1>9, <2>2
<1>10. UpWithin(h, Width(a), Zeros(Width(a)), [0 .. n - 1 -> Word], G)
  BY <1>8, <1>9 DEF UpWithin
<1>11. h = g
  BY <1>n, <1>1, <1>2, <1>s, <1>10, UpUnique, Zenon
<1>12. \A i \in 0 .. Width(a) - 1 : i + 1 \in 1 .. Width(a) /\ (i + 1) - 1 = i
  BY <1>n
<1>13. \A i \in 0 .. Width(a) - 1 : g[i + 1] = AdxRow(g[i], a[i], b, i)
  BY <1>4, <1>12
<1> QED BY <1>2, <1>11, <1>13 DEF h, Up


\* mag_mul_4_adx is mag_mul.
LEMMA AdxIs ==
  ASSUME NEW n \in Nat, NEW a \in [0 .. n - 1 -> Word], NEW b \in [0 .. n - 1 -> Word]
  PROVE  mag_mul_4_adx(a, b) = mag_mul(a, b)
<1> DEFINE h == AdxRows(a, b)
           B == Value(b)
<1>n. Width(a) = n
  BY WidthIs
<1>1. /\ h \in [0 .. n -> [0 .. n - 1 -> Word]] /\ h[0] = Zeros(n)
      /\ \A i \in 0 .. n - 1 : h[i + 1] = AdxRow(h[i], a[i], b, i)
  BY <1>n, AdxRowsAre
<1>2. mag_mul_4_adx(a, b) = h[n]
  BY <1>n DEF mag_mul_4_adx
<1>3. B \in Nat
  BY ValueNat
<1> HIDE DEF h
<1>4. ASSUME NEW i \in 0 .. n - 1 PROVE Same(Value(h[i + 1]), Value(h[i]) + (a[i] * B) * Weight(i), n)
  <2> DEFINE x == a[i]
             r == h[i]
  <2>1. r \in [0 .. n - 1 -> Word] /\ x \in Word /\ h[i + 1] = AdxRow(r, x, b, i)
    BY <1>1
  <2> HIDE DEF x, r
  <2>2. Same(Value(AdxRow(r, x, b, i)), Value(r) + (x * Value(b)) * Weight(i), n)
    BY <2>1, AdxRowIs
  <2> QED BY <2>1, <2>2 DEF x, r
<1>5. Adds(h, a, B, n, n)
  BY <1>1, <1>4 DEF Adds
<1>v. Value(a) = Below(a)[n] /\ n \in 0 .. n
  BY BelowWords
<1> HIDE DEF B
<1>6. Same(Value(h[n]), Below(a)[n] * B, n) /\ h[n] \in [0 .. n - 1 -> Word]
  BY <1>3, <1>v, <1>5, RowsAdd
<1>7. Value(h[n]) = (Value(a) * B) % Weight(n)
  <2> DEFINE y == Value(a) * B
             l == h[n]
  <2>0. Value(a) \in Nat
    BY ValueNat
  <2>1. y \in Int /\ l \in [0 .. n - 1 -> Word] /\ Same(Value(l), y, n)
    BY <1>3, <1>v, <1>6, <2>0
  <2> HIDE DEF y, l
  <2>2. Value(l) = y % Weight(n)
    BY <2>1, ProductIs
  <2> QED BY <2>2 DEF y, l
<1>8. mag_mul(a, b) \in [0 .. n - 1 -> Word] /\ Value(mag_mul(a, b)) = (Value(a) * B) % Weight(n)
  BY MagMulIs DEF B
<1> QED BY <1>2, <1>6, <1>7, <1>8, ValueInjective



-----------------------------------------------------------------------------
(* Squares of four limbs                                                   *)

\* The weights of four limbs.
LEMMA FourWeights ==
  /\ Weight(0) = 1 /\ Weight(1) = Base /\ Weight(2) = Base * Base /\ Weight(3) = Base * (Base * Base)
  /\ Weight(4) = Base * (Base * (Base * Base))
<1>1. Weight(0 + 1) = Base * Weight(0) /\ Weight(1 + 1) = Base * Weight(1) /\ Weight(2 + 1) = Base * Weight(2)
      /\ Weight(3 + 1) = Base * Weight(3)
  BY WeightNext
<1>2. 0 + 1 = 1 /\ 1 + 1 = 2 /\ 2 + 1 = 3 /\ 3 + 1 = 4
  OBVIOUS
<1>3. Weight(0) = 1 /\ Weight(1) = Base
  BY WeightFirst
<1>4. Weight(2) = Base * Weight(1) /\ Weight(3) = Base * Weight(2) /\ Weight(4) = Base * Weight(3)
  BY <1>1, <1>2
<1> QED BY <1>3, <1>4

\* The first limb, and Base times the rest.
LEMMA TwoLimbs ==
  ASSUME NEW a \in [0 .. 1 -> Int]
  PROVE  Value(a) = a[0] + Base * a[1]
<1>1. /\ Value(a) = Below(a)[2] /\ Below(a)[0] = 0
      /\ \A i \in 0 .. 2 - 1 : Below(a)[i + 1] = Below(a)[i] + a[i] * Weight(i)
  <2> DEFINE n == 2
  <2>1. n \in Nat /\ n - 1 = 1
    OBVIOUS
  <2>2. a \in [0 .. n - 1 -> Int]
    BY <2>1
  <2> HIDE DEF n
  <2>3. /\ Value(a) = Below(a)[n] /\ Below(a)[0] = 0
        /\ \A i \in 0 .. n - 1 : Below(a)[i + 1] = Below(a)[i] + a[i] * Weight(i)
    BY <2>1, <2>2, BelowIs
  <2> QED BY <2>3 DEF n
<1>2. Below(a)[0 + 1] = Below(a)[0] + a[0] * Weight(0) /\ Below(a)[1 + 1] = Below(a)[1] + a[1] * Weight(1)
  BY <1>1
<1>3. 0 + 1 = 1 /\ 1 + 1 = 2 /\ a[0] \in Int /\ a[1] \in Int /\ Base \in Nat
  BY BaseIs
<1>4. a[0] * 1 = a[0] /\ a[1] * Base = Base * a[1] /\ a[1] * Base \in Int
  BY <1>3
<1> QED BY <1>1, <1>2, <1>3, <1>4, FourWeights

\* The same of three limbs
LEMMA ThreeLimbs ==
  ASSUME NEW a \in [0 .. 2 -> Int]
  PROVE  Value(a) = a[0] + Base * (a[1] + Base * a[2])
<1>1. /\ Value(a) = Below(a)[3] /\ Below(a)[0] = 0
      /\ \A i \in 0 .. 3 - 1 : Below(a)[i + 1] = Below(a)[i] + a[i] * Weight(i)
  <2> DEFINE n == 3
  <2>1. n \in Nat /\ n - 1 = 2
    OBVIOUS
  <2>2. a \in [0 .. n - 1 -> Int]
    BY <2>1
  <2> HIDE DEF n
  <2>3. /\ Value(a) = Below(a)[n] /\ Below(a)[0] = 0
        /\ \A i \in 0 .. n - 1 : Below(a)[i + 1] = Below(a)[i] + a[i] * Weight(i)
    BY <2>1, <2>2, BelowIs
  <2> QED BY <2>3 DEF n
<1>2. /\ Below(a)[0 + 1] = Below(a)[0] + a[0] * Weight(0) /\ Below(a)[1 + 1] = Below(a)[1] + a[1] * Weight(1)
      /\ Below(a)[2 + 1] = Below(a)[2] + a[2] * Weight(2)
  BY <1>1
<1> DEFINE x == a[0]
           y == a[1]
           z == a[2]
           B == Base
<1>3. 0 + 1 = 1 /\ 1 + 1 = 2 /\ 2 + 1 = 3 /\ x \in Int /\ y \in Int /\ z \in Int /\ B \in Nat
  BY BaseIs
<1>4. Value(a) = 0 + x * 1 + y * B + z * (B * B)
  BY <1>1, <1>2, <1>3, FourWeights
<1> HIDE DEF x, y, z, B
<1>5. 0 + x * 1 + y * B + z * (B * B) = x + B * (y + B * z)
  BY <1>3
<1> QED BY <1>4, <1>5 DEF x, y, z, B

\* and of four.
LEMMA FourLimbs ==
  ASSUME NEW a \in [0 .. 3 -> Int]
  PROVE  Value(a) = a[0] + Base * (a[1] + Base * (a[2] + Base * a[3]))
<1>1. /\ Value(a) = Below(a)[4] /\ Below(a)[0] = 0
      /\ \A i \in 0 .. 4 - 1 : Below(a)[i + 1] = Below(a)[i] + a[i] * Weight(i)
  <2> DEFINE n == 4
  <2>1. n \in Nat /\ n - 1 = 3
    OBVIOUS
  <2>2. a \in [0 .. n - 1 -> Int]
    BY <2>1
  <2> HIDE DEF n
  <2>3. /\ Value(a) = Below(a)[n] /\ Below(a)[0] = 0
        /\ \A i \in 0 .. n - 1 : Below(a)[i + 1] = Below(a)[i] + a[i] * Weight(i)
    BY <2>1, <2>2, BelowIs
  <2> QED BY <2>3 DEF n
<1>2. /\ Below(a)[0 + 1] = Below(a)[0] + a[0] * Weight(0) /\ Below(a)[1 + 1] = Below(a)[1] + a[1] * Weight(1)
      /\ Below(a)[2 + 1] = Below(a)[2] + a[2] * Weight(2) /\ Below(a)[3 + 1] = Below(a)[3] + a[3] * Weight(3)
  BY <1>1
<1> DEFINE x == a[0]
           y == a[1]
           z == a[2]
           t == a[3]
           B == Base
<1>3. 0 + 1 = 1 /\ 1 + 1 = 2 /\ 2 + 1 = 3 /\ 3 + 1 = 4 /\ x \in Int /\ y \in Int /\ z \in Int /\ t \in Int /\ B \in Nat
  BY BaseIs
<1>4. Value(a) = 0 + x * 1 + y * B + z * (B * B) + t * (B * (B * B))
  BY <1>1, <1>2, <1>3, FourWeights
<1> HIDE DEF x, y, z, t, B
<1>5. 0 + x * 1 + y * B + z * (B * B) + t * (B * (B * B)) = x + B * (y + B * (z + B * t))
  BY <1>3
<1> QED BY <1>4, <1>5 DEF x, y, z, t, B

\* The products across of four limbs.
Cross(a) == a[0] * (a[1] + Base * (a[2] + Base * a[3])) * Base + a[1] * (a[2] + Base * a[3]) * Weight(3)

\* Twice the products across and the squares on the diagonal are the square.
LEMMA DiagonalIs ==
  ASSUME NEW a \in [0 .. 3 -> Word], NEW cross \in [0 .. 3 -> Word], Same(Value(cross), Cross(a), 4)
  PROVE  DoubledPlusDiagonal(a, cross) = mag_mul(a, a)
<1> DEFINE x == a[0]
           y == a[1]
           z == a[2]
           u == a[3]
           B == Base
           T2 == z + B * u
           T1 == y + B * T2
           W == Weight(4)
           C == Cross(a)
           twice == [k \in 0 .. 3 |-> 2 * cross[k]]
           diag == [k \in 0 .. 3 |-> IF k % 2 = 0 THEN (a[k \div 2] * a[k \div 2]) % Base
                                     ELSE (a[k \div 2] * a[k \div 2]) \div Base]
           d == AddColumns(twice, 4).limbs
           l == mag_add(d, diag).limbs
<1>n. 4 \in Nat /\ 4 - 1 = 3
  OBVIOUS
<1>0. x \in Word /\ y \in Word /\ z \in Word /\ u \in Word
  OBVIOUS
<1>1. x \in Nat /\ y \in Nat /\ z \in Nat /\ u \in Nat
  <2> HIDE DEF x, y, z, u
  <2>1. x \in Nat
    BY <1>0, WordIs
  <2>2. y \in Nat
    BY <1>0, WordIs
  <2>3. z \in Nat
    BY <1>0, WordIs
  <2>4. u \in Nat
    BY <1>0, WordIs
  <2> QED BY <2>1, <2>2, <2>3, <2>4
<1>2. B \in Nat /\ W \in Nat /\ W > 0
  <2>1. W \in Nat /\ W >= 1
    BY WeightIs
  <2> QED BY <2>1, BaseIs
<1>3. Value(a) = x + B * T1 /\ C = (x * T1) * B + (y * T2) * Weight(3) /\ Weight(3) = B * (B * B) /\ W = B * (B * (B * B))
  <2>1. a \in [0 .. 3 -> Int]
    BY WordsAre
  <2> QED BY <2>1, FourLimbs, FourWeights DEF Cross
<1>4. DoubledPlusDiagonal(a, cross) = l
  <2>1. DOMAIN a = 0 .. 3 /\ Width(a) = 4
    BY <1>n, WidthIs
  <2> QED BY <2>1 DEF DoubledPlusDiagonal
<1>5. twice \in [0 .. 3 -> Int] /\ Value(twice) = 2 * Value(cross) /\ Value(cross) \in Int
  <2>1. cross \in [0 .. 3 -> Int]
    BY WordsAre
  <2>2. twice \in [0 .. 3 -> Int] /\ twice[0] = 2 * cross[0] /\ twice[1] = 2 * cross[1] /\ twice[2] = 2 * cross[2] /\ twice[3] = 2 * cross[3]
    BY <2>1
  <2> HIDE DEF twice
  <2>3. Value(cross) = cross[0] + B * (cross[1] + B * (cross[2] + B * cross[3]))
    BY <2>1, FourLimbs
  <2>4. Value(twice) = twice[0] + B * (twice[1] + B * (twice[2] + B * twice[3]))
    BY <2>2, FourLimbs
  <2> DEFINE p == cross[0]
             q == cross[1]
             r == cross[2]
             s == cross[3]
  <2>5. p \in Int /\ q \in Int /\ r \in Int /\ s \in Int
    BY <2>1
  <2> HIDE DEF p, q, r, s, B
  <2>6. (2 * p) + B * ((2 * q) + B * ((2 * r) + B * (2 * s))) = 2 * (p + B * (q + B * (r + B * s))) /\ p + B * (q + B * (r + B * s)) \in Int
    BY <1>2, <2>5
  <2> QED BY <2>2, <2>3, <2>4, <2>6 DEF p, q, r, s
<1>6. diag \in [0 .. 3 -> Word] /\ Value(diag) = x * x + (y * y) * (B * B)
  <2> DEFINE p == (x * x) % B
             q == (x * x) \div B
             r == (y * y) % B
             s == (y * y) \div B
             xx == x * x
             yy == y * y
  <2>1. p \in Word /\ q \in Word /\ xx = q * B + p
    <3>1. xx = x * x
      OBVIOUS
    <3> HIDE DEF xx, x
    <3>2. xx % Base \in Word /\ xx \div Base \in Word /\ xx = (xx \div Base) * Base + (xx % Base)
      BY <1>0, <3>1, WordHalves
    <3> QED BY <3>1, <3>2
  <2>2. r \in Word /\ s \in Word /\ yy = s * B + r
    <3>1. yy = y * y
      OBVIOUS
    <3> HIDE DEF yy, y
    <3>2. yy % Base \in Word /\ yy \div Base \in Word /\ yy = (yy \div Base) * Base + (yy % Base)
      BY <1>0, <3>1, WordHalves
    <3> QED BY <3>1, <3>2
  <2>3. 0 % 2 = 0 /\ 0 \div 2 = 0 /\ 1 % 2 = 1 /\ 1 \div 2 = 0 /\ 2 % 2 = 0 /\ 2 \div 2 = 1 /\ 3 % 2 = 1 /\ 3 \div 2 = 1
    OBVIOUS
  <2>4. diag[0] = p /\ diag[1] = q /\ diag[2] = r /\ diag[3] = s
    BY <2>3
  <2> HIDE DEF p, q, r, s
  <2>5. diag \in [0 .. 3 -> Word]
    <3>1. \A k \in 0 .. 3 : k = 0 \/ k = 1 \/ k = 2 \/ k = 3
      OBVIOUS
    <3>2. \A k \in 0 .. 3 : diag[k] \in Word
      <4> HIDE DEF diag
      <4> QED BY <2>1, <2>2, <2>4, <3>1
    <3> QED BY <3>2
  <2> HIDE DEF diag
  <2>6. diag \in [0 .. 3 -> Int]
    BY <2>5, WordsAre
  <2>7. Value(diag) = p + B * (q + B * (r + B * s))
    BY <2>4, <2>6, FourLimbs
  <2>8. p \in Int /\ q \in Int /\ r \in Int /\ s \in Int
    BY <2>4, <2>6
  <2> HIDE DEF B, xx, yy
  <2>9. p + B * (q + B * (r + B * s)) = (q * B + p) + (s * B + r) * (B * B)
    BY <1>2, <2>8
  <2> QED BY <2>1, <2>2, <2>5, <2>7, <2>9 DEF xx, yy
<1> HIDE DEF twice, diag, d
<1>7. d \in [0 .. 3 -> Word] /\ Value(d) = (2 * Value(cross)) % W
  <2>1. d \in [0 .. 4 - 1 -> Word] /\ Value(d) = Value(twice) % Weight(4)
    BY <1>n, <1>5, AddColumnsIs DEF d
  <2> QED BY <1>n, <1>5, <2>1
<1>8. l \in [0 .. 3 -> Word] /\ Value(l) = (Value(d) + Value(diag)) % W
  <2>1. l \in [0 .. 4 - 1 -> Word] /\ Value(l) = (Value(d) + Value(diag)) % Weight(4)
    BY <1>n, <1>6, <1>7, MagAddIs
  <2> QED BY <1>n, <2>1
<1>9. PICK t \in Int : Value(cross) = C + t * W
  BY DEF Same
<1> DEFINE V == Value(cross)
           D == Value(d)
           E == Value(diag)
           A == Value(a)
           e == (2 * V) \div W
           S == A * A
<1> HIDE DEF l
<1>10. 2 * V = W * e + D /\ e \in Int /\ D \in Int
  <2> DEFINE v == 2 * V
  <2>1. v \in Int
    BY <1>5
  <2>2. e = v \div W /\ D = v % W
    BY <1>7
  <2> HIDE DEF v, W, D, e
  <2>3. v = W * (v \div W) + (v % W) /\ v \div W \in Int /\ v % W \in Int
    BY <1>2, <2>1
  <2> QED BY <2>2, <2>3 DEF v
<1> DEFINE M == C + C
           o == T2 * T2
<1>11. S = M + E + o * W /\ C \in Int /\ E \in Int /\ o \in Int /\ S \in Int
  <2> HIDE DEF B, A, C, W, E, x, y, z, u
  <2>1. T2 \in Int
    BY <1>1, <1>2
  <2> HIDE DEF T2
  <2>2. T1 \in Int
    BY <1>1, <1>2, <2>1
  <2>3. T1 * T1 = y * y + 2 * (y * (B * T2)) + (B * B) * (T2 * T2)
    BY <1>1, <1>2, <2>1
  <2>4. T1 = y + B * T2
    OBVIOUS
  <2> HIDE DEF T1
  <2> DEFINE bb == B * B
             tt == T1 * T1
             yy == y * y
             yt == y * T2
             w == B * (B * B)
  <2>5. A * A = x * x + 2 * (x * (B * T1)) + bb * tt
    <3>1. (x + B * T1) * (x + B * T1) = x * x + 2 * (x * (B * T1)) + (B * B) * (T1 * T1)
      BY <1>1, <1>2, <2>2
    <3>2. A = x + B * T1
      BY <1>3 DEF A
    <3> QED BY <3>1, <3>2
  <2>6. bb * tt = bb * yy + 2 * (yt * w) + o * (B * w)
    <3>1. bb * (y * y + 2 * (y * (B * T2)) + (B * B) * (T2 * T2))
            = bb * (y * y) + 2 * ((y * T2) * (B * (B * B))) + (T2 * T2) * (B * (B * (B * B)))
      BY <1>1, <1>2, <2>1
    <3> QED BY <2>3, <3>1
  <2>7. C = (x * T1) * B + yt * w /\ W = B * w
    BY <1>3 DEF W
  <2>8. E = x * x + yy * bb
    BY <1>6 DEF E
  <2>9. x * (B * T1) = (x * T1) * B /\ bb * yy = yy * bb /\ yt * w \in Int /\ o * (B * w) \in Int /\ (x * T1) * B \in Int
        /\ x * x \in Int /\ yy * bb \in Int /\ o \in Int
    BY <1>1, <1>2, <2>1, <2>2
  <2> DEFINE a1 == x * x
             a2 == (x * T1) * B
             a3 == yy * bb
             a4 == yt * w
             a5 == o * W
  <2>10. S = a1 + 2 * a2 + (a3 + 2 * a4 + a5) /\ C = a2 + a4 /\ E = a1 + a3
    BY <2>5, <2>6, <2>7, <2>8, <2>9
  <2>11. a1 \in Int /\ a2 \in Int /\ a3 \in Int /\ a4 \in Int /\ a5 \in Int
    BY <2>7, <2>9
  <2>12. M + E + a5 = C + C + E + a5
    OBVIOUS
  <2> HIDE DEF a1, a2, a3, a4, a5, S, o, M
  <2>13. C + C + E + a5 = S /\ C \in Int /\ E \in Int /\ S \in Int
    BY <2>10, <2>11
  <2> QED BY <2>9, <2>12, <2>13 DEF a5
<1>12. (D + E) % W = S % W
  <2> DEFINE f == (2 * t) - e - o
  <2>1. D + E = S + f * W
    <3> DEFINE a1 == t * W
               a2 == W * e
               a3 == o * W
    <3>1. a1 \in Int /\ a2 \in Int /\ a3 \in Int
      <4> HIDE DEF W, e, o
      <4> QED BY <1>2, <1>10, <1>11
    <3>2. f * W = 2 * a1 - a2 - a3
      <4> HIDE DEF W, e, o
      <4>1. ((2 * t) - e - o) * W = 2 * (t * W) - W * e - o * W
        BY <1>2, <1>10, <1>11
      <4> QED BY <4>1
    <3>3. V = C + a1 /\ 2 * V = a2 + D /\ S = C + C + E + a3
      BY <1>9, <1>10, <1>11
    <3> HIDE DEF f, a1, a2, a3, W, e, o, V, C, D, E, S
    <3>4. S + (2 * a1 - a2 - a3) = D + E
      BY <1>10, <1>11, <3>1, <3>3
    <3> QED BY <3>2, <3>4
  <2>2. f \in Int
    <3> HIDE DEF e, o
    <3> QED BY <1>10, <1>11
  <2> HIDE DEF f, W, D, E, S
  <2>3. (S + f * W) % W = S % W
    BY <1>2, <1>11, <2>2, ModShift
  <2> QED BY <2>1, <2>3
<1>13. mag_mul(a, a) \in [0 .. 3 -> Word] /\ Value(mag_mul(a, a)) = S % W
  <2>1. a \in [0 .. 4 - 1 -> Word]
    BY <1>n
  <2>2. mag_mul(a, a) \in [0 .. 4 - 1 -> Word] /\ Value(mag_mul(a, a)) = (Value(a) * Value(a)) % Weight(4)
    BY <1>n, <2>1, MagMulIs
  <2> QED BY <1>n, <2>2
<1>14. l = mag_mul(a, a)
  <2> DEFINE k == mag_mul(a, a)
  <2>1. Value(l) = Value(k) /\ k \in [0 .. 4 - 1 -> Word] /\ l \in [0 .. 4 - 1 -> Word]
    BY <1>n, <1>8, <1>12, <1>13
  <2> HIDE DEF k
  <2>2. l = k
    BY <1>n, <2>1, ValueInjective
  <2> QED BY <2>2 DEF k
<1> QED BY <1>4, <1>14

\* A row of the products across: those that fit.
CrossNext(h, a, i) ==
    h[i] = (IF 2 * i - 1 >= Width(a) THEN h[i - 1] ELSE Row(h[i - 1], a[i - 1], [j \in 0 .. Width(a) - i - 1 |-> a[i + j]], 2 * i - 1, Min({Width(a) - i, Width(a) - (2 * i - 1)})).limbs)

\* The rows of the products across.
LEMMA CrossRowsAre ==
  ASSUME NEW a \in [0 .. 3 -> Word]
  PROVE  CrossRows(a) \in [0 .. Width(a) -> [0 .. 3 -> Word]] /\ CrossRows(a)[0] = Zeros(Width(a))
         /\ \A i \in 1 .. Width(a) : CrossNext(CrossRows(a), a, i)
<1> DEFINE G == [p \in [0 .. 3 -> Word] \X Nat |-> IF p[2] \in 1 .. Width(a) THEN (IF 2 * p[2] - 1 >= Width(a) THEN p[1] ELSE Row(p[1], a[p[2] - 1], [j \in 0 .. Width(a) - p[2] - 1 |-> a[p[2] + j]], 2 * p[2] - 1, Min({Width(a) - p[2], Width(a) - (2 * p[2] - 1)})).limbs) ELSE Zeros(Width(a))]
           P(h) == h = [i \in 0 .. Width(a) |-> IF i = 0 THEN Zeros(Width(a)) ELSE (IF 2 * i - 1 >= Width(a) THEN h[i - 1] ELSE Row(h[i - 1], a[i - 1], [j \in 0 .. Width(a) - i - 1 |-> a[i + j]], 2 * i - 1, Min({Width(a) - i, Width(a) - (2 * i - 1)})).limbs)]
<1>n. Width(a) = 4 /\ Width(a) \in Nat
  <2> DEFINE n == 4
  <2>1. n \in Nat /\ n - 1 = 3
    OBVIOUS
  <2>2. DOMAIN a = 0 .. n - 1
    BY <2>1
  <2> HIDE DEF n
  <2>3. Width(a) = n
    BY <2>1, <2>2, WidthIs
  <2> QED BY <2>3 DEF n
<1>s. Zeros(Width(a)) \in [0 .. 3 -> Word]
  <2> DEFINE n == 4
  <2>1. n \in Nat /\ Width(a) = n /\ n - 1 = 3
    BY <1>n
  <2> HIDE DEF n
  <2>2. Zeros(n) \in [0 .. n - 1 -> Word]
    BY <2>1, ZerosAre
  <2> QED BY <2>1, <2>2
<1>0. ASSUME NEW prev \in [0 .. 3 -> Word], NEW i \in 1 .. Width(a) PROVE (IF 2 * i - 1 >= Width(a) THEN prev ELSE Row(prev, a[i - 1], [j \in 0 .. Width(a) - i - 1 |-> a[i + j]], 2 * i - 1, Min({Width(a) - i, Width(a) - (2 * i - 1)})).limbs) \in [0 .. 3 -> Word]
  <2>0. i \in 1 .. 4 /\ i - 1 \in 0 .. 3
    BY <1>n
  <2>1. CASE 2 * i - 1 >= Width(a)
    BY <2>1
  <2>2. CASE ~(2 * i - 1 >= Width(a))
    <3> DEFINE x == a[i - 1]
               m == 4 - i
               b == [j \in 0 .. 4 - i - 1 |-> a[i + j]]
               at == 2 * i - 1
               len == Min({4 - i, 4 - at})
               row == Row(prev, x, b, at, len)
    <3>1. i \in 1 .. 2
      BY <1>n, <2>0, <2>2
    <3>2. x \in Word /\ m \in Nat /\ at \in Nat /\ 4 - at \in 0 .. 3 /\ 4 - at <= m /\ 4 \in Nat /\ 4 - 1 = 3
      BY <2>0, <3>1
    <3>3. b \in [0 .. m - 1 -> Word]
      <4> SUFFICES ASSUME NEW j \in 0 .. 4 - i - 1 PROVE a[i + j] \in Word
        OBVIOUS
      <4> i + j \in 0 .. 3
        BY <2>0
      <4> QED OBVIOUS
    <3>4. len \in 0 .. m /\ at + len <= 4
      <4>1. {m, 4 - at} \subseteq Nat /\ {m, 4 - at} # {}
        BY <3>2
      <4>2. len \in {m, 4 - at} /\ \A y \in {m, 4 - at} : len =< y
        <5> HIDE DEF m, at
        <5> QED BY <4>1, MinIs DEF m
      <4> HIDE DEF len
      <4> QED BY <3>2, <4>2
    <3> HIDE DEF x, b, at, len, m
    <3>5. row.limbs \in [0 .. 3 -> Word]
      <4> DEFINE n == 4
      <4>1. prev \in [0 .. n - 1 -> Word] /\ n \in Nat /\ at + len <= n /\ 0 .. n - 1 = 0 .. 3
        BY <3>2, <3>4
      <4> HIDE DEF n, row
      <4>2. row.limbs \in [0 .. n - 1 -> Word]
        BY <3>2, <3>3, <3>4, <4>1, RowIs DEF row
      <4> QED BY <4>1, <4>2
    <3> QED BY <1>n, <2>2, <3>5 DEF row, x, b, at, len
  <2> QED BY <2>1, <2>2
<1>1. G \in [[0 .. 3 -> Word] \X Nat -> [0 .. 3 -> Word]]
  <2> SUFFICES ASSUME NEW p \in [0 .. 3 -> Word] \X Nat PROVE (IF p[2] \in 1 .. Width(a) THEN (IF 2 * p[2] - 1 >= Width(a) THEN p[1] ELSE Row(p[1], a[p[2] - 1], [j \in 0 .. Width(a) - p[2] - 1 |-> a[p[2] + j]], 2 * p[2] - 1, Min({Width(a) - p[2], Width(a) - (2 * p[2] - 1)})).limbs) ELSE Zeros(Width(a))) \in [0 .. 3 -> Word]
    OBVIOUS
  <2>1. p[1] \in [0 .. 3 -> Word]
    OBVIOUS
  <2> QED BY <1>0, <1>s, <2>1
<1>2. PICK g \in [0 .. Width(a) -> [0 .. 3 -> Word]] : Up(g, Width(a), Zeros(Width(a)), G)
  <2> HIDE DEF G
  <2> QED BY <1>n, <1>1, <1>s, Recursion, Zenon
<1>3. ASSUME NEW i \in 1 .. Width(a), NEW prev \in [0 .. 3 -> Word] PROVE G[<<prev, i>>] = (IF 2 * i - 1 >= Width(a) THEN prev ELSE Row(prev, a[i - 1], [j \in 0 .. Width(a) - i - 1 |-> a[i + j]], 2 * i - 1, Min({Width(a) - i, Width(a) - (2 * i - 1)})).limbs)
  <2> <<prev, i>> \in [0 .. 3 -> Word] \X Nat /\ <<prev, i>>[1] = prev /\ <<prev, i>>[2] = i
    OBVIOUS
  <2> QED OBVIOUS
<1> HIDE DEF G
<1>4. \A i \in 1 .. Width(a) : g[i] = (IF 2 * i - 1 >= Width(a) THEN g[i - 1] ELSE Row(g[i - 1], a[i - 1], [j \in 0 .. Width(a) - i - 1 |-> a[i + j]], 2 * i - 1, Min({Width(a) - i, Width(a) - (2 * i - 1)})).limbs)
  <2> TAKE i \in 1 .. Width(a)
  <2>1. i - 1 \in 0 .. Width(a) /\ g[i - 1] \in [0 .. 3 -> Word]
    BY <1>n
  <2>2. g[i] = G[<<g[i - 1], i>>]
    BY <1>2 DEF Up
  <2> QED BY <2>1, <2>2, <1>3
<1>5. P(g)
  <2>1. g[0] = Zeros(Width(a))
    BY <1>2 DEF Up
  <2>2. g = [i \in 0 .. Width(a) |-> g[i]]
    OBVIOUS
  <2>3. \A i \in 0 .. Width(a) : i # 0 => i \in 1 .. Width(a)
    BY <1>n
  <2> QED BY <1>4, <2>1, <2>2, <2>3
<1>6. CrossRows(a) = CHOOSE h : P(h)
  BY DEF CrossRows
<1> DEFINE h == CrossRows(a)
<1>7. P(h)
  <2> HIDE DEF P
  <2> QED BY <1>5, <1>6
<1> HIDE DEF h
<1>8. h = [i \in 0 .. Width(a) |-> h[i]] /\ h[0] = Zeros(Width(a))
  <2>1. DOMAIN h = 0 .. Width(a) /\ 0 \in 0 .. Width(a)
    BY <1>n, <1>7
  <2> QED BY <1>7, <2>1
<1>9. ASSUME NEW i \in 1 .. Width(a), h[i - 1] \in [0 .. 3 -> Word] PROVE h[i] = G[<<h[i - 1], i>>]
  <2>1. i \in 0 .. Width(a) /\ i # 0
    BY <1>n
  <2>2. h[i] = (IF 2 * i - 1 >= Width(a) THEN h[i - 1] ELSE Row(h[i - 1], a[i - 1], [j \in 0 .. Width(a) - i - 1 |-> a[i + j]], 2 * i - 1, Min({Width(a) - i, Width(a) - (2 * i - 1)})).limbs)
    BY <1>7, <2>1
  <2> QED BY <1>3, <1>9, <2>2
<1>10. UpWithin(h, Width(a), Zeros(Width(a)), [0 .. 3 -> Word], G)
  BY <1>8, <1>9 DEF UpWithin
<1>11. h = g
  BY <1>n, <1>1, <1>2, <1>s, <1>10, UpUnique, Zenon
<1> QED BY <1>2, <1>4, <1>11 DEF h, Up, CrossNext


\* mag_sqr is the product of a by itself.
LEMMA SquareIs ==
  ASSUME NEW a \in [0 .. 3 -> Word]
  PROVE  mag_sqr(a) = mag_mul(a, a)
<1> DEFINE h == CrossRows(a)
           B == Base
           T2 == a[2] + B * a[3]
           T1 == a[1] + B * T2
           b1 == [j \in 0 .. 2 |-> a[1 + j]]
           b2 == [j \in 0 .. 1 |-> a[2 + j]]
<1>n. Width(a) = 4 /\ 4 \in Nat /\ 4 - 1 = 3
  <2> DEFINE n == 4
  <2>1. n \in Nat /\ n - 1 = 3
    OBVIOUS
  <2>2. DOMAIN a = 0 .. n - 1
    BY <2>1
  <2> HIDE DEF n
  <2>3. Width(a) = n
    BY <2>1, <2>2, WidthIs
  <2> QED BY <2>1, <2>3 DEF n
<1>1. /\ h \in [0 .. 4 -> [0 .. 3 -> Word]] /\ h[0] = Zeros(4)
      /\ h[1] = Row(h[0], a[0], b1, 1, Min({3})).limbs /\ h[2] = Row(h[1], a[1], b2, 3, Min({2, 1})).limbs
      /\ h[3] = h[2] /\ h[4] = h[3]
  <2>1. /\ h \in [0 .. Width(a) -> [0 .. 3 -> Word]] /\ h[0] = Zeros(Width(a))
        /\ \A i \in 1 .. Width(a) : CrossNext(h, a, i)
    BY CrossRowsAre
  <2>2. CrossNext(h, a, 1) /\ CrossNext(h, a, 2) /\ CrossNext(h, a, 3) /\ CrossNext(h, a, 4)
    <3> HIDE DEF h
    <3>1. 1 \in 1 .. Width(a) /\ 2 \in 1 .. Width(a) /\ 3 \in 1 .. Width(a) /\ 4 \in 1 .. Width(a)
      BY <1>n
    <3> QED BY <2>1, <3>1
  <2> HIDE DEF h
  <2>3. 0 + 1 = 1 /\ 1 + 1 = 2 /\ 2 + 1 = 3 /\ 3 + 1 = 4 /\ 2 * 1 - 1 = 1 /\ 2 * 2 - 1 = 3 /\ 2 * 3 - 1 = 5 /\ 2 * 4 - 1 = 7
        /\ 4 - 1 = 3 /\ 4 - 3 = 1 /\ 4 - 2 = 2 /\ 1 - 1 = 0 /\ 2 - 1 = 1 /\ 3 - 1 = 2
    OBVIOUS
  <2>4. h[1] = Row(h[0], a[0], b1, 1, Min({3})).limbs
    <3>1. h[1] = Row(h[0], a[0], [j \in 0 .. 2 |-> a[1 + j]], 1, Min({3, 3})).limbs
      BY <1>n, <2>2, <2>3 DEF CrossNext
    <3>2. {3, 3} = {3}
      OBVIOUS
    <3> QED BY <3>1, <3>2
  <2>5. h[2] = Row(h[1], a[1], b2, 3, Min({2, 1})).limbs
    BY <1>n, <2>2, <2>3 DEF CrossNext
  <2>6. h[3] = h[2] /\ h[4] = h[3]
    BY <1>n, <2>2, <2>3 DEF CrossNext
  <2> QED BY <1>n, <2>1, <2>4, <2>5, <2>6
<1>2. Min({3}) = 3 /\ Min({2, 1}) = 1
  <2>1. {3} \subseteq Nat /\ {3} # {} /\ {2, 1} \subseteq Nat /\ {2, 1} # {}
    OBVIOUS
  <2>2. Min({3}) \in {3}
    BY <2>1, MinIs
  <2>3. Min({2, 1}) \in {2, 1} /\ \A y \in {2, 1} : Min({2, 1}) =< y
    BY <2>1, MinIs
  <2>4. Min({2, 1}) =< 1
    BY <2>3
  <2> QED BY <2>2, <2>3, <2>4
<1> HIDE DEF h
<1>3. h[0] \in [0 .. 3 -> Word] /\ h[1] \in [0 .. 3 -> Word] /\ h[2] \in [0 .. 3 -> Word] /\ h[4] = h[2]
  BY <1>1
<1>0. a[0] \in Word /\ a[1] \in Word
  OBVIOUS
<1>i. a[0] \in Int /\ a[1] \in Int /\ a[2] \in Int /\ a[3] \in Int
  <2>1. a \in [0 .. 3 -> Int]
    BY WordsAre
  <2> QED BY <2>1
<1>4. b1 \in [0 .. 2 -> Word] /\ Value(b1) = T1
  <2>1. 1 + 0 = 1 /\ 1 + 1 = 2 /\ 1 + 2 = 3
    OBVIOUS
  <2>2. b1 \in [0 .. 2 -> Word] /\ b1[0] = a[1] /\ b1[1] = a[2] /\ b1[2] = a[3]
    <3>1. \A j \in 0 .. 2 : 1 + j \in 0 .. 3
      OBVIOUS
    <3> QED BY <2>1, <3>1
  <2> HIDE DEF b1
  <2>3. b1 \in [0 .. 2 -> Int]
    BY <2>2, WordsAre
  <2> QED BY <2>2, <2>3, ThreeLimbs
<1>5. b2 \in [0 .. 1 -> Word] /\ Value(b2) = T2
  <2>1. 2 + 0 = 2 /\ 2 + 1 = 3
    OBVIOUS
  <2>2. b2 \in [0 .. 1 -> Word] /\ b2[0] = a[2] /\ b2[1] = a[3]
    <3>1. \A j \in 0 .. 1 : 2 + j \in 0 .. 3
      OBVIOUS
    <3> QED BY <2>1, <3>1
  <2> HIDE DEF b2
  <2>3. b2 \in [0 .. 1 -> Int]
    BY <2>2, WordsAre
  <2> QED BY <2>2, <2>3, TwoLimbs
<1> HIDE DEF b1, b2
<1> DEFINE V0 == Value(h[0])
           V1 == Value(h[1])
           V2 == Value(h[2])
           w1 == Weight(1)
           w3 == Weight(3)
           p1 == (a[0] * T1) * w1
           p3 == (a[1] * T2) * w3
<1>6. V0 = 0 /\ V1 \in Int /\ V2 \in Int
  <2> DEFINE n == 4
             r == h[1]
             s == h[2]
  <2>1. n \in Nat /\ h[0] = Zeros(n) /\ r \in [0 .. n - 1 -> Word] /\ s \in [0 .. n - 1 -> Word]
    BY <1>n, <1>1, <1>3
  <2> HIDE DEF n, r, s
  <2>2. Value(Zeros(n)) = 0
    BY <2>1, ZerosAre
  <2>3. Value(r) \in Nat
    BY <2>1, ValueNat
  <2>4. Value(s) \in Nat
    BY <2>1, ValueNat
  <2> QED BY <2>1, <2>2, <2>3, <2>4 DEF r, s
<1>7. Same(V1, V0 + p1, 4)
  <2> DEFINE n == 4
             m == 3
             r == h[0]
             x == a[0]
             at == 1
             len == 3
             row == Row(r, x, b1, at, len)
  <2>1. n \in Nat /\ m \in Nat /\ r \in [0 .. n - 1 -> Word] /\ b1 \in [0 .. m - 1 -> Word] /\ x \in Word /\ at \in Nat
        /\ len \in 0 .. m /\ at + len = n
    <3> m - 1 = 2
      OBVIOUS
    <3> QED BY <1>n, <1>3, <1>4, <1>0
  <2>2. h[1] = row.limbs
    BY <1>1, <1>2
  <2> HIDE DEF n, m, r, x, at, len
  <2>3. Same(Value(row.limbs), Value(r) + (x * Value(b1)) * Weight(at), n)
    BY <2>1, RowSame
  <2> HIDE DEF row
  <2>4. Same(V1, V0 + (x * Value(b1)) * Weight(at), n)
    BY <2>2, <2>3 DEF r
  <2> QED BY <1>4, <2>4 DEF n, x, at
<1>8. Same(V2, V1 + p3, 4)
  <2> DEFINE n == 4
             m == 2
             r == h[1]
             x == a[1]
             at == 3
             len == 1
             row == Row(r, x, b2, at, len)
  <2>1. n \in Nat /\ m \in Nat /\ r \in [0 .. n - 1 -> Word] /\ b2 \in [0 .. m - 1 -> Word] /\ x \in Word /\ at \in Nat
        /\ len \in 0 .. m /\ at + len = n
    <3> m - 1 = 1
      OBVIOUS
    <3> QED BY <1>n, <1>3, <1>5, <1>0
  <2>2. h[2] = row.limbs
    BY <1>1, <1>2
  <2> HIDE DEF n, m, r, x, at, len
  <2>3. Same(Value(row.limbs), Value(r) + (x * Value(b2)) * Weight(at), n)
    BY <2>1, RowSame
  <2> HIDE DEF row
  <2>4. Same(V2, V1 + (x * Value(b2)) * Weight(at), n)
    BY <2>2, <2>3 DEF r
  <2> QED BY <1>5, <2>4 DEF n, x, at
<1>9. p1 \in Int /\ p3 \in Int
  <2>1. B \in Nat
    BY BaseIs
  <2>2. w1 \in Nat /\ w3 \in Nat
    <3>1. w1 \in Nat
      BY WeightIs
    <3>2. w3 \in Nat
      BY WeightIs
    <3> QED BY <3>1, <3>2
  <2>3. T2 \in Int
    BY <1>i, <2>1
  <2> HIDE DEF T2
  <2>4. T1 \in Int
    BY <1>i, <2>1, <2>3
  <2> HIDE DEF T1, w1, w3
  <2>5. a[0] * T1 \in Int /\ a[1] * T2 \in Int
    BY <1>i, <2>3, <2>4
  <2> QED BY <2>2, <2>5
<1>10. Cross(a) = p1 + p3
  BY FourWeights DEF Cross
<1> HIDE DEF V0, V1, V2, p1, p3
<1>11. Same(V2, p1 + p3, 4)
  <2> DEFINE n == 4
  <2>1. n \in Nat /\ Same(V1, 0 + p1, n) /\ Same(V2, V1 + p3, n)
    BY <1>6, <1>7, <1>8
  <2> HIDE DEF n
  <2>2. 0 + p1 = p1
    BY <1>9
  <2>3. Same(p3, p3, n)
    BY <1>9, <2>1, SameRefl
  <2>4. Same(V1 + p3, p1 + p3, n)
    BY <1>6, <1>9, <2>1, <2>2, <2>3, SameAdd
  <2>5. V1 + p3 \in Int /\ p1 + p3 \in Int
    BY <1>6, <1>9
  <2>6. Same(V2, p1 + p3, n)
    BY <1>6, <2>1, <2>4, <2>5, SameTrans
  <2> QED BY <2>6 DEF n
<1>12. DoubledPlusDiagonal(a, h[2]) = mag_mul(a, a)
  <2> DEFINE s == h[2]
  <2>1. s \in [0 .. 3 -> Word] /\ Same(Value(s), Cross(a), 4)
    BY <1>3, <1>10, <1>11 DEF V2
  <2> HIDE DEF s
  <2>2. DoubledPlusDiagonal(a, s) = mag_mul(a, a)
    BY <2>1, DiagonalIs
  <2> QED BY <2>2 DEF s
<1>13. mag_sqr(a) = DoubledPlusDiagonal(a, h[4])
  BY <1>n DEF mag_sqr, h
<1> QED BY <1>3, <1>12, <1>13



\* The products of the ADX square, in their columns.
Halves(a) ==
    LET lo(i, k) == (a[i] * a[k]) % Base
        hi(i, k) == (a[i] * a[k]) \div Base
    IN  [k \in 0 .. 3 |-> CASE k = 0 -> 0
                            [] k = 1 -> lo(0, 1)
                            [] k = 2 -> hi(0, 1) + lo(0, 2)
                            [] k = 3 -> hi(0, 2) + lo(0, 3) + lo(1, 2)]

\* The columns of the four limbs.
LEMMA HalvesAre ==
  ASSUME NEW a \in [0 .. 3 -> Word]
  PROVE  /\ Halves(a)[0] = 0 /\ Halves(a)[1] = (a[0] * a[1]) % Base
         /\ Halves(a)[2] = ((a[0] * a[1]) \div Base) + ((a[0] * a[2]) % Base)
         /\ Halves(a)[3] = ((a[0] * a[2]) \div Base) + ((a[0] * a[3]) % Base) + ((a[1] * a[2]) % Base)
         /\ DOMAIN Halves(a) = 0 .. 3
BY DEF Halves

\* mag_sqr_4_adx is the product of a by itself.
LEMMA SquareAdxIs ==
  ASSUME NEW a \in [0 .. 3 -> Word]
  PROVE  mag_sqr_4_adx(a) = mag_mul(a, a)
<1> DEFINE col == Halves(a)
           c == AddColumns(col, 4).limbs
           B == Base
           x == a[0]
           y == a[1]
           z == a[2]
           u == a[3]
           W == Weight(4)
<1>0. x \in Word /\ y \in Word /\ z \in Word /\ u \in Word
  OBVIOUS
<1>1. x \in Nat /\ y \in Nat /\ z \in Nat /\ u \in Nat /\ B \in Nat
  <2> HIDE DEF x, y, z, u
  <2>1. x \in Nat
    BY <1>0, WordIs
  <2>2. y \in Nat
    BY <1>0, WordIs
  <2>3. z \in Nat
    BY <1>0, WordIs
  <2>4. u \in Nat
    BY <1>0, WordIs
  <2> QED BY <2>1, <2>2, <2>3, <2>4, BaseIs
<1>h. ASSUME NEW e \in Word, NEW f \in Word
      PROVE  (e * f) % B \in Int /\ (e * f) \div B \in Int /\ e * f = ((e * f) \div B) * B + ((e * f) % B)
  <2> DEFINE p == e * f
  <2>0. p = e * f
    OBVIOUS
  <2> HIDE DEF p
  <2>1. p % B \in Word /\ p \div B \in Word /\ p = (p \div B) * B + (p % B)
    BY <2>0, WordHalves
  <2> DEFINE q == p % B
             r == p \div B
  <2>3. q \in Word /\ r \in Word
    BY <2>1
  <2> HIDE DEF q, r
  <2>4. q \in Int
    BY <2>3, WordIs
  <2>5. r \in Int
    BY <2>3, WordIs
  <2> QED BY <2>0, <2>1, <2>4, <2>5 DEF q, r
<1> DEFINE l1 == (x * y) % B
           h1 == (x * y) \div B
           l2 == (x * z) % B
           h2 == (x * z) \div B
           l3 == (x * u) % B
           h3 == (x * u) \div B
           l4 == (y * z) % B
           h4 == (y * z) \div B
<1>2. l1 \in Int /\ h1 \in Int /\ x * y = h1 * B + l1
  <2> HIDE DEF x, y
  <2> QED BY <1>0, <1>h
<1>3. l2 \in Int /\ h2 \in Int /\ x * z = h2 * B + l2
  <2> HIDE DEF x, z
  <2> QED BY <1>0, <1>h
<1>4. l3 \in Int /\ h3 \in Int /\ x * u = h3 * B + l3
  <2> HIDE DEF x, u
  <2> QED BY <1>0, <1>h
<1>5. l4 \in Int /\ h4 \in Int /\ y * z = h4 * B + l4
  <2> HIDE DEF y, z
  <2> QED BY <1>0, <1>h
<1>6. col[0] = 0 /\ col[1] = l1 /\ col[2] = h1 + l2 /\ col[3] = h2 + l3 + l4 /\ DOMAIN col = 0 .. 3
  BY HalvesAre
<1>f. col = [k \in 0 .. 3 |-> col[k]]
  BY DEF Halves
<1>d. mag_sqr_4_adx(a) = DoubledPlusDiagonal(a, c)
  BY DEF mag_sqr_4_adx, Halves
<1> HIDE DEF l1, h1, l2, h2, l3, h3, l4, h4, col
<1>7. col \in [0 .. 3 -> Int]
  <2>1. \A k \in 0 .. 3 : k = 0 \/ k = 1 \/ k = 2 \/ k = 3
    OBVIOUS
  <2>2. \A k \in 0 .. 3 : col[k] \in Int
    <3>1. col[0] \in Int /\ col[1] \in Int /\ col[2] \in Int /\ col[3] \in Int
      BY <1>2, <1>3, <1>4, <1>5, <1>6
    <3> QED BY <2>1, <3>1
  <2> QED BY <1>f, <2>2
<1>8. c \in [0 .. 3 -> Word] /\ Value(c) = Value(col) % W
  <2> DEFINE n == 4
  <2>1. n \in Nat /\ n - 1 = 3 /\ col \in [0 .. n - 1 -> Int]
    BY <1>7
  <2> HIDE DEF n
  <2>2. AddColumns(col, n).limbs \in [0 .. n - 1 -> Word] /\ Value(AddColumns(col, n).limbs) = Value(col) % Weight(n)
    BY <2>1, AddColumnsIs
  <2> QED BY <2>1, <2>2 DEF n
<1>9. Value(col) = col[0] + B * (col[1] + B * (col[2] + B * col[3]))
  BY <1>7, FourLimbs
<1>10. Cross(a) = x * (y + B * (z + B * u)) * B + y * (z + B * u) * (B * (B * B)) /\ W = B * (B * (B * B))
  BY FourWeights DEF Cross
<1> HIDE DEF x, y, z, u, B, c
<1> DEFINE V == Value(col)
           C == x * (y + B * (z + B * u)) * B + y * (z + B * u) * (B * (B * B))
           s == (y * u) + h3 + h4
<1>11. V = C - s * W /\ C \in Int /\ V \in Int /\ s \in Int /\ W \in Int
  <2> DEFINE b2 == B * B
             b3 == B * (B * B)
             b4 == B * (B * (B * B))
  <2>1. V = l1 * B + h1 * b2 + l2 * b2 + h2 * b3 + l3 * b3 + l4 * b3
    <3>1. 0 + B * (l1 + B * ((h1 + l2) + B * (h2 + l3 + l4))) = l1 * B + h1 * (B * B) + l2 * (B * B) + h2 * (B * (B * B)) + l3 * (B * (B * B)) + l4 * (B * (B * B))
      BY <1>1, <1>2, <1>3, <1>4, <1>5
    <3> QED BY <1>6, <1>9, <3>1
  <2>2. C = (x * y) * B + (x * z) * b2 + (x * u) * b3 + (y * z) * b3 + (y * u) * b4
    BY <1>1
  <2>3. (x * y) * B = h1 * b2 + l1 * B
    <3>1. (h1 * B + l1) * B = h1 * (B * B) + l1 * B
      BY <1>1, <1>2
    <3> QED BY <1>2, <3>1
  <2>4. (x * z) * b2 = h2 * b3 + l2 * b2
    <3>1. (h2 * B + l2) * (B * B) = h2 * (B * (B * B)) + l2 * (B * B)
      BY <1>1, <1>3
    <3> QED BY <1>3, <3>1
  <2>5. (x * u) * b3 = h3 * b4 + l3 * b3
    <3>1. (h3 * B + l3) * (B * (B * B)) = h3 * (B * (B * (B * B))) + l3 * (B * (B * B))
      BY <1>1, <1>4
    <3> QED BY <1>4, <3>1
  <2>6. (y * z) * b3 = h4 * b4 + l4 * b3
    <3>1. (h4 * B + l4) * (B * (B * B)) = h4 * (B * (B * (B * B))) + l4 * (B * (B * B))
      BY <1>1, <1>5
    <3> QED BY <1>5, <3>1
  <2>7. s * W = (y * u) * b4 + h3 * b4 + h4 * b4
    <3>1. ((y * u) + h3 + h4) * (B * (B * (B * B))) = (y * u) * (B * (B * (B * B))) + h3 * (B * (B * (B * B))) + h4 * (B * (B * (B * B)))
      BY <1>1, <1>4, <1>5
    <3> QED BY <1>10, <3>1
  <2>t. b2 \in Int /\ b3 \in Int /\ b4 \in Int /\ y * u \in Int /\ W = b4
    BY <1>1, <1>10
  <2>n. s \in Int
    BY <1>4, <1>5, <2>t
  <2> HIDE DEF b2, b3, b4, V, C, s, W
  <2> DEFINE a1 == l1 * B
             a2 == h1 * b2
             a3 == l2 * b2
             a4 == h2 * b3
             a5 == l3 * b3
             a6 == l4 * b3
             a7 == h3 * b4
             a8 == h4 * b4
             a9 == (y * u) * b4
  <2>8. a1 \in Int /\ a2 \in Int /\ a3 \in Int /\ a4 \in Int /\ a5 \in Int /\ a6 \in Int /\ a7 \in Int /\ a8 \in Int /\ a9 \in Int
    <3>1. a1 \in Int /\ a2 \in Int
      BY <1>1, <1>2, <2>t
    <3>2. a3 \in Int /\ a4 \in Int
      BY <1>3, <2>t
    <3>3. a5 \in Int /\ a7 \in Int
      BY <1>4, <2>t
    <3>4. a6 \in Int /\ a8 \in Int
      BY <1>5, <2>t
    <3>5. a9 \in Int
      <4> DEFINE yu == y * u
      <4>1. yu \in Int
        BY <2>t
      <4> HIDE DEF yu
      <4>2. yu * b4 \in Int
        BY <2>t, <4>1
      <4> QED BY <4>2 DEF yu
    <3> QED BY <3>1, <3>2, <3>3, <3>4, <3>5
  <2>9. V = a1 + a2 + a3 + a4 + a5 + a6 /\ C = (a2 + a1) + (a4 + a3) + (a7 + a5) + (a8 + a6) + a9 /\ s * W = a9 + a7 + a8
    BY <2>1, <2>2, <2>3, <2>4, <2>5, <2>6, <2>7
  <2> HIDE DEF a1, a2, a3, a4, a5, a6, a7, a8, a9
  <2> DEFINE sW == s * W
  <2>10. sW = a9 + a7 + a8
    BY <2>9
  <2> HIDE DEF sW
  <2>11. V = C - sW /\ C \in Int /\ V \in Int
    BY <2>8, <2>9, <2>10
  <2> QED BY <2>11, <2>n, <2>t DEF sW
<1>12. Same(Value(c), Cross(a), 4)
  <2> HIDE DEF V, C, s
  <2> DEFINE q == V \div W
  <2>1. W \in Nat /\ W > 0
    <3> 4 \in Nat
      OBVIOUS
    <3>1. W \in Nat /\ W >= 1
      BY WeightIs
    <3> QED BY <3>1
  <2> HIDE DEF W
  <2>2. V = W * q + (V % W) /\ q \in Int /\ V % W \in Int
    BY <1>11, <2>1
  <2> HIDE DEF q
  <2> DEFINE v == V % W
             t == (- q) - s
  <2>3. v \in Int /\ V = W * q + v /\ Value(c) = v
    BY <1>8, <2>2 DEF V
  <2> HIDE DEF v
  <2>4. t \in Int /\ t * W = - (W * q) - s * W
    BY <1>11, <2>1, <2>2
  <2> HIDE DEF t
  <2> DEFINE a1 == W * q
             a2 == s * W
             a3 == t * W
  <2>5. a1 \in Int /\ a2 \in Int /\ a3 = - a1 - a2 /\ V = a1 + v /\ V = C - a2
    BY <1>11, <2>1, <2>2, <2>3, <2>4
  <2> HIDE DEF a1, a2, a3
  <2>6. v = C + a3
    BY <1>11, <2>3, <2>5
  <2>7. Cross(a) = C
    BY <1>10 DEF C
  <2> QED BY <2>3, <2>4, <2>6, <2>7 DEF Same, a3, W
<1>13. DoubledPlusDiagonal(a, c) = mag_mul(a, a)
  BY <1>8, <1>12, DiagonalIs
<1> QED BY <1>d, <1>13

-----------------------------------------------------------------------------
(* Shifts                                                                  *)

\* Dividing twice is dividing by the product.
LEMMA DivDiv ==
  ASSUME NEW x \in Nat, NEW a \in Nat, a > 0, NEW b \in Nat, b > 0, NEW p, p = a * b
  PROVE  (x \div a) \div b = x \div p /\ x \div a \in Nat /\ x \div p \in Nat /\ p \in Nat /\ p > 0
<1> DEFINE q == x \div a
           r == x % a
<1>1. x = a * q + r /\ q \in Nat /\ r \in 0 .. a - 1
  BY DivRem
<1> HIDE DEF q, r
<1> DEFINE h == q \div b
           d == q % b
<1>2. q = b * h + d /\ h \in Nat /\ d \in 0 .. b - 1
  BY <1>1, DivRem
<1> HIDE DEF h, d
<1>3. p \in Nat /\ p > 0
  BY TimesAssociates
<1> DEFINE s == a * d + r
<1>4. x = h * p + s
  <2>1. a * (b * h + d) = h * (a * b) + a * d
    BY <1>2
  <2> QED BY <1>1, <1>2, <2>1
<1>5. s \in Int /\ 0 <= s /\ s < p
  <2>1. a * d <= a * (b - 1) /\ a * (b - 1) = p - a /\ a * d \in Nat
    BY <1>2
  <2> QED BY <1>1, <1>3, <2>1
<1> HIDE DEF s
<1>6. x \div p = h
  BY <1>2, <1>3, <1>4, <1>5, EuclidUnique
<1> QED BY <1>1, <1>2, <1>3, <1>6 DEF h, q

\* A common factor of dividend and divisor.
LEMMA DivScale ==
  ASSUME NEW x \in Nat, NEW a \in Nat, a > 0, NEW g \in Nat, g > 0, NEW y, y = x * g, NEW p, p = a * g
  PROVE  y \div p = x \div a
<1> DEFINE q == x \div a
           r == x % a
           s == r * g
<1>1. x = a * q + r /\ q \in Nat /\ r \in 0 .. a - 1
  BY DivRem
<1> HIDE DEF q, r
<1>2. p \in Nat /\ p > 0
  BY TimesAssociates
<1>3. y = q * p + s /\ s \in Int /\ y \in Int
  <2>1. (a * q + r) * g = q * (a * g) + r * g
    BY <1>1
  <2> QED BY <1>1, <2>1
<1>4. 0 <= s /\ s < p
  <2>1. r * g <= (a - 1) * g /\ (a - 1) * g = p - g /\ r * g \in Nat
    BY <1>1
  <2> QED BY <1>1, <1>2, <2>1
<1> HIDE DEF s
<1>5. y \div p = q
  BY <1>1, <1>2, <1>3, <1>4, EuclidUnique
<1> QED BY <1>5 DEF q

\* The two parts of a word.
LEMMA BaseSplit ==
  ASSUME NEW t \in 0 .. LimbBits
  PROVE  2^t \in Nat /\ 2^t >= 1 /\ 2^(LimbBits - t) \in Nat /\ 2^(LimbBits - t) >= 1
         /\ Base = 2^t * 2^(LimbBits - t)
<1> DEFINE d == LimbBits - t
<1>1. t \in Nat /\ d \in Nat /\ t + d = LimbBits
  BY LimbBitsAssumption
<1> HIDE DEF d
<1>2. 2^t \in Nat /\ 2^t >= 1
  BY <1>1, Pow2Positive
<1>3. 2^d \in Nat /\ 2^d >= 1
  BY <1>1, Pow2Positive
<1>4. 2^(t + d) = 2^t * 2^d
  BY <1>1, Pow2Add
<1> QED BY <1>1, <1>2, <1>3, <1>4 DEF d, Base

\* Limb k, or zero where there is none.
LEMMA LimbAtIs ==
  ASSUME NEW n \in Nat, NEW a \in [0 .. n - 1 -> Word], NEW k \in Int
  PROVE  /\ LimbAt(a, k) \in Word
         /\ k >= 0 => LimbAt(a, k) = (Value(a) \div Weight(k)) % Base
         /\ k < 0 => LimbAt(a, k) = 0
<1>0. DOMAIN a = 0 .. n - 1
  OBVIOUS
<1>1. CASE k \in 0 .. n - 1
  <2>1. LimbAt(a, k) = a[k] /\ k >= 0 /\ a[k] \in Word
    BY <1>0, <1>1 DEF LimbAt
  <2>2. a[k] = (Value(a) \div Weight(k)) % Base
    BY <1>1, DigitIs
  <2> QED BY <2>1, <2>2
<1>2. CASE k \notin 0 .. n - 1
  <2>1. LimbAt(a, k) = 0 /\ 0 \in Word
    BY <1>0, <1>2, BaseIs DEF LimbAt, Word
  <2>2. ASSUME k >= 0 PROVE (Value(a) \div Weight(k)) % Base = 0
    <3>1. k \in Nat /\ n <= k
      BY <1>2, <2>2
    <3>2. Value(a) \in Nat /\ Value(a) < Weight(n)
      BY ValueNat
    <3> DEFINE d == k - n
    <3>3. d \in Nat /\ n + d = k
      BY <3>1
    <3> HIDE DEF d
    <3>4. Weight(n) \in Nat /\ Weight(n) >= 1
      BY WeightIs
    <3>5. Weight(d) \in Nat /\ Weight(d) >= 1
      BY <3>3, WeightIs
    <3>6. Weight(n + d) = Weight(n) * Weight(d)
      BY <3>3, WeightAdd
    <3> DEFINE w == Weight(n)
               e == Weight(d)
               f == Weight(k)
               v == Value(a)
    <3>7. w \in Nat /\ e \in Nat /\ e >= 1 /\ f = w * e /\ w >= 1 /\ v \in Nat /\ v < w
      BY <3>2, <3>3, <3>4, <3>5, <3>6
    <3> HIDE DEF w, e, f, v
    <3>8. f \in Nat /\ f >= w
      <4>1. w * 1 <= w * e /\ w * e \in Nat
        BY <3>7
      <4> QED BY <3>7, <4>1
    <3>9. v = 0 * f + v /\ v < f /\ f > 0 /\ v \in Int /\ 0 <= v
      BY <3>7, <3>8
    <3>10. v \div f = 0
      BY <3>8, <3>9, EuclidUnique
    <3>11. 0 % Base = 0
      BY BaseIs
    <3> QED BY <3>10, <3>11 DEF v, f
  <2>3. CASE k < 0
    BY <2>1, <2>3
  <2>4. CASE k >= 0
    BY <2>1, <2>2, <2>4
  <2> QED BY <2>3, <2>4
<1> QED BY <1>1, <1>2

\* A digit of a quotient takes its bits from two limbs.
DigitOfQuotient(x, g, h, B) == (x \div g) % B = (((x % B) \div g) + ((x \div B) % B) * h) % B

\* Every digit of a quotient does.
LEMMA QuotientDigit ==
  ASSUME NEW V \in Nat, NEW g \in Nat, g >= 1, NEW h \in Nat, h >= 1, NEW B, B = g * h
  PROVE  DigitOfQuotient(V, g, h, B)
<1>0. B \in Nat /\ B > 0
  <2>1. 1 * 1 <= g * 1 /\ g * 1 <= g * h /\ g * h \in Nat
    OBVIOUS
  <2> QED BY <2>1
<1> DEFINE y == V % B
           Z == V \div B
<1>1. V = B * Z + y /\ Z \in Nat /\ y \in 0 .. B - 1
  BY <1>0, DivRem
<1> HIDE DEF y, Z
<1> DEFINE x == Z % B
           z == Z \div B
           e == y \div g
           f == y % g
<1>2. Z = B * z + x /\ z \in Nat /\ x \in 0 .. B - 1
  BY <1>0, <1>1, DivRem
<1>3. y = g * e + f /\ e \in Nat /\ f \in 0 .. g - 1
  <2> y \in Nat
    BY <1>1
  <2> QED BY <1>1, DivRem
<1> HIDE DEF x, z, e, f
<1> DEFINE q == h * Z + e
<1>4. V = q * g + f /\ q \in Int
  <2>1. (g * h) * Z + (g * e + f) = (h * Z + e) * g + f
    BY <1>1, <1>3
  <2>2. h * Z \in Nat
    BY <1>1
  <2> QED BY <1>1, <1>3, <2>1, <2>2
<1> HIDE DEF q
<1>5. V \div g = q
  BY <1>3, <1>4, EuclidUnique
<1> DEFINE u == e + x * h
           t == h * z
<1>6. q = u + t * B /\ u \in Int /\ t \in Int
  <2>1. h * (B * z + x) + e = (e + x * h) + (h * z) * B
    BY <1>0, <1>2, <1>3
  <2>2. x * h \in Int /\ h * z \in Int
    BY <1>0, <1>2
  <2> QED BY <1>2, <1>3, <2>1, <2>2 DEF q
<1> HIDE DEF u, t
<1>7. (u + t * B) % B = u % B
  BY <1>0, <1>6, ModShift
<1> QED BY <1>5, <1>6, <1>7 DEF u, e, x, y, Z, DigitOfQuotient

\* The digits of a number are its array.
LEMMA DigitsAre ==
  ASSUME NEW n \in Nat, NEW l, NEW x \in Nat, l = [i \in 0 .. n - 1 |-> l[i]],
         \A i \in 0 .. n - 1 : l[i] = (x \div Weight(i)) % Base
  PROVE  l = ToLimbs(x, n)
BY DEF ToLimbs

\* Whole limbs and bits of a shift.
LEMMA ShiftIs ==
  ASSUME NEW s \in Nat
  PROVE  /\ s \div LimbBits \in Nat /\ s % LimbBits \in 0 .. LimbBits - 1 /\ s % LimbBits \in 0 .. LimbBits
         /\ 2^s = 2^(s % LimbBits) * Weight(s \div LimbBits)
<1> DEFINE q == s \div LimbBits
           t == s % LimbBits
<1>1. s = LimbBits * q + t /\ q \in Nat /\ t \in 0 .. LimbBits - 1
  BY LimbBitsAssumption, DivRem
<1> HIDE DEF q, t
<1>2. LimbBits * q \in Nat /\ t \in Nat
  BY <1>1, LimbBitsAssumption
<1> DEFINE m == LimbBits * q
<1>3. m \in Nat /\ s = t + m /\ t \in Nat
  BY <1>1, <1>2
<1> HIDE DEF m
<1>4. 2^(t + m) = 2^t * 2^m
  BY <1>3, Pow2Add
<1>5. 2^m = Weight(q)
  BY DEF m, Weight
<1>6. t \in 0 .. LimbBits
  BY <1>1, LimbBitsAssumption
<1> QED BY <1>1, <1>3, <1>4, <1>5, <1>6 DEF q, t

\* A shift to the right divides.
LEMMA MagShrIs ==
  ASSUME NEW n \in Nat, NEW a \in [0 .. n - 1 -> Word], NEW s \in Nat
  PROVE  /\ mag_shr(a, s) \in [0 .. n - 1 -> Word] /\ Value(mag_shr(a, s)) = Value(a) \div 2^s
         /\ Value(a) \div 2^s \in Nat
<1> DEFINE l == mag_shr(a, s)
           A == Value(a)
           q == s \div LimbBits
           t == s % LimbBits
           p == 2^s
           g == 2^t
           h == 2^(LimbBits - t)
<1>1. q \in Nat /\ t \in 0 .. LimbBits - 1 /\ t \in 0 .. LimbBits /\ p = g * Weight(q)
  BY ShiftIs
<1>2. g \in Nat /\ g >= 1 /\ h \in Nat /\ h >= 1 /\ Base = g * h
  <2> HIDE DEF t
  <2> QED BY <1>1, BaseSplit
<1>3. p \in Nat /\ p >= 1
  BY Pow2Positive
<1>4. A \in Nat /\ A < Weight(n)
  BY ValueNat
<1>5. l = [i \in 0 .. n - 1 |-> l[i]] /\ \A i \in 0 .. n - 1 : l[i] = ((LimbAt(a, i + q) \div g) + LimbAt(a, i + q + 1) * h) % Base
  <2> DOMAIN a = 0 .. n - 1
    OBVIOUS
  <2> QED BY DEF mag_shr
<1> HIDE DEF l, A, q, t, p, g, h
<1>6. A \div p \in Nat /\ A \div p <= A
  <2> DEFINE e == A \div p
             f == A % p
  <2>1. A = p * e + f /\ e \in Nat /\ f \in 0 .. p - 1
    BY <1>3, <1>4, DivRem
  <2> HIDE DEF e, f
  <2>2. 1 * e <= p * e /\ p * e \in Nat
    BY <1>3, <2>1
  <2>3. e <= A
    <3> DEFINE pe == p * e
    <3>1. pe \in Nat /\ e <= pe /\ A = pe + f
      BY <2>1, <2>2
    <3> HIDE DEF pe
    <3> QED BY <2>1, <3>1
  <2> QED BY <2>1, <2>3 DEF e
<1>7. ASSUME NEW i \in 0 .. n - 1 PROVE l[i] = ((A \div p) \div Weight(i)) % Base
  <2> DEFINE w == Weight(i)
             v == Weight(q)
             j == i + q
             x == Weight(j)
  <2>1. i \in Nat /\ j \in Nat /\ j \in Int /\ j + 1 \in Int /\ j >= 0 /\ j + 1 >= 0 /\ j + 1 \in Nat
    BY <1>1
  <2>2. w \in Nat /\ w >= 1
    BY <2>1, WeightIs
  <2>3. v \in Nat /\ v >= 1
    BY <1>1, WeightIs
  <2>4. x = w * v
    BY <1>1, <2>1, WeightAdd
  <2>5. Weight(j + 1) = Base * x /\ x \in Nat /\ x >= 1
    <3> HIDE DEF j
    <3> QED BY <2>1, WeightNext
  <2>6. LimbAt(a, j) = (A \div x) % Base
    <3> HIDE DEF j
    <3> QED BY <2>1, LimbAtIs DEF A
  <2> DEFINE k == j + 1
  <2>7. LimbAt(a, k) = (A \div Weight(k)) % Base
    <3> k \in Int /\ k >= 0
      BY <2>1
    <3> HIDE DEF k
    <3> QED BY LimbAtIs DEF A
  <2>8. p = g * v
    BY <1>1
  <2>9. l[i] = ((LimbAt(a, j) \div g) + LimbAt(a, k) * h) % Base
    BY <1>5
  <2> DEFINE z == Weight(k)
             B == Base
             V == A \div x
  <2>10. z = B * x /\ B \in Nat /\ B >= 4 /\ B = g * h
    BY <2>5, <1>2, BaseIs
  <2> HIDE DEF w, v, x, z, B, j, k
  <2> DEFINE r == p * w
  <2>11. r = x * g /\ z = x * B
    BY <1>2, <2>2, <2>3, <2>4, <2>5, <2>8, <2>10
  <2>12. (A \div p) \div w = A \div r
    BY <1>3, <1>4, <2>2, DivDiv
  <2> HIDE DEF r
  <2>13. V \div g = A \div r /\ V \in Nat
    BY <1>2, <1>4, <2>5, <2>11, DivDiv
  <2>b. B \in Nat /\ B > 0 /\ x \in Nat /\ x > 0 /\ z = x * B
    BY <2>5, <2>10, <2>11 DEF x
  <2>14. V \div B = A \div z
    BY <1>4, <2>b, DivDiv
  <2>g. V \in Nat /\ g \in Nat /\ g >= 1 /\ h \in Nat /\ h >= 1 /\ B = g * h
    BY <1>2, <2>10, <2>13
  <2> HIDE DEF V
  <2>15. (V \div g) % B = (((V % B) \div g) + ((V \div B) % B) * h) % B
    <3>1. DigitOfQuotient(V, g, h, B)
      BY <2>g, QuotientDigit
    <3> QED BY <3>1 DEF DigitOfQuotient
  <2>16. l[i] = (((V % B) \div g) + ((V \div B) % B) * h) % B
    BY <2>6, <2>7, <2>9, <2>14 DEF V, B, z
  <2> QED BY <2>12, <2>13, <2>15, <2>16 DEF w, B
<1> DEFINE c == A \div p
<1>8. l = ToLimbs(c, n) /\ c \in Nat
  <2> c \in Nat
    BY <1>6
  <2>1. \A i \in 0 .. n - 1 : l[i] = (c \div Weight(i)) % Base
    BY <1>7
  <2> HIDE DEF c
  <2> QED BY <1>5, <2>1, DigitsAre
<1>9. c < Weight(n)
  BY <1>4, <1>6, WeightIs
<1> HIDE DEF c
<1>10. ToLimbs(c, n) \in [0 .. n - 1 -> Word] /\ Value(ToLimbs(c, n)) = c % Weight(n)
  BY <1>8, ToLimbsIs
<1>11. c % Weight(n) = c
  BY <1>8, <1>9, ModSmall, WeightIs
<1> QED BY <1>8, <1>10, <1>11 DEF c, l, A, p

\* A shift to the left multiplies, and loses what passes the width.
LEMMA MagShlIs ==
  ASSUME NEW n \in Nat, NEW a \in [0 .. n - 1 -> Word], NEW s \in Nat
  PROVE  /\ mag_shl(a, s) \in [0 .. n - 1 -> Word] /\ Value(mag_shl(a, s)) = (Value(a) * 2^s) % Weight(n)
         /\ Value(a) * 2^s \in Nat
<1> DEFINE l == mag_shl(a, s)
           A == Value(a)
           q == s \div LimbBits
           t == s % LimbBits
           p == 2^s
           g == 2^t
           h == 2^(LimbBits - t)
           c == A * p
<1>1. q \in Nat /\ t \in 0 .. LimbBits - 1 /\ t \in 0 .. LimbBits /\ p = g * Weight(q)
  BY ShiftIs
<1>2. g \in Nat /\ g >= 1 /\ h \in Nat /\ h >= 1 /\ Base = g * h
  <2> HIDE DEF t
  <2> QED BY <1>1, BaseSplit
<1>3. p \in Nat /\ p >= 1
  BY Pow2Positive
<1>4. A \in Nat /\ A < Weight(n)
  BY ValueNat
<1>5. l = [i \in 0 .. n - 1 |-> l[i]] /\ \A i \in 0 .. n - 1 : l[i] = (LimbAt(a, i - q) * g + (LimbAt(a, i - q - 1) \div h)) % Base
  <2> DOMAIN a = 0 .. n - 1
    OBVIOUS
  <2> QED BY DEF mag_shl
<1>h. 0 \div h = 0
  BY <1>2
<1> HIDE DEF l, A, q, t, p, g, h
<1>6. c \in Nat
  BY <1>3, <1>4
<1>7. ASSUME NEW i \in 0 .. n - 1 PROVE l[i] = (c \div Weight(i)) % Base
  <2> DEFINE v == Weight(q)
             B == Base
  <2>1. i \in Nat /\ v \in Nat /\ v >= 1 /\ B \in Nat /\ B >= 4 /\ B = g * h /\ p = g * v
    BY <1>1, <1>2, BaseIs, WeightIs
  <2> HIDE DEF v, B
  <2>b. B \in Nat /\ B > 0
    BY <2>1
  <2>2. CASE i < q
    <3> DEFINE d == q - i - 1
               w == Weight(i)
               y == Weight(d)
    <3>1. d \in Nat /\ q = i + (d + 1) /\ d + 1 \in Nat /\ i - q \in Int /\ i - q < 0 /\ i - q - 1 \in Int /\ i - q - 1 < 0
      BY <1>1, <2>1, <2>2
    <3> DEFINE j == i - q
               k == i - q - 1
    <3>2. LimbAt(a, j) = 0
      <4> j \in Int /\ j < 0
        BY <3>1
      <4> HIDE DEF j
      <4> QED BY LimbAtIs
    <3>3. LimbAt(a, k) = 0
      <4> k \in Int /\ k < 0
        BY <3>1
      <4> HIDE DEF k
      <4> QED BY LimbAtIs
    <3>4. l[i] = 0
      <4>1. l[i] = (LimbAt(a, j) * g + (LimbAt(a, k) \div h)) % Base
        BY <1>5
      <4>2. (0 * g + 0) % Base = 0
        BY <1>2, BaseIs
      <4> QED BY <1>h, <3>2, <3>3, <4>1, <4>2
    <3> HIDE DEF d
    <3>5. Weight(d + 1) = B * y /\ y \in Nat /\ y >= 1
      BY <3>1, WeightNext DEF B
    <3> DEFINE e == d + 1
    <3>6. v = w * Weight(e)
      <4> e \in Nat /\ q = i + e
        BY <3>1
      <4> HIDE DEF e
      <4> QED BY <2>1, WeightAdd DEF v
    <3>7. w \in Nat /\ w >= 1
      BY <2>1, WeightIs
    <3> HIDE DEF w, y
    <3> DEFINE m == (A * g) * y
               u == m * B
    <3>8. c = u * w /\ m \in Nat /\ u \in Nat
      <4>1. A * (g * (w * (B * y))) = (((A * g) * y) * B) * w
        BY <1>2, <1>4, <2>1, <3>5, <3>7
      <4>2. m \in Nat
        BY <1>2, <1>4, <3>5
      <4> HIDE DEF m
      <4>3. u \in Nat
        BY <4>2, <2>1
      <4> QED BY <2>1, <3>5, <3>6, <4>1, <4>2, <4>3 DEF m
    <3> HIDE DEF m
    <3>9. u % B = 0
      BY <2>b, <3>8, DivExact
    <3> HIDE DEF u, c
    <3>10. c \div w = u
      BY <3>7, <3>8, DivExact
    <3> QED BY <3>4, <3>9, <3>10 DEF w, B
  <2>3. CASE i >= q
    <3> DEFINE k == i - q
               w == Weight(k)
               C == A * g
    <3>1. k \in Nat /\ k \in Int /\ k >= 0 /\ i = k + q /\ k - 1 \in Int
      BY <1>1, <2>1, <2>3
    <3>2. l[i] = (LimbAt(a, k) * g + (LimbAt(a, k - 1) \div h)) % B
      BY <1>5 DEF B
    <3> HIDE DEF k
    <3>3. w \in Nat /\ w >= 1
      BY <3>1, WeightIs
    <3>4. Weight(i) = w * v
      BY <1>1, <3>1, WeightAdd DEF v
    <3>5. c = C * v /\ C \in Nat
      BY <1>2, <1>4, <2>1
    <3> HIDE DEF c, w, C
    <3> DEFINE W == Weight(i)
    <3> HIDE DEF W
    <3>6. c \div W = C \div w
      BY <2>1, <3>3, <3>4, <3>5, DivScale DEF W
    <3>7. LimbAt(a, k) = (A \div w) % B
      BY <3>1, LimbAtIs DEF A, B, w
    <3>8. CASE k = 0
      <4>1. w = 1
        BY <3>8, WeightFirst DEF w
      <4>2. k - 1 = -1 /\ -1 \in Int /\ -1 < 0
        BY <3>8
      <4>3. LimbAt(a, -1) = 0
        BY <4>2, LimbAtIs
      <4>4. A \div 1 = A /\ C \div 1 = C
        <5>1. A = A * 1 + 0 /\ C = C * 1 + 0 /\ A \in Int /\ C \in Int
          BY <1>4, <3>5
        <5> QED BY <5>1, EuclidUnique
      <4> DEFINE x == A % B
                 z == A \div B
      <4>5. A = B * z + x /\ z \in Nat /\ x \in 0 .. B - 1
        BY <1>4, <2>b, DivRem
      <4>6. l[i] = (x * g + 0) % B
        BY <1>h, <3>2, <3>7, <4>1, <4>2, <4>3, <4>4
      <4> HIDE DEF x, z
      <4> DEFINE y == x * g
                 f == z * g
      <4>7. C = y + f * B /\ y \in Int /\ f \in Int
        <5>1. (B * z + x) * g = x * g + (z * g) * B
          BY <1>2, <2>1, <4>5
        <5>2. x * g \in Int /\ z * g \in Int
          BY <1>2, <4>5
        <5> QED BY <4>5, <5>1, <5>2 DEF C
      <4>8. l[i] = y % B
        <5>1. y + 0 = y
          BY <4>7
        <5> QED BY <4>6, <5>1
      <4> HIDE DEF y, f
      <4>9. (y + f * B) % B = y % B
        BY <2>b, <4>7, ModShift
      <4> QED BY <3>6, <4>1, <4>4, <4>7, <4>8, <4>9 DEF B, W
    <3>9. CASE k # 0
      <4> DEFINE j == k - 1
                 x == Weight(j)
                 V == A \div x
      <4>1. j \in Nat /\ j >= 0 /\ j \in Int /\ k = j + 1
        BY <3>1, <3>9
      <4> HIDE DEF j
      <4>2. w = B * x /\ x \in Nat /\ x >= 1
        BY <4>1, WeightNext DEF w, B
      <4>3. LimbAt(a, j) = V % B
        BY <4>1, LimbAtIs DEF A, B
      <4> HIDE DEF x
      <4> DEFINE r == x * h
      <4>4. r \in Nat /\ r > 0 /\ w = r * g /\ w = x * B
        <5>1. r \in Nat /\ r > 0
          BY <1>2, <4>2, TimesAssociates
        <5>2. (g * h) * x = (x * h) * g /\ (g * h) * x = x * (g * h)
          BY <1>2, <4>2
        <5> QED BY <2>1, <4>2, <5>1, <5>2
      <4>5. V \div h = A \div r /\ V \in Nat
        BY <1>2, <1>4, <4>2, DivDiv
      <4> HIDE DEF r
      <4>6. C \div w = A \div r
        BY <1>2, <1>4, <4>4, DivScale DEF C
      <4>7. V \div B = A \div w
        <5>1. x \in Nat /\ x > 0 /\ w = x * B
          BY <4>2, <4>4
        <5> QED BY <1>4, <2>b, <5>1, DivDiv
      <4>8. B = h * g
        BY <1>2, <2>1
      <4> HIDE DEF V
      <4>9. (V \div h) % B = (((V % B) \div h) + ((V \div B) % B) * g) % B
        <5>1. DigitOfQuotient(V, h, g, B)
          BY <1>2, <4>5, <4>8, QuotientDigit
        <5> QED BY <5>1 DEF DigitOfQuotient
      <4> DEFINE e == (V % B) \div h
                 f == ((V \div B) % B) * g
      <4>10. LimbAt(a, k) * g = f /\ LimbAt(a, k - 1) \div h = e
        BY <3>7, <4>3, <4>7 DEF j
      <4>11. l[i] = (f + e) % B
        BY <3>2, <4>10
      <4>12. e \in Int /\ f \in Int
        <5>1. V % B \in Int /\ (V \div B) % B \in Int
          BY <2>1, <4>5
        <5> QED BY <1>2, <5>1
      <4>13. (V \div h) % B = (e + f) % B
        BY <4>9
      <4> HIDE DEF e, f
      <4>14. f + e = e + f
        BY <4>12
      <4> QED BY <3>6, <4>5, <4>6, <4>11, <4>13, <4>14 DEF B, W
    <3> QED BY <3>8, <3>9
  <2> QED BY <1>1, <2>1, <2>2, <2>3
<1>8. l = ToLimbs(c, n)
  <2> HIDE DEF c
  <2> QED BY <1>5, <1>6, <1>7, DigitsAre
<1> HIDE DEF c
<1>9. ToLimbs(c, n) \in [0 .. n - 1 -> Word] /\ Value(ToLimbs(c, n)) = c % Weight(n)
  BY <1>6, ToLimbsIs
<1> QED BY <1>6, <1>8, <1>9 DEF c, l, A, p

-----------------------------------------------------------------------------
(* Bits                                                                    *)

\* The bits in use: m of them, and the highest is one.
LEMMA NBitsAre ==
  ASSUME NEW x \in Word, NEW m, m = nbits64(x)
  PROVE  /\ m \in 0 .. LimbBits /\ x < 2^m /\ m \in Nat
         /\ x > 0 => m >= 1 /\ x >= 2^(m - 1)
         /\ x = 0 => m = 0
<1> DEFINE S == {j \in 0 .. LimbBits : x < 2^j}
           k == Min(S)
<1>0. x \in Nat /\ x < 2^LimbBits /\ LimbBits \in Nat
  BY WordIs, LimbBitsAssumption DEF Base
<1>1. S \subseteq Nat /\ S # {}
  <2>1. LimbBits \in S
    BY <1>0
  <2>2. S \subseteq 0 .. LimbBits
    OBVIOUS
  <2>3. 0 .. LimbBits \subseteq Nat
    BY <1>0
  <2> HIDE DEF S
  <2> QED BY <2>1, <2>2, <2>3
<1>2. k \in S /\ \A y \in S : k <= y
  <2> HIDE DEF S
  <2> QED BY <1>1, MinIs
<1>3. k \in 0 .. LimbBits /\ x < 2^k /\ k \in Nat
  BY <1>0, <1>2
<1>4. ASSUME NEW j \in 0 .. LimbBits, j < k PROVE x >= 2^j
  <2>1. j \notin S
    <3> HIDE DEF S, k
    <3>1. j \in S => k <= j
      BY <1>2
    <3> QED BY <1>3, <1>4, <3>1
  <2>2. 2^j \in Nat
    BY <1>0, Pow2Nat
  <2> QED BY <1>0, <2>1, <2>2
<1> HIDE DEF k, S
<1>5. \A j \in 0 .. LimbBits - 1 : x \div 2^j > 0 <=> j < k
  <2> TAKE j \in 0 .. LimbBits - 1
  <2>1. j \in 0 .. LimbBits /\ j \in Nat
    BY <1>0
  <2> DEFINE p == 2^j
             q == x \div p
             r == x % p
  <2>2. p \in Nat /\ p >= 1
    BY <2>1, Pow2Positive
  <2>3. p <= x <=> j < k
    <3>1. CASE j < k
      BY <1>4, <2>1, <3>1
    <3>2. CASE ~ (j < k)
      <4>1. 2^k <= 2^j
        BY <1>3, <2>1, <3>2, Pow2Monotone
      <4>2. 2^k \in Nat
        BY <1>3, Pow2Nat
      <4> QED BY <1>0, <1>3, <2>2, <3>2, <4>1, <4>2
    <3> QED BY <3>1, <3>2
  <2> HIDE DEF p
  <2>4. x = p * q + r /\ q \in Nat /\ r \in 0 .. p - 1
    BY <1>0, <2>2, DivRem
  <2> HIDE DEF q, r
  <2>5. CASE q = 0
    <3>1. p * 0 = 0
      BY <2>2
    <3>2. ~ (p <= x)
      BY <2>2, <2>4, <2>5, <3>1
    <3> QED BY <2>3, <2>5, <3>2 DEF q, p
  <2>6. CASE q > 0
    <3>1. p * 1 <= p * q /\ p * q \in Nat
      BY <2>2, <2>4, <2>6
    <3> DEFINE pq == p * q
    <3>2. p <= pq /\ pq \in Nat /\ x = pq + r
      BY <2>2, <2>4, <3>1
    <3> HIDE DEF pq
    <3>3. p <= x
      BY <2>2, <2>4, <3>2
    <3> QED BY <2>3, <2>6, <3>3 DEF q, p
  <2> QED BY <2>4, <2>5, <2>6
<1>6. {j \in 0 .. LimbBits - 1 : x \div 2^j > 0} = 0 .. k - 1
  <2>1. \A j \in 0 .. k - 1 : j \in 0 .. LimbBits - 1
    BY <1>0, <1>3
  <2>2. \A j \in 0 .. LimbBits - 1 : j < k <=> j \in 0 .. k - 1
    BY <1>0, <1>3
  <2> QED BY <1>5, <2>1, <2>2
<1>7. m = k
  <2>1. Cardinality(0 .. k - 1) = k
    <3>1. 0 \in Int /\ k - 1 \in Int
      BY <1>3
    <3>2. Cardinality(0 .. k - 1) = IF 0 > k - 1 THEN 0 ELSE (k - 1) - 0 + 1
      BY <3>1, FS_Interval
    <3> QED BY <1>3, <3>2
  <2> QED BY <1>6, <2>1 DEF nbits64
<1>8. ASSUME x > 0 PROVE k >= 1 /\ x >= 2^(k - 1)
  <2>1. k # 0
    <3> SUFFICES ASSUME k = 0 PROVE FALSE
      OBVIOUS
    <3> QED BY <1>0, <1>3, <1>8, Pow2Zero
  <2>2. k - 1 \in 0 .. LimbBits /\ k - 1 < k
    BY <1>0, <1>3, <2>1
  <2> QED BY <1>3, <1>4, <2>1, <2>2
<1>9. ASSUME x = 0 PROVE k = 0
  <2>1. CASE k > 0
    <3>1. 0 \in 0 .. LimbBits /\ 0 < k
      BY <1>0, <2>1
    <3>2. x >= 2^0
      BY <1>4, <3>1
    <3> QED BY <1>9, <3>2, Pow2Zero
  <2> QED BY <1>3, <2>1
<1> QED BY <1>3, <1>7, <1>8, <1>9

\* The zeros below the lowest one: the rest is odd.
LEMMA TrailingZerosAre ==
  ASSUME NEW x \in Word, x > 0
  PROVE  /\ trailing_zeros(x) \in 0 .. LimbBits - 1
         /\ \E u \in Nat : x = u * 2^trailing_zeros(x) /\ u % 2 = 1
<1> DEFINE S == {k \in 0 .. LimbBits - 1 : x % 2^k = 0}
           z == Max(S)
<1>0. x \in Nat /\ x < 2^LimbBits /\ LimbBits \in Nat /\ LimbBits >= 2
  BY WordIs, LimbBitsAssumption DEF Base
<1>1. S \subseteq 0 .. LimbBits /\ S # {} /\ trailing_zeros(x) = z
  <2>1. x % 1 = 0
    <3>1. x = x * 1 + 0
      BY <1>0
    <3> QED BY <1>0, <3>1, EuclidUnique
  <2>2. 0 \in S
    BY <1>0, <2>1, Pow2Zero
  <2>3. trailing_zeros(x) = z
    BY <1>0 DEF trailing_zeros
  <2>4. S \subseteq 0 .. LimbBits
    <3>1. S \subseteq 0 .. LimbBits - 1
      OBVIOUS
    <3>2. 0 .. LimbBits - 1 \subseteq 0 .. LimbBits
      BY <1>0
    <3> HIDE DEF S
    <3> QED BY <3>1, <3>2
  <2> HIDE DEF S
  <2> QED BY <2>2, <2>3, <2>4
<1>2. z \in S /\ \A y \in S : z >= y
  <2> HIDE DEF S
  <2> QED BY <1>0, <1>1, MaxIs
<1>3. z \in 0 .. LimbBits - 1 /\ x % 2^z = 0 /\ z \in Nat
  <2> HIDE DEF z
  <2>1. z \in 0 .. LimbBits - 1 /\ x % 2^z = 0
    BY <1>2
  <2> QED BY <1>0, <2>1
<1>4. ASSUME NEW y \in 0 .. LimbBits - 1, x % 2^y = 0 PROVE z >= y
  <2>1. y \in S
    BY <1>4
  <2> HIDE DEF S, z
  <2> QED BY <1>2, <2>1
<1> HIDE DEF z, S
<1> DEFINE p == 2^z
           u == x \div p
<1>5. p \in Nat /\ p >= 1 /\ 2^(z + 1) = 2 * p
  BY <1>3, Pow2Positive, Pow2Succ
<1> HIDE DEF p
<1>6. x = u * p /\ u \in Nat
  <2>1. x = p * (x \div p) + (x % p) /\ x \div p \in Nat
    BY <1>0, <1>5, DivRem
  <2>2. x % p = 0
    BY <1>3 DEF p
  <2> HIDE DEF u
  <2>3. p * u + 0 = u * p /\ u \in Nat
    BY <1>5, <2>1 DEF u
  <2> QED BY <2>1, <2>2, <2>3 DEF u
<1> HIDE DEF u
<1>7. u % 2 = 1
  <2> SUFFICES ASSUME u % 2 # 1 PROVE FALSE
    OBVIOUS
  <2> DEFINE e == u \div 2
  <2>1. u = 2 * e /\ e \in Nat
    BY <1>6
  <2> HIDE DEF e
  <2> DEFINE w == 2 * p
  <2>2. x = e * w /\ w \in Nat /\ w > 0
    <3>1. (2 * e) * p = e * (2 * p)
      BY <1>5, <2>1
    <3> QED BY <1>5, <1>6, <2>1, <3>1
  <2>3. x % w = 0
    <3> HIDE DEF w
    <3> QED BY <2>1, <2>2, DivExact
  <2>4. CASE z + 1 = LimbBits
    <3>1. x < w
      BY <1>0, <1>5, <2>4
    <3> HIDE DEF w
    <3>2. x % w = x
      BY <1>0, <2>2, <3>1, ModSmall
    <3> QED BY <2>3, <3>2
  <2>5. CASE z + 1 # LimbBits
    <3>1. z + 1 \in 0 .. LimbBits - 1
      BY <1>0, <1>3, <2>5
    <3>2. z >= z + 1
      BY <1>4, <1>5, <2>3, <3>1
    <3> QED BY <1>3, <3>2
  <2> QED BY <2>4, <2>5
<1> QED BY <1>1, <1>3, <1>6, <1>7 DEF p

\* The bits of a magnitude.
LEMMA BitSizeIs ==
  ASSUME NEW n \in Nat, NEW a \in [0 .. n - 1 -> Word], NEW bits, bits = mag_bitsize(a)
  PROVE  /\ bits \in Nat /\ Value(a) < 2^bits
         /\ Value(a) > 0 => bits >= 1 /\ Value(a) >= 2^(bits - 1)
         /\ Value(a) = 0 => bits = 0
<1> DEFINE len == mag_effective_len(a)
<1>1. /\ len \in 0 .. n /\ len \in Nat
      /\ len = 0 <=> Value(a) = 0
      /\ len > 0 => a[len - 1] > 0
      /\ Value(a) = Below(a)[len]
  BY LengthIs
<1>2. bits = BitsOf(a, len)
  BY DEF mag_bitsize
<1> HIDE DEF len
<1>3. CASE len = 0
  <2>1. bits = 0
    BY <1>2, <1>3 DEF BitsOf
  <2> QED BY <1>1, <1>3, <2>1, Pow2Zero
<1>4. CASE len > 0
  <2> DEFINE k == len - 1
             x == a[k]
             m == nbits64(x)
             w == Weight(k)
             b == Below(a)[k]
             v == Value(a)
  <2>1. k \in 0 .. n - 1 /\ k \in 0 .. n /\ k \in Nat /\ k + 1 = len
    BY <1>1, <1>4
  <2>2. bits = LimbBits * k + m
    BY <1>2, <1>4 DEF BitsOf
  <2>3. x \in Word /\ x > 0
    BY <1>1, <1>4, <2>1
  <2>4. v = b + x * w /\ b \in Nat /\ b < w
    <3>1. /\ \A i \in 0 .. n - 1 : Below(a)[i + 1] = Below(a)[i] + a[i] * Weight(i)
          /\ \A i \in 0 .. n : Below(a)[i] \in Nat /\ Below(a)[i] < Weight(i)
      BY BelowWords
    <3> HIDE DEF k
    <3> QED BY <1>1, <2>1, <3>1
  <2>5. w \in Nat /\ w >= 1 /\ w = 2^(LimbBits * k)
    BY <2>1, WeightIs DEF Weight
  <2> HIDE DEF k, w, b, v
  <2>6. x \in Nat
    BY <2>3, WordIs
  <2> HIDE DEF x
  <2>7. m \in Nat /\ x < 2^m /\ m >= 1 /\ x >= 2^(m - 1)
    <3>1. /\ m \in 0 .. LimbBits /\ x < 2^m /\ m \in Nat
          /\ x > 0 => m >= 1 /\ x >= 2^(m - 1)
      BY <2>3, NBitsAre
    <3> QED BY <2>3, <3>1
  <2> HIDE DEF m
  <2> DEFINE d == LimbBits * k
             j == m - 1
  <2>8. d \in Nat /\ bits = d + m /\ j \in Nat /\ bits - 1 = d + j /\ bits \in Nat /\ bits >= 1
    <3>1. d \in Nat
      BY <2>1, LimbBitsAssumption
    <3> HIDE DEF d
    <3> QED BY <2>2, <2>7, <3>1 DEF d
  <2>9. w = 2^d
    BY <2>5
  <2> HIDE DEF d
  <2>10. 2^(d + m) = w * 2^m
    BY <2>7, <2>8, <2>9, Pow2Add
  <2>11. 2^(d + j) = w * 2^j
    <3> HIDE DEF j
    <3> QED BY <2>8, <2>9, Pow2Add
  <2> DEFINE g == 2^m
             h == 2^j
  <2>12. g \in Nat
    BY <2>7, Pow2Nat
  <2>13. h \in Nat
    BY <2>8, Pow2Nat
  <2>14. x < g /\ x >= h
    BY <2>7
  <2> HIDE DEF g, h, j
  <2>15. v < w * g /\ v >= w * h
    <3>1. (x + 1) * w <= w * g
      BY <2>5, <2>6, <2>12, <2>14
    <3>2. w * h <= x * w
      BY <2>5, <2>6, <2>13, <2>14
    <3>3. (x + 1) * w = x * w + w /\ x * w \in Nat /\ w * h \in Nat /\ w * g \in Nat
      BY <2>5, <2>6, <2>12, <2>13
    <3> DEFINE xw == x * w
               wg == w * g
               wh == w * h
    <3>4. xw + w <= wg /\ wh <= xw /\ xw \in Nat /\ wg \in Nat /\ wh \in Nat /\ v = b + xw
      BY <2>4, <3>1, <3>2, <3>3
    <3> HIDE DEF xw, wg, wh
    <3>5. v < wg /\ v >= wh
      BY <2>4, <2>5, <3>4
    <3> QED BY <3>5 DEF wg, wh
  <2>16. bits \in Nat /\ v < 2^bits /\ bits >= 1 /\ v >= 2^(bits - 1)
    BY <2>8, <2>10, <2>11, <2>15 DEF g, h
  <2> QED BY <1>1, <1>4, <2>16 DEF v
<1> QED BY <1>1, <1>3, <1>4

\* Zeros below k are worth nothing.
LEMMA LowZeros ==
  ASSUME NEW n \in Nat, NEW a \in [0 .. n - 1 -> Word], NEW k \in 0 .. n, \A i \in 0 .. k - 1 : a[i] = 0
  PROVE  Below(a)[k] = 0
<1> DEFINE Z == Zeros(n)
<1>1. Z \in [0 .. n - 1 -> Word] /\ Below(Z)[k] = 0
  BY ZerosAre
<1>2. \A i \in 0 .. n - 1 : Z[i] = 0
  BY DEF Zeros
<1> HIDE DEF Z
<1>3. Z \in [0 .. n - 1 -> Int]
  BY <1>1, WordsAre
<1>4. a \in [0 .. n - 1 -> Int]
  BY WordsAre
<1>5. Agree(a, Z, 0, k)
  BY <1>2 DEF Agree
<1>6. k \in Nat /\ k <= n
  OBVIOUS
<1>7. Below(a)[k] = Below(Z)[k]
  <2>1. AgreeBelow(a, n, Z, n, k)
    BY <1>3, <1>4, <1>5, <1>6 DEF AgreeBelow
  <2> QED BY <1>6, <2>1, BelowAgree
<1> QED BY <1>1, <1>7

\* The zeros below the lowest one of a magnitude: the rest is odd.
LEMMA MagTrailingZerosAre ==
  ASSUME NEW n \in Nat, NEW a \in [0 .. n - 1 -> Word], Value(a) > 0
  PROVE  /\ mag_trailing_zeros(a) \in Nat
         /\ \E u \in Nat : Value(a) = u * 2^mag_trailing_zeros(a) /\ u % 2 = 1
<1> DEFINE S == {i \in DOMAIN a : a[i] # 0}
           k == Min(S)
           x == a[k]
           z == trailing_zeros(x)
<1>0. ~ mag_is_zero(a) /\ DOMAIN a = 0 .. n - 1 /\ Value(a) \in Nat
  BY IsZero, ValueNat
<1>1. S \subseteq Nat /\ S # {}
  BY <1>0 DEF mag_is_zero
<1>2. k \in S /\ \A y \in S : k <= y
  <2> HIDE DEF S
  <2> QED BY <1>1, MinIs
<1>3. mag_trailing_zeros(a) = LimbBits * k + z
  BY <1>0 DEF mag_trailing_zeros, ZerosOf
<1>4. k \in 0 .. n - 1 /\ x # 0 /\ x \in Word
  BY <1>0, <1>2
<1>5. ASSUME NEW i \in 0 .. n - 1, i < k PROVE a[i] = 0
  <2> SUFFICES ASSUME a[i] # 0 PROVE FALSE
    OBVIOUS
  <2>1. i \in S
    BY <1>0
  <2> HIDE DEF S, k
  <2>2. k <= i
    BY <1>2, <2>1
  <2> QED BY <1>4, <1>5, <2>2
<1> HIDE DEF k, S
<1>6. x > 0 /\ x \in Nat
  BY <1>4, WordIs
<1>7. Below(a)[k] = 0
  <2>1. \A i \in 0 .. k - 1 : i \in 0 .. n - 1 /\ i < k
    BY <1>4
  <2>2. \A i \in 0 .. k - 1 : a[i] = 0
    BY <1>5, <2>1
  <2>3. k \in 0 .. n
    BY <1>4
  <2> QED BY <2>2, <2>3, LowZeros
<1> DEFINE j == k + 1
           w == Weight(k)
           v == Value(a)
<1>8. j \in 0 .. n /\ k \in Nat
  BY <1>4
<1>9. \E t \in Nat : v = Below(a)[j] + t * Weight(j)
  <2> HIDE DEF j
  <2> QED BY <1>8, AboveIs
<1>10. Below(a)[j] = x * w
  <2>1. \A i \in 0 .. n - 1 : Below(a)[i + 1] = Below(a)[i] + a[i] * Weight(i)
    BY BelowWords
  <2>2. Below(a)[k + 1] = 0 + x * w
    BY <1>4, <1>7, <2>1
  <2>3. x * w \in Nat
    <3>1. w \in Nat
      BY <1>8, WeightIs
    <3> HIDE DEF x, w
    <3> QED BY <1>6, <3>1
  <2> QED BY <2>2, <2>3
<1>11. Weight(j) = Base * w /\ w \in Nat /\ w >= 1 /\ w = 2^(LimbBits * k)
  BY <1>8, WeightNext DEF Weight
<1>12. z \in 0 .. LimbBits - 1 /\ \E u \in Nat : x = u * 2^z /\ u % 2 = 1
  <2> HIDE DEF x
  <2> QED BY <1>4, <1>6, TrailingZerosAre
<1> HIDE DEF x, z, v, w, j
<1>13. PICK t \in Nat : v = Below(a)[j] + t * Weight(j)
  BY <1>9
<1>14. PICK u \in Nat : x = u * 2^z /\ u % 2 = 1
  BY <1>12
<1> DEFINE g == 2^z
           h == 2^(LimbBits - z)
           f == LimbBits - z - 1
<1>15. g \in Nat /\ g >= 1 /\ h \in Nat /\ Base = g * h /\ z \in Nat
  <2>1. z \in 0 .. LimbBits /\ z \in Nat
    BY <1>12, LimbBitsAssumption
  <2> QED BY <2>1, BaseSplit
<1>16. h = 2 * 2^f /\ 2^f \in Nat
  <2>1. f \in Nat /\ f + 1 = LimbBits - z
    BY <1>12, LimbBitsAssumption
  <2> HIDE DEF f
  <2> QED BY <2>1, Pow2Succ, Pow2Nat
<1> DEFINE y == 2^f
           r == u + 2 * (y * t)
           d == LimbBits * k
<1>17. d \in Nat
  BY <1>8, LimbBitsAssumption
<1>18. mag_trailing_zeros(a) = d + z /\ d + z \in Nat
  BY <1>3, <1>15, <1>17
<1>19. 2^(d + z) = w * g
  <2> HIDE DEF d
  <2>1. 2^(d + z) = 2^d * 2^z
    BY <1>15, <1>17, Pow2Add
  <2> QED BY <1>11, <2>1 DEF d
<1> HIDE DEF g, h, f, d
<1>20. v = r * (w * g) /\ r \in Nat /\ r % 2 = 1
  <2> DEFINE s == y * t
  <2>1. y \in Nat /\ h = 2 * y
    BY <1>16
  <2> HIDE DEF y
  <2>2. s \in Nat
    BY <2>1
  <2>3. v = (u * g) * w + t * ((g * (2 * y)) * w)
    BY <1>10, <1>11, <1>13, <1>14, <1>15, <2>1 DEF g
  <2>4. (u * g) * w + t * ((g * (2 * y)) * w) = (u + 2 * (y * t)) * (w * g)
    BY <1>11, <1>15, <2>1
  <2> HIDE DEF s
  <2>5. u + 2 * s \in Nat /\ (u + 2 * s) % 2 = 1
    BY <1>14, <2>2
  <2> QED BY <2>3, <2>4, <2>5 DEF s
<1> HIDE DEF r
<1>21. Value(a) = r * 2^(d + z)
  BY <1>19, <1>20 DEF v
<1> QED BY <1>18, <1>20, <1>21

-----------------------------------------------------------------------------
(* Width and bytes                                                         *)

\* A higher limb weighs no less.
LEMMA WeightMonotone ==
  ASSUME NEW i \in Nat, NEW j \in Nat, i <= j
  PROVE  Weight(i) <= Weight(j)
<1> DEFINE a == LimbBits * i
           b == LimbBits * j
<1>1. a \in Nat /\ b \in Nat /\ a <= b
  BY LimbBitsAssumption
<1> HIDE DEF a, b
<1>2. 2^a <= 2^b
  BY <1>1, Pow2Monotone
<1> QED BY <1>2 DEF a, b, Weight

\* A limb, and zeros.
LEMMA OneLimbIs ==
  ASSUME NEW n \in Nat, n >= 1, NEW x \in Word
  PROVE  OneLimb(x, n) \in [0 .. n - 1 -> Word] /\ Value(OneLimb(x, n)) = x
<1> DEFINE z == Zeros(n)
           c == OneLimb(x, n)
<1>1. z \in [0 .. n - 1 -> Word] /\ Value(z) = 0
  BY ZerosAre
<1>2. c = [z EXCEPT ![0] = x] /\ 0 \in 0 .. n - 1 /\ z[0] = 0
  BY DEF OneLimb, Zeros
<1> HIDE DEF z, c
<1>3. c \in [0 .. n - 1 -> Word] /\ c[0] = x /\ \A i \in 0 .. n - 1 : i # 0 => c[i] = z[i]
  BY <1>1, <1>2
<1>4. z \in [0 .. n - 1 -> Int]
  BY <1>1, WordsAre
<1>5. c \in [0 .. n - 1 -> Int]
  BY <1>3, WordsAre
<1> DEFINE k == 0
<1>6. k \in 0 .. n - 1 /\ \A i \in 0 .. n - 1 : i # k => c[i] = z[i]
  BY <1>2, <1>3
<1> HIDE DEF k
<1>7. Value(c) = Value(z) + (c[k] - z[k]) * Weight(k)
  BY <1>4, <1>5, <1>6, ValueChanged
<1>8. x \in Int
  BY WordIs
<1>9. Value(c) = 0 + (x - 0) * 1
  BY <1>1, <1>2, <1>3, <1>7, WeightFirst DEF k
<1> QED BY <1>3, <1>8, <1>9 DEF c

\* The array of another width: cut, or zeros put above.
LEMMA ResizeIs ==
  ASSUME NEW m \in Nat, NEW x, x.limbs \in [0 .. m - 1 -> Word], NEW n \in Nat,
         NEW y, y = resize_unchecked(x, n)
  PROVE  y = Big(x.sign, y.limbs) /\ y.limbs \in [0 .. n - 1 -> Word]
         /\ Value(y.limbs) = Value(x.limbs) % Weight(n)
<1> DEFINE a == x.limbs
           l == y.limbs
<1>1. Width(a) = m
  BY BelowWords
<1>2. y = Big(x.sign, l) /\ l = [i \in 0 .. n - 1 |-> IF i < m THEN a[i] ELSE 0]
  BY <1>1 DEF resize_unchecked, Big
<1>3. a \in [0 .. m - 1 -> Word]
  OBVIOUS
<1> HIDE DEF a, l
<1>4. l \in [0 .. n - 1 -> Word]
  <2>1. \A i \in 0 .. n - 1 : i < m => i \in 0 .. m - 1
    OBVIOUS
  <2>2. 0 \in Word
    BY BaseIs DEF Word
  <2> QED BY <1>2, <1>3, <2>1, <2>2
<1>5. a \in [0 .. m - 1 -> Int] /\ Value(a) \in Nat /\ Value(a) < Weight(m)
  BY <1>3, WordsAre, ValueNat
<1>6. l \in [0 .. n - 1 -> Int]
  BY <1>4, WordsAre
<1>7. CASE n <= m
  <2>1. Agree(l, a, 0, n)
    BY <1>2, <1>7 DEF Agree
  <2>2. n \in 0 .. m /\ n <= n
    BY <1>7
  <2>3. Below(l)[n] = Below(a)[n]
    <3>1. a \in [0 .. m - 1 -> Int]
      BY <1>5
    <3>2. n <= m /\ n <= n
      BY <1>7
    <3>3. AgreeBelow(l, n, a, m, n)
      BY <1>6, <2>1, <3>1, <3>2 DEF AgreeBelow
    <3> QED BY <3>3, BelowAgree
  <2>4. Value(l) = Below(l)[n]
    BY <1>4, BelowWords
  <2>5. Value(a) % Weight(n) = Below(a)[n]
    BY <1>3, <2>2, ValueMod
  <2> QED BY <1>2, <1>4, <2>3, <2>4, <2>5 DEF a, l
<1>8. CASE m < n
  <2>1. Agree(l, a, 0, m)
    BY <1>2, <1>8 DEF Agree
  <2>2. m \in 0 .. n /\ m <= n /\ m <= m
    BY <1>8
  <2>3. Below(l)[m] = Below(a)[m]
    <3>1. a \in [0 .. m - 1 -> Int]
      BY <1>5
    <3>2. m <= n /\ m <= m
      BY <1>8
    <3>3. AgreeBelow(l, n, a, m, m)
      BY <1>6, <2>1, <3>1, <3>2 DEF AgreeBelow
    <3> QED BY <3>3, BelowAgree
  <2>4. Value(a) = Below(a)[m]
    BY <1>3, BelowWords
  <2>5. \A i \in m .. n - 1 : l[i] = 0
    BY <1>2
  <2>6. Value(l) = Below(l)[m]
    BY <1>4, <2>2, <2>5, HighZeros
  <2>7. Weight(m) <= Weight(n)
    BY <2>2, WeightMonotone
  <2>8. Weight(m) \in Nat
    BY WeightIs
  <2>9. Weight(n) \in Nat
    BY WeightIs
  <2> DEFINE v == Value(a)
             w == Weight(n)
  <2>10. v \in Nat /\ w \in Nat /\ v < w
    BY <1>5, <2>7, <2>8, <2>9
  <2> HIDE DEF v, w
  <2>11. v % w = v
    BY <2>10, ModSmall
  <2> QED BY <1>2, <1>4, <2>3, <2>4, <2>6, <2>11 DEF a, l, v, w
<1> QED BY <1>7, <1>8

\* Narrowing refuses what it cannot hold.
LEMMA NarrowIs ==
  ASSUME NEW m \in Nat, NEW x, x.limbs \in [0 .. m - 1 -> Word], NEW n \in 0 .. m
  PROVE  narrow_to(x, n) = IF Value(x.limbs) < Weight(n) THEN resize_unchecked(x, n) ELSE NoBig
<1> DEFINE a == x.limbs
<1>1. Width(a) = m /\ a \in [0 .. m - 1 -> Word]
  BY BelowWords
<1>2. narrow_to(x, n) = IF \E i \in n .. m - 1 : a[i] # 0 THEN NoBig ELSE resize_unchecked(x, n)
  BY <1>1 DEF narrow_to
<1> HIDE DEF a
<1>3. /\ (\A i \in n .. m - 1 : a[i] = 0) => Value(a) = Below(a)[n]
      /\ Value(a) < Weight(n) => \A i \in n .. m - 1 : a[i] = 0
  BY <1>1, HighZeros
<1>4. Below(a)[n] < Weight(n)
  BY <1>1, BelowWords
<1>5. Value(a) < Weight(n) <=> ~ \E i \in n .. m - 1 : a[i] # 0
  BY <1>3, <1>4
<1> QED BY <1>2, <1>5 DEF a

\* Half of a weight: the top bit of the limb below.
LEMMA HalfWeight ==
  ASSUME NEW k \in Nat
  PROVE  /\ Weight(k + 1) \div 2 = (Base \div 2) * Weight(k) /\ Base \div 2 \in Nat
         /\ Weight(k + 1) \div 2 \in Nat /\ Weight(k + 1) \div 2 > 0 /\ Weight(k + 1) \div 2 < Weight(k + 1)
<1> DEFINE e == LimbBits - 1
           h == 2^e
           w == Weight(k)
           p == h * w
<1>1. e \in Nat /\ e + 1 = LimbBits
  BY LimbBitsAssumption
<1>2. Base = 2 * h /\ h \in Nat /\ h >= 1
  <2> HIDE DEF e
  <2> QED BY <1>1, Pow2Succ, Pow2Positive DEF Base
<1>3. Weight(k + 1) = Base * w /\ w \in Nat /\ w >= 1
  BY WeightNext
<1> HIDE DEF h, w
<1>4. Base \div 2 = h
  BY <1>2
<1>5. Weight(k + 1) = 2 * p /\ p \in Nat /\ p >= 1
  <2>1. (2 * h) * w = 2 * (h * w)
    BY <1>2, <1>3
  <2>2. 1 * 1 <= h * 1 /\ h * 1 <= h * w /\ h * w \in Nat
    BY <1>2, <1>3
  <2> QED BY <1>2, <1>3, <2>1, <2>2
<1> HIDE DEF p
<1>6. Weight(k + 1) \div 2 = p
  BY <1>5
<1> QED BY <1>2, <1>4, <1>5, <1>6 DEF p, w

\* Two's complement: the top bit is worth half of the weight, and less than that without it.
LEMMA TopBitIs ==
  ASSUME NEW n \in Nat, n >= 1, NEW a \in [0 .. n - 1 -> Word]
  PROVE  a[n - 1] >= Base \div 2 <=> Value(a) >= Weight(n) \div 2
<1> DEFINE k == n - 1
           x == a[k]
           b == Below(a)[k]
           w == Weight(k)
           h == Base \div 2
           v == Value(a)
<1>1. k \in Nat /\ k + 1 = n /\ k \in 0 .. n - 1 /\ k \in 0 .. n
  OBVIOUS
<1>2. v = b + x * w /\ b \in Nat /\ b < w
  <2>1. /\ \A i \in 0 .. n - 1 : Below(a)[i + 1] = Below(a)[i] + a[i] * Weight(i)
        /\ \A i \in 0 .. n : Below(a)[i] \in Nat /\ Below(a)[i] < Weight(i)
        /\ Value(a) = Below(a)[n]
    BY BelowWords
  <2> HIDE DEF k
  <2> QED BY <1>1, <2>1
<1>3. x \in Nat
  <2> x \in Word
    BY <1>1
  <2> HIDE DEF x
  <2> QED BY WordIs
<1>4. Weight(k + 1) \div 2 = h * w /\ h \in Nat
  <2> HIDE DEF k
  <2> QED BY <1>1, HalfWeight
<1>5. w \in Nat
  BY <1>1, WeightIs
<1> HIDE DEF k, x, b, w, h, v
<1>6. x >= h <=> v >= h * w
  <2> DEFINE xw == x * w
             hw == h * w
  <2>0. xw \in Nat /\ hw \in Nat
    BY <1>3, <1>4, <1>5
  <2>1. ASSUME x >= h PROVE hw <= xw
    BY <1>3, <1>4, <1>5, <2>1
  <2>2. ASSUME x < h PROVE xw + w <= hw
    <3>1. (x + 1) * w <= h * w /\ (x + 1) * w = x * w + w
      BY <1>3, <1>4, <1>5, <2>2
    <3> QED BY <3>1
  <2>3. v = b + xw
    BY <1>2
  <2> HIDE DEF xw, hw
  <2>4. x >= h <=> v >= hw
    BY <1>2, <1>3, <1>4, <1>5, <2>0, <2>1, <2>2, <2>3
  <2> QED BY <2>4 DEF hw
<1> QED BY <1>1, <1>4, <1>6 DEF k, x, h, v

\* The limbs, flipped.
LEMMA FlippedAre ==
  ASSUME NEW n \in Nat, NEW a \in [0 .. n - 1 -> Word], NEW c, c = [i \in 0 .. n - 1 |-> Base - 1 - a[i]]
  PROVE  c \in [0 .. n - 1 -> Word] /\ Value(c) = Weight(n) - 1 - Value(a)
<1>1. c \in [0 .. n - 1 -> Word]
  <2>1. \A i \in 0 .. n - 1 : a[i] \in Nat /\ a[i] < Base
    BY WordsAre
  <2> QED BY <2>1, BaseIs DEF Word
<1>2. /\ Below(a)[0] = 0 /\ Value(a) = Below(a)[n] /\ Below(a) \in [0 .. n -> Nat]
      /\ \A i \in 0 .. n - 1 : Below(a)[i + 1] = Below(a)[i] + a[i] * Weight(i)
  BY BelowWords
<1>3. /\ Below(c)[0] = 0 /\ Value(c) = Below(c)[n] /\ Below(c) \in [0 .. n -> Nat]
      /\ \A i \in 0 .. n - 1 : Below(c)[i + 1] = Below(c)[i] + c[i] * Weight(i)
  BY <1>1, BelowWords
<1> DEFINE T == {j \in Nat : j <= n => Below(c)[j] = Weight(j) - 1 - Below(a)[j]}
<1>4. 0 \in T
  BY <1>2, <1>3, WeightFirst
<1>5. ASSUME NEW j \in T PROVE j + 1 \in T
  <2>1. SUFFICES ASSUME j + 1 <= n PROVE Below(c)[j + 1] = Weight(j + 1) - 1 - Below(a)[j + 1]
    OBVIOUS
  <2>2. j \in 0 .. n - 1 /\ j \in 0 .. n /\ j \in Nat /\ Below(c)[j] = Weight(j) - 1 - Below(a)[j]
    BY <2>1
  <2> DEFINE w == Weight(j)
             B == Base
             x == a[j]
             p == Below(a)[j]
             q == Below(c)[j]
  <2>3. Weight(j + 1) = B * w /\ w \in Nat /\ w >= 1 /\ B \in Nat
    BY <2>2, WeightNext, BaseIs
  <2>4. c[j] = B - 1 - x /\ x \in Nat /\ p \in Nat /\ q \in Nat
    <3>1. x \in Nat
      BY <2>2, WordsAre
    <3>2. p \in Nat
      BY <1>2, <2>2
    <3>3. q \in Nat
      BY <1>3, <2>2
    <3> QED BY <2>2, <3>1, <3>2, <3>3
  <2>5. Below(c)[j + 1] = q + c[j] * w /\ Below(a)[j + 1] = p + x * w
    BY <1>2, <1>3, <2>2
  <2>6. q = w - 1 - p
    BY <2>2
  <2> HIDE DEF w, B, x, p, q
  <2>7. (B - 1 - x) * w = B * w - w - x * w
    BY <2>3, <2>4
  <2> DEFINE xw == x * w
             Bw == B * w
  <2>8. xw \in Nat /\ Bw \in Nat
    BY <2>3, <2>4
  <2>9. Below(c)[j + 1] = q + ((Bw - w) - xw) /\ Below(a)[j + 1] = p + xw /\ Weight(j + 1) = Bw
    BY <2>3, <2>4, <2>5, <2>7
  <2> HIDE DEF xw, Bw
  <2> QED BY <2>3, <2>4, <2>6, <2>8, <2>9
<1>6. T = Nat
  <2> T \subseteq Nat
    OBVIOUS
  <2> HIDE DEF T
  <2> QED BY <1>4, <1>5, SetInduction
<1>7. n \in T
  BY <1>6
<1> QED BY <1>1, <1>2, <1>3, <1>7

\* Bytes in two's complement.
LEMMA DecodeIs ==
  ASSUME NEW n \in Nat, NEW len \in 1 .. n, NEW bytes \in [1 .. len -> Word], Len(bytes) = len,
         NEW b, b = [i \in 0 .. len - 1 |-> bytes[i + 1]]
  PROVE  IntOf(from_bytes_le_signed(bytes, n)) = IF Value(b) >= Weight(len) \div 2 THEN Value(b) - Weight(len) ELSE Value(b)
<1> DEFINE flip == bytes[len] >= Base \div 2
           l == [i \in 0 .. n - 1 |-> IF i >= len THEN 0 ELSE IF flip THEN Base - 1 - bytes[i + 1] ELSE bytes[i + 1]]
           c == [i \in 0 .. len - 1 |-> Base - 1 - b[i]]
           v == Value(b)
           W == Weight(len)
<1>1. from_bytes_le_signed(bytes, n) = IF flip THEN Big(1, mag_add(l, OneLimb(1, n)).limbs) ELSE Big(0, l)
  BY DEF from_bytes_le_signed
<1>2. b \in [0 .. len - 1 -> Word] /\ b[len - 1] = bytes[len] /\ len \in Nat /\ len >= 1
  OBVIOUS
<1>3. flip <=> v >= W \div 2
  <2>1. b[len - 1] >= Base \div 2 <=> Value(b) >= Weight(len) \div 2
    BY <1>2, TopBitIs
  <2> QED BY <1>2, <2>1
<1>4. v \in Nat /\ v < W
  BY <1>2, ValueNat
<1>5. c \in [0 .. len - 1 -> Word] /\ Value(c) = W - 1 - v
  <2> HIDE DEF c, v, W
  <2>1. c = [i \in 0 .. len - 1 |-> Base - 1 - b[i]]
    BY DEF c
  <2>2. c \in [0 .. len - 1 -> Word] /\ Value(c) = Weight(len) - 1 - Value(b)
    BY <1>2, <2>1, FlippedAre
  <2> QED BY <2>2 DEF v, W
<1>6. /\ \A i \in 0 .. len - 1 : l[i] = IF flip THEN c[i] ELSE b[i]
      /\ \A i \in len .. n - 1 : l[i] = 0
      /\ l = [i \in 0 .. n - 1 |-> l[i]]
  OBVIOUS
<1>7. W \in Nat /\ W \div 2 \in Nat /\ W \div 2 > 0 /\ W \div 2 < W
  <2> DEFINE k == len - 1
  <2>1. k \in Nat /\ k + 1 = len
    BY <1>2
  <2> HIDE DEF k
  <2>2. Weight(k + 1) \div 2 \in Nat /\ Weight(k + 1) \div 2 > 0 /\ Weight(k + 1) \div 2 < Weight(k + 1)
    BY <2>1, HalfWeight
  <2>3. W \in Nat
    BY <1>2, WeightIs
  <2> QED BY <2>1, <2>2, <2>3
<1> HIDE DEF l, c, v, W, flip
<1>8. ASSUME NEW d \in [0 .. len - 1 -> Word], \A i \in 0 .. len - 1 : l[i] = d[i]
      PROVE  l \in [0 .. n - 1 -> Word] /\ Value(l) = Value(d)
  <2>1. l \in [0 .. n - 1 -> Word]
    <3>1. 0 \in Word
      BY BaseIs DEF Word
    <3>2. \A i \in 0 .. n - 1 : l[i] \in Word
      <4> TAKE i \in 0 .. n - 1
      <4>1. CASE i \in 0 .. len - 1
        BY <1>8, <4>1
      <4>2. CASE i \in len .. n - 1
        BY <1>6, <3>1, <4>2
      <4> QED BY <1>2, <4>1, <4>2
    <3> QED BY <1>6, <3>2
  <2>2. l \in [0 .. n - 1 -> Int]
    BY <2>1, WordsAre
  <2>3. d \in [0 .. len - 1 -> Int]
    BY WordsAre
  <2>4. Agree(l, d, 0, len)
    BY <1>8 DEF Agree
  <2>5. len \in Nat /\ len <= n /\ len <= len
    OBVIOUS
  <2>6. Below(l)[len] = Below(d)[len]
    <3>1. len <= n /\ len <= len
      OBVIOUS
    <3>2. len \in Nat
      OBVIOUS
    <3>3. AgreeBelow(l, n, d, len, len)
      BY <2>2, <2>3, <2>4, <3>1 DEF AgreeBelow
    <3> QED BY <3>2, <3>3, BelowAgree
  <2>7. Value(d) = Below(d)[len]
    BY <1>2, BelowWords
  <2>8. len \in 0 .. n
    BY <2>5
  <2>9. Value(l) = Below(l)[len]
    BY <1>6, <2>1, <2>8, HighZeros
  <2> QED BY <2>1, <2>6, <2>7, <2>9
<1>9. CASE flip
  <2>1. l \in [0 .. n - 1 -> Word] /\ Value(l) = W - 1 - v
    BY <1>5, <1>6, <1>8, <1>9
  <2>2. OneLimb(1, n) \in [0 .. n - 1 -> Word] /\ Value(OneLimb(1, n)) = 1
    <3>1. n >= 1 /\ 1 \in Word
      BY BaseIs DEF Word
    <3> QED BY <3>1, OneLimbIs
  <2> DEFINE o == OneLimb(1, n)
             s == mag_add(l, o).limbs
             U == Weight(n)
             r == W - v
  <2>3. Value(s) = (Value(l) + Value(o)) % U
    <3> HIDE DEF o
    <3> QED BY <2>1, <2>2, MagAddIs DEF o
  <2>4. U \in Nat /\ W <= U
    BY <1>2, WeightMonotone, WeightIs DEF W
  <2>5. Value(l) + Value(o) = r /\ r \in Nat /\ r < U
    BY <1>3, <1>4, <1>7, <1>9, <2>1, <2>2, <2>4
  <2> HIDE DEF s, U, r, o
  <2>6. r % U = r
    BY <2>4, <2>5, ModSmall
  <2>7. IntOf(Big(1, s)) = - r
    BY <2>3, <2>5, <2>6 DEF IntOf, Big
  <2>8. - r = v - W
    BY <1>4, <1>7 DEF r
  <2> QED BY <1>1, <1>3, <1>9, <2>7, <2>8 DEF s, o, v, W
<1>10. CASE ~ flip
  <2>1. Value(l) = v
    BY <1>2, <1>6, <1>8, <1>10 DEF v
  <2>2. IntOf(Big(0, l)) = v
    BY <2>1 DEF IntOf, Big
  <2> QED BY <1>1, <1>3, <1>10, <2>2 DEF v, W
<1> QED BY <1>9, <1>10

=============================================================================
