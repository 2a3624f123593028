-------------------------- MODULE SignVerifyProofs -------------------------
(***************************************************************************)
(* What TLAPS proves of SignVerify, for every torsion exponent, response   *)
(* length, norm, challenge and basis: the degrees of a response are in     *)
(* range, its signature survives the wire, and verify never shifts by a    *)
(* negative number; and of the points: the kernels that signer and         *)
(* verifier build generate what they should, and verify accepts every      *)
(* signature that sign makes.                                              *)
(***************************************************************************)
EXTENDS SignVerify, TorsionProofs

-----------------------------------------------------------------------------
(* Arithmetic                                                              *)

\* Every positive number is an odd number times a power of two.
LEMMA OddTimesPower ==
  ASSUME NEW n \in Nat, n >= 1
  PROVE  \E k, m \in Nat : m % 2 = 1 /\ n = m * 2^k
<1> DEFINE Splittable(x) == \E k, m \in Nat : m % 2 = 1 /\ x = m * 2^k
           T == {x \in Nat : \A y \in 1 .. x : Splittable(y)}
<1>1. 0 \in T
  OBVIOUS
<1>2. ASSUME NEW x \in T PROVE x + 1 \in T
  <2>1. x \in Nat /\ \A y \in 1 .. x : Splittable(y)
    OBVIOUS
  <2> HIDE DEF T
  <2>2. Splittable(x + 1)
    <3>1. CASE (x + 1) % 2 = 1
      <4>1. x + 1 = (x + 1) * 2^0
        BY <2>1, Pow2Zero
      <4>2. \E k \in Nat : x + 1 = (x + 1) * 2^k
        BY <4>1
      <4>3. x + 1 \in Nat
        BY <2>1
      <4> QED BY <3>1, <4>2, <4>3
    <3>2. CASE (x + 1) % 2 = 0
      <4>1. PICK h \in 1 .. x : x + 1 = 2 * h
        <5>1. x + 1 = 2 * ((x + 1) \div 2)
          BY <2>1, <3>2
        <5>2. (x + 1) \div 2 \in 1 .. x
          BY <2>1, <3>2
        <5> QED BY <5>1, <5>2
      <4>2. PICK k \in Nat, m \in Nat : m % 2 = 1 /\ h = m * 2^k
        BY <2>1, <4>1
      <4>3. 2^(k + 1) = 2 * 2^k /\ 2^k \in Nat
        BY Pow2Succ, Pow2Nat
      <4>4. x + 1 = m * 2^(k + 1)
        <5>1. x + 1 = 2 * (m * 2^k)
          BY <4>1, <4>2
        <5>2. \A u, v \in Nat : 2 * (u * v) = u * (2 * v)
          OBVIOUS
        <5> QED BY <5>1, <5>2, <4>3
      <4> QED BY <4>2, <4>4
    <3> QED BY <2>1, <3>1, <3>2
  <2>3. \A y \in 1 .. x + 1 : y \in 1 .. x \/ y = x + 1
    BY <2>1
  <2> HIDE DEF Splittable
  <2> QED BY <2>1, <2>2, <2>3 DEF T
<1>3. T = Nat
  <2> T \subseteq Nat
    OBVIOUS
  <2> HIDE DEF T
  <2> QED BY <1>1, <1>2, SetInduction
<1>4. n \in T
  BY <1>3
<1>5. \A y \in 1 .. n : Splittable(y)
  BY <1>4
<1>6. n \in 1 .. n
  OBVIOUS
<1> QED BY <1>5, <1>6

\* trailing_zeros splits off exactly the power of two.
LEMMA TwoAdicSplits ==
  ASSUME NEW n \in Nat, n >= 1
  PROVE  /\ TwoAdic(n) \in Nat
         /\ n = (n \div 2^TwoAdic(n)) * 2^TwoAdic(n)
         /\ n \div 2^TwoAdic(n) \in Nat
         /\ (n \div 2^TwoAdic(n)) % 2 = 1
<1>1. PICK k \in Nat, m \in Nat : m % 2 = 1 /\ n = m * 2^k
  BY OddTimesPower
<1>2. 2^k \in Nat /\ 2^k >= 1 /\ k < 2^k
  BY Pow2Positive, BelowPow2
<1>3. n % 2^k = 0 /\ n \div 2^k = m
  <2>1. \A p \in Nat : p > 0 => (m * p) \div p = m /\ (m * p) % p = 0
    BY DivExact
  <2> QED BY <1>1, <1>2, <2>1
<1>4. k \in 0 .. n
  <2>1. m >= 1
    BY <1>1
  <2>2. 1 * 2^k <= m * 2^k
    BY <1>2, <2>1, TimesMonotone
  <2> QED BY <1>1, <1>2, <2>2
<1>5. \E j \in 0 .. n : n % 2^j = 0 /\ (n \div 2^j) % 2 = 1
  BY <1>1, <1>3, <1>4
<1> DEFINE j == TwoAdic(n)
<1>6. j \in 0 .. n /\ n % 2^j = 0 /\ (n \div 2^j) % 2 = 1
  BY <1>5 DEF TwoAdic
<1> HIDE DEF j
<1>7. 2^j \in Nat /\ 2^j >= 1
  BY <1>6, Pow2Positive
<1>8. n = 2^j * (n \div 2^j) + (n % 2^j) /\ n \div 2^j \in Nat
  BY <1>7, DivRem
<1>9. n = (n \div 2^j) * 2^j
  BY <1>6, <1>7, <1>8
<1> QED BY <1>6, <1>8, <1>9 DEF j

-----------------------------------------------------------------------------
(* A sample within the radius leaves room for the response                 *)

\* If p^2 times a norm is within (e - 1) L, and L is at most p, then p is at most e.
LEMMA PowerBelowRadius ==
  ASSUME NEW p \in Nat, NEW n \in Nat, NEW e \in Nat, NEW L \in Nat,
         p >= 1, n >= 1, e >= 1, L <= p, (p * p) * n <= (e - 1) * L
  PROVE  p <= e
<1>1. p * p \in Nat /\ p * e \in Nat /\ (e - 1) * L \in Nat
  OBVIOUS
<1>2. p * p <= (p * p) * n
  BY <1>1, TimesMonotone, TimesAssociates
<1>3. (e - 1) * L <= e * p
  <2>1. e - 1 \in Nat /\ e - 1 <= e
    OBVIOUS
  <2>2. (e - 1) * L <= e * L
    BY <2>1, TimesMonotone
  <2>3. L * e <= p * e
    BY TimesMonotone
  <2> QED BY <1>1, <2>2, <2>3, TimesAssociates
<1>4. p * p <= e * p
  BY <1>1, <1>2, <1>3
<1> QED BY <1>4, Cancel

\* The same when L is below (g + 1) p for a factor g of the norm: p is at most 2e.
LEMMA PowerBelowTwiceRadius ==
  ASSUME NEW p \in Nat, NEW g \in Nat, NEW m \in Nat, NEW e \in Nat, NEW L \in Nat,
         p >= 1, g >= 1, m >= 1, e >= 1, L <= (g + 1) * p, (p * p) * (g * m) <= (e - 1) * L
  PROVE  p <= 2 * e
<1>1. p * p \in Nat /\ g * m \in Nat /\ g * p \in Nat
  OBVIOUS
<1>2. (p * p) * g <= (p * p) * (g * m)
  <2>1. 1 * g <= m * g
    BY TimesMonotone
  <2>2. g * (p * p) <= (g * m) * (p * p)
    BY <1>1, <2>1, TimesMonotone, TimesAssociates
  <2> QED BY <1>1, <2>2, TimesAssociates
<1>3. (e - 1) * L <= (2 * e) * (g * p)
  <2>1. e - 1 \in Nat /\ e - 1 <= e
    OBVIOUS
  <2>2. (e - 1) * L <= e * L
    BY <2>1, TimesMonotone
  <2>3. (g + 1) * p <= (2 * g) * p
    BY TimesMonotone
  <2>4. (2 * g) * p = 2 * (g * p)
    OBVIOUS
  <2>5. L <= 2 * (g * p)
    BY <1>1, <2>3, <2>4
  <2>6. 2 * (g * p) \in Nat
    BY <1>1
  <2>7. L * e <= (2 * (g * p)) * e
    BY <2>5, <2>6, TimesMonotone
  <2>8. (2 * (g * p)) * e = (2 * e) * (g * p)
    <3>1. \A x \in Nat : (2 * x) * e = (2 * e) * x
      OBVIOUS
    <3> QED BY <1>1, <3>1
  <2>9. L * e = e * L /\ e * L \in Nat /\ (e - 1) * L \in Nat
    BY <2>1, TimesAssociates
  <2> QED BY <1>1, <2>2, <2>7, <2>8, <2>9
<1>4. (p * p) * g <= (2 * e) * (g * p)
  BY <1>1, <1>2, <1>3
<1>5. (p * p) * g = p * (g * p) /\ g * p > 0
  <2>1. (p * p) * g = p * (p * g) /\ p * g = g * p
    BY TimesAssociates
  <2>2. 1 * p <= g * p
    BY TimesMonotone
  <2> QED BY <2>1, <2>2
<1>6. p * (g * p) <= (2 * e) * (g * p)
  BY <1>4, <1>5
<1> QED BY <1>1, <1>5, <1>6, Cancel

\* With L = g p, the degree m p that is left stays below the radius e.
LEMMA DegreeBelowRadius ==
  ASSUME NEW p \in Nat, NEW g \in Nat, NEW m \in Nat, NEW e \in Nat,
         p >= 1, g >= 1, e >= 1, (p * p) * (g * m) <= (e - 1) * (g * p)
  PROVE  m * p <= e - 1
<1>1. p * p \in Nat /\ g * m \in Nat /\ g * p \in Nat /\ m * p \in Nat
  OBVIOUS
<1>2. (p * p) * (g * m) = (m * p) * (g * p)
  <2>1. (p * p) * (g * m) = p * (p * (g * m))
    BY <1>1, TimesAssociates
  <2>2. p * (g * m) = (p * g) * m /\ p * g = g * p
    BY TimesAssociates
  <2>3. p * ((g * p) * m) = (p * m) * (g * p)
    <3>1. (g * p) * m = m * (g * p)
      BY <1>1, TimesAssociates
    <3>2. p * (m * (g * p)) = (p * m) * (g * p)
      BY <1>1, TimesAssociates
    <3> QED BY <3>1, <3>2
  <2>4. p * m = m * p
    BY TimesAssociates
  <2> QED BY <2>1, <2>2, <2>3, <2>4
<1>3. g * p > 0
  <2>1. 1 * p <= g * p
    BY TimesMonotone
  <2> QED BY <2>1
<1>4. e - 1 \in Nat
  OBVIOUS
<1>5. (m * p) * (g * p) <= (e - 1) * (g * p)
  BY <1>2
<1> QED BY <1>1, <1>3, <1>4, <1>5, Cancel

\* What backtracking and the divisibility check leave of a sample: the
\* content is not zero, and degree and backtracking share E bits.
LEMMA SampleLeavesRoom ==
  ASSUME NEW M \in Nat, M >= 1, NEW c \in Nat, c >= 1, NEW n \in Nat, n >= 1,
         (c * c) * n <= Radius(M)
  PROVE  LET k == TwoAdic(c)
             content == LatticeContent(M) \div 2^k
         IN  /\ k \in Nat /\ content # 0
             /\ n % content = 0 => /\ n \div content \in Nat /\ n \div content >= 1
                                  /\ (n \div content) * 2^k <= 2^E - 1
<1> DEFINE k == TwoAdic(c)
           L == LatticeContent(M)
           g == L \div 2^k
           p == 2^k
           e == 2^E
<1>1. k \in Nat /\ p \in Nat /\ p >= 1
  BY TwoAdicSplits, Pow2Positive
<1>2. E \in Nat /\ F \in Nat /\ E + 1 \in Nat /\ E + 1 <= F
  BY SigningAssumption, FAssumption
<1>3. e \in Nat /\ e >= 1 /\ 2^F \in Nat /\ 2^F >= 1 /\ 2 * e <= 2^F
  <2>1. 2^(E + 1) = 2 * 2^E /\ 2^(E + 1) <= 2^F
    BY <1>2, Pow2Succ, Pow2Monotone
  <2> QED BY <1>2, <2>1, Pow2Positive
<1>4. L \in Nat /\ L >= 2^F
  <2>1. 1 * 2^F <= M * 2^F /\ M * 2^F = 2^F * M /\ 2^F * M \in Nat
    BY <1>3, TimesMonotone, TimesAssociates
  <2> QED BY <1>3, <2>1 DEF LatticeContent
<1>5. (p * p) * n <= (e - 1) * L
  <2>1. PICK m \in Nat : c = m * p /\ m >= 1
    <3>1. c = (c \div p) * p /\ c \div p \in Nat
      BY TwoAdicSplits
    <3>2. c \div p >= 1
      BY <1>1, <3>1
    <3> QED BY <3>1, <3>2
  <2>2. p <= c
    <3>1. 1 * p <= m * p
      BY <1>1, <2>1, TimesMonotone
    <3> QED BY <1>1, <2>1, <3>1
  <2>3. p * p <= c * c
    <3>1. p * p <= c * p /\ p * c <= c * c
      BY <1>1, <2>2, TimesMonotone
    <3>2. c * p = p * c /\ p * p \in Nat /\ c * c \in Nat /\ c * p \in Nat
      BY <1>1, TimesAssociates
    <3> QED BY <3>1, <3>2
  <2>4. p * p \in Nat /\ c * c \in Nat
    BY <1>1, TimesAssociates
  <2>5. (p * p) * n <= (c * c) * n
    BY <2>3, <2>4, TimesMonotone
  <2>6. (p * p) * n \in Nat /\ (c * c) * n \in Nat
    BY <2>4, TimesAssociates
  <2>7. (c * c) * n <= (e - 1) * L
    BY DEF Radius
  <2>8. (e - 1) * L \in Nat
    <3>1. e - 1 \in Nat
      BY <1>3
    <3> QED BY <1>4, <3>1, TimesAssociates
  <2> QED BY <2>5, <2>6, <2>7, <2>8
<1> HIDE DEF L, p, e, k
<1>6. L = p * g + (L % p) /\ g \in Nat /\ L % p \in 0 .. p - 1
  <2>1. g = L \div p
    BY DEF p
  <2> HIDE DEF g
  <2> QED BY <1>1, <1>4, <2>1, DivRem
<1> HIDE DEF g
<1>7. g >= 1
  <2> SUFFICES ASSUME g = 0 PROVE FALSE
    BY <1>6
  <2>1. L <= p
    BY <1>1, <1>4, <1>6
  <2>2. p <= e
    BY <1>1, <1>3, <1>4, <1>5, <2>1, PowerBelowRadius
  <2> QED BY <1>1, <1>3, <1>4, <2>1, <2>2
<1>8. ASSUME n % g = 0
      PROVE  n \div g \in Nat /\ n \div g >= 1 /\ (n \div g) * p <= e - 1
  <2> DEFINE m == n \div g
  <2>1. n = g * m + (n % g) /\ m \in Nat
    BY <1>6, <1>7, DivRem
  <2> HIDE DEF m
  <2>2. n = g * m /\ m >= 1
    BY <1>6, <1>7, <1>8, <2>1
  <2>3. (p * p) * (g * m) <= (e - 1) * L
    BY <1>5, <2>2
  <2>4. CASE k > F
    <3>1. L <= (g + 1) * p
      BY <1>1, <1>4, <1>6
    <3>2. p <= 2 * e
      BY <1>1, <1>3, <1>4, <1>6, <1>7, <2>1, <2>2, <2>3, <3>1, PowerBelowTwiceRadius
    <3>3. 2 * 2^F <= p
      <4>1. F + 1 \in Nat /\ F + 1 <= k /\ 2^(F + 1) = 2 * 2^F
        BY <1>1, <1>2, <2>4, Pow2Succ
      <4> QED BY <1>1, <4>1, Pow2Monotone DEF p
    <3> QED BY <1>1, <1>3, <3>2, <3>3
  <2>5. CASE k <= F
    <3>1. F - k \in Nat /\ k + (F - k) = F
      BY <1>1, <1>2, <2>5
    <3>2. 2^F = p * 2^(F - k) /\ 2^(F - k) \in Nat
      <4>1. 2^(k + (F - k)) = 2^k * 2^(F - k) /\ 2^(F - k) \in Nat
        BY <1>1, <3>1, Pow2Add, Pow2Nat
      <4>2. 2^F = 2^k * 2^(F - k)
        BY <3>1, <4>1
      <4> QED BY <4>1, <4>2 DEF p
    <3>3. L = (2^(F - k) * M) * p /\ 2^(F - k) * M \in Nat
      <4> DEFINE w == 2^(F - k)
      <4> HIDE DEF w
      <4>1. w \in Nat /\ 2^F = p * w
        BY <3>2 DEF w
      <4>2. (p * w) * M = (w * M) * p /\ w * M \in Nat
        BY <1>1, <4>1, TimesAssociates
      <4> QED BY <4>1, <4>2 DEF w, L, LatticeContent
    <3>4. L = g * p
      <4>1. L \div p = 2^(F - k) * M
        BY <1>1, <3>3, DivExact
      <4> QED BY <3>3, <4>1 DEF g, p
    <3>5. (p * p) * (g * m) <= (e - 1) * (g * p)
      BY <2>3, <3>4
    <3>6. m * p <= e - 1
      BY <1>1, <1>3, <1>6, <1>7, <2>1, <3>5, DegreeBelowRadius
    <3> QED BY <2>1, <2>2, <3>6 DEF m
  <2> QED BY <1>1, <1>2, <2>4, <2>5
<1> QED BY <1>1, <1>7, <1>8 DEF g, L, p, e, k

-----------------------------------------------------------------------------
(* Points, bases and matrices                                              *)

\* from_propagated makes a basis of three points.
LEMMA MapType ==
  ASSUME NEW p \in Point, NEW s \in Point, NEW t \in Point
  PROVE  FromPropagated(p, s, t) \in Basis
BY DEF FromPropagated, Basis

\* The commitment and public bases are bases.
LEMMA ComBasisType == ComBasis \in Basis /\ PkBasis \in Basis
<1>1. Sub(<<1, 0>>, <<0, 1>>) \in Point
  BY ConstantPoints, CombineType DEF Sub
<1> QED BY <1>1, ConstantPoints, MapType DEF ComBasis, PkBasis

\* Doubling a basis leaves a basis.
LEMMA DoubleBasisType ==
  ASSUME NEW n \in Nat, NEW b \in Basis
  PROVE  DoubleBasis(n, b) \in Basis
<1>1. b.P \in Point /\ b.PmQ \in Point /\ b.Q \in Point
  BY DEF Basis
<1>2. \A p \in Point : DoubleN(n, p) \in Point
  BY Pow2Nat, TimesType DEF DoubleN
<1> QED BY <1>1, <1>2, MapType DEF DoubleBasis, MapBasis

\* biscalar_mul returns a point, whatever the scalars.
LEMMA BiscalarType ==
  ASSUME NEW b \in Basis, NEW m \in Int, NEW n \in Int, NEW e \in Nat
  PROVE  BiscalarMul(b, m, n, e) \in Point
<1>1. b.P \in Point /\ b.PmQ \in Point
  BY DEF Basis
<1>2. 2^e \in Nat /\ 2^e >= 1
  BY Pow2Positive
<1>3. m % 2^e \in Int /\ n % 2^e \in Int
  BY <1>2
<1> QED BY <1>1, <1>3, CombineType DEF BiscalarMul

\* Every odd number has an inverse modulo every power of two.
LEMMA OddInvertible ==
  ASSUME NEW a \in Nat, a % 2 = 1, NEW k \in Nat
  PROVE  InvMod2k(a, k) \in 0 .. 2^k - 1 /\ (a * InvMod2k(a, k)) % 2^k = 1 % 2^k
<1> DEFINE Inverse2(n) == \E x \in 0 .. 2^n - 1, t \in Int : a * x = 1 + t * 2^n
           T == {n \in Nat : n >= 1 => Inverse2(n)}
<1>1. 0 \in T
  OBVIOUS
<1>2. ASSUME NEW n \in T PROVE n + 1 \in T
  <2>1. n \in Nat /\ 2^(n + 1) = 2 * 2^n /\ 2^n \in Nat /\ 2^n >= 1
    BY Pow2Positive, Pow2Succ
  <2>2. CASE n = 0
    <3>1. 2^(n + 1) = 2
      BY <2>1, <2>2, Pow2Zero
    <3>2. PICK h \in Nat : a = 1 + h * 2
      <4>1. a = 1 + (a \div 2) * 2 /\ a \div 2 \in Nat
        OBVIOUS
      <4> QED BY <4>1
    <3>3. 1 \in 0 .. 2^(n + 1) - 1 /\ a * 1 = 1 + h * 2^(n + 1)
      BY <3>1, <3>2
    <3>4. Inverse2(n + 1)
      <4> DEFINE w == 2^(n + 1)
      <4>1. 1 \in 0 .. w - 1 /\ a * 1 = 1 + h * w /\ h \in Int
        BY <3>2, <3>3
      <4> HIDE DEF w
      <4>2. \E x \in 0 .. w - 1, t \in Int : a * x = 1 + t * w
        BY <4>1
      <4> QED BY <4>2 DEF w
    <3> HIDE DEF Inverse2
    <3> QED BY <2>1, <3>4
  <2>3. CASE n >= 1
    <3> DEFINE w == 2^n
    <3>1. PICK x \in 0 .. w - 1, t \in Int : a * x = 1 + t * w
      BY <2>3
    <3>2. 2^(n + 1) = 2 * w /\ w \in Nat /\ w >= 1
      BY <2>1
    <3> HIDE DEF w
    <3>3. \E y \in 0 .. 2 * w - 1, u \in Int : a * y = 1 + u * (2 * w)
      <4>1. CASE t % 2 = 0
        <5>1. PICK u \in Int : t = 2 * u
          <6>1. t = 2 * (t \div 2) /\ t \div 2 \in Int
            BY <4>1
          <6> QED BY <6>1
        <5>2. a * x = 1 + u * (2 * w)
          <6>1. \A y \in Int, z \in Nat : (2 * y) * z = y * (2 * z)
            OBVIOUS
          <6> QED BY <3>1, <3>2, <5>1, <6>1
        <5>3. x \in 0 .. 2 * w - 1
          BY <3>1, <3>2
        <5> QED BY <5>2, <5>3
      <4>2. CASE t % 2 = 1
        <5>1. PICK u \in Int : t + a = 2 * u
          <6>1. t + a = 2 * ((t + a) \div 2) /\ (t + a) \div 2 \in Int
            BY <4>2
          <6> QED BY <6>1
        <5>2. a * (x + w) = a * x + a * w
          BY <3>1, <3>2
        <5>3. (t + a) * w = t * w + a * w
          BY <3>1, <3>2
        <5>4. (2 * u) * w = u * (2 * w)
          BY <3>2
        <5>5. a * w \in Nat /\ t * w \in Int /\ a * x \in Nat
          BY <3>1, <3>2
        <5>6. a * (x + w) = 1 + u * (2 * w)
          <6>1. a * (x + w) = 1 + (t * w + a * w)
            BY <3>1, <5>2, <5>5
          <6>2. t * w + a * w = u * (2 * w)
            BY <5>1, <5>3, <5>4
          <6> QED BY <6>1, <6>2
        <5>7. x + w \in 0 .. 2 * w - 1
          BY <3>1, <3>2
        <5> QED BY <5>6, <5>7
      <4> QED BY <3>1, <4>1, <4>2
    <3>4. Inverse2(n + 1)
      BY <3>2, <3>3
    <3> HIDE DEF Inverse2
    <3> QED BY <2>1, <3>4
  <2> QED BY <2>1, <2>2, <2>3
<1>3. T = Nat
  <2> T \subseteq Nat
    OBVIOUS
  <2> HIDE DEF T
  <2> QED BY <1>1, <1>2, SetInduction
<1>4. \E x \in 0 .. 2^k - 1 : (a * x) % 2^k = 1 % 2^k
  <2>1. CASE k = 0
    <3>1. 2^k = 1
      BY <2>1, Pow2Zero
    <3>2. 0 \in 0 .. 2^k - 1 /\ (a * 0) % 2^k = 1 % 2^k
      BY <3>1
    <3> QED BY <3>2
  <2>2. CASE k >= 1
    <3> DEFINE w == 2^k
    <3>1. w \in Nat /\ w >= 1
      BY Pow2Positive
    <3>2. PICK x \in 0 .. w - 1, t \in Int : a * x = 1 + t * w
      BY <1>3, <2>2
    <3> HIDE DEF w
    <3>3. (1 + t * w) % w = 1 % w
      BY <3>1, <3>2, ModShift
    <3> QED BY <3>2, <3>3 DEF w
  <2> QED BY <2>1, <2>2
<1> QED BY <1>4 DEF InvMod2k

\* A basis on a curve, as to_hint and from_hint find it.
FullBasis(b) == b \in Basis /\ Det(Columns(b.P, b.PmQ), F) % 2 = 1

IntMatrix == [1 .. 2 -> [1 .. 2 -> Int]]

\* Two rows of two entries make a matrix over their set.
LEMMA RowsType ==
  ASSUME NEW S, NEW a \in S, NEW b \in S, NEW c \in S, NEW z \in S
  PROVE  << <<a, b>>, <<c, z>> >> \in [1 .. 2 -> [1 .. 2 -> S]]
<1>1. \A u, v \in S : <<u, v>> \in [1 .. 2 -> S]
  OBVIOUS
<1> DEFINE R == [1 .. 2 -> S]
<1>2. <<a, b>> \in R /\ <<c, z>> \in R
  BY <1>1
<1> HIDE DEF R
<1>3. << <<a, b>>, <<c, z>> >> \in [1 .. 2 -> R]
  BY <1>2
<1> QED BY <1>3 DEF R

\* A determinant modulo 2^k is a natural number, odd modulo every smaller power if it is odd.
LEMMA DetType ==
  ASSUME NEW m \in IntMatrix, NEW k \in Nat
  PROVE  /\ Det(m, k) \in Nat
         /\ \A j \in Nat : j >= 1 /\ j <= k /\ Det(m, k) % 2 = 1 => Det(m, j) % 2 = 1
<1>1. m[1][1] \in Int /\ m[1][2] \in Int /\ m[2][1] \in Int /\ m[2][2] \in Int
  BY DEF IntMatrix
<1> DEFINE x == m[1][1] * m[2][2] - m[1][2] * m[2][1]
<1>2. x \in Int
  BY <1>1
<1> HIDE DEF x
<1>3. ASSUME NEW j \in Nat
      PROVE  x % 2^j \in Nat /\ (j >= 1 => (x % 2^j) % 2 = x % 2)
  <2>1. 2^j \in Nat /\ 2^j >= 1
    BY Pow2Positive
  <2> DEFINE w == 2^j
             t == x \div w
             l == x % w
  <2>2. x = w * t + l /\ t \in Int /\ l \in 0 .. w - 1
    <3> HIDE DEF w
    <3>1. w \in Nat /\ w >= 1
      BY <2>1 DEF w
    <3> QED BY <1>2, <3>1
  <2>3. ASSUME j >= 1 PROVE l % 2 = x % 2
    <3>1. j - 1 \in Nat /\ (j - 1) + 1 = j
      BY <2>3
    <3>2. 2^((j - 1) + 1) = 2 * 2^(j - 1) /\ 2^(j - 1) \in Nat
      BY <3>1, Pow2Succ, Pow2Nat
    <3> DEFINE h == 2^(j - 1)
    <3>3. w = 2 * h /\ h \in Nat
      BY <3>1, <3>2
    <3> HIDE DEF w, t, l, h
    <3>4. (2 * h) * t = (h * t) * 2 /\ h * t \in Int
      BY <2>2, <3>3
    <3>5. x = l + (h * t) * 2
      BY <2>2, <3>3, <3>4
    <3>6. (l + (h * t) * 2) % 2 = l % 2
      <4>1. l \in Int
        BY <2>1, <2>2 DEF w
      <4> DEFINE y == h * t
      <4>2. y \in Int
        BY <3>4
      <4> HIDE DEF y
      <4>3. (l + y * 2) % 2 = l % 2
        BY <4>1, <4>2
      <4> QED BY <4>3 DEF y
    <3> QED BY <3>5, <3>6
  <2> QED BY <2>1, <2>2, <2>3
<1> QED BY <1>3 DEF Det, x

\* The inverse of a matrix of odd determinant has its entries below 2^k.
LEMMA InvertType ==
  ASSUME NEW m \in IntMatrix, NEW k \in Nat, Det(m, k) % 2 = 1
  PROVE  Invert(m, k) \in Matrix(k)
<1>1. m[1][1] \in Int /\ m[1][2] \in Int /\ m[2][1] \in Int /\ m[2][2] \in Int
  BY DEF IntMatrix
<1> DEFINE inv == InvMod2k(Det(m, k), k)
           w == 2^k
<1>2. w \in Nat /\ w >= 1
  BY Pow2Positive
<1>3. inv \in Int
  <2>1. inv \in 0 .. 2^k - 1
    BY DetType, OddInvertible
  <2> QED BY <1>2, <2>1
<1> HIDE DEF inv, w
<1>4. \A x \in Int : x % w \in 0 .. w - 1
  BY <1>2
<1>5. m[2][2] * inv \in Int /\ -m[1][2] * inv \in Int /\ -m[2][1] * inv \in Int /\ m[1][1] * inv \in Int
  BY <1>1, <1>3
<1>6. /\ (m[2][2] * inv) % w \in 0 .. w - 1 /\ (-m[1][2] * inv) % w \in 0 .. w - 1
      /\ (-m[2][1] * inv) % w \in 0 .. w - 1 /\ (m[1][1] * inv) % w \in 0 .. w - 1
  BY <1>4, <1>5
<1>7. << <<(m[2][2] * inv) % w, (-m[1][2] * inv) % w>>,
         <<(-m[2][1] * inv) % w, (m[1][1] * inv) % w>> >> \in [1 .. 2 -> [1 .. 2 -> 0 .. w - 1]]
  BY <1>6, RowsType
<1> QED BY <1>7 DEF Invert, Matrix, inv, w

\* A matrix modulo 2^k applied to two numbers gives two numbers below 2^k.
LEMMA ApplyType ==
  ASSUME NEW m \in IntMatrix, NEW x \in Int, NEW y \in Int, NEW k \in Nat
  PROVE  /\ Apply(m, <<x, y>>, k)[1] \in 0 .. 2^k - 1
         /\ Apply(m, <<x, y>>, k)[2] \in 0 .. 2^k - 1
<1>1. m[1][1] \in Int /\ m[1][2] \in Int /\ m[2][1] \in Int /\ m[2][2] \in Int
  BY DEF IntMatrix
<1> DEFINE w == 2^k
<1>2. w \in Nat /\ w >= 1
  BY Pow2Positive
<1> HIDE DEF w
<1>3. \A z \in Int : z % w \in 0 .. w - 1
  BY <1>2
<1>4. m[1][1] * x + m[1][2] * y \in Int /\ m[2][1] * x + m[2][2] * y \in Int
  BY <1>1
<1>5. /\ (m[1][1] * x + m[1][2] * y) % w \in 0 .. w - 1
      /\ (m[2][1] * x + m[2][2] * y) % w \in 0 .. w - 1
  BY <1>3, <1>4
<1> QED BY <1>5 DEF Apply, w

\* The coordinates of two points make an integer matrix.
LEMMA ColumnsType ==
  ASSUME NEW p \in Point, NEW s \in Point
  PROVE  Columns(p, s) \in IntMatrix
<1>1. p[1] \in Int /\ p[2] \in Int /\ s[1] \in Int /\ s[2] \in Int
  BY PowF DEF Point
<1> QED BY <1>1, RowsType DEF Columns, IntMatrix

\* A matrix modulo 2^k is an integer matrix.
LEMMA MatrixIsInt ==
  ASSUME NEW k \in Nat, NEW m \in Matrix(k)
  PROVE  m \in IntMatrix
<1>1. 2^k \in Nat
  BY Pow2Nat
<1>2. 0 .. 2^k - 1 \subseteq Int
  BY <1>1
<1> QED BY <1>2 DEF Matrix, IntMatrix

\* The change of basis is a matrix of e-bit numbers.
LEMMA FromBasesType ==
  ASSUME NEW canonical, FullBasis(canonical), NEW b \in Basis,
         NEW e \in Nat, e >= 1, e <= F
  PROVE  /\ FromBases(canonical, b, e) \in Matrix(e)
         /\ FromBasesInvert(canonical, b, e) \in Matrix(e) \cup {NoMatrix}
<1> DEFINE c == Columns(canonical.P, canonical.PmQ)
           h == 2^(F - e)
           down(p) == <<p[1] \div h, p[2] \div h>>
           toCoords == Invert(c, e)
           f == FromBases(canonical, b, e)
<1>1. b.P \in Point /\ b.PmQ \in Point /\ canonical.P \in Point /\ canonical.PmQ \in Point
  BY DEF Basis, FullBasis
<1>2. c \in IntMatrix
  BY <1>1, ColumnsType
<1>3. Det(c, e) % 2 = 1
  BY <1>2, PowF, DetType DEF FullBasis
<1>4. toCoords \in IntMatrix
  BY <1>2, <1>3, InvertType, MatrixIsInt
<1>5. h \in Nat /\ h >= 1
  <2>1. F - e \in Nat
    BY PowF
  <2> QED BY <2>1, Pow2Positive
<1>6. \A p \in Point : p[1] \div h \in Int /\ p[2] \div h \in Int
  <2> HIDE DEF h
  <2> QED BY <1>5, PowF DEF Point
<1>7. \A p \in Point : /\ Apply(toCoords, down(p), e)[1] \in 0 .. 2^e - 1
                       /\ Apply(toCoords, down(p), e)[2] \in 0 .. 2^e - 1
  <2> TAKE p \in Point
  <2> DEFINE x == p[1] \div h
             y == p[2] \div h
  <2>1. x \in Int /\ y \in Int
    BY <1>6
  <2> HIDE DEF x, y, toCoords
  <2>2. /\ Apply(toCoords, <<x, y>>, e)[1] \in 0 .. 2^e - 1
        /\ Apply(toCoords, <<x, y>>, e)[2] \in 0 .. 2^e - 1
    BY <1>4, <2>1, ApplyType
  <2> QED BY <2>2 DEF x, y
<1>8. f = Columns(Apply(toCoords, down(b.P), e), Apply(toCoords, down(b.PmQ), e))
  BY DEF FromBases
<1>9. f \in Matrix(e)
  <2> DEFINE u == Apply(toCoords, down(b.P), e)
             v == Apply(toCoords, down(b.PmQ), e)
  <2>1. /\ u[1] \in 0 .. 2^e - 1 /\ u[2] \in 0 .. 2^e - 1
        /\ v[1] \in 0 .. 2^e - 1 /\ v[2] \in 0 .. 2^e - 1
    BY <1>1, <1>7
  <2>2. f = Columns(u, v)
    BY <1>8
  <2> HIDE DEF u, v, f
  <2> QED BY <2>1, <2>2, RowsType DEF Columns, Matrix
<1>10. FromBasesInvert(canonical, b, e) \in Matrix(e) \cup {NoMatrix}
  <2>1. f \in IntMatrix
    BY <1>9, MatrixIsInt
  <2>2. FromBasesInvert(canonical, b, e) = IF Det(f, e) % 2 = 0 THEN NoMatrix ELSE Invert(f, e)
    BY DEF FromBasesInvert
  <2> HIDE DEF f
  <2>3. Det(f, e) % 2 # 0 => Det(f, e) % 2 = 1
    BY <2>1, DetType
  <2> QED BY <2>1, <2>2, <2>3, InvertType
<1> QED BY <1>9, <1>10

\* ChangeOfBasis::mul makes a basis of a basis.
LEMMA MulBasisType ==
  ASSUME NEW m \in IntMatrix, NEW b \in Basis, NEW e \in Nat
  PROVE  MulBasis(m, e, b) \in Basis
<1>1. m[1][1] \in Int /\ m[1][2] \in Int /\ m[2][1] \in Int /\ m[2][2] \in Int
  BY DEF IntMatrix
<1>2. m[1][1] - m[1][2] \in Int /\ m[2][1] - m[2][2] \in Int
  BY <1>1
<1> QED BY <1>1, <1>2, BiscalarType, MapType DEF MulBasis

\* A point of order 2^n, n > 0, is an odd multiple of a generator's
\* 2^(F-n) in one coordinate at least.
LEMMA DirectionIsOdd ==
  ASSUME NEW k \in Point, NEW n \in Nat, n >= 1, OfOrder(k, n)
  PROVE  /\ n <= F
         /\ Direction(k, n)[1] \in Nat /\ Direction(k, n)[2] \in Nat
         /\ Direction(k, n)[1] % 2 # 1 => Direction(k, n)[2] % 2 = 1
<1> DEFINE h == 2^(F - n)
           w == 2^(n - 1)
           p == 2^F
<1>1. n <= F /\ F - n \in Nat /\ n - 1 \in Nat /\ F \in Nat
  BY PowF DEF OfOrder
<1>2. h \in Nat /\ h >= 1 /\ w \in Nat /\ w >= 1 /\ p \in Nat /\ p >= 1
  BY <1>1, Pow2Positive
<1>3. 2^n = 2 * w
  <2>1. (n - 1) + 1 = n /\ 2^((n - 1) + 1) = 2 * 2^(n - 1)
    BY <1>1, Pow2Succ
  <2> QED BY <2>1
<1>4. p = (2 * w) * h
  <2>1. n + (F - n) = F /\ 2^(n + (F - n)) = 2^n * 2^(F - n)
    BY <1>1, Pow2Add
  <2>2. 2^F = 2^n * 2^(F - n)
    BY <2>1
  <2> QED BY <1>3, <2>2
<1>5. k[1] \in Nat /\ k[2] \in Nat
  BY PowF DEF Point
<1>6. \A m \in Nat : DoubleN(m, k) = <<(2^m * k[1]) % p, (2^m * k[2]) % p>>
  <2> TAKE m \in Nat
  <2>1. 2^m \in Nat
    BY Pow2Nat
  <2>2. 2^m * k[1] + 0 * 0 = 2^m * k[1] /\ 2^m * k[2] + 0 * 0 = 2^m * k[2]
    BY <1>5, <2>1
  <2> QED BY <2>2 DEF DoubleN, Times, Combine, O
<1>7. /\ (2^n * k[1]) % p = 0 /\ (2^n * k[2]) % p = 0
      /\ (w * k[1]) % p # 0 \/ (w * k[2]) % p # 0
  <2>1. DoubleN(n, k) = O /\ DoubleN(n - 1, k) # O
    BY DEF OfOrder
  <2>2. DoubleN(n, k) = <<(2^n * k[1]) % p, (2^n * k[2]) % p>>
    BY <1>6
  <2>3. DoubleN(n - 1, k) = <<(w * k[1]) % p, (w * k[2]) % p>>
    BY <1>1, <1>6
  <2> HIDE DEF p, w
  <2>4. <<(2^n * k[1]) % p, (2^n * k[2]) % p>> = <<0, 0>>
    BY <2>1, <2>2 DEF O
  <2>5. <<(w * k[1]) % p, (w * k[2]) % p>> # <<0, 0>>
    BY <2>1, <2>3 DEF O
  <2> QED BY <2>4, <2>5
<1> HIDE DEF h, w, p
<1>8. \A x \in Nat : x \div h \in Nat
  BY <1>2
\* An even quotient dies one doubling early.
<1>9. ASSUME NEW x \in Nat, (2^n * x) % p = 0, (x \div h) % 2 # 1
      PROVE  (w * x) % p = 0
  <2>1. PICK t \in Nat : (2 * w) * x = p * t
    <3>1. (2 * w) * x \in Nat
      BY <1>2
    <3> DEFINE y == (2 * w) * x
    <3>2. y % p = 0 /\ y \in Nat
      BY <1>3, <1>9, <3>1
    <3> HIDE DEF y
    <3>3. y = p * (y \div p) /\ y \div p \in Nat
      BY <1>2, <3>2, DivRem
    <3> QED BY <3>3 DEF y
  <2>2. x * (2 * w) = (t * h) * (2 * w)
    <3> DEFINE u == 2 * w
    <3>1. u \in Nat /\ u * x = (u * h) * t
      BY <1>2, <1>4, <2>1
    <3> HIDE DEF u
    <3>2. (u * h) * t = (t * h) * u /\ u * x = x * u
      <4>1. (u * h) * t = u * (h * t) /\ h * t = t * h /\ h * t \in Nat
        BY <1>2, <3>1, TimesAssociates
      <4>2. u * (t * h) = (t * h) * u
        BY <3>1, <4>1, TimesAssociates
      <4> QED BY <3>1, <4>1, <4>2, TimesAssociates
    <3> QED BY <3>1, <3>2 DEF u
  <2>3. x = t * h
    <3>1. t * h \in Nat /\ 2 * w \in Nat /\ 2 * w > 0
      BY <1>2
    <3>2. x <= t * h /\ t * h <= x
      BY <2>2, <3>1, Cancel
    <3> QED BY <3>1, <3>2
  <2>4. x \div h = t
    BY <1>2, <2>3, DivExact
  <2>5. PICK s \in Nat : t = 2 * s
    <3>1. t % 2 = 0
      BY <1>9, <2>4
    <3>2. t = 2 * (t \div 2) /\ t \div 2 \in Nat
      BY <3>1
    <3> QED BY <3>2
  <2>6. w * x = s * p
    <3>1. x = (2 * s) * h
      BY <2>3, <2>5
    <3>2. (2 * s) * h = 2 * (s * h) /\ s * h \in Nat
      BY <1>2
    <3>3. w * (2 * (s * h)) = (2 * w) * (s * h)
      <4> DEFINE z == s * h
      <4>1. z \in Nat
        BY <3>2
      <4> HIDE DEF z
      <4>2. w * (2 * z) = (2 * w) * z
        BY <1>2, <4>1
      <4> QED BY <4>2 DEF z
    <3>4. (2 * w) * (s * h) = s * ((2 * w) * h)
      <4> DEFINE u == 2 * w
      <4>1. u \in Nat
        BY <1>2
      <4> HIDE DEF u
      <4>2. u * (s * h) = (u * s) * h /\ u * s = s * u /\ (s * u) * h = s * (u * h)
        BY <1>2, <4>1, TimesAssociates
      <4> QED BY <4>2 DEF u
    <3> QED BY <1>4, <3>1, <3>2, <3>3, <3>4
  <2>7. (s * p) % p = 0
    BY <1>2, DivExact
  <2> QED BY <2>6, <2>7
<1>10. k[1] \div h \in Nat /\ k[2] \div h \in Nat
  BY <1>5, <1>8
<1>11. (k[1] \div h) % 2 # 1 => (k[2] \div h) % 2 = 1
  BY <1>5, <1>7, <1>9
<1>12. Direction(k, n)[1] = k[1] \div h /\ Direction(k, n)[2] = k[2] \div h
  BY DEF Direction, h
<1> QED BY <1>1, <1>10, <1>11, <1>12

\* The images of an even isogeny and of its dual are points.
LEMMA EvenMapsType ==
  ASSUME NEW k \in Point, NEW n \in Nat, n >= 1, OfOrder(k, n), NEW p \in Point
  PROVE  EvenImage(k, n, p) \in Point /\ EvenDual(k, n, p) \in Point
<1> DEFINE w == 2^F
           x == Direction(k, n)[1]
           y == Direction(k, n)[2]
           xInv == InvMod2k(x, n)
           yInv == InvMod2k(y, n)
           u == 2^n
<1>1. w \in Nat /\ w >= 1
  BY PowF
<1>2. p[1] \in Nat /\ p[2] \in Nat
  BY <1>1 DEF Point
<1>3. x \in Nat /\ y \in Nat /\ (x % 2 # 1 => y % 2 = 1)
  BY DirectionIsOdd
<1>4. u \in Nat
  BY Pow2Nat
<1>5. (x % 2 = 1 => xInv \in Int) /\ (y % 2 = 1 => yInv \in Int)
  <2> HIDE DEF x, y
  <2>1. 0 .. 2^n - 1 \subseteq Int
    BY <1>4
  <2> QED BY <1>3, <2>1, OddInvertible
<1>6. EvenImage(k, n, p) = IF x % 2 = 1 THEN <<Times(u, p)[1], (p[2] - y * xInv * p[1]) % w>>
                           ELSE <<(p[1] - x * yInv * p[2]) % w, Times(u, p)[2]>>
  BY DEF EvenImage
<1>7. EvenDual(k, n, p) = IF x % 2 = 1 THEN <<p[1], (y * xInv * p[1] + u * p[2]) % w>>
                          ELSE <<(u * p[1] + x * yInv * p[2]) % w, p[2]>>
  BY DEF EvenDual
<1>8. Times(u, p)[1] \in 0 .. w - 1 /\ Times(u, p)[2] \in 0 .. w - 1
  <2>1. Times(u, p) \in Point
    BY <1>4, TimesType
  <2> QED BY <2>1 DEF Point
<1>9. p[1] \in 0 .. w - 1 /\ p[2] \in 0 .. w - 1
  BY DEF Point
<1>10. \A c, z \in 0 .. w - 1 : <<c, z>> \in Point
  BY DEF Point
<1> HIDE DEF w, x, y, xInv, yInv, u
<1>11. \A z \in Int : z % w \in 0 .. w - 1
  BY <1>1
<1>12. CASE x % 2 = 1
  <2>1. p[2] - y * xInv * p[1] \in Int /\ y * xInv * p[1] + u * p[2] \in Int
    BY <1>2, <1>3, <1>4, <1>5, <1>12
  <2>2. (p[2] - y * xInv * p[1]) % w \in 0 .. w - 1 /\ (y * xInv * p[1] + u * p[2]) % w \in 0 .. w - 1
    BY <1>11, <2>1
  <2> QED BY <1>6, <1>7, <1>8, <1>9, <1>10, <1>12, <2>2
<1>13. CASE x % 2 # 1
  <2>1. p[1] - x * yInv * p[2] \in Int /\ u * p[1] + x * yInv * p[2] \in Int
    BY <1>2, <1>3, <1>4, <1>5, <1>13
  <2>2. (p[1] - x * yInv * p[2]) % w \in 0 .. w - 1 /\ (u * p[1] + x * yInv * p[2]) % w \in 0 .. w - 1
    BY <1>11, <2>1
  <2> QED BY <1>6, <1>7, <1>8, <1>9, <1>10, <1>13, <2>2
<1> QED BY <1>12, <1>13

\* The degree and backtracking of a sample leave e' >= 1 and q < 2^e', and
\* no subtraction of the code's u32 wraps.
LEMMA DegreesSplit ==
  ASSUME NEW n \in Nat, NEW x \in Nat, x >= 1, x * 2^n <= 2^E - 1
  PROVE  LET r1 == TwoAdic(x)
             e1 == WordSub(WordSub(E, r1), n)
             q1 == x \div 2^r1
         IN  /\ r1 \in Nat /\ e1 \in Nat /\ q1 \in Nat
             /\ n + r1 + e1 = E /\ e1 >= 1
             /\ q1 % 2 = 1 /\ q1 < 2^e1
<1> DEFINE r1 == TwoAdic(x)
           q1 == x \div 2^r1
           b == 2^(r1 + n)
           e == E - (r1 + n)
<1>1. r1 \in Nat /\ q1 \in Nat /\ q1 % 2 = 1 /\ x = q1 * 2^r1
  BY TwoAdicSplits
<1> HIDE DEF r1, q1
<1>2. b \in Nat /\ b >= 1 /\ b = 2^r1 * 2^n /\ 2^r1 \in Nat /\ 2^n \in Nat
  <2>1. 2^(r1 + n) = 2^r1 * 2^n
    BY <1>1, Pow2Add
  <2>2. r1 + n \in Nat
    BY <1>1
  <2> QED BY <1>1, <2>1, <2>2, Pow2Positive
<1>3. E \in Nat /\ F \in Nat /\ E <= F /\ F < 2^WordBits /\ WordBits \in Nat
  BY SigningAssumption, FAssumption
<1>4. 2^E \in Nat /\ 2^WordBits \in Nat
  BY <1>3, Pow2Nat
<1>5. q1 * b <= 2^E - 1
  <2> DEFINE u == 2^r1
             v == 2^n
  <2> HIDE DEF u, v
  <2>1. u \in Nat /\ v \in Nat
    BY <1>2 DEF u, v
  <2>2. q1 * (u * v) = (q1 * u) * v
    BY <1>1, <2>1, TimesAssociates
  <2> QED BY <1>1, <1>2, <2>2 DEF u, v
<1>6. q1 >= 1 /\ b <= q1 * b
  <2>1. q1 >= 1
    BY <1>1
  <2>2. 1 * b <= q1 * b
    BY <1>1, <1>2, <2>1, TimesMonotone
  <2> QED BY <1>2, <2>1, <2>2
<1>7. r1 + n < E
  <2> SUFFICES ASSUME E <= r1 + n PROVE FALSE
    BY <1>1, <1>3
  <2>1. 2^E <= b
    BY <1>1, <1>3, Pow2Monotone
  <2>2. q1 * b \in Nat
    BY <1>1, <1>2
  <2> HIDE DEF b
  <2> QED BY <1>2, <1>4, <1>5, <1>6, <2>1, <2>2
<1>8. e \in Nat /\ e >= 1 /\ n + r1 + e = E /\ (r1 + n) + e = E
  BY <1>1, <1>3, <1>7
<1>9. WordSub(WordSub(E, r1), n) = e
  <2>1. E - r1 \in Nat /\ E - r1 < 2^WordBits
    BY <1>1, <1>3, <1>4, <1>7
  <2>2. WordSub(E, r1) = E - r1
    BY <1>4, <2>1, ModSmall DEF WordSub
  <2>3. (E - r1) - n = e /\ e < 2^WordBits
    BY <1>1, <1>3, <1>4, <1>8
  <2> HIDE DEF e
  <2> QED BY <1>4, <1>8, <2>2, <2>3, ModSmall DEF WordSub
<1>10. q1 < 2^e
  <2>1. 2^((r1 + n) + e) = b * 2^e /\ 2^e \in Nat
    <3> HIDE DEF e
    <3>1. r1 + n \in Nat
      BY <1>1
    <3> QED BY <1>8, <3>1, Pow2Add, Pow2Nat
  <2>2. 2^E = b * 2^e
    BY <1>8, <2>1
  <2> DEFINE z == 2^e
  <2> HIDE DEF z, b, e
  <2>3. z \in Nat /\ b * z = z * b
    BY <1>2, <2>1, TimesAssociates DEF z
  <2>4. q1 * b < z * b
    <3>1. q1 * b \in Nat
      BY <1>1, <1>2
    <3> QED BY <1>4, <1>5, <2>2, <2>3, <3>1 DEF z
  <2> QED BY <1>1, <1>2, <2>3, <2>4, Cancel DEF z
<1> QED BY <1>1, <1>8, <1>9, <1>10 DEF r1, q1

-----------------------------------------------------------------------------
(* The inductive invariant                                                 *)

\* What holds of an attempt before and after its degrees are known.
SignerInv ==
    /\ pc = "sample" => norm \in Norms
    /\ pc = "degrees" => d >= 1 /\ d * 2^nbt <= 2^E - 1
    /\ pc \in {"kernel", "even"} => r >= 1
    /\ pc \in {"challenge", "assemble"} /\ r >= 1 => OfOrder(even, r)

\* What holds of a signature: its matrix has e' + r + 2 bits.
SignatureInv ==
    pc = "signed" =>
        /\ sig.nbt \in Nat /\ sig.r \in Nat /\ sig.nbt + sig.r < E
        /\ sig.m \in Matrix(E + 2 - sig.nbt)
        /\ sig.aux \in Basis /\ sig.chlBasis \in Basis /\ sig.even \in Point
        /\ sig.r >= 1 => OfOrder(sig.even, sig.r)

\* What the verifier knows of what it parsed.
WireInv ==
    /\ vpc \in {"parsed", "even", "chain"} =>
         /\ wire.nbt \in Nat /\ wire.nbt <= E + 2 /\ wire.r \in Nat
         /\ wire.m \in IntMatrix /\ wire.aux \in Basis
         /\ curves # NoCurves =>
              /\ curves.chlBasis \in Basis /\ curves.even \in Point
              /\ wire.r >= 1 => OfOrder(curves.even, wire.r)
    /\ vpc = "even" => wire.r >= 1

\* A signature that was parsed has not been refused for its bytes.
VerdictInv == vpc \in {"parsed", "even", "chain"} => verdict # "unparsed"

IInv == TypeOK /\ DegreesInRange /\ SignerInv /\ SignatureInv /\ WireInv /\ VerdictInv

\* The assumptions on the constants, in one place.
LEMMA Constants ==
  /\ E \in Nat /\ E >= 1 /\ F \in Nat /\ E + 2 <= F
  /\ MaxIters \in Nat /\ MaxIters >= 1 /\ MaxTries \in Nat /\ MaxTries >= 1
  /\ ByteBits \in Nat /\ ByteBits >= 1
  /\ Norms \subseteq Nat /\ 0 \notin Norms
  /\ \A b \in Bases : FullBasis(b) /\ b \in Basis
BY SigningAssumption, FAssumption DEF FullBasis

\* The invariant holds when sign is called.
LEMMA InitInvariant == Init => IInv
<1> SUFFICES ASSUME Init PROVE IInv
  OBVIOUS
<1> USE DEF Init, SignInit, VerifyInit
<1>1. TypeOK
  <2>1. O \in Point /\ ComBasis \in Basis
    BY ComBasisType, ConstantPoints
  <2>2. /\ 1 \in 1 .. MaxIters /\ 0 \in 0 .. MaxTries - 1
        /\ 0 \in 0 .. F /\ 0 \in 0 .. E
    BY Constants
  <2> QED BY <2>1, <2>2 DEF TypeOK, Stages, Attempting
<1>2. DegreesInRange
  BY DEF DegreesInRange, HasDegrees
<1>3. SignerInv /\ SignatureInv /\ WireInv /\ VerdictInv
  BY DEF SignerInv, SignatureInv, WireInv, VerdictInv
<1> QED BY <1>1, <1>2, <1>3 DEF IInv

\* A fresh attempt keeps the invariant.
LEMMA NextAttemptInvariant ==
  ASSUME IInv, vpc = "idle", NextAttempt, UNCHANGED verifyVars
  PROVE  IInv'
<1> USE DEF IInv, NextAttempt, verifyVars
<1>1. TypeOK'
  BY Constants, ComBasisType, ConstantPoints DEF TypeOK, Stages, Attempting
<1>2. DegreesInRange'
  BY DEF DegreesInRange, HasDegrees
<1>3. SignerInv' /\ SignatureInv' /\ WireInv' /\ VerdictInv'
  BY DEF SignerInv, SignatureInv, WireInv, VerdictInv
<1> QED BY <1>1, <1>2, <1>3

\* Giving up after MaxIters attempts keeps the invariant.
LEMMA GiveUpInvariant ==
  ASSUME IInv, vpc = "idle", GiveUp, UNCHANGED verifyVars
  PROVE  IInv'
<1> USE DEF IInv, GiveUp, verifyVars, attempt
<1>1. TypeOK'
  BY DEF TypeOK, Stages, Attempting
<1>2. DegreesInRange'
  BY DEF DegreesInRange, HasDegrees
<1>3. SignerInv' /\ SignatureInv' /\ WireInv' /\ VerdictInv'
  BY DEF SignerInv, SignatureInv, WireInv, VerdictInv
<1> QED BY <1>1, <1>2, <1>3

\* A sample that is refused keeps the invariant.
LEMMA SampleFailsInvariant ==
  ASSUME IInv, vpc = "idle", pc = "sample", SampleFails, UNCHANGED verifyVars
  PROVE  IInv'
<1>1. CASE tries + 1 < MaxTries
  <2> USE <1>1 DEF IInv, SampleFails, verifyVars, attempt
  <2>1. TypeOK'
    BY Constants DEF TypeOK, Stages, Attempting
  <2>2. DegreesInRange'
    BY DEF DegreesInRange, HasDegrees
  <2>3. SignerInv' /\ SignatureInv' /\ WireInv' /\ VerdictInv'
    BY DEF SignerInv, SignatureInv, WireInv, VerdictInv
  <2> QED BY <2>1, <2>2, <2>3
<1>2. CASE ~(tries + 1 < MaxTries)
  BY <1>2, NextAttemptInvariant DEF SampleFails
<1> QED BY <1>1, <1>2

\* The commitment keeps the invariant.
LEMMA CommitInvariant ==
  ASSUME IInv, vpc = "idle", Commit, UNCHANGED verifyVars
  PROVE  IInv'
<1> USE DEF IInv, Commit, verifyVars
<1>1. TypeOK'
  BY DEF TypeOK, Stages, Attempting
<1>2. DegreesInRange'
  BY DEF DegreesInRange, HasDegrees
<1>3. SignerInv' /\ SignatureInv' /\ WireInv' /\ VerdictInv'
  BY DEF SignerInv, SignatureInv, WireInv, VerdictInv
<1> QED BY <1>1, <1>2, <1>3

\* A sample in its ball keeps the invariant: here the radius bounds the backtracking.
LEMMA SampleInvariant ==
  ASSUME IInv, vpc = "idle", Sample, UNCHANGED verifyVars
  PROVE  IInv'
<1>1. pc = "sample" /\ norm \in Nat /\ norm >= 1
  <2>1. pc = "sample"
    BY DEF Sample
  <2>2. norm \in Norms
    BY <2>1 DEF IInv, SignerInv
  <2>3. norm \in Nat /\ norm # 0
    BY <2>2, Constants
  <2> QED BY <2>1, <2>3
<1>2. Radius(norm) \in Nat
  <2>1. 2^E \in Nat /\ 2^E >= 1 /\ 2^F \in Nat
    BY Constants, Pow2Positive
  <2>2. LatticeContent(norm) \in Nat /\ 2^E - 1 \in Nat
    BY <1>1, <2>1 DEF LatticeContent
  <2> QED BY <2>2, TimesAssociates DEF Radius
<1>0. PICK c \in 1 .. Radius(norm) :
             \E n \in 1 .. Radius(norm) \div (c * c) : Backtrack(c, n)
  BY DEF Sample
<1>3. PICK n \in 1 .. Radius(norm) \div (c * c) : Backtrack(c, n)
  BY <1>0
<1>4. c \in Nat /\ c >= 1 /\ n \in Nat /\ n >= 1 /\ (c * c) * n <= Radius(norm)
  <2>1. c \in Nat /\ c >= 1
    BY <1>2
  <2>2. c * c \in Nat /\ c * c >= 1
    <3>1. 1 * c <= c * c
      BY <2>1, TimesMonotone
    <3> QED BY <2>1, <3>1
  <2> DEFINE s == c * c
             R == Radius(norm)
             t == R \div s
  <2>3. R = s * t + (R % s) /\ t \in Nat /\ R % s \in 0 .. s - 1
    <3> HIDE DEF R, s
    <3>1. R \in Nat /\ s \in Nat /\ s > 0
      BY <1>2, <2>2 DEF R, s
    <3> QED BY <3>1, DivRem
  <2>4. n \in Nat /\ n >= 1 /\ n <= t
    <3> HIDE DEF t
    <3>1. n \in 1 .. t
      BY DEF t
    <3> QED BY <2>3, <3>1
  <2>5. s * n <= s * t
    <3> HIDE DEF s, t
    <3>1. s \in Nat /\ t \in Nat
      BY <2>2, <2>3 DEF s
    <3>2. n * s <= t * s
      BY <2>4, <3>1, TimesMonotone
    <3> QED BY <2>4, <3>1, <3>2, TimesAssociates
  <2> HIDE DEF s, R, t
  <2>6. s * n <= R
    <3>1. s \in Nat /\ R \in Nat
      BY <1>2, <2>2 DEF s, R
    <3>2. s * t \in Nat /\ s * n \in Nat
      BY <2>3, <2>4, <3>1
    <3> QED BY <2>3, <2>5, <3>1, <3>2
  <2> QED BY <2>1, <2>4, <2>6 DEF s, R
<1> DEFINE k == TwoAdic(c)
           content == LatticeContent(norm) \div 2^k
<1>5. /\ k \in Nat /\ content # 0
      /\ n % content = 0 => /\ n \div content \in Nat /\ n \div content >= 1
                            /\ (n \div content) * 2^k <= 2^E - 1
  BY <1>1, <1>4, SampleLeavesRoom
<1>6. IF n % content # 0 THEN SampleFails
      ELSE /\ pc' = "degrees"
           /\ nbt' = k /\ d' = n \div content
           /\ UNCHANGED <<iter, tries, norm, chl, r, q, ePrime, act, even,
                          chlBasis, auxBasis, sig>>
  BY <1>3, <1>5 DEF Backtrack
<1> HIDE DEF k, content
<1>7. CASE n % content # 0
  BY <1>1, <1>6, <1>7, SampleFailsInvariant
<1>8. CASE n % content = 0
  <2> USE DEF IInv, verifyVars
  <2>1. TypeOK'
    BY <1>5, <1>6, <1>8 DEF TypeOK, Stages, Attempting
  <2>2. DegreesInRange'
    BY <1>6, <1>8 DEF DegreesInRange, HasDegrees
  <2>3. SignerInv' /\ SignatureInv' /\ WireInv' /\ VerdictInv'
    BY <1>5, <1>6, <1>8 DEF SignerInv, SignatureInv, WireInv, VerdictInv
  <2> QED BY <2>1, <2>2, <2>3
<1> QED BY <1>7, <1>8

\* The computation of r and e' keeps the invariant.
LEMMA DegreesInvariant ==
  ASSUME IInv, vpc = "idle", Degrees, UNCHANGED verifyVars
  PROVE  IInv'
<1> DEFINE r1 == TwoAdic(d)
           e1 == WordSub(WordSub(E, r1), nbt)
           q1 == d \div 2^r1
<1>1. pc = "degrees" /\ nbt \in Nat /\ d \in Nat /\ d >= 1 /\ d * 2^nbt <= 2^E - 1
  BY DEF Degrees, IInv, SignerInv, TypeOK
<1>2. /\ r1 \in Nat /\ e1 \in Nat /\ q1 \in Nat
      /\ nbt + r1 + e1 = E /\ e1 >= 1
      /\ q1 % 2 = 1 /\ q1 < 2^e1
  BY <1>1, DegreesSplit
<1>3. IsTorsionExponent(nbt) /\ IsTorsionExponent(r1) /\ IsTorsionExponent(e1)
  <2> HIDE DEF r1, e1
  <2> QED BY <1>1, <1>2, Constants DEF IsTorsionExponent
<1>4. /\ pc' = "split"
      /\ r' = r1 /\ q' = q1 /\ ePrime' = e1
      /\ UNCHANGED <<iter, tries, norm, chl, nbt, d, act, even, chlBasis, auxBasis, sig>>
  BY <1>3 DEF Degrees
<1> HIDE DEF r1, e1, q1
<1> USE DEF IInv, verifyVars
<1>5. TypeOK'
  BY <1>1, <1>2, <1>4, Constants DEF TypeOK, Stages, Attempting
<1>6. DegreesInRange'
  BY <1>2, <1>4 DEF DegreesInRange, HasDegrees
<1>7. SignerInv' /\ SignatureInv' /\ WireInv' /\ VerdictInv'
  BY <1>4 DEF SignerInv, SignatureInv, WireInv, VerdictInv
<1> QED BY <1>5, <1>6, <1>7

\* The auxiliary isogeny keeps the invariant.
LEMMA SplitInvariant ==
  ASSUME IInv, vpc = "idle", Split, UNCHANGED verifyVars
  PROVE  IInv'
<1>1. pc = "split" /\ nbt \in Nat /\ r \in Nat /\ ePrime \in Nat /\ nbt + r + ePrime = E
  BY DEF Split, IInv, TypeOK, DegreesInRange, HasDegrees
<1>2. Pushed(ComBasis, ePrime, r) \in Basis
  <2>1. F - (ePrime + 2 + r) \in Nat
    BY <1>1, Constants
  <2> QED BY <2>1, ComBasisType, DoubleBasisType DEF Pushed, ReducedOrder
<1>3. chlBasis' \in Basis /\ auxBasis' \in Basis
  BY <1>2, ComBasisType DEF Split
<1>4. /\ pc' = IF r > 0 THEN "kernel" ELSE "challenge"
      /\ UNCHANGED <<iter, tries, norm, chl, nbt, d, r, q, ePrime, act, even, sig>>
  BY DEF Split
<1> USE DEF IInv, verifyVars
<1>5. TypeOK'
  BY <1>3, <1>4 DEF TypeOK, Stages, Attempting
<1>6. DegreesInRange'
  BY <1>1, <1>4 DEF DegreesInRange, HasDegrees
<1>7. SignerInv' /\ SignatureInv' /\ WireInv' /\ VerdictInv'
  BY <1>1, <1>4 DEF SignerInv, SignatureInv, WireInv, VerdictInv
<1> QED BY <1>5, <1>6, <1>7

\* Writing alpha as a matrix keeps the invariant.
LEMMA FromQuaternionInvariant ==
  ASSUME IInv, vpc = "idle", FromQuaternion, UNCHANGED verifyVars
  PROVE  IInv'
<1>1. /\ pc = "kernel" /\ r \in Nat /\ r >= 1 /\ ePrime \in Nat /\ chlBasis \in Basis
  BY Constants DEF FromQuaternion, IInv, TypeOK, SignerInv
<1>2. PICK m \in Actions(r) : act' = m /\ even' = EvenKernel(m, chlBasis, ePrime, r)
  BY DEF FromQuaternion
<1>3. EvenKernel(m, chlBasis, ePrime, r) \in Point
  <2> DEFINE c == IF m[1][1] % 2 = 0 /\ m[2][1] % 2 = 0 THEN 2 ELSE 1
             b == DoubleBasis(ePrime + 2, chlBasis)
             swapped == FromPropagated(b.P, b.Q, b.PmQ)
  <2>1. b \in Basis
    BY <1>1, DoubleBasisType
  <2>2. swapped \in Basis
    <3> HIDE DEF b
    <3>1. b.P \in Point /\ b.Q \in Point /\ b.PmQ \in Point
      BY <2>1 DEF Basis
    <3> QED BY <3>1, MapType
  <2>3. c \in 1 .. 2
    OBVIOUS
  <2>4. m \in [1 .. 2 -> [1 .. 2 -> 0 .. 2^r - 1]] /\ 2^r \in Nat
    BY <1>1, Pow2Nat DEF Actions
  <2>5. m[1][c] \in Int /\ m[2][c] \in Int
    <3> HIDE DEF c
    <3> QED BY <2>3, <2>4
  <2>6. EvenKernel(m, chlBasis, ePrime, r) = BiscalarMul(swapped, m[1][c], m[2][c], r)
    BY DEF EvenKernel
  <2> HIDE DEF swapped, c
  <2> QED BY <1>1, <2>2, <2>5, <2>6, BiscalarType
<1>4. /\ pc' = "even" /\ even' \in Point
      /\ UNCHANGED <<iter, tries, norm, chl, nbt, d, r, q, ePrime, chlBasis, auxBasis, sig>>
  BY <1>2, <1>3 DEF FromQuaternion
<1> USE DEF IInv, verifyVars
<1>5. TypeOK'
  BY <1>4 DEF TypeOK, Stages, Attempting
<1>6. DegreesInRange'
  BY <1>1, <1>4 DEF DegreesInRange, HasDegrees
<1>7. SignerInv' /\ SignatureInv' /\ WireInv' /\ VerdictInv'
  BY <1>1, <1>4 DEF SignerInv, SignatureInv, WireInv, VerdictInv
<1> QED BY <1>5, <1>6, <1>7

\* The even response keeps the invariant.
LEMMA EvenResponseInvariant ==
  ASSUME IInv, vpc = "idle", EvenResponse, UNCHANGED verifyVars
  PROVE  IInv'
<1>1. /\ pc = "even" /\ r \in Nat /\ r >= 1 /\ even \in Point /\ chlBasis \in Basis
      /\ OfOrder(even, r)
  BY Constants DEF EvenResponse, IInv, TypeOK, SignerInv
<1>2. chlBasis' \in Basis
  <2>1. chlBasis.P \in Point /\ chlBasis.PmQ \in Point /\ chlBasis.Q \in Point
    BY <1>1 DEF Basis
  <2>2. \A p \in Point : EvenImage(even, r, p) \in Point
    BY <1>1, EvenMapsType
  <2>3. chlBasis' = FromPropagated(EvenImage(even, r, chlBasis.P),
                                   EvenImage(even, r, chlBasis.PmQ),
                                   EvenImage(even, r, chlBasis.Q))
    BY DEF EvenResponse, MapBasis
  <2> QED BY <2>1, <2>2, <2>3, MapType
<1>3. /\ pc' = "challenge"
      /\ UNCHANGED <<iter, tries, norm, chl, nbt, d, r, q, ePrime, even, auxBasis, sig>>
  BY DEF EvenResponse
<1> USE DEF IInv, verifyVars
<1>4. TypeOK'
  BY <1>2, <1>3 DEF TypeOK, Stages, Attempting
<1>5. DegreesInRange'
  BY <1>1, <1>3 DEF DegreesInRange, HasDegrees
<1>6. SignerInv' /\ SignatureInv' /\ WireInv' /\ VerdictInv'
  BY <1>1, <1>3 DEF SignerInv, SignatureInv, WireInv, VerdictInv, OfOrder, DoubleN
<1> QED BY <1>4, <1>5, <1>6

\* The chain to the auxiliary curve keeps the invariant.
LEMMA ToIsogenyInvariant ==
  ASSUME IInv, vpc = "idle", ToIsogeny, UNCHANGED verifyVars
  PROVE  IInv'
<1>1. pc = "challenge" /\ pc' = "assemble" /\ UNCHANGED <<iter, tries, attempt, sig>>
  BY DEF ToIsogeny
<1> USE <1>1 DEF IInv, verifyVars, attempt
<1>2. TypeOK'
  BY DEF TypeOK, Stages, Attempting
<1>3. DegreesInRange'
  BY DEF DegreesInRange, HasDegrees
<1>4. SignerInv' /\ SignatureInv' /\ WireInv' /\ VerdictInv'
  BY DEF SignerInv, SignatureInv, WireInv, VerdictInv
<1> QED BY <1>2, <1>3, <1>4

\* Assembling the signature keeps the invariant: its matrix has e'+r+2 bits.
LEMMA AssembleInvariant ==
  ASSUME IInv, vpc = "idle", Assemble, UNCHANGED verifyVars
  PROVE  IInv'
<1> DEFINE eCob == ePrime + r + 2
<1>1. /\ pc = "assemble" /\ nbt \in Nat /\ r \in Nat /\ ePrime \in Nat
      /\ ePrime >= 1 /\ nbt + r + ePrime = E /\ even \in Point
      /\ chlBasis \in Basis /\ auxBasis \in Basis
      /\ r >= 1 => OfOrder(even, r)
  BY DEF Assemble, IInv, TypeOK, DegreesInRange, HasDegrees, SignerInv
<1>2. eCob \in Nat /\ eCob >= 1 /\ eCob <= F /\ eCob = E + 2 - nbt
  BY <1>1, Constants
<1> HIDE DEF eCob
<1>3. IsTorsionExponent(eCob)
  BY <1>2, Constants DEF IsTorsionExponent
<1>4. PICK detAux \in Bases, detChl \in Bases :
        LET m1   == FromBasesInvert(detAux, auxBasis, eCob)
            mChl == FromBases(detChl, MulBasis(m1, eCob, chlBasis), eCob)
        IN  IF ~IsTorsionExponent(eCob) THEN GiveUp
            ELSE IF m1 = NoMatrix THEN NextAttempt
            ELSE /\ pc' = "signed"
                 /\ sig' = [nbt |-> nbt, r |-> r, m |-> mChl, chl |-> chl,
                            aux |-> detAux, kernel |-> ChallengeKernel(chl, nbt),
                            chlBasis |-> detChl, even |-> even]
                 /\ UNCHANGED <<iter, tries, attempt>>
  BY DEF Assemble, eCob
<1> DEFINE m1 == FromBasesInvert(detAux, auxBasis, eCob)
           mChl == FromBases(detChl, MulBasis(m1, eCob, chlBasis), eCob)
<1>5. CASE m1 = NoMatrix
  <2>1. NextAttempt
    BY <1>3, <1>4, <1>5
  <2> QED BY <2>1, NextAttemptInvariant
<1>6. CASE m1 # NoMatrix
  <2>1. detAux \in Basis /\ detChl \in Basis /\ FullBasis(detAux) /\ FullBasis(detChl)
    BY Constants
  <2>2. m1 \in IntMatrix
    <3>1. m1 \in Matrix(eCob)
      BY <1>1, <1>2, <1>6, <2>1, FromBasesType
    <3> HIDE DEF m1
    <3> QED BY <1>2, <3>1, MatrixIsInt
  <2>3. mChl \in Matrix(eCob)
    <3> HIDE DEF m1
    <3>1. MulBasis(m1, eCob, chlBasis) \in Basis
      BY <1>1, <1>2, <2>2, MulBasisType
    <3> QED BY <1>2, <2>1, <3>1, FromBasesType
  <2>4. /\ pc' = "signed"
        /\ sig' = [nbt |-> nbt, r |-> r, m |-> mChl, chl |-> chl,
                   aux |-> detAux, kernel |-> ChallengeKernel(chl, nbt),
                   chlBasis |-> detChl, even |-> even]
        /\ UNCHANGED <<iter, tries, attempt>>
    BY <1>3, <1>4, <1>6
  <2> HIDE DEF m1, mChl
  <2> USE DEF IInv, verifyVars, attempt
  <2>5. TypeOK'
    BY <2>4 DEF TypeOK, Stages, Attempting
  <2>6. DegreesInRange'
    BY <1>1, <2>4 DEF DegreesInRange, HasDegrees
  <2>7. SignatureInv'
    <3>1. /\ sig'.nbt = nbt /\ sig'.r = r /\ sig'.m = mChl /\ sig'.aux = detAux
          /\ sig'.chlBasis = detChl /\ sig'.even = even
      BY <2>4
    <3>2. nbt + r < E /\ mChl \in Matrix(E + 2 - nbt)
      BY <1>1, <1>2, <2>3, Constants
    <3> QED BY <1>1, <2>1, <3>1, <3>2 DEF SignatureInv
  <2>8. SignerInv' /\ WireInv' /\ VerdictInv'
    BY <2>4 DEF SignerInv, WireInv, VerdictInv
  <2> QED BY <2>5, <2>6, <2>7, <2>8
<1> QED BY <1>5, <1>6

\* Every step of sign keeps the invariant.
LEMMA SignerInvariant ==
  ASSUME IInv, vpc = "idle", SignNext, UNCHANGED verifyVars
  PROVE  IInv'
<1>1. CASE Commit
  BY <1>1, CommitInvariant
<1>2. CASE Sample
  BY <1>2, SampleInvariant
<1>3. CASE NoSample
  BY <1>3, SampleFailsInvariant DEF NoSample
<1>4. CASE Degrees
  BY <1>4, DegreesInvariant
<1>5. CASE Split
  BY <1>5, SplitInvariant
<1>6. CASE FromQuaternion
  BY <1>6, FromQuaternionInvariant
<1>7. CASE EvenResponse
  BY <1>7, EvenResponseInvariant
<1>8. CASE ToIsogeny
  BY <1>8, ToIsogenyInvariant
<1>9. CASE Assemble
  BY <1>9, AssembleInvariant
<1>10. CASE CallFails
  BY <1>10, NextAttemptInvariant DEF CallFails
<1> QED
  BY <1>1, <1>2, <1>3, <1>4, <1>5, <1>6, <1>7, <1>8, <1>9, <1>10 DEF SignNext

\* What to_bytes makes of a signature is the signature.
LEMMA WireExact ==
  ASSUME SignatureInv, pc = "signed"
  PROVE  LET b == ToBytes(sig)
         IN  /\ b.nbt = sig.nbt /\ b.r = sig.r /\ b.m = sig.m /\ b.aux = sig.aux
             /\ b.nbt \in 0 .. F /\ b.r \in 0 .. F /\ b.nbt <= E
<1>1. /\ sig.nbt \in Nat /\ sig.r \in Nat /\ sig.nbt + sig.r < E
      /\ sig.m \in Matrix(E + 2 - sig.nbt)
  BY DEF SignatureInv
<1>2. F < 2^ByteBits /\ 2^ByteBits \in Nat
  BY WireAssumption, Constants, Pow2Nat
<1>3. sig.nbt % 2^ByteBits = sig.nbt /\ sig.r % 2^ByteBits = sig.r
  <2>1. sig.nbt < 2^ByteBits /\ sig.r < 2^ByteBits
    BY <1>1, <1>2, Constants
  <2> QED BY <1>1, <1>2, <2>1, ModSmall
<1>4. \A i, j \in 1 .. 2 : sig.m[i][j] % 2^CompBits = sig.m[i][j]
  <2> DEFINE k == E + 2 - sig.nbt
  <2>1. k \in Nat /\ k <= CompBits /\ CompBits \in Nat
    <3>1. E + 2 <= CompBits /\ CompBits \in Int
      <4>1. (E + ByteBits - 1) \div ByteBits \in Int
        BY Constants
      <4> DEFINE t == (E + ByteBits - 1) \div ByteBits
      <4> HIDE DEF t
      <4>2. ByteBits * t \in Int
        BY <4>1, Constants DEF t
      <4> QED BY <4>2, WireAssumption DEF CompBits, t
    <3> QED BY <1>1, <3>1, Constants
  <2> HIDE DEF k
  <2>2. 2^k <= 2^CompBits /\ 2^k \in Nat /\ 2^CompBits \in Nat
    BY <2>1, Pow2Monotone, Pow2Nat
  <2> TAKE i, j \in 1 .. 2
  <2>3. sig.m[i][j] \in 0 .. 2^k - 1
    BY <1>1 DEF Matrix, k
  <2>4. sig.m[i][j] \in Nat /\ sig.m[i][j] < 2^CompBits
    BY <2>2, <2>3
  <2> QED BY <2>2, <2>4, ModSmall
<1>5. ToBytes(sig).m = sig.m
  <2>1. sig.m = [i \in 1 .. 2 |-> [j \in 1 .. 2 |-> sig.m[i][j]]]
    BY <1>1 DEF Matrix
  <2> QED BY <1>4, <2>1 DEF ToBytes
<1> QED BY <1>1, <1>3, <1>5, Constants DEF ToBytes, SignatureInv

\* A signature that satisfies SignatureInv comes back from its bytes unchanged.
LEMMA SurvivesInvariant ==
  ASSUME SignatureInv
  PROVE  SurvivesTheWire
<1> SUFFICES ASSUME pc = "signed"
             PROVE  /\ Parses(ToBytes(sig))
                    /\ ToBytes(sig).m = sig.m /\ ToBytes(sig).nbt = sig.nbt /\ ToBytes(sig).r = sig.r
  BY DEF SurvivesTheWire
<1> DEFINE b == ToBytes(sig)
<1>1. /\ b.nbt = sig.nbt /\ b.r = sig.r /\ b.m = sig.m
      /\ b.nbt \in 0 .. F /\ b.r \in 0 .. F /\ b.nbt <= E
  BY WireExact
<1>2. sig.m \in Matrix(E + 2 - sig.nbt)
  BY DEF SignatureInv
<1> HIDE DEF b
<1>3. b.nbt <= E + 2
  BY <1>1, Constants
<1>4. EntriesBelowPow2(b.m, E + 2 - b.nbt)
  <2> DEFINE k == E + 2 - b.nbt
  <2>1. k \in Nat /\ b.m \in Matrix(k)
    BY <1>1, <1>2, <1>3, Constants
  <2> HIDE DEF k
  <2>2. 2^k \in Nat
    BY <2>1, Pow2Nat
  <2> QED BY <2>1, <2>2 DEF EntriesBelowPow2, Matrix, k
<1> QED BY <1>1, <1>3, <1>4 DEF Parses, IsTorsionExponent, b

\* Receiving the signer's bytes keeps the invariant.
LEMMA ReceiveSignedInvariant ==
  ASSUME IInv, ReceiveSigned, UNCHANGED signVars
  PROVE  IInv'
<1>1. pc = "signed" /\ SignatureInv
  BY DEF ReceiveSigned, IInv
<1>2. /\ wire' = ToBytes(sig)
      /\ curves'.chlBasis = sig.chlBasis /\ curves'.even = sig.even
      /\ vpc' \in {"parsed", "done"} /\ verdict' \in {"none", "unparsed"}
      /\ vpc' = "parsed" => verdict' = "none"
      /\ UNCHANGED <<verEPrime, verChl, verAux, onF1>>
  BY DEF ReceiveSigned, Receive
<1>3. /\ wire'.nbt = sig.nbt /\ wire'.r = sig.r /\ wire'.m = sig.m /\ wire'.aux = sig.aux
  BY <1>1, <1>2, WireExact
<1>4. /\ sig.nbt \in Nat /\ sig.r \in Nat /\ sig.nbt + sig.r < E
      /\ sig.m \in Matrix(E + 2 - sig.nbt)
      /\ sig.aux \in Basis /\ sig.chlBasis \in Basis /\ sig.even \in Point
      /\ sig.r >= 1 => OfOrder(sig.even, sig.r)
  BY <1>1 DEF SignatureInv
<1>5. sig.nbt <= E + 2 /\ sig.m \in IntMatrix
  <2>1. sig.nbt <= E + 2 /\ E + 2 - sig.nbt \in Nat
    BY <1>4, Constants
  <2> QED BY <1>4, <2>1, MatrixIsInt
<1>6. WireInv' /\ VerdictInv'
  BY <1>2, <1>3, <1>4, <1>5 DEF WireInv, VerdictInv, OfOrder
<1> USE DEF IInv, signVars, attempt
<1>7. TypeOK'
  BY <1>2 DEF TypeOK
<1>8. DegreesInRange' /\ SignerInv' /\ SignatureInv'
  BY DEF DegreesInRange, HasDegrees, SignerInv, SignatureInv
<1> QED BY <1>6, <1>7, <1>8

\* Receiving other bytes keeps the invariant: from_bytes bounds what is parsed.
LEMMA ReceiveOtherInvariant ==
  ASSUME IInv, ReceiveOther, UNCHANGED signVars
  PROVE  IInv'
<1>1. PICK n \in Byte, k \in Byte, m \in Matrix(1), c \in Chls :
        /\ Receive([nbt |-> n, r |-> k, m |-> m, chl |-> c, aux |-> PkBasis])
        /\ curves' = NoCurves
  BY DEF ReceiveOther
<1>2. /\ wire' = [nbt |-> n, r |-> k, m |-> m, chl |-> c, aux |-> PkBasis]
      /\ vpc' \in {"parsed", "done"} /\ verdict' \in {"none", "unparsed"}
      /\ vpc' = "parsed" => verdict' = "none"
      /\ vpc' = "parsed" => Parses(wire')
      /\ UNCHANGED <<verEPrime, verChl, verAux, onF1>>
  BY <1>1 DEF Receive
<1>3. n \in Nat /\ k \in Nat /\ m \in IntMatrix /\ PkBasis \in Basis
  <2>1. 2^ByteBits \in Nat
    BY Constants, Pow2Nat
  <2> QED BY <2>1, MatrixIsInt, ComBasisType DEF Byte
<1>4. WireInv' /\ VerdictInv'
  <2>1. vpc' = "parsed" => wire'.nbt <= E + 2
    BY <1>2 DEF Parses
  <2>2. wire'.nbt = n /\ wire'.r = k /\ wire'.m = m /\ wire'.aux = PkBasis
    BY <1>2
  <2> QED BY <1>1, <1>2, <1>3, <2>1, <2>2 DEF WireInv, VerdictInv
<1> USE DEF IInv, signVars, attempt
<1>5. TypeOK'
  BY <1>2 DEF TypeOK
<1>6. DegreesInRange' /\ SignerInv' /\ SignatureInv'
  BY DEF DegreesInRange, HasDegrees, SignerInv, SignatureInv
<1> QED BY <1>4, <1>5, <1>6

\* The doublings of a parsed signature are natural numbers.
LEMMA ShiftsType ==
  ASSUME NEW n \in Nat, NEW k \in Nat, n <= E + 2, E - n - k >= 0
  PROVE  LET e == E - n - k
         IN  /\ e \in 0 .. E /\ e + 2 <= F
             /\ AuxShift(e) \in Nat /\ ChlShift(e, k) \in Nat
             /\ E + 2 - n \in Nat
BY Constants DEF AuxShift, ChlShift

\* A step of the verifier that leaves the parsed signature alone.
LEMMA VerifierFrame ==
  ASSUME IInv, UNCHANGED signVars, UNCHANGED <<wire, curves>>,
         vpc \in {"parsed", "even", "chain"}, vpc' \in {"even", "chain", "done"},
         vpc' = "even" => wire.r >= 1,
         verEPrime' \in 0 .. E, verChl' \in Basis, verAux' \in Basis,
         onF1' \in BOOLEAN, verdict' \in {"none", "accepted", "rejected"}
  PROVE  IInv'
<1> USE DEF IInv, signVars, attempt
<1>1. TypeOK'
  BY DEF TypeOK
<1>2. DegreesInRange' /\ SignerInv' /\ SignatureInv'
  BY DEF DegreesInRange, HasDegrees, SignerInv, SignatureInv
<1>3. WireInv' /\ VerdictInv'
  BY DEF WireInv, VerdictInv, OfOrder
<1> QED BY <1>1, <1>2, <1>3

\* A verdict keeps the invariant.
LEMMA ConcludeInvariant ==
  ASSUME IInv, UNCHANGED signVars, vpc \in {"parsed", "even", "chain"},
         NEW answer \in {"accepted", "rejected"}, Conclude(answer)
  PROVE  IInv'
<1>1. /\ vpc' = "done" /\ verdict' = answer
      /\ UNCHANGED <<wire, curves, verEPrime, verChl, verAux, onF1>>
  BY DEF Conclude
<1>2. verEPrime \in 0 .. E /\ verChl \in Basis /\ verAux \in Basis /\ onF1 \in BOOLEAN
  BY DEF IInv, TypeOK
<1> QED BY <1>1, <1>2, VerifierFrame

\* The challenge isogeny of verify keeps the invariant.
LEMMA VerifyChallengeInvariant ==
  ASSUME IInv, VerifyChallenge, UNCHANGED signVars
  PROVE  IInv'
<1> DEFINE e == E - wire.nbt - wire.r
           known == curves # NoCurves /\ VerifierKernel(wire) = curves.kernel
<1>1. /\ vpc = "parsed" /\ wire.nbt \in Nat /\ wire.nbt <= E + 2 /\ wire.r \in Nat
      /\ wire.m \in IntMatrix /\ wire.aux \in Basis
      /\ curves # NoCurves => curves.chlBasis \in Basis
  BY DEF VerifyChallenge, IInv, WireInv
<1>2. CASE e < 0
  <2>1. Conclude("rejected")
    BY <1>2 DEF VerifyChallenge
  <2> QED BY <1>1, <2>1, ConcludeInvariant
<1>3. CASE ~(e < 0)
  <2>1. PICK canonical \in IF known THEN {curves.chlBasis} ELSE Bases :
          /\ vpc' = IF wire.r > 0 THEN "even" ELSE "chain"
          /\ verEPrime' = e
          /\ verChl' = MulBasis(wire.m, MatrixExponent(wire),
                                DoubleBasis(ChlShift(e, wire.r), canonical))
          /\ verAux' = DoubleBasis(AuxShift(e), wire.aux)
          /\ onF1' = (known /\ wire.r = 0)
          /\ UNCHANGED <<wire, curves, verdict>>
    BY <1>3 DEF VerifyChallenge
  <2>2. e >= 0
    BY <1>1, <1>3, Constants
  <2>3. /\ e \in 0 .. E /\ AuxShift(e) \in Nat /\ ChlShift(e, wire.r) \in Nat
        /\ MatrixExponent(wire) \in Nat
    BY <1>1, <2>2, ShiftsType DEF MatrixExponent
  <2>4. canonical \in Basis
    BY <1>1, <2>1, Constants
  <2>5. verChl' \in Basis
    BY <1>1, <2>1, <2>3, <2>4, DoubleBasisType, MulBasisType
  <2>6. verAux' \in Basis
    BY <1>1, <2>1, <2>3, DoubleBasisType
  <2>7. vpc' \in {"even", "chain"} /\ (vpc' = "even" => wire.r >= 1)
    BY <1>1, <2>1
  <2>8. onF1' \in BOOLEAN
    BY <2>1
  <2>9. verdict' \in {"none", "accepted", "rejected"}
    <3>1. verdict \in {"none", "unparsed", "accepted", "rejected"} /\ verdict' = verdict
      BY <2>1 DEF IInv, TypeOK
    <3>2. verdict # "unparsed"
      BY <1>1 DEF IInv, VerdictInv
    <3> QED BY <3>1, <3>2
  <2> HIDE DEF e
  <2> QED BY <1>1, <2>1, <2>3, <2>5, <2>6, <2>7, <2>8, <2>9, VerifierFrame
<1> QED BY <1>2, <1>3

\* The even part of verify keeps the invariant.
LEMMA VerifyEvenInvariant ==
  ASSUME IInv, VerifyEven, UNCHANGED signVars
  PROVE  IInv'
<1> DEFINE k == EvenDualKernel
           back == /\ curves # NoCurves
                   /\ OfOrder(k, wire.r)
                   /\ EvenDual(curves.even, wire.r, k) = O
<1>1. /\ vpc = "even" /\ wire.r \in Nat /\ wire.r >= 1
      /\ verEPrime \in 0 .. E /\ verChl \in Basis /\ verAux \in Basis
      /\ curves # NoCurves => curves.even \in Point /\ OfOrder(curves.even, wire.r)
  BY DEF VerifyEven, IInv, WireInv, TypeOK
<1>2. /\ vpc' = "chain" /\ onF1' = back
      /\ verChl' = IF back
                   THEN MapBasis(LAMBDA p : EvenDual(curves.even, wire.r, p), verChl)
                   ELSE verChl
      /\ UNCHANGED <<wire, curves, verEPrime, verAux, verdict>>
  BY DEF VerifyEven
<1>3. back \in BOOLEAN /\ (back => curves # NoCurves)
  OBVIOUS
<1> HIDE DEF back
<1>4. verChl' \in Basis
  <2>1. CASE back
    <3>1. verChl.P \in Point /\ verChl.PmQ \in Point /\ verChl.Q \in Point
      BY <1>1 DEF Basis
    <3>2. \A p \in Point : EvenDual(curves.even, wire.r, p) \in Point
      BY <1>1, <1>3, <2>1, EvenMapsType
    <3>3. verChl' = FromPropagated(EvenDual(curves.even, wire.r, verChl.P),
                                   EvenDual(curves.even, wire.r, verChl.PmQ),
                                   EvenDual(curves.even, wire.r, verChl.Q))
      BY <1>2, <2>1 DEF MapBasis
    <3> QED BY <3>1, <3>2, <3>3, MapType
  <2>2. CASE ~back
    BY <1>1, <1>2, <2>2
  <2> QED BY <2>1, <2>2
<1>5. verdict' \in {"none", "accepted", "rejected"}
  BY <1>1, <1>2 DEF IInv, TypeOK, VerdictInv
<1> QED BY <1>1, <1>2, <1>3, <1>4, <1>5, VerifierFrame

\* Every step of verify keeps the invariant.
LEMMA VerifierInvariant ==
  ASSUME IInv, UNCHANGED signVars,
         VerifyChallenge \/ VerifyEven \/ VerifyFourTorsion \/ VerifyChain \/ VerifyRefuses
  PROVE  IInv'
<1>1. CASE VerifyChallenge
  BY <1>1, VerifyChallengeInvariant
<1>2. CASE VerifyEven
  BY <1>2, VerifyEvenInvariant
<1>3. CASE VerifyFourTorsion
  <2>1. vpc = "chain" /\ \E answer \in {"accepted", "rejected"} : Conclude(answer)
    BY <1>3 DEF VerifyFourTorsion
  <2> QED BY <2>1, ConcludeInvariant
<1>4. CASE VerifyChain
  <2>1. vpc = "chain" /\ \E answer \in {"accepted", "rejected"} : Conclude(answer)
    BY <1>4 DEF VerifyChain
  <2> QED BY <2>1, ConcludeInvariant
<1>5. CASE VerifyRefuses
  BY <1>5, ConcludeInvariant DEF VerifyRefuses
<1> QED BY <1>1, <1>2, <1>3, <1>4, <1>5

\* A step that changes nothing keeps the invariant.
LEMMA StutterInvariant ==
  ASSUME IInv, UNCHANGED vars
  PROVE  IInv'
<1> USE DEF IInv, vars, signVars, verifyVars, attempt
<1>1. TypeOK'
  BY DEF TypeOK
<1>2. DegreesInRange' /\ SignerInv' /\ SignatureInv' /\ WireInv' /\ VerdictInv'
  BY DEF DegreesInRange, HasDegrees, SignerInv, SignatureInv, WireInv, OfOrder, VerdictInv
<1> QED BY <1>1, <1>2

\* The inductive invariant holds in every state of sign and verify.
LEMMA Inductive == Spec => []IInv
<1>1. IInv /\ [Next]_vars => IInv'
  <2> SUFFICES ASSUME IInv, [Next]_vars PROVE IInv'
    OBVIOUS
  <2>1. CASE vpc = "idle" /\ SignNext /\ UNCHANGED verifyVars
    BY <2>1, SignerInvariant
  <2>2. CASE /\ UNCHANGED signVars
             /\ VerifyChallenge \/ VerifyEven \/ VerifyFourTorsion \/ VerifyChain \/ VerifyRefuses
    BY <2>2, VerifierInvariant
  <2>3. CASE ReceiveSigned /\ UNCHANGED signVars
    BY <2>3, ReceiveSignedInvariant
  <2>4. CASE ReceiveOther /\ UNCHANGED signVars
    BY <2>4, ReceiveOtherInvariant
  <2>5. CASE UNCHANGED vars
    BY <2>5, StutterInvariant
  <2> QED BY <2>1, <2>2, <2>3, <2>4, <2>5 DEF Next
<1> QED BY <1>1, InitInvariant, PTL DEF Spec

-----------------------------------------------------------------------------
(* The theorems                                                            *)

\* Every variable of the signer and the verifier keeps the values its type
\* has, whatever bases the hints find and whatever is on the wire
\* (keys/signing.rs, keys/verifying.rs).
THEOREM TypeCorrect == Spec => []TypeOK
<1>1. IInv => TypeOK
  BY DEF IInv
<1> QED BY <1>1, Inductive, PTL

\* No sample that passes the divisibility check makes the degrees of the
\* response wrap or leaves no room for an auxiliary isogeny: sign never
\* panics there and never takes its branch for e' = 0
\* (keys/signing.rs lines 896 to 984).
THEOREM DegreesStayInRange == Spec => []DegreesInRange
<1>1. IInv => DegreesInRange
  BY DEF IInv
<1> QED BY <1>1, Inductive, PTL

\* Every signature that sign assembles is parsed, and as it was sent
\* (Signature::to_bytes and from_bytes, keys/mod.rs).
THEOREM SignaturesSurvive == Spec => []SurvivesTheWire
<1>1. IInv => SurvivesTheWire
  BY SurvivesInvariant DEF IInv
<1> QED BY <1>1, Inductive, PTL

\* Whatever bytes were parsed, the doublings verify computes are natural
\* numbers and the chain's kernel fits the torsion
\* (keys/verifying.rs lines 103 to 170).
THEOREM ShiftsFit == Spec => []VerifyShiftsFit
<1>1. IInv => VerifyShiftsFit
  <2> SUFFICES ASSUME IInv, vpc = "parsed", E - wire.nbt - wire.r >= 0
               PROVE  LET e == E - wire.nbt - wire.r
                      IN  AuxShift(e) >= 0 /\ ChlShift(e, wire.r) >= 0 /\ e + 2 <= F
    BY DEF VerifyShiftsFit
  <2>1. wire.nbt \in Nat /\ wire.nbt <= E + 2 /\ wire.r \in Nat
    BY DEF IInv, WireInv
  <2>2. LET e == E - wire.nbt - wire.r
        IN  /\ e \in 0 .. E /\ e + 2 <= F
            /\ AuxShift(e) \in Nat /\ ChlShift(e, wire.r) \in Nat
    BY <2>1, ShiftsType
  <2> QED BY <2>2
<1> QED BY <1>1, Inductive, PTL

-----------------------------------------------------------------------------
(* The commitment basis                                                    *)

\* The commitment basis at level t.
ComAt(t) == FromPropagated(At(t, 1, 0), At(t, 1, -1), At(t, 0, 1))

\* It is the basis the signer takes at that level.
LEMMA ComLevel ==
  ASSUME NEW t, IsTorsionExponent(t)
  PROVE  DoubleBasis(F - t, ComBasis) = ComAt(t)
<1>1. IsTorsionExponent(F) /\ <<1, 0>> \in Point /\ <<0, 1>> \in Point
  BY PowF, ConstantPoints DEF IsTorsionExponent
<1>2. <<1, 0>> = At(F, 1, 0) /\ <<0, 1>> = At(F, 0, 1)
  BY <1>1, AtTop
<1>3. Sub(<<1, 0>>, <<0, 1>>) = At(F, 1, -1)
  <2>1. \A m, k, x, y, u, v \in Int :
          Combine(m, At(F, x, y), k, At(F, u, v)) = At(F, m * x + k * u, m * y + k * v)
    BY <1>1, AtCombine
  <2>2. 1 * 1 + -1 * 0 = 1 /\ 1 * 0 + -1 * 1 = -1
    OBVIOUS
  <2>3. Combine(1, At(F, 1, 0), -1, At(F, 0, 1)) = At(F, 1 * 1 + -1 * 0, 1 * 0 + -1 * 1)
    BY <2>1
  <2> QED BY <1>2, <2>2, <2>3 DEF Sub
<1>4. F - t \in Nat /\ F - t <= F /\ F - (F - t) = t
  BY PowF DEF IsTorsionExponent
<1>5. \A x, y \in Int : DoubleN(F - t, At(F, x, y)) = At(F - (F - t), x, y)
  BY <1>1, <1>4, AtDouble
<1>6. /\ DoubleN(F - t, <<1, 0>>) = At(t, 1, 0) /\ DoubleN(F - t, <<0, 1>>) = At(t, 0, 1)
      /\ DoubleN(F - t, Sub(<<1, 0>>, <<0, 1>>)) = At(t, 1, -1)
  BY <1>2, <1>3, <1>4, <1>5
<1> QED BY <1>6 DEF DoubleBasis, MapBasis, ComBasis, FromPropagated, ComAt

\* Two points generate when the determinant of their coordinates is odd.
LEMMA OddDetGenerates ==
  ASSUME NEW t \in Nat, t >= 1, t <= F,
         NEW a \in Int, NEW b \in Int, NEW c \in Int, NEW z \in Int,
         \E s \in Int : a * z - b * c = 2 * s + 1,
         NEW k, k = FromPropagated(At(t, a, c), At(t, b, z), At(t, a - b, c - z))
  PROVE  IsBasisOf(k, t)
<1>1. IsTorsionExponent(t) /\ t - 1 \in Nat /\ t - 1 <= t /\ t - (t - 1) = 1 /\ t - t = 0 /\ t <= t
  BY PowF DEF IsTorsionExponent
<1>2. k.P = At(t, a, c) /\ k.PmQ = At(t, b, z) /\ k.Q = At(t, a - b, c - z)
  BY DEF FromPropagated
<1>3. DoubleN(t, k.P) = O /\ DoubleN(t, k.PmQ) = O
  <2>1. \A x, y \in Int : DoubleN(t, At(t, x, y)) = At(t - t, x, y)
    BY <1>1, AtDouble
  <2>2. \A x, y \in Int : At(t - t, x, y) = O
    BY <1>1, AtBottom
  <2> QED BY <1>2, <2>1, <2>2
<1>4. k.Q = Sub(k.P, k.PmQ)
  <2>1. \A m, j \in Int : Combine(m, At(t, a, c), j, At(t, b, z)) = At(t, m * a + j * b, m * c + j * z)
    BY <1>1, AtCombine
  <2>2. Combine(1, At(t, a, c), -1, At(t, b, z)) = At(t, 1 * a + -1 * b, 1 * c + -1 * z)
    BY <2>1
  <2>3. 1 * a + -1 * b = a - b /\ 1 * c + -1 * z = c - z
    OBVIOUS
  <2> QED BY <1>2, <2>2, <2>3 DEF Sub
<1>5. ASSUME NEW i \in 0 .. 1, NEW j \in 0 .. 1, DoubleN(t - 1, Combine(i, k.P, j, k.PmQ)) = O
      PROVE  i = 0 /\ j = 0
  <2>1. Combine(i, At(t, a, c), j, At(t, b, z)) = At(t, i * a + j * b, i * c + j * z)
    BY <1>1, AtCombine
  <2> DEFINE x == i * a + j * b
             y == i * c + j * z
  <2>2. x \in Int /\ y \in Int
    OBVIOUS
  <2>3. x % 2 = 0 /\ y % 2 = 0
    <3> HIDE DEF x, y
    <3>1. DoubleN(t - 1, At(t, x, y)) = At(t - (t - 1), x, y)
      BY <1>1, <2>2, AtDouble
    <3>2. At(1, x, y) = O
      BY <1>1, <1>2, <1>5, <2>1, <3>1 DEF x, y
    <3> QED BY <2>2, <3>2, AtOne
  <2>4. PICK v \in Int : x = 2 * v
    <3> HIDE DEF x
    <3>1. x = 2 * (x \div 2) /\ x \div 2 \in Int
      BY <2>2, <2>3
    <3> QED BY <3>1
  <2>5. PICK w \in Int : y = 2 * w
    <3> HIDE DEF y
    <3>1. y = 2 * (y \div 2) /\ y \div 2 \in Int
      BY <2>2, <2>3
    <3> QED BY <3>1
  <2>6. \A n, s \in Int : 2 * n # 2 * s + 1
    OBVIOUS
  <2>7. CASE i = 1
    <3>1. a = 2 * v - j * b /\ c = 2 * w - j * z
      BY <2>4, <2>5, <2>7
    <3>2. (2 * v - j * b) * z - b * (2 * w - j * z) = 2 * (v * z - b * w)
      OBVIOUS
    <3>3. a * z - b * c = 2 * (v * z - b * w)
      BY <3>1, <3>2
    <3>4. v * z - b * w \in Int
      OBVIOUS
    <3> QED BY <2>6, <3>3, <3>4
  <2>8. CASE i = 0 /\ j = 1
    <3>1. b = 2 * v /\ z = 2 * w
      BY <2>4, <2>5, <2>8
    <3>2. a * (2 * w) - (2 * v) * c = 2 * (a * w - v * c)
      OBVIOUS
    <3>3. a * z - b * c = 2 * (a * w - v * c)
      BY <3>1, <3>2
    <3>4. a * w - v * c \in Int
      OBVIOUS
    <3> QED BY <2>6, <3>3, <3>4
  <2> QED BY <2>7, <2>8
<1> QED BY <1>3, <1>4, <1>5 DEF IsBasisOf

\* An inverse modulo a power of two is one modulo every smaller power.
LEMMA InverseBelow ==
  ASSUME NEW a \in Nat, a % 2 = 1, NEW k \in Nat, NEW t \in Nat, t <= k
  PROVE  InvMod2k(a, k) \in Nat /\ \E i \in Int : a * InvMod2k(a, k) = 1 + i * 2^t
<1> DEFINE inv == InvMod2k(a, k)
<1>2. inv \in 0 .. 2^k - 1 /\ (a * inv) % 2^k = 1 % 2^k
  BY OddInvertible
<1> HIDE DEF inv
<1> DEFINE w == 2^k
           u == 2^t
           v == 2^(k - t)
<1>3. w \in Nat /\ w > 0 /\ u \in Nat /\ v \in Nat /\ w = u * v
  <2>1. k - t \in Nat /\ t + (k - t) = k
    OBVIOUS
  <2> QED BY <2>1, Pow2Add, Pow2Positive
<1>4. inv \in Nat /\ a * inv \in Int
  BY <1>2, <1>3
<1> DEFINE x == a * inv
<1>5. x \in Int /\ x % w = 1 % w
  BY <1>2, <1>4
<1> HIDE DEF x, w, u, v
<1>6. PICK i \in Int : x = 1 + i * w
  BY <1>3, <1>5, ResidueGap
<1>7. i * (u * v) = (i * v) * u /\ i * v \in Int
  BY <1>3
<1>8. x = 1 + (i * v) * u
  BY <1>3, <1>6, <1>7
<1> QED BY <1>4, <1>7, <1>8 DEF inv, x, u

-----------------------------------------------------------------------------
(* The kernel of the signer's (2,2)-chain                                  *)

\* Its two sides have the order that the chain's length wants, and q
\* matches them, whatever the exponents as long as they fit the torsion.
LEMMA SplitKernelSplits ==
  ASSUME NEW e \in Nat, NEW n \in Nat, NEW odd \in Nat, odd % 2 = 1, ReducedOrder(e, n) <= F
  PROVE  Splits(SplitKernel(ComBasis, ComBasis, odd, e, n), odd, e)
<1> DEFINE o == e + 2 + n
           t == e + 2
           qInv == InvMod2k(odd, o)
           k == SplitKernel(ComBasis, ComBasis, odd, e, n)
<1>1. /\ o \in Nat /\ t \in Nat /\ t >= 1 /\ t <= o /\ o <= F /\ o - n = t /\ n <= o
      /\ IsTorsionExponent(o) /\ IsTorsionExponent(t) /\ ReducedOrder(e, n) = o
  BY PowF DEF IsTorsionExponent, ReducedOrder
<1>2. qInv \in Nat /\ \E i \in Int : odd * qInv = 1 + i * 2^t
  <2>1. o \in Nat /\ t \in Nat /\ t <= o
    BY <1>1
  <2> HIDE DEF o, t
  <2>2. InvMod2k(odd, o) \in Nat /\ \E i \in Int : odd * InvMod2k(odd, o) = 1 + i * 2^t
    BY <2>1, InverseBelow
  <2> QED BY <2>2
<1>3. DoubleBasis(F - o, ComBasis) = ComAt(o)
  <2> HIDE DEF o
  <2> QED BY <1>1, ComLevel
<1>4. /\ DoubleN(F - o, ComBasis.P) = At(o, 1, 0)
      /\ DoubleN(F - o, ComBasis.PmQ) = At(o, 1, -1)
      /\ DoubleN(F - o, ComBasis.Q) = At(o, 0, 1)
  <2> HIDE DEF o
  <2> QED BY <1>3 DEF DoubleBasis, MapBasis, FromPropagated, ComAt
<1>5. /\ k.com = FromPropagated(Times(2^n, DoubleN(F - o, ComBasis.P)),
                                Times(2^n, DoubleN(F - o, ComBasis.PmQ)),
                                Times(2^n, DoubleN(F - o, ComBasis.Q)))
      /\ k.aux = FromPropagated(Times(2^n, Times(qInv, DoubleN(F - o, ComBasis.P))),
                                Times(2^n, Times(qInv, DoubleN(F - o, ComBasis.PmQ))),
                                Times(2^n, Times(qInv, DoubleN(F - o, ComBasis.Q))))
  BY <1>1 DEF SplitKernel, MapBasis
<1> HIDE DEF k, qInv, o, t
<1>6. \A x, y \in Int : Times(2^n, At(o, x, y)) = At(t, x, y)
  <2>1. \A x, y \in Int : DoubleN(n, At(o, x, y)) = At(o - n, x, y)
    BY <1>1, AtDouble
  <2> QED BY <1>1, <2>1 DEF DoubleN
<1>7. k.com = FromPropagated(At(t, 1, 0), At(t, 1, -1), At(t, 0, 1))
  BY <1>4, <1>5, <1>6
<1>8. \A x, y \in Int : Times(2^n, Times(qInv, At(o, x, y))) = At(t, qInv * x, qInv * y)
  <2> TAKE x, y \in Int
  <2>1. Times(qInv, At(o, x, y)) = At(o, qInv * x, qInv * y)
    BY <1>1, <1>2, AtTimes
  <2>2. qInv * x \in Int /\ qInv * y \in Int
    BY <1>2
  <2> QED BY <1>6, <2>1, <2>2
<1>9. \A x, y \in Int : Times(odd, Times(2^n, Times(qInv, At(o, x, y)))) = At(t, x, y)
  <2> TAKE x, y \in Int
  <2>1. qInv * x \in Int /\ qInv * y \in Int
    BY <1>2
  <2>2. \A u, v \in Int : Times(odd, At(t, u, v)) = At(t, odd * u, odd * v)
    <3>1. \A m, u, v \in Int : Times(m, At(t, u, v)) = At(t, m * u, m * v)
      BY <1>1, AtTimes
    <3>2. odd \in Int
      OBVIOUS
    <3> QED BY <3>1, <3>2
  <2>3. Times(odd, At(t, qInv * x, qInv * y)) = At(t, odd * (qInv * x), odd * (qInv * y))
    BY <2>1, <2>2
  <2>4. \A z \in Int : Scaled(t, odd * (qInv * z)) = Scaled(t, z)
    <3> TAKE z \in Int
    <3> DEFINE w == 2^t
    <3>1. PICK i \in Int : odd * qInv = 1 + i * w
      BY <1>2
    <3>2. w \in Nat
      BY <1>1, Level
    <3> DEFINE u == odd * (qInv * z)
               j == i * z
    <3>3. j \in Int /\ u \in Int /\ u = z + j * w
      <4> HIDE DEF w
      <4>1. odd * (qInv * z) = (odd * qInv) * z
        BY <1>2
      <4>2. (1 + i * w) * z = z + (i * z) * w
        BY <3>2
      <4> QED BY <1>2, <3>1, <4>1, <4>2
    <3> HIDE DEF u, j
    <3>4. Scaled(t, u) = Scaled(t, z)
      BY <1>1, <3>3, ScaledSame
    <3> QED BY <3>4 DEF u
  <2>5. At(t, odd * (qInv * x), odd * (qInv * y)) = At(t, x, y)
    BY <2>4 DEF At
  <2> QED BY <1>8, <2>3, <2>5
<1>10. MapBasis(LAMBDA p : Times(odd, p), k.aux)
         = FromPropagated(At(t, 1, 0), At(t, 1, -1), At(t, 0, 1))
  <2>1. /\ k.aux.P = Times(2^n, Times(qInv, At(o, 1, 0)))
        /\ k.aux.PmQ = Times(2^n, Times(qInv, At(o, 1, -1)))
        /\ k.aux.Q = Times(2^n, Times(qInv, At(o, 0, 1)))
    BY <1>4, <1>5 DEF FromPropagated
  <2>2. /\ Times(odd, k.aux.P) = At(t, 1, 0) /\ Times(odd, k.aux.PmQ) = At(t, 1, -1)
        /\ Times(odd, k.aux.Q) = At(t, 0, 1)
    BY <1>9, <2>1
  <2> QED BY <2>2 DEF MapBasis
<1>11. IsBasisOf(k.com, t)
  <2>1. 1 * (-1) - 1 * 0 = 2 * (-1) + 1 /\ 1 - 1 = 0 /\ 0 - (-1) = 1 /\ -1 \in Int
    OBVIOUS
  <2>2. k.com = FromPropagated(At(t, 1, 0), At(t, 1, -1), At(t, 1 - 1, 0 - (-1)))
    BY <1>7, <2>1
  <2>3. t <= F
    BY <1>1 DEF IsTorsionExponent
  <2> QED BY <1>1, <2>1, <2>2, <2>3, OddDetGenerates
<1> QED BY <1>7, <1>10, <1>11 DEF Splits, k, t

-----------------------------------------------------------------------------
(* The kernel of the challenge isogeny                                     *)

\* It has the order that its chain wants, for every challenge.
LEMMA ChallengeOrder ==
  ASSUME NEW c \in Nat, NEW n \in Nat, n < F
  PROVE  OfOrder(DoubleN(n, Combine(1, PkBasis.P, c, PkBasis.PmQ)), F - n)
<1> DEFINE t == F - n
           k == DoubleN(n, Combine(1, PkBasis.P, c, PkBasis.PmQ))
<1>1. /\ t \in Nat /\ t >= 1 /\ IsTorsionExponent(t) /\ IsTorsionExponent(F) /\ F - n = t
      /\ n <= F /\ t <= t /\ t - t = 0 /\ t - 1 \in Nat /\ t - 1 <= t /\ t - (t - 1) = 1
  BY PowF DEF IsTorsionExponent
<1>2. k = At(t, 1, c)
  <2>1. <<1, 0>> = At(F, 1, 0) /\ <<0, 1>> = At(F, 0, 1)
    BY ConstantPoints, AtTop
  <2>2. \A m, i, x, y, u, v \in Int :
          Combine(m, At(F, x, y), i, At(F, u, v)) = At(F, m * x + i * u, m * y + i * v)
    BY <1>1, AtCombine
  <2>3. Combine(1, At(F, 1, 0), c, At(F, 0, 1)) = At(F, 1 * 1 + c * 0, 1 * 0 + c * 1)
    BY <2>2
  <2>4. 1 * 1 + c * 0 = 1 /\ 1 * 0 + c * 1 = c
    OBVIOUS
  <2>5. Combine(1, PkBasis.P, c, PkBasis.PmQ) = At(F, 1, c)
    BY <2>1, <2>3, <2>4 DEF PkBasis, FromPropagated
  <2>6. DoubleN(n, At(F, 1, c)) = At(F - n, 1, c)
    BY <1>1, AtDouble
  <2> QED BY <2>5, <2>6
<1> HIDE DEF k, t
<1>3. DoubleN(t, k) = O
  <2>1. DoubleN(t, At(t, 1, c)) = At(t - t, 1, c)
    BY <1>1, AtDouble
  <2> QED BY <1>1, <1>2, <2>1, AtBottom
<1>4. DoubleN(t - 1, k) # O
  <2>1. DoubleN(t - 1, At(t, 1, c)) = At(t - (t - 1), 1, c)
    BY <1>1, AtDouble
  <2>2. At(1, 1, c) # O
    BY AtOne
  <2> QED BY <1>1, <1>2, <2>1, <2>2
<1>5. t \in 0 .. F
  BY <1>1 DEF IsTorsionExponent
<1> QED BY <1>3, <1>4, <1>5 DEF OfOrder, k, t

-----------------------------------------------------------------------------
(* The kernel of the even response                                         *)

\* The columns (x, y) and (u, v) have determinant zero modulo 2^n.
DetZero(x, y, u, v, n) == \E D \in Int : x * v - y * u = D * 2^n

\* (u, v) is a multiple of (x, y) modulo 2^n.
Spans(x, y, u, v, n) == \E l, f, g \in Int : u = l * x + f * 2^n /\ v = l * y + g * 2^n

\* In a matrix of determinant zero, a column with an odd first entry
\* generates the other column.
LEMMA OddEntryGenerates ==
  ASSUME NEW n \in Nat, NEW x \in Nat, NEW y \in Nat, NEW u \in Int, NEW v \in Int,
         x % 2 = 1, DetZero(x, y, u, v, n)
  PROVE  Spans(x, y, u, v, n)
<1> DEFINE w == 2^n
           inv == InvMod2k(x, n)
<1>1. w \in Nat
  BY Pow2Nat
<1>2. inv \in Nat /\ \E i \in Int : x * inv = 1 + i * w
  <2>1. n <= n
    OBVIOUS
  <2>2. InvMod2k(x, n) \in Nat /\ \E i \in Int : x * InvMod2k(x, n) = 1 + i * 2^n
    BY <2>1, InverseBelow
  <2> QED BY <2>2
<1> HIDE DEF inv, w
<1>3. PICK i \in Int : x * inv = 1 + i * w
  BY <1>2
<1>4. PICK D \in Int : x * v - y * u = D * w
  BY DEF w, DetZero
<1>5. u = (u * inv) * x + (-(u * i)) * w
  <2>1. (u * inv) * x = u * (x * inv)
    BY <1>2
  <2>2. u * (1 + i * w) = u + (u * i) * w
    BY <1>1
  <2>3. (-(u * i)) * w = -((u * i) * w) /\ (u * i) * w \in Int
    BY <1>1
  <2> QED BY <1>3, <2>1, <2>2, <2>3
<1>6. v = (u * inv) * y + (D * inv - v * i) * w
  <2>1. (x * v - y * u) * inv = v * (x * inv) - (u * inv) * y
    BY <1>2
  <2>2. v * (1 + i * w) = v + (v * i) * w
    BY <1>1
  <2>3. (D * w) * inv = (D * inv) * w
    BY <1>1, <1>2
  <2>4. (D * inv - v * i) * w = (D * inv) * w - (v * i) * w
    BY <1>1, <1>2
  <2>5. (D * inv) * w \in Int /\ (v * i) * w \in Int /\ (u * inv) * y \in Int
    BY <1>1, <1>2
  <2>6. (D * inv) * w = (v + (v * i) * w) - (u * inv) * y
    BY <1>3, <1>4, <2>1, <2>2, <2>3
  <2> QED BY <2>4, <2>5, <2>6
<1>7. u * inv \in Int /\ -(u * i) \in Int /\ D * inv - v * i \in Int
  BY <1>2
<1> QED BY <1>5, <1>6, <1>7 DEF w, Spans

\* The same for a column with an odd entry, whichever it is.
LEMMA OddColumnGenerates ==
  ASSUME NEW n \in Nat, NEW x \in Nat, NEW y \in Nat, NEW u \in Int, NEW v \in Int,
         x % 2 = 1 \/ y % 2 = 1, DetZero(x, y, u, v, n)
  PROVE  Spans(x, y, u, v, n)
<1>1. CASE x % 2 = 1
  BY <1>1, OddEntryGenerates
<1>2. CASE y % 2 = 1
  <2> DEFINE w == 2^n
  <2>1. w \in Nat
    BY Pow2Nat
  <2>2. PICK D \in Int : x * v - y * u = D * w
    BY DEF DetZero
  <2> HIDE DEF w
  <2>3. y * u - x * v = (-D) * w /\ -D \in Int
    <3>1. (-D) * w = -(D * w) /\ D * w \in Int
      BY <2>1
    <3> QED BY <2>2, <3>1
  <2>4. DetZero(y, x, v, u, n)
    BY <2>3 DEF w, DetZero
  <2>5. Spans(y, x, v, u, n)
    BY <1>2, <2>4, OddEntryGenerates
  <2> QED BY <2>5 DEF Spans
<1> QED BY <1>1, <1>2

\* The basis the even response's kernel is taken in: level n of the commitment's.
LEMMA EvenLevel ==
  ASSUME NEW e \in Nat, NEW n \in Nat, ReducedOrder(e, n) <= F
  PROVE  /\ Pushed(ComBasis, e, n) = ComAt(ReducedOrder(e, n))
         /\ DoubleBasis(e + 2, Pushed(ComBasis, e, n)) = ComAt(n)
         /\ IsTorsionExponent(ReducedOrder(e, n)) /\ IsTorsionExponent(n)
<1> DEFINE o == ReducedOrder(e, n)
<1>1. /\ o \in Nat /\ o = e + 2 + n /\ IsTorsionExponent(o) /\ IsTorsionExponent(n)
      /\ e + 2 \in Nat /\ e + 2 <= o /\ o - (e + 2) = n
  BY PowF DEF IsTorsionExponent, ReducedOrder
<1>2. Pushed(ComBasis, e, n) = ComAt(o)
  <2>1. DoubleBasis(F - o, ComBasis) = ComAt(o)
    BY <1>1, ComLevel
  <2> QED BY <2>1 DEF Pushed
<1> HIDE DEF o
<1>3. \A x, y \in Int : DoubleN(e + 2, At(o, x, y)) = At(n, x, y)
  <2>1. \A x, y \in Int : DoubleN(e + 2, At(o, x, y)) = At(o - (e + 2), x, y)
    BY <1>1, AtDouble
  <2> QED BY <1>1, <2>1
<1>4. ComAt(o).P = At(o, 1, 0) /\ ComAt(o).PmQ = At(o, 1, -1) /\ ComAt(o).Q = At(o, 0, 1)
  BY DEF ComAt, FromPropagated
<1>5. DoubleBasis(e + 2, ComAt(o)) = ComAt(n)
  <2>1. /\ DoubleN(e + 2, ComAt(o).P) = At(n, 1, 0) /\ DoubleN(e + 2, ComAt(o).Q) = At(n, 0, 1)
        /\ DoubleN(e + 2, ComAt(o).PmQ) = At(n, 1, -1)
    BY <1>3, <1>4
  <2> QED BY <2>1 DEF DoubleBasis, MapBasis, ComAt
<1> QED BY <1>1, <1>2, <1>5 DEF o

\* Its point, by the coordinates of the column that was chosen.
LEMMA EvenKernelAt ==
  ASSUME NEW e \in Nat, NEW n \in Nat, ReducedOrder(e, n) <= F, NEW m \in Actions(n)
  PROVE  LET c == IF m[1][1] % 2 = 0 /\ m[2][1] % 2 = 0 THEN 2 ELSE 1
         IN  /\ EvenKernel(m, Pushed(ComBasis, e, n), e, n) = At(n, m[1][c], m[2][c])
             /\ m[1][c] % 2 = 1 \/ m[2][c] % 2 = 1
<1> DEFINE c == IF m[1][1] % 2 = 0 /\ m[2][1] % 2 = 0 THEN 2 ELSE 1
           w == 2^n
<1>1. w \in Nat /\ w >= 1
  BY Pow2Positive
<1>2. m \in [1 .. 2 -> [1 .. 2 -> 0 .. w - 1]] /\ \E i, j \in 1 .. 2 : m[i][j] % 2 = 1
  BY DEF Actions
<1>3. c \in 1 .. 2
  OBVIOUS
<1>4. m[1][c] % 2 = 1 \/ m[2][c] % 2 = 1
  <2> HIDE DEF w
  <2>1. PICK i \in 1 .. 2, j \in 1 .. 2 : m[i][j] % 2 = 1
    BY <1>2
  <2>2. i = 1 \/ i = 2
    OBVIOUS
  <2>3. j = 1 \/ j = 2
    OBVIOUS
  <2>4. /\ m[1][1] \in Nat /\ m[2][1] \in Nat /\ m[1][2] \in Nat /\ m[2][2] \in Nat
    BY <1>1, <1>2
  <2>5. CASE m[1][1] % 2 = 0 /\ m[2][1] % 2 = 0
    <3>1. c = 2 /\ j = 2
      BY <2>1, <2>2, <2>3, <2>5
    <3> QED BY <2>1, <2>2, <3>1
  <2>6. CASE ~(m[1][1] % 2 = 0 /\ m[2][1] % 2 = 0)
    <3>1. c = 1
      BY <2>6
    <3> HIDE DEF c
    <3>2. \A z \in Nat : z % 2 = 0 \/ z % 2 = 1
      OBVIOUS
    <3> QED BY <2>4, <2>6, <3>1, <3>2
  <2> QED BY <2>5, <2>6
<1> DEFINE b == DoubleBasis(e + 2, Pushed(ComBasis, e, n))
<1>5. b = ComAt(n) /\ IsTorsionExponent(n)
  BY EvenLevel
<1>6. EvenKernel(m, Pushed(ComBasis, e, n), e, n)
        = BiscalarMul(FromPropagated(b.P, b.Q, b.PmQ), m[1][c], m[2][c], n)
  BY DEF EvenKernel
<1>7. b.P = At(n, 1, 0) /\ b.Q = At(n, 0, 1)
  BY <1>5 DEF ComAt, FromPropagated
<1> HIDE DEF b, c
<1>8. BiscalarMul(FromPropagated(b.P, b.Q, b.PmQ), m[1][c], m[2][c], n)
        = Combine(m[1][c] % w, At(n, 1, 0), m[2][c] % w, At(n, 0, 1))
  BY <1>7 DEF BiscalarMul, FromPropagated
<1> HIDE DEF w
<1>9. PICK x \in 0 .. w - 1, y \in 0 .. w - 1 : m[1][c] = x /\ m[2][c] = y
  BY <1>2, <1>3
<1>10. x \in Nat /\ y \in Nat /\ x % w = x /\ y % w = y
  <2>1. x \in Nat /\ x < w /\ y \in Nat /\ y < w
    BY <1>1
  <2> QED BY <1>1, <2>1, ModSmall
<1>11. Combine(x, At(n, 1, 0), y, At(n, 0, 1)) = At(n, x, y)
  <2>1. \A i, j, s, t, u, v \in Int :
          Combine(i, At(n, s, t), j, At(n, u, v)) = At(n, i * s + j * u, i * t + j * v)
    BY <1>5, AtCombine
  <2>2. Combine(x, At(n, 1, 0), y, At(n, 0, 1)) = At(n, x * 1 + y * 0, x * 0 + y * 1)
    BY <1>10, <2>1
  <2>3. x * 1 + y * 0 = x /\ x * 0 + y * 1 = y
    BY <1>10
  <2> QED BY <2>2, <2>3
<1>12. EvenKernel(m, Pushed(ComBasis, e, n), e, n) = At(n, m[1][c], m[2][c])
  BY <1>6, <1>8, <1>9, <1>10, <1>11
<1> QED BY <1>4, <1>12 DEF c

\* A point with an odd coordinate at level n has order 2^n.
LEMMA OddIsFull ==
  ASSUME NEW n \in Nat, n >= 1, IsTorsionExponent(n), NEW x \in Int, NEW y \in Int,
         x % 2 # 0 \/ y % 2 # 0
  PROVE  OfOrder(At(n, x, y), n)
<1>1. n <= n /\ n - n = 0 /\ n - 1 \in Nat /\ n - 1 <= n /\ n - (n - 1) = 1
  OBVIOUS
<1>2. DoubleN(n, At(n, x, y)) = At(n - n, x, y) /\ DoubleN(n - 1, At(n, x, y)) = At(n - (n - 1), x, y)
  BY <1>1, AtDouble
<1>3. At(0, x, y) = O /\ At(1, x, y) # O
  BY AtBottom, AtOne
<1>4. n \in 0 .. F
  BY DEF IsTorsionExponent
<1> QED BY <1>1, <1>2, <1>3, <1>4 DEF OfOrder

\* The chosen point generates exactly the kernel of alpha: its multiples
\* are all the combinations of the two columns.
LEMMA EvenKernelGenerates ==
  ASSUME NEW e \in Nat, NEW n \in Nat, n >= 1, ReducedOrder(e, n) <= F, NEW m \in Actions(n),
         NEW b, b = Pushed(ComBasis, e, n), NEW k, k = EvenKernel(m, b, e, n)
  PROVE  OfOrder(k, n) /\ Multiples(k, n) = AlphaKernel(m, b, e, n)
<1> DEFINE c == IF m[1][1] % 2 = 0 /\ m[2][1] % 2 = 0 THEN 2 ELSE 1
           w == 2^n
           x == m[1][c]
           y == m[2][c]
<1>1. w \in Nat /\ w >= 1 /\ w > 0
  BY Pow2Positive
<1>2. k = At(n, x, y) /\ (x % 2 = 1 \/ y % 2 = 1)
  BY EvenKernelAt
<1>3. m \in [1 .. 2 -> [1 .. 2 -> 0 .. w - 1]] /\ Det(m, n) = 0
  BY DEF Actions
<1>4. IsTorsionExponent(n) /\ DoubleBasis(e + 2, b) = ComAt(n)
  BY EvenLevel
<1>5. c \in 1 .. 2
  OBVIOUS
<1> HIDE DEF w
<1>6. /\ m[1][1] \in Nat /\ m[1][2] \in Nat /\ m[2][1] \in Nat /\ m[2][2] \in Nat
  BY <1>1, <1>3
<1>7. x \in Nat /\ y \in Nat
  <2> HIDE DEF c
  <2> QED BY <1>1, <1>3, <1>5
<1>8. OfOrder(k, n)
  <2> HIDE DEF x, y
  <2>1. x \in Int /\ y \in Int /\ (x % 2 # 0 \/ y % 2 # 0)
    BY <1>2, <1>7
  <2> QED BY <1>2, <1>4, <2>1, OddIsFull
<1>9. \A i, j \in Int :
        Combine(m[1][1] * i + m[1][2] * j, ComAt(n).P, m[2][1] * i + m[2][2] * j, ComAt(n).Q)
          = At(n, m[1][1] * i + m[1][2] * j, m[2][1] * i + m[2][2] * j)
  <2> TAKE i, j \in Int
  <2> DEFINE u == m[1][1] * i + m[1][2] * j
             v == m[2][1] * i + m[2][2] * j
  <2>1. u \in Int /\ v \in Int
    BY <1>6
  <2> HIDE DEF u, v
  <2>2. ComAt(n).P = At(n, 1, 0) /\ ComAt(n).Q = At(n, 0, 1)
    BY DEF ComAt, FromPropagated
  <2>3. \A s, t, a, z, f, g \in Int :
          Combine(s, At(n, a, z), t, At(n, f, g)) = At(n, s * a + t * f, s * z + t * g)
    BY <1>4, AtCombine
  <2>4. Combine(u, At(n, 1, 0), v, At(n, 0, 1)) = At(n, u * 1 + v * 0, u * 0 + v * 1)
    BY <2>1, <2>3
  <2>5. u * 1 + v * 0 = u /\ u * 0 + v * 1 = v
    BY <2>1
  <2>6. Combine(u, ComAt(n).P, v, ComAt(n).Q) = At(n, u, v)
    BY <2>2, <2>4, <2>5
  <2> QED BY <2>6 DEF u, v
<1>10. \A i \in Int : Times(i, k) = At(n, i * x, i * y)
  <2> HIDE DEF x, y
  <2>1. \A i, s, t \in Int : Times(i, At(n, s, t)) = At(n, i * s, i * t)
    BY <1>4, AtTimes
  <2> QED BY <1>2, <1>7, <2>1
\* The other column is a multiple of the chosen one.
<1>11. PICK l \in Int : \A i, j \in Int : \E s \in Int :
         At(n, m[1][1] * i + m[1][2] * j, m[2][1] * i + m[2][2] * j) = At(n, s * x, s * y)
  <2> DEFINE u == m[1][3 - c]
             v == m[2][3 - c]
  <2>1. u \in Nat /\ v \in Nat
    <3>1. 3 - c \in 1 .. 2
      BY <1>5
    <3> QED BY <1>6, <3>1
  <2>2. DetZero(x, y, u, v, n)
    <3> DEFINE z == m[1][1] * m[2][2] - m[1][2] * m[2][1]
    <3>1. z \in Int
      BY <1>6
    <3>2. z % w = 0
      BY <1>3 DEF Det, w
    <3> HIDE DEF z
    <3>3. PICK D \in Int : z = 0 + D * w
      <4>1. \E D \in Int : z = (z % w) + D * w
        BY <1>1, <3>1, Residue
      <4> QED BY <3>2, <4>1
    <3>4. D * w \in Int /\ -D \in Int /\ (-D) * w = -(D * w)
      BY <1>1
    <3>5. CASE c = 1
      <4>1. 3 - c = 2
        BY <3>5
      <4>2. x * v - y * u = z
        BY <1>6, <3>5, <4>1 DEF z
      <4>3. x * v - y * u = D * w
        BY <3>3, <3>4, <4>2
      <4> QED BY <4>3 DEF DetZero, w
    <3>6. CASE c = 2
      <4>1. 3 - c = 1
        BY <3>6
      <4>2. x * v - y * u = -z
        BY <1>6, <3>6, <4>1 DEF z
      <4>3. x * v - y * u = (-D) * w
        BY <3>3, <3>4, <4>2
      <4> QED BY <3>4, <4>3 DEF DetZero, w
    <3> QED BY <1>5, <3>5, <3>6
  <2>3. Spans(x, y, u, v, n)
    <3> HIDE DEF x, y, u, v
    <3> QED BY <1>2, <1>7, <2>1, <2>2, OddColumnGenerates
  <2>4. PICK l \in Int, f \in Int, g \in Int : u = l * x + f * w /\ v = l * y + g * w
    BY <2>3 DEF Spans, w
  <2>5. ASSUME NEW s \in Int, NEW t \in Int
        PROVE  At(n, x * s + u * t, y * s + v * t) = At(n, (s + l * t) * x, (s + l * t) * y)
    <3> HIDE DEF x, y, u, v
    <3>1. ASSUME NEW p \in Nat, NEW o \in Nat, NEW h \in Int, o = l * p + h * w
          PROVE  Scaled(n, p * s + o * t) = Scaled(n, (s + l * t) * p)
      <4> DEFINE a == p * s + o * t
                 z == (s + l * t) * p
                 i == h * t
      <4>1. p * s + (l * p + h * w) * t = (s + l * t) * p + (h * t) * w
        BY <1>1
      <4>2. a \in Int /\ z \in Int /\ i \in Int
        OBVIOUS
      <4>3. a = z + i * w
        BY <3>1, <4>1
      <4> HIDE DEF a, z, i
      <4>4. Scaled(n, a) = Scaled(n, z)
        BY <1>4, <4>2, <4>3, ScaledSame DEF w
      <4> QED BY <4>4 DEF a, z
    <3>2. Scaled(n, x * s + u * t) = Scaled(n, (s + l * t) * x)
      BY <1>7, <2>1, <2>4, <3>1
    <3>3. Scaled(n, y * s + v * t) = Scaled(n, (s + l * t) * y)
      BY <1>7, <2>1, <2>4, <3>1
    <3> QED BY <3>2, <3>3 DEF At
  <2>6. ASSUME NEW i \in Int, NEW j \in Int
        PROVE  \E s \in Int :
                 At(n, m[1][1] * i + m[1][2] * j, m[2][1] * i + m[2][2] * j) = At(n, s * x, s * y)
    <3>1. CASE c = 1
      <4>1. 3 - c = 2
        BY <3>1
      <4>2. m[1][1] * i + m[1][2] * j = x * i + u * j /\ m[2][1] * i + m[2][2] * j = y * i + v * j
        BY <1>6, <3>1, <4>1
      <4>3. i + l * j \in Int
        OBVIOUS
      <4> HIDE DEF x, y, u, v
      <4> QED BY <2>5, <4>2, <4>3
    <3>2. CASE c = 2
      <4>1. 3 - c = 1
        BY <3>2
      <4>2. m[1][1] * i + m[1][2] * j = x * j + u * i /\ m[2][1] * i + m[2][2] * j = y * j + v * i
        BY <1>6, <3>2, <4>1
      <4>3. j + l * i \in Int
        OBVIOUS
      <4> HIDE DEF x, y, u, v
      <4> QED BY <2>5, <4>2, <4>3
    <3> QED BY <1>5, <3>1, <3>2
  <2> QED BY <2>6
\* A multiple is one by a factor below 2^n.
<1>12. \A s \in Int : \E i \in 0 .. w - 1 : At(n, s * x, s * y) = At(n, i * x, i * y)
  <2> TAKE s \in Int
  <2> HIDE DEF x, y
  <2>1. s % w \in 0 .. w - 1
    BY <1>1
  <2>2. PICK i \in 0 .. w - 1, t \in Int : s = i + t * w
    <3>1. \E t \in Int : s = (s % w) + t * w
      BY <1>1, Residue
    <3> QED BY <2>1, <3>1
  <2>3. i \in Int
    BY <1>1
  <2>4. ASSUME NEW z \in Nat PROVE Scaled(n, s * z) = Scaled(n, i * z)
    <3> DEFINE a == s * z
               f == i * z
               g == t * z
    <3>1. a \in Int /\ f \in Int /\ g \in Int
      BY <2>3
    <3>2. a = f + g * w
      <4>1. (i + t * w) * z = i * z + (t * z) * w
        BY <1>1, <2>3
      <4> QED BY <2>2, <4>1
    <3> HIDE DEF a, f, g
    <3>3. Scaled(n, a) = Scaled(n, f)
      BY <1>4, <3>1, <3>2, ScaledSame DEF w
    <3> QED BY <3>3 DEF a, f
  <2>5. At(n, s * x, s * y) = At(n, i * x, i * y)
    BY <1>7, <2>4 DEF At
  <2> QED BY <2>5
<1>13. Multiples(k, n) = {At(n, i * x, i * y) : i \in 0 .. w - 1}
  <2> HIDE DEF x, y
  <2>1. 0 .. w - 1 \subseteq Int
    BY <1>1
  <2> QED BY <1>10, <2>1 DEF Multiples, w
<1>14. AlphaKernel(m, b, e, n)
         = {At(n, m[1][1] * i + m[1][2] * j, m[2][1] * i + m[2][2] * j) : i, j \in 0 .. w - 1}
  <2>1. 0 .. w - 1 \subseteq Int
    BY <1>1
  <2>2. AlphaKernel(m, b, e, n)
          = {Combine(m[1][1] * i + m[1][2] * j, ComAt(n).P, m[2][1] * i + m[2][2] * j, ComAt(n).Q) :
               i, j \in 0 .. w - 1}
    BY <1>4 DEF AlphaKernel, w
  <2> QED BY <1>9, <2>1, <2>2
<1>15. \A i, j \in 0 .. w - 1 :
         At(n, m[1][1] * i + m[1][2] * j, m[2][1] * i + m[2][2] * j) \in Multiples(k, n)
  <2> TAKE i, j \in 0 .. w - 1
  <2>1. i \in Int /\ j \in Int
    BY <1>1
  <2>2. PICK s \in Int :
          At(n, m[1][1] * i + m[1][2] * j, m[2][1] * i + m[2][2] * j) = At(n, s * x, s * y)
    BY <1>11, <2>1
  <2>3. PICK t \in 0 .. w - 1 : At(n, s * x, s * y) = At(n, t * x, t * y)
    BY <1>12
  <2> HIDE DEF x, y
  <2> QED BY <1>13, <2>2, <2>3
<1>16. \A i \in 0 .. w - 1 : At(n, i * x, i * y) \in AlphaKernel(m, b, e, n)
  <2> TAKE i \in 0 .. w - 1
  <2>1. i \in Int /\ 0 \in 0 .. w - 1
    BY <1>1
  <2>2. CASE c = 1
    <3>1. m[1][1] * i + m[1][2] * 0 = i * x /\ m[2][1] * i + m[2][2] * 0 = i * y
      BY <1>6, <2>1, <2>2
    <3> HIDE DEF x, y
    <3> QED BY <1>14, <2>1, <3>1
  <2>3. CASE c = 2
    <3>0. x = m[1][2] /\ y = m[2][2]
      BY <2>3
    <3> HIDE DEF x, y
    <3>1. m[1][1] * 0 + m[1][2] * i = i * x /\ m[2][1] * 0 + m[2][2] * i = i * y
      BY <1>6, <2>1, <3>0
    <3> QED BY <1>14, <2>1, <3>1
  <2> QED BY <1>5, <2>2, <2>3
<1>17. Multiples(k, n) = AlphaKernel(m, b, e, n)
  <2> HIDE DEF x, y
  <2>1. Multiples(k, n) \subseteq AlphaKernel(m, b, e, n)
    BY <1>13, <1>16
  <2>2. AlphaKernel(m, b, e, n) \subseteq Multiples(k, n)
    BY <1>14, <1>15
  <2> QED BY <2>1, <2>2
<1> QED BY <1>8, <1>17

-----------------------------------------------------------------------------
(* The matrices between bases                                              *)

\* Scalars may be replaced by congruent ones at that level.
LEMMA CombineReduced ==
  ASSUME NEW t, IsTorsionExponent(t), NEW m \in Int, NEW k \in Int, NEW i \in Int, NEW j \in Int,
         NEW x \in Int, NEW y \in Int, NEW u \in Int, NEW v \in Int,
         Congruent(i, m, t), Congruent(j, k, t)
  PROVE  Combine(i, At(t, x, y), j, At(t, u, v)) = At(t, m * x + k * u, m * y + k * v)
<1>1. t \in Nat
  BY Level
<1>4. Combine(i, At(t, x, y), j, At(t, u, v)) = At(t, i * x + j * u, i * y + j * v)
  BY AtCombine
<1>5. \A e, f \in Int : Congruent(e * i + f * j, e * m + f * k, t)
  BY <1>1, CongruentSum
<1>6. Congruent(x * i + u * j, x * m + u * k, t) /\ Congruent(y * i + v * j, y * m + v * k, t)
  BY <1>5
<1> DEFINE a == x * i + u * j
           b1 == x * m + u * k
           c == y * i + v * j
           z == y * m + v * k
<1>7. a \in Int /\ b1 \in Int /\ c \in Int /\ z \in Int /\ Congruent(a, b1, t) /\ Congruent(c, z, t)
  BY <1>6
<1>8. i * x + j * u = a /\ m * x + k * u = b1 /\ i * y + j * v = c /\ m * y + k * v = z
  OBVIOUS
<1> HIDE DEF a, b1, c, z
<1>9. At(t, a, c) = At(t, b1, z)
  BY <1>7, AtCongruent
<1> QED BY <1>4, <1>8, <1>9

\* biscalar_mul reduces its scalars, which changes nothing.
LEMMA BiscalarAt ==
  ASSUME NEW t, IsTorsionExponent(t), NEW m \in Int, NEW k \in Int,
         NEW x \in Int, NEW y \in Int, NEW u \in Int, NEW v \in Int
  PROVE  \A b : b.P = At(t, x, y) /\ b.PmQ = At(t, u, v)
                  => BiscalarMul(b, m, k, t) = At(t, m * x + k * u, m * y + k * v)
<1>1. PICK i \in Int, j \in Int :
        m % 2^t = i /\ k % 2^t = j /\ Congruent(i, m, t) /\ Congruent(j, k, t)
  <2>1. t \in Nat
    BY Level
  <2> QED BY <2>1, CongruentMod
<1>2. Combine(i, At(t, x, y), j, At(t, u, v)) = At(t, m * x + k * u, m * y + k * v)
  <2> HIDE <1>1
  <2>1. Congruent(i, m, t) /\ Congruent(j, k, t)
    BY <1>1
  <2> QED BY <2>1, CombineReduced
<1>3. SUFFICES ASSUME NEW b, b.P = At(t, x, y), b.PmQ = At(t, u, v)
               PROVE  BiscalarMul(b, m, k, t) = At(t, m * x + k * u, m * y + k * v)
  OBVIOUS
<1>4. BiscalarMul(b, m, k, t) = Combine(i, b.P, j, b.PmQ)
  BY <1>1 DEF BiscalarMul
<1> QED BY <1>2, <1>3, <1>4

\* Row (x, y) times column (p, s) is e modulo 2^t.
Dot(x, y, p, s, e, t) == Congruent(x * p + y * s, e, t)

\* It stays so when the column is reduced.
LEMMA DotMod ==
  ASSUME NEW t \in Nat, NEW x \in Int, NEW y \in Int, NEW p \in Int, NEW s \in Int,
         NEW e \in Int, Dot(x, y, p, s, e, t)
  PROVE  Dot(x, y, p % 2^t, s % 2^t, e, t)
<1> DEFINE pm == p % 2^t
           sm == s % 2^t
           f == x * pm + y * sm
           g == x * p + y * s
<1>1. pm \in Int /\ sm \in Int /\ Congruent(pm, p, t) /\ Congruent(sm, s, t)
  BY CongruentMod
<1>2. g \in Int /\ Congruent(g, e, t)
  BY DEF Dot
<1> HIDE DEF pm, sm
<1>3. Congruent(f, g, t)
  BY <1>1, CongruentSum
<1>4. f \in Int
  BY <1>1
<1> HIDE DEF f, g
<1>5. Congruent(f, e, t)
  BY <1>2, <1>3, <1>4, CongruentChain
<1> QED BY <1>5 DEF f, pm, sm, Dot

\* A multiple of congruent numbers.
LEMMA CongruentTimes ==
  ASSUME NEW t \in Nat, NEW a \in Int, NEW b \in Int, NEW m \in Int, Congruent(a, b, t)
  PROVE  Congruent(a * m, b * m, t)
<1> DEFINE w == 2^t
<1>1. w \in Nat
  BY Pow2Nat
<1>2. PICK i \in Int : a = b + i * w
  BY DEF Congruent
<1> HIDE DEF w
<1>3. a * m = b * m + (i * m) * w
  <2>1. (b + i * w) * m = b * m + (i * m) * w
    BY <1>1
  <2> QED BY <1>2, <2>1
<1>4. i * m \in Int
  OBVIOUS
<1> QED BY <1>3, <1>4 DEF Congruent, w

\* The inverse of a matrix of odd determinant, entry by entry.
LEMMA InvertSolves ==
  ASSUME NEW m \in IntMatrix, NEW k \in Nat, Det(m, k) % 2 = 1
  PROVE  LET v == Invert(m, k)
         IN  /\ v \in IntMatrix
             /\ Dot(m[1][1], m[1][2], v[1][1], v[2][1], 1, k)
             /\ Dot(m[2][1], m[2][2], v[1][1], v[2][1], 0, k)
             /\ Dot(m[1][1], m[1][2], v[1][2], v[2][2], 0, k)
             /\ Dot(m[2][1], m[2][2], v[1][2], v[2][2], 1, k)
<1> DEFINE a == m[1][1]
           b == m[1][2]
           c == m[2][1]
           z == m[2][2]
           dm == Det(m, k)
           inv == InvMod2k(dm, k)
           det == a * z - b * c
           v == Invert(m, k)
<1>1. a \in Int /\ b \in Int /\ c \in Int /\ z \in Int
  BY DEF IntMatrix
<1>2. v \in IntMatrix
  BY InvertType, MatrixIsInt
<1>3. /\ v[1][1] = (z * inv) % 2^k /\ v[1][2] = (-b * inv) % 2^k
      /\ v[2][1] = (-c * inv) % 2^k /\ v[2][2] = (a * inv) % 2^k
  BY DEF Invert
<1>4. dm = det % 2^k /\ dm \in Nat /\ dm % 2 = 1
  <2>1. dm = det % 2^k
    BY DEF Det
  <2> QED BY <2>1, DetType
<1>5. inv \in Nat /\ Congruent(dm * inv, 1, k)
  <2> HIDE DEF dm
  <2>1. k <= k
    OBVIOUS
  <2>2. InvMod2k(dm, k) \in Nat /\ \E i \in Int : dm * InvMod2k(dm, k) = 1 + i * 2^k
    BY <1>4, <2>1, InverseBelow
  <2> QED BY <2>2 DEF Congruent
<1> HIDE DEF a, b, c, z, inv, dm, v
<1>6. det \in Int
  BY <1>1
<1> HIDE DEF det
<1>7. Congruent(det * inv, 1, k)
  <2>1. Congruent(det, dm, k) /\ dm \in Int /\ inv \in Int
    BY <1>4, <1>5, <1>6, CongruentMod
  <2> DEFINE f == det * inv
             g == dm * inv
  <2>2. Congruent(f, g, k)
    BY <1>6, <2>1, CongruentTimes
  <2>3. f \in Int /\ g \in Int /\ Congruent(g, 1, k)
    BY <1>5, <1>6, <2>1
  <2> HIDE DEF f, g
  <2>4. Congruent(f, 1, k)
    BY <2>2, <2>3, CongruentChain
  <2> QED BY <2>4 DEF f
<1>8. z * inv \in Int /\ -b * inv \in Int /\ -c * inv \in Int /\ a * inv \in Int
  BY <1>1, <1>5
<1>9. Congruent(0, 0, k)
  BY CongruentSelf
<1>10. /\ Dot(a, b, z * inv, -c * inv, 1, k) /\ Dot(c, z, -b * inv, a * inv, 1, k)
       /\ Dot(c, z, z * inv, -c * inv, 0, k) /\ Dot(a, b, -b * inv, a * inv, 0, k)
  <2>1. /\ a * (z * inv) + b * (-c * inv) = (a * z - b * c) * inv
        /\ c * (-b * inv) + z * (a * inv) = (a * z - b * c) * inv
        /\ c * (z * inv) + z * (-c * inv) = 0
        /\ a * (-b * inv) + b * (a * inv) = 0
    BY <1>1, <1>5
  <2>2. /\ a * (z * inv) + b * (-c * inv) = det * inv
        /\ c * (-b * inv) + z * (a * inv) = det * inv
    BY <2>1 DEF det
  <2> QED BY <1>7, <1>9, <2>1, <2>2 DEF Dot
<1> DEFINE p1 == z * inv
           s1 == -c * inv
           p2 == -b * inv
           s2 == a * inv
<1>11. /\ Dot(a, b, p1, s1, 1, k) /\ Dot(c, z, p2, s2, 1, k)
       /\ Dot(c, z, p1, s1, 0, k) /\ Dot(a, b, p2, s2, 0, k)
       /\ p1 \in Int /\ s1 \in Int /\ p2 \in Int /\ s2 \in Int
       /\ v[1][1] = p1 % 2^k /\ v[1][2] = p2 % 2^k /\ v[2][1] = s1 % 2^k /\ v[2][2] = s2 % 2^k
  BY <1>3, <1>8, <1>10
<1> HIDE DEF p1, s1, p2, s2
<1>12. /\ Dot(a, b, v[1][1], v[2][1], 1, k) /\ Dot(c, z, v[1][2], v[2][2], 1, k)
       /\ Dot(c, z, v[1][1], v[2][1], 0, k) /\ Dot(a, b, v[1][2], v[2][2], 0, k)
  <2>1. Dot(a, b, p1 % 2^k, s1 % 2^k, 1, k)
    BY <1>1, <1>11, DotMod
  <2>2. Dot(c, z, p1 % 2^k, s1 % 2^k, 0, k)
    BY <1>1, <1>11, DotMod
  <2>3. Dot(a, b, p2 % 2^k, s2 % 2^k, 0, k)
    BY <1>1, <1>11, DotMod
  <2>4. Dot(c, z, p2 % 2^k, s2 % 2^k, 1, k)
    BY <1>1, <1>11, DotMod
  <2> QED BY <1>11, <2>1, <2>2, <2>3, <2>4
<1> QED BY <1>2, <1>12 DEF a, b, c, z, v

-----------------------------------------------------------------------------
(* Bases of level t, and the matrices between them                         *)

\* The basis of level t whose columns are (x, y) and (u, v).
Lev(t, x, y, u, v) == FromPropagated(At(t, x, y), At(t, u, v), At(t, x - u, y - v))

\* Its slots.
LEMMA LevSlots ==
  ASSUME NEW t, NEW x, NEW y, NEW u, NEW v
  PROVE  /\ Lev(t, x, y, u, v).P = At(t, x, y) /\ Lev(t, x, y, u, v).PmQ = At(t, u, v)
         /\ Lev(t, x, y, u, v).Q = At(t, x - u, y - v)
BY DEF Lev, FromPropagated

\* Congruent columns make the same basis.
LEMMA LevCongruent ==
  ASSUME NEW t, IsTorsionExponent(t), NEW x \in Int, NEW y \in Int, NEW u \in Int, NEW v \in Int,
         NEW a \in Int, NEW b \in Int, NEW c \in Int, NEW z \in Int,
         Congruent(x, a, t), Congruent(y, c, t), Congruent(u, b, t), Congruent(v, z, t)
  PROVE  Lev(t, x, y, u, v) = Lev(t, a, c, b, z)
<1>1. At(t, x, y) = At(t, a, c) /\ At(t, u, v) = At(t, b, z)
  BY AtCongruent
<1> DEFINE f == x - u
           g == y - v
           h == a - b
           i == c - z
<1>2. f \in Int /\ g \in Int /\ h \in Int /\ i \in Int
  OBVIOUS
<1>3. Congruent(f, h, t) /\ Congruent(g, i, t)
  <2>1. t \in Nat
    BY Level
  <2> QED BY <2>1, CongruentMinus
<1> HIDE DEF f, g, h, i
<1>4. At(t, f, g) = At(t, h, i)
  BY <1>2, <1>3, AtCongruent
<1> QED BY <1>1, <1>4 DEF Lev, f, g, h, i

\* The rows and columns of two matrices, multiplied in either order.
LEMMA Compose ==
  ASSUME NEW t \in Nat, NEW a \in Int, NEW b \in Int,
         NEW g \in Int, NEW h \in Int, NEW p \in Int, NEW s \in Int,
         NEW m \in Int, NEW k \in Int, NEW x \in Int, NEW u \in Int,
         NEW e \in Int, NEW f \in Int,
         Dot(a, b, g, p, x, t), Dot(a, b, h, s, u, t),
         Dot(g, h, m, k, e, t), Dot(p, s, m, k, f, t)
  PROVE  Congruent(m * x + k * u, a * e + b * f, t)
<1> DEFINE c1 == a * g + b * p
           c2 == a * h + b * s
           d1 == g * m + h * k
           d2 == p * m + s * k
           l == m * x + k * u
           w == a * e + b * f
           z == m * c1 + k * c2
<1>1. /\ Congruent(c1, x, t) /\ Congruent(c2, u, t) /\ Congruent(d1, e, t) /\ Congruent(d2, f, t)
      /\ c1 \in Int /\ c2 \in Int /\ d1 \in Int /\ d2 \in Int
  BY DEF Dot
<1>2. z = a * d1 + b * d2
  OBVIOUS
<1> HIDE DEF c1, c2, d1, d2
<1>3. Congruent(m * c1 + k * c2, m * x + k * u, t) /\ Congruent(a * d1 + b * d2, a * e + b * f, t)
  BY <1>1, CongruentSum
<1>4. Congruent(z, l, t) /\ Congruent(z, w, t) /\ z \in Int /\ l \in Int /\ w \in Int
  BY <1>1, <1>2, <1>3
<1> HIDE DEF z, l, w
<1>5. Congruent(l, z, t)
  BY <1>4, CongruentBack
<1>6. Congruent(l, w, t)
  BY <1>4, <1>5, CongruentChain
<1> QED BY <1>6 DEF l, w

\* A matrix applied to a basis of level t.
LEMMA MulBasisAt ==
  ASSUME NEW t, IsTorsionExponent(t), NEW m \in IntMatrix,
         NEW x \in Int, NEW y \in Int, NEW u \in Int, NEW v \in Int
  PROVE  MulBasis(m, t, Lev(t, x, y, u, v))
           = Lev(t, m[1][1] * x + m[2][1] * u, m[1][1] * y + m[2][1] * v,
                    m[1][2] * x + m[2][2] * u, m[1][2] * y + m[2][2] * v)
<1>1. PICK a \in Int, b \in Int, c \in Int, z \in Int :
        m[1][1] = a /\ m[1][2] = b /\ m[2][1] = c /\ m[2][2] = z
  BY DEF IntMatrix
<1> DEFINE k == Lev(t, x, y, u, v)
<1>2. k.P = At(t, x, y) /\ k.PmQ = At(t, u, v)
  BY LevSlots
<1> HIDE DEF k
<1>3. \A i, j \in Int : BiscalarMul(k, i, j, t) = At(t, i * x + j * u, i * y + j * v)
  BY <1>2, BiscalarAt
<1>4. /\ BiscalarMul(k, a, c, t) = At(t, a * x + c * u, a * y + c * v)
      /\ BiscalarMul(k, b, z, t) = At(t, b * x + z * u, b * y + z * v)
  BY <1>3
<1>5. BiscalarMul(k, a - b, c - z, t)
        = At(t, (a * x + c * u) - (b * x + z * u), (a * y + c * v) - (b * y + z * v))
  <2> DEFINE i == a - b
             j == c - z
  <2>1. i \in Int /\ j \in Int
    OBVIOUS
  <2>2. /\ i * x + j * u = (a * x + c * u) - (b * x + z * u)
        /\ i * y + j * v = (a * y + c * v) - (b * y + z * v)
    OBVIOUS
  <2> HIDE DEF i, j
  <2>3. BiscalarMul(k, i, j, t) = At(t, i * x + j * u, i * y + j * v)
    BY <1>3, <2>1
  <2> QED BY <2>2, <2>3 DEF i, j
<1>6. MulBasis(m, t, k) = FromPropagated(BiscalarMul(k, a, c, t), BiscalarMul(k, b, z, t),
                                         BiscalarMul(k, a - b, c - z, t))
  BY <1>1 DEF MulBasis
<1> QED BY <1>1, <1>4, <1>5, <1>6 DEF Lev, k

\* Coordinates found with an inverse matrix solve the two equations.
LEMMA SolveColumn ==
  ASSUME NEW t \in Nat, NEW a \in Int, NEW b \in Int, NEW c \in Int, NEW z \in Int,
         NEW g \in Int, NEW h \in Int, NEW p \in Int, NEW s \in Int,
         Dot(a, b, g, p, 1, t), Dot(c, z, g, p, 0, t),
         Dot(a, b, h, s, 0, t), Dot(c, z, h, s, 1, t),
         NEW x \in Int, NEW y \in Int, NEW i \in Int, NEW j \in Int,
         Congruent(i, x, t), Congruent(j, y, t),
         NEW m \in Int, NEW k \in Int, Dot(g, h, i, j, m, t), Dot(p, s, i, j, k, t)
  PROVE  Dot(a, b, m, k, x, t) /\ Dot(c, z, m, k, y, t)
<1>1. Congruent(i * 1 + j * 0, a * m + b * k, t)
  BY Compose
<1>2. Congruent(i * 0 + j * 1, c * m + z * k, t)
  BY Compose
<1> DEFINE l == a * m + b * k
           w == c * m + z * k
<1>3. i * 1 + j * 0 = i /\ i * 0 + j * 1 = j /\ l \in Int /\ w \in Int
  OBVIOUS
<1>4. Congruent(i, l, t) /\ Congruent(j, w, t)
  BY <1>1, <1>2, <1>3
<1> HIDE DEF l, w
<1>5. Congruent(l, i, t) /\ Congruent(w, j, t)
  BY <1>3, <1>4, CongruentBack
<1>6. Congruent(l, x, t) /\ Congruent(w, y, t)
  BY <1>3, <1>5, CongruentChain
<1> QED BY <1>6 DEF l, w, Dot

\* FromBases finds the coordinates of a basis of level t in a full one.
LEMMA FromBasesSolves ==
  ASSUME NEW t \in Nat, t >= 1, t <= F, NEW b, FullBasis(b),
         NEW x \in Int, NEW y \in Int, NEW u \in Int, NEW v \in Int
  PROVE  LET f == FromBases(b, Lev(t, x, y, u, v), t)
         IN  /\ f \in IntMatrix
             /\ Dot(b.P[1], b.PmQ[1], f[1][1], f[2][1], x, t)
             /\ Dot(b.P[2], b.PmQ[2], f[1][1], f[2][1], y, t)
             /\ Dot(b.P[1], b.PmQ[1], f[1][2], f[2][2], u, t)
             /\ Dot(b.P[2], b.PmQ[2], f[1][2], f[2][2], v, t)
<1> DEFINE k == Lev(t, x, y, u, v)
           m == Columns(b.P, b.PmQ)
           n == Invert(m, t)
           h == 2^(F - t)
           f == FromBases(b, k, t)
<1>1. b.P \in Point /\ b.PmQ \in Point /\ b \in Basis
  BY DEF FullBasis, Basis
<1>2. m \in IntMatrix /\ Det(m, t) % 2 = 1
  <2>1. m \in IntMatrix
    BY <1>1, ColumnsType
  <2>2. Det(m, F) % 2 = 1
    BY DEF FullBasis
  <2> QED BY <2>1, <2>2, PowF, DetType
<1>3. m[1][1] = b.P[1] /\ m[1][2] = b.PmQ[1] /\ m[2][1] = b.P[2] /\ m[2][2] = b.PmQ[2]
  BY DEF Columns
<1> HIDE DEF m
<1>4. /\ n \in IntMatrix
      /\ Dot(m[1][1], m[1][2], n[1][1], n[2][1], 1, t)
      /\ Dot(m[2][1], m[2][2], n[1][1], n[2][1], 0, t)
      /\ Dot(m[1][1], m[1][2], n[1][2], n[2][2], 0, t)
      /\ Dot(m[2][1], m[2][2], n[1][2], n[2][2], 1, t)
  BY <1>2, InvertSolves
<1>5. /\ n[1][1] \in Int /\ n[1][2] \in Int /\ n[2][1] \in Int /\ n[2][2] \in Int
      /\ m[1][1] \in Int /\ m[1][2] \in Int /\ m[2][1] \in Int /\ m[2][2] \in Int
  BY <1>2, <1>4 DEF IntMatrix
<1>6. IsTorsionExponent(t)
  BY DEF IsTorsionExponent
<1>7. k.P = <<Scaled(t, x), Scaled(t, y)>> /\ k.PmQ = <<Scaled(t, u), Scaled(t, v)>>
  BY LevSlots DEF At
<1> HIDE DEF n, k
<1>8. f = Columns(Apply(n, <<k.P[1] \div h, k.P[2] \div h>>, t),
                  Apply(n, <<k.PmQ[1] \div h, k.PmQ[2] \div h>>, t))
  BY DEF FromBases, n, m
<1>9. \A i \in Int : Scaled(t, i) \div h = i % 2^t
  BY <1>6, ScaledDown
<1> HIDE DEF h
<1>10. f = Columns(Apply(n, <<x % 2^t, y % 2^t>>, t), Apply(n, <<u % 2^t, v % 2^t>>, t))
  BY <1>7, <1>8, <1>9
<1> HIDE DEF f
<1>11. \A i \in Int : \E j \in Int : i % 2^t = j /\ Congruent(j, i, t) /\ Congruent(i, j, t)
  BY CongruentMod
<1>12. PICK xm \in Int, ym \in Int, um \in Int, vm \in Int :
         /\ x % 2^t = xm /\ y % 2^t = ym /\ u % 2^t = um /\ v % 2^t = vm
         /\ Congruent(xm, x, t) /\ Congruent(ym, y, t)
         /\ Congruent(um, u, t) /\ Congruent(vm, v, t)
  <2>1. \E j \in Int : x % 2^t = j /\ Congruent(j, x, t)
    BY <1>11
  <2>2. \E j \in Int : y % 2^t = j /\ Congruent(j, y, t)
    BY <1>11
  <2>3. \E j \in Int : u % 2^t = j /\ Congruent(j, u, t)
    BY <1>11
  <2>4. \E j \in Int : v % 2^t = j /\ Congruent(j, v, t)
    BY <1>11
  <2> QED BY <2>1, <2>2, <2>3, <2>4
\* One column of it.
<1>13. ASSUME NEW i \in Int, NEW j \in Int
       PROVE  \E e, g \in Int : /\ Apply(n, <<i, j>>, t) = <<e, g>>
                                /\ Dot(n[1][1], n[1][2], i, j, e, t)
                                /\ Dot(n[2][1], n[2][2], i, j, g, t)
  <2> DEFINE e1 == n[1][1] * i + n[1][2] * j
             g1 == n[2][1] * i + n[2][2] * j
  <2>1. e1 \in Int /\ g1 \in Int
    BY <1>5
  <2>2. Apply(n, <<i, j>>, t) = <<e1 % 2^t, g1 % 2^t>>
    BY DEF Apply
  <2> HIDE DEF e1, g1
  <2>3. PICK e \in Int : e1 % 2^t = e /\ Congruent(e1, e, t)
    BY <1>11, <2>1
  <2>4. PICK g \in Int : g1 % 2^t = g /\ Congruent(g1, g, t)
    BY <1>11, <2>1
  <2>5. Apply(n, <<i, j>>, t) = <<e, g>>
    BY <2>2, <2>3, <2>4
  <2>6. Dot(n[1][1], n[1][2], i, j, e, t) /\ Dot(n[2][1], n[2][2], i, j, g, t)
    BY <2>3, <2>4 DEF Dot, e1, g1
  <2> QED BY <2>5, <2>6
<1>14. PICK e1 \in Int, g1 \in Int : /\ Apply(n, <<xm, ym>>, t) = <<e1, g1>>
                                     /\ Dot(n[1][1], n[1][2], xm, ym, e1, t)
                                     /\ Dot(n[2][1], n[2][2], xm, ym, g1, t)
  BY <1>13
<1>15. PICK e2 \in Int, g2 \in Int : /\ Apply(n, <<um, vm>>, t) = <<e2, g2>>
                                     /\ Dot(n[1][1], n[1][2], um, vm, e2, t)
                                     /\ Dot(n[2][1], n[2][2], um, vm, g2, t)
  BY <1>13
<1>16. f = << <<e1, e2>>, <<g1, g2>> >>
  BY <1>10, <1>12, <1>14, <1>15 DEF Columns
<1>17. f \in IntMatrix
  BY <1>16, RowsType DEF IntMatrix
<1>18. f[1][1] = e1 /\ f[1][2] = e2 /\ f[2][1] = g1 /\ f[2][2] = g2
  BY <1>16
<1>19. PICK a \in Int, bb \in Int, c \in Int, z \in Int,
            g \in Int, hh \in Int, p \in Int, s \in Int :
         /\ m[1][1] = a /\ m[1][2] = bb /\ m[2][1] = c /\ m[2][2] = z
         /\ n[1][1] = g /\ n[1][2] = hh /\ n[2][1] = p /\ n[2][2] = s
  BY <1>5
<1>20. /\ Dot(a, bb, g, p, 1, t) /\ Dot(c, z, g, p, 0, t)
       /\ Dot(a, bb, hh, s, 0, t) /\ Dot(c, z, hh, s, 1, t)
       /\ Dot(g, hh, xm, ym, e1, t) /\ Dot(p, s, xm, ym, g1, t)
       /\ Dot(g, hh, um, vm, e2, t) /\ Dot(p, s, um, vm, g2, t)
  BY <1>4, <1>14, <1>15, <1>19
<1>21. /\ Congruent(xm, x, t) /\ Congruent(ym, y, t)
       /\ Congruent(um, u, t) /\ Congruent(vm, v, t)
  BY <1>12
<1>22. Dot(a, bb, e1, g1, x, t) /\ Dot(c, z, e1, g1, y, t)
  BY <1>20, <1>21, SolveColumn
<1>23. Dot(a, bb, e2, g2, u, t) /\ Dot(c, z, e2, g2, v, t)
  BY <1>20, <1>21, SolveColumn
<1> QED BY <1>3, <1>17, <1>18, <1>19, <1>22, <1>23 DEF f, k

\* A full basis, brought to level t.
LEMMA DoubleLevel ==
  ASSUME NEW t, IsTorsionExponent(t), NEW b \in Basis, b.Q = Sub(b.P, b.PmQ)
  PROVE  /\ b.P[1] \in Int /\ b.P[2] \in Int /\ b.PmQ[1] \in Int /\ b.PmQ[2] \in Int
         /\ DoubleBasis(F - t, b) = Lev(t, b.P[1], b.P[2], b.PmQ[1], b.PmQ[2])
<1>1. b.P \in Point /\ b.PmQ \in Point
  BY DEF Basis
<1>2. PICK x \in Int, y \in Int, u \in Int, v \in Int :
        /\ b.P[1] = x /\ b.P[2] = y /\ b.PmQ[1] = u /\ b.PmQ[2] = v
        /\ b.P = At(F, x, y) /\ b.PmQ = At(F, u, v)
  BY <1>1, AtTop
<1>3. IsTorsionExponent(F) /\ F - t \in Nat /\ F - t <= F /\ F - (F - t) = t
  BY PowF DEF IsTorsionExponent
<1>4. b.Q = At(F, x - u, y - v)
  <2>1. b.Q = Combine(1, b.P, -1, b.PmQ)
    BY DEF Sub
  <2>2. \A i, j \in Int :
          Combine(i, At(F, x, y), j, At(F, u, v)) = At(F, i * x + j * u, i * y + j * v)
    BY <1>3, AtCombine
  <2>3. Combine(1, At(F, x, y), -1, At(F, u, v)) = At(F, 1 * x + (-1) * u, 1 * y + (-1) * v)
    BY <2>2
  <2>4. 1 * x + (-1) * u = x - u /\ 1 * y + (-1) * v = y - v
    OBVIOUS
  <2> QED BY <1>2, <2>1, <2>3, <2>4
<1>5. \A l, m \in Int : DoubleN(F - t, At(F, l, m)) = At(t, l, m)
  <2>1. \A l, m \in Int : DoubleN(F - t, At(F, l, m)) = At(F - (F - t), l, m)
    BY <1>3, AtDouble
  <2> QED BY <1>3, <2>1
<1>6. /\ DoubleN(F - t, b.P) = At(t, x, y) /\ DoubleN(F - t, b.PmQ) = At(t, u, v)
      /\ DoubleN(F - t, b.Q) = At(t, x - u, y - v)
  BY <1>2, <1>4, <1>5
<1>7. DoubleBasis(F - t, b) = Lev(t, x, y, u, v)
  BY <1>6 DEF DoubleBasis, MapBasis, Lev
<1> QED BY <1>2, <1>7

\* A basis that to_hint or from_hint finds, its difference with it.
Hinted(b) == FullBasis(b) /\ b.Q = Sub(b.P, b.PmQ)

\* mul undoes from_bases: the matrix of a basis takes the canonical basis to it.
LEMMA MatrixBack ==
  ASSUME NEW t \in Nat, t >= 1, t <= F, NEW b, Hinted(b),
         NEW x \in Int, NEW y \in Int, NEW u \in Int, NEW v \in Int
  PROVE  MulBasis(FromBases(b, Lev(t, x, y, u, v), t), t, DoubleBasis(F - t, b)) = Lev(t, x, y, u, v)
<1> DEFINE k == Lev(t, x, y, u, v)
           f == FromBases(b, k, t)
<1>1. IsTorsionExponent(t) /\ b \in Basis
  BY DEF IsTorsionExponent, Hinted, FullBasis
<1>2. /\ f \in IntMatrix
      /\ Dot(b.P[1], b.PmQ[1], f[1][1], f[2][1], x, t)
      /\ Dot(b.P[2], b.PmQ[2], f[1][1], f[2][1], y, t)
      /\ Dot(b.P[1], b.PmQ[1], f[1][2], f[2][2], u, t)
      /\ Dot(b.P[2], b.PmQ[2], f[1][2], f[2][2], v, t)
  BY FromBasesSolves DEF Hinted
<1> HIDE DEF f
<1>3. PICK p1 \in Int, p2 \in Int, m1 \in Int, m2 \in Int :
        /\ b.P[1] = p1 /\ b.P[2] = p2 /\ b.PmQ[1] = m1 /\ b.PmQ[2] = m2
        /\ DoubleBasis(F - t, b) = Lev(t, p1, p2, m1, m2)
  BY <1>1, DoubleLevel DEF Hinted
<1>4. PICK f1 \in Int, f2 \in Int, g1 \in Int, g2 \in Int :
        f[1][1] = f1 /\ f[1][2] = f2 /\ f[2][1] = g1 /\ f[2][2] = g2
  BY <1>2 DEF IntMatrix
<1>5. /\ Dot(p1, m1, f1, g1, x, t) /\ Dot(p2, m2, f1, g1, y, t)
      /\ Dot(p1, m1, f2, g2, u, t) /\ Dot(p2, m2, f2, g2, v, t)
  BY <1>2, <1>3, <1>4
<1>6. MulBasis(f, t, Lev(t, p1, p2, m1, m2))
        = Lev(t, f1 * p1 + g1 * m1, f1 * p2 + g1 * m2, f2 * p1 + g2 * m1, f2 * p2 + g2 * m2)
  BY <1>1, <1>2, <1>4, MulBasisAt
<1> DEFINE a == f1 * p1 + g1 * m1
           c == f1 * p2 + g1 * m2
           d1 == f2 * p1 + g2 * m1
           z == f2 * p2 + g2 * m2
<1>7. /\ Congruent(a, x, t) /\ Congruent(c, y, t) /\ Congruent(d1, u, t) /\ Congruent(z, v, t)
      /\ a \in Int /\ c \in Int /\ d1 \in Int /\ z \in Int
  <2>1. /\ a = p1 * f1 + m1 * g1 /\ c = p2 * f1 + m2 * g1
        /\ d1 = p1 * f2 + m1 * g2 /\ z = p2 * f2 + m2 * g2
    OBVIOUS
  <2> QED BY <1>5, <2>1 DEF Dot
<1> HIDE DEF a, c, d1, z
<1>8. Lev(t, a, c, d1, z) = Lev(t, x, y, u, v)
  BY <1>1, <1>7, LevCongruent
<1> QED BY <1>3, <1>6, <1>8 DEF f, a, c, d1, z

\* from_bases_invert finds the matrix that takes the other way.
LEMMA MatrixForward ==
  ASSUME NEW t \in Nat, t >= 1, t <= F, NEW b, Hinted(b),
         NEW x \in Int, NEW y \in Int, NEW u \in Int, NEW v \in Int,
         FromBasesInvert(b, Lev(t, x, y, u, v), t) # NoMatrix
  PROVE  LET k == Lev(t, x, y, u, v)
             n == FromBasesInvert(b, k, t)
         IN  n \in IntMatrix /\ MulBasis(n, t, k) = DoubleBasis(F - t, b)
<1> DEFINE k == Lev(t, x, y, u, v)
           f == FromBases(b, k, t)
           n == FromBasesInvert(b, k, t)
<1>1. IsTorsionExponent(t) /\ b \in Basis
  BY DEF IsTorsionExponent, Hinted, FullBasis
<1>2. /\ f \in IntMatrix
      /\ Dot(b.P[1], b.PmQ[1], f[1][1], f[2][1], x, t)
      /\ Dot(b.P[2], b.PmQ[2], f[1][1], f[2][1], y, t)
      /\ Dot(b.P[1], b.PmQ[1], f[1][2], f[2][2], u, t)
      /\ Dot(b.P[2], b.PmQ[2], f[1][2], f[2][2], v, t)
  BY FromBasesSolves DEF Hinted
<1>3. n = IF Det(f, t) % 2 = 0 THEN NoMatrix ELSE Invert(f, t)
  BY DEF FromBasesInvert
<1> HIDE DEF f
<1>4. n = Invert(f, t) /\ Det(f, t) % 2 = 1
  <2> HIDE DEF n
  <2>1. Det(f, t) \in Nat
    BY <1>2, DetType
  <2>2. n # NoMatrix
    BY DEF n, k
  <2> QED BY <1>3, <2>1, <2>2
<1> HIDE DEF n
<1>5. /\ n \in IntMatrix
      /\ Dot(f[1][1], f[1][2], n[1][1], n[2][1], 1, t)
      /\ Dot(f[2][1], f[2][2], n[1][1], n[2][1], 0, t)
      /\ Dot(f[1][1], f[1][2], n[1][2], n[2][2], 0, t)
      /\ Dot(f[2][1], f[2][2], n[1][2], n[2][2], 1, t)
  BY <1>2, <1>4, InvertSolves
<1>6. PICK p1 \in Int, p2 \in Int, m1 \in Int, m2 \in Int :
        /\ b.P[1] = p1 /\ b.P[2] = p2 /\ b.PmQ[1] = m1 /\ b.PmQ[2] = m2
        /\ DoubleBasis(F - t, b) = Lev(t, p1, p2, m1, m2)
  BY <1>1, DoubleLevel DEF Hinted
<1>7. PICK f1 \in Int, f2 \in Int, g1 \in Int, g2 \in Int :
        f[1][1] = f1 /\ f[1][2] = f2 /\ f[2][1] = g1 /\ f[2][2] = g2
  BY <1>2 DEF IntMatrix
<1>8. PICK n1 \in Int, n2 \in Int, l1 \in Int, l2 \in Int :
        n[1][1] = n1 /\ n[1][2] = n2 /\ n[2][1] = l1 /\ n[2][2] = l2
  BY <1>5 DEF IntMatrix
<1>9. /\ Dot(p1, m1, f1, g1, x, t) /\ Dot(p2, m2, f1, g1, y, t)
      /\ Dot(p1, m1, f2, g2, u, t) /\ Dot(p2, m2, f2, g2, v, t)
      /\ Dot(f1, f2, n1, l1, 1, t) /\ Dot(g1, g2, n1, l1, 0, t)
      /\ Dot(f1, f2, n2, l2, 0, t) /\ Dot(g1, g2, n2, l2, 1, t)
  BY <1>2, <1>5, <1>6, <1>7, <1>8
<1>10. MulBasis(n, t, Lev(t, x, y, u, v))
         = Lev(t, n1 * x + l1 * u, n1 * y + l1 * v, n2 * x + l2 * u, n2 * y + l2 * v)
  <2>1. n \in IntMatrix
    BY <1>5
  <2> QED BY <1>1, <1>8, <2>1, MulBasisAt
<1>11. /\ Congruent(n1 * x + l1 * u, p1 * 1 + m1 * 0, t)
       /\ Congruent(n1 * y + l1 * v, p2 * 1 + m2 * 0, t)
  BY <1>9, Compose
<1>12. /\ Congruent(n2 * x + l2 * u, p1 * 0 + m1 * 1, t)
       /\ Congruent(n2 * y + l2 * v, p2 * 0 + m2 * 1, t)
  BY <1>9, Compose
<1>13. /\ p1 * 1 + m1 * 0 = p1 /\ p2 * 1 + m2 * 0 = p2
       /\ p1 * 0 + m1 * 1 = m1 /\ p2 * 0 + m2 * 1 = m2
  OBVIOUS
<1> DEFINE a == n1 * x + l1 * u
           c == n1 * y + l1 * v
           d1 == n2 * x + l2 * u
           z == n2 * y + l2 * v
<1>14. /\ Congruent(a, p1, t) /\ Congruent(c, p2, t) /\ Congruent(d1, m1, t) /\ Congruent(z, m2, t)
       /\ a \in Int /\ c \in Int /\ d1 \in Int /\ z \in Int
  BY <1>11, <1>12, <1>13
<1>15. MulBasis(n, t, Lev(t, x, y, u, v)) = Lev(t, a, c, d1, z)
  BY <1>10
<1> HIDE DEF a, c, d1, z
<1>16. Lev(t, a, c, d1, z) = Lev(t, p1, p2, m1, m2)
  BY <1>1, <1>14, LevCongruent
<1> QED BY <1>5, <1>6, <1>15, <1>16 DEF n, k

-----------------------------------------------------------------------------
(* The even isogeny and its dual, on points of every level                 *)

\* A difference with a multiple, before or after scaling.
LEMMA ScaledMinus ==
  ASSUME NEW t, IsTorsionExponent(t), NEW c \in Int, NEW x \in Int, NEW y \in Int
  PROVE  (Scaled(t, y) - c * Scaled(t, x)) % 2^F = Scaled(t, y - c * x)
<1>1. PICK X \in Int, Y \in Int : X = Scaled(t, x) /\ Y = Scaled(t, y)
  BY ScaledType, PowF
<1>2. ASSUME NEW i \in Int, NEW j \in Int
      PROVE  (i * X + j * Y) % 2^F = Scaled(t, i * x + j * y)
  <2>1. (i * Scaled(t, x) + j * Scaled(t, y)) % 2^F = Scaled(t, i * x + j * y)
    BY ScaledCombine
  <2> QED BY <1>1, <2>1
<1>3. ASSUME NEW i \in Int, NEW j \in Int, i = -c, j = 1
      PROVE  (Y - c * X) % 2^F = Scaled(t, y - c * x)
  <2>1. (i * X + j * Y) % 2^F = Scaled(t, i * x + j * y)
    BY <1>2
  <2>2. i * X + j * Y = Y - c * X /\ i * x + j * y = y - c * x
    BY <1>3
  <2> QED BY <2>1, <2>2
<1>4. -c \in Int /\ 1 \in Int
  OBVIOUS
<1>5. (Y - c * X) % 2^F = Scaled(t, y - c * x)
  BY <1>3, <1>4
<1> QED BY <1>1, <1>5

\* They act as the matrix [[a, b], [c, z]], of determinant 2^n, and its adjoint.
ActsAs(k, n, a, b, c, z) ==
  /\ a * z - b * c = 2^n
  /\ \A t : IsTorsionExponent(t) =>
       \A x, y \in Int :
         /\ EvenImage(k, n, At(t, x, y)) = At(t, a * x + b * y, c * x + z * y)
         /\ EvenDual(k, n, At(t, x, y)) = At(t, z * x - b * y, a * y - c * x)

\* An entry of its diagonal is 1.
LEMMA EvenMapsAt ==
  ASSUME NEW k \in Point, NEW n \in Nat, n >= 1, OfOrder(k, n)
  PROVE  \E a, b, c, z \in Int :
           ActsAs(k, n, a, b, c, z) /\ (a = 1 \/ z = 1)
<1> DEFINE x1 == Direction(k, n)[1]
           y1 == Direction(k, n)[2]
           xInv == InvMod2k(x1, n)
           yInv == InvMod2k(y1, n)
<1>1. x1 \in Nat /\ y1 \in Nat /\ (x1 % 2 # 1 => y1 % 2 = 1)
  BY DirectionIsOdd
<1>2. PICK w \in Nat : w = 2^n
  BY Pow2Nat
<1>3. (x1 % 2 = 1 => xInv \in Int) /\ (y1 % 2 = 1 => yInv \in Int)
  <2> HIDE DEF x1, y1
  <2>1. n <= n
    OBVIOUS
  <2> QED BY <1>1, <2>1, InverseBelow
<1>4. \A p : EvenImage(k, n, p) = IF x1 % 2 = 1
                                  THEN <<Times(w, p)[1], (p[2] - y1 * xInv * p[1]) % 2^F>>
                                  ELSE <<(p[1] - x1 * yInv * p[2]) % 2^F, Times(w, p)[2]>>
  BY <1>2 DEF EvenImage
<1>5. \A p : EvenDual(k, n, p) = IF x1 % 2 = 1
                                 THEN <<p[1], (y1 * xInv * p[1] + w * p[2]) % 2^F>>
                                 ELSE <<(w * p[1] + x1 * yInv * p[2]) % 2^F, p[2]>>
  BY <1>2 DEF EvenDual
<1> HIDE DEF x1, y1, xInv, yInv
<1>6. ASSUME NEW t, IsTorsionExponent(t), NEW x \in Int, NEW y \in Int
      PROVE  /\ At(t, x, y)[1] = Scaled(t, x) /\ At(t, x, y)[2] = Scaled(t, y)
             /\ Times(w, At(t, x, y))[1] = Scaled(t, w * x)
             /\ Times(w, At(t, x, y))[2] = Scaled(t, w * y)
  <2>1. Times(w, At(t, x, y)) = At(t, w * x, w * y)
    BY <1>6, AtTimes
  <2> QED BY <2>1 DEF At
<1>7. CASE x1 % 2 = 1
  <2>1. PICK c \in Int : c = y1 * xInv
    BY <1>1, <1>3, <1>7
  <2>2. ActsAs(k, n, w, 0, -c, 1)
    <3>7. w * 1 - 0 * (-c) = 2^n
      <4>1. w * 1 - 0 * (-c) = w
        OBVIOUS
      <4> QED BY <1>2, <4>1
    <3> SUFFICES ASSUME NEW t, IsTorsionExponent(t), NEW x \in Int, NEW y \in Int
                 PROVE  /\ EvenImage(k, n, At(t, x, y)) = At(t, w * x + 0 * y, -c * x + 1 * y)
                        /\ EvenDual(k, n, At(t, x, y)) = At(t, 1 * x - 0 * y, w * y - (-c) * x)
      BY <3>7 DEF ActsAs
    <3>1. /\ At(t, x, y)[1] = Scaled(t, x) /\ At(t, x, y)[2] = Scaled(t, y)
          /\ Times(w, At(t, x, y))[1] = Scaled(t, w * x)
      BY <1>6
    <3>2. (Scaled(t, y) - c * Scaled(t, x)) % 2^F = Scaled(t, y - c * x)
      BY ScaledMinus
    <3>3. (c * Scaled(t, x) + w * Scaled(t, y)) % 2^F = Scaled(t, c * x + w * y)
      BY ScaledCombine
    <3>4. EvenImage(k, n, At(t, x, y)) = <<Scaled(t, w * x), Scaled(t, y - c * x)>>
      BY <1>4, <1>7, <2>1, <3>1, <3>2
    <3>5. EvenDual(k, n, At(t, x, y)) = <<Scaled(t, x), Scaled(t, c * x + w * y)>>
      BY <1>5, <1>7, <2>1, <3>1, <3>3
    <3>6. /\ w * x + 0 * y = w * x /\ -c * x + 1 * y = y - c * x
          /\ 1 * x - 0 * y = x /\ w * y - (-c) * x = c * x + w * y
      OBVIOUS
    <3> QED BY <3>4, <3>5, <3>6 DEF At
  <2>3. w \in Int /\ 0 \in Int /\ -c \in Int /\ 1 \in Int
    OBVIOUS
  <2> QED BY <2>2, <2>3
<1>8. CASE x1 % 2 # 1
  <2>1. PICK c \in Int : c = x1 * yInv
    BY <1>1, <1>3, <1>8
  <2>2. ActsAs(k, n, 1, -c, 0, w)
    <3>7. 1 * w - (-c) * 0 = 2^n
      <4>1. 1 * w - (-c) * 0 = w
        OBVIOUS
      <4> QED BY <1>2, <4>1
    <3> SUFFICES ASSUME NEW t, IsTorsionExponent(t), NEW x \in Int, NEW y \in Int
                 PROVE  /\ EvenImage(k, n, At(t, x, y)) = At(t, 1 * x + (-c) * y, 0 * x + w * y)
                        /\ EvenDual(k, n, At(t, x, y)) = At(t, w * x - (-c) * y, 1 * y - 0 * x)
      BY <3>7 DEF ActsAs
    <3>1. /\ At(t, x, y)[1] = Scaled(t, x) /\ At(t, x, y)[2] = Scaled(t, y)
          /\ Times(w, At(t, x, y))[2] = Scaled(t, w * y)
      BY <1>6
    <3>2. (Scaled(t, x) - c * Scaled(t, y)) % 2^F = Scaled(t, x - c * y)
      BY ScaledMinus
    <3>3. (w * Scaled(t, x) + c * Scaled(t, y)) % 2^F = Scaled(t, w * x + c * y)
      BY ScaledCombine
    <3>4. EvenImage(k, n, At(t, x, y)) = <<Scaled(t, x - c * y), Scaled(t, w * y)>>
      BY <1>4, <1>8, <2>1, <3>1, <3>2
    <3>5. EvenDual(k, n, At(t, x, y)) = <<Scaled(t, w * x + c * y), Scaled(t, y)>>
      BY <1>5, <1>8, <2>1, <3>1, <3>3
    <3>6. /\ 1 * x + (-c) * y = x - c * y /\ 0 * x + w * y = w * y
          /\ w * x - (-c) * y = w * x + c * y /\ 1 * y - 0 * x = y
      OBVIOUS
    <3> QED BY <3>4, <3>5, <3>6 DEF At
  <2>3. w \in Int /\ 0 \in Int /\ -c \in Int /\ 1 \in Int
    OBVIOUS
  <2> QED BY <2>2, <2>3
<1> QED BY <1>7, <1>8

\* What the response does with a point that the auxiliary isogeny leaves
\* alone: an even isogeny, or nothing when the degree is odd.
Phi(k, n, p) == IF n = 0 THEN p ELSE EvenImage(k, n, p)

PhiBasis(k, n, b) == FromPropagated(Phi(k, n, b.P), Phi(k, n, b.PmQ), Phi(k, n, b.Q))

\* It is a matrix too.
Linear(k, n, a, b, c, z) ==
  \A t : IsTorsionExponent(t) =>
    \A x, y \in Int : Phi(k, n, At(t, x, y)) = At(t, a * x + b * y, c * x + z * y)

\* The response acts on every level of the torsion as one matrix.
LEMMA PhiAt ==
  ASSUME NEW k \in Point, NEW n \in Nat, n >= 1 => OfOrder(k, n)
  PROVE  \E a, b, c, z \in Int : Linear(k, n, a, b, c, z)
<1>1. CASE n = 0
  <2>1. ASSUME NEW t, NEW x \in Int, NEW y \in Int
        PROVE  Phi(k, n, At(t, x, y)) = At(t, 1 * x + 0 * y, 0 * x + 1 * y)
    <3>1. 1 * x + 0 * y = x /\ 0 * x + 1 * y = y
      OBVIOUS
    <3> QED BY <1>1, <3>1 DEF Phi
  <2>2. Linear(k, n, 1, 0, 0, 1)
    BY <2>1 DEF Linear
  <2> QED BY <2>2
<1>2. CASE n # 0
  <2>1. PICK a \in Int, b \in Int, c \in Int, z \in Int : ActsAs(k, n, a, b, c, z)
    BY <1>2, EvenMapsAt
  <2>2. Linear(k, n, a, b, c, z)
    BY <1>2, <2>1 DEF Linear, ActsAs, Phi
  <2> QED BY <2>2
<1> QED BY <1>1, <1>2

\* The image of a basis of level t.
LEMMA PhiLev ==
  ASSUME NEW k, NEW n, NEW a \in Int, NEW b \in Int, NEW c \in Int, NEW z \in Int,
         Linear(k, n, a, b, c, z), NEW t, IsTorsionExponent(t),
         NEW x \in Int, NEW y \in Int, NEW u \in Int, NEW v \in Int
  PROVE  PhiBasis(k, n, Lev(t, x, y, u, v))
           = Lev(t, a * x + b * y, c * x + z * y, a * u + b * v, c * u + z * v)
<1>1. \A i, j \in Int : Phi(k, n, At(t, i, j)) = At(t, a * i + b * j, c * i + z * j)
  BY DEF Linear
<1>2. /\ Phi(k, n, At(t, x, y)) = At(t, a * x + b * y, c * x + z * y)
      /\ Phi(k, n, At(t, u, v)) = At(t, a * u + b * v, c * u + z * v)
  BY <1>1
<1>3. Phi(k, n, At(t, x - u, y - v))
        = At(t, (a * x + b * y) - (a * u + b * v), (c * x + z * y) - (c * u + z * v))
  <2> DEFINE i == x - u
             j == y - v
  <2>1. i \in Int /\ j \in Int
    OBVIOUS
  <2>2. /\ a * i + b * j = (a * x + b * y) - (a * u + b * v)
        /\ c * i + z * j = (c * x + z * y) - (c * u + z * v)
    OBVIOUS
  <2> HIDE DEF i, j
  <2>3. Phi(k, n, At(t, i, j)) = At(t, a * i + b * j, c * i + z * j)
    BY <1>1, <2>1
  <2> QED BY <2>2, <2>3 DEF i, j
<1> DEFINE l == Lev(t, x, y, u, v)
<1>4. l.P = At(t, x, y) /\ l.PmQ = At(t, u, v) /\ l.Q = At(t, x - u, y - v)
  BY LevSlots
<1>5. PhiBasis(k, n, l) = FromPropagated(Phi(k, n, l.P), Phi(k, n, l.PmQ), Phi(k, n, l.Q))
  BY DEF PhiBasis
<1> HIDE DEF l
<1>6. PhiBasis(k, n, l)
        = FromPropagated(At(t, a * x + b * y, c * x + z * y), At(t, a * u + b * v, c * u + z * v),
                         At(t, (a * x + b * y) - (a * u + b * v), (c * x + z * y) - (c * u + z * v)))
  BY <1>2, <1>3, <1>4, <1>5
<1> QED BY <1>6 DEF Lev, l

\* A matrix may be applied before or after it.
LEMMA PhiMul ==
  ASSUME NEW k \in Point, NEW n \in Nat, n >= 1 => OfOrder(k, n),
         NEW t, IsTorsionExponent(t), NEW m \in IntMatrix,
         NEW x \in Int, NEW y \in Int, NEW u \in Int, NEW v \in Int
  PROVE  MulBasis(m, t, PhiBasis(k, n, Lev(t, x, y, u, v)))
           = PhiBasis(k, n, MulBasis(m, t, Lev(t, x, y, u, v)))
<1>1. PICK a \in Int, b \in Int, c \in Int, z \in Int : Linear(k, n, a, b, c, z)
  BY PhiAt
<1>2. PICK f \in Int, g \in Int, h \in Int, l \in Int :
        m[1][1] = f /\ m[1][2] = g /\ m[2][1] = h /\ m[2][2] = l
  BY DEF IntMatrix
<1>3. \A i, j, p, s \in Int :
        MulBasis(m, t, Lev(t, i, j, p, s))
          = Lev(t, f * i + h * p, f * j + h * s, g * i + l * p, g * j + l * s)
  BY <1>2, MulBasisAt
<1>4. \A i, j, p, s \in Int :
        PhiBasis(k, n, Lev(t, i, j, p, s))
          = Lev(t, a * i + b * j, c * i + z * j, a * p + b * s, c * p + z * s)
  BY <1>1, PhiLev
<1> DEFINE x1 == a * x + b * y
           y1 == c * x + z * y
           u1 == a * u + b * v
           v1 == c * u + z * v
           x2 == f * x + h * u
           y2 == f * y + h * v
           u2 == g * x + l * u
           v2 == g * y + l * v
<1>5. /\ f * x1 + h * u1 = a * x2 + b * y2 /\ f * y1 + h * v1 = c * x2 + z * y2
      /\ g * x1 + l * u1 = a * u2 + b * v2 /\ g * y1 + l * v1 = c * u2 + z * v2
  OBVIOUS
<1>6. /\ x1 \in Int /\ y1 \in Int /\ u1 \in Int /\ v1 \in Int
      /\ x2 \in Int /\ y2 \in Int /\ u2 \in Int /\ v2 \in Int
  OBVIOUS
<1>7. /\ PhiBasis(k, n, Lev(t, x, y, u, v)) = Lev(t, x1, y1, u1, v1)
      /\ MulBasis(m, t, Lev(t, x, y, u, v)) = Lev(t, x2, y2, u2, v2)
  BY <1>3, <1>4
<1> HIDE DEF x1, y1, u1, v1, x2, y2, u2, v2
<1>8. MulBasis(m, t, Lev(t, x1, y1, u1, v1))
        = Lev(t, f * x1 + h * u1, f * y1 + h * v1, g * x1 + l * u1, g * y1 + l * v1)
  BY <1>3, <1>6
<1>9. PhiBasis(k, n, Lev(t, x2, y2, u2, v2))
        = Lev(t, a * x2 + b * y2, c * x2 + z * y2, a * u2 + b * v2, c * u2 + z * v2)
  BY <1>4, <1>6
<1> QED BY <1>5, <1>7, <1>8, <1>9

\* The matrix of a signature takes the hinted basis of E_chl to the image
\* of the hinted basis of E_aux.
LEMMA AssembleEquation ==
  ASSUME NEW t \in Nat, t >= 1, t <= F,
         NEW b, Hinted(b), NEW c, Hinted(c),
         NEW k \in Point, NEW n \in Nat, n >= 1 => OfOrder(k, n),
         NEW m1, m1 = FromBasesInvert(b, ComAt(t), t), m1 # NoMatrix,
         NEW m, m = FromBases(c, MulBasis(m1, t, PhiBasis(k, n, ComAt(t))), t)
  PROVE  MulBasis(m, t, DoubleBasis(F - t, c)) = PhiBasis(k, n, DoubleBasis(F - t, b))
<1>1. IsTorsionExponent(t) /\ b \in Basis
  BY DEF IsTorsionExponent, Hinted, FullBasis
<1>2. ComAt(t) = Lev(t, 1, 0, 1, -1)
  <2>1. 1 - 1 = 0 /\ 0 - (-1) = 1
    OBVIOUS
  <2> QED BY <2>1 DEF ComAt, Lev
<1>3. m1 \in IntMatrix /\ MulBasis(m1, t, ComAt(t)) = DoubleBasis(F - t, b)
  <2>1. \A x, y, u, v \in Int :
          FromBasesInvert(b, Lev(t, x, y, u, v), t) # NoMatrix
            => /\ FromBasesInvert(b, Lev(t, x, y, u, v), t) \in IntMatrix
               /\ MulBasis(FromBasesInvert(b, Lev(t, x, y, u, v), t), t, Lev(t, x, y, u, v))
                    = DoubleBasis(F - t, b)
    BY MatrixForward
  <2>2. -1 \in Int /\ 0 \in Int /\ 1 \in Int
    OBVIOUS
  <2> QED BY <1>2, <2>1, <2>2
<1>4. MulBasis(m1, t, PhiBasis(k, n, ComAt(t))) = PhiBasis(k, n, MulBasis(m1, t, ComAt(t)))
  <2>1. \A x, y, u, v \in Int :
          MulBasis(m1, t, PhiBasis(k, n, Lev(t, x, y, u, v)))
            = PhiBasis(k, n, MulBasis(m1, t, Lev(t, x, y, u, v)))
    BY <1>1, <1>3, PhiMul
  <2>2. -1 \in Int /\ 0 \in Int /\ 1 \in Int
    OBVIOUS
  <2> QED BY <1>2, <2>1, <2>2
<1>5. PICK p1 \in Int, p2 \in Int, q1 \in Int, q2 \in Int :
        DoubleBasis(F - t, b) = Lev(t, p1, p2, q1, q2)
  BY <1>1, DoubleLevel DEF Hinted
<1>6. PICK x \in Int, y \in Int, u \in Int, v \in Int :
        PhiBasis(k, n, Lev(t, p1, p2, q1, q2)) = Lev(t, x, y, u, v)
  <2>1. PICK a \in Int, f \in Int, g \in Int, z \in Int : Linear(k, n, a, f, g, z)
    BY PhiAt
  <2>2. PhiBasis(k, n, Lev(t, p1, p2, q1, q2))
          = Lev(t, a * p1 + f * p2, g * p1 + z * p2, a * q1 + f * q2, g * q1 + z * q2)
    BY <1>1, <2>1, PhiLev
  <2>3. /\ a * p1 + f * p2 \in Int /\ g * p1 + z * p2 \in Int
        /\ a * q1 + f * q2 \in Int /\ g * q1 + z * q2 \in Int
    OBVIOUS
  <2> QED BY <2>2, <2>3
<1>7. m = FromBases(c, Lev(t, x, y, u, v), t)
  BY <1>3, <1>4, <1>5, <1>6
<1>8. MulBasis(FromBases(c, Lev(t, x, y, u, v), t), t, DoubleBasis(F - t, c)) = Lev(t, x, y, u, v)
  <2> DEFINE Back(l, i, j, p, s) ==
        MulBasis(FromBases(l, Lev(t, i, j, p, s), t), t, DoubleBasis(F - t, l)) = Lev(t, i, j, p, s)
  <2>1. \A l : Hinted(l) => \A i, j, p, s \in Int : Back(l, i, j, p, s)
    BY MatrixBack
  <2> QED BY <2>1
<1> QED BY <1>5, <1>6, <1>7, <1>8

-----------------------------------------------------------------------------
(* Parities                                                                *)

IsEven(x) == \E i \in Int : x = 2 * i

\* Even or odd, and how the code asks.
LEMMA EvenRemainder ==
  ASSUME NEW x \in Int
  PROVE  /\ IsEven(x) <=> x % 2 = 0
         /\ IsEven(x) \/ \E s \in Int : x = 2 * s + 1
         /\ \A s \in Int : x = 2 * s + 1 => ~IsEven(x)
<1>1. x = 2 * (x \div 2) + (x % 2) /\ x \div 2 \in Int /\ x % 2 \in 0 .. 1
  OBVIOUS
<1>2. ASSUME NEW i \in Int PROVE 2 * i # 1
  OBVIOUS
<1>3. IsEven(x) => x % 2 = 0
  BY DEF IsEven
<1>4. x % 2 = 0 => IsEven(x)
  BY <1>1 DEF IsEven
<1>5. x % 2 # 0 => \E s \in Int : x = 2 * s + 1
  BY <1>1
<1>6. \A s \in Int : x = 2 * s + 1 => ~IsEven(x)
  BY DEF IsEven
<1> QED BY <1>3, <1>4, <1>5, <1>6

\* Combinations of even numbers are even.
LEMMA EvenCombine ==
  ASSUME NEW x \in Int, NEW y \in Int, NEW m \in Int, NEW k \in Int, IsEven(x), IsEven(y)
  PROVE  IsEven(m * x + k * y)
<1>1. PICK i \in Int : x = 2 * i
  BY DEF IsEven
<1>2. PICK j \in Int : y = 2 * j
  BY DEF IsEven
<1>3. m * (2 * i) + k * (2 * j) = 2 * (m * i + k * j) /\ m * i + k * j \in Int
  OBVIOUS
<1>4. m * x + k * y = 2 * (m * i + k * j)
  BY <1>1, <1>2, <1>3
<1> QED BY <1>3, <1>4 DEF IsEven

\* An odd factor does not make a number even.
LEMMA EvenProduct ==
  ASSUME NEW x \in Int, NEW s \in Int, IsEven(x * (2 * s + 1))
  PROVE  IsEven(x)
<1>1. PICK i \in Int : x * (2 * s + 1) = 2 * i
  BY DEF IsEven
<1>2. x * (2 * s + 1) = 2 * (s * x) + x /\ s * x \in Int
  OBVIOUS
<1> DEFINE w == s * x
<1>3. w \in Int /\ x = 2 * i - 2 * w
  BY <1>1, <1>2
<1> HIDE DEF w
<1>4. x = 2 * (i - w) /\ i - w \in Int
  BY <1>3
<1> QED BY <1>4 DEF IsEven

\* Congruent numbers are even together.
LEMMA EvenCongruent ==
  ASSUME NEW t \in Nat, t >= 1, NEW a \in Int, NEW b \in Int, Congruent(a, b, t)
  PROVE  IsEven(a) <=> IsEven(b)
<1>1. PICK w \in Nat : 2^t = 2 * w
  <2>1. t - 1 \in Nat /\ (t - 1) + 1 = t
    OBVIOUS
  <2>2. 2^((t - 1) + 1) = 2 * 2^(t - 1) /\ 2^(t - 1) \in Nat
    BY <2>1, Pow2Succ, Pow2Nat
  <2> QED BY <2>1, <2>2
<1>2. PICK i \in Int : a = b + i * (2 * w)
  BY <1>1 DEF Congruent
<1> DEFINE z == i * w
<1>3. z \in Int /\ a = b + 2 * z
  <2>1. i * (2 * w) = 2 * (i * w)
    OBVIOUS
  <2> QED BY <1>2, <2>1
<1> HIDE DEF z
<1>4. ASSUME IsEven(b) PROVE IsEven(a)
  <2>1. PICK j \in Int : b = 2 * j
    BY <1>4 DEF IsEven
  <2>2. a = 2 * (j + z)
    BY <1>3, <2>1
  <2>3. j + z \in Int
    BY <1>3
  <2> QED BY <2>2, <2>3 DEF IsEven
<1>5. ASSUME IsEven(a) PROVE IsEven(b)
  <2>1. PICK j \in Int : a = 2 * j
    BY <1>5 DEF IsEven
  <2>2. b = 2 * (j - z)
    BY <1>3, <2>1
  <2>3. j - z \in Int
    BY <1>3
  <2> QED BY <2>2, <2>3 DEF IsEven
<1> QED BY <1>4, <1>5

\* The columns (x, y) and (u, v) have an odd determinant.
OddDet(x, y, u, v) == \E s \in Int : x * v - u * y = 2 * s + 1

\* The matrix with the columns (x, y) and (u, v) makes a column even only if it is.
KeepsParity(x, y, u, v) ==
  \A i, j \in Int : IsEven(i) /\ IsEven(j) <=> IsEven(x * i + u * j) /\ IsEven(y * i + v * j)

\* A matrix of odd determinant has no column that it makes even but an even one.
LEMMA EvenColumn ==
  ASSUME NEW r1 \in Int, NEW r2 \in Int, NEW s1 \in Int, NEW s2 \in Int,
         OddDet(r1, r2, s1, s2)
  PROVE  KeepsParity(r1, r2, s1, s2)
<1> SUFFICES ASSUME NEW m \in Int, NEW k \in Int
             PROVE  IsEven(m) /\ IsEven(k) <=> IsEven(r1 * m + s1 * k) /\ IsEven(r2 * m + s2 * k)
  BY DEF KeepsParity
<1>3. PICK s \in Int : r1 * s2 - s1 * r2 = 2 * s + 1
  BY DEF OddDet
<1>1. ASSUME IsEven(m), IsEven(k)
      PROVE  IsEven(r1 * m + s1 * k) /\ IsEven(r2 * m + s2 * k)
  BY <1>1, EvenCombine
<1>2. ASSUME IsEven(r1 * m + s1 * k), IsEven(r2 * m + s2 * k)
      PROVE  IsEven(m) /\ IsEven(k)
  <2> DEFINE f == r1 * m + s1 * k
             g == r2 * m + s2 * k
             u == -s1
             v == -r2
             dt == r1 * s2 - s1 * r2
  <2>1. f \in Int /\ g \in Int /\ u \in Int /\ v \in Int
    OBVIOUS
  <2>2. s2 * f + u * g = m * dt /\ v * f + r1 * g = k * dt
    OBVIOUS
  <2>3. IsEven(f) /\ IsEven(g)
    BY <1>2
  <2>4. dt = 2 * s + 1
    BY <1>3
  <2> HIDE DEF f, g, u, v, dt
  <2>5. IsEven(s2 * f + u * g) /\ IsEven(v * f + r1 * g)
    BY <2>1, <2>3, EvenCombine
  <2>6. IsEven(m * (2 * s + 1)) /\ IsEven(k * (2 * s + 1))
    BY <2>2, <2>4, <2>5
  <2> QED BY <2>6, EvenProduct
<1> QED BY <1>1, <1>2

\* The determinant of two coordinate pairs is odd.
OddCross(x, y, u, v) == \E s \in Int : x * v - u * y = 2 * s + 1

\* A matrix takes both of them to even numbers.
TakesToEven(a, b, c, z, x, y, u, v) ==
    /\ IsEven(a * x + b * y) /\ IsEven(c * x + z * y)
    /\ IsEven(a * u + b * v) /\ IsEven(c * u + z * v)

\* The image of a basis under the even isogeny keeps an odd entry.
LEMMA ImageKeepsOdd ==
  ASSUME NEW a \in Int, NEW b \in Int, NEW c \in Int, NEW z \in Int, a = 1 \/ z = 1,
         NEW x \in Int, NEW y \in Int, NEW u \in Int, NEW v \in Int, OddCross(x, y, u, v)
  PROVE  ~TakesToEven(a, b, c, z, x, y, u, v)
<1> SUFFICES ASSUME IsEven(a * x + b * y), IsEven(c * x + z * y),
                    IsEven(a * u + b * v), IsEven(c * u + z * v)
             PROVE  FALSE
  BY DEF TakesToEven
<1>0. PICK s \in Int : x * v - u * y = 2 * s + 1
  BY DEF OddCross
<1> DEFINE dt == x * v - u * y
           yn == -y
           un == -u
<1>1. dt \in Int /\ ~IsEven(dt) /\ yn \in Int /\ un \in Int
  <2>1. dt \in Int /\ dt = 2 * s + 1
    BY <1>0
  <2> HIDE DEF dt
  <2> QED BY <2>1, EvenRemainder
<1>2. CASE a = 1
  <2> DEFINE f == a * x + b * y
             g == a * u + b * v
  <2>1. IsEven(f) /\ IsEven(g) /\ f \in Int /\ g \in Int
    OBVIOUS
  <2>2. f = x + b * y /\ g = u + b * v
    BY <1>2
  <2>3. v * (x + b * y) + yn * (u + b * v) = dt
    OBVIOUS
  <2>4. v * f + yn * g = dt
    BY <2>2, <2>3
  <2> HIDE DEF f, g, dt, yn
  <2>5. IsEven(v * f + yn * g)
    BY <1>1, <2>1, EvenCombine
  <2> QED BY <1>1, <2>4, <2>5
<1>3. CASE z = 1
  <2> DEFINE f == c * x + z * y
             g == c * u + z * v
  <2>1. IsEven(f) /\ IsEven(g) /\ f \in Int /\ g \in Int
    OBVIOUS
  <2>2. f = c * x + y /\ g = c * u + v
    BY <1>3
  <2>3. un * (c * x + y) + x * (c * u + v) = dt
    OBVIOUS
  <2>4. un * f + x * g = dt
    BY <2>2, <2>3
  <2> HIDE DEF f, g, dt, un
  <2>5. IsEven(un * f + x * g)
    BY <1>1, <2>1, EvenCombine
  <2> QED BY <1>1, <2>4, <2>5
<1> QED BY <1>2, <1>3

-----------------------------------------------------------------------------
(* verify undoes the even response                                         *)

\* Equal points of level t have congruent coordinates.
LEMMA AtInjective ==
  ASSUME NEW t, IsTorsionExponent(t), NEW x \in Int, NEW y \in Int, NEW u \in Int, NEW v \in Int,
         At(t, x, y) = At(t, u, v)
  PROVE  Congruent(x, u, t) /\ Congruent(y, v, t)
<1>1. Scaled(t, x) = Scaled(t, u) /\ Scaled(t, y) = Scaled(t, v)
  BY DEF At
<1>2. x % 2^t = u % 2^t /\ y % 2^t = v % 2^t
  <2>1. \A z \in Int : Scaled(t, z) \div 2^(F - t) = z % 2^t
    BY ScaledDown
  <2> QED BY <1>1, <2>1
<1>3. 2^t \in Nat /\ 2^t > 0
  BY Level
<1> QED BY <1>2, <1>3, ResidueGap DEF Congruent

\* The determinant of a hinted basis is odd, before it is reduced too.
LEMMA HintedOdd ==
  ASSUME NEW b, Hinted(b)
  PROVE  /\ b.P[1] \in Int /\ b.P[2] \in Int /\ b.PmQ[1] \in Int /\ b.PmQ[2] \in Int
         /\ \E s \in Int : b.P[1] * b.PmQ[2] - b.PmQ[1] * b.P[2] = 2 * s + 1
<1>1. b.P \in Point /\ b.PmQ \in Point
  BY DEF Hinted, FullBasis, Basis
<1>2. b.P[1] \in Int /\ b.P[2] \in Int /\ b.PmQ[1] \in Int /\ b.PmQ[2] \in Int
  BY <1>1, AtTop
<1> DEFINE x == b.P[1] * b.PmQ[2] - b.PmQ[1] * b.P[2]
<1>3. x \in Int
  BY <1>2
<1>4. (x % 2^F) % 2 = 1
  BY DEF Hinted, FullBasis, Det, Columns
<1> HIDE DEF x
<1>5. PICK m \in Int : x % 2^F = m /\ Congruent(x, m, F)
  BY <1>3, PowF, CongruentMod
<1>6. ~IsEven(m)
  <2>1. m % 2 = 1
    BY <1>4, <1>5
  <2> QED BY <2>1, EvenRemainder
<1>7. ~IsEven(x)
  <2>1. Congruent(x, m, F) /\ F \in Nat /\ F >= 1
    BY <1>5, FAssumption
  <2> QED BY <1>3, <1>6, <2>1, EvenCongruent
<1>8. \E s \in Int : x = 2 * s + 1
  BY <1>3, <1>7, EvenRemainder
<1> QED BY <1>2, <1>8 DEF x

\* The dual of the image of a point is the point, doubled n times.
Undoes(k, n, a, b, c, z, t) ==
  \A x, y \in Int : EvenDual(k, n, At(t, a * x + b * y, c * x + z * y)) = At(t - n, x, y)

\* An even isogeny's dual undoes it at every level, as far as 2^n allows.
LEMMA DualOfImage ==
  ASSUME NEW k, NEW n \in Nat, NEW a \in Int, NEW b \in Int, NEW c \in Int, NEW z \in Int,
         ActsAs(k, n, a, b, c, z),
         NEW t, IsTorsionExponent(t), n <= t
  PROVE  Undoes(k, n, a, b, c, z, t)
<1> SUFFICES ASSUME NEW x \in Int, NEW y \in Int
             PROVE  EvenDual(k, n, At(t, a * x + b * y, c * x + z * y)) = At(t - n, x, y)
  BY DEF Undoes
<1> DEFINE f == a * x + b * y
           g == c * x + z * y
<1>1. PICK w \in Nat : w = 2^n
  BY Pow2Nat
<1>2. z * f - b * g = (a * z - b * c) * x /\ a * g - c * f = (a * z - b * c) * y
  OBVIOUS
<1>3. z * f - b * g = w * x /\ a * g - c * f = w * y
  <2> DEFINE dt == a * z - b * c
  <2>1. dt = w
    BY <1>1 DEF ActsAs
  <2>2. z * f - b * g = dt * x /\ a * g - c * f = dt * y
    BY <1>2
  <2> HIDE DEF dt
  <2> QED BY <2>1, <2>2
<1>4. f \in Int /\ g \in Int
  OBVIOUS
<1> HIDE DEF f, g
<1>5. EvenDual(k, n, At(t, f, g)) = At(t, z * f - b * g, a * g - c * f)
  BY <1>4 DEF ActsAs
<1>6. Times(w, At(t, x, y)) = At(t, w * x, w * y)
  BY AtTimes
<1>7. DoubleN(n, At(t, x, y)) = At(t - n, x, y)
  BY AtDouble
<1>8. Times(w, At(t, x, y)) = DoubleN(n, At(t, x, y))
  BY <1>1 DEF DoubleN
<1> QED BY <1>3, <1>5, <1>6, <1>7, <1>8 DEF f, g

\* The dual of the image of a basis.
LEMMA DualOfBasis ==
  ASSUME NEW k, NEW n \in Nat, NEW a \in Int, NEW b \in Int, NEW c \in Int, NEW z \in Int,
         ActsAs(k, n, a, b, c, z),
         NEW t, IsTorsionExponent(t), n <= t,
         NEW x \in Int, NEW y \in Int, NEW u \in Int, NEW v \in Int,
         NEW l, l = Lev(t, a * x + b * y, c * x + z * y, a * u + b * v, c * u + z * v)
  PROVE  FromPropagated(EvenDual(k, n, l.P), EvenDual(k, n, l.PmQ), EvenDual(k, n, l.Q))
           = Lev(t - n, x, y, u, v)
<1>1. \A i, j \in Int : EvenDual(k, n, At(t, a * i + b * j, c * i + z * j)) = At(t - n, i, j)
  <2>1. Undoes(k, n, a, b, c, z, t)
    BY DualOfImage
  <2> QED BY <2>1 DEF Undoes
<1>2. /\ EvenDual(k, n, At(t, a * x + b * y, c * x + z * y)) = At(t - n, x, y)
      /\ EvenDual(k, n, At(t, a * u + b * v, c * u + z * v)) = At(t - n, u, v)
  BY <1>1
<1>3. EvenDual(k, n, At(t, (a * x + b * y) - (a * u + b * v), (c * x + z * y) - (c * u + z * v)))
        = At(t - n, x - u, y - v)
  <2> DEFINE i == x - u
             j == y - v
  <2>1. i \in Int /\ j \in Int
    OBVIOUS
  <2>2. /\ a * i + b * j = (a * x + b * y) - (a * u + b * v)
        /\ c * i + z * j = (c * x + z * y) - (c * u + z * v)
    OBVIOUS
  <2> HIDE DEF i, j
  <2>3. EvenDual(k, n, At(t, a * i + b * j, c * i + z * j)) = At(t - n, i, j)
    BY <1>1, <2>1
  <2> QED BY <2>2, <2>3 DEF i, j
<1> DEFINE f == a * x + b * y
           g == c * x + z * y
           h == a * u + b * v
           p == c * u + z * v
<1>4. /\ EvenDual(k, n, At(t, f, g)) = At(t - n, x, y)
      /\ EvenDual(k, n, At(t, h, p)) = At(t - n, u, v)
      /\ EvenDual(k, n, At(t, f - h, g - p)) = At(t - n, x - u, y - v)
      /\ l = Lev(t, f, g, h, p)
  BY <1>2, <1>3
<1> HIDE DEF f, g, h, p
<1>5. l.P = At(t, f, g) /\ l.PmQ = At(t, h, p) /\ l.Q = At(t, f - h, g - p)
  BY <1>4, LevSlots
<1> QED BY <1>4, <1>5 DEF Lev

\* The column that verify chooses has an odd entry, as a point on E_chl.
LEMMA ChosenColumnOdd ==
  ASSUME NEW t \in Nat, t >= 1, t <= F, NEW b, Hinted(b), NEW c, Hinted(c), NEW m \in IntMatrix,
         NEW f1 \in Int, NEW f2 \in Int, NEW g1 \in Int, NEW g2 \in Int,
         MulBasis(m, t, DoubleBasis(F - t, c)) = Lev(t, f1, f2, g1, g2),
         ~(IsEven(f1) /\ IsEven(f2) /\ IsEven(g1) /\ IsEven(g2))
  PROVE  IF FirstColumnEven(m) THEN ~(IsEven(g1) /\ IsEven(g2)) ELSE ~(IsEven(f1) /\ IsEven(f2))
<1>1. IsTorsionExponent(t) /\ c \in Basis /\ c.Q = Sub(c.P, c.PmQ)
  BY DEF IsTorsionExponent, Hinted, FullBasis
<1>2. PICK r1 \in Int, r2 \in Int, s1 \in Int, s2 \in Int :
        /\ c.P[1] = r1 /\ c.P[2] = r2 /\ c.PmQ[1] = s1 /\ c.PmQ[2] = s2
        /\ DoubleBasis(F - t, c) = Lev(t, r1, r2, s1, s2)
  BY <1>1, DoubleLevel
<1>3. OddDet(r1, r2, s1, s2)
  <2>1. \E s \in Int : c.P[1] * c.PmQ[2] - c.PmQ[1] * c.P[2] = 2 * s + 1
    BY HintedOdd
  <2> QED BY <1>2, <2>1 DEF OddDet
<1>4. PICK a \in Int, e \in Int, h \in Int, l \in Int :
        m[1][1] = a /\ m[1][2] = e /\ m[2][1] = h /\ m[2][2] = l
  BY DEF IntMatrix
<1>5. Lev(t, f1, f2, g1, g2)
        = Lev(t, a * r1 + h * s1, a * r2 + h * s2, e * r1 + l * s1, e * r2 + l * s2)
  <2>1. MulBasis(m, t, Lev(t, r1, r2, s1, s2))
          = Lev(t, a * r1 + h * s1, a * r2 + h * s2, e * r1 + l * s1, e * r2 + l * s2)
    BY <1>1, <1>4, MulBasisAt
  <2> QED BY <1>2, <2>1
<1> DEFINE i1 == r1 * a + s1 * h
           i2 == r2 * a + s2 * h
<1>6. i1 \in Int /\ i2 \in Int /\ a * r1 + h * s1 = i1 /\ a * r2 + h * s2 = i2
  OBVIOUS
<1>7. (IsEven(a) /\ IsEven(h)) <=> (IsEven(i1) /\ IsEven(i2))
  <2>1. KeepsParity(r1, r2, s1, s2)
    BY <1>3, EvenColumn
  <2> QED BY <2>1 DEF KeepsParity
<1> HIDE DEF i1, i2
<1>8. (IsEven(f1) <=> IsEven(i1)) /\ (IsEven(f2) <=> IsEven(i2))
  <2>1. At(t, f1, f2) = At(t, i1, i2)
    <3> DEFINE u == e * r1 + l * s1
               v == e * r2 + l * s2
    <3> HIDE DEF u, v
    <3>1. Lev(t, f1, f2, g1, g2) = Lev(t, i1, i2, u, v)
      BY <1>5, <1>6 DEF u, v
    <3>2. Lev(t, f1, f2, g1, g2).P = At(t, f1, f2) /\ Lev(t, i1, i2, u, v).P = At(t, i1, i2)
      BY LevSlots
    <3> QED BY <3>1, <3>2
  <2>2. Congruent(f1, i1, t) /\ Congruent(f2, i2, t)
    BY <1>1, <1>6, <2>1, AtInjective
  <2> QED BY <1>6, <2>2, EvenCongruent
<1>9. FirstColumnEven(m) <=> IsEven(a) /\ IsEven(h)
  <2>1. (IsEven(a) <=> a % 2 = 0) /\ (IsEven(h) <=> h % 2 = 0)
    BY EvenRemainder
  <2>2. FirstColumnEven(m) <=> a % 2 = 0 /\ h % 2 = 0
    BY <1>4 DEF FirstColumnEven
  <2> QED BY <2>1, <2>2
<1> QED BY <1>7, <1>8, <1>9

\* What verify does with an even response of its own signer: the kernel of
\* the dual has order 2^n, the dual kills it, and it takes the basis on
\* E_chl to the one on E_aux.
LEMMA EvenUndone ==
  ASSUME NEW e \in Nat, NEW n \in Nat, n >= 1, e + 2 + n <= F,
         NEW b, Hinted(b), NEW c, Hinted(c), NEW m \in IntMatrix,
         NEW k \in Point, OfOrder(k, n),
         NEW v, v = MulBasis(m, e + 2 + n, DoubleBasis(F - (e + 2 + n), c)),
         v = PhiBasis(k, n, DoubleBasis(F - (e + 2 + n), b))
  PROVE  LET p == DoubleN(e + 2, IF FirstColumnEven(m) THEN v.PmQ ELSE v.P)
         IN  /\ OfOrder(p, n) /\ EvenDual(k, n, p) = O
             /\ FromPropagated(EvenDual(k, n, v.P), EvenDual(k, n, v.PmQ), EvenDual(k, n, v.Q))
                  = DoubleBasis(F - (e + 2), b)
<1> DEFINE t == e + 2 + n
<1>1. /\ t \in Nat /\ t >= 1 /\ t <= F /\ n <= t /\ t - n = e + 2 /\ e + 2 \in Nat /\ e + 2 <= t
      /\ t - (e + 2) = n /\ n <= F
      /\ IsTorsionExponent(t) /\ IsTorsionExponent(n) /\ IsTorsionExponent(e + 2)
  BY PowF DEF IsTorsionExponent
<1>2. /\ v = MulBasis(m, t, DoubleBasis(F - t, c))
      /\ v = PhiBasis(k, n, DoubleBasis(F - t, b))
  OBVIOUS
<1> HIDE DEF t
<1>3. b \in Basis /\ b.Q = Sub(b.P, b.PmQ)
  BY DEF Hinted, FullBasis
<1>4. PICK x \in Int, y \in Int, u \in Int, z \in Int :
        /\ b.P[1] = x /\ b.P[2] = y /\ b.PmQ[1] = u /\ b.PmQ[2] = z
        /\ DoubleBasis(F - t, b) = Lev(t, x, y, u, z)
        /\ DoubleBasis(F - (e + 2), b) = Lev(e + 2, x, y, u, z)
  <2>1. /\ DoubleBasis(F - t, b) = Lev(t, b.P[1], b.P[2], b.PmQ[1], b.PmQ[2])
        /\ b.P[1] \in Int /\ b.P[2] \in Int /\ b.PmQ[1] \in Int /\ b.PmQ[2] \in Int
    BY <1>1, <1>3, DoubleLevel
  <2>2. DoubleBasis(F - (e + 2), b) = Lev(e + 2, b.P[1], b.P[2], b.PmQ[1], b.PmQ[2])
    BY <1>1, <1>3, DoubleLevel
  <2> QED BY <2>1, <2>2
<1>5. PICK s \in Int : x * z - u * y = 2 * s + 1
  <2>1. \E s \in Int : b.P[1] * b.PmQ[2] - b.PmQ[1] * b.P[2] = 2 * s + 1
    BY HintedOdd
  <2> QED BY <1>4, <2>1
<1>6. PICK a \in Int, f \in Int, g \in Int, h \in Int :
        ActsAs(k, n, a, f, g, h) /\ (a = 1 \/ h = 1)
  BY EvenMapsAt
<1>7. Linear(k, n, a, f, g, h)
  <2>1. n # 0
    OBVIOUS
  <2> QED BY <1>6, <2>1 DEF Linear, ActsAs, Phi
<1> DEFINE f1 == a * x + f * y
           f2 == g * x + h * y
           g1 == a * u + f * z
           g2 == g * u + h * z
<1>8. f1 \in Int /\ f2 \in Int /\ g1 \in Int /\ g2 \in Int
  OBVIOUS
<1>9. v = Lev(t, f1, f2, g1, g2)
  <2>1. PhiBasis(k, n, Lev(t, x, y, u, z)) = Lev(t, f1, f2, g1, g2)
    BY <1>1, <1>7, PhiLev
  <2> QED BY <1>2, <1>4, <2>1
<1>10. ~(IsEven(f1) /\ IsEven(f2) /\ IsEven(g1) /\ IsEven(g2))
  <2> SUFFICES ASSUME IsEven(f1), IsEven(f2), IsEven(g1), IsEven(g2) PROVE FALSE
    OBVIOUS
  <2>1. OddCross(x, y, u, z) /\ (a = 1 \/ h = 1)
    BY <1>5, <1>6 DEF OddCross
  <2>2. TakesToEven(a, f, g, h, x, y, u, z)
    BY DEF TakesToEven
  <2> QED BY <2>1, <2>2, ImageKeepsOdd
<1>11. Undoes(k, n, a, f, g, h, n)
  <2>1. n <= n
    OBVIOUS
  <2> QED BY <1>1, <1>6, <2>1, DualOfImage
<1>12. EvenDual(k, n, At(n, f1, f2)) = O /\ EvenDual(k, n, At(n, g1, g2)) = O
  <2>1. \A i, j \in Int : At(n - n, i, j) = O
    <3>1. n - n = 0
      OBVIOUS
    <3> QED BY <3>1, AtBottom
  <2>2. /\ EvenDual(k, n, At(n, a * x + f * y, g * x + h * y)) = At(n - n, x, y)
        /\ EvenDual(k, n, At(n, a * u + f * z, g * u + h * z)) = At(n - n, u, z)
    BY <1>11 DEF Undoes
  <2> QED BY <2>1, <2>2
<1>13. FromPropagated(EvenDual(k, n, v.P), EvenDual(k, n, v.PmQ), EvenDual(k, n, v.Q))
         = Lev(t - n, x, y, u, z)
  <2>1. v = Lev(t, a * x + f * y, g * x + h * y, a * u + f * z, g * u + h * z)
    BY <1>9
  <2> QED BY <1>1, <1>6, <2>1, DualOfBasis
<1> HIDE DEF f1, f2, g1, g2
<1>14. IF FirstColumnEven(m) THEN ~(IsEven(g1) /\ IsEven(g2)) ELSE ~(IsEven(f1) /\ IsEven(f2))
  <2>1. MulBasis(m, t, DoubleBasis(F - t, c)) = Lev(t, f1, f2, g1, g2)
    BY <1>2, <1>9
  <2> QED BY <1>1, <1>8, <1>10, <2>1, ChosenColumnOdd
<1>15. v.P = At(t, f1, f2) /\ v.PmQ = At(t, g1, g2)
  BY <1>9, LevSlots
<1>16. DoubleN(e + 2, v.P) = At(n, f1, f2) /\ DoubleN(e + 2, v.PmQ) = At(n, g1, g2)
  <2>1. \A i, j \in Int : DoubleN(e + 2, At(t, i, j)) = At(t - (e + 2), i, j)
    BY <1>1, AtDouble
  <2> QED BY <1>1, <1>8, <1>15, <2>1
<1>17. \A i, j \in Int : ~(IsEven(i) /\ IsEven(j)) => OfOrder(At(n, i, j), n)
  <2> TAKE i, j \in Int
  <2>1. (IsEven(i) <=> i % 2 = 0) /\ (IsEven(j) <=> j % 2 = 0)
    BY EvenRemainder
  <2> QED BY <1>1, <2>1, OddIsFull
<1>18. CASE FirstColumnEven(m)
  <2>1. OfOrder(At(n, g1, g2), n)
    BY <1>8, <1>14, <1>17, <1>18
  <2> QED BY <1>1, <1>4, <1>12, <1>13, <1>16, <1>18, <2>1
<1>19. CASE ~FirstColumnEven(m)
  <2>1. OfOrder(At(n, f1, f2), n)
    BY <1>8, <1>14, <1>17, <1>19
  <2> QED BY <1>1, <1>4, <1>12, <1>13, <1>16, <1>19, <2>1
<1> QED BY <1>18, <1>19

\* A hinted basis, brought to level t, generates the 2^t torsion.
LEMMA HintedGenerates ==
  ASSUME NEW t \in Nat, t >= 1, t <= F, NEW b, Hinted(b)
  PROVE  IsBasisOf(DoubleBasis(F - t, b), t)
<1>1. IsTorsionExponent(t) /\ b \in Basis /\ b.Q = Sub(b.P, b.PmQ)
  BY DEF IsTorsionExponent, Hinted, FullBasis
<1>2. PICK x \in Int, y \in Int, u \in Int, z \in Int :
        /\ b.P[1] = x /\ b.P[2] = y /\ b.PmQ[1] = u /\ b.PmQ[2] = z
        /\ DoubleBasis(F - t, b) = Lev(t, x, y, u, z)
  BY <1>1, DoubleLevel
<1>3. \E s \in Int : x * z - u * y = 2 * s + 1
  <2>1. \E s \in Int : b.P[1] * b.PmQ[2] - b.PmQ[1] * b.P[2] = 2 * s + 1
    BY HintedOdd
  <2> QED BY <1>2, <2>1
<1>4. DoubleBasis(F - t, b) = FromPropagated(At(t, x, y), At(t, u, z), At(t, x - u, y - z))
  BY <1>2 DEF Lev
<1> QED BY <1>3, <1>4, OddDetGenerates

-----------------------------------------------------------------------------
(* The inductive invariant: what sign has in hand and what verify knows    *)

\* The stages at which the challenge is known.
Challenged ==
  {"sample", "degrees", "split", "kernel", "even", "challenge", "assemble", "signed"}

ChallengeKnown == pc \in Challenged => chl \in Chls

\* The bases on E_aux and E_chl, from the (2,2)-chain to the matrix.
BasesMatch ==
  /\ pc \in {"kernel", "even", "challenge", "assemble"} => auxBasis = Pushed(ComBasis, ePrime, r)
  /\ pc \in {"kernel", "even"} => chlBasis = auxBasis
  /\ pc \in {"challenge", "assemble"} => chlBasis = PhiBasis(even, r, auxBasis)
  /\ pc = "even" => act \in Actions(r) /\ even = EvenKernel(act, chlBasis, ePrime, r)

\* The equation that a signature promises of the points of its two curves:
\* the matrix takes the hinted basis of E_chl where the response takes that
\* of E_aux.
Promise ==
  LET o == E + 2 - sig.nbt
  IN  MulBasis(sig.m, o, DoubleBasis(F - o, sig.chlBasis))
        = PhiBasis(sig.even, sig.r, DoubleBasis(F - o, sig.aux))

SignatureTrue ==
  pc = "signed" =>
    /\ sig.nbt = nbt /\ sig.r = r /\ sig.chl = chl /\ sig.kernel = ChallengeKernel(chl, nbt)
    /\ Hinted(sig.aux) /\ Hinted(sig.chlBasis)
    /\ Promise

ResponseInv == ChallengeKnown /\ BasesMatch /\ SignatureTrue

\* The verifier holds this signer's signature.
SignerHasSent ==
  /\ pc = "signed" /\ vpc # "idle" /\ wire = ToBytes(sig)
  /\ curves = [kernel |-> sig.kernel, chlBasis |-> sig.chlBasis, even |-> sig.even, r |-> sig.r]

\* What verify has computed from it.
Progress ==
  /\ vpc \in {"even", "chain"} =>
       /\ verEPrime = E - sig.nbt - sig.r
       /\ verAux = DoubleBasis(AuxShift(verEPrime), sig.aux)
  /\ vpc = "even" =>
       LET o == E + 2 - sig.nbt
       IN  sig.r >= 1 /\ verChl = MulBasis(sig.m, o, DoubleBasis(F - o, sig.chlBasis))
  /\ vpc = "chain" => onF1 /\ verChl = verAux
  /\ vpc = "done" => verdict = "accepted"

Received == curves # NoCurves => SignerHasSent /\ Progress

RInv == IInv /\ ResponseInv /\ Received

\* What a basis found by a hint is.
LEMMA BasesHinted == \A b \in Bases : Hinted(b)
BY SigningAssumption DEF Hinted, FullBasis

\* The invariant holds when sign is called.
LEMMA InitResponse == Init => ResponseInv /\ Received
BY DEF Init, SignInit, VerifyInit, ResponseInv, ChallengeKnown, Challenged, BasesMatch,
       SignatureTrue, Received

\* A step of the signer finds the verifier without curves, and leaves it so.
LEMMA SignerKeepsReceived ==
  ASSUME Received, vpc = "idle", UNCHANGED verifyVars
  PROVE  Received'
BY DEF Received, SignerHasSent, verifyVars

\* A step that leaves the signer's variables alone keeps what holds of them.
LEMMA ResponseFrame ==
  ASSUME ResponseInv, UNCHANGED signVars
  PROVE  ResponseInv'
BY DEF ResponseInv, ChallengeKnown, Challenged, BasesMatch, SignatureTrue, Promise, Hinted,
       FullBasis, signVars, attempt

\* A fresh attempt promises nothing.
LEMMA NextAttemptResponse ==
  ASSUME NextAttempt
  PROVE  ResponseInv'
<1>1. pc' \in {"commit", "failed"}
  BY DEF NextAttempt
<1> QED BY <1>1 DEF ResponseInv, ChallengeKnown, Challenged, BasesMatch, SignatureTrue

\* Nor does giving up.
LEMMA GiveUpResponse ==
  ASSUME GiveUp
  PROVE  ResponseInv'
BY DEF GiveUp, ResponseInv, ChallengeKnown, Challenged, BasesMatch, SignatureTrue

\* A sample that is refused keeps the challenge.
LEMMA SampleFailsResponse ==
  ASSUME ResponseInv, pc = "sample", SampleFails
  PROVE  ResponseInv'
<1>1. CASE tries + 1 < MaxTries
  BY <1>1 DEF SampleFails, attempt, ResponseInv, ChallengeKnown, Challenged, BasesMatch,
              SignatureTrue
<1>2. CASE ~(tries + 1 < MaxTries)
  BY <1>2, NextAttemptResponse DEF SampleFails
<1> QED BY <1>1, <1>2

\* The commitment picks the challenge.
LEMMA CommitResponse ==
  ASSUME Commit
  PROVE  ResponseInv'
BY DEF Commit, ResponseInv, ChallengeKnown, Challenged, BasesMatch, SignatureTrue

\* A sample that is taken keeps the challenge.
LEMMA SampleResponse ==
  ASSUME ResponseInv, Sample
  PROVE  ResponseInv'
<1>1. PICK c \in 1 .. Radius(norm), n \in Int : pc = "sample" /\ Backtrack(c, n)
  BY DEF Sample
<1>2. CASE pc' = "panicked"
  BY <1>2 DEF ResponseInv, ChallengeKnown, Challenged, BasesMatch, SignatureTrue
<1>3. CASE SampleFails
  BY <1>1, <1>3, SampleFailsResponse
<1>4. CASE pc' = "degrees" /\ chl' = chl
  BY <1>1, <1>4 DEF ResponseInv, ChallengeKnown, Challenged, BasesMatch, SignatureTrue
<1> QED BY <1>1, <1>2, <1>3, <1>4 DEF Backtrack

\* The degrees do not touch the challenge.
LEMMA DegreesResponse ==
  ASSUME ResponseInv, Degrees
  PROVE  ResponseInv'
<1>1. pc = "degrees"
  BY DEF Degrees
<1>2. CASE GiveUp
  BY <1>2, GiveUpResponse
<1>3. CASE pc' = "split" /\ chl' = chl
  BY <1>1, <1>3 DEF ResponseInv, ChallengeKnown, Challenged, BasesMatch, SignatureTrue
<1> QED BY <1>2, <1>3 DEF Degrees

\* An odd response leaves a basis as it is.
LEMMA OddResponse ==
  ASSUME NEW k, NEW b \in Basis
  PROVE  PhiBasis(k, 0, b) = b
BY DEF PhiBasis, Phi, FromPropagated, Basis

\* The (2,2)-chain leaves both bases at the level of the response.
LEMMA SplitResponse ==
  ASSUME IInv, ResponseInv, Split
  PROVE  ResponseInv'
<1> DEFINE b == Pushed(ComBasis, ePrime, r)
<1>1. pc = "split" /\ r \in Nat /\ ePrime \in Nat /\ ePrime >= 1 /\ nbt \in Nat
      /\ nbt + r + ePrime = E
  BY DEF Split, IInv, TypeOK, DegreesInRange, HasDegrees
<1>2. b \in Basis
  <2>1. F - (ePrime + 2 + r) \in Nat
    BY <1>1, Constants
  <2> QED BY <2>1, ComBasisType, DoubleBasisType DEF Pushed, ReducedOrder
<1>3. /\ pc' = IF r > 0 THEN "kernel" ELSE "challenge"
      /\ chlBasis' = b /\ auxBasis' = b
      /\ chl' = chl /\ r' = r /\ ePrime' = ePrime
  BY <1>1 DEF Split
<1>4. Pushed(ComBasis, ePrime, r)' = b
  BY <1>3
<1> HIDE DEF b
<1>5. pc' = "challenge" => chlBasis' = PhiBasis(even, r, auxBasis)'
  <2> SUFFICES ASSUME pc' = "challenge" PROVE chlBasis' = PhiBasis(even', r', auxBasis')
    BY DEF PhiBasis, Phi
  <2>1. r' = 0
    BY <1>1, <1>3
  <2> QED BY <1>2, <1>3, <2>1, OddResponse
<1>6. BasesMatch'
  BY <1>3, <1>4, <1>5 DEF BasesMatch
<1> QED BY <1>1, <1>3, <1>6 DEF ResponseInv, ChallengeKnown, Challenged, SignatureTrue

\* The kernel of the even response is the one alpha's action gives.
LEMMA FromQuaternionResponse ==
  ASSUME ResponseInv, FromQuaternion
  PROVE  ResponseInv'
<1>1. /\ pc = "kernel" /\ pc' = "even" /\ act' \in Actions(r)
      /\ even' = EvenKernel(act', chlBasis, ePrime, r)
      /\ chl' = chl /\ r' = r /\ ePrime' = ePrime
      /\ chlBasis' = chlBasis /\ auxBasis' = auxBasis
  BY DEF FromQuaternion
<1>2. BasesMatch'
  BY <1>1 DEF BasesMatch, ResponseInv
<1> QED BY <1>1, <1>2 DEF ResponseInv, ChallengeKnown, Challenged, SignatureTrue

\* The even response is applied to the basis of the (2,2)-chain.
LEMMA EvenResponseResponse ==
  ASSUME IInv, ResponseInv, EvenResponse
  PROVE  ResponseInv'
<1>1. /\ pc = "even" /\ pc' = "challenge" /\ chlBasis = auxBasis
      /\ auxBasis = Pushed(ComBasis, ePrime, r)
      /\ chl' = chl /\ r' = r /\ ePrime' = ePrime /\ even' = even /\ auxBasis' = auxBasis
      /\ chlBasis' = MapBasis(LAMBDA p : EvenImage(even, r, p), chlBasis)
  BY DEF EvenResponse, ResponseInv, BasesMatch
<1>2. r # 0
  BY <1>1, Constants DEF IInv, TypeOK, SignerInv
<1>3. chlBasis' = PhiBasis(even, r, auxBasis)
  BY <1>1, <1>2 DEF PhiBasis, Phi, MapBasis
<1>4. PhiBasis(even, r, auxBasis)' = PhiBasis(even, r, auxBasis)
  BY <1>1
<1>5. Pushed(ComBasis, ePrime, r)' = Pushed(ComBasis, ePrime, r)
  BY <1>1
<1>6. BasesMatch'
  BY <1>1, <1>3, <1>4, <1>5 DEF BasesMatch
<1> QED BY <1>1, <1>6 DEF ResponseInv, ChallengeKnown, Challenged, SignatureTrue

\* The challenge isogeny of the signer changes no point.
LEMMA ToIsogenyResponse ==
  ASSUME ResponseInv, ToIsogeny
  PROVE  ResponseInv'
<1>1. pc = "challenge" /\ pc' = "assemble" /\ UNCHANGED attempt
  BY DEF ToIsogeny
<1>2. BasesMatch'
  BY <1>1 DEF attempt, BasesMatch, ResponseInv
<1> QED BY <1>1, <1>2 DEF attempt, ResponseInv, ChallengeKnown, Challenged, SignatureTrue

\* The matrix of the signature satisfies its promise.
LEMMA AssembleResponse ==
  ASSUME IInv, ResponseInv, Assemble
  PROVE  ResponseInv'
<1> DEFINE t == ePrime + r + 2
<1>1. /\ pc = "assemble" /\ nbt \in Nat /\ r \in Nat /\ ePrime \in Nat
      /\ ePrime >= 1 /\ nbt + r + ePrime = E /\ even \in Point
      /\ r >= 1 => OfOrder(even, r)
      /\ auxBasis = Pushed(ComBasis, ePrime, r) /\ chlBasis = PhiBasis(even, r, auxBasis)
      /\ chl \in Chls
  BY DEF Assemble, IInv, TypeOK, DegreesInRange, HasDegrees, SignerInv, ResponseInv, BasesMatch,
         ChallengeKnown, Challenged
<1>2. t \in Nat /\ t >= 1 /\ t <= F /\ t = E + 2 - nbt /\ ReducedOrder(ePrime, r) = t
  BY <1>1, Constants DEF ReducedOrder
<1>3. PICK detAux \in Bases, detChl \in Bases :
        LET m1   == FromBasesInvert(detAux, auxBasis, t)
            mChl == FromBases(detChl, MulBasis(m1, t, chlBasis), t)
        IN  IF ~IsTorsionExponent(t) THEN GiveUp
            ELSE IF m1 = NoMatrix THEN NextAttempt
            ELSE /\ pc' = "signed"
                 /\ sig' = [nbt |-> nbt, r |-> r, m |-> mChl, chl |-> chl,
                            aux |-> detAux, kernel |-> ChallengeKernel(chl, nbt),
                            chlBasis |-> detChl, even |-> even]
                 /\ UNCHANGED <<iter, tries, attempt>>
  BY DEF Assemble
<1> HIDE DEF t
<1>4. IsTorsionExponent(t)
  BY <1>2, Constants DEF IsTorsionExponent
<1> DEFINE m1 == FromBasesInvert(detAux, auxBasis, t)
           mChl == FromBases(detChl, MulBasis(m1, t, chlBasis), t)
<1>5. CASE m1 = NoMatrix
  BY <1>3, <1>4, <1>5, NextAttemptResponse
<1>6. CASE m1 # NoMatrix
  <2>1. /\ pc' = "signed"
        /\ sig' = [nbt |-> nbt, r |-> r, m |-> mChl, chl |-> chl,
                   aux |-> detAux, kernel |-> ChallengeKernel(chl, nbt),
                   chlBasis |-> detChl, even |-> even]
        /\ UNCHANGED attempt
    BY <1>3, <1>4, <1>6
  <2>2. auxBasis = ComAt(t)
    BY <1>1, <1>2, EvenLevel
  <2>3. m1 = FromBasesInvert(detAux, ComAt(t), t)
    BY <2>2
  <2>4. mChl = FromBases(detChl, MulBasis(m1, t, PhiBasis(even, r, ComAt(t))), t)
    BY <1>1, <2>2
  <2>5. Hinted(detAux) /\ Hinted(detChl)
    BY BasesHinted
  <2> HIDE DEF m1, mChl
  <2>6. MulBasis(mChl, t, DoubleBasis(F - t, detChl)) = PhiBasis(even, r, DoubleBasis(F - t, detAux))
    BY <1>1, <1>2, <1>6, <2>3, <2>4, <2>5, AssembleEquation
  <2>7. /\ sig'.nbt = nbt /\ sig'.r = r /\ sig'.m = mChl /\ sig'.chl = chl /\ sig'.aux = detAux
        /\ sig'.chlBasis = detChl /\ sig'.even = even
        /\ sig'.kernel = ChallengeKernel(chl, nbt)
    BY <2>1
  <2>8. nbt' = nbt /\ r' = r /\ chl' = chl
    BY <2>1 DEF attempt
  <2>9. Promise'
    BY <1>2, <2>6, <2>7 DEF Promise
  <2>10. SignatureTrue'
    <3>1. Hinted(sig'.aux) /\ Hinted(sig'.chlBasis)
      BY <2>5, <2>7
    <3>2. Hinted(sig.aux)' /\ Hinted(sig.chlBasis)'
      BY <3>1 DEF Hinted, FullBasis
    <3>3. ChallengeKernel(chl, nbt)' = ChallengeKernel(chl, nbt)
      BY <2>8
    <3> QED BY <2>7, <2>8, <2>9, <3>2, <3>3 DEF SignatureTrue
  <2> QED BY <1>1, <2>1, <2>8, <2>10 DEF ResponseInv, ChallengeKnown, Challenged, BasesMatch
<1> QED BY <1>5, <1>6

\* Every step of sign keeps the invariant.
LEMMA SignerResponse ==
  ASSUME IInv, ResponseInv, Received, vpc = "idle", SignNext, UNCHANGED verifyVars
  PROVE  ResponseInv' /\ Received'
<1>1. CASE Commit
  BY <1>1, CommitResponse, SignerKeepsReceived
<1>2. CASE Sample
  BY <1>2, SampleResponse, SignerKeepsReceived
<1>3. CASE NoSample
  BY <1>3, SampleFailsResponse, SignerKeepsReceived DEF NoSample
<1>4. CASE Degrees
  BY <1>4, DegreesResponse, SignerKeepsReceived
<1>5. CASE Split
  BY <1>5, SplitResponse, SignerKeepsReceived
<1>6. CASE FromQuaternion
  BY <1>6, FromQuaternionResponse, SignerKeepsReceived
<1>7. CASE EvenResponse
  BY <1>7, EvenResponseResponse, SignerKeepsReceived
<1>8. CASE ToIsogeny
  BY <1>8, ToIsogenyResponse, SignerKeepsReceived
<1>9. CASE Assemble
  BY <1>9, AssembleResponse, SignerKeepsReceived
<1>10. CASE CallFails
  BY <1>10, NextAttemptResponse, SignerKeepsReceived DEF CallFails
<1> QED
  BY <1>1, <1>2, <1>3, <1>4, <1>5, <1>6, <1>7, <1>8, <1>9, <1>10 DEF SignNext

-----------------------------------------------------------------------------
(* The verifier                                                            *)

\* What verify holds when the signature is the signer's.
LEMMA WireIsSignature ==
  ASSUME IInv, SignerHasSent
  PROVE  /\ wire.nbt = sig.nbt /\ wire.r = sig.r /\ wire.m = sig.m /\ wire.aux = sig.aux
         /\ wire.chl = sig.chl /\ curves.kernel = sig.kernel
         /\ curves.chlBasis = sig.chlBasis /\ curves.even = sig.even
<1>1. SignatureInv /\ pc = "signed"
  BY DEF IInv, SignerHasSent
<1>2. LET b == ToBytes(sig)
      IN  b.nbt = sig.nbt /\ b.r = sig.r /\ b.m = sig.m /\ b.aux = sig.aux
  BY <1>1, WireExact
<1>3. ToBytes(sig).chl = sig.chl
  BY DEF ToBytes
<1> QED BY <1>2, <1>3 DEF SignerHasSent

\* The verifier reckons the signer's kernel from the wire.
LEMMA KernelsAgree ==
  ASSUME IInv, ResponseInv, SignerHasSent
  PROVE  VerifierKernel(wire) = curves.kernel
<1>1. wire.nbt = nbt /\ wire.chl = chl /\ curves.kernel = ChallengeKernel(chl, nbt)
  BY WireIsSignature DEF ResponseInv, SignatureTrue, SignerHasSent
<1> QED BY <1>1 DEF VerifierKernel, ChallengeKernel

\* The exponents of a signature.
LEMMA SignatureLevels ==
  ASSUME IInv, pc = "signed"
  PROVE  LET e == E - sig.nbt - sig.r
             o == E + 2 - sig.nbt
         IN  /\ sig.nbt \in Nat /\ sig.r \in Nat /\ e \in Nat /\ e >= 1
             /\ o \in Nat /\ o = e + 2 + sig.r /\ e + 2 + sig.r <= F
             /\ AuxShift(e) = F - (e + 2) /\ ChlShift(e, sig.r) = F - o
             /\ sig.m \in IntMatrix /\ sig.even \in Point
             /\ sig.r >= 1 => OfOrder(sig.even, sig.r)
<1>1. /\ sig.nbt \in Nat /\ sig.r \in Nat /\ sig.nbt + sig.r < E
      /\ sig.m \in Matrix(E + 2 - sig.nbt) /\ sig.even \in Point
      /\ sig.r >= 1 => OfOrder(sig.even, sig.r)
  BY DEF IInv, SignatureInv
<1>2. E + 2 - sig.nbt \in Nat
  BY <1>1, Constants
<1>3. sig.m \in IntMatrix
  BY <1>1, <1>2, MatrixIsInt
<1> QED BY <1>1, <1>3, Constants DEF AuxShift, ChlShift

\* Receiving the signer's bytes: they parse.
LEMMA ReceiveSignedResponse ==
  ASSUME IInv, ReceiveSigned, UNCHANGED signVars
  PROVE  Received'
<1>1. pc = "signed" /\ SignatureInv
  BY DEF ReceiveSigned, IInv
<1>2. Parses(ToBytes(sig))
  BY <1>1, SurvivesInvariant DEF SurvivesTheWire
<1>3. /\ vpc' = "parsed" /\ wire' = ToBytes(sig)
      /\ curves' = [kernel |-> sig.kernel, chlBasis |-> sig.chlBasis,
                    even |-> sig.even, r |-> sig.r]
  BY <1>2 DEF ReceiveSigned, Receive
<1>4. pc' = pc /\ sig' = sig
  BY DEF signVars
<1>5. ToBytes(sig)' = ToBytes(sig)
  BY <1>4
<1>6. SignerHasSent'
  BY <1>1, <1>3, <1>4, <1>5 DEF SignerHasSent
<1>7. Progress'
  BY <1>3 DEF Progress
<1> QED BY <1>6, <1>7 DEF Received

\* Receiving anything else: nothing is known of its curves.
LEMMA ReceiveOtherResponse ==
  ASSUME ReceiveOther
  PROVE  Received'
BY DEF ReceiveOther, Received

\* A step of verify that knows nothing of the curves.
LEMMA UnknownResponse ==
  ASSUME curves = NoCurves, curves' = curves
  PROVE  Received'
BY DEF Received

\* The signature stays where it is while verify goes on.
LEMMA SentFrame ==
  ASSUME SignerHasSent, UNCHANGED signVars, UNCHANGED <<wire, curves>>, vpc' # "idle"
  PROVE  SignerHasSent'
<1>1. pc' = pc /\ sig' = sig /\ wire' = wire /\ curves' = curves
  BY DEF signVars
<1> QED BY <1>1 DEF SignerHasSent, ToBytes

\* The challenge isogeny of verify leads to the signer's curve, and the
\* matrix to the bases the signature promises.
LEMMA VerifyChallengeResponse ==
  ASSUME RInv, VerifyChallenge, UNCHANGED signVars
  PROVE  Received'
<1>1. vpc = "parsed" /\ curves' = curves
  BY DEF VerifyChallenge, Conclude
<1>2. CASE curves = NoCurves
  BY <1>1, <1>2, UnknownResponse
<1>3. CASE curves # NoCurves
  <2> DEFINE e == E - sig.nbt - sig.r
             o == E + 2 - sig.nbt
  <2>1. IInv /\ SignerHasSent /\ pc = "signed"
    BY <1>3 DEF RInv, Received, SignerHasSent
  <2>2. /\ wire.nbt = sig.nbt /\ wire.r = sig.r /\ wire.m = sig.m /\ wire.aux = sig.aux
        /\ wire.chl = sig.chl /\ curves.kernel = sig.kernel
        /\ curves.chlBasis = sig.chlBasis /\ curves.even = sig.even
    BY <2>1, WireIsSignature
  <2>3. /\ sig.nbt \in Nat /\ sig.r \in Nat /\ e \in Nat /\ e >= 1
        /\ o \in Nat /\ o = e + 2 + sig.r /\ e + 2 + sig.r <= F
        /\ AuxShift(e) = F - (e + 2) /\ ChlShift(e, sig.r) = F - o
        /\ sig.m \in IntMatrix /\ sig.even \in Point
    BY <2>1, SignatureLevels
  <2>4. VerifierKernel(wire) = curves.kernel
    BY <1>3, KernelsAgree DEF RInv, Received
  <2>5. E - wire.nbt - wire.r = e /\ MatrixExponent(wire) = o
    BY <2>2 DEF MatrixExponent
  <2> HIDE DEF e, o
  <2>6. /\ vpc' = IF sig.r > 0 THEN "even" ELSE "chain"
        /\ verEPrime' = e
        /\ verChl' = MulBasis(sig.m, o, DoubleBasis(F - o, sig.chlBasis))
        /\ verAux' = DoubleBasis(AuxShift(e), sig.aux)
        /\ onF1' = (sig.r = 0)
        /\ UNCHANGED <<wire, curves>>
    BY <1>3, <2>2, <2>3, <2>4, <2>5 DEF VerifyChallenge
  <2>7. SignerHasSent'
    BY <2>1, <2>6, SentFrame
  <2>8. sig' = sig
    BY DEF signVars
  <2>9. sig.r = 0 => verChl' = verAux'
    <3> SUFFICES ASSUME sig.r = 0 PROVE verChl' = verAux'
      OBVIOUS
    <3>1. Promise /\ Hinted(sig.aux)
      BY <2>1 DEF RInv, ResponseInv, SignatureTrue
    <3>2. verChl' = PhiBasis(sig.even, 0, DoubleBasis(F - o, sig.aux))
      BY <2>6, <3>1 DEF Promise, o
    <3>3. DoubleBasis(F - o, sig.aux) \in Basis
      <4>1. F - o \in Nat /\ sig.aux \in Basis
        BY <2>3, <3>1, Constants DEF Hinted, FullBasis
      <4> QED BY <4>1, DoubleBasisType
    <3>4. o = e + 2
      BY <2>3
    <3> QED BY <2>3, <2>6, <3>2, <3>3, <3>4, OddResponse
  <2>10. Progress'
    <3>1. sig'.nbt = sig.nbt /\ sig'.r = sig.r /\ sig'.m = sig.m /\ sig'.aux = sig.aux
          /\ sig'.chlBasis = sig.chlBasis
      BY <2>8
    <3>2. vpc' \in {"even", "chain"} =>
            verEPrime' = E - sig'.nbt - sig'.r /\ verAux' = DoubleBasis(AuxShift(verEPrime'), sig'.aux)
      BY <2>6, <3>1 DEF e
    <3>3. vpc' = "even" =>
            /\ sig'.r >= 1
            /\ verChl' = MulBasis(sig'.m, E + 2 - sig'.nbt,
                                  DoubleBasis(F - (E + 2 - sig'.nbt), sig'.chlBasis))
      BY <2>3, <2>6, <3>1 DEF o
    <3>4. vpc' = "chain" => onF1' /\ verChl' = verAux'
      <4>1. sig.r > 0 \/ sig.r = 0
        BY <2>3
      <4>2. vpc' = "chain" => sig.r = 0
        BY <2>6, <4>1
      <4>3. sig.r = 0 => onF1'
        BY <2>6
      <4> QED BY <2>9, <4>2, <4>3
    <3>5. vpc' # "done"
      BY <2>6
    <3> QED BY <3>2, <3>3, <3>4, <3>5 DEF Progress, AuxShift
  <2> QED BY <2>7, <2>10 DEF Received
<1> QED BY <1>2, <1>3

\* The dual that verify takes back to F_1 undoes the signer's even response.
LEMMA VerifyEvenResponse ==
  ASSUME RInv, VerifyEven, UNCHANGED signVars
  PROVE  Received'
<1>1. /\ vpc = "even" /\ vpc' = "chain"
      /\ UNCHANGED <<wire, curves, verEPrime, verAux, verdict>>
  BY DEF VerifyEven
<1>2. CASE curves = NoCurves
  BY <1>1, <1>2, UnknownResponse
<1>3. CASE curves # NoCurves
  <2> DEFINE e == E - sig.nbt - sig.r
             o == E + 2 - sig.nbt
             v == verChl
             p == DoubleN(e + 2, IF FirstColumnEven(sig.m) THEN v.PmQ ELSE v.P)
  <2>1. /\ IInv /\ SignerHasSent /\ pc = "signed" /\ Promise /\ sig.r >= 1
        /\ Hinted(sig.aux) /\ Hinted(sig.chlBasis)
        /\ verEPrime = e /\ verAux = DoubleBasis(AuxShift(e), sig.aux)
        /\ v = MulBasis(sig.m, o, DoubleBasis(F - o, sig.chlBasis))
    BY <1>1, <1>3 DEF RInv, Received, SignerHasSent, Progress, ResponseInv, SignatureTrue
  <2>2. wire.r = sig.r /\ wire.m = sig.m /\ curves.even = sig.even
    BY <2>1, WireIsSignature
  <2>3. /\ sig.nbt \in Nat /\ sig.r \in Nat /\ e \in Nat
        /\ o = e + 2 + sig.r /\ e + 2 + sig.r <= F /\ AuxShift(e) = F - (e + 2)
        /\ sig.m \in IntMatrix /\ sig.even \in Point /\ OfOrder(sig.even, sig.r)
    BY <2>1, SignatureLevels
  <2>4. v = PhiBasis(sig.even, sig.r, DoubleBasis(F - o, sig.aux))
    BY <2>1 DEF Promise
  <2> HIDE DEF e, o, v
  <2>5. /\ OfOrder(p, sig.r) /\ EvenDual(sig.even, sig.r, p) = O
        /\ FromPropagated(EvenDual(sig.even, sig.r, v.P), EvenDual(sig.even, sig.r, v.PmQ),
                          EvenDual(sig.even, sig.r, v.Q))
             = DoubleBasis(F - (e + 2), sig.aux)
    <3>1. /\ v = MulBasis(sig.m, e + 2 + sig.r, DoubleBasis(F - (e + 2 + sig.r), sig.chlBasis))
          /\ v = PhiBasis(sig.even, sig.r, DoubleBasis(F - (e + 2 + sig.r), sig.aux))
      BY <2>1, <2>3, <2>4
    <3> QED BY <2>1, <2>3, <3>1, EvenUndone
  <2>6. EvenDualKernel = p
    BY <2>1, <2>2 DEF EvenDualKernel, v
  <2>7. /\ onF1' = TRUE
        /\ verChl' = MapBasis(LAMBDA x : EvenDual(sig.even, sig.r, x), verChl)
    <3> HIDE DEF p
    <3> QED BY <1>3, <2>2, <2>5, <2>6 DEF VerifyEven
  <2>8. verChl' = verAux'
    BY <1>1, <2>1, <2>3, <2>5, <2>7 DEF MapBasis, v
  <2>9. sig' = sig
    BY DEF signVars
  <2>10. Progress'
    <3>1. verEPrime' = e /\ verAux' = DoubleBasis(AuxShift(verEPrime'), sig'.aux)
      BY <1>1, <2>1, <2>9
    <3>2. e = E - sig'.nbt - sig'.r
      BY <2>9 DEF e
    <3> QED BY <1>1, <2>7, <2>8, <3>1, <3>2 DEF Progress, AuxShift
  <2>11. SignerHasSent'
    BY <1>1, <2>1, SentFrame
  <2> QED BY <2>10, <2>11 DEF Received
<1> QED BY <1>2, <1>3

\* The (2,2)-chain of verify takes the signer's signature apart.
LEMMA VerifyChainResponse ==
  ASSUME RInv, VerifyChain, UNCHANGED signVars
  PROVE  Received'
<1>1. vpc = "chain" /\ curves' = curves /\ wire' = wire /\ vpc' = "done"
  BY DEF VerifyChain, Conclude
<1>2. CASE curves = NoCurves
  BY <1>1, <1>2, UnknownResponse
<1>3. CASE curves # NoCurves
  <2> DEFINE e == E - sig.nbt - sig.r
  <2>1. /\ IInv /\ SignerHasSent /\ pc = "signed" /\ Hinted(sig.aux)
        /\ verEPrime = e /\ verAux = DoubleBasis(AuxShift(e), sig.aux)
        /\ onF1 /\ verChl = verAux
    BY <1>1, <1>3 DEF RInv, Received, SignerHasSent, Progress, ResponseInv, SignatureTrue
  <2>2. e \in Nat /\ e + 2 <= F /\ AuxShift(e) = F - (e + 2)
    <3>1. e \in Nat /\ sig.r \in Nat /\ e + 2 + sig.r <= F /\ AuxShift(e) = F - (e + 2)
      BY <2>1, SignatureLevels
    <3> HIDE DEF e
    <3> QED BY <3>1, Constants
  <2> HIDE DEF e
  <2>3. IsBasisOf(verChl, verEPrime + 2)
    <3>1. e + 2 \in Nat /\ e + 2 >= 1
      BY <2>2
    <3>2. IsBasisOf(DoubleBasis(F - (e + 2), sig.aux), e + 2)
      BY <2>1, <2>2, <3>1, HintedGenerates
    <3> QED BY <2>1, <2>2, <3>2
  <2>4. Conclude("accepted")
    BY <2>1, <2>3 DEF VerifyChain, VerifyKernelSplits
  <2>5. verdict' = "accepted"
    BY <2>4 DEF Conclude
  <2>6. Progress'
    BY <1>1, <2>5 DEF Progress
  <2>7. SignerHasSent'
    BY <1>1, <2>1, SentFrame
  <2> QED BY <2>6, <2>7 DEF Received
<1> QED BY <1>2, <1>3

\* The signer's signature never ends at the check of the four-torsion.
LEMMA VerifyFourTorsionResponse ==
  ASSUME RInv, VerifyFourTorsion
  PROVE  Received'
<1>1. vpc = "chain" /\ verEPrime = 0 /\ curves' = curves
  BY DEF VerifyFourTorsion, Conclude
<1>2. CASE curves = NoCurves
  BY <1>1, <1>2, UnknownResponse
<1>3. CASE curves # NoCurves
  <2>1. IInv /\ pc = "signed" /\ verEPrime = E - sig.nbt - sig.r
    BY <1>1, <1>3 DEF RInv, Received, SignerHasSent, Progress
  <2>2. E - sig.nbt - sig.r >= 1
    BY <2>1, SignatureLevels
  <2> QED BY <1>1, <2>1, <2>2
<1> QED BY <1>2, <1>3

\* Every step of verify keeps the invariant.
LEMMA VerifierResponse ==
  ASSUME RInv, UNCHANGED signVars,
         VerifyChallenge \/ VerifyEven \/ VerifyFourTorsion \/ VerifyChain \/ VerifyRefuses
  PROVE  Received'
<1>1. CASE VerifyChallenge
  BY <1>1, VerifyChallengeResponse
<1>2. CASE VerifyEven
  BY <1>2, VerifyEvenResponse
<1>3. CASE VerifyFourTorsion
  BY <1>3, VerifyFourTorsionResponse
<1>4. CASE VerifyChain
  BY <1>4, VerifyChainResponse
<1>5. CASE VerifyRefuses
  BY <1>5, UnknownResponse DEF VerifyRefuses, Conclude
<1> QED BY <1>1, <1>2, <1>3, <1>4, <1>5

\* A step that changes nothing keeps what was received.
LEMMA StutterResponse ==
  ASSUME Received, UNCHANGED vars
  PROVE  Received'
<1>1. /\ pc' = pc /\ sig' = sig /\ vpc' = vpc /\ wire' = wire /\ curves' = curves
      /\ verEPrime' = verEPrime /\ verChl' = verChl /\ verAux' = verAux
      /\ onF1' = onF1 /\ verdict' = verdict
  BY DEF vars, signVars, verifyVars
<1> QED BY <1>1 DEF Received, SignerHasSent, Progress, ToBytes, AuxShift

\* The invariant holds in every state of sign and verify.
LEMMA ResponseInductive == Spec => []RInv
<1>1. IInv /\ ResponseInv /\ Received /\ [Next]_vars => ResponseInv' /\ Received'
  <2> SUFFICES ASSUME IInv, ResponseInv, Received, [Next]_vars
               PROVE  ResponseInv' /\ Received'
    OBVIOUS
  <2>0. RInv
    BY DEF RInv
  <2>1. CASE vpc = "idle" /\ SignNext /\ UNCHANGED verifyVars
    BY <2>1, SignerResponse
  <2>2. CASE /\ UNCHANGED signVars
             /\ VerifyChallenge \/ VerifyEven \/ VerifyFourTorsion \/ VerifyChain \/ VerifyRefuses
    BY <2>0, <2>2, VerifierResponse, ResponseFrame
  <2>3. CASE ReceiveSigned /\ UNCHANGED signVars
    BY <2>3, ReceiveSignedResponse, ResponseFrame
  <2>4. CASE ReceiveOther /\ UNCHANGED signVars
    BY <2>4, ReceiveOtherResponse, ResponseFrame
  <2>5. CASE UNCHANGED vars
    BY <2>5, StutterResponse, ResponseFrame DEF vars
  <2> QED BY <2>1, <2>2, <2>3, <2>4, <2>5 DEF Next
<1>2. Init => ResponseInv /\ Received
  BY InitResponse
<1>3. RInv <=> IInv /\ ResponseInv /\ Received
  BY DEF RInv
<1> QED BY <1>1, <1>2, <1>3, Inductive, PTL DEF Spec

\* What verify parsed holds a challenge.
ChallengeSent == vpc # "idle" => wire.chl \in Chls

\* It does in every state.
LEMMA ChallengeIsSent == Spec => []ChallengeSent
<1>1. Init => ChallengeSent
  BY DEF Init, VerifyInit, ChallengeSent
<1>2. RInv /\ ChallengeSent /\ [Next]_vars => ChallengeSent'
  <2> SUFFICES ASSUME RInv, ChallengeSent, [Next]_vars PROVE ChallengeSent'
    OBVIOUS
  <2>1. CASE SignNext /\ UNCHANGED verifyVars
    BY <2>1 DEF verifyVars, ChallengeSent
  <2>2. CASE VerifyChallenge \/ VerifyEven \/ VerifyFourTorsion \/ VerifyChain \/ VerifyRefuses
    <3>1. wire' = wire /\ vpc # "idle"
      BY <2>2 DEF VerifyChallenge, VerifyEven, VerifyFourTorsion, VerifyChain, VerifyRefuses, Conclude
    <3> QED BY <3>1 DEF ChallengeSent
  <2>3. CASE ReceiveSigned
    <3>1. pc = "signed" /\ wire' = ToBytes(sig)
      BY <2>3 DEF ReceiveSigned, Receive
    <3>2. sig.chl \in Chls
      BY <3>1 DEF RInv, ResponseInv, ChallengeKnown, Challenged, SignatureTrue
    <3> QED BY <3>1, <3>2 DEF ToBytes, ChallengeSent
  <2>4. CASE ReceiveOther
    <3>1. PICK c \in Chls : wire'.chl = c
      BY <2>4 DEF ReceiveOther, Receive
    <3> QED BY <3>1 DEF ChallengeSent
  <2>5. CASE UNCHANGED vars
    BY <2>5 DEF vars, verifyVars, ChallengeSent
  <2> QED BY <2>1, <2>2, <2>3, <2>4, <2>5 DEF Next
<1> QED BY <1>1, <1>2, ResponseInductive, PTL DEF Spec

-----------------------------------------------------------------------------
(* The theorems                                                            *)

\* Whatever alpha was sampled, the kernel that the signer hands to its
\* (2,2)-chain generates the torsion the chain's length asks for, and q
\* matches its two sides (keys/signing.rs lines 955 to 984).
THEOREM SplitKernels == Spec => []SplitKernelExact
<1>1. RInv => SplitKernelExact
  <2> SUFFICES ASSUME RInv, pc = "split"
               PROVE  /\ ReducedOrder(ePrime, r) <= F
                      /\ Splits(SplitKernel(ComBasis, ComBasis, q, ePrime, r), q, ePrime)
    BY DEF SplitKernelExact
  <2>1. /\ nbt \in Nat /\ r \in Nat /\ ePrime \in Nat /\ nbt + r + ePrime = E
        /\ q \in Nat /\ q % 2 = 1
    BY DEF RInv, IInv, TypeOK, DegreesInRange, HasDegrees
  <2>2. ReducedOrder(ePrime, r) <= F
    BY <2>1, Constants DEF ReducedOrder
  <2> QED BY <2>1, <2>2, SplitKernelSplits
<1> QED BY <1>1, ResponseInductive, PTL

\* Whatever alpha acts as, the column that is chosen gives a point of order
\* 2^r, and one that generates all of alpha's even kernel
\* (keys/signing/response/even.rs).
THEOREM EvenKernels == Spec => []EvenKernelExact
<1>1. RInv => EvenKernelExact
  <2> SUFFICES ASSUME RInv, pc = "even"
               PROVE  OfOrder(even, r) /\ Multiples(even, r) = AlphaKernel(act, chlBasis, ePrime, r)
    BY DEF EvenKernelExact
  <2>1. /\ nbt \in Nat /\ r \in Nat /\ ePrime \in Nat /\ nbt + r + ePrime = E /\ r >= 1
    BY DEF RInv, IInv, TypeOK, DegreesInRange, HasDegrees, SignerInv
  <2>2. ReducedOrder(ePrime, r) <= F
    BY <2>1, Constants DEF ReducedOrder
  <2>3. /\ chlBasis = Pushed(ComBasis, ePrime, r) /\ act \in Actions(r)
        /\ even = EvenKernel(act, chlBasis, ePrime, r)
    BY DEF RInv, ResponseInv, BasesMatch
  <2> QED BY <2>1, <2>2, <2>3, EvenKernelGenerates
<1> QED BY <1>1, ResponseInductive, PTL

\* The challenge chain of the signer starts at a point of the order its
\* length wants; so does verify's, on any bytes it goes on with; and from the
\* signer's bytes verify reckons the signer's point, because the backtracking
\* and the challenge it was reckoned from are those that cross the wire
\* (keys/mod.rs, keys/signing.rs and keys/verifying.rs).
THEOREM ChallengeKernels == Spec => []ChallengeKernelExact
<1>1. RInv /\ ChallengeSent => ChallengeKernelExact
  <2> SUFFICES ASSUME RInv, ChallengeSent PROVE ChallengeKernelExact
    OBVIOUS
  <2>1. ASSUME pc \in {"challenge", "assemble", "signed"}
        PROVE  OfOrder(ChallengeKernel(chl, nbt), F - nbt)
    <3>1. chl \in Nat
      BY <2>1, SigningAssumption DEF RInv, ResponseInv, ChallengeKnown, Challenged
    <3>2. nbt \in Nat /\ r \in Nat /\ ePrime \in Nat /\ nbt + r + ePrime = E
      BY <2>1 DEF RInv, IInv, TypeOK, DegreesInRange, HasDegrees
    <3>3. nbt < F
      BY <3>2, Constants
    <3>4. ChallengeKernel(chl, nbt) = DoubleN(nbt, Combine(1, PkBasis.P, chl, PkBasis.PmQ))
      BY DEF ChallengeKernel
    <3> QED BY <3>1, <3>2, <3>3, <3>4, ChallengeOrder
  <2>2. ASSUME vpc \in {"parsed", "even", "chain"}, wire.nbt + wire.r <= E
        PROVE  OfOrder(VerifierKernel(wire), F - wire.nbt)
    <3>1. wire.nbt \in Nat /\ wire.nbt < F /\ wire.chl \in Nat
      <4>1. wire.nbt \in Nat /\ wire.r \in Nat
        BY <2>2 DEF RInv, IInv, WireInv
      <4>2. wire.chl \in Chls
        BY <2>2 DEF ChallengeSent
      <4>3. wire.chl \in Nat
        BY <4>2, SigningAssumption
      <4>4. E \in Nat /\ F \in Nat /\ E + 2 <= F
        BY Constants
      <4>5. wire.nbt < F
        BY <2>2, <4>1, <4>4
      <4> QED BY <4>1, <4>3, <4>5
    <3>2. VerifierKernel(wire) = DoubleN(wire.nbt, Combine(1, PkBasis.P, wire.chl, PkBasis.PmQ))
      BY DEF VerifierKernel
    <3> QED BY <3>1, <3>2, ChallengeOrder
  <2>3. ASSUME curves # NoCurves PROVE VerifierKernel(wire) = curves.kernel
    BY <2>3, KernelsAgree DEF RInv, Received
  <2> QED BY <2>1, <2>2, <2>3 DEF ChallengeKernelExact
<1> QED BY <1>1, ResponseInductive, ChallengeIsSent, PTL

\* Verify accepts every signature that sign makes, whatever was sampled and
\* whatever bases the hints find (keys/signing.rs and keys/verifying.rs).
THEOREM SignedAccepted == Spec => []SignedIsAccepted
<1>1. RInv => SignedIsAccepted
  BY DEF RInv, Received, Progress, SignedIsAccepted
<1> QED BY <1>1, ResponseInductive, PTL

=============================================================================
