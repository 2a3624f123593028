------------------------------- MODULE Powers -------------------------------
(***************************************************************************)
(* What every proof about numbers needs, and the provers do not know.      *)
(* Induction on the naturals, for a set of numbers in place of a predicate,*)
(* and functions by recursion on them.  Powers of two, whose laws are      *)
(* derived from the number of subsets of 1..n.  Division with remainder.   *)
(***************************************************************************)
EXTENDS Integers, FiniteSets, FiniteSetTheorems, WellFoundedInduction, TLAPS

\* Induction on the naturals, for a set of numbers in place of a predicate.
LEMMA SetInduction ==
  ASSUME NEW T, T \subseteq Nat, 0 \in T, \A n \in T : n + 1 \in T
  PROVE  T = Nat
<1> DEFINE R == OpToRel(<, Nat)
           M == Nat \ T
<1>1. IsWellFoundedOn(R, Nat)
  BY NatLessThanWellFounded
<1> HIDE DEF R
<1>2. SUFFICES ASSUME M # {} PROVE FALSE
  OBVIOUS
<1>3. PICK x \in M : \A y \in M : ~ (<<y, x>> \in R)
  <2> M \subseteq Nat
    OBVIOUS
  <2> HIDE DEF M
  <2> QED BY <1>1, <1>2, WFMin
<1>4. x \in Nat /\ x # 0 /\ x \notin T
  BY <1>3
<1>5. x - 1 \in Nat /\ (x - 1) + 1 = x /\ x - 1 < x
  BY <1>4
<1>6. x - 1 \notin T
  BY <1>4, <1>5
<1>7. <<x - 1, x>> \in R
  BY <1>4, <1>5 DEF R, OpToRel
<1> QED BY <1>3, <1>5, <1>6, <1>7

\* f starts at s and goes up, or down, by G, round by round.
Up(f, n, s, G) == f[0] = s /\ \A i \in 1 .. n : f[i] = G[<<f[i - 1], i>>]
Down(f, n, s, G) == f[n] = s /\ \A i \in 0 .. n - 1 : f[i] = G[<<f[i + 1], i>>]

\* A recursion upwards: every function of the last value and the round has a
\* function of its values.
LEMMA Recursion ==
  ASSUME NEW n \in Nat, NEW S, NEW s \in S, NEW G \in [S \X Nat -> S]
  PROVE  \E f \in [0 .. n -> S] : Up(f, n, s, G)
<1> DEFINE T == {k \in Nat : \E f \in [0 .. k -> S] : Up(f, k, s, G)}
<1>1. 0 \in T
  <2>1. [i \in 0 .. 0 |-> s] \in [0 .. 0 -> S] /\ Up([i \in 0 .. 0 |-> s], 0, s, G)
    BY DEF Up
  <2> QED BY <2>1
<1>2. ASSUME NEW k \in T PROVE k + 1 \in T
  <2>1. k \in Nat /\ \E f \in [0 .. k -> S] : Up(f, k, s, G)
    OBVIOUS
  <2>2. PICK f \in [0 .. k -> S] : Up(f, k, s, G)
    BY <2>1
  <2> DEFINE g == [i \in 0 .. k + 1 |-> IF i <= k THEN f[i] ELSE G[<<f[k], k + 1>>]]
  <2>3. k \in 0 .. k /\ f[k] \in S /\ k + 1 \in Nat /\ G[<<f[k], k + 1>>] \in S
    BY <2>1
  <2>4. g \in [0 .. k + 1 -> S]
    BY <2>1, <2>3
  <2>5. g[0] = s
    BY <2>1, <2>2 DEF Up
  <2>6. ASSUME NEW i \in 1 .. k + 1 PROVE g[i] = G[<<g[i - 1], i>>]
    <3>1. CASE i <= k
      <4>1. i \in 1 .. k /\ i \in 0 .. k + 1 /\ i - 1 \in 0 .. k + 1 /\ i - 1 <= k
        BY <2>1, <3>1
      <4>2. g[i] = f[i] /\ g[i - 1] = f[i - 1]
        BY <3>1, <4>1
      <4>3. f[i] = G[<<f[i - 1], i>>]
        BY <2>2, <4>1 DEF Up
      <4> QED BY <4>2, <4>3
    <3>2. CASE i = k + 1
      <4>1. i \in 0 .. k + 1 /\ i - 1 \in 0 .. k + 1 /\ i - 1 = k /\ ~ (i <= k)
        BY <2>1, <3>2
      <4>2. g[i] = G[<<f[k], k + 1>>] /\ g[i - 1] = f[k]
        BY <2>1, <4>1
      <4> QED BY <3>2, <4>2
    <3> QED BY <2>1, <3>1, <3>2
  <2>7. Up(g, k + 1, s, G)
    <3> HIDE DEF g
    <3> QED BY <2>5, <2>6 DEF Up
  <2>8. k + 1 \in Nat
    BY <2>1
  <2>9. \E h \in [0 .. k + 1 -> S] : Up(h, k + 1, s, G)
    BY <2>4, <2>7
  <2> QED BY <2>8, <2>9
<1>3. T = Nat
  <2> T \subseteq Nat
    OBVIOUS
  <2> HIDE DEF T
  <2> QED BY <1>1, <1>2, SetInduction
<1> QED BY <1>3

\* A recursion downwards.
LEMMA RecursionDown ==
  ASSUME NEW n \in Nat, NEW S, NEW s \in S, NEW G \in [S \X Nat -> S]
  PROVE  \E f \in [0 .. n -> S] : Down(f, n, s, G)
<1> DEFINE H == [p \in S \X Nat |-> IF p[2] <= n THEN G[<<p[1], n - p[2]>>] ELSE p[1]]
<1>1. H \in [S \X Nat -> S]
  OBVIOUS
<1>2. PICK f \in [0 .. n -> S] : Up(f, n, s, H)
  <2> HIDE DEF H
  <2> QED BY <1>1, Recursion
<1> DEFINE g == [i \in 0 .. n |-> f[n - i]]
<1>3. g \in [0 .. n -> S] /\ g[n] = s
  BY <1>2 DEF Up
<1>4. ASSUME NEW i \in 0 .. n - 1 PROVE g[i] = G[<<g[i + 1], i>>]
  <2>1. /\ n - i \in 1 .. n /\ (n - i) - 1 = n - (i + 1) /\ n - (i + 1) \in 0 .. n
        /\ i \in 0 .. n /\ i + 1 \in 0 .. n /\ n - (n - i) = i /\ n - i \in Nat
    OBVIOUS
  <2>2. f[n - i] = H[<<f[n - (i + 1)], n - i>>]
    BY <1>2, <2>1 DEF Up
  <2>3. H[<<f[n - (i + 1)], n - i>>] = G[<<f[n - (i + 1)], i>>]
    BY <2>1
  <2> QED BY <2>1, <2>2, <2>3
<1>5. Down(g, n, s, G)
  <2> HIDE DEF g
  <2> QED BY <1>3, <1>4 DEF Down
<1> QED BY <1>3, <1>5

\* h is a function on 0 .. n that follows G as long as its values are in S.
UpWithin(h, n, s, S, G) ==
    /\ h = [i \in 0 .. n |-> h[i]] /\ h[0] = s
    /\ \A i \in 1 .. n : h[i - 1] \in S => h[i] = G[<<h[i - 1], i>>]
DownWithin(h, n, s, S, G) ==
    /\ h = [i \in 0 .. n |-> h[i]] /\ h[n] = s
    /\ \A i \in 0 .. n - 1 : h[i + 1] \in S => h[i] = G[<<h[i + 1], i>>]

\* A function that follows the recursion as far as it stays in S is that one.
LEMMA UpUnique ==
  ASSUME NEW n \in Nat, NEW S, NEW s \in S, NEW G \in [S \X Nat -> S],
         NEW g \in [0 .. n -> S], Up(g, n, s, G),
         NEW h, UpWithin(h, n, s, S, G)
  PROVE  h = g
<1> DEFINE T == {k \in Nat : k <= n => h[k] = g[k]}
<1>1. 0 \in T
  BY DEF Up, UpWithin
<1>2. ASSUME NEW k \in T PROVE k + 1 \in T
  <2>1. SUFFICES ASSUME k + 1 <= n PROVE h[k + 1] = g[k + 1]
    OBVIOUS
  <2>2. k \in 0 .. n /\ k + 1 \in 1 .. n /\ (k + 1) - 1 = k
    BY <2>1
  <2>3. h[k] = g[k] /\ g[k] \in S
    BY <2>2
  <2>4. g[k + 1] = G[<<g[k], k + 1>>]
    BY <2>2 DEF Up
  <2>5. h[k + 1] = G[<<h[k], k + 1>>]
    BY <2>2, <2>3 DEF UpWithin, DownWithin
  <2> QED BY <2>3, <2>4, <2>5
<1>3. T = Nat
  <2> T \subseteq Nat
    OBVIOUS
  <2> HIDE DEF T
  <2> QED BY <1>1, <1>2, SetInduction
<1>4. ASSUME NEW i \in 0 .. n PROVE h[i] = g[i]
  <2> i \in T
    BY <1>3
  <2> QED OBVIOUS
<1> QED BY <1>4 DEF UpWithin

LEMMA DownUnique ==
  ASSUME NEW n \in Nat, NEW S, NEW s \in S, NEW G \in [S \X Nat -> S],
         NEW g \in [0 .. n -> S], Down(g, n, s, G),
         NEW h, DownWithin(h, n, s, S, G)
  PROVE  h = g
<1> DEFINE T == {k \in Nat : k <= n => h[n - k] = g[n - k]}
<1>1. 0 \in T
  BY DEF Down, DownWithin
<1>2. ASSUME NEW k \in T PROVE k + 1 \in T
  <2>1. SUFFICES ASSUME k + 1 <= n PROVE h[n - (k + 1)] = g[n - (k + 1)]
    OBVIOUS
  <2>2. n - k \in 0 .. n /\ n - (k + 1) \in 0 .. n - 1 /\ (n - (k + 1)) + 1 = n - k
    BY <2>1
  <2>3. h[n - k] = g[n - k] /\ g[n - k] \in S
    BY <2>1, <2>2
  <2>4. g[n - (k + 1)] = G[<<g[n - k], n - (k + 1)>>]
    BY <2>2 DEF Down
  <2>5. h[n - (k + 1)] = G[<<h[n - k], n - (k + 1)>>]
    BY <2>2, <2>3 DEF UpWithin, DownWithin
  <2> QED BY <2>3, <2>4, <2>5
<1>3. T = Nat
  <2> T \subseteq Nat
    OBVIOUS
  <2> HIDE DEF T
  <2> QED BY <1>1, <1>2, SetInduction
<1>5. ASSUME NEW i \in 0 .. n PROVE h[i] = g[i]
  <2>1. n - i \in Nat /\ n - i <= n /\ n - (n - i) = i
    OBVIOUS
  <2>2. n - i \in T
    BY <1>3, <2>1
  <2>3. h[n - (n - i)] = g[n - (n - i)]
    BY <2>1, <2>2
  <2> QED BY <2>1, <2>3
<1> QED BY <1>5 DEF DownWithin

-----------------------------------------------------------------------------
(* Powers of two                                                           *)

\* 1..n has 2^n subsets.
LEMMA SubsetsOfInterval ==
  ASSUME NEW n \in Nat
  PROVE  IsFiniteSet(SUBSET (1 .. n)) /\ Cardinality(SUBSET (1 .. n)) = 2^n
<1>1. IsFiniteSet(1 .. n) /\ Cardinality(1 .. n) = n
  BY FS_Interval
<1> QED BY <1>1, FS_SUBSET

\* A power of two is a natural number.
LEMMA Pow2Nat ==
  ASSUME NEW n \in Nat
  PROVE  2^n \in Nat
BY SubsetsOfInterval, FS_CardinalityType

\* 2^0 is 1.
LEMMA Pow2Zero == 2^0 = 1
OBVIOUS

\* The subsets of 1..n+1 are those of 1..n, and those with n+1 added.
LEMMA Pow2Succ ==
  ASSUME NEW n \in Nat
  PROVE  2^(n + 1) = 2 * 2^n
<1> DEFINE A == SUBSET (1 .. n)
           B == {S \cup {n + 1} : S \in A}
           f == [S \in A |-> S \cup {n + 1}]
<1>1. IsFiniteSet(A) /\ Cardinality(A) = 2^n
  BY SubsetsOfInterval
<1>2. f \in Bijection(A, B)
  <2>1. f \in [A -> B]
    OBVIOUS
  <2>2. \A S, T \in A : f[S] = f[T] => S = T
    <3> SUFFICES ASSUME NEW S \in A, NEW T \in A, f[S] = f[T] PROVE S = T
      OBVIOUS
    <3>1. S \cup {n + 1} = T \cup {n + 1}
      OBVIOUS
    <3>2. n + 1 \notin S /\ n + 1 \notin T
      OBVIOUS
    <3> QED BY <3>1, <3>2
  <2>3. \A t \in B : \E S \in A : f[S] = t
    OBVIOUS
  <2> QED BY <2>1, <2>2, <2>3 DEF Bijection, Injection, Surjection, IsInjective
<1>3. IsFiniteSet(B) /\ Cardinality(B) = 2^n
  BY <1>1, <1>2, FS_Bijection DEF ExistsBijection
<1>4. A \cap B = {}
  OBVIOUS
<1>5. SUBSET (1 .. n + 1) = A \cup B
  <2>1. ASSUME NEW S \in SUBSET (1 .. n + 1)
        PROVE  S \in A \cup B
    <3>1. CASE n + 1 \notin S
      BY <3>1
    <3>2. CASE n + 1 \in S
      <4>1. S \ {n + 1} \in A
        OBVIOUS
      <4>2. S = (S \ {n + 1}) \cup {n + 1}
        BY <3>2
      <4> QED BY <4>1, <4>2
    <3> QED BY <3>1, <3>2
  <2>2. ASSUME NEW S \in A \cup B
        PROVE  S \in SUBSET (1 .. n + 1)
    OBVIOUS
  <2> QED BY <2>1, <2>2
<1>6. Cardinality(A \cap B) = 0
  BY <1>4, FS_EmptySet
<1>7. Cardinality(A \cup B) = 2^n + 2^n - 0
  <2> HIDE DEF A, B
  <2>1. Cardinality(A \cup B) = Cardinality(A) + Cardinality(B) - Cardinality(A \cap B)
    BY <1>1, <1>3, FS_Union
  <2> QED BY <2>1, <1>1, <1>3, <1>6
<1>8. Cardinality(SUBSET (1 .. n + 1)) = 2^(n + 1)
  BY SubsetsOfInterval
<1>9. 2^(n + 1) = 2^n + 2^n - 0
  <2> HIDE DEF A, B
  <2> QED BY <1>5, <1>7, <1>8
<1> QED BY <1>9, Pow2Nat

\* Every power of two is a positive natural number.
LEMMA Pow2Positive ==
  ASSUME NEW n \in Nat
  PROVE  2^n \in Nat /\ 2^n >= 1
<1> DEFINE T == {k \in Nat : 2^k \in Nat /\ 2^k >= 1}
<1>1. 0 \in T
  BY Pow2Zero
<1>2. ASSUME NEW k \in T PROVE k + 1 \in T
  <2>1. 2^k \in Nat /\ 2^k >= 1 /\ k \in Nat
    OBVIOUS
  <2>2. 2^(k + 1) = 2 * 2^k
    BY <2>1, Pow2Succ
  <2> QED BY <2>1, <2>2
<1>3. T = Nat
  <2> T \subseteq Nat
    OBVIOUS
  <2> HIDE DEF T
  <2> QED BY <1>1, <1>2, SetInduction
<1> QED BY <1>3

\* Exponents add.
LEMMA Pow2Add ==
  ASSUME NEW a \in Nat, NEW b \in Nat
  PROVE  2^(a + b) = 2^a * 2^b
<1> DEFINE T == {k \in Nat : 2^(a + k) = 2^a * 2^k}
<1>0. 2^a \in Nat
  BY Pow2Nat
<1>1. 0 \in T
  BY <1>0, Pow2Zero
<1>2. ASSUME NEW k \in T PROVE k + 1 \in T
  <2>1. k \in Nat /\ 2^(a + k) = 2^a * 2^k
    OBVIOUS
  <2>2. 2^(k + 1) = 2 * 2^k /\ 2^k \in Nat
    BY <2>1, Pow2Succ, Pow2Nat
  <2>3. 2^((a + k) + 1) = 2 * 2^(a + k)
    BY <2>1, Pow2Succ
  <2>4. (a + k) + 1 = a + (k + 1)
    BY <2>1
  <2>5. 2^a * (2 * 2^k) = 2 * (2^a * 2^k)
    BY <1>0, <2>2
  <2> QED BY <2>1, <2>2, <2>3, <2>4, <2>5
<1>3. T = Nat
  <2> T \subseteq Nat
    OBVIOUS
  <2> HIDE DEF T
  <2> QED BY <1>1, <1>2, SetInduction
<1> QED BY <1>3

\* A larger exponent gives a larger power.
LEMMA Pow2Monotone ==
  ASSUME NEW a \in Nat, NEW b \in Nat, a <= b
  PROVE  2^a <= 2^b
<1>1. b - a \in Nat /\ a + (b - a) = b
  OBVIOUS
<1>2. 2^b = 2^a * 2^(b - a)
  BY <1>1, Pow2Add
<1>3. 2^a \in Nat /\ 2^(b - a) \in Nat /\ 2^(b - a) >= 1
  BY <1>1, Pow2Positive
<1> DEFINE x == 2^a
           y == 2^(b - a)
<1> HIDE DEF x, y
<1>4. \A u, v \in Nat : v >= 1 => u <= u * v
  OBVIOUS
<1>5. x <= x * y
  BY <1>3, <1>4 DEF x, y
<1> QED BY <1>2, <1>5 DEF x, y

\* n is smaller than 2^n.
LEMMA BelowPow2 ==
  ASSUME NEW n \in Nat
  PROVE  n < 2^n
<1> DEFINE T == {k \in Nat : k < 2^k}
<1>1. 0 \in T
  BY Pow2Zero
<1>2. ASSUME NEW k \in T PROVE k + 1 \in T
  <2>1. k \in Nat /\ k < 2^k /\ 2^k \in Nat /\ 2^(k + 1) = 2 * 2^k
    BY Pow2Nat, Pow2Succ
  <2> QED BY <2>1
<1>3. T = Nat
  <2> T \subseteq Nat
    OBVIOUS
  <2> HIDE DEF T
  <2> QED BY <1>1, <1>2, SetInduction
<1> QED BY <1>3

-----------------------------------------------------------------------------
(* Arithmetic                                                              *)

\* A remainder of a smaller number is the number.
LEMMA ModSmall ==
  ASSUME NEW a \in Nat, NEW b \in Nat, a < b
  PROVE  a % b = a
OBVIOUS

\* Division with remainder, as the provers need it.
LEMMA DivRem ==
  ASSUME NEW a \in Nat, NEW p \in Nat, p > 0
  PROVE  /\ a = p * (a \div p) + (a % p)
         /\ a \div p \in Nat
         /\ a % p \in 0 .. p - 1
OBVIOUS

\* Dividing a multiple leaves no remainder.
LEMMA DivExact ==
  ASSUME NEW m \in Nat, NEW p \in Nat, p > 0
  PROVE  (m * p) \div p = m /\ (m * p) % p = 0
OBVIOUS

\* Adding a multiple of p leaves the remainder alone.
LEMMA ModShift ==
  ASSUME NEW a \in Int, NEW t \in Int, NEW p \in Nat, p > 0
  PROVE  (a + t * p) % p = a % p
<1> DEFINE h == a \div p
           l == a % p
           g == (a + t * p) \div p
           m == (a + t * p) % p
<1>1. /\ a = p * h + l /\ h \in Int /\ l \in 0 .. p - 1
      /\ a + t * p = p * g + m /\ g \in Int /\ m \in 0 .. p - 1
  <2>1. a + t * p \in Int
    OBVIOUS
  <2>2. \A x \in Int : x = p * (x \div p) + (x % p) /\ x \div p \in Int /\ x % p \in 0 .. p - 1
    OBVIOUS
  <2> QED BY <2>1, <2>2
<1> HIDE DEF h, l, g, m
<1> DEFINE z == g - h - t
<1>2. z \in Int /\ l - m = p * z
  <2>1. p * (g - h - t) = p * g - p * h - p * t
    BY <1>1
  <2>2. p * g \in Int /\ p * h \in Int /\ p * t \in Int /\ p * t = t * p
    BY <1>1
  <2> QED BY <1>1, <2>1, <2>2
<1> HIDE DEF z
<1>3. z = 0
  <2>1. CASE z >= 1
    <3>1. p * z >= p
      BY <1>2, <2>1
    <3> QED BY <1>1, <1>2, <3>1
  <2>2. CASE z <= -1
    <3>1. p * z <= -p
      BY <1>2, <2>2
    <3> QED BY <1>1, <1>2, <3>1
  <2> QED BY <1>2, <2>1, <2>2
<1>4. l = m
  BY <1>1, <1>2, <1>3
<1> QED BY <1>4 DEF l, m

\* A positive factor may be cancelled from an inequality.
LEMMA Cancel ==
  ASSUME NEW a \in Nat, NEW b \in Nat, NEW c \in Nat, c > 0
  PROVE  (a * c <= b * c => a <= b) /\ (a * c < b * c => a < b)
OBVIOUS

\* Multiplying keeps an order.
LEMMA TimesMonotone ==
  ASSUME NEW a \in Nat, NEW b \in Nat, NEW c \in Nat, a <= b
  PROVE  a * c <= b * c
OBVIOUS

\* Products of naturals, regrouped.
LEMMA TimesAssociates ==
  ASSUME NEW a \in Nat, NEW b \in Nat, NEW c \in Nat
  PROVE  a * (b * c) = (a * b) * c /\ a * b = b * a /\ a * b \in Nat
OBVIOUS

\* There is one quotient and one remainder.
LEMMA EuclidUnique ==
  ASSUME NEW x \in Int, NEW p \in Nat, p > 0, NEW q \in Int, NEW r \in Int, 0 <= r, r < p, x = q * p + r
  PROVE  x \div p = q /\ x % p = r
<1> DEFINE h == x \div p
           l == x % p
<1>1. x \in Int /\ h \in Int /\ l \in Int /\ x = p * h + l /\ 0 <= l /\ l < p
  OBVIOUS
<1>2. x = q * p + r
  OBVIOUS
<1> HIDE DEF h, l
<1>3. p * h = h * p /\ (h - q) * p = h * p - q * p
  BY <1>1
<1>4. (h - q) * p = r - l
  BY <1>1, <1>2, <1>3
<1>5. h = q
  <2>1. CASE h - q >= 1
    <3>1. (h - q) * p >= p
      BY <1>1, <2>1
    <3> QED BY <1>1, <1>4, <3>1
  <2>2. CASE q - h >= 1
    <3>1. (q - h) * p >= p /\ (q - h) * p = - ((h - q) * p)
      BY <1>1, <2>2
    <3> QED BY <1>1, <1>4, <3>1
  <2> QED BY <1>1, <2>1, <2>2
<1>6. l = r
  BY <1>1, <1>2, <1>3, <1>5
<1> QED BY <1>5, <1>6 DEF h, l

=============================================================================
