------------------------------ MODULE GcdProofs ------------------------------
(***************************************************************************)
(* Greatest common divisors: what Euclid's algorithm computes, and the     *)
(* loops that compute it otherwise, by halving, with rows of cofactors and *)
(* by leading words; and with them all gcds and inverses that a thread     *)
(* calls.                                                                  *)
(***************************************************************************)
EXTENDS IntegerProofs

-----------------------------------------------------------------------------
(* Common divisors                                                         *)

\* d divides x.
Div(d, x) == \E k \in Nat : x = k * d

\* The common divisors of x and y.
Common(x, y) == {d \in Nat : d > 0 /\ Div(d, x) /\ Div(d, y)}

\* What it is to be one.
LEMMA CommonIs ==
  ASSUME NEW x, NEW y, NEW d
  PROVE  d \in Common(x, y) <=> d \in Nat /\ d > 0 /\ Div(d, x) /\ Div(d, y)
BY DEF Common

\* Sums of multiples are multiples,
LEMMA DivAdd ==
  ASSUME NEW d \in Nat, NEW x \in Nat, NEW y \in Nat, Div(d, x), Div(d, y)
  PROVE  Div(d, x + y)
<1>1. PICK j \in Nat : x = j * d
  BY DEF Div
<1>2. PICK k \in Nat : y = k * d
  BY DEF Div
<1>3. x + y = (j + k) * d /\ j + k \in Nat
  BY <1>1, <1>2
<1> QED BY <1>3 DEF Div

\* and products,
LEMMA DivTimes ==
  ASSUME NEW d \in Nat, NEW x \in Nat, NEW q \in Nat, Div(d, x)
  PROVE  Div(d, q * x)
<1>1. PICK j \in Nat : x = j * d
  BY DEF Div
<1>2. q * x = (q * j) * d /\ q * j \in Nat
  BY <1>1
<1> QED BY <1>2 DEF Div

\* and what is left of a multiple.
LEMMA DivRest ==
  ASSUME NEW d \in Nat, d > 0, NEW x \in Nat, NEW y \in Nat, Div(d, x), Div(d, x + y)
  PROVE  Div(d, y)
<1>1. PICK j \in Nat : x = j * d
  BY DEF Div
<1>2. PICK k \in Nat : x + y = k * d
  BY DEF Div
<1>3. j * d <= k * d
  BY <1>1, <1>2
<1>4. j <= k
  BY <1>3, Cancel
<1>5. y = (k - j) * d /\ k - j \in Nat
  BY <1>1, <1>2, <1>4
<1> QED BY <1>5 DEF Div

\* Everything divides zero, and itself.
LEMMA DivSelf ==
  ASSUME NEW d \in Nat
  PROVE  Div(d, 0) /\ Div(d, d)
<1>1. 0 = 0 * d /\ d = 1 * d
  OBVIOUS
<1> QED BY <1>1 DEF Div

\* A divisor is not larger.
LEMMA DivAtMost ==
  ASSUME NEW d \in Nat, NEW x \in Nat, x > 0, Div(d, x)
  PROVE  d <= x
<1>1. PICK k \in Nat : x = k * d
  BY DEF Div
<1>2. k >= 1
  BY <1>1
<1>3. 1 * d <= k * d
  BY <1>2, TimesMonotone
<1> QED BY <1>1, <1>3

\* The common divisors do not depend on the order.
LEMMA CommonSwap ==
  ASSUME NEW x, NEW y
  PROVE  Common(x, y) = Common(y, x)
BY DEF Common

\* The divisors of a number are its own.
LEMMA CommonZero ==
  ASSUME NEW x \in Nat, NEW y \in Nat, Common(x, 0) = Common(y, 0)
  PROVE  x = y
<1>1. ASSUME NEW u \in Nat, NEW v \in Nat, u > 0, Common(u, 0) = Common(v, 0) PROVE Div(u, v)
  <2>1. u \in Common(u, 0)
    BY <1>1, CommonIs, DivSelf
  <2> QED BY <1>1, <2>1, CommonIs
<1>2. ASSUME NEW u \in Nat, Common(u, 0) = Common(0, 0) PROVE u = 0
  <2>1. CASE u > 0
    <3>1. u + 1 \in Common(0, 0)
      <4>1. u + 1 \in Nat /\ u + 1 > 0
        OBVIOUS
      <4> QED BY <4>1, CommonIs, DivSelf
    <3>2. Div(u + 1, u)
      BY <1>2, <3>1, CommonIs
    <3> QED BY <2>1, <3>2, DivAtMost
  <2> QED BY <2>1
<1>3. CASE x = 0
  BY <1>2, <1>3
<1>4. CASE y = 0
  BY <1>2, <1>4
<1>5. CASE x > 0 /\ y > 0
  <2>1. Div(x, y) /\ Div(y, x)
    BY <1>1, <1>5
  <2> QED BY <1>5, <2>1, DivAtMost
<1> QED BY <1>3, <1>4, <1>5

\* u is what is left of x, once q times y is taken away.
Leaves(u, x, q, y) == x = q * y + u

\* A step of Euclid's algorithm keeps the common divisors.
LEMMA CommonStep ==
  ASSUME NEW x \in Nat, NEW y \in Nat, NEW q \in Nat, NEW u \in Nat, Leaves(u, x, q, y)
  PROVE  Common(x, y) = Common(y, u)
<1>1. q * y \in Nat /\ x = q * y + u
  BY DEF Leaves
<1>2. ASSUME NEW d \in Common(x, y) PROVE d \in Common(y, u)
  <2>1. d \in Nat /\ d > 0 /\ Div(d, x) /\ Div(d, y)
    BY CommonIs
  <2>2. Div(d, q * y)
    BY <2>1, DivTimes
  <2>3. Div(d, q * y + u)
    BY <1>1, <2>1
  <2>4. Div(d, u)
    BY <1>1, <2>1, <2>2, <2>3, DivRest
  <2> QED BY <2>1, <2>4, CommonIs
<1>3. ASSUME NEW d \in Common(y, u) PROVE d \in Common(x, y)
  <2>1. d \in Nat /\ d > 0 /\ Div(d, u) /\ Div(d, y)
    BY CommonIs
  <2>2. Div(d, q * y)
    BY <2>1, DivTimes
  <2>3. Div(d, q * y + u)
    BY <1>1, <2>1, <2>2, DivAdd
  <2> QED BY <1>1, <2>1, <2>3, CommonIs
<1> QED BY <1>2, <1>3

-----------------------------------------------------------------------------
(* The greatest common divisor                                             *)

\* Euclid's algorithm, a step at a time.
LEMMA GcdRuns ==
  ASSUME NEW x \in Nat, NEW y \in Nat
  PROVE  Gcd[<<x, y>>] = IF y = 0 THEN x ELSE Gcd[<<y, x % y>>]
<1> DEFINE P(f) == f = [p \in Nat \X Nat |-> IF p[2] = 0 THEN p[1] ELSE f[<<p[2], p[1] % p[2]>>]]
           W(u, v) == CHOOSE g \in Nat : Common(g, 0) = Common(u, v)
           F == [p \in Nat \X Nat |-> W(p[1], p[2])]
<1>1. ASSUME NEW u \in Nat PROVE W(u, 0) = u
  <2>1. \A g \in Nat : Common(g, 0) = Common(u, 0) => g = u
    BY CommonZero
  <2> QED BY <2>1, Zenon
<1>2. ASSUME NEW u \in Nat, NEW v \in Nat, v > 0 PROVE W(u, v) = W(v, u % v) /\ u % v \in Nat
  <2>1. Leaves(u % v, u, u \div v, v) /\ u \div v \in Nat /\ u % v \in Nat
    BY <1>2, DivRem DEF Leaves
  <2>2. Common(u, v) = Common(v, u % v)
    BY <2>1, CommonStep
  <2> QED BY <2>1, <2>2
<1> HIDE DEF W
<1>3. P(F)
  <2>1. ASSUME NEW p \in Nat \X Nat
        PROVE  F[p] = IF p[2] = 0 THEN p[1] ELSE F[<<p[2], p[1] % p[2]>>]
    <3>1. p[1] \in Nat /\ p[2] \in Nat /\ F[p] = W(p[1], p[2])
      OBVIOUS
    <3>2. CASE p[2] = 0
      BY <3>1, <3>2, <1>1
    <3>3. CASE p[2] > 0
      <4>1. W(p[1], p[2]) = W(p[2], p[1] % p[2]) /\ p[1] % p[2] \in Nat
        BY <1>2, <3>1, <3>3
      <4> DEFINE v == p[2]
                 r == p[1] % p[2]
      <4>2. v \in Nat /\ r \in Nat
        BY <3>1, <4>1
      <4> HIDE DEF v, r
      <4>3. F[<<v, r>>] = W(v, r)
        BY <4>2
      <4> QED BY <3>1, <3>3, <4>1, <4>3 DEF v, r
    <3> QED BY <3>1, <3>2, <3>3
  <2>2. F = [p \in Nat \X Nat |-> F[p]]
    OBVIOUS
  <2> HIDE DEF F
  <2> QED BY <2>1, <2>2
<1>4. Gcd = CHOOSE f : P(f)
  BY DEF Gcd
<1>5. P(Gcd)
  <2> HIDE DEF P, F
  <2> QED BY <1>3, <1>4
<1>6. <<x, y>> \in Nat \X Nat /\ <<x, y>>[1] = x /\ <<x, y>>[2] = y
  OBVIOUS
<1> QED BY <1>5, <1>6

\* g is the greatest common divisor of x and y.
Greatest(g, x, y) == g \in Nat /\ Common(g, 0) = Common(x, y)

\* What Euclid's algorithm computes.
LEMMA GcdIs ==
  ASSUME NEW x \in Nat, NEW y \in Nat
  PROVE  Greatest(Gcd[<<x, y>>], x, y)
<1> DEFINE Good(v) == \A u \in Nat : Greatest(Gcd[<<u, v>>], u, v)
           T == {n \in Nat : \A v \in 0 .. n : Good(v)}
<1>1. Good(0)
  <2> TAKE u \in Nat
  <2>1. Gcd[<<u, 0>>] = u
    BY GcdRuns
  <2> QED BY <2>1 DEF Greatest
<1>2. ASSUME NEW n \in Nat, \A v \in 0 .. n : Good(v) PROVE Good(n + 1)
  <2> TAKE u \in Nat
  <2> DEFINE w == n + 1
             r == u % w
             q == u \div w
  <2>1. w \in Nat /\ w > 0
    OBVIOUS
  <2>2. u = w * q + r /\ q \in Nat /\ r \in 0 .. w - 1
    BY <2>1, DivRem
  <2>3. r \in Nat /\ r \in 0 .. n /\ Leaves(r, u, q, w)
    BY <2>1, <2>2 DEF Leaves
  <2>4. Gcd[<<u, w>>] = Gcd[<<w, r>>]
    BY <2>1, GcdRuns
  <2> HIDE DEF w, r, q
  <2>5. Greatest(Gcd[<<w, r>>], w, r)
    BY <1>2, <2>1, <2>3
  <2>6. Common(u, w) = Common(w, r)
    BY <2>1, <2>2, <2>3, CommonStep
  <2>7. Greatest(Gcd[<<u, w>>], u, w)
    BY <2>4, <2>5, <2>6 DEF Greatest
  <2> QED BY <2>7 DEF w
<1> HIDE DEF Good
<1>3. T = Nat
  <2>1. T \subseteq Nat /\ 0 \in T
    BY <1>1
  <2>2. ASSUME NEW n \in T PROVE n + 1 \in T
    <3>1. n \in Nat /\ \A v \in 0 .. n : Good(v)
      OBVIOUS
    <3>2. Good(n + 1)
      BY <1>2, <3>1
    <3>3. \A v \in 0 .. n + 1 : v \in 0 .. n \/ v = n + 1
      BY <3>1
    <3> QED BY <3>1, <3>2, <3>3
  <2> HIDE DEF T
  <2> QED BY <2>1, <2>2, SetInduction
<1>4. y \in T
  BY <1>3
<1>5. Good(y)
  BY <1>4
<1> QED BY <1>5 DEF Good

\* It is the only number with those divisors.
LEMMA GcdOnce ==
  ASSUME NEW x \in Nat, NEW y \in Nat, NEW g \in Nat, Common(g, 0) = Common(x, y)
  PROVE  Gcd[<<x, y>>] = g
BY GcdIs, CommonZero DEF Greatest

\* Numbers with the same common divisors have the same greatest one.
LEMMA GcdSame ==
  ASSUME NEW x \in Nat, NEW y \in Nat, NEW u \in Nat, NEW v \in Nat, Common(x, y) = Common(u, v)
  PROVE  Gcd[<<x, y>>] = Gcd[<<u, v>>] /\ Gcd[<<x, y>>] \in Nat
BY GcdIs, CommonZero DEF Greatest

\* A zero operand.
LEMMA GcdZero ==
  ASSUME NEW x \in Nat
  PROVE  Gcd[<<x, 0>>] = x /\ Gcd[<<0, x>>] = x
<1>1. Gcd[<<x, 0>>] = x
  BY GcdRuns
<1> QED BY <1>1, CommonSwap, GcdSame

\* Of positive operands it is positive, and at most either.
LEMMA GcdAtMost ==
  ASSUME NEW x \in Nat, NEW y \in Nat, x > 0
  PROVE  Gcd[<<x, y>>] \in Nat /\ Gcd[<<x, y>>] >= 1 /\ Gcd[<<x, y>>] <= x
<1> DEFINE g == Gcd[<<x, y>>]
<1>1. g \in Nat /\ Common(g, 0) = Common(x, y)
  BY GcdIs DEF Greatest
<1> HIDE DEF g
<1>2. CASE g = 0
  <2>1. x + 1 \in Nat /\ x + 1 > 0
    OBVIOUS
  <2>2. x + 1 \in Common(g, 0)
    BY <1>2, <2>1, CommonIs, DivSelf
  <2>3. Div(x + 1, x)
    BY <1>1, <2>2, CommonIs
  <2> QED BY <2>1, <2>3, DivAtMost
<1>3. CASE g > 0
  <2>1. g \in Common(g, 0)
    BY <1>1, <1>3, CommonIs, DivSelf
  <2>2. Div(g, x)
    BY <1>1, <2>1, CommonIs
  <2>3. g <= x
    BY <1>1, <2>2, DivAtMost
  <2> QED BY <1>1, <1>3, <2>3 DEF g
<1> QED BY <1>1, <1>2, <1>3

\* A common factor of both operands.
LEMMA GcdTimes ==
  ASSUME NEW k \in Nat, k > 0, NEW x \in Nat, NEW y \in Nat
  PROVE  Gcd[<<k * x, k * y>>] = k * Gcd[<<x, y>>]
<1> DEFINE Good(v) == \A u \in Nat : Gcd[<<k * u, k * v>>] = k * Gcd[<<u, v>>]
           T == {n \in Nat : \A v \in 0 .. n : Good(v)}
<1>1. Good(0)
  <2> TAKE u \in Nat
  <2>1. k * u \in Nat /\ k * 0 = 0
    OBVIOUS
  <2> QED BY <2>1, GcdZero
<1>2. ASSUME NEW n \in Nat, \A v \in 0 .. n : Good(v) PROVE Good(n + 1)
  <2> TAKE u \in Nat
  <2> DEFINE w == n + 1
             r == u % w
             q == u \div w
  <2>1. w \in Nat /\ w > 0
    OBVIOUS
  <2>2. u = w * q + r /\ q \in Nat /\ r \in 0 .. w - 1
    BY <2>1, DivRem
  <2>3. r \in Nat /\ r \in 0 .. n /\ r < w
    BY <2>1, <2>2
  <2>4. Gcd[<<u, w>>] = Gcd[<<w, r>>]
    BY <2>1, GcdRuns
  <2> HIDE DEF w, r, q
  <2>5. k * u \in Nat /\ k * w \in Nat /\ k * w > 0 /\ k * r \in Nat
    BY <2>1, <2>3
  <2>6. k * r < k * w
    BY <2>1, <2>3
  <2>7. k * u = q * (k * w) + k * r
    BY <2>1, <2>2, <2>3
  <2>8. (k * u) % (k * w) = k * r
    <3> DEFINE ku == k * u
               kw == k * w
               kr == k * r
    <3>1. ku \in Int /\ kw \in Nat /\ kw > 0 /\ kr \in Int /\ 0 <= kr /\ kr < kw /\ ku = q * kw + kr /\ q \in Int
      BY <2>2, <2>5, <2>6, <2>7
    <3> HIDE DEF ku, kw, kr
    <3>2. ku % kw = kr
      BY <3>1, EuclidUnique
    <3> QED BY <3>2 DEF ku, kw, kr
  <2>9. Gcd[<<k * u, k * w>>] = Gcd[<<k * w, k * r>>]
    BY <2>5, <2>8, GcdRuns
  <2>10. Gcd[<<k * w, k * r>>] = k * Gcd[<<w, r>>]
    BY <1>2, <2>1, <2>3
  <2>11. Gcd[<<k * u, k * w>>] = k * Gcd[<<u, w>>]
    BY <2>4, <2>9, <2>10
  <2> QED BY <2>11 DEF w
<1> HIDE DEF Good
<1>3. T = Nat
  <2>1. T \subseteq Nat /\ 0 \in T
    BY <1>1
  <2>2. ASSUME NEW n \in T PROVE n + 1 \in T
    <3>1. n \in Nat /\ \A v \in 0 .. n : Good(v)
      OBVIOUS
    <3>2. Good(n + 1)
      BY <1>2, <3>1
    <3>3. \A v \in 0 .. n + 1 : v \in 0 .. n \/ v = n + 1
      BY <3>1
    <3> QED BY <3>1, <3>2, <3>3
  <2> HIDE DEF T
  <2> QED BY <2>1, <2>2, SetInduction
<1>4. y \in T
  BY <1>3
<1>5. Good(y)
  BY <1>4
<1> QED BY <1>5 DEF Good

\* The divisors of an odd number are odd, and pass by a factor of two.
LEMMA OddHalf ==
  ASSUME NEW d \in Nat, d > 0, NEW a \in Nat, a % 2 = 1, Div(d, a), NEW b \in Nat, Div(d, 2 * b)
  PROVE  Div(d, b)
<1>1. PICK m \in Nat : a = m * d
  BY DEF Div
<1>2. PICK k \in Nat : 2 * b = k * d
  BY DEF Div
<1> DEFINE e == d \div 2
           h == d % 2
<1>3. d = 2 * e + h /\ e \in Nat /\ h \in {0, 1}
  OBVIOUS
<1> HIDE DEF e, h
<1>4. h = 1
  <2>1. CASE h = 0
    <3>1. a = 2 * (m * e)
      BY <1>1, <1>3, <2>1
    <3>2. m * e \in Nat
      BY <1>3
    <3> DEFINE z == m * e
    <3> HIDE DEF z
    <3> QED BY <3>1, <3>2 DEF z
  <2> QED BY <1>3, <2>1
<1>5. k * d = 2 * (k * e) + k /\ k * e \in Nat
  BY <1>3, <1>4
<1> DEFINE c == k * e
<1> HIDE DEF c
<1>6. k = 2 * (b - c) /\ c \in Nat
  BY <1>2, <1>5 DEF c
<1>7. b - c \in Nat
  BY <1>6
<1> DEFINE t == b - c
<1> HIDE DEF t
<1>8. 2 * b = 2 * (t * d) /\ t * d \in Nat /\ t \in Nat
  BY <1>2, <1>6, <1>7 DEF t
<1> DEFINE z == t * d
<1> HIDE DEF z
<1>9. b = z
  BY <1>8 DEF z
<1> QED BY <1>8, <1>9 DEF Div, z

\* A power of two beside an odd number changes no common divisor.
LEMMA CommonOdd ==
  ASSUME NEW a \in Nat, a % 2 = 1, NEW b \in Nat, NEW i \in Nat
  PROVE  Common(a, b * 2^i) = Common(a, b)
<1>1. ASSUME NEW x \in Nat PROVE Common(a, 2 * x) = Common(a, x)
  <2>1. ASSUME NEW d \in Common(a, 2 * x) PROVE d \in Common(a, x)
    BY CommonIs, OddHalf
  <2>2. ASSUME NEW d \in Common(a, x) PROVE d \in Common(a, 2 * x)
    BY CommonIs, DivTimes
  <2> QED BY <2>1, <2>2
<1> DEFINE T == {n \in Nat : Common(a, b * 2^n) = Common(a, b)}
<1>2. T = Nat
  <2>1. 0 \in T /\ T \subseteq Nat
    <3>1. b * 1 = b
      OBVIOUS
    <3> QED BY <3>1, Pow2Zero
  <2>2. ASSUME NEW n \in T PROVE n + 1 \in T
    <3>1. n \in Nat /\ Common(a, b * 2^n) = Common(a, b)
      OBVIOUS
    <3>2. 2^(n + 1) = 2 * 2^n /\ 2^n \in Nat
      BY <3>1, Pow2Succ, Pow2Nat
    <3> DEFINE p == 2^n
    <3> HIDE DEF p
    <3>3. p \in Nat /\ b * (2 * p) = 2 * (b * p) /\ b * p \in Nat
      BY <3>2 DEF p
    <3>4. Common(a, 2 * (b * p)) = Common(a, b * p)
      BY <1>1, <3>3
    <3>5. b * 2^(n + 1) = 2 * (b * p)
      BY <3>2, <3>3 DEF p
    <3> QED BY <3>1, <3>4, <3>5 DEF p
  <2> HIDE DEF T
  <2> QED BY <2>1, <2>2, SetInduction
<1>3. i \in T
  BY <1>2
<1> QED BY <1>3

\* The smaller of two numbers taken from the larger.
LEMMA CommonLess ==
  ASSUME NEW x \in Nat, NEW y \in Nat, y <= x
  PROVE  Common(x, y) = Common(y, x - y)
<1>1. x - y \in Nat /\ x = 1 * y + (x - y) /\ 1 \in Nat
  OBVIOUS
<1> QED BY <1>1, CommonStep DEF Leaves

-----------------------------------------------------------------------------
(* Stein's algorithm                                                       *)

\* A number without its trailing zeros: its odd part.
LEMMA DropZerosIs ==
  ASSUME NEW n \in Nat, NEW a \in [0 .. n - 1 -> Word], Value(a) > 0, NEW c, c = DropZeros(a)
  PROVE  /\ c \in [0 .. n - 1 -> Word] /\ Value(c) \in Nat /\ Value(c) % 2 = 1
         /\ \E i \in Nat : Value(a) = Value(c) * 2^i
<1> DEFINE z == mag_trailing_zeros(a)
<1>1. z \in Nat /\ \E u \in Nat : Value(a) = u * 2^z /\ u % 2 = 1
  BY MagTrailingZerosAre
<1>2. PICK u \in Nat : Value(a) = u * 2^z /\ u % 2 = 1
  BY <1>1
<1>3. c = mag_shr(a, z)
  BY DEF DropZeros
<1> HIDE DEF z
<1>4. c \in [0 .. n - 1 -> Word] /\ Value(c) = Value(a) \div 2^z
  BY <1>1, <1>3, MagShrIs
<1>5. 2^z \in Nat /\ 2^z > 0
  BY <1>1, Pow2Positive
<1>6. Value(c) = u
  BY <1>2, <1>4, <1>5, DivExact
<1> QED BY <1>1, <1>2, <1>4, <1>6

\* The registers of Stein's loop, of operands x and y.
SteinRegisters(n) == [a : [0 .. n - 1 -> Word], b : [0 .. n - 1 -> Word], shift : Nat]
SteinKept(s, x, y, n) ==
    /\ s \in SteinRegisters(n) /\ Value(s.a) % 2 = 1
    /\ Gcd[<<Value(s.a), Value(s.b)>>] * 2^s.shift = Gcd[<<x, y>>]

\* A common power of two is divided out, and what one operand has more.
LEMMA SteinStarts ==
  ASSUME NEW n \in Nat, NEW a \in [0 .. n - 1 -> Word], NEW b \in [0 .. n - 1 -> Word], Value(a) > 0, Value(b) > 0
  PROVE  SteinKept(SteinStart(a, b), Value(a), Value(b), n)
<1> DEFINE za == mag_trailing_zeros(a)
           zb == mag_trailing_zeros(b)
           s == Min({za, zb})
           p == 2^s
           ha == mag_shr(a, s)
           hb == mag_shr(b, s)
           c == DropZeros(ha)
<1>1. za \in Nat /\ \E u \in Nat : Value(a) = u * 2^za /\ u % 2 = 1
  BY MagTrailingZerosAre
<1>2. zb \in Nat /\ \E u \in Nat : Value(b) = u * 2^zb /\ u % 2 = 1
  BY MagTrailingZerosAre
<1>3. PICK u \in Nat : Value(a) = u * 2^za /\ u % 2 = 1
  BY <1>1
<1>4. PICK v \in Nat : Value(b) = v * 2^zb /\ v % 2 = 1
  BY <1>2
<1>5. s \in {za, zb} /\ s <= za /\ s <= zb
  <2>1. {za, zb} \subseteq Nat /\ {za, zb} # {}
    BY <1>1, <1>2
  <2> HIDE DEF za, zb
  <2> QED BY <2>1, MinIs
<1>6. SteinStart(a, b) = [a |-> c, b |-> hb, shift |-> s]
  BY DEF SteinStart
<1> HIDE DEF za, zb, s
<1>7. s \in Nat /\ p \in Nat /\ p > 0
  BY <1>1, <1>2, <1>5, Pow2Positive
\* What is left of a multiple of 2^s.
<1>8. ASSUME NEW z \in Nat, s <= z, NEW w \in Nat PROVE (w * 2^z) \div p = w * 2^(z - s) /\ w * 2^z = p * (w * 2^(z - s)) /\ w * 2^(z - s) \in Nat
  <2>1. z - s \in Nat /\ (z - s) + s = z
    BY <1>7, <1>8
  <2>2. 2^((z - s) + s) = 2^(z - s) * 2^s /\ 2^(z - s) \in Nat
    BY <1>7, <2>1, Pow2Add, Pow2Nat
  <2> DEFINE k == 2^(z - s)
  <2>3. 2^z = k * p /\ k \in Nat
    BY <2>1, <2>2
  <2> HIDE DEF k, p
  <2>4. w * (k * p) = (w * k) * p /\ w * k \in Nat /\ w * (k * p) = p * (w * k)
    BY <1>7, <2>3
  <2>5. ((w * k) * p) \div p = w * k
    BY <1>7, <2>4, DivExact
  <2> QED BY <2>3, <2>4, <2>5 DEF k
<1> HIDE DEF p
<1>19. (u * 2^za) \div p = u * 2^(za - s) /\ u * 2^za = p * (u * 2^(za - s)) /\ u * 2^(za - s) \in Nat
  BY <1>1, <1>5, <1>8
<1>20. (v * 2^zb) \div p = v * 2^(zb - s) /\ v * 2^zb = p * (v * 2^(zb - s)) /\ v * 2^(zb - s) \in Nat
  BY <1>2, <1>5, <1>8
<1>21. ha \in [0 .. n - 1 -> Word] /\ Value(ha) = Value(a) \div p
  BY <1>7, MagShrIs DEF p
<1>22. hb \in [0 .. n - 1 -> Word] /\ Value(hb) = Value(b) \div p
  BY <1>7, MagShrIs DEF p
<1>9. ha \in [0 .. n - 1 -> Word] /\ hb \in [0 .. n - 1 -> Word] /\ Value(ha) = u * 2^(za - s) /\ Value(hb) = v * 2^(zb - s)
  BY <1>3, <1>4, <1>19, <1>20, <1>21, <1>22
<1>10. Value(a) = p * Value(ha) /\ Value(b) = p * Value(hb) /\ Value(ha) \in Nat /\ Value(hb) \in Nat
  BY <1>3, <1>4, <1>9, <1>19, <1>20
<1>11. Value(ha) > 0 /\ Value(hb) > 0
  <2> DEFINE va == Value(ha)
             vb == Value(hb)
  <2>1. va \in Nat /\ vb \in Nat /\ p * va > 0 /\ p * vb > 0
    BY <1>10
  <2> HIDE DEF va, vb
  <2>2. va # 0 /\ vb # 0
    BY <1>7, <2>1
  <2> QED BY <2>1, <2>2 DEF va, vb
<1>12. Value(ha) % 2 = 1 \/ Value(hb) % 2 = 1
  <2>1. \A w \in Nat : w * 1 = w
    OBVIOUS
  <2>2. CASE s = za
    <3>1. za - s = 0
      BY <1>1, <2>2
    <3> QED BY <1>3, <1>9, <2>1, <3>1, Pow2Zero
  <2>3. CASE s = zb
    <3>1. zb - s = 0
      BY <1>2, <2>3
    <3> QED BY <1>4, <1>9, <2>1, <3>1, Pow2Zero
  <2> QED BY <1>5, <2>2, <2>3
<1> HIDE DEF ha, hb
<1>13. c \in [0 .. n - 1 -> Word] /\ Value(c) \in Nat /\ Value(c) % 2 = 1 /\ \E i \in Nat : Value(ha) = Value(c) * 2^i
  BY <1>9, <1>11, DropZerosIs
<1> HIDE DEF c
<1>14. PICK i \in Nat : Value(ha) = Value(c) * 2^i
  BY <1>13
<1>15. Common(Value(c), Value(hb)) = Common(Value(ha), Value(hb))
  <2>1. CASE Value(hb) % 2 = 1
    <3>1. Common(Value(hb), Value(c) * 2^i) = Common(Value(hb), Value(c))
      BY <1>10, <1>13, <2>1, CommonOdd
    <3> QED BY <1>14, <3>1, CommonSwap
  <2>2. CASE Value(ha) % 2 = 1
    <3>1. i = 0
      <4>1. CASE i >= 1
        <5>1. 2^((i - 1) + 1) = 2 * 2^(i - 1) /\ 2^(i - 1) \in Nat /\ (i - 1) + 1 = i
          BY <4>1, Pow2Succ, Pow2Nat
        <5> DEFINE k == 2^(i - 1)
                   w == Value(c)
                   t == w * k
        <5>2. k \in Nat /\ w \in Nat /\ Value(ha) = w * (2 * k)
          BY <1>13, <1>14, <5>1
        <5> HIDE DEF k, w
        <5>3. Value(ha) = 2 * t /\ t \in Nat
          BY <5>2
        <5> HIDE DEF t
        <5> QED BY <2>2, <5>3
      <4> QED BY <4>1
    <3>2. Value(c) * 1 = Value(c)
      BY <1>13
    <3> QED BY <1>14, <3>1, <3>2, Pow2Zero
  <2> QED BY <1>12, <2>1, <2>2
<1>16. Gcd[<<Value(c), Value(hb)>>] = Gcd[<<Value(ha), Value(hb)>>] /\ Gcd[<<Value(c), Value(hb)>>] \in Nat
  BY <1>10, <1>13, <1>15, GcdSame
<1>17. Gcd[<<p * Value(ha), p * Value(hb)>>] = p * Gcd[<<Value(ha), Value(hb)>>]
  BY <1>7, <1>10, GcdTimes
<1>18. Gcd[<<Value(c), Value(hb)>>] * p = Gcd[<<Value(a), Value(b)>>]
  <2> DEFINE g == Gcd[<<Value(c), Value(hb)>>]
  <2>1. g \in Nat /\ Gcd[<<Value(a), Value(b)>>] = p * g
    BY <1>10, <1>16, <1>17
  <2> HIDE DEF g
  <2>2. g * p = p * g
    BY <1>7, <2>1
  <2> QED BY <2>1, <2>2 DEF g
<1> DEFINE st == [a |-> c, b |-> hb, shift |-> s]
<1>23. st \in SteinRegisters(n) /\ st.a = c /\ st.b = hb /\ st.shift = s
  BY <1>7, <1>9, <1>13 DEF SteinRegisters
<1> HIDE DEF st
<1>24. Gcd[<<Value(st.a), Value(st.b)>>] * 2^st.shift = Gcd[<<Value(a), Value(b)>>]
  BY <1>18, <1>23 DEF p
<1>25. SteinKept(st, Value(a), Value(b), n)
  BY <1>13, <1>23, <1>24 DEF SteinKept
<1> QED BY <1>6, <1>25 DEF st

\* A step: the odd part of b, and what the larger has more than the smaller.
LEMMA SteinSteps ==
  ASSUME NEW n \in Nat, NEW s, NEW x \in Nat, NEW y \in Nat, SteinKept(s, x, y, n), Value(s.b) > 0
  PROVE  SteinKept(SteinStep(s), x, y, n)
<1> DEFINE c == DropZeros(s.b)
           va == Value(s.a)
           vc == Value(c)
           up == mag_sub(s.a, c).limbs
           down == mag_sub(c, s.a).limbs
<1>1. /\ s.a \in [0 .. n - 1 -> Word] /\ s.b \in [0 .. n - 1 -> Word] /\ s.shift \in Nat
      /\ s = [a |-> s.a, b |-> s.b, shift |-> s.shift]
      /\ va % 2 = 1 /\ Gcd[<<va, Value(s.b)>>] * 2^s.shift = Gcd[<<x, y>>]
  BY DEF SteinKept, SteinRegisters
<1>2. c \in [0 .. n - 1 -> Word] /\ vc \in Nat /\ vc % 2 = 1 /\ \E i \in Nat : Value(s.b) = vc * 2^i
  BY <1>1, DropZerosIs
<1>3. va \in Nat /\ mag_cmp(s.a, c) = Order(va, vc)
  BY <1>1, <1>2, ValueNat, MagCmpIs
<1>4. PICK i \in Nat : Value(s.b) = vc * 2^i
  BY <1>2
<1>5. Common(va, Value(s.b)) = Common(va, vc)
  BY <1>1, <1>2, <1>3, <1>4, CommonOdd
<1>6. SteinStep(s) = IF mag_cmp(s.a, c) = 1 THEN [a |-> c, b |-> up, shift |-> s.shift]
                     ELSE [a |-> s.a, b |-> down, shift |-> s.shift]
  <2>1. ASSUME NEW A, NEW B
        PROVE  [s EXCEPT !.a = A, !.b = B] = [a |-> A, b |-> B, shift |-> s.shift]
               /\ [s EXCEPT !.b = B] = [a |-> s.a, b |-> B, shift |-> s.shift]
    <3>1. s \in [a : {s.a}, b : {s.b}, shift : {s.shift}]
      BY <1>1
    <3> HIDE DEF c, up, down, va, vc
    <3>2. [s EXCEPT !.a = A, !.b = B] = [a |-> A, b |-> B, shift |-> s.shift]
      <4> DEFINE t == [s EXCEPT !.a = A]
      <4>1. t = [a |-> A, b |-> s.b, shift |-> s.shift]
        BY ONLY <3>1
      <4>2. [s EXCEPT !.a = A, !.b = B] = [t EXCEPT !.b = B]
        BY ONLY <3>1
      <4>3. t \in [a : {A}, b : {s.b}, shift : {s.shift}] /\ t.shift = s.shift /\ t.a = A
        BY ONLY <4>1
      <4> HIDE DEF t
      <4>4. [t EXCEPT !.b = B] = [a |-> A, b |-> B, shift |-> s.shift]
        BY ONLY <4>3
      <4> QED BY <4>2, <4>4
    <3>3. [s EXCEPT !.b = B] = [a |-> s.a, b |-> B, shift |-> s.shift]
      BY ONLY <3>1
    <3> QED BY <3>2, <3>3
  <2>2. SteinStep(s) = IF mag_cmp(s.a, c) = 1 THEN [s EXCEPT !.a = c, !.b = up] ELSE [s EXCEPT !.b = down]
    BY DEF SteinStep
  <2> HIDE DEF c, up, down
  <2> QED BY <2>1, <2>2
<1>7. up \in [0 .. n - 1 -> Word] /\ down \in [0 .. n - 1 -> Word] /\ Value(up) \in Nat /\ Value(down) \in Nat
  BY <1>1, <1>2, MagSubIs, ValueNat
<1>8. Value(up) - mag_sub(s.a, c).borrow * Weight(n) = va - vc
  BY <1>1, <1>2, MagSubIs
<1>9. Value(down) - mag_sub(c, s.a).borrow * Weight(n) = vc - va
  BY <1>1, <1>2, MagSubIs
<1>10. mag_sub(s.a, c).borrow = IF va < vc THEN 1 ELSE 0
  BY <1>1, <1>2, MagSubBorrows
<1>11. mag_sub(c, s.a).borrow = IF vc < va THEN 1 ELSE 0
  BY <1>1, <1>2, MagSubBorrows
<1>12. Weight(n) \in Nat
  BY WeightIs
<1>13. ASSUME NEW b2, NEW a2, a2 \in Nat, b2 \in Nat, Common(a2, b2) = Common(va, vc)
       PROVE  Gcd[<<a2, b2>>] * 2^s.shift = Gcd[<<x, y>>]
  <2>1. Value(s.b) \in Nat
    BY <1>1, ValueNat
  <2>2. Gcd[<<a2, b2>>] = Gcd[<<va, Value(s.b)>>]
    BY <1>3, <1>5, <1>13, <2>1, GcdSame
  <2> QED BY <1>1, <2>2
<1> HIDE DEF c, va, vc
<1>14. CASE va > vc
  <2>1. mag_cmp(s.a, c) = 1
    BY <1>3, <1>14 DEF Order
  <2>2. Value(up) = va - vc
    BY <1>2, <1>3, <1>7, <1>8, <1>10, <1>12, <1>14
  <2>5. va - vc \in Nat /\ vc <= va /\ va \in Nat /\ vc \in Nat
    BY <1>2, <1>3, <1>14 DEF va, vc
  <2>6. Common(va, vc) = Common(vc, va - vc)
    BY <2>5, CommonLess
  <2>3. Common(va, vc) = Common(vc, va - vc) /\ va - vc \in Nat
    BY <2>5, <2>6
  <2>4. Gcd[<<vc, Value(up)>>] * 2^s.shift = Gcd[<<x, y>>]
    BY <1>2, <1>7, <1>13, <2>2, <2>3
  <2> HIDE DEF up, down
  <2> QED BY <1>1, <1>2, <1>6, <1>7, <2>1, <2>4 DEF SteinKept, SteinRegisters, vc
<1>15. CASE va <= vc
  <2>1. mag_cmp(s.a, c) # 1
    BY <1>2, <1>3, <1>15 DEF Order
  <2>2. Value(down) = vc - va
    BY <1>2, <1>3, <1>7, <1>9, <1>11, <1>12, <1>15
  <2>5. vc - va \in Nat /\ va <= vc /\ va \in Nat /\ vc \in Nat
    BY <1>2, <1>3, <1>15 DEF va, vc
  <2>6. Common(vc, va) = Common(va, vc - va)
    BY <2>5, CommonLess
  <2>3. Common(vc, va) = Common(va, vc - va) /\ vc - va \in Nat
    BY <2>5, <2>6
  <2>4. Gcd[<<va, Value(down)>>] * 2^s.shift = Gcd[<<x, y>>]
    BY <1>3, <1>7, <1>13, <2>2, <2>3, CommonSwap
  <2> HIDE DEF up, down
  <2> QED BY <1>1, <1>2, <1>6, <1>7, <2>1, <2>4 DEF SteinKept, SteinRegisters, va
<1> QED BY <1>2, <1>3, <1>14, <1>15

\* The end: the gcd of the odd parts, with the common power of two put back.
LEMMA SteinEnds ==
  ASSUME NEW n \in Nat, NEW s, NEW x \in Nat, x > 0, x < Weight(n), NEW y \in Nat, SteinKept(s, x, y, n), Value(s.b) = 0
  PROVE  IntOf(Big(0, mag_shl(s.a, s.shift))) = Gcd[<<x, y>>]
<1> DEFINE g == Gcd[<<x, y>>]
           l == mag_shl(s.a, s.shift)
<1>1. s.a \in [0 .. n - 1 -> Word] /\ s.shift \in Nat /\ Gcd[<<Value(s.a), 0>>] * 2^s.shift = g
  BY DEF SteinKept, SteinRegisters
<1>2. Value(s.a) * 2^s.shift = g
  BY <1>1, ValueNat, GcdZero
<1>3. g \in Nat /\ g < Weight(n) /\ Weight(n) \in Nat
  BY GcdAtMost, WeightIs
<1>8. Value(l) = (Value(s.a) * 2^s.shift) % Weight(n)
  BY <1>1, MagShlIs
<1>4. Value(l) = g % Weight(n)
  BY <1>2, <1>8
<1>5. Value(l) = g
  BY <1>3, <1>4, ModSmall
<1>6. Big(0, l).sign = 0 /\ Big(0, l).limbs = l
  BY DEF Big
<1> HIDE DEF l
<1>7. IntOf(Big(0, l)) = Value(l)
  BY <1>6 DEF IntOf
<1> QED BY <1>5, <1>7 DEF l

-----------------------------------------------------------------------------
(* BigInts that stand for what fits                                        *)

\* Small is the operand of all that follows: it fits n limbs.
Holds(x, v, n) == v \in Int /\ Stands(x, v, n) /\ Magnitude(v) < Weight(n)

\* What is held.
LEMMA HoldsIs ==
  ASSUME NEW n \in Nat, NEW v, NEW x, Holds(x, v, n)
  PROVE  /\ v \in Int /\ x = Big(x.sign, x.limbs) /\ x.limbs \in [0 .. n - 1 -> Word]
         /\ Value(x.limbs) = Magnitude(v) /\ x.sign = (IF v < 0 THEN 1 ELSE 0) /\ IntOf(x) = v
         /\ Value(x.limbs) \in Nat
BY StandsFit DEF Holds

\* A natural number without a sign.
LEMMA HoldsNat ==
  ASSUME NEW n \in Nat, NEW l \in [0 .. n - 1 -> Word]
  PROVE  Holds(Big(0, l), Value(l), n)
<1> DEFINE v == Value(l)
           x == Big(0, l)
<1>1. v \in Nat /\ v < Weight(n) /\ Weight(n) \in Nat
  BY ValueNat, WeightIs
<1>2. x = Big(x.sign, x.limbs) /\ x.limbs = l /\ x.sign = 0
  BY DEF Big
<1> HIDE DEF x
<1>3. Value(x.limbs) = v
  BY <1>2
<1> HIDE DEF v
<1>4. Magnitude(v) = v /\ v % Weight(n) = v
  BY <1>1, ModSmall DEF Magnitude
<1>5. Stands(x, v, n)
  BY <1>1, <1>2, <1>3, <1>4 DEF Stands
<1>6. Holds(x, v, n)
  BY <1>1, <1>4, <1>5 DEF Holds
<1> QED BY <1>6 DEF x, v

\* A difference that fits.
LEMMA VtSubIs ==
  ASSUME NEW n \in Nat, NEW u, NEW v, NEW x, NEW y, Holds(x, u, n), Holds(y, v, n), Magnitude(u - v) < Weight(n)
  PROVE  Holds(vt_sub(x, y), u - v, n)
<1>1. u \in Int /\ v \in Int /\ Stands(x, u, n) /\ Stands(y, v, n) /\ Magnitude(u) < Weight(n) /\ Magnitude(v) < Weight(n)
  BY DEF Holds
<1> DEFINE z == wrapping_neg(y)
           w == - v
<1>2. Stands(z, w, n) /\ Magnitude(w) < Weight(n) /\ w \in Int
  BY <1>1, NegationIs
<1>4. u + w = u - v /\ u - v \in Int
  BY <1>1
<1> HIDE DEF z, w
<1>3. Stands(ct_add(x, z), u + w, n)
  BY <1>1, <1>2, BySignsIs
<1>5. x.limbs \in [0 .. n - 1 -> Word] /\ x.sign \in {0, 1} /\ z.limbs \in [0 .. n - 1 -> Word] /\ z.sign \in {0, 1}
  BY <1>1, <1>2, StandsSigns
<1>6. vt_add(x, z) = ct_add(x, z)
  BY <1>5, VtAddIs
<1>7. vt_sub(x, y) = vt_add(x, z)
  BY DEF vt_sub, z
<1> QED BY <1>3, <1>4, <1>6, <1>7 DEF Holds

\* A product that fits.
LEMMA VtMulHolds ==
  ASSUME NEW n \in Nat, NEW u, NEW v, NEW x, NEW y, Holds(x, u, n), Holds(y, v, n), Magnitude(u * v) < Weight(n)
  PROVE  Holds(vt_mul(x, y), u * v, n)
<1>1. u \in Int /\ v \in Int /\ Stands(x, u, n) /\ Stands(y, v, n) /\ Magnitude(u) < Weight(n) /\ Magnitude(v) < Weight(n)
  BY DEF Holds
<1>2. Stands(ct_mul(x, y), u * v, n)
  BY <1>1, CtMulIs
<1>3. x.limbs \in [0 .. n - 1 -> Word] /\ y.limbs \in [0 .. n - 1 -> Word]
  BY <1>1, StandsSigns
<1>4. vt_mul(x, y) = ct_mul(x, y)
  BY <1>3, VtMulIs
<1>5. u * v \in Int
  BY <1>1
<1> QED BY <1>2, <1>4, <1>5 DEF Holds

\* The negation, and the same number with the sign that it should have.
LEMMA NegationHolds ==
  ASSUME NEW n \in Nat, NEW v, NEW x, Holds(x, v, n)
  PROVE  Holds(wrapping_neg(x), - v, n) /\ Holds(Canonical(x.sign, x.limbs), v, n)
<1>1. v \in Int /\ Stands(x, v, n) /\ Magnitude(v) < Weight(n)
  BY DEF Holds
<1>2. Stands(wrapping_neg(x), - v, n) /\ Magnitude(- v) = Magnitude(v)
  BY <1>1, NegationIs
<1>3. - v \in Int
  BY <1>1
<1>4. x.limbs \in [0 .. n - 1 -> Word] /\ Value(x.limbs) = Magnitude(v) % Weight(n) /\ x.sign = (IF v < 0 THEN 1 ELSE 0)
  BY <1>1, StandsFit DEF Stands
<1>5. Stands(Canonical(x.sign, x.limbs), v, n)
  BY <1>1, <1>4, CanonicalIs
<1> QED BY <1>1, <1>2, <1>3, <1>5 DEF Holds

\* Quotient and remainder of natural numbers.
LEMMA VtDivRemHolds ==
  ASSUME NEW n \in Nat, NEW u \in Nat, NEW v \in Nat, v > 0, NEW x, NEW y, Holds(x, u, n), Holds(y, v, n),
         NEW qr, qr = vt_div_rem(x, y)
  PROVE  Holds(qr.q, u \div v, n) /\ Holds(qr.r, u % v, n)
<1> DEFINE m == mag_div_rem(x.limbs, y.limbs)
<1>1. x.limbs \in [0 .. n - 1 -> Word] /\ Value(x.limbs) = Magnitude(u) /\ x.sign = (IF u < 0 THEN 1 ELSE 0)
  BY HoldsIs
<1>2. y.limbs \in [0 .. n - 1 -> Word] /\ Value(y.limbs) = Magnitude(v) /\ y.sign = (IF v < 0 THEN 1 ELSE 0)
  BY HoldsIs
<1>3. Value(x.limbs) = u /\ Value(y.limbs) = v /\ x.sign = 0 /\ y.sign = 0
  BY <1>1, <1>2 DEF Magnitude
<1>4. Divides(m, x.limbs, Value(y.limbs), n)
  BY <1>1, <1>2, <1>3, MagDivRemIs
<1> HIDE DEF m
<1>5. m.q \in [0 .. n - 1 -> Word] /\ m.r \in [0 .. n - 1 -> Word] /\ Value(m.q) = u \div v /\ Value(m.r) = u % v
  BY <1>3, <1>4 DEF Divides
<1>6. qr = [q |-> Canonical((x.sign + y.sign) % 2, m.q), r |-> Big(0, m.r)]
  BY <1>3 DEF vt_div_rem, Floored, m
<1>7. qr.q = Canonical(0, m.q) /\ qr.r = Big(0, m.r)
  <2>1. (0 + 0) % 2 = 0
    OBVIOUS
  <2> QED BY <1>3, <1>6, <2>1
<1>8. Holds(qr.r, u % v, n)
  BY <1>5, <1>7, HoldsNat
<1>9. Holds(Big(0, m.q), u \div v, n)
  BY <1>5, HoldsNat
<1>10. Canonical(0, m.q) = Big(0, m.q)
  BY DEF Canonical
<1> QED BY <1>7, <1>8, <1>9, <1>10

\* The same number at another width that it fits.
LEMMA ResizeHolds ==
  ASSUME NEW m \in Nat, NEW n \in Nat, NEW v, NEW x, Holds(x, v, m), Magnitude(v) < Weight(n)
  PROVE  Holds(resize_unchecked(x, n), v, n)
<1> DEFINE y == resize_unchecked(x, n)
<1>1. x.limbs \in [0 .. m - 1 -> Word] /\ Value(x.limbs) = Magnitude(v) /\ x.sign = (IF v < 0 THEN 1 ELSE 0) /\ v \in Int
  BY HoldsIs
<1>2. y = Big(x.sign, y.limbs) /\ y.limbs \in [0 .. n - 1 -> Word] /\ Value(y.limbs) = Value(x.limbs) % Weight(n)
  BY <1>1, ResizeIs
<1> HIDE DEF y
<1>3. y.sign = x.sign
  BY <1>2 DEF Big
<1>4. Magnitude(v) \in Nat /\ (Magnitude(v) = 0 <=> v = 0) /\ Weight(n) \in Nat
  BY <1>1, MagnitudeIs, WeightIs
<1>5. Value(y.limbs) = Magnitude(v)
  BY <1>1, <1>2, <1>4, ModSmall
<1>6. y.sign = IF v < 0 /\ Value(y.limbs) # 0 THEN 1 ELSE 0
  BY <1>1, <1>3, <1>4, <1>5
<1>7. Stands(y, v, n)
  BY <1>1, <1>2, <1>3, <1>5, <1>6 DEF Stands
<1>8. Holds(y, v, n)
  BY <1>1, <1>7 DEF Holds
<1> QED BY <1>8 DEF y

\* An operand without its sign.
LEMMA AbsoluteHolds ==
  ASSUME NEW n \in Nat, NEW v, NEW x, Holds(x, v, n)
  PROVE  Holds(absolute(x), Magnitude(v), n) /\ Magnitude(v) \in Nat
<1>1. x.limbs \in [0 .. n - 1 -> Word] /\ Value(x.limbs) = Magnitude(v) /\ Value(x.limbs) \in Nat
  BY HoldsIs
<1> QED BY <1>1, HoldsNat DEF absolute

\* Zero and one.
LEMMA SmallHold ==
  ASSUME NEW n \in Nat, n >= 1
  PROVE  Holds(ZeroBig(n), 0, n) /\ Holds(SmallBig(1, n), 1, n)
<1>1. Zeros(n) \in [0 .. n - 1 -> Word] /\ Value(Zeros(n)) = 0
  BY ZerosAre
<1>2. 1 \in Word
  BY BaseIs DEF Word
<1>3. OneLimb(1, n) \in [0 .. n - 1 -> Word] /\ Value(OneLimb(1, n)) = 1
  BY <1>2, OneLimbIs
<1> QED BY <1>1, <1>3, HoldsNat DEF ZeroBig, SmallBig

\* There is one BigInt of a width that holds a number.
LEMMA HoldsOnce ==
  ASSUME NEW n \in Nat, NEW v, NEW x, NEW y, Holds(x, v, n), Holds(y, v, n)
  PROVE  x = y
BY StandsOnce DEF Holds

-----------------------------------------------------------------------------
(* The rows of Euclid's extended algorithm                                 *)

\* m with one sign or the other.
Way(e, m) == IF e = 0 THEN m ELSE 0 - m

\* The size of it.
LEMMA WayIs ==
  ASSUME NEW e \in {0, 1}, NEW m \in Nat
  PROVE  Way(e, m) \in Int /\ Magnitude(Way(e, m)) = m
BY DEF Way, Magnitude

\* A cofactor and Q times the next, of the other sign: they add up in size.
AddUp(e, p, r, Q) ==
    /\ Way(e, p) - Q * Way(1 - e, r) = Way(e, p + Q * r) /\ Magnitude(Q * Way(1 - e, r)) = Q * r
    /\ p + Q * r \in Nat /\ Q * r \in Nat

\* Cofactors of one sign and of the other do.
LEMMA WayLess ==
  ASSUME NEW e \in {0, 1}, NEW p \in Nat, NEW r \in Nat, NEW Q \in Nat
  PROVE  AddUp(e, p, r, Q)
<1> SUFFICES /\ Way(e, p) - Q * Way(1 - e, r) = Way(e, p + Q * r) /\ Magnitude(Q * Way(1 - e, r)) = Q * r
             /\ p + Q * r \in Nat /\ Q * r \in Nat
  BY DEF AddUp
<1>1. Q * r \in Nat /\ Q * (0 - r) = 0 - Q * r
  OBVIOUS
<1> DEFINE m == Q * r
<1> HIDE DEF m
<1>2. CASE e = 0
  <2>1. Way(e, p) = p /\ Way(1 - e, r) = 0 - r /\ Way(e, p + m) = p + m
    BY <1>2 DEF Way
  <2>2. Q * Way(1 - e, r) = 0 - m
    BY <1>1, <2>1 DEF m
  <2>3. Magnitude(0 - m) = m /\ p - (0 - m) = p + m /\ p + m \in Nat
    BY <1>1 DEF Magnitude, m
  <2> QED BY <1>1, <2>1, <2>2, <2>3 DEF m
<1>3. CASE e = 1
  <2>1. Way(e, p) = 0 - p /\ Way(1 - e, r) = r /\ Way(e, p + m) = 0 - (p + m)
    BY <1>3 DEF Way
  <2>2. Q * Way(1 - e, r) = m
    BY <2>1 DEF m
  <2>3. Magnitude(m) = m /\ (0 - p) - m = 0 - (p + m) /\ p + m \in Nat
    BY <1>1 DEF Magnitude, m
  <2> QED BY <1>1, <2>1, <2>2, <2>3 DEF m
<1> QED BY <1>2, <1>3

\* A and B by their cofactors, of sizes p, q, r and t, and the operands by A and B.
XgcdRows(A, B, p, q, r, t, e, x, y) ==
    /\ A \in Nat /\ B \in Nat /\ p \in Nat /\ q \in Nat /\ r \in Nat /\ t \in Nat /\ e \in {0, 1}
    /\ x \in Nat /\ y \in Nat
    /\ e = 0 => A + q * y = p * x /\ B + r * x = t * y
    /\ e = 1 => A + p * x = q * y /\ B + t * y = r * x
    /\ r * A + p * B = y /\ t * A + q * B = x

\* A combination of two equations.
LEMMA Eliminated ==
  ASSUME NEW A \in Nat, NEW B \in Nat, NEW a \in Nat, NEW b \in Nat, NEW c \in Nat, NEW d \in Nat,
         NEW x \in Nat, NEW y \in Nat, NEW Q \in Nat, NEW R \in Nat,
         A + a * y = b * x, B + c * x = d * y, A = Q * B + R
  PROVE  R + (a + Q * d) * y = (b + Q * c) * x
<1>1. Q * (B + c * x) = Q * (d * y)
  OBVIOUS
<1>2. Q * (B + c * x) = Q * B + Q * (c * x)
  OBVIOUS
<1>3. (a + Q * d) * y = a * y + Q * (d * y) /\ (b + Q * c) * x = b * x + Q * (c * x)
  OBVIOUS
<1> DEFINE QB == Q * B
           ay == a * y
           bx == b * x
           u == Q * (c * x)
           v == Q * (d * y)
<1>4. QB \in Nat /\ ay \in Nat /\ bx \in Nat /\ u \in Nat /\ v \in Nat
  OBVIOUS
<1>5. QB + u = v /\ A + ay = bx /\ A = QB + R
  BY <1>1, <1>2
<1>6. (a + Q * d) * y = ay + v /\ (b + Q * c) * x = bx + u
  BY <1>3
<1> HIDE DEF QB, ay, bx, u, v
<1> QED BY <1>4, <1>5, <1>6

\* The operands, by the rows after a step.
LEMMA Composed ==
  ASSUME NEW A \in Nat, NEW B \in Nat, NEW r \in Nat, NEW p \in Nat, NEW Q \in Nat, NEW R \in Nat, A = Q * B + R
  PROVE  (p + Q * r) * B + r * R = r * A + p * B
<1>1. (p + Q * r) * B = p * B + r * (Q * B) /\ r * A = r * (Q * B) + r * R
  OBVIOUS
<1> DEFINE pB == p * B
           rQB == r * (Q * B)
           rR == r * R
<1>2. pB \in Nat /\ rQB \in Nat /\ rR \in Nat
  OBVIOUS
<1> HIDE DEF pB, rQB, rR
<1> QED BY <1>1, <1>2 DEF pB, rQB, rR

\* The rows after a step.
NextRows(B, R, p, q, r, t, Q, e, x, y) == XgcdRows(B, R, r, t, p + Q * r, q + Q * t, 1 - e, x, y)

\* Division with remainder.
Divided(A, B, Q, R) == Q \in Nat /\ R \in Nat /\ A = Q * B + R

\* A step of the extended algorithm.
LEMMA XgcdNext ==
  ASSUME NEW A, NEW B, NEW p, NEW q, NEW r, NEW t, NEW e, NEW x, NEW y, XgcdRows(A, B, p, q, r, t, e, x, y),
         NEW Q, NEW R, Divided(A, B, Q, R)
  PROVE  NextRows(B, R, p, q, r, t, Q, e, x, y)
<1> A \in Nat /\ B \in Nat /\ p \in Nat /\ q \in Nat /\ r \in Nat /\ t \in Nat /\ e \in {0, 1} /\ x \in Nat /\ y \in Nat
  BY DEF XgcdRows
<1> Q \in Nat /\ R \in Nat
  BY DEF Divided
<1>6. A = Q * B + R
  BY DEF Divided
<1> DEFINE r2 == p + Q * r
           t2 == q + Q * t
<1> r2 \in Nat /\ t2 \in Nat /\ 1 - e \in {0, 1}
  OBVIOUS
<1>1. r * A + p * B = y /\ t * A + q * B = x
  BY DEF XgcdRows
<1>2. r2 * B + r * R = y
  <2>1. (p + Q * r) * B + r * R = r * A + p * B
    BY <1>6, Composed
  <2> QED BY <1>1, <2>1
<1>3. t2 * B + t * R = x
  <2>1. (q + Q * t) * B + t * R = t * A + q * B
    BY <1>6, Composed
  <2> QED BY <1>1, <2>1
<1>4. CASE e = 0
  <2>1. A + q * y = p * x /\ B + r * x = t * y
    BY <1>4 DEF XgcdRows
  <2>2. R + (q + Q * t) * y = (p + Q * r) * x
    BY <1>6, <2>1, Eliminated
  <2>3. R + t2 * y = r2 * x
    BY <2>2
  <2>4. 1 - e = 1
    BY <1>4
  <2> HIDE DEF r2, t2
  <2>5. XgcdRows(B, R, r, t, r2, t2, 1 - e, x, y)
    BY <1>2, <1>3, <2>1, <2>3, <2>4 DEF XgcdRows
  <2> QED BY <2>5 DEF r2, t2, NextRows
<1>5. CASE e = 1
  <2>1. A + p * x = q * y /\ B + t * y = r * x
    BY <1>5 DEF XgcdRows
  <2>2. R + (p + Q * r) * x = (q + Q * t) * y
    BY <1>6, <2>1, Eliminated
  <2>3. R + r2 * x = t2 * y
    BY <2>2
  <2>4. 1 - e = 0
    BY <1>5
  <2> HIDE DEF r2, t2
  <2>5. XgcdRows(B, R, r, t, r2, t2, 1 - e, x, y)
    BY <1>2, <1>3, <2>1, <2>3, <2>4 DEF XgcdRows
  <2> QED BY <2>5 DEF r2, t2, NextRows
<1> QED BY <1>4, <1>5

\* No cofactor of B is larger than an operand, while A is not zero.
LEMMA CofactorsBound ==
  ASSUME NEW A \in Nat, A > 0, NEW B \in Nat, NEW p \in Nat, NEW r \in Nat, NEW y \in Nat, r * A + p * B = y
  PROVE  r <= y
<1>1. r * 1 <= r * A
  <2>1. 1 * r <= A * r
    BY TimesMonotone
  <2> QED BY <2>1
<1>2. r * A \in Nat /\ p * B \in Nat
  OBVIOUS
<1> DEFINE rA == r * A
           pB == p * B
<1> HIDE DEF rA, pB
<1> QED BY <1>1, <1>2 DEF rA, pB

-----------------------------------------------------------------------------
(* The registers of Euclid's extended algorithm                            *)

\* The registers, of n limbs, hold two numbers and their cofactors.
XgcdHolds(s, n, A, B, p, q, r, t, e) ==
    /\ Holds(s.a, A, n) /\ Holds(s.b, B, n)
    /\ Holds(s.x_a, Way(e, p), n) /\ Holds(s.y_a, Way(1 - e, q), n)
    /\ Holds(s.x_b, Way(1 - e, r), n) /\ Holds(s.y_b, Way(e, t), n)

\* Two numbers with the common divisors of x and y, and their rows.
XgcdState(s, x, y, n, A, B, p, q, r, t, e) ==
    /\ XgcdHolds(s, n, A, B, p, q, r, t, e)
    /\ XgcdRows(A, B, p, q, r, t, e, x, y)
    /\ A > 0 /\ p <= y /\ q <= x /\ Common(A, B) = Common(x, y)

XgcdKept(s, x, y, n) ==
    \E A, B, p, q, r, t, e : XgcdState(s, x, y, n, A, B, p, q, r, t, e)

\* The start: the operands, and the rows of the identity.
LEMMA XgcdFirst ==
  ASSUME NEW x \in Nat, x > 0, NEW y \in Nat, y > 0, NEW n \in Nat, n >= 1, NEW s,
         Holds(s.a, x, n), Holds(s.b, y, n), s.x_a = SmallBig(1, n), s.y_a = ZeroBig(n),
         s.x_b = ZeroBig(n), s.y_b = SmallBig(1, n)
  PROVE  XgcdKept(s, x, y, n)
<1>1. Way(0, 1) = 1 /\ Way(0, 0) = 0 /\ Way(1 - 0, 0) = 0
  BY DEF Way
<1>2. XgcdHolds(s, n, x, y, 1, 0, 0, 1, 0)
  BY <1>1, SmallHold DEF XgcdHolds
<1>3. XgcdRows(x, y, 1, 0, 0, 1, 0, x, y)
  <2>1. 0 # 1 /\ 0 * y = 0 /\ 0 * x = 0 /\ 1 * x = x /\ 1 * y = y /\ x + 0 = x /\ y + 0 = y /\ 0 + y = y
    OBVIOUS
  <2> QED BY <2>1 DEF XgcdRows
<1>4. XgcdState(s, x, y, n, x, y, 1, 0, 0, 1, 0)
  BY <1>2, <1>3 DEF XgcdState
<1>5. 0 \in Nat /\ 1 \in Nat /\ 0 \in {0, 1}
  OBVIOUS
<1> QED BY <1>4, <1>5 DEF XgcdKept

\* A cofactor of the remainder.
LEMMA NextCofactor ==
  ASSUME NEW n \in Nat, NEW e \in {0, 1}, NEW p \in Nat, NEW r \in Nat, NEW Q \in Nat, p + Q * r < Weight(n),
         NEW x, NEW y, NEW q, Holds(x, Way(e, p), n), Holds(y, Way(1 - e, r), n), Holds(q, Q, n)
  PROVE  Holds(vt_sub(x, vt_mul(q, y)), Way(e, p + Q * r), n)
<1>9. AddUp(e, p, r, Q)
  BY WayLess
<1> DEFINE m == Way(1 - e, r)
           k == Way(e, p)
           z == vt_mul(q, y)
<1>1. /\ k - Q * m = Way(e, p + Q * r) /\ Magnitude(Q * m) = Q * r
      /\ p + Q * r \in Nat /\ Q * r \in Nat
  BY <1>9 DEF AddUp
<1>2. Magnitude(Way(e, p + Q * r)) = p + Q * r
  BY <1>1, WayIs
<1>3. Weight(n) \in Nat
  BY WeightIs
<1>4. Q * r < Weight(n)
  <2> DEFINE w == Q * r
  <2>1. w \in Nat /\ p + w < Weight(n)
    BY <1>1
  <2> HIDE DEF w
  <2>2. w < Weight(n)
    BY <1>3, <2>1
  <2> QED BY <2>2 DEF w
<1> HIDE DEF m, k
<1>5. Magnitude(Q * m) < Weight(n)
  BY <1>1, <1>4
<1>6. Holds(z, Q * m, n)
  BY <1>5, VtMulHolds DEF m
<1> DEFINE w == Q * m
<1>7. Magnitude(k - w) < Weight(n)
  BY <1>1, <1>2
<1> HIDE DEF z, w
<1>8. Holds(vt_sub(x, z), k - w, n)
  BY <1>6, <1>7, VtSubIs DEF k, w
<1> QED BY <1>1, <1>8 DEF z, w

\* A step: a division, and the rows that follow it.
LEMMA XgcdSteps ==
  ASSUME NEW x \in Nat, NEW y \in Nat, NEW n \in Nat, x < Weight(n), y < Weight(n), NEW s, XgcdKept(s, x, y, n),
         ~mag_is_zero(s.b.limbs)
  PROVE  XgcdKept(XgcdStep(s), x, y, n)
<1>1. PICK A, B, p, q, r, t, e : XgcdState(s, x, y, n, A, B, p, q, r, t, e)
  BY DEF XgcdKept
<1> A \in Nat /\ B \in Nat /\ p \in Nat /\ q \in Nat /\ r \in Nat /\ t \in Nat /\ e \in {0, 1}
  BY <1>1 DEF XgcdState, XgcdRows
<1>2. /\ Holds(s.a, A, n) /\ Holds(s.b, B, n)
      /\ Holds(s.x_a, Way(e, p), n) /\ Holds(s.y_a, Way(1 - e, q), n)
      /\ Holds(s.x_b, Way(1 - e, r), n) /\ Holds(s.y_b, Way(e, t), n)
      /\ XgcdRows(A, B, p, q, r, t, e, x, y)
      /\ A > 0 /\ p <= y /\ q <= x /\ Common(A, B) = Common(x, y)
  BY <1>1 DEF XgcdState, XgcdHolds
<1>3. B > 0
  <2>1. s.b.limbs \in [0 .. n - 1 -> Word] /\ Value(s.b.limbs) = Magnitude(B)
    BY <1>2, HoldsIs
  <2>2. Value(s.b.limbs) # 0
    BY <2>1, IsZero
  <2> QED BY <2>1, <2>2 DEF Magnitude
<1>4. PICK Q \in Nat, R \in Nat : Q = A \div B /\ R = A % B /\ A = Q * B + R /\ R < B
  <2> DEFINE Q == A \div B
             R == A % B
  <2>1. A = B * Q + R /\ Q \in Nat /\ R \in 0 .. B - 1
    BY <1>3, DivRem
  <2>2. Q = A \div B /\ R = A % B
    OBVIOUS
  <2> HIDE DEF Q, R
  <2>3. B * Q = Q * B /\ R \in Nat /\ R < B
    BY <2>1
  <2> QED BY <2>1, <2>2, <2>3
<1> DEFINE qr == vt_div_rem(s.a, s.b)
           z == XgcdStep(s)
<1>5. Holds(qr.q, Q, n) /\ Holds(qr.r, R, n)
  BY <1>2, <1>3, <1>4, VtDivRemHolds
<1>6. z = [a |-> s.b, b |-> qr.r, x_a |-> s.x_b, y_a |-> s.y_b,
           x_b |-> vt_sub(s.x_a, vt_mul(qr.q, s.x_b)), y_b |-> vt_sub(s.y_a, vt_mul(qr.q, s.y_b))]
  BY DEF XgcdStep
<1> HIDE DEF qr, z
<1>7. PICK r2 \in Nat, t2 \in Nat, d \in {0, 1} : r2 = p + Q * r /\ t2 = q + Q * t /\ d = 1 - e
  <2>1. p + Q * r \in Nat /\ q + Q * t \in Nat /\ 1 - e \in {0, 1}
    OBVIOUS
  <2> QED BY <2>1
<1>8. XgcdRows(B, R, r, t, r2, t2, d, x, y)
  <2>1. XgcdRows(A, B, p, q, r, t, e, x, y) /\ Divided(A, B, Q, R)
    BY <1>2, <1>4 DEF Divided
  <2>2. NextRows(B, R, p, q, r, t, Q, e, x, y)
    BY <2>1, XgcdNext
  <2> QED BY <1>7, <2>2 DEF NextRows
<1>9. r2 * B + r * R = y /\ t2 * B + t * R = x
  BY <1>8 DEF XgcdRows
<1>10. r2 <= y /\ t2 <= x
  BY <1>3, <1>9, CofactorsBound
<1>11. r <= y /\ t <= x
  <2>1. r * A + p * B = y /\ t * A + q * B = x
    BY <1>2 DEF XgcdRows
  <2> QED BY <1>2, <2>1, CofactorsBound
<1>12. Weight(n) \in Nat /\ r2 < Weight(n) /\ t2 < Weight(n)
  BY <1>10, WeightIs
<1>13. Holds(z.x_b, Way(e, r2), n)
  <2>1. p + Q * r < Weight(n)
    BY <1>7, <1>12
  <2>2. Holds(vt_sub(s.x_a, vt_mul(qr.q, s.x_b)), Way(e, p + Q * r), n)
    BY <1>2, <1>5, <2>1, NextCofactor
  <2> QED BY <1>6, <1>7, <2>2
<1>14. Holds(z.y_b, Way(d, t2), n)
  <2>1. q + Q * t < Weight(n)
    BY <1>7, <1>12
  <2>2. Holds(s.y_a, Way(d, q), n) /\ Holds(s.y_b, Way(1 - d, t), n)
    <3>1. 1 - d = e
      BY <1>7
    <3> QED BY <1>2, <1>7, <3>1
  <2>3. Holds(vt_sub(s.y_a, vt_mul(qr.q, s.y_b)), Way(d, q + Q * t), n)
    BY <1>5, <2>1, <2>2, NextCofactor
  <2> QED BY <1>6, <1>7, <2>3
<1>15. XgcdHolds(z, n, B, R, r, t, r2, t2, d)
  <2>1. 1 - d = e
    BY <1>7
  <2>2. z.a = s.b /\ z.b = qr.r /\ z.x_a = s.x_b /\ z.y_a = s.y_b
    BY <1>6
  <2> QED BY <1>2, <1>5, <1>7, <1>13, <1>14, <2>1, <2>2 DEF XgcdHolds
<1>16. Common(B, R) = Common(x, y)
  <2>1. Leaves(R, A, Q, B)
    BY <1>4 DEF Leaves
  <2>2. Common(A, B) = Common(B, R)
    BY <2>1, CommonStep
  <2> QED BY <1>2, <2>2
<1>17. XgcdState(z, x, y, n, B, R, r, t, r2, t2, d)
  BY <1>3, <1>8, <1>11, <1>15, <1>16 DEF XgcdState
<1>18. XgcdKept(z, x, y, n)
  BY <1>17 DEF XgcdKept
<1> QED BY <1>18 DEF z

\* What the registers say of the numbers that they hold.
LEMMA XgcdSays ==
  ASSUME NEW x \in Nat, NEW y \in Nat, NEW n \in Nat, NEW s, XgcdKept(s, x, y, n)
  PROVE  /\ IntOf(s.a) = IntOf(s.x_a) * x + IntOf(s.y_a) * y
         /\ IntOf(s.b) = IntOf(s.x_b) * x + IntOf(s.y_b) * y
<1>1. PICK A, B, p, q, r, t, e : XgcdState(s, x, y, n, A, B, p, q, r, t, e)
  BY DEF XgcdKept
<1> A \in Nat /\ B \in Nat /\ p \in Nat /\ q \in Nat /\ r \in Nat /\ t \in Nat /\ e \in {0, 1}
  BY <1>1 DEF XgcdState, XgcdRows
<1>2. /\ IntOf(s.a) = A /\ IntOf(s.b) = B
      /\ IntOf(s.x_a) = Way(e, p) /\ IntOf(s.y_a) = Way(1 - e, q)
      /\ IntOf(s.x_b) = Way(1 - e, r) /\ IntOf(s.y_b) = Way(e, t)
      /\ XgcdRows(A, B, p, q, r, t, e, x, y)
  BY <1>1, HoldsIs DEF XgcdState, XgcdHolds
<1>3. CASE e = 0
  <2>1. Way(e, p) = p /\ Way(1 - e, q) = 0 - q /\ Way(1 - e, r) = 0 - r /\ Way(e, t) = t
    BY <1>3 DEF Way
  <2>2. A + q * y = p * x /\ B + r * x = t * y
    BY <1>2, <1>3 DEF XgcdRows
  <2>3. A = p * x + (0 - q) * y /\ B = (0 - r) * x + t * y
    BY <2>2
  <2> QED BY <1>2, <2>1, <2>3
<1>4. CASE e = 1
  <2>1. Way(e, p) = 0 - p /\ Way(1 - e, q) = q /\ Way(1 - e, r) = r /\ Way(e, t) = 0 - t
    BY <1>4 DEF Way
  <2>2. A + p * x = q * y /\ B + t * y = r * x
    BY <1>2, <1>4 DEF XgcdRows
  <2>3. A = (0 - p) * x + q * y /\ B = r * x + (0 - t) * y
    BY <2>2
  <2> QED BY <1>2, <2>1, <2>3
<1> QED BY <1>3, <1>4

-----------------------------------------------------------------------------
(* Extended gcds, from the width to the inverse                            *)

\* A magnitude of so many bits fits the limbs that they need.
LEMMA BitsFit ==
  ASSUME NEW k \in Nat, NEW a \in [0 .. k - 1 -> Word], NEW top \in Nat, mag_bitsize(a) <= top,
         NEW m \in Nat, top \div LimbBits + 2 <= m
  PROVE  Value(a) < Weight(m)
<1> DEFINE bits == mag_bitsize(a)
           d == top \div LimbBits
<1>1. bits \in Nat /\ Value(a) < 2^bits /\ Value(a) \in Nat
  BY BitSizeIs, ValueNat
<1>2. LimbBits \in Nat /\ LimbBits > 0
  BY LimbBitsAssumption
<1>3. top = LimbBits * d + (top % LimbBits) /\ d \in Nat /\ top % LimbBits \in 0 .. LimbBits - 1
  BY <1>2, DivRem
<1> HIDE DEF d
<1>4. top <= LimbBits * (d + 1) /\ LimbBits * (d + 1) \in Nat
  BY <1>2, <1>3
<1>5. d + 1 <= m /\ d + 1 \in Nat
  BY <1>3 DEF d
<1>6. (d + 1) * LimbBits <= m * LimbBits
  BY <1>2, <1>5, TimesMonotone
<1>7. LimbBits * (d + 1) = (d + 1) * LimbBits /\ LimbBits * m = m * LimbBits /\ LimbBits * m \in Nat
  BY <1>2, <1>5
<1>8. bits <= LimbBits * m
  <2> DEFINE u == LimbBits * (d + 1)
             w == LimbBits * m
  <2>1. u \in Nat /\ w \in Nat /\ u <= w /\ top <= u
    BY <1>4, <1>6, <1>7
  <2> HIDE DEF u, w
  <2>2. bits <= w
    BY <1>1, <2>1
  <2> QED BY <2>2 DEF w
<1>9. 2^bits <= 2^(LimbBits * m) /\ 2^bits \in Nat /\ 2^(LimbBits * m) \in Nat
  BY <1>1, <1>7, <1>8, Pow2Monotone, Pow2Nat
<1>10. Value(a) < 2^(LimbBits * m)
  BY <1>1, <1>9
<1> QED BY <1>10 DEF Weight

\* The width is one that both operands fit, and not above their own.
LEMMA XgcdWidthIs ==
  ASSUME NEW u, NEW v, NEW x, NEW y, Holds(x, u, N), Holds(y, v, N), NEW n, n = XgcdWidth(x, y)
  PROVE  n \in Nat /\ n >= 1 /\ n <= N /\ Magnitude(u) < Weight(n) /\ Magnitude(v) < Weight(n)
<1> DEFINE bx == mag_bitsize(x.limbs)
           by == mag_bitsize(y.limbs)
           top == Max({bx, by})
           fit == {m \in XgcdWidths : m < N /\ top \div LimbBits + 2 <= m}
<1>1. N \in Nat /\ N >= 1
  BY WidthN
<1>2. x.limbs \in [0 .. N - 1 -> Word] /\ Value(x.limbs) = Magnitude(u) /\ Magnitude(u) < Weight(N)
  BY <1>1, HoldsIs DEF Holds
<1>3. y.limbs \in [0 .. N - 1 -> Word] /\ Value(y.limbs) = Magnitude(v) /\ Magnitude(v) < Weight(N)
  BY <1>1, HoldsIs DEF Holds
<1>4. Width(x.limbs) = N
  BY <1>1, <1>2, WidthIs
<1>5. n = IF fit = {} THEN N ELSE Min(fit)
  BY <1>4 DEF XgcdWidth
<1>6. bx \in Nat /\ by \in Nat
  BY <1>1, <1>2, <1>3, BitSizeIs
<1>7. top \in Nat /\ bx <= top /\ by <= top
  <2> HIDE DEF bx, by
  <2>1. bx + by \in Nat /\ {bx, by} \subseteq 0 .. bx + by /\ {bx, by} # {}
    BY <1>6
  <2>2. top \in {bx, by} /\ \A i \in {bx, by} : top >= i
    BY <2>1, MaxIs
  <2> QED BY <1>6, <2>2
<1> HIDE DEF bx, by, top
<1>8. CASE fit = {}
  BY <1>1, <1>2, <1>3, <1>5, <1>8
<1>9. CASE fit # {}
  <2>1. fit \subseteq Nat
    BY XgcdWidthsAssumption
  <2>2. Min(fit) \in fit
    BY <1>9, <2>1, MinIs
  <2>3. n \in XgcdWidths /\ n < N /\ top \div LimbBits + 2 <= n
    BY <1>5, <1>9, <2>2
  <2>4. n \in Nat /\ n >= 1
    BY <2>3, XgcdWidthsAssumption
  <2>5. Value(x.limbs) < Weight(n)
    BY <1>1, <1>2, <1>7, <2>3, <2>4, BitsFit DEF bx
  <2>6. Value(y.limbs) < Weight(n)
    BY <1>1, <1>3, <1>7, <2>3, <2>4, BitsFit DEF by
  <2> QED BY <1>1, <1>2, <1>3, <2>3, <2>4, <2>5, <2>6
<1> QED BY <1>8, <1>9

\* The registers of operands that are not zero.
LEMMA XgcdStarts ==
  ASSUME NEW u, u # 0, NEW v, v # 0, NEW x, NEW y, Holds(x, u, N), Holds(y, v, N), NEW n, n = XgcdWidth(x, y)
  PROVE  XgcdKept(XgcdStart(x, y), Magnitude(u), Magnitude(v), n)
<1> DEFINE s == XgcdStart(x, y)
           a == resize_unchecked(x, n)
           b == resize_unchecked(y, n)
<1>1. n \in Nat /\ n >= 1 /\ Magnitude(u) < Weight(n) /\ Magnitude(v) < Weight(n) /\ N \in Nat
  BY XgcdWidthIs, WidthN
<1>2. Holds(a, u, n) /\ Holds(b, v, n)
  BY <1>1, ResizeHolds
<1>3. s = [a |-> absolute(a), b |-> absolute(b), x_a |-> SmallBig(1, n), y_a |-> ZeroBig(n),
           x_b |-> ZeroBig(n), y_b |-> SmallBig(1, n)]
  BY DEF XgcdStart
<1> HIDE DEF s, a, b
<1>4. s.a = absolute(a) /\ s.b = absolute(b) /\ s.x_a = SmallBig(1, n) /\ s.y_a = ZeroBig(n)
      /\ s.x_b = ZeroBig(n) /\ s.y_b = SmallBig(1, n)
  BY <1>3
<1>5. Holds(s.a, Magnitude(u), n) /\ Magnitude(u) \in Nat
  BY <1>1, <1>2, <1>4, AbsoluteHolds
<1>6. Holds(s.b, Magnitude(v), n) /\ Magnitude(v) \in Nat
  BY <1>1, <1>2, <1>4, AbsoluteHolds
<1>7. Magnitude(u) > 0 /\ Magnitude(v) > 0
  <2>1. u \in Int /\ v \in Int
    BY DEF Holds
  <2>2. (Magnitude(u) = 0 <=> u = 0) /\ (Magnitude(v) = 0 <=> v = 0)
    BY <2>1, MagnitudeIs
  <2> QED BY <1>5, <1>6, <2>2
<1>8. XgcdKept(s, Magnitude(u), Magnitude(v), n)
  BY <1>1, <1>4, <1>5, <1>6, <1>7, XgcdFirst
<1> QED BY <1>8 DEF s

\* A cofactor of an operand's size, with the operand's sign put on it.
LEMMA WithSignHolds ==
  ASSUME NEW u, NEW x, Holds(x, u, N), NEW n \in Nat, NEW w, NEW c, Holds(c, w, n)
  PROVE  \E z : Holds(WithSignOf(x, c), z, n) /\ z * u = w * Magnitude(u) /\ Magnitude(z) = Magnitude(w)
<1>1. u \in Int /\ w \in Int /\ x.sign = (IF u < 0 THEN 1 ELSE 0)
  BY HoldsIs, WidthN DEF Holds
<1>2. CASE u < 0
  <2>1. WithSignOf(x, c) = wrapping_neg(c)
    BY <1>1, <1>2 DEF WithSignOf
  <2>2. Holds(WithSignOf(x, c), - w, n)
    BY <2>1, NegationHolds
  <2>3. (- w) * u = w * (- u) /\ Magnitude(u) = - u /\ Magnitude(- w) = Magnitude(w)
    BY <1>1, <1>2 DEF Magnitude
  <2> QED BY <2>2, <2>3
<1>3. CASE ~(u < 0)
  <2>1. WithSignOf(x, c) = Canonical(c.sign, c.limbs)
    BY <1>1, <1>3 DEF WithSignOf
  <2>2. Holds(WithSignOf(x, c), w, n)
    BY <2>1, NegationHolds
  <2>3. Magnitude(u) = u
    BY <1>1, <1>3 DEF Magnitude
  <2> QED BY <2>2, <2>3
<1> QED BY <1>2, <1>3

\* What xgcd returns for u and v.
XgcdReturns(res, u, v) ==
    /\ IntOf(res.g) = Gcd[<<Magnitude(u), Magnitude(v)>>]
    /\ IntOf(res.x) * u + IntOf(res.y) * v = IntOf(res.g)

\* A zero operand.
LEMMA ZeroReturns ==
  ASSUME NEW u, NEW v, u = 0 \/ v = 0, NEW x, NEW y, Holds(x, u, N), Holds(y, v, N)
  PROVE  XgcdReturns(XgcdOfZero(x, y), u, v)
<1> DEFINE res == XgcdOfZero(x, y)
           one == SmallBig(1, N)
<1>1. N \in Nat /\ N >= 1 /\ Holds(one, 1, N) /\ Holds(ZeroBig(N), 0, N)
  BY WidthN, SmallHold
<1>2. u \in Int /\ x.limbs \in [0 .. N - 1 -> Word] /\ Value(x.limbs) = Magnitude(u)
  BY <1>1, HoldsIs DEF Holds
<1>3. v \in Int
  BY DEF Holds
<1>4. Width(x.limbs) = N /\ (mag_is_zero(x.limbs) <=> u = 0)
  <2>1. mag_is_zero(x.limbs) <=> Value(x.limbs) = 0
    BY <1>1, <1>2, IsZero
  <2>2. Magnitude(u) = 0 <=> u = 0
    BY <1>2, MagnitudeIs
  <2> QED BY <1>1, <1>2, <2>1, <2>2, WidthIs
<1>5. res = IF u = 0 THEN [g |-> absolute(y), x |-> ZeroBig(N), y |-> WithSignOf(y, one)]
            ELSE [g |-> absolute(x), x |-> WithSignOf(x, one), y |-> ZeroBig(N)]
  BY <1>4 DEF XgcdOfZero
<1>6. IntOf(ZeroBig(N)) = 0
  BY <1>1, HoldsIs
<1>7. ASSUME NEW w, NEW z, Holds(z, w, N)
      PROVE  /\ w \in Int /\ IntOf(absolute(z)) = Magnitude(w) /\ IntOf(WithSignOf(z, one)) * w = Magnitude(w)
             /\ IntOf(WithSignOf(z, one)) \in Int /\ Magnitude(w) \in Nat
  <2>1. Holds(absolute(z), Magnitude(w), N) /\ Magnitude(w) \in Nat
    BY <1>1, <1>7, AbsoluteHolds
  <2>2. PICK c : Holds(WithSignOf(z, one), c, N) /\ c * w = 1 * Magnitude(w)
    <3> HIDE DEF one
    <3> QED BY <1>1, <1>7, WithSignHolds
  <2>3. IntOf(absolute(z)) = Magnitude(w)
    BY <1>1, <2>1, HoldsIs
  <2>4. IntOf(WithSignOf(z, one)) = c /\ c \in Int
    BY <1>1, <2>2, HoldsIs
  <2>5. w \in Int
    BY <1>7 DEF Holds
  <2> QED BY <2>1, <2>2, <2>3, <2>4, <2>5
<1> HIDE DEF one
<1>8. Magnitude(0) = 0
  BY DEF Magnitude
<1>9. CASE u = 0
  <2>1. res.g = absolute(y) /\ res.x = ZeroBig(N) /\ res.y = WithSignOf(y, one)
    BY <1>5, <1>9
  <2>2. IntOf(res.g) = Magnitude(v) /\ Magnitude(v) \in Nat /\ IntOf(res.y) * v = Magnitude(v) /\ IntOf(res.y) \in Int /\ v \in Int
    BY <1>7, <2>1
  <2>3. Gcd[<<0, Magnitude(v)>>] = Magnitude(v)
    BY <2>2, GcdZero
  <2>4. IntOf(res.x) * u = 0
    BY <1>6, <1>9, <2>1
  <2>5. Gcd[<<Magnitude(u), Magnitude(v)>>] = Magnitude(v)
    BY <1>8, <1>9, <2>3
  <2> HIDE DEF res
  <2>6. IntOf(res.x) * u + IntOf(res.y) * v = IntOf(res.g)
    BY <2>2, <2>4
  <2>7. XgcdReturns(res, u, v)
    BY <2>2, <2>5, <2>6 DEF XgcdReturns
  <2> QED BY <2>7 DEF res
<1>10. CASE u # 0 /\ v = 0
  <2>1. res.g = absolute(x) /\ res.x = WithSignOf(x, one) /\ res.y = ZeroBig(N)
    BY <1>5, <1>10
  <2>2. IntOf(res.g) = Magnitude(u) /\ Magnitude(u) \in Nat /\ IntOf(res.x) * u = Magnitude(u) /\ IntOf(res.x) \in Int /\ u \in Int
    BY <1>7, <2>1
  <2>3. Gcd[<<Magnitude(u), 0>>] = Magnitude(u)
    BY <2>2, GcdZero
  <2>4. IntOf(res.y) * v = 0
    BY <1>6, <1>10, <2>1
  <2>5. Gcd[<<Magnitude(u), Magnitude(v)>>] = Magnitude(u)
    BY <1>8, <1>10, <2>3
  <2> HIDE DEF res
  <2>6. IntOf(res.x) * u + IntOf(res.y) * v = IntOf(res.g)
    BY <2>2, <2>4
  <2>7. XgcdReturns(res, u, v)
    BY <2>2, <2>5, <2>6 DEF XgcdReturns
  <2> QED BY <2>7 DEF res
<1> QED BY <1>9, <1>10

-----------------------------------------------------------------------------
(* The end of the extended algorithm                                       *)

\* A result whose parts hold what the caller was promised.
XgcdGives(res, u, v) ==
    /\ XgcdReturns(res, u, v)
    /\ \E w : Holds(res.g, w, N)
    /\ \E w : Holds(res.x, w, N)
    /\ \E w : Holds(res.y, w, N)

\* A last cofactor, at the width of the operands and with the sign of its own.
LEMMA LastCofactor ==
  ASSUME NEW u, NEW x, Holds(x, u, N), NEW n \in Nat, NEW w, NEW c, Holds(c, w, n), Magnitude(w) < Weight(N),
         NEW z, z = resize_unchecked(WithSignOf(x, c), N)
  PROVE  (\E k : Holds(z, k, N)) /\ IntOf(z) * u = IntOf(c) * Magnitude(u) /\ IntOf(z) \in Int
<1>1. PICK k : Holds(WithSignOf(x, c), k, n) /\ k * u = w * Magnitude(u) /\ Magnitude(k) = Magnitude(w)
  BY WithSignHolds
<1>2. N \in Nat
  BY WidthN
<1>3. Holds(z, k, N)
  <2>1. Magnitude(k) < Weight(N)
    BY <1>1
  <2> QED BY <1>1, <1>2, <2>1, ResizeHolds
<1>4. IntOf(z) = k /\ IntOf(c) = w /\ k \in Int
  BY <1>2, <1>3, HoldsIs
<1> QED BY <1>1, <1>3, <1>4

\* What is left when B is zero.
LEMMA XgcdEnds ==
  ASSUME NEW u, u # 0, NEW v, v # 0, NEW x, NEW y, Holds(x, u, N), Holds(y, v, N),
         NEW n \in Nat, NEW s, XgcdKept(s, Magnitude(u), Magnitude(v), n), mag_is_zero(s.b.limbs)
  PROVE  XgcdGives(XgcdEnd(x, y, s), u, v)
<1> DEFINE res == XgcdEnd(x, y, s)
           mu == Magnitude(u)
           mv == Magnitude(v)
<1>1. N \in Nat /\ u \in Int /\ v \in Int /\ Width(x.limbs) = N
  <2>1. N \in Nat
    BY WidthN
  <2>2. x.limbs \in [0 .. N - 1 -> Word] /\ u \in Int
    BY <2>1, HoldsIs
  <2> QED BY <2>1, <2>2, WidthIs DEF Holds
<1>2. mu \in Nat /\ mv \in Nat /\ mu > 0 /\ mv > 0 /\ mu < Weight(N) /\ mv < Weight(N)
  <2>1. mu \in Nat /\ mv \in Nat /\ mu # 0 /\ mv # 0
    BY <1>1, MagnitudeIs
  <2> QED BY <2>1 DEF Holds
<1>3. res.g = resize_unchecked(s.a, N) /\ res.x = resize_unchecked(WithSignOf(x, s.x_a), N)
      /\ res.y = resize_unchecked(WithSignOf(y, s.y_a), N)
  BY <1>1 DEF XgcdEnd
<1> HIDE DEF res
<1>4. PICK A, B, p, q, r, t, e : XgcdState(s, mu, mv, n, A, B, p, q, r, t, e)
  BY DEF XgcdKept
<1>5. A \in Nat /\ B \in Nat /\ p \in Nat /\ q \in Nat /\ r \in Nat /\ t \in Nat /\ e \in {0, 1} /\ 1 - e \in {0, 1}
  BY <1>4 DEF XgcdState, XgcdRows
<1>6. Holds(s.a, A, n) /\ Holds(s.b, B, n) /\ Holds(s.x_a, Way(e, p), n) /\ Holds(s.y_a, Way(1 - e, q), n)
      /\ A > 0 /\ p <= mv /\ q <= mu /\ Common(A, B) = Common(mu, mv)
  BY <1>4 DEF XgcdState, XgcdHolds
<1>7. B = 0
  <2>1. s.b.limbs \in [0 .. n - 1 -> Word] /\ Value(s.b.limbs) = Magnitude(B)
    BY <1>6, HoldsIs
  <2>2. Value(s.b.limbs) = 0
    BY <2>1, IsZero
  <2>3. Magnitude(B) = 0
    BY <2>1, <2>2
  <2>4. B \in Int
    BY <1>5
  <2> QED BY <2>3, <2>4, MagnitudeIs
<1>8. Gcd[<<mu, mv>>] = A
  BY <1>2, <1>5, <1>6, <1>7, GcdOnce
<1>9. A <= mu
  BY <1>2, <1>8, GcdAtMost
<1>10. Weight(N) \in Nat
  BY <1>1, WeightIs
<1>11. Holds(res.g, A, N) /\ IntOf(res.g) = A
  <2>1. Magnitude(A) = A
    BY <1>5 DEF Magnitude
  <2>2. Magnitude(A) < Weight(N)
    BY <1>2, <1>5, <1>9, <1>10, <2>1
  <2>3. Holds(res.g, A, N)
    BY <1>1, <1>3, <1>6, <2>2, ResizeHolds
  <2> QED BY <1>1, <2>3, HoldsIs
<1>12. (\E w : Holds(res.x, w, N)) /\ IntOf(res.x) * u = IntOf(s.x_a) * mu /\ IntOf(res.x) \in Int
  <2>1. Magnitude(Way(e, p)) < Weight(N)
    BY <1>2, <1>5, <1>6, <1>10, WayIs
  <2> QED BY <1>3, <1>6, <2>1, LastCofactor
<1>13. (\E w : Holds(res.y, w, N)) /\ IntOf(res.y) * v = IntOf(s.y_a) * mv /\ IntOf(res.y) \in Int
  <2>1. Magnitude(Way(1 - e, q)) < Weight(N)
    BY <1>2, <1>5, <1>6, <1>10, WayIs
  <2> QED BY <1>3, <1>6, <2>1, LastCofactor
<1>14. IntOf(s.a) = IntOf(s.x_a) * mu + IntOf(s.y_a) * mv
  BY <1>2, XgcdSays
<1>15. IntOf(s.a) = A
  BY <1>6, HoldsIs
<1> HIDE DEF mu, mv
<1>16. XgcdReturns(res, u, v)
  <2>1. IntOf(res.x) * u + IntOf(res.y) * v = IntOf(res.g)
    BY <1>11, <1>12, <1>13, <1>14, <1>15
  <2>2. IntOf(res.g) = Gcd[<<Magnitude(u), Magnitude(v)>>]
    BY <1>8, <1>11 DEF mu, mv
  <2> QED BY <2>1, <2>2 DEF XgcdReturns
<1>17. XgcdGives(res, u, v)
  BY <1>11, <1>12, <1>13, <1>16 DEF XgcdGives
<1> QED BY <1>17 DEF res

\* A multiple leaves nothing.
LEMMA MultipleLeaves ==
  ASSUME NEW m \in Nat, m > 0, NEW j \in Int
  PROVE  (j * m) % m = 0
<1> DEFINE z == j * m
           k == z \div m
           w == z % m
           d == j - k
<1>1. z \in Int /\ k \in Int /\ w \in 0 .. m - 1 /\ z = m * k + w
  OBVIOUS
<1>2. w = d * m
  <2>1. d * m = j * m - k * m
    OBVIOUS
  <2> QED BY <1>1, <2>1
<1>3. d \in Int
  BY <1>1
<1> HIDE DEF d, k, z
<1>4. d <= 0
  <2>1. d >= 1 => d * m >= m
    BY <1>3
  <2> QED BY <1>1, <1>2, <1>3, <2>1
<1>5. d >= 0
  <2>1. d <= -1 => d * m <= - m
    BY <1>3
  <2> QED BY <1>1, <1>2, <1>3, <2>1
<1>6. w = 0
  BY <1>2, <1>3, <1>4, <1>5
<1> QED BY <1>6 DEF z

\* k times u is one but for w times m, and r what is left of k.
Inverts(k, u, w, a, r, m) ==
    /\ k \in Int /\ u \in Int /\ w \in Int /\ a \in Int /\ r \in Int /\ m \in Nat /\ m > 0
    /\ k * u + w * m = 1 /\ r = k - a * m

\* The product of what is left of k and of u is one, when k times u is.
LEMMA InverseLeaves ==
  ASSUME NEW k, NEW u, NEW w, NEW a, NEW r, NEW m, Inverts(k, u, w, a, r, m)
  PROVE  (r * (u % m) - 1) % m = 0
<1> USE DEF Inverts
<1> k \in Int /\ u \in Int /\ w \in Int /\ a \in Int /\ r \in Int /\ m \in Nat /\ m > 0
  OBVIOUS
<1>a. k * u + w * m = 1 /\ r = k - a * m
  OBVIOUS
<1> USE <1>a
<1> HIDE DEF Inverts
<1> DEFINE d == u \div m
           h == u % m
<1>1. d \in Int /\ h \in Int /\ h = u - d * m
  <2>1. u = m * d + h /\ d \in Int /\ h \in Int
    OBVIOUS
  <2>2. m * d = d * m
    BY <2>1
  <2> QED BY <2>1, <2>2
<1> HIDE DEF d, h
<1>2. r * h = k * h - (a * h) * m
  <2>1. (k - a * m) * h = k * h - (a * m) * h
    BY <1>1
  <2>2. (a * m) * h = (a * h) * m
    BY <1>1
  <2> QED BY <2>1, <2>2
<1>3. k * h = k * u - (k * d) * m
  <2>1. k * (u - d * m) = k * u - k * (d * m)
    BY <1>1
  <2>2. k * (d * m) = (k * d) * m
    BY <1>1
  <2> QED BY <1>1, <2>1, <2>2
<1> DEFINE f == k * d
           g == a * h
           j == 0 - (w + f + g)
<1>4. f \in Int /\ g \in Int
  BY <1>1
<1>5. r * h - 1 = 0 - (w * m + f * m + g * m)
  <2>1. k * u = 1 - w * m
    <3> DEFINE ku == k * u
               wm == w * m
    <3>1. ku \in Int /\ wm \in Int /\ ku + wm = 1
      OBVIOUS
    <3> HIDE DEF ku, wm
    <3>2. ku = 1 - wm
      BY <3>1
    <3> QED BY <3>2 DEF ku, wm
  <2> DEFINE x == w * m
             y == f * m
             z == g * m
             p == r * h
  <2>2. x \in Int /\ y \in Int /\ z \in Int
    BY <1>4
  <2>3. p = (1 - x - y) - z
    BY <1>2, <1>3, <2>1
  <2> HIDE DEF x, y, z, p, f, g
  <2>4. p - 1 = 0 - (x + y + z)
    BY <2>2, <2>3
  <2> QED BY <2>4 DEF x, y, z, p
<1> HIDE DEF f, g
<1>6. (w + f + g) * m = w * m + f * m + g * m
  BY <1>4
<1>7. r * h - 1 = j * m /\ j \in Int
  <2> DEFINE c == w + f + g
  <2>1. c \in Int
    BY <1>4
  <2> HIDE DEF c
  <2>2. (0 - c) * m = 0 - c * m
    BY <2>1
  <2> QED BY <1>5, <1>6, <2>1, <2>2 DEF c
<1> HIDE DEF j
<1>8. (j * m) % m = 0
  BY <1>7, MultipleLeaves
<1> QED BY <1>7, <1>8 DEF h

\* The inverse of u modulo v, when their gcd is one.
LEMMA InverseIs ==
  ASSUME NEW u \in Int, NEW v \in Int, v # 0, NEW y, Holds(y, v, N), NEW res, XgcdGives(res, u, v), IntOf(res.g) = 1,
         NEW inv, inv = invert_mod(res, y), NEW m, m = Magnitude(v)
  PROVE  IntOf(inv) \in 0 .. m - 1 /\ (IntOf(inv) * (u % m) - 1) % m = 0
<1>1. N \in Nat /\ N >= 1
  BY WidthN
<1>2. res.g = SmallBig(1, N)
  <2>1. PICK w : Holds(res.g, w, N)
    BY DEF XgcdGives
  <2>2. w = 1
    BY <1>1, <2>1, HoldsIs
  <2> QED BY <1>1, <2>1, <2>2, SmallHold, HoldsOnce
<1>3. Width(y.limbs) = N
  BY <1>1, HoldsIs, WidthIs
<1>4. inv = vt_div_rem(res.x, y).r
  BY <1>2, <1>3 DEF invert_mod, vt_mod
<1>5. PICK k : Holds(res.x, k, N)
  BY DEF XgcdGives
<1>6. PICK w : Holds(res.y, w, N)
  BY DEF XgcdGives
<1>7. k \in Int /\ w \in Int /\ IntOf(res.x) = k /\ IntOf(res.y) = w
  BY <1>1, <1>5, <1>6, HoldsIs
<1>8. k * u + w * v = 1
  BY <1>7 DEF XgcdGives, XgcdReturns
<1>9. Euclidean(vt_div_rem(res.x, y), k, v)
  <2>1. Stands(res.x, k, N) /\ Magnitude(k) < Weight(N) /\ Stands(y, v, N) /\ Magnitude(v) < Weight(N)
    BY <1>5 DEF Holds
  <2> QED BY <1>1, <1>7, <2>1, VtDivRemIs
<1> DEFINE q == IntOf(vt_div_rem(res.x, y).q)
           r == IntOf(inv)
<1>10. q * v + r = k /\ r \in 0 .. m - 1
  BY <1>4, <1>9 DEF Euclidean, Rounded
<1>11. q \in Int /\ r \in Int /\ m \in Nat /\ m > 0
  <2>1. q \in Int
    BY <1>9 DEF Euclidean
  <2>2. m \in Nat /\ m # 0
    BY MagnitudeIs
  <2> QED BY <1>10, <2>1, <2>2
<1> HIDE DEF q, r
<1>12. PICK g \in Int : v = g * m
  <2>1. CASE v < 0
    <3>1. v = (-1) * m
      BY <2>1 DEF Magnitude
    <3> QED BY <3>1
  <2>2. CASE ~(v < 0)
    <3>1. v = 1 * m
      BY <2>2 DEF Magnitude
    <3> QED BY <3>1
  <2> QED BY <2>1, <2>2
<1> DEFINE a == q * g
           c == w * g
<1>13. a \in Int /\ c \in Int
  BY <1>7, <1>11, <1>12
<1>14. r = k - a * m
  <2>1. q * (g * m) = a * m
    BY <1>11, <1>12
  <2>2. a * m \in Int
    BY <1>11, <1>13
  <2> HIDE DEF a
  <2> DEFINE z == a * m
  <2>3. z + r = k /\ z \in Int
    BY <1>10, <1>12, <2>1, <2>2
  <2> HIDE DEF z
  <2>4. r = k - z
    BY <1>7, <1>11, <2>3
  <2> QED BY <2>4 DEF z
<1>15. k * u + c * m = 1
  <2>1. w * (g * m) = c * m
    BY <1>7, <1>11, <1>12
  <2> QED BY <1>8, <1>12, <2>1
<1> HIDE DEF a, c
<1>16. (r * (u % m) - 1) % m = 0
  <2>1. Inverts(k, u, c, a, r, m)
    BY <1>7, <1>11, <1>13, <1>14, <1>15 DEF Inverts
  <2> QED BY <2>1, InverseLeaves
<1> QED BY <1>10, <1>16 DEF r

-----------------------------------------------------------------------------
(* Lehmer's algorithm on the last word                                     *)

\* The words and the registers of Lehmer's loop.
LehmerRegisters(n) == [a : [0 .. n - 1 -> Word], b : [0 .. n - 1 -> Word]]
LehmerKept(s, x, y, n) ==
    /\ s \in LehmerRegisters(n)
    /\ Value(s.b) <= Value(s.a) /\ Value(s.a) > 0
    /\ Common(Value(s.a), Value(s.b)) = Common(x, y)

\* Euclid's algorithm on words, as LastWord runs it.
WordPairs == (0 .. Base) \X (0 .. Base)
WordGcd(f) == f = [p \in WordPairs |-> IF p[2] = 0 THEN p[1] ELSE f[<<p[2], p[1] % p[2]>>]]

\* Pairs of words are pairs of natural numbers.
LEMMA WordPair ==
  ASSUME NEW x \in 0 .. Base, NEW y \in 0 .. Base
  PROVE  <<x, y>> \in WordPairs /\ <<x, y>>[1] = x /\ <<x, y>>[2] = y /\ x \in Nat /\ y \in Nat
BY BaseIs DEF WordPairs

\* What is left is a word again.
LEMMA WordRest ==
  ASSUME NEW x \in 0 .. Base, NEW y \in 0 .. Base, y # 0
  PROVE  x % y \in 0 .. y - 1 /\ x % y \in 0 .. Base /\ x % y \in Nat
<1>1. x \in Nat /\ y \in Nat /\ y > 0 /\ y <= Base /\ Base \in Nat
  BY BaseIs
<1>2. x % y \in 0 .. y - 1
  BY <1>1
<1> QED BY <1>1, <1>2

\* There is such a function,
LEMMA WordGcdExists == \E f : WordGcd(f)
<1> DEFINE F == [p \in WordPairs |-> Gcd[<<p[1], p[2]>>]]
<1>1. ASSUME NEW p \in WordPairs
      PROVE  F[p] = IF p[2] = 0 THEN p[1] ELSE F[<<p[2], p[1] % p[2]>>]
  <2> DEFINE u == p[1]
             v == p[2]
  <2>1. u \in 0 .. Base /\ v \in 0 .. Base
    BY DEF WordPairs
  <2>2. F[p] = Gcd[<<u, v>>]
    OBVIOUS
  <2> HIDE DEF u, v
  <2>3. u \in Nat /\ v \in Nat
    BY <2>1, WordPair
  <2>4. CASE v = 0
    BY <2>2, <2>3, <2>4, GcdRuns DEF u, v
  <2>5. CASE v # 0
    <3>1. u % v \in 0 .. Base
      BY <2>1, <2>5, WordRest
    <3>2. <<v, u % v>> \in WordPairs /\ <<v, u % v>>[1] = v /\ <<v, u % v>>[2] = u % v
      BY <2>1, <3>1, WordPair
    <3>3. F[<<v, u % v>>] = Gcd[<<v, u % v>>]
      BY <3>2
    <3>4. Gcd[<<u, v>>] = Gcd[<<v, u % v>>]
      BY <2>3, <2>5, GcdRuns
    <3> QED BY <2>2, <2>5, <3>3, <3>4 DEF u, v
  <2> QED BY <2>4, <2>5
<1>2. F = [p \in WordPairs |-> F[p]]
  OBVIOUS
<1> HIDE DEF F
<1>3. WordGcd(F)
  BY <1>1, <1>2 DEF WordGcd
<1> QED BY <1>3

\* and it computes greatest common divisors.
LEMMA WordGcdIs ==
  ASSUME NEW f, WordGcd(f), NEW x \in 0 .. Base, NEW y \in 0 .. Base
  PROVE  f[<<x, y>>] = Gcd[<<x, y>>]
<1> DEFINE Good(v) == v <= Base => \A u \in 0 .. Base : f[<<u, v>>] = Gcd[<<u, v>>]
           T == {n \in Nat : \A v \in 0 .. n : Good(v)}
<1>0. ASSUME NEW u \in 0 .. Base, NEW v \in 0 .. Base
      PROVE  f[<<u, v>>] = IF v = 0 THEN u ELSE f[<<v, u % v>>]
  <2>1. <<u, v>> \in WordPairs /\ <<u, v>>[1] = u /\ <<u, v>>[2] = v
    BY WordPair
  <2>2. \A p \in WordPairs : f[p] = IF p[2] = 0 THEN p[1] ELSE f[<<p[2], p[1] % p[2]>>]
    BY Zenon DEF WordGcd
  <2> QED BY <2>1, <2>2
<1>1. ASSUME NEW v \in 0 .. Base, \A w \in 0 .. v - 1 : Good(w)
      PROVE  Good(v)
  <2> SUFFICES ASSUME NEW u \in 0 .. Base PROVE f[<<u, v>>] = Gcd[<<u, v>>]
    OBVIOUS
  <2>1. u \in Nat /\ v \in Nat
    BY WordPair
  <2>2. CASE v = 0
    BY <1>0, <2>1, <2>2, GcdRuns
  <2>3. CASE v # 0
    <3> DEFINE r == u % v
    <3>1. r \in 0 .. v - 1 /\ r \in 0 .. Base /\ r \in Nat
      BY <2>3, WordRest
    <3>2. Gcd[<<u, v>>] = Gcd[<<v, r>>]
      BY <2>1, <2>3, GcdRuns
    <3>3. f[<<u, v>>] = f[<<v, r>>]
      BY <1>0, <2>3
    <3> HIDE DEF r
    <3>4. r <= Base
      BY <3>1, BaseIs
    <3>5. f[<<v, r>>] = Gcd[<<v, r>>]
      BY <1>1, <3>1, <3>4
    <3> QED BY <3>2, <3>3, <3>5
  <2> QED BY <2>2, <2>3
<1>2. 0 \in T
  <2>1. 0 \in 0 .. Base
    BY BaseIs
  <2>2. \A w \in 0 .. 0 - 1 : Good(w)
    OBVIOUS
  <2>3. Good(0)
    BY <1>1, <2>1, <2>2
  <2> HIDE DEF Good
  <2> QED BY <2>3
<1>3. ASSUME NEW n \in T PROVE n + 1 \in T
  <2>1. n \in Nat /\ \A w \in 0 .. n : Good(w)
    OBVIOUS
  <2>2. Good(n + 1)
    <3>1. CASE n + 1 <= Base
      <4> DEFINE v == n + 1
      <4>1. v \in 0 .. Base /\ 0 .. v - 1 = 0 .. n
        BY <2>1, <3>1, BaseIs
      <4> HIDE DEF v, Good
      <4>2. Good(v)
        BY <1>1, <2>1, <4>1
      <4> QED BY <4>2 DEF v
    <3>2. CASE ~(n + 1 <= Base)
      BY <3>2
    <3> QED BY <3>1, <3>2
  <2> HIDE DEF Good
  <2>3. \A w \in 0 .. n + 1 : w \in 0 .. n \/ w = n + 1
    BY <2>1
  <2> QED BY <2>1, <2>2, <2>3
<1>4. T = Nat
  <2>1. T \subseteq Nat
    OBVIOUS
  <2> HIDE DEF T
  <2> QED BY <1>2, <1>3, <2>1, SetInduction
<1>5. y \in Nat /\ y \in 0 .. y /\ y <= Base
  BY BaseIs
<1>6. Good(y)
  <2> HIDE DEF Good
  <2> QED BY <1>4, <1>5
<1> QED BY <1>5, <1>6

\* One limb left of b: the gcd of it and of what it leaves of a.
LEMMA LastWordIs ==
  ASSUME NEW n \in Nat, NEW a \in [0 .. n - 1 -> Word], NEW b \in [0 .. n - 1 -> Word],
         Value(b) > 0, Value(b) < Weight(1), NEW s, s = LastWord(a, b)
  PROVE  /\ s \in LehmerRegisters(n) /\ Value(s.b) = 0 /\ Value(s.a) > 0
         /\ Common(Value(s.a), 0) = Common(Value(a), Value(b))
<1> DEFINE d == b[0]
           qr == ShortDivision(a, d)
           f == CHOOSE g : WordGcd(g)
           A == Value(a)
           r == qr.r[0]
<1>1. n >= 1
  <2>1. CASE n = 0
    <3>1. Value(b) < Weight(0) /\ Value(b) \in Nat
      BY <2>1, ValueNat
    <3> QED BY <3>1, WeightFirst
  <2> QED BY <2>1
<1>2. d = Value(b) /\ d \in Word /\ d > 0 /\ d \in Nat /\ d < Base
  <2>1. Value(b) < Base /\ Value(b) \in Nat /\ 1 \in 0 .. n /\ 0 \in 0 .. n - 1
    BY <1>1, WeightFirst, ValueNat
  <2>2. d = (Value(b) \div Weight(0)) % Base
    BY <2>1, DigitIs
  <2> DEFINE B == Value(b)
  <2>3. B \in Nat /\ B < Base /\ Base \in Nat /\ d = (B \div 1) % Base
    BY <2>1, <2>2, WeightFirst, BaseIs
  <2> HIDE DEF B, d
  <2>4. B \div 1 = B
    BY <2>3
  <2>5. B % Base = B
    BY <2>3, ModSmall
  <2>6. d = B
    BY <2>3, <2>4, <2>5
  <2>7. b[0] \in Word
    BY <2>1
  <2> QED BY <2>1, <2>6, <2>7 DEF B, d
<1> HIDE DEF d
<1>3. Divides(qr, a, d, n)
  BY <1>1, <1>2, ShortDivisionIs
<1>4. A \in Nat
  BY ValueNat
<1>5. qr.r \in [0 .. n - 1 -> Word] /\ Value(qr.r) = A % d
  BY <1>3 DEF Divides
<1> HIDE DEF qr
<1>6. A % d \in 0 .. d - 1 /\ A \div d \in Nat /\ A = d * (A \div d) + (A % d)
  <2> HIDE DEF A
  <2> QED BY <1>2, <1>4, DivRem
<1>7. r = A % d
  <2>1. 0 \in 0 .. n - 1
    BY <1>1
  <2>2. r = (Value(qr.r) \div Weight(0)) % Base
    BY <1>5, <2>1, DigitIs
  <2> DEFINE R == A % d
  <2>3. R \in Nat /\ R < Base /\ Base \in Nat /\ r = (R \div 1) % Base
    BY <1>2, <1>5, <1>6, <2>2, WeightFirst, BaseIs
  <2> HIDE DEF R, r
  <2>4. R \div 1 = R
    BY <2>3
  <2>5. R % Base = R
    BY <2>3, ModSmall
  <2> QED BY <2>3, <2>4, <2>5 DEF R
<1> HIDE DEF A, r
<1>8. r \in Nat /\ d \in 0 .. Base /\ r \in 0 .. Base
  <2>1. r \in 0 .. d - 1
    BY <1>6, <1>7
  <2> QED BY <1>2, <2>1, BaseIs
<1>9. f[<<d, r>>] = Gcd[<<d, r>>]
  <2>1. WordGcd(f)
    BY WordGcdExists
  <2> HIDE DEF f
  <2> QED BY <1>8, <2>1, WordGcdIs
<1> DEFINE g == Gcd[<<d, r>>]
<1>10. g \in Nat /\ g >= 1 /\ g <= d /\ Common(g, 0) = Common(d, r)
  <2>1. g \in Nat /\ g >= 1 /\ g <= d
    BY <1>2, <1>8, GcdAtMost
  <2>2. Greatest(g, d, r)
    BY <1>2, <1>8, GcdIs
  <2> QED BY <2>1, <2>2 DEF Greatest
<1>11. Width(a) = n /\ Width(b) = n
  BY WidthIs
<1>12. s = [a |-> OneLimb(g, n), b |-> Zeros(n)]
  <2>1. s = [a |-> OneLimb(f[<<d, r>>], n), b |-> Zeros(n)]
    BY <1>11 DEF LastWord, WordGcd, WordPairs, d, r, qr
  <2> QED BY <1>9, <2>1
<1> HIDE DEF g, f
<1>13. OneLimb(g, n) \in [0 .. n - 1 -> Word] /\ Value(OneLimb(g, n)) = g
  <2>1. g \in Word
    BY <1>2, <1>10, BaseIs DEF Word
  <2> QED BY <1>1, <2>1, OneLimbIs
<1>14. Zeros(n) \in [0 .. n - 1 -> Word] /\ Value(Zeros(n)) = 0
  BY ZerosAre
<1>15. Common(A, d) = Common(d, r)
  <2> DEFINE q == A \div d
  <2>1. q \in Nat /\ A = d * q + r
    BY <1>6, <1>7
  <2> HIDE DEF q
  <2>2. Leaves(r, A, q, d)
    BY <1>2, <1>4, <1>8, <2>1 DEF Leaves
  <2> QED BY <1>2, <1>4, <1>8, <2>1, <2>2, CommonStep
<1> QED BY <1>2, <1>10, <1>12, <1>13, <1>14, <1>15 DEF LehmerRegisters, A

-----------------------------------------------------------------------------
(* The quotients of the leading words                                      *)

\* The words u and v by the words x and y that the loop began with, and back:
\* cofactors of sizes p, q, r and t, and two numbers that are large enough.
CofactorRows(u, v, p, q, r, t, e, x, y) ==
    /\ u \in Nat /\ v \in Nat /\ p \in Nat /\ q \in Nat /\ r \in Nat /\ t \in Nat /\ e \in {0, 1}
    /\ x \in Nat /\ y \in Nat
    /\ e = 0 => u + q * y = p * x /\ v + r * x = t * y /\ p * t = q * r + 1 /\ u >= q /\ v >= r
    /\ e = 1 => u + p * x = q * y /\ v + t * y = r * x /\ q * r = p * t + 1 /\ u >= p /\ v >= t
    /\ x = t * u + q * v /\ y = r * u + p * v
    /\ u >= v /\ t >= 1 /\ p + r >= 1 /\ q <= t

\* After the first quotient.
Begun(u, v, p, q, r) == q >= 1 /\ r >= 1 /\ p <= r /\ u > v

\* The quotient Q of u and v is the same, raised by g and lowered by h or
\* lowered by m and raised by k.
SureBy(u, v, m, k, g, h, Q) ==
    /\ u \in Nat /\ v \in Nat /\ m \in Nat /\ k \in Nat /\ g \in Nat /\ h \in Nat
    /\ m <= u /\ h < v /\ v <= u
    /\ Q = (u - m) \div (v + k) /\ Q = (u + g) \div (v - h)

\* What it leaves is small, and still large enough.
SureLeaves(u, v, m, k, Q) ==
    /\ Q \in Nat /\ Q >= 1 /\ u - Q * v \in Nat /\ u - Q * v >= m + Q * k /\ u - Q * v < v

\* A quotient that is sure.
LEMMA SureQuotient ==
  ASSUME NEW u, NEW v, NEW m, NEW k, NEW g, NEW h, NEW Q, SureBy(u, v, m, k, g, h, Q)
  PROVE  SureLeaves(u, v, m, k, Q)
<1> DEFINE a == u - m
           b == v + k
           c == u + g
           d == v - h
<1>1. u \in Nat /\ v \in Nat /\ m \in Nat /\ k \in Nat /\ g \in Nat /\ h \in Nat /\ m <= u /\ h < v /\ v <= u
      /\ Q = a \div b /\ Q = c \div d
  BY DEF SureBy
<1>2. a \in Nat /\ b \in Nat /\ b > 0 /\ c \in Nat /\ d \in Nat /\ d > 0 /\ d <= c
  BY <1>1
<1> HIDE DEF a, b, c, d
<1>3. Q \in Nat /\ a = b * Q + (a % b) /\ a % b \in 0 .. b - 1
  BY <1>1, <1>2, DivRem
<1>4. c = d * Q + (c % d) /\ c % d \in 0 .. d - 1
  BY <1>1, <1>2, DivRem
<1>5. PICK i \in Nat : a = b * Q + i
  BY <1>3
<1>6. PICK j \in Nat : c = d * Q + j /\ j < d
  BY <1>2, <1>4
<1>7. Q >= 1
  <2>1. Q = 0 => d * Q = 0
    BY <1>2
  <2> QED BY <1>2, <1>3, <1>6, <2>1
<1>8. b * Q = Q * v + Q * k
  BY <1>1, <1>3 DEF b
<1>9. d * Q = Q * v - Q * h
  BY <1>1, <1>3 DEF d
<1>10. PICK w \in Nat : w = Q * v
  BY <1>1, <1>3
<1>11. PICK z \in Nat : z = Q * k
  BY <1>1, <1>3
<1>12. PICK l \in Nat : l = Q * h
  BY <1>1, <1>3
<1>13. u - m = w + z + i
  BY <1>5, <1>8, <1>10, <1>11 DEF a
<1>14. u + g = w - l + j /\ j < v - h
  BY <1>6, <1>9, <1>10, <1>12 DEF c, d
<1>15. u - w \in Nat /\ u - w >= m + z /\ u - w < v
  BY <1>1, <1>13, <1>14
<1> QED BY <1>3, <1>7, <1>10, <1>11, <1>15 DEF SureLeaves

\* The matrix keeps its determinant, but for the sign.
LEMMA Unimodular ==
  ASSUME NEW p \in Nat, NEW q \in Nat, NEW r \in Nat, NEW t \in Nat, NEW Q \in Nat, p * t = q * r + 1
  PROVE  t * (p + Q * r) = r * (q + Q * t) + 1
<1>1. t * (p + Q * r) = p * t + t * (Q * r)
  OBVIOUS
<1>2. r * (q + Q * t) = q * r + t * (Q * r)
  OBVIOUS
<1>3. t * (Q * r) \in Nat /\ q * r \in Nat
  OBVIOUS
<1> DEFINE a == t * (Q * r)
           b == q * r
<1>4. a \in Nat /\ b \in Nat /\ t * (p + Q * r) = (b + 1) + a /\ r * (q + Q * t) = b + a
  BY <1>1, <1>2, <1>3
<1> HIDE DEF a, b
<1> QED BY <1>4

\* The rows after a quotient.
NextCofactors(u, v, p, q, r, t, e, Q, x, y) ==
    /\ CofactorRows(v, u - Q * v, r, t, p + Q * r, q + Q * t, 1 - e, x, y)
    /\ Begun(v, u - Q * v, r, t, p + Q * r)

\* The bounds of the quotient, by the signs of the rows.
SureHere(u, v, p, q, r, t, e, Q) ==
    /\ e = 0 => SureBy(u, v, q, t, p, r, Q)
    /\ e = 1 => SureBy(u, v, p, r, q, t, Q)

\* A step of the loop.
LEMMA CofactorsNext ==
  ASSUME NEW u, NEW v, NEW p, NEW q, NEW r, NEW t, NEW e, NEW x, NEW y, NEW Q,
         CofactorRows(u, v, p, q, r, t, e, x, y), SureHere(u, v, p, q, r, t, e, Q)
  PROVE  NextCofactors(u, v, p, q, r, t, e, Q, x, y)
<1> u \in Nat /\ v \in Nat /\ p \in Nat /\ q \in Nat /\ r \in Nat /\ t \in Nat /\ e \in {0, 1}
    /\ x \in Nat /\ y \in Nat
  BY DEF CofactorRows
<1>0. x = t * u + q * v /\ y = r * u + p * v /\ u >= v /\ t >= 1 /\ p + r >= 1 /\ q <= t
  BY DEF CofactorRows
<1>1. /\ e = 0 => SureLeaves(u, v, q, t, Q)
      /\ e = 1 => SureLeaves(u, v, p, r, Q)
  BY SureQuotient DEF SureHere
<1>2. Q \in Nat /\ Q >= 1 /\ u - Q * v \in Nat /\ u - Q * v < v
  BY <1>1 DEF SureLeaves
<1>3. PICK V \in Nat : V = u - Q * v
  BY <1>2
<1>4. u = Q * v + V
  <2>1. PICK w \in Nat : w = Q * v
    BY <1>2
  <2> QED BY <1>3, <2>1
<1>5. PICK R \in Nat : R = p + Q * r
  BY <1>2
<1>6. PICK T \in Nat : T = q + Q * t
  BY <1>2
<1>7. R >= p + r /\ T >= q + t
  <2>1. Q * r >= r /\ Q * t >= t
    BY <1>2
  <2> DEFINE i == Q * r
             j == Q * t
  <2>2. i \in Nat /\ j \in Nat
    BY <1>2
  <2> HIDE DEF i, j
  <2>3. R = p + i /\ T = q + j /\ i >= r /\ j >= t
    BY <1>5, <1>6, <2>1 DEF i, j
  <2> QED BY <2>2, <2>3
<1>8. x = T * v + t * V
  <2>1. (q + Q * t) * v + t * V = t * u + q * v
    BY <1>2, <1>4, Composed
  <2> QED BY <1>0, <1>6, <2>1
<1>9. y = R * v + r * V
  <2>1. (p + Q * r) * v + r * V = r * u + p * v
    BY <1>2, <1>4, Composed
  <2> QED BY <1>0, <1>5, <2>1
<1>10. Begun(v, V, r, t, R)
  BY <1>0, <1>2, <1>3, <1>7 DEF Begun
<1>11. v >= V /\ T >= 1 /\ r + R >= 1 /\ t <= T
  BY <1>0, <1>2, <1>3, <1>7
<1>12. CASE e = 0
  <2>1. u + q * y = p * x /\ v + r * x = t * y /\ p * t = q * r + 1 /\ v >= r
    BY <1>12 DEF CofactorRows
  <2>2. V + T * y = R * x
    <3>1. V + (q + Q * t) * y = (p + Q * r) * x
      BY <1>2, <1>4, <2>1, Eliminated
    <3> QED BY <1>5, <1>6, <3>1
  <2>3. t * R = r * T + 1
    <3>1. t * (p + Q * r) = r * (q + Q * t) + 1
      BY <1>2, <2>1, Unimodular
    <3> QED BY <1>5, <1>6, <3>1
  <2>4. V >= T
    BY <1>1, <1>3, <1>6, <1>12 DEF SureLeaves
  <2>5. 1 - e = 1 /\ 1 # 0
    BY <1>12
  <2>6. CofactorRows(v, V, r, t, R, T, 1 - e, x, y)
    BY <1>8, <1>9, <1>11, <2>1, <2>2, <2>3, <2>4, <2>5 DEF CofactorRows
  <2> QED BY <1>3, <1>5, <1>6, <1>10, <2>6 DEF NextCofactors
<1>13. CASE e = 1
  <2>1. u + p * x = q * y /\ v + t * y = r * x /\ q * r = p * t + 1 /\ v >= t
    BY <1>13 DEF CofactorRows
  <2>2. V + R * x = T * y
    <3>1. V + (p + Q * r) * x = (q + Q * t) * y
      BY <1>2, <1>4, <2>1, Eliminated
    <3> QED BY <1>5, <1>6, <3>1
  <2>3. r * T = t * R + 1
    <3>1. r * (q + Q * t) = t * (p + Q * r) + 1
      BY <1>2, <2>1, Unimodular
    <3> QED BY <1>5, <1>6, <3>1
  <2>4. V >= R
    BY <1>1, <1>3, <1>5, <1>13 DEF SureLeaves
  <2>5. 1 - e = 0 /\ 0 # 1
    BY <1>13
  <2>6. CofactorRows(v, V, r, t, R, T, 1 - e, x, y)
    BY <1>8, <1>9, <1>11, <2>1, <2>2, <2>3, <2>4, <2>5 DEF CofactorRows
  <2> QED BY <1>3, <1>5, <1>6, <1>10, <2>6 DEF NextCofactors
<1> QED BY <1>12, <1>13

-----------------------------------------------------------------------------
(* The loop over the leading words                                         *)

\* The words and the matrix, by the cofactors that they stand for.
CofactorRecords ==
    [u : Nat, v : Nat, a00 : Int, a01 : Int, a10 : Int, a11 : Int, steps : Nat]
CofactorState(c, p, q, r, t, e, x, y) ==
    /\ CofactorRows(c.u, c.v, p, q, r, t, e, x, y)
    /\ c.a00 = Way(e, p) /\ c.a01 = Way(1 - e, q) /\ c.a10 = Way(1 - e, r) /\ c.a11 = Way(e, t)
    /\ c.steps = 0 \/ Begun(c.u, c.v, p, q, r)
CofactorsKept(c, x, y) == \E p, q, r, t, e : CofactorState(c, p, q, r, t, e, x, y)
CofactorStates(x, y) == {c \in CofactorRecords : CofactorsKept(c, x, y)}

\* The words themselves, and the identity.
CofactorStart(x, y) == [u |-> x, v |-> y, a00 |-> 1, a01 |-> 0, a10 |-> 0, a11 |-> 1, steps |-> 0]

\* They are such a state.
LEMMA CofactorsStart ==
  ASSUME NEW x \in Nat, NEW y \in Nat, y <= x
  PROVE  CofactorStart(x, y) \in CofactorStates(x, y)
<1> DEFINE c == CofactorStart(x, y)
<1>1. /\ c \in CofactorRecords /\ c.u = x /\ c.v = y /\ c.a00 = 1 /\ c.a01 = 0 /\ c.a10 = 0 /\ c.a11 = 1
      /\ c.steps = 0
  BY DEF CofactorStart, CofactorRecords
<1> HIDE DEF c
<1>2. Way(0, 1) = 1 /\ Way(1 - 0, 0) = 0
  BY DEF Way
<1>3. CofactorRows(x, y, 1, 0, 0, 1, 0, x, y)
  <2>1. 0 # 1 /\ 0 * y = 0 /\ 0 * x = 0 /\ 1 * x = x /\ 1 * y = y /\ x + 0 = x /\ y + 0 = y /\ 0 + y = y
        /\ 1 * 1 = 0 * 0 + 1
    OBVIOUS
  <2> QED BY <2>1 DEF CofactorRows
<1>4. CofactorState(c, 1, 0, 0, 1, 0, x, y)
  BY <1>1, <1>2, <1>3 DEF CofactorState
<1>5. CofactorsKept(c, x, y)
  BY <1>4 DEF CofactorsKept
<1>6. c \in CofactorStates(x, y)
  BY <1>1, <1>5 DEF CofactorStates
<1> QED BY <1>6 DEF c

\* What Sure says of the cofactors.
LEMMA SureIs ==
  ASSUME NEW c, NEW p, NEW q, NEW r, NEW t, NEW e, NEW x, NEW y, CofactorState(c, p, q, r, t, e, x, y), Sure(c)
  PROVE  SureHere(c.u, c.v, p, q, r, t, e, NextQuotient(c))
<1> DEFINE u == c.u
           v == c.v
           Q == NextQuotient(c)
<1>1. CofactorRows(u, v, p, q, r, t, e, x, y)
  BY DEF CofactorState
<1>2. c.a00 = Way(e, p) /\ c.a01 = Way(1 - e, q) /\ c.a10 = Way(1 - e, r) /\ c.a11 = Way(e, t)
  BY DEF CofactorState
<1>3. /\ Q = (u + Way(e, p)) \div (v + Way(1 - e, r)) /\ Q = (u + Way(1 - e, q)) \div (v + Way(e, t))
      /\ v + Way(1 - e, r) # 0 /\ v + Way(e, t) # 0
  BY <1>2 DEF Sure, NextQuotient
<1> HIDE DEF u, v, Q
<1>4. u \in Nat /\ v \in Nat /\ p \in Nat /\ q \in Nat /\ r \in Nat /\ t \in Nat /\ e \in {0, 1} /\ v <= u
  BY <1>1 DEF CofactorRows
<1>5. CASE e = 0
  <2>1. u >= q /\ v >= r
    BY <1>1, <1>5 DEF CofactorRows
  <2>2. 1 - e = 1
    BY <1>5
  <2>3. Q = (u + p) \div (v - r) /\ Q = (u - q) \div (v + t) /\ v - r # 0
    <3>1. u + Way(0, p) = u + p /\ v + Way(1, r) = v - r /\ u + Way(1, q) = u - q /\ v + Way(0, t) = v + t
      BY <1>4 DEF Way
    <3>2. /\ Q = (u + Way(0, p)) \div (v + Way(1, r)) /\ Q = (u + Way(1, q)) \div (v + Way(0, t))
          /\ v + Way(1, r) # 0
      BY <1>3, <1>5, <2>2
    <3> QED BY <3>1, <3>2
  <2>4. SureBy(u, v, q, t, p, r, Q)
    BY <1>4, <2>1, <2>3 DEF SureBy
  <2>5. SureHere(u, v, p, q, r, t, e, Q)
    BY <1>5, <2>4 DEF SureHere
  <2> QED BY <2>5 DEF u, v, Q
<1>6. CASE e = 1
  <2>1. u >= p /\ v >= t
    BY <1>1, <1>6 DEF CofactorRows
  <2>2. 1 - e = 0
    BY <1>6
  <2>3. Q = (u - p) \div (v + r) /\ Q = (u + q) \div (v - t) /\ v - t # 0
    <3>1. u + Way(1, p) = u - p /\ v + Way(0, r) = v + r /\ u + Way(0, q) = u + q /\ v + Way(1, t) = v - t
      BY <1>4 DEF Way
    <3>2. /\ Q = (u + Way(1, p)) \div (v + Way(0, r)) /\ Q = (u + Way(0, q)) \div (v + Way(1, t))
          /\ v + Way(1, t) # 0
      BY <1>3, <1>6, <2>2
    <3> QED BY <3>1, <3>2
  <2>4. SureBy(u, v, p, r, q, t, Q)
    BY <1>4, <2>1, <2>3 DEF SureBy
  <2>5. SureHere(u, v, p, q, r, t, e, Q)
    BY <1>6, <2>4 DEF SureHere
  <2> QED BY <2>5 DEF u, v, Q
<1> QED BY <1>4, <1>5, <1>6

\* A cofactor of the next row.
NextEntry(e, p, r, Q) == Way(e, p) - Q * Way(1 - e, r) = Way(1 - (1 - e), p + Q * r)
LEMMA NextWay ==
  ASSUME NEW e \in {0, 1}, NEW p \in Nat, NEW r \in Nat, NEW Q \in Nat
  PROVE  NextEntry(e, p, r, Q)
<1>1. AddUp(e, p, r, Q)
  BY WayLess
<1>2. 1 - (1 - e) = e
  OBVIOUS
<1> QED BY <1>1, <1>2 DEF AddUp, NextEntry

\* A round of the loop.
LEMMA TakeSureKeeps ==
  ASSUME NEW x, NEW y, NEW c \in CofactorStates(x, y), NEW i \in Nat
  PROVE  TakeSure(c, i) \in CofactorStates(x, y)
<1>1. CASE c.steps < i - 1 \/ ~Sure(c)
  BY <1>1 DEF TakeSure
<1>2. CASE ~(c.steps < i - 1) /\ Sure(c)
  <2> DEFINE u == c.u
             v == c.v
             Q == NextQuotient(c)
             z == Taken(c, Q, i)
  <2>1. c \in CofactorRecords /\ CofactorsKept(c, x, y)
    BY DEF CofactorStates
  <2>2. PICK p, q, r, t, e : CofactorState(c, p, q, r, t, e, x, y)
    BY <2>1 DEF CofactorsKept
  <2>3. CofactorRows(u, v, p, q, r, t, e, x, y)
    BY <2>2 DEF CofactorState
  <2>4. SureHere(u, v, p, q, r, t, e, Q)
    BY <1>2, <2>2, SureIs
  <2>5. TakeSure(c, i) = z
    BY <1>2 DEF TakeSure
  <2>6. z = [u |-> v, v |-> u - Q * v, a00 |-> c.a10, a01 |-> c.a11,
             a10 |-> c.a00 - Q * c.a10, a11 |-> c.a01 - Q * c.a11, steps |-> i]
    BY DEF Taken
  <2> HIDE DEF u, v, Q, z
  <2>7. NextCofactors(u, v, p, q, r, t, e, Q, x, y)
    BY <2>3, <2>4, CofactorsNext
  <2>8. p \in Nat /\ q \in Nat /\ r \in Nat /\ t \in Nat /\ e \in {0, 1} /\ 1 - e \in {0, 1} /\ v \in Nat
    BY <2>3 DEF CofactorRows
  <2>9. Q \in Nat
    <3>1. SureLeaves(u, v, q, t, Q) \/ SureLeaves(u, v, p, r, Q)
      BY <2>4, <2>8, SureQuotient DEF SureHere
    <3> QED BY <3>1 DEF SureLeaves
  <2>10. CofactorRows(v, u - Q * v, r, t, p + Q * r, q + Q * t, 1 - e, x, y)
         /\ Begun(v, u - Q * v, r, t, p + Q * r)
    BY <2>7 DEF NextCofactors
  <2>11. u - Q * v \in Nat
    BY <2>10 DEF CofactorRows
  <2>12. c.a00 = Way(e, p) /\ c.a01 = Way(1 - e, q) /\ c.a10 = Way(1 - e, r) /\ c.a11 = Way(e, t)
    BY <2>2 DEF CofactorState
  <2>13. 1 - (1 - e) = e
    BY <2>8
  <2>14. z.a00 = Way(1 - e, r) /\ z.a01 = Way(1 - (1 - e), t)
    BY <2>6, <2>12, <2>13
  <2>15. z.a10 = Way(1 - (1 - e), p + Q * r) /\ p + Q * r \in Nat
    <3>1. z.a10 = Way(e, p) - Q * Way(1 - e, r)
      BY <2>6, <2>12
    <3>2. Way(e, p) - Q * Way(1 - e, r) = Way(1 - (1 - e), p + Q * r)
      <4>1. NextEntry(e, p, r, Q)
        BY <2>8, <2>9, NextWay
      <4> QED BY <4>1 DEF NextEntry
    <3>3. p + Q * r \in Nat
      BY <2>8, <2>9
    <3> QED BY <3>1, <3>2, <3>3
  <2>16. z.a11 = Way(1 - e, q + Q * t) /\ q + Q * t \in Nat
    <3>1. z.a11 = Way(1 - e, q) - Q * Way(1 - (1 - e), t)
      BY <2>6, <2>12, <2>13
    <3> DEFINE d == 1 - e
    <3>2. d \in {0, 1}
      BY <2>8
    <3>3. z.a11 = Way(d, q) - Q * Way(1 - d, t)
      BY <3>1
    <3>4. 1 - (1 - d) = d
      BY <3>2
    <3> HIDE DEF d
    <3>5. Way(d, q) - Q * Way(1 - d, t) = Way(1 - (1 - d), q + Q * t)
      <4>1. NextEntry(d, q, t, Q)
        BY <2>8, <2>9, <3>2, NextWay
      <4> QED BY <4>1 DEF NextEntry
    <3>6. z.a11 = Way(d, q + Q * t)
      BY <3>3, <3>4, <3>5
    <3>7. q + Q * t \in Nat
      BY <2>8, <2>9
    <3> QED BY <3>6, <3>7 DEF d
  <2>17. z \in CofactorRecords
    <3>1. z.a00 \in Int /\ z.a01 \in Int
      BY <2>8, <2>13, <2>14, WayIs
    <3>2. z.a10 \in Int
      BY <2>8, <2>13, <2>15, WayIs
    <3>3. z.a11 \in Int
      BY <2>8, <2>16, WayIs
    <3> QED BY <2>6, <2>8, <2>11, <3>1, <3>2, <3>3 DEF CofactorRecords
  <2>18. CofactorState(z, r, t, p + Q * r, q + Q * t, 1 - e, x, y)
    <3>1. z.u = v /\ z.v = u - Q * v
      BY <2>6
    <3> QED BY <2>10, <2>14, <2>15, <2>16, <3>1 DEF CofactorState
  <2>19. CofactorsKept(z, x, y)
    BY <2>18 DEF CofactorsKept
  <2> QED BY <2>5, <2>17, <2>19 DEF CofactorStates
<1> QED BY <1>1, <1>2

\* The states of the loop.
LEMMA CofactorStepsAre ==
  ASSUME NEW x \in Nat, NEW y \in Nat, y <= x
  PROVE  /\ CofactorSteps(x, y) \in [0 .. (2 * LimbBits + 1) -> CofactorStates(x, y)]
         /\ CofactorSteps(x, y)[0] = CofactorStart(x, y)
         /\ \A i \in 0 .. (2 * LimbBits + 1) - 1 : CofactorSteps(x, y)[i + 1] = TakeSure(CofactorSteps(x, y)[i], (i + 1))
<1> DEFINE G == [p \in CofactorStates(x, y) \X Nat |-> IF p[2] \in 1 .. (2 * LimbBits + 1) THEN TakeSure(p[1], p[2]) ELSE CofactorStart(x, y)]
           P(h) == h = [i \in 0 .. (2 * LimbBits + 1) |-> IF i = 0 THEN CofactorStart(x, y) ELSE CHOOSE next \in {TakeSure(s, i) : s \in {h[i - 1]}} : TRUE]
<1>n. (2 * LimbBits + 1) \in Nat
  BY LimbBitsAssumption
<1>s. CofactorStart(x, y) \in CofactorStates(x, y)
  BY CofactorsStart
<1>0. ASSUME NEW prev \in CofactorStates(x, y), NEW i \in 1 .. (2 * LimbBits + 1) PROVE TakeSure(prev, i) \in CofactorStates(x, y)
  <2> i \in Nat
    BY <1>n
  <2> QED BY TakeSureKeeps
<1>1. G \in [CofactorStates(x, y) \X Nat -> CofactorStates(x, y)]
  <2> SUFFICES ASSUME NEW p \in CofactorStates(x, y) \X Nat PROVE (IF p[2] \in 1 .. (2 * LimbBits + 1) THEN TakeSure(p[1], p[2]) ELSE CofactorStart(x, y)) \in CofactorStates(x, y)
    OBVIOUS
  <2>1. p[1] \in CofactorStates(x, y)
    OBVIOUS
  <2> QED BY <1>0, <1>s, <2>1
<1>2. PICK g \in [0 .. (2 * LimbBits + 1) -> CofactorStates(x, y)] : Up(g, (2 * LimbBits + 1), CofactorStart(x, y), G)
  <2> HIDE DEF G
  <2> QED BY <1>n, <1>1, <1>s, Recursion, Zenon
<1>3. ASSUME NEW i \in 1 .. (2 * LimbBits + 1), NEW prev \in CofactorStates(x, y) PROVE G[<<prev, i>>] = TakeSure(prev, i)
  <2> <<prev, i>> \in CofactorStates(x, y) \X Nat /\ <<prev, i>>[1] = prev /\ <<prev, i>>[2] = i
    OBVIOUS
  <2> QED OBVIOUS
<1> HIDE DEF G
<1>4. \A i \in 1 .. (2 * LimbBits + 1) : g[i] = TakeSure(g[i - 1], i)
  <2> TAKE i \in 1 .. (2 * LimbBits + 1)
  <2>1. i - 1 \in 0 .. (2 * LimbBits + 1) /\ g[i - 1] \in CofactorStates(x, y)
    BY <1>n
  <2>2. g[i] = G[<<g[i - 1], i>>]
    BY <1>2 DEF Up
  <2> QED BY <2>1, <2>2, <1>3
<1>c. ASSUME NEW i, NEW z PROVE (CHOOSE next \in {TakeSure(s, i) : s \in {z}} : TRUE) = TakeSure(z, i)
  <2>1. {TakeSure(s, i) : s \in {z}} = {TakeSure(z, i)}
    OBVIOUS
  <2> QED BY <2>1
<1>5. P(g)
  <2>1. g[0] = CofactorStart(x, y)
    BY <1>2 DEF Up
  <2>2. g = [i \in 0 .. (2 * LimbBits + 1) |-> g[i]]
    OBVIOUS
  <2>3. \A i \in 0 .. (2 * LimbBits + 1) : i # 0 => i \in 1 .. (2 * LimbBits + 1)
    BY <1>n
  <2> QED BY <1>c, <1>4, <2>1, <2>2, <2>3
<1>6. CofactorSteps(x, y) = CHOOSE h : P(h)
  BY DEF CofactorSteps, Iterates, CofactorStart
<1> DEFINE h == CofactorSteps(x, y)
<1>7. P(h)
  <2> HIDE DEF P
  <2> QED BY <1>5, <1>6
<1> HIDE DEF h
<1>8. h = [i \in 0 .. (2 * LimbBits + 1) |-> h[i]] /\ h[0] = CofactorStart(x, y)
  <2>1. DOMAIN h = 0 .. (2 * LimbBits + 1) /\ 0 \in 0 .. (2 * LimbBits + 1)
    BY <1>n, <1>7
  <2> QED BY <1>7, <2>1
<1>9. ASSUME NEW i \in 1 .. (2 * LimbBits + 1), h[i - 1] \in CofactorStates(x, y) PROVE h[i] = G[<<h[i - 1], i>>]
  <2>1. i \in 0 .. (2 * LimbBits + 1) /\ i # 0
    BY <1>n
  <2>2. h[i] = TakeSure(h[i - 1], i)
    BY <1>c, <1>7, <2>1
  <2> QED BY <1>3, <1>9, <2>2
<1>10. UpWithin(h, (2 * LimbBits + 1), CofactorStart(x, y), CofactorStates(x, y), G)
  BY <1>8, <1>9 DEF UpWithin
<1>11. h = g
  BY <1>n, <1>1, <1>2, <1>s, <1>10, UpUnique, Zenon
<1>12. \A i \in 0 .. (2 * LimbBits + 1) - 1 : i + 1 \in 1 .. (2 * LimbBits + 1) /\ (i + 1) - 1 = i
  BY <1>n
<1>13. \A i \in 0 .. (2 * LimbBits + 1) - 1 : g[i + 1] = TakeSure(g[i], (i + 1))
  BY <1>4, <1>12
<1> QED BY <1>2, <1>11, <1>13 DEF h, Up

\* What the loop ends with.
LEMMA CofactorsAre ==
  ASSUME NEW x \in Nat, NEW y \in Nat, y <= x
  PROVE  Cofactors(x, y) \in CofactorStates(x, y)
<1> DEFINE n == 2 * LimbBits + 1
<1>1. n \in 0 .. n
  BY LimbBitsAssumption
<1>2. CofactorSteps(x, y) \in [0 .. (2 * LimbBits + 1) -> CofactorStates(x, y)]
  BY CofactorStepsAre
<1>3. Cofactors(x, y) = CofactorSteps(x, y)[n]
  BY DEF Cofactors
<1> QED BY <1>1, <1>2, <1>3

-----------------------------------------------------------------------------
(* The leading words of long operands                                      *)

\* x is what A has above D, once scaled by S.
Leads(A, x, S, D) == x \in Nat /\ \E ra \in Nat : A * S = x * D + ra /\ ra < D

\* A digit, by the remainders below it and above it.
LEMMA LeadingDigit ==
  ASSUME NEW V \in Nat, NEW D \in Nat, D >= 1, NEW B \in Nat, B >= 1, V < B * D, NEW x, x = (V \div D) % B
  PROVE  x \in 0 .. B - 1 /\ Leads(V, x, 1, D)
<1> DEFINE q == V \div D
           r == V % D
<1>1. V = D * q + r /\ q \in Nat /\ r \in 0 .. D - 1
  BY DivRem
<1> HIDE DEF q, r
<1>2. q < B
  <2>1. q >= B => D * q >= D * B
    BY <1>1
  <2>2. D * B = B * D
    OBVIOUS
  <2> DEFINE w == D * q
             z == D * B
  <2>3. w \in Nat /\ z \in Nat /\ V = w + r /\ V < z /\ (q >= B => w >= z)
    BY <1>1, <2>1, <2>2
  <2> HIDE DEF w, z
  <2> QED BY <1>1, <2>3
<1>3. q % B = q
  BY <1>1, <1>2, ModSmall
<1>4. x = q
  BY <1>3 DEF q
<1>5. V * 1 = q * D + r
  <2>1. D * q = q * D
    BY <1>1
  <2> QED BY <1>1, <2>1
<1>6. r \in Nat /\ r < D
  BY <1>1
<1>7. Leads(V, q, 1, D)
  BY <1>1, <1>5, <1>6 DEF Leads
<1> QED BY <1>1, <1>2, <1>4, <1>7

\* The word of a below the bit that an array of len limbs is shifted to.
LEMMA TopWordIs ==
  ASSUME NEW n \in Nat, NEW a \in [0 .. n - 1 -> Word], NEW len \in 1 .. n, NEW s \in 0 .. LimbBits - 1,
         Value(a) * 2^s < Weight(len), NEW x, x = top_word(a, len, s)
  PROVE  x \in Word /\ Leads(Value(a), x, 2^s, Weight(len - 1))
<1> DEFINE V == Value(a)
           P == 2^s
           D == Weight(len - 1)
           k == len - 1
           l == mag_shl(a, s)
           W == V * P
<1>1. V \in Nat /\ s \in Nat /\ k \in 0 .. n - 1 /\ k \in Nat /\ len \in Nat
  <2>1. V \in Nat
    BY ValueNat
  <2> HIDE DEF V
  <2> QED BY <2>1, LimbBitsAssumption
<1>2. l \in [0 .. n - 1 -> Word] /\ Value(l) = W % Weight(n) /\ W \in Nat
  BY <1>1, MagShlIs
<1>3. D \in Nat /\ D >= 1 /\ Weight(len) = Base * D /\ Base \in Nat /\ Base >= 1
  <2>1. Weight(k + 1) = Base * Weight(k) /\ Weight(k) \in Nat /\ Weight(k) >= 1
    BY <1>1, WeightNext
  <2>2. k + 1 = len
    BY <1>1
  <2> QED BY <2>1, <2>2, BaseIs
<1>4. Weight(len) <= Weight(n) /\ Weight(n) \in Nat /\ Weight(len) \in Nat
  <2>1. len <= n
    BY <1>1
  <2>2. Weight(len) <= Weight(n)
    BY <1>1, <2>1, WeightMonotone
  <2> QED BY <1>1, <2>2, WeightIs
<1>5. Value(l) = W
  <2> HIDE DEF W
  <2>1. W < Weight(n)
    BY <1>2, <1>4 DEF W
  <2> QED BY <1>2, <1>4, <2>1, ModSmall
<1>6. l[k] = (W \div D) % Base
  <2>1. l[k] = (Value(l) \div Weight(k)) % Base
    BY <1>1, <1>2, DigitIs
  <2> QED BY <1>5, <2>1
<1>7. x = l[k]
  <2>1. CASE s = 0
    <3>1. x = a[k]
      BY <2>1 DEF top_word
    <3>2. a[k] = (V \div D) % Base
      BY <1>1, DigitIs
    <3>3. P = 1
      BY <2>1, Pow2Zero
    <3>4. W = V
      BY <1>1, <3>3
    <3> QED BY <1>6, <3>1, <3>2, <3>4
  <2>2. CASE s # 0
    <3>1. s \div LimbBits = 0 /\ s % LimbBits = s
      BY <1>1, LimbBitsAssumption
    <3>2. DOMAIN a = 0 .. n - 1
      OBVIOUS
    <3>3. l[k] = (LimbAt(a, k - (s \div LimbBits)) * 2^(s % LimbBits)
                    + LimbAt(a, k - (s \div LimbBits) - 1) \div 2^(LimbBits - (s % LimbBits))) % Base
      BY <1>1, <3>2 DEF mag_shl
    <3>4. k - 0 = k
      BY <1>1
    <3>5. l[k] = (LimbAt(a, k) * 2^s + LimbAt(a, k - 1) \div 2^(LimbBits - s)) % Base
      BY <3>1, <3>3, <3>4
    <3>6. LimbAt(a, k) = a[k]
      BY <1>1, <3>2 DEF LimbAt
    <3>7. LimbAt(a, k - 1) = IF len >= 2 THEN a[len - 2] ELSE 0
      <4>1. k - 1 = len - 2 /\ (k - 1 \in 0 .. n - 1 <=> len >= 2)
        BY <1>1
      <4> QED BY <3>2, <4>1 DEF LimbAt
    <3>8. x = (a[k] * 2^s + (IF len >= 2 THEN a[len - 2] ELSE 0) \div 2^(LimbBits - s)) % Base
      BY <2>2 DEF top_word
    <3> QED BY <3>5, <3>6, <3>7, <3>8
  <2> QED BY <2>1, <2>2
<1>8. x \in 0 .. Base - 1 /\ Leads(W, x, 1, D)
  <2> HIDE DEF W, D
  <2>1. W < Base * D /\ x = (W \div D) % Base
    BY <1>3, <1>6, <1>7 DEF W
  <2> QED BY <1>2, <1>3, <2>1, LeadingDigit
<1>9. Leads(V, x, P, D)
  <2>1. W * 1 = V * P
    BY <1>2
  <2> QED BY <1>8, <2>1 DEF Leads
<1> QED BY <1>8, <1>9 DEF Word

\* A row of the cofactors: u is what g times x has more than m times y, and not less than m.
LeadingRow(u, m, g, x, y) ==
    u \in Nat /\ m \in Nat /\ g \in Nat /\ x \in Nat /\ y \in Nat /\ u + m * y = g * x /\ m <= u

\* What holds of the leading words holds of the operands.
LEMMA LessRow ==
  ASSUME NEW A \in Nat, NEW B \in Nat, NEW S \in Nat, S >= 1, NEW D \in Nat, NEW x, NEW y, NEW u, NEW m, NEW g,
         LeadingRow(u, m, g, x, y), Leads(A, x, S, D), Leads(B, y, S, D)
  PROVE  m * B <= g * A
<1> u \in Nat /\ m \in Nat /\ g \in Nat /\ x \in Nat /\ y \in Nat
  BY DEF LeadingRow
<1>0. u + m * y = g * x /\ m <= u
  BY DEF LeadingRow
<1>1. PICK i \in Nat : A * S = x * D + i /\ i < D
  BY DEF Leads
<1>2. PICK j \in Nat : B * S = y * D + j /\ j < D
  BY DEF Leads
<1>3. (g * A) * S = (g * x) * D + g * i
  <2>1. (g * A) * S = g * (A * S)
    OBVIOUS
  <2>2. g * (x * D + i) = (g * x) * D + g * i
    OBVIOUS
  <2> QED BY <1>1, <2>1, <2>2
<1>4. (m * B) * S = (m * y) * D + m * j
  <2>1. (m * B) * S = m * (B * S)
    OBVIOUS
  <2>2. m * (y * D + j) = (m * y) * D + m * j
    OBVIOUS
  <2> QED BY <1>2, <2>1, <2>2
<1>5. (g * x) * D = u * D + (m * y) * D
  BY <1>0
<1>6. m * j <= m * D /\ m * D <= u * D
  BY <1>0, <1>2
<1> DEFINE p == g * A
           q == m * B
           c == (m * y) * D
           d == m * j
           f == u * D
           h == g * i
<1>7. p \in Nat /\ q \in Nat /\ c \in Nat /\ d \in Nat /\ f \in Nat /\ h \in Nat
  OBVIOUS
<1>8. p * S = f + c + h /\ q * S = c + d /\ d <= f
  <2> DEFINE w == m * D
  <2>1. w \in Nat /\ d <= w /\ w <= f
    BY <1>6
  <2> HIDE DEF w, d, f
  <2>2. d <= f
    BY <1>7, <2>1
  <2> QED BY <1>3, <1>4, <1>5, <2>2 DEF d, f
<1> HIDE DEF p, q, c, d, f, h
<1>9. q * S <= p * S
  BY <1>7, <1>8
<1>10. q <= p
  <2>1. q >= p + 1 => q * S >= (p + 1) * S
    BY <1>7
  <2>2. (p + 1) * S = p * S + S
    BY <1>7
  <2> DEFINE b == p * S
             z == q * S
  <2>3. b \in Nat /\ z \in Nat /\ (q >= p + 1 => z >= b + S) /\ z <= b
    BY <1>7, <1>9, <2>1, <2>2
  <2> HIDE DEF b, z
  <2> QED BY <1>7, <2>3
<1> QED BY <1>10 DEF p, q

-----------------------------------------------------------------------------
(* The matrix on the operands                                              *)

\* The negation of what is the same,
LEMMA SameLess ==
  ASSUME NEW n \in Nat, NEW x \in Int, NEW y \in Int, NEW u \in Int, NEW v \in Int, Same(x, y, n), Same(u, v, n)
  PROVE  Same(x - u, y - v, n)
<1> DEFINE W == Weight(n)
<1>1. W \in Nat
  BY WeightIs
<1>2. PICK s \in Int : x = y + s * W
  BY DEF Same
<1>3. PICK t \in Int : u = v + t * W
  BY DEF Same
<1> HIDE DEF W
<1>4. (s - t) * W = s * W - t * W
  BY <1>1
<1> DEFINE i == s * W
           j == t * W
<1>5. i \in Int /\ j \in Int
  BY <1>1
<1>6. x = y + i /\ u = v + j
  BY <1>2, <1>3
<1> HIDE DEF i, j
<1>7. x - u = (y - v) + (i - j)
  BY <1>5, <1>6
<1>8. x - u = (y - v) + (s - t) * W
  BY <1>4, <1>7 DEF i, j
<1>9. s - t \in Int
  OBVIOUS
<1> QED BY <1>8, <1>9 DEF Same, W

\* A word times an array.
LEMMA ScaledIs ==
  ASSUME NEW n \in Nat, NEW a \in [0 .. n - 1 -> Word], NEW x \in Word
  PROVE  Scaled(a, x) \in [0 .. n - 1 -> Word] /\ Same(Value(Scaled(a, x)), x * Value(a), n)
<1> DEFINE row == Row(Zeros(n), x, a, 0, n)
<1>1. Width(a) = n
  BY WidthIs
<1>2. Zeros(n) \in [0 .. n - 1 -> Word] /\ Value(Zeros(n)) = 0
  BY ZerosAre
<1>3. n \in 0 .. n /\ 0 \in Nat /\ 0 + n <= n /\ 0 + n = n
  OBVIOUS
<1>4. Scaled(a, x) = row.limbs
  BY <1>1 DEF Scaled
<1>r. row = Row(Zeros(n), x, a, 0, n)
  OBVIOUS
<1> HIDE DEF row
<1>5. row.limbs \in [0 .. n - 1 -> Word]
  <2> DEFINE r == Zeros(n)
             at == 0
  <2>1. r \in [0 .. n - 1 -> Word] /\ at \in Nat /\ n \in 0 .. n /\ at + n <= n /\ row = Row(r, x, a, at, n)
    BY <1>2, <1>3, <1>r
  <2> HIDE DEF r, at
  <2> QED BY <2>1, RowIs
<1>6. Same(Value(row.limbs), Value(Zeros(n)) + (x * Value(a)) * Weight(0), n)
  BY <1>2, <1>3, <1>r, RowSame
<1>7. Value(Zeros(n)) + (x * Value(a)) * Weight(0) = x * Value(a)
  <2> DEFINE A == Value(a)
  <2>1. A \in Nat /\ x \in Nat
    BY ValueNat, WordIs
  <2> HIDE DEF A
  <2>2. 0 + (x * A) * 1 = x * A
    BY <2>1
  <2> QED BY <1>2, <2>2, WeightFirst DEF A
<1> QED BY <1>4, <1>5, <1>6, <1>7

\* What a row of cofactors of sizes p and q makes of A and B.
RowGives(w, p, q, e, A, B) ==
    /\ w \in Nat
    /\ e = 0 => w + q * B = p * A
    /\ e = 1 => w + p * A = q * B

\* The paths of a row, by the signs of its entries.
LEMMA RowCases ==
  ASSUME NEW a, NEW b, NEW c0 \in Int, NEW c1 \in Int
  PROVE  /\ c0 >= 0 /\ c1 >= 0 => CofactorRow(a, b, c0, c1) = mag_add(Scaled(a, c0), Scaled(b, c1)).limbs
         /\ c0 >= 0 /\ c1 < 0 => CofactorRow(a, b, c0, c1) = mag_sub(Scaled(a, c0), Scaled(b, - c1)).limbs
         /\ c0 < 0 /\ c1 >= 0 => CofactorRow(a, b, c0, c1) = mag_sub(Scaled(b, c1), Scaled(a, - c0)).limbs
<1>1. (c0 >= 0 <=> ~(c0 < 0)) /\ (c1 >= 0 <=> ~(c1 < 0))
  OBVIOUS
<1>2. CASE c0 >= 0 /\ c1 >= 0
  <2>1. ~(c0 < 0) /\ ~(c1 < 0)
    BY <1>2
  <2>2. CofactorRow(a, b, c0, c1) = mag_add(Scaled(a, c0), Scaled(b, c1)).limbs
    BY <1>2, <2>1, Zenon DEF CofactorRow
  <2> QED BY <2>1, <2>2
<1>3. CASE c0 >= 0 /\ c1 < 0
  <2>1. ~(c0 < 0) /\ ~(c1 >= 0)
    BY <1>3
  <2>2. CofactorRow(a, b, c0, c1) = mag_sub(Scaled(a, c0), Scaled(b, - c1)).limbs
    BY <1>3, <2>1, Zenon DEF CofactorRow
  <2> QED BY <2>1, <2>2
<1>4. CASE c0 < 0 /\ c1 >= 0
  <2>1. ~(c0 >= 0) /\ ~(c1 < 0)
    BY <1>4
  <2>2. CofactorRow(a, b, c0, c1) = mag_sub(Scaled(b, c1), Scaled(a, - c0)).limbs
    BY <1>4, <2>1, Zenon DEF CofactorRow
  <2> QED BY <2>1, <2>2
<1>5. CASE c0 < 0 /\ c1 < 0
  BY <1>1, <1>5
<1> QED BY <1>1, <1>2, <1>3, <1>4, <1>5

\* A sum and a difference of what is the same, when they fit.
LEMMA SumFits ==
  ASSUME NEW n \in Nat, NEW a \in [0 .. n - 1 -> Word], NEW b \in [0 .. n - 1 -> Word], NEW x \in Int, NEW y \in Int,
         Same(Value(a), x, n), Same(Value(b), y, n), NEW w \in Nat, w < Weight(n)
  PROVE  /\ w = x + y => Value(mag_add(a, b).limbs) = w
         /\ w = x - y => Value(mag_sub(a, b).limbs) = w
<1> DEFINE A == Value(a)
           B == Value(b)
<1>1. A \in Int /\ B \in Int
  BY ValueNat
<1>2. Value(mag_add(a, b).limbs) = (A + B) % Weight(n) /\ Value(mag_sub(a, b).limbs) = (A - B) % Weight(n)
  BY MagAddIs, MagSubIs
<1>3. Same(A + B, x + y, n) /\ Same(A - B, x - y, n)
  <2> HIDE DEF A, B
  <2> QED BY <1>1, SameAdd, SameLess DEF A, B
<1> HIDE DEF A, B
<1>4. A + B \in Int /\ A - B \in Int /\ x + y \in Int /\ x - y \in Int
  BY <1>1
<1>5. Same(x + y, A + B, n) /\ Same(x - y, A - B, n)
  BY <1>3, <1>4, SameSym
<1>6. w = x + y => w = (A + B) % Weight(n)
  BY <1>4, <1>5, SameMod
<1>7. w = x - y => w = (A - B) % Weight(n)
  BY <1>4, <1>5, SameMod
<1> QED BY <1>2, <1>6, <1>7

\* The row of cofactors of sizes p and q, of one sign and the other.
SignedRow(a, b, p, q, e) == CofactorRow(a, b, Way(e, p), Way(1 - e, q))

\* It is called with words, for a number that fits.
RowAt(l, n, a, b, p, q, e, w) ==
    /\ a \in [0 .. n - 1 -> Word] /\ b \in [0 .. n - 1 -> Word] /\ p \in Word /\ q \in Word /\ e \in {0, 1}
    /\ RowGives(w, p, q, e, Value(a), Value(b)) /\ w < Weight(n) /\ l = SignedRow(a, b, p, q, e)

\* A row of the matrix.
LEMMA CofactorRowIs ==
  ASSUME NEW n \in Nat, NEW a, NEW b, NEW p, NEW q, NEW e, NEW w, NEW l, RowAt(l, n, a, b, p, q, e, w)
  PROVE  l \in [0 .. n - 1 -> Word] /\ Value(l) = w
<1>a. a \in [0 .. n - 1 -> Word] /\ b \in [0 .. n - 1 -> Word] /\ p \in Word /\ q \in Word /\ e \in {0, 1}
  BY DEF RowAt
<1>b. RowGives(w, p, q, e, Value(a), Value(b)) /\ w < Weight(n) /\ l = SignedRow(a, b, p, q, e)
  BY DEF RowAt
<1> DEFINE A == Value(a)
           B == Value(b)
           i == p * A
           j == q * B
<1>1. A \in Nat /\ B \in Nat /\ p \in Nat /\ q \in Nat /\ p \in Int /\ q \in Int
  <2>1. A \in Nat /\ B \in Nat
    BY <1>a, ValueNat
  <2>2. p \in Nat /\ q \in Nat
    BY <1>a, WordIs
  <2> QED BY <2>1, <2>2
<1>2. i \in Int /\ j \in Int
  <2> HIDE DEF A, B
  <2> QED BY <1>1
<1>3. Scaled(a, p) \in [0 .. n - 1 -> Word] /\ Same(Value(Scaled(a, p)), i, n)
  BY <1>a, ScaledIs
<1>4. Scaled(b, q) \in [0 .. n - 1 -> Word] /\ Same(Value(Scaled(b, q)), j, n)
  BY <1>a, ScaledIs
<1>5. w \in Nat /\ (e = 0 => w + j = i) /\ (e = 1 => w + i = j)
  BY <1>b DEF RowGives
<1>c. w \in Nat /\ w < Weight(n)
  BY <1>5, <1>b
<1> HIDE DEF A, B, i, j
<1>6. /\ mag_add(Scaled(a, p), Scaled(b, q)).limbs \in [0 .. n - 1 -> Word]
      /\ mag_sub(Scaled(a, p), Scaled(b, q)).limbs \in [0 .. n - 1 -> Word]
      /\ mag_sub(Scaled(b, q), Scaled(a, p)).limbs \in [0 .. n - 1 -> Word]
  BY <1>3, <1>4, MagAddIs, MagSubIs
<1>7. /\ w = i + j => Value(mag_add(Scaled(a, p), Scaled(b, q)).limbs) = w
      /\ w = i - j => Value(mag_sub(Scaled(a, p), Scaled(b, q)).limbs) = w
  <2> DEFINE z == Scaled(a, p)
             k == Scaled(b, q)
  <2>1. /\ z \in [0 .. n - 1 -> Word] /\ Same(Value(z), i, n)
        /\ k \in [0 .. n - 1 -> Word] /\ Same(Value(k), j, n)
    BY <1>3, <1>4
  <2> HIDE DEF z, k
  <2>2. w = i + j => Value(mag_add(z, k).limbs) = w
    BY <1>2, <1>c, <2>1, SumFits
  <2>3. w = i - j => Value(mag_sub(z, k).limbs) = w
    BY <1>2, <1>c, <2>1, SumFits
  <2> QED BY <2>2, <2>3 DEF z, k
<1>8. w = j - i => Value(mag_sub(Scaled(b, q), Scaled(a, p)).limbs) = w
  <2> DEFINE z == Scaled(b, q)
             k == Scaled(a, p)
  <2>1. /\ z \in [0 .. n - 1 -> Word] /\ Same(Value(z), j, n)
        /\ k \in [0 .. n - 1 -> Word] /\ Same(Value(k), i, n)
    BY <1>3, <1>4
  <2> HIDE DEF z, k
  <2>2. w = j - i => Value(mag_sub(z, k).limbs) = w
    BY <1>2, <1>c, <2>1, SumFits
  <2> QED BY <2>2 DEF z, k
<1>9. CASE e = 0
  <2>1. Way(e, p) = p /\ Way(1 - e, q) = 0 - q
    <3>1. 1 - e = 1
      BY <1>9
    <3> QED BY <1>9, <3>1 DEF Way
  <2>2. l = CofactorRow(a, b, p, 0 - q)
    BY <1>b, <2>1 DEF SignedRow
  <2>3. CASE q = 0
    <3>1. j = 0
      BY <1>1, <2>3 DEF j
    <3>2. 0 - q = 0 /\ 0 - q = q /\ p >= 0
      BY <1>1, <2>3
    <3>3. l = mag_add(Scaled(a, p), Scaled(b, q)).limbs
      BY <1>1, <2>2, <2>3, <3>2, RowCases
    <3>4. w = i + j
      BY <1>2, <1>5, <1>9, <3>1
    <3> QED BY <1>6, <1>7, <3>3, <3>4
  <2>4. CASE q > 0
    <3>1. 0 - q \in Int /\ 0 - q < 0 /\ p >= 0 /\ - (0 - q) = q
      BY <1>1, <2>4
    <3>2. l = mag_sub(Scaled(a, p), Scaled(b, - (0 - q))).limbs
      BY <1>1, <2>2, <3>1, RowCases
    <3>3. w = i - j
      BY <1>2, <1>5, <1>9
    <3> QED BY <1>6, <1>7, <3>1, <3>2, <3>3
  <2> QED BY <1>1, <2>3, <2>4
<1>10. CASE e = 1
  <2>1. Way(e, p) = 0 - p /\ Way(1 - e, q) = q
    <3>1. 1 - e = 0 /\ 1 # 0
      BY <1>10
    <3> QED BY <1>10, <3>1 DEF Way
  <2>2. l = CofactorRow(a, b, 0 - p, q)
    BY <1>b, <2>1 DEF SignedRow
  <2>3. CASE p = 0
    <3>1. i = 0
      BY <1>1, <2>3 DEF i
    <3>2. 0 - p = 0 /\ 0 - p = p /\ q >= 0
      BY <1>1, <2>3
    <3>3. l = mag_add(Scaled(a, p), Scaled(b, q)).limbs
      BY <1>1, <2>2, <2>3, <3>2, RowCases
    <3>4. w = i + j
      BY <1>2, <1>5, <1>10, <3>1
    <3> QED BY <1>6, <1>7, <3>3, <3>4
  <2>4. CASE p > 0
    <3>1. 0 - p \in Int /\ 0 - p < 0 /\ q >= 0 /\ - (0 - p) = p
      BY <1>1, <2>4
    <3>2. l = mag_sub(Scaled(b, q), Scaled(a, - (0 - p))).limbs
      BY <1>1, <2>2, <3>1, RowCases
    <3>3. w = j - i
      BY <1>2, <1>5, <1>10
    <3> QED BY <1>6, <1>8, <3>1, <3>2, <3>3
  <2> QED BY <1>1, <2>3, <2>4
<1> QED BY <1>a, <1>9, <1>10

\* The rows are not below zero on the operands either.
OperandRows(p, q, r, t, e, A, B) ==
    /\ e = 0 => q * B <= p * A /\ r * A <= t * B
    /\ e = 1 => p * A <= q * B /\ t * B <= r * A

\* What the leading words say of the operands.
LEMMA OperandRowsAre ==
  ASSUME NEW u, NEW v, NEW p, NEW q, NEW r, NEW t, NEW e, NEW x, NEW y, CofactorRows(u, v, p, q, r, t, e, x, y),
         NEW A \in Nat, NEW B \in Nat, NEW S \in Nat, S >= 1, NEW D \in Nat, Leads(A, x, S, D), Leads(B, y, S, D)
  PROVE  OperandRows(p, q, r, t, e, A, B)
<1>1. u \in Nat /\ v \in Nat /\ p \in Nat /\ q \in Nat /\ r \in Nat /\ t \in Nat /\ e \in {0, 1}
      /\ x \in Nat /\ y \in Nat
  BY DEF CofactorRows
<1>2. CASE e = 0
  <2>1. u + q * y = p * x /\ v + r * x = t * y /\ u >= q /\ v >= r
    BY <1>2 DEF CofactorRows
  <2>2. LeadingRow(u, q, p, x, y)
    BY <1>1, <2>1 DEF LeadingRow
  <2>3. LeadingRow(v, r, t, y, x)
    BY <1>1, <2>1 DEF LeadingRow
  <2>4. q * B <= p * A
    BY <2>2, LessRow
  <2>5. r * A <= t * B
    BY <2>3, LessRow
  <2> QED BY <1>2, <2>4, <2>5 DEF OperandRows
<1>3. CASE e = 1
  <2>1. u + p * x = q * y /\ v + t * y = r * x /\ u >= p /\ v >= t
    BY <1>3 DEF CofactorRows
  <2>2. LeadingRow(u, p, q, y, x)
    BY <1>1, <2>1 DEF LeadingRow
  <2>3. LeadingRow(v, t, r, x, y)
    BY <1>1, <2>1 DEF LeadingRow
  <2>4. p * A <= q * B
    BY <2>2, LessRow
  <2>5. t * B <= r * A
    BY <2>3, LessRow
  <2> QED BY <1>3, <2>4, <2>5 DEF OperandRows
<1> QED BY <1>1, <1>2, <1>3

\* G and H are what rows with a determinant of one make of A and B.
Transformed(A, B, G, H, p, q, r, t) ==
    /\ A \in Nat /\ B \in Nat /\ G \in Nat /\ H \in Nat /\ p \in Nat /\ q \in Nat /\ r \in Nat /\ t \in Nat
    /\ G + q * B = p * A /\ H + r * A = t * B /\ p * t = q * r + 1

\* A and B again, by G and H.
Inverted(A, B, G, H, p, q, r, t) == A = t * G + q * H /\ B = r * G + p * H

\* The rows have an inverse.
LEMMA TransformRestores ==
  ASSUME NEW A, NEW B, NEW G, NEW H, NEW p, NEW q, NEW r, NEW t, Transformed(A, B, G, H, p, q, r, t)
  PROVE  Inverted(A, B, G, H, p, q, r, t)
<1> A \in Nat /\ B \in Nat /\ G \in Nat /\ H \in Nat /\ p \in Nat /\ q \in Nat /\ r \in Nat /\ t \in Nat
  BY DEF Transformed
<1>1. G + q * B = p * A /\ H + r * A = t * B /\ p * t = q * r + 1
  BY DEF Transformed
<1>2. A = t * G + q * H
  <2>1. t * (G + q * B) = t * G + t * (q * B)
    OBVIOUS
  <2>2. q * (H + r * A) = q * H + q * (r * A)
    OBVIOUS
  <2>3. t * (p * A) = (q * r) * A + A
    <3>1. t * (p * A) = (p * t) * A
      OBVIOUS
    <3>2. (q * r + 1) * A = (q * r) * A + A
      OBVIOUS
    <3> QED BY <1>1, <3>1, <3>2
  <2>4. q * (t * B) = t * (q * B) /\ q * (r * A) = (q * r) * A
    OBVIOUS
  <2> DEFINE i == t * (q * B)
             j == (q * r) * A
             k == t * G
             l == q * H
  <2>5. i \in Nat /\ j \in Nat /\ k \in Nat /\ l \in Nat /\ k + i = j + A /\ l + j = i
    BY <1>1, <2>1, <2>2, <2>3, <2>4
  <2> HIDE DEF i, j, k, l
  <2>6. A = k + l
    BY <2>5
  <2> QED BY <2>6 DEF k, l
<1>3. B = r * G + p * H
  <2>1. r * (G + q * B) = r * G + (q * r) * B
    OBVIOUS
  <2>2. p * (H + r * A) = p * H + r * (p * A)
    OBVIOUS
  <2>3. p * (t * B) = (q * r) * B + B
    <3>1. p * (t * B) = (p * t) * B
      OBVIOUS
    <3>2. (q * r + 1) * B = (q * r) * B + B
      OBVIOUS
    <3> QED BY <1>1, <3>1, <3>2
  <2> DEFINE i == r * (p * A)
             j == (q * r) * B
             k == r * G
             l == p * H
  <2>5. i \in Nat /\ j \in Nat /\ k \in Nat /\ l \in Nat /\ k + j = i /\ l + i = j + B
    BY <1>1, <2>1, <2>2, <2>3
  <2> HIDE DEF i, j, k, l
  <2>6. B = k + l
    BY <2>5
  <2> QED BY <2>6 DEF k, l
<1> QED BY <1>2, <1>3 DEF Inverted

\* A combination of multiples.
LEMMA DivCombines ==
  ASSUME NEW d \in Nat, NEW x \in Nat, NEW y \in Nat, NEW p \in Nat, NEW q \in Nat, Div(d, x), Div(d, y)
  PROVE  Div(d, p * x + q * y)
<1>1. Div(d, p * x) /\ Div(d, q * y)
  BY DivTimes
<1> DEFINE i == p * x
           j == q * y
<1>2. i \in Nat /\ j \in Nat
  OBVIOUS
<1> HIDE DEF i, j
<1>3. Div(d, i) /\ Div(d, j)
  BY <1>1 DEF i, j
<1>4. Div(d, i + j)
  BY <1>2, <1>3, DivAdd
<1> QED BY <1>4 DEF i, j

\* What p times x has more than q times y.
LEMMA DivDiffers ==
  ASSUME NEW d \in Nat, d > 0, NEW x \in Nat, NEW y \in Nat, NEW p \in Nat, NEW q \in Nat, NEW g \in Nat,
         Div(d, x), Div(d, y), g + q * y = p * x
  PROVE  Div(d, g)
<1>1. Div(d, p * x) /\ Div(d, q * y)
  BY DivTimes
<1> DEFINE i == p * x
           j == q * y
<1>2. i \in Nat /\ j \in Nat /\ g + j = i /\ Div(d, i) /\ Div(d, j)
  BY <1>1
<1> HIDE DEF i, j
<1>3. j + g = i
  BY <1>2
<1>4. Div(d, j + g)
  BY <1>2, <1>3
<1> QED BY <1>2, <1>4, DivRest

\* The common divisors stay.
LEMMA TransformCommon ==
  ASSUME NEW A, NEW B, NEW G, NEW H, NEW p, NEW q, NEW r, NEW t, Transformed(A, B, G, H, p, q, r, t)
  PROVE  Common(G, H) = Common(A, B)
<1> A \in Nat /\ B \in Nat /\ G \in Nat /\ H \in Nat /\ p \in Nat /\ q \in Nat /\ r \in Nat /\ t \in Nat
  BY DEF Transformed
<1>1. G + q * B = p * A /\ H + r * A = t * B
  BY DEF Transformed
<1>2. A = t * G + q * H /\ B = r * G + p * H
  BY TransformRestores DEF Inverted
<1>3. ASSUME NEW d \in Common(A, B) PROVE d \in Common(G, H)
  <2>1. d \in Nat /\ d > 0 /\ Div(d, A) /\ Div(d, B)
    BY CommonIs
  <2>2. Div(d, G)
    BY <1>1, <2>1, DivDiffers
  <2>3. Div(d, H)
    BY <1>1, <2>1, DivDiffers
  <2> QED BY <2>1, <2>2, <2>3, CommonIs
<1>4. ASSUME NEW d \in Common(G, H) PROVE d \in Common(A, B)
  <2>1. d \in Nat /\ d > 0 /\ Div(d, G) /\ Div(d, H)
    BY CommonIs
  <2>2. Div(d, A)
    BY <1>2, <2>1, DivCombines
  <2>3. Div(d, B)
    BY <1>2, <2>1, DivCombines
  <2> QED BY <2>1, <2>2, <2>3, CommonIs
<1> QED BY <1>3, <1>4

\* The operands after the matrix: no larger, not both zero, and with the same
\* common divisors.
MatrixKeeps(A, B, G, H, p, q, r, t, e) ==
    /\ RowGives(G, p, q, e, A, B) /\ RowGives(H, r, t, 1 - e, A, B)
    /\ G <= A /\ H <= A /\ G + H > 0
    /\ Common(G, H) = Common(A, B)

LEMMA MatrixIs ==
  ASSUME NEW u, NEW v, NEW p, NEW q, NEW r, NEW t, NEW e, NEW x, NEW y, CofactorRows(u, v, p, q, r, t, e, x, y),
         Begun(u, v, p, q, r), NEW A \in Nat, A > 0, NEW B \in Nat, OperandRows(p, q, r, t, e, A, B)
  PROVE  \E G \in Nat, H \in Nat : MatrixKeeps(A, B, G, H, p, q, r, t, e)
<1> u \in Nat /\ v \in Nat /\ p \in Nat /\ q \in Nat /\ r \in Nat /\ t \in Nat /\ e \in {0, 1}
    /\ x \in Nat /\ y \in Nat
  BY DEF CofactorRows
<1>0. q >= 1 /\ t >= 1
  BY DEF CofactorRows, Begun
<1>1. ASSUME NEW G \in Nat, NEW H \in Nat, A = t * G + q * H
      PROVE  G <= A /\ H <= A /\ G + H > 0
  <2>1. t * G >= G /\ q * H >= H
    BY <1>0
  <2>2. G = 0 => t * G = 0
    OBVIOUS
  <2>3. H = 0 => q * H = 0
    OBVIOUS
  <2> DEFINE i == t * G
             j == q * H
  <2>4. i \in Nat /\ j \in Nat /\ A = i + j /\ i >= G /\ j >= H /\ (G = 0 => i = 0) /\ (H = 0 => j = 0)
    BY <1>1, <2>1, <2>2, <2>3
  <2> HIDE DEF i, j
  <2> QED BY <2>4
<1>2. CASE e = 0
  <2>1. q * B <= p * A /\ r * A <= t * B
    BY <1>2 DEF OperandRows
  <2>2. PICK G \in Nat : G + q * B = p * A
    <3> DEFINE i == p * A
               j == q * B
    <3>1. i \in Nat /\ j \in Nat /\ j <= i
      BY <2>1
    <3> HIDE DEF i, j
    <3>2. i - j \in Nat /\ (i - j) + j = i
      BY <3>1
    <3> QED BY <3>2 DEF i, j
  <2>3. PICK H \in Nat : H + r * A = t * B
    <3> DEFINE i == t * B
               j == r * A
    <3>1. i \in Nat /\ j \in Nat /\ j <= i
      BY <2>1
    <3> HIDE DEF i, j
    <3>2. i - j \in Nat /\ (i - j) + j = i
      BY <3>1
    <3> QED BY <3>2 DEF i, j
  <2>4. p * t = q * r + 1
    BY <1>2 DEF CofactorRows
  <2>5. Transformed(A, B, G, H, p, q, r, t)
    BY <2>2, <2>3, <2>4 DEF Transformed
  <2>6. A = t * G + q * H
    BY <2>5, TransformRestores DEF Inverted
  <2>7. Common(G, H) = Common(A, B)
    BY <2>5, TransformCommon
  <2>8. G <= A /\ H <= A /\ G + H > 0
    BY <1>1, <2>6
  <2>9. RowGives(G, p, q, e, A, B)
    <3>1. e # 1
      BY <1>2
    <3> QED BY <2>2, <3>1 DEF RowGives
  <2>10. RowGives(H, r, t, 1 - e, A, B)
    <3>1. 1 - e = 1 /\ 1 - e # 0
      BY <1>2
    <3> QED BY <2>3, <3>1 DEF RowGives
  <2>11. MatrixKeeps(A, B, G, H, p, q, r, t, e)
    BY <2>7, <2>8, <2>9, <2>10 DEF MatrixKeeps
  <2> QED BY <2>11
<1>3. CASE e = 1
  <2>1. p * A <= q * B /\ t * B <= r * A
    BY <1>3 DEF OperandRows
  <2>2. PICK G \in Nat : G + p * A = q * B
    <3> DEFINE i == q * B
               j == p * A
    <3>1. i \in Nat /\ j \in Nat /\ j <= i
      BY <2>1
    <3> HIDE DEF i, j
    <3>2. i - j \in Nat /\ (i - j) + j = i
      BY <3>1
    <3> QED BY <3>2 DEF i, j
  <2>3. PICK H \in Nat : H + t * B = r * A
    <3> DEFINE i == r * A
               j == t * B
    <3>1. i \in Nat /\ j \in Nat /\ j <= i
      BY <2>1
    <3> HIDE DEF i, j
    <3>2. i - j \in Nat /\ (i - j) + j = i
      BY <3>1
    <3> QED BY <3>2 DEF i, j
  <2>4. q * r = p * t + 1
    BY <1>3 DEF CofactorRows
  <2>5. Transformed(B, A, G, H, q, p, t, r)
    BY <2>2, <2>3, <2>4 DEF Transformed
  <2>6. A = t * G + q * H
    BY <2>5, TransformRestores DEF Inverted
  <2>7. Common(G, H) = Common(A, B)
    BY <2>5, TransformCommon, CommonSwap
  <2>8. G <= A /\ H <= A /\ G + H > 0
    BY <1>1, <2>6
  <2>9. RowGives(G, p, q, e, A, B)
    <3>1. e # 0
      BY <1>3
    <3> QED BY <2>2, <3>1 DEF RowGives
  <2>10. RowGives(H, r, t, 1 - e, A, B)
    <3>1. 1 - e = 0 /\ 1 - e # 1
      BY <1>3
    <3> QED BY <2>3, <3>1 DEF RowGives
  <2>11. MatrixKeeps(A, B, G, H, p, q, r, t, e)
    BY <2>7, <2>8, <2>9, <2>10 DEF MatrixKeeps
  <2> QED BY <2>11
<1> QED BY <1>2, <1>3

\* The entries are words.
LEMMA EntriesAreWords ==
  ASSUME NEW u, NEW v, NEW p, NEW q, NEW r, NEW t, NEW e, NEW x, NEW y, CofactorRows(u, v, p, q, r, t, e, x, y),
         Begun(u, v, p, q, r), x \in Word, y \in Word
  PROVE  p \in Word /\ q \in Word /\ r \in Word /\ t \in Word
<1> u \in Nat /\ v \in Nat /\ p \in Nat /\ q \in Nat /\ r \in Nat /\ t \in Nat
  BY DEF CofactorRows
<1>1. x = t * u + q * v /\ y = r * u + p * v /\ u >= 1 /\ p <= r /\ q <= t
  BY DEF CofactorRows, Begun
<1>2. x \in Nat /\ y \in Nat /\ x < Base /\ y < Base /\ Base \in Nat
  BY WordIs, BaseIs
<1>3. t * u >= t /\ r * u >= r
  BY <1>1
<1> DEFINE i == t * u
           j == r * u
           k == q * v
           l == p * v
<1>4. i \in Nat /\ j \in Nat /\ k \in Nat /\ l \in Nat /\ x = i + k /\ y = j + l /\ i >= t /\ j >= r
  BY <1>1, <1>3
<1> HIDE DEF i, j, k, l
<1>5. p < Base /\ q < Base /\ r < Base /\ t < Base
  BY <1>1, <1>2, <1>4
<1> QED BY <1>2, <1>5 DEF Word

-----------------------------------------------------------------------------
(* A step of Lehmer's algorithm                                            *)

\* The larger one first.
LEMMA OrderedIs ==
  ASSUME NEW n \in Nat, NEW a \in [0 .. n - 1 -> Word], NEW b \in [0 .. n - 1 -> Word],
         NEW x, NEW y, Common(Value(a), Value(b)) = Common(x, y), Value(a) + Value(b) > 0
  PROVE  LehmerKept(Ordered(a, b), x, y, n)
<1> DEFINE s == Ordered(a, b)
           A == Value(a)
           B == Value(b)
<1>1. A \in Nat /\ B \in Nat
  BY ValueNat
<1>2. mag_cmp(a, b) = Order(A, B)
  BY MagCmpIs
<1>3. CASE A < B
  <2>1. s = [a |-> b, b |-> a]
    <3> HIDE DEF A, B
    <3>1. Order(A, B) = -1
      BY <1>1, <1>3 DEF Order
    <3> QED BY <1>2, <3>1 DEF Ordered
  <2>2. s \in LehmerRegisters(n) /\ s.a = b /\ s.b = a
    BY <2>1 DEF LehmerRegisters
  <2>3. Common(B, A) = Common(x, y)
    BY CommonSwap
  <2> QED BY <1>1, <1>3, <2>2, <2>3 DEF LehmerKept
<1>4. CASE A >= B
  <2>1. s = [a |-> a, b |-> b]
    <3> HIDE DEF A, B
    <3>1. Order(A, B) # -1
      BY <1>1, <1>4 DEF Order
    <3> QED BY <1>2, <3>1 DEF Ordered
  <2>2. s \in LehmerRegisters(n) /\ s.a = a /\ s.b = b
    BY <2>1 DEF LehmerRegisters
  <2> QED BY <1>1, <1>4, <2>2 DEF LehmerKept
<1> QED BY <1>1, <1>3, <1>4

\* The leading words of the two operands, of more than one limb.
LEMMA LeadingWordsAre ==
  ASSUME NEW n \in Nat, NEW a \in [0 .. n - 1 -> Word], NEW b \in [0 .. n - 1 -> Word], Value(b) <= Value(a),
         NEW len, len = mag_effective_len(a), len >= 2, NEW s, s = LimbBits - nbits64(a[len - 1]),
         NEW x, x = top_word(a, len, s), NEW y, y = top_word(b, len, s)
  PROVE  /\ x \in Word /\ y \in Word /\ y <= x
         /\ \E S \in Nat, D \in Nat : S >= 1 /\ Leads(Value(a), x, S, D) /\ Leads(Value(b), y, S, D)
<1> DEFINE A == Value(a)
           B == Value(b)
           W == Weight(len)
           S == 2^s
           D == Weight(len - 1)
           h == mag_shl(a, s)
<1>1. len \in 0 .. n /\ a[len - 1] > 0
  BY LengthIs
<1>2. len \in Nat /\ len \in 1 .. n /\ len \in 0 .. n /\ len - 1 \in 0 .. n - 1 /\ len - 1 \in Nat
  BY <1>1
<1>3. s \in 0 .. LimbBits - 1
  <2> DEFINE w == a[len - 1]
  <2>1. w \in Word /\ w > 0
    BY <1>1, <1>2
  <2> HIDE DEF w
  <2>2. nbits64(w) \in 0 .. LimbBits /\ nbits64(w) >= 1
    BY <2>1, NBitsAre
  <2>3. s = LimbBits - nbits64(w)
    BY DEF w
  <2> QED BY <2>2, <2>3, LimbBitsAssumption
<1>4. Shifted(h, a, s, len, n)
  BY <1>2, ShiftedIs
<1>5. Below(h)[len] = A * S /\ S \in Nat /\ S >= 1
  BY <1>4 DEF Shifted
<1>6. h \in [0 .. n - 1 -> Word]
  <2>1. s \in Nat
    BY <1>3, LimbBitsAssumption
  <2> QED BY <2>1, MagShlIs
<1>7. A * S < W
  <2>1. Below(h)[len] < Weight(len)
    BY <1>2, <1>6, BelowWords
  <2> QED BY <1>5, <2>1
<1>8. A \in Nat /\ B \in Nat /\ B <= A /\ W \in Nat /\ D \in Nat
  <2>1. A \in Nat /\ B \in Nat
    BY ValueNat
  <2>2. W \in Nat /\ D \in Nat
    BY <1>2, WeightIs
  <2> QED BY <2>1, <2>2
<1>9. B * S < W
  <2> HIDE DEF A, B, S, W
  <2>1. B * S <= A * S
    BY <1>5, <1>8, TimesMonotone
  <2> DEFINE i == B * S
             j == A * S
  <2>2. i \in Nat /\ j \in Nat /\ i <= j /\ j < W
    BY <1>5, <1>7, <1>8, <2>1
  <2> HIDE DEF i, j
  <2>3. i < W
    BY <1>8, <2>2
  <2> QED BY <2>3 DEF i
<1>10. x \in Word /\ Leads(A, x, S, D)
  BY <1>2, <1>3, <1>7, TopWordIs
<1>11. y \in Word /\ Leads(B, y, S, D)
  BY <1>2, <1>3, <1>9, TopWordIs
<1>12. y <= x
  <2> HIDE DEF A, B, S, D
  <2>1. x \in Nat /\ y \in Nat
    BY <1>10, <1>11, WordIs
  <2>2. PICK i \in Nat : A * S = x * D + i /\ i < D
    BY <1>10 DEF Leads
  <2>3. PICK j \in Nat : B * S = y * D + j /\ j < D
    BY <1>11 DEF Leads
  <2>4. B * S <= A * S
    BY <1>5, <1>8, TimesMonotone
  <2>5. y >= x + 1 => y * D >= (x + 1) * D
    BY <1>8, <2>1, TimesMonotone
  <2>6. (x + 1) * D = x * D + D
    BY <1>8, <2>1
  <2> DEFINE k == x * D
             l == y * D
  <2>7. k \in Nat /\ l \in Nat /\ l + j <= k + i /\ (y >= x + 1 => l >= k + D)
    <3>1. k \in Nat /\ l \in Nat
      BY <1>8, <2>1
    <3>2. l + j <= k + i
      BY <2>2, <2>3, <2>4
    <3> QED BY <2>5, <2>6, <3>1, <3>2
  <2> HIDE DEF k, l
  <2> QED BY <1>8, <2>1, <2>2, <2>7
<1> QED BY <1>5, <1>8, <1>10, <1>11, <1>12

\* The step by the matrix: the two rows, in their order.
LEMMA ByMatrix ==
  ASSUME NEW n \in Nat, NEW a \in [0 .. n - 1 -> Word], NEW b \in [0 .. n - 1 -> Word], Value(a) > 0,
         NEW x, x \in Word, NEW y, y \in Word, NEW c, c \in CofactorStates(x, y), c.steps # 0,
         NEW S \in Nat, S >= 1, NEW D \in Nat, Leads(Value(a), x, S, D), Leads(Value(b), y, S, D)
  PROVE  LehmerKept(Ordered(CofactorRow(a, b, c.a00, c.a01), CofactorRow(a, b, c.a10, c.a11)), Value(a), Value(b), n)
<1> DEFINE A == Value(a)
           B == Value(b)
<1>1. A \in Nat /\ B \in Nat /\ A > 0 /\ A < Weight(n) /\ Weight(n) \in Nat
  BY ValueNat, WeightIs
<1>2. PICK p, q, r, t, e : CofactorState(c, p, q, r, t, e, x, y)
  BY DEF CofactorStates, CofactorsKept
<1>3. CofactorRows(c.u, c.v, p, q, r, t, e, x, y) /\ Begun(c.u, c.v, p, q, r)
  BY <1>2 DEF CofactorState
<1>4. c.a00 = Way(e, p) /\ c.a01 = Way(1 - e, q) /\ c.a10 = Way(1 - e, r) /\ c.a11 = Way(e, t)
  BY <1>2 DEF CofactorState
<1>5. p \in Word /\ q \in Word /\ r \in Word /\ t \in Word
  BY <1>3, EntriesAreWords
<1>6. e \in {0, 1} /\ 1 - e \in {0, 1} /\ 1 - (1 - e) = e
  BY <1>3 DEF CofactorRows
<1> DEFINE g == CofactorRow(a, b, c.a00, c.a01)
           h == CofactorRow(a, b, c.a10, c.a11)
<1>7. OperandRows(p, q, r, t, e, A, B)
  <2> HIDE DEF A, B
  <2>1. Leads(A, x, S, D) /\ Leads(B, y, S, D)
    BY DEF A, B
  <2> QED BY <1>1, <1>3, <2>1, OperandRowsAre
<1> HIDE DEF A, B
<1>8. PICK G \in Nat, H \in Nat : MatrixKeeps(A, B, G, H, p, q, r, t, e)
  BY <1>1, <1>3, <1>7, MatrixIs
<1>9. /\ RowGives(G, p, q, e, A, B) /\ RowGives(H, r, t, 1 - e, A, B)
      /\ G < Weight(n) /\ H < Weight(n) /\ G + H > 0 /\ Common(G, H) = Common(A, B)
  BY <1>1, <1>8 DEF MatrixKeeps
<1>10. g \in [0 .. n - 1 -> Word] /\ Value(g) = G
  <2>1. g = SignedRow(a, b, p, q, e)
    BY <1>4 DEF SignedRow
  <2>2. RowGives(G, p, q, e, Value(a), Value(b)) /\ G < Weight(n)
    BY <1>9 DEF A, B
  <2> HIDE DEF g
  <2>3. RowAt(g, n, a, b, p, q, e, G)
    BY <1>5, <1>6, <2>1, <2>2 DEF RowAt
  <2> QED BY <2>3, CofactorRowIs
<1>11. h \in [0 .. n - 1 -> Word] /\ Value(h) = H
  <2> DEFINE f == 1 - e
  <2>1. h = SignedRow(a, b, r, t, f)
    BY <1>4, <1>6 DEF SignedRow
  <2>2. f \in {0, 1} /\ RowGives(H, r, t, f, Value(a), Value(b)) /\ H < Weight(n)
    BY <1>6, <1>9 DEF A, B
  <2> HIDE DEF h, f
  <2>3. RowAt(h, n, a, b, r, t, f, H)
    BY <1>5, <2>1, <2>2 DEF RowAt
  <2> QED BY <2>3, CofactorRowIs
<1> HIDE DEF g, h
<1>12. LehmerKept(Ordered(g, h), A, B, n)
  BY <1>9, <1>10, <1>11, OrderedIs
<1> QED BY <1>12 DEF A, B, g, h

\* A step keeps the common divisors, and the order of the registers.
LEMMA LehmerSteps ==
  ASSUME NEW n \in Nat, NEW s, NEW x \in Nat, NEW y \in Nat, LehmerKept(s, x, y, n), ~mag_is_zero(s.b)
  PROVE  LehmerKept(LehmerStep(s), x, y, n)
<1> DEFINE a == s.a
           b == s.b
           A == Value(a)
           B == Value(b)
           len == mag_effective_len(a)
           sh == LimbBits - nbits64(a[len - 1])
           u == top_word(a, len, sh)
           v == top_word(b, len, sh)
           c == Cofactors(u, v)
           z == LehmerStep(s)
<1>1. a \in [0 .. n - 1 -> Word] /\ b \in [0 .. n - 1 -> Word] /\ B <= A /\ A > 0 /\ Common(A, B) = Common(x, y)
  BY DEF LehmerKept, LehmerRegisters
<1>2. A \in Nat /\ B \in Nat
  BY <1>1, ValueNat
<1>3. B > 0
  <2>1. B # 0
    BY <1>1, IsZero
  <2> QED BY <1>2, <2>1
<1>s. ASSUME LehmerKept(z, A, B, n) PROVE LehmerKept(z, x, y, n)
  BY <1>1, <1>s DEF LehmerKept
<1>4. z = IF mag_effective_len(b) = 1 THEN LastWord(a, b)
          ELSE IF c.steps = 0 THEN [a |-> b, b |-> mag_div_rem(a, b).r]
          ELSE Ordered(CofactorRow(a, b, c.a00, c.a01), CofactorRow(a, b, c.a10, c.a11))
  BY DEF LehmerStep
<1>5. CASE mag_effective_len(b) = 1
  <2>1. z = LastWord(a, b)
    BY <1>4, <1>5
  <2>2. B < Weight(1)
    BY <1>1, <1>5, LengthIs
  <2> HIDE DEF a, b, z
  <2>3. /\ z \in LehmerRegisters(n) /\ Value(z.b) = 0 /\ Value(z.a) > 0
        /\ Common(Value(z.a), 0) = Common(A, B)
    BY <1>1, <1>3, <2>1, <2>2, LastWordIs
  <2>4. Value(z.a) \in Nat
    BY <2>3, ValueNat DEF LehmerRegisters
  <2>5. Value(z.b) <= Value(z.a)
    BY <2>3, <2>4
  <2>6. LehmerKept(z, A, B, n)
    BY <2>3, <2>5 DEF LehmerKept
  <2> QED BY <1>s, <2>6 DEF a, b, z
<1>6. CASE mag_effective_len(b) # 1 /\ c.steps = 0
  <2> DEFINE qr == mag_div_rem(a, b)
  <2>1. z = [a |-> b, b |-> qr.r]
    BY <1>4, <1>6
  <2> HIDE DEF a, b, z, c
  <2>2. Divides(qr, a, B, n)
    BY <1>1, <1>3, MagDivRemIs
  <2>3. qr.r \in [0 .. n - 1 -> Word] /\ Value(qr.r) = A % B
    BY <2>2 DEF Divides
  <2> HIDE DEF qr, A, B
  <2>4. A = B * (A \div B) + (A % B) /\ A \div B \in Nat /\ A % B \in 0 .. B - 1
    BY <1>2, <1>3, DivRem
  <2> DEFINE R == A % B
             q == A \div B
  <2>5. R \in Nat /\ R < B /\ q \in Nat /\ A = B * q + R
    BY <1>2, <2>4
  <2> HIDE DEF R, q
  <2>6. A = q * B + R
    <3>1. B * q = q * B
      BY <1>2, <2>5
    <3> QED BY <2>5, <3>1
  <2>7. Common(A, B) = Common(B, R)
    <3>1. Leaves(R, A, q, B)
      BY <2>6 DEF Leaves
    <3> QED BY <1>2, <2>5, <3>1, CommonStep
  <2>8. z \in LehmerRegisters(n) /\ Value(z.a) = B /\ Value(z.b) = R
    <3>1. z \in LehmerRegisters(n) /\ z.a = b /\ z.b = qr.r
      BY <1>1, <2>1, <2>3 DEF LehmerRegisters
    <3> QED BY <2>3, <3>1 DEF R, B
  <2>9. LehmerKept(z, A, B, n)
    BY <1>2, <1>3, <2>5, <2>7, <2>8 DEF LehmerKept
  <2> QED BY <1>s, <2>9 DEF A, B, z, a, b
<1>7. CASE mag_effective_len(b) # 1 /\ c.steps # 0
  <2>1. z = Ordered(CofactorRow(a, b, c.a00, c.a01), CofactorRow(a, b, c.a10, c.a11))
    BY <1>4, <1>7
  <2>2. len >= 2
    <3> DEFINE m == mag_effective_len(b)
               k == len
    <3>1. m \in 0 .. n /\ (m = 0 <=> B = 0) /\ (m > 0 => B >= Weight(m - 1))
      <4> HIDE DEF b, m
      <4>1. m = mag_effective_len(b)
        BY DEF m
      <4>2. m \in 0 .. n /\ (m = 0 <=> Value(b) = 0)
        BY <1>1, <4>1, LengthIs
      <4>3. m > 0 => Value(b) >= Weight(m - 1)
        BY <1>1, <4>1, LengthIs
      <4> QED BY <4>2, <4>3
    <3>2. k \in 0 .. n /\ A < Weight(k)
      BY <1>1, LengthIs
    <3>3. m # 1
      BY <1>7
    <3> HIDE DEF m, k, A, B, c
    <3>4. m >= 2 /\ m - 1 \in Nat /\ 1 \in Nat /\ 1 <= m - 1
      BY <1>3, <3>1, <3>3
    <3>5. Weight(1) <= Weight(m - 1) /\ Weight(1) \in Nat /\ Weight(m - 1) \in Nat
      BY <3>4, WeightMonotone, WeightIs
    <3>6. Weight(1) <= A
      BY <1>1, <1>2, <3>1, <3>4, <3>5
    <3>7. CASE k < 2
      <4>1. k \in Nat /\ k <= 1
        BY <3>2, <3>7
      <4>2. Weight(k) <= Weight(1) /\ Weight(k) \in Nat
        BY <4>1, WeightMonotone, WeightIs
      <4> QED BY <1>2, <3>2, <3>5, <3>6, <4>2
    <3> QED BY <3>2, <3>7 DEF k
  <2> HIDE DEF a, b
  <2>3. u \in Word /\ v \in Word /\ v <= u
    BY <1>1, <2>2, LeadingWordsAre
  <2>4. PICK S \in Nat, D \in Nat : S >= 1 /\ Leads(A, u, S, D) /\ Leads(B, v, S, D)
    BY <1>1, <2>2, LeadingWordsAre
  <2> HIDE DEF u, v, z
  <2>5. u \in Nat /\ v \in Nat
    BY <2>3, WordIs
  <2>6. c \in CofactorStates(u, v)
    BY <2>3, <2>5, CofactorsAre
  <2>7. c.steps # 0
    BY <1>7
  <2> HIDE DEF c
  <2>8. LehmerKept(z, A, B, n)
    BY <1>1, <2>1, <2>3, <2>4, <2>6, <2>7, ByMatrix
  <2> QED BY <1>s, <2>8 DEF a, b, z
<1> QED BY <1>5, <1>6, <1>7

\* The end: one register is zero, and the other the gcd.
LEMMA LehmerEnds ==
  ASSUME NEW n \in Nat, NEW s, NEW x \in Nat, NEW y \in Nat, LehmerKept(s, x, y, n), mag_is_zero(s.b)
  PROVE  IntOf(Big(0, s.a)) = Gcd[<<x, y>>]
<1> DEFINE A == Value(s.a)
<1>1. s.a \in [0 .. n - 1 -> Word] /\ s.b \in [0 .. n - 1 -> Word] /\ Common(A, Value(s.b)) = Common(x, y)
  BY DEF LehmerKept, LehmerRegisters
<1>2. Value(s.b) = 0 /\ A \in Nat
  BY <1>1, IsZero, ValueNat
<1>3. Gcd[<<x, y>>] = A
  <2> HIDE DEF A
  <2> QED BY <1>1, <1>2, GcdOnce
<1>4. IntOf(Big(0, s.a)) = A
  BY DEF IntOf, Big
<1> QED BY <1>3, <1>4

-----------------------------------------------------------------------------
(* The thread and its gcds                                                 *)

\* What a running loop keeps of the operands of its call.
LoopKept(c, s) ==
    /\ c.op = "stein" => SteinKept(s, c.x, c.y, N)
    /\ c.op = "lehmer" => LehmerKept(s, c.x, c.y, N)
    /\ c.op = "xgcd" =>
         /\ c.x # 0 /\ c.y # 0
         /\ XgcdKept(s, Magnitude(c.x), Magnitude(c.y), XgcdWidth(BigOf(c.x, N), BigOf(c.y, N)))

\* The inverse that xgcd leaves when there is one.
InverseReturned(r, u, v) ==
    u # 0 /\ v # 0 /\ IntOf(r.g) = 1 =>
        LET m == Magnitude(v)
        IN  IntOf(r.inverse) \in 0 .. m - 1 /\ (IntOf(r.inverse) * (u % m) - 1) % m = 0

\* What a call has returned.
GcdReturned(c, r) ==
    /\ c.op \in {"stein", "lehmer"} => IntOf(r) = Gcd[<<c.x, c.y>>]
    /\ c.op = "xgcd" => XgcdReturns(r, c.x, c.y) /\ InverseReturned(r, c.x, c.y)

GcdInv ==
    /\ call \in NumberCalls \cup {NoCall}
    /\ call = NoCall => result = NoResult /\ loop = NoLoop
    /\ loop # NoLoop => result = NoResult /\ LoopKept(call, loop)
    /\ result # NoResult => GcdReturned(call, Res)

\* The operands of the gcds of natural numbers.
LEMMA NaturalCalls ==
  ASSUME NEW c \in NumberCalls, c.op \in {"stein", "lehmer"}
  PROVE  c.x \in Magnitudes \ {0} /\ c.y \in Magnitudes \ {0}
BY DEF NumberCalls, IntegerCalls, ModularCalls, Pairs

\* Those of the extended one.
LEMMA XgcdCalls ==
  ASSUME NEW c \in NumberCalls, c.op = "xgcd"
  PROVE  c.x \in Signed /\ c.y \in Signed
BY DEF NumberCalls, IntegerCalls, ModularCalls, Pairs

\* An operand holds its number.
LEMMA OperandHolds ==
  ASSUME NEW v \in Signed
  PROVE  Holds(BigOf(v, N), v, N) /\ v \in Int /\ Magnitude(v) \in Nat /\ Magnitude(v) < Weight(N)
BY OperandIs DEF Holds

\* The limbs of a natural one.
LEMMA NaturalOperand ==
  ASSUME NEW v \in Magnitudes \ {0}
  PROVE  /\ v \in Nat /\ v > 0 /\ v < Weight(N)
         /\ BigOf(v, N).limbs \in [0 .. N - 1 -> Word] /\ Value(BigOf(v, N).limbs) = v
<1>1. v \in Signed /\ v # 0
  BY DEF Signed
<1>2. v \in 0 .. Weight(N) - 1 /\ Weight(N) \in Nat
  BY NumbersAssumption, WidthN, WeightIs
<1>3. v \in Nat /\ v > 0 /\ v < Weight(N)
  BY <1>1, <1>2
<1>4. Magnitude(v) = v
  BY <1>3 DEF Magnitude
<1>5. Holds(BigOf(v, N), v, N)
  BY <1>1, OperandHolds
<1> QED BY <1>3, <1>4, <1>5, WidthN, HoldsIs

\* The registers that a loop begins with.
LoopGoesOn == call' = call /\ result' = NoResult /\ LoopKept(call, loop')

\* Stein's loop begins.
LEMMA SteinBegins ==
  ASSUME call \in NumberCalls, Stein
  PROVE  LoopGoesOn
<1> DEFINE u == call.x
           v == call.y
<1>1. call.op = "stein" /\ result = NoResult /\ GoOn(SteinStart(X.limbs, Y.limbs))
  BY DEF Stein, Pending
<1>2. u \in Magnitudes \ {0} /\ v \in Magnitudes \ {0}
  BY <1>1, NaturalCalls
<1>3. X = BigOf(u, N) /\ Y = BigOf(v, N)
  BY DEF X, Y
<1> HIDE DEF u, v
<1>4. SteinKept(SteinStart(X.limbs, Y.limbs), u, v, N)
  <2>1. u > 0 /\ X.limbs \in [0 .. N - 1 -> Word] /\ Value(X.limbs) = u
    BY <1>2, <1>3, NaturalOperand
  <2>2. v > 0 /\ Y.limbs \in [0 .. N - 1 -> Word] /\ Value(Y.limbs) = v
    BY <1>2, <1>3, NaturalOperand
  <2>3. SteinKept(SteinStart(X.limbs, Y.limbs), Value(X.limbs), Value(Y.limbs), N)
    BY <2>1, <2>2, WidthN, SteinStarts
  <2> QED BY <2>1, <2>2, <2>3
<1>5. loop' = SteinStart(X.limbs, Y.limbs) /\ call' = call /\ result' = NoResult
  BY <1>1 DEF GoOn
<1> QED BY <1>1, <1>4, <1>5 DEF LoopGoesOn, LoopKept, u, v

\* Lehmer's loop begins.
LEMMA LehmerBegins ==
  ASSUME call \in NumberCalls, Lehmer
  PROVE  LoopGoesOn
<1> DEFINE u == call.x
           v == call.y
<1>1. call.op = "lehmer" /\ result = NoResult /\ GoOn(Ordered(X.limbs, Y.limbs))
  BY DEF Lehmer, Pending
<1>2. u \in Magnitudes \ {0} /\ v \in Magnitudes \ {0}
  BY <1>1, NaturalCalls
<1>3. X = BigOf(u, N) /\ Y = BigOf(v, N)
  BY DEF X, Y
<1> HIDE DEF u, v
<1>4. LehmerKept(Ordered(X.limbs, Y.limbs), u, v, N)
  <2>1. u \in Nat /\ u > 0 /\ X.limbs \in [0 .. N - 1 -> Word] /\ Value(X.limbs) = u
    BY <1>2, <1>3, NaturalOperand
  <2>2. v \in Nat /\ v > 0 /\ Y.limbs \in [0 .. N - 1 -> Word] /\ Value(Y.limbs) = v
    BY <1>2, <1>3, NaturalOperand
  <2>3. Common(Value(X.limbs), Value(Y.limbs)) = Common(u, v)
    BY <2>1, <2>2
  <2>4. Value(X.limbs) + Value(Y.limbs) > 0
    BY <2>1, <2>2
  <2> QED BY <2>1, <2>2, <2>3, <2>4, WidthN, OrderedIs
<1>5. loop' = Ordered(X.limbs, Y.limbs) /\ call' = call /\ result' = NoResult
  BY <1>1 DEF GoOn
<1> QED BY <1>1, <1>4, <1>5 DEF LoopGoesOn, LoopKept, u, v

\* The extended loop begins.
LEMMA XgcdBegins ==
  ASSUME call \in NumberCalls, Xgcd
  PROVE  LoopGoesOn
<1> DEFINE u == call.x
           v == call.y
<1>1. call.op = "xgcd" /\ result = NoResult /\ ~HasZero /\ GoOn(XgcdStart(X, Y))
  BY DEF Xgcd, Pending
<1>2. u \in Signed /\ v \in Signed /\ u # 0 /\ v # 0
  BY <1>1, XgcdCalls DEF HasZero
<1>3. X = BigOf(u, N) /\ Y = BigOf(v, N)
  BY DEF X, Y
<1> HIDE DEF u, v
<1>4. XgcdKept(XgcdStart(X, Y), Magnitude(u), Magnitude(v), XgcdWidth(X, Y))
  BY <1>2, <1>3, OperandHolds, XgcdStarts
<1>5. loop' = XgcdStart(X, Y) /\ call' = call /\ result' = NoResult
  BY <1>1 DEF GoOn
<1> QED BY <1>1, <1>2, <1>3, <1>4, <1>5 DEF LoopGoesOn, LoopKept, u, v

\* The result of a call that ends.
CallEnds == call' = call /\ loop' = NoLoop /\ GcdReturned(call, Res')

\* A call that returns r.
LEMMA EndsWith ==
  ASSUME NEW r, Return(r), GcdReturned(call, r)
  PROVE  CallEnds
<1>1. call' = call /\ loop' = NoLoop /\ Res' = r
  BY DEF Return, Res
<1> QED BY <1>1 DEF CallEnds

\* A zero operand ends the call at once.
LEMMA ZeroEnds ==
  ASSUME call \in NumberCalls, GcdOfZero
  PROVE  CallEnds
<1> DEFINE u == call.x
           v == call.y
           r == XgcdOfZero(X, Y)
<1>1. call.op = "xgcd" /\ HasZero /\ Return(r)
  BY DEF GcdOfZero, Pending
<1>2. u \in Signed /\ v \in Signed /\ (u = 0 \/ v = 0)
  BY <1>1, XgcdCalls DEF HasZero
<1>3. X = BigOf(u, N) /\ Y = BigOf(v, N)
  BY DEF X, Y
<1>4. XgcdReturns(r, u, v)
  <2> HIDE DEF u, v
  <2> QED BY <1>2, <1>3, OperandHolds, ZeroReturns
<1>5. InverseReturned(r, u, v)
  BY <1>2 DEF InverseReturned
<1>6. GcdReturned(call, r)
  BY <1>1, <1>4, <1>5 DEF GcdReturned
<1> HIDE DEF r
<1> QED BY <1>1, <1>6, EndsWith

\* A step of Stein's loop.
LEMMA SteinKeeps ==
  ASSUME call \in NumberCalls, loop # NoLoop => result = NoResult /\ LoopKept(call, loop), SteinLoop
  PROVE  LoopGoesOn \/ CallEnds
<1> DEFINE u == call.x
           v == call.y
<1>1. call.op = "stein" /\ result = NoResult /\ SteinKept(loop, u, v, N)
  BY DEF SteinLoop, Running, LoopKept
<1>2. u \in Magnitudes \ {0} /\ v \in Magnitudes \ {0}
  BY <1>1, NaturalCalls
<1>3. loop.b \in [0 .. N - 1 -> Word] /\ N \in Nat /\ Value(loop.b) \in Nat
      /\ (mag_is_zero(loop.b) <=> Value(loop.b) = 0)
  <2>1. loop.b \in [0 .. N - 1 -> Word] /\ N \in Nat
    BY <1>1, WidthN DEF SteinKept, SteinRegisters
  <2> QED BY <2>1, ValueNat, IsZero
<1>4. CASE mag_is_zero(loop.b)
  <2> DEFINE r == Big(0, mag_shl(loop.a, loop.shift))
  <2>1. Return(r)
    BY <1>4 DEF SteinLoop
  <2>2. IntOf(r) = Gcd[<<u, v>>]
    <3> HIDE DEF u, v
    <3> QED BY <1>1, <1>2, <1>3, <1>4, NaturalOperand, SteinEnds
  <2>3. GcdReturned(call, r)
    BY <1>1, <2>2 DEF GcdReturned
  <2> HIDE DEF r
  <2> QED BY <2>1, <2>3, EndsWith
<1>5. CASE ~mag_is_zero(loop.b)
  <2>1. GoOn(SteinStep(loop))
    BY <1>5 DEF SteinLoop
  <2>2. SteinKept(SteinStep(loop), u, v, N)
    <3>1. u \in Nat /\ v \in Nat
      BY <1>2, NaturalOperand
    <3>2. Value(loop.b) > 0
      BY <1>3, <1>5
    <3> HIDE DEF u, v
    <3> QED BY <1>1, <1>3, <3>1, <3>2, SteinSteps
  <2>3. loop' = SteinStep(loop) /\ call' = call /\ result' = NoResult
    BY <1>1, <2>1 DEF GoOn
  <2> QED BY <1>1, <2>2, <2>3 DEF LoopGoesOn, LoopKept
<1> QED BY <1>4, <1>5

\* A step of Lehmer's loop.
LEMMA LehmerKeeps ==
  ASSUME call \in NumberCalls, loop # NoLoop => result = NoResult /\ LoopKept(call, loop), LehmerLoop
  PROVE  LoopGoesOn \/ CallEnds
<1> DEFINE u == call.x
           v == call.y
<1>1. call.op = "lehmer" /\ result = NoResult /\ LehmerKept(loop, u, v, N)
  BY DEF LehmerLoop, Running, LoopKept
<1>2. u \in Nat /\ v \in Nat /\ N \in Nat
  BY <1>1, NaturalCalls, NaturalOperand, WidthN
<1>3. CASE mag_is_zero(loop.b)
  <2> DEFINE r == Big(0, loop.a)
  <2>1. Return(r)
    BY <1>3 DEF LehmerLoop
  <2>2. IntOf(r) = Gcd[<<u, v>>]
    <3> HIDE DEF u, v
    <3> QED BY <1>1, <1>2, <1>3, LehmerEnds
  <2>3. GcdReturned(call, r)
    BY <1>1, <2>2 DEF GcdReturned
  <2> HIDE DEF r
  <2> QED BY <2>1, <2>3, EndsWith
<1>4. CASE ~mag_is_zero(loop.b)
  <2>1. GoOn(LehmerStep(loop))
    BY <1>4 DEF LehmerLoop
  <2>2. LehmerKept(LehmerStep(loop), u, v, N)
    <3> HIDE DEF u, v
    <3> QED BY <1>1, <1>2, <1>4, LehmerSteps
  <2>3. loop' = LehmerStep(loop) /\ call' = call /\ result' = NoResult
    BY <1>1, <2>1 DEF GoOn
  <2> QED BY <1>1, <2>2, <2>3 DEF LoopGoesOn, LoopKept
<1> QED BY <1>3, <1>4

\* What the extended loop returns when its remainder is zero.
LEMMA XgcdResult ==
  ASSUME NEW u \in Signed, u # 0, NEW v \in Signed, v # 0, NEW x, x = BigOf(u, N), NEW y, y = BigOf(v, N),
         NEW s, XgcdKept(s, Magnitude(u), Magnitude(v), XgcdWidth(x, y)), mag_is_zero(s.b.limbs),
         NEW gxy, gxy = XgcdEnd(x, y, s),
         NEW r, r = [g |-> gxy.g, x |-> gxy.x, y |-> gxy.y, inverse |-> invert_mod(gxy, y)]
  PROVE  XgcdReturns(r, u, v) /\ InverseReturned(r, u, v)
<1>1. Holds(x, u, N) /\ u \in Int /\ Holds(y, v, N) /\ v \in Int
  BY OperandHolds
<1>2. XgcdWidth(x, y) \in Nat
  BY <1>1, XgcdWidthIs
<1>3. XgcdGives(gxy, u, v)
  BY <1>1, <1>2, XgcdEnds
<1>4. r.g = gxy.g /\ r.x = gxy.x /\ r.y = gxy.y /\ r.inverse = invert_mod(gxy, y)
  OBVIOUS
<1>5. XgcdReturns(r, u, v)
  BY <1>3, <1>4 DEF XgcdGives, XgcdReturns
<1>6. InverseReturned(r, u, v)
  <2> DEFINE m == Magnitude(v)
  <2> SUFFICES ASSUME IntOf(gxy.g) = 1
               PROVE  IntOf(r.inverse) \in 0 .. m - 1 /\ (IntOf(r.inverse) * (u % m) - 1) % m = 0
    BY <1>4 DEF InverseReturned
  <2> HIDE DEF m
  <2> QED BY <1>1, <1>3, <1>4, InverseIs DEF m
<1> QED BY <1>5, <1>6

\* A step of the extended loop.
LEMMA XgcdKeeps ==
  ASSUME call \in NumberCalls, loop # NoLoop => result = NoResult /\ LoopKept(call, loop), XgcdLoop
  PROVE  LoopGoesOn \/ CallEnds
<1> DEFINE u == call.x
           v == call.y
           n == XgcdWidth(BigOf(u, N), BigOf(v, N))
<1>1. call.op = "xgcd" /\ result = NoResult /\ u # 0 /\ v # 0 /\ XgcdKept(loop, Magnitude(u), Magnitude(v), n)
  BY DEF XgcdLoop, Running, LoopKept
<1>2. u \in Signed /\ v \in Signed
  BY <1>1, XgcdCalls
<1>3. X = BigOf(u, N) /\ Y = BigOf(v, N)
  BY DEF X, Y
<1>4. CASE mag_is_zero(loop.b.limbs)
  <2> DEFINE gxy == XgcdEnd(X, Y, loop)
             r == [g |-> gxy.g, x |-> gxy.x, y |-> gxy.y, inverse |-> invert_mod(gxy, Y)]
  <2>1. Return(r)
    BY <1>4 DEF XgcdLoop
  <2>2. XgcdReturns(r, u, v) /\ InverseReturned(r, u, v)
    <3>1. XgcdKept(loop, Magnitude(u), Magnitude(v), XgcdWidth(X, Y))
      BY <1>1, <1>3
    <3> HIDE DEF u, v
    <3> QED BY <1>1, <1>2, <1>3, <1>4, <3>1, XgcdResult
  <2>3. GcdReturned(call, r)
    BY <1>1, <2>2 DEF GcdReturned
  <2> HIDE DEF r
  <2> QED BY <2>1, <2>3, EndsWith
<1>5. CASE ~mag_is_zero(loop.b.limbs)
  <2>1. GoOn(XgcdStep(loop))
    BY <1>5 DEF XgcdLoop
  <2>2. XgcdKept(XgcdStep(loop), Magnitude(u), Magnitude(v), n)
    <3> HIDE DEF u, v
    <3>1. Holds(BigOf(u, N), u, N) /\ Magnitude(u) \in Nat /\ Holds(BigOf(v, N), v, N) /\ Magnitude(v) \in Nat
      BY <1>2, OperandHolds
    <3>2. n \in Nat /\ Magnitude(u) < Weight(n) /\ Magnitude(v) < Weight(n)
      BY <3>1, XgcdWidthIs
    <3> HIDE DEF n
    <3> QED BY <1>1, <1>5, <3>1, <3>2, XgcdSteps
  <2>3. loop' = XgcdStep(loop) /\ call' = call /\ result' = NoResult
    BY <1>1, <2>1 DEF GoOn
  <2> QED BY <1>1, <2>2, <2>3 DEF LoopGoesOn, LoopKept
<1> QED BY <1>4, <1>5

\* The operations that are not gcds, which return at once.
LEMMA OthersEnd ==
  ASSUME AddSub \/ Multiply \/ Square \/ MacSum \/ Shift \/ Resize \/ Decode \/ Divide
         \/ MontMul \/ MontSquare \/ Newton \/ PowMod \/ Roots \/ Cornacchia \/ SqrtPow \/ Primality \/ Sample
  PROVE  CallEnds /\ call # NoCall
<1> SUFFICES call.op \notin {"stein", "lehmer", "xgcd", "none"} /\ call' = call /\ loop' = NoLoop
  BY DEF CallEnds, GcdReturned, NoCall
<1>1. CASE AddSub
  BY <1>1 DEF AddSub, Pending, Return
<1>2. CASE Multiply
  BY <1>2 DEF Multiply, Pending, Return
<1>3. CASE Square
  BY <1>3 DEF Square, Pending, Return
<1>4. CASE MacSum
  BY <1>4 DEF MacSum, Pending, Return
<1>5. CASE Shift
  BY <1>5 DEF Shift, Pending, Return
<1>6. CASE Resize
  BY <1>6 DEF Resize, Pending, Return
<1>7. CASE Decode
  BY <1>7 DEF Decode, Pending, Return
<1>8. CASE Divide
  BY <1>8 DEF Divide, Pending, Return
<1>9. CASE MontMul
  BY <1>9 DEF MontMul, Pending, Return
<1>10. CASE MontSquare
  BY <1>10 DEF MontSquare, Pending, Return
<1>11. CASE Newton
  BY <1>11 DEF Newton, Pending, Return
<1>12. CASE PowMod
  BY <1>12 DEF PowMod, Pending, Return
<1>13. CASE Roots
  BY <1>13 DEF Roots, Pending, Return
<1>14. CASE Cornacchia
  BY <1>14 DEF Cornacchia, Pending, Return
<1>15. CASE SqrtPow
  BY <1>15 DEF SqrtPow, Pending, Return
<1>16. CASE Primality
  BY <1>16 DEF Primality, Pending, Return
<1>17. CASE Sample
  BY <1>17 DEF Sample, Pending, Return
<1> QED BY <1>1, <1>2, <1>3, <1>4, <1>5, <1>6, <1>7, <1>8, <1>9, <1>10, <1>11, <1>12, <1>13, <1>14, <1>15, <1>16, <1>17

\* The gcds are called by their names.
LEMMA GcdNamed ==
  ASSUME GcdOfZero \/ Stein \/ Lehmer \/ Xgcd \/ Loops
  PROVE  call # NoCall
BY DEF GcdOfZero, Stein, Lehmer, Xgcd, Loops, SteinLoop, LehmerLoop, XgcdLoop, Pending, Running, NoCall

\* Every operation keeps the invariant.
LEMMA GcdStepKeeps ==
  ASSUME GcdInv, NumbersStep
  PROVE  GcdInv'
<1>1. call \in NumberCalls
  <2>1. call # NoCall
    BY OthersEnd, GcdNamed DEF NumbersStep
  <2> QED BY <2>1 DEF GcdInv
<1>2. loop # NoLoop => result = NoResult /\ LoopKept(call, loop)
  BY DEF GcdInv
<1>3. LoopGoesOn \/ CallEnds
  <2>1. CASE GcdOfZero
    BY <1>1, <2>1, ZeroEnds
  <2>2. CASE Stein
    BY <1>1, <2>2, SteinBegins
  <2>3. CASE Lehmer
    BY <1>1, <2>3, LehmerBegins
  <2>4. CASE Xgcd
    BY <1>1, <2>4, XgcdBegins
  <2>5. CASE SteinLoop
    BY <1>1, <1>2, <2>5, SteinKeeps
  <2>6. CASE LehmerLoop
    BY <1>1, <1>2, <2>6, LehmerKeeps
  <2>7. CASE XgcdLoop
    BY <1>1, <1>2, <2>7, XgcdKeeps
  <2> QED BY <2>1, <2>2, <2>3, <2>4, <2>5, <2>6, <2>7, OthersEnd DEF NumbersStep, Loops
<1>4. call' = call /\ call' # NoCall
  BY <1>1, <1>3, CallsNamed DEF LoopGoesOn, CallEnds, NoCall
<1>5. CASE LoopGoesOn
  BY <1>1, <1>4, <1>5 DEF LoopGoesOn, GcdInv
<1>6. CASE CallEnds
  BY <1>1, <1>4, <1>6 DEF CallEnds, GcdInv
<1> QED BY <1>3, <1>5, <1>6

\* A call, the taking of a result, and a step of no one.
LEMMA GcdThreadKeeps ==
  ASSUME GcdInv, CallOne(NumberCalls) \/ Take \/ UNCHANGED threadVars
  PROVE  GcdInv'
<1>1. CASE CallOne(NumberCalls)
  <2>1. call' \in NumberCalls /\ result' = NoResult /\ loop' = NoLoop
    BY <1>1 DEF CallOne, GcdInv
  <2> QED BY <2>1 DEF GcdInv
<1>2. CASE Take
  <2>1. call' = NoCall /\ result' = NoResult /\ loop' = NoLoop
    BY <1>2 DEF Take, GcdInv
  <2> QED BY <2>1 DEF GcdInv
<1>3. CASE UNCHANGED threadVars
  <2>1. call' = call /\ result' = result /\ loop' = loop
    BY <1>3 DEF threadVars
  <2> QED BY <2>1 DEF GcdInv, Res
<1> QED BY <1>1, <1>2, <1>3

\* What the registers keep is what GcdKept says of them.
LEMMA LoopSays ==
  ASSUME call \in NumberCalls, LoopKept(call, loop)
  PROVE  /\ call.op = "stein" => Gcd[<<Value(loop.a), Value(loop.b)>>] * 2^loop.shift = Gcd[<<call.x, call.y>>]
         /\ call.op = "lehmer" => Gcd[<<Value(loop.a), Value(loop.b)>>] = Gcd[<<call.x, call.y>>]
         /\ call.op = "xgcd" =>
              LET x == Magnitude(call.x)
                  y == Magnitude(call.y)
              IN  /\ IntOf(loop.a) = IntOf(loop.x_a) * x + IntOf(loop.y_a) * y
                  /\ IntOf(loop.b) = IntOf(loop.x_b) * x + IntOf(loop.y_b) * y
<1> DEFINE u == call.x
           v == call.y
<1>1. CASE call.op = "stein"
  BY <1>1 DEF LoopKept, SteinKept
<1>2. CASE call.op = "lehmer"
  <2>1. LehmerKept(loop, u, v, N)
    BY <1>2 DEF LoopKept
  <2>2. u \in Nat /\ v \in Nat
    BY <1>2, NaturalCalls, NaturalOperand
  <2>3. Common(Value(loop.a), Value(loop.b)) = Common(u, v) /\ Value(loop.a) \in Nat /\ Value(loop.b) \in Nat
    <3>1. loop.a \in [0 .. N - 1 -> Word] /\ loop.b \in [0 .. N - 1 -> Word]
      BY <2>1 DEF LehmerKept, LehmerRegisters
    <3> QED BY <2>1, <3>1, WidthN, ValueNat DEF LehmerKept
  <2>4. Gcd[<<Value(loop.a), Value(loop.b)>>] = Gcd[<<u, v>>]
    <3> HIDE DEF u, v
    <3> QED BY <2>2, <2>3, GcdSame
  <2> QED BY <1>2, <2>4
<1>3. CASE call.op = "xgcd"
  <2> DEFINE x == Magnitude(u)
             y == Magnitude(v)
             n == XgcdWidth(BigOf(u, N), BigOf(v, N))
  <2>1. XgcdKept(loop, x, y, n)
    BY <1>3 DEF LoopKept
  <2>2. u \in Signed /\ v \in Signed
    BY <1>3, XgcdCalls
  <2> HIDE DEF u, v
  <2>3. Holds(BigOf(u, N), u, N) /\ x \in Nat /\ Holds(BigOf(v, N), v, N) /\ y \in Nat
    BY <2>2, OperandHolds
  <2>4. n \in Nat
    BY <2>3, XgcdWidthIs
  <2> HIDE DEF x, y, n
  <2>5. /\ IntOf(loop.a) = IntOf(loop.x_a) * x + IntOf(loop.y_a) * y
        /\ IntOf(loop.b) = IntOf(loop.x_b) * x + IntOf(loop.y_b) * y
    BY <2>1, <2>3, <2>4, XgcdSays
  <2> QED BY <1>3, <2>5 DEF x, y, u, v
<1> QED BY <1>1, <1>2, <1>3

\* The greatest common divisors are exact, by all three algorithms, for every
\* number of limbs, of bits in a limb and of operands, and so are xgcd's
\* cofactors and the inverses made of them: gcd_stein, gcd_lehmer with its
\* cofactors of leading words, xgcd at every width it takes and invert_mod.
\* While they run, the registers keep the common divisors.
THEOREM GcdsAreKept == NumbersSpec => []GcdKept
<1>1. ThreadInit => GcdInv
  BY DEF ThreadInit, GcdInv
<1>2. GcdInv /\ [CallOne(NumberCalls) \/ NumbersStep \/ Take]_threadVars => GcdInv'
  BY GcdStepKeeps, GcdThreadKeeps
<1>3. GcdInv => GcdKept
  <2> SUFFICES ASSUME GcdInv PROVE GcdKept
    OBVIOUS
  <2>1. CASE call = NoCall
    BY <2>1 DEF GcdInv, GcdKept, Running, Is, NoCall
  <2>2. CASE call \in NumberCalls
    <3>1. /\ Running("stein") => Gcd[<<Value(loop.a), Value(loop.b)>>] * 2^loop.shift = Gcd[<<call.x, call.y>>]
          /\ Running("lehmer") => Gcd[<<Value(loop.a), Value(loop.b)>>] = Gcd[<<call.x, call.y>>]
          /\ Running("xgcd") =>
               LET x == Magnitude(call.x)
                   y == Magnitude(call.y)
               IN  /\ IntOf(loop.a) = IntOf(loop.x_a) * x + IntOf(loop.y_a) * y
                   /\ IntOf(loop.b) = IntOf(loop.x_b) * x + IntOf(loop.y_b) * y
      <4>1. loop # NoLoop => LoopKept(call, loop)
        BY DEF GcdInv
      <4> QED BY <2>2, <4>1, LoopSays DEF Running
    <3>2. Is("stein") \/ Is("lehmer") => IntOf(Res) = Gcd[<<call.x, call.y>>]
      BY DEF GcdInv, GcdReturned, Is
    <3>3. Is("xgcd") => XgcdReturns(Res, call.x, call.y) /\ InverseReturned(Res, call.x, call.y)
      BY DEF GcdInv, GcdReturned, Is
    <3> QED BY <3>1, <3>2, <3>3 DEF GcdKept, XgcdReturns, InverseReturned, HasZero
  <2> QED BY <2>1, <2>2 DEF GcdInv
<1> QED BY <1>1, <1>2, <1>3, PTL DEF NumbersSpec

=============================================================================
