--------------------------- MODULE TorsionProofs ---------------------------
(***************************************************************************)
(* What the other proofs know of E[2^F]: the multiples of a point of order *)
(* 2^t are its coordinates modulo 2^t.                                     *)
(***************************************************************************)
EXTENDS Torsion, Powers


-----------------------------------------------------------------------------
(* Points                                                                  *)

\* The order of the torsion is a positive natural number.
LEMMA PowF == F \in Nat /\ 2^F \in Nat /\ 2^F >= 1
BY FAssumption, Pow2Positive

\* A combination of two points is a point.
LEMMA CombineType ==
  ASSUME NEW m \in Int, NEW n \in Int, NEW p \in Point, NEW s \in Point
  PROVE  Combine(m, p, n, s) \in Point
<1> DEFINE w == 2^F
<1>1. w \in Nat /\ w >= 1
  BY PowF
<1>2. p[1] \in Nat /\ p[2] \in Nat /\ s[1] \in Nat /\ s[2] \in Nat
  BY <1>1 DEF Point
<1> HIDE DEF w
<1>3. m * p[1] + n * s[1] \in Int /\ m * p[2] + n * s[2] \in Int
  BY <1>2
<1>4. \A x \in Int : x % w \in 0 .. w - 1
  BY <1>1
<1>5. (m * p[1] + n * s[1]) % w \in 0 .. w - 1 /\ (m * p[2] + n * s[2]) % w \in 0 .. w - 1
  BY <1>3, <1>4
<1> QED BY <1>5 DEF Combine, Point, w

\* A multiple of a point is a point.
LEMMA TimesType ==
  ASSUME NEW n \in Int, NEW p \in Point
  PROVE  Times(n, p) \in Point
<1>1. O \in Point
  BY PowF DEF O, Point
<1> QED BY <1>1, CombineType DEF Times

\* Zero and the two points of the standard basis are points.
LEMMA ConstantPoints ==
  /\ O \in Point /\ <<1, 0>> \in Point /\ <<0, 1>> \in Point
<1>1. F - 1 \in Nat /\ (F - 1) + 1 = F
  BY FAssumption
<1>2. 2^((F - 1) + 1) = 2 * 2^(F - 1)
  BY <1>1, Pow2Succ
<1>3. 2^(F - 1) \in Nat /\ 2^(F - 1) >= 1
  BY <1>1, Pow2Positive
<1>4. 2 <= 2^F
  BY <1>1, <1>2, <1>3
<1> QED BY <1>4, PowF DEF O, Point

-----------------------------------------------------------------------------
(* Numbers modulo a power of two, and those scaled up to 2^F               *)

\* A number is its remainder and a multiple of p.
LEMMA Residue ==
  ASSUME NEW a \in Int, NEW p \in Nat, p > 0
  PROVE  \E t \in Int : a = (a % p) + t * p
<1>1. a = p * (a \div p) + (a % p) /\ a \div p \in Int /\ a % p \in Int
  OBVIOUS
<1>2. p * (a \div p) = (a \div p) * p
  BY <1>1
<1> QED BY <1>1, <1>2

\* Numbers with the same remainder differ by a multiple of p.
LEMMA ResidueGap ==
  ASSUME NEW a \in Int, NEW b \in Int, NEW p \in Nat, p > 0, a % p = b % p
  PROVE  \E t \in Int : a = b + t * p
<1>1. PICK i \in Int : a = (a % p) + i * p
  BY Residue
<1>2. PICK j \in Int : b = (b % p) + j * p
  BY Residue
<1>3. (i - j) * p = i * p - j * p /\ i * p \in Int /\ j * p \in Int
  OBVIOUS
<1>4. a = b + (i - j) * p
  BY <1>1, <1>2, <1>3
<1> QED BY <1>4

\* x, as a coordinate of a point of order 2^t.
Scaled(t, x) == (2^(F - t) * x) % 2^F

\* The point of order 2^t with coordinates x and y there.
At(t, x, y) == <<Scaled(t, x), Scaled(t, y)>>

\* The powers of two that scale by F - t.
LEMMA Level ==
  ASSUME NEW t, IsTorsionExponent(t)
  PROVE  /\ 2^(F - t) \in Nat /\ 2^(F - t) >= 1 /\ 2^t \in Nat /\ 2^t >= 1
         /\ 2^F = 2^t * 2^(F - t) /\ 2^F \in Nat /\ 2^F >= 1
         /\ t \in Nat /\ F - t \in Nat
<1>1. F - t \in Nat /\ t \in Nat /\ t + (F - t) = F
  BY PowF DEF IsTorsionExponent
<1>2. 2^(t + (F - t)) = 2^t * 2^(F - t)
  BY <1>1, Pow2Add
<1> QED BY <1>1, <1>2, Pow2Positive, PowF

\* A scaled number is a coordinate.
LEMMA ScaledType ==
  ASSUME NEW t, IsTorsionExponent(t), NEW x \in Int
  PROVE  Scaled(t, x) \in 0 .. 2^F - 1
<1> DEFINE h == 2^(F - t)
           n == 2^F
<1>1. h \in Nat /\ n \in Nat /\ n >= 1
  BY Level
<1> HIDE DEF h, n
<1>2. h * x \in Int
  BY <1>1
<1>3. \A z \in Int : z % n \in 0 .. n - 1
  BY <1>1
<1>4. (h * x) % n \in 0 .. n - 1
  BY <1>2, <1>3
<1> QED BY <1>4 DEF Scaled, h, n

\* At makes points.
LEMMA AtType ==
  ASSUME NEW t, IsTorsionExponent(t), NEW x \in Int, NEW y \in Int
  PROVE  At(t, x, y) \in Point
BY ScaledType DEF At, Point

\* Only the remainder modulo 2^t matters.
LEMMA ScaledSame ==
  ASSUME NEW t, IsTorsionExponent(t), NEW x \in Int, NEW y \in Int, NEW i \in Int, x = y + i * 2^t
  PROVE  Scaled(t, x) = Scaled(t, y)
<1> DEFINE h == 2^(F - t)
           w == 2^t
           n == 2^F
<1>1. h \in Nat /\ w \in Nat /\ n \in Nat /\ n > 0 /\ n = w * h
  BY Level
<1>2. x = y + i * w
  OBVIOUS
<1> HIDE DEF h, w, n
<1>3. h * (y + i * w) = h * y + i * (w * h)
  BY <1>1
<1> DEFINE z == h * y
<1>4. h * x = z + i * n /\ z \in Int
  BY <1>1, <1>2, <1>3
<1> HIDE DEF z
<1>5. (z + i * n) % n = z % n
  BY <1>1, <1>4, ModShift
<1> QED BY <1>4, <1>5 DEF Scaled, h, n, z

\* Scaling down again gives the remainder.
LEMMA ScaledDown ==
  ASSUME NEW t, IsTorsionExponent(t), NEW x \in Int
  PROVE  Scaled(t, x) \div 2^(F - t) = x % 2^t
<1> DEFINE h == 2^(F - t)
           w == 2^t
           n == 2^F
           b == x % w
<1>1. h \in Nat /\ h >= 1 /\ w \in Nat /\ w >= 1 /\ n \in Nat /\ n > 0 /\ n = w * h
  BY Level
<1>2. PICK i \in Int : x = b + i * w
  <2>1. w \in Nat /\ w > 0
    BY <1>1
  <2> HIDE DEF w
  <2>2. \E i \in Int : x = (x % w) + i * w
    BY <2>1, Residue
  <2> QED BY <2>2
<1>3. b \in 0 .. w - 1
  <2> HIDE DEF w
  <2> QED BY <1>1
<1>4. Scaled(t, x) = Scaled(t, b)
  <2>1. b \in Int
    <3> HIDE DEF b, w
    <3> QED BY <1>1, <1>3
  <2> HIDE DEF b
  <2> QED BY <1>2, <2>1, ScaledSame DEF w
<1>5. Scaled(t, b) = (h * b) % n
  BY DEF Scaled
<1> HIDE DEF h, w, n, b
<1>6. h * b \in Nat /\ h * b < n /\ b \in Nat
  <2>1. b * h <= (w - 1) * h
    <3>1. b \in Nat /\ w - 1 \in Nat /\ b <= w - 1
      BY <1>1, <1>3
    <3> QED BY <1>1, <3>1, TimesMonotone
  <2>2. (w - 1) * h = w * h - h /\ w * h \in Nat
    BY <1>1
  <2>3. h * b = b * h /\ h * b \in Nat
    BY <1>1, <1>3, TimesAssociates
  <2> QED BY <1>1, <1>3, <2>1, <2>2, <2>3
<1>7. (h * b) % n = h * b
  BY <1>1, <1>6, ModSmall
<1>8. (b * h) \div h = b /\ h * b = b * h
  BY <1>1, <1>6, DivExact, TimesAssociates
<1> QED BY <1>4, <1>5, <1>7, <1>8 DEF h, b, w

\* Scaled numbers are combined before or after they are scaled.
LEMMA ScaledCombine ==
  ASSUME NEW t, IsTorsionExponent(t), NEW m \in Int, NEW k \in Int, NEW x \in Int, NEW y \in Int
  PROVE  (m * Scaled(t, x) + k * Scaled(t, y)) % 2^F = Scaled(t, m * x + k * y)
<1> DEFINE h == 2^(F - t)
           n == 2^F
           a == Scaled(t, x)
           b == Scaled(t, y)
<1>1. h \in Nat /\ n \in Nat /\ n > 0
  BY Level
<1>2. a \in Int /\ b \in Int
  BY ScaledType, Level
<1>3. PICK i \in Int : h * x = a + i * n
  <2>1. a = (h * x) % n
    BY DEF Scaled
  <2> HIDE DEF a, h, n
  <2>2. h * x \in Int
    BY <1>1
  <2> QED BY <1>1, <2>1, <2>2, Residue
<1>4. PICK j \in Int : h * y = b + j * n
  <2>1. b = (h * y) % n
    BY DEF Scaled
  <2> HIDE DEF b, h, n
  <2>2. h * y \in Int
    BY <1>1
  <2> QED BY <1>1, <2>1, <2>2, Residue
<1>5. Scaled(t, m * x + k * y) = (h * (m * x + k * y)) % n
  BY DEF Scaled
<1> HIDE DEF a, b, h, n
<1>6. h * (m * x + k * y) = m * (h * x) + k * (h * y)
  BY <1>1
<1>7. m * (a + i * n) + k * (b + j * n) = (m * a + k * b) + (m * i + k * j) * n
  BY <1>1, <1>2
<1>8. h * (m * x + k * y) = (m * a + k * b) + (m * i + k * j) * n
  BY <1>3, <1>4, <1>6, <1>7
<1>9. (h * (m * x + k * y)) % n = (m * a + k * b) % n
  <2> DEFINE z == m * a + k * b
             s == m * i + k * j
  <2>1. z \in Int /\ s \in Int /\ h * (m * x + k * y) = z + s * n
    BY <1>1, <1>2, <1>8
  <2> HIDE DEF z, s
  <2>2. (z + s * n) % n = z % n
    BY <1>1, <2>1, ModShift
  <2> QED BY <2>1, <2>2 DEF z
<1> QED BY <1>5, <1>9 DEF a, b, n

\* Points are combined by their coordinates at any level.
LEMMA AtCombine ==
  ASSUME NEW t, IsTorsionExponent(t), NEW m \in Int, NEW k \in Int,
         NEW x \in Int, NEW y \in Int, NEW u \in Int, NEW v \in Int
  PROVE  Combine(m, At(t, x, y), k, At(t, u, v)) = At(t, m * x + k * u, m * y + k * v)
<1>1. (m * Scaled(t, x) + k * Scaled(t, u)) % 2^F = Scaled(t, m * x + k * u)
  BY ScaledCombine
<1>2. (m * Scaled(t, y) + k * Scaled(t, v)) % 2^F = Scaled(t, m * y + k * v)
  BY ScaledCombine
<1>3. /\ At(t, x, y)[1] = Scaled(t, x) /\ At(t, x, y)[2] = Scaled(t, y)
      /\ At(t, u, v)[1] = Scaled(t, u) /\ At(t, u, v)[2] = Scaled(t, v)
      /\ At(t, m * x + k * u, m * y + k * v) = <<Scaled(t, m * x + k * u), Scaled(t, m * y + k * v)>>
  BY DEF At
<1> QED BY <1>1, <1>2, <1>3 DEF Combine

\* Zero has coordinates zero at every level.
LEMMA AtZero ==
  ASSUME NEW t, IsTorsionExponent(t)
  PROVE  At(t, 0, 0) = O
<1>1. \A h, n \in Nat : n > 0 => (h * 0) % n = 0
  OBVIOUS
<1>2. Scaled(t, 0) = 0
  BY <1>1, Level DEF Scaled
<1> QED BY <1>2 DEF At, O

\* A multiple of a point.
LEMMA AtTimes ==
  ASSUME NEW t, IsTorsionExponent(t), NEW m \in Int, NEW x \in Int, NEW y \in Int
  PROVE  Times(m, At(t, x, y)) = At(t, m * x, m * y)
<1>1. \A k, z \in Int : Combine(m, At(t, x, y), k, At(t, z, z)) = At(t, m * x + k * z, m * y + k * z)
  BY AtCombine
<1>2. Combine(m, At(t, x, y), 0, At(t, 0, 0)) = At(t, m * x + 0 * 0, m * y + 0 * 0)
  BY <1>1
<1>3. m * x + 0 * 0 = m * x /\ m * y + 0 * 0 = m * y
  OBVIOUS
<1> QED BY <1>2, <1>3, AtZero DEF Times

\* Doubling s times lowers the level by s.
LEMMA AtDouble ==
  ASSUME NEW t, IsTorsionExponent(t), NEW s \in Nat, s <= t, NEW x \in Int, NEW y \in Int
  PROVE  DoubleN(s, At(t, x, y)) = At(t - s, x, y)
<1>1. s \in Nat /\ F - t \in Nat /\ F - (t - s) = s + (F - t) /\ IsTorsionExponent(t - s)
  BY PowF DEF IsTorsionExponent
<1>2. 2^s \in Nat /\ 2^(F - t) \in Nat /\ 2^(F - (t - s)) = 2^s * 2^(F - t)
  BY <1>1, Pow2Add, Pow2Nat
<1>3. DoubleN(s, At(t, x, y)) = At(t, 2^s * x, 2^s * y)
  <2> DEFINE a == 2^s
  <2>1. a \in Int
    BY <1>2
  <2> HIDE DEF a
  <2>2. Times(a, At(t, x, y)) = At(t, a * x, a * y)
    BY <2>1, AtTimes
  <2> QED BY <2>2 DEF DoubleN, a
<1>4. ASSUME NEW z \in Int PROVE Scaled(t, 2^s * z) = Scaled(t - s, z)
  <2> DEFINE a == 2^s
             h == 2^(F - t)
  <2>1. a \in Nat /\ h \in Nat /\ 2^(F - (t - s)) = a * h
    BY <1>2
  <2>2. Scaled(t, a * z) = (h * (a * z)) % 2^F /\ Scaled(t - s, z) = ((a * h) * z) % 2^F
    BY <2>1 DEF Scaled
  <2> HIDE DEF a, h
  <2>3. h * (a * z) = (a * h) * z
    BY <2>1
  <2> QED BY <2>2, <2>3 DEF a
<1> QED BY <1>3, <1>4 DEF At

\* At level 0 there is only zero.
LEMMA AtBottom ==
  ASSUME NEW x \in Int, NEW y \in Int
  PROVE  At(0, x, y) = O
<1>1. ASSUME NEW z \in Int PROVE Scaled(0, z) = 0
  <2> DEFINE n == 2^F
  <2>1. F - 0 = F /\ n \in Nat /\ n > 0
    BY PowF
  <2>2. Scaled(0, z) = (n * z) % n
    BY <2>1 DEF Scaled
  <2> HIDE DEF n
  <2>3. n * z = 0 + z * n /\ (0 + z * n) % n = 0 % n /\ 0 % n = 0
    BY <2>1, ModShift
  <2> QED BY <2>2, <2>3
<1> QED BY <1>1 DEF At, O

\* At level 1 a point is zero when both coordinates are even.
LEMMA AtOne ==
  ASSUME NEW x \in Int, NEW y \in Int, At(1, x, y) = O
  PROVE  x % 2 = 0 /\ y % 2 = 0
<1>1. IsTorsionExponent(1) /\ 2^1 = 2
  <2>1. 0 + 1 = 1 /\ 2^(0 + 1) = 2 * 2^0
    BY Pow2Succ
  <2> QED BY <2>1, FAssumption, Pow2Zero DEF IsTorsionExponent
<1>2. Scaled(1, x) = 0 /\ Scaled(1, y) = 0
  BY DEF At, O
<1>3. Scaled(1, x) \div 2^(F - 1) = x % 2 /\ Scaled(1, y) \div 2^(F - 1) = y % 2
  BY <1>1, ScaledDown
<1>4. 0 \div 2^(F - 1) = 0
  BY <1>1, Level
<1> QED BY <1>2, <1>3, <1>4

\* Every point is its coordinates at the top.
LEMMA AtTop ==
  ASSUME NEW p \in Point
  PROVE  p[1] \in Nat /\ p[2] \in Nat /\ p = At(F, p[1], p[2])
<1>1. p[1] \in 0 .. 2^F - 1 /\ p[2] \in 0 .. 2^F - 1 /\ p = <<p[1], p[2]>>
  BY DEF Point
<1>2. ASSUME NEW z \in 0 .. 2^F - 1 PROVE Scaled(F, z) = z
  <2>1. 2^(F - F) = 1
    BY PowF, Pow2Zero
  <2>2. z \in Nat /\ z < 2^F /\ 1 * z = z
    BY PowF
  <2>3. z % 2^F = z
    BY <2>2, PowF, ModSmall
  <2> QED BY <2>1, <2>2, <2>3 DEF Scaled
<1> QED BY <1>1, <1>2, PowF DEF At

\* Points with equal coordinates modulo 2^t are the same point.
LEMMA AtSame ==
  ASSUME NEW t, IsTorsionExponent(t), NEW x \in Int, NEW y \in Int, NEW u \in Int, NEW v \in Int,
         x % 2^t = u % 2^t, y % 2^t = v % 2^t
  PROVE  At(t, x, y) = At(t, u, v)
<1>1. 2^t \in Nat /\ 2^t > 0
  BY Level
<1>2. PICK i \in Int : x = u + i * 2^t
  BY <1>1, ResidueGap
<1>3. PICK j \in Int : y = v + j * 2^t
  BY <1>1, ResidueGap
<1> QED BY <1>2, <1>3, ScaledSame DEF At

\* Doubling a point F - t times brings it to level t.
LEMMA DoublePoint ==
  ASSUME NEW t, IsTorsionExponent(t), NEW p \in Point
  PROVE  DoubleN(F - t, p) = At(t, p[1], p[2])
<1>1. p[1] \in Int /\ p[2] \in Int /\ p = At(F, p[1], p[2])
  BY AtTop
<1>2. IsTorsionExponent(F) /\ F - t \in Nat /\ F - t <= F /\ F - (F - t) = t
  BY PowF DEF IsTorsionExponent
<1>3. \A x, y \in Int : DoubleN(F - t, At(F, x, y)) = At(F - (F - t), x, y)
  BY <1>2, AtDouble
<1> QED BY <1>1, <1>2, <1>3

-----------------------------------------------------------------------------
(* Congruences                                                             *)

\* Equal modulo 2^t.
Congruent(a, b, t) == \E i \in Int : a = b + i * 2^t

\* Equal numbers are congruent.
LEMMA CongruentSelf ==
  ASSUME NEW t \in Nat, NEW a \in Int
  PROVE  Congruent(a, a, t)
<1>1. 2^t \in Nat
  BY Pow2Nat
<1>2. \A w \in Nat : a = a + 0 * w
  OBVIOUS
<1>3. a = a + 0 * 2^t
  BY <1>1, <1>2
<1> QED BY <1>3 DEF Congruent

\* Congruence is symmetric.
LEMMA CongruentBack ==
  ASSUME NEW t \in Nat, NEW a \in Int, NEW b \in Int, Congruent(a, b, t)
  PROVE  Congruent(b, a, t)
<1> DEFINE w == 2^t
<1>1. w \in Nat
  BY Pow2Nat
<1>2. PICK i \in Int : a = b + i * w
  BY DEF Congruent
<1> HIDE DEF w
<1>3. b = a + (-i) * w
  <2>1. (-i) * w = -(i * w) /\ i * w \in Int
    BY <1>1
  <2> QED BY <1>2, <2>1
<1>4. -i \in Int
  OBVIOUS
<1> QED BY <1>3, <1>4 DEF Congruent, w

\* Congruence is transitive.
LEMMA CongruentChain ==
  ASSUME NEW t \in Nat, NEW a \in Int, NEW b \in Int, NEW c \in Int,
         Congruent(a, b, t), Congruent(b, c, t)
  PROVE  Congruent(a, c, t)
<1> DEFINE w == 2^t
<1>1. w \in Nat
  BY Pow2Nat
<1>2. PICK i \in Int : a = b + i * w
  BY DEF Congruent
<1>3. PICK j \in Int : b = c + j * w
  BY DEF Congruent
<1> HIDE DEF w
<1>4. a = c + (i + j) * w
  <2>1. (i + j) * w = i * w + j * w /\ i * w \in Int /\ j * w \in Int
    BY <1>1
  <2> QED BY <1>2, <1>3, <2>1
<1>5. i + j \in Int
  OBVIOUS
<1> QED BY <1>4, <1>5 DEF Congruent, w

\* Sums of multiples of congruent numbers are congruent.
LEMMA CongruentSum ==
  ASSUME NEW t \in Nat, NEW a \in Int, NEW b \in Int, NEW c \in Int, NEW z \in Int,
         NEW m \in Int, NEW k \in Int, Congruent(a, b, t), Congruent(c, z, t)
  PROVE  Congruent(m * a + k * c, m * b + k * z, t)
<1> DEFINE w == 2^t
<1>1. w \in Nat
  BY Pow2Nat
<1>2. PICK i \in Int : a = b + i * w
  BY DEF Congruent
<1>3. PICK j \in Int : c = z + j * w
  BY DEF Congruent
<1> HIDE DEF w
<1>4. m * (b + i * w) + k * (z + j * w) = (m * b + k * z) + (m * i + k * j) * w
  BY <1>1
<1>5. m * a + k * c = (m * b + k * z) + (m * i + k * j) * w
  BY <1>2, <1>3, <1>4
<1>6. m * i + k * j \in Int
  OBVIOUS
<1> QED BY <1>5, <1>6 DEF Congruent, w

\* So are differences.
LEMMA CongruentMinus ==
  ASSUME NEW t \in Nat, NEW a \in Int, NEW b \in Int, NEW c \in Int, NEW z \in Int,
         Congruent(a, b, t), Congruent(c, z, t)
  PROVE  Congruent(a - c, b - z, t)
<1> DEFINE w == 2^t
<1>1. w \in Nat
  BY Pow2Nat
<1>2. PICK i \in Int : a = b + i * w
  BY DEF Congruent
<1>3. PICK j \in Int : c = z + j * w
  BY DEF Congruent
<1> HIDE DEF w
<1>4. (b + i * w) - (z + j * w) = (b - z) + (i - j) * w
  BY <1>1
<1>5. a - c = (b - z) + (i - j) * w
  BY <1>2, <1>3, <1>4
<1>6. i - j \in Int
  OBVIOUS
<1> QED BY <1>5, <1>6 DEF Congruent, w

\* A number is congruent to its remainder.
LEMMA CongruentMod ==
  ASSUME NEW t \in Nat, NEW a \in Int
  PROVE  a % 2^t \in Int /\ Congruent(a % 2^t, a, t) /\ Congruent(a, a % 2^t, t)
<1> DEFINE w == 2^t
           b == a % w
<1>1. w \in Nat /\ w > 0
  BY Pow2Positive
<1>2. b \in Int
  <2> HIDE DEF w
  <2> QED BY <1>1
<1>3. \E i \in Int : a = b + i * w
  <2> HIDE DEF w
  <2> QED BY <1>1, Residue
<1>4. Congruent(a, b, t)
  BY <1>3 DEF Congruent
<1>5. Congruent(b, a, t)
  <2> HIDE DEF b
  <2> QED BY <1>2, <1>4, CongruentBack
<1> QED BY <1>2, <1>4, <1>5

\* Points with congruent coordinates are the same point.
LEMMA AtCongruent ==
  ASSUME NEW t, IsTorsionExponent(t), NEW x \in Int, NEW y \in Int, NEW u \in Int, NEW v \in Int,
         Congruent(x, u, t), Congruent(y, v, t)
  PROVE  At(t, x, y) = At(t, u, v)
<1>1. PICK i \in Int : x = u + i * 2^t
  BY DEF Congruent
<1>2. PICK j \in Int : y = v + j * 2^t
  BY DEF Congruent
<1>3. Scaled(t, x) = Scaled(t, u)
  BY <1>1, ScaledSame
<1>4. Scaled(t, y) = Scaled(t, v)
  BY <1>2, ScaledSame
<1> QED BY <1>3, <1>4 DEF At
=============================================================================
