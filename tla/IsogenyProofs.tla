---------------------------- MODULE IsogenyProofs --------------------------
(***************************************************************************)
(* First the ladders, for every torsion exponent, width and scalar: each   *)
(* returns the combination it is named for, and each differential addition *)
(* on the way is given the difference of its operands.  Then the chains of *)
(* isogenies, of any length and from any kernel a ladder makes: the chain  *)
(* between surfaces has a sound strategy and computes its isogenies in the *)
(* order they have to come; the chains between curves reckon the orders of *)
(* their points as they are, lose their way only on a point of too small   *)
(* an order, and walk along their kernel as KernelWalk says.               *)
(***************************************************************************)
EXTENDS Isogenies, TorsionProofs, SequenceTheorems

-----------------------------------------------------------------------------
(* Binary digits                                                           *)

\* Quotient and remainder are the only ones of their size.
LEMMA DivUnique ==
  ASSUME NEW a \in Nat, NEW p \in Nat, p > 0, NEW s \in Nat, NEW d \in 0 .. p - 1, a = p * s + d
  PROVE  a \div p = s /\ a % p = d
<1>1. a % p = d
  <2>1. p * s = s * p
    OBVIOUS
  <2>2. (d + s * p) % p = d % p
    BY ModShift
  <2>3. d % p = d
    BY ModSmall
  <2> QED BY <2>1, <2>2, <2>3
<1>2. a = p * (a \div p) + d /\ a \div p \in Nat
  BY <1>1, DivRem
<1>3. p * (a \div p) = p * s
  BY <1>2
<1> DEFINE g == a \div p
<1>4. g \in Nat /\ p * g = p * s
  BY <1>2, <1>3
<1> HIDE DEF g
<1>5. g = s
  <2>1. CASE g > s
    <3>1. p * g = p * s + p * (g - s) /\ p * (g - s) >= p
      BY <1>4, <2>1
    <3> QED BY <1>4, <3>1
  <2>2. CASE g < s
    <3>1. p * s = p * g + p * (s - g) /\ p * (s - g) >= p
      BY <1>4, <2>2
    <3> QED BY <1>4, <3>1
  <2> QED BY <1>4, <2>1, <2>2
<1> QED BY <1>1, <1>5 DEF g

\* Bit n is what a number loses between its first n bits and one more, and
\* what its quotient loses.
LEMMA BitSplits ==
  ASSUME NEW a \in Nat, NEW n \in Nat
  PROVE  /\ Bit(a, n) \in 0 .. 1
         /\ a \div 2^n \in Nat /\ a \div 2^(n + 1) \in Nat
         /\ a \div 2^n = 2 * (a \div 2^(n + 1)) + Bit(a, n)
         /\ (a \div 2^n) \div 2 = a \div 2^(n + 1)
         /\ a % 2^(n + 1) = (a % 2^n) + Bit(a, n) * 2^n
<1> DEFINE w == 2^n
           b == (a \div w) % 2
           s == (a \div w) \div 2
           d == a % w
<1>1. w \in Nat /\ w > 0 /\ 2^(n + 1) = 2 * w
  BY Pow2Positive, Pow2Succ
<1> HIDE DEF w
<1>2. a = w * (a \div w) + d /\ a \div w \in Nat /\ d \in 0 .. w - 1
  BY <1>1, DivRem
<1>3. a \div w = 2 * s + b /\ s \in Nat /\ b \in 0 .. 1
  BY <1>2
<1> HIDE DEF b, s, d
<1>4. a = (2 * w) * s + (b * w + d)
  <2>1. w * (2 * s + b) = (2 * w) * s + b * w
    BY <1>1, <1>3
  <2>2. (2 * w) * s \in Nat /\ b * w \in Nat /\ d \in Nat
    BY <1>1, <1>2, <1>3
  <2> QED BY <1>2, <1>3, <2>1, <2>2
<1>5. b * w + d \in 0 .. 2 * w - 1
  <2>1. b * w = 0 \/ b * w = w
    BY <1>1, <1>3
  <2> QED BY <1>1, <1>2, <2>1
<1>6. a \div (2 * w) = s /\ a % (2 * w) = b * w + d
  <2> DEFINE v == 2 * w
             x == b * w + d
  <2>1. v \in Nat /\ v > 0 /\ x \in 0 .. v - 1 /\ a = v * s + x
    BY <1>1, <1>4, <1>5
  <2> HIDE DEF v, x
  <2>2. a \div v = s /\ a % v = x
    BY <1>3, <2>1, DivUnique
  <2> QED BY <2>2 DEF v, x
<1>7. d + b * w = b * w + d
  BY <1>1, <1>2, <1>3
<1>8. Bit(a, n) = b
  BY DEF Bit, b, w
<1> QED BY <1>1, <1>2, <1>3, <1>6, <1>7, <1>8 DEF w, s, d

\* The low bits of a number are those of its remainder.
LEMMA BitBelow ==
  ASSUME NEW a \in Nat, NEW e \in Nat, NEW n \in Nat, n < e
  PROVE  Bit(a % 2^e, n) = Bit(a, n)
<1> DEFINE w == 2^n
           u == 2^(e - n - 1)
           g == a \div 2^e
           d == a % 2^e
<1>1. w \in Nat /\ w > 0 /\ u \in Nat /\ u > 0 /\ 2^e = (2 * u) * w
  <2>1. e - n - 1 \in Nat /\ (e - n - 1) + 1 \in Nat /\ ((e - n - 1) + 1) + n = e
    OBVIOUS
  <2>2. 2^(((e - n - 1) + 1) + n) = 2^((e - n - 1) + 1) * 2^n
    BY <2>1, Pow2Add
  <2>3. 2^((e - n - 1) + 1) = 2 * 2^(e - n - 1)
    BY <2>1, Pow2Succ
  <2>4. w \in Nat /\ w > 0 /\ u \in Nat /\ u > 0
    BY <2>1, Pow2Positive
  <2> QED BY <2>1, <2>2, <2>3, <2>4
<1>2. a = ((2 * u) * w) * g + d /\ g \in Nat /\ d \in Nat
  <2> DEFINE v == (2 * u) * w
  <2>1. v \in Nat /\ v > 0 /\ 2^e = v
    <3>1. u * w > 0 /\ u * w \in Nat /\ (2 * u) * w = 2 * (u * w)
      BY <1>1
    <3> QED BY <1>1, <3>1
  <2> HIDE DEF v
  <2>2. a = v * (a \div v) + (a % v) /\ a \div v \in Nat /\ a % v \in Nat
    BY <2>1, DivRem
  <2> QED BY <2>1, <2>2 DEF v
<1> HIDE DEF w, u, g, d
<1>3. d = w * (d \div w) + (d % w) /\ d \div w \in Nat /\ d % w \in 0 .. w - 1
  BY <1>1, <1>2, DivRem
<1> DEFINE s == d \div w
           x == d % w
           z == 2 * (u * g) + s
<1>4. s \in Nat /\ x \in 0 .. w - 1 /\ d = w * s + x /\ u * g \in Nat /\ z \in Nat
  BY <1>1, <1>2, <1>3
<1> HIDE DEF s, x
<1>5. a = w * z + x
  <2>1. w * (2 * (u * g) + s) = ((2 * u) * w) * g + w * s
    BY <1>1, <1>2, <1>4
  <2>2. ((2 * u) * w) * g \in Nat /\ w * s \in Nat
    BY <1>1, <1>2, <1>4
  <2> QED BY <1>2, <1>4, <2>1, <2>2
<1>6. a \div w = z
  <2> HIDE DEF z
  <2> QED BY <1>1, <1>4, <1>5, DivUnique
<1>7. z % 2 = s % 2
  <2> DEFINE y == u * g
  <2>1. y \in Int /\ z = s + y * 2
    BY <1>4
  <2> HIDE DEF y, z
  <2> QED BY <1>4, <2>1, ModShift
<1> QED BY <1>6, <1>7 DEF Bit, w, s, d

\* A tuple is the concatenation of two when its entries are theirs.
LEMMA Concatenation ==
  ASSUME NEW S, NEW s \in Seq(S), NEW t \in Seq(S), NEW u \in Seq(S), Len(u) = Len(s) + Len(t),
         \A i \in 1 .. Len(s) : u[i] = s[i], \A i \in 1 .. Len(t) : u[Len(s) + i] = t[i]
  PROVE  s \o t = u
<1>1. /\ s \o t \in Seq(S) /\ Len(s \o t) = Len(s) + Len(t)
      /\ \A i \in 1 .. Len(s) + Len(t) :
           (s \o t)[i] = IF i <= Len(s) THEN s[i] ELSE t[i - Len(s)]
  BY ConcatProperties
<1> DEFINE v == s \o t
           m == Len(s)
           n == Len(t)
<1>2. m \in Nat /\ n \in Nat
  OBVIOUS
<1>3. v \in Seq(S) /\ Len(v) = Len(u)
  BY <1>1
<1>4. ASSUME NEW i \in 1 .. m + n PROVE v[i] = u[i]
  <2>1. v[i] = IF i <= m THEN s[i] ELSE t[i - m]
    BY <1>1
  <2>2. CASE i <= m
    BY <2>1, <2>2
  <2>3. CASE ~(i <= m)
    <3>1. i - m \in 1 .. n /\ m + (i - m) = i
      BY <1>2, <2>3
    <3> QED BY <2>1, <2>3, <3>1
  <2> QED BY <2>2, <2>3
<1> HIDE DEF v
<1> QED BY <1>3, <1>4, SeqEqual DEF v

\* Tuples one after the other.
LEMMA Join12 ==
  ASSUME NEW a, NEW b, NEW c
  PROVE  <<a>> \o <<b, c>> = <<a, b, c>>
<1> DEFINE S == {a, b, c}
           s == <<a>>
           t == <<b, c>>
           u == <<a, b, c>>
<1>1. a \in S /\ b \in S /\ c \in S
  OBVIOUS
<1> HIDE DEF S
<1>2. /\ s \in Seq(S) /\ t \in Seq(S) /\ u \in Seq(S)
      /\ Len(s) = 1 /\ Len(t) = 2 /\ Len(u) = 3
  BY <1>1
<1>3. u[1] = s[1] /\ u[2] = t[1] /\ u[3] = t[2]
  OBVIOUS
<1> HIDE DEF s, t, u
<1>4. /\ Len(u) = Len(s) + Len(t)
      /\ \A i \in 1 .. Len(s) : u[i] = s[i]
      /\ \A i \in 1 .. Len(t) : u[Len(s) + i] = t[i]
  BY <1>2, <1>3
<1>5. s \o t = u
  BY <1>2, <1>4, Concatenation
<1> QED BY <1>5 DEF s, t, u

\* The same of 2 and 2 entries.
LEMMA Join22 ==
  ASSUME NEW a, NEW b, NEW c, NEW d
  PROVE  <<a, b>> \o <<c, d>> = <<a, b, c, d>>
<1> DEFINE S == {a, b, c, d}
           s == <<a, b>>
           t == <<c, d>>
           u == <<a, b, c, d>>
<1>1. a \in S /\ b \in S /\ c \in S /\ d \in S
  OBVIOUS
<1> HIDE DEF S
<1>2. /\ s \in Seq(S) /\ t \in Seq(S) /\ u \in Seq(S)
      /\ Len(s) = 2 /\ Len(t) = 2 /\ Len(u) = 4
  BY <1>1
<1>3. u[1] = s[1] /\ u[2] = s[2] /\ u[3] = t[1] /\ u[4] = t[2]
  OBVIOUS
<1> HIDE DEF s, t, u
<1>4. /\ Len(u) = Len(s) + Len(t)
      /\ \A i \in 1 .. Len(s) : u[i] = s[i]
      /\ \A i \in 1 .. Len(t) : u[Len(s) + i] = t[i]
  BY <1>2, <1>3
<1>5. s \o t = u
  BY <1>2, <1>4, Concatenation
<1> QED BY <1>5 DEF s, t, u

\* The same of 3 and 2 entries.
LEMMA Join32 ==
  ASSUME NEW a, NEW b, NEW c, NEW d, NEW e
  PROVE  <<a, b, c>> \o <<d, e>> = <<a, b, c, d, e>>
<1> DEFINE S == {a, b, c, d, e}
           s == <<a, b, c>>
           t == <<d, e>>
           u == <<a, b, c, d, e>>
<1>1. a \in S /\ b \in S /\ c \in S /\ d \in S /\ e \in S
  OBVIOUS
<1> HIDE DEF S
<1>2. /\ s \in Seq(S) /\ t \in Seq(S) /\ u \in Seq(S)
      /\ Len(s) = 3 /\ Len(t) = 2 /\ Len(u) = 5
  BY <1>1
<1>3. u[1] = s[1] /\ u[2] = s[2] /\ u[3] = s[3] /\ u[4] = t[1] /\ u[5] = t[2]
  OBVIOUS
<1> HIDE DEF s, t, u
<1>4. /\ Len(u) = Len(s) + Len(t)
      /\ \A i \in 1 .. Len(s) : u[i] = s[i]
      /\ \A i \in 1 .. Len(t) : u[Len(s) + i] = t[i]
  BY <1>2, <1>3
<1>5. s \o t = u
  BY <1>2, <1>4, Concatenation
<1> QED BY <1>5 DEF s, t, u

\* The same of 5 and 2 entries.
LEMMA Join52 ==
  ASSUME NEW a, NEW b, NEW c, NEW d, NEW e, NEW f, NEW g
  PROVE  <<a, b, c, d, e>> \o <<f, g>> = <<a, b, c, d, e, f, g>>
<1> DEFINE S == {a, b, c, d, e, f, g}
           s == <<a, b, c, d, e>>
           t == <<f, g>>
           u == <<a, b, c, d, e, f, g>>
<1>1. a \in S /\ b \in S /\ c \in S /\ d \in S /\ e \in S /\ f \in S /\ g \in S
  OBVIOUS
<1> HIDE DEF S
<1>2. /\ s \in Seq(S) /\ t \in Seq(S) /\ u \in Seq(S)
      /\ Len(s) = 5 /\ Len(t) = 2 /\ Len(u) = 7
  BY <1>1
<1>3. /\ u[1] = s[1] /\ u[2] = s[2] /\ u[3] = s[3] /\ u[4] = s[4] /\ u[5] = s[5]
      /\ u[6] = t[1] /\ u[7] = t[2]
  OBVIOUS
<1> HIDE DEF s, t, u
<1>4. /\ Len(u) = Len(s) + Len(t)
      /\ \A i \in 1 .. Len(s) : u[i] = s[i]
      /\ \A i \in 1 .. Len(t) : u[Len(s) + i] = t[i]
  BY <1>2, <1>3
<1>5. s \o t = u
  BY <1>2, <1>4, Concatenation
<1> QED BY <1>5 DEF s, t, u

\* The same of 3 and 4 entries.
LEMMA Join34 ==
  ASSUME NEW a, NEW b, NEW c, NEW d, NEW e, NEW f, NEW g
  PROVE  <<a, b, c>> \o <<d, e, f, g>> = <<a, b, c, d, e, f, g>>
<1> DEFINE S == {a, b, c, d, e, f, g}
           s == <<a, b, c>>
           t == <<d, e, f, g>>
           u == <<a, b, c, d, e, f, g>>
<1>1. a \in S /\ b \in S /\ c \in S /\ d \in S /\ e \in S /\ f \in S /\ g \in S
  OBVIOUS
<1> HIDE DEF S
<1>2. /\ s \in Seq(S) /\ t \in Seq(S) /\ u \in Seq(S)
      /\ Len(s) = 3 /\ Len(t) = 4 /\ Len(u) = 7
  BY <1>1
<1>3. /\ u[1] = s[1] /\ u[2] = s[2] /\ u[3] = s[3]
      /\ u[4] = t[1] /\ u[5] = t[2] /\ u[6] = t[3] /\ u[7] = t[4]
  OBVIOUS
<1> HIDE DEF s, t, u
<1>4. /\ Len(u) = Len(s) + Len(t)
      /\ \A i \in 1 .. Len(s) : u[i] = s[i]
      /\ \A i \in 1 .. Len(t) : u[Len(s) + i] = t[i]
  BY <1>2, <1>3
<1>5. s \o t = u
  BY <1>2, <1>4, Concatenation
<1> QED BY <1>5 DEF s, t, u

-----------------------------------------------------------------------------
(* Points up to their sign                                                 *)

\* A basis of order 2^e, as the ladders are given it.
LEMMA BaseLevel ==
  ASSUME NEW e, IsTorsionExponent(e)
  PROVE  Base(e).P = At(e, 1, 0) /\ Base(e).PmQ = At(e, 0, 1) /\ Base(e).Q = At(e, 1, -1)
<1>1. IsTorsionExponent(F) /\ <<1, 0>> \in Point /\ <<0, 1>> \in Point
  BY PowF, ConstantPoints DEF IsTorsionExponent
<1>2. <<1, 0>> = At(F, 1, 0) /\ <<0, 1>> = At(F, 0, 1)
  BY <1>1, AtTop
<1>3. Sub(<<1, 0>>, <<0, 1>>) = At(F, 1, -1)
  <2>1. \A m, n \in Int : Combine(m, At(F, 1, 0), n, At(F, 0, 1)) = At(F, m * 1 + n * 0, m * 0 + n * 1)
    BY <1>1, AtCombine
  <2>2. 1 * 1 + -1 * 0 = 1 /\ 1 * 0 + -1 * 1 = -1
    OBVIOUS
  <2>3. Combine(1, At(F, 1, 0), -1, At(F, 0, 1)) = At(F, 1 * 1 + -1 * 0, 1 * 0 + -1 * 1)
    BY <2>1
  <2> QED BY <1>2, <2>2, <2>3 DEF Sub
<1>4. F - e \in Nat /\ F - e <= F /\ F - (F - e) = e
  BY PowF DEF IsTorsionExponent
<1>5. \A x, y \in Int : DoubleN(F - e, At(F, x, y)) = At(F - (F - e), x, y)
  BY <1>1, <1>4, AtDouble
<1>6. /\ DoubleN(F - e, <<1, 0>>) = At(e, 1, 0) /\ DoubleN(F - e, <<0, 1>>) = At(e, 0, 1)
      /\ DoubleN(F - e, Sub(<<1, 0>>, <<0, 1>>)) = At(e, 1, -1)
  BY <1>2, <1>3, <1>4, <1>5
<1> QED BY <1>6 DEF Base, MapBasis, FromPropagated

\* Multiples and combinations of the points of that basis that generate.
LEMMA CombineBase ==
  ASSUME NEW t, IsTorsionExponent(t), NEW m \in Int, NEW n \in Int
  PROVE  Combine(m, At(t, 1, 0), n, At(t, 0, 1)) = At(t, m, n) /\ Times(m, At(t, 1, 0)) = At(t, m, 0)
<1>1. \A x, y, u, v \in Int :
         Combine(m, At(t, x, y), n, At(t, u, v)) = At(t, m * x + n * u, m * y + n * v)
  BY AtCombine
<1>2. Combine(m, At(t, 1, 0), n, At(t, 0, 1)) = At(t, m * 1 + n * 0, m * 0 + n * 1)
  BY <1>1
<1>3. \A x, y \in Int : Times(m, At(t, x, y)) = At(t, m * x, m * y)
  BY AtTimes
<1>4. Times(m, At(t, 1, 0)) = At(t, m * 1, m * 0)
  BY <1>3
<1>5. m * 1 + n * 0 = m /\ m * 0 + n * 1 = n /\ m * 1 = m /\ m * 0 = 0
  OBVIOUS
<1> QED BY <1>2, <1>4, <1>5

\* The point with these coordinates in the basis of order 2^t, up to sign.
X(t, x, y) == XOnly(At(t, x, y))

\* Both points.
LEMMA XBoth ==
  ASSUME NEW t, IsTorsionExponent(t), NEW x \in Int, NEW y \in Int
  PROVE  X(t, x, y) = {At(t, x, y), At(t, -x, -y)}
<1>1. Times(-1, At(t, x, y)) = At(t, (-1) * x, (-1) * y)
  <2>1. \A m \in Int : Times(m, At(t, x, y)) = At(t, m * x, m * y)
    BY AtTimes
  <2> QED BY <2>1
<1>2. (-1) * x = -x /\ (-1) * y = -y
  OBVIOUS
<1> QED BY <1>1, <1>2 DEF X, XOnly

\* The sign does not matter.
LEMMA XNegated ==
  ASSUME NEW t, IsTorsionExponent(t), NEW x \in Int, NEW y \in Int
  PROVE  X(t, -x, -y) = X(t, x, y)
<1>1. X(t, x, y) = {At(t, x, y), At(t, -x, -y)}
  BY XBoth
<1>2. -(-x) = x /\ -(-y) = y /\ -x \in Int /\ -y \in Int
  OBVIOUS
<1>3. X(t, -x, -y) = {At(t, -x, -y), At(t, -(-x), -(-y))}
  BY <1>2, XBoth
<1> QED BY <1>1, <1>2, <1>3

\* Both coordinates negated give the same points.
LEMMA XOpposite ==
  ASSUME NEW t, IsTorsionExponent(t), NEW x \in Int, NEW y \in Int, NEW u \in Int, NEW v \in Int,
         x + u = 0, y + v = 0
  PROVE  X(t, u, v) = X(t, x, y)
<1>1. u = -x /\ v = -y
  OBVIOUS
<1> QED BY <1>1, XNegated

\* What a register may hold.
Known == {XOnly(p) : p \in Point}

\* A register may hold any combination of the basis.
LEMMA XKnown ==
  ASSUME NEW t, IsTorsionExponent(t), NEW x \in Int, NEW y \in Int
  PROVE  X(t, x, y) \in Known
BY AtType DEF X, Known

\* A register that holds something holds points.
LEMMA KnownPoints ==
  ASSUME NEW x \in Known
  PROVE  x \subseteq Point /\ x # NoPoint
<1>1. PICK p \in Point : x = XOnly(p)
  BY DEF Known
<1>2. -1 \in Int
  OBVIOUS
<1>3. Times(-1, p) \in Point
  BY <1>2, TimesType
<1> QED BY <1>1, <1>3 DEF XOnly, NoPoint

\* Two or three of them are registers.
LEMMA KnownRegisters ==
  /\ \A a, b \in Known : <<a, b>> \in Seq(Known)
  /\ \A a, b, c \in Known : <<a, b, c>> \in Seq(Known)
<1>1. ASSUME NEW S PROVE /\ \A a, b \in S : <<a, b>> \in Seq(S)
                         /\ \A a, b, c \in S : <<a, b, c>> \in Seq(S)
  OBVIOUS
<1> QED BY <1>1

\* Doubling doubles the coordinates.
LEMMA XDouble ==
  ASSUME NEW t, IsTorsionExponent(t), NEW x \in Int, NEW y \in Int
  PROVE  Double(X(t, x, y)) = X(t, 2 * x, 2 * y)
<1>1. 2^1 = 2
  <2>1. 0 + 1 = 1 /\ 2^(0 + 1) = 2 * 2^0
    BY Pow2Succ
  <2> QED BY <2>1, Pow2Zero
<1>2. ASSUME NEW u \in Int, NEW v \in Int
      PROVE  DoubleN(1, At(t, u, v)) = At(t, 2 * u, 2 * v)
  <2>1. \A m \in Int : Times(m, At(t, u, v)) = At(t, m * u, m * v)
    BY AtTimes
  <2> QED BY <1>1, <2>1 DEF DoubleN
<1>3. X(t, x, y) = {At(t, x, y), At(t, -x, -y)}
  BY XBoth
<1>4. X(t, 2 * x, 2 * y) = {At(t, 2 * x, 2 * y), At(t, -(2 * x), -(2 * y))}
  BY XBoth
<1>5. 2 * (-x) = -(2 * x) /\ 2 * (-y) = -(2 * y) /\ -x \in Int /\ -y \in Int
  OBVIOUS
<1>6. DoubleN(1, At(t, -x, -y)) = At(t, -(2 * x), -(2 * y))
  BY <1>2, <1>5
<1>7. DoubleN(1, At(t, x, y)) = At(t, 2 * x, 2 * y)
  BY <1>2
<1> QED BY <1>3, <1>4, <1>6, <1>7 DEF Double

Sums(a, b) == {XOnly(Combine(1, p, 1, w)) : p \in a, w \in b}

\* The two sums that two points have when their signs are lost.
LEMMA XSums ==
  ASSUME NEW t, IsTorsionExponent(t), NEW x \in Int, NEW y \in Int, NEW u \in Int, NEW v \in Int
  PROVE  Sums(X(t, x, y), X(t, u, v)) = {X(t, x + u, y + v), X(t, x - u, y - v)}
<1>1. X(t, x, y) = {At(t, x, y), At(t, -x, -y)} /\ X(t, u, v) = {At(t, u, v), At(t, -u, -v)}
  BY XBoth
<1>2. ASSUME NEW a \in Int, NEW b \in Int, NEW c \in Int, NEW d \in Int
      PROVE  XOnly(Combine(1, At(t, a, b), 1, At(t, c, d))) = X(t, a + c, b + d)
  <2>1. \A m, n \in Int : Combine(m, At(t, a, b), n, At(t, c, d)) = At(t, m * a + n * c, m * b + n * d)
    BY AtCombine
  <2>2. 1 * a + 1 * c = a + c /\ 1 * b + 1 * d = b + d
    OBVIOUS
  <2>3. Combine(1, At(t, a, b), 1, At(t, c, d)) = At(t, 1 * a + 1 * c, 1 * b + 1 * d)
    BY <2>1
  <2> QED BY <2>2, <2>3 DEF X
<1>3. -x \in Int /\ -y \in Int /\ -u \in Int /\ -v \in Int
  OBVIOUS
<1>4. XOnly(Combine(1, At(t, x, y), 1, At(t, u, v))) = X(t, x + u, y + v)
  BY <1>2
<1>5. XOnly(Combine(1, At(t, -x, -y), 1, At(t, -u, -v))) = X(t, x + u, y + v)
  <2>1. -x + -u = -(x + u) /\ -y + -v = -(y + v) /\ x + u \in Int /\ y + v \in Int
    OBVIOUS
  <2>2. X(t, -(x + u), -(y + v)) = X(t, x + u, y + v)
    BY <2>1, XNegated
  <2>3. XOnly(Combine(1, At(t, -x, -y), 1, At(t, -u, -v))) = X(t, -x + -u, -y + -v)
    BY <1>2, <1>3
  <2> QED BY <2>1, <2>2, <2>3
<1>6. XOnly(Combine(1, At(t, x, y), 1, At(t, -u, -v))) = X(t, x - u, y - v)
  <2>1. x + -u = x - u /\ y + -v = y - v
    OBVIOUS
  <2>2. XOnly(Combine(1, At(t, x, y), 1, At(t, -u, -v))) = X(t, x + -u, y + -v)
    BY <1>2, <1>3
  <2> QED BY <2>1, <2>2
<1>7. XOnly(Combine(1, At(t, -x, -y), 1, At(t, u, v))) = X(t, x - u, y - v)
  <2>1. -x + u = -(x - u) /\ -y + v = -(y - v) /\ x - u \in Int /\ y - v \in Int
    OBVIOUS
  <2>2. X(t, -(x - u), -(y - v)) = X(t, x - u, y - v)
    BY <2>1, XNegated
  <2>3. XOnly(Combine(1, At(t, -x, -y), 1, At(t, u, v))) = X(t, -x + u, -y + v)
    BY <1>2, <1>3
  <2> QED BY <2>1, <2>2, <2>3
<1> DEFINE p1 == At(t, x, y)
           p2 == At(t, -x, -y)
           w1 == At(t, u, v)
           w2 == At(t, -u, -v)
           plus == X(t, x + u, y + v)
           less == X(t, x - u, y - v)
<1>8. /\ X(t, x, y) = {p1, p2} /\ X(t, u, v) = {w1, w2}
      /\ XOnly(Combine(1, p1, 1, w1)) = plus /\ XOnly(Combine(1, p2, 1, w2)) = plus
      /\ XOnly(Combine(1, p1, 1, w2)) = less /\ XOnly(Combine(1, p2, 1, w1)) = less
  BY <1>1, <1>4, <1>5, <1>6, <1>7
<1> HIDE DEF p1, p2, w1, w2, plus, less
<1>9. {XOnly(Combine(1, p, 1, w)) : p \in {p1, p2}, w \in {w1, w2}} = {plus, less}
  BY <1>8
<1> QED BY <1>8, <1>9 DEF Sums, plus, less

\* A difference that differential addition can take.
Usable(t, x, y) == X(t, x, y) \notin ZeroCoordinate

\* A point of order 4 or more is not among those with a zero coordinate.
LEMMA OddUsable ==
  ASSUME NEW t, IsTorsionExponent(t), t > 1, NEW x \in Int, NEW y \in Int, x % 2 = 1 \/ y % 2 = 1
  PROVE  Usable(t, x, y)
<1> DEFINE p == At(t, x, y)
<1>1. DoubleN(1, p) # O
  <2>1. t \in Nat /\ 1 <= t /\ t - 1 \in Nat /\ IsTorsionExponent(t - 1)
    BY PowF DEF IsTorsionExponent
  <2>2. \A n \in Nat : n <= t => DoubleN(n, At(t, x, y)) = At(t - n, x, y)
    BY AtDouble
  <2>3. DoubleN(1, p) = At(t - 1, x, y)
    BY <2>1, <2>2
  <2> DEFINE s == t - 1
  <2>4. s \in Nat /\ IsTorsionExponent(s) /\ s - 1 \in Nat /\ s - 1 <= s /\ s - (s - 1) = 1
    BY <2>1
  <2> HIDE DEF s
  <2>5. DoubleN(s - 1, At(s, x, y)) = At(s - (s - 1), x, y)
    BY <2>4, AtDouble
  <2>6. DoubleN(s - 1, O) = O
    <3>1. DoubleN(s - 1, At(s, 0, 0)) = At(s - (s - 1), 0, 0)
      BY <2>4, AtDouble
    <3>2. IsTorsionExponent(1)
      BY PowF DEF IsTorsionExponent
    <3> QED BY <2>4, <3>1, <3>2, AtZero
  <2>7. At(s, x, y) # O
    <3> SUFFICES ASSUME At(s, x, y) = O PROVE FALSE
      OBVIOUS
    <3>1. At(1, x, y) = O
      BY <2>4, <2>5, <2>6
    <3> QED BY <3>1, AtOne
  <2> QED BY <2>3, <2>7 DEF s
<1>2. ASSUME NEW z \in Point, DoubleN(1, z) = O
      PROVE  X(t, x, y) # XOnly(z)
  <2>1. p \in X(t, x, y)
    BY DEF X, XOnly
  <2>2. DoubleN(1, Times(-1, z)) = O
    <3>1. z = At(F, z[1], z[2]) /\ z[1] \in Int /\ z[2] \in Int /\ IsTorsionExponent(F)
      BY AtTop, PowF DEF IsTorsionExponent
    <3> DEFINE a == z[1]
               b == z[2]
    <3>2. a \in Int /\ b \in Int /\ z = At(F, a, b)
      BY <3>1
    <3> HIDE DEF a, b
    <3>3. \A m \in Int : Times(m, At(F, a, b)) = At(F, m * a, m * b)
      BY <3>1, <3>2, AtTimes
    <3>4. Times(-1, z) = At(F, -a, -b)
      <4>1. (-1) * a = -a /\ (-1) * b = -b
        BY <3>2
      <4>2. Times(-1, At(F, a, b)) = At(F, (-1) * a, (-1) * b)
        BY <3>3
      <4> QED BY <3>2, <4>1, <4>2
    <3>5. IsTorsionExponent(F - 1) /\ 1 \in Nat /\ 1 <= F /\ -a \in Int /\ -b \in Int
      BY <3>2, PowF, FAssumption DEF IsTorsionExponent
    <3>6. DoubleN(1, At(F, a, b)) = At(F - 1, a, b) /\ DoubleN(1, At(F, -a, -b)) = At(F - 1, -a, -b)
      BY <3>1, <3>2, <3>5, AtDouble
    <3>7. At(F - 1, -a, -b) = O
      <4>1. At(F - 1, a, b) = O
        BY <1>2, <3>2, <3>6
      <4>2. Times(-1, At(F - 1, a, b)) = At(F - 1, (-1) * a, (-1) * b)
        BY <3>2, <3>5, AtTimes
      <4>3. Times(-1, At(F - 1, 0, 0)) = At(F - 1, (-1) * 0, (-1) * 0)
        BY <3>5, AtTimes
      <4>4. (-1) * a = -a /\ (-1) * b = -b /\ (-1) * 0 = 0
        BY <3>2
      <4> QED BY <3>5, <4>1, <4>2, <4>3, <4>4, AtZero
    <3> QED BY <3>4, <3>6, <3>7
  <2> QED BY <1>1, <1>2, <2>1, <2>2 DEF XOnly
<1>3. \A z \in {O, DoubleN(F - 1, Base(F).PmQ), DoubleN(F - 1, Base(F).Q)} :
         z \in Point /\ DoubleN(1, z) = O
  <2>1. /\ IsTorsionExponent(F) /\ F - 1 \in Nat /\ F - 1 <= F /\ F - (F - 1) = 1
        /\ IsTorsionExponent(1) /\ 1 \in Nat /\ 1 <= 1 /\ 1 - 1 = 0
    BY PowF, FAssumption DEF IsTorsionExponent
  <2>2. ASSUME NEW a \in Int, NEW b \in Int
        PROVE  At(1, a, b) \in Point /\ DoubleN(1, At(1, a, b)) = O
    <3>1. DoubleN(1, At(1, a, b)) = At(1 - 1, a, b)
      BY <2>1, AtDouble
    <3> QED BY <2>1, <3>1, AtType, AtBottom
  <2>3. O = At(1, 0, 0)
    BY <2>1, AtZero
  <2>4. \A a, b \in Int : DoubleN(F - 1, At(F, a, b)) = At(F - (F - 1), a, b)
    BY <2>1, AtDouble
  <2>5. DoubleN(F - 1, Base(F).PmQ) = At(1, 0, 1) /\ DoubleN(F - 1, Base(F).Q) = At(1, 1, -1)
    BY <2>1, <2>4, BaseLevel
  <2>6. 0 \in Int /\ 1 \in Int /\ -1 \in Int
    OBVIOUS
  <2> QED BY <2>2, <2>3, <2>5, <2>6
<1> QED BY <1>2, <1>3 DEF Usable, ZeroCoordinate

\* Differential addition adds, given the difference and not the sum.
LEMMA AddExact ==
  ASSUME NEW t, IsTorsionExponent(t), NEW x \in Int, NEW y \in Int, NEW u \in Int, NEW v \in Int,
         Usable(t, x - u, y - v)
  PROVE  DifferentialAdd(X(t, x, y), X(t, u, v), X(t, x - u, y - v)) = X(t, x + u, y + v)
<1> DEFINE less == X(t, x - u, y - v)
           plus == X(t, x + u, y + v)
           sums == Sums(X(t, x, y), X(t, u, v))
<1>1. sums = {plus, less}
  BY XSums
<1>2. less \notin ZeroCoordinate
  BY DEF Usable
<1>3. DifferentialAdd(X(t, x, y), X(t, u, v), less)
        = IF less \notin sums \/ less \in ZeroCoordinate THEN NoPoint
          ELSE IF sums = {less} THEN less ELSE CHOOSE s \in sums \ {less} : TRUE
  BY DEF DifferentialAdd, Sums
<1> HIDE DEF less, plus, sums
<1>4. CASE plus = less
  BY <1>1, <1>2, <1>3, <1>4 DEF less, plus
<1>5. CASE plus # less
  <2>1. sums \ {less} = {plus} /\ sums # {less}
    BY <1>1, <1>5
  <2>2. (CHOOSE s \in {plus} : TRUE) = plus
    OBVIOUS
  <2> QED BY <1>1, <1>2, <1>3, <2>1, <2>2 DEF less, plus
<1> QED BY <1>4, <1>5

-----------------------------------------------------------------------------
(* The registers                                                           *)

\* The ladder of one scalar after i bits: what they make, and one more, in
\* an order the last bit says.
Top(i) == job.m \div 2^(Width - i)

ScalarInv ==
    lpc = "scalar" =>
        /\ job.op = "scalar" /\ step \in 0 .. Width
        /\ reg = Swapped(ScalarBit(step - 1), <<X(F, Top(step), 0), X(F, Top(step) + 1, 0)>>)

\* The three-point ladder after i bits: 2^i times the increment, the sum as
\* far as the bits go, and their difference.
Low(i) == job.m % 2^i

ThreePoint(c, w) == <<X(F, 0, w), X(F, 1, c), X(F, 1, c - w)>>

ThreePointInv ==
    lpc = "ladder" =>
        /\ job.op = "ladder" /\ step \in 0 .. Width
        /\ reg = ThreePoint(Low(step), 2^step)

\* The scalars of biscalar_mul, made odd, and what is above their first bits.
MadeOdd(c) == SubOne(IF c = 0 THEN job.m ELSE job.n)
Prefix(c, i) == (MadeOdd(c) % 2^job.e) \div 2^i

\* A digit says whether the bit above differs.
Change(c, i) == (Prefix(c, i) + Prefix(c, i + 1)) % 2

FirstSigma == IF OneIsEven = 1 THEN 1 - Parities[1] ELSE 0

\* s is the scalar that comes first at each bit, as the digits have recorded.
Recoded(s, digits) ==
    /\ s \in [0 .. F -> 0 .. 1] /\ s[0] = FirstSigma
    /\ Len(digits) <= job.e
    /\ \A i \in 0 .. Len(digits) - 1 :
         /\ digits[i + 1] = <<Change(s[i], i), Change(1 - s[i], i)>>
         /\ s[i + 1] = (s[i] + Change(1 - s[i], i)) % 2

TwoScalars == job.op = "biscalar" /\ job.e > 1

RecodeInv ==
    lpc = "recode" =>
        /\ TwoScalars /\ step \in 0 .. job.e /\ reg = << >> /\ Len(rec.digits) = step
        /\ \E s \in [0 .. F -> 0 .. 1] :
             /\ Recoded(s, rec.digits)
             /\ rec.sigma = <<s[step], 1 - s[step]>>
             /\ rec.pre = IF step = 0 THEN 0 ELSE s[step - 1]
             /\ step < job.e =>
                  rec.scalar = Swapped(rec.pre, <<MadeOdd(0) \div 2^step, MadeOdd(1) \div 2^step>>)

\* The even and the odd one of a prefix and the next number.
EvenOne(a) == a + (a % 2)
OddOne(a) == a + 1 - (a % 2)

\* Around the prefixes a and b: the even pair, the mixed one whose odd number
\* comes first, and the odd pair; the differences between neighbours, and
\* that between the first and the last.
Around(e, s, a, b) ==
    <<X(e, EvenOne(a), EvenOne(b)),
      IF s = 0 THEN X(e, OddOne(a), EvenOne(b)) ELSE X(e, EvenOne(a), OddOne(b)),
      X(e, OddOne(a), OddOne(b))>>
    \o Swapped(s, <<X(e, 1, 0), X(e, 0, 1)>>)
    \o Swapped((a + b) % 2, <<X(e, 1, 1), X(e, 1, -1)>>)

EvaluateInv ==
    lpc = "evaluate" =>
        /\ TwoScalars /\ step \in 0 .. job.e /\ Len(rec.digits) = job.e
        /\ \E s \in [0 .. F -> 0 .. 1] :
             /\ Recoded(s, rec.digits)
             /\ reg = Around(job.e, s[step], Prefix(0, step), Prefix(1, step))

\* What was called, and what it returned.
CallInv ==
    /\ lpc = "idle" => step = 0 /\ rec = NoRecoding /\ reg = << >>
    /\ lpc # "idle" => job \in Jobs
    /\ lpc = "biscalar" => job.op = "biscalar" /\ step = 0 /\ rec = NoRecoding /\ reg = << >>
    /\ IF lpc = "returned" THEN out = XOnly(Expected) ELSE out = NoPoint

LadderTypeOK ==
    /\ lpc \in {"idle", "scalar", "ladder", "biscalar", "recode", "evaluate", "returned"}
    /\ step \in 0 .. Width /\ out \subseteq Point
    /\ reg \in Seq(Known)
    /\ \A i \in 1 .. 2 : rec.scalar[i] \in 0 .. 2^Width - 1 /\ rec.sigma[i] \in 0 .. 1

LInv == LadderTypeOK /\ CallInv /\ ScalarInv /\ ThreePointInv /\ RecodeInv /\ EvaluateInv

-----------------------------------------------------------------------------
(* What was called                                                         *)

\* The order of the points fits the width of a scalar.
LEMMA Widths ==
  /\ F \in Nat /\ F > 1 /\ Width \in Nat /\ Width > F /\ IsTorsionExponent(F)
  /\ Scalars \subseteq 0 .. 2^Width - 1 /\ Exponents \subseteq 1 .. F
  /\ 2^Width \in Nat /\ 2^Width > 1
<1>1. F \in Nat /\ F > 1 /\ Width \in Nat /\ Width > F /\ Width - 1 \in Nat
  BY FAssumption, LadderAssumption
<1>2. 2^((Width - 1) + 1) = 2 * 2^(Width - 1) /\ 2^(Width - 1) \in Nat /\ 2^(Width - 1) > 0
  BY <1>1, Pow2Succ, Pow2Positive
<1>3. (Width - 1) + 1 = Width
  BY <1>1
<1>4. 2^Width \in Nat /\ 2^Width > 1
  BY <1>2, <1>3
<1> QED BY <1>1, <1>4, LadderAssumption DEF IsTorsionExponent

\* A call's scalars fit their exponent, or the width.
LEMMA JobType ==
  ASSUME job \in Jobs
  PROVE  /\ job.op \in {"scalar", "ladder", "biscalar"}
         /\ job.e \in 1 .. F /\ IsTorsionExponent(job.e)
         /\ job.m \in 0 .. 2^Width - 1 /\ job.n \in 0 .. 2^Width - 1
         /\ job.op # "biscalar" => job.e = F
         /\ job.op = "biscalar" => job.m \in 0 .. 2^job.e - 1 /\ job.n \in 0 .. 2^job.e - 1
<1>1. CASE job \in [op : {"scalar", "ladder"}, e : {F}, m : Scalars, n : {1}]
  <2>1. job.op \in {"scalar", "ladder"} /\ job.e = F /\ job.m \in Scalars /\ job.n = 1
    BY <1>1
  <2> DEFINE w == 2^Width
  <2>2. w \in Nat /\ w > 1 /\ Scalars \subseteq 0 .. w - 1 /\ F \in 1 .. F
    BY Widths
  <2> HIDE DEF w
  <2>3. job.m \in 0 .. w - 1
    BY <2>1, <2>2
  <2>4. 1 \in 0 .. w - 1
    BY <2>2
  <2> QED BY <2>1, <2>2, <2>3, <2>4, Widths DEF w
<1>2. CASE \E e \in Exponents : job \in [op : {"biscalar"}, e : {e}, m : {s % 2^e : s \in Scalars},
                                         n : {s % 2^e : s \in Scalars}]
  <2>1. PICK e \in Exponents :
          job \in [op : {"biscalar"}, e : {e}, m : {s % 2^e : s \in Scalars},
                   n : {s % 2^e : s \in Scalars}]
    BY <1>2
  <2>2. job.op = "biscalar" /\ job.e = e /\ e \in 1 .. F
    BY <2>1, Widths
  <2>3. 2^e \in Nat /\ 2^e >= 1 /\ 2^e <= 2^Width
    BY <2>2, Widths, Pow2Positive, Pow2Monotone
  <2>4. PICK s \in Scalars, z \in Scalars : job.m = s % 2^e /\ job.n = z % 2^e
    BY <2>1
  <2> DEFINE w == 2^e
  <2>5. s \in Nat /\ z \in Nat /\ w \in Nat /\ w >= 1 /\ w <= 2^Width
    BY <2>3, Widths
  <2>6. job.m = s % w /\ job.n = z % w /\ 2^job.e = w
    BY <2>2, <2>4
  <2> HIDE DEF w
  <2>7. job.m \in 0 .. w - 1 /\ job.n \in 0 .. w - 1
    BY <2>5, <2>6
  <2>8. job.m \in 0 .. 2^Width - 1 /\ job.n \in 0 .. 2^Width - 1
    BY <2>5, <2>7, Widths
  <2> QED BY <2>2, <2>6, <2>7, <2>8, Widths DEF IsTorsionExponent
<1> QED BY <1>1, <1>2 DEF Jobs

\* A bit is 0 or 1.
LEMMA ScalarBitType ==
  ASSUME job \in Jobs, NEW i \in Int, i < Width
  PROVE  ScalarBit(i) \in 0 .. 1
<1>1. CASE i < 0
  BY <1>1 DEF ScalarBit
<1>2. CASE i >= 0
  <2>1. Width - 1 - i \in Nat /\ job.m \in Nat
    BY <1>2, JobType, Widths
  <2>2. Bit(job.m, Width - 1 - i) \in 0 .. 1
    BY <2>1, BitSplits
  <2>3. ~(i < 0)
    BY <1>2
  <2> QED BY <2>2, <2>3 DEF ScalarBit
<1> QED BY <1>1, <1>2

\* One bit more.
LEMMA TopStep ==
  ASSUME job \in Jobs, NEW i \in 0 .. Width - 1
  PROVE  /\ Top(i) \in Nat /\ Top(i + 1) = 2 * Top(i) + ScalarBit(i)
         /\ Low(i + 1) = Low(i) + Bit(job.m, i) * 2^i
         /\ Low(i) \in Nat /\ Bit(job.m, i) \in 0 .. 1
<1>1. Width - 1 - i \in Nat /\ job.m \in Nat /\ i \in Nat /\ ~(i < 0)
      /\ (Width - 1 - i) + 1 = Width - i /\ Width - 1 - i = Width - (i + 1)
  BY JobType, Widths
<1>2. /\ job.m \div 2^((Width - 1 - i) + 1) \in Nat
      /\ job.m \div 2^(Width - 1 - i)
           = 2 * (job.m \div 2^((Width - 1 - i) + 1)) + Bit(job.m, Width - 1 - i)
  BY <1>1, BitSplits
<1>3. Top(i) \in Nat /\ Top(i + 1) = 2 * Top(i) + ScalarBit(i)
  BY <1>1, <1>2 DEF Top, ScalarBit
<1>4. Low(i + 1) = Low(i) + Bit(job.m, i) * 2^i /\ Bit(job.m, i) \in 0 .. 1
  BY <1>1, BitSplits DEF Low
<1>5. Low(i) \in Nat
  <2>1. 2^i \in Nat /\ 2^i > 0
    BY <1>1, Pow2Positive
  <2> QED BY <1>1, <2>1 DEF Low
<1> QED BY <1>3, <1>4, <1>5

\* At the ends: nothing is left, and all of it.
LEMMA TopEnds ==
  ASSUME job \in Jobs
  PROVE  Top(0) = 0 /\ Top(Width) = job.m /\ Low(0) = 0 /\ Low(Width) = job.m
<1> DEFINE w == 2^Width
<1>1. w \in Nat /\ w > 0 /\ job.m \in 0 .. w - 1 /\ Width - 0 = Width /\ Width - Width = 0 /\ 2^0 = 1
  BY JobType, Widths, Pow2Zero
<1> HIDE DEF w
<1>2. job.m \div w = 0 /\ job.m % w = job.m
  <2>1. job.m \in Nat /\ job.m = w * 0 + job.m
    BY <1>1
  <2> QED BY <1>1, <2>1, DivUnique
<1>3. job.m \div 1 = job.m /\ job.m % 1 = 0
  BY <1>1
<1> QED BY <1>1, <1>2, <1>3 DEF Top, Low, w

\* Neighbours on the ladder, whose difference is P.
LEMMA Rung ==
  ASSUME NEW h \in Nat
  PROVE  /\ DoubleAdd(X(F, h, 0), X(F, h + 1, 0), XOnly(Base(F).P))
               = <<X(F, 2 * h, 0), X(F, 2 * h + 1, 0)>>
         /\ DoubleAdd(X(F, h + 1, 0), X(F, h, 0), XOnly(Base(F).P))
               = <<X(F, 2 * h + 2, 0), X(F, 2 * h + 1, 0)>>
<1>1. XOnly(Base(F).P) = X(F, 1, 0)
  BY Widths, BaseLevel DEF X
<1>2. Double(X(F, h, 0)) = X(F, 2 * h, 0) /\ Double(X(F, h + 1, 0)) = X(F, 2 * h + 2, 0)
  <2>1. Double(X(F, h, 0)) = X(F, 2 * h, 2 * 0) /\ Double(X(F, h + 1, 0)) = X(F, 2 * (h + 1), 2 * 0)
    BY Widths, XDouble
  <2>2. 2 * (h + 1) = 2 * h + 2 /\ 2 * 0 = 0
    OBVIOUS
  <2> QED BY <2>1, <2>2
<1>3. DifferentialAdd(X(F, h + 1, 0), X(F, h, 0), X(F, 1, 0)) = X(F, 2 * h + 1, 0)
  <2>1. (h + 1) - h = 1 /\ 0 - 0 = 0 /\ 1 % 2 = 1 /\ (h + 1) + h = 2 * h + 1 /\ 0 + 0 = 0
    OBVIOUS
  <2>2. Usable(F, (h + 1) - h, 0 - 0)
    BY <2>1, Widths, OddUsable
  <2>3. DifferentialAdd(X(F, h + 1, 0), X(F, h, 0), X(F, (h + 1) - h, 0 - 0)) = X(F, (h + 1) + h, 0 + 0)
    BY <2>2, Widths, AddExact
  <2> QED BY <2>1, <2>3
<1>4. DifferentialAdd(X(F, h, 0), X(F, h + 1, 0), X(F, 1, 0)) = X(F, 2 * h + 1, 0)
  <2>1. /\ h - (h + 1) = -1 /\ 0 - 0 = 0 /\ 1 % 2 = 1 /\ h + (h + 1) = 2 * h + 1
        /\ 0 + 0 = 0 /\ h + 1 \in Int /\ 1 + (-1) = 0
    OBVIOUS
  <2>2. Usable(F, h - (h + 1), 0 - 0)
    <3>1. Usable(F, 1, 0)
      BY <2>1, Widths, OddUsable
    <3>2. X(F, -1, 0) = X(F, 1, 0)
      BY <2>1, Widths, XOpposite
    <3> QED BY <2>1, <3>1, <3>2 DEF Usable
  <2>3. DifferentialAdd(X(F, h, 0), X(F, h + 1, 0), X(F, h - (h + 1), 0 - 0)) = X(F, h + (h + 1), 0 + 0)
    BY <2>1, <2>2, Widths, AddExact
  <2>4. X(F, -1, 0) = X(F, 1, 0)
    BY <2>1, Widths, XOpposite
  <2> QED BY <2>1, <2>3, <2>4
<1> QED BY <1>1, <1>2, <1>3, <1>4 DEF DoubleAdd

-----------------------------------------------------------------------------
(* One lemma for each step                                                 *)

\* The ladders start with registers that have used no bit.
LEMMA InitLadder == Init => LInv
<1> SUFFICES ASSUME Init PROVE LInv
  OBVIOUS
<1>1. 0 \in 0 .. Width /\ 0 \in 0 .. 2^Width - 1 /\ 0 \in 0 .. 1 /\ << >> \in Seq(Known)
  BY Widths
<1>2. CASE LadderInit
  <2>1. /\ job \in Jobs /\ lpc = job.op /\ step = 0 /\ rec = NoRecoding /\ out = NoPoint
        /\ job.op \in {"scalar", "ladder", "biscalar"} /\ IsTorsionExponent(job.e)
        /\ job.op # "biscalar" => job.e = F
    BY <1>2, JobType DEF LadderInit
  <2>2. /\ Base(job.e).P = At(job.e, 1, 0) /\ Base(job.e).PmQ = At(job.e, 0, 1)
        /\ Base(job.e).Q = At(job.e, 1, -1)
    BY <2>1, BaseLevel
  <2>3. /\ job.op = "scalar" => reg = <<XOnly(O), X(F, 1, 0)>>
        /\ job.op = "ladder" => reg = <<X(F, 0, 1), X(F, 1, 0), X(F, 1, -1)>>
        /\ job.op = "biscalar" => reg = << >>
    BY <1>2, <2>1, <2>2 DEF LadderInit, X, NoRegisters
  <2>4. XOnly(O) = X(F, 0, 0)
    BY Widths, AtZero DEF X
  <2>5. X(F, 0, 0) \in Known /\ X(F, 1, 0) \in Known /\ X(F, 0, 1) \in Known /\ X(F, 1, -1) \in Known
    BY Widths, XKnown
  <2>6. reg \in Seq(Known)
    <3>1. CASE job.op = "scalar"
      BY <2>3, <2>4, <2>5, <3>1, KnownRegisters
    <3>2. CASE job.op = "ladder"
      BY <2>3, <2>5, <3>2, KnownRegisters
    <3>3. CASE job.op = "biscalar"
      BY <2>3, <1>1, <3>3
    <3> QED BY <2>1, <3>1, <3>2, <3>3
  <2>7. LadderTypeOK
    BY <1>1, <2>1, <2>6 DEF LadderTypeOK, NoPoint, NoRecoding
  <2>8. CallInv
    BY <2>1, <2>3 DEF CallInv
  <2>9. ScalarInv
    <3> SUFFICES ASSUME lpc = "scalar"
                 PROVE  reg = Swapped(ScalarBit(-1), <<X(F, Top(0), 0), X(F, Top(0) + 1, 0)>>)
      BY <1>1, <2>1 DEF ScalarInv
    <3>1. Top(0) = 0 /\ 0 + 1 = 1
      BY <2>1, TopEnds
    <3>2. ScalarBit(-1) = 0
      BY DEF ScalarBit
    <3> QED BY <2>1, <2>3, <2>4, <3>1, <3>2 DEF Swapped
  <2>10. ThreePointInv
    <3> SUFFICES ASSUME lpc = "ladder" PROVE reg = ThreePoint(Low(0), 2^0)
      BY <1>1, <2>1 DEF ThreePointInv
    <3>1. Low(0) = 0 /\ 2^0 = 1 /\ 0 - 1 = -1
      BY <2>1, TopEnds, Pow2Zero
    <3> QED BY <2>1, <2>3, <3>1 DEF ThreePoint
  <2> QED BY <2>1, <2>7, <2>8, <2>9, <2>10 DEF LInv, RecodeInv, EvaluateInv
<1>3. CASE ~LadderInit
  <2>1. lpc = "idle" /\ step = 0 /\ rec = NoRecoding /\ reg = << >> /\ out = NoPoint
    BY <1>3 DEF Init, NoRegisters
  <2>2. LadderTypeOK
    BY <1>1, <2>1 DEF LadderTypeOK, NoPoint, NoRecoding
  <2> QED BY <2>1, <2>2 DEF LInv, CallInv, ScalarInv, ThreePointInv, RecodeInv, EvaluateInv
<1> QED BY <1>2, <1>3

\* A swap undone and done again is done when the two bits differ.
LEMMA SwapAgain ==
  ASSUME NEW a, NEW b, NEW c \in 0 .. 1, NEW d \in 0 .. 1
  PROVE  Swapped((d + c) % 2, Swapped(c, <<a, b>>)) = Swapped(d, <<a, b>>)
<1>1. (0 + 0) % 2 = 0 /\ (0 + 1) % 2 = 1 /\ (1 + 0) % 2 = 1 /\ (1 + 1) % 2 = 0
  OBVIOUS
<1>2. c \in {0, 1} /\ d \in {0, 1}
  OBVIOUS
<1> QED BY <1>1, <1>2 DEF Swapped

\* An iteration of the ladder of one scalar takes in one more bit.
LEMMA ScalarStepInv == ASSUME LInv, ScalarStep PROVE LInv'
<1> DEFINE h == Top(step)
           d == ScalarBit(step)
           c == ScalarBit(step - 1)
           x == Swapped((d + c) % 2, reg)
<1>1. /\ lpc = "scalar" /\ lpc' = "scalar" /\ step < Width /\ step' = step + 1
      /\ reg' = DoubleAdd(x[1], x[2], XOnly(Base(job.e).P))
      /\ job' = job /\ rec' = rec /\ out' = out
  BY DEF ScalarStep
<1>2. /\ job \in Jobs /\ job.op = "scalar" /\ job.e = F /\ step \in 0 .. Width - 1 /\ out = NoPoint
      /\ reg = Swapped(c, <<X(F, h, 0), X(F, h + 1, 0)>>)
  BY <1>1, JobType, Widths DEF LInv, CallInv, ScalarInv
<1>3. h \in Nat /\ Top(step + 1) = 2 * h + d
  BY <1>2, TopStep
<1>4. c \in 0 .. 1 /\ d \in 0 .. 1
  <2>1. step \in Int /\ step < Width /\ step - 1 \in Int /\ step - 1 < Width
    BY <1>2, Widths
  <2> QED BY <1>2, <2>1, ScalarBitType
<1> HIDE DEF h, c, d
<1>5. x = Swapped(d, <<X(F, h, 0), X(F, h + 1, 0)>>)
  BY <1>2, <1>4, SwapAgain
<1>6. reg' = Swapped(d, <<X(F, 2 * h + d, 0), X(F, 2 * h + d + 1, 0)>>)
  <2>1. CASE d = 0
    <3>1. x[1] = X(F, h, 0) /\ x[2] = X(F, h + 1, 0)
      BY <1>5, <2>1 DEF Swapped
    <3>2. reg' = <<X(F, 2 * h, 0), X(F, 2 * h + 1, 0)>>
      BY <1>1, <1>2, <1>3, <3>1, Rung
    <3>3. 2 * h + 0 = 2 * h
      BY <1>3
    <3> QED BY <2>1, <3>2, <3>3 DEF Swapped
  <2>2. CASE d = 1
    <3>1. x[1] = X(F, h + 1, 0) /\ x[2] = X(F, h, 0)
      BY <1>5, <2>2 DEF Swapped
    <3>2. reg' = <<X(F, 2 * h + 2, 0), X(F, 2 * h + 1, 0)>>
      BY <1>1, <1>2, <1>3, <3>1, Rung
    <3>3. 2 * h + 1 + 1 = 2 * h + 2
      BY <1>3
    <3> QED BY <2>2, <3>2, <3>3 DEF Swapped
  <2> QED BY <1>4, <2>1, <2>2
<1>7. Top(step)' = Top(step + 1) /\ ScalarBit(step - 1)' = d
  <2>1. step' = step + 1 /\ step' - 1 = step
    BY <1>1, <1>2, Widths
  <2>2. Top(step)' = job'.m \div 2^(Width - step')
    BY DEF Top
  <2>3. ScalarBit(step - 1)' = IF step' - 1 < 0 THEN 0 ELSE Bit(job'.m, Width - 1 - (step' - 1))
    BY DEF ScalarBit
  <2> QED BY <1>1, <2>1, <2>2, <2>3 DEF Top, ScalarBit, d
<1>8. reg' = Swapped(ScalarBit(step - 1)', <<X(F, Top(step)', 0), X(F, Top(step)' + 1, 0)>>)
  BY <1>3, <1>6, <1>7
<1>9. step' \in 0 .. Width
  BY <1>1, <1>2, Widths
<1>10. reg' \in Seq(Known)
  <2>1. X(F, 2 * h + d, 0) \in Known /\ X(F, 2 * h + d + 1, 0) \in Known
    BY <1>3, <1>4, Widths, XKnown
  <2> DEFINE k1 == X(F, 2 * h + d, 0)
             k2 == X(F, 2 * h + d + 1, 0)
  <2>2. k1 \in Known /\ k2 \in Known /\ reg' = Swapped(d, <<k1, k2>>)
    BY <1>6, <2>1
  <2> HIDE DEF k1, k2
  <2> QED BY <2>2 DEF Swapped
<1>11. LadderTypeOK'
  BY <1>1, <1>9, <1>10 DEF LInv, LadderTypeOK
<1>12. ScalarInv'
  BY <1>1, <1>2, <1>8, <1>9 DEF ScalarInv, X
<1> QED
  BY <1>1, <1>2, <1>11, <1>12 DEF LInv, CallInv, ThreePointInv, RecodeInv, EvaluateInv

\* After the last bit the first register is the multiple asked for.
LEMMA ScalarReturnsInv == ASSUME LInv, ScalarReturns PROVE LInv'
<1>1. /\ lpc = "scalar" /\ step = Width /\ lpc' = "returned"
      /\ out' = Swapped(ScalarBit(Width - 1), reg)[1]
      /\ job' = job /\ step' = step /\ rec' = rec /\ reg' = reg
  BY DEF ScalarReturns, Return
<1>2. /\ job \in Jobs /\ job.op = "scalar" /\ job.e = F /\ job.m \in Nat
      /\ reg = Swapped(ScalarBit(Width - 1), <<X(F, Top(Width), 0), X(F, Top(Width) + 1, 0)>>)
  BY <1>1, JobType, Widths DEF LInv, CallInv, ScalarInv
<1>3. ScalarBit(Width - 1) \in 0 .. 1
  <2>1. Width - 1 \in Int /\ Width - 1 < Width
    BY Widths
  <2> QED BY <1>2, <2>1, ScalarBitType
<1>4. out' = X(F, job.m, 0)
  <2>1. Top(Width) = job.m
    BY <1>2, TopEnds
  <2> DEFINE d == ScalarBit(Width - 1)
  <2> HIDE DEF d
  <2>2. /\ d \in {0, 1} /\ out' = Swapped(d, reg)[1]
        /\ reg = Swapped(d, <<X(F, job.m, 0), X(F, job.m + 1, 0)>>)
    BY <1>1, <1>2, <1>3, <2>1 DEF d
  <2> QED BY <2>2 DEF Swapped
<1>5. Expected = At(F, job.m, 0)
  <2>1. Times(job.m, At(F, 1, 0)) = At(F, job.m, 0)
    BY <1>2, Widths, CombineBase
  <2>2. Expected = Times(job.m, Base(F).P)
    BY <1>2 DEF Expected
  <2> QED BY <2>1, <2>2, Widths, BaseLevel
<1>6. Expected' = Expected
  BY <1>1 DEF Expected
<1>7. out' = XOnly(Expected') /\ out' \subseteq Point
  <2>1. X(F, job.m, 0) \in Known
    BY <1>2, Widths, XKnown
  <2> QED BY <1>4, <1>5, <1>6, <2>1, KnownPoints DEF X
<1>8. LadderTypeOK'
  BY <1>1, <1>7 DEF LInv, LadderTypeOK
<1> QED
  BY <1>1, <1>2, <1>7, <1>8 DEF LInv, CallInv, ScalarInv, ThreePointInv, RecodeInv, EvaluateInv

\* The two additions of the three-point ladder: with the first of the points
\* that lie an increment apart, or with the second.
LEMMA Increment ==
  ASSUME NEW c \in Int, NEW w \in Int
  PROVE  /\ Double(X(F, 0, w)) = X(F, 0, 2 * w)
         /\ DifferentialAdd(X(F, 0, w), X(F, 1, c), X(F, 1, c - w)) = X(F, 1, c + w)
         /\ DifferentialAdd(X(F, 0, w), X(F, 1, c - w), X(F, 1, c)) = X(F, 1, c - 2 * w)
<1>1. Double(X(F, 0, w)) = X(F, 0, 2 * w)
  <2>1. Double(X(F, 0, w)) = X(F, 2 * 0, 2 * w)
    BY Widths, XDouble
  <2> QED BY <2>1
<1>2. ASSUME NEW u \in Int PROVE Usable(F, 1, u) /\ Usable(F, -1, -u)
  <2>1. 1 % 2 = 1
    OBVIOUS
  <2>2. Usable(F, 1, u)
    BY <2>1, Widths, OddUsable
  <2>3. X(F, -1, -u) = X(F, 1, u)
    BY Widths, XNegated
  <2> QED BY <2>2, <2>3 DEF Usable
<1>3. DifferentialAdd(X(F, 0, w), X(F, 1, c), X(F, 1, c - w)) = X(F, 1, c + w)
  <2>1. 0 - 1 = -1 /\ w - c = -(c - w) /\ 0 + 1 = 1 /\ w + c = c + w /\ c - w \in Int
    OBVIOUS
  <2>2. Usable(F, 0 - 1, w - c)
    BY <1>2, <2>1
  <2>3. DifferentialAdd(X(F, 0, w), X(F, 1, c), X(F, 0 - 1, w - c)) = X(F, 0 + 1, w + c)
    BY <2>2, Widths, AddExact
  <2>4. X(F, -1, -(c - w)) = X(F, 1, c - w)
    BY <2>1, Widths, XNegated
  <2> QED BY <2>1, <2>3, <2>4
<1>4. DifferentialAdd(X(F, 0, w), X(F, 1, c - w), X(F, 1, c)) = X(F, 1, c - 2 * w)
  <2>1. /\ -1 \in Int /\ -(c - w) \in Int /\ c - w \in Int /\ c - 2 * w \in Int
        /\ 0 - (-1) = 1 /\ w - (-(c - w)) = c
        /\ 0 + (-1) = -1 /\ w + (-(c - w)) = -(c - 2 * w)
    OBVIOUS
  <2>2. Usable(F, 0 - (-1), w - (-(c - w)))
    BY <1>2, <2>1
  <2> DEFINE u == -(c - w)
  <2>3. u \in Int /\ Usable(F, 0 - (-1), w - u)
    BY <2>1, <2>2
  <2> HIDE DEF u
  <2>4. DifferentialAdd(X(F, 0, w), X(F, -1, u), X(F, 0 - (-1), w - u)) = X(F, 0 + (-1), w + u)
    BY <2>1, <2>3, Widths, AddExact
  <2>5. X(F, -1, u) = X(F, 1, c - w)
    BY <2>1, Widths, XNegated DEF u
  <2>6. X(F, -1, -(c - 2 * w)) = X(F, 1, c - 2 * w)
    BY <2>1, Widths, XNegated
  <2> QED BY <2>1, <2>4, <2>5, <2>6 DEF u
<1> QED BY <1>1, <1>3, <1>4

\* An iteration of the three-point ladder takes in one more bit.
LEMMA LadderStepInv == ASSUME LInv, LadderStep PROVE LInv'
<1> DEFINE c == Low(step)
           w == 2^step
           d == Bit(job.m, step)
           x == Swapped(1 - d, <<reg[2], reg[3]>>)
           added == DifferentialAdd(reg[1], x[1], x[2])
<1>1. /\ lpc = "ladder" /\ lpc' = "ladder" /\ step < Width /\ step' = step + 1
      /\ reg' = <<Double(reg[1])>> \o AfterBit(d, added, x[2])
      /\ job' = job /\ rec' = rec /\ out' = out
  BY DEF LadderStep, DoubleAdd
<1>2. /\ job \in Jobs /\ job.op = "ladder" /\ job.e = F /\ step \in 0 .. Width - 1 /\ out = NoPoint
      /\ reg = <<X(F, 0, w), X(F, 1, c), X(F, 1, c - w)>>
  BY <1>1, JobType, Widths DEF LInv, CallInv, ThreePointInv, ThreePoint
<1>3. /\ c \in Nat /\ d \in 0 .. 1 /\ Low(step + 1) = c + d * w
      /\ w \in Nat /\ 2^(step + 1) = 2 * w
  BY <1>2, TopStep, Pow2Nat, Pow2Succ
<1> HIDE DEF c, w, d
<1>4. reg' = ThreePoint(c + d * w, 2 * w)
  <2>0. reg[1] = X(F, 0, w) /\ reg[2] = X(F, 1, c) /\ reg[3] = X(F, 1, c - w)
    BY <1>2
  <2>1. CASE d = 1
    <3>1. x[1] = X(F, 1, c) /\ x[2] = X(F, 1, c - w)
      BY <2>0, <2>1 DEF Swapped
    <3>2. Double(reg[1]) = X(F, 0, 2 * w) /\ added = X(F, 1, c + w)
      <4>1. c \in Int /\ w \in Int
        BY <1>3
      <4> QED BY <2>0, <3>1, <4>1, Increment
    <3> HIDE DEF x, added
    <3>3. reg' = <<X(F, 0, 2 * w), X(F, 1, c + w), X(F, 1, c - w)>>
      BY <1>1, <2>1, <3>1, <3>2, Join12 DEF AfterBit
    <3>4. c + 1 * w = c + w /\ (c + 1 * w) - 2 * w = c - w
      BY <1>3
    <3> QED BY <2>1, <3>3, <3>4 DEF ThreePoint
  <2>2. CASE d = 0
    <3>1. x[1] = X(F, 1, c - w) /\ x[2] = X(F, 1, c)
      BY <2>0, <2>2 DEF Swapped
    <3>2. Double(reg[1]) = X(F, 0, 2 * w) /\ added = X(F, 1, c - 2 * w)
      <4>1. c \in Int /\ w \in Int
        BY <1>3
      <4> QED BY <2>0, <3>1, <4>1, Increment
    <3> HIDE DEF x, added
    <3>3. reg' = <<X(F, 0, 2 * w), X(F, 1, c), X(F, 1, c - 2 * w)>>
      BY <1>1, <2>2, <3>1, <3>2, Join12 DEF AfterBit
    <3>4. c + 0 * w = c
      BY <1>3
    <3> QED BY <2>2, <3>3, <3>4 DEF ThreePoint
  <2> QED BY <1>3, <2>1, <2>2
<1>5. Low(step)' = Low(step + 1) /\ (2^step)' = 2 * w
  BY <1>1, <1>3 DEF Low
<1>6. reg' = ThreePoint(Low(step)', (2^step)')
  BY <1>3, <1>4, <1>5
<1>7. step' \in 0 .. Width
  BY <1>1, <1>2, Widths
<1>8. reg' \in Seq(Known)
  <2> DEFINE a == c + d * w
             b == 2 * w
  <2>1. a \in Int /\ b \in Int
    <3>1. d = 0 \/ d = 1
      BY <1>3
    <3> QED BY <1>3, <3>1
  <2> HIDE DEF a, b
  <2>2. X(F, 0, b) \in Known /\ X(F, 1, a) \in Known /\ X(F, 1, a - b) \in Known
    BY <2>1, Widths, XKnown
  <2> QED BY <1>4, <2>2, KnownRegisters DEF ThreePoint, a, b
<1>9. LadderTypeOK'
  BY <1>1, <1>7, <1>8 DEF LInv, LadderTypeOK
<1>10. ThreePointInv'
  BY <1>1, <1>2, <1>6, <1>7 DEF ThreePointInv, ThreePoint, X
<1> QED
  BY <1>1, <1>2, <1>9, <1>10 DEF LInv, CallInv, ScalarInv, RecodeInv, EvaluateInv

\* After the last bit the sum has all of the scalar in it.
LEMMA LadderReturnsInv == ASSUME LInv, LadderReturns PROVE LInv'
<1>1. /\ lpc = "ladder" /\ step = Width /\ lpc' = "returned" /\ out' = reg[2]
      /\ job' = job /\ step' = step /\ rec' = rec /\ reg' = reg
  BY DEF LadderReturns, Return
<1>2. /\ job \in Jobs /\ job.op = "ladder" /\ job.e = F /\ job.m \in Nat
      /\ reg[2] = X(F, 1, Low(Width))
  BY <1>1, JobType, Widths DEF LInv, CallInv, ThreePointInv, ThreePoint
<1>3. out' = X(F, 1, job.m)
  BY <1>1, <1>2, TopEnds
<1>4. Expected = At(F, 1, job.m)
  <2>1. Combine(1, At(F, 1, 0), job.m, At(F, 0, 1)) = At(F, 1, job.m)
    BY <1>2, Widths, CombineBase
  <2>2. Expected = Combine(1, Base(F).P, job.m, Base(F).PmQ)
    BY <1>2 DEF Expected
  <2> QED BY <2>1, <2>2, Widths, BaseLevel
<1>5. Expected' = Expected
  BY <1>1 DEF Expected
<1>6. out' = XOnly(Expected') /\ out' \subseteq Point
  <2>1. X(F, 1, job.m) \in Known
    BY <1>2, Widths, XKnown
  <2> QED BY <1>3, <1>4, <1>5, <2>1, KnownPoints DEF X
<1>7. LadderTypeOK'
  BY <1>1, <1>6 DEF LInv, LadderTypeOK
<1> QED
  BY <1>1, <1>2, <1>6, <1>7 DEF LInv, CallInv, ScalarInv, ThreePointInv, RecodeInv, EvaluateInv

\* Coordinates only count modulo the order.
LEMMA XSame ==
  ASSUME NEW t, IsTorsionExponent(t), NEW x \in Int, NEW y \in Int, NEW u \in Int, NEW v \in Int,
         Congruent(x, u, t), Congruent(y, v, t)
  PROVE  X(t, x, y) = X(t, u, v)
BY AtCongruent DEF X

\* The point a ladder of two scalars is asked for.
LEMMA ExpectedPair ==
  ASSUME job \in Jobs, job.op = "biscalar"
  PROVE  XOnly(Expected) = X(job.e, job.m, job.n)
<1>1. /\ IsTorsionExponent(job.e) /\ job.m \in 0 .. 2^job.e - 1 /\ job.n \in 0 .. 2^job.e - 1
      /\ job.m \in Nat /\ job.n \in Nat
  BY JobType
<1>2. 2^job.e \in Nat
  BY <1>1, Level
<1>3. job.m % 2^job.e = job.m /\ job.n % 2^job.e = job.n
  <2> DEFINE w == 2^job.e
             m == job.m
             n == job.n
  <2>1. w \in Nat /\ m \in 0 .. w - 1 /\ n \in 0 .. w - 1 /\ m \in Nat /\ n \in Nat
    BY <1>1, <1>2
  <2> HIDE DEF w, m, n
  <2>2. m % w = m /\ n % w = n
    BY <2>1, ModSmall
  <2> QED BY <2>2 DEF w, m, n
<1>4. Expected = BiscalarMul(Base(job.e), job.m, job.n, job.e)
  BY DEF Expected
<1>5. Expected = Combine(job.m, At(job.e, 1, 0), job.n, At(job.e, 0, 1))
  BY <1>1, <1>3, <1>4, BaseLevel DEF BiscalarMul
<1>6. Combine(job.m, At(job.e, 1, 0), job.n, At(job.e, 0, 1)) = At(job.e, job.m, job.n)
  BY <1>1, CombineBase
<1> QED BY <1>5, <1>6 DEF X

\* Bit 0 is the parity.
LEMMA BitZero ==
  ASSUME NEW a \in Nat
  PROVE  Bit(a, 0) = a % 2
BY Pow2Zero DEF Bit

\* At order 2 the point is looked up.
LEMMA LookupInv == ASSUME LInv, Lookup PROVE LInv'
<1>1. /\ lpc = "biscalar" /\ job.e = 1 /\ lpc' = "returned" /\ out' = LookupPoint(Base(job.e))
      /\ job' = job /\ step' = step /\ rec' = rec /\ reg' = reg
  BY DEF Lookup, NeedsLookup, Return
<1>2. job \in Jobs /\ job.op = "biscalar"
  BY <1>1 DEF LInv, CallInv
<1>3. job.m \in 0 .. 1 /\ job.n \in 0 .. 1 /\ IsTorsionExponent(1)
  <2>1. job.m \in 0 .. 2^1 - 1 /\ job.n \in 0 .. 2^1 - 1
    BY <1>1, <1>2, JobType
  <2>2. 2^1 = 2
    BY Pow2Zero, Pow2Succ
  <2> QED BY <1>1, <1>2, <2>1, <2>2, JobType
<1>4. Bit(job.m, 0) = job.m /\ Bit(job.n, 0) = job.n
  BY <1>3, BitZero
<1>5. /\ XOnly(O) = X(1, 0, 0) /\ XOnly(Base(1).P) = X(1, 1, 0) /\ XOnly(Base(1).PmQ) = X(1, 0, 1)
      /\ XOnly(Base(1).Q) = X(1, 1, -1)
  BY <1>3, AtZero, BaseLevel DEF X
<1>6. X(1, 1, -1) = X(1, 1, 1)
  <2>1. 2^1 = 2
    BY Pow2Zero, Pow2Succ
  <2> DEFINE y == -1
  <2>2. y \in Int /\ y = 1 + y * 2
    OBVIOUS
  <2> HIDE DEF y
  <2>3. Congruent(y, 1, 1)
    BY <2>1, <2>2 DEF Congruent
  <2>4. Congruent(1, 1, 1)
    BY CongruentSelf
  <2>5. X(1, 1, y) = X(1, 1, 1)
    BY <1>3, <2>2, <2>3, <2>4, XSame
  <2> QED BY <2>5 DEF y
<1>7. out' = X(1, job.m, job.n)
  <2>1. out' = Select(job.n, Select(job.m, X(1, 0, 0), X(1, 1, 0)),
                             Select(job.m, X(1, 0, 1), X(1, 1, 1)))
    BY <1>1, <1>4, <1>5, <1>6 DEF LookupPoint
  <2>2. (job.m = 0 \/ job.m = 1) /\ (job.n = 0 \/ job.n = 1)
    BY <1>3
  <2> QED BY <2>1, <2>2 DEF Select
<1>8. XOnly(Expected) = X(1, job.m, job.n)
  BY <1>1, <1>2, ExpectedPair
<1>9. Expected' = Expected
  BY <1>1 DEF Expected
<1>10. out' = XOnly(Expected') /\ out' \subseteq Point
  <2>1. X(1, job.m, job.n) \in Known
    BY <1>3, XKnown
  <2> QED BY <1>7, <1>8, <1>9, <2>1, KnownPoints
<1>11. LadderTypeOK'
  BY <1>1, <1>10 DEF LInv, LadderTypeOK
<1> QED
  BY <1>1, <1>2, <1>10, <1>11 DEF LInv, CallInv, ScalarInv, ThreePointInv, RecodeInv, EvaluateInv

-----------------------------------------------------------------------------
(* The recoding                                                            *)

\* A scalar made odd fits its width, and is odd below its exponent.
LEMMA OddScalar ==
  ASSUME job \in Jobs, job.op = "biscalar", NEW z \in 0 .. 2^job.e - 1
  PROVE  /\ SubOne(z) \in 0 .. 2^Width - 1
         /\ SubOne(z) % 2^job.e \in Nat
         /\ z % 2 = 1 => SubOne(z) % 2^job.e = z
         /\ z % 2 = 0 => /\ (SubOne(z) % 2^job.e) % 2 = 1
                         /\ Congruent((SubOne(z) % 2^job.e) + 1, z, job.e)
<1> DEFINE w == 2^job.e
           v == 2^(job.e - 1)
           g == 2^(Width - job.e)
           big == 2^Width
<1>1. /\ job.e \in Nat /\ job.e - 1 \in Nat /\ (job.e - 1) + 1 = job.e /\ Width - job.e \in Nat
      /\ (Width - job.e) + job.e = Width
  BY JobType, Widths
<1>2. /\ w \in Nat /\ v \in Nat /\ g \in Nat /\ big \in Nat /\ v > 0 /\ g > 0
      /\ w = 2 * v /\ big = g * w
  <2>1. 2^((job.e - 1) + 1) = 2 * 2^(job.e - 1)
    BY <1>1, Pow2Succ
  <2>2. 2^((Width - job.e) + job.e) = 2^(Width - job.e) * 2^job.e
    BY <1>1, Pow2Add
  <2> QED BY <1>1, <2>1, <2>2, Pow2Positive
<1> DEFINE y == SubOne(z)
<1>3. y = IF z % 2 = 0 THEN (z - 1) % big ELSE z
  BY DEF SubOne
<1>4. z \in 0 .. w - 1 /\ w > 0 /\ w <= big
  <2>1. g * w = w + (g - 1) * w /\ (g - 1) * w >= 0
    BY <1>2
  <2> QED BY <1>2, <2>1
<1> HIDE DEF w, v, g, big, y
<1>5. CASE z % 2 = 1
  <2>1. y = z
    BY <1>3, <1>5
  <2>2. y % w = z
    <3>1. z \in Nat /\ z < w
      BY <1>2, <1>4
    <3>2. z % w = z
      BY <1>2, <1>4, <3>1, ModSmall
    <3> QED BY <2>1, <3>2
  <2> QED BY <1>2, <1>4, <1>5, <2>1, <2>2 DEF y, w, big
<1>6. CASE z % 2 = 0 /\ z > 0
  <2>1. z - 1 \in 0 .. w - 1 /\ z - 1 \in 0 .. big - 1 /\ z - 1 \in Nat
    BY <1>2, <1>4, <1>6
  <2>2. y = z - 1
    <3>1. (z - 1) % big = z - 1
      BY <1>2, <1>4, <2>1, ModSmall
    <3> QED BY <1>3, <1>6, <3>1
  <2>3. y % w = z - 1
    BY <1>2, <1>4, <2>1, <2>2, ModSmall
  <2>4. (z - 1) % 2 = 1 /\ z - 1 + 1 = z + 0 * w
    BY <1>2, <1>4, <1>6
  <2>5. \E i \in Int : (y % w) + 1 = z + i * w
    BY <2>3, <2>4
  <2> QED BY <1>6, <2>1, <2>2, <2>3, <2>4, <2>5 DEF y, w, big, Congruent
<1>7. CASE z = 0
  <2>1. y = big - 1
    <3>1. \E i \in Int : z - 1 = big - 1 + i * big
      <4>1. z - 1 = big - 1 + (-1) * big
        BY <1>2, <1>7
      <4> QED BY <4>1
    <3>2. (z - 1) % big = (big - 1) % big /\ big - 1 \in Nat /\ big > 0
      <4>1. PICK i \in Int : z - 1 = big - 1 + i * big
        BY <3>1
      <4> QED BY <1>2, <1>4, <4>1, ModShift
    <3>3. (big - 1) % big = big - 1
      BY <1>2, <3>2, ModSmall
    <3>4. 0 % 2 = 0
      OBVIOUS
    <3> QED BY <1>3, <1>7, <3>1, <3>2, <3>3, <3>4
  <2>2. y % w = w - 1
    <3>1. y = w - 1 + (g - 1) * w
      BY <1>2, <2>1
    <3>2. (w - 1 + (g - 1) * w) % w = (w - 1) % w
      BY <1>2, <1>4, ModShift
    <3>3. (w - 1) % w = w - 1
      BY <1>2, <1>4, ModSmall
    <3> QED BY <3>1, <3>2, <3>3
  <2>3. (w - 1) % 2 = 1 /\ w - 1 + 1 = z + 1 * w /\ w - 1 \in Nat /\ 0 % 2 = 0
    BY <1>2, <1>4, <1>7
  <2>4. \E i \in Int : (y % w) + 1 = z + i * w
    BY <2>2, <2>3
  <2>5. y \in 0 .. big - 1
    BY <1>2, <1>4, <2>1
  <2> QED BY <1>7, <2>2, <2>3, <2>4, <2>5 DEF y, w, big, Congruent
<1>8. z % 2 = 1 \/ (z % 2 = 0 /\ z > 0) \/ z = 0
  BY <1>2, <1>4
<1> QED BY <1>5, <1>6, <1>7, <1>8

\* What SubOne makes of the two scalars of a call.
LEMMA MadeOddType ==
  ASSUME job \in Jobs, job.op = "biscalar", NEW c \in 0 .. 1
  PROVE  MadeOdd(c) \in 0 .. 2^Width - 1 /\ MadeOdd(c) \in Nat /\ MadeOdd(c) % 2^job.e \in Nat
<1> DEFINE z == IF c = 0 THEN job.m ELSE job.n
<1>1. z \in 0 .. 2^job.e - 1
  BY JobType
<1> HIDE DEF z
<1>2. SubOne(z) \in 0 .. 2^Width - 1 /\ SubOne(z) % 2^job.e \in Nat
  BY <1>1, OddScalar
<1>3. SubOne(z) \in Nat
  BY <1>2, Widths
<1> QED BY <1>2, <1>3 DEF MadeOdd, z

\* Prefixes: one bit more each time, and nothing at the top.
LEMMA PrefixStep ==
  ASSUME job \in Jobs, job.op = "biscalar", NEW c \in 0 .. 1, NEW i \in Nat, i < job.e
  PROVE  /\ Prefix(c, i) \in Nat /\ Prefix(c, i + 1) \in Nat
         /\ Prefix(c, i) = 2 * Prefix(c, i + 1) + Bit(MadeOdd(c), i)
         /\ Bit(MadeOdd(c), i) \in 0 .. 1
         /\ Prefix(c, job.e) = 0
<1> DEFINE a == MadeOdd(c) % 2^job.e
<1>1. a \in Nat /\ MadeOdd(c) \in Nat /\ job.e \in Nat
  BY MadeOddType, JobType
<1>2. Bit(a, i) = Bit(MadeOdd(c), i)
  BY <1>1, BitBelow
<1>3. a < 2^job.e /\ 2^job.e \in Nat /\ 2^job.e > 0
  <2> DEFINE w == 2^job.e
             m == MadeOdd(c)
  <2>1. w \in Nat /\ w > 0 /\ m \in Nat
    BY <1>1, Pow2Positive
  <2> HIDE DEF w, m
  <2>2. m % w < w
    BY <2>1
  <2> QED BY <2>1, <2>2 DEF w, m
<1> HIDE DEF a
<1>4. /\ Bit(a, i) \in 0 .. 1 /\ a \div 2^i \in Nat /\ a \div 2^(i + 1) \in Nat
      /\ a \div 2^i = 2 * (a \div 2^(i + 1)) + Bit(a, i)
  BY <1>1, BitSplits
<1>5. a \div 2^job.e = 0
  <2> DEFINE w == 2^job.e
  <2>1. w \in Nat /\ w > 0 /\ a \in 0 .. w - 1 /\ a = w * 0 + a
    BY <1>1, <1>3
  <2> HIDE DEF w
  <2>2. a \div w = 0
    BY <1>1, <2>1, DivUnique
  <2> QED BY <2>2 DEF w
<1> QED BY <1>2, <1>4, <1>5 DEF Prefix, a

\* A digit is the comparison of two adjacent bits, and the top one is the
\* top bit.
LEMMA ChangeBits ==
  ASSUME job \in Jobs, job.op = "biscalar", NEW c \in 0 .. 1, NEW i \in Nat, i < job.e
  PROVE  /\ Change(c, i) \in 0 .. 1
         /\ i + 1 < job.e =>
              Change(c, i) = (((MadeOdd(c) \div 2^i) \div 2) + ((MadeOdd(c) \div 2^i) % 2)) % 2
         /\ i + 1 = job.e => Change(c, i) = ((MadeOdd(c) \div 2^i) + 0) % 2
<1> DEFINE m == MadeOdd(c)
           x == m \div 2^i
           p == Prefix(c, i)
           s == Prefix(c, i + 1)
           b == Bit(m, i)
<1>1. /\ p \in Nat /\ s \in Nat /\ b \in 0 .. 1 /\ p = 2 * s + b /\ Prefix(c, job.e) = 0
  BY PrefixStep
<1>2. m \in Nat
  BY MadeOddType
<1>3. /\ x \in Nat /\ x \div 2 = m \div 2^(i + 1) /\ x % 2 = b
  <2>1. x \in Nat /\ x \div 2 = m \div 2^(i + 1)
    BY <1>2, BitSplits
  <2> QED BY <2>1 DEF Bit
<1>4. Change(c, i) = (p + s) % 2
  BY DEF Change
<1>5. i + 1 < job.e => (x \div 2) % 2 = s % 2
  <2> SUFFICES ASSUME i + 1 < job.e PROVE (x \div 2) % 2 = s % 2
    OBVIOUS
  <2>1. i + 1 \in Nat
    OBVIOUS
  <2>2. /\ Prefix(c, (i + 1) + 1) \in Nat /\ s = 2 * Prefix(c, (i + 1) + 1) + Bit(m, i + 1)
        /\ Bit(m, i + 1) \in 0 .. 1
    BY <2>1, PrefixStep
  <2>3. (x \div 2) % 2 = Bit(m, i + 1)
    BY <1>3 DEF Bit
  <2> DEFINE q == Prefix(c, (i + 1) + 1)
             d == Bit(m, i + 1)
  <2>4. q \in Nat /\ d \in 0 .. 1 /\ s = 2 * q + d /\ (x \div 2) % 2 = d
    BY <2>2, <2>3
  <2> HIDE DEF q, d, s, x
  <2> QED BY <2>4
<1>6. i + 1 = job.e => s = 0
  BY <1>1
<1>7. x \div 2 \in Nat
  BY <1>3
<1> HIDE DEF p, s, b, x, m
<1>8. (p + s) % 2 \in 0 .. 1 /\ (i + 1 < job.e => (p + s) % 2 = (x \div 2 + (x % 2)) % 2)
  <2> DEFINE h == x \div 2
  <2>1. h \in Nat /\ x % 2 = b /\ (i + 1 < job.e => h % 2 = s % 2)
    BY <1>3, <1>5, <1>7
  <2> HIDE DEF h
  <2>2. i + 1 < job.e => (p + s) % 2 = (h + b) % 2
    BY <1>1, <2>1
  <2> QED BY <1>1, <2>1, <2>2 DEF h
<1>9. i + 1 = job.e => (p + s) % 2 = (x + 0) % 2
  <2>1. x + 0 = x /\ x % 2 = b
    BY <1>3
  <2>2. i + 1 = job.e => (p + s) % 2 = b
    BY <1>1, <1>6
  <2> QED BY <2>1, <2>2
<1> QED BY <1>4, <1>8, <1>9 DEF x, m

\* The recoding starts with the scalar that is even, or the first.
LEMMA BeginRecodingInv == ASSUME LInv, BeginRecoding PROVE LInv'
<1>1. /\ lpc = "biscalar" /\ job.e # 1 /\ lpc' = "recode"
      /\ rec'.scalar = <<SubOne(job.m), SubOne(job.n)>>
      /\ rec'.sigma = IF OneIsEven = 1 THEN <<1 - Parities[1], 1 - Parities[2]>> ELSE <<0, 1>>
      /\ rec'.pre = 0 /\ rec'.digits = << >>
      /\ job' = job /\ step' = step /\ reg' = reg /\ out' = out
  BY DEF BeginRecoding, NeedsLookup
<1>2. /\ job \in Jobs /\ job.op = "biscalar" /\ step = 0 /\ reg = << >> /\ out = NoPoint
  BY <1>1 DEF LInv, CallInv
<1>3. TwoScalars
  BY <1>1, <1>2, JobType DEF TwoScalars
<1> DEFINE p == Parities[1]
           q == Parities[2]
<1>4. p \in 0 .. 1 /\ q \in 0 .. 1 /\ OneIsEven = (p + q) % 2
  <2>1. job.m \in Nat /\ job.n \in Nat
    BY <1>2, JobType
  <2> QED BY <2>1, BitZero DEF Parities, OneIsEven
<1>5. FirstSigma \in 0 .. 1 /\ rec'.sigma = <<FirstSigma, 1 - FirstSigma>>
  <2> HIDE DEF p, q
  <2>1. rec'.sigma = IF OneIsEven = 1 THEN <<1 - p, 1 - q>> ELSE <<0, 1>>
    BY <1>1 DEF p, q
  <2>2. FirstSigma = IF OneIsEven = 1 THEN 1 - p ELSE 0
    BY DEF FirstSigma, p
  <2>3. CASE OneIsEven = 1
    <3>1. 1 - q = 1 - (1 - p)
      BY <1>4, <2>3
    <3> QED BY <1>4, <2>1, <2>2, <2>3, <3>1
  <2>4. CASE OneIsEven # 1
    BY <2>1, <2>2, <2>4
  <2> QED BY <2>3, <2>4
<1>6. rec'.scalar = Swapped(0, <<MadeOdd(0) \div 2^0, MadeOdd(1) \div 2^0>>)
  <2>1. /\ MadeOdd(0) \in Nat /\ MadeOdd(1) \in Nat
        /\ MadeOdd(0) = SubOne(job.m) /\ MadeOdd(1) = SubOne(job.n)
    BY <1>2, MadeOddType DEF MadeOdd
  <2>2. MadeOdd(0) \div 2^0 = MadeOdd(0) /\ MadeOdd(1) \div 2^0 = MadeOdd(1)
    BY <2>1, Pow2Zero
  <2> QED BY <1>1, <2>1, <2>2 DEF Swapped
<1> DEFINE s == [i \in 0 .. F |-> FirstSigma]
<1>7. s \in [0 .. F -> 0 .. 1] /\ s[0] = FirstSigma
  BY <1>5, Widths
<1>8. RecodeInv'
  <2>1. Recoded(s, << >>)
    BY <1>7, <1>2, JobType DEF Recoded
  <2>2. Recoded(s, << >>)' = Recoded(s, << >>)
    BY <1>1 DEF Recoded, FirstSigma, OneIsEven, Parities, Change, Prefix, MadeOdd
  <2>3. MadeOdd(0)' = MadeOdd(0) /\ MadeOdd(1)' = MadeOdd(1) /\ FirstSigma' = FirstSigma
    BY <1>1 DEF MadeOdd, FirstSigma, OneIsEven, Parities
  <2>4. TwoScalars' /\ step' = 0 /\ 0 \in 0 .. job'.e /\ reg' = << >> /\ Len(rec'.digits) = 0
    BY <1>1, <1>2, <1>3, JobType DEF TwoScalars
  <2>5. s \in [0 .. F -> 0 .. 1] /\ rec'.sigma = <<s[0], 1 - s[0]>>
    BY <1>5, <1>7
  <2> HIDE DEF s
  <2> QED BY <1>1, <1>6, <2>1, <2>2, <2>3, <2>4, <2>5 DEF RecodeInv, Recoded
<1>9. LadderTypeOK'
  <2>1. MadeOdd(0) \in 0 .. 2^Width - 1 /\ MadeOdd(1) \in 0 .. 2^Width - 1
    BY <1>2, MadeOddType
  <2>2. SubOne(job.m) \in 0 .. 2^Width - 1 /\ SubOne(job.n) \in 0 .. 2^Width - 1
    BY <2>1 DEF MadeOdd
  <2>3. \A i \in 1 .. 2 : rec'.scalar[i] \in 0 .. 2^Width - 1
    BY <1>1, <2>2
  <2>4. \A i \in 1 .. 2 : rec'.sigma[i] \in 0 .. 1
    <3> DEFINE f == FirstSigma
    <3>1. f \in 0 .. 1 /\ rec'.sigma = <<f, 1 - f>>
      BY <1>5
    <3> HIDE DEF f
    <3> QED BY <3>1
  <2> QED BY <1>1, <2>3, <2>4 DEF LInv, LadderTypeOK
<1> QED
  BY <1>1, <1>2, <1>8, <1>9 DEF LInv, CallInv, ScalarInv, ThreePointInv, EvaluateInv

\* What a round of the recoding computes, from the scalars in their order.
LEMMA RecodeValues ==
  ASSUME LInv, Recode,
         NEW s \in [0 .. F -> 0 .. 1], Recoded(s, rec.digits),
         rec.sigma = <<s[step], 1 - s[step]>>, rec.pre = IF step = 0 THEN 0 ELSE s[step - 1],
         rec.scalar = Swapped(rec.pre, <<MadeOdd(0) \div 2^step, MadeOdd(1) \div 2^step>>)
  PROVE  /\ rec'.digits = Append(rec.digits, <<Change(s[step], step), Change(1 - s[step], step)>>)
         /\ rec'.sigma = Swapped(Change(1 - s[step], step), <<s[step], 1 - s[step]>>)
         /\ rec'.pre = s[step]
         /\ step + 1 < job.e =>
              rec'.scalar =
                Swapped(s[step], <<MadeOdd(0) \div 2^(step + 1), MadeOdd(1) \div 2^(step + 1)>>)
         /\ \A i \in 1 .. 2 : rec'.scalar[i] \in 0 .. 2^Width - 1
<1> DEFINE f == s[step]
           x == Swapped((rec.sigma[1] + rec.pre) % 2, rec.scalar)
           final == step = job.e - 1
           rest == IF final THEN x ELSE <<x[1] \div 2, x[2] \div 2>>
           digit(i) == (rest[i] + (IF final THEN 0 ELSE x[i] % 2)) % 2
           y0 == MadeOdd(0) \div 2^step
           y1 == MadeOdd(1) \div 2^step
           n == 2^Width
<1>1. /\ lpc = "recode" /\ step < job.e
      /\ rec' = [scalar |-> rest, sigma |-> Swapped(digit(2), rec.sigma), pre |-> rec.sigma[1],
                 digits |-> Append(rec.digits, <<digit(1), digit(2)>>)]
  BY DEF Recode
<1>2. /\ job \in Jobs /\ job.op = "biscalar" /\ step \in 0 .. job.e /\ job.e \in 1 .. F
      /\ step \in Nat /\ job.e \in Nat
  BY <1>1, JobType, Widths DEF LInv, CallInv, RecodeInv, TwoScalars
<1>3. f \in 0 .. 1 /\ rec.pre \in 0 .. 1
  <2>1. step \in 0 .. F /\ (step # 0 => step - 1 \in 0 .. F)
    BY <1>1, <1>2, Widths
  <2> QED BY <2>1
<1>4. rec.sigma[1] = f
  OBVIOUS
<1>5. x = Swapped(f, <<y0, y1>>)
  BY <1>3, <1>4, SwapAgain
<1>6. /\ MadeOdd(0) \in Nat /\ MadeOdd(1) \in Nat /\ y0 \in Nat /\ y1 \in Nat
      /\ y0 \div 2 = MadeOdd(0) \div 2^(step + 1) /\ y1 \div 2 = MadeOdd(1) \div 2^(step + 1)
  <2>1. MadeOdd(0) \in Nat /\ MadeOdd(1) \in Nat
    BY <1>2, MadeOddType
  <2>2. \A a \in Nat : a \div 2^step \in Nat /\ (a \div 2^step) \div 2 = a \div 2^(step + 1)
    BY <1>2, BitSplits
  <2> QED BY <2>1, <2>2
<1>7. \A c \in 0 .. 1 : x[IF c = f THEN 1 ELSE 2] = MadeOdd(c) \div 2^step
  <2> SUFFICES ASSUME NEW c \in 0 .. 1 PROVE x[IF c = f THEN 1 ELSE 2] = MadeOdd(c) \div 2^step
    OBVIOUS
  <2>1. (c = 0 \/ c = 1) /\ (f = 0 \/ f = 1)
    BY <1>3
  <2> HIDE DEF f, x, y0, y1
  <2>2. x = IF f = 1 THEN <<y1, y0>> ELSE <<y0, y1>>
    BY <1>5 DEF Swapped
  <2> QED BY <2>1, <2>2 DEF y0, y1
<1>8. \A c \in 0 .. 1 : digit(IF c = f THEN 1 ELSE 2) = Change(c, step)
  <2> SUFFICES ASSUME NEW c \in 0 .. 1 PROVE digit(IF c = f THEN 1 ELSE 2) = Change(c, step)
    OBVIOUS
  <2>1. /\ step + 1 < job.e =>
             Change(c, step) = (((MadeOdd(c) \div 2^step) \div 2) + ((MadeOdd(c) \div 2^step) % 2)) % 2
        /\ step + 1 = job.e => Change(c, step) = ((MadeOdd(c) \div 2^step) + 0) % 2
    BY <1>1, <1>2, ChangeBits
  <2> DEFINE i == IF c = f THEN 1 ELSE 2
  <2>2. x[i] = MadeOdd(c) \div 2^step /\ (i = 1 \/ i = 2)
    BY <1>7
  <2> DEFINE w == x[i]
  <2>3. /\ step + 1 < job.e => Change(c, step) = ((w \div 2) + (w % 2)) % 2
        /\ step + 1 = job.e => Change(c, step) = (w + 0) % 2
    BY <2>1, <2>2
  <2> HIDE DEF i, x
  <2>4. CASE final
    <3>1. step + 1 = job.e
      BY <1>2, <2>4
    <3>2. digit(i) = (w + 0) % 2
      BY <2>4
    <3> QED BY <2>3, <3>1, <3>2 DEF i
  <2>5. CASE ~final
    <3>1. step + 1 < job.e
      <4>1. step # job.e - 1
        BY <2>5
      <4>2. step < job.e
        BY <1>1
      <4> DEFINE d == job.e
      <4>3. step \in Nat /\ d \in Nat /\ step < d /\ step # d - 1
        BY <1>2, <4>1, <4>2
      <4> HIDE DEF d
      <4>4. step + 1 < d
        BY <4>3
      <4> QED BY <4>4 DEF d
    <3>2. rest[i] = w \div 2
      BY <2>2, <2>5
    <3>3. digit(i) = ((w \div 2) + (w % 2)) % 2
      BY <2>5, <3>2
    <3> QED BY <2>3, <3>1, <3>3 DEF i
  <2> QED BY <2>4, <2>5
<1>9. digit(1) = Change(f, step) /\ digit(2) = Change(1 - f, step)
  <2>1. 1 - f \in 0 .. 1 /\ 1 - f # f
    BY <1>3
  <2> HIDE DEF digit, f
  <2>2. digit(IF f = f THEN 1 ELSE 2) = Change(f, step)
    BY <1>3, <1>8
  <2>3. digit(IF 1 - f = f THEN 1 ELSE 2) = Change(1 - f, step)
    BY <1>8, <2>1
  <2> QED BY <2>1, <2>2, <2>3
<1>10. step + 1 < job.e =>
         rec'.scalar = Swapped(f, <<MadeOdd(0) \div 2^(step + 1), MadeOdd(1) \div 2^(step + 1)>>)
  <2> SUFFICES ASSUME step + 1 < job.e
               PROVE  rest = Swapped(f, <<y0 \div 2, y1 \div 2>>)
    BY <1>1, <1>6
  <2>1. ~final
    BY <1>2
  <2>2. rest = <<x[1] \div 2, x[2] \div 2>>
    BY <2>1
  <2>3. x = IF f = 1 THEN <<y1, y0>> ELSE <<y0, y1>>
    BY <1>5 DEF Swapped
  <2> HIDE DEF rest, x, f, y0, y1
  <2> QED BY <2>2, <2>3 DEF Swapped
<1>11. \A i \in 1 .. 2 : rest[i] \in 0 .. 2^Width - 1
  <2>1. n \in Nat /\ (\A i \in 1 .. 2 : rec.scalar[i] \in 0 .. n - 1)
    BY Widths DEF LInv, LadderTypeOK
  <2>2. rec.scalar = <<rec.scalar[1], rec.scalar[2]>>
    BY DEF Swapped
  <2> HIDE DEF n
  <2>3. \A i \in 1 .. 2 : x[i] \in 0 .. n - 1
    <3> DEFINE c == (rec.sigma[1] + rec.pre) % 2
    <3> HIDE DEF c
    <3>1. x = IF c = 1 THEN <<rec.scalar[2], rec.scalar[1]>> ELSE rec.scalar
      BY DEF Swapped, c
    <3> HIDE DEF x
    <3> QED BY <2>1, <3>1
  <2> HIDE DEF x
  <2>4. \A i \in 1 .. 2 : x[i] \div 2 \in 0 .. n - 1
    <3> SUFFICES ASSUME NEW i \in 1 .. 2 PROVE x[i] \div 2 \in 0 .. n - 1
      OBVIOUS
    <3> DEFINE z == x[i]
    <3>1. z \in 0 .. n - 1
      BY <2>3
    <3> HIDE DEF z
    <3> QED BY <2>1, <3>1 DEF z
  <2> HIDE DEF final
  <2>5. /\ rest[1] = (IF final THEN x[1] ELSE x[1] \div 2)
        /\ rest[2] = (IF final THEN x[2] ELSE x[2] \div 2)
    OBVIOUS
  <2> HIDE DEF rest
  <2>6. rest[1] \in 0 .. n - 1 /\ rest[2] \in 0 .. n - 1
    BY <2>3, <2>4, <2>5
  <2>7. \A i \in 1 .. 2 : i = 1 \/ i = 2
    OBVIOUS
  <2> QED BY <2>6, <2>7 DEF n
<1>12. /\ rec'.scalar = rest /\ rec'.sigma = Swapped(digit(2), rec.sigma) /\ rec'.pre = rec.sigma[1]
       /\ rec'.digits = Append(rec.digits, <<digit(1), digit(2)>>)
  BY <1>1
<1> QED
  <2> HIDE DEF rest, digit, x
  <2> QED BY <1>4, <1>9, <1>10, <1>11, <1>12

\* A round of the recoding: the scalar that comes first at the next bit is
\* the other one when the second digit changes.
LEMMA RecodeStepInv == ASSUME LInv, Recode PROVE LInv'
<1>1. /\ lpc = "recode" /\ step < job.e /\ lpc' = "recode" /\ step' = step + 1
      /\ job' = job /\ reg' = reg /\ out' = out
  BY DEF Recode, LInv
<1>2. /\ job \in Jobs /\ job.op = "biscalar" /\ TwoScalars /\ step \in 0 .. job.e /\ job.e \in 1 .. F
      /\ step \in Nat /\ job.e \in Nat /\ reg = << >> /\ out = NoPoint /\ Len(rec.digits) = step
  BY <1>1, JobType, Widths DEF LInv, CallInv, RecodeInv, TwoScalars
<1>3. PICK s \in [0 .. F -> 0 .. 1] :
        /\ Recoded(s, rec.digits)
        /\ rec.sigma = <<s[step], 1 - s[step]>>
        /\ rec.pre = IF step = 0 THEN 0 ELSE s[step - 1]
        /\ step < job.e =>
             rec.scalar = Swapped(rec.pre, <<MadeOdd(0) \div 2^step, MadeOdd(1) \div 2^step>>)
  BY <1>1 DEF LInv, RecodeInv
<1> DEFINE f == s[step]
           d1 == Change(f, step)
           d2 == Change(1 - f, step)
<1>4. /\ rec'.digits = Append(rec.digits, <<d1, d2>>)
      /\ rec'.sigma = Swapped(d2, <<f, 1 - f>>)
      /\ rec'.pre = f
      /\ step + 1 < job.e =>
           rec'.scalar = Swapped(f, <<MadeOdd(0) \div 2^(step + 1), MadeOdd(1) \div 2^(step + 1)>>)
      /\ \A i \in 1 .. 2 : rec'.scalar[i] \in 0 .. 2^Width - 1
  BY <1>1, <1>3, RecodeValues
<1>5. f \in 0 .. 1 /\ 1 - f \in 0 .. 1 /\ step \in 0 .. F /\ step + 1 \in 0 .. F
  <2>1. step \in 0 .. F /\ step + 1 \in 0 .. F
    BY <1>1, <1>2, Widths
  <2> QED BY <2>1
<1>6. d1 \in 0 .. 1 /\ d2 \in 0 .. 1
  BY <1>1, <1>2, <1>5, ChangeBits
<1> DEFINE g == (f + d2) % 2
           t == [s EXCEPT ![step + 1] = g]
<1>7. g \in 0 .. 1
  <2> HIDE DEF f, d2
  <2> QED BY <1>5, <1>6
<1>8. rec'.sigma = <<g, 1 - g>>
  <2> HIDE DEF f, d2
  <2>1. rec'.sigma = IF d2 = 1 THEN <<1 - f, f>> ELSE <<f, 1 - f>>
    BY <1>4 DEF Swapped
  <2>2. d2 = 1 => g = 1 - f /\ 1 - g = f
    BY <1>5
  <2>3. d2 # 1 => g = f
    BY <1>5, <1>6
  <2> QED BY <2>1, <2>2, <2>3
<1>9. /\ t \in [0 .. F -> 0 .. 1] /\ t[step + 1] = g
      /\ \A i \in 0 .. step : t[i] = s[i]
  <2> HIDE DEF g
  <2>1. \A i \in 0 .. step : i \in 0 .. F /\ i # step + 1
    BY <1>2, <1>5, Widths
  <2> QED BY <1>5, <1>7, <2>1
<1>10. rec.digits = << >> \/ rec.digits # << >>
  OBVIOUS
<1> DEFINE old == rec.digits
           new == Append(old, <<d1, d2>>)
<1>11. /\ Len(new) = step + 1 /\ new[step + 1] = <<d1, d2>>
       /\ \A i \in 1 .. step : new[i] = old[i]
  <2>1. Len(old) = step
    BY <1>2
  <2> DEFINE top == <<d1, d2>>
  <2> HIDE DEF old, d1, d2, top
  <2>2. new = Append(old, top)
    BY DEF top
  <2>3. Len(new) = step + 1 /\ new[step + 1] = top /\ \A i \in 1 .. step : new[i] = old[i]
    BY <2>1, <2>2, <1>2
  <2> QED BY <2>3 DEF top
<1>12. Recoded(t, new)
  <2>1. t[0] = FirstSigma /\ Len(new) <= job.e
    BY <1>1, <1>2, <1>3, <1>9, <1>11 DEF Recoded
  <2>2. ASSUME NEW i \in 0 .. step - 1
        PROVE  /\ new[i + 1] = <<Change(t[i], i), Change(1 - t[i], i)>>
               /\ t[i + 1] = (t[i] + Change(1 - t[i], i)) % 2
    <3>1. i \in 0 .. Len(old) - 1 /\ i \in 0 .. step /\ i + 1 \in 0 .. step /\ i + 1 \in 1 .. step
      BY <1>2
    <3>2. /\ old[i + 1] = <<Change(s[i], i), Change(1 - s[i], i)>>
          /\ s[i + 1] = (s[i] + Change(1 - s[i], i)) % 2
      BY <1>3, <3>1 DEF Recoded
    <3>3. t[i] = s[i] /\ t[i + 1] = s[i + 1] /\ new[i + 1] = old[i + 1]
      BY <1>9, <1>11, <3>1
    <3> HIDE DEF t, new, old
    <3> QED BY <3>2, <3>3
  <2>3. /\ new[step + 1] = <<Change(t[step], step), Change(1 - t[step], step)>>
        /\ t[step + 1] = (t[step] + Change(1 - t[step], step)) % 2
    <3>1. t[step] = f
      BY <1>2, <1>9
    <3> HIDE DEF t, new
    <3> QED BY <1>9, <1>11, <3>1
  <2>4. \A i \in 0 .. Len(new) - 1 : i \in 0 .. step - 1 \/ i = step
    <3> HIDE DEF new
    <3> QED BY <1>2, <1>11
  <2>5. t \in [0 .. F -> 0 .. 1]
    BY <1>9
  <2> HIDE DEF t, new
  <2>6. \A i \in 0 .. Len(new) - 1 :
          /\ new[i + 1] = <<Change(t[i], i), Change(1 - t[i], i)>>
          /\ t[i + 1] = (t[i] + Change(1 - t[i], i)) % 2
    BY <2>2, <2>3, <2>4
  <2> QED BY <2>1, <2>5, <2>6 DEF Recoded
<1>13. RecodeInv'
  <2>0. PICK z \in [0 .. F -> 0 .. 1] : z[step + 1] = g /\ z[step] = f /\ Recoded(z, new)
    <3>1. t \in [0 .. F -> 0 .. 1] /\ t[step + 1] = g /\ t[step] = f
      BY <1>2, <1>9
    <3> HIDE DEF t, new, f, g
    <3> QED BY <1>12, <3>1
  <2>1. rec'.digits = new
    BY <1>4
  <2>2. \A c, i : Change(c, i)' = Change(c, i)
    BY <1>1 DEF Change, Prefix, MadeOdd
  <2>3. FirstSigma' = FirstSigma /\ MadeOdd(0)' = MadeOdd(0) /\ MadeOdd(1)' = MadeOdd(1)
    BY <1>1 DEF FirstSigma, OneIsEven, Parities, MadeOdd
  <2>4. TwoScalars' /\ step' \in 0 .. job'.e /\ reg' = << >> /\ step' = step + 1 /\ job' = job
    <3>1. step + 1 \in 0 .. job.e
      <4> DEFINE e == job.e
      <4>1. e \in Nat /\ step \in Nat /\ step < e
        BY <1>1, <1>2
      <4> HIDE DEF e
      <4>2. step + 1 \in 0 .. e
        BY <4>1
      <4> QED BY <4>2 DEF e
    <3> QED BY <1>1, <1>2, <3>1 DEF TwoScalars
  <2>5. Len(rec'.digits) = step'
    BY <1>11, <2>1, <2>4
  <2>6. rec'.pre = IF step' = 0 THEN 0 ELSE z[step' - 1]
    <3>1. step + 1 # 0 /\ (step + 1) - 1 = step
      BY <1>2
    <3> QED BY <1>4, <2>0, <2>4, <3>1
  <2>7. rec'.sigma = <<z[step'], 1 - z[step']>>
    BY <1>8, <2>0, <2>4
  <2>8. step' < job'.e =>
          rec'.scalar = Swapped(rec'.pre, <<MadeOdd(0)' \div 2^step', MadeOdd(1)' \div 2^step'>>)
    BY <1>4, <2>3, <2>4
  <2> HIDE DEF t, new, f, g
  <2>9. Recoded(z, rec.digits)'
    BY <2>0, <2>1, <2>2, <2>3, <2>4 DEF Recoded
  <2> QED BY <1>1, <2>4, <2>5, <2>6, <2>7, <2>8, <2>9 DEF RecodeInv
<1>14. LadderTypeOK'
  <2>1. \A i \in 1 .. 2 : rec'.sigma[i] \in 0 .. 1
    <3> HIDE DEF g
    <3> QED BY <1>7, <1>8
  <2>2. step' \in 0 .. Width
    BY <1>1, <1>2, Widths
  <2> QED BY <1>1, <1>4, <2>1, <2>2 DEF LInv, LadderTypeOK
<1> QED
  BY <1>1, <1>2, <1>13, <1>14 DEF LInv, CallInv, ScalarInv, ThreePointInv, EvaluateInv

-----------------------------------------------------------------------------
(* The evaluation                                                          *)

\* Differential addition, given the difference up to its sign: two points
\* that are neighbours in one coordinate, or in both.
LEMMA AddNear ==
  ASSUME NEW t, IsTorsionExponent(t), t > 1,
         NEW x \in Int, NEW y \in Int, NEW u \in Int, NEW v \in Int, NEW p \in Int, NEW q \in Int,
         p % 2 = 1 \/ q % 2 = 1,
         \/ x - u = p /\ y - v = q
         \/ u - x = p /\ v - y = q
  PROVE  DifferentialAdd(X(t, x, y), X(t, u, v), X(t, p, q)) = X(t, x + u, y + v)
<1>1. X(t, x - u, y - v) = X(t, p, q)
  <2>1. CASE x - u = p /\ y - v = q
    BY <2>1
  <2>2. CASE u - x = p /\ v - y = q
    <3> DEFINE g == x - u
               h == y - v
    <3>1. g \in Int /\ h \in Int /\ g + p = 0 /\ h + q = 0
      BY <2>2
    <3> HIDE DEF g, h
    <3>2. X(t, p, q) = X(t, g, h)
      BY <3>1, XOpposite
    <3> QED BY <3>2 DEF g, h
  <2> QED BY <2>1, <2>2
<1>2. Usable(t, p, q)
  BY OddUsable
<1>3. Usable(t, x - u, y - v)
  BY <1>1, <1>2 DEF Usable
<1>4. DifferentialAdd(X(t, x, y), X(t, u, v), X(t, x - u, y - v)) = X(t, x + u, y + v)
  BY <1>3, AddExact
<1> QED BY <1>1, <1>4

\* What one bit more makes of the even and the odd neighbour of a prefix:
\* twice the one that the digit c chooses, and the sum of both.
Lengthened(w, a, c) ==
    /\ c \in 0 .. 1 /\ w % 2 \in 0 .. 1
    /\ EvenOne(w) \in Int /\ OddOne(w) \in Int /\ EvenOne(a) \in Int /\ OddOne(a) \in Int
    /\ OddOne(a) = EvenOne(w) + OddOne(w)
    /\ EvenOne(a) = 2 * (IF c = 0 THEN EvenOne(w) ELSE OddOne(w))
    /\ w % 2 = 0 => EvenOne(w) - OddOne(w) = -1
    /\ w % 2 = 1 => EvenOne(w) - OddOne(w) = 1
    /\ a % 2 = (c + w) % 2

\* That is what it makes of them.
LEMMA Neighbours ==
  ASSUME NEW w \in Nat, NEW p \in 0 .. 1, NEW a \in Nat, a = 2 * w + p, NEW c, c = (a + w) % 2
  PROVE  Lengthened(w, a, c)
<1>1. a % 2 = p
  BY ModShift
<1>2. PICK h \in Nat, l \in 0 .. 1 : w = 2 * h + l /\ w % 2 = l
  BY DivRem
<1>3. c = (p + l) % 2
  <2>1. a + w = (p + l) + (w + h) * 2
    BY <1>2
  <2>2. ((p + l) + (w + h) * 2) % 2 = (p + l) % 2
    BY <1>2, ModShift
  <2> QED BY <2>1, <2>2
<1>4. CASE l = 0
  <2>1. EvenOne(w) = w /\ OddOne(w) = w + 1 /\ c = p
    BY <1>2, <1>3, <1>4 DEF EvenOne, OddOne
  <2>2. (c + w) % 2 = p
    BY <1>2, <1>4, <2>1
  <2>3. EvenOne(a) = a + p /\ OddOne(a) = a + 1 - p
    BY <1>1 DEF EvenOne, OddOne
  <2> QED BY <1>1, <1>2, <1>4, <2>1, <2>2, <2>3 DEF Lengthened
<1>5. CASE l = 1
  <2>1. EvenOne(w) = w + 1 /\ OddOne(w) = w /\ c = 1 - p
    BY <1>2, <1>3, <1>5 DEF EvenOne, OddOne
  <2>2. (c + w) % 2 = p
    BY <1>2, <1>5, <2>1
  <2>3. EvenOne(a) = a + p /\ OddOne(a) = a + 1 - p
    BY <1>1 DEF EvenOne, OddOne
  <2> QED BY <1>1, <1>2, <1>5, <2>1, <2>2, <2>3 DEF Lengthened
<1> QED BY <1>2, <1>4, <1>5

\* The entries of Around.
LEMMA AroundEntries ==
  ASSUME NEW s, NEW a, NEW b, NEW x, NEW y, NEW z, NEW f, NEW g, NEW p, NEW q,
         x = X(job.e, EvenOne(a), EvenOne(b)),
         y = (IF s = 0 THEN X(job.e, OddOne(a), EvenOne(b)) ELSE X(job.e, EvenOne(a), OddOne(b))),
         z = X(job.e, OddOne(a), OddOne(b)),
         <<f, g>> = Swapped(s, <<X(job.e, 1, 0), X(job.e, 0, 1)>>),
         <<p, q>> = Swapped((a + b) % 2, <<X(job.e, 1, 1), X(job.e, 1, -1)>>)
  PROVE  Around(job.e, s, a, b) = <<x, y, z, f, g, p, q>>
<1>1. <<x, y, z>> \o <<f, g>> = <<x, y, z, f, g>>
  BY Join32
<1>2. <<x, y, z, f, g>> \o <<p, q>> = <<x, y, z, f, g, p, q>>
  BY Join52
<1>3. Around(job.e, s, a, b) = (<<x, y, z>> \o <<f, g>>) \o <<p, q>>
  BY DEF Around
<1> QED BY <1>1, <1>2, <1>3

\* An iteration's additions and doubling, from the registers r around w and v
\* to those around the prefixes a and b, one bit longer: c and d are what the
\* digits compare, s is the scalar that comes first, h the second digit.
Evaluated(w, v, a, b, c, d, s, h, r) ==
    /\ Double(r[c + d + 1]) = X(job.e, EvenOne(a), EvenOne(b))
    /\ DifferentialAdd(Select(h, r[1], r[2]), Select(h, r[2], r[3]), Swapped(h, <<r[4], r[5]>>)[1])
         = IF s = 0 THEN X(job.e, OddOne(a), EvenOne(b)) ELSE X(job.e, EvenOne(a), OddOne(b))
    /\ DifferentialAdd(r[1], r[3], r[6]) = X(job.e, OddOne(a), OddOne(b))
    /\ Swapped(h, <<r[4], r[5]>>) = Swapped(s, <<X(job.e, 1, 0), X(job.e, 0, 1)>>)
    /\ Swapped((c + d) % 2, <<r[6], r[7]>>)
         = Swapped((a + b) % 2, <<X(job.e, 1, 1), X(job.e, 1, -1)>>)

Longer(a, w) == \E m \in 0 .. 1 : a = 2 * w + m

\* So it goes from any two prefixes.
LEMMA EvaluateValues ==
  ASSUME IsTorsionExponent(job.e), job.e > 1,
         NEW w \in Nat, NEW v \in Nat, NEW a \in Nat, NEW b \in Nat, Longer(a, w), Longer(b, v),
         NEW c, c = (a + w) % 2, NEW d, d = (b + v) % 2,
         NEW s \in 0 .. 1, NEW h, h = (IF s = 0 THEN d ELSE c), NEW z, z = (s + h) % 2,
         NEW r, r = Around(job.e, z, w, v)
  PROVE  Evaluated(w, v, a, b, c, d, s, h, r)
<1> DEFINE e == job.e
           we == EvenOne(w)
           wo == OddOne(w)
           ve == EvenOne(v)
           vo == OddOne(v)
           x10 == X(e, 1, 0)
           x01 == X(e, 0, 1)
           x11 == X(e, 1, 1)
           xm == X(e, 1, -1)
           par == (w + v) % 2
<1>0. Lengthened(w, a, c) /\ Lengthened(v, b, d)
  <2>1. PICK m \in 0 .. 1 : a = 2 * w + m
    BY DEF Longer
  <2>2. PICK n \in 0 .. 1 : b = 2 * v + n
    BY DEF Longer
  <2> QED BY <2>1, <2>2, Neighbours
<1>1. /\ c \in 0 .. 1 /\ we \in Int /\ wo \in Int /\ OddOne(a) = we + wo
      /\ EvenOne(a) = 2 * (IF c = 0 THEN we ELSE wo)
      /\ (w % 2 = 0 => we - wo = -1) /\ (w % 2 = 1 => we - wo = 1)
      /\ a % 2 = (c + w) % 2 /\ w % 2 \in 0 .. 1
  BY <1>0 DEF Lengthened
<1>2. /\ d \in 0 .. 1 /\ ve \in Int /\ vo \in Int /\ OddOne(b) = ve + vo
      /\ EvenOne(b) = 2 * (IF d = 0 THEN ve ELSE vo)
      /\ (v % 2 = 0 => ve - vo = -1) /\ (v % 2 = 1 => ve - vo = 1)
      /\ b % 2 = (d + v) % 2 /\ v % 2 \in 0 .. 1
  BY <1>0 DEF Lengthened
<1>3. /\ z \in 0 .. 1 /\ h \in 0 .. 1 /\ par \in 0 .. 1
      /\ (s = 0 => h = d /\ z = d) /\ (s = 1 => h = c /\ z = 1 - c)
  <2>1. s = 0 \/ s = 1
    OBVIOUS
  <2> QED BY <1>1, <1>2, <2>1
<1>4. /\ r[1] = X(e, we, ve)
      /\ r[2] = (IF z = 0 THEN X(e, wo, ve) ELSE X(e, we, vo))
      /\ r[3] = X(e, wo, vo)
      /\ r[4] = (IF z = 1 THEN x01 ELSE x10) /\ r[5] = (IF z = 1 THEN x10 ELSE x01)
      /\ r[6] = (IF par = 1 THEN xm ELSE x11) /\ r[7] = (IF par = 1 THEN x11 ELSE xm)
  <2> DEFINE r2 == IF z = 0 THEN X(e, wo, ve) ELSE X(e, we, vo)
             r4 == IF z = 1 THEN x01 ELSE x10
             r5 == IF z = 1 THEN x10 ELSE x01
             r6 == IF par = 1 THEN xm ELSE x11
             r7 == IF par = 1 THEN x11 ELSE xm
  <2>1. <<r4, r5>> = Swapped(z, <<X(job.e, 1, 0), X(job.e, 0, 1)>>)
    BY DEF Swapped
  <2>2. <<r6, r7>> = Swapped((w + v) % 2, <<X(job.e, 1, 1), X(job.e, 1, -1)>>)
    BY DEF Swapped
  <2> HIDE DEF r4, r5, r6, r7
  <2>3. Around(job.e, z, w, v) = <<X(e, we, ve), r2, X(e, wo, vo), r4, r5, r6, r7>>
    BY <2>1, <2>2, AroundEntries
  <2> HIDE DEF r2
  <2>4. /\ r[1] = X(e, we, ve) /\ r[2] = r2 /\ r[3] = X(e, wo, vo) /\ r[4] = r4 /\ r[5] = r5
        /\ r[6] = r6 /\ r[7] = r7
    BY <2>3
  <2> QED BY <2>4 DEF r2, r4, r5, r6, r7
<1> HIDE DEF we, wo, ve, vo, par
<1>5. Double(r[c + d + 1]) = X(e, EvenOne(a), EvenOne(b))
  <2> DEFINE f == IF c = 0 THEN we ELSE wo
             g == IF d = 0 THEN ve ELSE vo
  <2>1. r[c + d + 1] = X(e, f, g)
    <3>1. CASE c = 0 /\ d = 0
      BY <1>4, <3>1
    <3>2. CASE c = 1 /\ d = 1
      BY <1>4, <3>2
    <3>3. CASE c = 1 /\ d = 0
      <4>1. z = 0 /\ c + d + 1 = 2
        BY <1>3, <3>3
      <4> QED BY <1>4, <3>3, <4>1
    <3>4. CASE c = 0 /\ d = 1
      <4>1. z = 1 /\ c + d + 1 = 2
        BY <1>3, <3>4
      <4> QED BY <1>4, <3>4, <4>1
    <3> QED BY <1>1, <1>2, <3>1, <3>2, <3>3, <3>4
  <2>2. f \in Int /\ g \in Int /\ EvenOne(a) = 2 * f /\ EvenOne(b) = 2 * g
    BY <1>1, <1>2
  <2> HIDE DEF f, g, e
  <2>3. Double(X(e, f, g)) = X(e, 2 * f, 2 * g)
    BY <2>2, XDouble DEF e
  <2> QED BY <2>1, <2>2, <2>3
<1>6. Swapped(h, <<r[4], r[5]>>) = Swapped(s, <<x10, x01>>)
  <2>1. (h = 0 \/ h = 1) /\ (s = 0 \/ s = 1)
    BY <1>3
  <2>2. z = IF h = 0 THEN s ELSE 1 - s
    BY <1>3, <2>1
  <2>3. r[4] = (IF z = 1 THEN x01 ELSE x10) /\ r[5] = (IF z = 1 THEN x10 ELSE x01)
    BY <1>4
  <2> HIDE DEF x10, x01
  <2>4. CASE h = 0
    <3>1. z = s
      BY <2>2, <2>4
    <3> QED BY <2>1, <2>3, <2>4, <3>1 DEF Swapped
  <2>5. CASE h = 1
    <3>1. z = 1 - s
      BY <2>2, <2>5
    <3> QED BY <2>1, <2>3, <2>5, <3>1 DEF Swapped
  <2> QED BY <2>1, <2>4, <2>5
<1>7. (a + b) % 2 = (IF (c + d) % 2 = 1 THEN 1 - par ELSE par) /\ (c + d) % 2 \in 0 .. 1
  <2> DEFINE k1 == a % 2
             k2 == b % 2
             w1 == w % 2
             v1 == v % 2
  <2>1. w1 \in 0 .. 1 /\ v1 \in 0 .. 1 /\ c \in 0 .. 1 /\ d \in 0 .. 1
    BY <1>1, <1>2
  <2>2. k1 = (c + w1) % 2 /\ k2 = (d + v1) % 2 /\ par = (w1 + v1) % 2 /\ (a + b) % 2 = (k1 + k2) % 2
    BY <1>1, <1>2 DEF par
  <2> HIDE DEF k1, k2, w1, v1
  <2>3. (w1 = 0 \/ w1 = 1) /\ (v1 = 0 \/ v1 = 1) /\ (c = 0 \/ c = 1) /\ (d = 0 \/ d = 1)
    BY <2>1
  <2>4. (k1 + k2) % 2 = (IF (c + d) % 2 = 1 THEN 1 - par ELSE par) /\ (c + d) % 2 \in 0 .. 1
    <3> DEFINE add(x, y) == (x + y) % 2
    <3>0. add(0, 0) = 0 /\ add(0, 1) = 1 /\ add(1, 0) = 1 /\ add(1, 1) = 0
      OBVIOUS
    <3>1. k1 = add(c, w1) /\ k2 = add(d, v1) /\ par = add(w1, v1)
      BY <2>2
    <3> HIDE DEF add
    <3>2. add(k1, k2) = (IF add(c, d) = 1 THEN 1 - par ELSE par) /\ add(c, d) \in 0 .. 1
      <4>1. 1 - 0 = 1 /\ 1 - 1 = 0 /\ 0 \in 0 .. 1 /\ 1 \in 0 .. 1
        OBVIOUS
      <4> QED BY <2>3, <3>0, <3>1, <4>1
    <3> QED BY <3>2 DEF add
  <2> QED BY <2>2, <2>4
<1>8. Swapped((c + d) % 2, <<r[6], r[7]>>) = Swapped((a + b) % 2, <<x11, xm>>)
  <2> DEFINE k1 == (c + d) % 2
             k2 == (a + b) % 2
  <2>1. k1 \in 0 .. 1 /\ par \in 0 .. 1 /\ k2 = (IF k1 = 1 THEN 1 - par ELSE par)
    BY <1>3, <1>7
  <2> HIDE DEF k1, k2, x11, xm
  <2>2. (k1 = 0 \/ k1 = 1) /\ (par = 0 \/ par = 1)
    BY <2>1
  <2>3. Swapped(k1, <<r[6], r[7]>>) = Swapped(k2, <<x11, xm>>)
    BY <1>4, <2>1, <2>2 DEF Swapped
  <2> QED BY <2>3 DEF k1, k2
<1>9. we - wo = 1 \/ wo - we = 1
  BY <1>1
<1>10. ve - vo = 1 \/ vo - ve = 1
  BY <1>2
<1>11. DifferentialAdd(r[1], r[3], r[6]) = X(e, OddOne(a), OddOne(b))
  <2>1. 1 % 2 = 1
    OBVIOUS
  <2>2. ASSUME NEW q \in Int, (we - wo = 1 /\ ve - vo = q) \/ (wo - we = 1 /\ vo - ve = q)
        PROVE  DifferentialAdd(X(e, we, ve), X(e, wo, vo), X(e, 1, q)) = X(e, we + wo, ve + vo)
    BY <1>1, <1>2, <2>1, <2>2, AddNear
  <2>3. CASE par = 1
    <3> DEFINE q == -1
    <3>1. q \in Int /\ ((we - wo = 1 /\ ve - vo = q) \/ (wo - we = 1 /\ vo - ve = q))
      <4>1. w % 2 # v % 2
        BY <2>3 DEF par
      <4> QED BY <1>1, <1>2, <4>1
    <3> HIDE DEF q
    <3>2. DifferentialAdd(X(e, we, ve), X(e, wo, vo), X(e, 1, q)) = X(e, we + wo, ve + vo)
      BY <2>2, <3>1
    <3>3. r[6] = X(e, 1, q)
      BY <1>4, <2>3 DEF q
    <3> HIDE DEF e, x10, x01, x11, xm
    <3> QED BY <1>1, <1>2, <1>4, <3>2, <3>3
  <2>4. CASE par = 0
    <3>1. (we - wo = 1 /\ ve - vo = 1) \/ (wo - we = 1 /\ vo - ve = 1)
      <4>1. w % 2 = v % 2
        BY <2>4 DEF par
      <4> QED BY <1>1, <1>2, <4>1
    <3>2. DifferentialAdd(X(e, we, ve), X(e, wo, vo), X(e, 1, 1)) = X(e, we + wo, ve + vo)
      BY <2>2, <3>1
    <3>3. r[6] = X(e, 1, 1)
      BY <1>4, <2>4
    <3> HIDE DEF e, x10, x01, x11, xm
    <3> QED BY <1>1, <1>2, <1>4, <3>2, <3>3
  <2> QED BY <1>3, <2>3, <2>4
<1>12. ASSUME NEW g \in Int
       PROVE  /\ DifferentialAdd(X(e, we, g), X(e, wo, g), x10) = X(e, we + wo, 2 * g)
              /\ DifferentialAdd(X(e, g, ve), X(e, g, vo), x01) = X(e, 2 * g, ve + vo)
  <2>1. 1 % 2 = 1 /\ g - g = 0 /\ g + g = 2 * g
    OBVIOUS
  <2>2. DifferentialAdd(X(e, we, g), X(e, wo, g), X(e, 1, 0)) = X(e, we + wo, g + g)
    BY <1>1, <1>9, <2>1, AddNear
  <2>3. DifferentialAdd(X(e, g, ve), X(e, g, vo), X(e, 0, 1)) = X(e, g + g, ve + vo)
    BY <1>2, <1>10, <2>1, AddNear
  <2> QED BY <2>1, <2>2, <2>3
<1>13. DifferentialAdd(Select(h, r[1], r[2]), Select(h, r[2], r[3]), Swapped(h, <<r[4], r[5]>>)[1])
         = IF s = 0 THEN X(e, OddOne(a), EvenOne(b)) ELSE X(e, EvenOne(a), OddOne(b))
  <2> HIDE DEF e, x10, x01, x11, xm
  <2>1. CASE s = 0
    <3> DEFINE g == IF d = 0 THEN ve ELSE vo
    <3>1. Select(h, r[1], r[2]) = X(e, we, g) /\ Select(h, r[2], r[3]) = X(e, wo, g)
      BY <1>2, <1>3, <1>4, <2>1 DEF Select
    <3>2. Swapped(h, <<r[4], r[5]>>)[1] = x10
      BY <1>6, <2>1 DEF Swapped
    <3>3. g \in Int /\ EvenOne(b) = 2 * g /\ OddOne(a) = we + wo
      BY <1>1, <1>2
    <3> HIDE DEF g
    <3> QED BY <1>12, <2>1, <3>1, <3>2, <3>3
  <2>2. CASE s = 1
    <3> DEFINE g == IF c = 0 THEN we ELSE wo
    <3>1. Select(h, r[1], r[2]) = X(e, g, ve) /\ Select(h, r[2], r[3]) = X(e, g, vo)
      BY <1>1, <1>3, <1>4, <2>2 DEF Select
    <3>2. Swapped(h, <<r[4], r[5]>>)[1] = x01
      BY <1>6, <2>2 DEF Swapped
    <3>3. g \in Int /\ EvenOne(a) = 2 * g /\ OddOne(b) = ve + vo
      BY <1>1, <1>2
    <3> HIDE DEF g
    <3> QED BY <1>12, <2>2, <3>1, <3>2, <3>3
  <2> QED BY <2>1, <2>2
<1> QED BY <1>5, <1>6, <1>8, <1>11, <1>13 DEF Evaluated

\* An iteration puts its registers in the order of Around, the difference it
\* has used first.
Assembled(x, y, z, d1, d2, s, a, b) ==
    <<x, y, z>> \o (d1 \o d2) = Around(job.e, s, a, b) /\ (d1 \o d2)[1] = d1[1]

\* The tuples an iteration assembles.
LEMMA AroundAgain ==
  ASSUME NEW x, NEW y, NEW z, NEW s, NEW a, NEW b, NEW d1, NEW d2,
         x = X(job.e, EvenOne(a), EvenOne(b)),
         y = (IF s = 0 THEN X(job.e, OddOne(a), EvenOne(b)) ELSE X(job.e, EvenOne(a), OddOne(b))),
         z = X(job.e, OddOne(a), OddOne(b)),
         d1 = Swapped(s, <<X(job.e, 1, 0), X(job.e, 0, 1)>>),
         d2 = Swapped((a + b) % 2, <<X(job.e, 1, 1), X(job.e, 1, -1)>>)
  PROVE  Assembled(x, y, z, d1, d2, s, a, b)
<1> DEFINE f == d1[1]
           g == d1[2]
           p == d2[1]
           q == d2[2]
<1>1. d1 = <<f, g>> /\ d2 = <<p, q>>
  BY DEF Swapped
<1> HIDE DEF f, g, p, q
<1>2. d1 \o d2 = <<f, g, p, q>>
  BY <1>1, Join22
<1>3. <<x, y, z>> \o <<f, g, p, q>> = <<x, y, z, f, g, p, q>>
  BY Join34
<1>4. Around(job.e, s, a, b) = <<x, y, z, f, g, p, q>>
  BY <1>1, AroundEntries
<1>5. <<f, g, p, q>>[1] = f
  OBVIOUS
<1> QED BY <1>2, <1>3, <1>4, <1>5 DEF f, Assembled

\* Registers around two prefixes hold points.
LEMMA AroundKnown ==
  ASSUME IsTorsionExponent(job.e), NEW s, NEW a \in Nat, NEW b \in Nat
  PROVE  Around(job.e, s, a, b) \in Seq(Known)
<1> DEFINE x == X(job.e, EvenOne(a), EvenOne(b))
           y == IF s = 0 THEN X(job.e, OddOne(a), EvenOne(b)) ELSE X(job.e, EvenOne(a), OddOne(b))
           z == X(job.e, OddOne(a), OddOne(b))
           d1 == Swapped(s, <<X(job.e, 1, 0), X(job.e, 0, 1)>>)
           d2 == Swapped((a + b) % 2, <<X(job.e, 1, 1), X(job.e, 1, -1)>>)
<1>1. EvenOne(a) \in Int /\ OddOne(a) \in Int /\ EvenOne(b) \in Int /\ OddOne(b) \in Int
  BY DEF EvenOne, OddOne
<1>2. x \in Known /\ y \in Known /\ z \in Known
  BY <1>1, XKnown
<1>3. /\ X(job.e, 1, 0) \in Known /\ X(job.e, 0, 1) \in Known
      /\ X(job.e, 1, 1) \in Known /\ X(job.e, 1, -1) \in Known
  <2>1. -1 \in Int
    OBVIOUS
  <2> QED BY <2>1, XKnown
<1>4. ASSUME NEW c, NEW k1 \in Known, NEW k2 \in Known
      PROVE  Swapped(c, <<k1, k2>>) \in Seq(Known)
  <2>1. ASSUME NEW S, NEW u \in S, NEW v \in S PROVE <<u, v>> \in Seq(S)
    OBVIOUS
  <2> QED BY <2>1 DEF Swapped
<1>5. d1 \in Seq(Known) /\ d2 \in Seq(Known)
  BY <1>3, <1>4
<1>6. <<x, y, z>> \in Seq(Known)
  <2> HIDE DEF x, y, z
  <2> QED BY <1>2, KnownRegisters
<1> HIDE DEF x, y, z, d1, d2
<1>7. (<<x, y, z>> \o d1) \o d2 \in Seq(Known)
  <2>1. \A u, v \in Seq(Known) : u \o v \in Seq(Known)
    BY ConcatProperties
  <2> QED BY <1>5, <1>6, <2>1
<1> QED BY <1>7 DEF Around, x, y, z, d1, d2

\* The loop starts from the prefix that has no bits: the identity, and the
\* two points that generate with their sum and their difference.
LEMMA BeginEvaluationInv == ASSUME LInv, BeginEvaluation PROVE LInv'
<1> DEFINE odd == Swapped(rec.sigma[1], <<XOnly(Base(job.e).P), XOnly(Base(job.e).PmQ)>>)
           sum == DifferentialAdd(odd[1], odd[2], XOnly(Base(job.e).Q))
<1>1. /\ lpc = "recode" /\ step = job.e /\ lpc' = "evaluate"
      /\ reg' = <<XOnly(O), odd[1], sum, odd[1], odd[2], sum, XOnly(Base(job.e).Q)>>
      /\ job' = job /\ step' = step /\ rec' = rec /\ out' = out
  BY DEF BeginEvaluation
<1>2. /\ job \in Jobs /\ job.op = "biscalar" /\ job.e > 1 /\ TwoScalars /\ out = NoPoint
      /\ Len(rec.digits) = job.e /\ job.e \in 1 .. F /\ IsTorsionExponent(job.e) /\ job.e \in Nat
  BY <1>1, JobType, Widths DEF LInv, CallInv, RecodeInv, TwoScalars
<1>3. PICK s \in [0 .. F -> 0 .. 1] :
        Recoded(s, rec.digits) /\ rec.sigma = <<s[step], 1 - s[step]>>
  BY <1>1 DEF LInv, RecodeInv
<1> DEFINE f == s[step]
           e == job.e
           x10 == X(e, 1, 0)
           x01 == X(e, 0, 1)
           x11 == X(e, 1, 1)
           xm == X(e, 1, -1)
<1>4. f \in 0 .. 1 /\ rec.sigma[1] = f
  BY <1>1, <1>2, <1>3, Widths
<1>5. /\ XOnly(O) = X(e, 0, 0) /\ XOnly(Base(e).P) = x10 /\ XOnly(Base(e).PmQ) = x01
      /\ XOnly(Base(e).Q) = xm
  BY <1>2, AtZero, BaseLevel DEF X
<1>6. odd = Swapped(f, <<x10, x01>>)
  BY <1>4, <1>5
<1>7. sum = x11
  <2> DEFINE q == -1
  <2>1. /\ 1 % 2 = 1 /\ q \in Int /\ 1 - 0 = 1 /\ 0 - 1 = q /\ 1 + 0 = 1 /\ 0 + 1 = 1
    OBVIOUS
  <2> HIDE DEF q, e
  <2>2. DifferentialAdd(X(e, 1, 0), X(e, 0, 1), X(e, 1, q)) = X(e, 1 + 0, 0 + 1)
    BY <1>2, <2>1, AddNear DEF e
  <2>3. DifferentialAdd(X(e, 0, 1), X(e, 1, 0), X(e, 1, q)) = X(e, 0 + 1, 1 + 0)
    BY <1>2, <2>1, AddNear DEF e
  <2>4. xm = X(e, 1, q)
    BY DEF q
  <2>5. odd = IF f = 1 THEN <<x01, x10>> ELSE <<x10, x01>>
    BY <1>6 DEF Swapped
  <2>6. XOnly(Base(job.e).Q) = X(e, 1, q)
    BY <1>5, <2>4 DEF e
  <2> HIDE DEF odd
  <2>7. sum = DifferentialAdd(odd[1], odd[2], X(e, 1, q))
    BY <2>6
  <2> HIDE DEF sum, xm
  <2> QED BY <2>1, <2>2, <2>3, <2>5, <2>7
<1>8. Prefix(0, step) = 0 /\ Prefix(1, step) = 0
  <2>1. 0 \in Nat /\ 0 < job.e
    BY <1>2
  <2> QED BY <1>1, <1>2, <2>1, PrefixStep
<1>9. EvenOne(0) = 0 /\ OddOne(0) = 1 /\ (0 + 0) % 2 = 0
  BY DEF EvenOne, OddOne
<1>10. reg' = Around(job.e, f, 0, 0)
  <2> DEFINE o1 == odd[1]
             o2 == odd[2]
             x00 == X(e, 0, 0)
  <2>1. <<o1, o2>> = Swapped(f, <<x10, x01>>) /\ o1 = (IF f = 0 THEN x10 ELSE x01)
    <3> HIDE DEF x10, x01, f, odd
    <3> QED BY <1>4, <1>6 DEF Swapped
  <2>2. reg' = <<x00, o1, x11, o1, o2, x11, xm>>
    BY <1>1, <1>5, <1>7
  <2>3. <<x11, xm>> = Swapped((0 + 0) % 2, <<x11, xm>>)
    BY <1>9 DEF Swapped
  <2> HIDE DEF o1, o2, f
  <2>4. Around(job.e, f, 0, 0) = <<x00, o1, x11, o1, o2, x11, xm>>
    BY <1>9, <2>1, <2>3, AroundEntries
  <2> QED BY <2>2, <2>4
<1>11. reg' \in Seq(Known)
  BY <1>2, <1>10, AroundKnown
<1>12. EvaluateInv'
  <2>1. \A c, i : Change(c, i)' = Change(c, i) /\ Prefix(c, i)' = Prefix(c, i)
    BY <1>1 DEF Change, Prefix, MadeOdd
  <2>2. FirstSigma' = FirstSigma
    BY <1>1 DEF FirstSigma, OneIsEven, Parities
  <2>3. Recoded(s, rec.digits)'
    BY <1>1, <1>3, <2>1, <2>2 DEF Recoded
  <2>4. Prefix(0, step)' = 0 /\ Prefix(1, step)' = 0
    BY <1>1, <1>8 DEF Prefix, MadeOdd
  <2>5. reg' = Around(job'.e, s[step'], Prefix(0, step)', Prefix(1, step)')
    BY <1>1, <1>10, <2>4
  <2>6. TwoScalars' /\ step' \in 0 .. job'.e /\ Len(rec'.digits) = job'.e
    BY <1>1, <1>2 DEF TwoScalars
  <2> QED BY <1>1, <2>3, <2>5, <2>6 DEF EvaluateInv
<1>13. LadderTypeOK'
  BY <1>1, <1>11 DEF LInv, LadderTypeOK
<1> QED
  BY <1>1, <1>2, <1>12, <1>13 DEF LInv, CallInv, ScalarInv, ThreePointInv, RecodeInv

\* An iteration: the prefixes grow by the bits that its digits compare.
LEMMA EvaluateStepInv == ASSUME LInv, Evaluate PROVE LInv'
<1> DEFINE digit == rec.digits[step]
           h == digit[1] + digit[2]
           d1 == Swapped(digit[2], <<reg[4], reg[5]>>)
           d2 == Swapped(h % 2, <<reg[6], reg[7]>>)
           t0 == Double(reg[h + 1])
           t1 == DifferentialAdd(Select(digit[2], reg[1], reg[2]), Select(digit[2], reg[2], reg[3]),
                                 (d1 \o d2)[1])
           t2 == DifferentialAdd(reg[1], reg[3], reg[6])
<1>1. /\ lpc = "evaluate" /\ step > 0 /\ lpc' = "evaluate" /\ step' = step - 1
      /\ reg' = <<t0, t1, t2>> \o (d1 \o d2)
      /\ job' = job /\ rec' = rec /\ out' = out
  BY DEF Evaluate, NextDifferences
<1>2. /\ job \in Jobs /\ job.op = "biscalar" /\ job.e > 1 /\ TwoScalars /\ out = NoPoint
      /\ Len(rec.digits) = job.e /\ job.e \in 1 .. F /\ IsTorsionExponent(job.e) /\ job.e \in Nat
      /\ step \in 0 .. job.e
  <2>1. job \in Jobs /\ TwoScalars /\ out = NoPoint /\ Len(rec.digits) = job.e /\ step \in 0 .. job.e
    BY <1>1 DEF LInv, CallInv, EvaluateInv
  <2>2. job.op = "biscalar" /\ job.e > 1
    BY <2>1 DEF TwoScalars
  <2>3. job.e \in 1 .. F /\ IsTorsionExponent(job.e) /\ job.e \in Nat
    BY <2>1, JobType, Widths
  <2> QED BY <2>1, <2>2, <2>3
<1>3. PICK s \in [0 .. F -> 0 .. 1] :
        /\ Recoded(s, rec.digits)
        /\ reg = Around(job.e, s[step], Prefix(0, step), Prefix(1, step))
  BY <1>1 DEF LInv, EvaluateInv
<1> DEFINE i == step - 1
           w == Prefix(0, i + 1)
           v == Prefix(1, i + 1)
           a == Prefix(0, i)
           b == Prefix(1, i)
           m == Bit(MadeOdd(0), i)
           n == Bit(MadeOdd(1), i)
           f == s[i]
           c == Change(0, i)
           d == Change(1, i)
<1>4. /\ i \in Nat /\ i < job.e /\ i + 1 = step /\ i \in 0 .. Len(rec.digits) - 1 /\ i \in 0 .. F
      /\ i \in 0 .. job.e /\ step' = i
  <2> DEFINE e == job.e
             l == Len(rec.digits)
  <2>1. /\ step > 0 /\ step \in 0 .. e /\ e \in 1 .. F /\ e \in Nat /\ l = e /\ F \in Nat
        /\ i = step - 1 /\ step' = step - 1
    BY <1>1, <1>2, Widths
  <2> HIDE DEF e, l, i
  <2>2. /\ i \in Nat /\ i < e /\ i + 1 = step /\ i \in 0 .. l - 1 /\ i \in 0 .. F
        /\ i \in 0 .. e /\ step' = i
    BY <2>1
  <2> QED BY <2>2 DEF e, l
<1> HIDE DEF i
<1>5. /\ w \in Nat /\ v \in Nat /\ a \in Nat /\ b \in Nat /\ m \in 0 .. 1 /\ n \in 0 .. 1
      /\ a = 2 * w + m /\ b = 2 * v + n
  <2>1. 0 \in 0 .. 1 /\ 1 \in 0 .. 1
    OBVIOUS
  <2> QED BY <1>2, <1>4, <2>1, PrefixStep
<1>6. c = (a + w) % 2 /\ d = (b + v) % 2 /\ c \in 0 .. 1 /\ d \in 0 .. 1
  <2>1. c = (a + w) % 2 /\ d = (b + v) % 2
    BY DEF Change
  <2>2. 0 \in 0 .. 1 /\ 1 \in 0 .. 1
    OBVIOUS
  <2> QED BY <1>2, <1>4, <2>1, <2>2, ChangeBits
<1>7. digit = <<Change(f, i), Change(1 - f, i)>> /\ s[step] = (f + Change(1 - f, i)) % 2
  <2>1. /\ rec.digits[i + 1] = <<Change(s[i], i), Change(1 - s[i], i)>>
        /\ s[i + 1] = (s[i] + Change(1 - s[i], i)) % 2
    BY <1>3, <1>4 DEF Recoded
  <2> QED BY <1>4, <2>1
<1>8. f \in 0 .. 1
  BY <1>4
<1> DEFINE g == IF f = 0 THEN d ELSE c
           z == (f + g) % 2
<1>9. digit[2] = g /\ h = c + d /\ s[step] = z
  <2> HIDE DEF c, d, digit, f
  <2>1. CASE f = 0
    <3>1. 1 - 0 = 1
      OBVIOUS
    <3> QED BY <1>7, <2>1, <3>1 DEF c, d
  <2>2. CASE f = 1
    <3>1. 1 - 1 = 0
      OBVIOUS
    <3>2. digit = <<d, c>> /\ s[step] = (f + c) % 2 /\ g = c
      BY <1>7, <2>2, <3>1 DEF c, d
    <3>3. c \in Int /\ d \in Int
      BY <1>6
    <3>4. digit[1] + digit[2] = c + d
      BY <3>2, <3>3
    <3> QED BY <3>2, <3>4
  <2> QED BY <1>8, <2>1, <2>2
<1>10. reg = Around(job.e, z, w, v)
  BY <1>3, <1>4, <1>9
<1> HIDE DEF w, v, a, b, m, n, f, c, d, g, z, digit, h
<1>11. Evaluated(w, v, a, b, c, d, f, g, reg)
  <2>1. g = (IF f = 0 THEN d ELSE c) /\ z = (f + g) % 2
    BY DEF g, z
  <2>2. Longer(a, w) /\ Longer(b, v)
    BY <1>5 DEF Longer
  <2> QED BY <1>2, <1>5, <1>6, <1>8, <1>10, <2>1, <2>2, EvaluateValues
<1>12. reg' = Around(job.e, f, a, b)
  <2> DEFINE u0 == X(job.e, EvenOne(a), EvenOne(b))
             u1 == IF f = 0 THEN X(job.e, OddOne(a), EvenOne(b)) ELSE X(job.e, EvenOne(a), OddOne(b))
             u2 == X(job.e, OddOne(a), OddOne(b))
             e1 == Swapped(f, <<X(job.e, 1, 0), X(job.e, 0, 1)>>)
             e2 == Swapped((a + b) % 2, <<X(job.e, 1, 1), X(job.e, 1, -1)>>)
  <2>1. /\ u0 = X(job.e, EvenOne(a), EvenOne(b))
        /\ u1 = (IF f = 0 THEN X(job.e, OddOne(a), EvenOne(b)) ELSE X(job.e, EvenOne(a), OddOne(b)))
        /\ u2 = X(job.e, OddOne(a), OddOne(b))
        /\ e1 = Swapped(f, <<X(job.e, 1, 0), X(job.e, 0, 1)>>)
        /\ e2 = Swapped((a + b) % 2, <<X(job.e, 1, 1), X(job.e, 1, -1)>>)
    OBVIOUS
  <2> HIDE DEF u0, u1, u2, e1, e2
  <2>2. <<u0, u1, u2>> \o (e1 \o e2) = Around(job.e, f, a, b) /\ (e1 \o e2)[1] = e1[1]
    <3>1. Assembled(u0, u1, u2, e1, e2, f, a, b)
      BY <2>1, AroundAgain
    <3> QED BY <3>1 DEF Assembled
  <2>3. /\ Double(reg[c + d + 1]) = u0 /\ DifferentialAdd(reg[1], reg[3], reg[6]) = u2
        /\ DifferentialAdd(Select(g, reg[1], reg[2]), Select(g, reg[2], reg[3]),
                           Swapped(g, <<reg[4], reg[5]>>)[1]) = u1
        /\ Swapped(g, <<reg[4], reg[5]>>) = e1 /\ Swapped((c + d) % 2, <<reg[6], reg[7]>>) = e2
    BY <1>11, <2>1 DEF Evaluated
  <2>4. d1 = e1 /\ d2 = e2 /\ t0 = u0 /\ t2 = u2
    BY <1>9, <2>3
  <2>5. t1 = u1
    BY <1>9, <2>2, <2>3, <2>4
  <2> HIDE DEF d1, d2, t0, t1, t2
  <2> QED BY <1>1, <2>2, <2>4, <2>5
<1>13. reg' \in Seq(Known)
  BY <1>2, <1>5, <1>12, AroundKnown
<1>14. EvaluateInv'
  <2>1. \A k1, k2 : Change(k1, k2)' = Change(k1, k2)
    BY <1>1 DEF Change, Prefix, MadeOdd
  <2>2. FirstSigma' = FirstSigma
    BY <1>1 DEF FirstSigma, OneIsEven, Parities
  <2>3. Recoded(s, rec.digits)'
    BY <1>1, <1>3, <2>1, <2>2 DEF Recoded
  <2>4. Prefix(0, step)' = a /\ Prefix(1, step)' = b
    BY <1>1, <1>4 DEF Prefix, MadeOdd, a, b
  <2>5. reg' = Around(job'.e, s[step'], Prefix(0, step)', Prefix(1, step)')
    <3>1. s[step'] = f
      BY <1>4 DEF f
    <3> QED BY <1>1, <1>12, <2>4, <3>1
  <2>6. TwoScalars' /\ step' \in 0 .. job'.e /\ Len(rec'.digits) = job'.e
    BY <1>1, <1>2, <1>4 DEF TwoScalars
  <2> QED BY <1>1, <2>3, <2>5, <2>6 DEF EvaluateInv
<1>15. LadderTypeOK'
  <2>1. step' \in 0 .. Width
    BY <1>2, <1>4, Widths
  <2> QED BY <1>1, <1>13, <2>1 DEF LInv, LadderTypeOK
<1> QED
  BY <1>1, <1>2, <1>14, <1>15 DEF LInv, CallInv, ScalarInv, ThreePointInv, RecodeInv

\* The register a scalar's parity chooses is the scalar itself, up to the order.
LEMMA ChosenOne ==
  ASSUME job \in Jobs, job.op = "biscalar", NEW z \in 0 .. 2^job.e - 1,
         NEW a, a = SubOne(z) % 2^job.e
  PROVE  /\ EvenOne(a) \in Int /\ OddOne(a) \in Int /\ z \in Nat
         /\ z % 2 = 1 => Congruent(OddOne(a), z, job.e)
         /\ z % 2 = 0 => Congruent(EvenOne(a), z, job.e)
<1>1. z \in Nat /\ job.e \in Nat
  BY JobType, Level
<1>2. /\ a \in Nat /\ (z % 2 = 1 => a = z)
      /\ (z % 2 = 0 => a % 2 = 1 /\ Congruent(a + 1, z, job.e))
  BY OddScalar
<1>3. z % 2 = 1 => OddOne(a) = z
  BY <1>1, <1>2 DEF OddOne
<1>4. z % 2 = 0 => EvenOne(a) = a + 1
  BY <1>2 DEF EvenOne
<1>5. EvenOne(a) \in Int /\ OddOne(a) \in Int
  BY <1>2 DEF EvenOne, OddOne
<1> QED BY <1>1, <1>2, <1>3, <1>4, <1>5, CongruentSelf

\* The ladder of two scalars returns what it was asked for.
LEMMA EvaluateReturnsInv == ASSUME LInv, EvaluateReturns PROVE LInv'
<1>1. /\ lpc = "evaluate" /\ step = 0 /\ lpc' = "returned" /\ out' = Output
      /\ job' = job /\ step' = step /\ rec' = rec /\ reg' = reg
  BY DEF EvaluateReturns, Return
<1>2. /\ job \in Jobs /\ job.op = "biscalar" /\ job.e > 1 /\ TwoScalars /\ out = NoPoint
      /\ Len(rec.digits) = job.e /\ job.e \in 1 .. F /\ IsTorsionExponent(job.e) /\ job.e \in Nat
      /\ job.m \in 0 .. 2^job.e - 1 /\ job.n \in 0 .. 2^job.e - 1
  BY <1>1, JobType, Widths DEF LInv, CallInv, EvaluateInv, TwoScalars
<1>3. PICK s \in [0 .. F -> 0 .. 1] :
        /\ Recoded(s, rec.digits)
        /\ reg = Around(job.e, s[step], Prefix(0, step), Prefix(1, step))
  BY <1>1 DEF LInv, EvaluateInv
<1> DEFINE a == SubOne(job.m) % 2^job.e
           b == SubOne(job.n) % 2^job.e
           p == Parities[1]
           q == Parities[2]
           e == job.e
<1>4. /\ EvenOne(a) \in Int /\ OddOne(a) \in Int /\ job.m \in Nat
      /\ (job.m % 2 = 1 => Congruent(OddOne(a), job.m, e))
      /\ (job.m % 2 = 0 => Congruent(EvenOne(a), job.m, e))
  BY <1>2, ChosenOne
<1>5. /\ EvenOne(b) \in Int /\ OddOne(b) \in Int /\ job.n \in Nat
      /\ (job.n % 2 = 1 => Congruent(OddOne(b), job.n, e))
      /\ (job.n % 2 = 0 => Congruent(EvenOne(b), job.n, e))
  BY <1>2, ChosenOne
<1>6. Prefix(0, 0) = a /\ Prefix(1, 0) = b
  <2>1. a \in Nat /\ b \in Nat
    BY <1>2, OddScalar
  <2> HIDE DEF a, b
  <2>2. a \div 2^0 = a /\ b \div 2^0 = b
    BY <2>1, Pow2Zero
  <2> QED BY <2>2 DEF Prefix, MadeOdd, a, b
<1>7. p = job.m % 2 /\ q = job.n % 2 /\ p \in 0 .. 1 /\ q \in 0 .. 1
  BY <1>4, <1>5, BitZero DEF Parities
<1>8. reg = Around(e, FirstSigma, a, b)
  BY <1>1, <1>3, <1>6 DEF Recoded
<1> HIDE DEF a, b, p, q
<1>9. /\ reg[1] = X(e, EvenOne(a), EvenOne(b))
      /\ reg[2] = (IF FirstSigma = 0 THEN X(e, OddOne(a), EvenOne(b)) ELSE X(e, EvenOne(a), OddOne(b)))
      /\ reg[3] = X(e, OddOne(a), OddOne(b))
  <2> DEFINE d1 == Swapped(FirstSigma, <<X(e, 1, 0), X(e, 0, 1)>>)
             d2 == Swapped((a + b) % 2, <<X(e, 1, 1), X(e, 1, -1)>>)
             x == X(e, EvenOne(a), EvenOne(b))
             y == IF FirstSigma = 0 THEN X(e, OddOne(a), EvenOne(b)) ELSE X(e, EvenOne(a), OddOne(b))
             z == X(e, OddOne(a), OddOne(b))
             f1 == d1[1]
             f2 == d1[2]
             g1 == d2[1]
             g2 == d2[2]
  <2>1. <<f1, f2>> = d1 /\ <<g1, g2>> = d2
    BY DEF Swapped
  <2> HIDE DEF f1, f2, g1, g2
  <2>2. Around(e, FirstSigma, a, b) = <<x, y, z, f1, f2, g1, g2>>
    BY <2>1, AroundEntries
  <2> HIDE DEF x, y, z
  <2>3. reg[1] = x /\ reg[2] = y /\ reg[3] = z
    BY <1>8, <2>2
  <2> QED BY <2>3 DEF x, y, z
<1>10. /\ OneIsEven = (p + q) % 2 /\ FirstSigma = (IF OneIsEven = 1 THEN 1 - p ELSE 0)
       /\ Output = Select(p * q, Select(OneIsEven, reg[1], reg[2]), reg[3])
  BY DEF OneIsEven, FirstSigma, Output, p, q
<1>11. out' = X(e, IF p = 1 THEN OddOne(a) ELSE EvenOne(a), IF q = 1 THEN OddOne(b) ELSE EvenOne(b))
  <2> HIDE DEF e
  <2>1. CASE p = 0 /\ q = 0
    <3>1. p * q = 0 /\ OneIsEven = 0
      BY <1>10, <2>1
    <3> QED BY <1>1, <1>9, <1>10, <2>1, <3>1 DEF Select
  <2>2. CASE p = 1 /\ q = 1
    <3>1. p * q = 1
      BY <2>2
    <3> QED BY <1>1, <1>9, <1>10, <2>2, <3>1 DEF Select
  <2>3. CASE p = 1 /\ q = 0
    <3>1. p * q = 0 /\ OneIsEven = 1 /\ FirstSigma = 0
      BY <1>10, <2>3
    <3> QED BY <1>1, <1>9, <1>10, <2>3, <3>1 DEF Select
  <2>4. CASE p = 0 /\ q = 1
    <3>1. p * q = 0 /\ OneIsEven = 1 /\ FirstSigma = 1
      BY <1>10, <2>4
    <3> QED BY <1>1, <1>9, <1>10, <2>4, <3>1 DEF Select
  <2> QED BY <1>7, <2>1, <2>2, <2>3, <2>4
<1>12. out' = X(e, job.m, job.n)
  <2> DEFINE x == IF p = 1 THEN OddOne(a) ELSE EvenOne(a)
             y == IF q = 1 THEN OddOne(b) ELSE EvenOne(b)
  <2>1. x \in Int /\ y \in Int /\ Congruent(x, job.m, e) /\ Congruent(y, job.n, e)
    BY <1>4, <1>5, <1>7
  <2>2. out' = X(e, x, y)
    BY <1>11
  <2> HIDE DEF x, y
  <2>3. X(e, x, y) = X(e, job.m, job.n)
    BY <1>2, <1>4, <1>5, <2>1, XSame
  <2> QED BY <2>2, <2>3
<1>13. XOnly(Expected) = X(e, job.m, job.n) /\ Expected' = Expected
  <2>1. Expected' = Expected
    BY <1>1 DEF Expected
  <2> QED BY <1>2, <2>1, ExpectedPair
<1>14. out' = XOnly(Expected') /\ out' \subseteq Point
  <2>1. X(e, job.m, job.n) \in Known
    BY <1>2, <1>4, <1>5, XKnown
  <2> QED BY <1>12, <1>13, <2>1, KnownPoints
<1>15. LadderTypeOK'
  BY <1>1, <1>14 DEF LInv, LadderTypeOK
<1> QED
  BY <1>1, <1>2, <1>14, <1>15 DEF LInv, CallInv, ScalarInv, ThreePointInv, RecodeInv, EvaluateInv

-----------------------------------------------------------------------------
(* What the ladders promise                                                *)

\* A step that leaves the ladder alone leaves what is known of it alone.
LEMMA LadderUnmoved == ASSUME LInv, UNCHANGED ladderVars PROVE LInv'
<1>1. /\ lpc' = lpc /\ job' = job /\ step' = step /\ rec' = rec /\ reg' = reg /\ out' = out
  BY DEF ladderVars
<1>2. Expected' = Expected
  BY <1>1 DEF Expected
<1>3. LadderTypeOK' /\ CallInv'
  BY <1>1, <1>2 DEF LInv, LadderTypeOK, CallInv
<1>4. ScalarInv' /\ ThreePointInv'
  BY <1>1 DEF LInv, ScalarInv, ThreePointInv, ScalarBit, Top, Low
<1>5. /\ \A s, digits : Recoded(s, digits)' <=> Recoded(s, digits)
      /\ TwoScalars' <=> TwoScalars
      /\ MadeOdd(0)' = MadeOdd(0) /\ MadeOdd(1)' = MadeOdd(1)
      /\ \A i : Prefix(0, i)' = Prefix(0, i) /\ Prefix(1, i)' = Prefix(1, i)
  BY <1>1 DEF Recoded, FirstSigma, OneIsEven, Parities, Change, Prefix, MadeOdd, TwoScalars
<1>6. RecodeInv' /\ EvaluateInv'
  BY <1>1, <1>5 DEF LInv, RecodeInv, EvaluateInv
<1> QED BY <1>3, <1>4, <1>6 DEF LInv

\* The invariant of the ladders is inductive: one case for each of their steps.
LEMMA LadderInductive == ASSUME LInv, [Next]_vars PROVE LInv'
<1>1. CASE LadderNext
  BY <1>1, ScalarStepInv, ScalarReturnsInv, LadderStepInv, LadderReturnsInv, LookupInv,
     BeginRecodingInv, RecodeStepInv, BeginEvaluationInv, EvaluateStepInv, EvaluateReturnsInv
     DEF LadderNext
<1>2. CASE ~LadderNext
  <2>1. UNCHANGED ladderVars
    BY <1>2 DEF Next, vars
  <2> QED BY <2>1, LadderUnmoved
<1> QED BY <1>1, <1>2

\* The invariant of the ladders holds throughout.
LEMMA LaddersHold == Spec => []LInv
<1>1. Init => LInv
  BY InitLadder
<1>2. LInv /\ [Next]_vars => LInv'
  BY LadderInductive
<1> QED BY <1>1, <1>2, PTL DEF Spec

\* Whatever the width, the exponent and the scalars, zero and even ones among
\* them, a ladder that returns has the combination it is named for, up to the
\* sign that an x-coordinate does not tell.  (curves/mod.rs, scalar_mul,
\* scalar_mul_add and biscalar_mul)
THEOREM LaddersAreExact == Spec => []LadderExact
<1>1. LInv => LadderExact
  BY DEF LInv, CallInv, LadderExact
<1> QED BY <1>1, LaddersHold, PTL

\* No register ever holds what a wrong or degenerate difference gives.
THEOREM DifferencesAreKnown == Spec => []DifferencesKnown
<1>1. LInv => DifferencesKnown
  <2> SUFFICES ASSUME LInv, NEW i \in 1 .. Len(reg) PROVE reg[i] # NoPoint
    BY DEF DifferencesKnown
  <2>1. reg \in Seq(Known)
    BY DEF LInv, LadderTypeOK
  <2>2. reg[i] \in Known
    BY <2>1
  <2> QED BY <2>2, KnownPoints
<1> QED BY <1>1, LaddersHold, PTL

-----------------------------------------------------------------------------
(* The chain between surfaces                                              *)

\* Sequence number i of a chain's isogenies before its tail.
FormAt(i) ==
    IF i = 1 THEN "gluing"
    ELSE IF mode = "exact" \/ i < chainLength - 1 THEN "interior"
    ELSE IF i = chainLength THEN "ultimate" ELSE "penultimate"

FormsSoFar == \A i \in 1 .. Len(forms) : forms[i] = FormAt(i)

LaidOut == chainLength >= Shortest(mode)

\* The first pair's order counts the isogenies that are left, which is what
\* ties the strategy to the count the forms are chosen by.
GlueInv ==
    tpc = "glue" =>
        /\ LaidOut /\ forms = << >> /\ last = NoKernel
        /\ Len(strategy) >= 1 /\ strategy[1] = FirstOrder(mode, chainLength)
        /\ mode = "padded" => remaining = chainLength - 1

StepsInv ==
    tpc = "steps" =>
        /\ LaidOut /\ FormsSoFar /\ Len(forms) >= 1
        /\ Len(strategy) >= 1 => Len(forms) + strategy[1] = FirstOrder(mode, chainLength)
        /\ strategy = << >> => Len(forms) = FirstOrder(mode, chainLength)
        /\ mode = "padded" => remaining = chainLength - Len(forms)
        /\ mode = "exact" => last = IF strategy = << >> THEN 3 ELSE NoKernel

TailInv ==
    tpc = "tail" =>
        /\ LaidOut /\ FormsSoFar /\ mode = "exact"
        /\ Len(forms) = chainLength - 2 /\ last = 3

ThetaInv ==
    /\ ThetaTypeOK /\ ThetaStrategySound
    /\ GlueInv /\ StepsInv /\ TailInv /\ FormsInOrder /\ TailHasItsPair

-----------------------------------------------------------------------------
\* A strategy that gains a pair of smaller order stays sound.
LEMMA PushDownSound ==
    ASSUME ThetaTypeOK, ThetaStrategySound, Len(strategy) >= 1,
           NEW n \in Nat, n >= 1, n < bottom, PushDown(n)
    PROVE  /\ strategy' \in Seq(Nat) /\ torsion' \in Seq(Nat)
           /\ Len(strategy') = Len(torsion') /\ Len(strategy') >= 2
           /\ strategy'[1] = strategy[1]
           /\ ThetaStrategySound'
<1>1. /\ strategy \in Seq(Nat) /\ torsion \in Seq(Nat) /\ Len(strategy) = Len(torsion)
      /\ depth \in Nat /\ depth >= 1
      /\ bottom \in Nat /\ torsion[depth] \in Nat /\ torsion[depth] = bottom + 2
  BY DEF ThetaTypeOK, ThetaStrategySound, depth, bottom
<1>2. bottom - n \in Nat /\ bottom - n >= 1 /\ torsion[depth] - n \in Nat
  BY <1>1
<1>3. strategy' = Append(strategy, bottom - n) /\ torsion' = Append(torsion, torsion[depth] - n)
  BY DEF PushDown
<1>4. /\ Len(strategy') = depth + 1 /\ Len(torsion') = depth + 1
      /\ \A i \in 1 .. depth : strategy'[i] = strategy[i] /\ torsion'[i] = torsion[i]
      /\ strategy'[depth + 1] = bottom - n /\ torsion'[depth + 1] = torsion[depth] - n
  BY <1>1, <1>2, <1>3 DEF depth
<1>5. strategy' \in Seq(Nat) /\ torsion' \in Seq(Nat)
  BY <1>1, <1>2, <1>3
<1>6. \A i \in 1 .. depth + 1 : strategy'[i] >= 1 /\ torsion'[i] = strategy'[i] + 2
  <2> TAKE i \in 1 .. depth + 1
  <2>1. CASE i <= depth
    <3>1. strategy'[i] = strategy[i] /\ torsion'[i] = torsion[i]
      BY <2>1, <1>1, <1>4
    <3>2. strategy[i] >= 1 /\ torsion[i] = strategy[i] + 2
      BY <2>1, <1>1 DEF ThetaStrategySound
    <3> QED  BY <3>1, <3>2
  <2>2. CASE i = depth + 1
    BY <2>2, <1>1, <1>2, <1>4
  <2> QED  BY <2>1, <2>2, <1>1
<1>7. \A i \in 1 .. depth : strategy'[i] > strategy'[i + 1]
  <2> TAKE i \in 1 .. depth
  <2>1. CASE i < depth
    BY <2>1, <1>1, <1>4 DEF ThetaStrategySound
  <2>2. CASE i = depth
    BY <2>2, <1>1, <1>2, <1>4 DEF bottom, depth
  <2> QED  BY <2>1, <2>2, <1>1
<1> QED  BY <1>1, <1>4, <1>5, <1>6, <1>7 DEF ThetaStrategySound, depth

\* A strategy whose bottom pair is used up stays sound.
LEMMA PushStrategySound ==
    ASSUME ThetaTypeOK, ThetaStrategySound, Len(strategy) >= 1, PushStrategy
    PROVE  /\ strategy' \in Seq(Nat) /\ torsion' \in Seq(Nat)
           /\ Len(strategy') = Len(torsion') /\ Len(strategy') = Len(strategy) - 1
           /\ Len(strategy) >= 2 => strategy'[1] = strategy[1] - 1
           /\ ThetaStrategySound'
<1>1. /\ strategy \in Seq(Nat) /\ torsion \in Seq(Nat) /\ Len(strategy) = Len(torsion)
      /\ depth \in Nat /\ depth >= 1
  BY DEF ThetaTypeOK, depth
<1>2. /\ strategy' = [i \in 1 .. depth - 1 |-> strategy[i] - 1]
      /\ torsion' = [i \in 1 .. depth - 1 |-> torsion[i] - 1]
  BY DEF PushStrategy, Pushed, depth
<1>3. \A i \in 1 .. depth - 1 :
         /\ strategy[i] \in Nat /\ torsion[i] \in Nat /\ strategy[i + 1] \in Nat
         /\ strategy[i] > strategy[i + 1] /\ strategy[i + 1] >= 1
         /\ torsion[i] = strategy[i] + 2
  <2> TAKE i \in 1 .. depth - 1
  <2>1. i \in 1 .. depth /\ i + 1 \in 1 .. depth
    BY <1>1
  <2>2. strategy[i] \in Nat /\ torsion[i] \in Nat /\ strategy[i + 1] \in Nat
    BY <1>1, <2>1 DEF depth
  <2>3. strategy[i] > strategy[i + 1]
    BY DEF ThetaStrategySound
  <2>4. strategy[i + 1] >= 1 /\ torsion[i] = strategy[i] + 2
    BY <2>1 DEF ThetaStrategySound
  <2> QED BY <2>2, <2>3, <2>4
<1>4. strategy' \in [1 .. depth - 1 -> Nat] /\ torsion' \in [1 .. depth - 1 -> Nat]
  <2>1. \A i \in 1 .. depth - 1 : strategy[i] - 1 \in Nat /\ torsion[i] - 1 \in Nat
    <3> TAKE i \in 1 .. depth - 1
    <3>1. /\ strategy[i] \in Nat /\ strategy[i] >= 1
          /\ torsion[i] \in Nat /\ torsion[i] >= 1
      BY <1>3
    <3> QED  BY <3>1
  <2> QED  BY <2>1, <1>2
<1>5. /\ strategy' \in Seq(Nat) /\ torsion' \in Seq(Nat)
      /\ Len(strategy') = depth - 1 /\ Len(torsion') = depth - 1
  <2> DEFINE size == depth - 1
  <2>1. size \in Nat
    BY <1>1
  <2>2. strategy' \in [1 .. size -> Nat] /\ torsion' \in [1 .. size -> Nat]
    BY <1>4
  <2> HIDE DEF size
  <2>3. /\ strategy' \in Seq(Nat) /\ torsion' \in Seq(Nat)
        /\ Len(strategy') = size /\ Len(torsion') = size
    BY <2>1, <2>2
  <2> QED  BY <2>3 DEF size
<1>6. \A i \in 1 .. depth - 1 : strategy'[i] = strategy[i] - 1 /\ torsion'[i] = torsion[i] - 1
  BY <1>2
<1>7. ASSUME NEW i \in 1 .. depth - 1
      PROVE  strategy'[i] >= 1 /\ torsion'[i] = strategy'[i] + 2
  BY <1>3, <1>6, <1>7
<1>8. ASSUME NEW i \in 1 .. depth - 2
      PROVE  strategy'[i] > strategy'[i + 1]
  <2>1. i \in 1 .. depth - 1 /\ i + 1 \in 1 .. depth - 1
    BY <1>1, <1>8
  <2> QED  BY <2>1, <1>3, <1>6
<1> QED  BY <1>1, <1>5, <1>6, <1>7, <1>8 DEF ThetaStrategySound, depth

\* The invariant holds of a chain that has just been called.
LEMMA CalledInv == ThetaInit => ThetaInv
<1> SUFFICES ASSUME ThetaInit PROVE ThetaInv
  OBVIOUS
<1>1. PICK m \in {"padded", "exact"}, e \in ChainLengths : Called(m, e)
  BY DEF ThetaInit
<1>2. /\ mode = m /\ chainLength = e /\ e \in Nat
      /\ last = NoKernel /\ forms = << >>
  BY <1>1, ThetaAssumption DEF Called
<1>3. CASE e < Shortest(m)
  <2>1. tpc = "none" /\ strategy = << >> /\ torsion = << >> /\ remaining = 0
    BY <1>1, <1>3 DEF Called
  <2> QED
    BY <1>2, <2>1 DEF ThetaInv, ThetaTypeOK, ThetaStrategySound, GlueInv, StepsInv, TailInv,
                      FormsInOrder, TailHasItsPair, depth, NoKernel
<1>4. CASE ~(e < Shortest(m))
  <2>1. /\ tpc = "glue" /\ remaining = e - 1
        /\ strategy = <<FirstOrder(m, e)>> /\ torsion = <<KernelOrder(m, e)>>
    BY <1>1, <1>4 DEF Called
  <2>2. /\ FirstOrder(m, e) \in Nat /\ FirstOrder(m, e) >= 1
        /\ KernelOrder(m, e) = FirstOrder(m, e) + 2 /\ KernelOrder(m, e) \in Nat
    BY <1>2, <1>4 DEF FirstOrder, KernelOrder, Shortest
  <2>3. LaidOut
    BY <1>2, <1>4 DEF LaidOut, Shortest
  <2>4. ThetaTypeOK
    BY <1>2, <2>1, <2>2 DEF ThetaTypeOK, NoKernel
  <2>5. ThetaStrategySound
    BY <2>1, <2>2 DEF ThetaStrategySound, depth
  <2>6. GlueInv
    BY <1>2, <2>1, <2>3 DEF GlueInv
  <2> QED
    BY <2>1, <2>4, <2>5, <2>6 DEF ThetaInv, StepsInv, TailInv, FormsInOrder, TailHasItsPair
<1> QED  BY <1>3, <1>4

\* Halving, and going down at once, both stop short of zero.
LEMMA DoublingsInRange ==
    ASSUME NEW o \in Nat, o >= 1, o # 1
    PROVE  /\ GluingDoublings(o) \in Nat /\ GluingDoublings(o) >= 1 /\ GluingDoublings(o) < o
           /\ o \div 2 \in Nat /\ o \div 2 >= 1 /\ o \div 2 < o
  BY DEF GluingDoublings

\* Going down the strategy, before the gluing or after it, keeps the invariant.
LEMMA DescendInv ==
    ASSUME ThetaInv, DescendToGluing \/ DescendToStep
    PROVE  ThetaInv'
<1>1. Len(strategy) >= 1 /\ strategy \in Seq(Nat)
  <2>1. CASE DescendToGluing
    BY <2>1 DEF ThetaInv, GlueInv, ThetaTypeOK, DescendToGluing
  <2>2. CASE DescendToStep
    BY <2>2 DEF ThetaInv, ThetaTypeOK, DescendToStep
  <2> QED  BY <2>1, <2>2
<1>2. bottom \in Nat /\ bottom >= 1 /\ bottom # 1
  BY <1>1 DEF ThetaInv, ThetaStrategySound, DescendToGluing, DescendToStep, PushDown, bottom, depth
<1>3. PICK n \in Nat : n >= 1 /\ n < bottom /\ PushDown(n)
  BY <1>2, DoublingsInRange DEF DescendToGluing, DescendToStep
<1>4. /\ strategy' \in Seq(Nat) /\ torsion' \in Seq(Nat)
      /\ Len(strategy') = Len(torsion') /\ Len(strategy') >= 2
      /\ strategy'[1] = strategy[1]
      /\ ThetaStrategySound'
  BY <1>1, <1>3, PushDownSound DEF ThetaInv
<1>5. UNCHANGED <<tpc, mode, chainLength, remaining, last, forms>>
  BY <1>3 DEF PushDown
<1>6. tpc = "glue" \/ tpc = "steps"
  BY DEF DescendToGluing, DescendToStep
<1>7. ThetaTypeOK'
  BY <1>4, <1>5 DEF ThetaInv, ThetaTypeOK
<1>8. GlueInv'
  BY <1>4, <1>5 DEF ThetaInv, GlueInv, LaidOut
<1>9. StepsInv'
  <2>1. FormsSoFar' <=> FormsSoFar
    BY <1>5 DEF FormsSoFar, FormAt
  <2>2. strategy' # << >> /\ strategy # << >>
    BY <1>1, <1>4
  <2> QED
    BY <1>1, <1>4, <1>5, <2>1, <2>2 DEF ThetaInv, StepsInv, LaidOut
<1> QED
  BY <1>4, <1>5, <1>6, <1>7, <1>8, <1>9 DEF ThetaInv, TailInv, FormsInOrder, TailHasItsPair

\* The gluing uses up a pair that is not the first.
LEMMA GlueKeepsInv == ASSUME ThetaInv, Glue PROVE ThetaInv'
<1>1. /\ LaidOut /\ forms = << >> /\ last = NoKernel
      /\ Len(strategy) >= 1 /\ strategy[1] = FirstOrder(mode, chainLength)
      /\ mode = "padded" => remaining = chainLength - 1
      /\ bottom = 1 /\ PushStrategy
      /\ forms' = <<"gluing">> /\ tpc' = "steps"
      /\ UNCHANGED <<mode, chainLength, remaining, last>>
  BY DEF ThetaInv, GlueInv, Glue
<1>2. /\ chainLength \in Nat /\ mode \in {"padded", "exact"} /\ strategy \in Seq(Nat)
      /\ remaining \in Int /\ last \in Nat
  BY DEF ThetaInv, ThetaTypeOK
<1>3. FirstOrder(mode, chainLength) \in Nat /\ FirstOrder(mode, chainLength) >= 2
  BY <1>1, <1>2 DEF LaidOut, FirstOrder, Shortest
<1>4. Len(strategy) >= 2
  BY <1>1, <1>2, <1>3 DEF bottom, depth
<1>5. /\ strategy' \in Seq(Nat) /\ torsion' \in Seq(Nat)
      /\ Len(strategy') = Len(torsion') /\ Len(strategy') = Len(strategy) - 1
      /\ strategy'[1] = strategy[1] - 1
      /\ ThetaStrategySound'
  BY <1>1, <1>4, PushStrategySound DEF ThetaInv
<1>6. Len(forms') = 1 /\ forms'[1] = "gluing" /\ forms' \in Seq(Forms)
  BY <1>1 DEF Forms
<1>7. ThetaTypeOK'
  BY <1>1, <1>2, <1>5, <1>6 DEF ThetaTypeOK
<1>8. FormsSoFar' /\ LaidOut'
  BY <1>1, <1>6 DEF FormsSoFar, FormAt, LaidOut
<1>9. strategy' # << >> /\ Len(strategy') >= 1
  BY <1>2, <1>4, <1>5
<1>10. StepsInv'
  BY <1>1, <1>2, <1>3, <1>5, <1>6, <1>8, <1>9 DEF StepsInv, FirstOrder, NoKernel
<1> QED
  BY <1>1, <1>5, <1>7, <1>10 DEF ThetaInv, GlueInv, TailInv, FormsInOrder, TailHasItsPair

\* The form a step is given is the one its place in the chain calls for.
LEMMA StepForm ==
    ASSUME ThetaInv, Step
    PROVE  Form = FormAt(Len(forms) + 1) /\ Form \in Forms
<1>1. /\ LaidOut /\ Len(forms) >= 1 /\ Len(strategy) >= 1
      /\ Len(forms) + strategy[1] = FirstOrder(mode, chainLength)
      /\ mode = "padded" => remaining = chainLength - Len(forms)
  BY DEF ThetaInv, StepsInv, Step, ThetaTypeOK
<1>2. /\ chainLength \in Nat /\ Len(forms) \in Nat /\ mode \in {"padded", "exact"}
      /\ remaining \in Int
  BY DEF ThetaInv, ThetaTypeOK
<1>3. strategy[1] \in Nat /\ strategy[1] >= 1
  BY <1>1 DEF ThetaInv, ThetaTypeOK, ThetaStrategySound, depth
<1>4. CASE mode = "exact"
  BY <1>1, <1>2, <1>4 DEF Form, FormAt, Forms
<1>5. CASE mode = "padded"
  <2>1. remaining >= 1 /\ remaining = chainLength - Len(forms)
    BY <1>1, <1>2, <1>3, <1>5 DEF FirstOrder
  <2>2. Len(forms) + 1 # 1
    BY <1>1, <1>2
  <2>3. CASE remaining = 1
    BY <2>1, <2>2, <2>3, <1>2, <1>5 DEF Form, FormAt, Forms
  <2>4. CASE remaining = 2
    BY <2>1, <2>2, <2>4, <1>2, <1>5 DEF Form, FormAt, Forms
  <2>5. CASE remaining > 2
    BY <2>1, <2>2, <2>5, <1>2, <1>5 DEF Form, FormAt, Forms
  <2> QED  BY <2>1, <2>3, <2>4, <2>5, <1>2
<1> QED  BY <1>2, <1>4, <1>5

\* A step keeps the count in agreement with the first pair's order.
LEMMA StepKeepsInv == ASSUME ThetaInv, Step PROVE ThetaInv'
<1>1. /\ tpc = "steps" /\ tpc' = "steps" /\ bottom = 1 /\ PushStrategy
      /\ forms' = Append(forms, Form)
      /\ remaining' = IF mode = "padded" THEN remaining - 1 ELSE remaining
      /\ last' = IF mode = "exact" /\ depth = 1 THEN torsion[1] ELSE last
      /\ UNCHANGED <<mode, chainLength>>
  BY DEF Step
<1>2. /\ chainLength \in Nat /\ mode \in {"padded", "exact"} /\ strategy \in Seq(Nat)
      /\ remaining \in Int /\ last \in Nat /\ forms \in Seq(Forms)
      /\ torsion \in Seq(Nat) /\ Len(torsion) = Len(strategy)
  BY DEF ThetaInv, ThetaTypeOK
<1>3. /\ LaidOut /\ FormsSoFar /\ Len(forms) >= 1 /\ Len(strategy) >= 1
      /\ Len(forms) + strategy[1] = FirstOrder(mode, chainLength)
      /\ mode = "padded" => remaining = chainLength - Len(forms)
      /\ mode = "exact" => last = NoKernel
  BY <1>1, <1>2 DEF ThetaInv, StepsInv, Step
<1>4. Form = FormAt(Len(forms) + 1) /\ Form \in Forms
  BY StepForm
<1>5. /\ strategy' \in Seq(Nat) /\ torsion' \in Seq(Nat)
      /\ Len(strategy') = Len(torsion') /\ Len(strategy') = Len(strategy) - 1
      /\ Len(strategy) >= 2 => strategy'[1] = strategy[1] - 1
      /\ ThetaStrategySound'
  BY <1>1, <1>3, PushStrategySound DEF ThetaInv
<1>6. /\ forms' \in Seq(Forms) /\ Len(forms') = Len(forms) + 1
      /\ \A i \in 1 .. Len(forms) : forms'[i] = forms[i]
      /\ forms'[Len(forms) + 1] = Form
  BY <1>1, <1>2, <1>4
<1>7. torsion[1] \in Nat /\ strategy[1] \in Nat /\ torsion[1] = strategy[1] + 2
  BY <1>2, <1>3 DEF ThetaInv, ThetaStrategySound, depth
<1>8. ThetaTypeOK'
  BY <1>1, <1>2, <1>5, <1>6, <1>7 DEF ThetaTypeOK
<1>9. FormsSoFar'
  <2> SUFFICES ASSUME NEW i \in 1 .. Len(forms) + 1
               PROVE  forms'[i] = FormAt(i)
    BY <1>1, <1>6 DEF FormsSoFar, FormAt
  <2>1. CASE i <= Len(forms)
    <3>1. i \in 1 .. Len(forms)
      BY <2>1, <1>2
    <3> QED  BY <3>1, <1>3, <1>6 DEF FormsSoFar
  <2>2. CASE i = Len(forms) + 1
    BY <2>2, <1>4, <1>6
  <2> QED  BY <2>1, <2>2, <1>2
<1>10. StepsInv'
  <2>1. LaidOut' /\ Len(forms') >= 1
    BY <1>1, <1>2, <1>3, <1>6 DEF LaidOut
  <2>2. mode = "padded" => remaining' = chainLength - Len(forms')
    BY <1>1, <1>2, <1>3, <1>6
  <2>3. CASE Len(strategy) = 1
    <3>1. strategy' = << >> /\ Len(strategy') = 0
      BY <2>3, <1>5
    <3>2. strategy[1] = 1
      BY <2>3, <1>1 DEF bottom, depth
    <3>3. Len(forms') = FirstOrder(mode, chainLength)
      BY <3>2, <1>2, <1>3, <1>6
    <3>4. mode = "exact" => last' = 3
      BY <2>3, <3>2, <1>1, <1>7 DEF depth
    <3> QED
      BY <3>1, <3>3, <3>4, <2>1, <2>2, <1>1, <1>9 DEF StepsInv, FirstOrder
  <2>4. CASE Len(strategy) >= 2
    <3>1. strategy' # << >> /\ strategy'[1] = strategy[1] - 1
      BY <2>4, <1>2, <1>5
    <3>2. Len(forms') + strategy'[1] = FirstOrder(mode, chainLength)
      <4>1. Len(forms) \in Nat /\ Len(forms') = Len(forms) + 1
        BY <1>2, <1>6
      <4>2. Len(forms') + strategy'[1] = Len(forms) + strategy[1]
        BY <4>1, <3>1, <1>7
      <4> QED  BY <4>2, <1>3
    <3>3. mode = "exact" => last' = NoKernel
      BY <2>4, <1>1, <1>2, <1>3 DEF depth
    <3> QED
      BY <3>1, <3>2, <3>3, <2>1, <2>2, <1>1, <1>9 DEF StepsInv, FirstOrder
  <2> QED  BY <2>3, <2>4, <1>2, <1>3
<1> QED
  BY <1>1, <1>5, <1>8, <1>10 DEF ThetaInv, GlueInv, TailInv, FormsInOrder, TailHasItsPair

\* A chain with torsion to spare has made every isogeny when its loop ends;
\* the other has its pair, and two isogenies to go.
LEMMA StepsEndKeepsInv == ASSUME ThetaInv, StepsEnd PROVE ThetaInv'
<1>1. /\ tpc = "steps" /\ strategy = << >>
      /\ tpc' = IF mode = "padded" THEN "split" ELSE IF last = NoKernel THEN "none" ELSE "tail"
      /\ UNCHANGED <<mode, chainLength, strategy, torsion, remaining, last, forms>>
  BY DEF StepsEnd
<1>2. /\ chainLength \in Nat /\ mode \in {"padded", "exact"} /\ Len(forms) \in Nat
  BY DEF ThetaInv, ThetaTypeOK
<1>3. /\ LaidOut /\ FormsSoFar /\ Len(forms) >= 1
      /\ Len(forms) = FirstOrder(mode, chainLength)
      /\ mode = "exact" => last = 3
  BY <1>1 DEF ThetaInv, StepsInv
<1>4. ThetaTypeOK' /\ ThetaStrategySound'
  BY <1>1 DEF ThetaInv, ThetaTypeOK, ThetaStrategySound, depth
<1>5. CASE mode = "padded"
  <2>1. tpc' = "split" /\ Len(forms) = chainLength
    BY <1>1, <1>3, <1>5 DEF FirstOrder
  <2>2. \A i \in 1 .. chainLength :
           forms[i] = IF i = 1 THEN "gluing"
                      ELSE IF i < chainLength - 1 THEN "interior"
                      ELSE IF i = chainLength THEN "ultimate" ELSE "penultimate"
    BY <2>1, <1>3, <1>5 DEF FormsSoFar, FormAt
  <2>3. FormsInOrder'
    BY <2>1, <2>2, <1>1, <1>5 DEF FormsInOrder
  <2> QED
    BY <2>1, <2>3, <1>1, <1>4, <1>5 DEF ThetaInv, GlueInv, StepsInv, TailInv, TailHasItsPair
<1>6. CASE mode = "exact"
  <2>1. tpc' = "tail" /\ Len(forms) = chainLength - 2 /\ last = 3
    BY <1>1, <1>3, <1>6 DEF FirstOrder, NoKernel
  <2>2. TailInv'
    BY <2>1, <1>1, <1>3, <1>6 DEF TailInv, LaidOut, FormsSoFar, FormAt
  <2> QED
    BY <2>1, <2>2, <1>1, <1>4 DEF ThetaInv, GlueInv, StepsInv, FormsInOrder, TailHasItsPair
<1> QED  BY <1>2, <1>5, <1>6

\* The two isogenies of the tail complete the chain.
LEMMA LastTwoKeepsInv == ASSUME ThetaInv, LastTwo PROVE ThetaInv'
<1>1. /\ tpc = "tail" /\ tpc' = "split"
      /\ last' = last - 1 /\ forms' = forms \o <<"four", "two">>
      /\ UNCHANGED <<mode, chainLength, strategy, torsion, remaining>>
  BY DEF LastTwo, TailKernel
<1>2. /\ LaidOut /\ FormsSoFar /\ mode = "exact"
      /\ Len(forms) = chainLength - 2 /\ last = 3
  BY <1>1 DEF ThetaInv, TailInv
<1>3. chainLength \in Nat /\ chainLength >= 4 /\ forms \in Seq(Forms)
  BY <1>2 DEF ThetaInv, ThetaTypeOK, LaidOut, Shortest
<1>4. /\ forms' \in Seq(Forms) /\ Len(forms') = chainLength
      /\ \A i \in 1 .. chainLength - 2 : forms'[i] = forms[i]
      /\ forms'[chainLength - 1] = "four" /\ forms'[chainLength] = "two"
  <2>1. <<"four", "two">> \in Seq(Forms) /\ Len(<<"four", "two">>) = 2
    BY DEF Forms
  <2> QED  BY <2>1, <1>1, <1>2, <1>3
<1>5. ThetaTypeOK' /\ ThetaStrategySound'
  BY <1>1, <1>2, <1>4 DEF ThetaInv, ThetaTypeOK, ThetaStrategySound, depth
<1>6. FormsInOrder'
  <2>1. ASSUME NEW i \in 1 .. chainLength
        PROVE  forms'[i] = IF i = 1 THEN "gluing"
                           ELSE IF i < chainLength - 1 THEN "interior"
                           ELSE IF i = chainLength THEN "two" ELSE "four"
    <3>1. CASE i <= chainLength - 2
      <4>1. forms'[i] = FormAt(i)
        BY <3>1, <1>2, <1>3, <1>4 DEF FormsSoFar
      <4> QED  BY <4>1, <3>1, <1>2, <1>3 DEF FormAt
    <3>2. CASE i = chainLength - 1
      BY <3>2, <1>3, <1>4
    <3>3. CASE i = chainLength
      BY <3>3, <1>3, <1>4
    <3> QED  BY <3>1, <3>2, <3>3, <1>3
  <2> QED  BY <2>1, <1>1, <1>2, <1>4 DEF FormsInOrder
<1>7. TailHasItsPair'
  BY <1>1, <1>2 DEF TailHasItsPair
<1> QED
  BY <1>1, <1>5, <1>6, <1>7 DEF ThetaInv, GlueInv, StepsInv, TailInv

\* A step that leaves the chain between surfaces alone.
LEMMA ThetaUnmoved == ASSUME ThetaInv, UNCHANGED thetaVars PROVE ThetaInv'
<1>1. /\ tpc' = tpc /\ mode' = mode /\ chainLength' = chainLength /\ strategy' = strategy
      /\ torsion' = torsion /\ remaining' = remaining /\ last' = last /\ forms' = forms
  BY DEF thetaVars
<1> QED
  BY <1>1 DEF ThetaInv, ThetaTypeOK, ThetaStrategySound, GlueInv, StepsInv, TailInv, FormsInOrder,
              TailHasItsPair, FormsSoFar, FormAt, LaidOut, depth

\* The invariant holds throughout, whatever else goes on.
LEMMA ThetaHolds == Spec => []ThetaInv
<1>1. Init => ThetaInv
  <2>1. CASE ThetaInit
    BY <2>1, CalledInv
  <2>2. CASE ThetaIdle
    BY <2>2 DEF ThetaIdle, ThetaInv, ThetaTypeOK, ThetaStrategySound, GlueInv, StepsInv, TailInv,
                FormsInOrder, TailHasItsPair, depth, NoKernel
  <2> QED  BY <2>1, <2>2 DEF Init
<1>2. ThetaInv /\ [Next]_vars => ThetaInv'
  <2> SUFFICES ASSUME ThetaInv, [Next]_vars PROVE ThetaInv'
    OBVIOUS
  <2>1. ThetaNext \/ UNCHANGED thetaVars
    BY DEF Next, vars
  <2>2. CASE DescendToGluing \/ DescendToStep
    BY <2>2, DescendInv
  <2>3. CASE Glue
    BY <2>3, GlueKeepsInv
  <2>4. CASE Step
    BY <2>4, StepKeepsInv
  <2>5. CASE StepsEnd
    BY <2>5, StepsEndKeepsInv
  <2>6. CASE LastTwo
    BY <2>6, LastTwoKeepsInv
  <2>7. CASE UNCHANGED thetaVars
    BY <2>7, ThetaUnmoved
  <2> QED  BY <2>1, <2>2, <2>3, <2>4, <2>5, <2>6, <2>7 DEF ThetaNext
<1> QED  BY <1>1, <1>2, PTL DEF Spec

\* Every order the chain reckons is that of its pair less two, and positive:
\* whatever the chain's length, its kernels are 8-torsion and its loops that
\* push down come to their end.  (surfaces/mod.rs, isogeny_inner)
THEOREM StrategyIsSound == Spec => []ThetaStrategySound
<1>1. ThetaInv => ThetaStrategySound
  BY DEF ThetaInv
<1> QED  BY <1>1, ThetaHolds, PTL

\* Whatever its length, a chain that reaches the splitting has made exactly
\* as many isogenies, and ends with those the splitting relies on.
THEOREM FormsComeInOrder == Spec => []FormsInOrder
<1>1. ThetaInv => FormsInOrder
  BY DEF ThetaInv
<1> QED  BY <1>1, ThetaHolds, PTL

\* The refusals at last_step and last_kernel are never taken, and the pair
\* the 4-isogeny of the tail starts from is 4-torsion.
THEOREM TailAlwaysHasItsPair == Spec => []TailHasItsPair
<1>1. ThetaInv => TailHasItsPair
  BY DEF ThetaInv
<1> QED  BY <1>1, ThetaHolds, PTL

-----------------------------------------------------------------------------
(* The chains between curves                                               *)

\* The multiples of the point of order 2^i on the way to x and y: the kernel,
\* as far as i steps have gone into it.
Multiple(i, c, x, y) == At(i, c * x, c * y)
Multiples(i, x, y) == {Multiple(i, c, x, y) : c \in 0 .. 2^i - 1}

Primitive(x, y) == x % 2 = 1 \/ y % 2 = 1

\* The combination that the ladder returned.
CoeffP == IF job.op = "ladder" THEN 1 ELSE job.m
CoeffPmQ == IF job.op = "ladder" THEN job.m ELSE job.n

\* The strategy after j 4-isogenies: every point is the one that has the
\* order reckoned on the curve reached, and the orders fall to an even one.
Strategy(x, y) ==
    /\ j \in 0 .. length \div 2 /\ quotient = Multiples(2 * j, x, y)
    /\ orders \in Seq(Nat) /\ stratPts \in Seq(Point) /\ Len(orders) = Len(stratPts)
    /\ IF orders = << >> THEN length = 2 * j ELSE orders[1] = length - 2 * j
    /\ \A i \in 1 .. Len(orders) :
         orders[i] + 2 * j <= length /\ stratPts[i] = At(orders[i] + 2 * j, x, y)
    /\ \A i \in 1 .. Len(orders) - 1 :
         orders[i] > orders[i + 1] /\ orders[i + 1] % 2 = 0 /\ orders[i + 1] >= 2

\* The short chain after j steps: past the first, the kernel is as large as
\* its length says.
ShortWalk(x, y) ==
    /\ j \in 0 .. length /\ length >= 1 /\ quotient = Multiples(j, x, y)
    /\ stratPts = <<At(length, x, y)>> /\ orders = <<length>>
    /\ j >= 1 => Primitive(x, y)

\* What a chain in progress or at its end has to do with the point it was
\* given, the combination of x and y.
Walking(x, y) ==
    /\ lpc = "returned" /\ job \in Jobs /\ length \in 0 .. F
    /\ cpc \in {"chain", "small", "returned", "lost"}
    /\ j \in 0 .. F /\ Len(orders) = Len(stratPts) /\ stratPts \in Seq(Point)
    /\ job.op = "ladder" => cpc \in {"chain", "returned"}
    /\ job.op # "ladder" => job.op = "biscalar" /\ length = job.e
    /\ cpc = "chain" => job.op = "ladder" /\ Primitive(x, y) /\ Strategy(x, y)
    /\ cpc = "small" => job.op = "biscalar" /\ ShortWalk(x, y)
    /\ cpc = "returned" => Primitive(x, y) /\ quotient = Multiples(length, x, y)
    /\ cpc = "lost" => ~Primitive(x, y) /\ quotient = {O} /\ length >= 1

ChainInv ==
    \/ ChainIdle
    \/ \E s \in {-1, 1} : \E x \in {s * CoeffP}, y \in {s * CoeffPmQ} : Walking(x, y)

-----------------------------------------------------------------------------
(* The multiples of a point                                                *)

IsMultiple(a, x, i, n) == a * x = i * 2^n

\* A number is divisible by 2^n when an odd multiple of it is.
LEMMA OddCancels ==
  ASSUME NEW n \in Nat, NEW c \in Int, NEW x \in Int, x % 2 = 1,
         NEW i \in Int, IsMultiple(c, x, i, n)
  PROVE  \E l \in Int : c = l * 2^n
<1> DEFINE Divides(m) == \A b, h \in Int : b * x = h * 2^m => \E l \in Int : b = l * 2^m
           T == {m \in Nat : Divides(m)}
<1>1. 0 \in T
  <2> SUFFICES ASSUME NEW b \in Int PROVE \E l \in Int : b = l * 2^0
    OBVIOUS
  <2>1. b = b * 1
    OBVIOUS
  <2> QED BY <2>1, Pow2Zero
<1>2. ASSUME NEW m \in T PROVE m + 1 \in T
  <2> SUFFICES ASSUME NEW b \in Int, NEW h \in Int, b * x = h * 2^(m + 1)
               PROVE  \E l \in Int : b = l * 2^(m + 1)
    OBVIOUS
  <2> DEFINE w == 2^m
  <2>1. w \in Nat /\ w >= 1 /\ 2^(m + 1) = 2 * w
    BY Pow2Positive, Pow2Succ
  <2>2. \A v \in Int : (\E g \in Int : v * x = g * w) => \E l \in Int : v = l * w
    OBVIOUS
  <2> HIDE DEF w, T, Divides
  <2>3. b * x = (2 * h) * w /\ 2 * h \in Int
    BY <2>1
  <2>4. PICK d \in Int : b = d * w
    BY <2>2, <2>3
  <2>5. (d * x) * w = (2 * h) * w
    BY <2>1, <2>3, <2>4
  <2>6. d * x = 2 * h
    <3> DEFINE y == d * x
               z == 2 * h
    <3>1. y \in Int /\ z \in Int /\ y * w = z * w
      BY <2>5
    <3> HIDE DEF y, z
    <3>2. (y - z) * w = 0
      BY <2>1, <3>1
    <3>3. y = z
      BY <2>1, <3>1, <3>2
    <3> QED BY <3>3 DEF y, z
  <2>7. PICK q \in Int : x = 2 * q + 1
    BY DivRem
  <2>8. d * x = 2 * (d * q) + d /\ d * q \in Int
    BY <2>7
  <2>9. d = 2 * (h - d * q) /\ h - d * q \in Int
    BY <2>6, <2>8
  <2> DEFINE l == h - d * q
  <2>10. b = (2 * l) * w /\ l \in Int
    BY <2>4, <2>9
  <2> HIDE DEF l
  <2>11. b = l * (2 * w)
    BY <2>1, <2>10
  <2> QED BY <2>1, <2>10, <2>11
<1>3. T = Nat
  <2> HIDE DEF T
  <2> QED BY <1>1, <1>2, SetInduction DEF T
<1> QED BY <1>3 DEF IsMultiple

\* Congruent numbers have congruent multiples.
LEMMA CongruentTimes ==
  ASSUME NEW t \in Nat, NEW a \in Int, NEW b \in Int, NEW m \in Int, Congruent(a, b, t)
  PROVE  Congruent(a * m, b * m, t)
<1> DEFINE w == 2^t
<1>1. w \in Nat
  BY Pow2Nat
<1>2. PICK i \in Int : a = b + i * w
  BY DEF Congruent
<1> HIDE DEF w
<1>3. (b + i * w) * m = b * m + (i * m) * w /\ i * m \in Int
  BY <1>1
<1>4. a * m = b * m + (i * m) * w
  BY <1>2, <1>3
<1> QED BY <1>3, <1>4 DEF Congruent, w

\* A point's coordinates are what they are modulo its order.
LEMMA AtBack ==
  ASSUME NEW t, IsTorsionExponent(t), NEW x \in Int, NEW y \in Int, NEW u \in Int, NEW v \in Int,
         At(t, x, y) = At(t, u, v)
  PROVE  Congruent(x, u, t) /\ Congruent(y, v, t)
<1>1. Scaled(t, x) = Scaled(t, u) /\ Scaled(t, y) = Scaled(t, v)
  BY DEF At
<1>2. x % 2^t = u % 2^t /\ y % 2^t = v % 2^t
  BY <1>1, ScaledDown
<1>3. 2^t \in Nat /\ 2^t > 0
  BY Level
<1> QED BY <1>2, <1>3, ResidueGap DEF Congruent

\* A point seen from s levels up.
LEMMA AtRaised ==
  ASSUME NEW t \in Nat, NEW s \in Nat, IsTorsionExponent(t + s), NEW x \in Int, NEW y \in Int
  PROVE  IsTorsionExponent(t) /\ At(t, x, y) = At(t + s, 2^s * x, 2^s * y)
<1>1. IsTorsionExponent(t) /\ (t + s) - s = t /\ s <= t + s
  BY PowF DEF IsTorsionExponent
<1>2. DoubleN(s, At(t + s, x, y)) = At((t + s) - s, x, y)
  BY <1>1, AtDouble
<1> DEFINE a == 2^s
<1>3. a \in Int
  BY Pow2Nat
<1> HIDE DEF a
<1>4. Times(a, At(t + s, x, y)) = At(t + s, a * x, a * y)
  BY <1>3, AtTimes
<1> QED BY <1>1, <1>2, <1>4 DEF DoubleN, a

\* Any multiple will do.
LEMMA MultiplesAre ==
  ASSUME NEW t, IsTorsionExponent(t), NEW x \in Int, NEW y \in Int
  PROVE  /\ \A c \in Int : Multiple(t, c, x, y) \in Multiples(t, x, y)
         /\ \A p \in Multiples(t, x, y) : \E c \in Int : p = Multiple(t, c, x, y)
<1> DEFINE w == 2^t
<1>1. w \in Nat /\ w >= 1 /\ t \in Nat
  BY Level
<1>2. ASSUME NEW c \in Int PROVE Multiple(t, c, x, y) \in Multiples(t, x, y)
  <2> DEFINE d == c % w
  <2>1. d \in 0 .. w - 1 /\ d \in Int
    <3> HIDE DEF w
    <3> QED BY <1>1
  <2>2. Congruent(d, c, t)
    BY <1>1, CongruentMod
  <2> HIDE DEF d
  <2>3. Congruent(d * x, c * x, t) /\ Congruent(d * y, c * y, t)
    BY <1>1, <2>1, <2>2, CongruentTimes
  <2>4. d * x \in Int /\ d * y \in Int /\ c * x \in Int /\ c * y \in Int
    BY <2>1
  <2>5. Multiple(t, d, x, y) = Multiple(t, c, x, y)
    BY <2>3, <2>4, AtCongruent DEF Multiple
  <2> QED BY <2>1, <2>5 DEF Multiples, w
<1>3. \A c \in 0 .. w - 1 : c \in Int
  OBVIOUS
<1> QED BY <1>2, <1>3 DEF Multiples, w

\* The points that the code adds up are these.
LEMMA SpanIs ==
  ASSUME NEW t, IsTorsionExponent(t), NEW x \in Int, NEW y \in Int
  PROVE  Span(At(t, x, y), t) = Multiples(t, x, y)
<1>1. \A c \in Int : Times(c, At(t, x, y)) = Multiple(t, c, x, y)
  BY AtTimes DEF Multiple
<1>2. \A c \in 0 .. 2^t - 1 : c \in Int
  OBVIOUS
<1> QED BY <1>1, <1>2 DEF Span, Multiples

\* The sign of the point does not matter.
LEMMA MultiplesOpposite ==
  ASSUME NEW t, IsTorsionExponent(t), NEW x \in Int, NEW y \in Int
  PROVE  Multiples(t, -x, -y) = Multiples(t, x, y)
<1> DEFINE u == -x
           v == -y
<1>1. u \in Int /\ v \in Int
  OBVIOUS
<1>2. ASSUME NEW c \in Int
      PROVE  -c \in Int /\ Multiple(t, -c, u, v) = Multiple(t, c, x, y)
             /\ Multiple(t, -c, x, y) = Multiple(t, c, u, v)
  <2>1. (-c) * u = c * x /\ (-c) * v = c * y /\ (-c) * x = c * u /\ (-c) * y = c * v
    OBVIOUS
  <2> QED BY <2>1 DEF Multiple
<1> HIDE DEF u, v
<1>3. ASSUME NEW p \in Multiples(t, x, y) PROVE p \in Multiples(t, u, v)
  <2>1. PICK c \in Int : p = Multiple(t, c, x, y)
    BY MultiplesAre
  <2>2. PICK d \in Int : p = Multiple(t, d, u, v)
    BY <1>2, <2>1
  <2> QED BY <1>1, <2>2, MultiplesAre
<1>4. ASSUME NEW p \in Multiples(t, u, v) PROVE p \in Multiples(t, x, y)
  <2>1. PICK c \in Int : p = Multiple(t, c, u, v)
    BY <1>1, MultiplesAre
  <2>2. PICK d \in Int : p = Multiple(t, d, x, y)
    BY <1>2, <2>1
  <2> QED BY <2>2, MultiplesAre
<1>5. Multiples(t, u, v) = Multiples(t, x, y)
  BY <1>3, <1>4
<1> QED BY <1>5 DEF u, v

Lift(s, c) == 2^s * c
Raises(t, s, e, c, x, y) ==
  Lift(s, c) \in Int /\ Multiple(t, c, x, y) = Multiple(e, Lift(s, c), x, y)

\* A multiple seen from s levels up.
LEMMA MultipleRaised ==
  ASSUME NEW t \in Nat, NEW s \in Nat, NEW e, IsTorsionExponent(e), e = t + s,
         NEW x \in Int, NEW y \in Int, NEW c \in Int
  PROVE  Raises(t, s, e, c, x, y)
<1>1. \A u, v \in Int : IsTorsionExponent(t) /\ At(t, u, v) = At(t + s, 2^s * u, 2^s * v)
  BY AtRaised
<1> DEFINE a == 2^s
           u == c * x
           v == c * y
<1>2. a \in Int /\ u \in Int /\ v \in Int
  BY Pow2Nat
<1> HIDE DEF a
<1>3. a * u = (a * c) * x /\ a * v = (a * c) * y /\ a * c \in Int
  BY <1>2
<1> HIDE DEF u, v
<1>4. IsTorsionExponent(t) /\ At(t, u, v) = At(e, a * u, a * v)
  BY <1>1, <1>2 DEF a
<1>5. At(t, u, v) = At(e, (a * c) * x, (a * c) * y)
  BY <1>3, <1>4
<1>6. Multiple(t, c, x, y) = At(t, u, v)
  BY DEF Multiple, u, v
<1>7. Multiple(e, a * c, x, y) = At(e, (a * c) * x, (a * c) * y)
  BY DEF Multiple
<1> QED BY <1>3, <1>4, <1>5, <1>6, <1>7 DEF a, Lift, Raises

\* A lower level than an exponent is an exponent.
LEMMA LevelBelow ==
  ASSUME NEW e, IsTorsionExponent(e), NEW t \in Nat, t <= e
  PROVE  IsTorsionExponent(t)
BY PowF DEF IsTorsionExponent

\* The point itself is one of its multiples.
LEMMA MultipleOne ==
  ASSUME NEW t, NEW x \in Int, NEW y \in Int
  PROVE  Multiple(t, 1, x, y) = At(t, x, y)
<1>1. 1 * x = x /\ 1 * y = y
  OBVIOUS
<1> QED BY <1>1 DEF Multiple

\* Multiples of one level add up.
LEMMA MultipleSum ==
  ASSUME NEW t, IsTorsionExponent(t), NEW x \in Int, NEW y \in Int, NEW c \in Int, NEW d \in Int
  PROVE  Combine(1, Multiple(t, c, x, y), 1, Multiple(t, d, x, y)) = Multiple(t, c + d, x, y)
<1> DEFINE cx == c * x
           cy == c * y
           dx == d * x
           dy == d * y
<1>1. cx \in Int /\ cy \in Int /\ dx \in Int /\ dy \in Int
  OBVIOUS
<1>2. cx + dx = (c + d) * x /\ cy + dy = (c + d) * y
  OBVIOUS
<1>3. Multiple(t, c, x, y) = At(t, cx, cy) /\ Multiple(t, d, x, y) = At(t, dx, dy)
  BY DEF Multiple
<1> HIDE DEF cx, cy, dx, dy
<1>4. \A m, n \in Int :
        Combine(m, At(t, cx, cy), n, At(t, dx, dy)) = At(t, m * cx + n * dx, m * cy + n * dy)
  BY <1>1, AtCombine
<1>5. Combine(1, At(t, cx, cy), 1, At(t, dx, dy)) = At(t, 1 * cx + 1 * dx, 1 * cy + 1 * dy)
  BY <1>4
<1>6. 1 * cx + 1 * dx = cx + dx /\ 1 * cy + 1 * dy = cy + dy
  BY <1>1
<1>7. Combine(1, At(t, cx, cy), 1, At(t, dx, dy)) = At(t, (c + d) * x, (c + d) * y)
  BY <1>2, <1>5, <1>6
<1> QED BY <1>3, <1>7 DEF Multiple

Extends(t, n, e, x, y) == Divided(At(e, x, y), n) = Multiples(e, x, y)

\* Dividing by the multiples of the next point of the kernel is going n
\* levels further into it.
LEMMA DividedIs ==
  ASSUME NEW t \in Nat, NEW n \in Nat, NEW e, IsTorsionExponent(e), e = t + n,
         NEW x \in Int, NEW y \in Int, quotient = Multiples(t, x, y)
  PROVE  Extends(t, n, e, x, y)
<1> DEFINE p == At(e, x, y)
           w == 2^n
<1>1. w \in Nat /\ w > 0 /\ IsTorsionExponent(t)
  BY Pow2Positive, LevelBelow
<1>2. \A c \in Int : Multiple(t, c, x, y) = Multiple(e, Lift(n, c), x, y) /\ Lift(n, c) \in Int
  <2> SUFFICES ASSUME NEW c \in Int PROVE Raises(t, n, e, c, x, y)
    BY DEF Raises
  <2> QED BY MultipleRaised
<1>3. \A c \in Int : Times(c, p) = Multiple(e, c, x, y)
  BY AtTimes DEF Multiple
<1>4. \A c \in Int : Lift(n, c) = w * c
  BY DEF Lift
<1> HIDE DEF w, p
<1>5. Span(p, n) = {Times(i, p) : i \in 0 .. w - 1}
  BY DEF Span, w
<1>6. ASSUME NEW z \in Divided(p, n) PROVE z \in Multiples(e, x, y)
  <2>1. PICK a \in quotient, b \in Span(p, n) : z = Combine(1, a, 1, b)
    BY DEF Divided
  <2>2. PICK c \in Int : a = Multiple(t, c, x, y)
    BY <1>1, <2>1, MultiplesAre
  <2>3. PICK i \in 0 .. w - 1 : b = Times(i, p)
    BY <1>5, <2>1
  <2>4. PICK d \in Int : d = Lift(n, c)
    BY <1>2
  <2>5. i \in Int /\ a = Multiple(e, d, x, y) /\ b = Multiple(e, i, x, y)
    BY <1>2, <1>3, <2>2, <2>3, <2>4
  <2>6. Combine(1, Multiple(e, d, x, y), 1, Multiple(e, i, x, y)) = Multiple(e, d + i, x, y)
    BY <2>5, MultipleSum
  <2>7. PICK f \in Int : f = d + i
    BY <2>5
  <2>8. z = Multiple(e, f, x, y)
    BY <2>1, <2>5, <2>6, <2>7
  <2> QED BY <2>8, MultiplesAre
<1>7. ASSUME NEW z \in Multiples(e, x, y) PROVE z \in Divided(p, n)
  <2>1. PICK c \in Int : z = Multiple(e, c, x, y)
    BY MultiplesAre
  <2> DEFINE i == c % w
  <2>2. i \in 0 .. w - 1 /\ \E g \in Int : c = i + g * w
    BY <1>1, Residue
  <2> HIDE DEF i
  <2>3. PICK g \in Int : c = i + g * w
    BY <2>2
  <2>4. c = w * g + i /\ i \in Int
    BY <1>1, <2>2, <2>3
  <2>5. PICK d \in Int : d = Lift(n, g)
    BY <1>2
  <2>6. c = d + i
    BY <1>4, <2>4, <2>5
  <2>7. Multiple(t, g, x, y) = Multiple(e, d, x, y)
    BY <1>2, <2>5
  <2>8. Multiple(t, g, x, y) \in quotient
    BY <1>1, MultiplesAre
  <2>9. Times(i, p) \in Span(p, n) /\ Times(i, p) = Multiple(e, i, x, y)
    BY <1>3, <1>5, <2>2, <2>4
  <2>10. Combine(1, Multiple(e, d, x, y), 1, Multiple(e, i, x, y)) = Multiple(e, d + i, x, y)
    BY <2>4, MultipleSum
  <2>11. z = Combine(1, Multiple(t, g, x, y), 1, Times(i, p))
    BY <2>1, <2>6, <2>7, <2>9, <2>10
  <2> QED BY <2>8, <2>9, <2>11 DEF Divided
<1> QED BY <1>6, <1>7 DEF p, Extends

\* On the way to a primitive point nothing is divided by before its turn: a
\* point of level t is among the multiples of level i when t is at most i.
LEMMA NotBefore ==
  ASSUME NEW t, IsTorsionExponent(t), NEW i, IsTorsionExponent(i),
         NEW x \in Int, NEW y \in Int, Primitive(x, y)
  PROVE  At(t, x, y) \in Multiples(i, x, y) <=> t <= i
<1>1. t \in Nat /\ i \in Nat
  BY Level
<1>2. CASE t <= i
  <2>1. PICK s \in Nat : t + s = i
    <3>1. i - t \in Nat /\ t + (i - t) = i
      BY <1>1, <1>2
    <3> QED BY <3>1
  <2>2. PICK b \in Int : b = 1
    OBVIOUS
  <2>3. Multiple(t, b, x, y) = Multiple(i, Lift(s, b), x, y) /\ Lift(s, b) \in Int
    <3>1. Raises(t, s, i, b, x, y)
      BY <1>1, <2>1, MultipleRaised
    <3> QED BY <3>1 DEF Raises
  <2>4. Multiple(i, Lift(s, b), x, y) \in Multiples(i, x, y)
    BY <2>3, MultiplesAre
  <2>5. Multiple(t, b, x, y) = At(t, x, y)
    BY <2>2, MultipleOne
  <2> QED BY <1>2, <2>3, <2>4, <2>5
<1>3. CASE t > i
  <2> SUFFICES ASSUME At(t, x, y) \in Multiples(i, x, y) PROVE FALSE
    BY <1>1, <1>3
  <2>1. PICK s \in Nat : i + s + 1 = t
    <3>1. t - i - 1 \in Nat /\ i + (t - i - 1) + 1 = t
      BY <1>1, <1>3
    <3> QED BY <3>1
  <2>2. PICK c \in Int : At(t, x, y) = Multiple(i, c, x, y)
    BY MultiplesAre
  <2> DEFINE a == 2^s
             w == 2^(t - 1)
  <2>3. /\ s + 1 \in Nat /\ i + (s + 1) = t /\ 2^(s + 1) = 2 * a /\ a \in Nat
        /\ t - 1 \in Nat /\ (t - 1) + 1 = t
    BY <1>1, <2>1, Pow2Succ, Pow2Nat
  <2>4. 2^t = 2 * w /\ w \in Nat
    BY <2>3, Pow2Succ, Pow2Nat
  <2>5. Multiple(i, c, x, y) = Multiple(t, 2^(s + 1) * c, x, y)
    <3>1. PICK r \in Nat : r = s + 1 /\ t = i + r
      BY <2>3
    <3>2. Raises(i, r, t, c, x, y)
      BY <1>1, <3>1, MultipleRaised
    <3> QED BY <3>1, <3>2 DEF Lift, Raises
  <2> HIDE DEF a, w
  <2> DEFINE b == a * c
             u == (2 * b) * x
             v == (2 * b) * y
  <2>6. b \in Int /\ (2 * a) * c = 2 * b /\ u \in Int /\ v \in Int
    BY <2>3
  <2>7. At(t, x, y) = At(t, u, v)
    BY <2>2, <2>3, <2>5, <2>6 DEF Multiple
  <2> HIDE DEF u, v
  <2>8. Congruent(x, u, t) /\ Congruent(y, v, t)
    BY <2>6, <2>7, AtBack
  <2>9. PICK g \in Int : x = u + g * (2 * w)
    BY <2>4, <2>8 DEF Congruent
  <2>10. PICK h \in Int : y = v + h * (2 * w)
    BY <2>4, <2>8 DEF Congruent
  <2> HIDE DEF b
  <2>11. x = 2 * (b * x + g * w) /\ b * x + g * w \in Int
    BY <2>4, <2>6, <2>9 DEF u
  <2>12. y = 2 * (b * y + h * w) /\ b * y + h * w \in Int
    BY <2>4, <2>6, <2>10 DEF v
  <2>13. \A q \in Int : (2 * q) % 2 = 0
    OBVIOUS
  <2> QED BY <2>11, <2>12, <2>13 DEF Primitive
<1> QED BY <1>1, <1>2, <1>3

\* A primitive point may be cancelled.
LEMMA CongruentCancels ==
  ASSUME NEW n \in Nat, NEW x \in Int, NEW y \in Int, Primitive(x, y),
         NEW c \in Int, NEW b \in Int, Congruent(c * x, b * x, n), Congruent(c * y, b * y, n)
  PROVE  Congruent(c, b, n)
<1> DEFINE d == c - b
           w == 2^n
<1>1. w \in Int /\ d \in Int
  BY Pow2Nat
<1>2. ASSUME NEW z \in Int, z % 2 = 1, Congruent(c * z, b * z, n) PROVE Congruent(c, b, n)
  <2>1. PICK i \in Int : c * z = b * z + i * w
    BY <1>2 DEF Congruent
  <2> HIDE DEF w
  <2>2. d * z = c * z - b * z /\ c * z \in Int /\ b * z \in Int /\ i * w \in Int
    BY <1>1
  <2>3. d * z = i * w
    BY <2>1, <2>2
  <2> HIDE DEF d
  <2>4. PICK l \in Int : d = l * w
    <3>1. IsMultiple(d, z, i, n)
      BY <2>3 DEF IsMultiple, w
    <3> QED BY <1>1, <1>2, <3>1, OddCancels DEF w
  <2>5. c = b + l * w
    <3>1. l * w \in Int
      BY <1>1
    <3> QED BY <2>4, <3>1 DEF d
  <2> QED BY <2>5 DEF Congruent, w
<1> QED BY <1>2 DEF Primitive

\* A multiple doubled n times is the same multiple n levels down.
LEMMA MultipleDouble ==
  ASSUME NEW e, IsTorsionExponent(e), NEW n \in Nat, n <= e, NEW f, f = e - n,
         NEW x \in Int, NEW y \in Int, NEW c \in Int
  PROVE  DoubleN(n, Multiple(e, c, x, y)) = Multiple(f, c, x, y)
<1> DEFINE u == c * x
           v == c * y
<1>1. u \in Int /\ v \in Int
  OBVIOUS
<1>2. Multiple(e, c, x, y) = At(e, u, v) /\ Multiple(f, c, x, y) = At(f, u, v)
  BY DEF Multiple
<1> HIDE DEF u, v
<1> QED BY <1>1, <1>2, AtDouble

\* The points of a kernel that n doublings take to its level t are those of
\* level t + n.
Deepens(e, t, n, x, y) ==
    {p \in Multiples(e, x, y) : DoubleN(n, p) \in Multiples(t, x, y)} = Multiples(t + n, x, y)

\* So it is on the way to a primitive point.
LEMMA DeeperIs ==
  ASSUME NEW e, IsTorsionExponent(e), NEW t \in Nat, NEW n \in Nat, t + n <= e,
         NEW x \in Int, NEW y \in Int, Primitive(x, y)
  PROVE  Deepens(e, t, n, x, y)
<1>1. PICK f, g, s \in Nat : f = t + n /\ e = f + s /\ g = t + s /\ g = e - n
  <2>1. e \in Nat
    BY Level
  <2>2. t + n \in Nat /\ e - (t + n) \in Nat /\ e = (t + n) + (e - (t + n))
        /\ t + (e - (t + n)) = e - n /\ e - n \in Nat
    BY <2>1
  <2> QED BY <2>2
<1>2. /\ IsTorsionExponent(f) /\ IsTorsionExponent(g) /\ IsTorsionExponent(t)
      /\ f <= e /\ g <= e /\ t <= e /\ n <= e /\ n <= f /\ t = f - n /\ e \in Nat
  <2>1. f <= e /\ g <= e /\ t <= e /\ n <= e /\ n <= f /\ t = f - n /\ e \in Nat
    BY <1>1, Level
  <2> QED BY <1>1, <2>1, LevelBelow
<1>3. ASSUME NEW p \in Multiples(f, x, y)
      PROVE  p \in Multiples(e, x, y) /\ DoubleN(n, p) \in Multiples(t, x, y)
  <2>1. PICK c \in Int : p = Multiple(f, c, x, y)
    BY <1>2, MultiplesAre
  <2>2. Raises(f, s, e, c, x, y)
    BY <1>1, MultipleRaised
  <2>3. PICK d \in Int : p = Multiple(e, d, x, y)
    BY <2>1, <2>2 DEF Raises
  <2>4. DoubleN(n, p) = Multiple(t, c, x, y)
    BY <1>2, <2>1, MultipleDouble
  <2> QED BY <1>2, <2>3, <2>4, MultiplesAre
<1>4. ASSUME NEW p \in Multiples(e, x, y), DoubleN(n, p) \in Multiples(t, x, y)
      PROVE  p \in Multiples(f, x, y)
  <2>1. PICK c \in Int : p = Multiple(e, c, x, y)
    BY MultiplesAre
  <2>2. DoubleN(n, p) = Multiple(g, c, x, y)
    BY <1>1, <1>2, <2>1, MultipleDouble
  <2>3. PICK d \in Int : DoubleN(n, p) = Multiple(t, d, x, y)
    BY <1>2, <1>4, MultiplesAre
  <2>4. Raises(t, s, g, d, x, y)
    BY <1>1, <1>2, MultipleRaised
  <2>5. PICK b \in Int : b = Lift(s, d)
    BY <2>4 DEF Raises
  <2>6. Multiple(g, c, x, y) = Multiple(g, b, x, y)
    BY <2>2, <2>3, <2>4, <2>5 DEF Raises
  <2>7. Congruent(c, b, g)
    <3> DEFINE cx == c * x
               cy == c * y
               bx == b * x
               by == b * y
    <3>1. cx \in Int /\ cy \in Int /\ bx \in Int /\ by \in Int
      OBVIOUS
    <3>2. At(g, cx, cy) = At(g, bx, by)
      BY <2>6 DEF Multiple
    <3> HIDE DEF cx, cy, bx, by
    <3>3. Congruent(cx, bx, g) /\ Congruent(cy, by, g)
      BY <1>2, <3>1, <3>2, AtBack
    <3> QED BY <1>1, <3>3, CongruentCancels DEF cx, cy, bx, by
  <2> DEFINE a == 2^s
             w == 2^t
  <2>8. a \in Nat /\ w \in Nat /\ 2^(t + s) = w * a
    BY Pow2Nat, Pow2Add
  <2> HIDE DEF a, w
  <2>9. PICK l \in Int : c = b + l * (w * a)
    BY <1>1, <2>7, <2>8 DEF Congruent
  <2> DEFINE h == d + l * w
  <2>10. b = a * d
    BY <2>5 DEF Lift, a
  <2>11. h \in Int /\ a * h = a * d + l * (w * a)
    BY <2>8
  <2>12. c = Lift(s, h)
    BY <2>9, <2>10, <2>11 DEF Lift, a
  <2> HIDE DEF h
  <2>13. Raises(f, s, e, h, x, y)
    BY <1>1, <2>11, MultipleRaised
  <2>14. p = Multiple(f, h, x, y)
    BY <2>1, <2>12, <2>13 DEF Raises
  <2> QED BY <1>2, <2>11, <2>14, MultiplesAre
<1> QED BY <1>1, <1>3, <1>4 DEF Deepens

\* The levels of a primitive kernel are all different.
LEMMA MultiplesDiffer ==
  ASSUME NEW e, IsTorsionExponent(e), NEW t, IsTorsionExponent(t), t < e,
         NEW x \in Int, NEW y \in Int, Primitive(x, y)
  PROVE  Multiples(t, x, y) # Multiples(e, x, y)
<1>1. t \in Nat /\ e \in Nat /\ ~(e <= t) /\ e <= e
  BY Level
<1> QED BY <1>1, NotBefore

\* A point that is not primitive makes too small a kernel.
LEMMA TooSmall ==
  ASSUME NEW e, IsTorsionExponent(e), e >= 1, NEW x \in Int, NEW y \in Int, ~Primitive(x, y)
  PROVE  Cardinality(Multiples(e, x, y)) # 2^e
<1>1. PICK u, v \in Int : x = 2 * u /\ y = 2 * v
  <2>1. x % 2 = 0 /\ y % 2 = 0
    BY DEF Primitive
  <2> QED BY <2>1, DivRem
<1>2. PICK t \in Nat : t + 1 = e
  <2>1. e \in Nat /\ e - 1 \in Nat /\ (e - 1) + 1 = e
    BY Level
  <2> QED BY <2>1
<1> DEFINE w == 2^t
<1>3. w \in Nat /\ w >= 1 /\ 2^e = 2 * w /\ IsTorsionExponent(t) /\ e = t + 1
  BY <1>2, Pow2Positive, Pow2Succ, LevelBelow
<1>4. ASSUME NEW p \in Multiples(e, x, y) PROVE p \in Multiples(t, u, v)
  <2>1. PICK c \in Int : p = Multiple(e, c, x, y)
    BY MultiplesAre
  <2>2. PICK one \in Nat : one = 1
    OBVIOUS
  <2>3. Raises(t, one, e, c, u, v)
    BY <1>1, <1>3, <2>2, MultipleRaised
  <2>4. Lift(one, c) = 2 * c
    <3>1. 0 + 1 = 1 /\ 2^(0 + 1) = 2 * 2^0
      BY Pow2Succ
    <3> QED BY <2>2, <3>1, Pow2Zero DEF Lift
  <2>5. c * x = (2 * c) * u /\ c * y = (2 * c) * v
    BY <1>1
  <2>6. Multiple(e, Lift(one, c), u, v) = Multiple(e, c, x, y)
    BY <2>4, <2>5 DEF Multiple
  <2> QED BY <1>1, <1>3, <2>1, <2>3, <2>6, MultiplesAre DEF Raises
<1> DEFINE S == 0 .. w - 1
           T == Multiples(t, u, v)
           fn == [c \in S |-> Multiple(t, c, u, v)]
<1>5. IsFiniteSet(S) /\ Cardinality(S) = w
  <2> HIDE DEF w
  <2>1. w - 1 \in Int /\ 0 \in Int /\ ~(0 > w - 1) /\ (w - 1) - 0 + 1 = w
    BY <1>3
  <2> QED BY <2>1, FS_Interval
<1>6. T = {Multiple(t, c, u, v) : c \in S}
  BY DEF Multiples
<1> HIDE DEF w, S, T
<1>7. fn \in Surjection(S, T)
  BY <1>6 DEF Surjection
<1>8. IsFiniteSet(T) /\ Cardinality(T) <= w
  BY <1>5, <1>7, FS_Surjection
<1>9. Multiples(e, x, y) \in SUBSET T
  BY <1>4 DEF T
<1>10. Cardinality(Multiples(e, x, y)) <= Cardinality(T) /\ IsFiniteSet(Multiples(e, x, y))
  BY <1>8, <1>9, FS_Subset
<1>11. Cardinality(Multiples(e, x, y)) \in Nat /\ Cardinality(T) \in Nat
  BY <1>8, <1>10, FS_CardinalityType
<1> QED BY <1>3, <1>8, <1>10, <1>11

\* At its first level a kernel is the identity alone.
LEMMA FirstLevel ==
  ASSUME NEW x \in Int, NEW y \in Int
  PROVE  Multiples(0, x, y) = {O} /\ IsTorsionExponent(0)
<1>1. IsTorsionExponent(0)
  BY PowF DEF IsTorsionExponent
<1>2. ASSUME NEW c \in Int PROVE Multiple(0, c, x, y) = O
  BY AtBottom DEF Multiple
<1>3. PICK c \in Int : c = 0
  OBVIOUS
<1>4. Multiple(0, c, x, y) \in Multiples(0, x, y)
  BY <1>1, MultiplesAre
<1> QED BY <1>1, <1>2, <1>4, MultiplesAre

\* The point of order 2 below a point that is not primitive is the identity.
LEMMA NotPrimitive ==
  ASSUME NEW x \in Int, NEW y \in Int, ~Primitive(x, y)
  PROVE  At(1, x, y) = O
<1>1. PICK u, v \in Int : x = 2 * u /\ y = 2 * v
  <2>1. x % 2 = 0 /\ y % 2 = 0
    BY DEF Primitive
  <2> QED BY <2>1, DivRem
<1>2. 0 + 1 = 1 /\ 2^1 = 2 /\ IsTorsionExponent(1)
  <2>1. 0 + 1 = 1 /\ 2^(0 + 1) = 2 * 2^0
    BY Pow2Succ
  <2> QED BY <2>1, Pow2Zero, FAssumption DEF IsTorsionExponent
<1>3. \A t, s \in Nat : IsTorsionExponent(t + s) => At(t, u, v) = At(t + s, 2^s * u, 2^s * v)
  BY AtRaised
<1>4. At(0, u, v) = At(0 + 1, 2^1 * u, 2^1 * v)
  BY <1>2, <1>3
<1> QED BY <1>1, <1>2, <1>4, AtBottom

-----------------------------------------------------------------------------
(* One lemma for each step of a chain between curves                       *)

\* What the doublings before a 4-isogeny leave: even, and not less than 2.
LEMMA DoublingsStop ==
  ASSUME NEW o \in Nat, o >= 2, o # 2
  PROVE  /\ Doublings(o) \in Nat /\ Doublings(o) >= 1 /\ Doublings(o) <= o
         /\ o - Doublings(o) \in Nat /\ o - Doublings(o) < o
         /\ o - Doublings(o) >= 2 /\ (o - Doublings(o)) % 2 = 0
<1>1. PICK q \in Nat, r \in 0 .. 3 : o = 4 * q + r /\ o \div 4 = q
  <2>1. o = 4 * (o \div 4) + (o % 4) /\ o \div 4 \in Nat /\ o % 4 \in 0 .. 3
    OBVIOUS
  <2> QED BY <2>1
<1>2. o % 2 = r % 2
  BY <1>1
<1>3. Doublings(o) = q * 2 + (r % 2)
  BY <1>1, <1>2 DEF Doublings
<1>4. CASE r = 0
  BY <1>1, <1>3, <1>4
<1>5. CASE r = 1
  BY <1>1, <1>3, <1>5
<1>6. CASE r = 2
  BY <1>1, <1>3, <1>6
<1>7. CASE r = 3
  BY <1>1, <1>3, <1>7
<1> QED BY <1>1, <1>4, <1>5, <1>6, <1>7

\* What a chain with 4-isogenies to go knows of its last point.
LEMMA LastPoint ==
  ASSUME NEW x \in Int, NEW y \in Int, Walking(x, y), cpc = "chain", j < length \div 2
  PROVE  /\ k = Len(orders) /\ k \in Nat /\ k >= 1 /\ j \in Nat /\ length \in 0 .. F
         /\ orders[k] \in Nat /\ orders[k] >= 2 /\ orders[k] + 2 * j <= length
         /\ stratPts[k] = At(orders[k] + 2 * j, x, y)
         /\ Strategy(x, y) /\ Primitive(x, y) /\ length - 2 * j >= 2
<1>1. /\ Strategy(x, y) /\ Primitive(x, y) /\ length \in 0 .. F
      /\ orders \in Seq(Nat) /\ Len(orders) = Len(stratPts) /\ j \in Nat
  BY DEF Walking, Strategy
<1>2. length - 2 * j >= 2 /\ length # 2 * j
  BY <1>1, PowF
<1>3. orders # << >> /\ Len(orders) \in Nat /\ Len(orders) >= 1 /\ orders[1] = length - 2 * j
  BY <1>1, <1>2 DEF Strategy
<1>4. k = Len(orders)
  BY <1>1 DEF k
<1>5. /\ orders[k] + 2 * j <= length /\ stratPts[k] = At(orders[k] + 2 * j, x, y)
      /\ orders[k] \in Nat
  BY <1>1, <1>3, <1>4 DEF Strategy
<1>6. orders[k] >= 2
  <2>1. CASE k = 1
    BY <1>2, <1>3, <2>1
  <2>2. CASE k # 1
    <3>1. k - 1 \in 1 .. Len(orders) - 1 /\ (k - 1) + 1 = k
      BY <1>3, <1>4, <2>2
    <3>2. \A i \in 1 .. Len(orders) - 1 : orders[i + 1] >= 2
      BY <1>1 DEF Strategy
    <3> QED BY <3>1, <3>2
  <2> QED BY <2>1, <2>2
<1> QED BY <1>1, <1>2, <1>3, <1>4, <1>5, <1>6

\* A descent keeps the invariant.
LEMMA DescendWalks ==
  ASSUME NEW x \in Int, NEW y \in Int, Walking(x, y), Descend, UNCHANGED <<lpc, job>>
  PROVE  Walking(x, y)'
<1>1. /\ cpc = "chain" /\ cpc' = cpc /\ length' = length /\ quotient' = quotient /\ j' = j
      /\ j < length \div 2 /\ orders[k] # 2 /\ lpc' = lpc /\ job' = job
  BY DEF Descend
<1>2. /\ k = Len(orders) /\ k \in Nat /\ k >= 1 /\ j \in Nat /\ length \in 0 .. F
      /\ orders[k] \in Nat /\ orders[k] >= 2 /\ orders[k] + 2 * j <= length
      /\ stratPts[k] = At(orders[k] + 2 * j, x, y)
      /\ Strategy(x, y)
  BY <1>1, LastPoint
<1> DEFINE o == orders[k]
           n == Doublings(o)
           m == Len(orders)
<1>3. /\ n \in Nat /\ n >= 1 /\ n <= o /\ o - n \in Nat /\ o - n < o
      /\ o - n >= 2 /\ (o - n) % 2 = 0
  BY <1>1, <1>2, DoublingsStop
<1>4. stratPts' = Append(stratPts, DoubleN(n, stratPts[k])) /\ orders' = Append(orders, o - n)
  BY DEF Descend
<1>5. /\ orders \in Seq(Nat) /\ stratPts \in Seq(Point) /\ Len(orders) = Len(stratPts)
      /\ m \in Nat /\ m >= 1 /\ m = k
  BY <1>2 DEF Strategy
<1> DEFINE p == DoubleN(n, stratPts[k])
           q == o - n
<1>6. stratPts' = Append(stratPts, p) /\ orders' = Append(orders, q)
  BY <1>4
<1>7. o \in Nat /\ o + 2 * j <= length /\ stratPts[k] = At(o + 2 * j, x, y)
  BY <1>2
<1> HIDE DEF n, o, p, q
<1>8. /\ DoubleN(n, stratPts[k]) = At((o - n) + 2 * j, x, y)
      /\ DoubleN(n, stratPts[k]) \in Point /\ (o - n) + 2 * j <= length
  <2> DEFINE t == o + 2 * j
             f == (o - n) + 2 * j
  <2>1. t \in Nat /\ n <= t /\ f = t - n /\ f \in Nat /\ t <= F /\ f <= F /\ f <= length
    BY <1>2, <1>3, <1>7, PowF
  <2>2. IsTorsionExponent(t) /\ IsTorsionExponent(f)
    BY <2>1, PowF DEF IsTorsionExponent
  <2>3. stratPts[k] = At(t, x, y)
    BY <1>7
  <2> HIDE DEF t, f
  <2>4. DoubleN(n, stratPts[k]) = At(f, x, y) /\ At(f, x, y) \in Point
    BY <1>3, <2>1, <2>2, <2>3, AtDouble, AtType
  <2> QED BY <2>1, <2>4 DEF f
<1>9. q \in Nat /\ p \in Point
  BY <1>3, <1>8 DEF p, q
<1> HIDE DEF m
<1>10. Len(orders) = m /\ Len(stratPts) = m /\ m \in Nat
  BY <1>5 DEF m
<1>11. /\ orders' \in Seq(Nat) /\ Len(orders') = m + 1 /\ orders'[m + 1] = q
      /\ \A i \in 1 .. m : orders'[i] = orders[i]
  BY <1>5, <1>6, <1>9, <1>10
<1>12. /\ stratPts' \in Seq(Point) /\ Len(stratPts') = m + 1 /\ stratPts'[m + 1] = p
      /\ \A i \in 1 .. m : stratPts'[i] = stratPts[i]
  BY <1>5, <1>6, <1>9, <1>10
<1>13. orders # << >> /\ orders[1] = length - 2 * j /\ orders' # << >> /\ orders'[1] = orders[1]
  BY <1>2, <1>5, <1>11 DEF Strategy, m
<1>14. \A i \in 1 .. m + 1 :
         orders'[i] + 2 * j <= length /\ stratPts'[i] = At(orders'[i] + 2 * j, x, y)
  <2> TAKE i \in 1 .. m + 1
  <2>1. CASE i = m + 1
    BY <1>8, <1>11, <1>12, <2>1 DEF p, q
  <2>2. CASE i # m + 1
    <3>1. i \in 1 .. m
      BY <1>5, <2>2
    <3>2. orders[i] + 2 * j <= length /\ stratPts[i] = At(orders[i] + 2 * j, x, y)
      BY <1>2, <3>1 DEF Strategy, m
    <3> QED BY <1>11, <1>12, <3>1, <3>2
  <2> QED BY <2>1, <2>2
<1>15. \A i \in 1 .. m :
         orders'[i] > orders'[i + 1] /\ orders'[i + 1] % 2 = 0 /\ orders'[i + 1] >= 2
  <2> TAKE i \in 1 .. m
  <2>1. CASE i = m
    <3>1. orders'[i] = o /\ orders'[i + 1] = q
      BY <1>5, <1>11, <2>1 DEF o
    <3> QED BY <1>3, <1>7, <3>1 DEF q
  <2>2. CASE i # m
    <3>1. i \in 1 .. m - 1 /\ i + 1 \in 1 .. m
      BY <1>5, <2>2
    <3>2. orders[i] > orders[i + 1] /\ orders[i + 1] % 2 = 0 /\ orders[i + 1] >= 2
      BY <1>2, <3>1 DEF Strategy, m
    <3> QED BY <1>11, <3>1, <3>2
  <2> QED BY <2>1, <2>2
<1>16. Strategy(x, y)'
  <2>1. j' \in 0 .. length' \div 2 /\ quotient' = Multiples(2 * j', x, y)
    BY <1>1, <1>2 DEF Strategy
  <2>2. Len(orders') - 1 = m /\ Len(orders') = Len(stratPts')
    BY <1>5, <1>11, <1>12
  <2> QED BY <1>1, <1>11, <1>12, <1>13, <1>14, <1>15, <2>1, <2>2 DEF Strategy
<1> QED BY <1>1, <1>11, <1>12, <1>16 DEF Walking

\* A 4-isogeny divides by two more levels of the kernel and keeps the rest.
LEMMA FourIsogenyWalks ==
  ASSUME NEW x \in Int, NEW y \in Int, Walking(x, y), FourIsogeny, UNCHANGED <<lpc, job>>
  PROVE  /\ Walking(x, y)'
         /\ quotient = Multiples(2 * j, x, y) /\ quotient' = Multiples(2 * j + 2, x, y)
         /\ j \in Nat /\ 2 * j + 2 <= length /\ Primitive(x, y) /\ cpc' = "chain" /\ length' = length
<1>1. /\ cpc = "chain" /\ cpc' = cpc /\ length' = length /\ j' = j + 1
      /\ j < length \div 2 /\ orders[k] = 2 /\ lpc' = lpc /\ job' = job
  BY DEF FourIsogeny
<1>2. /\ k = Len(orders) /\ k \in Nat /\ k >= 1 /\ j \in Nat /\ length \in 0 .. F
      /\ orders[k] + 2 * j <= length
      /\ stratPts[k] = At(orders[k] + 2 * j, x, y)
      /\ Strategy(x, y) /\ Primitive(x, y) /\ length - 2 * j >= 2
  BY <1>1, LastPoint
<1> DEFINE m == Len(orders)
<1>3. /\ orders \in Seq(Nat) /\ stratPts \in Seq(Point) /\ Len(orders) = Len(stratPts)
      /\ m \in Nat /\ m >= 1 /\ m = k /\ Len(stratPts) = m
  BY <1>2 DEF Strategy
<1>4. /\ quotient' = Divided(stratPts[k], 2) /\ orders' = Kept(orders, m - 1, 2)
      /\ stratPts' = SubSeq(stratPts, 1, m - 1)
  BY <1>3 DEF FourIsogeny
<1>5. quotient = Multiples(2 * j, x, y)
  BY <1>2 DEF Strategy
<1>6. quotient' = Multiples(2 * j + 2, x, y)
  <2>1. PICK t, n, e \in Nat : t = 2 * j /\ n = 2 /\ e = t + n
    <3>1. 2 * j \in Nat /\ 2 \in Nat /\ 2 * j + 2 \in Nat
      BY <1>2
    <3> QED BY <3>1
  <2>2. IsTorsionExponent(e) /\ 2 + 2 * j = e /\ 2 * j + 2 = e
    BY <1>2, <2>1, PowF DEF IsTorsionExponent
  <2>3. stratPts[k] = At(e, x, y) /\ quotient = Multiples(t, x, y)
    BY <1>1, <1>2, <1>5, <2>1, <2>2
  <2>4. Divided(At(e, x, y), n) = Multiples(e, x, y)
    <3>1. Extends(t, n, e, x, y)
      BY <2>1, <2>2, <2>3, DividedIs
    <3> QED BY <3>1 DEF Extends
  <2> QED BY <1>4, <2>1, <2>2, <2>3, <2>4
<1> HIDE DEF m
<1>7. ASSUME NEW i \in 1 .. m - 1
      PROVE  /\ orders[i] \in Nat /\ orders[i] > 2 /\ orders[i] + 2 * j <= length
             /\ stratPts[i] = At(orders[i] + 2 * j, x, y)
  <2>1. i \in 1 .. m /\ i + 1 \in 1 .. m /\ i \in 1 .. Len(orders) - 1 /\ i \in 1 .. Len(orders)
    BY <1>3 DEF m
  <2>2. orders[i] \in Nat /\ orders[i + 1] \in Nat
    BY <1>3, <2>1 DEF m
  <2>3. orders[i] > orders[i + 1] /\ orders[i + 1] >= 2
    BY <1>2, <2>1 DEF Strategy
  <2>4. orders[i] + 2 * j <= length /\ stratPts[i] = At(orders[i] + 2 * j, x, y)
    BY <1>2, <2>1 DEF Strategy
  <2> QED BY <2>2, <2>3, <2>4
<1>8. /\ orders' = [i \in 1 .. m - 1 |-> orders[i] - 2]
      /\ \A i \in 1 .. m - 1 : orders'[i] = orders[i] - 2
  BY <1>4 DEF Kept
<1>9. orders' \in Seq(Nat) /\ Len(orders') = m - 1
  <2>1. PICK s \in Nat : s = m - 1
    BY <1>3
  <2>2. \A i \in 1 .. s : orders[i] - 2 \in Nat
    <3> TAKE i \in 1 .. s
    <3>1. orders[i] \in Nat /\ orders[i] > 2
      BY <1>7, <2>1
    <3> QED BY <3>1
  <2>3. orders' \in [1 .. s -> Nat]
    BY <1>8, <2>1, <2>2
  <2> QED BY <2>1, <2>3
<1>10. /\ stratPts' \in Seq(Point) /\ Len(stratPts') = m - 1
       /\ \A i \in 1 .. m - 1 : stratPts'[i] = stratPts[i]
  <2>1. PICK s \in Nat : s = m - 1 /\ s <= Len(stratPts)
    BY <1>3
  <2>2. stratPts' = SubSeq(stratPts, 1, s)
    BY <1>4, <2>1
  <2>3. /\ stratPts' \in Seq(Point) /\ Len(stratPts') = s
        /\ \A i \in 1 .. s : stratPts'[i] = stratPts[i]
    BY <1>3, <2>1, <2>2
  <2> QED BY <2>1, <2>3
<1>11. IF orders' = << >> THEN length = 2 * j' ELSE orders'[1] = length - 2 * j'
  <2>1. orders # << >> /\ orders[1] = length - 2 * j
    BY <1>2, <1>3 DEF Strategy, m
  <2>2. CASE m = 1
    <3>1. orders' = << >>
      BY <1>9, <2>2
    <3>2. orders[1] = 2
      BY <1>1, <1>3, <2>2
    <3> QED BY <1>1, <1>2, <2>1, <3>1, <3>2
  <2>3. CASE m # 1
    <3>1. 1 \in 1 .. m - 1
      BY <1>3, <2>3
    <3>2. orders'[1] = orders[1] - 2 /\ orders' # << >>
      BY <1>8, <1>9, <3>1
    <3>3. length - 2 * j - 2 = length - 2 * (j + 1)
      BY <1>2
    <3> QED BY <1>1, <2>1, <3>2, <3>3
  <2> QED BY <2>2, <2>3
<1>12. \A i \in 1 .. m - 1 :
         orders'[i] + 2 * j' <= length /\ stratPts'[i] = At(orders'[i] + 2 * j', x, y)
  <2> TAKE i \in 1 .. m - 1
  <2>1. orders[i] \in Nat /\ orders'[i] = orders[i] - 2
    BY <1>7, <1>8
  <2>2. orders'[i] + 2 * j' = orders[i] + 2 * j
    BY <1>1, <1>2, <2>1
  <2> QED BY <1>7, <1>10, <2>2
<1>13. \A i \in 1 .. (m - 1) - 1 :
         orders'[i] > orders'[i + 1] /\ orders'[i + 1] % 2 = 0 /\ orders'[i + 1] >= 2
  <2> TAKE i \in 1 .. (m - 1) - 1
  <2>1. i \in 1 .. m - 1 /\ i + 1 \in 1 .. m - 1 /\ i \in 1 .. Len(orders) - 1
    BY <1>3 DEF m
  <2>2. /\ orders[i] \in Nat /\ orders[i + 1] \in Nat /\ orders[i + 1] > 2
        /\ orders'[i] = orders[i] - 2 /\ orders'[i + 1] = orders[i + 1] - 2
    BY <1>7, <1>8, <2>1
  <2>3. orders[i] > orders[i + 1] /\ orders[i + 1] % 2 = 0
    BY <1>2, <2>1 DEF Strategy
  <2>4. PICK a, b \in Nat : a = orders[i] /\ b = orders[i + 1]
    BY <2>2
  <2>5. a - 2 > b - 2 /\ (b - 2) % 2 = 0 /\ b - 2 >= 2
    BY <2>2, <2>3, <2>4
  <2> QED BY <2>2, <2>4, <2>5
<1>14. j' \in 0 .. length' \div 2 /\ j' \in 0 .. F /\ quotient' = Multiples(2 * j', x, y)
  <2>1. 2 * (j + 1) = 2 * j + 2
    BY <1>2
  <2>2. j' \in 0 .. length' \div 2 /\ j' \in 0 .. F
    BY <1>1, <1>2, PowF
  <2> QED BY <1>1, <1>6, <2>1, <2>2
<1>15. Strategy(x, y)'
  BY <1>1, <1>9, <1>10, <1>11, <1>12, <1>13, <1>14 DEF Strategy
<1>16. Walking(x, y)'
  BY <1>1, <1>9, <1>10, <1>14, <1>15 DEF Walking
<1> QED BY <1>1, <1>2, <1>5, <1>6, <1>16

\* The chain returns when all of the kernel has been divided by.
LEMMA ChainReturnsWalks ==
  ASSUME NEW x \in Int, NEW y \in Int, Walking(x, y), ChainReturns, UNCHANGED <<lpc, job>>
  PROVE  /\ Walking(x, y)'
         /\ cpc = "chain" /\ cpc' = "returned" /\ length' = length /\ Primitive(x, y)
         /\ quotient' = Multiples(length, x, y)
         /\ quotient' = quotient
            \/ \E t \in Nat : length = t + 1 /\ quotient = Multiples(t, x, y)
<1>1. /\ cpc = "chain" /\ cpc' = "returned" /\ length' = length /\ j' = j /\ j = length \div 2
      /\ stratPts' = stratPts /\ orders' = orders /\ quotient' = LastStep
      /\ lpc' = lpc /\ job' = job
  BY DEF ChainReturns
<1>2. /\ Strategy(x, y) /\ Primitive(x, y) /\ length \in 0 .. F /\ length \in Nat /\ j \in Nat
      /\ orders \in Seq(Nat) /\ Len(orders) = Len(stratPts) /\ quotient = Multiples(2 * j, x, y)
      /\ IsTorsionExponent(length)
  BY <1>1, PowF DEF Walking, Strategy, IsTorsionExponent
<1>3. CASE length % 2 = 1
  <2>1. PICK t \in Nat : t = 2 * j /\ length = t + 1
    <3>1. 2 * j \in Nat /\ length = 2 * j + 1
      BY <1>1, <1>2, <1>3
    <3> QED BY <3>1
  <2>2. orders # << >> /\ orders[1] = 1 /\ 1 \in 1 .. Len(orders)
    <3>1. length # 2 * j /\ length - 2 * j = 1
      BY <2>1
    <3> QED BY <1>2, <3>1 DEF Strategy
  <2>3. stratPts[1] = At(orders[1] + 2 * j, x, y) /\ stratPts # << >>
    BY <1>2, <2>2 DEF Strategy
  <2>4. 1 + 2 * j = length
    BY <2>1
  <2>5. stratPts[1] = At(length, x, y) /\ quotient = Multiples(t, x, y)
    BY <1>2, <2>1, <2>2, <2>3, <2>4
  <2>6. PICK n \in Nat : n = 1 /\ length = t + n
    BY <2>1
  <2>7. Divided(At(length, x, y), n) = Multiples(length, x, y)
    <3>1. Extends(t, n, length, x, y)
      BY <1>2, <2>5, <2>6, DividedIs
    <3> QED BY <3>1 DEF Extends
  <2>8. quotient' = Multiples(length, x, y)
    BY <1>1, <1>3, <2>3, <2>5, <2>6, <2>7 DEF LastStep
  <2>9. Walking(x, y)'
    BY <1>1, <1>2, <2>8 DEF Walking
  <2> QED BY <1>1, <1>2, <2>1, <2>5, <2>8, <2>9
<1>4. CASE length % 2 # 1
  <2>1. length = 2 * j
    BY <1>1, <1>2, <1>4
  <2>2. quotient' = quotient /\ quotient' = Multiples(length, x, y)
    BY <1>1, <1>2, <1>4, <2>1 DEF LastStep
  <2>3. Walking(x, y)'
    BY <1>1, <1>2, <2>2 DEF Walking
  <2> QED BY <1>1, <1>2, <2>2, <2>3
<1> QED BY <1>3, <1>4

\* A step of the short chain divides by one more level of the kernel, or
\* finds at the first that there is no kernel; no point is refused.
LEMMA SmallStepWalks ==
  ASSUME NEW x \in Int, NEW y \in Int, Walking(x, y), SmallStep, UNCHANGED <<lpc, job>>
  PROVE  /\ Walking(x, y)'
         /\ cpc = "small" /\ length' = length /\ length \in 0 .. F
         /\ \/ /\ cpc' = "lost" /\ ~Primitive(x, y) /\ length >= 1 /\ quotient' = quotient
            \/ /\ cpc' = "small" /\ Primitive(x, y) /\ j \in Nat /\ j + 1 <= length
               /\ quotient = Multiples(j, x, y) /\ quotient' = Multiples(j + 1, x, y)
<1>1. /\ cpc = "small" /\ j < length /\ length' = length /\ stratPts' = stratPts /\ orders' = orders
      /\ lpc' = lpc /\ job' = job
  BY DEF SmallStep
<1>2. /\ ShortWalk(x, y) /\ length \in 0 .. F /\ length \in Nat /\ j \in 0 .. length /\ length >= 1
      /\ quotient = Multiples(j, x, y) /\ stratPts = <<At(length, x, y)>>
      /\ job \in Jobs /\ job.op = "biscalar" /\ length = job.e /\ j \in 0 .. F
      /\ j >= 1 => Primitive(x, y)
  BY <1>1, PowF DEF Walking, ShortWalk
<1>3. PICK i \in Nat : i = j + 1 /\ i <= length /\ IsTorsionExponent(i) /\ IsTorsionExponent(j)
  <2>1. j + 1 \in Nat /\ j + 1 <= length /\ j + 1 <= F
    BY <1>1, <1>2, PowF
  <2> QED BY <1>2, <2>1, PowF DEF IsTorsionExponent
<1>4. SmallKernel = At(i, x, y)
  <2>1. PICK n \in Nat : n = length - j - 1 /\ n <= length /\ i = length - n
    <3>1. length - j - 1 \in Nat /\ length - j - 1 <= length /\ j + 1 = length - (length - j - 1)
      BY <1>1, <1>2
    <3> QED BY <1>3, <3>1
  <2>2. IsTorsionExponent(length)
    BY <1>2, PowF DEF IsTorsionExponent
  <2>3. DoubleN(n, At(length, x, y)) = At(length - n, x, y)
    BY <2>1, <2>2, AtDouble
  <2> QED BY <1>2, <2>1, <2>3 DEF SmallKernel
<1>5. j = 0 => quotient = {O} /\ i = 1
  BY <1>2, <1>3, FirstLevel
<1>6. ~WrongOrder(SmallKernel)
  <2> SUFFICES ASSUME j = 0 PROVE DoubleN(1, SmallKernel) \in quotient
    BY DEF WrongOrder
  <2>1. PICK n \in Nat : n = 1 /\ n <= i /\ i - n = 0
    BY <1>5
  <2>2. DoubleN(n, At(i, x, y)) = At(i - n, x, y)
    BY <1>3, <2>1, AtDouble
  <2>3. At(0, x, y) = O
    BY AtBottom
  <2> QED BY <1>4, <1>5, <2>1, <2>2, <2>3
<1>7. SmallKernel \in quotient <=> ~Primitive(x, y)
  <2>1. CASE Primitive(x, y)
    <3>1. ~(i <= j)
      BY <1>2, <1>3
    <3> QED BY <1>2, <1>3, <1>4, <2>1, <3>1, NotBefore
  <2>2. CASE ~Primitive(x, y)
    <3>1. j = 0
      BY <1>2, <2>2
    <3> QED BY <1>4, <1>5, <2>2, <3>1, NotPrimitive
  <2> QED BY <2>1, <2>2
<1>8. CASE SmallKernel \in quotient
  <2>1. cpc' = "lost" /\ quotient' = quotient /\ j' = j
    BY <1>6, <1>8 DEF SmallStep
  <2>2. ~Primitive(x, y) /\ quotient = {O}
    BY <1>2, <1>5, <1>7, <1>8
  <2>3. Walking(x, y)'
    BY <1>1, <1>2, <2>1, <2>2 DEF Walking
  <2> QED BY <1>1, <1>2, <2>1, <2>2, <2>3
<1>9. CASE SmallKernel \notin quotient
  <2>1. quotient' = Divided(SmallKernel, 1) /\ j' = j + 1 /\ cpc' = cpc
    BY <1>6, <1>9 DEF SmallStep
  <2>2. PICK n \in Nat : n = 1 /\ i = j + n
    BY <1>3
  <2>3. Divided(At(i, x, y), n) = Multiples(i, x, y)
    <3>1. PICK t \in Nat : t = j
      BY <1>2
    <3>2. Extends(t, n, i, x, y)
      BY <1>2, <1>3, <2>2, <3>1, DividedIs
    <3> QED BY <3>2 DEF Extends
  <2>4. quotient' = Multiples(i, x, y) /\ j' = i
    BY <1>3, <1>4, <2>1, <2>2, <2>3
  <2>5. Primitive(x, y)
    BY <1>7, <1>9
  <2>6. ShortWalk(x, y)'
    BY <1>1, <1>2, <1>3, <2>4, <2>5 DEF ShortWalk
  <2>7. j' \in 0 .. F
    BY <1>2, <1>3, <2>4, PowF
  <2>8. Walking(x, y)'
    BY <1>1, <1>2, <2>1, <2>5, <2>6, <2>7 DEF Walking
  <2> QED BY <1>1, <1>2, <1>3, <2>1, <2>4, <2>5, <2>8
<1> QED BY <1>8, <1>9

\* The short chain returns when all of the kernel has been divided by.
LEMMA SmallReturnsWalks ==
  ASSUME NEW x \in Int, NEW y \in Int, Walking(x, y), SmallReturns, UNCHANGED <<lpc, job>>
  PROVE  /\ Walking(x, y)'
         /\ cpc = "small" /\ cpc' = "returned" /\ length' = length /\ Primitive(x, y)
         /\ quotient' = quotient /\ quotient = Multiples(length, x, y)
<1>1. /\ cpc = "small" /\ cpc' = "returned" /\ length' = length /\ j' = j /\ j = length
      /\ stratPts' = stratPts /\ orders' = orders /\ quotient' = quotient
      /\ lpc' = lpc /\ job' = job
  BY DEF SmallReturns
<1>2. quotient = Multiples(length, x, y) /\ Primitive(x, y)
  BY <1>1 DEF Walking, ShortWalk
<1>3. Walking(x, y)'
  BY <1>1, <1>2 DEF Walking
<1> QED BY <1>1, <1>2, <1>3

\* What a ladder gave a chain is, up to its sign, the combination that the
\* ladder was asked for.
LEMMA ReturnedPoint ==
  ASSUME LInv, lpc = "returned", job.op # "scalar", NEW p \in out
  PROVE  /\ job \in Jobs /\ IsTorsionExponent(job.e) /\ job.e \in 1 .. F
         /\ job.op \in {"ladder", "biscalar"} /\ (job.op = "ladder" => job.e = F)
         /\ CoeffP \in Nat /\ CoeffPmQ \in Nat
         /\ \E s \in {-1, 1} : \E x \in {s * CoeffP}, y \in {s * CoeffPmQ} :
               x \in Int /\ y \in Int /\ p = At(job.e, x, y)
<1>1. job \in Jobs /\ out = XOnly(Expected)
  BY DEF LInv, CallInv
<1>2. /\ IsTorsionExponent(job.e) /\ job.e \in 1 .. F /\ job.op \in {"ladder", "biscalar"}
      /\ job.op = "ladder" => job.e = F
      /\ job.m \in Nat /\ job.n \in Nat
  BY <1>1, JobType
<1>3. CoeffP \in Nat /\ CoeffPmQ \in Nat
  BY <1>2 DEF CoeffP, CoeffPmQ
<1>4. XOnly(Expected) = X(job.e, CoeffP, CoeffPmQ)
  <2>1. CASE job.op = "biscalar"
    BY <1>1, <2>1, ExpectedPair DEF CoeffP, CoeffPmQ
  <2>2. CASE job.op = "ladder"
    <3>1. Expected = Combine(1, Base(job.e).P, job.m, Base(job.e).PmQ)
      BY <2>2 DEF Expected
    <3>2. Base(job.e).P = At(job.e, 1, 0) /\ Base(job.e).PmQ = At(job.e, 0, 1)
      BY <1>2, BaseLevel
    <3>3. PICK a, b \in Int : a = 1 /\ b = job.m
      BY <1>2
    <3>4. Combine(a, At(job.e, 1, 0), b, At(job.e, 0, 1)) = At(job.e, a, b)
      BY <1>2, CombineBase
    <3>5. CoeffP = a /\ CoeffPmQ = b
      BY <2>2, <3>3 DEF CoeffP, CoeffPmQ
    <3> QED BY <3>1, <3>2, <3>3, <3>4, <3>5 DEF X
  <2> QED BY <1>2, <2>1, <2>2
<1> DEFINE a == CoeffP
           b == CoeffPmQ
<1>5. a \in Int /\ b \in Int /\ p \in X(job.e, a, b)
  BY <1>1, <1>3, <1>4
<1> HIDE DEF a, b
<1>6. p = At(job.e, a, b) \/ p = At(job.e, -a, -b)
  BY <1>2, <1>5, XBoth
<1>7. 1 * a = a /\ 1 * b = b /\ (-1) * a = -a /\ (-1) * b = -b /\ -a \in Int /\ -b \in Int
  BY <1>5
<1>8. \E s \in {-1, 1} : \E x \in {s * a}, y \in {s * b} :
        x \in Int /\ y \in Int /\ p = At(job.e, x, y)
  BY <1>5, <1>6, <1>7
<1> QED BY <1>1, <1>2, <1>3, <1>8 DEF a, b

\* The challenge isogeny starts on a point that is primitive.
LEMMA ChallengeWalks ==
  ASSUME LInv, ChainIdle, Challenge, UNCHANGED ladderVars
  PROVE  /\ \E s \in {-1, 1} : \E x \in {s * CoeffP}, y \in {s * CoeffPmQ} : Walking(x, y)'
         /\ length' \in 0 .. F /\ cpc' = "chain" /\ quotient' = quotient
<1>1. /\ lpc' = lpc /\ job' = job /\ quotient = {O} /\ j = 0
  BY DEF ChainIdle, ladderVars
<1>2. PICK n \in Backtrackings, p \in out :
        /\ lpc = "returned" /\ job.op = "ladder"
        /\ Start(FALSE, DoubleN(n, p), Remaining(n))
  BY DEF Challenge
<1>3. /\ job \in Jobs /\ job.e = F /\ IsTorsionExponent(job.e)
      /\ \E s \in {-1, 1} : \E x \in {s * CoeffP}, y \in {s * CoeffPmQ} :
               x \in Int /\ y \in Int /\ p = At(job.e, x, y)
  BY <1>2, ReturnedPoint
<1>4. PICK s \in {-1, 1} : \E x \in {s * CoeffP}, y \in {s * CoeffPmQ} :
               x \in Int /\ y \in Int /\ p = At(F, x, y)
  BY <1>3
<1>5. PICK x \in {s * CoeffP}, y \in {s * CoeffPmQ} : x \in Int /\ y \in Int /\ p = At(F, x, y)
  BY <1>4
<1>6. Primitive(x, y)
  <2>1. x = s * 1
    BY <1>2, <1>5 DEF CoeffP
  <2>2. CASE s = 1
    BY <2>1, <2>2 DEF Primitive
  <2>3. CASE s = -1
    <3>1. PICK one \in Int, t \in Int, two \in Nat : one = 1 /\ t = -1 /\ two = 2
      OBVIOUS
    <3>2. (one + t * two) % two = one % two
      <4>1. two > 0
        BY <3>1
      <4>2. \A a, b \in Int, c \in Nat : c > 0 => (a + b * c) % c = a % c
        BY ModShift
      <4>3. one \in Int /\ t \in Int /\ two \in Nat
        OBVIOUS
      <4> HIDE <3>1
      <4> QED BY <4>1, <4>2, <4>3
    <3>3. x = one + t * two /\ one % two = 1
      BY <2>1, <2>3, <3>1
    <3> QED BY <3>1, <3>2, <3>3 DEF Primitive
  <2> QED BY <2>2, <2>3
<1>7. PICK e \in Nat : e = F - n /\ e \in 0 .. F /\ n \in Nat /\ n <= F
  <2>1. n \in 0 .. F /\ F \in Nat
    BY BacktrackingAssumption, PowF
  <2>2. F - n \in Nat /\ F - n \in 0 .. F
    BY <2>1
  <2> QED BY <2>1, <2>2
<1>8. DoubleN(n, p) = At(e, x, y) /\ At(e, x, y) \in Point
  <2>1. IsTorsionExponent(e) /\ IsTorsionExponent(F)
    BY <1>7, PowF DEF IsTorsionExponent
  <2> QED BY <1>5, <1>7, <2>1, AtDouble, AtType
<1>9. /\ cpc' = "chain" /\ length' = e /\ stratPts' = <<At(e, x, y)>> /\ orders' = <<e>>
      /\ quotient' = {O} /\ j' = 0
  BY <1>1, <1>2, <1>7, <1>8 DEF Start, Remaining
<1>10. Strategy(x, y)'
  <2>1. 0 \in 0 .. e \div 2 /\ 2 * 0 = 0 /\ e - 2 * 0 = e /\ e + 2 * 0 = e
    BY <1>7
  <2>2. /\ orders' \in Seq(Nat) /\ stratPts' \in Seq(Point) /\ Len(orders') = 1 /\ Len(stratPts') = 1
        /\ orders'[1] = e /\ stratPts'[1] = At(e, x, y) /\ orders' # << >>
    BY <1>7, <1>8, <1>9
  <2>3. {O} = Multiples(2 * 0, x, y)
    BY <1>5, <2>1, FirstLevel
  <2>4. \A i \in 1 .. Len(orders') : i = 1
    BY <2>2
  <2>5. \A i \in 1 .. Len(orders') - 1 : FALSE
    BY <2>2
  <2> QED BY <1>7, <1>9, <2>1, <2>2, <2>3, <2>4, <2>5 DEF Strategy
<1>11. Walking(x, y)'
  <2>1. stratPts' \in Seq(Point) /\ Len(orders') = Len(stratPts') /\ 0 \in 0 .. F
    BY <1>8, <1>9, PowF
  <2> QED BY <1>1, <1>2, <1>3, <1>6, <1>7, <1>9, <1>10, <2>1 DEF Walking
<1> QED BY <1>1, <1>5, <1>7, <1>9, <1>11

\* The even response starts on whatever point its scalars give.
LEMMA EvenResponseWalks ==
  ASSUME LInv, ChainIdle, EvenResponse, UNCHANGED ladderVars
  PROVE  /\ \E s \in {-1, 1} : \E x \in {s * CoeffP}, y \in {s * CoeffPmQ} : Walking(x, y)'
         /\ length' \in 0 .. F /\ cpc' = "small" /\ quotient' = quotient
<1>1. /\ lpc' = lpc /\ job' = job /\ quotient = {O} /\ j = 0
  BY DEF ChainIdle, ladderVars
<1>2. PICK p \in out :
        lpc = "returned" /\ job.op = "biscalar" /\ Start(TRUE, p, job.e)
  BY DEF EvenResponse
<1>3. /\ job \in Jobs /\ job.e \in 1 .. F /\ IsTorsionExponent(job.e)
      /\ \E s \in {-1, 1} : \E x \in {s * CoeffP}, y \in {s * CoeffPmQ} :
               x \in Int /\ y \in Int /\ p = At(job.e, x, y)
  BY <1>2, ReturnedPoint
<1>4. PICK e \in Nat : e = job.e /\ e \in 1 .. F /\ e \in 0 .. F /\ IsTorsionExponent(e)
  BY <1>3, PowF
<1>5. PICK s \in {-1, 1} : \E x \in {s * CoeffP}, y \in {s * CoeffPmQ} :
               x \in Int /\ y \in Int /\ p = At(e, x, y)
  BY <1>3, <1>4
<1>6. PICK x \in {s * CoeffP}, y \in {s * CoeffPmQ} : x \in Int /\ y \in Int /\ p = At(e, x, y)
  BY <1>5
<1>7. /\ cpc' = "small" /\ length' = e /\ stratPts' = <<At(e, x, y)>> /\ orders' = <<e>>
      /\ quotient' = {O} /\ j' = 0 /\ job'.e = e
  BY <1>1, <1>2, <1>4, <1>6 DEF Start
<1>8. ShortWalk(x, y)'
  <2>1. {O} = Multiples(0, x, y)
    BY <1>6, FirstLevel
  <2>2. 0 \in 0 .. e /\ e >= 1 /\ ~(0 >= 1)
    BY <1>4
  <2> QED BY <1>7, <2>1, <2>2 DEF ShortWalk
<1>9. Walking(x, y)'
  <2>1. stratPts' \in Seq(Point) /\ Len(orders') = Len(stratPts') /\ 0 \in 0 .. F
    BY <1>4, <1>6, <1>7, AtType, PowF
  <2> QED BY <1>1, <1>2, <1>3, <1>4, <1>7, <1>8, <2>1 DEF Walking
<1> QED BY <1>1, <1>4, <1>6, <1>7, <1>9

\* The coordinates that a chain works with are integers.
LEMMA Coordinates ==
  ASSUME job \in Jobs, job.op # "scalar", NEW s \in {-1, 1},
         NEW x \in {s * CoeffP}, NEW y \in {s * CoeffPmQ}
  PROVE  x \in Int /\ y \in Int
<1>1. CoeffP \in Int /\ CoeffPmQ \in Int
  BY JobType DEF CoeffP, CoeffPmQ
<1> DEFINE a == CoeffP
           b == CoeffPmQ
<1>2. a \in Int /\ b \in Int /\ x = s * a /\ y = s * b
  BY <1>1
<1> HIDE DEF a, b
<1> QED BY <1>2

\* Every step of a chain in progress keeps to the walk.
LEMMA ChainStepWalks ==
  ASSUME NEW x \in Int, NEW y \in Int, Walking(x, y), ChainNext, UNCHANGED ladderVars
  PROVE  Walking(x, y)'
<1>1. UNCHANGED <<lpc, job>>
  BY DEF ladderVars
<1>2. CASE Descend
  BY <1>1, <1>2, DescendWalks
<1>3. CASE FourIsogeny
  BY <1>1, <1>3, FourIsogenyWalks
<1>4. CASE ChainReturns
  BY <1>1, <1>4, ChainReturnsWalks
<1>5. CASE SmallStep
  BY <1>1, <1>5, SmallStepWalks
<1>6. CASE SmallReturns
  BY <1>1, <1>6, SmallReturnsWalks
<1> QED BY <1>2, <1>3, <1>4, <1>5, <1>6 DEF ChainNext

\* A chain stays where it is while nothing of it changes.
LEMMA WalkUnmoved ==
  ASSUME NEW x, NEW y, Walking(x, y), UNCHANGED <<chainVars, lpc, job>>
  PROVE  Walking(x, y)'
<1>1. /\ cpc' = cpc /\ length' = length /\ quotient' = quotient /\ stratPts' = stratPts
      /\ orders' = orders /\ j' = j /\ lpc' = lpc /\ job' = job
  BY DEF chainVars
<1>2. Strategy(x, y) => Strategy(x, y)'
  BY <1>1 DEF Strategy
<1>3. ShortWalk(x, y) => ShortWalk(x, y)'
  BY <1>1 DEF ShortWalk
<1> QED BY <1>1, <1>2, <1>3 DEF Walking

\* What is a walk on the same combination afterwards is in the invariant.
LEMMA StillWalking ==
  ASSUME job' = job, NEW s \in {-1, 1}, NEW x \in {s * CoeffP}, NEW y \in {s * CoeffPmQ},
         Walking(x, y)'
  PROVE  ChainInv'
<1>1. CoeffP' = CoeffP /\ CoeffPmQ' = CoeffPmQ
  BY DEF CoeffP, CoeffPmQ
<1> QED BY <1>1 DEF ChainInv

\* The chains' invariant is inductive, given that of the ladders.
LEMMA ChainInductive == ASSUME LInv, ChainInv, [Next]_vars PROVE ChainInv'
<1>1. CASE ChainIdle
  <2>1. CASE UNCHANGED chainVars
    <3>1. ChainIdle'
      BY <1>1, <2>1 DEF ChainIdle, chainVars
    <3> QED BY <3>1 DEF ChainInv
  <2>2. CASE Challenge /\ UNCHANGED ladderVars
    <3>1. job' = job
      BY <2>2 DEF ladderVars
    <3> QED BY <1>1, <2>2, <3>1, ChallengeWalks, StillWalking
  <2>3. CASE EvenResponse /\ UNCHANGED ladderVars
    <3>1. job' = job
      BY <2>3 DEF ladderVars
    <3> QED BY <1>1, <2>3, <3>1, EvenResponseWalks, StillWalking
  <2>4. CASE ChainNext
    <3>1. cpc \in {"chain", "small"}
      BY <2>4 DEF ChainNext, Descend, FourIsogeny, ChainReturns, SmallStep, SmallReturns
    <3> QED BY <1>1, <3>1 DEF ChainIdle
  <2> QED BY <2>1, <2>2, <2>3, <2>4 DEF Next, vars
<1>2. CASE ~ChainIdle
  <2>0. PICK s \in {-1, 1} : \E x \in {s * CoeffP}, y \in {s * CoeffPmQ} : Walking(x, y)
    BY <1>2 DEF ChainInv
  <2>1. PICK x \in {s * CoeffP}, y \in {s * CoeffPmQ} : Walking(x, y)
    BY <2>0
  <2>2. x \in Int /\ y \in Int /\ lpc = "returned" /\ cpc # "idle"
    BY <2>1, Coordinates DEF Walking
  <2>3. ~LadderNext
    BY <2>2 DEF LadderNext, ScalarStep, ScalarReturns, LadderStep, LadderReturns, Lookup,
       BeginRecoding, Recode, BeginEvaluation, Evaluate, EvaluateReturns
  <2>4. CASE ChainNext /\ UNCHANGED ladderVars
    <3>1. job' = job /\ Walking(x, y)'
      BY <2>1, <2>2, <2>4, ChainStepWalks DEF ladderVars
    <3> QED BY <2>1, <3>1, StillWalking
  <2>5. CASE UNCHANGED <<chainVars, ladderVars>>
    <3>1. job' = job /\ Walking(x, y)'
      BY <2>1, <2>5, WalkUnmoved DEF ladderVars
    <3> QED BY <2>1, <3>1, StillWalking
  <2> QED BY <2>2, <2>3, <2>4, <2>5 DEF Next, vars
<1> QED BY <1>1, <1>2

\* The invariant of the chains holds throughout.
LEMMA ChainsHold == Spec => [](LInv /\ ChainInv)
<1>1. Init => ChainInv
  BY DEF Init, ChainInv
<1>2. LInv /\ ChainInv /\ [Next]_vars => ChainInv'
  BY ChainInductive
<1> QED BY <1>1, <1>2, LaddersHold, PTL DEF Spec

\* A sign does not change a parity.
LEMMA SameParity ==
  ASSUME NEW s \in {-1, 1}, NEW m \in Nat
  PROVE  (s * m) % 2 = m % 2
<1>1. \A a, b \in Int, c \in Nat : c > 0 => (a + b * c) % c = a % c
  BY ModShift
<1>2. CASE s = 1
  BY <1>2
<1>3. CASE s = -1
  <2>1. PICK b \in Int, two \in Nat : b = -m /\ two = 2
    OBVIOUS
  <2>2. s * m = m + b * two /\ two > 0
    BY <1>3, <2>1
  <2>3. (m + b * two) % two = m % two
    <3>1. m \in Int /\ b \in Int /\ two \in Nat /\ two > 0
      BY <2>1, <2>2
    <3> HIDE <2>1, <2>2
    <3> QED BY <1>1, <3>1
  <2> QED BY <2>1, <2>2, <2>3
<1> QED BY <1>2, <1>3

\* The short chain loses its way on two even scalars, at the first step, and
\* on no others; it never refuses a point.
LEMMA OutcomeKept == ASSUME ChainInv PROVE SmallChainOutcome
<1>1. CASE ChainIdle
  BY <1>1 DEF ChainIdle, SmallChainOutcome
<1>2. CASE ~ChainIdle
  <2>1. PICK s \in {-1, 1} : \E x \in {s * CoeffP}, y \in {s * CoeffPmQ} : Walking(x, y)
    BY <1>2 DEF ChainInv
  <2>2. PICK x \in {s * CoeffP}, y \in {s * CoeffPmQ} : Walking(x, y)
    BY <2>1
  <2>3. cpc # "refused"
    BY <2>2 DEF Walking
  <2>4. ASSUME job.op = "biscalar"
        PROVE  (cpc = "lost" => Parities = <<0, 0>>) /\ (cpc = "returned" => Parities # <<0, 0>>)
    <3>1. /\ job.m \in Nat /\ job.n \in Nat /\ x = s * job.m /\ y = s * job.n
      <4>1. job \in Jobs
        BY <2>2 DEF Walking
      <4>2. job.m \in Nat /\ job.n \in Nat
        BY <2>4, <4>1, JobType
      <4> QED BY <2>4, <4>2 DEF CoeffP, CoeffPmQ
    <3>2. Parities = <<job.m % 2, job.n % 2>>
      BY <3>1, BitZero DEF Parities
    <3>3. x % 2 = job.m % 2 /\ y % 2 = job.n % 2
      BY <3>1, SameParity
    <3>4. \A z \in Nat : z % 2 = 0 \/ z % 2 = 1
      OBVIOUS
    <3>5. Parities = <<0, 0>> <=> ~Primitive(x, y)
      <4>1. job.m % 2 \in {0, 1} /\ job.n % 2 \in {0, 1}
        BY <3>1, <3>4
      <4> QED BY <3>2, <3>3, <4>1 DEF Primitive
    <3> QED BY <2>2, <3>5 DEF Walking
  <2> QED BY <2>3, <2>4 DEF SmallChainOutcome
<1> QED BY <1>1, <1>2

\* Whatever the scalars, isogeny_small has no curve to return exactly when
\* both were even, and never reports a wrong order.  (curves/isogeny/mod.rs,
\* Kernel::isogeny_small)
THEOREM OutcomeOfSmallChain == Spec => []SmallChainOutcome
BY ChainsHold, OutcomeKept, PTL

-----------------------------------------------------------------------------
\* Doublings enough make any point the identity.
LEMMA DoubledAway ==
  ASSUME NEW e, IsTorsionExponent(e), NEW n \in Nat, n >= e, NEW x \in Int, NEW y \in Int
  PROVE  DoubleN(n, At(e, x, y)) = O
<1>1. e \in Nat /\ n - e \in Nat /\ n = (n - e) + e
  BY PowF DEF IsTorsionExponent
<1> DEFINE d == n - e
           m == 2^d
           w == 2^e
           g == 2^n
<1>2. m \in Int /\ w \in Int /\ g = m * w
  BY <1>1, Pow2Add, Pow2Nat
<1> HIDE DEF m, w, g
<1>3. Times(g, At(e, x, y)) = At(e, g * x, g * y)
  <2>1. g \in Int
    BY <1>2
  <2> QED BY <2>1, AtTimes
<1>4. At(e, g * x, g * y) = At(e, 0, 0)
  <2>1. \A z \in Int : g * z = 0 + (m * z) * w /\ m * z \in Int /\ g * z \in Int
    <3> TAKE z \in Int
    <3>1. g * z = (m * w) * z /\ (m * w) * z = (m * z) * w
      BY <1>2
    <3>2. m * z \in Int /\ g * z \in Int
      BY <1>2
    <3> QED BY <3>1, <3>2
  <2>2. \A z \in Int : Congruent(g * z, 0, e)
    BY <2>1 DEF Congruent, w
  <2>3. PICK zero \in Int : zero = 0
    OBVIOUS
  <2>4. At(e, g * x, g * y) = At(e, zero, zero)
    <3>1. Congruent(g * x, zero, e) /\ Congruent(g * y, zero, e) /\ g * x \in Int /\ g * y \in Int
      BY <2>1, <2>2, <2>3
    <3> HIDE <2>3
    <3> QED BY <3>1, AtCongruent
  <2> QED BY <2>3, <2>4
<1> QED BY <1>3, <1>4, AtZero DEF DoubleN, g

\* Which orders a primitive point has on the curve reached: one only.
LEMMA OrderIs ==
  ASSUME NEW e, IsTorsionExponent(e), NEW t \in Nat, NEW o \in Nat, o + t = e,
         NEW x \in Int, NEW y \in Int, Primitive(x, y), quotient = Multiples(t, x, y)
  PROVE  OrderOf(At(e, x, y)) = o
<1> DEFINE p == At(e, x, y)
           Fits(n) == DoubleN(n, p) \in quotient /\ (n > 0 => DoubleN(n - 1, p) \notin quotient)
<1>1. IsTorsionExponent(t) /\ e \in Nat /\ o \in 0 .. F /\ F \in Nat
  BY PowF DEF IsTorsionExponent
<1>2. \A n \in Nat : n <= e => (DoubleN(n, p) \in quotient <=> o <= n)
  <2> TAKE n \in Nat
  <2> HAVE n <= e
  <2>1. PICK f \in Nat : f = e - n
    BY <1>1
  <2>2. IsTorsionExponent(f)
    BY <1>1, <2>1, PowF DEF IsTorsionExponent
  <2>3. DoubleN(n, p) = At(f, x, y)
    BY <2>1, AtDouble
  <2>4. At(f, x, y) \in quotient <=> f <= t
    BY <1>1, <2>2, NotBefore
  <2> QED BY <1>1, <2>1, <2>3, <2>4
<1>3. \A n \in Nat : n >= e => DoubleN(n, p) \in quotient
  <2> TAKE n \in Nat
  <2> HAVE n >= e
  <2>1. DoubleN(n, p) = O
    BY DoubledAway
  <2>2. DoubleN(e, p) = O
    BY <1>1, DoubledAway
  <2>3. DoubleN(e, p) \in quotient
    BY <1>1, <1>2
  <2> QED BY <2>1, <2>2, <2>3
<1> DEFINE In(n) == DoubleN(n, p) \in quotient
<1>4. /\ \A n \in Nat : n <= e => (In(n) <=> o <= n)
      /\ \A n \in Nat : n >= e => In(n)
  BY <1>2, <1>3
<1>5. \A n \in 0 .. F : Fits(n) <=> (In(n) /\ (n > 0 => ~In(n - 1)))
  OBVIOUS
<1> HIDE DEF In, p
<1>6. \A n \in 0 .. F : (In(n) /\ (n > 0 => ~In(n - 1))) <=> n = o
  <2> TAKE n \in 0 .. F
  <2>1. n \in Nat /\ o <= e
    BY <1>1
  <2>2. CASE n < o
    BY <1>1, <1>4, <2>1, <2>2
  <2>3. CASE n = o
    <3>1. In(n)
      BY <1>1, <1>4, <2>1, <2>3
    <3>2. n > 0 => n - 1 \in Nat /\ n - 1 <= e /\ ~(o <= n - 1)
      BY <2>1, <2>3
    <3> QED BY <1>4, <2>3, <3>1, <3>2
  <2>4. CASE n > o
    <3>1. n > 0 /\ n - 1 \in Nat /\ o <= n - 1
      BY <2>1, <2>4
    <3>2. In(n - 1)
      BY <1>1, <1>4, <3>1
    <3> QED BY <2>4, <3>1, <3>2
  <2> QED BY <2>1, <2>2, <2>3, <2>4
<1>7. \A n \in 0 .. F : Fits(n) <=> n = o
  BY <1>5, <1>6
<1>8. OrderOf(p) = CHOOSE n \in 0 .. F : Fits(n)
  BY DEF OrderOf
<1> HIDE DEF Fits
<1>9. (CHOOSE n \in 0 .. F : Fits(n)) = o
  BY <1>1, <1>7
<1> QED BY <1>8, <1>9 DEF p

\* The orders that the strategy reckons are true.
LEMMA OrdersKept == ASSUME ChainInv PROVE StrategyOrdersTrue
<1> SUFFICES ASSUME cpc = "chain"
             PROVE  /\ \A i \in 1 .. k : orders[i] = OrderOf(stratPts[i])
                    /\ \A i \in 1 .. k - 1 : orders[i] > orders[i + 1]
  BY DEF StrategyOrdersTrue
<1>1. ~ChainIdle
  BY DEF ChainIdle
<1>2. PICK s \in {-1, 1} : \E x \in {s * CoeffP}, y \in {s * CoeffPmQ} : Walking(x, y)
  BY <1>1 DEF ChainInv
<1>3. PICK x \in {s * CoeffP}, y \in {s * CoeffPmQ} : Walking(x, y)
  BY <1>2
<1>4. /\ x \in Int /\ y \in Int /\ Primitive(x, y) /\ Strategy(x, y) /\ length \in 0 .. F
      /\ Len(orders) = k
  BY <1>3, Coordinates DEF Walking, k
<1>5. \A i \in 1 .. k - 1 : orders[i] > orders[i + 1]
  BY <1>4 DEF Strategy
<1>6. ASSUME NEW i \in 1 .. k
      PROVE  orders[i] = OrderOf(stratPts[i])
  <2>1. /\ orders[i] \in Nat /\ j \in Nat /\ orders[i] + 2 * j <= length
        /\ stratPts[i] = At(orders[i] + 2 * j, x, y) /\ quotient = Multiples(2 * j, x, y)
    <3>1. orders \in Seq(Nat) /\ i \in 1 .. Len(orders)
      BY <1>4 DEF Strategy
    <3>2. orders[i] \in Nat
      BY <3>1
    <3>3. length \div 2 \in Int
      BY <1>4, PowF
    <3> QED BY <1>4, <3>1, <3>2, <3>3 DEF Strategy
  <2>2. PICK o \in Nat : o = orders[i]
    BY <2>1
  <2>3. PICK t \in Nat : t = 2 * j
    BY <2>1
  <2>4. PICK e \in Nat : e = o + t
    BY <2>2, <2>3
  <2>5. IsTorsionExponent(e)
    BY <1>4, <2>1, <2>2, <2>3, <2>4, PowF DEF IsTorsionExponent
  <2>6. stratPts[i] = At(e, x, y) /\ quotient = Multiples(t, x, y)
    BY <2>1, <2>2, <2>3, <2>4
  <2>7. OrderOf(At(e, x, y)) = o
    BY <1>4, <2>4, <2>5, <2>6, OrderIs
  <2> QED BY <2>2, <2>6, <2>7
<1> QED BY <1>5, <1>6

\* Whatever the length of the chain and the point, the orders that
\* Kernel::isogeny keeps are its points' own, and every 4-isogeny is given a
\* point of order 4.  (curves/isogeny/mod.rs, Kernel::isogeny)
THEOREM OrdersAreTrue == Spec => []StrategyOrdersTrue
BY ChainsHold, OrdersKept, PTL

-----------------------------------------------------------------------------
\* A kernel is made of points.
LEMMA MultiplesPoints ==
  ASSUME NEW t, IsTorsionExponent(t), NEW x \in Int, NEW y \in Int
  PROVE  Multiples(t, x, y) \subseteq Point
<1> SUFFICES ASSUME NEW c \in 0 .. 2^t - 1 PROVE Multiple(t, c, x, y) \in Point
  BY DEF Multiples
<1>1. t \in Nat
  BY PowF DEF IsTorsionExponent
<1>2. 2^t \in Nat
  BY <1>1, Pow2Nat
<1>3. c * x \in Int /\ c * y \in Int
  BY <1>2
<1> QED BY <1>3, AtType DEF Multiple

\* What a chain divides by is made of points.
LEMMA QuotientPoints ==
  ASSUME NEW x \in Int, NEW y \in Int, Walking(x, y)
  PROVE  quotient \subseteq Point
<1>1. length \in 0 .. F /\ F \in Nat /\ j \in 0 .. F
  BY PowF DEF Walking
<1>2. CASE cpc = "chain"
  <2>1. Strategy(x, y)
    BY <1>2 DEF Walking
  <2>2. 2 * j \in 0 .. F /\ quotient = Multiples(2 * j, x, y)
    <3>1. j \in 0 .. length \div 2 /\ quotient = Multiples(2 * j, x, y)
      BY <2>1 DEF Strategy
    <3>2. 2 * (length \div 2) <= length /\ length \div 2 \in Int
      BY <1>1
    <3> QED BY <1>1, <3>1, <3>2
  <2> QED BY <2>2, MultiplesPoints DEF IsTorsionExponent
<1>3. CASE cpc = "small"
  <2>1. ShortWalk(x, y)
    BY <1>3 DEF Walking
  <2>2. quotient = Multiples(j, x, y)
    BY <2>1 DEF ShortWalk
  <2> QED BY <1>1, <2>2, MultiplesPoints DEF IsTorsionExponent
<1>4. CASE cpc = "returned"
  <2>1. quotient = Multiples(length, x, y)
    BY <1>4 DEF Walking
  <2> QED BY <1>1, <2>1, MultiplesPoints DEF IsTorsionExponent
<1>5. CASE cpc = "lost"
  <2>1. quotient = {O}
    BY <1>5 DEF Walking
  <2>2. O \in Point
    BY PowF DEF O, Point
  <2> QED BY <2>1, <2>2
<1> QED BY <1>2, <1>3, <1>4, <1>5 DEF Walking

\* The invariants give every variable its type.
LEMMA TypeKept == ASSUME LInv, ChainInv, ThetaInv PROVE TypeOK
<1>1. /\ lpc \in {"idle", "scalar", "ladder", "biscalar", "recode", "evaluate", "returned"}
      /\ step \in 0 .. Width /\ out \subseteq Point /\ reg \in Seq(Known)
      /\ \A i \in 1 .. 2 : rec.scalar[i] \in 0 .. 2^Width - 1 /\ rec.sigma[i] \in 0 .. 1
  BY DEF LInv, LadderTypeOK
<1>2. \A i \in 1 .. Len(reg) : reg[i] \subseteq Point
  <2> TAKE i \in 1 .. Len(reg)
  <2>1. reg[i] \in Known
    BY <1>1
  <2> QED BY <2>1, KnownPoints
<1>3. ThetaTypeOK
  BY DEF ThetaInv
<1>4. /\ cpc \in {"idle", "chain", "small", "returned", "refused", "lost"}
      /\ quotient \subseteq Point /\ j \in 0 .. F
      /\ Len(orders) = Len(stratPts) /\ stratPts \in Seq(Point)
  <2>1. CASE ChainIdle
    <3>1. O \in Point /\ 0 \in 0 .. F
      BY PowF DEF O, Point
    <3> QED BY <2>1, <3>1 DEF ChainIdle
  <2>2. CASE ~ChainIdle
    <3>1. PICK s \in {-1, 1} : \E x \in {s * CoeffP}, y \in {s * CoeffPmQ} : Walking(x, y)
      BY <2>2 DEF ChainInv
    <3>2. PICK x \in {s * CoeffP}, y \in {s * CoeffPmQ} : Walking(x, y)
      BY <3>1
    <3>3. x \in Int /\ y \in Int
      BY <3>2, Coordinates DEF Walking
    <3>4. quotient \subseteq Point
      BY <3>2, <3>3, QuotientPoints
    <3> QED BY <3>2, <3>4 DEF Walking
  <2> QED BY <2>1, <2>2
<1> QED BY <1>1, <1>2, <1>3, <1>4 DEF TypeOK

\* Registers, recodings, strategies and kernels are made of what they should
\* be, whatever the sizes.  (curves/mod.rs, curves/isogeny/mod.rs,
\* theta/chain.rs)
THEOREM TypesHold == Spec => []TypeOK
BY ChainsHold, ThetaHolds, TypeKept, PTL

-----------------------------------------------------------------------------
(* The walk along the kernel                                               *)

\* The walk's operators are the ones used here.
LEMMA WalkMeans ==
  /\ \A n, p : Promise!Times(n, p) = Times(n, p) /\ Promise!DoubleN(n, p) = DoubleN(n, p)
  /\ \A S : Promise!Cardinality(S) = Cardinality(S)
  /\ Promise!O = O
<1>1. Promise!O = O /\ \A m, p, n, q : Promise!Combine(m, p, n, q) = Combine(m, p, n, q)
  BY DEF Promise!O, O, Promise!Combine, Combine
<1>2. \A n, p : Promise!Times(n, p) = Times(n, p)
  BY <1>1 DEF Promise!Times, Times
<1>3. \A n, p : Promise!DoubleN(n, p) = DoubleN(n, p)
  BY <1>2 DEF Promise!DoubleN, DoubleN
<1>4. \A S : Promise!Cardinality(S) = Cardinality(S)
  BY DEF Promise!Cardinality, Cardinality, Promise!IsFiniteSet, IsFiniteSet
<1> QED BY <1>1, <1>2, <1>3, <1>4

\* The kernel that the refinement speaks of is the one the invariant does,
\* whatever the sign the ladder's point came with.
LEMMA KernelIs ==
  ASSUME LInv, lpc = "returned", job.op # "scalar",
         NEW l \in 0 .. F, job.op = "biscalar" => l = job.e,
         NEW s \in {-1, 1}, NEW x \in {s * CoeffP}, NEW y \in {s * CoeffPmQ}
  PROVE  Span(DoubleN(job.e - l, CHOOSE p \in out : TRUE), l) = Multiples(l, x, y)
<1> DEFINE p == CHOOSE q \in out : TRUE
<1>1. job \in Jobs /\ out = XOnly(Expected)
  BY DEF LInv, CallInv
<1>2. p \in out
  <2>1. \E q : q \in out
    BY <1>1 DEF XOnly
  <2> QED BY <2>1
<1> HIDE DEF p
<1>3. /\ IsTorsionExponent(job.e) /\ job.e \in 1 .. F /\ job.op \in {"ladder", "biscalar"}
      /\ job.op = "ladder" => job.e = F
      /\ \E r \in {-1, 1} : \E u \in {r * CoeffP}, v \in {r * CoeffPmQ} :
               u \in Int /\ v \in Int /\ p = At(job.e, u, v)
  BY <1>2, ReturnedPoint
<1>4. PICK r \in {-1, 1} : \E u \in {r * CoeffP}, v \in {r * CoeffPmQ} :
               u \in Int /\ v \in Int /\ p = At(job.e, u, v)
  BY <1>3
<1>5. PICK u \in {r * CoeffP}, v \in {r * CoeffPmQ} :
               u \in Int /\ v \in Int /\ p = At(job.e, u, v)
  BY <1>4
<1>6. PICK e \in Nat, n \in Nat : e = job.e /\ n = job.e - l /\ n <= e /\ e - n = l
  BY <1>3, PowF
<1>7. IsTorsionExponent(e) /\ IsTorsionExponent(l)
  BY <1>3, <1>6 DEF IsTorsionExponent
<1>8. DoubleN(n, p) = At(l, u, v)
  BY <1>5, <1>6, <1>7, AtDouble
<1>9. Span(DoubleN(n, p), l) = Multiples(l, u, v)
  BY <1>5, <1>7, <1>8, SpanIs
<1>10. Multiples(l, u, v) = Multiples(l, x, y)
  <2>1. x \in Int /\ y \in Int
    BY <1>1, Coordinates
  <2>2. (u = x /\ v = y) \/ (u = -x /\ v = -y)
    <3>1. CoeffP \in Int /\ CoeffPmQ \in Int
      BY <1>2, ReturnedPoint
    <3> DEFINE a == CoeffP
               b == CoeffPmQ
    <3>2. a \in Int /\ b \in Int /\ u = r * a /\ v = r * b /\ x = s * a /\ y = s * b
      BY <3>1
    <3> HIDE DEF a, b
    <3> QED BY <3>2
  <2> QED BY <1>7, <2>1, <2>2, MultiplesOpposite
<1> QED BY <1>6, <1>9, <1>10 DEF p

\* A call begins a walk along a cyclic kernel.
LEMMA CallBegins ==
  ASSUME LInv, ChainIdle, Challenge \/ EvenResponse, UNCHANGED ladderVars
  PROVE  Promise!Begin
<1>1. /\ \E s \in {-1, 1} : \E x \in {s * CoeffP}, y \in {s * CoeffPmQ} : Walking(x, y)'
      /\ length' \in 0 .. F /\ cpc' \in {"chain", "small"} /\ quotient' = quotient
  BY ChallengeWalks, EvenResponseWalks
<1>2. PICK s \in {-1, 1} : \E x \in {s * CoeffP}, y \in {s * CoeffPmQ} : Walking(x, y)'
  BY <1>1
<1>3. PICK x \in {s * CoeffP}, y \in {s * CoeffPmQ} : Walking(x, y)'
  BY <1>2
<1>4. job' = job /\ out' = out /\ lpc' = lpc
  BY DEF ladderVars
<1>5. PICK l \in 0 .. F : l = length'
  BY <1>1
<1>6. /\ lpc = "returned" /\ job \in Jobs /\ job.op # "scalar"
      /\ job.op = "biscalar" => l = job.e
  <2>1. /\ lpc' = "returned" /\ job' \in Jobs
        /\ job'.op # "ladder" => job'.op = "biscalar" /\ length' = job'.e
    BY <1>3 DEF Walking
  <2> QED BY <1>4, <1>5, <2>1
<1>7. x \in Int /\ y \in Int
  BY <1>6, Coordinates
<1>8. Kernel' = Multiples(l, x, y)
  <2>1. Span(DoubleN(job.e - l, CHOOSE p \in out : TRUE), l) = Multiples(l, x, y)
    BY <1>6, KernelIs
  <2>2. Kernel' = Span(DoubleN(job.e - l, CHOOSE p \in out : TRUE), l)
    BY <1>1, <1>4, <1>5 DEF Kernel
  <2> QED BY <2>1, <2>2
<1>9. Promise!Cyclic(Multiples(l, x, y), l)
  <2>1. IsTorsionExponent(l)
    BY DEF IsTorsionExponent
  <2>2. At(l, x, y) \in Multiples(l, x, y)
    <3>1. PICK c \in Int : c = 1
      OBVIOUS
    <3>2. Multiple(l, c, x, y) \in Multiples(l, x, y)
      BY <1>7, <2>1, MultiplesAre
    <3>3. Multiple(l, 1, x, y) = At(l, x, y)
      BY <1>7, MultipleOne
    <3> QED BY <3>1, <3>2, <3>3
  <2>3. Multiples(l, x, y) = {Times(i, At(l, x, y)) : i \in 0 .. 2^l - 1}
    BY <1>7, <2>1, SpanIs DEF Span
  <2> QED BY <2>2, <2>3, WalkMeans DEF Promise!Cyclic
<1>10. Status = "idle" /\ Status' = "walking"
  BY <1>1 DEF Status, ChainIdle
<1> QED BY <1>1, <1>5, <1>8, <1>9, <1>10 DEF Promise!Begin

\* The kernel of a walk in progress.
LEMMA KernelInWalk ==
  ASSUME LInv, NEW s \in {-1, 1}, NEW x \in {s * CoeffP}, NEW y \in {s * CoeffPmQ}, Walking(x, y)
  PROVE  Kernel = Multiples(length, x, y) /\ IsTorsionExponent(length)
<1>1. /\ lpc = "returned" /\ job.op # "scalar" /\ length \in 0 .. F /\ cpc # "idle"
      /\ job.op = "biscalar" => length = job.e
  BY DEF Walking
<1>2. Span(DoubleN(job.e - length, CHOOSE p \in out : TRUE), length) = Multiples(length, x, y)
  BY <1>1, KernelIs
<1> QED BY <1>1, <1>2 DEF Kernel, IsTorsionExponent

\* Every step of a chain is one of the walk, or leaves it where it was.
LEMMA ChainStepAdvances ==
  ASSUME LInv, NEW s \in {-1, 1}, NEW x \in {s * CoeffP}, NEW y \in {s * CoeffPmQ}, Walking(x, y),
         ChainNext, UNCHANGED ladderVars
  PROVE  Promise!Walk \/ UNCHANGED Promise!walkVars
<1>1. /\ job' = job /\ out' = out /\ lpc' = lpc
  BY DEF ladderVars
<1>2. /\ x \in Int /\ y \in Int /\ length \in 0 .. F /\ length \in Nat
      /\ IsTorsionExponent(length) /\ Kernel = Multiples(length, x, y)
  BY KernelInWalk, Coordinates, PowF DEF Walking
<1>3. length' = length /\ cpc \in {"chain", "small"} /\ cpc' # "idle"
  BY DEF ChainNext, Descend, FourIsogeny, ChainReturns, SmallStep, SmallReturns
<1>4. Kernel' = Kernel /\ Status = "walking"
  BY <1>1, <1>3 DEF Kernel, Status
<1>5. ASSUME NEW t \in Nat, NEW n \in 1 .. 2, t + n <= length, Primitive(x, y),
             quotient = Multiples(t, x, y), quotient' = Multiples(t + n, x, y), cpc' = cpc
      PROVE  Promise!Advance
  <2>1. IsTorsionExponent(t) /\ t < length
    BY <1>2, <1>5, PowF DEF IsTorsionExponent
  <2>2. quotient # Kernel
    BY <1>2, <1>5, <2>1, MultiplesDiffer
  <2>3. {p \in Multiples(length, x, y) : DoubleN(n, p) \in Multiples(t, x, y)}
          = Multiples(t + n, x, y)
    <3>1. PICK e \in Nat, i \in Nat : e = length /\ i = n
      BY <1>2
    <3>2. IsTorsionExponent(e) /\ t + i <= e /\ t \in Nat
      BY <1>2, <1>5, <3>1
    <3>3. Deepens(e, t, i, x, y)
      <4>1. x \in Int /\ y \in Int /\ Primitive(x, y)
        BY <1>2, <1>5
      <4> HIDE <3>1
      <4> QED BY <3>2, <4>1, DeeperIs
    <3> QED BY <3>1, <3>3 DEF Deepens
  <2>4. quotient' = Promise!Deeper(n)
    BY <1>2, <1>5, <2>3, WalkMeans DEF Promise!Deeper
  <2>5. Status' = Status
    BY <1>5 DEF Status
  <2> QED BY <1>3, <1>4, <2>2, <2>4, <2>5 DEF Promise!Advance
<1>6. CASE Descend
  <2>1. quotient' = quotient /\ cpc' = cpc
    BY <1>6 DEF Descend
  <2>2. Status' = Status
    BY <2>1 DEF Status
  <2> QED BY <1>3, <1>4, <2>1, <2>2 DEF Promise!walkVars
<1>7. CASE FourIsogeny
  <2>1. /\ quotient = Multiples(2 * j, x, y) /\ quotient' = Multiples(2 * j + 2, x, y)
        /\ j \in Nat /\ 2 * j + 2 <= length /\ Primitive(x, y)
    BY <1>1, <1>2, <1>7, FourIsogenyWalks
  <2>2. cpc' = cpc
    BY <1>7 DEF FourIsogeny
  <2>3. PICK t \in Nat : t = 2 * j
    BY <2>1
  <2>4. PICK n \in 1 .. 2 : n = 2
    OBVIOUS
  <2>5. t + n <= length /\ quotient = Multiples(t, x, y) /\ quotient' = Multiples(t + n, x, y)
    BY <2>1, <2>3, <2>4
  <2> HIDE <2>3, <2>4
  <2> QED BY <1>5, <2>1, <2>2, <2>5 DEF Promise!Walk
<1>8. CASE ChainReturns
  <2>1. /\ cpc' = "returned" /\ Primitive(x, y) /\ quotient' = Multiples(length, x, y)
        /\ \/ quotient' = quotient
           \/ \E t \in Nat : length = t + 1 /\ quotient = Multiples(t, x, y)
    BY <1>1, <1>2, <1>8, ChainReturnsWalks
  <2>2. quotient' \in {quotient, Promise!Deeper(1)}
    <3>1. ASSUME NEW t \in Nat, length = t + 1, quotient = Multiples(t, x, y)
          PROVE  quotient' = Promise!Deeper(1)
      <4>1. PICK n \in Nat : n = 1
        OBVIOUS
      <4>2. t + n = length /\ t + n <= length
        BY <1>2, <3>1, <4>1
      <4>3. Deepens(length, t, n, x, y)
        <5> HIDE <4>1
        <5> QED BY <1>2, <2>1, <4>2, DeeperIs
      <4>4. quotient' = Promise!Deeper(n)
        BY <1>2, <2>1, <3>1, <4>2, <4>3, WalkMeans DEF Promise!Deeper, Deepens
      <4> QED BY <4>1, <4>4
    <3> QED BY <2>1, <3>1
  <2>3. Status' = "done"
    BY <2>1 DEF Status
  <2>4. Promise!Return
    BY <1>2, <1>3, <1>4, <2>1, <2>2, <2>3 DEF Promise!Return
  <2> QED BY <2>4 DEF Promise!Walk
<1>9. CASE SmallStep
  <2>1. \/ /\ cpc' = "lost" /\ ~Primitive(x, y) /\ length >= 1 /\ quotient' = quotient
        \/ /\ cpc' = "small" /\ Primitive(x, y) /\ j \in Nat /\ j + 1 <= length
           /\ quotient = Multiples(j, x, y) /\ quotient' = Multiples(j + 1, x, y)
    BY <1>1, <1>2, <1>9, SmallStepWalks
  <2>2. CASE cpc' = "lost"
    <3>1. ~Primitive(x, y) /\ length >= 1 /\ quotient' = quotient
      BY <2>1, <2>2
    <3>2. Cardinality(Kernel) # 2^length
      BY <1>2, <3>1, TooSmall
    <3>3. Status' = "lost"
      BY <2>2 DEF Status
    <3>4. Promise!GiveUp
      BY <1>3, <1>4, <3>1, <3>2, <3>3, WalkMeans DEF Promise!GiveUp
    <3> QED BY <3>4 DEF Promise!Walk
  <2>3. CASE cpc' # "lost"
    <3>1. /\ cpc' = "small" /\ Primitive(x, y) /\ j \in Nat /\ j + 1 <= length
          /\ quotient = Multiples(j, x, y) /\ quotient' = Multiples(j + 1, x, y)
      BY <2>1, <2>3
    <3>2. cpc' = cpc
      BY <1>9, <3>1 DEF SmallStep
    <3>3. PICK n \in 1 .. 2 : n = 1
      OBVIOUS
    <3>4. j + n <= length /\ quotient' = Multiples(j + n, x, y)
      BY <3>1, <3>3
    <3> HIDE <3>3
    <3> QED BY <1>5, <3>1, <3>2, <3>4 DEF Promise!Walk
  <2> QED BY <2>2, <2>3
<1>10. CASE SmallReturns
  <2>1. cpc' = "returned" /\ quotient' = quotient /\ quotient = Multiples(length, x, y)
    BY <1>1, <1>2, <1>10, SmallReturnsWalks
  <2>2. Status' = "done"
    BY <2>1 DEF Status
  <2>3. Promise!Return
    BY <1>2, <1>3, <1>4, <2>1, <2>2 DEF Promise!Return
  <2> QED BY <2>3 DEF Promise!Walk
<1> QED BY <1>6, <1>7, <1>8, <1>9, <1>10 DEF ChainNext

\* Every step of the program is one of the walk, or leaves it where it was.
LEMMA StepAdvances ==
  ASSUME LInv, ChainInv, [Next]_vars
  PROVE  [Promise!Begin \/ Promise!Walk]_(Promise!walkVars)
<1>1. CASE ChainIdle
  <2>1. CASE UNCHANGED chainVars
    <3>1. cpc = "idle" /\ cpc' = "idle" /\ quotient' = quotient /\ length' = length
      BY <1>1, <2>1 DEF ChainIdle, chainVars
    <3> QED BY <3>1 DEF Promise!walkVars, Kernel, Status
  <2>2. CASE (Challenge \/ EvenResponse) /\ UNCHANGED ladderVars
    BY <1>1, <2>2, CallBegins
  <2>3. CASE ChainNext
    <3>1. cpc \in {"chain", "small"}
      BY <2>3 DEF ChainNext, Descend, FourIsogeny, ChainReturns, SmallStep, SmallReturns
    <3> QED BY <1>1, <3>1 DEF ChainIdle
  <2> QED BY <2>1, <2>2, <2>3 DEF Next, vars
<1>2. CASE ~ChainIdle
  <2>1. PICK s \in {-1, 1} : \E x \in {s * CoeffP}, y \in {s * CoeffPmQ} : Walking(x, y)
    BY <1>2 DEF ChainInv
  <2>2. PICK x \in {s * CoeffP}, y \in {s * CoeffPmQ} : Walking(x, y)
    BY <2>1
  <2>3. lpc = "returned" /\ cpc # "idle"
    BY <2>2 DEF Walking
  <2>4. ~LadderNext
    BY <2>3 DEF LadderNext, ScalarStep, ScalarReturns, LadderStep, LadderReturns, Lookup,
       BeginRecoding, Recode, BeginEvaluation, Evaluate, EvaluateReturns
  <2>5. CASE ChainNext /\ UNCHANGED ladderVars
    BY <2>2, <2>5, ChainStepAdvances
  <2>6. CASE UNCHANGED <<chainVars, ladderVars>>
    <3>1. cpc' = cpc /\ quotient' = quotient /\ length' = length /\ job' = job /\ out' = out
      BY <2>6 DEF chainVars, ladderVars
    <3> QED BY <3>1 DEF Promise!walkVars, Kernel, Status
  <2> QED BY <2>3, <2>4, <2>5, <2>6 DEF Next, vars
<1> QED BY <1>1, <1>2

\* Whatever the point and the length, Kernel::isogeny and
\* Kernel::isogeny_small divide by the levels of one cyclic kernel in turn,
\* by all of it before they return, and give up only on too small a one.
\* (curves/isogeny/mod.rs)
THEOREM WalksAlongKernel == Spec => Promise!Steps
<1>1. Init => Promise!Init
  <2> SUFFICES ASSUME Init PROVE Promise!Init
    OBVIOUS
  <2>1. cpc = "idle" /\ length = 0 /\ quotient = {O}
    BY DEF Init, ChainIdle
  <2>2. Status = "idle" /\ Kernel = {O}
    BY <2>1 DEF Status, Kernel
  <2> QED BY <2>1, <2>2, WalkMeans DEF Promise!Init
<1>2. LInv /\ ChainInv /\ [Next]_vars => [Promise!Begin \/ Promise!Walk]_(Promise!walkVars)
  BY StepAdvances
<1> QED BY <1>1, <1>2, ChainsHold, PTL DEF Spec, Promise!Steps

=============================================================================
