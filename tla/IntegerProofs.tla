----------------------------- MODULE IntegerProofs ---------------------------
(***************************************************************************)
(* Division with remainder, digit by digit and bit by bit, and with it all *)
(* calls of the integers of Numbers: a thread that makes them gets from    *)
(* each what it computes.                                                  *)
(***************************************************************************)
EXTENDS LimbProofs

-----------------------------------------------------------------------------
(* Division by one limb                                                    *)

\* A digit, and what is left of it.
LEMMA ShortDigit ==
  ASSUME NEW d \in Word, d > 0, NEW r \in 0 .. d - 1, NEW x \in Word, NEW p, p = r * Base + x
  PROVE  /\ p \in Nat /\ p \div d \in Word /\ p % d \in 0 .. d - 1 /\ p \div d \in Nat
         /\ p = d * (p \div d) + (p % d)
<1> DEFINE B == Base
           q == p \div d
           s == p % d
<1>1. d \in Nat /\ B \in Nat /\ B >= 4 /\ r \in Nat
  <2> d \in Nat
    BY WordIs
  <2> QED BY BaseIs
<1>2. x \in Nat /\ x < B
  BY WordIs
<1>3. p \in Nat /\ p < d * B
  <2>1. p = r * B + x
    OBVIOUS
  <2> HIDE DEF B
  <2>2. r * B <= (d - 1) * B /\ (d - 1) * B = d * B - B /\ r * B \in Nat /\ d * B \in Nat
    BY <1>1
  <2> DEFINE rB == r * B
             dB == d * B
  <2>3. rB <= dB - B /\ rB \in Nat /\ dB \in Nat /\ p = rB + x
    BY <2>1, <2>2
  <2> HIDE DEF rB, dB
  <2>4. p \in Nat /\ p < dB
    BY <1>1, <1>2, <2>3
  <2> QED BY <2>4 DEF dB
<1> HIDE DEF B
<1>4. p = d * q + s /\ q \in Nat /\ s \in 0 .. d - 1
  BY <1>1, <1>3, DivRem
<1> HIDE DEF q, s
<1>5. q < B
  <2>1. q * d < B * d
    <3> DEFINE qd == d * q
    <3>1. qd \in Nat /\ p = qd + s /\ q * d = qd /\ d * B = B * d
      BY <1>1, <1>4
    <3> HIDE DEF qd
    <3>2. qd < d * B
      BY <1>1, <1>3, <1>4, <3>1
    <3> QED BY <3>1, <3>2
  <2> QED BY <1>1, <1>4, <2>1, Cancel
<1>6. q \in Word
  BY <1>1, <1>4, <1>5 DEF Word, B
<1> QED BY <1>3, <1>4, <1>6 DEF q, s

\* The remainders of the highest limbs.
LEMMA RemaindersAre ==
  ASSUME NEW n \in Nat, NEW a \in [0 .. n - 1 -> Word], NEW d \in Word, d > 0
  PROVE  /\ Remainders(a, d) \in [0 .. Width(a) -> (0 .. d - 1)]
         /\ Remainders(a, d)[0] = 0
         /\ \A i \in 0 .. Width(a) - 1 : Remainders(a, d)[i + 1] = (Remainders(a, d)[i] * Base + a[Width(a) - (i + 1)]) % d
<1> DEFINE G == [p \in (0 .. d - 1) \X Nat |-> IF p[2] \in 1 .. Width(a) THEN (p[1] * Base + a[Width(a) - p[2]]) % d ELSE 0]
           P(h) == h = [i \in 0 .. Width(a) |-> IF i = 0 THEN 0 ELSE CHOOSE next \in {(s * Base + a[Width(a) - i]) % d : s \in {h[i - 1]}} : TRUE]
<1>n. Width(a) = n /\ Width(a) \in Nat
  BY WidthIs
<1>s. 0 \in (0 .. d - 1)
  <2> d \in Nat
    BY WordIs
  <2> QED OBVIOUS
<1>0. ASSUME NEW prev \in (0 .. d - 1), NEW i \in 1 .. Width(a) PROVE (prev * Base + a[Width(a) - i]) % d \in (0 .. d - 1)
  <2> DEFINE x == a[Width(a) - i]
             p == prev * Base + x
  <2>1. x \in Word
    <3> n - i \in 0 .. n - 1
      BY <1>n
    <3> QED BY <1>n
  <2>2. p = prev * Base + x
    OBVIOUS
  <2> HIDE DEF x, p
  <2>3. p % d \in 0 .. d - 1
    BY <2>1, <2>2, ShortDigit
  <2> QED BY <2>3 DEF x, p
<1>1. G \in [(0 .. d - 1) \X Nat -> (0 .. d - 1)]
  <2> SUFFICES ASSUME NEW p \in (0 .. d - 1) \X Nat PROVE (IF p[2] \in 1 .. Width(a) THEN (p[1] * Base + a[Width(a) - p[2]]) % d ELSE 0) \in (0 .. d - 1)
    OBVIOUS
  <2>1. p[1] \in (0 .. d - 1)
    OBVIOUS
  <2> QED BY <1>0, <1>s, <2>1
<1>2. PICK g \in [0 .. Width(a) -> (0 .. d - 1)] : Up(g, Width(a), 0, G)
  <2> HIDE DEF G
  <2> QED BY <1>n, <1>1, <1>s, Recursion, Zenon
<1>3. ASSUME NEW i \in 1 .. Width(a), NEW prev \in (0 .. d - 1) PROVE G[<<prev, i>>] = (prev * Base + a[Width(a) - i]) % d
  <2> <<prev, i>> \in (0 .. d - 1) \X Nat /\ <<prev, i>>[1] = prev /\ <<prev, i>>[2] = i
    OBVIOUS
  <2> QED OBVIOUS
<1> HIDE DEF G
<1>4. \A i \in 1 .. Width(a) : g[i] = (g[i - 1] * Base + a[Width(a) - i]) % d
  <2> TAKE i \in 1 .. Width(a)
  <2>1. i - 1 \in 0 .. Width(a) /\ g[i - 1] \in (0 .. d - 1)
    BY <1>n
  <2>2. g[i] = G[<<g[i - 1], i>>]
    BY <1>2 DEF Up
  <2> QED BY <2>1, <2>2, <1>3
<1>c. ASSUME NEW i, NEW z PROVE (CHOOSE next \in {(s * Base + a[Width(a) - i]) % d : s \in {z}} : TRUE) = (z * Base + a[Width(a) - i]) % d
  <2>1. {(s * Base + a[Width(a) - i]) % d : s \in {z}} = {(z * Base + a[Width(a) - i]) % d}
    OBVIOUS
  <2> QED BY <2>1
<1>5. P(g)
  <2>1. g[0] = 0
    BY <1>2 DEF Up
  <2>2. g = [i \in 0 .. Width(a) |-> g[i]]
    OBVIOUS
  <2>3. \A i \in 0 .. Width(a) : i # 0 => i \in 1 .. Width(a)
    BY <1>n
  <2> QED BY <1>c, <1>4, <2>1, <2>2, <2>3
<1>6. Remainders(a, d) = CHOOSE h : P(h)
  BY DEF Remainders, Iterates
<1> DEFINE h == Remainders(a, d)
<1>7. P(h)
  <2> HIDE DEF P
  <2> QED BY <1>5, <1>6
<1> HIDE DEF h
<1>8. h = [i \in 0 .. Width(a) |-> h[i]] /\ h[0] = 0
  <2>1. DOMAIN h = 0 .. Width(a) /\ 0 \in 0 .. Width(a)
    BY <1>n, <1>7
  <2> QED BY <1>7, <2>1
<1>9. ASSUME NEW i \in 1 .. Width(a), h[i - 1] \in (0 .. d - 1) PROVE h[i] = G[<<h[i - 1], i>>]
  <2>1. i \in 0 .. Width(a) /\ i # 0
    BY <1>n
  <2>2. h[i] = (h[i - 1] * Base + a[Width(a) - i]) % d
    BY <1>c, <1>7, <2>1
  <2> QED BY <1>3, <1>9, <2>2
<1>10. UpWithin(h, Width(a), 0, (0 .. d - 1), G)
  BY <1>8, <1>9 DEF UpWithin
<1>11. h = g
  BY <1>n, <1>1, <1>2, <1>s, <1>10, UpUnique, Zenon
<1>12. \A i \in 0 .. Width(a) - 1 : i + 1 \in 1 .. Width(a) /\ (i + 1) - 1 = i
  BY <1>n
<1>13. \A i \in 0 .. Width(a) - 1 : g[i + 1] = (g[i] * Base + a[Width(a) - (i + 1)]) % d
  BY <1>4, <1>12
<1> QED BY <1>2, <1>11, <1>13 DEF h, Up

\* The quotient and the remainder are those of the value.
Divides(qr, a, v, n) ==
    /\ qr.q \in [0 .. n - 1 -> Word] /\ qr.r \in [0 .. n - 1 -> Word]
    /\ Value(qr.q) = Value(a) \div v /\ Value(qr.r) = Value(a) % v

\* The digits of an array, divided from the top.
ShortDigits(q, a, R, d, n) ==
    \A k \in 0 .. n - 1 : R[n - (k + 1)] * Base + a[k] = d * q[k] + R[n - k]

\* The digits of such a division make up the quotient.
LEMMA ShortDigitsSum ==
  ASSUME NEW n \in Nat, NEW a \in [0 .. n - 1 -> Word], NEW q \in [0 .. n - 1 -> Word], NEW d \in Nat,
         NEW R \in [0 .. n -> Nat], R[0] = 0, ShortDigits(q, a, R, d, n)
  PROVE  Value(a) = Value(q) * d + R[n]
<1>1. /\ Below(a)[0] = 0 /\ Value(a) = Below(a)[n] /\ Below(a) \in [0 .. n -> Nat]
      /\ \A i \in 0 .. n - 1 : Below(a)[i + 1] = Below(a)[i] + a[i] * Weight(i)
  BY BelowWords
<1>2. /\ Below(q)[0] = 0 /\ Value(q) = Below(q)[n] /\ Below(q) \in [0 .. n -> Nat]
      /\ \A i \in 0 .. n - 1 : Below(q)[i + 1] = Below(q)[i] + q[i] * Weight(i)
  BY BelowWords
\* What is left above limb j.
<1> DEFINE Left(j) == (Below(a)[n - j] + R[j] * Weight(n - j)) - d * Below(q)[n - j]
           T == {j \in Nat : j <= n => Left(j) = Value(a) - d * Value(q)}
<1>3. 0 \in T
  <2>1. n - 0 = n /\ Value(a) \in Int /\ Weight(n) \in Int
    BY <1>1, WeightIs
  <2>2. Left(0) = (Value(a) + 0 * Weight(n)) - d * Value(q)
    BY <1>1, <1>2, <2>1
  <2>3. 0 * Weight(n) = 0 /\ Value(a) + 0 = Value(a)
    BY <2>1
  <2>4. Left(0) = Value(a) - d * Value(q)
    BY <2>2, <2>3
  <2> HIDE DEF Left
  <2> QED BY <2>4
<1>4. ASSUME NEW j \in T PROVE j + 1 \in T
  <2>1. SUFFICES ASSUME j + 1 <= n PROVE Left(j + 1) = Left(j)
    OBVIOUS
  <2> DEFINE k == n - (j + 1)
             w == Weight(k)
             x == a[k]
             y == q[k]
             r == R[j]
             s == R[j + 1]
             A == Below(a)[k]
             Q == Below(q)[k]
             B == Base
  <2>2. k \in 0 .. n - 1 /\ k \in Nat /\ k + 1 = n - j /\ n - (k + 1) = j /\ n - k = j + 1 /\ j \in 0 .. n /\ j + 1 \in 0 .. n
        /\ k \in 0 .. n
    BY <2>1
  <2>3. r \in Nat /\ s \in Nat /\ A \in Nat /\ Q \in Nat
    BY <1>1, <1>2, <2>2
  <2>4. r * B + x = d * y + s
    <3>1. R[n - (k + 1)] * Base + a[k] = d * q[k] + R[n - k]
      <4> HIDE DEF k
      <4> QED BY <2>2 DEF ShortDigits
    <3> QED BY <2>2, <3>1
  <2>5. Below(a)[n - j] = A + x * w /\ Below(q)[n - j] = Q + y * w
    <3>1. Below(a)[k + 1] = A + x * w /\ Below(q)[k + 1] = Q + y * w
      <4> HIDE DEF k
      <4> QED BY <1>1, <1>2, <2>2
    <3> QED BY <2>2, <3>1
  <2>6. Weight(n - j) = B * w /\ w \in Nat
    <3>1. Weight(k + 1) = Base * Weight(k) /\ Weight(k) \in Nat
      <4> HIDE DEF k
      <4> QED BY <2>2, WeightNext
    <3> QED BY <2>2, <3>1
  <2>7. x \in Nat /\ y \in Nat
    <3>1. x \in Word /\ y \in Word
      BY <2>2
    <3> HIDE DEF x, y
    <3>2. x \in Nat
      BY <3>1, WordIs
    <3>3. y \in Nat
      BY <3>1, WordIs
    <3> QED BY <3>2, <3>3
  <2>8. B \in Nat
    BY BaseIs
  <2>9. Left(j) = ((A + x * w) + r * (B * w)) - d * (Q + y * w) /\ Left(j + 1) = (A + s * w) - d * Q
    BY <2>5, <2>6
  <2> HIDE DEF k, w, x, y, r, s, A, Q, B
  <2>10. ((A + x * w) + r * (B * w)) - d * (Q + y * w) = (A + s * w) - d * Q
    <3> DEFINE xw == x * w
               rw == r * (B * w)
               dQ == d * Q
               dw == d * (y * w)
               sw == s * w
    <3>1. (r * B + x) * w = (d * y + s) * w
      BY <2>4
    <3>2. (r * B + x) * w = r * (B * w) + x * w /\ (d * y + s) * w = d * (y * w) + s * w
      BY <2>3, <2>6, <2>7, <2>8
    <3>3. xw \in Int /\ rw \in Int /\ dQ \in Int /\ dw \in Int /\ sw \in Int
      <4>1. xw \in Int /\ sw \in Int
        BY <2>3, <2>6, <2>7
      <4>2. dQ \in Int
        BY <2>3
      <4>3. rw \in Int
        BY <2>3, <2>6, <2>8
      <4>4. dw \in Int
        BY <2>6, <2>7
      <4> QED BY <4>1, <4>2, <4>3, <4>4
    <3>4. d * (Q + y * w) = dQ + dw
      BY <2>3, <2>6, <2>7
    <3>5. rw + xw = dw + sw
      BY <3>1, <3>2
    <3> HIDE DEF xw, rw, dQ, dw, sw
    <3>6. ((A + xw) + rw) - (dQ + dw) = (A + sw) - dQ
      BY <2>3, <3>3, <3>5
    <3> QED BY <3>4, <3>6 DEF xw, rw, dQ, sw
  <2> QED BY <2>9, <2>10
<1>5. T = Nat
  <2> T \subseteq Nat
    OBVIOUS
  <2> HIDE DEF T
  <2> QED BY <1>3, <1>4, SetInduction
<1>6. n \in T
  <2> HIDE DEF T
  <2> QED BY <1>5
<1> DEFINE A == Value(a)
           Q == Value(q)
           r == R[n]
<1>7. A \in Nat /\ Q \in Nat /\ r \in Nat
  BY <1>1, <1>2
<1>8. (0 + r * 1) - d * 0 = A - d * Q
  <2>1. n - n = 0 /\ Weight(0) = 1
    BY WeightFirst
  <2>2. Left(n) = (0 + r * 1) - d * 0
    BY <1>1, <1>2, <2>1
  <2> QED BY <1>6, <2>2
<1> HIDE DEF A, Q, r
<1> DEFINE dQ == d * Q
<1>9. dQ \in Nat /\ r = A - dQ /\ Q * d = dQ
  BY <1>7, <1>8
<1> HIDE DEF dQ
<1>10. A = dQ + r
  BY <1>7, <1>9
<1> QED BY <1>9, <1>10 DEF A, Q, r

\* Division by one limb.
LEMMA ShortDivisionIs ==
  ASSUME NEW n \in Nat, n >= 1, NEW a \in [0 .. n - 1 -> Word], NEW d \in Word, d > 0
  PROVE  Divides(ShortDivision(a, d), a, d, n)
<1> DEFINE R == Remainders(a, d)
           q == [i \in 0 .. n - 1 |-> (R[n - 1 - i] * Base + a[i]) \div d]
           o == OneLimb(R[n], n)
<1>n. Width(a) = n
  BY WidthIs
<1>1. /\ R \in [0 .. n -> 0 .. d - 1] /\ R[0] = 0
      /\ \A i \in 0 .. n - 1 : R[i + 1] = (R[i] * Base + a[n - (i + 1)]) % d
  BY <1>n, RemaindersAre
<1>2. ShortDivision(a, d) = [q |-> q, r |-> o]
  BY <1>n DEF ShortDivision
<1>d. d \in Nat /\ d < Base
  BY WordIs
<1> HIDE DEF R
<1>3. ASSUME NEW k \in 0 .. n - 1
      PROVE  q[k] \in Word /\ R[n - (k + 1)] * Base + a[k] = d * q[k] + R[n - k]
  <2> DEFINE i == n - (k + 1)
             r == R[i]
             x == a[k]
             p == r * Base + x
  <2>1. i \in 0 .. n - 1 /\ i \in 0 .. n /\ i + 1 = n - k /\ n - (i + 1) = k /\ n - 1 - k = i
    OBVIOUS
  <2>2. r \in 0 .. d - 1 /\ x \in Word /\ p = r * Base + x
    BY <1>1, <2>1
  <2>3. q[k] = p \div d /\ R[n - k] = p % d
    <3>1. R[i + 1] = (R[i] * Base + a[n - (i + 1)]) % d
      <4> HIDE DEF i
      <4> QED BY <1>1, <2>1
    <3> QED BY <2>1, <3>1
  <2> HIDE DEF p, r, x, i, q
  <2>4. p \div d \in Word /\ p = d * (p \div d) + (p % d)
    BY <2>2, ShortDigit
  <2> QED BY <2>2, <2>3, <2>4 DEF r, x, i
<1>4. q \in [0 .. n - 1 -> Word]
  <2> q = [i \in 0 .. n - 1 |-> q[i]]
    OBVIOUS
  <2> HIDE DEF q
  <2> QED BY <1>3
<1> HIDE DEF q
<1>5. R \in [0 .. n -> Nat] /\ R[n] \in 0 .. d - 1 /\ R[n] \in Word
  <2>1. \A i \in 0 .. n : R[i] \in 0 .. d - 1
    BY <1>1
  <2>2. R[n] \in 0 .. d - 1
    BY <2>1
  <2>3. \A i \in 0 .. n : R[i] \in Nat
    BY <1>d, <2>1
  <2>4. R \in [0 .. n -> Nat]
    BY <1>1, <2>3
  <2> QED BY <1>d, <2>2, <2>4, BaseIs DEF Word
<1>6. o \in [0 .. n - 1 -> Word] /\ Value(o) = R[n]
  <2> DEFINE x == R[n]
  <2>1. x \in Word
    BY <1>5
  <2> HIDE DEF x
  <2>2. OneLimb(x, n) \in [0 .. n - 1 -> Word] /\ Value(OneLimb(x, n)) = x
    BY <2>1, OneLimbIs
  <2> QED BY <2>2 DEF x
<1>7. Value(a) = Value(q) * d + R[n]
  <2> ShortDigits(q, a, R, d, n)
    BY <1>3 DEF ShortDigits
  <2> QED BY <1>1, <1>4, <1>5, <1>d, ShortDigitsSum
<1>8. Value(a) \in Int /\ Value(q) \in Int
  <2>1. Value(a) \in Nat
    BY ValueNat
  <2>2. Value(q) \in Nat
    BY <1>4, ValueNat
  <2> QED BY <2>1, <2>2
<1> DEFINE A == Value(a)
           Q == Value(q)
           r == R[n]
<1>9. A \in Int /\ Q \in Int /\ r \in Int /\ 0 <= r /\ r < d /\ A = Q * d + r /\ d \in Nat /\ d > 0
  BY <1>5, <1>7, <1>8, <1>d
<1> HIDE DEF A, Q, r
<1>10. A \div d = Q /\ A % d = r
  BY <1>9, EuclidUnique
<1> QED BY <1>2, <1>4, <1>6, <1>10 DEF Divides, A, Q, r

-----------------------------------------------------------------------------
(* A digit by its estimate                                                 *)

\* Below B, a digit is too large when its product with the two limbs of the
\* divisor passes the three of the dividend.
LEMMA TooLargeIs ==
  ASSUME NEW top2 \in Nat, NEW third \in Word, NEW v_hi \in Word, NEW v_2nd \in Word, NEW q \in Word,
         NEW T, T = top2 * Base + third, NEW V, V = v_hi * Base + v_2nd
  PROVE  TooLarge(q, top2, third, v_hi, v_2nd) <=> q * V > T
<1> DEFINE B == Base
           r == top2 - q * v_hi
           y == q * v_2nd
           h == q * v_hi
<1>1. B \in Nat /\ B >= 4 /\ third \in Nat /\ third < B /\ v_hi \in Nat /\ v_2nd \in Nat /\ v_2nd < B /\ q \in Nat /\ q < B
  BY BaseIs, WordIs
<1>2. TooLarge(q, top2, third, v_hi, v_2nd) <=> r < B /\ y > r * B + third
  BY DEF TooLarge
<1>3. T = top2 * B + third /\ V = v_hi * B + v_2nd
  OBVIOUS
<1> HIDE DEF B
<1>4. h \in Nat /\ y \in Nat /\ r = top2 - h /\ r \in Int
  BY <1>1
<1>5. q * V = h * B + y
  <2>1. q * (v_hi * B + v_2nd) = (q * v_hi) * B + q * v_2nd
    BY <1>1
  <2> QED BY <1>3, <2>1
<1>6. r * B = top2 * B - h * B
  <2> HIDE DEF h
  <2> QED BY <1>1, <1>4
<1>7. y < B * B
  <2>1. q * v_2nd <= B * v_2nd
    BY <1>1, TimesMonotone
  <2>2. v_2nd * B <= (B - 1) * B /\ (B - 1) * B = B * B - B /\ v_2nd * B = B * v_2nd
    <3>1. v_2nd <= B - 1 /\ B - 1 \in Nat
      BY <1>1
    <3>2. v_2nd * B <= (B - 1) * B
      BY <1>1, <3>1, TimesMonotone
    <3> QED BY <1>1, <3>2
  <2> DEFINE bb == B * B
             bv == B * v_2nd
  <2>3. bb \in Nat /\ bv \in Nat /\ y <= bv /\ bv <= bb - B
    BY <1>1, <2>1, <2>2
  <2> HIDE DEF bb, bv, y
  <2>4. y < bb
    BY <1>1, <1>4, <2>3
  <2> QED BY <2>4 DEF bb
<1>8. r >= B => r * B >= B * B
  <2> HAVE r >= B
  <2>1. r \in Nat
    BY <1>1, <1>4
  <2> HIDE DEF r
  <2> QED BY <1>1, <2>1, TimesMonotone
<1> DEFINE hB == h * B
           tB == top2 * B
           rB == r * B
           bb == B * B
<1>9. hB \in Int /\ tB \in Int /\ rB \in Int /\ bb \in Int /\ T = tB + third /\ q * V = hB + y /\ rB = tB - hB /\ y < bb
      /\ (r >= B => rB >= bb)
  BY <1>1, <1>3, <1>4, <1>5, <1>6, <1>7, <1>8
<1>10. (r < B /\ y > rB + third) <=> (hB + y > T)
  <2> HIDE DEF hB, tB, rB, bb, y, r
  <2> QED BY <1>1, <1>4, <1>9
<1> QED BY <1>2, <1>9, <1>10

\* The estimate is a word, and no digit that fits passes it.
Estimate(top, second, v_hi) == IF top >= v_hi THEN Base - 1 ELSE (top * Base + second) \div v_hi

\* The estimate is a word, and at least the digit.
LEMMA EstimateIs ==
  ASSUME NEW top \in Word, NEW second \in Word, NEW v_hi \in Word, v_hi > 0, NEW third \in Word, NEW v_2nd \in Word,
         NEW T, T = (top * Base + second) * Base + third, NEW V, V = v_hi * Base + v_2nd
  PROVE  /\ Estimate(top, second, v_hi) \in Word
         /\ \A q \in Word : q * V <= T => q <= Estimate(top, second, v_hi)
<1> DEFINE B == Base
           t2 == top * B + second
           e == t2 \div v_hi
           s == t2 % v_hi
<1>1. B \in Nat /\ B >= 4 /\ third \in Nat /\ third < B /\ v_hi \in Nat /\ v_2nd \in Nat /\ second \in Nat /\ second < B /\ top \in Nat
  BY BaseIs, WordIs
<1>e. Estimate(top, second, v_hi) = IF top >= v_hi THEN B - 1 ELSE e
  BY DEF Estimate
<1>w. Word = 0 .. B - 1
  BY DEF Word
<1>3. T = t2 * B + third /\ V = v_hi * B + v_2nd
  OBVIOUS
<1> HIDE DEF B
<1>4. CASE top >= v_hi
  <2> HIDE DEF e
  <2> QED BY <1>1, <1>e, <1>w, <1>4
<1>5. CASE ~(top >= v_hi)
  <2>1. t2 \in Nat /\ t2 < v_hi * B
    <3>1. (top + 1) * B <= v_hi * B /\ (top + 1) * B = top * B + B
      <4>1. top + 1 \in Nat /\ top + 1 <= v_hi
        BY <1>1, <1>5
      <4>2. (top + 1) * B <= v_hi * B
        BY <1>1, <4>1, TimesMonotone
      <4> QED BY <1>1, <4>2
    <3> DEFINE tB == top * B
               vB == v_hi * B
    <3>2. tB \in Nat /\ vB \in Nat /\ tB + B <= vB /\ t2 = tB + second
      BY <1>1, <3>1
    <3> HIDE DEF tB, vB
    <3>3. t2 \in Nat /\ t2 < vB
      BY <1>1, <3>2
    <3> QED BY <3>3 DEF vB
  <2> HIDE DEF t2
  <2>2. v_hi \in Nat /\ v_hi > 0
    BY <1>1
  <2>3. t2 = v_hi * e + s /\ e \in Nat /\ s \in 0 .. v_hi - 1
    BY <2>1, <2>2, DivRem
  <2> HIDE DEF e, s
  <2>4. e < B
    <3> DEFINE ve == v_hi * e
    <3>1. ve \in Nat /\ ve <= t2
      <4>1. ve \in Nat
        BY <1>1, <2>3
      <4> HIDE DEF ve
      <4> QED BY <1>1, <2>1, <2>3, <4>1 DEF ve
    <3>2. e * v_hi < B * v_hi
      <4>1. e * v_hi = ve /\ B * v_hi = v_hi * B /\ v_hi * B \in Nat
        BY <1>1, <2>3
      <4> HIDE DEF ve
      <4> QED BY <2>1, <3>1, <4>1
    <3> QED BY <1>1, <2>3, <2>2, <3>2, Cancel
  <2>5. ASSUME NEW q \in Word, q * V <= T PROVE q <= e
    <3>1. q \in Nat
      BY WordIs
    <3> DEFINE h == q * v_hi
               y == q * v_2nd
    <3>2. h \in Nat /\ y \in Nat /\ q * V = h * B + y
      BY <1>1, <1>3, <3>1
    <3>3. h * B < (t2 + 1) * B
      <4> DEFINE hB == h * B
                 tB == t2 * B
      <4>1. hB \in Nat /\ tB \in Nat /\ (t2 + 1) * B = tB + B /\ T = tB + third /\ q * V = hB + y
        BY <1>1, <1>3, <2>1, <3>2
      <4> HIDE DEF hB, tB, y
      <4>2. hB < tB + B
        BY <1>1, <2>5, <3>2, <4>1
      <4> QED BY <4>1, <4>2 DEF hB
    <3>4. h < t2 + 1
      <4>1. t2 + 1 \in Nat /\ B > 0
        BY <1>1, <2>1
      <4> HIDE DEF h
      <4> QED BY <1>1, <3>2, <3>3, <4>1, Cancel
    <3>5. q * v_hi < (e + 1) * v_hi
      <4> DEFINE ve == v_hi * e
      <4>1. ve \in Nat /\ (e + 1) * v_hi = ve + v_hi /\ t2 = ve + s
        BY <1>1, <2>3
      <4> HIDE DEF ve, h
      <4>2. h < ve + v_hi
        BY <1>1, <2>1, <2>3, <3>2, <3>4, <4>1
      <4> QED BY <4>1, <4>2 DEF h
    <3>6. e + 1 \in Nat /\ q < e + 1
      <4>1. e + 1 \in Nat
        BY <2>3
      <4> QED BY <1>1, <2>2, <3>1, <3>5, <4>1, Cancel
    <3> QED BY <2>3, <3>1, <3>6
  <2> QED BY <1>1, <1>5, <1>e, <1>w, <2>3, <2>4, <2>5
<1> QED BY <1>4, <1>5

\* q is the quotient of t and v, among the words.
Quotient(q, t, v) == q \in Word /\ q * v <= t /\ \A p \in Word : p * v <= t => p <= q

\* The digit as it is tried: it is the quotient of the leading limbs.
LEMMA QHatWhole ==
  ASSUME NEW top \in Word, NEW second \in Word, NEW third \in Word, NEW v_hi \in Word, v_hi > 0, NEW v_2nd \in Word,
         NEW T, T = (top * Base + second) * Base + third, NEW V, V = v_hi * Base + v_2nd,
         NEW qh, qh = QHat(top, second, third, v_hi, v_2nd)
  PROVE  Quotient(qh, T, V)
<1> DEFINE t2 == top * Base + second
           e == Estimate(top, second, v_hi)
           S == {q \in 0 .. e : ~TooLarge(q, t2, third, v_hi, v_2nd)}
<1>1. t2 \in Nat /\ T = t2 * Base + third
  BY BaseIs, WordIs
<1>2. e \in Word /\ \A q \in Word : q * V <= T => q <= e
  BY EstimateIs
<1>3. qh = Max(S)
  BY DEF QHat, Estimate
<1>w. Word = 0 .. Base - 1 /\ Base \in Nat /\ Word \subseteq Nat
  BY BaseIs DEF Word
<1>v. V \in Nat /\ T \in Nat
  BY <1>1, BaseIs, WordIs
<1> HIDE DEF t2, e
<1>4. \A q \in Word : TooLarge(q, t2, third, v_hi, v_2nd) <=> q * V > T
  BY <1>1, TooLargeIs
<1>5. \A q \in 0 .. e : q \in Word /\ q \in Nat
  BY <1>2, <1>w
<1>6. S = {q \in 0 .. e : q * V <= T}
  <2> \A q \in 0 .. e : ~TooLarge(q, t2, third, v_hi, v_2nd) <=> q * V <= T
    <3> TAKE q \in 0 .. e
    <3>1. q \in Word /\ q * V \in Int
      BY <1>5, <1>v
    <3> QED BY <1>4, <1>v, <3>1
  <2> QED OBVIOUS
<1> HIDE DEF S
<1>7. 0 \in S
  <2> 0 \in 0 .. e /\ 0 * V = 0 /\ 0 <= T
    BY <1>2, <1>w, <1>v
  <2> QED BY <1>6
<1>8. S \subseteq 0 .. e /\ e \in Nat /\ S # {}
  BY <1>2, <1>6, <1>7, <1>w
<1>9. qh \in S /\ \A y \in S : qh >= y
  BY <1>3, <1>8, MaxIs
<1>10. ASSUME NEW q \in Word, q * V <= T PROVE q <= qh
  <2>1. q \in 0 .. e
    BY <1>2, <1>10, <1>w
  <2>2. q \in S
    BY <1>6, <1>10, <2>1
  <2>3. qh >= q /\ qh \in Nat /\ q \in Nat
    BY <1>5, <1>6, <1>9, <2>1, <2>2
  <2> QED BY <2>3
<1> QED BY <1>5, <1>6, <1>9, <1>10 DEF Quotient

\* t and v are T and V from the weight w on.
Leading(T, V, t, v, w, l, k) ==
    /\ w \in Nat /\ w >= 1 /\ l \in Nat /\ l < w /\ k \in Nat /\ k < w
    /\ T = t * w + l /\ V = v * w + k /\ T < V * Base

\* qh is the quotient of U and D, or one more.
Tried(qh, U, D) == qh \in Word /\ U < (qh + 1) * D /\ (qh >= 1 => (qh - 1) * D <= U)

\* It is the digit of the whole numbers, or one more.
LEMMA QHatIs ==
  ASSUME NEW top \in Word, NEW second \in Word, NEW third \in Word, NEW v_hi \in Word, v_hi > 0, NEW v_2nd \in Word,
         NEW t, t = (top * Base + second) * Base + third, NEW v, v = v_hi * Base + v_2nd,
         NEW T, NEW V, NEW w, NEW l, NEW k, Leading(T, V, t, v, w, l, k),
         NEW qh, qh = QHat(top, second, third, v_hi, v_2nd)
  PROVE  Tried(qh, T, V)
<1>0. /\ w \in Nat /\ w >= 1 /\ l \in Nat /\ l < w /\ k \in Nat /\ k < w
      /\ T = t * w + l /\ V = v * w + k /\ T < V * Base
  BY DEF Leading
<1>1. qh \in Word /\ qh * v <= t /\ \A q \in Word : q * v <= t => q <= qh
  <2> Quotient(qh, t, v)
    BY QHatWhole
  <2> QED BY DEF Quotient
<1> DEFINE B == Base
<1>2. B \in Nat /\ qh \in Nat /\ qh < B
  BY <1>0, <1>1, BaseIs, WordIs
<1>3. v \in Nat /\ v >= B /\ t \in Nat
  <2>1. v_hi \in Nat /\ v_2nd \in Nat /\ top \in Nat /\ second \in Nat /\ third \in Nat
    BY WordIs
  <2>2. v = v_hi * B + v_2nd /\ t = (top * B + second) * B + third
    OBVIOUS
  <2> HIDE DEF B
  <2>3. 1 <= v_hi /\ 1 \in Nat
    BY <1>0, <2>1
  <2>4. 1 * B <= v_hi * B
    BY <1>0, <1>2, <2>1, <2>3, TimesMonotone
  <2> DEFINE vB == v_hi * B
  <2>5. vB \in Nat /\ vB >= B /\ v = vB + v_2nd
    BY <1>0, <1>2, <2>1, <2>2, <2>4
  <2> HIDE DEF vB
  <2>6. v \in Nat /\ v >= B
    BY <1>0, <1>2, <2>1, <2>5
  <2>7. t \in Nat
    BY <1>0, <1>2, <2>1, <2>2
  <2> QED BY <1>0, <2>6, <2>7
<1>w. \A q \in Nat : q < B => q \in Word
  <2> B \in Nat
    BY <1>0, <1>2
  <2> QED BY DEF Word
<1>T. T \in Nat /\ V \in Nat /\ T < V * B /\ V > 0
  <2>1. B >= 4
    BY BaseIs
  <2> HIDE DEF B
  <2> DEFINE vw == v * w
             tw == t * w
  <2>2. vw \in Nat /\ tw \in Nat /\ V = vw + k /\ T = tw + l
    BY <1>0, <1>3
  <2>3. 1 * w <= v * w
    <3>1. 1 <= v /\ 1 \in Nat
      BY <1>0, <1>2, <1>3, <2>1
    <3> QED BY <1>0, <1>3, <3>1, TimesMonotone
  <2>4. vw >= w
    BY <1>0, <2>3
  <2> HIDE DEF vw, tw
  <2>5. V > 0 /\ V \in Nat /\ T \in Nat
    BY <1>0, <2>2, <2>4
  <2> QED BY <1>0, <2>5 DEF B
<1> HIDE DEF B
<1>4. T < (qh + 1) * V
  <2> SUFFICES ASSUME ~(T < (qh + 1) * V) PROVE FALSE
    OBVIOUS
  <2> DEFINE q == qh + 1
             qv == q * v
             qk == q * k
  <2>1. q \in Nat /\ q * V \in Nat
    BY <1>0, <1>2, <1>T
  <2>2. q * V <= T
    BY <1>0, <1>T, <2>1
  <2> HIDE DEF q
  <2>3. q < B
    <3>1. q * V < B * V
      <4>1. V * B = B * V /\ V * B \in Nat
        BY <1>0, <1>2, <1>T
      <4> QED BY <1>0, <1>T, <2>1, <2>2, <4>1
    <3> QED BY <1>0, <1>2, <1>T, <2>1, <3>1, Cancel
  <2>4. qv \in Nat /\ qk \in Nat /\ q * V = qv * w + qk
    <3>1. qv \in Nat /\ qk \in Nat
      BY <1>0, <1>3, <2>1
    <3>2. q * V = (q * v) * w + q * k
      BY <1>0, <1>3, <2>1
    <3> QED BY <3>1, <3>2
  <2>5. qv * w < (t + 1) * w
    <3> DEFINE a == qv * w
               b == t * w
    <3>1. a \in Nat /\ b \in Nat /\ (t + 1) * w = b + w /\ T = b + l /\ q * V = a + qk
      BY <1>0, <1>3, <2>4
    <3> HIDE DEF a, b, qv, qk
    <3>2. a < b + w
      BY <1>0, <2>2, <2>4, <3>1
    <3> QED BY <3>1, <3>2 DEF a
  <2>6. qv < t + 1
    <3>1. t + 1 \in Nat /\ w > 0
      BY <1>0, <1>3
    <3> HIDE DEF qv
    <3> QED BY <1>0, <2>4, <2>5, <3>1, Cancel
  <2>7. q * v <= t
    <3> HIDE DEF qv
    <3>1. qv <= t
      BY <1>0, <1>3, <2>4, <2>6
    <3> QED BY <3>1 DEF qv
  <2>8. q <= qh
    BY <1>0, <1>1, <1>w, <2>1, <2>3, <2>7
  <2> QED BY <1>0, <1>2, <2>8 DEF q
<1>5. ASSUME qh >= 1 PROVE (qh - 1) * V <= T
  <2> DEFINE q == qh - 1
             qv == q * v
             qk == q * k
  <2>1. q \in Nat /\ q <= v /\ qh = q + 1
    BY <1>0, <1>2, <1>3, <1>5
  <2> HIDE DEF q
  <2>2. qv \in Nat /\ qk \in Nat /\ q * V = qv * w + qk
    <3>1. qv \in Nat /\ qk \in Nat
      BY <1>0, <1>3, <2>1
    <3>2. q * V = (q * v) * w + q * k
      BY <1>0, <1>3, <2>1
    <3> QED BY <3>1, <3>2
  <2>3. qk <= v * w
    <3>1. k * q <= w * q
      <4> k <= w
        BY <1>0
      <4> QED BY <1>0, <2>1, TimesMonotone
    <3>2. q * w <= v * w
      BY <1>0, <1>3, <2>1, TimesMonotone
    <3>3. k * q = qk /\ w * q = q * w /\ q * w \in Nat /\ v * w \in Nat
      BY <1>0, <1>3, <2>1
    <3> HIDE DEF qk
    <3> QED BY <1>0, <2>2, <3>1, <3>2, <3>3
  <2>4. qv * w + v * w <= t * w
    <3>1. qh * v = qv + v
      BY <1>0, <1>3, <2>1
    <3>2. qv + v \in Nat /\ qv + v <= t
      BY <1>0, <1>1, <1>3, <2>2, <3>1
    <3>3. (qv + v) * w <= t * w
      BY <1>0, <1>3, <3>2, TimesMonotone
    <3>4. (qv + v) * w = qv * w + v * w
      <4> HIDE DEF qv
      <4> QED BY <1>0, <1>3, <2>2
    <3> QED BY <3>3, <3>4
  <2> DEFINE a == qv * w
             b == t * w
             c == v * w
  <2>5. a \in Nat /\ b \in Nat /\ c \in Nat /\ qk \in Nat /\ T = b + l /\ q * V = a + qk /\ qk <= c /\ a + c <= b
    BY <1>0, <1>3, <2>2, <2>3, <2>4
  <2>6. q * V <= T
    <3> HIDE DEF a, b, c, qk
    <3> QED BY <1>0, <2>5
  <2> QED BY <1>0, <2>6 DEF q
<1> QED BY <1>1, <1>4, <1>5 DEF Tried

\* A word, less a product of two words and a borrow, borrows one word.
LEMMA WordBorrow ==
  ASSUME NEW r \in Word, NEW x \in Word, NEW y \in Word, NEW c \in Word
  PROVE  - ((r - x * y - c) \div Base) \in Word
<1> DEFINE B == Base
           z == r - x * y - c
<1>1. B \in Nat /\ B >= 4 /\ r \in 0 .. B - 1 /\ x \in 0 .. B - 1 /\ y \in 0 .. B - 1 /\ c \in 0 .. B - 1
  BY BaseIs DEF Word
<1>2. z \in Int /\ z < B /\ z >= - ((B - 1) * B)
  <2> DEFINE xy == x * y
             k == B - 1
             kk == k * k
  <2>1. k \in Nat /\ x <= k /\ y <= k /\ (B - 1) * B = kk + k /\ r <= k /\ c <= k
    BY <1>1
  <2>2. x * y <= k * k
    <3> HIDE DEF k
    <3>1. x \in Nat /\ y \in Nat
      BY <1>1
    <3>2. x * y <= k * y
      BY <2>1, <3>1, TimesMonotone
    <3>3. y * k <= k * k
      BY <2>1, <3>1, TimesMonotone
    <3>4. x * y \in Int /\ k * y \in Int /\ k * k \in Int /\ k * y = y * k
      BY <2>1, <3>1
    <3> QED BY <3>2, <3>3, <3>4
  <2>3. xy \in Nat /\ kk \in Nat /\ xy <= kk /\ z = r - xy - c
    <3>1. x * y \in Nat /\ k * k \in Nat
      BY <1>1
    <3> HIDE DEF k
    <3> QED BY <1>1, <2>2, <3>1
  <2> HIDE DEF xy, kk, k, z
  <2>4. z \in Int /\ z < B /\ z >= - (kk + k)
    BY <1>1, <2>1, <2>3
  <2> QED BY <2>1, <2>4
<1> HIDE DEF B, z
<1> DEFINE d == z \div B
           m == z % B
<1>3. d \in Int /\ z = B * d + m /\ m \in 0 .. B - 1
  BY <1>1, <1>2
<1> HIDE DEF d, m
<1>4. d < 1
  <2> SUFFICES ASSUME d >= 1 PROVE FALSE
    BY <1>3
  <2>1. d \in Nat /\ 1 <= d /\ 1 \in Nat
    BY <1>3
  <2>2. 1 * B <= d * B
    BY <1>1, <2>1, TimesMonotone
  <2>3. B <= B * d /\ B * d \in Int
    BY <1>1, <1>3, <2>2
  <2> QED BY <1>1, <1>2, <1>3, <2>3
<1>5. d > - B
  <2> SUFFICES ASSUME d <= - B PROVE FALSE
    BY <1>1, <1>3
  <2> DEFINE e == - d
  <2>1. e \in Nat /\ B <= e
    BY <1>1, <1>3
  <2> HIDE DEF e
  <2>2. B * B <= e * B
    BY <1>1, <2>1, TimesMonotone
  <2>3. e * B = - (B * d) /\ B * d \in Int
    BY <1>1, <1>3 DEF e
  <2> DEFINE bb == B * B
             bd == B * d
  <2>4. bb \in Int /\ bd \in Int /\ bb <= - bd /\ (B - 1) * B = bb - B /\ z = bd + m
    BY <1>1, <1>3, <2>2, <2>3
  <2> HIDE DEF bb, bd
  <2> QED BY <1>1, <1>2, <1>3, <2>4
<1> QED BY <1>1, <1>3, <1>4, <1>5 DEF B, z, d, Word

\* The borrows along a digit's product.
Borrowed(cy, u, q, v, j, n_b) ==
    /\ cy \in [0 .. n_b -> Word] /\ cy[0] = 0
    /\ \A i \in 0 .. n_b - 1 : cy[i + 1] = - ((u[j + i] - q * v[i] - cy[i]) \div Base)

\* A digit borrows from each limb to the next.
LEMMA DigitBorrowsAre ==
  ASSUME NEW n \in Nat, NEW u \in [0 .. n - 1 -> Word], NEW m \in Nat, NEW v \in [0 .. m - 1 -> Word],
         NEW q \in Word, NEW j \in Nat, NEW n_b \in 0 .. m, j + n_b <= n
  PROVE  Borrowed(DigitBorrows(u, q, v, j, n_b), u, q, v, j, n_b)
<1> DEFINE G == [p \in Word \X Nat |-> IF p[2] \in 1 .. n_b THEN - ((u[j + p[2] - 1] - q * v[p[2] - 1] - p[1]) \div Base) ELSE 0]
           P(h) == h = [i \in 0 .. n_b |-> IF i = 0 THEN 0 ELSE - ((u[j + i - 1] - q * v[i - 1] - h[i - 1]) \div Base)]
<1>n. n_b \in Nat
  OBVIOUS
<1>s. 0 \in Word
  BY BaseIs DEF Word
<1>0. ASSUME NEW prev \in Word, NEW i \in 1 .. n_b PROVE - ((u[j + i - 1] - q * v[i - 1] - prev) \div Base) \in Word
  <2>1. j + i - 1 \in 0 .. n - 1 /\ i - 1 \in 0 .. m - 1
    OBVIOUS
  <2>2. u[j + i - 1] \in Word /\ v[i - 1] \in Word
    BY <2>1
  <2> QED BY <2>2, WordBorrow
<1>1. G \in [Word \X Nat -> Word]
  <2> SUFFICES ASSUME NEW p \in Word \X Nat PROVE (IF p[2] \in 1 .. n_b THEN - ((u[j + p[2] - 1] - q * v[p[2] - 1] - p[1]) \div Base) ELSE 0) \in Word
    OBVIOUS
  <2>1. p[1] \in Word
    OBVIOUS
  <2> QED BY <1>0, <1>s, <2>1
<1>2. PICK g \in [0 .. n_b -> Word] : Up(g, n_b, 0, G)
  <2> HIDE DEF G
  <2> QED BY <1>n, <1>1, <1>s, Recursion, Zenon
<1>3. ASSUME NEW i \in 1 .. n_b, NEW prev \in Word PROVE G[<<prev, i>>] = - ((u[j + i - 1] - q * v[i - 1] - prev) \div Base)
  <2> <<prev, i>> \in Word \X Nat /\ <<prev, i>>[1] = prev /\ <<prev, i>>[2] = i
    OBVIOUS
  <2> QED OBVIOUS
<1> HIDE DEF G
<1>4. \A i \in 1 .. n_b : g[i] = - ((u[j + i - 1] - q * v[i - 1] - g[i - 1]) \div Base)
  <2> TAKE i \in 1 .. n_b
  <2>1. i - 1 \in 0 .. n_b /\ g[i - 1] \in Word
    BY <1>n
  <2>2. g[i] = G[<<g[i - 1], i>>]
    BY <1>2 DEF Up
  <2> QED BY <2>1, <2>2, <1>3
<1>5. P(g)
  <2>1. g[0] = 0
    BY <1>2 DEF Up
  <2>2. g = [i \in 0 .. n_b |-> g[i]]
    OBVIOUS
  <2>3. \A i \in 0 .. n_b : i # 0 => i \in 1 .. n_b
    BY <1>n
  <2> QED BY <1>4, <2>1, <2>2, <2>3
<1>6. DigitBorrows(u, q, v, j, n_b) = CHOOSE h : P(h)
  BY DEF DigitBorrows
<1> DEFINE h == DigitBorrows(u, q, v, j, n_b)
<1>7. P(h)
  <2> HIDE DEF P
  <2> QED BY <1>5, <1>6
<1> HIDE DEF h
<1>8. h = [i \in 0 .. n_b |-> h[i]] /\ h[0] = 0
  <2>1. DOMAIN h = 0 .. n_b /\ 0 \in 0 .. n_b
    BY <1>n, <1>7
  <2> QED BY <1>7, <2>1
<1>9. ASSUME NEW i \in 1 .. n_b, h[i - 1] \in Word PROVE h[i] = G[<<h[i - 1], i>>]
  <2>1. i \in 0 .. n_b /\ i # 0
    BY <1>n
  <2>2. h[i] = - ((u[j + i - 1] - q * v[i - 1] - h[i - 1]) \div Base)
    BY <1>7, <2>1
  <2> QED BY <1>3, <1>9, <2>2
<1>10. UpWithin(h, n_b, 0, Word, G)
  BY <1>8, <1>9 DEF UpWithin
<1>11. h = g
  BY <1>n, <1>1, <1>2, <1>s, <1>10, UpUnique, Zenon
<1>12. \A i \in 0 .. n_b - 1 : i + 1 \in 1 .. n_b /\ (i + 1) - 1 = i /\ j + (i + 1) - 1 = j + i
  BY <1>n
<1>13. \A i \in 0 .. n_b - 1 : g[i + 1] = - ((u[j + i] - q * v[i] - g[i]) \div Base)
  BY <1>4, <1>12
<1> QED BY <1>2, <1>11, <1>13 DEF h, Up, Borrowed

\* What a digit takes away.
TakenAway(sub, u, q, v, j, n_b) ==
    Value(sub.limbs) = (Value(u) - (q * Below(v)[n_b]) * Weight(j))
                       + (IF sub.borrowed THEN Weight(j + n_b + 1) ELSE 0)

\* What a digit leaves: the limbs above are not touched.
TakenFrom(sub, u, q, v, j, n_b, n) ==
    /\ sub.limbs \in [0 .. n - 1 -> Word] /\ sub.borrowed \in BOOLEAN
    /\ \A i \in j + n_b + 1 .. n - 1 : sub.limbs[i] = u[i]
    /\ TakenAway(sub, u, q, v, j, n_b)

\* q times v is taken from u, with a borrow from the limb above if it is too much.
LEMMA MultiplySubtractIs ==
  ASSUME NEW n \in Nat, NEW u \in [0 .. n - 1 -> Word], NEW m \in Nat, NEW v \in [0 .. m - 1 -> Word],
         NEW q \in Word, NEW j \in Nat, NEW n_b \in 0 .. m, j + n_b < n,
         NEW sub, sub = MultiplySubtract(u, q, v, j, n_b)
  PROVE  TakenFrom(sub, u, q, v, j, n_b, n)
<1> DEFINE cy == DigitBorrows(u, q, v, j, n_b)
           B == Base
<1>1. /\ cy \in [0 .. n_b -> Word] /\ cy[0] = 0
      /\ \A i \in 0 .. n_b - 1 : cy[i + 1] = - ((u[j + i] - q * v[i] - cy[i]) \div B)
  <2> HIDE DEF cy, B
  <2>1. Borrowed(cy, u, q, v, j, n_b)
    <3> j + n_b <= n
      OBVIOUS
    <3> QED BY DigitBorrowsAre DEF cy
  <2> QED BY <2>1 DEF Borrowed, B
<1> DEFINE top == j + n_b
           l == [k \in DOMAIN u |-> IF k \in j .. j + n_b - 1 THEN (u[k] - q * v[k - j] - cy[k - j]) % B
                                    ELSE IF k = j + n_b THEN (u[k] - cy[n_b]) % B ELSE u[k]]
           beta == IF u[top] < cy[n_b] THEN 1 ELSE 0
<1>2. sub.limbs = l /\ sub.borrowed = (u[top] < cy[n_b])
  BY DEF MultiplySubtract
<1>3. B \in Nat /\ B >= 4 /\ Word = 0 .. B - 1
  BY BaseIs DEF Word
<1> HIDE DEF cy, B
<1>4. ASSUME NEW i \in 0 .. n_b - 1 PROVE /\ l[j + i] = (u[j + i] - q * v[i] - cy[i]) % B
                                          /\ u[j + i] - q * v[i] - cy[i] \in Int
                                          /\ u[j + i] - q * v[i] - cy[i] = l[j + i] - B * cy[i + 1]
  <2>1. j + i \in 0 .. n - 1 /\ j + i \in j .. j + n_b - 1 /\ (j + i) - j = i /\ i \in 0 .. m - 1 /\ i \in 0 .. n_b
    OBVIOUS
  <2>2. l[j + i] = (u[j + i] - q * v[i] - cy[i]) % B
    BY <2>1
  <2>3. u[j + i] \in Nat /\ v[i] \in Nat /\ cy[i] \in Nat /\ q \in Nat
    <3>1. u[j + i] \in Word /\ v[i] \in Word /\ cy[i] \in Word
      BY <1>1, <2>1
    <3> QED BY <1>3, <3>1
  <2> DEFINE z == u[j + i] - q * v[i] - cy[i]
             d == z \div B
             e == cy[i + 1]
  <2>4. z \in Int
    BY <2>3
  <2>5. e = - d
    BY <1>1
  <2> HIDE DEF z, e
  <2>6. z = B * d + (z % B) /\ d \in Int /\ z % B \in Int
    BY <1>3, <2>4
  <2> HIDE DEF d
  <2>7. z = (z % B) - B * e
    <3>1. B * e = - (B * d) /\ B * d \in Int
      BY <1>3, <2>5, <2>6
    <3> QED BY <2>4, <2>6, <3>1
  <2>8. l[j + i] = z % B
    BY <2>2 DEF z
  <2> QED BY <2>4, <2>7, <2>8 DEF z, e
<1>t. top \in 0 .. n - 1 /\ top \in Nat /\ n_b \in 0 .. n_b /\ top + 1 \in 0 .. n /\ top \in 0 .. n
  OBVIOUS
<1>5. l[top] \in Word /\ u[top] - cy[n_b] = l[top] - beta * B /\ cy[n_b] \in Int /\ u[top] \in Int
  <2> DEFINE x == u[top]
             c == cy[n_b]
             d == x - c
  <2>1. l[top] = d % B
    BY <1>t
  <2>2. x \in 0 .. B - 1 /\ c \in 0 .. B - 1 /\ d = x - c /\ beta = (IF x < c THEN 1 ELSE 0)
    BY <1>1, <1>3, <1>t
  <2>e. u[top] = x /\ cy[n_b] = c /\ u[top] - cy[n_b] = d
    OBVIOUS
  <2> HIDE DEF x, c, d, l, beta
  <2>3. d \in Int /\ (x < c => d + B \in 0 .. B - 1) /\ (~(x < c) => d \in 0 .. B - 1)
    BY <1>3, <2>2
  <2>4. CASE x < c
    <3>1. d = (-1) * B + (d + B)
      BY <1>3, <2>3
    <3>2. B > 0 /\ -1 \in Int /\ d + B \in Int /\ 0 <= d + B /\ d + B < B
      BY <1>3, <2>3, <2>4
    <3>3. d % B = d + B
      BY <1>3, <2>3, <3>1, <3>2, EuclidUnique
    <3>4. beta * B = B
      BY <1>3, <2>2, <2>4
    <3>5. l[top] = d + B /\ d + B \in Word /\ x \in Int /\ c \in Int
      BY <1>3, <2>1, <2>2, <2>3, <2>4, <3>3
    <3>6. d = l[top] - beta * B
      BY <1>3, <2>3, <3>4, <3>5
    <3> QED BY <2>e, <3>5, <3>6
  <2>5. CASE ~(x < c)
    <3>1. d % B = d
      BY <1>3, <2>3, <2>5
    <3>2. beta * B = 0
      BY <1>3, <2>2, <2>5
    <3>3. l[top] = d /\ d \in Word /\ x \in Int /\ c \in Int
      BY <1>3, <2>1, <2>2, <2>3, <2>5, <3>1
    <3>4. d = l[top] - beta * B
      BY <1>3, <2>3, <3>2, <3>3
    <3> QED BY <2>e, <3>3, <3>4
  <2> QED BY <2>4, <2>5
<1>6. l \in [0 .. n - 1 -> Word]
  <2>1. ASSUME NEW k \in 0 .. n - 1 PROVE l[k] \in Word
    <3>1. CASE k \in j .. j + n_b - 1
      <4>1. k - j \in 0 .. n_b - 1 /\ j + (k - j) = k
        BY <3>1
      <4> DEFINE z == u[j + (k - j)] - q * v[k - j] - cy[k - j]
      <4>2. l[k] = z % B /\ z \in Int
        BY <1>4, <4>1
      <4> HIDE DEF z
      <4>3. z % B \in 0 .. B - 1
        BY <1>3, <4>2
      <4> HIDE DEF l
      <4> QED BY <1>3, <4>2, <4>3
    <3>2. CASE k = top
      <4> HIDE DEF l
      <4> QED BY <1>5, <3>2
    <3>3. CASE k \notin j .. j + n_b - 1 /\ k # top
      BY <3>3
    <3> QED BY <3>1, <3>2, <3>3
  <2>2. l = [k \in 0 .. n - 1 |-> l[k]]
    OBVIOUS
  <2> HIDE DEF l
  <2> QED BY <2>1, <2>2
<1>7. /\ l \in [0 .. n - 1 -> Int] /\ Below(l) \in [0 .. n -> Nat] /\ Value(l) = Below(l)[n]
      /\ \A i \in 0 .. n - 1 : Below(l)[i + 1] = Below(l)[i] + l[i] * Weight(i)
  <2> HIDE DEF l
  <2> QED BY <1>6, BelowWords
<1>8. /\ u \in [0 .. n - 1 -> Int] /\ Below(u) \in [0 .. n -> Nat] /\ Value(u) = Below(u)[n]
      /\ \A i \in 0 .. n - 1 : Below(u)[i + 1] = Below(u)[i] + u[i] * Weight(i)
  BY BelowWords
<1>9. /\ Below(v) \in [0 .. m -> Nat] /\ Below(v)[0] = 0
      /\ \A i \in 0 .. m - 1 : Below(v)[i + 1] = Below(v)[i] + v[i] * Weight(i)
  BY BelowWords
<1>10. Below(l)[j] = Below(u)[j]
  <2>1. Agree(l, u, 0, j)
    BY DEF Agree
  <2>2. j <= n
    OBVIOUS
  <2> HIDE DEF l
  <2>3. AgreeBelow(l, n, u, n, j) /\ j \in Nat
    BY <1>7, <1>8, <2>1, <2>2 DEF AgreeBelow
  <2> QED BY <2>3, BelowAgree
<1>u. \A i \in top + 1 .. n - 1 : l[i] = u[i]
  OBVIOUS
<1>11. Gap(l, top + 1, n) = Gap(u, top + 1, n)
  <2>1. Agree(l, u, top + 1, n)
    <3> HIDE DEF l
    <3> QED BY <1>u DEF Agree
  <2>2. top + 1 \in 0 .. n /\ n \in top + 1 .. n
    OBVIOUS
  <2> HIDE DEF l, top
  <2> QED BY <1>7, <1>8, <2>1, <2>2, BelowGap
<1> HIDE DEF l
<1> DEFINE Holds(i) == Below(l)[j + i] - cy[i] * Weight(j + i) = Below(u)[j + i] - (q * Below(v)[i]) * Weight(j)
           T == {i \in Nat : i <= n_b => Holds(i)}
<1>12. 0 \in T
  <2>1. j + 0 = j /\ Weight(j) \in Nat /\ Below(u)[j] \in Nat /\ q \in Nat
    <3>1. j \in 0 .. n
      OBVIOUS
    <3> QED BY <1>3, <1>8, <3>1, WeightIs
  <2>2. cy[0] * Weight(j + 0) = 0 /\ (q * Below(v)[0]) * Weight(j) = 0
    BY <1>1, <1>9, <2>1
  <2>3. Holds(0)
    BY <1>10, <2>1, <2>2
  <2> HIDE DEF Holds
  <2> QED BY <2>3
<1>13. ASSUME NEW i \in T PROVE i + 1 \in T
  <2>1. SUFFICES ASSUME i + 1 <= n_b PROVE Holds(i + 1)
    OBVIOUS
  <2>2. i \in 0 .. n_b - 1 /\ j + i \in 0 .. n - 1 /\ i \in 0 .. m - 1 /\ i \in Nat /\ j + (i + 1) = (j + i) + 1 /\ j + i \in Nat
        /\ i + 1 \in 0 .. n_b /\ i \in 0 .. n_b
    BY <2>1
  <2> DEFINE p == Below(l)[j + i]
             r == Below(u)[j + i]
             c == cy[i]
             d == cy[i + 1]
             y == v[i]
             s == u[j + i]
             t == l[j + i]
             w == Weight(j + i)
             g == Weight(i)
             h == Weight(j)
             e == Below(v)[i]
  <2>3. p - c * w = r - (q * e) * h
    BY <2>2
  <2>4. s - q * y - c = t - B * d
    BY <1>4, <2>2
  <2>5. Below(l)[(j + i) + 1] = p + t * w /\ Below(u)[(j + i) + 1] = r + s * w /\ Below(v)[i + 1] = e + y * g
    BY <1>7, <1>8, <1>9, <2>2
  <2>6. Weight((j + i) + 1) = B * w
    BY <2>2, WeightNext DEF B
  <2>w. w = h * g
    BY <2>2, WeightAdd
  <2>7. p \in Int /\ r \in Int /\ e \in Int
    BY <1>7, <1>8, <1>9, <2>2
  <2>8. c \in Int /\ d \in Int /\ y \in Int /\ s \in Int /\ t \in Int /\ q \in Int
    <3>1. c \in Word /\ d \in Word /\ y \in Word /\ s \in Word /\ t \in Word
      BY <1>1, <1>6, <2>2
    <3>2. \A z \in Word : z \in Int
      BY <1>3
    <3> HIDE DEF c, d, y, s, t
    <3> QED BY <3>1, <3>2
  <2>9. w \in Int /\ g \in Int /\ h \in Int
    BY <2>2, WeightIs
  <2> HIDE DEF p, r, c, d, y, s, t, w, g, h, e
  <2>10. (p + t * w) - d * (B * w) = (r + s * w) - (q * (e + y * g)) * h
    <3> DEFINE tw == t * w
               dbw == d * (B * w)
               sw == s * w
               qeh == (q * e) * h
               qyw == (q * y) * w
               cw == c * w
    <3>1. (s - q * y - c) * w = sw - qyw - cw
      <4> DEFINE qy == q * y
      <4>1. qy \in Int
        BY <2>8
      <4> HIDE DEF qy
      <4>2. (s - qy - c) * w = s * w - qy * w - c * w
        BY <2>8, <2>9, <4>1
      <4> QED BY <4>2 DEF qy
    <3>2. (t - B * d) * w = tw - dbw
      BY <1>3, <2>8, <2>9
    <3>3. (q * (e + y * g)) * h = qeh + qyw
      <4>1. q * (e + y * g) = q * e + (q * y) * g
        BY <2>7, <2>8, <2>9
      <4> DEFINE qe == q * e
                 qy == q * y
      <4>2. qe \in Int /\ qy \in Int
        BY <2>7, <2>8
      <4> HIDE DEF qe, qy
      <4>3. (qe + qy * g) * h = qe * h + qy * (h * g)
        BY <2>9, <4>2
      <4> QED BY <2>w, <4>1, <4>3 DEF qe, qy
    <3>4. tw \in Int /\ dbw \in Int /\ sw \in Int /\ qeh \in Int /\ qyw \in Int /\ cw \in Int
      BY <1>3, <2>7, <2>8, <2>9
    <3>5. sw - qyw - cw = tw - dbw /\ p - cw = r - qeh
      BY <2>3, <2>4, <3>1, <3>2
    <3> HIDE DEF tw, dbw, sw, qeh, qyw, cw
    <3>6. (p + tw) - dbw = (r + sw) - (qeh + qyw)
      BY <2>7, <3>4, <3>5
    <3> QED BY <3>3, <3>6 DEF tw, dbw, sw
  <2> QED BY <2>2, <2>5, <2>6, <2>10 DEF d, h
<1>14. T = Nat
  <2> T \subseteq Nat
    OBVIOUS
  <2> HIDE DEF T
  <2> QED BY <1>12, <1>13, SetInduction
<1>15. Holds(n_b)
  <2>1. n_b \in Nat
    OBVIOUS
  <2>2. n_b \in T
    <3> HIDE DEF T
    <3> QED BY <1>14, <2>1
  <2> QED BY <2>1, <2>2
<1>16. TakenAway(sub, u, q, v, j, n_b)
  <2> DEFINE p == Below(l)[top]
             r == Below(u)[top]
             pp == Below(l)[top + 1]
             rr == Below(u)[top + 1]
             L == Value(l)
             R == Value(u)
             w == Weight(top)
             c == cy[n_b]
             x == u[top]
             z == l[top]
             d == (q * Below(v)[n_b]) * Weight(j)
             W == Weight(top + 1)
  <2>1. p - c * w = r - d /\ L - pp = R - rr /\ pp = p + z * w /\ rr = r + x * w /\ W = B * w /\ x - c = z - beta * B
    <3>1. L - pp = R - rr
      BY <1>7, <1>8, <1>11 DEF Gap
    <3>2. pp = p + z * w /\ rr = r + x * w
      BY <1>7, <1>8, <1>t
    <3>3. W = B * w
      BY <1>t, WeightNext DEF B
    <3>4. p - c * w = r - d
      BY <1>15
    <3> QED BY <1>5, <3>1, <3>2, <3>3, <3>4
  <2>2. p \in Int /\ r \in Int /\ L \in Int /\ R \in Int /\ z \in Int /\ x \in Int /\ c \in Int /\ pp \in Int /\ rr \in Int /\ W \in Int
    <3>0. n \in 0 .. n
      OBVIOUS
    <3>1. p \in Int /\ L \in Int /\ pp \in Int
      BY <1>7, <1>t, <3>0
    <3>4. r \in Int /\ R \in Int /\ rr \in Int
      BY <1>8, <1>t, <3>0
    <3>2. z \in Int
      BY <1>5, <1>3
    <3>3. W \in Int
      BY <1>t, WeightIs
    <3> QED BY <1>5, <3>1, <3>2, <3>3, <3>4
  <2>3. w \in Int /\ d \in Int
    <3>1. Weight(j) \in Int /\ w \in Int /\ q \in Int /\ Below(v)[n_b] \in Int
      BY <1>3, <1>9, <1>t, WeightIs
    <3> QED BY <3>1
  <2>4. beta \in Int /\ (IF sub.borrowed THEN Weight(j + n_b + 1) ELSE 0) = beta * W
    <3>1. W = Weight(j + n_b + 1)
      OBVIOUS
    <3> HIDE DEF W
    <3>2. 0 * W = 0 /\ 1 * W = W
      BY <2>2
    <3>3. beta \in {0, 1}
      OBVIOUS
    <3>4. sub.borrowed <=> u[top] < cy[n_b]
      BY <1>2, Zenon
    <3>5. sub.borrowed <=> beta = 1
      BY <3>4
    <3> HIDE DEF beta
    <3> QED BY <3>1, <3>2, <3>3, <3>5
  <2> HIDE DEF p, r, pp, rr, L, R, w, c, x, z, d, W, beta
  <2> DEFINE cw == c * w
             xw == x * w
             zw == z * w
             bW == beta * W
  <2>5. xw - cw = zw - bW
    <3>1. (x - c) * w = xw - cw
      BY <2>2, <2>3
    <3>2. (z - beta * B) * w = zw - bW
      BY <1>3, <2>1, <2>2, <2>3, <2>4
    <3> QED BY <2>1, <3>1, <3>2
  <2>6. cw \in Int /\ xw \in Int /\ zw \in Int /\ bW \in Int
    BY <2>2, <2>3, <2>4
  <2>7. p - cw = r - d /\ L - pp = R - rr /\ pp = p + zw /\ rr = r + xw
    BY <2>1
  <2> HIDE DEF cw, xw, zw, bW
  <2>8. L = (R - d) + bW
    BY <2>2, <2>3, <2>5, <2>6, <2>7
  <2> QED BY <1>2, <2>4, <2>8 DEF TakenAway, L, R, d, bW
<1> QED BY <1>2, <1>6, <1>16, <1>u DEF TakenFrom

\* The divisor, put back.
PutBack(z, l, v, j, n_b) ==
    \E g \in Int : Value(z) = (Value(l) + Below(v)[n_b] * Weight(j)) - g * Weight(j + n_b + 1)

Restored(z, l, v, j, n_b, n) ==
    /\ z \in [0 .. n - 1 -> Word] /\ PutBack(z, l, v, j, n_b)
    /\ \A i \in j + n_b + 1 .. n - 1 : z[i] = l[i]

\* v is added back, and the carry is lost above.
LEMMA AddBackIs ==
  ASSUME NEW n \in Nat, NEW l \in [0 .. n - 1 -> Word], NEW m \in Nat, NEW v \in [0 .. m - 1 -> Word],
         NEW j \in Nat, NEW n_b \in 0 .. m, j + n_b < n, NEW z, z = AddBack(l, v, j, n_b)
  PROVE  Restored(z, l, v, j, n_b, n)
<1> DEFINE row == Row(l, 1, v, j, n_b)
           a == row.limbs
           c == row.carry
           top == j + n_b
           B == Base
<1>1. 1 \in Word /\ B \in Nat /\ B >= 4 /\ Word = 0 .. B - 1
  BY BaseIs DEF Word
<1>t. top \in 0 .. n - 1 /\ top \in Nat /\ j + n_b <= n
  OBVIOUS
<1>2. a \in [0 .. n - 1 -> Word] /\ c \in Word /\ RowKept(row, l, 1, v, j, n_b)
  <2> HIDE DEF row
  <2> QED BY <1>1, <1>t, RowIs DEF row
<1>3. \A i \in j + n_b + 1 .. n - 1 : a[i] = l[i]
  <2> a = [k \in DOMAIN l |->
                       IF k \in j .. j + n_b - 1
                       THEN (l[k] + 1 * v[k - j] + RowCarries(l, 1, v, j, n_b)[k - j]) % Base ELSE l[k]]
    BY TableIs DEF Row
  <2> HIDE DEF a
  <2> QED OBVIOUS
<1>4. z = [a EXCEPT ![top] = (a[top] + c) % B]
  BY DEF AddBack, CarriedUp
<1>5. Value(a) + c * Weight(j + n_b) = Value(l) + (1 * Below(v)[n_b]) * Weight(j)
  BY <1>2 DEF RowKept
<1> HIDE DEF row, a, c, B
<1> DEFINE x == a[top]
           s == x + c
           y == s % B
           g == s \div B
<1>6. x \in Nat /\ c \in Nat
  <2>1. x \in Word
    BY <1>2, <1>t
  <2> HIDE DEF x
  <2> QED BY <1>1, <1>2, <2>1
<1>7. y \in Word /\ y \in Int /\ g \in Int /\ x + c = g * B + y
  <2>1. s \in Nat /\ s = x + c
    BY <1>6
  <2> HIDE DEF s, x
  <2>2. s = B * g + y /\ g \in Nat /\ y \in 0 .. B - 1
    <3>1. B \in Nat /\ B > 0
      BY <1>1
    <3> QED BY <2>1, <3>1, DivRem
  <2> HIDE DEF g, y
  <2>3. B * g = g * B
    BY <1>1, <2>2
  <2>4. y \in Word /\ y \in Int /\ g \in Int
    BY <1>1, <2>2
  <2>5. x + c = g * B + y
    BY <2>1, <2>2, <2>3
  <2> QED BY <2>4, <2>5
<1>8. z = [a EXCEPT ![top] = y]
  BY <1>4
<1> HIDE DEF g, y
<1>9. z \in [0 .. n - 1 -> Word] /\ z[top] = y /\ \A i \in 0 .. n - 1 : i # top => z[i] = a[i]
  BY <1>2, <1>7, <1>8, <1>t
<1>10. Value(z) = Value(a) + (z[top] - a[top]) * Weight(top)
  <2>1. a \in [0 .. n - 1 -> Int] /\ z \in [0 .. n - 1 -> Int]
    <3>1. a \in [0 .. n - 1 -> Int]
      BY <1>2, WordsAre
    <3>2. z \in [0 .. n - 1 -> Int]
      BY <1>9, WordsAre
    <3> QED BY <3>1, <3>2
  <2> HIDE DEF top
  <2> QED BY <1>t, <1>9, <2>1, ValueChanged
<1> DEFINE V == Below(v)[n_b]
           w == Weight(top)
           A == Value(a)
           Z == Value(z)
           L == Value(l)
           h == Weight(j)
<1>11. A + c * w = L + (1 * V) * h /\ Z = A + (y - x) * w
  BY <1>5, <1>9, <1>10
<1>12. w \in Int /\ h \in Int /\ V \in Int /\ A \in Int /\ Z \in Int /\ L \in Int
  <2>1. w \in Int /\ h \in Int
    BY <1>t, WeightIs
  <2>2. V \in Nat
    <3> \A k \in 0 .. m : Below(v)[k] \in Nat
      BY BelowWords
    <3> QED OBVIOUS
  <2>3. A \in Nat
    BY <1>2, ValueNat
  <2>4. Z \in Nat
    BY <1>9, ValueNat
  <2>5. L \in Nat
    BY ValueNat
  <2> QED BY <2>1, <2>2, <2>3, <2>4, <2>5
<1>13. Weight(j + n_b + 1) = B * w
  <2>1. Weight(top + 1) = Base * Weight(top)
    <3> HIDE DEF top
    <3> QED BY <1>t, WeightNext
  <2> QED BY <2>1 DEF B
<1> HIDE DEF V, w, A, Z, L, h, x
<1>14. Z = (L + V * h) - g * (B * w)
  <2> DEFINE cw == c * w
             xw == x * w
             yw == y * w
             gw == g * (B * w)
             vh == V * h
  <2>1. cw \in Int /\ xw \in Int /\ yw \in Int /\ gw \in Int /\ vh \in Int
    BY <1>1, <1>6, <1>7, <1>12
  <2>2. (x + c) * w = xw + cw
    BY <1>6, <1>12
  <2>3. (g * B + y) * w = gw + yw
    BY <1>1, <1>7, <1>12
  <2>4. A + cw = L + vh /\ (y - x) * w = yw - xw
    BY <1>6, <1>7, <1>11, <1>12
  <2>5. xw + cw = gw + yw
    BY <1>7, <2>2, <2>3
  <2> HIDE DEF cw, xw, yw, gw, vh
  <2>6. Z = (L + vh) - gw
    BY <1>11, <1>12, <2>1, <2>4, <2>5
  <2> QED BY <2>6 DEF vh, gw
<1>15. PutBack(z, l, v, j, n_b)
  BY <1>7, <1>13, <1>14 DEF PutBack, Z, L, V, h
<1>16. \A i \in j + n_b + 1 .. n - 1 : z[i] = l[i]
  <2> TAKE i \in j + n_b + 1 .. n - 1
  <2> i \in 0 .. n - 1 /\ i # top
    OBVIOUS
  <2> QED BY <1>3, <1>9
<1> QED BY <1>9, <1>15, <1>16 DEF Restored

\* The two highest limbs, and the rest.
LEMMA TopTwo ==
  ASSUME NEW n \in Nat, NEW a \in [0 .. n - 1 -> Word], NEW f \in Nat, f + 2 <= n
  PROVE  /\ Below(a)[f + 2] = (a[f + 1] * Base + a[f]) * Weight(f) + Below(a)[f]
         /\ Below(a)[f] \in Nat /\ Below(a)[f] < Weight(f)
<1> DEFINE B == Base
           w == Weight(f)
           x == a[f]
           y == a[f + 1]
           p == Below(a)[f]
<1>1. /\ \A i \in 0 .. n - 1 : Below(a)[i + 1] = Below(a)[i] + a[i] * Weight(i)
      /\ \A k \in 0 .. n : Below(a)[k] \in Nat /\ Below(a)[k] < Weight(k)
  BY BelowWords
<1>2. f \in 0 .. n - 1 /\ f + 1 \in 0 .. n - 1 /\ (f + 1) + 1 = f + 2 /\ f \in 0 .. n
  OBVIOUS
<1>3. Below(a)[f + 1] = p + x * w /\ Below(a)[(f + 1) + 1] = Below(a)[f + 1] + y * Weight(f + 1)
  BY <1>1, <1>2
<1>4. Weight(f + 1) = B * w /\ w \in Nat
  BY WeightNext
<1>5. p \in Nat /\ p < w
  BY <1>1, <1>2
<1>6. x \in Int /\ y \in Int /\ B \in Int
  <2>1. x \in Word /\ y \in Word
    BY <1>2
  <2> HIDE DEF x, y
  <2> QED BY <2>1, WordIs, BaseIs
<1> HIDE DEF p, x, y, w, B
<1>7. (p + x * w) + y * (B * w) = (y * B + x) * w + p
  <2> DEFINE xw == x * w
             yw == y * (B * w)
  <2>1. (y * B + x) * w = yw + xw /\ xw \in Int /\ yw \in Int
    BY <1>4, <1>6
  <2> HIDE DEF xw, yw
  <2>2. (p + xw) + yw = (yw + xw) + p
    BY <1>5, <2>1
  <2> QED BY <2>1, <2>2 DEF xw, yw
<1> QED BY <1>2, <1>3, <1>4, <1>5, <1>7 DEF p, x, y, w, B

\* Three limbs of u decide between two digits.
LEMMA TopThree ==
  ASSUME NEW n \in Nat, NEW a \in [0 .. n - 1 -> Word], NEW f \in Nat, f + 3 <= n
  PROVE  /\ Below(a)[f + 3] = ((a[f + 2] * Base + a[f + 1]) * Base + a[f]) * Weight(f) + Below(a)[f]
         /\ Below(a)[f] \in Nat /\ Below(a)[f] < Weight(f)
<1> DEFINE B == Base
           w == Weight(f)
           x == a[f]
           t == a[f + 2] * B + a[f + 1]
           p == Below(a)[f]
<1>1. Below(a)[f + 3] = t * Weight(f + 1) + Below(a)[f + 1]
  <2> DEFINE g == f + 1
  <2>1. g \in Nat /\ g + 2 <= n /\ g + 2 = f + 3 /\ g + 1 = f + 2
    OBVIOUS
  <2> HIDE DEF g
  <2>2. Below(a)[g + 2] = (a[g + 1] * Base + a[g]) * Weight(g) + Below(a)[g]
    BY <2>1, TopTwo
  <2> QED BY <2>1, <2>2 DEF g
<1>2. Below(a)[f + 1] = p + x * w /\ p \in Nat /\ p < w
  <2>1. /\ \A i \in 0 .. n - 1 : Below(a)[i + 1] = Below(a)[i] + a[i] * Weight(i)
        /\ \A k \in 0 .. n : Below(a)[k] \in Nat /\ Below(a)[k] < Weight(k)
    BY BelowWords
  <2>2. f \in 0 .. n - 1 /\ f \in 0 .. n
    OBVIOUS
  <2> QED BY <2>1, <2>2
<1>3. Weight(f + 1) = B * w /\ w \in Nat
  BY WeightNext
<1>4. x \in Int /\ t \in Int /\ B \in Int
  <2> DEFINE y == a[f + 1]
             z == a[f + 2]
  <2>1. x \in Word /\ y \in Word /\ z \in Word
    OBVIOUS
  <2> HIDE DEF x, y, z
  <2>2. x \in Int /\ y \in Int /\ z \in Int /\ B \in Int
    BY <2>1, WordIs, BaseIs
  <2>3. z * B + y \in Int
    BY <2>2
  <2> QED BY <2>2, <2>3 DEF y, z
<1>5. Below(a)[f + 3] = t * (B * w) + (p + x * w)
  BY <1>1, <1>2, <1>3
<1>e. ((a[f + 2] * Base + a[f + 1]) * Base + a[f]) * Weight(f) + Below(a)[f] = (t * B + x) * w + p
  OBVIOUS
<1> HIDE DEF p, x, t, w, B
<1>6. t * (B * w) + (p + x * w) = (t * B + x) * w + p
  <2> DEFINE xw == x * w
             tw == t * (B * w)
  <2>1. (t * B + x) * w = tw + xw /\ xw \in Int /\ tw \in Int
    BY <1>3, <1>4
  <2> HIDE DEF xw, tw
  <2>2. tw + (p + xw) = (tw + xw) + p
    BY <1>2, <2>1
  <2> QED BY <2>1, <2>2 DEF xw, tw
<1> QED BY <1>2, <1>5, <1>6, <1>e DEF p, w

\* A divisor whose highest limb in use is n_b - 1, at limb j.
Divisor(v, n_b, n) == v \in [0 .. n - 1 -> Word] /\ n_b \in 2 .. n /\ v[n_b - 1] > 0

DigitFits(qh, u, V, j, n_b, c) ==
    /\ Tried(qh, Value(u), V * Weight(j))
    /\ V \in Nat /\ V > 0 /\ Value(u) \in Nat /\ Value(u) < Weight(j + n_b + 1)
    /\ \A i \in j + n_b + 1 .. c - 1 : u[i] = 0

\* While the dividend is less than the divisor at limb j + 1, the digit at j is tried right.
LEMMA DigitTried ==
  ASSUME NEW n \in Nat, NEW c \in Nat, c = n + 1, NEW v, NEW n_b \in Nat, Divisor(v, n_b, n), NEW u \in [0 .. c - 1 -> Word],
         NEW j \in Nat, j + n_b <= n, NEW V, V = Below(v)[n_b], Value(u) < V * Weight(j + 1),
         NEW qh, qh = QHat(u[j + n_b], u[j + n_b - 1], u[j + n_b - 2], v[n_b - 1], v[n_b - 2])
  PROVE  DigitFits(qh, u, V, j, n_b, c)
<1>v. v \in [0 .. n - 1 -> Word] /\ n_b \in 2 .. n /\ v[n_b - 1] > 0
  BY DEF Divisor
<1> DEFINE e == n_b - 2
           f == j + e
           B == Base
           h == Weight(j)
           g == Weight(e)
           w == Weight(f)
           U == Value(u)
           D == V * h
           W == Weight(j + n_b + 1)
           l == Below(u)[f]
           k0 == Below(v)[e]
           k == k0 * h
           vv == v[n_b - 1] * B + v[n_b - 2]
           t == (u[j + n_b] * B + u[j + n_b - 1]) * B + u[j + n_b - 2]
<1>1. e \in Nat /\ e + 2 = n_b /\ e + 1 = n_b - 1 /\ f \in Nat /\ f + 3 = j + n_b + 1 /\ f + 2 = j + n_b /\ f + 1 = j + n_b - 1
      /\ f = j + n_b - 2 /\ f + 3 <= c /\ e + 2 <= n /\ e \in 0 .. n /\ n_b \in 0 .. n /\ j + 1 \in Nat /\ f + 3 \in 0 .. c
  BY <1>v
<1>2. V = vv * g + k0 /\ k0 \in Nat /\ k0 < g
  <2> HIDE DEF e
  <2>1. Below(v)[e + 2] = (v[e + 1] * Base + v[e]) * Weight(e) + Below(v)[e] /\ Below(v)[e] \in Nat /\ Below(v)[e] < Weight(e)
    BY <1>1, <1>v, TopTwo
  <2> QED BY <1>1, <2>1 DEF e
<1>3. w = g * h /\ h \in Nat /\ h >= 1 /\ g \in Nat /\ g >= 1 /\ B \in Nat /\ B >= 4 /\ Weight(j + 1) = B * h /\ w \in Nat /\ w >= 1
  <2>1. Weight(e + j) = g * h /\ e + j = f
    <3> HIDE DEF e
    <3>1. Weight(e + j) = Weight(e) * Weight(j)
      BY <1>1, WeightAdd
    <3>2. e + j = j + e
      BY <1>1
    <3> QED BY <3>1, <3>2
  <2>2. h \in Nat /\ h >= 1 /\ g \in Nat /\ g >= 1
    <3> HIDE DEF e
    <3> QED BY <1>1, WeightIs
  <2>3. w \in Nat /\ w >= 1
    <3> HIDE DEF f
    <3> QED BY <1>1, WeightIs
  <2>4. Weight(j + 1) = B * h
    BY WeightNext
  <2> QED BY <2>1, <2>2, <2>3, <2>4, BaseIs
<1>4. V \in Nat /\ V < Weight(n_b)
  <2> \A i \in 0 .. n : Below(v)[i] \in Nat /\ Below(v)[i] < Weight(i)
    BY <1>v, BelowWords
  <2> QED BY <1>1
<1>5. W = Weight(n_b) * Weight(j + 1) /\ Weight(n_b) \in Nat /\ Weight(j + 1) \in Nat /\ Weight(j + 1) >= 1
  <2>1. n_b \in Nat /\ j + 1 \in Nat /\ n_b + (j + 1) = j + n_b + 1
    BY <1>1
  <2>2. Weight(n_b + (j + 1)) = Weight(n_b) * Weight(j + 1)
    BY <2>1, WeightAdd
  <2> QED BY <2>1, <2>2, WeightIs
<1>6. U \in Nat
  BY ValueNat
<1>7. U < W
  <2> DEFINE p == Weight(n_b)
             q == Weight(j + 1)
  <2>1. V <= p /\ p \in Nat /\ q \in Nat /\ U < V * q /\ W = p * q
    BY <1>4, <1>5
  <2> HIDE DEF p, q, U, W
  <2>2. V * q <= p * q /\ V * q \in Nat /\ p * q \in Nat
    BY <1>4, <2>1, TimesMonotone
  <2> QED BY <1>6, <2>1, <2>2
<1>8. (\A i \in f + 3 .. c - 1 : u[i] = 0) /\ U = Below(u)[f + 3]
  <2>1. U < Weight(f + 3)
    BY <1>1, <1>7
  <2> HIDE DEF f, U
  <2>2. \A i \in f + 3 .. c - 1 : u[i] = 0
    <3> DEFINE F == f + 3
    <3>1. F \in 0 .. c /\ Value(u) < Weight(F)
      BY <1>1, <2>1 DEF U
    <3> HIDE DEF F
    <3>2. \A i \in F .. c - 1 : u[i] = 0
      BY <3>1, HighZeros
    <3> QED BY <3>2 DEF F
  <2>3. Value(u) = Below(u)[f + 3]
    <3> DEFINE F == f + 3
    <3>1. F \in 0 .. c /\ \A i \in F .. c - 1 : u[i] = 0
      BY <1>1, <2>2
    <3> HIDE DEF F
    <3>2. Value(u) = Below(u)[F]
      BY <3>1, HighZeros
    <3> QED BY <3>2 DEF F
  <2> QED BY <2>2, <2>3 DEF U
<1>9. U = t * w + l /\ l \in Nat /\ l < w
  <2> HIDE DEF f, U
  <2>1. Below(u)[f + 3] = ((u[f + 2] * Base + u[f + 1]) * Base + u[f]) * Weight(f) + Below(u)[f]
        /\ Below(u)[f] \in Nat /\ Below(u)[f] < Weight(f)
    BY <1>1, TopThree
  <2>2. u[f + 2] = u[j + n_b] /\ u[f + 1] = u[j + n_b - 1] /\ u[f] = u[j + n_b - 2]
    BY <1>1
  <2> QED BY <1>8, <2>1, <2>2
<1>10. D = vv * w + k /\ k \in Nat /\ k < w
  <2>1. vv \in Nat
    <3> DEFINE x == v[n_b - 1]
               y == v[n_b - 2]
    <3>1. x \in Word /\ y \in Word
      BY <1>v
    <3>b. B \in Nat
      BY BaseIs
    <3> HIDE DEF x, y, B
    <3>2. x \in Nat /\ y \in Nat
      BY <3>1, WordIs
    <3>3. x * B + y \in Nat
      BY <3>b, <3>2
    <3> QED BY <3>3 DEF x, y
  <2> HIDE DEF vv, g, h, w, k0, B
  <2>2. (vv * g + k0) * h = vv * (g * h) + k0 * h
    BY <1>2, <1>3, <2>1
  <2>3. k0 * h \in Nat /\ k0 * h < g * h
    <3>1. k0 + 1 <= g /\ k0 + 1 \in Nat
      BY <1>2, <1>3
    <3>2. (k0 + 1) * h <= g * h
      BY <1>3, <3>1, TimesMonotone
    <3> DEFINE kh == k0 * h
               gh == g * h
    <3>3. (k0 + 1) * h = kh + h /\ kh \in Nat /\ gh \in Nat
      BY <1>2, <1>3
    <3> HIDE DEF kh, gh
    <3>4. kh < gh
      BY <1>3, <3>2, <3>3 DEF gh
    <3> QED BY <3>3, <3>4 DEF kh, gh
  <2> QED BY <1>2, <1>3, <2>2, <2>3
<1>11. U < D * B
  <2>1. U < V * (B * h)
    BY <1>3
  <2> HIDE DEF U, B, h
  <2>2. V * (B * h) = (V * h) * B
    BY <1>3, <1>4
  <2> QED BY <2>1, <2>2
<1>12. V > 0
  <2> SUFFICES ASSUME V <= 0 PROVE FALSE
    BY <1>4
  <2>1. V = 0 /\ D * B = 0
    <3>1. V = 0
      BY <1>4
    <3>2. D = 0
      <4> HIDE DEF h
      <4> QED BY <1>3, <3>1
    <3> HIDE DEF D
    <3> QED BY <1>3, <3>1, <3>2
  <2> QED BY <1>6, <1>11, <2>1
<1>13. Tried(qh, U, D)
  <2> DEFINE top == u[j + n_b]
             second == u[j + n_b - 1]
             third == u[j + n_b - 2]
             v_hi == v[n_b - 1]
             v_2nd == v[n_b - 2]
  <2>1. top \in Word /\ second \in Word /\ third \in Word /\ v_hi \in Word /\ v_2nd \in Word /\ v_hi > 0
    BY <1>v
  <2>2. t = (top * Base + second) * Base + third /\ vv = v_hi * Base + v_2nd
    OBVIOUS
  <2>3. qh = QHat(top, second, third, v_hi, v_2nd)
    OBVIOUS
  <2> HIDE DEF top, second, third, v_hi, v_2nd, t, vv, U, D, w, l, k
  <2>4. U < D * Base
    BY <1>11
  <2>5. Leading(U, D, t, vv, w, l, k)
    BY <1>3, <1>9, <1>10, <2>4 DEF Leading
  <2> QED BY <2>1, <2>2, <2>3, <2>5, QHatIs
<1>14. \A i \in j + n_b + 1 .. c - 1 : u[i] = 0
  BY <1>1, <1>8
<1> QED BY <1>4, <1>6, <1>7, <1>12, <1>13, <1>14 DEF DigitFits

\* A state of the division: what is left of the dividend, and the quotient so far.
Dividing(n, c) == [u : [0 .. c - 1 -> Word], q : [0 .. n - 1 -> Int]]

\* The digit as it is tried, or one less.
LEMMA StepCases ==
  ASSUME NEW st, NEW v, NEW j, NEW n_b, NEW u, u = st.u,
         NEW qh, qh = QHat(u[j + n_b], u[j + n_b - 1], u[j + n_b - 2], v[n_b - 1], v[n_b - 2]),
         NEW sub, sub = MultiplySubtract(u, qh, v, j, n_b)
  PROVE  DivisionStep(st, v, j, n_b)
           = IF sub.borrowed THEN [u |-> AddBack(sub.limbs, v, j, n_b), q |-> [st.q EXCEPT ![j] = qh - 1]]
             ELSE [u |-> sub.limbs, q |-> [st.q EXCEPT ![j] = qh]]
BY DEF DivisionStep, ByEstimate, WithDigit

\* Every step leaves arrays.
LEMMA StepTyped ==
  ASSUME NEW n \in Nat, NEW c \in Nat, c = n + 1, NEW v, NEW n_b \in Nat, Divisor(v, n_b, n),
         NEW j \in Nat, j + n_b <= n, NEW st \in Dividing(n, c)
  PROVE  DivisionStep(st, v, j, n_b) \in Dividing(n, c)
<1>v. v \in [0 .. n - 1 -> Word] /\ n_b \in 2 .. n /\ n_b \in 0 .. n /\ v[n_b - 1] > 0
  BY DEF Divisor
<1> DEFINE u == st.u
           q == st.q
           qh == QHat(u[j + n_b], u[j + n_b - 1], u[j + n_b - 2], v[n_b - 1], v[n_b - 2])
           sub == MultiplySubtract(u, qh, v, j, n_b)
           l == sub.limbs
           z == AddBack(l, v, j, n_b)
<1>1. u \in [0 .. c - 1 -> Word] /\ q \in [0 .. n - 1 -> Int]
  BY DEF Dividing
<1>2. DivisionStep(st, v, j, n_b) = IF sub.borrowed THEN [u |-> z, q |-> [q EXCEPT ![j] = qh - 1]]
                                    ELSE [u |-> l, q |-> [q EXCEPT ![j] = qh]]
  BY StepCases
<1> HIDE DEF u, q
<1>3. qh \in Word /\ qh \in Int
  <2> DEFINE top == u[j + n_b]
             second == u[j + n_b - 1]
             third == u[j + n_b - 2]
             v_hi == v[n_b - 1]
             v_2nd == v[n_b - 2]
  <2>1. top \in Word /\ second \in Word /\ third \in Word /\ v_hi \in Word /\ v_2nd \in Word /\ v_hi > 0
    BY <1>1, <1>v
  <2>2. qh = QHat(top, second, third, v_hi, v_2nd)
    OBVIOUS
  <2> HIDE DEF top, second, third, v_hi, v_2nd, qh
  <2>3. qh \in Word
    BY <2>1, <2>2, QHatWhole DEF Quotient
  <2> QED BY <2>3, WordIs
<1> HIDE DEF qh
<1>4. l \in [0 .. c - 1 -> Word]
  <2>1. j + n_b < c
    BY <1>v
  <2> HIDE DEF sub
  <2> QED BY <1>1, <1>3, <1>v, <2>1, MultiplySubtractIs DEF sub, TakenFrom
<1> HIDE DEF l
<1>5. z \in [0 .. c - 1 -> Word]
  <2>1. j + n_b < c
    BY <1>v
  <2> HIDE DEF z
  <2> QED BY <1>4, <1>v, <2>1, AddBackIs DEF z, Restored
<1> HIDE DEF z, sub
<1>6. j \in 0 .. n - 1 /\ qh - 1 \in Int
  BY <1>3, <1>v
<1>7. [q EXCEPT ![j] = qh - 1] \in [0 .. n - 1 -> Int] /\ [q EXCEPT ![j] = qh] \in [0 .. n - 1 -> Int]
  BY <1>1, <1>3, <1>6
<1> QED BY <1>2, <1>4, <1>5, <1>7 DEF Dividing

\* A step takes from the dividend what its digit is worth, and leaves less than one of it.
StepKept(next, st, V, j) ==
    /\ Value(next.u) < V * Weight(j)
    /\ \E d \in Word : next.q = [st.q EXCEPT ![j] = d] /\ Value(next.u) + d * (V * Weight(j)) = Value(st.u)

\* A step of the division, whichever of the two digits it settles on.
LEMMA DivisionStepIs ==
  ASSUME NEW n \in Nat, NEW c \in Nat, c = n + 1, NEW v, NEW n_b \in Nat, Divisor(v, n_b, n),
         NEW j \in Nat, j + n_b <= n, NEW st \in Dividing(n, c),
         NEW V, V = Below(v)[n_b], Value(st.u) < V * Weight(j + 1)
  PROVE  StepKept(DivisionStep(st, v, j, n_b), st, V, j)
<1>v. v \in [0 .. n - 1 -> Word] /\ n_b \in 2 .. n /\ n_b \in 0 .. n /\ v[n_b - 1] > 0 /\ j + n_b < c
  BY DEF Divisor
<1> DEFINE u == st.u
           q == st.q
           qh == QHat(u[j + n_b], u[j + n_b - 1], u[j + n_b - 2], v[n_b - 1], v[n_b - 2])
           sub == MultiplySubtract(u, qh, v, j, n_b)
           l == sub.limbs
           z == AddBack(l, v, j, n_b)
           U == Value(u)
           W == Weight(j + n_b + 1)
           h == Weight(j)
           D == V * h
<1>1. u \in [0 .. c - 1 -> Word] /\ q \in [0 .. n - 1 -> Int]
  BY DEF Dividing
<1>2. DivisionStep(st, v, j, n_b) = IF sub.borrowed THEN [u |-> z, q |-> [q EXCEPT ![j] = qh - 1]]
                                    ELSE [u |-> l, q |-> [q EXCEPT ![j] = qh]]
  BY StepCases
<1>3. /\ Tried(qh, U, D) /\ V \in Nat /\ V > 0 /\ U \in Nat /\ U < W
      /\ \A i \in j + n_b + 1 .. c - 1 : u[i] = 0
  <2>1. Value(u) < V * Weight(j + 1)
    OBVIOUS
  <2>2. qh = QHat(u[j + n_b], u[j + n_b - 1], u[j + n_b - 2], v[n_b - 1], v[n_b - 2])
    OBVIOUS
  <2> HIDE DEF u, qh
  <2>3. DigitFits(qh, u, V, j, n_b, c)
    BY <1>1, <2>1, <2>2, DigitTried
  <2> QED BY <2>3 DEF DigitFits
<1> HIDE DEF u, q, qh
<1>4. qh \in Word /\ qh \in Nat /\ U < (qh + 1) * D /\ (qh >= 1 => (qh - 1) * D <= U)
  BY <1>3, WordIs DEF Tried
<1>5. h \in Nat /\ h >= 1 /\ W \in Nat /\ D \in Nat
  <2>1. h \in Nat /\ h >= 1
    BY WeightIs
  <2>2. W \in Nat
    <3> j + n_b + 1 \in Nat
      OBVIOUS
    <3> QED BY WeightIs
  <2> QED BY <1>3, <2>1, <2>2
<1>6. /\ l \in [0 .. c - 1 -> Word] /\ sub.borrowed \in BOOLEAN
      /\ \A i \in j + n_b + 1 .. c - 1 : l[i] = 0
      /\ TakenAway(sub, u, qh, v, j, n_b)
  <2> HIDE DEF sub
  <2>0. sub = MultiplySubtract(u, qh, v, j, n_b)
    BY DEF sub
  <2>1. TakenFrom(sub, u, qh, v, j, n_b, c)
    BY <1>1, <1>4, <1>v, <2>0, MultiplySubtractIs
  <2>2. \A i \in j + n_b + 1 .. c - 1 : l[i] = u[i]
    BY <2>1 DEF TakenFrom
  <2>3. \A i \in j + n_b + 1 .. c - 1 : l[i] = 0
    BY <1>3, <2>2
  <2> QED BY <2>1, <2>3 DEF TakenFrom
<1>7. Value(l) = (U - (qh * V) * h) + (IF sub.borrowed THEN W ELSE 0)
  <2> HIDE DEF sub
  <2> QED BY <1>6 DEF TakenAway
<1> DEFINE L == Value(l)
           Z == Value(z)
           b == IF sub.borrowed THEN 1 ELSE 0
<1> HIDE DEF l
<1>t. j + n_b + 1 \in 0 .. c
  BY <1>v
<1>8. L \in Nat /\ L < W
  <2> DEFINE F == j + n_b + 1
  <2>1. F \in 0 .. c /\ \A i \in F .. c - 1 : l[i] = 0
    BY <1>6, <1>t
  <2> HIDE DEF F
  <2>2. Value(l) = Below(l)[F]
    BY <1>6, <2>1, HighZeros
  <2>3. \A k \in 0 .. c : Below(l)[k] \in Nat /\ Below(l)[k] < Weight(k)
    BY <1>6, BelowWords
  <2> QED BY <2>1, <2>2, <2>3 DEF F
<1>9. /\ z \in [0 .. c - 1 -> Word] /\ PutBack(z, l, v, j, n_b)
      /\ \A i \in j + n_b + 1 .. c - 1 : z[i] = 0
  <2> HIDE DEF z
  <2>0. z = AddBack(l, v, j, n_b)
    BY DEF z
  <2>1. Restored(z, l, v, j, n_b, c)
    BY <1>6, <1>v, <2>0, AddBackIs
  <2>2. \A i \in j + n_b + 1 .. c - 1 : z[i] = l[i]
    BY <2>1 DEF Restored
  <2>3. \A i \in j + n_b + 1 .. c - 1 : z[i] = 0
    BY <1>6, <2>2
  <2> QED BY <2>1, <2>3 DEF Restored
<1> HIDE DEF z
<1>10. Z \in Nat /\ Z < W
  <2> DEFINE F == j + n_b + 1
  <2>1. F \in 0 .. c /\ \A i \in F .. c - 1 : z[i] = 0
    BY <1>9, <1>t
  <2> HIDE DEF F
  <2>2. Value(z) = Below(z)[F]
    BY <1>9, <2>1, HighZeros
  <2>3. \A k \in 0 .. c : Below(z)[k] \in Nat /\ Below(z)[k] < Weight(k)
    BY <1>9, BelowWords
  <2> QED BY <2>1, <2>2, <2>3 DEF F
<1>11. PICK g \in Int : Z = (L + D) - g * W
  BY <1>9 DEF PutBack
<1> HIDE DEF L, Z, sub
<1>12. (qh * V) * h = qh * D /\ (qh + 1) * D = qh * D + D /\ (qh - 1) * D = qh * D - D /\ qh * D \in Nat
  <2>1. (qh * V) * h = qh * (V * h)
    <3> HIDE DEF h
    <3> QED BY <1>3, <1>4, <1>5
  <2> HIDE DEF D
  <2>2. (qh + 1) * D = qh * D + D /\ (qh - 1) * D = qh * D - D /\ qh * D \in Nat
    BY <1>4, <1>5
  <2> QED BY <2>1, <2>2 DEF D
<1>13. L = (U - qh * D) + (IF sub.borrowed THEN W ELSE 0)
  BY <1>7, <1>12 DEF L
<1> HIDE DEF D, U, W, h
<1>14. CASE ~sub.borrowed
  <2> DEFINE qD == qh * D
  <2>1. L = U - qD /\ U < qD + D /\ qD \in Nat
    BY <1>4, <1>12, <1>13, <1>14, <1>3, <1>8
  <2> HIDE DEF qD
  <2>2. L < D /\ L + qD = U
    BY <1>3, <1>5, <1>8, <2>1
  <2>3. DivisionStep(st, v, j, n_b) = [u |-> l, q |-> [q EXCEPT ![j] = qh]]
    BY <1>2, <1>14
  <2>4. L < V * h /\ L + qh * (V * h) = U
    BY <2>2 DEF D, qD
  <2> QED BY <1>4, <2>3, <2>4 DEF StepKept, L, U, h, q, u
<1>15. CASE sub.borrowed
  <2> DEFINE qD == qh * D
             d == qh - 1
  <2>1. L = (U - qD) + W /\ qD \in Nat
    BY <1>12, <1>13, <1>15
  <2>2. U < qD
    <3> HIDE DEF qD
    <3> QED BY <1>3, <1>5, <1>8, <2>1
  <2>3. qh >= 1
    <3> SUFFICES ASSUME ~(qh >= 1) PROVE FALSE
      OBVIOUS
    <3>1. qh = 0
      BY <1>4
    <3>2. qD = 0
      BY <1>5, <3>1
    <3> HIDE DEF qD
    <3> QED BY <1>3, <2>2, <3>2
  <2>4. qD - D <= U
    BY <1>4, <1>12, <2>3
  <2>d. d \in Word /\ d * D = qD - D /\ qD - D >= 0
    <3>1. d \in Nat /\ d < Base
      BY <1>4, <2>3, WordIs, BaseIs
    <3>2. d \in Word
      BY <3>1, BaseIs DEF Word
    <3>3. d * D >= 0
      <4> HIDE DEF d
      <4> QED BY <1>5, <3>1
    <3> QED BY <1>12, <3>2, <3>3
  <2> HIDE DEF qD, d
  <2> DEFINE gW == g * W
  <2>5. Z = (L + D) - gW /\ gW \in Int
    BY <1>5, <1>11
  <2>6. gW = W
    <3>1. CASE g >= 2
      <4>1. 2 * W <= gW
        BY <1>5, <3>1, TimesMonotone
      <4> HIDE DEF gW
      <4> QED BY <1>3, <1>5, <1>8, <1>10, <2>1, <2>2, <2>4, <2>5, <2>d, <4>1
    <3>2. CASE g <= 0
      <4>1. gW <= 0
        <5> DEFINE e == - g
        <5>1. e \in Nat /\ e * W \in Nat
          BY <1>5, <3>2
        <5>2. gW = - (e * W)
          BY <1>5
        <5> HIDE DEF e, gW
        <5> QED BY <5>1, <5>2
      <4> HIDE DEF gW
      <4> QED BY <1>3, <1>5, <1>8, <1>10, <2>1, <2>2, <2>4, <2>5, <4>1
    <3>3. CASE g = 1
      BY <1>5, <3>3
    <3>4. g >= 2 \/ g <= 0 \/ g = 1
      OBVIOUS
    <3> HIDE DEF gW
    <3> QED BY <3>1, <3>2, <3>3, <3>4
  <2> HIDE DEF gW
  <2>7. Z < D /\ Z + (qD - D) = U
    BY <2>d, <1>3, <1>5, <1>8, <1>10, <2>1, <2>2, <2>5, <2>6
  <2>8. DivisionStep(st, v, j, n_b) = [u |-> z, q |-> [q EXCEPT ![j] = d]]
    BY <1>2, <1>15 DEF d
  <2>9. Z < V * h /\ Z + d * (V * h) = U
    BY <2>7, <2>d DEF D
  <2> QED BY <2>d, <2>8, <2>9 DEF StepKept, Z, U, h, q, u
<1> QED BY <1>14, <1>15

\* The states of a division, digit by digit.
LEMMA DigitStates ==
  ASSUME NEW n \in Nat, NEW c \in Nat, c = n + 1, NEW v, NEW n_b \in Nat, Divisor(v, n_b, n), NEW m \in Nat, m + n_b <= n,
         NEW u \in [0 .. c - 1 -> Word]
  PROVE  /\ DigitSteps(u, v, n_b, m) \in [0 .. (m + 1) -> Dividing(n, c)]
         /\ DigitSteps(u, v, n_b, m)[0] = [u |-> u, q |-> Zeros(Width(v))]
         /\ \A i \in 0 .. (m + 1) - 1 : DigitSteps(u, v, n_b, m)[i + 1] = DivisionStep(DigitSteps(u, v, n_b, m)[i], v, m - i, n_b)
<1> DEFINE G == [p \in Dividing(n, c) \X Nat |-> IF p[2] \in 1 .. (m + 1) THEN DivisionStep(p[1], v, m + 1 - p[2], n_b) ELSE [u |-> u, q |-> Zeros(Width(v))]]
           P(h) == h = [i \in 0 .. (m + 1) |-> IF i = 0 THEN [u |-> u, q |-> Zeros(Width(v))] ELSE CHOOSE next \in {DivisionStep(s, v, m + 1 - i, n_b) : s \in {h[i - 1]}} : TRUE]
<1>n. (m + 1) \in Nat
  OBVIOUS
<1>s. [u |-> u, q |-> Zeros(Width(v))] \in Dividing(n, c)
  <2>1. DOMAIN v = 0 .. n - 1
    BY DEF Divisor
  <2>2. Width(v) = n
    BY <2>1, WidthIs
  <2>3. Zeros(n) \in [0 .. n - 1 -> Int]
    <3> Zeros(n) \in [0 .. n - 1 -> Word]
      BY ZerosAre
    <3> QED BY WordsAre
  <2> QED BY <2>2, <2>3 DEF Dividing
<1>0. ASSUME NEW prev \in Dividing(n, c), NEW i \in 1 .. (m + 1) PROVE DivisionStep(prev, v, m + 1 - i, n_b) \in Dividing(n, c)
  <2> DEFINE j == m + 1 - i
  <2>1. j \in Nat /\ j + n_b <= n
    OBVIOUS
  <2> HIDE DEF j
  <2>2. DivisionStep(prev, v, j, n_b) \in Dividing(n, c)
    BY <2>1, StepTyped
  <2> QED BY <2>2 DEF j
<1>1. G \in [Dividing(n, c) \X Nat -> Dividing(n, c)]
  <2> SUFFICES ASSUME NEW p \in Dividing(n, c) \X Nat PROVE (IF p[2] \in 1 .. (m + 1) THEN DivisionStep(p[1], v, m + 1 - p[2], n_b) ELSE [u |-> u, q |-> Zeros(Width(v))]) \in Dividing(n, c)
    OBVIOUS
  <2>1. p[1] \in Dividing(n, c)
    OBVIOUS
  <2> QED BY <1>0, <1>s, <2>1
<1>2. PICK g \in [0 .. (m + 1) -> Dividing(n, c)] : Up(g, (m + 1), [u |-> u, q |-> Zeros(Width(v))], G)
  <2> HIDE DEF G
  <2> QED BY <1>n, <1>1, <1>s, Recursion, Zenon
<1>3. ASSUME NEW i \in 1 .. (m + 1), NEW prev \in Dividing(n, c) PROVE G[<<prev, i>>] = DivisionStep(prev, v, m + 1 - i, n_b)
  <2> <<prev, i>> \in Dividing(n, c) \X Nat /\ <<prev, i>>[1] = prev /\ <<prev, i>>[2] = i
    OBVIOUS
  <2> QED OBVIOUS
<1> HIDE DEF G
<1>4. \A i \in 1 .. (m + 1) : g[i] = DivisionStep(g[i - 1], v, m + 1 - i, n_b)
  <2> TAKE i \in 1 .. (m + 1)
  <2>1. i - 1 \in 0 .. (m + 1) /\ g[i - 1] \in Dividing(n, c)
    BY <1>n
  <2>2. g[i] = G[<<g[i - 1], i>>]
    BY <1>2 DEF Up
  <2> QED BY <2>1, <2>2, <1>3
<1>c. ASSUME NEW i, NEW z PROVE (CHOOSE next \in {DivisionStep(s, v, m + 1 - i, n_b) : s \in {z}} : TRUE) = DivisionStep(z, v, m + 1 - i, n_b)
  <2>1. {DivisionStep(s, v, m + 1 - i, n_b) : s \in {z}} = {DivisionStep(z, v, m + 1 - i, n_b)}
    OBVIOUS
  <2> QED BY <2>1
<1>5. P(g)
  <2>1. g[0] = [u |-> u, q |-> Zeros(Width(v))]
    BY <1>2 DEF Up
  <2>2. g = [i \in 0 .. (m + 1) |-> g[i]]
    OBVIOUS
  <2>3. \A i \in 0 .. (m + 1) : i # 0 => i \in 1 .. (m + 1)
    BY <1>n
  <2> QED BY <1>c, <1>4, <2>1, <2>2, <2>3
<1>6. DigitSteps(u, v, n_b, m) = CHOOSE h : P(h)
  BY DEF DigitSteps, Iterates
<1> DEFINE h == DigitSteps(u, v, n_b, m)
<1>7. P(h)
  <2> HIDE DEF P
  <2> QED BY <1>5, <1>6
<1> HIDE DEF h
<1>8. h = [i \in 0 .. (m + 1) |-> h[i]] /\ h[0] = [u |-> u, q |-> Zeros(Width(v))]
  <2>1. DOMAIN h = 0 .. (m + 1) /\ 0 \in 0 .. (m + 1)
    BY <1>n, <1>7
  <2> QED BY <1>7, <2>1
<1>9. ASSUME NEW i \in 1 .. (m + 1), h[i - 1] \in Dividing(n, c) PROVE h[i] = G[<<h[i - 1], i>>]
  <2>1. i \in 0 .. (m + 1) /\ i # 0
    BY <1>n
  <2>2. h[i] = DivisionStep(h[i - 1], v, m + 1 - i, n_b)
    BY <1>c, <1>7, <2>1
  <2> QED BY <1>3, <1>9, <2>2
<1>10. UpWithin(h, (m + 1), [u |-> u, q |-> Zeros(Width(v))], Dividing(n, c), G)
  BY <1>8, <1>9 DEF UpWithin
<1>11. h = g
  BY <1>n, <1>1, <1>2, <1>s, <1>10, UpUnique, Zenon
<1>12. \A i \in 0 .. (m + 1) - 1 : i + 1 \in 1 .. (m + 1) /\ (i + 1) - 1 = i /\ m + 1 - (i + 1) = m - i
  BY <1>n
<1>13. \A i \in 0 .. (m + 1) - 1 : g[i + 1] = DivisionStep(g[i], v, m - i, n_b)
  BY <1>4, <1>12
<1> QED BY <1>2, <1>11, <1>13 DEF h, Up

\* After i digits: what is left and what the quotient is worth make up the dividend.
RoundKept(s, k, U, V, n, c) ==
    /\ s.u \in [0 .. c - 1 -> Word] /\ s.q \in [0 .. n - 1 -> Word]
    /\ Value(s.u) < V * Weight(k) /\ Value(s.u) + V * Value(s.q) = U
    /\ \A x \in 0 .. n - 1 : x < k => s.q[x] = 0

\* One digit more.
LEMMA RoundNext ==
  ASSUME NEW n \in Nat, NEW c \in Nat, c = n + 1, NEW v, NEW n_b \in Nat, Divisor(v, n_b, n),
         NEW j \in Nat, j + n_b <= n, NEW s, NEW V \in Nat, V = Below(v)[n_b], NEW U,
         RoundKept(s, j + 1, U, V, n, c)
  PROVE  RoundKept(DivisionStep(s, v, j, n_b), j, U, V, n, c)
<1>1. /\ s.u \in [0 .. c - 1 -> Word] /\ s.q \in [0 .. n - 1 -> Word]
      /\ Value(s.u) < V * Weight(j + 1) /\ Value(s.u) + V * Value(s.q) = U
      /\ \A x \in 0 .. n - 1 : x < j + 1 => s.q[x] = 0
  BY DEF RoundKept
<1> DEFINE t == DivisionStep(s, v, j, n_b)
           u == s.u
           q == s.q
           g == [u |-> u, q |-> q]
<1>v. v \in [0 .. n - 1 -> Word] /\ n_b \in 2 .. n /\ j \in 0 .. n - 1
  BY DEF Divisor
<1>2. q \in [0 .. n - 1 -> Int]
  BY <1>1, WordsAre
<1>g. g \in Dividing(n, c) /\ g.u = u /\ g.q = q
  BY <1>1, <1>2 DEF Dividing
<1>3. DivisionStep(g, v, j, n_b) = t
  BY <1>g DEF DivisionStep, ByEstimate, WithDigit
<1>4. t \in Dividing(n, c)
  <2>1. DivisionStep(g, v, j, n_b) \in Dividing(n, c)
    <3> HIDE DEF g
    <3> QED BY <1>g, StepTyped
  <2> HIDE DEF g, t
  <2> QED BY <1>3, <2>1
<1>5. StepKept(t, g, V, j)
  <2>1. Value(g.u) < V * Weight(j + 1)
    BY <1>1, <1>g
  <2> HIDE DEF g
  <2>2. StepKept(DivisionStep(g, v, j, n_b), g, V, j)
    BY <1>g, <2>1, DivisionStepIs
  <2> HIDE DEF t
  <2> QED BY <1>3, <2>2
<1> HIDE DEF t
<1>6. PICK d \in Word : t.q = [q EXCEPT ![j] = d] /\ Value(t.u) + d * (V * Weight(j)) = Value(u) /\ Value(t.u) < V * Weight(j)
  BY <1>5, <1>g DEF StepKept
<1>7. t.u \in [0 .. c - 1 -> Word] /\ t.q \in [0 .. n - 1 -> Int]
  BY <1>4 DEF Dividing
<1> DEFINE p == t.q
<1>8. p \in [0 .. n - 1 -> Word] /\ p[j] = d /\ q[j] = 0 /\ \A x \in 0 .. n - 1 : x # j => p[x] = q[x]
  <2>1. q \in [0 .. n - 1 -> Word]
    BY <1>1
  <2>2. p = [q EXCEPT ![j] = d]
    BY <1>6
  <2>3. q[j] = 0
    BY <1>1, <1>v
  <2> HIDE DEF p, q
  <2> QED BY <1>v, <2>1, <2>2, <2>3
<1>9. \A x \in 0 .. n - 1 : x < j => p[x] = 0
  <2> TAKE x \in 0 .. n - 1
  <2> HAVE x < j
  <2>1. x < j + 1 /\ x # j
    OBVIOUS
  <2>2. q[x] = 0
    BY <1>1, <2>1
  <2> HIDE DEF p, q
  <2> QED BY <1>8, <2>1, <2>2
<1> DEFINE P == Value(p)
           Q == Value(q)
           R == Value(t.u)
           h == Weight(j)
           u0 == Value(u)
<1>10. P = Q + d * h /\ Q \in Nat /\ h \in Nat /\ d \in Nat
  <2>1. p \in [0 .. n - 1 -> Int] /\ q \in [0 .. n - 1 -> Int]
    BY <1>2, <1>7
  <2>2. q \in [0 .. n - 1 -> Word]
    BY <1>1
  <2> HIDE DEF p, q
  <2>a. j \in 0 .. n - 1
    BY <1>v
  <2>b. \A i \in 0 .. n - 1 : i # j => p[i] = q[i]
    BY <1>8
  <2>3. Value(p) = Value(q) + (p[j] - q[j]) * Weight(j)
    BY <2>a, <2>b, <2>1, ValueChanged
  <2>4. Value(q) \in Nat
    BY <2>2, ValueNat
  <2>5. d \in Nat /\ h \in Nat
    BY WordIs, WeightIs
  <2>6. p[j] - q[j] = d
    BY <1>8, <2>5
  <2> QED BY <2>3, <2>4, <2>5, <2>6
<1>11. R + d * (V * h) = u0 /\ u0 + V * Q = U /\ R \in Nat /\ u0 \in Nat
  <2>1. R \in Nat
    BY <1>7, ValueNat
  <2>2. u0 \in Nat
    BY <1>1, ValueNat
  <2> QED BY <1>1, <1>6, <2>1, <2>2
<1> HIDE DEF P, Q, R, h, u0, p, q
<1>12. R + V * P = U
  <2> DEFINE dvh == d * (V * h)
             vq == V * Q
  <2>1. V * P = vq + dvh
    <3>1. V * (Q + d * h) = vq + dvh
      BY <1>10
    <3> QED BY <1>10, <3>1
  <2>2. dvh \in Nat /\ vq \in Nat
    BY <1>10
  <2>3. R + dvh = u0 /\ u0 + vq = U
    BY <1>11
  <2> HIDE DEF dvh, vq
  <2>4. R + (vq + dvh) = U
    BY <1>11, <2>2, <2>3
  <2> QED BY <2>1, <2>4
<1> QED BY <1>6, <1>7, <1>8, <1>9, <1>12 DEF RoundKept, R, P, p, h, t

\* All the digits.
LEMMA DigitRounds ==
  ASSUME NEW n \in Nat, NEW c \in Nat, c = n + 1, NEW v, NEW n_b \in Nat, Divisor(v, n_b, n), NEW m \in Nat, m + n_b <= n,
         NEW u \in [0 .. c - 1 -> Word], NEW V \in Nat, V = Below(v)[n_b], Value(u) < V * Weight(m + 1)
  PROVE  RoundKept(DigitSteps(u, v, n_b, m)[m + 1], 0, Value(u), V, n, c)
<1> DEFINE D == DigitSteps(u, v, n_b, m)
           U == Value(u)
<1>v. v \in [0 .. n - 1 -> Word] /\ Width(v) = n
  <2>1. v \in [0 .. n - 1 -> Word]
    BY DEF Divisor
  <2> QED BY <2>1, WidthIs
<1>1. D[0] = [u |-> u, q |-> Zeros(n)] /\ \A i \in 0 .. m : D[i + 1] = DivisionStep(D[i], v, m - i, n_b)
  <2>1. /\ DigitSteps(u, v, n_b, m)[0] = [u |-> u, q |-> Zeros(Width(v))]
        /\ \A i \in 0 .. (m + 1) - 1 : DigitSteps(u, v, n_b, m)[i + 1] = DivisionStep(DigitSteps(u, v, n_b, m)[i], v, m - i, n_b)
    BY DigitStates
  <2>2. (m + 1) - 1 = m
    OBVIOUS
  <2> HIDE DEF D
  <2> QED BY <1>v, <2>1, <2>2 DEF D
<1> HIDE DEF D
<1> DEFINE T == {i \in Nat : i <= m + 1 => RoundKept(D[i], m + 1 - i, U, V, n, c)}
<1>2. 0 \in T
  <2> DEFINE z == Zeros(n)
  <2>1. z \in [0 .. n - 1 -> Word] /\ Value(z) = 0 /\ \A x \in 0 .. n - 1 : z[x] = 0
    <3> \A x \in 0 .. n - 1 : z[x] = 0
      BY DEF Zeros
    <3> HIDE DEF z
    <3> QED BY ZerosAre DEF z
  <2>2. U \in Nat
    BY ValueNat
  <2>3. m + 1 - 0 = m + 1 /\ D[0].u = u /\ D[0].q = z
    BY <1>1
  <2>4. U < V * Weight(m + 1)
    OBVIOUS
  <2> HIDE DEF z, U
  <2>5. U + V * Value(z) = U
    BY <2>1, <2>2
  <2>6. RoundKept(D[0], m + 1, U, V, n, c)
    BY <2>1, <2>3, <2>4, <2>5 DEF RoundKept, U
  <2> QED BY <2>3, <2>6
<1>3. ASSUME NEW i \in T PROVE i + 1 \in T
  <2>1. SUFFICES ASSUME i + 1 <= m + 1 PROVE RoundKept(D[i + 1], m + 1 - (i + 1), U, V, n, c)
    OBVIOUS
  <2> DEFINE j == m - i
             s == D[i]
  <2>2. i \in 0 .. m /\ j \in Nat /\ j + n_b <= n /\ m + 1 - (i + 1) = j /\ m + 1 - i = j + 1 /\ i <= m + 1
    BY <2>1
  <2>3. RoundKept(s, j + 1, U, V, n, c)
    BY <2>2
  <2>4. D[i + 1] = DivisionStep(s, v, j, n_b)
    BY <1>1, <2>2
  <2> HIDE DEF j, s, U
  <2>5. RoundKept(DivisionStep(s, v, j, n_b), j, U, V, n, c)
    BY <2>2, <2>3, RoundNext
  <2> QED BY <2>2, <2>4, <2>5
<1>4. T = Nat
  <2> T \subseteq Nat
    OBVIOUS
  <2> HIDE DEF T
  <2> QED BY <1>2, <1>3, SetInduction
<1>5. m + 1 \in T
  <2> HIDE DEF T
  <2> QED BY <1>4
<1>6. m + 1 - (m + 1) = 0
  OBVIOUS
<1> QED BY <1>5, <1>6 DEF D

\* A limb more, which is zero.
LEMMA LongerIs ==
  ASSUME NEW n \in Nat, NEW c \in Nat, c = n + 1, NEW a \in [0 .. n - 1 -> Word],
         NEW x, x = [i \in 0 .. n |-> IF i < n THEN a[i] ELSE 0]
  PROVE  x \in [0 .. c - 1 -> Word] /\ Value(x) = Value(a)
<1>1. x \in [0 .. c - 1 -> Word]
  <2>1. 0 \in Word
    BY BaseIs DEF Word
  <2>2. c - 1 = n
    OBVIOUS
  <2> QED BY <2>1, <2>2
<1>2. \A i \in n .. c - 1 : x[i] = 0
  OBVIOUS
<1>3. n \in 0 .. c /\ n <= n /\ n <= c
  OBVIOUS
<1>4. Value(x) = Below(x)[n]
  BY <1>1, <1>2, <1>3, HighZeros
<1>5. Below(x)[n] = Below(a)[n]
  <2>1. Agree(x, a, 0, n)
    BY DEF Agree
  <2>2. x \in [0 .. c - 1 -> Int]
    BY <1>1, WordsAre
  <2>3. a \in [0 .. n - 1 -> Int]
    BY WordsAre
  <2>4. AgreeBelow(x, c, a, n, n)
    BY <1>3, <2>1, <2>2, <2>3 DEF AgreeBelow
  <2> QED BY <2>4, BelowAgree
<1>6. Value(a) = Below(a)[n]
  BY BelowWords
<1> QED BY <1>1, <1>4, <1>5, <1>6

\* The limbs below n_b, of an array that has no others.
LEMMA ShorterIs ==
  ASSUME NEW n \in Nat, NEW c \in Nat, c = n + 1, NEW u \in [0 .. c - 1 -> Word], NEW n_b \in 0 .. n,
         Value(u) < Weight(n_b), NEW y, y = [i \in 0 .. n - 1 |-> IF i < n_b THEN u[i] ELSE 0]
  PROVE  y \in [0 .. n - 1 -> Word] /\ Value(y) = Value(u)
<1>1. y \in [0 .. n - 1 -> Word]
  <2>1. 0 \in Word
    BY BaseIs DEF Word
  <2> QED BY <2>1
<1>3. n_b \in 0 .. c /\ n_b <= n /\ n_b <= c /\ n_b \in Nat
  OBVIOUS
<1>4. Value(y) = Below(y)[n_b]
  <2> \A i \in n_b .. n - 1 : y[i] = 0
    OBVIOUS
  <2> QED BY <1>1, HighZeros
<1>5. Value(u) = Below(u)[n_b]
  <2> \A i \in n_b .. c - 1 : u[i] = 0
    BY <1>3, HighZeros
  <2> QED BY <1>3, HighZeros
<1>6. Below(y)[n_b] = Below(u)[n_b]
  <2>1. Agree(y, u, 0, n_b)
    BY DEF Agree
  <2>2. y \in [0 .. n - 1 -> Int]
    BY <1>1, WordsAre
  <2>3. u \in [0 .. c - 1 -> Int]
    BY WordsAre
  <2>4. AgreeBelow(y, n, u, c, n_b)
    BY <1>3, <2>1, <2>2, <2>3 DEF AgreeBelow
  <2> QED BY <1>3, <2>4, BelowAgree
<1> QED BY <1>1, <1>4, <1>5, <1>6

\* Shifted until its top bit is set, the divisor keeps its length.
Shifted(v, b, s, n_b, n) ==
    /\ Divisor(v, n_b, n) /\ Below(v)[n_b] = Value(b) * 2^s
    /\ s \in Nat /\ 2^s \in Nat /\ 2^s >= 1 /\ 2^s <= Base

\* The divisor shifted by the leading zeros of its highest limb.
LEMMA ShiftedIs ==
  ASSUME NEW n \in Nat, NEW b \in [0 .. n - 1 -> Word], NEW n_b \in Nat, n_b = mag_effective_len(b), n_b >= 2,
         NEW s, s = LimbBits - nbits64(b[n_b - 1])
  PROVE  Shifted(mag_shl(b, s), b, s, n_b, n)
<1> DEFINE top == b[n_b - 1]
           k == nbits64(top)
           f == n_b - 1
           v == mag_shl(b, s)
           W == Weight(n_b)
           w == Weight(f)
           V == Value(b)
           p == 2^s
           t == 2^k
           B == Base
           l == Below(b)[f]
<1>1. /\ n_b \in 0 .. n /\ top > 0 /\ V = Below(b)[n_b] /\ V < W /\ V >= w
  BY LengthIs
<1>2. f \in Nat /\ f + 1 = n_b /\ f \in 0 .. n - 1 /\ f \in 0 .. n /\ n_b \in 2 .. n
  BY <1>1
<1>3. top \in Word
  BY <1>2
<1>4. k \in 0 .. LimbBits /\ top < t /\ k \in Nat
  <2> DEFINE x == top
  <2>1. x \in Word
    BY <1>3
  <2> HIDE DEF x
  <2>2. nbits64(x) \in 0 .. LimbBits /\ x < 2^nbits64(x) /\ nbits64(x) \in Nat
    BY <2>1, NBitsAre
  <2> QED BY <2>2 DEF x
<1> HIDE DEF k
<1>5. s \in Nat /\ p \in Nat /\ p >= 1 /\ t \in Nat /\ t >= 1 /\ B = t * p
  <2>1. s = LimbBits - k
    BY DEF k
  <2>2. s \in Nat
    BY <1>4, <2>1, LimbBitsAssumption
  <2>3. 2^k \in Nat /\ 2^k >= 1 /\ 2^(LimbBits - k) \in Nat /\ 2^(LimbBits - k) >= 1 /\ Base = 2^k * 2^(LimbBits - k)
    BY <1>4, BaseSplit
  <2> QED BY <2>1, <2>2, <2>3
<1>6. w \in Nat /\ w >= 1 /\ W = B * w /\ W \in Nat
  <2>1. Weight(f + 1) = Base * Weight(f) /\ Weight(f) \in Nat /\ Weight(f) >= 1
    <3> HIDE DEF f
    <3> QED BY <1>2, WeightNext
  <2>2. W \in Nat
    BY WeightIs
  <2> QED BY <1>2, <2>1, <2>2
<1>7. V = l + top * w /\ l \in Nat /\ l < w
  <2>1. /\ \A i \in 0 .. n - 1 : Below(b)[i + 1] = Below(b)[i] + b[i] * Weight(i)
        /\ \A i \in 0 .. n : Below(b)[i] \in Nat /\ Below(b)[i] < Weight(i)
    BY BelowWords
  <2>2. Below(b)[f + 1] = l + top * w
    BY <1>2, <2>1
  <2>3. l \in Nat /\ l < w
    <3> HIDE DEF f
    <3> QED BY <1>2, <2>1
  <2> QED BY <1>1, <1>2, <2>2, <2>3
<1>8. top \in Nat
  <2> HIDE DEF top
  <2> QED BY <1>3, WordIs
<1>9. p <= B
  <2> HIDE DEF p, t, B
  <2>1. 1 <= t /\ 1 \in Nat
    BY <1>5
  <2>2. 1 * p <= t * p
    BY <1>5, <2>1, TimesMonotone
  <2> QED BY <1>5, <2>2
<1>b. B \in Nat
  BY BaseIs
<1> HIDE DEF top, f, W, w, V, p, t, B, l
<1>10. V < t * w
  <2>1. top + 1 <= t /\ top + 1 \in Nat
    BY <1>4, <1>5, <1>8
  <2>2. (top + 1) * w <= t * w
    BY <1>5, <1>6, <2>1, TimesMonotone
  <2> DEFINE x == top * w
             y == t * w
  <2>3. (top + 1) * w = x + w /\ x \in Nat /\ y \in Nat
    BY <1>5, <1>6, <1>8
  <2>4. x + w <= y /\ V = l + x
    BY <1>7, <2>2, <2>3
  <2> HIDE DEF x, y
  <2>5. V < y
    BY <1>6, <1>7, <2>3, <2>4
  <2> QED BY <2>5 DEF y
<1>11. V \in Nat
  BY ValueNat DEF V
<1>12. V * p < W /\ V * p \in Nat
  <2>1. V + 1 <= t * w /\ V + 1 \in Nat /\ t * w \in Nat
    <3>1. t * w \in Nat
      BY <1>5, <1>6
    <3> QED BY <1>10, <1>11, <3>1
  <2> DEFINE tw == t * w
  <2>2. V + 1 <= tw /\ tw \in Nat
    BY <2>1
  <2> HIDE DEF tw
  <2>3. (V + 1) * p <= tw * p
    BY <1>5, <2>1, <2>2, TimesMonotone
  <2>4. tw * p = W
    <3>1. (t * w) * p = (t * p) * w
      BY <1>5, <1>6
    <3> QED BY <1>5, <1>6, <3>1 DEF tw
  <2> DEFINE vp == V * p
  <2>5. (V + 1) * p = vp + p /\ vp \in Nat
    BY <1>5, <1>11
  <2> HIDE DEF vp
  <2>6. vp < W
    BY <1>5, <1>6, <2>3, <2>4, <2>5
  <2> QED BY <2>5, <2>6 DEF vp
<1>13. V * p >= w
  <2>1. 1 <= p /\ 1 \in Nat
    BY <1>5
  <2>2. 1 * V <= p * V
    BY <1>5, <1>11, <2>1, TimesMonotone
  <2>3. p * V = V * p /\ V * p \in Nat /\ 1 * V = V
    BY <1>5, <1>11
  <2> DEFINE vp == V * p
             pv == p * V
  <2>4. V <= vp /\ vp \in Nat
    BY <2>2, <2>3
  <2> HIDE DEF vp
  <2>5. vp >= w
    BY <1>1, <1>6, <1>11, <2>4
  <2> QED BY <2>5 DEF vp
<1>14. v \in [0 .. n - 1 -> Word] /\ Value(v) = V * p
  <2>1. v \in [0 .. n - 1 -> Word] /\ Value(v) = (Value(b) * 2^s) % Weight(n)
    BY <1>5, MagShlIs
  <2>2. W <= Weight(n) /\ Weight(n) \in Nat
    <3>1. n_b <= n
      BY <1>1
    <3> QED BY <3>1, WeightMonotone, WeightIs DEF W
  <2> DEFINE x == V * p
             z == Weight(n)
  <2>3. x \in Nat /\ z \in Nat /\ x < z /\ Value(v) = x % z
    <3>1. x \in Nat /\ x < W
      BY <1>12
    <3> HIDE DEF x
    <3>2. x < z
      BY <1>6, <2>2, <3>1
    <3> QED BY <2>1, <2>2, <3>1, <3>2 DEF x, V, p
  <2> HIDE DEF x, z
  <2>4. x % z = x
    BY <2>3, ModSmall
  <2> QED BY <2>1, <2>3, <2>4 DEF x
<1> HIDE DEF v
<1>15. Value(v) = Below(v)[n_b]
  <2>1. Value(v) < Weight(n_b)
    BY <1>12, <1>14 DEF W
  <2>2. n_b \in 0 .. n
    BY <1>1
  <2>3. \A i \in n_b .. n - 1 : v[i] = 0
    BY <1>14, <2>1, <2>2, HighZeros
  <2> QED BY <1>14, <2>2, <2>3, HighZeros
<1>16. v[f] > 0
  <2> SUFFICES ASSUME ~(v[f] > 0) PROVE FALSE
    OBVIOUS
  <2>1. v[f] = 0
    <3> DEFINE x == v[f]
    <3>1. x \in Word
      BY <1>2, <1>14
    <3> HIDE DEF x
    <3>2. x \in Nat
      BY <3>1, WordIs
    <3> QED BY <3>2 DEF x
  <2>2. /\ \A i \in 0 .. n - 1 : Below(v)[i + 1] = Below(v)[i] + v[i] * Weight(i)
        /\ \A i \in 0 .. n : Below(v)[i] \in Nat /\ Below(v)[i] < Weight(i)
    BY <1>14, BelowWords
  <2>3. Below(v)[f + 1] = Below(v)[f] + v[f] * w /\ Below(v)[f] \in Nat /\ Below(v)[f] < w
    BY <1>2, <2>2 DEF w
  <2>4. v[f] * w = 0
    BY <1>6, <2>1
  <2>5. Below(v)[n_b] < w
    BY <1>2, <2>3, <2>4
  <2> DEFINE x == Value(v)
             y == V * p
  <2>6. x = y /\ y >= w /\ x < w /\ y \in Nat
    BY <1>12, <1>13, <1>14, <1>15, <2>5
  <2> HIDE DEF x, y
  <2> QED BY <1>6, <2>6
<1>17. Divisor(v, n_b, n)
  BY <1>2, <1>14, <1>16 DEF Divisor, f
<1>18. Below(v)[n_b] = Value(b) * 2^s
  BY <1>14, <1>15 DEF V, p
<1> QED BY <1>5, <1>9, <1>17, <1>18 DEF Shifted, v, p, B

\* What the digits leave, of operands that were scaled by p.
ScaledBy(p, A, b, Q, R) == R < b * p /\ R + (b * p) * Q = A * p

\* Scaling both operands keeps the quotient and scales the remainder.
LEMMA Unscaled ==
  ASSUME NEW A \in Nat, NEW b \in Nat, NEW p \in Nat, p >= 1, NEW Q \in Nat, NEW R \in Nat, ScaledBy(p, A, b, Q, R)
  PROVE  Q = A \div b /\ R \div p = A % b
<1> DEFINE z == A - b * Q
           v == b * p
           t == A * p
<1>0. R < v /\ R + v * Q = t
  BY DEF ScaledBy
<1>1. z \in Int
  OBVIOUS
<1>2. R = z * p
  <2> DEFINE x == A * p
             y == (b * Q) * p
  <2>1. v * Q = y
    <3>1. (b * p) * Q = (b * Q) * p
      OBVIOUS
    <3> QED BY <3>1
  <2>2. x \in Int /\ y \in Int /\ z * p = x - y
    <3> DEFINE bQ == b * Q
    <3>1. bQ \in Int
      OBVIOUS
    <3> HIDE DEF bQ
    <3>2. (A - bQ) * p = A * p - bQ * p /\ A * p \in Int /\ bQ * p \in Int
      BY <3>1
    <3> QED BY <3>2 DEF bQ
  <2>3. R + y = x
    BY <1>0, <2>1
  <2> HIDE DEF x, y, z
  <2> QED BY <2>2, <2>3
<1>e. A = Q * b + z
  <2> DEFINE bQ == b * Q
  <2>1. bQ \in Int /\ Q * b = bQ /\ z = A - bQ
    OBVIOUS
  <2> HIDE DEF bQ, z
  <2> QED BY <2>1
<1> HIDE DEF z
<1>3. z >= 0
  <2> SUFFICES ASSUME z <= -1 PROVE FALSE
    BY <1>1
  <2> DEFINE y == - z
  <2>1. y \in Nat /\ 1 <= y /\ 1 \in Nat
    BY <1>1
  <2>2. 1 * p <= y * p
    <3> HIDE DEF y
    <3> QED BY <2>1, TimesMonotone
  <2>3. z * p = - (y * p) /\ y * p \in Int
    BY <1>1
  <2> DEFINE yp == y * p
  <2>4. R = - yp /\ yp >= p /\ yp \in Int
    BY <1>2, <2>2, <2>3
  <2> HIDE DEF yp
  <2> QED BY <2>4
<1>4. z < b
  <2>1. z * p < b * p
    BY <1>0, <1>2
  <2>2. z \in Nat /\ p > 0
    BY <1>1, <1>3
  <2> QED BY <2>1, <2>2, Cancel
<1>5. A \div b = Q /\ A % b = z
  <2>1. b > 0 /\ 0 <= z /\ A \in Int /\ Q \in Int
    BY <1>1, <1>3, <1>4
  <2> QED BY <1>1, <1>4, <1>e, <2>1, EuclidUnique
<1>6. R \div p = z
  <2>1. z \in Nat /\ p > 0
    BY <1>1, <1>3
  <2>2. (z * p) \div p = z
    BY <2>1, DivExact
  <2> QED BY <1>2, <2>2
<1> QED BY <1>5, <1>6

\* Division by digits, of operands of two limbs or more.
LEMMA ByDigitsIs ==
  ASSUME NEW n \in Nat, NEW a \in [0 .. n - 1 -> Word], NEW b \in [0 .. n - 1 -> Word],
         NEW n_b \in Nat, n_b >= 2, Value(b) >= Weight(n_b - 1), NEW s, Shifted(mag_shl(b, s), b, s, n_b, n),
         NEW n_a \in n_b .. n, Value(a) < Weight(n_a), NEW m \in Nat, m = n_a - n_b
  PROVE  Divides(ByDigits(a, b, s, n_b, m), a, Value(b), n)
<1> DEFINE c == n + 1
           x == [i \in 0 .. n |-> IF i < n THEN a[i] ELSE 0]
           u == mag_shl(x, s)
           v == mag_shl(b, s)
           A == Value(a)
           b0 == Value(b)
           p == 2^s
           V == b0 * p
           U == A * p
           e == DigitSteps(u, v, n_b, m)[m + 1]
           q == e.q
           y == [i \in 0 .. n - 1 |-> IF i < n_b THEN e.u[i] ELSE 0]
           Q == Value(q)
           R == Value(y)
<1>c. c \in Nat /\ c = n + 1
  OBVIOUS
<1>w. Width(a) = n
  BY WidthIs
<1>1. ByDigits(a, b, s, n_b, m) = Unshifted(e, n_b, s)
  BY <1>w DEF ByDigits, QuotientDigits
<1>2. /\ Divisor(v, n_b, n) /\ Below(v)[n_b] = V /\ s \in Nat /\ p \in Nat /\ p >= 1 /\ p <= Base
  BY DEF Shifted
<1>3. n_a \in 0 .. n /\ A < Weight(n_a) /\ A \in Nat /\ A < Weight(n)
  <2>1. n_a \in 0 .. n /\ A < Weight(n_a)
    OBVIOUS
  <2>2. A \in Nat /\ A < Weight(n)
    BY ValueNat
  <2> QED BY <2>1, <2>2
<1>4. b0 >= Weight(n_b - 1) /\ b0 \in Nat
  <2>1. b0 >= Weight(n_b - 1)
    OBVIOUS
  <2>2. b0 \in Nat
    BY ValueNat
  <2> QED BY <2>1, <2>2
<1>5. x \in [0 .. c - 1 -> Word] /\ Value(x) = A
  <2> HIDE DEF x, c
  <2>1. x = [i \in 0 .. n |-> IF i < n THEN a[i] ELSE 0]
    BY DEF x
  <2> QED BY <2>1, <1>c, LongerIs
<1> HIDE DEF x
<1>6. u \in [0 .. c - 1 -> Word] /\ Value(u) = U /\ U \in Nat
  <2> HIDE DEF c
  <2>1. u \in [0 .. c - 1 -> Word] /\ Value(u) = (Value(x) * 2^s) % Weight(c)
    BY <1>c, <1>2, <1>5, MagShlIs
  <2>2. Weight(c) = Base * Weight(n) /\ Weight(n) \in Nat /\ Base \in Nat
    BY <1>c, WeightNext, BaseIs
  <2> DEFINE W == Weight(n)
             B == Base
  <2> HIDE DEF A, p, W, B
  <2>3. A * p < B * W /\ A * p \in Nat
    <3>1. A + 1 <= W /\ A + 1 \in Nat
      BY <1>3, <2>2 DEF W
    <3>2. (A + 1) * p <= W * p
      BY <1>2, <2>2, <3>1, TimesMonotone DEF W
    <3>3. p * W <= B * W
      BY <1>2, <2>2, TimesMonotone DEF W, B
    <3> DEFINE Ap == A * p
               Wp == W * p
               BW == B * W
    <3>4. (A + 1) * p = Ap + p /\ Ap \in Nat /\ Wp \in Nat /\ p * W = Wp /\ BW \in Nat
      BY <1>2, <1>3, <2>2 DEF W, B
    <3> HIDE DEF Ap, Wp, BW
    <3>5. Ap < BW
      BY <1>2, <3>2, <3>3, <3>4 DEF BW, Wp
    <3> QED BY <3>4, <3>5 DEF Ap, BW
  <2> DEFINE z == B * W
  <2>4. z \in Nat
    BY <2>2 DEF W, B
  <2>5. U \in Nat /\ U < z
    BY <2>3
  <2> HIDE DEF z, U
  <2>6. U % z = U
    BY <2>4, <2>5, ModSmall
  <2>7. Value(x) * 2^s = U /\ Weight(c) = z
    BY <1>5, <2>2 DEF U, p, z, B, W
  <2> QED BY <2>1, <2>5, <2>6, <2>7
<1>7. V \in Nat /\ Value(u) < V * Weight(m + 1)
  <2> DEFINE k == n_b - 1
             w == Weight(k)
             g == Weight(m + 1)
  <2>1. k \in Nat /\ m + 1 \in Nat /\ k + (m + 1) = n_a
    OBVIOUS
  <2>2. Weight(n_a) = w * g /\ w \in Nat /\ g \in Nat
    <3> HIDE DEF k
    <3>1. Weight(k + (m + 1)) = Weight(k) * Weight(m + 1)
      BY <2>1, WeightAdd
    <3> QED BY <2>1, <3>1, WeightIs
  <2> HIDE DEF A, b0, p, k, w, g
  <2>3. A + 1 <= b0 * g /\ A + 1 \in Nat /\ b0 * g \in Nat
    <3>1. w * g <= b0 * g
      BY <1>4, <2>2, TimesMonotone DEF w, k
    <3>2. b0 * g \in Nat /\ w * g \in Nat
      BY <1>4, <2>2
    <3> QED BY <1>3, <2>2, <3>1, <3>2
  <2> DEFINE bg == b0 * g
  <2>4. (A + 1) * p <= bg * p
    <3>1. A + 1 <= bg /\ bg \in Nat
      BY <2>3
    <3> HIDE DEF bg
    <3> QED BY <1>2, <2>3, <3>1, TimesMonotone
  <2>5. bg * p = (b0 * p) * g /\ b0 * p \in Nat
    BY <1>2, <1>4, <2>2
  <2> DEFINE Ap == A * p
             h == bg * p
  <2>6. (A + 1) * p = Ap + p /\ Ap \in Nat /\ h \in Nat
    BY <1>2, <1>3, <2>3
  <2> HIDE DEF Ap
  <2>7. Ap < h
    <3> HIDE DEF h
    <3> QED BY <1>2, <2>4, <2>6 DEF h
  <2> QED BY <1>6, <2>5, <2>7 DEF Ap, g
<1> HIDE DEF u, v, V, U
<1>8. RoundKept(e, 0, U, V, n, c)
  <2>1. m + n_b <= n
    BY <1>3
  <2> HIDE DEF e, c
  <2>2. RoundKept(DigitSteps(u, v, n_b, m)[m + 1], 0, Value(u), V, n, c)
    BY <1>c, <1>2, <1>6, <1>7, <2>1, DigitRounds
  <2> QED BY <1>6, <2>2 DEF e
<1> HIDE DEF e
<1>9. /\ e.u \in [0 .. c - 1 -> Word] /\ q \in [0 .. n - 1 -> Word]
      /\ Value(e.u) < V /\ Value(e.u) + V * Q = U
  <2>1. V * Weight(0) = V
    BY <1>7, WeightFirst
  <2> QED BY <1>8, <2>1 DEF RoundKept
<1>10. V < Weight(n_b) /\ n_b \in 0 .. n
  <2>1. v \in [0 .. n - 1 -> Word] /\ n_b \in 2 .. n
    BY <1>2 DEF Divisor
  <2>2. \A i \in 0 .. n : Below(v)[i] \in Nat /\ Below(v)[i] < Weight(i)
    BY <2>1, BelowWords
  <2>3. n_b \in 0 .. n
    BY <2>1
  <2> QED BY <1>2, <2>2, <2>3
<1>11. y \in [0 .. n - 1 -> Word] /\ R = Value(e.u) /\ R \in Nat
  <2> DEFINE f == e.u
  <2>1. f \in [0 .. c - 1 -> Word] /\ y = [i \in 0 .. n - 1 |-> IF i < n_b THEN f[i] ELSE 0]
    BY <1>9
  <2>2. Value(f) \in Nat
    <3> HIDE DEF f, c
    <3> QED BY <1>c, <2>1, ValueNat
  <2>3. Weight(n_b) \in Nat
    BY WeightIs
  <2>4. Value(f) < Weight(n_b)
    <3> DEFINE d == Value(f)
               W == Weight(n_b)
    <3>1. d < V /\ V < W /\ d \in Nat /\ W \in Nat
      BY <1>9, <1>10, <2>2, <2>3
    <3> HIDE DEF d, W
    <3>2. d < W
      BY <1>7, <3>1
    <3> QED BY <3>2 DEF d, W
  <2>d. c \in Nat /\ c = n + 1 /\ n_b \in 0 .. n
    BY <1>c, <1>10
  <2> HIDE DEF f, y, c
  <2>5. y \in [0 .. n - 1 -> Word]
    BY <2>d, <2>1, <2>4, ShorterIs
  <2>6. Value(y) = Value(f)
    BY <2>d, <2>1, <2>4, ShorterIs
  <2> QED BY <2>2, <2>5, <2>6 DEF f
<1>12. Unshifted(e, n_b, s) = [q |-> q, r |-> mag_shr(y, s)]
  <2>1. DOMAIN e.q = 0 .. n - 1
    BY <1>9
  <2> QED BY <2>1 DEF Unshifted
<1> HIDE DEF y, q
<1>13. mag_shr(y, s) \in [0 .. n - 1 -> Word] /\ Value(mag_shr(y, s)) = R \div p
  <2>1. y \in [0 .. n - 1 -> Word] /\ s \in Nat
    BY <1>2, <1>11
  <2>2. mag_shr(y, s) \in [0 .. n - 1 -> Word]
    BY <2>1, MagShrIs
  <2>3. Value(mag_shr(y, s)) = Value(y) \div 2^s
    BY <2>1, MagShrIs
  <2> QED BY <2>2, <2>3
<1>14. Q = A \div b0 /\ R \div p = A % b0
  <2>1. Q \in Nat
    BY <1>9, ValueNat
  <2>2. ScaledBy(p, A, b0, Q, R)
    <3>1. V = b0 * p /\ U = A * p /\ R < V /\ R + V * Q = U
      BY <1>9, <1>11 DEF V, U
    <3> HIDE DEF A, b0, p, Q, R
    <3> QED BY <3>1 DEF ScaledBy
  <2>3. A \in Nat /\ b0 \in Nat /\ p \in Nat /\ p >= 1 /\ R \in Nat
    BY <1>2, <1>3, <1>4, <1>11
  <2> HIDE DEF A, b0, p, Q, R
  <2> QED BY <2>1, <2>2, <2>3, Unscaled
<1> QED BY <1>1, <1>9, <1>12, <1>13, <1>14 DEF Divides

\* mag_div_rem: quotient and remainder of magnitudes.
LEMMA MagDivRemIs ==
  ASSUME NEW n \in Nat, NEW a \in [0 .. n - 1 -> Word], NEW b \in [0 .. n - 1 -> Word], Value(b) > 0
  PROVE  Divides(mag_div_rem(a, b), a, Value(b), n)
<1> DEFINE n_a == mag_effective_len(a)
           n_b == mag_effective_len(b)
           A == Value(a)
           b0 == Value(b)
<1>1. /\ n_b \in 0 .. n /\ (n_b = 0 <=> b0 = 0) /\ (n_b > 0 => b[n_b - 1] > 0)
      /\ b0 = Below(b)[n_b] /\ (n_b > 0 => b0 >= Weight(n_b - 1))
  BY LengthIs
<1>2. n_a \in 0 .. n /\ A < Weight(n_a)
  BY LengthIs
<1>3. A \in Nat /\ b0 \in Nat
  BY ValueNat
<1>4. mag_div_rem(a, b) = DivideBy(a, b, n_b)
  BY DEF mag_div_rem
<1>w. Width(a) = n
  BY WidthIs
<1> HIDE DEF n_a, n_b, A, b0
<1>5. n_b >= 1 /\ n_b \in Nat /\ n_a \in Nat /\ b0 > 0
  BY <1>1, <1>2 DEF b0
<1>6. CASE n_a < n_b
  <2>1. mag_div_rem(a, b) = [q |-> Zeros(n), r |-> a]
    BY <1>4, <1>6, <1>w DEF DivideBy, n_a
  <2>2. A < b0
    <3> DEFINE k == n_b - 1
    <3>1. k \in Nat /\ n_a <= k /\ n_a \in Nat
      BY <1>5, <1>6
    <3>2. b0 >= Weight(k)
      BY <1>1, <1>5
    <3> HIDE DEF k
    <3>3. Weight(n_a) <= Weight(k)
      BY <3>1, WeightMonotone
    <3>4. Weight(n_a) \in Nat
      BY <3>1, WeightIs
    <3>5. Weight(k) \in Nat
      BY <3>1, WeightIs
    <3> QED BY <1>2, <1>3, <3>2, <3>3, <3>4, <3>5
  <2>3. A \div b0 = 0 /\ A % b0 = A
    <3>1. A = 0 * b0 + A
      BY <1>3
    <3>2. A \in Int /\ 0 \in Int /\ 0 <= A
      BY <1>3
    <3> QED BY <1>3, <1>5, <2>2, <3>1, <3>2, EuclidUnique
  <2>4. Zeros(n) \in [0 .. n - 1 -> Word] /\ Value(Zeros(n)) = 0
    BY ZerosAre
  <2> QED BY <2>1, <2>3, <2>4 DEF Divides, A, b0
<1>7. CASE ~(n_a < n_b) /\ n_b = 1
  <2> DEFINE d == b[0]
  <2>1. mag_div_rem(a, b) = ShortDivision(a, d)
    BY <1>4, <1>7 DEF DivideBy, n_a
  <2>2. n >= 1 /\ d \in Word /\ d > 0
    BY <1>1, <1>7
  <2>3. b0 = d
    <3>1. /\ Below(b)[0] = 0 /\ \A i \in 0 .. n - 1 : Below(b)[i + 1] = Below(b)[i] + b[i] * Weight(i)
      BY BelowWords
    <3>2. 0 \in 0 .. n - 1 /\ 0 + 1 = 1
      BY <2>2
    <3>3. Below(b)[1] = 0 + d * 1
      BY <3>1, <3>2, WeightFirst
    <3>4. d \in Nat
      <4> HIDE DEF d
      <4> QED BY <2>2, WordIs
    <3> QED BY <1>1, <1>7, <3>3, <3>4
  <2> HIDE DEF d
  <2>4. Divides(ShortDivision(a, d), a, d, n)
    BY <2>2, ShortDivisionIs
  <2> QED BY <2>1, <2>3, <2>4 DEF b0
<1>8. CASE ~(n_a < n_b) /\ n_b # 1
  <2> DEFINE s == LimbBits - nbits64(b[n_b - 1])
             m == n_a - n_b
  <2>1. mag_div_rem(a, b) = ByDigits(a, b, s, n_b, m)
    BY <1>4, <1>8 DEF DivideBy, n_a
  <2>2. n_b >= 2 /\ n_a >= n_b /\ m \in Nat /\ m = n_a - n_b /\ s = LimbBits - nbits64(b[n_b - 1])
    BY <1>5, <1>8
  <2>3. n_b = mag_effective_len(b) /\ n_a = mag_effective_len(a)
    BY DEF n_a, n_b
  <2> HIDE DEF s, m
  <2>4. Shifted(mag_shl(b, s), b, s, n_b, n)
    BY <1>5, <2>2, <2>3, ShiftedIs
  <2>5. n_a \in n_b .. n /\ Value(a) < Weight(n_a) /\ Value(b) >= Weight(n_b - 1)
    BY <1>1, <1>2, <1>5, <2>2 DEF A, b0
  <2>6. Divides(ByDigits(a, b, s, n_b, m), a, Value(b), n)
    BY <1>5, <2>2, <2>4, <2>5, ByDigitsIs
  <2> QED BY <2>1, <2>6
<1> QED BY <1>6, <1>7, <1>8

-----------------------------------------------------------------------------
(* Division a bit at a time                                                *)

\* A state of it: what is left of the dividend, and the quotient so far.
Biting(n) == [r : [0 .. n - 1 -> Word], q : [0 .. n - 1 -> Int]]

\* A bit below the width is in a limb of it.
LEMMA BitPlace ==
  ASSUME NEW n \in Nat, NEW k \in Nat, NEW L \in Nat, L = LimbBits * n, k < L
  PROVE  /\ k \div LimbBits \in 0 .. n - 1 /\ 2^(k % LimbBits) \in Nat
         /\ 2^k = 2^(k % LimbBits) * Weight(k \div LimbBits)
<1> DEFINE q == k \div LimbBits
           t == k % LimbBits
<1>1. q \in Nat /\ t \in 0 .. LimbBits - 1 /\ t \in Nat /\ 2^k = 2^t * Weight(q)
  BY ShiftIs
<1>2. k = LimbBits * q + t
  BY LimbBitsAssumption, DivRem
<1> HIDE DEF q, t
<1>3. q < n
  <2> SUFFICES ASSUME n <= q PROVE FALSE
    BY <1>1
  <2>1. n * LimbBits <= q * LimbBits
    BY <1>1, LimbBitsAssumption, TimesMonotone
  <2>2. n * LimbBits = LimbBits * n /\ q * LimbBits = LimbBits * q /\ LimbBits * q \in Nat
    BY <1>1, LimbBitsAssumption
  <2> DEFINE z == LimbBits * q
  <2>3. L <= z /\ z \in Nat /\ k = z + t
    BY <1>2, <2>1, <2>2
  <2> HIDE DEF z
  <2> QED BY <1>1, <2>3
<1>4. 2^t \in Nat
  BY <1>1, Pow2Nat
<1> QED BY <1>1, <1>3, <1>4 DEF q, t

\* What a difference borrows.
LEMMA MagSubBorrows ==
  ASSUME NEW n \in Nat, NEW a \in [0 .. n - 1 -> Word], NEW b \in [0 .. n - 1 -> Word]
  PROVE  mag_sub(a, b).borrow = IF Value(a) < Value(b) THEN 1 ELSE 0
BY MagSubIs

\* After the bits from k on: what is left and what the quotient is worth make up the dividend.
BitKept(s, k, A, V, n) ==
    /\ s \in Biting(n)
    /\ Value(s.r) < V * 2^k /\ Value(s.r) + V * Value(s.q) = A

\* The three ways of a step.
BitTaken(s, b, k) ==
    [r |-> mag_sub(s.r, mag_shl(b, k)).limbs, q |-> [s.q EXCEPT ![k \div LimbBits] = @ + 2^(k % LimbBits)]]

\* A bit that is not taken leaves the state.
LEMMA BitCases ==
  ASSUME NEW n \in Nat, NEW b \in [0 .. n - 1 -> Word], Value(b) > 0, NEW k \in Nat, NEW s,
         NEW w, w = mag_sub(s.r, mag_shl(b, k)).borrow
  PROVE  BitStep(s, b, k) = IF w = 1 \/ k + mag_bitsize(b) > LimbBits * n THEN s ELSE BitTaken(s, b, k)
<1>1. ~mag_is_zero(b)
  BY IsZero
<1>2. Width(b) = n
  BY WidthIs
<1> QED BY <1>1, <1>2 DEF BitStep, BitTaken

\* Every step leaves arrays.
LEMMA BitTyped ==
  ASSUME NEW n \in Nat, NEW b \in [0 .. n - 1 -> Word], Value(b) > 0, NEW k \in Nat, NEW L \in Nat, L = LimbBits * n, k < L,
         NEW s \in Biting(n)
  PROVE  BitStep(s, b, k) \in Biting(n)
<1> DEFINE w == mag_sub(s.r, mag_shl(b, k)).borrow
           v == mag_shl(b, k)
           r == s.r
           q == s.q
           at == k \div LimbBits
           p == 2^(k % LimbBits)
<1>1. r \in [0 .. n - 1 -> Word] /\ q \in [0 .. n - 1 -> Int]
  BY DEF Biting
<1>2. v \in [0 .. n - 1 -> Word]
  BY MagShlIs
<1>3. mag_sub(r, v).limbs \in [0 .. n - 1 -> Word]
  <2> HIDE DEF r, v
  <2> QED BY <1>1, <1>2, MagSubIs
<1>4. at \in 0 .. n - 1 /\ p \in Nat
  BY BitPlace
<1>5. [q EXCEPT ![at] = @ + p] \in [0 .. n - 1 -> Int]
  <2> HIDE DEF q, at, p
  <2>1. q[at] + p \in Int
    BY <1>1, <1>4
  <2> QED BY <1>1, <1>4, <2>1
<1>6. BitTaken(s, b, k) \in Biting(n)
  <2> HIDE DEF Biting
  <2> QED BY <1>3, <1>5 DEF Biting, BitTaken
<1>7. BitStep(s, b, k) = IF w = 1 \/ k + mag_bitsize(b) > LimbBits * n THEN s ELSE BitTaken(s, b, k)
  BY BitCases
<1> QED BY <1>6, <1>7

\* The divisor, shifted: exact when it fits, and more than any remainder when it does not.
LEMMA ShiftFits ==
  ASSUME NEW n \in Nat, NEW b \in [0 .. n - 1 -> Word], NEW V \in Nat, V = Value(b), V > 0, NEW k \in Nat,
         NEW L \in Nat, L = LimbBits * n
  PROVE  /\ V * 2^k \in Nat
         /\ k + mag_bitsize(b) > L => Weight(n) <= V * 2^k
         /\ k + mag_bitsize(b) <= L => Value(mag_shl(b, k)) = V * 2^k
<1> DEFINE m == mag_bitsize(b)
           p == 2^k
<1>1. /\ m \in Nat /\ V < 2^m /\ m >= 1 /\ V >= 2^(m - 1)
  <2>1. /\ m \in Nat /\ Value(b) < 2^m
        /\ Value(b) > 0 => m >= 1 /\ Value(b) >= 2^(m - 1)
    BY BitSizeIs
  <2> QED BY <2>1
<1>2. p \in Nat /\ p >= 1
  BY Pow2Positive
<1>3. Weight(n) = 2^L
  BY DEF Weight
<1> HIDE DEF m
<1> DEFINE j == m - 1
<1>4. j \in Nat /\ V >= 2^j /\ m = j + 1
  BY <1>1
<1> HIDE DEF j
<1>5. 2^(j + k) = 2^j * p /\ 2^(m + k) = 2^m * p /\ 2^j \in Nat /\ 2^m \in Nat
  <2>1. 2^(j + k) = 2^j * p
    BY <1>4, Pow2Add
  <2>2. 2^(m + k) = 2^m * p
    BY <1>1, Pow2Add
  <2>3. 2^j \in Nat
    BY <1>4, Pow2Nat
  <2>4. 2^m \in Nat
    BY <1>1, Pow2Nat
  <2> QED BY <2>1, <2>2, <2>3, <2>4
<1> HIDE DEF p
<1>6. V * p \in Nat
  BY <1>2
<1>7. ASSUME k + m > L PROVE Weight(n) <= V * p
  <2>1. 2^L <= 2^(j + k)
    <3>1. L <= j + k /\ j + k \in Nat
      BY <1>1, <1>4, <1>7
    <3> QED BY <3>1, Pow2Monotone
  <2>2. 2^j * p <= V * p
    BY <1>2, <1>4, <1>5, TimesMonotone
  <2>3. 2^j * p \in Nat /\ 2^L \in Nat
    <3>1. 2^L \in Nat
      BY Pow2Nat
    <3>2. 2^j * p \in Nat
      BY <1>2, <1>5
    <3> QED BY <3>1, <3>2
  <2> QED BY <1>3, <1>5, <1>6, <2>1, <2>2, <2>3
<1>8. ASSUME k + m <= L PROVE Value(mag_shl(b, k)) = V * p
  <2>1. 2^(m + k) <= 2^L
    <3>1. m + k <= L /\ m + k \in Nat
      BY <1>1, <1>8
    <3> QED BY <3>1, Pow2Monotone
  <2>2. V * p < 2^m * p
    <3> DEFINE g == 2^m
    <3>1. g \in Nat /\ V < g
      BY <1>1, <1>5
    <3> HIDE DEF g
    <3>2. (V + 1) * p <= g * p
      BY <1>2, <3>1, TimesMonotone
    <3>3. (V + 1) * p = V * p + p /\ g * p \in Nat
      BY <1>2, <3>1
    <3> QED BY <1>2, <1>6, <3>2, <3>3 DEF g
  <2>3. V * p < Weight(n)
    <3>1. 2^(m + k) \in Nat /\ 2^L \in Nat
      <4>1. 2^L \in Nat
        BY Pow2Nat
      <4>2. 2^m * p \in Nat
        BY <1>2, <1>5
      <4> QED BY <1>5, <4>1, <4>2
    <3> QED BY <1>3, <1>5, <1>6, <2>1, <2>2, <3>1
  <2>4. Value(mag_shl(b, k)) = (Value(b) * 2^k) % Weight(n)
    BY MagShlIs
  <2> DEFINE x == V * p
             W == Weight(n)
  <2>5. x \in Nat /\ x < W /\ Value(mag_shl(b, k)) = x % W
    BY <1>6, <2>3, <2>4 DEF p
  <2>6. W \in Nat
    BY WeightIs
  <2> HIDE DEF x, W
  <2>7. x % W = x
    BY <2>5, <2>6, ModSmall
  <2> QED BY <2>5, <2>7 DEF x
<1> QED BY <1>6, <1>7, <1>8 DEF p, m

\* One bit more.
LEMMA BitNext ==
  ASSUME NEW n \in Nat, NEW b \in [0 .. n - 1 -> Word], NEW V \in Nat, V = Value(b), V > 0, NEW k \in Nat,
         NEW L \in Nat, L = LimbBits * n, k < L, NEW A \in Nat, NEW s, BitKept(s, k + 1, A, V, n)
  PROVE  BitKept(BitStep(s, b, k), k, A, V, n)
<1> DEFINE v == mag_shl(b, k)
           r == s.r
           q == s.q
           w == mag_sub(r, v).borrow
           z == mag_sub(r, v).limbs
           R == Value(r)
           Q == Value(q)
           D == V * 2^k
           W == Weight(n)
<1>1. s \in Biting(n) /\ R < V * 2^(k + 1) /\ R + V * Q = A
  BY DEF BitKept
<1>2. r \in [0 .. n - 1 -> Word] /\ q \in [0 .. n - 1 -> Int]
  BY <1>1 DEF Biting
<1>3. BitStep(s, b, k) \in Biting(n)
  <2>1. Value(b) > 0
    OBVIOUS
  <2> QED BY <1>1, <2>1, BitTyped
<1>4. BitStep(s, b, k) = IF w = 1 \/ k + mag_bitsize(b) > LimbBits * n THEN s ELSE BitTaken(s, b, k)
  <2>1. Value(b) > 0
    OBVIOUS
  <2> QED BY <2>1, BitCases
<1>5. R \in Nat /\ R < W
  <2> HIDE DEF r
  <2> QED BY <1>2, ValueNat
<1>6. /\ D \in Nat
      /\ k + mag_bitsize(b) > L => W <= D
      /\ k + mag_bitsize(b) <= L => Value(v) = D
  BY ShiftFits
<1>7. V * 2^(k + 1) = 2 * D
  <2>1. 2^(k + 1) = 2 * 2^k
    BY Pow2Succ
  <2>2. 2^k \in Nat
    BY Pow2Nat
  <2> DEFINE p == 2^k
  <2>3. p \in Nat
    BY <2>2
  <2> HIDE DEF p
  <2>4. V * (2 * p) = 2 * (V * p)
    BY <2>3
  <2> QED BY <2>1, <2>4 DEF p
<1>8. v \in [0 .. n - 1 -> Word]
  BY MagShlIs
<1>9. z \in [0 .. n - 1 -> Word] /\ w = (IF R < Value(v) THEN 1 ELSE 0) /\ Value(z) - w * W = R - Value(v)
  <2> HIDE DEF r, v
  <2>1. mag_sub(r, v).limbs \in [0 .. n - 1 -> Word]
    BY <1>2, <1>8, MagSubIs
  <2>2. mag_sub(r, v).borrow = IF Value(r) < Value(v) THEN 1 ELSE 0
    BY <1>2, <1>8, MagSubBorrows
  <2>3. Value(mag_sub(r, v).limbs) - mag_sub(r, v).borrow * Weight(n) = Value(r) - Value(v)
    BY <1>2, <1>8, MagSubIs
  <2> QED BY <2>1, <2>2, <2>3
<1>10. Q \in Int
  <2> HIDE DEF q
  <2> QED BY <1>2, BelowIs
<1>11. Value(v) \in Nat /\ W \in Nat /\ Value(z) \in Nat /\ mag_bitsize(b) \in Nat
  <2>1. Value(v) \in Nat
    <3> HIDE DEF v
    <3> QED BY <1>8, ValueNat
  <2>2. W \in Nat
    BY WeightIs
  <2>3. Value(z) \in Nat
    <3> HIDE DEF z
    <3> QED BY <1>9, ValueNat
  <2>4. mag_bitsize(b) \in Nat
    BY BitSizeIs
  <2> QED BY <2>1, <2>2, <2>3, <2>4
<1> HIDE DEF v, r, q, w, z, R, Q, W
<1>12. CASE w = 1 \/ k + mag_bitsize(b) > L
  <2>1. BitStep(s, b, k) = s
    BY <1>4, <1>12
  <2>2. R < D
    <3> HIDE DEF D
    <3>1. CASE k + mag_bitsize(b) > L
      BY <1>5, <1>6, <1>11, <3>1
    <3>2. CASE k + mag_bitsize(b) <= L /\ w = 1
      BY <1>5, <1>6, <1>9, <1>11, <3>2
    <3> QED BY <1>11, <1>12, <3>1, <3>2
  <2> QED BY <1>1, <2>1, <2>2 DEF BitKept, R, Q, r, q, D
<1>13. CASE ~(w = 1 \/ k + mag_bitsize(b) > L)
  <2> DEFINE at == k \div LimbBits
             p == 2^(k % LimbBits)
             y == [q EXCEPT ![at] = @ + p]
             Y1 == Value(y)
  <2>1. BitStep(s, b, k) = [r |-> z, q |-> y]
    BY <1>4, <1>13 DEF BitTaken, z, r, v, q
  <2>2. Value(v) = D /\ R >= D /\ Value(z) = R - D
    <3> HIDE DEF D
    <3>1. Value(v) = D
      BY <1>6, <1>11, <1>13
    <3>2. w = 0 /\ R >= D
      BY <1>5, <1>6, <1>9, <1>13, <3>1
    <3>3. w * W = 0
      BY <1>11, <3>2
    <3> QED BY <1>5, <1>6, <1>9, <1>11, <3>1, <3>2, <3>3
  <2>3. at \in 0 .. n - 1 /\ p \in Nat /\ 2^k = p * Weight(at)
    BY BitPlace
  <2> HIDE DEF at, p
  <2>4. y \in [0 .. n - 1 -> Int] /\ y[at] = q[at] + p /\ \A i \in 0 .. n - 1 : i # at => y[i] = q[i]
    <3>1. q[at] \in Int
      BY <1>2, <2>3
    <3> QED BY <1>2, <2>3, <3>1
  <2> HIDE DEF y
  <2>5. Value(y) = Value(q) + (y[at] - q[at]) * Weight(at)
    BY <1>2, <2>3, <2>4, ValueChanged
  <2>6. y[at] - q[at] = p
    <3>1. q[at] \in Int
      BY <1>2, <2>3
    <3> QED BY <2>3, <2>4, <3>1
  <2>7. Y1 = Q + 2^k /\ 2^k \in Nat
    <3> 2^k \in Nat
      BY Pow2Nat
    <3> QED BY <2>3, <2>5, <2>6 DEF Q
  <2> HIDE DEF Y1
  <2>8. V * Y1 = V * Q + D
    <3> DEFINE g == 2^k
    <3>1. g \in Nat /\ Y1 = Q + g
      BY <2>7
    <3> HIDE DEF g
    <3>2. V * Y1 = V * Q + V * g
      BY <1>10, <3>1
    <3> QED BY <3>2 DEF g
  <2> DEFINE VQ == V * Q
             VY == V * Y1
  <2>9. VQ \in Int /\ VY = VQ + D /\ R + VQ = A
    BY <1>1, <1>10, <2>8
  <2> HIDE DEF VQ, VY
  <2>10. Value(z) < D /\ Value(z) + VY = A
    <3> HIDE DEF D
    <3> QED BY <1>1, <1>5, <1>6, <1>7, <2>2, <2>9
  <2> DEFINE t == [r |-> z, q |-> y]
  <2>11. t.r = z /\ t.q = y /\ BitStep(s, b, k) = t
    BY <2>1
  <2> HIDE DEF t
  <2>12. Value(t.r) < V * 2^k /\ Value(t.r) + V * Value(t.q) = A
    BY <2>10, <2>11 DEF VY, Y1, D
  <2>13. BitKept(t, k, A, V, n)
    BY <1>3, <2>11, <2>12 DEF BitKept
  <2> QED BY <2>11, <2>13
<1> QED BY <1>12, <1>13

\* The states, bit by bit.
LEMMA BitStates ==
  ASSUME NEW n \in Nat, NEW a \in [0 .. n - 1 -> Word], NEW b \in [0 .. n - 1 -> Word], Value(b) > 0, NEW L \in Nat, L = LimbBits * n
  PROVE  /\ BitSteps(a, b) \in [0 .. (LimbBits * Width(a)) -> Biting(n)]
         /\ BitSteps(a, b)[0] = [r |-> a, q |-> Zeros(Width(a))]
         /\ \A i \in 0 .. (LimbBits * Width(a)) - 1 : BitSteps(a, b)[i + 1] = BitStep(BitSteps(a, b)[i], b, LimbBits * Width(a) - (i + 1))
<1> DEFINE G == [p \in Biting(n) \X Nat |-> IF p[2] \in 1 .. (LimbBits * Width(a)) THEN BitStep(p[1], b, LimbBits * Width(a) - p[2]) ELSE [r |-> a, q |-> Zeros(Width(a))]]
           P(h) == h = [i \in 0 .. (LimbBits * Width(a)) |-> IF i = 0 THEN [r |-> a, q |-> Zeros(Width(a))] ELSE CHOOSE next \in {BitStep(s, b, LimbBits * Width(a) - i) : s \in {h[i - 1]}} : TRUE]
<1>n. (LimbBits * Width(a)) \in Nat
  <2> Width(a) = n
    BY WidthIs
  <2> QED OBVIOUS
<1>s. [r |-> a, q |-> Zeros(Width(a))] \in Biting(n)
  <2>3. Zeros(n) \in [0 .. n - 1 -> Int]
    <3> Zeros(n) \in [0 .. n - 1 -> Word]
      BY ZerosAre
    <3> QED BY WordsAre
  <2>4. Width(a) = n
    BY WidthIs
  <2> QED BY <2>3, <2>4 DEF Biting
<1>0. ASSUME NEW prev \in Biting(n), NEW i \in 1 .. (LimbBits * Width(a)) PROVE BitStep(prev, b, LimbBits * Width(a) - i) \in Biting(n)
  <2> DEFINE k == LimbBits * Width(a) - i
  <2>1. k \in Nat /\ k < L
    <3> DEFINE z == LimbBits * Width(a)
    <3>1. Width(a) = n
      BY WidthIs
    <3>2. z = L /\ k = z - i /\ i \in 1 .. z
      BY <3>1
    <3> HIDE DEF z, k
    <3> QED BY <3>2
  <2> HIDE DEF k
  <2>2. BitStep(prev, b, k) \in Biting(n)
    BY <2>1, BitTyped
  <2> QED BY <2>2 DEF k
<1>1. G \in [Biting(n) \X Nat -> Biting(n)]
  <2> SUFFICES ASSUME NEW p \in Biting(n) \X Nat PROVE (IF p[2] \in 1 .. (LimbBits * Width(a)) THEN BitStep(p[1], b, LimbBits * Width(a) - p[2]) ELSE [r |-> a, q |-> Zeros(Width(a))]) \in Biting(n)
    OBVIOUS
  <2>1. p[1] \in Biting(n)
    OBVIOUS
  <2> QED BY <1>0, <1>s, <2>1
<1>2. PICK g \in [0 .. (LimbBits * Width(a)) -> Biting(n)] : Up(g, (LimbBits * Width(a)), [r |-> a, q |-> Zeros(Width(a))], G)
  <2> HIDE DEF G
  <2> QED BY <1>n, <1>1, <1>s, Recursion, Zenon
<1>3. ASSUME NEW i \in 1 .. (LimbBits * Width(a)), NEW prev \in Biting(n) PROVE G[<<prev, i>>] = BitStep(prev, b, LimbBits * Width(a) - i)
  <2> <<prev, i>> \in Biting(n) \X Nat /\ <<prev, i>>[1] = prev /\ <<prev, i>>[2] = i
    OBVIOUS
  <2> QED OBVIOUS
<1> HIDE DEF G
<1>4. \A i \in 1 .. (LimbBits * Width(a)) : g[i] = BitStep(g[i - 1], b, LimbBits * Width(a) - i)
  <2> TAKE i \in 1 .. (LimbBits * Width(a))
  <2>1. i - 1 \in 0 .. (LimbBits * Width(a)) /\ g[i - 1] \in Biting(n)
    BY <1>n
  <2>2. g[i] = G[<<g[i - 1], i>>]
    BY <1>2 DEF Up
  <2> QED BY <2>1, <2>2, <1>3
<1>c. ASSUME NEW i, NEW z PROVE (CHOOSE next \in {BitStep(s, b, LimbBits * Width(a) - i) : s \in {z}} : TRUE) = BitStep(z, b, LimbBits * Width(a) - i)
  <2>1. {BitStep(s, b, LimbBits * Width(a) - i) : s \in {z}} = {BitStep(z, b, LimbBits * Width(a) - i)}
    OBVIOUS
  <2> QED BY <2>1
<1>5. P(g)
  <2>1. g[0] = [r |-> a, q |-> Zeros(Width(a))]
    BY <1>2 DEF Up
  <2>2. g = [i \in 0 .. (LimbBits * Width(a)) |-> g[i]]
    OBVIOUS
  <2>3. \A i \in 0 .. (LimbBits * Width(a)) : i # 0 => i \in 1 .. (LimbBits * Width(a))
    BY <1>n
  <2> QED BY <1>c, <1>4, <2>1, <2>2, <2>3
<1>6. BitSteps(a, b) = CHOOSE h : P(h)
  BY DEF BitSteps, Iterates
<1> DEFINE h == BitSteps(a, b)
<1>7. P(h)
  <2> HIDE DEF P
  <2> QED BY <1>5, <1>6
<1> HIDE DEF h
<1>8. h = [i \in 0 .. (LimbBits * Width(a)) |-> h[i]] /\ h[0] = [r |-> a, q |-> Zeros(Width(a))]
  <2>1. DOMAIN h = 0 .. (LimbBits * Width(a)) /\ 0 \in 0 .. (LimbBits * Width(a))
    BY <1>n, <1>7
  <2> QED BY <1>7, <2>1
<1>9. ASSUME NEW i \in 1 .. (LimbBits * Width(a)), h[i - 1] \in Biting(n) PROVE h[i] = G[<<h[i - 1], i>>]
  <2>1. i \in 0 .. (LimbBits * Width(a)) /\ i # 0
    BY <1>n
  <2>2. h[i] = BitStep(h[i - 1], b, LimbBits * Width(a) - i)
    BY <1>c, <1>7, <2>1
  <2> QED BY <1>3, <1>9, <2>2
<1>10. UpWithin(h, (LimbBits * Width(a)), [r |-> a, q |-> Zeros(Width(a))], Biting(n), G)
  BY <1>8, <1>9 DEF UpWithin
<1>11. h = g
  BY <1>n, <1>1, <1>2, <1>s, <1>10, UpUnique, Zenon
<1>12. \A i \in 0 .. (LimbBits * Width(a)) - 1 : i + 1 \in 1 .. (LimbBits * Width(a)) /\ (i + 1) - 1 = i
  BY <1>n
<1>13. \A i \in 0 .. (LimbBits * Width(a)) - 1 : g[i + 1] = BitStep(g[i], b, LimbBits * Width(a) - (i + 1))
  BY <1>4, <1>12
<1> QED BY <1>2, <1>11, <1>13 DEF h, Up

\* All the bits.
LEMMA BitRounds ==
  ASSUME NEW n \in Nat, NEW a \in [0 .. n - 1 -> Word], NEW b \in [0 .. n - 1 -> Word], NEW V \in Nat, V = Value(b), V > 0
  PROVE  BitKept(mag_div_rem_bitwise(a, b), 0, Value(a), V, n)
<1> DEFINE D == BitSteps(a, b)
           A == Value(a)
           L == LimbBits * n
<1>l. L \in Nat
  BY LimbBitsAssumption
<1>w. Width(a) = n
  BY WidthIs
<1> HIDE DEF L
<1>1. D[0] = [r |-> a, q |-> Zeros(n)] /\ \A i \in 0 .. L - 1 : D[i + 1] = BitStep(D[i], b, L - (i + 1))
  <2>0. Value(b) > 0 /\ L = LimbBits * n
    BY DEF L
  <2>1. /\ D[0] = [r |-> a, q |-> Zeros(Width(a))]
        /\ \A i \in 0 .. (LimbBits * Width(a)) - 1 : D[i + 1] = BitStep(D[i], b, LimbBits * Width(a) - (i + 1))
    BY <1>l, <2>0, BitStates
  <2>2. LimbBits * Width(a) = L
    BY <1>w DEF L
  <2> HIDE DEF D
  <2> QED BY <1>w, <2>1, <2>2
<1>2. mag_div_rem_bitwise(a, b) = D[L]
  BY <1>w DEF mag_div_rem_bitwise, L
<1> HIDE DEF D
<1> DEFINE T == {i \in Nat : i <= L => BitKept(D[i], L - i, A, V, n)}
<1>3. 0 \in T
  <2> DEFINE z == Zeros(n)
  <2>1. z \in [0 .. n - 1 -> Word] /\ Value(z) = 0
    BY ZerosAre
  <2>2. z \in [0 .. n - 1 -> Int]
    <3> HIDE DEF z
    <3> QED BY <2>1, WordsAre
  <2>3. A \in Nat /\ A < Weight(n)
    BY ValueNat
  <2>4. Weight(n) = 2^L /\ Weight(n) \in Nat
    <3> Weight(n) \in Nat
      BY WeightIs
    <3> QED BY DEF Weight, L
  <2>5. L - 0 = L /\ D[0].r = a /\ D[0].q = z
    BY <1>1, <1>l
  <2>6. D[0] \in Biting(n)
    BY <1>1, <2>2 DEF Biting
  <2> HIDE DEF z, A
  <2>7. A < V * 2^L
    <3> DEFINE p == 2^L
    <3>1. p \in Nat /\ A < p
      BY <2>3, <2>4
    <3> HIDE DEF p
    <3>2. 1 * p <= V * p
      BY <3>1, TimesMonotone
    <3>3. V * p \in Nat /\ 1 * p = p
      BY <3>1
    <3> QED BY <2>3, <3>1, <3>2, <3>3 DEF p
  <2>8. A + V * Value(z) = A
    BY <2>1, <2>3
  <2>9. BitKept(D[0], L, A, V, n)
    BY <2>5, <2>6, <2>7, <2>8 DEF BitKept, A
  <2> QED BY <2>5, <2>9
<1>4. ASSUME NEW i \in T PROVE i + 1 \in T
  <2>1. SUFFICES ASSUME i + 1 <= L PROVE BitKept(D[i + 1], L - (i + 1), A, V, n)
    OBVIOUS
  <2> DEFINE k == L - (i + 1)
             s == D[i]
  <2>2. i \in 0 .. L - 1 /\ k \in Nat /\ k < L /\ L - i = k + 1 /\ i <= L
    BY <1>l, <2>1
  <2>3. BitKept(s, k + 1, A, V, n)
    BY <2>2
  <2>4. D[i + 1] = BitStep(s, b, k)
    BY <1>1, <2>2
  <2>5. A \in Nat
    BY ValueNat
  <2>6. L = LimbBits * n
    BY DEF L
  <2> HIDE DEF k, s, A
  <2>7. BitKept(BitStep(s, b, k), k, A, V, n)
    BY <1>l, <2>2, <2>3, <2>5, <2>6, BitNext
  <2> QED BY <2>4, <2>7 DEF k
<1>5. T = Nat
  <2> T \subseteq Nat
    OBVIOUS
  <2> HIDE DEF T
  <2> QED BY <1>3, <1>4, SetInduction
<1>6. L \in T
  <2> HIDE DEF T
  <2> QED BY <1>5, <1>l
<1>7. L - L = 0
  BY <1>l
<1> QED BY <1>2, <1>6, <1>7, <1>l

\* The quotient and the remainder are those of the values.
LEMMA BitwiseIs ==
  ASSUME NEW n \in Nat, NEW a \in [0 .. n - 1 -> Word], NEW b \in [0 .. n - 1 -> Word], NEW V \in Nat, V = Value(b), V > 0,
         NEW qr, qr = mag_div_rem_bitwise(a, b)
  PROVE  Value(qr.q) = Value(a) \div V /\ Value(qr.r) = Value(a) % V
<1> DEFINE A == Value(a)
           q == Value(qr.q)
           r == Value(qr.r)
<1>1. BitKept(qr, 0, A, V, n)
  BY BitRounds
<1>2. qr.r \in [0 .. n - 1 -> Word] /\ qr.q \in [0 .. n - 1 -> Int]
  BY <1>1 DEF BitKept, Biting
<1>3. r < V /\ r + V * q = A
  <2>1. V * 2^0 = V
    BY Pow2Zero
  <2> QED BY <1>1, <2>1 DEF BitKept
<1>4. r \in Nat /\ q \in Int /\ A \in Nat
  <2>1. r \in Nat
    BY <1>2, ValueNat
  <2>2. q \in Int
    BY <1>2, BelowIs
  <2>3. A \in Nat
    BY ValueNat
  <2> QED BY <2>1, <2>2, <2>3
<1> HIDE DEF A, q, r
<1>5. V * q = q * V /\ q * V \in Int
  BY <1>4
<1>6. A = q * V + r
  BY <1>3, <1>4, <1>5
<1>7. A \div V = q /\ A % V = r
  <2>1. A \in Int /\ r \in Int /\ 0 <= r /\ r < V /\ V \in Nat /\ V > 0
    BY <1>3, <1>4
  <2>2. A \div V = q
    BY <1>4, <1>6, <2>1, EuclidUnique
  <2>3. A % V = r
    BY <1>4, <1>6, <2>1, EuclidUnique
  <2> QED BY <2>2, <2>3
<1> QED BY <1>7 DEF A, q, r

-----------------------------------------------------------------------------
(* Euclid's division, whatever the signs                                   *)

\* A canonical integer of a sign.
LEMMA CanonicalOf ==
  ASSUME NEW n \in Nat, NEW s \in {0, 1}, NEW l \in [0 .. n - 1 -> Word], NEW x, x = Canonical(s, l)
  PROVE  /\ x = Canonical(x.sign, x.limbs) /\ Value(l) \in Nat
         /\ IntOf(x) = (IF s = 1 THEN - Value(l) ELSE Value(l))
<1>1. x.limbs = l /\ x.sign = (IF mag_is_zero(l) THEN 0 ELSE s)
  BY DEF Canonical, Big
<1>2. x = Canonical(x.sign, x.limbs)
  BY <1>1 DEF Canonical, Big
<1>3. mag_is_zero(l) <=> Value(l) = 0
  BY IsZero
<1>4. Value(l) \in Nat
  BY ValueNat
<1> DEFINE V == Value(l)
           z == mag_is_zero(l)
<1>5. IntOf(x) = IF x.sign = 1 THEN - V ELSE V
  BY <1>1 DEF IntOf
<1>6. CASE z
  <2>1. V = 0 /\ x.sign = 0 /\ V \in Nat
    BY <1>1, <1>3, <1>4, <1>6
  <2>2. IntOf(x) = V
    BY <1>5, <2>1
  <2> HIDE DEF V
  <2>3. - V = V
    <3>1. V \in Nat /\ V < 1
      BY <2>1
    <3> QED BY <3>1
  <2>4. IntOf(x) = (IF s = 1 THEN - V ELSE V)
    BY <2>2, <2>3
  <2> QED BY <1>2, <1>4, <2>4 DEF V
<1>7. CASE ~z
  <2>1. x.sign = s
    BY <1>1, <1>7
  <2> QED BY <1>2, <1>4, <1>5, <2>1
<1> QED BY <1>6, <1>7

\* A number and a sign.
Signs(s, m) == IF s = 1 THEN - m ELSE m

\* The four cases of signs: the remainder as it is, or the rest of the divisor.
Rounded(u, v, q, r) == q * v + r = u /\ r \in 0 .. Magnitude(v) - 1

\* The quotient of a negative dividend is one more in size, if there is a remainder.
LEMMA RoundedDown ==
  ASSUME NEW a \in Nat, NEW b \in Nat, b > 0, NEW Q \in Nat, NEW R \in Nat, a = Q * b + R, R < b,
         NEW s \in {0, 1}, NEW t \in {0, 1}, NEW u, u = Signs(s, a), NEW v, v = Signs(t, b)
  PROVE  /\ (s = 0 \/ R = 0) => Rounded(u, v, Signs((s + t) % 2, Q), R)
         /\ (s = 1 /\ R # 0) => Rounded(u, v, Signs((s + t) % 2, Q + 1), b - R)
<1>1. Magnitude(v) = b
  BY DEF Magnitude, Signs
<1> DEFINE P == Q * b
<1>2. P \in Nat /\ Q * (- b) = - P /\ (- Q) * b = - P /\ (- Q) * (- b) = P
  OBVIOUS
<1>3. /\ (Q + 1) * b = P + b /\ (- (Q + 1)) * b = - (P + b)
      /\ (Q + 1) * (- b) = - (P + b)
  OBVIOUS
<1>4. (0 + 0) % 2 = 0 /\ (0 + 1) % 2 = 1 /\ (1 + 0) % 2 = 1 /\ (1 + 1) % 2 = 0
  OBVIOUS
<1>5. a = P + R
  OBVIOUS
<1> HIDE DEF P
<1>6. CASE s = 0 /\ t = 0
  <2>1. u = a /\ v = b /\ Signs((s + t) % 2, Q) = Q
    BY <1>4, <1>6 DEF Signs
  <2> QED BY <1>1, <1>2, <1>5, <1>6, <2>1 DEF Rounded, P
<1>7. CASE s = 0 /\ t = 1
  <2>1. u = a /\ v = - b /\ Signs((s + t) % 2, Q) = - Q
    BY <1>4, <1>7 DEF Signs
  <2>2. (- Q) * v + R = u
    BY <1>2, <1>5, <2>1
  <2> QED BY <1>1, <1>7, <2>1, <2>2 DEF Rounded
<1>8. CASE s = 1 /\ t = 0
  <2>1. u = - a /\ v = b /\ Signs((s + t) % 2, Q) = - Q /\ Signs((s + t) % 2, Q + 1) = - (Q + 1)
    BY <1>4, <1>8 DEF Signs
  <2>2. R = 0 => (- Q) * v + R = u
    BY <1>2, <1>5, <2>1
  <2>3. (- (Q + 1)) * v + (b - R) = u
    BY <1>2, <1>3, <1>5, <2>1
  <2> QED BY <1>1, <1>8, <2>1, <2>2, <2>3 DEF Rounded
<1>9. CASE s = 1 /\ t = 1
  <2>1. u = - a /\ v = - b /\ Signs((s + t) % 2, Q) = Q /\ Signs((s + t) % 2, Q + 1) = Q + 1
    BY <1>4, <1>9 DEF Signs
  <2>2. R = 0 => Q * v + R = u
    BY <1>2, <1>5, <2>1
  <2>3. (Q + 1) * v + (b - R) = u
    BY <1>2, <1>3, <1>5, <2>1
  <2> QED BY <1>1, <1>9, <2>1, <2>2, <2>3 DEF Rounded
<1> QED BY <1>6, <1>7, <1>8, <1>9

\* The sign of an integer that fits.
LEMMA StandsSigns ==
  ASSUME NEW n \in Nat, NEW v \in Int, NEW x, Stands(x, v, n), Magnitude(v) < Weight(n)
  PROVE  /\ x.limbs \in [0 .. n - 1 -> Word] /\ x.sign \in {0, 1} /\ Value(x.limbs) \in Nat
         /\ v = Signs(x.sign, Value(x.limbs)) /\ Magnitude(v) = Value(x.limbs) /\ (v # 0 => Value(x.limbs) > 0)
<1>1. /\ x.limbs \in [0 .. n - 1 -> Word]
      /\ Value(x.limbs) = Magnitude(v) /\ x.sign = (IF v < 0 THEN 1 ELSE 0)
      /\ Value(x.limbs) \in Nat
  BY StandsFit
<1>2. Magnitude(v) \in Nat /\ Magnitude(v) = (IF v < 0 THEN - v ELSE v) /\ (Magnitude(v) = 0 <=> v = 0)
  BY MagnitudeIs
<1>3. v = Signs(x.sign, Value(x.limbs))
  BY <1>1, <1>2 DEF Signs
<1> QED BY <1>1, <1>2, <1>3

\* A remainder is zero exactly when its limbs are, and the quotient of a
\* division that leaves one has room for one more.
LEMMA RoomForOne ==
  ASSUME NEW n \in Nat, NEW a \in Nat, a < Weight(n), NEW b \in Nat, NEW Q \in Nat, NEW R \in Nat,
         a = Q * b + R, R < b, R # 0
  PROVE  Q + 1 < Weight(n) /\ b - R \in Nat
<1>1. 2 <= b
  OBVIOUS
<1>2. Weight(n) \in Nat
  BY WeightIs
<1>3. 2 * Q <= b * Q
  BY <1>1, TimesMonotone
<1>4. b * Q = Q * b /\ Q * b \in Nat
  OBVIOUS
<1> DEFINE P == Q * b
<1>5. 2 * Q <= P /\ a = P + R /\ P \in Nat
  BY <1>3, <1>4
<1> HIDE DEF P
<1> QED BY <1>1, <1>2, <1>5

\* The quotient and the remainder of Euclid's division: the remainder is never negative.
Euclidean(qr, u, v) ==
    /\ Rounded(u, v, IntOf(qr.q), IntOf(qr.r)) /\ qr.q = Canonical(qr.q.sign, qr.q.limbs)
    /\ IntOf(qr.q) \in Int

\* vt_div_rem of integers that fit.
LEMMA VtDivRemIs ==
  ASSUME NEW n \in Nat, n >= 1, NEW u \in Int, NEW v \in Int, v # 0, NEW x, NEW y, Stands(x, u, n), Stands(y, v, n),
         Magnitude(u) < Weight(n), Magnitude(v) < Weight(n)
  PROVE  Euclidean(vt_div_rem(x, y), u, v)
<1> DEFINE a == Value(x.limbs)
           b == Value(y.limbs)
           qr == mag_div_rem(x.limbs, y.limbs)
           Q == Value(qr.q)
           R == Value(qr.r)
           s == (x.sign + y.sign) % 2
           z == vt_div_rem(x, y)
<1>1. x.limbs \in [0 .. n - 1 -> Word] /\ x.sign \in {0, 1} /\ a \in Nat /\ u = Signs(x.sign, a) /\ Magnitude(u) = a
  BY StandsSigns
<1>2. /\ y.limbs \in [0 .. n - 1 -> Word] /\ y.sign \in {0, 1} /\ b \in Nat /\ v = Signs(y.sign, b) /\ Magnitude(v) = b
      /\ v # 0 => b > 0
  BY StandsSigns
<1>3. Divides(qr, x.limbs, b, n)
  <2> DEFINE l == x.limbs
             m == y.limbs
  <2>1. l \in [0 .. n - 1 -> Word] /\ m \in [0 .. n - 1 -> Word] /\ Value(m) > 0
    BY <1>1, <1>2
  <2> HIDE DEF l, m
  <2>2. Divides(mag_div_rem(l, m), l, Value(m), n)
    BY <2>1, MagDivRemIs
  <2> QED BY <2>2 DEF l, m
<1>4. qr.q \in [0 .. n - 1 -> Word] /\ qr.r \in [0 .. n - 1 -> Word] /\ Q = a \div b /\ R = a % b
  BY <1>3 DEF Divides
<1>5. a = Q * b + R /\ Q \in Nat /\ R \in Nat /\ R < b
  <2>1. b \in Nat /\ b > 0
    BY <1>2
  <2> HIDE DEF a, b
  <2>2. a = b * (a \div b) + (a % b) /\ a \div b \in Nat /\ a % b \in 0 .. b - 1
    BY <1>1, <2>1, DivRem
  <2> DEFINE c == a \div b
             d == a % b
  <2>3. a = b * c + d /\ c \in Nat /\ d \in 0 .. b - 1 /\ Q = c /\ R = d
    BY <1>4, <2>2
  <2> HIDE DEF c, d, Q, R
  <2>4. b * c = c * b
    BY <2>1, <2>3
  <2> QED BY <2>1, <2>3, <2>4
<1>6. z = IF x.sign = 1 /\ ~mag_is_zero(qr.r)
          THEN [q |-> Canonical(s, mag_add(qr.q, OneLimb(1, n)).limbs),
                r |-> Big(0, mag_sub(y.limbs, qr.r).limbs)]
          ELSE [q |-> Canonical(s, qr.q), r |-> Big(0, qr.r)]
  <2> Width(x.limbs) = n
    BY <1>1, WidthIs
  <2> QED BY DEF vt_div_rem, Floored
<1>7. mag_is_zero(qr.r) <=> R = 0
  <2> HIDE DEF qr
  <2> QED BY <1>4, IsZero
<1>8. s \in {0, 1}
  BY <1>1, <1>2
<1>9. /\ (x.sign = 0 \/ R = 0) => Rounded(u, v, Signs(s, Q), R)
      /\ (x.sign = 1 /\ R # 0) => Rounded(u, v, Signs(s, Q + 1), b - R)
  <2> DEFINE e == x.sign
             f == y.sign
  <2>1. e \in {0, 1} /\ f \in {0, 1} /\ u = Signs(e, a) /\ v = Signs(f, b) /\ b \in Nat /\ b > 0 /\ a \in Nat
    BY <1>1, <1>2
  <2> HIDE DEF a, b, Q, R, e, f
  <2>2. (e = 0 \/ R = 0) => Rounded(u, v, Signs((e + f) % 2, Q), R)
    BY <1>5, <2>1, RoundedDown
  <2>3. (e = 1 /\ R # 0) => Rounded(u, v, Signs((e + f) % 2, Q + 1), b - R)
    BY <1>5, <2>1, RoundedDown
  <2> QED BY <2>2, <2>3 DEF e, f
<1>w. a < Weight(n) /\ Weight(n) \in Nat /\ b < Weight(n)
  BY <1>1, <1>2, WeightIs
<1> HIDE DEF qr, z, s
<1>10. CASE x.sign = 1 /\ R # 0
  <2> DEFINE l == mag_add(qr.q, OneLimb(1, n)).limbs
             m == mag_sub(y.limbs, qr.r).limbs
             W == Weight(n)
  <2>1. z.q = Canonical(s, l) /\ z.r = Big(0, m)
    BY <1>6, <1>7, <1>10
  <2>2. Q + 1 < W /\ b - R \in Nat
    <3> HIDE DEF a, b, Q, R, W
    <3> QED BY <1>1, <1>2, <1>5, <1>10, <1>w, RoomForOne DEF W
  <2>3. OneLimb(1, n) \in [0 .. n - 1 -> Word] /\ Value(OneLimb(1, n)) = 1
    <3> 1 \in Word
      BY BaseIs DEF Word
    <3> QED BY OneLimbIs
  <2>4. l \in [0 .. n - 1 -> Word] /\ Value(l) = Q + 1
    <3> DEFINE o == OneLimb(1, n)
               p == qr.q
    <3>1. o \in [0 .. n - 1 -> Word] /\ p \in [0 .. n - 1 -> Word] /\ Value(o) = 1 /\ Value(p) = Q
      BY <1>4, <2>3
    <3> HIDE DEF o, p, W, Q
    <3>2. mag_add(p, o).limbs \in [0 .. n - 1 -> Word]
      BY <3>1, MagAddIs
    <3>3. Value(mag_add(p, o).limbs) = (Value(p) + Value(o)) % Weight(n)
      BY <3>1, MagAddIs
    <3>4. (Q + 1) % W = Q + 1
      <4> DEFINE i == Q + 1
      <4>1. i \in Nat /\ i < W /\ W \in Nat
        BY <1>5, <1>w, <2>2 DEF W
      <4> HIDE DEF i
      <4>2. i % W = i
        BY <4>1, ModSmall
      <4> QED BY <4>2 DEF i
    <3> QED BY <3>1, <3>2, <3>3, <3>4 DEF o, p, W
  <2>5. m \in [0 .. n - 1 -> Word] /\ Value(m) = b - R
    <3> DEFINE o == y.limbs
               p == qr.r
    <3>1. o \in [0 .. n - 1 -> Word] /\ p \in [0 .. n - 1 -> Word] /\ Value(o) = b /\ Value(p) = R
      BY <1>2, <1>4
    <3> HIDE DEF o, p, W, R, b
    <3>2. mag_sub(o, p).limbs \in [0 .. n - 1 -> Word]
      BY <3>1, MagSubIs
    <3>3. Value(mag_sub(o, p).limbs) = (Value(o) - Value(p)) % Weight(n)
      BY <3>1, MagSubIs
    <3>4. (b - R) % W = b - R
      <4> DEFINE i == b - R
      <4>1. i \in Nat /\ i < W /\ W \in Nat
        BY <1>2, <1>5, <1>w, <2>2 DEF W
      <4> HIDE DEF i
      <4>2. i % W = i
        BY <4>1, ModSmall
      <4> QED BY <4>2 DEF i
    <3> QED BY <3>1, <3>2, <3>3, <3>4 DEF o, p, W
  <2> HIDE DEF l, m
  <2>6. IntOf(z.r) = b - R
    BY <2>1, <2>5 DEF IntOf, Big
  <2>7. z.q = Canonical(z.q.sign, z.q.limbs) /\ IntOf(z.q) = (IF s = 1 THEN - Value(l) ELSE Value(l))
    <3> DEFINE c == z.q
    <3>1. c = Canonical(s, l)
      BY <2>1
    <3> HIDE DEF c
    <3> QED BY <1>8, <2>4, <3>1, CanonicalOf DEF c
  <2>8. IntOf(z.q) = Signs(s, Q + 1)
    BY <2>4, <2>7 DEF Signs
  <2>9. Signs(s, Q + 1) \in Int
    BY <1>5 DEF Signs
  <2> QED BY <1>9, <1>10, <2>6, <2>7, <2>8, <2>9 DEF Euclidean, z
<1>11. CASE x.sign = 0 \/ R = 0
  <2>1. z.q = Canonical(s, qr.q) /\ z.r = Big(0, qr.r)
    BY <1>6, <1>7, <1>11
  <2>2. IntOf(z.r) = R
    BY <2>1 DEF IntOf, Big
  <2>3. z.q = Canonical(z.q.sign, z.q.limbs) /\ IntOf(z.q) = (IF s = 1 THEN - Q ELSE Q)
    <3> DEFINE c == z.q
               l == qr.q
    <3>1. c = Canonical(s, l) /\ l \in [0 .. n - 1 -> Word]
      BY <1>4, <2>1
    <3> HIDE DEF c, l
    <3>2. c = Canonical(c.sign, c.limbs) /\ IntOf(c) = (IF s = 1 THEN - Value(l) ELSE Value(l))
      BY <1>8, <3>1, CanonicalOf
    <3> QED BY <3>2 DEF c, l
  <2>4. IntOf(z.q) = Signs(s, Q)
    BY <2>3 DEF Signs
  <2>5. Signs(s, Q) \in Int
    BY <1>5 DEF Signs
  <2> QED BY <1>9, <1>11, <2>2, <2>3, <2>4, <2>5 DEF Euclidean, z
<1> QED BY <1>1, <1>10, <1>11

-----------------------------------------------------------------------------
(* The thread on its own                                                   *)

\* The width, and what an integer that fits is as an operand.
LEMMA WidthN == N \in Nat /\ N >= 2 /\ N <= Base /\ N >= 1
BY NumbersAssumption

\* Every operand fits.
LEMMA OperandIs ==
  ASSUME NEW v \in Signed \cup Residues \cup {- m : m \in Residues}
  PROVE  v \in Int /\ Magnitude(v) < Weight(N) /\ Magnitude(v) \in Nat /\ Stands(BigOf(v, N), v, N)
<1>1. PICK m \in Magnitudes \cup Residues : v = m \/ v = - m
  BY DEF Signed
<1>2. m \in 0 .. Weight(N) - 1
  BY NumbersAssumption
<1>3. Weight(N) \in Nat
  BY WidthN, WeightIs
<1>4. v \in Int /\ m \in Nat /\ m < Weight(N)
  BY <1>1, <1>2, <1>3
<1>5. Magnitude(v) = m
  <2>1. CASE v = m
    BY <1>4, <2>1 DEF Magnitude
  <2>2. CASE v = - m
    BY <1>4, <2>2 DEF Magnitude
  <2> QED BY <1>1, <2>1, <2>2
<1>6. Stands(BigOf(v, N), v, N)
  BY <1>4, <1>5, WidthN, BigOfIs
<1> QED BY <1>4, <1>5, <1>6

\* What stands for an integer equals it.
LEMMA StandsEquals ==
  ASSUME NEW v, NEW x, Stands(x, v, N)
  PROVE  Equals(x, v)
BY DEF Stands, Equals, Capacity

\* What the calls are, operation by operation.
LEMMA PairCalls ==
  ASSUME NEW c \in NumberCalls, c.op \in {"add", "mul"}
  PROVE  c.x \in Signed /\ c.y \in Signed
BY DEF NumberCalls, IntegerCalls, ModularCalls, Pairs

\* Divisions.
LEMMA DivCalls ==
  ASSUME NEW c \in NumberCalls, c.op = "div"
  PROVE  c.x \in Signed /\ c.y \in Signed /\ c.y # 0
BY DEF NumberCalls, IntegerCalls, ModularCalls, Pairs

\* Squares.
LEMMA SquareCalls ==
  ASSUME NEW c \in NumberCalls, c.op = "square"
  PROVE  c.a \in [0 .. 3 -> LimbValues]
BY DEF NumberCalls, IntegerCalls, ModularCalls, Pairs

\* Sums of three.
LEMMA MacCalls ==
  ASSUME NEW c \in NumberCalls, c.op = "mac"
  PROVE  c.x \in Residues /\ c.y \in Signed /\ c.z \in {- r : r \in Residues}
BY DEF NumberCalls, IntegerCalls, ModularCalls, Pairs

\* Shifts.
LEMMA ShiftCalls ==
  ASSUME NEW c \in NumberCalls, c.op = "shift"
  PROVE  c.x \in Signed /\ c.s \in 0 .. LimbBits * N
BY DEF NumberCalls, IntegerCalls, ModularCalls, Pairs

\* Conversions of width.
LEMMA ResizeCalls ==
  ASSUME NEW c \in NumberCalls, c.op = "resize"
  PROVE  c.x \in Signed /\ c.n \in 1 .. N
BY DEF NumberCalls, IntegerCalls, ModularCalls, Pairs

\* Conversions from bytes.
LEMMA DecodeCalls ==
  ASSUME NEW c \in NumberCalls, c.op = "decode"
  PROVE  c.bytes \in [1 .. N - 1 -> LimbValues] \cup [1 .. N -> LimbValues]
BY DEF NumberCalls, IntegerCalls, ModularCalls, Pairs

\* Sums and differences, on both paths.
LEMMA SumsKept ==
  ASSUME NEW u \in Signed, NEW v \in Signed, NEW x, x = BigOf(u, N), NEW y, y = BigOf(v, N)
  PROVE  /\ Equals(ct_add(x, y), u + v) /\ vt_add(x, y) = ct_add(x, y)
         /\ Equals(ct_sub(x, y), u - v) /\ vt_sub(x, y) = ct_sub(x, y)
         /\ ct_eq(x, y) = (u = v)
         /\ cmp(x, y) = IF u > v THEN 1 ELSE IF u = v THEN 0 ELSE -1
<1>1. u \in Int /\ Magnitude(u) < Weight(N) /\ Stands(x, u, N)
  BY OperandIs
<1>2. v \in Int /\ Magnitude(v) < Weight(N) /\ Stands(y, v, N)
  BY OperandIs
<1>3. Stands(wrapping_neg(y), - v, N) /\ Magnitude(- v) = Magnitude(v) /\ - v \in Int
  BY <1>2, WidthN, NegationIs
<1>4. Stands(ct_add(x, y), u + v, N)
  BY <1>1, <1>2, WidthN, BySignsIs
<1>5. Stands(ct_sub(x, y), u - v, N)
  <2> DEFINE w == - v
             z == wrapping_neg(y)
  <2>1. w \in Int /\ Magnitude(w) < Weight(N) /\ Stands(z, w, N) /\ u + w = u - v
    BY <1>1, <1>2, <1>3
  <2> HIDE DEF w, z
  <2>2. Stands(ct_add(x, z), u + w, N)
    BY <1>1, <2>1, WidthN, BySignsIs
  <2> QED BY <2>1, <2>2 DEF ct_sub, z
<1>6. x.limbs \in [0 .. N - 1 -> Word] /\ x.sign \in {0, 1}
  BY <1>1 DEF Stands
<1>7. y.limbs \in [0 .. N - 1 -> Word] /\ y.sign \in {0, 1}
  BY <1>2 DEF Stands
<1>8. vt_add(x, y) = ct_add(x, y)
  BY <1>6, <1>7, WidthN, VtAddIs
<1>9. vt_sub(x, y) = ct_sub(x, y)
  <2> DEFINE z == wrapping_neg(y)
  <2>1. z.limbs \in [0 .. N - 1 -> Word] /\ z.sign \in {0, 1}
    BY <1>3 DEF Stands
  <2> HIDE DEF z
  <2>2. vt_add(x, z) = ct_add(x, z)
    BY <1>6, <2>1, WidthN, VtAddIs
  <2> QED BY <2>2 DEF ct_sub, vt_sub, z
<1>10. cmp(x, y) = Order(u, v) /\ (ct_eq(x, y) <=> u = v)
  BY <1>1, <1>2, WidthN, CmpIs
<1>11. ct_eq(x, y) \in BOOLEAN
  BY DEF ct_eq
<1>12. ct_eq(x, y) = (u = v)
  BY <1>10, <1>11, Zenon
<1> QED BY <1>4, <1>5, <1>8, <1>9, <1>10, <1>12, StandsEquals DEF Order

\* The sum of three, of which only the last total is cut.
LEMMA MacKept ==
  ASSUME NEW u \in Residues, NEW v \in Signed, NEW w \in {- r : r \in Residues},
         NEW s, s = mac_sum(<<BigOf(u, N), BigOf(v, N), BigOf(w, N)>>, N)
  PROVE  Equals(s, u + v + w)
<1> DEFINE x == BigOf(u, N)
           y == BigOf(v, N)
           z == BigOf(w, N)
           t == <<x, y, z>>
<1>1. u \in Int /\ Magnitude(u) < Weight(N) /\ Stands(x, u, N)
  BY OperandIs
<1>2. v \in Int /\ Magnitude(v) < Weight(N) /\ Stands(y, v, N)
  BY OperandIs
<1>3. w \in Int /\ Magnitude(w) < Weight(N) /\ Stands(z, w, N)
  BY OperandIs
<1> HIDE DEF x, y, z
<1>4. IntOf(x) = u /\ IntOf(y) = v /\ IntOf(z) = w
  <2>1. IntOf(x) = u
    BY <1>1, WidthN, StandsFit
  <2>2. IntOf(y) = v
    BY <1>2, WidthN, StandsFit
  <2>3. IntOf(z) = w
    BY <1>3, WidthN, StandsFit
  <2> QED BY <2>1, <2>2, <2>3
<1>5. /\ x.limbs \in [0 .. N - 1 -> Word] /\ x.sign \in {0, 1}
      /\ y.limbs \in [0 .. N - 1 -> Word] /\ y.sign \in {0, 1}
      /\ z.limbs \in [0 .. N - 1 -> Word] /\ z.sign \in {0, 1}
  BY <1>1, <1>2, <1>3 DEF Stands
<1>6. Len(t) = 3 /\ t[1] = x /\ t[2] = y /\ t[3] = z
  OBVIOUS
<1> HIDE DEF t
<1>7. Terms(t, N)
  <2>1. Len(t) \in Nat
    BY <1>6
  <2>2. ASSUME NEW i \in 1 .. Len(t) PROVE t[i].limbs \in [0 .. N - 1 -> Word] /\ t[i].sign \in {0, 1}
    <3>1. i = 1 \/ i = 2 \/ i = 3
      BY <1>6
    <3> QED BY <1>5, <1>6, <3>1
  <2> QED BY <2>1, <2>2 DEF Terms
<1> DEFINE f == Integers(t)
<1>8. f[0] = u /\ f[1] = v /\ f[2] = w
  BY <1>4, <1>6 DEF Integers
<1> HIDE DEF f
<1>9. Sums(f, 3)[3] = u + v + w
  <2>1. \A i \in 0 .. 3 - 1 : f[i] \in Int
    <3> SUFFICES ASSUME NEW i \in 0 .. 3 - 1 PROVE f[i] \in Int
      OBVIOUS
    <3>1. i = 0 \/ i = 1 \/ i = 2
      OBVIOUS
    <3> QED BY <1>1, <1>2, <1>3, <1>8, <3>1
  <2>2. Sums(f, 3)[0] = 0 /\ \A i \in 0 .. 3 - 1 : Sums(f, 3)[i + 1] = Sums(f, 3)[i] + f[i]
    BY <2>1, SumsIs
  <2> DEFINE S == Sums(f, 3)
  <2>3. S[0] = 0 /\ S[0 + 1] = S[0] + f[0] /\ S[1 + 1] = S[1] + f[1] /\ S[2 + 1] = S[2] + f[2]
    BY <2>2
  <2> HIDE DEF S
  <2>4. S[1] = u /\ S[2] = u + v /\ S[3] = u + v + w
    BY <1>1, <1>2, <1>3, <1>8, <2>3
  <2> QED BY <2>4 DEF S
<1>10. Stands(mac_sum(t, N), Sums(f, Len(t))[Len(t)], N)
  BY <1>7, WidthN, MacSumIs DEF f
<1>11. Stands(mac_sum(t, N), u + v + w, N)
  BY <1>6, <1>9, <1>10
<1>12. s = mac_sum(t, N)
  BY DEF t, x, y, z
<1> QED BY <1>11, <1>12, StandsEquals

\* Every kernel that multiplies.
LEMMA ProductsKept ==
  ASSUME NEW u \in Signed, NEW v \in Signed, NEW x, x = BigOf(u, N), NEW y, y = BigOf(v, N)
  PROVE  /\ Equals(ct_mul(x, y), u * v) /\ vt_mul(x, y) = ct_mul(x, y)
         /\ Value(mag_mul(x.limbs, y.limbs)) = Magnitude(u * v) % Capacity
         /\ mag_mul_comba(x.limbs, y.limbs) = mag_mul(x.limbs, y.limbs)
         /\ mag_mul_4_adx(x.limbs, y.limbs) = mag_mul(x.limbs, y.limbs)
<1>1. u \in Int /\ Magnitude(u) < Weight(N) /\ Stands(x, u, N)
  BY OperandIs
<1>2. v \in Int /\ Magnitude(v) < Weight(N) /\ Stands(y, v, N)
  BY OperandIs
<1>3. x.limbs \in [0 .. N - 1 -> Word] /\ Value(x.limbs) = Magnitude(u)
  BY <1>1, WidthN, StandsFit
<1>4. y.limbs \in [0 .. N - 1 -> Word] /\ Value(y.limbs) = Magnitude(v)
  BY <1>2, WidthN, StandsFit
<1>5. Equals(ct_mul(x, y), u * v)
  <2>1. Stands(ct_mul(x, y), u * v, N)
    BY <1>1, <1>2, WidthN, CtMulIs
  <2> QED BY <2>1, StandsEquals
<1>6. vt_mul(x, y) = ct_mul(x, y)
  BY <1>3, <1>4, WidthN, VtMulIs
<1> DEFINE a == x.limbs
           b == y.limbs
<1>7. a \in [0 .. N - 1 -> Word] /\ b \in [0 .. N - 1 -> Word]
  BY <1>3, <1>4
<1> HIDE DEF a, b
<1>8. Value(mag_mul(a, b)) = (Value(a) * Value(b)) % Weight(N)
  BY <1>7, WidthN, MagMulIs
<1>9. Magnitude(u * v) = Magnitude(u) * Magnitude(v)
  BY <1>1, <1>2, MagnitudeTimes
<1>10. Value(mag_mul(a, b)) = Magnitude(u * v) % Capacity
  BY <1>3, <1>4, <1>8, <1>9 DEF Capacity, a, b
<1>11. mag_mul_comba(a, b) = mag_mul(a, b)
  BY <1>7, WidthN, CombaIs
<1>12. mag_mul_4_adx(a, b) = mag_mul(a, b)
  BY <1>7, WidthN, AdxIs
<1> QED BY <1>5, <1>6, <1>10, <1>11, <1>12 DEF a, b

\* Squares of four limbs.
LEMMA SquaresKept ==
  ASSUME NEW a \in [0 .. 3 -> LimbValues]
  PROVE  /\ mag_sqr(a) = mag_mul(a, a) /\ mag_sqr_4_adx(a) = mag_mul(a, a)
         /\ Value(mag_mul(a, a)) = (Value(a) * Value(a)) % Weight(4)
<1>1. a \in [0 .. 3 -> Word]
  BY NumbersAssumption
<1>2. mag_sqr(a) = mag_mul(a, a)
  BY <1>1, SquareIs
<1>3. mag_sqr_4_adx(a) = mag_mul(a, a)
  BY <1>1, SquareAdxIs
<1>4. Value(mag_mul(a, a)) = (Value(a) * Value(a)) % Weight(4)
  <2>1. 4 \in Nat /\ a \in [0 .. 4 - 1 -> Word]
    BY <1>1
  <2> QED BY <2>1, MagMulIs
<1> QED BY <1>2, <1>3, <1>4

\* Shifts.
LEMMA ShiftsKept ==
  ASSUME NEW u \in Signed, NEW s \in Nat, NEW x, x = BigOf(u, N)
  PROVE  /\ Value(shl(x, s).limbs) = (Magnitude(u) * 2^s) % Capacity
         /\ Equals(shr(x, s), IF u < 0 THEN - (Magnitude(u) \div 2^s) ELSE u \div 2^s)
<1> DEFINE a == x.limbs
           A == Magnitude(u)
           p == 2^s
           W == Weight(N)
           D == A \div p
           l == mag_shr(a, s)
<1>1. u \in Int /\ A < W /\ Stands(x, u, N)
  BY OperandIs
<1>2. a \in [0 .. N - 1 -> Word] /\ Value(a) = A /\ x.sign = (IF u < 0 THEN 1 ELSE 0) /\ A \in Nat
  BY <1>1, WidthN, StandsFit
<1>3. Value(mag_shl(a, s)) = (Value(a) * 2^s) % Weight(N)
  <2> HIDE DEF a
  <2> QED BY <1>2, WidthN, MagShlIs
<1>4. l \in [0 .. N - 1 -> Word] /\ Value(l) = D /\ D \in Nat
  <2>1. mag_shr(a, s) \in [0 .. N - 1 -> Word] /\ Value(mag_shr(a, s)) = Value(a) \div 2^s
         /\ Value(a) \div 2^s \in Nat
    <3> HIDE DEF a
    <3> QED BY <1>2, WidthN, MagShrIs
  <2> QED BY <1>2, <2>1
<1>5. Value(shl(x, s).limbs) = (A * p) % Capacity
  BY <1>2, <1>3 DEF shl, Big, Capacity
<1>6. Value(l) < W /\ W \in Nat
  <2> HIDE DEF l
  <2> QED BY <1>4, WidthN, ValueNat, WeightIs
<1>7. shr(x, s) = Canonical(x.sign, l)
  BY DEF shr
<1> DEFINE v == IF u < 0 THEN - D ELSE D
<1>8. (IF u < 0 THEN - (A \div p) ELSE u \div p) = v
  BY <1>1 DEF Magnitude
<1> HIDE DEF A, D, l
<1>9. v \in Int /\ Magnitude(v) = D /\ (v < 0 => x.sign = 1) /\ (v > 0 => x.sign = 0) /\ x.sign \in {0, 1}
  <2>1. v \in Int
    BY <1>4
  <2>2. (v < 0 => x.sign = 1) /\ (v > 0 => x.sign = 0) /\ x.sign \in {0, 1}
    BY <1>1, <1>2, <1>4
  <2>3. Magnitude(v) = D
    <3>1. CASE u < 0
      <4>1. v = - D
        BY <3>1
      <4> HIDE DEF v
      <4>2. v < 0 => Magnitude(v) = D
        BY <1>4, <4>1 DEF Magnitude
      <4>3. ~(v < 0) => Magnitude(v) = D
        BY <1>4, <4>1 DEF Magnitude
      <4> QED BY <4>2, <4>3
    <3>2. CASE ~(u < 0)
      BY <1>4, <3>2 DEF Magnitude
    <3> QED BY <3>1, <3>2
  <2> QED BY <2>1, <2>2, <2>3
<1> HIDE DEF v
<1>10. Value(l) = Magnitude(v) % Weight(N)
  <2>1. D % W = D
    BY <1>4, <1>6, ModSmall
  <2> QED BY <1>4, <1>9, <2>1
<1>11. Stands(shr(x, s), v, N)
  <2> DEFINE e == x.sign
  <2>1. e \in {0, 1} /\ (v < 0 => e = 1) /\ (v > 0 => e = 0)
    BY <1>9
  <2> HIDE DEF e
  <2>2. Stands(Canonical(e, l), v, N)
    BY <1>4, <1>9, <1>10, <2>1, WidthN, CanonicalIs
  <2> QED BY <1>7, <2>2 DEF e
<1>12. Equals(shr(x, s), v)
  BY <1>11, StandsEquals
<1> QED BY <1>5, <1>8, <1>12 DEF A

\* An integer and its magnitude have the same powers of two, and are odd together.
LEMMA OddPart ==
  ASSUME NEW v \in Int, NEW w \in Nat, NEW p \in Nat, p > 0, NEW d \in Nat, d % 2 = 1, w = d * p, v = w \/ v = - w
  PROVE  v % p = 0 /\ (v \div p) % 2 = 1
<1>1. CASE v = w
  <2>1. v = d * p + 0 /\ d \in Int /\ 0 \in Int /\ 0 <= 0 /\ 0 < p
    BY <1>1
  <2>2. v \div p = d
    BY <2>1, EuclidUnique
  <2>3. v % p = 0
    BY <2>1, EuclidUnique
  <2> QED BY <2>2, <2>3
<1>2. CASE v = - w
  <2> DEFINE c == - d
  <2>1. c \in Int /\ c * p = - (d * p)
    OBVIOUS
  <2>2. c % 2 = 1
    OBVIOUS
  <2> HIDE DEF c
  <2>3. v = c * p + 0 /\ 0 \in Int /\ 0 <= 0 /\ 0 < p
    BY <1>2, <2>1
  <2>4. v \div p = c
    BY <2>1, <2>3, EuclidUnique
  <2>5. v % p = 0
    BY <2>1, <2>3, EuclidUnique
  <2> QED BY <2>2, <2>4, <2>5
<1> QED BY <1>1, <1>2

\* The length in bits and the zeros below the lowest one.
LEMMA BitsKept ==
  ASSUME NEW u \in Signed, NEW x, x = BigOf(u, N), NEW bits, bits = mag_bitsize(x.limbs),
         NEW zeros, zeros = mag_trailing_zeros(x.limbs)
  PROVE  /\ Magnitude(u) < 2^bits
         /\ u # 0 => /\ Magnitude(u) >= 2^(bits - 1)
                     /\ u % 2^zeros = 0 /\ (u \div 2^zeros) % 2 = 1
<1> DEFINE a == x.limbs
           A == Magnitude(u)
<1>1. u \in Int /\ A < Weight(N) /\ Stands(x, u, N)
  BY OperandIs
<1>2. a \in [0 .. N - 1 -> Word] /\ Value(a) = A /\ A \in Nat
  BY <1>1, WidthN, StandsFit
<1>3. Value(a) < 2^bits /\ (Value(a) > 0 => Value(a) >= 2^(bits - 1))
  <2>1. bits = mag_bitsize(a)
    OBVIOUS
  <2> HIDE DEF a
  <2> QED BY <1>2, <2>1, WidthN, BitSizeIs
<1>4. A = 0 <=> u = 0
  BY <1>1, MagnitudeIs
<1>5. u = A \/ u = - A
  BY <1>1 DEF Magnitude
<1>6. ASSUME u # 0 PROVE u % 2^zeros = 0 /\ (u \div 2^zeros) % 2 = 1
  <2>1. zeros = mag_trailing_zeros(a) /\ Value(a) > 0
    BY <1>2, <1>4, <1>6
  <2> HIDE DEF a
  <2>2. zeros \in Nat /\ \E d \in Nat : Value(a) = d * 2^zeros /\ d % 2 = 1
    BY <1>2, <2>1, WidthN, MagTrailingZerosAre
  <2>3. PICK d \in Nat : A = d * 2^zeros /\ d % 2 = 1
    BY <1>2, <2>2
  <2> DEFINE p == 2^zeros
  <2>4. p \in Nat /\ p > 0 /\ A = d * p
    BY <2>2, <2>3, Pow2Positive
  <2> HIDE DEF p, A
  <2>5. u % p = 0 /\ (u \div p) % 2 = 1
    BY <1>1, <1>2, <1>5, <2>3, <2>4, OddPart
  <2> QED BY <2>5 DEF p
<1> QED BY <1>2, <1>3, <1>4, <1>6

\* Narrowing: exact or refused.
LEMMA ResizeKept ==
  ASSUME NEW u \in Signed, NEW m \in 1 .. N, NEW y, y = narrow_to(BigOf(u, N), m)
  PROVE  IF Magnitude(u) < Weight(m) THEN IntOf(y) = u ELSE y = NoBig
<1> DEFINE x == BigOf(u, N)
           A == Magnitude(u)
<1>1. u \in Int /\ A < Weight(N) /\ Stands(x, u, N)
  BY OperandIs
<1>m. m \in Nat /\ m \in 0 .. N
  BY WidthN
<1>2. x.limbs \in [0 .. N - 1 -> Word] /\ Value(x.limbs) = A /\ x.sign = (IF u < 0 THEN 1 ELSE 0) /\ A \in Nat
  BY <1>1, WidthN, StandsFit
<1> HIDE DEF x
<1>3. y = IF A < Weight(m) THEN resize_unchecked(x, m) ELSE NoBig
  <2>1. narrow_to(x, m) = IF Value(x.limbs) < Weight(m) THEN resize_unchecked(x, m) ELSE NoBig
    BY <1>2, <1>m, WidthN, NarrowIs
  <2> QED BY <1>2, <2>1 DEF x
<1>4. CASE A < Weight(m)
  <2> DEFINE z == resize_unchecked(x, m)
  <2>1. z = Big(x.sign, z.limbs) /\ z.limbs \in [0 .. m - 1 -> Word] /\ Value(z.limbs) = Value(x.limbs) % Weight(m)
    BY <1>2, <1>m, WidthN, ResizeIs
  <2>2. y = z
    BY <1>3, <1>4
  <2> HIDE DEF z
  <2>3. z.sign = x.sign
    BY <2>1 DEF Big
  <2>4. Value(z.limbs) = A
    <3>1. Weight(m) \in Nat
      BY <1>m, WeightIs
    <3> HIDE DEF A
    <3>2. A % Weight(m) = A
      BY <1>2, <1>4, <3>1, ModSmall
    <3> QED BY <1>2, <2>1, <3>2
  <2>5. IntOf(z) = IF u < 0 THEN - A ELSE A
    BY <1>2, <2>3, <2>4 DEF IntOf
  <2>6. (IF u < 0 THEN - A ELSE A) = u
    BY <1>1 DEF Magnitude
  <2> QED BY <1>4, <2>2, <2>5, <2>6
<1>5. CASE ~(A < Weight(m))
  BY <1>3, <1>5
<1> QED BY <1>4, <1>5

\* Two's complement.
LEMMA DecodeKept ==
  ASSUME NEW bytes \in [1 .. N - 1 -> LimbValues] \cup [1 .. N -> LimbValues],
         NEW n, n = Len(bytes), NEW b, b = [i \in 0 .. n - 1 |-> bytes[i + 1]]
  PROVE  IntOf(from_bytes_le_signed(bytes, N)) = IF Value(b) >= Weight(n) \div 2 THEN Value(b) - Weight(n) ELSE Value(b)
<1>1. PICK k \in 1 .. N : bytes \in [1 .. k -> LimbValues]
  <2> N - 1 \in 1 .. N /\ N \in 1 .. N
    BY WidthN
  <2> QED OBVIOUS
<1>2. bytes \in [1 .. k -> Word]
  BY <1>1, NumbersAssumption
<1>3. Len(bytes) = k
  <2>1. k \in Nat
    BY <1>1, WidthN
  <2>2. bytes \in Seq(LimbValues)
    BY <1>1, <2>1
  <2>3. DOMAIN bytes = 1 .. k
    BY <1>1
  <2> QED BY <2>1, <2>2, <2>3
<1> QED BY <1>1, <1>2, <1>3, WidthN, DecodeIs

\* Euclid's division, by digits and by bits.
LEMMA DivisionKept ==
  ASSUME NEW u \in Signed, NEW v \in Signed, v # 0, NEW x, x = BigOf(u, N), NEW y, y = BigOf(v, N),
         NEW w, w = mag_div_rem_bitwise(x.limbs, y.limbs)
  PROVE  /\ Euclidean(vt_div_rem(x, y), u, v)
         /\ Value(w.q) = Magnitude(u) \div Magnitude(v) /\ Value(w.r) = Magnitude(u) % Magnitude(v)
<1>1. u \in Int /\ Magnitude(u) < Weight(N) /\ Stands(x, u, N)
  BY OperandIs
<1>2. v \in Int /\ Magnitude(v) < Weight(N) /\ Stands(y, v, N)
  BY OperandIs
<1>3. Euclidean(vt_div_rem(x, y), u, v)
  BY <1>1, <1>2, WidthN, VtDivRemIs
<1> DEFINE a == x.limbs
           b == y.limbs
           V == Magnitude(v)
<1>4. a \in [0 .. N - 1 -> Word] /\ Value(a) = Magnitude(u)
  BY <1>1, WidthN, StandsFit
<1>5. b \in [0 .. N - 1 -> Word] /\ V = Value(b) /\ V \in Nat /\ V > 0
  <2>1. b \in [0 .. N - 1 -> Word] /\ V = Value(b) /\ V \in Nat
    BY <1>2, WidthN, StandsFit
  <2>2. V # 0
    BY <1>2, MagnitudeIs
  <2> QED BY <2>1, <2>2
<1>6. w = mag_div_rem_bitwise(a, b)
  OBVIOUS
<1> HIDE DEF a, b, V
<1>7. Value(w.q) = Value(a) \div V
  BY <1>4, <1>5, <1>6, WidthN, BitwiseIs
<1>8. Value(w.r) = Value(a) % V
  BY <1>4, <1>5, <1>6, WidthN, BitwiseIs
<1> QED BY <1>3, <1>4, <1>7, <1>8 DEF V

-----------------------------------------------------------------------------
(* The invariant                                                           *)

\* A call is one of those that a thread makes; without one there is no result.
NumbersInv ==
    /\ call \in NumberCalls \cup {NoCall}
    /\ call = NoCall => result = NoResult
    /\ IntegersExact

\* A result, once it is returned.
LEMMA Returned ==
  ASSUME NEW r, Return(r)
  PROVE  call' = call /\ Res' = r /\ result' # NoResult
BY DEF Return, Res, NoResult

\* AddSub returns sums, differences and the order.
LEMMA SumsReturned ==
  ASSUME call \in NumberCalls, AddSub
  PROVE  IntegersExact' /\ call' = call
<1> DEFINE u == call.x
           v == call.y
           r == [ct |-> ct_add(X, Y), vt |-> vt_add(X, Y), ct_diff |-> ct_sub(X, Y),
                 vt_diff |-> vt_sub(X, Y), order |-> cmp(X, Y), same |-> ct_eq(X, Y)]
<1>1. call.op = "add" /\ Return(r)
  BY DEF AddSub, Pending
<1>2. u \in Signed /\ v \in Signed
  BY <1>1, PairCalls
<1>3. /\ Equals(r.ct, u + v) /\ r.vt = r.ct
      /\ Equals(r.ct_diff, u - v) /\ r.vt_diff = r.ct_diff
      /\ r.same = (u = v)
      /\ r.order = IF u > v THEN 1 ELSE IF u = v THEN 0 ELSE -1
  <2> DEFINE x == BigOf(u, N)
             y == BigOf(v, N)
  <2>1. /\ Equals(ct_add(x, y), u + v) /\ vt_add(x, y) = ct_add(x, y)
        /\ Equals(ct_sub(x, y), u - v) /\ vt_sub(x, y) = ct_sub(x, y)
        /\ ct_eq(x, y) = (u = v)
        /\ cmp(x, y) = IF u > v THEN 1 ELSE IF u = v THEN 0 ELSE -1
    <3> HIDE DEF u, v
    <3> QED BY <1>2, SumsKept
  <2>2. X = x /\ Y = y
    BY DEF X, Y
  <2> QED BY <2>1, <2>2
<1> HIDE DEF r
<1>4. call' = call /\ Res' = r
  BY <1>1, Returned
<1>5. SumsExact'
  BY <1>1, <1>3, <1>4 DEF SumsExact, Is, Equals
<1>6. ProductsExact' /\ BitsExact' /\ DivisionExact'
  BY <1>1, <1>4 DEF ProductsExact, BitsExact, DivisionExact, Is
<1> QED BY <1>4, <1>5, <1>6 DEF IntegersExact

\* MacSum returns the sum of three.
LEMMA MacReturned ==
  ASSUME call \in NumberCalls, MacSum
  PROVE  IntegersExact' /\ call' = call
<1> DEFINE r == mac_sum(<<X, Y, BigOf(call.z, N)>>, N)
           u == call.x
           v == call.y
           w == call.z
<1>1. call.op = "mac" /\ Return(r)
  BY DEF MacSum, Pending
<1>2. u \in Residues /\ v \in Signed /\ w \in {- i : i \in Residues}
  BY <1>1, MacCalls
<1>3. r = mac_sum(<<BigOf(u, N), BigOf(v, N), BigOf(w, N)>>, N)
  BY DEF X, Y
<1> HIDE DEF r
<1>4. Equals(r, u + v + w)
  <2> HIDE DEF u, v, w
  <2> QED BY <1>2, <1>3, MacKept
<1>5. call' = call /\ Res' = r
  BY <1>1, Returned
<1>6. SumsExact'
  BY <1>1, <1>4, <1>5 DEF SumsExact, Is, Equals
<1>7. ProductsExact' /\ BitsExact' /\ DivisionExact'
  BY <1>1, <1>5 DEF ProductsExact, BitsExact, DivisionExact, Is
<1> QED BY <1>5, <1>6, <1>7 DEF IntegersExact

\* Multiply returns products.
LEMMA ProductsReturned ==
  ASSUME call \in NumberCalls, Multiply
  PROVE  IntegersExact' /\ call' = call
<1> DEFINE u == call.x
           v == call.y
           r == [signed |-> {ct_mul(X, Y), vt_mul(X, Y)},
                 limbs |-> {mag_mul(X.limbs, Y.limbs), mag_mul_comba(X.limbs, Y.limbs),
                            mag_mul_4_adx(X.limbs, Y.limbs)}]
<1>1. call.op = "mul" /\ Return(r)
  BY DEF Multiply, Pending
<1>2. u \in Signed /\ v \in Signed
  BY <1>1, PairCalls
<1>3. /\ \A i \in r.signed : Equals(i, u * v)
      /\ \A l \in r.limbs : Value(l) = Magnitude(u * v) % Capacity
  <2> DEFINE x == BigOf(u, N)
             y == BigOf(v, N)
  <2>1. /\ Equals(ct_mul(x, y), u * v) /\ vt_mul(x, y) = ct_mul(x, y)
        /\ Value(mag_mul(x.limbs, y.limbs)) = Magnitude(u * v) % Capacity
        /\ mag_mul_comba(x.limbs, y.limbs) = mag_mul(x.limbs, y.limbs)
        /\ mag_mul_4_adx(x.limbs, y.limbs) = mag_mul(x.limbs, y.limbs)
    <3> HIDE DEF u, v
    <3> QED BY <1>2, ProductsKept
  <2>2. X = x /\ Y = y
    BY DEF X, Y
  <2> QED BY <2>1, <2>2
<1> HIDE DEF r
<1>4. call' = call /\ Res' = r
  BY <1>1, Returned
<1>5. ProductsExact'
  BY <1>1, <1>3, <1>4 DEF ProductsExact, Is, Equals
<1>6. SumsExact' /\ BitsExact' /\ DivisionExact'
  BY <1>1, <1>4 DEF SumsExact, BitsExact, DivisionExact, Is
<1> QED BY <1>4, <1>5, <1>6 DEF IntegersExact

\* Square returns squares.
LEMMA SquaresReturned ==
  ASSUME call \in NumberCalls, Square
  PROVE  IntegersExact' /\ call' = call
<1> DEFINE a == call.a
           r == {mag_sqr(a), mag_sqr_4_adx(a), mag_mul(a, a)}
<1>1. call.op = "square" /\ Return(r)
  BY DEF Square, Pending
<1>2. a \in [0 .. 3 -> LimbValues]
  BY <1>1, SquareCalls
<1>3. \A l \in r : Value(l) = (Value(a) * Value(a)) % Weight(4)
  <2> HIDE DEF a
  <2> QED BY <1>2, SquaresKept
<1> HIDE DEF r
<1>4. call' = call /\ Res' = r
  BY <1>1, Returned
<1>5. ProductsExact'
  BY <1>1, <1>3, <1>4 DEF ProductsExact, Is, Equals
<1>6. SumsExact' /\ BitsExact' /\ DivisionExact'
  BY <1>1, <1>4 DEF SumsExact, BitsExact, DivisionExact, Is
<1> QED BY <1>4, <1>5, <1>6 DEF IntegersExact

\* Shift returns shifts and lengths.
LEMMA ShiftsReturned ==
  ASSUME call \in NumberCalls, Shift
  PROVE  IntegersExact' /\ call' = call
<1> DEFINE u == call.x
           s == call.s
           r == [left |-> shl(X, s), right |-> shr(X, s),
                 bits |-> mag_bitsize(X.limbs), zeros |-> mag_trailing_zeros(X.limbs)]
<1>1. call.op = "shift" /\ Return(r)
  BY DEF Shift, Pending
<1>2. u \in Signed /\ s \in Nat
  <2>1. u \in Signed /\ s \in 0 .. LimbBits * N
    BY <1>1, ShiftCalls
  <2> QED BY <2>1
<1>3. /\ Value(r.left.limbs) = (Magnitude(u) * 2^s) % Capacity
      /\ Equals(r.right, IF u < 0 THEN - (Magnitude(u) \div 2^s) ELSE u \div 2^s)
      /\ Magnitude(u) < 2^r.bits
      /\ u # 0 => /\ Magnitude(u) >= 2^(r.bits - 1)
                  /\ u % 2^r.zeros = 0 /\ (u \div 2^r.zeros) % 2 = 1
  <2> DEFINE x == BigOf(u, N)
  <2>1. /\ Value(shl(x, s).limbs) = (Magnitude(u) * 2^s) % Capacity
        /\ Equals(shr(x, s), IF u < 0 THEN - (Magnitude(u) \div 2^s) ELSE u \div 2^s)
    <3> HIDE DEF u, s
    <3> QED BY <1>2, ShiftsKept
  <2>2. X = x
    BY DEF X
  <2> DEFINE bits == mag_bitsize(x.limbs)
             zeros == mag_trailing_zeros(x.limbs)
  <2>3. /\ Magnitude(u) < 2^bits
        /\ u # 0 => /\ Magnitude(u) >= 2^(bits - 1)
                    /\ u % 2^zeros = 0 /\ (u \div 2^zeros) % 2 = 1
    <3> HIDE DEF u
    <3> QED BY <1>2, BitsKept
  <2>4. r.left = shl(x, s) /\ r.right = shr(x, s) /\ r.bits = bits /\ r.zeros = zeros
    BY <2>2
  <2> HIDE DEF r, bits, zeros, u, s, x
  <2> QED BY <2>1, <2>3, <2>4
<1> HIDE DEF r
<1>4. call' = call /\ Res' = r
  BY <1>1, Returned
<1>5. BitsExact'
  BY <1>1, <1>3, <1>4 DEF BitsExact, Is, Equals
<1>6. SumsExact' /\ ProductsExact' /\ DivisionExact'
  BY <1>1, <1>4 DEF SumsExact, ProductsExact, DivisionExact, Is
<1> QED BY <1>4, <1>5, <1>6 DEF IntegersExact

\* Resize returns the integer, or nothing.
LEMMA ResizeReturned ==
  ASSUME call \in NumberCalls, Resize
  PROVE  IntegersExact' /\ call' = call
<1> DEFINE u == call.x
           m == call.n
           r == narrow_to(X, m)
<1>1. call.op = "resize" /\ Return(r)
  BY DEF Resize, Pending
<1>2. u \in Signed /\ m \in 1 .. N
  BY <1>1, ResizeCalls
<1>3. IF Magnitude(u) < Weight(m) THEN IntOf(r) = u ELSE r = NoBig
  <2>1. r = narrow_to(BigOf(u, N), m)
    BY DEF X
  <2> HIDE DEF r, u, m
  <2> QED BY <1>2, <2>1, ResizeKept
<1> HIDE DEF r
<1>4. call' = call /\ Res' = r
  BY <1>1, Returned
<1>5. BitsExact'
  BY <1>1, <1>3, <1>4 DEF BitsExact, Is, Equals
<1>6. SumsExact' /\ ProductsExact' /\ DivisionExact'
  BY <1>1, <1>4 DEF SumsExact, ProductsExact, DivisionExact, Is
<1> QED BY <1>4, <1>5, <1>6 DEF IntegersExact

\* Decode returns the integer in two's complement.
LEMMA DecodeReturned ==
  ASSUME call \in NumberCalls, Decode
  PROVE  IntegersExact' /\ call' = call
<1> DEFINE b == call.bytes
           r == from_bytes_le_signed(b, N)
           n == Len(b)
           v == Value([i \in 0 .. n - 1 |-> b[i + 1]])
<1>1. call.op = "decode" /\ Return(r)
  BY DEF Decode, Pending
<1>2. b \in [1 .. N - 1 -> LimbValues] \cup [1 .. N -> LimbValues]
  BY <1>1, DecodeCalls
<1>3. IntOf(r) = IF v >= Weight(n) \div 2 THEN v - Weight(n) ELSE v
  <2> HIDE DEF b
  <2> QED BY <1>2, DecodeKept
<1> HIDE DEF r
<1>4. call' = call /\ Res' = r
  BY <1>1, Returned
<1>5. BitsExact'
  BY <1>1, <1>3, <1>4 DEF BitsExact, Is, Equals
<1>6. SumsExact' /\ ProductsExact' /\ DivisionExact'
  BY <1>1, <1>4 DEF SumsExact, ProductsExact, DivisionExact, Is
<1> QED BY <1>4, <1>5, <1>6 DEF IntegersExact

\* Divide returns quotients and remainders.
LEMMA DivisionReturned ==
  ASSUME call \in NumberCalls, Divide
  PROVE  IntegersExact' /\ call' = call
<1> DEFINE u == call.x
           v == call.y
           qr == vt_div_rem(X, Y)
           w == mag_div_rem_bitwise(X.limbs, Y.limbs)
           r == [q |-> qr.q, r |-> qr.r, bitwise |-> w]
<1>1. call.op = "div" /\ Return(r)
  BY DEF Divide, Pending
<1>2. u \in Signed /\ v \in Signed /\ v # 0
  BY <1>1, DivCalls
<1>3. Euclidean(qr, u, v) /\ Value(w.q) = Magnitude(u) \div Magnitude(v) /\ Value(w.r) = Magnitude(u) % Magnitude(v)
  <2>1. X = BigOf(u, N) /\ Y = BigOf(v, N)
    BY DEF X, Y
  <2> HIDE DEF u, v
  <2> QED BY <1>2, <2>1, DivisionKept
<1> HIDE DEF qr, w
<1>4. /\ IntOf(r.q) * v + IntOf(r.r) = u
      /\ IntOf(r.r) \in 0 .. Magnitude(v) - 1
      /\ r.q = Canonical(r.q.sign, r.q.limbs)
      /\ Value(r.bitwise.q) = Magnitude(u) \div Magnitude(v)
      /\ Value(r.bitwise.r) = Magnitude(u) % Magnitude(v)
  BY <1>3 DEF Euclidean, Rounded
<1> HIDE DEF r
<1>5. call' = call /\ Res' = r
  BY <1>1, Returned
<1>6. DivisionExact'
  BY <1>1, <1>4, <1>5 DEF DivisionExact, Is, Equals
<1>7. SumsExact' /\ ProductsExact' /\ BitsExact'
  BY <1>1, <1>5 DEF SumsExact, ProductsExact, BitsExact, Is
<1> QED BY <1>5, <1>6, <1>7 DEF IntegersExact

\* The operations whose results are about something else.
OtherCall ==
    call.op \in {"xgcd", "stein", "lehmer", "mont", "mont_square", "newton", "pow", "root", "cornacchia",
                 "sqrt", "prime", "sample"}

\* Nothing is said of them.
LEMMA OtherStep ==
  ASSUME OtherCall, call' = call
  PROVE  IntegersExact'
BY DEF OtherCall, IntegersExact, SumsExact, ProductsExact, BitsExact, DivisionExact, Is

\* Every other action is a step of one of them.
LEMMA OtherActions ==
  ASSUME GcdOfZero \/ Stein \/ Lehmer \/ Xgcd \/ Loops \/ MontMul \/ MontSquare \/ Newton \/ PowMod \/ Roots
         \/ Cornacchia \/ SqrtPow \/ Primality \/ Sample
  PROVE  OtherCall /\ call' = call
<1>1. CASE GcdOfZero
  BY <1>1 DEF GcdOfZero, OtherCall, Pending, Return
<1>2. CASE Stein
  BY <1>2 DEF Stein, OtherCall, Pending, GoOn
<1>3. CASE Lehmer
  BY <1>3 DEF Lehmer, OtherCall, Pending, GoOn
<1>4. CASE Xgcd
  BY <1>4 DEF Xgcd, OtherCall, Pending, GoOn
<1>5. CASE SteinLoop
  BY <1>5 DEF SteinLoop, OtherCall, Running, GoOn, Return
<1>6. CASE LehmerLoop
  BY <1>6 DEF LehmerLoop, OtherCall, Running, GoOn, Return
<1>7. CASE XgcdLoop
  BY <1>7 DEF XgcdLoop, OtherCall, Running, GoOn, Return
<1>8. CASE MontMul
  BY <1>8 DEF MontMul, OtherCall, Pending, Return
<1>9. CASE MontSquare
  BY <1>9 DEF MontSquare, OtherCall, Pending, Return
<1>10. CASE Newton
  BY <1>10 DEF Newton, OtherCall, Pending, Return
<1>11. CASE PowMod
  BY <1>11 DEF PowMod, OtherCall, Pending, Return
<1>12. CASE Roots
  BY <1>12 DEF Roots, OtherCall, Pending, Return
<1>13. CASE Cornacchia
  BY <1>13 DEF Cornacchia, OtherCall, Pending, Return
<1>14. CASE SqrtPow
  BY <1>14 DEF SqrtPow, OtherCall, Pending, Return
<1>15. CASE Primality
  BY <1>15 DEF Primality, OtherCall, Pending, Return
<1>16. CASE Sample
  BY <1>16 DEF Sample, OtherCall, Pending, Return
<1> QED BY <1>1, <1>2, <1>3, <1>4, <1>5, <1>6, <1>7, <1>8, <1>9, <1>10, <1>11, <1>12, <1>13, <1>14, <1>15, <1>16 DEF Loops

\* No operation is called "none".
LEMMA CallsNamed ==
  ASSUME NEW c \in NumberCalls
  PROVE  c.op # "none"
BY DEF NumberCalls, IntegerCalls, ModularCalls, Pairs

\* Before a result there is nothing to be exact.
LEMMA NothingYet ==
  ASSUME result' = NoResult
  PROVE  IntegersExact'
BY DEF IntegersExact, SumsExact, ProductsExact, BitsExact, DivisionExact, Is

\* Every operation of NumbersStep keeps the results exact.
LEMMA NumbersStepKeeps ==
  ASSUME NumbersInv, NumbersStep
  PROVE  NumbersInv'
<1>1. call \in NumberCalls
  <2>1. call.op # "none"
    <3>1. CASE AddSub \/ Multiply \/ Square \/ MacSum \/ Shift \/ Resize \/ Decode \/ Divide
      BY <3>1 DEF AddSub, Multiply, Square, MacSum, Shift, Resize, Decode, Divide, Pending
    <3>2. CASE OtherCall
      BY <3>2 DEF OtherCall
    <3> QED BY <3>1, <3>2, OtherActions DEF NumbersStep
  <2> QED BY <2>1 DEF NumbersInv, NoCall
<1>2. IntegersExact' /\ call' = call
  <2>1. CASE AddSub
    BY <1>1, <2>1, SumsReturned
  <2>2. CASE Multiply
    BY <1>1, <2>2, ProductsReturned
  <2>3. CASE Square
    BY <1>1, <2>3, SquaresReturned
  <2>4. CASE MacSum
    BY <1>1, <2>4, MacReturned
  <2>5. CASE Shift
    BY <1>1, <2>5, ShiftsReturned
  <2>6. CASE Resize
    BY <1>1, <2>6, ResizeReturned
  <2>7. CASE Decode
    BY <1>1, <2>7, DecodeReturned
  <2>8. CASE Divide
    BY <1>1, <2>8, DivisionReturned
  <2>9. CASE OtherCall /\ call' = call
    BY <2>9, OtherStep
  <2> QED BY <2>1, <2>2, <2>3, <2>4, <2>5, <2>6, <2>7, <2>8, <2>9, OtherActions DEF NumbersStep
<1>3. call' # NoCall
  BY <1>1, <1>2, CallsNamed DEF NoCall
<1> QED BY <1>1, <1>2, <1>3 DEF NumbersInv

\* A call and the taking of a result leave nothing returned; the rest of a loop changes no result.
LEMMA ThreadKeeps ==
  ASSUME NumbersInv, CallOne(NumberCalls) \/ Take \/ UNCHANGED threadVars
  PROVE  NumbersInv'
<1>1. CASE CallOne(NumberCalls)
  <2>1. call' \in NumberCalls /\ result' = NoResult
    BY <1>1 DEF CallOne, NumbersInv
  <2> QED BY <2>1, NothingYet DEF NumbersInv
<1>2. CASE Take
  <2>1. call' = NoCall /\ result' = NoResult
    BY <1>2 DEF Take
  <2> QED BY <2>1, NothingYet DEF NumbersInv
<1>3. CASE UNCHANGED threadVars
  <2>1. call' = call /\ result' = result
    BY <1>3 DEF threadVars
  <2>2. IntegersExact'
    BY <2>1 DEF NumbersInv, IntegersExact, SumsExact, ProductsExact, BitsExact, DivisionExact, Is, Res, Equals
  <2> QED BY <2>1, <2>2 DEF NumbersInv
<1> QED BY <1>1, <1>2, <1>3

\* Sums, products, shifts, conversions and divisions of multi-limb integers
\* are exact, for every number of limbs, of bits in a limb and of operands:
\* mag_add, mag_sub, the kernels of mag_mul and mag_sqr, mac_sum, the shifts,
\* narrow_to, from_bytes_le_signed and both divisions of BigInt.
THEOREM IntegersAreExact == NumbersSpec => []IntegersExact
<1>1. ThreadInit => NumbersInv
  <2> SUFFICES ASSUME ThreadInit PROVE NumbersInv
    OBVIOUS
  <2>1. call = NoCall /\ result = NoResult
    BY DEF ThreadInit
  <2>2. IntegersExact
    BY <2>1 DEF IntegersExact, SumsExact, ProductsExact, BitsExact, DivisionExact, Is
  <2> QED BY <2>1, <2>2 DEF NumbersInv
<1>2. NumbersInv /\ [CallOne(NumberCalls) \/ NumbersStep \/ Take]_threadVars => NumbersInv'
  BY NumbersStepKeeps, ThreadKeeps
<1>3. NumbersInv => IntegersExact
  BY DEF NumbersInv
<1> QED BY <1>1, <1>2, <1>3, PTL DEF NumbersSpec

=============================================================================
