--------------------------- MODULE MontgomeryCurve --------------------------
(***************************************************************************)
(* The field F_{p^2} and the Montgomery curves y^2 = x^3 + A x^2 + x over  *)
(* it, formula by formula (src/fields/fp2, src/curves/montgomery and       *)
(* src/curves/isogeny).  An element a + b i is <<a, b>>, a point known by  *)
(* its x is <<X, Z>>, a Jacobian point <<X, Y, Z>>; the curve that a point *)
(* carries in the code is an operand here.                                 *)
(***************************************************************************)
EXTENDS Integers, Tables

CONSTANT EvenPower      \* TORSION_EVEN_POWER, 248 in the code

p == 5 * 2^EvenPower - 1

ASSUME EvenPowerAssumption ==
    EvenPower \in Nat \ {0, 1} /\ \A d \in 2 .. p - 1 : d * d <= p => p % d # 0

\* x^n in F_p.
PowerModP(x, n) ==
    LET power[k \in 0 .. n] ==
            IF k = 0 THEN 1
            ELSE LET half == power[k \div 2] IN (((half * half) % p) * (IF k % 2 = 1 THEN x ELSE 1)) % p
    IN  power[n]

InverseOf == Table([x \in 0 .. p - 1 |-> PowerModP(x, p - 2)])
P3Div4Of == Table([x \in 0 .. p - 1 |-> PowerModP(x, (p - 3) \div 4)])

-----------------------------------------------------------------------------
(* F_{p^2} *)

Fp2Zero == <<0, 0>>
Fp2One == <<1, 0>>
FromFp(n) == <<n % p, 0>>

Fp2Add(x, y) == <<(x[1] + y[1]) % p, (x[2] + y[2]) % p>>
Fp2Sub(x, y) == <<(x[1] - y[1]) % p, (x[2] - y[2]) % p>>
Fp2Neg(x) == <<(- x[1]) % p, (- x[2]) % p>>
Fp2Mul(x, y) == <<(x[1] * y[1] - x[2] * y[2]) % p, (x[1] * y[2] + x[2] * y[1]) % p>>
Fp2Square(x) == <<((x[1] + x[2]) * (x[1] - x[2])) % p, (2 * x[1] * x[2]) % p>>
Fp2Conjugate(x) == <<x[1], (- x[2]) % p>>
Fp2Norm(x) == (x[1] * x[1] + x[2] * x[2]) % p
Fp2Invert(x) == LET n == InverseOf[Fp2Norm(x)] IN <<(x[1] * n) % p, (- x[2] * n) % p>>

x ++ y == Fp2Add(x, y)
x -- y == Fp2Sub(x, y)
x ** y == Fp2Mul(x, y)
Twice(x) == x ++ x
FourTimes(x) == Twice(Twice(x))
x // y == x ** Fp2Invert(y)

IsSquareInFp(n) == n = 0 \/ (P3Div4Of[n] * ((P3Div4Of[n] * n) % p)) % p = 1
Fp2IsSquare(x) == IsSquareInFp(Fp2Norm(x))

\* Of r and -r, the one that is even.
EvenRoot(r) ==
    IF r[1] % 2 = 1 \/ (r[1] = 0 /\ r[2] % 2 = 1) THEN Fp2Neg(r) ELSE r

\* With the root delta of the norm, x0 is (re + delta) and t0 twice that.
NormRoot(n) == (n * P3Div4Of[n]) % p
\* Mutant: the root of the other case keeps its sign.
MutRootOrTwist(t0, re, im) == EvenRoot(IF (4 * re * re) % p = t0 THEN <<re, im>> ELSE <<im, re>>)

RootOrTwist(t0, re, im) == EvenRoot(IF (4 * re * re) % p = t0 THEN <<re, im>> ELSE <<im, (- re) % p>>)
RootFromSum(x0, t0, x1, im) == RootOrTwist(t0, (x0 * x1) % p, (im * x1) % p)
RootOfSum(x0, im) == RootFromSum(x0, (2 * x0) % p, P3Div4Of[(2 * x0) % p], im)
Fp2Sqrt(x) == RootOfSum((x[1] + NormRoot(Fp2Norm(x))) % p, x[2])

-----------------------------------------------------------------------------
(* A curve in its three representations at once: the coefficient, A : C,   *)
(* and A + 2C : 4C.                                                        *)

DoublingOf(A, C) == <<(A ++ Twice(C)) // FourTimes(C), Fp2One>>
ProjectiveOf(A24, C24) == <<FourTimes(A24) -- Twice(C24), C24>>

FromCoefficient(A) ==
    [affine |-> A, projective |-> <<A, Fp2One>>, doubling |-> DoublingOf(A, Fp2One)]
FromProjective(A, C) ==
    [affine |-> A // C, projective |-> <<A, C>>, doubling |-> DoublingOf(A, C)]
FromDoubling(A24, C24) ==
    [affine |-> (FourTimes(A24) // C24) -- FromFp(2), projective |-> ProjectiveOf(A24, C24),
     doubling |-> <<A24, C24>>]

E0 == [affine |-> Fp2Zero, projective |-> <<Fp2Zero, Fp2One>>, doubling |-> <<<<InverseOf[2], 0>>, Fp2One>>]

Normalized(E) == [E EXCEPT !.doubling = IF @[2] = Fp2One THEN @ ELSE <<@[1] // @[2], Fp2One>>]

IsSingular(A) == A \in {FromFp(2), FromFp(-2)}

Cubed(x) == Fp2Square(x) ** x
JInvariant(E) ==
    LET square == Fp2Square(E.affine)
    IN  (FromFp(256) ** Cubed(square -- FromFp(3))) // (square -- FromFp(4))

\* The right-hand side of the equation, and a root of it.
RightSide(E, x) == Cubed(x) ++ (Fp2Square(x) ** E.affine) ++ x
NoRoot == << >>
RootIfSquare(r) == IF Fp2IsSquare(r) THEN Fp2Sqrt(r) ELSE NoRoot
RecoverY(E, x) == RootIfSquare(RightSide(E, x))

\* The isomorphism between curves of one j-invariant, and its value at a
\* point; none where a factor vanishes.
NoIsomorphism == << >>
NineTimes(x) == FourTimes(Twice(x)) ++ x
ThreeTimes(x) == Twice(x) ++ x
IsomorphismTo(E, F) ==
    LET a == E.projective[1]
        c == E.projective[2]
        b == F.projective[1]
        d == F.projective[2]
        Left(u, v) == Twice(Cubed(u)) -- NineTimes(u ** Fp2Square(v))
        Right(u, v) == ThreeTimes(Cubed(v)) -- (Fp2Square(u) ** v)
        Isomorphism(m) == IF Fp2Zero \in {m.lambdaX, m.lambdaZ} THEN NoIsomorphism ELSE m
    IN  Isomorphism([lambdaX |-> Left(b, d) ** Right(a, c), lambdaZ |-> Left(a, c) ** Right(b, d),
                     three |-> ThreeTimes(c ** d), ad |-> a ** d, bc |-> b ** c])

EvalIsomorphism(m, P) ==
    <<(m.lambdaX ** ((m.three ** P[1]) ++ (m.ad ** P[2]))) -- (m.lambdaZ ** (m.bc ** P[2])),
      m.lambdaZ ** (m.three ** P[2])>>

-----------------------------------------------------------------------------
(* Points known by their x *)

Identity1 == <<Fp2One, Fp2Zero>>
AffineXOf(P) == P[1] // P[2]
FromAffineX(x) == <<x, Fp2One>>
IsIdentity(P) == P[2] = Fp2Zero
SamePoint(P, Q) == P[1] ** Q[2] = Q[1] ** P[2]

DoubleFrom(t0, t1c, t2, a24) == <<t0 ** t1c, t2 ** ((t2 ** a24) ++ t1c)>>
DoubleBy(a24, c24, P) ==
    LET t0 == Fp2Square(P[1] ++ P[2])
        t1 == Fp2Square(P[1] -- P[2])
    IN  DoubleFrom(t0, t1 ** c24, t0 -- t1, a24)

Double(E, P) == DoubleBy(E.doubling[1], E.doubling[2], P)
DoubleUnnormalized(E, P) ==
    DoubleBy(E.projective[1] ++ Twice(E.projective[2]), FourTimes(E.projective[2]), P)
DoubleE0(P) == DoubleBy(Fp2One, FromFp(2), P)

DifferentialAdd(P, Q, difference) ==
    LET t0 == (P[1] ++ P[2]) ** (Q[1] -- Q[2])
        t1 == (P[1] -- P[2]) ** (Q[1] ++ Q[2])
    IN  <<difference[2] ** Fp2Square(t0 ++ t1), difference[1] ** Fp2Square(t0 -- t1)>>

\* The quadratic whose roots are the x of the sum and that of the difference,
\* scaled by gamma; one of them is taken.
DifferenceQuadratic(E, P, Q) ==
    LET Quadratic(gamma, xx, zz, xz, zx) ==
            [XX |-> gamma ** Fp2Square(xx -- zz), ZZ |-> gamma ** Fp2Square(xz -- zx),
             XZ |-> gamma ** (((xx ++ zz) ** (xz ++ zx)) ++ (Twice(E.affine) ** (xx ** zz)))]
    IN  Quadratic(Fp2Square(Fp2Conjugate(P[2])) ** Fp2Square(Fp2Conjugate(Q[2])),
                  P[1] ** Q[1], P[2] ** Q[2], P[1] ** Q[2], P[2] ** Q[1])
Discriminant(b) == Fp2Square(b.XZ) -- (b.XX ** b.ZZ)

DifferenceFrom(b) == <<Fp2Sqrt(Discriminant(b)) ++ b.XZ, b.ZZ>>
ProjectiveDifference(E, P, Q) == DifferenceFrom(DifferenceQuadratic(E, P, Q))

\* The ladder, over the bits of n from bit bits - 1 down: [n]P.
Exchange(bit, pair) == IF bit = 1 THEN <<pair[2], pair[1]>> ELSE pair
DoubleAndAdd(E, P, pair) == <<Double(E, pair[1]), DifferentialAdd(pair[1], pair[2], P)>>
LadderStep(E, P, bit, pair) == Exchange(bit, DoubleAndAdd(E, P, Exchange(bit, pair)))
ScalarMul(E, P, n, bits) ==
    LET pair[i \in 0 .. bits] ==      \* once the bits above i are read
            IF i = bits THEN <<Identity1, P>> ELSE LadderStep(E, P, (n \div 2^i) % 2, pair[i + 1])
    IN  pair[0][1]

\* Multiplication by (p + 1) / 2^EvenPower.
ClearCofactor(E, P) == ScalarMul(E, P, 5, 3)

-----------------------------------------------------------------------------
(* Jacobian points *)

JacobianDouble(E, P) ==
    LET zz == Fp2Square(P[3])
        m == ThreeTimes(Fp2Square(P[1])) ++ (((Twice(E.affine) ** P[1]) ++ zz) ** zz)
        dx == Twice(P[2])
        dy == P[3] ** m
        dd == Fp2Square(dx)
        u == P[1] ** zz
        v == P[2] ** (zz ** P[3])
        x3 == Fp2Square(dy) -- (dd ** ((E.affine ** Fp2Square(zz)) ++ Twice(u)))
    IN  <<x3, (dy ** ((u ** dd) -- x3)) -- (v ** (dd ** dx)), dx ** zz>>

DoubleForTheta(E, P) ==
    LET zz == Fp2Square(P[3])
        alpha == ThreeTimes(Fp2Square(P[1])) ++ (zz ** (zz ++ Twice(E.affine ** P[1])))
        z3 == Twice(P[2] ** P[3])
        twoYY == Twice(Fp2Square(P[2]))
        fourXYY == twoYY ** Twice(P[1])
        x3 == Fp2Square(alpha) -- (E.affine ** Fp2Square(z3)) -- Twice(fourXYY)
    IN  <<x3, (alpha ** (fourXYY -- x3)) -- Twice(Fp2Square(twoYY)), z3>>

\* The pair that the code names the sum and the difference.
XAddSub(E, P, Q) ==
    LET z1 == Fp2Square(P[3])
        z2 == Fp2Square(Q[3])
        x1 == P[1] ** z2
        x2 == Q[1] ** z1
        y1 == P[2] ** Q[3] ** z2
        y2 == P[3] ** Q[2] ** z1
        zz == z1 ** z2
        v == Twice(y1 ** y2)
        square == Fp2Square(x1 -- x2)
        u == (Fp2Square(y1) ++ Fp2Square(y2)) -- ((x1 ++ x2 ++ (E.affine ** zz)) ** square)
        w == square ** zz
    IN  [sum |-> <<u ++ v, w>>, difference |-> <<u -- v, w>>]

XOnly(P) == <<P[1], Fp2Square(P[3])>>

\* The Jacobian points of which the slots P and PmQ have the x: the sign of
\* the first is free, and the second follows from the slot Q.
NoPoints == << >>
\* Mutant: the slot Q holds the sum.
MutSecondNumerator(A, d, q, x, v1, twoAZ) ==
    ((((d[1] ++ v1 ++ twoAZ) ** ((x ** d[1]) ++ d[2])) -- (twoAZ ** d[2])) ** q[2])
        -- (Fp2Square(d[1] -- v1) ** q[1])

SecondNumerator(A, d, q, x, v1, twoAZ) ==
    (Fp2Square(d[1] -- v1) ** q[1])
        -- ((((d[1] ++ v1 ++ twoAZ) ** ((x ** d[1]) ++ d[2])) -- (twoAZ ** d[2])) ** q[2])
Second(d, numerator, w, z) == <<d[1] ** w ** z, numerator ** Fp2Square(z), z>>
LiftFrom(A, b, x, y) ==
    LET d == b.PmQ
        w == Twice(y) ** d[2] ** b.Q[2]
    IN  IF y = NoRoot THEN NoPoints
        ELSE << <<x, y, Fp2One>>,
                Second(d, SecondNumerator(A, d, b.Q, x, x ** d[2], Twice(A) ** d[2]), w, d[2] ** w) >>
Lift(E, b) == LET x == AffineXOf(b.P) IN LiftFrom(E.affine, b, x, RecoverY(E, x))

-----------------------------------------------------------------------------
(* Isogenies of degree two and four: the codomain, and what Eval needs. *)

TwoIsogeny(K) ==
    LET zz == Fp2Square(K[2])
    IN  [degree |-> "two", codomain |-> FromDoubling(zz -- Fp2Square(K[1]), zz), kernel |-> K]

EvalTwo(phi, Q) ==
    LET t0 == (phi.kernel[1] ++ phi.kernel[2]) ** (Q[1] -- Q[2])
        t1 == (phi.kernel[1] -- phi.kernel[2]) ** (Q[1] ++ Q[2])
    IN  <<Q[1] ** (t0 ++ t1), Q[2] ** (t0 -- t1)>>

\* The kernel is (0, 0).
SingularFrom(c1, root) ==
    [degree |-> "singular", c0 |-> Fp2Neg(root), c1 |-> c1,
     codomain |-> FromDoubling(Twice(c1) ++ Twice(root), FourTimes(root))]
SingularOf(c1) == SingularFrom(c1, Fp2Sqrt(Fp2Square(c1) -- FromFp(4)))
TwoIsogenySingular(E) == SingularOf(Twice(Twice(E.doubling[1]) -- E.doubling[2]) // E.doubling[2])

EvalSingular(phi, Q) ==
    <<Fp2Square(Q[2]) ++ ((Q[1] ++ (phi.c1 ** Q[2])) ** Q[1]), (Q[1] ** Q[2]) ** phi.c0>>

FourIsogeny(K) ==
    LET xx == Fp2Square(K[1])
        zz == Fp2Square(K[2])
    IN  [degree |-> "four", codomain |-> FromDoubling((zz ++ xx) ** (zz -- xx), Fp2Square(zz)),
         c0 |-> FourTimes(zz), c1 |-> K[1] -- K[2], c2 |-> K[1] ++ K[2]]

EvalFour(phi, Q) ==
    LET x == (Q[1] ++ Q[2]) ** phi.c1
        z == (Q[1] -- Q[2]) ** phi.c2
        t == (Q[1] ++ Q[2]) ** (Q[1] -- Q[2]) ** phi.c0
        plus == Fp2Square(x ++ z)
        minus == Fp2Square(x -- z)
    IN  <<(t ++ plus) ** plus, minus ** (t -- minus)>>

Eval(phi, Q) ==
    CASE phi.degree = "two"      -> EvalTwo(phi, Q)
      [] phi.degree = "singular" -> EvalSingular(phi, Q)
      [] phi.degree = "four"     -> EvalFour(phi, Q)
=============================================================================
