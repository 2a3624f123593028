------------------------------- MODULE Pairing ------------------------------
(***************************************************************************)
(* Scalars, roots of unity with their discrete logarithms, and the Tate    *)
(* and Weil pairings by cubical arithmetic (src/curves/scalar and          *)
(* src/curves/pairing.rs).  A scalar is an array of four limbs of          *)
(* ScalarLimbBits bits, 64 in the code.                                    *)
(***************************************************************************)
EXTENDS MontgomeryCurve, FiniteSets, FiniteSetsExt

CONSTANTS ScalarLimbBits,
          Window      \* bits of a window of the discrete logarithm, 4 in the code

ASSUME PairingAssumption ==
    /\ ScalarLimbBits \in Nat /\ ScalarLimbBits >= 2 /\ 4 * ScalarLimbBits >= EvenPower
    /\ Window \in Nat \ {0} /\ ScalarLimbBits % Window = 0

Limb == INSTANCE Limbs WITH LimbBits <- ScalarLimbBits

-----------------------------------------------------------------------------
(* Scalars modulo 2^k: wrapping arithmetic on the limbs, then a mask. *)

ScalarBits == 4 * ScalarLimbBits
ScalarOfNat(n) == Limb!ToLimbs(n, 4)
ZeroScalar == ScalarOfNat(0)
NatOf(s) == Limb!Value(s)

\* Mutant: only whole limbs are masked.
MutReduceMod2k(s, k) ==
    LET full == k \div ScalarLimbBits
    IN  Table([i \in DOMAIN s |-> IF i <= full THEN s[i] ELSE 0])

ReduceMod2k(s, k) ==
    LET full == k \div ScalarLimbBits
    IN  Table([i \in DOMAIN s |-> IF i < full THEN s[i] ELSE IF i = full THEN s[i] % 2^(k % ScalarLimbBits) ELSE 0])

AddMod2k(s, t, k) == ReduceMod2k(Limb!mag_add(s, t).limbs, k)
SubMod2k(s, t, k) == ReduceMod2k(Limb!mag_sub(s, t).limbs, k)
MulMod2k(s, t, k) == ReduceMod2k(Limb!mag_mul(s, t), k)

\* Newton's iteration: each round doubles the bits that are right.
NoScalar == << >>
InvMod2k(s, k) ==
    LET Refined(x, bits) == MulMod2k(x, SubMod2k(ScalarOfNat(2), MulMod2k(s, x, bits), bits), bits)
        after[i \in 0 .. k] ==
            IF i = 0 THEN ScalarOfNat(1) ELSE Refined(after[i - 1], Min({2^i, k}))
    IN  IF s[0] % 2 = 0 THEN NoScalar ELSE after[Min({i \in 0 .. k : 2^i >= k})]

BitLength(s) == Limb!mag_bitsize(s)

\* A scalar of an integer: the complement of two of a negative one.
ScalarOfInt(n) ==
    IF n < 0 THEN SubMod2k(ZeroScalar, ScalarOfNat(-n), ScalarBits) ELSE ScalarOfNat(n)

-----------------------------------------------------------------------------
(* Roots of unity *)

SquareN(z, n) == LET square[i \in 0 .. n] == IF i = 0 THEN z ELSE Fp2Square(square[i - 1]) IN square[n]

RootPower(z, n) ==
    LET power[k \in 0 .. n] ==
            IF k = 0 THEN Fp2One
            ELSE LET half == Fp2Square(power[k \div 2]) IN IF k % 2 = 1 THEN half ** z ELSE half
    IN  power[n]

\* The exponent of target to the base z, of order 2^e: a window of bits at a
\* time from the lowest, each looked up in the table of the powers of order
\* 2^Window and then divided out.  An entry that is not found counts as zero.
Dlog(z, target, e) ==
    LET IndexOf(base, size, x) == Max({0} \cup {i \in 1 .. size - 1 : RootPower(base, i) = x})
        top == SquareN(z, Max({0, e - Window}))
        levels == e \div Window
        Put(k, at, index) == [k EXCEPT ![at \div ScalarLimbBits] = @ + index * 2^(at % ScalarLimbBits)]
        after[level \in 0 .. levels] ==
            IF level = 0 THEN [left |-> target, base |-> z, k |-> ZeroScalar]
            ELSE LET s == after[level - 1]
                     index == IndexOf(top, 2^Window, SquareN(s.left, e - level * Window))
                 IN  [left |-> s.left // RootPower(s.base, index), base |-> SquareN(s.base, Window),
                      k |-> Put(s.k, (level - 1) * Window, index)]
        last == after[levels]
        rest == e - levels * Window
    IN  IF rest = 0 THEN last.k
        ELSE Put(last.k, levels * Window, IndexOf(last.base, 2^rest, last.left))

-----------------------------------------------------------------------------
(* Cubical points, whose coordinates count and not only their ratio.  A    *)
(* translation by a point of order 2 is followed by a ratio that compares  *)
(* two representatives of one point.                                       *)

A24Of(E) == (E.affine ++ FromFp(2)) // FromFp(4)

CubicalDouble(a24, P) ==
    LET plus == Fp2Square(P[1] ++ P[2])
        minus == Fp2Square(P[1] -- P[2])
        c == plus -- minus
    IN  <<plus ** minus, c ** (minus ++ (a24 ** c))>>

CubicalAdd(P, Q, inverse) ==
    LET u == (P[1] ++ P[2]) ** (Q[1] -- Q[2])
        v == (P[1] -- P[2]) ** (Q[1] ++ Q[2])
    IN  <<Fp2Square(u ++ v) ** inverse, Fp2Square(u -- v)>>

\* Mutant: the products of the first coordinate are added.
MutTranslate(P, T) ==
    LET x == (T[1] ** P[1]) ++ (T[2] ** P[2])
        z == (T[2] ** P[1]) -- (T[1] ** P[2])
    IN  <<IF T[1] = Fp2Zero THEN Fp2Neg(x) ELSE x, IF T[2] = Fp2Zero THEN Fp2Neg(z) ELSE z>>

Translate(P, T) ==
    LET x == (T[1] ** P[1]) -- (T[2] ** P[2])
        z == (T[2] ** P[1]) -- (T[1] ** P[2])
    IN  <<IF T[1] = Fp2Zero THEN Fp2Neg(x) ELSE x, IF T[2] = Fp2Zero THEN Fp2Neg(z) ELSE z>>

Ratio(P, Q) == IF P[1] = Fp2Zero THEN Q[2] // P[2] ELSE Q[1] // P[1]

\* n rounds of the ladder on the multiples of R, and on the sum of R's
\* multiple with a point whose x has the inverse given.
CubicalLadder(a24, R, PR, inverse, n) ==
    LET round[i \in 0 .. n] ==
            IF i = 0 THEN [n |-> R, sum |-> PR]
            ELSE LET s == round[i - 1]
                 IN  [n |-> CubicalDouble(a24, s.n), sum |-> CubicalAdd(s.sum, s.n, inverse)]
    IN  round[n]

\* The power (p + 1) / 2^e.
ToRoot(x, e) == SquareN(SquareN(x, 2) ** x, EvenPower - e)

\* The reduced Tate pairing of P and Q, from their difference.
ReducedRatio(lambda, e) == ToRoot(Fp2Conjugate(lambda) // lambda, e)
TateRatio(s, xQ) ==
    Ratio(FromAffineX(xQ), Translate(s.sum, s.n)) // Ratio(Identity1, Translate(s.n, s.n))
TateFrom(a24, xP, xQ, xD, e) ==
    ReducedRatio(TateRatio(CubicalLadder(a24, FromAffineX(xP), FromAffineX(xD), Fp2Invert(xQ), e - 1), xQ), e)
Tate(E, b, e) == TateFrom(A24Of(E), AffineXOf(b.P), AffineXOf(b.Q), AffineXOf(b.PmQ), e)

Swapped(b) == [b EXCEPT !.P = b.Q, !.Q = b.P]
Quotient(t) == t[1] // t[2]
Weil(E, b, e) == Quotient([i \in 1 .. 2 |-> Tate(E, IF i = 1 THEN b ELSE Swapped(b), e)])

\* The pairings of a basis of full order with itself and with a reduced one,
\* whose generators are in the slots P and PmQ: of P and Q, P and R, R and Q,
\* P and S, S and Q.  Only one inversion is made, of the product of the five
\* denominators.
NoPairings == << >>
Inverted(xz) == <<xz[2], xz[1]>>
Monodromy(s, other) == <<Translate(s.n, s.n)[1] ** other, Translate(s.sum, s.n)[1]>>
MonodromyOf(E, x, sum, other, n) ==
    Monodromy(CubicalLadder(A24Of(E), FromAffineX(x), sum, Fp2Invert(other), n), other)
InvertedIf(inverted, xz) == IF inverted THEN Inverted(xz) ELSE xz
MonodromiesOf(E, xs, sums, asked, e) ==
    [i \in DOMAIN asked |->
        InvertedIf(i \in {3, 5}, MonodromyOf(E, xs[asked[i][1]], sums[asked[i][2]], xs[asked[i][3]],
                                            IF i = 1 THEN EvenPower - 1 ELSE e - 1))]
Monodromies(E, xs, sums, e) ==
    MonodromiesOf(E, xs, sums, << <<"P", "PQ", "Q">>, <<"R", "PR", "P">>, <<"R", "RQ", "Q">>,
                                  <<"S", "PS", "P">>, <<"S", "SQ", "Q">> >>, e)

ToRoots(raw, e) ==
    LET Denominator(xz) == xz[1] ** Fp2Conjugate(xz[2])
        known == \A i \in DOMAIN raw : Denominator(raw[i]) # Fp2Zero
    IN  [i \in DOMAIN raw |->
            ToRoot(IF known THEN (raw[i][2] ** Fp2Conjugate(raw[i][1])) // Denominator(raw[i]) ELSE Fp2Zero, e)]

CrossSums(E, xPQ, full, low) ==
    LET between == [PR |-> <<full[1], low[1]>>, RQ |-> <<low[1], full[2]>>,
                    PS |-> <<full[1], low[2]>>, SQ |-> <<low[2], full[2]>>]
    IN  [j \in DOMAIN between |-> XAddSub(E, between[j][1], between[j][2]).difference]
            @@ [PQ |-> FromAffineX(xPQ)]
CrossPairingsFrom(E, xs, xPQ, full, low, e) ==
    IF NoPoints \in {full, low} THEN NoPairings
    ELSE ToRoots(Monodromies(E, xs, CrossSums(E, xPQ, full, low), e), e)
CrossPairings(E, b, reduced, e) ==
    CrossPairingsFrom(E, [P |-> AffineXOf(b.P), Q |-> AffineXOf(b.PmQ), R |-> AffineXOf(reduced.P),
                          S |-> AffineXOf(reduced.PmQ)],
                      AffineXOf(b.Q), Lift(E, b), Lift(E, reduced), e)
=============================================================================
