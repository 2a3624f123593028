------------------------------ MODULE Torsion ------------------------------
(***************************************************************************)
(* Points of E[2^F], bases of it and change-of-basis matrices              *)
(* (src/curves/mod.rs).  A point is its pair of coordinates modulo 2^F in  *)
(* some fixed basis of the curve it lies on; field arithmetic is left out. *)
(*                                                                         *)
(* A TorsionBasis has the code's three slots.  The two that generate are P *)
(* and PmQ, and Q holds their difference: the layout of the specification  *)
(* of SQIsign, which every operation here reads by position.               *)
(***************************************************************************)
EXTENDS Integers

CONSTANT F     \* TORSION_EVEN_POWER

ASSUME FAssumption == F \in Nat \ {0}

Point == (0 .. 2^F - 1) \X (0 .. 2^F - 1)

\* [m]p + [n]q
Combine(m, p, n, q) ==
    <<(m * p[1] + n * q[1]) % 2^F, (m * p[2] + n * q[2]) % 2^F>>

O == <<0, 0>>
Times(n, p) == Combine(n, p, 0, O)
Sub(p, q) == Combine(1, p, -1, q)

\* n doublings.
DoubleN(n, p) == Times(2^n, p)

\* TorsionExponent::new takes it.
IsTorsionExponent(e) == e \in 0 .. F

\* p has order 2^n: the chain of n steps from it has a kernel of that order.
OfOrder(p, n) ==
    /\ n \in 0 .. F
    /\ DoubleN(n, p) = O
    /\ n > 0 => DoubleN(n - 1, p) # O

-----------------------------------------------------------------------------
Basis == [P : Point, PmQ : Point, Q : Point]

FromPropagated(P, PmQ, Q) == [P |-> P, PmQ |-> PmQ, Q |-> Q]

MapBasis(phi(_), b) == FromPropagated(phi(b.P), phi(b.PmQ), phi(b.Q))

\* [m]P + [n]PmQ, for scalars modulo 2^e.
BiscalarMul(b, m, n, e) == Combine(m % 2^e, b.P, n % 2^e, b.PmQ)

\* Inverse of an odd number.
InvMod2k(a, k) == CHOOSE x \in 0 .. 2^k - 1 : (a * x) % 2^k = 1 % 2^k

-----------------------------------------------------------------------------
(* Matrices are column-major: column 1 yields the new P, column 2 the new  *)
(* PmQ; a matrix that could not be computed is NoMatrix.                   *)

NoMatrix == << >>

Det(m, k) == (m[1][1] * m[2][2] - m[1][2] * m[2][1]) % 2^k

Invert(m, k) ==
    LET d == InvMod2k(Det(m, k), k)
    IN  << <<(m[2][2] * d) % 2^k, (-m[1][2] * d) % 2^k>>,
           <<(-m[2][1] * d) % 2^k, (m[1][1] * d) % 2^k>> >>

\* The matrix whose columns are the coordinates of p and q.
Columns(p, q) == << <<p[1], q[1]>>, <<p[2], q[2]>> >>

\* m applied to the column vector v.
Apply(m, v, k) ==
    <<(m[1][1] * v[1] + m[1][2] * v[2]) % 2^k, (m[2][1] * v[1] + m[2][2] * v[2]) % 2^k>>

\* Coordinates of reduced, of order 2^e, in the full-order basis canonical:
\* the five pairings and four discrete logarithms compute these.
FromBases(canonical, reduced, e) ==
    LET toCoords == Invert(Columns(canonical.P, canonical.PmQ), e)
        down(p)  == <<p[1] \div 2^(F - e), p[2] \div 2^(F - e)>>
    IN  Columns(Apply(toCoords, down(reduced.P), e), Apply(toCoords, down(reduced.PmQ), e))

FromBasesInvert(canonical, reduced, e) ==
    LET forward == FromBases(canonical, reduced, e)
    IN  IF Det(forward, e) % 2 = 0 THEN NoMatrix ELSE Invert(forward, e)

\* The basis the matrix takes b to, its difference computed from the
\* entries and never from the points.
MulBasis(m, e, b) ==
    FromPropagated(BiscalarMul(b, m[1][1], m[2][1], e),
                   BiscalarMul(b, m[1][2], m[2][2], e),
                   BiscalarMul(b, m[1][1] - m[1][2], m[2][1] - m[2][2], e))

EntriesBelowPow2(m, k) == \A i, j \in 1 .. 2 : m[i][j] < 2^k
=============================================================================
