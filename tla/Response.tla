------------------------------ MODULE Response -----------------------------
(***************************************************************************)
(* The isogenies that signer and verifier build, and the kernels they are  *)
(* built from (src/keys/mod.rs, src/keys/signing/response/).               *)
(*                                                                         *)
(* A curve is its 2^F torsion (Torsion).  An odd isogeny carries the       *)
(* commitment basis over and coordinates with it, so E_com, E'_aux, F_1    *)
(* and E_aux share theirs; an even isogeny is the linear map with its      *)
(* kernel.  That the maps exist is left to the mathematics; what the code  *)
(* has to get right, and this module is about, are the points.             *)
(***************************************************************************)
EXTENDS Torsion

\* P_com, Q_com and their difference, in the slots the code puts them in.
ComBasis == FromPropagated(<<1, 0>>, Sub(<<1, 0>>, <<0, 1>>), <<0, 1>>)

\* The verifying key's basis, in its own coordinates.
PkBasis == FromPropagated(<<1, 0>>, <<0, 1>>, Sub(<<1, 0>>, <<0, 1>>))

\* Challenge::to_isogeny, the signer's: [2^n](P + [c]Q), the kernel of the
\* challenge isogeny.
ChallengeKernel(c, n) == DoubleN(n, Combine(1, PkBasis.P, c, PkBasis.PmQ))

DoubleBasis(n, b) == MapBasis(LAMBDA p : DoubleN(n, p), b)

\* Variant: the even part of the response has been forgotten.
MutReducedOrder(e, n) == e + 2

\* The order both bases are reduced to before the (2,2)-kernel is formed.
ReducedOrder(e, n) == e + 2 + n

\* SplitAuxiliaryKernel::from_bases: the kernel's two sides.
SplitKernel(com, aux, odd, e, n) ==
    LET o    == ReducedOrder(e, n)
        down == F - o
        qInv == InvMod2k(odd, o)
    IN  [com |-> MapBasis(LAMBDA p : Times(2^n, DoubleN(down, p)), com),
         aux |-> MapBasis(LAMBDA p : Times(2^n, Times(qInv, DoubleN(down, p))), aux)]

\* The commitment basis, pushed through the chain with zero on E'_aux.
Pushed(com, e, n) == DoubleBasis(F - ReducedOrder(e, n), com)

\* Two points that generate E[2^n], with their difference in the third slot.
IsBasisOf(b, n) ==
    /\ DoubleN(n, b.P) = O /\ DoubleN(n, b.PmQ) = O
    /\ n \in 1 .. F
    /\ \A i, j \in 0 .. 1 :
         DoubleN(n - 1, Combine(i, b.P, j, b.PmQ)) = O => i = 0 /\ j = 0
    /\ b.Q \in {Sub(b.P, b.PmQ), Combine(-1, b.P, 1, b.PmQ)}

\* A chain of e steps with its two extra levels takes this kernel apart.
Splits(k, odd, e) ==
    /\ IsBasisOf(k.com, e + 2)
    /\ k.com = MapBasis(LAMBDA p : Times(odd, p), k.aux)

\* A point of order 2^n is 2^(F-n) times one of full order.
Direction(k, n) == <<k[1] \div 2^(F - n), k[2] \div 2^(F - n)>>

\* The image of p under the 2^n-isogeny with kernel k, and the dual's of p.
EvenImage(k, n, p) ==
    LET v == Direction(k, n)
    IN  IF v[1] % 2 = 1
        THEN <<Times(2^n, p)[1], (p[2] - v[2] * InvMod2k(v[1], n) * p[1]) % 2^F>>
        ELSE <<(p[1] - v[1] * InvMod2k(v[2], n) * p[2]) % 2^F, Times(2^n, p)[2]>>

EvenDual(k, n, p) ==
    LET v == Direction(k, n)
    IN  IF v[1] % 2 = 1
        THEN <<p[1], (v[2] * InvMod2k(v[1], n) * p[1] + 2^n * p[2]) % 2^F>>
        ELSE <<(2^n * p[1] + v[1] * InvMod2k(v[2], n) * p[2]) % 2^F, p[2]>>

\* The matrices of a primitive alpha of norm divisible by 2^n on E_0[2^n].
Actions(n) ==
    {m \in [1 .. 2 -> [1 .. 2 -> 0 .. 2^n - 1]] :
        Det(m, n) = 0 /\ \E i, j \in 1 .. 2 : m[i][j] % 2 = 1}

\* Variant: the first column, whatever its parities.
MutEvenKernel(m, basis, e, n) ==
    LET b == DoubleBasis(e + 2, basis)
    IN  BiscalarMul(FromPropagated(b.P, b.Q, b.PmQ), m[1][1], m[2][1], n)

\* EvenResponseKernel::from_quaternion: the first column of the action
\* unless its greatest common divisor is even, and then the second.
EvenKernel(m, basis, e, n) ==
    LET c  == IF m[1][1] % 2 = 0 /\ m[2][1] % 2 = 0 THEN 2 ELSE 1
        b  == DoubleBasis(e + 2, basis)
    IN  BiscalarMul(FromPropagated(b.P, b.Q, b.PmQ), m[1][c], m[2][c], n)

Multiples(p, n) == {Times(i, p) : i \in 0 .. 2^n - 1}

\* Every point of the kernel of alpha's even part, on F_1.
AlphaKernel(m, basis, e, n) ==
    LET b == DoubleBasis(e + 2, basis)
    IN  {Combine(m[1][1] * i + m[1][2] * j, b.P, m[2][1] * i + m[2][2] * j, b.Q) :
            i, j \in 0 .. 2^n - 1}
=============================================================================
