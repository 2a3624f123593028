---------------------------- MODULE TorsionBases ----------------------------
(***************************************************************************)
(* Bases of E[2^EvenPower] on actual curves: the hint that names one, the  *)
(* matrix between two of them, and isogeny chains on their points          *)
(* (src/curves/mod.rs, src/curves/isogeny/mod.rs).  The slots P and PmQ of *)
(* a basis generate, and Q holds the difference.                           *)
(***************************************************************************)
EXTENDS Pairing, Sequences

CONSTANTS HintLimit,     \* the indices a hint can hold, 128 in the code
          MaxTries,      \* FIND_X_COORD_MAX_TRIES
          BasisE0P, BasisE0Q   \* the precomputed basis of E_0, by its x

TorsionBasis(P, PmQ, Q) == [P |-> P, PmQ |-> PmQ, Q |-> Q]
NoBasis == << >>

-----------------------------------------------------------------------------
(* Hints.  The x of the first point is n A, or - A / (1 + n i), of the     *)
(* least n at which it is on the curve and not a square; the hint holds n, *)
(* or zero where it does not fit.                                          *)

HintOf(hA, h) == h * 2 + hA
HintA(hint) == hint % 2
HintIndex(hint) == hint \div 2

IsOnCurve(x, A) == Fp2IsSquare((((x ++ A) ** x) ++ Fp2One) ** x)
SuitsAsX(x, A) == IsOnCurve(x, A) /\ ~Fp2IsSquare(x)
MultipleOf(A, n) == FromFp(n) ** A
FactorOf(A, n) == Fp2Neg(A) // <<1, n % p>>
CandidateX(A, hA, n) == IF hA = 1 THEN FactorOf(A, n) ELSE MultipleOf(A, n)

\* The first index of the search that starts at the one given.
NoIndex == 0
SearchFrom(A, hA, start) ==
    LET first[n \in start .. start + MaxTries] ==
            IF n = start + MaxTries THEN NoIndex
            ELSE IF SuitsAsX(CandidateX(A, hA, n), A) THEN n ELSE first[n + 1]
    IN  first[start]

BasisWith(E, P, Q) == TorsionBasis(P, ProjectiveDifference(E, P, Q), Q)
BasisFrom(E, xP, xQ) ==
    BasisWith(E, ClearCofactor(E, FromAffineX(xP)), ClearCofactor(E, FromAffineX(xQ)))
BasisAt(E, x) == BasisFrom(E, x, Fp2Neg(E.affine ++ x))

PrecomputedBasis(E) == BasisWith(E, FromAffineX(BasisE0P), FromAffineX(BasisE0Q))

FromIndex(E, hA, n) ==
    IF E.affine = Fp2Zero THEN PrecomputedBasis(E)
    ELSE IF n = NoIndex THEN NoBasis
    ELSE BasisAt(E, CandidateX(E.affine, hA, n))
from_hint(E, hint) ==
    FromIndex(Normalized(E), HintA(hint),
              IF HintIndex(hint) = 0 THEN SearchFrom(E.affine, HintA(hint), HintLimit) ELSE HintIndex(hint))

NoHint == << >>
\* Mutant: the hint holds the low bits of an index that does not fit.
MutHintAt(E, hA, n) ==
    IF E.affine = Fp2Zero THEN [basis |-> PrecomputedBasis(E), hint |-> 0]
    ELSE IF n = NoIndex THEN NoHint
    ELSE [basis |-> BasisAt(E, CandidateX(E.affine, hA, n)), hint |-> HintOf(hA, n % HintLimit)]

HintAt(E, hA, n) ==
    IF E.affine = Fp2Zero THEN [basis |-> PrecomputedBasis(E), hint |-> 0]
    ELSE IF n = NoIndex THEN NoHint
    ELSE [basis |-> BasisAt(E, CandidateX(E.affine, hA, n)),
          hint |-> HintOf(hA, IF n < HintLimit THEN n ELSE 0)]
ToHint(E, hA) == HintAt(Normalized(E), hA, SearchFrom(E.affine, hA, 1))
to_hint(E) == ToHint(E, IF Fp2IsSquare(E.affine) THEN 1 ELSE 0)

-----------------------------------------------------------------------------
(* Two scalars at once *)

Parity(s) == s[0] % 2
Choose2(bit, x, y) == IF bit = 1 THEN y ELSE x

\* The digits of the pair of scalars, from the lowest, and the order in which
\* the generators enter.
MadeOdd(s) == NatOf(IF Parity(s) = 0 THEN SubMod2k(s, ScalarOfNat(1), ScalarBits) ELSE s)
RecodingStart(m, n) ==
    [s |-> <<MadeOdd(m), MadeOdd(n)>>, pre |-> 0, digits |-> << >>,
     sigma |-> IF Parity(m) # Parity(n) THEN <<1 - Parity(m), 1 - Parity(n)>> ELSE <<0, 1>>]
Recoded(r, up, digit) ==
    [s |-> up, pre |-> r.sigma[1], digits |-> Append(r.digits, digit), sigma |-> Exchange(digit[2], r.sigma)]
RecodingStep(r, s, last) ==
    LET up == IF last THEN s ELSE <<s[1] \div 2, s[2] \div 2>>
    IN  Recoded(r, up, [j \in 1 .. 2 |-> (up[j] + (IF last THEN 0 ELSE s[j])) % 2])
Recoding(m, n, bits) ==
    LET after[i \in 0 .. bits] ==
            IF i = 0 THEN RecodingStart(m, n)
            ELSE LET r == after[i - 1] IN RecodingStep(r, Exchange((r.sigma[1] + r.pre) % 2, r.s), i = bits)
    IN  after[bits]

\* One digit: three registers, two points to add and two differences.
DoubleOn(E, P) == IF E.affine = Fp2Zero THEN DoubleE0(P) ELSE Double(E, P)
LadderRound(E, s, digit, D) ==
    LET h == digit[1] + digit[2]
        from == 1 + digit[2]
    IN  [R |-> <<DoubleOn(E, s.R[h + 1]), DifferentialAdd(s.R[from], s.R[from + 1], D[1]),
                 DifferentialAdd(s.R[1], s.R[3], s.F[1])>>,
         D |-> D, F |-> Exchange(h % 2, s.F)]
LadderRounds(E, code, entering, both, Q, e) ==
    LET after[i \in 0 .. e] ==      \* once i digits, from the top, are used
            IF i = 0 THEN [R |-> <<Identity1, entering[1], both>>, D |-> entering, F |-> <<both, Q>>]
            ELSE LET digit == code.digits[e + 1 - i]
                 IN  LadderRound(E, after[i - 1], digit, Exchange(digit[2], after[i - 1].D))
    IN  after[e].R
LadderFrom(E, code, entering, Q, e) ==
    LadderRounds(E, code, entering, DifferentialAdd(entering[1], entering[2], Q), Q, e)
LadderOf(E, b, code, e) == LadderFrom(E, code, Exchange(code.sigma[1], <<b.P, b.PmQ>>), b.Q, e)

biscalar_mul(E, b, m, n, e) ==
    LET R == LadderOf(E, b, Recoding(m, n, e), e)
    IN  IF e = 1
        THEN Choose2(Parity(n), Choose2(Parity(m), Identity1, b.P), Choose2(Parity(m), b.PmQ, b.Q))
        ELSE R[IF Parity(m) * Parity(n) = 1 THEN 3 ELSE 1 + ((Parity(m) + Parity(n)) % 2)]

-----------------------------------------------------------------------------
(* Matrices of change of basis, by columns: the coordinates of the new P,  *)
(* and of the new PmQ.                                                     *)

NoChange == << >>

ChangeOf(log) == << <<log[3], log[5]>>, <<log[2], log[4]>> >>
ChangeFrom(w, e) ==
    IF w = NoPairings THEN NoChange ELSE ChangeOf([i \in 2 .. 5 |-> Dlog(w[1], w[i], e)])
from_bases(E, canonical, reduced, e) == ChangeFrom(CrossPairings(E, canonical, reduced, e), e)

DetMod2k(m, e) == SubMod2k(MulMod2k(m[1][1], m[2][2], e), MulMod2k(m[1][2], m[2][1], e), e)
\* Mutant: the matrix is transposed.
MutCofactors2(m, e) ==
    LET Minus(s) == SubMod2k(ZeroScalar, s, e)
    IN  << <<m[2][2], Minus(m[2][1])>>, <<Minus(m[1][2]), m[1][1]>> >>

Cofactors2(m, e) ==
    LET Minus(s) == SubMod2k(ZeroScalar, s, e)
    IN  << <<m[2][2], Minus(m[1][2])>>, <<Minus(m[2][1]), m[1][1]>> >>
TimesMod2k(m, inverse, e) ==
    IF inverse = NoScalar THEN NoChange
    ELSE [i \in 1 .. 2 |-> [j \in 1 .. 2 |-> MulMod2k(m[i][j], inverse, e)]]
InverseChange(m, e) ==
    IF m = NoChange THEN NoChange ELSE TimesMod2k(Cofactors2(m, e), InvMod2k(DetMod2k(m, e), e), e)
from_bases_invert(E, canonical, reduced, e) == InverseChange(from_bases(E, canonical, reduced, e), e)

ColumnOf(m, slot, e) ==
    CASE slot = "P"   -> <<m[1][1], m[2][1]>>
      [] slot = "PmQ" -> <<m[1][2], m[2][2]>>
      [] slot = "Q"   -> <<SubMod2k(m[1][1], m[1][2], e), SubMod2k(m[2][1], m[2][2], e)>>
MulByColumn(E, b, column, e) == biscalar_mul(E, b, column[1], column[2], e)
apply_change(E, m, b, e) == [slot \in {"P", "PmQ", "Q"} |-> MulByColumn(E, b, ColumnOf(m, slot, e), e)]

entries_below_pow2(m, k) == \A i, j \in 1 .. 2 : BitLength(m[i][j]) <= k
=============================================================================
