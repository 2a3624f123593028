------------------------------ MODULE FpVector ------------------------------
(***************************************************************************)
(* The vector backends.  AVX2: limbs of 26 bits in words of 32, with       *)
(* products in words of 64; and vectors of such elements, one in each      *)
(* 64-bit lane.  No instruction moves anything from one lane to another.   *)
(* NEON, below: limbs of 29 bits, and Karatsuba's products.                *)
(***************************************************************************)
EXTENDS Radix

CONSTANTS Format26,      \* a lane is a word of its own
          Lanes          \* the lanes of a vector, four in the code

FormatLane26 == [Format26 EXCEPT !.lane = 2 * Format26.word]

Zero26 == Digits(Format26, 0)
One26 == Digits(Format26, R(Format26))
RSquared26 == RSquared(Format26)
FromRadix51To26 == Digits(Format26, PowerOfTwoP(2 * MontgomeryBits(Format26) - MontgomeryBits(Format51)))

Prop26(a) == Prop(Format26, a)
FinalSub26(a) == SubtractP(Format26, a)
Add26(a, b) == AddBelow2P(Format26, a, b)
Sub26(a, b) == SubBelow2P(Format26, a, b)
Neg26(a) == Sub26(Zero26, a)

\* By columns, for constants and without AVX2.
MontMulConst26(a, b) == ReduceColumns(Format26, Columns(Format26, a, b), 2 * Format26.word)

\* By operands: a b[j] goes into every limb, the lowest is cleared by its
\* multiple of p and its carry moves down with the others, which run up only
\* at the end.
MontMulAvx2(a, b) ==
    LET n == Format26.limbs
        B == 2^Format26.radix
        step[j \in 0 .. n] ==
            IF j = 0 THEN Zero26
            ELSE LET t == Table([k \in Places(Format26) |-> step[j - 1][k] + a[k] * b[j - 1]])
                     u == [t EXCEPT ![n - 1] = @ + (t[0] % B) * Fold(Format26)]
                 IN  Table([k \in Places(Format26) |->
                               ((IF k < n - 1 THEN u[k + 1] ELSE 0)
                                  + (IF k = 0 THEN u[0] \div B ELSE 0)) % 2^(2 * Format26.word)])
        carry[k \in 0 .. n] == IF k = 0 THEN 0 ELSE (step[n][k - 1] + carry[k - 1]) \div B
    IN  Table([k \in Places(Format26) |-> (step[n][k] + carry[k]) % B])

Mul26(a, b) == MontMulAvx2(a, b)
Square26(a) == Mul26(a, a)

SumOfProducts26(a1, b1, a2, b2) == Add26(Mul26(a1, b1), Mul26(a2, b2))
DifferenceOfProducts26(a1, b1, a2, b2) == Sub26(Mul26(a1, b1), Mul26(a2, b2))

\* From the limbs of the portable backend, times the R^2 of this one over the
\* R of that.
FromLimbs26(limbs) ==
    MontMulConst26(Repack(Format51, limbs, Format26), FromRadix51To26)

FromSmall26(x) ==
    Mul26([Zero26 EXCEPT ![0] = x % 2^Format26.radix, ![1] = x \div 2^Format26.radix],
          RSquared26)

ReduceMontgomery26(a) == FinalSub26(Mul26(a, Digits(Format26, 1)))
FromBytesLe26(v) == Digits(Format26, v)
FromBytes26(v) == Mul26(FromBytesLe26(v), RSquared26)
ToBytesLe26(a) == Number(Format26, a)
ToBytes26(a) == ToBytesLe26(ReduceMontgomery26(a))
Equal26(a, b) == ToBytes26(a) = ToBytes26(b)

Pow2k26(reg, link, done) == Pow2k(reg, link, done, Square26)
PowP3Div4At26(reg, link) == Multiplied(reg, link, Mul26)
Invert26(a, power) == InverseBy(a, power, Mul26, Square26)
Sqrt26(a, power) == RootBy(a, power, Mul26)
IsSquare26(a, power) ==
    Equal26(SymbolBy(a, power, Mul26, Square26), One26) \/ Equal26(a, Zero26)


-----------------------------------------------------------------------------
\* Vectors: the limbs of every lane, read as signed lanes of 64 bits.
FromScalars26(elements) == [lane \in Lanes |-> elements[lane]]
ToScalars26(v) == [lane \in Lanes |-> [i \in Places(Format26) |-> v[lane][i] % 2^Format26.word]]

LaneProp26(v) == [lane \in Lanes |-> Prop(FormatLane26, v[lane])]
LaneFinalSub26(v) == [lane \in Lanes |-> SubtractP(FormatLane26, v[lane])]
LaneAdd26(v, w) == [lane \in Lanes |-> AddBelow2P(FormatLane26, v[lane], w[lane])]
LaneSub26(v, w) == [lane \in Lanes |-> SubBelow2P(FormatLane26, v[lane], w[lane])]

LaneMul26(v, w) ==
    [lane \in Lanes |-> ReduceColumns(FormatLane26, Columns(FormatLane26, v[lane], w[lane]),
                                      FormatLane26.lane)]
LaneSquare26(v) ==
    [lane \in Lanes |-> ReduceColumns(FormatLane26, SquareColumns(FormatLane26, v[lane]),
                                      FormatLane26.lane)]

-----------------------------------------------------------------------------
(* The NEON backend: limbs of 29 bits in words of 32, and vectors of such  *)
(* elements whose products are Karatsuba's: the low limbs, the high limbs  *)
(* and their sums are multiplied, and the middle is what remains.          *)

CONSTANTS Format29,
          LowLimbs29     \* how many limbs are low: 5 of 9 in the code

HighLimbs29 == Format29.limbs - LowLimbs29

ASSUME KaratsubaAssumption == HighLimbs29 \in 1 .. LowLimbs29

Zero29 == Digits(Format29, 0)
One29 == Digits(Format29, R(Format29))
RSquared29 == RSquared(Format29)
FromRadix51To29 == Digits(Format29, PowerOfTwoP(2 * MontgomeryBits(Format29) - MontgomeryBits(Format51)))

Prop29(a) == Prop(Format29, a)
FinalSub29(a) == SubtractP(Format29, a)
Add29(a, b) == AddBelow2P(Format29, a, b)
Sub29(a, b) == SubBelow2P(Format29, a, b)
Neg29(a) == Sub29(Zero29, a)

MontMulConst29(a, b) == ReduceColumns(Format29, Columns(Format29, a, b), 2 * Format29.word)
Mul29(a, b) == ReduceColumns(Format29, Columns(Format29, a, b), 2 * Format29.word)
Square29(a) == Mul29(a, a)

SumOfProducts29(a1, b1, a2, b2) == Add29(Mul29(a1, b1), Mul29(a2, b2))
DifferenceOfProducts29(a1, b1, a2, b2) == Sub29(Mul29(a1, b1), Mul29(a2, b2))

FromLimbs29(limbs) ==
    MontMulConst29(Repack(Format51, limbs, Format29), FromRadix51To29)

FromSmall29(x) ==
    Mul29([Zero29 EXCEPT ![0] = x % 2^Format29.radix, ![1] = x \div 2^Format29.radix],
          RSquared29)

ReduceMontgomery29(a) == FinalSub29(Mul29(a, Digits(Format29, 1)))
FromBytesLe29(v) == Digits(Format29, v)
FromBytes29(v) == Mul29(FromBytesLe29(v), RSquared29)
ToBytesLe29(a) == Number(Format29, a)
ToBytes29(a) == ToBytesLe29(ReduceMontgomery29(a))
Equal29(a, b) == ToBytes29(a) = ToBytes29(b)

Pow2k29(reg, link, done) == Pow2k(reg, link, done, Square29)
PowP3Div4At29(reg, link) == Multiplied(reg, link, Mul29)
Invert29(a, power) == InverseBy(a, power, Mul29, Square29)
Sqrt29(a, power) == RootBy(a, power, Mul29)
IsSquare29(a, power) ==
    Equal29(SymbolBy(a, power, Mul29, Square29), One29) \/ Equal29(a, Zero29)

\* Between the portable backend and this one, through the canonical bytes.
FromFp29(a) == FromBytes29(ToBytes51(a))
IntoFp51(a) == FromBytes51(ToBytesLe29(ReduceMontgomery29(a)))

-----------------------------------------------------------------------------
\* Unreduced products and squares of m limbs, in words of twice the bits.
PolynomialFormat(m) == [Format29 EXCEPT !.limbs = m]

Low(a) == [i \in 0 .. LowLimbs29 - 1 |-> a[i]]
High(a) == [i \in 0 .. HighLimbs29 - 1 |-> a[LowLimbs29 + i]]
LowPlusHigh(a) ==
    [i \in 0 .. LowLimbs29 - 1 |-> IF i < HighLimbs29 THEN a[i] + a[LowLimbs29 + i] ELSE a[i]]

PolynomialLow(a, b) == Columns(PolynomialFormat(LowLimbs29), a, b)
PolynomialLowSquare(a) == SquareColumns(PolynomialFormat(LowLimbs29), a)
PolynomialHigh(a, b) == Columns(PolynomialFormat(HighLimbs29), a, b)
PolynomialHighSquare(a) == SquareColumns(PolynomialFormat(HighLimbs29), a)

\* The three products at their places, then each column cleared in turn: its
\* multiple of p goes in limbs - 1 columns above, its carry in the next.
KaratsubaAssembleAndReduce(p0, p1, q) ==
    LET n == Format29.limbs
        W == 2^(2 * Format29.word)
        at(c, k) == IF k \in DOMAIN c THEN c[k] ELSE 0
        mid == Table([k \in DOMAIN q |-> (q[k] - p0[k] - at(p1, k)) % W])
        full == Table([k \in 0 .. 2 * n - 2 |->
                          at(p0, k) + at(mid, k - LowLimbs29) + at(p1, k - 2 * LowLimbs29)])
    IN  ReduceColumns(Format29, full, 2 * Format29.word)

LaneMul29(v, w) ==
    [lane \in Lanes |->
        KaratsubaAssembleAndReduce(PolynomialLow(Low(v[lane]), Low(w[lane])),
                                   PolynomialHigh(High(v[lane]), High(w[lane])),
                                   PolynomialLow(LowPlusHigh(v[lane]), LowPlusHigh(w[lane])))]

LaneSquare29(v) ==
    [lane \in Lanes |->
        KaratsubaAssembleAndReduce(PolynomialLowSquare(Low(v[lane])),
                                   PolynomialHighSquare(High(v[lane])),
                                   PolynomialLowSquare(LowPlusHigh(v[lane])))]

FromScalars29(elements) == [lane \in Lanes |-> elements[lane]]
ToScalars29(v) == [lane \in Lanes |-> v[lane]]
LaneProp29(v) == [lane \in Lanes |-> Prop(Format29, v[lane])]
LaneFinalSub29(v) == [lane \in Lanes |-> SubtractP(Format29, v[lane])]
LaneAdd29(v, w) == [lane \in Lanes |-> AddBelow2P(Format29, v[lane], w[lane])]
LaneSub29(v, w) == [lane \in Lanes |-> SubBelow2P(Format29, v[lane], w[lane])]

=============================================================================
