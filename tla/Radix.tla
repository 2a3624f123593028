------------------------------- MODULE Radix --------------------------------
(***************************************************************************)
(* Residues modulo p = Beta 2^Alpha - 1 in limbs of fewer bits than their  *)
(* words: what the portable and the vector backends have in common.  A     *)
(* format f gives the limbs, the bits of a limb and the bits of the word   *)
(* (and of the vector lane) that holds it.  A word is read as a signed     *)
(* number, so that a borrow is a negative limb until it is carried away.   *)
(* Values are in Montgomery form, and what an operation gives is below 2p: *)
(* only encoding takes p off.  Constants can be larger.                    *)
(***************************************************************************)
EXTENDS Integers, FiniteSets, FiniteSetsExt, Tables

CONSTANTS Beta, Alpha      \* 5 and 248 in the code

ASSUME PrimeAssumption == Beta \in Nat \ {0} /\ Alpha \in Nat

P == Beta * 2^Alpha - 1

Format(limbs, radix, word, lane) == [limbs |-> limbs, radix |-> radix, word |-> word, lane |-> lane]

Places(f) == 0 .. f.limbs - 1
TopLimb(f) == f.limbs - 1

\* P4: Beta 2^Alpha, which is 1 modulo p, seen from the top limb.
Fold(f) == Beta * 2^(Alpha - TopLimb(f) * f.radix)

\* The limbs of a number, all above the last cut in the last; and of p.
Digits(f, v) ==
    [i \in Places(f) |-> IF i = TopLimb(f) THEN v \div 2^(i * f.radix)
                        ELSE (v \div 2^(i * f.radix)) % 2^f.radix]

PLimbs(f) == [i \in Places(f) |-> IF i = TopLimb(f) THEN Fold(f) - 1 ELSE 2^f.radix - 1]

\* A word or a lane of w bits read as a signed number.
AsSigned(x, w) == ((x + 2^(w - 1)) % 2^w) - 2^(w - 1)

-----------------------------------------------------------------------------
(* Carries *)

\* The carries of all limbs but the last run up, with their sign.
Prop(f, a) ==
    LET carry[i \in Places(f)] ==
            IF i = 0 THEN a[0] \div 2^f.radix ELSE (carry[i - 1] + a[i]) \div 2^f.radix
        low(i) == IF i = 0 THEN 0 ELSE carry[i - 1]
    IN  Table([i \in Places(f) |-> IF i = TopLimb(f) THEN AsSigned(a[i] + low(i), f.lane)
                                  ELSE (a[i] + low(i)) % 2^f.radix])

\* The sign that prop reports is the top bit of the last limb's word.
Negative(f, a) == (a[TopLimb(f)] \div 2^(f.word - 1)) % 2 = 1

\* k p added, as k 2^Alpha Beta at the top and - k at the bottom.
PlusP(f, a, k) ==
    [a EXCEPT ![0] = AsSigned(@ - k, f.lane), ![TopLimb(f)] = AsSigned(@ + k * Fold(f), f.lane)]

\* The carries run up, k p is added back if the number was negative, and the
\* carries run up again.
Corrected(f, a, k) ==
    LET once == Prop(f, a)
        back == IF Negative(f, once) THEN PlusP(f, once, k) ELSE once
    IN  Prop(f, back)

AddBelow2P(f, a, b) ==
    LET sum == Table([i \in Places(f) |-> AsSigned(a[i] + b[i], f.lane)])
    IN  Corrected(f, PlusP(f, sum, -2), 2)

SubBelow2P(f, a, b) ==
    Corrected(f, Table([i \in Places(f) |-> AsSigned(a[i] - b[i], f.lane)]), 2)

\* p is subtracted with a borrow that runs up the limbs, and kept out if one
\* is left at the end.
SubtractP(f, a) ==
    LET p == PLimbs(f)
        borrow[i \in 0 .. f.limbs] ==
            IF i = 0 THEN 0 ELSE IF a[i - 1] - p[i - 1] - borrow[i - 1] < 0 THEN 1 ELSE 0
    IN  IF borrow[f.limbs] = 1 THEN a
        ELSE Table([i \in Places(f) |-> (a[i] - p[i] - borrow[i]) % 2^f.radix])

-----------------------------------------------------------------------------
(* Products *)

\* The columns of a product, and of a square whose products off the diagonal
\* are computed once and doubled.
Columns(f, a, b) ==
    Table([k \in 0 .. 2 * f.limbs - 2 |->
              FoldSet(LAMBDA i, s : s + a[i] * b[k - i], 0, {i \in Places(f) : k - i \in Places(f)})])

SquareColumns(f, a) ==
    Table([k \in 0 .. 2 * f.limbs - 2 |->
              FoldSet(LAMBDA i, s : s + (IF 2 * i = k THEN 1 ELSE 2) * a[i] * a[k - i], 0,
                      {i \in Places(f) : k - i \in Places(f) /\ 2 * i <= k})])

\* Montgomery reduction by columns in an accumulator of acc bits: the limb
\* of column k is cleared by its multiple of p, which adds at column
\* k + limbs - 1, and the limbs above the first ones are the result.
ReduceColumns(f, col, acc) ==
    LET n == f.limbs
        total[k \in 0 .. 2 * n - 2] ==
            ((IF k = 0 THEN 0 ELSE total[k - 1] \div 2^f.radix)
               + col[k]
               + (IF k >= n - 1 THEN (total[k - (n - 1)] % 2^f.radix) * Fold(f) ELSE 0)) % 2^acc
    IN  Table([i \in Places(f) |-> IF i = n - 1 THEN total[2 * n - 2] \div 2^f.radix
                                  ELSE total[n + i] % 2^f.radix])

-----------------------------------------------------------------------------
(* Powers: the addition chain of (p - 3) / 4, for the p of the code, from   *)
(* which inverses, square roots and the test for squares are taken.  A link *)
(* gives a register the product of `by` and the 2^k-th power of `base`.      *)

Link(to, by, base, k) == [to |-> to, by |-> by, base |-> base, k |-> k]

PowerChain ==
    << Link("z", "none", "x", 1), Link("t0", "x", "z", 0), Link("z", "none", "t0", 1),
       Link("z", "x", "z", 0), Link("t1", "none", "z", 1), Link("t3", "none", "t1", 1),
       Link("t2", "none", "t3", 1), Link("t2", "t2", "t2", 3), Link("t2", "t2", "t2", 6),
       Link("t3", "t3", "t2", 2), Link("t2", "t2", "t3", 13), Link("t2", "t2", "t2", 27),
       Link("z", "z", "t2", 0), Link("t1", "t1", "z", 4), Link("t0", "t0", "t1", 0),
       Link("t1", "t1", "t0", 0), Link("t0", "t1", "t0", 0), Link("t2", "t0", "t1", 0),
       Link("t0", "t0", "t2", 0), Link("t1", "t1", "t0", 0), Link("t1", "t0", "t1", 63),
       Link("t0", "t0", "t1", 64), Link("z", "z", "t0", 57) >>

\* Register s holds the squares of a link that is under way.
Registers(x) == [r \in {"x", "z", "t0", "t1", "t2", "t3", "s"} |-> x]

\* One squaring of the k, and the product after them.
Pow2k(reg, link, done, Square(_)) ==
    [reg EXCEPT !.s = Square(reg[IF done = 0 THEN link.base ELSE "s"])]

Multiplied(reg, link, Mul(_, _)) ==
    LET power == reg[IF link.k = 0 THEN link.base ELSE "s"]
    IN  [reg EXCEPT ![link.to] = IF link.by = "none" THEN power ELSE Mul(reg[link.by], power)]

FourthPower(x, Square(_)) == Square(Square(x))
InverseBy(x, e, Mul(_, _), Square(_)) == Mul(x, FourthPower(e, Square))
RootBy(x, e, Mul(_, _)) == Mul(e, x)

\* The symbol of x, which is 1 for a square.
SymbolBy(x, e, Mul(_, _), Square(_)) == Mul(Square(e), x)

-----------------------------------------------------------------------------
(* Residues, for constants and for what the limbs are worth *)

\* a b modulo p, five bits of b at a time: TLC's integers have 32 bits.
MulP(a, b) ==
    LET after[i \in 0 .. 6] ==
            IF i = 6 THEN 0 ELSE (after[i + 1] * 32 + a * ((b \div 32^i) % 32)) % P
    IN  after[0]

PowerOfTwoP(e) ==
    LET after[i \in 0 .. e] == IF i = 0 THEN 1 % P ELSE (2 * after[i - 1]) % P IN after[e]

MontgomeryBits(f) == f.limbs * f.radix
R(f) == PowerOfTwoP(MontgomeryBits(f))
RSquared(f) == Digits(f, PowerOfTwoP(2 * MontgomeryBits(f)))

ResidueOf(f, a) ==
    LET after[i \in 0 .. f.limbs] ==
            IF i = f.limbs THEN 0 ELSE (MulP(after[i + 1], 2^f.radix % P) + a[i]) % P
    IN  after[0]

Number(f, a) == FoldSet(LAMBDA i, s : s + a[i] * 2^(i * f.radix), 0, Places(f))

\* The same number at another radix.
Repack(from, a, to) == Digits(to, Number(from, a))

\* Limbs that stand for x: its Montgomery residue, below 2p, every limb but
\* the last within the radix.
StandsFor(f, a, x) ==
    /\ ResidueOf(f, a) = MulP(x, R(f))
    /\ \A i \in Places(f) : a[i] >= 0 /\ (i < TopLimb(f) => a[i] < 2^f.radix)
    /\ Number(f, a) < 2 * P

-----------------------------------------------------------------------------
(* The portable backend: limbs of 51 bits in words of 64, with products in *)
(* an accumulator of 128.                                                  *)

CONSTANT Format51

Zero51 == Digits(Format51, 0)
One51 == Digits(Format51, R(Format51))
RSquared51 == RSquared(Format51)

FromLimbs51(limbs) == limbs

Prop51(a) == Prop(Format51, a)
Flatten51(a) == Corrected(Format51, a, 1)
FinalSub51(a) == Flatten51(PlusP(Format51, a, -1))

Add51(a, b) == AddBelow2P(Format51, a, b)
Sub51(a, b) == SubBelow2P(Format51, a, b)
Neg51(a) == Sub51(Zero51, a)

Mul51(a, b) == ReduceColumns(Format51, Columns(Format51, a, b), 2 * Format51.word)
Square51(a) == ReduceColumns(Format51, SquareColumns(Format51, a), 2 * Format51.word)

\* Both products in the same columns, reduced once.
SumOfProducts51(a1, b1, a2, b2) ==
    LET first == Columns(Format51, a1, b1)
        second == Columns(Format51, a2, b2)
    IN  ReduceColumns(Format51, Table([k \in DOMAIN first |-> first[k] + second[k]]),
                      2 * Format51.word)

DifferenceOfProducts51(a1, b1, a2, b2) == SumOfProducts51(a1, b1, a2, Neg51(b2))

\* What the portable operations need: sums and differences, operands below
\* 2p; products, that they come to no more than R p.
Within2P51(a) == Number(Format51, a) < 2 * P
Multiples51(a) == Number(Format51, a) \div P + 1
WithinRP51(products) == products * P <= 2^MontgomeryBits(Format51)

ToMontgomery51(a) == Mul51(a, RSquared51)
ReduceMontgomery51(a) == FinalSub51(Mul51(a, Digits(Format51, 1)))

FromSmall51(x) == ToMontgomery51(Digits(Format51, x))

\* A byte string is the number that it encodes.
ToBytes51(a) == Number(Format51, ReduceMontgomery51(a))
FromBytes51(v) == ToMontgomery51(FinalSub51(Digits(Format51, v)))

Equal51(a, b) == ToBytes51(a) = ToBytes51(b)

Pow2k51(reg, link, done) == Pow2k(reg, link, done, Square51)
PowP3Div4At51(reg, link) == Multiplied(reg, link, Mul51)
Invert51(a, power) == InverseBy(a, power, Mul51, Square51)
Sqrt51(a, power) == RootBy(a, power, Mul51)
IsSquare51(a, power) ==
    Equal51(SymbolBy(a, power, Mul51, Square51), One51) \/ Equal51(a, Zero51)

-----------------------------------------------------------------------------
(* The packed backend: full words, and products in two carry chains that   *)
(* the MULX, ADCX and ADOX instructions keep in the flags CF and OF.       *)

CONSTANT Format64       \* radix and word are equal

Zero64 == Digits(Format64, 0)
One64 == Digits(Format64, R(Format64))
RSquared64 == RSquared(Format64)

\* Addition and subtraction through the four words, and what leaves them.
Carrying(a, b) ==
    LET B == 2^Format64.radix
        carry[i \in 0 .. Format64.limbs] ==
            IF i = 0 THEN 0 ELSE (a[i - 1] + b[i - 1] + carry[i - 1]) \div B
    IN  Table([i \in Places(Format64) |-> (a[i] + b[i] + carry[i]) % B])

Borrowing(a, b) ==
    LET B == 2^Format64.radix
        borrow[i \in 0 .. Format64.limbs] ==
            IF i = 0 \/ a[i - 1] - b[i - 1] - borrow[i - 1] >= 0 THEN 0 ELSE 1
    IN  [limbs |-> Table([i \in Places(Format64) |-> (a[i] - b[i] - borrow[i]) % B]),
         borrow |-> borrow[Format64.limbs]]

TwoP == Digits(Format64, 2 * P)

LessUnlessBelow(a, m) ==
    LET d == Borrowing(a, m) IN IF d.borrow = 1 THEN a ELSE d.limbs

CondSubP(a) == LessUnlessBelow(a, PLimbs(Format64))
FinalSubP(a) == LessUnlessBelow(a, PLimbs(Format64))
CondSub2P(a) == LessUnlessBelow(a, TwoP)
CondAdd2P(a, cond) == IF cond THEN Carrying(a, TwoP) ELSE a

Add64(a, b) == CondSub2P(Carrying(a, b))
Sub64(a, b) == LET d == Borrowing(a, b) IN CondAdd2P(d.limbs, d.borrow = 1)
Neg64(a) == CondSub2P(Borrowing(TwoP, a).limbs)

-----------------------------------------------------------------------------
\* x times b added to the accumulator from limb `at` on.  OF carries the low
\* half of the first product and all the high halves, CF the other low
\* halves; CF goes in at the end, and what leaves the accumulator is dropped.
DualChain(z, x, b, at) ==
    LET n == Format64.limbs
        B == 2^Format64.radix
        product(j) == x * b[j]
        s[j \in 0 .. n] ==
            IF j = 0 THEN [z |-> z, cf |-> 0, of |-> 0]
            ELSE LET t == s[j - 1]
                     i == at + j - 1
                     lo == t.z[i] + (product(j - 1) % B) + t.cf
                     hi == t.z[i + 1] + (product(j - 1) \div B)
                             + (IF j = 1 THEN lo \div B ELSE t.of)
                 IN  [z |-> Table([t.z EXCEPT ![i] = lo % B, ![i + 1] = hi % B]),
                      cf |-> IF j = 1 THEN 0 ELSE lo \div B, of |-> hi \div B]
    IN  s[n]

\* A row of the interleaved products: CF is added at limb n.
AddRow(z, x, b) ==
    LET s == DualChain(z, x, b, 0)
    IN  [s.z EXCEPT ![Format64.limbs] = (@ + s.cf) % 2^Format64.radix]

\* Mutant: the carry between the two top limbs is lost.
MutReduceRow(z) ==
    LET n == Format64.limbs
        B == 2^Format64.radix
        m == z[0] * Fold(Format64)
    IN  Table([i \in 0 .. n |-> CASE i = n     -> 0
                                  [] i = n - 1 -> (z[n] + m \div B) % B
                                  [] i = n - 2 -> (z[n - 1] + (m % B)) % B
                                  [] OTHER     -> z[i + 1]])

\* The lowest limb times p + 1, whose only limb is the last, goes in at the
\* top; the accumulator moves down by the limb that this clears.
ReduceRow(z) ==
    LET n == Format64.limbs
        B == 2^Format64.radix
        m == z[0] * Fold(Format64)
        lo == z[n - 1] + (m % B)
        hi == z[n] + (m \div B) + (lo \div B)
    IN  Table([i \in 0 .. n |-> CASE i = n     -> 0
                                  [] i = n - 1 -> hi % B
                                  [] i = n - 2 -> lo % B
                                  [] OTHER     -> z[i + 1]])

Accumulator == [i \in 0 .. Format64.limbs |-> 0]
Upper(z) == Table([i \in Places(Format64) |-> z[i]])

Mul64(a, b) ==
    LET rows[i \in 0 .. Format64.limbs] ==
            IF i = 0 THEN Accumulator ELSE ReduceRow(AddRow(rows[i - 1], a[i - 1], b))
    IN  Upper(rows[Format64.limbs])

Square64(a) == Mul64(a, a)

\* All limbs of a product: the flags of a row go in two limbs above it.
MulWide(a, b) ==
    LET n == Format64.limbs
        B == 2^Format64.radix
        rows[i \in 0 .. n] ==
            IF i = 0 THEN [k \in 0 .. 2 * n + 1 |-> 0]
            ELSE LET s == DualChain(rows[i - 1], a[i - 1], b, i - 1)
                     top == s.z[i - 1 + n] + s.cf
                 IN  Table([s.z EXCEPT ![i - 1 + n] = top % B,
                                       ![i + n] = (@ + s.of + top \div B) % B])
    IN  [k \in 0 .. 2 * n - 1 |-> rows[n][k]]

\* Two products, a limb of each before every reduction.
SumOfProductsPacked(a, b, c, d) ==
    LET cols[i \in 0 .. Format64.limbs] ==
            IF i = 0 THEN Accumulator
            ELSE ReduceRow(AddRow(AddRow(cols[i - 1], b[i - 1], a), d[i - 1], c))
    IN  Upper(cols[Format64.limbs])

SumOfProducts64(a1, b1, a2, b2) == SumOfProductsPacked(a1, b1, a2, b2)
DifferenceOfProducts64(a1, b1, a2, b2) ==
    SumOfProductsPacked(a1, b1, a2, Borrowing(TwoP, b2).limbs)

-----------------------------------------------------------------------------
\* From limbs of the portable backend, whose R is half as large: at most 16
\* times p comes off, and the doubled residue takes one more subtraction.
ASSUME RadixAssumption ==
    /\ MontgomeryBits(Format64) = MontgomeryBits(Format51) + 1
    /\ Format64.radix = Format64.word

FromLimbs64(limbs) ==
    LET less[i \in 0 .. 16] ==
            IF i = 0 THEN Repack(Format51, limbs, Format64) ELSE CondSubP(less[i - 1])
    IN  CondSubP(Carrying(less[16], less[16]))

FromSmall64(x) == Mul64(Digits(Format64, x), RSquared64)
FromBytes64(v) == Mul64(Digits(Format64, v), RSquared64)
ToBytes64(a) == Number(Format64, FinalSubP(Mul64(a, Digits(Format64, 1))))
Equal64(a, b) == FinalSubP(a) = FinalSubP(b)

Pow2k64(reg, link, done) == Pow2k(reg, link, done, Square64)
PowP3Div4At64(reg, link) == Multiplied(reg, link, Mul64)
Invert64(a, power) == InverseBy(a, power, Mul64, Square64)
Sqrt64(a, power) == RootBy(a, power, Mul64)
IsSquare64(a, power) ==
    Equal64(SymbolBy(a, power, Mul64, Square64), One64) \/ Equal64(a, Zero64)

=============================================================================
