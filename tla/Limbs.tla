------------------------------- MODULE Limbs -------------------------------
(***************************************************************************)
(* BigInt<N> below its operators: magnitudes of N limbs, least significant *)
(* first, and the sign beside them.  A limb has LimbBits bits here and 64  *)
(* in the code.  Whatever leaves the top limb is lost, as in the code.     *)
(***************************************************************************)
EXTENDS Integers, Sequences, FiniteSets, FiniteSetsExt, Tables

CONSTANT LimbBits

ASSUME LimbBitsAssumption == LimbBits \in Nat /\ LimbBits >= 2

Base == 2^LimbBits
Word == 0 .. Base - 1

\* What a one in limb i is worth.
Weight(i) == 2^(LimbBits * i)

Width(a) == Cardinality(DOMAIN a)
Zeros(n) == [i \in 0 .. n - 1 |-> 0]
OneLimb(x, n) == [Zeros(n) EXCEPT ![0] = x]

\* What a loop of n rounds has made of what it starts from, before each round
\* and at its end.  A round begins when the one before it has ended: its operand
\* is the one element of a set.
Iterates(Round(_, _), start, n) ==
    LET after[i \in 0 .. n] ==
            IF i = 0 THEN start
            ELSE CHOOSE next \in {Round(s, i) : s \in {after[i - 1]}} : TRUE
    IN  after
Iterated(Round(_, _), start, n) == Iterates(Round, start, n)[n]

\* The sums of the first 0 to n values of f.
Sums(f, n) ==
    LET sum[i \in 0 .. n] == IF i = 0 THEN 0 ELSE sum[i - 1] + f[i - 1] IN sum

\* The number that an array of limbs stands for, limb by limb from the lowest,
\* and the array that stands for a number, cut to n limbs.
Below(a) == Sums([i \in DOMAIN a |-> a[i] * Weight(i)], Width(a))
Value(a) == Below(a)[Width(a)]

ToLimbs(x, n) == [i \in 0 .. n - 1 |-> (x \div Weight(i)) % Base]

-----------------------------------------------------------------------------
(* Comparison and bits *)

mag_is_zero(a) == \A i \in DOMAIN a : a[i] = 0

mag_effective_len(a) ==
    IF mag_is_zero(a) THEN 0 ELSE 1 + Max({i \in DOMAIN a : a[i] # 0})

\* Greater, equal or less, as 1, 0 and -1: the highest limb that differs
\* decides.
mag_cmp(a, b) ==
    LET differ == {i \in DOMAIN a : a[i] # b[i]}
    IN  IF differ = {} THEN 0
        ELSE IF a[Max(differ)] > b[Max(differ)] THEN 1 ELSE -1

\* The number of bits of a word, and of the zeros below its lowest one.
nbits64(x) == Cardinality({k \in 0 .. LimbBits - 1 : x \div 2^k > 0})

trailing_zeros(x) ==
    IF x = 0 THEN LimbBits ELSE Max({k \in 0 .. LimbBits - 1 : x % 2^k = 0})

BitsOf(a, len) == IF len = 0 THEN 0 ELSE LimbBits * (len - 1) + nbits64(a[len - 1])
mag_bitsize(a) == BitsOf(a, mag_effective_len(a))

ZerosOf(a, low) == LimbBits * low + trailing_zeros(a[low])
mag_trailing_zeros(a) ==
    IF mag_is_zero(a) THEN LimbBits * Width(a) ELSE ZerosOf(a, Min({i \in DOMAIN a : a[i] # 0}))

\* Bit k of a magnitude.
BitOf(a, k) == (a[k \div LimbBits] \div 2^(k % LimbBits)) % 2

-----------------------------------------------------------------------------
(* Sums of columns: a carry or a borrow runs up the limbs. *)

Carries(col, n) ==
    LET carry[i \in 0 .. n] ==
            IF i = 0 THEN 0 ELSE (col[i - 1] + carry[i - 1]) \div Base
    IN  carry
AddColumns(col, n) ==
    LET carry == Carries(col, n)
    IN  [limbs |-> Table([i \in 0 .. n - 1 |-> (col[i] + carry[i]) % Base]), carry |-> carry[n]]

Borrows(col, n) ==
    LET borrow[i \in 0 .. n] ==
            IF i = 0 THEN 0 ELSE IF col[i - 1] - borrow[i - 1] >= 0 THEN 0 ELSE 1
    IN  borrow
SubColumns(col, n) ==
    LET borrow == Borrows(col, n)
    IN  [limbs |-> Table([i \in 0 .. n - 1 |-> (col[i] - borrow[i]) % Base]), borrow |-> borrow[n]]

mag_add(a, b) == AddColumns([i \in DOMAIN a |-> a[i] + b[i]], Width(a))
mag_sub(a, b) == SubColumns([i \in DOMAIN a |-> a[i] - b[i]], Width(a))
mag_negate(a) == mag_sub(Zeros(Width(a)), a).limbs

\* Operands of la and lb limbs: the columns above are carries only.
mag_add_short(a, b, la, lb) ==
    AddColumns([i \in DOMAIN a |-> IF i < Max({la, lb}) THEN a[i] + b[i] ELSE 0], Width(a))

mag_sub_short(a, b, la, lb) ==
    SubColumns([i \in DOMAIN a |-> IF i < Max({la, lb}) THEN a[i] - b[i] ELSE 0], Width(a))

-----------------------------------------------------------------------------
(* Shifts: whole limbs first, then bits across each pair of neighbours. *)

LimbAt(a, i) == IF i \in DOMAIN a THEN a[i] ELSE 0

mag_shl(a, s) ==
    [i \in DOMAIN a |->
        (LimbAt(a, i - (s \div LimbBits)) * 2^(s % LimbBits)
            + LimbAt(a, i - (s \div LimbBits) - 1) \div 2^(LimbBits - (s % LimbBits))) % Base]

mag_shr(a, s) ==
    [i \in DOMAIN a |->
        (LimbAt(a, i + (s \div LimbBits)) \div 2^(s % LimbBits)
            + LimbAt(a, i + (s \div LimbBits) + 1) * 2^(LimbBits - (s % LimbBits))) % Base]

-----------------------------------------------------------------------------
(* Products *)

\* x times the first len limbs of b, added to r from limb i on: one row of a
\* schoolbook product, with the carry it leaves.
RowCarries(r, x, b, i, len) ==
    LET carry[j \in 0 .. len] ==
            IF j = 0 THEN 0
            ELSE (r[i + j - 1] + x * b[j - 1] + carry[j - 1]) \div Base
    IN  carry
Row(r, x, b, i, len) ==
    LET carry == RowCarries(r, x, b, i, len)
    IN  [limbs |-> Table([k \in DOMAIN r |->
                       IF k \in i .. i + len - 1
                       THEN (r[k] + x * b[k - i] + carry[k - i]) % Base ELSE r[k]]),
         carry |-> carry[len]]

\* The portable product: row i keeps the N - i limbs that fit.
Rows(a, b) ==
    Iterates(LAMBDA r, i : Row(r, a[i - 1], b, i - 1, Width(a) - (i - 1)).limbs, Zeros(Width(a)), Width(a))
mag_mul(a, b) == Rows(a, b)[Width(a)]

\* Rows of the lb limbs in use, their carry run up by itself.
CarriedFrom(row, top) ==
    AddColumns([k \in DOMAIN row.limbs |-> row.limbs[k] + (IF k = top THEN row.carry ELSE 0)],
               Width(row.limbs)).limbs
ShortRows(a, b, la, lb) ==
    LET len(i) == Min({lb, Width(a) - (i - 1)})
    IN  Iterates(LAMBDA r, i : CarriedFrom(Row(r, a[i - 1], b, i - 1, len(i)), i - 1 + len(i)),
                 Zeros(Width(a)), la)
mag_mul_short(a, b, la, lb) == ShortRows(a, b, la, lb)[la]

\* Column by column, in three registers, as the aarch64 and ADX kernels do.
Column(a, b, k) == Sums([i \in 0 .. k |-> a[i] * b[k - i]], k + 1)[k + 1]
Accumulators(a, b) ==      \* before column k is summed
    LET acc[k \in 0 .. Width(a)] ==
            IF k = 0 THEN 0 ELSE ((acc[k - 1] + Column(a, b, k - 1)) % Weight(3)) \div Base
    IN  acc
mag_mul_comba(a, b) ==
    LET acc == Accumulators(a, b)
    IN  [k \in DOMAIN a |-> (acc[k] + Column(a, b, k)) % Base]

\* Row i of the four-limb ADX kernel: the low halves and the high halves of
\* its products run in two carry chains, and what passes limb n is dropped.
AdxStep(s, at, p) ==
    LET lo == s.limbs[at] + (p % Base) + s.cf
        hi == LimbAt(s.limbs, at + 1) + (p \div Base) + s.of
    IN  [limbs |-> [k \in DOMAIN s.limbs |-> IF k = at THEN lo % Base
                                              ELSE IF k = at + 1 THEN hi % Base ELSE s.limbs[k]],
         cf |-> lo \div Base,
         of |-> hi \div Base]
AdxSteps(r, x, b, i) ==
    LET step[j \in 0 .. Width(r) - i] ==
            IF j = 0 THEN [limbs |-> r, cf |-> 0, of |-> 0]
            ELSE AdxStep(step[j - 1], i + j - 1, x * b[j - 1])
    IN  step
AdxRow(r, x, b, i) == AdxSteps(r, x, b, i)[Width(r) - i].limbs

AdxRows(a, b) ==
    LET rows[i \in 0 .. Width(a)] ==
            IF i = 0 THEN Zeros(Width(a)) ELSE AdxRow(rows[i - 1], a[i - 1], b, i - 1)
    IN  rows
mag_mul_4_adx(a, b) == AdxRows(a, b)[Width(a)]

\* Twice the products below the diagonal, and the squares on it.
DoubledPlusDiagonal(a, cross) ==
    mag_add(AddColumns([k \in DOMAIN a |-> 2 * cross[k]], Width(a)).limbs,
            [k \in DOMAIN a |-> IF k % 2 = 0 THEN (a[k \div 2] * a[k \div 2]) % Base
                                ELSE (a[k \div 2] * a[k \div 2]) \div Base]).limbs

CrossRows(a) ==
    LET n == Width(a)
        cross[i \in 0 .. n] ==
            IF i = 0 THEN Zeros(n)
            ELSE IF 2 * i - 1 >= n THEN cross[i - 1]
            ELSE Row(cross[i - 1], a[i - 1],
                     [j \in 0 .. n - i - 1 |-> a[i + j]], 2 * i - 1,
                     Min({n - i, n - (2 * i - 1)})).limbs
    IN  cross
mag_sqr(a) == DoubledPlusDiagonal(a, CrossRows(a)[Width(a)])

\* The four-limb ADX square: four products across, two on the diagonal.
mag_sqr_4_adx(a) ==
    LET lo(i, k) == (a[i] * a[k]) % Base
        hi(i, k) == (a[i] * a[k]) \div Base
        columns == [k \in 0 .. 3 |-> CASE k = 0 -> 0
                                       [] k = 1 -> lo(0, 1)
                                       [] k = 2 -> hi(0, 1) + lo(0, 2)
                                       [] k = 3 -> hi(0, 2) + lo(0, 3) + lo(1, 2)]
    IN  DoubledPlusDiagonal(a, AddColumns(columns, 4).limbs)

-----------------------------------------------------------------------------
(* Signs *)

Big(sign, limbs) == [sign |-> sign, limbs |-> limbs]
ZeroBig(n) == Big(0, Zeros(n))
SmallBig(x, n) == Big(0, OneLimb(x, n))

\* The integer that a BigInt stands for, and the BigInt of an integer that fits.
IntOf(x) == IF x.sign = 1 THEN - Value(x.limbs) ELSE Value(x.limbs)
BigOf(v, n) == Big(IF v < 0 THEN 1 ELSE 0, ToLimbs(IF v < 0 THEN -v ELSE v, n))

\* Mutant: zero keeps the sign that it was reached with.
MutCanonical(sign, limbs) == Big(sign, limbs)

\* Zero has one sign.
Canonical(sign, limbs) == Big(IF mag_is_zero(limbs) THEN 0 ELSE sign, limbs)

wrapping_neg(x) == Canonical(1 - x.sign, x.limbs)
absolute(x) == Big(0, x.limbs)

BySigns(x, y, diff) ==
    IF x.sign = y.sign THEN Canonical(x.sign, mag_add(x.limbs, y.limbs).limbs)
    ELSE IF diff.borrow = 0 THEN Canonical(x.sign, diff.limbs)
    ELSE Canonical(y.sign, mag_negate(diff.limbs))
ct_add(x, y) == BySigns(x, y, mag_sub(x.limbs, y.limbs))

ct_sub(x, y) == ct_add(x, wrapping_neg(y))

\* The short path, for operands of less than a quarter of the width.
ShortBySigns(x, y, la, lb, diff) ==
    IF x.sign = y.sign THEN Canonical(x.sign, mag_add_short(x.limbs, y.limbs, la, lb).limbs)
    ELSE IF diff.borrow = 0 THEN Canonical(x.sign, diff.limbs)
    ELSE Canonical(y.sign, mag_sub_short(y.limbs, x.limbs, lb, la).limbs)
AddOfLengths(x, y, la, lb) ==
    IF Max({la, lb}) * 4 >= Width(x.limbs) THEN ct_add(x, y)
    ELSE ShortBySigns(x, y, la, lb, mag_sub_short(x.limbs, y.limbs, la, lb))
vt_add(x, y) == AddOfLengths(x, y, mag_effective_len(x.limbs), mag_effective_len(y.limbs))

vt_sub(x, y) == vt_add(x, wrapping_neg(y))

ct_mul(x, y) == Canonical((x.sign + y.sign) % 2, mag_mul(x.limbs, y.limbs))

MulOfLengths(x, y, la, lb) ==
    IF la * lb * 4 < Width(x.limbs) * Width(x.limbs) THEN mag_mul_short(x.limbs, y.limbs, la, lb)
    ELSE mag_mul(x.limbs, y.limbs)
vt_mul(x, y) ==
    Canonical((x.sign + y.sign) % 2,
              MulOfLengths(x, y, mag_effective_len(x.limbs), mag_effective_len(y.limbs)))

\* The sum of a sequence, positive and negative terms in accumulators of
\* their own with a word to spare, subtracted once at the end.
mac_finalize(pos, neg) ==
    LET n == Width(pos.limbs)
        diff == mag_sub(pos.limbs, neg.limbs)
    IN  IF pos.carry - neg.carry - diff.borrow >= 0 THEN Big(0, diff.limbs)
        ELSE Canonical(1, mag_negate(diff.limbs))

mac_step(t, s) == [limbs |-> s.limbs, carry |-> t.carry + s.carry]
mac_totals(terms, n, sign) ==
    LET total[i \in 0 .. Len(terms)] ==
            IF i = 0 THEN [limbs |-> Zeros(n), carry |-> 0]
            ELSE mac_step(total[i - 1],
                          mag_add(total[i - 1].limbs,
                                  IF terms[i].sign = sign THEN terms[i].limbs ELSE Zeros(n)))
    IN  total
mac_of_sign(terms, n, sign) == mac_totals(terms, n, sign)[Len(terms)]
mac_sum(terms, n) == mac_finalize(mac_of_sign(terms, n, 0), mac_of_sign(terms, n, 1))

\* The order of two BigInts as 1, 0 and -1; a negative zero is not negative.
is_negative(x) == x.sign = 1 /\ ~mag_is_zero(x.limbs)

cmp(x, y) ==
    CASE ~is_negative(x) /\ ~is_negative(y) -> mag_cmp(x.limbs, y.limbs)
      [] is_negative(x) /\ is_negative(y)   -> mag_cmp(y.limbs, x.limbs)
      [] is_negative(x) /\ ~is_negative(y)  -> -1
      [] ~is_negative(x) /\ is_negative(y)  -> 1

ct_eq(x, y) ==
    \/ mag_is_zero(x.limbs) /\ mag_is_zero(y.limbs)
    \/ x.sign = y.sign /\ x.limbs = y.limbs

shl(x, s) == Big(x.sign, mag_shl(x.limbs, s))
shr(x, s) == Canonical(x.sign, mag_shr(x.limbs, s))

is_odd(x) == x.limbs[0] % 2 = 1

-----------------------------------------------------------------------------
(* Width and bytes *)

resize_unchecked(x, n) ==
    Big(x.sign, [i \in 0 .. n - 1 |-> IF i < Width(x.limbs) THEN x.limbs[i] ELSE 0])

NoBig == [sign |-> 0, limbs |-> << >>]

narrow_to(x, n) ==
    IF \E i \in n .. Width(x.limbs) - 1 : x.limbs[i] # 0 THEN NoBig ELSE resize_unchecked(x, n)

\* Two's complement, least significant byte first, with a limb for a byte:
\* the top bit is the sign, and a negative number is its flipped bytes plus 1.
from_bytes_le_signed(bytes, n) ==
    LET len == Len(bytes)
        flip == bytes[len] >= Base \div 2
        limbs == [i \in 0 .. n - 1 |-> IF i >= len THEN 0
                     ELSE IF flip THEN Base - 1 - bytes[i + 1] ELSE bytes[i + 1]]
    IN  IF flip THEN Big(1, mag_add(limbs, OneLimb(1, n)).limbs) ELSE Big(0, limbs)

=============================================================================
