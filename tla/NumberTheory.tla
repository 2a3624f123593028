---------------------------- MODULE NumberTheory ----------------------------
(***************************************************************************)
(* Arithmetic modulo an odd number: MontReducer, and what BigInt builds on *)
(* it: powers, roots, symbols, Cornacchia's algorithm, primality and       *)
(* sampling.  A reducer is the modulus, its negated inverse modulo a limb  *)
(* and R^2, R being one more than the largest magnitude.                   *)
(***************************************************************************)
EXTENDS LongDivision

CONSTANT NewtonBits      \* the word of the Newton iteration, 64 in the code

\* TLC's integers have 32 bits: a product of two words must fit.
ASSUME NewtonAssumption == NewtonBits \in LimbBits .. 15

Xor2(x) == IF (x \div 2) % 2 = 0 THEN x + 2 ELSE x - 2

\* -1/u modulo the word: five bits from the seed, doubled four times.
neg_inv_mod_2_64(u) ==
    LET M == 2^NewtonBits
        x[i \in 0 .. 4] ==
            IF i = 0 THEN Xor2((3 * u) % M)
            ELSE (x[i - 1] * ((2 - ((u * x[i - 1]) % M)) % M)) % M
    IN  (- x[4]) % M

\* 2^(2 bits) mod n: R from the largest magnitude, doubled once for each bit.
LessModulus(double, less) == IF double.carry = 1 \/ less.borrow = 0 THEN less.limbs ELSE double.limbs
Lowered(double, n) == LessModulus(double, mag_sub(double.limbs, n))
DoubledFrom(r, n) == Iterated(LAMBDA x, i : Lowered(mag_add(x, x), n), r, LimbBits * Width(n))

compute_r_squared(n) ==
    LET rest == mag_div_rem([k \in DOMAIN n |-> Base - 1], n).r
    IN  DoubledFrom(Lowered([limbs |-> mag_add(rest, OneLimb(1, Width(n))).limbs, carry |-> 0], n), n)

HasReducer(m) == m.limbs[0] % 2 = 1

Reducer(m) ==
    [n |-> m.limbs, n_inv_neg |-> neg_inv_mod_2_64(m.limbs[0]) % Base,
     r_squared |-> compute_r_squared(m.limbs)]

-----------------------------------------------------------------------------
\* One limb is cleared by a multiple of n and shifted out; t_n is the limb
\* above t, and the carry that leaves is returned.
ShiftedOut(row, t_n) ==
    LET w == Width(row.limbs)
    IN  [limbs |-> Table([i \in 0 .. w - 1 |-> IF i < w - 1 THEN row.limbs[i + 1]
                                              ELSE (t_n + row.carry) % Base]),
         carry |-> (t_n + row.carry) \div Base]

Cleared(ctx, t, t_n) == ShiftedOut(Row(t, (t[0] * ctx.n_inv_neg) % Base, ctx.n, 0, Width(t)), t_n)

\* Mutant: the limb above is forgotten.
MutLastSubtraction(ctx, t, t_n) ==
    IF mag_cmp(t, ctx.n) # -1 THEN mag_sub(t, ctx.n).limbs ELSE t

LastSubtraction(ctx, t, t_n) ==
    IF t_n # 0 \/ mag_cmp(t, ctx.n) # -1 THEN mag_sub(t, ctx.n).limbs ELSE t

\* a b / R: a row of the product, then one limb cleared, N times.
WithCarry(low, top) == [t |-> low.limbs, t_n |-> (top \div Base + low.carry) % Base]
ClearedRow(ctx, row, top) == WithCarry(Cleared(ctx, row.limbs, top % Base), top)
MontRow(ctx, row, t_n) == ClearedRow(ctx, row, t_n + row.carry)
MontRowOf(ctx, s, a, x) == MontRow(ctx, Row(s.t, x, a, 0, Width(a)), s.t_n)

Subtracted(ctx, end) == LastSubtraction(ctx, end.t, end.t_n)
mont_mul(ctx, a, b) ==
    Subtracted(ctx, Iterated(LAMBDA s, i : MontRowOf(ctx, s, a, b[i - 1]),
                             [t |-> Zeros(Width(a)), t_n |-> 0], Width(a)))

to_montgomery(ctx, x) == mont_mul(ctx, x, ctx.r_squared)
reduce_montgomery(ctx, x) == mont_mul(ctx, x, OneLimb(1, Width(x)))

\* a squared, in twice its width.
CrossRow(row, at) == [row.limbs EXCEPT ![at] = row.carry]
square_wide(a) ==
    LET w == Width(a)
    IN  DoubledPlusDiagonal(
            [k \in 0 .. 2 * w - 1 |-> LimbAt(a, k)],
            Iterated(LAMBDA cross, i :
                        CrossRow(Row(cross, a[i - 1], [j \in 0 .. w - i - 1 |-> a[i + j]], 2 * i - 1, w - i),
                                 w + i - 1),
                     Zeros(2 * w), w))

\* REDC on the wide square: a window of N limbs and two more slides up, the
\* second of which takes the carry with wrapping_add.
SlidTo(low, next, lost) == [t |-> low.limbs, t_n |-> next % Base, lost |-> lost \/ next >= Base]
Slid(low, above, lost) == SlidTo(low, above + low.carry, lost)
RedcStep(ctx, s, above) == Slid(Cleared(ctx, s.t, s.t_n), above, s.lost)
RedcWindows(ctx, wide) ==
    LET w == Width(ctx.n)
    IN  Iterated(LAMBDA s, i : RedcStep(ctx, s, LimbAt(wide, w + i)),
                 [t |-> [k \in 0 .. w - 1 |-> wide[k]], t_n |-> wide[w], lost |-> FALSE], w)

reduce_wide(ctx, wide) == Subtracted(ctx, RedcWindows(ctx, wide))

mont_square(ctx, a) == reduce_wide(ctx, square_wide(a))

mul_mod(ctx, x, y) ==
    Big(0, reduce_montgomery(ctx, mont_mul(ctx, to_montgomery(ctx, x.limbs), to_montgomery(ctx, y.limbs))))

FourSquarings(ctx, x) == Iterated(LAMBDA y, i : mont_square(ctx, y), x, 4)

\* The powers of the base, and the window of the exponent, of four bits.
PowerTable(ctx, base_m) ==
    Iterated(LAMBDA power, i : Append(power, mont_mul(ctx, power[i + 1], base_m)),
             <<reduce_montgomery(ctx, ctx.r_squared), base_m>>, 14)

WindowOf(exp, i) ==
    LET bit(k) == IF k < LimbBits * Width(exp.limbs) THEN BitOf(exp.limbs, k) ELSE 0
    IN  bit(4 * i) + 2 * bit(4 * i + 1) + 4 * bit(4 * i + 2) + 8 * bit(4 * i + 3)

\* From the top: the first window squares nothing and an empty one multiplies
\* nothing.
ByWindow(ctx, r, table, window) == IF window = 0 THEN r ELSE mont_mul(ctx, r, table[window + 1])
ByWindows(ctx, table, exp, nibbles) ==
    Iterated(LAMBDA r, i : ByWindow(ctx, IF i = 1 THEN r ELSE FourSquarings(ctx, r), table,
                                    WindowOf(exp, nibbles - i)),
             table[1], nibbles)

pow_mont(ctx, base, exp) ==
    ByWindows(ctx, PowerTable(ctx, to_montgomery(ctx, mag_div_rem(base.limbs, ctx.n).r)), exp,
              (mag_bitsize(exp.limbs) + 3) \div 4)

mont_pow(ctx, base, exp) == Big(0, reduce_montgomery(ctx, pow_mont(ctx, base, exp)))

\* The even modulus takes the bits one by one, each step a division.
SchoolbookStep(r, base, exp, m, i) == IF BitOf(exp.limbs, i) = 1 THEN vt_mod(vt_mul(r, base), m) ELSE r
pow_mod_schoolbook(base, exp, m) ==
    LET bits == mag_bitsize(exp.limbs)
    IN  Iterated(LAMBDA r, i : SchoolbookStep(vt_mod(vt_mul(r, r), m), base, exp, m, bits - i),
                 SmallBig(1, Width(m.limbs)), bits)

pow_mod(base, exp, m) ==
    IF HasReducer(m) THEN mont_pow(Reducer(m), base, exp) ELSE pow_mod_schoolbook(base, exp, m)

\* At a working width of w limbs, and back.
pow_mod_w(base, exp, m, w) ==
    LET base_w == resize_unchecked(base, w)
        exp_w == resize_unchecked(exp, w)
        m_w == resize_unchecked(m, w)
        r == pow_mod(base_w, exp_w, m_w)
    IN  narrow_to(r, Width(m.limbs))

-----------------------------------------------------------------------------
(* Roots, symbols, primes and norm equations over BigInt: what the samplers*)
(* of ideals and the norm solver ask of the integers.                      *)

CONSTANTS TrialWords,    \* sets of small primes, each with its product in a limb
          Witnesses,     \* the bases of the Miller-Rabin rounds, in their order
          PrimeWidths,   \* the widths is_probable_prime_auto may choose
          NormWidths     \* the widths cornacchia_auto may choose

ASSUME TrialAssumption ==
    \A word \in TrialWords : FoldSet(LAMBDA p, r : p * r, 1, word) < Base

ASSUME WitnessAssumption == \A i \in DOMAIN Witnesses : Witnesses[i] \in Word

Less(x, y) == cmp(x, y) = -1
One(x) == SmallBig(1, Width(x.limbs))
Minus1(m) == vt_sub(m, One(m))

\* The floor of the square root, a bit at a time from the top.
Lower(x, root, tried) == IF cmp(vt_mul(tried, tried), x) = 1 THEN root ELSE tried
TryBit(x, root, k) == Lower(x, root, vt_add(root, shl(One(x), k)))
sqrt_floor(x) ==
    LET top == (mag_bitsize(x.limbs) + 1) \div 2
    IN  Iterated(LAMBDA root, i : TryBit(x, root, top - i), ZeroBig(Width(x.limbs)), top)

\* Square and multiply from the lowest bit.
PowStep(s) ==
    [r |-> IF s.e % 2 = 1 THEN vt_mul(s.r, s.b) ELSE s.r, b |-> vt_mul(s.b, s.b), e |-> s.e \div 2]
pow(x, e) ==
    Iterated(LAMBDA s, i : PowStep(s), [r |-> One(x), b |-> x, e |-> e],
             Cardinality({k \in 0 .. 30 : e \div 2^k > 0})).r

\* Of a residue modulo p.
Symbol(a, p) ==
    IF mag_is_zero(a.limbs) THEN 0
    ELSE IF pow_mod(a, shr(Minus1(p), 1), p) = One(p) THEN 1 ELSE -1

legendre(a, p) == Symbol(vt_mod(a, p), p)

-----------------------------------------------------------------------------
(* A square root modulo an odd prime, or none. *)

CheckedRoot(ctx, r, n) == IF mul_mod(ctx, r, r) = n THEN r ELSE NoBig

\* The smallest w from 2 on that is no square.
NonResidue(ctx, m) ==
    Min({w \in 2 .. IntOf(m) :
            mont_pow(ctx, BigOf(w, Width(m.limbs)), shr(Minus1(m), 1)) = Minus1(m)})

\* m = 1 mod 8: the exponents of two in the order are taken off one by one.
\* z has the squares of a non-residue's power of odd order times 2^e.
Squares(ctx, first, e) == Iterated(LAMBDA z, i : Append(z, mul_mod(ctx, z[i], z[i])), <<first>>, e - 1)

TakeOff(ctx, s, z) ==
    [x |-> mul_mod(ctx, s.x, z), y |-> mul_mod(ctx, mul_mod(ctx, s.y, z), z)]

TakeOffAt(ctx, s, z, minus1, f) == IF mont_pow(ctx, s.y, f) = minus1 THEN TakeOff(ctx, s, z) ELSE s
TakenOff(ctx, start, z, minus1, e) ==
    Iterated(LAMBDA s, i : TakeOffAt(ctx, s, z[i], minus1,
                                     shr(shl(SmallBig(1, Width(ctx.n)), e - 2), i - 1)),
             start, e - 1).x

ShanksBy(ctx, n, m, e, q) ==
    CheckedRoot(ctx,
        TakenOff(ctx,
            [x |-> mont_pow(ctx, n, shr(vt_add(q, One(m)), 1)), y |-> mont_pow(ctx, n, q)],
            Squares(ctx, mont_pow(ctx, BigOf(NonResidue(ctx, m), Width(m.limbs)), q), e),
            Minus1(m), e),
        n)

ShanksFrom(ctx, n, m, e) == ShanksBy(ctx, n, m, e, shr(Minus1(m), e))
TonelliShanks(ctx, n, m) == ShanksFrom(ctx, n, m, mag_trailing_zeros(Minus1(m).limbs))

\* m = 5 mod 8: the quarter power says which of two closed forms applies.
RootModFiveEight(ctx, n, m) ==
    LET w == Width(m.limbs)
        plus3 == shr(vt_add(m, SmallBig(3, w)), 3)
        minus5 == shr(vt_sub(m, SmallBig(5, w)), 3)
        r == mul_mod(ctx, mul_mod(ctx, SmallBig(2, w), n),
                     mont_pow(ctx, mul_mod(ctx, n, SmallBig(4, w)), minus5))
    IN  IF mont_pow(ctx, n, shr(Minus1(m), 2)) = One(m) THEN mont_pow(ctx, n, plus3)
        ELSE CheckedRoot(ctx, r, n)

RootOf(ctx, n, m) ==
    IF mag_is_zero(n.limbs) THEN n
    ELSE IF m.limbs[0] % 4 = 3 THEN CheckedRoot(ctx, mont_pow(ctx, n, shr(vt_add(m, One(m)), 2)), n)
    ELSE IF m.limbs[0] % 8 = 5 THEN RootModFiveEight(ctx, n, m)
    ELSE TonelliShanks(ctx, n, m)

modular_sqrt(n, m) == RootOf(Reducer(m), vt_mod(n, m), m)

\* At a working width of w limbs, and back.
NarrowedRoot(r, n) == IF r = NoBig THEN NoBig ELSE narrow_to(r, n)
modular_sqrt_w(n, m, w) ==
    NarrowedRoot(modular_sqrt(resize_unchecked(n, w), resize_unchecked(m, w)), Width(m.limbs))

legendre_w(a, p, w) == legendre(resize_unchecked(a, w), resize_unchecked(p, w))

\* The narrowest of the widths with a limb to spare for x, or wmax.
NarrowWidth(x, widths, wmax) ==
    LET need == (mag_bitsize(x.limbs) + LimbBits - 1) \div LimbBits + 1
        fit == {w \in widths : w < wmax /\ need <= w}
    IN  IF fit = {} THEN wmax ELSE Min(fit)

-----------------------------------------------------------------------------
(* x^2 + q y^2 = m for a prime m, or no answer. *)

\* Euclid on m and a root of -q, down to the first remainder within sqrt(m).
EuclidAbove(bound, p) == IF cmp(p.s, bound) = 1 THEN [r |-> p.s, s |-> vt_mod(p.r, p.s)] ELSE p
RemaindersTo(bound, m, r0, steps) ==
    Iterated(LAMBDA p, i : EuclidAbove(bound, p), [r |-> m, s |-> r0], steps).s
FirstSmallRemainder(m, r0) == RemaindersTo(sqrt_floor(m), m, r0, 2 * LimbBits * Width(m.limbs))

NoSolution == <<>>

\* x with the root y of the rest over q, if both are whole.
Checked(q, m, x, y, rest) ==
    IF \/ ~mag_is_zero(rest.r.limbs) \/ vt_mul(y, y) # rest.q
       \/ vt_add(vt_mul(x, x), vt_mul(q, vt_mul(y, y))) # m
    THEN NoSolution ELSE <<x, y>>
WithRest(q, m, x, rest) == Checked(q, m, x, sqrt_floor(rest.q), rest)

SquarePair(q, m, x) ==
    IF cmp(vt_mul(x, x), m) = 1 THEN NoSolution
    ELSE WithRest(q, m, x, vt_div_rem(vt_sub(m, vt_mul(x, x)), q))

\* With the root of m when q is zero, and with a root of -q modulo m.
SquareOnly(m, root) ==
    IF vt_mul(root, root) = m THEN <<root, ZeroBig(Width(m.limbs))>> ELSE NoSolution
FromRoot(q, m, r0) == IF r0 = NoBig THEN NoSolution ELSE SquarePair(q, m, FirstSmallRemainder(m, r0))

ByEuclid(q, m, neg_q) ==
    IF pow_mod(neg_q, shr(Minus1(m), 1), m) # One(m) /\ ~mag_is_zero(vt_mod(neg_q, m).limbs)
    THEN NoSolution
    ELSE FromRoot(q, m, modular_sqrt(neg_q, m))

cornacchia(q, m) ==
    IF mag_is_zero(q.limbs) THEN SquareOnly(m, sqrt_floor(m))
    ELSE IF m = SmallBig(2, Width(m.limbs)) THEN IF q = One(m) THEN <<One(m), One(m)>> ELSE NoSolution
    ELSE ByEuclid(q, m, vt_sub(m, vt_mod(q, m)))

ResizedPair(s, n) ==
    IF s = NoSolution THEN s ELSE <<resize_unchecked(s[1], n), resize_unchecked(s[2], n)>>
cornacchia_w(q, m, w) ==
    ResizedPair(cornacchia(resize_unchecked(q, w), resize_unchecked(m, w)), Width(m.limbs))

cornacchia_auto(q, m, wmax) == cornacchia_w(q, m, NarrowWidth(m, NormWidths, wmax))

-----------------------------------------------------------------------------
(* Primes *)

\* Mutant: a small prime rules itself out.
MutFailsTrial(x) == \E word \in TrialWords : \E p \in word : Value(x.limbs) % p = 0

\* The residue modulo a word's product, then modulo each of its primes; a
\* small prime does not rule itself out.
FailsTrial(x) ==
    LET n == Width(x.limbs)
        product(word) == FoldSet(LAMBDA p, r : p * r, 1, word)
    IN  \E word \in TrialWords :
            LET r == vt_mod(x, SmallBig(product(word), n)).limbs[0]
            IN  \E p \in word : r % p = 0 /\ x # SmallBig(p, n)

is_strong_probable_prime(ctx, a, d, s, n_minus_1) ==
    LET top == to_montgomery(ctx, n_minus_1.limbs)
        one == to_montgomery(ctx, OneLimb(1, Width(ctx.n)))
        x[r \in 0 .. s] == IF r = 0 THEN pow_mont(ctx, a, d) ELSE mont_square(ctx, x[r - 1])
    IN  x[0] = one \/ \E r \in 0 .. s - 1 : x[r] = top

is_probable_prime_with_ctx(x, rounds, ctx) ==
    LET s == mag_trailing_zeros(Minus1(x).limbs)
        d == shr(Minus1(x), s)
        base(i) == SmallBig(Witnesses[i], Width(x.limbs))
    IN  \A i \in 1 .. Min({rounds, Len(Witnesses)}) :
            Less(base(i), x) => is_strong_probable_prime(ctx, base(i), d, s, Minus1(x))

is_probable_prime(x, rounds) ==
    LET n == Width(x.limbs)
    IN  /\ ~is_negative(x) /\ ~mag_is_zero(x.limbs) /\ x # One(x)
        /\ \/ x \in {SmallBig(2, n), SmallBig(3, n)}
           \/ is_odd(x) /\ ~FailsTrial(x) /\ is_probable_prime_with_ctx(x, rounds, Reducer(x))

is_probable_prime_w(x, rounds, w) == is_probable_prime(resize_unchecked(x, w), rounds)
is_probable_prime_auto(x, rounds, wmax) ==
    is_probable_prime_w(x, rounds, NarrowWidth(x, PrimeWidths, wmax))

-----------------------------------------------------------------------------
(* Sampling *)

\* What rand_interval may return: whatever bytes the generator gives, those
\* above the length of b - a masked away, drawn again while above b - a.
rand_interval(a, b) ==
    LET bmina == vt_sub(b, a)
        draws == {BigOf(v, Width(a.limbs)) : v \in 0 .. 2^mag_bitsize(bmina.limbs) - 1}
    IN  IF mag_is_zero(bmina.limbs) THEN {a}
        ELSE {vt_add(v, a) : v \in {d \in draws : cmp(d, bmina) # 1}}

=============================================================================
