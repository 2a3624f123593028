---------------------------- MODULE LongDivision ---------------------------
(***************************************************************************)
(* Division with remainder of BigInt (Knuth's algorithm D) and the greatest*)
(* common divisors: Stein's, Lehmer's and the extended Euclidean one.  The *)
(* loops of the last three are given a step at a time, for a machine that  *)
(* runs them.                                                              *)
(***************************************************************************)
EXTENDS Limbs

CONSTANT XgcdWidths      \* the widths that xgcd is instantiated at

ASSUME XgcdWidthsAssumption == XgcdWidths \subseteq Nat \ {0}

\* A divisor of one limb: schoolbook from the top, the remainder carried down.
Remainders(a, d) ==      \* of the i highest limbs
    Iterates(LAMBDA r, i : (r * Base + a[Width(a) - i]) % d, 0, Width(a))
ShortDivision(a, d) ==
    LET n == Width(a)
        rem == Remainders(a, d)
    IN  [q |-> [i \in 0 .. n - 1 |-> (rem[n - 1 - i] * Base + a[i]) \div d], r |-> OneLimb(rem[n], n)]

\* Mutant: the estimate as it is.
MutQHat(top, second, third, v_hi, v_2nd) ==
    IF top >= v_hi THEN Base - 1 ELSE (top * Base + second) \div v_hi

\* The quotient digit: an estimate from two limbs, at most Base - 1, that comes
\* down while the second limb of the divisor shows it too large.
TooLarge(q, top2, third, v_hi, v_2nd) ==
    LET r_hat == top2 - q * v_hi IN r_hat < Base /\ q * v_2nd > r_hat * Base + third
QHat(top, second, third, v_hi, v_2nd) ==
    LET top2 == top * Base + second
        estimate == IF top >= v_hi THEN Base - 1 ELSE top2 \div v_hi
    IN  Max({q \in 0 .. estimate : ~TooLarge(q, top2, third, v_hi, v_2nd)})

\* q times v taken from u at limb j; the borrow is a whole word on the way.
DigitBorrows(u, q, v, j, n_b) ==
    LET borrow[i \in 0 .. n_b] ==
            IF i = 0 THEN 0 ELSE - ((u[j + i - 1] - q * v[i - 1] - borrow[i - 1]) \div Base)
    IN  borrow
MultiplySubtract(u, q, v, j, n_b) ==
    LET borrow == DigitBorrows(u, q, v, j, n_b)
    IN  [limbs |-> [k \in DOMAIN u |->
                       IF k \in j .. j + n_b - 1 THEN (u[k] - q * v[k - j] - borrow[k - j]) % Base
                       ELSE IF k = j + n_b THEN (u[k] - borrow[n_b]) % Base ELSE u[k]],
         borrowed |-> u[j + n_b] < borrow[n_b]]

\* v added back once, when the digit was one too large after all.
CarriedUp(row, at) == [row.limbs EXCEPT ![at] = (@ + row.carry) % Base]
AddBack(u, v, j, n_b) == CarriedUp(Row(u, 1, v, j, n_b), j + n_b)

\* Digit j of the quotient: u is one limb longer than the operands.
WithDigit(st, sub, q_hat, v, j, n_b) ==
    IF sub.borrowed THEN [u |-> AddBack(sub.limbs, v, j, n_b), q |-> [st.q EXCEPT ![j] = q_hat - 1]]
    ELSE [u |-> sub.limbs, q |-> [st.q EXCEPT ![j] = q_hat]]

ByEstimate(st, q_hat, v, j, n_b) ==
    WithDigit(st, MultiplySubtract(st.u, q_hat, v, j, n_b), q_hat, v, j, n_b)

DivisionStep(st, v, j, n_b) ==
    ByEstimate(st, QHat(st.u[j + n_b], st.u[j + n_b - 1], st.u[j + n_b - 2], v[n_b - 1], v[n_b - 2]),
               v, j, n_b)

\* The digits from the top, of operands shifted until v has its top bit.
Unshifted(end, n_b, s) ==
    [q |-> end.q,
     r |-> mag_shr([i \in DOMAIN end.q |-> IF i < n_b THEN end.u[i] ELSE 0], s)]

DigitSteps(u, v, n_b, m) ==
    Iterates(LAMBDA st, i : DivisionStep(st, v, m + 1 - i, n_b),
             [u |-> u, q |-> Zeros(Width(v))], m + 1)
QuotientDigits(u, v, s, n_b, m) == Unshifted(DigitSteps(u, v, n_b, m)[m + 1], n_b, s)

ByDigits(a, b, s, n_b, m) ==
    QuotientDigits(mag_shl([i \in 0 .. Width(a) |-> IF i < Width(a) THEN a[i] ELSE 0], s), mag_shl(b, s),
           s, n_b, m)

DivideBy(a, b, n_b) ==
    IF mag_effective_len(a) < n_b THEN [q |-> Zeros(Width(a)), r |-> a]
    ELSE IF n_b = 1 THEN ShortDivision(a, b[0])
    ELSE ByDigits(a, b, LimbBits - nbits64(b[n_b - 1]), n_b, mag_effective_len(a) - n_b)

mag_div_rem(a, b) == DivideBy(a, b, mag_effective_len(b))

\* A bit at a time from the top, as long as the shifted divisor fits.
BitStep(st, b, bit) ==
    LET less == mag_sub(st.r, mag_shl(b, bit))
    IN  IF mag_is_zero(b) \/ less.borrow = 1 \/ bit + mag_bitsize(b) > LimbBits * Width(b) THEN st
        ELSE [r |-> less.limbs,
              q |-> [st.q EXCEPT ![bit \div LimbBits] = @ + 2^(bit % LimbBits)]]
BitSteps(a, b) ==
    Iterates(LAMBDA st, i : BitStep(st, b, LimbBits * Width(a) - i),
             [r |-> a, q |-> Zeros(Width(a))], LimbBits * Width(a))
mag_div_rem_bitwise(a, b) == BitSteps(a, b)[LimbBits * Width(a)]

\* The remainder is never negative: a negative dividend with a remainder
\* takes a quotient of one more in size and the rest of the divisor.
Floored(x, d, qr) ==
    IF x.sign = 1 /\ ~mag_is_zero(qr.r)
    THEN [q |-> Canonical((x.sign + d.sign) % 2, mag_add(qr.q, OneLimb(1, Width(x.limbs))).limbs),
          r |-> Big(0, mag_sub(d.limbs, qr.r).limbs)]
    ELSE [q |-> Canonical((x.sign + d.sign) % 2, qr.q), r |-> Big(0, qr.r)]

vt_div_rem(x, d) == Floored(x, d, mag_div_rem(x.limbs, d.limbs))

vt_mod(x, d) == vt_div_rem(x, d).r
vt_divides(d, x) == mag_is_zero(vt_mod(x, d).limbs)

-----------------------------------------------------------------------------
(* Stein's gcd: both operands odd, the smaller taken from the larger. *)

DropZeros(a) == mag_shr(a, mag_trailing_zeros(a))

SteinStart(a, b) ==
    LET shift == Min({mag_trailing_zeros(a), mag_trailing_zeros(b)})
    IN  [a |-> DropZeros(mag_shr(a, shift)), b |-> mag_shr(b, shift), shift |-> shift]

SteinStep(s) ==
    LET odd == DropZeros(s.b)
        swap == mag_cmp(s.a, odd) = 1
    IN  IF swap THEN [s EXCEPT !.a = odd, !.b = mag_sub(s.a, odd).limbs]
        ELSE [s EXCEPT !.b = mag_sub(odd, s.a).limbs]

-----------------------------------------------------------------------------
(* Lehmer's gcd: many steps of Euclid's algorithm on the leading words. *)

\* The word of a below the leading bit of an array of len limbs.
top_word(a, len, s) ==
    IF s = 0 THEN a[len - 1]
    ELSE (a[len - 1] * 2^s + (IF len >= 2 THEN a[len - 2] ELSE 0) \div 2^(LimbBits - s)) % Base

\* Mutant: one quotient, whether the limbs below may change it or not.
MutCofactors(a_hat, b_hat) ==
    IF b_hat = 0 THEN [u |-> a_hat, v |-> b_hat, a00 |-> 1, a01 |-> 0, a10 |-> 0, a11 |-> 1, steps |-> 0]
    ELSE [u |-> b_hat, v |-> a_hat % b_hat, a00 |-> 0, a01 |-> 1, a10 |-> 1,
          a11 |-> - (a_hat \div b_hat), steps |-> 1]

\* The next quotient of the two words, and whether it holds whatever the limbs
\* below them are.
NextQuotient(c) == (c.u + c.a00) \div (c.v + c.a10)
Sure(c) ==
    /\ c.v + c.a10 # 0 /\ c.v + c.a11 # 0
    /\ NextQuotient(c) = (c.u + c.a01) \div (c.v + c.a11)

\* The words after the quotient q, and the matrix with it: from step to step
\* its entries change their signs.
Taken(c, q, i) ==
    [u |-> c.v, v |-> c.u - q * c.v, a00 |-> c.a10, a01 |-> c.a11,
     a10 |-> c.a00 - q * c.a10, a11 |-> c.a01 - q * c.a11, steps |-> i]

\* The quotients that are sure, until one is not.  No word has more of them
\* than twice its bits.
TakeSure(c, i) == IF c.steps < i - 1 \/ ~Sure(c) THEN c ELSE Taken(c, NextQuotient(c), i)
CofactorSteps(a_hat, b_hat) ==
    Iterates(LAMBDA c, i : TakeSure(c, i),
             [u |-> a_hat, v |-> b_hat, a00 |-> 1, a01 |-> 0, a10 |-> 0, a11 |-> 1, steps |-> 0],
             2 * LimbBits + 1)
Cofactors(a_hat, b_hat) == CofactorSteps(a_hat, b_hat)[2 * LimbBits + 1]

Scaled(a, x) == Row(Zeros(Width(a)), x, a, 0, Width(a)).limbs

\* One row of the matrix: at most one of the two entries is negative.
CofactorRow(a, b, c0, c1) ==
    CASE c0 >= 0 /\ c1 >= 0 -> mag_add(Scaled(a, c0), Scaled(b, c1)).limbs
      [] c0 >= 0 /\ c1 < 0  -> mag_sub(Scaled(a, c0), Scaled(b, -c1)).limbs
      [] c0 < 0 /\ c1 >= 0  -> mag_sub(Scaled(b, c1), Scaled(a, -c0)).limbs
      [] c0 < 0 /\ c1 < 0   -> Zeros(Width(a))

Ordered(a, b) == IF mag_cmp(a, b) = -1 THEN [a |-> b, b |-> a] ELSE [a |-> a, b |-> b]

\* One limb is left of b: Euclid on words.
LastWord(a, b) ==
    LET d == b[0]
        euclid[p \in (0 .. Base) \X (0 .. Base)] ==
            IF p[2] = 0 THEN p[1] ELSE euclid[<<p[2], p[1] % p[2]>>]
    IN  [a |-> OneLimb(euclid[<<d, ShortDivision(a, d).r[0]>>], Width(a)), b |-> Zeros(Width(b))]

LehmerStep(s) ==
    LET len_a == mag_effective_len(s.a)
        shift == LimbBits - nbits64(s.a[len_a - 1])
        c == Cofactors(top_word(s.a, len_a, shift), top_word(s.b, len_a, shift))
    IN  IF mag_effective_len(s.b) = 1 THEN LastWord(s.a, s.b)
        ELSE IF c.steps = 0 THEN [a |-> s.b, b |-> mag_div_rem(s.a, s.b).r]
        ELSE Ordered(CofactorRow(s.a, s.b, c.a00, c.a01), CofactorRow(s.a, s.b, c.a10, c.a11))

-----------------------------------------------------------------------------
(* Euclid's extended algorithm, with both cofactors. *)

\* The width the operands need, or the one they came in.
XgcdWidth(x, y) ==
    LET n == Width(x.limbs)
        needed == Max({mag_bitsize(x.limbs), mag_bitsize(y.limbs)}) \div LimbBits + 2
        fit == {m \in XgcdWidths : m < n /\ needed <= m}
    IN  IF fit = {} THEN n ELSE Min(fit)

XgcdStart(x, y) ==
    LET n == XgcdWidth(x, y)
    IN  [a |-> absolute(resize_unchecked(x, n)), b |-> absolute(resize_unchecked(y, n)),
         x_a |-> SmallBig(1, n), y_a |-> ZeroBig(n), x_b |-> ZeroBig(n), y_b |-> SmallBig(1, n)]

XgcdStep(s) ==
    LET qr == vt_div_rem(s.a, s.b)
    IN  [a |-> s.b, b |-> qr.r, x_a |-> s.x_b, y_a |-> s.y_b,
         x_b |-> vt_sub(s.x_a, vt_mul(qr.q, s.x_b)), y_b |-> vt_sub(s.y_a, vt_mul(qr.q, s.y_b))]

WithSignOf(x, c) == IF x.sign = 1 THEN wrapping_neg(c) ELSE Canonical(c.sign, c.limbs)

\* A zero operand is settled before the loop: the gcd is the other one, whose
\* cofactor is its sign.
XgcdOfZero(x, y) ==
    LET n == Width(x.limbs)
        one == SmallBig(1, n)
    IN  IF mag_is_zero(x.limbs)
        THEN [g |-> absolute(y), x |-> ZeroBig(n), y |-> WithSignOf(y, one)]
        ELSE [g |-> absolute(x), x |-> WithSignOf(x, one), y |-> ZeroBig(n)]

XgcdEnd(x, y, s) ==
    LET n == Width(x.limbs)
    IN  [g |-> resize_unchecked(s.a, n), x |-> resize_unchecked(WithSignOf(x, s.x_a), n),
         y |-> resize_unchecked(WithSignOf(y, s.y_a), n)]

\* From what xgcd returns for x and m.
invert_mod(gxy, m) ==
    IF gxy.g = SmallBig(1, Width(m.limbs)) THEN vt_mod(gxy.x, m) ELSE NoBig

=============================================================================
