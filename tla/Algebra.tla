------------------------------- MODULE Algebra -----------------------------
(***************************************************************************)
(* Vectors of four integers and 4x4 matrices of them, by rows: what the    *)
(* bases of lattices are made of; the Hermite normal form of the lattice   *)
(* that a list of them generates; and the elements of the quaternion       *)
(* algebra (-1, -p): four coordinates of 1, i, j, k = ij over a            *)
(* denominator, in lowest terms only once normalized.  The integers are    *)
(* whole; Limbs has how they are kept.                                     *)
(***************************************************************************)
EXTENDS Integers, Sequences, FiniteSets, SequencesExt, Tables

CONSTANTS Ramified,     \* the prime p at which the algebra ramifies
          NarrowBound   \* what fits the narrow width is below this

ASSUME RamifiedAssumption == Ramified \in Nat /\ Ramified % 4 = 3
ASSUME NarrowAssumption == NarrowBound \in Nat \ {0}

-----------------------------------------------------------------------------
(* Vectors and matrices                                                    *)

Axes == 0 .. 3
Vec(a, b, c, d) == (0 :> a @@ 1 :> b @@ 2 :> c @@ 3 :> d)
ZeroVec == [i \in Axes |-> 0]
Unit(i, x) == [ZeroVec EXCEPT ![i] = x]

dot(v, w) == v[0] * w[0] + v[1] * w[1] + v[2] * w[2] + v[3] * w[3]
vec_add(v, w) == Table([i \in Axes |-> v[i] + w[i]])
vec_sub(v, w) == Table([i \in Axes |-> v[i] - w[i]])
vec_neg(v) == Table([i \in Axes |-> - v[i]])
Times(x, v) == Table([i \in Axes |-> x * v[i]])

from_rows(a, b, c, d) == Vec(a, b, c, d)
Identity == [i \in Axes |-> Unit(i, 1)]
column(m, c) == Table([i \in Axes |-> m[i][c]])
transpose(m) == Table([i \in Axes |-> column(m, i)])
eval(m, v) == Table([i \in Axes |-> dot(m[i], v)])
eval_left(m, v) == eval(transpose(m), v)
mat_mul(m, n) == transpose([j \in Axes |-> eval(m, column(n, j))])
columns(m) == Table([c \in Axes |-> column(m, c)])
from_columns(cols) == transpose(cols)

-----------------------------------------------------------------------------
Abs(x) == IF x < 0 THEN - x ELSE x
Sgn(x) == IF x < 0 THEN -1 ELSE IF x = 0 THEN 0 ELSE 1

\* Euclid's division: the remainder is in 0 .. |y| - 1.
Rem(x, y) == x % Abs(y)
Quo(x, y) == Sgn(y) * ((x - Rem(x, y)) \div Abs(y))

\* The greatest common divisor of two magnitudes and the row that gives it.
Bezout[x \in Nat, y \in Nat] ==
    IF y = 0 THEN [g |-> x, u |-> 1, v |-> 0]
    ELSE LET s == Bezout[y, x % y] IN [g |-> s.g, u |-> s.v, v |-> s.u - (x \div y) * s.v]

\* xgcd on signed operands, with cofactors of their signs.
xgcd(x, y) == LET s == Bezout[Abs(x), Abs(y)] IN [s EXCEPT !.u = Sgn(x) * @, !.v = Sgn(y) * @]

-----------------------------------------------------------------------------
\* The axes but one, in order, and the sign that goes with an entry.
Others(i) == SelectSeq(<<0, 1, 2, 3>>, LAMBDA a : a # i)
Alternate(i, j) == IF (i + j) % 2 = 0 THEN 1 ELSE -1

minor3(m, r, c) ==
    m[r[1]][c[1]] * (m[r[2]][c[2]] * m[r[3]][c[3]] - m[r[2]][c[3]] * m[r[3]][c[2]])
    - m[r[1]][c[2]] * (m[r[2]][c[1]] * m[r[3]][c[3]] - m[r[2]][c[3]] * m[r[3]][c[1]])
    + m[r[1]][c[3]] * (m[r[2]][c[1]] * m[r[3]][c[2]] - m[r[2]][c[2]] * m[r[3]][c[1]])

\* Expanded along the first row.
det(m) == m[0][0] * minor3(m, Others(0), Others(0)) - m[0][1] * minor3(m, Others(0), Others(1))
          + m[0][2] * minor3(m, Others(0), Others(2)) - m[0][3] * minor3(m, Others(0), Others(3))

adjugate(m) == [j \in Axes |-> [i \in Axes |-> Alternate(i, j) * minor3(m, Others(i), Others(j))]]

\* The minors of the row pairs (0, 1) and (2, 3), of which cofactors and
\* determinant are made.
Minor2(m, pair, c, d) == m[pair][c] * m[pair + 1][d] - m[pair][d] * m[pair + 1][c]

\* Mutant: the partner's entry in the middle is added, not taken away.
MutCofactorOf(m, i, j) ==
    LET o == Others(j)
        partner == m[IF i % 2 = 0 THEN i + 1 ELSE i - 1]
        pair == IF i < 2 THEN 2 ELSE 0
    IN  Alternate(i, j) * (partner[o[1]] * Minor2(m, pair, o[2], o[3])
                           + partner[o[2]] * Minor2(m, pair, o[1], o[3])
                           + partner[o[3]] * Minor2(m, pair, o[1], o[2]))

CofactorOf(m, i, j) ==
    LET o == Others(j)
        partner == m[IF i % 2 = 0 THEN i + 1 ELSE i - 1]
        pair == IF i < 2 THEN 2 ELSE 0
    IN  Alternate(i, j) * (partner[o[1]] * Minor2(m, pair, o[2], o[3])
                           - partner[o[2]] * Minor2(m, pair, o[1], o[3])
                           + partner[o[3]] * Minor2(m, pair, o[1], o[2]))

cofactor_and_det(m) ==
    LET S(c, d) == Minor2(m, 0, c, d)
        T(c, d) == Minor2(m, 2, c, d)
    IN  [cofactor |-> [i \in Axes |-> [j \in Axes |-> CofactorOf(m, i, j)]],
         det |-> S(0, 1) * T(2, 3) - S(0, 2) * T(1, 3) + S(0, 3) * T(1, 2)
                 + S(1, 2) * T(0, 3) - S(1, 3) * T(0, 2) + S(2, 3) * T(0, 1)]

NoMatrix == << >>
scalar_div(m, s) ==
    IF \E i, j \in Axes : Rem(m[i][j], s) # 0 THEN NoMatrix
    ELSE [i \in Axes |-> [j \in Axes |-> Quo(m[i][j], s)]]

-----------------------------------------------------------------------------
(* The Hermite normal form of the lattice that columns generate, in the    *)
(* three ways of the code, a pivot row at a time from the last.  Columns   *)
(* are numbered from 0; `peak` is the largest sum of the two multipliers   *)
(* of a step: times the modulus, it bounds what the working width holds.   *)

Larger(x, y) == IF x > y THEN x ELSE y
Tally(peak, x, y) == Larger(peak, Abs(x) + Abs(y))

\* x * v + y * w.
LinComb(x, v, y, w) == vec_add(Times(x, v), Times(y, w))
Count(a) == Cardinality(DOMAIN a)
Down(n) == [i \in 1 .. n |-> n - i]        \* n - 1, ..., 0
Up(n, c) == [i \in 1 .. c - n |-> n + i - 1] \* n, ..., c - 1

-----------------------------------------------------------------------------
(* from_hnf_columns, over the integers *)

\* Mutant: only the column that gets the gcd is replaced.
MutCombineClassic(a, k, j) ==
    LET s == xgcd(a[k][k], a[j][k])
    IN  IF a[k][k] = 0 /\ a[j][k] = 0 THEN a ELSE [a EXCEPT ![k] = LinComb(s.u, a[k], s.v, a[j])]

\* The unimodular step on the pair (k, j), which clears the entry of j in
\* row k.
CombineClassic(a, k, j) ==
    LET x == a[k][k]
        y == a[j][k]
        s == xgcd(x, y)
    IN  IF x = 0 /\ y = 0 THEN a
        ELSE [a EXCEPT ![k] = LinComb(s.u, a[k], s.v, a[j]),
                       ![j] = LinComb(Quo(x, s.g), a[j], - Quo(y, s.g), a[k])]

\* The columns before the pivot's, the nearest first, then those past the
\* fourth.
GatherClassic(a, pivot) ==
    FoldLeft(LAMBDA b, j : CombineClassic(b, pivot, j), a, Down(pivot) \o Up(4, Count(a)))

\* The other columns less the multiple of the pivot's that leaves them a
\* remainder in the pivot's row.
ReduceClassic(a, pivot) ==
    LET up == IF a[pivot][pivot] < 0 THEN vec_neg(a[pivot]) ELSE a[pivot]
        Less(v) == vec_sub(v, Times(Quo(v[pivot], up[pivot]), up))
    IN  IF up[pivot] = 0 THEN a
        ELSE Table([j \in DOMAIN a |-> IF j = pivot THEN up ELSE Less(a[j])])

ClassicRow(a, pivot) == ReduceClassic(GatherClassic(a, pivot), pivot)
FirstFour(a) == from_columns([c \in Axes |-> a[c]])
from_hnf_columns(cols) == FirstFour(FoldLeft(ClassicRow, cols, <<3, 2, 1, 0>>))
hnf(m) == from_hnf_columns(columns(m))

-----------------------------------------------------------------------------
(* from_hnf_columns_mod, with the columns of the modulus appended *)

Reduced(v, modulus) == Table([i \in Axes |-> Rem(v[i], modulus)])

\* x * y modulo m below 2^22, a byte of y at a time: TLC's integers are short.
ModTimes(x, y, m) ==
    LET a == x % m
        b == y % m
        Byte(r, shift) == (r * 256 + a * ((b \div shift) % 256)) % m
    IN  Byte(Byte(Byte(0, 65536), 256), 1)
ModComb(x, v, y, w, m) == Table([i \in Axes |-> (ModTimes(x, v[i], m) + ModTimes(y, w[i], m)) % m])

\* The signed representative, but for the modulus itself.
Centered(x, modulus) == IF 2 * x > modulus /\ x < modulus THEN x - modulus ELSE x

ModStart(cols, modulus) ==
    LET n == Count(cols)
    IN  [pivot |-> 3, peak |-> 0,
         a |-> Table([j \in 0 .. n + 3 |-> IF j < n THEN Reduced(cols[j], modulus) ELSE Unit(j - n, modulus)])]

CombineMod(s, k, j, modulus) ==
    LET x == Centered(s.a[k][k], modulus)
        y == Centered(s.a[j][k], modulus)
        e == xgcd(x, y)
        gcd_col == ModComb(e.u, s.a[k], e.v, s.a[j], modulus)
        orthogonal == ModComb(Quo(x, e.g), s.a[j], - Quo(y, e.g), s.a[k], modulus)
    IN  IF s.a[j][k] = 0 THEN s
        ELSE [s EXCEPT !.peak = Tally(Tally(@, e.u, e.v), Quo(x, e.g), Quo(y, e.g)),
                       !.a = [@ EXCEPT ![k] = gcd_col, ![j] = orthogonal]]

GatherMod(s, modulus) ==
    FoldLeft(LAMBDA t, j : CombineMod(t, s.pivot, j, modulus), s, Down(s.pivot) \o Up(4, Count(s.a)))

\* A pivot that vanishes is the modulus.
OwnPivot(a, pivot, modulus) ==
    IF a[pivot][pivot] = 0 THEN [a EXCEPT ![pivot] = Unit(pivot, modulus)] ELSE a

\* Columns before the pivot lose a quotient and those after it are brought
\* into 0 .. pivot - 1: the same subtraction.
ReduceMod(a, pivot, modulus) ==
    LET up == a[pivot]
        Less(v) == ModComb(1, v, - Quo(v[pivot], up[pivot]), up, modulus)
    IN  IF up[pivot] = 0 THEN a
        ELSE Table([j \in DOMAIN a |-> IF j = pivot \/ Quo(a[j][pivot], up[pivot]) = 0 THEN a[j]
                                       ELSE Less(a[j])])

ModRow(s, modulus) ==
    LET g == GatherMod(s, modulus)
    IN  [g EXCEPT !.pivot = @ - 1, !.a = ReduceMod(OwnPivot(@, s.pivot, modulus), s.pivot, modulus)]

from_hnf_columns_mod(cols, modulus) ==
    FirstFour(FoldLeft(LAMBDA s, i : ModRow(s, modulus), ModStart(cols, modulus), <<1, 2, 3, 4>>).a)

-----------------------------------------------------------------------------
(* from_hnf_columns_mod_cref, with a modulus that shrinks *)

centered_mod(x, m) == IF 2 * Rem(x, m) > m THEN Rem(x, m) - m ELSE Rem(x, m)
vec_centered_mod_m(v, m) == Table([i \in Axes |-> centered_mod(v[i], m)])

\* Division that rounds to zero.
TruncQuo(x, y) == Sgn(x) * Sgn(y) * (Abs(x) \div Abs(y))

\* A gcd whose first cofactor is not zero.
NonZeroCofactor(x, y) ==
    LET s == xgcd(x, y)
    IN  IF s.u = 0 /\ x # 0
        THEN [s EXCEPT !.v = @ - TruncQuo(x, IF y = 0 THEN 1 ELSE y), !.u = 1]
        ELSE s

\* The cofactors t steps further.
Moved(s, t, dx, dy) == [s EXCEPT !.u = @ + t * dy, !.v = @ - t * dx]

\* The first that give x * u > 0, and from those back while |u| gets smaller.
FirstPositive(s, x, dx, dy) ==
    LET Ups == {t \in 0 .. 2 : x * (s.u + t * dy) > 0}
    IN  Moved(s, CHOOSE t \in Ups : \A r \in Ups : t <= r, dx, dy)

SmallestPositive(s, x, dx, dy) ==
    LET U(t) == s.u - t * dy
        Improves(t) == x * U(t) > 0 /\ Abs(U(t - 1)) > Abs(U(t))
    IN  Moved(s, IF ~Improves(1) THEN 0 ELSE IF Improves(2) THEN -2 ELSE -1, dx, dy)

PositiveCofactor(s, x, dx, dy) == SmallestPositive(FirstPositive(s, x, dx, dy), x, dx, dy)
StepsOf(s, x, y, sign) == PositiveCofactor(s, x, sign * TruncQuo(x, s.g), sign * TruncQuo(y, s.g))

xgcd_with_u_not_0(x, y) ==
    IF x = 0 /\ y = 0 THEN [g |-> 1, u |-> 1, v |-> 0]
    ELSE IF x = 0 THEN NonZeroCofactor(x, y)
    ELSE StepsOf(NonZeroCofactor(x, y), x, y, IF x * y < 0 THEN -1 ELSE 1)

CrefStart(cols, modulus) ==
    [row |-> 3, k |-> Count(cols) - 1, m |-> modulus, a |-> cols, w |-> [i \in Axes |-> ZeroVec]]

\* Column k gets the gcd e of the entries x and y, and column j loses its own.
CombineBy(s, j, e, x, y) ==
    [s EXCEPT !.a = [@ EXCEPT
        ![j] = vec_centered_mod_m(LinComb(TruncQuo(x, e.g), s.a[j], - TruncQuo(y, e.g), s.a[s.k]), s.m),
        ![s.k] = vec_centered_mod_m(LinComb(e.u, s.a[s.k], e.v, s.a[j]), s.m)]]

CombineCref(s, j) ==
    LET x == s.a[s.k][s.row]
        y == s.a[j][s.row]
    IN  IF y = 0 THEN s ELSE CombineBy(s, j, xgcd_with_u_not_0(x, y), x, y)

GatherCref(s) == FoldLeft(CombineCref, s, Down(s.k))

\* The column that is output for the row, and those output before less its
\* multiples.
Output(s, u) ==
    LET i == s.row
        col == Reduced(Times(u, s.a[s.k]), s.m)
        own == IF col[i] = 0 THEN [col EXCEPT ![i] = s.m] ELSE col
    IN  Table([h \in Axes |-> IF h = i THEN own
                              ELSE IF h > i THEN vec_sub(s.w[h], Times(Quo(s.w[h][i], own[i]), own))
                              ELSE s.w[h]])

Shrunk(m, d) == Quo(m, d)

\* The row is put out, and the modulus and the column are those of the next.
NextRow(g, e) ==
    LET m == Shrunk(g.m, e.g)
        k == g.k - 1
        i == g.row - 1
        last == g.row = 0
    IN  [g EXCEPT !.w = Output(g, e.u), !.m = m, !.row = i, !.k = IF last THEN @ ELSE k,
                  !.a = IF ~last /\ @[k][i] = 0 THEN [@ EXCEPT ![k][i] = m] ELSE @]

RowOf(g) == NextRow(g, xgcd_with_u_not_0(g.a[g.k][g.row], g.m))
CrefRow(s) == RowOf(GatherCref(s))

from_hnf_columns_mod_cref(cols, modulus) ==
    from_columns(FoldLeft(LAMBDA s, i : CrefRow(s), CrefStart(cols, modulus), <<1, 2, 3, 4>>).w)

-----------------------------------------------------------------------------
(* Quaternions                                                             *)

Element(v, denom) == [v |-> v, denom |-> denom]
from_coords(v) == Element(v, 1)
NoElement == [denom |-> 0]
is_zero(x) == x.v = ZeroVec

conjugate(x) == [x EXCEPT !.v = Vec(@[0], - @[1], - @[2], - @[3])]
trace(x) == [numer |-> 2 * x.v[0], denom |-> x.denom]

\* The greatest common divisor of the magnitudes of a sequence.
GcdOf(s) == FoldLeft(LAMBDA g, x : Bezout[g, Abs(x)].g, 0, s)
Content(v) == GcdOf(<<v[0], v[1], v[2], v[3]>>)
Over(v, g) == [i \in Axes |-> Quo(v[i], g)]

\* In lowest terms, over a positive denominator.
normalize(x) ==
    LET g == Bezout[Content(x.v), Abs(x.denom)].g
        s == IF x.denom < 0 THEN -1 ELSE 1
    IN  IF g = 0 THEN x ELSE Element(Times(s, Over(x.v, g)), s * Quo(x.denom, g))

add(x, y) ==
    IF x.denom = y.denom THEN Element(vec_add(x.v, y.v), x.denom)
    ELSE Element(vec_add(Times(y.denom, x.v), Times(x.denom, y.v)), x.denom * y.denom)
sub(x, y) == add(x, Element(vec_neg(y.v), y.denom))
scalar_mul(x, s) == [x EXCEPT !.v = Times(s, @)]

\* The norm of coordinates, and of an element as a fraction.
NormOf(v) == v[0] * v[0] + v[1] * v[1] + Ramified * (v[2] * v[2] + v[3] * v[3])
norm(x) == [numer |-> NormOf(x.v), denom |-> x.denom * x.denom]

\* The multiplication table, with ij = k = -ji, on coordinates.
Product(v, w) ==
    Vec(v[0] * w[0] - v[1] * w[1] - Ramified * (v[2] * w[2] + v[3] * w[3]),
        v[0] * w[1] + v[1] * w[0] + Ramified * (v[2] * w[3] - v[3] * w[2]),
        v[0] * w[2] - v[1] * w[3] + v[2] * w[0] + v[3] * w[1],
        v[0] * w[3] + v[1] * w[2] - v[2] * w[1] + v[3] * w[0])
mul_direct(x, y) == Element(Product(x.v, y.v), x.denom * y.denom)

\* Narrowing is refused when a coordinate does not fit.
FitsNarrow(n) == Abs(n) < NarrowBound
narrow_element(x) ==
    IF FitsNarrow(x.denom) /\ \A i \in Axes : FitsNarrow(x.v[i]) THEN x ELSE NoElement
from_wide(v, denom) == narrow_element(normalize(Element(v, denom)))
mul(x, y) == from_wide(Product(x.v, y.v), x.denom * y.denom)

\* Equality crosses the denominators.
SameElement(x, y) == Times(y.denom, x.v) = Times(x.denom, y.v)

-----------------------------------------------------------------------------
(* The order O0 with basis 1, i, (i + j) / 2, (1 + k) / 2 *)

\* Coordinates in that basis, times the denominator.
ScaledO0(v) == Vec(v[0] - v[3], v[1] - v[2], 2 * v[2], 2 * v[3])

v2[n \in Nat] == IF n = 0 \/ n % 2 = 1 THEN 0 ELSE 1 + v2[n \div 2]

\* The content in O0: what divides every coordinate there.
ContentO0(x) == Quo(Content(ScaledO0(x.v)), x.denom)

\* The element less its content, and the power of two in that.
compute_backtracking(x) ==
    LET y == normalize(x)
        t == IF is_zero(y) THEN 0 ELSE ContentO0(y)
    IN  [element |-> IF t \in {0, 1} THEN y ELSE normalize([y EXCEPT !.denom = @ * t]),
         exponent |-> v2[t]]

ContentOff(y, g) ==
    IF g \in {0, 1} THEN [element |-> y, factor |-> 1]
    ELSE [element |-> normalize([y EXCEPT !.denom = @ * g]), factor |-> g]
PrimitiveOf(y) == ContentOff(y, Content(Vec(y.v[0] - y.v[3], y.v[1] - y.v[2], y.v[2], y.v[3])))
make_primitive_odd(x) == PrimitiveOf(normalize(x))

=============================================================================
