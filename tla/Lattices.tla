------------------------------ MODULE Lattices ------------------------------
(***************************************************************************)
(* Lattices of rank four in the algebra: the columns of a basis, over a    *)
(* denominator.  Sums, products and intersections are computed in several  *)
(* ways, by the width that each has to spare; and reduced bases, for the   *)
(* norm form of the algebra, by the L2 algorithm.                          *)
(***************************************************************************)
EXTENDS Algebra

Lattice(basis, denom) == [basis |-> basis, denom |-> denom]
NoLattice == [denom |-> 0]
from_matrix(m) == Lattice(m, 1)
lattice_hnf(l) == Lattice(hnf(l.basis), l.denom)
basis_elem(l, j) == Element(column(l.basis, j), l.denom)

Fourth(x) == x * x * x * x
Scale(s, m) == Table([i \in Axes |-> Times(s, m[i])])
ScaledColumns(s, m) == columns(Scale(s, m))

\* Two blocks of four columns, one after the other.
Beside(cols, others) == Table([j \in 0 .. 7 |-> IF j < 4 THEN cols[j] ELSE others[j - 4]])

ConjugateRows(m) == [i \in Axes |-> IF i = 0 THEN m[i] ELSE vec_neg(m[i])]
lattice_conjugate(l) == Lattice(ConjugateRows(l.basis), l.denom)
hnf_conjugate(l) == lattice_hnf(lattice_conjugate(l))

\* With the denominator in every cofactor, and the determinant below.
dual(l) == LET c == cofactor_and_det(l.basis) IN Lattice(Scale(l.denom, c.cofactor), c.det)

-----------------------------------------------------------------------------
(* Lowest terms *)

EntriesContent(m) == GcdOf(<<Content(m[0]), Content(m[1]), Content(m[2]), Content(m[3])>>)

\* The content that a basis has in common with its denominator is taken out.
reduce_denom(l) ==
    LET g == Bezout[EntriesContent(l.basis), Abs(l.denom)].g
    IN  Lattice([i \in Axes |-> Over(l.basis[i], g)], Quo(l.denom, g))

\* It takes the rows of the matrix for its columns, so what it reduces below
\* the diagonal is zero in normal form.
CanonicalRow(h, pivot) ==
    [r \in Axes |-> IF r > pivot /\ h[pivot][pivot] # 0
                    THEN vec_sub(h[r], Times(Quo(h[r][pivot], h[pivot][pivot]), h[pivot]))
                    ELSE h[r]]
canonicalize(l) == [l EXCEPT !.basis = FoldLeft(CanonicalRow, @, <<0, 1, 2, 3>>)]

\* Narrowing refuses an entry or a denominator that does not fit.
narrow_lattice(l) ==
    IF FitsNarrow(l.denom) /\ \A i, j \in Axes : FitsNarrow(l.basis[i][j]) THEN l ELSE NoLattice

-----------------------------------------------------------------------------
(* Sums *)

sum(l, m) ==
    IF l.denom = m.denom
    THEN Lattice(from_hnf_columns(Beside(columns(l.basis), columns(m.basis))), l.denom)
    ELSE Lattice(from_hnf_columns(Beside(ScaledColumns(m.denom, l.basis), ScaledColumns(l.denom, m.basis))),
                 l.denom * m.denom)

\* The modulus is a multiple of the covolume; denominators have to agree.
sum_mod(l, m, modulus) ==
    IF l.denom # m.denom THEN NoLattice
    ELSE Lattice(from_hnf_columns_mod(Beside(columns(l.basis), columns(m.basis)), modulus), l.denom)

\* The operand comes last, where the columns are that the form is made of.
sum_mod_cref(l, m, modulus) ==
    Lattice(from_hnf_columns_mod_cref(
                Beside(ScaledColumns(l.denom, m.basis), ScaledColumns(m.denom, l.basis)), modulus),
            l.denom * m.denom)

-----------------------------------------------------------------------------
(* Intersections *)

\* Dual of the sum of the duals.
intersection(l, m) == lattice_hnf(dual(sum(dual(l), dual(m))))

\* The same with a modular sum, in lowest terms before and after the normal
\* form.
intersection_via_dual_sum_dual(l, m) ==
    LET a == dual(l)
        b == dual(m)
        tmp_a == Scale(b.denom, a.basis)
        tmp_b == Scale(a.denom, b.basis)
        modulus == Bezout[Abs(det(tmp_a)), Abs(det(tmp_b))].g
        both == Lattice(from_hnf_columns_mod(Beside(columns(tmp_a), columns(tmp_b)), modulus),
                        a.denom * b.denom)
    IN  narrow_lattice(reduce_denom(canonicalize(lattice_hnf(reduce_denom(dual(both))))))

\* The kernel of [d2 * B1 | - d1 * B2]: its columns, each with the combination
\* of the columns of B1 that it stands for.
Stack(l, m) ==
    [j \in 0 .. 7 |->
        IF j < 4 THEN [top |-> Times(m.denom, column(l.basis, j)), a |-> Unit(j, 1)]
        ELSE [top |-> Times(- l.denom, column(m.basis, j - 4)), a |-> ZeroVec]]

Combined(x, c, y, d) == [top |-> LinComb(x, c.top, y, d.top), a |-> LinComb(x, c.a, y, d.a)]

\* Mutant: the column that loses its entry is not brought along.
MutCombineKernel(cols, row, pc, j) ==
    LET s == xgcd(cols[pc].top[row], cols[j].top[row])
        y == Quo(cols[j].top[row], s.g)
        x == Quo(cols[pc].top[row], s.g)
    IN  [cols EXCEPT ![pc] = Combined(s.u, cols[pc], s.v, cols[j]),
                     ![j] = [top |-> LinComb(x, cols[j].top, - y, cols[pc].top), a |-> cols[j].a]]

CombineKernel(cols, row, pc, j) ==
    LET x == cols[pc].top[row]
        y == cols[j].top[row]
        s == xgcd(x, y)
    IN  [cols EXCEPT ![pc] = Combined(s.u, cols[pc], s.v, cols[j]),
                     ![j] = Combined(Quo(x, s.g), cols[j], - Quo(y, s.g), cols[pc])]

ReduceKernel(cols, row, pc) ==
    LET up == IF cols[pc].top[row] < 0 THEN Combined(-1, cols[pc], 0, cols[pc]) ELSE cols[pc]
    IN  Table([j \in DOMAIN cols |-> IF j = pc THEN up
                                     ELSE Combined(1, cols[j], - Quo(cols[j].top[row], up.top[row]), up)])

\* The first column not a pivot yet that is not zero in the row becomes its
\* pivot.
KernelRow(s, row) ==
    LET open == SelectSeq([j \in 1 .. 8 |-> j - 1],
                          LAMBDA j : j \notin s.pivots /\ s.cols[j].top[row] # 0)
        Clear(cols, j) == CombineKernel(cols, row, Head(open), j)
    IN  IF open = << >> THEN s
        ELSE [cols |-> ReduceKernel(FoldLeft(Clear, s.cols, Tail(open)), row, Head(open)),
              pivots |-> s.pivots \cup {Head(open)}]

KernelStart(l, m) == [cols |-> Stack(l, m), pivots |-> {}]

\* The columns that vanished on top, the first four of them, in the basis of
\* the operand.
KernelBasis(l, s) ==
    LET kernel == SelectSeq([j \in 1 .. 8 |-> j - 1], LAMBDA j : s.cols[j].top = ZeroVec)
        Vector(i) == IF i < Len(kernel) THEN eval(l.basis, s.cols[kernel[i + 1]].a) ELSE ZeroVec
    IN  narrow_lattice(Lattice(from_hnf_columns([i \in Axes |-> Vector(i)]), l.denom))

intersection_via_kernel(l, m) == KernelBasis(l, FoldLeft(KernelRow, KernelStart(l, m), <<0, 1, 2, 3>>))

-----------------------------------------------------------------------------
(* Products *)

ProductColumns(l, m) ==
    Table([n \in 0 .. 15 |-> Product(column(l.basis, n \div 4), column(m.basis, n % 4))])
MultipliedColumns(l, x) == Table([j \in Axes |-> Product(column(l.basis, j), x.v)])

\* The columns modulo a modulus, and classically when that is zero.
HnfWithModulus(cols, modulus) ==
    IF modulus = 0 THEN from_hnf_columns(cols) ELSE from_hnf_columns_mod(cols, modulus)

product(l, m) ==
    LET cols == ProductColumns(l, m)
    IN  Lattice(HnfWithModulus(cols, Abs(det(FirstFour(cols)))), l.denom * m.denom)
product_with_modulus(l, m, modulus) ==
    Lattice(HnfWithModulus(ProductColumns(l, m), modulus), l.denom * m.denom)

alg_elem_mul(l, x) ==
    LET cols == MultipliedColumns(l, x)
    IN  Lattice(HnfWithModulus(cols, Abs(det(FirstFour(cols)))), l.denom * x.denom)
alg_elem_mul_with_modulus(l, x, modulus) ==
    Lattice(HnfWithModulus(MultipliedColumns(l, x), modulus), l.denom * x.denom)

-----------------------------------------------------------------------------
(* Membership and equality *)

\* The coordinates of an element over the denominator of the lattice, if they
\* are whole.
NoVec == << >>
Rescaled(l, x) ==
    LET v == Times(l.denom, x.v)
    IN  IF \E i \in Axes : Rem(v[i], x.denom) # 0 THEN NoVec ELSE Over(v, x.denom)

decompose(l, x) ==
    LET rhs == Rescaled(l, x)
        d == det(l.basis)
        over == eval(adjugate(l.basis), rhs)
    IN  IF rhs = NoVec THEN NoVec
        ELSE IF d = 0 \/ \E i \in Axes : Rem(over[i], d) # 0 THEN NoVec
        ELSE Over(over, d)

\* Back-substitution, from the last row.
Substitute(h, target, x, row) ==
    LET Done == {c \in Axes : c > row}
        val == target[row] - FoldSet(LAMBDA c, s : s + h[row][c] * x[c], 0, Done)
        whole == IF h[row][row] = 0 THEN target[row] = 0 ELSE Rem(val, h[row][row]) = 0
    IN  IF x = NoVec \/ ~whole THEN NoVec
        ELSE IF h[row][row] = 0 THEN x
        ELSE [x EXCEPT ![row] = Quo(val, h[row][row])]

contains(l, x) ==
    LET target == Rescaled(l, x)
    IN  IF target = NoVec THEN NoVec
        ELSE FoldLeft(LAMBDA y, row : Substitute(l.basis, target, y, row), ZeroVec, <<3, 2, 1, 0>>)

SameLattice(l, m) ==
    LET g == Bezout[Abs(l.denom), Abs(m.denom)].g
    IN  IF l.denom = m.denom THEN l.basis = m.basis
        ELSE Scale(Quo(m.denom, g), l.basis) = Scale(Quo(l.denom, g), m.basis)

-----------------------------------------------------------------------------
(* NrdBasis: four columns with the Gram matrix of a form that follows the  *)
(* reduced norm, and its L2 reduction with deep insertion.                 *)
(*                                                                         *)
(* The code keeps the Gram-Schmidt coefficients in floating point with a   *)
(* wide exponent; here they are exact.                                     *)

NrdBasis(cols, gram) == [cols |-> cols, gram |-> gram]

NormForm(v, w) == v[0] * w[0] + v[1] * w[1] + Ramified * (v[2] * w[2] + v[3] * w[3])
compute_gram(cols) == [i \in Axes |-> [j \in Axes |-> NormForm(cols[i], cols[j])]]
eval_quadratic_form(b, c) == dot(c, eval(b.gram, c))

\* The Gram matrix of twice the norm, over that of the ideal: what it stands
\* for are the norms of the equivalent ideals, twice.
class_basis(cols, denom, ideal_norm) ==
    LET over == denom * denom * ideal_norm
    IN  NrdBasis(cols, [i \in Axes |-> [j \in Axes |-> Quo(2 * NormForm(cols[i], cols[j]), over)]])

-----------------------------------------------------------------------------
(* Gram-Schmidt: the rows r and mu are kept from step to step, and follow  *)
(* the columns or are left behind by them.  Kept here are the numerators:  *)
(* of r[k][j] over Lead(g, j), of mu[k][j] over Lead(g, j + 1), where      *)
(* Lead(g, j) is the leading minor of order j.                             *)

NoRows == [i \in Axes |-> [j \in Axes |-> 0]]
FirstRow(gram) ==
    LET one == [NoRows EXCEPT ![0][0] = gram[0][0]] IN [r |-> one, mu |-> one]

Lead(g, j) == IF j = 0 THEN 1 ELSE g.r[j - 1][j - 1]

\* (a * b - c * d) \div e, by products that stay small.
MinorOver(a, b, c, d, e) ==
    LET Low(x) == x % e
        High(x) == x \div e
    IN  a * High(b) + High(a) * Low(b) - (c * High(d) + High(c) * Low(d))
        + ((Low(a) * Low(b) - Low(c) * Low(d)) \div e)

\* r[k][j]: the product of the columns, less what rows k and j have in common.
Remainder(gram, g, k, j) ==
    FoldLeft(LAMBDA x, l : MinorOver(g.r[l][l], x, g.r[k][l], g.mu[j][l], Lead(g, l)),
             gram[k][j], [l \in 1 .. j |-> l - 1])

\* Row k from those before it.
extend_gso_family(gram, g, k) ==
    LET Extend(h, j) == LET x == Remainder(gram, h, k, j)
                        IN  [r  |-> [h.r EXCEPT ![k][j] = x],
                             mu |-> IF j < k THEN [h.mu EXCEPT ![k][j] = x] ELSE h.mu]
    IN  FoldLeft(Extend, g, [j \in 1 .. k + 1 |-> j - 1])

\* The rows up to the k-th, from the Gram matrix alone.
Family(gram, k) ==
    FoldLeft(LAMBDA g, i : extend_gso_family(gram, g, i), FirstRow(gram), [i \in 1 .. k |-> i])

\* mu[k][i] to the nearest integer, halves away from zero, once it is beyond
\* (0.51 + 0.5) / 2.
Rounded(x, y) == Sgn(x) * ((2 * Abs(x) + y) \div (2 * y))
Beyond(g, k, i) == 200 * Abs(g.mu[k][i]) > 101 * g.r[i][i]

\* b_k less x times b_i; the row and the column of its products follow.
Subtract(b, k, i, x) ==
    LET row == [b.gram EXCEPT ![k] = vec_sub(@, Times(x, b.gram[i]))]
    IN  [cols |-> [b.cols EXCEPT ![k] = vec_sub(@, Times(x, b.cols[i]))],
         gram |-> [j \in Axes |-> [row[j] EXCEPT ![k] = @ - x * row[j][i]]]]

\* Mutant: of row k of mu only the coefficient in question follows.
MutFollow(gram, g, k, i, x) ==
    [r  |-> [g.r EXCEPT ![k][i] = Remainder(gram, g, k, i)],
     mu |-> [g.mu EXCEPT ![k][i] = @ - x * g.r[i][i]]]

\* Row k of mu follows, up to i; of row k of r only entry i, from entries that
\* have not.
Follow(gram, g, k, i, x) ==
    [r  |-> [g.r EXCEPT ![k][i] = Remainder(gram, g, k, i)],
     mu |-> [g.mu EXCEPT ![k] = [l \in Axes |-> CASE l < i -> @[l] - x * g.mu[i][l]
                                                 [] l = i -> @[l] - x * g.r[i][i]
                                                 [] l > i -> @[l]]]]

\* The square of b_k less its components along the first l, over Lead(g, l).
Projected(gram, g, k, l) ==
    LET t[i \in 0 .. l] ==
            IF i = 0 THEN gram[k][k]
            ELSE MinorOver(g.r[i - 1][i - 1], t[i - 1], g.mu[k][i - 1], g.r[k][i - 1], Lead(g, i - 1))
    IN  t[l]

\* The exchange condition with (0.99 + 1) / 2, at one level.
Fails(gram, g, k, l) == 200 * Projected(gram, g, k, l) < 199 * g.r[l][l]

\* Where b_k goes: down while the condition fails, to its first hold.
Destination(gram, g, k) ==
    CHOOSE s \in 0 .. k : /\ \A l \in s .. k - 1 : Fails(gram, g, k, l)
                         /\ (s = 0 \/ ~Fails(gram, g, k, s - 1))

\* Column k moved before column s, and its products with it.
From(k, s, i) == IF i = s THEN k ELSE IF s < i /\ i <= k THEN i - 1 ELSE i
Inserted(b, k, s) ==
    [cols |-> [i \in Axes |-> b.cols[From(k, s, i)]],
     gram |-> [i \in Axes |-> [j \in Axes |-> b.gram[From(k, s, i)][From(k, s, j)]]]]

\* Row s is what row k was before s, with the square of what was moved there;
\* the rows from s + 1 on are left behind.
insert_before(b, g, k, s) ==
    LET m == Inserted(b, k, s)
        Row(a) == [i \in Axes |-> IF i < s THEN a[k][i] ELSE a[s][i]]
        rows == [r |-> [g.r EXCEPT ![s] = Row(g.r)], mu |-> [g.mu EXCEPT ![s] = Row(g.mu)]]
    IN  [basis |-> m, gso |-> [rows EXCEPT !.r[s][s] = Remainder(m.gram, rows, s, s)]]

-----------------------------------------------------------------------------
(* l2_reduce: passes over the columns before k, the nearest first, until   *)
(* one takes nothing off b_k; then b_k is moved.                           *)

\* Pass: the columns still to be looked at, whether nothing was taken off.
Pass(b, g, k) ==
    [basis |-> b, k |-> k, left |-> k, done |-> TRUE,
     gso |-> IF k < 4 THEN extend_gso_family(b.gram, g, k) ELSE g]
L2Start(b) == Pass(b, FirstRow(b.gram), 1)

\* size_reduce: the next column of the pass that has to be taken off.
size_reduce(s, i) ==
    LET x == Rounded(s.gso.mu[s.k][i], s.gso.r[i][i])
        b == Subtract(s.basis, s.k, i, x)
    IN  [s EXCEPT !.left = i, !.done = FALSE, !.basis = b, !.gso = Follow(b.gram, @, s.k, i, x)]

l2_step(s) ==
    LET off  == {i \in 0 .. s.left - 1 : Beyond(s.gso, s.k, i)}
        to   == Destination(s.basis.gram, s.gso, s.k)
        into == IF to = s.k THEN [basis |-> s.basis, gso |-> s.gso]
                ELSE insert_before(s.basis, s.gso, s.k, to)
    IN  IF off # {} THEN size_reduce(s, Max(off))
        ELSE IF ~s.done THEN Pass(s.basis, s.gso, s.k) @@ s
        ELSE Pass(into.basis, into.gso, to + 1) @@ s

=============================================================================
