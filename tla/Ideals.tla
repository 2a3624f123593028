------------------------------- MODULE Ideals ------------------------------
(***************************************************************************)
(* Left ideals of an order: a lattice, the norm it is said to have, and    *)
(* the order.  An order is its lattice.  The generic constructors, and     *)
(* those of fixed width, differ in the modulus of the normal form and in   *)
(* what they do with denominators.  represent_integer, which random ideals *)
(* start from, is at the end.                                              *)
(***************************************************************************)
EXTENDS Lattices

CONSTANT MaxIter    \* the iterations that represent_integer is capped at

ASSUME MaxIterAssumption == MaxIter \in Nat \ {0}

LeftIdeal(lattice, norm_, order) == [lattice |-> lattice, norm |-> norm_, order |-> order]
NoIdeal == [norm |-> 0]
Panicked == [panicked |-> TRUE]
from_parts(lattice, n, order) == LeftIdeal(lattice, n, order)

\* Standard order, and the ideals that connect it to the other orders:
\* (N, N i, (x i + j) / 2, (y + k) / 2).
connecting_lattice(n, x, y) ==
    Lattice(from_rows(Vec(2 * n, 0, 0, y), Vec(0, 2 * n, x, 0), Vec(0, 0, 1, 0), Vec(0, 0, 0, 1)), 2)
StandardOrder == connecting_lattice(1, 1, 1)
connecting(c) == from_parts(lattice_hnf(connecting_lattice(c.norm, c.x, c.y)), c.norm, StandardOrder)

\* The greatest number whose square does not exceed n.
SquareRoot(n) == CHOOSE r \in 0 .. n : r * r <= n /\ (r + 1) * (r + 1) > n

\* The norm that the covolumes give: the root of the index in the order.
WithRoot(ideal, index, root) ==
    IF root * root # index \/ ~FitsNarrow(root) THEN NoIdeal ELSE [ideal EXCEPT !.norm = root]
OfIndex(ideal, num, den) ==
    IF den = 0 THEN NoIdeal
    ELSE IF num % den # 0 \/ num = 0 THEN NoIdeal
    ELSE WithRoot(ideal, num \div den, SquareRoot(num \div den))
refresh_norm(ideal) ==
    OfIndex(ideal, Abs(Fourth(ideal.order.denom) * det(ideal.lattice.basis)),
            Abs(Fourth(ideal.lattice.denom) * det(ideal.order.basis)))

inverse(ideal) == LET c == hnf_conjugate(ideal.lattice) IN [c EXCEPT !.denom = @ * ideal.norm]
right_order(ideal) == product(inverse(ideal), ideal.lattice)

\* All of it, or nothing, at the narrow width.
narrow_ideal(ideal) ==
    IF /\ narrow_lattice(ideal.lattice) # NoLattice /\ narrow_lattice(ideal.order) # NoLattice
       /\ FitsNarrow(ideal.norm)
    THEN ideal ELSE NoIdeal

-----------------------------------------------------------------------------
(* O alpha + O n *)

OrderTimes(order, x) == from_columns(MultipliedColumns(order, x))

from_generator(x, n, order) ==
    LeftIdeal(sum(Lattice(OrderTimes(order, x), order.denom * x.denom),
                  Lattice(Scale(n, order.basis), order.denom)),
              n, order)

\* Mutant: the denominators are not made the same.
MutCommon(order, x) ==
    [alpha |-> OrderTimes(order, x), scale |-> 1, denom |-> order.denom * x.denom]

\* O alpha, what the order is multiplied with, and the denominator of both.
Common(order, x) ==
    LET d == order.denom * x.denom
    IN  IF d = order.denom THEN [alpha |-> OrderTimes(order, x), scale |-> 1, denom |-> d]
        ELSE [alpha |-> Scale(order.denom, OrderTimes(order, x)), scale |-> d,
              denom |-> d * order.denom]

\* At width four: modulo 64 n^2 p d^2, in lowest terms; it panics when they
\* do not fit.
new(x, n, order) ==
    LET c == Common(order, x)
        l == sum_mod(Lattice(c.alpha, c.denom), Lattice(Scale(n * c.scale, order.basis), c.denom),
                     64 * n * n * Ramified * c.denom * c.denom)
        r == narrow_lattice(reduce_denom(l))
    IN  IF r = NoLattice THEN Panicked ELSE LeftIdeal(lattice_hnf(r), n, order)

\* At width thirty: 4 d^4 n^2 p, with O alpha in normal form first.
Modulus(d, n) == 4 * Fourth(d) * n * n * Ramified
from_generator_mod_hnf(x, n, order) ==
    LET d == order.denom * x.denom
        alpha == HnfWithModulus(MultipliedColumns(order, x), Abs(det(OrderTimes(order, x))))
    IN  LeftIdeal(sum_mod(Lattice(alpha, d), Lattice(Scale(n * x.denom, order.basis), d), Modulus(d, n)),
                  n, order)

-----------------------------------------------------------------------------
(* Random ideals of a norm *)

legendre_p(a, n) == IF a % n = 0 THEN 0 ELSE IF \E r \in 1 .. n - 1 : (r * r) % n = a % n THEN 1 ELSE -1

\* A trace-zero draw is completed to an element whose norm n divides: the
\* roots that its first coordinate may have, if any.
Completions(g, n) ==
    LET neg == n - (NormOf(g) % n)
    IN  IF legendre_p(neg, n) # 1 THEN {}
        ELSE {[g EXCEPT ![0] = r] : r \in {r \in 0 .. n - 1 : (r * r) % n = neg % n}}
TraceZero(n) == {Vec(0, b, c, d) : b, c, d \in 0 .. n - 1}

\* At width four the norm has to fit.
PrimeNormCompletions(g, n) == IF FitsNarrow(NormOf(g)) THEN Completions(g, n) ELSE {}
random_prime_norm(g, n, order) == new(from_coords(g), n, order)

Twists(n) == {Vec(a, b, c, d) : a, b, c, d \in 1 .. n}
Twisting(v, n) == Bezout[NormOf(v), n].g = 1

\* The products 1 g, i g, j g, k g are written out.
ExplicitProducts(g) ==
    [i \in Axes |-> <<g, Vec(- g[1], g[0], - g[3], g[2]),
                      Vec(- Ramified * g[2], Ramified * g[3], g[0], - g[1]),
                      Vec(- Ramified * g[3], - Ramified * g[2], g[1], g[0])>>[i + 1]]

random_prime_norm_wide(g, twist, n, order) ==
    LET table == transpose(ExplicitProducts(Product(g, twist)))
        alpha == [j \in Axes |-> eval(table, column(order.basis, j))]
    IN  LeftIdeal(sum_mod(Lattice(from_columns(alpha), order.denom), Lattice(Scale(n, order.basis), order.denom),
                          Modulus(order.denom, n)),
                  n, order)

\* An element of norm m n, turned by beta, modulo n times its denominator.
random_norm(gamma, beta, n, order) ==
    LET g == mul_direct(gamma, from_coords(beta))
    IN  new(Element(Reduced(g.v, n * g.denom), g.denom), n, order)

-----------------------------------------------------------------------------
(* A generator *)

Taxicab(c) == Abs(c[0]) + Abs(c[1]) + Abs(c[2]) + Abs(c[3])
Combinations(n) ==
    {c \in {Vec(a, b, d, e) : a, b, d, e \in - n .. n} : Taxicab(c) = n /\ Content(c) = 1}
Combination(lattice, c) == Element(eval(lattice.basis, c), lattice.denom)

\* The norm is a multiple of that of the ideal, with a cofactor coprime to it.
Generates(ideal, x) ==
    LET over == x.denom * x.denom * ideal.norm
    IN  NormOf(x.v) % over = 0 /\ Bezout[NormOf(x.v) \div over, ideal.norm].g = 1

\* The order in which combinations are tried: the last coordinate first
\* positive, then negative.
Before(c, d) ==
    \E i \in Axes : /\ \A h \in Axes : h < i => c[h] = d[h]
                    /\ IF i = 3 THEN c[3] > d[3] ELSE c[i] < d[i]

GeneratorsAt(ideal, n) == {c \in Combinations(n) : Generates(ideal, Combination(ideal.lattice, c))}
FirstGenerator(ideal, n) ==
    LET good == GeneratorsAt(ideal, n)
    IN  Combination(ideal.lattice, CHOOSE c \in good : \A d \in good \ {c} : Before(c, d))

-----------------------------------------------------------------------------
(* Equivalent ideals *)

\* O alpha + O m, modulo 4 d^4 m^2 p.
EquivalentLattice(alpha, m, order) ==
    LET d == order.denom * alpha.denom
        cols == Beside(MultipliedColumns(order, alpha), ScaledColumns(m * alpha.denom, order.basis))
    IN  Lattice(from_hnf_columns_mod(cols, Modulus(d, m)), d)

ClassBasisOf(ideal) ==
    class_basis(columns(canonicalize(ideal.lattice).basis), ideal.lattice.denom, ideal.norm)

\* Drawn coefficients and the norm of the equivalent ideal they give.
Draws(bound) == {Vec(a, b, c, d) : a, b, c, d \in - bound .. bound}
EquivalentNorm(basis, c) == eval_quadratic_form(basis, c) \div 2
ConjugateOf(basis, c, denom) == conjugate(Element(eval(from_columns(basis.cols), c), denom))

reduce_to_prime_norm(ideal, basis, c) ==
    LET m == EquivalentNorm(basis, c)
        alpha == ConjugateOf(basis, c, ideal.lattice.denom)
    IN  [ideal EXCEPT !.lattice = reduce_denom(EquivalentLattice(alpha, m, ideal.order)), !.norm = m]

\* I delta* / N(I), delta the first column of the reduced basis.
smallest_equiv_with_delta(ideal, basis) ==
    LET l == ideal.lattice
        delta == Element(basis.cols[0], l.denom)
        over == NormOf(delta.v) \div (delta.denom * delta.denom)
        cols == MultipliedColumns(l, conjugate(delta))
        r == narrow_lattice(reduce_denom(Lattice(from_hnf_columns(cols), l.denom * delta.denom * ideal.norm)))
        whole == NormOf(delta.v) % (delta.denom * delta.denom) = 0 /\ over % ideal.norm = 0
    IN  IF narrow_element(delta) = NoElement \/ ~whole THEN NoIdeal
        ELSE IF ~FitsNarrow(over \div ideal.norm) \/ r = NoLattice THEN NoIdeal
        ELSE from_parts(lattice_hnf(r), over \div ideal.norm, ideal.order)

\* O delta* + O m, with the norm that is expected.
OfLattice(ideal, m, l) ==
    IF l = NoLattice \/ narrow_lattice(ideal.order) = NoLattice THEN NoIdeal
    ELSE from_parts(lattice_hnf(l), m, ideal.order)
OfNorm(ideal, delta, m) == OfLattice(ideal, m, narrow_lattice(EquivalentLattice(conjugate(delta), m, ideal.order)))
build_equiv_from_delta(ideal, delta) ==
    LET over == delta.denom * delta.denom * ideal.norm
    IN  IF NormOf(delta.v) % over # 0 \/ ~FitsNarrow(NormOf(delta.v) \div over) THEN NoIdeal
        ELSE OfNorm(ideal, delta, NormOf(delta.v) \div over)

\* The shortest combinations, in the order they are tried; those that are as
\* short in the order they are formed.
Lexical(c, d) == \E i \in Axes : c[i] < d[i] /\ \A h \in Axes : h < i => c[h] = d[h]
Candidate(basis, bound, n) ==
    LET Form == Table([c \in Draws(bound) \ {ZeroVec} |-> NormOf(eval(from_columns(basis.cols), c))])
        Shorter(c, d) == Form[c] < Form[d] \/ (Form[c] = Form[d] /\ Lexical(c, d))
    IN  CHOOSE c \in DOMAIN Form : Cardinality({d \in DOMAIN Form : Shorter(d, c)}) = n - 1

\* A candidate is taken when the norm that the covolume gives is odd, and
\* neither it nor the one expected is 1.
OddNorm(refreshed) ==
    IF refreshed.norm \in {0, 1} \/ refreshed.norm % 2 = 0 THEN NoIdeal ELSE refreshed
Refreshed(built) == IF built.norm \in {0, 1} THEN NoIdeal ELSE OddNorm(refresh_norm(built))
Accepted(ideal, delta) == Refreshed(build_equiv_from_delta(ideal, delta))

-----------------------------------------------------------------------------
(* represent_integer: an element of norm m in an extremal order, searched  *)
(* for with random z and t and a norm equation for the other two           *)
(* coordinates.                                                            *)

\* An order with an element z of norm q orthogonal to j.
ExtremalOrder(order, z, q) == [order |-> order, z |-> z, q |-> q]
StandardExtremal == ExtremalOrder(StandardOrder, from_coords(Unit(1, 1)), 1)

IsPrime(n) == n > 1 /\ \A d \in 2 .. SquareRoot(n) : n % d # 0

\* The box that z and t are drawn from and how often.
z_max(m, q) == IF (4 * m) \div Ramified <= q THEN 0 ELSE SquareRoot((4 * m) \div Ramified - q)
counter(m, q) == (4 * m) \div SquareRoot(q * Ramified * Ramified)
Bound(m, q) == IF counter(m, q) > MaxIter THEN MaxIter ELSE counter(m, q)
t_max(m, q, z) ==
    IF 4 * m <= Ramified * z * z THEN 0
    ELSE SquareRoot((4 * m - Ramified * z * z) \div (q * Ramified))

\* There is nothing to search for.
Hopeless(m, q) == m <= Ramified \/ m % 2 = 0 \/ z_max(m, q) = 0 \/ counter(m, q) = 0

m_prime(m, q, z, t) == 4 * m - Ramified * (z * z + q * t * t)

\* The solutions of x^2 + q y^2 = n, one of which the norm equation gives.
Solutions(q, n) ==
    {s \in (0 .. SquareRoot(n)) \X (0 .. SquareRoot(n)) : s[1] * s[1] + q * s[2] * s[2] = n}

\* With q = 1 the two may be exchanged for x to have the parity of t.
Arranged(s, t, q, isogeny_cond) ==
    IF isogeny_cond /\ q = 1 /\ s[1] % 2 # t % 2 THEN <<s[2], s[1]>> ELSE s
IsogenyCondition(s, z, t, q, isogeny_cond) ==
    isogeny_cond /\ q = 1 => (s[1] - t) % 4 = 2 /\ (s[2] - z) % 4 = 2

\* x + z_order y + j z + j z_order t, over a common denominator.
Gamma(o, s, z, t) ==
    LET omega == o.z
        omega_j == mul(from_coords(Unit(2, 1)), omega)
        common == omega.denom * omega_j.denom
    IN  Element(vec_add(vec_add(Unit(0, s[1] * common), Times(s[2] * omega_j.denom, omega.v)),
                        vec_add(Unit(2, z * common), Times(t * omega.denom, omega_j.v))),
                common)

\* The content is that in the basis of the order.
ContentIn(order, x) == Content(decompose(order, x))
ExpectedContent(q, isogeny_cond) == IF isogeny_cond \/ q = 1 THEN 2 ELSE 1

\* The element, less its content, in the coordinates of the order.
Divided(order, x) == Element(eval(order.basis, Over(decompose(order, x), ContentIn(order, x))), order.denom)

\* What an iteration finds for z, t and a solution.
LessContent(order, gamma, content) ==
    IF decompose(order, gamma) = NoVec \/ ContentIn(order, gamma) # content THEN NoElement
    ELSE Divided(order, gamma)
FoundWith(o, isogeny_cond, z, t, s) ==
    IF IsogenyCondition(s, z, t, o.q, isogeny_cond)
    THEN LessContent(o.order, Gamma(o, s, z, t), ExpectedContent(o.q, isogeny_cond))
    ELSE NoElement
Found(o, isogeny_cond, z, t, solution) ==
    FoundWith(o, isogeny_cond, z, t, Arranged(solution, t, o.q, isogeny_cond))

\* An iteration: every draw and what comes of it.
Iteration(o, m, isogeny_cond) ==
    LET Solved(q, n) == IF n > 0 /\ IsPrime(n) THEN Solutions(q, n) ELSE {}
        Try(z, t, all) ==
            IF all = {} THEN {NoElement} ELSE {Found(o, isogeny_cond, z, t, s) : s \in all}
        Tries(z, ts) ==
            IF ts = {} THEN {NoElement} ELSE UNION {Try(z, t, Solved(o.q, m_prime(m, o.q, z, t))) : t \in ts}
    IN  UNION {Tries(z, 1 .. t_max(m, o.q, z)) : z \in 1 .. z_max(m, o.q)}

=============================================================================
