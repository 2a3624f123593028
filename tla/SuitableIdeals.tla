--------------------------- MODULE SuitableIdeals --------------------------
(***************************************************************************)
(* suitable_ideals: for an ideal, two short elements of degrees d1 and d2  *)
(* with u d1 + v d2 a power of two.  Short elements are enumerated in the  *)
(* ideal, and for every other order in the product of its equivalent with  *)
(* the ideal that connects the order; what is found there is carried back. *)
(***************************************************************************)
EXTENDS IdealSearch

CONSTANTS Alternates,    \* the connecting ideals of the orders after the first
          BoxSize,       \* bound of the coefficients of short elements
          MaxWalk,       \* the solutions u, v that are tried of a pair
          LowBits,       \* u and v that vanish on so many low bits are passed over
          TorsionPowers  \* the exponents f that a pair is sought for

ASSUME SuitableAssumption ==
    /\ {BoxSize, MaxWalk, LowBits} \subseteq Nat \ {0}
    /\ \A f \in TorsionPowers : f \in Nat /\ 2^f <= NarrowBound

\* What short elements are kept at has twice the narrow width.
FitsShort(n) == Abs(n) < NarrowBound * NarrowBound

-----------------------------------------------------------------------------
(* The basis of the first order *)

Swap(a, b, i) == IF i = a THEN b ELSE IF i = b THEN a ELSE i
SwapColumns(b, x, y) ==
    NrdBasis([i \in Axes |-> b.cols[Swap(x, y, i)]],
             [i \in Axes |-> [j \in Axes |-> b.gram[Swap(x, y, i)][Swap(x, y, j)]]])

NegateColumn(b, n) ==
    LET Sign(i) == IF i = n THEN -1 ELSE 1
    IN  NrdBasis([b.cols EXCEPT ![n] = vec_neg(@)],
                 [i \in Axes |-> [j \in Axes |-> Sign(i) * Sign(j) * b.gram[i][j]]])

\* The columns come in pairs of equal norm, with equal signs.
post_lll_basis_treatment_special(b) ==
    LET g == b.gram
        c == IF g[0][0] # g[2][2] /\ g[0][0] = g[3][3] THEN SwapColumns(b, 1, 3)
             ELSE IF g[0][0] = g[2][2] \/ g[1][1] = g[3][3] THEN SwapColumns(b, 1, 2)
             ELSE b
        d == IF c.cols[0][0] # c.cols[1][1] THEN NegateColumn(c, 1) ELSE c
    IN  IF c.cols[2][0] # c.cols[3][1] THEN NegateColumn(d, 3) ELSE d

-----------------------------------------------------------------------------
(* Short elements *)

\* The coefficients in the box in lexical order.
Box(m) ==
    LET d == 2 * m + 1
    IN  [n \in 1 .. Fourth(d) |-> Vec(((n - 1) \div (d * d * d)) - m, (((n - 1) \div (d * d)) % d) - m,
                                      (((n - 1) \div d) % d) - m, ((n - 1) % d) - m)]

\* One of each c and -c, the one whose first coefficient is negative.
InHalfCube(c) == Lexical(c, ZeroVec)
AllMultiples(c, n) == \A i \in Axes : c[i] % n = 0

\* The coefficients of i and of -i times an element, in (g, i g, b, i b).
Turned(c) == Vec(c[1], - c[0], c[3], - c[2])
TurnedBack(c) == Vec(- c[1], c[0], - c[3], c[2])
FirstOfOrbit(c) == ~Lexical(Turned(c), c) /\ ~Lexical(TurnedBack(c), c)

enumerate_hypercube(m, symmetric) ==
    SelectSeq(Box(m), LAMBDA c : /\ InHalfCube(c) /\ ~AllMultiples(c, 2) /\ ~AllMultiples(c, 3)
                                 /\ symmetric => FirstOfOrbit(c))
Hypercube == Table([s \in BOOLEAN |-> Table(enumerate_hypercube(BoxSize, s))])

\* The degree of an element is its norm over that of the ideal: whole, odd,
\* and narrow.
Degree(b, c, over) == eval_quadratic_form(b, c) \div over
IsDegree(b, c, over) ==
    LET n == eval_quadratic_form(b, c)
    IN  n > 0 /\ n % over = 0 /\ FitsNarrow(n \div over) /\ (n \div over) % 2 = 1

\* All that were enumerated but the last, by degree; of equal degrees the
\* first that was enumerated.
enumerate_short_vectors(b, ideal_norm, denom) ==
    LET over == ideal_norm * denom * denom
        m == from_columns(b.cols)
        Short(c) == IsDegree(b, c, over) /\ \A i \in Axes : FitsShort(eval(m, c)[i])
        symmetric == b.gram[0][0] = b.gram[1][1] /\ b.gram[3][3] = b.gram[2][2]
        found == SelectSeq(Hypercube[symmetric], Short)
        kept == [n \in 1 .. Len(found) - 1 |->
                    [n |-> n, elem |-> Element(eval(m, found[n]), denom), degree |-> Degree(b, found[n], over)]]
    IN  IF ~FitsNarrow(denom) THEN << >>
        ELSE SortSeq(kept, LAMBDA x, y : x.degree < y.degree \/ (x.degree = y.degree /\ x.n < y.n))

-----------------------------------------------------------------------------
(* A pair of degrees *)

NoPair == [e |-> 0]

\* The solutions of u d1 + v d2 = n, from the least v, while u is positive.
LeastV(d1, d2, n) == (n * (Bezout[d2, d1].u % d1)) % d1
Solution(d1, d2, n, k) ==
    LET v == LeastV(d1, d2, n) IN [u |-> (n - v * d2) \div d1 - k * d2, v |-> v + k * d1]

\* Neither is zero or a multiple of too large a power of two, and both are
\* narrow without the powers of two they share.
Shared(s) == v2[Bezout[s.u, s.v].g]
Suits(s) ==
    /\ s.u > 0 /\ s.v > 0
    /\ v2[s.u] < LowBits /\ v2[s.v] < LowBits
    /\ FitsNarrow(s.u \div 2^Shared(s)) /\ FitsNarrow(s.v \div 2^Shared(s))

try_find_uv(d1, d2, f) ==
    LET good == {k \in 0 .. MaxWalk - 1 : Suits(Solution(d1, d2, 2^f, k))}
        s == Solution(d1, d2, 2^f, CHOOSE k \in good : \A j \in good : k <= j)
    IN  IF Bezout[d1, d2].g # 1 \/ good = {} THEN NoPair
        ELSE [u |-> s.u \div 2^Shared(s), v |-> s.v \div 2^Shared(s), e |-> f - Shared(s)]

-----------------------------------------------------------------------------
(* The other orders *)

NoReduced == [k |-> 0]

\* delta is the first column of the reduced basis, k its norm over that of
\* the ideal; the conjugate of I delta* / N(I), an ideal of norm k.
ReducedBy(ideal, v) ==
    LET denom == ideal.lattice.denom
        n == ideal.norm
        k == NormOf(v) \div (denom * denom * n)
        conj_delta == Element(conjugate(Element(v, 1)).v, denom * n)
        reduced == reduce_denom(alg_elem_mul_with_modulus(ideal.lattice, conj_delta, 64 * Fourth(n) * k * k))
    IN  IF NormOf(v) % (denom * denom * n) # 0 THEN NoReduced
        ELSE [lattice |-> lattice_conjugate(reduced), k |-> k, denom |-> denom, conj_delta |-> conj_delta]

\* Its product with a connecting ideal, said to be one of the standard order.
ParentOf(r, alternate) ==
    LET j == connecting(alternate)
    IN  IF r = NoReduced THEN NoIdeal
        ELSE narrow_ideal(from_parts(reduce_denom(product(r.lattice, j.lattice)), r.k * j.norm, StandardOrder))

\* Mutant: delta keeps the denominator that it has in the reduced ideal.
MutCarriedBack(r, beta) ==
    LET x == conjugate(normalize(mul_direct(r.conj_delta, beta)))
    IN  IF FitsShort(x.denom) /\ \A i \in Axes : FitsShort(x.v[i]) THEN x ELSE NoElement

\* (delta* beta / k)*, which is in the ideal that the order acts on.
CarriedBack(r, beta) ==
    LET delta == [r.conj_delta EXCEPT !.denom = r.denom * r.k]
        x == conjugate(normalize(mul_direct(delta, beta)))
    IN  IF FitsShort(x.denom) /\ \A i \in Axes : FitsShort(x.v[i]) THEN x ELSE NoElement

-----------------------------------------------------------------------------
(* The search: a basis and a batch of short elements for every order, then *)
(* the pairs of orders until one has a pair of elements.                   *)

NoFactors == [e |-> 0]
NoBatch == << >>
LastOrder == Len(Alternates)

Parent(ideal) ==
    LET l == ideal.lattice IN class_basis(columns(l.basis), l.denom, ideal.norm)

Suitable ==
    /\ Pending("suitable")
    /\ GoOn([stage |-> "reduce", t |-> 0, parent |-> call.ideal, batches |-> << >>,
             reduced |-> NoReduced] @@ L2Start(Parent(call.ideal)))

SuitableL2 ==
    /\ Running("suitable") /\ loop.stage = "reduce" /\ loop.k < 4
    /\ GoOn(l2_step(loop))

\* The norms are those of the columns again, and the basis of the first order
\* is arranged; the equivalent ideal is by its first column before that.
BatchOf(plain) ==
    enumerate_short_vectors(IF loop.t = 0 THEN post_lll_basis_treatment_special(plain) ELSE plain,
                            loop.parent.norm, loop.parent.lattice.denom)
SuitableBatch ==
    /\ Running("suitable") /\ loop.stage = "reduce" /\ loop.k = 4
    /\ GoOn([loop EXCEPT
            !.stage = "parent", !.t = @ + 1,
            !.batches = Append(@, BatchOf(NrdBasis(loop.basis.cols, compute_gram(loop.basis.cols)))),
            !.reduced = IF loop.t = 0 THEN ReducedBy(loop.parent, loop.basis.cols[0]) ELSE @])

WithParent(parent) ==
    IF parent = NoIdeal THEN GoOn([loop EXCEPT !.t = @ + 1, !.batches = Append(@, NoBatch)])
    ELSE GoOn(L2Start(Parent(parent)) @@ [loop EXCEPT !.stage = "reduce", !.parent = parent])
SuitableParent ==
    /\ Running("suitable") /\ loop.stage = "parent" /\ loop.t <= LastOrder
    /\ WithParent(ParentOf(loop.reduced, Alternates[loop.t]))

SuitableSearch ==
    /\ Running("suitable") /\ loop.stage = "parent" /\ loop.t > LastOrder
    /\ GoOn([stage |-> "search", s |-> 0, t |-> 0, batches |-> loop.batches, reduced |-> loop.reduced])

\* The indices of elements of orders s and t that are paired; of one order,
\* every element with itself and those after it.
Paired(s, t) ==
    LET Indices(n) == DOMAIN loop.batches[n + 1]
    IN  {<<i, j>> \in Indices(s) \X Indices(t) : s = t => i <= j}
PairOf(s, t, p) ==
    try_find_uv(loop.batches[s + 1][p[1]].degree, loop.batches[t + 1][p[2]].degree, call.f)
Earlier(p, q) == p[1] < q[1] \/ (p[1] = q[1] /\ p[2] < q[2])
FirstPair(s, t) ==
    LET good == {p \in Paired(s, t) : PairOf(s, t, p) # NoPair}
    IN  CHOOSE p \in good : \A q \in good \ {p} : Earlier(p, q)

Factor(t, vector) ==
    [order |-> t, degree |-> vector.degree,
     beta |-> IF t = 0 THEN vector.elem ELSE CarriedBack(loop.reduced, vector.elem)]

ReturnFactors(factors, pair) ==
    IF \E i \in 1 .. 2 : factors[i].beta = NoElement THEN Return(NoFactors)
    ELSE Return([factors |-> factors] @@ pair)
Returned(s, t, p) ==
    ReturnFactors(<<Factor(s, loop.batches[s + 1][p[1]]), Factor(t, loop.batches[t + 1][p[2]])>>,
                  PairOf(s, t, p))

SuitablePair ==
    /\ Running("suitable") /\ loop.stage = "search"
    /\ LET s == loop.s
           t == loop.t
       IN  IF \E q \in Paired(s, t) : PairOf(s, t, q) # NoPair THEN Returned(s, t, FirstPair(s, t))
           ELSE IF t < LastOrder THEN GoOn([loop EXCEPT !.t = @ + 1])
           ELSE IF s < LastOrder THEN GoOn([loop EXCEPT !.s = @ + 1, !.t = s + 1])
           ELSE Return(NoFactors)

Enumeration ==
    /\ Pending("hypercube")
    /\ Return(enumerate_hypercube(call.m, call.symmetric))

SuitableCalls ==
    {c \in [op : {"suitable"}, ideal : Operands, f : TorsionPowers] : c.ideal.norm <= Largest(c.op)}
    \cup [op : {"hypercube"}, m : 1 .. BoxSize, symmetric : BOOLEAN]

SuitableStep ==
    \/ Suitable \/ SuitableL2 \/ SuitableBatch \/ SuitableParent \/ SuitableSearch \/ SuitablePair
    \/ Enumeration

-----------------------------------------------------------------------------
(* What it promises *)

\* What the order of a factor acts on: the ideal, or its product with the
\* conjugate of the ideal that connects the order.
ActedOn(ideal, t) ==
    IF t = 0 THEN [lattice |-> lattice_hnf(ideal.lattice), norm |-> ideal.norm]
    ELSE LET j == connecting(Alternates[t])
         IN  [lattice |-> product(lattice_conjugate(j.lattice), ideal.lattice), norm |-> j.norm * ideal.norm]

\* The vectors that are the same short element, up to a unit.
Orbit(c, symmetric) ==
    {c, vec_neg(c)} \cup (IF symmetric THEN {Turned(c), TurnedBack(c)} ELSE {})

FactorTrue(x, ideal) ==
    /\ contains(ideal.lattice, x.beta) # NoVec
    /\ NormOf(x.beta.v) = x.degree * ideal.norm * x.beta.denom * x.beta.denom

\* In every state of the search the elements of a batch are in order, and have
\* the norms that their degrees stand for.  A pair that is returned solves the
\* equation with odd u and v, and, whichever orders its elements were found in,
\* each is in the ideal that its order acts on, and has its degree times the
\* norm of that.  The enumeration has one of every orbit, and none twice.
SuitableExact ==
    /\ Is("suitable") /\ Res # NoFactors =>
         LET d1 == Res.factors[1].degree
             d2 == Res.factors[2].degree
         IN  /\ Res.u * d1 + Res.v * d2 = 2^Res.e /\ Res.e \in 1 .. call.f
             /\ Res.u > 0 /\ Res.v > 0 /\ Bezout[Res.u * d1, Res.v * d2].g = 1
             /\ \A n \in 1 .. 2 : FactorTrue(Res.factors[n], ActedOn(call.ideal, Res.factors[n].order))
    /\ Running("suitable") /\ loop.stage = "search" =>
         \A t \in 0 .. LastOrder :
             LET b == loop.batches[t + 1]
             IN  \A n \in 1 .. Len(b) - 1 : b[n].degree <= b[n + 1].degree
    /\ Is("hypercube") =>
         /\ \A i, j \in DOMAIN Res : i # j => Res[j] \notin Orbit(Res[i], call.symmetric)
         /\ \A c \in Draws(call.m) :
               AllMultiples(c, 2) \/ AllMultiples(c, 3)
               \/ \E i \in DOMAIN Res : c \in Orbit(Res[i], call.symmetric)

=============================================================================
