----------------------------- MODULE IdealSearch ---------------------------
(***************************************************************************)
(* What a thread calls of ideals: their constructors, and the searches     *)
(* that a reduction precedes or that draw at random under a budget.  A     *)
(* draw is a step: coefficients and what represents a norm take every      *)
(* value that they may, the coordinates of random ideals those of Edges.   *)
(***************************************************************************)
EXTENDS Ideals, Thread

CONSTANTS Connections,   \* the norms and offsets of connecting ideals
          Generators,    \* [x, n]: an element and a norm that generate an ideal
          Orders,        \* extremal orders that norms are represented in
          Represented,   \* the norms to represent
          Largest(_),    \* the largest norm of an ideal that an operation is called with
          PrimeNorms,    \* norms of random ideals, primes
          CompositeNorms,\* norms of random ideals, any
          Edges(_, _),   \* the values that a coordinate is drawn from, of first to last
          Cofactor,      \* the prime cofactor of represented norms
          MaxDraws,      \* the budget of a search
          MaxTaxicab,    \* the bound of the search for a generator
          EquivBound,    \* the bound of coefficients of equivalent ideals
          TopK           \* how many candidates are tried

ASSUME IdealSearchAssumption ==
    /\ {MaxDraws, MaxTaxicab, EquivBound, TopK} \subseteq Nat \ {0}
    /\ \A n \in PrimeNorms : n % 2 = 1 /\ IsPrime(n) /\ n # Ramified

\* The ideals that operations are called with.
IdealOf(g) == new(g.x, g.n, StandardOrder)
Operands == {connecting(c) : c \in Connections} \cup {IdealOf(g) : g \in Generators}

\* One more try, or none when the budget is spent.
Retry(limit, nothing) ==
    IF loop.tries + 1 >= limit THEN Return(nothing) ELSE GoOn([loop EXCEPT !.tries = @ + 1])

-----------------------------------------------------------------------------
(* Ideals *)

Construct ==
    /\ Pending("construct")
    /\ LET x == call.x
           n == call.n
       IN  Return([generic |-> from_generator(x, n, StandardOrder), four |-> new(x, n, StandardOrder),
                   thirty |-> from_generator_mod_hnf(x, n, StandardOrder)])

Inspect ==
    /\ Pending("ideal")
    /\ LET i == call.ideal
       IN  Return([refreshed |-> refresh_norm(i), inverse |-> inverse(i), right |-> right_order(i),
                   narrow |-> narrow_ideal(i)])

Generator == Pending("generator") /\ GoOn([n |-> 1])
GeneratorStep ==
    /\ Running("generator")
    /\ IF loop.n > MaxTaxicab THEN Return(NoElement)
       ELSE IF GeneratorsAt(call.ideal, loop.n) = {} THEN GoOn([n |-> loop.n + 1])
       ELSE Return(FirstGenerator(call.ideal, loop.n))

-----------------------------------------------------------------------------
(* Random ideals *)

PrimeNorm == Pending("prime_norm") /\ GoOn([stage |-> "draw", tries |-> 0])

\* Three coordinates are drawn and the first is completed by a root.
PrimeNormDraw ==
    /\ Running("prime_norm") /\ loop.stage = "draw"
    /\ \E b, c, d \in Edges(0, call.n - 1) :
          LET g == Vec(0, b, c, d)
              roots == IF call.wide THEN Completions(g, call.n) ELSE PrimeNormCompletions(g, call.n)
          IN  \/ roots = {} /\ Retry(MaxDraws, NoIdeal)
              \/ \E x \in roots :
                    IF call.wide THEN GoOn([stage |-> "twist", tries |-> loop.tries, x |-> x, twists |-> 0])
                    ELSE Return(random_prime_norm(x, call.n, StandardOrder))

\* A twist of norm coprime to that of the ideal; when none is drawn, another
\* draw of the element.
PrimeNormTwist ==
    /\ Running("prime_norm") /\ loop.stage = "twist"
    /\ \E a, b, c, d \in Edges(1, call.n) :
          LET v == Vec(a, b, c, d)
          IN  IF Twisting(v, call.n) THEN Return(random_prime_norm_wide(loop.x, v, call.n, StandardOrder))
              ELSE IF loop.twists + 1 < MaxDraws THEN GoOn([loop EXCEPT !.twists = @ + 1])
              ELSE IF loop.tries + 1 >= MaxDraws THEN Return(NoIdeal)
              ELSE GoOn([stage |-> "draw", tries |-> loop.tries + 1])

\* An element of norm Cofactor * n first.
RandomNorm ==
    /\ Pending("random_norm")
    /\ IF Hopeless(Cofactor * call.n, 1) THEN Return(NoIdeal)
       ELSE GoOn([stage |-> "represent", tries |-> 0])

RandomNormElement ==
    /\ Running("random_norm") /\ loop.stage = "represent"
    /\ \E x \in Iteration(StandardExtremal, Cofactor * call.n, FALSE) :
          IF x = NoElement THEN Retry(Bound(Cofactor * call.n, 1), NoIdeal)
          ELSE GoOn([stage |-> "twist", tries |-> 0, x |-> x])

RandomNormTwist ==
    /\ Running("random_norm") /\ loop.stage = "twist"
    /\ \E a, b, c, d \in Edges(1, call.n) :
          IF Twisting(Vec(a, b, c, d), call.n)
          THEN Return(random_norm(loop.x, Vec(a, b, c, d), call.n, StandardOrder))
          ELSE Retry(MaxDraws, NoIdeal)

RepresentInteger ==
    /\ Pending("represent")
    /\ IF Hopeless(call.m, call.o.q) THEN Return(NoElement) ELSE GoOn([tries |-> 0])

RepresentIntegerStep ==
    /\ Running("represent")
    /\ \E x \in Iteration(call.o, call.m, call.isogeny_cond) :
          IF x = NoElement THEN Retry(Bound(call.m, call.o.q), NoElement) ELSE Return(x)

-----------------------------------------------------------------------------
(* Equivalent ideals: a reduced basis first, then draws or candidates *)

Equivalents == {"prime_equivalent", "smallest", "smallest_narrow"}

\* The Gram matrix of the plain form, or that over the norm of the ideal.
BasisOf(op, ideal, cols) ==
    IF op = "smallest" THEN NrdBasis(cols, compute_gram(cols))
    ELSE class_basis(cols, ideal.lattice.denom, ideal.norm)
StartOf(op, ideal) ==
    BasisOf(op, ideal, columns((IF op = "smallest" THEN ideal.lattice ELSE canonicalize(ideal.lattice)).basis))

Reduction_ ==
    /\ \E op \in Equivalents : Pending(op)
    /\ GoOn([tries |-> 0] @@ L2Start(StartOf(call.op, call.ideal)))

Reducing == call.op \in Equivalents /\ loop # NoLoop
L2 == Reducing /\ loop.k < 4 /\ GoOn(l2_step(loop))

\* Coefficients are drawn until the norm that they give is a prime.
PrimeEquivalent ==
    /\ Running("prime_equivalent") /\ loop.k = 4
    /\ \E c \in Draws(EquivBound) :
          IF IsPrime(EquivalentNorm(loop.basis, c))
          THEN Return([ideal |-> reduce_to_prime_norm(call.ideal, loop.basis, c),
                       alpha |-> ConjugateOf(loop.basis, c, call.ideal.lattice.denom)])
          ELSE Retry(MaxDraws, [ideal |-> NoIdeal])

SmallestEquivalent ==
    /\ Running("smallest") /\ loop.k = 4
    /\ Return([ideal |-> smallest_equiv_with_delta(call.ideal, loop.basis),
               alpha |-> conjugate(Element(loop.basis.cols[0], call.ideal.lattice.denom))])

\* The candidates in order, the first that is accepted.
TakenOrNext(delta, taken) ==
    IF taken = NoIdeal THEN Retry(TopK, [ideal |-> NoIdeal])
    ELSE Return([ideal |-> taken, alpha |-> conjugate(delta)])
TryElement(delta) == TakenOrNext(delta, Accepted(call.ideal, delta))
SmallestNarrow ==
    /\ Running("smallest_narrow") /\ loop.k = 4
    /\ TryElement(Element(eval(from_columns(loop.basis.cols), Candidate(loop.basis, EquivBound, loop.tries + 1)),
                          call.ideal.lattice.denom))

-----------------------------------------------------------------------------
IdealCalls ==
    {[op |-> "construct", x |-> g.x, n |-> g.n] : g \in Generators}
    \cup {c \in [op : {"ideal", "generator"} \cup Equivalents, ideal : Operands] :
              c.ideal.norm <= Largest(c.op)}
    \cup [op : {"prime_norm"}, n : PrimeNorms, wide : BOOLEAN]
    \cup [op : {"random_norm"}, n : CompositeNorms]
    \cup [op : {"represent"}, o : Orders, m : Represented, isogeny_cond : BOOLEAN]

IdealsStep ==
    \/ Construct \/ Inspect \/ Generator \/ GeneratorStep
    \/ PrimeNorm \/ PrimeNormDraw \/ PrimeNormTwist
    \/ RandomNorm \/ RandomNormElement \/ RandomNormTwist
    \/ RepresentInteger \/ RepresentIntegerStep
    \/ Reduction_ \/ L2 \/ PrimeEquivalent \/ SmallestEquivalent \/ SmallestNarrow

-----------------------------------------------------------------------------
(* What the operations promise *)

\* A lattice that the order maps into itself from the left.
IsIdeal(i) ==
    LET h == lattice_hnf(i.lattice)
    IN  \A a, b \in Axes : contains(h, mul_direct(basis_elem(i.order, a), basis_elem(h, b))) # NoVec

\* The norm that the ideal is said to have is the one that it has.
TrueNorm(i) == refresh_norm(i).norm = i.norm
SameIdeal(i, j) == SameLattice(lattice_hnf(reduce_denom(i.lattice)), lattice_hnf(reduce_denom(j.lattice)))

\* An order: it has 1, is closed under its product and is as large as O0.
IsOrder(o) ==
    /\ contains(o, from_coords(Unit(0, 1))) # NoVec
    /\ \A a, b \in Axes : contains(o, mul_direct(basis_elem(o, a), basis_elem(o, b))) # NoVec
    /\ LET r == reduce_denom(o) IN 4 * Abs(det(r.basis)) = Fourth(r.denom)

\* The ideal times an element, over the norm of the ideal.
Translated(i, x) ==
    LET l == i.lattice
    IN  Lattice(from_hnf_columns(MultipliedColumns(l, x)), l.denom * x.denom * i.norm)

\* Whichever constructor made it, from whatever draws, an ideal is closed
\* under its order and has the norm it is said to have, and the narrow one
\* does not panic; the constructors agree; the right order is a maximal one;
\* a generator found generates the ideal with its norm.  An element that
\* represents a norm is in the order, and has the norm that was asked for;
\* four times that in an order with q > 1 without the isogeny condition,
\* where no content is divided out.
IdealsExact ==
    /\ Is("construct") =>
         /\ Res.four # Panicked
         /\ \A r \in {Res.generic, Res.four, Res.thirty} :
                IsIdeal(r) /\ TrueNorm(r) /\ SameIdeal(r, Res.generic)
    /\ Is("ideal") =>
         /\ Res.refreshed.norm = call.ideal.norm /\ IsOrder(Res.right)
         /\ Res.narrow \in {call.ideal, NoIdeal}
    /\ Is("generator") /\ Res # NoElement =>
         SameIdeal(from_generator(Res, call.ideal.norm, call.ideal.order), call.ideal)
    /\ Is("prime_norm") \/ Is("random_norm") =>
         \/ Res = NoIdeal
         \/ Res # Panicked /\ Res.norm = call.n /\ IsIdeal(Res) /\ TrueNorm(Res)
    /\ Is("represent") =>
         \/ Res = NoElement
         \/ /\ contains(lattice_hnf(call.o.order), Res) # NoVec
            /\ LET times == IF call.isogeny_cond \/ call.o.q = 1 THEN 1 ELSE 4
               IN  NormOf(Res.v) = times * call.m * Res.denom * Res.denom

\* The rows that l2_reduce keeps of the columns before the current one, and
\* what it has of the current row of mu when it next reads it, are those of
\* the columns as they are by now.
RowsKept(s) ==
    LET g == Family(s.basis.gram, Min({s.k, 3}))
    IN  \A i \in 0 .. Min({s.k, 4}) - 1 :
            /\ \A j \in 0 .. i : s.gso.r[i][j] = g.r[i][j]
            /\ \A j \in 0 .. i - 1 : s.gso.mu[i][j] = g.mu[i][j]
            /\ s.k < 4 /\ i < s.left => s.gso.mu[s.k][i] = g.mu[s.k][i]

\* In every state of a reduction the products are those of the columns, the
\* columns are a basis of the lattice, and those before the current one are
\* reduced, by the rows kept of them as by the products; the ideal then given
\* is the one that the element takes it to, and has the norm that it is said
\* to have.  Where it is made from two generators this takes an element whose
\* norm, over that of the ideal, is coprime to it.
ReductionKept ==
    /\ Reducing =>
         LET b == loop.basis
             g == Family(b.gram, loop.k - 1)
         IN  /\ b = BasisOf(call.op, call.ideal, b.cols)
             /\ hnf(from_columns(b.cols)) = hnf(call.ideal.lattice.basis)
             /\ RowsKept(loop)
             /\ \A k \in 1 .. loop.k - 1 : /\ ~Fails(b.gram, g, k, k - 1)
                                           /\ \A i \in 0 .. k - 1 : ~Beyond(g, k, i)
    /\ result # NoResult /\ call.op \in Equivalents =>
         LET made == call.op = "smallest" \/ Generates(call.ideal, Res.alpha)
         IN  \/ Res.ideal = NoIdeal
             \/ /\ IsIdeal(Res.ideal)
                /\ made \/ call.op = "smallest_narrow" => TrueNorm(Res.ideal)
                /\ made => SameLattice(lattice_hnf(reduce_denom(Res.ideal.lattice)),
                                       lattice_hnf(reduce_denom(Translated(call.ideal, Res.alpha))))

=============================================================================
