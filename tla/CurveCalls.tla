----------------------------- MODULE CurveCalls -----------------------------
(***************************************************************************)
(* What a thread calls of curves, isogenies, pairings and bases.  Points   *)
(* are given by their coordinates in a basis of E[2^EvenPower] whose       *)
(* points are known with both coordinates, so that the chord and tangent   *)
(* law, which the code nowhere uses, says what every formula must return.  *)
(***************************************************************************)
EXTENDS TorsionBases, Thread

CONSTANTS Curves,        \* coefficients, each with a basis of E[2^EvenPower]
          Coefficients,  \* of further curves, for which hints are made
          Presentations, \* ways to present a curve, each with a factor
          Points,        \* pairs of coordinates of points in these bases
          Kernels,       \* pairs of coordinates of generators of kernels
          Levels,        \* exponents of the orders of kernels and of reduced bases
          ScalarValues,
          Entries        \* elements of F_{p^2}

-----------------------------------------------------------------------------
(* The chord and tangent law *)

AtInfinity == << >>
Opposite(P) == IF P = AtInfinity THEN P ELSE <<P[1], Fp2Neg(P[2])>>

Chord(A, P, Q) ==
    IF P[1] # Q[1] THEN (Q[2] -- P[2]) // (Q[1] -- P[1])
    ELSE (ThreeTimes(Fp2Square(P[1])) ++ (Twice(A) ** P[1]) ++ Fp2One) // Twice(P[2])

OnLine(P, slope, x) == <<x, (slope ** (P[1] -- x)) -- P[2]>>
ThirdOn(A, P, Q, slope) == OnLine(P, slope, ((Fp2Square(slope) -- A) -- P[1]) -- Q[1])
Plus(A, P, Q) ==
    CASE P = AtInfinity -> Q
      [] Q = AtInfinity -> P
      [] P # AtInfinity /\ Q = Opposite(P) -> AtInfinity
      [] OTHER -> ThirdOn(A, P, Q, Chord(A, P, Q))

Minus(A, P, Q) == Plus(A, P, Opposite(Q))

Multiple(A, n, P) ==
    LET times[k \in 0 .. n] ==
            IF k = 0 THEN AtInfinity
            ELSE IF k % 2 = 1 THEN Plus(A, times[k - 1], P)
            ELSE Plus(A, times[k \div 2], times[k \div 2])
    IN  times[n]

Order == 2^EvenPower
PointOf(c, at) ==
    LET part == [i \in 1 .. 2 |-> Multiple(c.A, at[i] % Order, IF i = 1 THEN c.P ELSE c.Q)]
    IN  Plus(c.A, part[1], part[2])

OnCurve(A, P) == Fp2Square(P[2]) = RightSide([affine |-> A], P[1])
Generate(A, P, Q) ==
    LET half == [R \in {P, Q} |-> Multiple(A, Order \div 2, R)]
    IN  /\ AtInfinity \notin {half[P], half[Q]} /\ half[P] # half[Q]
        /\ \A R \in {P, Q} : Plus(A, half[R], half[R]) = AtInfinity

ASSUME CurvesAssumption ==
    /\ \A c \in Curves : OnCurve(c.A, c.P) /\ OnCurve(c.A, c.Q) /\ Generate(c.A, c.P, c.Q)
    /\ \A v \in Presentations : v.scale # Fp2Zero

\* P stands for the affine point R, or for the one at infinity.
StandsAt(P, R) ==
    IF R = AtInfinity THEN P[2] = Fp2Zero /\ P[1] # Fp2Zero
    ELSE P[2] # Fp2Zero /\ P[1] = R[1] ** P[2]
JacobianAt(P, R) ==
    IF R = AtInfinity THEN P[3] = Fp2Zero
    ELSE P[3] # Fp2Zero /\ P[1] = R[1] ** Fp2Square(P[3]) /\ P[2] = R[2] ** Cubed(P[3])

\* Projective coordinates of R, scaled.
Known(R, scale) == IF R = AtInfinity THEN <<scale, Fp2Zero>> ELSE <<R[1] ** scale, scale>>
KnownBoth(R, scale) ==
    IF R = AtInfinity THEN <<Fp2One, Fp2One, Fp2Zero>>
    ELSE <<R[1] ** Fp2Square(scale), R[2] ** Cubed(scale), scale>>

\* The curve of the call, as one of the conversions makes it.
Presented(A, v) ==
    CASE v.form = "coefficient" -> IF A = Fp2Zero THEN E0 ELSE FromCoefficient(A)
      [] v.form = "projective"  -> FromProjective(A ** v.scale, v.scale)
      [] v.form = "doubling"    -> FromDoubling((A ++ FromFp(2)) ** v.scale, FourTimes(v.scale))
CurveOfCall == Presented(call.curve.A, call.view)

\* The point of the call's curve at r, and coordinates of a point with the
\* factor of the call.
At(r) == PointOf(call.curve, r)
Given(R) == Known(R, call.view.scale)
MinusHere(R, S) == Minus(call.curve.A, R, S)

-----------------------------------------------------------------------------
(* Points of one curve *)

OfPoints(E, P, Q, D) ==
    [doubles |-> {Double(E, P), DoubleUnnormalized(E, P)}
                     \cup (IF E.affine = Fp2Zero THEN {DoubleE0(P)} ELSE {}),
     fifth |-> ClearCofactor(E, P), sum |-> DifferentialAdd(P, Q, D),
     difference |-> ProjectiveDifference(E, P, Q),
     discriminant |-> Discriminant(DifferenceQuadratic(E, P, Q)),
     lift |-> Lift(E, TorsionBasis(P, Q, D))]
AroundPoints(E, R, S) == OfPoints(E, Given(R), Known(S, Fp2One), Given(MinusHere(R, S)))
OnPoints == Pending("points") /\ Return(AroundPoints(CurveOfCall, At(call.r), At(call.s)))

OfJacobian(E, P, Q) ==
    [doubles |-> {JacobianDouble(E, P), DoubleForTheta(E, P)}, xs |-> XAddSub(E, P, Q), x |-> XOnly(P)]
OnJacobian ==
    /\ Pending("jacobian")
    /\ Return(OfJacobian(CurveOfCall, KnownBoth(At(call.r), call.view.scale), KnownBoth(At(call.s), Fp2One)))

FieldRoots == Pending("fp2_root") /\ Return([root |-> Fp2Sqrt(call.x), square |-> Fp2IsSquare(call.x)])

-----------------------------------------------------------------------------
(* Isogenies.  Five points are carried along: a basis with its difference, *)
(* the double of a point, and the kernel.                                  *)

DownTo(e, r) == <<r[1] * 2^(EvenPower - e), r[2] * 2^(EvenPower - e)>>
Carried ==
    LET c == call.curve
    IN  [P |-> Given(c.P), Q |-> Known(c.Q, Fp2One), D |-> Given(MinusHere(c.P, c.Q)),
         twice |-> Given(Plus(c.A, c.P, c.P)), kernel |-> Given(At(DownTo(call.e, call.r)))]

EvalAll(phi, pts) == [j \in DOMAIN pts |-> Eval(phi, pts[j])]
TimesPowerOf2(E, P, n) == LET d[i \in 0 .. n] == IF i = 0 THEN P ELSE Double(E, d[i - 1]) IN d[n]

\* Steps of degree two, each from a point that is doubled down anew.
WrongOrder == << >>
TwoStep(E, K) == IF K[1] = Fp2Zero THEN TwoIsogenySingular(E) ELSE TwoIsogeny(K)
Stepped(phi, P, pts) == [curve |-> phi.codomain, P |-> Eval(phi, P), pts |-> EvalAll(phi, pts)]
isogeny_small(E, K, e, pts) ==
    LET after[i \in 0 .. e] ==
            IF i = 0 THEN [curve |-> E, P |-> K, pts |-> pts]
            ELSE LET s == after[i - 1]
                 IN  Stepped(TwoStep(s.curve, TimesPowerOf2(s.curve, s.P, e - i)), s.P, s.pts)
    IN  IF e > 0 /\ ~IsIdentity(TimesPowerOf2(E, K, e)) THEN WrongOrder
        ELSE after[e]

ShortWalk ==
    /\ Pending("short")
    /\ Return(isogeny_small(CurveOfCall, Given(At(DownTo(call.order, call.r))), call.e, Carried))

\* The strategy: the points that wait on the stack, each with the exponent
\* of its order, and the points that are carried along.
ChainStart ==
    /\ Pending("chain")
    /\ GoOn([curve |-> CurveOfCall, left |-> call.e \div 2, orders |-> <<call.e>>,
             points |-> <<Given(At(DownTo(call.e, call.r)))>>, pts |-> Carried])

TopOf(stack) == stack[Len(stack)]

ChainDown ==
    /\ Running("chain") /\ loop.left > 0 /\ TopOf(loop.orders) # 2
    /\ LET order == TopOf(loop.orders)
           n == (order \div 4) * 2 + (order % 2)
       IN  GoOn([loop EXCEPT !.points = Append(@, TimesPowerOf2(loop.curve, TopOf(@), n)),
                             !.orders = Append(@, order - n)])

\* Mutant: the points that wait on the stack are not carried along.
MutAfterFour(phi) ==
    LET below == 1 .. Len(loop.orders) - 1
    IN  [curve |-> phi.codomain, left |-> loop.left - 1, orders |-> [i \in below |-> loop.orders[i] - 2],
         points |-> [i \in below |-> loop.points[i]], pts |-> EvalAll(phi, loop.pts)]

AfterFour(phi) ==
    LET below == 1 .. Len(loop.orders) - 1
    IN  [curve |-> phi.codomain, left |-> loop.left - 1, orders |-> [i \in below |-> loop.orders[i] - 2],
         points |-> [i \in below |-> Eval(phi, loop.points[i])], pts |-> EvalAll(phi, loop.pts)]
ChainFour ==
    /\ Running("chain") /\ loop.left > 0 /\ TopOf(loop.orders) = 2
    /\ GoOn(AfterFour(FourIsogeny(TopOf(loop.points))))

ChainReturn ==
    /\ Running("chain") /\ loop.left = 0
    /\ IF call.e % 2 = 0 THEN Return([curve |-> loop.curve, pts |-> loop.pts])
       ELSE LET phi == TwoIsogeny(loop.points[1])
            IN  Return([curve |-> phi.codomain, pts |-> EvalAll(phi, loop.pts)])

-----------------------------------------------------------------------------
(* Bases, pairings and scalars *)

FoundFrom(made, A) == IF made = NoHint THEN NoBasis ELSE from_hint(FromCoefficient(A), made.hint)
MadeAndFound(made) == [made |-> made, found |-> FoundFrom(made, call.curve.A)]
Hints == Pending("hint") /\ Return(MadeAndFound(to_hint(CurveOfCall)))

\* The basis of E[2^e] of the points above r and s.
BasisOn(R, S) == TorsionBasis(Given(R), Known(S, Fp2One), Given(MinusHere(R, S)))
BasisAbove(e, r, s) ==
    LET R == [t \in {r, s} |-> At(DownTo(e, t))] IN BasisOn(R[r], R[s])

PairedOn(E, b, e) == [tate |-> Tate(E, b, e), weil |-> Weil(E, b, e)]
Pairings ==
    /\ Pending("pairing")
    /\ LET Of(b) == PairedOn(CurveOfCall, TorsionBasis(b.P, b.Q, b.PmQ), call.e)
       IN  Return([j \in {"one", "other"} |-> Of(BasisAbove(call.e, IF j = "one" THEN <<1, 0>> ELSE call.r,
                                                            IF j = "one" THEN <<0, 1>> ELSE call.s))])

\* From one basis to another, and back.
Applied(E, m, b, e) == IF m = NoChange THEN NoBasis ELSE apply_change(E, m, b, e)
BetweenBases(E, low, reduced, there, back, e) ==
    [low |-> low, reduced |-> reduced, there |-> there, back |-> back,
     onto |-> Applied(E, there, low, e), home |-> Applied(E, back, reduced, e)]
LoweredTo(E, b, e) == [slot \in DOMAIN b |-> TimesPowerOf2(E, b[slot], EvenPower - e)]
OfBases(E, canonical, reduced, e) ==
    BetweenBases(E, LoweredTo(E, canonical, e), reduced, from_bases(E, canonical, reduced, e),
                 from_bases_invert(E, canonical, reduced, e), e)
Changes ==
    /\ Pending("change")
    /\ Return(OfBases(CurveOfCall, BasisAbove(EvenPower, <<1, 0>>, <<0, 1>>),
                      BasisAbove(call.e, call.r, call.s), call.e))

ScalarArithmetic ==
    /\ Pending("scalar")
    /\ LET s == ScalarOfInt(call.m)
           t == ScalarOfInt(call.n)
           k == call.bits
       IN  Return([sum |-> AddMod2k(s, t, k), difference |-> SubMod2k(s, t, k), product |-> MulMod2k(s, t, k),
                   inverse |-> InvMod2k(s, k), length |-> BitLength(s)])

\* To the base of a root of unity of order 2^e.
RootFrom(x, e) == ToRoot(Fp2Conjugate(x) // x, e)
LogOfPower(z) == Dlog(z, RootPower(z, call.n), call.e)
Logarithm == Pending("logarithm") /\ Return(LogOfPower(RootFrom(call.x, call.e)))

-----------------------------------------------------------------------------
(* The calls *)

Odd(r, s) == (r[1] * s[2] - r[2] * s[1]) % 2 = 1

CurveCalls ==
    LET On(ops, more) == {[op |-> op, curve |-> c, view |-> v] @@ m :
                              op \in ops, c \in Curves, v \in Presentations, m \in more}
        Two == [r : Points, s : Points]
    IN  On({"points", "jacobian"}, Two)
        \cup On({"short"}, {m \in [r : Kernels, e : Levels, order : Levels] : m.order \in m.e .. m.e + 1})
        \cup On({"chain"}, [r : Kernels, e : Levels \ {1}])
        \cup On({"pairing", "change"}, {m \in [r : Points, s : Points, e : Levels \ {1}] : Odd(m.r, m.s)})
        \cup [op : {"hint"}, curve : Curves \cup [A : Coefficients], view : Presentations]
        \cup [op : {"scalar"}, m : ScalarValues, n : ScalarValues, bits : 0 .. ScalarBits]
        \cup [op : {"logarithm"}, x : Entries, e : 0 .. EvenPower, n : {m \in ScalarValues : m >= 0}]
        \cup [op : {"fp2_root"}, x : Entries]

CurvesStep ==
    \/ OnPoints \/ OnJacobian \/ FieldRoots \/ ShortWalk \/ ChainStart \/ ChainDown \/ ChainFour \/ ChainReturn
    \/ Hints \/ Pairings \/ Changes \/ ScalarArithmetic \/ Logarithm

-----------------------------------------------------------------------------
(* What the operations promise *)

Zero2 == <<Fp2Zero, Fp2Zero>>

\* An element of F_p that is not a square there: its root is i times one.
RealNonResidue(x) == x[2] = 0 /\ ~IsSquareInFp(x[1])

\* A square is told from its norm, as by Euler's criterion, and the root is
\* one, and the even one, but for the elements of F_p that have none there:
\* of them the root comes out zero.
RootsTrue ==
    Is("fp2_root") =>
        /\ Res.square = (call.x = Fp2Zero \/ RootPower(call.x, (p * p - 1) \div 2) = Fp2One)
        /\ Res.square => (Fp2Square(Res.root) = call.x) = ~RealNonResidue(call.x)
        /\ EvenRoot(Res.root) = Res.root

PointsOf(A, R, S, sum, difference) ==
    /\ \A D \in Res.doubles : StandsAt(D, Plus(A, R, R))
    /\ R \notin {AtInfinity, Zero2} => StandsAt(Res.fifth, Multiple(A, 5, R))
    /\ difference \notin {AtInfinity, Zero2} => StandsAt(Res.sum, sum)
    /\ AtInfinity \notin {R, S, sum, difference} =>
           (StandsAt(Res.difference, sum) \/ StandsAt(Res.difference, difference))
               = ~RealNonResidue(Res.discriminant)
    /\ AtInfinity \notin {R, S, difference} /\ R[2] # Fp2Zero /\ ~RealNonResidue(Fp2Square(R[2])) =>
           \E h \in {R, Opposite(R)} :
               /\ JacobianAt(Res.lift[1], h)
               /\ JacobianAt(Res.lift[2], IF h = R THEN S ELSE Opposite(S))

JacobianOf(A, R, S, sum, difference) ==
    R # AtInfinity =>
        /\ StandsAt(Res.x, R)
        /\ \A D \in Res.doubles : JacobianAt(D, Plus(A, R, R))
        /\ AtInfinity \notin {S, sum, difference} =>
               StandsAt(Res.xs.sum, difference) /\ StandsAt(Res.xs.difference, sum)

OperationsAt(A, R, S, sum, difference) ==
    /\ Is("points") => PointsOf(A, R, S, sum, difference)
    /\ Is("jacobian") => JacobianOf(A, R, S, sum, difference)
OperationsOn(A, R, S) == OperationsAt(A, R, S, Plus(A, R, S), Minus(A, R, S))

\* x-only and Jacobian formulas follow the chord and tangent law, with these
\* exceptions.  Ladder and differential addition lose a multiple whose
\* difference is the identity or (0, 0).  The difference found without a y is
\* one of the two, unless its discriminant is a real non-residue; the lift,
\* likewise, unless the square of y is.  What x_add_sub names the sum is the
\* difference, and what it names the difference is the sum.
PointsTrue ==
    Is("points") \/ Is("jacobian") => OperationsOn(call.curve.A, At(call.r), At(call.s))

\* P is a point of order 2^n.
HasOrder(E, P, n) ==
    IF n = 0 THEN IsIdentity(P)
    ELSE LET half == TimesPowerOf2(E, P, n - 1) IN ~IsIdentity(half) /\ IsIdentity(Double(E, half))

ExponentOfGcd(n, e) == Max({k \in 0 .. e : n % 2^k = 0})
IsPoint(P) == P # Zero2

\* The images of what was carried along, under an isogeny of kernel [2^(f-e)] r:
\* the kernel is killed, sums stay sums, and a generator keeps the part of its
\* order that the kernel does not hold.
ImagesTrue(F, pts, e, r) ==
    LET b == DifferenceQuadratic(F, pts.P, pts.Q)
        D == pts.D
    IN  /\ \A j \in DOMAIN pts : IsPoint(pts[j])
        /\ IsIdentity(pts.kernel)
        /\ SamePoint(Double(F, pts.P), pts.twice)
        /\ (b.ZZ ** Fp2Square(D[1])) ++ (b.XX ** Fp2Square(D[2])) = Twice(b.XZ ** (D[1] ** D[2]))
        /\ HasOrder(F, pts.P, EvenPower - ExponentOfGcd(r[2], e))
        /\ HasOrder(F, pts.Q, EvenPower - ExponentOfGcd(r[1], e))

\* The kernel lies above (0, 0).
Above0(c, r) == PointOf(c, DownTo(1, r)) = Zero2
RootOfSingular(A) == Fp2Square(A) -- FromFp(4)

SameWalk(F, pts, short, iso) ==
    /\ JInvariant(F) = JInvariant(short.curve)
    /\ iso # NoIsomorphism => \A j \in DOMAIN pts : SamePoint(EvalIsomorphism(iso, pts[j]), short.pts[j])
AgreesWith(F, pts, short) == SameWalk(F, pts, short, IsomorphismTo(F, short.curve))

\* Both walks divide by the kernel that they are given, and agree up to the
\* isomorphism between their codomains.  The naive one refuses an order that
\* is too large and fails where the root it needs, above (0, 0), is that of a
\* real non-residue.  The 4-isogenies know no kernel above (0, 0): the first
\* codomain is then singular, and of no other kernel is it.
ShortTrue(above) ==
    /\ (Res = WrongOrder) = (call.order > call.e)
    /\ call.order = call.e /\ ~(above /\ RealNonResidue(RootOfSingular(call.curve.A))) =>
           ~IsSingular(Res.curve.affine) /\ ImagesTrue(Res.curve, Res.pts, call.e, call.r)
ChainTrue(above) ==
    /\ Is("chain") /\ ~above =>
           /\ ImagesTrue(Res.curve, Res.pts, call.e, call.r)
           /\ AgreesWith(Res.curve, Res.pts,
                         isogeny_small(CurveOfCall, Given(At(DownTo(call.e, call.r))), call.e, Carried))
    /\ Running("chain") /\ loop.left = (call.e \div 2) - 1 => IsSingular(loop.curve.affine) = above
    /\ Running("chain") /\ ~above =>
           \A i \in DOMAIN loop.orders : HasOrder(loop.curve, loop.points[i], loop.orders[i])
WalksTrue ==
    /\ Is("short") => ShortTrue(Above0(call.curve, call.r))
    /\ call.op = "chain" => ChainTrue(Above0(call.curve, call.r))

\* Roots, points and isogenies of curves are what the law of the curve says,
\* with the exceptions named above and no other.
CurvesExact == RootsTrue /\ PointsTrue /\ WalksTrue

-----------------------------------------------------------------------------

SameBasis(b, d) == \A slot \in {"P", "PmQ", "Q"} : SamePoint(b[slot], d[slot])

\* The halves of a basis are the three points of order 2, and that of the slot
\* PmQ is (0, 0), but of Q on E_0.
Halved(E, half) ==
    /\ \A slot \in DOMAIN half : HasOrder(E, half[slot], 1)
    /\ Cardinality({AffineXOf(half[slot]) : slot \in DOMAIN half}) = 3
    /\ AffineXOf(half[IF E.affine = Fp2Zero THEN "Q" ELSE "PmQ"]) = Fp2Zero

\* A basis has a hint unless the search gives up; the hint gives verification
\* the same three points, difference included, however the curve came to it.
HintsTrue ==
    Is("hint") =>
        LET A == call.curve.A
        IN  /\ (Res.made = NoHint)
                   = (A # Fp2Zero /\ SearchFrom(A, IF Fp2IsSquare(A) THEN 1 ELSE 0, 1) = NoIndex)
            /\ Res.made # NoHint =>
                   /\ SameBasis(Res.made.basis, Res.found)
                   /\ Halved(CurveOfCall, LoweredTo(CurveOfCall, Res.made.basis, 1))

RootHasOrder(z, n) == SquareN(z, n) = Fp2One /\ (n > 0 => SquareN(z, n - 1) # Fp2One)

\* The Weil pairing is bilinear and alternating: changing a basis raises it to
\* the determinant.  Its order is less than 2^e at a level e below the full
\* one: 2^(2e - EvenPower - 1).
PairingsTrue ==
    Is("pairing") =>
        LET d == (call.r[1] * call.s[2] - call.r[2] * call.s[1]) % Order
            n == 2 * call.e - EvenPower - 1
        IN  /\ Res.other.weil = RootPower(Res.one.weil, d)
            /\ RootHasOrder(Res.one.weil, Max({0, n}))

\* The matrix between two bases, recovered by pairings and logarithms, takes
\* the one to the other, and its inverse takes it back, both with entries
\* below 2^e.  It needs lifts of both bases and no generator, up to sign, in
\* common: a pairing of a point with itself would make all five zero.
ChangesTrue ==
    Is("change") =>
        LET c == call.curve
            R == At(DownTo(call.e, call.r))
            S == At(DownTo(call.e, call.s))
            good == /\ ~RealNonResidue(Fp2Square(c.P[2])) /\ ~RealNonResidue(Fp2Square(R[2]))
                    /\ {R[1], S[1]} \cap {c.P[1], c.Q[1]} = {}
        IN  good =>
                /\ Res.there # NoChange /\ Res.back # NoChange
                /\ entries_below_pow2(Res.there, call.e) /\ entries_below_pow2(Res.back, call.e)
                /\ SameBasis(Res.onto, Res.reduced)
                /\ SameBasis(Res.home, Res.low)

\* Scalars are integers modulo 2^k whatever limbs they have, those of negative
\* integers too, and a logarithm to a base of order 2^e is the exponent.
ScalarsTrue ==
    /\ Is("scalar") =>
           LET m == call.m
               n == call.n
               size == 2^call.bits
           IN  /\ NatOf(Res.sum) = (m + n) % size
               /\ NatOf(Res.difference) = (m - n) % size
               /\ NatOf(Res.product) = (m * n) % size
               /\ (Res.inverse = NoScalar) = (m % 2 = 0)
               /\ Res.inverse # NoScalar => (NatOf(Res.inverse) * m) % size = 1 % size
               /\ m >= 0 => Res.length = Cardinality({k \in 0 .. ScalarBits - 1 : 2^k <= m})
    /\ Is("logarithm") /\ RootHasOrder(RootFrom(call.x, call.e), call.e) =>
           NatOf(Res) = call.n % 2^call.e

\* What the two sides of the protocol must agree on about bases: hints,
\* pairings, matrices and scalars.
BasesAgree == HintsTrue /\ PairingsTrue /\ ChangesTrue /\ ScalarsTrue
=============================================================================
