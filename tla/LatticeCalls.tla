---------------------------- MODULE LatticeCalls ---------------------------
(***************************************************************************)
(* What a thread calls of elements, matrices and lattices.  A normal form  *)
(* is computed a row at a time, and so is a kernel.                        *)
(***************************************************************************)
EXTENDS Lattices, Thread

CONSTANTS Families,      \* columns that normal forms are computed of
          Multiples,     \* the moduli, as multiples of the covolume
          Matrices,      \* matrices that are inverted
          Members,       \* elements
          Samples,       \* lattices
          Widest         \* bound of the moduli of products

\* The gcd of all the minors of four columns.
Covolume(cols) ==
    LET Minor(s) == LET c == SetToSortSeq(s, LAMBDA x, y : x < y)
                    IN  det([i \in Axes |-> [j \in Axes |-> cols[c[j + 1]][i]]])
    IN  FoldSet(LAMBDA s, g : Bezout[g, Abs(Minor(s))].g, 0, kSubset(4, DOMAIN cols))

HnfCalls ==
    LET Full == {f \in Families : Covolume(f) # 0}
    IN  [op : {"hnf"}, cols : Families, via : {"classic"}, modulus : {0}]
        \cup UNION {[op : {"hnf"}, cols : {f}, via : {"mod", "cref"},
                     modulus : {t * Covolume(f) : t \in Multiples}] : f \in Full}

Hnf ==
    /\ Pending("hnf")
    /\ GoOn(CASE call.via = "classic" -> [row |-> 3, a |-> call.cols]
              [] call.via = "mod"     -> ModStart(call.cols, call.modulus)
              [] call.via = "cref"    -> CrefStart(call.cols, call.modulus))

ClassicStep ==
    /\ Running("hnf") /\ call.via = "classic"
    /\ IF loop.row < 0 THEN Return(FirstFour(loop.a))
       ELSE GoOn([row |-> loop.row - 1, a |-> ClassicRow(loop.a, loop.row)])

ModStep ==
    /\ Running("hnf") /\ call.via = "mod"
    /\ IF loop.pivot < 0 THEN Return(FirstFour(loop.a)) ELSE GoOn(ModRow(loop, call.modulus))

CrefStep ==
    /\ Running("hnf") /\ call.via = "cref"
    /\ IF loop.row < 0 THEN Return(from_columns(loop.w)) ELSE GoOn(CrefRow(loop))

-----------------------------------------------------------------------------
(* Elements and matrices *)

MatrixInverse ==
    /\ Pending("matrix")
    /\ Return(cofactor_and_det(call.m) @@ [adjugate |-> adjugate(call.m), expanded |-> det(call.m),
                                           whole |-> scalar_div(Scale(-3, call.m), -3)])

Arithmetic ==
    /\ Pending("element")
    /\ LET x == call.x
           y == call.y
       IN  Return([sum |-> add(x, y), difference |-> sub(x, y), product |-> mul_direct(x, y),
                   narrow |-> mul(x, y), twice |-> normalize(scalar_mul(x, -2)), trace |-> trace(x)])

Primitive ==
    /\ Pending("primitive")
    /\ Return([back |-> compute_backtracking(call.x), odd |-> make_primitive_odd(call.x)])

-----------------------------------------------------------------------------
(* Lattices *)

Join ==
    /\ Pending("join")
    /\ LET l == Lattice(Scale(call.m.denom, call.l.basis), call.l.denom * call.m.denom)
           m == Lattice(Scale(call.l.denom, call.m.basis), call.l.denom * call.m.denom)
           covolume == Covolume(Beside(columns(l.basis), columns(m.basis)))
       IN  Return([sum |-> sum(call.l, call.m), modular |-> sum_mod(l, m, 2 * covolume),
                   cref |-> sum_mod_cref(call.l, call.m, covolume)])

\* The intersection by the kernel goes row by row; that by the duals is one
\* of sums and cofactors, classic or modular.
Meet == Pending("meet") /\ GoOn([row |-> 0] @@ KernelStart(call.l, call.m))
MeetRow ==
    /\ Running("meet")
    /\ IF loop.row <= 3 THEN GoOn([row |-> loop.row + 1] @@ KernelRow(loop, loop.row))
       ELSE Return([kernel |-> KernelBasis(call.l, loop)])

MeetDual ==
    /\ Pending("meet_dual")
    /\ Return([dual |-> intersection(call.l, call.m),
               modular |-> intersection_via_dual_sum_dual(call.l, call.m)])

LatticeProduct ==
    /\ Pending("product")
    /\ LET d == Abs(det(FirstFour(ProductColumns(call.l, call.m))))
       IN  Return([full |-> product(call.l, call.m), modular |-> product_with_modulus(call.l, call.m, 2 * d)])

ByElement ==
    /\ Pending("by_element")
    /\ LET d == Abs(det(from_columns(MultipliedColumns(call.l, call.x))))
       IN  Return([full |-> alg_elem_mul(call.l, call.x),
                   modular |-> alg_elem_mul_with_modulus(call.l, call.x, 2 * d)])

Membership ==
    /\ Pending("member")
    /\ Return([hnf |-> lattice_hnf(call.l), decompose |-> decompose(call.l, call.x),
               contains |-> contains(lattice_hnf(call.l), call.x)])

Lowest ==
    /\ Pending("lowest")
    /\ LET h == lattice_hnf(call.l)
       IN  Return([hnf |-> h, lowest |-> reduce_denom(h), canonical |-> canonicalize(h),
                   conjugate |-> hnf_conjugate(h), same |-> SameLattice(reduce_denom(h), h)])

-----------------------------------------------------------------------------
\* The modulus of the sum of the duals, but for the gcd.
DualModulus(l, m) == LET d == Abs(det(l.basis)) IN Fourth(det(m.basis) * l.denom) * d * d * d

LatticeOperations ==
    HnfCalls \cup [op : {"matrix"}, m : Matrices]
    \cup [op : {"element"}, x : Members, y : Members] \cup [op : {"primitive"}, x : Members]
    \cup [op : {"join", "meet"}, l : Samples, m : Samples]
    \cup {c \in [op : {"meet_dual"}, l : Samples, m : Samples] :
             /\ Abs(det(c.l.basis) * c.m.denom) <= 8 /\ Abs(det(c.m.basis) * c.l.denom) <= 8
             /\ DualModulus(c.l, c.m) <= Widest /\ DualModulus(c.m, c.l) <= Widest}
    \cup {c \in [op : {"product"}, l : Samples, m : Samples] :
             Abs(det(FirstFour(ProductColumns(c.l, c.m)))) \in 1 .. Widest}
    \cup [op : {"member"}, l : Samples, x : Members]
    \cup {c \in [op : {"by_element"}, l : Samples, x : Members] :
             Abs(det(FirstFour(MultipliedColumns(c.l, c.x)))) \in 1 .. Widest}
    \cup [op : {"lowest"}, l : Samples]

LatticesStep ==
    \/ Hnf \/ ClassicStep \/ ModStep \/ CrefStep \/ MatrixInverse \/ Arithmetic \/ Primitive
    \/ Join \/ Meet \/ MeetRow \/ MeetDual \/ LatticeProduct \/ ByElement \/ Membership \/ Lowest

-----------------------------------------------------------------------------
(* What the operations promise *)

\* In upper-triangular form, positive on the diagonal, with the entries to
\* the right of a pivot reduced by it.
IsHnf(h) ==
    \A i \in Axes : /\ h[i][i] > 0
                    /\ \A j \in Axes : (j < i => h[i][j] = 0) /\ (j > i => h[i][j] \in 0 .. h[i][i] - 1)

\* The lattice of a family as it stands: the columns, and the modulus times
\* the unit vectors where there is one.
WithModulus(a, modulus) ==
    LET n == Count(a)
    IN  IF modulus = 0 THEN a
        ELSE [j \in 0 .. n + 3 |-> IF j < n THEN a[j] ELSE Unit(j - n, modulus)]
Generated(h, cols) == \A j \in DOMAIN cols : contains(Lattice(h, 1), Element(cols[j], 1)) # NoVec

\* Each way computes the normal form of the lattice that the columns
\* generate: it holds them, and its covolume is theirs.  No pass changes the
\* lattice on the way, and the multipliers of a step stay within two moduli,
\* so that a product needs twice its bits and one.
HnfKept ==
    /\ Is("hnf") => IF Covolume(call.cols) = 0 THEN Covolume(columns(Res)) = 0
                    ELSE /\ IsHnf(Res) /\ Generated(Res, call.cols)
                         /\ Abs(det(Res)) = Covolume(call.cols)
    /\ Running("hnf") /\ call.via = "mod" =>
         /\ loop.peak <= 2 * call.modulus
         /\ from_hnf_columns(WithModulus(loop.a, call.modulus)) = from_hnf_columns(call.cols)

\* x, as a fraction, is y.
SameFraction(x, y) == x[1] * y[2] = y[1] * x[2]
Nrd(x) == <<NormOf(x.v), x.denom * x.denom>>
Both(x, y) == <<x[1] * y[2] + y[1] * x[2], x[2] * y[2]>>

\* O0, whose basis ScaledO0 takes.
OrderO0 == Lattice(from_rows(Vec(2, 0, 0, 1), Vec(0, 2, 1, 0), Vec(0, 0, 1, 0), Vec(0, 0, 0, 1)), 2)

\* Whatever the denominators: the norm is multiplicative and obeys the law of
\* the parallelogram, the product with the conjugate is the norm, and a
\* product is narrowed to itself or not at all.  An element is its primitive
\* part times the content in O0, and of the latter the power of two is
\* reported.  A matrix times its cofactors is its determinant.
AlgebraExact ==
    /\ Is("element") =>
         LET x == call.x
             y == call.y
             n == Nrd(Res.product)
         IN  /\ SameElement(sub(Res.sum, y), x) /\ SameElement(add(Res.difference, y), x)
             /\ SameFraction(Both(Nrd(Res.sum), Nrd(Res.difference)),
                             Both(Both(Nrd(x), Nrd(x)), Both(Nrd(y), Nrd(y))))
             /\ SameFraction(n, <<Nrd(x)[1] * Nrd(y)[1], Nrd(x)[2] * Nrd(y)[2]>>)
             /\ mul_direct(x, conjugate(x)) = Element(Unit(0, NormOf(x.v)), x.denom * x.denom)
             /\ SameElement(add(x, conjugate(x)), Element(Unit(0, Res.trace.numer), Res.trace.denom))
             /\ SameElement(Res.twice, scalar_mul(x, -2)) /\ Res.twice.denom > 0
             /\ Bezout[Content(Res.twice.v), Res.twice.denom].g = 1
             /\ IF narrow_element(normalize(Res.product)) = NoElement THEN Res.narrow = NoElement
                ELSE SameElement(Res.narrow, Res.product)
    /\ Is("primitive") =>
         LET back == Res.back.element
             t == ContentO0(call.x)
         IN  /\ contains(lattice_hnf(OrderO0), call.x) # NoVec /\ ~is_zero(call.x) =>
                   /\ SameElement(call.x, scalar_mul(back, t)) /\ ContentO0(back) = 1
                   /\ t % 2^Res.back.exponent = 0 /\ (t \div 2^Res.back.exponent) % 2 = 1
             /\ SameElement(call.x, scalar_mul(Res.odd.element, Res.odd.factor))
    /\ Is("matrix") =>
         /\ mat_mul(call.m, transpose(Res.cofactor)) = Scale(Res.det, Identity)
         /\ Res.adjugate = transpose(Res.cofactor) /\ Res.expanded = Res.det /\ Res.whole = call.m

Held(l, m) == \A j \in Axes : contains(l, basis_elem(m, j)) # NoVec

\* The covolume, as a fraction.
Volume(l) == LET r == reduce_denom(l) IN <<Abs(det(r.basis)), Fourth(r.denom)>>

SameProduct(u, v, x, y) == SameFraction(<<u[1] * v[1], u[2] * v[2]>>, <<x[1] * y[1], x[2] * y[2]>>)

\* A sum holds both operands and generates nothing else; the intersection is
\* in both, and of the covolume that goes with that of the sum, whichever of
\* the three ways gives one.  A product holds every product.  Membership is
\* decided alike by back-substitution and by the adjugate.
LatticesExact ==
    /\ Is("join") =>
         /\ Held(Res.sum, call.l) /\ Held(Res.sum, call.m)
         /\ SameFraction(Volume(Res.sum),
                         <<Covolume(Beside(ScaledColumns(call.m.denom, call.l.basis),
                                           ScaledColumns(call.l.denom, call.m.basis))),
                           Fourth(call.l.denom * call.m.denom)>>)
         /\ SameLattice(Res.modular, Res.sum) /\ SameLattice(Res.cref, Res.sum)
    /\ Is("meet") \/ Is("meet_dual") =>
         \A r \in {Res[way] : way \in DOMAIN Res} \ {NoLattice} :
             /\ Held(lattice_hnf(call.l), r) /\ Held(lattice_hnf(call.m), r)
             /\ SameProduct(Volume(r), Volume(sum(call.l, call.m)), Volume(call.l), Volume(call.m))
    /\ Is("product") =>
         /\ SameLattice(Res.full, Res.modular)
         /\ \A i, j \in Axes :
                contains(Res.full, mul_direct(basis_elem(call.l, i), basis_elem(call.m, j))) # NoVec
    /\ Is("by_element") =>
         /\ SameLattice(Res.full, Res.modular)
         /\ SameFraction(Volume(Res.full), <<Volume(call.l)[1] * NormOf(call.x.v) * NormOf(call.x.v),
                                             Volume(call.l)[2] * Fourth(call.x.denom)>>)
    /\ Is("member") =>
         /\ (Res.decompose = NoVec) = (Res.contains = NoVec)
         /\ Res.decompose # NoVec =>
              /\ SameElement(Element(eval(call.l.basis, Res.decompose), call.l.denom), call.x)
              /\ SameElement(Element(eval(Res.hnf.basis, Res.contains), call.l.denom), call.x)
    /\ Is("lowest") =>
         /\ Res.same /\ Bezout[EntriesContent(Res.lowest.basis), Abs(Res.lowest.denom)].g = 1
         /\ Res.canonical = Res.hnf /\ Held(Res.hnf, lattice_conjugate(Res.conjugate))

\* The algebra, its matrices and its lattices.
QuaternionsExact == AlgebraExact /\ LatticesExact
=============================================================================
