---------------------------- MODULE IsogenyChain ---------------------------
(***************************************************************************)
(* Kernel::isogeny and Kernel::isogeny_small (src/curves/isogeny/mod.rs):  *)
(* the 2^e-isogeny with a given kernel, as a chain of 4- or 2-isogenies.   *)
(*                                                                         *)
(* The curve the chain has reached is the first one divided by a subgroup, *)
(* and is modelled by that subgroup, quotient.  A point keeps the          *)
(* coordinates it had on the first curve: pushing it through an isogeny is *)
(* dividing by more.                                                       *)
(***************************************************************************)
EXTENDS Torsion, Sequences

VARIABLES cpc,        \* the loop being run
          length,     \* e
          quotient,   \* the points that have become the identity
          stratPts,   \* points of the strategy, the deepest one last
          orders,     \* the exponents the code keeps of their orders
          j           \* isogenies computed

chainVars == <<cpc, length, quotient, stratPts, orders, j>>

-----------------------------------------------------------------------------
Span(p, n) == {Times(i, p) : i \in 0 .. 2^n - 1}

\* The exponent of p's order on the curve reached.
OrderOf(p) ==
    CHOOSE n \in 0 .. F : DoubleN(n, p) \in quotient
                          /\ (n > 0 => DoubleN(n - 1, p) \notin quotient)

\* The curve divided by the subgroup of 2^n multiples of p.
Divided(p, n) == {Combine(1, x, 1, y) : x \in quotient, y \in Span(p, n)}

ChainIdle ==
    /\ cpc = "idle" /\ length = 0 /\ quotient = {O}
    /\ stratPts = << >> /\ orders = << >> /\ j = 0

\* Called with a generator and e.
Start(small, generator, e) ==
    /\ cpc' = IF small THEN "small" ELSE "chain"
    /\ length' = e
    /\ stratPts' = <<generator>>
    /\ orders' = <<e>>
    /\ UNCHANGED <<quotient, j>>

\* One more than the code's k: after the truncation k is lowered, so that it
\* is always the index of the last point.
k == Len(stratPts)

\* The doublings between a point of the strategy and the next one down.
Doublings(order) == (order \div 4) * 2 + (order % 2)

\* One round of the inner loop: one more point, nearer to order 4.
Descend ==
    LET n == Doublings(orders[k])
    IN  /\ cpc = "chain" /\ j < length \div 2
        /\ orders[k] # 2
        /\ stratPts' = Append(stratPts, DoubleN(n, stratPts[k]))
        /\ orders' = Append(orders, orders[k] - n)
        /\ UNCHANGED <<cpc, length, quotient, j>>

\* Variant: the orders of the points pushed are left as they were.
MutKept(seq, size, less) == SubSeq(seq, 1, size)

\* The first points' orders, with less off each.
Kept(seq, size, less) == [i \in 1 .. size |-> seq[i] - less]

\* The 4-isogeny with the deepest point as kernel, and every other point
\* pushed through it.  The last point of all is used up.
FourIsogeny ==
    /\ cpc = "chain" /\ j < length \div 2
    /\ orders[k] = 2
    /\ quotient' = Divided(stratPts[k], 2)
    /\ orders' = Kept(orders, k - 1, 2)
    /\ stratPts' = SubSeq(stratPts, 1, k - 1)
    /\ j' = j + 1
    /\ UNCHANGED <<cpc, length>>

\* Variant: the last step of an odd chain is forgotten.
MutLastStep == quotient

\* The curve after the 2-isogeny that ends a chain of odd length.
LastStep == IF length % 2 = 1 /\ stratPts # << >> THEN Divided(stratPts[1], 1) ELSE quotient

ChainReturns ==
    /\ cpc = "chain" /\ j = length \div 2
    /\ quotient' = LastStep
    /\ cpc' = "returned"
    /\ UNCHANGED <<length, stratPts, orders, j>>

-----------------------------------------------------------------------------
(* isogeny_small                                                           *)

\* Variant: one doubling too many.
MutSmallKernel == DoubleN(length - j, stratPts[1])

\* P doubled down to what should be order 2.
SmallKernel == DoubleN(length - j - 1, stratPts[1])

\* The generator's order is looked at once, and only for being too large.
WrongOrder(kernel) == j = 0 /\ DoubleN(1, kernel) \notin quotient

\* One 2-isogeny, the singular one for the kernel above zero; the formulas
\* mean nothing for the identity, and the curve they give is lost.
SmallStep ==
    LET kernel == SmallKernel
    IN  /\ cpc = "small" /\ j < length
        /\ IF WrongOrder(kernel)
           THEN cpc' = "refused" /\ UNCHANGED <<quotient, j>>
           ELSE IF kernel \in quotient
                THEN cpc' = "lost" /\ UNCHANGED <<quotient, j>>
                ELSE quotient' = Divided(kernel, 1) /\ j' = j + 1 /\ UNCHANGED cpc
        /\ UNCHANGED <<length, stratPts, orders>>

SmallReturns ==
    /\ cpc = "small" /\ j = length
    /\ cpc' = "returned"
    /\ UNCHANGED <<length, quotient, stratPts, orders, j>>

ChainNext == Descend \/ FourIsogeny \/ ChainReturns \/ SmallStep \/ SmallReturns
=============================================================================
