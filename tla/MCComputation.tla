--------------------------- MODULE MCComputation ---------------------------
(***************************************************************************)
(* A thread that calls the arithmetic, on small instances: integers, the   *)
(* prime field, the quaternion algebra with its lattices and ideals, and   *)
(* the curves with their isogenies, pairings and bases.                    *)
(*                                                                         *)
(* Integers have three limbs of three bits; operands have the limbs at     *)
(* which carries, borrows and estimates go wrong: none, one, the top bit,  *)
(* all ones.  The prime of the field is 2^17 - 1, in formats that have the *)
(* shape of those of the code: a packed one whose R is twice that of the   *)
(* portable one, one with a single bit above the limb, one with limbs that *)
(* Karatsuba splits in two unequal parts.  The algebra is ramified at 31,  *)
(* which is 7 modulo 8 as the prime of the code is and has three classes   *)
(* of ideals: small enough that the determinants of products and of Gram   *)
(* matrices stay below 2^31.  The curves are over p = 1279 = 5*2^8 - 1, of *)
(* the form of the code's prime, with 2^8-torsion on all of them.          *)
(***************************************************************************)
EXTENDS Numbers, Fields, LatticeCalls, SuitableIdeals, CurveCalls

Call ==
    \/ CallOne(NumberCalls) \/ CallOne(FieldCalls) \/ CallOne(LatticeOperations)
    \/ CallOne(IdealCalls) \/ CallOne(SuitableCalls) \/ CallOne(CurveCalls)

Next ==
    \/ Call
    \/ NumbersStep \/ FieldsStep \/ LatticesStep \/ IdealsStep \/ SuitableStep \/ CurvesStep
    \/ Take

Spec == ThreadInit /\ [][Next]_threadVars

-----------------------------------------------------------------------------
MCLimbValues == {0, 1, 4, 7}
MCMagnitudes == {a + 8 * b + 64 * c : a, b, c \in MCLimbValues}
MCModuli == {3, 7, 9, 15, 57, 63, 65, 257, 449, 511}
MCResidues == {0, 1, 2, 3, 5, 7, 8, 12, 31, 48, 56, 62, 63}
MCPrimes == {3, 5, 7, 11, 13, 17, 29, 37, 41, 43, 53, 61}
MCCandidates == 0 .. 63
MCTrialWords == {{3}, {5}}
MCWitnesses == <<2, 3, 5, 7>>

MCFormat51 == Format(4, 5, 9, 9)
MCFormat64 == Format(3, 7, 7, 7)
MCFormat26 == Format(3, 7, 10, 10)
MCFormat29 == Format(5, 4, 7, 7)
MCLanes == {0, 1}
MCElements == {0, 1, 77777, P - 1}
MCPowerBases == {0, 5, P - 1}
MCExponentModuli ==      \* primes, with a product above the exponents
    {268435399, 268435367, 268435361, 268435337, 268435331, 268435313, 268435291, 268435273,
     268435243, 268435183}

\* Columns: of full rank, permuted and with negative entries, dependent,
\* eight of them, eight of them with a content.
MCFamily1 == columns(from_rows(Vec(2, 1, 0, 3), Vec(0, 3, -1, 1), Vec(1, 0, 2, 0), Vec(-1, 2, 0, 1)))
MCFamily2 == columns(from_rows(Vec(0, 1, 0, 0), Vec(2, 0, 0, 0), Vec(0, 0, 0, 3), Vec(0, 0, -1, 0)))
MCFamily3 == columns(from_rows(Vec(1, 2, 3, 4), Vec(2, 4, 6, 8), Vec(0, 0, 1, 0), Vec(0, 1, 0, 1)))
MCFamily4 ==
    Beside(columns(Scale(6, Identity)),
           columns(from_rows(Vec(4, 0, 2, 0), Vec(0, 4, 0, 0), Vec(2, 0, -4, 2), Vec(0, 0, 0, 3))))
MCFamilies == {MCFamily1, MCFamily2, MCFamily3, MCFamily4, Beside(MCFamily1, MCFamily2)}
MCMultiples == {1, 2, 6}
MCMatrices == {from_columns(f) : f \in {MCFamily1, MCFamily2, MCFamily3}}
              \cup {Identity, Scale(-2, from_columns(MCFamily1))}
MCMembers ==
    {Element(Vec(0, 0, 0, 0), 1), Element(Vec(1, 0, 0, 0), 1), Element(Vec(1, 2, 1, -1), 2),
     Element(Vec(3, 0, 0, 1), 2), Element(Vec(2, -4, 2, 6), 1), Element(Vec(6, 3, 3, 0), 3),
     Element(Vec(0, 0, -6, 2), 1), Element(Vec(8, 8, 0, 8), 2)}
MCSamples ==
    {OrderO0, Lattice(Identity, 1), Lattice(from_columns(MCFamily2), 1), Lattice(Scale(3, Identity), 2),
     Lattice(from_rows(Vec(4, 0, 0, 1), Vec(0, 4, 3, 0), Vec(0, 0, 1, 0), Vec(0, 0, 0, 1)), 2)}

MCConnections ==
    {[norm |-> 2, x |-> 1, y |-> 3], [norm |-> 4, x |-> 1, y |-> 7], [norm |-> 5, x |-> 3, y |-> 7]}
MCGenerators ==
    {[x |-> Element(Vec(1, 1, 1, 0), 1), n |-> 3], [x |-> Element(Vec(3, 0, 0, 1), 2), n |-> 5],
     [x |-> Element(Vec(0, 2, 0, 1), 1), n |-> 7], [x |-> Element(Vec(1, 3, 1, 2), 1), n |-> 15]}
MCOrder5 ==    \* maximal, with (7 i + k) / 4 of norm 5
    ExtremalOrder(Lattice(from_rows(Vec(4, 0, 2, 0), Vec(0, 8, 0, 7), Vec(0, 0, 2, 0), Vec(0, 0, 0, 1)), 4),
                  Element(Vec(0, 7, 0, 1), 4), 5)
MCOrders == {StandardExtremal, MCOrder5}
MCRepresented == {57, 71, 77, 85, 97, 99, 185}
MCEdges(a, b) == IF b - a > 2 THEN {a, (a + b) \div 2, b} ELSE a .. b
MCAlternates == <<[norm |-> 2, x |-> 1, y |-> 3], [norm |-> 5, x |-> 3, y |-> 7]>>
MCLargest(op) == CASE op = "ideal" -> 5 [] op = "smallest" -> 3 [] op = "suitable" -> 7 [] OTHER -> 15

MCCurves == {
    [A |-> <<124, 243>>, P |-> <<<<861, 619>>, <<109, 921>>>>, Q |-> <<<<311, 949>>, <<1234, 564>>>>],
    [A |-> <<2, 1216>>, P |-> <<<<526, 1240>>, <<365, 659>>>>, Q |-> <<<<133, 261>>, <<1195, 153>>>>],
    [A |-> <<28, 0>>, P |-> <<<<1045, 599>>, <<352, 394>>>>, Q |-> <<<<350, 288>>, <<1196, 9>>>>],
    [A |-> <<0, 0>>, P |-> <<<<1001, 1200>>, <<1266, 1150>>>>, Q |-> <<<<389, 1011>>, <<574, 792>>>>],
    [A |-> <<60, 845>>, P |-> <<<<17, 844>>, <<521, 1250>>>>, Q |-> <<<<877, 1005>>, <<578, 289>>>>]}
MCCoefficients == {<<10, 16>>, <<203, 345>>, <<2, 589>>, <<0, 372>>, <<514, 319>>}
MCPresentations ==
    {[form |-> "coefficient", scale |-> <<1, 0>>], [form |-> "projective", scale |-> <<3, 7>>],
     [form |-> "doubling", scale |-> <<0, 5>>]}
MCPoints == {<<1, 0>>, <<0, 1>>, <<255, 0>>, <<128, 0>>, <<129, 6>>, <<3, 128>>, <<35, 17>>}
MCKernels == {<<1, 0>>, <<0, 1>>, <<1, 1>>, <<1, 2>>, <<4, 3>>}
MCBasisE0P == <<804, 480>>
MCBasisE0Q == <<792, 1189>>
MCLevels == {1, 2, 3, 5, 8}
MCScalarValues == {-300, -2, 0, 1, 5, 16, 77, 255, 12288, 45055}
MCEntries ==
    {<<0, 0>>, <<1, 0>>, <<5, 0>>, <<1278, 0>>, <<7, 0>>, <<0, 1>>, <<0, 9>>, <<3, 1276>>,
     <<17, 640>>, <<1001, 1200>>}
=============================================================================
