------------------------------- MODULE Fields ------------------------------
(***************************************************************************)
(* One element carried by every backend of the prime field at once.  The   *)
(* same operations are applied in all of them, so that each sees what an    *)
(* earlier one leaves unreduced; the vectors hold the element and its       *)
(* operand, which see the operations the other way round.                  *)
(***************************************************************************)
EXTENDS FpVector, Thread

CONSTANTS Elements,      \* the residues that runs start from
          Depth,         \* how many operations a run applies
          PowerBases,    \* the residues that powers are taken of
          ExponentModuli \* moduli at which the exponents are kept

ASSUME FieldsAssumption ==
    /\ Elements \cup PowerBases \subseteq 0 .. P - 1 /\ Depth \in Nat
    /\ Lanes = {0, 1}

FieldOps == {"add", "sub", "mul", "square", "neg", "sum", "difference", "bytes"}

\* An operation on a and an operand b, on residues and in every backend.
Apply(op, a, b) ==
    CASE op = "add"        -> (a + b) % P
      [] op = "sub"        -> (a - b) % P
      [] op = "mul"        -> MulP(a, b)
      [] op = "square"     -> MulP(a, a)
      [] op = "neg"        -> (- a) % P
      [] op = "sum"        -> (MulP(a, b) + MulP(b, b)) % P
      [] op = "difference" -> (MulP(a, b) - MulP(b, b)) % P
      [] op = "bytes"      -> a

Apply51(op, a, b) ==
    CASE op = "add"        -> Add51(a, b)
      [] op = "sub"        -> Sub51(a, b)
      [] op = "mul"        -> Mul51(a, b)
      [] op = "square"     -> Square51(a)
      [] op = "neg"        -> Neg51(a)
      [] op = "sum"        -> SumOfProducts51(a, b, b, b)
      [] op = "difference" -> DifferenceOfProducts51(a, b, b, b)
      [] op = "bytes"      -> FromBytes51(ToBytes51(a))

Apply64(op, a, b) ==
    CASE op = "add"        -> Add64(a, b)
      [] op = "sub"        -> Sub64(a, b)
      [] op = "mul"        -> Mul64(a, b)
      [] op = "square"     -> Square64(a)
      [] op = "neg"        -> Neg64(a)
      [] op = "sum"        -> SumOfProducts64(a, b, b, b)
      [] op = "difference" -> DifferenceOfProducts64(a, b, b, b)
      [] op = "bytes"      -> FromBytes64(ToBytes64(a))

Apply26(op, a, b) ==
    CASE op = "add"        -> Add26(a, b)
      [] op = "sub"        -> Sub26(a, b)
      [] op = "mul"        -> Mul26(a, b)
      [] op = "square"     -> Square26(a)
      [] op = "neg"        -> Neg26(a)
      [] op = "sum"        -> SumOfProducts26(a, b, b, b)
      [] op = "difference" -> DifferenceOfProducts26(a, b, b, b)
      [] op = "bytes"      -> FromBytes26(ToBytes26(a))

Apply29(op, a, b) ==
    CASE op = "add"        -> Add29(a, b)
      [] op = "sub"        -> Sub29(a, b)
      [] op = "mul"        -> Mul29(a, b)
      [] op = "square"     -> Square29(a)
      [] op = "neg"        -> Neg29(a)
      [] op = "sum"        -> SumOfProducts29(a, b, b, b)
      [] op = "difference" -> DifferenceOfProducts29(a, b, b, b)
      [] op = "bytes"      -> FromFp29(IntoFp51(a))

\* Vectors have no fused products; a caller adds two.  Unpacking takes them
\* below p.
ApplyLanes26(op, v, w) ==
    CASE op = "add"        -> LaneAdd26(v, w)
      [] op = "sub"        -> LaneSub26(v, w)
      [] op = "mul"        -> LaneMul26(v, w)
      [] op = "square"     -> LaneSquare26(v)
      [] op = "neg"        -> LaneSub26(FromScalars26([lane \in Lanes |-> Digits(Format26, 0)]), v)
      [] op = "sum"        -> LaneAdd26(LaneMul26(v, w), LaneSquare26(w))
      [] op = "difference" -> LaneSub26(LaneMul26(v, w), LaneSquare26(w))
      [] op = "bytes"      -> FromScalars26(ToScalars26(LaneFinalSub26(v)))

ApplyLanes29(op, v, w) ==
    CASE op = "add"        -> LaneAdd29(v, w)
      [] op = "sub"        -> LaneSub29(v, w)
      [] op = "mul"        -> LaneMul29(v, w)
      [] op = "square"     -> LaneSquare29(v)
      [] op = "neg"        -> LaneSub29(FromScalars29([lane \in Lanes |-> Digits(Format29, 0)]), v)
      [] op = "sum"        -> LaneAdd29(LaneMul29(v, w), LaneSquare29(w))
      [] op = "difference" -> LaneSub29(LaneMul29(v, w), LaneSquare29(w))
      [] op = "bytes"      -> FromScalars29(ToScalars29(LaneFinalSub29(v)))

-----------------------------------------------------------------------------
\* The limbs of a constant: the Montgomery residue of the portable backend,
\* which constants leave too large: by p or, as FOUR is, by 2p; by up to 6p,
\* the code says.
Excess == [limbs |-> 0, lazy |-> 1, named |-> 2, widest |-> 6]
ConstantLimbs(x, from) == Digits(Format51, MulP(x, R(Format51)) + Excess[from] * P)

Entered(x, from) ==
    LET limbs == ConstantLimbs(x, from)
    IN  CASE from \in DOMAIN Excess ->
                 [f51 |-> FromLimbs51(limbs), f64 |-> FromLimbs64(limbs),
                  f26 |-> FromLimbs26(limbs), f29 |-> FromLimbs29(limbs)]
          [] from = "bytes" ->
                 [f51 |-> FromBytes51(x), f64 |-> FromBytes64(x),
                  f26 |-> FromBytes26(x), f29 |-> FromBytes29(x)]
          [] from = "small" ->
                 [f51 |-> FromSmall51(x), f64 |-> FromSmall64(x),
                  f26 |-> FromSmall26(x), f29 |-> FromSmall29(x)]

\* The portable backend takes constants as they are: an operation that needs
\* less than a and b are is not asked of it, and it is not followed from there.
NotFollowed == << >>
Permits51(op, a, b) ==
    /\ a # NotFollowed
    /\ CASE op \in {"add", "sub"} -> Within2P51(a) /\ Within2P51(b)
         [] op = "neg"           -> Within2P51(a)
         [] op = "mul"           -> WithinRP51(Multiples51(a) * Multiples51(b))
         [] op = "square"        -> WithinRP51(Multiples51(a) * Multiples51(a))
         [] op = "sum"           -> WithinRP51((Multiples51(a) + Multiples51(b)) * Multiples51(b))
         [] op = "difference"    -> Within2P51(b) /\ WithinRP51(Multiples51(a) * Multiples51(b) + 4)
         [] op = "bytes"         -> WithinRP51(Multiples51(a))

Pair(a, b) == [lane \in Lanes |-> IF lane = 0 THEN a ELSE b]

StartedWith(x, y) ==
    [left |-> Depth, is |-> Pair(call.x, call.y), x |-> x, y |-> y,
     v26 |-> FromScalars26(Pair(x.f26, y.f26)), w26 |-> FromScalars26(Pair(y.f26, x.f26)),
     v29 |-> FromScalars29(Pair(x.f29, y.f29)), w29 |-> FromScalars29(Pair(y.f29, x.f29))]

FieldStart ==
    /\ Pending("field")
    /\ GoOn(StartedWith(Entered(call.x, call.from), Entered(call.y, call.from)))

FieldStep ==
    /\ Running("field") /\ loop.left > 0
    /\ \E op \in FieldOps :
         GoOn([loop EXCEPT
             !.left = @ - 1,
             !.is = Pair(Apply(op, @[0], call.y), Apply(op, @[1], call.x)),
             !.x = [f51 |-> IF Permits51(op, @.f51, loop.y.f51)
                            THEN Apply51(op, @.f51, loop.y.f51) ELSE NotFollowed,
                    f64 |-> Apply64(op, @.f64, loop.y.f64),
                    f26 |-> Apply26(op, @.f26, loop.y.f26),
                    f29 |-> Apply29(op, @.f29, loop.y.f29)],
             !.v26 = ApplyLanes26(op, @, loop.w26),
             !.v29 = ApplyLanes29(op, @, loop.w29)])

FieldEnd ==
    /\ Running("field") /\ loop.left = 0
    /\ LET portable == {x \in {loop.x.f51} : x # NotFollowed}
       IN  Return([is |-> loop.is[0],
                   bytes |-> {ToBytes64(loop.x.f64), ToBytes26(loop.x.f26), ToBytes29(loop.x.f29)}
                             \cup {ToBytes51(x) : x \in portable},
                   equal |-> {Equal64(loop.x.f64, loop.y.f64), Equal26(loop.x.f26, loop.y.f26),
                              Equal29(loop.x.f29, loop.y.f29)}
                             \cup {Equal51(x, loop.y.f51) : x \in portable}])

\* The chain of powers, a product at a time in every backend, and on residues
\* and on the exponents themselves.
AddModulo(m, a, b) == (a + b) % m

ChainFrom(x) ==
    [link |-> 1, done |-> 0, is |-> Registers(call.x), e |-> [m \in ExponentModuli |-> Registers(1)],
     f51 |-> Registers(x.f51), f64 |-> Registers(x.f64), f26 |-> Registers(x.f26), f29 |-> Registers(x.f29)]

PowerStart == Pending("power") /\ GoOn(ChainFrom(Entered(call.x, "limbs")))

PowerSquare ==
    LET link == PowerChain[loop.link]
        done == loop.done
        Square(a) == MulP(a, a)
        Twice(m, reg) == LET T(a) == AddModulo(m, a, a) IN Pow2k(reg, link, done, T)
    IN  /\ Running("power") /\ loop.link <= Len(PowerChain)
        /\ done < link.k
        /\ GoOn([link |-> loop.link, done |-> done + 1, is |-> Pow2k(loop.is, link, done, Square),
                 e |-> [m \in ExponentModuli |-> Twice(m, loop.e[m])],
                 f51 |-> Pow2k51(loop.f51, link, done), f64 |-> Pow2k64(loop.f64, link, done),
                 f26 |-> Pow2k26(loop.f26, link, done), f29 |-> Pow2k29(loop.f29, link, done)])

PowerMultiply ==
    LET link == PowerChain[loop.link]
        Sum(m, reg) == LET S(a, b) == AddModulo(m, a, b) IN Multiplied(reg, link, S)
    IN  /\ Running("power") /\ loop.link <= Len(PowerChain)
        /\ loop.done = link.k
        /\ GoOn([link |-> loop.link + 1, done |-> 0, is |-> Multiplied(loop.is, link, MulP),
                 e |-> [m \in ExponentModuli |-> Sum(m, loop.e[m])],
                 f51 |-> PowP3Div4At51(loop.f51, link), f64 |-> PowP3Div4At64(loop.f64, link),
                 f26 |-> PowP3Div4At26(loop.f26, link), f29 |-> PowP3Div4At29(loop.f29, link)])

Exponents(m) ==
    LET Sum(a, b) == AddModulo(m, a, b)
        Twice(a) == AddModulo(m, a, a)
        e == loop.e[m].z
    IN  [power |-> e, inverse |-> InverseBy(1, e, Sum, Twice), root |-> RootBy(1, e, Sum),
         symbol |-> SymbolBy(1, e, Sum, Twice)]

PowerEnd ==
    LET Square(a) == MulP(a, a)
    IN  /\ Running("power") /\ loop.link > Len(PowerChain)
        /\ Return([is |-> [inverse |-> InverseBy(call.x, loop.is.z, MulP, Square),
                           root |-> RootBy(call.x, loop.is.z, MulP)],
                   inverses |-> {ToBytes51(Invert51(loop.f51.x, loop.f51.z)),
                                 ToBytes64(Invert64(loop.f64.x, loop.f64.z)),
                                 ToBytes26(Invert26(loop.f26.x, loop.f26.z)),
                                 ToBytes29(Invert29(loop.f29.x, loop.f29.z))},
                   roots |-> {ToBytes51(Sqrt51(loop.f51.x, loop.f51.z)),
                              ToBytes64(Sqrt64(loop.f64.x, loop.f64.z)),
                              ToBytes26(Sqrt26(loop.f26.x, loop.f26.z)),
                              ToBytes29(Sqrt29(loop.f29.x, loop.f29.z))},
                   symbol |-> SymbolBy(call.x, loop.is.z, MulP, Square),
                   squares |-> {IsSquare51(loop.f51.x, loop.f51.z), IsSquare64(loop.f64.x, loop.f64.z),
                                IsSquare26(loop.f26.x, loop.f26.z), IsSquare29(loop.f29.x, loop.f29.z)},
                   e |-> [m \in ExponentModuli |-> Exponents(m)]])

FieldCalls ==
    [op : {"field"}, x : Elements, y : Elements, from : DOMAIN Excess \cup {"bytes"}]
    \cup {c \in [op : {"field"}, x : Elements, y : Elements, from : {"small"}] :
             c.x < 2^Format51.radix /\ c.y < 2^Format51.radix}
    \cup [op : {"power"}, x : PowerBases]

FieldsStep ==
    \/ FieldStart \/ FieldStep \/ FieldEnd
    \/ PowerStart \/ PowerSquare \/ PowerMultiply \/ PowerEnd

-----------------------------------------------------------------------------
PowerOf2(e, m) == LET after[i \in 0 .. e] == IF i = 0 THEN 1 % m ELSE (2 * after[i - 1]) % m
                  IN  after[e]

\* Whatever operations came before, with whatever they left unreduced, and
\* from constants as large as the code says, every backend and every lane
\* stands for the same element, below 2p.  The portable one does but for the
\* constants themselves, and as long as none of 2p or more is added,
\* subtracted or multiplied beyond R p.  Encoding and comparison see the
\* element and not its representative; and the chain of powers has the
\* exponents (p - 3) / 4, p - 2, (p + 1) / 4 and (p - 1) / 2 of the p of the
\* code.
BackendsAgree ==
    /\ Running("field") =>
         /\ \/ loop.x.f51 = NotFollowed
            \/ StandsFor(Format51, loop.x.f51, loop.is[0])
            \/ loop.left = Depth /\ ResidueOf(Format51, loop.x.f51) = MulP(call.x, R(Format51))
         /\ StandsFor(Format64, loop.x.f64, loop.is[0])
         /\ StandsFor(Format26, loop.x.f26, loop.is[0])
         /\ StandsFor(Format29, loop.x.f29, loop.is[0])
         /\ \A lane \in Lanes : /\ StandsFor(Format26, loop.v26[lane], loop.is[lane])
                                /\ StandsFor(Format29, loop.v29[lane], loop.is[lane])
    /\ Is("field") => Res.bytes = {Res.is} /\ Res.equal = {Res.is = call.y}
    /\ Running("power") =>
         \A r \in DOMAIN loop.is : /\ StandsFor(Format51, loop.f51[r], loop.is[r])
                                  /\ StandsFor(Format64, loop.f64[r], loop.is[r])
                                  /\ StandsFor(Format26, loop.f26[r], loop.is[r])
                                  /\ StandsFor(Format29, loop.f29[r], loop.is[r])
    /\ Is("power") =>
         /\ Res.inverses = {Res.is.inverse} /\ Res.roots = {Res.is.root}
         /\ Res.squares = {call.x = 0 \/ Res.symbol = 1}
         /\ \A m \in ExponentModuli :
              LET quarter == (5 * PowerOf2(246, m)) % m
                  p == (5 * PowerOf2(248, m) - 1) % m
              IN  Res.e[m] = [power |-> (quarter - 1) % m, inverse |-> (p - 2) % m,
                              root |-> quarter % m, symbol |-> (2 * quarter - 1) % m]

=============================================================================
