------------------------------- MODULE Ladder ------------------------------
(***************************************************************************)
(* Scalar multiplication by differential addition (src/curves/mod.rs and   *)
(* src/curves/montgomery/point.rs): the ladder, the three-point ladder and *)
(* the ladder of two scalars.  One step of the specification is one        *)
(* iteration of the code's loops.                                          *)
(*                                                                         *)
(* An x-only point is {p, -p}.  The addition formula is given two of them  *)
(* and the difference; what it returns from a wrong difference, or from    *)
(* one with a zero coordinate, is NoPoint.                                 *)
(***************************************************************************)
EXTENDS Torsion, Sequences

CONSTANTS Width,      \* bits of a Scalar
          Scalars,    \* the scalars tried
          Exponents   \* the torsion exponents tried

ASSUME LadderAssumption ==
    /\ F > 1 /\ Width \in Nat /\ Width > F
    /\ Scalars \subseteq 0 .. 2^Width - 1
    /\ Exponents \subseteq 1 .. F

VARIABLES lpc,    \* the loop being run
          job,    \* what was called, with its arguments
          step,   \* iterations done
          rec,    \* the two scalars being recoded
          reg,    \* the points in registers
          out     \* the point returned

ladderVars == <<lpc, job, step, rec, reg, out>>

-----------------------------------------------------------------------------
XOnly(p) == {p, Times(-1, p)}
NoPoint == {}

Double(x) == {DoubleN(1, p) : p \in x}

\* The basis the ladders are given: P, PmQ and Q, of order 2^e.
Base(e) ==
    LET b == FromPropagated(<<1, 0>>, <<0, 1>>, Sub(<<1, 0>>, <<0, 1>>))
    IN  MapBasis(LAMBDA p : DoubleN(F - e, p), b)

\* The identity is (1 : 0), and (0 : 1) lies below PmQ, but below Q on E_0:
\* neither is a difference that the formula can take.
ZeroCoordinate == {XOnly(O), XOnly(DoubleN(F - 1, Base(F).PmQ)), XOnly(DoubleN(F - 1, Base(F).Q))}

DifferentialAdd(x, y, difference) ==
    LET sums == {XOnly(Combine(1, p, 1, w)) : p \in x, w \in y}
    IN  IF difference \notin sums \/ difference \in ZeroCoordinate THEN NoPoint
        ELSE IF sums = {difference} THEN difference
        ELSE CHOOSE s \in sums \ {difference} : TRUE

\* xDBLADD.
DoubleAdd(x, y, difference) == <<Double(x), DifferentialAdd(x, y, difference)>>

Bit(n, i) == (n \div 2^i) % 2

\* One of two, as conditional_select: y if the bit is set.
Select(bit, x, y) == IF bit = 1 THEN y ELSE x

Swapped(bit, pair) == IF bit = 1 THEN <<pair[2], pair[1]>> ELSE pair

-----------------------------------------------------------------------------
(* The arguments: one scalar of full width, or two reduced modulo 2^e.     *)

Jobs ==
    [op : {"scalar", "ladder"}, e : {F}, m : Scalars, n : {1}] \cup
    UNION {[op : {"biscalar"}, e : {e}, m : {s % 2^e : s \in Scalars},
            n : {s % 2^e : s \in Scalars}] : e \in Exponents}

NoRecoding == [scalar |-> <<0, 0>>, sigma |-> <<0, 0>>, pre |-> 0, digits |-> << >>]
NoRegisters == << >>

LadderInit ==
    /\ job \in Jobs
    /\ lpc = job.op
    /\ step = 0 /\ rec = NoRecoding /\ out = NoPoint
    /\ LET b == Base(job.e)
       IN  reg = IF job.op = "scalar" THEN <<XOnly(O), XOnly(b.P)>>
                 ELSE IF job.op = "ladder" THEN <<XOnly(b.PmQ), XOnly(b.P), XOnly(b.Q)>>
                 ELSE NoRegisters

Return(x) == lpc' = "returned" /\ out' = x

\* Bit i of the scalar, the most significant first, and 0 before it.
ScalarBit(i) == IF i < 0 THEN 0 ELSE Bit(job.m, Width - 1 - i)

\* scalar_mul: the swap of this bit against the last one, then xDBLADD.
ScalarStep ==
    LET x == Swapped((ScalarBit(step) + ScalarBit(step - 1)) % 2, reg)
    IN  /\ lpc = "scalar" /\ step < Width
        /\ reg' = DoubleAdd(x[1], x[2], XOnly(Base(job.e).P))
        /\ step' = step + 1
        /\ UNCHANGED <<lpc, job, rec, out>>

ScalarReturns ==
    /\ lpc = "scalar" /\ step = Width
    /\ Return(Swapped(ScalarBit(Width - 1), reg)[1])
    /\ UNCHANGED <<job, step, rec, reg>>

\* The second and third register once they are swapped back.
AfterBit(bit, added, kept) == IF bit = 1 THEN <<added, kept>> ELSE <<kept, added>>

\* scalar_mul_add: the least significant bit first.
LadderStep ==
    LET bit == Bit(job.m, step)
        x   == Swapped(1 - bit, <<reg[2], reg[3]>>)
        dbl == DoubleAdd(reg[1], x[1], x[2])
    IN  /\ lpc = "ladder" /\ step < Width
        /\ reg' = <<dbl[1]>> \o AfterBit(bit, dbl[2], x[2])
        /\ step' = step + 1
        /\ UNCHANGED <<lpc, job, rec, out>>

LadderReturns ==
    /\ lpc = "ladder" /\ step = Width
    /\ Return(reg[2])
    /\ UNCHANGED <<job, step, rec, reg>>

-----------------------------------------------------------------------------
(* biscalar_mul                                                            *)

\* Order 2: every difference would be 2-torsion, so the answer is looked up.
LookupPoint(b) ==
    Select(Bit(job.n, 0), Select(Bit(job.m, 0), XOnly(O), XOnly(b.P)),
                          Select(Bit(job.m, 0), XOnly(b.PmQ), XOnly(b.Q)))

\* Variant: the special case is left out.
MutNeedsLookup(e) == FALSE
NeedsLookup(e) == e = 1

Lookup ==
    /\ lpc = "biscalar" /\ NeedsLookup(job.e)
    /\ Return(LookupPoint(Base(job.e)))
    /\ UNCHANGED <<job, step, rec, reg>>

Parities == <<Bit(job.m, 0), Bit(job.n, 0)>>

OneIsEven == (Parities[1] + Parities[2]) % 2

\* An even scalar is made odd; from zero the 256 bits all become ones.
SubOne(s) == IF s % 2 = 0 THEN (s - 1) % 2^Width ELSE s

BeginRecoding ==
    /\ lpc = "biscalar" /\ ~NeedsLookup(job.e)
    /\ lpc' = "recode"
    /\ rec' = [scalar |-> <<SubOne(job.m), SubOne(job.n)>>,
               sigma  |-> IF OneIsEven = 1 THEN <<1 - Parities[1], 1 - Parities[2]>>
                          ELSE <<0, 1>>,
               pre    |-> 0,
               digits |-> << >>]
    /\ UNCHANGED <<job, step, reg, out>>

\* One pair of digits: adjacent bits of the two scalars, compared; the top
\* bit is compared with zero.
Recode ==
    LET s    == Swapped((rec.sigma[1] + rec.pre) % 2, rec.scalar)
        last == step = job.e - 1
        rest == IF last THEN s ELSE <<s[1] \div 2, s[2] \div 2>>
        low(j) == IF last THEN 0 ELSE s[j] % 2
        digit(j) == (rest[j] + low(j)) % 2
    IN  /\ lpc = "recode" /\ step < job.e
        /\ rec' = [scalar |-> rest,
                   sigma  |-> Swapped(digit(2), rec.sigma),
                   pre    |-> rec.sigma[1],
                   digits |-> Append(rec.digits, <<digit(1), digit(2)>>)]
        /\ step' = step + 1
        /\ UNCHANGED <<lpc, job, reg, out>>

\* Registers R0, R1, R2, and the differences D1, D2, F1, F2.
BeginEvaluation ==
    LET b   == Base(job.e)
        odd == Swapped(rec.sigma[1], <<XOnly(b.P), XOnly(b.PmQ)>>)
        sum == DifferentialAdd(odd[1], odd[2], XOnly(b.Q))
    IN  /\ lpc = "recode" /\ step = job.e
        /\ lpc' = "evaluate"
        /\ reg' = <<XOnly(O), odd[1], sum, odd[1], odd[2], sum, XOnly(b.Q)>>
        /\ UNCHANGED <<job, step, rec, out>>

\* The differences after an iteration: D1 and D2 exchanged before their
\* use, F1 and F2 after.
NextDifferences(digit, h) ==
    Swapped(digit[2], <<reg[4], reg[5]>>) \o Swapped(h % 2, <<reg[6], reg[7]>>)

\* An iteration of the main loop, the most significant digits first.
Evaluate ==
    LET digit == rec.digits[step]
        h     == digit[1] + digit[2]
        diffs == NextDifferences(digit, h)
        t0    == Double(reg[h + 1])
        t1    == DifferentialAdd(Select(digit[2], reg[1], reg[2]),
                                 Select(digit[2], reg[2], reg[3]), diffs[1])
        t2    == DifferentialAdd(reg[1], reg[3], reg[6])
    IN  /\ lpc = "evaluate" /\ step > 0
        /\ reg' = <<t0, t1, t2>> \o diffs
        /\ step' = step - 1
        /\ UNCHANGED <<lpc, job, rec, out>>

\* Variant: two even scalars are given the register of mixed ones.
MutOutput == Select(Parities[1] * Parities[2], reg[2], reg[3])

\* R0 for two even scalars, R2 for two odd ones, R1 otherwise.
Output == Select(Parities[1] * Parities[2], Select(OneIsEven, reg[1], reg[2]), reg[3])

EvaluateReturns ==
    /\ lpc = "evaluate" /\ step = 0
    /\ Return(Output)
    /\ UNCHANGED <<job, step, rec, reg>>

LadderNext ==
    \/ ScalarStep \/ ScalarReturns
    \/ LadderStep \/ LadderReturns
    \/ Lookup \/ BeginRecoding \/ Recode \/ BeginEvaluation \/ Evaluate \/ EvaluateReturns
=============================================================================
