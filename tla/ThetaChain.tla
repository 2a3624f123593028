----------------------------- MODULE ThetaChain ----------------------------
(***************************************************************************)
(* The chain of (2,2)-isogenies between abelian surfaces                   *)
(* (src/surfaces/mod.rs): isogeny_inner, whose kernel has two bits more    *)
(* than the chain has steps, and isogeny_inner_no_extra_torsion, whose     *)
(* kernel has none to spare.  A pair of points is the exponent of its      *)
(* order, kept beside the number the code reckons it to be.  The code's k   *)
(* is the index of the last pair, which the truncations keep it at.         *)
(***************************************************************************)
EXTENDS Integers, Sequences

CONSTANT ChainLengths     \* the lengths a caller may ask for

ASSUME ThetaAssumption == ChainLengths \subseteq Nat

VARIABLES tpc,            \* the phase
          mode,           \* "padded" or "exact"
          chainLength,    \* e
          strategy,       \* orders of the pairs, as the code keeps them
          torsion,        \* and as they are
          remaining,      \* steps_remaining
          last,           \* order of last_kernel, or NoKernel
          forms           \* the isogenies computed, in order

thetaVars == <<tpc, mode, chainLength, strategy, torsion, remaining, last, forms>>

NoKernel == 0

-----------------------------------------------------------------------------
ThetaIdle ==
    /\ tpc = "idle" /\ mode = "padded" /\ chainLength = 0
    /\ strategy = << >> /\ torsion = << >> /\ remaining = 0
    /\ last = NoKernel /\ forms = << >>

\* Variant: both chains refuse no more than an empty one.
MutShortest(m) == 1

\* The gluing and a step; with no torsion to spare, the tail's two as well.
Shortest(m) == IF m = "padded" THEN 2 ELSE 4

\* Variant: the exact chain reckons with torsion it does not have.
MutFirstOrder(m, e) == e

\* What the code takes the kernel's order for: the exact chain keeps two
\* bits back for the isogenies of its tail.
FirstOrder(m, e) == IF m = "padded" THEN e ELSE e - 2

KernelOrder(m, e) == IF m = "padded" THEN e + 2 ELSE e

\* A chain too short to be laid out is refused before anything is set up.
Called(m, e) ==
    /\ mode = m /\ chainLength = e
    /\ last = NoKernel /\ forms = << >>
    /\ IF e < Shortest(m)
       THEN tpc = "none" /\ strategy = << >> /\ torsion = << >> /\ remaining = 0
       ELSE /\ tpc = "glue"
            /\ strategy = <<FirstOrder(m, e)>>
            /\ torsion = <<KernelOrder(m, e)>>
            /\ remaining = e - 1

ThetaInit == \E m \in {"padded", "exact"}, e \in ChainLengths : Called(m, e)

-----------------------------------------------------------------------------
depth == Len(strategy)
bottom == strategy[depth]

\* The pair at the bottom, doubled n times, becomes the new bottom.
PushDown(n) ==
    /\ bottom # 1
    /\ strategy' = Append(strategy, bottom - n)
    /\ torsion' = Append(torsion, torsion[depth] - n)
    /\ UNCHANGED <<tpc, mode, chainLength, remaining, last, forms>>

\* Before the gluing a short chain goes down to the bottom at once.
GluingDoublings(order) == IF order >= 16 THEN order \div 2 ELSE order - 1

DescendToGluing == tpc = "glue" /\ PushDown(GluingDoublings(bottom))

\* An isogeny takes one bit off every pair above the one it was made from.
Pushed(seq) == [i \in 1 .. Len(seq) - 1 |-> seq[i] - 1]

\* Above the bottom pair every one has been pushed and the bottom is gone.
PushStrategy ==
    /\ strategy' = Pushed(strategy)
    /\ torsion' = [i \in 1 .. depth - 1 |-> torsion[i] - 1]

Glue ==
    /\ tpc = "glue" /\ bottom = 1
    /\ PushStrategy
    /\ forms' = <<"gluing">>
    /\ tpc' = "steps"
    /\ UNCHANGED <<mode, chainLength, remaining, last>>

DescendToStep ==
    /\ tpc = "steps" /\ strategy # << >>
    /\ PushDown(bottom \div 2)

\* Variant: the last two forms are off by one step.
MutForm == IF mode = "exact" \/ remaining > 3 THEN "interior"
           ELSE IF remaining = 2 THEN "ultimate" ELSE "penultimate"

\* The form of the next step: the last two leave out a Hadamard transform.
Form ==
    IF mode = "exact" \/ remaining \notin 1 .. 2 THEN "interior"
    ELSE IF remaining = 1 THEN "ultimate" ELSE "penultimate"

\* A step whose kernel is the bottom pair.  The exact chain keeps the pair
\* of its last step, to push it through that step once the loop has ended.
Step ==
    /\ tpc = "steps" /\ strategy # << >> /\ bottom = 1
    /\ PushStrategy
    /\ forms' = Append(forms, Form)
    /\ remaining' = IF mode = "padded" THEN remaining - 1 ELSE remaining
    /\ last' = IF mode = "exact" /\ depth = 1 THEN torsion[1] ELSE last
    /\ UNCHANGED <<tpc, mode, chainLength>>

\* Variant: the loop ends on the count that only the padded chain keeps.
MutStepsEnd ==
    /\ tpc = "steps" /\ strategy = << >> /\ remaining = 0
    /\ tpc' = IF mode = "padded" THEN "split" ELSE "tail"
    /\ UNCHANGED <<mode, chainLength, strategy, torsion, remaining, last, forms>>

StepsEnd ==
    /\ tpc = "steps" /\ strategy = << >>
    /\ tpc' = IF mode = "padded" THEN "split" ELSE IF last = NoKernel THEN "none" ELSE "tail"
    /\ UNCHANGED <<mode, chainLength, strategy, torsion, remaining, last, forms>>

\* Variant: the pair is not pushed through its own step.
MutTailKernel == last
TailKernel == last - 1

\* The exact chain ends with a 4-isogeny, from the pair kept, and with a
\* 2-isogeny, from the null point alone.
LastTwo ==
    /\ tpc = "tail"
    /\ last' = TailKernel
    /\ forms' = forms \o <<"four", "two">>
    /\ tpc' = "split"
    /\ UNCHANGED <<mode, chainLength, strategy, torsion, remaining>>

ThetaNext == DescendToGluing \/ Glue \/ DescendToStep \/ Step \/ StepsEnd \/ LastTwo

ThetaSpec == ThetaInit /\ [][ThetaNext]_thetaVars

-----------------------------------------------------------------------------
Forms == {"gluing", "interior", "penultimate", "ultimate", "four", "two"}

\* Unsigned orders, one real order beside each that is reckoned.
ThetaTypeOK ==
    /\ tpc \in {"idle", "none", "glue", "steps", "tail", "split"}
    /\ mode \in {"padded", "exact"} /\ chainLength \in Nat
    /\ strategy \in Seq(Nat) /\ torsion \in Seq(Nat) /\ Len(strategy) = Len(torsion)
    /\ remaining \in Int /\ last \in Nat /\ forms \in Seq(Forms)

\* The orders the chain between surfaces reckons are two less than those its
\* pairs have, and fall from one pair to the next: the gluing and every
\* step are given 8-torsion, and the loops that push down end.
ThetaStrategySound ==
    /\ \A i \in 1 .. depth : strategy[i] >= 1 /\ torsion[i] = strategy[i] + 2
    /\ \A i \in 1 .. depth - 1 : strategy[i] > strategy[i + 1]

\* A chain that comes to the splitting has made as many isogenies as it was
\* told to, the last two of them the ones that leave the null point as the
\* splitting wants it, whatever the strategy did in between.
FormsInOrder ==
    tpc = "split" =>
        /\ Len(forms) = chainLength
        /\ \A i \in 1 .. chainLength :
             forms[i] = IF i = 1 THEN "gluing"
                        ELSE IF i < chainLength - 1 THEN "interior"
                        ELSE IF mode = "padded"
                             THEN IF i = chainLength THEN "ultimate" ELSE "penultimate"
                             ELSE IF i = chainLength THEN "two" ELSE "four"

\* A chain with no torsion to spare never runs out of pairs on its way: the
\* one kept for its tail exists, and is 4-torsion when it is used.
TailHasItsPair ==
    /\ tpc = "none" => forms = << >>
    /\ tpc = "split" /\ mode = "exact" => last = 2
=============================================================================
