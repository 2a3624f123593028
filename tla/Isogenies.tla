------------------------------ MODULE Isogenies ----------------------------
(***************************************************************************)
(* From scalars to curves: a kernel generator made by a ladder, and the    *)
(* chain of isogenies it is the kernel of.  The challenge isogeny takes    *)
(* the three-point ladder, some doublings and Kernel::isogeny; the even    *)
(* response takes the ladder of two scalars and Kernel::isogeny_small.     *)
(* Beside them, the chain between surfaces, which is told its length.      *)
(***************************************************************************)
EXTENDS Ladder, IsogenyChain, ThetaChain

CONSTANT Backtrackings     \* the values of n_bt

ASSUME BacktrackingAssumption == Backtrackings \subseteq 0 .. F

vars == <<ladderVars, chainVars, thetaVars>>

Init ==
    \/ LadderInit /\ ChainIdle /\ ThetaIdle
    \/ /\ ThetaInit /\ ChainIdle
       /\ lpc = "idle" /\ job = [op |-> "none", e |-> 1, m |-> 0, n |-> 0]
       /\ step = 0 /\ rec = NoRecoding /\ reg = NoRegisters /\ out = NoPoint

\* The length of the challenge isogeny.
Remaining(n) == F - n

\* The kernel of the challenge isogeny: 2^n_bt times what the ladder gave.
Challenge ==
    \E n \in Backtrackings, p \in out :
        /\ lpc = "returned" /\ job.op = "ladder"
        /\ Start(FALSE, DoubleN(n, p), Remaining(n))

EvenResponse ==
    \E p \in out :
        /\ lpc = "returned" /\ job.op = "biscalar"
        /\ Start(TRUE, p, job.e)

Next ==
    \/ LadderNext /\ UNCHANGED <<chainVars, thetaVars>>
    \/ cpc = "idle" /\ (Challenge \/ EvenResponse) /\ UNCHANGED <<ladderVars, thetaVars>>
    \/ ChainNext /\ UNCHANGED <<ladderVars, thetaVars>>
    \/ ThetaNext /\ UNCHANGED <<ladderVars, chainVars>>

\* A thread that calls one of these has nothing to wait for.
Spec == Init /\ [][Next]_vars /\ WF_vars(Next)

-----------------------------------------------------------------------------
\* Registers hold points or nothing known, scalars fit the width they are
\* stored in, and a strategy has as many orders as points.
TypeOK ==
    /\ lpc \in {"idle", "scalar", "ladder", "biscalar", "recode", "evaluate", "returned"}
    /\ step \in 0 .. Width /\ out \subseteq Point
    /\ \A i \in 1 .. Len(reg) : reg[i] \subseteq Point
    /\ \A i \in 1 .. 2 : rec.scalar[i] \in 0 .. 2^Width - 1 /\ rec.sigma[i] \in 0 .. 1
    /\ cpc \in {"idle", "chain", "small", "returned", "refused", "lost"}
    /\ quotient \subseteq Point /\ j \in 0 .. F
    /\ Len(orders) = Len(stratPts) /\ stratPts \in Seq(Point)
    /\ ThetaTypeOK

Expected ==
    LET b == Base(job.e)
    IN  CASE job.op = "scalar"   -> Times(job.m, b.P)
          [] job.op = "ladder"   -> Combine(1, b.P, job.m, b.PmQ)
          [] job.op = "biscalar" -> BiscalarMul(b, job.m, job.n, job.e)

\* Every ladder returns the combination it is named for, whatever the two
\* parities, the zeros and the bits above the order: the operation that
\* the rest of the development takes for granted.
LadderExact == lpc = "returned" => out = XOnly(Expected)

\* No differential addition is given a difference that is not its operands'
\* own, or one with a zero coordinate, which the formula cannot take.
\* (curves/mod.rs lines 553-557)
DifferencesKnown == \A i \in 1 .. Len(reg) : reg[i] # NoPoint

\* The orders that Kernel::isogeny reckons are those its points have on the
\* curve reached, and fall from one to the next: every 4-isogeny is given a
\* point of order exactly 4, and the inner loop ends.
StrategyOrdersTrue ==
    cpc = "chain" =>
        /\ \A i \in 1 .. k : orders[i] = OrderOf(stratPts[i])
        /\ \A i \in 1 .. k - 1 : orders[i] > orders[i + 1]

\* isogeny_small never refuses a point a ladder made in its torsion, and has
\* no curve to return exactly when both scalars were even.
SmallChainOutcome ==
    /\ cpc # "refused"
    /\ job.op = "biscalar" =>
         /\ cpc = "lost" => Parities = <<0, 0>>
         /\ cpc = "returned" => Parities # <<0, 0>>

\* The kernel of the chain: multiples of the ladder's point, doubled until
\* they are as many as the length says.
Kernel ==
    IF cpc = "idle" THEN {O}
    ELSE Span(DoubleN(job.e - length, CHOOSE p \in out : TRUE), length)

Status == CASE cpc = "idle" -> "idle"
            [] cpc \in {"chain", "small"} -> "walking"
            [] cpc = "returned" -> "done"
            [] OTHER -> "lost"

Promise ==
    INSTANCE KernelWalk WITH kernel <- Kernel, divided <- quotient, status <- Status

\* Both chains implement the plain walk along a kernel: the descents of the
\* strategy are steps that divide by nothing, every isogeny takes off one or
\* two levels of that kernel and no other, a chain that returns, of even or
\* odd length, has divided by all of it, the walk is given up only on a point
\* of too small an order, and it comes to its end.
ImplementsWalk == Promise!Spec

\* Every call comes to an end: no loop of the ladders or of the strategies
\* goes on for ever.
LoopsEnd ==
    <>(/\ lpc \in {"idle", "returned"}
       /\ lpc = "returned" /\ job.op # "scalar" => cpc \in {"returned", "lost"}
       /\ tpc \in {"idle", "none", "split"})
=============================================================================
