----------------------------- MODULE KernelWalk ----------------------------
(***************************************************************************)
(* What an isogeny with a given kernel promises, without the strategy that *)
(* makes it fast: the kernel is divided by a level or two at a time, from  *)
(* its points of order 2 up, until all of it is gone.  It fails only on a  *)
(* kernel that is smaller than the caller said, and it ends.               *)
(***************************************************************************)
EXTENDS Torsion, FiniteSets

VARIABLES status,     \* idle, walking, done or lost
          length,     \* the exponent the caller gives for the kernel's order
          kernel,     \* the subgroup to divide by
          divided     \* what of it has become the identity

walkVars == <<status, length, kernel, divided>>

Cyclic(subgroup, n) == \E p \in subgroup : subgroup = {Times(i, p) : i \in 0 .. 2^n - 1}

\* The points of the kernel that n doublings take to what is divided by.
Deeper(n) == {p \in kernel : DoubleN(n, p) \in divided}

Init == status = "idle" /\ length = 0 /\ kernel = {O} /\ divided = {O}

Begin ==
    /\ status = "idle" /\ status' = "walking"
    /\ length' \in 0 .. F
    /\ Cyclic(kernel', length')
    /\ UNCHANGED divided

Advance ==
    /\ status = "walking" /\ divided # kernel
    /\ \E n \in 1 .. 2 : divided' = Deeper(n)
    /\ UNCHANGED <<status, length, kernel>>

\* The last level of an odd walk may go with the return.
Return ==
    /\ status = "walking" /\ status' = "done"
    /\ divided' = kernel
    /\ divided' \in {divided, Deeper(1)}
    /\ UNCHANGED <<length, kernel>>

GiveUp ==
    /\ status = "walking" /\ status' = "lost"
    /\ Cardinality(kernel) # 2^length
    /\ UNCHANGED <<length, kernel, divided>>

Walk == Advance \/ Return \/ GiveUp
Steps == Init /\ [][Begin \/ Walk]_walkVars
Spec == Steps /\ WF_walkVars(Walk)
=============================================================================
