--------------------------- MODULE MCOrchestrator ---------------------------
(* Instances of Orchestrator for TLC. *)
EXTENDS Orchestrator, TLC

CONSTANTS j1, j2, j3, r1, r2, n1, n2, n3, l1

\* Two jobs of one run, alike in their labels: either may steal the other's
\* runner.
OneRun    == [j \in Jobs |-> r1]
SameLabel == [j \in Jobs |-> l1]

JobNameSymmetry == Permutations(Jobs) \cup Permutations(Names)
NameSymmetry == Permutations(Names)
=============================================================================
