------------------------------- MODULE Tables ------------------------------
(* What the arithmetic modules share: a function as the table of its       *)
(* values, which is the same function, computed once instead of at every   *)
(* application.                                                            *)
EXTENDS TLC

Table(f) == CHOOSE g \in {f} : g = g

=============================================================================
