---------------------------- MODULE MCSignVerify ---------------------------
(* Small instances of SignVerify: torsion of order 2^7, responses of four *)
(* bits, and one basis for each way two points can be even or odd.        *)
EXTENDS SignVerify

SlotBasis(p, s) == FromPropagated(p, s, Sub(p, s))

MCBases ==
    {SlotBasis(<<1, 0>>, <<0, 1>>), SlotBasis(<<2, 1>>, <<3, 4>>),
     SlotBasis(<<5, 2>>, <<3, 7>>), SlotBasis(<<1, 9>>, <<4, 3>>),
     SlotBasis(<<1, 1>>, <<13, 6>>), SlotBasis(<<6, 5>>, <<7, 11>>)}
=============================================================================
