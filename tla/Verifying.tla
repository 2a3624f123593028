----------------------------- MODULE Verifying -----------------------------
(***************************************************************************)
(* The wire format of a signature (src/keys/mod.rs) and                    *)
(* VerifyingKey::verify (src/keys/verifying.rs).                           *)
(*                                                                         *)
(* Verify sees the bytes and the points it computes.  What is true of the  *)
(* curves they lie on is kept beside them, in `curves`: for a signature    *)
(* this signer made, which challenge kernel leads to E_chl, what from_hint *)
(* finds there and which even isogeny arrives there.  Bytes of any other   *)
(* origin lead to curves nothing is known of.                              *)
(***************************************************************************)
EXTENDS Signing

VARIABLES
    vpc,
    wire,              \* the parsed signature
    curves,            \* what is true of its curves, or NoCurves
    verEPrime,
    verChl, verAux,    \* the transformed basis on E_chl, the basis on E_aux
    onF1,              \* the even response has been undone
    verdict

verifyVars == <<vpc, wire, curves, verEPrime, verChl, verAux, onF1, verdict>>

-----------------------------------------------------------------------------
(* The wire                                                                *)

\* M_CHL_COMP_BYTES, in bits.
CompBits == ByteBits * ((E + ByteBits - 1) \div ByteBits)

\* M_chl fits the bytes the wire has for it, and an exponent a byte.
ASSUME WireAssumption == E + 2 <= CompBits /\ F < 2^ByteBits

Matrix(k) == [1 .. 2 -> [1 .. 2 -> 0 .. 2^k - 1]]

\* Variant: the matrix is cut to E_RSP bits.
MutToBytes(s) ==
    [nbt |-> s.nbt % 2^ByteBits, r |-> s.r % 2^ByteBits,
     m |-> [i \in 1 .. 2 |-> [j \in 1 .. 2 |-> s.m[i][j] % 2^E]],
     chl |-> s.chl, aux |-> s.aux]

\* Signature::to_bytes: two bytes for the exponents, and of each entry of
\* the matrix the bytes that E_RSP takes.
ToBytes(s) ==
    [nbt |-> s.nbt % 2^ByteBits, r |-> s.r % 2^ByteBits,
     m |-> [i \in 1 .. 2 |-> [j \in 1 .. 2 |-> s.m[i][j] % 2^CompBits]],
     chl |-> s.chl, aux |-> s.aux]

\* Signature::from_bytes accepts.
Parses(b) ==
    /\ IsTorsionExponent(b.nbt) /\ IsTorsionExponent(b.r)
    /\ b.nbt <= E + 2
    /\ EntriesBelowPow2(b.m, E + 2 - b.nbt)

\* The exponent a parsed matrix is applied with.
MatrixExponent(b) == E + 2 - b.nbt

NoCurves == << >>

\* Every byte an exponent can be sent as.
Byte == 0 .. 2^ByteBits - 1

-----------------------------------------------------------------------------
(* verify                                                                  *)

VerifyInit ==
    /\ vpc = "idle" /\ wire = << >> /\ curves = NoCurves
    /\ verEPrime = 0 /\ verChl = ComBasis /\ verAux = ComBasis
    /\ onF1 = FALSE /\ verdict = "none"

Receive(b) ==
    /\ vpc = "idle"
    /\ wire' = b
    /\ IF Parses(b)
       THEN vpc' = "parsed" /\ verdict' = "none"
       ELSE vpc' = "done" /\ verdict' = "unparsed"
    /\ UNCHANGED <<verEPrime, verChl, verAux, onF1>>

ReceiveSigned ==
    /\ pc = "signed"
    /\ Receive(ToBytes(sig))
    /\ curves' = [kernel |-> sig.kernel, chlBasis |-> sig.chlBasis,
                  even |-> sig.even, r |-> sig.r]

ReceiveOther ==
    \E n, k \in Byte, m \in Matrix(1), c \in Chls :
        /\ Receive([nbt |-> n, r |-> k, m |-> m, chl |-> c, aux |-> PkBasis])
        /\ curves' = NoCurves

Conclude(answer) ==
    /\ vpc' = "done"
    /\ verdict' = answer
    /\ UNCHANGED <<wire, curves, verEPrime, verChl, verAux, onF1>>

\* The shifts of lines 11 and 13; as u32 they must not go below zero.
AuxShift(e) == F - e - 2
\* Variant: the even part is taken off twice.
MutChlShift(e, k) == F - e - 2 * k - 2
ChlShift(e, k) == F - e - k - 2

\* Variant: the backtracking has been forgotten.
MutVerifierKernel(b) == Combine(1, PkBasis.P, b.chl, PkBasis.PmQ)

\* K_chl of line 9, the verifier's own reckoning of the challenge's kernel,
\* from the parsed bytes.
VerifierKernel(b) == DoubleN(b.nbt, Combine(1, PkBasis.P, b.chl, PkBasis.PmQ))

\* Steps 6 to 14: the challenge isogeny, the two bases, the matrix.
VerifyChallenge ==
    LET e == E - wire.nbt - wire.r
        known == curves # NoCurves /\ VerifierKernel(wire) = curves.kernel
    IN  /\ vpc = "parsed"
        /\ IF e < 0 THEN Conclude("rejected")
           ELSE \E canonical \in IF known THEN {curves.chlBasis} ELSE Bases :
                /\ vpc' = IF wire.r > 0 THEN "even" ELSE "chain"
                /\ verEPrime' = e
                /\ verChl' = MulBasis(wire.m, MatrixExponent(wire),
                                      DoubleBasis(ChlShift(e, wire.r), canonical))
                /\ verAux' = DoubleBasis(AuxShift(e), wire.aux)
                /\ onF1' = (known /\ wire.r = 0)
                /\ UNCHANGED <<wire, curves, verdict>>

\* Variant: the first row in place of the first column.
MutFirstColumnEven(m) == m[1][1] % 2 = 0 /\ m[1][2] % 2 = 0

\* Whether both entries of the matrix's first column are even.
FirstColumnEven(m) == m[1][1] % 2 = 0 /\ m[2][1] % 2 = 0

\* The kernel of the even response's dual.
EvenDualKernel ==
    DoubleN(verEPrime + 2, IF FirstColumnEven(wire.m) THEN verChl.PmQ ELSE verChl.P)

\* Steps 15 to 20: back to F_1 through the dual, if its kernel is this one.
VerifyEven ==
    LET k == EvenDualKernel
        back == /\ curves # NoCurves
                /\ OfOrder(k, wire.r)
                /\ EvenDual(curves.even, wire.r, k) = O
    IN  /\ vpc = "even"
        /\ vpc' = "chain"
        /\ onF1' = back
        /\ verChl' = IF back
                     THEN MapBasis(LAMBDA p : EvenDual(curves.even, wire.r, p), verChl)
                     ELSE verChl
        /\ UNCHANGED <<wire, curves, verEPrime, verAux, verdict>>

\* Steps 21 to 23: nothing is left for the (2,2)-chain, so the basis is
\* checked by itself.
VerifyFourTorsion ==
    LET twoP == DoubleN(1, verChl.P)
        twoQ == DoubleN(1, verChl.PmQ)
    IN  /\ vpc = "chain" /\ verEPrime = 0
        /\ IF /\ DoubleN(1, twoP) = O /\ twoP # O
              /\ DoubleN(1, twoQ) = O /\ twoQ # O
              /\ twoP # twoQ
           THEN \E c \in Chls : Conclude(IF c = wire.chl THEN "accepted" ELSE "rejected")
           ELSE Conclude("rejected")

\* The two sides agree, and generate the torsion the chain wants.
VerifyKernelSplits ==
    /\ onF1
    /\ IsBasisOf(verChl, verEPrime + 2)
    /\ verChl = verAux

\* Steps 24 to 30: the (2,2)-chain back to E_com and its challenge.  From
\* curves nothing is known of it may fail, or end on any curve.
VerifyChain ==
    /\ vpc = "chain" /\ verEPrime > 0
    /\ IF VerifyKernelSplits THEN Conclude("accepted")
       ELSE \E answer \in {"accepted", "rejected"} : Conclude(answer)

\* from_hint finds no basis on a curve that is not supersingular, and
\* isogeny_small and from_montgomery may refuse their points.
VerifyRefuses ==
    /\ vpc \in {"parsed", "even", "chain"}
    /\ curves = NoCurves
    /\ Conclude("rejected")

VerifyNext ==
    \/ ReceiveSigned \/ ReceiveOther
    \/ VerifyChallenge \/ VerifyEven \/ VerifyFourTorsion \/ VerifyChain
    \/ VerifyRefuses
=============================================================================
