----------------------------- MODULE SignVerify ----------------------------
(***************************************************************************)
(* A signer and a verifier that holds its key.  They share nothing but     *)
(* bytes, so the verifier starts when the signer has ended, or before it   *)
(* has begun and then on bytes of another origin.                          *)
(***************************************************************************)
EXTENDS Verifying

vars == <<signVars, verifyVars>>

Init == SignInit /\ VerifyInit

Next ==
    \/ vpc = "idle" /\ SignNext /\ UNCHANGED verifyVars
    \/ (ReceiveSigned \/ VerifyChallenge \/ VerifyEven \/ VerifyFourTorsion
        \/ VerifyChain \/ VerifyRefuses) /\ UNCHANGED signVars
    \/ vpc = "idle" /\ pc = "commit" /\ iter = 1 /\ ReceiveOther /\ UNCHANGED signVars

Spec == Init /\ [][Next]_vars

-----------------------------------------------------------------------------
Stages == Attempting \cup {"signed", "failed", "panicked"}

\* Every variable holds what its Rust type can.
TypeOK ==
    /\ pc \in Stages /\ iter \in 1 .. MaxIters /\ tries \in 0 .. MaxTries - 1
    /\ norm \in Norms \cup {0} /\ chl \in Chls \cup {0}
    /\ nbt \in Nat /\ d \in Nat /\ r \in Nat /\ q \in Nat /\ ePrime \in 0 .. F
    /\ even \in Point /\ chlBasis \in Basis /\ auxBasis \in Basis
    /\ vpc \in {"idle", "parsed", "even", "chain", "done"}
    /\ verEPrime \in 0 .. E /\ verChl \in Basis /\ verAux \in Basis
    /\ onF1 \in BOOLEAN
    /\ verdict \in {"none", "unparsed", "accepted", "rejected"}

\* Once the degrees are known.
HasDegrees == pc \in {"split", "kernel", "even", "challenge", "assemble", "signed"}

\* Every sample within the radius that passes the divisibility check leaves
\* room for an auxiliary isogeny: the three subtractions of e_rsp_prime do
\* not wrap, 2^e' - q is a positive norm, no division is by zero, and the
\* branch for e' = 0 is never taken.  (keys/signing.rs lines 896 to 984)
DegreesInRange ==
    /\ pc # "panicked"
    /\ HasDegrees =>
         /\ nbt + r + ePrime = E /\ ePrime >= 1
         /\ q % 2 = 1 /\ q < 2^ePrime

\* The kernel given to the signer's (2,2)-chain has the order its length
\* wants on both curves, and its two sides are matched by q.
SplitKernelExact ==
    pc = "split" /\ ePrime > 0 =>
        /\ ReducedOrder(ePrime, r) <= F
        /\ Splits(SplitKernel(ComBasis, ComBasis, q, ePrime, r), q, ePrime)

\* Whatever the parities of alpha's action, the point chosen as the kernel
\* of the even response has order 2^r and generates the kernel of alpha.
EvenKernelExact ==
    pc = "even" =>
        /\ OfOrder(even, r)
        /\ Multiples(even, r) = AlphaKernel(act, chlBasis, ePrime, r)

\* The challenge chains of signer and verifier have the order that their
\* lengths want, the verifier's for any bytes it goes on with.  The signer
\* reckons the kernel from its locals (keys/mod.rs lines 136 to 139), verify
\* once more from the wire (keys/verifying.rs lines 122 to 126): it is the
\* same point.
ChallengeKernelExact ==
    /\ pc \in {"challenge", "assemble", "signed"} => OfOrder(ChallengeKernel(chl, nbt), F - nbt)
    /\ vpc \in {"parsed", "even", "chain"} /\ wire.nbt + wire.r <= E =>
         OfOrder(VerifierKernel(wire), F - wire.nbt)
    /\ curves # NoCurves => VerifierKernel(wire) = curves.kernel

\* A signature loses nothing on the wire, and the parser takes it: the
\* matrix has e' + r + 2 bits and the wire's bytes room for them.
SurvivesTheWire ==
    pc = "signed" =>
        /\ Parses(ToBytes(sig))
        /\ ToBytes(sig).m = sig.m /\ ToBytes(sig).nbt = sig.nbt /\ ToBytes(sig).r = sig.r

\* Whatever bytes were parsed, the doublings verify asks for are not
\* negative numbers.
VerifyShiftsFit ==
    vpc = "parsed" =>
        LET e == E - wire.nbt - wire.r
        IN  e >= 0 => AuxShift(e) >= 0 /\ ChlShift(e, wire.r) >= 0 /\ e + 2 <= F

\* Verify accepts every signature that sign makes.
SignedIsAccepted ==
    vpc = "done" /\ curves # NoCurves => verdict = "accepted"

=============================================================================
