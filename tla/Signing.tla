------------------------------ MODULE Signing ------------------------------
(***************************************************************************)
(* SigningKey::sign (src/keys/signing.rs): the rejection loop that turns a *)
(* commitment and a challenge into a response.                             *)
(*                                                                         *)
(* Ideals and quaternions are kept as the numbers the loop computes from   *)
(* them: content and reduced norm of the sampled alpha, its degree, the    *)
(* exponents; points and kernels are those of Response.  Whatever returns  *)
(* None for reasons outside this model may do so at any time, and the loop *)
(* starts over.                                                            *)
(***************************************************************************)
EXTENDS Response

CONSTANTS
    E,           \* E_RSP
    MaxIters,    \* attempts of the loop (1000)
    MaxTries,    \* samples per attempt (8)
    WordBits,    \* bits of a u32
    ByteBits,    \* bits of a byte
    Norms,       \* N(I_sk) * N(I_com), a product of two odd primes
    Chls,        \* challenges
    Bases        \* what to_hint may find on a curve, in its coordinates

ASSUME SigningAssumption ==
    /\ E \in Nat \ {0} /\ E + 2 <= F /\ F < 2^WordBits
    /\ MaxIters \in Nat \ {0} /\ MaxTries \in Nat \ {0}
    /\ WordBits \in Nat /\ ByteBits \in Nat \ {0}
    /\ Norms \subseteq Nat \ {0}
    /\ Chls \subseteq Nat
    /\ \A b \in Bases :
         b \in Basis /\ Det(Columns(b.P, b.PmQ), F) % 2 = 1 /\ b.Q = Sub(b.P, b.PmQ)

VARIABLES
    pc, iter, tries,   \* where the loop is
    norm, chl,         \* of this attempt's commitment
    nbt, d,            \* backtracking and degree of the sampled alpha
    r, q, ePrime,      \* d = 2^r * q and what is left of E
    act, even,         \* alpha acting on E_0[2^r]; kernel of the even response
    chlBasis, auxBasis,
    sig                \* the signature, with what is true of its curves

attempt == <<norm, chl, nbt, d, r, q, ePrime, act, even, chlBasis, auxBasis>>
signVars == <<pc, iter, tries, attempt, sig>>

-----------------------------------------------------------------------------
(* Numbers                                                                 *)

\* trailing_zeros
TwoAdic(n) == CHOOSE k \in 0 .. n : n % 2^k = 0 /\ (n \div 2^k) % 2 = 1

\* a - b on a u32 without overflow checks.
WordSub(a, b) == (a - b) % 2^WordBits

\* N(I_chl) * N(I_sk) * N(I_com), and the radius of the ball.
LatticeContent(n) == 2^F * n
\* Variant: the radius without its minus one.
MutRadius(n) == 2^E * LatticeContent(n)
Radius(n) == (2^E - 1) * LatticeContent(n)

-----------------------------------------------------------------------------
(* The loop                                                                *)

SignInit ==
    /\ pc = "commit" /\ iter = 1 /\ tries = 0
    /\ norm = 0 /\ chl = 0
    /\ nbt = 0 /\ d = 0 /\ r = 0 /\ q = 0 /\ ePrime = 0
    /\ act = NoMatrix /\ even = O
    /\ chlBasis = ComBasis /\ auxBasis = ComBasis
    /\ sig = << >>

\* `continue`: what the attempt found is dropped.
NextAttempt ==
    /\ IF iter < MaxIters
       THEN pc' = "commit" /\ iter' = iter + 1
       ELSE pc' = "failed" /\ iter' = iter
    /\ tries' = 0
    /\ norm' = 0 /\ chl' = 0
    /\ nbt' = 0 /\ d' = 0 /\ r' = 0 /\ q' = 0 /\ ePrime' = 0
    /\ act' = NoMatrix /\ even' = O
    /\ chlBasis' = ComBasis /\ auxBasis' = ComBasis
    /\ UNCHANGED sig

\* A conversion the loop answers with SigningFailed.
GiveUp ==
    /\ pc' = "failed"
    /\ UNCHANGED <<iter, tries, attempt, sig>>

\* Anything the attempt calls may return None.
Attempting ==
    {"commit", "sample", "degrees", "split", "kernel", "even", "challenge", "assemble"}

CallFails ==
    /\ pc \in Attempting
    /\ NextAttempt

Commit ==
    /\ pc = "commit"
    /\ pc' = "sample"
    /\ norm' \in Norms /\ chl' \in Chls
    /\ UNCHANGED <<iter, tries, nbt, d, r, q, ePrime, act, even, chlBasis, auxBasis, sig>>

\* Variant: one sample too many.
MutSampleFails ==
    IF tries + 1 <= MaxTries
    THEN tries' = tries + 1 /\ UNCHANGED <<pc, iter, attempt, sig>>
    ELSE NextAttempt

\* One sample is of no use; eight of them end the attempt.
SampleFails ==
    IF tries + 1 < MaxTries
    THEN tries' = tries + 1 /\ UNCHANGED <<pc, iter, attempt, sig>>
    ELSE NextAttempt

\* compute_backtracking splits alpha into c * alpha' with alpha' primitive,
\* of norm n; alpha' is taken when lattice_content >> n_bt divides n.
Backtrack(c, n) ==
    LET k == TwoAdic(c)
        content == LatticeContent(norm) \div 2^k
    IN  IF content = 0
        THEN pc' = "panicked" /\ UNCHANGED <<iter, tries, attempt, sig>>
        ELSE IF n % content # 0 THEN SampleFails
        ELSE /\ pc' = "degrees"
             /\ nbt' = k /\ d' = n \div content
             /\ UNCHANGED <<iter, tries, norm, chl, r, q, ePrime, act, even,
                            chlBasis, auxBasis, sig>>

\* sample_from_ball: anything but zero within the radius.
Sample ==
    /\ pc = "sample"
    /\ \E c \in 1 .. Radius(norm) : \E n \in 1 .. Radius(norm) \div (c * c) : Backtrack(c, n)

NoSample ==
    /\ pc = "sample"
    /\ SampleFails

Degrees ==
    LET r1 == TwoAdic(d)
        e1 == WordSub(WordSub(E, r1), nbt)
    IN  /\ pc = "degrees"
        /\ IF IsTorsionExponent(nbt) /\ IsTorsionExponent(r1) /\ IsTorsionExponent(e1)
           THEN /\ pc' = "split"
                /\ r' = r1 /\ q' = d \div 2^r1 /\ ePrime' = e1
                /\ UNCHANGED <<iter, tries, norm, chl, nbt, d, act, even, chlBasis, auxBasis, sig>>
           ELSE GiveUp

\* The auxiliary isogeny and the (2,2)-chain, or the commitment again when
\* nothing is left of the response.
Split ==
    /\ pc = "split"
    /\ IF ePrime > 0
       THEN /\ ReducedOrder(ePrime, r) <= F
            /\ Splits(SplitKernel(ComBasis, ComBasis, q, ePrime, r), q, ePrime)
            /\ chlBasis' = Pushed(ComBasis, ePrime, r)
       ELSE chlBasis' = ComBasis
    /\ auxBasis' = chlBasis'
    /\ pc' = IF r > 0 THEN "kernel" ELSE "challenge"
    /\ UNCHANGED <<iter, tries, norm, chl, nbt, d, r, q, ePrime, act, even, sig>>

FromQuaternion ==
    /\ pc = "kernel"
    /\ pc' = "even"
    /\ act' \in Actions(r)
    /\ even' = EvenKernel(act', chlBasis, ePrime, r)
    /\ UNCHANGED <<iter, tries, norm, chl, nbt, d, r, q, ePrime, chlBasis, auxBasis, sig>>

\* From any other kernel the response would end on a curve that
\* Challenge::to_isogeny refuses for its j-invariant.
EvenResponse ==
    /\ pc = "even"
    /\ OfOrder(even, r)
    /\ Multiples(even, r) = AlphaKernel(act, chlBasis, ePrime, r)
    /\ act' = NoMatrix
    /\ chlBasis' = MapBasis(LAMBDA p : EvenImage(even, r, p), chlBasis)
    /\ pc' = "challenge"
    /\ UNCHANGED <<iter, tries, norm, chl, nbt, d, r, q, ePrime, even, auxBasis, sig>>

\* Challenge::to_isogeny: the codomain is the response's up to isomorphism.
ToIsogeny ==
    /\ pc = "challenge"
    /\ OfOrder(ChallengeKernel(chl, nbt), F - nbt)
    /\ pc' = "assemble"
    /\ UNCHANGED <<iter, tries, attempt, sig>>

\* The hints of E_aux and E_chl and the matrix between their bases.
Assemble ==
    /\ pc = "assemble"
    /\ \E detAux, detChl \in Bases :
         LET eCob == ePrime + r + 2
             m1   == FromBasesInvert(detAux, auxBasis, eCob)
             mChl == FromBases(detChl, MulBasis(m1, eCob, chlBasis), eCob)
         IN  IF ~IsTorsionExponent(eCob) THEN GiveUp
             ELSE IF m1 = NoMatrix THEN NextAttempt
             ELSE /\ pc' = "signed"
                  /\ sig' = [nbt |-> nbt, r |-> r, m |-> mChl, chl |-> chl,
                             aux |-> detAux, kernel |-> ChallengeKernel(chl, nbt),
                             chlBasis |-> detChl, even |-> even]
                  /\ UNCHANGED <<iter, tries, attempt>>

SignNext ==
    \/ Commit \/ Sample \/ NoSample \/ Degrees \/ Split
    \/ FromQuaternion \/ EvenResponse \/ ToIsogeny \/ Assemble
    \/ CallFails
=============================================================================
