# sqisign-selkie in TLA+

Formal models of `sqisign-selkie`: the SQIsign signature library under
`src/src/`, and the CI orchestrator that serves it under
`src/infra/orchestrator/`. The modules are model-checked with TLC on small
instances; the safety properties of the protocol, the orchestrator, the ladders
and the chains, and what the multi-limb integers compute, are proved with TLAPS
for every value of the constants. Paths below are
relative to the repository.

    tlc -config SignVerify.cfg MCSignVerify      # one of the runs of PROJECT.json
    tlapm SignVerifyProofs.tla                   # one of the proof modules

`PROJECT.json` lists the components, the runs, the lines each definition
translates (`map`), the hazards of the code with the properties that watch
them, the theorems, and a mutant for every property: a plausible bug under
which TLC finds the property violated.

## 1. The system

Two programs share the repository.

**The library** is sequential. `SigningKey::sign` is one long rejection loop,
`VerifyingKey::verify` a straight line with early returns. Both are built on
layers that keep no state between calls. What is hard in it is not concurrency
but agreement: two parties compute the same points along different routes,
exponents are counted down in several places at once, orders of points are
reckoned and never measured, representations are kept unreduced, and a mistake
shows as a rejected signature once in many thousands of samples, or as a
`None` far from its cause.

**The orchestrator** is one asynchronous process: webhook handlers, a
reconciler and a reaper run as tokio tasks, talk to two services that have
minds of their own (GitHub hands jobs to any runner with the right labels; Fly
stops, destroys and loses Machines), and share nothing but those services.
What is hard in it is what is hard in every such program: answers that are
stale when used, lost deliveries, retries, restarts, capacity.

### 1.1 Orchestrator

| component | state | operations | interacts with |
|---|---|---|---|
| webhook handlers (`main.rs`) | none between calls: where each handler is | `handle_queued` (mint, resolve, POST), `handle_completed` (find Machine, look up runner, deregister, destroy) | GitHub, Fly |
| reconciler (`reconciler.rs`) | `SpawnLedger`: attempts and hold per job | the sweep: list queued jobs, list Machines, spawn what is missing | GitHub, Fly |
| reaper (`reaper.rs`) | none between sweeps | the sweep: list, resolve `:latest`, destroy stale and over-age Machines | Fly, registry |
| clients (`github.rs`, `fly.rs`) | installation token, HTTP client | one HTTP call each | GitHub, Fly |

Hard: job stealing (GitHub gives X's runner to Y), a Machine name check older
than the spawn made from it, a POST that fails after it took effect, lost
webhooks, a restart between two calls, a Machine limit, an image rollover under
running jobs. Correct if: a Machine is destroyed under a running job only by
the age rules, the completed handler destroys nothing that may still take work,
a job gets at most one Machine per spawner, Machines do not leak, and a queued
job is served in the end.

### 1.2 Library

| component | state | operations | what makes it correct |
|---|---|---|---|
| `keys/signing.rs` sign | the locals of an attempt, two retry counters | commit, challenge, sample alpha, degrees, auxiliary isogeny, even response, challenge isogeny, matrix | degrees never wrap, kernels have the order their chain wants, the result verifies |
| `keys/signing/response/` | kernels | `SplitAuxiliaryKernel`, `EvenResponseKernel` | exact orders, right subgroup whatever the parities |
| `keys/mod.rs` wire format | bytes | `to_bytes`, `from_bytes`, `ChallengeMatrix::parse` | nothing is cut off, what parses is in range |
| `keys/verifying.rs` verify | parsed signature, points | steps 6 to 30 | accepts what sign makes; no negative shift for any bytes |
| `curves/` ladders | registers | `scalar_mul`, `scalar_mul_add`, `biscalar_mul` | return the combination they are named for; every difference is the right one |
| `curves/isogeny/` | strategy stacks | `Kernel::isogeny`, `isogeny_small` | divide by exactly the kernel |
| `surfaces/` | strategy stacks, countdown of forms | `isogeny_inner`, `isogeny_inner_no_extra_torsion` | each step has the torsion and the form it needs |
| `curves/mod.rs` bases, matrices | none | `to_hint`, `from_hint`, `from_bases`, `from_bases_invert`, `mul` | both sides find the same basis; linear algebra modulo 2^k in agreement with the points |
| `curves/montgomery/`, `fields/fp2` | none | curve models, x-only and Jacobian formulas, roots | the chord and tangent law, at the degenerate points too |
| `curves/pairing.rs`, `curves/scalar` | none | Weil and Tate pairings, discrete logarithms; scalars modulo 2^256 | bilinear and of the exponents that are read off; widths |
| `fields/fp` and backends | limbs | the operations of F_p in four formats | lazy carries never pass their word; all formats agree |
| `quaternions/bigint` | limbs | multi-precision, modular and number-theoretic operations | carries, estimated digits, widths |
| `quaternions/linear`, `lattice`, `algebra` | bases, matrices | HNF, sums, intersections, products, L2 reduction | invariants of the loops: the lattice does not change |
| `quaternions/ideal` | search state | constructors, `represent_integer`, equivalent ideals, suitable ideals | norms and orders as said; budgets |
| `deuring/` | none | `to_isogeny`, fixed-degree isogenies | mode of the chain, order of random draws |
| `drbg.rs`, `hash.rs` | DRBG key, counter, buffer | `fill_bytes`, reseed; SHAKE | block boundaries; determinism |

The library's other directories (tables, known answers, tests, fuzz targets,
benchmarks, the LaTeX review, scripts) have no behaviour of their own to model;
PROJECT.json lists each with the reason.

## 2. Modules

| module | models | extends |
|---|---|---|
| `Fleet` | GitHub, Fly, the clock and the deliveries, from how the orchestrator uses them; the shared variables | |
| `Webhook`, `Reconciler`, `Reaper` | `handle_queued` and `handle_completed`; the sweep and `SpawnLedger`; the reaper's two rules | Fleet |
| `Orchestrator` | the process: all of them, restarts, fairness, properties | the three above |
| `Torsion` | `TorsionBasis`, `ChangeOfBasisMatrix` on coordinates modulo 2^F | |
| `Response` | the kernels of the signer's isogenies and the even isogenies | Torsion |
| `Signing` | `SigningKey::sign` | Response |
| `Verifying` | wire format, `VerifyingKey::verify` | Signing |
| `SignVerify` | signer, bytes and verifier together; properties | Verifying |
| `Ladder` | the three ladders on x-only points | Torsion |
| `IsogenyChain` | `Kernel::isogeny`, `Kernel::isogeny_small` | Torsion |
| `ThetaChain` | both chains between surfaces | |
| `KernelWalk` | the abstract specification of an isogeny with a given kernel | Torsion |
| `Isogenies` | ladders feeding the chains they are kernels of; the refinement of KernelWalk; properties | Ladder, IsogenyChain, ThetaChain |
| `Thread`, `Tables` | a thread that calls one operation at a time and runs its loop; functions as tables | |
| `Limbs`, `LongDivision`, `NumberTheory` | `BigInt`: kernels, division and gcds, modular arithmetic, roots, primes, samplers | in this order |
| `Numbers` | the calls made of them; properties | NumberTheory, Thread |
| `Radix`, `FpVector` | the backends of F_p: what they share, the portable one and the packed one; the two vector ones | in this order |
| `Fields` | one element carried by all backends at once; properties | FpVector, Thread |
| `Algebra`, `Lattices` | matrices, HNF and quaternions; lattices and L2 | in this order |
| `LatticeCalls` | the calls made of them; properties | Lattices, Thread |
| `Ideals`, `IdealSearch`, `SuitableIdeals` | constructors and `represent_integer`; the searches that reduce or draw; `suitable_ideals`; properties | Lattices, in this order |
| `MontgomeryCurve`, `Pairing`, `TorsionBases` | F_{p^2} and the formulas; pairings and scalars; hints, matrices and chains on actual curves | in this order |
| `CurveCalls` | the calls made of them, against the chord and tangent law; properties | TorsionBases, Thread |
| `MCOrchestrator`, `MCSignVerify`, `MCComputation` | constants of the runs; the last also composes the arithmetic | |
| `OrchestratorProofs` | theorems about Orchestrator | Orchestrator |
| `Powers` | induction and recursion on the naturals, powers of two, division with remainder | |
| `TorsionProofs` | points by their level in the torsion | Torsion, Powers |
| `SignVerifyProofs` | theorems about SignVerify | TorsionProofs |
| `IsogenyProofs` | theorems about Isogenies, its ladders and its chains | Isogenies, TorsionProofs |
| `LimbProofs`, `IntegerProofs`, `GcdProofs` | theorems about Numbers: the kernels on limbs; division and the calls; the gcds | Numbers, Powers, in this order |

### 2.1 How state and actions correspond to the code

*Orchestrator.* Each `.await` on a client ends an atomic step: between two
calls everything else may move. `qh[j]`, `ch[j]` are the handlers of job `j`'s
two events (their program counters name the next call), `rc` and `rp` the
locals of the two sweeps, `ledger` the `SpawnLedger`. Every call may fail, with
and without having taken effect where the code cannot tell; `MaxFaults` bounds
failures, lost deliveries and restarts together. A name `fly-{job}-{millis}` is
an element of `Names`, the job it encodes is `owner`. HMAC verification, JSON,
machine sizes and log lines are left out.

*Sign and verify.* A point of E[2^F] is its coordinates modulo 2^F; the
doublings, combinations, matrices and slot layout of the code act on
coordinates. An odd isogeny carries coordinates over unchanged, an even one is
the linear map with its kernel. Ideals and quaternions are the numbers the loop
computes from them (content, norm, degree, exponents), and a sample is any pair
of content and norm inside the ball. Everything that may return `None` for
reasons that are not modelled may do so at any time (`CallFails`). The verifier
sees the bytes only; what is true of the curves behind them is kept beside in
`curves`, and bytes nobody signed lead to curves nothing is known of.
Subtractions are those of a `u32` of `WordBits` bits.

*Ladders and chains.* One action is one iteration of a loop. An x-only point is
`{p, -p}`, and differential addition yields `NoPoint` from a difference that is
not its operands' own. An isogeny is the subgroup it divides by, which grows
along the chain. In `ThetaChain` a pair of points is the exponent of its order:
once as the code reckons it (`strategy`), once as it is (`torsion`).

*Arithmetic.* A thread calls an operation, the operation returns at once or
runs its loop an iteration at a time, and its result is compared with a
reference: whole numbers, the residue, the lattice generated, the group law.
Loop invariants are checked in every state of a loop. Random draws take every
value that they may (the coefficients of a short element, what represents a
norm), but for the coordinates of random ideals and of their twists: those take
every value for the norm 3, and the first, the middle and the last of each range
for the norm 5 (`Edges`). A panic is a result of its own (`Panicked`). The limbs,
the prime and the algebra are small; the formulas, the carries and the order of
the cases are the code's.

*Kept beside the data.* The L2 reduction keeps its Gram matrix and its rows r
and mu from step to step as the code does: a subtraction changes one row of mu in
place and one entry of r, an insertion copies the row that moved, and rows are
computed anew only where `extend_gso_family` is called. `ReductionKept` compares
them in every state with the rows that the columns have by then. Constants enter
the field as large as the code says they are (`Excess`): reduced, and larger by p,
2p (`FOUR` is about 2.4p) and 6p (`mulx_adx.rs:157-163` says up to about 7p). The
portable backend takes them as they are; an operation that needs less is not
asked of it (`Permits51`).

*What the abstractions hide.* The sign lost by x-only points appears in
`Ladder` and not in `SignVerify`, which takes a basis with its difference for
granted as `Ladder` shows it. The mathematics is assumed: that a kernel of the
right order has an isogeny, that the Deuring correspondence produces an ideal's
isogeny, and that theta coordinates compute what they say. A hint finds any of
`Bases`, which all have odd determinant as bases of the full torsion do; the
search itself is in `TorsionBases`, on actual curves. The floating-point
numbers of the L2 reduction are exact, and the probability that sign gives up
is not a question asked of the model.

## 3. Runs

Bounds are chosen so that the rare branch is reached; each property has a
mutant that shows its failure is within the bound.

| run | specification and properties | bounds, and why they are enough |
|---|---|---|
| OrchWebhook | `WebhookSpec`: DestroyOnlyDeregistered, NoJobKilled, WorkConsistent | 3 jobs, one of them not for the fleet; 3 names, limit 2; 1 fault. Stealing needs two jobs with equal labels and two Machines. |
| OrchSpawnRace | `SpawnSpec`: AtMostTwoPerJob | 1 job, room for 3 Machines, 2 faults: a third spawn would fit. |
| OrchReconciler | `ReconcilerSpec`: TypeOK, AtMostOnePerJob, HoldsHonoured | 2 jobs, 3 names, limit 2, 1 fault, holds of 1 and 2 sweeps. |
| OrchReaper | `DestroySpec`: KillsAreAged | 1 workflow run of 2 jobs, 2 names, 2 images, `max_age` 1, `hard_max_age` 3, 1 fault (the registry fallback): a spawn can resolve before the rollover and POST after a Machine of the new image is up. |
| OrchFair | `FairSpec`: MachinesGo, QueuedJobsServed | 1 job, 2 names, limit 1, 1 fault: the job must wait for a slot a crashed runner occupies. |
| OrchDoubleSpawn | `SpawnSpec`: AtMostOnePerJob is violated | finding 1 |
| OrchFallback | `DestroySpec`: OnlyStaleOrOld is violated | finding 2; as OrchReaper with `max_age` 2, `hard_max_age` 4 and jobs of 2; the step is the fallback's, whatever the ages are set to |
| OrchMaxAge | `DestroySpec`: EarlyJobsSurvive is violated | finding 3 |
| sign_verify | DegreesInRange, SplitKernelExact, EvenKernelExact, ChallengeKernelExact, SurvivesTheWire, VerifyShiftsFit, SignedIsAccepted, TypeOK | F = 7, E = 4, norm 9, 2 attempts of 2 samples, challenges 1 and 2. The ball then holds samples of every content and every degree that matters; `Actions` are all matrices of even determinant on E_0[2^r]; the six bases show every pair of parities; a word has 4 bits and a byte 3, so that wrapping and cutting can happen. |
| isogenies | LadderExact, DifferencesKnown, StrategyOrdersTrue, SmallChainOutcome, ImplementsWalk, ThetaStrategySound, FormsInOrder, TailHasItsPair, LoopsEnd, TypeOK | F = 7 and scalars of 8 bits: zero, one, all ones, both parities and bits above the order; exponents 1, 2, 3, 7; 0, 1, 2 and 6 backtracking doublings, so that the chain has every remainder; chains between surfaces of every length from 0 to 40. |
| computation | IntegersExact, GcdKept, ResiduesExact, BackendsAgree, HnfKept, QuaternionsExact, IdealsExact, ReductionKept, SuitableExact, CurvesExact, BasesAgree | below |
| montgomery_square | MontSquareExact is violated | finding 4 |

Bounds of `computation`: integers of three limbs of three bits, whose limbs
are 0, 1, 4 and 7 (none, one, the top bit, all ones, where carries, borrows and
estimated digits go wrong). The prime field is that of 2^17 - 1, in formats of
the same shape as the code's four, and every sequence of three operations, so
that each operation sees what two others leave unreduced. The algebra is
ramified at 31, 7 modulo 8 as the code's prime is, with three ideal classes;
moduli of the modular HNF stay below 2^22, norms of ideals at 15 and below,
suitable ideals have norms up to 7 and powers 2^2 to 2^6: the determinants and
Gram products of these fit TLC's 32-bit integers. The curves are over
p = 1279 = 5 * 2^8 - 1, of the form of the code's prime 5 * 2^248 - 1: E_0, a
curve with real coefficient, and three others, each with a basis of
E[2^8]; the hints include the fallback beyond the hint's range and coefficients
with no hint.

`CHECK_DEADLOCK FALSE` stands in `SignVerify.cfg` and `Isogenies.cfg`: a call
that returned has nothing left to do.

**Fairness.** `FairSpec` assumes weak fairness of each task, because tokio
polls every spawned task and every accepted request and each client call ends
in an answer or an error; weak fairness of booting, finishing, assigning,
pruning and auto-destroying, which the two services promise; and of the clock.
`PromptTick` lets the clock advance only when no Machine is booting and no
runner is waiting for a job GitHub could give it: boots and assignments take
less than a sweep interval. Without it the reaper could outrun every spawn.
Faults, lost deliveries, cancellations and rollovers are not fair. In
`Isogenies`, `WF_vars(Next)` says that a thread inside a loop goes on.

**An assumption on GitHub.** `RegisterAtMint` chooses whether
`generate-jitconfig` registers the runner at once (offline) or the runner
registers when it boots. The runs, and `DeregisterFirst`, have it TRUE, which
is how GitHub describes just-in-time runners. With FALSE a Machine that boots
after `handle_completed` found no registration can take a job under its
destroyer; the check `handle_completed` makes is only as good as this.

## 4. Proofs

Every safety property of the runs but those of `computation`, and of these
`IntegersExact` and `GcdKept`, is a theorem, for every value of the constants
that meets the modules' named ASSUMEs.

| theorem | states |
|---|---|
| OrchestratorProofs: `TypeCorrect`, `WorkStaysConsistent`, `DeregisterFirst`, `JobsSurvive` | TypeOK, WorkConsistent, DestroyOnlyDeregistered, NoJobKilled |
| OrchestratorProofs: `NeverThree`, `SweepNeverDoubles`, `HoldsAreHonoured`, `OnlyTheAgedAreKilled` | AtMostTwoPerJob, AtMostOnePerJob, HoldsHonoured, KillsAreAged |
| SignVerifyProofs: `TypeCorrect`, `DegreesStayInRange`, `SignaturesSurvive`, `ShiftsFit` | TypeOK, DegreesInRange, SurvivesTheWire, VerifyShiftsFit |
| SignVerifyProofs: `SplitKernels`, `EvenKernels`, `ChallengeKernels`, `SignedAccepted` | SplitKernelExact, EvenKernelExact, ChallengeKernelExact, SignedIsAccepted |
| IsogenyProofs: `LaddersAreExact`, `DifferencesAreKnown` | LadderExact, DifferencesKnown |
| IsogenyProofs: `OrdersAreTrue`, `OutcomeOfSmallChain`, `WalksAlongKernel`, `TypesHold` | StrategyOrdersTrue, SmallChainOutcome, the refinement of KernelWalk but for its fairness, TypeOK |
| IsogenyProofs: `StrategyIsSound`, `FormsComeInOrder`, `TailAlwaysHasItsPair` | ThetaStrategySound, FormsInOrder, TailHasItsPair |
| IntegerProofs: `IntegersAreExact`; GcdProofs: `GcdsAreKept` | IntegersExact; GcdKept |

Each inductive invariant was checked by TLC on the run's instance before it was
proved.

**Orchestrator** (`OrchestratorProofs`). `WorkStaysConsistent` needs a
strengthening: `WorkConsistent` is kept by a spawn only if the name it takes is
in no other hands. `Inv` says where a name may be in use at once (a handler that
minted it, a Machine, a registration) and is proved inductive with one lemma per
task. `DeregisterFirst` (under `RegisterAtMint`) and `JobsSurvive` follow.

**Numbers of Machines** (`OrchestratorProofs`). A bound on a job's Machines is not
inductive: it must count those still to come. `BothSpawn` says that the
Machines of a job, plus one while its queued webhook is not done, plus one
while the sweep has it to serve, are at most two; `SweepSpawns`, without the
webhook, at most one. Every step either keeps or loses Machines, turns one that
may come into one that is there, or puts a job with none into the sweep's
hands. `SpawnsTrue` ties each spawn in hand to its job: the name was minted for
it (`OwnersTrue`), the webhook comes once, and the sweep's job is not one it has
still to serve. `HoldsAreHonoured` ties the ledger's hold to the sweep's list,
and `OnlyTheAgedAreKilled` the reaper's candidates, listed long before they are
destroyed, to what chose them (`ReapsTrue`): an age past `hard_max_age`, or one
past `max_age` and a digest other than the sweep's. That digest is the registry's
at the time, so that the image has been superseded, or one that the sweep fell
back to; an older one then is that of a Machine in the listing which was created
after the one that is destroyed (`Overtaken`). The theorem has no way out for a
sweep that met a fault.

**Exponents and widths** (`SignVerifyProofs`). The inductive invariant is

    IInv == TypeOK /\ DegreesInRange /\ SignerInv /\ SignatureInv /\ WireInv /\ VerdictInv

`DegreesStayInRange` shows for every E and norm that a sample inside the ball
of radius (2^E - 1) * content whose norm passes the divisibility check has
`nbt + r < E`. So the three `u32` subtractions do not wrap, no divisor is zero,
and e' is at least 1: the branch of `sign` for e' = 0 is never taken. The
argument bounds 2^nbt first (the content's power of two, squared, times a norm
at least the shifted lattice content), then the degree. `SignaturesSurvive`
shows that the matrix has e' + r + 2 = E + 2 - nbt bits whatever bases the hints
find, so `from_bytes` takes it and the byte rounding of `M_CHL_COMP_BYTES` loses
nothing, provided E + 2 bits fit (`WireAssumption`, true for 126 and 16 bytes).
`ShiftsFit` covers every signature that parses.

**Kernels and acceptance** (`SignVerifyProofs`). A point of order dividing 2^t is
`At(t, x, y)`: the point x, y of the full torsion, seen t levels up
(`TorsionProofs`). Doubling lowers the level, combinations act on x and y, and
matrices on points are matrices modulo 2^t. On this rest: `FromBases` solves its
linear system; the even response acts as a matrix of determinant 2^r, of which
its dual is the adjugate, so that `EvenDual` undoes it up to r doublings; the
columns chosen by the parities generate the kernels. The invariant is

    RInv == IInv /\ ResponseInv /\ Received

where `ResponseInv` follows the bases on E_aux and E_chl from the (2,2)-chain to
the matrix and ends in `Promise`, the equation that a signature makes true of the
points of its two curves, and `Received` says what the verifier, given those
bytes, has computed at each of its steps. The challenge kernel is computed twice
in the code and twice in the model, by the signer from its own challenge and
backtracking (`ChallengeKernel`, `keys/mod.rs:136-139`) and by the verifier from
the two fields of the wire (`VerifierKernel`, `keys/verifying.rs:122-126`):
`ChallengeKernels` says that each has the order of its chain, the verifier's on
any bytes that it goes on with, and that on the signer's bytes they are the same
point. `SignedAccepted` is the theorem a
reader of the protocol wants first: verify accepts whatever sign returns, for
every F and E, every sample, every action of alpha and every basis a hint finds.

**Ladders** (`IsogenyProofs`). `LInv` has a part for each loop. In `scalar_mul`
the two registers are h and h + 1 times P, h being the scalar's top bits, in an
order that the last bit tells. In `scalar_mul_add` the three are 2^i P', P + the
low bits, and their difference. In `biscalar_mul` the recoding keeps which of
the two scalars comes first and writes the changes of their bits; the evaluation
reads them back from the top, and its seven registers are the combinations
around the prefixes of both scalars, differences included, so that every
differential addition has the difference it is given. Zero and even scalars,
which are made odd first, come out by the register that the parities choose.
A difference is usable because one of the prefixes is odd.

**Chains between curves** (`IsogenyProofs`). `Multiples(i, x, y)` is the kernel
as far as i levels. `ChainInv` says that the curve reached is the first divided
by `Multiples(2j)` (or `j` in the short chain), that each point of the strategy
is the one at level `orders[i] + 2j`, and that the last orders are even and fall.
A point of level t is in `Multiples(i)` exactly when t <= i, if one of its
coordinates is odd (`NotBefore`): so the orders reckoned are the orders there
are, each isogeny takes the next levels of one cyclic kernel and no others, and
`isogeny_small` meets the identity exactly when both scalars were even, where
the kernel is too small (`TooSmall`, by counting). Together these give
`WalksAlongKernel`, `Spec => Promise!Steps`: initial states map to initial
states, and every step to a step of `KernelWalk` or a stutter.

**Chains between surfaces.** `ThetaInv` ties the strategy to the countdown
beside it: the number of isogenies done plus the order of the first pair is the
order the chain began with. That is why the forms come at the right steps, and
why the two early returns at the end of `isogeny_inner_no_extra_torsion` are
dead code.

**Integers** (`LimbProofs`, `IntegerProofs`). `NumbersSpec` is a thread that calls the
operations of `Numbers` on operands of any width, any sign and any limbs, and
`IntegersAreExact` says of it that every result is the one of the integers the
limbs stand for, cut to the width where the code cuts it, and zero never
negative. The state machine's part of the invariant is small,

    NumbersInv == /\ call \in NumberCalls \cup {NoCall}
                  /\ call = NoCall => result = NoResult
                  /\ IntegersExact

and the proof is in the operations. A function defined by recursion on limbs is
unfolded once, by a lemma that it exists and has its equations (`Recursion`),
and each loop has its invariant, kept from round to round by `SetInduction`:

- *sums and differences*: the low i limbs of the result and the carry into limb
  i stand for the sum of the low i columns (`CarriesAre`, `BorrowsAre`);
- *rows*: after i rows the array and what has left it are the product by the low
  i limbs (`RowCarried`, `RowsAdd`), and the short rows, cut where the operands
  end, are the same number (`ShortRowsAre`);
- *columns*: the sum of a column and what the column before left over fits
  three registers (`ColumnFits`), so that nothing is lost between them
  (`AccumulatorsAre`);
- *the two carry chains of the ADX kernel*: the array with both flags, each at
  its own limb, is the sum so far (`AdxStepsAre`);
- *squares*: half the products, doubled, and the diagonal are all of them
  (`TriangleColumns`, `SquareIs`, `SquareAdxIs`);
- *long division*: the estimate of a digit, corrected by the second limb of the
  divisor, is the digit or one more (`QHatIs`, for every base: Knuth's theorem);
  the borrow says which (`DigitTried`); after i digits the dividend is what is
  left plus the digits times the divisor (`DigitRounds`, `MagDivRemIs`). The
  division a bit at a time has the same result (`BitwiseIs`).

The assumption `N <= Base` is what the three registers of a column need: at the
code's widths, tens of limbs of 64 bits, it holds by a wide margin.

**Greatest common divisors** (`GcdProofs`). `Common(x, y)` is the set of common
divisors. `GcdIs` says that Euclid's algorithm ends in the number whose divisors
they are, and `GcdOnce` that there is one such number; so a loop that keeps the
set keeps the gcd, and that is what the three loops do:

- *Stein* takes the odd part of the larger operand, which loses no divisor of an
  odd one (`SteinSteps`), and puts the common power of two back (`SteinEnds`);
- *Lehmer* folds quotients of the leading words into a matrix. `SureIs` says that a
  quotient on which both bounds agree is the quotient of the whole numbers,
  whatever the limbs below; its entries have one sign each and fit a word, its
  determinant is 1 or -1, and its rows give the next two remainders of the
  numbers themselves (`CofactorsAre`, `CofactorRowIs`), which do not go negative.
  A matrix of that determinant keeps the common divisors (`MatrixIs`);
- *xgcd* keeps the rows that express its registers by the operands, with
  cofactors that never pass the operands, so that the narrower width that it
  chooses holds them (`XgcdWidthIs`, `XgcdSteps`); the inverse follows
  (`InverseIs`).

The invariant is `GcdInv`: a call's operands, its running loop (`LoopKept`) and
what it has returned (`GcdReturned`).

**Powers of two, induction and recursion.** `Powers` derives 2^(n+1) = 2 * 2^n
from the number of subsets of 1..n. The provers cannot use the library's
induction rule, which takes a predicate; `SetInduction` says the same of a set
of numbers and follows from the well-foundedness of <, and `Recursion` says that
a recursion has a function, given as a function of the last value and the
round. What is proved about recursive definitions rests on these two.

**What the theorems assume.** `FAssumption`, F positive; `LadderAssumption`,
F > 1, a scalar wider than F bits, and exponents in 1..F (the code's F is 248,
its scalars have 256 bits); `SigningAssumption`: challenges are natural numbers
(scalars), and every basis a hint finds spans the full torsion and has the
difference of its generators in its third slot (`curves/mod.rs:285-321` makes it
so); `WireAssumption` above; `BacktrackingAssumption`, at most F doublings;
`FleetAssumption`, the shapes of the tables.

**Only model-checked.**
- *Liveness*: MachinesGo, QueuedJobsServed, LoopsEnd, and the fairness half of
  ImplementsWalk. Liveness under fairness and ENABLED are beyond this prover.
- *Nine properties of `computation`*. ResiduesExact, BackendsAgree,
  HnfKept, QuaternionsExact, IdealsExact, ReductionKept, SuitableExact,
  CurvesExact and BasesAgree are about recursions too, each of which would need
  its lemmas by `SetInduction` as the integers did. Beyond that, residues and
  fields need a theory of primes, and lattices and curves are compared with references (a lattice
  generated, the chord and tangent law) whose equations have degrees that the
  SMT solver does not decide.

## 5. Findings

1. *A job may get two Machines* (OrchDoubleSpawn). `reconciler.rs:19-21` says a
   job being served "is never double-spawned"; the listing the sweep checks
   names in is taken before it mints, resolves and POSTs, and a webhook handler
   may spawn in between. AtMostTwoPerJob is what does hold (`NeverThree`).
2. *A sweep that falls back may destroy the current image* (OrchFallback).
   `reaper.rs:36-37` says the reaper destroys "stale-image and over-hard-age
   Machines". When the registry does not answer, the reference is the digest of
   the Machine created last (`reaper.rs:160-169`). A spawn that resolved its
   digest before a rollover and POSTs after a Machine of the new image is up
   makes that digest the old one, and the sweep destroys the Machine of the
   current image, short of `hard_max_age`, with its job. `KillsAreAged` says
   what does hold: the digest fallen back to is that of a younger Machine.
3. *The stale-image rule reaches running jobs* (OrchMaxAge). `fly.rs:120-121`
   asks for a `max_age` above the longest job; the default is 45 minutes beside
   jobs of up to 240.
4. *`MontReducer::square` loses a carry* (montgomery_square). `reduce_wide`
   (`bigint/modular.rs:309`) adds the carry of a round to the next limb of the
   square with `wrapping_add`; when that limb is all ones the carry is lost. At
   the code's width: N = 2, n = 2^128 - 1, a = n - 1 gives 0 instead of 1.

Other disagreements between comments, docs and code, met while modelling, that
no run is about. In the orchestrator:

- `infra/README.md:153` says that the sweep spawns "for each queued `fly` job";
  `github.rs:121` walks only runs that are queued, and a run with a job in
  progress is not. The listing is modelled so; such a job waits for its run.
- `reaper.rs:22-24` says that a Machine past `hard_max_age` "cannot be running a
  legitimate job", and `fly.rs:474-475` that the reaper only targets Machines "it
  has already classified as zombies". The age is that of the Machine, not of its
  job: a runner that waited for its job takes it with it, however short the job
  is. `KillsAreAged` allows these kills, and `DestroySpec` takes such steps.
- `reaper.rs:81-83` says that a failed resolve "disables only the stale-image
  rule"; the sweep then goes by the fallback, and the rule is off only when that
  finds no Machine.

In the field and the curves:

- The constants of `Fp51` are not below 2p, which `Add`, `Sub`, `Neg` and `Mul`
  take their operands to be (`generic.rs:507`, `532`, `562`): `FOUR`
  (`generic.rs:88-94`) is about 2.4p. A product takes it; a difference, or
  -FOUR, leaves a negative top limb and encodes as another element. Only tests
  use it so. `BackendsAgree` admits each constant where the code's arithmetic is
  right (`Permits51`), names that exception and admits no other.
- `mulx_adx.rs:157-163` puts the named constants at up to about 7p; the largest is
  2.4p, for which two of the sixteen subtractions do. `mulx_adx.rs:308` has operands
  and results in [0, p), against the lazy [0, 2p) of 60-66.

- `Fp2::sqrt` (`fields/fp2/mod.rs:168-203`, documented at 120-165) returns 0 for
  every real number that is not a square of F_p, though each is a square of
  F_{p^2}. `recover_y`, `lift`, `projective_difference`, `from_bases` and
  `TwoIsogenySingular::from_curve` on E_0 inherit it. `CurvesExact` names this
  exception and admits no other.
- `JacobianPoint::x_add_sub` (`montgomery/jacobian.rs:168-225`) returns
  x(P - Q), x(P + Q); its doc (172-175) and the comment at 212 have them the
  other way round. `gluing.rs:489` has the signs right; `pairing.rs:474-477` and
  `surfaces/mod.rs:470-471` call it.
- `isogeny/mod.rs:233-235` says a singular kernel is handled correctly by a
  4-isogeny; with a kernel above (0, 0) the codomain has A = -2, which is
  singular. Verification does not come to it.
- `curves/mod.rs:221-230`, 264, 299 and 805-813 say that the Q slot lies above
  (0, 0) on curves other than E_0; it is the PmQ slot there, and Q on E_0.
- `projective_difference` is called deterministic and projectively invariant
  (`point.rs:214-226`); it is not, as `to_hint`'s comment
  (`curves/mod.rs:842-854`) admits.
- `from_bases` fails when a reduced generator coincides up to sign with a
  canonical one, and for e = 1; differential addition means nothing when the
  difference is the identity or (0, 0). The reduced Tate pairing at level e has
  order 2^(2e - f), the Weil pairing 2^(2e - f - 1).

In sign and verify:

- `keys/mod.rs:357` and `457-460` describe the challenge matrix by rows and a
  projective difference; `ChangeOfBasisMatrix::mul` applies columns and
  computes the difference by a third `biscalar_mul` (`curves/mod.rs:1067-1094`).
- `signing.rs:103-115` states M_sk the other way round: the matrix that
  `from_bases(eval_basis, basis_pk)` returns takes the evaluated basis to that
  of the public key.
- `keys/verifying.rs:39` calls canonical an encoding that is the bytes as given.
- `signing.rs:613-615` speaks of a `u64` that no longer exists.
- the branch of `sign` for e' = 0 is dead (`DegreesStayInRange`), and so are the
  checks for `last_step` and `last_kernel` (`TailAlwaysHasItsPair`).
- `biscalar_mul` makes even scalars odd before it recodes them; with `SubOne`
  replaced by the identity TLC finds the same results on the whole instance, for
  the output register is chosen from the parities of the original scalars.
- `isogeny_small`'s order test accepts a generator whose order is too small.
- the doc of the chain with extra torsion (`surfaces/mod.rs:577-582`) says that
  all its steps use the normal form (bool_1 = 0, bool_2 = 1); the comment at
  822-829 and the code give the last two steps their own forms whatever the
  torsion, and `FormsInOrder` says what the code does.
- `gcd.rs:157-159` says of Lehmer's cofactors that a00 and a11 stay non-negative, a01
  and a10 non-positive; their signs change with every step (`Taken`).
- `signing.rs:1228-1231` says that `vt_mod` truncates toward zero and gives
  negative remainders; it returns the remainder of `vt_div_rem`
  (`modular.rs:587`), which is Euclidean, as `IntegersAreExact` proves. The
  branch that adds the modulus is dead.
- `surfaces/mod.rs` says that the isotropy check is never in release builds;
  `verifying.rs:284` calls it in every build.

In the quaternions, several comments report wrong lattices from routines that
`HnfKept`, `QuaternionsExact` and `IdealsExact` find equal to their reference on
every instance. The models compute on whole numbers, so what the comments saw may
be a working width exceeded in the code as it was then, which these properties do
not speak of:

- `lattice.rs:433-440`: the non-modular normal form "produces a strict
  superlattice"; `lattice.rs:699-705`: the decreasing modulus "produces a
  different canonical HNF". All three forms are of one lattice here (`HnfKept`).
- `signing.rs:798-804`, `1102-1108` and `lattice.rs:389-391`: the intersection by
  a kernel gives a different Z-module than that by duals. The two agree
  (`QuaternionsExact`).
- `lattice.rs:884-893`: a product under a modulus that is a multiple of the
  covolume is a coarser sublattice. It is the same lattice (`QuaternionsExact`).
- `signing.rs:1003-1015`: "KNOWN BUG: this `from_generator_mod_hnf` produces a
  lattice whose canonical HNF differs". All three constructors give one ideal
  (`IdealsExact`).

And elsewhere in them:

- `represent_integer.rs:15`, `20-23` and `41` promise nrd = M. With
  `isogeny_cond` false, as `represent_integer_any` calls it (31-34), an order with
  q > 1 takes the solutions of norm 4M whose content is 1 and returns them as they
  are. `IdealsExact` names the exception.
- `lattice.rs:1389-1400` says that `canonicalize` reduces the off-diagonal
  entries; it takes rows for columns, and leaves a form in HNF as it is.
- `hnf.rs:406` says that `sum_mod` uses the variant with a shrinking modulus; it
  does not. The covolume in the comments of the HNF lacks the prime's place:
  actual d^4 N^2 / 4.
- `n30.rs:47-55` says `from_generator_mod_hnf` returns `None` when the
  denominators differ; the code rescales.
- `represent_integer`'s doc has t in [-m', m'], the code 1..t_max.
- lattices of opposite-sign denominators compare unequal.
- `left_ideal.rs:604` and `smallest_equiv.rs:457` build the ideal from two
  generators; that holds only for an element whose norm over the ideal's is
  coprime to it.
- `suitable_ideals.rs`: the norm claimed at 47-55 is not that of the element
  after it is carried to another order; 946-953 says a vector is never paired
  with itself, which it is; 279-282 and 390 differ on the diagonal; the sign
  test at 255-260 tests nothing when both coefficients are zero.
- `ideal/tests.rs:557-559` speaks of 246 and 137 and asserts 272 and 136;
  694-711 describes a pushforward and computes another product.
- `deuring/mod.rs:404-412` says pairs across orders are always decomposed on
  O_0; step 14 (795) decomposes beta_1 on O_s.

## 6. Not modelled

*Mathematics that is assumed*: theta coordinates and gluing matrices, the
splitting, the Deuring correspondence (the control of `to_isogeny` and of the
fixed-degree isogenies is decided by which of these succeed, so that a model of
it alone would say nothing), the pushforward of ideals.
*External functions*: SHAKE and AES. The DRBG is a counter around AES; the
counter is what is left of it.
*Encodings*: the signing key's layout, which has none of the signature's
rounding, and the bytes of field elements. Key generation is a retry loop like
sign's with one exit.
*Numbers*: the extended-range floating point of the reduction is exact here,
and no probability is claimed.
*I/O and data*: configuration, secrets, HTTP, HMAC, TOML, tables, known answers,
workflows, scripts.

## 7. What is left

1. *Proofs above the integers*: the Montgomery rows, which are rows of
   `LimbProofs` with one more term, and the limbs of the field's backends.
2. *An abstract signature scheme*: `SignVerify` as an implementation of
   "sign, then accepted", under a refinement mapping; `SignedAccepted` is its
   core.
3. *The DRBG and the signing key's layout*, if they come to hold more than a
   counter and offsets.
