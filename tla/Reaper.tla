------------------------------- MODULE Reaper -------------------------------
(***************************************************************************)
(* The reaper (infra/orchestrator/src/reaper.rs): list the Machines,       *)
(* resolve the canonical digest, classify by digest and age, and           *)
(* force-destroy each candidate.  Unlike the completed handler it asks     *)
(* nobody whether the runner inside is busy.                               *)
(***************************************************************************)
EXTENDS Fleet

ReapAt(pc) == rp.pc = pc
ReapOver   == rp' = [IdleReap EXCEPT !.pc = "sleep"]

ReapList ==
    /\ ReapAt("ready")
    /\ \/ rp' = [rp EXCEPT !.pc = "resolve", !.seen = Live] /\ UNCHANGED faults
       \/ Fault /\ ReapOver
    /\ UNCHANGED <<jobs, runner, machine, owner, work, image, age, ran, latest,
                   qh, ch, rc, ledger>>

\* Variant: the oldest spawn decides.
MutNewestSpawnDigests ==
    {image[n] : n \in {m \in rp.seen : \A k \in rp.seen : age[m] >= age[k]}}

\* Images the fallback may take as canonical: those of a youngest Machine
\* of the listing.
NewestSpawnDigests ==
    {image[n] : n \in {m \in rp.seen : \A k \in rp.seen : age[m] <= age[k]}}

Stale(n, canonical) == image[n] # canonical /\ age[n] >= MaxAge

MutNoHardAge(n) == FALSE

OverHardAge(n) == age[n] >= HardMaxAge

Candidates(canonical) == {n \in rp.seen : Stale(n, canonical) \/ OverHardAge(n)}

Classified(canonical) ==
    IF Candidates(canonical) = {} THEN ReapOver
    ELSE rp' = [rp EXCEPT !.pc = "destroy", !.todo = Candidates(canonical),
                          !.canonical = canonical]

\* Registry digest first, the newest spawn's digest if the registry fails.
ReapResolve ==
    /\ ReapAt("resolve")
    /\ \/ Classified(latest) /\ UNCHANGED faults
       \/ /\ Fault
          /\ IF rp.seen = {} THEN ReapOver
             ELSE \E d \in NewestSpawnDigests : Classified(d)
    /\ UNCHANGED <<jobs, runner, machine, owner, work, image, age, ran, latest,
                   qh, ch, rc, ledger>>

\* destroy_machine on the next candidate; errors are logged and passed over.
ReapDestroy(n) ==
    /\ ReapAt("destroy") /\ n \in rp.todo
    /\ IF rp.todo = {n} THEN ReapOver ELSE rp' = [rp EXCEPT !.todo = @ \ {n}]
    /\ \/ Destroyed(n, ch) /\ UNCHANGED faults
       \/ Fault /\ UNCHANGED <<jobs, runner, machine, work, ch>>
    /\ UNCHANGED <<owner, image, age, ran, latest, qh, rc, ledger>>

ReaperStep == ReapList \/ ReapResolve \/ \E n \in Names : ReapDestroy(n)
=============================================================================
