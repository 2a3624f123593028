----------------------------- MODULE Reconciler -----------------------------
(***************************************************************************)
(* The reconcile loop (infra/orchestrator/src/reconciler.rs): list the     *)
(* queued fly jobs, subtract those with a live Machine or in backoff, and  *)
(* spawn a runner for each job left, one API call at a time.               *)
(***************************************************************************)
EXTENDS Fleet

SweepAt(pc) == rc.pc = pc
SweepOver   == rc' = [IdleSweep EXCEPT !.pc = "sleep"]

-----------------------------------------------------------------------------
(* SpawnLedger *)

MutHold(count) == <<2, 4, 8, 16, 32>>[count]

\* Hold after the count-th spawn, in sweep intervals: 2^count, capped.  The
\* real cap of 30 intervals is reached at the fifth, where counts saturate.
Hold(count) == CapAt(<<2, 4, 8, 16, 32>>[count], MaxBackoff)

MutAllows(j) == TRUE

Allows(j) == ledger[j].left = 0

\* The ledger after a spawn for j recorded at the sweep's own `now`, which
\* is rc.since ticks in the past.
Recorded(j) ==
    LET count == CapAt(ledger[j].count + 1, CountCap)
        hold  == Hold(count)
    IN  [ledger EXCEPT ![j] =
            [count |-> count, left |-> IF hold > rc.since THEN hold - rc.since ELSE 0]]

Retained(queued) ==
    [j \in Jobs |-> IF j \in queued THEN ledger[j] ELSE [count |-> 0, left |-> 0]]

-----------------------------------------------------------------------------
(* The sweep *)

\* GET /actions/runs?status=queued.  An error ends the sweep.
ListRuns ==
    /\ SweepAt("ready")
    /\ \/ rc' = [rc EXCEPT !.pc = "jobs", !.runs = QueuedRuns] /\ UNCHANGED faults
       \/ Fault /\ SweepOver
    /\ UNCHANGED <<jobs, runner, machine, owner, work, image, age, ran, latest,
                   qh, ch, ledger, rp>>

QueuedFlyJobs(r) == {j \in FlyJobs : RunOf[j] = r /\ jobs[j] = "queued"}

\* GET /actions/runs/{r}/jobs for one of the listed runs.
ListJobs(r) ==
    /\ SweepAt("jobs") /\ r \in rc.runs
    /\ \/ /\ rc' = [rc EXCEPT !.runs = @ \ {r}, !.queued = @ \cup QueuedFlyJobs(r)]
          /\ UNCHANGED faults
       \/ Fault /\ SweepOver
    /\ UNCHANGED <<jobs, runner, machine, owner, work, image, age, ran, latest,
                   qh, ch, ledger, rp>>

MutServedNone == {}

MutServedForever == {owner[n] : n \in Names}

\* Jobs some live Machine's name says it was spawned for.
Served == {owner[n] : n \in Live}

\* Those of the queued jobs q that the sweep will spawn for.
Missing(q) == {j \in q \ Served : Allows(j)}

\* retain, then list_machines and the partition into missing and held.
ListMachines ==
    /\ SweepAt("jobs") /\ rc.runs = {}
    /\ ledger' = Retained(rc.queued)
    /\ \/ /\ rc.queued # {} /\ Missing(rc.queued) # {}
          /\ rc' = [rc EXCEPT !.pc = "mint", !.missing = Missing(rc.queued), !.since = 0]
          /\ UNCHANGED faults
       \/ /\ Missing(rc.queued) = {}
          /\ SweepOver /\ UNCHANGED faults
       \/ rc.queued # {} /\ Fault /\ SweepOver
    /\ UNCHANGED <<jobs, runner, machine, owner, work, image, age, ran, latest,
                   qh, ch, rp>>

\* Where the loop over missing goes after the current job.
NextJob(left) ==
    rc' = IF left = {} THEN [IdleSweep EXCEPT !.pc = "sleep"]
          ELSE [rc EXCEPT !.pc = "mint", !.missing = left, !.job = NoJob, !.name = NoName]

SweepMint(j) ==
    /\ SweepAt("mint") /\ j \in rc.missing
    /\ \/ \E n \in Names :
            /\ Minted(n, j)
            /\ rc' = [rc EXCEPT !.pc = "resolve", !.missing = @ \ {j},
                                !.job = j, !.name = n]
            /\ UNCHANGED faults
       \/ Fault /\ NextJob(rc.missing \ {j}) /\ UNCHANGED <<owner, runner>>
    /\ UNCHANGED <<jobs, machine, work, image, age, ran, latest, qh, ch, ledger, rp>>

SweepResolve ==
    /\ SweepAt("resolve")
    /\ \/ rc' = [rc EXCEPT !.pc = "post", !.img = latest] /\ UNCHANGED faults
       \/ Fault /\ NextJob(rc.missing)
    /\ UNCHANGED <<jobs, runner, machine, owner, work, image, age, ran, latest,
                   qh, ch, ledger, rp>>

\* Spawned is recorded; AtCapacity ends the sweep; an error moves on to the
\* next job unrecorded, though the Machine may exist.
SweepPost ==
    /\ SweepAt("post")
    /\ \/ /\ AtCapacity
          /\ SweepOver
          /\ UNCHANGED <<machine, image, age, ledger, faults>>
       \/ /\ ~AtCapacity
          /\ Created(rc.name, rc.img)
          /\ NextJob(rc.missing)
          /\ \/ ledger' = Recorded(rc.job) /\ UNCHANGED faults
             \/ Fault /\ UNCHANGED ledger
       \/ /\ Fault /\ NextJob(rc.missing)
          /\ UNCHANGED <<machine, image, age, ledger>>
    /\ UNCHANGED <<jobs, runner, owner, work, ran, latest, qh, ch, rp>>

ReconcilerStep ==
    \/ ListRuns \/ ListMachines \/ SweepResolve \/ SweepPost
    \/ \E r \in Runs : ListJobs(r)
    \/ \E j \in Jobs : SweepMint(j)
=============================================================================
