------------------------------- MODULE Fleet -------------------------------
(***************************************************************************)
(* The world the CI orchestrator (infra/orchestrator) acts on: GitHub's    *)
(* workflow jobs and runner registrations, Fly's Machines, the clock, and  *)
(* the webhook deliveries in flight.  None of it is orchestrator code; it  *)
(* is modelled from what the orchestrator's API calls rely on.             *)
(*                                                                         *)
(* The module also declares the orchestrator's own variables, so that the  *)
(* Webhook, Reconciler and Reaper modules can each define their steps over *)
(* one shared state and Orchestrator can compose them.                     *)
(*                                                                         *)
(* A Name is a Machine name fly-{job}-{millis}; GitHub's registration of   *)
(* the runner inside carries the same name.  Names are recycled once       *)
(* neither side nor any handler remembers them.                            *)
(***************************************************************************)
EXTENDS Naturals, FiniteSets

CONSTANTS
    Jobs,           \* workflow jobs
    Runs,           \* workflow runs
    RunOf,          \* the run each job belongs to
    LabelOf,        \* the runs-on labels of each job, as one value
    FlyJobs,        \* the jobs whose labels include "fly"
    Names,          \* Machine names
    NoName, NoJob,
    MachineLimit,   \* Fly's org-wide Machine limit
    MaxAge,         \* reaper max_age, in ticks
    HardMaxAge,     \* reaper hard_max_age, in ticks
    JobTimeout,     \* the longest a job may run, in ticks
    MaxBackoff,     \* MAX_BACKOFF, in sweep intervals
    MaxImage,       \* bound on image rollovers
    MaxFaults,      \* bound on failed calls, lost deliveries and crashes
    RegisterAtMint  \* TRUE: generate-jitconfig registers the runner, offline;
                    \* FALSE: the runner registers itself when it boots

ASSUME FleetAssumption ==
    /\ RunOf \in [Jobs -> Runs]
    /\ FlyJobs \subseteq Jobs
    /\ NoName \notin Names
    /\ NoJob \notin Jobs
    /\ MachineLimit \in Nat /\ MaxAge \in Nat /\ HardMaxAge \in Nat
    /\ JobTimeout \in Nat /\ MaxBackoff \in 1..32
    /\ MaxImage \in Nat \ {0} /\ MaxFaults \in Nat
    /\ RegisterAtMint \in BOOLEAN

VARIABLES
    jobs,     \* GitHub: status of each job
    runner,   \* GitHub: registration of the runner with each name
    machine,  \* Fly: state of the Machine with each name
    owner,    \* the job the Machine was spawned for (encoded in its name)
    work,     \* the job the runner is running
    image,    \* the digest the Machine was created with
    age,      \* ticks since the Machine was created
    ran,      \* ticks the current job has run
    latest,   \* the digest the registry's :latest tag points to
    faults,   \* failures so far
    qh,       \* "queued" webhook of each job: delivery, then handler
    ch,       \* "completed" webhook of each job: delivery, then handler
    rc,       \* the reconciler task
    ledger,   \* the reconciler's SpawnLedger
    rp        \* the reaper task

envVars == <<jobs, runner, machine, owner, work, image, age, ran, latest, faults>>
vars == <<jobs, runner, machine, owner, work, image, age, ran, latest, faults,
          qh, ch, rc, ledger, rp>>

-----------------------------------------------------------------------------
AgeCap   == HardMaxAge + JobTimeout   \* ages saturate here
CountCap == 5                         \* attempt counts saturate here

JobStates     == {"unborn", "queued", "running", "done", "killed"}
RunnerStates  == {"none", "offline", "idle", "busy"}
MachineStates == {"none", "booting", "up", "zombie"}

QueuedPC    == {"none", "inflight", "resolve", "post", "done"}
CompletedPC == {"none", "inflight", "lookup", "deregister", "destroy", "done"}
SweepPC     == {"ready", "jobs", "mint", "resolve", "post", "sleep"}
ReapPC      == {"ready", "resolve", "destroy", "sleep"}

Live == {n \in Names : machine[n] # "none"}

CapAt(x, cap) == IF x < cap THEN x ELSE cap

IdleSweep == [pc |-> "ready", runs |-> {}, queued |-> {}, missing |-> {},
              job |-> NoJob, name |-> NoName, img |-> 1, since |-> 0]
IdleReap  == [pc |-> "ready", seen |-> {}, todo |-> {}, canonical |-> 1]

\* Every variable stays in its type.
TypeOK ==
    /\ jobs \in [Jobs -> JobStates]
    /\ runner \in [Names -> RunnerStates]
    /\ machine \in [Names -> MachineStates]
    /\ owner \in [Names -> Jobs \cup {NoJob}]
    /\ work \in [Names -> Jobs \cup {NoJob}]
    /\ image \in [Names -> 1..MaxImage]
    /\ age \in [Names -> 0..AgeCap]
    /\ ran \in [Names -> 0..JobTimeout]
    /\ latest \in 1..MaxImage
    /\ faults \in 0..MaxFaults
    /\ qh \in [Jobs -> [pc: QueuedPC, name: Names \cup {NoName}, img: 1..MaxImage]]
    /\ ch \in [Jobs -> [pc: CompletedPC, name: Names \cup {NoName}]]
    /\ rc \in [pc: SweepPC, runs: SUBSET Runs, queued: SUBSET Jobs,
               missing: SUBSET Jobs, job: Jobs \cup {NoJob},
               name: Names \cup {NoName}, img: 1..MaxImage, since: 0..MaxBackoff]
    /\ ledger \in [Jobs -> [count: 0..CountCap, left: 0..MaxBackoff]]
    /\ rp \in [pc: ReapPC, seen: SUBSET Names, todo: SUBSET Names,
               canonical: 1..MaxImage]

Init ==
    /\ jobs = [j \in Jobs |-> "unborn"]
    /\ runner = [n \in Names |-> "none"]
    /\ machine = [n \in Names |-> "none"]
    /\ owner = [n \in Names |-> NoJob]
    /\ work = [n \in Names |-> NoJob]
    /\ image = [n \in Names |-> 1]
    /\ age = [n \in Names |-> 0]
    /\ ran = [n \in Names |-> 0]
    /\ latest = 1
    /\ faults = 0
    /\ qh = [j \in Jobs |-> [pc |-> "none", name |-> NoName, img |-> 1]]
    /\ ch = [j \in Jobs |-> [pc |-> "none", name |-> NoName]]
    /\ rc = IdleSweep
    /\ ledger = [j \in Jobs |-> [count |-> 0, left |-> 0]]
    /\ rp = IdleReap

-----------------------------------------------------------------------------
(* Names *)

\* Some handler or sweep still refers to the name.
Held(n) ==
    \/ \E j \in Jobs : qh[j].name = n \/ ch[j].name = n
    \/ rc.name = n
    \/ n \in rp.seen \cup rp.todo

Fresh(n) == machine[n] = "none" /\ runner[n] = "none" /\ ~Held(n)

\* A step that may fail, charged against the fault bound.
Fault == faults < MaxFaults /\ faults' = faults + 1

-----------------------------------------------------------------------------
(* GitHub: jobs, runs, and the webhook deliveries they cause *)

\* A run counts as queued while it has a queued job and none running.
QueuedRuns ==
    {r \in Runs : /\ \E j \in Jobs : RunOf[j] = r /\ jobs[j] = "queued"
                  /\ \A j \in Jobs : RunOf[j] = r => jobs[j] # "running"}

Deliver(h, j) == [h EXCEPT ![j].pc = "inflight"]

JobQueued(j) ==
    /\ jobs[j] = "unborn"
    /\ jobs' = [jobs EXCEPT ![j] = "queued"]
    /\ qh' = Deliver(qh, j)
    /\ UNCHANGED <<runner, machine, owner, work, image, age, ran, latest, faults,
                   ch, rc, ledger, rp>>

JobCancelled(j) ==
    /\ jobs[j] = "queued"
    /\ jobs' = [jobs EXCEPT ![j] = "done"]
    /\ ch' = Deliver(ch, j)
    /\ UNCHANGED <<runner, machine, owner, work, image, age, ran, latest, faults,
                   qh, rc, ledger, rp>>

\* A job without the fly label runs on a GitHub-hosted runner.
HostedJob(j) ==
    /\ j \notin FlyJobs
    /\ \/ /\ jobs[j] = "queued"
          /\ jobs' = [jobs EXCEPT ![j] = "running"]
          /\ UNCHANGED ch
       \/ /\ jobs[j] = "running"
          /\ jobs' = [jobs EXCEPT ![j] = "done"]
          /\ ch' = Deliver(ch, j)
    /\ UNCHANGED <<runner, machine, owner, work, image, age, ran, latest, faults,
                   qh, rc, ledger, rp>>

\* GitHub hands an idle runner any queued job with the same labels, not
\* necessarily the one it was spawned for (job-stealing).
Assign(n, j) ==
    /\ runner[n] = "idle"
    /\ jobs[j] = "queued" /\ j \in FlyJobs /\ LabelOf[j] = LabelOf[owner[n]]
    /\ runner' = [runner EXCEPT ![n] = "busy"]
    /\ work' = [work EXCEPT ![n] = j]
    /\ ran' = [ran EXCEPT ![n] = 0]
    /\ jobs' = [jobs EXCEPT ![j] = "running"]
    /\ UNCHANGED <<machine, owner, image, age, latest, faults, qh, ch, rc, ledger, rp>>

LoseDelivery(j) ==
    /\ Fault
    /\ \/ qh[j].pc = "inflight" /\ qh' = [qh EXCEPT ![j].pc = "done"] /\ UNCHANGED ch
       \/ ch[j].pc = "inflight" /\ ch' = [ch EXCEPT ![j].pc = "done"] /\ UNCHANGED qh
    /\ UNCHANGED <<jobs, runner, machine, owner, work, image, age, ran, latest,
                   rc, ledger, rp>>

\* GitHub forgets a registration whose Machine never came to exist.
Prune(n) ==
    /\ runner[n] = "offline" /\ machine[n] = "none" /\ ~Held(n)
    /\ runner' = [runner EXCEPT ![n] = "none"]
    /\ UNCHANGED <<jobs, machine, owner, work, image, age, ran, latest, faults,
                   qh, ch, rc, ledger, rp>>

-----------------------------------------------------------------------------
(* Fly: the Machine and the ephemeral runner in it *)

Boot(n) ==
    /\ machine[n] = "booting"
    /\ runner[n] = IF RegisterAtMint THEN "offline" ELSE "none"
    /\ machine' = [machine EXCEPT ![n] = "up"]
    /\ runner' = [runner EXCEPT ![n] = "idle"]
    /\ UNCHANGED <<jobs, owner, work, image, age, ran, latest, faults,
                   qh, ch, rc, ledger, rp>>

\* The runner exits without registering: broken image, deprecated version,
\* or a registration that was deleted under it.
BootFails(n) ==
    /\ machine[n] = "booting"
    /\ \/ Fault
       \/ RegisterAtMint /\ runner[n] = "none" /\ UNCHANGED faults
    /\ machine' = [machine EXCEPT ![n] = "none"]
    /\ runner' = [runner EXCEPT ![n] = "none"]
    /\ UNCHANGED <<jobs, owner, work, image, age, ran, latest, qh, ch, rc, ledger, rp>>

\* The job ends and the ephemeral runner deregisters.
Finish(n) ==
    /\ runner[n] = "busy"
    /\ jobs' = [jobs EXCEPT ![work[n]] = "done"]
    /\ ch' = Deliver(ch, work[n])
    /\ runner' = [runner EXCEPT ![n] = "none"]
    /\ work' = [work EXCEPT ![n] = NoJob]
    /\ UNCHANGED <<machine, owner, image, age, ran, latest, faults, qh, rc, ledger, rp>>

\* auto_destroy: the Machine goes once its runner has exited.
AutoDestroy(n) ==
    /\ machine[n] = "up" /\ runner[n] = "none"
    /\ machine' = [machine EXCEPT ![n] = "none"]
    /\ UNCHANGED <<jobs, runner, owner, work, image, age, ran, latest, faults,
                   qh, ch, rc, ledger, rp>>

\* The runner dies without a clean exit: auto_destroy never fires.
RunnerCrash(n) ==
    /\ Fault
    /\ runner[n] \in {"idle", "busy"}
    /\ machine' = [machine EXCEPT ![n] = "zombie"]
    /\ runner' = [runner EXCEPT ![n] = "none"]
    /\ work' = [work EXCEPT ![n] = NoJob]
    /\ IF runner[n] = "busy"
       THEN jobs' = [jobs EXCEPT ![work[n]] = "done"] /\ ch' = Deliver(ch, work[n])
       ELSE UNCHANGED <<jobs, ch>>
    /\ UNCHANGED <<owner, image, age, ran, latest, qh, rc, ledger, rp>>

ImageRollover ==
    /\ latest < MaxImage
    /\ latest' = latest + 1
    /\ UNCHANGED <<jobs, runner, machine, owner, work, image, age, ran, faults,
                   qh, ch, rc, ledger, rp>>

-----------------------------------------------------------------------------
(* One tick is a reconciler sweep interval.  No job outlives JobTimeout:    *)
(* GitHub ends it, so the clock waits for Finish.                           *)

Tick ==
    /\ \A n \in Names : runner[n] = "busy" => ran[n] < JobTimeout
    /\ age' = [n \in Names |-> IF n \in Live THEN CapAt(age[n] + 1, AgeCap) ELSE age[n]]
    /\ ran' = [n \in Names |-> IF runner[n] = "busy" THEN ran[n] + 1 ELSE ran[n]]
    /\ ledger' = [j \in Jobs |->
                    [ledger[j] EXCEPT !.left = IF @ = 0 THEN 0 ELSE @ - 1]]
    /\ rc' = [rc EXCEPT !.pc = IF @ = "sleep" THEN "ready" ELSE @,
                        !.since = IF rc.pc \in {"mint", "resolve", "post"}
                                  THEN CapAt(@ + 1, MaxBackoff) ELSE 0]
    /\ rp' = [rp EXCEPT !.pc = IF @ = "sleep" THEN "ready" ELSE @]
    /\ UNCHANGED <<jobs, runner, machine, owner, work, image, latest, faults, qh, ch>>

-----------------------------------------------------------------------------
(* The API calls the orchestrator makes that change this state *)

MutMinted(n, j) ==
    /\ owner' = [owner EXCEPT ![n] = j]
    /\ runner' = IF RegisterAtMint THEN [runner EXCEPT ![n] = "offline"] ELSE runner

\* generate-jitconfig for job j under the fresh name n.
Minted(n, j) ==
    /\ Fresh(n)
    /\ owner' = [owner EXCEPT ![n] = j]
    /\ runner' = IF RegisterAtMint THEN [runner EXCEPT ![n] = "offline"] ELSE runner

AtCapacity == Cardinality(Live) >= MachineLimit

\* POST /machines succeeds: a Machine called n exists, pinned to digest img.
Created(n, img) ==
    /\ machine' = [machine EXCEPT ![n] = "booting"]
    /\ image' = [image EXCEPT ![n] = img]
    /\ age' = [age EXCEPT ![n] = 0]

\* DELETE /machines/{n}?force=true.  A job running there dies with it, and
\* GitHub reports it completed; hooks is the state of the completed
\* webhooks but for that delivery.
Destroyed(n, hooks) ==
    /\ machine' = [machine EXCEPT ![n] = "none"]
    /\ runner' = [runner EXCEPT ![n] = "none"]
    /\ work' = [work EXCEPT ![n] = NoJob]
    /\ IF runner[n] = "busy"
       THEN jobs' = [jobs EXCEPT ![work[n]] = "killed"] /\ ch' = Deliver(hooks, work[n])
       ELSE jobs' = jobs /\ ch' = hooks

EnvStep ==
    \/ \E j \in Jobs : JobQueued(j) \/ JobCancelled(j) \/ HostedJob(j) \/ LoseDelivery(j)
    \/ \E n \in Names : \/ Boot(n) \/ BootFails(n) \/ Finish(n) \/ AutoDestroy(n)
                        \/ RunnerCrash(n) \/ Prune(n)
                        \/ \E j \in Jobs : Assign(n, j)
    \/ ImageRollover

EnvNext == EnvStep \/ Tick
=============================================================================
