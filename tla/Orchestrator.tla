---------------------------- MODULE Orchestrator ----------------------------
(***************************************************************************)
(* The orchestrator process: webhook handlers, reconciler and reaper run   *)
(* as concurrent tasks of one process (infra/orchestrator/src/main.rs)     *)
(* against GitHub and Fly, and all of them are lost when it restarts.      *)
(*                                                                         *)
(* The specifications below compose subsets of the tasks, so that each property *)
(* is checked against every task that could break it and no other.         *)
(***************************************************************************)
EXTENDS Webhook, Reconciler, Reaper

\* A deploy or crash: handlers in progress, the sweeps and the ledger go.
Restart ==
    /\ Fault
    /\ qh' = [j \in Jobs |->
                IF qh[j].pc \in {"resolve", "post"}
                THEN [qh[j] EXCEPT !.pc = "done", !.name = NoName] ELSE qh[j]]
    /\ ch' = [j \in Jobs |->
                IF ch[j].pc \in {"lookup", "deregister", "destroy"}
                THEN [pc |-> "done", name |-> NoName] ELSE ch[j]]
    /\ rc' = IdleSweep
    /\ ledger' = [j \in Jobs |-> [count |-> 0, left |-> 0]]
    /\ rp' = IdleReap
    /\ UNCHANGED <<jobs, runner, machine, owner, work, image, age, ran, latest>>

Webhooks == \E j \in Jobs : WebhookStep(j)

\* The webhook handlers by themselves.
WebhookSpec == Init /\ [][EnvNext \/ Webhooks \/ Restart]_vars

\* Webhooks and reconciler: every task that spawns or asks before it destroys.
SpawnNext == EnvNext \/ Webhooks \/ ReconcilerStep \/ Restart
SpawnSpec == Init /\ [][SpawnNext]_vars

\* The reconciler by itself, with every webhook lost.
ReconcilerSpec == Init /\ [][EnvNext \/ ReconcilerStep]_vars

\* Webhooks and reaper: every task that destroys.
DestroyNext == EnvNext \/ Webhooks \/ ReaperStep \/ Restart
DestroySpec == Init /\ [][DestroyNext]_vars

Next == EnvNext \/ Webhooks \/ ReconcilerStep \/ ReaperStep \/ Restart
Spec == Init /\ [][Next]_vars

-----------------------------------------------------------------------------
(* Fairness: tokio polls every spawned task and every accepted request, and *)
(* each client call ends in an answer or an error; GitHub and Fly make      *)
(* progress; time passes.  Faults, cancellation and rollovers are not fair. *)

StepFairness ==
    \A n \in Names : /\ WF_vars(Boot(n) \/ BootFails(n))
                     /\ WF_vars(Finish(n))
                     /\ WF_vars(AutoDestroy(n))
                     /\ WF_vars(Prune(n))
                     /\ WF_vars(\E j \in Jobs : Assign(n, j))

\* Booting a Machine and handing a queued job to an idle runner take less
\* than a sweep interval; otherwise the reaper could outrun every spawn.
PromptTick ==
    /\ \A n \in Names : /\ machine[n] # "booting"
                        /\ \A j \in Jobs : ~ENABLED Assign(n, j)
    /\ Tick

FairSpec ==
    /\ Init
    /\ [][EnvStep \/ PromptTick \/ Webhooks \/ ReconcilerStep \/ ReaperStep \/ Restart]_vars
    /\ StepFairness
    /\ WF_vars(PromptTick) /\ WF_vars(ReconcilerStep) /\ WF_vars(ReaperStep)
    /\ \A j \in Jobs : WF_vars(WebhookStep(j))

-----------------------------------------------------------------------------
(* Safety *)

\* The Machine a completed handler is about to destroy has no registered
\* runner, so GitHub cannot have given it work: the deregister-first
\* protocol of handle_completed, against job-stealing between its calls.
DestroyOnlyDeregistered ==
    \A j \in Jobs : ch[j].pc = "destroy" => runner[ch[j].name] = "none"

\* Without the reaper no running job is ever killed: the completed handler
\* leaves a Machine that is mid-run on a stolen job alone.
NoJobKilled == \A j \in Jobs : jobs[j] # "killed"

\* GitHub's and Fly's views stay consistent under every task: a busy runner
\* sits in a Machine that is up and runs a job that is running, no job runs
\* twice, and a registration the orchestrator deleted is not in use.
WorkConsistent ==
    /\ \A n \in Names : runner[n] = "busy" <=> work[n] # NoJob
    /\ \A n \in Names : runner[n] \in {"idle", "busy"} => machine[n] = "up"
    /\ \A n \in Names : work[n] # NoJob => jobs[work[n]] = "running"
    /\ \A m, n \in Names : work[m] = work[n] /\ work[m] # NoJob => m = n

MachinesOf(j) == {n \in Live : owner[n] = j}

\* The webhook and the reconciler may race to spawn for one job, but each
\* at most once while a Machine of it lives: never three.
AtMostTwoPerJob == \A j \in Jobs : Cardinality(MachinesOf(j)) <= 2

\* With no other task spawning, the name check makes spawns idempotent.
AtMostOnePerJob == \A j \in Jobs : Cardinality(MachinesOf(j)) <= 1

\* The sweep never mints for, or spawns, a job whose hold has not run out.
HoldsHonoured ==
    SweepAt("mint") \/ SweepAt("resolve") \/ SweepAt("post") =>
        \A j \in rc.missing \cup ({rc.job} \ {NoJob}) : ledger[j].left = 0

\* A job that its Machine took early enough to finish within hard_max_age
\* is never killed.
EarlyJobsSurvive ==
    [][\A n \in Names : runner[n] = "busy" /\ (age[n] - ran[n]) + JobTimeout < HardMaxAge
          => jobs'[work[n]] # "killed"]_vars

\* The sweep at work fell back to a digest older than n's: that of a Machine
\* which was created after n, by a spawn that had resolved its digest before.
Overtaken(n) ==
    \E m \in rp.seen : /\ image[m] = rp.canonical /\ image[m] < image[n]
                       /\ age[m] <= age[n]

\* The reaper only kills a job on a Machine past max_age; one short of
\* hard_max_age runs a superseded image, or it was overtaken: the registry
\* failed that very sweep, and a later POST had pinned an older digest.  The
\* listing may be old by then, and several spawns may have come between.  Past
\* hard_max_age a job that was taken late dies too, though reaper.rs (lines
\* 22-24) and fly.rs (474-475) have it that no job can be running by then.
KillsAreAged ==
    [][\A n \in Names : runner[n] = "busy" /\ jobs'[work[n]] = "killed" =>
          \/ age[n] >= HardMaxAge
          \/ age[n] >= MaxAge /\ (image[n] < latest \/ Overtaken(n))]_vars

\* What reaper.rs says it destroys, "stale-image and over-hard-age Machines"
\* (lines 36-37): no job dies short of hard_max_age on the registry's image.
\* Machines of one tick, whose order of creation is not modelled, are let off.
OnlyStaleOrOld ==
    [][\A n \in Names : runner[n] = "busy" /\ jobs'[work[n]] = "killed" =>
          \/ age[n] >= HardMaxAge \/ image[n] < latest
          \/ \E m \in rp.seen \ {n} : age[m] = age[n]]_vars

-----------------------------------------------------------------------------
(* Liveness *)

\* Whatever crashes, loses its webhook or is never given a job, its Machine
\* goes in the end.
MachinesGo == \A n \in Names : machine[n] # "none" ~> machine[n] = "none"

\* A queued fly job is picked up, cancelled or reported in the end.
QueuedJobsServed == \A j \in FlyJobs : jobs[j] = "queued" ~> jobs[j] # "queued"
=============================================================================
