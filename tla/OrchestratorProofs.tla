------------------------- MODULE OrchestratorProofs -------------------------
(***************************************************************************)
(* Safety of the orchestrator for every number of jobs, Machines, faults   *)
(* and ticks.  The argument: type correctness first; then Inv, which says  *)
(* where a Machine name may be in use; DestroyOnlyDeregistered and         *)
(* NoJobKilled follow from it.  Then the Machines of a job, those still to *)
(* come counted with those that are there; the holds of the ledger; and    *)
(* which running jobs the reaper may reach.                                *)
(***************************************************************************)
EXTENDS Orchestrator, FiniteSetTheorems, TLAPS

USE FleetAssumption

\* CapAt stays within its cap.
LEMMA CapAtType ==
    ASSUME NEW x \in Nat, NEW cap \in Nat
    PROVE  CapAt(x, cap) \in 0..cap
BY DEF CapAt

\* Holds stay within MAX_BACKOFF.
LEMMA HoldType ==
    ASSUME NEW c \in 1..CountCap
    PROVE  Hold(c) \in 0..MaxBackoff
<1>1. <<2, 4, 8, 16, 32>>[c] \in Nat
  BY DEF CountCap
<1>2. MaxBackoff \in Nat
  BY DEF FleetAssumption
<1>3. QED
  BY <1>1, <1>2, CapAtType DEF Hold

\* What the reconciler does to its ledger keeps the ledger's type.
LEMMA LedgerType ==
    ASSUME TypeOK
    PROVE  /\ \A j \in Jobs : Recorded(j) \in [Jobs -> [count: 0..CountCap, left: 0..MaxBackoff]]
           /\ \A q : Retained(q) \in [Jobs -> [count: 0..CountCap, left: 0..MaxBackoff]]
<1>1. ASSUME NEW j \in Jobs
      PROVE  Recorded(j) \in [Jobs -> [count: 0..CountCap, left: 0..MaxBackoff]]
  <2> DEFINE count == CapAt(ledger[j].count + 1, CountCap)
             hold  == Hold(count)
             left  == IF hold > rc.since THEN hold - rc.since ELSE 0
  <2>1. ledger[j].count \in 0..CountCap /\ rc.since \in 0..MaxBackoff
    BY DEF TypeOK
  <2>2. count \in 1..CountCap
    BY <2>1 DEF CapAt, CountCap
  <2>3. hold \in 0..MaxBackoff
    BY <2>2, HoldType
  <2>4. left \in 0..MaxBackoff
    BY <2>1, <2>3 DEF FleetAssumption
  <2>5. Recorded(j) = [ledger EXCEPT ![j] = [count |-> count, left |-> left]]
    BY DEF Recorded
  <2>6. QED
    BY <2>2, <2>4, <2>5 DEF TypeOK
<1>2. ASSUME NEW q
      PROVE  Retained(q) \in [Jobs -> [count: 0..CountCap, left: 0..MaxBackoff]]
  BY DEF Retained, TypeOK, CountCap, FleetAssumption
<1>3. QED
  BY <1>1, <1>2

-----------------------------------------------------------------------------
(* Type correctness *)

USE DEF JobStates, RunnerStates, MachineStates, QueuedPC, CompletedPC, SweepPC,
        ReapPC, AgeCap, CountCap

\* Everything starts in its type: no Machine, no handler, idle sweeps.
LEMMA InitType == Init => TypeOK
BY DEF Init, TypeOK, IdleSweep, IdleReap, FleetAssumption

Hooks == [Jobs -> [pc: CompletedPC, name: Names \cup {NoName}]]

\* Delivering a completed webhook keeps the handlers' type.
LEMMA DeliverType ==
    ASSUME NEW j, NEW h \in Hooks
    PROVE  Deliver(h, j) \in Hooks
BY DEF Deliver, Hooks

Deliveries ==
    [Jobs -> [pc: QueuedPC, name: Names \cup {NoName}, img: 1..MaxImage]]

\* What a queued delivery or its handler writes keeps the handlers' type.
LEMMA QueuedPCType ==
    ASSUME NEW j, NEW h \in Deliveries, NEW pc \in QueuedPC
    PROVE  [h EXCEPT ![j].pc = pc] \in Deliveries
BY DEF Deliveries

\* A queued handler that moves on with a name stays a delivery record.
LEMMA QueuedNameType ==
    ASSUME NEW j, NEW h \in Deliveries, NEW pc \in QueuedPC,
           NEW name \in Names \cup {NoName}
    PROVE  [h EXCEPT ![j].pc = pc, ![j].name = name] \in Deliveries
BY DEF Deliveries

\* A queued handler that moves on with a digest stays a delivery record.
LEMMA QueuedImageType ==
    ASSUME NEW j, NEW h \in Deliveries, NEW pc \in QueuedPC, NEW img \in 1..MaxImage
    PROVE  [h EXCEPT ![j].pc = pc, ![j].img = img] \in Deliveries
BY DEF Deliveries

\* A step charged against the fault bound stays within it.
LEMMA FaultType ==
    ASSUME TypeOK, Fault
    PROVE  faults' \in 0..MaxFaults
BY DEF TypeOK, Fault, FleetAssumption

\* GitHub, Fly and the clock keep every type.
LEMMA EnvType ==
    ASSUME TypeOK, EnvNext
    PROVE  TypeOK'
<1>1. ASSUME NEW j \in Jobs, JobQueued(j) PROVE TypeOK'
  <2>1. qh' \in Deliveries
    <3>1. qh \in Deliveries
      BY DEF TypeOK, Deliveries
    <3>2. [qh EXCEPT ![j].pc = "inflight"] \in Deliveries
      BY <3>1, QueuedPCType
    <3>3. QED
      BY <1>1, <3>2 DEF JobQueued, Deliver
  <2>2. QED
    BY <1>1, <2>1 DEF JobQueued, TypeOK, Deliveries
<1>2. ASSUME NEW j \in Jobs, JobCancelled(j) PROVE TypeOK'
  <2>1. ch \in Hooks /\ \A i \in Jobs \cup {NoJob} : Deliver(ch, i) \in Hooks
    BY DeliverType DEF TypeOK, Hooks
  <2>2. QED
    BY <1>2, <2>1 DEF JobCancelled, TypeOK, Hooks
<1>3. ASSUME NEW j \in Jobs, HostedJob(j) PROVE TypeOK'
  <2>1. ch \in Hooks /\ \A i \in Jobs \cup {NoJob} : Deliver(ch, i) \in Hooks
    BY DeliverType DEF TypeOK, Hooks
  <2>2. jobs' \in [Jobs -> JobStates]
    <3>1. jobs \in [Jobs -> JobStates] /\ "running" \in JobStates /\ "done" \in JobStates
      BY DEF TypeOK
    <3>2. [jobs EXCEPT ![j] = "running"] \in [Jobs -> JobStates]
      BY <3>1
    <3>3. [jobs EXCEPT ![j] = "done"] \in [Jobs -> JobStates]
      BY <3>1
    <3>4. QED
      BY <1>3, <3>2, <3>3 DEF HostedJob
  <2>3. ch' \in Hooks
    BY <1>3, <2>1 DEF HostedJob
  <2>4. QED
    BY <1>3, <2>2, <2>3 DEF HostedJob, TypeOK, Hooks
<1>4. ASSUME NEW j \in Jobs, LoseDelivery(j) PROVE TypeOK'
  <2>1. faults' \in 0..MaxFaults
    BY <1>4, FaultType DEF LoseDelivery
  <2>2. qh' \in Deliveries
    <3>1. qh \in Deliveries
      BY DEF TypeOK, Deliveries
    <3>2. [qh EXCEPT ![j].pc = "done"] \in Deliveries
      BY <3>1, QueuedPCType
    <3>3. QED
      BY <1>4, <3>1, <3>2 DEF LoseDelivery
  <2>3. ch' \in Hooks
    <3>1. ch \in Hooks
      BY DEF TypeOK, Hooks
    <3>2. [ch EXCEPT ![j].pc = "done"] \in Hooks
      BY <3>1 DEF Hooks
    <3>3. QED
      BY <1>4, <3>1, <3>2 DEF LoseDelivery
  <2>4. QED
    BY <1>4, <2>1, <2>2, <2>3 DEF LoseDelivery, TypeOK, Deliveries, Hooks
<1>5. ASSUME NEW n \in Names, Boot(n) PROVE TypeOK'
  BY <1>5 DEF Boot, TypeOK
<1>6. ASSUME NEW n \in Names, BootFails(n) PROVE TypeOK'
  BY <1>6 DEF BootFails, TypeOK, Fault, FleetAssumption
<1>7. ASSUME NEW n \in Names, Finish(n) PROVE TypeOK'
  <2>1. ch \in Hooks /\ \A j \in Jobs \cup {NoJob} : Deliver(ch, j) \in Hooks
    BY DeliverType DEF TypeOK, Hooks
  <2>2. QED
    BY <1>7, <2>1 DEF Finish, TypeOK, Hooks
<1>8. ASSUME NEW n \in Names, AutoDestroy(n) PROVE TypeOK'
  BY <1>8 DEF AutoDestroy, TypeOK
<1>9. ASSUME NEW n \in Names, RunnerCrash(n) PROVE TypeOK'
  <2>1. ch \in Hooks /\ \A j \in Jobs \cup {NoJob} : Deliver(ch, j) \in Hooks
    BY DeliverType DEF TypeOK, Hooks
  <2>2. QED
    <3>1. faults' \in 0..MaxFaults
      BY <1>9, FaultType DEF RunnerCrash
    <3>2. jobs' \in [Jobs -> JobStates]
      BY <1>9 DEF RunnerCrash, TypeOK
    <3>4. ch' \in Hooks
      BY <1>9, <2>1 DEF RunnerCrash, TypeOK
    <3>3. QED
      BY <1>9, <3>1, <3>2, <3>4 DEF RunnerCrash, TypeOK, Hooks
<1>10. ASSUME NEW n \in Names, Prune(n) PROVE TypeOK'
  BY <1>10 DEF Prune, TypeOK
<1>11. ASSUME NEW n \in Names, NEW j \in Jobs, Assign(n, j) PROVE TypeOK'
  BY <1>11 DEF Assign, TypeOK, FleetAssumption
<1>12. ASSUME ImageRollover PROVE TypeOK'
  BY <1>12 DEF ImageRollover, TypeOK, FleetAssumption
<1>13. ASSUME Tick PROVE TypeOK'
  <2>1. age' \in [Names -> 0..AgeCap]
    BY <1>13 DEF Tick, TypeOK, CapAt, FleetAssumption
  <2>2. ran' \in [Names -> 0..JobTimeout]
    <3>1. \A n \in Names : runner[n] = "busy" => ran[n] \in 0..JobTimeout /\ ran[n] < JobTimeout
      BY <1>13 DEF Tick, TypeOK
    <3>2. ran' = [n \in Names |-> IF runner[n] = "busy" THEN ran[n] + 1 ELSE ran[n]]
      BY <1>13 DEF Tick
    <3>3. QED
      BY <3>1, <3>2 DEF TypeOK, FleetAssumption
  <2>3. ledger' \in [Jobs -> [count: 0..CountCap, left: 0..MaxBackoff]]
    <3>1. ledger' = [j \in Jobs |->
                       [ledger[j] EXCEPT !.left = IF @ = 0 THEN 0 ELSE @ - 1]]
      BY <1>13 DEF Tick
    <3>2. \A j \in Jobs : [ledger[j] EXCEPT !.left = IF @ = 0 THEN 0 ELSE @ - 1]
                            \in [count: 0..CountCap, left: 0..MaxBackoff]
      <4> SUFFICES ASSUME NEW j \in Jobs
                   PROVE  [ledger[j] EXCEPT !.left = IF @ = 0 THEN 0 ELSE @ - 1]
                            \in [count: 0..CountCap, left: 0..MaxBackoff]
        OBVIOUS
      <4>1. ledger[j] \in [count: 0..CountCap, left: 0..MaxBackoff]
        BY DEF TypeOK
      <4>2. (IF ledger[j].left = 0 THEN 0 ELSE ledger[j].left - 1) \in 0..MaxBackoff
        BY <4>1 DEF FleetAssumption
      <4>3. QED
        BY <4>1, <4>2
    <3>3. QED
      BY <3>1, <3>2
  <2>4. CapAt(rc.since + 1, MaxBackoff) \in 0..MaxBackoff
    BY DEF TypeOK, CapAt, FleetAssumption
  <2>5. rc' \in [pc: SweepPC, runs: SUBSET Runs, queued: SUBSET Jobs,
                 missing: SUBSET Jobs, job: Jobs \cup {NoJob},
                 name: Names \cup {NoName}, img: 1..MaxImage, since: 0..MaxBackoff]
    <3>1. rc' = [rc EXCEPT !.pc = IF @ = "sleep" THEN "ready" ELSE @,
                          !.since = IF rc.pc \in {"mint", "resolve", "post"}
                                    THEN CapAt(@ + 1, MaxBackoff) ELSE 0]
      BY <1>13 DEF Tick
    <3> DEFINE pc == IF rc.pc = "sleep" THEN "ready" ELSE rc.pc
               since == IF rc.pc \in {"mint", "resolve", "post"}
                        THEN CapAt(rc.since + 1, MaxBackoff) ELSE 0
    <3>2. pc \in SweepPC /\ since \in 0..MaxBackoff
      BY <2>4 DEF TypeOK, FleetAssumption
    <3>3. rc' = [rc EXCEPT !.pc = pc, !.since = since]
      BY <3>1
    <3>4. QED
      BY <3>2, <3>3 DEF TypeOK
  <2>6. rp' \in [pc: ReapPC, seen: SUBSET Names, todo: SUBSET Names,
                 canonical: 1..MaxImage]
    BY <1>13 DEF Tick, TypeOK
  <2>7. QED
    BY <1>13, <2>1, <2>2, <2>3, <2>5, <2>6 DEF Tick, TypeOK
<1>14. QED
  BY <1>1, <1>2, <1>3, <1>4, <1>5, <1>6, <1>7, <1>8, <1>9, <1>10, <1>11, <1>12, <1>13
     DEF EnvNext, EnvStep

\* A POST that Fly accepts makes a Machine of a known image and age 0.
LEMMA CreatedType ==
    ASSUME TypeOK, NEW n, NEW img \in 1..MaxImage, Created(n, img)
    PROVE  /\ machine' \in [Names -> MachineStates]
           /\ image' \in [Names -> 1..MaxImage]
           /\ age' \in [Names -> 0..AgeCap]
<1>1. "booting" \in MachineStates /\ 0 \in 0..AgeCap
  BY DEF FleetAssumption
<1>2. /\ machine \in [Names -> MachineStates]
      /\ image \in [Names -> 1..MaxImage]
      /\ age \in [Names -> 0..AgeCap]
  BY DEF TypeOK
<1>3. QED
  BY <1>1, <1>2 DEF Created

\* Minting a configuration keeps owners and registrations in type.
LEMMA MintedType ==
    ASSUME TypeOK, NEW n \in Names, NEW j \in Jobs, Minted(n, j)
    PROVE  /\ owner' \in [Names -> Jobs \cup {NoJob}]
           /\ runner' \in [Names -> RunnerStates]
BY DEF TypeOK, Minted

\* A DELETE keeps Machines, registrations and work in type.
LEMMA DestroyedType ==
    ASSUME TypeOK, NEW n, NEW hooks \in Hooks, Destroyed(n, hooks)
    PROVE  /\ machine' \in [Names -> MachineStates]
           /\ runner' \in [Names -> RunnerStates]
           /\ work' \in [Names -> Jobs \cup {NoJob}]
           /\ jobs' \in [Jobs -> JobStates]
           /\ ch' \in Hooks
<1>1. /\ machine' \in [Names -> MachineStates]
      /\ runner' \in [Names -> RunnerStates]
      /\ work' \in [Names -> Jobs \cup {NoJob}]
  BY DEF TypeOK, Destroyed
<1>2. [jobs EXCEPT ![work[n]] = "killed"] \in [Jobs -> JobStates]
  BY DEF TypeOK
<1>3. Deliver(hooks, work[n]) \in Hooks
  BY DeliverType
<1>4. QED
  <2>1. jobs \in [Jobs -> JobStates]
    BY DEF TypeOK
  <2>2. jobs' \in [Jobs -> JobStates]
    BY <1>2, <2>1 DEF Destroyed
  <2>3. ch' \in Hooks
    BY <1>3 DEF Destroyed
  <2>4. QED
    BY <1>1, <2>2, <2>3

\* handle_queued keeps every type.
LEMMA QueuedHandlerType ==
    ASSUME TypeOK, NEW j \in Jobs,
           QueuedNotForUs(j) \/ QueuedMint(j) \/ QueuedResolve(j) \/ QueuedPost(j)
    PROVE  TypeOK'
<1>1. qh \in Deliveries
  BY DEF TypeOK, Deliveries
<1>2. QueuedReturn(j) => qh' \in Deliveries
  <2>1. "done" \in QueuedPC /\ NoName \in Names \cup {NoName}
    OBVIOUS
  <2>2. [qh EXCEPT ![j].pc = "done", ![j].name = NoName] \in Deliveries
    BY <1>1, <2>1, QueuedNameType
  <2>3. QED
    BY <2>2 DEF QueuedReturn
<1>3. CASE QueuedNotForUs(j)
  BY <1>2, <1>3 DEF QueuedNotForUs, TypeOK, Deliveries
<1>4. CASE QueuedMint(j)
  <2>1. CASE \E n \in Names : /\ Minted(n, j)
                              /\ qh' = [qh EXCEPT ![j].pc = "resolve", ![j].name = n]
                              /\ UNCHANGED faults
    <3>1. PICK n \in Names : /\ Minted(n, j)
                             /\ qh' = [qh EXCEPT ![j].pc = "resolve", ![j].name = n]
                             /\ UNCHANGED faults
      BY <2>1
    <3>2. qh' \in Deliveries
      BY <1>1, <3>1, QueuedNameType
    <3>3. QED
      BY <1>4, <3>1, <3>2, MintedType DEF QueuedMint, TypeOK, Deliveries
  <2>2. CASE Fault /\ QueuedReturn(j) /\ UNCHANGED <<owner, runner>>
    BY <1>2, <1>4, <2>2, FaultType DEF QueuedMint, TypeOK, Deliveries
  <2>3. QED
    BY <1>4, <2>1, <2>2 DEF QueuedMint
<1>5. CASE QueuedResolve(j)
  <2>1. latest \in 1..MaxImage
    BY DEF TypeOK
  <2>2. [qh EXCEPT ![j].pc = "post", ![j].img = latest] \in Deliveries
    BY <1>1, <2>1, QueuedImageType
  <2>3. qh' \in Deliveries /\ faults' \in 0..MaxFaults
    BY <1>2, <1>5, <2>2, FaultType DEF QueuedResolve, TypeOK
  <2>4. QED
    BY <1>5, <2>3 DEF QueuedResolve, TypeOK, Deliveries
<1>6. CASE QueuedPost(j)
  <2>1. qh[j].img \in 1..MaxImage
    BY DEF TypeOK
  <2>2. /\ machine' \in [Names -> MachineStates]
        /\ image' \in [Names -> 1..MaxImage]
        /\ age' \in [Names -> 0..AgeCap]
    <3>1. CASE Created(qh[j].name, qh[j].img)
      BY <2>1, <3>1, CreatedType
    <3>2. CASE UNCHANGED <<machine, image, age>>
      BY <3>2 DEF TypeOK
    <3>3. QED
      BY <1>6, <3>1, <3>2 DEF QueuedPost
  <2>3. qh' \in Deliveries /\ faults' \in 0..MaxFaults
    BY <1>2, <1>6, FaultType DEF QueuedPost, TypeOK
  <2>4. QED
    BY <1>6, <2>2, <2>3 DEF QueuedPost, TypeOK, Deliveries
<1>7. QED
  BY <1>3, <1>4, <1>5, <1>6

\* handle_completed keeps every type.
LEMMA CompletedHandlerType ==
    ASSUME TypeOK, NEW j \in Jobs,
           \/ CompletedFind(j) \/ CompletedLookup(j)
           \/ CompletedDeregister(j) \/ CompletedDestroy(j)
    PROVE  TypeOK'
<1>1. ch \in Hooks
  BY DEF TypeOK, Hooks
<1>2. CompletedReturn(j) => ch' \in Hooks
  BY <1>1 DEF CompletedReturn, Hooks
<1>3. \A pc \in CompletedPC : [ch EXCEPT ![j].pc = pc] \in Hooks
  BY <1>1 DEF Hooks
<1>4. CASE CompletedFind(j)
  <2>1. \A n \in Names : [ch EXCEPT ![j] = [pc |-> "lookup", name |-> n]] \in Hooks
    BY <1>1 DEF Hooks
  <2>2. ch' \in Hooks /\ faults' \in 0..MaxFaults
    BY <1>2, <1>4, <2>1, FaultType DEF CompletedFind, TypeOK, Live
  <2>3. QED
    BY <1>4, <2>2 DEF CompletedFind, TypeOK, Hooks
<1>5. CASE CompletedLookup(j)
  <2>1. AfterLookup(runner[ch[j].name]) \in CompletedPC
    BY DEF AfterLookup
  <2>2. ch' \in Hooks /\ faults' \in 0..MaxFaults
    BY <1>2, <1>3, <1>5, <2>1, FaultType DEF CompletedLookup, TypeOK
  <2>3. QED
    BY <1>5, <2>2 DEF CompletedLookup, TypeOK, Hooks
<1>6. CASE CompletedDeregister(j)
  <2>1. ch' \in Hooks /\ faults' \in 0..MaxFaults
    BY <1>2, <1>3, <1>6, FaultType DEF CompletedDeregister, TypeOK
  <2>2. runner' \in [Names -> RunnerStates]
    BY <1>6 DEF CompletedDeregister, TypeOK
  <2>3. QED
    BY <1>6, <2>1, <2>2 DEF CompletedDeregister, TypeOK, Hooks
<1>7. CASE CompletedDestroy(j)
  <2> DEFINE returned == [ch EXCEPT ![j] = [pc |-> "done", name |-> NoName]]
  <2>1. returned \in Hooks
    BY <1>1 DEF Hooks
  <2>2. CASE Destroyed(ch[j].name, returned) /\ UNCHANGED faults
    BY <1>7, <2>1, <2>2, DestroyedType DEF CompletedDestroy, TypeOK, Hooks
  <2>3. CASE Fault /\ ch' = returned /\ UNCHANGED <<jobs, runner, machine, work>>
    BY <1>7, <2>1, <2>3, FaultType DEF CompletedDestroy, TypeOK, Hooks
  <2>4. QED
    BY <1>7, <2>2, <2>3 DEF CompletedDestroy
<1>8. QED
  BY <1>4, <1>5, <1>6, <1>7

Sweeps ==
    [pc: SweepPC, runs: SUBSET Runs, queued: SUBSET Jobs, missing: SUBSET Jobs,
     job: Jobs \cup {NoJob}, name: Names \cup {NoName}, img: 1..MaxImage,
     since: 0..MaxBackoff]

\* Going on to the next missing job leaves a sweep record.
LEMMA NextJobType ==
    ASSUME TypeOK, NEW left \in SUBSET Jobs, NextJob(left)
    PROVE  rc' \in Sweeps
<1>1. rc \in Sweeps
  BY DEF TypeOK, Sweeps
<1>2. [IdleSweep EXCEPT !.pc = "sleep"] \in Sweeps
  BY DEF IdleSweep, Sweeps, FleetAssumption
<1>3. [rc EXCEPT !.pc = "mint", !.missing = left, !.job = NoJob, !.name = NoName] \in Sweeps
  BY <1>1 DEF Sweeps
<1>4. QED
  BY <1>2, <1>3 DEF NextJob

\* A sweep that ends leaves the idle sweep record.
LEMMA SweepOverType == SweepOver => rc' \in Sweeps
BY DEF SweepOver, IdleSweep, Sweeps, FleetAssumption

\* The reconciler keeps every type.
LEMMA ReconcilerType ==
    ASSUME TypeOK, ReconcilerStep
    PROVE  TypeOK'
<1>1. rc \in Sweeps
  BY DEF TypeOK, Sweeps
<1>2. CASE ListRuns
  <2>1. QueuedRuns \in SUBSET Runs
    BY DEF QueuedRuns
  <2>2. [rc EXCEPT !.pc = "jobs", !.runs = QueuedRuns] \in Sweeps
    BY <1>1, <2>1 DEF Sweeps
  <2>3. rc' \in Sweeps /\ faults' \in 0..MaxFaults
    BY <1>2, <2>2, SweepOverType, FaultType DEF ListRuns, TypeOK
  <2>4. QED
    BY <1>2, <2>3 DEF ListRuns, TypeOK, Sweeps
<1>3. ASSUME NEW r \in Runs, ListJobs(r) PROVE TypeOK'
  <2>1. rc.runs \ {r} \in SUBSET Runs
    BY <1>1 DEF Sweeps
  <2>2. rc.queued \cup QueuedFlyJobs(r) \in SUBSET Jobs
    BY <1>1 DEF Sweeps, QueuedFlyJobs, FleetAssumption
  <2>3. [rc EXCEPT !.runs = @ \ {r}, !.queued = @ \cup QueuedFlyJobs(r)] \in Sweeps
    BY <1>1, <2>1, <2>2 DEF Sweeps
  <2>4. rc' \in Sweeps /\ faults' \in 0..MaxFaults
    BY <1>3, <2>3, SweepOverType, FaultType DEF ListJobs, TypeOK
  <2>5. QED
    BY <1>3, <2>4 DEF ListJobs, TypeOK, Sweeps
<1>4. CASE ListMachines
  <2>1. Missing(rc.queued) \in SUBSET Jobs
    BY <1>1 DEF Sweeps, Missing
  <2>2. [rc EXCEPT !.pc = "mint", !.missing = Missing(rc.queued), !.since = 0] \in Sweeps
    <3>1. 0 \in 0..MaxBackoff /\ "mint" \in SweepPC
      BY DEF FleetAssumption
    <3>2. QED
      BY <1>1, <2>1, <3>1 DEF Sweeps
  <2>3. rc' \in Sweeps /\ faults' \in 0..MaxFaults
    BY <1>4, <2>2, SweepOverType, FaultType DEF ListMachines, TypeOK
  <2>4. ledger' \in [Jobs -> [count: 0..CountCap, left: 0..MaxBackoff]]
    BY <1>4, LedgerType DEF ListMachines
  <2>5. QED
    BY <1>4, <2>3, <2>4 DEF ListMachines, TypeOK, Sweeps
<1>5. ASSUME NEW j \in Jobs, SweepMint(j) PROVE TypeOK'
  <2>1. rc.missing \ {j} \in SUBSET Jobs
    BY <1>1 DEF Sweeps
  <2>2. CASE \E n \in Names :
               /\ Minted(n, j)
               /\ rc' = [rc EXCEPT !.pc = "resolve", !.missing = @ \ {j},
                                   !.job = j, !.name = n]
               /\ UNCHANGED faults
    <3>1. PICK n \in Names :
               /\ Minted(n, j)
               /\ rc' = [rc EXCEPT !.pc = "resolve", !.missing = @ \ {j},
                                   !.job = j, !.name = n]
               /\ UNCHANGED faults
      BY <2>2
    <3>2. rc' \in Sweeps
      BY <1>1, <2>1, <3>1 DEF Sweeps
    <3>3. QED
      BY <1>5, <3>1, <3>2, MintedType DEF SweepMint, TypeOK, Sweeps
  <2>3. CASE Fault /\ NextJob(rc.missing \ {j}) /\ UNCHANGED <<owner, runner>>
    BY <1>5, <2>1, <2>3, NextJobType, FaultType DEF SweepMint, TypeOK, Sweeps
  <2>4. QED
    BY <1>5, <2>2, <2>3 DEF SweepMint
<1>6. CASE SweepResolve
  <2>1. [rc EXCEPT !.pc = "post", !.img = latest] \in Sweeps
    BY <1>1 DEF Sweeps, TypeOK
  <2>2. rc.missing \in SUBSET Jobs
    BY <1>1 DEF Sweeps
  <2>3. rc' \in Sweeps /\ faults' \in 0..MaxFaults
    BY <1>6, <2>1, <2>2, NextJobType, FaultType DEF SweepResolve, TypeOK
  <2>4. QED
    BY <1>6, <2>3 DEF SweepResolve, TypeOK, Sweeps
<1>7. CASE SweepPost
  <2>1. rc.missing \in SUBSET Jobs /\ rc.img \in 1..MaxImage
    BY <1>1 DEF Sweeps
  <2>2. rc' \in Sweeps /\ faults' \in 0..MaxFaults
    BY <1>7, <2>1, NextJobType, SweepOverType, FaultType DEF SweepPost, TypeOK
  <2>3. /\ machine' \in [Names -> MachineStates]
        /\ image' \in [Names -> 1..MaxImage]
        /\ age' \in [Names -> 0..AgeCap]
    <3>1. CASE Created(rc.name, rc.img)
      BY <2>1, <3>1, CreatedType
    <3>2. CASE UNCHANGED <<machine, image, age>>
      BY <3>2 DEF TypeOK
    <3>3. QED
      BY <1>7, <3>1, <3>2 DEF SweepPost
  <2>4. ledger' \in [Jobs -> [count: 0..CountCap, left: 0..MaxBackoff]]
    <3>1. CASE UNCHANGED ledger
      BY <3>1 DEF TypeOK
    <3>2. CASE ledger' = Recorded(rc.job) /\ rc.job \in Jobs
      BY <3>2, LedgerType
    <3>3. CASE ledger' = Recorded(rc.job) /\ rc.job \notin Jobs
      BY <3>3 DEF Recorded, TypeOK
    <3>4. QED
      BY <1>7, <3>1, <3>2, <3>3 DEF SweepPost
  <2>5. QED
    BY <1>7, <2>2, <2>3, <2>4 DEF SweepPost, TypeOK, Sweeps
<1>8. QED
  BY <1>2, <1>3, <1>4, <1>5, <1>6, <1>7 DEF ReconcilerStep

Reaps == [pc: ReapPC, seen: SUBSET Names, todo: SUBSET Names, canonical: 1..MaxImage]

\* The reaper keeps every type.
LEMMA ReaperType ==
    ASSUME TypeOK, ReaperStep
    PROVE  TypeOK'
<1>1. ReapOver => rp' \in Reaps
  BY DEF ReapOver, IdleReap, Reaps, FleetAssumption
<1>2. ASSUME NEW d \in 1..MaxImage, Classified(d) PROVE rp' \in Reaps
  <2>1. [rp EXCEPT !.pc = "destroy", !.todo = Candidates(d), !.canonical = d] \in Reaps
    <3>1. rp \in Reaps /\ "destroy" \in ReapPC /\ Candidates(d) \in SUBSET Names
      BY DEF TypeOK, Reaps, Candidates, ReapPC
    <3>2. QED
      BY <3>1 DEF Reaps
  <2>2. QED
    BY <1>1, <1>2, <2>1 DEF Classified
<1>3. CASE ReapList
  <2>1. [rp EXCEPT !.pc = "resolve", !.seen = Live] \in Reaps
    BY DEF Reaps, TypeOK, Live
  <2>2. rp' \in Reaps /\ faults' \in 0..MaxFaults
    BY <1>1, <1>3, <2>1, FaultType DEF ReapList, TypeOK
  <2>3. QED
    BY <1>3, <2>2 DEF ReapList, TypeOK, Reaps
<1>4. CASE ReapResolve
  <2>1. latest \in 1..MaxImage /\ NewestSpawnDigests \subseteq 1..MaxImage
    BY DEF TypeOK, NewestSpawnDigests
  <2>2. rp' \in Reaps /\ faults' \in 0..MaxFaults
    BY <1>1, <1>2, <1>4, <2>1, FaultType DEF ReapResolve, TypeOK
  <2>3. QED
    BY <1>4, <2>2 DEF ReapResolve, TypeOK, Reaps
<1>5. ASSUME NEW n \in Names, ReapDestroy(n) PROVE TypeOK'
  <2>1. [rp EXCEPT !.todo = @ \ {n}] \in Reaps
    BY DEF Reaps, TypeOK
  <2>2. rp' \in Reaps
    BY <1>1, <1>5, <2>1 DEF ReapDestroy
  <2>3. ch \in Hooks
    BY DEF TypeOK, Hooks
  <2>4. CASE Destroyed(n, ch) /\ UNCHANGED faults
    BY <1>5, <2>2, <2>3, <2>4, DestroyedType DEF ReapDestroy, TypeOK, Reaps, Hooks
  <2>5. CASE Fault /\ UNCHANGED <<jobs, runner, machine, work, ch>>
    BY <1>5, <2>2, <2>5, FaultType DEF ReapDestroy, TypeOK, Reaps
  <2>6. QED
    BY <1>5, <2>4, <2>5 DEF ReapDestroy
<1>6. QED
  BY <1>3, <1>4, <1>5 DEF ReaperStep

\* A restart keeps every type.
LEMMA RestartType ==
    ASSUME TypeOK, Restart
    PROVE  TypeOK'
<1>1. qh' \in Deliveries
  <2>1. qh \in Deliveries
    BY DEF TypeOK, Deliveries
  <2>2. \A j \in Jobs : [qh[j] EXCEPT !.pc = "done", !.name = NoName]
                         \in [pc: QueuedPC, name: Names \cup {NoName}, img: 1..MaxImage]
    BY <2>1 DEF Deliveries
  <2>3. qh' = [j \in Jobs |->
                 IF qh[j].pc \in {"resolve", "post"}
                 THEN [qh[j] EXCEPT !.pc = "done", !.name = NoName] ELSE qh[j]]
    BY DEF Restart
  <2>4. QED
    BY <2>1, <2>2, <2>3 DEF Deliveries
<1>2. ch' \in Hooks
  BY DEF Restart, TypeOK, Hooks
<1>3. rc' \in Sweeps /\ rp' \in Reaps
  <2>1. 0 \in 0..MaxBackoff /\ 1 \in 1..MaxImage
    BY DEF FleetAssumption
  <2>2. IdleSweep \in Sweeps /\ IdleReap \in Reaps
    BY <2>1 DEF IdleSweep, IdleReap, Sweeps, Reaps
  <2>3. QED
    BY <2>2 DEF Restart
<1>4. ledger' \in [Jobs -> [count: 0..CountCap, left: 0..MaxBackoff]]
  <2>1. 0 \in 0..MaxBackoff /\ 0 \in 0..CountCap
    BY DEF FleetAssumption
  <2>2. ledger' = [j \in Jobs |-> [count |-> 0, left |-> 0]]
    BY DEF Restart
  <2>3. QED
    BY <2>1, <2>2
<1>5. faults' \in 0..MaxFaults
  BY FaultType DEF Restart
<1>6. QED
  BY <1>1, <1>2, <1>3, <1>4, <1>5 DEF Restart, TypeOK, Deliveries, Hooks, Sweeps, Reaps

\* Every step of the process or of the services keeps every type.
LEMMA NextType == TypeOK /\ [Next]_vars => TypeOK'
<1>1. ASSUME TypeOK, UNCHANGED vars PROVE TypeOK'
  BY <1>1 DEF vars, TypeOK
<1>2. ASSUME TypeOK, NEW j \in Jobs, WebhookStep(j) PROVE TypeOK'
  BY <1>2, QueuedHandlerType, CompletedHandlerType DEF WebhookStep
<1>3. QED
  BY <1>1, <1>2, EnvType, ReconcilerType, ReaperType, RestartType DEF Next, Webhooks

\* The composed system is type correct.
THEOREM TypeCorrect == Spec => []TypeOK
<1>1. Init => TypeOK
  BY InitType
<1>2. TypeOK /\ [Next]_vars => TypeOK'
  BY NextType
<1>3. QED
  BY <1>1, <1>2, PTL DEF Spec

-----------------------------------------------------------------------------
(* The inductive invariant                                                 *)
(*                                                                         *)
(* WorkConsistent is not inductive: a POST creating a Machine under the    *)
(* name of an idle runner would break it.  NamesReserved says a name being *)
(* spawned is nobody else's, from the mint to the POST.                    *)

QueuedSpawning(j) == qh[j].pc \in {"resolve", "post"}
SweepSpawning     == rc.pc \in {"resolve", "post"}

Unused(n) == n \in Names /\ machine[n] = "none" /\ runner[n] \in {"none", "offline"}

NamesReserved ==
    /\ \A j \in Jobs : QueuedSpawning(j) => Unused(qh[j].name)
    /\ SweepSpawning => Unused(rc.name)
    /\ \A i, j \in Jobs : QueuedSpawning(i) /\ QueuedSpawning(j) /\ qh[i].name = qh[j].name
                         => i = j
    /\ \A j \in Jobs : QueuedSpawning(j) /\ SweepSpawning => qh[j].name # rc.name

FlyWork == \A n \in Names : work[n] # NoJob => work[n] \in FlyJobs

FoundNames ==
    \A j \in Jobs : ch[j].pc \in {"lookup", "deregister", "destroy"} => ch[j].name \in Names

Inv == WorkConsistent /\ FlyWork /\ NamesReserved /\ FoundNames

\* The strengthened invariant holds before anything runs.
LEMMA InitInv == Init => Inv
BY DEF Init, Inv, WorkConsistent, FlyWork, NamesReserved, QueuedSpawning,
       SweepSpawning, IdleSweep, FoundNames

\* The functions whose values Inv speaks of.
LEMMA Shapes ==
    ASSUME TypeOK
    PROVE  /\ jobs \in [Jobs -> JobStates]
           /\ runner \in [Names -> RunnerStates]
           /\ machine \in [Names -> MachineStates]
           /\ work \in [Names -> Jobs \cup {NoJob}]
           /\ qh \in Deliveries
           /\ ch \in Hooks
           /\ rc \in Sweeps
BY DEF TypeOK, Deliveries, Hooks, Sweeps

\* GitHub and Fly keep their own views consistent.
LEMMA EnvWork ==
    ASSUME TypeOK, Inv, EnvNext
    PROVE  WorkConsistent' /\ FlyWork'
<1> USE Shapes DEF Inv, WorkConsistent, FlyWork
<1>1. ASSUME NEW j \in Jobs, JobQueued(j) PROVE WorkConsistent' /\ FlyWork'
  BY <1>1 DEF JobQueued
<1>2. ASSUME NEW j \in Jobs, JobCancelled(j) PROVE WorkConsistent' /\ FlyWork'
  BY <1>2 DEF JobCancelled
<1>3. ASSUME NEW j \in Jobs, HostedJob(j) PROVE WorkConsistent' /\ FlyWork'
  BY <1>3 DEF HostedJob
<1>4. ASSUME NEW j \in Jobs, LoseDelivery(j) PROVE WorkConsistent' /\ FlyWork'
  BY <1>4 DEF LoseDelivery
<1>5. ASSUME NEW n \in Names, Boot(n) PROVE WorkConsistent' /\ FlyWork'
  BY <1>5 DEF Boot
<1>6. ASSUME NEW n \in Names, BootFails(n) PROVE WorkConsistent' /\ FlyWork'
  BY <1>6 DEF BootFails
<1>7. ASSUME NEW n \in Names, Finish(n) PROVE WorkConsistent' /\ FlyWork'
  BY <1>7 DEF Finish
<1>8. ASSUME NEW n \in Names, AutoDestroy(n) PROVE WorkConsistent' /\ FlyWork'
  BY <1>8 DEF AutoDestroy
<1>9. ASSUME NEW n \in Names, RunnerCrash(n) PROVE WorkConsistent' /\ FlyWork'
  BY <1>9 DEF RunnerCrash
<1>10. ASSUME NEW n \in Names, Prune(n) PROVE WorkConsistent' /\ FlyWork'
  BY <1>10 DEF Prune
<1>11. ASSUME NEW n \in Names, NEW j \in Jobs, Assign(n, j)
       PROVE  WorkConsistent' /\ FlyWork'
  BY <1>11 DEF Assign, FleetAssumption
<1>12. ASSUME ImageRollover \/ Tick PROVE WorkConsistent' /\ FlyWork'
  BY <1>12 DEF ImageRollover, Tick
<1>13. QED
  BY <1>1, <1>2, <1>3, <1>4, <1>5, <1>6, <1>7, <1>8, <1>9, <1>10, <1>11, <1>12
     DEF EnvNext, EnvStep

\* GitHub and Fly never use a name that is being spawned.
LEMMA EnvNames ==
    ASSUME TypeOK, Inv, EnvNext
    PROVE  NamesReserved'
<1> USE Shapes DEF Inv, NamesReserved, Unused, QueuedSpawning, SweepSpawning
<1>1. ASSUME NEW j \in Jobs, JobQueued(j) PROVE NamesReserved'
  BY <1>1 DEF JobQueued, Deliver, Deliveries
<1>2. ASSUME NEW j \in Jobs, JobCancelled(j) \/ HostedJob(j) PROVE NamesReserved'
  BY <1>2 DEF JobCancelled, HostedJob
<1>3. ASSUME NEW j \in Jobs, LoseDelivery(j) PROVE NamesReserved'
  <2>1. CASE UNCHANGED qh
    BY <1>3, <2>1 DEF LoseDelivery
  <2>2. CASE qh' = [qh EXCEPT ![j].pc = "done"]
    <3>1. /\ qh'[j].pc = "done"
          /\ \A i \in Jobs \ {j} : qh'[i] = qh[i]
      BY <2>2 DEF Deliveries
    <3>2. QED
      BY <1>3, <3>1 DEF LoseDelivery
  <2>3. QED
    BY <1>3, <2>1, <2>2 DEF LoseDelivery
<1>4. ASSUME NEW n \in Names, Boot(n) \/ BootFails(n) PROVE NamesReserved'
  BY <1>4 DEF Boot, BootFails
<1>5. ASSUME NEW n \in Names, Finish(n) \/ AutoDestroy(n) PROVE NamesReserved'
  BY <1>5 DEF Finish, AutoDestroy
<1>6. ASSUME NEW n \in Names, RunnerCrash(n) \/ Prune(n) PROVE NamesReserved'
  BY <1>6 DEF RunnerCrash, Prune
<1>7. ASSUME NEW n \in Names, NEW j \in Jobs, Assign(n, j) PROVE NamesReserved'
  BY <1>7 DEF Assign
<1>8. ASSUME ImageRollover PROVE NamesReserved'
  BY <1>8 DEF ImageRollover
<1>9. ASSUME Tick PROVE NamesReserved'
  <2>1. rc'.pc = (IF rc.pc = "sleep" THEN "ready" ELSE rc.pc) /\ rc'.name = rc.name
    BY <1>9 DEF Tick, Sweeps
  <2>2. QED
    BY <1>9, <2>1 DEF Tick
<1>10. QED
  BY <1>1, <1>2, <1>3, <1>4, <1>5, <1>6, <1>7, <1>8, <1>9 DEF EnvNext, EnvStep

\* Destroying a Machine, whatever its runner does, leaves the rest consistent.
LEMMA DestroyedWork ==
    ASSUME TypeOK, Inv, NEW n \in Names, NEW hooks, Destroyed(n, hooks), UNCHANGED <<qh, rc>>
    PROVE  WorkConsistent' /\ FlyWork' /\ NamesReserved'
<1> USE Shapes
<1>1. WorkConsistent' /\ FlyWork'
  BY DEF Inv, WorkConsistent, FlyWork, Destroyed
<1>2. NamesReserved'
  BY DEF Inv, NamesReserved, Unused, QueuedSpawning, SweepSpawning, Destroyed
<1>3. QED
  BY <1>1, <1>2

\* Webhook deliveries and the handlers' own steps keep FoundNames.
LEMMA DeliverFound ==
    ASSUME NEW h \in Hooks, NEW j,
           \A i \in Jobs : h[i].pc \in {"lookup", "deregister", "destroy"} => h[i].name \in Names,
           ch' = Deliver(h, j)
    PROVE  FoundNames'
BY DEF Deliver, FoundNames, Hooks

\* A mint takes a name nobody uses.
LEMMA MintedWork ==
    ASSUME TypeOK, Inv, NEW n \in Names, NEW j \in Jobs, Minted(n, j),
           UNCHANGED <<jobs, machine, work>>
    PROVE  WorkConsistent' /\ FlyWork'
BY Shapes DEF Inv, WorkConsistent, FlyWork, Minted, Fresh

\* A POST brings to life a Machine whose name was reserved for it.
LEMMA CreatedWork ==
    ASSUME TypeOK, Inv, NEW n, NEW img, Unused(n), Created(n, img),
           UNCHANGED <<jobs, runner, work>>
    PROVE  WorkConsistent' /\ FlyWork'
BY Shapes DEF Inv, WorkConsistent, FlyWork, Created, Unused

\* handle_queued keeps the strengthened invariant.
LEMMA QueuedHandlerInv ==
    ASSUME TypeOK, Inv, NEW j \in Jobs,
           QueuedNotForUs(j) \/ QueuedMint(j) \/ QueuedResolve(j) \/ QueuedPost(j)
    PROVE  Inv'
<1> USE Shapes
<1>0. FoundNames'
  BY DEF Inv, FoundNames, QueuedNotForUs, QueuedMint, QueuedResolve, QueuedPost
<1>1. ASSUME QueuedReturn(j), UNCHANGED <<runner, machine, rc>> PROVE NamesReserved'
  BY <1>1 DEF Inv, NamesReserved, Unused, QueuedSpawning, SweepSpawning,
              QueuedReturn, Deliveries
<1>2. ASSUME UNCHANGED <<jobs, runner, machine, work>> PROVE WorkConsistent' /\ FlyWork'
  BY <1>2 DEF Inv, WorkConsistent, FlyWork
<1>3. CASE QueuedNotForUs(j)
  BY <1>0, <1>1, <1>2, <1>3 DEF QueuedNotForUs, Inv
<1>4. CASE QueuedMint(j)
  <2>1. CASE Fault /\ QueuedReturn(j) /\ UNCHANGED <<owner, runner>>
    BY <1>0, <1>1, <1>2, <1>4, <2>1 DEF QueuedMint, Inv
  <2>2. ASSUME NEW n \in Names, Minted(n, j),
               qh' = [qh EXCEPT ![j].pc = "resolve", ![j].name = n]
        PROVE  Inv'
    <3>1. WorkConsistent' /\ FlyWork'
      BY <1>4, <2>2, MintedWork DEF QueuedMint
    <3>2. /\ machine[n] = "none" /\ ~Held(n)
          /\ runner' = [runner EXCEPT ![n] = runner'[n]] /\ runner'[n] \in {"none", "offline"}
      BY <2>2 DEF Minted, Fresh
    <3>3. qh'[j].name = n /\ \A i \in Jobs \ {j} : qh'[i] = qh[i]
      BY <2>2 DEF Deliveries
    <3>4. NamesReserved'
      BY <1>4, <3>2, <3>3 DEF QueuedMint, Inv, NamesReserved, Unused, QueuedSpawning,
                              SweepSpawning, Held
    <3>5. QED
      BY <1>0, <3>1, <3>4 DEF Inv
  <2>3. QED
    BY <1>4, <2>1, <2>2 DEF QueuedMint
<1>5. CASE QueuedResolve(j)
  <2>1. CASE qh' = [qh EXCEPT ![j].pc = "post", ![j].img = latest]
    <3>1. /\ qh'[j].name = qh[j].name /\ QueuedSpawning(j)
          /\ \A i \in Jobs \ {j} : qh'[i] = qh[i]
      BY <1>5, <2>1 DEF Deliveries, QueuedResolve, QueuedAt, QueuedSpawning
    <3>2. NamesReserved'
      BY <1>5, <3>1 DEF QueuedResolve, Inv, NamesReserved, Unused, QueuedSpawning,
                        SweepSpawning
    <3>3. QED
      BY <1>0, <1>2, <1>5, <3>2 DEF QueuedResolve, Inv
  <2>2. CASE QueuedReturn(j)
    BY <1>0, <1>1, <1>2, <1>5, <2>2 DEF QueuedResolve, Inv
  <2>3. QED
    BY <1>5, <2>1, <2>2 DEF QueuedResolve
<1>6. CASE QueuedPost(j)
  <2>1. CASE UNCHANGED machine
    BY <1>0, <1>1, <1>2, <1>6, <2>1 DEF QueuedPost, Inv
  <2>2. CASE Created(qh[j].name, qh[j].img)
    <3>1. QueuedSpawning(j) /\ Unused(qh[j].name)
      BY <1>6 DEF QueuedPost, QueuedAt, QueuedSpawning, Inv, NamesReserved
    <3>2. WorkConsistent' /\ FlyWork'
      BY <1>6, <2>2, <3>1, CreatedWork DEF QueuedPost
    <3>3. ~QueuedSpawning(j)' /\ \A i \in Jobs \ {j} : qh'[i] = qh[i]
      BY <1>6 DEF QueuedPost, QueuedReturn, QueuedSpawning, Deliveries
    <3>4. NamesReserved'
      BY <1>6, <2>2, <3>1, <3>3 DEF QueuedPost, Created, Inv, NamesReserved, Unused,
                                    QueuedSpawning, SweepSpawning
    <3>5. QED
      BY <1>0, <3>2, <3>4 DEF Inv
  <2>3. QED
    BY <1>6, <2>1, <2>2 DEF QueuedPost
<1>7. QED
  BY <1>3, <1>4, <1>5, <1>6

\* handle_completed keeps the strengthened invariant.
LEMMA CompletedHandlerInv ==
    ASSUME TypeOK, Inv, NEW j \in Jobs,
           \/ CompletedFind(j) \/ CompletedLookup(j)
           \/ CompletedDeregister(j) \/ CompletedDestroy(j)
    PROVE  Inv'
<1> USE Shapes
<1> DEFINE returned == [ch EXCEPT ![j] = [pc |-> "done", name |-> NoName]]
<1>1. ASSUME UNCHANGED <<jobs, runner, machine, work, qh, rc>>
      PROVE  WorkConsistent' /\ FlyWork' /\ NamesReserved'
  BY <1>1 DEF Inv, WorkConsistent, FlyWork, NamesReserved, Unused, QueuedSpawning,
              SweepSpawning
<1>2. /\ returned \in Hooks
      /\ \A i \in Jobs : returned[i].pc \in {"lookup", "deregister", "destroy"}
                          => returned[i].name \in Names
  BY DEF Inv, FoundNames, Hooks
<1>3. ch' = returned => FoundNames'
  BY <1>2 DEF FoundNames
<1>4. ASSUME ch[j].pc \in {"lookup", "deregister", "destroy"}, NEW pc,
             ch' = [ch EXCEPT ![j].pc = pc]
      PROVE  FoundNames'
  BY <1>4 DEF Inv, FoundNames, Hooks
<1>5. CASE CompletedFind(j)
  <2>1. ASSUME NEW n \in Names, ch' = [ch EXCEPT ![j] = [pc |-> "lookup", name |-> n]]
        PROVE  FoundNames'
    BY <2>1 DEF Inv, FoundNames, Hooks
  <2>2. FoundNames'
    BY <1>3, <1>5, <2>1 DEF CompletedFind, CompletedReturn, Live
  <2>3. QED
    BY <1>1, <1>5, <2>2 DEF CompletedFind, Inv
<1>6. CASE CompletedLookup(j)
  <2>1. FoundNames'
    BY <1>3, <1>4, <1>6 DEF CompletedLookup, CompletedReturn, CompletedAt
  <2>2. QED
    BY <1>1, <1>6, <2>1 DEF CompletedLookup, Inv
<1>7. CASE CompletedDeregister(j)
  <2>1. WorkConsistent' /\ FlyWork'
    BY <1>7 DEF CompletedDeregister, AfterDelete, Inv, WorkConsistent, FlyWork
  <2>2. NamesReserved'
    BY <1>7 DEF CompletedDeregister, Inv, NamesReserved, Unused, QueuedSpawning,
                SweepSpawning
  <2>3. FoundNames'
    BY <1>3, <1>4, <1>7 DEF CompletedDeregister, CompletedReturn, CompletedAt
  <2>4. QED
    BY <2>1, <2>2, <2>3 DEF Inv
<1>8. CASE CompletedDestroy(j)
  <2>1. ch[j].name \in Names
    BY <1>8 DEF CompletedDestroy, CompletedAt, Inv, FoundNames
  <2>2. CASE Destroyed(ch[j].name, returned)
    <3>1. FoundNames'
      BY <1>2, <1>3, <2>2, DeliverFound DEF Destroyed
    <3>2. QED
      BY <1>8, <2>1, <2>2, <3>1, DestroyedWork DEF CompletedDestroy, Inv
  <2>3. CASE ch' = returned /\ UNCHANGED <<jobs, runner, machine, work>>
    BY <1>1, <1>3, <1>8, <2>3 DEF CompletedDestroy, Inv
  <2>4. QED
    BY <1>8, <2>2, <2>3 DEF CompletedDestroy
<1>9. QED
  BY <1>5, <1>6, <1>7, <1>8

\* GitHub's deliveries keep FoundNames.
LEMMA EnvFound ==
    ASSUME TypeOK, Inv, EnvNext
    PROVE  FoundNames'
<1> USE Shapes
<1>1. ch' = ch => FoundNames'
  BY DEF Inv, FoundNames
<1>2. \A j : ch' = Deliver(ch, j) => FoundNames'
  BY DeliverFound DEF Inv, FoundNames
<1>3. ASSUME NEW j \in Jobs, JobQueued(j) \/ JobCancelled(j) \/ HostedJob(j)
      PROVE  FoundNames'
  BY <1>1, <1>2, <1>3 DEF JobQueued, JobCancelled, HostedJob
<1>4. ASSUME NEW j \in Jobs, LoseDelivery(j) PROVE FoundNames'
  <2>1. ch' = [ch EXCEPT ![j].pc = "done"] => FoundNames'
    BY DEF Inv, FoundNames, Hooks
  <2>2. QED
    BY <1>1, <1>4, <2>1 DEF LoseDelivery
<1>5. ASSUME NEW n \in Names, Boot(n) \/ BootFails(n) \/ AutoDestroy(n) \/ Prune(n)
      PROVE  FoundNames'
  BY <1>1, <1>5 DEF Boot, BootFails, AutoDestroy, Prune
<1>6. ASSUME NEW n \in Names, Finish(n) \/ RunnerCrash(n) PROVE FoundNames'
  BY <1>1, <1>2, <1>6 DEF Finish, RunnerCrash
<1>7. ASSUME NEW n \in Names, NEW j \in Jobs, Assign(n, j) PROVE FoundNames'
  BY <1>1, <1>7 DEF Assign
<1>8. ASSUME ImageRollover \/ Tick PROVE FoundNames'
  BY <1>1, <1>8 DEF ImageRollover, Tick
<1>9. QED
  BY <1>3, <1>4, <1>5, <1>6, <1>7, <1>8 DEF EnvNext, EnvStep

\* The reconciler keeps the strengthened invariant.
LEMMA ReconcilerInv ==
    ASSUME TypeOK, Inv, ReconcilerStep
    PROVE  Inv'
<1> USE Shapes
<1>1. FoundNames'
  BY DEF Inv, FoundNames, ReconcilerStep, ListRuns, ListJobs, ListMachines, SweepMint,
         SweepResolve, SweepPost
<1>2. ASSUME ~SweepSpawning', UNCHANGED <<runner, machine, qh>> PROVE NamesReserved'
  BY <1>2 DEF Inv, NamesReserved, Unused, QueuedSpawning, SweepSpawning
<1>3. ASSUME UNCHANGED <<jobs, runner, machine, work>> PROVE WorkConsistent' /\ FlyWork'
  BY <1>3 DEF Inv, WorkConsistent, FlyWork
<1>4. SweepOver => ~SweepSpawning'
  BY DEF SweepOver, SweepSpawning, IdleSweep
<1>5. \A left : NextJob(left) => ~SweepSpawning'
  BY DEF NextJob, SweepSpawning, IdleSweep, Sweeps
<1>6. CASE ListRuns
  <2>1. ~SweepSpawning'
    BY <1>4, <1>6 DEF ListRuns, SweepSpawning, Sweeps
  <2>2. QED
    BY <1>1, <1>2, <1>3, <1>6, <2>1 DEF ListRuns, Inv
<1>7. ASSUME NEW r \in Runs, ListJobs(r) PROVE Inv'
  <2>1. ~SweepSpawning'
    BY <1>4, <1>7 DEF ListJobs, SweepAt, SweepSpawning, Sweeps
  <2>2. QED
    BY <1>1, <1>2, <1>3, <1>7, <2>1 DEF ListJobs, Inv
<1>8. CASE ListMachines
  <2>1. ~SweepSpawning'
    BY <1>4, <1>8 DEF ListMachines, SweepSpawning, Sweeps
  <2>2. QED
    BY <1>1, <1>2, <1>3, <1>8, <2>1 DEF ListMachines, Inv
<1>9. ASSUME NEW j \in Jobs, SweepMint(j) PROVE Inv'
  <2>1. CASE NextJob(rc.missing \ {j}) /\ UNCHANGED <<owner, runner>>
    BY <1>1, <1>2, <1>3, <1>5, <1>9, <2>1 DEF SweepMint, Inv
  <2>2. ASSUME NEW n \in Names, Minted(n, j),
               rc' = [rc EXCEPT !.pc = "resolve", !.missing = @ \ {j}, !.job = j, !.name = n]
        PROVE  Inv'
    <3>1. WorkConsistent' /\ FlyWork'
      BY <1>9, <2>2, MintedWork DEF SweepMint
    <3>2. /\ machine[n] = "none" /\ ~Held(n)
          /\ runner' = [runner EXCEPT ![n] = runner'[n]] /\ runner'[n] \in {"none", "offline"}
      BY <2>2 DEF Minted, Fresh
    <3>3. rc'.name = n
      BY <2>2 DEF Sweeps
    <3>4. NamesReserved'
      BY <1>9, <3>2, <3>3 DEF SweepMint, Inv, NamesReserved, Unused, QueuedSpawning,
                              SweepSpawning, Held
    <3>5. QED
      BY <1>1, <3>1, <3>4 DEF Inv
  <2>3. QED
    BY <1>9, <2>1, <2>2 DEF SweepMint
<1>10. CASE SweepResolve
  <2>1. CASE rc' = [rc EXCEPT !.pc = "post", !.img = latest]
    <3>1. rc'.name = rc.name /\ SweepSpawning
      BY <1>10, <2>1 DEF SweepResolve, SweepAt, SweepSpawning, Sweeps
    <3>2. NamesReserved'
      BY <1>10, <3>1 DEF SweepResolve, Inv, NamesReserved, Unused, QueuedSpawning,
                         SweepSpawning
    <3>3. QED
      BY <1>1, <1>3, <1>10, <3>2 DEF SweepResolve, Inv
  <2>2. CASE NextJob(rc.missing)
    BY <1>1, <1>2, <1>3, <1>5, <1>10, <2>2 DEF SweepResolve, Inv
  <2>3. QED
    BY <1>10, <2>1, <2>2 DEF SweepResolve
<1>11. CASE SweepPost
  <2>1. ~SweepSpawning'
    BY <1>4, <1>5, <1>11 DEF SweepPost
  <2>2. CASE UNCHANGED machine
    BY <1>1, <1>2, <1>3, <1>11, <2>1, <2>2 DEF SweepPost, Inv
  <2>3. CASE Created(rc.name, rc.img)
    <3>1. SweepSpawning /\ Unused(rc.name)
      BY <1>11 DEF SweepPost, SweepAt, SweepSpawning, Inv, NamesReserved
    <3>2. WorkConsistent' /\ FlyWork'
      BY <1>11, <2>3, <3>1, CreatedWork DEF SweepPost
    <3>3. NamesReserved'
      BY <1>11, <2>1, <2>3, <3>1 DEF SweepPost, Created, Inv, NamesReserved, Unused,
                                     QueuedSpawning, SweepSpawning
    <3>4. QED
      BY <1>1, <3>2, <3>3 DEF Inv
  <2>4. QED
    BY <1>11, <2>2, <2>3 DEF SweepPost
<1>12. QED
  BY <1>6, <1>7, <1>8, <1>9, <1>10, <1>11 DEF ReconcilerStep

\* The reaper keeps the strengthened invariant: it frees a runner with its job.
LEMMA ReaperInv ==
    ASSUME TypeOK, Inv, ReaperStep
    PROVE  Inv'
<1> USE Shapes
<1>1. ASSUME UNCHANGED <<jobs, runner, machine, work, qh, rc, ch>> PROVE Inv'
  BY <1>1 DEF Inv, WorkConsistent, FlyWork, NamesReserved, Unused, QueuedSpawning,
              SweepSpawning, FoundNames
<1>2. CASE ReapList \/ ReapResolve
  BY <1>1, <1>2 DEF ReapList, ReapResolve
<1>3. ASSUME NEW n \in Names, ReapDestroy(n) PROVE Inv'
  <2>1. CASE Destroyed(n, ch)
    <3>1. FoundNames'
      BY <2>1, DeliverFound DEF Destroyed, Inv, FoundNames
    <3>2. QED
      BY <1>3, <2>1, <3>1, DestroyedWork DEF ReapDestroy, Inv
  <2>2. CASE UNCHANGED <<jobs, runner, machine, work, ch>>
    BY <1>1, <1>3, <2>2 DEF ReapDestroy
  <2>3. QED
    BY <1>3, <2>1, <2>2 DEF ReapDestroy
<1>4. QED
  BY <1>2, <1>3 DEF ReaperStep

\* A restart keeps the strengthened invariant: only handlers are lost.
LEMMA RestartInv ==
    ASSUME TypeOK, Inv, Restart
    PROVE  Inv'
<1>1. \A j \in Jobs : qh'[j].pc \notin {"resolve", "post"}
  BY Shapes DEF Restart, Deliveries
<1>2. \A j \in Jobs : ch'[j].pc \notin {"lookup", "deregister", "destroy"}
  BY Shapes DEF Restart, Hooks
<1>3. rc'.pc = "ready"
  BY DEF Restart, IdleSweep
<1>4. QED
  BY <1>1, <1>2, <1>3 DEF Restart, Inv, WorkConsistent, FlyWork, NamesReserved,
     QueuedSpawning, SweepSpawning, FoundNames

\* The strengthened invariant is inductive.
LEMMA NextInv == TypeOK /\ Inv /\ [Next]_vars => Inv'
<1>1. ASSUME TypeOK, Inv, UNCHANGED vars PROVE Inv'
  BY <1>1 DEF vars, Inv, WorkConsistent, FlyWork, NamesReserved, Unused, QueuedSpawning,
              SweepSpawning, FoundNames
<1>2. ASSUME TypeOK, Inv, EnvNext PROVE Inv'
  BY <1>2, EnvWork, EnvNames, EnvFound DEF Inv
<1>3. ASSUME TypeOK, Inv, NEW j \in Jobs, WebhookStep(j) PROVE Inv'
  BY <1>3, QueuedHandlerInv, CompletedHandlerInv DEF WebhookStep
<1>4. QED
  BY <1>1, <1>2, <1>3, ReconcilerInv, ReaperInv, RestartInv DEF Next, Webhooks

\* Whatever the four tasks, GitHub and Fly do in whatever order, no job runs
\* twice and every busy runner sits in a Machine that is up.
THEOREM WorkStaysConsistent == Spec => []WorkConsistent
<1>1. Init => TypeOK /\ Inv
  BY InitType, InitInv
<1>2. (TypeOK /\ Inv) /\ [Next]_vars => (TypeOK /\ Inv)'
  BY NextType, NextInv
<1>3. TypeOK /\ Inv => WorkConsistent
  BY DEF Inv
<1>4. QED
  BY <1>1, <1>2, <1>3, PTL DEF Spec

-----------------------------------------------------------------------------
(* Deregister first                                                        *)

\* A registration that is gone while a handler holds its name stays gone:
\* the name is not minted again, and no Machine registers it at boot.
LEMMA GoneStaysGone ==
    ASSUME TypeOK, RegisterAtMint, Next, NEW n \in Names, runner[n] = "none", Held(n)
    PROVE  runner'[n] = "none"
<1> USE Shapes
<1>1. ASSUME NEW m \in Names, NEW j \in Jobs, Minted(m, j) PROVE runner'[n] = "none"
  BY <1>1 DEF Minted, Fresh
<1>2. ASSUME NEW m, NEW hooks, Destroyed(m, hooks) PROVE runner'[n] = "none"
  BY <1>2 DEF Destroyed
<1>3. ASSUME EnvNext PROVE runner'[n] = "none"
  <2>1. ASSUME NEW j \in Jobs, JobQueued(j) \/ JobCancelled(j) \/ HostedJob(j) \/ LoseDelivery(j)
        PROVE  runner'[n] = "none"
    BY <2>1 DEF JobQueued, JobCancelled, HostedJob, LoseDelivery
  <2>2. ASSUME NEW m \in Names,
               \/ Boot(m) \/ BootFails(m) \/ Finish(m) \/ AutoDestroy(m)
               \/ RunnerCrash(m) \/ Prune(m)
        PROVE  runner'[n] = "none"
    BY <2>2 DEF Boot, BootFails, Finish, AutoDestroy, RunnerCrash, Prune
  <2>3. ASSUME NEW m \in Names, NEW j \in Jobs, Assign(m, j) PROVE runner'[n] = "none"
    BY <2>3 DEF Assign
  <2>4. QED
    BY <1>3, <2>1, <2>2, <2>3 DEF EnvNext, EnvStep, ImageRollover, Tick
<1>4. ASSUME NEW j \in Jobs, WebhookStep(j) PROVE runner'[n] = "none"
  <2>1. CASE QueuedNotForUs(j) \/ QueuedResolve(j) \/ QueuedPost(j) \/ CompletedFind(j)
             \/ CompletedLookup(j)
    BY <2>1 DEF QueuedNotForUs, QueuedResolve, QueuedPost, CompletedFind, CompletedLookup
  <2>2. CASE QueuedMint(j)
    BY <1>1, <2>2 DEF QueuedMint
  <2>3. CASE CompletedDeregister(j)
    BY <2>3 DEF CompletedDeregister
  <2>4. CASE CompletedDestroy(j)
    BY <1>2, <2>4 DEF CompletedDestroy
  <2>5. QED
    BY <1>4, <2>1, <2>2, <2>3, <2>4 DEF WebhookStep
<1>5. ASSUME ReconcilerStep PROVE runner'[n] = "none"
  BY <1>1, <1>5 DEF ReconcilerStep, ListRuns, ListJobs, ListMachines, SweepMint,
                    SweepResolve, SweepPost
<1>6. ASSUME ReaperStep PROVE runner'[n] = "none"
  BY <1>2, <1>6 DEF ReaperStep, ReapList, ReapResolve, ReapDestroy
<1>7. QED
  BY <1>3, <1>4, <1>5, <1>6 DEF Next, Webhooks, Restart

\* A handler is at its destroy step only if it was there before, or has just
\* seen the registration gone.
LEMMA ReachesDestroy ==
    ASSUME TypeOK, Inv, Next, NEW j \in Jobs, ch'[j].pc = "destroy"
    PROVE  \/ ch[j].pc = "destroy" /\ ch'[j].name = ch[j].name
           \/ ch'[j].name \in Names /\ runner'[ch'[j].name] = "none"
<1> USE Shapes
<1> DEFINE Goal == \/ ch[j].pc = "destroy" /\ ch'[j].name = ch[j].name
                   \/ ch'[j].name \in Names /\ runner'[ch'[j].name] = "none"
<1> SUFFICES Goal
  OBVIOUS
<1>1. ch' = ch => Goal
  OBVIOUS
<1>2. \A k : ch' = Deliver(ch, k) => Goal
  BY DEF Deliver, Hooks
<1>3. \A k : ch' = [ch EXCEPT ![k].pc = "done"] => Goal
  BY DEF Hooks
<1>4. \A k : ch' = [ch EXCEPT ![k] = [pc |-> "done", name |-> NoName]] => Goal
  BY DEF Hooks
<1>5. ASSUME EnvNext PROVE Goal
  <2>1. ASSUME NEW k \in Jobs, JobQueued(k) \/ JobCancelled(k) \/ HostedJob(k) \/ LoseDelivery(k)
        PROVE  Goal
    BY <1>1, <1>2, <1>3, <2>1 DEF JobQueued, JobCancelled, HostedJob, LoseDelivery
  <2>2. ASSUME NEW m \in Names,
               \/ Boot(m) \/ BootFails(m) \/ Finish(m) \/ AutoDestroy(m)
               \/ RunnerCrash(m) \/ Prune(m)
        PROVE  Goal
    BY <1>1, <1>2, <2>2 DEF Boot, BootFails, Finish, AutoDestroy, RunnerCrash, Prune
  <2>3. ASSUME NEW m \in Names, NEW k \in Jobs, Assign(m, k) PROVE Goal
    BY <1>1, <2>3 DEF Assign
  <2>4. QED
    BY <1>1, <1>5, <2>1, <2>2, <2>3 DEF EnvNext, EnvStep, ImageRollover, Tick
<1>6. ASSUME NEW k \in Jobs, WebhookStep(k) PROVE Goal
  <2>1. CASE QueuedNotForUs(k) \/ QueuedMint(k) \/ QueuedResolve(k) \/ QueuedPost(k)
    BY <1>1, <2>1 DEF QueuedNotForUs, QueuedMint, QueuedResolve, QueuedPost
  <2>2. CASE CompletedFind(k)
    <3>1. \A n : ch' = [ch EXCEPT ![k] = [pc |-> "lookup", name |-> n]] => Goal
      BY DEF Hooks
    <3>2. QED
      BY <1>4, <2>2, <3>1 DEF CompletedFind, CompletedReturn
  <2>3. CASE CompletedLookup(k)
    <3>1. ch[k].name \in Names
      BY <2>3 DEF CompletedLookup, CompletedAt, Inv, FoundNames
    <3>2. ASSUME ch' = [ch EXCEPT ![k].pc = AfterLookup(runner[ch[k].name])] PROVE Goal
      <4>1. CASE k = j
        <5>1. AfterLookup(runner[ch[k].name]) = "destroy" /\ ch'[j].name = ch[k].name
          BY <3>2, <4>1 DEF Hooks
        <5>2. runner[ch[k].name] = "none"
          BY <5>1 DEF AfterLookup
        <5>3. QED
          BY <2>3, <3>1, <5>1, <5>2 DEF CompletedLookup
      <4>2. CASE k # j
        BY <3>2, <4>2 DEF Hooks
      <4>3. QED
        BY <4>1, <4>2
    <3>3. QED
      BY <1>4, <2>3, <3>2 DEF CompletedLookup, CompletedReturn
  <2>4. CASE CompletedDeregister(k)
    <3>1. ch[k].name \in Names
      BY <2>4 DEF CompletedDeregister, CompletedAt, Inv, FoundNames
    <3>2. ASSUME ch' = [ch EXCEPT ![k].pc = "destroy"],
                 AfterDelete(runner[ch[k].name]) = "destroy"
          PROVE  Goal
      <4>1. runner'[ch[k].name] = "none"
        BY <2>4, <3>1, <3>2 DEF CompletedDeregister, CompletedReturn, AfterDelete, Hooks
      <4>2. QED
        BY <3>1, <3>2, <4>1 DEF Hooks
    <3>3. QED
      BY <1>4, <2>4, <3>2 DEF CompletedDeregister, CompletedReturn
  <2>5. CASE CompletedDestroy(k)
    <3> DEFINE returned == [ch EXCEPT ![k] = [pc |-> "done", name |-> NoName]]
    <3>1. \A i : ch' = Deliver(returned, i) => Goal
      BY DEF Deliver, Hooks
    <3>2. QED
      BY <1>4, <2>5, <3>1 DEF CompletedDestroy, Destroyed
  <2>6. QED
    BY <1>6, <2>1, <2>2, <2>3, <2>4, <2>5 DEF WebhookStep
<1>7. ASSUME ReconcilerStep PROVE Goal
  BY <1>1, <1>7 DEF ReconcilerStep, ListRuns, ListJobs, ListMachines, SweepMint,
                    SweepResolve, SweepPost
<1>8. ASSUME ReaperStep PROVE Goal
  BY <1>1, <1>2, <1>8 DEF ReaperStep, ReapList, ReapResolve, ReapDestroy, Destroyed
<1>9. ASSUME Restart PROVE Goal
  BY <1>1, <1>9 DEF Restart, Hooks
<1>10. QED
  BY <1>5, <1>6, <1>7, <1>8, <1>9 DEF Next, Webhooks

\* No step registers a runner under the name a completed handler is to destroy.
LEMMA NextDeregistered ==
    ASSUME TypeOK, Inv, RegisterAtMint, DestroyOnlyDeregistered, [Next]_vars
    PROVE  DestroyOnlyDeregistered'
<1>1. CASE UNCHANGED vars
  BY <1>1 DEF vars, DestroyOnlyDeregistered
<1>2. ASSUME Next, NEW j \in Jobs, ch'[j].pc = "destroy"
      PROVE  runner'[ch'[j].name] = "none"
  <2>1. CASE ch'[j].name \in Names /\ runner'[ch'[j].name] = "none"
    BY <2>1
  <2>2. CASE ch[j].pc = "destroy" /\ ch'[j].name = ch[j].name
    <3>1. ch[j].name \in Names /\ runner[ch[j].name] = "none" /\ Held(ch[j].name)
      BY <2>2 DEF Inv, FoundNames, DestroyOnlyDeregistered, Held
    <3>2. QED
      BY <1>2, <2>2, <3>1, GoneStaysGone
  <2>3. QED
    BY <1>2, <2>1, <2>2, ReachesDestroy
<1>3. QED
  BY <1>1, <1>2 DEF DestroyOnlyDeregistered

\* With every task running: handle_completed never destroys a Machine whose
\* runner GitHub could still give work to.
THEOREM DeregisterFirst ==
    ASSUME RegisterAtMint
    PROVE  Spec => []DestroyOnlyDeregistered
<1>1. Init => TypeOK /\ Inv /\ DestroyOnlyDeregistered
  BY InitType, InitInv DEF Init, DestroyOnlyDeregistered
<1>2. (TypeOK /\ Inv /\ DestroyOnlyDeregistered) /\ [Next]_vars
        => (TypeOK /\ Inv /\ DestroyOnlyDeregistered)'
  BY NextType, NextInv, NextDeregistered
<1>3. QED
  BY <1>1, <1>2, PTL DEF Spec

\* No step of the tasks that spawn kills a running job.
LEMMA NextUnkilled ==
    ASSUME TypeOK, Inv, DestroyOnlyDeregistered, NoJobKilled, [SpawnNext]_vars
    PROVE  NoJobKilled'
<1> USE Shapes DEF NoJobKilled
<1>1. jobs' = jobs => NoJobKilled'
  OBVIOUS
<1>2. ASSUME EnvNext PROVE NoJobKilled'
  <2>1. ASSUME NEW j \in Jobs, JobQueued(j) \/ JobCancelled(j) \/ HostedJob(j) \/ LoseDelivery(j)
        PROVE  NoJobKilled'
    BY <2>1 DEF JobQueued, JobCancelled, HostedJob, LoseDelivery
  <2>2. ASSUME NEW m \in Names,
               \/ Boot(m) \/ BootFails(m) \/ Finish(m) \/ AutoDestroy(m)
               \/ RunnerCrash(m) \/ Prune(m)
        PROVE  NoJobKilled'
    BY <2>2 DEF Boot, BootFails, Finish, AutoDestroy, RunnerCrash, Prune
  <2>3. ASSUME NEW m \in Names, NEW j \in Jobs, Assign(m, j) PROVE NoJobKilled'
    BY <2>3 DEF Assign
  <2>4. QED
    BY <1>1, <1>2, <2>1, <2>2, <2>3 DEF EnvNext, EnvStep, ImageRollover, Tick
<1>3. ASSUME NEW j \in Jobs, WebhookStep(j) PROVE NoJobKilled'
  <2>1. CASE CompletedDestroy(j)
    <3>1. runner[ch[j].name] # "busy"
      BY <2>1 DEF CompletedDestroy, CompletedAt, DestroyOnlyDeregistered
    <3>2. QED
      BY <1>1, <2>1, <3>1 DEF CompletedDestroy, Destroyed
  <2>2. CASE ~CompletedDestroy(j)
    BY <1>1, <1>3, <2>2 DEF WebhookStep, QueuedNotForUs, QueuedMint, QueuedResolve,
       QueuedPost, CompletedFind, CompletedLookup, CompletedDeregister
  <2>3. QED
    BY <2>1, <2>2
<1>4. ASSUME ReconcilerStep \/ Restart PROVE NoJobKilled'
  BY <1>1, <1>4 DEF ReconcilerStep, ListRuns, ListJobs, ListMachines, SweepMint,
                    SweepResolve, SweepPost, Restart
<1>5. QED
  BY <1>1, <1>2, <1>3, <1>4 DEF SpawnNext, Webhooks, vars

\* Without the reaper, no running job is ever killed.
THEOREM JobsSurvive ==
    ASSUME RegisterAtMint
    PROVE  SpawnSpec => []NoJobKilled
<1> DEFINE Safe == TypeOK /\ Inv /\ DestroyOnlyDeregistered /\ NoJobKilled
<1>1. Init => Safe
  BY InitType, InitInv DEF Init, DestroyOnlyDeregistered, NoJobKilled
<1>2. [SpawnNext]_vars => [Next]_vars
  BY DEF SpawnNext, Next
<1>3. Safe /\ [SpawnNext]_vars => Safe'
  BY <1>2, NextType, NextInv, NextDeregistered, NextUnkilled
<1>4. Safe => NoJobKilled
  OBVIOUS
<1>5. QED
  BY <1>1, <1>3, <1>4, PTL DEF SpawnSpec
-----------------------------------------------------------------------------
USE FleetAssumption
USE DEF JobStates, RunnerStates, MachineStates, QueuedPC, CompletedPC, SweepPC, ReapPC, CountCap

-----------------------------------------------------------------------------
(* The inductive invariant                                                 *)
(*                                                                         *)
(* A bound on the Machines of a job is not inductive: it must count the    *)
(* Machines still to come.  The queued webhook of a job may create one     *)
(* until it is done, and the sweep one for each job it has left to serve;  *)
(* SpawnsTrue says that the Machine a POST creates is that job's.          *)

HookMay(j)  == qh[j].pc # "done"
SweepMay(j) == j \in rc.missing \cup {rc.job}

\* The name being spawned is minted for the job it is spawned for.
OwnersTrue ==
    /\ \A j \in Jobs : QueuedSpawning(j) => owner[qh[j].name] = j
    /\ SweepSpawning => owner[rc.name] = rc.job

\* GitHub delivers a job's queued webhook once.
DeliveredOnce == \A j \in Jobs : jobs[j] = "unborn" => qh[j].pc = "none"

\* The sweep has a job in hand only while it spawns for it, and that job is
\* not one it has still to serve.
OneInHand ==
    /\ SweepSpawning \/ rc.job = NoJob
    /\ rc.job \notin rc.missing

SpawnsTrue == OwnersTrue /\ DeliveredOnce /\ OneInHand

\* Machines that live and may still come.
May(b) == IF b THEN 1 ELSE 0

BothSpawn ==
    \A j \in Jobs : /\ IsFiniteSet(MachinesOf(j))
                    /\ Cardinality(MachinesOf(j)) + May(HookMay(j)) + May(SweepMay(j)) <= 2

SweepSpawns ==
    /\ \A j \in Jobs : ~QueuedSpawning(j)
    /\ \A j \in Jobs : /\ IsFiniteSet(MachinesOf(j))
                       /\ Cardinality(MachinesOf(j)) + May(SweepMay(j)) <= 1

-----------------------------------------------------------------------------
(* What a step does to the spawns *)

\* Nothing has been spawned, and nothing is being spawned, at first.
LEMMA InitSpawns == Init => SpawnsTrue /\ BothSpawn /\ SweepSpawns
<1> SUFFICES ASSUME Init PROVE SpawnsTrue /\ BothSpawn /\ SweepSpawns
  OBVIOUS
<1>1. SpawnsTrue
  BY DEF Init, SpawnsTrue, OwnersTrue, DeliveredOnce, OneInHand, QueuedSpawning, SweepSpawning,
         IdleSweep
<1>2. \A j \in Jobs : MachinesOf(j) = {} /\ ~SweepMay(j) /\ ~QueuedSpawning(j)
  BY DEF Init, MachinesOf, Live, SweepMay, IdleSweep, QueuedSpawning
<1>3. QED
  BY <1>1, <1>2, FS_EmptySet DEF BothSpawn, SweepSpawns, May

\* GitHub, Fly and the clock start no Machine and hand no handler or sweep a job.
LEMMA EnvSpawns ==
    ASSUME TypeOK, Inv, SpawnsTrue, EnvNext
    PROVE  /\ owner' = owner /\ Live' \subseteq Live
           /\ \A j \in Jobs : HookMay(j)' => HookMay(j)
           /\ \A j \in Jobs : QueuedSpawning(j)' => QueuedSpawning(j) /\ qh'[j].name = qh[j].name
           /\ rc'.missing = rc.missing /\ rc'.job = rc.job /\ rc'.name = rc.name
           /\ SweepSpawning' <=> SweepSpawning
           /\ DeliveredOnce'
<1> DEFINE Owned == owner' = owner /\ Live' \subseteq Live
           Hooked ==
               /\ \A j \in Jobs : HookMay(j)' => HookMay(j)
               /\ \A j \in Jobs : QueuedSpawning(j)' => QueuedSpawning(j) /\ qh'[j].name = qh[j].name
           Swept ==
               /\ rc'.missing = rc.missing /\ rc'.job = rc.job /\ rc'.name = rc.name
               /\ SweepSpawning' <=> SweepSpawning
<1> USE Shapes
<1>1. qh' = qh => Hooked
  BY DEF HookMay, QueuedSpawning
<1>2. rc' = rc => Swept
  BY DEF SweepSpawning
<1>3. qh' = qh /\ (\A j \in Jobs : jobs'[j] = "unborn" => jobs[j] = "unborn") => DeliveredOnce'
  BY DEF SpawnsTrue, DeliveredOnce
<1>4. machine' = machine => Live' = Live
  BY DEF Live
<1>5. ASSUME NEW j \in Jobs, JobQueued(j) PROVE Owned /\ Hooked /\ Swept /\ DeliveredOnce'
  <2>1. qh[j].pc = "none" /\ qh' = [qh EXCEPT ![j].pc = "inflight"]
    BY <1>5 DEF JobQueued, Deliver, SpawnsTrue, DeliveredOnce
  <2>2. Hooked
    BY <2>1 DEF HookMay, QueuedSpawning, Deliveries
  <2>3. DeliveredOnce'
    BY <1>5, <2>1 DEF JobQueued, SpawnsTrue, DeliveredOnce, Deliveries
  <2>4. QED
    BY <1>2, <1>4, <1>5, <2>2, <2>3 DEF JobQueued
<1>6. ASSUME NEW j \in Jobs, JobCancelled(j) \/ HostedJob(j)
      PROVE  Owned /\ Hooked /\ Swept /\ DeliveredOnce'
  BY <1>1, <1>2, <1>3, <1>4, <1>6 DEF JobCancelled, HostedJob
<1>7. ASSUME NEW j \in Jobs, LoseDelivery(j) PROVE Owned /\ Hooked /\ Swept /\ DeliveredOnce'
  <2>1. CASE qh' = qh
    BY <1>1, <1>2, <1>3, <1>4, <1>7, <2>1 DEF LoseDelivery
  <2>2. CASE qh[j].pc = "inflight" /\ qh' = [qh EXCEPT ![j].pc = "done"]
    <3>1. Hooked
      BY <2>2 DEF HookMay, QueuedSpawning, Deliveries
    <3>2. DeliveredOnce'
      BY <1>7, <2>2 DEF LoseDelivery, SpawnsTrue, DeliveredOnce, Deliveries
    <3>3. QED
      BY <1>2, <1>4, <1>7, <3>1, <3>2 DEF LoseDelivery
  <2>3. QED
    BY <1>7, <2>1, <2>2 DEF LoseDelivery
<1>8. ASSUME NEW n \in Names, Boot(n) \/ BootFails(n) \/ AutoDestroy(n) \/ Prune(n)
      PROVE  Owned /\ Hooked /\ Swept /\ DeliveredOnce'
  BY <1>1, <1>2, <1>3, <1>8 DEF Boot, BootFails, AutoDestroy, Prune, Live
<1>9. ASSUME NEW n \in Names, Finish(n) \/ RunnerCrash(n)
      PROVE  Owned /\ Hooked /\ Swept /\ DeliveredOnce'
  <2>1. machine[n] = "up"
    BY <1>9 DEF Finish, RunnerCrash, Inv, WorkConsistent
  <2>2. Live' \subseteq Live
    BY <1>9, <2>1 DEF Finish, RunnerCrash, Live
  <2>3. \A j \in Jobs : jobs'[j] = "unborn" => jobs[j] = "unborn"
    BY <1>9 DEF Finish, RunnerCrash
  <2>4. QED
    BY <1>1, <1>2, <1>3, <1>9, <2>2, <2>3 DEF Finish, RunnerCrash
<1>10. ASSUME NEW n \in Names, NEW j \in Jobs, Assign(n, j)
       PROVE  Owned /\ Hooked /\ Swept /\ DeliveredOnce'
  BY <1>1, <1>2, <1>3, <1>4, <1>10 DEF Assign
<1>11. ASSUME ImageRollover PROVE Owned /\ Hooked /\ Swept /\ DeliveredOnce'
  BY <1>1, <1>2, <1>3, <1>4, <1>11 DEF ImageRollover
<1>12. ASSUME Tick PROVE Owned /\ Hooked /\ Swept /\ DeliveredOnce'
  <2>1. /\ rc'.pc = (IF rc.pc = "sleep" THEN "ready" ELSE rc.pc)
        /\ rc'.missing = rc.missing /\ rc'.job = rc.job /\ rc'.name = rc.name
    BY <1>12 DEF Tick, Sweeps
  <2>2. Swept
    BY <2>1 DEF SweepSpawning
  <2>3. QED
    BY <1>1, <1>3, <1>4, <1>12, <2>2 DEF Tick
<1>13. QED
  BY <1>5, <1>6, <1>7, <1>8, <1>9, <1>10, <1>11, <1>12 DEF EnvNext, EnvStep

\* A mint names a Machine that does not live, and nobody else's.
LEMMA MintSpawns ==
    ASSUME TypeOK, Inv, SpawnsTrue, NEW n \in Names, NEW j \in Jobs, Minted(n, j), UNCHANGED machine
    PROVE  /\ \A i \in Jobs : MachinesOf(i)' = MachinesOf(i)
           /\ owner'[n] = j
           /\ \A i \in Jobs : QueuedSpawning(i) => owner'[qh[i].name] = i
           /\ SweepSpawning => owner'[rc.name] = rc.job
<1>1. /\ machine[n] = "none" /\ ~Held(n)
      /\ owner \in [Names -> Jobs \cup {NoJob}] /\ owner' = [owner EXCEPT ![n] = j]
  BY DEF Minted, Fresh, TypeOK
<1>2. \A i \in Jobs : MachinesOf(i)' = MachinesOf(i)
  BY <1>1 DEF MachinesOf, Live
<1>3. QED
  BY <1>1, <1>2 DEF Held, SpawnsTrue, OwnersTrue

\* What a step may do to the Machines that a job has and may still get: keep
\* or lose them, turn the webhook's or the sweep's one into a Machine, or put
\* the job on the list of a sweep when it has none.
Keeps(j) ==
    /\ MachinesOf(j)' \subseteq MachinesOf(j)
    /\ HookMay(j)' => HookMay(j)
    /\ SweepMay(j)' => SweepMay(j)
HookPosts(j) ==
    /\ \E n : MachinesOf(j)' \subseteq MachinesOf(j) \cup {n}
    /\ QueuedSpawning(j) /\ ~HookMay(j)'
    /\ SweepMay(j)' => SweepMay(j)
SweepPosts(j) ==
    /\ \E n : MachinesOf(j)' \subseteq MachinesOf(j) \cup {n}
    /\ HookMay(j)' => HookMay(j)
    /\ SweepMay(j) /\ ~SweepMay(j)'
SweepTakes(j) ==
    /\ MachinesOf(j) = {} /\ MachinesOf(j)' = {}
    /\ HookMay(j)' => HookMay(j)

\* handle_queued turns its one Machine to come into a Machine of its job.
LEMMA QueuedHandlerSpawns ==
    ASSUME TypeOK, Inv, SpawnsTrue, NEW j \in Jobs,
           QueuedNotForUs(j) \/ QueuedMint(j) \/ QueuedResolve(j) \/ QueuedPost(j)
    PROVE  SpawnsTrue' /\ \A i \in Jobs : Keeps(i) \/ HookPosts(i)
<1> USE Shapes
<1>1. qh[j].pc \in {"inflight", "resolve", "post"} /\ HookMay(j) /\ jobs' = jobs /\ rc' = rc
  BY DEF QueuedNotForUs, QueuedMint, QueuedResolve, QueuedPost, QueuedAt, HookMay
<1>2. OneInHand' /\ \A i \in Jobs : SweepMay(i)' <=> SweepMay(i)
  BY <1>1 DEF SpawnsTrue, OneInHand, SweepSpawning, SweepMay
<1>3. /\ qh'[j].pc # "none" /\ \A i \in Jobs \ {j} : qh'[i] = qh[i]
  BY DEF QueuedNotForUs, QueuedMint, QueuedResolve, QueuedPost, QueuedReturn, QueuedAt, Deliveries
<1>4. \A i \in Jobs : HookMay(i)' => HookMay(i)
  BY <1>1, <1>3 DEF HookMay
<1>5. DeliveredOnce'
  <2>1. jobs[j] # "unborn"
    BY <1>1 DEF SpawnsTrue, DeliveredOnce
  <2>2. QED
    BY <1>1, <1>3, <2>1 DEF SpawnsTrue, DeliveredOnce
<1>6. ASSUME UNCHANGED <<machine, owner>>,
             ~QueuedSpawning(j)' \/ (QueuedSpawning(j) /\ qh'[j].name = qh[j].name)
      PROVE  SpawnsTrue' /\ \A i \in Jobs : Keeps(i) \/ HookPosts(i)
  <2>1. OwnersTrue'
    BY <1>1, <1>3, <1>6 DEF SpawnsTrue, OwnersTrue, QueuedSpawning, SweepSpawning
  <2>2. \A i \in Jobs : MachinesOf(i)' = MachinesOf(i)
    BY <1>6 DEF MachinesOf, Live
  <2>3. \A i \in Jobs : Keeps(i)
    BY <1>2, <1>4, <2>2 DEF Keeps
  <2>4. QED
    BY <1>2, <1>5, <2>1, <2>3 DEF SpawnsTrue
<1>7. CASE QueuedNotForUs(j)
  BY <1>6, <1>7 DEF QueuedNotForUs, QueuedReturn, QueuedSpawning, Deliveries
<1>8. CASE QueuedMint(j)
  <2>1. CASE UNCHANGED owner /\ QueuedReturn(j)
    <3>1. ~QueuedSpawning(j)'
      BY <2>1 DEF QueuedReturn, QueuedSpawning, Deliveries
    <3>2. UNCHANGED machine
      BY <1>8 DEF QueuedMint
    <3>3. QED
      BY <1>6, <2>1, <3>1, <3>2
  <2>2. ASSUME NEW n \in Names, Minted(n, j), qh' = [qh EXCEPT ![j].pc = "resolve", ![j].name = n]
        PROVE  SpawnsTrue' /\ \A i \in Jobs : Keeps(i) \/ HookPosts(i)
    <3>1. UNCHANGED machine
      BY <1>8 DEF QueuedMint
    <3>2. OwnersTrue'
      BY <1>1, <1>3, <2>2, <3>1, MintSpawns DEF OwnersTrue, QueuedSpawning, SweepSpawning, Deliveries
    <3>3. QED
      BY <1>2, <1>4, <1>5, <2>2, <3>1, <3>2, MintSpawns DEF SpawnsTrue, Keeps
  <2>3. QED
    BY <1>8, <2>1, <2>2 DEF QueuedMint
<1>9. CASE QueuedResolve(j)
  BY <1>6, <1>9 DEF QueuedResolve, QueuedAt, QueuedReturn, QueuedSpawning, Deliveries
<1>10. CASE QueuedPost(j)
  <2>1. QueuedSpawning(j) /\ owner' = owner /\ qh'[j].pc = "done"
    BY <1>10 DEF QueuedPost, QueuedAt, QueuedReturn, QueuedSpawning, Deliveries
  <2>2. CASE UNCHANGED machine
    BY <1>6, <2>1, <2>2 DEF QueuedSpawning
  <2>3. CASE Created(qh[j].name, qh[j].img)
    <3>1. owner[qh[j].name] = j
      BY <2>1 DEF SpawnsTrue, OwnersTrue
    <3>2. Live' \subseteq Live \cup {qh[j].name}
      BY <2>3 DEF Live, Created
    <3>3. \A i \in Jobs \ {j} : MachinesOf(i)' \subseteq MachinesOf(i)
      BY <2>1, <3>1, <3>2 DEF MachinesOf
    <3>4. \E n : MachinesOf(j)' \subseteq MachinesOf(j) \cup {n}
      BY <2>1, <3>2 DEF MachinesOf
    <3>5. OwnersTrue'
      BY <1>1, <1>3, <2>1 DEF SpawnsTrue, OwnersTrue, QueuedSpawning, SweepSpawning
    <3>6. HookPosts(j) /\ \A i \in Jobs \ {j} : Keeps(i)
      BY <1>2, <1>4, <2>1, <3>3, <3>4 DEF HookPosts, Keeps, HookMay
    <3>7. QED
      BY <1>2, <1>5, <3>5, <3>6 DEF SpawnsTrue
  <2>4. QED
    BY <1>10, <2>2, <2>3 DEF QueuedPost
<1>11. QED
  BY <1>7, <1>8, <1>9, <1>10

\* handle_completed, the reaper and GitHub's own steps spawn nothing.
LEMMA OthersSpawn ==
    ASSUME TypeOK, Inv, SpawnsTrue,
           \/ EnvNext \/ ReaperStep
           \/ \E j \in Jobs : \/ CompletedFind(j) \/ CompletedLookup(j)
                             \/ CompletedDeregister(j) \/ CompletedDestroy(j)
    PROVE  /\ SpawnsTrue' /\ \A i \in Jobs : Keeps(i)
           /\ (\A i \in Jobs : ~QueuedSpawning(i)) => \A i \in Jobs : ~QueuedSpawning(i)'
<1> USE Shapes
<1>1. CASE EnvNext
  <2>1. /\ owner' = owner /\ Live' \subseteq Live
        /\ \A j \in Jobs : HookMay(j)' => HookMay(j)
        /\ \A j \in Jobs : QueuedSpawning(j)' => QueuedSpawning(j) /\ qh'[j].name = qh[j].name
        /\ rc'.missing = rc.missing /\ rc'.job = rc.job /\ rc'.name = rc.name
        /\ SweepSpawning' <=> SweepSpawning
        /\ DeliveredOnce'
    BY <1>1, EnvSpawns
  <2>2. OwnersTrue'
    BY <2>1 DEF SpawnsTrue, OwnersTrue, QueuedSpawning, SweepSpawning
  <2>3. OneInHand'
    BY <2>1 DEF SpawnsTrue, OneInHand
  <2>4. \A i \in Jobs : Keeps(i)
    BY <2>1 DEF Keeps, MachinesOf, HookMay, SweepMay
  <2>5. (\A i \in Jobs : ~QueuedSpawning(i)) => \A i \in Jobs : ~QueuedSpawning(i)'
    BY <2>1 DEF QueuedSpawning
  <2>6. QED
    BY <2>1, <2>2, <2>3, <2>4, <2>5 DEF SpawnsTrue
<1>2. ASSUME UNCHANGED <<owner, qh, rc>>, Live' \subseteq Live,
             \A j \in Jobs : jobs'[j] = "unborn" => jobs[j] = "unborn"
      PROVE  /\ SpawnsTrue' /\ \A i \in Jobs : Keeps(i)
             /\ (\A i \in Jobs : ~QueuedSpawning(i)) => \A i \in Jobs : ~QueuedSpawning(i)'
  BY <1>2 DEF SpawnsTrue, OwnersTrue, DeliveredOnce, OneInHand, QueuedSpawning, SweepSpawning,
              Keeps, MachinesOf, HookMay, SweepMay
<1>3. ASSUME NEW n, NEW hooks, Destroyed(n, hooks)
      PROVE  Live' \subseteq Live /\ \A j \in Jobs : jobs'[j] = "unborn" => jobs[j] = "unborn"
  BY <1>3 DEF Destroyed, Live
<1>4. CASE ReaperStep
  <2>1. UNCHANGED <<owner, qh, rc>>
    BY <1>4 DEF ReaperStep, ReapList, ReapResolve, ReapDestroy
  <2>2. UNCHANGED <<jobs, machine>> \/ \E n, hooks : Destroyed(n, hooks)
    BY <1>4 DEF ReaperStep, ReapList, ReapResolve, ReapDestroy
  <2>3. QED
    BY <1>2, <1>3, <2>1, <2>2 DEF Live
<1>5. ASSUME NEW j \in Jobs,
             \/ CompletedFind(j) \/ CompletedLookup(j)
             \/ CompletedDeregister(j) \/ CompletedDestroy(j)
      PROVE  /\ SpawnsTrue' /\ \A i \in Jobs : Keeps(i)
             /\ (\A i \in Jobs : ~QueuedSpawning(i)) => \A i \in Jobs : ~QueuedSpawning(i)'
  <2>1. UNCHANGED <<owner, qh, rc>>
    BY <1>5 DEF CompletedFind, CompletedLookup, CompletedDeregister, CompletedDestroy
  <2>2. UNCHANGED <<jobs, machine>> \/ \E n, hooks : Destroyed(n, hooks)
    BY <1>5 DEF CompletedFind, CompletedLookup, CompletedDeregister, CompletedDestroy
  <2>3. QED
    BY <1>2, <1>3, <2>1, <2>2 DEF Live
<1>6. QED
  BY <1>1, <1>4, <1>5

\* Where a sweep goes after a job it has not spawned for, or has given up on.
LEMMA NextJobSpawns ==
    ASSUME rc \in Sweeps, NEW left \in SUBSET Jobs, NextJob(left) \/ SweepOver
    PROVE  /\ ~SweepSpawning' /\ rc'.job = NoJob /\ rc'.missing \subseteq left
           /\ OneInHand' /\ \A j \in Jobs : SweepMay(j)' => j \in left
<1>1. CASE NextJob(left) /\ left # {}
  <2>1. rc' = [rc EXCEPT !.pc = "mint", !.missing = left, !.job = NoJob, !.name = NoName]
    BY <1>1 DEF NextJob
  <2>2. rc'.pc = "mint" /\ rc'.missing = left /\ rc'.job = NoJob
    BY <2>1 DEF Sweeps
  <2>3. QED
    BY <2>2 DEF SweepSpawning, OneInHand, SweepMay, FleetAssumption
<1>2. CASE rc' = [IdleSweep EXCEPT !.pc = "sleep"]
  <2>1. rc'.pc = "sleep" /\ rc'.missing = {} /\ rc'.job = NoJob
    BY <1>2 DEF IdleSweep
  <2>2. QED
    BY <2>1 DEF SweepSpawning, OneInHand, SweepMay, FleetAssumption
<1>3. QED
  BY <1>1, <1>2 DEF NextJob, SweepOver

\* The sweep lists only jobs with no Machine, and turns its one Machine to come
\* for a job into a Machine of that job.
LEMMA ReconcilerSpawns ==
    ASSUME TypeOK, Inv, SpawnsTrue, ReconcilerStep
    PROVE  /\ SpawnsTrue' /\ qh' = qh
           /\ \A i \in Jobs : Keeps(i) \/ SweepPosts(i) \/ SweepTakes(i)
<1> DEFINE Goal == SpawnsTrue' /\ \A i \in Jobs : Keeps(i) \/ SweepPosts(i) \/ SweepTakes(i)
<1> USE Shapes
<1>1. qh' = qh /\ jobs' = jobs /\ rc.missing \in SUBSET Jobs
  BY DEF ReconcilerStep, ListRuns, ListJobs, ListMachines, SweepMint, SweepResolve, SweepPost, Sweeps
<1> SUFFICES Goal
  BY <1>1
<1>2. /\ DeliveredOnce'
      /\ \A i \in Jobs : (HookMay(i)' <=> HookMay(i)) /\ (QueuedSpawning(i)' <=> QueuedSpawning(i))
  BY <1>1 DEF SpawnsTrue, DeliveredOnce, HookMay, QueuedSpawning
<1>3. ASSUME UNCHANGED <<machine, owner>>,
             OneInHand', SweepSpawning' => owner[rc'.name] = rc'.job,
             \A i \in Jobs : SweepMay(i)' => SweepMay(i)
      PROVE  Goal
  <2>1. OwnersTrue'
    BY <1>1, <1>2, <1>3 DEF SpawnsTrue, OwnersTrue
  <2>2. \A i \in Jobs : MachinesOf(i)' = MachinesOf(i)
    BY <1>3 DEF MachinesOf, Live
  <2>3. QED
    BY <1>2, <1>3, <2>1, <2>2 DEF SpawnsTrue, Keeps
<1>4. ASSUME NEW left \in SUBSET rc.missing, NextJob(left) \/ SweepOver, UNCHANGED <<machine, owner>>
      PROVE  Goal
  BY <1>1, <1>3, <1>4, NextJobSpawns DEF SweepMay
<1>5. CASE ListRuns
  <2>1. CASE rc' = [rc EXCEPT !.pc = "jobs", !.runs = QueuedRuns]
    <3>1. rc'.pc = "jobs" /\ rc'.missing = rc.missing /\ rc'.job = rc.job /\ ~SweepSpawning
      BY <1>5, <2>1 DEF Sweeps, ListRuns, SweepAt, SweepSpawning
    <3>2. OneInHand' /\ ~SweepSpawning' /\ \A i \in Jobs : SweepMay(i)' => SweepMay(i)
      BY <3>1 DEF SpawnsTrue, OneInHand, SweepMay, SweepSpawning
    <3>3. QED
      BY <1>3, <1>5, <3>2 DEF ListRuns
  <2>2. CASE SweepOver
    BY <1>4, <1>5, <2>2 DEF ListRuns
  <2>3. QED
    BY <1>5, <2>1, <2>2 DEF ListRuns
<1>6. ASSUME NEW r \in Runs, ListJobs(r) PROVE Goal
  <2>1. CASE rc' = [rc EXCEPT !.runs = @ \ {r}, !.queued = @ \cup QueuedFlyJobs(r)]
    <3>1. rc'.pc = rc.pc /\ rc'.missing = rc.missing /\ rc'.job = rc.job /\ ~SweepSpawning
      BY <1>6, <2>1 DEF Sweeps, ListJobs, SweepAt, SweepSpawning
    <3>2. OneInHand' /\ ~SweepSpawning' /\ \A i \in Jobs : SweepMay(i)' => SweepMay(i)
      BY <3>1 DEF SpawnsTrue, OneInHand, SweepMay, SweepSpawning
    <3>3. QED
      BY <1>3, <1>6, <3>2 DEF ListJobs
  <2>2. CASE SweepOver
    BY <1>4, <1>6, <2>2 DEF ListJobs
  <2>3. QED
    BY <1>6, <2>1, <2>2 DEF ListJobs
<1>7. CASE ListMachines
  <2>1. CASE rc' = [rc EXCEPT !.pc = "mint", !.missing = Missing(rc.queued), !.since = 0]
    <3>1. rc'.pc = "mint" /\ rc'.missing = Missing(rc.queued) /\ rc'.job = rc.job
      BY <2>1 DEF Sweeps
    <3>2. rc.job = NoJob
      BY <1>7 DEF ListMachines, SweepAt, SweepSpawning, SpawnsTrue, OneInHand
    <3>3. OneInHand' /\ ~SweepSpawning'
      <4>1. NoJob \notin Missing(rc.queued)
        BY DEF Missing, Sweeps, FleetAssumption
      <4>2. QED
        BY <3>1, <3>2, <4>1 DEF OneInHand, SweepSpawning
    <3>4. OwnersTrue'
      BY <1>1, <1>2, <1>7, <3>3 DEF ListMachines, SpawnsTrue, OwnersTrue
    <3>5. \A i \in Jobs : MachinesOf(i)' = MachinesOf(i)
      BY <1>7 DEF ListMachines, MachinesOf, Live
    <3>6. \A i \in Jobs : i \in Missing(rc.queued) => SweepTakes(i)
      BY <1>2, <3>5 DEF SweepTakes, Missing, Served, MachinesOf
    <3>7. \A i \in Jobs : i \notin Missing(rc.queued) => Keeps(i)
      BY <1>2, <3>1, <3>2, <3>5 DEF Keeps, SweepMay, FleetAssumption
    <3>8. QED
      BY <1>2, <3>3, <3>4, <3>6, <3>7 DEF SpawnsTrue
  <2>2. CASE SweepOver
    BY <1>4, <1>7, <2>2 DEF ListMachines
  <2>3. QED
    BY <1>7, <2>1, <2>2 DEF ListMachines
<1>8. ASSUME NEW j \in Jobs, SweepMint(j) PROVE Goal
  <2>1. CASE NextJob(rc.missing \ {j}) /\ UNCHANGED <<owner, runner>>
    <3>1. UNCHANGED <<machine, owner>> /\ rc.missing \ {j} \in SUBSET rc.missing
      BY <1>8, <2>1 DEF SweepMint
    <3>2. QED
      BY <1>4, <2>1, <3>1
  <2>2. ASSUME NEW n \in Names, Minted(n, j),
               rc' = [rc EXCEPT !.pc = "resolve", !.missing = @ \ {j}, !.job = j, !.name = n]
        PROVE  Goal
    <3>1. /\ rc'.pc = "resolve" /\ rc'.missing = rc.missing \ {j} /\ rc'.job = j /\ rc'.name = n
          /\ j \in rc.missing /\ machine' = machine
      BY <1>8, <2>2 DEF Sweeps, SweepMint
    <3>2. OneInHand' /\ SweepSpawning' /\ \A i \in Jobs : SweepMay(i)' => SweepMay(i)
      BY <3>1 DEF OneInHand, SweepSpawning, SweepMay
    <3>3. /\ \A i \in Jobs : MachinesOf(i)' = MachinesOf(i)
          /\ owner'[n] = j
          /\ \A i \in Jobs : QueuedSpawning(i) => owner'[qh[i].name] = i
      BY <2>2, <3>1, MintSpawns
    <3>4. OwnersTrue'
      BY <1>1, <1>2, <3>1, <3>3 DEF OwnersTrue
    <3>5. QED
      BY <1>2, <3>2, <3>3, <3>4 DEF SpawnsTrue, Keeps
  <2>3. QED
    BY <1>8, <2>1, <2>2 DEF SweepMint
<1>9. CASE SweepResolve
  <2>1. CASE rc' = [rc EXCEPT !.pc = "post", !.img = latest]
    <3>1. /\ rc'.pc = "post" /\ rc'.missing = rc.missing /\ rc'.job = rc.job /\ rc'.name = rc.name
          /\ SweepSpawning
      BY <1>9, <2>1 DEF Sweeps, SweepResolve, SweepAt, SweepSpawning
    <3>2. OneInHand' /\ owner[rc'.name] = rc'.job /\ \A i \in Jobs : SweepMay(i)' => SweepMay(i)
      BY <3>1 DEF SpawnsTrue, OneInHand, OwnersTrue, SweepMay, SweepSpawning
    <3>3. QED
      BY <1>3, <1>9, <3>2 DEF SweepResolve
  <2>2. CASE NextJob(rc.missing)
    BY <1>4, <1>9, <2>2 DEF SweepResolve
  <2>3. QED
    BY <1>9, <2>1, <2>2 DEF SweepResolve
<1>10. CASE SweepPost
  <2>1. SweepSpawning /\ owner' = owner /\ rc.job \notin rc.missing /\ owner[rc.name] = rc.job
    BY <1>10 DEF SweepPost, SweepAt, SweepSpawning, SpawnsTrue, OneInHand, OwnersTrue
  <2>2. NextJob(rc.missing) \/ SweepOver
    BY <1>10 DEF SweepPost
  <2>3. CASE UNCHANGED machine
    BY <1>4, <2>1, <2>2, <2>3
  <2>4. CASE Created(rc.name, rc.img)
    <3>1. /\ ~SweepSpawning' /\ OneInHand'
          /\ \A i \in Jobs : SweepMay(i)' => i \in rc.missing
      BY <1>1, <2>2, NextJobSpawns
    <3>2. Live' \subseteq Live \cup {rc.name}
      BY <2>4 DEF Live, Created
    <3>3. \A i \in Jobs \ {rc.job} : MachinesOf(i)' \subseteq MachinesOf(i)
      BY <2>1, <3>2 DEF MachinesOf
    <3>4. \A i \in Jobs : \E n : MachinesOf(i)' \subseteq MachinesOf(i) \cup {n}
      BY <2>1, <3>2 DEF MachinesOf
    <3>5. OwnersTrue'
      BY <1>1, <1>2, <2>1, <3>1 DEF SpawnsTrue, OwnersTrue
    <3>6. \A i \in Jobs \ {rc.job} : Keeps(i)
      BY <1>2, <3>1, <3>3 DEF Keeps, SweepMay
    <3>7. \A i \in Jobs : i = rc.job => SweepPosts(i)
      BY <1>2, <2>1, <3>1, <3>4 DEF SweepPosts, SweepMay
    <3>8. QED
      BY <1>2, <3>1, <3>5, <3>6, <3>7 DEF SpawnsTrue
  <2>5. QED
    BY <1>10, <2>3, <2>4 DEF SweepPost
<1>11. QED
  BY <1>1, <1>5, <1>6, <1>7, <1>8, <1>9, <1>10 DEF ReconcilerStep

\* A restart drops every handler and sweep with the Machine it had to come.
LEMMA RestartSpawns ==
    ASSUME TypeOK, Inv, SpawnsTrue, Restart
    PROVE  SpawnsTrue' /\ \A i \in Jobs : Keeps(i)
<1> USE Shapes
<1>1. /\ machine' = machine /\ owner' = owner /\ jobs' = jobs
      /\ rc'.pc = "ready" /\ rc'.missing = {} /\ rc'.job = NoJob
  BY DEF Restart, IdleSweep
<1>2. \A i \in Jobs : \/ qh'[i] = qh[i] /\ ~QueuedSpawning(i)
                      \/ qh'[i].pc = "done" /\ qh[i].pc # "none"
  BY DEF Restart, Deliveries, QueuedSpawning
<1>3. \A i \in Jobs : ~QueuedSpawning(i)' /\ (HookMay(i)' => HookMay(i))
  BY <1>2 DEF QueuedSpawning, HookMay
<1>4. ~SweepSpawning' /\ OneInHand' /\ \A i \in Jobs : ~SweepMay(i)'
  BY <1>1 DEF SweepSpawning, OneInHand, SweepMay, FleetAssumption
<1>5. DeliveredOnce'
  BY <1>1, <1>2 DEF SpawnsTrue, DeliveredOnce
<1>6. \A i \in Jobs : MachinesOf(i)' = MachinesOf(i)
  BY <1>1 DEF MachinesOf, Live
<1>7. QED
  BY <1>3, <1>4, <1>5, <1>6 DEF SpawnsTrue, OwnersTrue, Keeps

\* Every step of the process and the services does one of the four to each job.
LEMMA StepSpawns ==
    ASSUME TypeOK, Inv, SpawnsTrue, [Next]_vars
    PROVE  /\ SpawnsTrue'
           /\ \A i \in Jobs : Keeps(i) \/ HookPosts(i) \/ SweepPosts(i) \/ SweepTakes(i)
<1>1. CASE UNCHANGED vars
  BY <1>1 DEF vars, SpawnsTrue, OwnersTrue, DeliveredOnce, OneInHand, QueuedSpawning, SweepSpawning,
              Keeps, MachinesOf, Live, HookMay, SweepMay
<1>2. ASSUME NEW j \in Jobs, WebhookStep(j)
      PROVE  SpawnsTrue' /\ \A i \in Jobs : Keeps(i) \/ HookPosts(i)
  BY <1>2, QueuedHandlerSpawns, OthersSpawn DEF WebhookStep
<1>3. QED
  BY <1>1, <1>2, OthersSpawn, ReconcilerSpawns, RestartSpawns DEF Next, Webhooks

-----------------------------------------------------------------------------
(* At most two, and at most one *)

\* A set that gains at most one element grows by at most one.
LEMMA GainsOne ==
    ASSUME NEW S, NEW T, NEW x, IsFiniteSet(S), T \subseteq S \cup {x}
    PROVE  /\ IsFiniteSet(T) /\ Cardinality(T) \in Nat /\ Cardinality(S) \in Nat
           /\ Cardinality(T) <= Cardinality(S) + 1
<1>1. IsFiniteSet(S \cup {x}) /\ Cardinality(S \cup {x}) \in {Cardinality(S), Cardinality(S) + 1}
  BY FS_AddElement
<1>2. IsFiniteSet(T) /\ Cardinality(T) <= Cardinality(S \cup {x})
  BY <1>1, FS_Subset
<1>3. QED
  BY <1>1, <1>2, FS_CardinalityType

\* A set that loses elements does not grow.
LEMMA LosesSome ==
    ASSUME NEW S, NEW T, IsFiniteSet(S), T \subseteq S
    PROVE  /\ IsFiniteSet(T) /\ Cardinality(T) \in Nat /\ Cardinality(S) \in Nat
           /\ Cardinality(T) <= Cardinality(S)
BY FS_Subset, FS_CardinalityType

\* Each of the four keeps at two the Machines a job has and may still get.
LEMMA NextBoth ==
    ASSUME TypeOK, Inv, SpawnsTrue, BothSpawn, [Next]_vars
    PROVE  BothSpawn'
<1> SUFFICES ASSUME NEW j \in Jobs
             PROVE  /\ IsFiniteSet(MachinesOf(j)')
                    /\ Cardinality(MachinesOf(j)') + May(HookMay(j)') + May(SweepMay(j)') <= 2
  BY DEF BothSpawn
<1>1. IsFiniteSet(MachinesOf(j)) /\ Cardinality(MachinesOf(j)) \in Nat
      /\ Cardinality(MachinesOf(j)) + May(HookMay(j)) + May(SweepMay(j)) <= 2
  BY FS_CardinalityType DEF BothSpawn
<1>2. Keeps(j) \/ HookPosts(j) \/ SweepPosts(j) \/ SweepTakes(j)
  BY StepSpawns
<1>3. CASE Keeps(j)
  BY <1>1, <1>3, LosesSome DEF Keeps, May
<1>4. CASE HookPosts(j)
  <2>1. HookMay(j) /\ ~HookMay(j)' /\ (SweepMay(j)' => SweepMay(j))
    BY <1>4 DEF HookPosts, QueuedSpawning, HookMay
  <2>2. PICK n : MachinesOf(j)' \subseteq MachinesOf(j) \cup {n}
    BY <1>4 DEF HookPosts
  <2>3. /\ IsFiniteSet(MachinesOf(j)') /\ Cardinality(MachinesOf(j)') \in Nat
        /\ Cardinality(MachinesOf(j)') <= Cardinality(MachinesOf(j)) + 1
    BY <1>1, <2>2, GainsOne
  <2>4. QED
    BY <1>1, <2>1, <2>3 DEF May
<1>5. CASE SweepPosts(j)
  <2>1. SweepMay(j) /\ ~SweepMay(j)' /\ (HookMay(j)' => HookMay(j))
    BY <1>5 DEF SweepPosts
  <2>2. PICK n : MachinesOf(j)' \subseteq MachinesOf(j) \cup {n}
    BY <1>5 DEF SweepPosts
  <2>3. /\ IsFiniteSet(MachinesOf(j)') /\ Cardinality(MachinesOf(j)') \in Nat
        /\ Cardinality(MachinesOf(j)') <= Cardinality(MachinesOf(j)) + 1
    BY <1>1, <2>2, GainsOne
  <2>4. QED
    BY <1>1, <2>1, <2>3 DEF May
<1>6. CASE SweepTakes(j)
  BY <1>6, FS_EmptySet DEF SweepTakes, May
<1>7. QED
  BY <1>2, <1>3, <1>4, <1>5, <1>6

\* The reconciler by itself keeps at one the Machines a job has and may still get.
LEMMA NextSweep ==
    ASSUME TypeOK, Inv, SpawnsTrue, SweepSpawns, [EnvNext \/ ReconcilerStep]_vars
    PROVE  SweepSpawns'
<1>1. \A j \in Jobs : ~QueuedSpawning(j)'
  BY OthersSpawn, ReconcilerSpawns DEF SweepSpawns, QueuedSpawning, vars
<1>2. ASSUME NEW j \in Jobs
      PROVE  /\ IsFiniteSet(MachinesOf(j)')
             /\ Cardinality(MachinesOf(j)') + May(SweepMay(j)') <= 1
  <2>1. IsFiniteSet(MachinesOf(j)) /\ Cardinality(MachinesOf(j)) \in Nat
        /\ Cardinality(MachinesOf(j)) + May(SweepMay(j)) <= 1
    BY FS_CardinalityType DEF SweepSpawns
  <2>2. Keeps(j) \/ SweepPosts(j) \/ SweepTakes(j)
    BY StepSpawns DEF Next, HookPosts, SweepSpawns
  <2>3. CASE Keeps(j)
    BY <2>1, <2>3, LosesSome DEF Keeps, May
  <2>4. CASE SweepPosts(j)
    <3>1. SweepMay(j) /\ ~SweepMay(j)'
      BY <2>4 DEF SweepPosts
    <3>2. PICK n : MachinesOf(j)' \subseteq MachinesOf(j) \cup {n}
      BY <2>4 DEF SweepPosts
    <3>3. /\ IsFiniteSet(MachinesOf(j)') /\ Cardinality(MachinesOf(j)') \in Nat
          /\ Cardinality(MachinesOf(j)') <= Cardinality(MachinesOf(j)) + 1
      BY <2>1, <3>2, GainsOne
    <3>4. QED
      BY <2>1, <3>1, <3>3 DEF May
  <2>5. CASE SweepTakes(j)
    BY <2>5, FS_EmptySet DEF SweepTakes, May
  <2>6. QED
    BY <2>2, <2>3, <2>4, <2>5
<1>3. QED
  BY <1>1, <1>2 DEF SweepSpawns

\* Whatever races, restarts and failed calls, a job never has three Machines:
\* its webhook and the sweep each spawn at most one while one of them lives.
THEOREM NeverThree == Spec => []AtMostTwoPerJob
<1> DEFINE Safe == TypeOK /\ Inv /\ SpawnsTrue /\ BothSpawn
<1>1. Init => Safe
  BY InitType, InitInv, InitSpawns
<1>2. Safe /\ [Next]_vars => Safe'
  BY NextType, NextInv, StepSpawns, NextBoth
<1>3. Safe => AtMostTwoPerJob
  BY FS_CardinalityType DEF BothSpawn, AtMostTwoPerJob, May
<1>4. QED
  BY <1>1, <1>2, <1>3, PTL DEF Spec

\* With every webhook lost, the name check keeps the reconciler to one Machine
\* per job, though it lists and spawns in separate calls.
THEOREM SweepNeverDoubles == ReconcilerSpec => []AtMostOnePerJob
<1> DEFINE Safe == TypeOK /\ Inv /\ SpawnsTrue /\ SweepSpawns
<1>1. Init => Safe
  BY InitType, InitInv, InitSpawns
<1>2. [EnvNext \/ ReconcilerStep]_vars => [Next]_vars
  BY DEF Next
<1>3. Safe /\ [EnvNext \/ ReconcilerStep]_vars => Safe'
  BY <1>2, NextType, NextInv, StepSpawns, NextSweep
<1>4. Safe => AtMostOnePerJob
  BY FS_CardinalityType DEF SweepSpawns, AtMostOnePerJob, May
<1>5. QED
  BY <1>1, <1>3, <1>4, PTL DEF ReconcilerSpec

-----------------------------------------------------------------------------
(* Holds                                                                   *)
(*                                                                         *)
(* HoldsHonoured speaks of the job in hand too, whose hold a POST sets: it *)
(* needs OneInHand, which says that job leaves the sweep's hand then.      *)

Ledgers == [Jobs -> [count: 0..CountCap, left: 0..MaxBackoff]]

\* The jobs a sweep in progress has in hand or has still to serve.
Serving == rc.missing \cup ({rc.job} \ {NoJob})

\* A step that keeps what the sweep serves and sets no hold honours the holds.
LEMMA HoldsKept ==
    ASSUME HoldsHonoured,
           rc'.pc \in {"mint", "resolve", "post"} => rc.pc \in {"mint", "resolve", "post"},
           rc'.pc \in {"mint", "resolve", "post"} => Serving' \subseteq Serving,
           \A j \in Serving' : ledger[j].left = 0 => ledger'[j].left = 0
    PROVE  HoldsHonoured'
BY DEF HoldsHonoured, SweepAt, Serving

\* No step lets the sweep serve a job whose hold has not run out.
LEMMA NextHolds ==
    ASSUME TypeOK, SpawnsTrue, HoldsHonoured, [Next]_vars
    PROVE  HoldsHonoured'
<1> USE Shapes
<1>1. ledger \in Ledgers /\ rc.missing \in SUBSET Jobs /\ rc.job \in Jobs \cup {NoJob}
  BY DEF TypeOK, Ledgers, Sweeps
<1>2. ASSUME UNCHANGED <<rc, ledger>> PROVE HoldsHonoured'
  BY <1>2 DEF HoldsHonoured, SweepAt
<1>3. ASSUME EnvStep PROVE HoldsHonoured'
  BY <1>2, <1>3 DEF EnvStep, JobQueued, JobCancelled, HostedJob, LoseDelivery, Boot, BootFails, Finish,
                    AutoDestroy, RunnerCrash, Prune, Assign, ImageRollover
<1>4. ASSUME Tick PROVE HoldsHonoured'
  <2>1. /\ rc'.pc \in {"mint", "resolve", "post"} => rc.pc \in {"mint", "resolve", "post"}
        /\ rc'.missing = rc.missing /\ rc'.job = rc.job
    BY <1>4 DEF Tick, Sweeps
  <2>2. \A j \in Jobs : ledger[j].left = 0 => ledger'[j].left = 0
    BY <1>1, <1>4 DEF Tick, Ledgers
  <2>3. QED
    BY <1>1, <2>1, <2>2, HoldsKept DEF Serving
<1>5. ASSUME NEW j \in Jobs, WebhookStep(j) PROVE HoldsHonoured'
  BY <1>2, <1>5 DEF WebhookStep, QueuedNotForUs, QueuedMint, QueuedResolve, QueuedPost, CompletedFind,
                    CompletedLookup, CompletedDeregister, CompletedDestroy
<1>6. ASSUME ReaperStep \/ UNCHANGED vars PROVE HoldsHonoured'
  BY <1>2, <1>6 DEF ReaperStep, ReapList, ReapResolve, ReapDestroy, vars
<1>7. ASSUME SweepOver \/ Restart PROVE HoldsHonoured'
  <2>1. CASE rc' = [IdleSweep EXCEPT !.pc = "sleep"]
    <3>1. rc'.pc = "sleep"
      BY <2>1 DEF IdleSweep
    <3>2. QED
      BY <3>1 DEF HoldsHonoured, SweepAt
  <2>2. CASE rc' = IdleSweep
    BY <2>2 DEF IdleSweep, HoldsHonoured, SweepAt
  <2>3. QED
    BY <1>7, <2>1, <2>2 DEF SweepOver, Restart
<1>8. ASSUME NEW left \in SUBSET rc.missing, NextJob(left),
             rc.pc \in {"mint", "resolve", "post"},
             \A j \in left : ledger'[j] = ledger[j]
      PROVE  HoldsHonoured'
  <2>1. CASE left # {}
    <3>1. rc'.pc = "mint" /\ rc'.missing = left /\ rc'.job = NoJob
      BY <1>8, <2>1 DEF NextJob, Sweeps
    <3>2. Serving' = left /\ left \subseteq Serving
      BY <3>1 DEF Serving
    <3>3. QED
      BY <1>8, <3>1, <3>2, HoldsKept
  <2>2. CASE left = {}
    BY <1>7, <1>8, <2>2 DEF NextJob, SweepOver
  <2>3. QED
    BY <2>1, <2>2
<1>9. CASE ListRuns
  BY <1>7, <1>9 DEF ListRuns, Sweeps, HoldsHonoured, SweepAt
<1>10. ASSUME NEW r \in Runs, ListJobs(r) PROVE HoldsHonoured'
  BY <1>7, <1>10 DEF ListJobs, Sweeps, HoldsHonoured, SweepAt
<1>11. CASE ListMachines
  <2>1. CASE rc' = [rc EXCEPT !.pc = "mint", !.missing = Missing(rc.queued), !.since = 0]
    <3>1. rc'.missing = Missing(rc.queued) /\ rc'.job = NoJob
      BY <1>11, <2>1 DEF Sweeps, ListMachines, SweepAt, SweepSpawning, SpawnsTrue, OneInHand
    <3>2. \A j \in Missing(rc.queued) : j \in Jobs /\ j \in rc.queued /\ ledger[j].left = 0
      BY DEF Missing, Allows, Sweeps
    <3>3. \A j \in Missing(rc.queued) : ledger'[j].left = 0
      BY <1>11, <3>2 DEF ListMachines, Retained
    <3>4. QED
      BY <3>1, <3>3 DEF HoldsHonoured
  <2>2. QED
    BY <1>7, <1>11, <2>1 DEF ListMachines
<1>12. ASSUME NEW j \in Jobs, SweepMint(j) PROVE HoldsHonoured'
  <2>1. j \in rc.missing /\ rc.pc = "mint" /\ ledger' = ledger
    BY <1>12 DEF SweepMint, SweepAt
  <2>2. CASE NextJob(rc.missing \ {j})
    BY <1>8, <2>1, <2>2
  <2>3. ASSUME NEW n \in Names,
               rc' = [rc EXCEPT !.pc = "resolve", !.missing = @ \ {j}, !.job = j, !.name = n]
        PROVE  HoldsHonoured'
    <3>1. rc'.missing = rc.missing \ {j} /\ rc'.job = j
      BY <2>3 DEF Sweeps
    <3>2. Serving' \subseteq Serving
      BY <2>1, <3>1 DEF Serving
    <3>3. QED
      BY <2>1, <3>2, HoldsKept
  <2>4. QED
    BY <1>12, <2>2, <2>3 DEF SweepMint
<1>13. CASE SweepResolve
  <2>1. rc.pc = "resolve" /\ ledger' = ledger
    BY <1>13 DEF SweepResolve, SweepAt
  <2>2. CASE rc' = [rc EXCEPT !.pc = "post", !.img = latest]
    <3>1. rc'.missing = rc.missing /\ rc'.job = rc.job
      BY <2>2 DEF Sweeps
    <3>2. QED
      BY <2>1, <3>1, HoldsKept DEF Serving
  <2>3. QED
    BY <1>8, <1>13, <2>1, <2>2 DEF SweepResolve
<1>14. CASE SweepPost
  <2>1. rc.pc = "post" /\ rc.job \notin rc.missing
    BY <1>14 DEF SweepPost, SweepAt, SpawnsTrue, OneInHand
  <2>2. ledger' = ledger \/ ledger' = Recorded(rc.job)
    BY <1>14 DEF SweepPost
  <2>3. \A j \in rc.missing : ledger'[j] = ledger[j]
    BY <1>1, <2>1, <2>2 DEF Recorded, Ledgers
  <2>4. QED
    BY <1>7, <1>8, <1>14, <2>1, <2>3 DEF SweepPost
<1>15. QED
  BY <1>3, <1>4, <1>5, <1>6, <1>7, <1>9, <1>10, <1>11, <1>12, <1>13, <1>14
     DEF Next, EnvNext, Webhooks, ReconcilerStep

\* Whatever restarts, fails and races, a sweep never mints or spawns for a job
\* whose hold has not run out, however long its calls take.
THEOREM HoldsAreHonoured == Spec => []HoldsHonoured
<1> DEFINE Safe == TypeOK /\ Inv /\ SpawnsTrue /\ HoldsHonoured
<1>1. Init => Safe
  BY InitType, InitInv, InitSpawns DEF Init, IdleSweep, HoldsHonoured, SweepAt
<1>2. Safe /\ [Next]_vars => Safe'
  BY NextType, NextInv, StepSpawns, NextHolds
<1>3. QED
  BY <1>1, <1>2, PTL DEF Spec

-----------------------------------------------------------------------------
(* Which jobs the reaper kills                                             *)
(*                                                                         *)
(* A Machine is classified when it is listed and destroyed some calls      *)
(* later.  That it is still old enough then needs that its name is not     *)
(* reused meanwhile (ListedElsewhere) and that an image other than the     *)
(* registry's is an older one (ImagesTrue).                                *)

\* No image in use, or about to be, is newer than the registry's.
ImagesTrue ==
    /\ \A n \in Names : image[n] <= latest
    /\ \A j \in Jobs : qh[j].img <= latest
    /\ rc.img <= latest

\* Nobody is spawning a Machine under the name.
Elsewhere(n) ==
    /\ \A j \in Jobs : QueuedSpawning(j) => qh[j].name # n
    /\ SweepSpawning => rc.name # n

ListedElsewhere == \A n \in rp.seen \cup rp.todo : Elsewhere(n)

\* What KillsAreAged asks of a Machine whose job is killed.
Aged(n) ==
    \/ age[n] >= HardMaxAge
    \/ age[n] >= MaxAge /\ (image[n] < latest \/ Overtaken(n))

CandidatesAged == \A n \in rp.todo : n \in Live => Aged(n)

\* Only a sweep that has classified has candidates.
NothingListed == rp.pc # "destroy" => rp.todo = {}

ReapsTrue == ImagesTrue /\ ListedElsewhere /\ CandidatesAged /\ NothingListed

\* The numbers that ReapsTrue compares.
LEMMA ReapNumbers ==
    ASSUME TypeOK
    PROVE  /\ latest \in Nat /\ latest >= 1 /\ HardMaxAge \in Nat /\ MaxAge \in Nat
           /\ \A n \in Names : image[n] \in Nat /\ age[n] \in Nat /\ age[n] <= AgeCap
           /\ \A j \in Jobs : qh[j].img \in Nat
           /\ rc.img \in Nat /\ rp.canonical \in Nat /\ AgeCap \in Nat
BY DEF TypeOK, AgeCap

\* The registry's image never goes back.
LEMMA NeverBack ==
    ASSUME TypeOK, Next
    PROVE  latest' >= latest
<1>1. latest' = latest \/ latest' = latest + 1
  <2>1. ASSUME EnvNext PROVE latest' = latest \/ latest' = latest + 1
    BY <2>1 DEF EnvNext, EnvStep, JobQueued, JobCancelled, HostedJob, LoseDelivery, Boot, BootFails, Finish,
                AutoDestroy, RunnerCrash, Prune, Assign, ImageRollover, Tick
  <2>2. ASSUME NEW j \in Jobs, WebhookStep(j) PROVE latest' = latest
    BY <2>2 DEF WebhookStep, QueuedNotForUs, QueuedMint, QueuedResolve, QueuedPost, CompletedFind,
                CompletedLookup, CompletedDeregister, CompletedDestroy
  <2>3. ASSUME ReconcilerStep PROVE latest' = latest
    BY <2>3 DEF ReconcilerStep, ListRuns, ListJobs, ListMachines, SweepMint, SweepResolve, SweepPost
  <2>4. ASSUME ReaperStep \/ Restart PROVE latest' = latest
    BY <2>4 DEF ReaperStep, ReapList, ReapResolve, ReapDestroy, Restart
  <2>5. QED
    BY <2>1, <2>2, <2>3, <2>4 DEF Next, Webhooks
<1>2. QED
  BY <1>1, ReapNumbers

\* A name that nobody spawns under and that is still remembered is not taken
\* for another spawn, and its Machine ages by the clock alone.
LEMMA RememberedKept ==
    ASSUME TypeOK, Inv, SpawnsTrue, Next, NEW n \in rp.seen \cup rp.todo, Elsewhere(n)
    PROVE  Elsewhere(n)' /\ image'[n] = image[n] /\ (age'[n] = age[n] \/ Tick)
<1> DEFINE Goal == Elsewhere(n)' /\ image'[n] = image[n] /\ (age'[n] = age[n] \/ Tick)
<1> USE Shapes
<1>1. n \in Names /\ Held(n) /\ image \in [Names -> 1..MaxImage] /\ age \in [Names -> 0..AgeCap]
  <2>1. rp.seen \subseteq Names /\ rp.todo \subseteq Names
    BY DEF TypeOK
  <2>2. QED
    BY <2>1 DEF Held, TypeOK
<1>2. ASSUME UNCHANGED <<image, age>> PROVE image'[n] = image[n] /\ age'[n] = age[n]
  BY <1>1, <1>2
<1>3. ASSUME NEW m, NEW img, Created(m, img), m # n PROVE image'[n] = image[n] /\ age'[n] = age[n]
  BY <1>1, <1>3 DEF Created
<1>4. ASSUME NEW m \in Names, NEW j \in Jobs, Minted(m, j) PROVE m # n
  BY <1>1, <1>4 DEF Minted, Fresh
<1>5. ASSUME EnvNext PROVE Goal
  <2>1. /\ \A j \in Jobs : QueuedSpawning(j)' => QueuedSpawning(j) /\ qh'[j].name = qh[j].name
        /\ rc'.name = rc.name /\ (SweepSpawning' <=> SweepSpawning)
    BY <1>5, EnvSpawns
  <2>2. Elsewhere(n)'
    BY <2>1 DEF Elsewhere
  <2>3. CASE Tick
    BY <2>2, <2>3 DEF Tick
  <2>4. CASE EnvStep
    <3>1. UNCHANGED <<image, age>>
      BY <2>4 DEF EnvStep, JobQueued, JobCancelled, HostedJob, LoseDelivery, Boot, BootFails, Finish,
                  AutoDestroy, RunnerCrash, Prune, Assign, ImageRollover
    <3>2. QED
      BY <1>2, <2>2, <3>1
  <2>5. QED
    BY <1>5, <2>3, <2>4 DEF EnvNext
<1>6. ASSUME UNCHANGED <<qh, rc, image, age>> PROVE Goal
  BY <1>2, <1>6 DEF Elsewhere, QueuedSpawning, SweepSpawning
<1>7. ASSUME NEW j \in Jobs, QueuedNotForUs(j) \/ QueuedMint(j) \/ QueuedResolve(j) \/ QueuedPost(j)
      PROVE  Goal
  <2>1. rc' = rc /\ \A i \in Jobs \ {j} : qh'[i] = qh[i]
    BY <1>7 DEF QueuedNotForUs, QueuedMint, QueuedResolve, QueuedPost, QueuedReturn, Deliveries
  <2>2. ASSUME QueuedSpawning(j)' => qh'[j].name # n PROVE Elsewhere(n)'
    BY <2>1, <2>2 DEF Elsewhere, QueuedSpawning, SweepSpawning
  <2>3. QueuedReturn(j) => ~QueuedSpawning(j)'
    BY DEF QueuedReturn, QueuedSpawning, Deliveries
  <2>4. CASE QueuedNotForUs(j)
    BY <1>2, <2>2, <2>3, <2>4 DEF QueuedNotForUs
  <2>5. CASE QueuedMint(j)
    <3>1. UNCHANGED <<image, age>>
      BY <2>5 DEF QueuedMint
    <3>2. ASSUME NEW m \in Names, Minted(m, j), qh' = [qh EXCEPT ![j].pc = "resolve", ![j].name = m]
          PROVE  qh'[j].name # n
      BY <1>4, <3>2 DEF Deliveries
    <3>3. QED
      BY <1>2, <2>2, <2>3, <2>5, <3>1, <3>2 DEF QueuedMint
  <2>6. CASE QueuedResolve(j)
    <3>1. UNCHANGED <<image, age>> /\ QueuedSpawning(j)
      BY <2>6 DEF QueuedResolve, QueuedAt, QueuedSpawning
    <3>2. ASSUME qh' = [qh EXCEPT ![j].pc = "post", ![j].img = latest] PROVE qh'[j].name # n
      BY <3>1, <3>2 DEF Deliveries, Elsewhere
    <3>3. QED
      BY <1>2, <2>2, <2>3, <2>6, <3>1, <3>2 DEF QueuedResolve
  <2>7. CASE QueuedPost(j)
    <3>1. qh[j].name # n /\ QueuedReturn(j)
      BY <2>7 DEF QueuedPost, QueuedAt, QueuedSpawning, Elsewhere
    <3>2. UNCHANGED <<image, age>> \/ Created(qh[j].name, qh[j].img)
      BY <2>7 DEF QueuedPost
    <3>3. QED
      BY <1>2, <1>3, <2>2, <2>3, <3>1, <3>2
  <2>8. QED
    BY <1>7, <2>4, <2>5, <2>6, <2>7
<1>8. ASSUME ReconcilerStep PROVE Goal
  <2>1. qh' = qh
    BY <1>8, ReconcilerSpawns
  <2>2. ASSUME SweepSpawning' => rc'.name # n PROVE Elsewhere(n)'
    BY <2>1, <2>2 DEF Elsewhere, QueuedSpawning
  <2>3. ASSUME NEW left \in SUBSET Jobs, NextJob(left) \/ SweepOver PROVE ~SweepSpawning'
    BY <2>3, NextJobSpawns
  <2>4. rc.missing \in SUBSET Jobs
    BY DEF Sweeps
  <2>5. CASE ListRuns \/ ListMachines \/ \E r \in Runs : ListJobs(r)
    <3>1. UNCHANGED <<image, age>> /\ (rc.pc = "ready" \/ rc.pc = "jobs")
      BY <2>5 DEF ListRuns, ListMachines, ListJobs, SweepAt
    <3>2. SweepOver \/ rc'.pc \in {"jobs", "mint"}
      BY <2>5, <3>1 DEF ListRuns, ListMachines, ListJobs, SweepAt, Sweeps
    <3>3. ~SweepSpawning'
      BY <2>3, <3>2 DEF SweepSpawning
    <3>4. QED
      BY <1>2, <2>2, <3>1, <3>3
  <2>6. ASSUME NEW j \in Jobs, SweepMint(j) PROVE Goal
    <3>1. UNCHANGED <<image, age>>
      BY <2>6 DEF SweepMint
    <3>2. CASE NextJob(rc.missing \ {j})
      <4>1. rc.missing \ {j} \in SUBSET Jobs
        BY <2>4
      <4>2. QED
        BY <1>2, <2>2, <2>3, <3>1, <3>2, <4>1
    <3>3. ASSUME NEW m \in Names, Minted(m, j),
                 rc' = [rc EXCEPT !.pc = "resolve", !.missing = @ \ {j}, !.job = j, !.name = m]
          PROVE  Goal
      <4>1. rc'.name = m /\ m # n
        BY <1>4, <3>3 DEF Sweeps
      <4>2. QED
        BY <1>2, <2>2, <3>1, <4>1
    <3>4. QED
      BY <2>6, <3>2, <3>3 DEF SweepMint
  <2>7. CASE SweepResolve
    <3>1. UNCHANGED <<image, age>> /\ SweepSpawning
      BY <2>7 DEF SweepResolve, SweepAt, SweepSpawning
    <3>2. ASSUME rc' = [rc EXCEPT !.pc = "post", !.img = latest] PROVE rc'.name # n
      BY <3>1, <3>2 DEF Sweeps, Elsewhere
    <3>3. QED
      BY <1>2, <2>2, <2>3, <2>4, <2>7, <3>1, <3>2 DEF SweepResolve
  <2>8. CASE SweepPost
    <3>1. rc.name # n /\ (NextJob(rc.missing) \/ SweepOver)
      BY <2>8 DEF SweepPost, SweepAt, SweepSpawning, Elsewhere
    <3>2. UNCHANGED <<image, age>> \/ Created(rc.name, rc.img)
      BY <2>8 DEF SweepPost
    <3>3. QED
      BY <1>2, <1>3, <2>2, <2>3, <2>4, <3>1, <3>2
  <2>9. QED
    BY <1>8, <2>5, <2>6, <2>7, <2>8 DEF ReconcilerStep
<1>9. ASSUME NEW j \in Jobs,
             \/ CompletedFind(j) \/ CompletedLookup(j)
             \/ CompletedDeregister(j) \/ CompletedDestroy(j)
      PROVE  Goal
  BY <1>6, <1>9 DEF CompletedFind, CompletedLookup, CompletedDeregister, CompletedDestroy
<1>10. ASSUME ReaperStep PROVE Goal
  BY <1>6, <1>10 DEF ReaperStep, ReapList, ReapResolve, ReapDestroy
<1>11. ASSUME Restart PROVE Goal
  <2>1. (\A j \in Jobs : ~QueuedSpawning(j)') /\ ~SweepSpawning'
    BY <1>11 DEF Restart, IdleSweep, QueuedSpawning, SweepSpawning, Deliveries
  <2>2. QED
    BY <1>2, <1>11, <2>1 DEF Elsewhere, Restart
<1>12. QED
  BY <1>5, <1>7, <1>8, <1>9, <1>10, <1>11 DEF Next, Webhooks, WebhookStep

\* Nor does a Machine that is gone come back under such a name.
LEMMA GoneForGood ==
    ASSUME TypeOK, Inv, Next, NEW n \in rp.seen \cup rp.todo, Elsewhere(n), n \in Live'
    PROVE  n \in Live
<1> USE Shapes
<1>1. n \in Names
  BY DEF TypeOK
<1>2. ASSUME machine' = machine PROVE n \in Live
  BY <1>2 DEF Live
<1>3. ASSUME NEW m, machine' = [machine EXCEPT ![m] = "none"] PROVE n \in Live
  BY <1>1, <1>3 DEF Live
<1>4. ASSUME NEW m, machine[m] # "none", NEW s, machine' = [machine EXCEPT ![m] = s] PROVE n \in Live
  BY <1>1, <1>4 DEF Live
<1>5. ASSUME NEW m, NEW img, m # n, Created(m, img) PROVE n \in Live
  BY <1>1, <1>5 DEF Live, Created
<1>6. CASE EnvNext
  <2>1. ASSUME NEW m \in Names, RunnerCrash(m) PROVE n \in Live
    <3>1. machine' = [machine EXCEPT ![m] = "zombie"] /\ machine[m] # "none"
      BY <2>1 DEF RunnerCrash, Inv, WorkConsistent
    <3>2. QED
      BY <1>4, <3>1
  <2>2. ASSUME NEW m \in Names, Boot(m) PROVE n \in Live
    BY <1>4, <2>2 DEF Boot
  <2>3. ASSUME NEW m \in Names, BootFails(m) \/ AutoDestroy(m) PROVE n \in Live
    BY <1>3, <2>3 DEF BootFails, AutoDestroy
  <2>4. ASSUME machine' = machine PROVE n \in Live
    BY <1>2, <2>4
  <2>5. QED
    BY <1>6, <2>1, <2>2, <2>3, <2>4
       DEF EnvNext, EnvStep, JobQueued, JobCancelled, HostedJob, LoseDelivery, Finish,
           Prune, Assign, ImageRollover, Tick
<1>7. ASSUME NEW j \in Jobs, WebhookStep(j) PROVE n \in Live
  <2>1. CASE QueuedPost(j)
    <3>1. qh[j].name # n
      BY <2>1 DEF QueuedPost, QueuedAt, QueuedSpawning, Elsewhere
    <3>2. machine' = machine \/ Created(qh[j].name, qh[j].img)
      BY <2>1 DEF QueuedPost
    <3>3. QED
      BY <1>2, <1>5, <3>1, <3>2
  <2>2. CASE CompletedDestroy(j)
    BY <1>2, <1>3, <2>2 DEF CompletedDestroy, Destroyed
  <2>3. QED
    BY <1>2, <1>7, <2>1, <2>2 DEF WebhookStep, QueuedNotForUs, QueuedMint, QueuedResolve, CompletedFind,
                                  CompletedLookup, CompletedDeregister
<1>8. CASE ReconcilerStep
  <2>1. CASE SweepPost
    <3>1. rc.name # n
      BY <2>1 DEF SweepPost, SweepAt, SweepSpawning, Elsewhere
    <3>2. machine' = machine \/ Created(rc.name, rc.img)
      BY <2>1 DEF SweepPost
    <3>3. QED
      BY <1>2, <1>5, <3>1, <3>2
  <2>2. QED
    BY <1>2, <1>8, <2>1 DEF ReconcilerStep, ListRuns, ListJobs, ListMachines, SweepMint, SweepResolve
<1>9. CASE ReaperStep
  BY <1>2, <1>3, <1>9 DEF ReaperStep, ReapList, ReapResolve, ReapDestroy, Destroyed
<1>10. CASE Restart
  BY <1>2, <1>10 DEF Restart
<1>11. QED
  BY <1>6, <1>7, <1>8, <1>9, <1>10 DEF Next, Webhooks

\* A live Machine that is old enough stays so while the sweep that listed it
\* goes on: it and the Machines of its listing age together.
LEMMA AgedKept ==
    ASSUME TypeOK, TypeOK', Inv, SpawnsTrue, ListedElsewhere, Next,
           NEW n \in rp.todo, Aged(n), n \in Live, rp'.seen = rp.seen, rp'.canonical = rp.canonical
    PROVE  Aged(n)'
<1>1. latest' >= latest /\ rp.seen \subseteq Names /\ n \in Names
  BY NeverBack DEF TypeOK
<1>2. /\ image'[n] = image[n] /\ (age'[n] = age[n] \/ Tick)
      /\ \A m \in rp.seen : image'[m] = image[m] /\ (age'[m] = age[m] \/ Tick)
  BY RememberedKept DEF ListedElsewhere
<1>3. /\ latest \in Nat /\ latest' \in Nat /\ MaxAge \in Nat /\ HardMaxAge \in Nat /\ AgeCap \in Nat
      /\ \A m \in Names : /\ image[m] \in Nat /\ age[m] \in Nat /\ age'[m] \in Nat /\ age[m] <= AgeCap
  BY DEF TypeOK, AgeCap
<1>4. age'[n] >= age[n] /\ \A m \in rp.seen : age[m] <= age[n] => age'[m] <= age'[n]
  <2>1. CASE Tick
    <3>1. /\ age'[n] = CapAt(age[n] + 1, AgeCap)
          /\ \A m \in Names : age'[m] \in {age[m], CapAt(age[m] + 1, AgeCap)}
      BY <1>1, <2>1 DEF Tick
    <3>2. \A x, y \in Nat : x <= y /\ x <= AgeCap /\ y <= AgeCap =>
            /\ CapAt(y + 1, AgeCap) >= y /\ CapAt(x + 1, AgeCap) <= CapAt(y + 1, AgeCap)
            /\ x <= CapAt(y + 1, AgeCap)
      BY <1>3 DEF CapAt
    <3>3. \A m \in Names : age[m] <= age[n] => age'[m] <= age'[n]
      <4> SUFFICES ASSUME NEW m \in Names, age[m] <= age[n] PROVE age'[m] <= age'[n]
        OBVIOUS
      <4>1. age[m] \in Nat /\ age[n] \in Nat /\ age[m] <= AgeCap /\ age[n] <= AgeCap
        BY <1>1, <1>3
      <4>2. QED
        BY <3>1, <3>2, <4>1
    <3>4. age[n] \in Nat /\ age[n] <= AgeCap /\ age[n] <= age[n]
      BY <1>1, <1>3
    <3>5. QED
      BY <1>1, <3>1, <3>2, <3>3, <3>4
  <2>2. CASE ~Tick
    BY <1>1, <1>2, <1>3, <2>2
  <2>3. QED
    BY <2>1, <2>2
<1>5. CASE age[n] >= HardMaxAge
  BY <1>1, <1>3, <1>4, <1>5 DEF Aged
<1>6. CASE age[n] >= MaxAge /\ image[n] < latest
  BY <1>1, <1>2, <1>3, <1>4, <1>6 DEF Aged
<1>7. CASE age[n] >= MaxAge /\ Overtaken(n)
  <2>1. Overtaken(n)'
    BY <1>2, <1>4, <1>7 DEF Overtaken
  <2>2. age'[n] >= MaxAge
    BY <1>1, <1>3, <1>4, <1>7
  <2>3. QED
    BY <2>1, <2>2 DEF Aged
<1>8. QED
  BY <1>5, <1>6, <1>7 DEF Aged

\* Every image a step puts in use is the registry's or one already in use.
LEMMA ImagesKept ==
    ASSUME TypeOK, TypeOK', Next, ImagesTrue
    PROVE  ImagesTrue'
<1> DEFINE Machines == \A n \in Names : \/ image'[n] = image[n] \/ image'[n] = rc.img
                                        \/ \E j \in Jobs : image'[n] = qh[j].img
           Handlers == \A j \in Jobs : qh'[j].img \in {qh[j].img, latest}
           Sweep    == rc'.img \in {rc.img, latest, 1}
<1> USE Shapes
<1>1. image \in [Names -> 1..MaxImage]
  BY DEF TypeOK
<1>2. ASSUME NEW m, NEW img, Created(m, img), \E j \in Jobs : img = qh[j].img PROVE Machines
  BY <1>1, <1>2 DEF Created
<1>3. ASSUME NEW m, Created(m, rc.img) PROVE Machines
  BY <1>1, <1>3 DEF Created
<1>4. ASSUME NEW left, NextJob(left) \/ SweepOver PROVE Sweep
  BY <1>4 DEF NextJob, SweepOver, IdleSweep, Sweeps
<1>5. ASSUME EnvNext PROVE Machines /\ Handlers /\ Sweep
  <2>1. image' = image
    BY <1>5 DEF EnvNext, EnvStep, JobQueued, JobCancelled, HostedJob, LoseDelivery, Boot, BootFails, Finish,
                AutoDestroy, RunnerCrash, Prune, Assign, ImageRollover, Tick
  <2>2. rc' = rc \/ Tick
    BY <1>5 DEF EnvNext, EnvStep, JobQueued, JobCancelled, HostedJob, LoseDelivery, Boot, BootFails, Finish,
                AutoDestroy, RunnerCrash, Prune, Assign, ImageRollover
  <2>3. qh' = qh \/ \E j \in Jobs : JobQueued(j) \/ LoseDelivery(j)
    BY <1>5 DEF EnvNext, EnvStep, JobCancelled, HostedJob, Boot, BootFails, Finish,
                AutoDestroy, RunnerCrash, Prune, Assign, ImageRollover, Tick
  <2>4. Sweep
    BY <2>2 DEF Tick, Sweeps
  <2>5. Handlers
    BY <2>3 DEF JobQueued, LoseDelivery, Deliver, Deliveries
  <2>6. QED
    BY <2>1, <2>4, <2>5
<1>6. ASSUME NEW j \in Jobs, QueuedNotForUs(j) \/ QueuedMint(j) \/ QueuedResolve(j) \/ QueuedPost(j)
      PROVE  Machines /\ Handlers /\ Sweep
  <2>1. Sweep
    BY <1>6 DEF QueuedNotForUs, QueuedMint, QueuedResolve, QueuedPost, QueuedReturn, Deliveries
  <2>h. Handlers
    <3>1. CASE QueuedNotForUs(j)
      BY <3>1 DEF QueuedNotForUs, QueuedReturn, Deliveries
    <3>2. CASE QueuedMint(j)
      BY <3>2 DEF QueuedMint, QueuedReturn, Deliveries
    <3>3. CASE QueuedResolve(j)
      BY <3>3 DEF QueuedResolve, QueuedReturn, Deliveries
    <3>4. CASE QueuedPost(j)
      BY <3>4 DEF QueuedPost, QueuedReturn, Deliveries
    <3> QED BY <1>6, <3>1, <3>2, <3>3, <3>4
  <2>2. image' = image \/ Created(qh[j].name, qh[j].img)
    BY <1>6 DEF QueuedNotForUs, QueuedMint, QueuedResolve, QueuedPost
  <2>3. QED
    BY <1>2, <2>1, <2>h, <2>2
<1>7. ASSUME ReconcilerStep PROVE Machines /\ Handlers /\ Sweep
  <2>1. qh' = qh /\ (image' = image \/ Created(rc.name, rc.img))
    BY <1>7 DEF ReconcilerStep, ListRuns, ListJobs, ListMachines, SweepMint, SweepResolve, SweepPost
  <2>2. Machines
    BY <1>3, <2>1
  <2>3. CASE (\E left : NextJob(left)) \/ SweepOver
    BY <1>4, <2>1, <2>2, <2>3
  <2>4. CASE ListRuns \/ ListMachines \/ \E r \in Runs : ListJobs(r)
    <3>1. SweepOver \/ rc'.img = rc.img
      BY <2>4 DEF ListRuns, ListMachines, ListJobs, Sweeps
    <3>2. QED
      BY <2>1, <2>2, <2>3, <3>1
  <2>5. ASSUME NEW j \in Jobs, SweepMint(j) PROVE Machines /\ Handlers /\ Sweep
    <3>1. (\E left : NextJob(left)) \/ rc'.img = rc.img
      BY <2>5 DEF SweepMint, Sweeps
    <3>2. QED
      BY <2>1, <2>2, <2>3, <3>1
  <2>6. CASE SweepResolve
    <3>1. (\E left : NextJob(left)) \/ rc'.img = latest
      BY <2>6 DEF SweepResolve, Sweeps
    <3>2. QED
      BY <2>1, <2>2, <2>3, <3>1
  <2>7. CASE SweepPost
    BY <2>3, <2>7 DEF SweepPost
  <2>8. QED
    BY <1>7, <2>4, <2>5, <2>6, <2>7 DEF ReconcilerStep
<1>8. ASSUME NEW j \in Jobs,
             \/ CompletedFind(j) \/ CompletedLookup(j)
             \/ CompletedDeregister(j) \/ CompletedDestroy(j)
      PROVE  Machines /\ Handlers /\ Sweep
  BY <1>8 DEF CompletedFind, CompletedLookup, CompletedDeregister, CompletedDestroy
<1>9. ASSUME ReaperStep PROVE Machines /\ Handlers /\ Sweep
  BY <1>9 DEF ReaperStep, ReapList, ReapResolve, ReapDestroy
<1>10. ASSUME Restart PROVE Machines /\ Handlers /\ Sweep
  BY <1>10 DEF Restart, IdleSweep, Deliveries
<1>11. Machines /\ Handlers /\ Sweep
  BY <1>5, <1>6, <1>7, <1>8, <1>9, <1>10 DEF Next, Webhooks, WebhookStep
<1>12. /\ latest' >= latest /\ latest' \in Nat /\ latest \in Nat /\ latest >= 1
       /\ \A n \in Names : image[n] \in Nat /\ image'[n] \in Nat
       /\ \A j \in Jobs : qh[j].img \in Nat /\ qh'[j].img \in Nat
       /\ rc.img \in Nat /\ rc'.img \in Nat
  BY NeverBack DEF TypeOK
<1>13. QED
  BY <1>11, <1>12 DEF ImagesTrue

\* The step leaves n on the list, and the sweep that put it there at work.
StillListed(n) ==
    n \in rp.todo /\ rp'.seen = rp.seen /\ rp'.canonical = rp.canonical

\* The reaper remembers live Machines, whose names nobody spawns under, and
\* puts on its list those that are old enough.
LEMMA ReaperReaps ==
    ASSUME TypeOK, TypeOK', Inv, SpawnsTrue, ReapsTrue, Next
    PROVE  /\ \A n \in rp'.seen \cup rp'.todo : n \in rp.seen \cup rp.todo \/ (n \in Live /\ Elsewhere(n)')
           /\ \A n \in rp'.todo : n \in Names /\ (StillListed(n) \/ Aged(n)')
           /\ NothingListed'
<1> DEFINE Goal ==
             /\ \A n \in rp'.seen \cup rp'.todo : n \in rp.seen \cup rp.todo \/ (n \in Live /\ Elsewhere(n)')
             /\ \A n \in rp'.todo : n \in Names /\ (StillListed(n) \/ Aged(n)')
             /\ NothingListed'
<1>1. rp \in Reaps /\ rp.todo \subseteq Names /\ rp.seen \subseteq Names /\ NothingListed
  BY DEF TypeOK, Reaps, ReapsTrue
<1>2. rp' = rp => Goal
  BY <1>1 DEF StillListed, NothingListed
<1>3. ASSUME ReapOver \/ rp' = IdleReap PROVE Goal
  <2>1. rp'.seen = {} /\ rp'.todo = {}
    BY <1>3 DEF ReapOver, IdleReap
  <2>2. QED
    BY <2>1 DEF NothingListed
<1>4. CASE EnvNext
  <2>1. /\ rp'.seen = rp.seen /\ rp'.todo = rp.todo /\ rp'.canonical = rp.canonical
        /\ rp'.pc = "destroy" <=> rp.pc = "destroy"
    BY <1>1, <1>4 DEF Reaps, EnvNext, EnvStep, JobQueued, JobCancelled, HostedJob, LoseDelivery, Boot,
                      BootFails, Finish, AutoDestroy, RunnerCrash, Prune, Assign, ImageRollover, Tick
  <2>2. QED
    BY <1>1, <2>1 DEF StillListed, NothingListed
<1>5. CASE Webhooks
  BY <1>2, <1>5 DEF Webhooks, WebhookStep, QueuedNotForUs, QueuedMint, QueuedResolve, QueuedPost,
                    CompletedFind, CompletedLookup, CompletedDeregister, CompletedDestroy
<1>6. CASE ReconcilerStep
  BY <1>2, <1>6 DEF ReconcilerStep, ListRuns, ListJobs, ListMachines, SweepMint, SweepResolve, SweepPost
<1>7. CASE Restart
  BY <1>3, <1>7 DEF Restart
<1>8. CASE ReapList
  <2>1. CASE rp' = [rp EXCEPT !.pc = "resolve", !.seen = Live]
    <3>1. rp'.seen = Live /\ rp'.todo = {}
      BY <1>1, <1>8, <2>1 DEF Reaps, ReapList, ReapAt, NothingListed
    <3>2. \A n \in Live : Elsewhere(n)'
      BY <1>8 DEF ReapList, Inv, NamesReserved, Unused, Live, Elsewhere, QueuedSpawning, SweepSpawning
    <3>3. QED
      BY <3>1, <3>2 DEF NothingListed
  <2>2. QED
    BY <1>3, <1>8, <2>1 DEF ReapList
<1>9. CASE ReapResolve
  <2>1. UNCHANGED <<image, age, latest>>
    BY <1>9 DEF ReapResolve
  <2>2. ASSUME NEW d, d = latest \/ d \in NewestSpawnDigests, Classified(d) PROVE Goal
    <3>1. CASE rp' = [rp EXCEPT !.pc = "destroy", !.todo = Candidates(d), !.canonical = d]
      <4>1. /\ rp'.seen = rp.seen /\ rp'.todo = Candidates(d) /\ rp'.canonical = d
            /\ rp'.pc = "destroy" /\ Candidates(d) \subseteq rp.seen
        BY <1>1, <3>1 DEF Candidates, Reaps
      <4>2. \A n \in Candidates(d) : Aged(n)'
        <5> SUFFICES ASSUME NEW n \in Candidates(d) PROVE Aged(n)'
          OBVIOUS
        <5>1. n \in Names /\ n \in rp.seen
          BY <1>1, <4>1
        <5>2. \A x, y \in Nat : x <= y /\ x # y => x < y
          OBVIOUS
        <5>3. latest \in Nat /\ \A m \in Names : image[m] \in Nat /\ image[m] <= latest
          BY ReapNumbers DEF ReapsTrue, ImagesTrue
        <5>4. CASE OverHardAge(n)
          BY <2>1, <5>4 DEF OverHardAge, Aged
        <5>5. CASE Stale(n, d) /\ image[n] < latest
          BY <2>1, <5>5 DEF Stale, Aged
        <5>6. CASE Stale(n, d) /\ ~(image[n] < latest)
          <6>1. image[n] = latest /\ d # latest
            BY <5>1, <5>2, <5>3, <5>6 DEF Stale
          <6>2. PICK m \in rp.seen : image[m] = d /\ age[m] <= age[n]
            BY <2>2, <5>1, <6>1 DEF NewestSpawnDigests
          <6>3. image[m] < image[n]
            BY <1>1, <5>1, <5>2, <5>3, <6>1, <6>2
          <6>4. Overtaken(n)'
            BY <2>1, <4>1, <6>2, <6>3 DEF Overtaken
          <6>5. QED
            BY <2>1, <5>6, <6>4 DEF Stale, Aged
        <5>7. QED
          BY <5>4, <5>5, <5>6 DEF Candidates
      <4>3. QED
        BY <1>1, <4>1, <4>2 DEF NothingListed
    <3>2. QED
      BY <1>3, <2>2, <3>1 DEF Classified
  <2>3. QED
    BY <1>3, <1>9, <2>2 DEF ReapResolve
<1>10. ASSUME NEW n \in Names, ReapDestroy(n) PROVE Goal
  <2>1. CASE rp' = [rp EXCEPT !.todo = @ \ {n}]
    <3>1. /\ rp'.seen = rp.seen /\ rp'.todo = rp.todo \ {n} /\ rp'.canonical = rp.canonical
          /\ rp'.pc = "destroy"
      BY <1>1, <1>10, <2>1 DEF Reaps, ReapDestroy, ReapAt
    <3>2. QED
      BY <1>1, <3>1 DEF StillListed, NothingListed
  <2>2. QED
    BY <1>3, <1>10, <2>1 DEF ReapDestroy
<1>11. QED
  BY <1>4, <1>5, <1>6, <1>7, <1>8, <1>9, <1>10 DEF Next, ReaperStep

\* The reaper's list stays true under every step, and holds before the first.
LEMMA NextReaps ==
    /\ Init => ReapsTrue
    /\ TypeOK /\ TypeOK' /\ Inv /\ SpawnsTrue /\ ReapsTrue /\ [Next]_vars => ReapsTrue'
<1>1. ASSUME Init PROVE ReapsTrue
  BY <1>1 DEF Init, IdleSweep, IdleReap, ReapsTrue, ImagesTrue, ListedElsewhere, CandidatesAged,
                    NothingListed
<1>2. ASSUME TypeOK, TypeOK', Inv, SpawnsTrue, ReapsTrue, Next PROVE ReapsTrue'
  <2>1. ImagesTrue'
    BY <1>2, ImagesKept DEF ReapsTrue
  <2>2. \A n \in rp.seen \cup rp.todo : Elsewhere(n)' /\ (n \in Live' => n \in Live)
    BY <1>2, RememberedKept, GoneForGood DEF ReapsTrue, ListedElsewhere
  <2>3. ListedElsewhere'
    BY <1>2, <2>2, ReaperReaps DEF ListedElsewhere
  <2>4. \A n \in rp.todo : n \in Live' /\ StillListed(n) => Aged(n)'
    BY <1>2, <2>2, AgedKept DEF ReapsTrue, CandidatesAged, StillListed
  <2>5. CandidatesAged' /\ NothingListed'
    BY <1>2, <2>4, ReaperReaps DEF CandidatesAged, StillListed
  <2>6. QED
    BY <2>1, <2>3, <2>5 DEF ReapsTrue
<1>3. ASSUME ReapsTrue, UNCHANGED vars PROVE ReapsTrue'
  BY <1>3 DEF vars, ReapsTrue, ImagesTrue, ListedElsewhere, CandidatesAged, NothingListed, Elsewhere,
              Aged, Overtaken, Live, QueuedSpawning, SweepSpawning
<1>4. QED
  BY <1>1, <1>2, <1>3

\* A step that kills a job destroys its Machine, and only the reaper does so
\* while the job runs.
LEMMA KillingStep ==
    ASSUME TypeOK, Inv, DestroyOnlyDeregistered, Next,
           NEW n \in Names, runner[n] = "busy", jobs'[work[n]] = "killed"
    PROVE  n \in rp.todo /\ n \in Live
<1> USE Shapes
<1>0. n \in Live
  BY DEF Inv, WorkConsistent, Live
<1>1. work[n] \in Jobs /\ jobs[work[n]] = "running"
      /\ \A m \in Names : work[m] = work[n] => m = n
  BY DEF Inv, WorkConsistent
<1>2. ASSUME NEW m, NEW hooks, Destroyed(m, hooks), m \in Names PROVE m = n
  <2>1. runner[m] = "busy" /\ jobs' = [jobs EXCEPT ![work[m]] = "killed"]
    BY <1>1, <1>2 DEF Destroyed
  <2>2. work[m] = work[n]
    BY <1>1, <2>1
  <2>3. QED
    BY <1>1, <1>2, <2>2
<1>3. jobs' # jobs
  BY <1>1
<1>4. CASE EnvNext
  <2>1. \A j \in Jobs : jobs'[j] = "killed" => jobs[j] = "killed"
    BY <1>4 DEF EnvNext, EnvStep, JobQueued, JobCancelled, HostedJob, LoseDelivery, Boot, BootFails,
                Finish, AutoDestroy, RunnerCrash, Prune, Assign, ImageRollover, Tick
  <2>2. QED
    BY <1>1, <2>1
<1>5. ASSUME NEW j \in Jobs, WebhookStep(j) PROVE n \in rp.todo
  <2>1. CompletedDestroy(j)
    BY <1>3, <1>5 DEF WebhookStep, QueuedNotForUs, QueuedMint, QueuedResolve, QueuedPost, CompletedFind,
                      CompletedLookup, CompletedDeregister
  <2>2. runner[ch[j].name] = "none"
    BY <2>1 DEF CompletedDestroy, CompletedAt, DestroyOnlyDeregistered
  <2>3. jobs' = jobs
    BY <2>1, <2>2 DEF CompletedDestroy, Destroyed
  <2>4. QED
    BY <1>3, <2>3
<1>6. CASE ReconcilerStep \/ Restart
  BY <1>3, <1>6 DEF ReconcilerStep, ListRuns, ListJobs, ListMachines, SweepMint, SweepResolve, SweepPost,
                    Restart
<1>7. CASE ReaperStep
  <2>1. PICK m \in Names : ReapDestroy(m)
    BY <1>3, <1>7 DEF ReaperStep, ReapList, ReapResolve
  <2>2. QED
    BY <1>0, <1>2, <1>3, <2>1 DEF ReapDestroy
<1>8. QED
  BY <1>0, <1>4, <1>5, <1>6, <1>7 DEF Next, Webhooks

\* A job is killed only on a Machine past hard_max_age, or past max_age and
\* either on a superseded image or overtaken by a later spawn of an older
\* digest in the very listing of the sweep: with every task running, and
\* however long ago the reaper listed and classified the Machine.
THEOREM OnlyTheAgedAreKilled ==
    ASSUME RegisterAtMint
    PROVE  Spec => KillsAreAged
<1> DEFINE Safe == TypeOK /\ Inv /\ SpawnsTrue /\ DestroyOnlyDeregistered /\ ReapsTrue
           Kill == \A n \in Names : runner[n] = "busy" /\ jobs'[work[n]] = "killed" =>
                      \/ age[n] >= HardMaxAge
                      \/ age[n] >= MaxAge /\ (image[n] < latest \/ Overtaken(n))
<1>1. Init => Safe
  BY InitType, InitInv, InitSpawns, NextReaps DEF Init, DestroyOnlyDeregistered
<1>2. Safe /\ [Next]_vars => Safe'
  BY NextType, NextInv, StepSpawns, NextDeregistered, NextReaps
<1>3. Safe /\ [Next]_vars => [Kill]_vars
  BY KillingStep DEF ReapsTrue, CandidatesAged, Aged
<1>4. QED
  BY <1>1, <1>2, <1>3, PTL DEF Spec, KillsAreAged

=============================================================================
