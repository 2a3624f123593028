------------------------------ MODULE Webhook ------------------------------
(***************************************************************************)
(* The two workflow_job webhook handlers of the orchestrator               *)
(* (infra/orchestrator/src/main.rs).  Each handler awaits one API call at  *)
(* a time, so anything may happen between two of its steps; a step is one  *)
(* call together with the branch the handler takes on its answer.          *)
(***************************************************************************)
EXTENDS Fleet

QueuedAt(j, pc)    == qh[j].pc = pc
CompletedAt(j, pc) == ch[j].pc = pc

QueuedReturn(j)    == qh' = [qh EXCEPT ![j].pc = "done", ![j].name = NoName]
CompletedReturn(j) == ch' = [ch EXCEPT ![j] = [pc |-> "done", name |-> NoName]]

-----------------------------------------------------------------------------
(* handle_queued: mint a JIT config, resolve :latest, create the Machine.   *)

QueuedNotForUs(j) ==
    /\ QueuedAt(j, "inflight") /\ j \notin FlyJobs
    /\ QueuedReturn(j)
    /\ UNCHANGED <<jobs, runner, machine, owner, work, image, age, ran, latest,
                   faults, ch, rc, ledger, rp>>

QueuedMint(j) ==
    /\ QueuedAt(j, "inflight") /\ j \in FlyJobs
    /\ \/ \E n \in Names :
            /\ Minted(n, j)
            /\ qh' = [qh EXCEPT ![j].pc = "resolve", ![j].name = n]
            /\ UNCHANGED faults
       \/ Fault /\ QueuedReturn(j) /\ UNCHANGED <<owner, runner>>
    /\ UNCHANGED <<jobs, machine, work, image, age, ran, latest, ch, rc, ledger, rp>>

QueuedResolve(j) ==
    /\ QueuedAt(j, "resolve")
    /\ \/ qh' = [qh EXCEPT ![j].pc = "post", ![j].img = latest] /\ UNCHANGED faults
       \/ Fault /\ QueuedReturn(j)
    /\ UNCHANGED <<jobs, runner, machine, owner, work, image, age, ran, latest,
                   ch, rc, ledger, rp>>

\* A failed POST may still have created the Machine.
QueuedPost(j) ==
    /\ QueuedAt(j, "post")
    /\ QueuedReturn(j)
    /\ \/ AtCapacity /\ UNCHANGED <<machine, image, age, faults>>
       \/ ~AtCapacity /\ Created(qh[j].name, qh[j].img) /\ (Fault \/ UNCHANGED faults)
       \/ Fault /\ UNCHANGED <<machine, image, age>>
    /\ UNCHANGED <<jobs, runner, owner, work, ran, latest, ch, rc, ledger, rp>>

-----------------------------------------------------------------------------
(* handle_completed: find the Machine spawned for the job, deregister its   *)
(* runner unless busy, and only then force-destroy it.                      *)

CompletedFind(j) ==
    /\ CompletedAt(j, "inflight")
    /\ \/ \E n \in Live : /\ owner[n] = j
                          /\ ch' = [ch EXCEPT ![j] = [pc |-> "lookup", name |-> n]]
                          /\ UNCHANGED faults
       \/ /\ \A n \in Live : owner[n] # j
          /\ CompletedReturn(j)
          /\ UNCHANGED faults
       \/ Fault /\ CompletedReturn(j)
    /\ UNCHANGED <<jobs, runner, machine, owner, work, image, age, ran, latest,
                   qh, rc, ledger, rp>>

MutLookupSkipsDeregister(status) ==
    CASE status = "busy" -> "done" [] OTHER -> "destroy"

\* The branch handle_completed takes on what the runner lookup returns.
AfterLookup(status) ==
    CASE status = "busy" -> "done"
      [] status = "none" -> "destroy"
      [] OTHER           -> "deregister"

CompletedLookup(j) ==
    /\ CompletedAt(j, "lookup")
    /\ LET next == AfterLookup(runner[ch[j].name])
       IN  \/ next # "done" /\ ch' = [ch EXCEPT ![j].pc = next] /\ UNCHANGED faults
           \/ next = "done" /\ CompletedReturn(j) /\ UNCHANGED faults
           \/ Fault /\ CompletedReturn(j)
    /\ UNCHANGED <<jobs, runner, machine, owner, work, image, age, ran, latest,
                   qh, rc, ledger, rp>>

MutDestroysRefused(status) == "destroy"

\* GitHub deletes a registration unless it is busy (422) or gone (404); the
\* handler goes on to destroy only if it was deleted.
AfterDelete(status) == IF status \in {"idle", "offline"} THEN "destroy" ELSE "done"

CompletedDeregister(j) ==
    /\ CompletedAt(j, "deregister")
    /\ LET n == ch[j].name
       IN  \/ /\ AfterDelete(runner[n]) = "destroy"
              /\ runner' = IF runner[n] = "busy" THEN runner ELSE [runner EXCEPT ![n] = "none"]
              /\ ch' = [ch EXCEPT ![j].pc = "destroy"]
              /\ UNCHANGED faults
           \/ /\ AfterDelete(runner[n]) = "done"
              /\ CompletedReturn(j)
              /\ UNCHANGED <<runner, faults>>
           \/ /\ Fault /\ CompletedReturn(j)
              /\ UNCHANGED runner
    /\ UNCHANGED <<jobs, machine, owner, work, image, age, ran, latest, qh, rc, ledger, rp>>

\* Destroying a Machine that auto_destroy already removed is a 404, logged.
CompletedDestroy(j) ==
    /\ CompletedAt(j, "destroy")
    /\ LET returned == [ch EXCEPT ![j] = [pc |-> "done", name |-> NoName]]
       IN  \/ Destroyed(ch[j].name, returned) /\ UNCHANGED faults
           \/ Fault /\ ch' = returned /\ UNCHANGED <<jobs, runner, machine, work>>
    /\ UNCHANGED <<owner, image, age, ran, latest, qh, rc, ledger, rp>>

WebhookStep(j) ==
    \/ QueuedNotForUs(j) \/ QueuedMint(j) \/ QueuedResolve(j) \/ QueuedPost(j)
    \/ CompletedFind(j) \/ CompletedLookup(j) \/ CompletedDeregister(j)
    \/ CompletedDestroy(j)
=============================================================================
