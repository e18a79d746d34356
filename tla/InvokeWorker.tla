---------------------------- MODULE InvokeWorker ----------------------------
(***************************************************************************)
(* The background executor's claim loop and the task it spawns for each    *)
(* claimed InvokeAgent item.  A task belongs to one execution for life: it *)
(* captured the item and the execution id when it was claimed, and every   *)
(* transaction it runs later may find that the item moved on.              *)
(***************************************************************************)
EXTENDS InvokeStore

VARIABLES
    pc,   \* where the task of each execution stands; "idle" without a task
    boot  \* "up" while the daemon serves; else the startup recovery phase

PCs == {"idle", "start", "prompt", "result", "import", "imported", "capacity",
        "ok", "rejected", "contended", "transient", "failed", "mark"}
BootPhases == {"up", "cancelled_runs", "settle", "complete", "fail", "requeue"}

WorkerTypeOK == pc \in [Execs -> PCs] /\ boot \in BootPhases

WorkerInit == pc = [e \in Execs |-> "idle"] /\ boot = "up"

Goto(e, label) == pc' = [pc EXCEPT ![e] = label]

-----------------------------------------------------------------------------
(* Claiming.  One loop claims, so the candidate it selected cannot have    *)
(* been claimed by anyone else in the meantime.                            *)

(* mutant: off by one *)
HasStartCapacityInclusive == Cardinality(RunningExecs) <= MaxActive

(* invoke_item_has_start_capacity: the whole table is counted, the         *)
(* execution an item already holds included.                               *)
HasStartCapacity == Cardinality(RunningExecs) < MaxActive

FreshExec(i, e) ==
    /\ Item(e) = i
    /\ execStatus[e] = "none"
    /\ \A d \in Execs : Item(d) = i /\ d[2] < e[2] => execStatus[d] # "none"

(* mutant: claims that wait for the retry are forgotten *)
InsertClaimOnly(e) ==
    /\ claimState' = [claimState EXCEPT ![e] = "active"]
    /\ UNCHANGED supersededBy

(* The active source claim of e is inserted; the claims that waited for a   *)
(* retry of its item are now superseded by e.                              *)
InsertClaim(e) ==
    LET waiting == {d \in Execs : /\ Item(d) = Item(e)
                                  /\ claimState[d] = "superseded_pending_retry"}
    IN  /\ claimState' = [d \in Execs |-> IF d = e THEN "active"
                                          ELSE IF d \in waiting THEN "superseded"
                                          ELSE claimState[d]]
        /\ supersededBy' = [d \in Execs |-> IF d \in waiting THEN e
                                                             ELSE supersededBy[d]]

(* A pending item without p058_claimed gets a new execution. *)
ClaimFresh(i) ==
    /\ boot = "up" /\ status[i] = "pending" /\ claim[i] = NoExec
    /\ HasStartCapacity
    /\ \E e \in Execs :
         /\ FreshExec(i, e)
         /\ claim' = [claim EXCEPT ![i] = e]
         /\ execStatus' = [execStatus EXCEPT ![e] = "running"]
         /\ InsertClaim(e)
         /\ Goto(e, "start")
    /\ status' = [status EXCEPT ![i] = "running"]
    /\ attempts' = [attempts EXCEPT ![i] = @ + 1]
    /\ UNCHANGED <<advance, valid, active, hostRow, repairVars, faults, boot>>

(* mutant: resuming sets the execution running again *)
ClaimResumeReviving(i) ==
    /\ boot = "up" /\ status[i] = "pending" /\ claim[i] # NoExec
    /\ HasStartCapacity
    /\ status' = [status EXCEPT ![i] = "running"]
    /\ attempts' = [attempts EXCEPT ![i] = @ + 1]
    /\ execStatus' = [execStatus EXCEPT ![claim[i]] = "running"]
    /\ Goto(claim[i], "start")
    /\ UNCHANGED <<claim, advance, valid, active, claimVars, hostRow, repairVars,
                   faults, boot>>

(* A pending item that kept p058_claimed resumes the same execution,       *)
(* whatever became of that execution.                                      *)
ClaimResume(i) ==
    /\ boot = "up" /\ status[i] = "pending" /\ claim[i] # NoExec
    /\ HasStartCapacity
    /\ status' = [status EXCEPT ![i] = "running"]
    /\ attempts' = [attempts EXCEPT ![i] = @ + 1]
    /\ Goto(claim[i], "start")
    /\ UNCHANGED <<claim, advance, execVars, claimVars, hostRow, repairVars,
                   faults, boot>>

-----------------------------------------------------------------------------
(* process_item, up to the provider's answer                               *)

NoWrite == UNCHANGED storeVars

(* A preclaimed execution that is already terminal skips the provider.     *)
StartCheck(e) ==
    /\ pc[e] = "start"
    /\ Goto(e, IF execStatus[e] = "running" THEN "prompt" ELSE "ok")
    /\ NoWrite /\ UNCHANGED boot

(* The prompt succeeded; a result for an execution that is no longer       *)
(* running is discarded.                                                   *)
ProviderResult(e) ==
    /\ pc[e] = "prompt"
    /\ Goto(e, IF execStatus[e] = "running" THEN "result" ELSE "ok")
    /\ NoWrite /\ UNCHANGED boot

(* A host-fenced result is rejected before discovery and repair. *)
CheckResultOwner(e) ==
    /\ pc[e] = "result"
    /\ Goto(e, IF HostOwns(e) THEN "idle" ELSE "import")
    /\ NoWrite /\ UNCHANGED boot

(* The prompt failed and no recovery applies: the execution is marked      *)
(* failed whatever its status, and the error is returned.                  *)
ProviderError(e) ==
    /\ pc[e] = "prompt" /\ Fault("provider_error")
    /\ execStatus' = [execStatus EXCEPT ![e] = "failed"]
    /\ valid' = [valid EXCEPT ![e] = FALSE]
    /\ Goto(e, "failed")
    /\ UNCHANGED <<itemVars, active, claimVars, hostRow, repairVars, boot>>

(* auto_requeue_active_prompt_close, when the host retry or another        *)
(* attempt took the item over: nothing to do.                              *)
PromptClosedStale(e) ==
    /\ HostRetrySupersedes(e) \/ ~MatchesAttempt(e)
    /\ Goto(e, "idle")
    /\ UNCHANGED <<itemVars, execVars, claimVars>>

(* ... when this attempt owns the item and may be retried *)
PromptClosedRequeue(e) ==
    /\ ~HostRetrySupersedes(e) /\ MatchesAttempt(e)
    /\ attempts[Item(e)] < PromptCloseMax
    /\ RequeueStripped({e})
    /\ execStatus' = [execStatus EXCEPT ![e] = "failed"]
    /\ valid' = [valid EXCEPT ![e] = FALSE]
    /\ Goto(e, "idle")
    /\ UNCHANGED <<attempts, advance, active, supersededBy>>

(* ... when its retries are spent: ordinary failure handling follows *)
PromptClosedExhausted(e) ==
    /\ ~HostRetrySupersedes(e) /\ MatchesAttempt(e)
    /\ attempts[Item(e)] >= PromptCloseMax
    /\ execStatus' = [execStatus EXCEPT ![e] = "failed"]
    /\ valid' = [valid EXCEPT ![e] = FALSE]
    /\ Goto(e, "failed")
    /\ UNCHANGED <<itemVars, active, claimVars>>

(* The ACP transport of the prompt closed: by itself (a fault), or because *)
(* host recovery closed the session of an execution it owns.               *)
ActivePromptClosed(e) ==
    /\ pc[e] = "prompt"
    /\ IF HostOwns(e) THEN faults' = faults ELSE Fault("prompt_closed")
    /\ PromptClosedStale(e) \/ PromptClosedRequeue(e) \/ PromptClosedExhausted(e)
    /\ UNCHANGED <<hostRow, repairVars, boot>>

(* Junie reports provider capacity: the execution is failed in one         *)
(* transaction ...                                                         *)
ProviderCapacity(e) ==
    /\ pc[e] = "prompt" /\ Fault("provider_capacity")
    /\ execStatus' = [execStatus EXCEPT ![e] = "failed"]
    /\ valid' = [valid EXCEPT ![e] = FALSE]
    /\ Goto(e, "capacity")
    /\ UNCHANGED <<itemVars, active, claimVars, hostRow, repairVars, boot>>

(* ... and the item is requeued in another, which looks only at the        *)
(* item's status: any preclaim is stripped, only e's own claim superseded. *)
ProviderCapacityRequeue(e) ==
    LET i == Item(e)
    IN  /\ pc[e] = "capacity"
        /\ IF status[i] = "running"
           THEN /\ status' = [status EXCEPT ![i] = "pending"]
                /\ claim' = [claim EXCEPT ![i] = NoExec]
                /\ claimState' = [claimState EXCEPT ![e] =
                       IF @ = "active" THEN "superseded_pending_retry" ELSE @]
                /\ Goto(e, "idle")
           ELSE Goto(e, "failed") /\ UNCHANGED <<status, claim, claimState>>
        /\ UNCHANGED <<attempts, advance, execVars, supersededBy, hostRow,
                       repairVars, faults, boot>>

-----------------------------------------------------------------------------
(* The import transaction: executor.import_declared_outputs.  Every task   *)
(* here declares at least one output contract: one that declares none has  *)
(* nothing to import, so no claim is looked at, its execution is completed *)
(* whatever its status and no outputs are activated.                       *)

(* Host recovery owns the attempt. *)
ImportFenced(e) ==
    /\ pc[e] = "import" /\ HostOwns(e)
    /\ Goto(e, "idle")
    /\ NoWrite /\ UNCHANGED boot

(* mutant: fail_tx without its status guard *)
ImportLateUnguarded(e) ==
    /\ pc[e] = "import" /\ ~HostOwns(e) /\ claimState[e] # "active"
    /\ status' = [status EXCEPT ![Item(e)] = "failed"]
    /\ valid' = [valid EXCEPT ![e] = FALSE]
    /\ Goto(e, "imported")
    /\ UNCHANGED <<claim, attempts, advance, execStatus, active, claimVars,
                   hostRow, repairVars, faults, boot>>

(* The claim is no longer active: the outputs are quarantined, the item is *)
(* failed without a look at its owner, the execution keeps its status.     *)
ImportLate(e) ==
    /\ pc[e] = "import" /\ ~HostOwns(e) /\ claimState[e] # "active"
    /\ status' = [status EXCEPT ![Item(e)] =
           IF @ \in {"pending", "running"} THEN "failed" ELSE @]
    /\ valid' = [valid EXCEPT ![e] = FALSE]
    /\ Goto(e, "imported")
    /\ UNCHANGED <<claim, attempts, advance, execStatus, active, claimVars,
                   hostRow, repairVars, faults, boot>>

(* mutants: the outputs are activated under the given guard only *)
ImportIf(e, guard) ==
    /\ pc[e] = "import" /\ guard
    /\ execStatus' = [execStatus EXCEPT ![e] = "completed"]
    /\ valid' = [valid EXCEPT ![e] = TRUE]
    /\ active' = active \cup {e}
    /\ claimState' = [claimState EXCEPT ![e] = "closed"]
    /\ Goto(e, "imported")
    /\ UNCHANGED <<itemVars, supersededBy, hostRow, repairVars, faults, boot>>

ImportUnfenced(e) == ImportIf(e, claimState[e] = "active")
ImportUnclaimed(e) == ImportIf(e, ~HostOwns(e))

(* The claim is active: the outputs become active contracts, of a          *)
(* completed execution or of a failed one whose outputs satisfy the stage. *)
ImportAccepted(e) ==
    /\ pc[e] = "import" /\ ~HostOwns(e) /\ claimState[e] = "active"
    /\ \E final \in {"completed", "failed"} :
           execStatus' = [execStatus EXCEPT ![e] = final]
    /\ valid' = [valid EXCEPT ![e] = TRUE]
    /\ active' = active \cup {e}
    /\ CloseClaim(e)
    /\ Goto(e, "imported")
    /\ UNCHANGED <<itemVars, supersededBy, hostRow, repairVars, faults, boot>>

(* Nothing importable was produced: there is no claim check, the execution *)
(* fails whatever its status.                                              *)
ImportMissing(e) ==
    /\ pc[e] = "import" /\ ~HostOwns(e)
    /\ execStatus' = [execStatus EXCEPT ![e] = "failed"]
    /\ valid' = [valid EXCEPT ![e] = FALSE]
    /\ CloseClaim(e)
    /\ Goto(e, "imported")
    /\ UNCHANGED <<itemVars, active, supersededBy, hostRow, repairVars, faults,
                   boot>>

(* The rest of process_item after the import returns Ok.  It writes no row *)
(* of this store: the recovery snapshot and the evidence are reports, the  *)
(* settlement of a single-task stage and its AdvanceRun are rows of        *)
(* RunLifecycle (SettleSingle, Reevaluate).                                *)
FinishProcessing(e) ==
    /\ pc[e] = "imported" /\ Goto(e, "ok")
    /\ NoWrite /\ UNCHANGED boot

-----------------------------------------------------------------------------
(* run_loop's settlement of what process_item returned                     *)

(* Any step of process_item may fail on SQLite contention ... *)
TransientError(e) ==
    /\ pc[e] \in {"prompt", "import", "imported"} /\ Fault("transient")
    /\ Goto(e, "transient")
    /\ UNCHANGED <<itemVars, execVars, claimVars, hostRow, repairVars, boot>>

(* ... or on something else, outside the ACP error handler *)
WorkerError(e) ==
    /\ pc[e] \in {"prompt", "import", "imported"} /\ Fault("worker_error")
    /\ Goto(e, "failed")
    /\ UNCHANGED <<itemVars, execVars, claimVars, hostRow, repairVars, boot>>

(* mutant: missing proof of outputs is taken for a stale attempt *)
CompleteAttemptSwallowing(e) ==
    /\ pc[e] = "ok"
    /\ IF MatchesAttempt(e) /\ ProvesOutputs(Item(e))
       THEN CompleteItem(Item(e)) /\ UNCHANGED <<hostRow, repairVars, faults>>
       ELSE NoWrite
    /\ Goto(e, "idle")
    /\ UNCHANGED boot

(* complete_attempt: a stale attempt is a no-op, missing proof of outputs  *)
(* is an error.                                                            *)
CompleteAttempt(e) ==
    /\ pc[e] = "ok"
    /\ IF MatchesAttempt(e) /\ ProvesOutputs(Item(e))
       THEN CompleteItem(Item(e)) /\ UNCHANGED <<hostRow, repairVars, faults>>
       ELSE NoWrite
    /\ Goto(e, IF MatchesAttempt(e) /\ ~ProvesOutputs(Item(e))
               THEN "rejected" ELSE "idle")
    /\ UNCHANGED boot

(* complete_attempt itself hit contention *)
CompletionContended(e) ==
    /\ pc[e] = "ok" /\ Fault("transient")
    /\ Goto(e, "contended")
    /\ UNCHANGED <<itemVars, execVars, claimVars, hostRow, repairVars, boot>>

(* requeue_attempt_after_transient_persistence_contention: the preclaim    *)
(* stays, so the execution will be resumed.  After an error of             *)
(* process_item a refused requeue falls back to fail_attempt.              *)
RequeueAttempt(e) ==
    /\ pc[e] \in {"transient", "contended"}
    /\ IF MatchesAttempt(e)
       THEN status' = [status EXCEPT ![Item(e)] = "pending"]
       ELSE UNCHANGED status
    /\ Goto(e, IF ~MatchesAttempt(e) /\ pc[e] = "transient" THEN "failed"
                                                             ELSE "idle")
    /\ UNCHANGED <<claim, attempts, advance, execVars, claimVars, hostRow,
                   repairVars, faults, boot>>

(* fail_attempt *)
FailAttempt(e) ==
    /\ pc[e] \in {"failed", "rejected"}
    /\ IF MatchesAttempt(e) THEN FailItem(Item(e)) ELSE UNCHANGED itemVars
    /\ Goto(e, IF pc[e] = "failed" THEN "mark" ELSE "idle")
    /\ UNCHANGED <<execVars, claimVars, hostRow, repairVars, faults, boot>>

(* mark_agent_execution_failed_if_running *)
MarkExecutionFailed(e) ==
    /\ pc[e] = "mark"
    /\ execStatus' = IF execStatus[e] = "running" /\ ~CleanupHolds(e)
                     THEN [execStatus EXCEPT ![e] = "failed"] ELSE execStatus
    /\ Goto(e, "idle")
    /\ UNCHANGED <<itemVars, valid, active, claimVars, hostRow, repairVars,
                   faults, boot>>

(* What a task does by itself, and what the environment does to it *)
TaskStep(e) ==
    \/ StartCheck(e) \/ ProviderResult(e) \/ CheckResultOwner(e)
    \/ ProviderCapacityRequeue(e)
    \/ ImportFenced(e) \/ ImportLate(e) \/ ImportAccepted(e) \/ ImportMissing(e)
    \/ FinishProcessing(e) \/ CompleteAttempt(e) \/ RequeueAttempt(e)
    \/ FailAttempt(e) \/ MarkExecutionFailed(e)

TaskFault(e) ==
    \/ ProviderError(e) \/ ActivePromptClosed(e) \/ ProviderCapacity(e)
    \/ TransientError(e) \/ WorkerError(e) \/ CompletionContended(e)

ClaimStep(i) == ClaimFresh(i) \/ ClaimResume(i)
=============================================================================
