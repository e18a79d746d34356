--------------------------- MODULE InvokeRecovery ---------------------------
(***************************************************************************)
(* Everything that moves an InvokeAgent item besides its own task: the     *)
(* terminal-outputs sweep, the P080 stale-execution reconciler, host       *)
(* interruption recovery, run cancellation, and the crash of the daemon    *)
(* followed by startup recovery.                                           *)
(***************************************************************************)
EXTENDS InvokeWorker

VARIABLES
    sweep,      \* items the running sweep selected and has yet to complete
    affected    \* executions the host interruption in progress fenced

RecoveryTypeOK == sweep \subseteq Items /\ affected \subseteq Execs
RecoveryInit == sweep = {} /\ affected = {}

-----------------------------------------------------------------------------
(* complete_running_invoke_agents_with_terminal_valid_outputs_on_startup,  *)
(* which the executor loop also runs between two claims.                   *)

HasTerminalValidOutputs(i) ==
    LET e == claim[i]
    IN  /\ status[i] = "running" /\ e # NoExec
        /\ execStatus[e] \in {"completed", "failed"}
        /\ claimState[e] \in {"active", "closed"}
        /\ valid[e]

SweepSelect ==
    /\ boot = "up" /\ sweep = {}
    /\ sweep' = {i \in Items : HasTerminalValidOutputs(i)}
    /\ sweep' # {}
    /\ NoWrite /\ UNCHANGED <<pc, boot, affected>>

(* complete() carries no expected execution: only the item's status and,   *)
(* for a running item, the proof of outputs are checked.  An error ends    *)
(* the sweep.                                                              *)
SweepComplete(i) ==
    /\ boot = "up" /\ i \in sweep
    /\ \/ /\ status[i] = "running" => ProvesOutputs(i)
          /\ status[i] \in {"pending", "running"}
          /\ CompleteItem(i)
          /\ sweep' = sweep \ {i}
          /\ UNCHANGED <<hostRow, repairVars, faults>>
       \/ /\ status[i] \in Terminal
          /\ sweep' = sweep \ {i}
          /\ NoWrite
       \/ /\ status[i] = "running" /\ ~ProvesOutputs(i)
          /\ sweep' = {}
          /\ NoWrite
    /\ UNCHANGED <<pc, boot, affected>>

-----------------------------------------------------------------------------
(* P080 reconciliation                                                     *)

(* classify_and_upsert_running_executions: a running execution that looks  *)
(* stale is filed under the oldest running item of the stage.              *)
P080Classify ==
    /\ boot = "up" /\ "p080" \in Faults /\ RunningExecs # {}
    /\ \E i \in Items :
         /\ status[i] = "running"
         /\ \A j \in 1..(i - 1) : status[j] # "running"
         /\ i \notin stale
         /\ stale' = stale \cup {i}
    /\ UNCHANGED <<itemVars, execVars, claimVars, hostRow, run,
                   faults, pc, boot, sweep, affected>>

(* retire_terminal_heartbeats *)
P080Retire ==
    /\ boot = "up"
    /\ stale' = {i \in stale : status[i] = "running"}
    /\ stale' # stale
    /\ UNCHANGED <<itemVars, execVars, claimVars, hostRow, run,
                   faults, pc, boot, sweep, affected>>

(* repair_stale_invoke_agent_checked, with                                 *)
(* p080_requeue_running_invoke_agent_by_id_tx                              *)
P080Repair(i) ==
    /\ boot = "up" /\ i \in stale /\ status[i] = "running" /\ Fault("p080")
    /\ RequeueStripped({claim[i]})
    /\ execStatus' = CancelIfRunning({claim[i]})
    /\ stale' = stale \ {i}
    /\ UNCHANGED <<attempts, advance, valid, active, supersededBy, hostRow,
                   run, pc, boot, sweep, affected>>

-----------------------------------------------------------------------------
(* HostInterruptionService::record_and_requeue                             *)

(* Phase one fences the running executions that started before the         *)
(* interruption ended; they stay running.                                  *)
HostPrepare ==
    /\ boot = "up" /\ affected = {} /\ Fault("host")
    /\ affected' \in SUBSET {e \in RunningExecs : ~CleanupHolds(e)}
    /\ affected' # {}
    /\ hostRow' = [e \in Execs |->
           IF e \in affected' THEN "cleanup_pending" ELSE hostRow[e]]
    /\ UNCHANGED <<itemVars, execVars, claimVars, repairVars, pc, boot, sweep>>

(* Phase two, after the sessions of all but the executions in F closed:    *)
(* every fenced execution is cancelled, those that still own their item    *)
(* hand it over for a retry.                                               *)
HostSettle(F) ==
    LET R == {e \in affected \ F : OwnsItem(e)}
    IN  /\ boot = "up" /\ affected # {}
        /\ RequeueStripped(R)
        /\ execStatus' = [e \in Execs |->
               IF e \in affected THEN "cancelled" ELSE execStatus[e]]
        /\ hostRow' = [e \in Execs |->
               IF e \notin affected THEN hostRow[e]
               ELSE IF e \in F THEN "retry_deferred_cleanup_failed"
               ELSE IF e \in R THEN "retry_enqueued"
               ELSE "retry_missing_work_item"]
        /\ affected' = {}
        /\ UNCHANGED <<attempts, advance, valid, active, supersededBy,
                       repairVars, faults, pc, boot, sweep>>

(* Session cleanup may time out or fail for some of the executions. *)
CleanupFailures ==
    {F \in SUBSET affected : F # {} => "cleanup_failed" \in Faults}

HostSettleAny == \E F \in CleanupFailures : HostSettle(F)

-----------------------------------------------------------------------------
(* Run cancellation                                                        *)

(* begin_settlement_tx: running executions and running items only *)
CancelRun ==
    /\ boot = "up" /\ run = "running" /\ Fault("cancel")
    /\ run' = "cancelling"
    /\ execStatus' = CancelIfRunning(Execs)
    /\ status' = [i \in Items |->
           IF status[i] = "running" THEN "cancelled" ELSE status[i]]
    /\ UNCHANGED <<claim, attempts, advance, valid, active, claimVars, hostRow,
                   stale, pc, boot, sweep, affected>>

(* finalize_settlement, once the sessions are closed *)
FinalizeCancel ==
    /\ boot = "up" /\ run = "cancelling"
    /\ run' = "cancelled"
    /\ UNCHANGED <<itemVars, execVars, claimVars, hostRow, stale,
                   faults, pc, boot, sweep, affected>>

-----------------------------------------------------------------------------
(* Crash and startup recovery.  Tasks, the sweep and the host recovery in  *)
(* progress live in memory.  The executor starts only after recovery.      *)

Crash ==
    /\ Fault("crash")
    /\ boot' = "cancelled_runs"
    /\ pc' = [e \in Execs |-> "idle"]
    /\ sweep' = {} /\ affected' = {}
    /\ UNCHANGED <<itemVars, execVars, claimVars, hostRow, repairVars>>

(* mutant: pending items are left to the queue *)
StartupCancelledRunsRunningOnly ==
    /\ boot = "cancelled_runs" /\ boot' = "settle"
    /\ IF run = "cancelled"
       THEN /\ execStatus' = CancelIfRunning(Execs)
            /\ status' = [i \in Items |->
                   IF status[i] = "running" THEN "cancelled" ELSE status[i]]
       ELSE UNCHANGED <<execStatus, status>>
    /\ UNCHANGED <<claim, attempts, advance, valid, active, claimVars, hostRow,
                   repairVars, faults, pc, sweep, affected>>

(* repair_cancelled_run_terminal_invariants *)
StartupCancelledRuns ==
    /\ boot = "cancelled_runs" /\ boot' = "settle"
    /\ IF run = "cancelled"
       THEN /\ execStatus' = CancelIfRunning(Execs)
            /\ status' = [i \in Items |->
                   IF status[i] \in Terminal THEN status[i] ELSE "cancelled"]
       ELSE UNCHANGED <<execStatus, status>>
    /\ UNCHANGED <<claim, attempts, advance, valid, active, claimVars, hostRow,
                   repairVars, faults, pc, sweep, affected>>

(* settle_terminal_preclaimed_invoke_agent_executions_tx *)
StartupSettle ==
    /\ boot = "settle" /\ boot' = "complete"
    /\ execStatus' = [e \in Execs |->
           IF /\ claim[Item(e)] = e /\ status[Item(e)] \in Terminal
              /\ execStatus[e] = "running"
           THEN status[Item(e)] ELSE execStatus[e]]
    /\ claimState' = [e \in Execs |->
           IF /\ claim[Item(e)] = e /\ status[Item(e)] \in Terminal
              /\ claimState[e] = "active"
           THEN "closed" ELSE claimState[e]]
    /\ UNCHANGED <<itemVars, valid, active, supersededBy, hostRow, repairVars,
                   faults, pc, sweep, affected>>

(* complete_running_invoke_agents_with_terminal_valid_outputs_on_startup *)
StartupComplete ==
    /\ boot = "complete"
    /\ \/ /\ \E i \in Items : HasTerminalValidOutputs(i) /\ CompleteItem(i)
          /\ UNCHANGED boot
          /\ UNCHANGED <<hostRow, repairVars, faults>>
       \/ /\ \A i \in Items : ~HasTerminalValidOutputs(i)
          /\ boot' = "fail"
          /\ NoWrite
    /\ UNCHANGED <<pc, sweep, affected>>

HasTerminalFailedOutputs(i) ==
    LET e == claim[i]
    IN  /\ status[i] = "running" /\ e # NoExec
        /\ execStatus[e] \in {"failed", "cancelled"}
        /\ ~valid[e]

(* fail_running_invoke_agents_with_terminal_failed_outputs_on_startup *)
StartupFail ==
    /\ boot = "fail"
    /\ \/ /\ \E i \in Items : HasTerminalFailedOutputs(i) /\ FailItem(i)
          /\ UNCHANGED <<boot, execVars, claimVars, hostRow, repairVars, faults>>
       \/ /\ \A i \in Items : ~HasTerminalFailedOutputs(i)
          /\ boot' = "requeue"
          /\ NoWrite
    /\ UNCHANGED <<pc, sweep, affected>>

(* requeue_running_invoke_agent_on_startup_tx with                         *)
(* settle_host_cleanup_after_startup_requeue_tx: what is still running is  *)
(* requeued.  An existing startup_repairs row of the item was written by   *)
(* an earlier requeue, whose notes pass for a crash replay.                *)
StartupRequeue ==
    LET R == {claim[i] : i \in {j \in Items : status[j] = "running"}}
    IN  /\ boot = "requeue" /\ boot' = "up"
        /\ RequeueStripped(R)
        /\ execStatus' = CancelIfRunning(R)
        /\ hostRow' = [e \in Execs |->
               IF e \in R /\ CleanupHolds(e) THEN "retry_recovered_on_startup"
                                             ELSE hostRow[e]]
        /\ UNCHANGED <<attempts, advance, valid, active, supersededBy, stale,
                       run, faults, pc, sweep, affected>>

StartupStep == \/ StartupCancelledRuns \/ StartupSettle \/ StartupComplete
               \/ StartupFail \/ StartupRequeue
SweepStep == SweepSelect \/ \E i \in Items : SweepComplete(i)
P080Step == P080Classify \/ P080Retire \/ \E i \in Items : P080Repair(i)
=============================================================================
