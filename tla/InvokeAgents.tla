---------------------------- MODULE InvokeAgents ----------------------------
(***************************************************************************)
(* Ownership of InvokeAgent work: the claim loop, the tasks, the sweeps,   *)
(* the reconcilers, cancellation and restarts composed over one store, and *)
(* the properties that keep an item's retries from running over each       *)
(* other.                                                                  *)
(***************************************************************************)
EXTENDS InvokeRecovery

vars == <<storeVars, pc, boot, sweep, affected>>

Init == StoreInit /\ WorkerInit /\ RecoveryInit

(* The loop sleeps when nothing is left to claim and no task is in flight. *)
Drained ==
    /\ boot = "up" /\ affected = {} /\ sweep = {}
    /\ \A i \in Items : status[i] # "pending"
    /\ \A e \in Execs : pc[e] = "idle"
    /\ UNCHANGED vars

Claiming == (\E i \in Items : ClaimStep(i)) /\ UNCHANGED <<sweep, affected>>
Task(e) == TaskStep(e) /\ UNCHANGED <<sweep, affected>>
TaskFaults == (\E e \in Execs : TaskFault(e)) /\ UNCHANGED <<sweep, affected>>

Next ==
    \/ Claiming
    \/ \E e \in Execs : Task(e)
    \/ TaskFaults
    \/ SweepStep \/ P080Step
    \/ HostPrepare \/ HostSettleAny
    \/ CancelRun \/ FinalizeCancel
    \/ Crash \/ StartupStep
    \/ Drained

Spec == Init /\ [][Next]_vars

(* The executor loop keeps claiming, a spawned task keeps running and a    *)
(* prompt returns within its timeout, the sweep, phase two of host         *)
(* recovery and startup recovery run to their end once begun.              *)
Fairness ==
    /\ WF_vars(Claiming)
    /\ \A e \in Execs : WF_vars(Task(e))
    /\ WF_vars(SweepStep) /\ WF_vars(HostSettleAny) /\ WF_vars(StartupStep)

FairSpec == Spec /\ Fairness

-----------------------------------------------------------------------------
(* Invariants                                                              *)

TypeOK == StoreTypeOK /\ WorkerTypeOK /\ RecoveryTypeOK

(* A source claim that can still activate outputs, and an execution that   *)
(* occupies a capacity slot, belong to the attempt the item names: retries *)
(* of one item never hold two active claims or two slots, and no slot is   *)
(* leaked to an attempt nobody tracks.                                     *)
AttemptIsCurrent ==
    \A e \in Execs :
        claimState[e] = "active" \/ execStatus[e] = "running"
            => claim[Item(e)] = e

(* A running item names an attempt that was really inserted, and a task    *)
(* only ever works for such an attempt.                                    *)
RunningIsClaimed ==
    /\ \A i \in Items : status[i] = "running" => claim[i] # NoExec
    /\ \A i \in Items : claim[i] # NoExec =>
           Item(claim[i]) = i /\ execStatus[claim[i]] # "none"

(* Capacity: never more running executions than the configured maximum,    *)
(* across resumes, requeues and restarts.                                  *)
WithinCapacity == Cardinality(RunningExecs) <= MaxActive

(* An item is completed only if one of its executions delivered valid      *)
(* outputs (validate_running_invoke_completion_has_valid_outputs_tx), also *)
(* when the sweep or startup completes it in the task's place.             *)
CompletedHasOutputs ==
    \A i \in Items : status[i] = "completed" =>
        \E e \in active : Item(e) = i

(* The lineage of retries is complete: a claim waits in                    *)
(* superseded_pending_retry only until its item is claimed again, and then *)
(* names the later execution of the same item that replaced it.            *)
RetryLineage ==
    \A e \in Execs :
        /\ claimState[e] = "superseded_pending_retry" => claim[Item(e)] = NoExec
        /\ claimState[e] = "superseded" =>
               /\ supersededBy[e] # NoExec
               /\ Item(supersededBy[e]) = Item(e)
               /\ supersededBy[e][2] > e[2]

(* A cancelled run that startup recovery passed over is closed: none of    *)
(* its items or executions is open again before the executor starts.       *)
CancelledRunIsClosed ==
    run = "cancelled" /\ boot \in {"settle", "complete", "fail", "requeue"} =>
        /\ \A i \in Items : status[i] \in Terminal
        /\ RunningExecs = {}

-----------------------------------------------------------------------------
(* Action properties                                                       *)

(* Settled items stay settled, whoever answers late. *)
TerminalIsFinal ==
    [][\A i \in Items : status[i] \in Terminal => status'[i] = status[i]]_vars

(* The task of e took a step (a crash ends tasks too). *)
TaskMoved(e) == pc[e] # "idle" /\ pc'[e] # pc[e] /\ boot' = "up"

(* "A stale worker cannot finalize a replacement or enqueue its failure    *)
(* advance": a task whose execution is not the one the item names leaves   *)
(* the item alone.                                                         *)
StaleTaskHarmless ==
    [][\A e \in Execs : TaskMoved(e) /\ claim[Item(e)] # e =>
           /\ status'[Item(e)] = status[Item(e)]
           /\ claim'[Item(e)] = claim[Item(e)]
           /\ (Item(e) \in advance') <=> (Item(e) \in advance)]_vars

(* Outputs become active contracts only while the item names their         *)
(* execution: what a replaced attempt still delivers is quarantined.       *)
ActivationIsCurrent ==
    [][\A e \in Execs : e \in active' \ active => claim[Item(e)] = e]_vars

(* "An affected attempt never regains result authority when cleanup        *)
(* settles": after phase one neither its outputs are activated nor is its  *)
(* item completed on its behalf.                                           *)
HostFenceHolds ==
    [][\A e \in Execs : HostOwns(e) =>
           /\ e \in active' => e \in active
           /\ TaskMoved(e) => status'[Item(e)] # "completed"
                               \/ status[Item(e)] = "completed"]_vars

(* The task of a host-owned attempt returned the error of its own prompt   *)
(* after the fence (executor.rs writes failed over whatever status host    *)
(* recovery left, a failed cleanup released the hold): it fails the item   *)
(* that still names it.                                                    *)
FailsByOwnError(e) ==
    /\ pc[e] = "failed" /\ execStatus[e] = "failed" /\ ~CleanupHolds(e)
    /\ claim[Item(e)] = e
    /\ status' = [status EXCEPT ![Item(e)] = "failed"]

(* ... or its prompt met provider capacity, whose requeue has no fence. *)
RequeuesForCapacity(e) ==
    /\ pc[e] = "capacity"
    /\ status' = [status EXCEPT ![Item(e)] = "pending"]
    /\ UNCHANGED advance

(* "cancellation keeps the old worker from bypassing the cleanup hold":    *)
(* the task of a host-owned attempt settles or requeues nothing, except    *)
(* that an error or a capacity answer of its own prompt bypasses the hold. *)
(* While the hold stands, and for every other way a task ends (a result, a *)
(* closed prompt, contention, a worker error), it does not.                *)
HostOwnedTaskIsInert ==
    [][\A e \in Execs : HostOwns(e) /\ TaskMoved(e) =>
           \/ UNCHANGED <<status, advance>>
           \/ FailsByOwnError(e)
           \/ RequeuesForCapacity(e)]_vars

(* A terminal execution never comes back to life. *)
ExecutionNotRevived ==
    [][\A e \in Execs : execStatus[e] \in Terminal =>
           execStatus'[e] # "running"]_vars

-----------------------------------------------------------------------------
(* Liveness                                                                *)

(* Every item is settled, however its attempts fail. *)
EveryItemSettles == \A i \in Items : <>(status[i] \in Terminal)
=============================================================================
