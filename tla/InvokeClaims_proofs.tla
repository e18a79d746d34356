------------------------ MODULE InvokeClaims_proofs ------------------------
(***************************************************************************)
(* Capacity and source claims: proofs that executions stay within the      *)
(* configured capacity, that the claims of an item's retries form one      *)
(* lineage, that only the current attempt holds a claim or a slot, and     *)
(* that a task that lost its item leaves it alone.                         *)
(***************************************************************************)
EXTENDS InvokeAgents_proofs, FiniteSetTheorems

(* There are finitely many executions. *)
LEMMA ExecsFinite == IsFiniteSet(Execs)
<1>1. IsFiniteSet(Items) /\ IsFiniteSet(1..MaxClaims)
    BY ConstantsAssumption, FS_Interval DEF Items
<1> QED BY <1>1, FS_Product DEF Execs

(* Never more running executions than MaxActive: resumes, requeues, host   *)
(* recovery and restarts included.                                         *)
THEOREM CapacityHolds == Spec => []WithinCapacity
<1>1. Init => WithinCapacity
  <2> SUFFICES ASSUME Init PROVE WithinCapacity
      OBVIOUS
  <2>1. RunningExecs = {}
      BY DEF Init, StoreInit, RunningExecs
  <2> QED BY <2>1, FS_EmptySet, ConstantsAssumption DEF WithinCapacity
<1>2. TypeOK /\ WithinCapacity /\ [Next]_vars => WithinCapacity'
  <2> SUFFICES ASSUME TypeOK, WithinCapacity, [Next]_vars PROVE WithinCapacity'
      OBVIOUS
  <2>1. IsFiniteSet(RunningExecs) /\ Cardinality(RunningExecs) \in Nat
      BY ExecsFinite, FS_Subset, FS_CardinalityType DEF RunningExecs
  <2>2. CASE \A e \in Execs :
                 execStatus'[e] = "running" => execStatus[e] = "running"
    <3>1. RunningExecs' \subseteq RunningExecs
        BY <2>2 DEF RunningExecs
    <3>2. Cardinality(RunningExecs') <= Cardinality(RunningExecs)
          /\ Cardinality(RunningExecs') \in Nat
        BY <2>1, <3>1, FS_Subset, FS_CardinalityType
    <3> QED BY <2>1, <3>2, ConstantsAssumption DEF WithinCapacity
  <2>3. ASSUME HasStartCapacity, NEW f \in Execs, execStatus[f] = "none",
               \A e \in Execs \ {f} : execStatus'[e] = execStatus[e]
        PROVE  WithinCapacity'
    <3>1. RunningExecs' \subseteq RunningExecs \cup {f}
        BY <2>3 DEF RunningExecs
    <3>2. IsFiniteSet(RunningExecs \cup {f})
          /\ Cardinality(RunningExecs \cup {f}) = Cardinality(RunningExecs) + 1
        BY <2>1, <2>3, FS_AddElement DEF RunningExecs
    <3>3. Cardinality(RunningExecs') <= Cardinality(RunningExecs) + 1
          /\ Cardinality(RunningExecs') \in Nat
        BY <3>1, <3>2, FS_Subset, FS_CardinalityType
    <3> QED BY <2>1, <2>3, <3>3, ConstantsAssumption
            DEF WithinCapacity, HasStartCapacity
  <2> QED BY <2>2, <2>3, NextExecStep DEF ExecStep
<1> QED BY <1>1, <1>2, TypeCorrect, PTL DEF Spec

-----------------------------------------------------------------------------
(* The current attempt                                                     *)

(* Without Junie's capacity answers no task is ever about to requeue for   *)
(* one.                                                                    *)
NoCapacityTask == \A e \in Execs : pc[e] # "capacity"

CurrentInv == RunningIsClaimed /\ AttemptIsCurrent /\ NoCapacityTask

(* NoCapacityTask is preserved when provider_capacity is no fault of the   *)
(* instance.                                                               *)
LEMMA NoCapacityStep ==
    ASSUME "provider_capacity" \notin Faults, TypeOK, NoCapacityTask, [Next]_vars
    PROVE  NoCapacityTask'
<1> USE DEF NoCapacityTask, TypeOK, WorkerTypeOK, Goto
<1>1. CASE Claiming
    BY <1>1 DEF Claiming, ClaimStep, ClaimFresh, ClaimResume
<1>2. ASSUME NEW e \in Execs, Task(e) PROVE NoCapacityTask'
    BY <1>2 DEF Task, TaskStep, StartCheck, ProviderResult, CheckResultOwner,
       ImportFenced, FinishProcessing, ProviderCapacityRequeue, ImportLate,
       ImportAccepted, ImportMissing, CompleteAttempt, RequeueAttempt,
       FailAttempt, MarkExecutionFailed
<1>3. CASE TaskFaults
    BY <1>3 DEF TaskFaults, TaskFault, ProviderError, ProviderCapacity, Fault,
       ActivePromptClosed, PromptClosedStale, PromptClosedRequeue,
       PromptClosedExhausted, TransientError, WorkerError, CompletionContended
<1>4. CASE SweepStep \/ P080Step
    BY <1>4 DEF SweepStep, SweepSelect, SweepComplete, P080Step, P080Classify,
       P080Retire, P080Repair
<1>5. CASE HostPrepare \/ HostSettleAny \/ CancelRun \/ FinalizeCancel
    BY <1>5 DEF HostPrepare, HostSettleAny, HostSettle, CancelRun, FinalizeCancel
<1>6. CASE Crash \/ StartupStep
    BY <1>6 DEF Crash, StartupStep, StartupCancelledRuns, StartupSettle,
       StartupComplete, StartupFail, StartupRequeue
<1>7. CASE UNCHANGED vars
    BY <1>7 DEF vars
<1> QED BY <1>1, <1>2, <1>3, <1>4, <1>5, <1>6, <1>7 DEF Next, Drained

(* Claiming and the steps of a task preserve AttemptIsCurrent. *)
LEMMA TaskCurrent ==
    ASSUME TypeOK, CurrentInv, Claiming \/ \E e \in Execs : Task(e)
    PROVE  AttemptIsCurrent'
<1> USE ExecFacts
    DEF CurrentInv, AttemptIsCurrent, TypeOK, StoreTypeOK, itemVars, execVars,
        claimVars
<1>1. ASSUME NEW i \in Items, ClaimFresh(i) PROVE AttemptIsCurrent'
    BY <1>1 DEF ClaimFresh, FreshExec, InsertClaim
<1>2. ASSUME NEW i \in Items, ClaimResume(i) PROVE AttemptIsCurrent'
    BY <1>2 DEF ClaimResume
<1>3. ASSUME NEW e \in Execs, CompleteAttempt(e) PROVE AttemptIsCurrent'
    BY <1>3 DEF CompleteAttempt, CompleteItem, CloseClaim, ProvesOutputs,
       NoWrite, storeVars
<1>4. ASSUME NEW e \in Execs,
             ImportAccepted(e) \/ ImportMissing(e) \/ MarkExecutionFailed(e)
      PROVE  AttemptIsCurrent'
    BY <1>4 DEF ImportAccepted, ImportMissing, CloseClaim, MarkExecutionFailed
<1>5. CASE UNCHANGED <<claim, execStatus, claimState>>
    BY <1>5
<1> QED BY <1>1, <1>2, <1>3, <1>4, <1>5
        DEF Claiming, ClaimStep, Task, TaskStep, StartCheck, ProviderResult,
            CheckResultOwner, ImportFenced, FinishProcessing, ImportLate,
            RequeueAttempt, FailAttempt, FailItem, ProviderCapacityRequeue,
            NoCapacityTask, NoWrite, storeVars

(* Faults and reconcilers preserve AttemptIsCurrent: who takes an item     *)
(* from its attempt also ends the execution and supersedes its claim.      *)
LEMMA FaultCurrent ==
    ASSUME TypeOK, CurrentInv, TaskFaults \/ SweepStep \/ P080Step
    PROVE  AttemptIsCurrent'
<1> USE ExecFacts
    DEF CurrentInv, AttemptIsCurrent, RunningIsClaimed, TypeOK, StoreTypeOK,
        itemVars, execVars, claimVars
<1>1. ASSUME NEW e \in Execs, TaskFault(e) PROVE AttemptIsCurrent'
  <2>1. CASE ActivePromptClosed(e) /\ PromptClosedRequeue(e)
      BY <2>1 DEF PromptClosedRequeue, RequeueStripped, MatchesAttempt, OwnsItem
  <2> QED BY <1>1, <2>1 DEF TaskFault, ProviderError, ProviderCapacity,
          ActivePromptClosed, PromptClosedStale, PromptClosedExhausted,
          TransientError, WorkerError, CompletionContended
<1>2. CASE SweepSelect
    BY <1>2 DEF SweepSelect, NoWrite, storeVars
<1>3. ASSUME NEW i \in Items, SweepComplete(i) PROVE AttemptIsCurrent'
    BY <1>3 DEF SweepComplete, CompleteItem, CloseClaim, ProvesOutputs, NoWrite,
       storeVars
<1>4. CASE P080Classify \/ P080Retire
    BY <1>4 DEF P080Classify, P080Retire
<1>5. ASSUME NEW i \in Items, P080Repair(i) PROVE AttemptIsCurrent'
    BY <1>5 DEF P080Repair, RequeueStripped, CancelIfRunning
<1> QED BY <1>1, <1>2, <1>3, <1>4, <1>5 DEF TaskFaults, SweepStep, P080Step

(* Host recovery, cancellation and restarts preserve AttemptIsCurrent. *)
LEMMA RecoveryCurrent ==
    ASSUME TypeOK, CurrentInv,
           \/ HostPrepare \/ HostSettleAny \/ CancelRun \/ FinalizeCancel
           \/ Crash \/ StartupStep
    PROVE  AttemptIsCurrent'
<1> USE ExecFacts
    DEF CurrentInv, AttemptIsCurrent, RunningIsClaimed, TypeOK, StoreTypeOK,
        RecoveryTypeOK, itemVars, execVars, claimVars
<1>1. CASE HostPrepare \/ FinalizeCancel \/ Crash
    BY <1>1 DEF HostPrepare, FinalizeCancel, Crash
<1>2. ASSUME NEW F, HostSettle(F) PROVE AttemptIsCurrent'
    BY <1>2 DEF HostSettle, RequeueStripped, OwnsItem
<1>3. CASE CancelRun \/ StartupCancelledRuns
    BY <1>3 DEF CancelRun, StartupCancelledRuns, CancelIfRunning
<1>4. CASE StartupSettle
    BY <1>4 DEF StartupSettle
<1>5. CASE StartupComplete
    BY <1>5 DEF StartupComplete, CompleteItem, CloseClaim,
       HasTerminalValidOutputs, NoWrite, storeVars
<1>6. CASE StartupFail
    BY <1>6 DEF StartupFail, FailItem, NoWrite, storeVars
<1>7. CASE StartupRequeue
    BY <1>7 DEF StartupRequeue, RequeueStripped, CancelIfRunning
<1> QED BY <1>1, <1>2, <1>3, <1>4, <1>5, <1>6, <1>7
        DEF HostSettleAny, StartupStep

(* As long as no provider reports capacity, an active source claim or a    *)
(* running execution always belongs to the attempt its item names.         *)
THEOREM OnlyCurrentAttempt ==
    ASSUME "provider_capacity" \notin Faults
    PROVE  Spec => []AttemptIsCurrent
<1>1. Init => AttemptIsCurrent /\ NoCapacityTask
    BY DEF Init, StoreInit, WorkerInit, AttemptIsCurrent, NoCapacityTask
<1>2. TypeOK /\ CurrentInv /\ [Next]_vars => (AttemptIsCurrent /\ NoCapacityTask)'
  <2> SUFFICES ASSUME TypeOK, CurrentInv, [Next]_vars
               PROVE  AttemptIsCurrent' /\ NoCapacityTask'
      OBVIOUS
  <2>1. NoCapacityTask'
      BY NoCapacityStep DEF CurrentInv
  <2>2. CASE UNCHANGED vars
    <3>1. UNCHANGED <<claim, execStatus, claimState>>
        BY <2>2 DEF vars, storeVars, itemVars, execVars, claimVars
    <3> QED BY <2>1, <3>1 DEF CurrentInv, AttemptIsCurrent
  <2> QED BY <2>1, <2>2, TaskCurrent, FaultCurrent, RecoveryCurrent
          DEF Next, Drained
<1> QED BY <1>1, <1>2, TypeCorrect, Claimed, PTL DEF Spec, CurrentInv

(* Only a task whose source claim is still active adds to the active       *)
(* contracts, and only its own outputs.                                    *)
LEMMA ActivationStep ==
    ASSUME TypeOK, [Next]_vars, NEW e \in Execs, e \in active' \ active
    PROVE  claimState[e] = "active"
<1> USE DEF TypeOK, StoreTypeOK, itemVars, execVars, claimVars
<1>1. ASSUME NEW d \in Execs, Task(d) PROVE claimState[e] = "active"
    BY <1>1 DEF Task, TaskStep, StartCheck, ProviderResult, CheckResultOwner,
       ImportFenced, FinishProcessing, ProviderCapacityRequeue, ImportLate,
       ImportAccepted, ImportMissing, CompleteAttempt, CompleteItem,
       RequeueAttempt, FailAttempt, MarkExecutionFailed, NoWrite, storeVars
<1>2. Claiming \/ TaskFaults => UNCHANGED active
    BY DEF Claiming, ClaimStep, ClaimFresh, ClaimResume, TaskFaults, TaskFault,
       ProviderError, ProviderCapacity, ActivePromptClosed, PromptClosedStale,
       PromptClosedRequeue, PromptClosedExhausted, TransientError, WorkerError,
       CompletionContended
<1>3. SweepStep \/ P080Step => UNCHANGED active
    BY DEF SweepStep, SweepSelect, SweepComplete, CompleteItem, P080Step,
       P080Classify, P080Retire, P080Repair, NoWrite, storeVars
<1>4. \/ HostPrepare \/ HostSettleAny \/ CancelRun \/ FinalizeCancel \/ Crash
      => UNCHANGED active
    BY DEF HostPrepare, HostSettleAny, HostSettle, CancelRun, FinalizeCancel,
       Crash
<1>5. StartupStep => UNCHANGED active
    BY DEF StartupStep, StartupCancelledRuns, StartupSettle, StartupComplete,
       StartupFail, StartupRequeue, CompleteItem, NoWrite, storeVars
<1>6. UNCHANGED vars => UNCHANGED active
    BY DEF vars, storeVars
<1> QED BY <1>1, <1>2, <1>3, <1>4, <1>5, <1>6 DEF Next, Drained

(* As long as no provider reports capacity, outputs become active          *)
(* contracts only while the item names their execution: what a replaced    *)
(* attempt delivers late, after a requeue, host recovery, the reconciler   *)
(* or a restart, never does.                                               *)
THEOREM OnlyCurrentActivates ==
    ASSUME "provider_capacity" \notin Faults
    PROVE  Spec => ActivationIsCurrent
<1>1. TypeOK /\ AttemptIsCurrent /\ [Next]_vars =>
        [\A e \in Execs : e \in active' \ active => claim[Item(e)] = e]_vars
    BY ActivationStep DEF AttemptIsCurrent
<1> QED BY <1>1, OnlyCurrentAttempt, TypeCorrect, PTL
        DEF Spec, ActivationIsCurrent

-----------------------------------------------------------------------------
(* The lineage of retries                                                  *)

(* Executions of an item are inserted in order, their claims with them. *)
Numbered ==
    /\ \A e \in Execs : claimState[e] # "none" => execStatus[e] # "none"
    /\ \A d, e \in Execs :
           Item(d) = Item(e) /\ d[2] < e[2] /\ execStatus[e] # "none"
               => execStatus[d] # "none"

LineageInv == RunningIsClaimed /\ Numbered /\ RetryLineage

(* How a claim changes, unless its item is claimed afresh: a claim that    *)
(* starts to wait for a retry loses its item, and nothing else starts.     *)
ClaimStateStep ==
    /\ UNCHANGED supersededBy
    /\ \A e \in Execs :
        /\ claimState[e] = "none" => claimState'[e] = "none"
        /\ claimState'[e] = "superseded" => claimState[e] = "superseded"
        /\ claimState'[e] = "superseded_pending_retry" =>
               \/ claimState[e] = "superseded_pending_retry"
               \/ claim'[Item(e)] = NoExec
        /\ claim[Item(e)] = NoExec => claim'[Item(e)] = NoExec
        /\ execStatus[e] = "none" => execStatus'[e] = "none"

(* Tasks and host recovery work only for inserted executions. *)
TaskIsInserted == /\ \A e \in Execs : pc[e] # "idle" => execStatus[e] # "none"
                  /\ \A e \in affected : execStatus[e] # "none"

(* Every step but a fresh claim is a ClaimStateStep: the steps of a task, *)
LEMMA TaskClaimState ==
    ASSUME TypeOK, RunningIsClaimed, TaskIsInserted, NEW e \in Execs, Task(e)
    PROVE  ClaimStateStep
<1> USE ExecFacts
    DEF ClaimStateStep, RunningIsClaimed, TaskIsInserted, TypeOK, StoreTypeOK,
        WorkerTypeOK, itemVars, execVars, claimVars
<1>1. CASE CompleteAttempt(e)
    BY <1>1 DEF CompleteAttempt, CompleteItem, CloseClaim, ProvesOutputs,
       NoWrite, storeVars
<1>2. CASE ImportAccepted(e) \/ ImportMissing(e) \/ MarkExecutionFailed(e)
    BY <1>2 DEF ImportAccepted, ImportMissing, CloseClaim, MarkExecutionFailed
<1>3. CASE ProviderCapacityRequeue(e)
    BY <1>3 DEF ProviderCapacityRequeue
<1>4. CASE UNCHANGED <<claim, execStatus, claimState, supersededBy>>
    BY <1>4
<1> QED BY <1>1, <1>2, <1>3, <1>4
        DEF Task, TaskStep, StartCheck, ProviderResult, CheckResultOwner,
            ImportFenced, FinishProcessing, ImportLate, RequeueAttempt,
            FailAttempt, FailItem, NoWrite, storeVars

(* ... the faults that hit it, the sweep, the reconcilers and resumption, *)
LEMMA FaultClaimState ==
    ASSUME TypeOK, RunningIsClaimed, TaskIsInserted,
           TaskFaults \/ SweepStep \/ P080Step \/ \E i \in Items : ClaimResume(i)
    PROVE  ClaimStateStep
<1> USE ExecFacts
    DEF ClaimStateStep, RunningIsClaimed, TaskIsInserted, TypeOK, StoreTypeOK,
        WorkerTypeOK, itemVars, execVars, claimVars
<1>1. ASSUME NEW e \in Execs, TaskFault(e) PROVE ClaimStateStep
  <2>1. CASE ActivePromptClosed(e) /\ PromptClosedRequeue(e)
      BY <2>1 DEF ActivePromptClosed, PromptClosedRequeue, RequeueStripped,
         MatchesAttempt, OwnsItem
  <2> QED BY <1>1, <2>1 DEF TaskFault, ProviderError, ProviderCapacity,
          ActivePromptClosed, PromptClosedStale, PromptClosedExhausted,
          TransientError, WorkerError, CompletionContended
<1>2. CASE SweepSelect
    BY <1>2 DEF SweepSelect, NoWrite, storeVars
<1>3. ASSUME NEW i \in Items, SweepComplete(i) PROVE ClaimStateStep
    BY <1>3 DEF SweepComplete, CompleteItem, CloseClaim, ProvesOutputs, NoWrite,
       storeVars
<1>4. CASE P080Classify \/ P080Retire
    BY <1>4 DEF P080Classify, P080Retire
<1>5. ASSUME NEW i \in Items, P080Repair(i) PROVE ClaimStateStep
    BY <1>5 DEF P080Repair, RequeueStripped, CancelIfRunning
<1>6. ASSUME NEW i \in Items, ClaimResume(i) PROVE ClaimStateStep
    BY <1>6 DEF ClaimResume
<1> QED BY <1>1, <1>2, <1>3, <1>4, <1>5, <1>6 DEF TaskFaults, SweepStep, P080Step

(* ... host recovery, cancellation and restarts. *)
LEMMA RecoveryClaimState ==
    ASSUME TypeOK, RunningIsClaimed, TaskIsInserted,
           \/ HostPrepare \/ HostSettleAny \/ CancelRun \/ FinalizeCancel
           \/ Crash \/ StartupStep
    PROVE  ClaimStateStep
<1> USE ExecFacts
    DEF ClaimStateStep, RunningIsClaimed, TaskIsInserted, TypeOK, StoreTypeOK,
        RecoveryTypeOK, itemVars, execVars, claimVars
<1>1. CASE HostPrepare \/ FinalizeCancel \/ Crash
    BY <1>1 DEF HostPrepare, FinalizeCancel, Crash
<1>2. ASSUME NEW F, HostSettle(F) PROVE ClaimStateStep
    BY <1>2 DEF HostSettle, RequeueStripped, OwnsItem
<1>3. CASE CancelRun \/ StartupCancelledRuns
    BY <1>3 DEF CancelRun, StartupCancelledRuns, CancelIfRunning
<1>4. CASE StartupSettle
    BY <1>4 DEF StartupSettle
<1>5. CASE StartupComplete
    BY <1>5 DEF StartupComplete, CompleteItem, CloseClaim,
       HasTerminalValidOutputs, NoWrite, storeVars
<1>6. CASE StartupFail
    BY <1>6 DEF StartupFail, FailItem, NoWrite, storeVars
<1>7. CASE StartupRequeue
    BY <1>7 DEF StartupRequeue, RequeueStripped, CancelIfRunning
<1> QED BY <1>1, <1>2, <1>3, <1>4, <1>5, <1>6, <1>7
        DEF HostSettleAny, StartupStep

(* Tasks are spawned, and executions fenced, only after the insert. *)
LEMMA InsertedStep ==
    ASSUME TypeOK, RunningIsClaimed, TaskIsInserted, [Next]_vars
    PROVE  TaskIsInserted'
<1>1. \A e \in Execs : execStatus[e] # "none" => execStatus'[e] # "none"
    BY NextExecStep DEF ExecStep
<1> USE ExecFacts
    DEF TaskIsInserted, RunningIsClaimed, TypeOK, StoreTypeOK, WorkerTypeOK,
        RecoveryTypeOK, Goto
<1>2. ASSUME NEW i \in Items, ClaimFresh(i), UNCHANGED affected
      PROVE  TaskIsInserted'
    BY <1>1, <1>2 DEF ClaimFresh, FreshExec
<1>3. ASSUME NEW i \in Items, ClaimResume(i), UNCHANGED affected
      PROVE  TaskIsInserted'
    BY <1>1, <1>3 DEF ClaimResume
<1>4. ASSUME NEW e \in Execs, Task(e) PROVE TaskIsInserted'
    BY <1>1, <1>4 DEF Task, TaskStep, StartCheck, ProviderResult,
       CheckResultOwner, ImportFenced, FinishProcessing, ProviderCapacityRequeue,
       ImportLate, ImportAccepted, ImportMissing, CompleteAttempt,
       RequeueAttempt, FailAttempt, MarkExecutionFailed
<1>5. CASE TaskFaults
    BY <1>1, <1>5 DEF TaskFaults, TaskFault, ProviderError, ProviderCapacity,
       ActivePromptClosed, PromptClosedStale, PromptClosedRequeue,
       PromptClosedExhausted, TransientError, WorkerError, CompletionContended
<1>6. CASE HostPrepare
    BY <1>1, <1>6 DEF HostPrepare, RunningExecs
<1>7. CASE pc' \in {pc, [e \in Execs |-> "idle"]} /\ affected' \in {affected, {}}
    BY <1>1, <1>7
<1> QED BY <1>2, <1>3, <1>4, <1>5, <1>6, <1>7
        DEF Next, Claiming, ClaimStep, SweepStep, SweepSelect, SweepComplete,
            P080Step, P080Classify, P080Retire, P080Repair, HostSettleAny,
            HostSettle, CancelRun, FinalizeCancel, Crash, StartupStep,
            StartupCancelledRuns, StartupSettle, StartupComplete, StartupFail,
            StartupRequeue, Drained, vars

(* Hence TaskIsInserted holds throughout. *)
LEMMA Inserted == Spec => []TaskIsInserted
<1>1. Init => TaskIsInserted
    BY DEF Init, WorkerInit, RecoveryInit, TaskIsInserted
<1>2. TypeOK /\ RunningIsClaimed /\ TaskIsInserted /\ [Next]_vars => TaskIsInserted'
    BY InsertedStep
<1> QED BY <1>1, <1>2, TypeCorrect, Claimed, PTL DEF Spec

(* The executions of one item are totally ordered. *)
LEMMA ExecOrder ==
    \A d, e \in Execs : Item(d) = Item(e) /\ d # e => d[2] < e[2] \/ e[2] < d[2]
<1> SUFFICES ASSUME NEW d \in Execs, NEW e \in Execs, Item(d) = Item(e), d # e
             PROVE  d[2] < e[2] \/ e[2] < d[2]
    OBVIOUS
<1>1. d = <<d[1], d[2]>> /\ e = <<e[1], e[2]>>
    BY DEF Execs
<1>2. d[2] \in Int /\ e[2] \in Int
    BY ConstantsAssumption DEF Execs
<1> QED BY <1>1, <1>2 DEF Item

(* A fresh claim finalizes the claims that waited for it under the newest  *)
(* execution of the item.                                                  *)
LEMMA FreshClaimLineage ==
    ASSUME TypeOK, LineageInv, NEW i \in Items, ClaimFresh(i)
    PROVE  (Numbered /\ RetryLineage)'
<1> USE ExecFacts DEF LineageInv, Numbered, TypeOK, StoreTypeOK
<1>1. PICK e \in Execs :
        /\ Item(e) = i /\ execStatus[e] = "none"
        /\ \A d \in Execs : Item(d) = i /\ d[2] < e[2] => execStatus[d] # "none"
        /\ claim' = [claim EXCEPT ![i] = e]
        /\ execStatus' = [execStatus EXCEPT ![e] = "running"]
        /\ InsertClaim(e)
    BY DEF ClaimFresh, FreshExec
<1>2. Numbered'
  <2>1. \A d \in Execs : claimState'[d] # "none" => execStatus'[d] # "none"
      BY <1>1 DEF InsertClaim
  <2> QED BY <1>1, <2>1
<1>3. \A d \in Execs : Item(d) = i /\ execStatus[d] # "none" => d[2] < e[2]
    BY <1>1, ExecOrder
<1>4. RetryLineage'
  <2> SUFFICES ASSUME NEW d \in Execs
               PROVE  /\ claimState'[d] = "superseded_pending_retry" =>
                             claim'[Item(d)] = NoExec
                      /\ claimState'[d] = "superseded" =>
                             /\ supersededBy'[d] # NoExec
                             /\ Item(supersededBy'[d]) = Item(d)
                             /\ supersededBy'[d][2] > d[2]
      BY DEF RetryLineage
  <2>1. CASE Item(d) = i /\ claimState[d] = "superseded_pending_retry"
    <3>1. claimState'[d] = "superseded" /\ supersededBy'[d] = e
        BY <1>1, <2>1 DEF InsertClaim
    <3>2. e[2] > d[2]
        BY <1>3, <2>1, ConstantsAssumption DEF Execs
    <3> QED BY <1>1, <2>1, <3>1, <3>2
  <2>2. CASE ~(Item(d) = i /\ claimState[d] = "superseded_pending_retry")
      BY <1>1, <2>2 DEF InsertClaim, RetryLineage
  <2> QED BY <2>1, <2>2
<1> QED BY <1>2, <1>4

(* Any other step keeps the lineage. *)
LEMMA OtherStepLineage ==
    ASSUME TypeOK, LineageInv, ClaimStateStep, ExecStep, TypeOK'
    PROVE  (Numbered /\ RetryLineage)'
<1> USE ExecFacts DEF ClaimStateStep, LineageInv, TypeOK, StoreTypeOK
<1>1. Numbered'
    BY DEF Numbered, ExecStep
<1>2. RetryLineage'
    BY DEF RetryLineage
<1> QED BY <1>1, <1>2

(* The claims of an item's retries form one lineage: a claim waits for a   *)
(* retry only while the item is unclaimed, and is then superseded by a     *)
(* later execution of the same item.                                       *)
THEOREM LineageHolds == Spec => []RetryLineage
<1>1. Init => Numbered /\ RetryLineage
    BY DEF Init, StoreInit, Numbered, RetryLineage
<1>2. /\ TypeOK /\ RunningIsClaimed /\ TaskIsInserted /\ Numbered /\ RetryLineage
      /\ TypeOK' /\ [Next]_vars
      => (Numbered /\ RetryLineage)'
  <2> SUFFICES ASSUME TypeOK, LineageInv, TaskIsInserted, TypeOK', [Next]_vars
               PROVE  (Numbered /\ RetryLineage)'
      BY DEF LineageInv
  <2>1. CASE \E i \in Items : ClaimFresh(i)
      BY <2>1, FreshClaimLineage
  <2>2. CASE ClaimStateStep
      BY <2>2, OtherStepLineage, NextExecStep
  <2>3. CASE UNCHANGED vars
    <3>1. UNCHANGED <<claim, execStatus, claimState, supersededBy>>
        BY <2>3 DEF vars, storeVars, itemVars, execVars, claimVars
    <3> QED BY <3>1 DEF LineageInv, Numbered, RetryLineage
  <2> QED BY <2>1, <2>2, <2>3, TaskClaimState, FaultClaimState,
             RecoveryClaimState
          DEF LineageInv, Next, Claiming, ClaimStep, Drained
<1> QED BY <1>1, <1>2, TypeCorrect, Claimed, Inserted, PTL DEF Spec

-----------------------------------------------------------------------------
(* Stale tasks: where neither Junie's capacity requeue nor the P080        *)
(* reconciler is at work, a task that lost its item leaves it alone.  Both *)
(* exceptions are needed: TLC finds the property violated when either path *)
(* may interfere (README, observations).                                   *)

(* Until its import has run, a task that host recovery did not fence works *)
(* for the execution its item names.  Startup recovery finds no task.      *)
StaleInv ==
    /\ \A e \in Execs :
           pc[e] \in {"start", "prompt", "result", "import"} /\ ~HostOwns(e)
               => claim[Item(e)] = e
    /\ \A e \in affected : HostOwns(e)
    /\ boot # "up" => \A e \in Execs : pc[e] = "idle"
    /\ NoCapacityTask

(* Claims and the steps of tasks preserve StaleInv. *)
LEMMA TaskStale ==
    ASSUME "provider_capacity" \notin Faults, TypeOK, RunningIsClaimed, StaleInv,
           NoCapacityTask', Claiming \/ TaskFaults \/ \E e \in Execs : Task(e)
    PROVE  StaleInv'
<1> USE ExecFacts
    DEF StaleInv, HostOwns, RunningIsClaimed, TypeOK, StoreTypeOK, WorkerTypeOK,
        RecoveryTypeOK, itemVars, Goto
<1>1. ASSUME NEW i \in Items, ClaimFresh(i), UNCHANGED affected PROVE StaleInv'
    BY <1>1 DEF ClaimFresh, FreshExec
<1>2. ASSUME NEW i \in Items, ClaimResume(i), UNCHANGED affected PROVE StaleInv'
    BY <1>2 DEF ClaimResume
<1>3. ASSUME NEW e \in Execs, TaskStep(e), UNCHANGED affected PROVE StaleInv'
  <2>1. UNCHANGED <<claim, hostRow, boot>>
      BY <1>3 DEF TaskStep, StartCheck, ProviderResult, CheckResultOwner,
         ImportFenced, FinishProcessing, ProviderCapacityRequeue, ImportLate,
         ImportAccepted, ImportMissing, CompleteAttempt, CompleteItem,
         RequeueAttempt, FailAttempt, FailItem, MarkExecutionFailed,
         NoCapacityTask, NoWrite, storeVars
  <2>2. /\ pc[e] # "idle"
        /\ \A d \in Execs \ {e} : pc'[d] = pc[d]
        /\ pc'[e] \in {"start", "prompt", "result", "import"} =>
               pc[e] \in {"start", "prompt", "result", "import"}
      BY <1>3 DEF TaskStep, StartCheck, ProviderResult, CheckResultOwner,
         ImportFenced, FinishProcessing, ProviderCapacityRequeue, ImportLate,
         ImportAccepted, ImportMissing, CompleteAttempt, RequeueAttempt,
         FailAttempt, MarkExecutionFailed
  <2> QED BY <1>3, <2>1, <2>2
<1>4. ASSUME NEW e \in Execs, TaskFault(e), UNCHANGED affected PROVE StaleInv'
  <2>1. UNCHANGED <<hostRow, boot>> /\ pc[e] # "idle"
        /\ \A i \in Items \ {Item(e)} : claim'[i] = claim[i]
      BY <1>4 DEF TaskFault, ProviderError, ProviderCapacity, ActivePromptClosed,
         PromptClosedStale, PromptClosedRequeue, PromptClosedExhausted,
         RequeueStripped, TransientError, WorkerError, CompletionContended
  <2>2. /\ \A d \in Execs \ {e} : pc'[d] = pc[d]
        /\ pc'[e] \notin {"start", "prompt", "result", "import"}
      BY <1>4 DEF TaskFault, ProviderError, ProviderCapacity, ActivePromptClosed,
         PromptClosedStale, PromptClosedRequeue, PromptClosedExhausted,
         TransientError, WorkerError, CompletionContended
  <2>3. \/ UNCHANGED claim
        \/ claim[Item(e)] = e
      BY <1>4 DEF TaskFault, ProviderError, ProviderCapacity, ActivePromptClosed,
         PromptClosedStale, PromptClosedRequeue, PromptClosedExhausted,
         MatchesAttempt, OwnsItem, TransientError, WorkerError,
         CompletionContended
  <2> QED BY <1>4, <2>1, <2>2, <2>3
<1> QED BY <1>1, <1>2, <1>3, <1>4 DEF Claiming, ClaimStep, TaskFaults, Task

(* Sweeps, recovery and restarts preserve StaleInv: host recovery takes an *)
(* item only from an execution it fenced, startup only when no task runs.  *)
LEMMA RecoveryStale ==
    ASSUME "p080" \notin Faults, TypeOK, RunningIsClaimed, StaleInv,
           NoCapacityTask',
           \/ SweepStep \/ P080Step
           \/ HostPrepare \/ HostSettleAny \/ CancelRun \/ FinalizeCancel
           \/ Crash \/ StartupStep
    PROVE  StaleInv'
<1> USE ExecFacts
    DEF StaleInv, HostOwns, RunningIsClaimed, TypeOK, StoreTypeOK, WorkerTypeOK,
        RecoveryTypeOK, itemVars
<1>1. CASE SweepStep
    BY <1>1 DEF SweepStep, SweepSelect, SweepComplete, CompleteItem, NoWrite,
       storeVars
<1>2. CASE P080Step
    BY <1>2 DEF P080Step, P080Classify, P080Retire, P080Repair, Fault
<1>3. CASE HostPrepare
    BY <1>3 DEF HostPrepare, RunningExecs
<1>4. ASSUME NEW F, HostSettle(F) PROVE StaleInv'
  <2>1. \A e \in Execs : HostOwns(e) <=> HostOwns(e)'
      BY <1>4 DEF HostSettle
  <2>2. \A i \in Items : claim'[i] # claim[i] => claim[i] \in affected
      BY <1>4 DEF HostSettle, RequeueStripped
  <2> QED BY <1>4, <2>1, <2>2 DEF HostSettle
<1>5. CASE CancelRun \/ FinalizeCancel
    BY <1>5 DEF CancelRun, FinalizeCancel
<1>6. CASE Crash \/ StartupStep
  <2>1. \A e \in Execs : pc'[e] = "idle"
      BY <1>6 DEF Crash, StartupStep, StartupCancelledRuns, StartupSettle,
         StartupComplete, StartupFail, StartupRequeue
  <2>2. affected' \subseteq affected
      BY <1>6 DEF Crash, StartupStep, StartupCancelledRuns, StartupSettle,
         StartupComplete, StartupFail, StartupRequeue
  <2>3. CASE StartupRequeue
      BY <2>1, <2>2, <2>3 DEF StartupRequeue, CleanupHolds
  <2>4. CASE UNCHANGED hostRow
      BY <2>1, <2>2, <2>4
  <2> QED BY <1>6, <2>3, <2>4 DEF Crash, StartupStep, StartupCancelledRuns,
          StartupSettle, StartupComplete, StartupFail, NoWrite, storeVars
<1> QED BY <1>1, <1>2, <1>3, <1>4, <1>5, <1>6 DEF HostSettleAny

(* A step of a task whose item names another execution does not touch the  *)
(* item.                                                                   *)
LEMMA StaleTaskStep ==
    ASSUME "provider_capacity" \notin Faults, TypeOK, RunningIsClaimed,
           TaskIsInserted, StaleInv, [Next]_vars,
           NEW e \in Execs, TaskMoved(e), claim[Item(e)] # e
    PROVE  /\ status'[Item(e)] = status[Item(e)]
           /\ claim'[Item(e)] = claim[Item(e)]
           /\ advance' = advance
<1> USE ExecFacts
    DEF TaskMoved, StaleInv, TypeOK, StoreTypeOK, WorkerTypeOK, itemVars, Goto
<1>1. ~Claiming
    BY DEF Claiming, ClaimStep, ClaimFresh, ClaimResume, FreshExec,
       TaskIsInserted, RunningIsClaimed
<1>2. ASSUME NEW d \in Execs, TaskStep(d)
      PROVE  /\ status'[Item(e)] = status[Item(e)]
             /\ claim'[Item(e)] = claim[Item(e)]
             /\ advance' = advance
  <2>1. d = e
      BY <1>2 DEF TaskStep, StartCheck, ProviderResult, CheckResultOwner,
         ImportFenced, FinishProcessing, ProviderCapacityRequeue, ImportLate,
         ImportAccepted, ImportMissing, CompleteAttempt, RequeueAttempt,
         FailAttempt, MarkExecutionFailed
  <2> QED BY <1>2, <2>1 DEF TaskStep, StartCheck, ProviderResult,
          CheckResultOwner, ImportFenced, FinishProcessing,
          ProviderCapacityRequeue, NoCapacityTask, ImportLate, ImportAccepted,
          ImportMissing, CompleteAttempt, RequeueAttempt, FailAttempt,
          MarkExecutionFailed, MatchesAttempt, OwnsItem, NoWrite, storeVars
<1>3. ASSUME NEW d \in Execs, TaskFault(d)
      PROVE  /\ status'[Item(e)] = status[Item(e)]
             /\ claim'[Item(e)] = claim[Item(e)]
             /\ advance' = advance
  <2>1. d = e
      BY <1>3 DEF TaskFault, ProviderError, ProviderCapacity, ActivePromptClosed,
         PromptClosedStale, PromptClosedRequeue, PromptClosedExhausted,
         TransientError, WorkerError, CompletionContended
  <2> QED BY <1>3, <2>1 DEF TaskFault, ProviderError, ProviderCapacity,
          ActivePromptClosed, PromptClosedStale, PromptClosedRequeue,
          PromptClosedExhausted, MatchesAttempt, OwnsItem, TransientError,
          WorkerError, CompletionContended
<1>4. \/ Claiming \/ (\E d \in Execs : TaskStep(d) \/ TaskFault(d))
      \/ pc' = pc \/ boot' # "up"
    BY DEF Next, Task, TaskFaults, SweepStep, SweepSelect, SweepComplete,
       P080Step, P080Classify, P080Retire, P080Repair, HostPrepare,
       HostSettleAny, HostSettle, CancelRun, FinalizeCancel, Crash, StartupStep,
       StartupCancelledRuns, StartupSettle, StartupComplete, StartupFail,
       StartupRequeue, Drained, vars
<1> QED BY <1>1, <1>2, <1>3, <1>4

(* Where no provider reports capacity and P080 does not reconcile, a stale *)
(* worker can neither finalize, fail nor requeue its replacement, nor      *)
(* schedule its advance.                                                   *)
THEOREM StaleHarmless ==
    ASSUME "provider_capacity" \notin Faults, "p080" \notin Faults
    PROVE  Spec => StaleTaskHarmless
<1>1. Init => StaleInv
    BY DEF Init, StoreInit, WorkerInit, RecoveryInit, StaleInv, NoCapacityTask
<1>2. TypeOK /\ RunningIsClaimed /\ StaleInv /\ [Next]_vars => StaleInv'
  <2> SUFFICES ASSUME TypeOK, RunningIsClaimed, StaleInv, [Next]_vars
               PROVE  StaleInv'
      OBVIOUS
  <2>1. NoCapacityTask'
      BY NoCapacityStep DEF StaleInv
  <2>2. CASE UNCHANGED vars
    <3>1. UNCHANGED <<claim, hostRow, pc, boot, affected>>
        BY <2>2 DEF vars, storeVars, itemVars
    <3> QED BY <2>1, <3>1 DEF StaleInv, HostOwns
  <2> QED BY <2>1, <2>2, TaskStale, RecoveryStale DEF Next, Drained
<1>3. TypeOK /\ RunningIsClaimed /\ TaskIsInserted /\ StaleInv /\ [Next]_vars =>
        [\A e \in Execs : TaskMoved(e) /\ claim[Item(e)] # e =>
           /\ status'[Item(e)] = status[Item(e)]
           /\ claim'[Item(e)] = claim[Item(e)]
           /\ (Item(e) \in advance') <=> (Item(e) \in advance)]_vars
    BY StaleTaskStep
<1> QED BY <1>1, <1>2, <1>3, TypeCorrect, Claimed, Inserted, PTL
        DEF Spec, StaleTaskHarmless
=============================================================================
