------------------------ MODULE InvokeAgents_proofs ------------------------
(***************************************************************************)
(* Machine-checked proofs about InvokeAgents for every number of items,    *)
(* claims, capacity slots and faults.                                      *)
(***************************************************************************)
EXTENDS InvokeAgents, TLAPS

(* Executions are pairs: each belongs to an item, and NoExec is none of    *)
(* them.                                                                   *)
LEMMA ExecFacts ==
    /\ \A e \in Execs : Item(e) \in Items
    /\ NoExec \notin Execs
BY ConstantsAssumption DEF Execs, Items, Item, NoExec

-----------------------------------------------------------------------------
(* Type correctness                                                        *)

USE DEF Terminal, ItemStates, ExecStates, ClaimStates, HostStates, PCs,
        BootPhases

(* The initial state is well typed. *)
LEMMA InitTypeOK == Init => TypeOK
BY DEF Init, StoreInit, WorkerInit, RecoveryInit, TypeOK, StoreTypeOK,
       WorkerTypeOK, RecoveryTypeOK

(* Claiming keeps the types. *)
LEMMA ClaimTypeOK == TypeOK /\ Claiming => TypeOK'
<1> SUFFICES ASSUME TypeOK, Claiming PROVE TypeOK'
    OBVIOUS
<1> USE DEF TypeOK, StoreTypeOK, WorkerTypeOK, RecoveryTypeOK
<1>1. PICK i \in Items : ClaimStep(i) /\ UNCHANGED <<sweep, affected>>
    BY DEF Claiming
<1>2. CASE ClaimFresh(i)
    BY <1>1, <1>2 DEF ClaimFresh, InsertClaim, FreshExec, Goto, repairVars
<1>3. CASE ClaimResume(i)
    BY <1>1, <1>3 DEF ClaimResume, Goto, execVars, claimVars, repairVars
<1> QED BY <1>1, <1>2, <1>3 DEF ClaimStep

(* Completing an item that is pending, or that names an execution, keeps   *)
(* the store's types.                                                      *)
LEMMA CompleteItemTypeOK ==
    ASSUME TypeOK, NEW i \in Items, CompleteItem(i),
           status[i] = "running" => claim[i] \in Execs,
           UNCHANGED <<hostRow, repairVars, faults>>
    PROVE  StoreTypeOK'
<1> USE DEF TypeOK, StoreTypeOK, CompleteItem, repairVars
<1>1. CASE status[i] = "running"
    BY <1>1 DEF CloseClaim
<1>2. CASE status[i] # "running"
    BY <1>2
<1> QED BY <1>1, <1>2

(* The steps of a task keep the types. *)
LEMMA TaskTypeOK == TypeOK /\ (\E e \in Execs : Task(e)) => TypeOK'
<1> SUFFICES ASSUME TypeOK, NEW e \in Execs, Task(e) PROVE TypeOK'
    OBVIOUS
<1> USE ExecFacts
    DEF TypeOK, StoreTypeOK, WorkerTypeOK, RecoveryTypeOK, Goto, NoWrite,
        storeVars, itemVars, execVars, claimVars, repairVars
<1>1. TaskStep(e) /\ UNCHANGED <<sweep, affected>>
    BY DEF Task
<1>2. CASE StartCheck(e) \/ ProviderResult(e) \/ CheckResultOwner(e)
           \/ ImportFenced(e) \/ FinishProcessing(e)
    BY <1>1, <1>2 DEF StartCheck, ProviderResult, CheckResultOwner,
                      ImportFenced, FinishProcessing
<1>3. CASE ProviderCapacityRequeue(e)
    BY <1>1, <1>3 DEF ProviderCapacityRequeue
<1>4. CASE ImportLate(e)
    BY <1>1, <1>4 DEF ImportLate
<1>5. CASE ImportAccepted(e)
    BY <1>1, <1>5 DEF ImportAccepted, CloseClaim
<1>6. CASE ImportMissing(e)
    BY <1>1, <1>6 DEF ImportMissing, CloseClaim
<1>7. CASE CompleteAttempt(e)
  <2>1. WorkerTypeOK' /\ RecoveryTypeOK'
      BY <1>1, <1>7 DEF CompleteAttempt
  <2>2. CASE MatchesAttempt(e) /\ ProvesOutputs(Item(e))
    <3>1. CompleteItem(Item(e)) /\ UNCHANGED <<hostRow, repairVars, faults>>
        BY <1>7, <2>2 DEF CompleteAttempt
    <3>2. claim[Item(e)] \in Execs
        BY <2>2 DEF ProvesOutputs
    <3> QED BY <2>1, <3>1, <3>2, CompleteItemTypeOK
  <2>3. CASE ~(MatchesAttempt(e) /\ ProvesOutputs(Item(e)))
      BY <1>7, <2>1, <2>3 DEF CompleteAttempt
  <2> QED BY <2>2, <2>3
<1>8. CASE RequeueAttempt(e)
    BY <1>1, <1>8 DEF RequeueAttempt
<1>9. CASE FailAttempt(e)
    BY <1>1, <1>9 DEF FailAttempt, FailItem
<1>10. CASE MarkExecutionFailed(e)
    BY <1>1, <1>10 DEF MarkExecutionFailed
<1> QED BY <1>1, <1>2, <1>3, <1>4, <1>5, <1>6, <1>7, <1>8, <1>9, <1>10
        DEF TaskStep

(* Faults that hit a task keep the types. *)
LEMMA TaskFaultTypeOK == TypeOK /\ TaskFaults => TypeOK'
<1> SUFFICES ASSUME TypeOK, TaskFaults PROVE TypeOK'
    OBVIOUS
<1> USE ExecFacts
    DEF TypeOK, StoreTypeOK, WorkerTypeOK, RecoveryTypeOK, Goto, Fault,
        itemVars, execVars, claimVars, repairVars
<1>1. PICK e \in Execs : TaskFault(e) /\ UNCHANGED <<sweep, affected>>
    BY DEF TaskFaults
<1>2. CASE ProviderError(e)
    BY <1>1, <1>2 DEF ProviderError
<1>3. CASE ProviderCapacity(e)
    BY <1>1, <1>3 DEF ProviderCapacity
<1>4. CASE ActivePromptClosed(e)
  <2>1. CASE PromptClosedStale(e)
      BY <1>1, <1>4, <2>1 DEF ActivePromptClosed, PromptClosedStale
  <2>2. CASE PromptClosedRequeue(e)
      BY <1>1, <1>4, <2>2 DEF ActivePromptClosed, PromptClosedRequeue,
                              RequeueStripped
  <2>3. CASE PromptClosedExhausted(e)
      BY <1>1, <1>4, <2>3 DEF ActivePromptClosed, PromptClosedExhausted
  <2> QED BY <1>4, <2>1, <2>2, <2>3 DEF ActivePromptClosed
<1>5. CASE TransientError(e) \/ WorkerError(e) \/ CompletionContended(e)
    BY <1>1, <1>5 DEF TransientError, WorkerError, CompletionContended
<1> QED BY <1>1, <1>2, <1>3, <1>4, <1>5 DEF TaskFault

(* The sweep and the P080 reconciler keep the types. *)
LEMMA ReconcileTypeOK == TypeOK /\ (SweepStep \/ P080Step) => TypeOK'
<1> SUFFICES ASSUME TypeOK, SweepStep \/ P080Step PROVE TypeOK'
    OBVIOUS
<1> USE ExecFacts DEF TypeOK, WorkerTypeOK, RecoveryTypeOK
<1>1. CASE SweepSelect
    BY <1>1 DEF SweepSelect, NoWrite, StoreTypeOK, storeVars, itemVars,
                execVars, claimVars, repairVars
<1>2. ASSUME NEW i \in Items, SweepComplete(i) PROVE TypeOK'
  <2>1. WorkerTypeOK' /\ RecoveryTypeOK'
      BY <1>2 DEF SweepComplete
  <2>2. CASE CompleteItem(i) /\ (status[i] = "running" => ProvesOutputs(i))
             /\ UNCHANGED <<hostRow, repairVars, faults>>
    <3>1. status[i] = "running" => claim[i] \in Execs
        BY <2>2 DEF ProvesOutputs, StoreTypeOK
    <3> QED BY <2>1, <2>2, <3>1, CompleteItemTypeOK
  <2>3. CASE NoWrite
      BY <2>1, <2>3 DEF NoWrite, StoreTypeOK, storeVars, itemVars, execVars,
                        claimVars, repairVars
  <2> QED BY <1>2, <2>2, <2>3 DEF SweepComplete
<1>3. CASE P080Classify \/ P080Retire
    BY <1>3 DEF P080Classify, P080Retire, StoreTypeOK, itemVars, execVars,
                claimVars, Fault
<1>4. ASSUME NEW i \in Items, P080Repair(i) PROVE TypeOK'
    BY <1>4 DEF P080Repair, RequeueStripped, CancelIfRunning, Fault, StoreTypeOK
<1> QED BY <1>1, <1>2, <1>3, <1>4 DEF SweepStep, P080Step

(* Host recovery and cancellation keep the types. *)
LEMMA HostTypeOK ==
    TypeOK /\ (HostPrepare \/ HostSettleAny \/ CancelRun \/ FinalizeCancel)
        => TypeOK'
<1> SUFFICES ASSUME TypeOK,
                    HostPrepare \/ HostSettleAny \/ CancelRun \/ FinalizeCancel
             PROVE  TypeOK'
    OBVIOUS
<1> USE DEF TypeOK, StoreTypeOK, WorkerTypeOK, RecoveryTypeOK, itemVars,
            execVars, claimVars, repairVars, Fault
<1>1. CASE HostPrepare
    BY <1>1 DEF HostPrepare, RunningExecs
<1>2. ASSUME NEW F, HostSettle(F) PROVE TypeOK'
    BY <1>2 DEF HostSettle, RequeueStripped
<1>3. CASE CancelRun
    BY <1>3 DEF CancelRun, CancelIfRunning
<1>4. CASE FinalizeCancel
    BY <1>4 DEF FinalizeCancel
<1> QED BY <1>1, <1>2, <1>3, <1>4 DEF HostSettleAny

(* A crash and the phases of startup recovery keep the types. *)
LEMMA StartupTypeOK == TypeOK /\ (Crash \/ StartupStep) => TypeOK'
<1> SUFFICES ASSUME TypeOK, Crash \/ StartupStep PROVE TypeOK'
    OBVIOUS
<1> USE ExecFacts
    DEF TypeOK, WorkerTypeOK, RecoveryTypeOK, storeVars, itemVars, execVars,
        claimVars, repairVars, Fault, NoWrite
<1>1. CASE Crash
    BY <1>1 DEF Crash, StoreTypeOK
<1>2. CASE StartupCancelledRuns
    BY <1>2 DEF StartupCancelledRuns, CancelIfRunning, StoreTypeOK
<1>3. CASE StartupSettle
    BY <1>3 DEF StartupSettle, StoreTypeOK
<1>4. CASE StartupComplete
  <2>1. WorkerTypeOK' /\ RecoveryTypeOK'
      BY <1>4 DEF StartupComplete
  <2>2. ASSUME NEW i \in Items, HasTerminalValidOutputs(i), CompleteItem(i),
               UNCHANGED <<hostRow, repairVars, faults>>
        PROVE  TypeOK'
    <3>1. claim[i] \in Execs
        BY <2>2 DEF HasTerminalValidOutputs, StoreTypeOK
    <3> QED BY <2>1, <2>2, <3>1, CompleteItemTypeOK
  <2>3. CASE NoWrite
      BY <2>1, <2>3 DEF StoreTypeOK
  <2> QED BY <1>4, <2>2, <2>3 DEF StartupComplete
<1>5. CASE StartupFail
    BY <1>5 DEF StartupFail, FailItem, StoreTypeOK
<1>6. CASE StartupRequeue
    BY <1>6 DEF StartupRequeue, RequeueStripped, CancelIfRunning, StoreTypeOK
<1> QED BY <1>1, <1>2, <1>3, <1>4, <1>5, <1>6 DEF StartupStep

(* TypeOK is inductive: every reachable state of the work store, the tasks *)
(* and the recovery services is well typed, in every instance.             *)
THEOREM TypeCorrect == Spec => []TypeOK
<1>1. Init => TypeOK
    BY InitTypeOK
<1>2. TypeOK /\ [Next]_vars => TypeOK'
  <2> SUFFICES ASSUME TypeOK, [Next]_vars PROVE TypeOK'
      OBVIOUS
  <2>1. CASE UNCHANGED vars
      BY <2>1 DEF vars, TypeOK, StoreTypeOK, WorkerTypeOK, RecoveryTypeOK,
                  storeVars, itemVars, execVars, claimVars, repairVars
  <2> QED BY <2>1, ClaimTypeOK, TaskTypeOK, TaskFaultTypeOK, ReconcileTypeOK,
             HostTypeOK, StartupTypeOK
          DEF Next, Drained
<1> QED BY <1>1, <1>2, PTL DEF Spec

-----------------------------------------------------------------------------
(* Which executions exist, and which of them an item names                 *)

(* What every step does to executions: one that was inserted stays         *)
(* inserted, and an execution becomes running only when it is inserted, by *)
(* a claim that found a free capacity slot.                                *)
ExecStep ==
    /\ \A e \in Execs : execStatus[e] # "none" => execStatus'[e] # "none"
    /\ \/ \A e \in Execs : execStatus'[e] = "running" => execStatus[e] = "running"
       \/ /\ HasStartCapacity
          /\ \E f \in Execs : /\ execStatus[f] = "none"
                              /\ \A e \in Execs \ {f} : execStatus'[e] = execStatus[e]

(* Every step is an ExecStep. *)
LEMMA NextExecStep == TypeOK /\ [Next]_vars => ExecStep
<1> SUFFICES ASSUME TypeOK, [Next]_vars PROVE ExecStep
    OBVIOUS
<1> USE ExecFacts DEF ExecStep, TypeOK, StoreTypeOK, execVars
<1>1. CASE Claiming
    BY <1>1 DEF Claiming, ClaimStep, ClaimFresh, ClaimResume, FreshExec
<1>2. ASSUME NEW e \in Execs, Task(e) PROVE ExecStep
    BY <1>2 DEF Task, TaskStep, StartCheck, ProviderResult, CheckResultOwner,
       ImportFenced, FinishProcessing, ProviderCapacityRequeue, ImportLate,
       ImportAccepted, ImportMissing, CompleteAttempt, CompleteItem,
       ProvesOutputs, RequeueAttempt, FailAttempt, MarkExecutionFailed,
       NoWrite, storeVars
<1>3. CASE TaskFaults
    BY <1>3 DEF TaskFaults, TaskFault, ProviderError, ProviderCapacity,
       ActivePromptClosed, PromptClosedStale, PromptClosedRequeue,
       PromptClosedExhausted, TransientError, WorkerError, CompletionContended
<1>4. CASE SweepStep
    BY <1>4 DEF SweepStep, SweepSelect, SweepComplete, CompleteItem,
       ProvesOutputs, NoWrite, storeVars
<1>5. CASE P080Step
  <2>1. ASSUME NEW i \in Items, P080Repair(i) PROVE ExecStep
      BY <2>1 DEF P080Repair, CancelIfRunning
  <2>2. CASE P080Classify \/ P080Retire
      BY <2>2 DEF P080Classify, P080Retire
  <2> QED BY <1>5, <2>1, <2>2 DEF P080Step
<1>6. CASE HostPrepare \/ CancelRun \/ FinalizeCancel
    BY <1>6 DEF HostPrepare, CancelRun, CancelIfRunning, FinalizeCancel
<1>7. ASSUME NEW F, HostSettle(F) PROVE ExecStep
    BY <1>7 DEF HostSettle
<1>8. CASE StartupComplete
    BY <1>8 DEF StartupComplete, HasTerminalValidOutputs, CompleteItem, NoWrite,
       storeVars
<1>9. CASE StartupSettle
    BY <1>9 DEF StartupSettle
<1>10. CASE Crash \/ StartupCancelledRuns \/ StartupFail \/ StartupRequeue
    BY <1>10 DEF Crash, StartupCancelledRuns, StartupFail, StartupRequeue,
       CancelIfRunning, NoWrite, storeVars
<1>11. CASE UNCHANGED vars
    BY <1>11 DEF vars, storeVars
<1> QED BY <1>1, <1>2, <1>3, <1>4, <1>5, <1>6, <1>7, <1>8, <1>9, <1>10, <1>11
        DEF Next, HostSettleAny, StartupStep, Drained

(* A terminal execution never runs again, whatever resumes, retries,       *)
(* late results, cancellations and restarts happen to its item.            *)
THEOREM NotRevived == Spec => ExecutionNotRevived
<1>1. TypeOK /\ [Next]_vars =>
          [\A e \in Execs : execStatus[e] \in Terminal =>
               execStatus'[e] # "running"]_vars
    BY NextExecStep DEF ExecStep
<1> QED BY <1>1, TypeCorrect, PTL DEF Spec, ExecutionNotRevived

(* The preclaim of an item changes in three ways only: not at all, to the  *)
(* execution inserted in the same step, or to none as the item is requeued.*)
OwnerStep ==
    \A i \in Items :
        \/ /\ claim'[i] = claim[i]
           /\ status'[i] = "running" => status[i] = "running" \/ claim[i] # NoExec
        \/ /\ claim'[i] \in Execs /\ Item(claim'[i]) = i
           /\ execStatus'[claim'[i]] # "none"
        \/ claim'[i] = NoExec /\ status'[i] # "running"

(* Every step is an OwnerStep. *)
LEMMA NextOwnerStep == TypeOK /\ [Next]_vars => OwnerStep
<1> SUFFICES ASSUME TypeOK, [Next]_vars PROVE OwnerStep
    OBVIOUS
<1> USE ExecFacts DEF OwnerStep, TypeOK, StoreTypeOK, itemVars
<1>1. ASSUME NEW i \in Items, ClaimFresh(i) PROVE OwnerStep
    BY <1>1 DEF ClaimFresh, FreshExec
<1>2. ASSUME NEW i \in Items, ClaimResume(i) PROVE OwnerStep
    BY <1>2 DEF ClaimResume
<1>3. ASSUME NEW e \in Execs, Task(e) PROVE OwnerStep
    BY <1>3 DEF Task, TaskStep, StartCheck, ProviderResult, CheckResultOwner,
       ImportFenced, FinishProcessing, ProviderCapacityRequeue, ImportLate,
       ImportAccepted, ImportMissing, CompleteAttempt, CompleteItem,
       RequeueAttempt, FailAttempt, FailItem, MarkExecutionFailed,
       NoWrite, storeVars
<1>4. CASE TaskFaults
    BY <1>4 DEF TaskFaults, TaskFault, ProviderError, ProviderCapacity,
       ActivePromptClosed, PromptClosedStale, PromptClosedRequeue,
       RequeueStripped, PromptClosedExhausted, TransientError, WorkerError,
       CompletionContended
<1>5. CASE SweepStep
    BY <1>5 DEF SweepStep, SweepSelect, SweepComplete, CompleteItem, NoWrite,
       storeVars
<1>6. CASE P080Step
  <2>1. ASSUME NEW i \in Items, P080Repair(i) PROVE OwnerStep
      BY <2>1 DEF P080Repair, RequeueStripped
  <2> QED BY <1>6, <2>1 DEF P080Step, P080Classify, P080Retire
<1>7. CASE HostPrepare \/ CancelRun \/ FinalizeCancel
    BY <1>7 DEF HostPrepare, CancelRun, FinalizeCancel
<1>8. ASSUME NEW F, HostSettle(F) PROVE OwnerStep
    BY <1>8 DEF HostSettle, RequeueStripped
<1>9. CASE StartupRequeue
    BY <1>9 DEF StartupRequeue, RequeueStripped
<1>10. CASE \/ Crash \/ StartupCancelledRuns \/ StartupSettle
            \/ StartupComplete \/ StartupFail
    BY <1>10 DEF Crash, StartupCancelledRuns, StartupSettle, StartupComplete,
       StartupFail, CompleteItem, FailItem, NoWrite, storeVars
<1>11. CASE UNCHANGED vars
    BY <1>11 DEF vars, storeVars
<1> QED BY <1>1, <1>2, <1>3, <1>4, <1>5, <1>6, <1>7, <1>8, <1>9, <1>10, <1>11
        DEF Next, Claiming, ClaimStep, HostSettleAny, StartupStep, Drained

(* A running item always names an execution of its own that was inserted. *)
THEOREM Claimed == Spec => []RunningIsClaimed
<1>1. Init => RunningIsClaimed
    BY DEF Init, StoreInit, RunningIsClaimed
<1>2. TypeOK /\ RunningIsClaimed /\ [Next]_vars => RunningIsClaimed'
  <2> SUFFICES ASSUME TypeOK, RunningIsClaimed, [Next]_vars
               PROVE  RunningIsClaimed'
      OBVIOUS
  <2>1. ExecStep /\ OwnerStep
      BY NextExecStep, NextOwnerStep
  <2> QED BY <2>1, ExecFacts
          DEF RunningIsClaimed, ExecStep, OwnerStep, TypeOK, StoreTypeOK
<1> QED BY <1>1, <1>2, TypeCorrect, PTL DEF Spec

-----------------------------------------------------------------------------
(* Settled items                                                           *)

(* A step leaves a settled item as it is. *)
SettledStep == \A i \in Items : status[i] \in Terminal => status'[i] = status[i]

(* Every step is a SettledStep: each writer of work_items.status checks    *)
(* that the row is still pending or running.                               *)
LEMMA NextSettledStep == TypeOK /\ [Next]_vars => SettledStep
<1> SUFFICES ASSUME TypeOK, [Next]_vars PROVE SettledStep
    OBVIOUS
<1> USE ExecFacts DEF SettledStep, TypeOK, StoreTypeOK, itemVars
<1>1. CASE Claiming
    BY <1>1 DEF Claiming, ClaimStep, ClaimFresh, ClaimResume
<1>2. ASSUME NEW e \in Execs, Task(e) PROVE SettledStep
  <2>1. CASE CompleteAttempt(e) \/ RequeueAttempt(e) \/ FailAttempt(e)
      BY <2>1 DEF CompleteAttempt, CompleteItem, RequeueAttempt, FailAttempt,
         FailItem, MatchesAttempt, OwnsItem, NoWrite, storeVars
  <2> QED BY <1>2, <2>1 DEF Task, TaskStep, StartCheck, ProviderResult,
          CheckResultOwner, ImportFenced, FinishProcessing,
          ProviderCapacityRequeue, ImportLate, ImportAccepted, ImportMissing,
          MarkExecutionFailed, NoWrite, storeVars
<1>3. CASE TaskFaults
    BY <1>3 DEF TaskFaults, TaskFault, ProviderError, ProviderCapacity,
       ActivePromptClosed, PromptClosedStale, PromptClosedRequeue,
       RequeueStripped, PromptClosedExhausted, TransientError, WorkerError,
       CompletionContended
<1>4. CASE SweepStep
    BY <1>4 DEF SweepStep, SweepSelect, SweepComplete, CompleteItem, NoWrite,
       storeVars
<1>5. CASE P080Step
  <2>1. ASSUME NEW i \in Items, P080Repair(i) PROVE SettledStep
      BY <2>1 DEF P080Repair, RequeueStripped
  <2> QED BY <1>5, <2>1 DEF P080Step, P080Classify, P080Retire
<1>6. CASE HostPrepare \/ CancelRun \/ FinalizeCancel
    BY <1>6 DEF HostPrepare, CancelRun, FinalizeCancel
<1>7. ASSUME NEW F, HostSettle(F) PROVE SettledStep
    BY <1>7 DEF HostSettle, RequeueStripped
<1>8. CASE StartupRequeue
    BY <1>8 DEF StartupRequeue, RequeueStripped
<1>9. CASE \/ Crash \/ StartupCancelledRuns \/ StartupSettle
           \/ StartupComplete \/ StartupFail
    BY <1>9 DEF Crash, StartupCancelledRuns, StartupSettle, StartupComplete,
       StartupFail, CompleteItem, FailItem, HasTerminalValidOutputs,
       HasTerminalFailedOutputs, NoWrite, storeVars
<1>10. CASE UNCHANGED vars
    BY <1>10 DEF vars, storeVars
<1> QED BY <1>1, <1>2, <1>3, <1>4, <1>5, <1>6, <1>7, <1>8, <1>9, <1>10
        DEF Next, HostSettleAny, StartupStep, Drained

(* A settled item stays as it was settled: no late result, sweep, retry or *)
(* restart completes, fails, cancels or requeues it again.                 *)
THEOREM TerminalFinal == Spec => TerminalIsFinal
<1>1. TypeOK /\ [Next]_vars =>
          [\A i \in Items : status[i] \in Terminal => status'[i] = status[i]]_vars
    BY NextSettledStep DEF SettledStep
<1> QED BY <1>1, TypeCorrect, PTL DEF Spec, TerminalIsFinal

-----------------------------------------------------------------------------
(* Restarts of a cancelled run                                             *)

(* The executor starts after recovery: until then no task runs. *)
BootIdle == boot # "up" => \A e \in Execs : pc[e] = "idle"

(* While the daemon starts, only startup recovery moves; between restarts  *)
(* nothing enters a phase of recovery.                                     *)
BootStep == \/ Crash
            \/ StartupStep
            \/ boot = "up" /\ boot' = "up"
            \/ UNCHANGED vars

(* Every step is a BootStep: what has no task or claim loop to run waits.  *)
LEMMA NextBootStep == TypeOK /\ BootIdle /\ [Next]_vars => BootStep
<1> SUFFICES ASSUME TypeOK, BootIdle, [Next]_vars PROVE BootStep
    OBVIOUS
<1> USE DEF BootStep, BootIdle
<1>1. CASE Claiming
    BY <1>1 DEF Claiming, ClaimStep, ClaimFresh, ClaimResume
<1>2. ASSUME NEW e \in Execs, Task(e) PROVE BootStep
    BY <1>2 DEF Task, TaskStep, StartCheck, ProviderResult, CheckResultOwner,
       ImportFenced, FinishProcessing, ProviderCapacityRequeue, ImportLate,
       ImportAccepted, ImportMissing, CompleteAttempt, RequeueAttempt,
       FailAttempt, MarkExecutionFailed
<1>3. CASE TaskFaults
    BY <1>3 DEF TaskFaults, TaskFault, ProviderError, ProviderCapacity,
       ActivePromptClosed, TransientError, WorkerError, CompletionContended
<1>4. CASE SweepStep \/ P080Step
    BY <1>4 DEF SweepStep, SweepSelect, SweepComplete, P080Step, P080Classify,
       P080Retire, P080Repair
<1>5. CASE HostPrepare \/ HostSettleAny \/ CancelRun \/ FinalizeCancel
    BY <1>5 DEF HostPrepare, HostSettleAny, HostSettle, CancelRun, FinalizeCancel
<1> QED BY <1>1, <1>2, <1>3, <1>4, <1>5 DEF Next, Drained

(* BootIdle is inductive: a crash ends every task. *)
LEMMA BootIdleStep == TypeOK /\ BootIdle /\ [Next]_vars => BootIdle'
<1> SUFFICES ASSUME TypeOK, BootIdle, [Next]_vars PROVE BootIdle'
    OBVIOUS
<1>1. CASE Crash
    BY <1>1 DEF Crash, BootIdle
<1>2. CASE StartupStep
  <2>1. boot # "up" /\ UNCHANGED pc
      BY <1>2 DEF StartupStep, StartupCancelledRuns, StartupSettle,
         StartupComplete, StartupFail, StartupRequeue
  <2> QED BY <2>1 DEF BootIdle
<1>3. CASE UNCHANGED vars
    BY <1>3 DEF vars, BootIdle
<1> QED BY <1>1, <1>2, <1>3, NextBootStep DEF BootStep, BootIdle

(* A step of startup recovery keeps a cancelled run closed, because it     *)
(* settles or requeues only items that are running.                        *)
LEMMA StartupKeepsClosed ==
    ASSUME TypeOK, CancelledRunIsClosed, StartupStep
    PROVE  CancelledRunIsClosed'
<1>1. CASE StartupCancelledRuns
    BY <1>1 DEF StartupCancelledRuns, CancelledRunIsClosed, CancelIfRunning,
       RunningExecs, Terminal, TypeOK, StoreTypeOK, repairVars
<1>2. CASE /\ boot \in {"settle", "complete", "fail", "requeue"}
           /\ UNCHANGED run
  <2>1. [Next]_vars
      BY DEF Next
  <2>2. SettledStep
      BY <2>1, NextSettledStep
  <2>3. \A e \in Execs : execStatus'[e] = "running" => execStatus[e] = "running"
    <3> USE DEF TypeOK, StoreTypeOK, Terminal
    <3>1. CASE StartupCancelledRuns \/ StartupRequeue
        BY <3>1 DEF StartupCancelledRuns, StartupRequeue, CancelIfRunning
    <3>2. CASE StartupSettle
        BY <3>2 DEF StartupSettle
    <3>3. CASE StartupComplete
        BY <3>3 DEF StartupComplete, CompleteItem, NoWrite, storeVars, execVars
    <3>4. CASE StartupFail
        BY <3>4 DEF StartupFail, NoWrite, storeVars, execVars
    <3> QED BY <3>1, <3>2, <3>3, <3>4 DEF StartupStep
  <2> QED BY <1>2, <2>2, <2>3
          DEF CancelledRunIsClosed, SettledStep, RunningExecs
<1> QED BY <1>1, <1>2 DEF StartupStep, StartupSettle, StartupComplete,
        StartupFail, StartupRequeue, NoWrite, storeVars, repairVars

(* Once startup recovery has passed over a cancelled run, none of its      *)
(* items and executions is open before the executor starts: neither the    *)
(* completion, failure and requeue passes that follow nor a further crash  *)
(* reopens one.                                                            *)
THEOREM CancelledClosed == Spec => []CancelledRunIsClosed
<1>1. Init => BootIdle /\ CancelledRunIsClosed
    BY DEF Init, WorkerInit, BootIdle, CancelledRunIsClosed
<1>2. TypeOK /\ BootIdle /\ CancelledRunIsClosed /\ [Next]_vars
          => (BootIdle /\ CancelledRunIsClosed)'
  <2> SUFFICES ASSUME TypeOK, BootIdle, CancelledRunIsClosed, [Next]_vars
               PROVE  BootIdle' /\ CancelledRunIsClosed'
      OBVIOUS
  <2>1. BootIdle'
      BY BootIdleStep
  <2>2. CASE Crash
      BY <2>1, <2>2 DEF Crash, CancelledRunIsClosed
  <2>3. CASE UNCHANGED vars
    <3>1. UNCHANGED <<status, execStatus, run, boot>>
        BY <2>3 DEF vars, storeVars, itemVars, execVars, repairVars
    <3> QED BY <2>1, <3>1 DEF CancelledRunIsClosed, RunningExecs
  <2>4. CASE boot' = "up"
      BY <2>1, <2>4 DEF CancelledRunIsClosed
  <2> QED BY <2>1, <2>2, <2>3, <2>4, NextBootStep, StartupKeepsClosed
          DEF BootStep
<1> QED BY <1>1, <1>2, TypeCorrect, PTL DEF Spec
=============================================================================
