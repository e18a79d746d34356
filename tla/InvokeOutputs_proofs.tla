------------------------ MODULE InvokeOutputs_proofs ------------------------
(***************************************************************************)
(* Which outputs count: proofs that an item completes only with activated  *)
(* outputs, that host recovery's fence holds and that the task of an       *)
(* attempt it took over settles nothing.                                   *)
(***************************************************************************)
EXTENDS InvokeClaims_proofs

Delivered(i) == \E e \in active : Item(e) = i

(* Runtime facts that prove outputs belong to a settled execution whose    *)
(* outputs were activated and that host recovery never fenced; what a      *)
(* sweep has selected has delivered.                                       *)
OutputsInv ==
    /\ \A e \in Execs : valid[e] => /\ e \in active
                                    /\ execStatus[e] \in {"completed", "failed"}
                                    /\ ~HostOwns(e)
    /\ \A e \in affected : HostOwns(e)
    /\ \A i \in sweep : Delivered(i)

Inv == TypeOK /\ RunningIsClaimed /\ OutputsInv /\ CompletedHasOutputs

(* An item whose named execution has proof of outputs has delivered. *)
LEMMA ProofIsDelivery ==
    ASSUME Inv, NEW i \in Items, claim[i] # NoExec, valid[claim[i]]
    PROVE  Delivered(i)
BY DEF Inv, TypeOK, StoreTypeOK, OutputsInv, RunningIsClaimed, Delivered

(* Outputs are never taken back. *)
LEMMA DeliveredStays == \A i \in Items :
    Delivered(i) /\ active \subseteq active' => Delivered(i)'
BY DEF Delivered

(* CompletedHasOutputs survives a step that completes only delivered items.*)
LEMMA CompletedStep ==
    ASSUME Inv, active \subseteq active', TypeOK',
           \A i \in Items : status'[i] = "completed" =>
               status[i] = "completed" \/ Delivered(i)
    PROVE  CompletedHasOutputs'
BY DeliveredStays DEF Inv, CompletedHasOutputs, Delivered

(* A task's steps preserve OutputsInv. *)
LEMMA TaskOutputs == Inv /\ (\E e \in Execs : Task(e)) => OutputsInv'
<1> SUFFICES ASSUME Inv, NEW e \in Execs, Task(e) PROVE OutputsInv'
    OBVIOUS
<1> USE ExecFacts
    DEF Inv, TypeOK, StoreTypeOK, RecoveryTypeOK, OutputsInv, HostOwns,
        Delivered, execVars
<1>1. TaskStep(e) /\ UNCHANGED <<sweep, affected>>
    BY DEF Task
<1>2. CASE ImportLate(e)
    BY <1>1, <1>2 DEF ImportLate
<1>3. CASE ImportAccepted(e)
    BY <1>1, <1>3 DEF ImportAccepted
<1>4. CASE ImportMissing(e)
    BY <1>1, <1>4 DEF ImportMissing
<1>5. CASE CompleteAttempt(e)
    BY <1>1, <1>5 DEF CompleteAttempt, CompleteItem, ProvesOutputs, NoWrite,
       storeVars
<1>6. CASE MarkExecutionFailed(e)
    BY <1>1, <1>6 DEF MarkExecutionFailed
<1>7. CASE UNCHANGED <<execVars, hostRow>>
    BY <1>1, <1>7
<1> QED BY <1>1, <1>2, <1>3, <1>4, <1>5, <1>6, <1>7
        DEF TaskStep, StartCheck, ProviderResult, CheckResultOwner,
            ImportFenced, FinishProcessing, ProviderCapacityRequeue,
            RequeueAttempt, FailAttempt, NoWrite, storeVars

(* Claims and faults that hit a task preserve OutputsInv. *)
LEMMA FaultOutputs == Inv /\ (Claiming \/ TaskFaults) => OutputsInv'
<1> SUFFICES ASSUME Inv, Claiming \/ TaskFaults PROVE OutputsInv'
    OBVIOUS
<1> USE ExecFacts
    DEF Inv, TypeOK, StoreTypeOK, RecoveryTypeOK, OutputsInv, HostOwns,
        Delivered, execVars
<1>1. CASE Claiming
    BY <1>1 DEF Claiming, ClaimStep, ClaimFresh, ClaimResume, FreshExec
<1>2. ASSUME NEW e \in Execs, TaskFault(e), UNCHANGED <<sweep, affected>>
      PROVE  OutputsInv'
  <2>1. CASE ProviderError(e)
      BY <1>2, <2>1 DEF ProviderError
  <2>2. CASE ProviderCapacity(e)
      BY <1>2, <2>2 DEF ProviderCapacity
  <2>3. CASE ActivePromptClosed(e)
      BY <1>2, <2>3 DEF ActivePromptClosed, PromptClosedStale,
         PromptClosedRequeue, PromptClosedExhausted
  <2> QED BY <1>2, <2>1, <2>2, <2>3
          DEF TaskFault, TransientError, WorkerError, CompletionContended
<1> QED BY <1>1, <1>2 DEF TaskFaults

(* The sweep and the reconcilers preserve OutputsInv. *)
LEMMA ReconcileOutputs == Inv /\ (SweepStep \/ P080Step) => OutputsInv'
<1> SUFFICES ASSUME Inv, SweepStep \/ P080Step PROVE OutputsInv'
    OBVIOUS
<1> USE ExecFacts
    DEF Inv, TypeOK, StoreTypeOK, RecoveryTypeOK, OutputsInv, HostOwns, execVars
<1>1. CASE SweepSelect
  <2>1. \A i \in sweep' : Delivered(i)
      BY <1>1, ProofIsDelivery DEF SweepSelect, HasTerminalValidOutputs
  <2> QED BY <1>1, <2>1 DEF SweepSelect, NoWrite, storeVars, Delivered
<1>2. ASSUME NEW i \in Items, SweepComplete(i) PROVE OutputsInv'
    BY <1>2 DEF SweepComplete, CompleteItem, ProvesOutputs, NoWrite, storeVars,
       Delivered
<1>3. ASSUME NEW i \in Items, P080Repair(i) PROVE OutputsInv'
    BY <1>3 DEF P080Repair, CancelIfRunning, Delivered
<1>4. CASE P080Classify \/ P080Retire
    BY <1>4 DEF P080Classify, P080Retire, Delivered
<1> QED BY <1>1, <1>2, <1>3, <1>4 DEF SweepStep, P080Step

(* Host recovery and cancellation preserve OutputsInv: phase one fences    *)
(* running executions only, which have not delivered yet.                  *)
LEMMA HostOutputs ==
    Inv /\ (HostPrepare \/ HostSettleAny \/ CancelRun \/ FinalizeCancel)
        => OutputsInv'
<1> SUFFICES ASSUME Inv,
                    HostPrepare \/ HostSettleAny \/ CancelRun \/ FinalizeCancel
             PROVE  OutputsInv'
    OBVIOUS
<1> USE DEF Inv, TypeOK, StoreTypeOK, RecoveryTypeOK, OutputsInv, HostOwns,
            Delivered, execVars
<1>1. CASE HostPrepare
    BY <1>1 DEF HostPrepare, RunningExecs
<1>2. ASSUME NEW F, HostSettle(F) PROVE OutputsInv'
    BY <1>2 DEF HostSettle
<1>3. CASE CancelRun \/ FinalizeCancel
    BY <1>3 DEF CancelRun, CancelIfRunning, FinalizeCancel
<1> QED BY <1>1, <1>2, <1>3 DEF HostSettleAny

(* A crash and startup recovery preserve OutputsInv. *)
LEMMA StartupOutputs == Inv /\ (Crash \/ StartupStep) => OutputsInv'
<1> SUFFICES ASSUME Inv, Crash \/ StartupStep PROVE OutputsInv'
    OBVIOUS
<1> USE ExecFacts
    DEF Inv, TypeOK, StoreTypeOK, RecoveryTypeOK, OutputsInv, HostOwns,
        Delivered, execVars
<1>1. CASE Crash \/ StartupFail
    BY <1>1 DEF Crash, StartupFail, NoWrite, storeVars
<1>2. CASE StartupCancelledRuns
    BY <1>2 DEF StartupCancelledRuns, CancelIfRunning
<1>3. CASE StartupSettle
    BY <1>3 DEF StartupSettle
<1>4. CASE StartupComplete
    BY <1>4 DEF StartupComplete, CompleteItem, HasTerminalValidOutputs, NoWrite,
       storeVars
<1>5. CASE StartupRequeue
    BY <1>5 DEF StartupRequeue, CancelIfRunning, CleanupHolds
<1> QED BY <1>1, <1>2, <1>3, <1>4, <1>5 DEF StartupStep

(* What a step may do to outputs and completions: outputs are only added,  *)
(* never those of a fenced execution; an item is completed only after it   *)
(* delivered, and not by the task of a fenced execution.                   *)
OutputStep ==
    /\ active \subseteq active'
    /\ \A e \in Execs : HostOwns(e) /\ e \in active' => e \in active
    /\ \A i \in Items : status'[i] = "completed" /\ status[i] # "completed" =>
           /\ Delivered(i)
           /\ \A e \in Execs : HostOwns(e) /\ TaskMoved(e) => Item(e) # i

(* Every step from a state of the invariant is an OutputStep. *)
LEMMA NextOutputStep == Inv /\ [Next]_vars => OutputStep
<1> SUFFICES ASSUME Inv, [Next]_vars PROVE OutputStep
    OBVIOUS
<1> USE ExecFacts
    DEF OutputStep, Inv, TypeOK, StoreTypeOK, WorkerTypeOK, itemVars, execVars
<1>1. CASE Claiming
    BY <1>1 DEF Claiming, ClaimStep, ClaimFresh, ClaimResume
<1>2. ASSUME NEW e \in Execs, CompleteAttempt(e) PROVE OutputStep
  <2>1. CASE MatchesAttempt(e) /\ ProvesOutputs(Item(e))
    <3>1. claim[Item(e)] = e /\ valid[e] /\ Delivered(Item(e))
        BY <2>1, ProofIsDelivery DEF MatchesAttempt, OwnsItem, ProvesOutputs
    <3>2. ~HostOwns(e)
        BY <3>1 DEF OutputsInv
    <3>3. active' = active /\ pc' = [pc EXCEPT ![e] = pc'[e]]
          /\ status' = [status EXCEPT ![Item(e)] = "completed"]
        BY <1>2, <2>1 DEF CompleteAttempt, CompleteItem, Goto
    <3> QED BY <3>1, <3>2, <3>3 DEF TaskMoved
  <2>2. CASE ~(MatchesAttempt(e) /\ ProvesOutputs(Item(e)))
      BY <1>2, <2>2 DEF CompleteAttempt, NoWrite, storeVars
  <2> QED BY <2>1, <2>2
<1>3. ASSUME NEW e \in Execs, TaskStep(e), ~CompleteAttempt(e) PROVE OutputStep
    BY <1>3 DEF TaskStep, StartCheck, ProviderResult, CheckResultOwner,
       ImportFenced, FinishProcessing, ProviderCapacityRequeue, ImportLate,
       ImportAccepted, ImportMissing, RequeueAttempt, FailAttempt, FailItem,
       MarkExecutionFailed, NoWrite, storeVars
<1>4. CASE TaskFaults
    BY <1>4 DEF TaskFaults, TaskFault, ProviderError, ProviderCapacity,
       ActivePromptClosed, PromptClosedStale, PromptClosedRequeue,
       RequeueStripped, PromptClosedExhausted, TransientError, WorkerError,
       CompletionContended
<1>5. CASE SweepStep
    BY <1>5 DEF SweepStep, SweepSelect, SweepComplete, CompleteItem, OutputsInv,
       TaskMoved, NoWrite, storeVars
<1>6. CASE P080Step
  <2>1. ASSUME NEW i \in Items, P080Repair(i) PROVE OutputStep
      BY <2>1 DEF P080Repair, RequeueStripped
  <2> QED BY <1>6, <2>1 DEF P080Step, P080Classify, P080Retire
<1>7. CASE HostPrepare \/ CancelRun \/ FinalizeCancel
    BY <1>7 DEF HostPrepare, CancelRun, FinalizeCancel
<1>8. ASSUME NEW F, HostSettle(F) PROVE OutputStep
    BY <1>8 DEF HostSettle, RequeueStripped
<1>9. CASE StartupComplete
  <2>1. \A i \in Items : HasTerminalValidOutputs(i) => Delivered(i)
      BY ProofIsDelivery DEF HasTerminalValidOutputs
  <2> QED BY <1>9, <2>1 DEF StartupComplete, CompleteItem, TaskMoved, NoWrite,
          storeVars
<1>10. CASE StartupRequeue
    BY <1>10 DEF StartupRequeue, RequeueStripped
<1>11. CASE Crash \/ StartupCancelledRuns \/ StartupSettle \/ StartupFail
    BY <1>11 DEF Crash, StartupCancelledRuns, StartupSettle, StartupFail,
       FailItem, NoWrite, storeVars
<1>12. CASE UNCHANGED vars
    BY <1>12 DEF vars, storeVars
<1> QED BY <1>1, <1>2, <1>3, <1>4, <1>5, <1>6, <1>7, <1>8, <1>9, <1>10, <1>11,
           <1>12
        DEF Next, Task, TaskStep, HostSettleAny, StartupStep, Drained

(* OutputsInv and CompletedHasOutputs are inductive together. *)
LEMMA OutputsInductive == Spec => [](OutputsInv /\ CompletedHasOutputs)
<1>1. Init => OutputsInv /\ CompletedHasOutputs
    BY DEF Init, StoreInit, RecoveryInit, OutputsInv, CompletedHasOutputs
<1>2. Inv /\ TypeOK' /\ [Next]_vars => (OutputsInv /\ CompletedHasOutputs)'
  <2> SUFFICES ASSUME Inv, TypeOK', [Next]_vars
               PROVE  OutputsInv' /\ CompletedHasOutputs'
      OBVIOUS
  <2>1. CompletedHasOutputs'
      BY NextOutputStep, CompletedStep DEF OutputStep
  <2>2. CASE UNCHANGED vars
    <3>1. UNCHANGED <<execStatus, valid, active, hostRow, affected, sweep>>
        BY <2>2 DEF vars, storeVars, execVars
    <3> QED BY <2>1, <3>1 DEF Inv, OutputsInv, Delivered, HostOwns
  <2> QED BY <2>1, <2>2, TaskOutputs, FaultOutputs, ReconcileOutputs,
             HostOutputs, StartupOutputs
          DEF Next, Drained
<1> QED BY <1>1, <1>2, TypeCorrect, Claimed, PTL DEF Spec, Inv

(* An item is completed, by its task, the sweep or startup recovery, only  *)
(* if one of its executions had its outputs activated.                     *)
THEOREM CompletionDelivers == Spec => []CompletedHasOutputs
BY OutputsInductive, PTL

(* Once host recovery has fenced an attempt, its outputs are never         *)
(* activated and its task never completes its item.                        *)
THEOREM HostFence == Spec => HostFenceHolds
<1>1. Inv /\ [Next]_vars =>
        [\A e \in Execs : HostOwns(e) =>
           /\ e \in active' => e \in active
           /\ TaskMoved(e) => status'[Item(e)] # "completed"
                               \/ status[Item(e)] = "completed"]_vars
    BY NextOutputStep, ExecFacts DEF OutputStep
<1> QED BY <1>1, OutputsInductive, TypeCorrect, Claimed, PTL
        DEF Spec, Inv, HostFenceHolds

-----------------------------------------------------------------------------
(* The tasks of attempts that host recovery took over.                     *)

(* An attempt that host recovery took over while its item still names it   *)
(* is held and running, or was cancelled, or its own prompt ended in an    *)
(* error and its task has nothing left but to report it, until the item    *)
(* settles.  The item a task works for is not waiting to be claimed.       *)
HeldInv ==
    /\ \A e \in Execs :
           HostOwns(e) /\ claim[Item(e)] = e /\ status[Item(e)] \notin Terminal
               => \/ execStatus[e] = "cancelled"
                  \/ CleanupHolds(e) /\ execStatus[e] = "running"
                  \/ /\ execStatus[e] = "failed" /\ status[Item(e)] = "running"
                     /\ pc[e] \in {"capacity", "failed", "mark", "idle"}
    /\ \A e \in Execs : HostOwns(e) => execStatus[e] # "none"
    /\ \A e \in Execs : pc[e] # "idle" /\ claim[Item(e)] = e
                            => status[Item(e)] # "pending"

HeldPremise == TypeOK /\ RunningIsClaimed /\ TaskIsInserted /\ HeldInv

(* The attempt host recovery took over passes the fence of the settling    *)
(* transactions only after an error of its own prompt.                     *)
LEMMA HeldMatches ==
    ASSUME TypeOK, HeldInv, NEW e \in Execs, HostOwns(e), MatchesAttempt(e)
    PROVE  execStatus[e] = "failed" /\ pc[e] \in {"capacity", "failed", "mark", "idle"}
BY ExecFacts DEF HeldInv, MatchesAttempt, OwnsItem, Terminal

(* Claims and task steps preserve HeldInv. *)
LEMMA TaskHeld ==
    ASSUME HeldPremise,
           Claiming \/ TaskFaults \/ \E e \in Execs : Task(e)
    PROVE  HeldInv'
<1> USE ExecFacts
    DEF HeldPremise, HeldInv, HostOwns, CleanupHolds, RunningIsClaimed,
        TaskIsInserted, Terminal, TypeOK, StoreTypeOK, WorkerTypeOK, itemVars,
        execVars, Goto
<1>1. ASSUME NEW i \in Items, ClaimFresh(i) PROVE HeldInv'
    BY <1>1 DEF ClaimFresh, FreshExec
<1>2. ASSUME NEW i \in Items, ClaimResume(i) PROVE HeldInv'
    BY <1>2 DEF ClaimResume
<1>3. ASSUME NEW e \in Execs, TaskStep(e) PROVE HeldInv'
  <2>1. CASE CompleteAttempt(e)
      BY <1>3, <2>1 DEF CompleteAttempt, CompleteItem, ProvesOutputs, NoWrite,
         storeVars
  <2>2. CASE ImportLate(e) \/ ImportAccepted(e) \/ ImportMissing(e)
      BY <1>3, <2>2 DEF ImportLate, ImportAccepted, ImportMissing
  <2>3. CASE RequeueAttempt(e)
      BY <1>3, <2>3 DEF RequeueAttempt, MatchesAttempt, OwnsItem
  <2>4. CASE FailAttempt(e) \/ MarkExecutionFailed(e)
      BY <1>3, <2>4 DEF FailAttempt, FailItem, MarkExecutionFailed
  <2>5. CASE ProviderCapacityRequeue(e)
      BY <1>3, <2>5 DEF ProviderCapacityRequeue
  <2> QED BY <1>3, <2>1, <2>2, <2>3, <2>4, <2>5
          DEF TaskStep, StartCheck, ProviderResult, CheckResultOwner,
              ImportFenced, FinishProcessing, NoWrite, storeVars
<1>4. ASSUME NEW e \in Execs, TaskFault(e) PROVE HeldInv'
  <2>1. CASE ActivePromptClosed(e)
    <3>1. CASE PromptClosedStale(e)
        BY <2>1, <3>1 DEF ActivePromptClosed, PromptClosedStale
    <3>2. CASE PromptClosedRequeue(e)
        BY <2>1, <3>2, HeldMatches
           DEF ActivePromptClosed, PromptClosedRequeue, RequeueStripped
    <3>3. CASE PromptClosedExhausted(e)
        BY <2>1, <3>3, HeldMatches
           DEF ActivePromptClosed, PromptClosedExhausted
    <3> QED BY <2>1, <3>1, <3>2, <3>3 DEF ActivePromptClosed
  <2>2. CASE ProviderError(e) \/ ProviderCapacity(e)
      BY <1>4, <2>2 DEF ProviderError, ProviderCapacity, ItemStates
  <2> QED BY <1>4, <2>1, <2>2 DEF TaskFault, TransientError, WorkerError,
          CompletionContended
<1> QED BY <1>1, <1>2, <1>3, <1>4 DEF Claiming, ClaimStep, TaskFaults, Task

(* Sweeps, reconcilers, cancellation and restarts preserve HeldInv: who    *)
(* requeues an item takes it from its attempt, and host recovery cancels   *)
(* every execution it releases from its hold.                              *)
LEMMA RecoveryHeld ==
    ASSUME HeldPremise,
           \/ SweepStep \/ P080Step
           \/ HostPrepare \/ HostSettleAny \/ CancelRun \/ FinalizeCancel
           \/ Crash \/ StartupStep
    PROVE  HeldInv'
<1> USE ExecFacts
    DEF HeldPremise, HeldInv, HostOwns, CleanupHolds, RunningIsClaimed,
        Terminal, TypeOK, StoreTypeOK, WorkerTypeOK, RecoveryTypeOK, itemVars,
        execVars
<1>1. CASE SweepStep
    BY <1>1 DEF SweepStep, SweepSelect, SweepComplete, CompleteItem,
       ProvesOutputs, NoWrite, storeVars
<1>2. CASE P080Classify \/ P080Retire
    BY <1>2 DEF P080Classify, P080Retire
<1>3. ASSUME NEW i \in Items, P080Repair(i) PROVE HeldInv'
    BY <1>3 DEF P080Repair, RequeueStripped, CancelIfRunning
<1>4. CASE HostPrepare
    BY <1>4 DEF HostPrepare, RunningExecs
<1>5. ASSUME NEW F, HostSettle(F) PROVE HeldInv'
    BY <1>5 DEF HostSettle, RequeueStripped
<1>6. CASE CancelRun \/ FinalizeCancel \/ Crash
    BY <1>6 DEF CancelRun, CancelIfRunning, FinalizeCancel, Crash
<1>7. CASE StartupCancelledRuns \/ StartupSettle
    BY <1>7 DEF StartupCancelledRuns, CancelIfRunning, StartupSettle
<1>8. CASE StartupComplete
    BY <1>8 DEF StartupComplete, HasTerminalValidOutputs, CompleteItem, NoWrite,
       storeVars
<1>9. CASE StartupFail
    BY <1>9 DEF StartupFail, FailItem, NoWrite, storeVars
<1>10. CASE StartupRequeue
    BY <1>10 DEF StartupRequeue, RequeueStripped, CancelIfRunning
<1> QED BY <1>1, <1>2, <1>3, <1>4, <1>5, <1>6, <1>7, <1>8, <1>9, <1>10
        DEF P080Step, HostSettleAny, StartupStep

(* What a step of a host-owned task may do to items and advances. *)
Inert(e) == UNCHANGED <<status, advance>>
            \/ FailsByOwnError(e) \/ RequeuesForCapacity(e)

(* A step of the task of an attempt that host recovery took over is inert  *)
(* but for the errors of its own prompt.                                   *)
LEMMA HeldTaskStep ==
    ASSUME HeldPremise, [Next]_vars, NEW e \in Execs, HostOwns(e), TaskMoved(e)
    PROVE  Inert(e)
<1> USE ExecFacts
    DEF TaskMoved, HeldPremise, TypeOK, StoreTypeOK, WorkerTypeOK, itemVars,
        Goto, Inert
<1>1. ~Claiming
    BY DEF Claiming, ClaimStep, ClaimFresh, ClaimResume, FreshExec,
       TaskIsInserted, RunningIsClaimed, HeldInv
<1>2. MatchesAttempt(e) => /\ execStatus[e] = "failed"
                           /\ pc[e] \in {"capacity", "failed", "mark", "idle"}
    BY HeldMatches
<1>3. ASSUME NEW d \in Execs, TaskStep(d) PROVE Inert(e)
  <2>1. d = e
      BY <1>3 DEF TaskStep, StartCheck, ProviderResult, CheckResultOwner,
         ImportFenced, FinishProcessing, ProviderCapacityRequeue, ImportLate,
         ImportAccepted, ImportMissing, CompleteAttempt, RequeueAttempt,
         FailAttempt, MarkExecutionFailed
  <2>2. CASE FailAttempt(e)
      BY <1>2, <2>2 DEF FailAttempt, FailItem, FailsByOwnError, MatchesAttempt,
         OwnsItem
  <2>3. CASE ProviderCapacityRequeue(e)
      BY <2>3 DEF ProviderCapacityRequeue, RequeuesForCapacity
  <2>4. CASE CompleteAttempt(e) \/ RequeueAttempt(e)
      BY <1>2, <2>4 DEF CompleteAttempt, RequeueAttempt, NoWrite, storeVars
  <2> QED BY <1>3, <2>1, <2>2, <2>3, <2>4
          DEF TaskStep, StartCheck, ProviderResult, CheckResultOwner,
              ImportFenced, FinishProcessing, ImportLate, ImportAccepted,
              ImportMissing, MarkExecutionFailed, NoWrite, storeVars
<1>4. ASSUME NEW d \in Execs, TaskFault(d) PROVE Inert(e)
  <2>1. d = e
      BY <1>4 DEF TaskFault, ProviderError, ProviderCapacity, ActivePromptClosed,
         PromptClosedStale, PromptClosedRequeue, PromptClosedExhausted,
         TransientError, WorkerError, CompletionContended
  <2> QED BY <1>2, <1>4, <2>1 DEF TaskFault, ProviderError, ProviderCapacity,
          ActivePromptClosed, PromptClosedStale, PromptClosedRequeue,
          PromptClosedExhausted, TransientError, WorkerError,
          CompletionContended
<1>5. \/ Claiming \/ (\E d \in Execs : TaskStep(d) \/ TaskFault(d))
      \/ pc' = pc \/ boot' # "up"
    BY DEF Next, Task, TaskFaults, SweepStep, SweepSelect, SweepComplete,
       P080Step, P080Classify, P080Retire, P080Repair, HostPrepare,
       HostSettleAny, HostSettle, CancelRun, FinalizeCancel, Crash, StartupStep,
       StartupCancelledRuns, StartupSettle, StartupComplete, StartupFail,
       StartupRequeue, Drained, vars
<1> QED BY <1>1, <1>3, <1>4, <1>5

(* Under every kind of fault, the task of an attempt that host recovery    *)
(* took over settles, requeues and advances nothing, even if cleanup       *)
(* failed and the item still names the attempt, unless the attempt's own   *)
(* prompt ended in an error after the hold or in a capacity answer.        *)
THEOREM HostOwnedInert == Spec => HostOwnedTaskIsInert
<1>1. Init => HeldInv
    BY DEF Init, StoreInit, WorkerInit, HeldInv, HostOwns
<1>2. HeldPremise /\ [Next]_vars => HeldInv'
  <2> SUFFICES ASSUME HeldPremise, [Next]_vars
               PROVE  HeldInv'
      OBVIOUS
  <2>1. CASE UNCHANGED vars
    <3>1. UNCHANGED <<status, claim, execStatus, hostRow, pc>>
        BY <2>1 DEF vars, storeVars, itemVars, execVars
    <3> QED BY <3>1 DEF HeldPremise, HeldInv, HostOwns, CleanupHolds
  <2> QED BY <2>1, TaskHeld, RecoveryHeld DEF Next, Drained
<1>3. HeldPremise /\ [Next]_vars =>
        [\A e \in Execs : HostOwns(e) /\ TaskMoved(e) =>
           \/ UNCHANGED <<status, advance>>
           \/ FailsByOwnError(e)
           \/ RequeuesForCapacity(e)]_vars
    BY HeldTaskStep DEF Inert
<1> QED BY <1>1, <1>2, <1>3, TypeCorrect, Claimed, Inserted, PTL
        DEF Spec, HeldPremise, HostOwnedTaskIsInert
=============================================================================
