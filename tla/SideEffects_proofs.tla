------------------------- MODULE SideEffects_proofs -------------------------
(***************************************************************************)
(* The side-effect ledger for every set of executions, calls, targets and  *)
(* dispositions and every bound on renewals: at most one external write    *)
(* per effect, what a settlement and a completed execution prove, the      *)
(* standing of an operator's decision, and the promise of ReleaseLedger.   *)
(***************************************************************************)
EXTENDS SideEffects, TLAPS

(* Every step keeps the types. *)
LEMMA TypeStep ==
    ASSUME TypeOK, [Next]_vars PROVE TypeOK'
<1> USE SideEffectsAssumption DEF TypeOK, Unresolved, Resolved, Dispositioned, Verdicts, Timed, Steps, Requests, Snapshots
<1>1. CASE UNCHANGED vars
    BY <1>1 DEF vars, rowVars, callVars, worldVars
<1>2. ASSUME NEW t \in Calls, CallStep(t) \/ Abort(t) PROVE TypeOK'
  <2>a. KeyOf(t) \in Keys
      BY DEF KeyOf, Keys, TypeOK
  <2>1. CASE Begin(t)
      BY <2>a, <2>1 DEF Begin, Goto, rowVars, callVars, worldVars
  <2>2. CASE Check(t)
      BY <2>a, <2>2 DEF Check, Goto, rowVars, callVars, worldVars
  <2>3. CASE Insert(t)
      BY <2>a, <2>3 DEF Insert, Goto, SetStatus, KeepStatus, rowVars, callVars, worldVars
  <2>4. CASE AcquireLease(t)
    <3>1. CASE status[KeyOf(t)] = "prepared" /\ KeyOf(t) \notin attempted
        BY <2>a, <2>4, <3>1 DEF AcquireLease, Goto, rowVars, callVars, worldVars
    <3>2. CASE ~(status[KeyOf(t)] = "prepared" /\ KeyOf(t) \notin attempted)
        BY <2>a, <2>4, <3>2 DEF AcquireLease, Goto, rowVars, callVars, worldVars
    <3> QED BY <3>1, <3>2
  <2>5. CASE MarkWriteStarted(t)
      BY <2>a, <2>5 DEF MarkWriteStarted, Goto, rowVars, callVars, worldVars
  <2>6. CASE Launch(t)
      BY <2>a, <2>6 DEF Launch, Goto, rowVars, callVars, worldVars
  <2>7. CASE Renew(t)
      BY <2>a, <2>7 DEF Renew, Goto, rowVars, callVars, worldVars
  <2>8. CASE Collect(t)
      BY <2>a, <2>8 DEF Collect, Goto, rowVars, callVars, worldVars
  <2>9. CASE SettleSuccess(t)
    <3>1. CASE CanSettle(t, KeyOf(t)) /\ step[t] = "first"
        BY <2>a, <2>9, <3>1 DEF SettleSuccess, Goto, SetStatus, rowVars, callVars, worldVars
    <3>2. CASE CanSettle(t, KeyOf(t)) /\ step[t] # "first"
        BY <2>a, <2>9, <3>2 DEF SettleSuccess, Goto, SetStatus, rowVars, callVars, worldVars
    <3>3. CASE ~CanSettle(t, KeyOf(t)) /\ step[t] = "first"
        BY <2>a, <2>9, <3>3 DEF SettleSuccess, Goto, KeepStatus, rowVars, callVars, worldVars
    <3>4. CASE ~CanSettle(t, KeyOf(t)) /\ step[t] # "first"
        BY <2>a, <2>9, <3>4 DEF SettleSuccess, Goto, KeepStatus, rowVars, callVars, worldVars
    <3> QED BY <3>1, <3>2, <3>3, <3>4
  <2>10. CASE SettleFailure(t)
      BY <2>a, <2>10 DEF SettleFailure, Goto, SetStatus, KeepStatus, rowVars, callVars, worldVars
  <2>11. CASE Abort(t)
      BY <2>a, <2>11 DEF Abort, Goto, rowVars, callVars, worldVars
  <2> QED BY <1>2, <2>1, <2>2, <2>3, <2>4, <2>5, <2>6, <2>7, <2>8, <2>9, <2>10, <2>11 DEF CallStep
<1>3. ASSUME NEW k \in Keys, OperationEnds(k) \/ LeaseLapses(k) \/ DeadlinePasses(k) PROVE TypeOK'
    BY <1>3 DEF OperationEnds, LeaseLapses, DeadlinePasses, rowVars, callVars, worldVars
<1>4. CASE WatchdogScan
    BY <1>4 DEF WatchdogScan, Stale, Snapshot, Snapshots, rowVars, callVars, worldVars
<1>5. CASE WatchdogStep
  <2> PICK f \in found : (Reap(f) \/ VerifyEvidence(f)) /\ found' = found \ {f}
          /\ UNCHANGED <<owner, renewed, attempted, settlement, callVars, worldVars, agent, pending>>
      BY <1>5 DEF WatchdogStep
  <2>a. f.key \in Keys
      BY DEF TypeOK, Snapshots
  <2>1. CASE Reap(f)
      BY <2>a, <2>1 DEF Reap, SetStatus, KeepStatus, callVars, worldVars
  <2>2. CASE VerifyEvidence(f)
      BY <2>a, <2>2 DEF VerifyEvidence, SetStatus, KeepStatus, callVars, worldVars
  <2> QED BY <2>1, <2>2
<1>6. ASSUME NEW d \in Dispositions, CheckRequest(d) PROVE TypeOK'
    BY <1>6 DEF CheckRequest, Requests, rowVars, callVars, worldVars
<1>7. CASE ApplyDisposition
  <2> PICK r \in pending : Apply(r)
          /\ UNCHANGED <<owner, renewed, attempted, callVars, worldVars, agent, found>>
      BY <1>7 DEF ApplyDisposition
  <2>a. r.key \in Keys /\ r.verdict \in Verdicts /\ r.id \in Dispositions
      BY DEF TypeOK, Requests
  <2> QED BY <2>a DEF Apply, SetStatus, KeepStatus, callVars, worldVars
<1> QED BY <1>1, <1>2, <1>3, <1>4, <1>5, <1>6, <1>7 DEF Next

(* Every variable keeps its type. *)
THEOREM LedgerTypeCorrect == Spec => []TypeOK
<1>1. Init => TypeOK
    BY SideEffectsAssumption DEF Init, TypeOK, Keys, Steps, Unresolved, Resolved,
       Dispositioned, Requests, Snapshots
<1> QED BY <1>1, TypeStep, PTL DEF Spec

-----------------------------------------------------------------------------
(* How a row moves                                                         *)

(* The ways a row changes its status or gets its settlement. *)
RowMove(k) ==
    \/ /\ status[k] = "absent" /\ status'[k] = "prepared"
       /\ TargetFree(k) /\ settlement'[k] = settlement[k]
    \/ status[k] = "prepared" /\ status'[k] = "executing" /\ settlement'[k] = settlement[k]
    \/ /\ status[k] = "executing" /\ status'[k] = "settled"
       /\ settlement[k] = "none" /\ settlement'[k] = "executor"
       /\ \E t \in Calls : pc[t] = "settling" /\ KeyOf(t) = k
    \/ /\ status[k] \in Timed /\ status'[k] = "needs_reconciliation"
       /\ settlement'[k] = settlement[k]
    \/ /\ status[k] = "settled" /\ status'[k] = "needs_reconciliation"
       /\ TargetFree(k) /\ settlement'[k] = settlement[k]
    \/ /\ status[k] \in Dispositioned /\ status'[k] \in Verdicts
       /\ settlement[k] = "none" /\ settlement'[k] \in Dispositions

Untouched(k) == status'[k] = status[k] /\ settlement'[k] = settlement[k]

RowStep ==
    \/ UNCHANGED <<status, settlement>>
    \/ \E k \in Keys : RowMove(k) /\ \A j \in Keys \ {k} : Untouched(j)

(* Every step moves at most one row, in one of these ways. *)
LEMMA RowMoves ==
    ASSUME TypeOK, [Next]_vars PROVE RowStep
<1> USE SideEffectsAssumption DEF RowStep, Timed
<1>1. CASE UNCHANGED vars
    BY <1>1 DEF vars, rowVars, callVars, worldVars
<1>2. ASSUME NEW t \in Calls, CallStep(t) \/ Abort(t) PROVE RowStep
  <2>a. KeyOf(t) \in Keys
      BY DEF KeyOf, Keys, TypeOK
  <2>1. CASE Begin(t)
      BY <2>a, <2>1 DEF Begin, Goto, rowVars, callVars, worldVars
  <2>2. CASE Check(t)
      BY <2>a, <2>2 DEF Check, Goto, rowVars, callVars, worldVars
  <2>3. CASE Insert(t)
    <3>1. CASE UNCHANGED <<status, settlement>>
        BY <3>1
    <3>2. CASE ~UNCHANGED <<status, settlement>>
      <4>1. RowMove(KeyOf(t)) /\ \A j \in Keys \ {KeyOf(t)} : Untouched(j)
          BY <2>a, <2>3, <3>2 DEF Insert, Goto, SetStatus, KeepStatus, RowMove, Untouched, TypeOK
      <4> QED BY <2>a, <4>1
    <3> QED BY <3>1, <3>2
  <2>4. CASE AcquireLease(t)
    <3>1. CASE UNCHANGED <<status, settlement>>
        BY <3>1
    <3>2. CASE ~UNCHANGED <<status, settlement>>
      <4>1. RowMove(KeyOf(t)) /\ \A j \in Keys \ {KeyOf(t)} : Untouched(j)
          BY <2>a, <2>4, <3>2 DEF AcquireLease, Goto, RowMove, Untouched, TypeOK
      <4> QED BY <2>a, <4>1
    <3> QED BY <3>1, <3>2
  <2>5. CASE MarkWriteStarted(t)
      BY <2>a, <2>5 DEF MarkWriteStarted, Goto, rowVars, callVars, worldVars
  <2>6. CASE Launch(t)
      BY <2>a, <2>6 DEF Launch, Goto, rowVars, callVars, worldVars
  <2>7. CASE Renew(t)
      BY <2>a, <2>7 DEF Renew, Goto, rowVars, callVars, worldVars
  <2>8. CASE Collect(t)
      BY <2>a, <2>8 DEF Collect, Goto, rowVars, callVars, worldVars
  <2>9. CASE SettleSuccess(t)
    <3>1. CASE UNCHANGED <<status, settlement>>
        BY <3>1
    <3>2. CASE ~UNCHANGED <<status, settlement>>
      <4>1. RowMove(KeyOf(t)) /\ \A j \in Keys \ {KeyOf(t)} : Untouched(j)
          BY <2>a, <2>9, <3>2 DEF SettleSuccess, Goto, SetStatus, KeepStatus, CanSettle, RowMove, Untouched, TypeOK
      <4> QED BY <2>a, <4>1
    <3> QED BY <3>1, <3>2
  <2>10. CASE SettleFailure(t)
    <3>1. CASE UNCHANGED <<status, settlement>>
        BY <3>1
    <3>2. CASE ~UNCHANGED <<status, settlement>>
      <4>1. RowMove(KeyOf(t)) /\ \A j \in Keys \ {KeyOf(t)} : Untouched(j)
          BY <2>a, <2>10, <3>2 DEF SettleFailure, Goto, SetStatus, KeepStatus, RowMove, Untouched, TypeOK
      <4> QED BY <2>a, <4>1
    <3> QED BY <3>1, <3>2
  <2>11. CASE Abort(t)
      BY <2>a, <2>11 DEF Abort, Goto, rowVars, callVars, worldVars
  <2> QED BY <1>2, <2>1, <2>2, <2>3, <2>4, <2>5, <2>6, <2>7, <2>8, <2>9, <2>10, <2>11 DEF CallStep
<1>3. ASSUME NEW k \in Keys, OperationEnds(k) \/ LeaseLapses(k) \/ DeadlinePasses(k) PROVE RowStep
    BY <1>3 DEF OperationEnds, LeaseLapses, DeadlinePasses, rowVars, callVars, worldVars
<1>4. CASE WatchdogScan
    BY <1>4 DEF WatchdogScan, Stale, Snapshot, Snapshots, rowVars, callVars, worldVars
<1>5. CASE WatchdogStep
  <2> PICK f \in found : (Reap(f) \/ VerifyEvidence(f)) /\ found' = found \ {f}
          /\ UNCHANGED <<owner, renewed, attempted, settlement, callVars, worldVars, agent, pending>>
      BY <1>5 DEF WatchdogStep
  <2>a. f.key \in Keys
      BY DEF TypeOK, Snapshots
  <2>1. CASE UNCHANGED <<status, settlement>>
      BY <2>1
  <2>2. CASE ~UNCHANGED <<status, settlement>>
    <3>1. RowMove(f.key) /\ \A j \in Keys \ {f.key} : Untouched(j)
        BY <2>a, <2>2 DEF Reap, VerifyEvidence, SetStatus, KeepStatus, RowMove, Untouched, TypeOK
    <3> QED BY <2>a, <3>1
  <2> QED BY <2>1, <2>2
<1>6. ASSUME NEW d \in Dispositions, CheckRequest(d) PROVE RowStep
    BY <1>6 DEF CheckRequest, Requests, rowVars, callVars, worldVars
<1>7. CASE ApplyDisposition
  <2> PICK r \in pending : Apply(r)
          /\ UNCHANGED <<owner, renewed, attempted, callVars, worldVars, agent, found>>
      BY <1>7 DEF ApplyDisposition
  <2>a. r.key \in Keys /\ r.verdict \in Verdicts /\ r.id \in Dispositions
      BY DEF TypeOK, Requests
  <2>1. CASE UNCHANGED <<status, settlement>>
      BY <2>1
  <2>2. CASE ~UNCHANGED <<status, settlement>>
    <3>1. RowMove(r.key) /\ \A j \in Keys \ {r.key} : Untouched(j)
        BY <2>a, <2>2 DEF Apply, SetStatus, KeepStatus, RowMove, Untouched, TypeOK
    <3> QED BY <2>a, <3>1
  <2> QED BY <2>1, <2>2
<1> QED BY <1>1, <1>2, <1>3, <1>4, <1>5, <1>6, <1>7 DEF Next
-----------------------------------------------------------------------------
(* The inductive invariant                                                 *)

Holding == {"mark", "launch", "running", "settling", "failing"}

(* A call past its lease owns its row, and an owned row was started: no    *)
(* second call can start it.                                               *)
LeaseInv ==
    /\ \A t \in Calls : pc[t] \in Holding => owner[KeyOf(t)] = t
    /\ \A k \in Keys : owner[k] # NoCall => status[k] \notin {"absent", "prepared"}

(* A launch uses up a mark, and a mark is only ever the owner's. *)
WriteInv ==
    /\ \A k \in Keys : /\ k \in attempted => owner[k] # NoCall
                       /\ launches[k] \in {0, 1}
                       /\ launches[k] = 1 => k \in attempted
                       /\ op[k] = "none" <=> launches[k] = 0
    /\ \A t \in Calls : pc[t] = "launch" =>
           KeyOf(t) \in attempted /\ launches[KeyOf(t)] = 0

(* A success is reported and built upon only after it happened. *)
CallInv ==
    /\ \A t \in Calls :
           /\ pc[t] = "settling" => op[KeyOf(t)] = "succeeded"
           /\ step[t] = "second" => op[<<AgentOf[t], "first">>] = "succeeded"
    /\ CompletedIsTrue

(* A settled row was settled by its executor after a success; a decided    *)
(* row is in a status nobody but an operator moves.                        *)
RowInv ==
    \A k \in Keys :
        /\ settlement[k] = "executor" => op[k] = "succeeded"
        /\ status[k] = "settled" => settlement[k] = "executor"
        /\ settlement[k] \in Dispositions => status[k] \in Verdicts

(* The unique index: a target has at most one unresolved intent. *)
OneUnresolved ==
    \A j, k \in Keys :
        (j # k /\ TargetOf[j] = TargetOf[k])
            => ~(status[j] \in Unresolved /\ status[k] \in Unresolved)

LedgerInv == TypeOK /\ LeaseInv /\ WriteInv /\ CallInv /\ RowInv /\ OneUnresolved

(* Ownership of a row is never taken over. *)
LEMMA LeaseStep ==
    ASSUME TypeOK, LeaseInv, [Next]_vars PROVE LeaseInv'
<1> USE SideEffectsAssumption DEF TypeOK, Unresolved, Resolved, Dispositioned, Verdicts, LeaseInv, Holding
<1>1. CASE UNCHANGED vars
    BY <1>1 DEF vars, rowVars, callVars, worldVars, KeyOf
<1>2. ASSUME NEW t \in Calls, CallStep(t) \/ Abort(t) PROVE LeaseInv'
  <2>a. KeyOf(t) \in Keys
      BY DEF KeyOf, Keys, TypeOK
  <2>b. step' = step => \A u \in Calls : KeyOf(u)' = KeyOf(u)
      BY DEF KeyOf
  <2>1. CASE Begin(t)
      BY <2>a, <2>b, <2>1 DEF Begin, Goto, rowVars, callVars, worldVars
  <2>2. CASE Check(t)
      BY <2>a, <2>b, <2>2 DEF Check, Goto, rowVars, callVars, worldVars
  <2>3. CASE Insert(t)
      BY <2>a, <2>b, <2>3 DEF Insert, Goto, SetStatus, KeepStatus, rowVars, callVars, worldVars
  <2>4. CASE AcquireLease(t)
    <3>1. CASE status[KeyOf(t)] = "prepared" /\ KeyOf(t) \notin attempted
      <4>1. owner[KeyOf(t)] = NoCall
          BY <2>a, <2>b, <3>1
      <4>2. \A u \in Calls \ {t} : pc[u] \in Holding => KeyOf(u) # KeyOf(t)
          BY <4>1
      <4>3. /\ owner' = [owner EXCEPT ![KeyOf(t)] = t] /\ status' = [status EXCEPT ![KeyOf(t)] = "executing"]
            /\ pc' = [pc EXCEPT ![t] = "mark"] /\ step' = step
          BY <2>4, <3>1 DEF AcquireLease, Goto
      <4>4. \A u \in Calls : pc'[u] \in Holding => owner'[KeyOf(u)] = u
        <5> SUFFICES ASSUME NEW u \in Calls, pc'[u] \in Holding PROVE owner'[KeyOf(u)] = u
            OBVIOUS
        <5>1. CASE u = t
            BY <2>a, <2>b, <4>3, <5>1
        <5>2. CASE u # t
          <6>1. KeyOf(u) \in Keys
              BY DEF KeyOf, Keys
          <6> QED BY <2>a, <2>b, <4>2, <4>3, <5>2, <6>1
        <5> QED BY <5>1, <5>2
      <4>5. \A k \in Keys : owner'[k] # NoCall => status'[k] \notin {"absent", "prepared"}
          BY <2>a, <2>b, <4>3
      <4> QED BY <2>a, <2>b, <4>3, <4>4, <4>5
    <3>2. CASE ~(status[KeyOf(t)] = "prepared" /\ KeyOf(t) \notin attempted)
        BY <2>a, <2>b, <2>4, <3>2 DEF AcquireLease, Goto
    <3> QED BY <3>1, <3>2
  <2>5. CASE MarkWriteStarted(t)
      BY <2>a, <2>b, <2>5 DEF MarkWriteStarted, Goto, rowVars, callVars, worldVars
  <2>6. CASE Launch(t)
      BY <2>a, <2>b, <2>6 DEF Launch, Goto, rowVars, callVars, worldVars
  <2>7. CASE Renew(t)
      BY <2>a, <2>b, <2>7 DEF Renew, Goto, rowVars, callVars, worldVars
  <2>8. CASE Collect(t)
      BY <2>a, <2>b, <2>8 DEF Collect, Goto, rowVars, callVars, worldVars
  <2>9. CASE SettleSuccess(t)
    <3>1. \A u \in Calls \ {t} : KeyOf(u)' = KeyOf(u) /\ pc'[u] = pc[u] /\ step'[u] = step[u]
        BY <2>9 DEF SettleSuccess, Goto, KeyOf
    <3>2. pc'[t] \in {"check", "done"}
        BY <2>9 DEF SettleSuccess, Goto
    <3>3. \A k \in Keys : status'[k] \in {status[k], "settled"}
        BY <2>a, <2>b, <2>9 DEF SettleSuccess, SetStatus, KeepStatus
    <3> QED BY <2>a, <2>b, <2>9, <3>1, <3>2, <3>3 DEF SettleSuccess
  <2>10. CASE SettleFailure(t)
      BY <2>a, <2>b, <2>10 DEF SettleFailure, Goto, SetStatus, KeepStatus, rowVars, callVars, worldVars
  <2>11. CASE Abort(t)
      BY <2>a, <2>b, <2>11 DEF Abort, Goto, rowVars, callVars, worldVars
  <2> QED BY <1>2, <2>1, <2>2, <2>3, <2>4, <2>5, <2>6, <2>7, <2>8, <2>9, <2>10, <2>11 DEF CallStep
<1>3. ASSUME NEW k \in Keys, OperationEnds(k) \/ LeaseLapses(k) \/ DeadlinePasses(k) PROVE LeaseInv'
    BY <1>3 DEF OperationEnds, LeaseLapses, DeadlinePasses, rowVars, callVars, worldVars, KeyOf
<1>4. CASE WatchdogScan
    BY <1>4 DEF WatchdogScan, Stale, Snapshot, Snapshots, rowVars, callVars, worldVars, KeyOf
<1>5. CASE WatchdogStep
  <2> PICK f \in found : (Reap(f) \/ VerifyEvidence(f)) /\ found' = found \ {f}
          /\ UNCHANGED <<owner, renewed, attempted, settlement, callVars, worldVars, agent, pending>>
      BY <1>5 DEF WatchdogStep
  <2>a. f.key \in Keys
      BY DEF TypeOK, Snapshots
  <2>1. CASE Reap(f)
      BY <2>a, <2>1 DEF Reap, SetStatus, KeepStatus, callVars, worldVars, KeyOf
  <2>2. CASE VerifyEvidence(f)
      BY <2>a, <2>2 DEF VerifyEvidence, SetStatus, KeepStatus, callVars, worldVars, KeyOf
  <2> QED BY <2>1, <2>2
<1>6. ASSUME NEW d \in Dispositions, CheckRequest(d) PROVE LeaseInv'
    BY <1>6 DEF CheckRequest, Requests, rowVars, callVars, worldVars, KeyOf
<1>7. CASE ApplyDisposition
  <2> PICK r \in pending : Apply(r)
          /\ UNCHANGED <<owner, renewed, attempted, callVars, worldVars, agent, found>>
      BY <1>7 DEF ApplyDisposition
  <2>a. r.key \in Keys /\ r.verdict \in Verdicts /\ r.id \in Dispositions
      BY DEF TypeOK, Requests
  <2> QED BY <2>a DEF Apply, SetStatus, KeepStatus, callVars, worldVars, KeyOf
<1> QED BY <1>1, <1>2, <1>3, <1>4, <1>5, <1>6, <1>7 DEF Next

(* A second launch of an effect would need a second mark. *)
LEMMA WriteStep ==
    ASSUME TypeOK, LeaseInv, WriteInv, [Next]_vars PROVE WriteInv'
<1> USE SideEffectsAssumption DEF TypeOK, Unresolved, Resolved, Dispositioned, Verdicts, LeaseInv, WriteInv, Holding
<1>1. CASE UNCHANGED vars
    BY <1>1 DEF vars, rowVars, callVars, worldVars, KeyOf
<1>2. ASSUME NEW t \in Calls, CallStep(t) \/ Abort(t) PROVE WriteInv'
  <2>a. KeyOf(t) \in Keys
      BY DEF KeyOf, Keys, TypeOK
  <2>b. step' = step => \A u \in Calls : KeyOf(u)' = KeyOf(u)
      BY DEF KeyOf
  <2>1. CASE Begin(t)
      BY <2>a, <2>b, <2>1 DEF Begin, Goto, rowVars, callVars, worldVars
  <2>2. CASE Check(t)
      BY <2>a, <2>b, <2>2 DEF Check, Goto, rowVars, callVars, worldVars
  <2>3. CASE Insert(t)
      BY <2>a, <2>b, <2>3 DEF Insert, Goto, SetStatus, KeepStatus, rowVars, callVars, worldVars
  <2>4. CASE AcquireLease(t)
      BY <2>a, <2>b, <2>4 DEF AcquireLease, Goto, rowVars, callVars, worldVars
  <2>5. CASE MarkWriteStarted(t)
      BY <2>a, <2>b, <2>5 DEF MarkWriteStarted, Goto, rowVars, callVars, worldVars
  <2>6. CASE Launch(t)
      BY <2>a, <2>b, <2>6 DEF Launch, Goto, rowVars, callVars, worldVars
  <2>7. CASE Renew(t)
      BY <2>a, <2>b, <2>7 DEF Renew, Goto, rowVars, callVars, worldVars
  <2>8. CASE Collect(t)
      BY <2>a, <2>b, <2>8 DEF Collect, Goto, rowVars, callVars, worldVars
  <2>9. CASE SettleSuccess(t)
    <3>1. \A u \in Calls \ {t} : KeyOf(u)' = KeyOf(u) /\ pc'[u] = pc[u] /\ step'[u] = step[u]
        BY <2>9 DEF SettleSuccess, Goto, KeyOf
    <3>2. pc'[t] \in {"check", "done"}
        BY <2>9 DEF SettleSuccess, Goto
    <3> QED BY <2>a, <2>b, <2>9, <3>1, <3>2 DEF SettleSuccess, worldVars
  <2>10. CASE SettleFailure(t)
      BY <2>a, <2>b, <2>10 DEF SettleFailure, Goto, SetStatus, KeepStatus, rowVars, callVars, worldVars
  <2>11. CASE Abort(t)
      BY <2>a, <2>b, <2>11 DEF Abort, Goto, rowVars, callVars, worldVars
  <2> QED BY <1>2, <2>1, <2>2, <2>3, <2>4, <2>5, <2>6, <2>7, <2>8, <2>9, <2>10, <2>11 DEF CallStep
<1>3. ASSUME NEW k \in Keys, OperationEnds(k) \/ LeaseLapses(k) \/ DeadlinePasses(k) PROVE WriteInv'
    BY <1>3 DEF OperationEnds, LeaseLapses, DeadlinePasses, rowVars, callVars, worldVars, KeyOf
<1>4. CASE WatchdogScan
    BY <1>4 DEF WatchdogScan, Stale, Snapshot, Snapshots, rowVars, callVars, worldVars, KeyOf
<1>5. CASE WatchdogStep
  <2> PICK f \in found : (Reap(f) \/ VerifyEvidence(f)) /\ found' = found \ {f}
          /\ UNCHANGED <<owner, renewed, attempted, settlement, callVars, worldVars, agent, pending>>
      BY <1>5 DEF WatchdogStep
  <2>a. f.key \in Keys
      BY DEF TypeOK, Snapshots
  <2>1. CASE Reap(f)
      BY <2>a, <2>1 DEF Reap, SetStatus, KeepStatus, callVars, worldVars, KeyOf
  <2>2. CASE VerifyEvidence(f)
      BY <2>a, <2>2 DEF VerifyEvidence, SetStatus, KeepStatus, callVars, worldVars, KeyOf
  <2> QED BY <2>1, <2>2
<1>6. ASSUME NEW d \in Dispositions, CheckRequest(d) PROVE WriteInv'
    BY <1>6 DEF CheckRequest, Requests, rowVars, callVars, worldVars, KeyOf
<1>7. CASE ApplyDisposition
  <2> PICK r \in pending : Apply(r)
          /\ UNCHANGED <<owner, renewed, attempted, callVars, worldVars, agent, found>>
      BY <1>7 DEF ApplyDisposition
  <2>a. r.key \in Keys /\ r.verdict \in Verdicts /\ r.id \in Dispositions
      BY DEF TypeOK, Requests
  <2> QED BY <2>a DEF Apply, SetStatus, KeepStatus, callVars, worldVars, KeyOf
<1> QED BY <1>1, <1>2, <1>3, <1>4, <1>5, <1>6, <1>7 DEF Next

(* A success stays one: an operation is never started over. *)
LEMMA SuccessStays ==
    ASSUME TypeOK, LeaseInv, WriteInv, [Next]_vars
    PROVE  \A k \in Keys : op[k] = "succeeded" => op'[k] = "succeeded"
<1>1. ASSUME NEW t \in Calls, Launch(t)
      PROVE  \A k \in Keys : op[k] = "succeeded" => op'[k] = "succeeded"
    BY <1>1 DEF Launch, WriteInv, TypeOK, KeyOf, Keys
<1>2. ASSUME NEW k \in Keys, OperationEnds(k)
      PROVE  \A j \in Keys : op[j] = "succeeded" => op'[j] = "succeeded"
    BY <1>2 DEF OperationEnds, TypeOK
<1> QED BY <1>1, <1>2 DEF Next, CallStep, Abort, Begin, Check, Insert, AcquireLease,
           MarkWriteStarted, Renew, Collect, SettleSuccess, SettleFailure, LeaseLapses,
           DeadlinePasses, WatchdogScan, WatchdogStep, CheckRequest, ApplyDisposition,
           vars, worldVars

(* What calls and executions report stays true. *)
LEMMA CallStepKeepsResults ==
    ASSUME TypeOK, LeaseInv, WriteInv, CallInv, [Next]_vars PROVE CallInv'
<1>s. \A k \in Keys : op[k] = "succeeded" => op'[k] = "succeeded"
    BY SuccessStays
<1> USE SideEffectsAssumption DEF TypeOK, Steps, CallInv, CompletedIsTrue
<1>1. CASE UNCHANGED vars
    BY <1>1 DEF vars, rowVars, callVars, worldVars, KeyOf
<1>2. ASSUME NEW t \in Calls, CallStep(t) \/ Abort(t) PROVE CallInv'
  <2>a. KeyOf(t) \in Keys
      BY DEF KeyOf, Keys, TypeOK
  <2>b. step' = step => \A u \in Calls : KeyOf(u)' = KeyOf(u)
      BY DEF KeyOf
  <2>1. CASE Begin(t)
      BY <2>a, <2>b, <2>1 DEF Begin, Goto, rowVars, callVars, worldVars
  <2>2. CASE Check(t)
      BY <2>a, <2>b, <2>2 DEF Check, Goto, rowVars, callVars, worldVars
  <2>3. CASE Insert(t)
      BY <2>a, <2>b, <2>3 DEF Insert, Goto, SetStatus, KeepStatus, rowVars, callVars, worldVars
  <2>4. CASE AcquireLease(t)
      BY <2>a, <2>b, <2>4 DEF AcquireLease, Goto, rowVars, callVars, worldVars
  <2>5. CASE MarkWriteStarted(t)
      BY <2>a, <2>b, <2>5 DEF MarkWriteStarted, Goto, rowVars, callVars, worldVars
  <2>6. CASE Launch(t)
    <3>1. \A u \in Calls : KeyOf(u) \in Keys /\ <<AgentOf[u], "first">> \in Keys
        BY DEF KeyOf, Keys
    <3>2. \A a \in Agents, s \in Steps : <<a, s>> \in Keys
        BY DEF Keys
    <3>3. step' = step /\ agent' = agent /\ \A u \in Calls : pc'[u] = "settling" => pc[u] = "settling"
        BY <2>6 DEF Launch, Goto
    <3>4. CompletedIsTrue'
        BY <1>s, <3>2, <3>3
    <3> QED BY <1>s, <2>b, <3>1, <3>3, <3>4
  <2>7. CASE Renew(t)
      BY <2>a, <2>b, <2>7 DEF Renew, Goto, rowVars, callVars, worldVars
  <2>8. CASE Collect(t)
      BY <2>a, <2>b, <2>8 DEF Collect, Goto, rowVars, callVars, worldVars
  <2>9. CASE SettleSuccess(t)
    <3>1. \A u \in Calls \ {t} : KeyOf(u)' = KeyOf(u) /\ pc'[u] = pc[u] /\ step'[u] = step[u]
        BY <2>9 DEF SettleSuccess, Goto, KeyOf
    <3>2. pc'[t] \in {"check", "done"}
        BY <2>9 DEF SettleSuccess, Goto
    <3>3. op' = op /\ op[KeyOf(t)] = "succeeded"
        BY <2>9 DEF SettleSuccess, worldVars
    <3>4. step'[t] = "second" => op[<<AgentOf[t], "first">>] = "succeeded"
        BY <2>9, <3>3 DEF SettleSuccess, KeyOf
    <3>5. CompletedIsTrue'
      <4>1. CASE step[t] = "first"
          BY <2>9, <3>3, <4>1 DEF SettleSuccess
      <4>2. CASE step[t] = "second"
        <5>1. \A s \in Steps : op[<<AgentOf[t], s>>] = "succeeded"
            BY <3>3, <4>2 DEF KeyOf
        <5>2. \A a \in Agents \ {AgentOf[t]} : agent'[a] = agent[a]
            BY <2>9, <4>2 DEF SettleSuccess
        <5> QED BY <3>3, <5>1, <5>2
      <4> QED BY <4>1, <4>2
    <3> QED BY <3>1, <3>2, <3>3, <3>4, <3>5
  <2>10. CASE SettleFailure(t)
      BY <2>a, <2>b, <2>10 DEF SettleFailure, Goto, SetStatus, KeepStatus, rowVars, callVars, worldVars
  <2>11. CASE Abort(t)
      BY <2>a, <2>b, <2>11 DEF Abort, Goto, rowVars, callVars, worldVars
  <2> QED BY <1>2, <2>1, <2>2, <2>3, <2>4, <2>5, <2>6, <2>7, <2>8, <2>9, <2>10, <2>11 DEF CallStep
<1>3. ASSUME NEW k \in Keys, OperationEnds(k) \/ LeaseLapses(k) \/ DeadlinePasses(k) PROVE CallInv'
  <2>1. \A a \in Agents, s \in Steps : <<a, s>> \in Keys
      BY DEF Keys
  <2>2. pc' = pc /\ step' = step /\ agent' = agent
      BY <1>3 DEF OperationEnds, LeaseLapses, DeadlinePasses, callVars
  <2>3. \A u \in Calls : KeyOf(u)' = KeyOf(u)
      BY <2>2 DEF KeyOf
  <2>4. \A u \in Calls : KeyOf(u) \in Keys /\ <<AgentOf[u], "first">> \in Keys
      BY DEF KeyOf, Keys
  <2>5. CompletedIsTrue'
      BY <1>s, <2>1, <2>2
  <2> QED BY <1>s, <2>2, <2>3, <2>4, <2>5
<1>4. CASE WatchdogScan
    BY <1>4 DEF WatchdogScan, Stale, Snapshot, Snapshots, rowVars, callVars, worldVars, KeyOf
<1>5. CASE WatchdogStep
  <2> PICK f \in found : (Reap(f) \/ VerifyEvidence(f)) /\ found' = found \ {f}
          /\ UNCHANGED <<owner, renewed, attempted, settlement, callVars, worldVars, agent, pending>>
      BY <1>5 DEF WatchdogStep
  <2>a. f.key \in Keys
      BY DEF TypeOK, Snapshots
  <2>1. CASE Reap(f)
      BY <2>a, <2>1 DEF Reap, SetStatus, KeepStatus, callVars, worldVars, KeyOf
  <2>2. CASE VerifyEvidence(f)
      BY <2>a, <2>2 DEF VerifyEvidence, SetStatus, KeepStatus, callVars, worldVars, KeyOf
  <2> QED BY <2>1, <2>2
<1>6. ASSUME NEW d \in Dispositions, CheckRequest(d) PROVE CallInv'
    BY <1>6 DEF CheckRequest, Requests, rowVars, callVars, worldVars, KeyOf
<1>7. CASE ApplyDisposition
  <2> PICK r \in pending : Apply(r)
          /\ UNCHANGED <<owner, renewed, attempted, callVars, worldVars, agent, found>>
      BY <1>7 DEF ApplyDisposition
  <2>a. r.key \in Keys /\ r.verdict \in Verdicts /\ r.id \in Dispositions
      BY DEF TypeOK, Requests
  <2> QED BY <2>a DEF Apply, SetStatus, KeepStatus, callVars, worldVars, KeyOf
<1> QED BY <1>1, <1>2, <1>3, <1>4, <1>5, <1>6, <1>7 DEF Next

(* Settlements stay true and decisions stay decided. *)
LEMMA RowStepKeepsResults ==
    ASSUME TypeOK, LeaseInv, WriteInv, CallInv, RowInv, [Next]_vars PROVE RowInv'
<1>1. CASE UNCHANGED <<status, settlement>>
    BY <1>1, SuccessStays DEF RowInv
<1>2. ASSUME NEW k \in Keys, RowMove(k), \A j \in Keys \ {k} : Untouched(j) PROVE RowInv'
  <2> SUFFICES ASSUME NEW j \in Keys
               PROVE  /\ settlement'[j] = "executor" => op'[j] = "succeeded"
                      /\ status'[j] = "settled" => settlement'[j] = "executor"
                      /\ settlement'[j] \in Dispositions => status'[j] \in Verdicts
      BY DEF RowInv
  <2>1. CASE j # k
      BY <1>2, <2>1, SuccessStays DEF RowInv, Untouched
  <2>2. CASE j = k
      BY <1>2, <2>2, SuccessStays, SideEffectsAssumption
         DEF RowMove, RowInv, CallInv, Verdicts, Timed
  <2> QED BY <2>1, <2>2
<1> QED BY <1>1, <1>2, RowMoves DEF RowStep

(* An intent becomes unresolved only while its target is free. *)
LEMMA TargetStep == ASSUME TypeOK, OneUnresolved, [Next]_vars PROVE OneUnresolved'
<1>1. CASE UNCHANGED <<status, settlement>>
    BY <1>1 DEF OneUnresolved
<1>2. ASSUME NEW k \in Keys, RowMove(k), \A j \in Keys \ {k} : Untouched(j)
      PROVE  OneUnresolved'
    BY <1>2 DEF RowMove, Untouched, OneUnresolved, TargetFree, Unresolved, Timed, Dispositioned
<1> QED BY <1>1, <1>2, RowMoves DEF RowStep

(* The invariant holds initially and is kept. *)
LEMMA LedgerInvariant == Spec => []LedgerInv
<1>1. Init => LedgerInv
  <2> SUFFICES ASSUME Init PROVE LedgerInv
      OBVIOUS
  <2>1. TypeOK
      BY SideEffectsAssumption DEF Init, TypeOK, Keys, Steps, Unresolved, Resolved,
         Dispositioned, Requests, Snapshots
  <2>2. LeaseInv /\ WriteInv
      BY SideEffectsAssumption DEF Init, LeaseInv, WriteInv, Holding
  <2>3. CallInv /\ RowInv /\ OneUnresolved
      BY SideEffectsAssumption DEF Init, CallInv, CompletedIsTrue, RowInv, OneUnresolved, Unresolved,
         Dispositioned
  <2> QED BY <2>1, <2>2, <2>3 DEF LedgerInv
<1>2. LedgerInv /\ [Next]_vars => LedgerInv'
    BY TypeStep, LeaseStep, WriteStep, CallStepKeepsResults, RowStepKeepsResults, TargetStep
       DEF LedgerInv
<1> QED BY <1>1, <1>2, PTL DEF Spec

-----------------------------------------------------------------------------
(* What the ledger guarantees                                              *)

(* The external operation of an effect is started at most once: whatever   *)
(* process_release_agent, its redeliveries and the watchdog do.            *)
THEOREM EffectWrittenOnce == Spec => []OneWritePerEffect
<1>1. LedgerInv => OneWritePerEffect
    BY DEF LedgerInv, WriteInv, OneWritePerEffect
<1> QED BY <1>1, LedgerInvariant, PTL

(* An executor's settlement records one successful write. *)
THEOREM SettlementIsTrue == Spec => []SettledIsTrue
<1>1. LedgerInv => SettledIsTrue
    BY DEF LedgerInv, WriteInv, RowInv, SettledIsTrue
<1> QED BY <1>1, LedgerInvariant, PTL

(* A completed execution made both of its writes. *)
THEOREM CompletionIsTrue == Spec => []CompletedIsTrue
<1>1. LedgerInv => CompletedIsTrue
    BY DEF LedgerInv, CallInv
<1> QED BY <1>1, LedgerInvariant, PTL

(* Two operations meet on a target only after an operator cleared one. *)
THEOREM OverlapNeedsOperator == Spec => []OverlapOnlyIfCleared
<1>1. LedgerInv => OverlapOnlyIfCleared
  <2> SUFFICES ASSUME LedgerInv, NEW j \in Keys, NEW k \in Keys, j # k,
                      TargetOf[j] = TargetOf[k], op[j] = "running", op[k] = "running"
               PROVE  "reconciled" \in {status[j], status[k]}
      BY DEF OverlapOnlyIfCleared
  <2>1. \A i \in {j, k} : status[i] \in Unresolved \cup {"reconciled"}
      BY DEF LedgerInv, TypeOK, LeaseInv, WriteInv, RowInv, Resolved
  <2> QED BY <2>1 DEF LedgerInv, OneUnresolved
<1> QED BY <1>1, LedgerInvariant, PTL

(* No step of a late executor or of the watchdog undoes a decision. *)
THEOREM DecisionIsFinal == Spec => DispositionStands
<1>1. LedgerInv /\ [Next]_vars => \A k \in Keys : settlement[k] \in Dispositions =>
          status'[k] = status[k] /\ settlement'[k] = settlement[k]
  <2> SUFFICES ASSUME LedgerInv, [Next]_vars, NEW k \in Keys, settlement[k] \in Dispositions
               PROVE  Untouched(k)
      BY DEF Untouched
  <2>1. status[k] \in Verdicts /\ settlement[k] # "none" /\ ~RowMove(k)
      BY SideEffectsAssumption DEF LedgerInv, RowInv, RowMove, Verdicts, Timed
  <2> QED BY <2>1, RowMoves DEF LedgerInv, RowStep, Untouched
<1> QED BY <1>1, LedgerInvariant, PTL DEF DispositionStands, Spec

-----------------------------------------------------------------------------
(* The refinement                                                          *)

(* The write of an effect is granted and used one step at a time, and      *)
(* neither step moves a row.                                               *)
LEMMA WriteMoves ==
    ASSUME TypeOK, LeaseInv, WriteInv, [Next]_vars
    PROVE  \/ UNCHANGED <<attempted, launches>>
           \/ /\ UNCHANGED <<status, launches>>
              /\ \E k \in Keys : /\ status[k] = "executing" /\ k \notin attempted
                                 /\ attempted' = attempted \cup {k}
           \/ /\ UNCHANGED <<status, attempted>>
              /\ \E k \in Keys : /\ k \in attempted /\ launches[k] = 0
                                 /\ launches' = [launches EXCEPT ![k] = @ + 1]
<1>a. \A t \in Calls : KeyOf(t) \in Keys
    BY SideEffectsAssumption DEF KeyOf, Keys, TypeOK
<1>1. ASSUME NEW t \in Calls, MarkWriteStarted(t)
      PROVE  \/ UNCHANGED <<attempted, launches>>
             \/ /\ UNCHANGED <<status, launches>>
                /\ \E k \in Keys : /\ status[k] = "executing" /\ k \notin attempted
                                   /\ attempted' = attempted \cup {k}
    BY <1>a, <1>1 DEF MarkWriteStarted, worldVars
<1>2. ASSUME NEW t \in Calls, Launch(t)
      PROVE  /\ UNCHANGED <<status, attempted>>
             /\ \E k \in Keys : /\ k \in attempted /\ launches[k] = 0
                                /\ launches' = [launches EXCEPT ![k] = @ + 1]
    BY <1>a, <1>2 DEF Launch, WriteInv, rowVars
<1> QED BY <1>1, <1>2 DEF Next, CallStep, Abort, Begin, Check, Insert, AcquireLease, Renew,
           Collect, SettleSuccess, SettleFailure, OperationEnds, LeaseLapses, DeadlinePasses,
           WatchdogScan, WatchdogStep, CheckRequest, ApplyDisposition, vars, rowVars, worldVars

(* The ledger implements ReleaseLedger: a row is recorded while its target *)
(* is free, granted while unresolved, written once per grant, resolved by  *)
(* its executor or an operator, and reopened only after its write.         *)
THEOREM LedgerKeepsPromise == Spec => KeepsPromise
<1>1. Init => Promise!Init
    BY DEF Init, Promise!Init, EffectOf, Unresolved, Dispositioned
<1>2. LedgerInv /\ [Next]_vars => [Promise!Next]_(Promise!ledger)
  <2> SUFFICES ASSUME LedgerInv, [Next]_vars, ~UNCHANGED Promise!ledger PROVE Promise!Next
      OBVIOUS
  <2> DEFINE effect == [k \in Keys |-> EffectOf(status[k])]
  <2>1. CASE UNCHANGED <<attempted, launches>>
    <3>1. ~UNCHANGED status
        BY <2>1 DEF Promise!ledger
    <3>2. PICK k \in Keys : RowMove(k) /\ \A j \in Keys \ {k} : Untouched(j)
        BY <3>1, RowMoves DEF LedgerInv, RowStep
    <3>3. \A j \in Keys \ {k} : EffectOf(status'[j]) = EffectOf(status[j])
        BY <3>2 DEF Untouched
    <3>4. EffectOf(status'[k]) # EffectOf(status[k])
        BY <2>1, <3>3 DEF Promise!ledger
    <3>5. effect' = [effect EXCEPT ![k] = EffectOf(status'[k])]
        BY <3>3
    <3>6. TargetFree(k) => Promise!Free(k)
        BY DEF TargetFree, Promise!Free, EffectOf, LedgerInv, TypeOK, Unresolved, Resolved
    <3>7. \/ Promise!Record(k) \/ Promise!Resolve(k) \/ Promise!Reopen(k)
      <4>1. CASE status[k] = "absent"
          BY <2>1, <3>2, <3>5, <3>6, <4>1
             DEF RowMove, EffectOf, Unresolved, Dispositioned, Timed, Promise!Record
      <4>2. CASE status[k] = "settled"
        <5>1. launches[k] = 1
            BY <4>2 DEF LedgerInv, RowInv, WriteInv
        <5> QED BY <2>1, <3>2, <3>5, <3>6, <4>2, <5>1
               DEF RowMove, EffectOf, Unresolved, Dispositioned, Timed, Promise!Reopen
      <4>3. CASE status[k] \in Unresolved
          BY <2>1, <3>2, <3>4, <3>5, <4>3
             DEF RowMove, EffectOf, Unresolved, Dispositioned, Timed, Verdicts, Promise!Resolve
      <4> QED BY <3>2, <4>1, <4>2, <4>3
             DEF RowMove, Unresolved, Dispositioned, Timed
    <3> QED BY <3>7 DEF Promise!Next
  <2>2. ASSUME UNCHANGED <<status, launches>>, NEW k \in Keys, status[k] = "executing",
               k \notin attempted, attempted' = attempted \cup {k}
        PROVE  Promise!Next
    <3>1. Promise!Grant(k)
        BY <2>2 DEF Promise!Grant, EffectOf, Unresolved
    <3> QED BY <3>1 DEF Promise!Next
  <2>3. ASSUME UNCHANGED <<status, attempted>>, NEW k \in Keys, k \in attempted,
               launches[k] = 0, launches' = [launches EXCEPT ![k] = @ + 1]
        PROVE  Promise!Next
    <3>1. Promise!Write(k)
        BY <2>3 DEF Promise!Write
    <3> QED BY <3>1 DEF Promise!Next
  <2> QED BY <2>1, <2>2, <2>3, WriteMoves DEF LedgerInv
<1> QED BY <1>1, <1>2, LedgerInvariant, PTL DEF Spec, KeepsPromise, Promise!Spec

=============================================================================
