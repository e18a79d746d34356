---------------------------- MODULE SideEffects ----------------------------
(***************************************************************************)
(* The durable side-effect ledger and the actors that meet in it: the      *)
(* calls of process_release_agent, each performing two external writes in  *)
(* a row (commit then push, or archive then upload), the watchdog pass,    *)
(* and the operators' dispositions.                                        *)
(*                                                                         *)
(* An effect row is identified by its idempotency key, which the code      *)
(* derives from the agent execution and the target.  Two calls of one      *)
(* agent execution (a redelivered item) share their keys; the executions   *)
(* of a retried stage do not, but push to the same branch.  Any call may   *)
(* start at any time: the preflights of retry, cancel and advance only     *)
(* read the ledger and make fewer calls start.                             *)
(*                                                                         *)
(* Time is kept as two facts of a row: its lease lapsed, its deadline      *)
(* passed.  lease_renewed_at is the number of renewals.  Left out: the     *)
(* status externally_observed, which no code writes; attempt rows,         *)
(* evidence contents and metrics; the scan's LIMIT of 100 rows.            *)
(***************************************************************************)
EXTENDS Integers, FiniteSets

CONSTANTS
    Agents,       \* the release agent executions of one run
    Calls,        \* calls of process_release_agent, each its own owner_instance_id
    NoCall,       \* owner_instance_id IS NULL
    AgentOf,      \* the agent execution each call works for
    Targets,      \* target keys
    TargetOf,     \* the target of each effect
    Dispositions, \* disposition ids of operator requests
    MaxRenewals   \* bound: lease renewals per effect

Steps == {"first", "second"}
Keys == Agents \X Steps

ASSUME SideEffectsAssumption ==
    /\ AgentOf \in [Calls -> Agents] /\ TargetOf \in [Keys -> Targets]
    /\ NoCall \notin Calls /\ MaxRenewals \in Nat
    /\ "none" \notin Dispositions /\ "executor" \notin Dispositions

VARIABLES
    status,     \* SideEffect.status of each key, "absent" without a row
    owner,      \* owner_instance_id
    renewed,    \* lease_renewed_at
    lapsed,     \* executing rows whose lease_expires_at has passed
    overdue,    \* prepared or executing rows whose deadline_at has passed
    attempted,  \* rows with external_write_attempted
    settlement, \* the row of side_effect_settlements: "none", "executor" or
                \* the disposition id
    pc,         \* where each call stands
    step,       \* which of its two effects it works on
    seen,       \* ExecutorLease.lease_renewed_at
    op,         \* the external operation of each key
    launches,   \* how often it was started
    agent,      \* the agent execution: "running", "completed" or "failed"
    found,      \* the row the watchdog pass has listed and not yet handled
    pending     \* operator requests past their handler's check

rowVars == <<status, owner, renewed, lapsed, overdue, attempted, settlement>>
callVars == <<pc, step, seen>>
worldVars == <<op, launches>>
vars == <<rowVars, callVars, worldVars, agent, found, pending>>

Dispositioned == {"needs_reconciliation", "conflict", "unrecoverable"}
Unresolved == {"prepared", "executing"} \cup Dispositioned
Resolved == {"settled", "reconciled"}
Verdicts == {"conflict", "unrecoverable", "reconciled"}
Snapshots == [key : Keys, status : {"prepared", "executing", "settled"},
              owner : Calls \cup {NoCall}, renewed : Nat]
Requests == [id : Dispositions, key : Keys, verdict : Verdicts]

TypeOK ==
    /\ status \in [Keys -> {"absent"} \cup Unresolved \cup Resolved]
    /\ owner \in [Keys -> Calls \cup {NoCall}]
    /\ renewed \in [Keys -> Nat]
    /\ lapsed \subseteq Keys /\ overdue \subseteq Keys /\ attempted \subseteq Keys
    /\ settlement \in [Keys -> {"none", "executor"} \cup Dispositions]
    /\ pc \in [Calls -> {"idle", "check", "insert", "lease",
                         "mark", "launch", "running", "settling", "failing", "done"}]
    /\ step \in [Calls -> Steps] /\ seen \in [Calls -> Nat]
    /\ op \in [Keys -> {"none", "running", "succeeded", "failed"}]
    /\ launches \in [Keys -> Nat]
    /\ agent \in [Agents -> {"running", "completed", "failed"}]
    /\ found \subseteq Snapshots
    /\ pending \subseteq Requests

Init ==
    /\ status = [k \in Keys |-> "absent"] /\ owner = [k \in Keys |-> NoCall]
    /\ renewed = [k \in Keys |-> 0]
    /\ lapsed = {} /\ overdue = {} /\ attempted = {}
    /\ settlement = [k \in Keys |-> "none"]
    /\ pc = [t \in Calls |-> "idle"] /\ step = [t \in Calls |-> "first"]
    /\ seen = [t \in Calls |-> 0]
    /\ op = [k \in Keys |-> "none"] /\ launches = [k \in Keys |-> 0]
    /\ agent = [a \in Agents |-> "running"]
    /\ found = {}
    /\ pending = {}

KeyOf(t) == <<AgentOf[t], step[t]>>
Goto(t, label) == pc' = [pc EXCEPT ![t] = label]
Timed == {"prepared", "executing"}

(* No statement looks at the times of a row in another status. *)
SetStatus(k, s) ==
    /\ status' = [status EXCEPT ![k] = s]
    /\ lapsed' = IF s \in Timed THEN lapsed ELSE lapsed \ {k}
    /\ overdue' = IF s \in Timed THEN overdue ELSE overdue \ {k}
KeepStatus == UNCHANGED <<status, lapsed, overdue>>

(* The partial unique index on (run_id, target_key). *)
TargetFree(k) ==
    \A j \in Keys \ {k} : TargetOf[j] = TargetOf[k] => status[j] \notin Unresolved

-----------------------------------------------------------------------------
(* A call of process_release_agent                                         *)

(* Its preconditions (delivery configuration, worktree) may fail the       *)
(* execution before the ledger is met.                                     *)
Begin(t) ==
    /\ pc[t] = "idle"
    /\ \/ Goto(t, "check") /\ UNCHANGED agent
       \/ Goto(t, "done") /\ agent' = [agent EXCEPT ![AgentOf[t]] = "failed"]
    /\ UNCHANGED <<rowVars, step, seen, worldVars, found, pending>>

(* find_by_idempotency_key, then list_unresolved_by_run_and_target_key: a  *)
(* key that has a row is refused whatever became of it, and so is a target *)
(* with an unresolved intent.                                              *)
Check(t) ==
    /\ pc[t] = "check"
    /\ Goto(t, IF status[KeyOf(t)] = "absent" /\ TargetFree(KeyOf(t)) THEN "insert" ELSE "done")
    /\ UNCHANGED <<rowVars, step, seen, worldVars, agent, found, pending>>

(* mutant: the intent is inserted as the two reads left it *)
InsertUnchecked(t) ==
    LET k == KeyOf(t)
    IN  /\ pc[t] = "insert"
        /\ IF status[k] = "absent"
           THEN SetStatus(k, "prepared") /\ Goto(t, "lease")
           ELSE KeepStatus /\ Goto(t, "done")
        /\ UNCHANGED <<owner, renewed, attempted, settlement,
                       step, seen, worldVars, agent, found, pending>>

(* mutant: a consumed key is prepared again *)
InsertAgain(t) ==
    LET k == KeyOf(t)
    IN  /\ pc[t] = "insert"
        /\ IF status[k] \notin Unresolved /\ TargetFree(k)
           THEN /\ SetStatus(k, "prepared") /\ Goto(t, "lease")
                /\ attempted' = attempted \ {k}
                /\ settlement' = [settlement EXCEPT ![k] = "none"]
           ELSE KeepStatus /\ UNCHANGED <<attempted, settlement>> /\ Goto(t, "done")
        /\ UNCHANGED <<owner, renewed, step, seen, worldVars,
                       agent, found, pending>>

(* side_effects::insert under both unique indexes; the row may have        *)
(* appeared since the reads.                                               *)
Insert(t) ==
    LET k == KeyOf(t)
    IN  /\ pc[t] = "insert"
        /\ IF status[k] = "absent" /\ TargetFree(k)
           THEN SetStatus(k, "prepared") /\ Goto(t, "lease")
           ELSE KeepStatus /\ Goto(t, "done")
        /\ UNCHANGED <<owner, renewed, attempted, settlement,
                       step, seen, worldVars, agent, found, pending>>

(* executor_start_cas: the lease, and a deadline counted from now *)
AcquireLease(t) ==
    LET k == KeyOf(t)
    IN  /\ pc[t] = "lease"
        /\ IF status[k] = "prepared" /\ k \notin attempted
           THEN /\ status' = [status EXCEPT ![k] = "executing"]
                /\ owner' = [owner EXCEPT ![k] = t]
                /\ seen' = [seen EXCEPT ![t] = renewed[k]]
                /\ overdue' = overdue \ {k}
                /\ Goto(t, "mark")
           ELSE UNCHANGED <<status, owner, seen, overdue>> /\ Goto(t, "done")
        /\ UNCHANGED <<renewed, lapsed, attempted, settlement, step, worldVars,
                       agent, found, pending>>

(* mutant: ownership is checked, the status is not *)
MarkByOwner(t) ==
    LET k == KeyOf(t)
    IN  /\ pc[t] = "mark"
        /\ IF owner[k] = t /\ k \notin attempted
           THEN attempted' = attempted \cup {k} /\ Goto(t, "launch")
           ELSE UNCHANGED attempted /\ Goto(t, "done")
        /\ UNCHANGED <<status, owner, renewed, lapsed, overdue, settlement,
                       step, seen, worldVars, agent, found, pending>>

(* mark_external_write_started: ownership, not the lease's life, decides. *)
MarkWriteStarted(t) ==
    LET k == KeyOf(t)
    IN  /\ pc[t] = "mark"
        /\ IF /\ status[k] = "executing" /\ owner[k] = t
              /\ k \notin attempted /\ settlement[k] = "none"
           THEN attempted' = attempted \cup {k} /\ Goto(t, "launch")
           ELSE UNCHANGED attempted /\ Goto(t, "done")
        /\ UNCHANGED <<status, owner, renewed, lapsed, overdue, settlement,
                       step, seen, worldVars, agent, found, pending>>

(* The first poll of the operation inside run_with_lease_renewal. *)
Launch(t) ==
    LET k == KeyOf(t)
    IN  /\ pc[t] = "launch"
        /\ op' = [op EXCEPT ![k] = "running"]
        /\ launches' = [launches EXCEPT ![k] = @ + 1]
        /\ Goto(t, "running")
        /\ UNCHANGED <<rowVars, step, seen, agent, found, pending>>

(* The operation is a child process run by spawn_blocking: it goes on when *)
(* its call is dropped.                                                    *)
OperationEnds(k) ==
    /\ op[k] = "running"
    /\ \E outcome \in {"succeeded", "failed"} : op' = [op EXCEPT ![k] = outcome]
    /\ UNCHANGED <<rowVars, callVars, launches, agent, found, pending>>

(* mutant: a lost renewal ends the wait like a result does *)
RenewOrGoOn(t) ==
    LET k == KeyOf(t)
    IN  /\ pc[t] = "running"
        /\ k \in lapsed \/ status[k] # "executing"
        /\ Goto(t, "settling")
        /\ UNCHANGED <<rowVars, step, seen, worldVars, agent, found, pending>>

(* renew_lease, every half lease; a lost renewal is an error of the call. *)
Renew(t) ==
    LET k == KeyOf(t)
    IN  /\ pc[t] = "running"
        /\ \/ /\ status[k] = "executing" /\ owner[k] = t /\ k \notin lapsed
              /\ renewed[k] < MaxRenewals
              /\ renewed' = [renewed EXCEPT ![k] = @ + 1]
              /\ seen' = [seen EXCEPT ![t] = renewed[k] + 1]
              /\ UNCHANGED pc
           \/ /\ ~(status[k] = "executing" /\ owner[k] = t /\ k \notin lapsed)
              /\ Goto(t, "failing")
              /\ UNCHANGED <<renewed, seen>>
        /\ UNCHANGED <<status, owner, lapsed, overdue, attempted, settlement,
                       step, worldVars, agent, found, pending>>

(* mutant: an operation that failed is settled like one that succeeded *)
CollectAnything(t) ==
    /\ pc[t] = "running" /\ op[KeyOf(t)] \in {"succeeded", "failed"}
    /\ Goto(t, "settling")
    /\ UNCHANGED <<rowVars, step, seen, worldVars, agent, found, pending>>

(* The operation's result reaches the call. *)
Collect(t) ==
    /\ pc[t] = "running" /\ op[KeyOf(t)] \in {"succeeded", "failed"}
    /\ Goto(t, IF op[KeyOf(t)] = "succeeded" THEN "settling" ELSE "failing")
    /\ UNCHANGED <<rowVars, step, seen, worldVars, agent, found, pending>>

(* executor_settle_cas_tx.  The second effect passes the time its call     *)
(* began as now, so its lease always counts as live.                       *)
CanSettle(t, k) ==
    /\ owner[k] = t /\ status[k] = "executing" /\ settlement[k] = "none"
    /\ renewed[k] = seen[t]
    /\ step[t] = "first" => k \notin lapsed

(* The success transaction.  The result of its compare-and-set is not      *)
(* looked at: the call goes on to its second effect, or completes.         *)
SettleSuccess(t) ==
    LET k == KeyOf(t)
    IN  /\ pc[t] = "settling"
        /\ IF CanSettle(t, k)
           THEN SetStatus(k, "settled") /\ settlement' = [settlement EXCEPT ![k] = "executor"]
           ELSE KeepStatus /\ UNCHANGED settlement
        /\ IF step[t] = "first"
           THEN Goto(t, "check") /\ step' = [step EXCEPT ![t] = "second"] /\ UNCHANGED agent
           ELSE /\ Goto(t, "done") /\ UNCHANGED step
                /\ agent' = [agent EXCEPT ![AgentOf[t]] = "completed"]
        /\ UNCHANGED <<owner, renewed, attempted, seen,
                       worldVars, found, pending>>

(* The failure transaction, with executor_fail_cas_tx in it. *)
SettleFailure(t) ==
    LET k == KeyOf(t)
    IN  /\ pc[t] = "failing"
        /\ IF status[k] = "executing" /\ owner[k] = t /\ renewed[k] = seen[t]
           THEN SetStatus(k, "needs_reconciliation")
           ELSE KeepStatus
        /\ agent' = [agent EXCEPT ![AgentOf[t]] = "failed"]
        /\ Goto(t, "done")
        /\ UNCHANGED <<owner, renewed, attempted, settlement,
                       step, seen, worldVars, found, pending>>

(* The daemon crashes, or an error leaves the call between its steps: an   *)
(* artifact or evidence file cannot be written, a transaction fails.       *)
Abort(t) ==
    /\ pc[t] \notin {"idle", "done"}
    /\ Goto(t, "done")
    /\ UNCHANGED <<rowVars, step, seen, worldVars, agent, found, pending>>

-----------------------------------------------------------------------------
(* Time                                                                    *)

LeaseLapses(k) ==
    /\ status[k] = "executing" /\ k \notin lapsed
    /\ lapsed' = lapsed \cup {k}
    /\ UNCHANGED <<status, owner, renewed, overdue, attempted, settlement,
                   callVars, worldVars, agent, found, pending>>

(* Every kind's deadline is longer than its lease, so an executing row     *)
(* whose deadline passed was renewed or lapsed; once it lapsed the         *)
(* deadline tells nothing more.                                            *)
DeadlinePasses(k) ==
    /\ k \notin overdue
    /\ \/ status[k] = "prepared"
       \/ status[k] = "executing" /\ k \notin lapsed /\ renewed[k] > 0
    /\ overdue' = overdue \cup {k}
    /\ UNCHANGED <<status, owner, renewed, lapsed, attempted, settlement,
                   callVars, worldVars, agent, found, pending>>

-----------------------------------------------------------------------------
(* The watchdog pass                                                       *)

(* mutant: the scan lists every unresolved row *)
StaleAny(k) == status[k] \in Unresolved

(* list_watchdog_recovery_candidates: a settled row has its evidence summary. *)
Stale(k) ==
    \/ status[k] = "executing" /\ (k \in lapsed \/ k \in overdue)
    \/ status[k] = "prepared" /\ k \in overdue
    \/ status[k] = "settled"

Snapshot(k) == [key |-> k, status |-> status[k], owner |-> owner[k], renewed |-> renewed[k]]

(* The pass handles the rows it listed one by one, each by a compare-and-  *)
(* set on what it listed of that row; one row at a time says as much.      *)
WatchdogScan ==
    /\ found = {}
    /\ \E k \in {j \in Keys : Stale(j)} : found' = {Snapshot(k)}
    /\ UNCHANGED <<rowVars, callVars, worldVars, agent, pending>>

(* mutant: the reaper trusts what the scan saw *)
ReapBlindly(f) ==
    /\ f.status \in {"executing", "prepared"}
    /\ SetStatus(f.key, "needs_reconciliation")

(* reaper_transition_cas.  A row that kept its owner and lease_renewed_at  *)
(* kept its expiry too, and a prepared row its deadline.                   *)
Reap(f) ==
    /\ f.status \in {"executing", "prepared"}
    /\ IF /\ status[f.key] = f.status
          /\ f.status = "executing" => /\ owner[f.key] = f.owner
                                       /\ renewed[f.key] = f.renewed
       THEN SetStatus(f.key, "needs_reconciliation")
       ELSE KeepStatus

(* mark_settled_evidence_failed: the settlement row stays.  When another   *)
(* intent took the target the unique index refuses the update and the row  *)
(* stays settled.                                                          *)
VerifyEvidence(f) ==
    /\ f.status = "settled"
    /\ \/ KeepStatus
       \/ /\ status[f.key] = "settled" /\ TargetFree(f.key)
          /\ SetStatus(f.key, "needs_reconciliation")

WatchdogStep ==
    \E f \in found :
        /\ Reap(f) \/ VerifyEvidence(f)
        /\ found' = found \ {f}
        /\ UNCHANGED <<owner, renewed, attempted, settlement,
                       callVars, worldVars, agent, pending>>

-----------------------------------------------------------------------------
(* Operator dispositions                                                   *)

(* What each effects.* handler asks of the row before its write unit. *)
Permitted(verdict, s) ==
    CASE verdict = "conflict" -> s = "needs_reconciliation"
      [] verdict = "unrecoverable" -> s \in Dispositioned
      [] verdict = "reconciled" -> s \in Unresolved

(* A request that fails this check leaves no trace. *)
CheckRequest(d) ==
    /\ \A r \in pending : r.id # d
    /\ \A k \in Keys : settlement[k] # d
    /\ \E k \in {j \in Keys : status[j] \in Unresolved}, verdict \in Verdicts :
           /\ Permitted(verdict, status[k])
           /\ pending' = pending \cup {[id |-> d, key |-> k, verdict |-> verdict]}
    /\ UNCHANGED <<rowVars, callVars, worldVars, agent, found>>

(* apply_operator_disposition_tx.  A row that has a settlement takes no    *)
(* second one.  A resent request finds its own disposition id and changes  *)
(* nothing.                                                                *)
Apply(r) ==
    /\ pending' = pending \ {r}
    /\ IF settlement[r.key] = "none" /\ status[r.key] \in Dispositioned
       THEN /\ SetStatus(r.key, r.verdict)
            /\ settlement' = [settlement EXCEPT ![r.key] = r.id]
       ELSE KeepStatus /\ UNCHANGED settlement

ApplyDisposition ==
    \E r \in pending :
        /\ Apply(r)
        /\ UNCHANGED <<owner, renewed, attempted, callVars,
                       worldVars, agent, found>>

-----------------------------------------------------------------------------
CallStep(t) ==
    \/ Begin(t) \/ Check(t) \/ Insert(t) \/ AcquireLease(t)
    \/ MarkWriteStarted(t) \/ Launch(t) \/ Renew(t) \/ Collect(t)
    \/ SettleSuccess(t) \/ SettleFailure(t)

Next ==
    \/ \E t \in Calls : CallStep(t) \/ Abort(t)
    \/ \E k \in Keys : OperationEnds(k) \/ LeaseLapses(k) \/ DeadlinePasses(k)
    \/ WatchdogScan \/ WatchdogStep
    \/ \E d \in Dispositions : CheckRequest(d)
    \/ ApplyDisposition

Spec == Init /\ [][Next]_vars

-----------------------------------------------------------------------------
(* Properties                                                              *)

(* prepare_effect, mark_write_started: whatever is redelivered, aborted or *)
(* reconciled, the external operation of an effect row is started at most  *)
(* once.                                                                   *)
OneWritePerEffect == \A k \in Keys : launches[k] <= 1

(* run_with_lease_renewal, the unique index on the target: two operations  *)
(* on one target run at once only after an operator cleared one of their   *)
(* effects, because a dropped call leaves its child process running.       *)
OverlapOnlyIfCleared ==
    \A j, k \in Keys :
        (j # k /\ TargetOf[j] = TargetOf[k] /\ op[j] = "running" /\ op[k] = "running")
            => "reconciled" \in {status[j], status[k]}

(* executor_settle_cas_tx: an effect settled by its executor was written   *)
(* once, successfully, whatever its lease went through.                    *)
SettledIsTrue ==
    \A k \in Keys : settlement[k] = "executor" => op[k] = "succeeded" /\ launches[k] = 1

(* process_release_agent: an execution recorded as completed made both of  *)
(* its external writes, also when the ledger refused to settle one.        *)
CompletedIsTrue ==
    \A a \in Agents : agent[a] = "completed" =>
        \A s \in Steps : op[<<a, s>>] = "succeeded"

(* apply_operator_disposition_tx against reaper_transition_cas and the     *)
(* executor's late transactions: what an operator decided stands.          *)
DispositionStands ==
    [][\A k \in Keys : settlement[k] \in Dispositions =>
           status'[k] = status[k] /\ settlement'[k] = settlement[k]]_vars

(* The ledger keeps the promises of ReleaseLedger. *)
EffectOf(s) ==
    CASE s = "absent" -> "absent" [] s \in Unresolved -> "unresolved" [] OTHER -> "resolved"

Promise == INSTANCE ReleaseLedger WITH
    effect <- [k \in Keys |-> EffectOf(status[k])],
    granted <- attempted,
    writes <- launches

KeepsPromise == Promise!Spec
=============================================================================
