---------------------------- MODULE InvokeStore ----------------------------
(***************************************************************************)
(* The rows of the SQLite store that decide who owns an InvokeAgent work   *)
(* item: work_items, agent_executions with their runtime facts,            *)
(* artifact_source_generation_claims, host_interruption_affected_          *)
(* executions, startup_repairs and the P080 heartbeats, for the work items *)
(* of one fanned-out stage of one run.  Every write transaction is an      *)
(* IMMEDIATE one behind a single writer, so each is one atomic step.       *)
(*                                                                         *)
(* Work items are numbered in creation order.  The k-th execution of item  *)
(* i is the pair <<i, k>>; the code draws a fresh UUID instead.            *)
(***************************************************************************)
EXTENDS Integers, FiniteSets

CONSTANTS
    NItems,      \* how many InvokeAgent items the stage fans out to
    MaxClaims,   \* bound: executions an item may ever get
    MaxActive,   \* capacity: running executions admitted at a time
    PromptCloseMax, \* ACTIVE_PROMPT_CLOSE_AUTO_RECOVERY_MAX_ATTEMPTS
    Faults,      \* the kinds of fault the environment may inject
    MaxFaults    \* bound: how many of them in a behaviour

FaultKinds == {"prompt_closed", "provider_capacity", "provider_error",
               "worker_error", "transient", "p080", "host", "cleanup_failed",
               "crash", "cancel"}

ASSUME ConstantsAssumption ==
    /\ NItems \in Nat \ {0} /\ MaxClaims \in Nat \ {0}
    /\ MaxActive \in Nat \ {0} /\ PromptCloseMax \in Nat /\ MaxFaults \in Nat
    /\ Faults \subseteq FaultKinds

Items == 1..NItems
Execs == Items \X (1..MaxClaims)
NoExec == <<0, 0>>
Item(e) == e[1]

VARIABLES
    status,       \* work_items.status of each item
    claim,        \* payload_json.p058_claimed.agent_execution_id, or NoExec
    attempts,     \* work_items.attempt_count
    advance,      \* items i whose advance-after-invoke:{i} row was inserted
    execStatus,   \* agent_executions.status; "none" before the insert
    valid,        \* runtime facts prove valid required outputs
    active,       \* executions whose outputs became active contracts
    claimState,   \* artifact_source_generation_claims.claim_state
    supersededBy, \* ... superseded_by_agent_execution_id
    hostRow,      \* host_interruption_affected_executions.settlement_status
    stale,        \* items with a stale_suspected P080 heartbeat
    run,          \* runs.status, as far as cancellation is concerned
    faults        \* how many faults were injected (bound of the model)

itemVars == <<status, claim, attempts, advance>>
execVars == <<execStatus, valid, active>>
claimVars == <<claimState, supersededBy>>
repairVars == <<stale, run>>
storeVars == <<itemVars, execVars, claimVars, hostRow, repairVars, faults>>

Terminal == {"completed", "failed", "cancelled"}
ItemStates == {"pending", "running"} \cup Terminal
ExecStates == {"none", "running"} \cup Terminal
ClaimStates == {"none", "active", "closed", "superseded_pending_retry",
                "superseded"}

(* retry_enqueued also stands for retry_deferred_capacity: the two differ  *)
(* in when the retry is scheduled, and every reader accepts both alike.    *)
HostStates == {"none", "cleanup_pending", "retry_enqueued",
               "retry_missing_work_item", "retry_deferred_cleanup_failed",
               "retry_recovered_on_startup"}

StoreTypeOK ==
    /\ status \in [Items -> ItemStates]
    /\ claim \in [Items -> Execs \cup {NoExec}]
    /\ attempts \in [Items -> Nat]
    /\ advance \subseteq Items
    /\ execStatus \in [Execs -> ExecStates]
    /\ valid \in [Execs -> BOOLEAN]
    /\ active \subseteq Execs
    /\ claimState \in [Execs -> ClaimStates]
    /\ supersededBy \in [Execs -> Execs \cup {NoExec}]
    /\ hostRow \in [Execs -> HostStates]
    /\ stale \subseteq Items
    /\ run \in {"running", "cancelling", "cancelled"}
    /\ faults \in Nat

(* The stage has just been fanned out: every item is pending, unclaimed.   *)
StoreInit ==
    /\ status = [i \in Items |-> "pending"]
    /\ claim = [i \in Items |-> NoExec]
    /\ attempts = [i \in Items |-> 0]
    /\ advance = {}
    /\ execStatus = [e \in Execs |-> "none"]
    /\ valid = [e \in Execs |-> FALSE]
    /\ active = {}
    /\ claimState = [e \in Execs |-> "none"]
    /\ supersededBy = [e \in Execs |-> NoExec]
    /\ hostRow = [e \in Execs |-> "none"]
    /\ stale = {}
    /\ run = "running"
    /\ faults = 0

(* Environment: one more fault of the given kind, if the instance has it.  *)
Fault(kind) == /\ kind \in Faults
               /\ faults < MaxFaults
               /\ faults' = faults + 1

-----------------------------------------------------------------------------
(* Fences: what a write transaction reads before it touches an attempt.    *)

RunningExecs == {e \in Execs : execStatus[e] = "running"}

(* host_interruption_cleanup_holds_attempt_tx *)
CleanupHolds(e) == hostRow[e] = "cleanup_pending"

(* host_interruption_owns_attempt_tx *)
HostOwns(e) == hostRow[e] # "none"

(* host_interruption_retry_supersedes_claim_tx *)
HostRetrySupersedes(e) ==
    /\ claimState[e] \in {"superseded_pending_retry", "superseded"}
    /\ hostRow[e] = "retry_enqueued"

(* The running item's payload names e. *)
OwnsItem(e) == status[Item(e)] = "running" /\ claim[Item(e)] = e

(* mutants: the owner is not compared, the host cleanup hold not consulted *)
AnyRunningAttempt(e) == status[Item(e)] = "running"
MatchesIgnoringHold(e) == OwnsItem(e) /\ execStatus[e] # "cancelled"

(* matches_work_item_attempt_tx with an expected execution *)
MatchesAttempt(e) == /\ OwnsItem(e)
                     /\ execStatus[e] # "cancelled"
                     /\ ~CleanupHolds(e)

(* mutant: a settled execution is proof enough *)
ProvesSettled(i) == claim[i] # NoExec /\ execStatus[claim[i]] # "cancelled"

(* validate_running_invoke_completion_has_valid_outputs_tx *)
ProvesOutputs(i) ==
    LET e == claim[i]
    IN  /\ e # NoExec
        /\ execStatus[e] \in {"running", "completed", "failed"}
        /\ claimState[e] \in {"active", "closed"}
        /\ valid[e]

-----------------------------------------------------------------------------
(* Updates shared by several transactions.                                 *)

(* mutant: the source claim of the old attempt stays active *)
RequeueKeepingClaim(R) ==
    /\ status' = [i \in Items |->
           IF status[i] = "running" /\ claim[i] \in R THEN "pending" ELSE status[i]]
    /\ claim' = [i \in Items |->
           IF status[i] = "running" /\ claim[i] \in R THEN NoExec ELSE claim[i]]
    /\ UNCHANGED claimState

(* Requeue the running items owned by the executions in R: pending, the    *)
(* preclaim stripped, an active source claim superseded pending retry.     *)
RequeueStripped(R) ==
    /\ status' = [i \in Items |->
           IF status[i] = "running" /\ claim[i] \in R THEN "pending" ELSE status[i]]
    /\ claim' = [i \in Items |->
           IF status[i] = "running" /\ claim[i] \in R THEN NoExec ELSE claim[i]]
    /\ claimState' = [e \in Execs |->
           IF e \in R /\ claimState[e] = "active" THEN "superseded_pending_retry"
                                                  ELSE claimState[e]]

(* supersede_abandoned_preclaim_for_retry_tx: its execution half *)
CancelIfRunning(R) ==
    [e \in Execs |-> IF e \in R /\ execStatus[e] = "running" THEN "cancelled"
                                                             ELSE execStatus[e]]

(* mutant: a state of another table is written *)
CloseClaimAsCompleted(e) == claimState' = [claimState EXCEPT ![e] = "completed"]

(* close_source_generation_claim_tx *)
CloseClaim(e) ==
    claimState' = IF claimState[e] = "active"
                  THEN [claimState EXCEPT ![e] = "closed"] ELSE claimState

(* complete_attempt_with_capacity once its fence passed: a running item    *)
(* needs proof of outputs (the caller's guard), settles its execution and  *)
(* claim and schedules AdvanceRun; a pending item is just completed.       *)
CompleteItem(i) ==
    /\ status' = [status EXCEPT ![i] = "completed"]
    /\ IF status[i] = "running"
       THEN /\ advance' = advance \cup {i}
            /\ execStatus' = [execStatus EXCEPT
                   ![claim[i]] = IF @ = "running" THEN "completed" ELSE @]
            /\ CloseClaim(claim[i])
       ELSE UNCHANGED <<advance, execStatus, claimState>>
    /\ UNCHANGED <<claim, attempts, valid, active, supersededBy>>

(* fail_attempt_with_capacity once its fence passed *)
FailItem(i) ==
    /\ status' = [status EXCEPT ![i] = "failed"]
    /\ advance' = advance \cup {i}
    /\ UNCHANGED <<claim, attempts>>
=============================================================================
