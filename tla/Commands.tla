------------------------------ MODULE Commands ------------------------------
(***************************************************************************)
(* How a command that is sent again, twice at once, or again after a crash *)
(* takes effect once.  There are two schemes, and a call uses one of them: *)
(*                                                                         *)
(*  - lifecycle commands (runs.retry, stages.retry, runs.cancel,           *)
(*    approvals.resolve) carry a request id and take a lease on it, in     *)
(*    command_idempotency, in the transaction that applies them.  Reads    *)
(*    outside that transaction replay an earlier outcome, of the same      *)
(*    request or of another request with the same intent;                  *)
(*  - the other state-changing MCP tools carry an idempotency key.  The    *)
(*    transport looks it up, the command's transaction claims it with a    *)
(*    sentinel, and the transport replaces the sentinel by the result.     *)
(*                                                                         *)
(* One principal and one run: leases and intents of different principals   *)
(* or runs never meet.  What the run does with its wakeups is RunLifecycle;*)
(* here it only moves between the statuses that the commands ask for;      *)
(* "cancelled" stands for cancelling too.                                  *)
(*                                                                         *)
(* Left out: lease generations, since a transaction that takes a lease     *)
(* also ends it or leaves it to the next one; abandon and expire_stale,    *)
(* which nothing calls; deletion of old rows, of which there is none;      *)
(* the stage retry of one agent execution, which has the same lease.       *)
(***************************************************************************)
EXTENDS Integers, FiniteSets

CONSTANTS
    Calls,     \* calls of clients; a client that tries again makes a new one
    Requests,  \* request ids
    Keys,      \* idempotency keys
    Bodies,    \* canonical request hashes of the keyed tools
    MaxStalls  \* bound: how often the run stalls

Decisions == {"approve", "reject"}
Lifecycle == {"runs.retry", "stages.retry", "runs.cancel"} \cup Decisions
Asks == [id : Requests, intent : Lifecycle] \cup [id : Keys, intent : Bodies]

ASSUME CommandsAssumption ==
    /\ Requests \cap Keys = {} /\ Lifecycle \cap Bodies = {}
    /\ MaxStalls \in Nat

VARIABLES
    at,       \* where each call stands
    ask,      \* what it asks for
    answer,   \* what its client was told
    journal,  \* command_journal.result_status of the call's row
    lease,    \* the active row of command_idempotency of each request id
    aliases,  \* command_request_aliases
    sentinel, \* the row of mcp_command_idempotency of each key
    run,      \* runs.status
    queued,   \* an AdvanceRun is pending
    approval, \* the decision of the approval the run waits for
    stalls    \* how often the run has stalled

callVars == <<at, ask, answer>>
leaseVars == <<lease, aliases>>
domainVars == <<run, queued, approval, stalls>>
vars == <<callVars, journal, leaseVars, sentinel, domainVars>>

NoLease == [state |-> "none", intent |-> "none", lapsed |-> FALSE]
NoRow == [state |-> "none", body |-> "none"]
NoAsk == [id |-> "none", intent |-> "none"]
Stalled == {"blocked", "failed"}

(* "error" is the answer to a read, a transaction, a commit or a rebuild   *)
(* that fails, the last of these after the commit; "recovered" is the one  *)
(* of the committed-unack recovery, "lost" that of a process that is gone. *)
Refusals == {"mismatch", "conflict", "failed_before", "in_flight", "refused",
             "not_actionable"}
Answers == {"none", "done", "recovered", "unack", "lost", "error"} \cup Refusals

TypeOK ==
    /\ at \in [Calls -> {"idle", "by_intent", "by_failure", "transact", "reply",
                         "recover", "dispatch", "ack", "over"}]
    /\ ask \in [Calls -> Asks \cup {NoAsk}]
    /\ answer \in [Calls -> Answers]
    /\ journal \in [Calls -> {"none", "completed", "failed"}]
    /\ lease \in [Requests -> [state : {"none", "pending", "committed", "failed"},
                               intent : Lifecycle \cup {"none"}, lapsed : BOOLEAN]]
    /\ aliases \subseteq Lifecycle \X Requests \X Requests
    /\ sentinel \in [Keys -> [state : {"none", "pending", "aged", "done", "recovered"},
                              body : Bodies \cup {"none"}]]
    /\ run \in {"waiting", "running", "completed", "cancelled"} \cup Stalled
    /\ queued \in BOOLEAN
    /\ approval \in {"none", "requested", "granted", "rejected", "expired"}
    /\ stalls \in 0 .. MaxStalls

(* The run waits at a gate, or it has stalled. *)
Init ==
    /\ at = [c \in Calls |-> "idle"] /\ ask = [c \in Calls |-> NoAsk]
    /\ answer = [c \in Calls |-> "none"] /\ journal = [c \in Calls |-> "none"]
    /\ lease = [r \in Requests |-> NoLease] /\ aliases = {}
    /\ sentinel = [k \in Keys |-> NoRow]
    /\ run \in {"waiting"} \cup Stalled
    /\ approval = IF run = "waiting" THEN "requested" ELSE "none"
    /\ queued = FALSE /\ stalls = 0

Goto(c, label) == at' = [at EXCEPT ![c] = label] /\ UNCHANGED answer
Answer(c, code) == at' = [at EXCEPT ![c] = "over"] /\ answer' = [answer EXCEPT ![c] = code]
Id(c) == ask[c].id
Intent(c) == ask[c].intent

-----------------------------------------------------------------------------
(* A lifecycle command, before its transaction                             *)

(* mutant: a request id used for something else is not noticed *)
ReplayAnyIntent(l, i) == IF l.state = "committed" THEN "done" ELSE "proceed"

(* What the lease of its request id tells a call with intent i; only       *)
(* runs.retry goes on after a failure.                                     *)
Replay(l, i) ==
    CASE l.state = "none" -> "proceed"
      [] l.state # "none" /\ l.intent # i -> "mismatch"
      [] l.intent = i /\ l.state = "committed" -> "done"
      [] l.intent = i /\ l.state = "failed" ->
             IF i = "runs.retry" THEN "proceed" ELSE "failed_before"
      [] l.intent = i /\ l.state = "pending" ->
             IF l.lapsed THEN "proceed" ELSE "in_flight"

(* find_active_by_request. *)
LookUp(c, a) ==
    /\ at[c] = "idle" /\ a.id \in Requests
    /\ ask' = [ask EXCEPT ![c] = a]
    /\ LET verdict == Replay(lease[a.id], a.intent) IN
       IF verdict = "proceed" THEN Goto(c, "by_intent") ELSE Answer(c, verdict)
    /\ UNCHANGED <<journal, leaseVars, sentinel, domainVars>>

CommittedFor(i) == {r \in Requests : lease[r].state = "committed" /\ lease[r].intent = i}

(* find_committed_by_intent and insert_alias (INSERT OR IGNORE).  A        *)
(* decision is confirmed only while its approval is open, a read of its    *)
(* own that may fail.                                                      *)
LookUpIntent(c) ==
    /\ at[c] = "by_intent"
    /\ IF CommittedFor(Intent(c)) \ {Id(c)} = {}
       THEN /\ Goto(c, IF Intent(c) \in Decisions THEN "by_failure" ELSE "transact")
            /\ UNCHANGED aliases
       ELSE \E r \in CommittedFor(Intent(c)) \ {Id(c)} :
            /\ aliases' = IF \E q \in Requests : <<Intent(c), Id(c), q>> \in aliases
                          THEN aliases ELSE aliases \cup {<<Intent(c), Id(c), r>>}
            /\ \/ Intent(c) \notin Decisions /\ Answer(c, "done")
               \/ /\ Intent(c) \in Decisions
                  /\ Answer(c, IF approval = "requested" THEN "done" ELSE "not_actionable")
               \/ Intent(c) \in Decisions /\ Answer(c, "error")
    /\ UNCHANGED <<ask, journal, lease, sentinel, domainVars>>

(* find_failed_by_intent: a decision that failed once is not tried again.  *)
LookUpFailure(c) ==
    /\ at[c] = "by_failure"
    /\ IF \E r \in Requests : lease[r].state = "failed" /\ lease[r].intent = Intent(c)
       THEN Answer(c, "failed_before") ELSE Goto(c, "transact")
    /\ UNCHANGED <<ask, journal, leaseVars, sentinel, domainVars>>

-----------------------------------------------------------------------------
(* Its transaction                                                         *)

(* mutant: no index on the intent *)
IntentFreeAlways(r, i) == TRUE

(* command_intent_active_uniq: one pending or committed lease per intent.  *)
IntentFree(r, i) ==
    \A q \in Requests \ {r} :
        lease[q].intent = i => lease[q].state \notin {"pending", "committed"}

(* reacquire_expired_tx: whose lease it was is not asked. *)
Reacquirable(r) == lease[r].state = "pending" /\ lease[r].lapsed
(* acquire_tx, under command_request_active_uniq. *)
Acquirable(r) == lease[r].state = "none"
CanLease(r, i) == (Reacquirable(r) \/ Acquirable(r)) /\ IntentFree(r, i)

(* mutant: the outcome is written over the intent *)
LeasedByOutcome(r, i, s) == lease' = [lease EXCEPT ![r].intent = s]

Leased(r, i, s) == lease' = [lease EXCEPT ![r] = [state |-> s, intent |-> i, lapsed |-> FALSE]]

(* mutant: any approval can be decided *)
ResolveRefusedNever == FALSE

(* What makes a handler refuse; blocked stands for unresolved side effects *)
(* found by the ledger's preflight.                                        *)
RetryRunRefused == run \in {"completed", "cancelled"}
RetryStageRefused(blocked) == run \notin Stalled \/ blocked
CancelRunRefused(blocked) == run \in {"completed", "failed", "cancelled"} \/ blocked
ResolveRefused == approval # "requested"

Refused(i, blocked) ==
    \/ i = "runs.retry" /\ RetryRunRefused
    \/ i = "stages.retry" /\ RetryStageRefused(blocked)
    \/ i = "runs.cancel" /\ CancelRunRefused(blocked)
    \/ i \in Decisions /\ ResolveRefused

RetryRunApplied == queued' = TRUE /\ UNCHANGED <<run, approval>>
RetryStageApplied == run' = "running" /\ queued' = TRUE /\ UNCHANGED approval
CancelRunApplied ==
    /\ run' = "cancelled" /\ UNCHANGED queued
    /\ approval' = IF approval = "requested" THEN "expired" ELSE approval
ResolveApplied(i) ==
    /\ approval' = IF i = "approve" THEN "granted" ELSE "rejected"
    /\ queued' = TRUE /\ UNCHANGED run

Applied(i) ==
    \/ i = "runs.retry" /\ RetryRunApplied
    \/ i = "stages.retry" /\ RetryStageApplied
    \/ i = "runs.cancel" /\ CancelRunApplied
    \/ i \in Decisions /\ ResolveApplied(i)

(* The unique indexes refuse the lease: the transaction is rolled back.    *)
Busy(c) ==
    /\ at[c] = "transact" /\ ~CanLease(Id(c), Intent(c))
    /\ Answer(c, IF Reacquirable(Id(c)) THEN "error" ELSE "in_flight")
    /\ UNCHANGED <<ask, journal, leaseVars, sentinel, domainVars>>

(* A refusal is committed with the lease: failed, except that stages.retry *)
(* leaves it pending.  Decisions have no journal row then.                 *)
Refuse(c, blocked) ==
    /\ at[c] = "transact" /\ CanLease(Id(c), Intent(c)) /\ Refused(Intent(c), blocked)
    /\ Leased(Id(c), Intent(c), IF Intent(c) = "stages.retry" THEN "pending" ELSE "failed")
    /\ journal' = IF Intent(c) \in Decisions THEN journal
                  ELSE [journal EXCEPT ![c] = "failed"]
    /\ Answer(c, IF Intent(c) \in Decisions THEN "not_actionable" ELSE "refused")
    /\ UNCHANGED <<ask, aliases, sentinel, domainVars>>

(* Lease, effect, journal and commit of the lease in one transaction.      *)
Apply(c) ==
    /\ at[c] = "transact" /\ CanLease(Id(c), Intent(c))
    /\ ~Refused(Intent(c), FALSE)
    /\ Applied(Intent(c))
    /\ Leased(Id(c), Intent(c), "committed")
    /\ journal' = [journal EXCEPT ![c] = "completed"]
    /\ Goto(c, "reply")
    /\ UNCHANGED <<ask, aliases, sentinel, stalls>>

(* The lease of runs.retry cannot be committed: the handler fails lease    *)
(* and journal, and commits them with the AdvanceRun it has enqueued.      *)
CommitFails(c) ==
    /\ at[c] = "transact" /\ CanLease(Id(c), Intent(c))
    /\ Intent(c) = "runs.retry" /\ ~RetryRunRefused
    /\ RetryRunApplied
    /\ Leased(Id(c), Intent(c), "failed")
    /\ journal' = [journal EXCEPT ![c] = "failed"]
    /\ Answer(c, "error")
    /\ UNCHANGED <<ask, aliases, sentinel, stalls>>

(* The transaction is committed and the result returned, after the rebuild *)
(* of the projections if it is a decision (RebuildFails otherwise).        *)
Reply(c) ==
    /\ at[c] = "reply" /\ Answer(c, "done")
    /\ UNCHANGED <<ask, journal, leaseVars, sentinel, domainVars>>

-----------------------------------------------------------------------------
(* A keyed MCP tool                                                        *)

(* mcp_idempotency_precheck. *)
Precheck(c, a) ==
    /\ at[c] = "idle" /\ a.id \in Keys
    /\ ask' = [ask EXCEPT ![c] = a]
    /\ LET row == sentinel[a.id] IN
       \/ row.state = "none" /\ Goto(c, "dispatch")
       \/ row.state = "pending" /\ Answer(c, "in_flight")
       \/ row.state = "aged" /\ Goto(c, "recover")
       \/ /\ row.state \in {"done", "recovered"}
          /\ Answer(c, IF row.body = a.intent THEN "done" ELSE "conflict")
    /\ UNCHANGED <<journal, leaseVars, sentinel, domainVars>>

(* mutant: the row is updated whatever it holds *)
UnansweredAlways(k) == TRUE

Unanswered(k) == sentinel[k].state \in {"pending", "aged"}

(* update_result replaces a sentinel, never a result. *)
UpdateResult(k, s) ==
    sentinel' = IF Unanswered(k) THEN [sentinel EXCEPT ![k].state = s] ELSE sentinel

(* mcp_idempotency_committed_unack_recovery: the journal decides; what the *)
(* key was first used for is not compared, and a failing update is not     *)
(* noticed.                                                                *)
Recover(c) ==
    /\ at[c] = "recover"
    /\ \/ /\ \E d \in Calls : Id(d) = Id(c) /\ journal[d] = "completed"
          /\ Answer(c, "recovered")
          /\ UpdateResult(Id(c), "recovered") \/ UNCHANGED sentinel
       \/ Answer(c, "unack") /\ UNCHANGED sentinel
    /\ UNCHANGED <<ask, journal, leaseVars, domainVars>>

(* insert_pending_tx, the primary key of mcp_command_idempotency. *)
KeyFree(k) == sentinel[k].state = "none"

Claimed(c) == sentinel' = [sentinel EXCEPT ![Id(c)] = [state |-> "pending", body |-> Intent(c)]]

KeyBusy(c) ==
    /\ at[c] = "dispatch" /\ ~KeyFree(Id(c))
    /\ Answer(c, "in_flight")
    /\ UNCHANGED <<ask, journal, leaseVars, sentinel, domainVars>>

(* The command commits its failure: the key stays claimed. *)
KeyRefuse(c) ==
    /\ at[c] = "dispatch" /\ KeyFree(Id(c))
    /\ Claimed(c) /\ journal' = [journal EXCEPT ![c] = "failed"]
    /\ Answer(c, "refused")
    /\ UNCHANGED <<ask, leaseVars, domainVars>>

KeyApply(c) ==
    /\ at[c] = "dispatch" /\ KeyFree(Id(c))
    /\ Claimed(c) /\ journal' = [journal EXCEPT ![c] = "completed"]
    /\ Goto(c, "ack")
    /\ UNCHANGED <<ask, leaseVars, domainVars>>

(* mcp_idempotency_commit: no row to update, or a failing update, and the  *)
(* client is not told of the success.                                      *)
Ack(c) ==
    /\ at[c] = "ack"
    /\ \/ Unanswered(Id(c)) /\ UpdateResult(Id(c), "done") /\ Answer(c, "done")
       \/ Answer(c, "unack") /\ UNCHANGED sentinel
    /\ UNCHANGED <<ask, journal, leaseVars, domainVars>>

-----------------------------------------------------------------------------
(* Faults, time and the run                                                *)

\* mutant: what was committed is taken for rolled back
RebuildFailsUndone(c) ==
    /\ at[c] \in {"reply", "ack"} /\ Answer(c, "error")
    /\ lease' = IF at[c] = "reply" THEN [lease EXCEPT ![Id(c)] = NoLease] ELSE lease
    /\ sentinel' = IF at[c] = "ack" THEN [sentinel EXCEPT ![Id(c)] = NoRow] ELSE sentinel
    /\ UNCHANGED <<ask, journal, aliases, domainVars>>

(* rebuild_all_for_run, after the commit of a decision or a keyed command, *)
(* fails: the caller is told of an error though the command is done.  The  *)
(* sentinel stays, without a result.  The other lifecycle commands rebuild *)
(* nothing.                                                                *)
RebuildFails(c) ==
    /\ at[c] = "ack" \/ (at[c] = "reply" /\ Intent(c) \in Decisions)
    /\ Answer(c, "error")
    /\ UNCHANGED <<ask, journal, leaseVars, sentinel, domainVars>>

(* A read or a transaction fails before its commit (after it: RebuildFails). *)
Abort(c) ==
    /\ at[c] \in {"idle", "by_intent", "by_failure", "transact", "dispatch"}
    /\ Answer(c, "error")
    /\ UNCHANGED <<ask, journal, leaseVars, sentinel, domainVars>>

InFlight == {c \in Calls : at[c] \notin {"idle", "over"}}

Crash ==
    /\ InFlight # {}
    /\ at' = [c \in Calls |-> IF c \in InFlight THEN "over" ELSE at[c]]
    /\ answer' = [c \in Calls |-> IF c \in InFlight THEN "lost" ELSE answer[c]]
    /\ UNCHANGED <<ask, journal, leaseVars, sentinel, domainVars>>

(* expires_at of a pending lease passes. *)
Lapse(r) ==
    /\ lease[r].state = "pending" /\ ~lease[r].lapsed
    /\ lease' = [lease EXCEPT ![r].lapsed = TRUE]
    /\ UNCHANGED <<callVars, journal, aliases, sentinel, domainVars>>

(* A sentinel is 30 s old. *)
Age(k) ==
    /\ sentinel[k].state = "pending"
    /\ sentinel' = [sentinel EXCEPT ![k].state = "aged"]
    /\ UNCHANGED <<callVars, journal, leaseVars, domainVars>>

(* The pending AdvanceRun: a run that waits for a decision goes on waiting, *)
(* one that stalled may stay so.                                            *)
Advance ==
    /\ queued /\ queued' = FALSE
    /\ run' \in CASE run = "waiting" -> {IF approval = "requested" THEN run ELSE "running"}
                  [] run \in Stalled -> {run, "running"}
                  [] OTHER -> {run}
    /\ UNCHANGED <<callVars, journal, leaseVars, sentinel, approval, stalls>>

(* A running run comes to an end, or stalls. *)
RunEnds ==
    /\ run = "running" /\ ~queued
    /\ \/ run' = "completed" /\ UNCHANGED stalls
       \/ stalls < MaxStalls /\ run' \in Stalled /\ stalls' = stalls + 1
    /\ UNCHANGED <<callVars, journal, leaseVars, sentinel, queued, approval>>

Call(c) ==
    \/ \E a \in Asks : LookUp(c, a) \/ Precheck(c, a)
    \/ LookUpIntent(c) \/ LookUpFailure(c)
    \/ Busy(c) \/ (\E blocked \in BOOLEAN : Refuse(c, blocked)) \/ Apply(c)
    \/ CommitFails(c) \/ Reply(c)
    \/ Recover(c) \/ KeyBusy(c) \/ KeyRefuse(c) \/ KeyApply(c) \/ Ack(c)
    \/ Abort(c) \/ RebuildFails(c)

Next ==
    \/ \E c \in Calls : Call(c)
    \/ Crash
    \/ \E r \in Requests : Lapse(r)
    \/ \E k \in Keys : Age(k)
    \/ Advance \/ RunEnds

Spec == Init /\ [][Next]_vars

-----------------------------------------------------------------------------
(* Properties                                                              *)

Committed == {c \in Calls : journal[c] = "completed"}

(* However calls are repeated, raced, aborted or cut off by a crash: no    *)
(* request id and no key takes effect twice, and neither does an intent    *)
(* under two request ids, although every look-up is outside the            *)
(* transaction (command_idempotency.rs, mcp_command_idempotency.rs).       *)
AppliedOnce ==
    \A c, d \in Committed : c # d =>
        /\ Id(c) # Id(d)
        /\ Intent(c) \in Lifecycle => Intent(c) # Intent(d)

(* A client that is told "done", by the call that did it, by a replay or   *)
(* by an alias, asked for what some call committed: the same intent, or    *)
(* the same body under the same key.  The committed-unack recovery vouches *)
(* for the key only.                                                       *)
AnswerIsTrue ==
    \A c \in Calls :
        /\ answer[c] = "done" =>
              \E d \in Committed :
                 /\ Intent(d) = Intent(c)
                 /\ Id(c) \in Keys => Id(d) = Id(c)
        /\ answer[c] = "recovered" => \E d \in Committed : Id(d) = Id(c)

(* A call that was refused is not recorded as completed: the client may    *)
(* send it again (record_command_journal_tx and the handlers' rollbacks).  *)
(* An error says less, since it may come from behind the commit.           *)
RefusedIsInert ==
    \A c \in Calls : answer[c] \in Refusals => journal[c] # "completed"

(* Whatever its client was told, an error of the rebuild, an unack or      *)
(* nothing at all, a committed call leaves a record from which the same    *)
(* call is answered when it is sent again: its lease replays it, its key   *)
(* stays claimed for this body (command_handler.rs: the rebuild after the  *)
(* commit; server.rs: the sentinel is kept as evidence).                   *)
CommittedIsReplayed ==
    \A c \in Committed :
        /\ Id(c) \in Requests => Replay(lease[Id(c)], Intent(c)) = "done"
        /\ Id(c) \in Keys =>
              sentinel[Id(c)].state # "none" /\ sentinel[Id(c)].body = Intent(c)

(* Two operators decide an approval differently at the same time: whoever  *)
(* is told that the decision is made finds it made, also after the run was *)
(* cancelled (ResolveApproval's check inside the transaction).             *)
DecisionStands ==
    \A c \in Calls :
        answer[c] = "done" /\ Intent(c) \in Decisions =>
            approval = IF Intent(c) = "approve" THEN "granted" ELSE "rejected"

(* What replays are answered from never changes: not a committed lease,    *)
(* nor the result stored for a key, by whichever of the call and the       *)
(* recovery came first (the compare-and-sets of commit_tx, update_result). *)
OutcomeIsFinal ==
    [][/\ \A r \in Requests : lease[r].state = "committed" => lease'[r] = lease[r]
       /\ \A k \in Keys : sentinel[k].state \in {"done", "recovered"} =>
                              sentinel'[k] = sentinel[k]]_vars
=============================================================================
