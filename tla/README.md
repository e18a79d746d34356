# Verification of Chainworks Forge

TLA+ models of the control plane of Chainworks Forge (`src/control-plane`, Rust),
TLC instances that check them, and TLAPS proofs about the core. Paths below are
relative to `src/control-plane/crates/` unless they start with `src/`.

Contents: [inventory](#inventory) · [modules](#modules) · [runs](#runs) ·
[fairness](#fairness) · [proofs](#proofs) · [findings](#findings) ·
[not modelled](#not-modelled) · [plan](#plan)

## Inventory

Forge executes workflows. A run is a sequence of stages; a stage fans out into
work items of kind InvokeAgent, each of which prompts a provider's agent process
over ACP, imports the files it declared as outputs, and settles; AdvanceRun items
move the run from stage to stage. All durable state
is in one SQLite database. The daemon is a multi-threaded tokio process; any number
of agent tasks, the executor loop, reconcilers, operator commands and timers
run at once and meet only in that database.

| part | state | operations | talks to |
|---|---|---|---|
| InvokeAgent queue (`db/src/repos/work_items.rs`, `agent_executions.rs`, `artifact_contracts.rs`) | item status and preclaim, execution status and runtime facts, source-generation claims, wake-ups | claim, resume, complete, fail, requeue (five reasons), supersede | everybody below, through transactions |
| Background executor (`engine/src/executor.rs`) | one task per claimed item, nothing durable of its own | claim loop, prompt, import, settlement | queue, ACP, sweep |
| Terminal-outputs sweep (`executor.rs`, `work_items.rs`) | list of selected items | select, complete one by one | queue |
| P080 reconciler (`db/src/repos/p080.rs`) | heartbeats with staleness | classify, retire, repair (requeue) | queue |
| Host interruption recovery (`engine/src/host_interruption.rs`) | epoch and one row per affected execution | fence (phase one), close sessions, settle and requeue (phase two) | queue, ACP |
| Run cancellation (`engine/src/cancellation.rs`) | run status | begin settlement, finalise | queue, ACP |
| Startup recovery (`engine/src/recovery.rs`) | `startup_repairs` rows | ordered repair phases before the executor starts | queue |
| DbWriter (`db/src/writer.rs`, `write_class.rs`) | six bounded lanes, coalescing buffer, shutdown flag | submit, queued transaction, flush, execute, shutdown | all writers |
| Orchestrator (`engine/src/orchestrator.rs`) | run status and current state, stage executions, approvals, conflict and cursor | AdvanceRun: enter a state, enqueue a phase, settle a stage, pick a transition, open a gate | queue |
| Command handling (`engine/src/command_handler.rs`) | the orchestrator's rows | approve, reject, retry a stage or run, resolve a conflict, cancel | orchestrator, queue |
| Command idempotency (`command_idempotency.rs`, `mcp_command_idempotency.rs`, `command_journal.rs`, `mcp-server/src/server.rs`) | a lease per request id, aliases, a row per idempotency key, the journal | look up, replay, acquire, commit, fail, acknowledge, recover | clients, command handling |
| Side-effect ledger (`engine/src/side_effects.rs`, `db/src/repos/side_effects.rs`) | one row per intended external write: status, owner, lease, deadline, settlement | prepare, lease, mark, renew, settle, fail; watchdog pass; operators' dispositions (`mcp-server/src/tools/effects.rs`) | git, Xcode, App Store Connect |
| ACP sessions (`acp/src/manager.rs`, `session.rs`, `transport.rs`) | live processes, session generations | open, prompt, close, cancel | agent processes |
| Xcode broker and leases (`acp/src/xcode_broker.rs`, `toolchain_lease.rs`) | leases, effect journal | acquire, dispatch, settle | Xcode |
| Continuations, evidence spool, scheduler projections, graceful shutdown | rows and files of their own | see PROJECT.json | queue, DbWriter |
| GraphQL and MCP servers, auth, workflow compiler, macOS app | none that decides anything here | requests, reads, parsing | command handling |

What is hard here is **ownership**. The same item is moved by its own task, by the sweep,
by two reconcilers, by cancellation and by startup, each in its own
transactions; a task learns that it was replaced only when it next reads the
store. The fences are the preclaim in the item's payload (`p058_claimed`), the
status of the execution, the state of its source-generation claim and the row of
host recovery. A crash may fall between any two transactions, SQLite
contention may hit any of them, a prompt may answer after its session was given up.

Three more things are hard. The orchestrator works from what it **read when it began**: an
advance makes up to a dozen separate writes, and commands of the operators, finished
items and a crash fall between them. A command may be **sent again**, by a client that got no answer or by two
clients at once, and every look-up that would recognise it is outside the transaction that applies it. And external writes (a push, an upload)
**cannot be undone or asked about**, so the ledger has to decide from its own row, under
leases, lost processes and operators, who may write and what was written.

What makes each part correct:

* queue and executor: at most one current attempt per item; an attempt that is not
  current changes nothing; a settled item stays settled; completion means that outputs were
  delivered; running executions stay within capacity; every item settles;
* retries: the chain of superseded claims is complete and ordered;
* host recovery: a fenced attempt never regains authority over the result;
* cancellation and startup: a cancelled run is closed, what was left running is
  decided from rows alone;
* orchestrator and commands: a run never stands still without someone to wake it, a stage
  is judged by all of its items, a replaced attempt is inert, completion is final, loop
  budgets and cancellations hold whatever was read before them;
* command idempotency: a request, key or intent takes effect once, and every answer, replays
  included, is true;
* side-effect ledger: an effect is written at most once, writes to one target do not
  overlap by themselves, what is settled or completed is true, an operator's decision
  stands;
* DbWriter: the answer a caller gets agrees with the database, no write is lost or
  duplicated on its way, shutdown drains what it promises, every caller is answered.

The hazards behind these properties are listed in PROJECT.json, each at its line.

## Modules

### InvokeStore, InvokeWorker, InvokeRecovery, InvokeAgents

One stage of one run with `NItems` items. Every write transaction is an IMMEDIATE
one behind a single writer, so each transaction is one action; what the
code does in two transactions is two actions.

`InvokeStore` holds the rows. `status`, `claim`, `attempts` are columns of
`work_items` (`claim` is the execution id in `p058_claimed`); `advance` records which items
inserted their AdvanceRun wake-up; `execStatus`, `valid`,
`active` are the execution's status, its runtime facts' proof of valid outputs, and
whether its outputs became active contracts; `claimState` and `supersededBy` are the
source-generation claim; `hostRow` the row of host recovery; `stale` and
`run` the P080 heartbeat and the run's status. Executions are
pairs (item, k) in the order of their creation where the code draws a UUID. The module
also defines the fences (`MatchesAttempt`, `HostOwns`, `CleanupHolds`,
`ProvesOutputs`) and the writes that several actors share.

`InvokeWorker` is the claim loop and the task of a claimed item. `pc` is where the task
stands between two transactions:

| pc | code |
|---|---|
| start, prompt | `process_item` up to the provider's answer |
| result | `provider_result_ownership` after a successful prompt |
| capacity | between the two transactions of the provider-capacity wait |
| import, imported | `import_declared_outputs` and what follows |
| ok, contended | `complete_attempt` and its contention requeue |
| transient, failed, rejected, mark | the error arm of `run_loop`: requeue, `fail_attempt`, `mark_agent_execution_failed_if_running` |

`InvokeRecovery` adds the other actors: `SweepSelect`/`SweepComplete`, `P080Classify`/
`P080Retire`/`P080Repair`, `HostPrepare`/`HostSettle` (with any subset of
sessions whose cleanup fails), `CancelRun`/`FinalizeCancel`, and `Crash`, after which
`boot` walks through the startup phases in the order of `run_startup_repair` while the
executor is not running. `InvokeAgents` composes them, states fairness and the
properties.

Faults are actions of the environment (`Faults` says which an instance has, `MaxFaults`
how many): a prompt that closes, a provider at capacity, an ACP error, an error of
the worker, SQLite contention, a stale classification, a host interruption, a failed
cleanup, a crash, a cancellation. `MaxClaims` bounds the executions of an item.

Abstractions: output files, prompts and payloads are reduced to "valid or not"; the
capacity limits per provider and run are one number; AdvanceRun is only its row;
permission requests, output repair (P079) and session reuse happen inside a prompt.
Every task declares at least one output: one that declares none has nothing to import, and its execution is
completed whatever became of its claim (`engine/src/executor.rs:18853`, `:19003`), without outputs to activate.
`retry_enqueued` stands for `retry_deferred_capacity` too, which differs in the time of the retry only. What a
task does after its import and before its settlement is `FinishProcessing`; of that, the settlement of a
single-task stage and an AdvanceRun are rows of RunLifecycle.

### DbWriter

Each operation of `Ops` is submitted once. `caller` is where its submitter stands,
`reply` what was sent on its oneshot channel, `result` what the caller was told. A
deadline may pass at any moment, so whoever looks at it may find it passed
and must once the caller was told so; no clock is needed. The executor serves the
lanes in the order of its biased select (`Serve`), checks the deadline once (`Take`), then
runs the work (`RunWork`) or hands a transaction to its holder (`BeginQueued`, `HolderFinish`,
`FinishQueued`). Class B operations go through `Coalesce` (the section under the lock),
and are sent entry by entry, without the lock, by the caller whose merge filled the buffer
or by the flush task (`SendEntry`, `TimerFlush`). `Shutdown` raises the flag and the
signal; `StartDrain` and `DrainLanes` are `drain_on_shutdown`, whose budgets may run
out at any point. A reply "closed" is the loss of the channel or of the entry because
the executor is gone; its caller sees WriteFailed. `held` is a history variable: what
the writer held at the signal, emptied when a budget ran out.

`submit_unit_transaction` and `submit_transaction` differ from `submit` only in
the work. Class B producers all set `observed_at` (`db/src/repos/projections.rs`), so
the monotonic counter that orders entries without it is left out.

### ReleaseLedger, SideEffects

`ReleaseLedger` is the promise in three variables: an external write is granted only to a
recorded intent that is still unresolved, a grant is used at most once, and a target never has two
unresolved intents. `SideEffects` is how the code keeps it.

A row of `side_effects` is spread over `status`, `owner`, `renewed` (how often
`lease_renewed_at` changed), `lapsed` and `overdue` (its lease or deadline has passed),
`attempted` and `settlement`, functions and sets over the idempotency keys. A key is an
agent execution and a step, since `derive_idempotency_key` hashes the execution, the kind
and the target. `pc`, `step` and `seen` are a call of `process_release_agent` between two
of its transactions, `op` and `launches` the external operation, `agent` the recorded result.

| action | code |
|---|---|
| Begin, Check, Insert, AcquireLease | preconditions, the two reads of `prepare_effect`, `insert` under its unique indexes, `executor_start_cas` |
| MarkWriteStarted, Launch, OperationEnds | `mark_external_write_started`, the first poll of the operation, the child process on its own |
| Renew, Collect | `run_with_lease_renewal`: a lost renewal drops the future, not the process |
| SettleSuccess, SettleFailure, Abort | the success and failure transactions; a crash or an error between any two steps |
| LeaseLapses, DeadlinePasses | time |
| WatchdogScan, WatchdogStep | `watchdog_pass`: the list, then one compare-and-set per row |
| CheckRequest, ApplyDisposition | the `effects.*` handlers' check, then their write unit |

Time is only the two facts the statements ask for, so no clock is needed. Commit and push, archive
and upload are the same code twice and one pair of steps here. The pass keeps one listed row at a
time: each is handled on its own by a compare-and-set on that row.

### RunLifecycle

One workflow-backed run over any compiled plan (`States`, `Gates`, `Ends`, `Phases`, `Moves`,
`LoopMax` are constants, and `Rework`, the states to which the rejection of a gate moves the run by itself, as
`state_11_manual_release` does). `run`, `stages`, `items`, `approvals`, `conflict`, `parked` and `queue`
are the tables; stage executions are numbered by `started_at`, and a stage carries its retry
authority. `adv` is the AdvanceRun in flight: the executor's loop awaits each, so there is one. It
keeps what the code read when the advance began (the run's status in `was`, the spent loops in
`spent`), and `pc` names the next write:

| pc | code |
|---|---|
| decide | `advance_run_workflow` reads stages, items, approvals and chooses (`WaitOn`, `FanOut`, `SettleStage`, `Reconsider`, `StageStopped`, `ReopenGate`, `Enter`) |
| create, open, start, provision, enqueue | a compute state: stage row, stage running, run running, worktree, one item per task |
| gate, request, pause | a manual gate: stage waits, approval row, run waits |
| complete_stage, fail_stage, end_stage, block, complete_run | settlement |
| evaluate, select, cursor, again, move, wake | `evaluate_and_transition` |
| conflict, conflict_block, conflict_park | `record_workflow_conflict_and_block` |
| finish | the retry authority of a targeted advance is looked at again |

`ResolveApproval`, `RetryStage`, `RetryRun`, `ResolveConflict`, `CancelRun` and `Finalize` are
single transactions that may fall between any two of these; so may the steps of the executor's tasks.
`workers` says whether an item's task is busy or has settled its stage:

| action | code |
|---|---|
| ClaimInvoke | the item is claimed and its task spawned |
| SettleSingle | `executor.rs:17100`: where the plan has one task for the state (`SingleTask`), that task settles the stage, whatever its status by then, while the item is still running |
| Reevaluate | `executor.rs:17117`: then every task rebuilds the projections and enqueues an AdvanceRun; a task that fails in between never comes to it |
| SettleInvoke | the end of the item with the AdvanceRun it enqueues |
| Requeue | the item is pending again and the task gone |

A task outlives its item when a retry, a cancellation, host recovery or a sweep ended it, and may still settle
its stage then. A stage of several tasks is settled by an advance (`SettleStage`) only. `Restart` loses the
advance, the tasks and the finalizer
and is the part of `run_startup_repair` that concerns the rows of this run. An InvokeAgent item is its status only: InvokeAgents models
how it gets there, and its TerminalIsFinal (an item is settled once) is what this module
relies on. An artifact condition may hold or not at every evaluation.

`RepairRun` leaves out what cannot happen in these states: `recover_blocked_stages_with_terminal_work` passes over stages
with a validation failure, and a prompt failure, the only step here that blocks a stage, always records one; and
stages set blocked for a running execution without an item in flight, which the earlier startup phases leave
none of. Left out as well, though it can happen: the clearing of a stage that a prompt failure blocked while one of its pending
items kept a running execution (`recovery.rs:2877`).

### Commands

Two schemes make a repeated command take effect once, and `Commands` has both. A lifecycle
command (`runs.retry`, `stages.retry`, `runs.cancel`, `approvals.resolve`) carries a request id: `LookUp`
replays the lease of that id (`find_active_by_request`), `LookUpIntent` the committed lease of another id with the
same intent, storing an alias, and for decisions `LookUpFailure` a failed one. Then one transaction takes the lease
(`CanLease`: `reacquire_expired_tx`, `acquire_tx` and the two unique indexes of migration 088) and either applies the command
(`Apply`), commits the refusal (`Refuse`, `CommitFails`) or rolls back (`Busy`, `Abort`). After the commit of a decision, and
of a keyed command, the projections are rebuilt, and when that fails (`RebuildFails`; `command_handler.rs:6575`, `:4898`) the caller is told of an
error although its command is done. A keyed MCP tool goes through `Precheck`, claims its key
in the command's transaction (`KeyApply`, `KeyRefuse`, `KeyBusy`) and stores its result afterwards (`Ack`); a
repetition that finds a sentinel older than 30 s asks the journal (`Recover`).

A call is an attempt of a client: `at` is where it stands between two reads or transactions, `ask` what it asks
for, `answer` what its client was told. `lease`, `aliases`, `sentinel` and `journal` are the tables, `run`, `queued`
and `approval` what the commands act on. `Lapse` and `Age` are time, `Crash` loses every call in flight.
Hashes are the intents and bodies themselves; principals and runs do not share leases, so there is one of each.

### Mutants

Definitions introduced by "mutant:" ("Mutant:") are not part of the models. Each is a
plausible bug of the definition that follows it; PROJECT.json says which property
catches it.

## Runs

| run | instance | checks |
|---|---|---|
| Retries | 2 items, 2 attempts each, capacity 2; prompt closure, provider, worker and contention errors, P080; 2 faults; 2.6 M states | TypeOK, AttemptIsCurrent, ActivationIsCurrent, TerminalIsFinal |
| Restart | 2 items, 2 attempts; crash, host interruption with failed cleanup, contention, prompt closure, provider errors, cancellation; 2 faults; 0.7 M | CompletedHasOutputs, CancelledRunIsClosed, HostFenceHolds, HostOwnedTaskIsInert, StaleTaskHarmless |
| Capacity | 2 items, 3 attempts, capacity 2; provider capacity, host interruption, contention, crash; 2 faults; 2.1 M | WithinCapacity, RetryLineage, ExecutionNotRevived |
| Settle | 2 items, 3 attempts, capacity 3; every task error and P080; 1 fault; 0.1 M | EveryItemSettles |
| Lanes | a queued transaction and two Class D writes, lanes of one; 0.1 M | AnswerIsTrue, ShutdownDrainsClassA, EveryCallerAnswered |
| Coalescing | two writes of one key, one of another, buffer of one key, lane of one; 0.5 M | TypeOK, InOnePlace, CoalescedHasNewer, EveryCallerAnswered |
| Ledger | 2 release executions pushing to one branch, one of them called twice; two dispositions, one renewal; symmetry of the repeated calls and of the dispositions; 0.9 M | TypeOK, OneWritePerEffect, OverlapOnlyIfCleared, SettledIsTrue, CompletedIsTrue, DispositionStands, KeepsPromise |
| Lifecycle | a loop state with two parallel tasks (budget 1), a gate with one post-approval task, which settles its stage itself, an end; 3 stage executions, 1 command, 1 restart; symmetry of the tasks; 2.1 M | TypeOK, NeverStalls, CompletedIsClean, SkippedIsInert, RequestedIsAwaited, CompletedIsFinal, BudgetHolds |
| Commands | 3 calls over 2 request ids and 1 key, 2 bodies, every lifecycle intent, 1 stall; symmetry of calls, ids and bodies; 0.4 M | TypeOK, AppliedOnce, AnswerIsTrue, CommittedIsReplayed, DecisionStands, OutcomeIsFinal |
| FindCancelLost, FindFanOut, FindGateLoop | the same plan, each with the commands and restarts its case takes | CancelHolds, AllTasksRan, GateRoutes: violated, see [findings](#findings) |

More configurations are not part of the suite that PROJECT.json lists. Rework.cfg is Lifecycle with a gate whose rejection moves the
run by itself; the same properties hold (2.1 M states). The others show what the theorems leave out, each by
a counterexample (`tlc -config <name>.cfg <module>`):

| configuration | module and instance | violated |
|---|---|---|
| FindCatchUp | MCRunLifecycle, two compute states in a row, a restart | CatchUpWakes |
| FindReopened | MCRunLifecycle, an end with a task of its own; only behaviours in which advances settle the stages (`MCUnsettled`: a sweep ends the items), to keep the search short | CompletedIsTerminal |
| FindGateBudget | MCRunLifecycle, a gate with a loop budget of 1 | LoopIsBounded |
| FindHold | MCInvokeAgents, 1 item; host interruption, failed cleanup, provider error | HoldIsNeverBypassed |

Why the bounds are enough to meet the cases: ownership is lost when one actor replaces an
attempt while another still works for it, which takes two attempts of an item and
one fault; two faults let a second mechanism interfere with the first (contention
then host recovery, a crash during cancellation, a crash while a cleanup is pending); a second item
shares the capacity, the sweep, the epoch of host recovery and P080's attribution.
Capacity has a third attempt, so that an attempt whose item was stripped, its
replacement and another item compete for two slots. In the writer, lanes of one are
full as soon as one operation waits, one key saturates the map, and one merge triggers a
flush; the code's limits (lanes of 512 to 4096, 1024 keys, 64
merges) change how often this happens, not what does. In
Ledger two calls meet at one key and a third at their target, which is what the ledger arbitrates
between. `MaxRenewals` 1 tells a renewed lease from an unrenewed one, which is all a
compare-and-set on `lease_renewed_at` sees. The constraint `FirstEffectsGoWell` keeps trouble, the
watchdog and the operators away from the commits, which share no target; the proofs cover them. In Commands a request,
its repetition and a rival under another id are three calls; that a third body or key would show no more
is what the proofs establish. In
Lifecycle, `MaxStages` 3 allows a state to be left, looped or retried and one more to be entered,
`MaxCommands` 1 a cancellation, retry or resolution between any two steps, and `MaxRestarts` 1 a
crash at any write; decisions on approvals are not counted. `MaxQueue` 2 bounds only the AdvanceRun
a task adds on its own: it is held back while two advances are queued. No violation was met in the first
21 M states of a plan with single-task states only, 4 stages and 2 commands. The symmetry sets only exchange
values that no definition tells apart, and no liveness property is checked under one. For
the properties that are proved the bounds do not matter.

CHECK_DEADLOCK is off in Retries, Restart, Capacity and the runs of SideEffects, Commands and RunLifecycle:
an exhausted bound (no execution left for an item, no fault left) ends a behaviour there, all calls of
a release, and all calls of clients, may be done, and a run may be closed or wait for an operator. NeverStalls says where a run
may stop. In Settle the bounds leave
room for every retry, and deadlock is checked.

## Fairness

Settle uses `FairSpec`: weak fairness of the claim loop (it polls forever), of every
task (tokio runs spawned tasks, a prompt is bounded by its timeout), of the sweep (part of the
loop), of the second phase of host recovery and of the startup phases (straight-line
code once begun). Faults have no fairness: they need not happen, and P080 repairs are
not relied on. Settle has capacity 3 and no host interruption, because with
them the property fails: see the contention and capacity observations below.

The writer's `FairSpec` has weak fairness of the executor, the flush task and every caller,
which includes its timers and the finishing of a transaction it holds: an unfinished
`QueuedTransaction` is finished or dropped when its holder's future ends. Work itself
ends because `begin_immediate_with_retry` is bounded.

SideEffects, Commands and RunLifecycle have no fairness: their properties are safety. NeverStalls states the absence
of lost wakeups as an invariant of the states in which nothing is left to run, which needs
none.

## Proofs

TLAPS checks these for every number of items, attempts, faults, every
capacity and every set of fault kinds (from `ConstantsAssumption`), every set of executions, calls,
targets and dispositions (`SideEffectsAssumption`), all calls, request ids, keys and bodies
(`CommandsAssumption`: ids are no keys, intents no bodies), every plan and bound
(`RunLifecycleAssumption`), and all write operations with any classes, lanes, keys and capacities that
`WriteOperation::validate` lets through (`DbWriterAssumption`, `ClassLaneAssumption`), from these alone except where
a premise is named.

| theorem | states | inductive invariant or step relation |
|---|---|---|
| TypeCorrect | `[]TypeOK` | itself, one lemma per group of actions |
| NotRevived | ExecutionNotRevived | `ExecStep`: what any step may do to an execution's status |
| Claimed | `[]RunningIsClaimed` | `OwnerStep`: how status and preclaim change together |
| TerminalFinal | TerminalIsFinal | `SettledStep` |
| CompletionDelivers | `[]CompletedHasOutputs` | `OutputsInv`: an execution with proof of valid outputs has activated them. Needed because the sweep and startup complete an item from the proof alone |
| HostFence | HostFenceHolds | `OutputsInv` again |
| HostOwnedInert | HostOwnedTaskIsInert | `HeldInv`: an attempt that host recovery took over while its item still names it is held and running, or cancelled, or its own prompt ended in an error and its task has only that to report; so it passes `MatchesAttempt` in the last case alone |
| CancelledClosed | `[]CancelledRunIsClosed` | `BootIdle` (no task before the executor starts) and `SettledStep` |
| CapacityHolds | `[]WithinCapacity` | cardinality: only a claim adds a running execution, after counting |
| OnlyCurrentAttempt | `[]AttemptIsCurrent`, without the provider-capacity wait | `CurrentInv`: with `NoCapacityTask`, whoever strips a preclaim retires that attempt |
| OnlyCurrentActivates | ActivationIsCurrent, without the provider-capacity wait | AttemptIsCurrent: only a task with an active claim activates |
| LineageHolds | `[]RetryLineage` | `Numbered` (executions of an item are used in order), `TaskIsInserted`, `ClaimStateStep` |
| StaleHarmless | StaleTaskHarmless, without the provider-capacity wait and P080 | `StaleInv`: a task that lost its item is cancelled or fenced, so every path it still has is refused |
| LedgerTypeCorrect | `[]TypeOK` of SideEffects | part of `LedgerInv` |
| EffectWrittenOnce, SettlementIsTrue, CompletionIsTrue | `[]OneWritePerEffect`, `[]SettledIsTrue`, `[]CompletedIsTrue` | `LedgerInv` |
| OverlapNeedsOperator | `[]OverlapOnlyIfCleared` | `LedgerInv` with `OneUnresolved` |
| DecisionIsFinal | DispositionStands | `LedgerInv`, per action |
| LedgerKeepsPromise | KeepsPromise: SideEffects implements ReleaseLedger | `LedgerInv`; each action maps to one of the promise or to a stutter |
| CompletedStagesAreClean | `[]CompletedIsClean`: the stages of several tasks | `LifecycleInv` |
| SkippedStagesAreInert | `[]SkippedIsInert` | `LifecycleInv` |
| TypesHold | `[]TypeOK` of RunLifecycle | `QueueInv`, `RestType` on top of `LifecycleInv` |
| RequestsAreAwaited | `[]RequestedIsAwaited` | `GateInv`, by counting |
| NoWakeupIsLost | `[]NeverStalls` | all of `WakeupInv` |
| CompletedRunsAreFinal | CompletedIsFinal | `ClosedInv`, `RequestInv` |
| BudgetsHold | BudgetHolds: the states of several tasks | `BudgetInv` |
| CommandsTypeCorrect | `[]TypeOK` of Commands | part of `IInv` of Commands_proofs |
| TakesEffectOnce, DecisionsStand | `[]AppliedOnce`, `[]DecisionStands` | `IInv` |
| AnswersAreTrue, RefusalsAreInert | `[]AnswerIsTrue`, `[]RefusedIsInert` | parts of `IInv` |
| CommitsAreReplayed | `[]CommittedIsReplayed` | `Steps` and `Journaled` of `IInv` |
| OutcomesAreFinal | OutcomeIsFinal | TypeOK and the guards of every write |
| DbWriterTypeCorrect | `[]TypeOK` of DbWriter | itself, one lemma per group of actions |
| NothingLostOrDuplicated, AnswersHold | `[]InOnePlace`, `[]AnswerIsTrue` | `Inv` of DbWriter_proofs |
| MergedForNewer, ShutdownKeepsBarriers | `[]CoalescedHasNewer`, `[]ShutdownDrainsClassA` | parts of `Inv` |

`LedgerInv` is TypeOK with five parts: a call past its lease owns its row, and a row that has an owner can
not be started again (`LeaseInv`); a launch uses up a mark, and a mark is only ever the
owner's (`WriteInv`); a success is reported and built upon only after it happened (`CallInv`); a settled row was
settled after a success, and a decided row is in a status that only operators move (`RowInv`); a target has one
unresolved row (`OneUnresolved`). The properties are about rows and operations, but what keeps them
true is where each call stands, hence the strengthening.

`LifecycleInv` is `Shape` (the typing of what the argument reads), `ItemInv` (which statuses of a stage execution
allow which items: none before it runs, none in flight or failed when it is completed and has several tasks, none in flight
when it was replaced) and `AdvInv` (what an advance found out about its stage is still true when it writes: a
stage about to be completed is clean, and one that is getting its tasks is running, unless the run was cancelled,
and never completed). `AdvInv` is the heart: it holds because items that ended stay so and RetryStage only
takes stages that are over, so that no command falling between the reads and the writes of an advance can replace
the stage it is enqueueing for.

`WakeupInv` (RunWakeups_proofs) adds what the other properties of RunLifecycle rest on:

| part | says | needed because |
|---|---|---|
| `QueueInv`, `RestType` | the queue and the other tables are well typed, and a targeted advance names a retried attempt that no later retry replaced | a claimed advance works on the stage its entry names |
| `RequestInv`, `ClosedInv` | only a cancellation leaves a finalizer, and no advance is amid its writes when the run is completed | a write of an advance would otherwise reopen the run |
| `AtInv`, `FailInv` | only gates wait; a failed stage of an uncancelled run has an item, and unless its own task settled it, a failed one and none in flight; a replaced attempt has no authority | tells which stages can still call for an advance |
| `BudgetInv` | the budgets an advance computed when it began are still right for all compute states of several tasks but its own | nobody else completes such a stage meanwhile, as there is one advance at a time |
| `GateInv` | per state, the approvals requested or about to be are no more than the gates that wait, and as many before any restart or cancellation | a decision takes one approval and one gate; where a state has several of each, only the count says that one is left for the other |
| `SingleInv` | until a retried attempt has an item, its advance is the only one that names it | otherwise another advance would end its authority, and the one that must start it would return at once |
| `WakeInv` | whenever no advance is about to write, there is an effective AdvanceRun, an item whose end enqueues one, a task that settled its retried stage and has yet to wake the run (`Tarnished`), a gate someone can decide, a blocked or closed run, or a named cost of a crash | NeverStalls is this at rest |

NeverStalls is far from inductive. The case that needs most of it is a targeted advance: it wakes the run only if, when it
is claimed, its target is still authoritative and not stopped (`Effective`), which depends on who else may end that
authority (`SingleInv`), on why stages fail (`FailInv`) and on the order of the queue.

Trying to prove three of the properties showed that they were not true of every plan, and TLC then found the
counterexamples on plans other than the one of Lifecycle. NeverStalls lacked a cost of a crash, CompletedIsFinal the
conflict that is still open, BudgetHolds the gates. They now say what holds, and what was dropped is
in FindCatchUp, FindReopened and FindGateBudget.

`IInv` of Commands ties what clients see, the journal, to what the code decides by, the leases and keys: a completed
row has a committed lease or a claimed key with its intent (`Journaled`), what a replay is answered from has a completed
row (`Vouched`), two active leases differ in their intents (`OneActive`), a committed decision is the approval's
(`Decided`), and where a call stands tells whether it committed (`Steps`). AppliedOnce is not inductive: that a
second call with the same intent commits is excluded only by the lease the first one left.

`Inv` of DbWriter says where every operation is (`Situated`: the buffer files it under its own key, no lane or batch
repeats it, the four kinds of place exclude each other, and only projection writes are coalesced), that it is inside
the writer exactly while its answer is owed (`Tracked`: not before the caller hands it over, not after the answer, and a
transaction in its caller's hands is the one in execution), that answers agree with commits (`Truthful`), and that the
drain left a high lane only when no held write was in it (`Drained`). None of the properties is inductive alone: that
a write whose caller was told "failed" can not commit later follows only from where the write then is, and that a
flush overwrites no batch from where its caller stands. Each action has one lemma on what it moves and one on the rest.

The premises are real: TLC finds each property violated without them (see the late-import
and provider-capacity observations below).

The proofs share one layout. A step relation says in one formula what all
actions may do to some variables, a lemma goes through the actions once,
and the theorems follow from the relation rather than from the actions.

Only proved: RefusalsAreInert, a part of `IInv`. Only model-checked: liveness (EveryItemSettles, EveryCallerAnswered), which is out of the prover's reach. Every other
property of a passing run is a theorem; the premises of OnlyCurrentAttempt, OnlyCurrentActivates and StaleHarmless
leave fault kinds out, the others hold for all. The queue of
AdvanceRun items drops entries with `Kept`, which places the kept positions by counting (`Place`), because `SelectSeq` is
defined by recursion, and what it returns for every queue would take an induction over data.

## Findings

Each has a run, or a configuration beside the runs, whose counterexample TLC prints.

* **FindCancelLost**. An advance reads a blocked or waiting run; CancelRun commits; the advance, which still
  sees the old status, sets the run running with an unconditional update
  (`engine/src/orchestrator.rs:1519`, `db/src/repos/runs.rs:190`). The finalizer finds the run not
  cancelling and gives up. `src/docs/reference/run-control.md:54` says it remains cancelling until it is settled.
* **FindFanOut**. The tasks of a parallel phase are enqueued one by one. After a crash between two of them
  the stage has one item, and when that one ends "all" items of the stage are settled
  (`orchestrator.rs:880`): the stage is completed and the other task never ran.
* **FindGateLoop**. A gate is rejected, the run loops back, comes to the gate again and is granted. Both
  decisions count (`orchestrator.rs:7300`), both transitions match, and the run is blocked by a
  conflict where `command_handler.rs:3825` speaks of routing normal loopbacks.

Found by the proofs, each with a configuration of its own:

* **FindCatchUp**. The comment at `recovery.rs:3173` says that startup unconditionally enqueues an AdvanceRun for an active
  run; the code does so only when the run has no pending or running work. The pending advance of a retried attempt that a
  prompt failure blocked is such work, and when it is claimed it returns at its blocked target: the run stays running and
  nothing will wake it.
* **FindReopened**. `RunStatus::is_terminal` counts completed runs (`domain/src/run.rs:78`), and commands refuse them.
  ResolveWorkflowConflictTransition (`command_handler.rs:4830`) does not look at the status. An earlier stage retried beside a retried
  attempt of the end state may record a conflict before the end completes the run; resolving it sets the completed run running.
* **FindGateBudget**. The budget is judged by the stages listed when the advance began (`orchestrator.rs:6156`). An approval decided after
  that spends the gate's last iteration, and the advance enters the gate once more.
  `src/docs/reference/rust-control-plane.md:359` says the transition is skipped when completed iterations reach the maximum.
* **FindHold**. After a failed cleanup host recovery cancels the execution and leaves the item to it. An ACP error of the old task
  sets the execution to failed whatever its status was (`engine/src/executor.rs:13483`), `fail_attempt` passes the fence and the held
  item fails, where `src/docs/reference/execution-truth-and-recovery.md:477` says that cancellation keeps the
  old worker from bypassing the hold. HostOwnedTaskIsInert names this exception, and HostOwnedInert proves that this and the
  requeue after a capacity answer are the only ones.

Observations made while modelling, without a run of their own.

InvokeAgent items and writer:

* contention requeues an item with its preclaim; when host recovery cancels the execution before the
  item is resumed, the resumed task returns Ok, `complete_attempt` treats the execution as stale, and nobody settles
  the item before the next restart (`executor.rs:12170`);
* a late import of an attempt that P080 replaced quarantines its outputs and calls
  `work_items::fail_tx` (`executor.rs:18902`, `work_items.rs:4318`), which fails the replacement's item;
* cancellation leaves source claims active, so a task past its ownership checks still activates
  its outputs (`cancellation.rs:460`; compare
  `src/docs/reference/recovery-retry-state-machine-test-matrix.md:101`);
* startup takes an existing repair row for a replay and requeues an item at every later restart
  (`work_items.rs:1562`; compare line 85 of the same matrix);
* the shutdown signal reaches the executor and the flush task together: an idle executor exits
  before the buffered Class B writes are sent (`writer.rs:1471`);

* the provider-capacity requeue (`work_items.rs:3277`) matches the item by id and status only, so
  when host recovery replaced the attempt in between, the replacement loses its preclaim and keeps
  its capacity slot;
* the sweep may complete an item that contention made pending since it was selected; `complete` of
  a pending item inserts no wake-up (`work_items.rs:2107`; compare
  `src/docs/reference/rust-control-plane.md:802`);
* an ACP error during host cleanup frees the slot that `host_interruption.rs:402` means to
  keep reserved;
* the start-capacity check counts the execution a requeued item still holds
  (`executor.rs:1494`): with a provider limit of one (`domain/src/provider.rs:101`) the item waits for itself;
* the session-identity-conflict requeue cannot be reached by a claimed item (`executor.rs:271`);
* pending items of a run that is being cancelled can still be claimed (`work_items.rs:271`);
* P080 files a stale execution under the oldest running item of its stage (`p080.rs:188`);
* last-writer-wins by `observed_at` (`write_class.rs:137`) holds within the coalescing buffer only: once an
  entry is drained, an older write of its key may be committed after it;
* Class B submissions never increment the pending count of their lane, which the executor decrements
  (`writer.rs:1647`, `:1774`), so the starvation watchdog does not see that lane;
* a write whose caller got WriteTimeout may still commit. `AnswerIsTrue` leaves exactly this
  case open.

Side-effect ledger:

* the result of `executor_settle_cas_tx` is not looked at (`executor.rs:17493`): stage and execution are completed
  though the row went to reconciliation; CompletedIsTrue shows that the writes were made all the same;
* `mark_external_write_started` does not ask whether the lease is alive, and push and upload pass the
  time their call began as `now`, so their lease never counts as expired when they settle;
* a lost renewal drops the call but not the child process; clearing the effect then lets another call
  write to the target beside it (the exception in OverlapOnlyIfCleared);
* `effects.reconcile` recommends clearing rows that already have a settlement, which the write
  unit refuses (`effects.rs:584`);
* `force_reconcile` uses a settlement source that the CHECK of migration 052 does not allow;
* settled rows go to needs_reconciliation, which `can_transition_to` does not list;
* the watchdog runs only from ResetSession (`command_handler.rs:5871`), and its scan of 100 rows includes every
  settled one.

Run lifecycle:

* a crash between a gate's wait and its approval leaves a gate nobody can decide, and a cursor parked
  after its conflict was resolved costs the next restart its wakeup: with FindCatchUp the exceptions (`CostOfCrash`) of NeverStalls;
* the task of a single-task stage settles it, rebuilds the projections and enqueues its AdvanceRun in three steps
  (`executor.rs:17100` on). When the rebuild fails after the stage of a retried attempt was settled, the advance that the item's end
  enqueues is aimed at that stage and only ends its authority: the run stands still until an operator or a restart
  (`CostOfError`, the other exception of NeverStalls);
* that settlement has no guard: a task whose stage was retried or whose run was cancelled meanwhile settles the replaced stage anew,
  and a single-task stage is completed before, and though, its item may still fail. CompletedIsClean and BudgetHolds are
  therefore about stages of several tasks;
* ResolveWorkflowConflictTransition asks for no status of the run and revives a cancelled one; the rejection of
  `state_11_manual_release` does so too (`command_handler.rs:6366`), hence the premise on open approvals in CompletedIsFinal;
* a self-loop enters its state once more than `LoopMax` allows, because the stage about to end is not yet
  counted; BudgetHolds is about moves to another state;
* a worktree that cannot be provisioned leaves the stage running in a blocked run;
* RetryStage during an advance may leave two live stages of different states.

Command idempotency:

* a committed lease is never removed, so for a principal `runs.retry` of a run works once: when the run stalls again, a
  new request id is answered with the old outcome by the alias and nothing is queued (`command_handler.rs:9560`; compare
  `src/docs/reference/rust-control-plane.md:845`). AnswerIsTrue says only that such an answer names a retry that was
  committed at some time. The same holds for `stages.retry` of a stage with the same options;
* a refused `stages.retry` leaves its lease pending (`command_handler.rs:4246`); the index on the intent then answers every
  other request id with IDEMPOTENCY_IN_FLIGHT, also after the lease ran out, because `expire_stale` has no caller and
  `reacquire_expired_tx` looks at its own request id only (compare `domain/src/commands.rs:996`);
* when its lease cannot be committed, `runs.retry` fails lease and journal row and commits them together with the AdvanceRun
  it has enqueued (`command_handler.rs:9748`): the caller is told of an error, and the run is woken all the same;
* `runs.retry` goes on after its own failed lease and is answered IDEMPOTENCY_IN_FLIGHT, since the failed lease
  still occupies the request id;
* the committed-unack recovery does not compare the request hash, so another body under the same key is told that its command
  committed (`mcp-server/src/server.rs:2640`; compare `src/docs/reference/boundary-first-api-auth-contract.md:255`); the second
  part of AnswerIsTrue is therefore about the key only;
* an error is no refusal: a decision or a keyed command whose projections cannot be rebuilt after its commit is answered with an
  error (`command_handler.rs:6575`, `:4898`). CommittedIsReplayed says that sending it again is safe: it meets its
  lease or its key;
* `P083_FAILED_TERMINAL_RETRY_POLICIES` says that the run's status guards against double queueing; `runs.retry` checks
  only that the run is not over, and enqueues.

## Not modelled

PROJECT.json lists every part with the reason. In the parts that are modelled: work-item kinds other than
InvokeAgent and AdvanceRun, output repair (P079), permission requests, session policy, prompt
assembly, P080 rollout controls and readback, host epochs and evidence rows,
`repair_stale_invoke_agent_startups` (no production caller),
`requeue_running_preclaimed_invoke_for_stage` (finds nothing at startup after
the phases before it), the preflight exemption of one provider, the writer's metrics and watchdog,
and the cancellation token, whose effect is one of the failures of `RunWork`. Of the orchestrator: flat runs,
continuations (P039), the automatic retries of a failed stage (P058, contract outputs), dynamic routing,
mediation, loop-budget extensions, side-effect preflights, errors of an advance that are not transient, and the branches
for particular states: the hold for a rollout contract, the block of the code-writer handoff, the synthesis of implementation
reviews and the conflict of the aggregate truth (the refinement guard is an artifact condition). Of startup: the P091 repairs and, in their
non-default mode "enforce", their suppression of the catch-up advance (`recovery.rs:3182`). Of
the commands: those other than the ones named above, and GraphQL's `approval_mutation_idempotency`; expiry and abandonment of leases, which
nothing calls. Of the ledger: attempt rows, evidence contents, the scan's limit.

The shutdown signals of `engine/src/shutdown_service.rs` are left out because they are not reached:
`provider_sessions::set_process_identity` has no production caller, so no session has a process id and each
ends held, unsignalled.

The repository is far larger than what is modelled: most of it is request handling, read projections, prompt
and evidence assembly, parsing, validation and transport, with no concurrent state of its own.

## Plan

Done so far: the InvokeAgent queue with its actors, the write gateway, the side-effect ledger with its
abstract promise and refinement, the run lifecycle with its commands and restart, command idempotency, and a proof of every
safety property the runs check. In this order:

1. *An abstract writer* (an operation is committed at most once, then answered) that DbWriter implements.
2. *The link of RunLifecycle to InvokeAgents* (an item is pending, then settled once) as a refinement.
3. *Sessions*: ACP session generations, reuse policy, close racing a prompt.
4. *Leases*: toolchain lease exclusion and at-most-once Xcode effects.
5. *Spool*: write, fsync, rename and enqueue order of the evidence spool against a crash; continuations.
