---------------------------- MODULE RunLifecycle ----------------------------
(***************************************************************************)
(* The life of one workflow-backed run: the AdvanceRun items that drive it *)
(* through its compiled plan, the operators' commands that change it while *)
(* an AdvanceRun is under way, and the restart of the control plane.       *)
(*                                                                         *)
(* The executor's loop handles one AdvanceRun at a time and awaits it, so  *)
(* there is one advance in flight; each of its database writes is a step   *)
(* of its own, and what it read earlier (the run's status, the stages) it  *)
(* keeps in adv.  Commands and InvokeAgent completions are single          *)
(* transactions that may fall between any two of these steps.  Stage       *)
(* executions are numbered in the order of started_at.                     *)
(*                                                                         *)
(* An InvokeAgent item is only its status here, and its task only whether  *)
(* it may still settle a single-task stage; InvokeAgents models how they   *)
(* get there.  Left out: flat runs, P039 continuations, P058 and contract  *)
(* output retries of a failed stage, dynamic routing, mediation, loop      *)
(* budget extensions, the side-effect preflights, the holds of             *)
(* evaluate_and_transition for particular states (rollout contract,        *)
(* code-writer handoff, implementation review, aggregate truth), and       *)
(* non-transient errors of an advance, which fail its item.                *)
(***************************************************************************)
EXTENDS Integers, Sequences, FiniteSets

CONSTANTS
    States, Initial, NoState,
    Gates,      \* is_manual_gate
    Ends,       \* is_end
    Tasks,
    Phases,     \* the tasks of each phase of a state: its owner's one task when it
                \* declares none, the post_approval_tasks of a gate.  A state with one
                \* task in all is settled by that task (SettleSingle), the others by
                \* an advance (SettleStage)
    Rework,     \* where the rejection of some gates sends the run by itself:
                \* state_11_manual_release to state_10_implementation_refined
    Moves,      \* transitions: a sequence of [to, when] per state
    LoopMax,    \* loop_config.max of the states that have one
    MaxStages,  \* bound: stage executions
    MaxCommands,\* bound: commands of the operators, decisions on approvals apart
    MaxRestarts,\* bound: restarts
    MaxQueue    \* bound: queued advances to which a task adds its own

ASSUME RunLifecycleAssumption ==
    /\ Initial \in States /\ NoState \notin States
    /\ Gates \subseteq States /\ Ends \subseteq States \ Gates
    /\ Phases \in [States -> Seq(SUBSET Tasks)]
    /\ \A s \in States \ (Gates \cup Ends) : Phases[s] # <<>>
    /\ \A s \in States : \A p \in DOMAIN Phases[s] : Phases[s][p] # {}
    /\ DOMAIN Rework \subseteq Gates /\ \A s \in DOMAIN Rework : Rework[s] \in States
    /\ Moves \in [States -> Seq([to : States,
                                 when : {"true", "granted", "rejected", "artifact"}])]
    /\ DOMAIN LoopMax \subseteq States /\ \A s \in DOMAIN LoopMax : LoopMax[s] \in Nat
    /\ MaxStages \in Nat /\ MaxCommands \in Nat /\ MaxRestarts \in Nat /\ MaxQueue \in Nat

VARIABLES
    run,       \* status, current_state, cancellation_requested_at and _settled_at
    stages,    \* the stage executions, each with the state of its retry authority
    items,     \* the InvokeAgent item of each stage execution and task
    workers,   \* the executor's task of each item: busy, or past the settlement of
               \* the stage
    approvals, \* the approvals in the order of requested_at
    conflict,  \* the current blocking workflow conflict and its selectable targets
    parked,    \* the transition cursor's resume_policy awaits a conflict's resolution
    queue,     \* pending AdvanceRun items: target stage execution (0: run-scoped)
               \* and stage_id
    adv,       \* the AdvanceRun in flight
    finalizer, \* the task spawned to finalize a cancellation
    commands, restarts

tables == <<run, stages, items, approvals, conflict, parked, queue>>
vars == <<tables, adv, workers, finalizer, commands, restarts>>
rest == <<conflict, parked, workers, finalizer, commands, restarts>>

Over == {"completed", "failed", "blocked", "skipped"}
Closed == {"completed", "cancelled"}
Waiting == {"pending", "running"}
NoConflict == [state |-> NoState, targets |-> {}]
Idle == [pc |-> "idle", target |-> 0, tag |-> NoState, live |-> FALSE,
         was |-> "pending", at |-> Initial, stage |-> 0, todo |-> {},
         spent |-> {}, next |-> NoState, targets |-> {}]

RunStatus == {"pending", "running", "waiting_approval", "blocked", "cancelling"} \cup Closed
StageRow == [state : States, status : {"pending", "running", "waiting_approval"} \cup Over,
             iter : Nat, auth : {"none", "active", "superseded", "terminalized"}]
Steps == {"idle", "decide", "create", "gate", "request", "pause", "open", "start",
          "provision", "enqueue", "end_stage", "complete_stage", "fail_stage", "block",
          "complete_run", "evaluate", "select", "cursor", "again", "move", "wake",
          "conflict", "conflict_block", "conflict_park", "finish"}

TypeOK ==
    /\ run \in [status : RunStatus, state : States, requested : BOOLEAN, settled : BOOLEAN]
    /\ stages \in Seq(StageRow) /\ Len(stages) <= MaxStages
    /\ items \in [1..MaxStages -> [Tasks -> Waiting \cup
                     {"absent", "completed", "failed", "cancelled"}]]
    /\ workers \in [1..MaxStages -> [Tasks -> {"none", "busy", "settled"}]]
    /\ approvals \in Seq([state : States,
                          decision : {"requested", "granted", "rejected", "expired"}])
    /\ conflict \in [state : States \cup {NoState}, targets : SUBSET States]
    /\ parked \in BOOLEAN /\ finalizer \in BOOLEAN
    /\ queue \in Seq([target : 0..Len(stages), tag : States \cup {NoState}])
    /\ adv \in [pc : Steps, target : 0..Len(stages), tag : States \cup {NoState},
                live : BOOLEAN, was : RunStatus, at : States, stage : 0..Len(stages),
                todo : SUBSET Tasks, spent : SUBSET States,
                next : States \cup {NoState}, targets : SUBSET States]
    /\ commands \in 0..MaxCommands /\ restarts \in 0..MaxRestarts

RunScoped == [target |-> 0, tag |-> NoState]
NoWorkers == [k \in 1..MaxStages |-> [t \in Tasks |-> "none"]]

Init ==
    /\ run = [status |-> "pending", state |-> Initial, requested |-> FALSE, settled |-> FALSE]
    /\ stages = <<>>
    /\ items = [k \in 1..MaxStages |-> [t \in Tasks |-> "absent"]]
    /\ workers = NoWorkers
    /\ approvals = <<>> /\ conflict = NoConflict /\ parked = FALSE
    /\ queue = <<RunScoped>> /\ adv = Idle /\ finalizer = FALSE
    /\ commands = 0 /\ restarts = 0

-----------------------------------------------------------------------------
(* What the tables say                                                     *)

Of(s) == {k \in DOMAIN stages : stages[k].state = s}
Last(s) == IF Of(s) = {} THEN 0 ELSE CHOOSE k \in Of(s) : \A j \in Of(s) : j <= k
First(s) == CHOOSE k \in Of(s) : \A j \in Of(s) : k <= j
HighestIteration(s) ==
    IF Of(s) = {} THEN 0 ELSE CHOOSE n \in {stages[k].iter : k \in Of(s)} :
                                  \A k \in Of(s) : stages[k].iter <= n
Invoked(k) == {t \in Tasks : items[k][t] # "absent"}
InFlight(k) == {t \in Tasks : items[k][t] \in Waiting}
HasFailed(k) == \E t \in Tasks : items[k][t] = "failed"

(* The phases of which no task, nor one of a later phase, was enqueued. *)
Ahead(k) == LET P == Phases[stages[k].state]
            IN  {p \in DOMAIN P : \A q \in DOMAIN P : P[q] \cap Invoked(k) # {} => q < p}
NextPhase(k) == CHOOSE p \in Ahead(k) : \A q \in Ahead(k) : p <= q

(* loop_iterations_for_state, closeout_loop_budget_exhaustion *)
Iterations(s) == {stages[k].iter : k \in {j \in Of(s) : stages[j].status = "completed"}}
Exhausted == {s \in DOMAIN LoopMax : Cardinality(Iterations(s)) >= LoopMax[s]}

Decided(s, d) == \E a \in DOMAIN approvals : approvals[a] = [state |-> s, decision |-> d]

SetStage(k, status) == stages' = [stages EXCEPT ![k].status = status]
SetRun(status) == run' = [run EXCEPT !.status = status]
Enqueued(target, tag) == Append(queue, [target |-> target, tag |-> tag])
NewStage(s, iter, auth) == [state |-> s, status |-> "pending", iter |-> iter, auth |-> auth]

(* The rows of the queue q at the positions I, in their order. *)
Place(I, n) == CHOOSE i \in I : Cardinality({j \in I : j <= i}) = n
Kept(q, I) == [n \in 1..Cardinality(I) |-> q[Place(I, n)]]

-----------------------------------------------------------------------------
(* advance_run_from_payload: a targeted advance needs its retry authority. *)

(* The work item is claimed, first in first out. *)
Claim ==
    /\ adv.pc = "idle" /\ queue # <<>>
    /\ queue' = Tail(queue)
    /\ LET e == Head(queue)
           authorized == e.target # 0 => /\ e.target \in DOMAIN stages
                                         /\ stages[e.target].auth = "active"
           failed == e.target # 0 /\ stages[e.target].status \in Over \ {"completed"}
       IN  \/ ~authorized /\ UNCHANGED <<stages, adv>>
           \/ /\ authorized /\ failed
              /\ stages' = [stages EXCEPT ![e.target].auth = "terminalized"]
              /\ UNCHANGED adv
           \/ /\ authorized /\ ~failed /\ run.status \notin Closed
              /\ adv' = [Idle EXCEPT !.pc = "decide", !.target = e.target, !.tag = e.tag,
                             !.live = TRUE, !.was = run.status,
                             !.at = IF e.target = 0 THEN run.state ELSE stages[e.target].state]
              /\ UNCHANGED stages
           \/ authorized /\ ~failed /\ run.status \in Closed /\ UNCHANGED <<stages, adv>>
    /\ UNCHANGED <<run, items, approvals, rest>>

Finish == adv' = IF adv.target = 0 THEN Idle
                 ELSE [Idle EXCEPT !.pc = "finish", !.target = adv.target,
                                   !.tag = adv.tag, !.live = adv.live]

(* The targeted advance looks at its target again before it ends. *)
Terminalize ==
    /\ adv.pc = "finish" /\ adv' = Idle
    /\ stages' = IF stages[adv.target].status \in Over /\ stages[adv.target].auth = "active"
                 THEN [stages EXCEPT ![adv.target].auth = "terminalized"] ELSE stages
    /\ UNCHANGED <<run, items, approvals, queue, rest>>

-----------------------------------------------------------------------------
(* advance_run_workflow reads the stages, their items and the approvals,   *)
(* and decides from the current stage what to do.                          *)

Current == IF adv.target # 0 THEN adv.target ELSE Last(adv.at)

(* A terminal stage is stale when another state was entered after it.      *)
Stale(k) == /\ adv.target = 0 /\ stages[k].status \in Over
            /\ \E j \in DOMAIN stages : j > k /\ stages[j].state # adv.at

At(statuses) == /\ adv.pc = "decide" /\ Current # 0
                /\ ~Stale(Current) /\ stages[Current].status \in statuses
\* Mutant: the loop budget is not computed.
DoUnbudgeted(step, k, todo) == adv' = [adv EXCEPT !.pc = step, !.stage = k, !.todo = todo]
Do(step, k, todo) == adv' = [adv EXCEPT !.pc = step, !.stage = k, !.todo = todo,
                                        !.spent = Exhausted]
BareEnd(s) == s \in Ends /\ Phases[s] = <<>>

(* An approval or an item is outstanding: redundant advances stop here. *)
WaitOn == /\ At({"running", "waiting_approval"})
          /\ stages[Current].status = "running" => InFlight(Current) # {}
          /\ Finish

(* The stage runs without an item, or a phase ended well and has a successor. *)
FanOut == /\ At({"running"}) /\ InFlight(Current) = {} /\ ~HasFailed(Current)
          /\ Ahead(Current) # {}
          /\ Do("enqueue", Current, Phases[adv.at][NextPhase(Current)])

\* Mutant: the stage fails only if all its items did.
SettleOnMajority ==
    /\ At({"running"}) /\ InFlight(Current) = {}
    /\ HasFailed(Current) \/ Ahead(Current) = {}
    /\ Do(IF \A t \in Invoked(Current) : items[Current][t] = "failed"
          THEN "fail_stage" ELSE "complete_stage", Current, {})
SettleStage == /\ At({"running"}) /\ InFlight(Current) = {}
               /\ HasFailed(Current) \/ Ahead(Current) = {}
               /\ Do(IF HasFailed(Current) THEN "fail_stage" ELSE "complete_stage", Current, {})

Reconsider == At({"completed", "skipped"}) /\ Do("evaluate", Current, {})

(* An end state that was completed once completes the run despite a later  *)
(* failed retry; the run is blocked otherwise.                             *)
StageStopped ==
    /\ At({"failed", "blocked"})
    /\ IF adv.at \in Ends /\ Iterations(adv.at) # {} THEN Do("complete_run", Current, {})
       ELSE IF adv.was # "blocked" THEN Do("block", Current, {})
       ELSE Finish

(* A retried manual gate keeps its stage execution. *)
ReopenGate == At({"pending"}) /\ adv.at \in Gates /\ Do("gate", Current, {})

(* Case 2: no stage, a stale one, or the pending one of a retry. *)
Enter ==
    /\ adv.pc = "decide"
    /\ LET reuse == Current # 0 /\ stages[Current].status = "pending"
       IN  /\ Current # 0 => Stale(Current) \/ (reuse /\ adv.at \notin Gates)
           /\ IF reuse /\ ~BareEnd(adv.at) THEN Do("open", Current, {}) ELSE Do("create", 0, {})

Decide == /\ \/ WaitOn \/ FanOut \/ SettleStage \/ Reconsider
             \/ StageStopped \/ ReopenGate \/ Enter
          /\ UNCHANGED <<tables, workers, finalizer, commands, restarts>>

-----------------------------------------------------------------------------
(* The writes of advance_run_workflow, each on its own                     *)

Step(from, to) == adv.pc = from /\ adv' = [adv EXCEPT !.pc = to]

(* create_stage_for_state *)
Create ==
    /\ adv.pc = "create" /\ Len(stages) < MaxStages
    /\ stages' = Append(stages, NewStage(adv.at, HighestIteration(adv.at) + 1, "none"))
    /\ adv' = [adv EXCEPT !.stage = Len(stages) + 1,
                          !.pc = IF BareEnd(adv.at) THEN "end_stage"
                                 ELSE IF adv.at \in Gates THEN "gate" ELSE "open"]
    /\ UNCHANGED <<run, items, approvals, queue, rest>>

(* A manual gate: the stage waits, then an approval is requested, then the *)
(* run waits.                                                              *)
\* Mutant: the retried gate's stage is left pending.
OpenGateUnmarked == /\ Step("gate", "request")
                    /\ UNCHANGED <<run, stages, items, approvals, queue, rest>>
OpenGate == /\ Step("gate", "request") /\ SetStage(adv.stage, "waiting_approval")
            /\ UNCHANGED <<run, items, approvals, queue, rest>>
RequestApproval ==
    /\ Step("request", "pause")
    /\ approvals' = Append(approvals, [state |-> adv.at, decision |-> "requested"])
    /\ UNCHANGED <<run, stages, items, queue, rest>>
PauseRun == /\ adv.pc = "pause" /\ Finish
            /\ IF adv.was # "waiting_approval" THEN SetRun("waiting_approval") ELSE UNCHANGED run
            /\ UNCHANGED <<stages, items, approvals, queue, rest>>

(* A compute state: the stage runs, then the run, then the worktree is     *)
(* provisioned, whose failure blocks the run, then the tasks are enqueued  *)
(* one by one.                                                             *)
OpenStage == /\ Step("open", "start") /\ SetStage(adv.stage, "running")
             /\ UNCHANGED <<run, items, approvals, queue, rest>>
StartRun == /\ Step("start", "provision")
            /\ IF adv.was # "running" THEN SetRun("running") ELSE UNCHANGED run
            /\ UNCHANGED <<stages, items, approvals, queue, rest>>
Provision ==
    /\ adv.pc = "provision"
    /\ \/ UNCHANGED run /\ adv' = [adv EXCEPT !.pc = "enqueue", !.todo = Phases[adv.at][1]]
       \/ SetRun("blocked") /\ Finish
    /\ UNCHANGED <<stages, items, approvals, queue, rest>>
EnqueueTask ==
    /\ adv.pc = "enqueue"
    /\ \E t \in adv.todo :
          /\ items' = [items EXCEPT ![adv.stage][t] = "pending"]
          /\ IF adv.todo = {t} THEN Finish ELSE adv' = [adv EXCEPT !.todo = @ \ {t}]
    /\ UNCHANGED <<run, stages, approvals, queue, rest>>
(* block_prompt_finalization_failure *)
PromptFails ==
    /\ adv.pc = "enqueue" /\ Finish
    /\ SetStage(adv.stage, "blocked") /\ SetRun("blocked")
    /\ UNCHANGED <<items, approvals, queue, rest>>

(* stages::settle.  A bare end state settles the first stage of the state. *)
CompleteStage ==
    /\ adv.pc \in {"complete_stage", "end_stage"}
    /\ adv' = [adv EXCEPT !.pc = IF adv.at \in Ends THEN "complete_run" ELSE "evaluate"]
    /\ SetStage(IF adv.pc = "end_stage" THEN First(adv.at) ELSE adv.stage, "completed")
    /\ UNCHANGED <<run, items, approvals, queue, rest>>
FailStage == /\ Step("fail_stage", "block") /\ SetStage(adv.stage, "failed")
             /\ UNCHANGED <<run, items, approvals, queue, rest>>
\* Mutant: the run fails with its stage.
FailRun == /\ \/ adv.pc = "block" /\ SetRun("failed")
              \/ adv.pc = "complete_run" /\ SetRun("completed")
           /\ Finish
           /\ UNCHANGED <<stages, items, approvals, queue, rest>>
CloseRun == /\ \/ adv.pc = "block" /\ SetRun("blocked")
               \/ adv.pc = "complete_run" /\ SetRun("completed")
            /\ Finish
            /\ UNCHANGED <<stages, items, approvals, queue, rest>>

-----------------------------------------------------------------------------
(* evaluate_and_transition                                                 *)

(* evaluate_condition_classified: any approval of the state counts, from   *)
(* whichever visit; artifacts say what they say.                           *)
Holds(s, when) == \/ when \in {"true", "artifact"}
                  \/ when \in {"granted", "rejected"} /\ Decided(s, when)

(* The loop budget is that of the stages read when the advance began.  The *)
(* operator may select a candidate that matched or whose loop is spent.    *)
Evaluate ==
    /\ adv.pc = "evaluate"
    /\ \E A \in SUBSET {i \in DOMAIN Moves[adv.at] : Moves[adv.at][i].when = "artifact"} :
         LET moves == Moves[adv.at]
             holding == {i \in DOMAIN moves : Holds(adv.at, moves[i].when)} \ A
             matched == {i \in holding : moves[i].to \notin adv.spent}
         IN  adv' = IF adv.at \in Ends \/ moves = <<>>
                    THEN [adv EXCEPT !.pc = "complete_run"]
                    ELSE IF Cardinality(matched) = 1
                    THEN [adv EXCEPT !.pc = "select",
                              !.next = moves[CHOOSE i \in matched : TRUE].to]
                    ELSE [adv EXCEPT !.pc = "conflict",
                              !.targets = {moves[i].to : i \in holding}]
    /\ UNCHANGED <<tables, workers, finalizer, commands, restarts>>

(* The selected transition: an open conflict of the state is resolved, the *)
(* cursor released, a self-loop's next stage created, the run moved, and   *)
(* an AdvanceRun enqueued for the new state.                               *)
SelectMove ==
    /\ Step("select", "cursor")
    /\ conflict' = IF conflict.state = adv.at THEN NoConflict ELSE conflict
    /\ UNCHANGED <<run, stages, items, approvals, queue, parked, workers, finalizer, commands, restarts>>
ReleaseCursor ==
    /\ Step("cursor", IF adv.next = adv.at THEN "again" ELSE "move")
    /\ parked' = FALSE
    /\ UNCHANGED <<run, stages, items, approvals, queue, conflict, workers, finalizer, commands, restarts>>
SelfLoop ==
    /\ Step("again", "move") /\ Len(stages) < MaxStages
    /\ stages' = Append(stages, NewStage(adv.at, HighestIteration(adv.at) + 1, "none"))
    /\ UNCHANGED <<run, items, approvals, queue, rest>>
MoveRun ==
    /\ Step("move", "wake") /\ run' = [run EXCEPT !.state = adv.next]
    /\ UNCHANGED <<stages, items, approvals, queue, rest>>
WakeRun ==
    /\ adv.pc = "wake" /\ Finish /\ queue' = Append(queue, RunScoped)
    /\ UNCHANGED <<run, stages, items, approvals, rest>>

(* record_workflow_conflict_and_block *)
RecordConflict ==
    /\ Step("conflict", "conflict_block")
    /\ conflict' = [state |-> adv.at, targets |-> adv.targets]
    /\ UNCHANGED <<run, stages, items, approvals, queue, parked, workers, finalizer, commands, restarts>>
BlockOnConflict ==
    /\ Step("conflict_block", "conflict_park") /\ SetRun("blocked")
    /\ UNCHANGED <<stages, items, approvals, queue, rest>>
ParkCursor ==
    /\ adv.pc = "conflict_park" /\ Finish /\ parked' = TRUE
    /\ UNCHANGED <<run, stages, items, approvals, queue, conflict, workers, finalizer, commands, restarts>>

Advance == \/ Claim \/ Decide \/ Create \/ OpenGate \/ RequestApproval \/ PauseRun
           \/ OpenStage \/ StartRun \/ Provision \/ EnqueueTask \/ PromptFails
           \/ CompleteStage \/ FailStage \/ CloseRun \/ Evaluate \/ SelectMove
           \/ ReleaseCursor \/ SelfLoop \/ MoveRun \/ WakeRun
           \/ RecordConflict \/ BlockOnConflict \/ ParkCursor \/ Terminalize

-----------------------------------------------------------------------------
(* InvokeAgent items                                                       *)

(* total_tasks counts the tasks of all phases. *)
SingleTask(s) == \A p, q \in DOMAIN Phases[s] : \A t \in Phases[s][p], u \in Phases[s][q] : t = u

(* The loop claims no item while it awaits an advance.  The task spawned   *)
(* for the item outlives it where others end the item: a retry, a          *)
(* cancellation, host recovery, a sweep.  A later claim of the item takes  *)
(* the place of an earlier task that still lives.                          *)
ClaimInvoke ==
    /\ adv.pc = "idle"
    /\ \E k \in DOMAIN stages, t \in Tasks :
          /\ items[k][t] = "pending"
          /\ items' = [items EXCEPT ![k][t] = "running"]
          /\ workers' = [workers EXCEPT ![k][t] = "busy"]
    /\ UNCHANGED <<run, stages, approvals, conflict, parked, queue, adv, finalizer, commands,
                   restarts>>

(* The task of a single-task stage settles it, whatever its status is by   *)
(* then, before its item is ended (or after, where others ended the item). *)
SettleSingle ==
    /\ \E k \in DOMAIN stages, t \in Tasks, status \in {"completed", "failed"} :
          /\ workers[k][t] = "busy" /\ SingleTask(stages[k].state)
          /\ SetStage(k, status)
          /\ workers' = [workers EXCEPT ![k][t] = "settled"]
    /\ UNCHANGED <<run, items, approvals, conflict, parked, queue, adv, finalizer, commands,
                   restarts>>

(* Then the task of any stage enqueues an AdvanceRun, unless the rebuild of *)
(* the projections in between failed.                                       *)
Reevaluate ==
    /\ Len(queue) < MaxQueue
    /\ \E k \in DOMAIN stages, t \in Tasks :
          /\ \/ workers[k][t] = "settled"
             \/ workers[k][t] = "busy" /\ ~SingleTask(stages[k].state)
          /\ workers' = [workers EXCEPT ![k][t] = "none"]
    /\ queue' = Append(queue, RunScoped)
    /\ UNCHANGED <<run, stages, items, approvals, conflict, parked, adv, finalizer, commands,
                   restarts>>

(* requeue_attempt_after_transient_persistence_contention and the other    *)
(* retries of a task: its item is pending again.                           *)
Requeue ==
    /\ \E k \in DOMAIN stages, t \in Tasks :
          /\ items[k][t] = "running" /\ workers[k][t] # "none"
          /\ items' = [items EXCEPT ![k][t] = "pending"]
          /\ workers' = [workers EXCEPT ![k][t] = "none"]
    /\ UNCHANGED <<run, stages, approvals, conflict, parked, queue, adv, finalizer, commands,
                   restarts>>

(* complete_attempt_with_capacity, fail_attempt: with the item's end an    *)
(* AdvanceRun is enqueued, targeted if a retry authority is active.  The   *)
(* task of a single-task stage may live on, when another ended its item;   *)
(* that of a larger stage has no stage to settle.                          *)
SettleInvoke ==
    /\ \E k \in DOMAIN stages, t \in Tasks, outcome \in {"completed", "failed"} :
          /\ items[k][t] = "running"
          /\ items' = [items EXCEPT ![k][t] = outcome]
          /\ workers' = IF SingleTask(stages[k].state) THEN workers
                        ELSE [workers EXCEPT ![k][t] = "none"]
          /\ queue' = IF stages[k].auth = "active" THEN Enqueued(k, stages[k].state)
                                                   ELSE Append(queue, RunScoped)
    /\ UNCHANGED <<run, stages, approvals, conflict, parked, adv, finalizer, commands, restarts>>

-----------------------------------------------------------------------------
(* Commands                                                                *)

(* ResolveApproval, ApproveStage, RejectStage on a manual gate.  The       *)
(* rejection of a Rework gate moves the run itself and supersedes the      *)
(* conflict of the gate.                                                   *)
ResolveApproval ==
    /\ \E a \in DOMAIN approvals, decision \in {"granted", "rejected"} :
          LET s == approvals[a].state
              W == {k \in Of(s) : stages[k].status = "waiting_approval"}
              k == CHOOSE i \in W : \A j \in W : i <= j
          IN  /\ approvals[a].decision = "requested"
              /\ approvals' = [approvals EXCEPT ![a].decision = decision]
              /\ IF W = {} THEN UNCHANGED stages
                 ELSE SetStage(k, IF decision = "granted" /\ Phases[s] # <<>>
                                  THEN "running" ELSE "completed")
              /\ queue' = IF decision = "granted" \/ W # {} THEN Append(queue, RunScoped)
                                                            ELSE queue
              /\ IF s \in DOMAIN Rework /\ decision = "rejected" /\ W # {}
                 THEN /\ run' = [run EXCEPT !.status = "running", !.state = Rework[s]]
                      /\ conflict' = IF conflict.state = s THEN NoConflict ELSE conflict
                      /\ parked' = IF conflict.state = s THEN FALSE ELSE parked
                 ELSE UNCHANGED <<run, conflict, parked>>
    /\ UNCHANGED <<items, adv, workers, finalizer, commands, restarts>>

(* Each command but a decision on an approval counts against the bound. *)
Commanded == commands < MaxCommands /\ commands' = commands + 1

(* run_forbids_retry *)
Retriable == run.status \notin Closed \cup {"cancelling"} /\ ~run.settled

\* Mutant: the retry's own advance is enqueued first and cancelled with them.
RedirectedFirst(s, k) ==
    LET q == Append(queue, [target |-> k, tag |-> s])
    IN  Kept(q, {i \in DOMAIN q : q[i].tag # s})
(* The advances of the state are cancelled, one is aimed at the new attempt. *)
Redirected(s, k) ==
    Append(Kept(queue, {i \in DOMAIN queue : queue[i].tag # s}), [target |-> k, tag |-> s])

\* Mutant: the items of the replaced attempt go on.
RetryBeside ==
    /\ Retriable /\ Commanded /\ Len(stages) < MaxStages
    /\ \E k \in DOMAIN stages :
          LET s == stages[k].state
          IN  /\ k = Last(s) /\ stages[k].status \in {"failed", "blocked"}
              /\ stages' = Append([stages EXCEPT ![k].status = "skipped"],
                                  NewStage(s, stages[k].iter, "active"))
              /\ run' = [run EXCEPT !.status = "running", !.state = s]
              /\ queue' = Enqueued(Len(stages) + 1, s)
    /\ UNCHANGED <<items, approvals, conflict, parked, adv, workers, finalizer, restarts>>

(* The latest stage of a state that failed, or completed in a blocked run, *)
(* is skipped for a new attempt, its items and the advances of the state   *)
(* are cancelled, and the run goes back to that state.                     *)
RetryStage ==
    /\ Retriable /\ Commanded /\ Len(stages) < MaxStages
    /\ \E k \in DOMAIN stages :
          LET s == stages[k].state
          IN  /\ k = Last(s)
              /\ \/ stages[k].status \in {"failed", "blocked"}
                 \/ stages[k].status = "completed" /\ run.status = "blocked"
              /\ items' = [j \in 1..MaxStages |-> [t \in Tasks |->
                     IF j \in Of(s) /\ items[j][t] \in Waiting THEN "cancelled" ELSE items[j][t]]]
              /\ stages' = Append([j \in DOMAIN stages |->
                     [stages[j] EXCEPT !.status = IF j = k THEN "skipped" ELSE @,
                                       !.auth = IF j \in Of(s) /\ @ = "active"
                                                THEN "superseded" ELSE @]],
                     NewStage(s, stages[k].iter, "active"))
              /\ run' = [run EXCEPT !.status = "running", !.state = s]
              /\ conflict' = IF conflict.state = s THEN NoConflict ELSE conflict
              /\ parked' = IF conflict.state = s THEN FALSE ELSE parked
              /\ queue' = Redirected(s, Len(stages) + 1)
              /\ adv' = IF adv.tag = s THEN [adv EXCEPT !.live = FALSE] ELSE adv
    /\ UNCHANGED <<approvals, workers, finalizer, restarts>>

(* handle_retry_run *)
RetryRun ==
    /\ Retriable /\ Commanded
    /\ queue' = Append(queue, RunScoped)
    /\ UNCHANGED <<run, stages, items, approvals, conflict, parked, adv, workers, finalizer, restarts>>

(* ResolveWorkflowConflictTransition asks for no status of the run. *)
ResolveConflict ==
    /\ Commanded /\ run.state = conflict.state
    /\ \E s \in conflict.targets :
          LET k == Last(s)
              again == k # 0 /\ stages[k].status \in Over
          IN  /\ again => Len(stages) < MaxStages
              /\ stages' = IF again THEN Append(stages, NewStage(s, stages[k].iter + 1, "none"))
                                    ELSE stages
              /\ run' = [run EXCEPT !.status = "running", !.state = s]
              /\ queue' = Enqueued(0, s)
    /\ conflict' = NoConflict /\ parked' = FALSE
    /\ UNCHANGED <<items, approvals, adv, workers, finalizer, restarts>>

Expired(as) == [a \in DOMAIN as |-> IF as[a].decision = "requested"
                                    THEN [as[a] EXCEPT !.decision = "expired"] ELSE as[a]]

\* Mutant: a closed run is cancelled too.
CancelAnyRun ==
    /\ Commanded
    /\ run' = [run EXCEPT !.status = "cancelling", !.requested = TRUE]
    /\ finalizer' = TRUE
    /\ UNCHANGED <<stages, items, approvals, conflict, parked, queue, adv, workers, restarts>>

(* CancelRun with begin_settlement_tx: what runs is cancelled, what is     *)
(* pending stays.                                                          *)
CancelRun ==
    /\ Commanded /\ run.status \notin Closed
    /\ run' = [run EXCEPT !.status = "cancelling", !.requested = TRUE]
    /\ items' = [k \in 1..MaxStages |-> [t \in Tasks |->
           IF items[k][t] = "running" THEN "cancelled" ELSE items[k][t]]]
    /\ stages' = [k \in DOMAIN stages |->
           IF stages[k].status = "running" THEN [stages[k] EXCEPT !.status = "failed"]
                                           ELSE stages[k]]
    /\ approvals' = Expired(approvals)
    /\ adv' = [adv EXCEPT !.live = FALSE]
    /\ finalizer' = TRUE
    /\ UNCHANGED <<conflict, parked, queue, workers, restarts>>

(* finalize_settlement *)
Finalize ==
    /\ finalizer /\ finalizer' = FALSE
    /\ run' = IF run.status = "cancelling"
              THEN [run EXCEPT !.status = "cancelled", !.settled = TRUE] ELSE run
    /\ UNCHANGED <<stages, items, approvals, conflict, parked, queue, adv, workers, commands, restarts>>

Command == \/ ResolveApproval \/ RetryStage \/ RetryRun \/ ResolveConflict
           \/ CancelRun \/ Finalize

-----------------------------------------------------------------------------
(* Restart: the process is gone with the advance in flight and the         *)
(* finalizer; run_startup_repair is done before the executor starts.       *)

(* repair_cancelled_run_terminal_invariants *)
CloseCancelled ==
    /\ run' = [run EXCEPT !.status = "cancelled"]
    /\ items' = [k \in 1..MaxStages |-> [t \in Tasks |->
           IF items[k][t] \in Waiting THEN "cancelled" ELSE items[k][t]]]
    /\ stages' = [k \in DOMAIN stages |->
           [stages[k] EXCEPT !.status = IF @ \in Waiting THEN "skipped" ELSE @,
                             !.auth = IF @ = "active" THEN "terminalized" ELSE @]]
    /\ approvals' = Expired(approvals)
    /\ queue' = <<>>

(* repair_run.  Running items were requeued, so a running stage without an *)
(* item in flight has no execution left and is woken unless an advance is  *)
(* aimed at it.  A parked cursor loses the run-scoped advances; otherwise  *)
(* targeted advances whose target has an item are completed, the abandoned *)
(* one is requeued, and a run without work gets a catch-up advance.        *)
(* Branches that no state of this model reaches: a stage is blocked for a  *)
(* running execution without an item in flight, which the phases before    *)
(* this one leave none of (InvokeAgents: AttemptIsCurrent), and            *)
(* recover_blocked_stages_with_terminal_work skips the stages that a       *)
(* prompt failure blocked, as they carry a validation failure.  Left out:  *)
(* the P091 suppression of the catch-up, which is not the default mode,    *)
(* and the clearing of a blocked stage whose pending item kept a running   *)
(* execution (its task was requeued for contention before its import).     *)
RepairRun ==
    LET abandoned == IF adv.live THEN <<[target |-> adv.target, tag |-> adv.tag]>> ELSE <<>>
        busy == \E k \in DOMAIN stages : InFlight(k) # {}
        aimed(k) == \E i \in DOMAIN (queue \o abandoned) : (queue \o abandoned)[i].target = k
        orphans == {k \in DOMAIN stages :
                       /\ stages[k].status = "running" /\ InFlight(k) = {}
                       /\ IF Invoked(k) = {} THEN ~busy /\ queue \o abandoned = <<>>
                                             ELSE ~aimed(k)}
        woken == queue \o (IF orphans = {} THEN <<>> ELSE <<RunScoped>>)
        useful(e) == e.target = 0 \/ Invoked(e.target) = {}
        requeued(e) == e.target = 0 \/ (Invoked(e.target) = {} /\ stages[e.target].auth = "active")
        left == Kept(woken, {i \in DOMAIN woken : useful(woken[i])})
                \o Kept(abandoned, {i \in DOMAIN abandoned : requeued(abandoned[i])})
    IN  /\ items' = [k \in 1..MaxStages |-> [t \in Tasks |->
               IF items[k][t] = "running" THEN "pending" ELSE items[k][t]]]
        /\ queue' = IF parked THEN Kept(woken, {i \in DOMAIN woken : woken[i].target # 0})
                    ELSE IF left = <<>> /\ ~busy THEN <<RunScoped>> ELSE left
        /\ UNCHANGED <<run, stages, approvals>>

Restart ==
    /\ restarts < MaxRestarts /\ restarts' = restarts + 1
    /\ adv' = Idle /\ workers' = NoWorkers /\ finalizer' = FALSE
    /\ \/ run.settled /\ CloseCancelled
       \/ ~run.settled /\ run.status \notin Closed /\ RepairRun
       \/ /\ ~run.settled /\ run.status \in Closed
          /\ UNCHANGED <<run, stages, items, approvals, queue>>
    /\ UNCHANGED <<conflict, parked, commands>>

Next == \/ Advance \/ ClaimInvoke \/ SettleSingle \/ Reevaluate \/ Requeue \/ SettleInvoke
        \/ Command \/ Restart
Spec == Init /\ [][Next]_vars

-----------------------------------------------------------------------------
(* Properties                                                              *)

(* Nothing the control plane would do by itself is left.                   *)
Quiet == /\ adv.pc = "idle" /\ queue = <<>> /\ ~finalizer
         /\ \A k \in DOMAIN stages : InFlight(k) = {}
Answerable == \E k \in DOMAIN stages : /\ stages[k].status = "waiting_approval"
                                       /\ Decided(stages[k].state, "requested")

(* A crash between the stage's wait and its approval, a cursor parked after *)
(* its conflict was resolved, or work left over of a retried attempt that a *)
(* prompt failure blocked, which keeps the catch-up away and wakes nobody,  *)
(* costs the run its wakeup.                                                *)
CostOfCrash ==
    /\ restarts > 0
    /\ \/ parked
       \/ \E k \in DOMAIN stages :
             \/ stages[k].status = "waiting_approval"
             \/ stages[k].status = "blocked" /\ stages[k].auth \in {"active", "terminalized"}

(* The task of a retried single-task stage settled it and did not come to    *)
(* its own AdvanceRun, as the rebuild of the projections failed: the one     *)
(* enqueued with the item's end is aimed at that stage, and a targeted       *)
(* advance only terminalizes a stage that failed, or finds the authority     *)
(* already terminalized.                                                     *)
CostOfError == \E k \in DOMAIN stages :
    /\ SingleTask(stages[k].state) /\ stages[k].status \in {"completed", "failed"}
    /\ stages[k].auth \in {"active", "terminalized"}
    /\ \E t \in Tasks : workers[k][t] # "none"

(* No wakeup is lost: a run that nobody cancelled and that has no AdvanceRun *)
(* and no InvokeAgent item left is closed, or blocked, which is what tells   *)
(* an operator to act, or waits for a decision that someone can take.        *)
NeverStalls == Quiet /\ ~run.requested =>
                   run.status \in {"blocked"} \cup Closed \/ Answerable \/ CostOfCrash
                   \/ CostOfError

(* A stage execution of several tasks is completed only when none of its     *)
(* InvokeAgent items failed and none is still to come, whichever advance     *)
(* settled it.  (A single-task stage is completed by its task, before the    *)
(* item is.)                                                                 *)
CompletedIsClean == \A k \in DOMAIN stages :
    stages[k].status = "completed" /\ ~SingleTask(stages[k].state) =>
        ~HasFailed(k) /\ InFlight(k) = {}

(* The attempt a retry replaced has no item that could still run beside the  *)
(* new attempt's, though the retry may fall into an advance that is          *)
(* enqueueing tasks (a cancelled run apart).                                 *)
SkippedIsInert == ~run.requested =>
    \A k \in DOMAIN stages : stages[k].status = "skipped" => InFlight(k) = {}

(* An approval in the operators' inbox has a gate waiting for it: the        *)
(* decision will have an effect.                                             *)
RequestedIsAwaited == \A a \in DOMAIN approvals :
    approvals[a].decision = "requested" =>
        \E k \in Of(approvals[a].state) : stages[k].status = "waiting_approval"

(* A completed run that nobody cancelled and that has no conflict open on    *)
(* its state, nor an approval whose rejection moves the run by itself, stays *)
(* as it is, whatever advances are still queued or under way and whatever    *)
(* commands come.                                                            *)
CompletedIsFinal ==
    [][/\ run.status = "completed" /\ ~run.requested /\ conflict.state # run.state
       /\ \A s \in DOMAIN Rework : ~Decided(s, "requested")
       => run' = run]_run

(* A transition to another state never enters a compute state of several     *)
(* tasks whose loop budget is spent by then, though the budget was computed  *)
(* when the advance began and commands came in between.  (A single-task      *)
(* stage may be completed by its task in between.)                           *)
BudgetHolds ==
    [][adv.pc = "move" /\ adv'.pc = "wake" /\ ~SingleTask(adv.next)
           => adv.next \notin Exhausted \ (Gates \cup {adv.at})]_vars

(* A stage of a compute state is completed only after every one of its tasks *)
(* was enqueued and ended (rust-control-plane.md: after all tasks complete   *)
(* the orchestrator settles the stage).  Violated.                           *)
AllTasksRan == \A k \in DOMAIN stages :
    stages[k].status = "completed" /\ stages[k].state \notin Gates =>
        \A p \in DOMAIN Phases[stages[k].state] : Phases[stages[k].state][p] \subseteq Invoked(k)

(* A cancelling run stays so until the settlement makes it cancelled         *)
(* (run-control.md: remains visibly cancelling until settlement).  Violated. *)
CancelHolds == [][run.status = "cancelling" => run'.status \in {"cancelling", "cancelled"}]_run

(* A decided gate routes the run: there is no conflict at a gate while every *)
(* loop has budget (command_handler.rs: rejection is transition evidence so  *)
(* that the state machine can route normal loopbacks).  Violated.            *)
GateRoutes == adv.pc = "conflict" /\ adv.at \in Gates => adv.spent # {}

(* After a restart an active run that awaits nobody's decision has work to   *)
(* do (recovery.rs: unconditionally enqueue an AdvanceRun for any active     *)
(* run).  Violated.                                                          *)
CatchUpWakes ==
    restarts > 0 /\ Quiet /\ ~run.requested /\ ~parked
        => \/ run.status \in {"blocked"} \cup Closed
           \/ \E k \in DOMAIN stages : stages[k].status = "waiting_approval"

(* A completed run that nobody cancelled is terminal (run.rs: is_terminal).  *)
(* Violated.                                                                 *)
CompletedIsTerminal == [][run.status = "completed" /\ ~run.requested => run' = run]_run

(* No transition to another state enters one whose completed iterations      *)
(* reached its max (rust-control-plane.md: the loop-back transition is       *)
(* skipped).  Violated.                                                      *)
LoopIsBounded ==
    [][adv.pc = "move" /\ adv'.pc = "wake" /\ adv.next # adv.at
           => adv.next \notin Exhausted]_vars
=============================================================================
