------------------------- MODULE RunLifecycle_proofs -------------------------
(***************************************************************************)
(* For every plan, every number of stage executions, commands and restarts: *)
(* a completed stage execution of several tasks has no failed item and none *)
(* to come, and the attempt a retry replaced has no item in flight.         *)
(***************************************************************************)
EXTENDS RunLifecycle, TLAPS, FiniteSetTheorems, SequenceTheorems, WellFoundedInduction

-----------------------------------------------------------------------------
(* Least and greatest elements                                             *)

(* A nonempty set of naturals has a least element. *)
LEMMA LeastExists ==
    ASSUME NEW T \in SUBSET Nat, T # {}
    PROVE  \E x \in T : \A y \in T : x <= y
<1>1. PICK x \in T : \A y \in T : ~(<<y, x>> \in OpToRel(<, Nat))
    BY NatLessThanWellFounded, WFMin
<1>2. ASSUME NEW y \in T, ~(x <= y) PROVE FALSE
  <2>1. <<y, x>> \in Nat \X Nat /\ <<y, x>>[1] < <<y, x>>[2]
      BY <1>2
  <2>2. <<y, x>> \in OpToRel(<, Nat)
      BY <2>1 DEF OpToRel
  <2> QED BY <1>1, <2>2
<1> QED BY <1>2

(* A nonempty set of naturals with an upper bound has a greatest element. *)
LEMMA GreatestExists ==
    ASSUME NEW n \in Nat, NEW T \in SUBSET (0..n), T # {}
    PROVE  \E x \in T : \A y \in T : y <= x
<1> DEFINE U == {m \in Nat : \A y \in T : y <= m}
<1>1. n \in U
    OBVIOUS
<1>2. PICK x \in U : \A y \in U : x <= y
    BY <1>1, LeastExists
<1>3. x \in T
  <2> SUFFICES ASSUME x \notin T PROVE FALSE
      OBVIOUS
  <2>1. x \in Nat /\ \A y \in T : y \in Nat /\ y <= x /\ y # x
      BY <1>2
  <2>2. x # 0
    <3>1. PICK y \in T : TRUE
        OBVIOUS
    <3>2. y \in Nat /\ y <= x /\ y # x
        BY <2>1
    <3> QED BY <2>1, <3>2
  <2>3. x - 1 \in Nat /\ \A y \in T : y <= x - 1
      BY <2>1, <2>2
  <2>4. x - 1 \in U
      BY <2>3
  <2> QED BY <1>2, <2>1, <2>4
<1> QED BY <1>2, <1>3

-----------------------------------------------------------------------------
(* The inductive invariant                                                 *)

ItemStatus == Waiting \cup {"absent", "completed", "failed", "cancelled"}
AdvType == [pc : Steps, target : 0..Len(stages), tag : {adv.tag}, live : BOOLEAN,
            was : RunStatus, at : States, stage : 0..Len(stages), todo : SUBSET Tasks,
            spent : {adv.spent}, next : States \cup {NoState}, targets : SUBSET States]

(* The shape of what the argument reads. *)
Shape ==
    /\ run \in [status : RunStatus, state : States, requested : BOOLEAN, settled : BOOLEAN]
    /\ stages \in Seq(StageRow) /\ Len(stages) <= MaxStages
    /\ \A k \in DOMAIN stages : stages[k].iter <= Len(stages)
    /\ items \in [1..MaxStages -> [Tasks -> ItemStatus]]
    /\ conflict \in [state : States \cup {NoState}, targets : SUBSET States]
    /\ adv \in AdvType

Absent(k) == \A t \in Tasks : items[k][t] = "absent"
Clean(k) == \A t \in Tasks : items[k][t] \notin Waiting \cup {"failed"}

(* Items belong to stage executions that ran, of states with tasks. *)
ItemInv ==
    /\ \A k \in 1..MaxStages : k > Len(stages) => Absent(k)
    /\ \A k \in DOMAIN stages :
          /\ stages[k].status \in {"pending", "waiting_approval"} => Absent(k)
          /\ Absent(k) \/ Phases[stages[k].state] # <<>>
          /\ stages[k].status = "completed" => Clean(k) \/ SingleTask(stages[k].state)
          /\ stages[k].status = "skipped" /\ ~run.requested => InFlight(k) = {}

(* What the advance in flight knows of the stage it works on. *)
AdvInv ==
    /\ adv.pc = "decide" /\ adv.target # 0 => stages[adv.target].state = adv.at
    /\ adv.pc \in {"gate", "open"} =>
          /\ adv.stage # 0 /\ stages[adv.stage].state = adv.at
          /\ stages[adv.stage].status = "pending"
          /\ adv.pc = "open" => Phases[adv.at] # <<>>
    /\ adv.pc \in {"start", "provision", "enqueue"} =>
          /\ adv.stage # 0 /\ stages[adv.stage].state = adv.at
          /\ stages[adv.stage].status \in {"running", "failed", "skipped"}
          /\ ~run.requested => stages[adv.stage].status = "running"
          /\ Phases[adv.at] # <<>>
    /\ adv.pc \in {"request", "pause", "fail_stage"} => adv.stage # 0
    /\ adv.pc = "complete_stage" => adv.stage # 0 /\ Clean(adv.stage)
    /\ adv.pc = "end_stage" => BareEnd(adv.at) /\ Of(adv.at) # {}
    /\ adv.pc \in {"select", "cursor", "again", "move", "wake"} => adv.next \in States

LifecycleInv == Shape /\ ItemInv /\ AdvInv

TasksOf(s) == UNION {Phases[s][p] : p \in DOMAIN Phases[s]}

(* A task of the executor has an item, which is of its stage's plan, and a  *)
(* stage has no item before its first task is enqueued: no single-task      *)
(* stage is settled while an advance is still to enqueue its task.          *)
TaskInv ==
    /\ workers \in [1..MaxStages -> [Tasks -> {"none", "busy", "settled"}]]
    /\ \A k \in 1..MaxStages, t \in Tasks : workers[k][t] # "none" => items[k][t] # "absent"
    /\ \A k \in DOMAIN stages, t \in Tasks :
          items[k][t] # "absent" => t \in TasksOf(stages[k].state)
    /\ adv.pc = "enqueue" => adv.todo \subseteq TasksOf(adv.at)
    /\ adv.pc \in {"start", "provision"} \/ (adv.pc = "enqueue" /\ SingleTask(adv.at)) =>
          Absent(adv.stage)

-----------------------------------------------------------------------------
(* What the operators on the tables return                                 *)

StageStatus == {"pending", "running", "waiting_approval"} \cup Over

LEMMA StageFacts ==
    ASSUME Shape, NEW k \in DOMAIN stages
    PROVE  /\ k \in 1..Len(stages) /\ k \in 1..MaxStages
           /\ stages[k] \in StageRow
           /\ stages[k].state \in States /\ stages[k].status \in StageStatus
           /\ stages[k].iter \in Nat
<1>1. stages \in Seq(StageRow) /\ Len(stages) \in Nat /\ Len(stages) <= MaxStages /\ MaxStages \in Nat
    BY RunLifecycleAssumption DEF Shape
<1>2. k \in 1..Len(stages) /\ stages[k] \in StageRow
    BY <1>1
<1>3. k \in 1..MaxStages
    BY <1>1, <1>2
<1> QED BY <1>2, <1>3 DEF StageRow, StageStatus

(* A stage's status changes and nothing else does. *)
LEMMA SetStageFacts ==
    ASSUME Shape, NEW k \in DOMAIN stages, NEW st \in StageStatus, SetStage(k, st)
    PROVE  /\ stages' \in Seq(StageRow) /\ Len(stages') = Len(stages)
           /\ DOMAIN stages' = DOMAIN stages
           /\ \A j \in DOMAIN stages :
                 /\ stages'[j].state = stages[j].state /\ stages'[j].iter = stages[j].iter
                 /\ stages'[j].status = IF j = k THEN st ELSE stages[j].status
                 /\ stages'[j].auth = stages[j].auth
<1> DEFINE row == [stages[k] EXCEPT !.status = st]
<1>1. stages \in Seq(StageRow) /\ stages[k] \in StageRow
    BY StageFacts DEF Shape
<1>2. row \in StageRow /\ row.state = stages[k].state /\ row.iter = stages[k].iter
      /\ row.status = st /\ row.auth = stages[k].auth
    BY <1>1 DEF StageRow, StageStatus
<1>3. stages' = [stages EXCEPT ![k] = row]
    BY DEF SetStage
<1> HIDE DEF row
<1>4. stages' \in Seq(StageRow) /\ Len(stages') = Len(stages)
    BY <1>1, <1>2, <1>3
<1>5. DOMAIN stages' = DOMAIN stages
    BY <1>1, <1>3
<1>6. \A j \in DOMAIN stages : stages'[j] = IF j = k THEN row ELSE stages[j]
    BY <1>1, <1>3
<1> QED BY <1>2, <1>4, <1>5, <1>6

(* A stage execution is added at the end. *)
LEMMA AppendFacts ==
    ASSUME Shape, NEW row \in StageRow, stages' = Append(stages, row)
    PROVE  /\ stages' \in Seq(StageRow) /\ Len(stages') = Len(stages) + 1
           /\ Len(stages) + 1 \in DOMAIN stages' /\ stages'[Len(stages) + 1] = row
           /\ DOMAIN stages \subseteq DOMAIN stages'
           /\ \A j \in DOMAIN stages' : j \in DOMAIN stages \/ j = Len(stages) + 1
           /\ \A j \in DOMAIN stages : stages'[j] = stages[j]
BY DEF Shape

LEMMA LastFacts ==
    ASSUME Shape, NEW s
    PROVE  /\ Last(s) = 0 <=> Of(s) = {}
           /\ Last(s) # 0 => Last(s) \in DOMAIN stages /\ stages[Last(s)].state = s
<1>1. Of(s) \in SUBSET (0..Len(stages)) /\ Len(stages) \in Nat /\ 0 \notin Of(s)
    BY DEF Shape, Of
<1>2. CASE Of(s) = {}
    BY <1>2 DEF Last
<1>3. CASE Of(s) # {}
  <2>1. \E k \in Of(s) : \A j \in Of(s) : j <= k
      BY <1>1, <1>3, GreatestExists
  <2>2. Last(s) \in Of(s)
      BY <1>3, <2>1 DEF Last
  <2> QED BY <1>1, <1>3, <2>2 DEF Of
<1> QED BY <1>2, <1>3

LEMMA FirstFacts ==
    ASSUME Shape, NEW s, Of(s) # {}
    PROVE  First(s) \in DOMAIN stages /\ stages[First(s)].state = s
<1>1. Of(s) \in SUBSET Nat
    BY DEF Shape, Of
<1>2. \E k \in Of(s) : \A j \in Of(s) : k <= j
    BY <1>1, LeastExists
<1>3. First(s) \in Of(s)
    BY <1>2 DEF First
<1> QED BY <1>3 DEF Of

LEMMA HighestFacts ==
    ASSUME Shape, NEW s
    PROVE  HighestIteration(s) \in 0..Len(stages)
<1> DEFINE T == {stages[k].iter : k \in Of(s)}
<1>1. Len(stages) \in Nat /\ T \in SUBSET (0..Len(stages))
    BY StageFacts DEF Shape, Of
<1>2. CASE Of(s) = {}
    BY <1>1, <1>2 DEF HighestIteration
<1>3. CASE Of(s) # {}
  <2>1. \E n \in T : \A m \in T : m <= n
      BY <1>1, <1>3, GreatestExists
  <2>2. \E n \in T : \A k \in Of(s) : stages[k].iter <= n
      BY <2>1
  <2>3. HighestIteration(s) \in T
      BY <1>3, <2>2 DEF HighestIteration
  <2> QED BY <1>1, <2>3
<1> QED BY <1>2, <1>3

-----------------------------------------------------------------------------
(* The advance in flight                                                   *)

Fields == /\ adv'.target = adv.target /\ adv'.at = adv.at /\ adv'.stage = adv.stage
          /\ adv'.todo = adv.todo /\ adv'.next = adv.next /\ adv'.targets = adv.targets

(* The next write of the same advance. *)
LEMMA StepFacts ==
    ASSUME Shape, NEW pc \in Steps, adv' = [adv EXCEPT !.pc = pc],
           Len(stages') \in Nat, Len(stages) <= Len(stages')
    PROVE  adv' \in AdvType' /\ adv'.pc = pc /\ Fields
<1>1. /\ adv.target \in 0..Len(stages') /\ adv.stage \in 0..Len(stages')
      /\ adv.was \in RunStatus /\ adv.live \in BOOLEAN
      /\ adv.at \in States /\ adv.todo \in SUBSET Tasks
      /\ adv.next \in States \cup {NoState} /\ adv.targets \in SUBSET States
    BY DEF Shape, AdvType
<1>2. adv' = [pc |-> pc, target |-> adv.target, tag |-> adv.tag, live |-> adv.live,
              was |-> adv.was, at |-> adv.at, stage |-> adv.stage, todo |-> adv.todo,
              spent |-> adv.spent, next |-> adv.next, targets |-> adv.targets]
    BY DEF Shape, AdvType
<1> QED BY <1>1, <1>2 DEF AdvType, Fields

LEMMA DoFacts ==
    ASSUME Shape, NEW pc \in Steps, NEW k \in 0..Len(stages), NEW todo \in SUBSET Tasks,
           Do(pc, k, todo), UNCHANGED stages
    PROVE  /\ adv' \in AdvType' /\ adv'.pc = pc /\ adv'.stage = k /\ adv'.at = adv.at
           /\ adv'.todo = todo /\ adv'.target = adv.target
BY DEF Shape, AdvType, Do

LEMMA IdleFacts ==
    ASSUME Shape, adv' = Idle, Len(stages') \in Nat
    PROVE  adv' \in AdvType' /\ adv'.pc = "idle"
BY RunLifecycleAssumption DEF Shape, AdvType, Idle, Steps, RunStatus

LEMMA FinishFacts ==
    ASSUME Shape, Finish, Len(stages') \in Nat, Len(stages) <= Len(stages')
    PROVE  adv' \in AdvType' /\ adv'.pc \in {"idle", "finish"}
<1>1. CASE adv.target = 0
    BY <1>1, IdleFacts DEF Finish
<1>2. CASE adv.target # 0
  <2>1. adv.target \in 0..Len(stages') /\ adv.live \in BOOLEAN
      BY DEF Shape, AdvType
  <2>2. adv' = [Idle EXCEPT !.pc = "finish", !.target = adv.target,
                            !.tag = adv.tag, !.live = adv.live]
      BY <1>2 DEF Finish
  <2>3. adv' = [pc |-> "finish", target |-> adv.target, tag |-> adv.tag, live |-> adv.live,
                was |-> "pending", at |-> Initial, stage |-> 0, todo |-> {},
                spent |-> {}, next |-> NoState, targets |-> {}]
      BY <2>2 DEF Idle
  <2> QED BY <2>1, <2>3, RunLifecycleAssumption DEF AdvType, Steps, RunStatus
<1> QED BY <1>1, <1>2

LEMMA RestingAdv ==
    ASSUME adv'.pc \in {"idle", "finish"} PROVE AdvInv'
BY DEF AdvInv

(* An advance keeps what it knows over a change of the tables that leaves the *)
(* states of the rows, the pending rows pending, and the running ones running *)
(* as long as nobody cancelled the run.                                       *)
LEMMA AdvKept ==
    ASSUME Shape, AdvInv, adv'.pc = adv.pc, Fields,
           DOMAIN stages \subseteq DOMAIN stages',
           run'.requested = FALSE => run.requested = FALSE,
           run.requested \in BOOLEAN, run'.requested \in BOOLEAN,
           \A k \in DOMAIN stages :
              /\ stages'[k].state = stages[k].state
              /\ stages[k].status = "pending" => stages'[k].status = "pending"
              /\ stages[k].status \in {"running", "failed", "skipped"} =>
                    stages'[k].status \in {"running", "failed", "skipped"}
              /\ stages[k].status = "running" /\ ~run'.requested => stages'[k].status = "running"
              /\ Clean(k) => Clean(k)'
    PROVE  AdvInv'
<1>1. /\ adv.stage # 0 => adv.stage \in DOMAIN stages
      /\ adv.target # 0 => adv.target \in DOMAIN stages
    BY DEF Shape, AdvType
<1>2. Of(adv.at) # {} => Of(adv.at)' # {}
    BY DEF Of, Fields
<1>3. BareEnd(adv.at) => BareEnd(adv.at)'
    BY DEF BareEnd, Fields
<1>4. adv.pc \in {"start", "provision", "enqueue"} /\ run'.requested = FALSE =>
          stages'[adv.stage].status = "running"
    BY <1>1 DEF AdvInv
<1> QED BY <1>1, <1>2, <1>3, <1>4 DEF AdvInv, Fields

(* The items of a stage stay consistent with its status over a change of it. *)
LEMMA ItemsKept ==
    ASSUME Shape, ItemInv, UNCHANGED items,
           Len(stages') = Len(stages), DOMAIN stages' = DOMAIN stages,
           run'.requested = FALSE => run.requested = FALSE,
           run.requested \in BOOLEAN, run'.requested \in BOOLEAN,
           \A k \in DOMAIN stages :
              /\ stages'[k].state = stages[k].state
              /\ \/ stages'[k].status = stages[k].status
                 \/ stages'[k].status \in {"running", "failed", "blocked"}
                 \/ stages'[k].status = "waiting_approval" /\ Absent(k)
                 \/ /\ stages'[k].status = "completed"
                    /\ Clean(k) \/ SingleTask(stages[k].state)
    PROVE  ItemInv'
BY DEF ItemInv, Absent, Clean, InFlight

LEMMA AbsentIsClean ==
    ASSUME NEW k, Absent(k) PROVE Clean(k) /\ InFlight(k) = {}
BY DEF Absent, Clean, InFlight, Waiting

-----------------------------------------------------------------------------
(* Steps of an advance that change no stage and no item                    *)

LEMMA RunStep ==
    ASSUME LifecycleInv, UNCHANGED <<stages, items>>,
           RequestApproval \/ PauseRun \/ StartRun \/ Provision \/ CloseRun
              \/ MoveRun \/ WakeRun \/ BlockOnConflict
    PROVE  LifecycleInv'
<1> USE DEF LifecycleInv
<1>1. Len(stages) \in Nat /\ Len(stages') = Len(stages)
    BY DEF Shape
<1>2. /\ run' \in [status : RunStatus, state : States, requested : BOOLEAN, settled : BOOLEAN]
      /\ run'.requested = run.requested /\ run'.settled = run.settled
  <2>1. MoveRun => adv.next \in States
      BY DEF MoveRun, Step, AdvInv
  <2> QED BY <2>1 DEF Shape, RequestApproval, PauseRun, StartRun, Provision, CloseRun,
              MoveRun, WakeRun, BlockOnConflict, SetRun, RunStatus, Closed
<1>3. ItemInv'
    BY <1>2, ItemsKept DEF Shape
<1>4. adv' \in AdvType' /\ AdvInv'
  <2>1. CASE PauseRun \/ CloseRun \/ WakeRun \/ (Provision /\ Finish)
      BY <1>1, <2>1, FinishFacts, RestingAdv DEF PauseRun, CloseRun, WakeRun
  <2>2. CASE Provision /\ ~Finish
    <3>1. /\ adv.pc = "provision"
          /\ adv' = [adv EXCEPT !.pc = "enqueue", !.todo = Phases[adv.at][1]]
        BY <2>2 DEF Provision
    <3>2. Phases[adv.at][1] \in SUBSET Tasks
      <4>1. adv.at \in States /\ Phases[adv.at] # <<>>
          BY <3>1 DEF AdvInv, Shape, AdvType
      <4>2. Phases[adv.at] \in Seq(SUBSET Tasks)
          BY <4>1, RunLifecycleAssumption
      <4> QED BY <4>1, <4>2
    <3>3. adv' \in AdvType' /\ adv'.pc = "enqueue" /\ adv'.stage = adv.stage /\ adv'.at = adv.at
        BY <1>1, <3>1, <3>2 DEF Shape, AdvType, Steps
    <3> QED BY <1>2, <3>1, <3>3 DEF AdvInv
  <2>3. CASE RequestApproval
    <3>1. adv' \in AdvType' /\ adv.pc = "request" /\ adv'.pc = "pause" /\ Fields
        BY <1>1, <2>3, StepFacts DEF RequestApproval, Step, Steps
    <3> QED BY <3>1 DEF AdvInv, Fields
  <2>4. CASE StartRun
    <3>1. adv' \in AdvType' /\ adv.pc = "start" /\ adv'.pc = "provision" /\ Fields
        BY <1>1, <2>4, StepFacts DEF StartRun, Step, Steps
    <3> QED BY <1>2, <3>1 DEF AdvInv, Fields
  <2>5. CASE MoveRun
    <3>1. adv' \in AdvType' /\ adv.pc = "move" /\ adv'.pc = "wake" /\ Fields
        BY <1>1, <2>5, StepFacts DEF MoveRun, Step, Steps
    <3> QED BY <3>1 DEF AdvInv, Fields
  <2>6. CASE BlockOnConflict
    <3>1. adv' \in AdvType' /\ adv'.pc = "conflict_park"
        BY <1>1, <2>6, StepFacts DEF BlockOnConflict, Step, Steps
    <3> QED BY <3>1 DEF AdvInv
  <2> QED BY <2>1, <2>2, <2>3, <2>4, <2>5, <2>6
<1>5. UNCHANGED conflict
    BY DEF RequestApproval, PauseRun, StartRun, Provision, CloseRun,
              MoveRun, WakeRun, BlockOnConflict, rest
<1> QED BY <1>1, <1>2, <1>3, <1>4, <1>5 DEF Shape

LEMMA TransitionStep ==
    ASSUME LifecycleInv, UNCHANGED <<run, stages, items>>,
           SelectMove \/ ReleaseCursor \/ RecordConflict \/ ParkCursor
    PROVE  LifecycleInv'
<1> USE DEF LifecycleInv
<1>1. Len(stages) \in Nat /\ Len(stages') = Len(stages)
    BY DEF Shape
<1>2. ItemInv'
    BY ItemsKept DEF Shape
<1>3. adv' \in AdvType' /\ AdvInv'
  <2>1. CASE SelectMove \/ ReleaseCursor
    <3>1. \E pc \in {"cursor", "again", "move"} :
              adv' \in AdvType' /\ adv'.pc = pc /\ Fields
        BY <1>1, <2>1, StepFacts DEF SelectMove, ReleaseCursor, Step, Steps
    <3>2. adv.pc \in {"select", "cursor"}
        BY <2>1 DEF SelectMove, ReleaseCursor, Step
    <3> QED BY <3>1, <3>2 DEF AdvInv, Fields
  <2>2. CASE RecordConflict
    <3>1. adv' \in AdvType' /\ adv'.pc = "conflict_block"
        BY <1>1, <2>2, StepFacts DEF RecordConflict, Step, Steps
    <3> QED BY <3>1 DEF AdvInv
  <2>3. CASE ParkCursor
      BY <1>1, <2>3, FinishFacts, RestingAdv DEF ParkCursor
  <2> QED BY <2>1, <2>2, <2>3
<1>4. conflict' \in [state : States \cup {NoState}, targets : SUBSET States]
  <2>1. NoConflict \in [state : States \cup {NoState}, targets : SUBSET States]
      BY DEF NoConflict
  <2>2. adv.at \in States /\ adv.targets \in SUBSET States
      BY DEF Shape, AdvType
  <2> QED BY <2>1, <2>2 DEF Shape, SelectMove, ReleaseCursor, RecordConflict, ParkCursor
<1> QED BY <1>1, <1>2, <1>3, <1>4 DEF Shape

(* The evaluation completes the run, selects a target with budget, or finds a *)
(* conflict.                                                                  *)
LEMMA EvaluateFacts ==
    ASSUME LifecycleInv, Evaluate
    PROVE  \/ adv' = [adv EXCEPT !.pc = "complete_run"]
           \/ \E s \in States \ adv.spent : adv' = [adv EXCEPT !.pc = "select", !.next = s]
           \/ \E T \in SUBSET States : adv' = [adv EXCEPT !.pc = "conflict", !.targets = T]
<1> USE DEF LifecycleInv
<1> DEFINE moves == Moves[adv.at]
<1> DEFINE Move == [to : States, when : {"true", "granted", "rejected", "artifact"}]
<1>1. moves \in Seq(Move)
    BY RunLifecycleAssumption DEF Shape, AdvType
<1>2. \A i \in DOMAIN moves : moves[i].to \in States
  <2>1. \A i \in DOMAIN moves : moves[i] \in Move
    <3> HIDE DEF moves, Move
    <3> QED BY <1>1
  <2> HIDE DEF moves
  <2> QED BY <2>1
<1>3. PICK A : LET holding == {i \in DOMAIN moves : Holds(adv.at, moves[i].when)} \ A
                   matched == {i \in holding : moves[i].to \notin adv.spent}
               IN  adv' = IF adv.at \in Ends \/ moves = <<>>
                          THEN [adv EXCEPT !.pc = "complete_run"]
                          ELSE IF Cardinality(matched) = 1
                          THEN [adv EXCEPT !.pc = "select",
                                    !.next = moves[CHOOSE i \in matched : TRUE].to]
                          ELSE [adv EXCEPT !.pc = "conflict",
                                    !.targets = {moves[i].to : i \in holding}]
    BY Zenon DEF Evaluate
<1> DEFINE holding == {i \in DOMAIN moves : Holds(adv.at, moves[i].when)} \ A
           matched == {i \in holding : moves[i].to \notin adv.spent}
<1>4. holding \subseteq DOMAIN moves /\ matched \subseteq DOMAIN moves
    OBVIOUS
<1>5. Cardinality(matched) = 1 =>
          (CHOOSE i \in matched : TRUE) \in DOMAIN moves /\ (CHOOSE i \in matched : TRUE) \in matched
  <2> SUFFICES ASSUME Cardinality(matched) = 1
               PROVE  (CHOOSE i \in matched : TRUE) \in matched
      BY <1>4
  <2>1. matched # {}
      BY FS_EmptySet
  <2> QED BY <2>1
<1>6. \A i \in matched : moves[i].to \notin adv.spent
    OBVIOUS
<1>7. {moves[i].to : i \in holding} \in SUBSET States
    BY <1>2, <1>4
<1> HIDE DEF moves, holding, matched
<1>8. CASE Cardinality(matched) = 1
  <2>1. PICK i \in matched : i = CHOOSE l \in matched : TRUE
      BY <1>5, <1>8
  <2>2. moves[i].to \in States /\ moves[i].to \notin adv.spent
      BY <1>2, <1>4, <1>6, <2>1
  <2> QED BY <1>3, <1>8, <2>1, <2>2 DEF moves, holding, matched
<1>9. CASE Cardinality(matched) # 1
    BY <1>3, <1>7, <1>9 DEF moves, holding, matched
<1> QED BY <1>8, <1>9

LEMMA EvaluateStep ==
    ASSUME LifecycleInv, Evaluate PROVE LifecycleInv'
<1> USE DEF LifecycleInv
<1>1. Len(stages) \in Nat /\ UNCHANGED <<run, stages, items, conflict>>
    BY DEF Shape, Evaluate, tables
<1>2. ItemInv'
    BY <1>1, ItemsKept DEF Shape
<1>3. \/ adv' = [adv EXCEPT !.pc = "complete_run"]
      \/ \E s \in States : adv' = [adv EXCEPT !.pc = "select", !.next = s]
      \/ \E T \in SUBSET States : adv' = [adv EXCEPT !.pc = "conflict", !.targets = T]
    BY EvaluateFacts
<1>4. /\ adv' \in AdvType' /\ adv'.pc \in {"complete_run", "select", "conflict"}
      /\ adv'.pc = "select" => adv'.next \in States
  <2>1. CASE adv' = [adv EXCEPT !.pc = "complete_run"]
      BY <1>1, <2>1 DEF Shape, AdvType, Steps
  <2>2. ASSUME NEW s \in States, adv' = [adv EXCEPT !.pc = "select", !.next = s]
        PROVE  adv' \in AdvType' /\ adv'.pc = "select" /\ adv'.next \in States
      BY <1>1, <2>2 DEF Shape, AdvType, Steps
  <2>3. ASSUME NEW T \in SUBSET States, adv' = [adv EXCEPT !.pc = "conflict", !.targets = T]
        PROVE  adv' \in AdvType' /\ adv'.pc = "conflict"
      BY <1>1, <2>3 DEF Shape, AdvType, Steps
  <2> QED BY <1>3, <2>1, <2>2, <2>3
<1>5. AdvInv'
    BY <1>4 DEF AdvInv
<1> QED BY <1>1, <1>2, <1>4, <1>5 DEF Shape

(* Decide: which stage execution is the current one, and what is known of it. *)
LEMMA DecideStep ==
    ASSUME LifecycleInv, Decide PROVE LifecycleInv'
<1> USE DEF LifecycleInv
<1>1. /\ Len(stages) \in Nat /\ Len(stages') = Len(stages)
      /\ UNCHANGED <<run, stages, items, conflict>> /\ adv.pc = "decide"
    BY DEF Shape, Decide, tables, WaitOn, FanOut, SettleStage, Reconsider, StageStopped,
           ReopenGate, Enter, At
<1>2. ItemInv'
    BY <1>1, ItemsKept DEF Shape
<1>3. /\ Current \in 0..Len(stages)
      /\ Current # 0 => Current \in DOMAIN stages /\ stages[Current].state = adv.at
    BY <1>1, LastFacts DEF Current, AdvInv, Shape, AdvType
<1>4. adv.at \in States /\ Phases[adv.at] \in Seq(SUBSET Tasks)
    BY RunLifecycleAssumption DEF Shape, AdvType
<1>5. adv' \in AdvType' /\ AdvInv'
  <2>1. CASE WaitOn
      BY <1>1, <2>1, FinishFacts, RestingAdv DEF WaitOn
  <2>2. CASE FanOut
    <3>1. /\ Current # 0 /\ stages[Current].status = "running" /\ Ahead(Current) # {}
          /\ Do("enqueue", Current, Phases[adv.at][NextPhase(Current)])
        BY <2>2 DEF FanOut, At
    <3>2. Ahead(Current) \subseteq DOMAIN Phases[adv.at] /\ Ahead(Current) \in SUBSET Nat
        BY <1>3, <1>4, <3>1 DEF Ahead
    <3>3. NextPhase(Current) \in Ahead(Current)
        BY <3>1, <3>2, LeastExists DEF NextPhase
    <3>4. Phases[adv.at][NextPhase(Current)] \in SUBSET Tasks /\ Phases[adv.at] # <<>>
        BY <1>4, <3>2, <3>3
    <3>5. adv' \in AdvType' /\ adv'.pc = "enqueue" /\ adv'.stage = Current /\ adv'.at = adv.at
        BY <1>1, <1>3, <3>1, <3>4, DoFacts DEF Steps
    <3> QED BY <1>1, <1>3, <3>1, <3>4, <3>5 DEF AdvInv
  <2>3. CASE SettleStage
    <3>1. /\ Current # 0 /\ InFlight(Current) = {}
          /\ Do(IF HasFailed(Current) THEN "fail_stage" ELSE "complete_stage", Current, {})
        BY <2>3 DEF SettleStage, At
    <3>2. CASE HasFailed(Current)
      <4>1. adv' \in AdvType' /\ adv'.pc = "fail_stage" /\ adv'.stage = Current
          BY <1>1, <1>3, <3>1, <3>2, DoFacts DEF Steps
      <4> QED BY <3>1, <4>1 DEF AdvInv
    <3>3. CASE ~HasFailed(Current)
      <4>1. adv' \in AdvType' /\ adv'.pc = "complete_stage" /\ adv'.stage = Current
          BY <1>1, <1>3, <3>1, <3>3, DoFacts DEF Steps
      <4>2. Clean(Current)
          BY <3>1, <3>3 DEF Clean, InFlight, HasFailed
      <4>3. Clean(adv.stage)'
          BY <1>1, <4>1, <4>2 DEF Clean
      <4> QED BY <3>1, <4>1, <4>3 DEF AdvInv
    <3> QED BY <3>2, <3>3
  <2>4. CASE Reconsider
    <3>1. adv' \in AdvType' /\ adv'.pc = "evaluate"
        BY <1>1, <1>3, <2>4, DoFacts DEF Reconsider, Steps
    <3> QED BY <3>1 DEF AdvInv
  <2>5. CASE StageStopped
    <3>1. CASE Finish
        BY <1>1, <3>1, FinishFacts, RestingAdv
    <3>2. CASE ~Finish
      <4>1. \E pc \in {"complete_run", "block"} : Do(pc, Current, {})
          BY <2>5, <3>2 DEF StageStopped
      <4>2. adv' \in AdvType' /\ adv'.pc \in {"complete_run", "block"}
          BY <1>1, <1>3, <4>1, DoFacts DEF Steps
      <4> QED BY <4>2 DEF AdvInv
    <3> QED BY <3>1, <3>2
  <2>6. CASE ReopenGate
    <3>1. Current # 0 /\ stages[Current].status = "pending" /\ Do("gate", Current, {})
        BY <2>6 DEF ReopenGate, At
    <3>2. adv' \in AdvType' /\ adv'.pc = "gate" /\ adv'.stage = Current /\ adv'.at = adv.at
        BY <1>1, <1>3, <3>1, DoFacts DEF Steps
    <3> QED BY <1>1, <1>3, <3>1, <3>2 DEF AdvInv
  <2>7. CASE Enter
    <3>1. CASE Do("create", 0, {})
      <4>1. adv' \in AdvType' /\ adv'.pc = "create"
          BY <1>1, <3>1, DoFacts DEF Steps
      <4> QED BY <4>1 DEF AdvInv
    <3>2. CASE ~Do("create", 0, {})
      <4>1. /\ Current # 0 /\ stages[Current].status = "pending" /\ ~BareEnd(adv.at)
            /\ Do("open", Current, {}) /\ (Stale(Current) \/ adv.at \notin Gates)
          BY <2>7, <3>2 DEF Enter
      <4>2. adv.at \notin Gates
          BY <4>1 DEF Stale, Over
      <4>3. Phases[adv.at] # <<>>
          BY <1>4, <4>1, <4>2, RunLifecycleAssumption DEF BareEnd
      <4>4. adv' \in AdvType' /\ adv'.pc = "open" /\ adv'.stage = Current /\ adv'.at = adv.at
          BY <1>1, <1>3, <4>1, DoFacts DEF Steps
      <4> QED BY <1>1, <1>3, <4>1, <4>3, <4>4 DEF AdvInv
    <3> QED BY <3>1, <3>2
  <2> QED BY <2>1, <2>2, <2>3, <2>4, <2>5, <2>6, <2>7 DEF Decide
<1> QED BY <1>1, <1>2, <1>5 DEF Shape

-----------------------------------------------------------------------------
(* The steps that begin and end an advance                                 *)

LEMMA Unread ==
    ASSUME LifecycleInv, UNCHANGED <<run, stages, items, conflict, adv>>
    PROVE  LifecycleInv'
BY DEF LifecycleInv, Shape, ItemInv, AdvInv, AdvType, Absent, Clean, InFlight,
       BareEnd, Of

(* The authority of a retry changes and nothing else of its stage does. *)
LEMMA AuthFacts ==
    ASSUME Shape, NEW k \in DOMAIN stages,
           stages' = [stages EXCEPT ![k].auth = "terminalized"]
    PROVE  /\ stages' \in Seq(StageRow) /\ Len(stages') = Len(stages)
           /\ DOMAIN stages' = DOMAIN stages
           /\ \A j \in DOMAIN stages :
                 /\ stages'[j].state = stages[j].state /\ stages'[j].iter = stages[j].iter
                 /\ stages'[j].status = stages[j].status
                 /\ stages'[j].auth = IF j = k THEN "terminalized" ELSE stages[j].auth
<1> DEFINE row == [stages[k] EXCEPT !.auth = "terminalized"]
<1>1. stages \in Seq(StageRow) /\ stages[k] \in StageRow
    BY StageFacts DEF Shape
<1>2. row \in StageRow /\ row.state = stages[k].state /\ row.iter = stages[k].iter
      /\ row.status = stages[k].status /\ row.auth = "terminalized"
    BY <1>1 DEF StageRow
<1>3. stages' = [stages EXCEPT ![k] = row]
    OBVIOUS
<1> HIDE DEF row
<1>4. stages' \in Seq(StageRow) /\ Len(stages') = Len(stages)
    BY <1>1, <1>2, <1>3
<1>5. DOMAIN stages' = DOMAIN stages
    BY <1>1, <1>3
<1>6. \A j \in DOMAIN stages : stages'[j] = IF j = k THEN row ELSE stages[j]
    BY <1>1, <1>3
<1> QED BY <1>2, <1>4, <1>5, <1>6

LEMMA ClaimStep ==
    ASSUME LifecycleInv, Claim PROVE LifecycleInv'
<1> USE DEF LifecycleInv
<1> DEFINE e == Head(queue)
           authorized == e.target # 0 => /\ e.target \in DOMAIN stages
                                         /\ stages[e.target].auth = "active"
<1>1. UNCHANGED <<run, items, conflict>> /\ adv.pc = "idle" /\ Len(stages) \in Nat
    BY DEF Claim, rest, Shape
<1>2. CASE UNCHANGED <<stages, adv>>
    BY <1>1, <1>2, Unread
<1>3. CASE /\ authorized /\ e.target # 0 /\ UNCHANGED adv
           /\ stages' = [stages EXCEPT ![e.target].auth = "terminalized"]
  <2>1. /\ stages' \in Seq(StageRow) /\ Len(stages') = Len(stages)
        /\ DOMAIN stages' = DOMAIN stages
        /\ \A j \in DOMAIN stages :
              /\ stages'[j].state = stages[j].state /\ stages'[j].iter = stages[j].iter
              /\ stages'[j].status = stages[j].status
      BY <1>3, AuthFacts
  <2>2. ItemInv'
      BY <1>1, <2>1, ItemsKept DEF Shape
  <2>3. AdvInv'
      BY <1>1, <1>3, RestingAdv
  <2>4. adv' \in AdvType'
      BY <1>3, <2>1 DEF Shape, AdvType
  <2> QED BY <1>1, <2>1, <2>2, <2>3, <2>4 DEF Shape
<1>4. CASE /\ authorized /\ UNCHANGED stages /\ run.status \notin Closed
           /\ adv' = [Idle EXCEPT !.pc = "decide", !.target = e.target, !.tag = e.tag,
                          !.live = TRUE, !.was = run.status,
                          !.at = IF e.target = 0 THEN run.state ELSE stages[e.target].state]
  <2> DEFINE at == IF e.target = 0 THEN run.state ELSE stages[e.target].state
  <2>1. e.target \in 0..Len(stages) /\ at \in States
      BY <1>1, <1>4, StageFacts DEF Shape
  <2>2. adv' = [pc |-> "decide", target |-> e.target, tag |-> e.tag, live |-> TRUE,
                was |-> run.status, at |-> at, stage |-> 0, todo |-> {},
                spent |-> {}, next |-> NoState, targets |-> {}]
      BY <1>4 DEF Idle
  <2> HIDE DEF at
  <2>a. run.status \in RunStatus /\ Len(stages') = Len(stages) /\ 0 \in 0..Len(stages)
      BY <1>1, <1>4 DEF Shape
  <2>b. "decide" \in Steps
      BY DEF Steps
  <2>3. adv' \in AdvType'
      BY <2>1, <2>2, <2>a, <2>b DEF AdvType
  <2>4. AdvInv'
      BY <1>4, <2>2 DEF AdvInv, at
  <2>5. ItemInv'
      BY <1>1, <1>4, ItemsKept DEF Shape
  <2> QED BY <1>1, <1>4, <2>3, <2>4, <2>5 DEF Shape
<1> QED BY <1>2, <1>3, <1>4 DEF Claim

LEMMA TerminalizeStep ==
    ASSUME LifecycleInv, Terminalize PROVE LifecycleInv'
<1> USE DEF LifecycleInv
<1>1. UNCHANGED <<run, items, conflict>> /\ adv' = Idle /\ Len(stages) \in Nat
    BY DEF Terminalize, rest, Shape
<1>2. /\ stages' \in Seq(StageRow) /\ Len(stages') = Len(stages)
      /\ DOMAIN stages' = DOMAIN stages
      /\ \A j \in DOMAIN stages :
            /\ stages'[j].state = stages[j].state /\ stages'[j].iter = stages[j].iter
            /\ stages'[j].status = stages[j].status
  <2>1. CASE UNCHANGED stages
      BY <2>1 DEF Shape
  <2>2. CASE ~UNCHANGED stages
    <3>1. CASE adv.target \in DOMAIN stages
        BY <2>2, <3>1, AuthFacts DEF Terminalize
    <3>2. CASE adv.target \notin DOMAIN stages
        BY <2>2, <3>2 DEF Terminalize, Shape
    <3> QED BY <3>1, <3>2
  <2> QED BY <2>1, <2>2
<1>3. ItemInv'
    BY <1>1, <1>2, ItemsKept DEF Shape
<1>4. adv' \in AdvType' /\ AdvInv'
    BY <1>1, <1>2, IdleFacts, RestingAdv
<1> QED BY <1>1, <1>2, <1>3, <1>4 DEF Shape

-----------------------------------------------------------------------------
(* Steps that add a stage execution                                        *)

(* A pending stage execution without items is added. *)
LEMMA AddedStage ==
    ASSUME LifecycleInv, Len(stages) < MaxStages, NEW s \in States, NEW auth, NEW n \in Nat,
           n <= Len(stages) + 1, NewStage(s, n, auth) \in StageRow,
           stages' = Append(stages, NewStage(s, n, auth)), UNCHANGED items,
           run'.requested = run.requested
    PROVE  /\ stages' \in Seq(StageRow) /\ Len(stages') = Len(stages) + 1
           /\ Len(stages') <= MaxStages
           /\ \A k \in DOMAIN stages' : stages'[k].iter <= Len(stages')
           /\ ItemInv'
<1> USE DEF LifecycleInv
<1>0. PICK new : new = Len(stages) + 1
    OBVIOUS
<1>1. Len(stages) \in Nat /\ MaxStages \in Nat
    BY RunLifecycleAssumption DEF Shape
<1>2. /\ stages' \in Seq(StageRow) /\ Len(stages') = Len(stages) + 1
      /\ new \in DOMAIN stages' /\ stages'[new] = NewStage(s, n, auth)
      /\ \A j \in DOMAIN stages' : j \in DOMAIN stages \/ j = new
      /\ \A j \in DOMAIN stages : stages'[j] = stages[j]
    BY <1>0, AppendFacts
<1>3. stages'[new].state = s /\ stages'[new].status = "pending" /\ stages'[new].iter = n
    BY <1>2 DEF NewStage
<1>4. Absent(new)
    BY <1>0, <1>1 DEF ItemInv
<1>5. \A k \in DOMAIN stages' : stages'[k].iter <= Len(stages')
    BY <1>0, <1>1, <1>2, <1>3, StageFacts DEF Shape
<1>6. ItemInv'
  <2>1. \A k \in 1..MaxStages : k > Len(stages') => Absent(k)'
      BY <1>1, <1>2 DEF ItemInv, Absent
  <2>2. ASSUME NEW k \in DOMAIN stages
        PROVE  /\ stages'[k].status \in {"pending", "waiting_approval"} => Absent(k)'
               /\ Absent(k)' \/ Phases[stages'[k].state] # <<>>
               /\ stages'[k].status = "completed" => Clean(k)' \/ SingleTask(stages'[k].state)
               /\ stages'[k].status = "skipped" /\ ~run'.requested => InFlight(k)' = {}
      BY <1>2 DEF ItemInv, Absent, Clean, InFlight
  <2>3. Absent(new)'
      BY <1>4 DEF Absent
  <2> QED BY <1>2, <1>3, <2>1, <2>2, <2>3 DEF ItemInv
<1> QED BY <1>1, <1>2, <1>5, <1>6

LEMMA NewStageType ==
    ASSUME NEW s \in States, NEW n \in Nat, NEW auth \in {"none", "active"}
    PROVE  NewStage(s, n, auth) \in StageRow
BY DEF NewStage, StageRow

LEMMA CreateStep ==
    ASSUME LifecycleInv, Create PROVE LifecycleInv'
<1> USE DEF LifecycleInv
<1>0. PICK new : new = Len(stages) + 1
    OBVIOUS
<1> DEFINE n == HighestIteration(adv.at) + 1
           pc == IF BareEnd(adv.at) THEN "end_stage" ELSE IF adv.at \in Gates THEN "gate" ELSE "open"
<1>1. /\ UNCHANGED <<run, items, conflict>> /\ Len(stages) \in Nat /\ Len(stages) < MaxStages
      /\ stages' = Append(stages, NewStage(adv.at, n, "none"))
      /\ adv' = [adv EXCEPT !.stage = new, !.pc = pc]
    BY <1>0 DEF Create, rest, Shape
<1>2. n \in Nat /\ n <= Len(stages) + 1 /\ adv.at \in States
    BY <1>1, HighestFacts DEF Shape, AdvType
<1>3. NewStage(adv.at, n, "none") \in StageRow
    BY <1>2, NewStageType
<1> HIDE DEF n
<1>4. /\ stages' \in Seq(StageRow) /\ Len(stages') = Len(stages) + 1 /\ Len(stages') <= MaxStages
      /\ \A k \in DOMAIN stages' : stages'[k].iter <= Len(stages')
      /\ ItemInv'
    BY <1>1, <1>2, <1>3, AddedStage
<1>5. /\ new \in DOMAIN stages' /\ stages'[new].state = adv.at /\ stages'[new].status = "pending"
    BY <1>0, <1>1, <1>3, AppendFacts DEF NewStage
<1>6. pc \in Steps
    BY DEF Steps
<1>7. adv' \in AdvType' /\ adv'.pc = pc /\ adv'.stage = new /\ adv'.at = adv.at
  <2> HIDE DEF pc
  <2>1. new \in 0..Len(stages') /\ Len(stages) <= Len(stages') /\ Len(stages') \in Nat
      BY <1>0, <1>1, <1>4
  <2>2. /\ adv.target \in 0..Len(stages') /\ adv.live \in BOOLEAN /\ adv.was \in RunStatus
        /\ adv.at \in States /\ adv.todo \in SUBSET Tasks
        /\ adv.next \in States \cup {NoState} /\ adv.targets \in SUBSET States
      BY <1>1, <2>1 DEF Shape, AdvType
  <2>3. adv' = [pc |-> pc, target |-> adv.target, tag |-> adv.tag, live |-> adv.live,
                was |-> adv.was, at |-> adv.at, stage |-> new, todo |-> adv.todo,
                spent |-> adv.spent, next |-> adv.next, targets |-> adv.targets]
      BY <1>1 DEF Shape, AdvType
  <2> QED BY <1>6, <2>1, <2>2, <2>3 DEF AdvType
<1>8. AdvInv'
  <2>1. CASE BareEnd(adv.at)
    <3>1. new \in Of(adv.at)' /\ BareEnd(adv.at)'
        BY <1>5, <1>7, <2>1 DEF Of, BareEnd
    <3> QED BY <1>7, <2>1, <3>1 DEF AdvInv
  <2>2. CASE ~BareEnd(adv.at)
    <3>1. adv.at \notin Gates => Phases[adv.at] # <<>>
        BY <1>2, <2>2, RunLifecycleAssumption DEF BareEnd
    <3>2. new # 0
        BY <1>0, <1>1
    <3> QED BY <1>5, <1>7, <2>2, <3>1, <3>2 DEF AdvInv
  <2> QED BY <2>1, <2>2
<1> QED BY <1>1, <1>4, <1>7, <1>8 DEF Shape

LEMMA SelfLoopStep ==
    ASSUME LifecycleInv, SelfLoop PROVE LifecycleInv'
<1> USE DEF LifecycleInv
<1> DEFINE n == HighestIteration(adv.at) + 1
<1>1. /\ UNCHANGED <<run, items, conflict>> /\ Len(stages) \in Nat /\ Len(stages) < MaxStages
      /\ stages' = Append(stages, NewStage(adv.at, n, "none"))
      /\ adv.pc = "again" /\ adv' = [adv EXCEPT !.pc = "move"]
    BY DEF SelfLoop, Step, rest, Shape
<1>2. n \in Nat /\ n <= Len(stages) + 1 /\ adv.at \in States
    BY <1>1, HighestFacts DEF Shape, AdvType
<1>3. NewStage(adv.at, n, "none") \in StageRow
    BY <1>2, NewStageType
<1> HIDE DEF n
<1>4. /\ stages' \in Seq(StageRow) /\ Len(stages') = Len(stages) + 1 /\ Len(stages') <= MaxStages
      /\ \A k \in DOMAIN stages' : stages'[k].iter <= Len(stages')
      /\ ItemInv'
    BY <1>1, <1>2, <1>3, AddedStage
<1>5. adv' \in AdvType' /\ adv'.pc = "move" /\ Fields
    BY <1>1, <1>4, StepFacts DEF Steps
<1>6. AdvInv'
    BY <1>1, <1>5 DEF AdvInv, Fields
<1> QED BY <1>1, <1>4, <1>5, <1>6 DEF Shape

-----------------------------------------------------------------------------
(* Steps that change the status of the advance's stage                     *)

(* What each of them leaves to show. *)
LEMMA SetStageStep ==
    ASSUME LifecycleInv, NEW k \in DOMAIN stages, NEW st \in StageStatus, SetStage(k, st),
           \/ st \in {"running", "failed", "blocked"}
           \/ st = "waiting_approval" /\ Absent(k)
           \/ st = "completed" /\ (Clean(k) \/ SingleTask(stages[k].state)),
           UNCHANGED items,
           conflict' \in [state : States \cup {NoState}, targets : SUBSET States],
           run' \in [status : RunStatus, state : States, requested : BOOLEAN, settled : BOOLEAN],
           run'.requested = run.requested, run'.settled = run.settled,
           adv' \in AdvType', AdvInv'
    PROVE  LifecycleInv'
<1> USE DEF LifecycleInv
<1>1. /\ stages' \in Seq(StageRow) /\ Len(stages') = Len(stages)
      /\ DOMAIN stages' = DOMAIN stages
      /\ \A j \in DOMAIN stages :
            /\ stages'[j].state = stages[j].state /\ stages'[j].iter = stages[j].iter
            /\ stages'[j].status = IF j = k THEN st ELSE stages[j].status
    BY SetStageFacts
<1>2. ItemInv'
    BY <1>1, ItemsKept DEF Shape
<1> QED BY <1>1, <1>2 DEF Shape

LEMMA OpenStep ==
    ASSUME LifecycleInv, OpenGate \/ OpenStage \/ FailStage PROVE LifecycleInv'
<1> USE DEF LifecycleInv
<1>1. /\ UNCHANGED <<run, items, conflict>> /\ Len(stages) \in Nat
      /\ adv.stage # 0 /\ adv.stage \in DOMAIN stages
    BY DEF OpenGate, OpenStage, FailStage, Step, rest, Shape, AdvType, AdvInv
<1>2. CASE OpenGate
  <2>1. /\ SetStage(adv.stage, "waiting_approval") /\ adv.pc = "gate"
        /\ adv' = [adv EXCEPT !.pc = "request"]
      BY <1>2 DEF OpenGate, Step
  <2>2. Len(stages') = Len(stages)
      BY <1>1, <2>1, SetStageFacts DEF StageStatus
  <2>3. adv' \in AdvType' /\ adv'.pc = "request" /\ Fields
      BY <1>1, <2>1, <2>2, StepFacts DEF Steps
  <2>4. AdvInv'
      BY <1>1, <2>3 DEF AdvInv, Fields
  <2>5. Absent(adv.stage)
      BY <1>1, <2>1 DEF AdvInv, ItemInv
  <2> QED BY <1>1, <2>1, <2>3, <2>4, <2>5, SetStageStep DEF StageStatus, Shape
<1>3. CASE OpenStage
  <2>1. /\ SetStage(adv.stage, "running") /\ adv.pc = "open"
        /\ adv' = [adv EXCEPT !.pc = "start"]
      BY <1>3 DEF OpenStage, Step
  <2>2. Len(stages') = Len(stages) /\ stages'[adv.stage].status = "running"
        /\ stages'[adv.stage].state = stages[adv.stage].state
      BY <1>1, <2>1, SetStageFacts DEF StageStatus
  <2>3. adv' \in AdvType' /\ adv'.pc = "start" /\ Fields
      BY <1>1, <2>1, <2>2, StepFacts DEF Steps
  <2>4. AdvInv'
      BY <1>1, <2>1, <2>2, <2>3 DEF AdvInv, Fields
  <2> QED BY <1>1, <2>1, <2>3, <2>4, SetStageStep DEF StageStatus, Shape
<1>4. CASE FailStage
  <2>1. /\ SetStage(adv.stage, "failed") /\ adv.pc = "fail_stage"
        /\ adv' = [adv EXCEPT !.pc = "block"]
      BY <1>4 DEF FailStage, Step
  <2>2. Len(stages') = Len(stages)
      BY <1>1, <2>1, SetStageFacts DEF StageStatus, Over
  <2>3. adv' \in AdvType' /\ adv'.pc = "block" /\ Fields
      BY <1>1, <2>1, <2>2, StepFacts DEF Steps
  <2>4. AdvInv'
      BY <2>3 DEF AdvInv
  <2> QED BY <1>1, <2>1, <2>3, <2>4, SetStageStep DEF StageStatus, Over, Shape
<1> QED BY <1>2, <1>3, <1>4

LEMMA PromptFailsStep ==
    ASSUME LifecycleInv, PromptFails PROVE LifecycleInv'
<1> USE DEF LifecycleInv
<1>1. /\ UNCHANGED <<items, conflict>> /\ Len(stages) \in Nat
      /\ adv.stage \in DOMAIN stages /\ SetStage(adv.stage, "blocked") /\ Finish
      /\ run' = [run EXCEPT !.status = "blocked"]
    BY DEF PromptFails, SetRun, rest, Shape, AdvType, AdvInv
<1>2. Len(stages') = Len(stages)
    BY <1>1, SetStageFacts DEF StageStatus, Over
<1>3. adv' \in AdvType' /\ AdvInv'
    BY <1>1, <1>2, FinishFacts, RestingAdv
<1>4. /\ run' \in [status : RunStatus, state : States, requested : BOOLEAN, settled : BOOLEAN]
      /\ run'.requested = run.requested /\ run'.settled = run.settled
    BY <1>1 DEF Shape, RunStatus
<1> QED BY <1>1, <1>3, <1>4, SetStageStep DEF StageStatus, Over, Shape

LEMMA CompleteStageStep ==
    ASSUME LifecycleInv, CompleteStage PROVE LifecycleInv'
<1> USE DEF LifecycleInv
<1>1. PICK k : k = IF adv.pc = "end_stage" THEN First(adv.at) ELSE adv.stage
    OBVIOUS
<1>2. PICK pc \in {"complete_run", "evaluate"} : adv' = [adv EXCEPT !.pc = pc]
    BY DEF CompleteStage
<1>3. UNCHANGED <<run, items, conflict>> /\ SetStage(k, "completed") /\ Len(stages) \in Nat
    BY <1>1 DEF CompleteStage, rest, Shape
<1>4. k \in DOMAIN stages /\ Clean(k)
  <2>1. CASE adv.pc = "end_stage"
    <3>1. k \in DOMAIN stages /\ stages[k].state = adv.at
        BY <1>1, <2>1, FirstFacts DEF AdvInv
    <3>2. Absent(k)
        BY <2>1, <3>1 DEF AdvInv, ItemInv, BareEnd
    <3> QED BY <3>1, <3>2, AbsentIsClean
  <2>2. CASE adv.pc = "complete_stage"
      BY <1>1, <2>2 DEF AdvInv, Shape, AdvType
  <2> QED BY <2>1, <2>2 DEF CompleteStage
<1>5. Len(stages') = Len(stages)
    BY <1>3, <1>4, SetStageFacts DEF StageStatus, Over
<1>6. adv' \in AdvType' /\ adv'.pc = pc
    BY <1>2, <1>3, <1>5, StepFacts DEF Steps
<1>7. AdvInv'
    BY <1>6 DEF AdvInv
<1> QED BY <1>3, <1>4, <1>6, <1>7, SetStageStep DEF StageStatus, Over, Shape

-----------------------------------------------------------------------------
(* Steps that change one item                                              *)

(* An item that exists, or is enqueued for a stage that runs, changes. *)
LEMMA ItemStep ==
    ASSUME LifecycleInv, NEW k \in DOMAIN stages, NEW t \in Tasks, NEW v \in ItemStatus,
           items' = [items EXCEPT ![k][t] = v], UNCHANGED <<run, stages>>,
           stages[k].status \notin {"pending", "waiting_approval"},
           stages[k].status = "completed" => SingleTask(stages[k].state),
           stages[k].status = "skipped" => run.requested,
           Phases[stages[k].state] # <<>>
    PROVE  /\ items' \in [1..MaxStages -> [Tasks -> ItemStatus]]
           /\ \A j \in DOMAIN stages : j # k => items'[j] = items[j]
           /\ ItemInv'
<1> USE DEF LifecycleInv
<1>1. k \in 1..MaxStages /\ k \in 1..Len(stages) /\ Len(stages) \in Nat
    BY StageFacts DEF Shape
<1>2. items \in [1..MaxStages -> [Tasks -> ItemStatus]]
    BY DEF Shape
<1>3. items' \in [1..MaxStages -> [Tasks -> ItemStatus]]
    BY <1>1, <1>2
<1>4. \A j \in 1..MaxStages : j # k => items'[j] = items[j]
    BY <1>1, <1>2
<1>5. \A j \in DOMAIN stages : j \in 1..MaxStages
    BY StageFacts
<1>6. \A j \in 1..MaxStages : j > Len(stages') => Absent(j)'
    BY <1>1, <1>4 DEF ItemInv, Absent
<1>7. ASSUME NEW j \in DOMAIN stages
      PROVE  /\ stages'[j].status \in {"pending", "waiting_approval"} => Absent(j)'
             /\ Absent(j)' \/ Phases[stages'[j].state] # <<>>
             /\ stages'[j].status = "completed" => Clean(j)' \/ SingleTask(stages'[j].state)
             /\ stages'[j].status = "skipped" /\ ~run'.requested => InFlight(j)' = {}
  <2>1. CASE j = k
      BY <2>1
  <2>2. CASE j # k
      BY <1>4, <1>5, <2>2 DEF ItemInv, Absent, Clean, InFlight
  <2> QED BY <2>1, <2>2
<1> QED BY <1>3, <1>4, <1>5, <1>6, <1>7 DEF ItemInv

LEMMA EnqueueStep ==
    ASSUME LifecycleInv, EnqueueTask PROVE LifecycleInv'
<1> USE DEF LifecycleInv
<1>1. PICK t \in adv.todo :
          /\ items' = [items EXCEPT ![adv.stage][t] = "pending"]
          /\ IF adv.todo = {t} THEN Finish ELSE adv' = [adv EXCEPT !.todo = @ \ {t}]
    BY DEF EnqueueTask
<1>2. /\ UNCHANGED <<run, stages, conflict>> /\ Len(stages) \in Nat /\ adv.pc = "enqueue"
      /\ t \in Tasks /\ adv.stage \in DOMAIN stages
    BY DEF EnqueueTask, rest, Shape, AdvType, AdvInv
<1>3. /\ stages[adv.stage].status \notin {"pending", "waiting_approval"}
      /\ stages[adv.stage].status # "completed"
      /\ stages[adv.stage].status = "skipped" => run.requested
      /\ Phases[stages[adv.stage].state] # <<>>
    BY <1>2 DEF AdvInv, Shape
<1>4. items' \in [1..MaxStages -> [Tasks -> ItemStatus]] /\ ItemInv'
  <2>1. "pending" \in ItemStatus
      BY DEF ItemStatus, Waiting
  <2> QED BY <1>1, <1>2, <1>3, <2>1, ItemStep
<1>5. adv' \in AdvType' /\ AdvInv'
  <2>1. CASE Finish
      BY <1>2, <2>1, FinishFacts, RestingAdv
  <2>2. CASE ~Finish
    <3>1. adv' = [adv EXCEPT !.todo = @ \ {t}]
        BY <1>1, <2>2
    <3>2. /\ adv' \in AdvType' /\ adv'.pc = "enqueue" /\ adv'.stage = adv.stage
          /\ adv'.at = adv.at
        BY <1>2, <3>1 DEF Shape, AdvType
    <3> QED BY <1>2, <3>2 DEF AdvInv
  <2> QED BY <2>1, <2>2
<1> QED BY <1>2, <1>4, <1>5 DEF Shape

LEMMA InvokeStep ==
    ASSUME LifecycleInv, ClaimInvoke \/ Requeue \/ SettleInvoke PROVE LifecycleInv'
<1> USE DEF LifecycleInv
<1>1. UNCHANGED <<run, stages, conflict, adv>> /\ Len(stages) \in Nat
    BY DEF ClaimInvoke, Requeue, SettleInvoke, Shape
<1>2. PICK k \in DOMAIN stages, t \in Tasks, v \in Waiting \cup {"completed", "failed"} :
          items[k][t] \in Waiting /\ items' = [items EXCEPT ![k][t] = v]
    BY DEF ClaimInvoke, Requeue, SettleInvoke, Waiting
<1>3. ~Absent(k) /\ ~Clean(k) /\ InFlight(k) # {}
    BY <1>2 DEF Absent, Clean, InFlight, Waiting
<1>4. /\ stages[k].status \notin {"pending", "waiting_approval"}
      /\ stages[k].status = "completed" => SingleTask(stages[k].state)
      /\ stages[k].status = "skipped" => run.requested
      /\ Phases[stages[k].state] # <<>>
    BY <1>3 DEF ItemInv, Shape
<1>5. /\ items' \in [1..MaxStages -> [Tasks -> ItemStatus]] /\ ItemInv'
      /\ \A j \in DOMAIN stages : j # k => items'[j] = items[j]
  <2>1. v \in ItemStatus
      BY DEF ItemStatus, Waiting
  <2> QED BY <1>1, <1>2, <1>4, <2>1, ItemStep
<1>6. \A j \in DOMAIN stages : Clean(j) => Clean(j)'
    BY <1>3, <1>5 DEF Clean
<1>7. AdvInv'
    BY <1>1, <1>6, AdvKept DEF Fields, Shape
<1> QED BY <1>1, <1>5, <1>7 DEF Shape, AdvType

(* The stage that its one task settles is not the one an advance opens. *)
LEMMA SettleSingleStep ==
    ASSUME LifecycleInv, TaskInv, SettleSingle PROVE LifecycleInv'
<1> USE DEF LifecycleInv
<1>1. UNCHANGED <<run, items, conflict, adv>> /\ Len(stages) \in Nat
    BY DEF SettleSingle, Shape
<1>2. PICK k \in DOMAIN stages, t \in Tasks, st \in {"completed", "failed"} :
          workers[k][t] = "busy" /\ SingleTask(stages[k].state) /\ SetStage(k, st)
    BY DEF SettleSingle
<1>3. k \in 1..MaxStages /\ ~Absent(k)
    BY <1>2, StageFacts DEF TaskInv, Absent
<1>4. st \in StageStatus
    BY DEF StageStatus, Over
<1>5. /\ DOMAIN stages' = DOMAIN stages /\ Len(stages') = Len(stages)
      /\ \A j \in DOMAIN stages :
            /\ stages'[j].state = stages[j].state
            /\ stages'[j].status = IF j = k THEN st ELSE stages[j].status
    BY <1>2, <1>4, SetStageFacts
<1>6. /\ adv.stage # 0 => adv.stage \in DOMAIN stages
      /\ adv.target # 0 => adv.target \in DOMAIN stages
    BY DEF Shape, AdvType
<1>7. adv.pc \in {"gate", "open", "start", "provision", "enqueue"} => adv.stage # k
  <2>1. adv.pc \in {"gate", "open"} => Absent(adv.stage)
      BY <1>6 DEF AdvInv, ItemInv
  <2>2. adv.pc \in {"start", "provision", "enqueue"} => stages[adv.stage].state = adv.at
      BY DEF AdvInv
  <2> QED BY <1>2, <1>3, <2>1, <2>2 DEF TaskInv
<1>8. AdvInv'
  <2>1. Clean(adv.stage)' <=> Clean(adv.stage)
      BY <1>1 DEF Clean
  <2>2. Of(adv.at)' = Of(adv.at)
      BY <1>1, <1>5 DEF Of
  <2> QED BY <1>1, <1>5, <1>6, <1>7, <2>1, <2>2 DEF AdvInv, BareEnd
<1>9. adv' \in AdvType'
    BY <1>1, <1>5 DEF Shape, AdvType
<1>10. UNCHANGED conflict => conflict' \in [state : States \cup {NoState}, targets : SUBSET States]
    BY DEF Shape
<1> QED BY <1>1, <1>2, <1>4, <1>8, <1>9, <1>10, SetStageStep DEF Shape

-----------------------------------------------------------------------------
(* Commands                                                                *)

(* The advance in flight is told that its work item was cancelled. *)
LEMMA DeadFacts ==
    ASSUME Shape, UNCHANGED adv \/ adv' = [adv EXCEPT !.live = FALSE],
           Len(stages') \in Nat, Len(stages) <= Len(stages')
    PROVE  adv' \in AdvType' /\ adv'.pc = adv.pc /\ Fields
<1>1. CASE UNCHANGED adv
    BY <1>1 DEF Shape, AdvType, Fields
<1>2. CASE adv' = [adv EXCEPT !.live = FALSE]
  <2>1. /\ adv.target \in 0..Len(stages') /\ adv.stage \in 0..Len(stages')
        /\ adv.was \in RunStatus /\ adv.pc \in Steps
        /\ adv.at \in States /\ adv.todo \in SUBSET Tasks
        /\ adv.next \in States \cup {NoState} /\ adv.targets \in SUBSET States
      BY DEF Shape, AdvType
  <2>2. adv' = [pc |-> adv.pc, target |-> adv.target, tag |-> adv.tag, live |-> FALSE,
                was |-> adv.was, at |-> adv.at, stage |-> adv.stage, todo |-> adv.todo,
                spent |-> adv.spent, next |-> adv.next, targets |-> adv.targets]
      BY <1>2 DEF Shape, AdvType
  <2> QED BY <2>1, <2>2 DEF AdvType, Fields
<1> QED BY <1>1, <1>2

LEMMA ResolveApprovalStep ==
    ASSUME LifecycleInv, ResolveApproval PROVE LifecycleInv'
<1> USE DEF LifecycleInv
<1>1. UNCHANGED <<items, adv>> /\ Len(stages) \in Nat
    BY DEF ResolveApproval, Shape
<1>2. /\ run' \in [status : RunStatus, state : States, requested : BOOLEAN, settled : BOOLEAN]
      /\ run'.requested = run.requested /\ run'.settled = run.settled
      /\ conflict' \in [state : States \cup {NoState}, targets : SUBSET States]
  <2>1. \/ UNCHANGED run
        \/ \E s \in DOMAIN Rework : run' = [run EXCEPT !.status = "running", !.state = Rework[s]]
      BY Zenon DEF ResolveApproval
  <2>2. UNCHANGED conflict \/ conflict' = NoConflict
      BY Zenon DEF ResolveApproval
  <2>3. \A s \in DOMAIN Rework : Rework[s] \in States
      BY RunLifecycleAssumption
  <2>4. run \in [status : RunStatus, state : States, requested : BOOLEAN, settled : BOOLEAN]
      BY DEF Shape
  <2>5. ASSUME NEW s \in States, run' = [run EXCEPT !.status = "running", !.state = s]
        PROVE  /\ run' \in [status : RunStatus, state : States, requested : BOOLEAN, settled : BOOLEAN]
               /\ run'.requested = run.requested /\ run'.settled = run.settled
      BY <2>4, <2>5 DEF RunStatus
  <2>6. conflict' \in [state : States \cup {NoState}, targets : SUBSET States]
      BY <2>2 DEF Shape, NoConflict
  <2> QED BY <2>1, <2>3, <2>4, <2>5, <2>6
<1>3. CASE UNCHANGED stages
  <2>1. ItemInv'
      BY <1>1, <1>2, <1>3, ItemsKept DEF Shape
  <2>2. adv' \in AdvType' /\ Fields
      BY <1>1, <1>3, DeadFacts
  <2>3. \A j \in DOMAIN stages : Clean(j) => Clean(j)'
      BY <1>1 DEF Clean
  <2>4. AdvInv'
      BY <1>1, <1>2, <1>3, <2>2, <2>3, AdvKept DEF Shape
  <2> QED BY <1>1, <1>2, <1>3, <2>1, <2>2, <2>4 DEF Shape
<1>4. CASE ~UNCHANGED stages
  <2> DEFINE Open(s) == {j \in Of(s) : stages[j].status = "waiting_approval"}
  <2>a. PICK a \in DOMAIN approvals, d \in {"granted", "rejected"} :
            LET W == Open(approvals[a].state)
            IN  W # {} /\ SetStage(CHOOSE i \in W : \A j \in W : i <= j,
                             IF d = "granted" /\ Phases[approvals[a].state] # <<>>
                             THEN "running" ELSE "completed")
      BY <1>4, Zenon DEF ResolveApproval
  <2>b. PICK W : W = Open(approvals[a].state)
      OBVIOUS
  <2>c. PICK st \in {"running", "completed"} :
            st = IF d = "granted" /\ Phases[approvals[a].state] # <<>>
                 THEN "running" ELSE "completed"
      OBVIOUS
  <2>1. W # {} /\ SetStage(CHOOSE i \in W : \A j \in W : i <= j, st)
      BY <2>a, <2>b, <2>c
  <2>2. PICK k : k = CHOOSE i \in W : \A j \in W : i <= j
      OBVIOUS
  <2>3. W \in SUBSET Nat /\ W \subseteq DOMAIN stages
      BY <2>b DEF Of, Shape
  <2>4. k \in W
      BY <2>1, <2>2, <2>3, LeastExists
  <2>5. k \in DOMAIN stages /\ stages[k].status = "waiting_approval" /\ SetStage(k, st)
      BY <2>1, <2>2, <2>3, <2>4, <2>b
  <2>6. Absent(k) /\ Clean(k)
      BY <2>5, AbsentIsClean DEF ItemInv
  <2>7. /\ Len(stages') = Len(stages) /\ DOMAIN stages' = DOMAIN stages
        /\ \A j \in DOMAIN stages :
              /\ stages'[j].state = stages[j].state
              /\ stages'[j].status = IF j = k THEN st ELSE stages[j].status
      BY <2>5, SetStageFacts DEF StageStatus, Over
  <2>8. \A j \in DOMAIN stages : Clean(j) => Clean(j)'
      BY <1>1 DEF Clean
  <2>9. AdvInv'
      BY <1>1, <1>2, <2>5, <2>7, <2>8, AdvKept DEF Fields, Shape
  <2>10. adv' \in AdvType'
      BY <1>1, <2>7 DEF Shape, AdvType
  <2>11. st \in StageStatus
      BY DEF StageStatus, Over
  <2> QED BY <1>1, <1>2, <2>5, <2>6, <2>9, <2>10, <2>11, SetStageStep
<1> QED BY <1>3, <1>4

(* A retry skips the latest stage execution of a state, supersedes the active  *)
(* authorities of the state, cancels what is in flight of it, and adds a stage *)
(* execution of the same iteration.                                            *)
Replaced(k, s, new) ==
    /\ s = stages[k].state /\ new = Len(stages) + 1
    /\ stages[k].status \in {"failed", "blocked", "completed"}
    /\ stages' \in Seq(StageRow) /\ Len(stages') = new /\ Len(stages) \in Nat
    /\ DOMAIN stages \subseteq DOMAIN stages' /\ new \in DOMAIN stages'
    /\ \A j \in DOMAIN stages' : j \in DOMAIN stages \/ j = new
    /\ \A j \in DOMAIN stages :
          /\ stages'[j].state = stages[j].state /\ stages'[j].iter = stages[j].iter
          /\ stages'[j].status = IF j = k THEN "skipped" ELSE stages[j].status
          /\ stages'[j].auth = IF j \in Of(s) /\ stages[j].auth = "active"
                               THEN "superseded" ELSE stages[j].auth
    /\ stages'[new].state = s /\ stages'[new].status = "pending"
    /\ stages'[new].iter = stages[k].iter /\ stages'[new].auth = "active"
    /\ items' = [j \in 1..MaxStages |-> [t \in Tasks |->
           IF j \in Of(s) /\ items[j][t] \in Waiting THEN "cancelled" ELSE items[j][t]]]
    /\ run' = [run EXCEPT !.status = "running", !.state = s]
    /\ conflict' = NoConflict \/ UNCHANGED conflict
    /\ UNCHANGED adv \/ adv' = [adv EXCEPT !.live = FALSE]
    /\ queue' = Redirected(s, new)

LEMMA RetryFacts ==
    ASSUME LifecycleInv, RetryStage
    PROVE  \E k \in DOMAIN stages, s \in States, new \in 1..MaxStages : Replaced(k, s, new)
<1> USE DEF LifecycleInv
<1>0. PICK k \in DOMAIN stages :
          LET s == stages[k].state
          IN  /\ stages[k].status \in {"failed", "blocked", "completed"}
              /\ items' = [j \in 1..MaxStages |-> [t \in Tasks |->
                     IF j \in Of(s) /\ items[j][t] \in Waiting THEN "cancelled" ELSE items[j][t]]]
              /\ stages' = Append([j \in DOMAIN stages |->
                     [stages[j] EXCEPT !.status = IF j = k THEN "skipped" ELSE @,
                                       !.auth = IF j \in Of(s) /\ @ = "active"
                                                THEN "superseded" ELSE @]],
                     NewStage(s, stages[k].iter, "active"))
              /\ run' = [run EXCEPT !.status = "running", !.state = s]
              /\ conflict' = NoConflict \/ UNCHANGED conflict
              /\ UNCHANGED adv \/ adv' = [adv EXCEPT !.live = FALSE]
              /\ queue' = Redirected(s, Len(stages) + 1)
    BY Zenon DEF RetryStage
<1>s. PICK s : s = stages[k].state
    OBVIOUS
<1>1. /\ stages[k].status \in {"failed", "blocked", "completed"}
      /\ items' = [j \in 1..MaxStages |-> [t \in Tasks |->
                 IF j \in Of(s) /\ items[j][t] \in Waiting THEN "cancelled" ELSE items[j][t]]]
      /\ stages' = Append([j \in DOMAIN stages |->
                 [stages[j] EXCEPT !.status = IF j = k THEN "skipped" ELSE @,
                                   !.auth = IF j \in Of(s) /\ @ = "active"
                                            THEN "superseded" ELSE @]],
                 NewStage(s, stages[k].iter, "active"))
      /\ run' = [run EXCEPT !.status = "running", !.state = s]
      /\ conflict' = NoConflict \/ UNCHANGED conflict
      /\ UNCHANGED adv \/ adv' = [adv EXCEPT !.live = FALSE]
      /\ queue' = Redirected(s, Len(stages) + 1)
    BY <1>0, <1>s
<1>2. /\ Len(stages) \in Nat /\ Len(stages) < MaxStages /\ MaxStages \in Nat
      /\ s \in States /\ stages[k].iter \in Nat /\ stages[k].iter <= Len(stages)
  <2>1. Len(stages) < MaxStages
      BY Zenon DEF RetryStage
  <2>2. Len(stages) \in Nat /\ MaxStages \in Nat
      BY RunLifecycleAssumption DEF Shape
  <2>3. stages[k].state \in States /\ stages[k].iter \in Nat
      BY StageFacts
  <2>4. stages[k].iter <= Len(stages)
      BY DEF Shape
  <2> QED BY <1>s, <2>1, <2>2, <2>3, <2>4
<1>3. PICK new : new = Len(stages) + 1
    OBVIOUS
<1>4. PICK F : F = [j \in DOMAIN stages |->
                 [stages[j] EXCEPT !.status = IF j = k THEN "skipped" ELSE @,
                                   !.auth = IF j \in Of(s) /\ @ = "active"
                                            THEN "superseded" ELSE @]]
    OBVIOUS
<1>5. ASSUME NEW j \in DOMAIN stages
      PROVE  /\ F[j] \in StageRow /\ F[j].state = stages[j].state /\ F[j].iter = stages[j].iter
             /\ F[j].status = IF j = k THEN "skipped" ELSE stages[j].status
             /\ F[j].auth = IF j \in Of(s) /\ stages[j].auth = "active"
                            THEN "superseded" ELSE stages[j].auth
  <2>1. stages[j] \in StageRow
      BY StageFacts
  <2>2. F[j] = [state |-> stages[j].state,
                status |-> IF j = k THEN "skipped" ELSE stages[j].status,
                iter |-> stages[j].iter,
                auth |-> IF j \in Of(s) /\ stages[j].auth = "active"
                         THEN "superseded" ELSE stages[j].auth]
      BY <1>4, <2>1 DEF StageRow
  <2> QED BY <2>1, <2>2 DEF StageRow, Over
<1>6. F \in Seq(StageRow) /\ Len(F) = Len(stages) /\ DOMAIN F = DOMAIN stages
  <2>1. DOMAIN stages = 1..Len(stages) /\ DOMAIN F = 1..Len(stages)
    <3>1. stages \in Seq(StageRow)
        BY DEF Shape
    <3>2. DOMAIN stages = 1..Len(stages)
        BY <3>1
    <3> QED BY <1>4, <3>2
  <2>2. F = [j \in 1..Len(stages) |-> F[j]]
      BY <1>4, <2>1
  <2>3. F \in [1..Len(stages) -> StageRow]
      BY <1>5, <2>1, <2>2
  <2>4. F \in Seq(StageRow)
      BY <1>2, <2>3, SeqDef
  <2>5. Len(F) = Len(stages)
      BY <1>2, <2>1, <2>4
  <2> QED BY <2>1, <2>4, <2>5
<1>7. NewStage(s, stages[k].iter, "active") \in StageRow
    BY <1>2, NewStageType
<1>8. stages' = Append(F, NewStage(s, stages[k].iter, "active"))
    BY <1>1, <1>4
<1>9. /\ stages' \in Seq(StageRow) /\ Len(stages') = Len(stages) + 1
      /\ DOMAIN stages \subseteq DOMAIN stages'
      /\ \A j \in DOMAIN stages' : j \in DOMAIN stages \/ j = new
      /\ \A j \in DOMAIN stages : stages'[j] = F[j]
      /\ stages'[new] = NewStage(s, stages[k].iter, "active")
  <2>1. PICK row \in StageRow : row = NewStage(s, stages[k].iter, "active")
      BY <1>7
  <2>2. stages' = Append(F, row)
      BY <1>8, <2>1
  <2>3. /\ stages' \in Seq(StageRow) /\ Len(stages') = Len(F) + 1
        /\ DOMAIN F \subseteq DOMAIN stages'
        /\ \A j \in DOMAIN stages' : j \in DOMAIN F \/ j = Len(F) + 1
        /\ \A j \in DOMAIN F : stages'[j] = F[j]
        /\ stages'[Len(F) + 1] = row
      BY <1>6, <2>2
  <2> QED BY <1>3, <1>6, <2>1, <2>3
<1>10. /\ stages'[new].state = s /\ stages'[new].status = "pending"
       /\ stages'[new].iter = stages[k].iter /\ stages'[new].auth = "active"
    BY <1>9 DEF NewStage
<1>11. new \in 1..MaxStages /\ Len(stages') = new /\ new \in DOMAIN stages'
    BY <1>2, <1>3, <1>9
<1>12. \A j \in DOMAIN stages :
          /\ stages'[j].state = stages[j].state /\ stages'[j].iter = stages[j].iter
          /\ stages'[j].status = IF j = k THEN "skipped" ELSE stages[j].status
          /\ stages'[j].auth = IF j \in Of(s) /\ stages[j].auth = "active"
                               THEN "superseded" ELSE stages[j].auth
    BY <1>5, <1>9
<1>13. queue' = Redirected(s, new)
    BY <1>1, <1>3
<1>14. s \in States /\ Len(stages) \in Nat
    BY <1>2
<1>15. Replaced(k, s, new)
    BY <1>s, <1>1, <1>3, <1>9, <1>10, <1>11, <1>12, <1>13, <1>14 DEF Replaced
<1> QED BY <1>11, <1>14, <1>15

LEMMA RetryStageStep ==
    ASSUME LifecycleInv, RetryStage PROVE LifecycleInv'
<1> USE DEF LifecycleInv
<1>0. PICK k \in DOMAIN stages, s \in States, new \in 1..MaxStages : Replaced(k, s, new)
    BY RetryFacts
<1>1. /\ s = stages[k].state /\ new = Len(stages) + 1
      /\ stages[k].status \in {"failed", "blocked", "completed"}
      /\ stages' \in Seq(StageRow) /\ Len(stages') = new /\ Len(stages) \in Nat
      /\ DOMAIN stages \subseteq DOMAIN stages' /\ new \in DOMAIN stages'
      /\ \A j \in DOMAIN stages' : j \in DOMAIN stages \/ j = new
      /\ \A j \in DOMAIN stages :
            /\ stages'[j].state = stages[j].state /\ stages'[j].iter = stages[j].iter
            /\ stages'[j].status = IF j = k THEN "skipped" ELSE stages[j].status
      /\ stages'[new].state = s /\ stages'[new].status = "pending"
      /\ stages'[new].iter = stages[k].iter
      /\ items' = [j \in 1..MaxStages |-> [t \in Tasks |->
             IF j \in Of(s) /\ items[j][t] \in Waiting THEN "cancelled" ELSE items[j][t]]]
      /\ run' = [run EXCEPT !.status = "running", !.state = s]
      /\ conflict' = NoConflict \/ UNCHANGED conflict
      /\ UNCHANGED adv \/ adv' = [adv EXCEPT !.live = FALSE]
    BY <1>0 DEF Replaced
<1>2. MaxStages \in Nat /\ stages[k].iter \in Nat /\ stages[k].iter <= Len(stages)
    BY RunLifecycleAssumption, StageFacts DEF Shape
<1>3. \A j \in DOMAIN stages' : stages'[j].iter <= Len(stages')
  <2>1. \A j \in DOMAIN stages : stages[j].iter \in Nat /\ stages[j].iter <= Len(stages)
      BY StageFacts DEF Shape
  <2>2. \A j \in DOMAIN stages : stages'[j].iter = stages[j].iter
      BY <1>1
  <2>3. \A j \in DOMAIN stages : stages'[j].iter <= Len(stages) + 1
      BY <1>2, <2>1, <2>2
  <2>4. stages'[new].iter <= Len(stages) + 1
      BY <1>1, <1>2
  <2> QED BY <1>1, <2>3, <2>4
<1>4. items' \in [1..MaxStages -> [Tasks -> ItemStatus]]
  <2>1. \A j \in 1..MaxStages, t \in Tasks : items[j][t] \in ItemStatus
      BY DEF Shape
  <2> QED BY <1>1, <2>1 DEF ItemStatus
<1>5. ASSUME NEW j \in 1..MaxStages, NEW t \in Tasks
       PROVE  /\ items'[j][t] = items[j][t]
                 \/ (items[j][t] \in Waiting /\ items'[j][t] = "cancelled")
              /\ j \in Of(s) => items'[j][t] \notin Waiting
    BY <1>1 DEF Waiting
<1>6. \A j \in 1..MaxStages :
          /\ Absent(j) => Absent(j)'
          /\ Clean(j) => Clean(j)'
          /\ InFlight(j) = {} => InFlight(j)' = {}
    BY <1>5 DEF Absent, Clean, InFlight, Waiting
<1>7. k \in Of(s) /\ InFlight(k)' = {}
  <2>1. k \in Of(s) /\ k \in 1..MaxStages
      BY <1>1, StageFacts DEF Of
  <2> QED BY <1>5, <2>1 DEF InFlight
<1>8. run'.requested = run.requested
       /\ run' \in [status : RunStatus, state : States, requested : BOOLEAN, settled : BOOLEAN]
    BY <1>1 DEF Shape, RunStatus
<1>9. ItemInv'
  <2>1. \A j \in 1..MaxStages : j > Len(stages') => Absent(j)'
      BY <1>1, <1>2, <1>6 DEF ItemInv
  <2>2. ASSUME NEW j \in DOMAIN stages
        PROVE  /\ stages'[j].status \in {"pending", "waiting_approval"} => Absent(j)'
               /\ Absent(j)' \/ Phases[stages'[j].state] # <<>>
               /\ stages'[j].status = "completed" => Clean(j)' \/ SingleTask(stages'[j].state)
               /\ stages'[j].status = "skipped" /\ ~run'.requested => InFlight(j)' = {}
    <3>1. j \in 1..MaxStages
        BY StageFacts
    <3>2. /\ stages'[j].state = stages[j].state
          /\ stages'[j].status = IF j = k THEN "skipped" ELSE stages[j].status
        BY <1>1
    <3>3. CASE j = k
        BY <1>6, <1>7, <3>1, <3>2, <3>3 DEF ItemInv
    <3>4. CASE j # k
        BY <1>6, <1>8, <3>1, <3>2, <3>4 DEF ItemInv
    <3> QED BY <3>3, <3>4
  <2>3. Absent(new)'
    <3>1. new \in 1..MaxStages /\ new > Len(stages)
        BY <1>1
    <3> QED BY <1>6, <3>1 DEF ItemInv
  <2> QED BY <1>1, <2>1, <2>2, <2>3 DEF ItemInv
<1>10. adv' \in AdvType' /\ adv'.pc = adv.pc /\ Fields
  <2>1. UNCHANGED adv \/ adv' = [adv EXCEPT !.live = FALSE]
      BY <1>1
  <2> QED BY <1>1, <1>2, <2>1, DeadFacts
<1>11. AdvInv'
  <2>1. ASSUME NEW j \in DOMAIN stages
        PROVE  /\ stages'[j].state = stages[j].state
               /\ stages[j].status = "pending" => stages'[j].status = "pending"
               /\ stages[j].status \in {"running", "failed", "skipped"} =>
                     stages'[j].status \in {"running", "failed", "skipped"}
               /\ stages[j].status = "running" => stages'[j].status = "running"
               /\ Clean(j) => Clean(j)'
    <3>1. /\ stages'[j].state = stages[j].state
          /\ stages'[j].status = IF j = k THEN "skipped" ELSE stages[j].status
        BY <1>1
    <3>2. Clean(j) => Clean(j)'
        BY <1>6, StageFacts
    <3> QED BY <1>1, <3>1, <3>2
  <2> QED BY <1>1, <1>8, <1>10, <2>1, AdvKept DEF Shape
<1>12. conflict' \in [state : States \cup {NoState}, targets : SUBSET States]
  <2>1. conflict' = NoConflict \/ conflict' = conflict
      BY <1>1
  <2> QED BY <2>1 DEF Shape, NoConflict
<1> QED BY <1>1, <1>2, <1>3, <1>4, <1>8, <1>9, <1>10, <1>11, <1>12 DEF Shape

LEMMA ResolveConflictStep ==
    ASSUME LifecycleInv, ResolveConflict PROVE LifecycleInv'
<1> USE DEF LifecycleInv
<1>1. PICK s \in conflict.targets :
          /\ \/ UNCHANGED stages
             \/ /\ Last(s) # 0 /\ Len(stages) < MaxStages
                /\ stages' = Append(stages, NewStage(s, stages[Last(s)].iter + 1, "none"))
          /\ run' = [run EXCEPT !.status = "running", !.state = s]
    BY DEF ResolveConflict
<1>2. /\ UNCHANGED <<items, adv>> /\ conflict' = NoConflict /\ Len(stages) \in Nat
      /\ s \in States
    BY DEF ResolveConflict, Shape
<1>3. run'.requested = run.requested
      /\ run' \in [status : RunStatus, state : States, requested : BOOLEAN, settled : BOOLEAN]
    BY <1>1, <1>2 DEF Shape, RunStatus
<1>4. /\ stages' \in Seq(StageRow) /\ Len(stages') \in Nat /\ Len(stages) <= Len(stages')
      /\ Len(stages') <= MaxStages /\ \A k \in DOMAIN stages' : stages'[k].iter <= Len(stages')
      /\ ItemInv' /\ DOMAIN stages \subseteq DOMAIN stages'
      /\ \A j \in DOMAIN stages : stages'[j] = stages[j]
  <2>1. CASE UNCHANGED stages
    <3>1. ItemInv'
        BY <1>2, <1>3, <2>1, ItemsKept DEF Shape
    <3> QED BY <1>2, <2>1, <3>1 DEF Shape
  <2>2. CASE ~UNCHANGED stages
    <3>1. PICK n : n = stages[Last(s)].iter + 1
        OBVIOUS
    <3>2. n \in Nat /\ n <= Len(stages) + 1
      <4>1. Last(s) \in DOMAIN stages
          BY <1>1, <2>2, LastFacts
      <4>2. stages[Last(s)].iter \in Nat /\ stages[Last(s)].iter <= Len(stages)
          BY <4>1, StageFacts DEF Shape
      <4> QED BY <1>2, <3>1, <4>2
    <3>3. NewStage(s, n, "none") \in StageRow
        BY <1>2, <3>2, NewStageType
    <3>4. stages' = Append(stages, NewStage(s, n, "none")) /\ Len(stages) < MaxStages
        BY <1>1, <2>2, <3>1
    <3>5. /\ stages' \in Seq(StageRow) /\ Len(stages') = Len(stages) + 1
          /\ Len(stages') <= MaxStages
          /\ \A k \in DOMAIN stages' : stages'[k].iter <= Len(stages')
          /\ ItemInv'
        BY <1>2, <1>3, <3>2, <3>3, <3>4, AddedStage
    <3>6. DOMAIN stages \subseteq DOMAIN stages' /\ \A j \in DOMAIN stages : stages'[j] = stages[j]
        BY <3>3, <3>4, AppendFacts
    <3> QED BY <1>2, <3>5, <3>6
  <2> QED BY <2>1, <2>2
<1>5. adv' \in AdvType' /\ adv'.pc = adv.pc /\ Fields
    BY <1>2, <1>4, DeadFacts
<1>6. \A j \in DOMAIN stages : Clean(j) => Clean(j)'
    BY <1>2 DEF Clean
<1>7. AdvInv'
    BY <1>3, <1>4, <1>5, <1>6, AdvKept DEF Shape
<1>8. conflict' \in [state : States \cup {NoState}, targets : SUBSET States]
    BY <1>2 DEF NoConflict
<1> QED BY <1>2, <1>3, <1>4, <1>5, <1>7, <1>8 DEF Shape

LEMMA RunOnlyStep ==
    ASSUME LifecycleInv, RetryRun \/ Finalize PROVE LifecycleInv'
<1> USE DEF LifecycleInv
<1>1. UNCHANGED <<stages, items, conflict, adv>> /\ Len(stages) \in Nat
    BY DEF RetryRun, Finalize, Shape
<1>2. run'.requested = run.requested
      /\ run' \in [status : RunStatus, state : States, requested : BOOLEAN, settled : BOOLEAN]
    BY DEF Shape, RunStatus, Closed, RetryRun, Finalize
<1>3. ItemInv'
    BY <1>1, <1>2, ItemsKept DEF Shape
<1>4. adv' \in AdvType' /\ Fields
    BY <1>1, DeadFacts
<1>5. \A j \in DOMAIN stages : Clean(j) => Clean(j)'
    BY <1>1 DEF Clean
<1>6. AdvInv'
    BY <1>1, <1>2, <1>4, <1>5, AdvKept DEF Shape
<1> QED BY <1>1, <1>2, <1>3, <1>4, <1>6 DEF Shape

(* The rows of a table of stage executions keep their order and their states. *)
LEMMA RowsKept ==
    ASSUME Shape, DOMAIN stages' = DOMAIN stages, stages' = [k \in DOMAIN stages |-> stages'[k]],
           \A k \in DOMAIN stages : stages'[k] \in StageRow
    PROVE  stages' \in Seq(StageRow) /\ Len(stages') = Len(stages) /\ Len(stages) \in Nat
<1>1. DOMAIN stages = 1..Len(stages) /\ Len(stages) \in Nat
  <2>1. stages \in Seq(StageRow)
      BY DEF Shape
  <2> QED BY <2>1
<1>2. stages' \in [1..Len(stages) -> StageRow]
    BY <1>1
<1>3. stages' \in Seq(StageRow)
    BY <1>1, <1>2, SeqDef
<1>4. Len(stages') = Len(stages)
    BY <1>1, <1>2, <1>3
<1> QED BY <1>1, <1>3, <1>4

LEMMA CancelRunStep ==
    ASSUME LifecycleInv, CancelRun PROVE LifecycleInv'
<1> USE DEF LifecycleInv
<1>1. /\ run' = [run EXCEPT !.status = "cancelling", !.requested = TRUE]
      /\ items' = [k \in 1..MaxStages |-> [t \in Tasks |->
             IF items[k][t] = "running" THEN "cancelled" ELSE items[k][t]]]
      /\ stages' = [k \in DOMAIN stages |->
             IF stages[k].status = "running" THEN [stages[k] EXCEPT !.status = "failed"]
                                             ELSE stages[k]]
      /\ adv' = [adv EXCEPT !.live = FALSE] /\ UNCHANGED conflict
    BY DEF CancelRun
<1>2. run'.requested /\ run'.requested \in BOOLEAN
      /\ run' \in [status : RunStatus, state : States, requested : BOOLEAN, settled : BOOLEAN]
    BY <1>1 DEF Shape, RunStatus
<1>3. ASSUME NEW k \in DOMAIN stages
      PROVE  /\ stages'[k] \in StageRow /\ stages'[k].state = stages[k].state
             /\ stages'[k].iter = stages[k].iter
             /\ stages'[k].status = IF stages[k].status = "running" THEN "failed"
                                    ELSE stages[k].status
  <2>1. stages[k] \in StageRow
      BY StageFacts
  <2>2. CASE stages[k].status = "running"
    <3>1. stages'[k] = [state |-> stages[k].state, status |-> "failed",
                        iter |-> stages[k].iter, auth |-> stages[k].auth]
        BY <1>1, <2>1, <2>2 DEF StageRow
    <3> QED BY <2>1, <2>2, <3>1 DEF StageRow, Over
  <2>3. CASE stages[k].status # "running"
      BY <1>1, <2>1, <2>3
  <2> QED BY <2>2, <2>3
<1>4. /\ DOMAIN stages' = DOMAIN stages /\ stages' \in Seq(StageRow)
      /\ Len(stages') = Len(stages) /\ Len(stages) \in Nat
    BY <1>1, <1>3, RowsKept
<1>5. items' \in [1..MaxStages -> [Tasks -> ItemStatus]]
  <2>1. \A j \in 1..MaxStages, t \in Tasks : items[j][t] \in ItemStatus
      BY DEF Shape
  <2> QED BY <1>1, <2>1 DEF ItemStatus
<1>6. \A j \in 1..MaxStages : (Absent(j) => Absent(j)') /\ (Clean(j) => Clean(j)')
    BY <1>1 DEF Absent, Clean, Waiting
<1>7. \A j \in DOMAIN stages : j \in 1..MaxStages
    BY StageFacts
<1>8. ItemInv'
    BY <1>2, <1>3, <1>4, <1>6, <1>7 DEF ItemInv
<1>9. adv' \in AdvType' /\ adv'.pc = adv.pc /\ Fields
    BY <1>1, <1>4, DeadFacts
<1>10. AdvInv'
    BY <1>2, <1>3, <1>4, <1>6, <1>7, <1>9, AdvKept DEF Shape
<1>11. \A k \in DOMAIN stages' : stages'[k].iter <= Len(stages')
    BY <1>3, <1>4 DEF Shape
<1> QED BY <1>1, <1>2, <1>4, <1>5, <1>8, <1>9, <1>10, <1>11 DEF Shape

-----------------------------------------------------------------------------
(* Restart                                                                 *)

(* The repair of a cancelled run leaves nothing in flight. *)
LEMMA CloseCancelledStep ==
    ASSUME LifecycleInv, CloseCancelled, adv' = Idle, UNCHANGED conflict PROVE LifecycleInv'
<1> USE DEF LifecycleInv
<1>1. /\ run' = [run EXCEPT !.status = "cancelled"]
      /\ items' = [k \in 1..MaxStages |-> [t \in Tasks |->
             IF items[k][t] \in Waiting THEN "cancelled" ELSE items[k][t]]]
      /\ stages' = [k \in DOMAIN stages |->
             [stages[k] EXCEPT !.status = IF @ \in Waiting THEN "skipped" ELSE @,
                               !.auth = IF @ = "active" THEN "terminalized" ELSE @]]
    BY DEF CloseCancelled
<1>2. run' \in [status : RunStatus, state : States, requested : BOOLEAN, settled : BOOLEAN]
    BY <1>1 DEF Shape, RunStatus, Closed
<1>3. ASSUME NEW k \in DOMAIN stages
      PROVE  /\ stages'[k] \in StageRow /\ stages'[k].state = stages[k].state
             /\ stages'[k].iter = stages[k].iter
             /\ stages'[k].status = IF stages[k].status \in Waiting THEN "skipped"
                                    ELSE stages[k].status
  <2>1. stages[k] \in StageRow
      BY StageFacts
  <2>2. stages'[k] = [state |-> stages[k].state,
                      status |-> IF stages[k].status \in Waiting THEN "skipped"
                                 ELSE stages[k].status,
                      iter |-> stages[k].iter,
                      auth |-> IF stages[k].auth = "active" THEN "terminalized"
                               ELSE stages[k].auth]
      BY <1>1, <2>1 DEF StageRow
  <2> QED BY <2>1, <2>2 DEF StageRow, Over
<1>4. /\ DOMAIN stages' = DOMAIN stages /\ stages' \in Seq(StageRow)
      /\ Len(stages') = Len(stages) /\ Len(stages) \in Nat
    BY <1>1, <1>3, RowsKept
<1>5. items' \in [1..MaxStages -> [Tasks -> ItemStatus]]
  <2>1. \A j \in 1..MaxStages, t \in Tasks : items[j][t] \in ItemStatus
      BY DEF Shape
  <2> QED BY <1>1, <2>1 DEF ItemStatus
<1>6. \A j \in 1..MaxStages :
          /\ Absent(j) => Absent(j)'
          /\ Clean(j) => Clean(j)'
          /\ InFlight(j)' = {}
    BY <1>1 DEF Absent, Clean, InFlight, Waiting
<1>7. \A j \in DOMAIN stages : j \in 1..MaxStages
    BY StageFacts
<1>8. ItemInv'
    BY <1>3, <1>4, <1>6, <1>7 DEF ItemInv
<1>9. adv' \in AdvType' /\ AdvInv'
    BY <1>4, IdleFacts, RestingAdv
<1>10. \A k \in DOMAIN stages' : stages'[k].iter <= Len(stages')
    BY <1>3, <1>4 DEF Shape
<1> QED BY <1>2, <1>4, <1>5, <1>8, <1>9, <1>10 DEF Shape

LEMMA RepairRunStep ==
    ASSUME LifecycleInv, adv' = Idle, UNCHANGED <<run, stages, conflict>>,
           \/ UNCHANGED items
           \/ items' = [k \in 1..MaxStages |-> [t \in Tasks |->
                  IF items[k][t] = "running" THEN "pending" ELSE items[k][t]]]
    PROVE  LifecycleInv'
<1> USE DEF LifecycleInv
<1>1. Len(stages) \in Nat /\ items' \in [1..MaxStages -> [Tasks -> ItemStatus]]
  <2>1. items \in [1..MaxStages -> [Tasks -> ItemStatus]] /\ Len(stages) \in Nat
      BY DEF Shape
  <2>2. \A j \in 1..MaxStages, t \in Tasks : items[j][t] \in ItemStatus
      BY <2>1
  <2> QED BY <2>1, <2>2 DEF ItemStatus, Waiting
<1>2. \A j \in 1..MaxStages :
          /\ Absent(j) => Absent(j)'
          /\ Clean(j) => Clean(j)'
          /\ InFlight(j) = {} => InFlight(j)' = {}
  <2>1. CASE UNCHANGED items
      BY <2>1 DEF Absent, Clean, InFlight
  <2>2. CASE ~UNCHANGED items
    <3>1. \A j \in 1..MaxStages, t \in Tasks : items'[j][t] =
              IF items[j][t] = "running" THEN "pending" ELSE items[j][t]
        BY <2>2
    <3> QED BY <3>1 DEF Absent, Clean, InFlight, Waiting
  <2> QED BY <2>1, <2>2
<1>3. \A j \in DOMAIN stages : j \in 1..MaxStages
    BY StageFacts
<1>4. ItemInv'
    BY <1>2, <1>3 DEF ItemInv
<1>5. adv' \in AdvType' /\ AdvInv'
    BY <1>1, IdleFacts, RestingAdv
<1> QED BY <1>1, <1>4, <1>5 DEF Shape

LEMMA RestartStep ==
    ASSUME LifecycleInv, Restart PROVE LifecycleInv'
<1>1. adv' = Idle /\ UNCHANGED conflict
    BY DEF Restart
<1>2. CASE CloseCancelled
    BY <1>1, <1>2, CloseCancelledStep
<1>3. CASE ~CloseCancelled
  <2>1. RepairRun => UNCHANGED <<run, stages>>
      BY DEF RepairRun
  <2>2. RepairRun => items' = [k \in 1..MaxStages |-> [t \in Tasks |->
                        IF items[k][t] = "running" THEN "pending" ELSE items[k][t]]]
      BY DEF RepairRun
  <2>3. \/ RepairRun
        \/ UNCHANGED <<run, stages, items>>
      BY <1>3 DEF Restart
  <2> QED BY <1>1, <2>1, <2>2, <2>3, RepairRunStep
<1> QED BY <1>2, <1>3

-----------------------------------------------------------------------------
(* The tasks of the executor                                               *)

(* Stage executions keep their states. *)
LEMMA StatesKept ==
    ASSUME LifecycleInv, [Next]_vars, NEW k \in DOMAIN stages
    PROVE  k \in DOMAIN stages' /\ stages'[k].state = stages[k].state
<1> USE DEF LifecycleInv
<1>1. CASE UNCHANGED stages
    BY <1>1
<1>2. CASE \E j \in DOMAIN stages, st \in StageStatus : SetStage(j, st)
    BY <1>2, SetStageFacts
<1>3. CASE \E j \in DOMAIN stages : stages' = [stages EXCEPT ![j].auth = "terminalized"]
    BY <1>3, AuthFacts
<1>4. CASE \E row : stages' = Append(stages, row)
  <2>1. PICK row : stages' = Append(stages, row)
      BY <1>4
  <2>2. stages \in Seq(StageRow)
      BY DEF Shape
  <2> QED BY <2>1, <2>2
<1>5. CASE RetryStage
    BY <1>5, RetryFacts DEF Replaced
<1>6. CASE CancelRun
    BY <1>6, StageFacts DEF CancelRun, StageRow
<1>7. CASE CloseCancelled
    BY <1>7, StageFacts DEF CloseCancelled, StageRow
<1>8. adv.stage # 0 => adv.stage \in DOMAIN stages
    BY DEF Shape, AdvType
<1>9. CASE UNCHANGED vars
    BY <1>1, <1>9 DEF vars, tables
<1>10. CASE Advance
  <2>1. CASE Claim \/ Terminalize
    <3>1. UNCHANGED stages
          \/ \E j : j \in DOMAIN stages /\ stages' = [stages EXCEPT ![j].auth = "terminalized"]
      <4>1. CASE Claim
          BY <4>1 DEF Claim
      <4>2. CASE Terminalize
        <5>1. CASE adv.target \in DOMAIN stages
            BY <4>2, <5>1 DEF Terminalize
        <5>2. CASE adv.target \notin DOMAIN stages
            BY <4>2, <5>2 DEF Terminalize, Shape
        <5> QED BY <5>1, <5>2
      <4> QED BY <2>1, <4>1, <4>2
    <3> QED BY <1>1, <1>3, <3>1
  <2>2. CASE OpenGate \/ OpenStage \/ FailStage \/ PromptFails
      BY <1>2, <1>8, <2>2 DEF OpenGate, OpenStage, FailStage, PromptFails, Step, StageStatus, Over,
                              AdvInv
  <2>3. CASE CompleteStage
    <3>1. PICK j : /\ j = IF adv.pc = "end_stage" THEN First(adv.at) ELSE adv.stage
                   /\ SetStage(j, "completed")
        BY <2>3 DEF CompleteStage
    <3>2. j \in DOMAIN stages
        BY <1>8, <2>3, <3>1, FirstFacts DEF CompleteStage, AdvInv
    <3> QED BY <1>2, <3>1, <3>2 DEF StageStatus, Over
  <2>4. CASE Create \/ SelfLoop
      BY <1>4, <2>4 DEF Create, SelfLoop
  <2>5. CASE ~(Claim \/ Terminalize \/ OpenGate \/ OpenStage \/ FailStage \/ PromptFails
                 \/ CompleteStage \/ Create \/ SelfLoop)
    <3>1. UNCHANGED stages
        BY <1>10, <2>5 DEF Advance, Decide, RequestApproval, PauseRun, StartRun, Provision,
               EnqueueTask, CloseRun, Evaluate, SelectMove, ReleaseCursor, MoveRun, WakeRun,
               RecordConflict, BlockOnConflict, ParkCursor, tables
    <3> QED BY <1>1, <3>1
  <2> QED BY <2>1, <2>2, <2>3, <2>4, <2>5
<1>11. CASE ClaimInvoke \/ Reevaluate \/ Requeue \/ SettleInvoke \/ RetryRun \/ Finalize
    BY <1>1, <1>11 DEF ClaimInvoke, Reevaluate, Requeue, SettleInvoke, RetryRun, Finalize
<1>12. CASE SettleSingle
    BY <1>2, <1>12 DEF SettleSingle, StageStatus, Over
<1>13. CASE ResolveApproval
  <2>1. CASE UNCHANGED stages
      BY <1>1, <2>1
  <2>2. CASE ~UNCHANGED stages
    <3> DEFINE Open(s) == {j \in Of(s) : stages[j].status = "waiting_approval"}
    <3>a. PICK a \in DOMAIN approvals, d \in {"granted", "rejected"} :
              LET W == Open(approvals[a].state)
              IN  W # {} /\ SetStage(CHOOSE i \in W : \A j \in W : i <= j,
                               IF d = "granted" /\ Phases[approvals[a].state] # <<>>
                               THEN "running" ELSE "completed")
        BY <1>13, <2>2, Zenon DEF ResolveApproval
    <3>1. PICK W, j, st : /\ W = Open(approvals[a].state)
                          /\ j = CHOOSE i \in W : \A h \in W : i <= h
                          /\ st = IF d = "granted" /\ Phases[approvals[a].state] # <<>>
                                  THEN "running" ELSE "completed"
        OBVIOUS
    <3>2. /\ W \subseteq DOMAIN stages /\ W # {} /\ SetStage(j, st)
          /\ j = (CHOOSE i \in W : \A h \in W : i <= h)
          /\ st \in {"running", "completed"}
        BY <3>a, <3>1 DEF Of
    <3>3. W \in SUBSET Nat
        BY <3>2 DEF Shape
    <3>4. j \in DOMAIN stages
        BY <3>2, <3>3, LeastExists
    <3> QED BY <1>2, <3>2, <3>4 DEF StageStatus, Over
  <2> QED BY <2>1, <2>2
<1>14. CASE ResolveConflict
    BY <1>1, <1>4, <1>14 DEF ResolveConflict
<1>15. CASE Restart
  <2>1. CloseCancelled \/ UNCHANGED stages
      BY <1>15 DEF Restart, RepairRun
  <2> QED BY <1>1, <1>7, <2>1
<1> QED BY <1>5, <1>6, <1>9, <1>10, <1>11, <1>12, <1>13, <1>14, <1>15 DEF Next, Command

(* An item does not vanish, and only the advance that enqueues makes one. *)
LEMMA ItemsStay ==
    ASSUME LifecycleInv, [Next]_vars, NEW k \in 1..MaxStages, NEW t \in Tasks
    PROVE  /\ items[k][t] # "absent" => items'[k][t] # "absent"
           /\ items[k][t] = "absent" /\ items'[k][t] # "absent" =>
                 EnqueueTask /\ k = adv.stage /\ t \in adv.todo
<1> USE DEF LifecycleInv
<1>1. items \in [1..MaxStages -> [Tasks -> ItemStatus]]
    BY DEF Shape
<1>2. CASE UNCHANGED items
    BY <1>2
<1>3. CASE \E j \in 1..MaxStages, u \in Tasks, v \in ItemStatus \ {"absent"} :
              items[j][u] # "absent" /\ items' = [items EXCEPT ![j][u] = v]
    BY <1>1, <1>3
<1>4. CASE EnqueueTask
  <2>1. PICK u \in adv.todo : items' = [items EXCEPT ![adv.stage][u] = "pending"]
      BY <1>4 DEF EnqueueTask
  <2>2. adv.stage \in DOMAIN stages /\ u \in Tasks
      BY <1>4 DEF EnqueueTask, AdvInv, Shape, AdvType
  <2>3. adv.stage \in 1..MaxStages
      BY <2>2, StageFacts
  <2>4. items'[k][t] = IF k = adv.stage /\ t = u THEN "pending" ELSE items[k][t]
      BY <1>1, <2>1, <2>2, <2>3
  <2> QED BY <1>4, <2>1, <2>4
<1>5. CASE RetryStage \/ CancelRun \/ CloseCancelled \/ RepairRun
  <2>1. CASE RetryStage
    <3>1. PICK j \in DOMAIN stages, s \in States, new \in 1..MaxStages : Replaced(j, s, new)
        BY <2>1, RetryFacts
    <3>2. items' = [i \in 1..MaxStages |-> [u \in Tasks |->
             IF i \in Of(s) /\ items[i][u] \in Waiting THEN "cancelled" ELSE items[i][u]]]
        BY <3>1 DEF Replaced
    <3> QED BY <3>2 DEF Waiting
  <2>2. CASE CancelRun
      BY <2>2 DEF CancelRun
  <2>3. CASE CloseCancelled
      BY <2>3 DEF CloseCancelled, Waiting
  <2>4. CASE RepairRun
    <3>1. items' = [j \in 1..MaxStages |-> [u \in Tasks |->
             IF items[j][u] = "running" THEN "pending" ELSE items[j][u]]]
        BY <2>4 DEF RepairRun
    <3> QED BY <3>1
  <2> QED BY <1>5, <2>1, <2>2, <2>3, <2>4
<1>6. CASE ClaimInvoke \/ Requeue \/ SettleInvoke
  <2>1. \E j \in DOMAIN stages, u \in Tasks, v \in ItemStatus \ {"absent"} :
           items[j][u] # "absent" /\ items' = [items EXCEPT ![j][u] = v]
    <3>0. "running" \in ItemStatus \ {"absent"} /\ {"completed", "failed"} \subseteq ItemStatus \ {"absent"}
        BY DEF ItemStatus, Waiting
    <3>1. CASE ClaimInvoke
      <4>1. PICK j \in DOMAIN stages, u \in Tasks :
                items[j][u] = "pending" /\ items' = [items EXCEPT ![j][u] = "running"]
          BY <3>1 DEF ClaimInvoke
      <4> QED BY <3>0, <4>1
    <3>2. CASE Requeue
        BY <3>2 DEF Requeue, ItemStatus, Waiting
    <3>3. CASE SettleInvoke
      <4>1. PICK j \in DOMAIN stages, u \in Tasks, v \in {"completed", "failed"} :
                items[j][u] = "running" /\ items' = [items EXCEPT ![j][u] = v]
          BY <3>3 DEF SettleInvoke
      <4> QED BY <3>0, <4>1
    <3> QED BY <1>6, <3>1, <3>2, <3>3
  <2> QED BY <1>3, <2>1, StageFacts
<1>7. CASE UNCHANGED vars
    BY <1>2, <1>7 DEF vars, tables
<1>8. CASE Advance /\ ~EnqueueTask
  <2>1. UNCHANGED items
      BY <1>8 DEF Advance, Claim, Decide, Create, OpenGate, RequestApproval, PauseRun, OpenStage,
             StartRun, Provision, PromptFails, CompleteStage, FailStage, CloseRun, Evaluate,
             SelectMove, ReleaseCursor, SelfLoop, MoveRun, WakeRun, RecordConflict,
             BlockOnConflict, ParkCursor, Terminalize, tables
  <2> QED BY <1>2, <2>1
<1>9. CASE SettleSingle \/ Reevaluate \/ ResolveApproval \/ RetryRun \/ ResolveConflict \/ Finalize
    BY <1>2, <1>9 DEF SettleSingle, Reevaluate, ResolveApproval, RetryRun, ResolveConflict, Finalize
<1>10. CASE Restart
  <2>1. CloseCancelled \/ RepairRun \/ UNCHANGED items
      BY <1>10 DEF Restart
  <2> QED BY <1>2, <1>5, <2>1
<1> QED BY <1>4, <1>5, <1>6, <1>7, <1>8, <1>9, <1>10 DEF Next, Command

(* Only an item that is claimed gets a task. *)
LEMMA WorkersStay ==
    ASSUME LifecycleInv, TaskInv, [Next]_vars
    PROVE  /\ workers' \in [1..MaxStages -> [Tasks -> {"none", "busy", "settled"}]]
           /\ \A k \in 1..MaxStages, t \in Tasks :
                 workers'[k][t] # "none" => items'[k][t] # "absent"
<1> USE DEF LifecycleInv
<1>1. /\ workers \in [1..MaxStages -> [Tasks -> {"none", "busy", "settled"}]]
      /\ \A k \in 1..MaxStages, t \in Tasks : workers[k][t] # "none" => items[k][t] # "absent"
    BY DEF TaskInv
<1>2. CASE UNCHANGED workers
    BY <1>1, <1>2, ItemsStay
<1>3. CASE \E k \in DOMAIN stages, t \in Tasks, v \in {"none", "busy", "settled"} :
              items[k][t] # "absent" /\ workers' = [workers EXCEPT ![k][t] = v]
  <2>1. PICK k \in DOMAIN stages, t \in Tasks, v \in {"none", "busy", "settled"} :
            items[k][t] # "absent" /\ workers' = [workers EXCEPT ![k][t] = v]
      BY <1>3
  <2>2. k \in 1..MaxStages
      BY StageFacts
  <2>3. \A j \in 1..MaxStages, u \in Tasks :
           workers'[j][u] = IF j = k /\ u = t THEN v ELSE workers[j][u]
      BY <1>1, <2>1, <2>2
  <2> QED BY <1>1, <2>1, <2>2, <2>3, ItemsStay
<1>4. CASE ClaimInvoke \/ Requeue \/ SettleInvoke
  <2>1. UNCHANGED workers
        \/ \E k \in DOMAIN stages, t \in Tasks, v \in {"none", "busy", "settled"} :
              items[k][t] # "absent" /\ workers' = [workers EXCEPT ![k][t] = v]
      BY <1>4 DEF ClaimInvoke, Requeue, SettleInvoke
  <2> QED BY <1>2, <1>3, <2>1
<1>5. CASE SettleSingle \/ Reevaluate
  <2>1. \E k \in DOMAIN stages, t \in Tasks, v \in {"none", "busy", "settled"} :
              workers[k][t] # "none" /\ workers' = [workers EXCEPT ![k][t] = v]
      BY <1>5 DEF SettleSingle, Reevaluate
  <2>2. \A k \in DOMAIN stages : k \in 1..MaxStages
      BY StageFacts
  <2> QED BY <1>1, <1>3, <2>1, <2>2
<1>6. CASE Restart
    BY <1>6 DEF Restart, NoWorkers
<1>7. CASE UNCHANGED vars \/ Advance \/ Command
  <2>1. UNCHANGED workers
    <3>1. CASE UNCHANGED vars
        BY <3>1 DEF vars
    <3>2. CASE Advance
        BY <3>2 DEF Advance, Claim, Decide, Create, OpenGate, RequestApproval, PauseRun, OpenStage,
             StartRun, Provision, EnqueueTask, PromptFails, CompleteStage, FailStage, CloseRun,
             Evaluate, SelectMove, ReleaseCursor, SelfLoop, MoveRun, WakeRun, RecordConflict,
             BlockOnConflict, ParkCursor, Terminalize, rest
    <3>3. CASE Command
        BY <3>3 DEF Command, ResolveApproval, RetryStage, RetryRun, ResolveConflict, CancelRun,
             Finalize
    <3> QED BY <1>7, <3>1, <3>2, <3>3
  <2> QED BY <1>2, <2>1
<1> QED BY <1>4, <1>5, <1>6, <1>7 DEF Next

(* What the plan of a stage allows an advance to enqueue. *)
Enqueues == /\ adv.pc = "enqueue" => adv.todo \subseteq TasksOf(adv.at)
            /\ adv.pc \in {"start", "provision"} \/ (adv.pc = "enqueue" /\ SingleTask(adv.at)) =>
                  Absent(adv.stage)

LEMMA AbsentStays ==
    ASSUME LifecycleInv, [Next]_vars, ~EnqueueTask, NEW k \in DOMAIN stages, Absent(k)
    PROVE  Absent(k)'
<1>1. k \in 1..MaxStages
    BY StageFacts DEF LifecycleInv
<1> QED BY <1>1, ItemsStay DEF Absent

LEMMA PlannedTasks ==
    ASSUME NEW s \in States, SingleTask(s), NEW t \in TasksOf(s), NEW u \in TasksOf(s)
    PROVE  t = u
BY DEF SingleTask, TasksOf

(* No task of a single-task stage is enqueued twice. *)
LEMMA FanOutFirst ==
    ASSUME LifecycleInv, TaskInv, FanOut
    PROVE  /\ Current \in DOMAIN stages /\ adv'.stage = Current /\ adv'.at = adv.at
           /\ adv'.todo \subseteq TasksOf(adv.at)
           /\ SingleTask(adv.at) => Absent(Current)
<1> USE DEF LifecycleInv
<1>1. /\ Current # 0 /\ Ahead(Current) # {} /\ adv.pc = "decide"
      /\ Do("enqueue", Current, Phases[adv.at][NextPhase(Current)])
    BY DEF FanOut, At
<1>2. Current \in DOMAIN stages /\ stages[Current].state = adv.at
    BY <1>1, LastFacts DEF Current, AdvInv, Shape, AdvType
<1>3. adv.at \in States /\ Phases[adv.at] \in Seq(SUBSET Tasks)
    BY RunLifecycleAssumption DEF Shape, AdvType
<1>4. Ahead(Current) \subseteq DOMAIN Phases[adv.at] /\ Ahead(Current) \in SUBSET Nat
    BY <1>2, <1>3 DEF Ahead
<1>5. NextPhase(Current) \in Ahead(Current)
    BY <1>1, <1>4, LeastExists DEF NextPhase
<1>6. Phases[adv.at][NextPhase(Current)] \subseteq TasksOf(adv.at)
    BY <1>4, <1>5 DEF TasksOf
<1>7. adv'.stage = Current /\ adv'.at = adv.at /\ adv'.todo = Phases[adv.at][NextPhase(Current)]
    BY <1>1 DEF Do, Shape, AdvType
<1>8. ASSUME SingleTask(adv.at), NEW t \in Tasks, items[Current][t] # "absent" PROVE FALSE
  <2>1. t \in TasksOf(adv.at) /\ t \in Invoked(Current)
      BY <1>2, <1>8 DEF TaskInv, Invoked
  <2>2. PICK p : p = NextPhase(Current)
      OBVIOUS
  <2>3. p \in DOMAIN Phases[adv.at] /\ Phases[adv.at][p] # {} /\ p \in Nat
      BY <1>3, <1>4, <1>5, <2>2, RunLifecycleAssumption
  <2>4. PICK u : u \in Phases[adv.at][p]
      BY <2>3
  <2>5. u = t
    <3>1. u \in TasksOf(adv.at)
        BY <2>3, <2>4 DEF TasksOf
    <3> QED BY <1>3, <1>8, <2>1, <3>1, PlannedTasks
  <2>6. Phases[adv.at][p] \cap Invoked(Current) # {}
      BY <2>1, <2>4, <2>5
  <2>7. p < p
      BY <1>2, <1>5, <2>2, <2>3, <2>6 DEF Ahead
  <2> QED BY <2>3, <2>7
<1> QED BY <1>2, <1>6, <1>7, <1>8 DEF Absent

LEMMA EnqueuesStep ==
    ASSUME LifecycleInv, TaskInv, [Next]_vars PROVE Enqueues'
<1> USE DEF LifecycleInv
<1>1. Enqueues
    BY DEF TaskInv, Enqueues
<1>2. adv.pc \in {"start", "provision", "enqueue", "open"} =>
          adv.stage \in DOMAIN stages /\ adv.stage # 0
    BY DEF Shape, AdvType, AdvInv
<1>3. adv.at \in States /\ adv.pc \in Steps
    BY DEF Shape, AdvType
<1>4. CASE adv'.pc \notin {"start", "provision", "enqueue"}
    BY <1>4 DEF Enqueues
<1>5. CASE /\ ~EnqueueTask /\ adv'.pc = adv.pc /\ adv'.at = adv.at /\ adv'.stage = adv.stage
           /\ adv'.todo = adv.todo
  <2>1. adv.pc \in {"start", "provision"} \/ (adv.pc = "enqueue" /\ SingleTask(adv.at)) =>
            Absent(adv.stage)'
    <3>1. adv.stage \in DOMAIN stages /\ Absent(adv.stage) => Absent(adv.stage)'
        BY <1>5, AbsentStays
    <3> QED BY <1>1, <1>2, <3>1 DEF Enqueues
  <2> QED BY <1>1, <1>5, <2>1 DEF Enqueues
<1>6. CASE Advance
  <2>1. CASE Decide
    <3>1. CASE FanOut
      <4>1. /\ Current \in DOMAIN stages /\ adv'.stage = Current /\ adv'.at = adv.at
            /\ adv'.todo \subseteq TasksOf(adv.at)
            /\ SingleTask(adv.at) => Absent(Current)
          BY <3>1, FanOutFirst
      <4>2. Absent(Current) => Absent(adv.stage)'
          BY <2>1, <4>1 DEF Decide, tables, Absent
      <4>3. adv'.pc = "enqueue"
          BY <3>1 DEF FanOut, Do, Shape, AdvType
      <4> QED BY <4>1, <4>2, <4>3 DEF Enqueues
    <3>2. CASE ~FanOut
      <4>1. adv'.pc \notin {"start", "provision", "enqueue"}
        <5>1. Finish => adv'.pc \in {"idle", "finish"}
            BY DEF Finish, Idle
        <5>2. \A pc, k, T : Do(pc, k, T) => adv'.pc = pc
            BY DEF Do, Shape, AdvType
        <5>3. CASE WaitOn \/ StageStopped
            BY <5>1, <5>2, <5>3 DEF WaitOn, StageStopped
        <5>4. CASE SettleStage \/ Reconsider \/ ReopenGate \/ Enter
            BY <5>2, <5>4 DEF SettleStage, Reconsider, ReopenGate, Enter
        <5> QED BY <2>1, <3>2, <5>3, <5>4 DEF Decide
      <4> QED BY <1>4, <4>1
    <3> QED BY <3>1, <3>2
  <2>2. CASE OpenStage
    <3>1. Absent(adv.stage)
        BY <1>2, <2>2 DEF OpenStage, Step, AdvInv, ItemInv
    <3>2. adv'.pc = "start" /\ adv'.stage = adv.stage /\ UNCHANGED items
        BY <2>2 DEF OpenStage, Step, Shape, AdvType
    <3> QED BY <3>1, <3>2 DEF Enqueues, Absent
  <2>3. CASE StartRun
    <3>1. /\ adv.pc = "start" /\ adv'.pc = "provision" /\ adv'.stage = adv.stage
          /\ UNCHANGED items
        BY <2>3 DEF StartRun, Step, Shape, AdvType
    <3> QED BY <1>1, <3>1 DEF Enqueues, Absent
  <2>4. CASE Provision
    <3>1. CASE Finish
        BY <1>4, <3>1 DEF Finish, Idle
    <3>2. CASE ~Finish
      <4>1. /\ adv.pc = "provision" /\ adv'.pc = "enqueue" /\ adv'.stage = adv.stage
            /\ adv'.at = adv.at /\ adv'.todo = Phases[adv.at][1] /\ UNCHANGED items
          BY <2>4, <3>2 DEF Provision, Shape, AdvType
      <4>2. Phases[adv.at] \in Seq(SUBSET Tasks) /\ Phases[adv.at] # <<>>
          BY <1>3, <4>1, RunLifecycleAssumption DEF AdvInv
      <4>3. 1 \in DOMAIN Phases[adv.at]
          BY <4>2
      <4>4. Phases[adv.at][1] \subseteq TasksOf(adv.at)
          BY <4>3 DEF TasksOf
      <4> QED BY <1>1, <4>1, <4>4 DEF Enqueues, Absent
    <3> QED BY <3>1, <3>2
  <2>5. CASE EnqueueTask
    <3>1. PICK t \in adv.todo :
              IF adv.todo = {t} THEN Finish ELSE adv' = [adv EXCEPT !.todo = @ \ {t}]
        BY <2>5 DEF EnqueueTask
    <3>2. CASE Finish
        BY <1>4, <3>2 DEF Finish, Idle
    <3>3. CASE ~Finish
      <4>1. adv' = [adv EXCEPT !.todo = @ \ {t}] /\ adv.todo # {t} /\ adv.pc = "enqueue"
          BY <2>5, <3>1, <3>3 DEF EnqueueTask
      <4>2. ~SingleTask(adv.at)
          BY <1>1, <1>3, <4>1, PlannedTasks DEF Enqueues
      <4>3. adv'.pc = "enqueue" /\ adv'.at = adv.at /\ adv'.todo \subseteq adv.todo
          BY <4>1 DEF Shape, AdvType
      <4> QED BY <1>1, <4>1, <4>2, <4>3 DEF Enqueues
    <3> QED BY <3>2, <3>3
  <2>6. CASE ~(Decide \/ OpenStage \/ StartRun \/ Provision \/ EnqueueTask)
    <3>1. adv'.pc \notin {"start", "provision", "enqueue"}
      <4>1. CASE Claim
          BY <4>1 DEF Claim, Idle
      <4>2. CASE Create \/ CompleteStage \/ Evaluate
        <5>1. CASE Create
            BY <5>1 DEF Create, Shape, AdvType
        <5>2. CASE CompleteStage
            BY <5>2 DEF CompleteStage, Shape, AdvType
        <5>3. CASE Evaluate
          <6>1. \/ adv' = [adv EXCEPT !.pc = "complete_run"]
                \/ \E s \in States : adv' = [adv EXCEPT !.pc = "select", !.next = s]
                \/ \E T \in SUBSET States : adv' = [adv EXCEPT !.pc = "conflict", !.targets = T]
              BY <5>3, EvaluateFacts
          <6> QED BY <6>1 DEF Shape, AdvType
        <5> QED BY <4>2, <5>1, <5>2, <5>3
      <4>3. CASE PauseRun \/ PromptFails \/ CloseRun \/ WakeRun \/ ParkCursor \/ Terminalize
        <5>1. Finish => adv'.pc \in {"idle", "finish"}
            BY DEF Finish, Idle
        <5>2. Terminalize => adv'.pc = "idle"
            BY DEF Terminalize, Idle
        <5> QED BY <4>3, <5>1, <5>2 DEF PauseRun, PromptFails, CloseRun, WakeRun, ParkCursor
      <4>4. CASE OpenGate \/ RequestApproval \/ FailStage \/ SelectMove \/ ReleaseCursor \/ SelfLoop
                   \/ MoveRun \/ RecordConflict \/ BlockOnConflict
          BY <4>4 DEF OpenGate, RequestApproval, FailStage, SelectMove, ReleaseCursor, SelfLoop,
                      MoveRun, RecordConflict, BlockOnConflict, Step, Shape, AdvType
      <4> QED BY <1>6, <2>6, <4>1, <4>2, <4>3, <4>4 DEF Advance
    <3> QED BY <1>4, <3>1
  <2> QED BY <2>1, <2>2, <2>3, <2>4, <2>5, <2>6
<1>7. CASE ~Advance
  <2>1. CASE Restart
      BY <1>4, <2>1 DEF Restart, Idle
  <2>2. CASE ~Restart
    <3>1. UNCHANGED adv \/ adv' = [adv EXCEPT !.live = FALSE]
        BY <1>7, <2>2 DEF Next, ClaimInvoke, SettleSingle, Reevaluate, Requeue, SettleInvoke,
               Command, ResolveApproval, RetryStage, RetryRun, ResolveConflict, CancelRun,
               Finalize, vars
    <3>2. /\ adv'.pc = adv.pc /\ adv'.at = adv.at /\ adv'.stage = adv.stage
          /\ adv'.todo = adv.todo
        BY <3>1 DEF Shape, AdvType
    <3>3. ~EnqueueTask
        BY <1>7 DEF Advance
    <3> QED BY <1>5, <3>2, <3>3
  <2> QED BY <2>1, <2>2
<1> QED BY <1>6, <1>7

LEMMA TaskStep ==
    ASSUME LifecycleInv, TaskInv, [Next]_vars, LifecycleInv' PROVE TaskInv'
<1> USE DEF LifecycleInv
<1>1. ASSUME NEW k \in DOMAIN stages', NEW t \in Tasks, items'[k][t] # "absent"
      PROVE  t \in TasksOf(stages'[k].state)
  <2>1. k \in 1..MaxStages /\ Len(stages) \in Nat
    <3>1. /\ stages' \in Seq(StageRow) /\ Len(stages') <= MaxStages /\ MaxStages \in Nat
          /\ stages \in Seq(StageRow)
        BY RunLifecycleAssumption DEF Shape
    <3> QED BY <3>1
  <2>2. CASE k \in DOMAIN stages
    <3>1. stages'[k].state = stages[k].state
        BY <2>2, StatesKept
    <3>2. CASE items[k][t] # "absent"
        BY <2>2, <3>1, <3>2 DEF TaskInv
    <3>3. CASE items[k][t] = "absent"
      <4>1. EnqueueTask /\ k = adv.stage /\ t \in adv.todo
          BY <1>1, <2>1, <3>3, ItemsStay
      <4>2. adv.pc = "enqueue" /\ stages[adv.stage].state = adv.at
          BY <4>1 DEF EnqueueTask, AdvInv
      <4> QED BY <3>1, <4>1, <4>2 DEF TaskInv
    <3> QED BY <3>2, <3>3
  <2>3. CASE k \notin DOMAIN stages
    <3>1. k > Len(stages)
        BY <2>1, <2>3 DEF Shape
    <3>2. items[k][t] = "absent"
        BY <2>1, <3>1 DEF ItemInv, Absent
    <3>3. k = adv.stage /\ adv.pc = "enqueue"
        BY <1>1, <2>1, <3>2, ItemsStay DEF EnqueueTask
    <3> QED BY <2>3, <3>3 DEF AdvInv, Shape, AdvType
  <2> QED BY <2>2, <2>3
<1> QED BY <1>1, WorkersStay, EnqueuesStep DEF TaskInv, Enqueues

-----------------------------------------------------------------------------
(* The theorems                                                            *)

LEMMA LifecycleStarts ==
    ASSUME Init PROVE LifecycleInv
<1>1. /\ run \in [status : RunStatus, state : States, requested : BOOLEAN, settled : BOOLEAN]
      /\ conflict \in [state : States \cup {NoState}, targets : SUBSET States]
    BY RunLifecycleAssumption DEF Init, RunStatus, NoConflict
<1>2. stages \in Seq(StageRow) /\ Len(stages) = 0 /\ DOMAIN stages = {} /\ MaxStages \in Nat
    BY RunLifecycleAssumption DEF Init
<1>3. items \in [1..MaxStages -> [Tasks -> ItemStatus]] /\ \A k \in 1..MaxStages : Absent(k)
    BY DEF Init, ItemStatus, Absent
<1>4. adv \in AdvType /\ adv.pc = "idle"
    BY <1>2, RunLifecycleAssumption DEF Init, Idle, AdvType, Steps, RunStatus
<1>5. Shape
    BY <1>1, <1>2, <1>3, <1>4 DEF Shape
<1>6. ItemInv
    BY <1>2, <1>3 DEF ItemInv
<1>7. AdvInv
    BY <1>4 DEF AdvInv
<1> QED BY <1>5, <1>6, <1>7 DEF LifecycleInv

LEMMA TasksStart ==
    ASSUME Init PROVE TaskInv
<1>1. stages = <<>> /\ DOMAIN stages = {} /\ adv.pc = "idle"
    BY DEF Init, Idle
<1>2. workers \in [1..MaxStages -> [Tasks -> {"none", "busy", "settled"}]]
      /\ \A k \in 1..MaxStages, t \in Tasks : workers[k][t] = "none"
    BY DEF Init, NoWorkers
<1> QED BY <1>1, <1>2 DEF TaskInv

LEMMA LifecycleStep ==
    ASSUME LifecycleInv, TaskInv, [Next]_vars PROVE LifecycleInv'
<1>1. CASE UNCHANGED vars
  <2>1. UNCHANGED <<run, stages, items, conflict, adv>>
      BY <1>1 DEF vars, tables
  <2> QED BY <2>1, Unread
<1>2. CASE Advance
  <2>1. CASE RequestApproval \/ PauseRun \/ StartRun \/ Provision \/ CloseRun
                \/ MoveRun \/ WakeRun \/ BlockOnConflict
    <3>1. UNCHANGED <<stages, items>>
        BY <2>1 DEF RequestApproval, PauseRun, StartRun, Provision, CloseRun, MoveRun, WakeRun,
                    BlockOnConflict
    <3> QED BY <2>1, <3>1, RunStep
  <2>2. CASE SelectMove \/ ReleaseCursor \/ RecordConflict \/ ParkCursor
    <3>1. UNCHANGED <<run, stages, items>>
        BY <2>2 DEF SelectMove, ReleaseCursor, RecordConflict, ParkCursor
    <3> QED BY <2>2, <3>1, TransitionStep
  <2>3. CASE Claim \/ Terminalize \/ Decide \/ Evaluate
      BY <2>3, ClaimStep, TerminalizeStep, DecideStep, EvaluateStep
  <2>4. CASE Create \/ SelfLoop \/ EnqueueTask
      BY <2>4, CreateStep, SelfLoopStep, EnqueueStep
  <2>5. CASE OpenGate \/ OpenStage \/ FailStage \/ PromptFails \/ CompleteStage
      BY <2>5, OpenStep, PromptFailsStep, CompleteStageStep
  <2> QED BY <1>2, <2>1, <2>2, <2>3, <2>4, <2>5 DEF Advance
<1>3. CASE ClaimInvoke \/ SettleSingle \/ Reevaluate \/ Requeue \/ SettleInvoke
  <2>1. Reevaluate => UNCHANGED <<run, stages, items, conflict, adv>>
      BY DEF Reevaluate
  <2> QED BY <1>3, <2>1, InvokeStep, SettleSingleStep, Unread
<1>4. CASE Command
    BY <1>4, ResolveApprovalStep, RetryStageStep, ResolveConflictStep, RunOnlyStep,
       CancelRunStep DEF Command
<1>5. CASE Restart
    BY <1>5, RestartStep
<1> QED BY <1>1, <1>2, <1>3, <1>4, <1>5 DEF Next

LEMMA LifecycleInvariant == Spec => [](LifecycleInv /\ TaskInv)
<1>1. Init => LifecycleInv /\ TaskInv
    BY LifecycleStarts, TasksStart
<1>2. LifecycleInv /\ TaskInv /\ [Next]_vars => (LifecycleInv /\ TaskInv)'
    BY LifecycleStep, TaskStep
<1> QED BY <1>1, <1>2, PTL DEF Spec

(* A stage execution of several tasks is settled as completed (stages::settle  *)
(* in an advance, or the decision on a gate) only when none of its InvokeAgent *)
(* items failed and none is pending or running, and it stays so under every    *)
(* command and restart, though the tasks of single-task stages settle theirs   *)
(* (executor.rs) at any time.                                                  *)
THEOREM CompletedStagesAreClean == Spec => []CompletedIsClean
<1>1. LifecycleInv => CompletedIsClean
  <2> SUFFICES ASSUME LifecycleInv, NEW k \in DOMAIN stages, stages[k].status = "completed",
                      ~SingleTask(stages[k].state)
               PROVE  ~HasFailed(k) /\ InFlight(k) = {}
      BY DEF CompletedIsClean
  <2>1. Clean(k)
      BY DEF LifecycleInv, ItemInv
  <2> QED BY <2>1 DEF Clean, HasFailed, InFlight, Waiting
<1> QED BY <1>1, LifecycleInvariant, PTL

(* The attempt that RetryStage replaced has no item that could still run, even *)
(* if the command fell between two writes of an advance that enqueues tasks.   *)
THEOREM SkippedStagesAreInert == Spec => []SkippedIsInert
<1>1. LifecycleInv => SkippedIsInert
    BY DEF LifecycleInv, ItemInv, SkippedIsInert
<1> QED BY <1>1, LifecycleInvariant, PTL
=============================================================================
