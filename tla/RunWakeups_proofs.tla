-------------------------- MODULE RunWakeups_proofs --------------------------
(***************************************************************************)
(* For every plan and every bound: the types, that a requested approval is *)
(* awaited by a gate, that no wakeup of a run is lost, that loop budgets   *)
(* hold and that a completed run is final.                                 *)
(***************************************************************************)
EXTENDS RunLifecycle_proofs

-----------------------------------------------------------------------------
(* The rows that a queue keeps                                             *)

(* A set of positions is finite. *)
LEMMA PositionsFinite ==
    ASSUME NEW m \in Nat, NEW I \in SUBSET (1..m)
    PROVE  /\ IsFiniteSet(I) /\ Cardinality(I) \in Nat
           /\ \A i \in I : i \in Nat /\ 1 <= i /\ i <= m
<1>1. 1 \in Int /\ m \in Int
    OBVIOUS
<1>2. IsFiniteSet(1..m)
    BY <1>1, FS_Interval
<1>3. IsFiniteSet(I)
    BY <1>2, FS_Subset
<1>4. \A i \in I : i \in 1..m
    OBVIOUS
<1> QED BY <1>3, <1>4, FS_CardinalityType

(* The n-th of a set of positions is one of them and has n up to it. *)
LEMMA PlaceFacts ==
    ASSUME NEW m \in Nat, NEW I \in SUBSET (1..m), NEW n \in 1..Cardinality(I)
    PROVE  Place(I, n) \in I /\ Cardinality({j \in I : j <= Place(I, n)}) = n
<1> DEFINE Upto(i) == {j \in I : j <= i}
           T == {i \in 0..m : Cardinality(Upto(i)) >= n}
<1>1. IsFiniteSet(I) /\ Cardinality(I) \in Nat /\ \A j \in I : j \in Nat /\ 1 <= j /\ j <= m
    BY PositionsFinite
<1>2. \A i \in 0..m : IsFiniteSet(Upto(i)) /\ Cardinality(Upto(i)) \in Nat
  <2> SUFFICES ASSUME NEW i \in 0..m
               PROVE  IsFiniteSet(Upto(i)) /\ Cardinality(Upto(i)) \in Nat
      OBVIOUS
  <2>1. Upto(i) \in SUBSET I
      OBVIOUS
  <2> HIDE DEF Upto
  <2> QED BY <1>1, <2>1, FS_Subset, FS_CardinalityType
<1>3. Upto(m) = I /\ Upto(0) = {}
  <2>1. \A j \in I : j <= m /\ ~(j <= 0)
      BY <1>1
  <2> QED BY <2>1
<1>4. m \in T /\ T \in SUBSET Nat
    BY <1>1, <1>3
<1>5. PICK i \in T : \A j \in T : i <= j
  <2> HIDE DEF T
  <2> QED BY <1>4, LeastExists
<1>6. i \in 0..m /\ Cardinality(Upto(i)) >= n
    BY <1>5
<1>7. i # 0
    BY <1>3, <1>6, FS_EmptySet
<1>8. i - 1 \in 0..m /\ i - 1 \notin T
  <2>1. i \in Nat /\ i <= m /\ i # 0
      BY <1>6, <1>7
  <2>2. i - 1 \in 0..m /\ ~(i <= i - 1)
      BY <2>1
  <2> QED BY <1>5, <2>2
<1>9. Cardinality(Upto(i - 1)) < n
  <2>1. Cardinality(Upto(i - 1)) \in Nat /\ ~(Cardinality(Upto(i - 1)) >= n)
      BY <1>2, <1>8
  <2> HIDE DEF Upto
  <2> QED BY <1>1, <2>1
<1>10. i \in I
  <2>1. i \notin I => Upto(i) = Upto(i - 1)
    <3>1. \A j \in I : j # i => (j <= i <=> j <= i - 1)
        BY <1>1, <1>6
    <3> QED BY <3>1
  <2> HIDE DEF Upto
  <2> QED BY <1>2, <1>6, <1>8, <1>9, <2>1
<1>11. Cardinality(Upto(i)) = Cardinality(Upto(i - 1)) + 1
  <2>1. Upto(i) = Upto(i - 1) \cup {i} /\ i \notin Upto(i - 1)
    <3>1. i <= i /\ ~(i <= i - 1) /\ \A j \in I : j # i => (j <= i <=> j <= i - 1)
        BY <1>1, <1>6
    <3> QED BY <1>10, <3>1
  <2> HIDE DEF Upto
  <2> QED BY <1>2, <1>8, <2>1, FS_AddElement
<1>12. Cardinality(Upto(i)) = n
  <2> HIDE DEF Upto
  <2>1. Cardinality(Upto(i)) \in Nat /\ Cardinality(Upto(i - 1)) \in Nat
      BY <1>2, <1>6, <1>8
  <2>2. n \in Nat
      BY <1>1
  <2> QED BY <1>6, <1>9, <1>11, <2>1, <2>2
<1>13. \E k \in I : Cardinality({j \in I : j <= k}) = n
    BY <1>10, <1>12
<1> QED BY <1>13 DEF Place

(* Every position is the place of one number. *)
LEMMA PlaceOnto ==
    ASSUME NEW m \in Nat, NEW I \in SUBSET (1..m), NEW i \in I
    PROVE  \E n \in 1..Cardinality(I) : Place(I, n) = i
<1> DEFINE Upto(j) == {l \in I : l <= j}
           n == Cardinality(Upto(i))
<1>1. IsFiniteSet(I) /\ Cardinality(I) \in Nat /\ \A j \in I : j \in Nat /\ 1 <= j /\ j <= m
    BY PositionsFinite
<1>2. \A j \in I : /\ IsFiniteSet(Upto(j)) /\ Cardinality(Upto(j)) \in 1..Cardinality(I)
  <2> SUFFICES ASSUME NEW j \in I
               PROVE  IsFiniteSet(Upto(j)) /\ Cardinality(Upto(j)) \in 1..Cardinality(I)
      OBVIOUS
  <2>1. Upto(j) \in SUBSET I /\ j \in Upto(j)
      OBVIOUS
  <2> HIDE DEF Upto
  <2>2. IsFiniteSet(Upto(j)) /\ Cardinality(Upto(j)) <= Cardinality(I)
        /\ Cardinality(Upto(j)) \in Nat
      BY <1>1, <2>1, FS_Subset, FS_CardinalityType
  <2>3. Cardinality(Upto(j)) # 0
      BY <2>1, <2>2, FS_EmptySet
  <2> QED BY <1>1, <2>2, <2>3
<1>3. \A j \in I : Cardinality(Upto(j)) = n => j = i
  <2> SUFFICES ASSUME NEW j \in I, Cardinality(Upto(j)) = n, j # i PROVE FALSE
      OBVIOUS
  <2>1. i \in Nat /\ j \in Nat
      OBVIOUS
  <2>2. CASE i < j
    <3>1. Upto(i) \in SUBSET Upto(j) /\ j \in Upto(j) /\ j \notin Upto(i)
      <4>1. j <= j /\ ~(j <= i) /\ \A l \in I : l <= i => l <= j
          BY <1>1, <2>1, <2>2
      <4> QED BY <4>1
    <3> HIDE DEF Upto
    <3> QED BY <1>2, <3>1, FS_Subset
  <2>3. CASE j < i
    <3>1. Upto(j) \in SUBSET Upto(i) /\ i \in Upto(i) /\ i \notin Upto(j)
      <4>1. i <= i /\ ~(i <= j) /\ \A l \in I : l <= j => l <= i
          BY <1>1, <2>1, <2>3
      <4> QED BY <4>1
    <3> HIDE DEF Upto
    <3> QED BY <1>2, <3>1, FS_Subset
  <2> QED BY <2>1, <2>2, <2>3
<1>4. n \in 1..Cardinality(I)
    BY <1>2
<1>5. Place(I, n) \in I /\ Cardinality(Upto(Place(I, n))) = n
    BY <1>4, PlaceFacts
<1> QED BY <1>3, <1>4, <1>5

(* What is kept are rows of the queue, each of those once. *)
LEMMA KeptFacts ==
    ASSUME NEW S, NEW q \in Seq(S), NEW I \in SUBSET DOMAIN q
    PROVE  /\ Kept(q, I) \in Seq(S)
           /\ \A n \in DOMAIN Kept(q, I) : Place(I, n) \in I /\ Kept(q, I)[n] = q[Place(I, n)]
           /\ \A i \in I : \E n \in DOMAIN Kept(q, I) : Place(I, n) = i
           /\ \A n, l \in DOMAIN Kept(q, I) : Place(I, n) = Place(I, l) => n = l
<1>1. Len(q) \in Nat /\ DOMAIN q = 1..Len(q)
    OBVIOUS
<1>2. IsFiniteSet(I) /\ Cardinality(I) \in Nat
    BY <1>1, PositionsFinite
<1>3. \A n \in 1..Cardinality(I) :
          Place(I, n) \in I /\ Cardinality({j \in I : j <= Place(I, n)}) = n
    BY <1>1, PlaceFacts
<1>4. DOMAIN Kept(q, I) = 1..Cardinality(I)
      /\ \A n \in 1..Cardinality(I) : Kept(q, I)[n] = q[Place(I, n)]
    BY DEF Kept
<1>5. Kept(q, I) \in [1..Cardinality(I) -> S]
  <2>1. \A i \in DOMAIN q : q[i] \in S
      OBVIOUS
  <2>2. \A n \in 1..Cardinality(I) : q[Place(I, n)] \in S
      BY <1>3, <2>1
  <2> QED BY <2>2 DEF Kept
<1>6. Kept(q, I) \in Seq(S)
    BY <1>2, <1>5
<1>7. \A i \in I : \E n \in 1..Cardinality(I) : Place(I, n) = i
    BY <1>1, PlaceOnto
<1>8. \A n, l \in 1..Cardinality(I) : Place(I, n) = Place(I, l) => n = l
    BY <1>3
<1> QED BY <1>3, <1>4, <1>6, <1>7, <1>8

-----------------------------------------------------------------------------
(* What the steps do to the stage executions                               *)

(* One stage execution gets another status. *)
Marked(k, st) ==
    /\ k \in DOMAIN stages /\ Len(stages') = Len(stages) /\ DOMAIN stages' = DOMAIN stages
    /\ \A j \in DOMAIN stages :
          /\ stages'[j].state = stages[j].state /\ stages'[j].iter = stages[j].iter
          /\ stages'[j].status = IF j = k THEN st ELSE stages[j].status
          /\ stages'[j].auth = stages[j].auth

(* A pending stage execution is added, the others are as they were. *)
Joined(s, auth) ==
    /\ Len(stages') = Len(stages) + 1 /\ DOMAIN stages \subseteq DOMAIN stages'
    /\ Len(stages) + 1 \in DOMAIN stages'
    /\ \A j \in DOMAIN stages' : j \in DOMAIN stages \/ j = Len(stages) + 1
    /\ stages'[Len(stages) + 1].state = s /\ stages'[Len(stages) + 1].status = "pending"
    /\ stages'[Len(stages) + 1].auth = auth
    /\ \A j \in DOMAIN stages :
          /\ stages'[j].state = stages[j].state /\ stages'[j].iter = stages[j].iter

(* One retry authority is terminalized. *)
Released(k) ==
    /\ k \in DOMAIN stages /\ Len(stages') = Len(stages) /\ DOMAIN stages' = DOMAIN stages
    /\ \A j \in DOMAIN stages :
          /\ stages'[j].state = stages[j].state /\ stages'[j].iter = stages[j].iter
          /\ stages'[j].status = stages[j].status
          /\ stages'[j].auth = IF j = k THEN "terminalized" ELSE stages[j].auth

(* SetStage writes the status of one stage execution and nothing else. *)
LEMMA SetStageMarks ==
    ASSUME Shape, NEW k \in DOMAIN stages, NEW st \in StageStatus, SetStage(k, st)
    PROVE  Marked(k, st)
BY SetStageFacts DEF Marked

(* The writes of an advance that settle its stage or open it. *)
LEMMA AdvanceMarks ==
    ASSUME LifecycleInv
    PROVE  /\ OpenGate => Marked(adv.stage, "waiting_approval")
           /\ OpenStage => Marked(adv.stage, "running")
           /\ FailStage => Marked(adv.stage, "failed")
           /\ PromptFails => Marked(adv.stage, "blocked")
           /\ CompleteStage /\ adv.pc = "complete_stage" => Marked(adv.stage, "completed")
           /\ CompleteStage /\ adv.pc = "end_stage" =>
                 Marked(First(adv.at), "completed") /\ stages[First(adv.at)].state = adv.at
<1> USE DEF LifecycleInv
<1>1. adv.pc \in {"gate", "open", "fail_stage", "enqueue", "complete_stage"} =>
          adv.stage \in DOMAIN stages
    BY DEF Shape, AdvType, AdvInv
<1>2. {"waiting_approval", "running", "failed", "blocked", "completed"} \subseteq StageStatus
    BY DEF StageStatus, Over
<1>3. OpenGate => Marked(adv.stage, "waiting_approval")
    BY <1>1, <1>2, SetStageMarks DEF OpenGate, Step
<1>4. OpenStage => Marked(adv.stage, "running")
    BY <1>1, <1>2, SetStageMarks DEF OpenStage, Step
<1>5. FailStage => Marked(adv.stage, "failed")
    BY <1>1, <1>2, SetStageMarks DEF FailStage, Step
<1>6. PromptFails => Marked(adv.stage, "blocked")
    BY <1>1, <1>2, SetStageMarks DEF PromptFails
<1>7. CompleteStage /\ adv.pc = "complete_stage" => Marked(adv.stage, "completed")
    BY <1>1, <1>2, SetStageMarks DEF CompleteStage
<1>8. CompleteStage /\ adv.pc = "end_stage" =>
          Marked(First(adv.at), "completed") /\ stages[First(adv.at)].state = adv.at
  <2> SUFFICES ASSUME CompleteStage, adv.pc = "end_stage"
               PROVE  Marked(First(adv.at), "completed") /\ stages[First(adv.at)].state = adv.at
      OBVIOUS
  <2>1. First(adv.at) \in DOMAIN stages /\ stages[First(adv.at)].state = adv.at
      BY FirstFacts DEF AdvInv
  <2>2. SetStage(First(adv.at), "completed")
      BY DEF CompleteStage
  <2> QED BY <1>2, <2>1, <2>2, SetStageMarks
<1> QED BY <1>3, <1>4, <1>5, <1>6, <1>7, <1>8

(* The steps that add a stage execution and change no other. *)
LEMMA CreateJoins ==
    ASSUME LifecycleInv, Create \/ SelfLoop
    PROVE  /\ Joined(adv.at, "none") /\ UNCHANGED items
           /\ \A j \in DOMAIN stages : stages'[j] = stages[j]
<1> USE DEF LifecycleInv
<1>1. PICK row : row = NewStage(adv.at, HighestIteration(adv.at) + 1, "none")
    OBVIOUS
<1>2. row \in StageRow
    BY <1>1, HighestFacts, NewStageType DEF Shape, AdvType
<1>3. stages' = Append(stages, row) /\ UNCHANGED items
    BY <1>1 DEF Create, SelfLoop
<1>4. row.state = adv.at /\ row.status = "pending" /\ row.auth = "none"
    BY <1>1 DEF NewStage
<1> QED BY <1>2, <1>3, <1>4, AppendFacts DEF Joined

(* Resolving a conflict adds at most one attempt, of the state the operator chose. *)
LEMMA ConflictJoins ==
    ASSUME LifecycleInv, ResolveConflict
    PROVE  \E s \in States :
              /\ \/ UNCHANGED stages
                 \/ Joined(s, "none") /\ \A j \in DOMAIN stages : stages'[j] = stages[j]
              /\ queue' = Append(queue, [target |-> 0, tag |-> s])
              /\ UNCHANGED <<items, approvals, adv, finalizer, restarts>>
<1> USE DEF LifecycleInv
<1>1. PICK s \in conflict.targets :
          /\ \/ UNCHANGED stages
             \/ Last(s) # 0 /\ stages' = Append(stages, NewStage(s, stages[Last(s)].iter + 1, "none"))
          /\ queue' = Enqueued(0, s)
    BY DEF ResolveConflict
<1>2. s \in States /\ UNCHANGED <<items, approvals, adv, finalizer, restarts>>
    BY DEF Shape, ResolveConflict
<1>3. CASE UNCHANGED stages
    BY <1>1, <1>2, <1>3 DEF Enqueued
<1>4. CASE ~UNCHANGED stages
  <2>1. PICK row : row = NewStage(s, stages[Last(s)].iter + 1, "none")
      OBVIOUS
  <2>2. Last(s) \in DOMAIN stages
      BY <1>1, <1>4, LastFacts
  <2>3. row \in StageRow
      BY <1>2, <2>1, <2>2, StageFacts, NewStageType
  <2>4. row.state = s /\ row.status = "pending" /\ row.auth = "none"
      BY <2>1 DEF NewStage
  <2>5. stages' = Append(stages, row)
      BY <1>1, <1>4, <2>1
  <2>6. Joined(s, "none") /\ \A j \in DOMAIN stages : stages'[j] = stages[j]
      BY <2>3, <2>4, <2>5, AppendFacts DEF Joined
  <2> QED BY <1>1, <1>2, <2>6 DEF Enqueued
<1> QED BY <1>3, <1>4

(* A decision on an approval ends the wait of the first gate that awaits it. *)
LEMMA ApprovalMarks ==
    ASSUME LifecycleInv, ResolveApproval
    PROVE  \E a \in DOMAIN approvals, d \in {"granted", "rejected"} :
              /\ approvals[a].decision = "requested"
              /\ approvals' = [approvals EXCEPT ![a].decision = d]
              /\ \/ /\ \A k \in Of(approvals[a].state) : stages[k].status # "waiting_approval"
                    /\ UNCHANGED stages
                    /\ queue' = queue \/ queue' = Append(queue, RunScoped)
                 \/ \E k \in Of(approvals[a].state), st \in {"running", "completed"} :
                       /\ stages[k].status = "waiting_approval" /\ Marked(k, st)
                       /\ queue' = Append(queue, RunScoped)
<1> USE DEF LifecycleInv
<1> DEFINE Open(s) == {j \in Of(s) : stages[j].status = "waiting_approval"}
<1>1. PICK a \in DOMAIN approvals, d \in {"granted", "rejected"} :
          LET W == Open(approvals[a].state)
          IN  /\ approvals[a].decision = "requested"
              /\ approvals' = [approvals EXCEPT ![a].decision = d]
              /\ IF W = {} THEN UNCHANGED stages
                 ELSE SetStage(CHOOSE i \in W : \A j \in W : i <= j,
                               IF d = "granted" /\ Phases[approvals[a].state] # <<>>
                               THEN "running" ELSE "completed")
              /\ queue' = IF d = "granted" \/ W # {} THEN Append(queue, RunScoped) ELSE queue
    BY Zenon DEF ResolveApproval
<1>2. PICK W : W = Open(approvals[a].state)
    OBVIOUS
<1>3. PICK st \in {"running", "completed"} :
          st = IF d = "granted" /\ Phases[approvals[a].state] # <<>>
               THEN "running" ELSE "completed"
    OBVIOUS
<1>4. PICK k : k = CHOOSE i \in W : \A j \in W : i <= j
    OBVIOUS
<1>5. /\ approvals[a].decision = "requested" /\ approvals' = [approvals EXCEPT ![a].decision = d]
      /\ W = {} => UNCHANGED stages
      /\ W # {} => SetStage(k, st)
      /\ W # {} => queue' = Append(queue, RunScoped)
      /\ queue' = queue \/ queue' = Append(queue, RunScoped)
    BY <1>1, <1>2, <1>3, <1>4
<1>6. CASE W = {}
    BY <1>2, <1>5, <1>6
<1>7. CASE W # {}
  <2>1. W \in SUBSET Nat
      BY <1>2 DEF Of, Shape
  <2>2. k \in W
      BY <1>4, <1>7, <2>1, LeastExists
  <2>3. k \in Of(approvals[a].state) /\ stages[k].status = "waiting_approval" /\ k \in DOMAIN stages
      BY <1>2, <2>2 DEF Of
  <2>4. Marked(k, st)
      BY <1>5, <1>7, <2>3, SetStageMarks DEF StageStatus, Over
  <2> QED BY <1>5, <1>7, <2>3, <2>4
<1> QED BY <1>6, <1>7

(* The rejection of a Rework gate moves the run; other decisions leave it alone. *)
LEMMA ApprovalRuns ==
    ASSUME ResolveApproval
    PROVE  /\ UNCHANGED finalizer /\ parked' \in {parked, FALSE}
           /\ \/ UNCHANGED run
              \/ \E a \in DOMAIN approvals :
                    /\ approvals[a].decision = "requested" /\ approvals[a].state \in DOMAIN Rework
                    /\ run' = [run EXCEPT !.status = "running",
                                          !.state = Rework[approvals[a].state]]
<1>1. UNCHANGED finalizer
    BY Zenon DEF ResolveApproval
<1>2. PICK a \in DOMAIN approvals, d \in {"granted", "rejected"} :
          LET s == approvals[a].state
              W == {k \in Of(s) : stages[k].status = "waiting_approval"}
          IN  /\ approvals[a].decision = "requested"
              /\ IF s \in DOMAIN Rework /\ d = "rejected" /\ W # {}
                 THEN /\ run' = [run EXCEPT !.status = "running", !.state = Rework[s]]
                      /\ conflict' = IF conflict.state = s THEN NoConflict ELSE conflict
                      /\ parked' = IF conflict.state = s THEN FALSE ELSE parked
                 ELSE UNCHANGED <<run, conflict, parked>>
    BY Zenon DEF ResolveApproval
<1> QED BY <1>1, <1>2

(* A task settles the single-task stage of its item. *)
LEMMA SingleMarks ==
    ASSUME LifecycleInv, TaskInv, SettleSingle
    PROVE  /\ UNCHANGED <<run, items, approvals, conflict, parked, queue, adv, finalizer, commands,
                          restarts>>
           /\ \E k \in DOMAIN stages, st \in {"completed", "failed"} :
                 Marked(k, st) /\ SingleTask(stages[k].state) /\ Invoked(k) # {}
<1> USE DEF LifecycleInv
<1>1. PICK k \in DOMAIN stages, t \in Tasks, st \in {"completed", "failed"} :
          workers[k][t] = "busy" /\ SingleTask(stages[k].state) /\ SetStage(k, st)
    BY DEF SettleSingle
<1>2. Marked(k, st)
    BY <1>1, SetStageMarks DEF StageStatus, Over
<1>3. k \in 1..MaxStages
    BY StageFacts
<1>4. Invoked(k) # {}
    BY <1>1, <1>3 DEF TaskInv, Invoked
<1> QED BY <1>1, <1>2, <1>4 DEF SettleSingle

(* The first steps of a targeted advance that is refused, and the last ones of *)
(* any: an authority may be terminalized.                                      *)
LEMMA ClaimReleases ==
    ASSUME LifecycleInv, Claim, ~UNCHANGED stages
    PROVE  /\ Released(Head(queue).target) /\ UNCHANGED adv /\ Head(queue).target # 0
           /\ stages[Head(queue).target].auth = "active"
           /\ stages[Head(queue).target].status \in Over \ {"completed"}
BY AuthFacts DEF LifecycleInv, Claim, Released

(* Terminalize ends the authority of its target, once the target is over. *)
LEMMA TerminalizeReleases ==
    ASSUME LifecycleInv, Terminalize, ~UNCHANGED stages
    PROVE  /\ Released(adv.target) /\ stages[adv.target].auth = "active"
           /\ stages[adv.target].status \in Over
<1> USE DEF LifecycleInv
<1>1. /\ stages[adv.target].status \in Over /\ stages[adv.target].auth = "active"
      /\ stages' = [stages EXCEPT ![adv.target].auth = "terminalized"]
    BY DEF Terminalize
<1>2. adv.target \in DOMAIN stages
    BY <1>1 DEF Shape
<1> QED BY <1>1, <1>2, AuthFacts DEF Released

(* The cancellation fails what runs. *)
LEMMA CancelFails ==
    ASSUME LifecycleInv, CancelRun
    PROVE  /\ Len(stages') = Len(stages) /\ DOMAIN stages' = DOMAIN stages
           /\ \A k \in DOMAIN stages :
                 /\ stages'[k].state = stages[k].state /\ stages'[k].iter = stages[k].iter
                 /\ stages'[k].status = IF stages[k].status = "running" THEN "failed"
                                        ELSE stages[k].status
                 /\ stages'[k].auth = stages[k].auth
<1> USE DEF LifecycleInv
<1>1. stages' = [k \in DOMAIN stages |->
             IF stages[k].status = "running" THEN [stages[k] EXCEPT !.status = "failed"]
                                             ELSE stages[k]]
    BY DEF CancelRun
<1>2. ASSUME NEW k \in DOMAIN stages
      PROVE  /\ stages'[k] \in StageRow
             /\ stages'[k].state = stages[k].state /\ stages'[k].iter = stages[k].iter
             /\ stages'[k].status = IF stages[k].status = "running" THEN "failed"
                                    ELSE stages[k].status
             /\ stages'[k].auth = stages[k].auth
  <2>1. stages[k] \in StageRow
      BY StageFacts
  <2>2. CASE stages[k].status = "running"
    <3>1. stages'[k] = [state |-> stages[k].state, status |-> "failed",
                        iter |-> stages[k].iter, auth |-> stages[k].auth]
        BY <1>1, <2>1, <2>2 DEF StageRow
    <3> QED BY <2>1, <2>2, <3>1 DEF StageRow, Over
  <2>3. CASE stages[k].status # "running"
      BY <1>1, <2>1, <2>3
  <2> QED BY <2>2, <2>3
<1>3. DOMAIN stages' = DOMAIN stages /\ Len(stages') = Len(stages)
    BY <1>1, <1>2, RowsKept
<1> QED BY <1>2, <1>3

(* The repair of a cancelled run skips what waits and ends the authorities. *)
LEMMA CloseSkips ==
    ASSUME LifecycleInv, CloseCancelled
    PROVE  /\ Len(stages') = Len(stages) /\ DOMAIN stages' = DOMAIN stages
           /\ \A k \in DOMAIN stages :
                 /\ stages'[k].state = stages[k].state /\ stages'[k].iter = stages[k].iter
                 /\ stages'[k].status = IF stages[k].status \in Waiting THEN "skipped"
                                        ELSE stages[k].status
                 /\ stages'[k].auth = IF stages[k].auth = "active" THEN "terminalized"
                                      ELSE stages[k].auth
<1> USE DEF LifecycleInv
<1>1. stages' = [k \in DOMAIN stages |->
             [stages[k] EXCEPT !.status = IF @ \in Waiting THEN "skipped" ELSE @,
                               !.auth = IF @ = "active" THEN "terminalized" ELSE @]]
    BY DEF CloseCancelled
<1>2. ASSUME NEW k \in DOMAIN stages
      PROVE  /\ stages'[k] \in StageRow
             /\ stages'[k].state = stages[k].state /\ stages'[k].iter = stages[k].iter
             /\ stages'[k].status = IF stages[k].status \in Waiting THEN "skipped"
                                    ELSE stages[k].status
             /\ stages'[k].auth = IF stages[k].auth = "active" THEN "terminalized"
                                  ELSE stages[k].auth
  <2>1. stages[k] \in StageRow
      BY StageFacts
  <2>2. stages'[k] = [state |-> stages[k].state,
                      status |-> IF stages[k].status \in Waiting THEN "skipped"
                                 ELSE stages[k].status,
                      iter |-> stages[k].iter,
                      auth |-> IF stages[k].auth = "active" THEN "terminalized"
                               ELSE stages[k].auth]
      BY <1>1, <2>1 DEF StageRow
  <2> QED BY <2>1, <2>2 DEF StageRow, Over
<1>3. DOMAIN stages' = DOMAIN stages /\ Len(stages') = Len(stages)
    BY <1>1, <1>2, RowsKept
<1> QED BY <1>2, <1>3

(* The steps that leave the stage executions alone. *)
Unstaged ==
    \/ UNCHANGED vars \/ Decide \/ RequestApproval \/ PauseRun \/ StartRun \/ Provision
    \/ EnqueueTask \/ CloseRun \/ Evaluate \/ SelectMove \/ ReleaseCursor \/ MoveRun
    \/ WakeRun \/ RecordConflict \/ BlockOnConflict \/ ParkCursor \/ ClaimInvoke \/ Requeue
    \/ Reevaluate \/ SettleInvoke \/ RetryRun \/ Finalize \/ (Restart /\ ~run.settled)

(* The actions that Unstaged lists leave the stage executions alone. *)
LEMMA UnstagedFacts == ASSUME Unstaged PROVE UNCHANGED stages
<1>1. RepairRun => UNCHANGED stages
    BY DEF RepairRun
<1> QED BY <1>1 DEF Unstaged, vars, tables, Decide, RequestApproval, PauseRun, StartRun,
           Provision, EnqueueTask, CloseRun, Evaluate, SelectMove, ReleaseCursor, MoveRun,
           WakeRun, RecordConflict, BlockOnConflict, ParkCursor, ClaimInvoke, Requeue,
           Reevaluate, SettleInvoke, RetryRun, Finalize, Restart

Marks == OpenGate \/ OpenStage \/ FailStage \/ PromptFails \/ CompleteStage

(* Every step is one of these. *)
LEMMA StepKinds ==
    ASSUME [Next]_vars
    PROVE  \/ Unstaged \/ Marks \/ Claim \/ Terminalize \/ Create \/ SelfLoop
           \/ ResolveApproval \/ ResolveConflict \/ RetryStage \/ CancelRun \/ SettleSingle
           \/ (Restart /\ run.settled /\ CloseCancelled)
<1>1. Restart => (~run.settled \/ (run.settled /\ CloseCancelled))
    BY DEF Restart
<1> QED BY <1>1 DEF Next, Advance, Command, Unstaged, Marks

(* A stage execution keeps its place, its state and its iteration. *)
Kin == /\ Len(stages) \in Nat /\ Len(stages') \in Nat /\ Len(stages) <= Len(stages')
       /\ DOMAIN stages \subseteq DOMAIN stages'
       /\ \A j \in DOMAIN stages :
             /\ stages'[j].state = stages[j].state /\ stages'[j].iter = stages[j].iter

(* Every step is a Kin step: stage executions keep their identity. *)
LEMMA StagesKept ==
    ASSUME LifecycleInv, TaskInv, [Next]_vars PROVE Kin
<1>0. Len(stages) \in Nat
    BY DEF LifecycleInv, Shape
<1>1. CASE UNCHANGED stages
    BY <1>0, <1>1 DEF Kin
<1>2. ASSUME NEW k, NEW st, Marked(k, st) PROVE Kin
    BY <1>0, <1>2 DEF Kin, Marked
<1>3. CASE Marks
  <2>1. CompleteStage => adv.pc \in {"complete_stage", "end_stage"}
      BY DEF CompleteStage
  <2> QED BY <1>2, <1>3, <2>1, AdvanceMarks DEF Marks
<1>4. ASSUME NEW k, Released(k) PROVE Kin
    BY <1>0, <1>4 DEF Kin, Released
<1>5. CASE Claim \/ Terminalize
    BY <1>1, <1>4, <1>5, ClaimReleases, TerminalizeReleases
<1>6. ASSUME NEW s, Joined(s, "none") PROVE Kin
    BY <1>0, <1>6 DEF Kin, Joined
<1>7. CASE Create \/ SelfLoop \/ ResolveConflict
    BY <1>1, <1>6, <1>7, CreateJoins, ConflictJoins
<1>8. CASE ResolveApproval
    BY <1>1, <1>2, <1>8, ApprovalMarks
<1>9. CASE RetryStage
  <2>1. PICK k \in DOMAIN stages, s \in States, new \in 1..MaxStages : Replaced(k, s, new)
      BY <1>9, RetryFacts
  <2> QED BY <1>0, <2>1 DEF Replaced, Kin
<1>10. CASE CancelRun
    BY <1>0, <1>10, CancelFails DEF Kin
<1>11. CASE CloseCancelled
    BY <1>0, <1>11, CloseSkips DEF Kin
<1>12. CASE SettleSingle
    BY <1>2, <1>12, SingleMarks
<1> QED BY <1>1, <1>3, <1>5, <1>7, <1>8, <1>9, <1>10, <1>11, <1>12, StepKinds, UnstagedFacts

-----------------------------------------------------------------------------
(* What the steps do to the queue                                          *)

Entry == [target : Nat, tag : States \cup {NoState}]
InHand == [target |-> adv.target, tag |-> adv.tag]

(* The queue after the repair: run-scoped entries, entries that were queued, *)
(* each once, and the abandoned advance if its authority is active.  Unless  *)
(* the cursor is parked, no target has an item, and something is there when  *)
(* nothing is in flight.                                                     *)
Repaired ==
    /\ queue' \in Seq(Entry)
    /\ \A i \in DOMAIN queue' :
          \/ queue'[i].target = 0
          \/ \E j \in DOMAIN queue : queue'[i] = queue[j]
          \/ queue'[i] = InHand /\ stages[adv.target].auth = "active"
    /\ \A i, l \in DOMAIN queue' :
          queue'[i].target = queue'[l].target /\ queue'[i].target # 0 =>
             \/ i = l
             \/ \E j, m \in DOMAIN queue : /\ j # m /\ queue[j].target = queue'[i].target
                                           /\ queue[m].target = queue'[i].target
             \/ \E j \in DOMAIN queue : /\ queue[j].target = queue'[i].target
                                        /\ adv.target = queue'[i].target
    /\ ~parked => \A i \in DOMAIN queue' :
                     queue'[i].target = 0 \/ Invoked(queue'[i].target) = {}
    /\ ~parked /\ (\A k \in DOMAIN stages : InFlight(k) = {}) => queue' # <<>>

(* Rows of two queues, one after the other. *)
LEMMA ConcatRows ==
    ASSUME NEW S, NEW a \in Seq(S), NEW b \in Seq(S)
    PROVE  /\ a \o b \in Seq(S) /\ Len(a) \in Nat /\ Len(b) \in Nat
           /\ DOMAIN (a \o b) = 1..(Len(a) + Len(b))
           /\ DOMAIN a = 1..Len(a) /\ DOMAIN b = 1..Len(b)
           /\ \A i \in DOMAIN (a \o b) :
                 \/ i \in DOMAIN a /\ (a \o b)[i] = a[i]
                 \/ /\ i \notin DOMAIN a /\ i - Len(a) \in DOMAIN b
                    /\ (a \o b)[i] = b[i - Len(a)]
OBVIOUS

(* A queue with at most one run-scoped entry after it. *)
LEMMA WokenFacts ==
    ASSUME NEW q \in Seq(Entry), NEW w \in {<<>>, <<RunScoped>>}
    PROVE  /\ q \o w \in Seq(Entry)
           /\ \A i \in DOMAIN (q \o w) :
                 \/ i \in DOMAIN q /\ (q \o w)[i] = q[i]
                 \/ (q \o w)[i].target = 0
<1>1. RunScoped \in Entry /\ RunScoped.target = 0
    BY DEF RunScoped, Entry
<1>2. w \in Seq(Entry) /\ \A i \in DOMAIN w : w[i].target = 0
  <2>1. CASE w = <<>>
      BY <2>1
  <2>2. CASE w = <<RunScoped>>
    <3>1. w \in Seq(Entry) /\ DOMAIN w = {1} /\ w[1] = RunScoped
        BY <1>1, <2>2
    <3> QED BY <1>1, <3>1
  <2> QED BY <2>1, <2>2
<1> QED BY <1>2, ConcatRows

(* What startup repair makes of the queue. *)
LEMMA RepairQueue ==
    ASSUME LifecycleInv, queue \in Seq(Entry), adv.tag \in States \cup {NoState}, RepairRun
    PROVE  Repaired
<1> DEFINE abandoned == IF adv.live THEN <<InHand>> ELSE <<>>
           busy == \E k \in DOMAIN stages : InFlight(k) # {}
           useful(e) == e.target = 0 \/ Invoked(e.target) = {}
           requeued(e) == e.target = 0 \/ (Invoked(e.target) = {} /\ stages[e.target].auth = "active")
           Useful(q) == {i \in DOMAIN q : useful(q[i])}
           Requeued(q) == {i \in DOMAIN q : requeued(q[i])}
           Aside(q) == {i \in DOMAIN q : q[i].target # 0}
           aimed(k) == \E i \in DOMAIN (queue \o abandoned) : (queue \o abandoned)[i].target = k
           orphans == {k \in DOMAIN stages :
                          /\ stages[k].status = "running" /\ InFlight(k) = {}
                          /\ IF Invoked(k) = {} THEN ~busy /\ queue \o abandoned = <<>>
                                                ELSE ~aimed(k)}
<1>0. PICK w \in {<<>>, <<RunScoped>>} : w = IF orphans = {} THEN <<>> ELSE <<RunScoped>>
    OBVIOUS
<1>1. queue' = IF parked THEN Kept(queue \o w, Aside(queue \o w))
               ELSE IF Kept(queue \o w, Useful(queue \o w)) \o Kept(abandoned, Requeued(abandoned)) = <<>>
                       /\ ~busy
               THEN <<RunScoped>>
               ELSE Kept(queue \o w, Useful(queue \o w)) \o Kept(abandoned, Requeued(abandoned))
    BY <1>0, Zenon DEF RepairRun, InHand
<1>2. PICK woken : woken = queue \o w
    OBVIOUS
<1>3. PICK ab : ab = abandoned
    OBVIOUS
<1>4. /\ woken \in Seq(Entry)
      /\ \A i \in DOMAIN woken :
            \/ i \in DOMAIN queue /\ woken[i] = queue[i]
            \/ woken[i].target = 0
    BY <1>2, WokenFacts
<1>5. InHand \in Entry /\ InHand.target = adv.target
    BY DEF InHand, Entry, LifecycleInv, Shape, AdvType
<1>6. ab \in Seq(Entry) /\ Len(ab) <= 1 /\ \A i \in DOMAIN ab : i = 1 /\ ab[i] = InHand
    BY <1>3, <1>5
<1>7. PICK A : A = Kept(woken, Useful(woken))
    OBVIOUS
<1>8. PICK B : B = Kept(ab, Requeued(ab))
    OBVIOUS
<1>9. PICK C : C = Kept(woken, Aside(woken))
    OBVIOUS
<1>10. /\ A \in Seq(Entry)
       /\ \A n \in DOMAIN A : Place(Useful(woken), n) \in Useful(woken)
                              /\ A[n] = woken[Place(Useful(woken), n)]
       /\ \A n, l \in DOMAIN A : Place(Useful(woken), n) = Place(Useful(woken), l) => n = l
  <2>1. PICK I \in SUBSET DOMAIN woken : I = Useful(woken)
      OBVIOUS
  <2>2. A = Kept(woken, I)
      BY <1>4, <1>7, <2>1
  <2> HIDE DEF Useful
  <2> QED BY <1>4, <2>1, <2>2, KeptFacts
<1>11. /\ B \in Seq(Entry)
       /\ \A n \in DOMAIN B : Place(Requeued(ab), n) \in Requeued(ab)
                              /\ B[n] = ab[Place(Requeued(ab), n)]
       /\ \A n, l \in DOMAIN B : Place(Requeued(ab), n) = Place(Requeued(ab), l) => n = l
  <2>1. PICK I \in SUBSET DOMAIN ab : I = Requeued(ab)
      OBVIOUS
  <2>2. B = Kept(ab, I)
      BY <1>6, <1>8, <2>1
  <2> HIDE DEF Requeued
  <2> QED BY <1>6, <2>1, <2>2, KeptFacts
<1>12. /\ C \in Seq(Entry)
       /\ \A n \in DOMAIN C : Place(Aside(woken), n) \in Aside(woken)
                              /\ C[n] = woken[Place(Aside(woken), n)]
       /\ \A n, l \in DOMAIN C : Place(Aside(woken), n) = Place(Aside(woken), l) => n = l
  <2>1. PICK I \in SUBSET DOMAIN woken : I = Aside(woken)
      OBVIOUS
  <2>2. C = Kept(woken, I)
      BY <1>4, <1>9, <2>1
  <2> HIDE DEF Aside
  <2> QED BY <1>4, <2>1, <2>2, KeptFacts
<1>13. \A n \in DOMAIN A :
           /\ A[n].target = 0 \/ \E j \in DOMAIN queue : A[n] = queue[j]
           /\ A[n].target = 0 \/ Invoked(A[n].target) = {}
  <2> SUFFICES ASSUME NEW n \in DOMAIN A
               PROVE  /\ A[n].target = 0 \/ \E j \in DOMAIN queue : A[n] = queue[j]
                      /\ A[n].target = 0 \/ Invoked(A[n].target) = {}
      OBVIOUS
  <2>1. PICK i \in DOMAIN woken : A[n] = woken[i] /\ useful(woken[i])
      BY <1>10
  <2> HIDE DEF useful
  <2>2. A[n].target = 0 \/ \E j \in DOMAIN queue : A[n] = queue[j]
      BY <1>4, <2>1
  <2>3. A[n].target = 0 \/ Invoked(A[n].target) = {}
      BY <2>1 DEF useful
  <2> QED BY <2>2, <2>3
<1>14. \A n, l \in DOMAIN A : A[n].target = A[l].target /\ A[n].target # 0 =>
           \/ n = l
           \/ \E j, m \in DOMAIN queue : /\ j # m /\ queue[j].target = A[n].target
                                         /\ queue[m].target = A[n].target
  <2> SUFFICES ASSUME NEW n \in DOMAIN A, NEW l \in DOMAIN A, n # l,
                      A[n].target = A[l].target, A[n].target # 0
               PROVE  \E j, m \in DOMAIN queue : /\ j # m /\ queue[j].target = A[n].target
                                                 /\ queue[m].target = A[n].target
      OBVIOUS
  <2>1. PICK j : j = Place(Useful(woken), n)
      OBVIOUS
  <2>2. PICK m : m = Place(Useful(woken), l)
      OBVIOUS
  <2>3. j # m /\ j \in DOMAIN woken /\ m \in DOMAIN woken /\ A[n] = woken[j] /\ A[l] = woken[m]
      BY <1>10, <2>1, <2>2
  <2>4. /\ j \in DOMAIN queue /\ woken[j] = queue[j]
        /\ m \in DOMAIN queue /\ woken[m] = queue[m]
      BY <1>4, <2>3
  <2> QED BY <2>3, <2>4
<1>15. \A n \in DOMAIN B : /\ B[n] = InHand /\ n = 1
                           /\ B[n].target = 0 \/ /\ Invoked(adv.target) = {}
                                                 /\ stages[adv.target].auth = "active"
  <2>1. \A n \in DOMAIN B : B[n] = InHand /\ requeued(InHand) /\ Place(Requeued(ab), n) = 1
      BY <1>6, <1>11
  <2>2. \A n, l \in DOMAIN B : n = l
      BY <1>11, <2>1
  <2>3. \A n \in DOMAIN B : n = 1
    <3>1. \A n \in DOMAIN B : 1 \in DOMAIN B
        BY <1>11
    <3> QED BY <2>2, <3>1
  <2> QED BY <1>5, <2>1, <2>3
<1>16. \A n \in DOMAIN C : \E j \in DOMAIN queue : C[n] = queue[j] /\ j = Place(Aside(woken), n)
    BY <1>4, <1>12
<1>17. CASE parked
  <2>1. queue' = C
      BY <1>1, <1>2, <1>9, <1>17
  <2>2. \A n, l \in DOMAIN C : n # l =>
           \E j, m \in DOMAIN queue : j # m /\ C[n] = queue[j] /\ C[l] = queue[m]
      BY <1>12, <1>16
  <2> HIDE DEF Aside
  <2> QED BY <1>12, <1>16, <1>17, <2>1, <2>2 DEF Repaired
<1>18. CASE ~parked /\ queue' = <<RunScoped>>
  <2>1. RunScoped \in Entry /\ RunScoped.target = 0
      BY DEF RunScoped, Entry
  <2>2. queue' \in Seq(Entry) /\ DOMAIN queue' = {1} /\ queue'[1].target = 0 /\ queue' # <<>>
      BY <1>18, <2>1
  <2> QED BY <1>18, <2>2 DEF Repaired
<1>19. CASE ~parked /\ queue' # <<RunScoped>>
  <2>1. queue' = A \o B /\ (~busy => queue' # <<>>)
      BY <1>1, <1>2, <1>3, <1>7, <1>8, <1>19
  <2>2. /\ queue' \in Seq(Entry)
        /\ \A i \in DOMAIN queue' :
              \/ i \in DOMAIN A /\ queue'[i] = A[i]
              \/ i \notin DOMAIN A /\ i = Len(A) + 1 /\ queue'[i] = InHand
                 /\ (queue'[i].target = 0 \/ /\ Invoked(adv.target) = {}
                                             /\ stages[adv.target].auth = "active")
    <3>1. /\ A \o B \in Seq(Entry) /\ Len(A) \in Nat
          /\ DOMAIN (A \o B) = 1..(Len(A) + Len(B)) /\ Len(B) \in Nat
          /\ \A i \in DOMAIN (A \o B) :
                \/ i \in DOMAIN A /\ (A \o B)[i] = A[i]
                \/ /\ i \notin DOMAIN A /\ i - Len(A) \in DOMAIN B
                   /\ (A \o B)[i] = B[i - Len(A)]
        BY <1>10, <1>11, ConcatRows
    <3>2. \A i \in DOMAIN (A \o B) : i \in Int /\ (i - Len(A) = 1 => i = Len(A) + 1)
        BY <3>1
    <3> HIDE DEF requeued, useful
    <3> QED BY <1>15, <2>1, <3>1, <3>2
  <2>3. \A i \in DOMAIN queue' :
          /\ \/ queue'[i].target = 0
             \/ \E j \in DOMAIN queue : queue'[i] = queue[j]
             \/ queue'[i] = InHand /\ stages[adv.target].auth = "active"
          /\ queue'[i].target = 0 \/ Invoked(queue'[i].target) = {}
      BY <1>5, <1>13, <2>2
  <2>4. ASSUME NEW i \in DOMAIN queue', NEW l \in DOMAIN queue',
               queue'[i].target = queue'[l].target, queue'[i].target # 0, i # l
        PROVE  \/ \E j, m \in DOMAIN queue : /\ j # m /\ queue[j].target = queue'[i].target
                                             /\ queue[m].target = queue'[i].target
               \/ \E j \in DOMAIN queue : /\ queue[j].target = queue'[i].target
                                          /\ adv.target = queue'[i].target
    <3>1. CASE i \in DOMAIN A /\ l \in DOMAIN A
        BY <1>14, <2>2, <2>4, <3>1
    <3>2. CASE i \in DOMAIN A /\ l \notin DOMAIN A
        BY <1>5, <1>13, <2>2, <2>4, <3>2
    <3>3. CASE i \notin DOMAIN A /\ l \in DOMAIN A
        BY <1>5, <1>13, <2>2, <2>4, <3>3
    <3>4. CASE i \notin DOMAIN A /\ l \notin DOMAIN A
        BY <2>2, <2>4, <3>4
    <3> QED BY <3>1, <3>2, <3>3, <3>4
  <2> QED BY <1>19, <2>1, <2>2, <2>3, <2>4 DEF Repaired
<1> QED BY <1>17, <1>18, <1>19

(* A queue without its first entry, and with one more. *)
LEMMA TailRows ==
    ASSUME NEW q \in Seq(Entry), q # <<>>
    PROVE  /\ Tail(q) \in Seq(Entry) /\ 1 \in DOMAIN q /\ Head(q) = q[1] /\ Head(q) \in Entry
           /\ \A i \in DOMAIN Tail(q) : /\ i + 1 \in DOMAIN q /\ i + 1 # 1 /\ Tail(q)[i] = q[i + 1]
                                        /\ i \in Nat
           /\ \A j \in DOMAIN q : j # 1 => j - 1 \in DOMAIN Tail(q) /\ Tail(q)[j - 1] = q[j]
<1>1. Len(q) \in Nat /\ Len(q) > 0 /\ DOMAIN q = 1..Len(q)
    OBVIOUS
<1>2. Tail(q) \in Seq(Entry) /\ Head(q) = q[1] /\ Len(Tail(q)) = Len(q) - 1
      /\ DOMAIN Tail(q) = 1..(Len(q) - 1)
    BY <1>1
<1>3. \A i \in 1..(Len(q) - 1) : Tail(q)[i] = q[i + 1]
    BY <1>1
<1>4. \A i \in 1..(Len(q) - 1) : i + 1 \in 1..Len(q) /\ i + 1 # 1 /\ i \in Nat
    BY <1>1
<1>5. \A j \in 1..Len(q) : j # 1 => j - 1 \in 1..(Len(q) - 1) /\ (j - 1) + 1 = j
    BY <1>1
<1>6. q[1] \in Entry
    BY <1>1
<1> QED BY <1>1, <1>2, <1>3, <1>4, <1>5, <1>6

(* Appending an entry keeps the others where they are. *)
LEMMA AppendRows ==
    ASSUME NEW q \in Seq(Entry), NEW e \in Entry
    PROVE  /\ Append(q, e) \in Seq(Entry) /\ Len(q) \in Nat
           /\ Len(q) + 1 \in DOMAIN Append(q, e) /\ Append(q, e)[Len(q) + 1] = e
           /\ \A i \in DOMAIN Append(q, e) : i \in DOMAIN q \/ i = Len(q) + 1
           /\ \A i \in DOMAIN q : /\ i \in DOMAIN Append(q, e) /\ i # Len(q) + 1
                                  /\ Append(q, e)[i] = q[i]
OBVIOUS

(* The queue after a retry: entries of other states, each once, and the new one. *)
LEMMA RedirectedRows ==
    ASSUME queue \in Seq(Entry), NEW s \in States, NEW k \in Nat, queue' = Redirected(s, k)
    PROVE  /\ queue' \in Seq(Entry)
           /\ \E n \in DOMAIN queue' :
                 /\ queue'[n] = [target |-> k, tag |-> s]
                 /\ \A i \in DOMAIN queue' : i # n =>
                       \E j \in DOMAIN queue : queue'[i] = queue[j] /\ queue[j].tag # s
                 /\ \A i, l \in DOMAIN queue' : i # n /\ l # n /\ i # l =>
                       \E j, m \in DOMAIN queue :
                           j # m /\ queue'[i] = queue[j] /\ queue'[l] = queue[m]
<1>1. PICK I \in SUBSET DOMAIN queue : I = {i \in DOMAIN queue : queue[i].tag # s}
    OBVIOUS
<1>2. PICK K : K = Kept(queue, I)
    OBVIOUS
<1>3. /\ K \in Seq(Entry)
      /\ \A n \in DOMAIN K : Place(I, n) \in I /\ K[n] = queue[Place(I, n)]
      /\ \A n, l \in DOMAIN K : Place(I, n) = Place(I, l) => n = l
    BY <1>2, KeptFacts
<1>4. PICK e \in Entry : e = [target |-> k, tag |-> s]
    BY DEF Entry
<1>5. queue' = Append(K, e)
    BY <1>1, <1>2, <1>4 DEF Redirected
<1>6. /\ queue' \in Seq(Entry)
      /\ Len(K) + 1 \in DOMAIN queue' /\ queue'[Len(K) + 1] = e
      /\ \A i \in DOMAIN queue' : i \in DOMAIN K \/ i = Len(K) + 1
      /\ \A i \in DOMAIN K : queue'[i] = K[i]
    BY <1>3, <1>5, AppendRows
<1>7. \A i \in DOMAIN K : \E j \in DOMAIN queue : K[i] = queue[j] /\ queue[j].tag # s
    BY <1>1, <1>3
<1>8. \A i, l \in DOMAIN K : i # l =>
          \E j, m \in DOMAIN queue : j # m /\ K[i] = queue[j] /\ K[l] = queue[m]
    BY <1>3
<1> QED BY <1>4, <1>6, <1>7, <1>8

(* The steps that leave the queue alone. *)
Unqueued ==
    \/ UNCHANGED vars \/ Decide \/ RequestApproval \/ PauseRun \/ StartRun \/ Provision
    \/ EnqueueTask \/ CloseRun \/ Evaluate \/ SelectMove \/ ReleaseCursor \/ MoveRun
    \/ RecordConflict \/ BlockOnConflict \/ ParkCursor \/ ClaimInvoke \/ Requeue \/ SettleSingle
    \/ Finalize \/ Marks \/ Terminalize \/ Create \/ SelfLoop \/ CancelRun

(* The actions that Unqueued lists leave the queue alone. *)
LEMMA UnqueuedFacts == ASSUME Unqueued PROVE UNCHANGED queue
BY DEF Unqueued, vars, tables, Decide, RequestApproval, PauseRun, StartRun, Provision,
       EnqueueTask, CloseRun, Evaluate, SelectMove, ReleaseCursor, MoveRun, RecordConflict,
       BlockOnConflict, ParkCursor, ClaimInvoke, Requeue, SettleSingle, Finalize, Marks,
       OpenGate, OpenStage,
       FailStage, PromptFails, CompleteStage, Terminalize, Create, SelfLoop, CancelRun

(* Who else touches the queue. *)
LEMMA QueueKinds ==
    ASSUME [Next]_vars
    PROVE  \/ Unqueued \/ Claim \/ WakeRun \/ Reevaluate \/ SettleInvoke \/ ResolveApproval
           \/ RetryStage \/ RetryRun \/ ResolveConflict \/ Restart
BY DEF Next, Advance, Command, Unqueued, Marks

-----------------------------------------------------------------------------
(* What the steps do to the advance in flight                              *)

(* Its target and its tag: kept, given up, or those of the claimed entry. *)
Aims == \/ adv'.target = adv.target /\ adv'.tag = adv.tag
        \/ adv'.target = 0 /\ adv'.tag = NoState
        \/ /\ Claim /\ queue # <<>>
           /\ adv'.target = Head(queue).target /\ adv'.tag = Head(queue).tag

(* The steps of the executor's tasks and their items. *)
Tasking == ClaimInvoke \/ SettleSingle \/ Reevaluate \/ Requeue \/ SettleInvoke

(* What all of them leave alone. *)
LEMMA TaskingFacts ==
    ASSUME Tasking
    PROVE  UNCHANGED <<run, approvals, conflict, parked, adv, finalizer, commands, restarts>>
BY DEF Tasking, ClaimInvoke, SettleSingle, Reevaluate, Requeue, SettleInvoke

(* How a step changes which target and budgets an advance works with. *)
LEMMA AdvAims ==
    ASSUME LifecycleInv, [Next]_vars
    PROVE  Aims /\ adv'.spent \in {adv.spent, {}, Exhausted}
<1> USE DEF LifecycleInv
<1>1. CASE UNCHANGED adv \/ adv' = [adv EXCEPT !.live = FALSE]
    BY <1>1 DEF Shape, AdvType, Aims
<1>2. CASE adv' = Idle
    BY <1>2 DEF Idle, Aims
<1>3. CASE Finish
  <2>1. CASE adv.target = 0
      BY <1>2, <1>3, <2>1 DEF Finish
  <2>2. CASE adv.target # 0
      BY <1>3, <2>2 DEF Finish, Idle, Aims
  <2> QED BY <2>1, <2>2
<1>4. ASSUME NEW pc, adv' = [adv EXCEPT !.pc = pc]
      PROVE  Aims /\ adv'.spent \in {adv.spent, {}, Exhausted}
    BY <1>4 DEF Shape, AdvType, Aims
<1>5. ASSUME NEW pc, NEW k, NEW todo, Do(pc, k, todo)
      PROVE  Aims /\ adv'.spent \in {adv.spent, {}, Exhausted}
    BY <1>5 DEF Shape, AdvType, Aims, Do
<1>6. CASE Claim
    BY <1>6 DEF Claim, Idle, Aims
<1>7. CASE Decide
    BY <1>3, <1>5, <1>7 DEF Decide, WaitOn, FanOut, SettleStage, Reconsider, StageStopped,
           ReopenGate, Enter
<1>8. CASE Evaluate
    BY <1>8, EvaluateFacts DEF Shape, AdvType, Aims
<1>9. CASE Create
    BY <1>9 DEF Create, Shape, AdvType, Aims
<1>10. CASE Provision
    BY <1>3, <1>10 DEF Provision, Shape, AdvType, Aims
<1>11. CASE EnqueueTask
    BY <1>3, <1>11 DEF EnqueueTask, Shape, AdvType, Aims
<1>12. CASE CompleteStage
    BY <1>4, <1>12 DEF CompleteStage
<1>13. CASE OpenGate \/ RequestApproval \/ OpenStage \/ StartRun \/ FailStage \/ SelectMove
            \/ ReleaseCursor \/ SelfLoop \/ MoveRun \/ RecordConflict \/ BlockOnConflict
    BY <1>4, <1>13 DEF OpenGate, RequestApproval, OpenStage, StartRun, FailStage, SelectMove,
           ReleaseCursor, SelfLoop, MoveRun, RecordConflict, BlockOnConflict, Step
<1>14. CASE PauseRun \/ PromptFails \/ CloseRun \/ WakeRun \/ ParkCursor
    BY <1>3, <1>14 DEF PauseRun, PromptFails, CloseRun, WakeRun, ParkCursor
<1>15. CASE Terminalize \/ Restart
    BY <1>2, <1>15 DEF Terminalize, Restart
<1>16. CASE RetryStage
  <2>1. UNCHANGED adv \/ adv' = [adv EXCEPT !.live = FALSE]
      BY <1>16, RetryFacts DEF Replaced
  <2> QED BY <1>1, <2>1
<1>17. CASE Tasking \/ ResolveApproval \/ RetryRun \/ ResolveConflict
            \/ CancelRun \/ Finalize \/ UNCHANGED vars
    BY <1>1, <1>17, TaskingFacts DEF ResolveApproval, RetryRun, ResolveConflict,
           CancelRun, Finalize, vars
<1> QED BY <1>6, <1>7, <1>8, <1>9, <1>10, <1>11, <1>12, <1>13, <1>14, <1>15, <1>16, <1>17
        DEF Next, Advance, Command, Tasking

-----------------------------------------------------------------------------
(* Which step changes what                                                 *)

(* The status of a stage execution. *)
LEMMA StatusSteps ==
    ASSUME LifecycleInv, TaskInv, [Next]_vars, NEW j \in DOMAIN stages'
    PROVE  \/ j \in DOMAIN stages /\ stages'[j].status = stages[j].status
           \/ j \notin DOMAIN stages /\ j = Len(stages) + 1 /\ stages'[j].status = "pending"
           \/ OpenGate /\ j = adv.stage /\ stages'[j].status = "waiting_approval"
           \/ OpenStage /\ j = adv.stage /\ stages'[j].status = "running"
           \/ FailStage /\ j = adv.stage /\ stages'[j].status = "failed"
           \/ PromptFails /\ j = adv.stage /\ stages'[j].status = "blocked"
           \/ /\ CompleteStage /\ stages'[j].status = "completed"
              /\ \/ adv.pc = "complete_stage" /\ j = adv.stage
                 \/ adv.pc = "end_stage" /\ j \in DOMAIN stages /\ stages[j].state = adv.at
           \/ /\ ResolveApproval /\ j \in DOMAIN stages /\ stages[j].status = "waiting_approval"
              /\ stages'[j].status \in {"running", "completed"}
           \/ /\ RetryStage /\ j \in DOMAIN stages /\ stages'[j].status = "skipped"
              /\ stages[j].status \in {"failed", "blocked", "completed"}
           \/ /\ CancelRun /\ j \in DOMAIN stages
              /\ stages[j].status = "running" /\ stages'[j].status = "failed"
           \/ /\ run.settled /\ j \in DOMAIN stages
              /\ stages[j].status \in Waiting /\ stages'[j].status = "skipped"
           \/ /\ SettleSingle /\ j \in DOMAIN stages /\ stages'[j].status \in {"completed", "failed"}
              /\ SingleTask(stages[j].state) /\ Invoked(j) # {}
<1>1. CASE UNCHANGED stages
    BY <1>1
<1>2. CASE Marks
  <2>1. ASSUME NEW k, NEW st, Marked(k, st)
        PROVE  j \in DOMAIN stages /\ stages'[j].status = IF j = k THEN st ELSE stages[j].status
      BY <2>1 DEF Marked
  <2>2. CompleteStage => adv.pc \in {"complete_stage", "end_stage"}
      BY DEF CompleteStage
  <2>3. CASE OpenGate \/ OpenStage \/ FailStage \/ PromptFails
      BY <2>1, <2>3, AdvanceMarks
  <2>4. CASE CompleteStage
      BY <2>1, <2>2, <2>4, AdvanceMarks
  <2> QED BY <1>2, <2>3, <2>4 DEF Marks
<1>3. CASE Claim \/ Terminalize
  <2>1. \A k : Released(k) => j \in DOMAIN stages /\ stages'[j].status = stages[j].status
      BY DEF Released
  <2> QED BY <1>1, <1>3, <2>1, ClaimReleases, TerminalizeReleases
<1>4. CASE Create \/ SelfLoop \/ ResolveConflict
  <2>1. \/ UNCHANGED stages
        \/ \E s : Joined(s, "none") /\ \A i \in DOMAIN stages : stages'[i] = stages[i]
      BY <1>4, CreateJoins, ConflictJoins
  <2>2. ASSUME NEW s, Joined(s, "none"), \A i \in DOMAIN stages : stages'[i] = stages[i]
        PROVE  \/ j \in DOMAIN stages /\ stages'[j].status = stages[j].status
               \/ j \notin DOMAIN stages /\ j = Len(stages) + 1 /\ stages'[j].status = "pending"
      BY <2>2 DEF Joined
  <2> QED BY <1>1, <2>1, <2>2
<1>5. CASE ResolveApproval
  <2>1. \/ UNCHANGED stages
        \/ \E k, st : /\ stages[k].status = "waiting_approval" /\ st \in {"running", "completed"}
                      /\ Marked(k, st)
      BY <1>5, ApprovalMarks
  <2>2. ASSUME NEW k, NEW st, Marked(k, st)
        PROVE  j \in DOMAIN stages /\ stages'[j].status = IF j = k THEN st ELSE stages[j].status
      BY <2>2 DEF Marked
  <2> QED BY <1>1, <1>5, <2>1, <2>2
<1>6. CASE RetryStage
  <2>1. PICK k \in DOMAIN stages, s \in States, new \in 1..MaxStages : Replaced(k, s, new)
      BY <1>6, RetryFacts
  <2>2. /\ stages[k].status \in {"failed", "blocked", "completed"} /\ new = Len(stages) + 1
        /\ j \in DOMAIN stages \/ j = new
        /\ j \in DOMAIN stages =>
              stages'[j].status = IF j = k THEN "skipped" ELSE stages[j].status
        /\ stages'[new].status = "pending"
      BY <2>1 DEF Replaced
  <2> QED BY <1>6, <2>2
<1>7. CASE CancelRun
    BY <1>7, CancelFails
<1>8. CASE Restart /\ run.settled /\ CloseCancelled
    BY <1>8, CloseSkips
<1>9. CASE SettleSingle
  <2>1. PICK k \in DOMAIN stages, st \in {"completed", "failed"} :
            Marked(k, st) /\ SingleTask(stages[k].state) /\ Invoked(k) # {}
      BY <1>9, SingleMarks
  <2>2. j \in DOMAIN stages /\ stages'[j].status = IF j = k THEN st ELSE stages[j].status
      BY <2>1 DEF Marked
  <2> QED BY <1>9, <2>1, <2>2
<1> QED BY <1>1, <1>2, <1>3, <1>4, <1>5, <1>6, <1>7, <1>8, <1>9, StepKinds, UnstagedFacts

(* The authority of a retry. *)
LEMMA AuthSteps ==
    ASSUME LifecycleInv, TaskInv, [Next]_vars, NEW j \in DOMAIN stages'
    PROVE  \/ j \in DOMAIN stages /\ stages'[j].auth = stages[j].auth
           \/ j \notin DOMAIN stages /\ stages'[j].auth = "none"
           \/ /\ j \notin DOMAIN stages /\ stages'[j].auth = "active" /\ RetryStage
           \/ /\ Claim /\ j = Head(queue).target /\ j \in DOMAIN stages
              /\ stages[j].auth = "active" /\ stages'[j].auth = "terminalized"
              /\ stages[j].status \in Over \ {"completed"}
           \/ /\ Terminalize /\ j = adv.target /\ j \in DOMAIN stages
              /\ stages[j].auth = "active" /\ stages'[j].auth = "terminalized"
              /\ stages[j].status \in Over
           \/ /\ RetryStage /\ j \in DOMAIN stages
              /\ stages[j].auth = "active" /\ stages'[j].auth = "superseded"
           \/ /\ run.settled /\ j \in DOMAIN stages
              /\ stages[j].auth = "active" /\ stages'[j].auth = "terminalized"
<1>1. CASE UNCHANGED stages
    BY <1>1
<1>2. ASSUME NEW k, NEW st, Marked(k, st)
      PROVE  j \in DOMAIN stages /\ stages'[j].auth = stages[j].auth
    BY <1>2 DEF Marked
<1>3. CASE Marks
  <2>1. CompleteStage => adv.pc \in {"complete_stage", "end_stage"}
      BY DEF CompleteStage
  <2> QED BY <1>2, <1>3, <2>1, AdvanceMarks DEF Marks
<1>4. CASE Claim \/ Terminalize
  <2>1. \A k : Released(k) => /\ j \in DOMAIN stages
                              /\ stages'[j].auth = IF j = k THEN "terminalized" ELSE stages[j].auth
      BY DEF Released
  <2>2. CASE Claim /\ ~UNCHANGED stages
      BY <2>1, <2>2, ClaimReleases
  <2>3. CASE Terminalize /\ ~UNCHANGED stages
      BY <2>1, <2>3, TerminalizeReleases
  <2> QED BY <1>1, <1>4, <2>2, <2>3
<1>5. CASE Create \/ SelfLoop \/ ResolveConflict
  <2>1. \/ UNCHANGED stages
        \/ \E s : Joined(s, "none") /\ \A i \in DOMAIN stages : stages'[i] = stages[i]
      BY <1>5, CreateJoins, ConflictJoins
  <2>2. ASSUME NEW s, Joined(s, "none"), \A i \in DOMAIN stages : stages'[i] = stages[i]
        PROVE  \/ j \in DOMAIN stages /\ stages'[j].auth = stages[j].auth
               \/ j \notin DOMAIN stages /\ stages'[j].auth = "none"
      BY <2>2 DEF Joined
  <2> QED BY <1>1, <2>1, <2>2
<1>6. CASE ResolveApproval
    BY <1>1, <1>2, <1>6, ApprovalMarks
<1>7. CASE RetryStage
  <2>1. PICK k \in DOMAIN stages, s \in States, new \in 1..MaxStages : Replaced(k, s, new)
      BY <1>7, RetryFacts
  <2>2. /\ j \in DOMAIN stages \/ j = new
        /\ j \in DOMAIN stages =>
              stages'[j].auth = IF j \in Of(s) /\ stages[j].auth = "active"
                                THEN "superseded" ELSE stages[j].auth
        /\ stages'[new].auth = "active"
      BY <2>1 DEF Replaced
  <2> QED BY <1>7, <2>2
<1>8. CASE CancelRun
    BY <1>8, CancelFails
<1>9. CASE Restart /\ run.settled /\ CloseCancelled
    BY <1>9, CloseSkips
<1>10. CASE SettleSingle
    BY <1>2, <1>10, SingleMarks
<1> QED BY <1>1, <1>3, <1>4, <1>5, <1>6, <1>7, <1>8, <1>9, <1>10, StepKinds, UnstagedFacts

(* The item of a task. *)
LEMMA ItemSteps ==
    ASSUME LifecycleInv, [Next]_vars, NEW j \in 1..MaxStages, NEW t \in Tasks
    PROVE  \/ items'[j][t] = items[j][t]
           \/ EnqueueTask /\ j = adv.stage /\ items'[j][t] = "pending"
           \/ ClaimInvoke /\ items[j][t] = "pending" /\ items'[j][t] = "running"
           \/ Requeue /\ items[j][t] = "running" /\ items'[j][t] = "pending"
           \/ /\ SettleInvoke /\ items[j][t] = "running"
              /\ items'[j][t] \in {"completed", "failed"}
           \/ RetryStage /\ items[j][t] \in Waiting /\ items'[j][t] = "cancelled"
           \/ CancelRun /\ items[j][t] = "running" /\ items'[j][t] = "cancelled"
           \/ RepairRun /\ items[j][t] = "running" /\ items'[j][t] = "pending"
           \/ run.settled /\ items[j][t] \in Waiting /\ items'[j][t] = "cancelled"
<1>1. CASE UNCHANGED items
    BY <1>1
<1>2. items \in [1..MaxStages -> [Tasks -> ItemStatus]]
    BY DEF LifecycleInv, Shape
<1>3. \A k \in 1..MaxStages : \A u \in Tasks : \A v :
          items' = [items EXCEPT ![k][u] = v] =>
              items'[j][t] = IF j = k /\ t = u THEN v ELSE items[j][t]
    BY <1>2
<1>4. \A k \in DOMAIN stages : k \in 1..MaxStages
    BY StageFacts DEF LifecycleInv
<1>5. CASE EnqueueTask
  <2>1. PICK u \in adv.todo : items' = [items EXCEPT ![adv.stage][u] = "pending"]
      BY <1>5 DEF EnqueueTask
  <2>2. adv.stage \in DOMAIN stages /\ u \in Tasks
      BY <1>5 DEF EnqueueTask, LifecycleInv, AdvInv, Shape, AdvType
  <2> QED BY <1>3, <1>4, <1>5, <2>1, <2>2
<1>6. CASE ClaimInvoke
  <2>1. PICK k \in DOMAIN stages, u \in Tasks :
            items[k][u] = "pending" /\ items' = [items EXCEPT ![k][u] = "running"]
      BY <1>6 DEF ClaimInvoke
  <2> QED BY <1>3, <1>4, <1>6, <2>1
<1>7. CASE SettleInvoke
  <2>1. PICK k \in DOMAIN stages, u \in Tasks, v \in {"completed", "failed"} :
            items[k][u] = "running" /\ items' = [items EXCEPT ![k][u] = v]
      BY <1>7 DEF SettleInvoke
  <2> QED BY <1>3, <1>4, <1>7, <2>1
<1>8. CASE RetryStage
  <2>1. PICK S : items' = [i \in 1..MaxStages |-> [u \in Tasks |->
                     IF i \in S /\ items[i][u] \in Waiting THEN "cancelled" ELSE items[i][u]]]
    <3>1. PICK k \in DOMAIN stages, s \in States, new \in 1..MaxStages : Replaced(k, s, new)
        BY <1>8, RetryFacts
    <3> QED BY <3>1 DEF Replaced
  <2> QED BY <1>8, <2>1
<1>9. CASE CancelRun
    BY <1>9 DEF CancelRun
<1>10. CASE Restart
  <2>1. CASE run.settled
    <3>1. items' = [i \in 1..MaxStages |-> [u \in Tasks |->
                       IF items[i][u] \in Waiting THEN "cancelled" ELSE items[i][u]]]
        BY <1>10, <2>1 DEF Restart, CloseCancelled
    <3> QED BY <2>1, <3>1
  <2>2. CASE ~run.settled /\ RepairRun
    <3>1. items' = [i \in 1..MaxStages |-> [u \in Tasks |->
                       IF items[i][u] = "running" THEN "pending" ELSE items[i][u]]]
        BY <2>2 DEF RepairRun
    <3> QED BY <2>2, <3>1
  <2>3. ~run.settled => RepairRun \/ UNCHANGED items
      BY <1>10 DEF Restart
  <2> QED BY <1>1, <2>1, <2>2, <2>3
<1>11. CASE Requeue
  <2>1. PICK k \in DOMAIN stages, u \in Tasks :
            items[k][u] = "running" /\ items' = [items EXCEPT ![k][u] = "pending"]
      BY <1>11 DEF Requeue
  <2> QED BY <1>3, <1>4, <1>11, <2>1
<1>12. CASE SettleSingle \/ Reevaluate
    BY <1>1, <1>12 DEF SettleSingle, Reevaluate
<1> QED BY <1>1, <1>5, <1>6, <1>7, <1>8, <1>9, <1>10, <1>11, <1>12
        DEF Next, Advance, Command, vars, tables, Claim, Decide, Create, OpenGate,
        RequestApproval, PauseRun, OpenStage, StartRun,
        Provision, PromptFails, CompleteStage, FailStage, CloseRun, Evaluate, SelectMove,
        ReleaseCursor, SelfLoop, MoveRun, WakeRun, RecordConflict, BlockOnConflict, ParkCursor,
        Terminalize, ResolveApproval, RetryRun, ResolveConflict, Finalize

-----------------------------------------------------------------------------
(* The queue is aimed at live attempts                                     *)

(* A targeted entry names a retried stage execution and its state, and no    *)
(* later retry has superseded it: a retry cancels the advances of the state. *)
Sound(e) == e.target # 0 => /\ e.target \in DOMAIN stages /\ e.tag = stages[e.target].state
                            /\ stages[e.target].auth \in {"active", "terminalized"}
QueueInv ==
    /\ queue \in Seq(Entry) /\ \A i \in DOMAIN queue : Sound(queue[i])
    /\ adv.tag \in States \cup {NoState}
    /\ adv.target # 0 => adv.tag = stages[adv.target].state

(* No step but a retry takes an authority away other than by terminalizing it. *)
LEMMA AuthKept ==
    ASSUME LifecycleInv, TaskInv, [Next]_vars, NEW j \in DOMAIN stages,
           stages[j].auth \in {"active", "terminalized"}
    PROVE  \/ stages'[j].auth \in {"active", "terminalized"}
           \/ RetryStage /\ \A k \in DOMAIN stages, s \in States, new \in 1..MaxStages :
                                Replaced(k, s, new) => stages[j].state = s
<1>1. j \in DOMAIN stages'
    BY StagesKept DEF Kin
<1>2. CASE RetryStage
    BY <1>2 DEF Replaced, Of
<1>3. CASE ~RetryStage
    BY <1>1, <1>3, AuthSteps
<1> QED BY <1>2, <1>3

(* QueueInv holds initially, of the one run-scoped advance, ... *)
LEMMA QueueStarts == ASSUME Init PROVE QueueInv
<1>1. RunScoped \in Entry /\ RunScoped.target = 0
    BY DEF RunScoped, Entry
<1>2. queue = <<RunScoped>> /\ adv.tag = NoState /\ adv.target = 0
    BY DEF Init, Idle
<1>3. queue \in Seq(Entry) /\ DOMAIN queue = {1} /\ queue[1] = RunScoped
    BY <1>1, <1>2
<1> QED BY <1>1, <1>2, <1>3 DEF QueueInv, Sound

(* ... and is preserved by every step. *)
LEMMA QueueStep ==
    ASSUME LifecycleInv, TaskInv, QueueInv, [Next]_vars PROVE QueueInv'
<1>0. Kin
    BY StagesKept
<1>1. /\ adv'.tag \in States \cup {NoState}
      /\ adv'.target # 0 => adv'.tag = stages'[adv'.target].state
  <2>1. Aims /\ (adv.target # 0 => adv.target \in DOMAIN stages)
      BY AdvAims DEF LifecycleInv, Shape, AdvType
  <2>2. queue # <<>> => Head(queue) \in Entry /\ Sound(Head(queue))
      BY TailRows DEF QueueInv
  <2>3. queue # <<>> => Head(queue).tag \in States \cup {NoState}
      BY <2>2 DEF Entry
  <2> QED BY <1>0, <2>1, <2>2, <2>3 DEF Aims, Kin, QueueInv, Sound
<1>2. ASSUME NEW e, Sound(e), ~RetryStage PROVE Sound(e)'
    BY <1>0, <1>2, AuthKept DEF Sound, Kin
<1>3. ASSUME queue' \in Seq(Entry), ~RetryStage,
             \A i \in DOMAIN queue' : queue'[i].target = 0 \/ Sound(queue'[i])
      PROVE  QueueInv'
  <2>1. ASSUME NEW i \in DOMAIN queue' PROVE Sound(queue[i])'
    <3>1. PICK e : e = queue'[i]
        OBVIOUS
    <3>2. Sound(e)'
        BY <1>2, <1>3, <3>1 DEF Sound
    <3> QED BY <3>1, <3>2 DEF Sound
  <2> QED BY <1>1, <1>3, <2>1 DEF QueueInv
<1>4. ASSUME NEW e \in Entry, e.target = 0 \/ Sound(e), queue' = Append(queue, e), ~RetryStage
      PROVE  QueueInv'
  <2>1. /\ queue' \in Seq(Entry)
        /\ \A i \in DOMAIN queue' : i \in DOMAIN queue \/ queue'[i] = e
        /\ \A i \in DOMAIN queue : queue'[i] = queue[i]
      BY <1>4, AppendRows DEF QueueInv
  <2> QED BY <1>3, <1>4, <2>1 DEF QueueInv
<1>5. RunScoped \in Entry /\ RunScoped.target = 0
    BY DEF RunScoped, Entry
<1>a. CASE RetryStage
  <2>1. PICK k \in DOMAIN stages, s \in States, new \in 1..MaxStages : Replaced(k, s, new)
      BY <1>a, RetryFacts
  <2>2. /\ queue' = Redirected(s, new) /\ new \in Nat /\ new # 0
        /\ new \in DOMAIN stages' /\ stages'[new].state = s /\ stages'[new].auth = "active"
      BY <2>1 DEF Replaced
  <2>3. queue' \in Seq(Entry)
      BY <2>2, RedirectedRows DEF QueueInv
  <2>4. PICK n \in DOMAIN queue' :
            /\ queue'[n] = [target |-> new, tag |-> s]
            /\ \A i \in DOMAIN queue' : i # n =>
                  \E j \in DOMAIN queue : queue'[i] = queue[j] /\ queue[j].tag # s
      BY <2>2, RedirectedRows DEF QueueInv
  <2>5. ASSUME NEW i \in DOMAIN queue', i # n PROVE Sound(queue[i])'
    <3>1. PICK j \in DOMAIN queue : queue'[i] = queue[j] /\ queue[j].tag # s
        BY <2>4, <2>5
    <3>2. CASE queue[j].target = 0
        BY <3>1, <3>2 DEF Sound
    <3>3. CASE queue[j].target # 0
      <4>1. PICK x \in DOMAIN stages : x = queue[j].target
          BY <3>3 DEF QueueInv, Sound
      <4>2. stages[x].auth \in {"active", "terminalized"} /\ stages[x].state # s
            /\ queue[j].tag = stages[x].state
          BY <3>1, <3>3, <4>1 DEF QueueInv, Sound
      <4>3. stages'[x].auth \in {"active", "terminalized"}
          BY <2>1, <4>2, AuthKept
      <4> QED BY <1>0, <3>1, <4>1, <4>2, <4>3 DEF Sound, Kin
    <3> QED BY <3>2, <3>3
  <2>6. Sound(queue[n])'
      BY <2>2, <2>4 DEF Sound
  <2> QED BY <1>1, <2>3, <2>5, <2>6 DEF QueueInv
<1>b. CASE ~RetryStage /\ UNCHANGED queue
    BY <1>3, <1>b DEF QueueInv
<1>c. CASE ~RetryStage /\ Claim
  <2>1. queue # <<>> /\ queue' = Tail(queue)
      BY <1>c DEF Claim
  <2>2. queue' \in Seq(Entry) /\ \A i \in DOMAIN queue' : i + 1 \in DOMAIN queue /\ queue'[i] = queue[i + 1]
      BY <2>1, TailRows DEF QueueInv
  <2> QED BY <1>3, <1>c, <2>2 DEF QueueInv
<1>d. CASE ~RetryStage /\ (WakeRun \/ RetryRun \/ Reevaluate)
    BY <1>4, <1>5, <1>d DEF WakeRun, RetryRun, Reevaluate
<1>e. CASE ~RetryStage /\ SettleInvoke
  <2>1. PICK k \in DOMAIN stages :
            queue' = IF stages[k].auth = "active" THEN Enqueued(k, stages[k].state)
                                                  ELSE Append(queue, RunScoped)
      BY <1>e DEF SettleInvoke
  <2>2. CASE stages[k].auth = "active"
    <3>1. PICK e : e = [target |-> k, tag |-> stages[k].state]
        OBVIOUS
    <3>2. k \in Nat /\ stages[k].state \in States
        BY StageFacts DEF LifecycleInv
    <3>3. e \in Entry /\ Sound(e) /\ queue' = Append(queue, e)
        BY <2>1, <2>2, <3>1, <3>2 DEF Entry, Sound, Enqueued
    <3> QED BY <1>4, <1>e, <3>3
  <2>3. CASE stages[k].auth # "active"
      BY <1>4, <1>5, <1>e, <2>1, <2>3
  <2> QED BY <2>2, <2>3
<1>f. CASE ~RetryStage /\ ResolveApproval
  <2>1. UNCHANGED queue \/ queue' = Append(queue, RunScoped)
      BY <1>f, ApprovalMarks
  <2> QED BY <1>4, <1>5, <1>b, <1>f, <2>1
<1>g. CASE ~RetryStage /\ ResolveConflict
  <2>1. PICK s \in States : queue' = Append(queue, [target |-> 0, tag |-> s])
      BY <1>g, ConflictJoins
  <2>2. PICK e : e = [target |-> 0, tag |-> s]
      OBVIOUS
  <2>3. e \in Entry /\ e.target = 0
      BY <2>2 DEF Entry
  <2> QED BY <1>4, <1>g, <2>1, <2>2, <2>3
<1>h. CASE ~RetryStage /\ Restart
  <2>1. CASE CloseCancelled
    <3>1. queue' = <<>>
        BY <2>1 DEF CloseCancelled
    <3>2. queue' \in Seq(Entry) /\ DOMAIN queue' = {}
        BY <3>1
    <3> QED BY <1>1, <3>2 DEF QueueInv
  <2>2. CASE RepairRun
    <3>1. Repaired
        BY <2>2, RepairQueue DEF QueueInv
    <3>2. adv.target # 0 => adv.target \in DOMAIN stages
        BY DEF LifecycleInv, Shape, AdvType
    <3>3. stages[adv.target].auth = "active" => InHand.target = 0 \/ Sound(InHand)
        BY <3>2 DEF InHand, Sound, QueueInv
    <3>4. \A i \in DOMAIN queue' : queue'[i].target = 0 \/ Sound(queue'[i])
        BY <3>1, <3>3 DEF Repaired, QueueInv
    <3> QED BY <1>3, <1>h, <3>1, <3>4 DEF Repaired
  <2> QED BY <1>b, <1>h, <2>1, <2>2 DEF Restart
<1> QED BY <1>a, <1>b, <1>c, <1>d, <1>e, <1>f, <1>g, <1>h, QueueKinds, UnqueuedFacts

-----------------------------------------------------------------------------
(* Types                                                                   *)

Approval == [state : States, decision : {"requested", "granted", "rejected", "expired"}]

(* What the arguments about stage executions and the queue did not read. *)
RestType ==
    /\ approvals \in Seq(Approval) /\ parked \in BOOLEAN /\ finalizer \in BOOLEAN
    /\ adv.spent \in SUBSET States
    /\ commands \in 0..MaxCommands /\ restarts \in 0..MaxRestarts

(* Expiring approvals keeps them approvals. *)
LEMMA ExpiredType ==
    ASSUME NEW q \in Seq(Approval) PROVE Expired(q) \in Seq(Approval)
<1>1. Len(q) \in Nat /\ DOMAIN q = 1..Len(q)
    BY LenProperties
<1>2. ASSUME NEW a \in DOMAIN q
      PROVE  (IF q[a].decision = "requested" THEN [q[a] EXCEPT !.decision = "expired"]
              ELSE q[a]) \in Approval
  <2>1. q[a] \in Approval
      BY <1>1, ElementOfSeq
  <2> QED BY <2>1 DEF Approval
<1>3. Expired(q) \in [1..Len(q) -> Approval]
    BY <1>1, <1>2 DEF Expired
<1> QED BY <1>1, <1>3, SeqDef

(* RestType holds initially. *)
LEMMA RestStarts == ASSUME Init PROVE RestType
<1>1. commands \in 0..MaxCommands /\ restarts \in 0..MaxRestarts
    BY RunLifecycleAssumption DEF Init
<1>2. approvals \in Seq(Approval) /\ parked \in BOOLEAN /\ finalizer \in BOOLEAN
    BY EmptySeq DEF Init
<1>3. adv.spent \in SUBSET States
    BY DEF Init, Idle
<1> QED BY <1>1, <1>2, <1>3 DEF RestType

(* Every step keeps the approvals well typed. *)
LEMMA ApprovalsType ==
    ASSUME LifecycleInv, RestType, [Next]_vars PROVE approvals' \in Seq(Approval)
<1>1. CASE UNCHANGED approvals
    BY <1>1 DEF RestType
<1>2. CASE RequestApproval
  <2>1. PICK r \in Approval : approvals' = Append(approvals, r)
      BY <1>2 DEF RequestApproval, Approval, LifecycleInv, Shape, AdvType
  <2> QED BY <2>1 DEF RestType
<1>3. CASE ResolveApproval
  <2>1. PICK a \in DOMAIN approvals, d \in {"granted", "rejected"} :
            approvals' = [approvals EXCEPT ![a].decision = d]
      BY <1>3, ApprovalMarks
  <2>2. PICK r : r = [approvals[a] EXCEPT !.decision = d]
      OBVIOUS
  <2>3. approvals[a] \in Approval
      BY DEF RestType
  <2>4. r \in Approval
      BY <2>2, <2>3 DEF Approval
  <2>5. approvals' = [approvals EXCEPT ![a] = r]
      BY <2>1, <2>2
  <2> QED BY <2>4, <2>5 DEF RestType
<1>4. CASE CancelRun \/ CloseCancelled
    BY <1>4, ExpiredType DEF CancelRun, CloseCancelled, RestType
<1>5. Restart => CloseCancelled \/ UNCHANGED approvals
    BY DEF Restart, RepairRun
<1>6. CASE RetryStage
    BY <1>1, <1>6 DEF RetryStage
<1> QED BY <1>1, <1>2, <1>3, <1>4, <1>5, <1>6 DEF Next, Advance, Command, vars, tables, Claim,
        Decide, Create, OpenGate, PauseRun, OpenStage, StartRun, Provision, EnqueueTask,
        PromptFails, CompleteStage, FailStage, CloseRun, Evaluate, SelectMove, ReleaseCursor,
        SelfLoop, MoveRun, WakeRun, RecordConflict, BlockOnConflict, ParkCursor, Terminalize,
        ClaimInvoke, SettleSingle, Reevaluate, Requeue, SettleInvoke, RetryRun, ResolveConflict,
        Finalize

(* Every step preserves RestType. *)
LEMMA RestStep ==
    ASSUME LifecycleInv, RestType, [Next]_vars PROVE RestType'
<1>1. adv'.spent \in SUBSET States
  <2>1. Exhausted \in SUBSET States
      BY RunLifecycleAssumption DEF Exhausted
  <2> QED BY <2>1, AdvAims DEF RestType
<1>2. CASE Advance \/ Tasking \/ UNCHANGED vars
  <2>1. UNCHANGED <<finalizer, commands, restarts>> /\ (UNCHANGED parked \/ parked' \in BOOLEAN)
      BY <1>2, TaskingFacts DEF vars, Advance, rest, tables, Claim, Decide, Create, OpenGate,
         RequestApproval, PauseRun, OpenStage, StartRun, Provision, EnqueueTask, PromptFails, CompleteStage,
         FailStage, CloseRun, Evaluate, SelectMove, ReleaseCursor, SelfLoop, MoveRun, WakeRun,
         RecordConflict, BlockOnConflict, ParkCursor, Terminalize
  <2> QED BY <1>1, <2>1, ApprovalsType DEF RestType
<1>3. CASE \/ ResolveApproval \/ RetryStage \/ RetryRun \/ ResolveConflict \/ CancelRun
           \/ Finalize \/ Restart
  <2>1. /\ Commanded \/ UNCHANGED commands
        /\ UNCHANGED restarts \/ (restarts < MaxRestarts /\ restarts' = restarts + 1)
      BY <1>3 DEF ResolveApproval, RetryStage, RetryRun, ResolveConflict, CancelRun, Finalize,
         Restart
  <2>2. parked' \in {parked, FALSE} /\ finalizer' \in {finalizer, TRUE, FALSE}
    <3>1. CASE ResolveApproval
        BY <3>1, ApprovalRuns
    <3>2. CASE ~ResolveApproval
        BY <1>3, <3>2, Zenon DEF RetryStage, RetryRun, ResolveConflict, CancelRun, Finalize, Restart
    <3> QED BY <3>1, <3>2
  <2>3. parked' \in BOOLEAN /\ finalizer' \in BOOLEAN
      BY <2>2, Zenon DEF RestType
  <2>4. commands' \in 0..MaxCommands /\ restarts' \in 0..MaxRestarts
      BY <2>1, RunLifecycleAssumption DEF RestType, Commanded
  <2> QED BY <1>1, <2>3, <2>4, ApprovalsType DEF RestType
<1> QED BY <1>2, <1>3 DEF Next, Command, Tasking

(* The type invariant is part of what the three invariants say together. *)
LEMMA TypesFollow == ASSUME LifecycleInv, TaskInv, QueueInv, RestType PROVE TypeOK
<1>1. queue \in Seq([target : 0..Len(stages), tag : States \cup {NoState}])
  <2>1. Len(queue) \in Nat /\ DOMAIN queue = 1..Len(queue) /\ queue = [i \in 1..Len(queue) |-> queue[i]]
      BY DEF QueueInv
  <2>2. ASSUME NEW i \in 1..Len(queue)
        PROVE  queue[i] \in [target : 0..Len(stages), tag : States \cup {NoState}]
    <3>1. queue[i] \in Entry /\ Sound(queue[i])
        BY <2>1 DEF QueueInv
    <3>2. Len(stages) \in Nat /\ DOMAIN stages = 1..Len(stages)
        BY DEF LifecycleInv, Shape
    <3>3. queue[i].target \in 0..Len(stages)
        BY <3>1, <3>2 DEF Entry, Sound
    <3> QED BY <3>1, <3>3 DEF Entry
  <2>3. queue \in [1..Len(queue) -> [target : 0..Len(stages), tag : States \cup {NoState}]]
      BY <2>1, <2>2
  <2> QED BY <2>1, <2>3, SeqDef
<1>2. adv \in [pc : Steps, target : 0..Len(stages), tag : States \cup {NoState},
                live : BOOLEAN, was : RunStatus, at : States, stage : 0..Len(stages),
                todo : SUBSET Tasks, spent : SUBSET States,
                next : States \cup {NoState}, targets : SUBSET States]
    BY DEF LifecycleInv, Shape, AdvType, QueueInv, RestType
<1> QED BY <1>1, <1>2 DEF TypeOK, LifecycleInv, TaskInv, Shape, RestType, Approval, ItemStatus

-----------------------------------------------------------------------------
(* A completed run is final                                                *)

(* Only a cancellation leaves a finalizer, a settled or a cancelling run. *)
RequestInv == finalizer \/ run.settled \/ run.status = "cancelling" => run.requested

(* No advance is in the middle of its writes when the run is completed. *)
ClosedInv == run.status = "completed" /\ ~run.requested => adv.pc \in {"idle", "finish"}

(* What a step does to the run: the request for a cancellation stays. *)
LEMMA RunKept ==
    ASSUME LifecycleInv, [Next]_vars
    PROVE  /\ run.requested => run'.requested
           /\ run'.requested /\ ~run.requested => CancelRun
<1>1. run \in [status : RunStatus, state : States, requested : BOOLEAN, settled : BOOLEAN]
    BY DEF LifecycleInv, Shape
<1>2. CASE \/ UNCHANGED run \/ (\E st : run' = [run EXCEPT !.status = st])
           \/ (\E st, s : run' = [run EXCEPT !.status = st, !.state = s])
           \/ (\E s : run' = [run EXCEPT !.state = s])
           \/ run' = [run EXCEPT !.status = "cancelled", !.settled = TRUE]
    BY <1>1, <1>2
<1>3. CASE CancelRun
    BY <1>1, <1>3 DEF CancelRun
<1>4. CASE RetryStage
  <2>1. \E s : run' = [run EXCEPT !.status = "running", !.state = s]
      BY <1>4, RetryFacts DEF Replaced
  <2> QED BY <1>1, <2>1
<1>5. CASE Restart
    BY <1>2, <1>5 DEF Restart, CloseCancelled, RepairRun
<1>6. CASE Advance
    BY <1>2, <1>6 DEF Advance, tables, Claim, Decide, Create, OpenGate, RequestApproval,
       PauseRun, OpenStage, StartRun, Provision, EnqueueTask, PromptFails, CompleteStage,
       FailStage, CloseRun, Evaluate, SelectMove, ReleaseCursor, SelfLoop, MoveRun, WakeRun,
       RecordConflict, BlockOnConflict, ParkCursor, Terminalize, SetRun
<1>7. CASE ResolveApproval \/ Tasking
    BY <1>2, <1>7, ApprovalRuns, TaskingFacts
<1> QED BY <1>2, <1>3, <1>4, <1>5, <1>6, <1>7 DEF Next, Command, Tasking, RetryRun,
        ResolveConflict, Finalize, vars, tables

(* What an advance writes into the run. *)
LEMMA AdvanceRuns ==
    ASSUME Advance
    PROVE  /\ UNCHANGED <<finalizer, restarts>>
           /\ \/ UNCHANGED run
              \/ /\ adv.pc \notin {"idle", "decide", "finish", "complete_run"}
                 /\ \E st \in {"waiting_approval", "running", "blocked"} :
                       run' = [run EXCEPT !.status = st]
              \/ /\ adv.pc = "complete_run" /\ Finish
                 /\ run' = [run EXCEPT !.status = "completed"]
              \/ adv.pc = "move" /\ run' = [run EXCEPT !.state = adv.next]
<1>1. CASE UNCHANGED run /\ UNCHANGED <<finalizer, restarts>>
    BY <1>1
<1>2. CASE PauseRun \/ StartRun \/ Provision \/ PromptFails \/ BlockOnConflict
    BY <1>2 DEF PauseRun, StartRun, Provision, PromptFails, BlockOnConflict, SetRun, rest, Step
<1>3. CASE CloseRun \/ MoveRun
    BY <1>3 DEF CloseRun, MoveRun, SetRun, rest, Step
<1> QED BY <1>1, <1>2, <1>3 DEF Advance, rest, tables, Claim, Decide, Create, OpenGate,
        RequestApproval, OpenStage, EnqueueTask, CompleteStage, FailStage, Evaluate,
        SelectMove, ReleaseCursor, SelfLoop, WakeRun, RecordConflict, ParkCursor, Terminalize

(* Every step preserves RequestInv. *)
LEMMA RequestStep ==
    ASSUME LifecycleInv, RequestInv, [Next]_vars PROVE RequestInv'
<1>1. run \in [status : RunStatus, state : States, requested : BOOLEAN, settled : BOOLEAN]
    BY DEF LifecycleInv, Shape
<1>2. run.requested => run'.requested
    BY RunKept
<1> SUFFICES ASSUME ~run.requested, ~run'.requested
             PROVE  ~finalizer' /\ ~run'.settled /\ run'.status # "cancelling"
    BY <1>2 DEF RequestInv
<1>3. ~finalizer /\ ~run.settled /\ run.status # "cancelling"
    BY DEF RequestInv
<1>4. CASE UNCHANGED <<run, finalizer>>
    BY <1>3, <1>4
<1>5. CASE CancelRun
    BY <1>1, <1>5 DEF CancelRun
<1>6. CASE RetryStage
  <2>1. UNCHANGED finalizer
      BY <1>6 DEF RetryStage
  <2>2. \E s : run' = [run EXCEPT !.status = "running", !.state = s]
      BY <1>6, RetryFacts DEF Replaced
  <2> QED BY <1>1, <1>3, <2>1, <2>2
<1>7. CASE Restart
  <2>1. ~finalizer' /\ UNCHANGED run
      BY <1>3, <1>7 DEF Restart, RepairRun
  <2> QED BY <1>3, <2>1
<1>8. CASE Advance
    BY <1>1, <1>3, <1>8, AdvanceRuns
<1>9. CASE Tasking \/ RetryRun \/ UNCHANGED vars
    BY <1>4, <1>9, TaskingFacts DEF RetryRun, rest, vars, tables
<1>10. CASE ResolveConflict
  <2>1. UNCHANGED finalizer /\ \E s : run' = [run EXCEPT !.status = "running", !.state = s]
      BY <1>10 DEF ResolveConflict
  <2> QED BY <1>1, <1>3, <2>1
<1>11. CASE Finalize
    BY <1>3, <1>11 DEF Finalize
<1>12. CASE ResolveApproval
  <2>1. UNCHANGED finalizer
      BY <1>12, ApprovalRuns
  <2>2. UNCHANGED run \/ \E s : run' = [run EXCEPT !.status = "running", !.state = s]
      BY <1>12, ApprovalRuns
  <2> QED BY <1>1, <1>3, <2>1, <2>2
<1> QED BY <1>5, <1>6, <1>7, <1>8, <1>9, <1>10, <1>11, <1>12 DEF Next, Command, Tasking

(* Every step preserves ClosedInv. *)
LEMMA ClosedStep ==
    ASSUME LifecycleInv, RequestInv, ClosedInv, [Next]_vars PROVE ClosedInv'
<1>1. run \in [status : RunStatus, state : States, requested : BOOLEAN, settled : BOOLEAN]
    BY DEF LifecycleInv, Shape
<1> SUFFICES ASSUME run'.status = "completed", ~run'.requested
             PROVE  adv'.pc \in {"idle", "finish"}
    BY DEF ClosedInv
<1>2. ~run.requested /\ ~CancelRun
  <2>1. CancelRun => run'.requested
      BY <1>1 DEF CancelRun
  <2> QED BY <2>1, RunKept
<1>3. ~finalizer /\ ~run.settled /\ run.status # "cancelling"
    BY <1>2 DEF RequestInv
<1>4. CASE Finish
    BY <1>4 DEF Finish, Idle
<1>5. ASSUME run.status = "completed" PROVE adv.pc \in {"idle", "finish"}
    BY <1>2, <1>5 DEF ClosedInv
<1>6. CASE Claim \/ Terminalize
  <2>1. Terminalize => adv'.pc = "idle"
      BY DEF Terminalize, Idle
  <2>2. Claim => UNCHANGED run
      BY DEF Claim
  <2>3. Claim /\ run.status = "completed" => UNCHANGED adv
      BY DEF Claim, Closed
  <2> QED BY <1>5, <1>6, <2>1, <2>2, <2>3
<1>7. CASE Advance /\ ~Claim /\ ~Terminalize
  <2>1. adv.pc \notin {"idle", "finish"}
      BY <1>7 DEF Advance, Decide, WaitOn, FanOut, SettleStage, Reconsider, StageStopped,
         ReopenGate, Enter, At, Create, OpenGate, RequestApproval,
         PauseRun, OpenStage, StartRun, Provision, EnqueueTask, PromptFails, CompleteStage,
         FailStage, CloseRun, Evaluate, SelectMove, ReleaseCursor, SelfLoop, MoveRun, WakeRun,
         RecordConflict, BlockOnConflict, ParkCursor, Step
  <2>2. run.status # "completed"
      BY <1>5, <2>1
  <2> QED BY <1>1, <1>4, <1>7, <2>2, AdvanceRuns
<1>8. CASE RetryStage \/ ResolveConflict
  <2>1. \E s : run' = [run EXCEPT !.status = "running", !.state = s]
      BY <1>8, RetryFacts DEF Replaced, ResolveConflict
  <2> QED BY <1>1, <2>1
<1>9. CASE Restart
    BY <1>9 DEF Restart, Idle
<1>10. CASE Tasking \/ RetryRun \/ Finalize \/ UNCHANGED vars
  <2>1. UNCHANGED adv /\ UNCHANGED run
      BY <1>3, <1>10, TaskingFacts DEF RetryRun, Finalize, vars, tables
  <2> QED BY <1>5, <2>1
<1>11. CASE ResolveApproval
  <2>1. UNCHANGED adv
      BY <1>11, Zenon DEF ResolveApproval
  <2> QED BY <1>1, <1>5, <1>11, <2>1, ApprovalRuns
<1> QED BY <1>2, <1>6, <1>7, <1>8, <1>9, <1>10, <1>11 DEF Next, Command, Tasking

(* What the invariant says of a step. *)
LEMMA CompletedStays ==
    ASSUME LifecycleInv, RestType, RequestInv, ClosedInv, [Next]_vars,
           run.status = "completed", ~run.requested, conflict.state # run.state,
           \A s \in DOMAIN Rework : ~Decided(s, "requested")
    PROVE  run' = run
<1>1. ~finalizer /\ ~run.settled /\ adv.pc \in {"idle", "finish"}
    BY DEF RequestInv, ClosedInv
<1>2. CASE Advance
    BY <1>1, <1>2, AdvanceRuns
<1>3. ~RetryStage /\ ~RetryRun /\ ~CancelRun
    BY DEF RetryStage, RetryRun, CancelRun, Retriable, Closed
<1>4. ~ResolveConflict
    BY DEF ResolveConflict
<1>5. CASE Restart
    BY <1>1, <1>5 DEF Restart, RepairRun, Closed
<1>6. CASE Tasking \/ Finalize \/ UNCHANGED vars
    BY <1>1, <1>6, TaskingFacts DEF Finalize, vars, tables
<1>7. CASE ResolveApproval
  <2>1. ASSUME NEW a \in DOMAIN approvals, approvals[a].decision = "requested"
        PROVE  approvals[a].state \notin DOMAIN Rework
    <3>1. approvals[a] \in Approval
        BY ElementOfSeq, LenProperties DEF RestType
    <3>2. approvals[a] = [state |-> approvals[a].state, decision |-> "requested"]
        BY <2>1, <3>1 DEF Approval
    <3> QED BY <3>2 DEF Decided
  <2> QED BY <1>7, <2>1, ApprovalRuns
<1> QED BY <1>2, <1>3, <1>4, <1>5, <1>6, <1>7 DEF Next, Command, Tasking

-----------------------------------------------------------------------------
(* From which step to which an advance goes                                *)

Onward == /\ adv'.at = adv.at /\ adv'.target = adv.target /\ adv'.was = adv.was
          /\ adv'.pc \notin {"idle", "finish", "decide"}

(* What the operators that set adv do to its fields. *)
LEMMA Goes ==
    ASSUME LifecycleInv
    PROVE  /\ \A pc \in Steps : adv' = [adv EXCEPT !.pc = pc] =>
                 /\ adv'.pc = pc /\ adv'.at = adv.at /\ adv'.target = adv.target
                 /\ adv'.was = adv.was /\ adv'.stage = adv.stage /\ adv'.spent = adv.spent
                 /\ adv'.next = adv.next
           /\ \A pc \in Steps : \A k, todo : Do(pc, k, todo) =>
                 /\ adv'.pc = pc /\ adv'.at = adv.at /\ adv'.target = adv.target
                 /\ adv'.was = adv.was /\ adv'.stage = k /\ adv'.spent = Exhausted
           /\ Finish => adv'.pc \in {"idle", "finish"} /\ adv'.target = adv.target
<1>1. adv \in AdvType
    BY DEF LifecycleInv, Shape
<1>2. \A pc \in Steps : adv' = [adv EXCEPT !.pc = pc] =>
          /\ adv'.pc = pc /\ adv'.at = adv.at /\ adv'.target = adv.target
          /\ adv'.was = adv.was /\ adv'.stage = adv.stage /\ adv'.spent = adv.spent
          /\ adv'.next = adv.next
    BY <1>1 DEF AdvType
<1>3. \A pc \in Steps : \A k, todo : Do(pc, k, todo) =>
          /\ adv'.pc = pc /\ adv'.at = adv.at /\ adv'.target = adv.target
          /\ adv'.was = adv.was /\ adv'.stage = k /\ adv'.spent = Exhausted
    BY <1>1 DEF AdvType, Do
<1>4. Finish => adv'.pc \in {"idle", "finish"} /\ adv'.target = adv.target
    BY DEF Finish, Idle
<1> QED BY <1>2, <1>3, <1>4

(* Where a decision may lead. *)
LEMMA DecideGoes ==
    ASSUME LifecycleInv, Decide
    PROVE  /\ adv.pc = "decide"
           /\ \/ adv'.pc \in {"idle", "finish"} /\ Finish
              \/ /\ Onward /\ adv'.spent = Exhausted
                 /\ \/ adv'.pc \in {"enqueue", "evaluate", "complete_run", "block", "open", "create"}
                    \/ adv'.pc = "gate" /\ adv.at \in Gates
                    \/ /\ SettleStage /\ adv'.stage = Current
                       /\ adv'.pc = IF HasFailed(Current) THEN "fail_stage" ELSE "complete_stage"
<1>1. \A pc \in {"enqueue", "evaluate", "complete_run", "block", "open", "create", "gate",
                 "fail_stage", "complete_stage"} : \A k, todo :
          Do(pc, k, todo) => /\ Onward /\ adv'.spent = Exhausted
                             /\ adv'.pc = pc /\ adv'.stage = k
    BY Goes DEF Onward, Steps
<1>2. Finish => adv'.pc \in {"idle", "finish"}
    BY Goes
<1>3. adv.pc = "decide"
    BY DEF Decide, WaitOn, FanOut, SettleStage, Reconsider, StageStopped, ReopenGate, Enter, At
<1>4. CASE WaitOn
    BY <1>2, <1>3, <1>4 DEF WaitOn
<1>5. CASE FanOut
    BY <1>1, <1>3, <1>5 DEF FanOut
<1>6. CASE SettleStage
    BY <1>1, <1>3, <1>6 DEF SettleStage
<1>7. CASE Reconsider
    BY <1>1, <1>3, <1>7 DEF Reconsider
<1>8. CASE StageStopped
    BY <1>1, <1>2, <1>3, <1>8 DEF StageStopped
<1>9. CASE ReopenGate
    BY <1>1, <1>3, <1>9 DEF ReopenGate
<1>10. CASE Enter
    BY <1>1, <1>3, <1>10 DEF Enter
<1> QED BY <1>4, <1>5, <1>6, <1>7, <1>8, <1>9, <1>10 DEF Decide

(* The steps after which an advance is over, and those that write on. *)
Ending == PauseRun \/ PromptFails \/ CloseRun \/ WakeRun \/ ParkCursor
Writing == OpenGate \/ RequestApproval \/ OpenStage \/ StartRun \/ FailStage \/ SelectMove
              \/ ReleaseCursor \/ SelfLoop \/ MoveRun \/ RecordConflict \/ BlockOnConflict
              \/ CompleteStage

(* The steps of an advance, by the way they change adv. *)
LEMMA AdvanceKinds ==
    ASSUME Advance
    PROVE  \/ Claim \/ Terminalize \/ Decide \/ Create \/ Provision \/ EnqueueTask \/ Evaluate
           \/ Ending \/ Writing
BY DEF Advance, Ending, Writing

(* The last write of an advance leaves it idle or looking at its authority. *)
LEMMA EndingGoes ==
    ASSUME LifecycleInv, Ending
    PROVE  /\ Finish /\ adv'.pc \in {"idle", "finish"} /\ adv'.target = adv.target
           /\ adv.pc \in {"pause", "enqueue", "block", "complete_run", "wake", "conflict_park"}
BY Goes DEF Ending, PauseRun, PromptFails, CloseRun, WakeRun, ParkCursor

(* A write in the middle of an advance leads to the next one. *)
LEMMA WritingGoes ==
    ASSUME LifecycleInv, Writing
    PROVE  /\ Onward /\ adv'.stage = adv.stage /\ adv'.spent = adv.spent /\ adv'.next = adv.next
           /\ OpenGate => adv.pc = "gate" /\ adv'.pc = "request"
           /\ RequestApproval => adv.pc = "request" /\ adv'.pc = "pause"
           /\ OpenStage => adv.pc = "open" /\ adv'.pc = "start"
           /\ StartRun => adv.pc = "start" /\ adv'.pc = "provision"
           /\ FailStage => adv.pc = "fail_stage" /\ adv'.pc = "block"
           /\ SelectMove => adv.pc = "select" /\ adv'.pc = "cursor"
           /\ ReleaseCursor => adv.pc = "cursor" /\ adv'.pc \in {"again", "move"}
           /\ SelfLoop => adv.pc = "again" /\ adv'.pc = "move"
           /\ MoveRun => adv.pc = "move" /\ adv'.pc = "wake"
           /\ RecordConflict => adv.pc = "conflict" /\ adv'.pc = "conflict_block"
           /\ BlockOnConflict => adv.pc = "conflict_block" /\ adv'.pc = "conflict_park"
           /\ CompleteStage => /\ adv.pc \in {"complete_stage", "end_stage"}
                               /\ adv'.pc \in {"complete_run", "evaluate"}
<1>1. \A pc \in Steps : adv' = [adv EXCEPT !.pc = pc] =>
          /\ adv'.pc = pc /\ adv'.at = adv.at /\ adv'.target = adv.target /\ adv'.was = adv.was
          /\ adv'.stage = adv.stage /\ adv'.spent = adv.spent /\ adv'.next = adv.next
    BY Goes
<1>2. \E pc \in Steps \ {"idle", "finish", "decide"} : adv' = [adv EXCEPT !.pc = pc]
    BY DEF Writing, Steps, OpenGate, RequestApproval, OpenStage, StartRun, FailStage, SelectMove,
       ReleaseCursor, SelfLoop, MoveRun, RecordConflict, BlockOnConflict, CompleteStage, Step
<1>3. Onward /\ adv'.stage = adv.stage /\ adv'.spent = adv.spent /\ adv'.next = adv.next
    BY <1>1, <1>2 DEF Onward
<1>4. /\ OpenGate => adv.pc = "gate" /\ adv'.pc = "request"
      /\ RequestApproval => adv.pc = "request" /\ adv'.pc = "pause"
      /\ OpenStage => adv.pc = "open" /\ adv'.pc = "start"
      /\ StartRun => adv.pc = "start" /\ adv'.pc = "provision"
    BY <1>1 DEF OpenGate, RequestApproval, OpenStage, StartRun, Step, Steps
<1>5. /\ FailStage => adv.pc = "fail_stage" /\ adv'.pc = "block"
      /\ SelectMove => adv.pc = "select" /\ adv'.pc = "cursor"
      /\ ReleaseCursor => adv.pc = "cursor" /\ adv'.pc \in {"again", "move"}
      /\ SelfLoop => adv.pc = "again" /\ adv'.pc = "move"
    BY <1>1 DEF FailStage, SelectMove, ReleaseCursor, SelfLoop, Step, Steps
<1>6. /\ MoveRun => adv.pc = "move" /\ adv'.pc = "wake"
      /\ RecordConflict => adv.pc = "conflict" /\ adv'.pc = "conflict_block"
      /\ BlockOnConflict => adv.pc = "conflict_block" /\ adv'.pc = "conflict_park"
      /\ CompleteStage => /\ adv.pc \in {"complete_stage", "end_stage"}
                          /\ adv'.pc \in {"complete_run", "evaluate"}
    BY <1>1 DEF MoveRun, RecordConflict, BlockOnConflict, CompleteStage, Step, Steps
<1> QED BY <1>3, <1>4, <1>5, <1>6

(* The other steps of an advance. *)
LEMMA OtherGoes ==
    ASSUME LifecycleInv
    PROVE  /\ Claim => adv.pc = "idle" /\ adv'.pc \in {"idle", "decide"}
           /\ Terminalize => adv.pc = "finish" /\ adv'.pc = "idle"
           /\ Create => /\ adv.pc = "create" /\ Onward /\ adv'.spent = adv.spent
                        /\ adv'.pc \in {"end_stage", "gate", "open"}
                        /\ adv'.pc = "gate" => adv.at \in Gates
           /\ Provision => /\ adv.pc = "provision"
                           /\ (Onward /\ adv'.pc = "enqueue") \/ (Finish /\ adv'.pc \in {"idle", "finish"})
           /\ EnqueueTask => /\ adv.pc = "enqueue"
                             /\ (Onward /\ adv'.pc = "enqueue") \/ (Finish /\ adv'.pc \in {"idle", "finish"})
           /\ Evaluate => /\ adv.pc = "evaluate" /\ Onward /\ adv'.spent = adv.spent
                          /\ adv'.pc \in {"complete_run", "select", "conflict"}
                          /\ adv'.pc = "select" => adv'.next \notin adv.spent
<1>0. /\ adv \in AdvType /\ Shape /\ (Finish => adv'.pc \in {"idle", "finish"})
    BY Goes DEF LifecycleInv, Shape
<1>1. Claim => adv.pc = "idle" /\ adv'.pc \in {"idle", "decide"}
    BY DEF Claim, Idle
<1>2. Terminalize => adv.pc = "finish" /\ adv'.pc = "idle"
    BY DEF Terminalize, Idle
<1>3. Create => /\ adv.pc = "create" /\ Onward /\ adv'.spent = adv.spent
                /\ adv'.pc \in {"end_stage", "gate", "open"}
                /\ adv'.pc = "gate" => adv.at \in Gates
    BY <1>0 DEF Create, Onward, AdvType
<1>4. Provision => /\ adv.pc = "provision"
                   /\ (Onward /\ adv'.pc = "enqueue") \/ (Finish /\ adv'.pc \in {"idle", "finish"})
    BY <1>0 DEF Provision, Onward, AdvType
<1>5. EnqueueTask => /\ adv.pc = "enqueue"
                     /\ (Onward /\ adv'.pc = "enqueue") \/ (Finish /\ adv'.pc \in {"idle", "finish"})
    BY <1>0 DEF EnqueueTask, Onward, AdvType
<1>6. Evaluate => /\ adv.pc = "evaluate" /\ Onward /\ adv'.spent = adv.spent
                  /\ adv'.pc \in {"complete_run", "select", "conflict"}
                  /\ adv'.pc = "select" => adv'.next \notin adv.spent
  <2> SUFFICES ASSUME Evaluate
               PROVE  /\ adv.pc = "evaluate" /\ Onward /\ adv'.spent = adv.spent
                      /\ adv'.pc \in {"complete_run", "select", "conflict"}
                      /\ adv'.pc = "select" => adv'.next \notin adv.spent
      OBVIOUS
  <2>1. adv.pc = "evaluate"
      BY DEF Evaluate
  <2> QED BY <1>0, <2>1, EvaluateFacts DEF Onward, AdvType
<1> QED BY <1>1, <1>2, <1>3, <1>4, <1>5, <1>6

(* The steps of the others leave the advance where it is. *)
Steady == /\ adv'.pc = adv.pc /\ adv'.at = adv.at /\ adv'.target = adv.target
          /\ adv'.was = adv.was /\ adv'.stage = adv.stage /\ adv'.spent = adv.spent
          /\ adv'.next = adv.next

(* Items, commands and stuttering leave the advance where it stands. *)
LEMMA OthersSteady ==
    ASSUME LifecycleInv, Tasking \/ Command \/ UNCHANGED vars PROVE Steady
<1>1. UNCHANGED adv \/ adv' = [adv EXCEPT !.live = FALSE]
    BY RetryFacts, TaskingFacts DEF Command, ResolveApproval, RetryRun,
       ResolveConflict, CancelRun, Finalize, vars, Replaced
<1> QED BY <1>1 DEF Steady, LifecycleInv, Shape, AdvType

(* Every step is of one of the kinds above. *)
LEMMA NextKinds ==
    ASSUME [Next]_vars
    PROVE  \/ Claim \/ Terminalize \/ Decide \/ Create \/ Provision \/ EnqueueTask \/ Evaluate
           \/ Ending \/ Writing \/ Restart
           \/ Tasking \/ Command \/ UNCHANGED vars
BY AdvanceKinds DEF Next, Tasking

(* The stage execution an advance decides about is one of its state. *)
LEMMA CurrentFacts ==
    ASSUME LifecycleInv, adv.pc = "decide", Current # 0
    PROVE  Current \in DOMAIN stages /\ stages[Current].state = adv.at
<1>1. CASE adv.target # 0
    BY <1>1 DEF LifecycleInv, Shape, AdvType, AdvInv, Current
<1>2. CASE adv.target = 0
    BY <1>2, LastFacts DEF LifecycleInv, Current
<1> QED BY <1>1, <1>2

(* How an advance comes to the steps that open a gate or settle a stage. *)
LEMMA Arrivals ==
    ASSUME LifecycleInv, [Next]_vars
    PROVE  /\ adv'.pc = "gate" => Steady \/ (adv'.at = adv.at /\ adv.at \in Gates)
           /\ adv'.pc = "request" => Steady \/ (OpenGate /\ adv'.at = adv.at)
           /\ adv'.pc \in {"complete_stage", "fail_stage"} =>
                 \/ Steady
                 \/ /\ Decide /\ SettleStage /\ adv'.stage = Current /\ adv'.at = adv.at
                    /\ adv'.pc = IF HasFailed(Current) THEN "fail_stage" ELSE "complete_stage"
<1>1. CASE Tasking \/ Command \/ UNCHANGED vars
    BY <1>1, OthersSteady
<1>2. CASE Decide
    BY <1>2, DecideGoes DEF Onward
<1>3. CASE Writing
  <2>1. Onward
      BY <1>3, WritingGoes
  <2> QED BY <1>3, <2>1, WritingGoes DEF Writing, Onward
<1>4. CASE Claim \/ Terminalize \/ Create \/ Provision \/ EnqueueTask \/ Evaluate
    BY <1>4, OtherGoes DEF Onward
<1>5. CASE Ending \/ Restart
    BY <1>5, EndingGoes DEF Restart, Idle
<1> QED BY <1>1, <1>2, <1>3, <1>4, <1>5, NextKinds

-----------------------------------------------------------------------------
(* Where the gates are                                                     *)

(* Only gates wait for an approval, only states with tasks are blocked by a  *)
(* prompt, and a stage that is settled is one of the advance's state.        *)
AtInv ==
    /\ \A k \in DOMAIN stages :
          /\ stages[k].status = "waiting_approval" => stages[k].state \in Gates
          /\ stages[k].status = "blocked" => Phases[stages[k].state] # <<>>
    /\ adv.pc \in {"gate", "request"} => adv.at \in Gates
    /\ adv.pc \in {"complete_stage", "fail_stage"} =>
          /\ adv.stage \in DOMAIN stages /\ stages[adv.stage].state = adv.at
          /\ stages[adv.stage].status \notin {"pending", "waiting_approval"}

(* Every step preserves AtInv. *)
LEMMA AtStep ==
    ASSUME LifecycleInv, TaskInv, AtInv, [Next]_vars PROVE AtInv'
<1>0. Kin
    BY StagesKept
<1>1. adv'.pc \in {"gate", "request"} => adv'.at \in Gates
  <2>1. OpenGate => adv.pc = "gate"
      BY DEF OpenGate, Step
  <2> QED BY <2>1, Arrivals DEF AtInv, Steady
<1>2. ASSUME NEW j \in DOMAIN stages'
      PROVE  /\ stages'[j].status = "waiting_approval" => stages'[j].state \in Gates
             /\ stages'[j].status = "blocked" => Phases[stages'[j].state] # <<>>
  <2>1. OpenGate => /\ adv.stage \in DOMAIN stages /\ stages[adv.stage].state = adv.at
                    /\ adv.at \in Gates
      BY DEF OpenGate, Step, AtInv, LifecycleInv, AdvInv, Shape, AdvType
  <2>2. PromptFails => /\ adv.stage \in DOMAIN stages /\ stages[adv.stage].state = adv.at
                       /\ Phases[adv.at] # <<>>
      BY DEF PromptFails, LifecycleInv, AdvInv, Shape, AdvType
  <2>3. CASE j \in DOMAIN stages /\ stages'[j].status = stages[j].status
      BY <1>0, <2>3 DEF Kin, AtInv
  <2>4. CASE ~(j \in DOMAIN stages /\ stages'[j].status = stages[j].status)
    <3>1. \/ OpenGate /\ j = adv.stage /\ stages'[j].status = "waiting_approval"
          \/ PromptFails /\ j = adv.stage /\ stages'[j].status = "blocked"
          \/ stages'[j].status \notin {"waiting_approval", "blocked"}
        BY <2>4, StatusSteps
    <3> QED BY <1>0, <2>1, <2>2, <3>1 DEF Kin
  <2> QED BY <2>3, <2>4
<1>3. adv'.pc \in {"complete_stage", "fail_stage"} =>
          /\ adv'.stage \in DOMAIN stages' /\ stages'[adv'.stage].state = adv'.at
          /\ stages'[adv'.stage].status \notin {"pending", "waiting_approval"}
  <2>1. CASE adv'.pc \in {"complete_stage", "fail_stage"} /\ Steady
    <3>1. /\ adv.stage \in DOMAIN stages /\ stages[adv.stage].state = adv.at
          /\ stages[adv.stage].status \notin {"pending", "waiting_approval"}
          /\ adv'.stage = adv.stage /\ adv'.at = adv.at
        BY <2>1 DEF AtInv, Steady
    <3>2. ~OpenGate
        BY <2>1 DEF Steady, OpenGate, Step
    <3>3. adv.stage \in DOMAIN stages'
        BY <1>0, <3>1 DEF Kin
    <3>4. stages'[adv.stage].status \notin {"pending", "waiting_approval"}
        BY <3>1, <3>2, <3>3, StatusSteps
    <3> QED BY <1>0, <3>1, <3>3, <3>4 DEF Kin
  <2>2. CASE Decide /\ SettleStage /\ adv'.stage = Current /\ adv'.at = adv.at
    <3>1. adv.pc = "decide" /\ Current # 0 /\ stages[Current].status = "running"
        BY <2>2 DEF SettleStage, At
    <3>2. UNCHANGED stages
        BY <2>2 DEF Decide, tables
    <3> QED BY <2>2, <3>1, <3>2, CurrentFacts
  <2> QED BY <2>1, <2>2, Arrivals
<1> QED BY <1>1, <1>2, <1>3 DEF AtInv

-----------------------------------------------------------------------------
(* Why a stage is failed                                                   *)

Fresh(k) == Invoked(k) = {}

(* No item goes away. *)
LEMMA FreshKept ==
    ASSUME LifecycleInv, [Next]_vars, NEW k \in DOMAIN stages, Fresh(k)' PROVE Fresh(k)
<1>1. k \in 1..MaxStages
    BY StageFacts DEF LifecycleInv
<1>2. \A t \in Tasks : items'[k][t] = "absent"
    BY DEF Fresh, Invoked
<1>3. ASSUME NEW t \in Tasks PROVE items[k][t] = "absent"
    BY <1>1, <1>2, <1>3, ItemSteps
<1> QED BY <1>3 DEF Fresh, Invoked

(* As long as nobody cancelled the run, a failed stage has an item, which    *)
(* failed unless its own task settled the stage, and nothing in flight then; *)
(* the attempt a retry replaced has no authority, and an advance settles a   *)
(* stage that has nothing in flight.                                         *)
FailInv == ~run.requested =>
    /\ \A k \in DOMAIN stages :
          /\ stages[k].status = "failed" =>
                /\ Invoked(k) # {}
                /\ SingleTask(stages[k].state) \/ (HasFailed(k) /\ InFlight(k) = {})
          /\ stages[k].status = "skipped" => stages[k].auth # "active"
    /\ adv.pc \in {"complete_stage", "fail_stage"} =>
          stages[adv.stage].status # "blocked" /\ InFlight(adv.stage) = {}
    /\ adv.pc = "fail_stage" => HasFailed(adv.stage)

(* Nothing but an advance that enqueues adds items to a stage at rest. *)
LEMMA Rested ==
    ASSUME LifecycleInv, [Next]_vars, NEW k \in DOMAIN stages, ~(EnqueueTask /\ k = adv.stage),
           InFlight(k) = {}
    PROVE  InFlight(k)' = {} /\ (HasFailed(k) => HasFailed(k)')
<1>1. k \in 1..MaxStages
    BY StageFacts DEF LifecycleInv
<1>2. \A t \in Tasks : items[k][t] \notin {"pending", "running"}
    BY DEF InFlight, Waiting
<1>3. ASSUME NEW t \in Tasks PROVE items'[k][t] = items[k][t]
    BY <1>1, <1>2, <1>3, ItemSteps DEF Waiting
<1>4. InFlight(k)' = {}
    BY <1>2, <1>3 DEF InFlight, Waiting
<1>5. HasFailed(k) => HasFailed(k)'
    BY <1>3 DEF HasFailed
<1> QED BY <1>4, <1>5

(* Nobody asks for a cancellation and nobody did. *)
LEMMA NotRequested ==
    ASSUME LifecycleInv, RequestInv, [Next]_vars, ~run'.requested
    PROVE  ~run.requested /\ ~CancelRun /\ ~run.settled /\ ~finalizer /\ run.status # "cancelling"
<1>1. run \in [status : RunStatus, state : States, requested : BOOLEAN, settled : BOOLEAN]
    BY DEF LifecycleInv, Shape
<1>2. CancelRun => run'.requested
    BY <1>1 DEF CancelRun
<1>3. ~run.requested
    BY RunKept
<1> QED BY <1>2, <1>3 DEF RequestInv

(* Every step preserves FailInv: a stage is failed by an advance that saw all items ended, *)
(* or by the one task it has.                                                              *)
LEMMA FailStep ==
    ASSUME LifecycleInv, TaskInv, RequestInv, AtInv, FailInv, [Next]_vars PROVE FailInv'
<1> SUFFICES ASSUME ~run'.requested
             PROVE  /\ \A k \in DOMAIN stages' :
                          /\ stages'[k].status = "failed" =>
                                /\ ~Fresh(k)'
                                /\ SingleTask(stages'[k].state) \/ (HasFailed(k)' /\ InFlight(k)' = {})
                          /\ stages'[k].status = "skipped" => stages'[k].auth # "active"
                    /\ adv'.pc \in {"complete_stage", "fail_stage"} =>
                          stages'[adv'.stage].status # "blocked" /\ InFlight(adv.stage)' = {}
                    /\ adv'.pc = "fail_stage" => HasFailed(adv.stage)'
    BY DEF FailInv, HasFailed, InFlight, Fresh, Invoked
<1>0. Kin
    BY StagesKept
<1>1. ~run.requested /\ ~CancelRun /\ ~run.settled
    BY NotRequested
<1>2. /\ \A k \in DOMAIN stages :
            /\ stages[k].status = "failed" =>
                  /\ ~Fresh(k)
                  /\ SingleTask(stages[k].state) \/ (HasFailed(k) /\ InFlight(k) = {})
            /\ stages[k].status = "skipped" => stages[k].auth # "active"
      /\ adv.pc \in {"complete_stage", "fail_stage"} =>
            stages[adv.stage].status # "blocked" /\ InFlight(adv.stage) = {}
      /\ adv.pc = "fail_stage" => HasFailed(adv.stage)
    BY <1>1 DEF FailInv, Fresh
<1>3. EnqueueTask => /\ adv.pc = "enqueue"
                     /\ adv.stage \in DOMAIN stages /\ stages[adv.stage].status = "running"
    BY <1>1 DEF EnqueueTask, LifecycleInv, AdvInv, Shape, AdvType
<1>4. ASSUME NEW j \in DOMAIN stages', stages'[j].status = "failed"
      PROVE  ~Fresh(j)' /\ (SingleTask(stages'[j].state) \/ (HasFailed(j)' /\ InFlight(j)' = {}))
  <2>1. \/ j \in DOMAIN stages /\ stages[j].status = "failed"
        \/ FailStage /\ j = adv.stage
        \/ /\ SettleSingle /\ j \in DOMAIN stages /\ SingleTask(stages[j].state)
           /\ ~Fresh(j)
      BY <1>1, <1>4, StatusSteps DEF Fresh
  <2>2. CASE j \in DOMAIN stages /\ stages[j].status = "failed"
    <3>1. ~Fresh(j)' /\ stages'[j].state = stages[j].state
        BY <1>0, <1>2, <2>2, FreshKept DEF Kin
    <3>2. CASE SingleTask(stages[j].state)
        BY <3>1, <3>2
    <3>3. CASE ~SingleTask(stages[j].state)
        BY <1>2, <1>3, <2>2, <3>1, <3>3, Rested
    <3> QED BY <3>2, <3>3
  <2>3. CASE FailStage /\ j = adv.stage
    <3>1. adv.pc = "fail_stage" /\ j \in DOMAIN stages
        BY <2>3 DEF FailStage, Step, AtInv
    <3>2. HasFailed(j)' /\ InFlight(j)' = {}
        BY <1>2, <1>3, <2>3, <3>1, Rested
    <3> QED BY <3>2 DEF HasFailed, Fresh, Invoked
  <2>4. CASE /\ SettleSingle /\ j \in DOMAIN stages /\ SingleTask(stages[j].state)
             /\ ~Fresh(j)
    <3>1. ~Fresh(j)' /\ stages'[j].state = stages[j].state
        BY <1>0, <2>4, FreshKept DEF Kin
    <3> QED BY <2>4, <3>1
  <2> QED BY <2>1, <2>2, <2>3, <2>4
<1>5. ASSUME NEW j \in DOMAIN stages', stages'[j].status = "skipped"
      PROVE  stages'[j].auth # "active"
  <2>1. CASE j \in DOMAIN stages /\ stages[j].status = "skipped"
      BY <1>2, <2>1, AuthSteps
  <2>2. CASE ~(j \in DOMAIN stages /\ stages[j].status = "skipped")
    <3>1. RetryStage /\ j \in DOMAIN stages
        BY <1>1, <1>5, <2>2, StatusSteps
    <3>2. PICK k \in DOMAIN stages, s \in States, new \in 1..MaxStages : Replaced(k, s, new)
        BY <3>1, RetryFacts
    <3>3. j = k /\ j \in Of(s)
        BY <1>5, <2>2, <3>1, <3>2 DEF Replaced, Of
    <3> QED BY <3>1, <3>2, <3>3 DEF Replaced
  <2> QED BY <2>1, <2>2
<1>6. ASSUME adv'.pc \in {"complete_stage", "fail_stage"}
      PROVE  /\ stages'[adv'.stage].status # "blocked" /\ InFlight(adv.stage)' = {}
             /\ adv'.pc = "fail_stage" => HasFailed(adv.stage)'
  <2>1. CASE Steady
    <3>1. /\ adv.stage \in DOMAIN stages /\ adv'.stage = adv.stage /\ adv'.pc = adv.pc
          /\ adv.pc \in {"complete_stage", "fail_stage"}
        BY <1>6, <2>1 DEF AtInv, Steady
    <3>2. ~FailStage /\ ~CompleteStage /\ ~PromptFails /\ ~EnqueueTask /\ ~OpenGate
        BY <1>6, <3>1, Goes DEF FailStage, CompleteStage, PromptFails, EnqueueTask, OpenGate,
           Step, Steps
    <3>3. adv.stage \in DOMAIN stages'
        BY <1>0, <3>1 DEF Kin
    <3>4. stages'[adv.stage].status # "blocked"
        BY <1>1, <1>2, <3>1, <3>2, <3>3, StatusSteps DEF Waiting
    <3>5. PICK k \in DOMAIN stages : k = adv.stage
        BY <3>1
    <3>6. InFlight(k)' = {} /\ (adv.pc = "fail_stage" => HasFailed(k)')
        BY <1>2, <3>1, <3>2, <3>5, Rested
    <3> QED BY <3>1, <3>4, <3>5, <3>6 DEF InFlight, HasFailed
  <2>2. CASE /\ Decide /\ SettleStage /\ adv'.stage = Current
             /\ adv'.pc = IF HasFailed(Current) THEN "fail_stage" ELSE "complete_stage"
    <3>1. PICK k : k = Current
        OBVIOUS
    <3>2. stages[k].status = "running" /\ InFlight(k) = {}
        BY <2>2, <3>1 DEF SettleStage, At
    <3>3. UNCHANGED <<stages, items>>
        BY <2>2 DEF Decide, tables
    <3>4. InFlight(k)' = {} /\ (HasFailed(k) => HasFailed(k)')
        BY <3>2, <3>3 DEF InFlight, HasFailed
    <3> QED BY <2>2, <3>1, <3>2, <3>3, <3>4 DEF InFlight, HasFailed
  <2> QED BY <1>6, <2>1, <2>2, Arrivals
<1> QED BY <1>4, <1>5, <1>6

-----------------------------------------------------------------------------
(* The loop budgets                                                        *)

Budgeted == {"create", "complete_stage", "end_stage", "evaluate", "select", "cursor", "again",
             "move"}
Chosen == {"select", "cursor", "again", "move"}

(* The budget an advance computed when it began is still right for all     *)
(* compute states of several tasks but its own, which it completes itself, *)
(* and the next state has budget left by it.                               *)
BudgetInv ==
    /\ adv.pc \in Budgeted =>
          \A s \in Exhausted : s \in Gates \cup {adv.at} \cup adv.spent \/ SingleTask(s)
    /\ adv.pc \in Chosen => adv.next \notin adv.spent

(* A state whose stages are not completed by a step does not spend budget. *)
LEMMA BudgetKept ==
    ASSUME LifecycleInv, Kin, NEW s \in Exhausted',
           \A j \in DOMAIN stages' : stages'[j].status = "completed" /\ stages'[j].state = s =>
               j \in DOMAIN stages /\ stages[j].status = "completed"
    PROVE  s \in Exhausted
<1>1. Iterations(s)' \subseteq Iterations(s)
    BY DEF Iterations, Of, Kin
<1>2. \A k \in DOMAIN stages : stages[k].iter \in 0..Len(stages)
    BY StageFacts DEF LifecycleInv, Shape
<1>3. Iterations(s) \subseteq 0..Len(stages)
    BY <1>2 DEF Iterations, Of
<1>4. IsFiniteSet(0..Len(stages))
    BY FS_Interval DEF Kin
<1>5. IsFiniteSet(Iterations(s))
    BY <1>3, <1>4, FS_Subset
<1>6. /\ Cardinality(Iterations(s)') <= Cardinality(Iterations(s))
      /\ IsFiniteSet(Iterations(s)')
    BY <1>1, <1>5, FS_Subset
<1>7. Cardinality(Iterations(s)') \in Nat /\ Cardinality(Iterations(s)) \in Nat
    BY <1>5, <1>6, FS_CardinalityType
<1>8. s \in DOMAIN LoopMax /\ LoopMax[s] \in Nat /\ Cardinality(Iterations(s)') >= LoopMax[s]
    BY RunLifecycleAssumption DEF Exhausted
<1> QED BY <1>6, <1>7, <1>8 DEF Exhausted

(* How an advance comes to the steps that rely on the budget. *)
LEMMA BudgetArrivals ==
    ASSUME LifecycleInv, [Next]_vars
    PROVE  /\ adv'.pc \in Budgeted =>
                 /\ adv'.at = adv.at
                 /\ \/ Decide /\ adv'.spent = Exhausted
                    \/ adv.pc \in Budgeted /\ adv'.spent = adv.spent
           /\ adv'.pc \in Chosen =>
                 /\ adv'.spent = adv.spent
                 /\ \/ adv.pc \in Chosen /\ adv'.next = adv.next
                    \/ adv'.next \notin adv.spent
<1> USE DEF Budgeted, Chosen
<1>1. CASE Tasking \/ Command \/ UNCHANGED vars
    BY <1>1, OthersSteady DEF Steady
<1>2. CASE Decide
    BY <1>2, DecideGoes DEF Onward
<1>3. CASE Writing
  <2>1. /\ Onward /\ adv'.spent = adv.spent /\ adv'.next = adv.next
      BY <1>3, WritingGoes
  <2>2. adv'.pc \in Budgeted => adv.pc \in Budgeted
      BY <1>3, WritingGoes DEF Writing
  <2>3. adv'.pc \in Chosen => adv.pc \in Chosen
      BY <1>3, WritingGoes DEF Writing
  <2> QED BY <2>1, <2>2, <2>3 DEF Onward
<1>4. CASE Claim \/ Terminalize \/ Create \/ Provision \/ EnqueueTask \/ Evaluate
    BY <1>4, OtherGoes DEF Onward
<1>5. CASE Ending \/ Restart
    BY <1>5, EndingGoes DEF Restart, Idle
<1> QED BY <1>1, <1>2, <1>3, <1>4, <1>5, NextKinds

(* Every step preserves BudgetInv. *)
LEMMA BudgetStep ==
    ASSUME LifecycleInv, TaskInv, AtInv, BudgetInv, [Next]_vars PROVE BudgetInv'
<1>0. Kin
    BY StagesKept
<1>1. adv'.pc \in Chosen => adv'.next \notin adv'.spent
    BY BudgetArrivals DEF BudgetInv
<1>2. ASSUME NEW s \in Exhausted', s \notin Gates, s # adv.at, ~SingleTask(s)
      PROVE  s \in Exhausted
  <2>1. ASSUME NEW j \in DOMAIN stages', stages'[j].status = "completed", stages'[j].state = s
        PROVE  j \in DOMAIN stages /\ stages[j].status = "completed"
    <3>1. j \in DOMAIN stages => stages[j].state = s
        BY <1>0, <2>1 DEF Kin
    <3>2. CASE CompleteStage /\ j = adv.stage /\ adv.pc = "complete_stage"
        BY <1>2, <3>1, <3>2 DEF AtInv
    <3>3. CASE j \in DOMAIN stages /\ stages[j].state = adv.at
        BY <1>2, <3>1, <3>3
    <3>4. CASE j \in DOMAIN stages /\ stages[j].status = "waiting_approval"
        BY <1>2, <3>1, <3>4 DEF AtInv
    <3>5. CASE j \in DOMAIN stages /\ SingleTask(stages[j].state)
        BY <1>2, <3>1, <3>5
    <3> QED BY <2>1, <3>2, <3>3, <3>4, <3>5, StatusSteps
  <2> QED BY <1>0, <1>2, <2>1, BudgetKept
<1>3. ASSUME adv'.pc \in Budgeted, NEW s \in Exhausted'
      PROVE  s \in Gates \cup {adv'.at} \cup adv'.spent \/ SingleTask(s)
  <2>1. CASE Decide /\ adv'.spent = Exhausted
    <3>1. UNCHANGED stages
        BY <2>1 DEF Decide, tables
    <3> QED BY <2>1, <3>1 DEF Exhausted, Iterations, Of
  <2>2. CASE adv.pc \in Budgeted /\ adv'.spent = adv.spent /\ adv'.at = adv.at
      BY <1>2, <2>2 DEF BudgetInv
  <2> QED BY <1>3, <2>1, <2>2, BudgetArrivals
<1> QED BY <1>1, <1>3 DEF BudgetInv

-----------------------------------------------------------------------------
(* The gates and their approvals                                           *)

Asked(s) == {a \in DOMAIN approvals : approvals[a] = [state |-> s, decision |-> "requested"]}
Held(s) == {k \in Of(s) : stages[k].status = "waiting_approval"}
Owed(s) == IF adv.pc = "request" /\ adv.at = s THEN 1 ELSE 0

(* Counted per state, an approval that is requested, or is about to be, has  *)
(* a gate that waits.  Only a cancellation and a restart leave a gate that   *)
(* waits for an approval nobody requested.                                   *)
Balanced(s) ==
    /\ Cardinality(Asked(s)) + Owed(s) <= Cardinality(Held(s))
    /\ ~run.requested /\ restarts = 0 => Cardinality(Asked(s)) + Owed(s) = Cardinality(Held(s))
GateInv == \A s \in States : Balanced(s)

(* The sets that GateInv counts are finite. *)
LEMMA GateSets ==
    ASSUME LifecycleInv, RestType, NEW s
    PROVE  /\ IsFiniteSet(Asked(s)) /\ Cardinality(Asked(s)) \in Nat
           /\ IsFiniteSet(Held(s)) /\ Cardinality(Held(s)) \in Nat
           /\ Owed(s) \in {0, 1}
<1>1. stages \in Seq(StageRow) /\ Len(stages) \in Nat /\ DOMAIN stages = 1..Len(stages)
    BY DEF LifecycleInv, Shape
<1>2. Len(approvals) \in Nat /\ DOMAIN approvals = 1..Len(approvals)
    BY LenProperties DEF RestType
<1>3. IsFiniteSet(1..Len(stages)) /\ IsFiniteSet(1..Len(approvals))
    BY <1>1, <1>2, FS_Interval
<1>4. Asked(s) \in SUBSET (1..Len(approvals)) /\ Held(s) \in SUBSET (1..Len(stages))
    BY <1>1, <1>2 DEF Asked, Held, Of
<1>5. IsFiniteSet(Asked(s)) /\ IsFiniteSet(Held(s))
    BY <1>3, <1>4, FS_Subset
<1> QED BY <1>5, FS_CardinalityType DEF Owed

(* An approval that is requested, or is about to be, is awaited. *)
LEMMA AskedIsHeld ==
    ASSUME LifecycleInv, RestType, GateInv, NEW s \in States, Asked(s) # {} \/ Owed(s) = 1
    PROVE  Held(s) # {}
<1>1. Cardinality(Asked(s)) # 0 \/ Owed(s) = 1
    BY GateSets, FS_EmptySet
<1>2. Cardinality(Asked(s)) + Owed(s) <= Cardinality(Held(s))
    BY DEF GateInv, Balanced
<1>3. Cardinality(Held(s)) # 0
    BY <1>1, <1>2, GateSets
<1> QED BY <1>3, FS_EmptySet

(* Which steps touch the gates that wait. *)
LEMMA HeldKept ==
    ASSUME LifecycleInv, TaskInv, AtInv, [Next]_vars, ~OpenGate, ~ResolveApproval, NEW s
    PROVE  Held(s)' = Held(s)
<1>0. Kin
    BY StagesKept
<1>1. ASSUME NEW j \in Held(s)' PROVE j \in Held(s)
  <2>1. j \in DOMAIN stages' /\ stages'[j].status = "waiting_approval" /\ stages'[j].state = s
      BY <1>1 DEF Held, Of
  <2>2. j \in DOMAIN stages /\ stages[j].status = "waiting_approval"
      BY <2>1, StatusSteps
  <2> QED BY <1>0, <2>1, <2>2 DEF Held, Of, Kin
<1>2. ASSUME NEW j \in Held(s) PROVE j \in Held(s)'
  <2>1. j \in DOMAIN stages /\ stages[j].status = "waiting_approval" /\ stages[j].state = s
      BY <1>2 DEF Held, Of
  <2>2. j \in DOMAIN stages' /\ stages'[j].state = s
      BY <1>0, <2>1 DEF Kin
  <2>3. OpenStage \/ PromptFails => stages[adv.stage].status # "waiting_approval"
      BY DEF OpenStage, PromptFails, Step, LifecycleInv, AdvInv
  <2>4. FailStage => stages[adv.stage].status # "waiting_approval"
      BY DEF FailStage, Step, AtInv
  <2>5. adv.pc = "complete_stage" => stages[adv.stage].status # "waiting_approval"
      BY DEF AtInv
  <2>6. adv.pc = "end_stage" => adv.at \notin Gates
      BY RunLifecycleAssumption DEF LifecycleInv, AdvInv, BareEnd
  <2>7. stages[j].state \in Gates
      BY <2>1 DEF AtInv
  <2>8. Invoked(j) = {}
      BY <2>1 DEF LifecycleInv, ItemInv, Absent, Invoked
  <2>9. stages'[j].status = "waiting_approval"
      BY <2>1, <2>2, <2>3, <2>4, <2>5, <2>6, <2>7, <2>8, StatusSteps DEF Waiting
  <2> QED BY <2>2, <2>9 DEF Held, Of
<1> QED BY <1>1, <1>2

(* Which steps touch the approvals. *)
LEMMA AskedKept ==
    ASSUME LifecycleInv, [Next]_vars, ~RequestApproval, ~ResolveApproval, ~CancelRun,
           ~(Restart /\ run.settled)
    PROVE  UNCHANGED approvals
<1>1. CASE Restart
    BY <1>1 DEF Restart, RepairRun
<1>2. CASE RetryStage
    BY <1>2 DEF RetryStage
<1>3. CASE Advance
    BY <1>3 DEF Advance, tables, Claim, Decide, Create, OpenGate, PauseRun, OpenStage, StartRun,
        Provision, EnqueueTask, PromptFails, CompleteStage, FailStage, CloseRun, Evaluate,
        SelectMove, ReleaseCursor, SelfLoop, MoveRun, WakeRun, RecordConflict, BlockOnConflict,
        ParkCursor, Terminalize
<1>4. CASE Tasking
    BY <1>4, TaskingFacts
<1> QED BY <1>1, <1>2, <1>3, <1>4 DEF Next, Tasking, Command, vars, tables,
        RetryRun, ResolveConflict, Finalize

(* Only a restart counts as one. *)
LEMMA RestartsGrow ==
    ASSUME RestType, [Next]_vars
    PROVE  /\ Restart => restarts' > 0
           /\ ~Restart => UNCHANGED restarts
<1>1. Restart => restarts' > 0
    BY RunLifecycleAssumption DEF Restart, RestType
<1>2. CASE Advance
    BY <1>1, <1>2, AdvanceRuns
<1>3. CASE RetryStage
    BY <1>1, <1>3 DEF RetryStage
<1>4. CASE Tasking
    BY <1>1, <1>4, TaskingFacts DEF Restart
<1> QED BY <1>1, <1>2, <1>3, <1>4 DEF Next, Tasking, Command, vars, rest,
        RetryRun, ResolveConflict, Finalize, ResolveApproval, CancelRun

(* Where an advance that owes an approval goes. *)
LEMMA RequestGoes ==
    ASSUME LifecycleInv, [Next]_vars, adv.pc = "request"
    PROVE  RequestApproval \/ Restart \/ Steady
<1>1. ~Claim /\ ~Terminalize /\ ~Create /\ ~Provision /\ ~EnqueueTask /\ ~Evaluate /\ ~Ending
    BY OtherGoes, EndingGoes
<1>2. ~Decide
    BY DecideGoes
<1>3. Writing => RequestApproval
    BY WritingGoes DEF Writing
<1> QED BY <1>1, <1>2, <1>3, NextKinds, OthersSteady

(* An approval becomes owed when a gate opens and is paid by the request. *)
LEMMA OwedKept ==
    ASSUME LifecycleInv, [Next]_vars, ~OpenGate, NEW s
    PROVE  /\ ~RequestApproval /\ ~Restart => Owed(s)' = Owed(s)
           /\ RequestApproval \/ Restart => Owed(s)' = 0
<1>1. adv'.pc = "request" => Steady
    BY Arrivals
<1>2. adv'.pc = "request" => ~RequestApproval /\ ~Restart
    BY DEF RequestApproval, Restart, Idle, Step, LifecycleInv, Shape, AdvType
<1> QED BY <1>1, <1>2, RequestGoes DEF Owed, Steady

(* Every step preserves GateInv: each opens, asks for, decides or withdraws as many on both sides. *)
LEMMA GateStep ==
    ASSUME LifecycleInv, TaskInv, RestType, RestType', LifecycleInv', RequestInv, AtInv, GateInv,
           [Next]_vars
    PROVE  GateInv'
<1> SUFFICES ASSUME NEW s \in States PROVE Balanced(s)'
    BY DEF GateInv
<1>0. PICK A, H, o : A = Asked(s) /\ H = Held(s) /\ o = Owed(s)
    OBVIOUS
<1>0p. PICK Ap, Hp, op : Ap = Asked(s)' /\ Hp = Held(s)' /\ op = Owed(s)'
    OBVIOUS
<1>1. /\ IsFiniteSet(A) /\ Cardinality(A) \in Nat /\ IsFiniteSet(H) /\ Cardinality(H) \in Nat
      /\ o \in {0, 1}
    BY <1>0, GateSets
<1>2. /\ IsFiniteSet(Ap) /\ Cardinality(Ap) \in Nat /\ IsFiniteSet(Hp) /\ Cardinality(Hp) \in Nat
      /\ op \in {0, 1}
  <2>1. /\ IsFiniteSet(Asked(s)') /\ Cardinality(Asked(s)') \in Nat
        /\ IsFiniteSet(Held(s)') /\ Cardinality(Held(s)') \in Nat
    <3>1. stages' \in Seq(StageRow) /\ Len(stages') \in Nat /\ DOMAIN stages' = 1..Len(stages')
        BY DEF LifecycleInv, Shape
    <3>2. Len(approvals') \in Nat /\ DOMAIN approvals' = 1..Len(approvals')
        BY LenProperties DEF RestType
    <3>3. IsFiniteSet(1..Len(stages')) /\ IsFiniteSet(1..Len(approvals'))
        BY <3>1, <3>2, FS_Interval
    <3>4. Asked(s)' \in SUBSET (1..Len(approvals')) /\ Held(s)' \in SUBSET (1..Len(stages'))
        BY <3>1, <3>2 DEF Asked, Held, Of
    <3>5. IsFiniteSet(Asked(s)') /\ IsFiniteSet(Held(s)')
        BY <3>3, <3>4, FS_Subset
    <3> QED BY <3>5, FS_CardinalityType
  <2> QED BY <1>0p, <2>1 DEF Owed
<1>3. /\ Cardinality(A) + o <= Cardinality(H)
      /\ ~run.requested /\ restarts = 0 => Cardinality(A) + o = Cardinality(H)
    BY <1>0 DEF GateInv, Balanced
<1>4. ~run'.requested /\ restarts' = 0 =>
          /\ ~run.requested /\ restarts = 0 /\ ~Restart /\ ~CancelRun
          /\ Cardinality(A) + o = Cardinality(H)
  <2>1. ~run'.requested => ~run.requested /\ ~CancelRun
      BY NotRequested
  <2>2. restarts' = 0 => ~Restart /\ restarts = 0
      BY RestartsGrow
  <2> QED BY <1>3, <2>1, <2>2
<1>5. SUFFICES /\ Cardinality(Ap) + op <= Cardinality(Hp)
               /\ ~run'.requested /\ restarts' = 0 => Cardinality(Ap) + op = Cardinality(Hp)
    BY <1>0p DEF Balanced
<1>6. CASE OpenGate
  <2>1. /\ adv.stage \in DOMAIN stages /\ stages[adv.stage].state = adv.at
        /\ stages[adv.stage].status = "pending" /\ adv.pc = "gate"
      BY <1>6 DEF OpenGate, Step, LifecycleInv, AdvInv, Shape, AdvType
  <2>2. Marked(adv.stage, "waiting_approval") /\ UNCHANGED approvals
      BY <1>6, AdvanceMarks DEF OpenGate
  <2>3. adv'.pc = "request" /\ adv'.at = adv.at
      BY <1>6, WritingGoes DEF Writing, Onward
  <2>4. Ap = A
      BY <1>0, <1>0p, <2>2 DEF Asked
  <2>5. CASE s = adv.at
    <3>1. Hp = H \cup {adv.stage} /\ adv.stage \notin H
        BY <1>0, <1>0p, <2>1, <2>2, <2>5 DEF Held, Of, Marked
    <3>2. Cardinality(Hp) = Cardinality(H) + 1
        BY <1>1, <3>1, FS_AddElement
    <3>3. o = 0 /\ op = 1
        BY <1>0, <1>0p, <2>1, <2>3, <2>5 DEF Owed
    <3> QED BY <1>1, <1>2, <1>3, <1>4, <2>4, <3>2, <3>3
  <2>6. CASE s # adv.at
    <3>1. Hp = H
        BY <1>0, <1>0p, <2>1, <2>2, <2>6 DEF Held, Of, Marked
    <3>2. o = 0 /\ op = 0
        BY <1>0, <1>0p, <2>1, <2>3, <2>6 DEF Owed
    <3> QED BY <1>1, <1>2, <1>3, <1>4, <2>4, <3>1, <3>2
  <2> QED BY <2>5, <2>6
<1>7. CASE RequestApproval
  <2>1. adv.pc = "request" /\ approvals' = Append(approvals, [state |-> adv.at, decision |-> "requested"])
      BY <1>7 DEF RequestApproval, Step
  <2>2. ~OpenGate /\ ~ResolveApproval /\ op = 0
    <3>1. ~OpenGate
        BY <2>1 DEF OpenGate, Step
    <3>2. ~ResolveApproval
        BY <1>7 DEF ResolveApproval, RequestApproval, Step, LifecycleInv, Shape, AdvType
    <3> QED BY <1>0p, <1>7, <3>1, <3>2, OwedKept
  <2>3. Hp = H
      BY <1>0, <1>0p, <2>2, HeldKept
  <2>4. Len(approvals) \in Nat /\ DOMAIN approvals = 1..Len(approvals)
      BY LenProperties DEF RestType
  <2>5. PICK r : r = [state |-> adv.at, decision |-> "requested"]
      OBVIOUS
  <2>6. /\ DOMAIN approvals' = 1..(Len(approvals) + 1) /\ approvals'[Len(approvals) + 1] = r
        /\ \A a \in DOMAIN approvals : approvals'[a] = approvals[a]
      BY <2>1, <2>4, <2>5, AppendProperties DEF RestType
  <2>7. CASE s = adv.at
    <3>1. r = [state |-> s, decision |-> "requested"]
        BY <2>5, <2>7
    <3>2. Ap = A \cup {Len(approvals) + 1} /\ Len(approvals) + 1 \notin A
        BY <1>0, <1>0p, <2>4, <2>6, <3>1 DEF Asked
    <3>3. Cardinality(Ap) = Cardinality(A) + 1
        BY <1>1, <3>2, FS_AddElement
    <3>4. o = 1
        BY <1>0, <2>1, <2>7 DEF Owed
    <3> QED BY <1>1, <1>2, <1>3, <1>4, <2>2, <2>3, <3>3, <3>4
  <2>8. CASE s # adv.at
    <3>1. r # [state |-> s, decision |-> "requested"]
        BY <2>5, <2>8
    <3>2. Ap = A
        BY <1>0, <1>0p, <2>4, <2>6, <3>1 DEF Asked
    <3>3. o = 0
        BY <1>0, <2>8 DEF Owed
    <3> QED BY <1>1, <1>2, <1>3, <1>4, <2>2, <2>3, <3>2, <3>3
  <2> QED BY <2>7, <2>8
<1>8. CASE ResolveApproval
  <2>1. PICK a \in DOMAIN approvals, d \in {"granted", "rejected"} :
              /\ approvals[a].decision = "requested"
              /\ approvals' = [approvals EXCEPT ![a].decision = d]
              /\ \/ \A k \in Of(approvals[a].state) : stages[k].status # "waiting_approval"
                 \/ \E k \in Of(approvals[a].state), st \in {"running", "completed"} :
                       stages[k].status = "waiting_approval" /\ Marked(k, st)
      BY <1>8, ApprovalMarks
  <2>2. PICK z \in States : z = approvals[a].state /\ approvals[a] \in Approval
    <3>1. approvals[a] \in Approval
        BY <2>1, ElementOfSeq, LenProperties DEF RestType
    <3> QED BY <3>1 DEF Approval
  <2>3. a \in Asked(z)
      BY <2>1, <2>2 DEF Asked, Approval
  <2>4. Held(z) # {}
      BY <2>3, AskedIsHeld
  <2>5. PICK k \in Of(z), st \in {"running", "completed"} :
            stages[k].status = "waiting_approval" /\ Marked(k, st)
      BY <2>1, <2>2, <2>4 DEF Held
  <2>6. /\ DOMAIN approvals' = DOMAIN approvals
        /\ \A b \in DOMAIN approvals : b # a => approvals'[b] = approvals[b]
        /\ approvals'[a].decision = d
      BY <2>1, <2>2 DEF Approval
  <2>7. op = o
    <3>1. Steady
        BY <1>8, OthersSteady DEF Command
    <3> QED BY <1>0, <1>0p, <3>1 DEF Owed, Steady
  <2>8. CASE s = z
    <3>1. Ap = A \ {a} /\ a \in A
      <4>1. approvals'[a] # [state |-> s, decision |-> "requested"]
          BY <2>6
      <4> QED BY <1>0, <1>0p, <2>3, <2>6, <2>8, <4>1 DEF Asked
    <3>2. Hp = H \ {k} /\ k \in H
        BY <1>0, <1>0p, <2>5, <2>8 DEF Held, Of, Marked
    <3>3. Cardinality(Ap) = Cardinality(A) - 1 /\ Cardinality(Hp) = Cardinality(H) - 1
        BY <1>1, <3>1, <3>2, FS_RemoveElement
    <3> QED BY <1>1, <1>2, <1>3, <1>4, <2>7, <3>3
  <2>9. CASE s # z
    <3>1. Ap = A
      <4>1. /\ approvals'[a] # [state |-> s, decision |-> "requested"]
            /\ approvals[a] # [state |-> s, decision |-> "requested"]
          BY <2>2, <2>6, <2>9
      <4> QED BY <1>0, <1>0p, <2>6, <4>1 DEF Asked
    <3>2. Hp = H
        BY <1>0, <1>0p, <2>5, <2>9 DEF Held, Of, Marked
    <3> QED BY <1>1, <1>2, <1>3, <1>4, <2>7, <3>1, <3>2
  <2> QED BY <2>8, <2>9
<1>9. CASE ~OpenGate /\ ~RequestApproval /\ ~ResolveApproval
  <2>1. Hp = H /\ (op = o \/ op = 0) /\ (~Restart => op = o)
      BY <1>0, <1>0p, <1>1, <1>9, HeldKept, OwedKept
  <2>2. CASE CancelRun \/ (Restart /\ run.settled)
    <3>1. approvals' = Expired(approvals)
        BY <2>2 DEF CancelRun, Restart, CloseCancelled
    <3>2. \A a \in DOMAIN approvals : approvals[a] \in Approval
        BY ElementOfSeq, LenProperties DEF RestType
    <3>3. DOMAIN approvals' = DOMAIN approvals /\ \A a \in DOMAIN approvals' : approvals'[a].decision # "requested"
        BY <3>1, <3>2 DEF Expired, Approval
    <3>4. Ap = {}
        BY <1>0p, <3>3 DEF Asked
    <3>5. Cardinality(Ap) = 0
        BY <3>4, FS_EmptySet
    <3>6. CancelRun \/ Restart
        BY <2>2
    <3> QED BY <1>1, <1>2, <1>3, <1>4, <2>1, <3>5, <3>6
  <2>3. CASE ~CancelRun /\ ~(Restart /\ run.settled)
    <3>1. Ap = A
        BY <1>0, <1>0p, <1>9, <2>3, AskedKept DEF Asked
    <3> QED BY <1>1, <1>2, <1>3, <1>4, <2>1, <3>1
  <2> QED BY <2>2, <2>3
<1> QED BY <1>6, <1>7, <1>8, <1>9

-----------------------------------------------------------------------------
(* An attempt that was not started is woken once                           *)

(* The advance of a retry is the only one until the attempt has an item, so  *)
(* that nobody but it terminalizes the authority, or it finds the attempt    *)
(* blocked.                                                                  *)
SingleInv ==
    /\ \A i, j \in DOMAIN queue :
          queue[i].target = queue[j].target /\ queue[i].target # 0 /\ Fresh(queue[i].target)
              => i = j
    /\ \A i \in DOMAIN queue : queue[i].target # 0 /\ Fresh(queue[i].target) =>
          /\ adv.target # queue[i].target
          /\ ~run.requested /\ stages[queue[i].target].auth = "terminalized" =>
                stages[queue[i].target].status = "blocked"

(* Where the targeted entries of the queue come from. *)
LEMMA RetryOrigins ==
    ASSUME LifecycleInv, QueueInv, RetryStage
    PROVE  \E k \in DOMAIN stages, s \in States, new \in 1..MaxStages :
              /\ Replaced(k, s, new) /\ new \notin DOMAIN stages /\ new = Len(stages) + 1
              /\ \A i \in DOMAIN queue' : \/ queue'[i].target = new
                                          \/ \E j \in DOMAIN queue : queue'[i] = queue[j] /\ queue[j].tag # s
              /\ \A i, l \in DOMAIN queue' :
                    i # l /\ queue'[i].target = queue'[l].target =>
                       \E j, m \in DOMAIN queue :
                           j # m /\ queue'[i] = queue[j] /\ queue'[l] = queue[m]
<1>1. PICK k \in DOMAIN stages, s \in States, new \in 1..MaxStages : Replaced(k, s, new)
    BY RetryFacts
<1>2. queue' = Redirected(s, new) /\ new \in Nat
    BY <1>1 DEF Replaced
<1>3. new \notin DOMAIN stages /\ new # 0 /\ new = Len(stages) + 1
    BY <1>1 DEF Replaced, LifecycleInv, Shape
<1>4. PICK n \in DOMAIN queue' :
         /\ queue'[n] = [target |-> new, tag |-> s]
         /\ \A i \in DOMAIN queue' : i # n =>
               \E j \in DOMAIN queue : queue'[i] = queue[j] /\ queue[j].tag # s
         /\ \A i, l \in DOMAIN queue' : i # n /\ l # n /\ i # l =>
               \E j, m \in DOMAIN queue :
                   j # m /\ queue'[i] = queue[j] /\ queue'[l] = queue[m]
    BY <1>2, RedirectedRows DEF QueueInv
<1>5. \A i \in DOMAIN queue' : i # n => queue'[i].target # new
    BY <1>3, <1>4 DEF QueueInv, Sound
<1> QED BY <1>1, <1>3, <1>4, <1>5

(* A claim takes the head of the queue; the rest were there before. *)
LEMMA ClaimOrigins ==
    ASSUME QueueInv, Claim
    PROVE  /\ queue # <<>> /\ 1 \in DOMAIN queue /\ Head(queue) = queue[1]
           /\ \A i \in DOMAIN queue' :
                 i \in Nat /\ i + 1 \in DOMAIN queue /\ i + 1 # 1 /\ queue'[i] = queue[i + 1]
<1>1. queue # <<>> /\ queue' = Tail(queue)
    BY DEF Claim
<1> QED BY <1>1, TailRows DEF QueueInv

(* An entry that names an attempt without items was there before, or is the  *)
(* advance a restart puts back, and two of them come from two.               *)
LEMMA OtherOrigins ==
    ASSUME LifecycleInv, QueueInv, [Next]_vars, ~RetryStage, ~Claim,
           NEW i \in DOMAIN queue', queue'[i].target # 0, NEW l \in DOMAIN queue',
           queue'[l].target = queue'[i].target, Fresh(queue[i].target)'
    PROVE  /\ \/ \E j \in DOMAIN queue : queue[j].target = queue'[i].target
              \/ /\ queue'[i].target = adv.target /\ stages[adv.target].auth = "active"
                 /\ UNCHANGED stages /\ Restart
           /\ \/ i = l
              \/ \E j, m \in DOMAIN queue : /\ j # m /\ queue[j].target = queue'[i].target
                                            /\ queue[m].target = queue'[i].target
              \/ \E j \in DOMAIN queue : /\ queue[j].target = queue'[i].target
                                         /\ adv.target = queue'[i].target
<1>1. CASE UNCHANGED queue
    BY <1>1
<1>2. ASSUME NEW e \in Entry, queue' = Append(queue, e), e.target # queue'[i].target
      PROVE  i \in DOMAIN queue /\ l \in DOMAIN queue /\ queue'[i] = queue[i] /\ queue'[l] = queue[l]
  <2>1. /\ \A x \in DOMAIN queue' : x \in DOMAIN queue \/ queue'[x] = e
        /\ \A x \in DOMAIN queue : queue'[x] = queue[x]
      BY <1>2, AppendRows DEF QueueInv
  <2> QED BY <1>2, <2>1
<1>3. RunScoped \in Entry /\ RunScoped.target = 0
    BY DEF RunScoped, Entry
<1>4. CASE WakeRun \/ RetryRun \/ Reevaluate
    BY <1>2, <1>3, <1>4 DEF WakeRun, RetryRun, Reevaluate
<1>5. CASE ResolveApproval
    BY <1>1, <1>2, <1>3, <1>5, ApprovalMarks
<1>6. CASE ResolveConflict
  <2>1. PICK s \in States : queue' = Append(queue, [target |-> 0, tag |-> s])
      BY <1>6, ConflictJoins
  <2>2. PICK e : e = [target |-> 0, tag |-> s]
      OBVIOUS
  <2>3. e \in Entry /\ e.target = 0
      BY <2>2 DEF Entry
  <2> QED BY <1>2, <2>1, <2>2, <2>3
<1>7. CASE SettleInvoke
  <2>1. PICK k \in DOMAIN stages, t \in Tasks, v \in {"completed", "failed"} :
            /\ items' = [items EXCEPT ![k][t] = v]
            /\ queue' = IF stages[k].auth = "active" THEN Enqueued(k, stages[k].state)
                                                     ELSE Append(queue, RunScoped)
      BY <1>7 DEF SettleInvoke
  <2>2. k \in 1..MaxStages /\ stages[k].state \in States /\ k \in Nat
      BY StageFacts DEF LifecycleInv
  <2>3. items'[k][t] = v
      BY <2>1, <2>2 DEF LifecycleInv, Shape
  <2>4. k # queue'[i].target
      BY <2>3 DEF Fresh, Invoked
  <2>5. PICK e : e = [target |-> k, tag |-> stages[k].state]
      OBVIOUS
  <2>6. e \in Entry /\ e.target # queue'[i].target
      BY <2>2, <2>4, <2>5 DEF Entry
  <2> QED BY <1>2, <1>3, <2>1, <2>5, <2>6 DEF Enqueued
<1>8. CASE Restart
  <2>1. CASE CloseCancelled
    <3>1. queue' = <<>>
        BY <2>1 DEF CloseCancelled
    <3> QED BY <3>1
  <2>2. CASE RepairRun
    <3>1. Repaired /\ UNCHANGED stages
        BY <2>2, RepairQueue DEF QueueInv, RepairRun
    <3>2. InHand.target = adv.target
        BY DEF InHand
    <3> QED BY <1>8, <3>1, <3>2 DEF Repaired
  <2> QED BY <1>1, <1>8, <2>1, <2>2 DEF Restart
<1> QED BY <1>1, <1>4, <1>5, <1>6, <1>7, <1>8, QueueKinds, UnqueuedFacts

(* As long as nobody cancelled the run, only a retry of its state takes a    *)
(* blocked attempt without items out of its status.                          *)
LEMMA BlockedKept ==
    ASSUME LifecycleInv, TaskInv, RequestInv, AtInv, FailInv, [Next]_vars, ~run'.requested,
           NEW k \in DOMAIN stages, stages[k].status = "blocked", Fresh(k),
           \A j \in DOMAIN stages, s \in States, new \in 1..MaxStages :
              RetryStage /\ Replaced(j, s, new) => stages[k].state # s
    PROVE  stages'[k].status = "blocked"
<1>1. ~run.requested /\ ~run.settled /\ ~CancelRun
    BY NotRequested
<1>2. k \in DOMAIN stages'
    BY StagesKept DEF Kin
<1>3. OpenGate \/ OpenStage => stages[adv.stage].status = "pending"
    BY DEF OpenGate, OpenStage, Step, LifecycleInv, AdvInv
<1>4. FailStage \/ adv.pc = "complete_stage" => stages[adv.stage].status # "blocked"
    BY <1>1 DEF FailStage, Step, FailInv
<1>5. adv.pc = "end_stage" => Phases[adv.at] = <<>>
    BY DEF LifecycleInv, AdvInv, BareEnd
<1>6. Phases[stages[k].state] # <<>>
    BY DEF AtInv
<1>7. CASE RetryStage
  <2>1. PICK j \in DOMAIN stages, s \in States, new \in 1..MaxStages : Replaced(j, s, new)
      BY <1>7, RetryFacts
  <2>2. stages[k].state # s
      BY <1>7, <2>1
  <2>3. s = stages[j].state /\ stages'[k].status = IF k = j THEN "skipped" ELSE stages[k].status
      BY <2>1 DEF Replaced
  <2> QED BY <2>2, <2>3
<1>8. CASE ~RetryStage
    BY <1>1, <1>2, <1>3, <1>4, <1>5, <1>6, <1>8, StatusSteps DEF Fresh, Waiting
<1> QED BY <1>7, <1>8

(* An attempt without an item loses its authority when it is blocked, or to  *)
(* the advance aimed at it.                                                  *)
LEMMA FreshEnds ==
    ASSUME LifecycleInv, TaskInv, RequestInv, FailInv, [Next]_vars, ~run'.requested,
           NEW k \in DOMAIN stages, Fresh(k), stages[k].auth # "terminalized",
           stages'[k].auth = "terminalized", k # adv.target
    PROVE  Claim /\ stages[k].status = "blocked" /\ stages'[k].status = "blocked"
<1>1. ~run.requested /\ ~run.settled
    BY NotRequested
<1>2. k \in DOMAIN stages'
    BY StagesKept DEF Kin
<1>3. /\ Claim /\ k = Head(queue).target /\ stages[k].auth = "active"
      /\ stages[k].status \in Over \ {"completed"}
    BY <1>1, <1>2, AuthSteps
<1>4. stages[k].status # "failed"
    BY <1>1 DEF FailInv, Fresh
<1>5. stages[k].status = "blocked"
    BY <1>1, <1>3, <1>4 DEF FailInv, Over
<1>6. stages'[k].status = stages[k].status
    BY <1>3, ClaimReleases DEF Released
<1> QED BY <1>3, <1>5, <1>6

(* Every step preserves SingleInv. *)
LEMMA SingleStep ==
    ASSUME LifecycleInv, TaskInv, RequestInv, QueueInv, AtInv, FailInv, SingleInv, [Next]_vars
    PROVE  SingleInv'
<1>1. ASSUME NEW k, NEW j \in DOMAIN queue, queue[j].target = k, k # 0, Fresh(k)'
      PROVE  Fresh(k) /\ k \in DOMAIN stages
    BY <1>1, FreshKept DEF QueueInv, Sound
<1>2. ASSUME NEW k, NEW j \in DOMAIN queue, NEW m \in DOMAIN queue,
             queue[j].target = k, queue[m].target = k, k # 0, Fresh(k)'
      PROVE  j = m
    BY <1>1, <1>2 DEF SingleInv
<1>3. ASSUME NEW k, NEW j \in DOMAIN queue, queue[j].target = k, k # 0, Fresh(k)'
      PROVE  /\ k # adv.target /\ k \in DOMAIN stages /\ Fresh(k)
             /\ ~run.requested /\ stages[k].auth = "terminalized" => stages[k].status = "blocked"
    BY <1>1, <1>3 DEF SingleInv
<1>4. Aims
    BY AdvAims
<1>5. ASSUME NEW k, NEW j \in DOMAIN queue, queue[j].target = k, k # 0, Fresh(k)',
             ~run'.requested, stages'[k].auth = "terminalized",
             \A x \in DOMAIN stages, s \in States, new \in 1..MaxStages :
                RetryStage /\ Replaced(x, s, new) => stages[k].state # s
      PROVE  stages'[k].status = "blocked"
  <2>1. ~run.requested
      BY <1>5, NotRequested
  <2>2. /\ k # adv.target /\ k \in DOMAIN stages /\ Fresh(k)
        /\ stages[k].auth = "terminalized" => stages[k].status = "blocked"
      BY <1>3, <1>5, <2>1
  <2>3. CASE stages[k].auth = "terminalized"
      BY <1>5, <2>2, <2>3, BlockedKept
  <2>4. CASE stages[k].auth # "terminalized"
      BY <1>5, <2>2, <2>4, FreshEnds
  <2> QED BY <2>3, <2>4
<1>6. CASE RetryStage
  <2>1. PICK y \in DOMAIN stages, z \in States, n \in 1..MaxStages :
              /\ Replaced(y, z, n) /\ n \notin DOMAIN stages /\ n = Len(stages) + 1
              /\ \A i \in DOMAIN queue' : \/ queue'[i].target = n
                                          \/ \E j \in DOMAIN queue : queue'[i] = queue[j] /\ queue[j].tag # z
              /\ \A i, l \in DOMAIN queue' :
                    i # l /\ queue'[i].target = queue'[l].target =>
                       \E j, m \in DOMAIN queue :
                           j # m /\ queue'[i] = queue[j] /\ queue'[l] = queue[m]
      BY <1>6, RetryOrigins
  <2>2. \A x \in DOMAIN stages, s \in States, new \in 1..MaxStages : Replaced(x, s, new) => s = z
      BY <2>1 DEF Replaced
  <2>3. adv'.target = adv.target
      BY <1>6, OthersSteady DEF Command, Steady
  <2>4. adv.target # n /\ stages'[n].auth = "active"
    <3>1. adv.target = 0 \/ adv.target \in DOMAIN stages
        BY DEF LifecycleInv, Shape, AdvType
    <3>2. n # 0
        OBVIOUS
    <3> QED BY <2>1, <3>1, <3>2 DEF Replaced
  <2>5. ASSUME NEW i \in DOMAIN queue', NEW l \in DOMAIN queue', NEW k,
               queue'[i].target = k, queue'[l].target = k, k # 0, Fresh(k)'
        PROVE  i = l
      BY <1>2, <2>1, <2>5
  <2>6. ASSUME NEW i \in DOMAIN queue', NEW k, queue'[i].target = k, k # 0, Fresh(k)'
        PROVE  /\ adv'.target # k
               /\ ~run'.requested /\ stages'[k].auth = "terminalized" => stages'[k].status = "blocked"
    <3>1. CASE k = n
        BY <2>3, <2>4, <3>1
    <3>2. CASE k # n
      <4>1. PICK j \in DOMAIN queue : queue'[i] = queue[j] /\ queue[j].tag # z
          BY <2>1, <2>6, <3>2
      <4>2. queue[j].target = k /\ queue[j].tag = stages[k].state
          BY <2>6, <4>1 DEF QueueInv, Sound
      <4>3. k # adv.target
          BY <1>3, <2>6, <4>2
      <4> QED BY <1>5, <2>2, <2>3, <2>6, <4>1, <4>2, <4>3
    <3> QED BY <3>1, <3>2
  <2> QED BY <2>5, <2>6 DEF SingleInv, Fresh, Invoked
<1>7. CASE Claim /\ ~RetryStage
  <2>1. /\ queue # <<>> /\ 1 \in DOMAIN queue /\ Head(queue) = queue[1]
        /\ \A i \in DOMAIN queue' :
              i \in Nat /\ i + 1 \in DOMAIN queue /\ i + 1 # 1 /\ queue'[i] = queue[i + 1]
      BY <1>7, ClaimOrigins
  <2>2. ASSUME NEW i \in DOMAIN queue', NEW l \in DOMAIN queue', NEW k,
               queue'[i].target = k, queue'[l].target = k, k # 0, Fresh(k)'
        PROVE  i = l
    <3>1. i + 1 = l + 1 /\ i \in Nat /\ l \in Nat
        BY <1>2, <2>1, <2>2
    <3> QED BY <3>1
  <2>3. ASSUME NEW i \in DOMAIN queue', NEW k, queue'[i].target = k, k # 0, Fresh(k)'
        PROVE  /\ adv'.target # k
               /\ ~run'.requested /\ stages'[k].auth = "terminalized" => stages'[k].status = "blocked"
    <3>1. PICK j \in DOMAIN queue : j # 1 /\ queue[j].target = k
        BY <2>1, <2>3
    <3>2. queue[1].target # k
        BY <1>2, <2>1, <2>3, <3>1
    <3>3. adv'.target # k
        BY <1>3, <1>4, <2>1, <2>3, <3>1, <3>2 DEF Aims
    <3> QED BY <1>5, <1>7, <2>3, <3>1, <3>3
  <2> QED BY <2>2, <2>3 DEF SingleInv, Fresh, Invoked
<1>8. CASE ~Claim /\ ~RetryStage
  <2>1. ASSUME NEW i \in DOMAIN queue', NEW l \in DOMAIN queue', NEW k,
               queue'[i].target = k, queue'[l].target = k, k # 0, Fresh(k)'
        PROVE  i = l
    <3>1. Fresh(queue[i].target)'
        BY <2>1 DEF Fresh, Invoked
    <3>2. \/ i = l
          \/ \E j, m \in DOMAIN queue : j # m /\ queue[j].target = k /\ queue[m].target = k
          \/ \E j \in DOMAIN queue : queue[j].target = k /\ adv.target = k
        BY <1>8, <2>1, <3>1, OtherOrigins
    <3> QED BY <1>2, <1>3, <2>1, <3>2
  <2>2. ASSUME NEW i \in DOMAIN queue', NEW k, queue'[i].target = k, k # 0, Fresh(k)'
        PROVE  /\ adv'.target # k
               /\ ~run'.requested /\ stages'[k].auth = "terminalized" => stages'[k].status = "blocked"
    <3>1. Fresh(queue[i].target)'
        BY <2>2 DEF Fresh, Invoked
    <3>2. \/ \E j \in DOMAIN queue : queue[j].target = k
          \/ k = adv.target /\ stages[k].auth = "active" /\ UNCHANGED stages /\ Restart
        BY <1>8, <2>2, <3>1, OtherOrigins
    <3>3. CASE \E j \in DOMAIN queue : queue[j].target = k
      <4>1. PICK j \in DOMAIN queue : queue[j].target = k
          BY <3>3
      <4>2. adv'.target # k
          BY <1>3, <1>4, <1>8, <2>2, <4>1 DEF Aims
      <4> QED BY <1>5, <1>8, <2>2, <4>1, <4>2
    <3>4. CASE k = adv.target /\ stages[k].auth = "active" /\ UNCHANGED stages /\ Restart
      <4>1. adv'.target = 0
          BY <3>4 DEF Restart, Idle
      <4> QED BY <2>2, <3>4, <4>1
    <3> QED BY <3>2, <3>3, <3>4
  <2> QED BY <2>1, <2>2 DEF SingleInv, Fresh, Invoked
<1> QED BY <1>6, <1>7, <1>8

-----------------------------------------------------------------------------
(* What will wake the run                                                  *)

Stopped == {"failed", "blocked", "skipped"}

(* An AdvanceRun that will decide about the run: not one whose target lost   *)
(* its authority, or will lose it when the advance in flight ends.           *)
Effective(e) ==
    \/ e.target = 0
    \/ /\ e.target \in DOMAIN stages /\ stages[e.target].auth = "active"
       /\ stages[e.target].status \notin Stopped
       /\ stages[e.target].status = "completed" => adv.target # e.target

(* An item whose end will enqueue such an AdvanceRun. *)
Coming(k) == InFlight(k) # {} /\ (stages[k].status = "running" \/ stages[k].auth # "active")

(* A retried single-task stage that its task settled, the task or a later one *)
(* still at work on it, or dead before its AdvanceRun.                        *)
Tarnished(k) ==
    /\ SingleTask(stages[k].state) /\ stages[k].status \in {"completed", "failed"}
    /\ stages[k].auth \in {"active", "terminalized"}
    /\ \E t \in Tasks : workers[k][t] # "none" \/ items[k][t] = "pending"

Stirs == \/ \E i \in DOMAIN queue : Effective(queue[i])
         \/ \E k \in DOMAIN stages : Coming(k)
         \/ \E k \in DOMAIN stages : Tarnished(k)
         \/ Answerable \/ CostOfCrash
Woken == Stirs \/ run.status \in {"blocked"} \cup Closed

(* Between two advances something will wake the run or an operator was told  *)
(* to; so it is for an advance that will find the run blocked as it was.     *)
WakeInv == ~run.requested =>
    /\ adv.pc \in {"idle", "finish", "conflict_park"} \/ (adv.pc = "decide" /\ adv.was = "blocked")
          => Woken
    /\ adv.pc = "pause" => Stirs

(* The stages that have something in flight. *)
LEMMA BusyStages ==
    ASSUME LifecycleInv, FailInv, ~run.requested, NEW k \in DOMAIN stages, InFlight(k) # {}
    PROVE  \/ stages[k].status \in {"running", "blocked"}
           \/ stages[k].status \in {"completed", "failed"} /\ SingleTask(stages[k].state)
<1>1. stages[k].status \in StageStatus
    BY StageFacts DEF LifecycleInv
<1>2. stages[k].status \notin {"pending", "waiting_approval"}
    BY DEF LifecycleInv, ItemInv, Absent, InFlight, Waiting
<1>3. stages[k].status = "completed" => SingleTask(stages[k].state)
    BY DEF LifecycleInv, ItemInv, Clean, InFlight, Waiting
<1>4. stages[k].status # "skipped" /\ (stages[k].status = "failed" => SingleTask(stages[k].state))
    BY DEF LifecycleInv, ItemInv, FailInv
<1> QED BY <1>1, <1>2, <1>3, <1>4 DEF StageStatus, Over

(* What keeps what will wake the run. *)
LEMMA StirsKept ==
    ASSUME LifecycleInv, Kin, UNCHANGED <<approvals, restarts>>, parked => parked',
           \A k \in DOMAIN stages :
              /\ stages'[k].status = stages[k].status
              /\ \/ stages'[k].auth = stages[k].auth
                 \/ stages[k].auth = "active" /\ stages'[k].auth = "terminalized"
              /\ Coming(k) => InFlight(k)' # {}
              /\ Tarnished(k) => Tarnished(k)',
           \A i \in DOMAIN queue : Effective(queue[i]) => \E j \in DOMAIN queue' : Effective(queue[j])',
           Stirs
    PROVE  Stirs'
<1>1. CASE \E i \in DOMAIN queue : Effective(queue[i])
    BY <1>1 DEF Stirs
<1>2. CASE \E k \in DOMAIN stages : Coming(k)
  <2>1. PICK k \in DOMAIN stages : Coming(k)
      BY <1>2
  <2>2. k \in DOMAIN stages' /\ Coming(k)'
      BY <2>1 DEF Coming, Kin
  <2> QED BY <2>2 DEF Stirs
<1>3. CASE Answerable
  <2>1. PICK k \in DOMAIN stages : /\ stages[k].status = "waiting_approval"
                                   /\ Decided(stages[k].state, "requested")
      BY <1>3 DEF Answerable
  <2>2. /\ k \in DOMAIN stages' /\ stages'[k].status = "waiting_approval"
        /\ stages'[k].state = stages[k].state
      BY <2>1 DEF Kin
  <2>3. Decided(stages[k].state, "requested")'
      BY <2>1, <2>2 DEF Decided
  <2> QED BY <2>2, <2>3 DEF Stirs, Answerable
<1>4. CASE CostOfCrash
  <2>1. restarts' > 0
      BY <1>4 DEF CostOfCrash
  <2>2. CASE parked
      BY <2>1, <2>2 DEF Stirs, CostOfCrash
  <2>3. CASE \E k \in DOMAIN stages :
                \/ stages[k].status = "waiting_approval"
                \/ stages[k].status = "blocked" /\ stages[k].auth \in {"active", "terminalized"}
    <3>1. \E k \in DOMAIN stages' :
             \/ stages'[k].status = "waiting_approval"
             \/ stages'[k].status = "blocked" /\ stages'[k].auth \in {"active", "terminalized"}
        BY <2>3 DEF Kin
    <3> QED BY <2>1, <3>1 DEF Stirs, CostOfCrash
  <2> QED BY <1>4, <2>2, <2>3 DEF CostOfCrash
<1>5. CASE \E k \in DOMAIN stages : Tarnished(k)
    BY <1>5 DEF Stirs, Kin
<1> QED BY <1>1, <1>2, <1>3, <1>4, <1>5 DEF Stirs

(* The steps that leave the tasks and their items alone, up to an authority. *)
LEMMA TarnishKept ==
    ASSUME Kin, UNCHANGED <<items, workers>>, NEW k \in DOMAIN stages, Tarnished(k),
           stages'[k].status = stages[k].status,
           stages'[k].auth \in {stages[k].auth, "terminalized"}
    PROVE  Tarnished(k)'
BY DEF Tarnished, Kin

(* A run-scoped entry wakes the run. *)
LEMMA RunScopedStirs ==
    ASSUME QueueInv, NEW e \in Entry, e.target = 0, queue' = Append(queue, e) PROVE Stirs'
<1>1. Len(queue) + 1 \in DOMAIN queue' /\ queue'[Len(queue) + 1] = e
    BY AppendRows DEF QueueInv
<1>2. \E j \in DOMAIN queue' : queue'[j].target = 0
    BY <1>1
<1> QED BY <1>2 DEF Stirs, Effective

(* Entries that stay in the queue stay effective while stages and advance do. *)
LEMMA EffectiveKept ==
    ASSUME UNCHANGED stages, adv'.target = adv.target,
           \A i \in DOMAIN queue : i \in DOMAIN queue' /\ queue'[i] = queue[i]
    PROVE  \A i \in DOMAIN queue : Effective(queue[i]) => \E j \in DOMAIN queue' : Effective(queue[j])'
<1>1. ASSUME NEW i \in DOMAIN queue, Effective(queue[i]) PROVE i \in DOMAIN queue' /\ Effective(queue[i])'
    BY <1>1 DEF Effective
<1> QED BY <1>1

(* The commands wake the run. *)
LEMMA CommandStirs ==
    ASSUME LifecycleInv, RestType, QueueInv, RequestInv, GateInv, [Next]_vars, Command,
           ~run'.requested
    PROVE  Stirs'
<1>0. ~run.requested /\ ~CancelRun /\ ~Finalize
    BY NotRequested DEF Finalize
<1>1. RunScoped \in Entry /\ RunScoped.target = 0
    BY DEF RunScoped, Entry
<1>2. CASE ResolveApproval
  <2>1. PICK a \in DOMAIN approvals :
              /\ approvals[a].decision = "requested"
              /\ \/ \A k \in Of(approvals[a].state) : stages[k].status # "waiting_approval"
                 \/ queue' = Append(queue, RunScoped)
      BY <1>2, ApprovalMarks
  <2>2. PICK z \in States : z = approvals[a].state /\ approvals[a] \in Approval
    <3>1. approvals[a] \in Approval
        BY <2>1, ElementOfSeq, LenProperties DEF RestType
    <3> QED BY <3>1 DEF Approval
  <2>3. a \in Asked(z)
      BY <2>1, <2>2 DEF Asked, Approval
  <2>4. Held(z) # {}
      BY <2>3, AskedIsHeld
  <2>5. queue' = Append(queue, RunScoped)
      BY <2>1, <2>2, <2>4 DEF Held
  <2> QED BY <1>1, <2>5, RunScopedStirs
<1>3. CASE RetryStage
  <2>1. PICK k \in DOMAIN stages, s \in States, new \in 1..MaxStages : Replaced(k, s, new)
      BY <1>3, RetryFacts
  <2>2. /\ queue' = Redirected(s, new) /\ new \in DOMAIN stages' /\ new \in Nat
        /\ stages'[new].status = "pending" /\ stages'[new].auth = "active"
      BY <2>1 DEF Replaced
  <2>3. \E n \in DOMAIN queue' : queue'[n].target = new
      BY <2>2, RedirectedRows DEF QueueInv
  <2> QED BY <2>2, <2>3 DEF Stirs, Effective, Stopped
<1>4. CASE RetryRun
    BY <1>1, <1>4, RunScopedStirs DEF RetryRun
<1>5. CASE ResolveConflict
  <2>1. PICK s \in States : queue' = Append(queue, [target |-> 0, tag |-> s])
      BY <1>5, ConflictJoins
  <2>2. PICK e : e = [target |-> 0, tag |-> s]
      OBVIOUS
  <2>3. e \in Entry /\ e.target = 0
      BY <2>2 DEF Entry
  <2> QED BY <2>1, <2>2, <2>3, RunScopedStirs
<1> QED BY <1>0, <1>2, <1>3, <1>4, <1>5 DEF Command

(* An item that ends wakes the run if it was to. *)
LEMMA SettleStirs ==
    ASSUME LifecycleInv, TaskInv, QueueInv, SettleInvoke, Kin, Stirs
    PROVE  Stirs'
<1>1. PICK k \in DOMAIN stages, t \in Tasks, v \in {"completed", "failed"} :
          /\ items[k][t] = "running" /\ items' = [items EXCEPT ![k][t] = v]
          /\ workers' = IF SingleTask(stages[k].state) THEN workers
                        ELSE [workers EXCEPT ![k][t] = "none"]
          /\ queue' = IF stages[k].auth = "active" THEN Enqueued(k, stages[k].state)
                                                   ELSE Append(queue, RunScoped)
    BY DEF SettleInvoke
<1>2. UNCHANGED <<stages, approvals, adv, parked, restarts>>
    BY DEF SettleInvoke, rest
<1>3. RunScoped \in Entry /\ RunScoped.target = 0
    BY DEF RunScoped, Entry
<1>4. CASE stages[k].auth # "active"
    BY <1>1, <1>3, <1>4, RunScopedStirs
<1>5. CASE stages[k].auth = "active"
  <2>1. PICK e : e = [target |-> k, tag |-> stages[k].state]
      OBVIOUS
  <2>2. k \in Nat /\ stages[k].state \in States /\ k \in 1..MaxStages
      BY StageFacts DEF LifecycleInv
  <2>3. e \in Entry /\ queue' = Append(queue, e) /\ e.target = k
      BY <1>1, <1>5, <2>1, <2>2 DEF Entry, Enqueued
  <2>4. /\ Len(queue) + 1 \in DOMAIN queue' /\ queue'[Len(queue) + 1] = e
        /\ \A i \in DOMAIN queue : i \in DOMAIN queue' /\ queue'[i] = queue[i]
      BY <2>3, AppendRows DEF QueueInv
  <2>7. CASE stages[k].status = "running"
    <3>1. \E j \in DOMAIN queue' : queue'[j].target = k
        BY <2>3, <2>4
    <3> QED BY <1>2, <1>5, <2>7, <3>1 DEF Stirs, Effective, Stopped
  <2>8. CASE stages[k].status # "running"
    <3>1. ~Coming(k)
        BY <1>5, <2>8 DEF Coming
    <3>2. ASSUME NEW j \in DOMAIN stages, Coming(j) PROVE InFlight(j)' # {}
      <4>1. j # k /\ j \in 1..MaxStages
          BY <3>1, <3>2, StageFacts DEF LifecycleInv
      <4>2. items'[j] = items[j]
          BY <1>1, <2>2, <4>1 DEF LifecycleInv, Shape
      <4> QED BY <3>2, <4>2 DEF Coming, InFlight
    <3>3. ASSUME NEW j \in DOMAIN stages, Tarnished(j) PROVE Tarnished(j)'
      <4>1. PICK u \in Tasks : workers[j][u] # "none" \/ items[j][u] = "pending"
          BY <3>3 DEF Tarnished
      <4>2. SingleTask(stages[j].state) /\ j \in 1..MaxStages
          BY <3>3, StageFacts DEF Tarnished, LifecycleInv
      <4>3. workers'[j][u] = workers[j][u]
          BY <1>1, <2>2, <4>2 DEF TaskInv
      <4>4. items[j][u] = "pending" => items'[j][u] = "pending"
          BY <1>1, <2>2, <4>2 DEF LifecycleInv, Shape
      <4> QED BY <1>2, <3>3, <4>1, <4>3, <4>4 DEF Tarnished
    <3>4. \A i \in DOMAIN queue : Effective(queue[i]) => \E j \in DOMAIN queue' : Effective(queue[j])'
        BY <1>2, <2>4, EffectiveKept
    <3> QED BY <1>2, <3>2, <3>3, <3>4, StirsKept
  <2> QED BY <2>7, <2>8
<1> QED BY <1>4, <1>5

(* An item that starts, or is put back, is still one whose end is to come. *)
LEMMA ClaimInvokeStirs ==
    ASSUME LifecycleInv, TaskInv, QueueInv, ClaimInvoke \/ Requeue, Kin, Stirs
    PROVE  Stirs'
<1>1. PICK k \in DOMAIN stages, t \in Tasks, v \in Waiting, w \in {"busy", "none"} :
          /\ items' = [items EXCEPT ![k][t] = v] /\ workers' = [workers EXCEPT ![k][t] = w]
          /\ w = "busy" \/ v = "pending"
    BY DEF ClaimInvoke, Requeue, Waiting
<1>2. UNCHANGED <<stages, approvals, adv, parked, restarts, queue>>
    BY DEF ClaimInvoke, Requeue
<1>3. k \in 1..MaxStages /\ items \in [1..MaxStages -> [Tasks -> ItemStatus]]
    BY StageFacts DEF LifecycleInv, Shape
<1>4. ASSUME NEW j \in DOMAIN stages, Coming(j) PROVE InFlight(j)' # {}
  <2>1. j \in 1..MaxStages
      BY StageFacts DEF LifecycleInv
  <2>2. PICK u \in Tasks : items[j][u] \in Waiting
      BY <1>4 DEF Coming, InFlight
  <2>3. items'[j][u] \in Waiting
      BY <1>1, <1>3, <2>1, <2>2
  <2> QED BY <2>2, <2>3 DEF InFlight
<1>5. \A i \in DOMAIN queue : Effective(queue[i]) => \E j \in DOMAIN queue' : Effective(queue[j])'
    BY <1>2, EffectiveKept
<1>6. ASSUME NEW j \in DOMAIN stages, Tarnished(j) PROVE Tarnished(j)'
  <2>1. PICK u \in Tasks : workers[j][u] # "none" \/ items[j][u] = "pending"
      BY <1>6 DEF Tarnished
  <2>2. j \in 1..MaxStages
      BY StageFacts DEF LifecycleInv
  <2>3. workers'[j][u] # "none" \/ items'[j][u] = "pending"
      BY <1>1, <1>3, <2>1, <2>2 DEF TaskInv
  <2> QED BY <1>2, <1>6, <2>3 DEF Tarnished
<1> QED BY <1>2, <1>4, <1>5, <1>6, StirsKept

(* A task that settles its stage leaves the run what will wake it, or the    *)
(* stage is one whose wakeup an error may cost.                              *)
LEMMA SettleSingleStirs ==
    ASSUME LifecycleInv, TaskInv, QueueInv, SettleSingle, Kin, Stirs
    PROVE  Stirs'
<1>1. UNCHANGED <<items, approvals, parked, queue, adv, restarts>>
    BY SingleMarks
<1>2. PICK k \in DOMAIN stages, t \in Tasks, st \in {"completed", "failed"} :
          /\ Marked(k, st) /\ SingleTask(stages[k].state) /\ ~Fresh(k)
          /\ workers' = [workers EXCEPT ![k][t] = "settled"]
  <2>1. PICK k \in DOMAIN stages, t \in Tasks, st \in {"completed", "failed"} :
            /\ workers[k][t] = "busy" /\ SingleTask(stages[k].state) /\ SetStage(k, st)
            /\ workers' = [workers EXCEPT ![k][t] = "settled"]
      BY DEF SettleSingle
  <2>2. Marked(k, st)
      BY <2>1, SetStageMarks DEF LifecycleInv, StageStatus, Over
  <2>3. k \in 1..MaxStages
      BY StageFacts DEF LifecycleInv
  <2>4. ~Fresh(k)
      BY <2>1, <2>3 DEF TaskInv, Fresh, Invoked
  <2> QED BY <2>1, <2>2, <2>4
<1>3. /\ k \in DOMAIN stages' /\ stages'[k].status = st /\ SingleTask(stages'[k].state)
      /\ stages'[k].auth = stages[k].auth
      /\ \A j \in DOMAIN stages :
            /\ stages'[j].auth = stages[j].auth /\ stages'[j].state = stages[j].state
            /\ j # k => stages'[j].status = stages[j].status
    BY <1>2 DEF Marked
<1>4. workers'[k][t] = "settled"
    BY <1>2, StageFacts DEF TaskInv, LifecycleInv
<1>5. CASE stages[k].auth \in {"active", "terminalized"}
    BY <1>3, <1>4, <1>5 DEF Stirs, Tarnished
<1>6. CASE stages[k].auth \notin {"active", "terminalized"}
  <2>1. CASE \E i \in DOMAIN queue : Effective(queue[i])
    <3>1. PICK i \in DOMAIN queue : Effective(queue[i])
        BY <2>1
    <3>2. queue'[i].target = queue[i].target /\ i \in DOMAIN queue' /\ adv'.target = adv.target
        BY <1>1
    <3>3. queue[i].target # k \/ queue[i].target = 0
        BY <1>6, <3>1 DEF Effective
    <3>4. Effective(queue[i])'
        BY <1>3, <3>1, <3>2, <3>3 DEF Effective, Kin
    <3> QED BY <3>2, <3>4 DEF Stirs
  <2>2. CASE \E j \in DOMAIN stages : Coming(j)
    <3>1. PICK j \in DOMAIN stages : Coming(j)
        BY <2>2
    <3>2. InFlight(j)' # {}
        BY <1>1, <3>1 DEF Coming, InFlight
    <3>3. j \in DOMAIN stages' /\ Coming(j)'
        BY <1>3, <1>6, <3>1, <3>2 DEF Coming, Kin
    <3> QED BY <3>3 DEF Stirs
  <2>3. CASE Answerable
    <3>1. PICK j \in DOMAIN stages : /\ stages[j].status = "waiting_approval"
                                     /\ Decided(stages[j].state, "requested")
        BY <2>3 DEF Answerable
    <3>2. j # k
        BY <1>2, <3>1 DEF LifecycleInv, ItemInv, Absent, Fresh, Invoked
    <3>3. j \in DOMAIN stages' /\ stages'[j].status = "waiting_approval"
        BY <1>3, <3>1, <3>2 DEF Kin
    <3>4. Decided(stages[j].state, "requested")'
        BY <1>1, <1>3, <3>1 DEF Decided
    <3> QED BY <3>3, <3>4 DEF Stirs, Answerable
  <2>4. CASE CostOfCrash
    <3>1. CASE parked
        BY <1>1, <2>4, <3>1 DEF Stirs, CostOfCrash
    <3>2. CASE ~parked
      <4>1. PICK j \in DOMAIN stages :
                \/ stages[j].status = "waiting_approval"
                \/ stages[j].status = "blocked" /\ stages[j].auth \in {"active", "terminalized"}
          BY <2>4, <3>2 DEF CostOfCrash
      <4>2. j # k
          BY <1>2, <1>6, <4>1 DEF LifecycleInv, ItemInv, Absent, Fresh, Invoked
      <4>3. /\ j \in DOMAIN stages'
            /\ \/ stages'[j].status = "waiting_approval"
               \/ stages'[j].status = "blocked" /\ stages'[j].auth \in {"active", "terminalized"}
          BY <1>3, <4>1, <4>2 DEF Kin
      <4> QED BY <1>1, <2>4, <4>3 DEF Stirs, CostOfCrash
    <3> QED BY <3>1, <3>2
  <2>5. CASE \E j \in DOMAIN stages : Tarnished(j)
    <3>1. PICK j \in DOMAIN stages : Tarnished(j)
        BY <2>5
    <3>2. j # k /\ j \in 1..MaxStages /\ k \in 1..MaxStages
        BY <1>6, <3>1, StageFacts DEF Tarnished, LifecycleInv
    <3>3. workers'[j] = workers[j] /\ items'[j] = items[j]
        BY <1>1, <1>2, <3>2 DEF TaskInv
    <3>4. j \in DOMAIN stages' /\ Tarnished(j)'
        BY <1>3, <3>1, <3>2, <3>3 DEF Tarnished, Kin
    <3> QED BY <3>4 DEF Stirs
  <2> QED BY <2>1, <2>2, <2>3, <2>4, <2>5 DEF Stirs
<1> QED BY <1>5, <1>6

(* An entry that is refused was not to wake the run. *)
LEMMA ClaimWakes ==
    ASSUME LifecycleInv, QueueInv, Claim, Kin, Woken,
           adv'.pc = "idle" \/ (adv'.pc = "decide" /\ adv'.was = "blocked")
    PROVE  Woken'
<1>1. PICK e : e = Head(queue)
    OBVIOUS
<1>2. /\ 1 \in DOMAIN queue /\ queue[1] = e /\ UNCHANGED <<run, items, approvals, parked, restarts>>
      /\ \A j \in DOMAIN queue : j # 1 => \E i \in DOMAIN queue' : queue'[i] = queue[j]
  <2>1. queue # <<>> /\ queue' = Tail(queue)
      BY DEF Claim
  <2>2. /\ 1 \in DOMAIN queue /\ queue[1] = e
        /\ \A j \in DOMAIN queue : j # 1 => j - 1 \in DOMAIN queue' /\ queue'[j - 1] = queue[j]
      BY <1>1, <2>1, TailRows DEF QueueInv
  <2>3. \A j \in DOMAIN queue : j # 1 => \E i \in DOMAIN queue' : queue'[i] = queue[j]
      BY <2>2
  <2>4. UNCHANGED <<run, items, approvals, parked, restarts>>
      BY DEF Claim, rest
  <2> QED BY <2>2, <2>3, <2>4
<1>3. CASE run.status \in {"blocked"} \cup Closed
    BY <1>2, <1>3 DEF Woken
<1>4. CASE run.status \notin {"blocked"} \cup Closed
  <2>1. Stirs
      BY <1>4 DEF Woken
  <2>2. /\ adv'.target = adv.target
        /\ \/ /\ UNCHANGED stages
              /\ e.target # 0 /\ ~(e.target \in DOMAIN stages /\ stages[e.target].auth = "active")
           \/ /\ e.target \in DOMAIN stages
              /\ stages[e.target].status \in Over \ {"completed"}
              /\ stages' = [stages EXCEPT ![e.target].auth = "terminalized"]
              /\ stages[e.target].auth = "active" /\ e.target # 0
    <3>1. adv'.pc = "decide" => adv'.was = run.status
        BY DEF Claim, Idle
    <3>2. adv'.pc = "idle"
        BY <1>4, <3>1
    <3> QED BY <1>1, <1>4, <3>2 DEF Claim, Idle
  <2>3. \A k \in DOMAIN stages :
              /\ stages'[k].status = stages[k].status
              /\ stages'[k].auth = stages[k].auth \/
                    (k = e.target /\ stages[k].auth = "active" /\ stages'[k].auth = "terminalized"
                       /\ stages[k].status \in Over \ {"completed"})
    <3>1. CASE UNCHANGED stages
        BY <3>1
    <3>2. CASE ~UNCHANGED stages
        BY <1>1, <2>2, <3>2, ClaimReleases DEF Released
    <3> QED BY <3>1, <3>2
  <2>4. ~Effective(e)
      BY <2>2 DEF Effective, Over, Stopped
  <2>5. ASSUME NEW f, Effective(f) PROVE Effective(f)'
      BY <2>2, <2>3, <2>5 DEF Effective, Over, Stopped, Kin
  <2>6. ASSUME NEW i \in DOMAIN queue, Effective(queue[i])
        PROVE  \E j \in DOMAIN queue' : Effective(queue[j])'
    <3>1. PICK f : f = queue[i]
        OBVIOUS
    <3>2. Effective(f)' /\ i # 1
        BY <1>2, <2>4, <2>5, <2>6, <3>1
    <3>3. PICK j \in DOMAIN queue' : queue'[j] = f
        BY <1>2, <3>1, <3>2
    <3> QED BY <3>2, <3>3 DEF Effective
  <2>7. \A k \in DOMAIN stages : Coming(k) => InFlight(k)' # {}
      BY <1>2 DEF Coming, InFlight
  <2>8. \A k \in DOMAIN stages : Tarnished(k) => Tarnished(k)'
      BY <1>2, <2>3, TarnishKept DEF Claim, rest
  <2>9. Stirs'
      BY <1>2, <2>1, <2>3, <2>6, <2>7, <2>8, StirsKept
  <2> QED BY <2>9 DEF Woken
<1> QED BY <1>3, <1>4

(* An advance that ends terminalizes no authority another entry relies on. *)
LEMMA TerminalizeWakes ==
    ASSUME LifecycleInv, QueueInv, Terminalize, Kin, Woken
    PROVE  Woken'
<1>1. UNCHANGED <<run, items, approvals, parked, restarts, queue>> /\ adv'.target = 0
    BY DEF Terminalize, rest, Idle
<1>2. CASE run.status \in {"blocked"} \cup Closed
    BY <1>1, <1>2 DEF Woken
<1>3. CASE run.status \notin {"blocked"} \cup Closed
  <2>1. \A k \in DOMAIN stages :
              /\ stages'[k].status = stages[k].status
              /\ stages'[k].auth = stages[k].auth \/
                    (k = adv.target /\ stages[k].auth = "active" /\ stages'[k].auth = "terminalized"
                       /\ stages[k].status \in Over)
    <3>1. CASE UNCHANGED stages
        BY <3>1
    <3>2. CASE ~UNCHANGED stages
        BY <3>2, TerminalizeReleases DEF Released
    <3> QED BY <3>1, <3>2
  <2>2. ASSUME NEW f, Effective(f) PROVE Effective(f)'
    <3>1. CASE f.target = 0
        BY <3>1 DEF Effective
    <3>2. CASE f.target # 0
      <4>1. PICK k \in DOMAIN stages : /\ k = f.target /\ stages[k].auth = "active"
                                       /\ stages[k].status \notin Stopped
                                       /\ stages[k].status = "completed" => adv.target # k
          BY <2>2, <3>2 DEF Effective
      <4>2. k = adv.target => stages[k].status \notin Over
          BY <4>1 DEF Over, Stopped
      <4>3. stages'[k].auth = "active" /\ stages'[k].status = stages[k].status /\ k \in DOMAIN stages'
          BY <2>1, <4>1, <4>2 DEF Kin
      <4> QED BY <1>1, <3>2, <4>1, <4>3 DEF Effective
    <3> QED BY <3>1, <3>2
  <2>3. ASSUME NEW i \in DOMAIN queue, Effective(queue[i])
        PROVE  \E j \in DOMAIN queue' : Effective(queue[j])'
    <3>1. PICK f : f = queue[i]
        OBVIOUS
    <3>2. Effective(f)' /\ i \in DOMAIN queue' /\ queue'[i] = f
        BY <1>1, <2>2, <2>3, <3>1
    <3> QED BY <3>2 DEF Effective
  <2>4. \A k \in DOMAIN stages : Coming(k) => InFlight(k)' # {}
      BY <1>1 DEF Coming, InFlight
  <2>5. Stirs
      BY <1>3 DEF Woken
  <2>6. \A k \in DOMAIN stages : Tarnished(k) => Tarnished(k)'
      BY <1>1, <2>1, TarnishKept DEF Terminalize, rest
  <2>7. Stirs'
      BY <1>1, <2>1, <2>3, <2>4, <2>5, <2>6, StirsKept
  <2> QED BY <2>7 DEF Woken
<1> QED BY <1>2, <1>3

(* An advance that leaves the run alone knows what the run waits for. *)
LEMMA DecideWakes ==
    ASSUME LifecycleInv, RestType, QueueInv, GateInv, Decide, Kin, ~run.requested,
           adv'.pc \in {"idle", "finish"}, adv.was = "blocked" => Woken
    PROVE  Woken'
<1>1. /\ UNCHANGED <<run, stages, items, workers, approvals, parked, restarts, queue>>
      /\ adv.pc = "decide"
    BY DecideGoes DEF Decide, tables
<1>2. Finish
    BY DecideGoes DEF Onward
<1>3. adv'.target = adv.target
    BY <1>2, Goes
<1>4. \A i \in DOMAIN queue : Effective(queue[i]) => \E j \in DOMAIN queue' : Effective(queue[j])'
    BY <1>1, <1>3, EffectiveKept
<1>5. \A k \in DOMAIN stages : Coming(k) => InFlight(k)' # {}
    BY <1>1 DEF Coming, InFlight
<1>6. Stirs => Stirs'
    BY <1>1, <1>4, <1>5, TarnishKept, StirsKept
<1>7. Woken => Woken'
    BY <1>1, <1>6 DEF Woken
<1>8. \/ WaitOn
      \/ StageStopped /\ adv.was = "blocked"
  <2>1. \A pc \in Steps : \A k, todo : Do(pc, k, todo) => adv'.pc = pc
      BY Goes
  <2>2. \A pc \in {"enqueue", "evaluate", "complete_run", "block", "open", "create", "gate",
                   "fail_stage", "complete_stage"} : \A k, todo : ~Do(pc, k, todo)
      BY <2>1 DEF Steps
  <2> QED BY <2>2 DEF Decide, FanOut, SettleStage, Reconsider, StageStopped, ReopenGate, Enter
<1>9. CASE StageStopped /\ adv.was = "blocked"
    BY <1>7, <1>9
<1>10. CASE WaitOn
  <2>1. PICK k : k = Current
      OBVIOUS
  <2>2. /\ k # 0 /\ stages[k].status \in {"running", "waiting_approval"}
        /\ stages[k].status = "running" => InFlight(k) # {}
      BY <1>10, <2>1 DEF WaitOn, At
  <2>3. k \in DOMAIN stages /\ stages[k].state \in States
      BY <1>1, <2>1, <2>2, CurrentFacts, StageFacts DEF LifecycleInv
  <2>4. CASE stages[k].status = "running"
      BY <1>6, <1>7, <2>2, <2>3, <2>4 DEF Woken, Stirs, Coming
  <2>5. CASE stages[k].status = "waiting_approval"
    <3>1. CASE restarts > 0
        BY <1>7, <2>3, <2>5, <3>1 DEF Woken, Stirs, CostOfCrash
    <3>2. CASE restarts = 0
      <4>1. PICK s \in States : s = stages[k].state
          BY <2>3
      <4>2. k \in Held(s)
          BY <2>3, <2>5, <4>1 DEF Held, Of
      <4>3. Cardinality(Held(s)) # 0
          BY <4>2, GateSets, FS_EmptySet
      <4>4. Owed(s) = 0
          BY <1>1 DEF Owed
      <4>5. Cardinality(Asked(s)) + Owed(s) = Cardinality(Held(s))
          BY <3>2 DEF GateInv, Balanced
      <4>6. Asked(s) # {}
          BY <4>3, <4>4, <4>5, GateSets, FS_EmptySet
      <4>7. Decided(stages[k].state, "requested")
          BY <4>1, <4>6 DEF Asked, Decided
      <4>8. Answerable
          BY <2>3, <2>5, <4>7 DEF Answerable
      <4> QED BY <1>7, <4>8 DEF Woken, Stirs
    <3>3. restarts \in Nat
        BY DEF RestType
    <3> QED BY <3>1, <3>2, <3>3
  <2> QED BY <2>2, <2>4, <2>5
<1> QED BY <1>8, <1>9, <1>10

(* After a restart the run has work or pays the price. *)
LEMMA RepairWakes ==
    ASSUME LifecycleInv, QueueInv, FailInv, RestType, ~run.requested, restarts' > 0, adv' = Idle,
           RepairRun, UNCHANGED parked, QueueInv', SingleInv', FailInv', ~run'.requested
    PROVE  Stirs'
<1>1. Repaired /\ UNCHANGED stages
    BY RepairQueue DEF QueueInv, RepairRun
<1>2. items' = [k \in 1..MaxStages |-> [t \in Tasks |->
               IF items[k][t] = "running" THEN "pending" ELSE items[k][t]]]
    BY DEF RepairRun
<1>3. CASE parked
    BY <1>3 DEF Stirs, CostOfCrash
<1>4. ASSUME NEW k \in DOMAIN stages, stages[k].status = "blocked",
             stages[k].auth \in {"active", "terminalized"}
      PROVE  Stirs'
  <2>1. \E j \in DOMAIN stages' : stages'[j].status = "blocked" /\ stages'[j].auth \in {"active", "terminalized"}
      BY <1>1, <1>4
  <2> QED BY <2>1 DEF Stirs, CostOfCrash
<1>5. CASE \E k \in DOMAIN stages : InFlight(k) # {}
  <2>1. PICK k \in DOMAIN stages : InFlight(k) # {}
      BY <1>5
  <2>2. /\ \/ stages[k].status \in {"running", "blocked"}
           \/ stages[k].status \in {"completed", "failed"} /\ SingleTask(stages[k].state)
        /\ k \in 1..MaxStages
      BY <2>1, BusyStages, StageFacts DEF LifecycleInv
  <2>3. InFlight(k)' # {}
    <3>1. PICK t \in Tasks : items[k][t] \in Waiting
        BY <2>1 DEF InFlight
    <3>2. items'[k][t] \in Waiting
        BY <1>2, <2>2, <3>1 DEF Waiting
    <3> QED BY <3>2 DEF InFlight
  <2>4. CASE stages[k].status = "running" \/ stages[k].auth # "active"
    <3>1. k \in DOMAIN stages' /\ Coming(k)'
        BY <1>1, <2>3, <2>4 DEF Coming
    <3> QED BY <3>1 DEF Stirs
  <2>5. CASE stages[k].status = "blocked" /\ stages[k].auth = "active"
      BY <1>4, <2>5
  <2>6. CASE /\ stages[k].status \in {"completed", "failed"} /\ SingleTask(stages[k].state)
             /\ stages[k].auth = "active"
    <3>1. PICK t \in Tasks : items[k][t] \in Waiting
        BY <2>1 DEF InFlight
    <3>2. items'[k][t] = "pending"
        BY <1>2, <2>2, <3>1 DEF Waiting
    <3> QED BY <1>1, <2>6, <3>2 DEF Stirs, Tarnished
  <2> QED BY <2>2, <2>4, <2>5, <2>6
<1>6. CASE ~parked /\ \A k \in DOMAIN stages : InFlight(k) = {}
  <2>1. queue' # <<>> /\ queue' \in Seq(Entry)
      BY <1>1, <1>6 DEF Repaired
  <2>2. 1 \in DOMAIN queue'
      BY <2>1, TailRows
  <2>3. PICK k : k = queue'[1].target
      OBVIOUS
  <2>4. CASE k = 0
      BY <2>2, <2>3, <2>4 DEF Stirs, Effective
  <2>5. CASE k # 0
    <3>1. Invoked(k) = {}
        BY <1>1, <1>6, <2>2, <2>3, <2>5 DEF Repaired
    <3>2. Sound(queue[1])'
        BY <2>2 DEF QueueInv
    <3>3. k \in DOMAIN stages /\ stages[k].auth \in {"active", "terminalized"}
        BY <1>1, <2>3, <2>5, <3>2 DEF Sound
    <3>4. k \in 1..MaxStages
        BY <3>3, StageFacts DEF LifecycleInv
    <3>5. Fresh(k)'
        BY <1>2, <3>1, <3>4 DEF Fresh, Invoked
    <3>6. CASE stages[k].auth = "terminalized"
      <4>1. Fresh(queue[1].target)'
          BY <2>3, <3>5 DEF Fresh, Invoked
      <4>2. stages'[k].status = "blocked"
          BY <1>1, <2>2, <2>3, <2>5, <3>6, <4>1 DEF SingleInv
      <4> QED BY <1>1, <1>4, <3>3, <4>2
    <3>7. CASE stages[k].auth = "active" /\ stages[k].status = "blocked"
        BY <1>4, <3>3, <3>7
    <3>8. CASE stages[k].auth = "active" /\ stages[k].status # "blocked"
      <4>1. stages[k].status # "skipped"
          BY <3>3, <3>8 DEF FailInv
      <4>3. stages[k].status # "failed"
          BY <3>1, <3>3 DEF FailInv
      <4>4. adv'.target = 0
          BY DEF Idle
      <4>5. Effective(queue[1])'
          BY <1>1, <2>3, <2>5, <3>3, <3>8, <4>1, <4>3, <4>4 DEF Effective, Stopped
      <4> QED BY <2>2, <4>5 DEF Stirs
    <3> QED BY <3>3, <3>6, <3>7, <3>8
  <2> QED BY <2>4, <2>5
<1> QED BY <1>3, <1>5, <1>6

(* The last writes of an advance. *)
LEMMA EndingWakes ==
    ASSUME LifecycleInv, QueueInv, Ending, Kin, ~run.requested,
           adv.pc = "conflict_park" => Woken, adv.pc = "pause" => Stirs
    PROVE  Woken'
<1>1. run \in [status : RunStatus, state : States, requested : BOOLEAN, settled : BOOLEAN]
    BY DEF LifecycleInv, Shape
<1>2. CASE PromptFails \/ CloseRun
  <2>1. run'.status \in {"blocked", "completed"}
      BY <1>1, <1>2 DEF PromptFails, CloseRun, SetRun
  <2> QED BY <2>1 DEF Woken, Closed
<1>3. CASE WakeRun
  <2>1. RunScoped \in Entry /\ RunScoped.target = 0
      BY DEF RunScoped, Entry
  <2>2. Stirs'
      BY <1>3, <2>1, RunScopedStirs DEF WakeRun
  <2> QED BY <2>2 DEF Woken
<1>4. CASE PauseRun \/ ParkCursor
  <2>1. /\ UNCHANGED <<stages, items, workers, approvals, restarts, queue>> /\ (parked => parked')
        /\ adv.pc \in {"pause", "conflict_park"} /\ (adv.pc = "conflict_park" => UNCHANGED run)
      BY <1>4 DEF PauseRun, ParkCursor, rest
  <2>2. adv'.target = adv.target
      BY EndingGoes
  <2>3. \A i \in DOMAIN queue : Effective(queue[i]) => \E j \in DOMAIN queue' : Effective(queue[j])'
      BY <2>1, <2>2, EffectiveKept
  <2>4. \A k \in DOMAIN stages : Coming(k) => InFlight(k)' # {}
      BY <2>1 DEF Coming, InFlight
  <2>5. Stirs => Stirs'
      BY <2>1, <2>3, <2>4, TarnishKept, StirsKept
  <2> QED BY <2>1, <2>5 DEF Woken
<1> QED BY <1>2, <1>3, <1>4 DEF Ending

(* Every step preserves WakeInv. *)
LEMMA WakeStep ==
    ASSUME LifecycleInv, TaskInv, RestType, QueueInv, RequestInv, AtInv, FailInv, GateInv,
           SingleInv, WakeInv, [Next]_vars, QueueInv', FailInv', SingleInv'
    PROVE  WakeInv'
<1> SUFFICES ASSUME ~run'.requested
             PROVE  /\ adv'.pc \in {"idle", "finish", "conflict_park"}
                          \/ (adv'.pc = "decide" /\ adv'.was = "blocked") => Woken'
                    /\ adv'.pc = "pause" => Stirs'
    BY DEF WakeInv
<1>0. ~run.requested /\ ~run.settled /\ ~CancelRun /\ Kin
    BY NotRequested, StagesKept
<1>1. /\ adv.pc \in {"idle", "finish", "conflict_park"} \/ (adv.pc = "decide" /\ adv.was = "blocked")
            => Woken
      /\ adv.pc = "pause" => Stirs
    BY <1>0 DEF WakeInv
<1>2. run \in [status : RunStatus, state : States, requested : BOOLEAN, settled : BOOLEAN]
    BY DEF LifecycleInv, Shape
<1>3. CASE Command
    BY <1>3, CommandStirs DEF Woken
<1>4. CASE Tasking
  <2>1. adv'.pc = adv.pc /\ adv'.was = adv.was /\ UNCHANGED run
      BY <1>4, TaskingFacts
  <2>2. Reevaluate => Stirs'
    <3>1. RunScoped \in Entry /\ RunScoped.target = 0
        BY DEF RunScoped, Entry
    <3> QED BY <3>1, RunScopedStirs DEF Reevaluate
  <2>3. Stirs => Stirs'
      BY <1>0, <1>4, <2>2, SettleStirs, SettleSingleStirs, ClaimInvokeStirs DEF Tasking
  <2> QED BY <1>1, <2>1, <2>3 DEF Woken
<1>5. CASE UNCHANGED vars
  <2>1. UNCHANGED <<run, stages, items, workers, approvals, parked, queue, adv, restarts>>
      BY <1>5 DEF vars, tables
  <2>2. \A i \in DOMAIN queue : Effective(queue[i]) => \E j \in DOMAIN queue' : Effective(queue[j])'
      BY <2>1, EffectiveKept
  <2>3. \A k \in DOMAIN stages : Coming(k) => InFlight(k)' # {}
      BY <2>1 DEF Coming, InFlight
  <2>4. Stirs => Stirs'
      BY <1>0, <2>1, <2>2, <2>3, TarnishKept, StirsKept
  <2> QED BY <1>1, <2>1, <2>4 DEF Woken
<1>6. CASE Claim
  <2>1. adv.pc = "idle" /\ adv'.pc \in {"idle", "decide"}
      BY <1>6, OtherGoes
  <2> QED BY <1>0, <1>1, <1>6, <2>1, ClaimWakes
<1>7. CASE Terminalize
  <2>1. adv.pc = "finish" /\ adv'.pc = "idle"
      BY <1>7, OtherGoes
  <2> QED BY <1>0, <1>1, <1>7, <2>1, TerminalizeWakes
<1>8. CASE Decide
  <2>1. /\ adv.pc = "decide" /\ adv'.pc \notin {"decide", "pause", "conflict_park"}
      BY <1>8, DecideGoes DEF Onward
  <2> QED BY <1>0, <1>1, <1>8, <2>1, DecideWakes
<1>9. CASE Create \/ Evaluate
  <2>1. adv'.pc \notin {"idle", "finish", "conflict_park", "decide", "pause"}
      BY <1>9, OtherGoes
  <2> QED BY <2>1
<1>10. CASE Provision
  <2>1. adv'.pc \in {"enqueue", "idle", "finish"}
      BY <1>10, OtherGoes
  <2>2. adv'.pc # "enqueue" => run'.status = "blocked"
      BY <1>2, <1>10 DEF Provision, SetRun, LifecycleInv, Shape, AdvType
  <2> QED BY <2>1, <2>2 DEF Woken
<1>11. CASE EnqueueTask
  <2>1. adv'.pc \in {"enqueue", "idle", "finish"}
      BY <1>11, OtherGoes
  <2>2. /\ adv.stage \in DOMAIN stages /\ stages[adv.stage].status = "running" /\ UNCHANGED stages
        /\ adv.todo \in SUBSET Tasks
      BY <1>0, <1>11 DEF EnqueueTask, LifecycleInv, AdvInv, Shape, AdvType
  <2>3. PICK k \in DOMAIN stages : k = adv.stage
      BY <2>2
  <2>4. PICK t \in Tasks : items' = [items EXCEPT ![k][t] = "pending"]
      BY <1>11, <2>2, <2>3 DEF EnqueueTask
  <2>5. items'[k][t] = "pending"
      BY <2>4, StageFacts DEF LifecycleInv, Shape
  <2>6. k \in DOMAIN stages' /\ Coming(k)'
      BY <2>2, <2>3, <2>5 DEF Coming, InFlight, Waiting
  <2> QED BY <2>1, <2>6 DEF Woken, Stirs
<1>12. CASE Ending
  <2>1. adv'.pc \in {"idle", "finish"}
      BY <1>12, EndingGoes
  <2> QED BY <1>0, <1>1, <1>12, <2>1, EndingWakes
<1>13. CASE Writing
  <2>1. CASE RequestApproval
    <3>1. adv.pc = "request" /\ adv'.pc = "pause" /\ UNCHANGED stages
        BY <2>1, <1>13, WritingGoes DEF RequestApproval
    <3>2. PICK s \in States : s = adv.at
        BY DEF LifecycleInv, Shape, AdvType
    <3>3. Held(s) # {}
        BY <3>1, <3>2, AskedIsHeld DEF Owed
    <3>4. PICK k \in DOMAIN stages : stages[k].status = "waiting_approval" /\ stages[k].state = s
        BY <3>3 DEF Held, Of
    <3>5. approvals' = Append(approvals, [state |-> s, decision |-> "requested"])
        BY <2>1, <3>2 DEF RequestApproval
    <3>6. Decided(stages[k].state, "requested")'
      <4>1. PICK r : r = [state |-> s, decision |-> "requested"]
          OBVIOUS
      <4>2. Len(approvals) \in Nat
          BY LenProperties DEF RestType
      <4>3. Len(approvals) + 1 \in DOMAIN approvals' /\ approvals'[Len(approvals) + 1] = r
          BY <3>5, <4>1, <4>2, AppendProperties DEF RestType
      <4> QED BY <3>1, <3>4, <4>1, <4>3 DEF Decided
    <3>7. Answerable'
        BY <3>1, <3>4, <3>6 DEF Answerable
    <3> QED BY <3>1, <3>7 DEF Stirs
  <2>2. CASE BlockOnConflict
    <3>1. run'.status = "blocked" /\ adv'.pc = "conflict_park"
        BY <1>2, <1>13, <2>2, WritingGoes DEF BlockOnConflict, SetRun
    <3> QED BY <3>1 DEF Woken
  <2>3. CASE ~RequestApproval /\ ~BlockOnConflict
    <3>1. adv'.pc \notin {"idle", "finish", "conflict_park", "decide", "pause"}
        BY <1>13, <2>3, WritingGoes DEF Writing
    <3> QED BY <3>1
  <2> QED BY <2>1, <2>2, <2>3
<1>14. CASE Restart
  <2>1. /\ adv' = Idle /\ restarts' > 0 /\ UNCHANGED parked
        /\ RepairRun \/ (UNCHANGED run /\ run.status \in Closed)
      BY <1>0, <1>14, RestartsGrow DEF Restart
  <2>2. adv'.pc = "idle"
      BY <2>1 DEF Idle
  <2>3. CASE RepairRun
      BY <1>0, <2>1, <2>2, <2>3, RepairWakes DEF Woken
  <2>4. CASE UNCHANGED run /\ run.status \in Closed
      BY <2>2, <2>4 DEF Woken
  <2> QED BY <2>1, <2>3, <2>4
<1> QED BY <1>3, <1>4, <1>5, <1>6, <1>7, <1>8, <1>9, <1>10, <1>11, <1>12, <1>13, <1>14, NextKinds

-----------------------------------------------------------------------------
(* The invariant and what follows from it                                  *)

WakeupInv ==
    /\ LifecycleInv /\ TaskInv /\ QueueInv /\ RestType /\ RequestInv /\ ClosedInv /\ AtInv
    /\ FailInv /\ BudgetInv /\ GateInv /\ SingleInv /\ WakeInv

(* WakeupInv holds initially, ... *)
LEMMA WakeupStarts == ASSUME Init PROVE WakeupInv
<1>1. LifecycleInv /\ TaskInv /\ QueueInv /\ RestType
    BY LifecycleStarts, TasksStart, QueueStarts, RestStarts
<1>2. /\ ~finalizer /\ ~run.settled /\ run.status = "pending" /\ adv.pc = "idle" /\ adv.target = 0
      /\ DOMAIN stages = {} /\ DOMAIN approvals = {}
    BY DEF Init, Idle
<1>3. RequestInv /\ ClosedInv /\ AtInv /\ FailInv /\ BudgetInv
    BY <1>2 DEF RequestInv, ClosedInv, AtInv, FailInv, BudgetInv, Budgeted, Chosen
<1>4. GateInv
  <2>1. ASSUME NEW s \in States PROVE Asked(s) = {} /\ Held(s) = {} /\ Owed(s) = 0
      BY <1>2 DEF Asked, Held, Of, Owed
  <2> QED BY <2>1, FS_EmptySet DEF GateInv, Balanced
<1>5. DOMAIN queue = {1} /\ queue[1].target = 0
    BY DEF Init, RunScoped
<1>6. SingleInv /\ WakeInv
    BY <1>2, <1>5 DEF SingleInv, WakeInv, Woken, Stirs, Effective
<1> QED BY <1>1, <1>3, <1>4, <1>6 DEF WakeupInv

(* ... is preserved by every step, ... *)
LEMMA WakeupStep ==
    ASSUME WakeupInv, [Next]_vars PROVE WakeupInv'
<1> USE DEF WakeupInv
<1>1. LifecycleInv' /\ TaskInv' /\ QueueInv' /\ RestType'
  <2>1. LifecycleInv'
      BY LifecycleStep
  <2> QED BY <2>1, TaskStep, QueueStep, RestStep
<1>2. RequestInv' /\ ClosedInv' /\ AtInv' /\ BudgetInv'
    BY RequestStep, ClosedStep, AtStep, BudgetStep
<1>3. FailInv' /\ SingleInv'
    BY FailStep, SingleStep
<1>4. GateInv'
    BY <1>1, GateStep
<1>5. WakeInv'
    BY <1>1, <1>3, WakeStep
<1> QED BY <1>1, <1>2, <1>3, <1>4, <1>5

(* ... and so always holds. *)
LEMMA WakeupInvariant == Spec => []WakeupInv
<1>1. Init => WakeupInv
    BY WakeupStarts
<1>2. WakeupInv /\ [Next]_vars => WakeupInv'
    BY WakeupStep
<1> QED BY <1>1, <1>2, PTL DEF Spec

(* The tables, the queue and the advance in flight keep their types: in      *)
(* particular every queued or running advance that has a target names a      *)
(* stage execution that exists.                                              *)
THEOREM TypesHold == Spec => []TypeOK
<1>1. WakeupInv => TypeOK
    BY TypesFollow DEF WakeupInv
<1> QED BY <1>1, WakeupInvariant, PTL

(* An approval in the operators' inbox has a gate waiting for it, so that    *)
(* the decision has an effect, over retries, cancellations and restarts.     *)
THEOREM RequestsAreAwaited == Spec => []RequestedIsAwaited
<1>1. WakeupInv => RequestedIsAwaited
  <2> SUFFICES ASSUME WakeupInv, NEW a \in DOMAIN approvals, approvals[a].decision = "requested"
               PROVE  \E k \in Of(approvals[a].state) : stages[k].status = "waiting_approval"
      BY DEF RequestedIsAwaited
  <2>1. approvals[a] \in Approval
      BY ElementOfSeq, LenProperties DEF WakeupInv, RestType
  <2>2. PICK s \in States : s = approvals[a].state
      BY <2>1 DEF Approval
  <2>3. a \in Asked(s)
      BY <2>1, <2>2 DEF Asked, Approval
  <2>4. Held(s) # {}
      BY <2>3, AskedIsHeld DEF WakeupInv
  <2> QED BY <2>2, <2>4 DEF Held
<1> QED BY <1>1, WakeupInvariant, PTL

(* No wakeup is lost: a run that nobody cancelled and for which the control  *)
(* plane has nothing left to do is closed, blocked, or waits for a decision  *)
(* that someone can take, up to what a crash, or an error after a task       *)
(* settled its retried stage, is known to cost.                              *)
THEOREM NoWakeupIsLost == Spec => []NeverStalls
<1>1. WakeupInv => NeverStalls
  <2> SUFFICES ASSUME WakeupInv, Quiet, ~run.requested
               PROVE  \/ run.status \in {"blocked"} \cup Closed
                      \/ Answerable \/ CostOfCrash \/ CostOfError
      BY DEF NeverStalls
  <2>1. Woken
      BY DEF WakeupInv, WakeInv, Quiet
  <2>2. DOMAIN queue = {}
      BY DEF Quiet
  <2>3. \A k \in DOMAIN stages : ~Coming(k)
      BY DEF Quiet, Coming
  <2>4. ASSUME NEW k \in DOMAIN stages, Tarnished(k) PROVE CostOfError
    <3>1. PICK t \in Tasks : workers[k][t] # "none" \/ items[k][t] = "pending"
        BY <2>4 DEF Tarnished
    <3>2. items[k][t] # "pending"
        BY DEF Quiet, InFlight, Waiting
    <3> QED BY <2>4, <3>1, <3>2 DEF Tarnished, CostOfError
  <2> QED BY <2>1, <2>2, <2>3, <2>4 DEF Woken, Stirs
<1> QED BY <1>1, WakeupInvariant, PTL

(* No advance that is queued or under way and no command changes a completed *)
(* run that nobody cancelled and that has no conflict open on its state, nor *)
(* an approval requested whose rejection moves the run by itself.            *)
THEOREM CompletedRunsAreFinal == Spec => CompletedIsFinal
<1>1. WakeupInv /\ [Next]_vars =>
          [/\ run.status = "completed" /\ ~run.requested /\ conflict.state # run.state
           /\ \A s \in DOMAIN Rework : ~Decided(s, "requested")
           => run' = run]_run
    BY CompletedStays DEF WakeupInv
<1> QED BY <1>1, WakeupInvariant, PTL DEF Spec, CompletedIsFinal

(* The budget computed when an advance began still holds when it moves the   *)
(* run to a compute state of several tasks: nothing in between completes one *)
(* but its own.                                                              *)
THEOREM BudgetsHold == Spec => BudgetHolds
<1>1. WakeupInv /\ [Next]_vars =>
          [adv.pc = "move" /\ adv'.pc = "wake" /\ ~SingleTask(adv.next)
               => adv.next \notin Exhausted \ (Gates \cup {adv.at})]_vars
    BY DEF WakeupInv, BudgetInv, Budgeted, Chosen
<1> QED BY <1>1, WakeupInvariant, PTL DEF Spec, BudgetHolds

=============================================================================
