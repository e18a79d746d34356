--------------------------- MODULE DbWriter_proofs ---------------------------
(***************************************************************************)
(* The safety of the write gateway, for any operations, classes, keys and  *)
(* lane capacities.                                                        *)
(***************************************************************************)
EXTENDS DbWriter, SequenceTheorems, TLAPS

(* The six lanes, in the order the executor polls them. *)
LEMMA LanesAre ==
    Lanes = {"critical_barrier", "operator_command", "projection_invalidation",
             "coalesced_projection", "evidence_metadata", "telemetry_rollup"}
<1>1. DOMAIN LaneOrder = 1 .. 6
  BY DEF LaneOrder
<1>2. Lanes = {LaneOrder[1], LaneOrder[2], LaneOrder[3], LaneOrder[4], LaneOrder[5], LaneOrder[6]}
  BY <1>1 DEF Lanes, Range
<1> QED
  BY <1>2 DEF LaneOrder

-----------------------------------------------------------------------------
(* Types                                                                   *)

(* A buffer holds operations only. *)
LEMMA BufferedOps == ASSUME NEW b \in [Keys -> Ops \cup {NoOp}] PROVE Buffered(b) \subseteq Ops
  BY DEF Buffered

(* Sending to a lane that is not full keeps its bound. *)
LEMMA AppendTyped ==
    ASSUME TypeOK, NEW l \in Lanes, NEW o \in Ops, ~Full(l),
           lane' = [lane EXCEPT ![l] = Append(@, o)]
    PROVE  lane' \in [Lanes -> Seq(Ops)] /\ \A m \in Lanes : Len(lane'[m]) <= LaneCap
  BY DbWriterAssumption DEF TypeOK, Full

(* So does taking the head of a lane, which is an operation. *)
LEMMA TailTyped ==
    ASSUME TypeOK, NEW l \in Lanes, lane[l] # <<>>,
           lane' = [lane EXCEPT ![l] = Tail(@)]
    PROVE  /\ lane' \in [Lanes -> Seq(Ops)] /\ \A m \in Lanes : Len(lane'[m]) <= LaneCap
           /\ Head(lane[l]) \in Ops
  BY DbWriterAssumption DEF TypeOK

(* The gateway starts well typed. *)
LEMMA TypeInit == Init => TypeOK
<1> SUFFICES ASSUME Init PROVE TypeOK
  OBVIOUS
<1>1. \A l \in Lanes : lane[l] = <<>> /\ Len(lane[l]) = 0
  BY DEF Init
<1>2. lane \in [Lanes -> Seq(Ops)] /\ \A l \in Lanes : Len(lane[l]) <= LaneCap
  BY <1>1, DbWriterAssumption DEF Init
<1>3. caller \in [Ops -> {"new"}] /\ reply \in [Ops -> {"none"}] /\ result \in [Ops -> {"none"}]
  BY DEF Init
<1>4. /\ buffer \in [Keys -> Ops \cup {NoOp}] /\ merges \in Nat
      /\ batch \in [Flushers -> SUBSET Ops] /\ commits \in [Ops -> Nat]
  BY DEF Init
<1> QED
  BY <1>2, <1>3, <1>4 DEF Init, TypeOK, Replies, Results

(* The steps that only move a caller keep the types. *)
LEMMA TypeCaller ==
    ASSUME TypeOK, NEW o \in Ops,
           Submit(o) \/ Timeout(o) \/ Receive(o) \/ HolderFinish(o) \/ FlushDone(o)
    PROVE  TypeOK'
<1>1. UNCHANGED <<reply, buffer, merges, batch, flusher, lane, phase, exec, commits, shutdown, held>>
  BY DEF Submit, Timeout, Receive, HolderFinish, FlushDone, bufVars, flushVars, execVars, stopVars
<1>2. /\ caller' \in [Ops -> {"new", "admitted", "flushing", "sending", "waiting",
                              "holding", "committing", "rolling_back", "done"}]
      /\ result' \in [Ops -> Results]
  <2>1. CASE Submit(o)
    BY <2>1 DEF TypeOK, Submit, Return, Move, Results
  <2>2. CASE Receive(o)
    BY <2>2 DEF TypeOK, Receive, Return, Results, Replies
  <2>3. CASE Timeout(o) \/ HolderFinish(o) \/ FlushDone(o)
    BY <2>3 DEF TypeOK, Timeout, HolderFinish, FlushDone, Return, Move, Results
  <2> QED
    BY <2>1, <2>2, <2>3
<1> QED
  BY <1>1, <1>2 DEF TypeOK

(* Sending to a lane keeps the types. *)
LEMMA TypeEnqueue ==
    ASSUME TypeOK, NEW o \in Ops, Enqueue(o)
    PROVE  TypeOK'
<1>1. LaneOf[o] \in Lanes
  BY DbWriterAssumption
<1>2. lane' \in [Lanes -> Seq(Ops)] /\ \A m \in Lanes : Len(lane'[m]) <= LaneCap
  BY <1>1, AppendTyped DEF Enqueue, TypeOK
<1>3. /\ caller' \in [Ops -> {"new", "admitted", "flushing", "sending", "waiting",
                              "holding", "committing", "rolling_back", "done"}]
      /\ result' \in [Ops -> Results]
  BY DEF TypeOK, Enqueue, Return, Move, Results
<1> QED
  BY <1>2, <1>3 DEF Enqueue, TypeOK, bufVars, flushVars, stopVars

(* The outcomes of the critical section: the operation is rejected, stored *)
(* under a free key, or met by another one, and then kept or drained.      *)
Kept(o, b) == buffer' = b /\ merges' = merges + 1 /\ UNCHANGED batch
Outcome(o, win, lose, b) ==
    /\ Move(o, "flushing") /\ reply' = [reply EXCEPT ![lose] = "coalesced"]
    /\ ObservedAt[win] >= ObservedAt[lose]
    /\ DrainAll(o, b) \/ Kept(o, b)

(* Every step of submit_class_b has one of these outcomes. *)
LEMMA CoalesceCases ==
    ASSUME TypeOK, NEW o \in Ops, Coalesce(o)
    PROVE  /\ caller[o] = "admitted" /\ KeyOf[o] \in Keys
           /\ UNCHANGED <<flusher, lane, phase, exec, commits, shutdown, held>>
           /\ LET old == buffer[KeyOf[o]]
                  stored == [buffer EXCEPT ![KeyOf[o]] = o]
              IN  \/ Return(o, "rejected") /\ UNCHANGED <<reply, buffer, merges, batch>>
                  \/ /\ old = NoOp /\ Move(o, "flushing") /\ buffer' = stored
                     /\ UNCHANGED <<reply, merges, batch>>
                  \/ old \in Ops /\ Outcome(o, o, old, stored)
                  \/ old \in Ops /\ Outcome(o, old, o, buffer)
<1>1. KeyOf[o] \in Keys /\ buffer[KeyOf[o]] \in Ops \cup {NoOp}
  BY DEF Keys, TypeOK
<1>2. ASSUME NEW p \in Ops PROVE ObservedAt[p] \in Nat
  BY DbWriterAssumption
<1> QED
  BY <1>1, <1>2 DEF Coalesce, Outcome, Kept, NewWins, execVars, stopVars

(* The critical section of submit_class_b keeps the types. *)
LEMMA TypeCoalesce ==
    ASSUME TypeOK, NEW o \in Ops, Coalesce(o)
    PROVE  TypeOK'
<1> DEFINE old == buffer[KeyOf[o]]
           stored == [buffer EXCEPT ![KeyOf[o]] = o]
<1>0. stored \in [Keys -> Ops \cup {NoOp}] /\ UNCHANGED <<flusher, lane, phase, exec, commits, shutdown, held>>
  BY CoalesceCases DEF TypeOK
<1>1. CASE Return(o, "rejected") /\ UNCHANGED <<reply, buffer, merges, batch>>
  BY <1>0, <1>1 DEF TypeOK, Return, Results
<1>2. CASE Move(o, "flushing") /\ buffer' = stored /\ UNCHANGED <<reply, merges, batch>>
  BY <1>0, <1>2 DEF TypeOK, Move
<1>3. ASSUME NEW win \in Ops, NEW lose \in Ops, NEW b \in {stored, buffer}, Outcome(o, win, lose, b)
      PROVE  TypeOK'
  <2>1. b \in [Keys -> Ops \cup {NoOp}]
    BY <1>0 DEF TypeOK
  <2>2. buffer' \in [Keys -> Ops \cup {NoOp}] /\ merges' \in Nat /\ batch' \in [Flushers -> SUBSET Ops]
    <3>1. o \in Flushers /\ Buffered(b) \in SUBSET Ops
      BY <2>1, BufferedOps DEF Flushers
    <3>2. CASE DrainAll(o, b)
      BY <3>1, <3>2 DEF TypeOK, DrainAll
    <3>3. CASE Kept(o, b)
      BY <2>1, <3>3 DEF TypeOK, Kept
    <3> QED
      BY <1>3, <3>2, <3>3 DEF Outcome
  <2>3. /\ caller' = [caller EXCEPT ![o] = "flushing"] /\ result' = result
        /\ reply' = [reply EXCEPT ![lose] = "coalesced"]
    BY <1>3 DEF Outcome, Move
  <2> QED
    BY <1>0, <2>2, <2>3 DEF TypeOK, Replies
<1> QED
  BY <1>1, <1>2, <1>3, CoalesceCases

(* Sending a drained entry keeps the types. *)
LEMMA TypeSend ==
    ASSUME TypeOK, NEW f \in Flushers, NEW o \in Ops, SendEntry(f, o)
    PROVE  TypeOK'
<1>1. "coalesced_projection" \in Lanes
  BY LanesAre
<1>2. lane' \in [Lanes -> Seq(Ops)] /\ \A m \in Lanes : Len(lane'[m]) <= LaneCap
  BY <1>1, AppendTyped DEF SendEntry, TypeOK
<1>3. batch' \in [Flushers -> SUBSET Ops] /\ reply' \in [Ops -> Replies]
  BY DEF SendEntry, TypeOK, Replies
<1> QED
  BY <1>2, <1>3 DEF SendEntry, TypeOK, bufVars, stopVars

(* The flush task keeps the types. *)
LEMMA TypeFlush == TypeOK /\ TimerFlush => TypeOK'
<1> SUFFICES ASSUME TypeOK, TimerFlush PROVE TypeOK'
  OBVIOUS
<1>1. Buffered(buffer) \subseteq Ops
  BY BufferedOps DEF TypeOK
<1>2. buffer' \in [Keys -> Ops \cup {NoOp}] /\ merges' \in Nat /\ batch' \in [Flushers -> SUBSET Ops]
  BY <1>1 DEF TimerFlush, DrainAll, TypeOK, Flushers
<1>3. flusher' \in {"running", "stopped"}
  BY DEF TimerFlush, TypeOK
<1> QED
  BY <1>2, <1>3 DEF TimerFlush, TypeOK, callVars, execVars, stopVars

(* Taking a message keeps the types of what it changes. *)
LEMMA TypeTake ==
    ASSUME TypeOK, NEW l \in Lanes, Take(l)
    PROVE  /\ lane' \in [Lanes -> Seq(Ops)] /\ \A m \in Lanes : Len(lane'[m]) <= LaneCap
           /\ exec' \in Ops \cup {NoOp} /\ reply' \in [Ops -> Replies]
<1>1. /\ lane' \in [Lanes -> Seq(Ops)] /\ \A m \in Lanes : Len(lane'[m]) <= LaneCap
      /\ Head(lane[l]) \in Ops
  BY TailTyped DEF Take
<1>2. exec' \in Ops \cup {NoOp} /\ reply' \in [Ops -> Replies]
  BY <1>1 DEF Take, TypeOK, Replies
<1> QED
  BY <1>1, <1>2

(* The executor serves by taking the head of some lane. *)
LEMMA ServeTakes ==
    ASSUME Serve
    PROVE  /\ \E l \in Lanes : Take(l)
           /\ UNCHANGED <<caller, result, buffer, merges, batch, flusher, phase, commits, shutdown, held>>
<1>1. HighLanes \subseteq Lanes /\ \A n \in DOMAIN LaneOrder : LaneOrder[n] \in Lanes
  BY LanesAre DEF HighLanes, Lanes, Range
<1> QED
  BY <1>1 DEF Serve, bufVars, flushVars, stopVars

(* The two ways a step of the drain ends. *)
LEMMA DrainCases ==
    ASSUME DrainLanes("drain_a", HighLanes, "drain_b") \/ DrainLanes("drain_b", ClassBLanes, "exited")
    PROVE  /\ UNCHANGED <<caller, result, buffer, merges, batch, flusher, commits, shutdown>>
           /\ exec = NoOp /\ phase \in {"drain_a", "drain_b"}
           /\ \/ (\E l \in Lanes : Take(l)) /\ UNCHANGED <<phase, held>>
              \/ /\ phase = "drain_a" /\ phase' = "drain_b"
                 /\ held' = IF AllEmpty(HighLanes) THEN held ELSE {}
                 /\ UNCHANGED <<reply, lane, exec>>
              \/ /\ phase = "drain_b" /\ phase' = "exited"
                 /\ held' = IF AllEmpty(ClassBLanes) THEN held ELSE {}
                 /\ reply' = [o \in Ops |-> IF \E l \in Lanes : o \in Range(lane[l])
                                            THEN "closed" ELSE reply[o]]
                 /\ lane' = [l \in Lanes |-> <<>>] /\ UNCHANGED exec
<1>1. HighLanes \subseteq Lanes /\ ClassBLanes \subseteq Lanes
  BY LanesAre DEF HighLanes, ClassBLanes
<1> QED
  BY <1>1 DEF DrainLanes, bufVars, flushVars

(* The drain of a shutdown keeps the types. *)
LEMMA TypeDrain ==
    ASSUME TypeOK,
           DrainLanes("drain_a", HighLanes, "drain_b") \/ DrainLanes("drain_b", ClassBLanes, "exited")
    PROVE  TypeOK'
<1>0. UNCHANGED <<caller, result, buffer, merges, batch, flusher, commits, shutdown>>
  BY DrainCases
<1>1. CASE (\E l \in Lanes : Take(l)) /\ UNCHANGED <<phase, held>>
  BY <1>0, <1>1, TypeTake DEF TypeOK
<1>2. CASE phase' = "drain_b" /\ held' = (IF AllEmpty(HighLanes) THEN held ELSE {})
           /\ UNCHANGED <<reply, lane, exec>>
  BY <1>0, <1>2 DEF TypeOK
<1>3. CASE /\ phase' = "exited" /\ held' = (IF AllEmpty(ClassBLanes) THEN held ELSE {})
           /\ reply' = [o \in Ops |-> IF \E l \in Lanes : o \in Range(lane[l])
                                      THEN "closed" ELSE reply[o]]
           /\ lane' = [l \in Lanes |-> <<>>] /\ UNCHANGED exec
  <2>1. reply' \in [Ops -> Replies]
    BY <1>3 DEF TypeOK, Replies
  <2>2. lane' \in [Lanes -> Seq(Ops)] /\ \A m \in Lanes : Len(lane'[m]) <= LaneCap
    BY <1>3, DbWriterAssumption
  <2> QED
    BY <1>0, <1>3, <2>1, <2>2 DEF TypeOK
<1> QED
  BY <1>1, <1>2, <1>3, DrainCases

(* The executor and the signal keep the types. *)
LEMMA TypeExec ==
    ASSUME TypeOK, Serve \/ StartDrain \/ RunWork \/ BeginQueued \/ FinishQueued \/ Shutdown
    PROVE  TypeOK'
<1>1. CASE Serve
  BY <1>1, ServeTakes, TypeTake DEF TypeOK
<1>2. CASE StartDrain
  BY <1>2 DEF StartDrain, TypeOK, callVars, bufVars, flushVars, stopVars
<1>3. CASE RunWork \/ FinishQueued
  <2>1. exec \in Ops /\ exec' = NoOp
    BY <1>3, DbWriterAssumption DEF RunWork, FinishQueued
  <2>2. commits' \in [Ops -> Nat]
    <3>1. commits' = commits \/ commits' = [commits EXCEPT ![exec] = @ + 1]
      BY <1>3 DEF RunWork, FinishQueued
    <3>2. commits \in [Ops -> Nat]
      BY DEF TypeOK
    <3> QED
      BY <2>1, <3>1, <3>2
  <2>3. reply' \in [Ops -> Replies]
    BY <1>3, <2>1 DEF RunWork, FinishQueued, TypeOK, Replies
  <2>4. UNCHANGED <<caller, result, buffer, merges, batch, flusher, lane, phase, shutdown, held>>
    BY <1>3 DEF RunWork, FinishQueued, bufVars, flushVars, stopVars
  <2> QED
    BY <2>1, <2>2, <2>3, <2>4 DEF TypeOK
<1>4. CASE BeginQueued
  <2>1. exec \in Ops /\ exec' \in Ops \cup {NoOp}
    BY <1>4, DbWriterAssumption DEF BeginQueued
  <2>2. /\ caller' \in [Ops -> {"new", "admitted", "flushing", "sending", "waiting",
                                "holding", "committing", "rolling_back", "done"}]
        /\ reply' \in [Ops -> Replies]
    BY <1>4, <2>1 DEF BeginQueued, Move, TypeOK, Replies
  <2>3. UNCHANGED <<result, buffer, merges, batch, flusher, lane, phase, commits, shutdown, held>>
    BY <1>4 DEF BeginQueued, Move, bufVars, flushVars, stopVars
  <2> QED
    BY <2>1, <2>2, <2>3 DEF TypeOK
<1>5. CASE Shutdown
  BY <1>5 DEF Shutdown, TypeOK, callVars, bufVars, flushVars, execVars
<1> QED
  BY <1>1, <1>2, <1>3, <1>4, <1>5

(* Every step keeps the types. *)
LEMMA TypeNext == TypeOK /\ [Next]_vars => TypeOK'
<1> SUFFICES ASSUME TypeOK, [Next]_vars PROVE TypeOK'
  OBVIOUS
<1>1. CASE UNCHANGED vars
  BY <1>1 DEF TypeOK, vars, callVars, bufVars, flushVars, execVars, stopVars
<1>2. ASSUME NEW o \in Ops, CallerStep(o) PROVE TypeOK'
  BY <1>2, TypeCaller, TypeEnqueue, TypeCoalesce, TypeSend DEF CallerStep, Flushers
<1>3. CASE FlushStep
  BY <1>3, TypeFlush, TypeSend DEF FlushStep, Flushers
<1>4. CASE ExecStep \/ Shutdown
  BY <1>4, TypeDrain, TypeExec DEF ExecStep
<1> QED
  BY <1>1, <1>2, <1>3, <1>4 DEF Next, Stopped

-----------------------------------------------------------------------------
(* Where an operation is                                                   *)

Laned(o) == \E l \in Lanes : \E i \in DOMAIN lane[l] : lane[l][i] = o
InBatch(o) == \E f \in Flushers : o \in batch[f]
InBuffer(o) == buffer[KeyOf[o]] = o
Placed(o) == Laned(o) \/ InBatch(o) \/ InBuffer(o) \/ exec = o

(* An operation is buffered under its own key. *)
KeysRight(b) == \A k \in Keys : b[k] \in Ops => KeyOf[b[k]] = k

(* No lane repeats an operation and no two batches share one. *)
LanesDistinct ==
    \A l, m \in Lanes : \A i \in DOMAIN lane[l], j \in DOMAIN lane[m] :
        lane[l][i] = lane[m][j] => l = m /\ i = j
BatchesDistinct ==
    \A f, g \in Flushers : \A o \in Ops : o \in batch[f] /\ o \in batch[g] => f = g

(* The four kinds of place exclude each other. *)
Apart ==
    \A o \in Ops : /\ Laned(o) => ~InBatch(o) /\ ~InBuffer(o) /\ exec # o
                   /\ InBatch(o) => ~InBuffer(o) /\ exec # o
                   /\ InBuffer(o) => exec # o

(* Only projection writes are coalesced, and what waits in a lane was      *)
(* submitted to it or coalesced.                                           *)
RightPlace ==
    /\ \A o \in Ops : InBatch(o) \/ InBuffer(o) => o \notin Queued /\ ClassOf[o] = "B"
    /\ \A l \in Lanes : \A i \in DOMAIN lane[l] :
          \/ LaneOf[lane[l][i]] = l
          \/ l = "coalesced_projection" /\ ClassOf[lane[l][i]] = "B"

Situated == /\ KeysRight(buffer) /\ LanesDistinct /\ BatchesDistinct
            /\ Apart /\ RightPlace

(* An operation enters a lane, or the head of a lane leaves it. *)
LEMMA AppendAt ==
    ASSUME TypeOK, NEW l \in Lanes, NEW o \in Ops,
           lane' = [lane EXCEPT ![l] = Append(@, o)]
    PROVE  \A m \in Lanes : \A i \in DOMAIN lane'[m] :
               \/ i \in DOMAIN lane[m] /\ lane'[m][i] = lane[m][i]
               \/ m = l /\ i = Len(lane[l]) + 1 /\ lane'[m][i] = o
<1>1. /\ lane[l] \in Seq(Ops) /\ Len(lane[l]) \in Nat /\ DOMAIN lane[l] = 1 .. Len(lane[l])
      /\ lane'[l] = Append(lane[l], o)
      /\ \A m \in Lanes : m # l => lane'[m] = lane[m]
  BY DEF TypeOK
<1>2. /\ DOMAIN lane'[l] = 1 .. Len(lane[l]) + 1
      /\ \A i \in DOMAIN lane[l] : lane'[l][i] = lane[l][i]
      /\ lane'[l][Len(lane[l]) + 1] = o
  BY <1>1
<1> QED
  BY <1>1, <1>2

(* The lanes stay distinct when an operation that is in none enters one. *)
LEMMA AppendLaned ==
    ASSUME TypeOK, LanesDistinct, NEW l \in Lanes, NEW o \in Ops, ~Laned(o),
           lane' = [lane EXCEPT ![l] = Append(@, o)]
    PROVE  LanesDistinct' /\ \A p \in Ops : Laned(p)' <=> (Laned(p) \/ p = o)
<1>1. /\ lane[l] \in Seq(Ops) /\ Len(lane[l]) \in Nat /\ DOMAIN lane[l] = 1 .. Len(lane[l])
      /\ lane'[l] = Append(lane[l], o)
      /\ \A m \in Lanes : m # l => lane'[m] = lane[m]
  BY DEF TypeOK
<1>2. /\ DOMAIN lane'[l] = 1 .. Len(lane[l]) + 1
      /\ \A i \in DOMAIN lane[l] : lane'[l][i] = lane[l][i]
      /\ lane'[l][Len(lane[l]) + 1] = o
  BY <1>1
<1>3. \A m \in Lanes : \A i \in DOMAIN lane[m] : i \in DOMAIN lane'[m] /\ lane'[m][i] = lane[m][i] /\ lane[m][i] # o
  BY <1>1, <1>2 DEF Laned
<1>4. \A m \in Lanes : \A i \in DOMAIN lane'[m] :
         i \in DOMAIN lane[m] \/ (m = l /\ i = Len(lane[l]) + 1 /\ lane'[m][i] = o)
  BY <1>1, <1>2
<1>5. LanesDistinct'
  <2> SUFFICES ASSUME NEW m \in Lanes, NEW n \in Lanes, NEW i \in DOMAIN lane'[m], NEW j \in DOMAIN lane'[n],
                      lane'[m][i] = lane'[n][j]
               PROVE  m = n /\ i = j
    BY DEF LanesDistinct
  <2> QED
    BY <1>3, <1>4 DEF LanesDistinct
<1>6. ASSUME NEW p \in Ops PROVE Laned(p)' <=> (Laned(p) \/ p = o)
  BY <1>1, <1>2, <1>3, <1>4 DEF Laned
<1> QED
  BY <1>5, <1>6

(* What is in a lane after its head was taken was there before. *)
LEMMA TailAt ==
    ASSUME TypeOK, NEW l \in Lanes, lane[l] # <<>>, lane' = [lane EXCEPT ![l] = Tail(@)]
    PROVE  \A m \in Lanes : \A i \in DOMAIN lane'[m] :
               \E j \in DOMAIN lane[m] : lane'[m][i] = lane[m][j]
<1>1. /\ lane[l] \in Seq(Ops) /\ Len(lane[l]) \in Nat \ {0} /\ DOMAIN lane[l] = 1 .. Len(lane[l])
      /\ lane'[l] = Tail(lane[l])
      /\ \A m \in Lanes : m # l => lane'[m] = lane[m]
  BY DEF TypeOK
<1>2. /\ Len(Tail(lane[l])) = Len(lane[l]) - 1
      /\ \A i \in 1 .. Len(Tail(lane[l])) : Tail(lane[l])[i] = lane[l][i + 1]
  BY <1>1, HeadTailProperties
<1>3. DOMAIN Tail(lane[l]) = 1 .. Len(Tail(lane[l]))
  BY <1>1
<1>4. \A i \in 1 .. Len(lane[l]) - 1 : i + 1 \in 1 .. Len(lane[l])
  BY <1>1
<1>5. \A i \in DOMAIN lane'[l] : i + 1 \in DOMAIN lane[l] /\ lane'[l][i] = lane[l][i + 1]
  BY <1>1, <1>2, <1>3, <1>4
<1> QED
  BY <1>1, <1>5

(* Taking the head of a lane takes that operation out of the lanes. *)
LEMMA TailLaned ==
    ASSUME TypeOK, LanesDistinct, NEW l \in Lanes, lane[l] # <<>>,
           lane' = [lane EXCEPT ![l] = Tail(@)]
    PROVE  /\ LanesDistinct' /\ Head(lane[l]) \in Ops /\ Laned(Head(lane[l]))
           /\ \A p \in Ops : Laned(p)' <=> (Laned(p) /\ p # Head(lane[l]))
<1>1. /\ lane[l] \in Seq(Ops) /\ Len(lane[l]) \in Nat \ {0} /\ DOMAIN lane[l] = 1 .. Len(lane[l])
      /\ lane'[l] = Tail(lane[l])
      /\ \A m \in Lanes : m # l => lane'[m] = lane[m]
  BY DEF TypeOK
<1>2. /\ DOMAIN lane'[l] = 1 .. Len(lane[l]) - 1
      /\ \A i \in 1 .. Len(lane[l]) - 1 : lane'[l][i] = lane[l][i + 1]
      /\ Head(lane[l]) = lane[l][1] /\ 1 \in DOMAIN lane[l]
  <2>1. /\ Len(Tail(lane[l])) = Len(lane[l]) - 1
        /\ \A i \in 1 .. Len(Tail(lane[l])) : Tail(lane[l])[i] = lane[l][i + 1]
    BY <1>1, HeadTailProperties
  <2>2. DOMAIN Tail(lane[l]) = 1 .. Len(Tail(lane[l]))
    BY <1>1
  <2>3. Head(lane[l]) = lane[l][1] /\ 1 \in DOMAIN lane[l]
    BY <1>1
  <2> QED
    BY <1>1, <2>1, <2>2, <2>3
<1>3. Head(lane[l]) \in Ops /\ Laned(Head(lane[l]))
  BY <1>1, <1>2 DEF Laned
<1>4. \A m \in Lanes : \A i \in DOMAIN lane'[m] :
         \/ m # l /\ i \in DOMAIN lane[m] /\ lane'[m][i] = lane[m][i]
         \/ m = l /\ i + 1 \in DOMAIN lane[l] /\ i \in Nat /\ i + 1 # 1 /\ lane'[m][i] = lane[l][i + 1]
  BY <1>1, <1>2
<1>5. LanesDistinct'
  <2> SUFFICES ASSUME NEW m \in Lanes, NEW n \in Lanes, NEW i \in DOMAIN lane'[m], NEW j \in DOMAIN lane'[n],
                      lane'[m][i] = lane'[n][j]
               PROVE  m = n /\ i = j
    BY DEF LanesDistinct
  <2> QED
    BY <1>4 DEF LanesDistinct
<1>6. ASSUME NEW p \in Ops PROVE Laned(p)' <=> (Laned(p) /\ p # Head(lane[l]))
  <2>1. Laned(p)' => Laned(p) /\ p # Head(lane[l])
    BY <1>2, <1>4 DEF Laned, LanesDistinct
  <2>2. ASSUME Laned(p), p # Head(lane[l]) PROVE Laned(p)'
    <3>1. PICK m \in Lanes : \E i \in DOMAIN lane[m] : lane[m][i] = p
      BY <2>2 DEF Laned
    <3>2. PICK i \in DOMAIN lane[m] : lane[m][i] = p
      BY <3>1
    <3>3. CASE m # l
      BY <1>1, <3>2, <3>3 DEF Laned
    <3>4. CASE m = l
      <4>1. i \in 2 .. Len(lane[l])
        BY <1>1, <1>2, <2>2, <3>2, <3>4
      <4>2. i - 1 \in DOMAIN lane'[l] /\ lane'[l][i - 1] = p
        BY <1>1, <1>2, <3>2, <3>4, <4>1
      <4> QED
        BY <4>2 DEF Laned
    <3> QED
      BY <3>3, <3>4
  <2> QED
    BY <2>1, <2>2
<1> QED
  BY <1>3, <1>5, <1>6

(* Nothing moves. *)
LEMMA StayPut ==
    ASSUME Situated, UNCHANGED <<buffer, batch, lane, exec>>
    PROVE  Situated' /\ \A p \in Ops : Placed(p)' <=> Placed(p)
  BY DEF Situated, KeysRight, LanesDistinct, BatchesDistinct, Apart, RightPlace,
         Laned, InBatch, InBuffer, Placed

(* A buffer b is stored, or drained into the empty hands of f. *)
LEMMA BufferMoves ==
    ASSUME TypeOK, Situated, NEW f \in Flushers, batch[f] = {},
           NEW b \in [Keys -> Ops \cup {NoOp}], KeysRight(b),
           \A p \in Ops : b[KeyOf[p]] = p =>
               ~Laned(p) /\ ~InBatch(p) /\ exec # p /\ p \notin Queued /\ ClassOf[p] = "B",
           DrainAll(f, b) \/ (buffer' = b /\ UNCHANGED batch),
           UNCHANGED <<lane, exec>>
    PROVE  /\ Situated'
           /\ \A p \in Ops : Placed(p)' <=>
                  (Laned(p) \/ InBatch(p) \/ exec = p \/ b[KeyOf[p]] = p)
<1>1. \A p \in Ops : KeyOf[p] \in Keys
  BY DEF Keys
<1>2. \A p \in Ops : Laned(p)' <=> Laned(p)
  BY DEF Laned
<1>3. LanesDistinct' /\ \A l \in Lanes : \A i \in DOMAIN lane'[l] :
          \/ LaneOf[lane'[l][i]] = l
          \/ l = "coalesced_projection" /\ ClassOf[lane'[l][i]] = "B"
  BY DEF Situated, LanesDistinct, RightPlace
<1>4. CASE buffer' = b /\ UNCHANGED batch
  <2>1. \A p \in Ops : /\ InBatch(p)' <=> InBatch(p)
                       /\ InBuffer(p)' <=> b[KeyOf[p]] = p
    BY <1>4 DEF InBatch, InBuffer
  <2> QED
    BY <1>2, <1>3, <1>4, <2>1 DEF Situated, KeysRight, BatchesDistinct, Apart, RightPlace, Placed
<1>5. CASE DrainAll(f, b)
  <2>1. \A p \in Ops : p \in Buffered(b) <=> b[KeyOf[p]] = p
    BY <1>1, DbWriterAssumption DEF Buffered, KeysRight
  <2>2. buffer' = [k \in Keys |-> NoOp] /\ batch' = [batch EXCEPT ![f] = Buffered(b)]
    BY <1>5 DEF DrainAll
  <2>3. batch'[f] = Buffered(b) /\ \A g \in Flushers : g # f => batch'[g] = batch[g]
    BY <2>2 DEF TypeOK
  <2>4. \A p \in Ops : /\ InBatch(p)' <=> (InBatch(p) \/ b[KeyOf[p]] = p)
                       /\ ~InBuffer(p)'
    BY <1>1, <2>1, <2>2, <2>3, DbWriterAssumption DEF InBatch, InBuffer
  <2>5. BatchesDistinct'
    BY <2>1, <2>3 DEF Situated, BatchesDistinct, InBatch
  <2>6. KeysRight(buffer)'
    BY <2>2, DbWriterAssumption DEF KeysRight
  <2> QED
    BY <1>2, <1>3, <2>4, <2>5, <2>6 DEF Situated, Apart, RightPlace, Placed
<1> QED
  BY <1>4, <1>5

(* A drained entry leaves its batch, and enters the lane unless it is      *)
(* refused there.                                                          *)
LEMMA EntryMoves ==
    ASSUME TypeOK, Situated, NEW f \in Flushers, NEW o \in Ops, SendEntry(f, o)
    PROVE  /\ Situated' /\ Placed(o) /\ ClassOf[o] = "B"
           /\ UNCHANGED <<caller, result, exec, phase, commits, shutdown, held>>
           /\ \A g \in Flushers : batch'[g] \subseteq batch[g]
           /\ \A p \in Ops : p # o => (Placed(p)' <=> Placed(p))
           /\ \/ /\ lane' = [lane EXCEPT !["coalesced_projection"] = Append(@, o)]
                 /\ UNCHANGED reply /\ Placed(o)'
              \/ /\ UNCHANGED lane /\ ~Placed(o)'
                 /\ \E r \in {"failed", "closed"} : reply' = [reply EXCEPT ![o] = r]
<1>1. /\ o \in batch[f] /\ batch' = [batch EXCEPT ![f] = @ \ {o}] /\ InBatch(o)
      /\ UNCHANGED <<caller, result, buffer, exec, phase, commits, shutdown, held>>
  BY DEF SendEntry, InBatch, bufVars, stopVars
<1>2. batch'[f] = batch[f] \ {o} /\ \A g \in Flushers : g # f => batch'[g] = batch[g]
  BY <1>1 DEF TypeOK
<1>3. \A g \in Flushers : batch'[g] \subseteq batch[g] /\ o \notin batch'[g]
  BY <1>1, <1>2 DEF Situated, BatchesDistinct
<1>4. BatchesDistinct' /\ \A p \in Ops : InBatch(p)' <=> (InBatch(p) /\ p # o)
  BY <1>2, <1>3 DEF Situated, BatchesDistinct, InBatch
<1>5. KeysRight(buffer)' /\ \A p \in Ops : InBuffer(p)' <=> InBuffer(p)
  BY <1>1 DEF Situated, KeysRight, InBuffer
<1>6. ~Laned(o) /\ ~InBuffer(o) /\ exec # o /\ ClassOf[o] = "B"
  BY <1>1 DEF Situated, Apart, RightPlace
<1>7. CASE lane' = [lane EXCEPT !["coalesced_projection"] = Append(@, o)] /\ UNCHANGED reply
  <2>1. "coalesced_projection" \in Lanes
    BY LanesAre
  <2>2. LanesDistinct' /\ \A p \in Ops : Laned(p)' <=> (Laned(p) \/ p = o)
    BY <1>6, <1>7, <2>1, AppendLaned DEF Situated
  <2>3. RightPlace'
    <3>1. \A l \in Lanes : \A i \in DOMAIN lane'[l] :
             \/ i \in DOMAIN lane[l] /\ lane'[l][i] = lane[l][i]
             \/ l = "coalesced_projection" /\ lane'[l][i] = o
      BY <1>7, <2>1, AppendAt
    <3> QED
      BY <1>4, <1>5, <1>6, <3>1 DEF Situated, RightPlace
  <2> QED
    BY <1>1, <1>3, <1>4, <1>5, <1>6, <1>7, <2>2, <2>3 DEF Situated, Apart, Placed
<1>8. CASE UNCHANGED lane /\ \E r \in {"failed", "closed"} : reply' = [reply EXCEPT ![o] = r]
  <2>1. LanesDistinct' /\ \A p \in Ops : Laned(p)' <=> Laned(p)
    BY <1>8 DEF Situated, LanesDistinct, Laned
  <2>2. RightPlace'
    BY <1>4, <1>5, <1>8 DEF Situated, RightPlace
  <2> QED
    BY <1>1, <1>3, <1>4, <1>5, <1>6, <1>8, <2>1, <2>2 DEF Situated, Apart, Placed
<1> QED
  BY <1>7, <1>8 DEF SendEntry

(* The executor takes the head of a lane: it runs it, or finds it late. *)
LEMMA HeadMoves ==
    ASSUME TypeOK, Situated, NEW l \in Lanes, Take(l), UNCHANGED <<buffer, batch>>
    PROVE  \E o \in Ops :
             /\ Situated' /\ Laned(o) /\ Placed(o) /\ exec # o /\ exec \notin Ops
             /\ \A p \in Ops : p # o => (Placed(p)' <=> Placed(p)) /\ exec' # p
             /\ \A m \in Lanes : \A i \in DOMAIN lane'[m] :
                   \E j \in DOMAIN lane[m] : lane'[m][i] = lane[m][j]
             /\ \/ /\ reply' = [reply EXCEPT ![o] = "timeout"]
                   /\ ~Placed(o)' /\ UNCHANGED exec
                \/ result[o] # "timeout" /\ exec' = o /\ Placed(o)' /\ UNCHANGED reply
<1>0. PICK o \in Ops : o = Head(lane[l])
  BY TailTyped DEF Take
<1>1. /\ exec = NoOp /\ lane[l] # <<>> /\ lane' = [lane EXCEPT ![l] = Tail(@)]
      /\ \/ reply' = [reply EXCEPT ![o] = "timeout"] /\ UNCHANGED exec
         \/ result[o] # "timeout" /\ exec' = o /\ UNCHANGED reply
  BY <1>0 DEF Take
<1>2. /\ LanesDistinct' /\ o \in Ops /\ Laned(o)
      /\ \A p \in Ops : Laned(p)' <=> (Laned(p) /\ p # o)
  BY <1>0, <1>1, TailLaned DEF Situated
<1>3. \A m \in Lanes : \A i \in DOMAIN lane'[m] :
         \E j \in DOMAIN lane[m] : lane'[m][i] = lane[m][j]
  BY <1>1, TailAt
<1>4. \A p \in Ops : /\ InBatch(p)' <=> InBatch(p)
                     /\ InBuffer(p)' <=> InBuffer(p)
  BY DEF InBatch, InBuffer
<1>5. KeysRight(buffer)' /\ BatchesDistinct'
  BY DEF Situated, KeysRight, BatchesDistinct
<1>6. RightPlace'
  BY <1>3, <1>4 DEF Situated, RightPlace
<1>7. exec \notin Ops
  BY <1>1, DbWriterAssumption
<1>8. ~InBatch(o) /\ ~InBuffer(o) /\ exec # o
  BY <1>2 DEF Situated, Apart
<1>9. Apart'
  BY <1>1, <1>2, <1>4, <1>7, <1>8 DEF Situated, Apart
<1>10. \A p \in Ops : p # o => (Placed(p)' <=> Placed(p)) /\ exec' # p
  BY <1>1, <1>2, <1>4, <1>7 DEF Placed
<1>11. Placed(o) /\ (exec' = o => Placed(o)') /\ (exec' # o => ~Placed(o)')
  BY <1>2, <1>4, <1>8 DEF Placed
<1> QED
  <2>1. Situated'
    BY <1>2, <1>5, <1>6, <1>9 DEF Situated
  <2> QED
    BY <1>1, <1>2, <1>3, <1>7, <1>8, <1>10, <1>11, <2>1

(* The executor is done with what it executed. *)
LEMMA ExecMoves ==
    ASSUME Situated, exec \in Ops, exec' = NoOp, UNCHANGED <<buffer, batch, lane>>
    PROVE  /\ Situated'
           /\ \A p \in Ops : exec' # p /\ (Placed(p)' <=> (Placed(p) /\ p # exec))
<1>1. \A p \in Ops : /\ Laned(p)' <=> Laned(p)
                     /\ InBatch(p)' <=> InBatch(p)
                     /\ InBuffer(p)' <=> InBuffer(p)
  BY DEF Laned, InBatch, InBuffer
<1>2. exec' \notin Ops
  BY DbWriterAssumption
<1>3. KeysRight(buffer)' /\ BatchesDistinct' /\ LanesDistinct' /\ RightPlace'
  BY <1>1 DEF Situated, KeysRight, BatchesDistinct, LanesDistinct, RightPlace
<1> QED
  BY <1>1, <1>2, <1>3 DEF Situated, Apart, Placed

(* The executor exits and the lanes go with it. *)
LEMMA LanesClosed ==
    ASSUME TypeOK, Situated, lane' = [l \in Lanes |-> <<>>], UNCHANGED <<buffer, batch, exec>>
    PROVE  /\ Situated' /\ \A p \in Ops : ~Laned(p)'
           /\ \A p \in Ops : Placed(p)' <=> (Placed(p) /\ ~Laned(p))
<1>1. \A l \in Lanes : lane'[l] = <<>> /\ DOMAIN lane'[l] = {}
  OBVIOUS
<1>2. \A p \in Ops : ~Laned(p)' /\ (InBatch(p)' <=> InBatch(p)) /\ (InBuffer(p)' <=> InBuffer(p))
  BY <1>1 DEF Laned, InBatch, InBuffer
<1>3. KeysRight(buffer)' /\ BatchesDistinct' /\ LanesDistinct' /\ RightPlace'
  BY <1>1, <1>2 DEF Situated, KeysRight, BatchesDistinct, LanesDistinct, RightPlace
<1> QED
  BY <1>2, <1>3 DEF Situated, Apart, Placed

-----------------------------------------------------------------------------
(* The invariant                                                           *)

Early == {"new", "admitted", "sending"}

(* An operation is inside the writer exactly while its answer is owed: not *)
(* before it is handed over, not after the answer, and a transaction that  *)
(* was handed out is the one in execution.                                 *)
Tracked(o) ==
    /\ caller[o] \in Early => ~Placed(o) /\ reply[o] = "none" /\ result[o] = "none"
    /\ Placed(o) => reply[o] = "none"
    /\ caller[o] \in {"flushing", "waiting"} /\ reply[o] = "none" => Placed(o)
    /\ caller[o] = "holding" => exec = o
    /\ caller[o] \in {"committing", "rolling_back"} /\ reply[o] = "none" => exec = o
    /\ caller[o] \in {"holding", "committing", "rolling_back"} => o \in Queued
    /\ caller[o] \in {"admitted", "flushing"} => o \notin Queued /\ ClassOf[o] = "B"
    /\ batch[o] # {} => caller[o] = "flushing"

(* What was answered agrees with what was committed, and an operation      *)
(* whose caller was told anything but a timeout can no longer commit.      *)
Truthful(o) ==
    /\ commits[o] = 0 \/ (commits[o] = 1 /\ reply[o] = "committed")
    /\ reply[o] = "committed" /\ caller[o] \in {"flushing", "waiting", "committing"}
          => commits[o] = 1
    /\ caller[o] = "rolling_back" => commits[o] = 0
    /\ result[o] # "none" <=> caller[o] = "done"
    /\ result[o] = "committed" => commits[o] = 1
    /\ result[o] \notin {"none", "committed", "timeout"} => commits[o] = 0
    /\ result[o] \notin {"none", "timeout"} /\ Placed(o) => exec = o /\ o \in Queued

(* The drain passed the high lanes only when they held no such write. *)
Drained ==
    /\ ~shutdown => phase = "serve" /\ held = {}
    /\ \A o \in held : caller[o] \notin Early
    /\ phase \in {"drain_b", "exited"} =>
          \A o \in held : \A l \in HighLanes : \A i \in DOMAIN lane[l] : lane[l][i] # o

Inv == /\ TypeOK /\ Situated /\ \A o \in Ops : Tracked(o) /\ Truthful(o)
       /\ Drained /\ ShutdownDrainsClassA /\ CoalescedHasNewer

(* A step leaves an operation alone. *)
LEMMA Untouched ==
    ASSUME NEW p \in Ops, Tracked(p), Truthful(p), UNCHANGED <<caller[p], reply[p], result[p], commits[p]>>,
           Placed(p)' <=> Placed(p), exec' = p <=> exec = p, batch'[p] # {} => batch[p] # {}
    PROVE  Tracked(p)' /\ Truthful(p)'
  BY DEF Tracked, Truthful

(* Merged writes keep their newer one: no other step sends "coalesced". *)
LEMMA MergedStays ==
    ASSUME CoalescedHasNewer,
           \A p \in Ops : reply'[p] = "coalesced" <=> reply[p] = "coalesced",
           \A p \in Ops : caller[p] # "new" => caller'[p] # "new"
    PROVE  CoalescedHasNewer'
  BY DEF CoalescedHasNewer

(* The lanes that were passed stay free of held writes. *)
LEMMA DrainedStays ==
    ASSUME Drained, shutdown' = shutdown, held' = held, phase' = phase,
           \A p \in Ops : caller[p] \notin Early => caller'[p] \notin Early,
           held \subseteq Ops,
           \A l \in HighLanes : \A i \in DOMAIN lane'[l] :
               \/ \E j \in DOMAIN lane[l] : lane'[l][i] = lane[l][j]
               \/ lane'[l][i] \notin held
    PROVE  Drained'
<1>1. ~shutdown' => phase' = "serve" /\ held' = {}
  BY DEF Drained
<1>2. \A o \in held' : caller'[o] \notin Early
  BY DEF Drained
<1>3. ASSUME phase' \in {"drain_b", "exited"},
             NEW o \in held', NEW l \in HighLanes, NEW i \in DOMAIN lane'[l]
      PROVE  lane'[l][i] # o
  BY <1>3 DEF Drained
<1> QED
  BY <1>1, <1>2, <1>3 DEF Drained

-----------------------------------------------------------------------------
(* The invariant, action by action                                         *)

(* The steps of a caller that touch no place keep the invariant. *)
LEMMA CallerInv ==
    ASSUME Inv, NEW o \in Ops,
           Submit(o) \/ Timeout(o) \/ Receive(o) \/ HolderFinish(o) \/ FlushDone(o)
    PROVE  Inv'
<1>1. /\ UNCHANGED <<reply, buffer, merges, batch, flusher, lane, phase, exec, commits, shutdown, held>>
      /\ TypeOK
  BY DEF Inv, Submit, Timeout, Receive, HolderFinish, FlushDone, bufVars, flushVars, execVars, stopVars
<1>2. TypeOK' /\ Situated' /\ \A p \in Ops : Placed(p)' <=> Placed(p)
  BY <1>1, StayPut, TypeCaller DEF Inv
<1>3. \A p \in Ops \ {o} : caller'[p] = caller[p] /\ result'[p] = result[p]
  BY <1>1 DEF TypeOK, Submit, Timeout, Receive, HolderFinish, FlushDone, Return, Move
<1>4. ASSUME NEW p \in Ops, p # o PROVE Tracked(p)' /\ Truthful(p)'
  BY <1>1, <1>2, <1>3, <1>4, Untouched DEF Inv
<1>5. Tracked(o) /\ Truthful(o) /\ o \in DOMAIN caller /\ o \in DOMAIN result
  BY <1>1 DEF Inv, TypeOK
<1>6. Tracked(o)' /\ Truthful(o)' /\ caller'[o] # "new" /\ (caller[o] \notin Early => caller'[o] \notin Early)
  <2>1. CASE Submit(o)
    <3>1. \/ caller'[o] = "done" /\ result'[o] \in {"rejected", "dropped"}
          \/ caller'[o] = "sending" /\ result'[o] = "none"
          \/ caller'[o] = "admitted" /\ o \notin Queued /\ ClassOf[o] = "B" /\ result'[o] = "none"
      BY <1>5, <2>1 DEF Submit, Return, Move, Tracked, Early
    <3>2. caller[o] = "new"
      BY <2>1 DEF Submit
    <3> QED
      BY <1>1, <1>2, <1>5, <3>1, <3>2 DEF Tracked, Truthful, Early
  <2>2. CASE Timeout(o)
    <3>1. caller[o] = "waiting" /\ reply[o] = "none" /\ caller'[o] = "done" /\ result'[o] = "timeout"
      BY <1>5, <2>2 DEF Timeout, Return
    <3> QED
      BY <1>1, <1>2, <1>5, <3>1 DEF Tracked, Truthful, Early
  <2>3. CASE Receive(o)
    <3>1. /\ caller[o] \in {"waiting", "committing", "rolling_back"} /\ reply[o] # "none" /\ caller'[o] = "done"
          /\ \/ reply[o] = "closed" /\ result'[o] = "failed"
             \/ caller[o] = "rolling_back" /\ result'[o] = "rolled_back"
             \/ caller[o] # "rolling_back" /\ reply[o] # "closed" /\ result'[o] = reply[o]
      BY <1>5, <2>3 DEF Receive, Return
    <3>2. reply[o] \in Replies
      BY <1>1 DEF TypeOK
    <3> QED
      BY <1>1, <1>2, <1>5, <3>1, <3>2 DEF Tracked, Truthful, Early, Replies
  <2>4. CASE HolderFinish(o)
    <3>1. /\ caller[o] = "holding"
          /\ \/ caller'[o] \in {"committing", "rolling_back"} /\ result'[o] = result[o]
             \/ caller'[o] = "done" /\ result'[o] = "failed"
      BY <1>5, <2>4 DEF HolderFinish, Return, Move
    <3>2. Placed(o)
      BY <1>5, <3>1 DEF Tracked, Placed
    <3> QED
      BY <1>1, <1>2, <1>5, <3>1, <3>2 DEF Tracked, Truthful, Early
  <2>5. CASE FlushDone(o)
    <3>1. /\ caller[o] = "flushing" /\ batch[o] = {}
          /\ \/ caller'[o] = "done" /\ result'[o] = "timeout"
             \/ caller'[o] = "waiting" /\ result'[o] = result[o]
      BY <1>5, <2>5 DEF FlushDone, Return, Move
    <3> QED
      BY <1>1, <1>2, <1>5, <3>1 DEF Tracked, Truthful, Early
  <2> QED
    BY <2>1, <2>2, <2>3, <2>4, <2>5
<1>7. Drained'
  BY <1>1, <1>3, <1>6, DrainedStays DEF Inv, TypeOK
<1>8. CoalescedHasNewer'
  BY <1>1, <1>3, <1>6, MergedStays DEF Inv
<1>9. ShutdownDrainsClassA'
  BY <1>1 DEF Inv, ShutdownDrainsClassA
<1> QED
  BY <1>2, <1>4, <1>6, <1>7, <1>8, <1>9 DEF Inv

(* Sending to a lane hands the operation over, or answers its caller. *)
LEMMA EnqueueInv ==
    ASSUME Inv, NEW o \in Ops, Enqueue(o)
    PROVE  Inv'
<1>1. /\ UNCHANGED <<reply, buffer, merges, batch, flusher, phase, exec, commits, shutdown, held>>
      /\ TypeOK /\ Situated /\ caller[o] = "sending" /\ LaneOf[o] \in Lanes
  BY DbWriterAssumption DEF Inv, Enqueue, bufVars, flushVars, stopVars
<1>2. /\ \A p \in Ops \ {o} : caller'[p] = caller[p] /\ result'[p] = result[p]
      /\ \/ UNCHANGED lane /\ caller'[o] = "done" /\ result'[o] \in {"failed", "rejected"}
         \/ /\ lane' = [lane EXCEPT ![LaneOf[o]] = Append(@, o)]
            /\ \/ caller'[o] = "done" /\ result'[o] = "timeout"
               \/ caller'[o] = "waiting" /\ result'[o] = result[o]
  BY <1>1 DEF TypeOK, Enqueue, Return, Move
<1>3. Tracked(o) /\ Truthful(o) /\ ~Placed(o)
  BY <1>1 DEF Inv, Tracked, Early
<1>4. /\ Situated' /\ \A p \in Ops \ {o} : Placed(p)' <=> Placed(p)
      /\ \/ ~Placed(o)' /\ caller'[o] = "done" /\ result'[o] \in {"failed", "rejected"}
         \/ /\ Placed(o)' /\ exec # o
            /\ \/ caller'[o] = "done" /\ result'[o] = "timeout"
               \/ caller'[o] = "waiting" /\ result'[o] = result[o]
      /\ \A l \in Lanes : \A i \in DOMAIN lane'[l] :
            (i \in DOMAIN lane[l] /\ lane'[l][i] = lane[l][i]) \/ lane'[l][i] = o
  <2>1. CASE UNCHANGED lane /\ caller'[o] = "done" /\ result'[o] \in {"failed", "rejected"}
    BY <1>1, <1>3, <2>1, StayPut
  <2>2. CASE /\ lane' = [lane EXCEPT ![LaneOf[o]] = Append(@, o)]
             /\ \/ caller'[o] = "done" /\ result'[o] = "timeout"
                \/ caller'[o] = "waiting" /\ result'[o] = result[o]
    <3>1. LanesDistinct' /\ \A p \in Ops : Laned(p)' <=> (Laned(p) \/ p = o)
      BY <1>1, <1>3, <2>2, AppendLaned DEF Situated, Placed
    <3>2. \A l \in Lanes : \A i \in DOMAIN lane'[l] :
             \/ i \in DOMAIN lane[l] /\ lane'[l][i] = lane[l][i]
             \/ l = LaneOf[o] /\ lane'[l][i] = o
      BY <1>1, <2>2, AppendAt
    <3>3. /\ KeysRight(buffer)' /\ BatchesDistinct'
          /\ \A p \in Ops : /\ InBatch(p)' <=> InBatch(p)
                            /\ InBuffer(p)' <=> InBuffer(p)
      BY <1>1 DEF Situated, KeysRight, BatchesDistinct, InBatch, InBuffer
    <3>4. RightPlace'
      BY <1>1, <3>2, <3>3 DEF Situated, RightPlace
    <3>5. Apart'
      BY <1>1, <1>3, <3>1, <3>3 DEF Situated, Apart, Placed
    <3>6. /\ Placed(o)' /\ exec # o
          /\ \A p \in Ops \ {o} : Placed(p)' <=> Placed(p)
      BY <1>1, <1>3, <3>1, <3>3 DEF Placed
    <3> QED
      BY <2>2, <3>1, <3>2, <3>3, <3>4, <3>5, <3>6 DEF Situated
  <2> QED
    BY <1>2, <2>1, <2>2
<1>5. ASSUME NEW p \in Ops, p # o PROVE Tracked(p)' /\ Truthful(p)'
  BY <1>1, <1>2, <1>4, <1>5, Untouched DEF Inv
<1>6. Tracked(o)' /\ Truthful(o)'
  BY <1>1, <1>3, <1>4 DEF Tracked, Truthful, Early
<1>7. Drained'
  <2>1. o \notin held
    BY <1>1 DEF Inv, Drained, Early
  <2>2. HighLanes \subseteq Lanes
    BY LanesAre DEF HighLanes
  <2>3. \A p \in Ops : caller[p] \notin Early => caller'[p] \notin Early
    BY <1>1, <1>2 DEF Early
  <2> QED
    BY <1>1, <1>4, <2>1, <2>2, <2>3, DrainedStays DEF Inv, TypeOK
<1>8. CoalescedHasNewer'
  BY <1>1, <1>2, MergedStays DEF Inv
<1>9. ShutdownDrainsClassA'
  BY <1>1 DEF Inv, ShutdownDrainsClassA
<1> QED
  BY <1>4, <1>5, <1>6, <1>7, <1>8, <1>9, TypeEnqueue DEF Inv

(* What the critical section does to where operations are: the winner is   *)
(* inside the writer, the loser no longer is.                              *)
LEMMA CoalesceMoves ==
    ASSUME Inv, NEW o \in Ops, Coalesce(o)
    PROVE  /\ Situated' /\ caller[o] = "admitted"
           /\ UNCHANGED <<lane, phase, exec, commits, shutdown, held>>
           /\ \A p \in Ops \ {o} : batch'[p] = batch[p]
           /\ \/ Return(o, "rejected") /\ UNCHANGED reply /\ batch'[o] = {}
                /\ \A p \in Ops : Placed(p)' <=> Placed(p)
              \/ Move(o, "flushing") /\ UNCHANGED reply
                /\ \A p \in Ops : Placed(p)' <=> (Placed(p) \/ p = o)
              \/ \E win, lose \in Ops :
                   /\ o \in {win, lose} /\ win # lose /\ KeyOf[win] = KeyOf[lose]
                   /\ ObservedAt[win] >= ObservedAt[lose]
                   /\ win # o => Placed(win)
                   /\ lose # o => Placed(lose) /\ exec # lose
                   /\ Move(o, "flushing") /\ reply' = [reply EXCEPT ![lose] = "coalesced"]
                   /\ \A p \in Ops : Placed(p)' <=> ((Placed(p) \/ p = win) /\ p # lose)
<1> DEFINE old == buffer[KeyOf[o]]
           stored == [buffer EXCEPT ![KeyOf[o]] = o]
<1>1. TypeOK /\ Situated /\ Tracked(o) /\ o \in Flushers
  BY DEF Inv, Flushers
<1>2. /\ caller[o] = "admitted" /\ KeyOf[o] \in Keys
      /\ UNCHANGED <<lane, phase, exec, commits, shutdown, held>>
  BY <1>1, CoalesceCases
<1>3. ~Placed(o) /\ batch[o] = {} /\ o \notin Queued /\ ClassOf[o] = "B"
  BY <1>1, <1>2 DEF Tracked, Early
<1>4. buffer \in [Keys -> Ops \cup {NoOp}] /\ \A p \in Ops : KeyOf[p] \in Keys
  BY <1>1 DEF TypeOK, Keys
<1>5. /\ stored \in [Keys -> Ops \cup {NoOp}] /\ KeysRight(stored)
      /\ \A p \in Ops : stored[KeyOf[p]] = p <=> (p = o \/ (InBuffer(p) /\ KeyOf[p] # KeyOf[o]))
  BY <1>1, <1>2, <1>4 DEF Situated, KeysRight, InBuffer
<1>6. \A p \in Ops : InBuffer(p) =>
         ~Laned(p) /\ ~InBatch(p) /\ exec # p /\ p \notin Queued /\ ClassOf[p] = "B"
  BY <1>1 DEF Situated, Apart, RightPlace
<1>7. \A p \in Ops : stored[KeyOf[p]] = p =>
         ~Laned(p) /\ ~InBatch(p) /\ exec # p /\ p \notin Queued /\ ClassOf[p] = "B"
  BY <1>3, <1>5, <1>6 DEF Placed
<1>8. ASSUME DrainAll(o, stored) \/ (buffer' = stored /\ UNCHANGED batch)
      PROVE  /\ Situated' /\ \A p \in Ops \ {o} : batch'[p] = batch[p]
             /\ \A p \in Ops : Placed(p)' <=> (Placed(p) /\ (InBuffer(p) => KeyOf[p] # KeyOf[o])) \/ p = o
  <2>1. /\ Situated'
        /\ \A p \in Ops : Placed(p)' <=>
               (Laned(p) \/ InBatch(p) \/ exec = p \/ stored[KeyOf[p]] = p)
    <3> HIDE DEF stored
    <3> QED
      BY <1>1, <1>2, <1>3, <1>5, <1>7, <1>8, BufferMoves
  <2>2. \A p \in Ops \ {o} : batch'[p] = batch[p]
    BY <1>1, <1>8 DEF DrainAll, TypeOK, Flushers
  <2> HIDE DEF stored
  <2> QED
    BY <1>5, <1>6, <2>1, <2>2 DEF Placed
<1>9. ASSUME DrainAll(o, buffer) \/ (buffer' = buffer /\ UNCHANGED batch)
      PROVE  /\ Situated' /\ \A p \in Ops \ {o} : batch'[p] = batch[p]
             /\ \A p \in Ops : Placed(p)' <=> Placed(p)
  <2>1. \A p \in Ops : buffer[KeyOf[p]] = p =>
            ~Laned(p) /\ ~InBatch(p) /\ exec # p /\ p \notin Queued /\ ClassOf[p] = "B"
    BY <1>6 DEF InBuffer
  <2>2. /\ Situated'
        /\ \A p \in Ops : Placed(p)' <=>
               (Laned(p) \/ InBatch(p) \/ exec = p \/ buffer[KeyOf[p]] = p)
    BY <1>1, <1>2, <1>3, <1>4, <1>9, <2>1, BufferMoves DEF Situated
  <2>3. \A p \in Ops \ {o} : batch'[p] = batch[p]
    BY <1>1, <1>9 DEF DrainAll, TypeOK, Flushers
  <2> QED
    BY <2>2, <2>3 DEF Placed, InBuffer
<1>10. CASE Return(o, "rejected") /\ UNCHANGED <<reply, buffer, merges, batch>>
  BY <1>2, <1>3, <1>9, <1>10
<1>11. CASE old = NoOp /\ Move(o, "flushing") /\ buffer' = stored /\ UNCHANGED <<reply, merges, batch>>
  <2>1. \A p \in Ops : InBuffer(p) => KeyOf[p] # KeyOf[o]
    BY <1>11, DbWriterAssumption DEF InBuffer
  <2> HIDE DEF stored, old
  <2>2. /\ Situated' /\ \A p \in Ops \ {o} : batch'[p] = batch[p]
        /\ \A p \in Ops : Placed(p)' <=> (Placed(p) \/ p = o)
    BY <1>8, <1>11, <2>1
  <2> QED
    BY <1>2, <1>11, <2>2
<1>12. ASSUME old \in Ops
       PROVE  /\ KeyOf[old] = KeyOf[o] /\ old # o /\ Placed(old) /\ exec # old
              /\ \A p \in Ops : InBuffer(p) /\ KeyOf[p] = KeyOf[o] <=> p = old
  <2>1. KeyOf[old] = KeyOf[o] /\ InBuffer(old)
    BY <1>1, <1>2, <1>12 DEF Situated, KeysRight, InBuffer
  <2> QED
    BY <1>3, <1>6, <1>12, <2>1 DEF Placed, InBuffer
<1>13. CASE old \in Ops /\ Outcome(o, o, old, stored)
  <2>1. PICK lose \in Ops : lose = old
    BY <1>13
  <2>2. /\ Move(o, "flushing") /\ reply' = [reply EXCEPT ![lose] = "coalesced"]
        /\ ObservedAt[o] >= ObservedAt[lose]
        /\ DrainAll(o, stored) \/ (buffer' = stored /\ UNCHANGED batch)
    BY <1>13, <2>1 DEF Outcome, Kept
  <2>3. /\ KeyOf[lose] = KeyOf[o] /\ lose # o /\ Placed(lose) /\ exec # lose
        /\ \A p \in Ops : InBuffer(p) /\ KeyOf[p] = KeyOf[o] <=> p = lose
    BY <1>12, <2>1
  <2> HIDE DEF stored, old
  <2>4. /\ Situated' /\ \A p \in Ops \ {o} : batch'[p] = batch[p]
        /\ \A p \in Ops : Placed(p)' <=> ((Placed(p) \/ p = o) /\ p # lose)
    BY <1>8, <2>2, <2>3
  <2> QED
    BY <1>2, <2>2, <2>3, <2>4
<1>14. CASE old \in Ops /\ Outcome(o, old, o, buffer)
  <2>1. PICK win \in Ops : win = old
    BY <1>14
  <2>2. /\ Move(o, "flushing") /\ reply' = [reply EXCEPT ![o] = "coalesced"]
        /\ ObservedAt[win] >= ObservedAt[o]
        /\ DrainAll(o, buffer) \/ (buffer' = buffer /\ UNCHANGED batch)
    BY <1>14, <2>1 DEF Outcome, Kept
  <2>3. KeyOf[win] = KeyOf[o] /\ win # o /\ Placed(win)
    BY <1>12, <2>1
  <2> HIDE DEF stored, old
  <2>4. /\ Situated' /\ \A p \in Ops \ {o} : batch'[p] = batch[p]
        /\ \A p \in Ops : Placed(p)' <=> ((Placed(p) \/ p = win) /\ p # o)
    BY <1>3, <1>9, <2>2, <2>3
  <2> QED
    BY <1>2, <2>2, <2>3, <2>4
<1> QED
  BY <1>1, <1>10, <1>11, <1>13, <1>14, CoalesceCases

(* The winner of a merge keeps the invariant and stands for the loser. *)
LEMMA CoalesceInv ==
    ASSUME Inv, NEW o \in Ops, Coalesce(o)
    PROVE  Inv'
<1>1. /\ Situated' /\ caller[o] = "admitted" /\ TypeOK /\ TypeOK'
      /\ UNCHANGED <<lane, phase, exec, commits, shutdown, held>>
      /\ \A p \in Ops \ {o} : batch'[p] = batch[p]
  BY CoalesceMoves, TypeCoalesce DEF Inv
<1>2. /\ \A p \in Ops : Tracked(p) /\ Truthful(p)
      /\ ~Placed(o) /\ reply[o] = "none" /\ result[o] = "none" /\ exec # o
      /\ o \notin Queued /\ ClassOf[o] = "B" /\ commits[o] = 0
  BY <1>1 DEF Inv, Tracked, Truthful, Early, Placed
<1>3. /\ \A p \in Ops : Tracked(p)' /\ Truthful(p)'
      /\ \A p \in Ops : caller[p] \notin Early => caller'[p] \notin Early
      /\ \A p \in Ops : reply'[p] = "closed" => reply[p] = "closed"
      /\ CoalescedHasNewer'
  <2>1. CASE Return(o, "rejected") /\ UNCHANGED reply /\ batch'[o] = {}
             /\ \A p \in Ops : Placed(p)' <=> Placed(p)
    <3>1. /\ \A p \in Ops \ {o} : caller'[p] = caller[p] /\ result'[p] = result[p]
          /\ caller'[o] = "done" /\ result'[o] = "rejected"
      BY <1>1, <2>1 DEF TypeOK, Return
    <3>2. ASSUME NEW p \in Ops, p # o PROVE Tracked(p)' /\ Truthful(p)'
      BY <1>1, <1>2, <2>1, <3>1, <3>2, Untouched
    <3>3. Tracked(o)' /\ Truthful(o)'
      BY <1>1, <1>2, <2>1, <3>1 DEF Tracked, Truthful, Early
    <3>4. CoalescedHasNewer'
      BY <1>1, <2>1, <3>1, MergedStays DEF Inv
    <3> QED
      BY <1>1, <2>1, <3>1, <3>2, <3>3, <3>4 DEF Early
  <2>2. CASE Move(o, "flushing") /\ UNCHANGED reply
             /\ \A p \in Ops : Placed(p)' <=> (Placed(p) \/ p = o)
    <3>1. /\ \A p \in Ops \ {o} : caller'[p] = caller[p]
          /\ caller'[o] = "flushing" /\ result' = result
      BY <1>1, <2>2 DEF TypeOK, Move
    <3>2. ASSUME NEW p \in Ops, p # o PROVE Tracked(p)' /\ Truthful(p)'
      BY <1>1, <1>2, <2>2, <3>1, <3>2, Untouched
    <3>3. Tracked(o)' /\ Truthful(o)'
      BY <1>1, <1>2, <2>2, <3>1 DEF Tracked, Truthful, Early
    <3>4. CoalescedHasNewer'
      BY <1>1, <2>2, <3>1, MergedStays DEF Inv
    <3> QED
      BY <1>1, <2>2, <3>1, <3>2, <3>3, <3>4 DEF Early
  <2>3. ASSUME NEW win \in Ops, NEW lose \in Ops,
               o \in {win, lose}, win # lose, KeyOf[win] = KeyOf[lose],
               ObservedAt[win] >= ObservedAt[lose],
               win # o => Placed(win), lose # o => Placed(lose) /\ exec # lose,
               Move(o, "flushing"), reply' = [reply EXCEPT ![lose] = "coalesced"],
               \A p \in Ops : Placed(p)' <=> ((Placed(p) \/ p = win) /\ p # lose)
        PROVE  /\ \A p \in Ops : Tracked(p)' /\ Truthful(p)'
               /\ \A p \in Ops : caller[p] \notin Early => caller'[p] \notin Early
               /\ \A p \in Ops : reply'[p] = "closed" => reply[p] = "closed"
               /\ CoalescedHasNewer'
    <3>1. /\ \A p \in Ops \ {o} : caller'[p] = caller[p]
          /\ caller'[o] = "flushing" /\ result' = result
          /\ reply'[lose] = "coalesced" /\ \A p \in Ops \ {lose} : reply'[p] = reply[p]
      BY <1>1, <2>3 DEF TypeOK, Move
    <3>2. /\ reply[win] = "none" /\ reply[lose] = "none" /\ commits[win] = 0 /\ commits[lose] = 0
          /\ exec # lose
      BY <1>2, <2>3 DEF Tracked, Truthful
    <3>3. ASSUME NEW p \in Ops, p \notin {o, lose} PROVE Tracked(p)' /\ Truthful(p)'
      BY <1>1, <1>2, <2>3, <3>1, <3>3, Untouched
    <3>4. Tracked(lose)' /\ Truthful(lose)'
      BY <1>1, <1>2, <2>3, <3>1, <3>2 DEF Tracked, Truthful, Early
    <3>5. ASSUME o # lose PROVE Tracked(o)' /\ Truthful(o)'
      BY <1>1, <1>2, <2>3, <3>1, <3>2, <3>5 DEF Tracked, Truthful, Early
    <3>6. CoalescedHasNewer'
      <4> SUFFICES ASSUME NEW q \in Ops, reply'[q] = "coalesced"
                   PROVE  \E p \in Ops \ {q} : /\ KeyOf[p] = KeyOf[q] /\ caller'[p] # "new"
                                                /\ reply'[p] # "coalesced"
                                                /\ ObservedAt[p] >= ObservedAt[q]
        BY DEF CoalescedHasNewer
      <4>1. caller'[win] # "new" /\ reply'[win] = "none"
        BY <1>1, <1>2, <2>3, <3>1, <3>2 DEF Tracked, Early
      <4>2. \A p \in Ops : ObservedAt[p] \in Nat
        BY DbWriterAssumption
      <4>3. CASE q = lose
        BY <2>3, <4>1, <4>3
      <4>4. CASE q # lose
        <5>1. reply[q] = "coalesced"
          BY <3>1, <4>4
        <5>2. PICK p \in Ops \ {q} : /\ KeyOf[p] = KeyOf[q] /\ caller[p] # "new"
                                     /\ reply[p] # "coalesced"
                                     /\ ObservedAt[p] >= ObservedAt[q]
          BY <5>1 DEF Inv, CoalescedHasNewer
        <5>3. CASE p = lose
          <6>1. win # q /\ KeyOf[win] = KeyOf[q] /\ ObservedAt[win] >= ObservedAt[q]
            BY <2>3, <3>2, <4>2, <5>1, <5>2, <5>3
          <6> QED
            BY <4>1, <6>1
        <5>4. CASE p # lose
          <6>1. caller'[p] # "new" /\ reply'[p] # "coalesced"
            BY <3>1, <5>2, <5>4
          <6> QED
            BY <5>2, <6>1
        <5> QED
          BY <5>3, <5>4
      <4> QED
        BY <4>3, <4>4
    <3> QED
      BY <1>1, <3>1, <3>3, <3>4, <3>5, <3>6 DEF Early
  <2> QED
    BY <2>1, <2>2, <2>3, CoalesceMoves
<1>4. Drained'
  BY <1>1, <1>3, DrainedStays DEF Inv, TypeOK
<1>5. ShutdownDrainsClassA'
  BY <1>1, <1>3 DEF Inv, ShutdownDrainsClassA, TypeOK
<1> QED
  BY <1>1, <1>3, <1>4, <1>5 DEF Inv

(* A drained entry keeps its answer owed, or is answered and gone. *)
LEMMA SendInv ==
    ASSUME Inv, NEW f \in Flushers, NEW o \in Ops, SendEntry(f, o)
    PROVE  Inv'
<1>1. /\ Situated' /\ TypeOK /\ TypeOK' /\ Placed(o) /\ ClassOf[o] = "B"
      /\ UNCHANGED <<caller, result, exec, phase, commits, shutdown, held>>
      /\ \A g \in Flushers : batch'[g] \subseteq batch[g]
      /\ \A p \in Ops : p # o => (Placed(p)' <=> Placed(p))
      /\ \/ /\ lane' = [lane EXCEPT !["coalesced_projection"] = Append(@, o)]
            /\ UNCHANGED reply /\ Placed(o)'
         \/ /\ UNCHANGED lane /\ ~Placed(o)'
            /\ \E r \in {"failed", "closed"} : reply' = [reply EXCEPT ![o] = r]
  BY EntryMoves, TypeSend DEF Inv
<1>2. \A p \in Ops : batch'[p] # {} => batch[p] # {}
  BY <1>1 DEF Flushers
<1>3. \A p \in Ops \ {o} : reply'[p] = reply[p]
  BY <1>1 DEF TypeOK
<1>4. InBatch(o) /\ exec # o
  <2>1. InBatch(o)
    BY DEF SendEntry, InBatch
  <2> QED
    BY <2>1 DEF Inv, Situated, Apart
<1>5. Tracked(o) /\ Truthful(o) /\ reply[o] = "none"
  BY <1>1 DEF Inv, Tracked
<1>6. ASSUME NEW p \in Ops, p # o PROVE Tracked(p)' /\ Truthful(p)'
  BY <1>1, <1>2, <1>3, <1>6, Untouched DEF Inv
<1>7. /\ Tracked(o)' /\ Truthful(o)' /\ reply'[o] # "coalesced"
  <2>1. CASE UNCHANGED reply /\ Placed(o)'
    BY <1>1, <1>2, <1>4, <1>5, <2>1 DEF Tracked, Truthful, Early
  <2>2. CASE ~Placed(o)' /\ reply'[o] \in {"failed", "closed"}
    <3>1. caller[o] \notin {"committing", "rolling_back", "holding"} \cup Early
      BY <1>1, <1>4, <1>5 DEF Tracked
    <3> QED
      BY <1>1, <1>2, <1>4, <1>5, <2>2, <3>1 DEF Tracked, Truthful, Early
  <2> QED
    BY <1>1, <2>1, <2>2 DEF TypeOK
<1>8. Drained'
  <2>1. HighLanes \subseteq Lanes /\ "coalesced_projection" \notin HighLanes /\ "coalesced_projection" \in Lanes
    BY LanesAre DEF HighLanes
  <2>2. \A l \in HighLanes : lane'[l] = lane[l]
    BY <1>1, <2>1 DEF TypeOK
  <2> QED
    BY <1>1, <2>2, DrainedStays DEF Inv, TypeOK
<1>9. CoalescedHasNewer'
  BY <1>1, <1>3, <1>5, <1>7, MergedStays DEF Inv
<1>10. ShutdownDrainsClassA'
  BY <1>1, <1>3 DEF Inv, ShutdownDrainsClassA, TypeOK
<1> QED
  BY <1>1, <1>6, <1>7, <1>8, <1>9, <1>10 DEF Inv

(* The flush task only moves what is buffered. *)
LEMMA TimerInv == Inv /\ TimerFlush => Inv'
<1> SUFFICES ASSUME Inv, TimerFlush PROVE Inv'
  OBVIOUS
<1>1. /\ TypeOK /\ TypeOK' /\ Situated /\ batch["timer"] = {} /\ DrainAll("timer", buffer)
      /\ UNCHANGED <<caller, reply, result, lane, phase, exec, commits, shutdown, held>>
  BY TypeFlush DEF Inv, TimerFlush, callVars, execVars, stopVars
<1>2. \A p \in Ops : buffer[KeyOf[p]] = p =>
         ~Laned(p) /\ ~InBatch(p) /\ exec # p /\ p \notin Queued /\ ClassOf[p] = "B"
  BY <1>1 DEF Situated, Apart, RightPlace, InBuffer
<1>3. /\ Situated'
      /\ \A p \in Ops : Placed(p)' <=>
             (Laned(p) \/ InBatch(p) \/ exec = p \/ buffer[KeyOf[p]] = p)
  <2>1. "timer" \in Flushers /\ buffer \in [Keys -> Ops \cup {NoOp}] /\ KeysRight(buffer)
    BY <1>1 DEF Flushers, TypeOK, Situated
  <2> QED
    BY <1>1, <1>2, <2>1, BufferMoves
<1>4. \A p \in Ops : Placed(p)' <=> Placed(p)
  BY <1>3 DEF Placed, InBuffer
<1>5. \A p \in Ops : batch'[p] = batch[p]
  BY <1>1, DbWriterAssumption DEF DrainAll, TypeOK, Flushers
<1>6. ASSUME NEW p \in Ops PROVE Tracked(p)' /\ Truthful(p)'
  BY <1>1, <1>4, <1>5, Untouched DEF Inv
<1>7. Drained'
  BY <1>1, DrainedStays DEF Inv, TypeOK
<1>8. CoalescedHasNewer' /\ ShutdownDrainsClassA'
  BY <1>1, MergedStays DEF Inv, ShutdownDrainsClassA
<1> QED
  BY <1>1, <1>3, <1>6, <1>7, <1>8 DEF Inv

(* A message taken is executed or answered as late. *)
LEMMA TakeInv ==
    ASSUME Inv, NEW l \in Lanes, Take(l), TypeOK',
           UNCHANGED <<caller, result, buffer, batch, phase, commits, shutdown, held>>
    PROVE  Inv'
<1>1. PICK o \in Ops :
         /\ Situated' /\ Laned(o) /\ Placed(o) /\ exec # o /\ exec \notin Ops
         /\ \A p \in Ops : p # o => (Placed(p)' <=> Placed(p)) /\ exec' # p
         /\ \A m \in Lanes : \A i \in DOMAIN lane'[m] :
               \E j \in DOMAIN lane[m] : lane'[m][i] = lane[m][j]
         /\ \/ /\ reply' = [reply EXCEPT ![o] = "timeout"]
               /\ ~Placed(o)' /\ UNCHANGED exec
            \/ result[o] # "timeout" /\ exec' = o /\ Placed(o)' /\ UNCHANGED reply
  BY HeadMoves DEF Inv
<1>2. TypeOK /\ \A p \in Ops \ {o} : reply'[p] = reply[p]
  BY <1>1 DEF Inv, TypeOK
<1>3. Tracked(o) /\ Truthful(o) /\ reply[o] = "none"
  BY <1>1 DEF Inv, Tracked
<1>4. ASSUME NEW p \in Ops, p # o PROVE Tracked(p)' /\ Truthful(p)'
  BY <1>1, <1>2, <1>4, Untouched DEF Inv
<1>5. Tracked(o)' /\ Truthful(o)' /\ reply'[o] \in {"none", "timeout"}
  <2>1. CASE exec' = o /\ Placed(o)' /\ UNCHANGED reply
    BY <1>1, <1>3, <2>1 DEF Tracked, Truthful, Early
  <2>2. CASE ~Placed(o)' /\ reply'[o] = "timeout"
    BY <1>1, <1>3, <2>2 DEF Tracked, Truthful, Early
  <2> QED
    BY <1>1, <1>2, <2>1, <2>2 DEF TypeOK
<1>6. Drained'
  <2>1. HighLanes \subseteq Lanes
    BY LanesAre DEF HighLanes
  <2> QED
    BY <1>1, <1>2, <2>1, DrainedStays DEF Inv, TypeOK
<1>7. CoalescedHasNewer'
  BY <1>2, <1>3, <1>5, MergedStays DEF Inv
<1>8. ShutdownDrainsClassA'
  BY <1>2, <1>5 DEF Inv, ShutdownDrainsClassA, TypeOK
<1> QED
  BY <1>1, <1>4, <1>5, <1>6, <1>7, <1>8 DEF Inv

(* The drain of a shutdown keeps the invariant. *)
LEMMA DrainInv ==
    ASSUME Inv,
           DrainLanes("drain_a", HighLanes, "drain_b") \/ DrainLanes("drain_b", ClassBLanes, "exited")
    PROVE  Inv'
<1>1. /\ UNCHANGED <<caller, result, buffer, merges, batch, flusher, commits, shutdown>>
      /\ exec = NoOp /\ phase \in {"drain_a", "drain_b"} /\ TypeOK /\ TypeOK' /\ Situated
  BY DrainCases, TypeDrain DEF Inv
<1>2. shutdown
  BY <1>1 DEF Inv, Drained
<1>3. CASE (\E l \in Lanes : Take(l)) /\ UNCHANGED <<phase, held>>
  BY <1>1, <1>3, TakeInv
<1>4. CASE /\ phase = "drain_a" /\ phase' = "drain_b"
           /\ held' = (IF AllEmpty(HighLanes) THEN held ELSE {})
           /\ UNCHANGED <<reply, lane, exec>>
  <2>1. Situated' /\ \A p \in Ops : Placed(p)' <=> Placed(p)
    BY <1>1, <1>4, StayPut
  <2>2. ASSUME NEW p \in Ops PROVE Tracked(p)' /\ Truthful(p)'
    BY <1>1, <1>4, <2>1, Untouched DEF Inv
  <2>3. Drained'
    <3>1. held' \subseteq held
      BY <1>4
    <3>2. ASSUME NEW o \in held', NEW l \in HighLanes, NEW i \in DOMAIN lane'[l] PROVE FALSE
      <4>1. lane[l] = <<>> /\ DOMAIN lane[l] = {}
        BY <1>4, <3>2 DEF AllEmpty
      <4> QED
        BY <1>4, <3>2, <4>1
    <3> QED
      BY <1>1, <1>2, <3>1, <3>2 DEF Inv, Drained
  <2>4. CoalescedHasNewer' /\ ShutdownDrainsClassA'
    BY <1>1, <1>4, MergedStays DEF Inv, ShutdownDrainsClassA
  <2> QED
    BY <1>1, <2>1, <2>2, <2>3, <2>4 DEF Inv
<1>5. CASE /\ phase = "drain_b" /\ phase' = "exited"
           /\ held' = (IF AllEmpty(ClassBLanes) THEN held ELSE {})
           /\ reply' = [o \in Ops |-> IF \E l \in Lanes : o \in Range(lane[l])
                                      THEN "closed" ELSE reply[o]]
           /\ lane' = [l \in Lanes |-> <<>>] /\ UNCHANGED exec
  <2>1. /\ Situated' /\ \A p \in Ops : ~Laned(p)'
        /\ \A p \in Ops : Placed(p)' <=> (Placed(p) /\ ~Laned(p))
    BY <1>1, <1>5, LanesClosed
  <2>2. \A p \in Ops : reply'[p] = IF Laned(p) THEN "closed" ELSE reply[p]
    BY <1>5 DEF Laned, Range
  <2>3. \A p \in Ops : Laned(p) => Placed(p) /\ exec # p /\ reply[p] = "none"
    BY <1>1 DEF Inv, Situated, Apart, Placed, Tracked
  <2>4. ASSUME NEW p \in Ops, ~Laned(p) PROVE Tracked(p)' /\ Truthful(p)'
    BY <1>1, <1>5, <2>1, <2>2, <2>4, Untouched DEF Inv
  <2>5. ASSUME NEW p \in Ops, Laned(p) PROVE Tracked(p)' /\ Truthful(p)'
    <3>1. Tracked(p) /\ Truthful(p)
      BY DEF Inv
    <3>2. reply'[p] = "closed" /\ ~Placed(p)' /\ reply[p] = "none" /\ Placed(p) /\ exec # p
      BY <2>1, <2>2, <2>3, <2>5
    <3> QED
      BY <1>1, <3>1, <3>2 DEF Tracked, Truthful, Early
  <2>6. held' \subseteq held /\ held \subseteq Ops
    BY <1>1, <1>5 DEF TypeOK
  <2>7. Drained'
    <3>1. \A l \in HighLanes : DOMAIN lane'[l] = {}
      BY <1>5, LanesAre DEF HighLanes
    <3> QED
      BY <1>1, <1>2, <2>6, <3>1 DEF Inv, Drained
  <2>8. ASSUME NEW o \in held', ClassOf[o] = "A" PROVE ~Laned(o)
    <3>1. ASSUME NEW l \in Lanes, NEW i \in DOMAIN lane[l], lane[l][i] = o PROVE FALSE
      <4>1. AllEmpty(ClassBLanes) /\ o \in held /\ o \in Ops
        BY <1>5, <2>6, <2>8
      <4>2. LaneOf[o] = l
        BY <1>1, <2>8, <3>1, <4>1 DEF Situated, RightPlace
      <4>3. l \in HighLanes \cup {"projection_invalidation"}
        BY <2>8, <4>1, <4>2, LanesAre, ClassLaneAssumption DEF ClassLaneOk, HighLanes
      <4>4. l \notin HighLanes
        BY <1>5, <3>1, <4>1 DEF Inv, Drained
      <4>5. lane[l] = <<>>
        BY <4>1, <4>3, <4>4 DEF AllEmpty, ClassBLanes
      <4> QED
        BY <3>1, <4>5
    <3> QED
      BY <3>1 DEF Laned
  <2>9. ShutdownDrainsClassA'
    BY <2>2, <2>6, <2>8 DEF Inv, ShutdownDrainsClassA
  <2>10. CoalescedHasNewer'
    BY <1>1, <2>2, <2>3, MergedStays DEF Inv
  <2> QED
    BY <1>1, <2>1, <2>4, <2>5, <2>7, <2>9, <2>10 DEF Inv
<1> QED
  BY <1>3, <1>4, <1>5, DrainCases

(* Work and decided transactions end with an answer. *)
LEMMA EndInv ==
    ASSUME Inv, RunWork \/ FinishQueued \/ (BeginQueued /\ exec' = NoOp)
    PROVE  Inv'
<1>1. TypeOK /\ TypeOK' /\ Situated
  BY TypeExec DEF Inv
<1>2. PICK e \in Ops : e = exec
  BY DbWriterAssumption DEF RunWork, FinishQueued, BeginQueued
<1>3. /\ UNCHANGED <<caller, result, buffer, batch, lane, phase, shutdown, held>>
      /\ exec' = NoOp /\ exec' # e /\ (e \in Queued => caller[e] # "holding")
      /\ \/ /\ commits' = [commits EXCEPT ![e] = @ + 1]
            /\ reply' = [reply EXCEPT ![e] = "committed"]
            /\ e \notin Queued \/ caller[e] = "committing"
         \/ reply' = [reply EXCEPT ![e] = "failed"] /\ UNCHANGED commits
         \/ /\ reply' = [reply EXCEPT ![e] = "committed"] /\ UNCHANGED commits
            /\ caller[e] = "rolling_back"
  <2>1. CASE RunWork
    BY <1>2, <2>1, DbWriterAssumption DEF RunWork, bufVars, flushVars, stopVars
  <2>2. CASE FinishQueued
    BY <1>2, <2>2, DbWriterAssumption DEF FinishQueued, bufVars, flushVars, stopVars
  <2>3. CASE BeginQueued /\ exec' = NoOp
    BY <1>2, <2>3, DbWriterAssumption DEF BeginQueued, bufVars, flushVars, stopVars
  <2> QED
    BY <2>1, <2>2, <2>3
<1>4. /\ Situated'
      /\ \A p \in Ops : exec' # p /\ (Placed(p)' <=> (Placed(p) /\ p # e))
  BY <1>1, <1>2, <1>3, ExecMoves
<1>5. \A p \in Ops \ {e} : reply'[p] = reply[p] /\ commits'[p] = commits[p]
  BY <1>1, <1>3 DEF TypeOK
<1>6. Placed(e) /\ Tracked(e) /\ Truthful(e) /\ reply[e] = "none" /\ commits[e] = 0
  BY <1>2 DEF Inv, Tracked, Truthful, Placed
<1>7. ASSUME NEW p \in Ops, p # e PROVE Tracked(p)' /\ Truthful(p)'
  BY <1>2, <1>3, <1>4, <1>5, <1>7, Untouched DEF Inv
<1>8. Tracked(e)' /\ Truthful(e)' /\ reply'[e] \in {"committed", "failed"}
  <2>1. \/ commits'[e] = 1 /\ reply'[e] = "committed" /\ (e \notin Queued \/ caller[e] = "committing")
        \/ commits'[e] = 0 /\ reply'[e] = "failed"
        \/ commits'[e] = 0 /\ reply'[e] = "committed" /\ caller[e] = "rolling_back"
    BY <1>1, <1>3, <1>6 DEF TypeOK
  <2>2. /\ caller'[e] = caller[e] /\ result'[e] = result[e] /\ batch'[e] = batch[e]
        /\ ~Placed(e)' /\ exec' # e /\ caller[e] \notin Early \cup {"holding"}
        /\ result[e] \notin {"none", "timeout"} => e \in Queued /\ caller[e] = "done"
    <3>1. caller'[e] = caller[e] /\ result'[e] = result[e] /\ batch'[e] = batch[e] /\ exec' # e
      BY <1>3
    <3>2. ~Placed(e)'
      BY <1>4
    <3>3. caller[e] \notin Early \cup {"holding"}
      BY <1>3, <1>6 DEF Tracked
    <3>4. result[e] \notin {"none", "timeout"} => e \in Queued /\ caller[e] = "done"
      BY <1>6 DEF Truthful
    <3> QED
      BY <3>1, <3>2, <3>3, <3>4
  <2>3. Tracked(e)'
    BY <1>6, <2>1, <2>2 DEF Tracked
  <2>4. CASE commits'[e] = 1 /\ reply'[e] = "committed" /\ (e \notin Queued \/ caller[e] = "committing")
    <3>1. caller[e] # "rolling_back" /\ result[e] \in {"none", "timeout"}
      BY <1>6, <2>2, <2>4 DEF Tracked, Truthful
    <3> QED
      BY <1>6, <2>2, <2>3, <2>4, <3>1 DEF Truthful
  <2>5. CASE commits'[e] = 0 /\ reply'[e] = "failed"
    BY <1>6, <2>2, <2>3, <2>5 DEF Truthful
  <2>6. CASE commits'[e] = 0 /\ reply'[e] = "committed" /\ caller[e] = "rolling_back"
    BY <1>6, <2>2, <2>3, <2>6 DEF Truthful
  <2> QED
    BY <2>1, <2>4, <2>5, <2>6
<1>9. Drained'
  BY <1>1, <1>3, DrainedStays DEF Inv, TypeOK
<1>10. CoalescedHasNewer'
  BY <1>3, <1>5, <1>6, <1>8, MergedStays DEF Inv
<1>11. ShutdownDrainsClassA'
  BY <1>1, <1>3, <1>5, <1>8 DEF Inv, ShutdownDrainsClassA, TypeOK
<1> QED
  BY <1>1, <1>4, <1>7, <1>8, <1>9, <1>10, <1>11 DEF Inv

(* A transaction handed to its caller stays in execution. *)
LEMMA BeginInv == Inv /\ BeginQueued => Inv'
<1> SUFFICES ASSUME Inv, BeginQueued, exec' # NoOp PROVE Inv'
  BY EndInv
<1>1. TypeOK /\ TypeOK' /\ Situated
  BY TypeExec DEF Inv
<1>2. PICK e \in Ops : e = exec
  BY DbWriterAssumption DEF BeginQueued
<1>3. /\ UNCHANGED <<reply, result, buffer, batch, lane, phase, exec, commits, shutdown, held>>
      /\ caller[e] = "waiting" /\ caller' = [caller EXCEPT ![e] = "holding"] /\ e \in Queued
  BY <1>2 DEF BeginQueued, Move, bufVars, flushVars, stopVars
<1>4. Situated' /\ \A p \in Ops : Placed(p)' <=> Placed(p)
  BY <1>1, <1>3, StayPut
<1>5. caller'[e] = "holding" /\ \A p \in Ops \ {e} : caller'[p] = caller[p]
  BY <1>1, <1>3 DEF TypeOK
<1>6. ASSUME NEW p \in Ops, p # e PROVE Tracked(p)' /\ Truthful(p)'
  BY <1>3, <1>4, <1>5, <1>6, Untouched DEF Inv
<1>7. Tracked(e)' /\ Truthful(e)'
  <2>1. Tracked(e) /\ Truthful(e) /\ Placed(e)
    BY <1>2 DEF Inv, Placed
  <2> QED
    BY <1>2, <1>3, <1>4, <1>5, <2>1 DEF Tracked, Truthful, Early
<1>8. Drained'
  BY <1>1, <1>3, <1>5, DrainedStays DEF Inv, TypeOK, Early
<1>9. CoalescedHasNewer' /\ ShutdownDrainsClassA'
  BY <1>3, <1>5, MergedStays DEF Inv, ShutdownDrainsClassA
<1> QED
  BY <1>1, <1>4, <1>6, <1>7, <1>8, <1>9 DEF Inv

(* Where Places finds an operation, the invariant knows it to be. *)
LEMMA PlacesAre ==
    ASSUME TypeOK, KeysRight(buffer), NEW o \in Ops
    PROVE  Places(o) # {} <=> Placed(o)
<1>1. AtBatch(o) # {} <=> InBatch(o)
  BY DEF AtBatch, InBatch
<1>2. AtLane(o) # {} <=> Laned(o)
  <2> DEFINE inLane(l) == {<<"lane", l, i>> : i \in {j \in DOMAIN lane[l] : lane[l][j] = o}}
  <2>1. \A l \in Lanes : inLane(l) # {} <=> \E i \in DOMAIN lane[l] : lane[l][i] = o
    OBVIOUS
  <2>2. AtLane(o) = UNION {inLane(l) : l \in Lanes}
    BY DEF AtLane
  <2> HIDE DEF inLane
  <2> QED
    BY <2>1, <2>2 DEF Laned
<1>3. AtBuffer(o) # {} <=> InBuffer(o)
  <2>1. KeyOf[o] \in Keys
    BY DEF Keys
  <2>2. \A k \in Keys : buffer[k] = o => k = KeyOf[o]
    BY DEF KeysRight
  <2> QED
    BY <2>1, <2>2 DEF AtBuffer, InBuffer
<1>4. AtExec(o) # {} <=> exec = o
  <2>1. {exec} \cap {o} # {} <=> exec = o
    OBVIOUS
  <2> QED
    BY <2>1 DEF AtExec
<1> QED
  BY <1>1, <1>2, <1>3, <1>4 DEF Places, Placed

(* The shutdown signal and the start of the drain move nothing. *)
LEMMA StopInv == Inv /\ (StartDrain \/ Shutdown) => Inv'
<1> SUFFICES ASSUME Inv, StartDrain \/ Shutdown PROVE Inv'
  OBVIOUS
<1>1. /\ TypeOK /\ TypeOK' /\ Situated
      /\ UNCHANGED <<caller, reply, result, buffer, batch, lane, exec, commits>>
  BY TypeExec DEF Inv, StartDrain, Shutdown, callVars, bufVars, flushVars, execVars
<1>2. Situated' /\ \A p \in Ops : Placed(p)' <=> Placed(p)
  BY <1>1, StayPut
<1>3. ASSUME NEW p \in Ops PROVE Tracked(p)' /\ Truthful(p)'
  BY <1>1, <1>2, Untouched DEF Inv
<1>4. Drained' /\ ShutdownDrainsClassA'
  <2>1. CASE StartDrain
    <3>1. shutdown /\ phase' = "drain_a" /\ UNCHANGED <<shutdown, held>>
      BY <2>1 DEF StartDrain, stopVars
    <3> QED
      BY <1>1, <3>1 DEF Inv, Drained, ShutdownDrainsClassA
  <2>2. CASE Shutdown
    <3>1. ~shutdown /\ shutdown' /\ UNCHANGED phase /\ held' = {o \in Ops : Places(o) # {}}
      BY <2>2 DEF Shutdown, execVars
    <3>2. \A o \in held' : o \in Ops /\ Placed(o)
      BY <1>1, <3>1, PlacesAre DEF Situated
    <3>3. \A o \in held' : caller[o] \notin Early /\ reply[o] = "none"
      BY <3>2 DEF Inv, Tracked
    <3> QED
      BY <1>1, <3>1, <3>3 DEF Inv, Drained, ShutdownDrainsClassA
  <2> QED
    BY <2>1, <2>2
<1>5. CoalescedHasNewer'
  BY <1>1, MergedStays DEF Inv
<1> QED
  BY <1>1, <1>2, <1>3, <1>4, <1>5 DEF Inv

(* The invariant holds initially. *)
LEMMA InvInit == Init => Inv
<1> SUFFICES ASSUME Init PROVE Inv
  OBVIOUS
<1>1. TypeOK
  BY TypeInit
<1>2. /\ \A k \in Keys : buffer[k] = NoOp
      /\ \A f \in Flushers : batch[f] = {}
      /\ \A l \in Lanes : DOMAIN lane[l] = {}
      /\ exec = NoOp /\ ~shutdown /\ phase = "serve" /\ held = {}
      /\ \A o \in Ops : /\ caller[o] = "new" /\ reply[o] = "none" /\ result[o] = "none"
                        /\ commits[o] = 0 /\ o \in Flushers /\ KeyOf[o] \in Keys
  BY DEF Init, Flushers, Keys
<1>3. \A o \in Ops : ~Laned(o) /\ ~InBatch(o) /\ ~InBuffer(o) /\ exec # o
  BY <1>2, DbWriterAssumption DEF Laned, InBatch, InBuffer
<1>4. Situated
  BY <1>2, <1>3, DbWriterAssumption DEF Situated, KeysRight, LanesDistinct, BatchesDistinct, Apart, RightPlace
<1>5. \A o \in Ops : Tracked(o) /\ Truthful(o)
  BY <1>2, <1>3 DEF Tracked, Truthful, Placed, Early
<1>6. Drained /\ ShutdownDrainsClassA /\ CoalescedHasNewer
  BY <1>2 DEF Drained, ShutdownDrainsClassA, CoalescedHasNewer
<1> QED
  BY <1>1, <1>4, <1>5, <1>6 DEF Inv

(* Every step keeps the invariant. *)
LEMMA InvNext == Inv /\ [Next]_vars => Inv'
<1> SUFFICES ASSUME Inv, [Next]_vars PROVE Inv'
  OBVIOUS
<1>1. ASSUME UNCHANGED vars PROVE Inv'
  <2>1. UNCHANGED <<caller, reply, result, buffer, merges, batch, flusher, lane, phase, exec, commits, shutdown, held>>
    BY <1>1 DEF vars, callVars, bufVars, flushVars, execVars, stopVars
  <2>2. TypeOK'
    BY <1>1, TypeNext DEF Inv
  <2>3. Situated' /\ \A p \in Ops : Placed(p)' <=> Placed(p)
    BY <2>1, StayPut DEF Inv
  <2>4. ASSUME NEW p \in Ops PROVE Tracked(p)' /\ Truthful(p)'
    BY <2>1, <2>3, Untouched DEF Inv
  <2>5. Drained' /\ ShutdownDrainsClassA' /\ CoalescedHasNewer'
    BY <2>1 DEF Inv, Drained, ShutdownDrainsClassA, CoalescedHasNewer
  <2> QED
    BY <2>2, <2>3, <2>4, <2>5 DEF Inv
<1>2. ASSUME NEW o \in Ops, CallerStep(o) PROVE Inv'
  <2>1. o \in Flushers
    BY DEF Flushers
  <2> QED
    BY <1>2, <2>1, CallerInv, EnqueueInv, CoalesceInv, SendInv DEF CallerStep
<1>3. CASE FlushStep
  <2>1. "timer" \in Flushers
    BY DEF Flushers
  <2> QED
    BY <1>3, <2>1, TimerInv, SendInv DEF FlushStep
<1>4. CASE Serve
  <2>1. TypeOK'
    BY <1>4, TypeExec DEF Inv
  <2> QED
    BY <1>4, <2>1, ServeTakes, TakeInv
<1>5. CASE ExecStep
  BY <1>4, <1>5, DrainInv, EndInv, BeginInv, StopInv DEF ExecStep
<1>6. CASE Shutdown
  BY <1>6, StopInv
<1> QED
  BY <1>1, <1>2, <1>3, <1>5, <1>6 DEF Next, Stopped

(* The invariant holds throughout. *)
LEMMA InvHolds == Spec => []Inv
  BY InvInit, InvNext, PTL DEF Spec

-----------------------------------------------------------------------------
(* Theorems                                                                *)

(* The gateway keeps its types, and no lane outgrows its capacity. *)
THEOREM DbWriterTypeCorrect == Spec => []TypeOK
<1>1. Inv => TypeOK
  BY DEF Inv
<1> QED
  BY <1>1, InvHolds, PTL

(* What a caller of the write gateway is told is true for good: whatever   *)
(* the interleaving of callers, flushes, executor and shutdown, a write    *)
(* reported committed was committed once and one reported rejected,        *)
(* merged, dropped, rolled back or failed never is.                        *)
THEOREM AnswersHold == Spec => []AnswerIsTrue
<1>1. Inv => AnswerIsTrue
  <2> SUFFICES ASSUME Inv, NEW o \in Ops
               PROVE  /\ commits[o] <= 1
                      /\ result[o] = "committed" => commits[o] = 1
                      /\ result[o] \notin {"none", "committed", "timeout"} => commits[o] = 0
    BY DEF AnswerIsTrue
  <2>1. Truthful(o)
    BY DEF Inv
  <2> QED
    BY <2>1 DEF Truthful
<1> QED
  BY <1>1, InvHolds, PTL

(* Coalescing, draining, sending and executing lose no operation and       *)
(* duplicate none.                                                         *)
THEOREM NothingLostOrDuplicated == Spec => []InOnePlace
<1>1. Inv => InOnePlace
  <2> SUFFICES ASSUME Inv, NEW o \in Ops
               PROVE  /\ \A x, y \in Places(o) : x = y
                      /\ reply[o] # "none" => Places(o) = {}
                      /\ caller[o] \in {"flushing", "waiting"} /\ reply[o] = "none" => Places(o) # {}
    BY DEF InOnePlace
  <2>1. TypeOK /\ Situated /\ Tracked(o) /\ (Places(o) # {} <=> Placed(o))
    BY PlacesAre DEF Inv, Situated
  <2>2. \A x, y \in AtBatch(o) : x = y
    BY <2>1 DEF AtBatch, Situated, BatchesDistinct
  <2>3. \A x, y \in AtLane(o) : x = y
    <3> SUFFICES ASSUME NEW x \in AtLane(o), NEW y \in AtLane(o) PROVE x = y
      OBVIOUS
    <3>1. PICK l \in Lanes : \E i \in DOMAIN lane[l] : lane[l][i] = o /\ x = <<"lane", l, i>>
      BY DEF AtLane
    <3>2. PICK m \in Lanes : \E j \in DOMAIN lane[m] : lane[m][j] = o /\ y = <<"lane", m, j>>
      BY DEF AtLane
    <3> QED
      BY <2>1, <3>1, <3>2 DEF Situated, LanesDistinct
  <2>4. \A x, y \in AtBuffer(o) : x = y
    BY <2>1 DEF AtBuffer, Situated, KeysRight
  <2>5. \A x, y \in AtExec(o) : x = y
    BY DEF AtExec
  <2>6. /\ AtBatch(o) # {} => InBatch(o)
        /\ AtLane(o) # {} => Laned(o)
        /\ AtBuffer(o) # {} => InBuffer(o)
        /\ AtExec(o) # {} => exec = o
    <3>1. AtLane(o) # {} => Laned(o)
      BY DEF AtLane, Laned
    <3>2. AtBuffer(o) # {} => InBuffer(o)
      BY <2>1 DEF AtBuffer, InBuffer, Situated, KeysRight
    <3>3. (AtBatch(o) # {} => InBatch(o)) /\ (AtExec(o) # {} => exec = o)
      BY DEF AtBatch, InBatch, AtExec
    <3> QED
      BY <3>1, <3>2, <3>3
  <2>7. \A x, y \in Places(o) : x = y
    BY <2>1, <2>2, <2>3, <2>4, <2>5, <2>6 DEF Places, Situated, Apart
  <2> QED
    BY <2>1, <2>7 DEF Tracked
<1> QED
  BY <1>1, InvHolds, PTL

(* A merged write always has a newer write of its key to stand for it. *)
THEOREM MergedForNewer == Spec => []CoalescedHasNewer
<1>1. Inv => CoalescedHasNewer
  BY DEF Inv
<1> QED
  BY <1>1, InvHolds, PTL

(* Graceful shutdown drops no barrier write it found inside the writer,    *)
(* unless a drain budget ran out.                                          *)
THEOREM ShutdownKeepsBarriers == Spec => []ShutdownDrainsClassA
<1>1. Inv => ShutdownDrainsClassA
  BY DEF Inv
<1> QED
  BY <1>1, InvHolds, PTL
=============================================================================
