------------------------------ MODULE DbWriter ------------------------------
(***************************************************************************)
(* The write gateway: bounded priority lanes drained by one executor, the  *)
(* Class B coalescing buffer with its flush task, transactions handed out  *)
(* to their caller, per-operation deadlines, and graceful shutdown.  Every *)
(* caller, the flush task and the executor run on their own threads.       *)
(*                                                                         *)
(* Each operation of Ops is submitted at most once.  Counters, heartbeat   *)
(* and starvation metrics are left out: no decision depends on them.       *)
(*                                                                         *)
(* A deadline may pass at any moment.  Whoever looks at it therefore may   *)
(* find it passed, and must once the caller was told so.                   *)
(***************************************************************************)
EXTENDS Integers, Sequences, FiniteSets, Functions

CONSTANTS
    Ops,        \* the write operations
    NoOp,       \* not an operation
    ClassOf,    \* WriteOperation.class of each
    LaneOf,     \* WriteOperation.lane
    Queued,     \* the ones begun by begin_immediate_transaction
    KeyOf,      \* WriteOperation.idempotency_key
    ObservedAt, \* WriteOperation.observed_at, which every Class B producer sets
    Admitted,   \* the ones in SHUTDOWN_ADMITTED_OPERATIONS
    LaneCap,    \* capacity of each lane
    MergeMax,   \* COALESCE_FLUSH_MAX_MERGES
    MaxKeys     \* COALESCE_MAX_KEYS

HighLanes == {"critical_barrier", "operator_command"}
ClassBLanes == {"projection_invalidation", "coalesced_projection"}
LaneOrder == <<"critical_barrier", "operator_command", "projection_invalidation",
               "coalesced_projection", "evidence_metadata", "telemetry_rollup">>
Lanes == Range(LaneOrder)
Keys == {KeyOf[o] : o \in Ops}

ASSUME DbWriterAssumption ==
    /\ IsFiniteSet(Ops) /\ NoOp \notin Ops /\ "timer" \notin Ops
    /\ ClassOf \in [Ops -> {"A", "B", "C", "D"}] /\ LaneOf \in [Ops -> Lanes]
    /\ Queued \subseteq Ops /\ DOMAIN KeyOf = Ops /\ ObservedAt \in [Ops -> Nat]
    /\ LaneCap \in Nat \ {0} /\ MergeMax \in Nat \ {0} /\ MaxKeys \in Nat

(* WriteOperation::validate: an ill-classified operation is rejected       *)
(* before it meets any state, so Ops holds well-classified ones only.      *)
ClassLaneOk(o) ==
    /\ LaneOf[o] \in HighLanes => ClassOf[o] = "A"
    /\ LaneOf[o] = "projection_invalidation" => ClassOf[o] \in {"A", "B"}
    /\ LaneOf[o] = "coalesced_projection" => ClassOf[o] = "B"
    /\ LaneOf[o] = "evidence_metadata" => ClassOf[o] = "C"
    /\ LaneOf[o] = "telemetry_rollup" => ClassOf[o] = "D"

ASSUME ClassLaneAssumption == \A o \in Ops : ClassLaneOk(o)

VARIABLES
    caller,   \* where the submitter of each operation stands
    reply,    \* what was sent on its oneshot channel
    result,   \* what its caller was told
    buffer,   \* the operation buffered under each coalescing key, or NoOp
    merges,   \* CoalescingBuffer.merge_count
    batch,    \* entries drained by a caller or by the timer, not yet sent
    flusher,  \* the flush task: "running" or "stopped"
    lane,     \* the bounded channels
    phase,    \* where the executor stands
    exec,     \* the operation it executes, or NoOp
    commits,  \* how often each operation was committed
    shutdown, \* shutdown_in_progress and the shutdown signal
    held      \* history: the operations inside the writer at the signal,
              \* empty once a drain budget ran out

callVars == <<caller, reply, result>>
bufVars == <<buffer, merges>>
flushVars == <<batch, flusher>>
execVars == <<lane, phase, exec, commits>>
stopVars == <<shutdown, held>>
vars == <<callVars, bufVars, flushVars, execVars, stopVars>>

Flushers == Ops \cup {"timer"}
Replies == {"none", "committed", "coalesced", "timeout", "failed", "closed"}
Results == {"none", "committed", "coalesced", "dropped", "rejected", "timeout",
            "failed", "rolled_back"}

TypeOK ==
    /\ caller \in [Ops -> {"new", "admitted", "flushing", "sending", "waiting",
                           "holding", "committing", "rolling_back", "done"}]
    /\ reply \in [Ops -> Replies] /\ result \in [Ops -> Results]
    /\ buffer \in [Keys -> Ops \cup {NoOp}] /\ merges \in Nat
    /\ batch \in [Flushers -> SUBSET Ops] /\ flusher \in {"running", "stopped"}
    /\ lane \in [Lanes -> Seq(Ops)] /\ \A l \in Lanes : Len(lane[l]) <= LaneCap
    /\ phase \in {"serve", "drain_a", "drain_b", "exited"}
    /\ exec \in Ops \cup {NoOp} /\ commits \in [Ops -> Nat]
    /\ shutdown \in BOOLEAN /\ held \subseteq Ops

Init ==
    /\ caller = [o \in Ops |-> "new"]
    /\ reply = [o \in Ops |-> "none"] /\ result = [o \in Ops |-> "none"]
    /\ buffer = [k \in Keys |-> NoOp] /\ merges = 0
    /\ batch = [f \in Flushers |-> {}] /\ flusher = "running"
    /\ lane = [l \in Lanes |-> <<>>]
    /\ phase = "serve" /\ exec = NoOp /\ commits = [o \in Ops |-> 0]
    /\ shutdown = FALSE /\ held = {}

-----------------------------------------------------------------------------
(* Callers                                                                 *)

Full(l) == Len(lane[l]) >= LaneCap
Return(o, r) == /\ caller' = [caller EXCEPT ![o] = "done"]
                /\ result' = [result EXCEPT ![o] = r]
Move(o, label) == caller' = [caller EXCEPT ![o] = label] /\ UNCHANGED result

(* The shutdown admission filter, then the route of the operation's class. *)
Submit(o) ==
    /\ caller[o] = "new"
    /\ \/ /\ shutdown /\ ~(ClassOf[o] = "A" /\ o \in Admitted)
          /\ Return(o, "rejected")
       \/ /\ shutdown => ClassOf[o] = "A" /\ o \in Admitted
          /\ CASE o \in Queued -> Move(o, "sending")
               [] o \notin Queued /\ ClassOf[o] = "B" -> Move(o, "admitted")
               [] o \notin Queued /\ ClassOf[o] = "D" /\ Full(LaneOf[o]) ->
                      Return(o, "dropped")
               [] OTHER -> Move(o, "sending")
    /\ UNCHANGED <<reply, bufVars, flushVars, execVars, stopVars>>

(* lane_tx.send under the deadline *)
Enqueue(o) ==
    LET l == LaneOf[o]
    IN  /\ caller[o] = "sending"
        /\ \/ /\ phase = "exited" /\ Return(o, "failed") /\ UNCHANGED lane
           \/ /\ phase # "exited" /\ Full(l)
              /\ Return(o, "rejected") /\ UNCHANGED lane
           \/ /\ phase # "exited" /\ ~Full(l)
              /\ lane' = [lane EXCEPT ![l] = Append(@, o)]
              /\ (Return(o, "timeout") \/ Move(o, "waiting"))
        /\ UNCHANGED <<reply, bufVars, flushVars, phase, exec, commits, stopVars>>

(* mutant: a deadline is reported as a failure *)
TimeoutAsFailure(o) ==
    /\ caller[o] = "waiting" /\ reply[o] = "none"
    /\ Return(o, "failed")
    /\ UNCHANGED <<reply, bufVars, flushVars, execVars, stopVars>>

(* The caller gives up; its operation stays where it is. *)
Timeout(o) ==
    /\ caller[o] = "waiting" /\ reply[o] = "none"
    /\ Return(o, "timeout")
    /\ UNCHANGED <<reply, bufVars, flushVars, execVars, stopVars>>

(* mutant: a channel whose sender is gone counts as no answer yet *)
ReceiveOpenOnly(o) ==
    /\ caller[o] \in {"waiting", "committing", "rolling_back"}
    /\ reply[o] \notin {"none", "closed"}
    /\ Return(o, IF caller[o] = "rolling_back" THEN "rolled_back" ELSE reply[o])
    /\ UNCHANGED <<reply, bufVars, flushVars, execVars, stopVars>>

(* The answer, or the loss of the channel it was to come on. *)
Receive(o) ==
    /\ caller[o] \in {"waiting", "committing", "rolling_back"}
    /\ reply[o] # "none"
    /\ Return(o, CASE reply[o] = "closed" -> "failed"
                   [] caller[o] = "rolling_back" -> "rolled_back"
                   [] OTHER -> reply[o])
    /\ UNCHANGED <<reply, bufVars, flushVars, execVars, stopVars>>

(* The holder of a queued transaction commits, rolls back or drops it. *)
HolderFinish(o) ==
    /\ caller[o] = "holding"
    /\ \/ Move(o, "committing") \/ Move(o, "rolling_back") \/ Return(o, "failed")
    /\ UNCHANGED <<reply, bufVars, flushVars, execVars, stopVars>>

-----------------------------------------------------------------------------
(* Class B coalescing                                                      *)

(* mutant: the entry that is already buffered always survives *)
FirstWins(o, old) == FALSE

(* Does o replace the buffered entry old? *)
NewWins(o, old) == ObservedAt[o] >= ObservedAt[old]

Buffered(b) == {b[k] : k \in Keys} \ {NoOp}

(* mutant: the entries are sent but stay in the buffer *)
DrainKeeping(f, b) ==
    /\ batch' = [batch EXCEPT ![f] = Buffered(b)]
    /\ buffer' = b
    /\ merges' = 0

(* drain_all of the buffer b into the hands of f *)
DrainAll(f, b) ==
    /\ batch' = [batch EXCEPT ![f] = Buffered(b)]
    /\ buffer' = [k \in Keys |-> NoOp]
    /\ merges' = 0

(* The critical section of submit_class_b: insert, replace, drop as stale  *)
(* or reject, and drain the buffer when enough merges happened.            *)
Coalesce(o) ==
    LET k == KeyOf[o]
        old == buffer[k]
        stored == [buffer EXCEPT ![k] = o]
    IN  /\ caller[o] = "admitted"
        /\ \/ /\ old = NoOp /\ Cardinality(Buffered(buffer)) >= MaxKeys
              /\ Return(o, "rejected")
              /\ UNCHANGED <<reply, buffer, merges, batch>>
           \/ /\ old = NoOp /\ Cardinality(Buffered(buffer)) < MaxKeys
              /\ Move(o, "flushing")
              /\ buffer' = stored
              /\ UNCHANGED <<reply, merges, batch>>
           \/ /\ old # NoOp
              /\ Move(o, "flushing")
              /\ LET b == IF NewWins(o, old) THEN stored ELSE buffer
                     loser == IF NewWins(o, old) THEN old ELSE o
                 IN  /\ reply' = [reply EXCEPT ![loser] = "coalesced"]
                     /\ IF merges + 1 >= MergeMax
                        THEN DrainAll(o, b)
                        ELSE buffer' = b /\ merges' = merges + 1 /\ UNCHANGED batch
        /\ UNCHANGED <<flusher, execVars, stopVars>>

(* The caller sent what it drained and waits for its own result. *)
FlushDone(o) ==
    /\ caller[o] = "flushing" /\ batch[o] = {}
    /\ (Return(o, "timeout") \/ Move(o, "waiting"))
    /\ UNCHANGED <<reply, bufVars, flushVars, execVars, stopVars>>

(* mutant: the entry is reported lost but sent nevertheless *)
SendEntryAnyway(f, o) ==
    /\ o \in batch[f]
    /\ batch' = [batch EXCEPT ![f] = @ \ {o}]
    /\ lane' = [lane EXCEPT !["coalesced_projection"] = Append(@, o)]
    /\ reply' = IF Full("coalesced_projection")
                THEN [reply EXCEPT ![o] = "failed"] ELSE reply
    /\ UNCHANGED <<caller, result, bufVars, flusher, phase, exec, commits,
                   stopVars>>

(* try_send of one drained entry: the buffer's lock is no longer held. *)
SendEntry(f, o) ==
    LET cp == "coalesced_projection"
    IN  /\ o \in batch[f]
        /\ batch' = [batch EXCEPT ![f] = @ \ {o}]
        /\ \/ /\ phase # "exited" /\ ~Full(cp)
              /\ lane' = [lane EXCEPT ![cp] = Append(@, o)]
              /\ UNCHANGED reply
           \/ /\ phase # "exited" /\ Full(cp)
              /\ reply' = [reply EXCEPT ![o] = "failed"] /\ UNCHANGED lane
           \/ /\ phase = "exited"
              /\ reply' = [reply EXCEPT ![o] = "closed"] /\ UNCHANGED lane
        /\ UNCHANGED <<caller, result, bufVars, flusher, phase, exec,
                       commits, stopVars>>

(* The flush task: a periodic drain of everything, and a last one.  It     *)
(* sends a whole batch before it looks at the timer or the signal again.   *)
TimerFlush ==
    /\ flusher = "running" /\ batch["timer"] = {}
    /\ IF shutdown THEN flusher' = "stopped"
                   ELSE Buffered(buffer) # {} /\ UNCHANGED flusher
    /\ DrainAll("timer", buffer)
    /\ UNCHANGED <<callVars, execVars, stopVars>>

-----------------------------------------------------------------------------
(* The executor                                                            *)

(* execute_message: the deadline is checked once, before the work starts; it
   has passed for a caller that timed out and may have for any other.      *)
Take(l) ==
    LET o == Head(lane[l])
    IN  /\ exec = NoOp /\ lane[l] # <<>>
        /\ lane' = [lane EXCEPT ![l] = Tail(@)]
        /\ \/ reply' = [reply EXCEPT ![o] = "timeout"] /\ UNCHANGED exec
           \/ result[o] # "timeout" /\ exec' = o /\ UNCHANGED reply

AllEmpty(L) == \A l \in L : lane[l] = <<>>
FirstReady(n) == /\ lane[LaneOrder[n]] # <<>>
                 /\ \A m \in 1..(n - 1) : lane[LaneOrder[m]] = <<>>

(* run_executor: a lower lane is served when the lanes before it are       *)
(* empty.  The two high lanes are each emptied in turn, so either may be   *)
(* served while the other is waiting.                                      *)
Serve ==
    /\ phase = "serve"
    /\ \/ \E l \in HighLanes : Take(l)
       \/ \E n \in DOMAIN LaneOrder : FirstReady(n) /\ Take(LaneOrder[n])
    /\ UNCHANGED <<caller, result, bufVars, flushVars, phase, commits,
                   stopVars>>

(* mutant: the signal is served before the lanes *)
StartDrainEagerly ==
    /\ phase = "serve" /\ exec = NoOp /\ shutdown
    /\ phase' = "drain_b"
    /\ UNCHANGED <<callVars, bufVars, flushVars, lane, exec, commits, stopVars>>

(* The shutdown signal comes last in the order of the select. *)
StartDrain ==
    /\ phase = "serve" /\ exec = NoOp /\ shutdown /\ AllEmpty(Lanes)
    /\ phase' = "drain_a"
    /\ UNCHANGED <<callVars, bufVars, flushVars, lane, exec, commits, stopVars>>

(* drain_on_shutdown: the lanes of L until they are empty or the budget is *)
(* spent.  The code alternates between the two lanes.                      *)
DrainLanes(here, L, next) ==
    /\ phase = here /\ exec = NoOp
    /\ \/ \E l \in L : Take(l) /\ UNCHANGED <<phase, held>>
       \/ /\ phase' = next
          /\ held' = IF AllEmpty(L) THEN held ELSE {}
          /\ IF next = "exited"
             THEN /\ reply' = [o \in Ops |->
                         IF \E l \in Lanes : o \in Range(lane[l]) THEN "closed"
                                                                  ELSE reply[o]]
                  /\ lane' = [l \in Lanes |-> <<>>]
             ELSE UNCHANGED <<reply, lane>>
          /\ UNCHANGED exec
    /\ UNCHANGED <<caller, result, bufVars, flushVars, commits, shutdown>>

(* Work that opens, runs and commits its own transaction, or fails (on     *)
(* exhausted SQLITE_BUSY retries, an SQL error, or the caller's absence).  *)
RunWork ==
    /\ exec \in Ops \ Queued
    /\ \/ /\ commits' = [commits EXCEPT ![exec] = @ + 1]
          /\ reply' = [reply EXCEPT ![exec] = "committed"]
       \/ reply' = [reply EXCEPT ![exec] = "failed"] /\ UNCHANGED commits
    /\ exec' = NoOp
    /\ UNCHANGED <<caller, result, bufVars, flushVars, lane, phase, stopVars>>

(* The transaction is begun and handed to the caller, if it still waits; a *)
(* begin that fails, and a caller that left, end the work.                 *)
BeginQueued ==
    /\ exec \in Queued
    /\ \/ /\ caller[exec] = "waiting" /\ Move(exec, "holding")
          /\ UNCHANGED <<reply, exec>>
       \/ /\ caller[exec] \in {"waiting", "done"}
          /\ reply' = [reply EXCEPT ![exec] = "failed"]
          /\ exec' = NoOp
          /\ UNCHANGED <<caller, result>>
    /\ UNCHANGED <<bufVars, flushVars, lane, phase, commits, stopVars>>

(* The holder decided: commit, which may fail, or roll back. *)
FinishQueued ==
    /\ exec \in Queued
    /\ \/ /\ caller[exec] = "committing"
          /\ commits' = [commits EXCEPT ![exec] = @ + 1]
          /\ reply' = [reply EXCEPT ![exec] = "committed"]
       \/ /\ caller[exec] = "committing"
          /\ reply' = [reply EXCEPT ![exec] = "failed"] /\ UNCHANGED commits
       \/ /\ caller[exec] = "rolling_back"
          /\ reply' = [reply EXCEPT ![exec] = "committed"] /\ UNCHANGED commits
    /\ exec' = NoOp
    /\ UNCHANGED <<caller, result, bufVars, flushVars, lane, phase, stopVars>>

-----------------------------------------------------------------------------
(* Where in the writer an operation is: drained, in a lane, in the buffer  *)
(* or in execution.                                                        *)
AtBatch(o) == {<<"batch", f>> : f \in {g \in Flushers : o \in batch[g]}}
AtLane(o) == UNION {{<<"lane", l, i>> : i \in {j \in DOMAIN lane[l] : lane[l][j] = o}} :
                    l \in Lanes}
AtBuffer(o) == {<<"buffer", k>> : k \in {j \in Keys : buffer[j] = o}}
AtExec(o) == {<<"exec", x>> : x \in {exec} \cap {o}}
Places(o) == AtBatch(o) \cup AtLane(o) \cup AtBuffer(o) \cup AtExec(o)

(* DbWriter::shutdown *)
Shutdown ==
    /\ ~shutdown /\ shutdown' = TRUE
    /\ held' = {o \in Ops : Places(o) # {}}
    /\ UNCHANGED <<callVars, bufVars, flushVars, execVars>>

CallerStep(o) == Submit(o) \/ Enqueue(o) \/ Timeout(o) \/ Receive(o)
                 \/ Coalesce(o) \/ FlushDone(o) \/ HolderFinish(o)
                 \/ \E p \in Ops : SendEntry(o, p)
FlushStep == TimerFlush \/ \E p \in Ops : SendEntry("timer", p)
ExecStep == \/ Serve \/ StartDrain
            \/ DrainLanes("drain_a", HighLanes, "drain_b")
            \/ DrainLanes("drain_b", ClassBLanes, "exited")
            \/ RunWork \/ BeginQueued \/ FinishQueued

(* The executor is gone and the process may stay as it is. *)
Stopped == phase = "exited" /\ UNCHANGED vars

Next == \/ \E o \in Ops : CallerStep(o)
        \/ FlushStep \/ ExecStep \/ Shutdown \/ Stopped

Spec == Init /\ [][Next]_vars

(* Every thread keeps running, deadlines pass, and the code that holds a   *)
(* queued transaction finishes it.                                         *)
FairSpec == /\ Spec
            /\ WF_vars(FlushStep) /\ WF_vars(ExecStep)
            /\ \A o \in Ops : WF_vars(CallerStep(o))

-----------------------------------------------------------------------------
(* Properties                                                              *)

(* What a caller is told is true for good: a committed write was committed *)
(* once, a write that was rejected, merged, dropped, rolled back or failed *)
(* never is, also when it was abandoned in a queue.  Only a timeout leaves *)
(* the outcome open.                                                       *)
AnswerIsTrue ==
    \A o \in Ops :
        /\ commits[o] <= 1
        /\ result[o] = "committed" => commits[o] = 1
        /\ result[o] \notin {"none", "committed", "timeout"} => commits[o] = 0

(* An operation is in one place at a time, buffer, drained batch, lane or  *)
(* executor, and the writer holds every operation whose caller still waits *)
(* for an answer: none is lost or duplicated between a flush and a lane.   *)
InOnePlace ==
    \A o \in Ops :
        /\ \A x, y \in Places(o) : x = y
        /\ reply[o] # "none" => Places(o) = {}
        /\ caller[o] \in {"flushing", "waiting"} /\ reply[o] = "none" => Places(o) # {}

(* A write is merged away only in favour of a submitted write of the same  *)
(* key that is not older and was not merged away itself.                   *)
CoalescedHasNewer ==
    \A o \in Ops : reply[o] = "coalesced" =>
        \E p \in Ops \ {o} : /\ KeyOf[p] = KeyOf[o] /\ caller[p] # "new"
                             /\ reply[p] # "coalesced"
                             /\ ObservedAt[p] >= ObservedAt[o]

(* A barrier write that is inside the writer when shutdown begins is       *)
(* executed or times out, unless the drain budget runs out: it is never    *)
(* dropped with its lane.                                                  *)
ShutdownDrainsClassA ==
    \A o \in held : ClassOf[o] = "A" => reply[o] # "closed"

(* Every caller gets an answer, through commit, merge, loss or deadline:   *)
(* again and again nobody waits, and an answered caller never returns.     *)
EveryCallerAnswered == []<>(\A o \in Ops : caller[o] \in {"new", "done"})
=============================================================================
