--------------------------- MODULE MCRunLifecycle ---------------------------
(***************************************************************************)
(* Instances of RunLifecycle for TLC, shaped like states 5, 6 and 12 of    *)
(* examples/workflows/workflow.yaml: a compute state, the manual gate that *)
(* sends the run back to it or on, and the end.                            *)
(***************************************************************************)
EXTENDS RunLifecycle, TLC

CONSTANTS t1, t2, t3

MCStates == {"build", "gate", "done"}
MCGates == {"gate"}
MCEnds == {"done"}
MCTasks == {t1, t2, t3}
(* The gate has one post_approval_task. *)
MCPhases == [s \in MCStates |-> CASE s = "build" -> <<{t1, t2}>>
                                   [] s = "gate" -> <<{t3}>>
                                   [] s = "done" -> <<>>]
MCSymmetry == Permutations({t1, t2})
MCNoRework == [s \in {} |-> NoState]
MCRework == "gate" :> "build"
MCMoves == [s \in MCStates |->
    CASE s = "build" -> <<[to |-> "gate", when |-> "artifact"], [to |-> "build", when |-> "artifact"]>>
      [] s = "gate" -> <<[to |-> "done", when |-> "granted"], [to |-> "build", when |-> "rejected"]>>
      [] s = "done" -> <<>>]

MCLoopOnce == "build" :> 1
MCLoopThrice == "build" :> 3

(* One task per state, and none after the gate's decision, which has a budget. *)
MCOneTask == {t1}
MCBarePhases == [s \in MCStates |-> IF s = "build" THEN <<{t1}>> ELSE <<>>]
MCGateOnce == "gate" :> 1

(* No gate: two compute states in a row. *)
MCLinePhases == [s \in MCStates |-> CASE s = "build" -> <<{t1}>>
                                       [] s = "gate" -> <<{t1, t2}>>
                                       [] s = "done" -> <<>>]
MCLineMoves == [s \in MCStates |->
    CASE s = "build" -> <<[to |-> "gate", when |-> "true"]>>
      [] s = "gate" -> <<[to |-> "done", when |-> "true"]>>
      [] s = "done" -> <<>>]

(* No gate: an end with a task of its own, entered by either of two transitions. *)
MCTwoStates == {"build", "done"}
MCTwoPhases == [s \in MCTwoStates |-> <<{t1}>>]
MCTwoMoves == [s \in MCTwoStates |->
    IF s = "build" THEN <<[to |-> "done", when |-> "artifact"], [to |-> "done", when |-> "true"]>>
                   ELSE <<>>]
(* Only the behaviours in which the advances settle the stages. *)
MCUnsettled == \A k \in 1..MaxStages, t \in Tasks : workers[k][t] # "settled"
=============================================================================
