--------------------------- MODULE MCSideEffects ---------------------------
(***************************************************************************)
(* Instances of SideEffects for TLC: two agent executions of a run that    *)
(* commit to their own worktree target and push to the same branch.        *)
(***************************************************************************)
EXTENDS SideEffects, TLC

CONSTANTS a1, a2, t1, t2, t3, branch, d1, d2

(* t2 is the redelivered item of t1's execution. *)
MCAgentOf == [t \in Calls |-> IF t = t3 THEN a2 ELSE a1]
MCTargets == Agents \cup {branch}
MCTargetOf == [k \in Keys |-> IF k[2] = "first" THEN k[1] ELSE branch]

(* The calls of one execution are alike, and so are the dispositions. *)
Redelivered == Permutations({t1, t2}) \cup Permutations(Dispositions)

(* Bound: the first effects, which share no target, go without trouble, and *)
(* neither the watchdog nor an operator turns to them.                      *)
FirstEffectsGoWell ==
    /\ \A a \in Agents :
          /\ status[<<a, "first">>] \in {"absent", "prepared", "executing", "settled"}
          /\ <<a, "first">> \notin lapsed \cup overdue /\ renewed[<<a, "first">>] = 0
    /\ \A f \in found : f.key[2] = "second"
    /\ \A r \in pending : r.key[2] = "second"
=============================================================================
