----------------------------- MODULE MCDbWriter -----------------------------
(***************************************************************************)
(* Instances of DbWriter for TLC.  In the lanes: a queued transaction and  *)
(* two best-effort writes.  In the coalescing buffer: two projection       *)
(* writes of one key and one of another.                                   *)
(***************************************************************************)
EXTENDS DbWriter

CONSTANTS q, b1, b2, c, d1, d2

MCClassOf == [o \in Ops |-> CASE o = q -> "A" [] o \in {b1, b2, c} -> "B"
                              [] OTHER -> "D"]
MCLaneOf == [o \in Ops |-> CASE o = q -> "critical_barrier"
                             [] o \in {b1, b2, c} -> "coalesced_projection"
                             [] OTHER -> "telemetry_rollup"]
MCKeyOf == [o \in Ops |-> IF o \in {b1, b2} THEN "projection" ELSE "other"]

(* The producers stamp b1 before b2. *)
MCObservedAt == [o \in Ops |-> IF o = b2 THEN 2 ELSE 1]
=============================================================================
