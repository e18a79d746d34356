--------------------------- MODULE ReleaseLedger ---------------------------
(***************************************************************************)
(* What the durable side-effect ledger promises a release: an external     *)
(* write is granted only to a recorded intent that is still unresolved,    *)
(* a grant is used at most once, and a target of the run never has two     *)
(* unresolved intents.  SideEffects implements this specification.         *)
(***************************************************************************)
EXTENDS Naturals

CONSTANTS Keys,     \* the idempotency keys
          TargetOf  \* the target_key each one writes to

VARIABLES effect,   \* "absent", "unresolved" or "resolved"
          granted,  \* the keys that were allowed their external write
          writes    \* how often the external operation was launched

ledger == <<effect, granted, writes>>

Init ==
    /\ effect = [k \in Keys |-> "absent"]
    /\ granted = {}
    /\ writes = [k \in Keys |-> 0]

(* No other intent for the same target is unresolved. *)
Free(k) ==
    \A j \in Keys \ {k} : TargetOf[j] = TargetOf[k] => effect[j] # "unresolved"

Record(k) ==
    /\ effect[k] = "absent" /\ Free(k)
    /\ effect' = [effect EXCEPT ![k] = "unresolved"]
    /\ UNCHANGED <<granted, writes>>

Grant(k) ==
    /\ effect[k] = "unresolved" /\ k \notin granted
    /\ granted' = granted \cup {k}
    /\ UNCHANGED <<effect, writes>>

(* The grant stays good while its holder is delayed. *)
Write(k) ==
    /\ k \in granted /\ writes[k] = 0
    /\ writes' = [writes EXCEPT ![k] = @ + 1]
    /\ UNCHANGED <<effect, granted>>

(* Settled by its executor or cleared by an operator. *)
Resolve(k) ==
    /\ effect[k] = "unresolved"
    /\ effect' = [effect EXCEPT ![k] = "resolved"]
    /\ UNCHANGED <<granted, writes>>

(* The evidence of a finished write no longer proves it. *)
Reopen(k) ==
    /\ effect[k] = "resolved" /\ writes[k] = 1 /\ Free(k)
    /\ effect' = [effect EXCEPT ![k] = "unresolved"]
    /\ UNCHANGED <<granted, writes>>

Next == \E k \in Keys : Record(k) \/ Grant(k) \/ Write(k) \/ Resolve(k) \/ Reopen(k)

Spec == Init /\ [][Next]_ledger
=============================================================================
