--------------------------- MODULE MCInvokeAgents ---------------------------
(* Instances of InvokeAgents for TLC. *)
EXTENDS InvokeAgents

(* "cancellation keeps the old worker from bypassing the cleanup hold"     *)
(* (host_interruption.rs), without exception: FindHold.cfg refutes it.     *)
HoldIsNeverBypassed ==
    [][\A e \in Execs : HostOwns(e) /\ TaskMoved(e) =>
           UNCHANGED <<status, advance>>]_vars
=============================================================================
