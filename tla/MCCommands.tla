----------------------------- MODULE MCCommands -----------------------------
(* Instances of Commands for TLC. *)
EXTENDS Commands, TLC

CONSTANTS c1, c2, c3, r1, r2, k1, b1, b2

(* Calls, request ids and bodies are only ever compared with each other. *)
MCSymmetry == Permutations(Calls) \cup Permutations(Requests) \cup Permutations(Bodies)
=============================================================================
