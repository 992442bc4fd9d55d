------------------------- MODULE MCGitHubTransaction -------------------------
EXTENDS GitHubTransaction, TLC

(* A read step followed by a write step, which is gated on it or not. *)
MCPlan == <<"read", "write">>
MCGates == [c \in Calls |-> IF c = "write" THEN {"read"} ELSE {}]
MCNoGates == [c \in Calls |-> {}]

(* Processes are interchangeable. *)
Symmetry == Permutations(Procs)
==============================================================================
