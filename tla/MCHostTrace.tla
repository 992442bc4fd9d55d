------------------------------ MODULE MCHostTrace ------------------------------
EXTENDS HostTrace, TLC

(* Processes are interchangeable. *)
Symmetry == Permutations(Procs)
================================================================================
