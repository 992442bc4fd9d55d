---------------------------- MODULE MCEffectCommit ----------------------------
EXTENDS EffectCommit, TLC

(* Adapters, operators and capabilities are interchangeable. *)
Symmetry == Permutations(Adapters) \cup Permutations(Operators) \cup Permutations(Caps)
=============================================================================
