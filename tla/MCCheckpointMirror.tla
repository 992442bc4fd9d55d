-------------------------- MODULE MCCheckpointMirror --------------------------
EXTENDS CheckpointMirror, TLC

(* Callers are interchangeable, and so are worlds. *)
Symmetry == Permutations(Callers) \cup Permutations(Worlds)
===============================================================================
