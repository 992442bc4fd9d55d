--------------------------- MODULE MCMediatedEffects ---------------------------
EXTENDS MediatedEffects, TLC

\* Fewer uses than calls, but one more for the network than redirects need.
MCMaxUses == [k \in Types |-> CASE k = "credential.access" -> 1
                                [] k = "network.connect" -> 3
                                [] OTHER -> 2]

\* Calls, threads and contents are interchangeable.
Symmetry == Permutations(Calls) \cup Permutations(Threads) \cup Permutations(Contents)
================================================================================
