-------------------------- MODULE MCBoundEffectCommit --------------------------
EXTENDS BoundEffectCommit, TLC

\* Reading a credential is safe alone and spawning a child after it is not.
MCOperations == {Event("read", "credential.access", TRUE, "c", 0, 0),
                 Event("spawn", "process.spawn_child", TRUE, "c", 0, 0)}

\* A connection raises no risk alone, but with either operation it does.
MCHostEvents == {Event("connect", "network.connect_domain", TRUE, "c", 0, 0)}

Symmetry == Permutations(Adapters) \cup Permutations(Releases)

\* _ordered_subsequence walks the kinds once, moving a cursor on a match.
Cursor(kinds, required) ==
    LET step[n \in 0 .. Len(kinds)] ==
          IF n = 0 THEN 0
          ELSE LET c == step[n - 1]
               IN IF c < Len(required) /\ kinds[n] = required[c + 1] THEN c + 1 ELSE c
    IN step[Len(kinds)]

Kinds == {"network.connect_domain", "credential.access", "package.install",
          "process.spawn_child"}

\* The greedy walk of the code finds a rule's kinds in order iff they are there.
ASSUME GreedyAssumption ==
    \A n \in 0 .. 5 : \A kinds \in [1 .. n -> Kinds] : \A r \in Rules :
        OrderedSubsequence([k \in 1 .. n |-> [kind |-> kinds[k]]], r.requires)
            <=> Cursor(kinds, r.requires) = Len(r.requires)
================================================================================
