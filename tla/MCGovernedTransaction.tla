------------------------- MODULE MCGovernedTransaction -------------------------
EXTENDS GovernedTransaction, TLC

(* A plan with one action twice; the second step is a write. *)
MCPlan == <<[id |-> 1, action |-> "file", write |-> FALSE, recovery |-> TRUE],
            [id |-> 2, action |-> "file", write |-> TRUE, recovery |-> TRUE]>>

Counts(reviewers, owners) == [r \in Roles |-> IF r = "reviewer" THEN reviewers ELSE owners]

FileRule(scope, counts, allowed) ==
    [allowed |-> allowed, risk |-> "high", scope |-> scope, counts |-> counts,
     distinct |-> (scope = "step"), recovery |-> TRUE, maxOccurrences |-> 2]

PolicyWith(rule) ==
    [repositoryAllowed |-> TRUE, maxSteps |-> 2, maxWrites |-> 1, maxCritical |-> 0,
     rules |-> [a \in {"file"} |-> rule]]

(* A reviewer for each step; a reviewer and an owner for the transaction; a
   reviewer for the transaction; and an action that is not allowed. *)
MCPolicy == [pol \in Policies |->
    CASE pol = "steps" -> PolicyWith(FileRule("step", Counts(1, 0), TRUE))
      [] pol = "pair" -> PolicyWith(FileRule("transaction", Counts(1, 1), TRUE))
      [] pol = "single" -> PolicyWith(FileRule("transaction", Counts(1, 0), TRUE))
      [] OTHER -> PolicyWith(FileRule("transaction", Counts(1, 0), FALSE))]

Symmetry == Permutations(Procs) \cup Permutations(Principals) \cup Permutations(Writers) \cup Permutations(Receipts)
================================================================================
