------------------------ MODULE EffectOncePerGeneration ------------------------
(***************************************************************************)
(* What the durable governance fence promises to cooperating processes,      *)
(* without processes, leases, worlds or receipts.  A root hands out one      *)
(* exclusive grant per generation.  The effect of a generation runs at most  *)
(* once and only on a grant; a generation is closed as committed only after  *)
(* its effect ran, and a granted generation can otherwise only be closed by  *)
(* an explicit reconciliation.  The effect of a reconciled generation may    *)
(* still land late, because nobody can recall a process in mid-effect.       *)
(***************************************************************************)
EXTENDS Naturals

CONSTANTS Owners, None, MaxGen

VARIABLES
    gen,        \* the current generation
    owner,      \* who holds the grant of the current generation, or None
    runs,       \* runs[g]: how often the effect of generation g ran
    result      \* result[g]: how generation g was closed

vars == <<gen, owner, runs, result>>

Init ==
    /\ gen = 0
    /\ owner = None
    /\ runs = [g \in 0..MaxGen |-> 0]
    /\ result = [g \in 0..MaxGen |-> "open"]

Grant ==
    /\ owner = None
    /\ gen < MaxGen
    /\ owner' \in Owners
    /\ UNCHANGED <<gen, runs, result>>

Run(g) ==
    /\ runs[g] = 0
    /\ \/ g = gen /\ owner # None
       \/ result[g] = "reconcile"
    /\ runs' = [runs EXCEPT ![g] = 1]
    /\ UNCHANGED <<gen, owner, result>>

Close(kind) ==
    /\ gen' = gen + 1
    /\ owner' = None
    /\ result' = [result EXCEPT ![gen] = kind]
    /\ UNCHANGED runs

Commit == owner # None /\ runs[gen] = 1 /\ Close("commit")

Reconcile == owner # None /\ Close("reconcile")

Mutate == owner = None /\ runs[gen] = 0 /\ gen < MaxGen /\ Close("mutate")

Next ==
    \/ Grant
    \/ \E g \in 0..MaxGen : Run(g)
    \/ Commit
    \/ Reconcile
    \/ Mutate

Spec == Init /\ [][Next]_vars
================================================================================
