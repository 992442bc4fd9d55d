---------------------------- MODULE ApprovalLedger ----------------------------
(***************************************************************************)
(* sdk/liminal_github_policy: what a transaction policy demands of a plan  *)
(* (PolicySnapshot.evaluate), which attestations the approval ledger        *)
(* accepts, and when they make the plan ready.                              *)
(*                                                                         *)
(* A snapshot is determined by its policy and the plan, which is immutable, *)
(* so a policy stands for its hash, its snapshot and the snapshot's hash.   *)
(* The ledger's index and hash chain are those of a sequence.  Approval ids  *)
(* are fresh: a call that repeats one raises and changes nothing.           *)
(***************************************************************************)
EXTENDS Naturals, Sequences, FiniteSets

CONSTANTS
    Plan,       \* the steps: records with id, action, write and recovery
    Policies,   \* the names of the policies a host may create the engine with
    Policy,     \* their contents
    NoRule,     \* rule_map has no rule for an action
    Roles, Principals

PlanSteps == DOMAIN Plan

\* ActionRule of a step, or NoRule
RuleOf(pol, i) == Policy[pol].rules[Plan[i].action]

ASSUME PolicyAssumption ==
    \A pol \in Policies : \A i \in PlanSteps : RuleOf(pol, i) # NoRule =>
        \* from_value: a scope exactly where roles are required
        (RuleOf(pol, i).scope = "none") <=> (\A r \in Roles : RuleOf(pol, i).counts[r] = 0)

Occurrences(i) == Cardinality({j \in PlanSteps : j <= i /\ Plan[j].action = Plan[i].action})

\* The reasons of one step
StepDenied(pol, i) ==
    LET rule == RuleOf(pol, i)
    IN \/ rule = NoRule
       \/ ~rule.allowed
       \/ Occurrences(i) > rule.maxOccurrences
       \/ rule.recovery /\ Plan[i].write /\ ~Plan[i].recovery

\* The policies for which snapshot.decision = "deny"
Denied ==
    LET Ruled(pol) == {i \in PlanSteps : RuleOf(pol, i) # NoRule}
    IN {pol \in Policies :
           \/ ~Policy[pol].repositoryAllowed
           \/ Len(Plan) > Policy[pol].maxSteps
           \/ \E i \in PlanSteps : StepDenied(pol, i)
           \/ Cardinality({i \in Ruled(pol) : Plan[i].write}) > Policy[pol].maxWrites
           \/ Cardinality({i \in Ruled(pol) : RuleOf(pol, i).risk = "critical"}) > Policy[pol].maxCritical}

RequirementId(pol, i) ==
    IF RuleOf(pol, i).scope = "step" THEN <<"step", Plan[i].id, Plan[i].action>>
                                     ELSE <<"transaction", Plan[i].action>>

\* snapshot.requirements: one per step, or one per action of the transaction
Requirements == [pol \in Policies |->
    {[id |-> RequirementId(pol, i), counts |-> RuleOf(pol, i).counts, distinct |-> RuleOf(pol, i).distinct] :
        i \in {i \in PlanSteps : RuleOf(pol, i) # NoRule /\ RuleOf(pol, i).scope # "none"}}]

\* The attestations a caller may submit under a snapshot
Attestations ==
    [pol \in Policies |->
        [principal : Principals, role : Roles, decision : {"approve", "deny"},
         requirement : {q.id : q \in Requirements[pol]}, snapshot : {pol}]]

EventsIn(entries) == {entries[k] : k \in DOMAIN entries}

\* _validate_event after the entries before it
ValidEvent(e, before, pol) ==
    /\ \E q \in Requirements[pol] : q.id = e.requirement /\ q.counts[e.role] > 0
    /\ e.snapshot = pol
    /\ \A k \in DOMAIN before :
         before[k].requirement = e.requirement => before[k].principal # e.principal

\* read does not raise on the entries
ValidEntries(entries, pol) ==
    \A k \in DOMAIN entries : ValidEvent(entries[k], SubSeq(entries, 1, k - 1), pol)

\* summary: the approvals of a requirement, and whether they satisfy it
Approvals(q, entries) ==
    {k \in DOMAIN entries : entries[k].requirement = q.id /\ entries[k].decision = "approve"}

TotalNeeded(q) == Cardinality(UNION {{r} \X (1 .. q.counts[r]) : r \in Roles})

Satisfied(q, entries) ==
    LET approvals == Approvals(q, entries)
    IN /\ \A r \in Roles : Cardinality({k \in approvals : entries[k].role = r}) >= q.counts[r]
       /\ q.distinct => Cardinality({entries[k].principal : k \in approvals}) >= TotalNeeded(q)

\* Mutated form: a denial is only an approval that is missing.
BugReady(pol, entries) ==
    /\ pol \notin Denied
    /\ \A q \in Requirements[pol] : Satisfied(q, entries)

\* summary()["status"] = "ready"
Ready(pol, entries) ==
    /\ pol \notin Denied
    /\ \A k \in DOMAIN entries : entries[k].decision # "deny"
    /\ \A q \in Requirements[pol] : Satisfied(q, entries)
===============================================================================
