---------------------------- MODULE TrajectoryRisk ----------------------------
(***************************************************************************)
(* sdk/liminal_causal_escalation: the deterministic risk score of a chain  *)
(* of runtime events and the decision it leads to.                         *)
(***************************************************************************)
EXTENDS Integers, Sequences, FiniteSetsExt

\* RULES: a rule matches when its kinds occur in this order.
Rule(weight, requires) == [weight |-> weight, requires |-> requires]

Rules == {
    Rule(35, <<"network.connect_domain", "credential.access">>),
    Rule(20, <<"package.install", "network.connect_domain">>),
    Rule(30, <<"credential.access", "process.spawn_child">>),
    Rule(45, <<"package.install", "credential.access", "process.spawn_child">>),
    Rule(25, <<"runtime.configure", "credential.access">>),
    Rule(25, <<"network.connect_domain", "process.spawn_child">>)}

\* What analyze_trajectory reads of a TrajectoryEvent; `ok` is decision ALLOW.
Event(id, kind, ok, cap, before, after) ==
    [id |-> id, kind |-> kind, ok |-> ok, cap |-> cap, before |-> before, after |-> after]

Allowed(events) == SelectSeq(events, LAMBDA e : e.ok)

\* _ordered_subsequence
OrderedSubsequence(events, required) ==
    \E at \in [DOMAIN required -> DOMAIN events] :
        /\ \A i \in DOMAIN required : events[at[i]].kind = required[i]
        /\ \A i, j \in DOMAIN required : i < j => at[i] < at[j]

Matched(events) == {r \in Rules : OrderedSubsequence(Allowed(events), r.requires)}

RuleRisk(events) == MapThenSumSet(LAMBDA r : r.weight, Matched(events))

\* From the first event to the last, refused ones included
PrivilegeRisk(events) ==
    IF events = <<>> THEN 0
    ELSE LET delta == events[Len(events)].after - events[1].before
         IN Max({0, Min({25, 5 * delta})})

\* The capabilities granted and not revoked after the first n events
Granted(events, n) ==
    {c \in {events[i].cap : i \in 1 .. n} :
        \E i \in 1 .. n :
            /\ events[i].cap = c /\ events[i].kind = "capability.grant"
            /\ \A j \in i + 1 .. n : events[j].cap = c => events[j].kind # "capability.revoke"}

CapabilityRisk(events) ==
    LET allowed == Allowed(events)
        peak == Max({Cardinality(Granted(allowed, n)) : n \in 0 .. Len(allowed)})
    IN Max({0, Min({20, 5 * (peak - 1)})})

Risk(events) == Min({100, RuleRisk(events) + PrivilegeRisk(events) + CapabilityRisk(events)})

\* analyze_trajectory(events)["decision"]
Decision(events) ==
    LET risk == Risk(events)
    IN CASE risk >= 80 -> "CONTAIN"
         [] risk >= 50 /\ risk < 80 -> "BLOCK"
         [] risk >= 20 /\ risk < 50 -> "REVISE"
         [] risk < 20 -> "ALLOW"
===============================================================================
