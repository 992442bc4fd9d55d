--------------------------- MODULE BoundEffectCommit ---------------------------
(***************************************************************************)
(* sdk/liminal_objective_effect_commit and sdk/liminal_causal_effect_commit *)
(* above the effect commit broker: an effect is bound to the state of the   *)
(* objective integrity guard and, in the causal stack, to the head of the   *)
(* trajectory ledger it extends.                                            *)
(*                                                                         *)
(* Guard, ledger and both brokers work under one re-entrant fence, which    *)
(* the committing thread keeps while the host callback runs; the callback   *)
(* itself may use guard and ledger.  A mediated call takes the fence        *)
(* several times and works, in between, with what it has read before.       *)
(*                                                                         *)
(* EffectCommit models the inner broker, which here refuses or runs.        *)
(* The mediator's own containment flag, which can only refuse a call sooner, *)
(* is in EffectCommit too; here a call may be refused at any time.          *)
(* The clock is free: a lease can be out of its time at any check.  Calls   *)
(* that refuse and change nothing but the log of decisions are GateRefused. *)
(* A callback neither starts another effect nor changes the containment.    *)
(***************************************************************************)
EXTENDS TrajectoryRisk

CONSTANTS
    Adapters,     \* threads of the runtime mediator
    Nobody,       \* a fence that is free
    Operations,   \* runtime operations, as the event each would leave behind
    HostEvents,   \* verified events from elsewhere in the trusted host
    Forbidden,    \* kinds that a rule of the method policy matches
    Releases,     \* human release receipts
    NoLease,
    MaxLease,     \* bound: leases
    MaxEvents,    \* bound: trajectory events
    MaxObserved,  \* bound: trusted observations
    MaxRelease    \* bound: releases

ASSUME BoundAssumption ==
    {MaxLease, MaxEvents, MaxObserved, MaxRelease} \subseteq Nat
ASSUME IdAssumption ==
    \A e, f \in Operations \cup HostEvents : e.id = f.id => e = f
\* "effect-proposal:" is the broker's own prefix of event ids; a receipt is a
\* digest and not the word none.
ASSUME KindsAssumption == Operations \cap HostEvents = {} /\ "none" \notin Releases
ASSUME NobodyAssumption == Nobody \notin Adapters

LeaseIds == 1 .. MaxLease

VARIABLES
    causal,       \* is the causal broker installed above the objective one?
    fence,        \* who holds RuntimeCommitFence
    reentered,    \* the running callback has used guard or ledger itself
    observed,     \* number of trusted observations; each is a violation
    contained,    \* _contained of the guard and of the effect broker
    evidence,     \* _containment_evidence_sha256
    trajectory,   \* FencedTrajectoryRiskLedger._events
    leases,
    causalReceipts, objectiveReceipts,  \* _commits of the two brokers
    ran,          \* history: callbacks started for a lease
    released,     \* history: the release receipts used, in order
    pc, arg       \* the mediated call of each adapter

ledgerVars == <<observed, trajectory>>
containmentVars == <<contained, evidence, released>>
brokerVars == <<leases, causalReceipts, objectiveReceipts, ran>>
vars == <<causal, fence, reentered, observed, contained, evidence,
          trajectory, leases, causalReceipts, objectiveReceipts,
          ran, released, pc, arg>>

\* ObjectiveIntegrityGuard.state_document: everything that can change
ObjectiveState == [observed |-> observed, contained |-> contained, evidence |-> evidence]

\* decision_floor: every observation is a violation, hence BLOCK or CONTAIN.
FloorAllows == observed = 0 /\ ~contained

LedgerHead == Len(trajectory)
Ids == {trajectory[k].id : k \in DOMAIN trajectory}
Issued == {l \in LeaseIds : leases[l] # NoLease}
Idle == [op |-> NoLease, head |-> 0, observed |-> 0, lease |-> 0]

Outcomes == {"SUCCEEDED", "FAILED", "NOT_EXECUTED", "EFFECT_SUCCEEDED_EVIDENCE_FAILED"}
Receipt(l, outcome) == [lease |-> l, outcome |-> outcome]
Receipts == [lease : LeaseIds, outcome : Outcomes]

Evidence == Releases \cup {"none", "incident"}

\* _CausalLease with the _ObjectiveLease under it; releases is history.
Leases == [op : Operations, head : 0 .. MaxEvents,
           state : [observed : 0 .. MaxObserved, contained : BOOLEAN, evidence : Evidence],
           releases : 0 .. MaxRelease, consumed : BOOLEAN]
ASSUME NoLeaseAssumption == NoLease \notin Leases

TypeOK ==
    /\ causal \in BOOLEAN /\ reentered \in BOOLEAN
    /\ fence \in Adapters \cup {Nobody}
    /\ \A a \in Adapters : fence = a <=> pc[a] = "callback"
    /\ observed \in 0 .. MaxObserved
    /\ contained \in BOOLEAN
    /\ evidence \in Evidence
    /\ \A k \in DOMAIN trajectory : trajectory[k] \in Operations \cup HostEvents
    /\ Len(trajectory) <= MaxEvents
    /\ \A l \in Issued : leases[l] \in Leases
    /\ causalReceipts \subseteq Receipts /\ objectiveReceipts \subseteq Receipts
    /\ ran \in [LeaseIds -> Nat]
    /\ released \in Seq(Releases)
    /\ pc \in [Adapters -> {"idle", "gated", "proposed", "leased", "callback"}]
    /\ \A a \in Adapters : pc[a] # "idle" => arg[a].op \in Operations

Init ==
    /\ causal \in BOOLEAN
    /\ fence = Nobody /\ reentered = FALSE
    /\ observed = 0 /\ contained = FALSE /\ evidence = "none"
    /\ trajectory = <<>>
    /\ leases = [l \in LeaseIds |-> NoLease]
    /\ causalReceipts = {} /\ objectiveReceipts = {}
    /\ ran = [l \in LeaseIds |-> 0] /\ released = <<>>
    /\ pc = [a \in Adapters |-> "idle"] /\ arg = [a \in Adapters |-> Idle]

Goto(a, step, what) ==
    /\ pc' = [pc EXCEPT ![a] = step]
    /\ arg' = [arg EXCEPT ![a] = what]
--------------------------------------------------------------------------------
(* The trusted host: detectors, other event sources, operators               *)

\* with commit_fence.hold(): another thread finds the fence free, or the running
\* callback, whose thread holds it, makes the call itself (own).
MayHold(own) == own = (fence # Nobody)

\* Mutated form: a guard with a fence of its own.
BugUnfencedIngest(own) ==
    /\ observed < MaxObserved
    /\ observed' = observed + 1
    /\ reentered' = (reentered \/ (own /\ fence # Nobody))
    /\ UNCHANGED <<causal, fence, trajectory, containmentVars, brokerVars, pc, arg>>

\* FencedObjectiveIntegrityGuard.ingest_observation of a trusted detector
IngestObservation(own) ==
    /\ MayHold(own)
    /\ observed < MaxObserved
    /\ observed' = observed + 1
    /\ reentered' = own
    /\ UNCHANGED <<causal, fence, trajectory, containmentVars, brokerVars, pc, arg>>

\* FencedTrajectoryRiskLedger.append_verified_event.  A risky event is appended
\* all the same; only replays and broken chains are refused.
AppendEvent(own, e) ==
    /\ MayHold(own)
    /\ causal /\ LedgerHead < MaxEvents
    /\ e.id \notin Ids
    /\ trajectory' = Append(trajectory, e)
    /\ reentered' = own
    /\ UNCHANGED <<causal, fence, observed, containmentVars, brokerVars, pc, arg>>

\* The mediator's enter_containment, once its own flag is set
EnterContainment ==
    /\ MayHold(FALSE)
    /\ contained' = TRUE /\ evidence' = "incident"
    /\ UNCHANGED <<causal, fence, reentered, observed, released, trajectory, brokerVars, pc, arg>>

\* exit_containment with a human release receipt: it does not ask whether there
\* was a containment.
ExitContainment(r) ==
    /\ MayHold(FALSE) /\ Len(released) < MaxRelease
    /\ contained' = FALSE /\ evidence' = r
    /\ released' = Append(released, r)
    /\ UNCHANGED <<causal, fence, reentered, observed, trajectory, brokerVars, pc, arg>>
--------------------------------------------------------------------------------
(* A mediated call: gate, proposal, lease                                    *)

\* mediate up to the objective decision and the capability decision
Gate(a, op) ==
    /\ pc[a] = "idle" /\ MayHold(FALSE)
    /\ FloorAllows /\ op.kind \notin Forbidden
    /\ Goto(a, "gated", [Idle EXCEPT !.op = op, !.observed = observed])
    /\ UNCHANGED <<causal, fence, reentered, ledgerVars, containmentVars, brokerVars>>

\* Also when the mediator's own flag is set, or the capability is not admitted
GateRefused(a) ==
    /\ pc[a] = "idle"
    /\ UNCHANGED vars

\* proposal_factory: build_effect_trajectory_event on the head of that moment.
\* A read torn between count and head is refused like a stale one.
Propose(a) ==
    /\ causal /\ pc[a] = "gated" /\ MayHold(FALSE)
    /\ Goto(a, "proposed", [arg[a] EXCEPT !.head = LedgerHead])
    /\ UNCHANGED <<causal, fence, reentered, ledgerVars, containmentVars, brokerVars>>

\* Mutated form: only the trajectory as it is has to decide ALLOW.
BugProjectedAllow(op) == Decision(trajectory) = "ALLOW"

\* project_verified_event: a fresh event id, and ALLOW with the event appended
ProjectedAllow(op) ==
    /\ op.id \notin Ids
    /\ Decision(Append(trajectory, op)) = "ALLOW"

\* state_document, _verify_proposal_binding and project_verified_event at issue
TrajectoryAllows(op, head) ==
    causal => /\ Decision(trajectory) = "ALLOW"
              /\ head = LedgerHead
              /\ ProjectedAllow(op)

\* issue_for_trusted_adapter of the whole stack, under one hold of the fence
Issue(a, l) ==
    /\ pc[a] = (IF causal THEN "proposed" ELSE "gated")
    /\ MayHold(FALSE)
    /\ TrajectoryAllows(arg[a].op, arg[a].head)
    /\ FloorAllows /\ arg[a].observed = observed
    /\ Issued = 1 .. l - 1
    /\ leases' = [leases EXCEPT ![l] =
           [op |-> arg[a].op, head |-> LedgerHead, state |-> ObjectiveState,
            releases |-> Len(released), consumed |-> FALSE]]
    /\ Goto(a, "leased", [Idle EXCEPT !.op = arg[a].op, !.lease = l])
    /\ UNCHANGED <<causal, fence, reentered, ledgerVars, containmentVars,
                   causalReceipts, objectiveReceipts, ran>>

\* A check of some layer fails, or its verifier, or its clock: FAILED, no lease.
IssueRefused(a) ==
    /\ pc[a] \in {"gated", "proposed"} /\ MayHold(FALSE)
    /\ Goto(a, "idle", Idle)
    /\ UNCHANGED <<causal, fence, reentered, ledgerVars, containmentVars, brokerVars>>
--------------------------------------------------------------------------------
(* consume_for_trusted_adapter: the adapter's own lease, or any lease again   *)

Presents(a, l) ==
    /\ MayHold(FALSE) /\ l \in Issued
    /\ \/ pc[a] = "leased" /\ arg[a].lease = l
       \/ pc[a] = "idle"

Live(a, l) == Presents(a, l) /\ ~leases[l].consumed

\* _trajectory_mismatch and the second projection.  The chain is append-only, so
\* its head digest stands for all of it.
TrajectoryMatches(l) ==
    causal => /\ Decision(trajectory) = "ALLOW"
              /\ leases[l].head = LedgerHead
              /\ ProjectedAllow(leases[l].op)

\* _objective_mismatch
ObjectiveMatches(l) == FloorAllows /\ leases[l].state = ObjectiveState

Burn(l) == leases' = [leases EXCEPT ![l].consumed = TRUE]

\* _append_commit of the two brokers; outcome "none" appends nothing.
Record(l, causalOutcome, objectiveOutcome) ==
    /\ causalReceipts' = causalReceipts \cup
           (IF causal /\ causalOutcome # "none" THEN {Receipt(l, causalOutcome)} ELSE {})
    /\ objectiveReceipts' = objectiveReceipts \cup
           (IF objectiveOutcome # "none" THEN {Receipt(l, objectiveOutcome)} ELSE {})

Return(a) ==
    /\ Goto(a, "idle", Idle)
    /\ UNCHANGED <<causal, fence, reentered, ledgerVars, containmentVars, ran>>

\* _require_live_lease
ConsumeReplayed(a, l) ==
    /\ Presents(a, l) /\ leases[l].consumed
    /\ Return(a)
    /\ UNCHANGED <<leases, causalReceipts, objectiveReceipts>>

\* project_verified_event raises before the lease is burned.
ConsumeUnverified(a, l) ==
    /\ causal /\ Live(a, l) /\ TrajectoryMatches(l)
    /\ Return(a)
    /\ UNCHANGED <<leases, causalReceipts, objectiveReceipts>>

\* _invalidate_and_raise of the outermost broker: out of time, or a mismatch
ConsumeInvalid(a, l) ==
    /\ Live(a, l)
    /\ Burn(l)
    /\ IF causal THEN Record(l, "NOT_EXECUTED", "none") ELSE Record(l, "none", "NOT_EXECUTED")
    /\ Return(a)

\* The causal lease is burned, then the objective one proves invalid.
ConsumeInvalidBelow(a, l) ==
    /\ causal /\ Live(a, l) /\ TrajectoryMatches(l)
    /\ Burn(l)
    /\ Record(l, "FAILED", "NOT_EXECUTED")
    /\ Return(a)

\* Both are burned, then the inner broker refuses.
ConsumeRefusedBelow(a, l) ==
    /\ Live(a, l) /\ TrajectoryMatches(l) /\ ObjectiveMatches(l)
    /\ Burn(l)
    /\ Record(l, "FAILED", "FAILED")
    /\ Return(a)

\* Every layer burns its lease and the host callback starts, under the fence.
ConsumeStart(a, l) ==
    /\ Live(a, l) /\ TrajectoryMatches(l) /\ ObjectiveMatches(l)
    /\ Burn(l)
    /\ ran' = [ran EXCEPT ![l] = @ + 1]
    /\ fence' = a
    /\ Goto(a, "callback", [Idle EXCEPT !.op = leases[l].op, !.lease = l])
    /\ UNCHANGED <<causal, reentered, ledgerVars, containmentVars,
                   causalReceipts, objectiveReceipts>>

Release(a) ==
    /\ fence' = Nobody /\ reentered' = FALSE
    /\ Goto(a, "idle", Idle)

CallbackFails(a) ==
    /\ pc[a] = "callback"
    /\ Record(arg[a].lease, "FAILED", "FAILED")
    /\ Release(a)
    /\ UNCHANGED <<causal, ledgerVars, containmentVars, leases, ran>>

\* append_verified_event(lease.proposal) can succeed: the chain still ends where
\* the proposal says, and its id is new.
Appendable(l) == leases[l].head = LedgerHead /\ LedgerHead < MaxEvents /\ leases[l].op.id \notin Ids

\* The effect is done and, in the causal stack, its event appended.
CallbackSucceeds(a) ==
    /\ pc[a] = "callback"
    /\ causal => Appendable(arg[a].lease)
    /\ trajectory' = IF causal THEN Append(trajectory, arg[a].op) ELSE trajectory
    /\ Record(arg[a].lease, "SUCCEEDED", "SUCCEEDED")
    /\ Release(a)
    /\ UNCHANGED <<causal, observed, containmentVars, leases, ran>>

\* Mutated form: success is recorded whether or not the event was appended.
BugEvidenceFails(a) ==
    /\ causal /\ pc[a] = "callback"
    /\ Record(arg[a].lease, "SUCCEEDED", "SUCCEEDED")
    /\ Release(a)
    /\ UNCHANGED <<causal, ledgerVars, containmentVars, leases, ran>>

\* The effect is done and the append raises: by the verifier, or because the
\* callback has appended an event of its own.
EvidenceFails(a) ==
    /\ causal /\ pc[a] = "callback"
    /\ Record(arg[a].lease, "EFFECT_SUCCEEDED_EVIDENCE_FAILED", "SUCCEEDED")
    /\ Release(a)
    /\ UNCHANGED <<causal, ledgerVars, containmentVars, leases, ran>>

HostNext ==
    \/ \E own \in BOOLEAN : IngestObservation(own)
    \/ \E own \in BOOLEAN : \E e \in HostEvents : AppendEvent(own, e)
    \/ EnterContainment
    \/ \E r \in Releases : ExitContainment(r)

AdapterNext(a) ==
    \/ \E op \in Operations : Gate(a, op)
    \/ GateRefused(a) \/ Propose(a) \/ IssueRefused(a)
    \/ \E l \in LeaseIds :
         \/ Issue(a, l)
         \/ ConsumeReplayed(a, l) \/ ConsumeUnverified(a, l) \/ ConsumeInvalid(a, l)
         \/ ConsumeInvalidBelow(a, l) \/ ConsumeRefusedBelow(a, l) \/ ConsumeStart(a, l)
    \/ CallbackFails(a) \/ CallbackSucceeds(a) \/ EvidenceFails(a)

Next == HostNext \/ \E a \in Adapters : AdapterNext(a)

Spec == Init /\ [][Next]_vars
--------------------------------------------------------------------------------
(* Properties                                                                *)

Running == {l \in LeaseIds : \E a \in Adapters : pc[a] = "callback" /\ arg[a].lease = l}

Ran(l) == ran[l] > 0

\* While a callback runs that does not itself use guard or ledger, no observation,
\* containment or trajectory event comes in between: the effect happens in the
\* objective state, and on the trajectory, that its lease was issued for.  A lease
\* from before a containment dies with it, also after the release, since the
\* release receipt becomes part of the guard's state digest: an effect runs on
\* such a lease only if the same receipt had been the last one at its issue too.
EffectInBoundState ==
    \A l \in Running : ~reentered =>
        LET n == leases[l].releases
        IN /\ leases[l].state = ObjectiveState /\ FloorAllows
           /\ causal => leases[l].head = LedgerHead
           /\ \/ Len(released) = n
              \/ n > 0 /\ released[n] = released[Len(released)]

\* No effect runs that would take the trajectory, as it stands in the ledger, out
\* of ALLOW, although another event can join between proposal, lease and commit.
EffectsKeepTrajectoryAllowed ==
    causal => \A l \in LeaseIds : Ran(l) =>
        Decision(Append(SubSeq(trajectory, 1, leases[l].head), leases[l].op)) = "ALLOW"

\* The causal broker says SUCCEEDED exactly when the effect's event is in the chain
\* at the place the lease projected, and never twice for one operation.  A lease
\* runs at most once; when it is done both brokers hold one receipt for it and
\* they agree on whether the effect succeeded.
EvidenceMatchesEffects ==
    /\ \A l \in LeaseIds :
         Receipt(l, "SUCCEEDED") \in causalReceipts =>
             /\ LedgerHead > leases[l].head
             /\ trajectory[leases[l].head + 1] = leases[l].op
    /\ \A k \in DOMAIN trajectory : trajectory[k] \in Operations =>
         Cardinality({l \in Issued : /\ leases[l].op = trajectory[k]
                                     /\ Receipt(l, "SUCCEEDED") \in causalReceipts}) = 1
    /\ \A l \in Issued :
         LET own(rs) == {r \in rs : r.lease = l}
             outcome(rs) == {r.outcome : r \in own(rs)}
         IN /\ ran[l] <= 1
            /\ Ran(l) /\ l \notin Running =>
                 /\ Cardinality(own(objectiveReceipts)) = 1
                 /\ causal => Cardinality(own(causalReceipts)) = 1
                 /\ causal => ("FAILED" \in outcome(objectiveReceipts)
                               <=> "FAILED" \in outcome(causalReceipts))
            /\ "SUCCEEDED" \in outcome(objectiveReceipts) => Ran(l)
================================================================================
