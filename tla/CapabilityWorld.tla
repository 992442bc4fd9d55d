--------------------------- MODULE CapabilityWorld ---------------------------
(***************************************************************************)
(* The capability brokers and the runtime world they are bound to:         *)
(*                                                                         *)
(*   sdk/liminal_capability_broker      CapabilityBroker  (the delegate)   *)
(*   sdk/liminal_epoch_bound_capability EpochBoundCapabilityBroker         *)
(*   sdk/liminal_runtime_config         BoundRuntimeConfigBroker           *)
(*   sdk/liminal_runtime_mediation      RuntimeMediator (its gate)         *)
(*                                                                         *)
(* The stack is chosen once: mediator.broker is the epoch binding wrapper  *)
(* around the broker, or the plain broker.                                 *)
(* The objects are used by one thread; what makes them hard is the length  *)
(* of the legal call sequences, a host whose configuration drifts behind   *)
(* the broker's cached state, and clocks supplied by the caller.           *)
(*                                                                         *)
(* A SHA-256 digest stands for the value it covers, so a digest comparison *)
(* is an equality.  Calls that raise leave the objects unchanged and are   *)
(* not steps.                                                              *)
(***************************************************************************)
EXTENDS Integers, FiniteSets

CONSTANTS
    Ids,          \* capability ids, numbered in their sorted order
    Contracts,    \* the CapabilityContract documents callers present
    Requests,     \* what callers ask authorize() for
    Plans,        \* the RuntimeConfigPlan documents callers present
    States,       \* host configuration states, named by their digest
    ZeroState,    \* ZERO_SHA256, recorded when the host cannot be observed
    HostBinding,  \* host_binding_sha256 of this broker
    NoId, NoContract, NoWorld,
    MaxTime,      \* bound: the caller's clock
    MaxEpoch      \* bound: runtime epochs

ASSUME IdsAssumption == Ids \subseteq Nat /\ IsFiniteSet(Ids) /\ NoId \notin Ids
ASSUME BoundsAssumption == MaxTime \in Nat /\ MaxEpoch \in Nat
ASSUME StatesAssumption == ZeroState \notin States
ASSUME ContractsAssumption ==
    /\ NoContract \notin Contracts
    /\ \A k \in Contracts : /\ k.id \in Ids
                            /\ k.parent \in Ids \cup {NoId}
                            /\ k.delegable \in BOOLEAN
                            /\ k.maxUses \in Nat
                            /\ k.issued \in Nat
                            /\ k.notBefore \in Nat
                            /\ k.expires \in Nat
ASSUME PlansAssumption ==
    \A p \in Plans : p.before \in States /\ p.after \in States /\ p.epoch \in Nat

Epochs == 0 .. MaxEpoch
Worlds == [epoch : Epochs, state : States \cup {ZeroState}]
ASSUME WorldsAssumption == NoWorld \notin Worlds

VARIABLES
    epochBound, \* is the epoch binding wrapper installed?
    contract,   \* _State.contract of every capability, NoContract if unknown
    status,     \* _State.status
    useCount,   \* _State.use_count
    binding,    \* EpochBoundCapabilityBroker._bindings: the bound world
    epoch,      \* BoundRuntimeConfigBroker._epoch
    state,      \* BoundRuntimeConfigBroker._state_sha256 (cached)
    tainted,    \* BoundRuntimeConfigBroker._tainted
    seenPlans,  \* BoundRuntimeConfigBroker._seen_plans
    contained,  \* RuntimeMediator._contained
    host,       \* the configuration the host really has
    receipt,    \* the last receipt returned: operation, capability, decision
    admittedIn  \* history: the runtime world a capability was admitted in

broker == <<contract, status, useCount, admittedIn>>
runtime == <<epochBound, epoch, state, tainted, seenPlans, host>>
vars == <<epochBound, contract, status, useCount, binding, epoch, state, tainted,
          seenPlans, contained, host, receipt, admittedIn>>

Receipts == [op : {"none", "admit", "authorize", "revoke", "expire", "configure"},
             id : Ids \cup {NoId}, decision : {"ALLOW", "BLOCK"}]

TypeOK ==
    /\ epochBound \in BOOLEAN
    /\ contract \in [Ids -> Contracts \cup {NoContract}]
    /\ status \in [Ids -> {"none", "active", "revoked", "expired"}]
    /\ useCount \in [Ids -> Nat]
    /\ binding \in [Ids -> Worlds \cup {NoWorld}]
    /\ epoch \in Epochs
    /\ state \in States \cup {ZeroState}
    /\ tainted \in BOOLEAN
    /\ seenPlans \subseteq Plans
    /\ contained \in BOOLEAN
    /\ host \in States
    /\ receipt \in Receipts
    /\ admittedIn \in [Ids -> Worlds \cup {NoWorld}]

Known(i) == contract[i] # NoContract
Active == {i \in Ids : status[i] = "active"}
Return(op, i, d) == receipt' = [op |-> op, id |-> i, decision |-> d]

-----------------------------------------------------------------------------
(* CapabilityBroker *)

(* CapabilityContract.from_document: the rules a contract must meet; in    *)
(* particular a delegable capability must itself name a parent.            *)
ValidContract(k) ==
    /\ k.issued <= k.notBefore /\ k.notBefore < k.expires
    /\ k.maxUses >= 1
    /\ k.delegable => k.parent # NoId

(* _scope_contains.  A scope is a function from scope keys to sets: a list *)
(* is its set, a scalar is a singleton and a bound n is 1..n, so that      *)
(* "subset of", "equal to" and "at most" are all inclusion.  Only the keys *)
(* of the request are looked at, except that a repository grant also       *)
(* insists on the repository.                                              *)
ScopeContains(type, granted, requested) ==
    /\ type = "repository" =>
          /\ "repository" \in DOMAIN granted \cap DOMAIN requested
          /\ granted["repository"] = requested["repository"]
    /\ \A key \in DOMAIN requested :
          key \in DOMAIN granted /\ requested[key] \subseteq granted[key]

(* _validate_parent *)
ParentAllows(k) ==
    k.parent # NoId =>
        /\ status[k.parent] = "active"
        /\ LET parent == contract[k.parent] IN
              /\ parent.delegable
              /\ k.type = parent.type
              /\ k.policy = parent.policy
              /\ k.expires <= parent.expires
              /\ k.maxUses <= parent.maxUses
              /\ ScopeContains(k.type, parent.scope, k.scope)

World == [epoch |-> epoch, state |-> state]

(* CapabilityBroker.admit of a capability id it does not know yet *)
NewlyAdmissible(k, t) ==
    /\ ~Known(k.id)
    /\ k.issued <= t /\ t < k.expires
    /\ ParentAllows(k)

(* ... and of one it knows: only the identical contract is accepted, and   *)
(* it is answered ALLOW ("already_admitted") whatever its status.          *)
AlreadyAdmitted(k) == contract[k.id] = k

BugReadmitReactivates(k) ==
    /\ contract' = [contract EXCEPT ![k.id] = k]
    /\ status' = [status EXCEPT ![k.id] = "active"]
    /\ UNCHANGED useCount
    /\ admittedIn' = [admittedIn EXCEPT ![k.id] = World]

AdmitInDelegate(k) ==
    IF Known(k.id)
    THEN UNCHANGED broker
    ELSE /\ contract' = [contract EXCEPT ![k.id] = k]
         /\ status' = [status EXCEPT ![k.id] = "active"]
         /\ UNCHANGED useCount
         /\ admittedIn' = [admittedIn EXCEPT ![k.id] = World]

(* admit() called on the plain broker *)
DelegateAdmit(k, t) ==
    /\ ValidContract(k)
    /\ AlreadyAdmitted(k) \/ NewlyAdmissible(k, t)
    /\ AdmitInDelegate(k)
    /\ Return("admit", k.id, "ALLOW")
    /\ UNCHANGED <<binding, contained>> /\ UNCHANGED runtime

(* _ineligible, and the filter of authorize() on subject and type *)
Eligible(i, req, t) ==
    LET c == contract[i] IN
    /\ Known(i)
    /\ c.subject = req.subject /\ c.type = req.type
    /\ c.notBefore <= t /\ t < c.expires
    /\ c.policy = req.policy
    /\ useCount[i] < c.maxUses
    /\ ScopeContains(c.type, c.scope, req.scope)

(* authorize(): the first eligible capability in id order is charged.      *)
(* `live` is the set of capabilities active when the search runs.          *)
Chosen(live, req, t, i) ==
    LET eligible == {j \in live : Eligible(j, req, t)} IN
    IF eligible = {} THEN i = NoId
    ELSE i \in eligible /\ \A j \in eligible : i <= j

Charge(i) == useCount' = [j \in Ids |-> useCount[j] + (IF j = i THEN 1 ELSE 0)]

RevokeAll(S) ==
    status' = [i \in Ids |-> IF status[i] = "active" /\ i \in S
                             THEN "revoked" ELSE status[i]]

-----------------------------------------------------------------------------
(* EpochBoundCapabilityBroker *)

(* TrustedRuntimeSnapshot.from_provider reads the config broker's cached   *)
(* epoch, state and taint flag; it does not observe the host.              *)
Snapshot == [epoch |-> epoch, state |-> state, tainted |-> tainted]

(* _binding_mismatch, negated *)
BugEpochOnly(w) == w.epoch = Snapshot.epoch

BindingMatches(w) == w.epoch = Snapshot.epoch /\ w.state = Snapshot.state

(* admit() past its checks.  A duplicate id with another binding raises.   *)
Admit(k, w, t) ==
    /\ epochBound
    /\ ValidContract(k)
    /\ binding[k.id] # NoWorld => binding[k.id] = w /\ contract[k.id] = k
    /\ IF /\ ~Snapshot.tainted
          /\ BindingMatches(w)
          /\ k.parent # NoId => binding[k.parent] = w
          /\ AlreadyAdmitted(k) \/ NewlyAdmissible(k, t)
       THEN /\ AdmitInDelegate(k)
            /\ binding' = [binding EXCEPT ![k.id] = w]
            /\ Return("admit", k.id, "ALLOW")
       ELSE /\ UNCHANGED broker /\ UNCHANGED binding
            /\ Return("admit", NoId, "BLOCK")
    /\ UNCHANGED contained /\ UNCHANGED runtime

(* _reconcile: one pass over the active capabilities in id order.  A       *)
(* capability survives if it is bound, its parent is still active when it  *)
(* is visited (a smaller id has been visited already, a larger one not     *)
(* yet), and the current world is untainted and the one it is bound to.    *)
(* The survivors are the only set that satisfies this equation.            *)
Reconciled(kept) ==
    kept = {i \in Active :
              /\ binding[i] # NoWorld
              /\ LET parent == contract[i].parent IN
                    \/ parent = NoId
                    \/ parent < i /\ parent \in kept
                    \/ parent >= i /\ parent \in Active
              /\ ~Snapshot.tainted
              /\ BindingMatches(binding[i])}

(* What authorize() of the installed broker does to the capabilities: the  *)
(* survivors of the reconciliation, the one that is charged (NoId if the   *)
(* answer is BLOCK), and the ones it revokes.  The wrapper stops before    *)
(* the delegate in a tainted world, and revokes a capability the delegate  *)
(* chose that is not bound to the current world.                           *)
Authorizes(req, t, kept, i) ==
    /\ IF epochBound THEN Reconciled(kept) ELSE kept = Active
    /\ IF epochBound /\ Snapshot.tainted THEN i = NoId ELSE Chosen(kept, req, t, i)

Misbound(i) ==
    epochBound /\ i # NoId /\ (binding[i] = NoWorld \/ ~BindingMatches(binding[i]))

Authorize(req, t, kept, i) ==
    /\ Authorizes(req, t, kept, i)
    /\ Charge(i)
    /\ RevokeAll({j \in Ids : j \notin kept \/ (j = i /\ Misbound(i))})
    /\ IF i = NoId \/ Misbound(i) THEN Return("authorize", NoId, "BLOCK")
                                  ELSE Return("authorize", i, "ALLOW")
    /\ UNCHANGED <<contract, admittedIn, binding, contained>>
    /\ UNCHANGED runtime

(* revoke(): an inactive capability is answered BLOCK. *)
Revoke(i) ==
    /\ Known(i)
    /\ RevokeAll({i})
    /\ Return("revoke", i, IF i \in Active THEN "ALLOW" ELSE "BLOCK")
    /\ UNCHANGED <<contract, useCount, admittedIn, binding, contained>>
    /\ UNCHANGED runtime

(* expire_due(): the due capabilities expire; the caller's clock need not  *)
(* agree with the one authorize() is given later.                          *)
Due(t) == {i \in Active : t >= contract[i].expires}

ExpireDue(t) ==
    /\ Due(t) # {}
    /\ status' = [i \in Ids |-> IF i \in Due(t) THEN "expired" ELSE status[i]]
    /\ Return("expire", NoId, "ALLOW")
    /\ UNCHANGED <<contract, useCount, admittedIn, binding, contained>>
    /\ UNCHANGED runtime

-----------------------------------------------------------------------------
(* BoundRuntimeConfigBroker *)

(* RuntimeConfigPlan.validate: a plan must change the state. *)
ValidPlans == {p \in Plans : p.before # p.after}

(* RuntimeStateEvidence.from_mapping: observing a host in state s yields   *)
(* the state, or nothing when the evidence is missing or rejected.         *)
Observations(s) == {s, ZeroState}

(* The early returns of execute() before the host is looked at *)
Refused(p) ==
    \/ p.hostBinding # HostBinding
    \/ tainted
    \/ p \in seenPlans
    \/ p.epoch # epoch

ExecuteRefused(p) ==
    /\ Refused(p)
    /\ Return("configure", NoId, "BLOCK")
    /\ UNCHANGED <<binding, contained>> /\ UNCHANGED broker /\ UNCHANGED runtime

(* stale_before_state: the trusted state is replaced by what the host      *)
(* shows, in the same epoch and without revoking anything.                 *)
StaleBefore(p) == host # state \/ p.before # host

ExecuteStale(p) ==
    /\ ~Refused(p)
    /\ StaleBefore(p)
    /\ state' = host
    /\ Return("configure", NoId, "BLOCK")
    /\ UNCHANGED <<epochBound, binding, contained, epoch, tainted, seenPlans, host>>
    /\ UNCHANGED broker

(* The operation execute() hands to the mediator *)
ConfigRequest(subject, p) ==
    [subject |-> subject, type |-> "runtime.configure", policy |-> p.policy,
     scope |-> [setting_keys |-> p.settings]]

(* The mediator blocks: containment, or no authority *)
ExecuteBlocked(p, subject, t, kept, i) ==
    /\ ~Refused(p) /\ ~StaleBefore(p)
    /\ IF contained THEN kept = Active /\ i = NoId
                    ELSE /\ Authorizes(ConfigRequest(subject, p), t, kept, i)
                         /\ i = NoId \/ Misbound(i)
    /\ Charge(i)
    /\ RevokeAll({j \in Ids : j \notin kept \/ j = i})
    /\ Return("configure", NoId, "BLOCK")
    /\ UNCHANGED <<contract, admittedIn, binding, contained>>
    /\ UNCHANGED runtime

(* _advance_epoch(observed): everything still active is revoked. *)
BugAdvanceKeepsAuthority(observed) ==
    /\ epoch' = epoch + 1
    /\ state' = observed
    /\ status' = [i \in Ids |-> IF status[i] = "active" /\ binding[i] # NoWorld
                                THEN "revoked" ELSE status[i]]

AdvanceEpoch(observed) ==
    /\ epoch' = epoch + 1
    /\ state' = observed
    /\ RevokeAll(Ids)

(* The mediator admits the mutation.  backend.apply() may reach the        *)
(* planned state, another one, or fail part of the way; afterwards the     *)
(* host is observed (`seen`), or cannot be (ZeroState).  Only an apply     *)
(* that succeeded and was observed in the planned state keeps the runtime  *)
(* untainted.  A failed observation inside the executor is retried once,   *)
(* so a failure can still leave an observed state.                         *)
Mutated(p, after, clean, seen) ==
    /\ host' = after
    /\ AdvanceEpoch(seen)
    /\ seenPlans' = seenPlans \cup {p}
    /\ tainted' = ~(clean /\ seen = p.after)

ExecuteAdmitted(p, subject, t, kept, i, after, clean, seen) ==
    /\ ~Refused(p) /\ ~StaleBefore(p) /\ ~contained
    /\ epoch < MaxEpoch
    /\ Authorizes(ConfigRequest(subject, p), t, kept, i)
    /\ i # NoId /\ ~Misbound(i)
    /\ clean => seen = after
    /\ ~clean => seen \in Observations(after)
    /\ Charge(i)
    /\ Mutated(p, after, clean, seen)
    /\ Return("configure", i, IF clean /\ seen = p.after THEN "ALLOW" ELSE "BLOCK")
    /\ UNCHANGED <<epochBound, contract, admittedIn, binding, contained>>

(* The host's configuration changes by other hands. *)
HostDrift(s) ==
    /\ host' = s /\ s # host
    /\ UNCHANGED <<epochBound, binding, contained, epoch, state, tainted, seenPlans,
                   receipt>>
    /\ UNCHANGED broker

(* RuntimeMediator.enter_containment / exit_containment *)
SetContained(b) ==
    /\ contained # b
    /\ contained' = b
    /\ UNCHANGED <<binding, receipt>> /\ UNCHANGED broker /\ UNCHANGED runtime

-----------------------------------------------------------------------------
Times == 0 .. MaxTime
Subjects == {k.subject : k \in Contracts}

Init ==
    /\ epochBound \in BOOLEAN
    /\ contract = [i \in Ids |-> NoContract]
    /\ status = [i \in Ids |-> "none"]
    /\ useCount = [i \in Ids |-> 0]
    /\ binding = [i \in Ids |-> NoWorld]
    /\ epoch = 0
    /\ state \in States
    /\ host = state
    /\ tainted = FALSE
    /\ seenPlans = {}
    /\ contained = FALSE
    /\ receipt = [op |-> "none", id |-> NoId, decision |-> "BLOCK"]
    /\ admittedIn = [i \in Ids |-> NoWorld]

Next ==
    \/ \E k \in Contracts, t \in Times : DelegateAdmit(k, t)
    \/ \E k \in Contracts, w \in Worlds, t \in Times : Admit(k, w, t)
    \/ \E req \in Requests, t \in Times, kept \in SUBSET Ids, i \in Ids \cup {NoId} :
          Authorize(req, t, kept, i)
    \/ \E i \in Ids : Revoke(i)
    \/ \E t \in Times : ExpireDue(t)
    \/ \E p \in ValidPlans : ExecuteRefused(p)
    \/ \E p \in ValidPlans : ExecuteStale(p)
    \/ \E p \in ValidPlans, s \in Subjects, t \in Times, kept \in SUBSET Ids,
          i \in Ids \cup {NoId} : ExecuteBlocked(p, s, t, kept, i)
    \/ \E p \in ValidPlans, s \in Subjects, t \in Times, kept \in SUBSET Ids, i \in Ids,
          after \in States, clean \in BOOLEAN, seen \in States \cup {ZeroState} :
          ExecuteAdmitted(p, s, t, kept, i, after, clean, seen)
    \/ \E s \in States : HostDrift(s)
    \/ \E b \in BOOLEAN : SetContained(b)

Spec == Init /\ [][Next]_vars

-----------------------------------------------------------------------------
(* Properties *)

(* "revoked / expired -> never active again", and the contract behind a    *)
(* capability id is never exchanged for another one.                       *)
NeverActiveAgain ==
    [][\A i \in Ids :
         /\ status[i] \in {"revoked", "expired"} => status'[i] = status[i]
         /\ Known(i) => contract'[i] = contract[i]]_vars

(* After a runtime mutation, verified or not, no capability admitted in an *)
(* earlier epoch is active: _advance_epoch leaves no authority behind.     *)
OldEpochPowerless == \A i \in Active : admittedIn[i].epoch = epoch

(* With the epoch binding wrapper installed a capability is charged only   *)
(* in one untainted world (epoch, state), the one the wrapper first bound  *)
(* it to: not after a drift the broker has seen, not in a later epoch, and *)
(* admitting it again there does not help.                                 *)
UsedOnlyInBoundWorld ==
    [][epochBound => \A i \in Ids :
         /\ useCount'[i] # useCount[i] => ~tainted /\ binding[i] = World
         /\ binding[i] # NoWorld => binding'[i] = binding[i]]_vars

=============================================================================
