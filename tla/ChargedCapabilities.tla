-------------------------- MODULE ChargedCapabilities --------------------------
(***************************************************************************)
(* The authority that every mediated effect is charged to: one capability  *)
(* per capability type in a CapabilityBroker, the host's clock, and the    *)
(* gates that a containment closes (the mediator's and the brokers').      *)
(*                                                                         *)
(* CapabilityBroker keeps no lock.  Every type is charged by one broker    *)
(* under that broker's lock, or by the runtime's thread, so authorize is   *)
(* one step; revoke and expire_due come from anywhere in between.          *)
(***************************************************************************)
EXTENDS Naturals, FiniteSets

CONSTANTS
    Calls,        \* call ids, shared by the brokers
    NoCall,
    Threads,      \* threads of the host that use the lease brokers
    MaxUses,      \* MaxUses[k]: max_uses of the contract of type k
    Expires,      \* expires_at_unix of every contract
    Ttl,          \* lease_ttl_seconds of the lease brokers
    MaxTime,      \* bound: the host's clock
    MaxIncidents  \* bound: containments of one gate

Types == {"credential.access", "filesystem.write", "package.install",
          "process.execute", "network.connect"}

ASSUME UsesAssumption == MaxUses \in [Types -> Nat \ {0}] /\ Ttl \in Nat \ {0}
ASSUME TimeAssumption == Expires \in Nat /\ MaxTime \in Nat /\ MaxIncidents \in Nat

\* The types whose use reaches the world, and the gate in front of each.
EffectTypes == Types \ {"package.install"}
Gates == {"credential broker", "file broker", "mediator"}
GateOf(k) == CASE k = "credential.access" -> "credential broker"
               [] k = "filesystem.write" -> "file broker"
               [] OTHER -> "mediator"

VARIABLES
    now,        \* the host's clock
    status,     \* status[k]: _State.status of the capability of type k
    uses,       \* uses[k]: _State.use_count
    contained,  \* contained[g]: the gate's _contained
    incidents,  \* bound: how often a gate was closed
    effects,    \* history: effects[k][c], how often call c reached the world
    reliedAt   \* history: reliedAt[k], the latest host time k was charged or rechecked

authority == <<status, uses, reliedAt>>
gates == <<contained, incidents>>
capVars == <<now, status, uses, contained, incidents, effects, reliedAt>>

CapInit ==
    /\ now = 0
    /\ status = [k \in Types |-> "none"] /\ uses = [k \in Types |-> 0]
    /\ contained = [g \in Gates |-> FALSE] /\ incidents = [g \in Gates |-> 0]
    /\ effects = [k \in EffectTypes |-> [c \in Calls |-> 0]]
    /\ reliedAt = [k \in Types |-> 0]

Admit(k) ==
    /\ status[k] = "none" /\ now < Expires
    /\ status' = [status EXCEPT ![k] = "active"]
    /\ UNCHANGED <<now, uses, reliedAt, gates, effects>>

Revoke(k) ==
    /\ status[k] = "active"
    /\ status' = [status EXCEPT ![k] = "revoked"]
    /\ UNCHANGED <<now, uses, reliedAt, gates, effects>>

ExpireDue ==
    /\ now >= Expires /\ \E k \in Types : status[k] = "active"
    /\ status' = [k \in Types |-> IF status[k] = "active" THEN "expired" ELSE status[k]]
    /\ UNCHANGED <<now, uses, reliedAt, gates, effects>>

Tick ==
    /\ now < MaxTime
    /\ now' = now + 1
    /\ UNCHANGED <<authority, gates, effects>>

\* Bad form of Eligible: a spent capability is charged once more.
BugEligible(k, t) == status[k] = "active" /\ t < Expires

\* _ineligible, for a request in the contract's scope made at time t.
Eligible(k, t) == status[k] = "active" /\ t < Expires /\ uses[k] < MaxUses[k]

Charge(k) ==
    /\ uses' = [uses EXCEPT ![k] = @ + 1]
    /\ reliedAt' = [reliedAt EXCEPT ![k] = now]
    /\ UNCHANGED status

\* _capability_still_active: asked again when a lease is consumed.  The use
\* is paid already, so an exhausted capability is still active.
StillActive(k, t) == status[k] = "active" /\ t < Expires

\* A recheck finds the capability active and leaves it as it is.
Recheck(k) == reliedAt' = [reliedAt EXCEPT ![k] = now] /\ UNCHANGED <<status, uses>>

Reached(k, c) == effects' = [effects EXCEPT ![k][c] = @ + 1]
================================================================================
