----------------------------- MODULE EffectCommit -----------------------------
(***************************************************************************)
(* sdk/liminal_effect_commit: one-time effect leases committed under the   *)
(* RuntimeCommitFence, with several threads.                               *)
(*                                                                         *)
(* Two re-entrant locks guard the broker: the fence shared with the fenced *)
(* runtime configuration broker, and the broker's own _lock.               *)
(*   - committing takes the fence, then _lock, and keeps both while the    *)
(*     host callback runs;                                                 *)
(*   - issuing and the broker's containment flag take only _lock;          *)
(*   - configuration takes only the fence, and writes epoch, state and     *)
(*     taint one after the other;                                          *)
(*   - capabilities, execution sessions, the clock and the mediator's own  *)
(*     containment flag are under neither lock.                            *)
(* A lease can therefore be issued from a half-written runtime world; the  *)
(* re-check under the fence has to make that harmless.                     *)
(*                                                                         *)
(* Assumption: the host callback does its effect and calls neither broker. *)
(* The locks would let it, on its own thread, enter or leave containment   *)
(* or configure the runtime while its effect runs.                         *)
(***************************************************************************)
EXTENDS Integers, FiniteSets

CONSTANTS
    Adapters,    \* threads that issue and commit leases
    Operators,   \* threads that enter and leave containment
    Caps,        \* epoch-bound capabilities
    States,      \* runtime states, named by their digest
    Nobody,      \* a lock that is free
    NoLease, NoCap,
    LeaseTTL,    \* lease_ttl_seconds
    MaxLease,    \* bound: leases ever issued
    MaxEpoch,    \* bound: runtime epochs
    MaxSession,  \* bound: execution sessions
    MaxTime      \* bound: the trusted clock

ASSUME BoundsAssumption ==
    /\ MaxLease \in Nat /\ MaxEpoch \in Nat /\ MaxSession \in Nat
    /\ MaxTime \in Nat /\ LeaseTTL \in Nat
ASSUME NobodyAssumption ==
    /\ Nobody \notin Adapters /\ Nobody \notin Operators /\ Nobody # "config"
    /\ "config" \notin Adapters
ASSUME NoCapAssumption == NoCap \notin Caps

LeaseIds == 1 .. MaxLease
Times == 0 .. MaxTime
Worlds == [epoch : 0 .. MaxEpoch, state : States]
Leases == [cap : Caps, world : Worlds, session : 0 .. MaxSession,
           issued : Times, expires : 0 .. MaxTime + LeaseTTL,
           consumed : BOOLEAN]
ASSUME NoLeaseAssumption == NoLease \notin Leases

VARIABLES
    fence,      \* who holds RuntimeCommitFence
    lock,       \* who holds EffectCommitBroker._lock
    epoch, state, tainted,   \* the configuration broker's world
    configPc,   \* progress of FencedBoundRuntimeConfigBroker.execute
    target,     \* the state and taint flag that execute is about to record
    capStatus, capWorld,     \* the epoch-bound capability broker
    decided,    \* capabilities with an ALLOW decision receipt
    session, sessionActive,  \* ExecutionSessionProvider
    clock,      \* the trusted clock
    leases,     \* EffectCommitBroker._leases
    commits,    \* EffectCommitBroker._commits: the lease ids of the receipts
    contained,  \* EffectCommitBroker._contained
    mediatorContained,       \* RuntimeMediator._contained
    operatorPc, \* progress of enter_containment / exit_containment
    pc,         \* what every adapter is doing
    arg,        \* its capability, lease and the epoch it has read
    ran         \* history: how often the callback of a lease was started

world == <<epoch, state, tainted, configPc, target>>
authority == <<capStatus, capWorld, decided>>
session_ == <<session, sessionActive, clock>>
containment == <<contained, mediatorContained, operatorPc>>
broker == <<leases, commits, ran>>
threads == <<pc, arg>>
vars == <<fence, lock, epoch, state, tainted, configPc, target, capStatus,
          capWorld, decided, session, sessionActive, clock, leases, commits,
          contained, mediatorContained, operatorPc, pc, arg, ran>>

Idle == [cap |-> NoCap, lease |-> 0, epoch |-> 0, now |-> 0]
World == [epoch |-> epoch, state |-> state]
Issued == {l \in LeaseIds : leases[l] # NoLease}

TypeOK ==
    /\ fence \in Adapters \cup {"config", Nobody}
    /\ lock \in Adapters \cup {Nobody}
    /\ World \in Worlds /\ tainted \in BOOLEAN
    /\ configPc \in {"idle", "epoch", "state", "revoke", "taint"}
    /\ target \in [state : States, tainted : BOOLEAN]
    /\ capStatus \in [Caps -> {"none", "active", "revoked"}]
    /\ capWorld \in [Caps -> Worlds]
    /\ decided \subseteq Caps
    /\ session \in 0 .. MaxSession /\ sessionActive \in BOOLEAN
    /\ clock \in Times
    /\ leases \in [LeaseIds -> Leases \cup {NoLease}]
    /\ commits \subseteq LeaseIds \X {"SUCCEEDED", "FAILED"}
    /\ contained \in BOOLEAN /\ mediatorContained \in BOOLEAN
    /\ operatorPc \in [Operators -> {"idle", "entering", "exiting"}]
    /\ pc \in [Adapters -> {"idle", "issuing", "committing", "callback"}]
    /\ arg \in [Adapters -> [cap : Caps \cup {NoCap}, lease : 0 .. MaxLease,
                             epoch : 0 .. MaxEpoch, now : Times]]
    /\ ran \in [LeaseIds -> Nat]

-----------------------------------------------------------------------------
(* FencedBoundRuntimeConfigBroker.execute, under the fence *)

(* A plan is admitted and applied; `bad` if the outcome is not the planned *)
(* state.                                                                  *)
ConfigStart(s, bad) ==
    /\ configPc = "idle" /\ fence = Nobody
    /\ ~tainted
    /\ epoch < MaxEpoch
    /\ fence' = "config"
    /\ configPc' = "epoch" /\ target' = [state |-> s, tainted |-> bad]
    /\ UNCHANGED <<lock, epoch, state, tainted, authority, session_,
                  containment, broker, threads>>

(* The host has drifted: the cached state is replaced in the same epoch.   *)
ConfigStale(s) ==
    /\ configPc = "idle" /\ fence = Nobody
    /\ ~tainted
    /\ s # state /\ state' = s
    /\ UNCHANGED <<fence, lock, epoch, tainted, configPc, target, authority,
                  session_, containment, broker, threads>>

(* _advance_epoch: self._epoch += 1 *)
ConfigEpoch ==
    /\ configPc = "epoch"
    /\ epoch' = epoch + 1 /\ configPc' = "state"
    /\ UNCHANGED <<fence, lock, state, tainted, target, authority, session_,
                  containment, broker, threads>>

(* _advance_epoch: self._state_sha256 = ... *)
ConfigState ==
    /\ configPc = "state"
    /\ state' = target.state /\ configPc' = "revoke"
    /\ UNCHANGED <<fence, lock, epoch, tainted, target, authority, session_,
                  containment, broker, threads>>

(* _advance_epoch: revoke what is active now *)
ConfigRevoke ==
    /\ configPc = "revoke"
    /\ capStatus' = [c \in Caps |-> IF capStatus[c] = "active" THEN "revoked" ELSE capStatus[c]]
    /\ configPc' = "taint"
    /\ UNCHANGED <<fence, lock, epoch, state, tainted, target, capWorld,
                  decided, session_, containment, broker, threads>>

(* self._tainted = True if need be, and the fence is released *)
ConfigEnd ==
    /\ configPc = "taint"
    /\ tainted' = (tainted \/ target.tainted) /\ configPc' = "idle"
    /\ fence' = Nobody
    /\ UNCHANGED <<lock, epoch, state, target, authority, session_,
                  containment, broker, threads>>

-----------------------------------------------------------------------------
(* The epoch-bound capability broker, under no lock *)

(* admit: the world may be half written when it is read *)
AdmitCap(c) ==
    /\ capStatus[c] = "none"
    /\ ~tainted
    /\ capStatus' = [capStatus EXCEPT ![c] = "active"]
    /\ capWorld' = [capWorld EXCEPT ![c] = World]
    /\ UNCHANGED <<fence, lock, decided, world, session_, containment,
                  broker, threads>>

(* authorize: an ALLOW decision for c; stale capabilities are revoked      *)
Authorize(c) ==
    /\ ~mediatorContained
    /\ capStatus[c] = "active"
    /\ LET stale == {d \in Caps : capStatus[d] = "active" /\ (tainted \/ capWorld[d] # World)}
       IN /\ capStatus' = [d \in Caps |-> IF d \in stale THEN "revoked" ELSE capStatus[d]]
          /\ decided' = IF c \in stale THEN decided ELSE decided \cup {c}
    /\ UNCHANGED <<fence, lock, capWorld, world, session_, containment,
                  broker, threads>>

RevokeCap(c) ==
    /\ capStatus[c] = "active"
    /\ capStatus' = [capStatus EXCEPT ![c] = "revoked"]
    /\ UNCHANGED <<fence, lock, capWorld, decided, world, session_,
                  containment, broker, threads>>

(* _capability_active *)
CapabilityActive(c, w) == capStatus[c] = "active" /\ capWorld[c] = w

-----------------------------------------------------------------------------
(* Execution sessions and the trusted clock, under no lock *)

SessionChange(active) ==
    /\ session < MaxSession
    /\ session' = session + 1 /\ sessionActive' = active
    /\ UNCHANGED <<fence, lock, clock, world, authority, containment, broker,
                  threads>>

ClockMoves(t) ==
    /\ t # clock /\ clock' = t
    /\ UNCHANGED <<fence, lock, session, sessionActive, world, authority,
                  containment, broker, threads>>

-----------------------------------------------------------------------------
(* EffectCommitBroker *)

(* issue_for_trusted_adapter: takes _lock, not the fence.  The world is    *)
(* read field by field, so the configuration may move in between.          *)
IssueStart(a, c) ==
    /\ pc[a] = "idle" /\ lock = Nobody
    /\ c \in decided
    /\ ~contained
    /\ Cardinality(Issued) < MaxLease
    /\ lock' = a
    /\ pc' = [pc EXCEPT ![a] = "issuing"]
    /\ arg' = [arg EXCEPT ![a] = [cap |-> c, lease |-> 0, epoch |-> epoch, now |-> clock]]
    /\ UNCHANGED <<fence, world, authority, session_, containment, broker>>

(* The checks pass and the lease is entered, or an error is raised. *)
NewLease(a) ==
    [cap |-> arg[a].cap, world |-> [epoch |-> arg[a].epoch, state |-> state],
     session |-> session, issued |-> arg[a].now,
     expires |-> arg[a].now + LeaseTTL, consumed |-> FALSE]

MayIssue(a) ==
    /\ ~tainted
    /\ sessionActive
    /\ CapabilityActive(arg[a].cap, NewLease(a).world)

IssueEnd(a) ==
    /\ pc[a] = "issuing"
    /\ leases' = IF MayIssue(a)
                 THEN [leases EXCEPT ![Cardinality(Issued) + 1] = NewLease(a)]
                 ELSE leases
    /\ lock' = Nobody
    /\ pc' = [pc EXCEPT ![a] = "idle"] /\ arg' = [arg EXCEPT ![a] = Idle]
    /\ UNCHANGED <<fence, world, authority, session_, containment, commits, ran>>

(* _commit: the fence first *)
CommitFence(a, l) ==
    /\ pc[a] = "idle" /\ fence = Nobody
    /\ fence' = a
    /\ pc' = [pc EXCEPT ![a] = "committing"]
    /\ arg' = [arg EXCEPT ![a] = [Idle EXCEPT !.lease = l]]
    /\ UNCHANGED <<lock, world, authority, session_, containment, broker>>

(* ... then _lock and the checks.  A refusal does not burn the lease. *)
BugNoWorldRecheck(l) ==
    /\ ~contained
    /\ ~leases[l].consumed
    /\ leases[l].issued <= clock /\ clock <= leases[l].expires
    /\ sessionActive /\ leases[l].session = session
    /\ CapabilityActive(leases[l].cap, leases[l].world)

BugReplay(l) ==
    /\ ~contained
    /\ leases[l].issued <= clock /\ clock <= leases[l].expires
    /\ ~tainted /\ leases[l].world = World
    /\ sessionActive /\ leases[l].session = session
    /\ CapabilityActive(leases[l].cap, World)

MayCommit(l) ==
    /\ ~contained
    /\ ~leases[l].consumed
    /\ leases[l].issued <= clock /\ clock <= leases[l].expires
    /\ ~tainted /\ leases[l].world = World
    /\ sessionActive /\ leases[l].session = session
    /\ CapabilityActive(leases[l].cap, World)

CommitRefused(a) ==
    /\ pc[a] = "committing" /\ lock = Nobody
    /\ arg[a].lease \notin Issued \/ ~MayCommit(arg[a].lease)
    /\ fence' = Nobody
    /\ pc' = [pc EXCEPT ![a] = "idle"] /\ arg' = [arg EXCEPT ![a] = Idle]
    /\ UNCHANGED <<lock, world, authority, session_, containment, broker>>

(* The lease is burned before the host callback, and both locks are kept.  *)
CommitStart(a) ==
    /\ pc[a] = "committing" /\ lock = Nobody
    /\ arg[a].lease \in Issued /\ MayCommit(arg[a].lease)
    /\ lock' = a
    /\ leases' = [leases EXCEPT ![arg[a].lease].consumed = TRUE]
    /\ ran' = [ran EXCEPT ![arg[a].lease] = @ + 1]
    /\ pc' = [pc EXCEPT ![a] = "callback"]
    /\ UNCHANGED <<fence, world, authority, session_, containment, commits, arg>>

(* The callback returns or raises; the receipt is appended. *)
CallbackEnd(a, outcome) ==
    /\ pc[a] = "callback"
    /\ commits' = commits \cup {<<arg[a].lease, outcome>>}
    /\ fence' = Nobody /\ lock' = Nobody
    /\ pc' = [pc EXCEPT ![a] = "idle"] /\ arg' = [arg EXCEPT ![a] = Idle]
    /\ UNCHANGED <<world, authority, session_, containment, leases, ran>>

-----------------------------------------------------------------------------
(* EpochBoundEffectRuntimeMediator: entering sets the mediator's flag and  *)
(* then the broker's under _lock; leaving clears them the other way round. *)

BugEnterBrokerFirst(o) ==
    /\ operatorPc[o] = "idle" /\ lock = Nobody
    /\ contained' = TRUE
    /\ operatorPc' = [operatorPc EXCEPT ![o] = "entering"]
    /\ UNCHANGED <<fence, lock, mediatorContained, world, authority, session_,
                   broker, threads>>

EnterStart(o) ==
    /\ operatorPc[o] = "idle"
    /\ mediatorContained' = TRUE
    /\ operatorPc' = [operatorPc EXCEPT ![o] = "entering"]
    /\ UNCHANGED <<fence, lock, contained, world, authority, session_, broker, threads>>

BugEnterMediatorLast(o) ==
    /\ operatorPc[o] = "entering"
    /\ mediatorContained' = TRUE
    /\ operatorPc' = [operatorPc EXCEPT ![o] = "idle"]
    /\ UNCHANGED <<fence, lock, contained, world, authority, session_, broker, threads>>

EnterEnd(o) ==
    /\ operatorPc[o] = "entering" /\ lock = Nobody
    /\ contained' = TRUE
    /\ operatorPc' = [operatorPc EXCEPT ![o] = "idle"]
    /\ UNCHANGED <<fence, lock, mediatorContained, world, authority, session_,
                   broker, threads>>

ExitStart(o) ==
    /\ operatorPc[o] = "idle" /\ lock = Nobody
    /\ contained' = FALSE
    /\ operatorPc' = [operatorPc EXCEPT ![o] = "exiting"]
    /\ UNCHANGED <<fence, lock, mediatorContained, world, authority, session_,
                   broker, threads>>

ExitEnd(o) ==
    /\ operatorPc[o] = "exiting"
    /\ mediatorContained' = FALSE
    /\ operatorPc' = [operatorPc EXCEPT ![o] = "idle"]
    /\ UNCHANGED <<fence, lock, contained, world, authority, session_, broker, threads>>

-----------------------------------------------------------------------------
Init ==
    /\ fence = Nobody /\ lock = Nobody
    /\ epoch = 0 /\ state \in States /\ tainted = FALSE
    /\ configPc = "idle" /\ target = [state |-> state, tainted |-> FALSE]
    /\ capStatus = [c \in Caps |-> "none"]
    /\ capWorld = [c \in Caps |-> World]
    /\ decided = {}
    /\ session = 0 /\ sessionActive = TRUE /\ clock = 0
    /\ leases = [l \in LeaseIds |-> NoLease]
    /\ commits = {} /\ ran = [l \in LeaseIds |-> 0]
    /\ contained = FALSE /\ mediatorContained = FALSE
    /\ operatorPc = [o \in Operators |-> "idle"]
    /\ pc = [a \in Adapters |-> "idle"] /\ arg = [a \in Adapters |-> Idle]

ConfigNext ==
    \/ \E s \in States, bad \in BOOLEAN : ConfigStart(s, bad)
    \/ \E s \in States : ConfigStale(s)
    \/ ConfigEpoch \/ ConfigState \/ ConfigRevoke \/ ConfigEnd

EnvironmentNext ==
    \/ \E c \in Caps : AdmitCap(c) \/ Authorize(c) \/ RevokeCap(c)
    \/ \E b \in BOOLEAN : SessionChange(b)
    \/ \E t \in Times : ClockMoves(t)

AdapterNext(a) ==
    \/ \E c \in Caps : IssueStart(a, c)
    \/ IssueEnd(a)
    \/ \E l \in Issued : CommitFence(a, l)
    \/ CommitRefused(a)
    \/ CommitStart(a)
    \/ \E outcome \in {"SUCCEEDED", "FAILED"} : CallbackEnd(a, outcome)

BugEnterOrder(o) == BugEnterBrokerFirst(o) \/ BugEnterMediatorLast(o) \/ ExitStart(o) \/ ExitEnd(o)

OperatorNext(o) == EnterStart(o) \/ EnterEnd(o) \/ ExitStart(o) \/ ExitEnd(o)

Next ==
    \/ ConfigNext
    \/ EnvironmentNext
    \/ \E a \in Adapters : AdapterNext(a)
    \/ \E o \in Operators : OperatorNext(o)

Spec == Init /\ [][Next]_vars

-----------------------------------------------------------------------------
(* Properties *)

(* How far the effect of a lease has come. *)
Progress(l) ==
    IF leases[l] = NoLease THEN "none"
    ELSE IF <<l, "SUCCEEDED">> \in commits THEN "SUCCEEDED"
    ELSE IF <<l, "FAILED">> \in commits THEN "FAILED"
    ELSE IF leases[l].consumed THEN "running" ELSE "granted"

(* The broker implements SerialEffects: whatever the threads do under the  *)
(* two locks and beside them, effects, configurations and containments     *)
(* follow each other as if each had the runtime to itself.                 *)
Serial == INSTANCE SerialEffects WITH
    Ids <- LeaseIds, None <- NoLease, world <- World, closed <- contained,
    grant <- [l \in LeaseIds |-> IF leases[l] = NoLease THEN NoLease ELSE leases[l].world],
    progress <- [l \in LeaseIds |-> Progress(l)]

ImplementsSerial == Serial!Spec

(* "an effect authorized in runtime world (N,S) cannot be committed after  *)
(* that world has changed": while a host callback runs, the runtime is in  *)
(* exactly the untainted world its lease was issued for, although leases   *)
(* may be issued from a half-written world.                                *)
EffectInLeasedWorld ==
    \A a \in Adapters : pc[a] = "callback" =>
        ~tainted /\ leases[arg[a].lease].world = World

(* A lease runs its callback at most once, whatever the callback does and  *)
(* however many threads hold the lease, and every callback that ran is on  *)
(* record: one receipt for each lease whose callback was started, except   *)
(* the one still running.                                                  *)
EffectsOnceOnRecord ==
    \A l \in LeaseIds :
        /\ ran[l] <= 1
        /\ \/ Cardinality({o \in {"SUCCEEDED", "FAILED"} : <<l, o>> \in commits}) = ran[l]
           \/ \E a \in Adapters : pc[a] = "callback" /\ arg[a].lease = l

(* Once the broker is contained no host callback is running: entering      *)
(* containment waits for the one in flight.  When no containment call is   *)
(* in progress, a mediator that reports containment has a contained broker *)
(* behind it, however calls by several operators interleaved.              *)
ContainmentHolds ==
    /\ contained => \A a \in Adapters : pc[a] # "callback"
    /\ (\A o \in Operators : operatorPc[o] = "idle") => (mediatorContained => contained)
=============================================================================
