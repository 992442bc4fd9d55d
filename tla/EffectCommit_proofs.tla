-------------------------- MODULE EffectCommit_proofs --------------------------
(***************************************************************************)
(* Proofs about EffectCommit for every set of adapters, operators,          *)
(* capabilities and runtime states and every bound.                         *)
(*                                                                         *)
(* The argument is about who holds which lock.  A callback runs under the   *)
(* fence and under _lock (LockInv), so neither the configuration broker nor *)
(* another adapter moves while it runs; leases are entered at fresh ids     *)
(* (LeaseInv) and burned before the callback, so the number of callbacks of *)
(* a lease is its consumed flag, and its receipts follow (RecordInv).       *)
(***************************************************************************)
EXTENDS EffectCommit, FiniteSetTheorems, TLAPS

LockInv ==
    /\ \A a \in Adapters :
          /\ pc[a] \in {"committing", "callback"} => fence = a
          /\ pc[a] \in {"issuing", "callback"} => lock = a
    /\ configPc # "idle" => fence = "config"
    /\ configPc = "epoch" => epoch < MaxEpoch

(* Leases are numbered without gaps, so the next number is free. *)
LeaseInv ==
    /\ \E n \in 0 .. MaxLease : Issued = 1 .. n
    /\ \A a \in Adapters :
          /\ pc[a] = "issuing" => arg[a].cap \in Caps
          /\ pc[a] \in {"committing", "callback"} => arg[a].lease \in LeaseIds

Running(l) == \E a \in Adapters : pc[a] = "callback" /\ arg[a].lease = l
Outcomes(l) == {o \in {"SUCCEEDED", "FAILED"} : <<l, o>> \in commits}

RecordInv ==
    \A l \in LeaseIds :
        /\ ran[l] = IF l \in Issued /\ leases[l].consumed THEN 1 ELSE 0
        /\ Running(l) => ran[l] = 1
        /\ Running(l) \/ ran[l] = 0 => Outcomes(l) = {}
        /\ ran[l] = 1 /\ ~Running(l) => \E o : Outcomes(l) = {o}

IInv == TypeOK /\ LockInv /\ LeaseInv /\ RecordInv /\ EffectInLeasedWorld /\ ContainmentHolds

-----------------------------------------------------------------------------
(* Consequences of the lock discipline *)

\* The number a new lease gets is not in use.
LEMMA FreshLease ==
  ASSUME LeaseInv
  PROVE  /\ Cardinality(Issued) \in Nat
         /\ Issued = 1 .. Cardinality(Issued)
         /\ Cardinality(Issued) + 1 \notin Issued
<1>1. PICK n \in 0 .. MaxLease : Issued = 1 .. n
  BY DEF LeaseInv
<1>2. n \in Nat
  BY BoundsAssumption
<1>3. Cardinality(1 .. n) = n
  BY <1>2, FS_Interval
<1> QED BY <1>1, <1>2, <1>3

\* An issued lease is a lease record.
LEMMA IssuedLease ==
  ASSUME TypeOK, NEW l \in Issued
  PROVE  l \in LeaseIds /\ leases[l] \in Leases
  BY DEF TypeOK, Issued

\* The receipts of a lease say how often its callback ran.
LEMMA RecordCounts == IInv => EffectsOnceOnRecord
<1> SUFFICES ASSUME IInv, NEW l \in LeaseIds
             PROVE  /\ ran[l] <= 1
                    /\ Cardinality(Outcomes(l)) = ran[l] \/ Running(l)
  BY DEF EffectsOnceOnRecord, Outcomes, Running
<1>1. ran[l] \in {0, 1}
  BY DEF IInv, RecordInv
<1>2. CASE ran[l] = 0
  BY <1>2, FS_EmptySet DEF IInv, RecordInv
<1>3. CASE ran[l] = 1 /\ ~Running(l)
  <2>1. PICK o : Outcomes(l) = {o}
    BY <1>3 DEF IInv, RecordInv
  <2>2. Cardinality({o}) = 1
    BY FS_Singleton
  <2> QED BY <2>1, <2>2, <1>3
<1> QED BY <1>1, <1>2, <1>3

-----------------------------------------------------------------------------
(* The inductive invariant, one lemma per group of actions *)

LEMMA InitInv == Init => IInv
<1> SUFFICES ASSUME Init PROVE IInv
  OBVIOUS
<1>1. TypeOK
  <2>1. 0 \in 0 .. MaxEpoch /\ 0 \in 0 .. MaxSession /\ 0 \in Times /\ 0 \in 0 .. MaxLease
    BY BoundsAssumption DEF Times
  <2>2. World \in Worlds
    BY <2>1 DEF Init, World, Worlds
  <2>3. Idle \in [cap : Caps \cup {NoCap}, lease : 0 .. MaxLease,
                  epoch : 0 .. MaxEpoch, now : Times]
    BY <2>1 DEF Idle
  <2> QED BY <2>1, <2>2, <2>3 DEF Init, TypeOK
<1>2. Issued = {}
  BY DEF Init, Issued
<1>3. LockInv /\ LeaseInv
  <2>1. 1 .. 0 = {} /\ 0 \in 0 .. MaxLease
    BY BoundsAssumption
  <2> QED BY <1>2, <2>1 DEF Init, LockInv, LeaseInv
<1>4. RecordInv
  BY <1>2 DEF Init, RecordInv, Running, Outcomes
<1>5. EffectInLeasedWorld /\ ContainmentHolds
  BY DEF Init, EffectInLeasedWorld, ContainmentHolds
<1> QED BY <1>1, <1>3, <1>4, <1>5 DEF IInv

\* Steps that leave adapters, leases and receipts alone.
LEMMA BrokerFrame ==
  ASSUME IInv, UNCHANGED <<leases, commits, ran, pc, arg>>
  PROVE  LeaseInv' /\ RecordInv'
<1>1. Issued' = Issued
  BY DEF Issued
<1>2. \A l \in LeaseIds : (Running(l)' <=> Running(l)) /\ Outcomes(l)' = Outcomes(l)
  BY DEF Running, Outcomes
<1>3. LeaseInv'
  BY <1>1 DEF IInv, LeaseInv
<1>4. RecordInv'
  BY <1>1, <1>2 DEF IInv, RecordInv
<1> QED BY <1>3, <1>4

\* FencedBoundRuntimeConfigBroker.execute: whoever writes the world holds the
\* fence, so no callback is running.
LEMMA ConfigStep ==
  ASSUME IInv, ConfigNext
  PROVE  IInv'
<1>1. UNCHANGED <<leases, commits, ran, pc, arg, lock, contained, mediatorContained,
                  operatorPc, session, sessionActive, clock, decided, capWorld>>
  BY DEF ConfigNext, ConfigStart, ConfigStale, ConfigEpoch, ConfigState, ConfigRevoke,
     ConfigEnd, world, authority, session_, containment, broker, threads
<1>2. LeaseInv' /\ RecordInv' /\ ContainmentHolds'
  BY <1>1, BrokerFrame DEF IInv, ContainmentHolds
<1>3. \A a \in Adapters : pc[a] \notin {"committing", "callback"}
  BY NobodyAssumption DEF IInv, LockInv, ConfigNext, ConfigStart, ConfigStale,
     ConfigEpoch, ConfigState, ConfigRevoke, ConfigEnd
<1>4. EffectInLeasedWorld'
  BY <1>1, <1>3 DEF EffectInLeasedWorld
<1>5. LockInv'
  BY <1>1, <1>3, NobodyAssumption DEF IInv, LockInv, ConfigNext, ConfigStart,
     ConfigStale, ConfigEpoch, ConfigState, ConfigRevoke, ConfigEnd
<1>6. TypeOK'
  <2>1. epoch \in 0 .. MaxEpoch /\ state \in States
    BY DEF IInv, TypeOK, World, Worlds
  <2>2. epoch' \in 0 .. MaxEpoch
    BY <2>1, BoundsAssumption DEF IInv, LockInv, ConfigNext, ConfigStart,
       ConfigStale, ConfigEpoch, ConfigState, ConfigRevoke, ConfigEnd
  <2>3. state' \in States
    BY <2>1 DEF IInv, TypeOK, ConfigNext, ConfigStart,
       ConfigStale, ConfigEpoch, ConfigState, ConfigRevoke, ConfigEnd
  <2>4. World' \in Worlds
    BY <2>2, <2>3 DEF World, Worlds
  <2>5. /\ fence' \in Adapters \cup {"config", Nobody}
        /\ configPc' \in {"idle", "epoch", "state", "revoke", "taint"}
        /\ target' \in [state : States, tainted : BOOLEAN]
        /\ tainted' \in BOOLEAN
    BY DEF IInv, TypeOK, ConfigNext, ConfigStart, ConfigStale, ConfigEpoch,
       ConfigState, ConfigRevoke, ConfigEnd
  <2>6. capStatus' \in [Caps -> {"none", "active", "revoked"}]
    BY DEF IInv, TypeOK, ConfigNext, ConfigStart, ConfigStale, ConfigEpoch,
       ConfigState, ConfigRevoke, ConfigEnd, authority
  <2> QED BY <1>1, <2>4, <2>5, <2>6 DEF IInv, TypeOK
<1> QED BY <1>2, <1>4, <1>5, <1>6 DEF IInv

\* Capabilities, sessions and the clock move under no lock, and no invariant
\* of the commit depends on them.
LEMMA EnvironmentStep ==
  ASSUME IInv, EnvironmentNext
  PROVE  IInv'
<1>1. UNCHANGED <<fence, lock, epoch, state, tainted, configPc, target, leases, commits,
                  ran, contained, mediatorContained, operatorPc, pc, arg>>
  BY DEF EnvironmentNext, AdmitCap, Authorize, RevokeCap, SessionChange, ClockMoves,
     world, containment, broker, threads
<1>2. LeaseInv' /\ RecordInv' /\ ContainmentHolds' /\ LockInv' /\ EffectInLeasedWorld'
  BY <1>1, BrokerFrame DEF IInv, ContainmentHolds, LockInv, EffectInLeasedWorld, World
<1>3. TypeOK'
  <2>1. /\ capStatus' \in [Caps -> {"none", "active", "revoked"}]
        /\ capWorld' \in [Caps -> Worlds]
        /\ decided' \subseteq Caps
    BY DEF IInv, TypeOK, EnvironmentNext, AdmitCap, Authorize, RevokeCap,
       SessionChange, ClockMoves, authority
  <2>2. /\ session' \in 0 .. MaxSession /\ sessionActive' \in BOOLEAN
        /\ clock' \in Times
    BY BoundsAssumption DEF IInv, TypeOK, EnvironmentNext, AdmitCap, Authorize,
       RevokeCap, SessionChange, ClockMoves, session_
  <2> QED BY <1>1, <2>1, <2>2 DEF IInv, TypeOK, World
<1> QED BY <1>2, <1>3 DEF IInv

\* Entering containment waits for _lock, and so for the running callback.
LEMMA OperatorStep ==
  ASSUME IInv, NEW o \in Operators, OperatorNext(o)
  PROVE  IInv'
<1>1. UNCHANGED <<fence, lock, world, authority, session_, broker, threads>>
  BY DEF OperatorNext, EnterStart, EnterEnd, ExitStart, ExitEnd
<1>2. LeaseInv' /\ RecordInv' /\ LockInv' /\ EffectInLeasedWorld'
  BY <1>1, BrokerFrame DEF IInv, LockInv, EffectInLeasedWorld, World, world, broker,
     threads
<1>3. TypeOK'
  <2>1. /\ contained' \in BOOLEAN /\ mediatorContained' \in BOOLEAN
        /\ operatorPc' \in [Operators -> {"idle", "entering", "exiting"}]
    BY DEF IInv, TypeOK, OperatorNext, EnterStart, EnterEnd, ExitStart, ExitEnd
  <2> QED BY <1>1, <2>1 DEF IInv, TypeOK, World, world, authority, session_, broker,
     threads
<1>4. ContainmentHolds'
  <2>1. contained' => \A a \in Adapters : pc'[a] # "callback"
    BY <1>1, NobodyAssumption DEF IInv, LockInv, ContainmentHolds, OperatorNext,
       EnterStart, EnterEnd, ExitStart, ExitEnd, threads
  <2>2. (\A q \in Operators : operatorPc'[q] = "idle") => (mediatorContained' => contained')
    BY DEF IInv, TypeOK, ContainmentHolds, OperatorNext, EnterStart, EnterEnd,
       ExitStart, ExitEnd
  <2> QED BY <2>1, <2>2 DEF ContainmentHolds
<1> QED BY <1>2, <1>3, <1>4 DEF IInv

\* issue_for_trusted_adapter takes _lock ...
LEMMA IssueStartStep ==
  ASSUME IInv, NEW a \in Adapters, NEW c \in Caps, IssueStart(a, c)
  PROVE  IInv'
<1>1. /\ lock = Nobody /\ lock' = a /\ pc[a] = "idle"
      /\ pc' = [pc EXCEPT ![a] = "issuing"]
      /\ UNCHANGED <<fence, epoch, state, tainted, configPc, target, capStatus,
                     capWorld, decided, session, sessionActive, clock, contained,
                     mediatorContained, operatorPc, leases, commits, ran>>
  BY DEF IssueStart, world, authority, session_, containment, broker
<1>2. TypeOK'
  <2>1. epoch \in 0 .. MaxEpoch /\ 0 \in 0 .. MaxLease
    BY BoundsAssumption DEF IInv, TypeOK, World, Worlds
  <2>2. arg' \in [Adapters -> [cap : Caps \cup {NoCap}, lease : 0 .. MaxLease,
                               epoch : 0 .. MaxEpoch, now : Times]]
    BY <2>1 DEF IInv, TypeOK, IssueStart
  <2> QED BY <1>1, <2>2 DEF IInv, TypeOK, World
<1>3. LockInv'
  BY <1>1, NobodyAssumption DEF IInv, LockInv, TypeOK
<1>4. \A b \in Adapters : /\ b # a => pc'[b] = pc[b] /\ arg'[b] = arg[b]
                          /\ pc'[a] = "issuing" /\ arg'[a].cap = c
  BY DEF IInv, TypeOK, IssueStart
<1>5. Issued' = Issued /\ \A l \in LeaseIds :
        (Running(l)' <=> Running(l)) /\ Outcomes(l)' = Outcomes(l)
  BY <1>1, <1>4 DEF Issued, Running, Outcomes
<1>6. LeaseInv'
  <2>1. \A b \in Adapters :
          /\ pc'[b] = "issuing" => arg'[b].cap \in Caps
          /\ pc'[b] \in {"committing", "callback"} => arg'[b].lease \in LeaseIds
    BY <1>4 DEF IInv, LeaseInv
  <2> QED BY <1>5, <2>1 DEF IInv, LeaseInv
<1>7. RecordInv'
  BY <1>1, <1>5 DEF IInv, RecordInv
<1>8. EffectInLeasedWorld' /\ ContainmentHolds'
  BY <1>1, <1>4 DEF IInv, EffectInLeasedWorld, ContainmentHolds, World
<1> QED BY <1>2, <1>3, <1>6, <1>7, <1>8 DEF IInv
\* What issue_for_trusted_adapter is about to enter is a lease.
LEMMA LeaseMade ==
  ASSUME IInv, NEW a \in Adapters, pc[a] = "issuing"
  PROVE  NewLease(a) \in Leases /\ NewLease(a).consumed = FALSE /\ NewLease(a).world \in Worlds
<1>1. /\ arg[a].cap \in Caps /\ arg[a].epoch \in 0 .. MaxEpoch
      /\ arg[a].now \in Times /\ state \in States /\ session \in 0 .. MaxSession
  BY DEF IInv, TypeOK, LeaseInv, World, Worlds
<1>2. arg[a].now + LeaseTTL \in 0 .. MaxTime + LeaseTTL
  BY <1>1, BoundsAssumption DEF Times
<1> QED BY <1>1, <1>2 DEF NewLease, Leases, Worlds


\* ... and enters the lease under a fresh number, or refuses.
LEMMA IssueEndStep ==
  ASSUME IInv, NEW a \in Adapters, IssueEnd(a)
  PROVE  IInv'
<1> DEFINE n == Cardinality(Issued)
<1>1. /\ lock = a /\ lock' = Nobody /\ pc[a] = "issuing"
      /\ UNCHANGED <<fence, epoch, state, tainted, configPc, target, capStatus,
                     capWorld, decided, session, sessionActive, clock, contained,
                     mediatorContained, operatorPc, commits, ran>>
  BY DEF IssueEnd, world, authority, session_, containment, IInv, LockInv
<1>2. \A b \in Adapters : /\ b # a => pc'[b] = pc[b] /\ arg'[b] = arg[b]
                          /\ pc'[a] = "idle" /\ arg'[a] = Idle
  BY DEF IInv, TypeOK, IssueEnd
<1>3. \A b \in Adapters : pc[b] # "callback"
  BY <1>1 DEF IInv, LockInv
<1>4. NewLease(a) \in Leases /\ NewLease(a).consumed = FALSE
  BY <1>1, LeaseMade
<1>5. leases' = leases \/ leases' = [leases EXCEPT ![n + 1] = NewLease(a)]
  BY DEF IssueEnd
<1>6. n \in Nat /\ Issued = 1 .. n /\ n + 1 \notin Issued /\ n <= MaxLease
  <2>1. n \in Nat /\ Issued = 1 .. n /\ n + 1 \notin Issued
    BY FreshLease DEF IInv
  <2>2. n \in 1 .. n => n \in LeaseIds
    BY <2>1 DEF Issued
  <2> QED BY <2>1, <2>2, BoundsAssumption DEF LeaseIds
<1>7. leases' \in [LeaseIds -> Leases \cup {NoLease}]
  BY <1>4, <1>5 DEF IInv, TypeOK
<1>8. TypeOK'
  <2>1. Idle \in [cap : Caps \cup {NoCap}, lease : 0 .. MaxLease,
                  epoch : 0 .. MaxEpoch, now : Times]
    BY BoundsAssumption DEF Idle, Times
  <2>2. /\ pc' \in [Adapters -> {"idle", "issuing", "committing", "callback"}]
        /\ arg' \in [Adapters -> [cap : Caps \cup {NoCap}, lease : 0 .. MaxLease,
                                  epoch : 0 .. MaxEpoch, now : Times]]
    BY <2>1 DEF IInv, TypeOK, IssueEnd
  <2> QED BY <1>1, <1>7, <2>2 DEF IInv, TypeOK, World
<1>9. LockInv'
  BY <1>1, <1>2, NobodyAssumption DEF IInv, LockInv
<1>10. /\ \A l \in Issued : l \in Issued' /\ leases'[l] = leases[l]
       /\ \A l \in Issued' : l \in Issued \/ ~leases'[l].consumed
       /\ \E m \in 0 .. MaxLease : Issued' = 1 .. m
  <2>1. CASE leases' = leases
    BY <2>1 DEF Issued, IInv, LeaseInv
  <2>2. CASE leases' = [leases EXCEPT ![n + 1] = NewLease(a)] /\ n + 1 \in LeaseIds
    <3>1. \A l \in LeaseIds : leases'[l] = IF l = n + 1 THEN NewLease(a) ELSE leases[l]
      BY <2>2 DEF IInv, TypeOK
    <3>2. NewLease(a) # NoLease
      BY <1>4, NoLeaseAssumption
    <3>3. Issued' = Issued \cup {n + 1}
      BY <3>1, <3>2, <2>2, <1>6 DEF Issued
    <3>4. Issued' = 1 .. (n + 1) /\ n + 1 \in 0 .. MaxLease
      BY <3>3, <2>2, <1>6, BoundsAssumption DEF LeaseIds
    <3>5. \A l \in Issued : l \in LeaseIds
      BY DEF Issued
    <3>6. \A l \in Issued : l \in Issued' /\ leases'[l] = leases[l]
      BY <3>1, <3>3, <3>5, <1>6
    <3>7. leases'[n + 1] = NewLease(a)
      BY <3>1, <2>2
    <3>8. \A l \in Issued' : l \in Issued \/ ~leases'[l].consumed
      BY <3>3, <3>7, <1>4
    <3> HIDE DEF n
    <3> QED BY <3>4, <3>6, <3>8
  <2>3. CASE leases' = [leases EXCEPT ![n + 1] = NewLease(a)] /\ n + 1 \notin LeaseIds
    <3>1. leases' = leases
      BY <2>3 DEF IInv, TypeOK
    <3> QED BY <3>1, <2>1
  <2> QED BY <1>5, <2>1, <2>2, <2>3
<1>11. LeaseInv'
  <2>1. \A b \in Adapters :
          /\ pc'[b] = "issuing" => arg'[b].cap \in Caps
          /\ pc'[b] \in {"committing", "callback"} => arg'[b].lease \in LeaseIds
    BY <1>2 DEF IInv, LeaseInv
  <2> QED BY <1>10, <2>1 DEF LeaseInv
<1>12. RecordInv'
  <2>1. \A l \in LeaseIds :
          (Running(l)' <=> Running(l)) /\ Outcomes(l)' = Outcomes(l) /\ ran'[l] = ran[l]
    BY <1>1, <1>2, <1>3 DEF Running, Outcomes
  <2>2. \A l \in LeaseIds : (l \in Issued' /\ leases'[l].consumed)
                              <=> (l \in Issued /\ leases[l].consumed)
    BY <1>10
  <2> QED BY <2>1, <2>2 DEF IInv, RecordInv
<1>13. EffectInLeasedWorld' /\ ContainmentHolds'
  BY <1>1, <1>2, <1>3 DEF IInv, EffectInLeasedWorld, ContainmentHolds
<1> QED BY <1>8, <1>9, <1>11, <1>12, <1>13 DEF IInv

\* _commit takes the fence and remembers the lease it was given ...
LEMMA CommitFenceStep ==
  ASSUME IInv, NEW a \in Adapters, NEW l \in Issued, CommitFence(a, l)
  PROVE  IInv'
<1>1. /\ fence = Nobody /\ fence' = a /\ pc[a] = "idle"
      /\ UNCHANGED <<lock, epoch, state, tainted, configPc, target, capStatus,
                     capWorld, decided, session, sessionActive, clock, contained,
                     mediatorContained, operatorPc, leases, commits, ran>>
  BY DEF CommitFence, world, authority, session_, containment, broker
<1>2. l \in LeaseIds
  BY DEF Issued
<1>3. [Idle EXCEPT !.lease = l] = [cap |-> NoCap, lease |-> l, epoch |-> 0, now |-> 0]
  BY DEF Idle
<1>4. \A b \in Adapters : /\ b # a => pc'[b] = pc[b] /\ arg'[b] = arg[b]
                          /\ pc'[a] = "committing" /\ arg'[a].lease = l
  BY <1>3 DEF IInv, TypeOK, CommitFence
<1>5. TypeOK'
  <2>1. [Idle EXCEPT !.lease = l] \in
            [cap : Caps \cup {NoCap}, lease : 0 .. MaxLease, epoch : 0 .. MaxEpoch, now : Times]
    BY <1>2, <1>3, BoundsAssumption DEF LeaseIds, Times
  <2>2. /\ pc' \in [Adapters -> {"idle", "issuing", "committing", "callback"}]
        /\ arg' \in [Adapters -> [cap : Caps \cup {NoCap}, lease : 0 .. MaxLease,
                                  epoch : 0 .. MaxEpoch, now : Times]]
    BY <2>1 DEF IInv, TypeOK, CommitFence
  <2> QED BY <1>1, <2>2 DEF IInv, TypeOK, World
<1>6. LockInv'
  BY <1>1, <1>4, NobodyAssumption DEF IInv, LockInv
<1>7. Issued' = Issued /\ \A m \in LeaseIds :
        (Running(m)' <=> Running(m)) /\ Outcomes(m)' = Outcomes(m)
  BY <1>1, <1>4 DEF Issued, Running, Outcomes
<1>8. LeaseInv'
  <2>1. \A b \in Adapters :
          /\ pc'[b] = "issuing" => arg'[b].cap \in Caps
          /\ pc'[b] \in {"committing", "callback"} => arg'[b].lease \in LeaseIds
    BY <1>2, <1>4 DEF IInv, LeaseInv
  <2> QED BY <1>7, <2>1 DEF IInv, LeaseInv
<1>9. RecordInv'
  BY <1>1, <1>7 DEF IInv, RecordInv
<1>10. EffectInLeasedWorld' /\ ContainmentHolds'
  BY <1>1, <1>4 DEF IInv, EffectInLeasedWorld, ContainmentHolds, World
<1> QED BY <1>5, <1>6, <1>8, <1>9, <1>10 DEF IInv

\* ... releases it when a check fails ...
LEMMA CommitRefusedStep ==
  ASSUME IInv, NEW a \in Adapters, CommitRefused(a)
  PROVE  IInv'
<1>1. /\ fence = a /\ fence' = Nobody /\ pc[a] = "committing"
      /\ UNCHANGED <<lock, epoch, state, tainted, configPc, target, capStatus,
                     capWorld, decided, session, sessionActive, clock, contained,
                     mediatorContained, operatorPc, leases, commits, ran>>
  BY DEF CommitRefused, world, authority, session_, containment, broker, IInv, LockInv
<1>2. \A b \in Adapters : /\ b # a => pc'[b] = pc[b] /\ arg'[b] = arg[b]
                          /\ pc'[a] = "idle" /\ arg'[a] = Idle
  BY DEF IInv, TypeOK, CommitRefused
<1>3. TypeOK'
  <2>1. Idle \in [cap : Caps \cup {NoCap}, lease : 0 .. MaxLease,
                  epoch : 0 .. MaxEpoch, now : Times]
    BY BoundsAssumption DEF Idle, Times
  <2>2. /\ pc' \in [Adapters -> {"idle", "issuing", "committing", "callback"}]
        /\ arg' \in [Adapters -> [cap : Caps \cup {NoCap}, lease : 0 .. MaxLease,
                                  epoch : 0 .. MaxEpoch, now : Times]]
    BY <2>1 DEF IInv, TypeOK, CommitRefused
  <2> QED BY <1>1, <2>2 DEF IInv, TypeOK, World
<1>4. LockInv'
  BY <1>1, <1>2, NobodyAssumption DEF IInv, LockInv
<1>5. Issued' = Issued /\ \A m \in LeaseIds :
        (Running(m)' <=> Running(m)) /\ Outcomes(m)' = Outcomes(m)
  BY <1>1, <1>2 DEF Issued, Running, Outcomes
<1>6. LeaseInv'
  <2>1. \A b \in Adapters :
          /\ pc'[b] = "issuing" => arg'[b].cap \in Caps
          /\ pc'[b] \in {"committing", "callback"} => arg'[b].lease \in LeaseIds
    BY <1>2 DEF IInv, LeaseInv
  <2> QED BY <1>5, <2>1 DEF IInv, LeaseInv
<1>7. RecordInv'
  BY <1>1, <1>5 DEF IInv, RecordInv
<1>8. EffectInLeasedWorld' /\ ContainmentHolds'
  BY <1>1, <1>2 DEF IInv, EffectInLeasedWorld, ContainmentHolds, World
<1> QED BY <1>3, <1>4, <1>6, <1>7, <1>8 DEF IInv

\* ... or burns the lease and starts the callback in the world it re-checked ...
LEMMA CommitStartStep ==
  ASSUME IInv, NEW a \in Adapters, CommitStart(a)
  PROVE  IInv'
<1> DEFINE l == arg[a].lease
<1>1. /\ fence = a /\ lock = Nobody /\ lock' = a /\ pc[a] = "committing"
      /\ l \in Issued /\ MayCommit(l)
      /\ UNCHANGED <<fence, epoch, state, tainted, configPc, target, capStatus,
                     capWorld, decided, session, sessionActive, clock, contained,
                     mediatorContained, operatorPc, commits, arg>>
  BY DEF CommitStart, world, authority, session_, containment, IInv, LockInv
<1>2. l \in LeaseIds /\ leases[l] \in Leases
  BY <1>1, IssuedLease DEF IInv
<1>3. \A b \in Adapters : /\ b # a => pc'[b] = pc[b]
                          /\ pc'[a] = "callback"
                          /\ pc[b] \notin {"issuing", "callback"}
  BY <1>1, NobodyAssumption DEF IInv, TypeOK, LockInv, CommitStart
<1>4. /\ leases' \in [LeaseIds -> Leases \cup {NoLease}]
      /\ leases'[l].consumed = TRUE /\ leases'[l].world = leases[l].world
      /\ leases'[l] \in Leases
      /\ \A m \in LeaseIds : m # l => leases'[m] = leases[m]
  BY <1>2 DEF IInv, TypeOK, CommitStart, Leases
<1>5. Issued' = Issued
  BY <1>1, <1>2, <1>4, NoLeaseAssumption DEF Issued
<1>6. /\ ran' \in [LeaseIds -> Nat] /\ ran'[l] = ran[l] + 1
      /\ \A m \in LeaseIds : m # l => ran'[m] = ran[m]
  BY <1>2 DEF IInv, TypeOK, CommitStart
<1>7. TypeOK'
  <2>1. pc' \in [Adapters -> {"idle", "issuing", "committing", "callback"}]
    BY DEF IInv, TypeOK, CommitStart
  <2> QED BY <1>1, <1>4, <1>6, <2>1 DEF IInv, TypeOK, World
<1>8. LockInv'
  BY <1>1, <1>3, NobodyAssumption DEF IInv, LockInv
<1>9. LeaseInv'
  <2>1. \A b \in Adapters :
          /\ pc'[b] = "issuing" => arg'[b].cap \in Caps
          /\ pc'[b] \in {"committing", "callback"} => arg'[b].lease \in LeaseIds
    BY <1>1, <1>2, <1>3 DEF IInv, LeaseInv
  <2> QED BY <1>5, <2>1 DEF IInv, LeaseInv
<1>10. RecordInv'
  <2>1. ~leases[l].consumed
    BY <1>1 DEF MayCommit
  <2>2. ran[l] = 0 /\ Outcomes(l) = {}
    BY <2>1, <1>2 DEF IInv, RecordInv
  <2>3. \A m \in LeaseIds : ~Running(m) /\ (Running(m)' <=> m = l)
                             /\ Outcomes(m)' = Outcomes(m)
    BY <1>1, <1>3 DEF Running, Outcomes
  <2> SUFFICES ASSUME NEW m \in LeaseIds
               PROVE  /\ ran'[m] = IF m \in Issued' /\ leases'[m].consumed THEN 1 ELSE 0
                      /\ Running(m)' => ran'[m] = 1
                      /\ Running(m)' \/ ran'[m] = 0 => Outcomes(m)' = {}
                      /\ ran'[m] = 1 /\ ~Running(m)' => \E o : Outcomes(m)' = {o}
    BY DEF RecordInv
  <2>4. CASE m = l
    <3>1. ran'[m] = 1 /\ m \in Issued' /\ leases'[m].consumed = TRUE
      BY <2>4, <2>2, <1>1, <1>4, <1>5, <1>6
    <3>2. Running(m)' /\ Outcomes(m)' = {}
      BY <2>2, <2>3, <2>4
    <3> QED BY <3>1, <3>2
  <2>5. CASE m # l
    <3>1. ran'[m] = ran[m] /\ leases'[m] = leases[m] /\ ~Running(m)' /\ ~Running(m)
      BY <2>5, <2>3, <1>4, <1>6
    <3>2. /\ ran[m] = IF m \in Issued /\ leases[m].consumed THEN 1 ELSE 0
          /\ Running(m) \/ ran[m] = 0 => Outcomes(m) = {}
          /\ ran[m] = 1 /\ ~Running(m) => \E o : Outcomes(m) = {o}
      BY DEF IInv, RecordInv
    <3>3. Outcomes(m)' = Outcomes(m)
      BY <2>3
    <3> QED BY <3>1, <3>2, <3>3, <1>5
  <2> QED BY <2>4, <2>5
<1>11. EffectInLeasedWorld'
  <2>1. ~tainted /\ leases[l].world = World
    BY <1>1 DEF MayCommit
  <2>2. ~tainted' /\ leases'[arg'[a].lease].world = World'
    BY <2>1, <1>1, <1>4 DEF World
  <2> QED BY <2>2, <1>3 DEF EffectInLeasedWorld
<1>12. ContainmentHolds'
  BY <1>1 DEF MayCommit, IInv, ContainmentHolds
<1> QED BY <1>7, <1>8, <1>9, <1>10, <1>11, <1>12 DEF IInv

\* ... and appends the receipt when the callback has returned or raised.
LEMMA CallbackEndStep ==
  ASSUME IInv, NEW a \in Adapters, NEW outcome \in {"SUCCEEDED", "FAILED"},
         CallbackEnd(a, outcome)
  PROVE  IInv'
<1>0. PICK l : l = arg[a].lease
  OBVIOUS
<1>1. /\ fence = a /\ lock = a /\ fence' = Nobody /\ lock' = Nobody
      /\ pc[a] = "callback" /\ configPc = "idle"
      /\ UNCHANGED <<epoch, state, tainted, configPc, target, capStatus,
                     capWorld, decided, session, sessionActive, clock, contained,
                     mediatorContained, operatorPc, leases, ran>>
  BY NobodyAssumption DEF CallbackEnd, world, authority, session_, containment, IInv, LockInv
<1>2. l \in LeaseIds
  BY <1>0, <1>1 DEF IInv, LeaseInv
<1>3. \A b \in Adapters : /\ b # a => pc'[b] = pc[b] /\ arg'[b] = arg[b]
                                       /\ pc[b] # "callback" /\ pc[b] # "issuing"
                                       /\ pc[b] # "committing"
                          /\ pc'[a] = "idle" /\ arg'[a] = Idle
  BY <1>1 DEF IInv, TypeOK, LockInv, CallbackEnd
<1>4. TypeOK'
  <2>1. Idle \in [cap : Caps \cup {NoCap}, lease : 0 .. MaxLease,
                  epoch : 0 .. MaxEpoch, now : Times]
    BY BoundsAssumption DEF Idle, Times
  <2>2. /\ pc' \in [Adapters -> {"idle", "issuing", "committing", "callback"}]
        /\ arg' \in [Adapters -> [cap : Caps \cup {NoCap}, lease : 0 .. MaxLease,
                                  epoch : 0 .. MaxEpoch, now : Times]]
    BY <2>1 DEF IInv, TypeOK, CallbackEnd
  <2>3. commits' \subseteq LeaseIds \X {"SUCCEEDED", "FAILED"}
    BY <1>0, <1>2 DEF IInv, TypeOK, CallbackEnd
  <2> QED BY <1>1, <2>2, <2>3 DEF IInv, TypeOK, World
<1>5. LockInv'
  BY <1>1, <1>3 DEF IInv, LockInv
<1>6. Issued' = Issued
  BY <1>1 DEF Issued
<1>7. LeaseInv'
  BY <1>3, <1>6 DEF IInv, LeaseInv
<1>8. RecordInv'
  <2>1. \A m \in LeaseIds : ~Running(m)' /\ (Running(m) <=> m = l)
    BY <1>0, <1>1, <1>3 DEF Running
  <2>2. ran[l] = 1 /\ Outcomes(l) = {}
    BY <2>1, <1>2 DEF IInv, RecordInv
  <2>3. Outcomes(l)' = {outcome}
    <3>1. commits' = commits \cup {<<l, outcome>>}
      BY <1>0 DEF CallbackEnd
    <3>2. \A o \in {"SUCCEEDED", "FAILED"} : <<l, o>> \notin commits
      BY <2>2 DEF Outcomes
    <3>3. \A o \in {"SUCCEEDED", "FAILED"} : <<l, o>> \in commits' <=> o = outcome
      BY <3>1, <3>2
    <3>4. Outcomes(l)' = {o \in {"SUCCEEDED", "FAILED"} : <<l, o>> \in commits'}
      BY DEF Outcomes
    <3> QED BY <3>3, <3>4
  <2>4. \A m \in LeaseIds : m # l => Outcomes(m)' = Outcomes(m)
    BY <1>0 DEF Outcomes, CallbackEnd
  <2> SUFFICES ASSUME NEW m \in LeaseIds
               PROVE  /\ ran'[m] = IF m \in Issued' /\ leases'[m].consumed THEN 1 ELSE 0
                      /\ Running(m)' => ran'[m] = 1
                      /\ Running(m)' \/ ran'[m] = 0 => Outcomes(m)' = {}
                      /\ ran'[m] = 1 /\ ~Running(m)' => \E o : Outcomes(m)' = {o}
    BY DEF RecordInv
  <2>5. ran'[m] = ran[m] /\ leases'[m] = leases[m]
    BY <1>1
  <2>6. /\ ran[m] = IF m \in Issued /\ leases[m].consumed THEN 1 ELSE 0
        /\ Running(m) \/ ran[m] = 0 => Outcomes(m) = {}
        /\ ran[m] = 1 /\ ~Running(m) => \E o : Outcomes(m) = {o}
    BY DEF IInv, RecordInv
  <2>7. CASE m = l
    <3>1. ran[m] = 1 /\ Outcomes(m)' = {outcome} /\ ~Running(m)'
      BY <2>1, <2>2, <2>3, <2>7
    <3> QED BY <3>1, <2>5, <2>6, <1>6
  <2>8. CASE m # l
    <3>1. Outcomes(m)' = Outcomes(m) /\ ~Running(m)' /\ ~Running(m)
      BY <2>1, <2>4, <2>8
    <3> QED BY <3>1, <2>5, <2>6, <1>6
  <2> QED BY <2>7, <2>8
<1>9. EffectInLeasedWorld' /\ ContainmentHolds'
  BY <1>1, <1>3 DEF IInv, EffectInLeasedWorld, ContainmentHolds
<1> QED BY <1>4, <1>5, <1>7, <1>8, <1>9 DEF IInv

LEMMA StepInv == IInv /\ [Next]_vars => IInv'
<1> SUFFICES ASSUME IInv, [Next]_vars PROVE IInv'
  OBVIOUS
<1>1. CASE ConfigNext
  BY <1>1, ConfigStep
<1>2. CASE EnvironmentNext
  BY <1>2, EnvironmentStep
<1>3. ASSUME NEW a \in Adapters, AdapterNext(a) PROVE IInv'
  BY <1>3, IssueStartStep, IssueEndStep, CommitFenceStep, CommitRefusedStep,
     CommitStartStep, CallbackEndStep DEF AdapterNext
<1>4. ASSUME NEW o \in Operators, OperatorNext(o) PROVE IInv'
  BY <1>4, OperatorStep
<1>5. CASE UNCHANGED vars
  <2>1. LeaseInv' /\ RecordInv'
    BY <1>5, BrokerFrame DEF vars
  <2>2. TypeOK' /\ LockInv' /\ EffectInLeasedWorld' /\ ContainmentHolds'
    BY <1>5 DEF vars, IInv, TypeOK, LockInv, EffectInLeasedWorld, ContainmentHolds, World
  <2> QED BY <2>1, <2>2 DEF IInv
<1> QED BY <1>1, <1>2, <1>3, <1>4, <1>5 DEF Next

LEMMA Inductive == Spec => []IInv
  BY InitInv, StepInv, PTL DEF Spec

-----------------------------------------------------------------------------
(* Theorems *)

\* The state of the broker, its locks and its environment stays typed.
THEOREM TypeCorrect == Spec => []TypeOK
  BY Inductive, PTL DEF IInv

\* "an effect authorized in runtime world (N,S) cannot be committed after that
\* world has changed": for every number of threads, a callback runs in exactly
\* the untainted world its lease was issued for.
THEOREM EffectsInTheirWorld == Spec => []EffectInLeasedWorld
  BY Inductive, PTL DEF IInv

\* However many threads present a lease and whatever its callback does, the
\* callback starts at most once and leaves exactly one receipt.
THEOREM OneEffectOneReceipt == Spec => []EffectsOnceOnRecord
  BY Inductive, RecordCounts, PTL

\* No callback runs in a contained broker, and once no operator is between the
\* two flags a contained mediator has a contained broker behind it.
THEOREM ContainmentIsReal == Spec => []ContainmentHolds
  BY Inductive, PTL DEF IInv

-----------------------------------------------------------------------------
(* The refinement of SerialEffects *)

\* A lease is issued only while the broker is not contained: entering waits for _lock.
IssueGate == \A a \in Adapters : pc[a] = "issuing" => ~contained

LEMMA GateStep ==
  ASSUME IInv, IssueGate, [Next]_vars
  PROVE  IssueGate'
<1> SUFFICES ASSUME NEW a \in Adapters, pc'[a] = "issuing" PROVE ~contained'
  BY DEF IssueGate
<1>1. pc \in [Adapters -> {"idle", "issuing", "committing", "callback"}]
  BY DEF IInv, TypeOK
<1>2. pc[a] = "issuing" => lock = a /\ lock # Nobody /\ ~contained
  BY NobodyAssumption DEF IInv, LockInv, IssueGate
<1>3. CASE ConfigNext \/ EnvironmentNext \/ UNCHANGED vars
  BY <1>2, <1>3 DEF ConfigNext, ConfigStart, ConfigStale, ConfigEpoch, ConfigState,
     ConfigRevoke, ConfigEnd, EnvironmentNext, AdmitCap, Authorize, RevokeCap, SessionChange,
     ClockMoves, threads, containment, vars
<1>4. ASSUME NEW b \in Adapters, AdapterNext(b) PROVE ~contained'
  <2>1. UNCHANGED contained
    BY <1>4 DEF AdapterNext, IssueStart, IssueEnd, CommitFence, CommitRefused, CommitStart,
       CallbackEnd, containment
  <2>2. CASE \E c \in Caps : IssueStart(b, c)
    BY <1>1, <2>1, <2>2 DEF IssueStart
  <2>3. CASE ~\E c \in Caps : IssueStart(b, c)
    <3>1. pc[a] = "issuing"
      BY <1>1, <1>4, <2>3 DEF AdapterNext, IssueEnd, CommitFence, CommitRefused, CommitStart,
         CallbackEnd
    <3> QED BY <1>2, <2>1, <3>1
  <2> QED BY <2>2, <2>3
<1>5. ASSUME NEW o \in Operators, OperatorNext(o) PROVE ~contained'
  <2>1. UNCHANGED pc
    BY <1>5 DEF OperatorNext, EnterStart, EnterEnd, ExitStart, ExitEnd, threads
  <2> QED BY <1>2, <1>5, <2>1 DEF OperatorNext, EnterStart, EnterEnd, ExitStart, ExitEnd
<1> QED BY <1>3, <1>4, <1>5 DEF Next

\* What the progress of a lease says.
LEMMA ProgressCases ==
  ASSUME IInv, NEW l \in LeaseIds
  PROVE  /\ Progress(l) = "none" <=> l \notin Issued
         /\ l \in Issued /\ ~leases[l].consumed => Progress(l) = "granted"
         /\ Progress(l) = "running" <=> Running(l)
<1>1. \A o \in {"SUCCEEDED", "FAILED"} : o \in Outcomes(l) <=> <<l, o>> \in commits
  BY DEF Outcomes
<1>2. /\ ran[l] = IF l \in Issued /\ leases[l].consumed THEN 1 ELSE 0
      /\ Running(l) => ran[l] = 1
      /\ Running(l) \/ ran[l] = 0 => Outcomes(l) = {}
      /\ ran[l] = 1 /\ ~Running(l) => \E o : Outcomes(l) = {o}
  BY DEF IInv, RecordInv
<1>3. l \in Issued <=> leases[l] # NoLease
  BY DEF Issued
<1>4. CASE l \notin Issued
  <2>1. Progress(l) = "none" /\ ran[l] = 0
    BY <1>2, <1>3, <1>4 DEF Progress
  <2> QED BY <1>2, <1>4, <2>1
<1>5. CASE l \in Issued /\ ~leases[l].consumed
  <2>1. ran[l] = 0 /\ Outcomes(l) = {}
    BY <1>2, <1>5
  <2>2. Progress(l) = "granted"
    BY <1>1, <1>3, <1>5, <2>1 DEF Progress
  <2> QED BY <1>2, <1>5, <2>1, <2>2
<1>6. CASE l \in Issued /\ leases[l].consumed /\ Running(l)
  <2>1. Outcomes(l) = {}
    BY <1>2, <1>6
  <2>2. Progress(l) = "running"
    BY <1>1, <1>3, <1>6, <2>1 DEF Progress
  <2> QED BY <1>6, <2>2
<1>7. CASE l \in Issued /\ leases[l].consumed /\ ~Running(l)
  <2>1. PICK o : Outcomes(l) = {o}
    BY <1>2, <1>7
  <2>2. o \in {"SUCCEEDED", "FAILED"}
    BY <2>1 DEF Outcomes
  <2>3. Progress(l) \in {"SUCCEEDED", "FAILED"}
    BY <1>1, <1>3, <1>7, <2>1, <2>2 DEF Progress
  <2> QED BY <1>7, <2>3
<1> QED BY <1>4, <1>5, <1>6, <1>7

\* While one of the locks is not an adapter's in its callback, no effect runs.
LEMMA NoneRuns ==
  ASSUME IInv, \/ fence \in {Nobody, "config"}
               \/ lock = Nobody
               \/ \E a \in Adapters : pc[a] \in {"issuing", "committing"}
  PROVE  Serial!Quiet
<1> SUFFICES ASSUME NEW l \in LeaseIds, Running(l) PROVE FALSE
  BY ProgressCases DEF Serial!Quiet
<1>1. PICK b \in Adapters : pc[b] = "callback"
  BY DEF Running
<1>2. fence = b /\ lock = b
  BY <1>1 DEF IInv, LockInv
<1> QED BY <1>1, <1>2, NobodyAssumption DEF IInv, LockInv

\* A step that leaves leases, receipts, world and gate alone is no step above.
LEMMA SerialFrame ==
  ASSUME UNCHANGED <<leases, commits, epoch, state, tainted, contained>>
  PROVE  UNCHANGED Serial!vars
<1>1. UNCHANGED World
  BY DEF World
<1>2. \A l \in LeaseIds : Progress(l)' = Progress(l)
  BY DEF Progress
<1> QED BY <1>1, <1>2 DEF Serial!vars

\* Configuration: each of its writes finds no effect running.
LEMMA SerialConfig ==
  ASSUME IInv, IInv', ConfigNext
  PROVE  Serial!Next \/ UNCHANGED Serial!vars
<1>1. UNCHANGED <<leases, commits, contained>>
  BY DEF ConfigNext, ConfigStart, ConfigStale, ConfigEpoch, ConfigState, ConfigRevoke,
     ConfigEnd, containment, broker
<1>2. fence \in {Nobody, "config"}
  BY DEF IInv, LockInv, ConfigNext, ConfigStart, ConfigStale, ConfigEpoch, ConfigState,
     ConfigRevoke, ConfigEnd
<1>3. Serial!Quiet
  BY <1>2, NoneRuns
<1>4. World' \in Worlds /\ tainted' \in BOOLEAN
  BY DEF IInv, TypeOK
<1>5. \A l \in LeaseIds : Progress(l)' = Progress(l)
  BY <1>1 DEF Progress
<1>6. Serial!Reconfigure
  BY <1>1, <1>3, <1>4, <1>5 DEF Serial!Reconfigure
<1> QED BY <1>6 DEF Serial!Next

\* Containment waits for _lock.
LEMMA SerialOperator ==
  ASSUME IInv, IInv', NEW o \in Operators, OperatorNext(o)
  PROVE  Serial!Next \/ UNCHANGED Serial!vars
<1>1. UNCHANGED <<leases, commits, epoch, state, tainted>>
  BY DEF OperatorNext, EnterStart, EnterEnd, ExitStart, ExitEnd, world, broker
<1>2. CASE UNCHANGED contained
  BY <1>1, <1>2, SerialFrame
<1>3. CASE lock = Nobody
  <2>1. Serial!Quiet
    BY <1>3, NoneRuns
  <2>2. contained' \in BOOLEAN
    BY DEF IInv, TypeOK
  <2>3. UNCHANGED World
    BY <1>1 DEF World
  <2>4. \A l \in LeaseIds : Progress(l)' = Progress(l)
    BY <1>1 DEF Progress
  <2>5. Serial!Contain
    BY <1>1, <2>1, <2>2, <2>3, <2>4 DEF Serial!Contain
  <2> QED BY <2>5 DEF Serial!Next
<1> QED BY <1>2, <1>3 DEF OperatorNext, EnterStart, EnterEnd, ExitStart, ExitEnd

\* issue_for_trusted_adapter: a grant, or nothing.
LEMMA SerialIssue ==
  ASSUME IInv, IssueGate, NEW a \in Adapters, IssueEnd(a)
  PROVE  Serial!Next \/ UNCHANGED Serial!vars
<1> PICK l : l = Cardinality(Issued) + 1
  OBVIOUS
<1> PICK n : n = NewLease(a)
  OBVIOUS
<1> DEFINE P == [i \in LeaseIds |-> Progress(i)]
           G == [i \in LeaseIds |-> IF leases[i] = NoLease THEN NoLease ELSE leases[i].world]
<1>1. UNCHANGED <<commits, epoch, state, tainted, contained>> /\ pc[a] = "issuing"
  BY DEF IssueEnd, world, containment
<1>2. CASE leases' = leases
  BY <1>1, <1>2, SerialFrame
<1>3. CASE MayIssue(a) /\ leases' = [leases EXCEPT ![l] = n]
  <2>1. l \notin Issued
    BY FreshLease DEF IInv
  <2>2. leases \in [LeaseIds -> Leases \cup {NoLease}]
    BY DEF IInv, TypeOK
  <2>3. n \in Leases /\ n.consumed = FALSE /\ n.world \in Worlds /\ n # NoLease
    BY <1>1, LeaseMade, NoLeaseAssumption
  <2>4. CASE l \notin LeaseIds
    <3>1. leases' = leases
      BY <1>3, <2>2, <2>4
    <3> QED BY <1>2, <3>1
  <2>5. CASE l \in LeaseIds
    <3>1. \A i \in LeaseIds : leases'[i] = IF i = l THEN n ELSE leases[i]
      BY <1>3, <2>2
    <3>2. Progress(l) = "none"
      BY <2>1, <2>5, ProgressCases
    <3>3. Progress(l)' = "granted"
      <4>1. ran[l] = 0 /\ Outcomes(l) = {}
        BY <2>1, <2>5 DEF IInv, RecordInv
      <4>2. <<l, "SUCCEEDED">> \notin commits' /\ <<l, "FAILED">> \notin commits'
        BY <1>1, <4>1 DEF Outcomes
      <4>3. leases'[l] = n
        BY <2>5, <3>1
      <4> QED BY <2>3, <4>2, <4>3 DEF Progress
    <3>4. \A i \in LeaseIds : i # l => Progress(i)' = Progress(i)
      BY <1>1, <3>1 DEF Progress
    <3>5. P' = [P EXCEPT ![l] = "granted"] /\ P[l] = "none"
      <4>1. P' = [i \in LeaseIds |-> IF i = l THEN "granted" ELSE Progress(i)]
        BY <2>5, <3>3, <3>4
      <4> QED BY <2>5, <3>2, <4>1
    <3>6. G' = [G EXCEPT ![l] = n.world]
      BY <2>3, <2>5, <3>1
    <3>7. Serial!Quiet
      BY <1>1, NoneRuns
    <3>8. ~contained /\ ~tainted
      BY <1>1, <1>3 DEF IssueGate, MayIssue
    <3>9. UNCHANGED World
      BY <1>1 DEF World
    <3>10. Serial!Grant(l)
      BY <1>1, <2>3, <3>5, <3>6, <3>7, <3>8, <3>9 DEF Serial!Grant
    <3>11. \E i \in LeaseIds : Serial!Grant(i)
      BY <2>5, <3>10
    <3> QED BY <3>11 DEF Serial!Next
  <2> QED BY <2>4, <2>5
<1> QED BY <1>2, <1>3 DEF IssueEnd

\* _commit starts the callback of a lease: an effect begins.
LEMMA SerialBegin ==
  ASSUME IInv, IInv', NEW a \in Adapters, CommitStart(a)
  PROVE  Serial!Next
<1> PICK l : l = arg[a].lease
  OBVIOUS
<1> DEFINE P == [i \in LeaseIds |-> Progress(i)]
           G == [i \in LeaseIds |-> IF leases[i] = NoLease THEN NoLease ELSE leases[i].world]
<1>1. /\ UNCHANGED <<commits, epoch, state, tainted, contained, arg>> /\ pc[a] = "committing"
      /\ l \in Issued /\ MayCommit(l) /\ leases' = [leases EXCEPT ![l].consumed = TRUE]
      /\ pc' = [pc EXCEPT ![a] = "callback"]
  BY DEF CommitStart, world, containment
<1>2. l \in LeaseIds /\ leases[l] \in Leases
  BY <1>1, IssuedLease DEF IInv
<1>3. leases \in [LeaseIds -> Leases \cup {NoLease}]
  BY DEF IInv, TypeOK
<1>4. Running(l)'
  BY <1>1 DEF IInv, TypeOK, Running
<1>5. /\ \A i \in LeaseIds : i # l => leases'[i] = leases[i]
      /\ leases'[l] = [leases[l] EXCEPT !.consumed = TRUE]
  BY <1>1, <1>2, <1>3
<1>6. leases'[l].world = leases[l].world /\ leases'[l] \in Leases
  BY <1>2, <1>5 DEF Leases
<1>7. leases'[l] # NoLease /\ leases[l] # NoLease
  BY <1>2, <1>6, NoLeaseAssumption
<1>8. Progress(l) = "granted"
  BY <1>1, <1>2, ProgressCases DEF MayCommit
<1>9. Progress(l)' = "running"
  <2>1. ran[l] = 0 /\ Outcomes(l) = {}
    BY <1>1, <1>2 DEF IInv, RecordInv, MayCommit
  <2>2. <<l, "SUCCEEDED">> \notin commits' /\ <<l, "FAILED">> \notin commits'
    BY <1>1, <2>1 DEF Outcomes
  <2>3. leases'[l].consumed
    BY <1>2, <1>5 DEF Leases
  <2> QED BY <1>7, <2>2, <2>3 DEF Progress
<1>10. \A i \in LeaseIds : i # l => Progress(i)' = Progress(i)
  BY <1>1, <1>5 DEF Progress
<1>11. P' = [P EXCEPT ![l] = "running"] /\ P[l] = "granted"
  <2>1. P' = [i \in LeaseIds |-> IF i = l THEN "running" ELSE Progress(i)]
    BY <1>2, <1>9, <1>10
  <2> QED BY <1>2, <1>8, <2>1
<1>12. G' = G /\ G[l] = leases[l].world
  BY <1>2, <1>5, <1>6, <1>7
<1>13. Serial!Quiet
  BY <1>1, NoneRuns
<1>14. UNCHANGED World /\ ~contained /\ ~tainted /\ leases[l].world = World
  BY <1>1 DEF World, MayCommit
<1>15. Serial!Begin(l)
  BY <1>1, <1>11, <1>12, <1>13, <1>14 DEF Serial!Begin
<1>16. \E i \in LeaseIds : Serial!Begin(i)
  BY <1>2, <1>15
<1> QED BY <1>16 DEF Serial!Next

\* The callback returns or raises: the effect ends with one outcome.
LEMMA SerialEnd ==
  ASSUME IInv, NEW a \in Adapters, NEW outcome \in {"SUCCEEDED", "FAILED"}, CallbackEnd(a, outcome)
  PROVE  Serial!Next
<1> PICK l : l = arg[a].lease
  OBVIOUS
<1> DEFINE P == [i \in LeaseIds |-> Progress(i)]
<1>1. /\ UNCHANGED <<leases, epoch, state, tainted, contained>> /\ pc[a] = "callback"
      /\ commits' = commits \cup {<<l, outcome>>}
  BY DEF CallbackEnd, world, containment
<1>2. l \in LeaseIds /\ Running(l)
  BY <1>1 DEF IInv, LeaseInv, Running
<1>3. Progress(l) = "running" /\ l \in Issued
  BY <1>2, ProgressCases
<1>4. leases[l] # NoLease
  BY <1>3 DEF Issued
<1>5. <<l, "SUCCEEDED">> \notin commits /\ <<l, "FAILED">> \notin commits
  BY <1>2 DEF IInv, RecordInv, Outcomes
<1>6. Progress(l)' = outcome
  BY <1>1, <1>4, <1>5 DEF Progress
<1>7. \A i \in LeaseIds : i # l => Progress(i)' = Progress(i)
  <2>1. \A i \in LeaseIds, o \in {"SUCCEEDED", "FAILED"} :
           i # l => (<<i, o>> \in commits' <=> <<i, o>> \in commits)
    BY <1>1
  <2> QED BY <1>1, <2>1 DEF Progress
<1>8. P' = [P EXCEPT ![l] = outcome] /\ P[l] = "running"
  <2>1. P' = [i \in LeaseIds |-> IF i = l THEN outcome ELSE Progress(i)]
    BY <1>2, <1>6, <1>7
  <2> QED BY <1>2, <1>3, <2>1
<1>9. UNCHANGED World
  BY <1>1 DEF World
<1>10. Serial!End(l, outcome)
  BY <1>1, <1>8, <1>9 DEF Serial!End
<1>11. \E i \in LeaseIds, o \in {"SUCCEEDED", "FAILED"} : Serial!End(i, o)
  BY <1>2, <1>10
<1> QED BY <1>11 DEF Serial!Next

(***************************************************************************)
(* Whatever the threads do under the two locks and beside them, the broker *)
(* implements SerialEffects: every step is one of its steps or changes     *)
(* nothing there. An effect is atomic to configuration and containment:    *)
(* it begins in the world it was granted for and nothing moves until its   *)
(* receipt is there.                                                       *)
(***************************************************************************)
THEOREM EffectsAreSerial == Spec => ImplementsSerial
<1>1. Init => IssueGate /\ Serial!Init
  <2> SUFFICES ASSUME Init PROVE IssueGate /\ Serial!Init
    OBVIOUS
  <2>1. IssueGate
    BY DEF Init, IssueGate
  <2>2. World \in Worlds
    BY InitInv DEF IInv, TypeOK
  <2>3. \A l \in LeaseIds : leases[l] = NoLease /\ Progress(l) = "none"
    BY DEF Init, Progress
  <2> QED BY <2>1, <2>2, <2>3 DEF Init, Serial!Init
<1>2. IInv /\ IssueGate /\ [Next]_vars => IssueGate'
  BY GateStep
<1>3. IInv /\ IssueGate /\ IInv' /\ [Next]_vars => [Serial!Next]_(Serial!vars)
  <2> SUFFICES ASSUME IInv, IssueGate, IInv', [Next]_vars
               PROVE  Serial!Next \/ UNCHANGED Serial!vars
    OBVIOUS
  <2>1. CASE ConfigNext
    BY <2>1, SerialConfig
  <2>2. CASE EnvironmentNext \/ UNCHANGED vars
    <3>1. UNCHANGED <<leases, commits, epoch, state, tainted, contained>>
      BY <2>2 DEF EnvironmentNext, AdmitCap, Authorize, RevokeCap, SessionChange, ClockMoves,
         world, containment, broker, vars
    <3> QED BY <3>1, SerialFrame
  <2>3. ASSUME NEW a \in Adapters, AdapterNext(a) PROVE Serial!Next \/ UNCHANGED Serial!vars
    <3>1. CASE \/ \E c \in Caps : IssueStart(a, c)
               \/ \E l \in Issued : CommitFence(a, l)
               \/ CommitRefused(a)
      <4>1. UNCHANGED <<leases, commits, epoch, state, tainted, contained>>
        BY <3>1 DEF IssueStart, CommitFence, CommitRefused, world, containment, broker
      <4> QED BY <4>1, SerialFrame
    <3>2. CASE IssueEnd(a)
      BY <3>2, SerialIssue
    <3>3. CASE CommitStart(a)
      BY <3>3, SerialBegin
    <3>4. CASE \E outcome \in {"SUCCEEDED", "FAILED"} : CallbackEnd(a, outcome)
      BY <3>4, SerialEnd
    <3> QED BY <2>3, <3>1, <3>2, <3>3, <3>4 DEF AdapterNext
  <2>4. ASSUME NEW o \in Operators, OperatorNext(o) PROVE Serial!Next \/ UNCHANGED Serial!vars
    BY <2>4, SerialOperator
  <2> QED BY <2>1, <2>2, <2>3, <2>4 DEF Next
<1> QED BY <1>1, <1>2, <1>3, Inductive, PTL DEF Spec, ImplementsSerial, Serial!Spec

=============================================================================
