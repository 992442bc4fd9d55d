------------------------ MODULE CapabilityWorld_proofs ------------------------
(***************************************************************************)
(* Proofs about CapabilityWorld for every set of contracts, requests, plans *)
(* and host states and every bound on clock and epochs.                     *)
(*                                                                         *)
(* IInv says that a capability has a status exactly when its contract is on *)
(* record, and that an active one was admitted in the current epoch: the    *)
(* first keeps admit() from bringing a revoked capability back, the second  *)
(* is what _advance_epoch restores by revoking everything.                  *)
(***************************************************************************)
EXTENDS CapabilityWorld, TLAPS

StatusRecorded == \A i \in Ids : Known(i) <=> status[i] # "none"

IInv == TypeOK /\ StatusRecorded /\ OldEpochPowerless

(* No capability is charged beyond its max_uses, and one that was delegated *)
(* promises no more than its parent's contract: what _ineligible and        *)
(* _validate_parent check once still holds after any sequence of calls.     *)
WithinGrant ==
    \A i \in Ids : Known(i) =>
        LET c == contract[i] IN
        /\ useCount[i] <= c.maxUses
        /\ c.parent # NoId =>
              /\ Known(c.parent)
              /\ c.expires <= contract[c.parent].expires
              /\ c.maxUses <= contract[c.parent].maxUses
              /\ ScopeContains(c.type, contract[c.parent].scope, c.scope)

UnknownUnused == \A i \in Ids : ~Known(i) => useCount[i] = 0

-----------------------------------------------------------------------------
(* Lemmas about the operators of the model *)

\* The world the broker reads is a world, and a binding that matches it is it.
LEMMA CurrentWorld ==
  ASSUME TypeOK
  PROVE  /\ World \in Worlds /\ World # NoWorld
         /\ \A w \in Worlds : BindingMatches(w) => w = World
  BY WorldsAssumption DEF TypeOK, World, Worlds, BindingMatches, Snapshot

\* Revoking touches active capabilities only and leaves the named ones revoked.
LEMMA RevokeAllEffect ==
  ASSUME TypeOK, NEW S, RevokeAll(S)
  PROVE  /\ status' \in [Ids -> {"none", "active", "revoked", "expired"}]
         /\ \A i \in Ids : status[i] # "active" => status'[i] = status[i]
         /\ \A i \in Ids : status'[i] = "active" => status[i] = "active" /\ i \notin S
         /\ \A i \in Ids : status'[i] = "none" <=> status[i] = "none"
  BY DEF TypeOK, RevokeAll

\* Charging counts one use of the chosen capability and of no other.
LEMMA ChargeEffect ==
  ASSUME TypeOK, NEW i \in Ids \cup {NoId}, Charge(i)
  PROVE  /\ useCount' \in [Ids -> Nat]
         /\ \A j \in Ids : useCount'[j] # useCount[j] => j = i
  BY DEF TypeOK, Charge

\* authorize() behind the epoch binding wrapper chooses only a capability
\* bound to the current world, and none in a tainted world.
LEMMA ChosenIsBound ==
  ASSUME TypeOK, epochBound, NEW req, NEW t, NEW kept, NEW i \in Ids,
         Authorizes(req, t, kept, i)
  PROVE  ~tainted /\ binding[i] = World
<1>1. ~tainted /\ Chosen(kept, req, t, i)
  BY IdsAssumption DEF Authorizes, Snapshot, TypeOK
<1>2. i \in kept
  BY <1>1, IdsAssumption DEF Chosen
<1>3. binding[i] # NoWorld /\ BindingMatches(binding[i])
  BY <1>2 DEF Authorizes, Reconciled
<1>4. binding[i] \in Worlds
  BY <1>3 DEF TypeOK
<1> QED BY <1>1, <1>3, <1>4, CurrentWorld

\* Admitting an unknown capability makes exactly it active in this world.
LEMMA AdmitInDelegateEffect ==
  ASSUME IInv, NEW k \in Contracts, AdmitInDelegate(k)
  PROVE  /\ contract' \in [Ids -> Contracts \cup {NoContract}]
         /\ status' \in [Ids -> {"none", "active", "revoked", "expired"}]
         /\ useCount' = useCount
         /\ admittedIn' \in [Ids -> Worlds \cup {NoWorld}]
         /\ \A i \in Ids : Known(i) => /\ contract'[i] = contract[i]
                                       /\ status'[i] = status[i]
                                       /\ admittedIn'[i] = admittedIn[i]
         /\ \A i \in Ids : contract'[i] # NoContract <=> status'[i] # "none"
         /\ \A i \in Ids : status'[i] = "active" => admittedIn'[i].epoch = epoch
<1>1. k.id \in Ids /\ k # NoContract
  BY ContractsAssumption
<1>2. World \in Worlds /\ World.epoch = epoch
  BY CurrentWorld DEF IInv, World
<1>3. \A i \in Ids : status[i] = "active" => admittedIn[i].epoch = epoch
  BY DEF IInv, OldEpochPowerless, Active
<1>4. CASE Known(k.id)
  BY <1>3, <1>4 DEF IInv, TypeOK, StatusRecorded, AdmitInDelegate, broker, Known
<1>5. CASE ~Known(k.id)
  BY <1>1, <1>2, <1>3, <1>5
     DEF IInv, TypeOK, StatusRecorded, AdmitInDelegate, Known
<1> QED BY <1>4, <1>5

-----------------------------------------------------------------------------
(* The inductive invariant, one lemma per operation *)

LEMMA InitInv == Init => IInv
<1> SUFFICES ASSUME Init PROVE IInv
  OBVIOUS
<1>1. TypeOK
  <2>1. epoch \in Epochs
    BY BoundsAssumption DEF Init, Epochs
  <2> QED BY <2>1 DEF Init, TypeOK, Receipts
<1>2. StatusRecorded /\ OldEpochPowerless
  BY DEF Init, StatusRecorded, Known, OldEpochPowerless, Active
<1> QED BY <1>1, <1>2 DEF IInv

\* What every operation that only revokes, expires or charges has to keep.
LEMMA AuthorityShrinks ==
  ASSUME IInv,
         status' \in [Ids -> {"none", "active", "revoked", "expired"}],
         \A i \in Ids : status'[i] = "active" => status[i] = "active",
         \A i \in Ids : status'[i] = "none" <=> status[i] = "none",
         UNCHANGED <<contract, admittedIn, epoch>>
  PROVE  StatusRecorded' /\ OldEpochPowerless'
  BY DEF IInv, StatusRecorded, OldEpochPowerless, Known, Active

LEMMA DelegateAdmitStep ==
  ASSUME IInv, NEW k \in Contracts, NEW t \in Times, DelegateAdmit(k, t)
  PROVE  IInv'
<1>1. k.id \in Ids /\ AdmitInDelegate(k)
  BY ContractsAssumption DEF DelegateAdmit
<1>2. TypeOK'
  BY <1>1, AdmitInDelegateEffect
     DEF IInv, TypeOK, DelegateAdmit, Return, Receipts, runtime
<1>3. StatusRecorded' /\ OldEpochPowerless'
  BY <1>1, AdmitInDelegateEffect
     DEF StatusRecorded, OldEpochPowerless, Known, Active, DelegateAdmit, runtime
<1> QED BY <1>2, <1>3 DEF IInv

LEMMA AdmitStep ==
  ASSUME IInv, NEW k \in Contracts, NEW w \in Worlds, NEW t \in Times,
         Admit(k, w, t)
  PROVE  IInv'
<1>1. k.id \in Ids
  BY ContractsAssumption
<1>2. CASE UNCHANGED broker /\ UNCHANGED binding /\ Return("admit", NoId, "BLOCK")
  BY <1>2 DEF IInv, TypeOK, StatusRecorded, OldEpochPowerless, Known, Active,
     Admit, Return, Receipts, broker, runtime
<1>3. CASE /\ AdmitInDelegate(k)
           /\ binding' = [binding EXCEPT ![k.id] = w]
           /\ Return("admit", k.id, "ALLOW")
  <2>1. TypeOK'
    BY <1>1, <1>3, AdmitInDelegateEffect
       DEF IInv, TypeOK, Admit, Return, Receipts, runtime
  <2>2. StatusRecorded' /\ OldEpochPowerless'
    BY <1>1, <1>3, AdmitInDelegateEffect
       DEF StatusRecorded, OldEpochPowerless, Known, Active, Admit, runtime
  <2> QED BY <2>1, <2>2 DEF IInv
<1> QED BY <1>2, <1>3 DEF Admit

LEMMA AuthorizeStep ==
  ASSUME IInv, NEW req, NEW t, NEW kept, NEW i \in Ids \cup {NoId},
         Authorize(req, t, kept, i)
  PROVE  IInv'
<1>1. /\ Charge(i)
      /\ \E S : RevokeAll(S)
      /\ UNCHANGED <<contract, admittedIn, binding, contained>>
      /\ UNCHANGED runtime
      /\ receipt' \in Receipts
  BY DEF Authorize, Return, Receipts
<1>2. TypeOK'
  BY <1>1, ChargeEffect, RevokeAllEffect DEF IInv, TypeOK, runtime
<1>3. StatusRecorded' /\ OldEpochPowerless'
  BY <1>1, RevokeAllEffect, AuthorityShrinks DEF IInv, runtime
<1> QED BY <1>2, <1>3 DEF IInv

LEMMA RevokeStep ==
  ASSUME IInv, NEW i \in Ids, Revoke(i)
  PROVE  IInv'
<1>1. RevokeAll({i}) /\ receipt' \in Receipts
  BY DEF Revoke, Return, Receipts
<1>2. TypeOK'
  BY <1>1, RevokeAllEffect DEF IInv, TypeOK, Revoke, runtime
<1>3. StatusRecorded' /\ OldEpochPowerless'
  BY <1>1, RevokeAllEffect, AuthorityShrinks DEF IInv, Revoke, runtime
<1> QED BY <1>2, <1>3 DEF IInv

LEMMA ExpireDueStep ==
  ASSUME IInv, NEW t \in Times, ExpireDue(t)
  PROVE  IInv'
<1>1. /\ status' \in [Ids -> {"none", "active", "revoked", "expired"}]
      /\ \A i \in Ids : status'[i] = "active" => status[i] = "active"
      /\ \A i \in Ids : status'[i] = "none" <=> status[i] = "none"
  BY DEF IInv, TypeOK, ExpireDue, Due, Active
<1>2. TypeOK'
  BY <1>1 DEF IInv, TypeOK, ExpireDue, Return, Receipts, runtime
<1>3. StatusRecorded' /\ OldEpochPowerless'
  BY <1>1, AuthorityShrinks DEF ExpireDue, runtime
<1> QED BY <1>2, <1>3 DEF IInv

LEMMA ExecuteBlockedStep ==
  ASSUME IInv, NEW p \in Plans, NEW s, NEW t, NEW kept,
         NEW i \in Ids \cup {NoId}, ExecuteBlocked(p, s, t, kept, i)
  PROVE  IInv'
<1>1. /\ Charge(i)
      /\ \E S : RevokeAll(S)
      /\ UNCHANGED <<contract, admittedIn, binding, contained>>
      /\ UNCHANGED runtime
      /\ receipt' \in Receipts
  BY DEF ExecuteBlocked, Return, Receipts
<1>2. TypeOK'
  BY <1>1, ChargeEffect, RevokeAllEffect DEF IInv, TypeOK, runtime
<1>3. StatusRecorded' /\ OldEpochPowerless'
  BY <1>1, RevokeAllEffect, AuthorityShrinks DEF IInv, runtime
<1> QED BY <1>2, <1>3 DEF IInv

\* The mutation advances the epoch and leaves nothing active.
LEMMA ExecuteAdmittedStep ==
  ASSUME IInv, NEW p \in Plans, NEW s, NEW t, NEW kept, NEW i \in Ids,
         NEW after \in States, NEW clean \in BOOLEAN,
         NEW seen \in States \cup {ZeroState},
         ExecuteAdmitted(p, s, t, kept, i, after, clean, seen)
  PROVE  IInv'
<1>1. Charge(i) /\ RevokeAll(Ids)
  BY DEF ExecuteAdmitted, Mutated, AdvanceEpoch
<1>2. epoch' \in Epochs
  BY BoundsAssumption DEF IInv, TypeOK, Epochs, ExecuteAdmitted, Mutated, AdvanceEpoch
<1>3. receipt' \in Receipts
  BY DEF ExecuteAdmitted, Return, Receipts
<1>4. TypeOK'
  <2>1. useCount' \in [Ids -> Nat]
    BY <1>1, ChargeEffect DEF IInv
  <2>2. status' \in [Ids -> {"none", "active", "revoked", "expired"}]
    BY <1>1, RevokeAllEffect DEF IInv
  <2>3. /\ state' \in States \cup {ZeroState} /\ host' \in States
        /\ tainted' \in BOOLEAN /\ seenPlans' \subseteq Plans
    BY DEF IInv, TypeOK, ExecuteAdmitted, Mutated, AdvanceEpoch
  <2> QED BY <1>2, <1>3, <2>1, <2>2, <2>3 DEF IInv, TypeOK, ExecuteAdmitted
<1>5. Active' = {}
  BY <1>1, RevokeAllEffect DEF IInv, Active
<1>6. StatusRecorded'
  BY <1>1, RevokeAllEffect DEF IInv, StatusRecorded, Known, ExecuteAdmitted
<1> QED BY <1>4, <1>5, <1>6 DEF IInv, OldEpochPowerless

\* The remaining operations leave the capabilities alone.
LEMMA OtherSteps ==
  ASSUME IInv,
         \/ \E p \in ValidPlans : ExecuteRefused(p) \/ ExecuteStale(p)
         \/ \E s \in States : HostDrift(s)
         \/ \E b \in BOOLEAN : SetContained(b)
         \/ UNCHANGED vars
  PROVE  IInv'
<1>1. UNCHANGED <<contract, status, useCount, admittedIn, binding, epoch>>
  BY DEF ExecuteRefused, ExecuteStale, HostDrift, SetContained, broker, runtime, vars
<1>2. TypeOK'
  BY <1>1 DEF IInv, TypeOK, ExecuteRefused, ExecuteStale, HostDrift, SetContained,
     runtime, vars, Return, Receipts
<1>3. StatusRecorded' /\ OldEpochPowerless'
  BY <1>1 DEF IInv, StatusRecorded, OldEpochPowerless, Known, Active
<1> QED BY <1>2, <1>3 DEF IInv

LEMMA StepInv == IInv /\ [Next]_vars => IInv'
<1> SUFFICES ASSUME IInv, [Next]_vars PROVE IInv'
  OBVIOUS
<1>1. CASE \E k \in Contracts, t \in Times : DelegateAdmit(k, t)
  BY <1>1, DelegateAdmitStep
<1>2. CASE \E k \in Contracts, w \in Worlds, t \in Times : Admit(k, w, t)
  BY <1>2, AdmitStep
<1>3. CASE \E req \in Requests, t \in Times, kept \in SUBSET Ids,
             i \in Ids \cup {NoId} : Authorize(req, t, kept, i)
  BY <1>3, AuthorizeStep
<1>4. CASE \E i \in Ids : Revoke(i)
  BY <1>4, RevokeStep
<1>5. CASE \E t \in Times : ExpireDue(t)
  BY <1>5, ExpireDueStep
<1>6. CASE \E p \in ValidPlans, s \in Subjects, t \in Times, kept \in SUBSET Ids,
             i \in Ids \cup {NoId} : ExecuteBlocked(p, s, t, kept, i)
  BY <1>6, ExecuteBlockedStep DEF ValidPlans
<1>7. CASE \E p \in ValidPlans, s \in Subjects, t \in Times, kept \in SUBSET Ids,
             i \in Ids, after \in States, clean \in BOOLEAN,
             seen \in States \cup {ZeroState} :
             ExecuteAdmitted(p, s, t, kept, i, after, clean, seen)
  BY <1>7, ExecuteAdmittedStep DEF ValidPlans
<1>8. CASE \/ \E p \in ValidPlans : ExecuteRefused(p) \/ ExecuteStale(p)
           \/ \E s \in States : HostDrift(s)
           \/ \E b \in BOOLEAN : SetContained(b)
           \/ UNCHANGED vars
  BY <1>8, OtherSteps
<1> QED BY <1>1, <1>2, <1>3, <1>4, <1>5, <1>6, <1>7, <1>8 DEF Next

LEMMA Inductive == Spec => []IInv
  BY InitInv, StepInv, PTL DEF Spec

-----------------------------------------------------------------------------
(* Theorems *)

\* Every operation of the capability brokers, the configuration broker and the
\* mediator's gate keeps the state typed; epochs stay within their bound.
THEOREM TypeCorrect == Spec => []TypeOK
  BY Inductive, PTL DEF IInv

\* _advance_epoch leaves no authority behind: whatever the order of admissions,
\* authorizations, drifts and mutations, an active capability was admitted in
\* the epoch the runtime is in.
THEOREM NoStaleAuthority == Spec => []OldEpochPowerless
  BY Inductive, PTL DEF IInv

\* One step never reactivates a revoked or expired capability, nor exchanges the
\* contract behind an id.
LEMMA NeverActiveAgainStep ==
  ASSUME IInv, [Next]_vars, NEW i \in Ids
  PROVE  /\ status[i] \in {"revoked", "expired"} => status'[i] = status[i]
         /\ Known(i) => contract'[i] = contract[i]
<1>1. status[i] \in {"revoked", "expired"} => Known(i)
  BY DEF IInv, StatusRecorded
<1>2. ASSUME NEW k \in Contracts, AdmitInDelegate(k)
      PROVE  /\ status[i] \in {"revoked", "expired"} => status'[i] = status[i]
             /\ Known(i) => contract'[i] = contract[i]
  BY <1>1, <1>2, AdmitInDelegateEffect
<1>3. ASSUME NEW S, RevokeAll(S)
      PROVE  status[i] \in {"revoked", "expired"} => status'[i] = status[i]
  BY <1>3, RevokeAllEffect DEF IInv
<1>4. CASE \E k \in Contracts, t \in Times : DelegateAdmit(k, t)
  BY <1>2, <1>4 DEF DelegateAdmit
<1>5. CASE \E k \in Contracts, w \in Worlds, t \in Times : Admit(k, w, t)
  BY <1>2, <1>5 DEF Admit, broker
<1>6. CASE \E req \in Requests, t \in Times, kept \in SUBSET Ids,
             j \in Ids \cup {NoId} : Authorize(req, t, kept, j)
  BY <1>3, <1>6 DEF Authorize
<1>7. CASE \E j \in Ids : Revoke(j)
  BY <1>3, <1>7 DEF Revoke
<1>8. CASE \E t \in Times : ExpireDue(t)
  BY <1>8 DEF ExpireDue, Due, Active
<1>9. CASE \E p \in ValidPlans, s \in Subjects, t \in Times, kept \in SUBSET Ids,
             j \in Ids \cup {NoId} : ExecuteBlocked(p, s, t, kept, j)
  BY <1>3, <1>9 DEF ExecuteBlocked
<1>10. CASE \E p \in ValidPlans, s \in Subjects, t \in Times, kept \in SUBSET Ids,
              j \in Ids, after \in States, clean \in BOOLEAN,
              seen \in States \cup {ZeroState} :
              ExecuteAdmitted(p, s, t, kept, j, after, clean, seen)
  BY <1>3, <1>10 DEF ExecuteAdmitted, Mutated, AdvanceEpoch
<1>11. CASE \/ \E p \in ValidPlans : ExecuteRefused(p) \/ ExecuteStale(p)
            \/ \E s \in States : HostDrift(s)
            \/ \E b \in BOOLEAN : SetContained(b)
            \/ UNCHANGED vars
  BY <1>11 DEF ExecuteRefused, ExecuteStale, HostDrift, SetContained, broker, vars
<1> QED BY <1>4, <1>5, <1>6, <1>7, <1>8, <1>9, <1>10, <1>11 DEF Next

\* "revoked / expired -> never active again", for every sequence of calls: an
\* identical contract admitted again is answered ALLOW and changes nothing.
THEOREM RevocationIsFinal == Spec => NeverActiveAgain
<1>1. IInv /\ [Next]_vars =>
        [\A i \in Ids :
           /\ status[i] \in {"revoked", "expired"} => status'[i] = status[i]
           /\ Known(i) => contract'[i] = contract[i]]_vars
  BY NeverActiveAgainStep
<1> QED BY <1>1, Inductive, PTL DEF Spec, NeverActiveAgain

\* With the wrapper installed, a step that charges a capability finds it bound
\* to the current untainted world, and no step rebinds a capability.
LEMMA BoundUseStep ==
  ASSUME IInv, [Next]_vars, epochBound, NEW i \in Ids
  PROVE  /\ useCount'[i] # useCount[i] => ~tainted /\ binding[i] = World
         /\ binding[i] # NoWorld => binding'[i] = binding[i]
<1>1. ASSUME NEW req, NEW t, NEW kept, NEW j \in Ids \cup {NoId},
             Authorizes(req, t, kept, j), Charge(j)
      PROVE  useCount'[i] # useCount[i] => ~tainted /\ binding[i] = World
  BY <1>1, ChargeEffect, ChosenIsBound DEF IInv
<1>2. CASE \E k \in Contracts, t \in Times : DelegateAdmit(k, t)
  BY <1>2, AdmitInDelegateEffect DEF DelegateAdmit
<1>3. CASE \E k \in Contracts, w \in Worlds, t \in Times : Admit(k, w, t)
  BY <1>3, AdmitInDelegateEffect, ContractsAssumption DEF Admit, broker, IInv, TypeOK
<1>4. CASE \E req \in Requests, t \in Times, kept \in SUBSET Ids,
             j \in Ids \cup {NoId} : Authorize(req, t, kept, j)
  BY <1>1, <1>4 DEF Authorize
<1>5. CASE \E j \in Ids : Revoke(j)
  BY <1>5 DEF Revoke
<1>6. CASE \E t \in Times : ExpireDue(t)
  BY <1>6 DEF ExpireDue
<1>7. CASE \E p \in ValidPlans, s \in Subjects, t \in Times, kept \in SUBSET Ids,
             j \in Ids \cup {NoId} : ExecuteBlocked(p, s, t, kept, j)
  <2>1. PICK p \in ValidPlans, s \in Subjects, t \in Times, kept \in SUBSET Ids,
             j \in Ids \cup {NoId} : ExecuteBlocked(p, s, t, kept, j)
    BY <1>7
  <2>2. CASE contained
    BY <2>1, <2>2, ChargeEffect, IdsAssumption DEF ExecuteBlocked, IInv
  <2>3. CASE ~contained
    BY <2>1, <2>3, <1>1 DEF ExecuteBlocked
  <2> QED BY <2>2, <2>3
<1>8. CASE \E p \in ValidPlans, s \in Subjects, t \in Times, kept \in SUBSET Ids,
             j \in Ids, after \in States, clean \in BOOLEAN,
             seen \in States \cup {ZeroState} :
             ExecuteAdmitted(p, s, t, kept, j, after, clean, seen)
  BY <1>1, <1>8 DEF ExecuteAdmitted
<1>9. CASE \/ \E p \in ValidPlans : ExecuteRefused(p) \/ ExecuteStale(p)
           \/ \E s \in States : HostDrift(s)
           \/ \E b \in BOOLEAN : SetContained(b)
           \/ UNCHANGED vars
  BY <1>9 DEF ExecuteRefused, ExecuteStale, HostDrift, SetContained, broker, vars
<1> QED BY <1>2, <1>3, <1>4, <1>5, <1>6, <1>7, <1>8, <1>9 DEF Next

\* Behind EpochBoundCapabilityBroker a capability is charged only in the one
\* untainted world it was first bound to, in every behaviour.
THEOREM UsesAreBound == Spec => UsedOnlyInBoundWorld
<1>1. IInv /\ [Next]_vars =>
        [epochBound => \A i \in Ids :
           /\ useCount'[i] # useCount[i] => ~tainted /\ binding[i] = World
           /\ binding[i] # NoWorld => binding'[i] = binding[i]]_vars
  BY BoundUseStep
<1> QED BY <1>1, Inductive, PTL DEF Spec, UsedOnlyInBoundWorld

-----------------------------------------------------------------------------
(* Delegation and use budgets *)

\* authorize() chooses a capability with a use left.
LEMMA ChosenHasUses ==
  ASSUME NEW req, NEW t, NEW kept, NEW i \in Ids, Authorizes(req, t, kept, i)
  PROVE  Known(i) /\ useCount[i] < contract[i].maxUses
<1>1. Chosen(kept, req, t, i)
  BY IdsAssumption DEF Authorizes
<1>2. Eligible(i, req, t)
  BY <1>1, IdsAssumption DEF Chosen
<1> QED BY <1>2 DEF Eligible

\* What charging the chosen capability does to the budgets.
LEMMA ChargeWithinGrant ==
  ASSUME IInv, WithinGrant, UnknownUnused, NEW i \in Ids \cup {NoId}, Charge(i),
         i \in Ids => Known(i) /\ useCount[i] < contract[i].maxUses,
         UNCHANGED contract
  PROVE  WithinGrant' /\ UnknownUnused'
<1>1. \A j \in Ids : useCount'[j] = useCount[j] + (IF j = i THEN 1 ELSE 0)
  BY DEF Charge
<1>2. \A j \in Ids : useCount[j] \in Nat
  BY DEF IInv, TypeOK
<1>3. \A j \in Ids : Known(j) => contract[j].maxUses \in Nat
  BY ContractsAssumption DEF IInv, TypeOK, Known
<1>4. \A j \in Ids : Known(j) => useCount'[j] <= contract[j].maxUses
  BY <1>1, <1>2, <1>3 DEF WithinGrant
<1>5. WithinGrant'
  BY <1>4 DEF WithinGrant, Known
<1>6. UnknownUnused'
  <2> SUFFICES ASSUME NEW j \in Ids, ~Known(j) PROVE useCount'[j] = 0
    BY DEF UnknownUnused, Known
  <2>1. j # i
    OBVIOUS
  <2> QED BY <2>1, <1>1, <1>2 DEF UnknownUnused
<1> QED BY <1>5, <1>6

\* A new capability starts unused and within the contract of its parent.
LEMMA AdmitWithinGrant ==
  ASSUME IInv, WithinGrant, UnknownUnused, NEW k \in Contracts, NEW t,
         AlreadyAdmitted(k) \/ NewlyAdmissible(k, t), AdmitInDelegate(k)
  PROVE  WithinGrant' /\ UnknownUnused'
<1>1. k.id \in Ids /\ k # NoContract /\ k.parent \in Ids \cup {NoId} /\ k.maxUses \in Nat
  BY ContractsAssumption
<1>2. CASE Known(k.id)
  BY <1>2 DEF AdmitInDelegate, broker, WithinGrant, UnknownUnused, Known
<1>3. CASE ~Known(k.id)
  <2>1. ParentAllows(k)
    BY <1>1, <1>3 DEF AlreadyAdmitted, NewlyAdmissible, Known
  <2>2. contract' = [contract EXCEPT ![k.id] = k] /\ useCount' = useCount
    BY <1>3 DEF AdmitInDelegate
  <2>3. contract'[k.id] = k /\ \A i \in Ids : i # k.id => contract'[i] = contract[i]
    BY <2>2, <1>1 DEF IInv, TypeOK
  <2>4. k.parent # NoId =>
          /\ k.parent \in Ids /\ k.parent # k.id /\ Known(k.parent)
          /\ k.expires <= contract[k.parent].expires
          /\ k.maxUses <= contract[k.parent].maxUses
          /\ ScopeContains(k.type, contract[k.parent].scope, k.scope)
    BY <1>1, <1>3, <2>1 DEF ParentAllows, IInv, StatusRecorded
  <2>5. WithinGrant'
    <3> SUFFICES ASSUME NEW i \in Ids, contract'[i] # NoContract
                 PROVE  LET c == contract'[i] IN
                        /\ useCount'[i] <= c.maxUses
                        /\ c.parent # NoId =>
                              /\ contract'[c.parent] # NoContract
                              /\ c.expires <= contract'[c.parent].expires
                              /\ c.maxUses <= contract'[c.parent].maxUses
                              /\ ScopeContains(c.type, contract'[c.parent].scope, c.scope)
      BY DEF WithinGrant, Known
    <3>1. CASE i = k.id
      <4>1. contract'[i] = k /\ useCount'[i] = 0
        BY <3>1, <1>3, <2>2, <2>3 DEF UnknownUnused
      <4>2. k.parent # NoId => contract'[k.parent] = contract[k.parent]
        BY <2>3, <2>4
      <4> QED BY <4>1, <4>2, <2>4, <1>1 DEF Known
    <3>2. CASE i # k.id
      <4>1. contract'[i] = contract[i] /\ Known(i)
        BY <3>2, <2>3 DEF Known
      <4>2. contract[i] \in Contracts /\ contract[i].parent \in Ids \cup {NoId}
        BY <4>1, ContractsAssumption DEF IInv, TypeOK, Known
      <4>3. contract[i].parent # NoId =>
              contract'[contract[i].parent] = contract[contract[i].parent]
        BY <4>1, <4>2, <2>3, <1>3 DEF WithinGrant
      <4> QED BY <4>1, <4>3, <2>2 DEF WithinGrant, Known
    <3> QED BY <3>1, <3>2
  <2>6. UnknownUnused'
    BY <2>2, <2>3, <1>1 DEF UnknownUnused, Known
  <2> QED BY <2>5, <2>6
<1> QED BY <1>2, <1>3

LEMMA WithinGrantStep ==
  ASSUME IInv, WithinGrant, UnknownUnused, [Next]_vars
  PROVE  WithinGrant' /\ UnknownUnused'
<1>1. ASSUME UNCHANGED <<contract, useCount>>
      PROVE  WithinGrant' /\ UnknownUnused'
  BY <1>1 DEF WithinGrant, UnknownUnused, Known
<1>2. CASE \E k \in Contracts, t \in Times : DelegateAdmit(k, t)
  BY <1>2, AdmitWithinGrant DEF DelegateAdmit
<1>3. CASE \E k \in Contracts, w \in Worlds, t \in Times : Admit(k, w, t)
  BY <1>1, <1>3, AdmitWithinGrant DEF Admit, broker
<1>4. CASE \E req \in Requests, t \in Times, kept \in SUBSET Ids,
             j \in Ids \cup {NoId} : Authorize(req, t, kept, j)
  BY <1>4, ChosenHasUses, ChargeWithinGrant DEF Authorize
<1>5. CASE \/ \E j \in Ids : Revoke(j)
           \/ \E t \in Times : ExpireDue(t)
           \/ \E p \in ValidPlans : ExecuteRefused(p) \/ ExecuteStale(p)
           \/ \E s \in States : HostDrift(s)
           \/ \E b \in BOOLEAN : SetContained(b)
           \/ UNCHANGED vars
  BY <1>1, <1>5 DEF Revoke, ExpireDue, ExecuteRefused, ExecuteStale, HostDrift,
     SetContained, broker, vars
<1>6. CASE \E p \in ValidPlans, s \in Subjects, t \in Times, kept \in SUBSET Ids,
             j \in Ids \cup {NoId} : ExecuteBlocked(p, s, t, kept, j)
  <2>1. PICK p \in ValidPlans, s \in Subjects, t \in Times, kept \in SUBSET Ids,
             j \in Ids \cup {NoId} : ExecuteBlocked(p, s, t, kept, j)
    BY <1>6
  <2>2. j \in Ids => Known(j) /\ useCount[j] < contract[j].maxUses
    BY <2>1, ChosenHasUses, IdsAssumption DEF ExecuteBlocked
  <2> QED BY <2>1, <2>2, ChargeWithinGrant DEF ExecuteBlocked
<1>7. CASE \E p \in ValidPlans, s \in Subjects, t \in Times, kept \in SUBSET Ids,
             j \in Ids, after \in States, clean \in BOOLEAN,
             seen \in States \cup {ZeroState} :
             ExecuteAdmitted(p, s, t, kept, j, after, clean, seen)
  BY <1>7, ChosenHasUses, ChargeWithinGrant DEF ExecuteAdmitted
<1> QED BY <1>2, <1>3, <1>4, <1>5, <1>6, <1>7 DEF Next

\* No sequence of admissions, re-admissions, authorizations and mutations
\* charges a capability beyond its max_uses or widens a delegated one beyond
\* its parent's contract.
THEOREM BudgetsAndDelegation == Spec => []WithinGrant
<1>1. Init => WithinGrant /\ UnknownUnused
  BY DEF Init, WithinGrant, UnknownUnused, Known
<1>2. IInv /\ (WithinGrant /\ UnknownUnused) /\ [Next]_vars
        => (WithinGrant /\ UnknownUnused)'
  BY WithinGrantStep
<1> QED BY <1>1, <1>2, Inductive, PTL DEF Spec

=============================================================================
