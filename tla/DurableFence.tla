----------------------------- MODULE DurableFence -----------------------------
(***************************************************************************)
(* DurableGovernanceEffectBroker and DurableGovernanceCoordinator over one   *)
(* shared governance row.  Each process owns a broker; its issue and consume *)
(* run under the process's commit fence, so inside a process at most one is  *)
(* in progress, and the steps of different processes interleave at every     *)
(* access to the row.  A process may crash between any two steps and loses   *)
(* its lease handles; the row survives.                                      *)
(***************************************************************************)
EXTENDS GovernanceStore

CONSTANTS
    Procs,          \* processes, each with its own broker and local world
    Coordinators    \* trusted holders of a DurableGovernanceCoordinator

VARIABLES
    local,      \* local[p]: the digest p's world_provider returns
    pc,         \* pc[p]: where p is inside the fence
    lease,      \* lease[p]: the lease being issued or consumed
    live,       \* live[p]: unconsumed entries of p's _leases
    view,       \* view[c]: the row as coordinator c last read it
    executed,   \* executed[g]: physical effects run under a lease of g
    receipts,   \* every DurableEffectCommitReceipt ever appended
    patient     \* the operator waits with reconciling until the holder is gone

procVars == <<local, pc, lease, live>>
rowAndProcs == <<storeVars, procVars, view, executed, receipts>>
vars == <<storeVars, procVars, view, executed, receipts, patient>>

Phases == {"idle", "issuing", "effect", "succeeded", "failed"}

Outcomes == {"SUCCEEDED", "EFFECT_FAILED_RESERVATION_STUCK",
             "EFFECT_SUCCEEDED_DURABLE_COMMIT_FAILED"}

Receipts == [lease : LeaseIds, generation_after : 0..MaxGen, outcome : Outcomes]

NoView == [generation |-> MaxGen, world |-> NoReservation,
           reservation |-> NoReservation]

Views == [generation : 0..MaxGen, world : Worlds,
          reservation : LeaseIds \cup {NoReservation}] \cup {NoView}

TypeOK ==
    /\ StoreTypeOK
    /\ local \in [Procs -> Worlds]
    /\ pc \in [Procs -> Phases]
    /\ lease \in [Procs -> LeaseIds \cup {NoReservation}]
    /\ \A p \in Procs : pc[p] # "idle" => lease[p] \in LeaseIds
    /\ live \in [Procs -> SUBSET LeaseIds]
    /\ view \in [Coordinators -> Views]
    /\ executed \in [0..MaxGen -> Nat]
    /\ receipts \subseteq Receipts
    /\ patient \in BOOLEAN

Init ==
    /\ StoreInit
    /\ local \in [Procs -> Worlds]
    /\ pc = [p \in Procs |-> "idle"]
    /\ lease = [p \in Procs |-> NoReservation]
    /\ live = [p \in Procs |-> {}]
    /\ view = [c \in Coordinators |-> NoView]
    /\ executed = [g \in 0..MaxGen |-> 0]
    /\ receipts = {}
    /\ patient \in BOOLEAN
-------------------------------------------------------------------------------
(* Steps of a process.                                                       *)

Goto(p, phase, l) ==
    /\ pc' = [pc EXCEPT ![p] = phase]
    /\ lease' = [lease EXCEPT ![p] = l]

\* bootstrap: insert the row with this process's world.
Bootstrap(p) ==
    /\ pc[p] = "idle"
    /\ Initialize(local[p])
    /\ UNCHANGED <<procVars, view, executed, receipts>>

\* The fenced guard, ledger or runtime broker of p moves its local world.
LocalChange(p, w) ==
    /\ pc[p] = "idle"
    /\ w # local[p]
    /\ local' = [local EXCEPT ![p] = w]
    /\ UNCHANGED <<storeVars, pc, lease, live, view, executed, receipts>>

\* issue_for_trusted_adapter up to the reservation: read the row, require a
\* free slot and a matching local world, obtain the inner lease (auth) and
\* derive the durable lease id from what was read.
IssueRead(p, auth) ==
    /\ pc[p] = "idle"
    /\ generation < MaxGen
    /\ initialized
    /\ reservation = NoReservation
    /\ local[p] = world
    /\ Goto(p, "issuing", [generation |-> generation, world |-> world,
                           auth |-> auth])
    /\ UNCHANGED <<storeVars, local, live, view, executed, receipts>>

\* reserve_effect succeeds: the lease becomes live.
IssueReserve(p) ==
    /\ pc[p] = "issuing"
    /\ ReserveEffect(lease[p].generation, lease[p].world, lease[p])
    /\ live' = [live EXCEPT ![p] = @ \cup {lease[p]}]
    /\ Goto(p, "idle", NoReservation)
    /\ UNCHANGED <<local, view, executed, receipts>>

\* reserve_effect raises (stale generation or world, slot taken, database
\* busy) and rolls back: the reservation is not made, no lease is stored.
IssueRefused(p) ==
    /\ pc[p] = "issuing"
    /\ Goto(p, "idle", NoReservation)
    /\ UNCHANGED <<storeVars, local, live, view, executed, receipts>>

\* consume_for_trusted_adapter, outside the lease's time window: the handle
\* is burned and the durable reservation stays.
ConsumeTimeInvalid(p, l) ==
    /\ pc[p] = "idle"
    /\ l \in live[p]
    /\ live' = [live EXCEPT ![p] = @ \ {l}]
    /\ UNCHANGED <<storeVars, local, pc, lease, view, executed, receipts>>

\* _require_reservation_match and _require_world_match
ReservationMatches(p, l) ==
    /\ MayCommit(l.generation, l.world, l)
    /\ local[p] = world

\* Mutated form: the handle is not burned before the effect.
BugConsumeUnburned(p, l) ==
    /\ pc[p] = "idle"
    /\ l \in live[p]
    /\ ReservationMatches(p, l)
    /\ Goto(p, "effect", l)
    /\ UNCHANGED <<storeVars, local, live, view, executed, receipts>>

\* consume_for_trusted_adapter up to the inner effect: a live lease whose
\* reservation and world still match is burned before control is handed over.
\* (A mismatch raises and changes nothing.)
ConsumeCheck(p, l) ==
    /\ pc[p] = "idle"
    /\ l \in live[p]
    /\ ReservationMatches(p, l)
    /\ live' = [live EXCEPT ![p] = @ \ {l}]
    /\ Goto(p, "effect", l)
    /\ UNCHANGED <<storeVars, local, view, executed, receipts>>

\* The inner stack runs the effect and returns; appending its causal event
\* moves the local world to w.
EffectSucceeds(p, w) ==
    /\ pc[p] = "effect"
    /\ executed' = [executed EXCEPT ![lease[p].generation] = @ + 1]
    /\ local' = [local EXCEPT ![p] = w]
    /\ Goto(p, "succeeded", lease[p])
    /\ UNCHANGED <<storeVars, live, view, receipts>>

\* The inner stack raises: before the effect, or after a partial effect.
EffectFails(p, w) ==
    /\ pc[p] = "effect"
    /\ \/ UNCHANGED executed
       \/ executed' = [executed EXCEPT ![lease[p].generation] = @ + 1]
    /\ local' = [local EXCEPT ![p] = w]
    /\ Goto(p, "failed", lease[p])
    /\ UNCHANGED <<storeVars, live, view, receipts>>

AppendCommit(p, generationAfter, outcome) ==
    receipts' = receipts \cup {[lease |-> lease[p],
                                generation_after |-> generationAfter,
                                outcome |-> outcome]}

\* The except branch: the reservation is retained, a receipt records it.
RecordFailure(p) ==
    /\ pc[p] = "failed"
    /\ AppendCommit(p, generation, "EFFECT_FAILED_RESERVATION_STUCK")
    /\ Goto(p, "idle", NoReservation)
    /\ UNCHANGED <<storeVars, local, live, view, executed>>

\* commit_effect publishes the post-effect local world.
Finalize(p) ==
    /\ pc[p] = "succeeded"
    /\ CommitEffect(lease[p].generation, lease[p].world, lease[p], local[p])
    /\ AppendCommit(p, generation + 1, "SUCCEEDED")
    /\ Goto(p, "idle", NoReservation)
    /\ UNCHANGED <<local, live, view, executed>>

\* Mutated form: the except branch of the durable commit reports success.
BugFinalizeFails(p) ==
    /\ pc[p] = "succeeded"
    /\ AppendCommit(p, generation, "SUCCEEDED")
    /\ Goto(p, "idle", NoReservation)
    /\ UNCHANGED <<storeVars, local, live, view, executed>>

\* commit_effect raises: the compare-and-swap is refused, or the database is
\* busy or unavailable and the transaction rolls back; or the inner commit
\* receipt is missing and commit_effect is not called.
FinalizeFails(p) ==
    /\ pc[p] = "succeeded"
    /\ AppendCommit(p, generation, "EFFECT_SUCCEEDED_DURABLE_COMMIT_FAILED")
    /\ Goto(p, "idle", NoReservation)
    /\ UNCHANGED <<storeVars, local, live, view, executed>>

\* The process dies and is restarted with some local world.
Crash(p, w) ==
    /\ pc' = [pc EXCEPT ![p] = "idle"]
    /\ lease' = [lease EXCEPT ![p] = NoReservation]
    /\ live' = [live EXCEPT ![p] = {}]
    /\ local' = [local EXCEPT ![p] = w]
    /\ UNCHANGED <<storeVars, view, executed, receipts>>
-------------------------------------------------------------------------------
(* Steps of a coordinator: the expected generation, world and reservation id  *)
(* it passes are the ones it read earlier.                                    *)

CoordinatorRead(c) ==
    /\ initialized
    /\ generation < MaxGen
    /\ view' = [view EXCEPT ![c] = [generation |-> generation, world |-> world,
                                    reservation |-> reservation]]
    /\ UNCHANGED <<storeVars, procVars, executed, receipts>>

CoordinatorMutate(c, w) ==
    /\ view[c] # NoView
    /\ MutateWorld(view[c].generation, view[c].world, w)
    /\ view' = [view EXCEPT ![c] = NoView]
    /\ UNCHANGED <<procVars, executed, receipts>>

\* Nothing in the store stops an operator from reconciling a reservation whose
\* holder is still running; a patient one has that discipline of his own.
HolderGone(id) ==
    \A p \in Procs :
        /\ id \notin live[p]
        /\ pc[p] \in {"effect", "succeeded"} => lease[p] # id

CoordinatorReconcile(c, w) ==
    /\ view[c] # NoView
    /\ view[c].reservation # NoReservation
    /\ patient => HolderGone(view[c].reservation)
    /\ ReconcileReservation(view[c].generation, view[c].world,
                            view[c].reservation, w)
    /\ view' = [view EXCEPT ![c] = NoView]
    /\ UNCHANGED <<procVars, executed, receipts>>
-------------------------------------------------------------------------------
ProcStep(p) ==
    \/ Bootstrap(p)
    \/ \E w \in Worlds : LocalChange(p, w)
    \/ \E a \in Auths : IssueRead(p, a)
    \/ IssueReserve(p)
    \/ IssueRefused(p)
    \/ \E l \in live[p] : ConsumeTimeInvalid(p, l)
    \/ \E l \in live[p] : ConsumeCheck(p, l)
    \/ \E w \in Worlds : EffectSucceeds(p, w)
    \/ \E w \in Worlds : EffectFails(p, w)
    \/ RecordFailure(p)
    \/ Finalize(p)
    \/ FinalizeFails(p)
    \/ \E w \in Worlds : Crash(p, w)

CoordinatorStep(c) ==
    \/ CoordinatorRead(c)
    \/ \E w \in Worlds : CoordinatorMutate(c, w)
    \/ \E w \in Worlds : CoordinatorReconcile(c, w)

Next ==
    /\ \/ \E p \in Procs : ProcStep(p)
       \/ \E c \in Coordinators : CoordinatorStep(c)
    /\ UNCHANGED patient

Spec == Init /\ [][Next]_vars

\* A process that entered the fence leaves it, a live lease is consumed or
\* burned by its deadline, and an operator reads the row and reconciles, at the
\* latest when the holder is gone.
Fairness ==
    /\ \A p \in Procs :
        /\ WF_rowAndProcs(IssueReserve(p) \/ IssueRefused(p))
        /\ WF_rowAndProcs(\E l \in live[p] :
                      ConsumeCheck(p, l) \/ ConsumeTimeInvalid(p, l))
        /\ WF_rowAndProcs(\E w \in Worlds : EffectSucceeds(p, w) \/ EffectFails(p, w))
        /\ WF_rowAndProcs(RecordFailure(p) \/ Finalize(p) \/ FinalizeFails(p))
    /\ \A c \in Coordinators :
        /\ WF_rowAndProcs(CoordinatorRead(c))
        /\ WF_rowAndProcs(\E w \in Worlds : /\ HolderGone(view[c].reservation)
                                            /\ CoordinatorReconcile(c, w))

FairSpec == Spec /\ Fairness
-------------------------------------------------------------------------------
(* Properties.                                                               *)

\* At most one physical effect ever runs under the leases of a generation,
\* whatever processes race, crash, or are reconciled away: the lease handle
\* is burned before the effect (consume_for_trusted_adapter) and a freed slot
\* always belongs to a newer generation.
OneEffectPerGeneration == \A g \in 0..MaxGen : executed[g] <= 1

\* An effect that ran is never stepped over: its generation is still reserved,
\* or it was closed by its commit or by an explicit reconciliation, never by
\* mutate_world.
EffectAccountedFor ==
    \A g \in 0..MaxGen :
        executed[g] > 0 =>
            \/ generation = g /\ reservation # NoReservation
            \/ closedBy[g].kind \in {"commit", "reconcile"}

\* A SUCCEEDED receipt is only for an effect that ran and whose own lease
\* closed its generation; a receipt that says the effect or its durable commit
\* failed is never for a generation that was committed.
ReceiptsTruthful ==
    \A r \in receipts :
        /\ r.outcome = "SUCCEEDED" =>
              /\ closedBy[r.lease.generation] = [kind |-> "commit", by |-> r.lease]
              /\ executed[r.lease.generation] = 1
              /\ r.generation_after = r.lease.generation + 1
        /\ r.outcome # "SUCCEEDED" =>
              closedBy[r.lease.generation].kind # "commit"

\* With an operator who reconciles only reservations whose holder is gone, a
\* process inside the effect still holds the row in the world it was checked
\* against, so no two processes are inside effects together.
EffectHoldsReservation ==
    patient =>
        \A p \in Procs :
            pc[p] \in {"effect", "succeeded"} =>
                MayCommit(lease[p].generation, lease[p].world, lease[p])

\* The slot is only given up by a step that advances the generation and names
\* the reservation it closes, and while it is held neither the generation nor
\* the world moves: no timeout or crash restores authority.
ReservationHeldUntilAdvance ==
    [][reservation # NoReservation /\ reservation' # reservation =>
          /\ reservation' = NoReservation
          /\ generation' = generation + 1
          /\ closedBy'[generation].by = reservation
          /\ closedBy'[generation].kind \in {"commit", "reconcile"}]_vars

\* A process whose reservation was reconciled away while it was inside the
\* effect, or between the effect and commit_effect, changes nothing on its way
\* out: the row stays as it is and its receipt does not say SUCCEEDED.
ReconciledNeverPublishes ==
    [][\A p \in Procs :
          /\ pc[p] \in {"effect", "succeeded", "failed"} /\ pc'[p] # pc[p]
          /\ closedBy[lease[p].generation].kind = "reconcile"
          => /\ UNCHANGED storeVars
             /\ \A r \in receipts' \ receipts : r.outcome # "SUCCEEDED"]_vars

\* A stuck reservation is eventually released, given the operator's fairness.
ReservationReleased ==
    (reservation # NoReservation) ~> (reservation = NoReservation)

\* The promise of the fence: at most one effect per generation, published by
\* commit only after it ran, see EffectOncePerGeneration.
Abstract == INSTANCE EffectOncePerGeneration
    WITH gen <- generation, owner <- reservation, runs <- executed,
         result <- [g \in 0..MaxGen |-> closedBy[g].kind],
         None <- NoReservation, Owners <- LeaseIds
ImplementsAbstract == Abstract!Spec
-------------------------------------------------------------------------------
(* The inductive invariant.                                                  *)

\* The leases p could still run or finish an effect with.
InFlight(p) == IF pc[p] \in {"effect", "succeeded", "failed"} THEN {lease[p]} ELSE {}
Tokens(p) == live[p] \cup InFlight(p)

\* A lease that was granted and not committed holds the row, or was reconciled.
Holds(l) ==
    \/ generation = l.generation /\ reservation = l
    \/ closedBy[l.generation] = [kind |-> "reconcile", by |-> l]

\* The row is consistent with its history.
RowInv ==
    /\ ~initialized => generation = 0 /\ reservation = NoReservation
    /\ reservation # NoReservation =>
          /\ reservation.generation = generation
          /\ reservation.world = world
          /\ generation < MaxGen
    /\ \A g \in 0..MaxGen : closedBy[g].kind = "open" <=> g >= generation

\* Every lease handle stands for a grant, and no two handles for the same one.
TokenInv ==
    /\ \A p \in Procs : \A l \in Tokens(p) : Holds(l)
    /\ \A p \in Procs : InFlight(p) \cap live[p] = {}
    /\ \A p, q \in Procs : p # q => Tokens(p) \cap Tokens(q) = {}
    /\ \A p \in Procs : pc[p] = "issuing" =>
          lease[p].generation < MaxGen /\ initialized

\* Whoever may still run an effect has not run it.
RunInv ==
    /\ \A p \in Procs : \A l \in live[p] : executed[l.generation] = 0
    /\ \A p \in Procs :
          /\ pc[p] = "effect" => executed[lease[p].generation] = 0
          /\ pc[p] = "succeeded" => executed[lease[p].generation] = 1
    /\ OneEffectPerGeneration
    /\ EffectAccountedFor

\* Receipts agree with history, and a failed one has left no handle behind.
ReceiptInv ==
    /\ ReceiptsTruthful
    /\ \A r \in receipts : r.outcome # "SUCCEEDED" =>
          /\ Holds(r.lease)
          /\ \A p \in Procs : r.lease \notin Tokens(p)

ViewInv ==
    \A c \in Coordinators : view[c] # NoView => view[c].generation < MaxGen

IInv == TypeOK /\ RowInv /\ TokenInv /\ RunInv /\ ReceiptInv /\ ViewInv
===============================================================================
