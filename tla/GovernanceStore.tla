--------------------------- MODULE GovernanceStore ---------------------------
(***************************************************************************)
(* The durable governance row of SQLiteGovernanceStore                      *)
(* (sdk/liminal_durable_governance_fence): one generation counter, one      *)
(* world digest and one reservation slot per root.  Every operation runs    *)
(* in one BEGIN IMMEDIATE transaction, so it is one atomic step; a refused  *)
(* compare-and-swap rolls back and is the negation of the guard.            *)
(*                                                                         *)
(* A world digest is an element of Worlds.  The durable lease id is the     *)
(* digest of the generation, the world and the inner authorization receipt  *)
(* (an element of Auths); the reservation payload digests the same tuple,   *)
(* so one record stands for both columns.                                   *)
(***************************************************************************)
EXTENDS Naturals

CONSTANTS
    Worlds,         \* governance world digests
    Auths,          \* inner (causal) authorization receipt digests
    NoReservation,  \* the reservation column when reservation_active = 0
    MaxGen          \* bound on the generation counter

LeaseIds == [generation : 0..MaxGen, world : Worlds, auth : Auths]

ASSUME MaxGenAssumption == MaxGen \in Nat
ASSUME NoReservationAssumption == NoReservation \notin LeaseIds

VARIABLES
    initialized,    \* the row of this root exists
    generation,
    world,
    reservation,    \* the reserved lease id, or NoReservation
    closedBy        \* ghost: the transition receipt that closed each past generation;
                    \* the row keeps the digest of the last one, and nothing reads it

storeVars == <<initialized, generation, world, reservation, closedBy>>

\* What a transition receipt says of the generation it closed.
Transitions == [kind : {"open", "commit", "mutate", "reconcile"},
                by : LeaseIds \cup {NoReservation}]

Open == [kind |-> "open", by |-> NoReservation]

StoreTypeOK ==
    /\ initialized \in BOOLEAN
    /\ generation \in 0..MaxGen
    /\ world \in Worlds
    /\ reservation \in LeaseIds \cup {NoReservation}
    /\ closedBy \in [0..MaxGen -> Transitions]

\* _ensure_schema: the table exists, the row of the root does not.
StoreInit ==
    /\ initialized = FALSE
    /\ generation = 0
    /\ world \in Worlds
    /\ reservation = NoReservation
    /\ closedBy = [g \in 0..MaxGen |-> Open]

\* initialize: the first caller inserts generation 0; a later call changes
\* nothing, whether it is accepted or raises root_already_initialized.
Initialize(w) ==
    /\ ~initialized
    /\ initialized' = TRUE
    /\ generation' = 0
    /\ world' = w
    /\ reservation' = NoReservation
    /\ UNCHANGED closedBy

ExpectWorld(g, w) ==
    /\ initialized
    /\ generation = g
    /\ world = w

\* Mutated form: the reservation_active check of reserve_effect is dropped.
BugMayReserve(g, w) == ExpectWorld(g, w)

\* reserve_effect: the slot is taken, the generation does not move.
MayReserve(g, w) == ExpectWorld(g, w) /\ reservation = NoReservation

ReserveEffect(g, w, id) ==
    /\ MayReserve(g, w)
    /\ reservation' = id
    /\ UNCHANGED <<initialized, generation, world, closedBy>>

\* The UPDATE shared by commit_effect, mutate_world and reconcile_reservation.
Advance(newWorld, kind, id) ==
    /\ generation' = generation + 1
    /\ world' = newWorld
    /\ reservation' = NoReservation
    /\ closedBy' = [closedBy EXCEPT ![generation] = [kind |-> kind, by |-> id]]
    /\ UNCHANGED initialized

\* commit_effect
MayCommit(g, w, id) == ExpectWorld(g, w) /\ reservation = id

CommitEffect(g, w, id, newWorld) ==
    /\ MayCommit(g, w, id)
    /\ Advance(newWorld, "commit", id)

\* Mutated form: mutate_world ignores an active reservation.
BugMutateWorld(g, w, newWorld) ==
    /\ ExpectWorld(g, w)
    /\ Advance(newWorld, "mutate", NoReservation)

\* mutate_world
MutateWorld(g, w, newWorld) ==
    /\ ExpectWorld(g, w)
    /\ reservation = NoReservation
    /\ Advance(newWorld, "mutate", NoReservation)

\* Mutated form: the guard of mutate_world copied into reconcile_reservation.
BugReconcileReservation(g, w, id, newWorld) ==
    /\ ExpectWorld(g, w)
    /\ reservation = NoReservation
    /\ Advance(newWorld, "reconcile", id)

\* reconcile_reservation
ReconcileReservation(g, w, id, newWorld) ==
    /\ ExpectWorld(g, w)
    /\ reservation = id
    /\ Advance(newWorld, "reconcile", id)
==============================================================================
