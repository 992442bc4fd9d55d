--------------------------- MODULE CheckpointMirror ---------------------------
(***************************************************************************)
(* sdk/liminal_liminaldb_governance_checkpoint: every mutation of the       *)
(* governance row is bracketed by a durable PENDING marker and an           *)
(* acknowledgement that carries the checkpointed transition envelope.       *)
(*                                                                         *)
(* The marker is in another database than the row and neither is locked     *)
(* across the two, so the steps of several processes interleave at every    *)
(* database access.  A process may stop anywhere; an operator may clear     *)
(* the marker.  Receipt digests named in an intent are taken to be equal,   *)
(* the worst case for telling two intents apart.                            *)
(***************************************************************************)
EXTENDS GovernanceStore, Sequences

CONSTANTS
    Callers,         \* processes that share the two databases
    NoWorld,         \* world_before_sha256 of an initialization (all zeros)
    MaxSeq           \* bound on the guard's sequence counter

ASSUME CallerAssumption == MaxSeq \in Nat
ASSUME NoWorldAssumption == NoWorld \notin Worlds

Kinds == {"initialize", "reserve", "commit", "mutate", "reconcile"}

\* What _begin digests: the transition kind, the expected row and the id.
Intents == [kind : Kinds, generation : 0..MaxGen, world : Worlds, auth : Auths]

\* _TransitionEvidence, the part the row determines
Envelopes == [kind : Kinds, before : 0..MaxGen, after : 0..MaxGen,
              from : Worlds \cup {NoWorld}, to : Worlds]

VARIABLES
    careful,  \* the operator clears the mirror only when its owner is gone
    guard,    \* mirror_guard: sequence, status and pending intent
    history,  \* mirror_history
    at,       \* where each caller is in its call
    intent, target, envelope,   \* its arguments and the evidence it builds
    ticket,   \* history variable: the sequence number its begin was given
    made      \* history variable: the transitions of the row, in order,
              \* with the sequence number they were made under

journalVars == <<guard, history>>
callVars == <<intent, target, envelope, ticket>>
mirrorVars == <<careful, storeVars, guard, history, at, intent, target, envelope,
                ticket, made>>

NoIntent == [kind |-> "initialize", generation |-> 0, world |-> NoWorld,
             auth |-> NoReservation]
NoEnvelope == [kind |-> "initialize", before |-> 0, after |-> 0,
               from |-> NoWorld, to |-> NoWorld]

Pending == guard.status = "PENDING"

\* mirror_history rows; the evidence of a PENDING row is the intent.
Event(n, kind, evidence) == [sequence |-> n, kind |-> kind, envelope |-> evidence]
Events == [sequence : 1..MaxSeq, kind : {"PENDING", "ACKED", "RECONCILED"},
           envelope : Envelopes \cup {NoEnvelope}]

MirrorTypeOK ==
    /\ careful \in BOOLEAN
    /\ StoreTypeOK
    /\ guard \in [sequence : 0..MaxSeq, status : {"CLEAR", "PENDING"},
                  intent : Intents \cup {NoIntent}]
    /\ history \in Seq(Events)
    /\ at \in [Callers -> {"idle", "read", "called", "checked", "pending",
                           "inserted", "mutated", "bridged"}]
    /\ intent \in [Callers -> Intents \cup {NoIntent}]
    /\ target \in [Callers -> Worlds]
    /\ envelope \in [Callers -> Envelopes \cup
                        [kind : Kinds, before : 0..MaxGen, after : 0..MaxGen,
                         from : Worlds \cup {NoWorld}, to : {NoWorld}]]
    /\ ticket \in [Callers -> 0..MaxSeq]
    /\ made \in Seq([sequence : 1..MaxSeq, envelope : Envelopes])

MirrorInit ==
    /\ careful \in BOOLEAN
    /\ StoreInit
    /\ guard = [sequence |-> 0, status |-> "CLEAR", intent |-> NoIntent]
    /\ history = <<>>
    /\ at = [p \in Callers |-> "idle"]
    /\ intent = [p \in Callers |-> NoIntent]
    /\ target = [p \in Callers |-> world]
    /\ envelope = [p \in Callers |-> NoEnvelope]
    /\ ticket = [p \in Callers |-> 0]
    /\ made = <<>>
-------------------------------------------------------------------------------
(* A call of CheckpointingGovernanceStore by process p.                      *)

MoveTo(p, step) == at' = [at EXCEPT ![p] = step]

\* The process forgets its call: it returned, raised or died.
Leave(p) ==
    /\ MoveTo(p, "idle")
    /\ intent' = [intent EXCEPT ![p] = NoIntent]
    /\ envelope' = [envelope EXCEPT ![p] = NoEnvelope]
    /\ ticket' = [ticket EXCEPT ![p] = 0]
    /\ UNCHANGED target

\* The caller learns the generation and the world it will name.
ReadState(p, kind, auth) ==
    /\ at[p] = "idle"
    /\ initialized /\ generation < MaxGen
    /\ kind # "initialize"
    /\ intent' = [intent EXCEPT ![p] = [kind |-> kind, generation |-> generation,
                                        world |-> world, auth |-> auth]]
    /\ MoveTo(p, "read")
    /\ UNCHANGED <<careful, storeVars, journalVars, target, envelope, ticket, made>>

\* reserve_effect, commit_effect, mutate_world and reconcile_reservation start
\* with before = delegate.read_state.
Call(p, w) ==
    /\ at[p] = "read"
    /\ target' = [target EXCEPT ![p] = IF intent[p].kind = "reserve" THEN world ELSE w]
    /\ envelope' = [envelope EXCEPT ![p] =
           [kind |-> intent[p].kind, before |-> generation, after |-> 0,
            from |-> world, to |-> NoWorld]]
    /\ MoveTo(p, "called")
    /\ UNCHANGED <<careful, storeVars, journalVars, intent, ticket, made>>

\* initialize reads nothing before.
CallInitialize(p, w, auth) ==
    /\ at[p] = "idle"
    /\ intent' = [intent EXCEPT ![p] = [kind |-> "initialize", generation |-> 0,
                                        world |-> w, auth |-> auth]]
    /\ target' = [target EXCEPT ![p] = w]
    /\ MoveTo(p, "called")
    /\ UNCHANGED <<careful, storeVars, journalVars, envelope, ticket, made>>

\* _begin: journal.require_clear
RequireClear(p) ==
    /\ at[p] = "called"
    /\ IF Pending THEN Leave(p) ELSE MoveTo(p, "checked") /\ UNCHANGED callVars
    /\ UNCHANGED <<careful, storeVars, journalVars, made>>

\* journal.begin refuses a PENDING guard inside its own transaction.
MayBegin == ~Pending

\* _begin: journal.begin
Begin(p) ==
    /\ at[p] = "checked"
    /\ MayBegin
    /\ guard.sequence < MaxSeq
    /\ guard' = [sequence |-> guard.sequence + 1, status |-> "PENDING", intent |-> intent[p]]
    /\ history' = Append(history, Event(guard.sequence + 1, "PENDING", NoEnvelope))
    /\ ticket' = [ticket EXCEPT ![p] = guard.sequence + 1]
    /\ MoveTo(p, "pending")
    /\ UNCHANGED <<careful, storeVars, intent, target, envelope, made>>

BeginRefused(p) ==
    /\ at[p] = "checked"
    /\ ~MayBegin
    /\ Leave(p)
    /\ UNCHANGED <<careful, storeVars, journalVars, made>>

\* The operation of the primary store that a call stands for.
Primary(i, w) ==
    LET id == [generation |-> i.generation, world |-> i.world, auth |-> i.auth]
    IN CASE i.kind = "reserve"   -> ReserveEffect(i.generation, i.world, id)
         [] i.kind = "commit"    -> CommitEffect(i.generation, i.world, id, w)
         [] i.kind = "mutate"    -> MutateWorld(i.generation, i.world, w)
         [] i.kind = "reconcile" -> ReconcileReservation(i.generation, i.world, id, w)
         [] i.kind = "initialize" -> Initialize(w)

\* The row's transition from the world it was in, under sequence number n
Transition(n, kind, from) ==
    [sequence |-> n, envelope |-> [kind |-> kind, before |-> generation,
                                   after |-> generation', from |-> from, to |-> world']]

\* The primary mutation, whose resulting state is read in its transaction.
MutateRow(p) ==
    /\ at[p] = "pending" /\ intent[p].kind # "initialize"
    /\ Primary(intent[p], target[p])
    /\ envelope' = [envelope EXCEPT ![p].after = generation', ![p].to = world']
    /\ made' = Append(made, Transition(ticket[p], intent[p].kind, world))
    /\ MoveTo(p, "mutated")
    /\ UNCHANGED <<careful, journalVars, intent, target, ticket>>

\* delegate.initialize inserts the row, or accepts a row that is still in
\* generation 0 and in the world named.
InsertRow(p) ==
    /\ at[p] = "pending" /\ intent[p].kind = "initialize"
    /\ \/ /\ Primary(intent[p], target[p])
          /\ made' = Append(made, Transition(ticket[p], "initialize", NoWorld))
       \/ /\ ExpectWorld(0, target[p])
          /\ UNCHANGED <<storeVars, made>>
    /\ MoveTo(p, "inserted")
    /\ UNCHANGED <<careful, journalVars, callVars>>

\* ... and reads the row again after its transaction has ended.
ReadBack(p) ==
    /\ at[p] = "inserted"
    /\ envelope' = [envelope EXCEPT ![p].to = world]
    /\ MoveTo(p, "mutated")
    /\ UNCHANGED <<careful, storeVars, journalVars, intent, target, ticket, made>>

\* The primary store raises, on a failed compare-and-swap or a busy database:
\* the mirror is left PENDING.
PrimaryFails(p) ==
    /\ at[p] = "pending"
    /\ Leave(p)
    /\ UNCHANGED <<careful, storeVars, journalVars, made>>

\* _checkpoint: the bridge answers with a bundle that _verify_bundle accepts.
Bridge(p) ==
    /\ at[p] = "mutated"
    /\ MoveTo(p, "bridged")
    /\ UNCHANGED <<careful, storeVars, journalVars, callVars, made>>

\* Mutated form: an unavailable bridge degrades to an unmirrored mode.
BugBridgeFails(p) ==
    /\ at[p] = "mutated"
    /\ guard' = [guard EXCEPT !.status = "CLEAR", !.intent = NoIntent]
    /\ Leave(p)
    /\ UNCHANGED <<careful, storeVars, history, made>>

\* The bridge times out, fails or returns another bundle.
BridgeFails(p) ==
    /\ at[p] = "mutated"
    /\ Leave(p)
    /\ UNCHANGED <<careful, storeVars, journalVars, made>>

\* Mutated form: acknowledge does not compare the pending intent.
BugMayAcknowledge(i) == Pending

MayAcknowledge(i) == Pending /\ guard.intent = i

\* journal.acknowledge
Acknowledge(p) ==
    /\ at[p] = "bridged"
    /\ MayAcknowledge(intent[p])
    /\ guard' = [guard EXCEPT !.status = "CLEAR", !.intent = NoIntent]
    /\ history' = Append(history, Event(guard.sequence, "ACKED", envelope[p]))
    /\ Leave(p)
    /\ UNCHANGED <<careful, storeVars, made>>

\* mirror_ack_mismatch
AcknowledgeRefused(p) ==
    /\ at[p] = "bridged"
    /\ ~MayAcknowledge(intent[p])
    /\ Leave(p)
    /\ UNCHANGED <<careful, storeVars, journalVars, made>>

\* The process stops; what it knew is lost.
Halt(p) ==
    /\ at[p] # "idle"
    /\ Leave(p)
    /\ UNCHANGED <<careful, storeVars, journalVars, made>>

\* The process whose call is pending has returned or died.
OwnerGone == \A p \in Callers :
    at[p] \in {"pending", "inserted", "mutated", "bridged"} => ticket[p] # guard.sequence

\* reconcile_mirror
ReconcileMirror ==
    /\ Pending
    /\ careful => OwnerGone
    /\ guard' = [guard EXCEPT !.status = "CLEAR", !.intent = NoIntent]
    /\ history' = Append(history, Event(guard.sequence, "RECONCILED", NoEnvelope))
    /\ UNCHANGED <<careful, storeVars, at, callVars, made>>
-------------------------------------------------------------------------------
CallerNext(p) ==
    \/ \E auth \in Auths :
         \/ \E kind \in Kinds : ReadState(p, kind, auth)
         \/ \E w \in Worlds : CallInitialize(p, w, auth)
    \/ \E w \in Worlds : Call(p, w)
    \/ RequireClear(p) \/ Begin(p) \/ BeginRefused(p)
    \/ MutateRow(p) \/ InsertRow(p) \/ ReadBack(p) \/ PrimaryFails(p)
    \/ Bridge(p) \/ BridgeFails(p)
    \/ Acknowledge(p) \/ AcknowledgeRefused(p)
    \/ Halt(p)

MirrorNext == (\E p \in Callers : CallerNext(p)) \/ ReconcileMirror

MirrorSpec == MirrorInit /\ [][MirrorNext]_mirrorVars
-------------------------------------------------------------------------------
Recorded(kind) == {n \in 1..Len(history) : history[n].kind = kind}

\* "cooperating callers cannot silently continue mutating the governed world
\* after an uncheckpointed or ambiguous mirror transition": every transition
\* of the row is still pending, was cleared by an explicit reconciliation, or
\* was acknowledged with exactly that transition, even when the operator
\* clears the marker of a call that is still running.
NoSilentTransition ==
    \A k \in DOMAIN made :
        \/ Pending /\ guard.sequence = made[k].sequence
        \/ \E n \in DOMAIN history :
             /\ history[n].sequence = made[k].sequence
             /\ \/ history[n].kind = "RECONCILED"
                \/ history[n].kind = "ACKED" /\ history[n].envelope = made[k].envelope

\* The n-th record of the mirror is the acknowledgement of the k-th transition.
Acknowledged(n, k) ==
    history[n] = Event(made[k].sequence, "ACKED", made[k].envelope)

\* The mirror tells the row's history.  While no operator has intervened, a
\* CLEAR guard means that it is complete and in order: apart from repeated
\* initializations, what was acknowledged is the row's whole history.  With a
\* careful operator, what was acknowledged is a transition the row really made:
\* "exact transition envelope from actual before/after state".
MirrorFaithful ==
    /\ ~Pending /\ Recorded("RECONCILED") = {} =>
         LET mirror == {n \in Recorded("ACKED") : history[n].envelope.kind # "initialize"}
             row == {k \in DOMAIN made : made[k].envelope.kind # "initialize"}
         IN /\ \A k \in row : \E n \in mirror : Acknowledged(n, k)
            /\ \A n \in mirror : \E k \in row : Acknowledged(n, k)
            /\ \A m, n \in mirror, k, l \in row :
                 Acknowledged(m, k) /\ Acknowledged(n, l) => (m < n <=> k < l)
    /\ careful => \A n \in Recorded("ACKED") :
         \E k \in DOMAIN made : made[k].envelope = history[n].envelope
===============================================================================
