------------------------- MODULE GovernanceStore_proofs -------------------------
(***************************************************************************)
(* Proofs about the two protocols over the governance row, DurableFence and *)
(* CheckpointMirror, for every set of processes, coordinators, callers and  *)
(* worlds and every bound.                                                  *)
(*                                                                         *)
(* The inductive invariant of the fence is IInv: a lease handle stands for  *)
(* a grant of the row (TokenInv), grants of one generation are equal        *)
(* (SameGeneration), so whoever may still run the effect of a generation is *)
(* the only one and has not run it (RunInv).                                *)
(*                                                                         *)
(* The one of the mirror is MirrorIInv.  An acknowledgement compares only   *)
(* intents, so a late caller can clear the marker of another one with the   *)
(* same intent; Holding, GuardTells and MadeOnce together say that then     *)
(* both stand for the same transition of the row.                           *)
(***************************************************************************)
EXTENDS DurableFence, CheckpointMirror, TLAPS
-------------------------------------------------------------------------------
(* The durable fence                                                         *)


\* Two granted leases of the same generation are the same lease.
LEMMA SameGeneration ==
  ASSUME TypeOK, RowInv, NEW l \in LeaseIds, NEW m \in LeaseIds,
         Holds(l), Holds(m), l.generation = m.generation
  PROVE  l = m
  BY NoReservationAssumption DEF Holds, RowInv, TypeOK, StoreTypeOK, LeaseIds

\* While the slot is free, no lease of the current generation was granted.
LEMMA NotHeld ==
  ASSUME TypeOK, RowInv, NEW l \in LeaseIds, l.generation = generation,
         reservation = NoReservation
  PROVE  ~Holds(l)
  BY NoReservationAssumption DEF Holds, RowInv, TypeOK, StoreTypeOK, LeaseIds

\* The generation of a lease that still holds was not committed.
LEMMA HeldNotCommitted ==
  ASSUME TypeOK, RowInv, NEW l \in LeaseIds, Holds(l)
  PROVE  closedBy[l.generation].kind # "commit"
  BY DEF Holds, RowInv, TypeOK, StoreTypeOK, LeaseIds

\* Different handles belong to different generations.
LEMMA TokensDistinct ==
  ASSUME TypeOK, RowInv, TokenInv, NEW p \in Procs, NEW q \in Procs,
         NEW l \in Tokens(p), NEW m \in Tokens(q), l # m
  PROVE  l.generation # m.generation
  <1>1. l \in LeaseIds /\ m \in LeaseIds
    BY DEF TypeOK, Tokens, InFlight
  <1> QED BY <1>1, SameGeneration DEF TokenInv

\* Before bootstrap there is no handle, no effect and no receipt.
LEMMA InitInv == Init => IInv
<1> SUFFICES ASSUME Init PROVE IInv
  OBVIOUS
<1>1. TypeOK
  <2>1. Open \in Transitions
    BY DEF Open, Transitions
  <2>2. StoreTypeOK
    <3>1. 0 \in 0..MaxGen
      BY MaxGenAssumption
    <3>2. closedBy \in [0..MaxGen -> Transitions]
      BY <2>1 DEF Init, StoreInit
    <3> QED BY <3>1, <3>2 DEF Init, StoreInit, StoreTypeOK
  <2>3. view \in [Coordinators -> Views]
    BY DEF Init, Views
  <2> QED BY <2>2, <2>3 DEF Init, TypeOK, Phases
<1>2. RowInv
  BY MaxGenAssumption DEF Init, StoreInit, RowInv, Open
<1>3. TokenInv
  BY DEF Init, TokenInv, Tokens, InFlight
<1>4. RunInv
  BY DEF Init, RunInv, OneEffectPerGeneration, EffectAccountedFor
<1>5. ReceiptInv /\ ViewInv
  BY DEF Init, ReceiptInv, ReceiptsTruthful, ViewInv
<1> QED BY <1>1, <1>2, <1>3, <1>4, <1>5 DEF IInv

\* bootstrap inserts the row and leaves processes alone.
LEMMA BootstrapStep ==
  ASSUME IInv, UNCHANGED patient, NEW p \in Procs, Bootstrap(p)
  PROVE  IInv'
<1>1. TypeOK'
  BY MaxGenAssumption, NoReservationAssumption DEF IInv, Bootstrap,
     Initialize, procVars, TypeOK, StoreTypeOK, Phases, Outcomes, Receipts,
     Views, LeaseIds, Transitions
<1>2. RowInv'
  BY MaxGenAssumption, NoReservationAssumption DEF IInv, Bootstrap,
     Initialize, procVars, RowInv, TypeOK, StoreTypeOK, LeaseIds, TokenInv
<1>3. TokenInv'
  BY MaxGenAssumption, NoReservationAssumption DEF IInv, Bootstrap,
     Initialize, procVars, TokenInv, Tokens, InFlight, Holds, TypeOK,
     StoreTypeOK, RowInv
<1>4. RunInv'
  BY MaxGenAssumption, NoReservationAssumption DEF IInv, Bootstrap,
     Initialize, procVars, RunInv, OneEffectPerGeneration, EffectAccountedFor,
     TypeOK, StoreTypeOK, RowInv, TokenInv, Tokens, InFlight, Holds
<1>5. ReceiptInv'
  BY MaxGenAssumption, NoReservationAssumption DEF IInv, Bootstrap,
     Initialize, procVars, ReceiptInv, ReceiptsTruthful, RunInv,
     OneEffectPerGeneration, TokenInv, Tokens, InFlight, Holds, TypeOK,
     StoreTypeOK, RowInv, Receipts
<1>6. ViewInv'
  BY MaxGenAssumption, NoReservationAssumption DEF IInv, Bootstrap,
     Initialize, procVars, ViewInv, TypeOK, StoreTypeOK, RowInv
<1> QED BY <1>1, <1>2, <1>3, <1>4, <1>5, <1>6 DEF IInv

\* A local world change touches no shared state.
LEMMA LocalChangeStep ==
  ASSUME IInv, UNCHANGED patient, NEW p \in Procs, NEW w \in Worlds, LocalChange(p, w)
  PROVE  IInv'
<1>1. TypeOK'
  BY MaxGenAssumption, NoReservationAssumption DEF IInv, LocalChange,
     storeVars, TypeOK, StoreTypeOK, Phases, Outcomes, Receipts, Views,
     LeaseIds, Transitions
<1>2. RowInv'
  BY MaxGenAssumption, NoReservationAssumption DEF IInv, LocalChange,
     storeVars, RowInv, TypeOK, StoreTypeOK, LeaseIds, TokenInv
<1>3. TokenInv'
  BY MaxGenAssumption, NoReservationAssumption DEF IInv, LocalChange,
     storeVars, TokenInv, Tokens, InFlight, Holds, TypeOK, StoreTypeOK, RowInv
<1>4. RunInv'
  BY MaxGenAssumption, NoReservationAssumption DEF IInv, LocalChange,
     storeVars, RunInv, OneEffectPerGeneration, EffectAccountedFor, TypeOK,
     StoreTypeOK, RowInv, TokenInv, Tokens, InFlight, Holds
<1>5. ReceiptInv'
  BY MaxGenAssumption, NoReservationAssumption DEF IInv, LocalChange,
     storeVars, ReceiptInv, ReceiptsTruthful, RunInv, OneEffectPerGeneration,
     TokenInv, Tokens, InFlight, Holds, TypeOK, StoreTypeOK, RowInv, Receipts
<1>6. ViewInv'
  BY MaxGenAssumption, NoReservationAssumption DEF IInv, LocalChange,
     storeVars, ViewInv, TypeOK, StoreTypeOK, RowInv
<1> QED BY <1>1, <1>2, <1>3, <1>4, <1>5, <1>6 DEF IInv

\* Reading the row before reserving takes nothing.
LEMMA IssueReadStep ==
  ASSUME IInv, UNCHANGED patient, NEW p \in Procs, NEW a \in Auths, IssueRead(p, a)
  PROVE  IInv'
<1>1. TypeOK'
  BY MaxGenAssumption, NoReservationAssumption DEF IInv, IssueRead, storeVars,
     Goto, TypeOK, StoreTypeOK, Phases, Outcomes, Receipts, Views, LeaseIds,
     Transitions
<1>2. RowInv'
  BY MaxGenAssumption, NoReservationAssumption DEF IInv, IssueRead, storeVars,
     Goto, RowInv, TypeOK, StoreTypeOK, LeaseIds, TokenInv
<1>3. TokenInv'
  BY MaxGenAssumption, NoReservationAssumption DEF IInv, IssueRead, storeVars,
     Goto, TokenInv, Tokens, InFlight, Holds, TypeOK, StoreTypeOK, RowInv
<1>4. RunInv'
  BY MaxGenAssumption, NoReservationAssumption DEF IInv, IssueRead, storeVars,
     Goto, RunInv, OneEffectPerGeneration, EffectAccountedFor, TypeOK,
     StoreTypeOK, RowInv, TokenInv, Tokens, InFlight, Holds
<1>5. ReceiptInv'
  BY MaxGenAssumption, NoReservationAssumption DEF IInv, IssueRead, storeVars,
     Goto, ReceiptInv, ReceiptsTruthful, RunInv, OneEffectPerGeneration,
     TokenInv, Tokens, InFlight, Holds, TypeOK, StoreTypeOK, RowInv, Receipts
<1>6. ViewInv'
  BY MaxGenAssumption, NoReservationAssumption DEF IInv, IssueRead, storeVars,
     Goto, ViewInv, TypeOK, StoreTypeOK, RowInv
<1> QED BY <1>1, <1>2, <1>3, <1>4, <1>5, <1>6 DEF IInv

\* reserve_effect hands out a grant nobody else has.
LEMMA IssueReserveStep ==
  ASSUME IInv, UNCHANGED patient, NEW p \in Procs, IssueReserve(p)
  PROVE  IInv'
<1>1. TypeOK'
  BY MaxGenAssumption, NoReservationAssumption DEF IInv, IssueReserve,
     ReserveEffect, MayReserve, ExpectWorld, Goto, TypeOK, StoreTypeOK,
     Phases, Outcomes, Receipts, Views, LeaseIds, Transitions
<1>2. RowInv'
  BY MaxGenAssumption, NoReservationAssumption DEF IInv, IssueReserve,
     ReserveEffect, MayReserve, ExpectWorld, Goto, RowInv, TypeOK,
     StoreTypeOK, LeaseIds, TokenInv
<1>3. TokenInv'
  <2>0. /\ generation = lease[p].generation /\ reservation = NoReservation
        /\ lease[p] \in LeaseIds /\ InFlight(p) = {} /\ InFlight(p)' = {}
        /\ reservation' = lease[p] /\ generation' = generation
        /\ closedBy' = closedBy /\ initialized' = initialized
    BY NoReservationAssumption DEF IInv, IssueReserve, ReserveEffect,
       MayReserve, ExpectWorld, Goto, TypeOK, StoreTypeOK, InFlight
  <2>1. \A q \in Procs : q # p => Tokens(q)' = Tokens(q)
    BY DEF IInv, IssueReserve, Goto, TypeOK, Tokens, InFlight
  <2>2. Tokens(p)' = live[p] \cup {lease[p]}
    BY <2>0 DEF IInv, IssueReserve, TypeOK, Tokens
  <2>3. \A q \in Procs : Tokens(q) \subseteq LeaseIds
    BY DEF IInv, TypeOK, Tokens, InFlight
  <2>4. \A q \in Procs : lease[p] \notin Tokens(q)
    BY <2>0, NotHeld DEF IInv, TokenInv
  <2>5. \A l \in LeaseIds : Holds(l) => Holds(l)'
    BY <2>0, NoReservationAssumption DEF Holds
  <2>6. \A l \in LeaseIds : l = lease[p] => Holds(l)'
    BY <2>0 DEF Holds
  <2>7. \A q \in Procs : \A l \in Tokens(q)' : Holds(l)'
    BY <2>0, <2>1, <2>2, <2>3, <2>5, <2>6 DEF IInv, TokenInv, Tokens
  <2>8. \A q \in Procs : (InFlight(q) \cap live[q] = {})'
    BY <2>0, <2>1 DEF IInv, TokenInv, TypeOK, InFlight, IssueReserve, Goto
  <2>9. \A q, r \in Procs : q # r => Tokens(q)' \cap Tokens(r)' = {}
    BY <2>1, <2>2, <2>4 DEF IInv, TokenInv, Tokens
  <2>10. \A q \in Procs : pc'[q] = "issuing" =>
            lease'[q].generation < MaxGen /\ initialized'
    BY <2>0 DEF IInv, TokenInv, TypeOK, IssueReserve, Goto
  <2> QED BY <2>7, <2>8, <2>9, <2>10 DEF TokenInv
<1>4. RunInv'
  <2>0. /\ generation = lease[p].generation /\ reservation = NoReservation
        /\ lease[p] \in LeaseIds /\ generation \in 0..MaxGen
        /\ executed' = executed /\ closedBy' = closedBy
        /\ generation' = generation /\ reservation' = lease[p]
    BY NoReservationAssumption DEF IInv, IssueReserve, ReserveEffect,
       MayReserve, ExpectWorld, Goto, TypeOK, StoreTypeOK
  <2>1. executed[generation] = 0
    BY <2>0 DEF IInv, RunInv, EffectAccountedFor, OneEffectPerGeneration,
       RowInv, TypeOK, StoreTypeOK, LeaseIds
  <2>2. \A q \in Procs : \A l \in live'[q] : executed'[l.generation] = 0
    BY <2>0, <2>1 DEF IInv, RunInv, TypeOK, IssueReserve
  <2>3. \A q \in Procs :
          /\ pc'[q] = "effect" => executed'[lease'[q].generation] = 0
          /\ pc'[q] = "succeeded" => executed'[lease'[q].generation] = 1
    BY <2>0 DEF IInv, RunInv, TypeOK, IssueReserve, Goto
  <2>4. OneEffectPerGeneration' /\ EffectAccountedFor'
    BY <2>0, <2>1, NoReservationAssumption
       DEF IInv, RunInv, OneEffectPerGeneration, EffectAccountedFor
  <2> QED BY <2>2, <2>3, <2>4 DEF RunInv
<1>5. ReceiptInv'
  <2>0. /\ generation = lease[p].generation /\ reservation = NoReservation
        /\ lease[p] \in LeaseIds /\ executed' = executed /\ closedBy' = closedBy
        /\ receipts' = receipts /\ generation' = generation
        /\ reservation' = lease[p]
    BY NoReservationAssumption DEF IInv, IssueReserve, ReserveEffect,
       MayReserve, ExpectWorld, Goto, TypeOK
  <2>1. ReceiptsTruthful'
    BY <2>0 DEF IInv, ReceiptInv, ReceiptsTruthful
  <2>2. \A r \in receipts : r.lease \in LeaseIds
    BY DEF IInv, TypeOK, Receipts
  <2>3. \A r \in receipts : r.outcome # "SUCCEEDED" =>
          Holds(r.lease)' /\ r.lease # lease[p]
    BY <2>0, <2>2, NotHeld, NoReservationAssumption DEF IInv, ReceiptInv, Holds
  <2>4. \A q \in Procs : Tokens(q)' \subseteq Tokens(q) \cup {lease[p]}
    BY DEF IInv, TypeOK, IssueReserve, Goto, Tokens, InFlight
  <2> QED BY <2>0, <2>1, <2>3, <2>4 DEF IInv, ReceiptInv
<1>6. ViewInv'
  BY MaxGenAssumption, NoReservationAssumption DEF IInv, IssueReserve,
     ReserveEffect, MayReserve, ExpectWorld, Goto, ViewInv, TypeOK,
     StoreTypeOK, RowInv
<1> QED BY <1>1, <1>2, <1>3, <1>4, <1>5, <1>6 DEF IInv

\* A refused reservation leaves nothing behind.
LEMMA IssueRefusedStep ==
  ASSUME IInv, UNCHANGED patient, NEW p \in Procs, IssueRefused(p)
  PROVE  IInv'
<1>1. TypeOK'
  BY MaxGenAssumption, NoReservationAssumption DEF IInv, IssueRefused,
     storeVars, Goto, TypeOK, StoreTypeOK, Phases, Outcomes, Receipts, Views,
     LeaseIds, Transitions
<1>2. RowInv'
  BY MaxGenAssumption, NoReservationAssumption DEF IInv, IssueRefused,
     storeVars, Goto, RowInv, TypeOK, StoreTypeOK, LeaseIds, TokenInv
<1>3. TokenInv'
  BY MaxGenAssumption, NoReservationAssumption DEF IInv, IssueRefused,
     storeVars, Goto, TokenInv, Tokens, InFlight, Holds, TypeOK, StoreTypeOK,
     RowInv
<1>4. RunInv'
  BY MaxGenAssumption, NoReservationAssumption DEF IInv, IssueRefused,
     storeVars, Goto, RunInv, OneEffectPerGeneration, EffectAccountedFor,
     TypeOK, StoreTypeOK, RowInv, TokenInv, Tokens, InFlight, Holds
<1>5. ReceiptInv'
  BY MaxGenAssumption, NoReservationAssumption DEF IInv, IssueRefused,
     storeVars, Goto, ReceiptInv, ReceiptsTruthful, RunInv,
     OneEffectPerGeneration, TokenInv, Tokens, InFlight, Holds, TypeOK,
     StoreTypeOK, RowInv, Receipts
<1>6. ViewInv'
  BY MaxGenAssumption, NoReservationAssumption DEF IInv, IssueRefused,
     storeVars, Goto, ViewInv, TypeOK, StoreTypeOK, RowInv
<1> QED BY <1>1, <1>2, <1>3, <1>4, <1>5, <1>6 DEF IInv

\* Burning an expired handle only removes it.
LEMMA ConsumeTimeInvalidStep ==
  ASSUME IInv, UNCHANGED patient, NEW p \in Procs, NEW l \in live[p], ConsumeTimeInvalid(p, l)
  PROVE  IInv'
<1>1. TypeOK'
  BY MaxGenAssumption, NoReservationAssumption DEF IInv, ConsumeTimeInvalid,
     storeVars, TypeOK, StoreTypeOK, Phases, Outcomes, Receipts, Views,
     LeaseIds, Transitions
<1>2. RowInv'
  BY MaxGenAssumption, NoReservationAssumption DEF IInv, ConsumeTimeInvalid,
     storeVars, RowInv, TypeOK, StoreTypeOK, LeaseIds, TokenInv
<1>3. TokenInv'
  BY MaxGenAssumption, NoReservationAssumption DEF IInv, ConsumeTimeInvalid,
     storeVars, TokenInv, Tokens, InFlight, Holds, TypeOK, StoreTypeOK, RowInv
<1>4. RunInv'
  BY MaxGenAssumption, NoReservationAssumption DEF IInv, ConsumeTimeInvalid,
     storeVars, RunInv, OneEffectPerGeneration, EffectAccountedFor, TypeOK,
     StoreTypeOK, RowInv, TokenInv, Tokens, InFlight, Holds
<1>5. ReceiptInv'
  BY MaxGenAssumption, NoReservationAssumption DEF IInv, ConsumeTimeInvalid,
     storeVars, ReceiptInv, ReceiptsTruthful, RunInv, OneEffectPerGeneration,
     TokenInv, Tokens, InFlight, Holds, TypeOK, StoreTypeOK, RowInv, Receipts
<1>6. ViewInv'
  BY MaxGenAssumption, NoReservationAssumption DEF IInv, ConsumeTimeInvalid,
     storeVars, ViewInv, TypeOK, StoreTypeOK, RowInv
<1> QED BY <1>1, <1>2, <1>3, <1>4, <1>5, <1>6 DEF IInv

\* A checked lease moves from the live set into flight.
LEMMA ConsumeCheckStep ==
  ASSUME IInv, UNCHANGED patient, NEW p \in Procs, NEW l \in live[p], ConsumeCheck(p, l)
  PROVE  IInv'
<1>1. TypeOK'
  BY MaxGenAssumption, NoReservationAssumption DEF IInv, ConsumeCheck,
     storeVars, Goto, ReservationMatches, MayCommit, ExpectWorld, TypeOK,
     StoreTypeOK, Phases, Outcomes, Receipts, Views, LeaseIds, Transitions
<1>2. RowInv'
  BY MaxGenAssumption, NoReservationAssumption DEF IInv, ConsumeCheck,
     storeVars, Goto, ReservationMatches, MayCommit, ExpectWorld, RowInv,
     TypeOK, StoreTypeOK, LeaseIds, TokenInv
<1>3. TokenInv'
  BY MaxGenAssumption, NoReservationAssumption DEF IInv, ConsumeCheck,
     storeVars, Goto, ReservationMatches, MayCommit, ExpectWorld, TokenInv,
     Tokens, InFlight, Holds, TypeOK, StoreTypeOK, RowInv
<1>4. RunInv'
  BY MaxGenAssumption, NoReservationAssumption DEF IInv, ConsumeCheck,
     storeVars, Goto, ReservationMatches, MayCommit, ExpectWorld, RunInv,
     OneEffectPerGeneration, EffectAccountedFor, TypeOK, StoreTypeOK, RowInv,
     TokenInv, Tokens, InFlight, Holds
<1>5. ReceiptInv'
  BY MaxGenAssumption, NoReservationAssumption DEF IInv, ConsumeCheck,
     storeVars, Goto, ReservationMatches, MayCommit, ExpectWorld, ReceiptInv,
     ReceiptsTruthful, RunInv, OneEffectPerGeneration, TokenInv, Tokens,
     InFlight, Holds, TypeOK, StoreTypeOK, RowInv, Receipts
<1>6. ViewInv'
  BY MaxGenAssumption, NoReservationAssumption DEF IInv, ConsumeCheck,
     storeVars, Goto, ReservationMatches, MayCommit, ExpectWorld, ViewInv,
     TypeOK, StoreTypeOK, RowInv
<1> QED BY <1>1, <1>2, <1>3, <1>4, <1>5, <1>6 DEF IInv

\* The effect runs on the only handle of its generation.
LEMMA EffectSucceedsStep ==
  ASSUME IInv, UNCHANGED patient, NEW p \in Procs, NEW w \in Worlds, EffectSucceeds(p, w)
  PROVE  IInv'
<1>1. TypeOK'
  <2>1. lease[p] \in LeaseIds /\ lease[p].generation \in 0..MaxGen
    BY DEF IInv, TypeOK, EffectSucceeds, LeaseIds
  <2>2. executed' \in [0..MaxGen -> Nat]
    BY <2>1 DEF IInv, TypeOK, EffectSucceeds
  <2> QED BY <2>1, <2>2 DEF IInv, EffectSucceeds, Goto, TypeOK, StoreTypeOK, storeVars, Phases
<1>2. RowInv'
  BY MaxGenAssumption, NoReservationAssumption DEF IInv, EffectSucceeds,
     storeVars, Goto, RowInv, TypeOK, StoreTypeOK, LeaseIds, TokenInv
<1>3. TokenInv'
  BY MaxGenAssumption, NoReservationAssumption DEF IInv, EffectSucceeds,
     storeVars, Goto, TokenInv, Tokens, InFlight, Holds, TypeOK, StoreTypeOK,
     RowInv
<1>4. RunInv'
  <2>0. /\ pc[p] = "effect" /\ lease[p] \in LeaseIds
        /\ lease[p].generation \in 0..MaxGen /\ lease[p] \in Tokens(p)
        /\ executed[lease[p].generation] = 0
        /\ Holds(lease[p]) /\ InFlight(p)' = {lease[p]}
    BY DEF IInv, TypeOK, EffectSucceeds, Goto, LeaseIds, Tokens, InFlight, TokenInv, RunInv
  <2>1. \A q \in Procs : \A l \in live[q] : l.generation # lease[p].generation
    BY <2>0, TokensDistinct DEF IInv, TypeOK, TokenInv, Tokens, InFlight
  <2>2. \A q \in Procs : q # p /\ pc[q] \in {"effect", "succeeded"} =>
          lease[q].generation # lease[p].generation
    BY <2>0, TokensDistinct DEF IInv, TypeOK, TokenInv, Tokens, InFlight
  <2>3. /\ executed' \in [0..MaxGen -> Nat]
        /\ executed'[lease[p].generation] \in {0, 1}
        /\ pc'[p] = "succeeded" => executed'[lease[p].generation] = 1
        /\ \A g \in 0..MaxGen : g # lease[p].generation =>
              executed'[g] = executed[g]
    BY <2>0 DEF IInv, TypeOK, EffectSucceeds, Goto
  <2>4. \A q \in Procs : \A l \in live'[q] : executed'[l.generation] = 0
    BY <2>1, <2>3 DEF IInv, RunInv, TypeOK, EffectSucceeds, LeaseIds
  <2>5. \A q \in Procs :
          /\ pc'[q] = "effect" => executed'[lease'[q].generation] = 0
          /\ pc'[q] = "succeeded" => executed'[lease'[q].generation] = 1
    BY <2>0, <2>2, <2>3 DEF IInv, RunInv, TypeOK, EffectSucceeds, Goto, LeaseIds
  <2>6. OneEffectPerGeneration'
    BY <2>0, <2>3 DEF IInv, RunInv, OneEffectPerGeneration
  <2>7. EffectAccountedFor'
    BY <2>0, <2>3, NoReservationAssumption
       DEF IInv, RunInv, EffectAccountedFor, EffectSucceeds, storeVars, Holds
  <2> QED BY <2>4, <2>5, <2>6, <2>7 DEF RunInv
<1>5. ReceiptInv'
  <2>0. /\ pc[p] = "effect" /\ lease[p] \in LeaseIds /\ lease[p] \in Tokens(p)
        /\ executed[lease[p].generation] = 0 /\ receipts' = receipts
        /\ UNCHANGED storeVars
    BY DEF IInv, TypeOK, EffectSucceeds, Tokens, InFlight, RunInv
  <2>1. \A g \in 0..MaxGen : g # lease[p].generation => executed'[g] = executed[g]
    BY DEF IInv, TypeOK, EffectSucceeds
  <2>2. \A r \in receipts : r \in Receipts /\ r.lease.generation \in 0..MaxGen
    BY DEF IInv, TypeOK, Receipts, LeaseIds
  <2>3. ReceiptsTruthful'
    <3> SUFFICES ASSUME NEW r \in receipts
                 PROVE  (/\ r.outcome = "SUCCEEDED" =>
                            /\ closedBy[r.lease.generation] = [kind |-> "commit", by |-> r.lease]
                            /\ executed[r.lease.generation] = 1
                            /\ r.generation_after = r.lease.generation + 1
                         /\ r.outcome # "SUCCEEDED" =>
                            closedBy[r.lease.generation].kind # "commit")'
      BY <2>0 DEF ReceiptsTruthful
    <3>1. closedBy' = closedBy
      BY <2>0 DEF storeVars
    <3>2. executed[r.lease.generation] = 1 => executed'[r.lease.generation] = 1
      BY <2>0, <2>1, <2>2
    <3> QED BY <3>1, <3>2 DEF IInv, ReceiptInv, ReceiptsTruthful
  <2>4. \A q \in Procs : Tokens(q)' \subseteq Tokens(q)
    BY <2>0 DEF IInv, TypeOK, EffectSucceeds, Goto, Tokens, InFlight
  <2>5. \A r \in receipts : Holds(r.lease)' <=> Holds(r.lease)
    BY <2>0 DEF Holds, storeVars
  <2> QED BY <2>0, <2>3, <2>4, <2>5 DEF IInv, ReceiptInv
<1>6. ViewInv'
  BY MaxGenAssumption, NoReservationAssumption DEF IInv, EffectSucceeds,
     storeVars, Goto, ViewInv, TypeOK, StoreTypeOK, RowInv
<1> QED BY <1>1, <1>2, <1>3, <1>4, <1>5, <1>6 DEF IInv

\* A failing effect runs at most once and keeps its grant.
LEMMA EffectFailsStep ==
  ASSUME IInv, UNCHANGED patient, NEW p \in Procs, NEW w \in Worlds, EffectFails(p, w)
  PROVE  IInv'
<1>1. TypeOK'
  <2>1. lease[p] \in LeaseIds /\ lease[p].generation \in 0..MaxGen
    BY DEF IInv, TypeOK, EffectFails, LeaseIds
  <2>2. executed' \in [0..MaxGen -> Nat]
    BY <2>1 DEF IInv, TypeOK, EffectFails
  <2> QED BY <2>1, <2>2 DEF IInv, EffectFails, Goto, TypeOK, StoreTypeOK, storeVars, Phases
<1>2. RowInv'
  BY MaxGenAssumption, NoReservationAssumption DEF IInv, EffectFails,
     storeVars, Goto, RowInv, TypeOK, StoreTypeOK, LeaseIds, TokenInv
<1>3. TokenInv'
  BY MaxGenAssumption, NoReservationAssumption DEF IInv, EffectFails,
     storeVars, Goto, TokenInv, Tokens, InFlight, Holds, TypeOK, StoreTypeOK,
     RowInv
<1>4. RunInv'
  <2>0. /\ pc[p] = "effect" /\ lease[p] \in LeaseIds
        /\ lease[p].generation \in 0..MaxGen /\ lease[p] \in Tokens(p)
        /\ executed[lease[p].generation] = 0
        /\ Holds(lease[p]) /\ InFlight(p)' = {lease[p]}
    BY DEF IInv, TypeOK, EffectFails, Goto, LeaseIds, Tokens, InFlight, TokenInv, RunInv
  <2>1. \A q \in Procs : \A l \in live[q] : l.generation # lease[p].generation
    BY <2>0, TokensDistinct DEF IInv, TypeOK, TokenInv, Tokens, InFlight
  <2>2. \A q \in Procs : q # p /\ pc[q] \in {"effect", "succeeded"} =>
          lease[q].generation # lease[p].generation
    BY <2>0, TokensDistinct DEF IInv, TypeOK, TokenInv, Tokens, InFlight
  <2>3. /\ executed' \in [0..MaxGen -> Nat]
        /\ executed'[lease[p].generation] \in {0, 1}
        /\ pc'[p] = "succeeded" => executed'[lease[p].generation] = 1
        /\ \A g \in 0..MaxGen : g # lease[p].generation =>
              executed'[g] = executed[g]
    <3>1. pc'[p] = "failed"
      BY DEF IInv, TypeOK, EffectFails, Goto
    <3>2. \/ executed' = executed
          \/ executed' = [executed EXCEPT ![lease[p].generation] = 1]
      <4>1. executed[lease[p].generation] + 1 = 1
        BY <2>0
      <4>2. \/ executed' = executed
            \/ executed' = [executed EXCEPT ![lease[p].generation]
                                 = executed[lease[p].generation] + 1]
        BY DEF EffectFails
      <4> QED BY <4>1, <4>2
    <3>3. CASE executed' = executed
      BY <2>0, <3>1, <3>3 DEF IInv, TypeOK
    <3>4. CASE executed' = [executed EXCEPT ![lease[p].generation] = 1]
      <4>1. executed \in [0..MaxGen -> Nat]
        BY DEF IInv, TypeOK
      <4> QED BY <2>0, <3>1, <3>4, <4>1
    <3> QED BY <3>2, <3>3, <3>4
  <2>4. \A q \in Procs : \A l \in live'[q] : executed'[l.generation] = 0
    BY <2>1, <2>3 DEF IInv, RunInv, TypeOK, EffectFails, LeaseIds
  <2>5. \A q \in Procs :
          /\ pc'[q] = "effect" => executed'[lease'[q].generation] = 0
          /\ pc'[q] = "succeeded" => executed'[lease'[q].generation] = 1
    BY <2>0, <2>2, <2>3 DEF IInv, RunInv, TypeOK, EffectFails, Goto, LeaseIds
  <2>6. OneEffectPerGeneration'
    BY <2>0, <2>3 DEF IInv, RunInv, OneEffectPerGeneration
  <2>7. EffectAccountedFor'
    BY <2>0, <2>3, NoReservationAssumption
       DEF IInv, RunInv, EffectAccountedFor, EffectFails, storeVars, Holds
  <2> QED BY <2>4, <2>5, <2>6, <2>7 DEF RunInv
<1>5. ReceiptInv'
  <2>0. /\ pc[p] = "effect" /\ lease[p] \in LeaseIds /\ lease[p] \in Tokens(p)
        /\ executed[lease[p].generation] = 0 /\ receipts' = receipts
        /\ UNCHANGED storeVars
    BY DEF IInv, TypeOK, EffectFails, Tokens, InFlight, RunInv
  <2>1. \A g \in 0..MaxGen : g # lease[p].generation => executed'[g] = executed[g]
    BY DEF IInv, TypeOK, EffectFails
  <2>2. \A r \in receipts : r \in Receipts /\ r.lease.generation \in 0..MaxGen
    BY DEF IInv, TypeOK, Receipts, LeaseIds
  <2>3. ReceiptsTruthful'
    <3> SUFFICES ASSUME NEW r \in receipts
                 PROVE  (/\ r.outcome = "SUCCEEDED" =>
                            /\ closedBy[r.lease.generation] = [kind |-> "commit", by |-> r.lease]
                            /\ executed[r.lease.generation] = 1
                            /\ r.generation_after = r.lease.generation + 1
                         /\ r.outcome # "SUCCEEDED" =>
                            closedBy[r.lease.generation].kind # "commit")'
      BY <2>0 DEF ReceiptsTruthful
    <3>1. closedBy' = closedBy
      BY <2>0 DEF storeVars
    <3>2. executed[r.lease.generation] = 1 => executed'[r.lease.generation] = 1
      BY <2>0, <2>1, <2>2
    <3> QED BY <3>1, <3>2 DEF IInv, ReceiptInv, ReceiptsTruthful
  <2>4. \A q \in Procs : Tokens(q)' \subseteq Tokens(q)
    BY <2>0 DEF IInv, TypeOK, EffectFails, Goto, Tokens, InFlight
  <2>5. \A r \in receipts : Holds(r.lease)' <=> Holds(r.lease)
    BY <2>0 DEF Holds, storeVars
  <2> QED BY <2>0, <2>3, <2>4, <2>5 DEF IInv, ReceiptInv
<1>6. ViewInv'
  BY MaxGenAssumption, NoReservationAssumption DEF IInv, EffectFails,
     storeVars, Goto, ViewInv, TypeOK, StoreTypeOK, RowInv
<1> QED BY <1>1, <1>2, <1>3, <1>4, <1>5, <1>6 DEF IInv

\* The failure receipt is written when the handle is gone.
LEMMA RecordFailureStep ==
  ASSUME IInv, UNCHANGED patient, NEW p \in Procs, RecordFailure(p)
  PROVE  IInv'
<1>1. TypeOK'
  <2>1. /\ lease[p] \in LeaseIds /\ generation \in 0..MaxGen
        /\ "EFFECT_FAILED_RESERVATION_STUCK" \in Outcomes
    BY DEF IInv, TypeOK, StoreTypeOK, RecordFailure, Outcomes
  <2>2. receipts' \subseteq Receipts
    BY <2>1 DEF IInv, TypeOK, RecordFailure, AppendCommit, Receipts
  <2> QED BY <2>2 DEF IInv, RecordFailure, storeVars, Goto, TypeOK, StoreTypeOK, Phases
<1>2. RowInv'
  BY MaxGenAssumption, NoReservationAssumption DEF IInv, RecordFailure,
     storeVars, Goto, AppendCommit, RowInv, TypeOK, StoreTypeOK, LeaseIds,
     TokenInv
<1>3. TokenInv'
  BY MaxGenAssumption, NoReservationAssumption DEF IInv, RecordFailure,
     storeVars, Goto, AppendCommit, TokenInv, Tokens, InFlight, Holds, TypeOK,
     StoreTypeOK, RowInv
<1>4. RunInv'
  BY MaxGenAssumption, NoReservationAssumption DEF IInv, RecordFailure,
     storeVars, Goto, AppendCommit, RunInv, OneEffectPerGeneration,
     EffectAccountedFor, TypeOK, StoreTypeOK, RowInv, TokenInv, Tokens,
     InFlight, Holds
<1>5. ReceiptInv'
  <2>0. /\ lease[p] \in LeaseIds /\ lease[p] \in Tokens(p) /\ Holds(lease[p])
        /\ lease[p] \notin live[p] /\ UNCHANGED <<storeVars, executed, live>>
    BY DEF IInv, TypeOK, RecordFailure, Tokens, InFlight, TokenInv
  <2>1. PICK new \in Receipts :
          /\ new.lease = lease[p] /\ new.outcome # "SUCCEEDED"
          /\ receipts' = receipts \cup {new}
    BY <2>0 DEF IInv, TypeOK, StoreTypeOK, RecordFailure, AppendCommit, Receipts, Outcomes
  <2>2. closedBy[lease[p].generation].kind # "commit"
    BY <2>0, HeldNotCommitted DEF IInv
  <2>3. ReceiptsTruthful'
    BY <2>0, <2>1, <2>2 DEF IInv, ReceiptInv, ReceiptsTruthful, storeVars
  <2>4. /\ Tokens(p)' = live[p]
        /\ \A q \in Procs : q # p => Tokens(q)' = Tokens(q)
    BY <2>0 DEF IInv, TypeOK, RecordFailure, Goto, Tokens, InFlight
  <2>5. \A q \in Procs : lease[p] \notin Tokens(q)'
    BY <2>0, <2>4 DEF IInv, TokenInv
  <2>6. \A l : Holds(l)' <=> Holds(l)
    BY <2>0 DEF Holds, storeVars
  <2>7. \A q \in Procs : Tokens(q)' \subseteq Tokens(q)
    BY <2>4 DEF Tokens
  <2> QED BY <2>0, <2>1, <2>3, <2>5, <2>6, <2>7 DEF IInv, ReceiptInv
<1>6. ViewInv'
  BY MaxGenAssumption, NoReservationAssumption DEF IInv, RecordFailure,
     storeVars, Goto, AppendCommit, ViewInv, TypeOK, StoreTypeOK, RowInv
<1> QED BY <1>1, <1>2, <1>3, <1>4, <1>5, <1>6 DEF IInv

\* commit_effect closes the generation of its own lease.
LEMMA FinalizeStep ==
  ASSUME IInv, UNCHANGED patient, NEW p \in Procs, Finalize(p)
  PROVE  IInv'
<1>1. TypeOK'
  <2>1. /\ lease[p] \in LeaseIds /\ generation < MaxGen
        /\ generation \in 0..MaxGen /\ generation + 1 \in 0..MaxGen
    BY MaxGenAssumption, NoReservationAssumption DEF IInv, TypeOK, StoreTypeOK,
       RowInv, Finalize, CommitEffect, MayCommit
  <2>2. StoreTypeOK'
    BY <2>1 DEF IInv, TypeOK, StoreTypeOK, Finalize, CommitEffect, Advance,
       Transitions
  <2>3. receipts' \subseteq Receipts
    BY <2>1 DEF IInv, TypeOK, Finalize, AppendCommit, Receipts, Outcomes
  <2> QED BY <2>2, <2>3 DEF IInv, TypeOK, Finalize, Goto, Phases
<1>2. RowInv'
  BY MaxGenAssumption, NoReservationAssumption DEF IInv, Finalize,
     CommitEffect, MayCommit, ExpectWorld, Advance, Goto, AppendCommit,
     RowInv, TypeOK, StoreTypeOK, LeaseIds, TokenInv
<1>3. TokenInv'
  BY MaxGenAssumption, NoReservationAssumption DEF IInv, Finalize,
     CommitEffect, MayCommit, ExpectWorld, Advance, Goto, AppendCommit,
     TokenInv, Tokens, InFlight, Holds, TypeOK, StoreTypeOK, RowInv
<1>4. RunInv'
  BY MaxGenAssumption, NoReservationAssumption DEF IInv, Finalize,
     CommitEffect, MayCommit, ExpectWorld, Advance, Goto, AppendCommit,
     RunInv, OneEffectPerGeneration, EffectAccountedFor, TypeOK, StoreTypeOK,
     RowInv, TokenInv, Tokens, InFlight, Holds
<1>5. ReceiptInv'
  <2> DEFINE new == [lease |-> lease[p], generation_after |-> generation + 1,
                     outcome |-> "SUCCEEDED"]
  <2>0. /\ lease[p] \in LeaseIds /\ lease[p].generation = generation
        /\ reservation = lease[p] /\ lease[p] \in Tokens(p)
        /\ executed' = executed /\ executed[generation] = 1
        /\ receipts' = receipts \cup {new}
        /\ generation \in 0..MaxGen
    BY DEF IInv, TypeOK, StoreTypeOK, RunInv, Finalize, CommitEffect, MayCommit,
       ExpectWorld, AppendCommit, Tokens, InFlight
  <2>1. /\ closedBy'[generation] = [kind |-> "commit", by |-> lease[p]]
        /\ \A g \in 0..MaxGen : g # generation => closedBy'[g] = closedBy[g]
    BY <2>0 DEF IInv, TypeOK, StoreTypeOK, Finalize, CommitEffect, Advance
  <2>2. \A r \in receipts : r \in Receipts /\ r.lease \in LeaseIds
                              /\ r.lease.generation \in 0..MaxGen
    BY DEF IInv, TypeOK, Receipts, LeaseIds
  <2>3. \A r \in receipts : r.outcome # "SUCCEEDED" =>
          r.lease # lease[p] /\ r.lease.generation # generation
    BY <2>0, <2>2, SameGeneration DEF IInv, ReceiptInv, Holds
  <2>4. \A r \in receipts : r.outcome = "SUCCEEDED" =>
          r.lease.generation # generation
    <3>1. closedBy[generation].kind = "open"
      BY <2>0, MaxGenAssumption DEF IInv, RowInv, TypeOK, StoreTypeOK
    <3>2. ASSUME NEW r \in receipts, r.outcome = "SUCCEEDED"
          PROVE  closedBy[r.lease.generation].kind = "commit"
      <4>1. closedBy[r.lease.generation] = [kind |-> "commit", by |-> r.lease]
        BY <3>2 DEF IInv, ReceiptInv, ReceiptsTruthful
      <4> QED BY <4>1
    <3> QED BY <3>1, <3>2
  <2>5. ReceiptsTruthful'
    <3>1. ASSUME NEW r \in receipts
          PROVE  /\ closedBy'[r.lease.generation] = closedBy[r.lease.generation]
                 /\ executed'[r.lease.generation] = executed[r.lease.generation]
      BY <2>0, <2>1, <2>2, <2>3, <2>4
    <3>2. /\ closedBy'[new.lease.generation] = [kind |-> "commit", by |-> new.lease]
          /\ executed'[new.lease.generation] = 1
          /\ new.generation_after = new.lease.generation + 1
          /\ new.outcome = "SUCCEEDED"
      BY <2>0, <2>1
    <3> HIDE DEF new
    <3> QED BY <2>0, <3>1, <3>2 DEF IInv, ReceiptInv, ReceiptsTruthful
  <2>6. \A r \in receipts : r.outcome # "SUCCEEDED" => Holds(r.lease)'
    BY <2>1, <2>2, <2>3 DEF IInv, ReceiptInv, Holds
  <2>7. \A q \in Procs : Tokens(q)' \subseteq Tokens(q)
    BY DEF IInv, TypeOK, Finalize, Goto, Tokens, InFlight
  <2> QED BY <2>0, <2>5, <2>6, <2>7 DEF IInv, ReceiptInv
<1>6. ViewInv'
  BY MaxGenAssumption, NoReservationAssumption DEF IInv, Finalize,
     CommitEffect, MayCommit, ExpectWorld, Advance, Goto, AppendCommit,
     ViewInv, TypeOK, StoreTypeOK, RowInv
<1> QED BY <1>1, <1>2, <1>3, <1>4, <1>5, <1>6 DEF IInv

\* A failed commit writes its receipt and keeps the row.
LEMMA FinalizeFailsStep ==
  ASSUME IInv, UNCHANGED patient, NEW p \in Procs, FinalizeFails(p)
  PROVE  IInv'
<1>1. TypeOK'
  <2>1. /\ lease[p] \in LeaseIds /\ generation \in 0..MaxGen
        /\ "EFFECT_SUCCEEDED_DURABLE_COMMIT_FAILED" \in Outcomes
    BY DEF IInv, TypeOK, StoreTypeOK, FinalizeFails, Outcomes
  <2>2. receipts' \subseteq Receipts
    BY <2>1 DEF IInv, TypeOK, FinalizeFails, AppendCommit, Receipts
  <2> QED BY <2>2 DEF IInv, FinalizeFails, storeVars, Goto, TypeOK, StoreTypeOK, Phases
<1>2. RowInv'
  BY MaxGenAssumption, NoReservationAssumption DEF IInv, FinalizeFails,
     storeVars, Goto, AppendCommit, RowInv, TypeOK, StoreTypeOK, LeaseIds,
     TokenInv
<1>3. TokenInv'
  BY MaxGenAssumption, NoReservationAssumption DEF IInv, FinalizeFails,
     storeVars, Goto, AppendCommit, TokenInv, Tokens, InFlight, Holds, TypeOK,
     StoreTypeOK, RowInv
<1>4. RunInv'
  BY MaxGenAssumption, NoReservationAssumption DEF IInv, FinalizeFails,
     storeVars, Goto, AppendCommit, RunInv, OneEffectPerGeneration,
     EffectAccountedFor, TypeOK, StoreTypeOK, RowInv, TokenInv, Tokens,
     InFlight, Holds
<1>5. ReceiptInv'
  <2>0. /\ lease[p] \in LeaseIds /\ lease[p] \in Tokens(p) /\ Holds(lease[p])
        /\ lease[p] \notin live[p] /\ UNCHANGED <<storeVars, executed, live>>
    BY DEF IInv, TypeOK, FinalizeFails, Tokens, InFlight, TokenInv
  <2>1. PICK new \in Receipts :
          /\ new.lease = lease[p] /\ new.outcome # "SUCCEEDED"
          /\ receipts' = receipts \cup {new}
    BY <2>0 DEF IInv, TypeOK, StoreTypeOK, FinalizeFails, AppendCommit, Receipts, Outcomes
  <2>2. closedBy[lease[p].generation].kind # "commit"
    BY <2>0, HeldNotCommitted DEF IInv
  <2>3. ReceiptsTruthful'
    BY <2>0, <2>1, <2>2 DEF IInv, ReceiptInv, ReceiptsTruthful, storeVars
  <2>4. /\ Tokens(p)' = live[p]
        /\ \A q \in Procs : q # p => Tokens(q)' = Tokens(q)
    BY <2>0 DEF IInv, TypeOK, FinalizeFails, Goto, Tokens, InFlight
  <2>5. \A q \in Procs : lease[p] \notin Tokens(q)'
    BY <2>0, <2>4 DEF IInv, TokenInv
  <2>6. \A l : Holds(l)' <=> Holds(l)
    BY <2>0 DEF Holds, storeVars
  <2>7. \A q \in Procs : Tokens(q)' \subseteq Tokens(q)
    BY <2>4 DEF Tokens
  <2> QED BY <2>0, <2>1, <2>3, <2>5, <2>6, <2>7 DEF IInv, ReceiptInv
<1>6. ViewInv'
  BY MaxGenAssumption, NoReservationAssumption DEF IInv, FinalizeFails,
     storeVars, Goto, AppendCommit, ViewInv, TypeOK, StoreTypeOK, RowInv
<1> QED BY <1>1, <1>2, <1>3, <1>4, <1>5, <1>6 DEF IInv

\* A crash only loses handles.
LEMMA CrashStep ==
  ASSUME IInv, UNCHANGED patient, NEW p \in Procs, NEW w \in Worlds, Crash(p, w)
  PROVE  IInv'
<1>1. TypeOK'
  BY MaxGenAssumption, NoReservationAssumption DEF IInv, Crash, storeVars,
     TypeOK, StoreTypeOK, Phases, Outcomes, Receipts, Views, LeaseIds,
     Transitions
<1>2. RowInv'
  BY MaxGenAssumption, NoReservationAssumption DEF IInv, Crash, storeVars,
     RowInv, TypeOK, StoreTypeOK, LeaseIds, TokenInv
<1>3. TokenInv'
  BY MaxGenAssumption, NoReservationAssumption DEF IInv, Crash, storeVars,
     TokenInv, Tokens, InFlight, Holds, TypeOK, StoreTypeOK, RowInv
<1>4. RunInv'
  BY MaxGenAssumption, NoReservationAssumption DEF IInv, Crash, storeVars,
     RunInv, OneEffectPerGeneration, EffectAccountedFor, TypeOK, StoreTypeOK,
     RowInv, TokenInv, Tokens, InFlight, Holds
<1>5. ReceiptInv'
  BY MaxGenAssumption, NoReservationAssumption DEF IInv, Crash, storeVars,
     ReceiptInv, ReceiptsTruthful, RunInv, OneEffectPerGeneration, TokenInv,
     Tokens, InFlight, Holds, TypeOK, StoreTypeOK, RowInv, Receipts
<1>6. ViewInv'
  BY MaxGenAssumption, NoReservationAssumption DEF IInv, Crash, storeVars,
     ViewInv, TypeOK, StoreTypeOK, RowInv
<1> QED BY <1>1, <1>2, <1>3, <1>4, <1>5, <1>6 DEF IInv

\* A coordinator's read changes only its view.
LEMMA CoordinatorReadStep ==
  ASSUME IInv, UNCHANGED patient, NEW c \in Coordinators, CoordinatorRead(c)
  PROVE  IInv'
<1>1. TypeOK'
  BY MaxGenAssumption, NoReservationAssumption DEF IInv, CoordinatorRead,
     storeVars, procVars, TypeOK, StoreTypeOK, Phases, Outcomes, Receipts,
     Views, LeaseIds, Transitions
<1>2. RowInv'
  BY MaxGenAssumption, NoReservationAssumption DEF IInv, CoordinatorRead,
     storeVars, procVars, RowInv, TypeOK, StoreTypeOK, LeaseIds, TokenInv
<1>3. TokenInv'
  BY MaxGenAssumption, NoReservationAssumption DEF IInv, CoordinatorRead,
     storeVars, procVars, TokenInv, Tokens, InFlight, Holds, TypeOK,
     StoreTypeOK, RowInv
<1>4. RunInv'
  BY MaxGenAssumption, NoReservationAssumption DEF IInv, CoordinatorRead,
     storeVars, procVars, RunInv, OneEffectPerGeneration, EffectAccountedFor,
     TypeOK, StoreTypeOK, RowInv, TokenInv, Tokens, InFlight, Holds
<1>5. ReceiptInv'
  BY MaxGenAssumption, NoReservationAssumption DEF IInv, CoordinatorRead,
     storeVars, procVars, ReceiptInv, ReceiptsTruthful, RunInv,
     OneEffectPerGeneration, TokenInv, Tokens, InFlight, Holds, TypeOK,
     StoreTypeOK, RowInv, Receipts
<1>6. ViewInv'
  BY MaxGenAssumption, NoReservationAssumption DEF IInv, CoordinatorRead,
     storeVars, procVars, ViewInv, TypeOK, StoreTypeOK, RowInv
<1> QED BY <1>1, <1>2, <1>3, <1>4, <1>5, <1>6 DEF IInv

\* mutate_world closes a generation nobody reserved.
LEMMA CoordinatorMutateStep ==
  ASSUME IInv, UNCHANGED patient, NEW c \in Coordinators, NEW w \in Worlds, CoordinatorMutate(c, w)
  PROVE  IInv'
<1>1. TypeOK'
  <2>1. generation + 1 \in 0..MaxGen /\ generation \in 0..MaxGen
    BY MaxGenAssumption DEF IInv, TypeOK, StoreTypeOK, ViewInv, CoordinatorMutate,
       MutateWorld, ExpectWorld
  <2>2. reservation \in LeaseIds \cup {NoReservation}
    BY DEF IInv, TypeOK, StoreTypeOK
  <2>3. StoreTypeOK'
    BY <2>1, <2>2 DEF IInv, TypeOK, StoreTypeOK, CoordinatorMutate, MutateWorld,
       ExpectWorld, Advance, Transitions
  <2>4. view' \in [Coordinators -> Views]
    BY DEF IInv, TypeOK, CoordinatorMutate, Views
  <2> QED BY <2>3, <2>4 DEF IInv, TypeOK, CoordinatorMutate, procVars
<1>2. RowInv'
  BY MaxGenAssumption, NoReservationAssumption DEF IInv, CoordinatorMutate,
     MutateWorld, ExpectWorld, Advance, procVars, RowInv, TypeOK, StoreTypeOK,
     LeaseIds, TokenInv
<1>3. TokenInv'
  BY MaxGenAssumption, NoReservationAssumption DEF IInv, CoordinatorMutate,
     MutateWorld, ExpectWorld, Advance, procVars, TokenInv, Tokens, InFlight,
     Holds, TypeOK, StoreTypeOK, RowInv
<1>4. RunInv'
  BY MaxGenAssumption, NoReservationAssumption DEF IInv, CoordinatorMutate,
     MutateWorld, ExpectWorld, Advance, procVars, RunInv,
     OneEffectPerGeneration, EffectAccountedFor, TypeOK, StoreTypeOK, RowInv,
     TokenInv, Tokens, InFlight, Holds
<1>5. ReceiptInv'
  BY MaxGenAssumption, NoReservationAssumption DEF IInv, CoordinatorMutate,
     MutateWorld, ExpectWorld, Advance, procVars, ReceiptInv,
     ReceiptsTruthful, RunInv, OneEffectPerGeneration, TokenInv, Tokens,
     InFlight, Holds, TypeOK, StoreTypeOK, RowInv, Receipts
<1>6. ViewInv'
  BY MaxGenAssumption, NoReservationAssumption DEF IInv, CoordinatorMutate,
     MutateWorld, ExpectWorld, Advance, procVars, ViewInv, TypeOK,
     StoreTypeOK, RowInv
<1> QED BY <1>1, <1>2, <1>3, <1>4, <1>5, <1>6 DEF IInv

\* reconcile_reservation closes the reserved generation.
LEMMA CoordinatorReconcileStep ==
  ASSUME IInv, UNCHANGED patient, NEW c \in Coordinators, NEW w \in Worlds, CoordinatorReconcile(c, w)
  PROVE  IInv'
<1>1. TypeOK'
  <2>1. generation + 1 \in 0..MaxGen /\ generation \in 0..MaxGen
    BY MaxGenAssumption DEF IInv, TypeOK, StoreTypeOK, ViewInv, CoordinatorReconcile,
       ReconcileReservation, ExpectWorld
  <2>2. reservation \in LeaseIds \cup {NoReservation}
    BY DEF IInv, TypeOK, StoreTypeOK
  <2>3. StoreTypeOK'
    BY <2>1, <2>2 DEF IInv, TypeOK, StoreTypeOK, CoordinatorReconcile, ReconcileReservation,
       ExpectWorld, Advance, Transitions
  <2>4. view' \in [Coordinators -> Views]
    BY DEF IInv, TypeOK, CoordinatorReconcile, Views
  <2> QED BY <2>3, <2>4 DEF IInv, TypeOK, CoordinatorReconcile, procVars
<1>2. RowInv'
  BY MaxGenAssumption, NoReservationAssumption DEF IInv, CoordinatorReconcile,
     ReconcileReservation, ExpectWorld, Advance, procVars, RowInv, TypeOK,
     StoreTypeOK, LeaseIds, TokenInv
<1>3. TokenInv'
  BY MaxGenAssumption, NoReservationAssumption DEF IInv, CoordinatorReconcile,
     ReconcileReservation, ExpectWorld, Advance, procVars, TokenInv, Tokens,
     InFlight, Holds, TypeOK, StoreTypeOK, RowInv
<1>4. RunInv'
  BY MaxGenAssumption, NoReservationAssumption DEF IInv, CoordinatorReconcile,
     ReconcileReservation, ExpectWorld, Advance, procVars, RunInv,
     OneEffectPerGeneration, EffectAccountedFor, TypeOK, StoreTypeOK, RowInv,
     TokenInv, Tokens, InFlight, Holds
<1>5. ReceiptInv'
  <2>0. /\ reservation \in LeaseIds /\ reservation.generation = generation
        /\ generation \in 0..MaxGen
        /\ UNCHANGED <<procVars, executed, receipts>>
    BY DEF IInv, TypeOK, StoreTypeOK, RowInv, CoordinatorReconcile,
       ReconcileReservation
  <2>1. /\ closedBy'[generation] = [kind |-> "reconcile", by |-> reservation]
        /\ \A g \in 0..MaxGen : g # generation => closedBy'[g] = closedBy[g]
    BY <2>0 DEF IInv, TypeOK, StoreTypeOK, CoordinatorReconcile,
       ReconcileReservation, Advance
  <2>2. \A r \in receipts : r \in Receipts /\ r.lease \in LeaseIds
                              /\ r.lease.generation \in 0..MaxGen
    BY DEF IInv, TypeOK, Receipts, LeaseIds
  <2>3. \A r \in receipts : r.outcome = "SUCCEEDED" =>
          r.lease.generation # generation
    <3>1. closedBy[generation].kind = "open"
      BY <2>0, MaxGenAssumption DEF IInv, RowInv, TypeOK, StoreTypeOK
    <3>2. ASSUME NEW r \in receipts, r.outcome = "SUCCEEDED"
          PROVE  closedBy[r.lease.generation].kind = "commit"
      <4>1. closedBy[r.lease.generation] = [kind |-> "commit", by |-> r.lease]
        BY <3>2 DEF IInv, ReceiptInv, ReceiptsTruthful
      <4> QED BY <4>1
    <3> QED BY <3>1, <3>2
  <2>4. ReceiptsTruthful'
    <3>1. closedBy'[generation].kind # "commit"
      BY <2>1
    <3>2. ASSUME NEW r \in receipts, r.outcome = "SUCCEEDED"
          PROVE  closedBy'[r.lease.generation] = closedBy[r.lease.generation]
      BY <2>1, <2>2, <2>3, <3>2
    <3> QED BY <2>0, <2>1, <2>2, <3>1, <3>2 DEF IInv, ReceiptInv, ReceiptsTruthful
  <2>5. \A r \in receipts : r.outcome # "SUCCEEDED" => Holds(r.lease)'
    BY <2>0, <2>1, <2>2 DEF IInv, ReceiptInv, Holds, RowInv
  <2>6. \A q \in Procs : Tokens(q)' = Tokens(q)
    BY <2>0 DEF procVars, Tokens, InFlight
  <2> QED BY <2>0, <2>4, <2>5, <2>6 DEF IInv, ReceiptInv
<1>6. ViewInv'
  BY MaxGenAssumption, NoReservationAssumption DEF IInv, CoordinatorReconcile,
     ReconcileReservation, ExpectWorld, Advance, procVars, ViewInv, TypeOK,
     StoreTypeOK, RowInv
<1> QED BY <1>1, <1>2, <1>3, <1>4, <1>5, <1>6 DEF IInv

\* Every step preserves the inductive invariant.
LEMMA NextInv == IInv /\ [Next]_vars => IInv'
<1> SUFFICES ASSUME IInv, [Next]_vars PROVE IInv'
  OBVIOUS
<1>1. ASSUME NEW p \in Procs, ProcStep(p), UNCHANGED patient PROVE IInv'
  BY <1>1, BootstrapStep, LocalChangeStep, IssueReadStep, IssueReserveStep,
     IssueRefusedStep, ConsumeTimeInvalidStep, ConsumeCheckStep,
     EffectSucceedsStep, EffectFailsStep, RecordFailureStep, FinalizeStep,
     FinalizeFailsStep, CrashStep DEF ProcStep
<1>2. ASSUME NEW c \in Coordinators, CoordinatorStep(c), UNCHANGED patient PROVE IInv'
  BY <1>2, CoordinatorReadStep, CoordinatorMutateStep,
     CoordinatorReconcileStep DEF CoordinatorStep
<1>3. CASE UNCHANGED vars
  BY <1>3 DEF vars, storeVars, procVars, IInv, TypeOK, StoreTypeOK, RowInv,
     TokenInv, Tokens, InFlight, Holds, RunInv, OneEffectPerGeneration,
     EffectAccountedFor, ReceiptInv, ReceiptsTruthful, ViewInv
<1> QED BY <1>1, <1>2, <1>3 DEF Next

\* The inductive invariant holds in every reachable state.
THEOREM Invariance == Spec => []IInv
<1> QED BY InitInv, NextInv, PTL DEF Spec

\* Every variable keeps its type.
THEOREM TypeCorrect == Spec => []TypeOK
<1>1. IInv => TypeOK
  BY DEF IInv
<1> QED BY <1>1, Invariance, PTL

\* At most one physical effect runs per generation (consume_for_trusted_adapter
\* burns the handle, reserve_effect grants once per generation).
THEOREM AtMostOneEffect == Spec => []OneEffectPerGeneration
<1>1. IInv => OneEffectPerGeneration
  BY DEF IInv, RunInv
<1> QED BY <1>1, Invariance, PTL

\* mutate_world never steps over a generation whose effect ran.
THEOREM NoLostEffect == Spec => []EffectAccountedFor
<1>1. IInv => EffectAccountedFor
  BY DEF IInv, RunInv
<1> QED BY <1>1, Invariance, PTL

\* Commit receipts say what happened to their generation.
THEOREM Truthful == Spec => []ReceiptsTruthful
<1>1. IInv => ReceiptsTruthful
  BY DEF IInv, ReceiptInv
<1> QED BY <1>1, Invariance, PTL

\* A reservation is only given up by a step that advances the generation and
\* records the reservation it closes.
THEOREM HeldUntilAdvance == Spec => ReservationHeldUntilAdvance
<1>1. ASSUME IInv, [Next]_vars, reservation # NoReservation,
             reservation' # reservation
      PROVE  /\ reservation' = NoReservation
             /\ generation' = generation + 1
             /\ closedBy'[generation].by = reservation
             /\ closedBy'[generation].kind \in {"commit", "reconcile"}
  <2>1. /\ generation \in 0..MaxGen /\ closedBy \in [0..MaxGen -> Transitions]
        /\ initialized
    BY <1>1 DEF IInv, TypeOK, StoreTypeOK, RowInv
  <2>2. ASSUME NEW nw, NEW kind \in {"commit", "reconcile"},
               Advance(nw, kind, reservation)
        PROVE  /\ reservation' = NoReservation
               /\ generation' = generation + 1
               /\ closedBy'[generation].by = reservation
               /\ closedBy'[generation].kind \in {"commit", "reconcile"}
    <3>1. closedBy'[generation] = [kind |-> kind, by |-> reservation]
      BY <2>1, <2>2 DEF Advance
    <3> QED BY <2>2, <3>1 DEF Advance
  <2>3. ASSUME NEW p \in Procs, Finalize(p)
        PROVE  Advance(local[p], "commit", reservation)
    BY <2>3 DEF Finalize, CommitEffect, MayCommit
  <2>4. ASSUME NEW c \in Coordinators, NEW w \in Worlds,
               CoordinatorReconcile(c, w)
        PROVE  Advance(w, "reconcile", reservation)
    BY <2>4 DEF CoordinatorReconcile, ReconcileReservation
  <2>5. \/ \E p \in Procs : Finalize(p)
        \/ \E c \in Coordinators : \E w \in Worlds : CoordinatorReconcile(c, w)
    BY <1>1, <2>1 DEF Next, vars, storeVars, ProcStep, CoordinatorStep, Bootstrap,
       Initialize, LocalChange, IssueRead, IssueReserve, ReserveEffect,
       MayReserve, IssueRefused, ConsumeTimeInvalid, ConsumeCheck,
       EffectSucceeds, EffectFails, RecordFailure, FinalizeFails, Crash,
       CoordinatorRead, CoordinatorMutate, MutateWorld
  <2> QED BY <2>2, <2>3, <2>4, <2>5
<1> QED BY <1>1, Invariance, PTL DEF Spec, ReservationHeldUntilAdvance

\* A process whose reservation was reconciled away cannot publish: the
\* compare-and-swap of commit_effect names its generation, which is closed.
THEOREM ReconciledCannotPublish == Spec => ReconciledNeverPublishes
<1>1. ASSUME IInv, [Next]_vars, NEW p \in Procs,
             pc[p] \in {"effect", "succeeded", "failed"}, pc'[p] # pc[p],
             closedBy[lease[p].generation].kind = "reconcile"
      PROVE  /\ UNCHANGED storeVars
             /\ \A r \in receipts' \ receipts : r.outcome # "SUCCEEDED"
  <2>1. pc \in [Procs -> Phases] /\ generation \in 0..MaxGen
    BY <1>1 DEF IInv, TypeOK, StoreTypeOK
  <2>2. ~Finalize(p)
    <3>1. closedBy[generation].kind = "open"
      BY <1>1, <2>1 DEF IInv, RowInv
    <3>2. Finalize(p) => generation = lease[p].generation
      BY DEF Finalize, CommitEffect, MayCommit, ExpectWorld
    <3> QED BY <1>1, <3>1, <3>2
  <2>3. \A q \in Procs : ProcStep(q) => q = p
    <3>1. ASSUME NEW q \in Procs, ProcStep(q) PROVE pc' = pc \/ \E x : pc' = [pc EXCEPT ![q] = x]
      BY <3>1 DEF ProcStep, Bootstrap, LocalChange, IssueRead, IssueReserve, IssueRefused,
         ConsumeTimeInvalid, ConsumeCheck, EffectSucceeds, EffectFails, RecordFailure, Finalize,
         FinalizeFails, Crash, Goto, procVars
    <3> QED BY <1>1, <2>1, <3>1
  <2>4. ProcStep(p)
    BY <1>1, <2>3 DEF Next, vars, procVars, CoordinatorStep, CoordinatorRead, CoordinatorMutate,
       CoordinatorReconcile
  <2>5. \/ \E w \in Worlds : EffectSucceeds(p, w) \/ EffectFails(p, w) \/ Crash(p, w)
        \/ RecordFailure(p) \/ FinalizeFails(p)
    BY <1>1, <2>2, <2>4 DEF ProcStep, Bootstrap, LocalChange, IssueRead, IssueReserve,
       IssueRefused, ConsumeTimeInvalid, ConsumeCheck
  <2>6. ASSUME NEW w \in Worlds, EffectSucceeds(p, w) \/ EffectFails(p, w) \/ Crash(p, w)
        PROVE  UNCHANGED storeVars /\ UNCHANGED receipts
    BY <2>6 DEF EffectSucceeds, EffectFails, Crash
  <2>7. ASSUME RecordFailure(p) \/ FinalizeFails(p)
        PROVE  /\ UNCHANGED storeVars
               /\ \A r \in receipts' \ receipts : r.outcome # "SUCCEEDED"
    BY <2>7 DEF RecordFailure, FinalizeFails, AppendCommit
  <2> QED BY <2>5, <2>6, <2>7
<1>2. IInv /\ [Next]_vars =>
        \A p \in Procs :
          /\ pc[p] \in {"effect", "succeeded", "failed"} /\ pc'[p] # pc[p]
          /\ closedBy[lease[p].generation].kind = "reconcile"
          => /\ UNCHANGED storeVars
             /\ \A r \in receipts' \ receipts : r.outcome # "SUCCEEDED"
  BY <1>1
<1> QED BY <1>2, Invariance, PTL DEF Spec, ReconciledNeverPublishes

\* With a patient operator, every handle that may still run or publish an effect
\* holds the row.
PatientInv ==
    patient =>
        /\ \A p \in Procs : \A l \in live[p] : MayCommit(l.generation, l.world, l)
        /\ EffectHoldsReservation

\* PatientInv is preserved by every step, given the inductive invariant.
LEMMA PatientStep == IInv /\ PatientInv /\ [Next]_vars => PatientInv'
<1> SUFFICES ASSUME IInv, PatientInv, [Next]_vars, patient
             PROVE  /\ \A p \in Procs : \A l \in live'[p] :
                         MayCommit(l.generation, l.world, l)'
                    /\ \A p \in Procs : pc'[p] \in {"effect", "succeeded"} =>
                         MayCommit(lease[p].generation, lease[p].world, lease[p])'
  BY DEF PatientInv, EffectHoldsReservation, Next, vars
<1> DEFINE Active(p) == live[p] \cup
                         (IF pc[p] \in {"effect", "succeeded"} THEN {lease[p]} ELSE {})
<1>1. \A p \in Procs : \A l \in Active(p) : MayCommit(l.generation, l.world, l)
  BY DEF PatientInv, EffectHoldsReservation
<1>2. SUFFICES \A p \in Procs : \A l \in Active(p)' :
                 MayCommit(l.generation, l.world, l)'
  <2>1. ASSUME NEW p \in Procs, pc'[p] \in {"effect", "succeeded"}
        PROVE  lease'[p] \in Active(p)'
    BY <2>1
  <2> QED BY <1>2, <2>1
<1>3. \A p \in Procs : Active(p) \subseteq Tokens(p) /\ Tokens(p) \subseteq LeaseIds
  BY DEF IInv, TypeOK, Tokens, InFlight
<1>4. ASSUME UNCHANGED storeVars,
             \A p \in Procs : Active(p)' \subseteq Active(p)
      PROVE  \A p \in Procs : \A l \in Active(p)' :
                 MayCommit(l.generation, l.world, l)'
  BY <1>1, <1>4 DEF MayCommit, ExpectWorld, storeVars
<1>5. ASSUME NEW p \in Procs, ProcStep(p)
      PROVE  \A q \in Procs : \A l \in Active(q)' :
                 MayCommit(l.generation, l.world, l)'
  <2>1. CASE Bootstrap(p)
    <3>1. \A q \in Procs : Active(q) = {}
      BY <1>1, <2>1 DEF Bootstrap, Initialize, MayCommit, ExpectWorld
    <3>2. \A q \in Procs : Active(q)' = Active(q)
      BY <2>1 DEF Bootstrap, procVars
    <3> QED BY <3>1, <3>2
  <2>2. CASE IssueReserve(p)
    <3>1. /\ initialized /\ generation = lease[p].generation
          /\ world = lease[p].world /\ reservation = NoReservation
          /\ initialized' = initialized /\ generation' = generation
          /\ world' = world /\ reservation' = lease[p] /\ lease[p] \in LeaseIds
      BY <2>2 DEF IssueReserve, ReserveEffect, MayReserve, ExpectWorld, IInv, TypeOK
    <3>2. \A q \in Procs : Active(q) = {}
      BY <1>1, <1>3, <3>1, NoReservationAssumption DEF MayCommit
    <3>3. \A q \in Procs : Active(q)' \subseteq Active(q) \cup {lease[p]}
      BY <2>2 DEF IssueReserve, Goto, IInv, TypeOK
    <3>4. \A l : l = lease[p] => MayCommit(l.generation, l.world, l)'
      BY <3>1 DEF MayCommit, ExpectWorld
    <3> QED BY <3>2, <3>3, <3>4
  <2>3. CASE Finalize(p)
    <3>1. /\ lease[p] \in Active(p) /\ reservation = lease[p]
          /\ lease[p] \in Tokens(p)
      BY <2>3 DEF Finalize, CommitEffect, MayCommit, Tokens, InFlight
    <3>2. \A q \in Procs : Active(q)' \subseteq Active(q)
      BY <2>3 DEF Finalize, Goto, IInv, TypeOK
    <3>3. \A q \in Procs : \A l \in Active(q) : l = lease[p]
      BY <1>1, <3>1 DEF MayCommit
    <3>4. \A q \in Procs : q # p => Active(q) = {}
      BY <1>3, <3>1, <3>3 DEF IInv, TokenInv
    <3>5. Active(p)' = live[p] /\ lease[p] \notin live[p]
      BY <2>3 DEF Finalize, Goto, IInv, TypeOK, TokenInv, InFlight
    <3> QED BY <3>2, <3>3, <3>4, <3>5
  <2>4. CASE \/ \E w \in Worlds : LocalChange(p, w)
             \/ \E a \in Auths : IssueRead(p, a)
             \/ IssueRefused(p)
             \/ \E l \in live[p] : ConsumeTimeInvalid(p, l)
             \/ \E l \in live[p] : ConsumeCheck(p, l)
             \/ \E w \in Worlds : EffectSucceeds(p, w)
             \/ \E w \in Worlds : EffectFails(p, w)
             \/ RecordFailure(p)
             \/ FinalizeFails(p)
             \/ \E w \in Worlds : Crash(p, w)
    <3>1. UNCHANGED storeVars
      BY <2>4 DEF LocalChange, IssueRead, IssueRefused, ConsumeTimeInvalid,
         ConsumeCheck, EffectSucceeds, EffectFails, RecordFailure, FinalizeFails,
         Crash
    <3>2. \A q \in Procs : Active(q)' \subseteq Active(q)
      BY <2>4 DEF IInv, TypeOK, LocalChange, IssueRead, IssueRefused,
         ConsumeTimeInvalid, ConsumeCheck, EffectSucceeds, EffectFails,
         RecordFailure, FinalizeFails, Crash, Goto
    <3> QED BY <1>4, <3>1, <3>2
  <2> QED BY <1>5, <2>1, <2>2, <2>3, <2>4 DEF ProcStep
<1>6. ASSUME NEW c \in Coordinators, CoordinatorStep(c)
      PROVE  \A q \in Procs : \A l \in Active(q)' :
                 MayCommit(l.generation, l.world, l)'
  <2>1. \A q \in Procs : Active(q)' = Active(q)
    BY <1>6 DEF CoordinatorStep, CoordinatorRead, CoordinatorMutate,
       CoordinatorReconcile, procVars
  <2>2. CASE CoordinatorRead(c)
    BY <1>4, <2>1, <2>2 DEF CoordinatorRead
  <2>3. CASE \E w \in Worlds : CoordinatorMutate(c, w)
    <3>1. reservation = NoReservation
      BY <2>3 DEF CoordinatorMutate, MutateWorld
    <3>2. \A q \in Procs : Active(q) = {}
      BY <1>1, <1>3, <3>1, NoReservationAssumption DEF MayCommit
    <3> QED BY <2>1, <3>2
  <2>4. CASE \E w \in Worlds : CoordinatorReconcile(c, w)
    <3>1. HolderGone(reservation)
      BY <2>4 DEF CoordinatorReconcile, ReconcileReservation
    <3>2. \A q \in Procs : Active(q) = {}
      BY <1>1, <3>1 DEF HolderGone, MayCommit
    <3> QED BY <2>1, <3>2
  <2> QED BY <1>6, <2>2, <2>3, <2>4 DEF CoordinatorStep
<1>7. CASE UNCHANGED vars
  BY <1>4, <1>7 DEF vars, procVars
<1> QED BY <1>5, <1>6, <1>7 DEF Next

\* With a patient operator a process inside the effect holds the reservation it
\* was checked against (_require_reservation_match stays true until commit).
THEOREM ReservationCoversEffect == Spec => []EffectHoldsReservation
<1>1. Init => PatientInv
  BY DEF Init, PatientInv, EffectHoldsReservation
<1>2. PatientInv => EffectHoldsReservation
  BY DEF PatientInv, EffectHoldsReservation
<1> QED BY <1>1, <1>2, PatientStep, Invariance, PTL DEF Spec

\* The fence implements its promise: every step of the processes, coordinators
\* and crashes is a step of EffectOncePerGeneration or changes nothing there.
THEOREM Refinement == Spec => ImplementsAbstract
<1>1. Init => Abstract!Init
  BY DEF Init, StoreInit, Open, Abstract!Init
<1>2. IInv /\ [Next]_vars => [Abstract!Next]_(Abstract!vars)
  <2> SUFFICES ASSUME IInv, [Next]_vars
               PROVE  Abstract!Next \/ UNCHANGED Abstract!vars
    OBVIOUS
  <2> DEFINE result == [g \in 0..MaxGen |-> closedBy[g].kind]
  <2>0. /\ closedBy \in [0..MaxGen -> Transitions] /\ generation \in 0..MaxGen
        /\ executed \in [0..MaxGen -> Nat]
    BY DEF IInv, TypeOK, StoreTypeOK
  <2>1. ASSUME NEW nw, NEW kind, NEW id, Advance(nw, kind, id),
               executed' = executed
        PROVE  Abstract!Close(kind)
    <3>1. result' = [result EXCEPT ![generation] = kind]
      BY <2>0, <2>1 DEF Advance
    <3> QED BY <2>1, <3>1 DEF Advance, Abstract!Close
  <2>2. ASSUME UNCHANGED <<storeVars, executed>>
        PROVE  UNCHANGED Abstract!vars
    BY <2>2 DEF storeVars, Abstract!vars
  <2>3. ASSUME NEW p \in Procs, ProcStep(p)
        PROVE  Abstract!Next \/ UNCHANGED Abstract!vars
    <3>1. CASE Bootstrap(p)
      BY <3>1 DEF Bootstrap, Initialize, IInv, RowInv, Abstract!vars
    <3>2. CASE IssueReserve(p)
      <4>1. /\ reservation = NoReservation /\ reservation' \in LeaseIds
            /\ generation < MaxGen
            /\ UNCHANGED <<generation, executed, closedBy>>
        BY <3>2 DEF IssueReserve, ReserveEffect, MayReserve, ExpectWorld, IInv,
           TypeOK, TokenInv
      <4> QED BY <4>1 DEF Abstract!Next, Abstract!Grant
    <3>3. CASE Finalize(p)
      <4>1. /\ reservation # NoReservation /\ executed[generation] = 1
            /\ executed' = executed
        BY <3>3, NoReservationAssumption DEF Finalize, CommitEffect, MayCommit,
           ExpectWorld, IInv, TypeOK, RunInv
      <4>2. Abstract!Close("commit")
        BY <2>1, <3>3, <4>1 DEF Finalize, CommitEffect
      <4> QED BY <4>1, <4>2 DEF Abstract!Next, Abstract!Commit
    <3>4. CASE \E w \in Worlds : EffectSucceeds(p, w) \/ EffectFails(p, w)
      <4> DEFINE h == lease[p].generation
      <4>1. /\ h \in 0..MaxGen /\ executed[h] = 0 /\ Holds(lease[p])
            /\ lease[p] \in LeaseIds
        BY <3>4 DEF EffectSucceeds, EffectFails, IInv, TypeOK, RunInv, TokenInv,
           Tokens, InFlight, LeaseIds
      <4>2. \/ h = generation /\ reservation # NoReservation
            \/ closedBy[h].kind = "reconcile"
        BY <4>1, NoReservationAssumption DEF Holds
      <4>3. executed' = executed \/ executed' = [executed EXCEPT ![h] = 1]
        <5>1. executed[h] + 1 = 1
          BY <4>1
        <5> HIDE DEF h
        <5>2. \/ executed' = executed
              \/ executed' = [executed EXCEPT ![h] = executed[h] + 1]
          BY <3>4 DEF EffectSucceeds, EffectFails, h
        <5> QED BY <5>1, <5>2
      <4>4. UNCHANGED storeVars
        BY <3>4 DEF EffectSucceeds, EffectFails
      <4>5. CASE executed' = executed
        BY <2>2, <4>4, <4>5
      <4>6. CASE executed' = [executed EXCEPT ![h] = 1]
        <5>1. Abstract!Run(h)
          BY <4>1, <4>2, <4>4, <4>6 DEF Abstract!Run, storeVars
        <5> QED BY <4>1, <5>1 DEF Abstract!Next
      <4> QED BY <4>3, <4>5, <4>6
    <3>5. CASE \/ \E w \in Worlds : LocalChange(p, w)
               \/ \E a \in Auths : IssueRead(p, a)
               \/ IssueRefused(p)
               \/ \E l \in live[p] : ConsumeTimeInvalid(p, l)
               \/ \E l \in live[p] : ConsumeCheck(p, l)
               \/ RecordFailure(p)
               \/ FinalizeFails(p)
               \/ \E w \in Worlds : Crash(p, w)
      BY <2>2, <3>5 DEF LocalChange, IssueRead, IssueRefused, ConsumeTimeInvalid,
         ConsumeCheck, RecordFailure, FinalizeFails, Crash
    <3> QED BY <2>3, <3>1, <3>2, <3>3, <3>4, <3>5 DEF ProcStep
  <2>4. ASSUME NEW c \in Coordinators, CoordinatorStep(c)
        PROVE  Abstract!Next \/ UNCHANGED Abstract!vars
    <3>1. CASE CoordinatorRead(c)
      BY <2>2, <3>1 DEF CoordinatorRead
    <3>2. CASE \E w \in Worlds : CoordinatorMutate(c, w)
      <4>1. /\ reservation = NoReservation /\ generation < MaxGen
            /\ executed' = executed
        BY <3>2 DEF CoordinatorMutate, MutateWorld, ExpectWorld, IInv, ViewInv
      <4>2. executed[generation] = 0
        BY <2>0, <4>1, MaxGenAssumption DEF IInv, RunInv, EffectAccountedFor, RowInv
      <4>3. Abstract!Close("mutate")
        BY <2>1, <3>2, <4>1 DEF CoordinatorMutate, MutateWorld
      <4> QED BY <4>1, <4>2, <4>3 DEF Abstract!Next, Abstract!Mutate
    <3>3. CASE \E w \in Worlds : CoordinatorReconcile(c, w)
      <4>1. reservation # NoReservation /\ executed' = executed
        BY <3>3 DEF CoordinatorReconcile, ReconcileReservation
      <4>2. Abstract!Close("reconcile")
        BY <2>1, <3>3, <4>1 DEF CoordinatorReconcile, ReconcileReservation
      <4> QED BY <4>1, <4>2 DEF Abstract!Next, Abstract!Reconcile
    <3> QED BY <2>4, <3>1, <3>2, <3>3 DEF CoordinatorStep
  <2>5. CASE UNCHANGED vars
    BY <2>2, <2>5 DEF vars
  <2> QED BY <2>3, <2>4, <2>5 DEF Next
<1> QED BY <1>1, <1>2, Invariance, PTL DEF Spec, ImplementsAbstract, Abstract!Spec
-------------------------------------------------------------------------------
(* The checkpoint mirror                                                     *)

\* Where a caller is that has taken a marker, and that has mutated the row.
Begun == {"pending", "inserted", "mutated", "bridged"}
Done == {"inserted", "mutated", "bridged"}
Advancing == {"commit", "mutate", "reconcile"}

\* The marker of caller p is the one in the guard.
Marked(p) == Pending /\ guard.sequence = ticket[p]

\* An operator has cleared the marker of caller p.
Cleared(p) == \E n \in DOMAIN history :
    history[n].kind = "RECONCILED" /\ history[n].sequence = ticket[p]

\* The row has made the transition that caller p asks for, for p or another.
Spent(p) == \E k \in DOMAIN made :
    made[k].envelope.kind = intent[p].kind /\ made[k].envelope.before = intent[p].generation

\* What the k-th transition left in the row.
LeftInRow(k) ==
    LET e == made[k].envelope
    IN /\ made[k].sequence <= guard.sequence
       /\ e.kind \in Advancing => e.before < generation
       /\ e.kind = "reserve" =>
            \/ e.before < generation
            \/ e.before = generation /\ reservation # NoReservation
       /\ e.kind = "initialize" =>
            /\ e.before = 0 /\ e.after = 0 /\ e.from = NoWorld
            /\ generation = 0 => world = e.to

\* No transition is made twice.
MadeOnce == \A k, l \in DOMAIN made :
    /\ made[k].envelope.kind = made[l].envelope.kind
    /\ made[k].envelope.before = made[l].envelope.before
    => k = l

RowTells ==
    /\ ~initialized => made = <<>> /\ generation = 0
    /\ initialized => \E k \in DOMAIN made : made[k].envelope.kind = "initialize"
    /\ \A k \in DOMAIN made : LeftInRow(k)
    /\ MadeOnce

\* What a caller remembers of the row it has read.
Remembers(p) ==
    /\ at[p] = "idle" => intent[p] = NoIntent /\ envelope[p] = NoEnvelope
    /\ at[p] # "idle" => intent[p] \in Intents
    /\ at[p] # "idle" /\ intent[p].kind # "initialize" =>
         /\ initialized
         /\ intent[p].generation <= generation
         /\ intent[p].generation < MaxGen
    /\ at[p] = "read" => intent[p].kind # "initialize"
    /\ at[p] # "idle" /\ intent[p].kind = "initialize" =>
         /\ intent[p].generation = 0
         /\ envelope[p] = [NoEnvelope EXCEPT !.to = envelope[p].to]
    /\ at[p] \in {"called", "checked", "pending"} /\ intent[p].kind # "initialize" =>
         /\ envelope[p].kind = intent[p].kind
         /\ intent[p].generation <= envelope[p].before
         /\ envelope[p].before <= generation
         /\ envelope[p].before = generation => envelope[p].from = world
    /\ at[p] = "inserted" => intent[p].kind = "initialize"

\* A marker is the caller's own, or it was cleared, or the call is too late.
Holding(p) == at[p] \in Begun =>
    /\ ticket[p] \in 1..guard.sequence
    /\ Marked(p) => guard.intent = intent[p]
    /\ ~Marked(p) => Cleared(p) \/ Spent(p)
    /\ at[p] = "pending" => \A k \in DOMAIN made : made[k].sequence # ticket[p]

Distinct == \A p, q \in Callers :
    at[p] \in Begun /\ at[q] \in Begun /\ ticket[p] = ticket[q] => p = q

\* What was made under the marker in the guard is what its intent says.
GuardTells == Pending =>
    /\ guard.sequence > 0
    /\ \A k \in DOMAIN made : made[k].sequence = guard.sequence =>
         /\ made[k].envelope.kind = guard.intent.kind
         /\ made[k].envelope.before = guard.intent.generation
         /\ made[k].envelope.kind = "initialize" => generation = 0

\* What a caller that has mutated the row is about to acknowledge.
Owes(p) ==
    /\ at[p] \in Begun /\ intent[p].kind # "initialize" =>
         \A k \in DOMAIN made :
            made[k].envelope.kind = "initialize" => made[k].sequence < ticket[p]
    /\ at[p] \in {"mutated", "bridged"} /\ intent[p].kind # "initialize" =>
         \E k \in DOMAIN made :
            /\ made[k] = [sequence |-> ticket[p], envelope |-> envelope[p]]
            /\ envelope[p].kind = intent[p].kind
            /\ envelope[p].before = intent[p].generation
    /\ at[p] \in {"mutated", "bridged"} /\ intent[p].kind = "initialize" =>
         (generation = 0 => envelope[p].to = world)
    /\ at[p] \in {"mutated", "bridged"} => envelope[p] \in Envelopes
    /\ at[p] \in Done => initialized

\* Nobody clears a marker under a running call.
Undisturbed == careful \/ Recorded("RECONCILED") = {}

\* Then calls are serial.
Sole(p) == Undisturbed =>
    /\ at[p] \in Begun => Marked(p)
    /\ at[p] \in Done /\ intent[p].kind = "initialize" => generation = 0

\* Acknowledgements come in the order of their markers,
AcksInOrder == \A n \in Recorded("ACKED") :
    /\ history[n].sequence <= guard.sequence
    /\ Pending => history[n].sequence < guard.sequence
    /\ \A m \in Recorded("ACKED") : m < n => history[m].sequence < history[n].sequence

\* and while no marker was cleared, so do transitions, each acknowledged as it was.
MadeInOrder == Recorded("RECONCILED") = {} =>
    /\ \A k, l \in DOMAIN made : k < l => made[k].sequence < made[l].sequence
    /\ \A n \in Recorded("ACKED") : history[n].envelope.kind # "initialize" =>
         \E k \in DOMAIN made : Acknowledged(n, k)

AckedWasMade == careful => \A n \in Recorded("ACKED") :
    \E k \in DOMAIN made : made[k].envelope = history[n].envelope

CallersInv == \A p \in Callers : Remembers(p) /\ Holding(p) /\ Owes(p) /\ Sole(p)
JournalInv == AcksInOrder /\ MadeInOrder /\ AckedWasMade
MirrorIInv == MirrorTypeOK /\ RowTells /\ CallersInv /\ Distinct /\ GuardTells
              /\ NoSilentTransition /\ JournalInv

\* Before the first call there is no marker and no transition.
LEMMA MirrorInitInv == MirrorInit => MirrorIInv
<1> SUFFICES ASSUME MirrorInit PROVE MirrorIInv
  OBVIOUS
<1>1. StoreTypeOK
  <2>1. 0 \in 0..MaxGen
    BY MaxGenAssumption
  <2>2. closedBy \in [0..MaxGen -> Transitions]
    BY DEF MirrorInit, StoreInit, Transitions, Open
  <2> QED BY <2>1, <2>2 DEF MirrorInit, StoreInit, StoreTypeOK
<1>2. 0 \in 0..MaxSeq /\ 0 \in 0..MaxGen
  BY CallerAssumption, MaxGenAssumption
<1>3. MirrorTypeOK
  <2>1. target \in [Callers -> Worlds]
    BY <1>1 DEF MirrorInit, StoreTypeOK
  <2>2. envelope \in [Callers -> [kind : Kinds, before : 0..MaxGen, after : 0..MaxGen,
                         from : Worlds \cup {NoWorld}, to : {NoWorld}]]
    BY <1>2 DEF MirrorInit, NoEnvelope, Kinds
  <2>3. guard \in [sequence : 0..MaxSeq, status : {"CLEAR", "PENDING"},
                  intent : Intents \cup {NoIntent}]
    BY <1>2 DEF MirrorInit
  <2> QED BY <1>1, <1>2, <2>1, <2>2, <2>3 DEF MirrorInit, MirrorTypeOK
<1>4. RowTells
  BY DEF MirrorInit, StoreInit, RowTells, MadeOnce
<1>5. CallersInv
  BY DEF MirrorInit, StoreInit, CallersInv, Remembers, Holding, Owes, Sole, Begun, Done
<1>6. Distinct /\ GuardTells /\ NoSilentTransition
  BY DEF MirrorInit, Distinct, GuardTells, NoSilentTransition, Begun, Pending
<1>7. JournalInv
  BY DEF MirrorInit, JournalInv, AcksInOrder, MadeInOrder, AckedWasMade, Recorded
<1> QED BY <1>3, <1>4, <1>5, <1>6, <1>7 DEF MirrorIInv

\* A step of p that leaves row, journal and transitions alone.
Private(p) ==
    /\ UNCHANGED <<careful, storeVars, journalVars, made>>
    /\ \A q \in Callers \ {p} :
         /\ at'[q] = at[q] /\ intent'[q] = intent[q]
         /\ envelope'[q] = envelope[q] /\ ticket'[q] = ticket[q]
    /\ at'[p] \in Begun => at[p] \in Begun /\ ticket'[p] = ticket[p]

\* Such a step keeps the invariant if what it says of p is kept.
LEMMA PrivateStep ==
  ASSUME MirrorIInv, MirrorTypeOK', NEW p \in Callers, Private(p),
         Remembers(p)', Holding(p)', Owes(p)', Sole(p)'
  PROVE  MirrorIInv'
<1> USE DEF Private, storeVars, journalVars
<1>1. RowTells' /\ GuardTells' /\ NoSilentTransition'
  BY DEF MirrorIInv, RowTells, LeftInRow, MadeOnce, GuardTells, NoSilentTransition, Pending
<1>2. JournalInv'
  BY DEF MirrorIInv, JournalInv, AcksInOrder, MadeInOrder, AckedWasMade, Recorded, Pending,
         Acknowledged, Event
<1>3. ASSUME NEW q \in Callers, q # p
      PROVE  Remembers(q)' /\ Holding(q)' /\ Owes(q)' /\ Sole(q)'
  <2>1. /\ at'[q] = at[q] /\ intent'[q] = intent[q]
        /\ envelope'[q] = envelope[q] /\ ticket'[q] = ticket[q]
    BY <1>3
  <2>2. Remembers(q) /\ Holding(q) /\ Owes(q) /\ Sole(q)
    BY DEF MirrorIInv, CallersInv
  <2>3. Remembers(q)' /\ Owes(q)'
    BY <2>1, <2>2 DEF Remembers, Owes
  <2>4. Holding(q)' /\ Sole(q)'
    BY <2>1, <2>2 DEF Holding, Sole, Marked, Pending, Cleared, Spent, Undisturbed, Recorded
  <2> QED BY <2>3, <2>4
<1>4. CallersInv'
  BY <1>3 DEF CallersInv
<1>5. Distinct'
  BY DEF MirrorIInv, Distinct
<1> QED BY <1>1, <1>2, <1>4, <1>5 DEF MirrorIInv

\* The types of a caller's variables after a call has ended.
LEMMA LeaveType ==
  ASSUME MirrorTypeOK, NEW p \in Callers, Leave(p)
  PROVE  /\ at' \in [Callers -> {"idle", "read", "called", "checked", "pending",
                                 "inserted", "mutated", "bridged"}]
         /\ intent' \in [Callers -> Intents \cup {NoIntent}]
         /\ target' \in [Callers -> Worlds]
         /\ envelope' \in [Callers -> Envelopes \cup
                        [kind : Kinds, before : 0..MaxGen, after : 0..MaxGen,
                         from : Worlds \cup {NoWorld}, to : {NoWorld}]]
         /\ ticket' \in [Callers -> 0..MaxSeq]
<1>1. NoEnvelope \in [kind : Kinds, before : 0..MaxGen, after : 0..MaxGen,
                      from : Worlds \cup {NoWorld}, to : {NoWorld}]
  BY MaxGenAssumption DEF NoEnvelope, Kinds
<1>2. 0 \in 0..MaxSeq
  BY CallerAssumption
<1> QED BY <1>1, <1>2 DEF Leave, MoveTo, MirrorTypeOK

\* A call ends without a word: it raised or its process died.
LEMMA LeaveStep ==
  ASSUME MirrorIInv, NEW p \in Callers, Leave(p),
         UNCHANGED <<careful, storeVars, journalVars, made>>
  PROVE  MirrorIInv'
<1>1. MirrorTypeOK'
  BY LeaveType DEF MirrorIInv, MirrorTypeOK, StoreTypeOK, storeVars, journalVars
<1>2. /\ at'[p] = "idle" /\ intent'[p] = NoIntent /\ envelope'[p] = NoEnvelope
      /\ \A q \in Callers \ {p} :
         /\ at'[q] = at[q] /\ intent'[q] = intent[q]
         /\ envelope'[q] = envelope[q] /\ ticket'[q] = ticket[q]
  BY DEF Leave, MoveTo, MirrorIInv, MirrorTypeOK
<1>3. Private(p)
  BY <1>2 DEF Private, Begun
<1>4. Remembers(p)' /\ Holding(p)' /\ Owes(p)' /\ Sole(p)'
  BY <1>2 DEF Remembers, Holding, Owes, Sole, Begun, Done
<1> QED BY <1>1, <1>3, <1>4, PrivateStep

\* The steps of a call up to its marker touch neither database.
LEMMA ReadStateStep ==
  ASSUME MirrorIInv, NEW p \in Callers, NEW kind \in Kinds, NEW auth \in Auths,
         ReadState(p, kind, auth)
  PROVE  MirrorIInv'
<1> DEFINE i == [kind |-> kind, generation |-> generation, world |-> world, auth |-> auth]
<1>1. i \in Intents /\ generation < MaxGen /\ kind # "initialize" /\ initialized
  BY DEF ReadState, Intents, MirrorIInv, MirrorTypeOK, StoreTypeOK
<1>2. MirrorTypeOK'
  BY <1>1 DEF ReadState, MoveTo, MirrorIInv, MirrorTypeOK, StoreTypeOK, storeVars, journalVars
<1>3. /\ at'[p] = "read" /\ intent'[p] = i
      /\ generation' = generation /\ initialized' = initialized
      /\ Private(p)
  BY DEF ReadState, MoveTo, MirrorIInv, MirrorTypeOK, Private, Begun, storeVars
<1>4. generation \in Nat
  BY MaxGenAssumption DEF MirrorIInv, MirrorTypeOK, StoreTypeOK
<1>5. Remembers(p)'
  BY <1>1, <1>3, <1>4 DEF Remembers
<1>6. Holding(p)' /\ Owes(p)' /\ Sole(p)'
  BY <1>3 DEF Holding, Owes, Sole, Begun, Done
<1> QED BY <1>2, <1>3, <1>5, <1>6, PrivateStep

\* The call reads the row before it takes a marker.
LEMMA CallStep ==
  ASSUME MirrorIInv, NEW p \in Callers, NEW w \in Worlds, Call(p, w)
  PROVE  MirrorIInv'
<1> DEFINE e == [kind |-> intent[p].kind, before |-> generation, after |-> 0,
                 from |-> world, to |-> NoWorld]
<1>2. /\ at[p] = "read" /\ intent[p] \in Intents /\ intent[p].kind # "initialize"
      /\ initialized /\ intent[p].generation <= generation
      /\ intent[p].generation < MaxGen
      /\ generation \in 0..MaxGen /\ world \in Worlds
  BY DEF Call, MirrorIInv, CallersInv, Remembers, MirrorTypeOK, StoreTypeOK
<1>3. e \in [kind : Kinds, before : 0..MaxGen, after : 0..MaxGen,
             from : Worlds \cup {NoWorld}, to : {NoWorld}]
  BY <1>2, MaxGenAssumption DEF Intents
<1>4. MirrorTypeOK'
  BY <1>2, <1>3 DEF Call, MoveTo, MirrorIInv, MirrorTypeOK, StoreTypeOK, storeVars, journalVars
<1>5. /\ at'[p] = "called" /\ intent'[p] = intent[p] /\ envelope'[p] = e
      /\ generation' = generation /\ initialized' = initialized /\ world' = world
      /\ Private(p)
  BY DEF Call, MoveTo, MirrorIInv, MirrorTypeOK, Private, Begun, storeVars
<1>6. Remembers(p)'
  BY <1>2, <1>5, MaxGenAssumption DEF Remembers
<1>7. Holding(p)' /\ Owes(p)' /\ Sole(p)'
  BY <1>5 DEF Holding, Owes, Sole, Begun, Done
<1> QED BY <1>4, <1>5, <1>6, <1>7, PrivateStep

\* A call of initialize reads nothing.
LEMMA CallInitializeStep ==
  ASSUME MirrorIInv, NEW p \in Callers, NEW w \in Worlds, NEW auth \in Auths,
         CallInitialize(p, w, auth)
  PROVE  MirrorIInv'
<1> DEFINE i == [kind |-> "initialize", generation |-> 0, world |-> w, auth |-> auth]
<1>1. i \in Intents
  BY MaxGenAssumption DEF Intents, Kinds
<1>2. MirrorTypeOK'
  BY <1>1 DEF CallInitialize, MoveTo, MirrorIInv, MirrorTypeOK, StoreTypeOK, storeVars,
              journalVars
<1>3. /\ at[p] = "idle" /\ at'[p] = "called" /\ intent'[p] = i /\ envelope'[p] = envelope[p]
      /\ Private(p)
  BY DEF CallInitialize, MoveTo, MirrorIInv, MirrorTypeOK, Private, Begun
<1>4. envelope[p] = NoEnvelope
  BY <1>3 DEF MirrorIInv, CallersInv, Remembers
<1>5. Remembers(p)'
  BY <1>1, <1>3, <1>4 DEF Remembers, NoEnvelope
<1>6. Holding(p)' /\ Owes(p)' /\ Sole(p)'
  BY <1>3 DEF Holding, Owes, Sole, Begun, Done
<1> QED BY <1>2, <1>3, <1>5, <1>6, PrivateStep

\* require_clear ends the call or lets it go on.
LEMMA RequireClearStep ==
  ASSUME MirrorIInv, NEW p \in Callers, RequireClear(p)
  PROVE  MirrorIInv'
<1>1. CASE Pending
  BY <1>1, LeaveStep DEF RequireClear
<1>2. CASE ~Pending
  <2>1. MirrorTypeOK'
    BY <1>2 DEF RequireClear, MoveTo, MirrorIInv, MirrorTypeOK, StoreTypeOK, storeVars,
                journalVars, callVars
  <2>2. /\ at[p] = "called" /\ at'[p] = "checked" /\ intent'[p] = intent[p]
        /\ envelope'[p] = envelope[p] /\ UNCHANGED storeVars
        /\ Private(p)
    BY <1>2 DEF RequireClear, MoveTo, MirrorIInv, MirrorTypeOK, Private, Begun, callVars
  <2>3. Remembers(p)
    BY DEF MirrorIInv, CallersInv
  <2>4. Remembers(p)'
    BY <2>2, <2>3 DEF Remembers, storeVars
  <2>5. Holding(p)' /\ Owes(p)' /\ Sole(p)'
    BY <2>2 DEF Holding, Owes, Sole, Begun, Done
  <2> QED BY <2>1, <2>2, <2>4, <2>5, PrivateStep
<1> QED BY <1>1, <1>2

\* The bridge accepts the evidence.
LEMMA BridgeStep ==
  ASSUME MirrorIInv, NEW p \in Callers, Bridge(p)
  PROVE  MirrorIInv'
<1>1. MirrorTypeOK'
  BY DEF Bridge, MoveTo, MirrorIInv, MirrorTypeOK, StoreTypeOK, storeVars, journalVars, callVars
<1>2. /\ at[p] = "mutated" /\ at'[p] = "bridged" /\ intent'[p] = intent[p]
      /\ envelope'[p] = envelope[p] /\ ticket'[p] = ticket[p]
      /\ UNCHANGED <<careful, storeVars, journalVars, made>>
      /\ Private(p)
  BY DEF Bridge, MoveTo, MirrorIInv, MirrorTypeOK, Private, Begun, callVars
<1>3. Remembers(p) /\ Holding(p) /\ Owes(p) /\ Sole(p)
  BY DEF MirrorIInv, CallersInv
<1>4. Remembers(p)' /\ Owes(p)'
  BY <1>2, <1>3 DEF Remembers, Owes, storeVars, Begun, Done
<1>5. Holding(p)' /\ Sole(p)'
  BY <1>2, <1>3 DEF Holding, Sole, storeVars, journalVars, Begun, Done, Marked, Pending, Cleared,
                    Spent, Undisturbed, Recorded
<1> QED BY <1>1, <1>2, <1>4, <1>5, PrivateStep

\* initialize reads the row after its transaction.
LEMMA ReadBackStep ==
  ASSUME MirrorIInv, NEW p \in Callers, ReadBack(p)
  PROVE  MirrorIInv'
<1>1. Remembers(p) /\ Holding(p) /\ Owes(p) /\ Sole(p)
  BY DEF MirrorIInv, CallersInv
<1>2. /\ at[p] = "inserted" /\ intent[p].kind = "initialize" /\ at[p] # "idle"
      /\ world \in Worlds /\ NoWorld \notin Worlds
  BY <1>1, NoWorldAssumption DEF ReadBack, Remembers, MirrorIInv, MirrorTypeOK, StoreTypeOK
<1> DEFINE e == [kind |-> "initialize", before |-> 0, after |-> 0, from |-> NoWorld,
                 to |-> world]
<1>3. envelope[p] = [kind |-> "initialize", before |-> 0, after |-> 0, from |-> NoWorld,
                     to |-> envelope[p].to]
  BY <1>1, <1>2 DEF Remembers, NoEnvelope
<1>4. /\ at'[p] = "mutated" /\ intent'[p] = intent[p] /\ ticket'[p] = ticket[p]
      /\ envelope'[p] = [envelope[p] EXCEPT !.to = world]
      /\ UNCHANGED <<careful, storeVars, journalVars, made>>
      /\ Private(p)
  BY <1>2 DEF ReadBack, MoveTo, MirrorIInv, MirrorTypeOK, Private, Begun
<1>5. envelope'[p] = e
  BY <1>3, <1>4
<1>6. e \in Envelopes
  BY <1>2, MaxGenAssumption DEF Envelopes, Kinds
<1>7. MirrorTypeOK'
  <2>1. envelope' = [envelope EXCEPT ![p] = e]
    BY <1>5 DEF ReadBack, MirrorIInv, MirrorTypeOK
  <2>2. envelope' \in [Callers -> Envelopes \cup
                        [kind : Kinds, before : 0..MaxGen, after : 0..MaxGen,
                         from : Worlds \cup {NoWorld}, to : {NoWorld}]]
    BY <1>6, <2>1 DEF MirrorIInv, MirrorTypeOK
  <2>3. at' \in [Callers -> {"idle", "read", "called", "checked", "pending",
                             "inserted", "mutated", "bridged"}]
    BY DEF ReadBack, MoveTo, MirrorIInv, MirrorTypeOK
  <2> QED BY <2>2, <2>3 DEF ReadBack, MirrorIInv, MirrorTypeOK, StoreTypeOK, storeVars,
                            journalVars
<1>8. Remembers(p)'
  BY <1>1, <1>2, <1>4, <1>5 DEF Remembers, NoEnvelope, storeVars
<1>9. Owes(p)'
  BY <1>1, <1>2, <1>4, <1>5, <1>6 DEF Owes, storeVars, Begun, Done
<1>10. Holding(p)' /\ Sole(p)'
  BY <1>1, <1>2, <1>4 DEF Holding, Sole, storeVars, journalVars, Begun, Done, Marked, Pending,
                          Cleared, Spent, Undisturbed, Recorded
<1> QED BY <1>4, <1>7, <1>8, <1>9, <1>10, PrivateStep

\* What appending does to a sequence.
LEMMA AppendFacts ==
  ASSUME NEW S, NEW s \in Seq(S), NEW e \in S, NEW t, t = Append(s, e)
  PROVE  /\ t \in Seq(S) /\ Len(s) \in Nat
         /\ DOMAIN s = 1..Len(s) /\ Len(t) = Len(s) + 1 /\ DOMAIN t = 1..(Len(s) + 1)
         /\ \A n \in 1..Len(s) : t[n] = s[n]
         /\ t[Len(s) + 1] = e
  OBVIOUS

\* An element of a sequence has its type.
LEMMA ElementType ==
  ASSUME NEW S, NEW s \in Seq(S), NEW n \in DOMAIN s
  PROVE  s[n] \in S
  OBVIOUS

\* The types of the transitions and records there are.
LEMMA RecordTypes ==
  ASSUME MirrorTypeOK
  PROVE  /\ \A k \in DOMAIN made :
              /\ made[k] = [sequence |-> made[k].sequence, envelope |-> made[k].envelope]
              /\ made[k].sequence \in 1..MaxSeq /\ made[k].sequence \in Nat
              /\ made[k].envelope \in Envelopes
         /\ \A n \in DOMAIN history : history[n] \in Events /\ history[n].sequence \in Nat
<1>1. \A k \in DOMAIN made : made[k] \in [sequence : 1..MaxSeq, envelope : Envelopes]
  BY ElementType DEF MirrorTypeOK
<1>2. \A n \in DOMAIN history : history[n] \in Events
  BY ElementType DEF MirrorTypeOK
<1>3. \A n \in 1..MaxSeq : n \in Nat
  BY CallerAssumption
<1>4. \A n \in DOMAIN history : history[n].sequence \in Nat
  BY <1>2, <1>3 DEF Events
<1> QED BY <1>1, <1>2, <1>3, <1>4

\* The journal with one more record, that of event e.
Journals(e) ==
    /\ DOMAIN history = 1..Len(history) /\ Len(history) \in Nat
    /\ Len(history') = Len(history) + 1 /\ DOMAIN history' = 1..(Len(history) + 1)
    /\ \A n \in 1..Len(history) : history'[n] = history[n]
    /\ history'[Len(history) + 1] = e

\* A marker is taken: nobody holds the new number, nothing was made under it.
LEMMA BeginStep ==
  ASSUME MirrorIInv, NEW p \in Callers, Begin(p)
  PROVE  MirrorIInv'
<1> DEFINE e == Event(guard.sequence + 1, "PENDING", NoEnvelope)
<1>1. /\ at[p] = "checked" /\ ~Pending
      /\ guard.sequence \in Nat /\ guard.sequence < MaxSeq /\ MaxSeq \in Nat
  BY CallerAssumption DEF Begin, MayBegin, MirrorIInv, MirrorTypeOK
<1>2. e \in Events
  BY <1>1 DEF Event, Events
<1>3. Journals(e) /\ history' \in Seq(Events)
  BY <1>2, AppendFacts DEF Begin, Journals, MirrorIInv, MirrorTypeOK
<1>4. MirrorTypeOK'
  BY <1>1, <1>3 DEF Begin, MoveTo, MirrorIInv, MirrorTypeOK, StoreTypeOK, storeVars
<1>5. /\ at'[p] = "pending" /\ ticket'[p] = guard.sequence + 1
      /\ guard'.sequence = guard.sequence + 1 /\ guard'.status = "PENDING"
      /\ guard'.intent = intent[p] /\ intent' = intent /\ envelope' = envelope
      /\ made' = made /\ careful' = careful
      /\ initialized' = initialized /\ generation' = generation /\ world' = world
      /\ reservation' = reservation
      /\ \A q \in Callers \ {p} : at'[q] = at[q] /\ ticket'[q] = ticket[q]
  BY DEF Begin, MoveTo, MirrorIInv, MirrorTypeOK, storeVars
<1>6. Recorded("ACKED")' = Recorded("ACKED") /\ Recorded("RECONCILED")' = Recorded("RECONCILED")
  BY <1>3 DEF Recorded, Journals, Event
<1>7. \A k \in DOMAIN made : made[k].sequence \in Nat /\ made[k].sequence <= guard.sequence
  BY RecordTypes DEF MirrorIInv, RowTells, LeftInRow
<1>8. RowTells'
  BY <1>1, <1>5, <1>7 DEF MirrorIInv, RowTells, LeftInRow, MadeOnce
<1>9. ASSUME NEW q \in Callers
      PROVE  Remembers(q)' /\ Holding(q)' /\ Owes(q)' /\ Sole(q)'
  <2>1. Remembers(q) /\ Holding(q) /\ Owes(q) /\ Sole(q)
    BY DEF MirrorIInv, CallersInv
  <2>2. CASE q = p
    <3>1. Remembers(p)'
      BY <1>1, <1>5, <2>1, <2>2 DEF Remembers
    <3>2. Holding(p)'
      BY <1>1, <1>5, <1>7 DEF Holding, Marked, Pending
    <3>3. Owes(p)'
      BY <1>1, <1>5, <1>7 DEF Owes, Begun, Done
    <3>4. Sole(p)'
      BY <1>5 DEF Sole, Marked, Pending, Done
    <3> QED BY <2>2, <3>1, <3>2, <3>3, <3>4
  <2>3. CASE q # p
    <3>1. at'[q] = at[q] /\ ticket'[q] = ticket[q] /\ ticket[q] \in Nat
      BY <1>5, <2>3 DEF MirrorIInv, MirrorTypeOK
    <3>2. Remembers(q)' /\ Owes(q)'
      BY <1>5, <2>1, <3>1 DEF Remembers, Owes
    <3>3. Cleared(q) => Cleared(q)'
      BY <1>3, <3>1 DEF Cleared, Journals
    <3>4. Holding(q)'
      BY <1>1, <1>5, <2>1, <3>1, <3>3 DEF Holding, Marked, Pending, Spent
    <3>5. Sole(q)'
      BY <1>1, <1>5, <1>6, <2>1, <3>1 DEF Sole, Undisturbed, Marked, Done, Begun
    <3> QED BY <3>2, <3>4, <3>5
  <2> QED BY <2>2, <2>3
<1>10. Distinct'
  BY <1>1, <1>5 DEF MirrorIInv, Distinct, CallersInv, Holding
<1>11. GuardTells'
  BY <1>1, <1>5, <1>7 DEF GuardTells
<1>12. NoSilentTransition'
  BY <1>1, <1>3, <1>5 DEF MirrorIInv, NoSilentTransition, Journals
<1>13. JournalInv'
  <2>1. \A n \in Recorded("ACKED") : n \in 1..Len(history) /\ history'[n] = history[n]
                                     /\ history[n].sequence \in Nat
    BY <1>3, RecordTypes DEF Recorded, Journals, MirrorIInv
  <2>2. AcksInOrder'
    BY <1>1, <1>5, <1>6, <2>1 DEF MirrorIInv, JournalInv, AcksInOrder
  <2>3. MadeInOrder' /\ AckedWasMade'
    BY <1>5, <1>6, <2>1 DEF MirrorIInv, JournalInv, MadeInOrder, AckedWasMade, Acknowledged, Event
  <2> QED BY <2>2, <2>3 DEF JournalInv
<1> QED BY <1>4, <1>8, <1>9, <1>10, <1>11, <1>12, <1>13 DEF MirrorIInv, CallersInv

\* An operator clears the marker, abandoned or not.
LEMMA ReconcileMirrorStep ==
  ASSUME MirrorIInv, ReconcileMirror
  PROVE  MirrorIInv'
<1> DEFINE e == Event(guard.sequence, "RECONCILED", NoEnvelope)
<1>1. Pending /\ guard.sequence \in 1..MaxSeq /\ MaxSeq \in Nat
  BY CallerAssumption DEF ReconcileMirror, MirrorIInv, MirrorTypeOK, GuardTells
<1>2. e \in Events
  BY <1>1 DEF Event, Events
<1>3. Journals(e) /\ history' \in Seq(Events)
  BY <1>2, AppendFacts DEF ReconcileMirror, Journals, MirrorIInv, MirrorTypeOK
<1>4. /\ guard' = [sequence |-> guard.sequence, status |-> "CLEAR", intent |-> NoIntent]
      /\ guard'.sequence = guard.sequence /\ ~Pending'
  BY DEF ReconcileMirror, MirrorIInv, MirrorTypeOK, Pending
<1>5. /\ UNCHANGED <<careful, at, intent, target, envelope, ticket, made>>
      /\ UNCHANGED <<initialized, generation, world, reservation, closedBy>>
      /\ careful => OwnerGone
  BY DEF ReconcileMirror, storeVars, callVars
<1>6. MirrorTypeOK'
  BY <1>1, <1>3, <1>4, <1>5 DEF MirrorIInv, MirrorTypeOK, StoreTypeOK
<1>7. Recorded("ACKED")' = Recorded("ACKED") /\ Recorded("RECONCILED")' # {}
  <2>1. Len(history) + 1 \in Recorded("RECONCILED")'
    BY <1>3 DEF Recorded, Journals, Event
  <2>2. Recorded("ACKED")' = Recorded("ACKED")
    BY <1>3 DEF Recorded, Journals, Event
  <2> QED BY <2>1, <2>2
<1>8. RowTells'
  BY <1>4, <1>5 DEF MirrorIInv, RowTells, LeftInRow, MadeOnce
<1>9. ASSUME NEW q \in Callers
      PROVE  Remembers(q)' /\ Holding(q)' /\ Owes(q)' /\ Sole(q)'
  <2>1. Remembers(q) /\ Holding(q) /\ Owes(q) /\ Sole(q)
    BY DEF MirrorIInv, CallersInv
  <2>2. Remembers(q)' /\ Owes(q)'
    BY <1>5, <2>1 DEF Remembers, Owes
  <2>3. /\ Cleared(q) => Cleared(q)'
        /\ Marked(q) => Cleared(q)'
    BY <1>3, <1>5 DEF Cleared, Marked, Journals, Event
  <2>4. Holding(q)'
    BY <1>4, <1>5, <2>1, <2>3 DEF Holding, Marked, Spent
  <2>5. Sole(q)'
    BY <1>5, <1>7, <2>1 DEF Sole, Undisturbed, OwnerGone, Marked, Begun, Done
  <2> QED BY <2>2, <2>4, <2>5
<1>10. Distinct' /\ GuardTells'
  BY <1>4, <1>5 DEF MirrorIInv, Distinct, GuardTells
<1>11. NoSilentTransition'
  <2> SUFFICES ASSUME NEW k \in DOMAIN made
               PROVE  \E n \in DOMAIN history' :
                        /\ history'[n].sequence = made[k].sequence
                        /\ \/ history'[n].kind = "RECONCILED"
                           \/ /\ history'[n].kind = "ACKED"
                              /\ history'[n].envelope = made[k].envelope
    BY <1>5 DEF NoSilentTransition
  <2>1. CASE Pending /\ guard.sequence = made[k].sequence
    <3>1. Len(history) + 1 \in DOMAIN history'
      BY <1>3 DEF Journals
    <3> QED BY <1>3, <2>1, <3>1 DEF Journals, Event
  <2>2. CASE ~(Pending /\ guard.sequence = made[k].sequence)
    <3>1. PICK n \in DOMAIN history :
            /\ history[n].sequence = made[k].sequence
            /\ \/ history[n].kind = "RECONCILED"
               \/ history[n].kind = "ACKED" /\ history[n].envelope = made[k].envelope
      BY <2>2 DEF MirrorIInv, NoSilentTransition
    <3>2. n \in DOMAIN history' /\ history'[n] = history[n]
      BY <1>3 DEF Journals
    <3> QED BY <3>1, <3>2
  <2> QED BY <2>1, <2>2
<1>12. JournalInv'
  <2>1. \A n \in Recorded("ACKED") : history'[n] = history[n]
    BY <1>3 DEF Recorded, Journals
  <2>2. AcksInOrder' /\ AckedWasMade'
    BY <1>4, <1>5, <1>7, <2>1 DEF MirrorIInv, JournalInv, AcksInOrder, AckedWasMade
  <2>3. MadeInOrder'
    BY <1>7 DEF MadeInOrder
  <2> QED BY <2>2, <2>3 DEF JournalInv
<1> QED BY <1>6, <1>8, <1>9, <1>10, <1>11, <1>12 DEF MirrorIInv, CallersInv

\* A call that acknowledges has evidence of a transition of the row.
LEMMA BridgedEvidence ==
  ASSUME MirrorIInv, NEW p \in Callers, at[p] \in {"mutated", "bridged"}
  PROVE  /\ Spent(p)
         /\ envelope[p] \in Envelopes
         /\ \A k \in DOMAIN made :
              /\ made[k].envelope.kind = intent[p].kind
              /\ made[k].envelope.before = intent[p].generation
              /\ intent[p].kind = "initialize" => generation = 0
              => made[k].envelope = envelope[p]
<1>1. Remembers(p) /\ Owes(p) /\ at[p] # "idle" /\ at[p] \in Done /\ initialized
      /\ envelope[p] \in Envelopes
  BY DEF MirrorIInv, CallersInv, Owes, Done
<1>2. CASE intent[p].kind # "initialize"
  <2>1. PICK l \in DOMAIN made :
            /\ made[l] = [sequence |-> ticket[p], envelope |-> envelope[p]]
            /\ envelope[p].kind = intent[p].kind
            /\ envelope[p].before = intent[p].generation
    BY <1>1, <1>2 DEF Owes
  <2>2. made[l].envelope = envelope[p]
    BY <2>1
  <2>3. Spent(p)
    BY <2>1, <2>2 DEF Spent
  <2> QED BY <1>1, <1>2, <2>1, <2>2, <2>3 DEF MirrorIInv, RowTells, MadeOnce
<1>3. CASE intent[p].kind = "initialize"
  <2>1. PICK l \in DOMAIN made : made[l].envelope.kind = "initialize"
    BY <1>1 DEF MirrorIInv, RowTells
  <2>2. \A k \in DOMAIN made : made[k].envelope.kind = "initialize" =>
          /\ made[k].envelope.before = 0 /\ made[k].envelope.after = 0
          /\ made[k].envelope.from = NoWorld
          /\ generation = 0 => made[k].envelope.to = world
    BY DEF MirrorIInv, RowTells, LeftInRow
  <2>3. Spent(p)
    BY <1>1, <1>3, <2>1, <2>2 DEF Spent, Remembers
  <2>4. /\ envelope[p] = [kind |-> "initialize", before |-> 0, after |-> 0, from |-> NoWorld,
                          to |-> envelope[p].to]
        /\ generation = 0 => envelope[p].to = world
    BY <1>1, <1>3 DEF Remembers, Owes, NoEnvelope
  <2>5. \A k \in DOMAIN made : made[k].envelope = [kind |-> made[k].envelope.kind,
            before |-> made[k].envelope.before, after |-> made[k].envelope.after,
            from |-> made[k].envelope.from, to |-> made[k].envelope.to]
    BY RecordTypes DEF MirrorIInv, Envelopes
  <2> QED BY <1>1, <1>3, <2>2, <2>3, <2>4, <2>5
<1> QED BY <1>2, <1>3

\* The acknowledgement of a call, or of another call with the same intent.
LEMMA AcknowledgeStep ==
  ASSUME MirrorIInv, NEW p \in Callers, Acknowledge(p)
  PROVE  MirrorIInv'
<1> DEFINE e == Event(guard.sequence, "ACKED", envelope[p])
<1>1. /\ at[p] = "bridged" /\ Pending /\ guard.intent = intent[p]
      /\ guard.sequence \in 1..MaxSeq /\ MaxSeq \in Nat
  BY CallerAssumption DEF Acknowledge, MayAcknowledge, MirrorIInv, MirrorTypeOK, GuardTells
<1>2. /\ Spent(p) /\ envelope[p] \in Envelopes
      /\ \A k \in DOMAIN made :
              /\ made[k].envelope.kind = intent[p].kind
              /\ made[k].envelope.before = intent[p].generation
              /\ intent[p].kind = "initialize" => generation = 0
              => made[k].envelope = envelope[p]
  BY <1>1, BridgedEvidence
<1>3. e \in Events
  BY <1>1, <1>2 DEF Event, Events
<1>4. Journals(e) /\ history' \in Seq(Events)
  BY <1>3, AppendFacts DEF Acknowledge, Journals, MirrorIInv, MirrorTypeOK
<1>5. /\ guard' = [sequence |-> guard.sequence, status |-> "CLEAR", intent |-> NoIntent]
      /\ guard'.sequence = guard.sequence /\ ~Pending'
  BY DEF Acknowledge, MirrorIInv, MirrorTypeOK, Pending
<1>6. /\ UNCHANGED <<careful, made, initialized, generation, world, reservation, closedBy>>
      /\ at'[p] = "idle" /\ intent'[p] = NoIntent /\ envelope'[p] = NoEnvelope
      /\ \A q \in Callers \ {p} :
           /\ at'[q] = at[q] /\ intent'[q] = intent[q]
           /\ envelope'[q] = envelope[q] /\ ticket'[q] = ticket[q]
  BY DEF Acknowledge, Leave, MoveTo, MirrorIInv, MirrorTypeOK, storeVars
<1>7. MirrorTypeOK'
  BY <1>1, <1>4, <1>5, <1>6, LeaveType DEF Acknowledge, MirrorIInv, MirrorTypeOK, StoreTypeOK
<1>8. /\ Recorded("ACKED")' = Recorded("ACKED") \cup {Len(history) + 1}
      /\ Recorded("RECONCILED")' = Recorded("RECONCILED")
  BY <1>4 DEF Recorded, Journals, Event
<1>9. RowTells'
  BY <1>5, <1>6 DEF MirrorIInv, RowTells, LeftInRow, MadeOnce
<1>10. ASSUME NEW q \in Callers
       PROVE  Remembers(q)' /\ Holding(q)' /\ Owes(q)' /\ Sole(q)'
  <2>1. Remembers(q) /\ Holding(q) /\ Owes(q) /\ Sole(q)
    BY DEF MirrorIInv, CallersInv
  <2>2. CASE q = p
    BY <1>6, <2>2 DEF Remembers, Holding, Owes, Sole, Begun, Done
  <2>3. CASE q # p
    <3>1. /\ at'[q] = at[q] /\ intent'[q] = intent[q]
          /\ envelope'[q] = envelope[q] /\ ticket'[q] = ticket[q]
      BY <1>6, <2>3
    <3>2. Remembers(q)' /\ Owes(q)'
      BY <1>6, <2>1, <3>1 DEF Remembers, Owes
    <3>3. Cleared(q) => Cleared(q)'
      BY <1>4, <3>1 DEF Cleared, Journals
    <3>4. Spent(q) => Spent(q)'
      BY <1>6, <3>1 DEF Spent
    <3>5. at[q] \in Begun /\ Marked(q) => Spent(q)
      BY <1>1, <1>2, <2>1 DEF Holding, Spent
    <3>6. Holding(q)'
      BY <1>5, <1>6, <2>1, <3>1, <3>3, <3>4, <3>5 DEF Holding, Marked
    <3>7. Undisturbed => ~(at[q] \in Begun)
      <4>1. Undisturbed /\ at[q] \in Begun => Marked(q) /\ Marked(p) /\ at[p] \in Begun
        BY <1>1, <2>1 DEF Sole, Begun, MirrorIInv, CallersInv
      <4> QED BY <2>3, <4>1 DEF MirrorIInv, Distinct, Marked
    <3>8. Sole(q)'
      BY <1>6, <1>8, <3>1, <3>7 DEF Sole, Undisturbed, Begun, Done
    <3> QED BY <3>2, <3>6, <3>8
  <2> QED BY <2>2, <2>3
<1>11. Distinct' /\ GuardTells'
  BY <1>5, <1>6 DEF MirrorIInv, Distinct, GuardTells, Begun
<1>12. NoSilentTransition'
  <2> SUFFICES ASSUME NEW k \in DOMAIN made
               PROVE  \E n \in DOMAIN history' :
                        /\ history'[n].sequence = made[k].sequence
                        /\ \/ history'[n].kind = "RECONCILED"
                           \/ /\ history'[n].kind = "ACKED"
                              /\ history'[n].envelope = made[k].envelope
    BY <1>6 DEF NoSilentTransition
  <2>1. CASE guard.sequence = made[k].sequence
    <3>1. Len(history) + 1 \in DOMAIN history'
      BY <1>4 DEF Journals
    <3>2. made[k].envelope = envelope[p]
      BY <1>1, <1>2, <2>1 DEF MirrorIInv, GuardTells
    <3> QED BY <1>4, <2>1, <3>1, <3>2 DEF Journals, Event
  <2>2. CASE guard.sequence # made[k].sequence
    <3>1. PICK n \in DOMAIN history :
            /\ history[n].sequence = made[k].sequence
            /\ \/ history[n].kind = "RECONCILED"
               \/ history[n].kind = "ACKED" /\ history[n].envelope = made[k].envelope
      BY <2>2 DEF MirrorIInv, NoSilentTransition
    <3>2. n \in DOMAIN history' /\ history'[n] = history[n]
      BY <1>4 DEF Journals
    <3> QED BY <3>1, <3>2
  <2> QED BY <2>1, <2>2
<1>13. JournalInv'
  <2>1. /\ \A n \in Recorded("ACKED") : /\ n \in 1..Len(history) /\ history'[n] = history[n]
                                        /\ history[n].sequence \in Nat
        /\ history'[Len(history) + 1] = [sequence |-> guard.sequence, kind |-> "ACKED",
                                         envelope |-> envelope[p]]
        /\ Len(history) \in Nat
    BY <1>4, RecordTypes DEF Recorded, Journals, MirrorIInv, Event
  <2>2. AcksInOrder'
    <3>1. \A n \in Recorded("ACKED") : history[n].sequence < guard.sequence
      BY <1>1 DEF MirrorIInv, JournalInv, AcksInOrder
    <3>2. \A n, m \in Recorded("ACKED") : m < n => history[m].sequence < history[n].sequence
      BY DEF MirrorIInv, JournalInv, AcksInOrder
    <3>3. \A n \in Recorded("ACKED")' : history'[n].sequence <= guard.sequence
      BY <1>1, <1>8, <2>1, <3>1
    <3>4. \A n, m \in Recorded("ACKED")' : m < n => history'[m].sequence < history'[n].sequence
      BY <1>8, <2>1, <3>1, <3>2
    <3> QED BY <1>5, <3>3, <3>4 DEF AcksInOrder
  <2>3. Undisturbed => /\ ticket[p] = guard.sequence
                       /\ intent[p].kind = "initialize" => generation = 0
    BY <1>1 DEF MirrorIInv, CallersInv, Sole, Marked, Begun, Done
  <2>4. MadeInOrder'
    <3>1. ASSUME Recorded("RECONCILED") = {}, envelope[p].kind # "initialize"
          PROVE  \E k \in DOMAIN made : made[k] = [sequence |-> guard.sequence,
                                                   envelope |-> envelope[p]]
      <4>1. intent[p].kind # "initialize"
        BY <1>1, <3>1 DEF MirrorIInv, CallersInv, Remembers, NoEnvelope
      <4> QED BY <1>1, <2>3, <3>1, <4>1 DEF MirrorIInv, CallersInv, Owes, Undisturbed
    <3>2. Recorded("RECONCILED") = {} =>
            /\ \A k, l \in DOMAIN made : k < l => made[k].sequence < made[l].sequence
            /\ \A n \in Recorded("ACKED") : history[n].envelope.kind # "initialize" =>
                 \E k \in DOMAIN made : history[n] = Event(made[k].sequence, "ACKED", made[k].envelope)
      BY DEF MirrorIInv, JournalInv, MadeInOrder, Acknowledged
    <3>3. ASSUME Recorded("RECONCILED") = {}, NEW n \in Recorded("ACKED")',
                 history'[n].envelope.kind # "initialize"
          PROVE  \E k \in DOMAIN made : history'[n] = Event(made[k].sequence, "ACKED", made[k].envelope)
      <4>1. CASE n = Len(history) + 1
        BY <2>1, <3>1, <3>3, <4>1 DEF Event
      <4>2. CASE n \in Recorded("ACKED")
        BY <2>1, <3>2, <3>3, <4>2
      <4> QED BY <1>8, <4>1, <4>2
    <3> QED BY <1>6, <1>8, <3>2, <3>3 DEF MadeInOrder, Acknowledged
  <2>5. AckedWasMade'
    <3>1. careful => \E k \in DOMAIN made : made[k].envelope = envelope[p]
      BY <1>2, <2>3 DEF Spent, Undisturbed
    <3> QED BY <1>6, <1>8, <2>1, <3>1 DEF MirrorIInv, JournalInv, AckedWasMade
  <2> QED BY <2>2, <2>4, <2>5 DEF JournalInv
<1> QED BY <1>7, <1>9, <1>10, <1>11, <1>12, <1>13 DEF MirrorIInv, CallersInv

\* The transitions with one more, t.
Extends(t) ==
    /\ DOMAIN made = 1..Len(made) /\ Len(made) \in Nat
    /\ DOMAIN made' = 1..(Len(made) + 1)
    /\ \A k \in 1..Len(made) : made'[k] = made[k]
    /\ made'[Len(made) + 1] = t

\* A mutation of the row succeeds only in the generation it names, and moves on.
LEMMA PrimaryFacts ==
  ASSUME MirrorTypeOK, NEW i \in Intents, NEW w \in Worlds, i.kind # "initialize",
         i.generation < MaxGen, Primary(i, w)
  PROVE  /\ generation = i.generation /\ world = i.world /\ initialized /\ initialized'
         /\ StoreTypeOK'
         /\ \/ /\ i.kind = "reserve" /\ generation' = generation /\ world' = world
               /\ reservation = NoReservation /\ reservation' # NoReservation
            \/ i.kind \in Advancing /\ generation' = generation + 1
<1> DEFINE id == [generation |-> i.generation, world |-> i.world, auth |-> i.auth]
<1>1. id \in LeaseIds /\ id # NoReservation /\ i.kind \in Kinds
  BY NoReservationAssumption DEF Intents, LeaseIds
<1>2. StoreTypeOK /\ generation \in Nat /\ generation < MaxGen + 1 /\ MaxGen \in Nat
  BY MaxGenAssumption DEF MirrorTypeOK, StoreTypeOK
<1>3. CASE i.kind = "reserve"
  <2>1. ReserveEffect(i.generation, i.world, id)
    BY <1>3 DEF Primary
  <2> QED BY <1>1, <1>2, <1>3, <2>1 DEF ReserveEffect, MayReserve, ExpectWorld, StoreTypeOK
<1>4. ASSUME NEW kind \in {"commit", "mutate", "reconcile"},
             NEW by \in LeaseIds \cup {NoReservation},
             ExpectWorld(i.generation, i.world), Advance(w, kind, by), i.kind = kind
      PROVE  /\ generation = i.generation /\ world = i.world /\ initialized /\ initialized'
             /\ StoreTypeOK' /\ i.kind \in Advancing /\ generation' = generation + 1
  <2>1. generation + 1 \in 0..MaxGen /\ generation \in 0..MaxGen
    BY <1>2, <1>4 DEF ExpectWorld
  <2>2. [kind |-> kind, by |-> by] \in Transitions
    BY DEF Transitions
  <2>3. closedBy' \in [0..MaxGen -> Transitions]
    BY <1>2, <1>4, <2>2 DEF Advance, StoreTypeOK
  <2> QED BY <1>2, <1>4, <2>1, <2>3 DEF ExpectWorld, Advance, StoreTypeOK, Advancing
<1>5. CASE i.kind = "commit"
  <2>1. CommitEffect(i.generation, i.world, id, w)
    BY <1>5 DEF Primary
  <2> QED BY <1>1, <1>4, <1>5, <2>1 DEF CommitEffect, MayCommit
<1>6. CASE i.kind = "mutate"
  <2>1. MutateWorld(i.generation, i.world, w)
    BY <1>6 DEF Primary
  <2> QED BY <1>1, <1>4, <1>6, <2>1 DEF MutateWorld
<1>7. CASE i.kind = "reconcile"
  <2>1. ReconcileReservation(i.generation, i.world, id, w)
    BY <1>7 DEF Primary
  <2> QED BY <1>1, <1>4, <1>7, <2>1 DEF ReconcileReservation
<1> QED BY <1>1, <1>3, <1>5, <1>6, <1>7 DEF Kinds

\* The primary store makes a transition that the mirror is marked for.
LEMMA MutateRowStep ==
  ASSUME MirrorIInv, NEW p \in Callers, MutateRow(p)
  PROVE  MirrorIInv'
<1>1. Remembers(p) /\ Holding(p) /\ Owes(p) /\ Sole(p)
  BY DEF MirrorIInv, CallersInv
<1>2. /\ at[p] = "pending" /\ at[p] # "idle" /\ at[p] \in Begun
      /\ intent[p] \in Intents /\ intent[p].kind # "initialize" /\ initialized
      /\ intent[p].generation < MaxGen /\ target[p] \in Worlds
      /\ ticket[p] \in 1..guard.sequence /\ guard.sequence \in 0..MaxSeq
      /\ ticket[p] \in 1..MaxSeq
  BY <1>1, CallerAssumption DEF MutateRow, Remembers, Holding, Begun, MirrorIInv, MirrorTypeOK
<1> DEFINE e == [kind |-> intent[p].kind, before |-> generation, after |-> generation',
                 from |-> world, to |-> world']
           t == [sequence |-> ticket[p], envelope |-> e]
<1>3. /\ generation = intent[p].generation /\ initialized' /\ StoreTypeOK'
      /\ \/ /\ intent[p].kind = "reserve" /\ generation' = generation /\ world' = world
            /\ reservation = NoReservation /\ reservation' # NoReservation
         \/ intent[p].kind \in Advancing /\ generation' = generation + 1
  BY <1>2, PrimaryFacts DEF MutateRow, MirrorIInv
<1>4. generation \in Nat /\ generation' \in Nat /\ world \in Worlds /\ world' \in Worlds
      /\ generation \in 0..MaxGen /\ generation' \in 0..MaxGen
  BY <1>3, MaxGenAssumption DEF MirrorIInv, MirrorTypeOK, StoreTypeOK
<1>5. e \in Envelopes /\ t \in [sequence : 1..MaxSeq, envelope : Envelopes]
  BY <1>2, <1>4 DEF Envelopes, Intents
<1>6. Extends(t) /\ made' \in Seq([sequence : 1..MaxSeq, envelope : Envelopes])
  <2>1. made' = Append(made, t)
    BY DEF MutateRow, Transition
  <2>2. made \in Seq([sequence : 1..MaxSeq, envelope : Envelopes])
    BY DEF MirrorIInv, MirrorTypeOK
  <2> HIDE DEF t
  <2> QED BY <1>5, <2>1, <2>2, AppendFacts DEF Extends
<1>7. /\ UNCHANGED <<careful, guard, history, intent, target, ticket>>
      /\ at'[p] = "mutated"
      /\ envelope'[p] = [envelope[p] EXCEPT !.after = generation', !.to = world']
      /\ \A q \in Callers \ {p} : at'[q] = at[q] /\ envelope'[q] = envelope[q]
  BY DEF MutateRow, MoveTo, MirrorIInv, MirrorTypeOK, journalVars
<1>8. envelope'[p] = e
  <2>1. envelope[p].kind = intent[p].kind /\ envelope[p].before = generation
        /\ envelope[p].from = world
    <3>1. /\ envelope[p].kind = intent[p].kind
          /\ intent[p].generation <= envelope[p].before
          /\ envelope[p].before <= generation
          /\ envelope[p].before = generation => envelope[p].from = world
      BY <1>1, <1>2 DEF Remembers
    <3>2. envelope[p].before \in 0..MaxGen
      BY DEF MirrorIInv, MirrorTypeOK, Envelopes
    <3> QED BY <1>3, <1>4, <3>1, <3>2, MaxGenAssumption
  <2>2. envelope[p] = [kind |-> envelope[p].kind, before |-> envelope[p].before,
             after |-> envelope[p].after, from |-> envelope[p].from, to |-> envelope[p].to]
    BY DEF MirrorIInv, MirrorTypeOK, Envelopes
  <2> QED BY <1>7, <2>1, <2>2
<1>9. MirrorTypeOK'
  <2>1. envelope' = [envelope EXCEPT ![p] = e]
    BY <1>8 DEF MutateRow, MirrorIInv, MirrorTypeOK
  <2>2. envelope' \in [Callers -> Envelopes \cup
                        [kind : Kinds, before : 0..MaxGen, after : 0..MaxGen,
                         from : Worlds \cup {NoWorld}, to : {NoWorld}]]
    BY <1>5, <2>1 DEF MirrorIInv, MirrorTypeOK
  <2>3. at' \in [Callers -> {"idle", "read", "called", "checked", "pending",
                             "inserted", "mutated", "bridged"}]
    BY DEF MutateRow, MoveTo, MirrorIInv, MirrorTypeOK
  <2> QED BY <1>3, <1>6, <1>7, <2>2, <2>3 DEF MirrorIInv, MirrorTypeOK
<1> HIDE DEF e
<1>10. e.kind = intent[p].kind /\ e.before = generation
  BY DEF e
<1>11. \A k \in DOMAIN made :
         /\ made[k].envelope.kind = e.kind /\ made[k].envelope.before = e.before => FALSE
         /\ made[k].envelope.before \in Nat /\ made[k].sequence \in Nat
         /\ made[k].sequence <= guard.sequence /\ LeftInRow(k)
  <2>1. \A k \in DOMAIN made : made[k].envelope.before \in Nat /\ made[k].sequence \in Nat
    BY RecordTypes, MaxGenAssumption DEF MirrorIInv, Envelopes
  <2> QED BY <1>3, <1>4, <1>10, <2>1 DEF MirrorIInv, RowTells, LeftInRow
<1>12. /\ \A k \in DOMAIN made : k \in DOMAIN made' /\ made'[k] = made[k]
      /\ \A k \in DOMAIN made' : (k \in DOMAIN made /\ made'[k] = made[k]) \/ made'[k] = t
  BY <1>6 DEF Extends
<1>13. RowTells'
  <2>1. ASSUME NEW k \in DOMAIN made PROVE LeftInRow(k)'
    <3>1. /\ made'[k] = made[k] /\ LeftInRow(k)
          /\ made[k].envelope.before \in Nat /\ made[k].sequence \in Nat
      BY <1>11, <1>12
    <3> QED BY <1>3, <1>4, <1>7, <3>1 DEF LeftInRow, Advancing
  <2>2. \A k \in DOMAIN made' : k \in DOMAIN made \/ made'[k] = t
    BY <1>12
  <2>3. ASSUME NEW k, made'[k] = t PROVE LeftInRow(k)'
    <3>1. made'[k].sequence = ticket[p] /\ made'[k].envelope = e
      BY <2>3
    <3>2. ticket[p] <= guard'.sequence
      BY <1>2, <1>7
    <3> QED BY <1>2, <1>3, <1>4, <1>10, <3>1, <3>2 DEF LeftInRow, Advancing
  <2>4. MadeOnce'
    <3>1. \A k \in DOMAIN made' : \/ k \in DOMAIN made /\ made'[k] = made[k]
                                  \/ k = Len(made) + 1 /\ made'[k].envelope = e
      BY <1>6 DEF Extends
    <3>2. MadeOnce
      BY DEF MirrorIInv, RowTells
    <3>3. \A k \in DOMAIN made : ~(/\ made[k].envelope.kind = e.kind
                                   /\ made[k].envelope.before = e.before)
      BY <1>11
    <3> QED BY <3>1, <3>2, <3>3 DEF MadeOnce
  <2>5. \E k \in DOMAIN made' : made'[k].envelope.kind = "initialize"
    BY <1>2, <1>12 DEF MirrorIInv, RowTells
  <2> QED BY <1>3, <2>1, <2>2, <2>3, <2>4, <2>5 DEF RowTells
<1>14. ASSUME NEW q \in Callers
       PROVE  Remembers(q)' /\ Holding(q)' /\ Owes(q)' /\ Sole(q)'
  <2>1. Remembers(q) /\ Holding(q) /\ Owes(q) /\ Sole(q)
    BY DEF MirrorIInv, CallersInv
  <2>2. Spent(q) => Spent(q)'
    BY <1>7, <1>12 DEF Spent
  <2>3. Cleared(q)' <=> Cleared(q)
    BY <1>7 DEF Cleared
  <2>4. intent[q] \in Intents => intent[q].generation \in Nat
    BY MaxGenAssumption DEF Intents
  <2>5. at'[q] \in Begun <=> at[q] \in Begun
    BY <1>2, <1>7 DEF Begun
  <2>6. CASE q = p
    <3>1. Remembers(p)'
      BY <1>1, <1>2, <1>3, <1>4, <1>7, <2>4, <2>6 DEF Remembers
    <3>2. Holding(p)'
      BY <1>1, <1>2, <1>7, <2>2, <2>3, <2>6 DEF Holding, Marked, Pending
    <3>3. Owes(p)'
      <4>1. \A k \in DOMAIN made' :
              made'[k].envelope.kind = "initialize" => made'[k].sequence < ticket[p]
        BY <1>1, <1>2, <1>10, <1>12 DEF Owes
      <4>2. Len(made) + 1 \in DOMAIN made' /\ made'[Len(made) + 1] = t
        BY <1>6 DEF Extends
      <4> QED BY <1>2, <1>3, <1>5, <1>7, <1>8, <1>10, <4>1, <4>2 DEF Owes, Done
    <3>4. Sole(p)'
      BY <1>1, <1>2, <1>7 DEF Sole, Undisturbed, Recorded, Marked, Pending
    <3> QED BY <2>6, <3>1, <3>2, <3>3, <3>4
  <2>7. CASE q # p
    <3>1. at'[q] = at[q] /\ envelope'[q] = envelope[q]
      BY <1>7, <2>7
    <3>2. Remembers(q)'
      <4>1. envelope[q].before \in Nat
        BY MaxGenAssumption DEF MirrorIInv, MirrorTypeOK, Envelopes
      <4> QED BY <1>2, <1>3, <1>4, <1>7, <2>1, <2>4, <3>1, <4>1 DEF Remembers
    <3>3. at[q] \in Begun => ticket[q] # ticket[p]
      BY <1>2, <2>7 DEF MirrorIInv, Distinct
    <3>4. Holding(q)'
      <4>1. at[q] = "pending" => \A k \in DOMAIN made' : made'[k].sequence # ticket[q]
        BY <1>12, <2>1, <3>3 DEF Holding, Begun
      <4> QED BY <1>7, <2>1, <2>2, <2>3, <3>1, <4>1 DEF Holding, Marked, Pending
    <3>5. Owes(q)'
      <4>1. at[q] \in Begun /\ intent[q].kind # "initialize" =>
              \A k \in DOMAIN made' :
                 made'[k].envelope.kind = "initialize" => made'[k].sequence < ticket[q]
        BY <1>2, <1>10, <1>12, <2>1 DEF Owes
      <4>2. at[q] \in {"mutated", "bridged"} /\ intent[q].kind # "initialize" =>
              \E k \in DOMAIN made' :
                 /\ made'[k] = [sequence |-> ticket[q], envelope |-> envelope[q]]
                 /\ envelope[q].kind = intent[q].kind
                 /\ envelope[q].before = intent[q].generation
        BY <1>12, <2>1 DEF Owes
      <4> QED BY <1>3, <1>4, <1>7, <2>1, <3>1, <4>1, <4>2 DEF Owes
    <3>6. Sole(q)'
      <4>1. Undisturbed => ~(at[q] \in Begun)
        BY <1>1, <1>2, <2>1, <3>3 DEF Sole, Marked
      <4> QED BY <1>7, <3>1, <4>1 DEF Sole, Undisturbed, Recorded, Begun, Done
    <3> QED BY <3>2, <3>4, <3>5, <3>6
  <2> QED BY <2>6, <2>7
<1>15. Distinct'
  BY <1>2, <1>7 DEF MirrorIInv, Distinct, Begun
<1>16. GuardTells'
  <2> SUFFICES ASSUME Pending
               PROVE  \A k \in DOMAIN made' : made'[k].sequence = guard.sequence =>
                        /\ made'[k].envelope.kind = guard.intent.kind
                        /\ made'[k].envelope.before = guard.intent.generation
                        /\ made'[k].envelope.kind = "initialize" => generation' = 0
    BY <1>7 DEF MirrorIInv, GuardTells, Pending
  <2>1. ticket[p] = guard.sequence => guard.intent = intent[p]
    BY <1>1, <1>2 DEF Holding, Marked
  <2>2. \A k \in DOMAIN made : made[k].envelope.kind = "initialize" =>
          made[k].sequence < guard.sequence
    BY <1>1, <1>2, <1>11 DEF Owes
  <2>3. \A k \in DOMAIN made : made[k].sequence = guard.sequence =>
                        /\ made[k].envelope.kind = guard.intent.kind
                        /\ made[k].envelope.before = guard.intent.generation
    BY DEF MirrorIInv, GuardTells
  <2> QED BY <1>2, <1>3, <1>10, <1>11, <1>12, <2>1, <2>2, <2>3
<1>17. NoSilentTransition'
  <2>1. Marked(p) \/ Cleared(p)
    BY <1>1, <1>2, <1>3, <1>10, <1>11 DEF Holding, Spent
  <2> SUFFICES ASSUME NEW k \in DOMAIN made'
               PROVE  \/ Pending /\ guard.sequence = made'[k].sequence
                      \/ \E n \in DOMAIN history :
                           /\ history[n].sequence = made'[k].sequence
                           /\ \/ history[n].kind = "RECONCILED"
                              \/ /\ history[n].kind = "ACKED"
                                 /\ history[n].envelope = made'[k].envelope
    BY <1>7 DEF NoSilentTransition, Pending
  <2>2. CASE k \in DOMAIN made /\ made'[k] = made[k]
    BY <2>2 DEF MirrorIInv, NoSilentTransition
  <2>3. CASE made'[k] = t
    BY <2>1, <2>3 DEF Marked, Cleared
  <2> QED BY <1>12, <2>2, <2>3
<1>18. JournalInv'
  <2>1. AcksInOrder'
    BY <1>7 DEF MirrorIInv, JournalInv, AcksInOrder, Recorded, Pending
  <2>2. AckedWasMade'
    BY <1>7, <1>12 DEF MirrorIInv, JournalInv, AckedWasMade, Recorded
  <2>3. Recorded("RECONCILED") = {} => \A k \in DOMAIN made : made[k].sequence < ticket[p]
    BY <1>1, <1>2, <1>11 DEF Sole, Undisturbed, Marked, Holding
  <2>4. Recorded("RECONCILED") = {} =>
          \A k, l \in DOMAIN made : k < l => made[k].sequence < made[l].sequence
    BY DEF MirrorIInv, JournalInv, MadeInOrder
  <2>5. Recorded("RECONCILED") = {} =>
          \A k, l \in DOMAIN made' : k < l => made'[k].sequence < made'[l].sequence
    BY <1>6, <2>3, <2>4 DEF Extends
  <2>6. Recorded("RECONCILED") = {} =>
          \A n \in Recorded("ACKED") : history[n].envelope.kind # "initialize" =>
             \E k \in DOMAIN made' : history[n] = Event(made'[k].sequence, "ACKED", made'[k].envelope)
    BY <1>12 DEF MirrorIInv, JournalInv, MadeInOrder, Acknowledged
  <2>7. MadeInOrder'
    BY <1>7, <2>5, <2>6 DEF MadeInOrder, Recorded, Acknowledged
  <2> QED BY <2>1, <2>2, <2>7 DEF JournalInv
<1> QED BY <1>9, <1>13, <1>14, <1>15, <1>16, <1>17, <1>18 DEF MirrorIInv, CallersInv

\* initialize inserts the row, or finds it as it would have inserted it.
LEMMA InsertRowStep ==
  ASSUME MirrorIInv, NEW p \in Callers, InsertRow(p)
  PROVE  MirrorIInv'
<1>1. Remembers(p) /\ Holding(p) /\ Owes(p) /\ Sole(p)
  BY DEF MirrorIInv, CallersInv
<1>2. /\ at[p] = "pending" /\ at[p] # "idle" /\ at[p] \in Begun /\ intent[p].kind = "initialize"
      /\ intent[p] \in Intents /\ intent[p].generation = 0 /\ target[p] \in Worlds
      /\ ticket[p] \in 1..guard.sequence /\ guard.sequence \in 0..MaxSeq
      /\ ticket[p] \in 1..MaxSeq /\ ticket[p] \in Nat
  BY <1>1, CallerAssumption DEF InsertRow, Remembers, Holding, Begun, MirrorIInv, MirrorTypeOK
<1>3. /\ UNCHANGED <<careful, guard, history, intent, target, ticket, envelope>>
      /\ at'[p] = "inserted"
      /\ \A q \in Callers \ {p} : at'[q] = at[q]
  BY DEF InsertRow, MoveTo, MirrorIInv, MirrorTypeOK, journalVars, callVars
<1>4. at' \in [Callers -> {"idle", "read", "called", "checked", "pending",
                           "inserted", "mutated", "bridged"}]
  BY DEF InsertRow, MoveTo, MirrorIInv, MirrorTypeOK
<1>5. CASE ExpectWorld(0, target[p]) /\ UNCHANGED <<storeVars, made>>
  <2>1. MirrorTypeOK'
    BY <1>3, <1>4, <1>5 DEF MirrorIInv, MirrorTypeOK, StoreTypeOK, storeVars
  <2>2. Private(p)
    BY <1>2, <1>3, <1>5 DEF Private, journalVars
  <2>3. Remembers(p)'
    BY <1>1, <1>2, <1>3, <1>5 DEF Remembers, storeVars
  <2>4. Owes(p)' /\ Sole(p)'
    BY <1>1, <1>2, <1>3, <1>5 DEF Owes, Sole, ExpectWorld, storeVars, Begun, Marked, Pending,
                                  Undisturbed, Recorded
  <2>5. Holding(p)'
    BY <1>1, <1>2, <1>3, <1>5 DEF Holding, Marked, Pending, Cleared, Spent
  <2> QED BY <2>1, <2>2, <2>3, <2>4, <2>5, PrivateStep
<1>6. CASE /\ Primary(intent[p], target[p])
           /\ made' = Append(made, Transition(ticket[p], "initialize", NoWorld))
  <2>1. Initialize(target[p])
    BY <1>2, <1>6 DEF Primary
  <2>2. /\ ~initialized /\ initialized' /\ made = <<>> /\ generation = 0 /\ generation' = 0
        /\ world' = target[p] /\ reservation' = NoReservation /\ closedBy' = closedBy
    BY <2>1 DEF Initialize, MirrorIInv, RowTells
  <2> DEFINE e == [kind |-> "initialize", before |-> 0, after |-> 0, from |-> NoWorld,
                   to |-> target[p]]
             t == [sequence |-> ticket[p], envelope |-> e]
  <2>3. e \in Envelopes /\ t \in [sequence : 1..MaxSeq, envelope : Envelopes]
    BY <1>2, MaxGenAssumption DEF Envelopes, Kinds
  <2>4. made' = <<t>>
    BY <1>6, <2>2 DEF Transition
  <2>5. DOMAIN made' = {1} /\ made'[1] = t /\ DOMAIN made = {}
    BY <2>2, <2>4
  <2>6. MirrorTypeOK'
    <3>1. StoreTypeOK'
      BY <1>2, <2>2, MaxGenAssumption DEF MirrorIInv, MirrorTypeOK, StoreTypeOK
    <3>2. made' \in Seq([sequence : 1..MaxSeq, envelope : Envelopes])
      <4> HIDE DEF t
      <4> QED BY <2>3, <2>4
    <3> QED BY <1>3, <1>4, <3>1, <3>2 DEF MirrorIInv, MirrorTypeOK
  <2>7. RowTells'
    BY <1>2, <1>3, <2>2, <2>5 DEF RowTells, LeftInRow, MadeOnce, Advancing
  <2>8. ASSUME NEW q \in Callers
        PROVE  Remembers(q)' /\ Holding(q)' /\ Owes(q)' /\ Sole(q)'
    <3>1. Remembers(q) /\ Holding(q) /\ Owes(q) /\ Sole(q)
      BY DEF MirrorIInv, CallersInv
    <3>2. /\ at[q] # "idle" => intent[q].kind = "initialize"
          /\ at[q] \notin Done /\ ~Spent(q)
      BY <2>2, <2>5, <3>1 DEF Remembers, Owes, Spent
    <3>3. Cleared(q)' <=> Cleared(q)
      BY <1>3 DEF Cleared
    <3>4. (at'[q] = at[q] /\ q # p) \/ (q = p /\ at'[q] = "inserted")
      BY <1>3
    <3>5. Remembers(q)'
      BY <1>1, <1>2, <1>3, <3>1, <3>2, <3>4 DEF Remembers
    <3>6. Holding(q)'
      <4>1. at[q] \in Begun /\ q # p => ticket[q] # ticket[p]
        BY <1>2 DEF MirrorIInv, Distinct
      <4> QED BY <1>2, <1>3, <2>5, <3>1, <3>2, <3>3, <3>4, <4>1 DEF Holding, Marked, Pending, Begun
    <3>7. Owes(q)'
      BY <1>2, <1>3, <2>2, <3>2, <3>4 DEF Owes, Begun, Done
    <3>8. Sole(q)'
      BY <1>2, <1>3, <2>2, <3>1, <3>4 DEF Sole, Undisturbed, Recorded, Marked, Pending, Begun
    <3> QED BY <3>5, <3>6, <3>7, <3>8
  <2>9. Distinct'
    BY <1>2, <1>3 DEF MirrorIInv, Distinct, Begun
  <2>10. GuardTells'
    BY <1>1, <1>2, <1>3, <2>2, <2>5 DEF MirrorIInv, GuardTells, Pending, Holding, Marked
  <2>11. NoSilentTransition'
    <3>1. Marked(p) \/ Cleared(p)
      BY <1>1, <1>2, <2>5 DEF Holding, Spent
    <3> QED BY <1>3, <2>5, <3>1 DEF NoSilentTransition, Marked, Cleared, Pending
  <2>12. JournalInv'
    BY <1>3, <2>5 DEF MirrorIInv, JournalInv, AcksInOrder, MadeInOrder, AckedWasMade, Recorded,
                      Pending, Acknowledged
  <2> QED BY <2>6, <2>7, <2>8, <2>9, <2>10, <2>11, <2>12 DEF MirrorIInv, CallersInv
<1> QED BY <1>5, <1>6 DEF InsertRow

\* Every step keeps the invariant.
LEMMA MirrorNextInv == MirrorIInv /\ [MirrorNext]_mirrorVars => MirrorIInv'
<1> SUFFICES ASSUME MirrorIInv, [MirrorNext]_mirrorVars PROVE MirrorIInv'
  OBVIOUS
<1>1. ASSUME NEW p \in Callers, CallerNext(p) PROVE MirrorIInv'
  <2>1. CASE \E auth \in Auths : \E kind \in Kinds : ReadState(p, kind, auth)
    BY <2>1, ReadStateStep
  <2>2. CASE \E auth \in Auths : \E w \in Worlds : CallInitialize(p, w, auth)
    BY <2>2, CallInitializeStep
  <2>3. CASE \E w \in Worlds : Call(p, w)
    BY <2>3, CallStep
  <2>4. CASE RequireClear(p) \/ Begin(p) \/ Bridge(p) \/ ReadBack(p)
    BY <2>4, RequireClearStep, BeginStep, BridgeStep, ReadBackStep
  <2>5. CASE MutateRow(p) \/ InsertRow(p) \/ Acknowledge(p)
    BY <2>5, MutateRowStep, InsertRowStep, AcknowledgeStep
  <2>6. CASE BeginRefused(p) \/ PrimaryFails(p) \/ BridgeFails(p) \/ AcknowledgeRefused(p)
             \/ Halt(p)
    BY <2>6, LeaveStep DEF BeginRefused, PrimaryFails, BridgeFails, AcknowledgeRefused, Halt
  <2> QED BY <1>1, <2>1, <2>2, <2>3, <2>4, <2>5, <2>6 DEF CallerNext
<1>2. CASE ReconcileMirror
  BY <1>2, ReconcileMirrorStep
<1>3. CASE UNCHANGED mirrorVars
  <2>1. MirrorTypeOK' /\ RowTells' /\ Distinct' /\ GuardTells' /\ NoSilentTransition'
    BY <1>3 DEF MirrorIInv, mirrorVars, storeVars, MirrorTypeOK, StoreTypeOK, RowTells, LeftInRow,
                MadeOnce, Distinct, GuardTells, NoSilentTransition, Pending
  <2>2. CallersInv'
    BY <1>3 DEF MirrorIInv, mirrorVars, storeVars, CallersInv, Remembers, Holding, Owes, Sole,
                Marked, Pending, Cleared, Spent, Undisturbed, Recorded
  <2>3. JournalInv'
    BY <1>3 DEF MirrorIInv, mirrorVars, JournalInv, AcksInOrder, MadeInOrder, AckedWasMade,
                Recorded, Pending, Acknowledged
  <2> QED BY <2>1, <2>2, <2>3 DEF MirrorIInv
<1> QED BY <1>1, <1>2, <1>3 DEF MirrorNext

\* The invariant of the mirror holds in every reachable state.
THEOREM MirrorInvariance == MirrorSpec => []MirrorIInv
<1> QED BY MirrorInitInv, MirrorNextInv, PTL DEF MirrorSpec

\* NoSilentTransition: no transition of the row goes without a pending marker, an
\* acknowledgement of exactly that transition or an explicit reconciliation.
THEOREM NothingSilent == MirrorSpec => []NoSilentTransition
<1>1. MirrorIInv => NoSilentTransition
  BY DEF MirrorIInv
<1> QED BY <1>1, MirrorInvariance, PTL

\* MirrorFaithful: acknowledgements and transitions correspond one by one and in order.
THEOREM MirrorTellsTheRow == MirrorSpec => []MirrorFaithful
<1>1. MirrorIInv => MirrorFaithful
  <2> SUFFICES ASSUME MirrorIInv PROVE MirrorFaithful
    OBVIOUS
  <2>1. careful => \A n \in Recorded("ACKED") :
           \E k \in DOMAIN made : made[k].envelope = history[n].envelope
    BY DEF MirrorIInv, JournalInv, AckedWasMade
  <2>2. ASSUME ~Pending, Recorded("RECONCILED") = {}
        PROVE  LET mirror == {n \in Recorded("ACKED") : history[n].envelope.kind # "initialize"}
                   row == {k \in DOMAIN made : made[k].envelope.kind # "initialize"}
               IN /\ \A k \in row : \E n \in mirror : Acknowledged(n, k)
                  /\ \A n \in mirror : \E k \in row : Acknowledged(n, k)
                  /\ \A m, n \in mirror, k, l \in row :
                       Acknowledged(m, k) /\ Acknowledged(n, l) => (m < n <=> k < l)
    <3> DEFINE mirror == {n \in Recorded("ACKED") : history[n].envelope.kind # "initialize"}
               row == {k \in DOMAIN made : made[k].envelope.kind # "initialize"}
    <3>1. /\ DOMAIN history = 1..Len(history)
          /\ \A n \in DOMAIN history : history[n] = [sequence |-> history[n].sequence,
                kind |-> history[n].kind, envelope |-> history[n].envelope]
          /\ \A n \in DOMAIN history : history[n].sequence \in Nat /\ n \in Nat
      BY RecordTypes DEF MirrorIInv, MirrorTypeOK, Events
    <3>2. \A k \in DOMAIN made : made[k].sequence \in Nat /\ k \in Nat
      BY RecordTypes DEF MirrorIInv, MirrorTypeOK
    <3>3. \A k \in row : \E n \in mirror : Acknowledged(n, k)
      BY <2>2, <3>1 DEF MirrorIInv, NoSilentTransition, Recorded, Acknowledged, Event
    <3>4. \A n \in mirror : \E k \in row : Acknowledged(n, k)
      BY <2>2 DEF MirrorIInv, JournalInv, MadeInOrder, Acknowledged, Event
    <3>5. ASSUME NEW m \in mirror, NEW n \in mirror, NEW k \in row, NEW l \in row,
                 Acknowledged(m, k), Acknowledged(n, l)
          PROVE  m < n <=> k < l
      <4>1. /\ history[m].sequence = made[k].sequence
            /\ history[n].sequence = made[l].sequence
        BY <3>5 DEF Acknowledged, Event
      <4>2. /\ m < n => history[m].sequence < history[n].sequence
            /\ n < m => history[n].sequence < history[m].sequence
        BY DEF MirrorIInv, JournalInv, AcksInOrder
      <4>3. /\ k < l => made[k].sequence < made[l].sequence
            /\ l < k => made[l].sequence < made[k].sequence
        BY <2>2 DEF MirrorIInv, JournalInv, MadeInOrder
      <4>4. m \in Nat /\ n \in Nat /\ k \in Nat /\ l \in Nat
            /\ made[k].sequence \in Nat /\ made[l].sequence \in Nat
        BY <3>1, <3>2 DEF Recorded
      <4> QED BY <4>1, <4>2, <4>3, <4>4
    <3> QED BY <3>3, <3>4, <3>5
  <2> QED BY <2>1, <2>2 DEF MirrorFaithful
<1> QED BY <1>1, MirrorInvariance, PTL
===============================================================================
