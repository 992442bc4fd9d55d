--------------------------- MODULE Evidence_proofs ---------------------------
(***************************************************************************)
(* Proofs about the two modules whose subject is evidence somebody else    *)
(* will read: GovernedTransaction (approvals, capsules, receipts and the   *)
(* projection journal) and TRCPPipeline (TRCP sessions), for every plan,   *)
(* every set of documents, every number of processes and every bound.      *)
(*                                                                         *)
(* GovernedTransaction. EngineInv is about the approval ledger: whatever a *)
(* process is about to overwrite the ledger with misses only attestations  *)
(* that were exposed to it. GateInv keeps, for every process the engine    *)
(* has let through, what it was let through on; SessionInv does so for a   *)
(* capsule session between its look at the ledger and the engine's.        *)
(* ReceiptInv does it for a receipt between its readings of the engine,    *)
(* over what JournalInv says of the journal; ProjectionInv is about the    *)
(* projection journal alone.                                               *)
(*                                                                         *)
(* TRCPPipeline. TraceInv says what an append-only trace has to hold so    *)
(* that the verifier's checks pass on it, in terms of the state it leads   *)
(* to; each kind of event keeps it, so each call of the simulator does     *)
(* (SimInv). WorkInv relates what a workload reported to the money that    *)
(* moved. StageInv, BindingInv and ConfirmInv say where a consumer         *)
(* pipeline is, that its runs carry its workload, and when there is a      *)
(* finding. PipeInv is all of them.                                        *)
(***************************************************************************)
EXTENDS GovernedTransaction, TRCPPipeline, SequenceTheorems, FiniteSetTheorems, TLAPS

Creating == {"create_policy", "create_snapshot", "create_ledger", "replace_ledger"}

FilesTypeOK ==
    /\ policyFile \in Policies \cup {NoFile}
    /\ snapshotFile \in Policies \cup {NoFile}
    /\ ledger \in Ledgers \cup {NoFile}
    /\ recorded \in Seq(Events)
    /\ DOMAIN pc = Procs /\ DOMAIN hand = Procs
    /\ \A p \in Procs :
         /\ pc[p] \in Creating => hand[p].policy \in Policies
         /\ pc[p] = "append" => hand[p].view \in Ledgers /\ hand[p].event \in Events

(* What a process is about to make of the ledger misses only what was       *)
(* exposed to it.                                                           *)
LossInv ==
    /\ LossOnlyToOverlap
    /\ \A p \in Procs :
         /\ pc[p] = "append" => EventsIn(recorded) \ EventsIn(hand[p].view.entries) \subseteq exposed
         /\ pc[p] = "replace_ledger" => EventsIn(recorded) \subseteq exposed

(* With a session, the files exist and nobody creates them. *)
BoundaryInv ==
    /\ boundary \in {"capsule", "identity", "receipts"} =>
         policyFile # NoFile /\ \A p \in Procs : pc[p] \notin Creating
    /\ \A p \in Procs : pc[p] \in {"identity", "identified", "capsule"} =>
         boundary \in {"capsule", "identity"}

EngineInv == FilesTypeOK /\ LossInv /\ BoundaryInv

-----------------------------------------------------------------------------
(* What the steps have in common *)

\* Proceed moves one process.
LEMMA ProceedEffect ==
  ASSUME DOMAIN pc = Procs, DOMAIN hand = Procs, NEW p \in Procs, NEW w, NEW h,
         Proceed(p, w, h)
  PROVE  /\ DOMAIN pc' = Procs /\ DOMAIN hand' = Procs
         /\ pc'[p] = w /\ hand'[p] = h
         /\ \A q \in Procs : q # p => pc'[q] = pc[q] /\ hand'[q] = hand[q]
  BY DEF Proceed

\* The places a process may stand outside the writing methods
Quiet == {"idle", "gated", "step", "capsule_subject", "identity", "identified", "capsule",
          "receipt_capsule", "receipt_report", "receipt_sign"}

\* A step of a process that neither creates files nor records an attestation
\* leaves the files alone and puts the process at one of those places.
QuietStep(p) ==
    /\ UNCHANGED <<engineFiles, recorded, exposed, boundary>>
    /\ UNCHANGED <<pc, hand>> \/ \E w \in Quiet : \E h : Proceed(p, w, h)
    /\ pc'[p] \in {"identity", "identified", "capsule"} =>
         pc'[p] = pc[p] \/ boundary \in {"capsule", "identity"}

\* What a step leaves alone, and what it may change.
LEMMA StepShape ==
  ASSUME [Next]_vars, FilesTypeOK, BoundaryInv
  PROVE  \/ UNCHANGED <<engineFiles, pc, hand, recorded, exposed, boundary>>
         \/ \E p \in Procs : ApprovalNext(p) /\ UNCHANGED <<evidenceVars, journal, authorized, boundary>>
         \/ \E p \in Procs : QuietStep(p)
<1>1. CASE UNCHANGED vars
  BY <1>1 DEF vars, engineVars
<1>2. CASE HostNext /\ UNCHANGED <<projectionVars, boundary>>
  BY <1>2 DEF HostNext, Tick, ReplaceTrust, Attest, engineVars
<1>3. CASE UNCHANGED <<engineVars, evidenceVars, boundary>>
  BY <1>3 DEF engineVars
<1>4. ASSUME NEW p \in Procs, ProcNext(p), UNCHANGED <<projectionVars, boundary>>
      PROVE  \/ ApprovalNext(p) /\ UNCHANGED <<evidenceVars, journal, authorized, boundary>>
             \/ QuietStep(p)
  <2>1. CASE ApprovalNext(p) /\ UNCHANGED evidenceVars
    BY <1>4, <2>1 DEF ApprovalNext, CreateCheck, CreatePolicy, CreateSnapshot,
       CreateLedgerCheck, CreateLedger, RecordVerify, RecordRead, RecordWrite
  <2>2. CASE RunNext(p) \/ Abort(p) \/ Stop(p)
    <3>1. CASE Abort(p)
      BY <1>4, <3>1 DEF Abort, QuietStep
    <3>2. CASE Stop(p)
      <4>1. Proceed(p, "idle", Nothing) /\ UNCHANGED <<engineFiles, recorded, exposed>>
        BY <3>2 DEF Stop
      <4>2. pc'[p] = "idle"
        BY <4>1, ProceedEffect DEF FilesTypeOK
      <4> QED BY <1>4, <4>1, <4>2 DEF QuietStep, Quiet
    <3>3. CASE RunNext(p)
      <4>1. /\ UNCHANGED <<engineFiles, recorded, exposed>>
            /\ \E w \in {"idle", "gated", "step"} : \E h : Proceed(p, w, h)
        BY <3>3 DEF RunNext, AuthorizeStep, StartStep, FinishStep
      <4>2. pc'[p] \in {"idle", "gated", "step"}
        BY <4>1, ProceedEffect DEF FilesTypeOK
      <4> QED BY <1>4, <4>1, <4>2 DEF QuietStep, Quiet
    <3> QED BY <2>2, <3>1, <3>2, <3>3
  <2>3. CASE GatedCall(p)
    <3>1. /\ UNCHANGED <<engineFiles, recorded, exposed>>
          /\ \E h : Proceed(p, "gated", h)
      BY <2>3 DEF GatedCall, Gate
    <3>2. pc'[p] = "gated"
      BY <3>1, ProceedEffect DEF FilesTypeOK
    <3> QED BY <1>4, <3>1, <3>2 DEF QuietStep, Quiet
  <2>4. CASE SessionCall(p)
    <3>1. /\ UNCHANGED <<engineFiles, recorded, exposed>>
          /\ \E w \in {"capsule", "identity", "identified", "gated"} : \E h : Proceed(p, w, h)
      BY <2>4 DEF SessionCall, CapsuleVerify, IdentityVerify, IdentityMatch, Gate, EngineStays
    <3>2. boundary \in {"capsule", "identity"}
      BY <2>4 DEF SessionCall, CapsuleVerify, IdentityMatch, Gate, BoundaryInv
    <3> QED BY <1>4, <3>1, <3>2 DEF QuietStep, Quiet
  <2>5. CASE SessionNext(p)
    <3>1. /\ UNCHANGED <<engineFiles, recorded, exposed>>
          /\ \E w \in {"idle", "capsule_subject"} : \E h : Proceed(p, w, h)
      BY <2>5 DEF SessionNext, CapsuleRead, CapsuleIssue, Die, EngineStays
    <3>2. pc'[p] \in {"idle", "capsule_subject"}
      BY <3>1, ProceedEffect DEF FilesTypeOK
    <3> QED BY <1>4, <3>1, <3>2 DEF QuietStep, Quiet
  <2>6. CASE ReceiptNext(p)
    <3>1. /\ UNCHANGED <<engineFiles, recorded, exposed>>
          /\ \E w \in {"idle", "receipt_capsule", "receipt_report", "receipt_sign"} : \E h : Proceed(p, w, h)
      BY <2>6 DEF ReceiptNext, ReceiptRead, ReceiptCapsule, ReceiptReport, ReceiptIssue, EngineStays
    <3>2. pc'[p] \in {"idle", "receipt_capsule", "receipt_report", "receipt_sign"}
      BY <3>1, ProceedEffect DEF FilesTypeOK
    <3> QED BY <1>4, <3>1, <3>2 DEF QuietStep, Quiet
  <2> QED BY <1>4, <2>1, <2>2, <2>3, <2>4, <2>5, <2>6 DEF ProcNext
<1> QED BY <1>1, <1>2, <1>3, <1>4 DEF Next

-----------------------------------------------------------------------------
(* The approval ledger *)

\* Appending adds exactly the new event.
LEMMA AppendEvents ==
  ASSUME NEW s \in Seq(Events), NEW e \in Events
  PROVE  /\ Append(s, e) \in Seq(Events)
         /\ Len(Append(s, e)) = Len(s) + 1
         /\ EventsIn(Append(s, e)) = EventsIn(s) \cup {e}
<1>1. Append(s, e) \in Seq(Events) /\ Len(Append(s, e)) = Len(s) + 1
  OBVIOUS
<1>2. DOMAIN s = 1 .. Len(s) /\ DOMAIN Append(s, e) = 1 .. (Len(s) + 1) /\ Len(s) \in Nat
  OBVIOUS
<1>3. \A k \in 1 .. Len(s) : Append(s, e)[k] = s[k]
  OBVIOUS
<1>4. Append(s, e)[Len(s) + 1] = e
  OBVIOUS
<1>5. EventsIn(Append(s, e)) \subseteq EventsIn(s) \cup {e}
  BY <1>2, <1>3, <1>4 DEF EventsIn
<1>6. EventsIn(s) \subseteq EventsIn(Append(s, e))
  <2> SUFFICES ASSUME NEW k \in 1 .. Len(s) PROVE s[k] \in EventsIn(Append(s, e))
    BY <1>2 DEF EventsIn
  <2>1. k \in 1 .. (Len(s) + 1)
    BY <1>2
  <2> QED BY <2>1, <1>2, <1>3 DEF EventsIn
<1>7. e \in EventsIn(Append(s, e))
  <2>1. Len(s) + 1 \in 1 .. (Len(s) + 1)
    BY <1>2
  <2> QED BY <2>1, <1>2, <1>4 DEF EventsIn
<1> QED BY <1>1, <1>5, <1>6, <1>7

\* A ledger that can be read is a ledger of its snapshot's policy.
LEMMA ReadableLedger ==
  ASSUME FilesTypeOK, Readable(snapshotFile)
  PROVE  /\ snapshotFile \in Policies /\ ledger \in Ledgers
         /\ ledger.entries \in Seq(Events)
         /\ ValidEntries(ledger.entries, snapshotFile)
         /\ Attestations[snapshotFile] \subseteq Events
  BY DEF FilesTypeOK, Readable, Ledgers, Events

\* Steps that leave the files alone.
LEMMA QuietEngine ==
  ASSUME EngineInv, NEW p \in Procs, QuietStep(p)
  PROVE  EngineInv'
<1>1. UNCHANGED <<policyFile, snapshotFile, ledger, recorded, exposed, boundary>>
  BY DEF QuietStep, engineFiles
<1>2. \/ UNCHANGED <<pc, hand>>
      \/ /\ DOMAIN pc' = Procs /\ DOMAIN hand' = Procs
         /\ pc'[p] \in Quiet
         /\ \A q \in Procs : q # p => pc'[q] = pc[q] /\ hand'[q] = hand[q]
  BY ProceedEffect DEF QuietStep, EngineInv, FilesTypeOK
<1>3. FilesTypeOK'
  BY <1>1, <1>2 DEF EngineInv, FilesTypeOK, Quiet, Creating
<1>4. Entries' = Entries
  BY <1>1 DEF Entries, EventsIn
<1>5. LossInv'
  BY <1>1, <1>2, <1>4 DEF EngineInv, LossInv, LossOnlyToOverlap, Quiet
<1>6. BoundaryInv'
  <2>1. ASSUME boundary \in {"capsule", "identity", "receipts"}
        PROVE  policyFile' # NoFile /\ \A q \in Procs : pc'[q] \notin Creating
    BY <1>1, <1>2, <2>1 DEF EngineInv, BoundaryInv, Quiet, Creating
  <2>2. ASSUME NEW q \in Procs, pc'[q] \in {"identity", "identified", "capsule"}
        PROVE  boundary \in {"capsule", "identity"}
    BY <1>2, <2>2 DEF EngineInv, BoundaryInv, QuietStep
  <2> QED BY <1>1, <2>1, <2>2 DEF BoundaryInv
<1> QED BY <1>3, <1>5, <1>6 DEF EngineInv

\* Steps of create and record_approval that write no ledger.
LEMMA PrepareEngine ==
  ASSUME EngineInv, NEW p \in Procs, UNCHANGED boundary,
         \/ \E pol \in Policies : CreateCheck(p, pol)
         \/ CreatePolicy(p) \/ CreateSnapshot(p) \/ CreateLedgerCheck(p)
         \/ RecordVerify(p)
         \/ \E e \in Attestations[snapshotFile] : RecordRead(p, e)
  PROVE  EngineInv'
<1>1. UNCHANGED <<ledger, recorded, exposed, boundary>> /\ \E w, h : Proceed(p, w, h)
  BY DEF CreateCheck, CreatePolicy, CreateSnapshot, CreateLedgerCheck, RecordVerify,
     RecordRead, engineFiles
<1>2. /\ DOMAIN pc' = Procs /\ DOMAIN hand' = Procs
      /\ \A q \in Procs : q # p => pc'[q] = pc[q] /\ hand'[q] = hand[q]
  BY <1>1, ProceedEffect DEF EngineInv, FilesTypeOK
<1>3. CASE \E pol \in Policies : CreateCheck(p, pol)
  <2>1. PICK pol \in Policies : CreateCheck(p, pol)
    BY <1>3
  <2>2. pc'[p] = "create_policy" /\ hand'[p].policy = pol /\ policyFile = NoFile
        /\ UNCHANGED <<policyFile, snapshotFile>>
    BY <2>1, ProceedEffect DEF CreateCheck, EngineInv, FilesTypeOK, engineFiles
  <2> QED BY <1>1, <1>2, <2>2 DEF EngineInv, FilesTypeOK, LossInv, LossOnlyToOverlap,
     Entries, BoundaryInv, Creating
<1>4. CASE CreatePolicy(p)
  <2>1. /\ pc[p] = "create_policy" /\ pc'[p] = "create_snapshot" /\ hand'[p] = hand[p]
        /\ policyFile' = hand[p].policy /\ UNCHANGED snapshotFile
    BY <1>4, ProceedEffect DEF CreatePolicy, EngineInv, FilesTypeOK
  <2> QED BY <1>1, <1>2, <2>1 DEF EngineInv, FilesTypeOK, LossInv, LossOnlyToOverlap,
     Entries, BoundaryInv, Creating
<1>5. CASE CreateSnapshot(p)
  <2>1. /\ pc[p] = "create_snapshot" /\ pc'[p] = "create_ledger" /\ hand'[p] = hand[p]
        /\ snapshotFile' = hand[p].policy /\ UNCHANGED policyFile
    BY <1>5, ProceedEffect DEF CreateSnapshot, EngineInv, FilesTypeOK
  <2> QED BY <1>1, <1>2, <2>1 DEF EngineInv, FilesTypeOK, LossInv, LossOnlyToOverlap,
     Entries, BoundaryInv, Creating
<1>6. CASE CreateLedgerCheck(p)
  <2>1. /\ pc[p] = "create_ledger" /\ pc'[p] = "replace_ledger" /\ hand'[p] = hand[p]
        /\ ledger = NoFile /\ UNCHANGED <<policyFile, snapshotFile>>
    BY <1>6, ProceedEffect DEF CreateLedgerCheck, EngineInv, FilesTypeOK, engineFiles
  <2>2. EventsIn(recorded) \subseteq exposed
    BY <2>1 DEF EngineInv, LossInv, LossOnlyToOverlap, Entries
  <2> QED BY <1>1, <1>2, <2>1, <2>2 DEF EngineInv, FilesTypeOK, LossInv, LossOnlyToOverlap,
     Entries, BoundaryInv, Creating
<1>7. CASE RecordVerify(p)
  <2>1. pc'[p] = "record" /\ UNCHANGED <<policyFile, snapshotFile>>
    BY <1>7, ProceedEffect DEF RecordVerify, EngineInv, FilesTypeOK, engineFiles
  <2> QED BY <1>1, <1>2, <2>1 DEF EngineInv, FilesTypeOK, LossInv, LossOnlyToOverlap,
     Entries, BoundaryInv, Creating
<1>8. CASE \E e \in Attestations[snapshotFile] : RecordRead(p, e)
  <2>1. PICK e \in Attestations[snapshotFile] : RecordRead(p, e)
    BY <1>8
  <2>2. /\ pc'[p] = "append" /\ hand'[p] = [view |-> ledger, event |-> e]
        /\ UNCHANGED <<policyFile, snapshotFile>>
    BY <2>1, ProceedEffect DEF RecordRead, EngineInv, FilesTypeOK, engineFiles
  <2>3. ledger \in Ledgers /\ e \in Events /\ ledger # NoFile
    BY <2>1, ReadableLedger, NoFileAssumption DEF RecordRead, EngineInv
  <2>4. EventsIn(recorded) \ EventsIn(ledger.entries) \subseteq exposed
    BY <2>3 DEF EngineInv, LossInv, LossOnlyToOverlap, Entries
  <2> QED BY <1>1, <1>2, <2>2, <2>3, <2>4 DEF EngineInv, FilesTypeOK, LossInv,
     LossOnlyToOverlap, Entries, BoundaryInv, Creating
<1> QED BY <1>3, <1>4, <1>5, <1>6, <1>7, <1>8

\* create replaces the ledger by an empty one.
LEMMA CreateLedgerEngine ==
  ASSUME EngineInv, NEW p \in Procs, UNCHANGED boundary, CreateLedger(p)
  PROVE  EngineInv'
<1>1. /\ pc[p] = "replace_ledger" /\ pc'[p] = "idle"
      /\ DOMAIN pc' = Procs /\ DOMAIN hand' = Procs
      /\ \A q \in Procs : q # p => pc'[q] = pc[q] /\ hand'[q] = hand[q]
      /\ UNCHANGED <<policyFile, snapshotFile, recorded, exposed>>
      /\ ledger' = [snapshot |-> hand[p].policy, entries |-> <<>>]
  BY ProceedEffect DEF CreateLedger, EngineInv, FilesTypeOK
<1>2. ledger' \in Ledgers /\ EventsIn(recorded) \subseteq exposed
  BY <1>1 DEF EngineInv, FilesTypeOK, LossInv, Creating, Ledgers
<1>3. FilesTypeOK'
  BY <1>1, <1>2 DEF EngineInv, FilesTypeOK, Creating
<1>4. LossInv'
  BY <1>1, <1>2 DEF EngineInv, LossInv, LossOnlyToOverlap
<1>5. BoundaryInv'
  BY <1>1 DEF EngineInv, BoundaryInv, Creating
<1> QED BY <1>3, <1>4, <1>5 DEF EngineInv

\* append replaces the ledger by what was read with the new entry, and exposes
\* it when another process stands before its own replacement.
LEMMA RecordWriteEngine ==
  ASSUME EngineInv, NEW p \in Procs, UNCHANGED boundary, RecordWrite(p)
  PROVE  EngineInv'
<1> DEFINE e == hand[p].event
<1>1. /\ pc[p] = "append" /\ pc'[p] = "idle"
      /\ DOMAIN pc' = Procs /\ DOMAIN hand' = Procs
      /\ \A q \in Procs : q # p => pc'[q] = pc[q] /\ hand'[q] = hand[q]
      /\ UNCHANGED <<policyFile, snapshotFile>>
  BY ProceedEffect DEF RecordWrite, EngineInv, FilesTypeOK
<1>2. /\ hand[p].view \in Ledgers /\ e \in Events
      /\ hand[p].view.entries \in Seq(Events) /\ recorded \in Seq(Events)
  BY <1>1 DEF EngineInv, FilesTypeOK, Ledgers
<1>3. /\ ledger' = [hand[p].view EXCEPT !.entries = Append(@, e)]
      /\ recorded' = Append(recorded, e)
      /\ exposed' = exposed \cup {x \in {e} : \E q \in Procs \ {p} : Replacing(q)}
  BY DEF RecordWrite, Expose
<1>4. /\ ledger' \in Ledgers /\ ledger' # NoFile
      /\ ledger'.entries = Append(hand[p].view.entries, e)
  <2>1. Append(hand[p].view.entries, e) \in Seq(Events)
    BY <1>2, AppendEvents
  <2> QED BY <1>2, <1>3, <2>1, NoFileAssumption DEF Ledgers
<1>5. /\ EventsIn(ledger'.entries) = EventsIn(hand[p].view.entries) \cup {e}
      /\ EventsIn(recorded') = EventsIn(recorded) \cup {e}
      /\ recorded' \in Seq(Events)
  BY <1>2, <1>3, <1>4, AppendEvents
<1>6. EventsIn(recorded) \ EventsIn(hand[p].view.entries) \subseteq exposed
  BY <1>1 DEF EngineInv, LossInv
<1>7. LossOnlyToOverlap'
  BY <1>3, <1>4, <1>5, <1>6 DEF LossOnlyToOverlap, Entries
<1>8. ASSUME NEW q \in Procs, pc'[q] \in {"append", "replace_ledger"}
      PROVE  e \in exposed' /\ exposed \subseteq exposed'
  <2>1. q \in Procs \ {p} /\ Replacing(q)
    BY <1>1, <1>8 DEF Replacing
  <2> QED BY <1>3, <2>1
<1>9. LossInv'
  <2>1. ASSUME NEW q \in Procs, pc'[q] = "append"
        PROVE  EventsIn(recorded') \ EventsIn(hand'[q].view.entries) \subseteq exposed'
    <3>1. q # p /\ pc[q] = "append" /\ hand'[q] = hand[q]
      BY <1>1, <2>1
    <3>2. EventsIn(recorded) \ EventsIn(hand[q].view.entries) \subseteq exposed
      BY <3>1 DEF EngineInv, LossInv
    <3> QED BY <3>1, <3>2, <2>1, <1>5, <1>8
  <2>2. ASSUME NEW q \in Procs, pc'[q] = "replace_ledger"
        PROVE  EventsIn(recorded') \subseteq exposed'
    <3>1. q # p /\ pc[q] = "replace_ledger"
      BY <1>1, <2>2
    <3>2. EventsIn(recorded) \subseteq exposed
      BY <3>1 DEF EngineInv, LossInv
    <3> QED BY <3>2, <2>2, <1>5, <1>8
  <2> QED BY <1>7, <2>1, <2>2 DEF LossInv
<1>10. FilesTypeOK'
  BY <1>1, <1>4, <1>5 DEF EngineInv, FilesTypeOK, Creating
<1>11. BoundaryInv'
  BY <1>1 DEF EngineInv, BoundaryInv, Creating
<1> QED BY <1>9, <1>10, <1>11 DEF EngineInv

\* Every behaviour starts without files, or with one attestation on record.
LEMMA EngineInit_ == Init => EngineInv
<1> SUFFICES ASSUME Init PROVE EngineInv
  OBVIOUS
<1>1. pc = [p \in Procs |-> "idle"] /\ hand = [p \in Procs |-> Nothing] /\ exposed = {}
  BY DEF Init, EngineInit, EngineStart
<1>2. CASE EngineInit /\ boundary \in {"engine", "projections"}
  <2>1. /\ policyFile = NoFile /\ snapshotFile = NoFile /\ ledger = NoFile
        /\ recorded = <<>> /\ recorded \in Seq(Events)
    BY <1>2 DEF EngineInit
  <2>2. EventsIn(recorded) = {}
    BY <2>1 DEF EventsIn
  <2> QED BY <1>1, <1>2, <2>1, <2>2 DEF EngineInv, FilesTypeOK, LossInv,
     LossOnlyToOverlap, BoundaryInv, Creating
<1>3. CASE ReadyFiles /\ boundary \notin {"engine", "projections"}
  <2>1. PICK e \in Attestations[policyFile] :
          ledger = [snapshot |-> policyFile, entries |-> <<e>>] /\ recorded = <<e>>
    BY <1>3 DEF ReadyFiles
  <2>2. policyFile \in Policies /\ snapshotFile = policyFile /\ policyFile # NoFile
    BY <1>3, SignedAssumption, NoFileAssumption DEF ReadyFiles
  <2>3. e \in Events
    BY <2>2 DEF Events
  <2>4. ledger \in Ledgers /\ ledger # NoFile /\ recorded \in Seq(Events)
        /\ ledger.entries = recorded
    <3>1. <<e>> \in Seq(Events)
      BY <2>3
    <3>2. ledger = [snapshot |-> policyFile, entries |-> recorded] /\ recorded \in Seq(Events)
      BY <2>1, <3>1
    <3>3. ledger \in Ledgers /\ ledger.entries = recorded
      BY <2>2, <3>2 DEF Ledgers
    <3> QED BY <3>2, <3>3, NoFileAssumption
  <2>5. LossOnlyToOverlap
    BY <2>4 DEF LossOnlyToOverlap, Entries
  <2>6. LossInv
    BY <1>1, <2>5 DEF LossInv
  <2>7. FilesTypeOK /\ BoundaryInv
    BY <1>1, <2>2, <2>4 DEF FilesTypeOK, BoundaryInv, Creating
  <2> QED BY <2>6, <2>7 DEF EngineInv
<1> QED BY <1>2, <1>3 DEF Init

\* EngineInv is kept by every step ...
LEMMA EngineStep == EngineInv /\ [Next]_vars => EngineInv'
<1> SUFFICES ASSUME EngineInv, [Next]_vars PROVE EngineInv'
  OBVIOUS
<1>1. CASE UNCHANGED <<engineFiles, pc, hand, recorded, exposed, boundary>>
  BY <1>1 DEF EngineInv, FilesTypeOK, LossInv, LossOnlyToOverlap, Entries, BoundaryInv,
     engineFiles
<1>2. ASSUME NEW p \in Procs, ApprovalNext(p), UNCHANGED boundary PROVE EngineInv'
  BY <1>2, PrepareEngine, CreateLedgerEngine, RecordWriteEngine DEF ApprovalNext
<1>3. ASSUME NEW p \in Procs, QuietStep(p) PROVE EngineInv'
  BY <1>3, QuietEngine
<1> QED BY <1>1, <1>2, <1>3, StepShape DEF EngineInv

\* ... so it always holds.
LEMMA EngineInductive == Spec => []EngineInv
  BY EngineInit_, EngineStep, PTL DEF Spec

\* The approval ledger has no lock; still, for every number of processes and
\* every interleaving of create and append, a written attestation is missing
\* from the ledger only if it was written while another process stood between
\* its own read of the file and its replacement of it.
THEOREM LossOnlyByOverlap == Spec => []LossOnlyToOverlap
  BY EngineInductive, PTL DEF EngineInv, LossInv

-----------------------------------------------------------------------------
(* What a process is let through on *)

GatedFields == {"purpose", "policy", "entries", "before", "step", "session"}

LetThrough(h) ==
    /\ DOMAIN h = GatedFields
    /\ h.policy \in Policies /\ h.entries \in Seq(Events)
    /\ ValidEntries(h.entries, h.policy) /\ Ready(h.policy, h.entries)
    /\ h.session # Nothing =>
         h.entries = h.session.under.entries \/ h.before # h.session.before

GateInv ==
    \A p \in Procs : Inside(p) =>
        /\ LetThrough(hand[p])
        /\ EventsIn(hand[p].before) \ EventsIn(hand[p].entries) \subseteq exposed
        /\ pc[p] = "step" => hand[p].step \in PlanSteps

SessionInv ==
    \A p \in Procs : pc[p] = "capsule" =>
        /\ hand[p].before \in Seq(Events) /\ Len(hand[p].before) <= Len(recorded)
        /\ ledger.entries = hand[p].under.entries \/ recorded # hand[p].before

\* Only create and append change the ledger, and only append its history.
LEMMA LedgerChanges ==
  ASSUME EngineInv, [Next]_vars
  PROVE  /\ exposed \subseteq exposed'
         /\ \/ UNCHANGED <<ledger, recorded, boundary>>
            \/ UNCHANGED boundary /\ \E q \in Procs : CreateLedger(q) \/ RecordWrite(q)
  BY StepShape DEF EngineInv, QuietStep, ApprovalNext, CreateCheck, CreatePolicy,
     CreateSnapshot, CreateLedgerCheck, CreateLedger, RecordVerify, RecordRead,
     RecordWrite, Expose, engineFiles

\* How a process comes to stand inside the engine or a capsule session.
LEMMA Moves ==
  ASSUME EngineInv, [Next]_vars, NEW p \in Procs
  PROVE  \/ pc'[p] = pc[p] /\ hand'[p] = hand[p]
         \/ pc'[p] \notin {"gated", "step", "capsule"}
         \/ \E from \in {"idle", "capsule"} : \E purpose : Gate(p, from, purpose)
         \/ StartStep(p)
         \/ \E ok \in BOOLEAN : FinishStep(p, ok)
         \/ \E from, purpose : CapsuleVerify(p, from, purpose)
<1>1. ASSUME NEW q \in Procs, NEW w, NEW h, Proceed(q, w, h)
      PROVE  pc'[q] = w /\ (p # q => pc'[p] = pc[p] /\ hand'[p] = hand[p])
  BY <1>1, ProceedEffect DEF EngineInv, FilesTypeOK
<1>2. CASE UNCHANGED <<pc, hand>>
  BY <1>2
<1>3. ASSUME NEW q \in Procs, ProcNext(q)
      PROVE  \/ pc'[p] = pc[p] /\ hand'[p] = hand[p]
             \/ pc'[p] \notin {"gated", "step", "capsule"}
             \/ \E from \in {"idle", "capsule"} : \E purpose : Gate(p, from, purpose)
             \/ StartStep(p)
             \/ \E ok \in BOOLEAN : FinishStep(p, ok)
             \/ \E from, purpose : CapsuleVerify(p, from, purpose)
  <2>1. CASE ApprovalNext(q)
    <3>1. \E w \in Creating \cup {"idle", "record", "append"} : \E h : Proceed(q, w, h)
      BY <2>1 DEF ApprovalNext, CreateCheck, CreatePolicy, CreateSnapshot,
         CreateLedgerCheck, CreateLedger, RecordVerify, RecordRead, RecordWrite, Creating
    <3> QED BY <1>1, <3>1 DEF Creating
  <2>2. CASE Abort(q)
    BY <2>2 DEF Abort
  <2>3. CASE Stop(q)
    BY <1>1, <2>3 DEF Stop
  <2>4. CASE RunNext(q)
    <3>1. CASE \E i \in PlanSteps : AuthorizeStep(q, i)
      BY <1>1, <3>1 DEF AuthorizeStep
    <3>2. CASE StartStep(q)
      BY <1>1, <3>2 DEF StartStep
    <3>3. CASE \E ok \in BOOLEAN : FinishStep(q, ok)
      <4>1. p # q => pc'[p] = pc[p] /\ hand'[p] = hand[p]
        BY <1>1, <3>3 DEF FinishStep
      <4> QED BY <3>3, <4>1
    <3> QED BY <2>4, <3>1, <3>2, <3>3 DEF RunNext
  <2>5. CASE GatedCall(q)
    <3>1. PICK purpose : Gate(q, "idle", purpose)
      BY <2>5 DEF GatedCall
    <3>2. p # q => pc'[p] = pc[p] /\ hand'[p] = hand[p]
      BY <1>1, <3>1 DEF Gate
    <3> QED BY <3>1, <3>2
  <2>6. CASE SessionCall(q)
    <3>1. CASE \E from, purpose : CapsuleVerify(q, from, purpose)
      <4>1. p # q => pc'[p] = pc[p] /\ hand'[p] = hand[p]
        BY <1>1, <3>1 DEF CapsuleVerify
      <4> QED BY <3>1, <4>1
    <3>2. CASE (\E purpose : IdentityVerify(q, purpose)) \/ IdentityMatch(q)
      <4>1. \E w \in {"identity", "identified"} : \E h : Proceed(q, w, h)
        BY <3>2 DEF IdentityVerify, IdentityMatch
      <4> QED BY <1>1, <4>1
    <3>3. CASE \E purpose : Gate(q, "capsule", purpose)
      <4>1. p # q => pc'[p] = pc[p] /\ hand'[p] = hand[p]
        BY <1>1, <3>3 DEF Gate
      <4> QED BY <3>3, <4>1
    <3> QED BY <2>6, <3>1, <3>2, <3>3 DEF SessionCall
  <2>7. CASE SessionNext(q)
    <3>1. \E w \in {"idle", "capsule_subject"} : \E h : Proceed(q, w, h)
      BY <2>7 DEF SessionNext, CapsuleRead, CapsuleIssue, Die
    <3> QED BY <1>1, <3>1
  <2>8. CASE ReceiptNext(q)
    <3>1. \E w \in {"idle", "receipt_capsule", "receipt_report", "receipt_sign"} : \E h : Proceed(q, w, h)
      BY <2>8 DEF ReceiptNext, ReceiptRead, ReceiptCapsule, ReceiptReport, ReceiptIssue
    <3> QED BY <1>1, <3>1
  <2> QED BY <1>3, <2>1, <2>2, <2>3, <2>4, <2>5, <2>6, <2>7, <2>8 DEF ProcNext
<1>4. CASE Next
  <2>1. CASE HostNext
    BY <2>1 DEF HostNext, Tick, ReplaceTrust, Attest, engineVars
  <2>2. CASE UNCHANGED engineVars
    BY <2>2 DEF engineVars
  <2> QED BY <1>3, <1>4, <2>1, <2>2 DEF Next
<1> QED BY <1>2, <1>4 DEF vars, engineVars

\* The engine's gate lets a process through on the ledger it has just read.
LEMMA GateEstablishes ==
  ASSUME EngineInv, SessionInv, NEW p \in Procs, NEW from \in {"idle", "capsule"},
         NEW purpose, Gate(p, from, purpose)
  PROVE  /\ pc'[p] = "gated" /\ LetThrough(hand'[p])
         /\ EventsIn(hand'[p].before) \ EventsIn(hand'[p].entries) \subseteq exposed
<1> DEFINE h == [purpose |-> purpose, policy |-> snapshotFile, entries |-> ledger.entries,
                 before |-> recorded, step |-> 0,
                 session |-> IF from = "idle" THEN Nothing ELSE hand[p]]
<1>1. pc'[p] = "gated" /\ hand'[p] = h
  BY ProceedEffect DEF Gate, EngineInv, FilesTypeOK
<1>2. Readable(snapshotFile) /\ Ready(snapshotFile, ledger.entries)
  BY DEF Gate, Verifies
<1>3. /\ snapshotFile \in Policies /\ ledger.entries \in Seq(Events)
      /\ ValidEntries(ledger.entries, snapshotFile) /\ ledger # NoFile
  BY <1>2, ReadableLedger, NoFileAssumption DEF EngineInv
<1>4. EventsIn(recorded) \ EventsIn(ledger.entries) \subseteq exposed
  BY <1>3 DEF EngineInv, LossInv, LossOnlyToOverlap, Entries
<1>5. h.session # Nothing =>
        h.entries = h.session.under.entries \/ h.before # h.session.before
  <2>1. CASE from = "idle"
    BY <2>1
  <2>2. CASE from = "capsule"
    <3>1. h.session = hand[p] /\ pc[p] = "capsule"
      BY <2>2 DEF Gate
    <3> QED BY <3>1 DEF SessionInv
  <2> QED BY <2>1, <2>2
<1>6. LetThrough(h)
  <2>1. DOMAIN h = GatedFields /\ h.policy = snapshotFile /\ h.entries = ledger.entries
    BY DEF GatedFields
  <2> HIDE DEF h
  <2> QED BY <1>2, <1>3, <1>5, <2>1 DEF LetThrough
<1> QED BY <1>1, <1>4, <1>6

\* GateInv is kept by every step.
LEMMA GateStep ==
  ASSUME EngineInv, SessionInv, GateInv, [Next]_vars
  PROVE  GateInv'
<1> SUFFICES ASSUME NEW p \in Procs, pc'[p] \in {"gated", "step"}
             PROVE  /\ LetThrough(hand'[p])
                    /\ EventsIn(hand'[p].before) \ EventsIn(hand'[p].entries) \subseteq exposed'
                    /\ pc'[p] = "step" => hand'[p].step \in PlanSteps
  BY DEF GateInv, Inside, LetThrough
<1>1. exposed \subseteq exposed'
  BY LedgerChanges
<1>2. CASE pc'[p] = pc[p] /\ hand'[p] = hand[p]
  BY <1>1, <1>2 DEF GateInv, Inside
<1>3. CASE \E from \in {"idle", "capsule"} : \E purpose : Gate(p, from, purpose)
  BY <1>1, <1>3, GateEstablishes
<1>4. CASE StartStep(p)
  <2>1. PICK i \in PlanSteps : Proceed(p, "step", [hand[p] EXCEPT !.step = i])
    BY <1>4 DEF StartStep
  <2>2. hand'[p] = [hand[p] EXCEPT !.step = i]
    BY <2>1, ProceedEffect DEF EngineInv, FilesTypeOK
  <2>3. /\ LetThrough(hand[p])
        /\ EventsIn(hand[p].before) \ EventsIn(hand[p].entries) \subseteq exposed
    BY <1>4 DEF StartStep, GateInv, Inside
  <2>4. /\ DOMAIN hand'[p] = GatedFields /\ hand'[p].step = i
        /\ hand'[p].policy = hand[p].policy /\ hand'[p].entries = hand[p].entries
        /\ hand'[p].before = hand[p].before /\ hand'[p].session = hand[p].session
    BY <2>2, <2>3 DEF LetThrough, GatedFields
  <2> QED BY <1>1, <2>3, <2>4 DEF LetThrough
<1>5. CASE \E ok \in BOOLEAN : FinishStep(p, ok)
  <2>1. pc'[p] = "gated" /\ hand'[p] = hand[p] /\ pc[p] = "step"
    BY <1>5, ProceedEffect DEF FinishStep, EngineInv, FilesTypeOK
  <2> QED BY <1>1, <2>1 DEF GateInv, Inside
<1>6. CASE \E from, purpose : CapsuleVerify(p, from, purpose)
  BY <1>6, ProceedEffect DEF CapsuleVerify, EngineInv, FilesTypeOK
<1> QED BY <1>2, <1>3, <1>4, <1>5, <1>6, Moves

\* So is SessionInv.
LEMMA SessionStep ==
  ASSUME EngineInv, SessionInv, [Next]_vars
  PROVE  SessionInv'
<1> SUFFICES ASSUME NEW p \in Procs, pc'[p] = "capsule"
             PROVE  /\ hand'[p].before \in Seq(Events) /\ Len(hand'[p].before) <= Len(recorded')
                    /\ ledger'.entries = hand'[p].under.entries \/ recorded' # hand'[p].before
  BY DEF SessionInv
<1>1. CASE pc'[p] = pc[p] /\ hand'[p] = hand[p]
  <2>1. /\ hand[p].before \in Seq(Events) /\ Len(hand[p].before) <= Len(recorded)
        /\ ledger.entries = hand[p].under.entries \/ recorded # hand[p].before
    BY <1>1 DEF SessionInv
  <2>2. CASE UNCHANGED <<ledger, recorded>>
    BY <1>1, <2>1, <2>2
  <2>3. ASSUME NEW q \in Procs PROVE ~CreateLedger(q)
    BY <1>1 DEF EngineInv, BoundaryInv, CreateLedger, Creating
  <2>4. ASSUME NEW q \in Procs, RecordWrite(q)
        PROVE  /\ Len(hand[p].before) <= Len(recorded')
               /\ recorded' # hand[p].before
    <3>1. recorded' = Append(recorded, hand[q].event) /\ hand[q].event \in Events
          /\ recorded \in Seq(Events)
      BY <2>4 DEF RecordWrite, EngineInv, FilesTypeOK
    <3>2. Len(recorded') = Len(recorded) + 1 /\ Len(recorded) \in Nat
          /\ Len(hand[p].before) \in Nat
      BY <2>1, <3>1, AppendEvents
    <3> QED BY <2>1, <3>2
  <2> QED BY <1>1, <2>1, <2>2, <2>3, <2>4, LedgerChanges
<1>2. CASE \E from, purpose : CapsuleVerify(p, from, purpose)
  <2>1. /\ hand'[p].before = recorded /\ hand'[p].under = capsule
        /\ ledger.entries = capsule.entries /\ UNCHANGED <<ledger, recorded>>
    BY <1>2, ProceedEffect DEF CapsuleVerify, MatchesEngine, EngineStays, engineFiles,
       EngineInv, FilesTypeOK
  <2>2. recorded \in Seq(Events) /\ Len(recorded) \in Nat
    BY DEF EngineInv, FilesTypeOK
  <2> QED BY <2>1, <2>2
<1>3. CASE \E from \in {"idle", "capsule"} : \E purpose : Gate(p, from, purpose)
  BY <1>3, GateEstablishes
<1>4. CASE StartStep(p)
  BY <1>4, ProceedEffect DEF StartStep, EngineInv, FilesTypeOK
<1>5. CASE \E ok \in BOOLEAN : FinishStep(p, ok)
  BY <1>5, ProceedEffect DEF FinishStep, EngineInv, FilesTypeOK
<1> QED BY <1>1, <1>2, <1>3, <1>4, <1>5, Moves

\* The three hold together.
LEMMA GateInductive == Spec => [](EngineInv /\ SessionInv /\ GateInv)
<1>1. Init => SessionInv /\ GateInv
  BY DEF Init, EngineInit, EngineStart, SessionInv, GateInv, Inside
<1>2. (EngineInv /\ SessionInv /\ GateInv) /\ [Next]_vars => (EngineInv /\ SessionInv /\ GateInv)'
  BY EngineStep, GateStep, SessionStep
<1> QED BY <1>1, <1>2, EngineInit_, PTL DEF Spec

\* "The approval-ledger head must remain exactly unchanged": a session lets a
\* process through on the approvals its capsule was signed for, unless an
\* attestation was written between the session's look and the engine's.
THEOREM SignedApprovalsOnly == Spec => []RunsOnSignedApprovals
<1>1. GateInv => RunsOnSignedApprovals
  BY DEF GateInv, LetThrough, RunsOnSignedApprovals
<1> QED BY <1>1, GateInductive, PTL

-----------------------------------------------------------------------------
(* What the approvals of a ready ledger mean *)

\* _validate_event makes the principals of one requirement distinct.
LEMMA OnePrincipalOnce ==
  ASSUME NEW pol, NEW entries \in Seq(Events), ValidEntries(entries, pol),
         NEW k \in DOMAIN entries, NEW m \in DOMAIN entries, k # m,
         entries[k].requirement = entries[m].requirement
  PROVE  entries[k].principal # entries[m].principal
<1>1. DOMAIN entries = 1 .. Len(entries) /\ Len(entries) \in Nat
  OBVIOUS
<1>2. ASSUME NEW i \in 1 .. Len(entries), NEW j \in 1 .. Len(entries), i < j,
             entries[i].requirement = entries[j].requirement
      PROVE  entries[i].principal # entries[j].principal
  <2>1. /\ DOMAIN SubSeq(entries, 1, j - 1) = 1 .. (j - 1)
        /\ i \in 1 .. (j - 1)
        /\ SubSeq(entries, 1, j - 1)[i] = entries[i]
    BY <1>1, <1>2
  <2>2. ValidEvent(entries[j], SubSeq(entries, 1, j - 1), pol)
    BY <1>1 DEF ValidEntries
  <2> QED BY <1>2, <2>1, <2>2 DEF ValidEvent
<1>3. CASE k < m
  BY <1>1, <1>2, <1>3
<1>4. CASE m < k
  BY <1>1, <1>2, <1>4
<1> QED BY <1>1, <1>3, <1>4

\* So a requirement has as many principals in a role as approvals in it ...
LEMMA PrincipalsCounted ==
  ASSUME NEW pol, NEW entries \in Seq(Events), ValidEntries(entries, pol), NEW id, NEW r
  PROVE  LET K == {k \in DOMAIN entries : /\ entries[k].requirement = id
                                          /\ entries[k].decision = "approve"
                                          /\ entries[k].role = r}
         IN /\ Cardinality(ApprovedAs(entries, id, r)) = Cardinality(K)
            /\ Cardinality(K) \in Nat
<1> DEFINE K == {k \in DOMAIN entries : /\ entries[k].requirement = id
                                        /\ entries[k].decision = "approve"
                                        /\ entries[k].role = r}
           f == [k \in K |-> entries[k].principal]
           T == ApprovedAs(entries, id, r)
<1>1. IsFiniteSet(K) /\ Cardinality(K) \in Nat
  <2>1. DOMAIN entries = 1 .. Len(entries) /\ Len(entries) \in Nat
    OBVIOUS
  <2>2. IsFiniteSet(1 .. Len(entries))
    BY <2>1, FS_Interval
  <2>3. K \in SUBSET (1 .. Len(entries))
    BY <2>1
  <2>4. IsFiniteSet(K)
    BY <2>2, <2>3, FS_Subset
  <2> QED BY <2>4, FS_CardinalityType
<1>2. T = {entries[k].principal : k \in K}
  BY DEF ApprovedAs
<1>3. f \in Bijection(K, T)
  <2>1. \A x, y \in K : x # y => f[x] # f[y]
    BY OnePrincipalOnce
  <2>2. f \in [K -> T] /\ \A t \in T : \E k \in K : f[k] = t
    BY <1>2
  <2>3. \A x, y \in K : f[x] = f[y] => x = y
    BY <2>1
  <2> HIDE DEF f, K, T
  <2>4. f \in Injection(K, T)
    BY <2>2, <2>3 DEF Injection, IsInjective
  <2>5. f \in Surjection(K, T)
    BY <2>2 DEF Surjection
  <2> QED BY <2>4, <2>5 DEF Bijection
<1>4. ExistsBijection(K, T)
  BY <1>3 DEF ExistsBijection
<1>5. Cardinality(T) = Cardinality(K)
  BY <1>1, <1>4, FS_Bijection
<1> QED BY <1>1, <1>5

\* ... and nobody in two roles.
LEMMA RolesApart ==
  ASSUME NEW pol, NEW entries \in Seq(Events), ValidEntries(entries, pol), NEW id,
         NEW r, NEW s, r # s
  PROVE  ApprovedAs(entries, id, r) \cap ApprovedAs(entries, id, s) = {}
  BY OnePrincipalOnce DEF ApprovedAs

\* A ready ledger satisfies the rule of every step of the plan.
LEMMA ReadySatisfiesRule ==
  ASSUME NEW pol \in Policies, NEW entries \in Seq(Events), ValidEntries(entries, pol),
         Ready(pol, entries), NEW i \in PlanSteps, NEW r \in Roles
  PROVE  Cardinality(ApprovedAs(entries, RequirementId(pol, i), r)) >= RuleOf(pol, i).counts[r]
<1> DEFINE id == RequirementId(pol, i)
           K == {k \in DOMAIN entries : /\ entries[k].requirement = id
                                        /\ entries[k].decision = "approve"
                                        /\ entries[k].role = r}
<1>1. RuleOf(pol, i) # NoRule
  BY DEF Ready, Denied, StepDenied
<1>2. /\ Cardinality(ApprovedAs(entries, id, r)) = Cardinality(K)
      /\ Cardinality(K) \in Nat
  BY PrincipalsCounted
<1>3. CASE RuleOf(pol, i).scope = "none"
  <2>1. RuleOf(pol, i).counts[r] = 0
    BY <1>1, <1>3, PolicyAssumption
  <2> QED BY <1>2, <2>1
<1>4. CASE RuleOf(pol, i).scope # "none"
  <2> DEFINE q == [id |-> id, counts |-> RuleOf(pol, i).counts, distinct |-> RuleOf(pol, i).distinct]
  <2>1. q \in Requirements[pol]
    BY <1>1, <1>4 DEF Requirements
  <2>2. Satisfied(q, entries)
    BY <2>1 DEF Ready
  <2>3. Cardinality({k \in Approvals(q, entries) : entries[k].role = r}) >= q.counts[r]
    BY <2>2 DEF Satisfied
  <2>4. {k \in Approvals(q, entries) : entries[k].role = r} = K
    BY DEF Approvals
  <2>5. q.counts = RuleOf(pol, i).counts
    OBVIOUS
  <2> HIDE DEF q, K
  <2> QED BY <1>2, <2>3, <2>4, <2>5
<1> QED BY <1>3, <1>4

\* A step runs only with the principals its own rule demands in every role,
\* nobody counted in two of them, and a denial written before the check is
\* missing only if it was lost to an overlapping replacement: for every plan,
\* policy and number of processes.
THEOREM StepsAreApproved == Spec => []StepsWereApproved
<1>1. GateInv => StepsWereApproved
  <2> SUFFICES ASSUME GateInv, NEW p \in Procs, pc[p] = "step"
               PROVE  LET h == hand[p]
                          As(r) == ApprovedAs(h.entries, RequirementId(h.policy, h.step), r)
                      IN /\ \A r \in Roles :
                              /\ Cardinality(As(r)) >= RuleOf(h.policy, h.step).counts[r]
                              /\ \A s \in Roles \ {r} : As(r) \cap As(s) = {}
                         /\ \A e \in EventsIn(h.before) :
                              e.decision = "deny" /\ e.snapshot = h.policy => e \in exposed
    BY DEF StepsWereApproved
  <2> DEFINE h == hand[p]
             As(r) == ApprovedAs(h.entries, RequirementId(h.policy, h.step), r)
  <2>1. /\ h.policy \in Policies /\ h.entries \in Seq(Events) /\ h.step \in PlanSteps
        /\ ValidEntries(h.entries, h.policy) /\ Ready(h.policy, h.entries)
        /\ EventsIn(h.before) \ EventsIn(h.entries) \subseteq exposed
    BY DEF GateInv, Inside, LetThrough
  <2>2. \A r \in Roles : Cardinality(As(r)) >= RuleOf(h.policy, h.step).counts[r]
    BY <2>1, ReadySatisfiesRule
  <2>3. \A r \in Roles : \A s \in Roles \ {r} : As(r) \cap As(s) = {}
    BY <2>1, RolesApart
  <2>4. \A e \in EventsIn(h.entries) : e.decision # "deny"
    BY <2>1 DEF Ready, EventsIn
  <2>5. \A e \in EventsIn(h.before) : e.decision = "deny" => e \in exposed
    BY <2>1, <2>4
  <2> QED BY <2>2, <2>3, <2>5
<1> QED BY <1>1, GateInductive, PTL

-----------------------------------------------------------------------------
(* Receipts *)

\* Only the signing of a receipt adds one.
LEMMA ReceiptChanges ==
  ASSUME [Next]_vars
  PROVE  UNCHANGED receipts \/ \E p \in Procs : ReceiptIssue(p)
<1>1. CASE HostNext
  BY <1>1 DEF HostNext, Tick, ReplaceTrust, Attest
<1>2. ASSUME NEW p \in Procs, ProcNext(p)
      PROVE  UNCHANGED receipts \/ ReceiptIssue(p)
  <2>1. CASE UNCHANGED evidenceVars
    BY <2>1 DEF evidenceVars
  <2>2. CASE GatedCall(p)
    BY <2>2 DEF GatedCall, evidenceVars
  <2>3. CASE SessionCall(p)
    BY <2>3 DEF SessionCall, CapsuleVerify, IdentityVerify, IdentityMatch, evidenceVars
  <2>4. CASE SessionNext(p)
    BY <2>4 DEF SessionNext, CapsuleRead, CapsuleIssue, Die, evidenceVars
  <2>5. CASE ReceiptNext(p)
    BY <2>5 DEF ReceiptNext, ReceiptRead, ReceiptCapsule, ReceiptReport, evidenceVars
  <2> QED BY <1>2, <2>1, <2>2, <2>3, <2>4, <2>5 DEF ProcNext
<1>3. CASE UNCHANGED vars
  BY <1>3 DEF vars, evidenceVars
<1> QED BY <1>1, <1>2, <1>3 DEF Next, evidenceVars

\* Every receipt was valid at the time it declares, under its own stores.
SignedUnderItsStores ==
    \A r \in receipts :
        BundleValid(r.bundle, r.capsule, r.at, r.trust) /\ r.issued < r.trust.keyRevoked

\* A receipt verifies, at any later time, exactly as long as the verifier's
\* trust stores are those it was issued under: verify_portable_receipt judges
\* the capsule and the attestations at the declared time, not at its own.
THEOREM ReceiptsOutlive == Spec => []ReceiptsOutliveTheirWindows
<1>1. Init => SignedUnderItsStores
  BY DEF Init, EvidenceInit, SignedUnderItsStores
<1>2. SignedUnderItsStores /\ [Next]_vars => SignedUnderItsStores'
  <2> SUFFICES ASSUME SignedUnderItsStores, [Next]_vars, NEW r \in receipts'
               PROVE  BundleValid(r.bundle, r.capsule, r.at, r.trust) /\ r.issued < r.trust.keyRevoked
    BY DEF SignedUnderItsStores, BundleValid, CapsuleValid
  <2>1. CASE r \in receipts
    BY <2>1 DEF SignedUnderItsStores
  <2>2. ASSUME NEW p \in Procs, ReceiptIssue(p), r \notin receipts
        PROVE  BundleValid(r.bundle, r.capsule, r.at, r.trust) /\ r.issued < r.trust.keyRevoked
    <3>1. /\ r.bundle = hand[p].bundle /\ r.capsule = hand[p].capsule
          /\ r.at = hand[p].at /\ r.trust = hand[p].trust /\ r.issued = now
      BY <2>2 DEF ReceiptIssue
    <3> QED BY <2>2, <3>1 DEF ReceiptIssue
  <2> QED BY <2>1, <2>2, ReceiptChanges
<1>3. SignedUnderItsStores => ReceiptsOutliveTheirWindows
  BY DEF SignedUnderItsStores, ReceiptsOutliveTheirWindows, ReceiptValid
<1> QED BY <1>1, <1>2, <1>3, PTL DEF Spec

-----------------------------------------------------------------------------
(* The projection ledger *)

ProjectionEntries == [sequence : Nat, receipt : Receipts]

Fresh(h) ==
    /\ h.sequence = Len(projections) + 1
    /\ \A k \in DOMAIN projections : projections[k].receipt # h.receipt

Prefix(s) == \E n \in 0 .. Len(projections) : s = SubSeq(projections, 1, n)

Holding(p) ==
    /\ doing[p] = "project" => holds[p] \in ProjectionEntries
    /\ doing[p] = "project_verify" => \E k \in DOMAIN projections : projections[k] = holds[p]
    /\ doing[p] = "snapshot" => Prefix(holds[p].state)

ProjectionInv ==
    /\ projections \in Seq(ProjectionEntries)
    /\ DOMAIN doing = Writers /\ DOMAIN holds = Writers
    /\ snapshotted # NoSnapshot => Prefix(snapshotted)
    /\ \A p \in Writers : Holding(p)
    /\ \A e \in acknowledged : e.sequence \in DOMAIN projections /\ projections[e.sequence] = e
    /\ ~overlapped => /\ ProjectionsVerify
                      /\ \A p \in Writers : doing[p] = "project" => Fresh(holds[p])

\* Do moves one process.
LEMMA DoEffect ==
  ASSUME DOMAIN doing = Writers, DOMAIN holds = Writers, NEW p \in Writers, NEW w, NEW h,
         Do(p, w, h)
  PROVE  /\ DOMAIN doing' = Writers /\ DOMAIN holds' = Writers
         /\ doing'[p] = w /\ holds'[p] = h
         /\ \A q \in Writers : q # p => doing'[q] = doing[q] /\ holds'[q] = holds[q]
  BY DEF Do

\* The steps that add no line: a process moves, and the snapshot may be
\* replaced by what a process holds.
LEMMA ProjectionKeeps ==
  ASSUME ProjectionInv, NEW p \in Writers, ProjectionNext(p), ~ProjectWrite(p)
  PROVE  ProjectionInv'
<1>1. /\ UNCHANGED <<projections, overlapped>>
      /\ UNCHANGED <<doing, holds>> \/ \E w, h : Do(p, w, h)
  BY DEF ProjectionNext, OpenLedger, LeaveLedger, ProjectRead, ProjectVerify, SnapshotRead,
     SnapshotWrite
<1>2. /\ DOMAIN doing' = Writers /\ DOMAIN holds' = Writers
      /\ \A q \in Writers : q # p => doing'[q] = doing[q] /\ holds'[q] = holds[q]
  BY <1>1, DoEffect DEF ProjectionInv
<1>3. ProjectionsVerify' = ProjectionsVerify
  BY <1>1 DEF ProjectionsVerify
<1>4. \A s : Prefix(s)' <=> Prefix(s)
  BY <1>1 DEF Prefix
<1>5. SUFFICES /\ snapshotted' # NoSnapshot => Prefix(snapshotted')
               /\ Holding(p)'
               /\ acknowledged' = acknowledged \/ (ProjectionsVerify /\ acknowledged' = acknowledged \cup {holds[p]}
                                                   /\ doing[p] = "project_verify")
               /\ ~overlapped /\ doing'[p] = "project" => Fresh(holds'[p])
  <2>1. ASSUME NEW q \in Writers PROVE Holding(q)'
    BY <1>1, <1>2, <1>5 DEF ProjectionInv, Holding, Prefix
  <2>2. ASSUME NEW e \in acknowledged'
        PROVE  e.sequence \in DOMAIN projections /\ projections[e.sequence] = e
    <3>1. CASE e \in acknowledged
      BY <3>1 DEF ProjectionInv
    <3>2. CASE e \notin acknowledged
      <4>1. ProjectionsVerify /\ e = holds[p] /\ doing[p] = "project_verify"
        BY <1>5, <3>2
      <4>2. PICK k \in DOMAIN projections : projections[k] = e
        BY <4>1 DEF ProjectionInv, Holding
      <4> QED BY <4>1, <4>2 DEF ProjectionsVerify
    <3> QED BY <3>1, <3>2
  <2>3. ASSUME ~overlapped, NEW q \in Writers, doing'[q] = "project" PROVE Fresh(holds'[q])
    BY <1>2, <1>5, <2>3 DEF ProjectionInv
  <2>4. snapshotted' # NoSnapshot => Prefix(snapshotted)'
    BY <1>1, <1>5 DEF Prefix
  <2>5. ASSUME ~overlapped', NEW q \in Writers, doing'[q] = "project" PROVE Fresh(holds[q])'
    BY <1>1, <2>3, <2>5 DEF Fresh
  <2> QED BY <1>1, <1>2, <1>3, <2>1, <2>2, <2>4, <2>5 DEF ProjectionInv
<1>6. CASE OpenLedger(p)
  BY <1>6 DEF OpenLedger, ProjectionInv, Holding, Prefix
<1>7. CASE LeaveLedger(p)
  <2>1. doing'[p] = "idle" /\ UNCHANGED <<snapshotted, acknowledged>>
    BY <1>7, DoEffect DEF LeaveLedger, ProjectionInv
  <2> QED BY <2>1 DEF ProjectionInv, Holding
<1>8. CASE \E r \in Receipts : ProjectRead(p, r)
  <2>1. PICK r \in Receipts : ProjectRead(p, r)
    BY <1>8
  <2>2. /\ doing'[p] = "project" /\ UNCHANGED <<snapshotted, acknowledged>>
        /\ holds'[p] = [sequence |-> Len(projections) + 1, receipt |-> r]
    BY <2>1, DoEffect DEF ProjectRead, ProjectionInv
  <2>3. Len(projections) + 1 \in Nat
    BY DEF ProjectionInv
  <2>4. holds'[p] \in ProjectionEntries /\ Fresh(holds'[p])
    BY <2>1, <2>2, <2>3 DEF ProjectRead, ProjectionEntries, Fresh
  <2> QED BY <2>2, <2>4 DEF ProjectionInv, Holding
<1>9. CASE ProjectVerify(p)
  <2>1. doing'[p] = "idle"
    BY <1>9, DoEffect DEF ProjectVerify, ProjectionInv
  <2> QED BY <1>9, <2>1 DEF ProjectVerify, ProjectionInv, Holding
<1>10. CASE SnapshotRead(p)
  <2>1. doing'[p] = "snapshot" /\ holds'[p].state = projections
    BY <1>10, DoEffect DEF SnapshotRead, ProjectionInv
  <2>2. Len(projections) \in 0 .. Len(projections) /\ projections = SubSeq(projections, 1, Len(projections))
    BY DEF ProjectionInv
  <2>3. Prefix(projections)
    BY <2>2 DEF Prefix
  <2> QED BY <1>1, <1>10, <2>1, <2>3 DEF SnapshotRead, ProjectionInv, Holding, Prefix
<1>11. CASE SnapshotWrite(p)
  <2>1. doing'[p] = "idle" /\ snapshotted' = holds[p].state /\ doing[p] = "snapshot"
    BY <1>11, DoEffect DEF SnapshotWrite, ProjectionInv
  <2> QED BY <1>11, <2>1 DEF SnapshotWrite, ProjectionInv, Holding
<1> QED BY <1>6, <1>7, <1>8, <1>9, <1>10, <1>11 DEF ProjectionNext

\* append adds its line at the end of whatever the journal has become.
LEMMA ProjectionAppends ==
  ASSUME ProjectionInv, NEW p \in Writers, ProjectWrite(p)
  PROVE  ProjectionInv'
<1> DEFINE h == holds[p]
<1>1. /\ doing[p] = "project" /\ projections' = Append(projections, h) /\ h \in ProjectionEntries
      /\ UNCHANGED <<snapshotted, acknowledged>>
      /\ doing'[p] = "project_verify" /\ holds'[p] = h
      /\ DOMAIN doing' = Writers /\ DOMAIN holds' = Writers
      /\ \A q \in Writers : q # p => doing'[q] = doing[q] /\ holds'[q] = holds[q]
  BY DoEffect DEF ProjectWrite, ProjectionInv, Holding
<1>2. /\ projections' \in Seq(ProjectionEntries) /\ Len(projections) \in Nat
      /\ Len(projections') = Len(projections) + 1
      /\ DOMAIN projections = 1 .. Len(projections)
      /\ DOMAIN projections' = 1 .. (Len(projections) + 1)
      /\ projections'[Len(projections) + 1] = h
      /\ \A k \in 1 .. Len(projections) : projections'[k] = projections[k]
  BY <1>1 DEF ProjectionInv
<1>3. \A k \in DOMAIN projections : k \in DOMAIN projections'
  BY <1>2
<1>4. ASSUME NEW s, Prefix(s) PROVE Prefix(s)'
  <2>1. PICK n \in 0 .. Len(projections) : s = SubSeq(projections, 1, n)
    BY <1>4 DEF Prefix
  <2>2. SubSeq(projections', 1, n) = SubSeq(projections, 1, n)
    BY <1>1, <1>2, <2>1 DEF ProjectionInv
  <2>3. n \in 0 .. Len(projections')
    BY <1>2, <2>1
  <2> QED BY <2>1, <2>2, <2>3 DEF Prefix
<1>5. ASSUME NEW q \in Writers PROVE Holding(q)'
  <2>1. CASE q = p
    <3>1. Len(projections) + 1 \in DOMAIN projections'
      BY <1>2
    <3> QED BY <1>1, <1>2, <2>1, <3>1 DEF Holding
  <2>2. CASE q # p
    <3>1. doing'[q] = "project_verify" => \E k \in DOMAIN projections' : projections'[k] = holds'[q]
      BY <1>1, <1>2, <1>3, <2>2 DEF ProjectionInv, Holding
    <3>2. doing'[q] = "snapshot" => Prefix(holds[q].state)'
      <4>1. ASSUME doing[q] = "snapshot" PROVE Prefix(holds[q].state)
        BY <4>1 DEF ProjectionInv, Holding
      <4>2. holds'[q] = holds[q] /\ doing'[q] = doing[q]
        BY <1>1, <2>2
      <4>3. PICK s : s = holds[q].state
        OBVIOUS
      <4>4. doing[q] = "snapshot" => Prefix(s)'
        BY <1>4, <4>1, <4>3
      <4> QED BY <4>2, <4>3, <4>4 DEF Prefix
    <3>3. doing'[q] = "project" => holds'[q] \in ProjectionEntries
      BY <1>1, <2>2 DEF ProjectionInv, Holding
    <3> QED BY <3>1, <3>2, <3>3 DEF Holding
  <2> QED BY <2>1, <2>2
<1>6. snapshotted' # NoSnapshot => Prefix(snapshotted)'
  <2>1. PICK s : s = snapshotted
    OBVIOUS
  <2>2. s # NoSnapshot => Prefix(s)'
    BY <1>4, <2>1 DEF ProjectionInv
  <2> QED BY <1>1, <2>1, <2>2 DEF Prefix
<1>7. \A e \in acknowledged' : e.sequence \in DOMAIN projections' /\ projections'[e.sequence] = e
  BY <1>1, <1>2, <1>3 DEF ProjectionInv
<1>8. ASSUME ~overlapped'
      PROVE  /\ ProjectionsVerify'
             /\ \A q \in Writers : doing'[q] = "project" => Fresh(holds[q])'
  <2>1. ~overlapped /\ \A q \in Writers \ {p} : doing[q] # "project"
    BY <1>8 DEF ProjectWrite
  <2>2. ProjectionsVerify /\ Fresh(h)
    BY <1>1, <2>1 DEF ProjectionInv
  <2>3. ASSUME NEW k \in DOMAIN projections'
        PROVE  /\ projections'[k].sequence = k
               /\ \A i \in 1 .. k - 1 : projections'[i].receipt # projections'[k].receipt
    <3>1. CASE k \in 1 .. Len(projections)
      BY <1>2, <2>2, <3>1 DEF ProjectionsVerify
    <3>2. CASE k = Len(projections) + 1
      BY <1>2, <2>2, <3>2 DEF Fresh
    <3> QED BY <1>2, <2>3, <3>1, <3>2
  <2>4. \A q \in Writers : doing'[q] # "project"
    BY <1>1, <2>1
  <2> QED BY <2>3, <2>4 DEF ProjectionsVerify
<1> QED BY <1>1, <1>2, <1>5, <1>6, <1>7, <1>8 DEF ProjectionInv

\* The projection journal only grows at its end: an entry whose append has
\* returned stays where it was acknowledged, whatever overlaps; and without an
\* overlap of two appends the journal verifies and can be opened, unless lines
\* were added after the last snapshot.
THEOREM ProjectionsAreKept == Spec => []ProjectionsKept
<1>1. Init => ProjectionInv
  BY DEF Init, ProjectionInit, ProjectionInv, ProjectionsVerify, Holding
<1>2. ProjectionInv /\ [Next]_vars => ProjectionInv'
  <2> SUFFICES ASSUME ProjectionInv, [Next]_vars PROVE ProjectionInv'
    OBVIOUS
  <2>1. CASE UNCHANGED projectionVars
    BY <2>1 DEF projectionVars, ProjectionInv, ProjectionsVerify, Holding, Prefix, Fresh
  <2>2. ASSUME NEW p \in Writers, ProjectionNext(p) PROVE ProjectionInv'
    BY <2>2, ProjectionKeeps, ProjectionAppends
  <2> QED BY <2>1, <2>2 DEF Next, vars
<1>3. ProjectionInv => ProjectionsKept
  <2> SUFFICES ASSUME ProjectionInv, ~overlapped
               PROVE  Openable \/ Len(projections) > Len(snapshotted)
    BY DEF ProjectionInv, ProjectionsKept
  <2>1. CASE snapshotted = NoSnapshot
    BY <2>1 DEF ProjectionInv, Openable
  <2>2. CASE snapshotted # NoSnapshot
    <3>1. PICK n \in 0 .. Len(projections) : snapshotted = SubSeq(projections, 1, n)
      BY <2>2 DEF ProjectionInv, Prefix
    <3>2. Len(snapshotted) = n /\ Len(projections) \in Nat
      BY <3>1 DEF ProjectionInv
    <3>3. CASE n = Len(projections)
      <4>1. snapshotted = projections
        BY <3>1, <3>3 DEF ProjectionInv
      <4> QED BY <4>1 DEF Openable, SnapshotCurrent, ProjectionInv
    <3> QED BY <3>1, <3>2, <3>3
  <2> QED BY <2>1, <2>2
<1> QED BY <1>1, <1>2, <1>3, PTL DEF Spec

-----------------------------------------------------------------------------
(* The journal of the transaction *)

JournalTypes == {"started", "succeeded", "failed", "completed", "halted", "aborted"}
JournalEntries == [type : JournalTypes, step : Nat]

(* The steps succeed in the order of the plan, a failure halts, and only one *)
(* process stands in a step, the one after those that have succeeded.        *)
JournalInv ==
    /\ journal \in Seq(JournalEntries)
    /\ \E n \in Nat : StepsIn(journal, "succeeded") = 1 .. n
    /\ StepsIn(journal, "failed") # {} => Happened(journal, "halted")
    /\ \A p \in Procs : pc[p] = "step" =>
         /\ hand[p].step \in StepsIn(journal, "started")
         /\ hand[p].step = Cardinality(StepsIn(journal, "succeeded")) + 1
         /\ StepsIn(journal, "failed") = {}
    /\ \A p, q \in Procs : pc[p] = "step" /\ pc[q] = "step" => p = q

\* What one more line changes.
LEMMA AppendLine ==
  ASSUME NEW j \in Seq(JournalEntries), NEW e \in JournalEntries
  PROVE  /\ Append(j, e) \in Seq(JournalEntries)
         /\ StepsIn(Append(j, e), e.type) = StepsIn(j, e.type) \cup {e.step}
         /\ \A t : t # e.type => StepsIn(Append(j, e), t) = StepsIn(j, t)
         /\ \A t : Happened(Append(j, e), t) <=> Happened(j, t) \/ e.type = t
         /\ Outcomes(Append(j, e)) = Outcomes(j) \cup {x \in {e} : x.type \in {"succeeded", "failed"}}
<1> DEFINE l == Append(j, e)
<1>1. /\ l \in Seq(JournalEntries) /\ Len(j) \in Nat
      /\ DOMAIN j = 1 .. Len(j) /\ DOMAIN l = 1 .. (Len(j) + 1)
      /\ l[Len(j) + 1] = e /\ \A k \in 1 .. Len(j) : l[k] = j[k]
  OBVIOUS
<1>2. /\ \A k \in DOMAIN l : (k \in DOMAIN j /\ l[k] = j[k]) \/ l[k] = e
      /\ \A k \in DOMAIN j : k \in DOMAIN l /\ l[k] = j[k]
      /\ \E k \in DOMAIN l : l[k] = e
  BY <1>1
<1> HIDE DEF l
<1>3. /\ StepsIn(l, e.type) = StepsIn(j, e.type) \cup {e.step}
      /\ \A t : t # e.type => StepsIn(l, t) = StepsIn(j, t)
  BY <1>2 DEF StepsIn
<1>4. ASSUME NEW t PROVE Happened(l, t) <=> Happened(j, t) \/ e.type = t
  BY <1>2 DEF Happened
<1>5. Outcomes(l) = Outcomes(j) \cup {x \in {e} : x.type \in {"succeeded", "failed"}}
  BY <1>2 DEF Outcomes
<1> QED BY <1>1, <1>3, <1>4, <1>5 DEF l

\* Only the orchestrator writes the journal and enters a step.
LEMMA JournalChanges ==
  ASSUME EngineInv, [Next]_vars
  PROVE  \/ /\ UNCHANGED journal
            /\ \A p \in Procs : pc'[p] = "step" => pc[p] = "step" /\ hand'[p] = hand[p]
         \/ \E q \in Procs : Abort(q) \/ StartStep(q) \/ \E ok \in BOOLEAN : FinishStep(q, ok)
<1> SUFFICES ASSUME \A q \in Procs : ~(Abort(q) \/ StartStep(q) \/ \E ok \in BOOLEAN : FinishStep(q, ok))
             PROVE  /\ UNCHANGED journal
                    /\ \A p \in Procs : pc'[p] = "step" => pc[p] = "step" /\ hand'[p] = hand[p]
  OBVIOUS
<1>1. UNCHANGED journal
  <2>1. CASE HostNext
    BY <2>1 DEF HostNext, Tick, ReplaceTrust, Attest, engineVars
  <2>2. ASSUME NEW p \in Procs, ProcNext(p) PROVE UNCHANGED journal
    <3>1. CASE ApprovalNext(p)
      BY <3>1 DEF ApprovalNext, CreateCheck, CreatePolicy, CreateSnapshot, CreateLedgerCheck,
         CreateLedger, RecordVerify, RecordRead, RecordWrite
    <3>2. CASE RunNext(p) \/ Abort(p) \/ Stop(p)
      BY <3>2 DEF RunNext, Stop, AuthorizeStep
    <3>3. CASE GatedCall(p) \/ SessionCall(p)
      BY <3>3 DEF GatedCall, Gate, SessionCall, CapsuleVerify, IdentityVerify, IdentityMatch, EngineStays
    <3>4. CASE SessionNext(p)
      BY <3>4 DEF SessionNext, CapsuleRead, CapsuleIssue, Die, EngineStays
    <3>5. CASE ReceiptNext(p)
      BY <3>5 DEF ReceiptNext, ReceiptRead, ReceiptCapsule, ReceiptReport, ReceiptIssue, EngineStays
    <3> QED BY <2>2, <3>1, <3>2, <3>3, <3>4, <3>5 DEF ProcNext
  <2>3. CASE UNCHANGED engineVars
    BY <2>3 DEF engineVars
  <2> QED BY <2>1, <2>2, <2>3 DEF Next, vars
<1>2. ASSUME NEW p \in Procs, pc'[p] = "step" PROVE pc[p] = "step" /\ hand'[p] = hand[p]
  <2>1. ASSUME NEW from, NEW purpose, Gate(p, from, purpose) \/ CapsuleVerify(p, from, purpose)
        PROVE  FALSE
    BY <1>2, <2>1, ProceedEffect DEF Gate, CapsuleVerify, EngineInv, FilesTypeOK
  <2> QED BY <1>2, <2>1, Moves
<1> QED BY <1>1, <1>2

\* An interval from 1 has as many elements as its end says.
LEMMA CountedSteps ==
  ASSUME NEW n \in Nat PROVE Cardinality(1 .. n) = n
  BY FS_Interval

\* JournalInv is kept by every step.
LEMMA JournalStep ==
  ASSUME EngineInv, GateInv, JournalInv, [Next]_vars
  PROVE  JournalInv'
<1>0. PICK n \in Nat : StepsIn(journal, "succeeded") = 1 .. n
  BY DEF JournalInv
<1>c. Cardinality(StepsIn(journal, "succeeded")) = n
  BY <1>0, CountedSteps
<1>1. CASE /\ UNCHANGED journal
           /\ \A p \in Procs : pc'[p] = "step" => pc[p] = "step" /\ hand'[p] = hand[p]
  BY <1>1 DEF JournalInv
<1>s. ASSUME NEW p \in Procs, pc[p] = "step" PROVE Pending # {} /\ StatusOf(journal) # "ready"
  <2>1. /\ hand[p].step \in StepsIn(journal, "started") /\ hand[p].step = n + 1
        /\ StepsIn(journal, "failed") = {}
    BY <1>s, <1>c DEF JournalInv
  <2>2. hand[p].step \notin StepsIn(journal, "succeeded") \cup StepsIn(journal, "failed")
    BY <1>0, <2>1
  <2> QED BY <2>1, <2>2 DEF Pending, PendingIn, StatusOf
<1>2. ASSUME NEW q \in Procs, Abort(q) PROVE JournalInv'
  <2> DEFINE e == JournalEntry("aborted", 0)
  <2>1. journal' = Append(journal, e) /\ UNCHANGED <<pc, hand>> /\ Pending = {}
    BY <1>2 DEF Abort
  <2>2. e \in JournalEntries /\ e.type = "aborted"
    BY DEF JournalEntry, JournalEntries, JournalTypes
  <2>3. journal \in Seq(JournalEntries)
    BY DEF JournalInv
  <2> HIDE DEF e
  <2>4. /\ journal' \in Seq(JournalEntries)
        /\ StepsIn(journal', "succeeded") = StepsIn(journal, "succeeded")
        /\ StepsIn(journal', "failed") = StepsIn(journal, "failed")
        /\ Happened(journal, "halted") => Happened(journal', "halted")
    BY <2>1, <2>2, <2>3, AppendLine
  <2>5. \A p \in Procs : pc'[p] # "step"
    BY <1>s, <2>1
  <2> QED BY <1>0, <2>4, <2>5 DEF JournalInv
<1>3. ASSUME NEW q \in Procs, StartStep(q) PROVE JournalInv'
  <2> DEFINE e == JournalEntry("started", n + 1)
  <2>1. /\ journal' = Append(journal, e) /\ Proceed(q, "step", [hand[q] EXCEPT !.step = n + 1])
        /\ StatusOf(journal) = "ready" /\ pc[q] = "gated"
    BY <1>3, <1>c DEF StartStep
  <2>2. e \in JournalEntries /\ e.type = "started" /\ e.step = n + 1
    BY DEF JournalEntry, JournalEntries, JournalTypes
  <2>3. journal \in Seq(JournalEntries)
    BY DEF JournalInv
  <2> HIDE DEF e
  <2>4. /\ journal' \in Seq(JournalEntries)
        /\ StepsIn(journal', "succeeded") = StepsIn(journal, "succeeded")
        /\ StepsIn(journal', "failed") = StepsIn(journal, "failed")
        /\ n + 1 \in StepsIn(journal', "started")
        /\ Happened(journal, "halted") => Happened(journal', "halted")
    BY <2>1, <2>2, <2>3, AppendLine
  <2>5. /\ pc'[q] = "step" /\ hand'[q] = [hand[q] EXCEPT !.step = n + 1]
        /\ \A p \in Procs : p # q => pc'[p] = pc[p]
    BY <2>1, ProceedEffect DEF EngineInv, FilesTypeOK
  <2>6. hand'[q].step = n + 1
    <3>1. DOMAIN hand[q] = GatedFields
      BY <2>1 DEF GateInv, Inside, LetThrough
    <3> QED BY <2>5, <3>1 DEF GatedFields
  <2>7. StepsIn(journal, "failed") = {}
    BY <2>1 DEF StatusOf, JournalInv
  <2>8. \A p \in Procs : p # q => pc'[p] # "step"
    BY <1>s, <2>1, <2>5
  <2>9. Cardinality(StepsIn(journal', "succeeded")) = n
    BY <1>c, <2>4
  <2> QED BY <1>0, <2>4, <2>6, <2>7, <2>8, <2>9 DEF JournalInv
<1>4. ASSUME NEW q \in Procs, NEW ok \in BOOLEAN, FinishStep(q, ok) PROVE JournalInv'
  <2>1. /\ hand[q].step = n + 1 /\ pc[q] = "step" /\ StepsIn(journal, "failed") = {}
    BY <1>4, <1>c DEF FinishStep, JournalInv
  <2> DEFINE e == JournalEntry(IF ok THEN "succeeded" ELSE "failed", n + 1)
             f == JournalEntry(IF ok THEN "completed" ELSE "halted", 0)
  <2>2. PICK d : d = Append(journal, e)
    OBVIOUS
  <2>3. \/ ok /\ journal' = d
        \/ journal' = Append(d, f)
    BY <1>4, <2>1, <2>2 DEF FinishStep
  <2>4. /\ e \in JournalEntries /\ e.type = (IF ok THEN "succeeded" ELSE "failed") /\ e.step = n + 1
        /\ f \in JournalEntries /\ f.type = IF ok THEN "completed" ELSE "halted"
    BY DEF JournalEntry, JournalEntries, JournalTypes
  <2>5. journal \in Seq(JournalEntries)
    BY DEF JournalInv
  <2> HIDE DEF e, f
  <2>6. /\ d \in Seq(JournalEntries)
        /\ StepsIn(d, "succeeded") = StepsIn(journal, "succeeded") \cup {x \in {n + 1} : ok}
        /\ ok => StepsIn(d, "failed") = {}
    <3>1. d \in Seq(JournalEntries)
      BY <2>2, <2>4, <2>5, AppendLine
    <3>2. CASE ok
      <4>1. e.type = "succeeded" /\ e.step = n + 1
        BY <2>4, <3>2
      <4>2. /\ StepsIn(d, "succeeded") = StepsIn(journal, "succeeded") \cup {n + 1}
            /\ StepsIn(d, "failed") = StepsIn(journal, "failed")
        BY <2>2, <2>4, <2>5, <4>1, AppendLine
      <4> QED BY <2>1, <3>1, <3>2, <4>2
    <3>3. CASE ~ok
      <4>1. e.type = "failed"
        BY <2>4, <3>3
      <4>2. StepsIn(d, "succeeded") = StepsIn(journal, "succeeded")
        BY <2>2, <2>4, <2>5, <4>1, AppendLine
      <4> QED BY <3>1, <3>3, <4>2
    <3> QED BY <3>2, <3>3
  <2>7. /\ journal' \in Seq(JournalEntries)
        /\ StepsIn(journal', "succeeded") = StepsIn(journal, "succeeded") \cup {x \in {n + 1} : ok}
        /\ StepsIn(journal', "failed") # {} => Happened(journal', "halted")
    <3>1. CASE ok /\ journal' = d
      BY <2>6, <3>1
    <3>2. CASE journal' = Append(d, f)
      <4>1. /\ journal' \in Seq(JournalEntries)
            /\ StepsIn(journal', "succeeded") = StepsIn(d, "succeeded")
            /\ StepsIn(journal', "failed") = StepsIn(d, "failed")
            /\ ~ok => Happened(journal', "halted")
        BY <2>4, <2>6, <3>2, AppendLine
      <4> QED BY <2>6, <4>1
    <3> QED BY <2>3, <3>1, <3>2
  <2>8. \E m \in Nat : StepsIn(journal', "succeeded") = 1 .. m
    <3>1. CASE ok
      <4>1. StepsIn(journal', "succeeded") = (1 .. n) \cup {n + 1}
        BY <1>0, <2>7, <3>1
      <4>2. \A k : k \in (1 .. n) \cup {n + 1} <=> k \in 1 .. (n + 1)
        OBVIOUS
      <4>3. StepsIn(journal', "succeeded") = 1 .. (n + 1)
        BY <4>1, <4>2, Zenon
      <4> QED BY <4>3
    <3>2. CASE ~ok
      BY <1>0, <2>7, <3>2
    <3> QED BY <3>1, <3>2
  <2>9. \A p \in Procs : pc'[p] # "step"
    <3>1. \E w \in {"gated", "idle"} : \E h : Proceed(q, w, h)
      BY <1>4 DEF FinishStep
    <3>2. pc'[q] # "step" /\ \A p \in Procs : p # q => pc'[p] = pc[p]
      BY <3>1, ProceedEffect DEF EngineInv, FilesTypeOK
    <3> QED BY <2>1, <3>2 DEF JournalInv
  <2> QED BY <2>7, <2>8, <2>9 DEF JournalInv
<1> QED BY <1>1, <1>2, <1>3, <1>4, JournalChanges

-----------------------------------------------------------------------------
(* What a receipt tells *)

\* The journal up to a head is that of a finished transaction, and all that has
\* come after it is an abort of a halted one.
Frozen(j, head) ==
    LET then == SubSeq(j, 1, head)
    IN /\ head \in 0 .. Len(j)
       /\ StatusOf(then) \in TerminalStatuses /\ PendingIn(then) = {}
       /\ j = then \/ (StatusOf(then) = "halted" /\ j = Append(then, JournalEntry("aborted", 0)))

\* The status a receipt may claim for a head
Claim(j, head, status) ==
    LET then == SubSeq(j, 1, head)
    IN status = StatusOf(then) \/ (StatusOf(then) = "halted" /\ status = "aborted")

ReceiptFields == {"entries", "head", "at", "status", "capsule", "bundle", "trust"}
Receipting == {"receipt_capsule", "receipt_report", "receipt_sign"}

ReceiptInv ==
    /\ \A p \in Procs : pc[p] \in Receipting =>
         /\ DOMAIN hand[p] = ReceiptFields
         /\ Frozen(journal, hand[p].head)
         /\ pc[p] = "receipt_sign" => Claim(journal, hand[p].head, hand[p].status)
    /\ \A r \in receipts :
         /\ Frozen(journal, r.head)
         /\ Claim(journal, r.head, r.status)
         /\ r.actions = Outcomes(SubSeq(journal, 1, r.head))

\* The whole of a journal is frozen when its transaction has finished.
LEMMA WholeFrozen ==
  ASSUME NEW j \in Seq(JournalEntries), StatusOf(j) \in TerminalStatuses, PendingIn(j) = {}
  PROVE  Frozen(j, Len(j))
<1>1. SubSeq(j, 1, Len(j)) = j /\ Len(j) \in 0 .. Len(j)
  OBVIOUS
<1> QED BY <1>1 DEF Frozen

\* What a frozen journal shows is what it held at the head.
LEMMA FrozenTells ==
  ASSUME NEW j \in Seq(JournalEntries), NEW head, Frozen(j, head)
  PROVE  /\ Claim(j, head, StatusOf(j))
         /\ Outcomes(j) = Outcomes(SubSeq(j, 1, head))
         /\ PendingIn(j) = {}
         /\ StatusOf(j) \in TerminalStatuses
         /\ j # SubSeq(j, 1, head) => StatusOf(j) = "aborted"
<1>1. PICK t : t = SubSeq(j, 1, head)
  OBVIOUS
<1>2. /\ head \in 0 .. Len(j) /\ StatusOf(t) \in TerminalStatuses /\ PendingIn(t) = {}
      /\ j = t \/ (StatusOf(t) = "halted" /\ j = Append(t, JournalEntry("aborted", 0)))
  BY <1>1 DEF Frozen
<1>3. CASE j = t
  BY <1>1, <1>2, <1>3 DEF Claim
<1>4. CASE StatusOf(t) = "halted" /\ j = Append(t, JournalEntry("aborted", 0))
  <2> DEFINE e == JournalEntry("aborted", 0)
  <2>1. t \in Seq(JournalEntries)
    BY <1>1, <1>2
  <2>2. e \in JournalEntries /\ e.type = "aborted" /\ j = Append(t, e)
    BY <1>4 DEF JournalEntry, JournalEntries, JournalTypes
  <2> HIDE DEF e
  <2>3. Happened(j, "aborted")
    BY <2>1, <2>2, AppendLine
  <2>4. StatusOf(j) = "aborted"
    BY <2>3 DEF StatusOf
  <2>5. /\ StepsIn(j, "started") = StepsIn(t, "started")
        /\ StepsIn(j, "succeeded") = StepsIn(t, "succeeded")
        /\ StepsIn(j, "failed") = StepsIn(t, "failed")
    BY <2>1, <2>2, AppendLine
  <2>6. PendingIn(j) = {}
    BY <1>2, <2>5 DEF PendingIn
  <2>7. Outcomes(j) = Outcomes(t) \cup {x \in {e} : x.type \in {"succeeded", "failed"}}
    BY <2>1, <2>2, AppendLine
  <2>8. Outcomes(j) = Outcomes(t)
    BY <2>2, <2>7
  <2> QED BY <1>1, <1>4, <2>4, <2>6, <2>8 DEF Claim, TerminalStatuses
<1> QED BY <1>2, <1>3, <1>4

\* Appending leaves a prefix as it is.
LEMMA PrefixOfAppend ==
  ASSUME NEW j \in Seq(JournalEntries), NEW e \in JournalEntries
  PROVE  SubSeq(Append(j, e), 1, Len(j)) = j
<1>1. Len(j) \in Nat /\ SubSeq(j, 1, Len(j)) = j
  OBVIOUS
<1>2. SubSeq(Append(j, e), 1, Len(j)) = SubSeq(j, 1, Len(j))
  OBVIOUS
<1> QED BY <1>1, <1>2

\* A finished transaction only takes an abort after a halt, and the journal up
\* to the head stays what it was.
LEMMA FrozenStays ==
  ASSUME EngineInv, JournalInv, [Next]_vars, NEW head, Frozen(journal, head)
  PROVE  /\ Frozen(journal', head)
         /\ SubSeq(journal', 1, head) = SubSeq(journal, 1, head)
<1>1. /\ journal \in Seq(JournalEntries)
      /\ StatusOf(journal) \in TerminalStatuses /\ PendingIn(journal) = {}
      /\ journal # SubSeq(journal, 1, head) => StatusOf(journal) = "aborted"
  BY FrozenTells DEF JournalInv
<1>2. CASE UNCHANGED journal
  BY <1>2
<1>3. ASSUME NEW q \in Procs PROVE ~StartStep(q)
  BY <1>1 DEF StartStep, TerminalStatuses
<1>4. ASSUME NEW q \in Procs, NEW ok \in BOOLEAN PROVE ~FinishStep(q, ok)
  <2> SUFFICES ASSUME pc[q] = "step" PROVE FALSE
    BY DEF FinishStep
  <2>1. PICK n \in Nat : StepsIn(journal, "succeeded") = 1 .. n
    BY DEF JournalInv
  <2>2. /\ hand[q].step \in StepsIn(journal, "started")
        /\ hand[q].step = Cardinality(StepsIn(journal, "succeeded")) + 1
        /\ StepsIn(journal, "failed") = {}
    BY DEF JournalInv
  <2>3. Cardinality(StepsIn(journal, "succeeded")) = n
    BY <2>1, CountedSteps
  <2>4. hand[q].step \notin StepsIn(journal, "succeeded")
    BY <2>1, <2>2, <2>3
  <2> QED BY <1>1, <2>2, <2>4 DEF PendingIn
<1>5. ASSUME NEW q \in Procs, Abort(q)
      PROVE  /\ Frozen(journal', head)
             /\ SubSeq(journal', 1, head) = SubSeq(journal, 1, head)
  <2> DEFINE e == JournalEntry("aborted", 0)
  <2>1. journal' = Append(journal, e) /\ StatusOf(journal) \notin {"aborted", "completed"}
    BY <1>5 DEF Abort
  <2>2. e \in JournalEntries
    BY DEF JournalEntry, JournalEntries, JournalTypes
  <2>3. journal = SubSeq(journal, 1, head) /\ head \in 0 .. Len(journal)
    BY <1>1, <2>1 DEF Frozen
  <2>4. head = Len(journal)
    BY <1>1, <2>3
  <2>5. StatusOf(journal) = "halted"
    BY <1>1, <2>1 DEF TerminalStatuses
  <2>6. SubSeq(journal', 1, head) = journal /\ head \in 0 .. Len(journal')
    <3>1. SubSeq(journal', 1, head) = journal
      BY <1>1, <2>1, <2>2, <2>4, PrefixOfAppend
    <3>2. Len(journal) \in Nat /\ Len(journal') = Len(journal) + 1
      BY <1>1, <2>1, <2>2
    <3>3. head \in 0 .. Len(journal')
      BY <2>4, <3>2
    <3> QED BY <3>1, <3>3
  <2>7. PICK t : t = SubSeq(journal', 1, head)
    OBVIOUS
  <2>8. /\ StatusOf(t) = "halted" /\ PendingIn(t) = {}
        /\ journal' = Append(t, JournalEntry("aborted", 0))
    <3>1. t = journal
      BY <2>6, <2>7
    <3>2. StatusOf(journal) = "halted" /\ PendingIn(journal) = {}
      BY <1>1, <2>5
    <3>3. journal' = Append(journal, JournalEntry("aborted", 0))
      BY <2>1
    <3> QED BY <3>1, <3>2, <3>3, Zenon
  <2>9. Frozen(journal', head)
    BY <2>6, <2>7, <2>8 DEF Frozen, TerminalStatuses
  <2> QED BY <2>3, <2>6, <2>9
<1> QED BY <1>2, <1>3, <1>4, <1>5, JournalChanges

\* How a process comes to issue a receipt.
LEMMA ReceiptMoves ==
  ASSUME EngineInv, [Next]_vars, NEW p \in Procs, pc'[p] \in Receipting
  PROVE  \/ pc'[p] = pc[p] /\ hand'[p] = hand[p]
         \/ \E t : ReceiptRead(p, t)
         \/ ReceiptCapsule(p) \/ ReceiptReport(p)
<1>1. ASSUME NEW q \in Procs, NEW w, NEW h, Proceed(q, w, h), w \notin Receipting \/ p # q
      PROVE  pc'[p] = pc[p] /\ hand'[p] = hand[p]
  BY <1>1, ProceedEffect DEF EngineInv, FilesTypeOK
<1>2. CASE UNCHANGED <<pc, hand>>
  BY <1>2
<1>3. ASSUME NEW q \in Procs, ProcNext(q)
      PROVE  \/ pc'[p] = pc[p] /\ hand'[p] = hand[p]
             \/ \E t : ReceiptRead(p, t)
             \/ ReceiptCapsule(p) \/ ReceiptReport(p)
  <2>1. CASE ApprovalNext(q)
    <3>1. \E w \in Creating \cup {"idle", "record", "append"} : \E h : Proceed(q, w, h)
      BY <2>1 DEF ApprovalNext, CreateCheck, CreatePolicy, CreateSnapshot,
         CreateLedgerCheck, CreateLedger, RecordVerify, RecordRead, RecordWrite, Creating
    <3> QED BY <1>1, <3>1 DEF Creating, Receipting
  <2>2. CASE RunNext(q) \/ Abort(q) \/ Stop(q)
    <3>1. UNCHANGED <<pc, hand>> \/ \E w \in {"idle", "gated", "step"} : \E h : Proceed(q, w, h)
      BY <2>2 DEF RunNext, Abort, Stop, AuthorizeStep, StartStep, FinishStep
    <3> QED BY <1>1, <1>2, <3>1 DEF Receipting
  <2>3. CASE GatedCall(q) \/ SessionCall(q)
    <3>1. \E w \in {"capsule", "identity", "identified", "gated"} : \E h : Proceed(q, w, h)
      BY <2>3 DEF GatedCall, SessionCall, CapsuleVerify, IdentityVerify, IdentityMatch, Gate
    <3> QED BY <1>1, <3>1 DEF Receipting
  <2>4. CASE SessionNext(q)
    <3>1. \E w \in {"idle", "capsule_subject"} : \E h : Proceed(q, w, h)
      BY <2>4 DEF SessionNext, CapsuleRead, CapsuleIssue, Die
    <3> QED BY <1>1, <3>1 DEF Receipting
  <2>5. CASE ReceiptNext(q)
    <3>1. CASE p # q
      <4>1. \E w, h : Proceed(q, w, h)
        BY <2>5 DEF ReceiptNext, ReceiptRead, ReceiptCapsule, ReceiptReport, ReceiptIssue
      <4> QED BY <1>1, <3>1, <4>1
    <3>2. CASE ReceiptIssue(q)
      <4>1. Proceed(q, "idle", Nothing)
        BY <3>2 DEF ReceiptIssue
      <4> QED BY <1>1, <4>1 DEF Receipting
    <3> QED BY <2>5, <3>1, <3>2 DEF ReceiptNext
  <2> QED BY <1>3, <2>1, <2>2, <2>3, <2>4, <2>5 DEF ProcNext
<1>4. CASE HostNext
  BY <1>2, <1>4 DEF HostNext, Tick, ReplaceTrust, Attest, engineVars
<1>5. CASE UNCHANGED engineVars
  BY <1>2, <1>5 DEF engineVars
<1> QED BY <1>3, <1>4, <1>5 DEF Next, vars

\* ReceiptInv is kept by every step.
LEMMA ReceiptStep ==
  ASSUME EngineInv, JournalInv, ReceiptInv, [Next]_vars
  PROVE  ReceiptInv'
<1>0. journal \in Seq(JournalEntries)
  BY DEF JournalInv
<1>s. ASSUME NEW head, Frozen(journal, head)
      PROVE  /\ Frozen(journal', head)
             /\ SubSeq(journal', 1, head) = SubSeq(journal, 1, head)
             /\ \A status : Claim(journal', head, status) <=> Claim(journal, head, status)
  BY <1>s, FrozenStays DEF Claim
<1>1. ASSUME NEW p \in Procs, pc'[p] \in Receipting
      PROVE  /\ DOMAIN hand'[p] = ReceiptFields
             /\ Frozen(journal', hand'[p].head)
             /\ pc'[p] = "receipt_sign" => Claim(journal', hand'[p].head, hand'[p].status)
  <2>1. CASE pc'[p] = pc[p] /\ hand'[p] = hand[p]
    BY <1>1, <1>s, <2>1 DEF ReceiptInv
  <2>2. ASSUME NEW t, ReceiptRead(p, t)
        PROVE  /\ DOMAIN hand'[p] = ReceiptFields
               /\ Frozen(journal', hand'[p].head)
               /\ pc'[p] # "receipt_sign"
    <3>1. /\ pc'[p] = "receipt_capsule" /\ UNCHANGED journal
          /\ hand'[p] = [entries |-> ledger.entries, head |-> Len(journal), at |-> t,
                         status |-> Nothing,
                         capsule |-> capsule, bundle |-> bundle, trust |-> trust]
      BY <2>2, ProceedEffect DEF ReceiptRead, EngineStays, EngineInv, FilesTypeOK
    <3>2. Frozen(journal, Len(journal))
      BY <1>0, <2>2, WholeFrozen DEF ReceiptRead, Pending
    <3> QED BY <3>1, <3>2 DEF ReceiptFields
  <2>3. CASE ReceiptCapsule(p)
    <3>1. /\ pc[p] = "receipt_capsule" /\ pc'[p] = "receipt_report" /\ hand'[p] = hand[p]
      BY <2>3, ProceedEffect DEF ReceiptCapsule, EngineInv, FilesTypeOK
    <3> QED BY <1>s, <3>1 DEF ReceiptInv, Receipting
  <2>4. CASE ReceiptReport(p)
    <3>1. /\ pc[p] = "receipt_report" /\ UNCHANGED journal
          /\ hand'[p] = [hand[p] EXCEPT !.status = StatusOf(journal)]
      BY <2>4, ProceedEffect DEF ReceiptReport, EngineStays, EngineInv, FilesTypeOK
    <3>2. DOMAIN hand[p] = ReceiptFields /\ Frozen(journal, hand[p].head)
      BY <3>1 DEF ReceiptInv, Receipting
    <3>3. /\ DOMAIN hand'[p] = ReceiptFields /\ hand'[p].head = hand[p].head
          /\ hand'[p].status = StatusOf(journal)
      BY <3>1, <3>2 DEF ReceiptFields
    <3>4. Claim(journal, hand[p].head, StatusOf(journal))
      BY <1>0, <3>2, FrozenTells
    <3> QED BY <3>1, <3>2, <3>3, <3>4
  <2> QED BY <1>1, <2>1, <2>2, <2>3, <2>4, ReceiptMoves
<1>2. ASSUME NEW r \in receipts'
      PROVE  /\ Frozen(journal', r.head)
             /\ Claim(journal', r.head, r.status)
             /\ r.actions = Outcomes(SubSeq(journal', 1, r.head))
  <2>1. CASE r \in receipts
    BY <1>s, <2>1 DEF ReceiptInv
  <2>2. ASSUME r \notin receipts, NEW p \in Procs, ReceiptIssue(p)
        PROVE  /\ Frozen(journal', r.head)
               /\ Claim(journal', r.head, r.status)
               /\ r.actions = Outcomes(SubSeq(journal', 1, r.head))
    <3>1. /\ r.head = hand[p].head /\ r.status = hand[p].status /\ r.actions = Outcomes(journal)
          /\ pc[p] = "receipt_sign" /\ UNCHANGED journal
      BY <2>2 DEF ReceiptIssue, EngineStays
    <3>2. Frozen(journal, r.head) /\ Claim(journal, r.head, r.status)
      BY <3>1 DEF ReceiptInv, Receipting
    <3>3. Outcomes(journal) = Outcomes(SubSeq(journal, 1, r.head))
      BY <1>0, <3>2, FrozenTells
    <3> QED BY <3>1, <3>2, <3>3
  <2> QED BY <2>1, <2>2, ReceiptChanges
<1> QED BY <1>1, <1>2 DEF ReceiptInv

\* A portable receipt tells what the journal held at the head it names, although
\* it is put together from four readings of the engine with other processes in
\* between; only an abort that comes after its halt can make it claim the later
\* status, and then the engine refuses it.
THEOREM ReceiptsTellTheJournal == Spec => []ReceiptTellsTheJournal
<1>1. Init => JournalInv /\ ReceiptInv
  <2>1. Init => journal = <<>> /\ receipts = {} /\ \A p \in Procs : pc[p] = "idle"
    BY DEF Init, EngineInit, EngineStart, EvidenceInit
  <2>2. journal = <<>> => /\ journal \in Seq(JournalEntries)
                          /\ StepsIn(journal, "succeeded") = 1 .. 0
                          /\ StepsIn(journal, "failed") = {}
    BY DEF StepsIn
  <2> QED BY <2>1, <2>2 DEF JournalInv, ReceiptInv, Receipting
<1>2. (EngineInv /\ SessionInv /\ GateInv) /\ (JournalInv /\ ReceiptInv) /\ [Next]_vars
        => (JournalInv /\ ReceiptInv)'
  BY JournalStep, ReceiptStep
<1>3. JournalInv /\ ReceiptInv => ReceiptTellsTheJournal
  <2> SUFFICES ASSUME JournalInv, ReceiptInv, NEW r \in receipts
               PROVE  LET then == SubSeq(journal, 1, r.head)
                      IN /\ r.actions = Outcomes(then)
                         /\ r.status = StatusOf(then) \/ (StatusOf(then) = "halted" /\ r.status = "aborted")
                         /\ ReceiptMatchesEngine(r) => r.status = StatusOf(then)
    BY DEF ReceiptTellsTheJournal
  <2>1. r.head = Len(journal) => SubSeq(journal, 1, r.head) = journal
    BY DEF JournalInv
  <2> QED BY <2>1 DEF ReceiptInv, Claim, ReceiptMatchesEngine
<1> QED BY <1>1, <1>2, <1>3, GateInductive, PTL DEF Spec


-----------------------------------------------------------------------------
(* TRCP sessions: the trace                                                 *)

\* The states of a session.
States == DOMAIN AllowedTransitions

\* What an event may refer to: the number of a run, or a finding.
Refs == Nat \cup STRING

\* The kinds of an event, and the states its transition may name.
Kinds ==
    {"SIMULATOR_CREATED", "CLOCK_ADVANCED", "STATE_TRANSITION", "PROVIDER_RUN_RECORDED",
     "FAILOVER_DECISION_RECORDED", "EFFECTIVE_SCOPE_UPDATED", "FINDING_RECORDED",
     "VERIFICATION_RECORDED", "FINDING_STATUS_UPDATED"}

Places == States \cup {"none"}

\* An event of the trace.
TraceEvents ==
    [seq : Nat, at : Int, kind : Kinds, from : Places, to : Places, ref : Refs]

\* A log: numbered events in the order of their times, none later than t.
LogInv(tr, t) ==
    /\ tr \in Seq(TraceEvents) /\ t \in Int
    /\ Len(tr) >= 1 /\ tr[1].kind = "SIMULATOR_CREATED"
    /\ \A i \in DOMAIN tr : tr[i].seq = i /\ tr[i].at <= t
    /\ \A i, j \in DOMAIN tr : i <= j => tr[i].at <= tr[j].at

\* Its transitions are a path of AllowedTransitions from NEW to s.
ChainInv(tr, s) ==
    LET T == OfKind(tr, "STATE_TRANSITION")
    IN  /\ s \in States
        /\ T = {} => s = "NEW"
        /\ T # {} => (\E i \in T : \A j \in T : j <= i) /\ (\E i \in T : \A j \in T : i <= j)
        /\ \A i \in T :
             /\ (\A j \in T : i <= j) => tr[i].from = "NEW"
             /\ tr[i].to \in AllowedTransitions[tr[i].from]
             /\ \A j \in T : Consecutive(j, i, T) => tr[i].from = tr[j].to
             /\ (\A j \in T : j <= i) => tr[i].to = s

\* It has exactly one event for each of the runs 1 .. n.
RunEvents(tr, n) ==
    LET R == OfKind(tr, "PROVIDER_RUN_RECORDED")
    IN  /\ \A i \in R : tr[i].ref \in 1 .. n
        /\ \A k \in 1 .. n : \E i \in R : tr[i].ref = k
        /\ \A i, j \in R : tr[i].ref = tr[j].ref => i = j

\* It has a failover decision if d, and one before the second run.
DecisionEvents(tr, d) ==
    LET D == OfKind(tr, "FAILOVER_DECISION_RECORDED")
    IN  /\ d <=> D # {}
        /\ d => \E i \in D : \A j \in D : i <= j
        /\ \A i \in OfKind(tr, "PROVIDER_RUN_RECORDED") :
             tr[i].ref = 2 => \E j \in D : j <= i

\* It has one event for the finding f.
FindingEvents(tr, f) ==
    LET F == OfKind(tr, "FINDING_RECORDED")
    IN  IF f = NoRecord THEN F = {}
        ELSE \E i \in F : F = {i} /\ tr[i].ref = f.finding_id

\* So with the verification, which comes after the finding.
VerificationEvents(tr, v) ==
    LET V == OfKind(tr, "VERIFICATION_RECORDED")
    IN  IF v = NoRecord THEN V = {}
        ELSE \E i \in V : /\ V = {i} /\ tr[i].ref = v.finding_id
                          /\ \E j \in OfKind(tr, "FINDING_RECORDED") : j <= i

\* The trace tr of a session at time t in state s, with n runs, a failover record if d,
\* the finding f and the verification v.
TraceInv(tr, t, s, n, d, f, v) ==
    /\ LogInv(tr, t) /\ ChainInv(tr, s) /\ RunEvents(tr, n) /\ DecisionEvents(tr, d)
    /\ FindingEvents(tr, f) /\ VerificationEvents(tr, v)

\* What the trace tells is what the simulator holds.
TraceTells == TraceInv(trace, now_unix, state, Len(runs), failover # NoRecord, finding, verification)

\* The types of the records of a session.
RunRecords ==
    [ run_id : Nat, scope_id : STRING, provider : STRING, started_at : Int,
      task : TasksOf(FixtureRefs), outcome : STRING, workload : FixtureRefs ]

SimTypeOK ==
    /\ auth \in AuthorizationRecords
    /\ initialScope \in ScopeEnvelopes /\ scope \in ScopeEnvelopes
    /\ now_unix \in Int /\ state \in States
    /\ runs \in Seq(RunRecords)
    /\ failover \in FailoverRecords \cup {NoRecord}
    /\ finding \in FindingRecords \cup {NoRecord}
    /\ verification \in VerificationRecords \cup {NoRecord}

\* The effective scope is the first one or a narrower one without overlap.
ScopeInv ==
    /\ state = "NEW" => scope = initialScope
    /\ state # "NEW" =>
         /\ initialScope.authorization_id = auth.authorization_id
         /\ IsEqualOrNarrowerThan(scope, initialScope)
         /\ ~ScopeOverlap(initialScope) /\ ~ScopeOverlap(scope)

\* Each run was made within the grant.
GrantInv ==
    /\ Len(runs) <= 2
    /\ \A i \in DOMAIN runs :
         /\ runs[i].run_id = i
         /\ auth.valid_from <= runs[i].started_at /\ runs[i].started_at <= auth.valid_until
         /\ runs[i].started_at <= initialScope.expires_at
         /\ runs[i].task.action \in initialScope.allowed_actions \ initialScope.prohibited_actions
         /\ runs[i].task = runs[1].task
    /\ failover # NoRecord =>
         /\ failover.scope_id = scope.scope_id
         /\ failover.previous_run_id = 1 /\ runs # <<>>
    /\ Len(runs) = 2 => failover # NoRecord /\ runs[2].provider = failover.new_provider_id

\* What the state says of the records.
PhaseInv ==
    /\ state \in {"NEW", "AUTHORIZED"} => runs = <<>>
    /\ state = "FAILOVER_PENDING" => Len(runs) = 1
    /\ state \in {"NEW", "AUTHORIZED", "FAILOVER_PENDING"} => finding = NoRecord
    /\ finding = NoRecord => verification = NoRecord
    /\ verification # NoRecord => verification.finding_id = finding.finding_id
    /\ finding # NoRecord /\ finding.status = "CONFIRMED" =>
         verification # NoRecord /\ verification.result = "REPRODUCED"

\* The inductive invariant of the simulator.
SimInv == SimTypeOK /\ ScopeInv /\ GrantInv /\ PhaseInv /\ TraceTells

(* The workload. *)
\* What an invariant of a workload is there to find.
Caused(m) == Overpaid(m) \/ ExecutedThoughRejected(m)

\* Money moves out of the escrow and of the budget only this way.
Paid(m) ==
    /\ kind = "escrow" => m.out >= 0 /\ m.back >= 0 /\ (m.out > 0 => m.state = "RELEASED")
    /\ kind = "spending" =>
         /\ m.executed <=> m.state = "EXECUTED"
         /\ ~m.executed => m.out = 0
         /\ m.executed /\ m.amount > 0 => m.out > 0
         /\ m.amount <= 0 => m.out <= 0

\* What was reported is what is broken, or was refused.
WorkInv ==
    /\ kind \in {"escrow", "spending"} /\ machine \in Machines
    /\ violations \in SUBSET Violations
    /\ Report(machine) \subseteq violations
    /\ violations \ Refusals # {} => Caused(machine)
    /\ Paid(machine)

(* The pipeline. *)
Ending == {"report", "typed", "done"}
Bound  == {"authorize", "primary", "failover", "fallback", "verify", "confirm"} \cup Ending

\* The providers a session may be given.
PipeProviders ==
    [ provider_id : STRING, outcome : STRING, finding : STRING \cup {NoRecord},
      workload : FixtureRefs ]

\* Where the pipeline is says in which state the session is.
StageInv ==
    /\ client \in Clients /\ stage \in {"calls", "workload", "raised"} \cup Bound
    /\ client = "caller" <=> stage = "calls"
    /\ kind = (IF client = "escrow" THEN "escrow" ELSE "spending")
    /\ stage \in {"workload", "authorize"} => state = "NEW"
    /\ stage = "primary" => state = "AUTHORIZED"
    /\ stage \in {"failover", "fallback"} => state = "FAILOVER_PENDING"
    /\ stage \in {"verify", "confirm"} => state = "VERIFYING"
    /\ stage \in Ending => state \in {"CLOSED", "ABORTED"}
    /\ stage = "failover" => failover = NoRecord
    /\ stage \in {"authorize", "primary"} => failover = NoRecord
    /\ stage = "verify" => verification = NoRecord
    /\ stage \in {"primary", "verify", "confirm"} \cup Ending =>
         (failover # NoRecord => Len(runs) = 2)
    /\ stage \in {"verify", "confirm"} \cup Ending =>
         /\ runs # <<>>
         /\ client \in {"escrow", "spending"} => Len(runs) = 2

\* What normalize made is kept. The clients of this repository bind their task and their
\* primary provider to it, and the shipped adapters report all of it and fail over.
BindingInv ==
    stage \in Bound =>
      /\ evidence \in Evidence
      /\ evidence.workload = evidence.body /\ evidence.task = task
      /\ evidence.body.violations \subseteq violations
      /\ primary \in PipeProviders
      /\ client \in {"escrow", "spending"} =>
           evidence.body = Body /\ primary.outcome = FailoverOutcome
      /\ client # "generic" =>
           /\ task.fixture = evidence.body /\ reproduced = TRUE
           /\ primary.workload = evidence.body /\ primary.finding = NoRecord
      /\ \A i \in DOMAIN runs : runs[i].task = task
      /\ runs # <<>> => runs[1].workload = primary.workload
      /\ Len(runs) = 2 => runs[2].workload = evidence.body

\* The task pins the digest of the workload and a run carries it.
Pinned ==
    /\ task.fixture = evidence.workload
    /\ \E i \in DOMAIN runs : runs[i].workload = evidence.workload

\* The finding of the fallback run.
ConfirmInv ==
    /\ stage \in {"verify", "confirm"} \cup Ending =>
         /\ Len(runs) = 2 => (finding # NoRecord <=> evidence.body.violations # {})
         /\ client # "generic" /\ finding # NoRecord => Len(runs) = 2
    /\ stage = "confirm" => finding # NoRecord
    /\ stage \in Ending /\ finding # NoRecord /\ reproduced => finding.status = "CONFIRMED"
    /\ reproduced \in BOOLEAN
    /\ stage \in {"typed", "done"} => (receipt = "PASS" <=> Pinned)

\* The inductive invariant of a session.
PipeInv == SimInv /\ WorkInv /\ StageInv /\ BindingInv /\ ConfirmInv

\* What appending one element to a sequence does.
LEMMA Appended ==
  ASSUME NEW S, NEW s \in Seq(S), NEW e \in S, NEW r, r = Append(s, e)
  PROVE  /\ r \in Seq(S) /\ Len(r) = Len(s) + 1 /\ Len(s) \in Nat
         /\ DOMAIN s = 1 .. Len(s) /\ DOMAIN r = 1 .. Len(r)
         /\ DOMAIN r = DOMAIN s \cup {Len(s) + 1}
         /\ Len(s) + 1 \notin DOMAIN s
         /\ \A i \in DOMAIN s : i \in Nat /\ i <= Len(s) /\ r[i] = s[i]
         /\ r[Len(s) + 1] = e
<1>1. /\ r \in Seq(S) /\ Len(r) = Len(s) + 1 /\ Len(s) \in Nat
      /\ DOMAIN s = 1 .. Len(s) /\ DOMAIN r = 1 .. Len(r)
      /\ r[Len(s) + 1] = e
  OBVIOUS
<1>2. \A i \in DOMAIN s : i \in Nat /\ i <= Len(s) /\ r[i] = s[i]
  BY <1>1
<1> QED BY <1>1, <1>2

\* Elements of a sequence.
LEMMA Element ==
  ASSUME NEW S, NEW s \in Seq(S), NEW i \in DOMAIN s
  PROVE  s[i] \in S
OBVIOUS

\* Numbers and names are references.
LEMMA References == 0 \in Refs /\ (\A n \in Nat : n \in Refs) /\ (\A s \in STRING : s \in Refs)
BY DEF Refs

\* An entry of the log, as _append makes it.
Entry(tr, t, k, a, b, x) ==
    [seq |-> Len(tr) + 1, at |-> t, kind |-> k, from |-> a, to |-> b, ref |-> x]

Logged(tr, t, k, a, b, x) == Append(tr, Entry(tr, t, k, a, b, x))

\* A new entry is last, and the only new event of its kind.
IsLonger(r, tr, t, k, a, b, x) ==
    /\ r \in Seq(TraceEvents) /\ Len(r) = Len(tr) + 1 /\ Len(tr) \in Nat
    /\ DOMAIN tr = 1 .. Len(tr)
    /\ DOMAIN r = DOMAIN tr \cup {Len(tr) + 1}
    /\ Len(tr) + 1 \notin DOMAIN tr
    /\ \A i \in DOMAIN tr : i \in Nat /\ i <= Len(tr) /\ r[i] = tr[i]
    /\ r[Len(tr) + 1] = Entry(tr, t, k, a, b, x)
    /\ OfKind(r, k) = OfKind(tr, k) \cup {Len(tr) + 1}
    /\ \A other : other # k => OfKind(r, other) = OfKind(tr, other)

\* Logging makes the log longer by one entry.
LEMMA LoggedFacts ==
  ASSUME NEW tr \in Seq(TraceEvents), NEW t \in Int, NEW k \in Kinds,
         NEW a \in Places, NEW b \in Places, NEW x \in Refs
  PROVE  IsLonger(Logged(tr, t, k, a, b, x), tr, t, k, a, b, x)
<1> DEFINE r == Logged(tr, t, k, a, b, x)
<1> DEFINE e == Entry(tr, t, k, a, b, x)
<1>1. e \in TraceEvents /\ e.kind = k
  BY DEF Entry, TraceEvents
<1>2. r = Append(tr, e)
  BY DEF Logged
<1> HIDE DEF e, r
<1>3. /\ r \in Seq(TraceEvents) /\ Len(r) = Len(tr) + 1 /\ Len(tr) \in Nat
      /\ DOMAIN tr = 1 .. Len(tr) /\ DOMAIN r = DOMAIN tr \cup {Len(tr) + 1}
      /\ Len(tr) + 1 \notin DOMAIN tr
      /\ \A i \in DOMAIN tr : i \in Nat /\ i <= Len(tr) /\ r[i] = tr[i]
      /\ r[Len(tr) + 1] = e
  BY <1>1, <1>2, Appended
<1>4. OfKind(r, k) = OfKind(tr, k) \cup {Len(tr) + 1}
  BY <1>1, <1>3 DEF OfKind
<1>5. \A other : other # k => OfKind(r, other) = OfKind(tr, other)
  BY <1>1, <1>3 DEF OfKind
<1> QED BY <1>3, <1>4, <1>5 DEF e, r, IsLonger

\* The clock never runs back, so a new entry keeps the log in order.
LEMMA LogGrows ==
  ASSUME NEW tr, NEW t, LogInv(tr, t), NEW u \in Int, t <= u,
         NEW k \in Kinds, NEW a \in Places, NEW b \in Places, NEW x \in Refs,
         NEW r, r = Logged(tr, u, k, a, b, x)
  PROVE  LogInv(r, u)
<1>0. IsLonger(r, tr, u, k, a, b, x)
  BY LoggedFacts DEF LogInv
<1>1. tr \in Seq(TraceEvents) /\ t \in Int
  BY DEF LogInv
<1>2. /\ r \in Seq(TraceEvents) /\ Len(r) = Len(tr) + 1 /\ Len(tr) \in Nat
      /\ DOMAIN tr = 1 .. Len(tr) /\ DOMAIN r = DOMAIN tr \cup {Len(tr) + 1}
      /\ \A i \in DOMAIN tr : i \in Nat /\ i <= Len(tr) /\ r[i] = tr[i]
      /\ r[Len(tr) + 1] = Entry(tr, u, k, a, b, x)
  BY <1>0 DEF IsLonger
<1>3. r[Len(tr) + 1].seq = Len(tr) + 1 /\ r[Len(tr) + 1].at = u
  BY <1>2 DEF Entry
<1>4. Len(r) >= 1 /\ r[1].kind = "SIMULATOR_CREATED"
  BY <1>2 DEF LogInv
<1>5. \A i \in DOMAIN tr : tr[i].at \in Int
  <2>1. \A i \in DOMAIN tr : tr[i] \in TraceEvents
    BY <1>1, Element
  <2> QED BY <2>1 DEF TraceEvents
<1>6. \A i \in DOMAIN r : r[i].seq = i /\ r[i].at <= u
  BY <1>1, <1>2, <1>3, <1>5 DEF LogInv
<1>7. \A i, j \in DOMAIN r : i <= j => r[i].at <= r[j].at
  BY <1>1, <1>2, <1>3, <1>5 DEF LogInv
<1> QED BY <1>2, <1>4, <1>6, <1>7 DEF LogInv

\* An entry that is no transition leaves the path as it is.
LEMMA ChainKept ==
  ASSUME NEW tr \in Seq(TraceEvents), NEW s, ChainInv(tr, s), NEW u \in Int,
         NEW k \in Kinds \ {"STATE_TRANSITION"},
         NEW a \in Places, NEW b \in Places, NEW x \in Refs,
         NEW r, r = Logged(tr, u, k, a, b, x)
  PROVE  ChainInv(r, s)
<1>0. IsLonger(r, tr, u, k, a, b, x)
  BY LoggedFacts
<1>1. /\ \A i \in DOMAIN tr : r[i] = tr[i]
      /\ OfKind(r, "STATE_TRANSITION") = OfKind(tr, "STATE_TRANSITION")
  BY <1>0 DEF IsLonger
<1>2. OfKind(tr, "STATE_TRANSITION") \subseteq DOMAIN tr
  BY DEF OfKind
<1> QED BY <1>1, <1>2 DEF ChainInv

\* A transition from the state the path ends in makes it longer.
LEMMA ChainGrows ==
  ASSUME NEW tr \in Seq(TraceEvents), NEW s \in States, ChainInv(tr, s), NEW u \in Int,
         NEW q \in AllowedTransitions[s], q \in States,
         NEW r, r = Logged(tr, u, "STATE_TRANSITION", s, q, 0)
  PROVE  ChainInv(r, q)
<1> DEFINE T == OfKind(tr, "STATE_TRANSITION")
           n == Len(tr) + 1
<1>0. IsLonger(r, tr, u, "STATE_TRANSITION", s, q, 0)
  BY LoggedFacts, References DEF Kinds, Places
<1>1. /\ Len(tr) \in Nat /\ r[n] = Entry(tr, u, "STATE_TRANSITION", s, q, 0)
      /\ \A i \in DOMAIN tr : i \in Nat /\ i <= Len(tr) /\ r[i] = tr[i]
      /\ OfKind(r, "STATE_TRANSITION") = T \cup {n}
  BY <1>0 DEF IsLonger
<1>2. r[n].from = s /\ r[n].to = q
  BY <1>1 DEF Entry
<1>3. \A i \in T : i \in Nat /\ i < n /\ r[i] = tr[i]
  BY <1>1 DEF OfKind
<1>4. n \in Nat
  BY <1>1
<1>5. /\ T = {} => s = "NEW"
      /\ T # {} => (\E i \in T : \A j \in T : j <= i) /\ (\E i \in T : \A j \in T : i <= j)
      /\ \A i \in T :
           /\ (\A j \in T : i <= j) => tr[i].from = "NEW"
           /\ tr[i].to \in AllowedTransitions[tr[i].from]
           /\ \A j \in T : Consecutive(j, i, T) => tr[i].from = tr[j].to
           /\ (\A j \in T : j <= i) => tr[i].to = s
  BY DEF ChainInv
<1> DEFINE K == OfKind(r, "STATE_TRANSITION")
<1>6. \A j : j \in K <=> (j \in T \/ j = n)
  BY <1>1
<1> HIDE DEF T, n, K
<1>7. ASSUME NEW i \in T
      PROVE  /\ (\A j \in K : i <= j) => r[i].from = "NEW"
             /\ r[i].to \in AllowedTransitions[r[i].from]
             /\ \A j \in K : Consecutive(j, i, K) => r[i].from = r[j].to
             /\ ~(\A j \in K : j <= i)
  <2>1. i \in Nat /\ i < n /\ r[i] = tr[i]
    BY <1>3
  <2>2. ~(\A j \in K : j <= i)
    <3>1. n \in K /\ ~(n <= i)
      BY <1>4, <1>6, <2>1
    <3> QED BY <3>1
  <2>3. (\A j \in K : i <= j) => r[i].from = "NEW"
    BY <1>5, <1>6, <2>1
  <2>4. r[i].to \in AllowedTransitions[r[i].from]
    BY <1>5, <1>6, <2>1
  <2>5. ASSUME NEW j \in K, Consecutive(j, i, K) PROVE r[i].from = r[j].to
    <3>1. j \in T /\ j < i
      BY <1>4, <1>6, <2>1, <2>5 DEF Consecutive
    <3>2. Consecutive(j, i, T)
      BY <1>6, <2>5 DEF Consecutive
    <3> QED BY <1>3, <1>5, <1>6, <2>1, <3>1, <3>2
  <2> QED BY <2>2, <2>3, <2>4, <2>5
<1>8. (\A j \in K : n <= j) => r[n].from = "NEW"
  BY <1>2, <1>3, <1>4, <1>5, <1>6
<1>9. ASSUME NEW j \in K, Consecutive(j, n, K) PROVE r[n].from = r[j].to
  <2>1. j \in T /\ \A k \in T : k <= j
    BY <1>3, <1>4, <1>6, <1>9 DEF Consecutive
  <2> QED BY <1>6, <1>2, <1>3, <1>5, <2>1
<1>10. \A j \in K : j <= n
  BY <1>3, <1>4, <1>6
<1>11. ASSUME NEW i \in K
       PROVE  /\ (\A j \in K : i <= j) => r[i].from = "NEW"
              /\ r[i].to \in AllowedTransitions[r[i].from]
              /\ \A j \in K : Consecutive(j, i, K) => r[i].from = r[j].to
              /\ (\A j \in K : j <= i) => r[i].to = q
  <2>1. CASE i \in T
    BY <1>6, <1>7, <2>1
  <2>2. CASE i = n
    BY <1>6, <1>2, <1>8, <1>9, <2>2
  <2> QED BY <1>6, <2>1, <2>2
<1>12. \E i \in K : \A j \in K : j <= i
  BY <1>6, <1>10
<1>13. K # {}
  BY <1>6
<1>14. \E i \in K : \A j \in K : i <= j
  <2>1. CASE T = {}
    <3>1. n \in K /\ \A j \in K : n <= j
      BY <1>4, <1>6, <2>1
    <3> QED BY <3>1
  <2>2. CASE T # {}
    <3>1. PICK i \in T : \A j \in T : i <= j
      BY <1>5, <2>2
    <3>2. i \in K /\ \A j \in K : i <= j
      BY <1>3, <1>4, <1>6, <3>1
    <3> QED BY <3>2
  <2> QED BY <2>1, <2>2
<1> QED BY <1>6, <1>11, <1>12, <1>13, <1>14 DEF ChainInv, K

\* The record of run n + 1, and any other entry.
LEMMA RunsKept ==
  ASSUME NEW tr \in Seq(TraceEvents), NEW n \in Nat, RunEvents(tr, n), NEW u \in Int,
         NEW k \in Kinds \ {"PROVIDER_RUN_RECORDED"},
         NEW a \in Places, NEW b \in Places, NEW x \in Refs,
         NEW r, r = Logged(tr, u, k, a, b, x)
  PROVE  RunEvents(r, n)
<1>0. IsLonger(r, tr, u, k, a, b, x)
  BY LoggedFacts
<1>1. /\ \A i \in DOMAIN tr : r[i] = tr[i]
      /\ OfKind(r, "PROVIDER_RUN_RECORDED") = OfKind(tr, "PROVIDER_RUN_RECORDED")
  BY <1>0 DEF IsLonger
<1>2. OfKind(tr, "PROVIDER_RUN_RECORDED") \subseteq DOMAIN tr
  BY DEF OfKind
<1> QED BY <1>1, <1>2 DEF RunEvents

\* The event of a new run is the only one with its number.
LEMMA RunsGrow ==
  ASSUME NEW tr \in Seq(TraceEvents), NEW n \in Nat, RunEvents(tr, n), NEW u \in Int,
         NEW x \in Nat, x = n + 1,
         NEW r, r = Logged(tr, u, "PROVIDER_RUN_RECORDED", "none", "none", x)
  PROVE  RunEvents(r, x)
<1> DEFINE R == OfKind(tr, "PROVIDER_RUN_RECORDED")
           m == Len(tr) + 1
<1>0. IsLonger(r, tr, u, "PROVIDER_RUN_RECORDED", "none", "none", x)
  BY LoggedFacts, References DEF Kinds, Places
<1>1. /\ r[m] = Entry(tr, u, "PROVIDER_RUN_RECORDED", "none", "none", x)
      /\ \A i \in DOMAIN tr : r[i] = tr[i]
      /\ OfKind(r, "PROVIDER_RUN_RECORDED") = R \cup {m}
  BY <1>0 DEF IsLonger
<1>2. r[m].ref = x
  BY <1>1 DEF Entry
<1>3. \A i \in R : r[i] = tr[i] /\ tr[i].ref \in 1 .. n
  BY <1>1 DEF OfKind, RunEvents
<1> HIDE DEF R, m
<1>4. \A i \in R \cup {m} : r[i].ref \in 1 .. x
  BY <1>2, <1>3
<1>5. ASSUME NEW k \in 1 .. x PROVE \E i \in R \cup {m} : r[i].ref = k
  <2>1. CASE k = x
    BY <1>2, <2>1
  <2>2. CASE k \in 1 .. n
    <3>1. PICK i \in R : tr[i].ref = k
      BY <2>2 DEF RunEvents, R
    <3> QED BY <1>3, <3>1
  <2>3. k = x \/ k \in 1 .. n
    OBVIOUS
  <2> QED BY <2>1, <2>2, <2>3
<1>6. \A i, j \in R : tr[i].ref = tr[j].ref => i = j
  BY DEF RunEvents, R
<1>7. \A i \in R : r[i].ref # x
  BY <1>3
<1>8. \A i, j \in R \cup {m} : r[i].ref = r[j].ref => i = j
  BY <1>2, <1>3, <1>6, <1>7
<1> QED BY <1>1, <1>4, <1>5, <1>8 DEF RunEvents

\* Decisions: entries of other kinds, a decision, and a run.
LEMMA DecisionsKept ==
  ASSUME NEW tr \in Seq(TraceEvents), NEW d \in BOOLEAN, DecisionEvents(tr, d), NEW u \in Int,
         NEW k \in Kinds \ {"FAILOVER_DECISION_RECORDED", "PROVIDER_RUN_RECORDED"},
         NEW a \in Places, NEW b \in Places, NEW x \in Refs,
         NEW r, r = Logged(tr, u, k, a, b, x)
  PROVE  DecisionEvents(r, d)
<1>0. IsLonger(r, tr, u, k, a, b, x)
  BY LoggedFacts
<1>1. /\ \A i \in DOMAIN tr : r[i] = tr[i]
      /\ OfKind(r, "PROVIDER_RUN_RECORDED") = OfKind(tr, "PROVIDER_RUN_RECORDED")
      /\ OfKind(r, "FAILOVER_DECISION_RECORDED") = OfKind(tr, "FAILOVER_DECISION_RECORDED")
  BY <1>0 DEF IsLonger
<1>2. OfKind(tr, "PROVIDER_RUN_RECORDED") \subseteq DOMAIN tr
  BY DEF OfKind
<1> QED BY <1>1, <1>2 DEF DecisionEvents

\* A second run is recorded after a decision.
LEMMA DecisionsBeforeRun ==
  ASSUME NEW tr \in Seq(TraceEvents), NEW d \in BOOLEAN, DecisionEvents(tr, d), NEW u \in Int,
         NEW x \in Nat, x = 2 => d,
         NEW r, r = Logged(tr, u, "PROVIDER_RUN_RECORDED", "none", "none", x)
  PROVE  DecisionEvents(r, d)
<1> DEFINE D == OfKind(tr, "FAILOVER_DECISION_RECORDED")
           R == OfKind(tr, "PROVIDER_RUN_RECORDED")
           m == Len(tr) + 1
<1>0. IsLonger(r, tr, u, "PROVIDER_RUN_RECORDED", "none", "none", x)
  BY LoggedFacts, References DEF Kinds, Places
<1>1. /\ r[m] = Entry(tr, u, "PROVIDER_RUN_RECORDED", "none", "none", x)
      /\ Len(tr) \in Nat
      /\ \A i \in DOMAIN tr : i \in Nat /\ i <= Len(tr) /\ r[i] = tr[i]
      /\ OfKind(r, "PROVIDER_RUN_RECORDED") = R \cup {m}
      /\ OfKind(r, "FAILOVER_DECISION_RECORDED") = D
  BY <1>0 DEF IsLonger
<1>2. r[m].ref = x
  BY <1>1 DEF Entry
<1>3. (\A i \in R : r[i] = tr[i]) /\ (\A j \in D : j <= m)
  BY <1>1 DEF OfKind
<1>4. d <=> D # {}
  BY DEF DecisionEvents
<1>5. ASSUME NEW i \in R \cup {m}, r[i].ref = 2 PROVE \E j \in D : j <= i
  <2>1. CASE i \in R
    BY <1>3, <1>5, <2>1 DEF DecisionEvents
  <2>2. CASE i = m
    BY <1>2, <1>3, <1>4, <1>5, <2>2
  <2> QED BY <2>1, <2>2
<1> QED BY <1>1, <1>5 DEF DecisionEvents

\* A decision.
LEMMA DecisionsGrow ==
  ASSUME NEW tr \in Seq(TraceEvents), NEW d \in BOOLEAN, DecisionEvents(tr, d), NEW u \in Int,
         NEW r, r = Logged(tr, u, "FAILOVER_DECISION_RECORDED", "none", "none", 0)
  PROVE  DecisionEvents(r, TRUE)
<1> DEFINE D == OfKind(tr, "FAILOVER_DECISION_RECORDED")
           R == OfKind(tr, "PROVIDER_RUN_RECORDED")
           m == Len(tr) + 1
<1>0. IsLonger(r, tr, u, "FAILOVER_DECISION_RECORDED", "none", "none", 0)
  BY LoggedFacts, References DEF Kinds, Places
<1>1. /\ Len(tr) \in Nat
      /\ \A i \in DOMAIN tr : i \in Nat /\ i <= Len(tr) /\ r[i] = tr[i]
      /\ OfKind(r, "PROVIDER_RUN_RECORDED") = R
      /\ OfKind(r, "FAILOVER_DECISION_RECORDED") = D \cup {m}
  BY <1>0 DEF IsLonger
<1>2. (\A i \in R : r[i] = tr[i]) /\ (\A j \in D : j \in Nat /\ j <= m)
  BY <1>1 DEF OfKind
<1>3. \E i \in D \cup {m} : \A j \in D \cup {m} : i <= j
  <2>0. m \in Nat /\ m <= m
    BY <1>1
  <2>1. CASE D = {}
    BY <2>0, <2>1
  <2>2. CASE D # {}
    <3>1. PICK i \in D : \A j \in D : i <= j
      BY <2>2 DEF DecisionEvents
    <3> QED BY <1>2, <3>1
  <2> QED BY <2>1, <2>2
<1>4. \A i \in R : r[i].ref = 2 => \E j \in D \cup {m} : j <= i
  BY <1>2 DEF DecisionEvents
<1> QED BY <1>1, <1>3, <1>4 DEF DecisionEvents

\* Findings and verifications: entries of other kinds, and the one entry of each.
LEMMA FindingsKept ==
  ASSUME NEW tr \in Seq(TraceEvents), NEW f, FindingEvents(tr, f), NEW u \in Int,
         NEW k \in Kinds \ {"FINDING_RECORDED"},
         NEW a \in Places, NEW b \in Places, NEW x \in Refs,
         NEW r, r = Logged(tr, u, k, a, b, x)
  PROVE  FindingEvents(r, f)
<1>0. IsLonger(r, tr, u, k, a, b, x)
  BY LoggedFacts
<1>1. /\ \A i \in DOMAIN tr : r[i] = tr[i]
      /\ OfKind(r, "FINDING_RECORDED") = OfKind(tr, "FINDING_RECORDED")
  BY <1>0 DEF IsLonger
<1>2. OfKind(tr, "FINDING_RECORDED") \subseteq DOMAIN tr
  BY DEF OfKind
<1> QED BY <1>1, <1>2 DEF FindingEvents

\* The first finding.
LEMMA FindingsGrow ==
  ASSUME NEW tr \in Seq(TraceEvents), FindingEvents(tr, NoRecord), NEW u \in Int,
         NEW f, f # NoRecord, NEW x \in STRING, f.finding_id = x,
         NEW r, r = Logged(tr, u, "FINDING_RECORDED", "none", "none", x)
  PROVE  FindingEvents(r, f)
<1> DEFINE m == Len(tr) + 1
<1>0. IsLonger(r, tr, u, "FINDING_RECORDED", "none", "none", x)
  BY LoggedFacts, References DEF Kinds, Places
<1>1. /\ r[m] = Entry(tr, u, "FINDING_RECORDED", "none", "none", x)
      /\ OfKind(r, "FINDING_RECORDED") = OfKind(tr, "FINDING_RECORDED") \cup {m}
  BY <1>0 DEF IsLonger
<1>2. r[m].ref = x
  BY <1>1 DEF Entry
<1>3. OfKind(r, "FINDING_RECORDED") = {m}
  BY <1>1 DEF FindingEvents
<1> HIDE DEF m
<1> QED BY <1>2, <1>3 DEF FindingEvents

\* An entry that is no verification keeps the verification and the finding before it.
LEMMA VerificationsKept ==
  ASSUME NEW tr \in Seq(TraceEvents), NEW v, VerificationEvents(tr, v), NEW u \in Int,
         NEW k \in Kinds \ {"VERIFICATION_RECORDED"},
         NEW a \in Places, NEW b \in Places, NEW x \in Refs,
         NEW r, r = Logged(tr, u, k, a, b, x)
  PROVE  VerificationEvents(r, v)
<1> DEFINE V == OfKind(tr, "VERIFICATION_RECORDED")
<1>0. IsLonger(r, tr, u, k, a, b, x)
  BY LoggedFacts
<1>1. /\ \A i \in DOMAIN tr : r[i] = tr[i]
      /\ OfKind(r, "VERIFICATION_RECORDED") = V
      /\ OfKind(tr, "FINDING_RECORDED") \subseteq OfKind(r, "FINDING_RECORDED")
  <2>1. k = "FINDING_RECORDED" \/ k # "FINDING_RECORDED"
    OBVIOUS
  <2> QED BY <1>0, <2>1 DEF IsLonger
<1>2. V \subseteq DOMAIN tr
  BY DEF OfKind
<1>3. CASE v = NoRecord
  BY <1>1, <1>3 DEF VerificationEvents
<1>4. CASE v # NoRecord
  <2>1. PICK i \in V : /\ V = {i} /\ tr[i].ref = v.finding_id
                       /\ \E j \in OfKind(tr, "FINDING_RECORDED") : j <= i
    BY <1>4 DEF VerificationEvents
  <2>2. r[i].ref = v.finding_id /\ \E j \in OfKind(r, "FINDING_RECORDED") : j <= i
    BY <1>1, <1>2, <2>1
  <2> HIDE DEF V
  <2>3. OfKind(r, "VERIFICATION_RECORDED") = {i}
    BY <1>1, <2>1
  <2> QED BY <1>4, <2>2, <2>3 DEF VerificationEvents
<1> QED BY <1>3, <1>4

\* The first verification, of a finding that was recorded.
LEMMA VerificationsGrow ==
  ASSUME NEW tr \in Seq(TraceEvents), NEW f, f # NoRecord, FindingEvents(tr, f),
         VerificationEvents(tr, NoRecord), NEW u \in Int,
         NEW v, v # NoRecord, NEW x \in STRING, v.finding_id = x,
         NEW r, r = Logged(tr, u, "VERIFICATION_RECORDED", "none", "none", x)
  PROVE  VerificationEvents(r, v)
<1> DEFINE m == Len(tr) + 1
<1>0. IsLonger(r, tr, u, "VERIFICATION_RECORDED", "none", "none", x)
  BY LoggedFacts, References DEF Kinds, Places
<1>1. /\ r[m] = Entry(tr, u, "VERIFICATION_RECORDED", "none", "none", x)
      /\ Len(tr) \in Nat /\ \A i \in DOMAIN tr : i \in Nat /\ i <= Len(tr)
      /\ OfKind(r, "VERIFICATION_RECORDED") = OfKind(tr, "VERIFICATION_RECORDED") \cup {m}
      /\ OfKind(r, "FINDING_RECORDED") = OfKind(tr, "FINDING_RECORDED")
  BY <1>0 DEF IsLonger
<1>2. r[m].ref = x
  BY <1>1 DEF Entry
<1>3. OfKind(r, "VERIFICATION_RECORDED") = {m}
  BY <1>1 DEF VerificationEvents
<1>4. PICK j \in OfKind(tr, "FINDING_RECORDED") : TRUE
  BY DEF FindingEvents
<1>5. j \in OfKind(r, "FINDING_RECORDED") /\ j <= m
  BY <1>1, <1>4 DEF OfKind
<1> HIDE DEF m
<1> QED BY <1>2, <1>3, <1>5 DEF VerificationEvents
-----------------------------------------------------------------------------
(* The six kinds of entries and what they do to the whole trace.            *)

\* The kinds nothing else depends on.
Plain == {"CLOCK_ADVANCED", "EFFECTIVE_SCOPE_UPDATED", "FINDING_STATUS_UPDATED"}

\* The parameters of TraceInv have their types.
LEMMA TraceTypes ==
  ASSUME NEW tr, NEW t, NEW s, NEW n, NEW d, NEW f, NEW v, TraceInv(tr, t, s, n, d, f, v)
  PROVE  tr \in Seq(TraceEvents) /\ t \in Int /\ s \in States
BY DEF TraceInv, LogInv, ChainInv

\* A tick of the clock, a note of a new scope or of a new status.
LEMMA TracePlain ==
  ASSUME NEW tr, NEW t, NEW s, NEW n \in Nat, NEW d \in BOOLEAN, NEW f, NEW v,
         TraceInv(tr, t, s, n, d, f, v), NEW u \in Int, t <= u, NEW k \in Plain
  PROVE  TraceInv(Logged(tr, u, k, "none", "none", 0), u, s, n, d, f, v)
<1> DEFINE r == Logged(tr, u, k, "none", "none", 0)
<1>1. tr \in Seq(TraceEvents) /\ "none" \in Places /\ 0 \in Refs
  BY TraceTypes, References DEF Places
<1>2. /\ k \in Kinds /\ k # "STATE_TRANSITION" /\ k # "PROVIDER_RUN_RECORDED"
      /\ k # "FAILOVER_DECISION_RECORDED" /\ k # "FINDING_RECORDED"
      /\ k # "VERIFICATION_RECORDED"
  BY DEF Plain, Kinds
<1>3. /\ LogInv(tr, t) /\ ChainInv(tr, s) /\ RunEvents(tr, n) /\ DecisionEvents(tr, d)
      /\ FindingEvents(tr, f) /\ VerificationEvents(tr, v)
  BY DEF TraceInv
<1> HIDE DEF r
<1>4. r = Logged(tr, u, k, "none", "none", 0)
  BY DEF r
<1>5. LogInv(r, u)
  BY <1>1, <1>2, <1>3, <1>4, LogGrows
<1>6. ChainInv(r, s)
  BY <1>1, <1>2, <1>3, <1>4, ChainKept
<1>7. RunEvents(r, n)
  BY <1>1, <1>2, <1>3, <1>4, RunsKept
<1>8. DecisionEvents(r, d)
  BY <1>1, <1>2, <1>3, <1>4, DecisionsKept
<1>9. FindingEvents(r, f)
  BY <1>1, <1>2, <1>3, <1>4, FindingsKept
<1>10. VerificationEvents(r, v)
  BY <1>1, <1>2, <1>3, <1>4, VerificationsKept
<1> QED BY <1>5, <1>6, <1>7, <1>8, <1>9, <1>10 DEF TraceInv, r

\* A transition that is allowed.
LEMMA TraceMove ==
  ASSUME NEW tr, NEW t, NEW s, NEW n \in Nat, NEW d \in BOOLEAN, NEW f, NEW v,
         TraceInv(tr, t, s, n, d, f, v),
         NEW q \in AllowedTransitions[s], q \in States
  PROVE  TraceInv(Logged(tr, t, "STATE_TRANSITION", s, q, 0), t, q, n, d, f, v)
<1> DEFINE r == Logged(tr, t, "STATE_TRANSITION", s, q, 0)
<1>1. tr \in Seq(TraceEvents) /\ t \in Int /\ t <= t /\ "none" \in Places /\ s \in States
  BY TraceTypes DEF Places
<1>3. /\ LogInv(tr, t) /\ ChainInv(tr, s) /\ RunEvents(tr, n) /\ DecisionEvents(tr, d)
      /\ FindingEvents(tr, f) /\ VerificationEvents(tr, v)
  BY DEF TraceInv
<1>2. /\ "STATE_TRANSITION" \in Kinds /\ 0 \in Refs
      /\ s \in Places /\ q \in Places
  BY <1>1, References DEF Kinds, Places
<1> HIDE DEF r
<1>4. r = Logged(tr, t, "STATE_TRANSITION", s, q, 0)
  BY DEF r
<1>5. LogInv(r, t)
  BY <1>1, <1>2, <1>3, <1>4, LogGrows
<1>6. ChainInv(r, q)
  BY <1>1, <1>2, <1>3, <1>4, ChainGrows
<1>7. RunEvents(r, n)
  BY <1>1, <1>2, <1>3, <1>4, RunsKept
<1>8. DecisionEvents(r, d)
  BY <1>1, <1>2, <1>3, <1>4, DecisionsKept
<1>9. FindingEvents(r, f)
  BY <1>1, <1>2, <1>3, <1>4, FindingsKept
<1>10. VerificationEvents(r, v)
  BY <1>1, <1>2, <1>3, <1>4, VerificationsKept
<1> QED BY <1>5, <1>6, <1>7, <1>8, <1>9, <1>10 DEF TraceInv, r

\* The record of the next run.
LEMMA TraceRun ==
  ASSUME NEW tr, NEW t, NEW s, NEW n \in Nat, NEW d \in BOOLEAN, NEW f, NEW v,
         TraceInv(tr, t, s, n, d, f, v),
         NEW x \in Nat, x = n + 1, x = 2 => d
  PROVE  TraceInv(Logged(tr, t, "PROVIDER_RUN_RECORDED", "none", "none", x), t, s, x, d, f, v)
<1> DEFINE r == Logged(tr, t, "PROVIDER_RUN_RECORDED", "none", "none", x)
<1>1. tr \in Seq(TraceEvents) /\ t \in Int /\ t <= t /\ "none" \in Places /\ s \in States
  BY TraceTypes DEF Places
<1>3. /\ LogInv(tr, t) /\ ChainInv(tr, s) /\ RunEvents(tr, n) /\ DecisionEvents(tr, d)
      /\ FindingEvents(tr, f) /\ VerificationEvents(tr, v)
  BY DEF TraceInv
<1>2. /\ "PROVIDER_RUN_RECORDED" \in Kinds /\ x \in Refs
      /\ "none" \in Places /\ "none" \in Places
  BY References DEF Kinds, Places
<1> HIDE DEF r
<1>4. r = Logged(tr, t, "PROVIDER_RUN_RECORDED", "none", "none", x)
  BY DEF r
<1>5. LogInv(r, t)
  BY <1>1, <1>2, <1>3, <1>4, LogGrows
<1>6. ChainInv(r, s)
  BY <1>1, <1>2, <1>3, <1>4, ChainKept
<1>7. RunEvents(r, x)
  BY <1>1, <1>2, <1>3, <1>4, RunsGrow
<1>8. DecisionEvents(r, d)
  BY <1>1, <1>2, <1>3, <1>4, DecisionsBeforeRun
<1>9. FindingEvents(r, f)
  BY <1>1, <1>2, <1>3, <1>4, FindingsKept
<1>10. VerificationEvents(r, v)
  BY <1>1, <1>2, <1>3, <1>4, VerificationsKept
<1> QED BY <1>5, <1>6, <1>7, <1>8, <1>9, <1>10 DEF TraceInv, r

\* A failover decision.
LEMMA TraceDecision ==
  ASSUME NEW tr, NEW t, NEW s, NEW n \in Nat, NEW d \in BOOLEAN, NEW f, NEW v,
         TraceInv(tr, t, s, n, d, f, v)
  PROVE  TraceInv(Logged(tr, t, "FAILOVER_DECISION_RECORDED", "none", "none", 0),
                  t, s, n, TRUE, f, v)
<1> DEFINE r == Logged(tr, t, "FAILOVER_DECISION_RECORDED", "none", "none", 0)
<1>1. tr \in Seq(TraceEvents) /\ t \in Int /\ t <= t /\ "none" \in Places /\ s \in States
  BY TraceTypes DEF Places
<1>3. /\ LogInv(tr, t) /\ ChainInv(tr, s) /\ RunEvents(tr, n) /\ DecisionEvents(tr, d)
      /\ FindingEvents(tr, f) /\ VerificationEvents(tr, v)
  BY DEF TraceInv
<1>2. /\ "FAILOVER_DECISION_RECORDED" \in Kinds /\ 0 \in Refs
      /\ "none" \in Places /\ "none" \in Places
  BY References DEF Kinds, Places
<1> HIDE DEF r
<1>4. r = Logged(tr, t, "FAILOVER_DECISION_RECORDED", "none", "none", 0)
  BY DEF r
<1>5. LogInv(r, t)
  BY <1>1, <1>2, <1>3, <1>4, LogGrows
<1>6. ChainInv(r, s)
  BY <1>1, <1>2, <1>3, <1>4, ChainKept
<1>7. RunEvents(r, n)
  BY <1>1, <1>2, <1>3, <1>4, RunsKept
<1>8. DecisionEvents(r, TRUE)
  BY <1>1, <1>2, <1>3, <1>4, DecisionsGrow
<1>9. FindingEvents(r, f)
  BY <1>1, <1>2, <1>3, <1>4, FindingsKept
<1>10. VerificationEvents(r, v)
  BY <1>1, <1>2, <1>3, <1>4, VerificationsKept
<1> QED BY <1>5, <1>6, <1>7, <1>8, <1>9, <1>10 DEF TraceInv, r

\* The first finding.
LEMMA TraceFinding ==
  ASSUME NEW tr, NEW t, NEW s, NEW n \in Nat, NEW d \in BOOLEAN, NEW f, NEW v,
         TraceInv(tr, t, s, n, d, f, v),
         f = NoRecord, NEW g, g # NoRecord, NEW x \in STRING, g.finding_id = x
  PROVE  TraceInv(Logged(tr, t, "FINDING_RECORDED", "none", "none", x), t, s, n, d, g, v)
<1> DEFINE r == Logged(tr, t, "FINDING_RECORDED", "none", "none", x)
<1>1. tr \in Seq(TraceEvents) /\ t \in Int /\ t <= t /\ "none" \in Places /\ s \in States
  BY TraceTypes DEF Places
<1>3. /\ LogInv(tr, t) /\ ChainInv(tr, s) /\ RunEvents(tr, n) /\ DecisionEvents(tr, d)
      /\ FindingEvents(tr, f) /\ VerificationEvents(tr, v)
  BY DEF TraceInv
<1>2. /\ "FINDING_RECORDED" \in Kinds /\ x \in Refs
      /\ "none" \in Places /\ "none" \in Places
  BY References DEF Kinds, Places
<1> HIDE DEF r
<1>4. r = Logged(tr, t, "FINDING_RECORDED", "none", "none", x)
  BY DEF r
<1>5. LogInv(r, t)
  BY <1>1, <1>2, <1>3, <1>4, LogGrows
<1>6. ChainInv(r, s)
  BY <1>1, <1>2, <1>3, <1>4, ChainKept
<1>7. RunEvents(r, n)
  BY <1>1, <1>2, <1>3, <1>4, RunsKept
<1>8. DecisionEvents(r, d)
  BY <1>1, <1>2, <1>3, <1>4, DecisionsKept
<1>9. FindingEvents(r, g)
  BY <1>1, <1>2, <1>3, <1>4, FindingsGrow
<1>10. VerificationEvents(r, v)
  BY <1>1, <1>2, <1>3, <1>4, VerificationsKept
<1> QED BY <1>5, <1>6, <1>7, <1>8, <1>9, <1>10 DEF TraceInv, r

\* The verification of the finding.
LEMMA TraceVerification ==
  ASSUME NEW tr, NEW t, NEW s, NEW n \in Nat, NEW d \in BOOLEAN, NEW f, NEW v,
         TraceInv(tr, t, s, n, d, f, v),
         v = NoRecord, f # NoRecord, NEW w, w # NoRecord, NEW x \in STRING, w.finding_id = x
  PROVE  TraceInv(Logged(tr, t, "VERIFICATION_RECORDED", "none", "none", x), t, s, n, d, f, w)
<1> DEFINE r == Logged(tr, t, "VERIFICATION_RECORDED", "none", "none", x)
<1>1. tr \in Seq(TraceEvents) /\ t \in Int /\ t <= t /\ "none" \in Places /\ s \in States
  BY TraceTypes DEF Places
<1>3. /\ LogInv(tr, t) /\ ChainInv(tr, s) /\ RunEvents(tr, n) /\ DecisionEvents(tr, d)
      /\ FindingEvents(tr, f) /\ VerificationEvents(tr, v)
  BY DEF TraceInv
<1>2. /\ "VERIFICATION_RECORDED" \in Kinds /\ x \in Refs
      /\ "none" \in Places /\ "none" \in Places
  BY References DEF Kinds, Places
<1> HIDE DEF r
<1>4. r = Logged(tr, t, "VERIFICATION_RECORDED", "none", "none", x)
  BY DEF r
<1>5. LogInv(r, t)
  BY <1>1, <1>2, <1>3, <1>4, LogGrows
<1>6. ChainInv(r, s)
  BY <1>1, <1>2, <1>3, <1>4, ChainKept
<1>7. RunEvents(r, n)
  BY <1>1, <1>2, <1>3, <1>4, RunsKept
<1>8. DecisionEvents(r, d)
  BY <1>1, <1>2, <1>3, <1>4, DecisionsKept
<1>9. FindingEvents(r, f)
  BY <1>1, <1>2, <1>3, <1>4, FindingsKept
<1>10. VerificationEvents(r, w)
  BY <1>1, <1>2, <1>3, <1>4, VerificationsGrow
<1> QED BY <1>5, <1>6, <1>7, <1>8, <1>9, <1>10 DEF TraceInv, r

\* The log names the finding, whatever its status.
LEMMA TraceStatus ==
  ASSUME NEW tr, NEW t, NEW s, NEW n, NEW d, NEW f, NEW v, TraceInv(tr, t, s, n, d, f, v),
         f # NoRecord, NEW g, g # NoRecord, g.finding_id = f.finding_id
  PROVE  TraceInv(tr, t, s, n, d, g, v)
BY DEF TraceInv, FindingEvents

-----------------------------------------------------------------------------
(* What one call records, entry by entry. *)

\* An event before it is recorded.
SimEvents == [kind : Kinds, from : Places, to : Places, ref : Refs]

\* The entry of an event.
At(tr, t, e) == Logged(tr, t, e.kind, e.from, e.to, e.ref)

\* The entry for an event is one of the trace's.
LEMMA EventEntry ==
  ASSUME NEW tr \in Seq(TraceEvents), NEW t \in Int, NEW e \in SimEvents
  PROVE  Entry(tr, t, e.kind, e.from, e.to, e.ref) \in TraceEvents
BY DEF Entry, TraceEvents, SimEvents

\* The log stays one.
LEMMA AtType ==
  ASSUME NEW tr \in Seq(TraceEvents), NEW t \in Int, NEW e \in SimEvents
  PROVE  At(tr, t, e) \in Seq(TraceEvents)
<1> DEFINE x == Entry(tr, t, e.kind, e.from, e.to, e.ref)
<1>1. x \in TraceEvents
  BY EventEntry
<1> HIDE DEF x
<1>2. Append(tr, x) \in Seq(TraceEvents)
  BY <1>1
<1> QED BY <1>2 DEF At, Logged, x

\* The log with the entries of a call that records es.
IsRecord(tr, es, t) ==
    tr \in Seq(TraceEvents) /\ es \in Seq(SimEvents) /\ tr = trace \o Recorded(es, t)

\* One more event is one more entry.
LEMMA RecordedMore ==
  ASSUME trace \in Seq(TraceEvents), NEW t \in Int,
         NEW es, NEW e \in SimEvents, NEW tr, IsRecord(tr, es, t)
  PROVE  IsRecord(At(tr, t, e), Append(es, e), t)
<1> DEFINE more == Append(es, e)
<1>0. tr \in Seq(TraceEvents) /\ es \in Seq(SimEvents) /\ tr = trace \o Recorded(es, t)
  BY DEF IsRecord
<1> DEFINE R == Recorded(es, t)
           Q == Recorded(more, t)
           n == Len(es)
           L == Len(trace)
<1>1. n \in Nat /\ L \in Nat /\ Len(more) = n + 1
  BY <1>0
<1>2. /\ \A i \in 1 .. n : more[i] = es[i]
      /\ more[n + 1] = e
  BY <1>0
<1>3. ASSUME NEW m \in Nat, NEW ev \in Seq(SimEvents), Len(ev) = m
      PROVE  /\ Recorded(ev, t) \in Seq(TraceEvents) /\ Len(Recorded(ev, t)) = m
             /\ \A i \in 1 .. m : Recorded(ev, t)[i] =
                   [seq |-> L + i, at |-> t, kind |-> ev[i].kind,
                    from |-> ev[i].from, to |-> ev[i].to, ref |-> ev[i].ref]
  <2>1. \A i \in 1 .. m : ev[i] \in SimEvents
    BY <1>3
  <2>2. \A i \in 1 .. m : L + i \in Nat
    BY <1>1
  <2>3. \A i \in 1 .. m : [seq |-> L + i, at |-> t, kind |-> ev[i].kind,
                    from |-> ev[i].from, to |-> ev[i].to, ref |-> ev[i].ref] \in TraceEvents
    BY <2>1, <2>2 DEF SimEvents, TraceEvents
  <2>4. Recorded(ev, t) = [i \in 1 .. m |-> [seq |-> L + i, at |-> t, kind |-> ev[i].kind,
                    from |-> ev[i].from, to |-> ev[i].to, ref |-> ev[i].ref] ]
    BY <1>3 DEF Recorded
  <2>5. Recorded(ev, t) \in [1 .. m -> TraceEvents]
    BY <2>3, <2>4
  <2>6. Recorded(ev, t) \in Seq(TraceEvents)
    BY <2>5, SeqDef
  <2>7. Len(Recorded(ev, t)) \in Nat /\ 1 .. Len(Recorded(ev, t)) = 1 .. m
    BY <2>5, <2>6, LenProperties
  <2>8. Len(Recorded(ev, t)) = m
    BY <2>7
  <2> QED BY <2>4, <2>6, <2>8
<1>4. more \in Seq(SimEvents)
  BY <1>0
<1>5. /\ R \in Seq(TraceEvents) /\ Len(R) = n
      /\ \A i \in 1 .. n : R[i] =
           [seq |-> L + i, at |-> t, kind |-> es[i].kind,
            from |-> es[i].from, to |-> es[i].to, ref |-> es[i].ref]
  BY <1>0, <1>1, <1>3
<1>6. /\ Q \in Seq(TraceEvents) /\ Len(Q) = n + 1
      /\ \A i \in 1 .. n + 1 : Q[i] =
           [seq |-> L + i, at |-> t, kind |-> more[i].kind,
            from |-> more[i].from, to |-> more[i].to, ref |-> more[i].ref]
  <2>1. n + 1 \in Nat /\ Len(more) = n + 1
    BY <1>1
  <2> QED BY <1>3, <1>4, <2>1
<1> DEFINE x == Entry(tr, t, e.kind, e.from, e.to, e.ref)
<1>7. /\ \A i \in 1 .. n : Q[i] = R[i]
      /\ Q[n + 1] = [seq |-> L + (n + 1), at |-> t, kind |-> e.kind,
                     from |-> e.from, to |-> e.to, ref |-> e.ref]
  BY <1>1, <1>2, <1>5, <1>6
<1>8. tr = trace \o R /\ tr \in Seq(TraceEvents)
  BY <1>0
<1> HIDE DEF R, Q, L, n, more
<1>9. Len(tr) = L + n
  <2>1. Len(trace \o R) = Len(trace) + Len(R)
    BY <1>5, ConcatProperties
  <2> QED BY <1>5, <1>8, <2>1 DEF L
<1>10. Q[n + 1] = x
  <2>1. L + (n + 1) = Len(tr) + 1
    BY <1>1, <1>9
  <2> QED BY <1>7, <2>1 DEF Entry
<1>11. x \in TraceEvents
  BY <1>8, EventEntry
<1> HIDE DEF x
<1>12. /\ trace \o Q \in Seq(TraceEvents) /\ Len(trace \o Q) = L + (n + 1)
       /\ \A i \in 1 .. L + (n + 1) :
            (trace \o Q)[i] = IF i <= L THEN trace[i] ELSE Q[i - L]
  <2>1. /\ trace \o Q \in Seq(TraceEvents) /\ Len(trace \o Q) = Len(trace) + Len(Q)
        /\ \A i \in 1 .. Len(trace) + Len(Q) :
            (trace \o Q)[i] = IF i <= Len(trace) THEN trace[i] ELSE Q[i - Len(trace)]
    <3>1. Q \in Seq(TraceEvents)
      BY <1>6
    <3> QED BY <3>1, ConcatProperties, Zenon
  <2> QED BY <1>6, <2>1 DEF L
<1>13. /\ Append(tr, x) \in Seq(TraceEvents) /\ Len(Append(tr, x)) = L + (n + 1)
       /\ \A i \in 1 .. L + n : Append(tr, x)[i] = tr[i]
       /\ Append(tr, x)[L + (n + 1)] = x
  <2>1. Len(tr) \in Nat /\ Len(tr) + 1 = L + (n + 1)
    BY <1>1, <1>8, <1>9
  <2>2. /\ Append(tr, x) \in Seq(TraceEvents) /\ Len(Append(tr, x)) = Len(tr) + 1
        /\ \A i \in 1 .. Len(tr) : Append(tr, x)[i] = tr[i]
        /\ Append(tr, x)[Len(tr) + 1] = x
    BY <1>8, <1>11, AppendProperties
  <2> QED BY <1>9, <2>1, <2>2
<1>14. \A i \in 1 .. L + n : tr[i] = IF i <= L THEN trace[i] ELSE R[i - L]
  BY <1>5, <1>8, ConcatProperties DEF L
<1>15. ASSUME NEW i \in 1 .. L + (n + 1)
       PROVE  (trace \o Q)[i] = Append(tr, x)[i]
  <2>1. CASE i = L + (n + 1)
    <3>1. ~(i <= L) /\ i - L = n + 1
      BY <1>1, <2>1
    <3> QED BY <1>10, <1>12, <1>13, <2>1, <3>1
  <2>2. CASE i \in 1 .. L
    <3>1. i <= L /\ i \in 1 .. L + n
      BY <1>1, <2>2
    <3> QED BY <1>12, <1>13, <1>14, <3>1
  <2>3. CASE i \in L + 1 .. L + n
    <3>1. ~(i <= L) /\ i \in 1 .. L + n /\ i - L \in 1 .. n
      BY <1>1, <2>3
    <3> QED BY <1>7, <1>12, <1>13, <1>14, <3>1
  <2>4. i = L + (n + 1) \/ i \in 1 .. L \/ i \in L + 1 .. L + n
    BY <1>1
  <2> QED BY <2>1, <2>2, <2>3, <2>4
<1>16. trace \o Q = Append(tr, x)
  BY <1>12, <1>13, <1>15, SeqEqual
<1>17. Append(tr, x) \in Seq(TraceEvents)
  BY <1>13
<1>18. At(tr, t, e) = Append(tr, x)
  BY DEF At, Logged, x
<1>19. At(tr, t, e) \in Seq(TraceEvents) /\ At(tr, t, e) = trace \o Recorded(more, t)
  BY <1>16, <1>17, <1>18 DEF Q
<1> QED BY <1>4, <1>19 DEF IsRecord, more

\* No event, no entry.
LEMMA RecordedNone ==
  ASSUME trace \in Seq(TraceEvents), NEW t \in Int
  PROVE  IsRecord(trace, <<>>, t)
<1>1. Len(<<>>) = 0 /\ 1 .. 0 = {} /\ <<>> \in Seq(SimEvents)
  BY EmptySeq
<1>2. Recorded(<<>>, t) = <<>>
  BY <1>1 DEF Recorded
<1> QED BY <1>1, <1>2, ConcatEmptySeq DEF IsRecord

\* One to four events.
LEMMA RecordedFew ==
  ASSUME trace \in Seq(TraceEvents), NEW t \in Int, NEW e1 \in SimEvents
  PROVE  /\ IsRecord(At(trace, t, e1), <<e1>>, t)
         /\ \A e2 \in SimEvents :
              /\ IsRecord(At(At(trace, t, e1), t, e2), <<e1, e2>>, t)
              /\ \A e3 \in SimEvents :
                   /\ IsRecord(At(At(At(trace, t, e1), t, e2), t, e3), <<e1, e2, e3>>, t)
                   /\ \A e4 \in SimEvents :
                        IsRecord(At(At(At(At(trace, t, e1), t, e2), t, e3), t, e4),
                                 <<e1, e2, e3, e4>>, t)
<1>1. IsRecord(At(trace, t, e1), <<e1>>, t)
  <2>1. IsRecord(At(trace, t, e1), Append(<<>>, e1), t)
    BY RecordedNone, RecordedMore
  <2>2. Append(<<>>, e1) = <<e1>>
    OBVIOUS
  <2> QED BY <2>1, <2>2
<1>2. ASSUME NEW e2 \in SimEvents
      PROVE  IsRecord(At(At(trace, t, e1), t, e2), <<e1, e2>>, t)
  <2>1. IsRecord(At(At(trace, t, e1), t, e2), Append(<<e1>>, e2), t)
    BY <1>1, RecordedMore
  <2>2. <<e1>> \in Seq(SimEvents) /\ <<e1, e2>> = Append(<<e1>>, e2)
    OBVIOUS
  <2> QED BY <2>1, <2>2
<1>3. ASSUME NEW e2 \in SimEvents, NEW e3 \in SimEvents
      PROVE  IsRecord(At(At(At(trace, t, e1), t, e2), t, e3), <<e1, e2, e3>>, t)
  <2>1. IsRecord(At(At(At(trace, t, e1), t, e2), t, e3), Append(<<e1, e2>>, e3), t)
    BY <1>2, RecordedMore
  <2>2. <<e1, e2>> \in Seq(SimEvents) /\ <<e1, e2, e3>> = Append(<<e1, e2>>, e3)
    OBVIOUS
  <2> QED BY <2>1, <2>2
<1>4. ASSUME NEW e2 \in SimEvents, NEW e3 \in SimEvents, NEW e4 \in SimEvents
      PROVE  IsRecord(At(At(At(At(trace, t, e1), t, e2), t, e3), t, e4),
                      <<e1, e2, e3, e4>>, t)
  <2>1. IsRecord(At(At(At(At(trace, t, e1), t, e2), t, e3), t, e4),
                 Append(<<e1, e2, e3>>, e4), t)
    BY <1>3, RecordedMore
  <2>2. <<e1, e2, e3>> \in Seq(SimEvents) /\ <<e1, e2, e3, e4>> = Append(<<e1, e2, e3>>, e4)
    OBVIOUS
  <2> QED BY <2>1, <2>2
<1> QED BY <1>1, <1>2, <1>3, <1>4

\* The event of a transition, and of anything else that is noted.
Step(a, b) == Event("STATE_TRANSITION", a, b, 0)
Noted(k, x) == Event(k, "none", "none", x)

\* The events of a path of two states ...
LEMMA PathTwo ==
  ASSUME NEW a, NEW b
  PROVE  Path(<<a, b>>) = <<Step(a, b)>>
<1>1. Len(<<a, b>>) - 1 = 1 /\ 1 .. 1 = {1} /\ <<a, b>>[1] = a /\ <<a, b>>[1 + 1] = b
  OBVIOUS
<1>2. Path(<<a, b>>) = [i \in 1 .. 1 |-> Event("STATE_TRANSITION", <<a, b>>[i], <<a, b>>[i + 1], 0)]
  BY <1>1 DEF Path
<1> HIDE DEF Event, Step
<1>3. \A i \in 1 .. 1 : Event("STATE_TRANSITION", <<a, b>>[i], <<a, b>>[i + 1], 0) = Step(a, b)
  BY <1>1 DEF Step
<1>4. Path(<<a, b>>) = [i \in 1 .. 1 |-> Step(a, b)]
  BY <1>2, <1>3
<1> QED BY <1>4

\* ... and of three.
LEMMA PathThree ==
  ASSUME NEW a, NEW b, NEW c
  PROVE  Path(<<a, b, c>>) = <<Step(a, b), Step(b, c)>>
<1> DEFINE p == <<a, b, c>>
<1>1. Len(p) - 1 = 2 /\ p[1] = a /\ p[2] = b /\ p[3] = c
  OBVIOUS
<1> HIDE DEF p
<1>2. Path(p) = [i \in 1 .. 2 |-> Event("STATE_TRANSITION", p[i], p[i + 1], 0)]
  BY <1>1 DEF Path
<1>3. Path(p)[1] = Step(a, b) /\ Path(p)[2] = Step(b, c) /\ DOMAIN Path(p) = 1 .. 2
  BY <1>1, <1>2 DEF Step
<1>4. Path(p) = [i \in 1 .. 2 |-> Path(p)[i]]
  BY <1>2
<1> DEFINE q == <<Step(a, b), Step(b, c)>>
<1>5. q = [i \in 1 .. 2 |-> q[i]] /\ q[1] = Step(a, b) /\ q[2] = Step(b, c)
  OBVIOUS
<1>6. \A i \in 1 .. 2 : q[i] = Path(p)[i]
  BY <1>3, <1>5
<1> HIDE DEF q
<1>7. q = Path(p)
  BY <1>4, <1>5, <1>6
<1> QED BY <1>7 DEF p, q

\* Steps and notes are events, and what they add to the log.
LEMMA StepEvent ==
  ASSUME NEW a \in States, NEW b \in States
  PROVE  /\ Step(a, b) \in SimEvents
         /\ \A tr, t : At(tr, t, Step(a, b)) = Logged(tr, t, "STATE_TRANSITION", a, b, 0)
BY References DEF Step, Event, SimEvents, Kinds, Places, At

\* What is noted is an event.
LEMMA NoteEvent ==
  ASSUME NEW k \in Kinds, NEW x \in Refs
  PROVE  /\ Note(k, x) = <<Noted(k, x)>> /\ Noted(k, x) \in SimEvents
         /\ \A tr, t : At(tr, t, Noted(k, x)) = Logged(tr, t, k, "none", "none", x)
BY DEF Noted, Note, Event, SimEvents, Places, At

\* The log with a transition, and with another entry.
Moved(tr, t, a, b) == Logged(tr, t, "STATE_TRANSITION", a, b, 0)
Said(tr, t, k, x)  == Logged(tr, t, k, "none", "none", x)

\* Lists of events put together.
LEMMA ListTwo ==
  ASSUME NEW S, NEW e1 \in S, NEW e2 \in S
  PROVE  <<e1>> \o <<e2>> = <<e1, e2>> /\ <<e1, e2>> \o <<>> = <<e1, e2>>
<1>1. <<e1>> \in Seq(S) /\ <<e1, e2>> = Append(<<e1>>, e2)
  OBVIOUS
<1>2. <<e1, e2>> \in Seq(S)
  OBVIOUS
<1>3. <<e1>> \o <<e2>> = <<e1, e2>>
  BY <1>1, AppendIsConcat
<1>4. <<e1, e2>> \o <<>> = <<e1, e2>>
  BY <1>2, ConcatEmptySeq
<1> QED BY <1>3, <1>4

\* A list of three ...
LEMMA ListThree ==
  ASSUME NEW S, NEW e1 \in S, NEW e2 \in S, NEW e3 \in S
  PROVE  /\ <<e1, e2>> \o <<e3>> = <<e1, e2, e3>>
         /\ <<e1>> \o <<e2, e3>> = <<e1, e2, e3>>
<1>1. <<e1, e2>> \in Seq(S) /\ <<e1, e2, e3>> = Append(<<e1, e2>>, e3)
  OBVIOUS
<1>2. <<e1, e2>> \o <<e3>> = <<e1, e2, e3>>
  BY <1>1, AppendIsConcat
<1>3. <<e1>> \in Seq(S) /\ <<e2>> \in Seq(S) /\ <<e3>> \in Seq(S)
  OBVIOUS
<1>4. (<<e1>> \o <<e2>>) \o <<e3>> = <<e1>> \o (<<e2>> \o <<e3>>)
  BY <1>3, ConcatAssociative
<1>5. <<e1>> \o <<e2>> = <<e1, e2>>
  BY ListTwo
<1>6. <<e2>> \o <<e3>> = <<e2, e3>>
  BY ListTwo
<1> QED BY <1>2, <1>4, <1>5, <1>6

\* ... and one of four, put together in two ways.
LEMMA ListFour ==
  ASSUME NEW e1 \in SimEvents, NEW e2 \in SimEvents, NEW e3 \in SimEvents, NEW e4 \in SimEvents
  PROVE  /\ <<e1, e2, e3>> \o <<e4>> = <<e1, e2, e3, e4>>
         /\ <<e1, e2>> \o <<e3, e4>> = <<e1, e2, e3, e4>>
<1>1. <<e1, e2, e3>> \in Seq(SimEvents) /\ <<e1, e2, e3, e4>> = Append(<<e1, e2, e3>>, e4)
  OBVIOUS
<1>2. <<e1, e2, e3>> \o <<e4>> = <<e1, e2, e3, e4>>
  BY <1>1, AppendIsConcat
<1>3. <<e1, e2>> \in Seq(SimEvents) /\ <<e3>> \in Seq(SimEvents) /\ <<e4>> \in Seq(SimEvents)
  OBVIOUS
<1>4. (<<e1, e2>> \o <<e3>>) \o <<e4>> = <<e1, e2>> \o (<<e3>> \o <<e4>>)
  BY <1>3, ConcatAssociative
<1>5. <<e1, e2>> \o <<e3>> = <<e1, e2, e3>>
  BY ListThree
<1>6. <<e3>> \o <<e4>> = <<e3, e4>>
  BY ListTwo
<1> QED BY <1>2, <1>4, <1>5, <1>6

\* A call that only moves, or only notes something.
LEMMA TracedMove ==
  ASSUME trace \in Seq(TraceEvents), NEW t \in Int, NEW a \in States, NEW b \in States
  PROVE  trace \o Recorded(Path(<<a, b>>), t) = Moved(trace, t, a, b)
<1>1. IsRecord(At(trace, t, Step(a, b)), <<Step(a, b)>>, t)
  BY StepEvent, RecordedFew
<1> QED BY <1>1, PathTwo, StepEvent DEF IsRecord, Moved

\* One thing noted.
LEMMA TracedNote ==
  ASSUME trace \in Seq(TraceEvents), NEW t \in Int, NEW k \in Kinds, NEW x \in Refs
  PROVE  trace \o Recorded(Note(k, x), t) = Said(trace, t, k, x)
<1>1. IsRecord(At(trace, t, Noted(k, x)), <<Noted(k, x)>>, t)
  BY NoteEvent, RecordedFew
<1> QED BY <1>1, NoteEvent DEF IsRecord, Said

\* The log of a run: up to its start, and up to its record.
Begun(tr, t, s, q) == Moved(tr, t, s, q)
Ran(tr, t, s, q, x) == Said(Begun(tr, t, s, q), t, "PROVIDER_RUN_RECORDED", x)

\* What a call that runs a provider records first.
RunList(s, q, x) == Path(<<s, q>>) \o Note("PROVIDER_RUN_RECORDED", x)

\* The trace after a run and up to two transitions, after a run with a finding ...
RunIsTraced(t, a, b, x, c, d) ==
    /\ trace \o Recorded(RunList(a, b, x), t) = Ran(trace, t, a, b, x)
    /\ trace \o Recorded(RunList(a, b, x) \o Path(<<b, c>>), t)
         = Moved(Ran(trace, t, a, b, x), t, b, c)
    /\ trace \o Recorded(RunList(a, b, x) \o Path(<<b, c, d>>), t)
         = Moved(Moved(Ran(trace, t, a, b, x), t, b, c), t, c, d)

FindingIsTraced(t, a, b, x, l, y, c) ==
    trace \o Recorded(RunList(a, b, x) \o Note(l, y) \o Path(<<b, c>>), t)
      = Moved(Said(Ran(trace, t, a, b, x), t, l, y), t, b, c)

\* A call that moves and notes a run, and then moves on, once or twice.
LEMMA TracedRun ==
  ASSUME trace \in Seq(TraceEvents), NEW t \in Int, NEW a \in States, NEW b \in States,
         NEW x \in Refs, NEW c \in States, NEW d \in States
  PROVE  RunIsTraced(t, a, b, x, c, d)
<1> DEFINE k == "PROVIDER_RUN_RECORDED"
<1>0. k \in Kinds
  BY DEF Kinds
<1> HIDE DEF k
<1> DEFINE e1 == Step(a, b)
           e2 == Noted(k, x)
           e3 == Step(b, c)
           e4 == Step(c, d)
<1>1. e1 \in SimEvents /\ e2 \in SimEvents /\ e3 \in SimEvents /\ e4 \in SimEvents
  BY <1>0, StepEvent, NoteEvent
<1>2. /\ Path(<<a, b>>) = <<e1>> /\ Note(k, x) = <<e2>> /\ Path(<<b, c>>) = <<e3>>
      /\ Path(<<b, c, d>>) = <<e3, e4>>
  BY <1>0, PathTwo, PathThree, NoteEvent
<1>3. /\ \A tr : At(tr, t, e1) = Moved(tr, t, a, b)
      /\ \A tr : At(tr, t, e2) = Said(tr, t, k, x)
      /\ \A tr : At(tr, t, e3) = Moved(tr, t, b, c)
      /\ \A tr : At(tr, t, e4) = Moved(tr, t, c, d)
  BY <1>0, StepEvent, NoteEvent DEF Moved, Said
<1> HIDE DEF e1, e2, e3, e4
<1>4. /\ IsRecord(At(At(trace, t, e1), t, e2), <<e1, e2>>, t)
      /\ IsRecord(At(At(At(trace, t, e1), t, e2), t, e3), <<e1, e2, e3>>, t)
      /\ IsRecord(At(At(At(At(trace, t, e1), t, e2), t, e3), t, e4), <<e1, e2, e3, e4>>, t)
  BY <1>1, RecordedFew
<1>5. /\ <<e1>> \o <<e2>> = <<e1, e2>>
      /\ <<e1, e2>> \o <<e3>> = <<e1, e2, e3>>
      /\ <<e1, e2>> \o <<e3, e4>> = <<e1, e2, e3, e4>>
  <2>1. <<e1>> \o <<e2>> = <<e1, e2>>
    BY <1>1, ListTwo
  <2>2. <<e1, e2>> \o <<e3>> = <<e1, e2, e3>>
    BY <1>1, ListThree
  <2>3. <<e1, e2>> \o <<e3, e4>> = <<e1, e2, e3, e4>>
    BY <1>1, ListFour
  <2> QED BY <2>1, <2>2, <2>3
<1>6. /\ trace \o Recorded(<<e1, e2>>, t) = Said(Moved(trace, t, a, b), t, k, x)
      /\ trace \o Recorded(<<e1, e2, e3>>, t)
           = Moved(Said(Moved(trace, t, a, b), t, k, x), t, b, c)
      /\ trace \o Recorded(<<e1, e2, e3, e4>>, t)
           = Moved(Moved(Said(Moved(trace, t, a, b), t, k, x), t, b, c), t, c, d)
  BY <1>3, <1>4 DEF IsRecord
<1> QED BY <1>2, <1>5, <1>6 DEF RunList, Ran, Begun, k, RunIsTraced

\* A call that moves, notes a run and a finding, and moves on.
LEMMA TracedFinding ==
  ASSUME trace \in Seq(TraceEvents), NEW t \in Int, NEW a \in States, NEW b \in States,
         NEW x \in Refs, NEW l \in Kinds, NEW y \in Refs, NEW c \in States
  PROVE  FindingIsTraced(t, a, b, x, l, y, c)
<1> DEFINE k == "PROVIDER_RUN_RECORDED"
<1>0. k \in Kinds
  BY DEF Kinds
<1> HIDE DEF k
<1> DEFINE e1 == Step(a, b)
           e2 == Noted(k, x)
           e3 == Noted(l, y)
           e4 == Step(b, c)
<1>1. e1 \in SimEvents /\ e2 \in SimEvents /\ e3 \in SimEvents /\ e4 \in SimEvents
  BY <1>0, StepEvent, NoteEvent
<1>2. /\ Path(<<a, b>>) = <<e1>> /\ Note(k, x) = <<e2>> /\ Note(l, y) = <<e3>>
      /\ Path(<<b, c>>) = <<e4>>
  BY <1>0, PathTwo, NoteEvent
<1>3. /\ \A tr : At(tr, t, e1) = Moved(tr, t, a, b)
      /\ \A tr : At(tr, t, e2) = Said(tr, t, k, x)
      /\ \A tr : At(tr, t, e3) = Said(tr, t, l, y)
      /\ \A tr : At(tr, t, e4) = Moved(tr, t, b, c)
  BY <1>0, StepEvent, NoteEvent DEF Moved, Said
<1> HIDE DEF e1, e2, e3, e4
<1>4. IsRecord(At(At(At(At(trace, t, e1), t, e2), t, e3), t, e4), <<e1, e2, e3, e4>>, t)
  BY <1>1, RecordedFew
<1>5. /\ <<e1>> \o <<e2>> = <<e1, e2>>
      /\ <<e1, e2>> \o <<e3>> = <<e1, e2, e3>>
      /\ <<e1, e2, e3>> \o <<e4>> = <<e1, e2, e3, e4>>
  <2>1. <<e1>> \o <<e2>> = <<e1, e2>>
    BY <1>1, ListTwo
  <2>2. <<e1, e2>> \o <<e3>> = <<e1, e2, e3>>
    BY <1>1, ListThree
  <2>3. <<e1, e2, e3>> \o <<e4>> = <<e1, e2, e3, e4>>
    BY <1>1, ListFour
  <2> QED BY <2>1, <2>2, <2>3
<1>6. trace \o Recorded(<<e1, e2, e3, e4>>, t)
        = Moved(Said(Said(Moved(trace, t, a, b), t, k, x), t, l, y), t, b, c)
  BY <1>3, <1>4 DEF IsRecord
<1> QED BY <1>2, <1>5, <1>6 DEF RunList, Ran, Begun, k, FindingIsTraced

\* ... and after two notes.
NotesAreTraced(t, a, b, k, x, l, y) ==
    /\ trace \o Recorded(Note(k, x) \o Note(l, y), t) = Said(Said(trace, t, k, x), t, l, y)
    /\ trace \o Recorded(Note(k, x) \o Note(l, y) \o <<>>, t)
         = Said(Said(trace, t, k, x), t, l, y)
    /\ trace \o Recorded(Note(k, x) \o Note(l, y) \o Path(<<a, b>>), t)
         = Moved(Said(Said(trace, t, k, x), t, l, y), t, a, b)
    /\ trace \o Recorded(Note(k, x) \o Path(<<a, b>>), t)
         = Moved(Said(trace, t, k, x), t, a, b)

\* A call that notes two things, or one, and moves.
LEMMA TracedNotes ==
  ASSUME trace \in Seq(TraceEvents), NEW t \in Int, NEW a \in States, NEW b \in States,
         NEW k \in Kinds, NEW x \in Refs, NEW l \in Kinds, NEW y \in Refs
  PROVE  NotesAreTraced(t, a, b, k, x, l, y)
<1> DEFINE e1 == Noted(k, x)
           e2 == Noted(l, y)
           e3 == Step(a, b)
<1>1. e1 \in SimEvents /\ e2 \in SimEvents /\ e3 \in SimEvents
  BY StepEvent, NoteEvent
<1>2. Note(k, x) = <<e1>> /\ Note(l, y) = <<e2>> /\ Path(<<a, b>>) = <<e3>>
  BY PathTwo, NoteEvent
<1>3. /\ \A tr : At(tr, t, e1) = Said(tr, t, k, x)
      /\ \A tr : At(tr, t, e2) = Said(tr, t, l, y)
      /\ \A tr : At(tr, t, e3) = Moved(tr, t, a, b)
  BY StepEvent, NoteEvent DEF Moved, Said
<1> HIDE DEF e1, e2, e3
<1>4. /\ IsRecord(At(At(trace, t, e1), t, e2), <<e1, e2>>, t)
      /\ IsRecord(At(At(At(trace, t, e1), t, e2), t, e3), <<e1, e2, e3>>, t)
      /\ IsRecord(At(At(trace, t, e1), t, e3), <<e1, e3>>, t)
  BY <1>1, RecordedFew
<1>5. /\ <<e1>> \o <<e2>> = <<e1, e2>> /\ <<e1>> \o <<e3>> = <<e1, e3>>
      /\ <<e1, e2>> \o <<e3>> = <<e1, e2, e3>> /\ <<e1, e2>> \o <<>> = <<e1, e2>>
  <2>1. <<e1>> \o <<e2>> = <<e1, e2>> /\ <<e1, e2>> \o <<>> = <<e1, e2>>
    BY <1>1, ListTwo
  <2>2. <<e1>> \o <<e3>> = <<e1, e3>>
    BY <1>1, ListTwo
  <2>3. <<e1, e2>> \o <<e3>> = <<e1, e2, e3>>
    BY <1>1, ListThree
  <2> QED BY <2>1, <2>2, <2>3
<1>6. /\ trace \o Recorded(<<e1, e2>>, t) = Said(Said(trace, t, k, x), t, l, y)
      /\ trace \o Recorded(<<e1, e2, e3>>, t)
           = Moved(Said(Said(trace, t, k, x), t, l, y), t, a, b)
      /\ trace \o Recorded(<<e1, e3>>, t) = Moved(Said(trace, t, k, x), t, a, b)
  BY <1>3, <1>4 DEF IsRecord
<1> QED BY <1>2, <1>5, <1>6 DEF NotesAreTraced

-----------------------------------------------------------------------------
(* The simulator. *)

\* The transitions its calls make.
LEMMA Allowed ==
  /\ States = {"NEW", "AUTHORIZED", "ACTIVE", "DEGRADED", "FAILOVER_PENDING",
               "ACTIVE_ON_FALLBACK", "VERIFYING", "AUTH_EXPIRED", "SCOPE_INVALID",
               "HUMAN_REVIEW_REQUIRED", "ABORTED", "CLOSED"}
  /\ AllowedTransitions["NEW"] = {"AUTHORIZED"}
  /\ AllowedTransitions["AUTHORIZED"] = {"ACTIVE", "AUTH_EXPIRED", "SCOPE_INVALID"}
  /\ AllowedTransitions["ACTIVE"] = {"VERIFYING", "DEGRADED", "ABORTED"}
  /\ AllowedTransitions["DEGRADED"] = {"FAILOVER_PENDING"}
  /\ AllowedTransitions["FAILOVER_PENDING"] =
       {"ACTIVE_ON_FALLBACK", "AUTH_EXPIRED", "SCOPE_INVALID", "HUMAN_REVIEW_REQUIRED", "ABORTED"}
  /\ AllowedTransitions["ACTIVE_ON_FALLBACK"] =
       {"VERIFYING", "AUTH_EXPIRED", "SCOPE_INVALID", "ABORTED"}
  /\ AllowedTransitions["VERIFYING"] = {"CLOSED"}
  /\ \A s \in {"AUTH_EXPIRED", "SCOPE_INVALID", "HUMAN_REVIEW_REQUIRED", "ABORTED", "CLOSED"} :
       AllowedTransitions[s] = {}
BY DEF States, AllowedTransitions

\* The states a session ends in.
LEMMA Terminal ==
  TerminalStates = {"AUTH_EXPIRED", "SCOPE_INVALID", "HUMAN_REVIEW_REQUIRED", "ABORTED", "CLOSED"}
<1>1. TerminalStates = {s \in States : AllowedTransitions[s] = {}}
  BY DEF TerminalStates, States
<1> QED BY <1>1, Allowed

\* What the lemmas about the trace ask of the simulator.
LEMMA Held ==
  ASSUME SimInv
  PROVE  /\ trace \in Seq(TraceEvents) /\ now_unix \in Int /\ now_unix <= now_unix
         /\ state \in States /\ Len(runs) \in Nat /\ (failover # NoRecord) \in BOOLEAN
         /\ TraceInv(trace, now_unix, state, Len(runs), failover # NoRecord, finding, verification)
<1>1. TraceInv(trace, now_unix, state, Len(runs), failover # NoRecord, finding, verification)
  BY DEF SimInv, TraceTells
<1>2. trace \in Seq(TraceEvents) /\ now_unix \in Int /\ state \in States
  BY <1>1, TraceTypes
<1>3. Len(runs) \in Nat
  BY DEF SimInv, SimTypeOK
<1>4. now_unix <= now_unix
  BY <1>2
<1> QED BY <1>1, <1>2, <1>3, <1>4

\* A new session: SimInit.
LEMMA SimStarts ==
  ASSUME NEW a \in AuthorizationRecords, NEW s \in ScopeEnvelopes, SimInit(a, s, 0)
  PROVE  SimInv
<1>1. SimTypeOK
  BY Allowed DEF SimInit, SimTypeOK
<1>2. ScopeInv /\ PhaseInv
  BY DEF SimInit, ScopeInv, PhaseInv
<1>3. GrantInv
  BY DEF SimInit, GrantInv
<1>4. TraceTells
  <2> DEFINE e == [seq |-> 1, at |-> 0, kind |-> "SIMULATOR_CREATED",
                   from |-> "none", to |-> "none", ref |-> 0]
  <2>1. e \in TraceEvents /\ e.seq = 1 /\ e.at = 0 /\ e.kind = "SIMULATOR_CREATED"
    BY References DEF TraceEvents, Kinds, Places
  <2>2. trace = <<e>>
    BY DEF SimInit
  <2> HIDE DEF e
  <2>3. /\ trace \in Seq(TraceEvents) /\ Len(trace) = 1 /\ trace[1] = e
        /\ DOMAIN trace = {1}
    BY <2>1, <2>2
  <2>4. \A k : k # "SIMULATOR_CREATED" => OfKind(trace, k) = {}
    BY <2>1, <2>3 DEF OfKind
  <2>5. LogInv(trace, 0)
    BY <2>1, <2>3 DEF LogInv
  <2>6. ChainInv(trace, "NEW")
    BY <2>4, Allowed DEF ChainInv
  <2>7. RunEvents(trace, 0)
    BY <2>4 DEF RunEvents
  <2>8. DecisionEvents(trace, FALSE)
    BY <2>4 DEF DecisionEvents
  <2>9. FindingEvents(trace, NoRecord) /\ VerificationEvents(trace, NoRecord)
    BY <2>4 DEF FindingEvents, VerificationEvents
  <2>10. TraceInv(trace, 0, "NEW", 0, FALSE, NoRecord, NoRecord)
    BY <2>5, <2>6, <2>7, <2>8, <2>9 DEF TraceInv
  <2>11. /\ now_unix = 0 /\ state = "NEW" /\ Len(runs) = 0 /\ (failover # NoRecord) = FALSE
         /\ finding = NoRecord /\ verification = NoRecord
    BY DEF SimInit
  <2> QED BY <2>10, <2>11 DEF TraceTells
<1> QED BY <1>1, <1>2, <1>3, <1>4 DEF SimInv

\* advance_time
LEMMA SimTick ==
  ASSUME SimInv, NEW t \in Int, AdvanceTime(t)
  PROVE  SimInv'
<1>1. now_unix <= t /\ now_unix' = t /\ trace' = trace \o Recorded(Note("CLOCK_ADVANCED", 0), t)
      /\ UNCHANGED <<auth, initialScope, scope, state, runs, failover, finding, verification>>
  BY DEF AdvanceTime
<1>2. trace' = Logged(trace, t, "CLOCK_ADVANCED", "none", "none", 0)
  BY <1>1, Held, TracedNote, References DEF Said, Kinds
<1>3. TraceInv(trace', t, state, Len(runs), failover # NoRecord, finding, verification)
  BY <1>1, <1>2, Held, TracePlain DEF Plain
<1>4. TraceTells'
  BY <1>1, <1>3 DEF TraceTells
<1>5. SimTypeOK'
  BY <1>1 DEF SimInv, SimTypeOK
<1>6. ScopeInv' /\ PhaseInv'
  BY <1>1 DEF SimInv, ScopeInv, PhaseInv, IsEqualOrNarrowerThan
<1>7. GrantInv'
  BY <1>1 DEF SimInv, GrantInv
<1> QED BY <1>4, <1>5, <1>6, <1>7 DEF SimInv

\* authorize
LEMMA SimAuthorize ==
  ASSUME SimInv, Authorize
  PROVE  SimInv'
<1>1. /\ state = "NEW" /\ state' = "AUTHORIZED" /\ ScopeValid(scope, now_unix)
      /\ trace' = trace \o Recorded(Path(<<"NEW", "AUTHORIZED">>), now_unix)
      /\ UNCHANGED <<auth, initialScope, scope, now_unix, runs, failover, finding, verification>>
  BY DEF Authorize, AppendAll
<1>2. trace' = Logged(trace, now_unix, "STATE_TRANSITION", state, "AUTHORIZED", 0)
  BY <1>1, Held, TracedMove, Allowed DEF Moved
<1>3. TraceInv(trace', now_unix, "AUTHORIZED", Len(runs), failover # NoRecord, finding, verification)
  <2>1. "AUTHORIZED" \in AllowedTransitions[state] /\ "AUTHORIZED" \in States
    BY <1>1, Allowed
  <2> QED BY <1>2, <2>1, Held, TraceMove
<1>4. TraceTells'
  BY <1>1, <1>3 DEF TraceTells
<1>5. SimTypeOK'
  BY <1>1, Allowed DEF SimInv, SimTypeOK
<1>6. ScopeInv'
  <2>1. scope = initialScope /\ scope.expires_at \in Int
    BY <1>1 DEF SimInv, ScopeInv, SimTypeOK, ScopeEnvelopes
  <2>2. /\ initialScope.authorization_id = auth.authorization_id
        /\ IsEqualOrNarrowerThan(scope, initialScope) /\ ~ScopeOverlap(scope)
    BY <1>1, <2>1 DEF ScopeValid, IsEqualOrNarrowerThan
  <2> QED BY <1>1, <2>1, <2>2 DEF ScopeInv, IsEqualOrNarrowerThan, ScopeOverlap
<1>7. GrantInv' /\ PhaseInv'
  BY <1>1 DEF SimInv, GrantInv, PhaseInv
<1> QED BY <1>4, <1>5, <1>6, <1>7 DEF SimInv

\* A call that ends the session and raises.
LEMMA SimFails ==
  ASSUME SimInv, NEW q, FailTo(q), q \in AllowedTransitions[state],
         q \in {"AUTH_EXPIRED", "SCOPE_INVALID", "HUMAN_REVIEW_REQUIRED", "ABORTED"}
  PROVE  SimInv'
<1>1. /\ state' = q
      /\ trace' = trace \o Recorded(Path(<<state, q>>), now_unix)
      /\ UNCHANGED <<auth, initialScope, scope, now_unix, runs, failover, finding, verification>>
  BY DEF FailTo, AppendAll
<1>2. q \in States /\ state # "NEW"
  BY Allowed
<1>3. trace' = Logged(trace, now_unix, "STATE_TRANSITION", state, q, 0)
  BY <1>1, <1>2, Held, TracedMove DEF Moved
<1>4. TraceInv(trace', now_unix, q, Len(runs), failover # NoRecord, finding, verification)
  BY <1>2, <1>3, Held, TraceMove
<1>5. TraceTells'
  BY <1>1, <1>4 DEF TraceTells
<1>6. SimTypeOK'
  BY <1>1, <1>2 DEF SimInv, SimTypeOK
<1>7. ScopeInv'
  BY <1>1, <1>2 DEF SimInv, ScopeInv, IsEqualOrNarrowerThan
<1>8. GrantInv' /\ PhaseInv'
  BY <1>1 DEF SimInv, GrantInv, PhaseInv
<1> QED BY <1>5, <1>6, <1>7, <1>8 DEF SimInv

\* What happens after a run that does not complete.
LEMMA AfterRuns ==
  /\ FailoverOutcome # "COMPLETED" /\ FailoverOutcome # "ABORTED_BY_OPERATOR"
  /\ AfterPrimary[FailoverOutcome] = <<"DEGRADED", "FAILOVER_PENDING">>
  /\ AfterPrimary["ABORTED_BY_OPERATOR"] = <<"ABORTED">>
  /\ AfterFallback[FailoverOutcome] = <<"ABORTED">>
  /\ AfterFallback["ABORTED_BY_OPERATOR"] = <<"ABORTED">>
BY DEF AfterPrimary, AfterFallback, FailoverOutcome

\* A provider run starts from state s in state q, with the transitions it makes.
Starts(s, q, after) ==
    \/ s = "AUTHORIZED" /\ q = "ACTIVE" /\ after = AfterPrimary
    \/ s = "FAILOVER_PENDING" /\ q = "ACTIVE_ON_FALLBACK" /\ after = AfterFallback

\* A recorded run, whatever its outcome: the transition after it, or none.
AfterRun(q, tr) ==
    \/ state' = q /\ trace' = tr /\ UNCHANGED finding
    \/ /\ state' \in {"ABORTED", "VERIFYING"} /\ trace' = Moved(tr, now_unix, q, state')
       /\ UNCHANGED finding
    \/ /\ state = "AUTHORIZED" /\ state' = "FAILOVER_PENDING"
       /\ trace' = Moved(Moved(tr, now_unix, q, "DEGRADED"), now_unix, "DEGRADED", "FAILOVER_PENDING")
       /\ UNCHANGED finding

\* What provider.run may leave behind.
LEMMA RunCases ==
  ASSUME SimInv, NEW q, NEW after, NEW k, NEW p \in PipeProviders,
         Starts(state, q, after), RunProvider(q, after, k, p),
         NEW x \in Nat, x = Len(runs) + 1
  PROVE  /\ UNCHANGED <<auth, initialScope, scope, now_unix, failover, verification>>
         /\ \/ /\ p.outcome \notin ProviderOutcomes
              /\ state' = q /\ trace' = Begun(trace, now_unix, state, q)
              /\ UNCHANGED <<runs, finding>>
            \/ /\ p.outcome \in ProviderOutcomes /\ runs' = Append(runs, RunRecord(k, p))
               /\ p.outcome = "COMPLETED" => (p.finding = NoRecord \/ p.finding = "partial")
               /\ AfterRun(q, Ran(trace, now_unix, state, q, x))
            \/ /\ p.outcome = "COMPLETED" /\ runs' = Append(runs, RunRecord(k, p))
               /\ p.finding \in STRING /\ finding' = FindingOf(k, p) /\ state' = "VERIFYING"
               /\ trace' = Moved(Said(Ran(trace, now_unix, state, q, x), now_unix,
                                      "FINDING_RECORDED", p.finding), now_unix, q, "VERIFYING")
<1> DEFINE ran      == Append(runs, RunRecord(k, p))
           noted == RunList(state, q, x)
           tr       == Ran(trace, now_unix, state, q, x)
<1>1. /\ state \in States /\ q \in States /\ trace \in Seq(TraceEvents) /\ now_unix \in Int
      /\ "DEGRADED" \in States /\ "FAILOVER_PENDING" \in States /\ "ABORTED" \in States
      /\ "VERIFYING" \in States
  BY Held, Allowed DEF Starts
<1>2. "PROVIDER_RUN_RECORDED" \in Kinds /\ "FINDING_RECORDED" \in Kinds /\ x \in Refs
  BY References DEF Kinds
<1>3. Len(ran) = x
  <2> DEFINE e == RunRecord(k, p)
  <2>1. runs \in Seq(RunRecords)
    BY DEF SimInv, SimTypeOK
  <2> HIDE DEF e
  <2>2. Len(Append(runs, e)) = Len(runs) + 1
    BY <2>1
  <2> QED BY <2>2 DEF e
<1> HIDE DEF ran
<1>4. /\ UNCHANGED <<auth, initialScope, scope, now_unix, failover, verification>>
      /\ \/ /\ p.outcome \notin ProviderOutcomes
            /\ state' = q
            /\ trace' = trace \o Recorded(Path(<<state, q>>), now_unix)
            /\ UNCHANGED <<runs, finding>>
         \/ /\ p.outcome \in ProviderOutcomes \ {"COMPLETED"}
            /\ runs' = ran
            /\ state' = after[p.outcome][Len(after[p.outcome])]
            /\ trace' = trace \o Recorded(noted \o Path(<<q>> \o after[p.outcome]), now_unix)
            /\ UNCHANGED finding
         \/ /\ p.outcome = "COMPLETED" /\ p.finding = "partial"
            /\ runs' = ran
            /\ state' = q
            /\ trace' = trace \o Recorded(noted, now_unix)
            /\ UNCHANGED finding
         \/ /\ p.outcome = "COMPLETED" /\ p.finding = NoRecord
            /\ runs' = ran
            /\ state' = "VERIFYING"
            /\ trace' = trace \o Recorded(noted \o Path(<<q, "VERIFYING">>), now_unix)
            /\ UNCHANGED finding
         \/ /\ p.outcome = "COMPLETED" /\ p.finding \notin {NoRecord, "partial"}
            /\ runs' = ran
            /\ finding' = FindingOf(k, p)
            /\ state' = "VERIFYING"
            /\ trace' = trace \o Recorded(noted \o Note("FINDING_RECORDED", p.finding)
                                             \o Path(<<q, "VERIFYING">>), now_unix)
  BY <1>3 DEF RunProvider, AppendAll, RunList, ran
<1>5. trace \o Recorded(Path(<<state, q>>), now_unix) = Begun(trace, now_unix, state, q)
  BY <1>1, TracedMove DEF Begun
<1>6. /\ trace \o Recorded(noted, now_unix) = tr
      /\ \A c \in States :
           trace \o Recorded(noted \o Path(<<q, c>>), now_unix) = Moved(tr, now_unix, q, c)
      /\ \A c, d \in States :
           trace \o Recorded(noted \o Path(<<q, c, d>>), now_unix)
             = Moved(Moved(tr, now_unix, q, c), now_unix, c, d)
  <2>1. ASSUME NEW c \in States, NEW d \in States
        PROVE  /\ trace \o Recorded(noted, now_unix) = tr
               /\ trace \o Recorded(noted \o Path(<<q, c>>), now_unix) = Moved(tr, now_unix, q, c)
               /\ trace \o Recorded(noted \o Path(<<q, c, d>>), now_unix)
                    = Moved(Moved(tr, now_unix, q, c), now_unix, c, d)
    <3>1. RunIsTraced(now_unix, state, q, x, c, d)
      BY <1>1, <1>2, TracedRun
    <3> QED BY <3>1 DEF RunIsTraced
  <2> HIDE DEF noted, tr
  <2> QED BY <1>1, <2>1
<1>7. ASSUME p.finding \in STRING
      PROVE  trace \o Recorded(noted \o Note("FINDING_RECORDED", p.finding)
                                 \o Path(<<q, "VERIFYING">>), now_unix)
               = Moved(Said(tr, now_unix, "FINDING_RECORDED", p.finding), now_unix, q, "VERIFYING")
  <2>1. p.finding \in Refs
    BY <1>7, References
  <2>2. FindingIsTraced(now_unix, state, q, x, "FINDING_RECORDED", p.finding, "VERIFYING")
    BY <1>1, <1>2, <2>1, TracedFinding
  <2> QED BY <2>2 DEF FindingIsTraced
<1>8. p.finding \in STRING \cup {NoRecord}
  BY DEF PipeProviders
<1> HIDE DEF noted, tr
<1>9. CASE /\ p.outcome \in ProviderOutcomes \ {"COMPLETED"}
           /\ runs' = ran
           /\ state' = after[p.outcome][Len(after[p.outcome])]
           /\ trace' = trace \o Recorded(noted \o Path(<<q>> \o after[p.outcome]), now_unix)
           /\ UNCHANGED finding
  <2>1. \/ after[p.outcome] = <<"ABORTED">>
        \/ state = "AUTHORIZED" /\ after[p.outcome] = <<"DEGRADED", "FAILOVER_PENDING">>
    BY <1>9, AfterRuns DEF Starts, ProviderOutcomes
  <2>2. CASE after[p.outcome] = <<"ABORTED">>
    <3>1. <<q>> \o <<"ABORTED">> = <<q, "ABORTED">>
      BY <1>1, ListTwo
    <3>2. state' = "ABORTED"
      BY <1>9, <2>2
    <3>3. trace' = Moved(tr, now_unix, q, state')
      BY <1>1, <1>6, <1>9, <2>2, <3>1, <3>2
    <3>4. AfterRun(q, tr)
      BY <1>9, <3>2, <3>3 DEF AfterRun
    <3> QED BY <1>4, <1>9, <3>4 DEF ran, tr
  <2>3. CASE state = "AUTHORIZED" /\ after[p.outcome] = <<"DEGRADED", "FAILOVER_PENDING">>
    <3>1. <<q>> \o <<"DEGRADED", "FAILOVER_PENDING">> = <<q, "DEGRADED", "FAILOVER_PENDING">>
      BY <1>1, ListThree
    <3>2. state' = "FAILOVER_PENDING"
      BY <1>9, <2>3
    <3>3. trace' = Moved(Moved(tr, now_unix, q, "DEGRADED"), now_unix, "DEGRADED", "FAILOVER_PENDING")
      <4>1. trace \o Recorded(noted \o Path(<<q, "DEGRADED", "FAILOVER_PENDING">>), now_unix)
              = Moved(Moved(tr, now_unix, q, "DEGRADED"), now_unix, "DEGRADED", "FAILOVER_PENDING")
        BY <1>1, <1>6
      <4>2. trace' = trace \o Recorded(noted \o Path(<<q>> \o after[p.outcome]), now_unix)
        BY <1>9
      <4> QED BY <2>3, <3>1, <4>1, <4>2
    <3>4. AfterRun(q, tr)
      BY <1>9, <2>3, <3>2, <3>3 DEF AfterRun
    <3> QED BY <1>4, <1>9, <3>4 DEF ran, tr
  <2> QED BY <2>1, <2>2, <2>3
<1>10. CASE /\ p.outcome \notin ProviderOutcomes
            /\ state' = q
            /\ trace' = trace \o Recorded(Path(<<state, q>>), now_unix)
            /\ UNCHANGED <<runs, finding>>
  BY <1>4, <1>5, <1>10
<1>11. CASE /\ p.outcome = "COMPLETED" /\ p.finding = "partial"
            /\ runs' = ran
            /\ state' = q
            /\ trace' = trace \o Recorded(noted, now_unix)
            /\ UNCHANGED finding
  <2>1. AfterRun(q, tr)
    BY <1>6, <1>11 DEF AfterRun
  <2> QED BY <1>4, <1>11, <2>1 DEF ran, tr, ProviderOutcomes
<1>12. CASE /\ p.outcome = "COMPLETED" /\ p.finding = NoRecord
            /\ runs' = ran
            /\ state' = "VERIFYING"
            /\ trace' = trace \o Recorded(noted \o Path(<<q, "VERIFYING">>), now_unix)
            /\ UNCHANGED finding
  <2>1. AfterRun(q, tr)
    BY <1>1, <1>6, <1>12 DEF AfterRun
  <2> QED BY <1>4, <1>12, <2>1 DEF ran, tr, ProviderOutcomes
<1>13. CASE /\ p.outcome = "COMPLETED" /\ p.finding \notin {NoRecord, "partial"}
            /\ runs' = ran
            /\ finding' = FindingOf(k, p)
            /\ state' = "VERIFYING"
            /\ trace' = trace \o Recorded(noted \o Note("FINDING_RECORDED", p.finding)
                                             \o Path(<<q, "VERIFYING">>), now_unix)
  <2>1. p.finding \in STRING
    BY <1>8, <1>13
  <2> QED BY <1>4, <1>7, <1>13, <2>1 DEF ran, tr
<1> QED BY <1>4, <1>9, <1>10, <1>11, <1>12, <1>13

\* A provider may run: what execute_primary and execute_fallback have checked.
MayRun(q, after, k, p) ==
    /\ Starts(state, q, after)
    /\ state = "FAILOVER_PENDING" =>
         /\ failover # NoRecord /\ p.provider_id = failover.new_provider_id
         /\ k = runs[Len(runs)].task
    /\ AuthorizationValid(now_unix) /\ ScopeValid(scope, now_unix) /\ ValidTask(k, scope)

\* A run that may be made is within the grant.
LEMMA GrantGrows ==
  ASSUME SimInv, NEW k \in TasksOf(FixtureRefs), NEW p \in PipeProviders, NEW q, NEW after,
         MayRun(q, after, k, p), runs' = Append(runs, RunRecord(k, p)),
         UNCHANGED <<auth, initialScope, scope, failover>>
  PROVE  /\ GrantInv' /\ runs' \in Seq(RunRecords) /\ Len(runs') = Len(runs) + 1
         /\ state = "AUTHORIZED" => Len(runs') = 1
         /\ Len(runs') = 2 => failover # NoRecord
<1> DEFINE e == RunRecord(k, p)
           n == Len(runs) + 1
<1>1. /\ e \in RunRecords /\ e.run_id = n /\ e.started_at = now_unix /\ e.task = k
      /\ e.provider = p.provider_id
  BY DEF RunRecord, RunRecords, SimInv, SimTypeOK, PipeProviders, ScopeEnvelopes
<1>2. runs' = Append(runs, e) /\ runs \in Seq(RunRecords)
  BY DEF SimInv, SimTypeOK
<1> HIDE DEF e
<1>3. /\ runs' \in Seq(RunRecords) /\ Len(runs') = n /\ Len(runs) \in Nat
      /\ DOMAIN runs = 1 .. Len(runs)
      /\ DOMAIN runs' = DOMAIN runs \cup {n}
      /\ \A i \in DOMAIN runs : i \in Nat /\ i <= Len(runs) /\ runs'[i] = runs[i]
      /\ runs'[n] = e
  BY <1>1, <1>2, Appended
<1>4. \/ state = "AUTHORIZED" /\ Len(runs) = 0
      \/ state = "FAILOVER_PENDING" /\ Len(runs) = 1
  <2>1. state = "AUTHORIZED" \/ state = "FAILOVER_PENDING"
    BY DEF MayRun, Starts
  <2> QED BY <2>1 DEF SimInv, PhaseInv
<1>5. /\ auth.valid_from <= now_unix /\ now_unix <= auth.valid_until
      /\ now_unix <= scope.expires_at
      /\ k.action \in scope.allowed_actions /\ k.action \notin scope.prohibited_actions
  BY DEF MayRun, AuthorizationValid, ScopeValid, ValidTask
<1>6. state # "NEW" /\ IsEqualOrNarrowerThan(scope, initialScope)
  BY <1>4 DEF SimInv, ScopeInv
<1>7. now_unix <= initialScope.expires_at
  <2>1. scope.expires_at \in Int /\ initialScope.expires_at \in Int /\ now_unix \in Int
    BY DEF SimInv, SimTypeOK, ScopeEnvelopes
  <2> QED BY <1>5, <1>6, <2>1 DEF IsEqualOrNarrowerThan
<1>8. k.action \in initialScope.allowed_actions \ initialScope.prohibited_actions
  BY <1>5, <1>6 DEF IsEqualOrNarrowerThan
<1>9. GrantInv
  BY DEF SimInv
<1>10. CASE state = "AUTHORIZED" /\ Len(runs) = 0
  <2>1. n = 1 /\ DOMAIN runs' = {1} /\ Len(runs') = 1
    BY <1>3, <1>10
  <2>2. runs = <<>>
    BY <1>2, <1>10, EmptySeq
  <2>3. failover = NoRecord
    BY <1>9, <2>2 DEF GrantInv
  <2>4. \A i \in DOMAIN runs' :
         /\ runs'[i].run_id = i
         /\ auth.valid_from <= runs'[i].started_at /\ runs'[i].started_at <= auth.valid_until
         /\ runs'[i].started_at <= initialScope.expires_at
         /\ runs'[i].task.action \in initialScope.allowed_actions \ initialScope.prohibited_actions
         /\ runs'[i].task = runs'[1].task
    BY <1>1, <1>3, <1>5, <1>7, <1>8, <2>1
  <2>5. GrantInv'
    BY <2>1, <2>3, <2>4 DEF GrantInv
  <2> QED BY <1>3, <2>1, <2>5
<1>11. CASE state = "FAILOVER_PENDING" /\ Len(runs) = 1
  <2>1. n = 2 /\ DOMAIN runs = {1} /\ DOMAIN runs' = {1, 2} /\ Len(runs') = 2
    BY <1>3, <1>11
  <2>2. failover # NoRecord /\ p.provider_id = failover.new_provider_id /\ k = runs[1].task
    BY <1>11 DEF MayRun
  <2>3. runs'[1] = runs[1] /\ runs'[2] = e
    BY <1>3, <2>1
  <2>4. /\ runs[1].run_id = 1
        /\ auth.valid_from <= runs[1].started_at /\ runs[1].started_at <= auth.valid_until
        /\ runs[1].started_at <= initialScope.expires_at
        /\ runs[1].task.action \in initialScope.allowed_actions \ initialScope.prohibited_actions
    BY <1>9, <2>1 DEF GrantInv
  <2>5. \A i \in {1, 2} :
         /\ runs'[i].run_id = i
         /\ auth.valid_from <= runs'[i].started_at /\ runs'[i].started_at <= auth.valid_until
         /\ runs'[i].started_at <= initialScope.expires_at
         /\ runs'[i].task.action \in initialScope.allowed_actions \ initialScope.prohibited_actions
         /\ runs'[i].task = runs'[1].task
    BY <1>1, <1>5, <1>7, <1>8, <2>1, <2>2, <2>3, <2>4
  <2>6. runs' # <<>> /\ runs'[2].provider = failover.new_provider_id
    BY <1>1, <2>1, <2>2, <2>3
  <2>7. GrantInv'
    BY <1>9, <2>1, <2>2, <2>5, <2>6 DEF GrantInv
  <2> QED BY <1>3, <1>11, <2>1, <2>2, <2>7
<1> QED BY <1>4, <1>10, <1>11

\* execute_primary and execute_fallback once the provider may run.
LEMMA SimRuns ==
  ASSUME SimInv, NEW k \in TasksOf(FixtureRefs), NEW p \in PipeProviders, NEW q, NEW after,
         MayRun(q, after, k, p), RunProvider(q, after, k, p)
  PROVE  SimInv'
<1> DEFINE x == Len(runs) + 1
           tr == Ran(trace, now_unix, state, q, x)
           d  == failover # NoRecord
<1>1. x \in Nat /\ now_unix \in Int /\ d \in BOOLEAN /\ state \in States
  BY Held
<1>2. Starts(state, q, after)
  BY DEF MayRun
<1>3. /\ q \in AllowedTransitions[state] /\ q \in States /\ state # "NEW"
      /\ q \notin {"NEW", "AUTHORIZED", "FAILOVER_PENDING"}
      /\ "ABORTED" \in AllowedTransitions[q] /\ "VERIFYING" \in AllowedTransitions[q]
      /\ "ABORTED" \in States /\ "VERIFYING" \in States
      /\ state = "AUTHORIZED" => "DEGRADED" \in AllowedTransitions[q]
      /\ "DEGRADED" \in States /\ "FAILOVER_PENDING" \in AllowedTransitions["DEGRADED"]
      /\ "FAILOVER_PENDING" \in States
  BY <1>2, Allowed DEF Starts
<1>4. finding = NoRecord /\ verification = NoRecord
  BY <1>2 DEF Starts, SimInv, PhaseInv
<1>5. x = 2 => d
  <2>1. CASE state = "AUTHORIZED"
    <3>1. runs = <<>>
      BY <2>1 DEF SimInv, PhaseInv
    <3> QED BY <3>1
  <2>2. CASE state = "FAILOVER_PENDING"
    BY <2>2 DEF MayRun
  <2> QED BY <1>2, <2>1, <2>2 DEF Starts
<1>6. TraceInv(Begun(trace, now_unix, state, q), now_unix, q, Len(runs), d, finding, verification)
  BY <1>3, Held, TraceMove DEF Begun, Moved
<1>7. TraceInv(tr, now_unix, q, x, d, finding, verification)
  <2>1. Len(runs) \in Nat
    BY Held
  <2> HIDE DEF d
  <2> QED BY <1>1, <1>5, <1>6, <2>1, TraceRun DEF Ran, Said
<1>8. /\ UNCHANGED <<auth, initialScope, scope, now_unix, failover, verification>>
      /\ \/ /\ p.outcome \notin ProviderOutcomes
            /\ state' = q /\ trace' = Begun(trace, now_unix, state, q)
            /\ UNCHANGED <<runs, finding>>
         \/ /\ p.outcome \in ProviderOutcomes /\ runs' = Append(runs, RunRecord(k, p))
            /\ p.outcome = "COMPLETED" => (p.finding = NoRecord \/ p.finding = "partial")
            /\ AfterRun(q, tr)
         \/ /\ p.outcome = "COMPLETED" /\ runs' = Append(runs, RunRecord(k, p))
            /\ p.finding \in STRING /\ finding' = FindingOf(k, p) /\ state' = "VERIFYING"
            /\ trace' = Moved(Said(tr, now_unix, "FINDING_RECORDED", p.finding), now_unix,
                              q, "VERIFYING")
  BY <1>1, <1>2, RunCases
<1>9. ASSUME state' # "NEW" PROVE ScopeInv'
  BY <1>3, <1>8, <1>9 DEF SimInv, ScopeInv, IsEqualOrNarrowerThan
<1>10. ASSUME runs' = Append(runs, RunRecord(k, p))
       PROVE  /\ GrantInv' /\ runs' \in Seq(RunRecords) /\ Len(runs') = x
              /\ state = "AUTHORIZED" => Len(runs') = 1
  BY <1>8, <1>10, GrantGrows
<1>11. ASSUME runs' \in Seq(RunRecords), state' \in States, finding' \in FindingRecords \cup {NoRecord}
       PROVE  SimTypeOK'
  BY <1>8, <1>11 DEF SimInv, SimTypeOK
<1> HIDE DEF tr, x
<1>12. CASE state' = q /\ trace' = Begun(trace, now_unix, state, q) /\ UNCHANGED <<runs, finding>>
  <2>1. TraceTells'
    BY <1>6, <1>8, <1>12 DEF TraceTells
  <2>2. SimTypeOK'
    BY <1>3, <1>11, <1>12 DEF SimInv, SimTypeOK
  <2>3. GrantInv'
    BY <1>8, <1>12 DEF SimInv, GrantInv
  <2>4. PhaseInv'
    BY <1>3, <1>4, <1>8, <1>12 DEF PhaseInv
  <2>5. ScopeInv'
    BY <1>3, <1>9, <1>12
  <2> QED BY <2>1, <2>2, <2>3, <2>4, <2>5 DEF SimInv
<1>13. CASE runs' = Append(runs, RunRecord(k, p)) /\ AfterRun(q, tr)
  <2>1. UNCHANGED finding /\ state' \in States /\ state' # "NEW"
    BY <1>3, <1>13 DEF AfterRun
  <2>2. SimTypeOK'
    BY <1>10, <1>11, <1>13, <2>1 DEF SimInv, SimTypeOK
  <2>3. PhaseInv'
    BY <1>3, <1>4, <1>8, <1>10, <1>13, <2>1 DEF PhaseInv, AfterRun
  <2>4. TraceInv(trace', now_unix, state', x, d, finding, verification)
    <3>1. CASE state' = q /\ trace' = tr
      BY <1>7, <3>1
    <3>2. CASE state' \in {"ABORTED", "VERIFYING"} /\ trace' = Moved(tr, now_unix, q, state')
      <4>1. state' \in AllowedTransitions[q] /\ state' \in States
        BY <1>3, <3>2
      <4> HIDE DEF d
      <4> QED BY <1>1, <1>7, <3>2, <4>1, TraceMove DEF Moved
    <3>3. CASE /\ state = "AUTHORIZED" /\ state' = "FAILOVER_PENDING"
               /\ trace' = Moved(Moved(tr, now_unix, q, "DEGRADED"), now_unix,
                                 "DEGRADED", "FAILOVER_PENDING")
      <4> HIDE DEF d
      <4>1. TraceInv(Moved(tr, now_unix, q, "DEGRADED"), now_unix, "DEGRADED", x, d,
                     finding, verification)
        BY <1>1, <1>3, <1>7, <3>3, TraceMove DEF Moved
      <4> QED BY <1>1, <1>3, <3>3, <4>1, TraceMove DEF Moved
    <3> QED BY <1>13, <3>1, <3>2, <3>3 DEF AfterRun
  <2>5. TraceTells'
    BY <1>8, <1>10, <1>13, <2>1, <2>4 DEF TraceTells
  <2>6. ScopeInv' /\ GrantInv'
    BY <1>9, <1>10, <1>13, <2>1
  <2> QED BY <2>2, <2>3, <2>5, <2>6 DEF SimInv
<1>14. CASE /\ runs' = Append(runs, RunRecord(k, p))
            /\ p.finding \in STRING /\ finding' = FindingOf(k, p) /\ state' = "VERIFYING"
            /\ trace' = Moved(Said(tr, now_unix, "FINDING_RECORDED", p.finding), now_unix,
                              q, "VERIFYING")
  <2>1. /\ finding' \in FindingRecords /\ finding'.finding_id = p.finding
        /\ finding'.status = "UNVERIFIED"
    BY <1>1, <1>14 DEF FindingOf, FindingRecords, x
  <2>2. finding' # NoRecord
    BY <2>1, NoRecordAssumption
  <2>3. SimTypeOK'
    BY <1>3, <1>10, <1>11, <1>14, <2>1
  <2>4. PhaseInv'
    BY <1>4, <1>8, <1>14, <2>1 DEF PhaseInv
  <2>5. TraceInv(trace', now_unix, "VERIFYING", x, d, finding', verification)
    <3> DEFINE g == finding'
    <3> HIDE DEF d
    <3>1. g # NoRecord /\ g.finding_id = p.finding
      BY <2>1, <2>2
    <3> HIDE DEF g
    <3>2. TraceInv(Said(tr, now_unix, "FINDING_RECORDED", p.finding), now_unix, q, x, d, g, verification)
      BY <1>1, <1>4, <1>7, <1>14, <3>1, TraceFinding DEF Said
    <3>3. TraceInv(trace', now_unix, "VERIFYING", x, d, g, verification)
      BY <1>1, <1>3, <1>14, <3>2, TraceMove DEF Moved
    <3> QED BY <3>3 DEF g
  <2>6. TraceTells'
    BY <1>8, <1>10, <1>14, <2>5 DEF TraceTells
  <2>7. ScopeInv' /\ GrantInv'
    BY <1>9, <1>10, <1>14
  <2> QED BY <2>3, <2>4, <2>6, <2>7 DEF SimInv
<1> QED BY <1>8, <1>12, <1>13, <1>14

\* execute_primary
LEMMA SimPrimary ==
  ASSUME SimInv, NEW k \in TasksOf(FixtureRefs), NEW p \in PipeProviders, ExecutePrimary(k, p)
  PROVE  SimInv'
<1>1. state = "AUTHORIZED"
  BY DEF ExecutePrimary
<1>2. CASE FailTo("AUTH_EXPIRED")
  BY <1>1, <1>2, SimFails, Allowed
<1>3. CASE FailTo("SCOPE_INVALID")
  BY <1>1, <1>3, SimFails, Allowed
<1>4. CASE /\ AuthorizationValid(now_unix) /\ ScopeValid(scope, now_unix) /\ ValidTask(k, scope)
           /\ RunProvider("ACTIVE", AfterPrimary, k, p)
  <2>1. MayRun("ACTIVE", AfterPrimary, k, p)
    BY <1>1, <1>4 DEF MayRun, Starts
  <2> QED BY <1>4, <2>1, SimRuns
<1> QED BY <1>2, <1>3, <1>4 DEF ExecutePrimary

\* record_failover
LEMMA SimFailover ==
  ASSUME SimInv, NEW p, p.provider_id \in STRING, NEW c \in ScopeEnvelopes, NEW ok,
         RecordFailover(p, c, ok)
  PROVE  SimInv'
<1>1. state = "FAILOVER_PENDING"
  BY DEF RecordFailover
<1>2. CASE FailTo("AUTH_EXPIRED")
  BY <1>1, <1>2, SimFails, Allowed
<1>3. CASE FailTo("SCOPE_INVALID")
  BY <1>1, <1>3, SimFails, Allowed
<1>4. CASE FailTo("HUMAN_REVIEW_REQUIRED")
  BY <1>1, <1>4, SimFails, Allowed
<1> DEFINE delta == IF PermissionView(c) = PermissionView(scope) THEN "UNCHANGED" ELSE "NARROWER"
<1>5. CASE /\ ScopeValid(c, now_unix) /\ IsEqualOrNarrowerThan(c, scope)
           /\ failover' = [ previous_run_id |-> runs[Len(runs)].run_id,
                            scope_id        |-> c.scope_id,
                            new_provider_id |-> p.provider_id,
                            permission_delta |-> delta ]
           /\ scope' = c
           /\ trace' = trace \o Recorded(Note("FAILOVER_DECISION_RECORDED", 0)
                                            \o Note("EFFECTIVE_SCOPE_UPDATED", 0), now_unix)
           /\ UNCHANGED <<auth, initialScope, now_unix, state, runs, finding, verification>>
  <2>1. Len(runs) = 1 /\ runs \in Seq(RunRecords) /\ DOMAIN runs = {1} /\ runs # <<>>
    BY <1>1 DEF SimInv, PhaseInv, SimTypeOK
  <2>2. runs[Len(runs)].run_id = 1
    BY <2>1 DEF SimInv, GrantInv
  <2>3. delta \in {"UNCHANGED", "NARROWER"}
    OBVIOUS
  <2> HIDE DEF delta
  <2>4. /\ failover' \in FailoverRecords /\ failover'.previous_run_id = 1
        /\ failover'.scope_id = c.scope_id
    BY <1>5, <2>2, <2>3 DEF FailoverRecords, ScopeEnvelopes
  <2>5. failover' # NoRecord
    BY <2>4, NoRecordAssumption
  <2>6. SimTypeOK'
    BY <1>5, <2>4 DEF SimInv, SimTypeOK
  <2>7. ScopeInv'
    <3>1. /\ initialScope.authorization_id = auth.authorization_id
          /\ IsEqualOrNarrowerThan(scope, initialScope) /\ ~ScopeOverlap(initialScope)
      BY <1>1 DEF SimInv, ScopeInv
    <3>2. ~ScopeOverlap(c)
      BY <1>5 DEF ScopeValid
    <3>3. c.expires_at \in Int /\ scope.expires_at \in Int /\ initialScope.expires_at \in Int
      BY DEF SimInv, SimTypeOK, ScopeEnvelopes
    <3>4. IsEqualOrNarrowerThan(c, initialScope)
      BY <1>5, <3>1, <3>3 DEF IsEqualOrNarrowerThan
    <3> QED BY <1>1, <1>5, <3>1, <3>2, <3>4 DEF ScopeInv, IsEqualOrNarrowerThan, ScopeOverlap
  <2>8. GrantInv'
    BY <1>5, <2>1, <2>4, <2>5 DEF SimInv, GrantInv
  <2>9. PhaseInv'
    BY <1>5 DEF SimInv, PhaseInv
  <2>10. trace' = Said(Said(trace, now_unix, "FAILOVER_DECISION_RECORDED", 0), now_unix,
                       "EFFECTIVE_SCOPE_UPDATED", 0)
    <3>1. "FAILOVER_DECISION_RECORDED" \in Kinds /\ "EFFECTIVE_SCOPE_UPDATED" \in Kinds
      BY DEF Kinds
    <3>2. trace \o Recorded(Note("FAILOVER_DECISION_RECORDED", 0)
                              \o Note("EFFECTIVE_SCOPE_UPDATED", 0), now_unix)
            = Said(Said(trace, now_unix, "FAILOVER_DECISION_RECORDED", 0), now_unix,
                   "EFFECTIVE_SCOPE_UPDATED", 0)
      <4>1. NotesAreTraced(now_unix, state, state, "FAILOVER_DECISION_RECORDED", 0,
                           "EFFECTIVE_SCOPE_UPDATED", 0)
        BY <3>1, Held, References, TracedNotes
      <4> QED BY <4>1 DEF NotesAreTraced
    <3> QED BY <1>5, <3>2
  <2>11. TraceInv(Said(trace, now_unix, "FAILOVER_DECISION_RECORDED", 0), now_unix, state,
                  Len(runs), TRUE, finding, verification)
    BY Held, TraceDecision DEF Said
  <2>12. TraceInv(trace', now_unix, state, Len(runs), TRUE, finding, verification)
    BY <2>10, <2>11, Held, TracePlain DEF Said, Plain
  <2>13. TraceTells'
    <3>1. (failover' # NoRecord) = TRUE
      BY <2>5
    <3> QED BY <1>5, <2>12, <3>1 DEF TraceTells
  <2> QED BY <2>6, <2>7, <2>8, <2>9, <2>13 DEF SimInv
<1> QED BY <1>2, <1>3, <1>4, <1>5 DEF RecordFailover, AppendAll

\* execute_fallback
LEMMA SimFallback ==
  ASSUME SimInv, NEW k \in TasksOf(FixtureRefs), NEW p \in PipeProviders, ExecuteFallback(k, p)
  PROVE  SimInv'
<1>1. state = "FAILOVER_PENDING" /\ failover # NoRecord
  BY DEF ExecuteFallback
<1>2. CASE FailTo("ABORTED")
  BY <1>1, <1>2, SimFails, Allowed
<1>3. CASE FailTo("AUTH_EXPIRED")
  BY <1>1, <1>3, SimFails, Allowed
<1>4. CASE FailTo("SCOPE_INVALID")
  BY <1>1, <1>4, SimFails, Allowed
<1>5. CASE /\ p.provider_id = failover.new_provider_id /\ AuthorizationValid(now_unix)
           /\ ScopeValid(scope, now_unix) /\ ValidTask(k, scope)
           /\ k = runs[Len(runs)].task
           /\ RunProvider("ACTIVE_ON_FALLBACK", AfterFallback, k, p)
  <2>1. MayRun("ACTIVE_ON_FALLBACK", AfterFallback, k, p)
    BY <1>1, <1>5 DEF MayRun, Starts
  <2> QED BY <1>5, <2>1, SimRuns
<1> QED BY <1>2, <1>3, <1>4, <1>5 DEF ExecuteFallback

\* verify and confirm_finding change the status of the finding and not what it is.
LEMMA StatusChanges ==
  ASSUME NEW f \in FindingRecords, NEW st \in {"REPRODUCED", "NOT_REPRODUCED", "CONFIRMED"},
         NEW g, g = [f EXCEPT !.status = st]
  PROVE  g \in FindingRecords /\ g.finding_id = f.finding_id /\ g.status = st /\ g # NoRecord
<1>1. g \in FindingRecords /\ g.finding_id = f.finding_id /\ g.status = st
  BY DEF FindingRecords
<1> QED BY <1>1, NoRecordAssumption

\* verify
LEMMA SimVerify ==
  ASSUME SimInv, NEW r \in BOOLEAN, Verify(r)
  PROVE  SimInv'
<1> DEFINE result == IF r THEN "REPRODUCED" ELSE "NOT_REPRODUCED"
           noted  == Note("VERIFICATION_RECORDED", finding.finding_id)
                       \o Note("FINDING_STATUS_UPDATED", 0)
           d      == failover # NoRecord
<1>1. /\ state = "VERIFYING" /\ verification = NoRecord
      /\ UNCHANGED <<auth, initialScope, scope, now_unix, runs, failover>>
  BY DEF Verify
<1>2. "CLOSED" \in AllowedTransitions[state] /\ "CLOSED" \in States /\ "VERIFYING" \in States
  BY <1>1, Allowed
<1>3. ASSUME state' \in {"VERIFYING", "CLOSED"} PROVE ScopeInv' /\ GrantInv'
  <2>1. ScopeInv'
    BY <1>1, <1>3 DEF SimInv, ScopeInv, IsEqualOrNarrowerThan
  <2>2. GrantInv'
    BY <1>1, <1>3 DEF SimInv, GrantInv
  <2> QED BY <2>1, <2>2
<1>4. CASE /\ finding = NoRecord /\ state' = "CLOSED"
           /\ trace' = trace \o Recorded(Path(<<"VERIFYING", "CLOSED">>), now_unix)
           /\ UNCHANGED <<finding, verification>>
  <2>1. trace' = Logged(trace, now_unix, "STATE_TRANSITION", state, "CLOSED", 0)
    BY <1>1, <1>2, <1>4, Held, TracedMove DEF Moved
  <2>2. TraceInv(trace', now_unix, "CLOSED", Len(runs), d, finding, verification)
    BY <1>2, <2>1, Held, TraceMove
  <2>3. TraceTells'
    BY <1>1, <1>4, <2>2 DEF TraceTells
  <2>4. SimTypeOK'
    BY <1>1, <1>2, <1>4 DEF SimInv, SimTypeOK
  <2>5. PhaseInv'
    BY <1>1, <1>4 DEF SimInv, PhaseInv
  <2> QED BY <1>3, <1>4, <2>3, <2>4, <2>5 DEF SimInv
<1>5. CASE /\ finding # NoRecord
           /\ verification' = [finding_id |-> finding.finding_id, result |-> result]
           /\ finding' = [finding EXCEPT !.status = result]
           /\ state' = IF r THEN state ELSE "CLOSED"
           /\ trace' = trace \o Recorded(noted \o IF r THEN <<>> ELSE Path(<<"VERIFYING", "CLOSED">>),
                                         now_unix)
  <2>1. result \in {"REPRODUCED", "NOT_REPRODUCED"}
    OBVIOUS
  <2>2. finding \in FindingRecords
    BY <1>5 DEF SimInv, SimTypeOK
  <2>3. finding.finding_id \in STRING /\ finding.finding_id \in Refs
    BY <2>2, References DEF FindingRecords
  <2>4. /\ finding' \in FindingRecords /\ finding'.finding_id = finding.finding_id
        /\ finding'.status = result /\ finding' # NoRecord
    BY <1>5, <2>1, <2>2, StatusChanges
  <2>5. /\ verification' \in VerificationRecords /\ verification'.finding_id = finding.finding_id
        /\ verification'.result = result
    BY <1>5, <2>1, <2>3 DEF VerificationRecords
  <2>6. verification' # NoRecord
    BY <2>5, NoRecordAssumption
  <2>7. SimTypeOK'
    BY <1>1, <1>2, <1>5, <2>4, <2>5 DEF SimInv, SimTypeOK
  <2>8. PhaseInv'
    BY <1>1, <1>5, <2>1, <2>4, <2>5, <2>6 DEF PhaseInv
  <2> DEFINE t1 == Said(trace, now_unix, "VERIFICATION_RECORDED", finding.finding_id)
             t2 == Said(t1, now_unix, "FINDING_STATUS_UPDATED", 0)
             w  == verification'
             g  == finding'
  <2>9. w # NoRecord /\ w.finding_id = finding.finding_id /\ g # NoRecord
        /\ g.finding_id = finding.finding_id
    BY <2>4, <2>5, <2>6
  <2> HIDE DEF w, g, d
  <2>10. TraceInv(trace, now_unix, state, Len(runs), d, finding, verification)
         /\ d \in BOOLEAN /\ Len(runs) \in Nat /\ now_unix \in Int /\ now_unix <= now_unix
         /\ trace \in Seq(TraceEvents)
    BY Held DEF d
  <2>11. TraceInv(t1, now_unix, state, Len(runs), d, finding, w)
    BY <1>1, <1>5, <2>3, <2>9, <2>10, TraceVerification DEF Said
  <2>12. TraceInv(t2, now_unix, state, Len(runs), d, finding, w)
    BY <2>10, <2>11, TracePlain DEF Said, Plain
  <2>13. TraceInv(t2, now_unix, state, Len(runs), d, g, w)
    BY <1>5, <2>9, <2>12, TraceStatus
  <2>14. "VERIFICATION_RECORDED" \in Kinds /\ "FINDING_STATUS_UPDATED" \in Kinds
    BY DEF Kinds
  <2>15. /\ trace \o Recorded(noted \o <<>>, now_unix) = t2
         /\ trace \o Recorded(noted \o Path(<<"VERIFYING", "CLOSED">>), now_unix)
              = Moved(t2, now_unix, "VERIFYING", "CLOSED")
    <3>1. NotesAreTraced(now_unix, "VERIFYING", "CLOSED", "VERIFICATION_RECORDED",
                         finding.finding_id, "FINDING_STATUS_UPDATED", 0)
      BY <1>2, <2>3, <2>10, <2>14, References, TracedNotes
    <3> QED BY <3>1 DEF NotesAreTraced
  <2> HIDE DEF noted, t2
  <2>16. TraceInv(trace', now_unix, state', Len(runs), d, g, w)
    <3>1. CASE r
      BY <1>5, <2>13, <2>15, <3>1
    <3>2. CASE ~r
      <4>1. trace' = Moved(t2, now_unix, state, "CLOSED") /\ state' = "CLOSED"
        BY <1>1, <1>5, <2>15, <3>2
      <4> QED BY <1>2, <2>10, <2>13, <4>1, TraceMove DEF Moved
    <3> QED BY <3>1, <3>2
  <2>17. TraceTells'
    BY <1>1, <2>16 DEF TraceTells, d, g, w
  <2>18. state' \in {"VERIFYING", "CLOSED"}
    BY <1>1, <1>5
  <2> QED BY <1>3, <2>7, <2>8, <2>17, <2>18 DEF SimInv
<1> QED BY <1>4, <1>5 DEF Verify, AppendAll

\* confirm_finding
LEMMA SimConfirm ==
  ASSUME SimInv, ConfirmFinding
  PROVE  SimInv'
<1>1. /\ finding # NoRecord /\ verification # NoRecord /\ verification.result = "REPRODUCED"
      /\ state = "VERIFYING" /\ finding' = [finding EXCEPT !.status = "CONFIRMED"]
      /\ state' = "CLOSED"
      /\ trace' = trace \o Recorded(Note("FINDING_STATUS_UPDATED", 0)
                                       \o Path(<<"VERIFYING", "CLOSED">>), now_unix)
      /\ UNCHANGED <<auth, initialScope, scope, now_unix, runs, failover, verification>>
  BY DEF ConfirmFinding, AppendAll
<1>2. "CLOSED" \in AllowedTransitions[state] /\ "CLOSED" \in States /\ "VERIFYING" \in States
  BY <1>1, Allowed
<1>3. finding \in FindingRecords
  BY <1>1 DEF SimInv, SimTypeOK
<1>4. /\ finding' \in FindingRecords /\ finding'.finding_id = finding.finding_id /\ finding' # NoRecord
  BY <1>1, <1>3, StatusChanges
<1>5. SimTypeOK'
  BY <1>1, <1>2, <1>4 DEF SimInv, SimTypeOK
<1>6. PhaseInv'
  BY <1>1, <1>4 DEF SimInv, PhaseInv
<1>7. ScopeInv'
  BY <1>1 DEF SimInv, ScopeInv, IsEqualOrNarrowerThan
<1>8. GrantInv'
  BY <1>1 DEF SimInv, GrantInv
<1> DEFINE d  == failover # NoRecord
           g  == finding'
           t1 == Said(trace, now_unix, "FINDING_STATUS_UPDATED", 0)
<1>9. TraceInv(trace, now_unix, state, Len(runs), d, finding, verification)
      /\ d \in BOOLEAN /\ Len(runs) \in Nat /\ now_unix \in Int /\ now_unix <= now_unix
      /\ trace \in Seq(TraceEvents)
  BY Held
<1>10. g # NoRecord /\ g.finding_id = finding.finding_id
  BY <1>4
<1> HIDE DEF d, g
<1>11. TraceInv(t1, now_unix, state, Len(runs), d, finding, verification)
  BY <1>9, TracePlain DEF Said, Plain
<1>12. TraceInv(t1, now_unix, state, Len(runs), d, g, verification)
  BY <1>1, <1>10, <1>11, TraceStatus
<1>13. "FINDING_STATUS_UPDATED" \in Kinds
  BY DEF Kinds
<1>14. trace' = Moved(t1, now_unix, state, "CLOSED")
  <2>1. NotesAreTraced(now_unix, "VERIFYING", "CLOSED", "FINDING_STATUS_UPDATED", 0,
                       "FINDING_STATUS_UPDATED", 0)
    BY <1>2, <1>9, <1>13, References, TracedNotes
  <2> QED BY <1>1, <2>1 DEF NotesAreTraced
<1>15. TraceInv(trace', now_unix, "CLOSED", Len(runs), d, g, verification)
  BY <1>2, <1>9, <1>12, <1>14, TraceMove DEF Moved
<1>16. TraceTells'
  BY <1>1, <1>15 DEF TraceTells, d, g
<1> QED BY <1>5, <1>6, <1>7, <1>8, <1>16 DEF SimInv

-----------------------------------------------------------------------------
(* The workload. *)

\* A report names the conditions that hold.
LEMMA EscrowBroken ==
  ASSUME NEW m
  PROVE  \A id : id \in EscrowReport(m) <=>
           \/ id = "payout_conservation" /\ m.out + m.back > DepositAmount
           \/ /\ id = "terminal_state_exclusivity"
              /\ (m.state = "RELEASED" /\ m.back # 0) \/ (m.state = "REFUNDED" /\ m.out # 0)
<1> DEFINE a == m.out + m.back > DepositAmount
           b == (m.state = "RELEASED" /\ m.back # 0) \/ (m.state = "REFUNDED" /\ m.out # 0)
<1>1. EscrowReport(m) = Broken([payout_conservation |-> a, terminal_state_exclusivity |-> b])
  BY DEF EscrowReport
<1> HIDE DEF a, b
<1>2. \A id : id \in Broken([payout_conservation |-> a, terminal_state_exclusivity |-> b]) <=>
           \/ id = "payout_conservation" /\ a
           \/ id = "terminal_state_exclusivity" /\ b
  BY DEF Broken
<1> QED BY <1>1, <1>2 DEF a, b

\* So does the report of the spending control.
LEMMA SpendingBroken ==
  ASSUME NEW m
  PROVE  \A id : id \in SpendingReport(m) <=>
           \/ id = "per_action_limit" /\ m.executed /\ m.amount > PerActionLimit
           \/ id = "cumulative_quota" /\ m.out > CumulativeQuota
           \/ /\ id = "terminal_exclusivity"
              /\ (m.state = "EXECUTED" /\ m.rejected) \/ (m.state = "REJECTED" /\ m.out > 0)
           \/ id = "rejected_action_no_mutation" /\ m.rejected /\ m.out > 0
<1> DEFINE a == m.executed /\ m.amount > PerActionLimit
           b == m.out > CumulativeQuota
           c == (m.state = "EXECUTED" /\ m.rejected) \/ (m.state = "REJECTED" /\ m.out > 0)
           d == m.rejected /\ m.out > 0
           R == [per_action_limit |-> a, cumulative_quota |-> b, terminal_exclusivity |-> c,
                 rejected_action_no_mutation |-> d]
<1>1. SpendingReport(m) = Broken(R)
  BY DEF SpendingReport
<1> HIDE DEF a, b, c, d
<1>2. \A id : id \in Broken(R) <=>
           \/ id = "per_action_limit" /\ a
           \/ id = "cumulative_quota" /\ b
           \/ id = "terminal_exclusivity" /\ c
           \/ id = "rejected_action_no_mutation" /\ d
  BY DEF Broken
<1> QED BY <1>1, <1>2 DEF a, b, c, d

\* Reports name violations that are no refusals.
LEMMA ReportTypes ==
  ASSUME NEW m
  PROVE  Report(m) \subseteq Violations
BY EscrowBroken, SpendingBroken DEF Report, Violations

\* What an operation that is not refused has to keep.
Continues(next) ==
    /\ next \in Machines
    /\ Caused(machine) => Caused(next)
    /\ Report(next) # {} => Caused(next)
    /\ Paid(next)

\* An operation, refused or not.
LEMMA WorkOperation ==
  ASSUME WorkInv, NEW k, NEW from, NEW actor, NEW right, NEW next,
         Operation(k, from, actor, right, next),
         kind = k /\ machine.state \in from => Continues(next)
  PROVE  WorkInv'
<1>1. kind = k /\ kind' = kind
  BY DEF Operation
<1>2. ASSUME NEW id \in Refusals, Refuse(id) PROVE WorkInv'
  <2>1. violations' = violations \cup {id} /\ machine' = machine
    BY <1>2 DEF Refuse
  <2>2. violations' \in SUBSET Violations
    BY <2>1 DEF WorkInv, Violations
  <2>3. violations' \ Refusals = violations \ Refusals
    BY <2>1
  <2>4. Report(machine)' = Report(machine)
    BY <1>1, <2>1 DEF Report
  <2>5. Caused(machine)' = Caused(machine) /\ Paid(machine)' = Paid(machine)
    BY <1>1, <2>1 DEF Caused, Overpaid, ExecutedThoughRejected, Paid
  <2> QED BY <1>1, <2>1, <2>2, <2>3, <2>4, <2>5 DEF WorkInv
<1>3. CASE machine.state \in from /\ machine' = next /\ violations' = violations \cup Report(next)
  <2>1. Continues(next)
    BY <1>1, <1>3
  <2>2. Report(machine)' = Report(next)
    BY <1>1, <1>3 DEF Report
  <2>3. Caused(machine)' = Caused(next) /\ Paid(machine)' = Paid(next)
    BY <1>1, <1>3 DEF Caused, Overpaid, ExecutedThoughRejected, Paid
  <2>4. violations' \in SUBSET Violations /\ Report(next) \subseteq violations'
    BY <1>3, ReportTypes DEF WorkInv
  <2>5. violations' \ Refusals # {} => Caused(next)
    BY <1>3, <2>1 DEF WorkInv, Continues
  <2> QED BY <1>1, <1>3, <2>1, <2>2, <2>3, <2>4, <2>5 DEF WorkInv, Continues
<1>4. "transition_validation" \in Refusals /\ "authority" \in Refusals
  BY DEF Refusals
<1> QED BY <1>2, <1>3, <1>4 DEF Operation

\* The fields of a machine.
LEMMA MachineFields ==
  ASSUME NEW m \in Machines
  PROVE  /\ m.out \in Int /\ m.back \in Int /\ m.amount \in Int
         /\ m.executed \in BOOLEAN /\ m.rejected \in BOOLEAN
BY DEF Machines

\* Operations of the escrow.
LEMMA EscrowContinues ==
  ASSUME WorkInv, kind = "escrow", NEW next \in Machines,
         machine.out <= next.out, machine.back <= next.back,
         next.executed = machine.executed, next.rejected = machine.rejected,
         next.out > 0 => next.state = "RELEASED",
         next.state = "RELEASED" => next.out > 0, next.state = "REFUNDED" => next.back > 0
  PROVE  Continues(next)
<1>1. /\ machine.out \in Int /\ machine.back \in Int /\ next.out \in Int /\ next.back \in Int
  BY MachineFields DEF WorkInv
<1>2. machine.out >= 0 /\ machine.back >= 0
  BY DEF WorkInv, Paid
<1>3. Caused(machine) => Caused(next)
  BY <1>1, <1>2 DEF Caused, Overpaid, ExecutedThoughRejected, DepositAmount
<1>4. Report(next) # {} => Caused(next)
  <2>1. Report(next) = EscrowReport(next)
    BY DEF Report
  <2> QED BY <1>1, <1>2, <2>1, EscrowBroken DEF Caused, Overpaid, DepositAmount
<1>5. Paid(next)
  BY <1>1, <1>2 DEF Paid
<1> QED BY <1>3, <1>4, <1>5 DEF Continues

\* Operations of the spending control: it pays when it executes, and only then.
LEMMA SpendingContinues ==
  ASSUME WorkInv, kind = "spending", NEW next \in Machines,
         next.executed <=> next.state = "EXECUTED",
         ~next.executed => ~machine.executed /\ next.out = machine.out,
         next.executed => /\ next.out = machine.out + machine.amount
                          /\ next.rejected = machine.rejected /\ next.amount = machine.amount
  PROVE  Continues(next)
<1>1. /\ machine.out \in Int /\ machine.amount \in Int
      /\ machine.executed \in BOOLEAN /\ machine.rejected \in BOOLEAN
      /\ next.out \in Int /\ next.amount \in Int
      /\ next.executed \in BOOLEAN /\ next.rejected \in BOOLEAN
  BY MachineFields DEF WorkInv
<1>2. /\ ~machine.executed => machine.out = 0
      /\ machine.executed /\ machine.amount > 0 => machine.out > 0
      /\ machine.amount <= 0 => machine.out <= 0
  BY DEF WorkInv, Paid
<1>3. Paid(next)
  <2>1. ~next.executed => next.out = 0
    BY <1>2
  <2>2. next.executed /\ next.amount > 0 => next.out > 0
    BY <1>1, <1>2
  <2>3. next.amount <= 0 => next.out <= 0
    BY <1>1, <1>2, <2>1
  <2> QED BY <2>1, <2>2, <2>3 DEF Paid
<1>4. Caused(machine) => Caused(next)
  <2>1. CASE machine.executed
    BY <1>1, <1>2, <2>1 DEF Caused, Overpaid, ExecutedThoughRejected, CumulativeQuota
  <2>2. CASE ~machine.executed
    BY <1>1, <1>2, <2>2 DEF Caused, Overpaid, ExecutedThoughRejected, CumulativeQuota
  <2> QED BY <2>1, <2>2
<1>5. Report(next) # {} => Caused(next)
  <2>1. Report(next) = SpendingReport(next)
    BY DEF Report
  <2>2. next.executed /\ next.amount > PerActionLimit => Caused(next)
    BY <1>1, <1>2 DEF Caused, Overpaid, PerActionLimit
  <2>3. /\ next.out > CumulativeQuota => Caused(next)
        /\ next.rejected /\ next.out > 0 => Caused(next)
    BY DEF Caused, Overpaid
  <2>4. (next.state = "EXECUTED" /\ next.rejected) \/ (next.state = "REJECTED" /\ next.out > 0)
           => Caused(next)
    BY <1>1, <1>2 DEF Caused, ExecutedThoughRejected
  <2> QED BY <2>1, <2>2, <2>3, <2>4, SpendingBroken
<1> QED BY <1>3, <1>4, <1>5 DEF Continues

\* Every operation of a workload keeps the report complete and free of false alarms.
LEMMA WorkSteps ==
  ASSUME WorkInv, WorkStep
  PROVE  WorkInv' /\ kind' = kind
<1>0. /\ machine \in Machines
      /\ machine.out \in Int /\ machine.back \in Int /\ machine.amount \in Int
      /\ machine.executed \in BOOLEAN /\ machine.rejected \in BOOLEAN
  BY MachineFields DEF WorkInv
<1>1. ASSUME NEW actor, Fund(actor) PROVE WorkInv'
  <2> DEFINE next == [machine EXCEPT !.state = "FUNDED"]
  <2>1. /\ next \in Machines /\ next.state = "FUNDED"
        /\ next.out = machine.out /\ next.back = machine.back
        /\ next.executed = machine.executed /\ next.rejected = machine.rejected
    BY <1>0 DEF Machines
  <2>2. Operation("escrow", {"CREATED"}, actor, "buyer", next)
    BY <1>1 DEF Fund
  <2> HIDE DEF next
  <2>3. ASSUME kind = "escrow", machine.state \in {"CREATED"} PROVE Continues(next)
    <3>1. machine.out >= 0 /\ machine.back >= 0 /\ (machine.out > 0 => machine.state = "RELEASED")
      BY <2>3 DEF WorkInv, Paid
    <3> QED BY <1>0, <2>1, <2>3, <3>1, EscrowContinues
  <2> QED BY <2>2, <2>3, WorkOperation
<1>2. ASSUME NEW actor, ReleaseRequest(actor) PROVE WorkInv'
  <2> DEFINE next == [machine EXCEPT !.state = "RELEASE_REQUESTED"]
  <2>1. /\ next \in Machines /\ next.state = "RELEASE_REQUESTED"
        /\ next.out = machine.out /\ next.back = machine.back
        /\ next.executed = machine.executed /\ next.rejected = machine.rejected
    BY <1>0 DEF Machines
  <2>2. Operation("escrow", {"FUNDED"}, actor, "buyer", next)
    BY <1>2 DEF ReleaseRequest
  <2> HIDE DEF next
  <2>3. ASSUME kind = "escrow", machine.state \in {"FUNDED"} PROVE Continues(next)
    <3>1. machine.out >= 0 /\ machine.back >= 0 /\ (machine.out > 0 => machine.state = "RELEASED")
      BY <2>3 DEF WorkInv, Paid
    <3> QED BY <1>0, <2>1, <2>3, <3>1, EscrowContinues
  <2> QED BY <2>2, <2>3, WorkOperation
<1>3. ASSUME NEW actor, Release(actor) PROVE WorkInv'
  <2> DEFINE next == [machine EXCEPT !.state = "RELEASED", !.out = @ + ReleaseAmount]
  <2>1. /\ next \in Machines /\ next.state = "RELEASED"
        /\ next.out = machine.out + ReleaseAmount /\ next.back = machine.back
        /\ next.executed = machine.executed /\ next.rejected = machine.rejected
    <3> DEFINE v == machine.out + ReleaseAmount
    <3>1. v \in Int
      BY <1>0 DEF ReleaseAmount
    <3> HIDE DEF v
    <3>2. next = [machine EXCEPT !.state = "RELEASED", !.out = v]
      BY <1>0 DEF Machines, v
    <3> HIDE DEF next
    <3>3. next \in Machines
      BY <1>0, <3>1, <3>2 DEF Machines
    <3>4. /\ next.state = "RELEASED" /\ next.out = v /\ next.back = machine.back
          /\ next.executed = machine.executed /\ next.rejected = machine.rejected
      BY <1>0, <3>2 DEF Machines
    <3> QED BY <3>3, <3>4 DEF v
  <2>2. Operation("escrow", {"RELEASE_REQUESTED", "REFUNDED", "RELEASED"}, actor, "buyer", next)
    BY <1>3 DEF Release
  <2> HIDE DEF next
  <2>3. ASSUME kind = "escrow", machine.state \in {"RELEASE_REQUESTED", "REFUNDED", "RELEASED"}
        PROVE  Continues(next)
    <3>1. machine.out >= 0 /\ machine.back >= 0 /\ (machine.out > 0 => machine.state = "RELEASED")
      BY <2>3 DEF WorkInv, Paid
    <3> QED BY <1>0, <2>1, <2>3, <3>1, EscrowContinues DEF ReleaseAmount
  <2> QED BY <2>2, <2>3, WorkOperation
<1>4. ASSUME NEW actor, Refund(actor) PROVE WorkInv'
  <2> DEFINE next == [machine EXCEPT !.state = "REFUNDED", !.back = @ + RefundAmount]
  <2>1. /\ next \in Machines /\ next.state = "REFUNDED"
        /\ next.out = machine.out /\ next.back = machine.back + RefundAmount
        /\ next.executed = machine.executed /\ next.rejected = machine.rejected
    <3> DEFINE v == machine.back + RefundAmount
    <3>1. v \in Int
      BY <1>0 DEF RefundAmount
    <3> HIDE DEF v
    <3>2. next = [machine EXCEPT !.state = "REFUNDED", !.back = v]
      BY <1>0 DEF Machines, v
    <3> HIDE DEF next
    <3>3. next \in Machines
      BY <1>0, <3>1, <3>2 DEF Machines
    <3>4. /\ next.state = "REFUNDED" /\ next.back = v /\ next.out = machine.out
          /\ next.executed = machine.executed /\ next.rejected = machine.rejected
      BY <1>0, <3>2 DEF Machines
    <3> QED BY <3>3, <3>4 DEF v
  <2>2. Operation("escrow", {"FUNDED"}, actor, "buyer", next)
    BY <1>4 DEF Refund
  <2> HIDE DEF next
  <2>3. ASSUME kind = "escrow", machine.state \in {"FUNDED"} PROVE Continues(next)
    <3>1. machine.out >= 0 /\ machine.back >= 0 /\ (machine.out > 0 => machine.state = "RELEASED")
      BY <2>3 DEF WorkInv, Paid
    <3> QED BY <1>0, <2>1, <2>3, <3>1, EscrowContinues DEF RefundAmount
  <2> QED BY <2>2, <2>3, WorkOperation
<1>5. ASSUME NEW actor, NEW n \in Amounts, RequestAction(actor, n) PROVE WorkInv'
  <2> DEFINE next == [machine EXCEPT !.state = "ACTION_REQUESTED", !.amount = n]
  <2>1. /\ next \in Machines /\ next.state = "ACTION_REQUESTED"
        /\ next.out = machine.out /\ next.executed = machine.executed
    BY <1>0, AmountsAssumption DEF Machines
  <2>2. Operation("spending", {"ACTIVE"}, actor, "agent", next)
    BY <1>5 DEF RequestAction
  <2> HIDE DEF next
  <2>3. ASSUME kind = "spending", machine.state \in {"ACTIVE"} PROVE Continues(next)
    <3>1. machine.executed <=> machine.state = "EXECUTED"
      BY <2>3 DEF WorkInv, Paid
    <3> QED BY <1>0, <2>1, <2>3, <3>1, SpendingContinues
  <2> QED BY <2>2, <2>3, WorkOperation
<1>6. ASSUME NEW actor, Approve(actor) PROVE WorkInv'
  <2> DEFINE next == [machine EXCEPT !.state = "APPROVED"]
  <2>1. /\ next \in Machines /\ next.state = "APPROVED"
        /\ next.out = machine.out /\ next.executed = machine.executed
    BY <1>0 DEF Machines
  <2>2. Operation("spending", {"ACTION_REQUESTED"}, actor, "approver", next)
    BY <1>6 DEF Approve
  <2> HIDE DEF next
  <2>3. ASSUME kind = "spending", machine.state \in {"ACTION_REQUESTED"} PROVE Continues(next)
    <3>1. machine.executed <=> machine.state = "EXECUTED"
      BY <2>3 DEF WorkInv, Paid
    <3> QED BY <1>0, <2>1, <2>3, <3>1, SpendingContinues
  <2> QED BY <2>2, <2>3, WorkOperation
<1>7. ASSUME NEW actor, Reject(actor) PROVE WorkInv'
  <2> DEFINE next == [machine EXCEPT !.state = "REJECTED", !.rejected = TRUE]
  <2>1. /\ next \in Machines /\ next.state = "REJECTED"
        /\ next.out = machine.out /\ next.executed = machine.executed
    BY <1>0 DEF Machines
  <2>2. Operation("spending", {"ACTION_REQUESTED"}, actor, "approver", next)
    BY <1>7 DEF Reject
  <2> HIDE DEF next
  <2>3. ASSUME kind = "spending", machine.state \in {"ACTION_REQUESTED"} PROVE Continues(next)
    <3>1. machine.executed <=> machine.state = "EXECUTED"
      BY <2>3 DEF WorkInv, Paid
    <3> QED BY <1>0, <2>1, <2>3, <3>1, SpendingContinues
  <2> QED BY <2>2, <2>3, WorkOperation
<1>8. ASSUME NEW actor, Execute(actor) PROVE WorkInv'
  <2> DEFINE next == [machine EXCEPT !.state = "EXECUTED", !.out = @ + machine.amount,
                                    !.executed = TRUE]
  <2>1. /\ next \in Machines /\ next.state = "EXECUTED"
        /\ next.out = machine.out + machine.amount /\ next.amount = machine.amount
        /\ next.executed = TRUE /\ next.rejected = machine.rejected
    <3> DEFINE v == machine.out + machine.amount
    <3>1. v \in Int
      BY <1>0
    <3> HIDE DEF v
    <3>2. next = [machine EXCEPT !.state = "EXECUTED", !.out = v, !.executed = TRUE]
      BY <1>0 DEF Machines, v
    <3> HIDE DEF next
    <3>3. next \in Machines
      BY <1>0, <3>1, <3>2 DEF Machines
    <3>4. /\ next.state = "EXECUTED" /\ next.out = v /\ next.executed = TRUE
          /\ next.amount = machine.amount /\ next.rejected = machine.rejected
      BY <1>0, <3>2 DEF Machines
    <3> QED BY <3>3, <3>4 DEF v
  <2>2. Operation("spending", {"APPROVED", "REJECTED", "EXECUTED"}, actor, "agent", next)
    BY <1>8 DEF Execute
  <2> HIDE DEF next
  <2>3. ASSUME kind = "spending", machine.state \in {"APPROVED", "REJECTED", "EXECUTED"}
        PROVE  Continues(next)
    <3>1. machine.executed <=> machine.state = "EXECUTED"
      BY <2>3 DEF WorkInv, Paid
    <3> QED BY <1>0, <2>1, <2>3, <3>1, SpendingContinues
  <2> QED BY <2>2, <2>3, WorkOperation
<1>9. CASE Malformed
  <2>1. violations' = violations \cup {"malformed_operation"} /\ UNCHANGED <<kind, machine>>
    BY <1>9 DEF Malformed
  <2>2. violations' \in SUBSET Violations /\ violations' \ Refusals = violations \ Refusals
    BY <2>1 DEF WorkInv, Violations, Refusals
  <2>3. Report(machine)' = Report(machine)
    BY <2>1 DEF Report
  <2>4. Caused(machine)' = Caused(machine) /\ Paid(machine)' = Paid(machine)
    BY <2>1 DEF Caused, Overpaid, ExecutedThoughRejected, Paid
  <2> QED BY <2>1, <2>2, <2>3, <2>4 DEF WorkInv
<1>10. WorkInv'
  BY <1>1, <1>2, <1>3, <1>4, <1>5, <1>6, <1>7, <1>8, <1>9 DEF WorkStep
<1>11. kind' = kind
  BY DEF WorkStep, Fund, ReleaseRequest, Release, Refund, RequestAction, Approve, Reject, Execute,
         Malformed, Operation
<1> QED BY <1>10, <1>11

\* An overpaid machine has been reported.
LEMMA OverpaidIsReported ==
  ASSUME WorkInv, Overpaid(machine)
  PROVE  violations # {}
<1>1. /\ machine.out \in Int /\ machine.back \in Int /\ machine.amount \in Int
      /\ machine.executed \in BOOLEAN /\ machine.rejected \in BOOLEAN
  BY MachineFields DEF WorkInv
<1>2. CASE kind = "escrow"
  <2>1. Report(machine) = EscrowReport(machine)
    BY <1>2 DEF Report
  <2>2. machine.out > 0 => machine.state = "RELEASED"
    BY <1>2 DEF WorkInv, Paid
  <2>3. \/ "payout_conservation" \in EscrowReport(machine)
        \/ "terminal_state_exclusivity" \in EscrowReport(machine)
    BY <1>1, <1>2, <2>2, EscrowBroken DEF Overpaid
  <2> QED BY <2>1, <2>3 DEF WorkInv
<1>3. CASE kind # "escrow"
  <2>1. Report(machine) = SpendingReport(machine)
    BY <1>3 DEF Report
  <2>2. machine.out > 0 => machine.executed
    BY <1>1, <1>3 DEF WorkInv, Paid
  <2>3. \/ "cumulative_quota" \in SpendingReport(machine)
        \/ "rejected_action_no_mutation" \in SpendingReport(machine)
        \/ "per_action_limit" \in SpendingReport(machine)
    BY <1>1, <1>3, <2>2, SpendingBroken DEF Overpaid
  <2> QED BY <2>1, <2>3 DEF WorkInv
<1> QED BY <1>2, <1>3

-----------------------------------------------------------------------------
(* The lineage of a bundle. *)

\* The nodes of a lineage and its edges.
Nodes == {"AUTHORIZATION", "PRIMARY_RUN", "PROVIDER_FAILURE", "FAILOVER_DECISION",
          "EFFECTIVE_SCOPE", "FALLBACK_RUN", "FINDING", "VERIFICATION", "CLOSED"}
Edges == [from : Nodes, to : Nodes]

\* A chain of edges that visits the nodes N after its first one, and ends in last.
IsChain(es, N, last) ==
    /\ es \in Seq(Edges) /\ Len(es) >= 1
    /\ \A i \in DOMAIN es \ {1} : es[i].from = es[i - 1].to
    /\ \A x : x \in N <=> \E i \in DOMAIN es : es[i].to = x
    /\ es[Len(es)].to = last /\ last \in Nodes

\* A chain goes on where it ended.
LEMMA ChainAppend ==
  ASSUME NEW es, NEW N, NEW last, IsChain(es, N, last), NEW y \in Nodes
  PROVE  IsChain(Append(es, Edge(last, y)), N \cup {y}, y)
<1> DEFINE e == Edge(last, y)
           r == Append(es, e)
           n == Len(es) + 1
<1>1. /\ es \in Seq(Edges) /\ Len(es) >= 1 /\ last \in Nodes /\ es[Len(es)].to = last
      /\ \A i \in DOMAIN es \ {1} : es[i].from = es[i - 1].to
      /\ \A x : x \in N <=> \E i \in DOMAIN es : es[i].to = x
  BY DEF IsChain
<1>2. e \in Edges /\ e.from = last /\ e.to = y
  BY <1>1 DEF Edge, Edges
<1> HIDE DEF e
<1>3. r = Append(es, e)
  OBVIOUS
<1> HIDE DEF r
<1>4. /\ r \in Seq(Edges) /\ Len(r) = n /\ Len(es) \in Nat
      /\ DOMAIN es = 1 .. Len(es) /\ DOMAIN r = DOMAIN es \cup {n}
      /\ \A i \in DOMAIN es : i \in Nat /\ i <= Len(es) /\ r[i] = es[i]
      /\ r[n] = e
  BY <1>1, <1>2, <1>3, Appended
<1>5. ASSUME NEW i \in DOMAIN r \ {1} PROVE r[i].from = r[i - 1].to
  <2>1. CASE i = n
    <3>1. i - 1 = Len(es) /\ Len(es) \in DOMAIN es
      BY <1>1, <1>4, <2>1
    <3> QED BY <1>1, <1>2, <1>4, <2>1, <3>1
  <2>2. CASE i \in DOMAIN es
    <3>1. i - 1 \in DOMAIN es
      BY <1>4, <2>2
    <3> QED BY <1>1, <1>4, <2>2, <3>1
  <2> QED BY <1>4, <2>1, <2>2
<1>6. ASSUME NEW x PROVE x \in N \cup {y} <=> \E i \in DOMAIN r : r[i].to = x
  BY <1>1, <1>2, <1>4
<1>7. r[Len(r)].to = y /\ Len(r) >= 1
  BY <1>2, <1>4
<1>8. IsChain(r, N \cup {y}, y)
  BY <1>4, <1>5, <1>6, <1>7 DEF IsChain
<1> QED BY <1>8 DEF r, e

\* The same, with a list of one edge.
LEMMA ChainMore ==
  ASSUME NEW es, NEW N, NEW last, IsChain(es, N, last), NEW y \in Nodes
  PROVE  IsChain(es \o <<Edge(last, y)>>, N \cup {y}, y)
<1>1. IsChain(Append(es, Edge(last, y)), N \cup {y}, y)
  BY ChainAppend
<1> DEFINE e == Edge(last, y)
<1>2. es \in Seq(Edges) /\ e \in Edges
  BY DEF IsChain, Edge, Edges
<1> HIDE DEF e
<1>3. es \o <<e>> = Append(es, e)
  BY <1>2, AppendIsConcat
<1> QED BY <1>1, <1>3 DEF e

\* A list of no edge, and of the three edges of a failover.
LEMMA ChainEmpty ==
  ASSUME NEW es, NEW N, NEW last, IsChain(es, N, last)
  PROVE  es \o <<>> = es
BY ConcatEmptySeq DEF IsChain

\* Three edges more.
LEMMA ChainThree ==
  ASSUME NEW es, NEW N, NEW last, IsChain(es, N, last),
         NEW x \in Nodes, NEW y \in Nodes, NEW z \in Nodes
  PROVE  IsChain(es \o <<Edge(last, x), Edge(x, y), Edge(y, z)>>, N \cup {x, y, z}, z)
<1> DEFINE a == Edge(last, x)
           b == Edge(x, y)
           c == Edge(y, z)
<1>1. IsChain(es \o <<a>>, N \cup {x}, x)
  BY ChainMore
<1>2. IsChain((es \o <<a>>) \o <<b>>, N \cup {x} \cup {y}, y)
  BY <1>1, ChainMore
<1>3. IsChain(((es \o <<a>>) \o <<b>>) \o <<c>>, N \cup {x} \cup {y} \cup {z}, z)
  BY <1>2, ChainMore
<1>4. a \in Edges /\ b \in Edges /\ c \in Edges /\ es \in Seq(Edges)
  BY DEF IsChain, Edge, Edges
<1> HIDE DEF a, b, c
<1>5. /\ <<a>> \in Seq(Edges) /\ <<b>> \in Seq(Edges) /\ <<c>> \in Seq(Edges)
      /\ <<a, b>> \in Seq(Edges)
  BY <1>4
<1>6. (es \o <<a>>) \o <<b>> = es \o (<<a>> \o <<b>>)
  BY <1>4, <1>5, ConcatAssociative
<1>7. <<a>> \o <<b>> = <<a, b>>
  BY <1>4, ListTwo
<1>8. (es \o <<a, b>>) \o <<c>> = es \o (<<a, b>> \o <<c>>)
  BY <1>4, <1>5, ConcatAssociative
<1>9. <<a, b>> \o <<c>> = <<a, b, c>>
  BY <1>4, ListThree
<1>10. ((es \o <<a>>) \o <<b>>) \o <<c>> = es \o <<a, b, c>>
  BY <1>6, <1>7, <1>8, <1>9
<1>11. N \cup {x} \cup {y} \cup {z} = N \cup {x, y, z}
  OBVIOUS
<1> QED BY <1>3, <1>10, <1>11 DEF a, b, c

\* The edges of a lineage: the primary run, a failover, the fallback run, a finding
\* and its verification.
FirstEdges == << Edge("AUTHORIZATION", "PRIMARY_RUN") >>
FailoverEdges(b) ==
    IF b.failover = NoRecord \/ b.runs = <<>> THEN <<>>
    ELSE << Edge("PRIMARY_RUN", "PROVIDER_FAILURE"), Edge("PROVIDER_FAILURE", "FAILOVER_DECISION"),
            Edge("FAILOVER_DECISION", "EFFECTIVE_SCOPE") >>
FallbackEdges(b) ==
    IF b.failover = NoRecord \/ Len(b.runs) < 2 THEN <<>>
    ELSE << Edge("EFFECTIVE_SCOPE", "FALLBACK_RUN") >>
UpToRuns(b) == FirstEdges \o FailoverEdges(b) \o FallbackEdges(b)
FindingEdges(b) ==
    IF b.finding = NoRecord THEN <<>>
    ELSE << Edge(UpToRuns(b)[Len(UpToRuns(b))].to, "FINDING") >>
VerificationEdges(b) ==
    IF b.finding = NoRecord \/ b.verification = NoRecord THEN <<>>
    ELSE << Edge("FINDING", "VERIFICATION") >>
OpenEdges(b) == UpToRuns(b) \o FindingEdges(b) \o VerificationEdges(b)

\* These are the edges of the lineage.
LEMMA LineageParts ==
  ASSUME NEW b
  PROVE  BuildCausalLineage(b) =
           Append(OpenEdges(b), Edge(OpenEdges(b)[Len(OpenEdges(b))].to, "CLOSED"))
BY DEF BuildCausalLineage, OpenEdges, UpToRuns, FirstEdges, FailoverEdges, FallbackEdges, FindingEdges,
       VerificationEdges

\* What the part up to the runs names.
NamesRuns(es, N, last, both) ==
    /\ IsChain(es, N, last)
    /\ "FINDING" \notin N /\ "VERIFICATION" \notin N /\ "CLOSED" \notin N
    /\ "FALLBACK_RUN" \in N <=> both

\* The lineage up to the runs is a chain.
LEMMA LineageRuns ==
  ASSUME NEW b, b.failover # NoRecord => b.runs # <<>>
  PROVE  \E N, last : NamesRuns(UpToRuns(b), N, last, ~(b.failover = NoRecord \/ Len(b.runs) < 2))
<1> DEFINE first    == FirstEdges
           failed   == FailoverEdges(b)
           fallback == FallbackEdges(b)
           both     == ~(b.failover = NoRecord \/ Len(b.runs) < 2)
<1>0. UpToRuns(b) = first \o failed \o fallback
  BY DEF UpToRuns
<1>1. IsChain(first, {"PRIMARY_RUN"}, "PRIMARY_RUN")
  <2> DEFINE e == Edge("AUTHORIZATION", "PRIMARY_RUN")
  <2>1. e \in Edges /\ e.to = "PRIMARY_RUN" /\ "PRIMARY_RUN" \in Nodes
    BY DEF Edge, Edges, Nodes
  <2>2. first = <<e>>
    BY DEF FirstEdges
  <2> HIDE DEF e, first
  <2>3. first \in Seq(Edges) /\ Len(first) = 1 /\ DOMAIN first = {1} /\ first[1] = e
    BY <2>1, <2>2
  <2> QED BY <2>1, <2>3 DEF IsChain
<1> HIDE DEF first
<1>3. CASE b.failover = NoRecord
  <2>1. failed = <<>> /\ fallback = <<>>
    BY <1>3 DEF FailoverEdges, FallbackEdges
  <2> HIDE DEF failed, fallback
  <2>2. first \o failed \o fallback = first
    BY <1>1, <2>1, ChainEmpty
  <2>3. NamesRuns(first, {"PRIMARY_RUN"}, "PRIMARY_RUN", both)
    BY <1>1, <1>3 DEF NamesRuns
  <2> QED BY <1>0, <2>2, <2>3
<1>4. CASE b.failover # NoRecord
  <2> DEFINE N == {"PRIMARY_RUN"} \cup {"PROVIDER_FAILURE", "FAILOVER_DECISION", "EFFECTIVE_SCOPE"}
  <2>1. failed = << Edge("PRIMARY_RUN", "PROVIDER_FAILURE"),
                    Edge("PROVIDER_FAILURE", "FAILOVER_DECISION"),
                    Edge("FAILOVER_DECISION", "EFFECTIVE_SCOPE") >>
    BY <1>4 DEF FailoverEdges
  <2>2. /\ "PROVIDER_FAILURE" \in Nodes /\ "FAILOVER_DECISION" \in Nodes
        /\ "EFFECTIVE_SCOPE" \in Nodes /\ "FALLBACK_RUN" \in Nodes
    BY DEF Nodes
  <2> HIDE DEF failed
  <2>3. IsChain(first \o failed, N, "EFFECTIVE_SCOPE")
    BY <1>1, <2>1, <2>2, ChainThree
  <2>4. CASE Len(b.runs) < 2
    <3>1. fallback = <<>>
      BY <2>4 DEF FallbackEdges
    <3> HIDE DEF fallback
    <3>2. (first \o failed) \o fallback = first \o failed
      BY <2>3, <3>1, ChainEmpty
    <3>3. NamesRuns(first \o failed, N, "EFFECTIVE_SCOPE", both)
      BY <2>3, <2>4 DEF NamesRuns
    <3> QED BY <1>0, <3>2, <3>3
  <2>5. CASE ~(Len(b.runs) < 2)
    <3>1. fallback = << Edge("EFFECTIVE_SCOPE", "FALLBACK_RUN") >>
      BY <1>4, <2>5 DEF FallbackEdges
    <3> HIDE DEF fallback
    <3>2. IsChain((first \o failed) \o fallback, N \cup {"FALLBACK_RUN"}, "FALLBACK_RUN")
      BY <2>2, <2>3, <3>1, ChainMore
    <3>3. NamesRuns((first \o failed) \o fallback, N \cup {"FALLBACK_RUN"}, "FALLBACK_RUN", both)
      BY <1>4, <2>5, <3>2 DEF NamesRuns
    <3> QED BY <1>0, <3>3
  <2> QED BY <2>4, <2>5
<1> QED BY <1>3, <1>4

\* The lineage of a session: one chain that names what the session has.
LEMMA LineageChain ==
  ASSUME SimInv
  PROVE  LineageIsOneStory
<1> DEFINE b     == Bundle(evidence)
           up    == UpToRuns(b)
           fe    == FindingEdges(b)
           ve    == VerificationEdges(b)
           open  == OpenEdges(b)
           edges == BuildCausalLineage(b)
<1>1. /\ b.failover = failover /\ b.runs = runs /\ b.finding = finding
      /\ b.verification = verification
  BY DEF Bundle
<1> HIDE DEF b
<1>2. /\ failover # NoRecord => runs # <<>>
      /\ Len(runs) \in Nat /\ Len(runs) <= 2
      /\ Len(runs) = 2 => failover # NoRecord
      /\ finding = NoRecord => verification = NoRecord
  BY Held DEF SimInv, GrantInv, PhaseInv
<1>3. PICK N, last : NamesRuns(up, N, last, ~(b.failover = NoRecord \/ Len(b.runs) < 2))
  BY <1>1, <1>2, LineageRuns
<1>4. /\ IsChain(up, N, last) /\ "FINDING" \notin N /\ "VERIFICATION" \notin N
      /\ "CLOSED" \notin N
      /\ "FALLBACK_RUN" \in N <=> ~(b.failover = NoRecord \/ Len(b.runs) < 2)
  BY <1>3 DEF NamesRuns
<1>5. "FALLBACK_RUN" \in N <=> Len(runs) = 2
  <2>0. \A n \in Nat : n <= 2 => (n < 2 <=> n # 2)
    OBVIOUS
  <2>1. Len(runs) < 2 <=> Len(runs) # 2
    BY <1>2, <2>0
  <2>2. "FALLBACK_RUN" \in N <=> ~(failover = NoRecord \/ Len(runs) < 2)
    BY <1>1, <1>4
  <2> QED BY <1>2, <2>1, <2>2
<1>6. open = (up \o fe) \o ve
  BY DEF OpenEdges
<1>7. up[Len(up)].to = last /\ "FINDING" \in Nodes /\ "VERIFICATION" \in Nodes /\ "CLOSED" \in Nodes
  BY <1>4 DEF IsChain, Nodes
<1> HIDE DEF up
<1>8. \E M, end : /\ IsChain(open, M, end) /\ "CLOSED" \notin M
                  /\ "FALLBACK_RUN" \in M <=> Len(runs) = 2
                  /\ "FINDING" \in M <=> finding # NoRecord
                  /\ "VERIFICATION" \in M <=> verification # NoRecord
  <2>1. CASE finding = NoRecord
    <3>1. fe = <<>> /\ ve = <<>>
      BY <1>1, <2>1 DEF FindingEdges, VerificationEdges
    <3> HIDE DEF fe, ve, open
    <3>2. open = up
      BY <1>4, <1>6, <3>1, ChainEmpty
    <3> QED BY <1>2, <1>4, <1>5, <2>1, <3>2
  <2>2. CASE finding # NoRecord
    <3>1. fe = << Edge(last, "FINDING") >>
      BY <1>1, <1>7, <2>2 DEF FindingEdges, up
    <3> HIDE DEF fe, open
    <3>2. IsChain(up \o fe, N \cup {"FINDING"}, "FINDING")
      BY <1>4, <1>7, <3>1, ChainMore
    <3>3. CASE verification = NoRecord
      <4>1. ve = <<>>
        BY <1>1, <3>3 DEF VerificationEdges
      <4> HIDE DEF ve
      <4>2. open = up \o fe
        BY <1>6, <3>2, <4>1, ChainEmpty
      <4> QED BY <1>4, <1>5, <2>2, <3>2, <3>3, <4>2
    <3>4. CASE verification # NoRecord
      <4>1. ve = << Edge("FINDING", "VERIFICATION") >>
        BY <1>1, <2>2, <3>4 DEF VerificationEdges
      <4> HIDE DEF ve
      <4>2. IsChain(open, N \cup {"FINDING"} \cup {"VERIFICATION"}, "VERIFICATION")
        BY <1>6, <1>7, <3>2, <4>1, ChainMore
      <4> QED BY <1>4, <1>5, <2>2, <3>4, <4>2
    <3> QED BY <3>3, <3>4
  <2> QED BY <2>1, <2>2
<1>9. PICK M, end : /\ IsChain(open, M, end) /\ "CLOSED" \notin M
                    /\ "FALLBACK_RUN" \in M <=> Len(runs) = 2
                    /\ "FINDING" \in M <=> finding # NoRecord
                    /\ "VERIFICATION" \in M <=> verification # NoRecord
  BY <1>8
<1>10. edges = Append(open, Edge(end, "CLOSED"))
  <2>1. open[Len(open)].to = end
    BY <1>9 DEF IsChain
  <2> QED BY <2>1, LineageParts
<1> HIDE DEF open, edges
<1>11. IsChain(edges, M \cup {"CLOSED"}, "CLOSED")
  BY <1>7, <1>9, <1>10, ChainAppend
<1>12. /\ \A i \in DOMAIN edges \ {1} : edges[i].from = edges[i - 1].to
       /\ \A x : x \in M \cup {"CLOSED"} <=> \E i \in DOMAIN edges : edges[i].to = x
  BY <1>11 DEF IsChain
<1>13. \A x : x \in {edges[i].to : i \in DOMAIN edges} <=> x \in M \cup {"CLOSED"}
  BY <1>12
<1> QED BY <1>9, <1>12, <1>13 DEF LineageIsOneStory, b, edges

\* The grant of the runs.
LEMMA RunsGranted ==
  ASSUME SimInv
  PROVE  RunsWithinGrant
<1>1. Len(runs) \in Nat /\ DOMAIN runs = 1 .. Len(runs) /\ GrantInv
  BY DEF SimInv, SimTypeOK
<1> QED BY <1>1 DEF GrantInv, RunsWithinGrant

-----------------------------------------------------------------------------
(* The verifier. *)

\* The first event of a set that has one.
LEMMA FirstFacts ==
  ASSUME NEW S, NEW i \in S, \A j \in S : i <= j
  PROVE  FirstOf(S) \in S /\ \A j \in S : FirstOf(S) <= j
BY DEF FirstOf

\* The only event of a set.
LEMMA FirstOnly ==
  ASSUME NEW i \in Nat
  PROVE  FirstOf({i}) = i
BY DEF FirstOf

\* Events are where the log has them.
LEMMA EventPlaces ==
  ASSUME NEW tr \in Seq(TraceEvents), NEW k
  PROVE  \A i \in OfKind(tr, k) : i \in DOMAIN tr /\ i \in Nat /\ i >= 1 /\ tr[i].kind = k
<1>1. DOMAIN tr = 1 .. Len(tr) /\ Len(tr) \in Nat
  OBVIOUS
<1> QED BY <1>1 DEF OfKind

\* The checks of the log itself.
LEMMA VerifierLog ==
  ASSUME SimInv, NEW b, b.trace = trace
  PROVE  TraceHashChain(b) /\ TemporalOrder(b) /\ StateTransition(b)
<1>1. LogInv(trace, now_unix) /\ ChainInv(trace, state) /\ trace \in Seq(TraceEvents)
  BY Held DEF TraceInv
<1>2. TraceHashChain(b)
  BY <1>1 DEF TraceHashChain, LogInv
<1>3. TemporalOrder(b)
  <2>1. DOMAIN trace = 1 .. Len(trace) /\ Len(trace) \in Nat
    BY <1>1
  <2>2. \A i \in DOMAIN trace \ {1} : i - 1 \in DOMAIN trace /\ i - 1 <= i
    BY <2>1
  <2> QED BY <1>1, <2>2 DEF TemporalOrder, LogInv
<1>4. StateTransition(b)
  BY <1>1 DEF StateTransition, ChainInv, Transitions
<1> QED BY <1>2, <1>3, <1>4

\* The path of the log ends where the session is.
LEMMA VerifierFinal ==
  ASSUME SimInv, state # "NEW", NEW b, b.trace = trace
  PROVE  FinalState(b) <=> state \in TerminalStates
<1> DEFINE T == OfKind(trace, "STATE_TRANSITION")
<1>1. ChainInv(trace, state)
  BY Held DEF TraceInv
<1>2. /\ T # {} /\ (\E i \in T : \A j \in T : j <= i)
      /\ \A i \in T : (\A j \in T : j <= i) => trace[i].to = state
  BY <1>1 DEF ChainInv
<1>3. Transitions(b) = T
  BY DEF Transitions
<1> HIDE DEF T
<1> QED BY <1>2, <1>3 DEF FinalState

\* The event of the fallback run.
LEMMA FallbackEvent ==
  ASSUME SimInv, NEW b, b.trace = trace, b.runs = runs
  PROVE  /\ Len(runs) # 2 => FallbackEvents(b) = {}
         /\ Len(runs) = 2 =>
              \E i \in Nat : /\ FallbackEvents(b) = {i} /\ trace[i].ref = 2
                             /\ i \in OfKind(trace, "PROVIDER_RUN_RECORDED")
<1> DEFINE R == OfKind(trace, "PROVIDER_RUN_RECORDED")
<1>1. RunEvents(trace, Len(runs)) /\ trace \in Seq(TraceEvents)
  BY Held DEF TraceInv
<1>2. /\ Len(runs) \in Nat /\ Len(runs) <= 2 /\ DOMAIN runs = 1 .. Len(runs)
      /\ \A i \in DOMAIN runs : runs[i].run_id = i
  BY DEF SimInv, SimTypeOK, GrantInv
<1>3. FallbackEvents(b) = {i \in R : \E k \in DOMAIN runs \ {1} : trace[i].ref = k}
  BY <1>2 DEF FallbackEvents
<1>4. CASE Len(runs) # 2
  <2>1. DOMAIN runs \ {1} = {}
    BY <1>2, <1>4
  <2> QED BY <1>3, <1>4, <2>1
<1>5. CASE Len(runs) = 2
  <2>1. DOMAIN runs \ {1} = {2}
    BY <1>2, <1>5
  <2>2. PICK i \in R : trace[i].ref = 2
    BY <1>1, <1>5 DEF RunEvents
  <2>3. \A j \in R : trace[j].ref = 2 => j = i
    BY <1>1, <2>2 DEF RunEvents
  <2>4. i \in Nat
    BY <1>1, EventPlaces
  <2> HIDE DEF R
  <2>5. FallbackEvents(b) = {i}
    BY <1>3, <2>1, <2>2, <2>3
  <2> QED BY <1>5, <2>2, <2>4, <2>5 DEF R
<1> QED BY <1>4, <1>5

\* The order of two kinds of events.
LEMMA CreatedFirst ==
  ASSUME SimInv, NEW b, b.trace = trace
  PROVE  NotAfter(OfKind(b.trace, "SIMULATOR_CREATED"), OfKind(b.trace, "STATE_TRANSITION"))
<1> DEFINE S == OfKind(trace, "SIMULATOR_CREATED")
           T == OfKind(trace, "STATE_TRANSITION")
<1>1. LogInv(trace, now_unix) /\ ChainInv(trace, state) /\ trace \in Seq(TraceEvents)
  BY Held DEF TraceInv
<1>2. 1 \in S /\ \A j \in S : j \in Nat /\ 1 <= j
  <2>1. DOMAIN trace = 1 .. Len(trace) /\ Len(trace) \in Nat /\ Len(trace) >= 1
    BY <1>1 DEF LogInv
  <2> QED BY <1>1, <2>1 DEF LogInv, OfKind
<1>3. FirstOf(S) \in S /\ FirstOf(S) <= 1
  BY <1>2, FirstFacts
<1>4. \A j \in T : j \in Nat /\ 1 <= j
  BY <1>1, EventPlaces
<1>5. T # {} => FirstOf(T) \in T
  <2>1. T # {} => \E i \in T : \A j \in T : i <= j
    BY <1>1 DEF ChainInv
  <2> HIDE DEF T
  <2> QED BY <2>1, FirstFacts
<1> HIDE DEF S, T
<1>6. FirstOf(S) \in Nat
  BY <1>2, <1>3
<1>7. T # {} => FirstOf(T) \in Nat /\ 1 <= FirstOf(T)
  BY <1>4, <1>5
<1>8. T # {} => FirstOf(S) <= FirstOf(T)
  BY <1>3, <1>6, <1>7
<1> QED BY <1>8 DEF NotAfter, S, T

\* The failover decision comes before the fallback run, and there is one exactly when
\* the report has a failover record.
LEMMA DecisionFirst ==
  ASSUME SimInv, NEW b, b.trace = trace, b.runs = runs
  PROVE  /\ NotAfter(OfKind(b.trace, "FAILOVER_DECISION_RECORDED"), FallbackEvents(b))
         /\ failover # NoRecord <=> OfKind(b.trace, "FAILOVER_DECISION_RECORDED") # {}
<1> DEFINE D == OfKind(trace, "FAILOVER_DECISION_RECORDED")
<1>1. DecisionEvents(trace, failover # NoRecord) /\ trace \in Seq(TraceEvents)
  BY Held DEF TraceInv
<1>2. /\ (failover # NoRecord <=> D # {})
      /\ (failover # NoRecord => \E i \in D : \A j \in D : i <= j)
      /\ \A i \in OfKind(trace, "PROVIDER_RUN_RECORDED") : trace[i].ref = 2 => \E j \in D : j <= i
  BY <1>1 DEF DecisionEvents
<1>3. \A j \in D : j \in Nat
  BY <1>1, EventPlaces
<1>4. CASE Len(runs) # 2
  <2>1. FallbackEvents(b) = {}
    BY <1>4, FallbackEvent
  <2> QED BY <1>2, <2>1 DEF NotAfter
<1>5. CASE Len(runs) = 2
  <2>1. PICK i \in Nat : /\ FallbackEvents(b) = {i} /\ trace[i].ref = 2
                         /\ i \in OfKind(trace, "PROVIDER_RUN_RECORDED")
    BY <1>5, FallbackEvent
  <2>2. PICK j \in D : j <= i
    BY <1>2, <2>1
  <2>3. D # {}
    BY <2>2
  <2> HIDE DEF D
  <2>4. FirstOf(D) \in D /\ FirstOf(D) <= j
    BY <1>2, <2>2, <2>3, FirstFacts
  <2>5. FirstOf(D) \in Nat /\ j \in Nat
    BY <1>3, <2>2, <2>4
  <2>6. FirstOf(D) <= i
    BY <2>1, <2>2, <2>4, <2>5
  <2>7. FirstOf(FallbackEvents(b)) = i
    BY <2>1, FirstOnly
  <2> QED BY <1>2, <2>6, <2>7 DEF NotAfter, D
<1> QED BY <1>4, <1>5

\* Findings and verifications.
LEMMA FindingFirst ==
  ASSUME SimInv, NEW b, b.trace = trace, b.finding = finding, b.verification = verification
  PROVE  /\ NotAfter(OfKind(b.trace, "FINDING_RECORDED"), OfKind(b.trace, "VERIFICATION_RECORDED"))
         /\ VerificationConsistency(b)
<1> DEFINE F == OfKind(trace, "FINDING_RECORDED")
           V == OfKind(trace, "VERIFICATION_RECORDED")
<1>1. FindingEvents(trace, finding) /\ VerificationEvents(trace, verification)
      /\ trace \in Seq(TraceEvents)
  BY Held DEF TraceInv
<1>2. (\A i \in F : i \in Nat) /\ (\A i \in V : i \in Nat)
  BY <1>1, EventPlaces
<1>3. /\ finding = NoRecord => F = {}
      /\ finding # NoRecord => \E i \in F : F = {i} /\ trace[i].ref = finding.finding_id
  BY <1>1 DEF FindingEvents
<1>4. /\ verification = NoRecord => V = {}
      /\ verification # NoRecord =>
           \E i \in V : V = {i} /\ trace[i].ref = verification.finding_id /\ \E j \in F : j <= i
  BY <1>1 DEF VerificationEvents
<1>5. /\ finding = NoRecord => verification = NoRecord
      /\ verification # NoRecord => verification.finding_id = finding.finding_id
  BY DEF SimInv, PhaseInv
<1> HIDE DEF F, V
<1>6. /\ (finding = NoRecord) = (F = {})
      /\ finding # NoRecord => trace[FirstOf(F)].ref = finding.finding_id
  <2>1. CASE finding = NoRecord
    BY <1>3, <2>1
  <2>2. CASE finding # NoRecord
    <3>1. PICK i \in F : F = {i} /\ trace[i].ref = finding.finding_id
      BY <1>3, <2>2
    <3>2. FirstOf({i}) = i
      BY <1>2, FirstOnly
    <3> QED BY <2>2, <3>1, <3>2
  <2> QED BY <2>1, <2>2
<1>7. /\ (verification = NoRecord) = (V = {})
      /\ verification # NoRecord => trace[FirstOf(V)].ref = verification.finding_id
      /\ verification # NoRecord => FirstOf(F) <= FirstOf(V)
  <2>1. CASE verification = NoRecord
    BY <1>4, <2>1
  <2>2. CASE verification # NoRecord
    <3>1. PICK i \in V : V = {i} /\ trace[i].ref = verification.finding_id /\ \E j \in F : j <= i
      BY <1>4, <2>2
    <3>2. FirstOf({i}) = i
      BY <1>2, FirstOnly
    <3>3. PICK j \in F : j <= i
      BY <3>1
    <3>4. finding # NoRecord
      BY <1>5, <2>2
    <3>5. PICK l \in F : F = {l}
      BY <1>3, <3>4
    <3>6. FirstOf({l}) = l /\ j = l
      BY <1>2, <3>3, <3>5, FirstOnly
    <3> QED BY <2>2, <3>1, <3>2, <3>3, <3>5, <3>6
  <2> QED BY <2>1, <2>2
<1>8. NotAfter(F, V)
  BY <1>7 DEF NotAfter
<1>9. VerificationConsistency(b)
  BY <1>5, <1>6, <1>7 DEF VerificationConsistency, F, V
<1> QED BY <1>8, <1>9 DEF F, V

\* The checks of the documents.
LEMMA VerifierDocuments ==
  ASSUME SimInv, state # "NEW", NEW c, NEW b, b = Bundle(c)
  PROVE  /\ AuthorizationContinuity(b) /\ ScopeMonotonicity(b) /\ ProhibitedActions(b)
         /\ TaskIdentity(b) /\ VerificationClosure(b)
<1>1. /\ b.auth = auth /\ b.initial = initialScope /\ b.effective = scope /\ b.runs = runs
      /\ b.failover = failover /\ b.finding = finding /\ b.verification = verification
  BY DEF Bundle
<1>2. /\ initialScope.authorization_id = auth.authorization_id
      /\ IsEqualOrNarrowerThan(scope, initialScope)
      /\ ~ScopeOverlap(initialScope) /\ ~ScopeOverlap(scope)
  BY DEF SimInv, ScopeInv
<1>3. /\ failover # NoRecord => failover.scope_id = scope.scope_id
      /\ \A i \in DOMAIN runs : runs[i].task = runs[1].task
  BY DEF SimInv, GrantInv
<1>4. finding # NoRecord /\ finding.status = "CONFIRMED" =>
        verification # NoRecord /\ verification.result = "REPRODUCED"
  BY DEF SimInv, PhaseInv
<1>5. AuthorizationContinuity(b)
  BY <1>1, <1>2, <1>3 DEF AuthorizationContinuity, IsEqualOrNarrowerThan
<1>6. ScopeMonotonicity(b)
  BY <1>1, <1>2 DEF ScopeMonotonicity, IsEqualOrNarrowerThan
<1>7. ProhibitedActions(b)
  BY <1>1, <1>2 DEF ProhibitedActions, ScopeOverlap
<1>8. TaskIdentity(b) /\ VerificationClosure(b)
  BY <1>1, <1>3, <1>4 DEF TaskIdentity, VerificationClosure
<1> QED BY <1>5, <1>6, <1>7, <1>8

\* The verifier accepts what is finished and bound to its workload, and nothing else.
LEMMA Verifier ==
  ASSUME SimInv, state # "NEW", NEW c
  PROVE  VerifyEvidenceBundle(Bundle(c)) <=>
           /\ state \in TerminalStates
           /\ failover # NoRecord => Len(runs) = 2
           /\ WorkloadBinding(Bundle(c))
<1> DEFINE b == Bundle(c)
           D == OfKind(trace, "FAILOVER_DECISION_RECORDED")
<1>1. /\ b.trace = trace /\ b.runs = runs /\ b.failover = failover
      /\ b.finding = finding /\ b.verification = verification
  BY DEF Bundle
<1>2. /\ AuthorizationContinuity(b) /\ ScopeMonotonicity(b) /\ ProhibitedActions(b)
      /\ TaskIdentity(b) /\ VerificationClosure(b)
  BY VerifierDocuments
<1> HIDE DEF b
<1>3. TraceHashChain(b) /\ TemporalOrder(b) /\ StateTransition(b)
  BY <1>1, VerifierLog
<1>4. FinalState(b) <=> state \in TerminalStates
  BY <1>1, VerifierFinal
<1>5. CausalOrder(b)
  BY <1>1, CreatedFirst, DecisionFirst, FindingFirst DEF CausalOrder
<1>6. VerificationConsistency(b)
  BY <1>1, FindingFirst
<1>7. FailoverDecision(b) <=> (failover # NoRecord => Len(runs) = 2)
  <2>1. /\ Len(runs) \in Nat /\ Len(runs) <= 2 /\ DOMAIN runs = 1 .. Len(runs)
        /\ Len(runs) = 2 => failover # NoRecord
        /\ failover # NoRecord => failover.previous_run_id = 1
        /\ \A i \in DOMAIN runs : runs[i].run_id = i
    BY DEF SimInv, SimTypeOK, GrantInv
  <2>2. \A n \in Nat : n <= 2 => (n < 2 <=> n # 2) /\ (n >= 2 <=> n = 2)
    OBVIOUS
  <2>3. (Len(runs) < 2 <=> Len(runs) # 2) /\ (Len(runs) >= 2 <=> Len(runs) = 2)
    BY <2>1, <2>2
  <2>4. CASE failover = NoRecord
    BY <1>1, <2>1, <2>3, <2>4 DEF FailoverDecision
  <2>5. CASE failover # NoRecord /\ Len(runs) # 2
    BY <1>1, <2>3, <2>5 DEF FailoverDecision
  <2>6. CASE failover # NoRecord /\ Len(runs) = 2
    <3>1. 1 \in DOMAIN runs
      BY <2>1, <2>6
    <3>2. failover.previous_run_id = runs[1].run_id
      BY <2>1, <2>6, <3>1
    <3>3. OfKind(b.trace, "FAILOVER_DECISION_RECORDED") # {}
      BY <1>1, <2>6, DecisionFirst
    <3>4. FallbackEvents(b) # {}
      BY <1>1, <2>6, FallbackEvent
    <3>5. FirstOf(OfKind(b.trace, "FAILOVER_DECISION_RECORDED")) <= FirstOf(FallbackEvents(b))
      BY <1>1, <3>3, <3>4, DecisionFirst DEF NotAfter
    <3>6. FailoverDecision(b)
      BY <1>1, <2>3, <2>6, <3>2, <3>3, <3>4, <3>5 DEF FailoverDecision
    <3> QED BY <2>6, <3>6
  <2> QED BY <2>4, <2>5, <2>6
<1>8. VerifyEvidenceBundle(b) <=> FailoverDecision(b) /\ FinalState(b) /\ WorkloadBinding(b)
  BY <1>2, <1>3, <1>5, <1>6 DEF VerifyEvidenceBundle
<1> QED BY <1>4, <1>7, <1>8 DEF b

-----------------------------------------------------------------------------
(* The pipeline. *)

\* A step that leaves the workload alone.
LEMMA WorkKept ==
  ASSUME WorkInv, UNCHANGED workVars
  PROVE  WorkInv' /\ UNCHANGED <<kind, machine, violations, Body>>
<1>1. UNCHANGED <<kind, machine, violations>>
  BY DEF workVars
<1>2. UNCHANGED Body
  BY <1>1 DEF Body
<1>3. Report(machine)' = Report(machine)
  BY <1>1 DEF Report
<1>4. Caused(machine)' = Caused(machine) /\ Paid(machine)' = Paid(machine)
  BY <1>1 DEF Caused, Overpaid, ExecutedThoughRejected, Paid
<1> QED BY <1>1, <1>2, <1>3, <1>4 DEF WorkInv

\* A call that raises ends the pipeline.
LEMMA Raised ==
  ASSUME PipeInv, SimInv', UNCHANGED <<workVars, client, reproduced>>, client # "caller",
         stage' = "raised"
  PROVE  PipeInv'
<1>1. WorkInv' /\ kind' = kind
  BY WorkKept DEF PipeInv
<1>2. StageInv'
  BY <1>1 DEF PipeInv, StageInv, Ending, Bound
<1>3. BindingInv'
  BY DEF BindingInv, Bound, Ending
<1>4. ConfirmInv'
  BY DEF PipeInv, ConfirmInv, Ending
<1> QED BY <1>1, <1>2, <1>3, <1>4 DEF PipeInv

\* The documents of a caller are of the types of the pipeline's.
LEMMA Documents ==
  /\ Tasks \subseteq TasksOf(FixtureRefs)
  /\ DirectProviders \subseteq PipeProviders /\ GenericPrimaries \subseteq PipeProviders
  /\ Scopes \subseteq ScopeEnvelopes /\ Authorizations \subseteq AuthorizationRecords
  /\ \A p \in DirectProviders : p.provider_id \in STRING
<1>1. TasksOf(Digests \cup {NoRecord}) \subseteq TasksOf(FixtureRefs)
  BY DEF TasksOf, FixtureRefs
<1>2. MockProviders \subseteq PipeProviders
  BY DEF MockProviders, PipeProviders, FixtureRefs
<1>3. \A p \in MockProviders : p.provider_id \in STRING
  BY DEF MockProviders
<1> QED BY <1>1, <1>2, <1>3, DocumentsAssumption

\* What a run leaves behind, by the state it ends in.
RunLeaves(k, p) ==
    /\ UNCHANGED <<failover, verification>>
    /\ runs' = runs \/ runs' = Append(runs, RunRecord(k, p))
    /\ state' \in {"FAILOVER_PENDING", "VERIFYING", "ABORTED"} => runs' = Append(runs, RunRecord(k, p))
    /\ state' = "FAILOVER_PENDING" => state = "AUTHORIZED"
    /\ state = "AUTHORIZED" /\ p.outcome = FailoverOutcome => state' = "FAILOVER_PENDING"
    /\ state' \in {"FAILOVER_PENDING", "ABORTED"} => finding' = finding
    /\ state' = "VERIFYING" /\ p.finding = NoRecord => finding' = finding
    /\ state' = "VERIFYING" /\ p.finding # NoRecord => finding' = FindingOf(k, p)

\* A run does.
LEMMA RunLeft ==
  ASSUME NEW k, NEW p, NEW q, NEW after, Starts(state, q, after), RunProvider(q, after, k, p)
  PROVE  RunLeaves(k, p)
<1> DEFINE ran == Append(runs, RunRecord(k, p))
<1>1. q \in {"ACTIVE", "ACTIVE_ON_FALLBACK"}
  BY DEF Starts
<1>2. UNCHANGED <<failover, verification>>
  BY DEF RunProvider
<1>0. FailoverOutcome \in ProviderOutcomes /\ FailoverOutcome # "COMPLETED"
  BY AfterRuns DEF ProviderOutcomes
<1>3. CASE p.outcome \notin ProviderOutcomes /\ state' = q /\ UNCHANGED <<runs, finding>>
  BY <1>0, <1>1, <1>2, <1>3 DEF RunLeaves
<1>4. CASE /\ p.outcome \in ProviderOutcomes \ {"COMPLETED"} /\ runs' = ran
           /\ state' = after[p.outcome][Len(after[p.outcome])] /\ UNCHANGED finding
  <2>1. \/ /\ after[p.outcome] = <<"ABORTED">>
           /\ state = "AUTHORIZED" => p.outcome # FailoverOutcome
        \/ state = "AUTHORIZED" /\ after[p.outcome] = <<"DEGRADED", "FAILOVER_PENDING">>
    BY <1>4, AfterRuns DEF Starts, ProviderOutcomes
  <2>2. CASE /\ after[p.outcome] = <<"ABORTED">>
             /\ state = "AUTHORIZED" => p.outcome # FailoverOutcome
    <3>1. state' = "ABORTED"
      BY <1>4, <2>2
    <3> QED BY <1>2, <1>4, <2>2, <3>1 DEF RunLeaves
  <2>3. CASE state = "AUTHORIZED" /\ after[p.outcome] = <<"DEGRADED", "FAILOVER_PENDING">>
    <3>1. state' = "FAILOVER_PENDING"
      BY <1>4, <2>3
    <3> QED BY <1>2, <1>4, <2>3, <3>1 DEF RunLeaves
  <2> QED BY <2>1, <2>2, <2>3
<1>5. CASE p.outcome = "COMPLETED" /\ state' = q /\ runs' = ran /\ UNCHANGED finding
  BY <1>0, <1>1, <1>2, <1>5 DEF RunLeaves
<1>6. CASE /\ p.outcome = "COMPLETED" /\ state' = "VERIFYING" /\ p.finding = NoRecord
           /\ runs' = ran /\ UNCHANGED finding
  BY <1>0, <1>2, <1>6 DEF RunLeaves
<1>7. CASE /\ p.outcome = "COMPLETED" /\ state' = "VERIFYING" /\ p.finding # NoRecord
           /\ runs' = ran
           /\ finding' = FindingOf(k, p)
  BY <1>0, <1>2, <1>7 DEF RunLeaves
<1> QED BY <1>3, <1>4, <1>5, <1>6, <1>7 DEF RunProvider

\* The runs with one more.
LEMMA OneMoreRun ==
  ASSUME SimInv, NEW k \in TasksOf(FixtureRefs), NEW p \in PipeProviders,
         runs' = Append(runs, RunRecord(k, p))
  PROVE  /\ Len(runs') = Len(runs) + 1 /\ DOMAIN runs' = DOMAIN runs \cup {Len(runs) + 1}
         /\ \A i \in DOMAIN runs : runs'[i] = runs[i]
         /\ runs'[Len(runs) + 1].task = k /\ runs'[Len(runs) + 1].workload = p.workload
<1> DEFINE e == RunRecord(k, p)
<1>1. e \in RunRecords /\ e.task = k /\ e.workload = p.workload
  BY DEF RunRecord, RunRecords, SimInv, SimTypeOK, PipeProviders, ScopeEnvelopes
<1>2. runs' = Append(runs, e) /\ runs \in Seq(RunRecords)
  BY DEF SimInv, SimTypeOK
<1> HIDE DEF e
<1>3. /\ Len(runs') = Len(runs) + 1 /\ DOMAIN runs' = DOMAIN runs \cup {Len(runs) + 1}
      /\ \A i \in DOMAIN runs : runs'[i] = runs[i]
      /\ runs'[Len(runs) + 1] = e
  BY <1>1, <1>2, Appended
<1> QED BY <1>1, <1>3

\* A caller's call.
LEMMA CallKeeps ==
  ASSUME PipeInv, CallSimulator
  PROVE  PipeInv'
<1>1. SimInv /\ WorkInv /\ StageInv /\ BindingInv /\ ConfirmInv
  BY DEF PipeInv
<1>2. stage = "calls" /\ UNCHANGED workVars /\ UNCHANGED pipeVars
  BY DEF CallSimulator
<1>3. client = "caller" /\ UNCHANGED <<client, stage, reproduced>>
  BY <1>1, <1>2 DEF StageInv, pipeVars
<1>4. WorkInv' /\ kind' = kind
  BY <1>1, <1>2, WorkKept
<1>5. ConfirmInv'
  BY <1>1, <1>2, <1>3 DEF ConfirmInv, Ending
<1>6. StageInv'
  BY <1>1, <1>2, <1>3, <1>4 DEF StageInv, Ending
<1>7. BindingInv'
  BY <1>2, <1>3 DEF BindingInv, Bound, Ending
<1>8. ASSUME NEW t \in 0 .. MaxClock, AdvanceTime(t) PROVE SimInv'
  <2>1. t \in Int
    BY ClockAssumption
  <2> QED BY <1>1, <1>8, <2>1, SimTick
<1>9. ASSUME NEW k \in Tasks, NEW p \in DirectProviders, ExecutePrimary(k, p) \/ ExecuteFallback(k, p)
      PROVE  SimInv'
  <2>1. k \in TasksOf(FixtureRefs) /\ p \in PipeProviders
    BY Documents
  <2> QED BY <1>1, <1>9, <2>1, SimPrimary, SimFallback
<1>10. ASSUME NEW p \in DirectProviders, NEW s \in Scopes, NEW ok \in BOOLEAN,
              RecordFailover(p, s, ok)
       PROVE  SimInv'
  <2>1. s \in ScopeEnvelopes /\ p.provider_id \in STRING
    BY Documents
  <2> QED BY <1>1, <1>10, <2>1, SimFailover
<1>11. SimInv'
  BY <1>1, <1>8, <1>9, <1>10, SimAuthorize, SimVerify, SimConfirm DEF CallSimulator
<1> QED BY <1>4, <1>5, <1>6, <1>7, <1>11 DEF PipeInv

\* A step that leaves the simulator alone.
LEMMA SimKept ==
  ASSUME SimInv, UNCHANGED simVars
  PROVE  SimInv'
<1>1. UNCHANGED <<auth, initialScope, scope, now_unix, state, trace, runs, failover, finding,
                  verification>>
  BY DEF simVars
<1>2. SimTypeOK'
  BY <1>1 DEF SimInv, SimTypeOK
<1>3. ScopeInv'
  BY <1>1 DEF SimInv, ScopeInv
<1>4. GrantInv'
  BY <1>1 DEF SimInv, GrantInv
<1>5. PhaseInv'
  BY <1>1 DEF SimInv, PhaseInv
<1>6. TraceTells'
  BY <1>1 DEF SimInv, TraceTells
<1> QED BY <1>2, <1>3, <1>4, <1>5, <1>6 DEF SimInv

\* What a step of the pipeline leaves alone once normalize has returned.
Carries ==
    /\ UNCHANGED <<workVars, client, primary, task, evidence, reproduced>>
    /\ stage \in Bound

\* The invariant of the workload holds after it, and so does what normalize made.
LEMMA Carried ==
  ASSUME PipeInv, Carries
  PROVE  /\ WorkInv' /\ UNCHANGED <<kind, violations, Body>>
         /\ client # "caller" /\ task \in TasksOf(FixtureRefs) /\ primary \in PipeProviders
<1>1. WorkInv' /\ UNCHANGED <<kind, violations, Body>>
  BY WorkKept DEF PipeInv, Carries
<1>2. client # "caller"
  BY DEF PipeInv, StageInv, Carries, Bound, Ending
<1>3. evidence \in Evidence /\ evidence.task = task /\ primary \in PipeProviders
  BY DEF PipeInv, BindingInv, Carries
<1>4. task \in TasksOf(FixtureRefs)
  BY <1>3 DEF Evidence
<1> QED BY <1>1, <1>2, <1>3, <1>4

\* The binding is kept by a step without a run ...
LEMMA BindingKept ==
  ASSUME PipeInv, Carries, UNCHANGED runs
  PROVE  BindingInv'
<1>1. UNCHANGED <<Body, violations, client>> /\ client # "caller"
  BY Carried DEF Carries
<1> QED BY <1>1 DEF PipeInv, Carries, BindingInv

\* ... and by a run of the bound task, at the primary provider or with the digest.
LEMMA BindingRuns ==
  ASSUME PipeInv, Carries, NEW p \in PipeProviders, runs' = Append(runs, RunRecord(task, p)),
         \/ runs = <<>> /\ p.workload = primary.workload
         \/ Len(runs) = 1 /\ p.workload = evidence.body
  PROVE  BindingInv' /\ Len(runs') = Len(runs) + 1 /\ runs' # <<>>
<1>1. UNCHANGED <<Body, violations, client>> /\ client # "caller" /\ task \in TasksOf(FixtureRefs)
  BY Carried DEF Carries
<1>2. SimInv /\ BindingInv
  BY DEF PipeInv
<1>3. /\ Len(runs') = Len(runs) + 1 /\ DOMAIN runs' = DOMAIN runs \cup {Len(runs) + 1}
      /\ \A i \in DOMAIN runs : runs'[i] = runs[i]
      /\ runs'[Len(runs) + 1].task = task /\ runs'[Len(runs) + 1].workload = p.workload
  BY <1>1, <1>2, OneMoreRun
<1>4. runs \in Seq(RunRecords)
  BY <1>2 DEF SimInv, SimTypeOK
<1>5. /\ evidence \in Evidence
      /\ evidence.workload = evidence.body /\ evidence.task = task
      /\ evidence.body.violations \subseteq violations
      /\ primary \in PipeProviders
      /\ client \in {"escrow", "spending"} =>
           evidence.body = Body /\ primary.outcome = FailoverOutcome
      /\ client # "generic" =>
           /\ task.fixture = evidence.body /\ reproduced = TRUE
           /\ primary.workload = evidence.body /\ primary.finding = NoRecord
      /\ \A i \in DOMAIN runs : runs[i].task = task
      /\ runs # <<>> => runs[1].workload = primary.workload
  BY <1>2 DEF BindingInv, Carries
<1>6. \A i \in DOMAIN runs' : runs'[i].task = task
  BY <1>3, <1>5
<1>7. CASE runs = <<>> /\ p.workload = primary.workload
  <2>1. Len(runs') = 1 /\ runs'[1].workload = primary.workload
    BY <1>3, <1>7
  <2>2. runs' # <<>>
    BY <2>1
  <2>3. BindingInv'
    BY <1>1, <1>5, <1>6, <2>1 DEF BindingInv, Carries
  <2> QED BY <1>3, <2>2, <2>3
<1>8. CASE Len(runs) = 1 /\ p.workload = evidence.body
  <2>1. 1 \in DOMAIN runs /\ runs # <<>>
    BY <1>4, <1>8
  <2>2. /\ Len(runs') = 2 /\ runs'[1].workload = primary.workload
        /\ runs'[2].workload = evidence.body
    BY <1>3, <1>5, <1>8, <2>1
  <2>3. runs' # <<>>
    BY <2>2
  <2>4. BindingInv'
    BY <1>1, <1>5, <1>6, <2>2 DEF BindingInv, Carries
  <2> QED BY <1>3, <2>3, <2>4
<1> QED BY <1>7, <1>8

\* A simulator call and where the pipeline goes.
LEMMA Goes ==
  ASSUME PipeInv, stage \in Bound, NEW goto, Then(goto), SimInv'
  PROVE  /\ Carries /\ UNCHANGED <<client, reproduced, receipt, task, evidence>>
         /\ state' \in DOMAIN goto => stage' = goto[state']
         /\ state' \notin DOMAIN goto => PipeInv'
<1>1. Carries /\ UNCHANGED <<client, reproduced, receipt, task, evidence, workVars>>
  BY DEF Then, Carries
<1>2. client # "caller"
  BY <1>1, Carried
<1>3. ASSUME state' \notin DOMAIN goto PROVE PipeInv'
  <2>1. stage' = "raised"
    BY <1>3 DEF Then
  <2> QED BY <1>1, <1>2, <2>1, Raised
<1>4. state' \in DOMAIN goto => stage' = goto[state']
  BY DEF Then
<1> QED BY <1>1, <1>3, <1>4

\* authorize, or its refusal.
LEMMA AuthorizeKeeps ==
  ASSUME PipeInv, PipelineAuthorize
  PROVE  PipeInv'
<1> DEFINE goto == [AUTHORIZED |-> "primary"]
<1>1. /\ stage = "authorize" /\ stage \in Bound /\ Then(goto) /\ state = "NEW"
      /\ failover = NoRecord
  BY DEF PipelineAuthorize, PipeInv, StageInv, Bound
<1>2. SimInv /\ StageInv /\ ConfirmInv
  BY DEF PipeInv
<1>3. CASE Authorize
  <2>1. SimInv'
    BY <1>2, <1>3, SimAuthorize
  <2>2. state' = "AUTHORIZED" /\ UNCHANGED <<runs, failover>>
    BY <1>3 DEF Authorize
  <2>3. Carries /\ UNCHANGED <<client, reproduced, receipt, task, evidence>> /\ stage' = "primary"
    BY <1>1, <2>1, <2>2, Goes
  <2>4. WorkInv' /\ BindingInv' /\ kind' = kind /\ client # "caller"
    BY <2>2, <2>3, Carried, BindingKept
  <2>5. StageInv'
    BY <1>1, <1>2, <2>2, <2>3, <2>4 DEF StageInv, Bound, Ending
  <2>6. ConfirmInv'
    BY <1>2, <2>3 DEF ConfirmInv, Ending
  <2> QED BY <2>1, <2>4, <2>5, <2>6 DEF PipeInv
<1>4. CASE UNCHANGED simVars
  <2>1. SimInv' /\ state' = "NEW"
    BY <1>1, <1>2, <1>4, SimKept DEF simVars
  <2> QED BY <1>1, <2>1, Goes
<1> QED BY <1>3, <1>4 DEF PipelineAuthorize

\* execute_primary: it fails over, ends in VERIFYING or ABORTED, or raises.
LEMMA PrimaryKeeps ==
  ASSUME PipeInv, PipelinePrimary
  PROVE  PipeInv'
<1> DEFINE goto == [FAILOVER_PENDING |-> "failover", VERIFYING |-> "verify", ABORTED |-> "report"]
<1>1. /\ stage = "primary" /\ stage \in Bound /\ Then(goto) /\ state = "AUTHORIZED"
      /\ failover = NoRecord /\ ExecutePrimary(task, primary)
  BY DEF PipelinePrimary, PipeInv, StageInv, Bound
<1>2. SimInv /\ StageInv /\ ConfirmInv /\ BindingInv
  BY DEF PipeInv
<1>3. runs = <<>> /\ finding = NoRecord /\ verification = NoRecord
  BY <1>1, <1>2 DEF SimInv, PhaseInv
<1>4. Carries
  BY <1>1 DEF Carries, Then
<1>5. task \in TasksOf(FixtureRefs) /\ primary \in PipeProviders /\ client # "caller"
  BY <1>4, Carried
<1>6. SimInv'
  BY <1>1, <1>2, <1>5, SimPrimary
<1>7. UNCHANGED <<client, reproduced, receipt, task, evidence>> /\ WorkInv' /\ kind' = kind
  BY <1>1, <1>4, <1>6, Goes, Carried
<1>8. ASSUME state' \notin DOMAIN goto PROVE PipeInv'
  BY <1>1, <1>6, <1>8, Goes
<1>9. CASE state' \in {"AUTH_EXPIRED", "SCOPE_INVALID"}
  BY <1>8, <1>9
<1>10. CASE RunProvider("ACTIVE", AfterPrimary, task, primary)
  <2>1. RunLeaves(task, primary)
    BY <1>1, <1>10, RunLeft DEF Starts
  <2>2. failover' = NoRecord /\ verification' = NoRecord
    BY <1>1, <1>3, <2>1 DEF RunLeaves
  <2>3. ASSUME state' \in DOMAIN goto
        PROVE  /\ BindingInv' /\ Len(runs') = 1 /\ runs' # <<>> /\ stage' = goto[state']
    <3>1. runs' = Append(runs, RunRecord(task, primary))
      BY <2>1, <2>3 DEF RunLeaves
    <3>2. BindingInv' /\ Len(runs') = Len(runs) + 1 /\ runs' # <<>>
      BY <1>3, <1>4, <1>5, <3>1, BindingRuns
    <3> QED BY <1>1, <1>3, <1>6, <2>3, <3>2, Goes
  <2>4. /\ client # "generic" => primary.finding = NoRecord
        /\ client \in {"escrow", "spending"} => state' = "FAILOVER_PENDING"
    BY <1>1, <1>2, <2>1 DEF BindingInv, RunLeaves
  <2>5. CASE state' = "FAILOVER_PENDING"
    <3>1. BindingInv' /\ stage' = "failover"
      BY <2>3, <2>5
    <3>2. StageInv'
      BY <1>2, <1>5, <1>7, <2>2, <2>5, <3>1 DEF StageInv, Bound, Ending
    <3>3. ConfirmInv'
      BY <1>2, <1>7, <3>1 DEF ConfirmInv, Ending
    <3> QED BY <1>6, <1>7, <3>1, <3>2, <3>3 DEF PipeInv
  <2>6. CASE state' = "VERIFYING"
    <3>1. BindingInv' /\ stage' = "verify" /\ Len(runs') = 1 /\ runs' # <<>>
      BY <2>3, <2>6
    <3>2. StageInv'
      BY <1>2, <1>5, <1>7, <2>2, <2>4, <2>6, <3>1 DEF StageInv, Bound, Ending
    <3>3. client # "generic" => finding' = NoRecord
      BY <1>3, <2>1, <2>4, <2>6 DEF RunLeaves
    <3>4. ConfirmInv'
      BY <1>2, <1>7, <3>1, <3>3 DEF ConfirmInv, Ending
    <3> QED BY <1>6, <1>7, <3>1, <3>2, <3>4 DEF PipeInv
  <2>7. CASE state' = "ABORTED"
    <3>1. BindingInv' /\ stage' = "report" /\ Len(runs') = 1 /\ runs' # <<>>
      BY <2>3, <2>7
    <3>2. StageInv'
      BY <1>2, <1>5, <1>7, <2>2, <2>4, <2>7, <3>1 DEF StageInv, Bound, Ending
    <3>3. finding' = NoRecord
      BY <1>3, <2>1, <2>7 DEF RunLeaves
    <3>4. ConfirmInv'
      BY <1>2, <1>7, <3>1, <3>3 DEF ConfirmInv, Ending
    <3> QED BY <1>6, <1>7, <3>1, <3>2, <3>4 DEF PipeInv
  <2> QED BY <1>8, <2>5, <2>6, <2>7
<1> QED BY <1>1, <1>9, <1>10 DEF ExecutePrimary, FailTo

\* The fallback provider is one the simulator takes.
LEMMA FallbackIsProvider ==
  ASSUME PipeInv, stage \in Bound
  PROVE  /\ Fallback \in PipeProviders /\ Fallback.provider_id \in STRING
         /\ Fallback.workload = evidence.body
         /\ evidence.body.violations = {} => Fallback.finding = NoRecord
         /\ evidence.body.violations # {} =>
              Fallback.finding \in STRING /\ Fallback.finding # NoRecord
<1>1. evidence \in Evidence /\ evidence.workload = evidence.body
  BY DEF PipeInv, BindingInv
<1> DEFINE b == evidence.body
           v == IF b.violations = {} THEN NoRecord ELSE "violation"
<1>2. b \in Bodies /\ b \in FixtureRefs
  BY <1>1 DEF Evidence, FixtureRefs
<1>3. "B" \in STRING /\ "COMPLETED" \in STRING /\ "violation" \in STRING /\ NoRecord \notin STRING
  BY LiteralsAssumption
<1>4. v \in STRING \cup {NoRecord}
  BY <1>3
<1>5. /\ b.violations = {} => v = NoRecord
      /\ b.violations # {} => v \in STRING /\ v # NoRecord
  BY <1>3
<1>6. Fallback = [provider_id |-> "B", outcome |-> "COMPLETED", workload |-> b, finding |-> v]
  BY <1>1 DEF Fallback
<1>7. b = evidence.body
  OBVIOUS
<1> HIDE DEF b, v
<1> QED BY <1>2, <1>3, <1>4, <1>5, <1>6, <1>7 DEF PipeProviders

\* record_failover.
LEMMA FailoverKeeps ==
  ASSUME PipeInv, PipelineFailover
  PROVE  PipeInv'
<1> DEFINE goto == [FAILOVER_PENDING |-> "fallback"]
<1>1. /\ stage = "failover" /\ stage \in Bound /\ Then(goto) /\ state = "FAILOVER_PENDING"
      /\ RecordFailover(Fallback, scope, TRUE)
  BY DEF PipelineFailover, PipeInv, StageInv, Bound
<1>2. SimInv /\ StageInv /\ ConfirmInv
  BY DEF PipeInv
<1>3. scope \in ScopeEnvelopes
  BY <1>2 DEF SimInv, SimTypeOK
<1>4. Fallback.provider_id \in STRING
  BY <1>1, FallbackIsProvider
<1>5. SimInv'
  BY <1>1, <1>2, <1>3, <1>4, SimFailover
<1>6. ASSUME state' \notin DOMAIN goto PROVE PipeInv'
  BY <1>1, <1>5, <1>6, Goes
<1>7. ASSUME state' = "FAILOVER_PENDING" PROVE PipeInv'
  <2>1. UNCHANGED runs
    BY <1>1 DEF RecordFailover, FailTo
  <2>2. Carries /\ UNCHANGED <<client, reproduced, receipt, task, evidence>> /\ stage' = "fallback"
    BY <1>1, <1>5, <1>7, Goes
  <2>3. WorkInv' /\ BindingInv' /\ kind' = kind /\ client # "caller"
    BY <2>1, <2>2, Carried, BindingKept
  <2>4. StageInv'
    BY <1>2, <1>7, <2>2, <2>3 DEF StageInv, Bound, Ending
  <2>5. ConfirmInv'
    BY <1>2, <2>2 DEF ConfirmInv, Ending
  <2> QED BY <1>5, <2>3, <2>4, <2>5 DEF PipeInv
<1> QED BY <1>6, <1>7

\* execute_fallback: the finding is there exactly when the workload has a violation.
LEMMA FallbackKeeps ==
  ASSUME PipeInv, PipelineFallback
  PROVE  PipeInv'
<1> DEFINE goto == [VERIFYING |-> "verify"]
           f    == Fallback
<1>1. /\ stage = "fallback" /\ stage \in Bound /\ Then(goto) /\ state = "FAILOVER_PENDING"
      /\ ExecuteFallback(task, f)
  BY DEF PipelineFallback, PipeInv, StageInv, Bound
<1>2. SimInv /\ StageInv /\ ConfirmInv
  BY DEF PipeInv
<1>3. Len(runs) = 1 /\ finding = NoRecord /\ verification = NoRecord
  BY <1>1, <1>2 DEF SimInv, PhaseInv
<1>4. Carries
  BY <1>1 DEF Carries, Then
<1>5. task \in TasksOf(FixtureRefs) /\ client # "caller"
  BY <1>4, Carried
<1>6. /\ f \in PipeProviders /\ f.workload = evidence.body
      /\ evidence.body.violations = {} => f.finding = NoRecord
      /\ evidence.body.violations # {} => f.finding \in STRING /\ f.finding # NoRecord
  BY <1>1, FallbackIsProvider
<1> HIDE DEF f
<1>7. SimInv'
  BY <1>1, <1>2, <1>5, <1>6, SimFallback
<1>8. /\ UNCHANGED <<client, reproduced, receipt, task, evidence>> /\ WorkInv'
      /\ UNCHANGED <<kind, violations>>
  BY <1>1, <1>4, <1>7, Goes, Carried
<1>9. ASSUME state' \notin DOMAIN goto PROVE PipeInv'
  BY <1>1, <1>7, <1>9, Goes
<1>10. ASSUME state' = "VERIFYING" PROVE PipeInv'
  <2>1. RunProvider("ACTIVE_ON_FALLBACK", AfterFallback, task, f)
    BY <1>1, <1>10 DEF ExecuteFallback, FailTo
  <2>2. RunLeaves(task, f)
    BY <1>1, <2>1, RunLeft DEF Starts
  <2>3. runs' = Append(runs, RunRecord(task, f)) /\ verification' = NoRecord
    BY <1>3, <1>10, <2>2 DEF RunLeaves
  <2>4. BindingInv' /\ Len(runs') = Len(runs) + 1 /\ runs' # <<>>
    BY <1>3, <1>4, <1>6, <2>3, BindingRuns
  <2>5. Len(runs') = 2 /\ stage' = "verify"
    BY <1>1, <1>3, <1>7, <1>10, <2>4, Goes
  <2>6. finding' # NoRecord <=> evidence.body.violations # {}
    <3>1. CASE evidence.body.violations = {}
      BY <1>3, <1>6, <1>10, <2>2, <3>1 DEF RunLeaves
    <3>2. CASE evidence.body.violations # {}
      <4>1. finding' = FindingOf(task, f)
        BY <1>6, <1>10, <2>2, <3>2 DEF RunLeaves
      <4>2. FindingOf(task, f) \in FindingRecords
        BY <1>3, <1>6, <3>2 DEF FindingOf, FindingRecords
      <4> QED BY <3>2, <4>1, <4>2, NoRecordAssumption
    <3> QED BY <3>1, <3>2
  <2>7. StageInv'
    BY <1>2, <1>5, <1>8, <1>10, <2>3, <2>4, <2>5 DEF StageInv, Bound, Ending
  <2>8. ConfirmInv'
    BY <1>2, <1>8, <2>5, <2>6 DEF ConfirmInv, Ending
  <2> QED BY <1>7, <1>8, <2>4, <2>7, <2>8 DEF PipeInv
<1> QED BY <1>9, <1>10

\* verify.
LEMMA VerifyKeeps ==
  ASSUME PipeInv, PipelineVerify
  PROVE  PipeInv'
<1> DEFINE goto == [CLOSED |-> "report", VERIFYING |-> "confirm"]
<1>1. /\ stage = "verify" /\ stage \in Bound /\ Then(goto) /\ state = "VERIFYING"
      /\ Verify(reproduced)
  BY DEF PipelineVerify, PipeInv, StageInv, Bound
<1>2. SimInv /\ StageInv /\ ConfirmInv
  BY DEF PipeInv
<1>3. reproduced \in BOOLEAN
  BY <1>2 DEF ConfirmInv
<1>4. SimInv'
  BY <1>1, <1>2, <1>3, SimVerify
<1>5. UNCHANGED <<runs, failover>> /\ state' \in {"CLOSED", "VERIFYING"}
  BY <1>1 DEF Verify
<1>6. /\ Carries /\ UNCHANGED <<client, reproduced, receipt, task, evidence>> /\ stage' = goto[state']
  BY <1>1, <1>4, <1>5, Goes
<1>7. /\ WorkInv' /\ BindingInv' /\ UNCHANGED <<kind, violations>> /\ client # "caller"
  BY <1>5, <1>6, Carried, BindingKept
<1>8. /\ failover # NoRecord => Len(runs) = 2
      /\ runs # <<>>
      /\ client \in {"escrow", "spending"} => Len(runs) = 2
  BY <1>1, <1>2 DEF StageInv
<1>9. /\ Len(runs) = 2 => (finding # NoRecord <=> evidence.body.violations # {})
      /\ client # "generic" /\ finding # NoRecord => Len(runs) = 2
  BY <1>1, <1>2 DEF ConfirmInv
<1>10. CASE finding = NoRecord
  <2>1. finding' = NoRecord /\ stage' = "report" /\ state' = "CLOSED"
    BY <1>1, <1>6, <1>10 DEF Verify
  <2>2. StageInv'
    BY <1>2, <1>5, <1>6, <1>7, <1>8, <2>1 DEF StageInv, Bound, Ending
  <2>3. ConfirmInv'
    BY <1>3, <1>5, <1>6, <1>7, <1>9, <1>10, <2>1 DEF ConfirmInv, Ending
  <2> QED BY <1>4, <1>7, <2>2, <2>3 DEF PipeInv
<1>11. CASE finding # NoRecord
  <2>1. finding' # NoRecord
    <3>1. finding \in FindingRecords
      BY <1>2, <1>11 DEF SimInv, SimTypeOK
    <3>2. finding' \in FindingRecords
      BY <1>1, <1>11, <3>1 DEF Verify, FindingRecords
    <3> QED BY <3>2, NoRecordAssumption
  <2>2. CASE reproduced
    <3>1. stage' = "confirm" /\ state' = "VERIFYING"
      BY <1>1, <1>6, <1>11, <2>2 DEF Verify
    <3>2. StageInv'
      BY <1>2, <1>5, <1>6, <1>7, <1>8, <3>1 DEF StageInv, Bound, Ending
    <3>3. ConfirmInv'
      BY <1>3, <1>5, <1>6, <1>7, <1>9, <1>11, <2>1, <3>1 DEF ConfirmInv, Ending
    <3> QED BY <1>4, <1>7, <3>2, <3>3 DEF PipeInv
  <2>3. CASE ~reproduced
    <3>1. stage' = "report" /\ state' = "CLOSED"
      BY <1>1, <1>6, <1>11, <2>3 DEF Verify
    <3>2. StageInv'
      BY <1>2, <1>5, <1>6, <1>7, <1>8, <3>1 DEF StageInv, Bound, Ending
    <3>3. ConfirmInv'
      BY <1>3, <1>5, <1>6, <1>7, <1>9, <1>11, <2>1, <2>3, <3>1 DEF ConfirmInv, Ending
    <3> QED BY <1>4, <1>7, <3>2, <3>3 DEF PipeInv
  <2> QED BY <2>2, <2>3
<1> QED BY <1>10, <1>11

\* confirm_finding.
LEMMA ConfirmKeeps ==
  ASSUME PipeInv, PipelineConfirm
  PROVE  PipeInv'
<1> DEFINE goto == [CLOSED |-> "report"]
<1>1. /\ stage = "confirm" /\ stage \in Bound /\ Then(goto) /\ ConfirmFinding
  BY DEF PipelineConfirm, Bound
<1>2. SimInv /\ StageInv /\ ConfirmInv
  BY DEF PipeInv
<1>3. SimInv'
  BY <1>1, <1>2, SimConfirm
<1>4. UNCHANGED <<runs, failover>> /\ state' = "CLOSED" /\ finding # NoRecord
  BY <1>1 DEF ConfirmFinding
<1>5. Carries /\ UNCHANGED <<client, reproduced, receipt, task, evidence>> /\ stage' = "report"
  BY <1>1, <1>3, <1>4, Goes
<1>6. /\ WorkInv' /\ BindingInv' /\ UNCHANGED <<kind, violations>> /\ client # "caller"
  BY <1>4, <1>5, Carried, BindingKept
<1>7. finding' # NoRecord /\ finding'.status = "CONFIRMED"
  <2>1. finding \in FindingRecords
    BY <1>2, <1>4 DEF SimInv, SimTypeOK
  <2>2. finding' \in FindingRecords /\ finding'.status = "CONFIRMED"
    BY <1>1, <2>1 DEF ConfirmFinding, FindingRecords
  <2> QED BY <2>2, NoRecordAssumption
<1>8. /\ failover # NoRecord => Len(runs) = 2
      /\ runs # <<>>
      /\ client \in {"escrow", "spending"} => Len(runs) = 2
  BY <1>1, <1>2 DEF StageInv
<1>9. /\ Len(runs) = 2 => (finding # NoRecord <=> evidence.body.violations # {})
      /\ client # "generic" /\ finding # NoRecord => Len(runs) = 2
      /\ reproduced \in BOOLEAN
  BY <1>1, <1>2 DEF ConfirmInv
<1>10. StageInv'
  BY <1>2, <1>4, <1>5, <1>6, <1>8 DEF StageInv, Bound, Ending
<1>11. ConfirmInv'
  BY <1>4, <1>5, <1>6, <1>7, <1>9 DEF ConfirmInv, Ending
<1> QED BY <1>3, <1>6, <1>10, <1>11 DEF PipeInv

\* The verifier accepts a pipeline's bundle exactly when it is pinned.
LEMMA AcceptsBound ==
  ASSUME PipeInv, stage \in Ending
  PROVE  VerifyEvidenceBundle(Bundle(evidence)) <=> Pinned
<1> DEFINE b == Bundle(evidence)
<1>1. SimInv /\ StageInv /\ BindingInv
  BY DEF PipeInv
<1>2. /\ state \in {"CLOSED", "ABORTED"} /\ runs # <<>>
      /\ failover # NoRecord => Len(runs) = 2
  BY <1>1 DEF StageInv
<1>3. state # "NEW" /\ state \in TerminalStates
  BY <1>2, Terminal
<1>4. VerifyEvidenceBundle(b) <=> WorkloadBinding(b)
  BY <1>1, <1>2, <1>3, Verifier
<1>5. /\ evidence \in Evidence /\ evidence.body = evidence.workload /\ evidence.task = task
      /\ \A i \in DOMAIN runs : runs[i].task = task
  BY <1>1 DEF BindingInv, Bound
<1>6. evidence # NoRecord
  BY <1>5, DocumentsAssumption
<1>7. b.consumer = evidence /\ b.runs = runs
  BY DEF Bundle
<1> HIDE DEF b
<1>8. WorkloadBinding(b) <=> Pinned
  BY <1>2, <1>5, <1>6, <1>7 DEF WorkloadBinding, Pinned
<1> QED BY <1>4, <1>8 DEF b

\* The bundle and its receipt.
LEMMA ReportKeeps ==
  ASSUME PipeInv, PipelineReport
  PROVE  PipeInv'
<1> DEFINE ok == VerifyEvidenceBundle(Bundle(evidence))
<1>1. /\ stage = "report" /\ stage \in Bound /\ stage \in Ending /\ stage' \in {"typed", "done"}
      /\ receipt' = IF ok THEN "PASS" ELSE "FAIL"
      /\ Carries /\ UNCHANGED simVars
  BY DEF PipelineReport, Bound, Ending, Carries
<1>2. SimInv /\ StageInv /\ ConfirmInv
  BY DEF PipeInv
<1>3. SimInv' /\ UNCHANGED <<state, runs, failover, finding, verification>>
  BY <1>1, <1>2, SimKept DEF simVars
<1>4. /\ WorkInv' /\ BindingInv' /\ UNCHANGED <<kind, violations>> /\ client # "caller"
  BY <1>1, <1>3, Carried, BindingKept
<1>5. UNCHANGED <<client, reproduced, evidence, task>>
  BY <1>1 DEF Carries
<1>6. ok <=> Pinned
  BY <1>1, AcceptsBound
<1> HIDE DEF ok
<1>7. receipt' = "PASS" <=> Pinned'
  <2>1. Pinned' <=> Pinned
    BY <1>3, <1>5 DEF Pinned
  <2> QED BY <1>1, <1>6, <2>1
<1>8. StageInv'
  BY <1>1, <1>2, <1>3, <1>4, <1>5 DEF StageInv, Bound, Ending
<1>9. ConfirmInv'
  BY <1>1, <1>2, <1>3, <1>4, <1>5, <1>7 DEF ConfirmInv, Ending
<1> QED BY <1>3, <1>4, <1>8, <1>9 DEF PipeInv

\* The typed result of run_external_workload.
LEMMA TypedKeeps ==
  ASSUME PipeInv, TypedResult
  PROVE  PipeInv'
<1>1. /\ stage = "typed" /\ stage \in Bound /\ stage \in Ending /\ stage' \in {"done", "raised"}
      /\ Carries /\ UNCHANGED simVars /\ UNCHANGED receipt
  BY DEF TypedResult, Bound, Ending, Carries
<1>2. SimInv /\ StageInv /\ ConfirmInv
  BY DEF PipeInv
<1>3. SimInv' /\ UNCHANGED <<state, runs, failover, finding, verification>>
  BY <1>1, <1>2, SimKept DEF simVars
<1>4. /\ WorkInv' /\ BindingInv' /\ UNCHANGED <<kind, violations>> /\ client # "caller"
  BY <1>1, <1>3, Carried, BindingKept
<1>5. UNCHANGED <<client, reproduced, evidence, task>> /\ UNCHANGED workVars
  BY <1>1 DEF Carries
<1>6. CASE stage' = "raised"
  BY <1>3, <1>4, <1>5, <1>6, Raised
<1>7. CASE stage' = "done"
  <2>1. StageInv'
    BY <1>1, <1>2, <1>3, <1>4, <1>5, <1>7 DEF StageInv, Bound, Ending
  <2>2. ConfirmInv'
    <3>1. Pinned' <=> Pinned
      BY <1>3, <1>5 DEF Pinned
    <3> QED BY <1>1, <1>2, <1>3, <1>4, <1>5, <1>7, <3>1 DEF ConfirmInv, Ending
  <2> QED BY <1>3, <1>4, <2>1, <2>2 DEF PipeInv
<1> QED BY <1>1, <1>6, <1>7

\* An operation of the workload.
LEMMA WorkloadKeeps ==
  ASSUME PipeInv, RunWorkload
  PROVE  PipeInv'
<1>1. stage = "workload" /\ WorkStep /\ UNCHANGED simVars /\ UNCHANGED pipeVars
  BY DEF RunWorkload
<1>2. SimInv /\ WorkInv /\ StageInv /\ BindingInv /\ ConfirmInv
  BY DEF PipeInv
<1>3. SimInv' /\ WorkInv' /\ kind' = kind
  BY <1>1, <1>2, SimKept, WorkSteps
<1>4. UNCHANGED <<state, runs, failover, finding, verification, client, stage, reproduced>>
  BY <1>1 DEF simVars, pipeVars
<1>5. StageInv'
  BY <1>1, <1>2, <1>3, <1>4 DEF StageInv
<1>6. BindingInv'
  BY <1>1, <1>2, <1>4 DEF BindingInv, StageInv, Bound, Ending
<1>7. ConfirmInv'
  BY <1>1, <1>2, <1>4 DEF ConfirmInv, Ending
<1> QED BY <1>3, <1>5, <1>6, <1>7 DEF PipeInv

\* What normalize returns is of the workload as it stands.
LEMMA NormalizedBody ==
  ASSUME WorkInv, NEW b \in Normalized
  PROVE  /\ b \in Bodies /\ b \in FixtureRefs /\ b.violations \subseteq violations
         /\ client \in {"escrow", "spending"} => b = Body
<1>1. Body \in Bodies /\ Body.violations = violations
  BY DEF WorkInv, Body, Bodies
<1>2. b = Body \/ b = [Body EXCEPT !.violations = {}]
  BY DEF Normalized
<1>3. client \in {"escrow", "spending"} => b = Body
  BY DEF Normalized
<1>4. b \in Bodies /\ b.violations \subseteq violations
  <2> DEFINE c == Body
  <2>1. c \in Bodies /\ c.violations = violations /\ (b = c \/ b = [c EXCEPT !.violations = {}])
    BY <1>1, <1>2
  <2> HIDE DEF c
  <2> QED BY <2>1 DEF Bodies
<1> QED BY <1>3, <1>4 DEF FixtureRefs

\* An adapter's task and primary provider.
LEMMA AdapterDocuments ==
  ASSUME NEW b \in FixtureRefs, client \in Clients, NEW t \in AdapterTasks(b), NEW p \in Primaries(b)
  PROVE  /\ t \in TasksOf(FixtureRefs) /\ p \in PipeProviders
         /\ client # "generic" => t.fixture = b /\ p.workload = b /\ p.finding = NoRecord
         /\ client \in {"escrow", "spending"} => p.outcome = FailoverOutcome
<1>1. \A k \in Tasks : BoundTask(k, b) \in TasksOf(FixtureRefs) /\ BoundTask(k, b).fixture = b
  <2>1. \A k \in Tasks : k \in TasksOf(FixtureRefs)
    BY Documents
  <2> QED BY <2>1 DEF BoundTask, TasksOf
<1>2. t \in TasksOf(FixtureRefs) /\ (client # "generic" => t.fixture = b)
  <2>1. CASE client = "generic"
    BY <1>1, <2>1, Documents DEF AdapterTasks
  <2>2. CASE client # "generic"
    BY <1>1, <2>2 DEF AdapterTasks
  <2> QED BY <2>1, <2>2
<1>3. {"A", FailoverOutcome, "COMPLETED"} \subseteq STRING
  BY LiteralsAssumption
<1>4. CASE client = "generic"
  <2>1. \A g \in GenericPrimaries : g \in PipeProviders
    BY Documents
  <2>2. \/ p \in GenericPrimaries
        \/ \E g \in GenericPrimaries : p = [g EXCEPT !.workload = b]
    BY <1>4 DEF Primaries
  <2>3. p \in PipeProviders
    BY <2>1, <2>2 DEF PipeProviders
  <2> QED BY <1>2, <1>4, <2>3
<1>5. CASE client = "sdk"
  <2>1. p = [provider_id |-> "A", outcome |-> "COMPLETED", finding |-> NoRecord, workload |-> b]
    BY <1>5 DEF Primaries, SdkPrimary
  <2> QED BY <1>2, <1>3, <1>5, <2>1 DEF PipeProviders
<1>6. CASE client \notin {"generic", "sdk"}
  <2>1. p = [provider_id |-> "A", outcome |-> FailoverOutcome, finding |-> NoRecord, workload |-> b]
    BY <1>6 DEF Primaries, RestrictedPrimary
  <2> QED BY <1>2, <1>3, <2>1 DEF PipeProviders
<1> QED BY <1>4, <1>5, <1>6

\* normalize and fixture: what they make is bound to the workload as it stands.
LEMMA NormalizeKeeps ==
  ASSUME PipeInv, Normalize
  PROVE  PipeInv'
<1>1. SimInv /\ WorkInv /\ StageInv /\ ConfirmInv
  BY DEF PipeInv
<1>2. /\ stage = "workload" /\ stage' = "authorize"
      /\ reproduced' \in BOOLEAN /\ (client # "generic" => reproduced' = TRUE)
      /\ UNCHANGED simVars /\ UNCHANGED workVars /\ UNCHANGED client
  BY DEF Normalize
<1>3. PICK b \in Normalized :
         /\ task' \in AdapterTasks(b) /\ primary' \in Primaries(b)
         /\ evidence' = [body |-> b, workload |-> b, task |-> task']
  BY DEF Normalize
<1>4. SimInv' /\ WorkInv' /\ UNCHANGED <<kind, machine, violations, Body>>
  BY <1>1, <1>2, SimKept, WorkKept
<1>5. UNCHANGED <<state, runs, failover, finding, verification>>
  BY <1>2 DEF simVars
<1>6. state = "NEW" /\ client # "caller" /\ client \in Clients
  BY <1>1, <1>2 DEF StageInv
<1>7. runs = <<>>
  BY <1>1, <1>6 DEF SimInv, PhaseInv
<1>8. failover = NoRecord
  BY <1>1, <1>7 DEF SimInv, GrantInv
<1>9. /\ b \in Bodies /\ b \in FixtureRefs /\ b.violations \subseteq violations
      /\ client \in {"escrow", "spending"} => b = Body
  BY <1>1, NormalizedBody
<1>10. /\ task' \in TasksOf(FixtureRefs) /\ primary' \in PipeProviders
       /\ client # "generic" =>
            task'.fixture = b /\ primary'.workload = b /\ primary'.finding = NoRecord
       /\ client \in {"escrow", "spending"} => primary'.outcome = FailoverOutcome
  BY <1>3, <1>6, <1>9, AdapterDocuments
<1>11. evidence' \in Evidence /\ evidence'.body = b /\ evidence'.workload = b
       /\ evidence'.task = task'
  BY <1>3, <1>9, <1>10 DEF Evidence
<1>12. BindingInv'
  BY <1>2, <1>4, <1>5, <1>6, <1>7, <1>9, <1>10, <1>11 DEF BindingInv
<1>13. StageInv'
  BY <1>1, <1>2, <1>4, <1>5, <1>6, <1>8 DEF StageInv, Bound, Ending
<1>14. ConfirmInv'
  BY <1>2 DEF ConfirmInv, Ending
<1> QED BY <1>4, <1>12, <1>13, <1>14 DEF PipeInv

\* normalize raises.
LEMMA NormalizeRaisesKeeps ==
  ASSUME PipeInv, NormalizeRaises
  PROVE  PipeInv'
<1>1. /\ stage = "workload" /\ stage' = "raised"
      /\ UNCHANGED simVars /\ UNCHANGED <<workVars, client, reproduced>>
  BY DEF NormalizeRaises
<1>2. client # "caller"
  BY <1>1 DEF PipeInv, StageInv
<1>3. SimInv'
  BY <1>1, SimKept DEF PipeInv
<1> QED BY <1>1, <1>2, <1>3, Raised

\* A workload starts with nothing moved and nothing reported.
LEMMA WorkStarts ==
  ASSUME NEW k \in {"escrow", "spending"}, WorkInit(k)
  PROVE  WorkInv
<1>1. /\ kind = k /\ violations = {} /\ machine \in Machines
      /\ machine.out = 0 /\ machine.back = 0 /\ machine.amount = 0
      /\ machine.executed = FALSE /\ machine.rejected = FALSE
      /\ machine.state = (IF k = "escrow" THEN "CREATED" ELSE "ACTIVE")
  BY DEF WorkInit, Machines
<1>2. Paid(machine)
  BY <1>1 DEF Paid
<1>3. Report(machine) = {}
  <2>1. CASE kind = "escrow"
    BY <1>1, <2>1, EscrowBroken DEF Report, DepositAmount
  <2>2. CASE kind = "spending"
    BY <1>1, <2>2, SpendingBroken DEF Report, PerActionLimit, CumulativeQuota
  <2> QED BY <1>1, <2>1, <2>2
<1> QED BY <1>1, <1>2, <1>3 DEF WorkInv

\* The invariant holds at the start ...
LEMMA PipeStarts ==
  ASSUME TRCPInit
  PROVE  PipeInv
<1>1. PICK a \in Authorizations, s \in Scopes : SimInit(a, s, 0)
  BY DEF TRCPInit
<1>2. a \in AuthorizationRecords /\ s \in ScopeEnvelopes
  BY Documents
<1>3. SimInv
  BY <1>1, <1>2, SimStarts
<1>4. state = "NEW" /\ runs = <<>> /\ failover = NoRecord /\ finding = NoRecord
  BY <1>1 DEF SimInit
<1>5. WorkInit(IF client = "escrow" THEN "escrow" ELSE "spending")
  BY DEF TRCPInit
<1>6. WorkInv
  BY <1>5, WorkStarts
<1>7. client \in Clients /\ stage = (IF client = "caller" THEN "calls" ELSE "workload")
      /\ reproduced = TRUE
  BY DEF TRCPInit
<1>8. StageInv
  BY <1>4, <1>5, <1>7 DEF StageInv, WorkInit, Ending, Bound
<1>9. BindingInv
  BY <1>4, <1>7 DEF BindingInv, Bound, Ending
<1>10. ConfirmInv
  BY <1>7 DEF ConfirmInv, Ending
<1> QED BY <1>3, <1>6, <1>8, <1>9, <1>10 DEF PipeInv

\* ... and after every step.
LEMMA PipeStep ==
  ASSUME PipeInv, [TRCPNext]_trcpVars
  PROVE  PipeInv'
<1>1. CASE CallSimulator
  BY <1>1, CallKeeps
<1>2. CASE RunWorkload
  BY <1>2, WorkloadKeeps
<1>3. CASE Normalize
  BY <1>3, NormalizeKeeps
<1>4. CASE NormalizeRaises
  BY <1>4, NormalizeRaisesKeeps
<1>5. CASE PipelineAuthorize
  BY <1>5, AuthorizeKeeps
<1>6. CASE PipelinePrimary
  BY <1>6, PrimaryKeeps
<1>7. CASE PipelineFailover
  BY <1>7, FailoverKeeps
<1>8. CASE PipelineFallback
  BY <1>8, FallbackKeeps
<1>9. CASE PipelineVerify
  BY <1>9, VerifyKeeps
<1>10. CASE PipelineConfirm
  BY <1>10, ConfirmKeeps
<1>11. CASE PipelineReport
  BY <1>11, ReportKeeps
<1>12. CASE TypedResult
  BY <1>12, TypedKeeps
<1>13. CASE UNCHANGED trcpVars
  <2>1. UNCHANGED simVars /\ UNCHANGED workVars /\ UNCHANGED pipeVars
    BY <1>13 DEF trcpVars
  <2>2. SimInv' /\ WorkInv' /\ UNCHANGED <<kind, violations, Body>>
    BY <2>1, SimKept, WorkKept DEF PipeInv
  <2>3. UNCHANGED <<state, runs, failover, finding, verification>>
    BY <2>1 DEF simVars
  <2>4. UNCHANGED <<client, stage, primary, task, evidence, reproduced, receipt, replay>>
    BY <2>1 DEF pipeVars
  <2>5. StageInv'
    BY <2>2, <2>3, <2>4 DEF PipeInv, StageInv
  <2>6. BindingInv'
    BY <2>2, <2>3, <2>4 DEF PipeInv, BindingInv
  <2>7. ConfirmInv'
    BY <2>2, <2>3, <2>4 DEF PipeInv, ConfirmInv, Pinned
  <2> QED BY <2>2, <2>5, <2>6, <2>7 DEF PipeInv
<1> QED BY <1>1, <1>2, <1>3, <1>4, <1>5, <1>6, <1>7, <1>8, <1>9, <1>10, <1>11, <1>12, <1>13
        DEF TRCPNext

\* What a caller's report says is what the verifier accepts.
LEMMA CallerVerified ==
  ASSUME PipeInv
  PROVE  VerifierAcceptsExactlyFinished
<1>1. SUFFICES ASSUME client = "caller", state # "NEW"
               PROVE  VerifyEvidenceBundle(Bundle(NoRecord)) <=>
                        /\ state \in TerminalStates
                        /\ failover # NoRecord => Len(runs) = 2
                        /\ \A i \in DOMAIN runs : runs[i].workload = NoRecord
  BY DEF VerifierAcceptsExactlyFinished
<1> DEFINE b == Bundle(NoRecord)
<1>2. SimInv
  BY DEF PipeInv
<1>3. b.consumer = NoRecord /\ b.runs = runs
  BY DEF Bundle
<1>4. VerifyEvidenceBundle(b) <=> /\ state \in TerminalStates
                                  /\ failover # NoRecord => Len(runs) = 2
                                  /\ WorkloadBinding(b)
  BY <1>1, <1>2, Verifier
<1> HIDE DEF b
<1>5. WorkloadBinding(b) <=> \A i \in DOMAIN runs : runs[i].workload = NoRecord
  BY <1>3 DEF WorkloadBinding
<1> QED BY <1>4, <1>5 DEF b

\* A pipeline that ends with a breach ends with it confirmed.
LEMMA BreachConfirmed ==
  ASSUME PipeInv
  PROVE  BreachIsConfirmed
<1>1. SUFFICES ASSUME stage = "done" PROVE BreachIsConfirmed
  BY DEF BreachIsConfirmed
<1>2. SimInv /\ WorkInv /\ StageInv /\ BindingInv /\ ConfirmInv
  BY DEF PipeInv
<1>3. stage \in Ending /\ stage \in Bound
  BY <1>1 DEF Ending, Bound
<1>4. receipt = "PASS" <=> Pinned
  BY <1>1, <1>2 DEF ConfirmInv
<1>5. runs \in Seq(RunRecords) /\ runs # <<>>
  BY <1>2, <1>3 DEF SimInv, SimTypeOK, StageInv
<1>6. /\ evidence.workload = evidence.body /\ runs[1].workload = primary.workload
      /\ client # "generic" => primary.workload = evidence.body /\ task.fixture = evidence.body
      /\ evidence.body.violations \subseteq violations
  BY <1>2, <1>3, <1>5 DEF BindingInv
<1>7. 1 \in DOMAIN runs
  BY <1>5
<1>8. client # "generic" => receipt = "PASS"
  BY <1>4, <1>6, <1>7 DEF Pinned
<1>9. client \in {"escrow", "spending"} => Len(runs) = 2 /\ reproduced /\ evidence.body = Body
  BY <1>2, <1>3 DEF StageInv, BindingInv
<1>10. ASSUME Len(runs) = 2, reproduced, evidence.body = Body, Overpaid(machine)
       PROVE  finding # NoRecord /\ finding.status = "CONFIRMED"
  <2>1. evidence.body.violations # {}
    BY <1>2, <1>10, OverpaidIsReported DEF Body
  <2>2. finding # NoRecord
    BY <1>2, <1>3, <1>10, <2>1 DEF ConfirmInv
  <2>3. finding.status = "CONFIRMED"
    BY <1>2, <1>3, <1>10, <2>2 DEF ConfirmInv
  <2> QED BY <2>2, <2>3
<1>11. ASSUME client # "generic", finding # NoRecord
       PROVE  \/ Overpaid(machine) \/ ExecutedThoughRejected(machine)
              \/ violations \cap Refusals # {}
  <2>1. violations # {}
    BY <1>2, <1>3, <1>6, <1>11 DEF ConfirmInv
  <2>2. violations \ Refusals # {} => Caused(machine)
    BY <1>2 DEF WorkInv
  <2> QED BY <2>1, <2>2 DEF Caused
<1> QED BY <1>1, <1>4, <1>8, <1>9, <1>10, <1>11 DEF BreachIsConfirmed, Pinned

(***************************************************************************)
(* In every reachable state of a session what the trace tells is what the  *)
(* simulator holds, the effective scope is within the first one, every run *)
(* was granted, and a pipeline's records are bound to its workload.        *)
(***************************************************************************)
THEOREM SessionInvariant == TRCPSpec => []PipeInv
<1>1. TRCPInit => PipeInv
  BY PipeStarts
<1>2. PipeInv /\ [TRCPNext]_trcpVars => PipeInv'
  BY PipeStep
<1> QED BY <1>1, <1>2, PTL DEF TRCPSpec

(***************************************************************************)
(* A provider run, primary or fallback, is made while the authorization    *)
(* and the first scope are valid, for an action the first scope allows,    *)
(* and a fallback run repeats the primary's task at the provider the last  *)
(* failover decision names, whatever calls of execute_primary,             *)
(* record_failover and advance_time came before.                           *)
(***************************************************************************)
THEOREM SessionWithinGrant == TRCPSpec => []RunsWithinGrant
<1>1. PipeInv => RunsWithinGrant
  BY RunsGranted DEF PipeInv
<1> QED BY <1>1, SessionInvariant, PTL

(***************************************************************************)
(* build_causal_lineage always makes one chain, with a fallback run, a     *)
(* finding and a verification in it exactly when the session has them.     *)
(***************************************************************************)
THEOREM SessionLineage == TRCPSpec => []LineageIsOneStory
<1>1. PipeInv => LineageIsOneStory
  BY LineageChain DEF PipeInv
<1> QED BY <1>1, SessionInvariant, PTL

(***************************************************************************)
(* Once authorize has succeeded, verify_evidence_bundle accepts what a     *)
(* caller of the simulator reports exactly when the session has ended, no  *)
(* failover decision is without its fallback run and no run's metadata     *)
(* names a workload: none of its other checks can fail on a report the     *)
(* simulator made.                                                         *)
(***************************************************************************)
THEOREM VerifierVerdict == TRCPSpec => []VerifierAcceptsExactlyFinished
<1>1. PipeInv => VerifierAcceptsExactlyFinished
  BY CallerVerified
<1> QED BY <1>1, SessionInvariant, PTL

(***************************************************************************)
(* A shipped consumer whose workload moved money it should not have, for   *)
(* any integer amounts, ends with a CONFIRMED finding and a PASS, and so   *)
(* does the finding of any workload that reports its violations once its   *)
(* fallback run is reproduced. No shipped consumer confirms a finding      *)
(* without a breach, an executed rejection or a refusal, and               *)
(* verify_evidence_bundle says PASS exactly when the task pins the         *)
(* workload's digest and a run carries it.                                 *)
(***************************************************************************)
THEOREM BreachEndsConfirmed == TRCPSpec => []BreachIsConfirmed
<1>1. PipeInv => BreachIsConfirmed
  BY BreachConfirmed
<1> QED BY <1>1, SessionInvariant, PTL
=============================================================================
