------------------------- MODULE GovernedTransaction -------------------------
(***************************************************************************)
(* A governed transaction from its approvals to its portable evidence: the  *)
(* approval engine, the capsule and identity sessions above it, receipts    *)
(* and the projection ledger.                                               *)
(*                                                                         *)
(* A behaviour is about one boundary: the engine called directly, from the  *)
(* creation of its files on; a capsule session, from a ready ledger on; an  *)
(* identity session or receipts, from an attested capsule on; or the        *)
(* projection ledger, which takes any receipt's hash.                       *)
(***************************************************************************)
EXTENDS PortableEvidence, ProjectionLedger

CONSTANT SignedPolicies   \* policies one approval satisfies, for the sessions
                          \* and the receipts

ASSUME SignedAssumption == SignedPolicies \subseteq Policies

VARIABLE boundary   \* what is called

vars == <<engineVars, evidenceVars, projectionVars, boundary>>

\* The engine's files with a ready ledger
ReadyFiles ==
    /\ policyFile \in SignedPolicies /\ snapshotFile = policyFile
    /\ \E e \in Attestations[policyFile] :
         /\ ValidEntries(<<e>>, policyFile) /\ Ready(policyFile, <<e>>)
         /\ ledger = [snapshot |-> policyFile, entries |-> <<e>>]
         /\ recorded = <<e>>

Init ==
    /\ boundary \in {"engine", "capsule", "identity", "receipts", "projections"}
    /\ IF boundary \in {"engine", "projections"} THEN EngineInit ELSE EngineStart /\ ReadyFiles
    /\ EvidenceInit
    /\ IF boundary \in {"identity", "receipts"}
       THEN /\ capsule = [policy |-> policyFile, entries |-> ledger.entries, anchor |-> 0, issued |-> 0]
            /\ bundle = [capsule |-> capsule, issued |-> 0]
       ELSE capsule = NoFile /\ bundle = NoFile
    /\ ProjectionInit

\* The engine's methods that _require_ready guards
GatedCall(p) ==
    /\ boundary \in {"engine", "receipts"}
    /\ \E purpose \in {"authorize", "run_next", "run"} : Gate(p, "idle", purpose)
    /\ UNCHANGED evidenceVars

\* The same through a session.  Bound: run_next is run through the engine only.
SessionCall(p) ==
    \/ \E purpose \in {"authorize", "run"} :
         \/ boundary = "capsule" /\ CapsuleVerify(p, "idle", purpose)
         \/ boundary = "identity" /\ IdentityVerify(p, purpose)
    \/ IdentityMatch(p)
    \/ pc[p] = "identified" /\ CapsuleVerify(p, "identified", hand[p].purpose)
    \/ pc[p] = "capsule" /\ Gate(p, "capsule", hand[p].purpose) /\ UNCHANGED evidenceVars

ProcNext(p) ==
    \/ (ApprovalNext(p) \/ RunNext(p) \/ Abort(p) \/ Stop(p)) /\ UNCHANGED evidenceVars
    \/ GatedCall(p) \/ SessionCall(p)
    \/ boundary \in {"capsule", "identity"} /\ SessionNext(p)
    \/ boundary = "receipts" /\ ReceiptNext(p)

\* Only what the boundary looks at is changed.
HostNext ==
    \/ boundary \in {"capsule", "identity", "receipts"} /\ (Tick \/ ReplaceTrust("keyRevoked"))
    \/ boundary \in {"identity", "receipts"} /\ ReplaceTrust("idpRevoked")
    \/ boundary = "receipts" /\ ReplaceTrust("edition")
    \/ boundary = "identity" /\ Attest

Next ==
    \/ HostNext /\ UNCHANGED <<projectionVars, boundary>>
    \/ /\ boundary # "projections"
       /\ \E p \in Procs : ProcNext(p)
       /\ UNCHANGED <<projectionVars, boundary>>
    \/ /\ boundary = "projections"
       /\ \E p \in Writers : ProjectionNext(p)
       /\ UNCHANGED <<engineVars, evidenceVars, boundary>>

Spec == Init /\ [][Next]_vars
--------------------------------------------------------------------------------
(* Properties                                                                 *)

Entries == IF ledger = NoFile THEN {} ELSE EventsIn(ledger.entries)

\* An attestation that was written is in the ledger, unless it was written
\* while another process stood between its own read of the file and its
\* replacement of it: append reads the whole ledger and writes it back, and
\* create looks whether the file exists before it writes an empty one.
LossOnlyToOverlap == EventsIn(recorded) \ Entries \subseteq exposed

Inside(p) == pc[p] \in {"gated", "step"}

\* The principals who have approved a requirement in a role
ApprovedAs(entries, id, r) ==
    {entries[k].principal : k \in {k \in DOMAIN entries :
        entries[k].decision = "approve" /\ entries[k].role = r /\ entries[k].requirement = id}}

\* A step that runs was approved as its own rule demands: enough principals in
\* every role, nobody in two of them, in the ledger its process was let through
\* on.  A denial that was written before that is missing there only if it was
\* lost to an overlapping replacement.
StepsWereApproved ==
    \A p \in Procs : pc[p] = "step" =>
        LET h == hand[p]
            As(r) == ApprovedAs(h.entries, RequirementId(h.policy, h.step), r)
        IN /\ \A r \in Roles :
                /\ Cardinality(As(r)) >= RuleOf(h.policy, h.step).counts[r]
                /\ \A s \in Roles \ {r} : As(r) \cap As(s) = {}
           /\ \A e \in EventsIn(h.before) : e.decision = "deny" /\ e.snapshot = h.policy => e \in exposed

\* "The approval-ledger head must remain exactly unchanged": a session lets a
\* process through to the engine on the approvals its capsule was signed for,
\* unless an attestation was written between the session's look at the ledger
\* and the engine's.
RunsOnSignedApprovals ==
    \A p \in Procs : (Inside(p) /\ hand[p].session # Nothing) =>
        \/ hand[p].entries = hand[p].session.under.entries
        \/ hand[p].before # hand[p].session.before

\* A portable receipt says what the journal held at the head it names.  Only
\* an abort that comes while it is issued, after its halt, can make it claim
\* the later status, and then the engine refuses it.
ReceiptTellsTheJournal ==
    \A r \in receipts :
        LET then == SubSeq(journal, 1, r.head)
        IN /\ r.actions = Outcomes(then)
           /\ r.status = StatusOf(then) \/ (StatusOf(then) = "halted" /\ r.status = "aborted")
           /\ ReceiptMatchesEngine(r) => r.status = StatusOf(then)

\* A receipt verifies long after the windows of its capsule and attestations
\* have closed, as long as the verifier's trust stores are the ones it was
\* issued under; after any change of a store it no longer does, because the
\* hash of the identity verification covers the stores.
ReceiptsOutliveTheirWindows == \A r \in receipts : ReceiptValid(r, trust) <=> r.trust = trust

\* An entry whose append returned stays where it was acknowledged.  Unless two
\* appends overlapped the journal verifies, and it can be opened unless lines
\* were added after its last snapshot.
ProjectionsKept ==
    /\ \A e \in acknowledged : e.sequence \in DOMAIN projections /\ projections[e.sequence] = e
    /\ ~overlapped => /\ ProjectionsVerify
                      /\ Openable \/ Len(projections) > Len(snapshotted)
================================================================================
