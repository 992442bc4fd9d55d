--------------------------- MODULE PortableEvidence ---------------------------
(***************************************************************************)
(* The signed evidence above the approval engine: governance capsules       *)
(* (sdk/liminal_governance_capsule), identity and KMS attestations          *)
(* (sdk/liminal_identity_attestation) and portable action receipts          *)
(* (sdk/liminal_portable_receipt), with the sessions that demand them.      *)
(*                                                                         *)
(* Hashes are what they are hashes of: a ledger head is the entries, and a  *)
(* head of the append-only journal is its length.  Signatures are genuine.  *)
(* The trust stores are the host's files, which an operator replaces.       *)
(***************************************************************************)
EXTENDS ApprovalEngine

CONSTANTS CapsuleTtl, AssertionTtl, MaxTime, MaxReceipts

ASSUME EvidenceAssumption == {CapsuleTtl, AssertionTtl, MaxTime, MaxReceipts} \subseteq Nat

VARIABLES
    now,
    trust,      \* the two trust stores: revocation times, and an edition
    capsule, bundle,
    activated,  \* the processes whose identity session is activated
    consumed,   \* the processes whose replay guard has seen the capsule's nonce
    receipts

evidenceVars == <<now, trust, capsule, bundle, activated, consumed, receipts>>

Never == MaxTime + 1

EvidenceInit ==
    /\ now = 0
    /\ trust = [keyRevoked |-> Never, idpRevoked |-> Never, edition |-> 0]
    /\ activated = {} /\ consumed = {}
    /\ receipts = {}

EngineStays == UNCHANGED <<engineFiles, journal, authorized, recorded, exposed>>

Tick ==
    /\ now < MaxTime
    /\ now' = now + 1
    /\ UNCHANGED <<trust, capsule, bundle, activated, consumed, receipts, engineVars>>

\* The operator revokes the governance key ("keyRevoked") or the identity
\* provider's, or replaces a store for another reason ("edition").
ReplaceTrust(field) ==
    /\ trust.edition = 0
    /\ trust' = [trust EXCEPT !.edition = 1, ![field] = IF field = "edition" THEN 1 ELSE now]
    /\ UNCHANGED <<now, capsule, bundle, activated, consumed, receipts, engineVars>>
--------------------------------------------------------------------------------
(* Governance capsules                                                        *)

\* verify_capsule at time t
CapsuleValid(c, t, store) ==
    /\ c.issued <= t /\ t <= c.issued + CapsuleTtl
    /\ t < store.keyRevoked

\* Mutated form: the ledger's head is not compared.
BugMatchesEngine(c) ==
    /\ Verifies
    /\ c.policy = snapshotFile
    /\ Ready(snapshotFile, ledger.entries)
    /\ c.anchor <= Len(journal)

\* verify_capsule_against_engine: the rest
MatchesEngine(c) ==
    /\ Verifies
    /\ c.policy = snapshotFile /\ c.entries = ledger.entries
    /\ Ready(snapshotFile, ledger.entries)
    /\ c.anchor <= Len(journal)

\* issue_capsule: _engine_subject's verify.  Bound: one capsule a tick.
CapsuleRead(p) ==
    /\ pc[p] = "idle"
    /\ capsule # NoFile => capsule.issued < now
    /\ Verifies /\ Ready(snapshotFile, ledger.entries)
    /\ Proceed(p, "capsule_subject", [policy |-> snapshotFile, entries |-> ledger.entries,
                                      anchor |-> Len(journal), issued |-> now])
    /\ EngineStays /\ UNCHANGED evidenceVars

\* evidence_summary must hash what verify has returned; then the capsule is
\* signed, with a fresh nonce, and written.
CapsuleIssue(p) ==
    /\ pc[p] = "capsule_subject"
    /\ Verifies
    /\ hand[p].policy = snapshotFile /\ hand[p].entries = ledger.entries /\ hand[p].anchor = Len(journal)
    /\ capsule # NoFile => capsule.issued < hand[p].issued
    /\ capsule' = hand[p] /\ consumed' = {}
    /\ Proceed(p, "idle", Nothing)
    /\ EngineStays /\ UNCHANGED <<now, trust, bundle, activated, receipts>>
--------------------------------------------------------------------------------
(* Identity and KMS attestation                                               *)

\* The identity provider and the KMS attest the capsule.
Attest ==
    /\ capsule # NoFile
    /\ bundle # NoFile => bundle.capsule # capsule
    /\ bundle' = [capsule |-> capsule, issued |-> now]
    /\ UNCHANGED <<now, trust, capsule, activated, consumed, receipts, engineVars>>

\* verify_identity_bundle at time t, up to the replay guard
BundleValid(b, c, t, store) ==
    /\ CapsuleValid(c, t, store)
    /\ b.capsule = c
    /\ b.issued <= t /\ t <= b.issued + AssertionTtl
    /\ t < store.idpRevoked

\* IdentityAttestedGovernanceSession._gate: the first one consumes the replay
\* key, before the engine is looked at.  Bound: one identity session at a time.
IdentityVerify(p, purpose) ==
    /\ pc[p] = "idle"
    /\ bundle # NoFile /\ BundleValid(bundle, capsule, now, trust)
    /\ activated \cup consumed \subseteq {p}
    /\ p \notin activated => p \notin consumed
    /\ consumed' = consumed \cup ({p} \ activated)
    /\ Proceed(p, "identity", [purpose |-> purpose, under |-> capsule])
    /\ EngineStays /\ UNCHANGED <<now, trust, capsule, bundle, activated, receipts>>

IdentityMatch(p) ==
    /\ pc[p] = "identity"
    /\ MatchesEngine(hand[p].under)
    /\ activated' = activated \cup {p}
    /\ Proceed(p, "identified", [purpose |-> hand[p].purpose])
    /\ EngineStays /\ UNCHANGED <<now, trust, capsule, bundle, consumed, receipts>>

\* GovernanceCapsuleSession.verify, before the engine's own gate
CapsuleVerify(p, from, purpose) ==
    /\ pc[p] = from
    /\ capsule # NoFile /\ CapsuleValid(capsule, now, trust) /\ MatchesEngine(capsule)
    /\ Proceed(p, "capsule", [purpose |-> purpose, under |-> capsule, before |-> recorded])
    /\ EngineStays /\ UNCHANGED evidenceVars

\* A process dies, and with it its session and its replay guard.
Die(p) ==
    /\ p \in activated \cup consumed
    /\ activated' = activated \ {p} /\ consumed' = consumed \ {p}
    /\ Proceed(p, "idle", Nothing)
    /\ EngineStays /\ UNCHANGED <<now, trust, capsule, bundle, receipts>>
--------------------------------------------------------------------------------
(* Portable receipts                                                          *)

Outcomes(j) == {e \in {j[k] : k \in DOMAIN j} : e.type \in {"succeeded", "failed"}}

\* issue_portable_receipt_from_engine reads the engine four times.  The
\* execution is declared verified at t.
ReceiptRead(p, t) ==
    /\ pc[p] = "idle" /\ Cardinality(receipts) < MaxReceipts
    /\ bundle # NoFile /\ t <= now
    /\ Verifies /\ Pending = {} /\ StatusOf(journal) \in TerminalStatuses
    /\ Proceed(p, "receipt_capsule", [entries |-> ledger.entries, head |-> Len(journal), at |-> t,
                                      status |-> Nothing,
                                      capsule |-> capsule, bundle |-> bundle, trust |-> trust])
    /\ EngineStays /\ UNCHANGED evidenceVars

ReceiptCapsule(p) ==
    /\ pc[p] = "receipt_capsule"
    /\ CapsuleValid(hand[p].capsule, hand[p].at, hand[p].trust) /\ MatchesEngine(hand[p].capsule)
    /\ Proceed(p, "receipt_report", hand[p])
    /\ EngineStays /\ UNCHANGED evidenceVars

\* recovery_report
ReceiptReport(p) ==
    /\ pc[p] = "receipt_report"
    /\ Verifies /\ StatusOf(journal) \in TerminalStatuses
    /\ Proceed(p, "receipt_sign", [hand[p] EXCEPT !.status = StatusOf(journal)])
    /\ EngineStays /\ UNCHANGED evidenceVars

\* action_evidence_from_engine and issue_portable_receipt_from_evidence
ReceiptIssue(p) ==
    /\ pc[p] = "receipt_sign"
    /\ Pending = {}
    /\ \A e \in Outcomes(journal) : Plan[e.step].write => e.step \in authorized
    /\ BundleValid(hand[p].bundle, hand[p].capsule, hand[p].at, hand[p].trust)
    /\ now < hand[p].trust.keyRevoked
    /\ hand[p].entries = hand[p].capsule.entries
    /\ receipts' = receipts \cup
         {[capsule |-> hand[p].capsule, bundle |-> hand[p].bundle, trust |-> hand[p].trust, at |-> hand[p].at,
           issued |-> now, head |-> hand[p].head, status |-> hand[p].status, actions |-> Outcomes(journal)]}
    /\ Proceed(p, "idle", Nothing)
    /\ EngineStays /\ UNCHANGED <<now, trust, capsule, bundle, activated, consumed>>

\* Mutated form: the capsule and the bundle are judged at the verifier's time.
BugReceiptValid(r, store) ==
    /\ BundleValid(r.bundle, r.capsule, now, store)
    /\ store = r.trust
    /\ r.issued < store.keyRevoked

\* verify_portable_receipt.  identity_verification_sha256 covers both stores.
ReceiptValid(r, store) ==
    /\ BundleValid(r.bundle, r.capsule, r.at, store)
    /\ store = r.trust
    /\ r.issued < store.keyRevoked

\* Mutated form: the journal's head is not compared.
BugReceiptMatchesEngine(r) ==
    /\ Verifies /\ Pending = {}
    /\ r.capsule.policy = snapshotFile /\ r.capsule.entries = ledger.entries
    /\ r.status = StatusOf(journal)

\* verify_portable_receipt_against_engine: the rest
ReceiptMatchesEngine(r) ==
    /\ Verifies /\ Pending = {}
    /\ r.capsule.policy = snapshotFile /\ r.capsule.entries = ledger.entries
    /\ r.head = Len(journal) /\ r.status = StatusOf(journal)

SessionNext(p) == CapsuleRead(p) \/ CapsuleIssue(p) \/ Die(p)

ReceiptNext(p) ==
    \/ \E t \in 0 .. MaxTime : ReceiptRead(p, t)
    \/ ReceiptCapsule(p) \/ ReceiptReport(p) \/ ReceiptIssue(p)
================================================================================
