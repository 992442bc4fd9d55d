---------------------------- MODULE ApprovalEngine ----------------------------
(***************************************************************************)
(* sdk/liminal_github_policy: the engine that binds one plan to one policy *)
(* and its approvals in three files, and lets the orchestrator run only     *)
(* while the ledger is ready.                                               *)
(*                                                                         *)
(* Every method reads the files, decides, and writes or runs later; there   *)
(* is no lock, and a file is replaced as a whole.  A process may raise or   *)
(* die between any two of its steps.  The orchestrator is the one of        *)
(* GitHubTransaction, reduced to what it appends: a step starts, and its    *)
(* finish is written together with the halt or the completion that follows. *)
(***************************************************************************)
EXTENDS ApprovalLedger

CONSTANTS
    Procs,
    NoFile,
    Nothing,        \* a process with nothing in hand
    MaxRecorded     \* bound: attestations written

ASSUME BoundAssumption == MaxRecorded \in Nat

\* What approval-ledger files hold
Events == UNION {Attestations[pol] : pol \in Policies}
Ledgers == [snapshot : Policies, entries : Seq(Events)]

ASSUME NoFileAssumption == NoFile \notin Policies /\ NoFile \notin Ledgers

VARIABLES
    policyFile, snapshotFile, ledger,
    journal,        \* of the orchestrator, after transaction_created
    authorized,     \* the steps with a recorded user authorization
    pc, hand,       \* where each process is in a method, and what it holds
    recorded,       \* history variable: the attestations ever written, in order
    exposed         \* history variable: those written while another process
                    \* was about to replace the ledger

engineFiles == <<policyFile, snapshotFile, ledger>>
engineVars == <<engineFiles, journal, authorized, pc, hand, recorded, exposed>>

EngineStart ==
    /\ pc = [p \in Procs |-> "idle"]
    /\ hand = [p \in Procs |-> Nothing]
    /\ journal = <<>> /\ authorized = {}
    /\ exposed = {}

EngineInit ==
    /\ EngineStart
    /\ policyFile = NoFile /\ snapshotFile = NoFile /\ ledger = NoFile
    /\ recorded = <<>>

Proceed(p, where, h) ==
    /\ pc' = [pc EXCEPT ![p] = where]
    /\ hand' = [hand EXCEPT ![p] = h]

\* A method raises, or its process dies.
Stop(p) ==
    /\ pc[p] # "idle"
    /\ Proceed(p, "idle", Nothing)
    /\ UNCHANGED <<engineFiles, journal, authorized, recorded, exposed>>
--------------------------------------------------------------------------------
(* The transaction journal and its summary                                    *)

JournalEntry(type, i) == [type |-> type, step |-> i]
StepsIn(j, type) == {j[k].step : k \in {k \in DOMAIN j : j[k].type = type}}
PendingIn(j) == StepsIn(j, "started") \ (StepsIn(j, "succeeded") \cup StepsIn(j, "failed"))
Pending == PendingIn(journal)
Happened(j, type) == \E k \in DOMAIN j : j[k].type = type

StatusOf(j) ==
    IF Happened(j, "aborted") THEN "aborted"
    ELSE IF Happened(j, "completed") THEN "completed"
    ELSE IF StepsIn(j, "started") # StepsIn(j, "succeeded") \cup StepsIn(j, "failed") THEN "reconciliation_required"
    ELSE IF Happened(j, "halted") THEN "halted"
    ELSE "ready"

TerminalStatuses == {"completed", "halted", "aborted"}

\* orchestrator.abort, which the engine does not gate
Abort(p) ==
    /\ pc[p] = "idle"
    /\ Pending = {} /\ StatusOf(journal) \notin {"aborted", "completed"}
    /\ journal' = Append(journal, JournalEntry("aborted", 0))
    /\ UNCHANGED <<engineFiles, authorized, pc, hand, recorded, exposed>>
--------------------------------------------------------------------------------
(* create                                                                     *)

CreateCheck(p, pol) ==
    /\ pc[p] = "idle"
    /\ policyFile = NoFile /\ snapshotFile = NoFile /\ ledger = NoFile
    /\ Proceed(p, "create_policy", [policy |-> pol])
    /\ UNCHANGED <<engineFiles, journal, authorized, recorded, exposed>>

CreatePolicy(p) ==
    /\ pc[p] = "create_policy"
    /\ policyFile' = hand[p].policy
    /\ Proceed(p, "create_snapshot", hand[p])
    /\ UNCHANGED <<snapshotFile, ledger, journal, authorized, recorded, exposed>>

CreateSnapshot(p) ==
    /\ pc[p] = "create_snapshot"
    /\ snapshotFile' = hand[p].policy
    /\ Proceed(p, "create_ledger", hand[p])
    /\ UNCHANGED <<policyFile, ledger, journal, authorized, recorded, exposed>>

\* ApprovalLedger.create: exists(), and later the write
CreateLedgerCheck(p) ==
    /\ pc[p] = "create_ledger"
    /\ ledger = NoFile
    /\ Proceed(p, "replace_ledger", hand[p])
    /\ UNCHANGED <<engineFiles, journal, authorized, recorded, exposed>>

CreateLedger(p) ==
    /\ pc[p] = "replace_ledger"
    /\ ledger' = [snapshot |-> hand[p].policy, entries |-> <<>>]
    /\ Proceed(p, "idle", Nothing)
    /\ UNCHANGED <<policyFile, snapshotFile, journal, authorized, recorded, exposed>>
--------------------------------------------------------------------------------
(* verify and record_approval                                                 *)

\* ApprovalLedger.read(snapshot) does not raise.
Readable(pol) ==
    /\ pol # NoFile /\ ledger # NoFile
    /\ ledger.snapshot = pol
    /\ ValidEntries(ledger.entries, pol)

\* verify(allow_pending=True) does not raise.
Verifies == policyFile # NoFile /\ snapshotFile = policyFile /\ Readable(snapshotFile)

\* record_approval: self.verify(allow_pending=True)
RecordVerify(p) ==
    /\ pc[p] = "idle" /\ Len(recorded) < MaxRecorded
    /\ Verifies
    /\ Proceed(p, "record", Nothing)
    /\ UNCHANGED <<engineFiles, journal, authorized, recorded, exposed>>

\* append up to the write: the snapshot and the ledger are read again.
RecordRead(p, e) ==
    /\ pc[p] = "record"
    /\ Readable(snapshotFile)
    /\ ValidEvent(e, ledger.entries, snapshotFile)
    /\ Proceed(p, "append", [view |-> ledger, event |-> e])
    /\ UNCHANGED <<engineFiles, journal, authorized, recorded, exposed>>

Replacing(p) == pc[p] \in {"append", "replace_ledger"}

Expose(p, e) == exposed' = exposed \cup {x \in {e} : \E q \in Procs \ {p} : Replacing(q)}

\* Mutated form: the entries are what was read when the engine was created.
BugRecordWrite(p) ==
    /\ pc[p] = "append"
    /\ LET e == hand[p].event
       IN /\ ledger' = [hand[p].view EXCEPT !.entries = <<e>>]
          /\ recorded' = Append(recorded, e)
          /\ Expose(p, e)
    /\ Proceed(p, "idle", Nothing)
    /\ UNCHANGED <<policyFile, snapshotFile, journal, authorized>>

\* The file becomes what was read, with the new entry.
RecordWrite(p) ==
    /\ pc[p] = "append"
    /\ LET e == hand[p].event
       IN /\ ledger' = [hand[p].view EXCEPT !.entries = Append(@, e)]
          /\ recorded' = Append(recorded, e)
          /\ Expose(p, e)
    /\ Proceed(p, "idle", Nothing)
    /\ UNCHANGED <<policyFile, snapshotFile, journal, authorized>>
--------------------------------------------------------------------------------
(* _require_ready, and what it guards                                         *)

\* Called by a host (from "idle") or by a capsule session.  What the process
\* was let through on is kept for the properties.
Gate(p, from, purpose) ==
    /\ pc[p] = from
    /\ Verifies /\ Pending = {}
    /\ Ready(snapshotFile, ledger.entries)
    /\ Proceed(p, "gated", [purpose |-> purpose, policy |-> snapshotFile, entries |-> ledger.entries,
                            before |-> recorded, step |-> 0,
                            session |-> IF from = "idle" THEN Nothing ELSE hand[p]])
    /\ UNCHANGED <<engineFiles, journal, authorized, recorded, exposed>>

\* authorize_step: the user's authorization of one write call
AuthorizeStep(p, i) ==
    /\ pc[p] = "gated" /\ hand[p].purpose = "authorize"
    /\ Plan[i].write /\ i \notin authorized
    /\ authorized' = authorized \cup {i}
    /\ Proceed(p, "idle", Nothing)
    /\ UNCHANGED <<engineFiles, journal, recorded, exposed>>

\* orchestrator.run_next, or one turn of run: the next step starts.
StartStep(p) ==
    /\ pc[p] = "gated" /\ hand[p].purpose \in {"run", "run_next"}
    /\ StatusOf(journal) = "ready"
    /\ LET i == Cardinality(StepsIn(journal, "succeeded")) + 1
       IN /\ i \in PlanSteps
          /\ Plan[i].write => i \in authorized
          /\ journal' = Append(journal, JournalEntry("started", i))
          /\ Proceed(p, "step", [hand[p] EXCEPT !.step = i])
    /\ UNCHANGED <<engineFiles, authorized, recorded, exposed>>

\* The step's outcome; run goes on to the next step without another check.
FinishStep(p, ok) ==
    /\ pc[p] = "step"
    /\ LET i == hand[p].step
           more == ok /\ i < Len(Plan)
           done == Append(journal, JournalEntry(IF ok THEN "succeeded" ELSE "failed", i))
       IN /\ journal' = IF more THEN done
                        ELSE Append(done, JournalEntry(IF ok THEN "completed" ELSE "halted", 0))
          /\ IF more /\ hand[p].purpose = "run" THEN Proceed(p, "gated", hand[p])
                                                ELSE Proceed(p, "idle", Nothing)
    /\ UNCHANGED <<engineFiles, authorized, recorded, exposed>>

ApprovalNext(p) ==
    \/ \E pol \in Policies : CreateCheck(p, pol)
    \/ CreatePolicy(p) \/ CreateSnapshot(p) \/ CreateLedgerCheck(p) \/ CreateLedger(p)
    \/ RecordVerify(p)
    \/ pc[p] = "record" /\ \E e \in Attestations[snapshotFile] : RecordRead(p, e)
    \/ RecordWrite(p)

RunNext(p) ==
    \/ \E i \in PlanSteps : AuthorizeStep(p, i)
    \/ StartStep(p)
    \/ \E ok \in BOOLEAN : FinishStep(p, ok)
================================================================================
