--------------------------- MODULE ProjectionLedger ---------------------------
(***************************************************************************)
(* sdk/liminal_portable_receipt/_ledger.py: the append-only journal of       *)
(* receipt projections and its snapshot.  An entry carries the sequence      *)
(* number (and with it the predecessor's hash) its writer computed.         *)
(*                                                                         *)
(* append verifies, adds a line and verifies again, without a lock; a        *)
(* ledger can only be opened while its snapshot, if there is one, is what    *)
(* the journal replays to.                                                  *)
(***************************************************************************)
EXTENDS Naturals, Sequences

CONSTANTS
    Writers,    \* the processes that use the ledger
    Receipts,   \* the receipts whose projections they append
    NoSnapshot

VARIABLES
    projections,    \* the journal: entries with sequence and receipt
    snapshotted,    \* projection-ledger.snapshot.json
    opened,         \* the processes that hold an open ledger
    doing, holds,   \* where each process is in a method, and what it holds
    acknowledged,   \* history variable: entries whose append has returned
    overlapped      \* history variable: a line was added while another
                    \* process was about to add one

projectionVars == <<projections, snapshotted, opened, doing, holds, acknowledged, overlapped>>

ProjectionInit ==
    /\ projections = <<>> /\ snapshotted = NoSnapshot
    /\ opened = {} /\ acknowledged = {} /\ overlapped = FALSE
    /\ doing = [p \in Writers |-> "idle"] /\ holds = [p \in Writers |-> NoSnapshot]

Do(p, where, h) ==
    /\ doing' = [doing EXCEPT ![p] = where]
    /\ holds' = [holds EXCEPT ![p] = h]

\* verify does not raise
ProjectionsVerify ==
    \A k \in DOMAIN projections :
        /\ projections[k].sequence = k
        /\ \A i \in 1 .. k - 1 : projections[i].receipt # projections[k].receipt

\* verify_snapshot does not raise
SnapshotCurrent == ProjectionsVerify /\ snapshotted = projections

\* __init__ does not raise
Openable == ProjectionsVerify /\ (snapshotted # NoSnapshot => SnapshotCurrent)

OpenLedger(p) ==
    /\ doing[p] = "idle" /\ p \notin opened
    /\ Openable
    /\ opened' = opened \cup {p}
    /\ UNCHANGED <<projections, snapshotted, acknowledged, overlapped, doing, holds>>

\* append up to the write
ProjectRead(p, r) ==
    /\ doing[p] = "idle" /\ p \in opened
    /\ ProjectionsVerify
    /\ \A k \in DOMAIN projections : projections[k].receipt # r
    /\ Do(p, "project", [sequence |-> Len(projections) + 1, receipt |-> r])
    /\ UNCHANGED <<projections, snapshotted, opened, acknowledged, overlapped>>

\* Mutated form: the journal is rewritten from what was read, short of a line.
BugProjectWrite(p) ==
    /\ doing[p] = "project"
    /\ projections' = Append(SubSeq(projections, 1, holds[p].sequence - 2), holds[p])
    /\ overlapped' = (overlapped \/ \E q \in Writers \ {p} : doing[q] = "project")
    /\ Do(p, "project_verify", holds[p])
    /\ UNCHANGED <<snapshotted, opened, acknowledged>>

ProjectWrite(p) ==
    /\ doing[p] = "project"
    /\ projections' = Append(projections, holds[p])
    /\ overlapped' = (overlapped \/ \E q \in Writers \ {p} : doing[q] = "project")
    /\ Do(p, "project_verify", holds[p])
    /\ UNCHANGED <<snapshotted, opened, acknowledged>>

\* The verify at the end: append returns the entry.
ProjectVerify(p) ==
    /\ doing[p] = "project_verify"
    /\ ProjectionsVerify
    /\ acknowledged' = acknowledged \cup {holds[p]}
    /\ Do(p, "idle", NoSnapshot)
    /\ UNCHANGED <<projections, snapshotted, opened, overlapped>>

\* write_snapshot
SnapshotRead(p) ==
    /\ doing[p] = "idle" /\ p \in opened
    /\ ProjectionsVerify
    /\ Do(p, "snapshot", [state |-> projections])
    /\ UNCHANGED <<projections, snapshotted, opened, acknowledged, overlapped>>

SnapshotWrite(p) ==
    /\ doing[p] = "snapshot"
    /\ snapshotted' = holds[p].state
    /\ Do(p, "idle", NoSnapshot)
    /\ UNCHANGED <<projections, opened, acknowledged, overlapped>>

\* A method raises, or the process that holds the ledger ends anywhere.
LeaveLedger(p) ==
    /\ doing[p] # "idle" \/ p \in opened
    /\ opened' \in {opened, opened \ {p}}
    /\ Do(p, "idle", NoSnapshot)
    /\ UNCHANGED <<projections, snapshotted, acknowledged, overlapped>>

ProjectionNext(p) ==
    \/ OpenLedger(p) \/ LeaveLedger(p)
    \/ \E r \in Receipts : ProjectRead(p, r)
    \/ ProjectWrite(p) \/ ProjectVerify(p)
    \/ SnapshotRead(p) \/ SnapshotWrite(p)
================================================================================
