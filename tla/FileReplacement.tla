---------------------------- MODULE FileReplacement ----------------------------
(***************************************************************************)
(* sdk/liminal_file_mutation_broker and the atomic file replacer.  A lease *)
(* is issued for one target, one expected and one desired content; any     *)
(* thread that holds its id may call replace.  The replacer has no lock:   *)
(* it compares the target with the expected content twice, writes a        *)
(* temporary file in between, renames and looks again.                     *)
(***************************************************************************)
EXTENDS ChargedCapabilities

CONSTANTS
    Contents,   \* digests the target file can have
    MaxWrites   \* bound: changes of the target

ASSUME ContentsAssumption == Contents # {} /\ MaxWrites \in Nat

VARIABLES
    fileSeen,      \* FileMutationBroker._seen_call_ids
    fileLease,     \* _leases by call id
    target,        \* the digest of the target file
    version,       \* how often the target was changed
    temps,         \* the calls whose temporary file exists
    replacer,      \* replacer[t]: where the thread is in replace
    fileReceipts,  \* the replacer's receipts
    renames        \* history: the renames, with what each of them replaced

fileVars == <<fileSeen, fileLease, target, version, temps, replacer, fileReceipts, renames>>
fileWorld == <<target, version, renames>>

Unleased == [state |-> "none", expected |-> target, desired |-> target, issued |-> 0, expires |-> 0]
AtRest == [pc |-> "idle", call |-> NoCall, seen |-> 0]

FileInit ==
    /\ target \in Contents /\ version = 0 /\ temps = {} /\ renames = {}
    /\ fileSeen = {} /\ fileLease = [c \in Calls |-> Unleased]
    /\ replacer = [t \in Threads |-> AtRest] /\ fileReceipts = {}

(* authorize: the root has a binding and the content fits under it, or the  *)
(* request is refused before the capability is asked.                       *)
Placements == {"within binding", "content too long", "unknown root"}

FileAdmits(c, placement) ==
    /\ c \notin fileSeen /\ ~contained["file broker"]
    /\ placement = "within binding"
    /\ Eligible("filesystem.write", now)

FileRefused(c, placement) ==
    /\ ~FileAdmits(c, placement)
    /\ fileSeen' = fileSeen \cup {c}
    /\ UNCHANGED <<fileLease, temps, replacer, fileReceipts, fileWorld, capVars>>

FileAuthorize(c, placement, expected, desired) ==
    /\ FileAdmits(c, placement)
    /\ fileSeen' = fileSeen \cup {c}
    /\ Charge("filesystem.write")
    /\ fileLease' = [fileLease EXCEPT ![c] =
                       [state |-> "issued", expected |-> expected, desired |-> desired,
                        issued |-> now, expires |-> now + Ttl]]
    /\ UNCHANGED <<temps, replacer, fileReceipts, fileWorld, now, gates, effects>>

(* replace: the lease is consumed, or replace raises and leaves no receipt. *)
(* At its last second a lease still holds, unlike a credential's.           *)
FileLive(c) ==
    /\ ~contained["file broker"]
    /\ fileLease[c].state = "issued"
    /\ now <= fileLease[c].expires /\ now >= fileLease[c].issued
    /\ StillActive("filesystem.write", now)

FileConsume(t, c) ==
    /\ replacer[t].pc = "idle" /\ FileLive(c)
    /\ fileLease' = [fileLease EXCEPT ![c].state = "consumed"]
    /\ replacer' = [replacer EXCEPT ![t] = [pc |-> "taken", call |-> c, seen |-> 0]]
    /\ Recheck("filesystem.write")
    /\ UNCHANGED <<fileSeen, temps, fileReceipts, fileWorld, now, gates, effects>>

\* The error path: a FAILED receipt, and the temporary file is unlinked; an
\* error of the unlink itself is ignored.
FileFails(t) ==
    LET c == replacer[t].call IN
    /\ replacer[t].pc # "idle"
    /\ fileReceipts' = fileReceipts \cup {[call |-> c, outcome |-> "FAILED"]}
    /\ replacer' = [replacer EXCEPT ![t] = AtRest]
    /\ temps' \in {temps, temps \ {c}}
    /\ UNCHANGED <<fileSeen, fileLease, fileWorld, capVars>>

Advance(t, from, to) ==
    /\ replacer[t].pc = from
    /\ replacer' = [replacer EXCEPT ![t].pc = to,
                                    ![t].seen = IF to = "checked" THEN version ELSE 0]

\* The content is the authorized one, the root is mapped and the target, a
\* regular file reached without links, is as expected.
FirstDigest(t) ==
    /\ Advance(t, "taken", "compared")
    /\ target = fileLease[replacer[t].call].expected
    /\ UNCHANGED <<fileSeen, fileLease, temps, fileReceipts, fileWorld, capVars>>

\* O_EXCL: the name is derived from the lease, and a leftover is an error.
WriteTemp(t) ==
    /\ Advance(t, "compared", "written")
    /\ replacer[t].call \notin temps
    /\ temps' = temps \cup {replacer[t].call}
    /\ UNCHANGED <<fileSeen, fileLease, fileReceipts, fileWorld, capVars>>

\* Bad form of SecondDigest: the target is opened again but not compared.
BugSecondDigest(t) ==
    /\ Advance(t, "written", "checked")
    /\ UNCHANGED <<fileSeen, fileLease, temps, fileReceipts, fileWorld, capVars>>

SecondDigest(t) ==
    /\ Advance(t, "written", "checked")
    /\ target = fileLease[replacer[t].call].expected
    /\ UNCHANGED <<fileSeen, fileLease, temps, fileReceipts, fileWorld, capVars>>

Rename(t) ==
    LET c == replacer[t].call IN
    /\ replacer[t].pc = "checked" /\ version < MaxWrites
    /\ target' = fileLease[c].desired /\ version' = version + 1
    /\ temps' = temps \ {c}
    /\ renames' = renames \cup {[call |-> c, replaced |-> target, at |-> version,
                                 checked |-> replacer[t].seen]}
    /\ replacer' = [replacer EXCEPT ![t].pc = "renamed"]
    /\ Reached("filesystem.write", c)
    /\ UNCHANGED <<fileSeen, fileLease, fileReceipts, now, authority, gates>>

\* Bad form of VerifyReplaced: success is reported without looking.
BugVerifyReplaced(t) ==
    /\ replacer[t].pc \in {"checked", "renamed"}
    /\ fileReceipts' = fileReceipts \cup {[call |-> replacer[t].call, outcome |-> "SUCCEEDED"]}
    /\ replacer' = [replacer EXCEPT ![t] = AtRest]
    /\ UNCHANGED <<fileSeen, fileLease, temps, fileWorld, capVars>>

VerifyReplaced(t) ==
    LET c == replacer[t].call IN
    /\ replacer[t].pc = "renamed" /\ target = fileLease[c].desired
    /\ fileReceipts' = fileReceipts \cup {[call |-> c, outcome |-> "SUCCEEDED"]}
    /\ replacer' = [replacer EXCEPT ![t] = AtRest]
    /\ UNCHANGED <<fileSeen, fileLease, temps, fileWorld, capVars>>

\* A writer of the host that the broker does not govern.
OtherWriter ==
    /\ version < MaxWrites
    /\ target' \in Contents \ {target} /\ version' = version + 1
    /\ UNCHANGED <<fileSeen, fileLease, temps, replacer, fileReceipts, renames, capVars>>

FileStep ==
    \/ \E c \in Calls, p \in Placements :
         FileRefused(c, p) \/ \E before, after \in Contents : FileAuthorize(c, p, before, after)
    \/ \E t \in Threads :
         \/ \E c \in Calls : FileConsume(t, c)
         \/ FileFails(t) \/ FirstDigest(t) \/ WriteTemp(t)
         \/ SecondDigest(t) \/ Rename(t) \/ VerifyReplaced(t)
    \/ OtherWriter

FilesInFlight == {replacer[t].call : t \in {u \in Threads : replacer[u].pc # "idle"}}
================================================================================
