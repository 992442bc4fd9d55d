------------------------------ MODULE Containment ------------------------------
(***************************************************************************)
(* ContainmentCoordinator.contain and release, with the hooks of the       *)
(* process-tree or the process-lineage supervisor, against executions and  *)
(* capabilities that go on meanwhile.  contain() runs once, through        *)
(* DETECT, FREEZE, REVOKE, SEAL, SNAPSHOT and REVIEW; a failing hook is    *)
(* noted as a partial failure and never stops it.                          *)
(***************************************************************************)
EXTENDS ProcessTree, ProcessLineage

VARIABLES
    state,      \* ContainmentCoordinator.state
    pc,         \* where contain() is
    failed,     \* is there a partial failure
    todoCaps,   \* capabilities listed as active and not yet revoked
    lateCaps,   \* history: capabilities admitted after the list was made
    lateRuns    \* history: sessions registered after quiesce_all made its list

coordVars == <<state, pc, failed, todoCaps>>
historyVars == <<lateCaps, lateRuns>>
vars == <<hostVars, treeVars, lineageVars, coordVars, historyVars>>

States == {"IDLE", "DETECT", "FREEZE", "REVOKE", "SEAL", "SNAPSHOT", "REVIEW", "RELEASED"}
Steps == {"idle", "freeze", "tree_freeze", "lf_before", "lf_acts", "lf_pause", "lf_after",
          "egress", "list", "revoke", "quiesce", "tree_quiesce", "lq_acts", "lq_remove",
          "lq_after", "seal", "snapshot", "review"}

TypeOK ==
    /\ HostTypeOK /\ TreeTypeOK /\ LineageTypeOK
    /\ state \in States /\ pc \in Steps /\ failed \in BOOLEAN
    /\ todoCaps \subseteq Sessions /\ lateCaps \subseteq Sessions /\ lateRuns \subseteq Sessions

Init ==
    /\ HostInit /\ TreeInit /\ LineageInit
    /\ state = "IDLE" /\ pc = "idle" /\ failed = FALSE /\ todoCaps = {}
    /\ lateCaps = {} /\ lateRuns = {}

--------------------------------------------------------------------------------
(* contain()                                                                *)

Move(next, ok) == pc' = next /\ failed' = (failed \/ ~ok)
Stay == UNCHANGED <<state, todoCaps>> /\ UNCHANGED historyVars

Contain ==
    /\ state = "IDLE"
    /\ profile = "lineage" => SeenPids # {}     \* the hook's supervisor is attached
    /\ state' = "DETECT" /\ Move("freeze", TRUE)
    /\ UNCHANGED todoCaps /\ UNCHANGED <<hostVars, treeVars, lineageVars, historyVars>>

\* freeze_runtime, without a supervisor: some host callback
FreezePlain ==
    /\ pc = "freeze" /\ profile = "none"
    /\ \E ok \in BOOLEAN : Move("egress", ok)
    /\ Stay /\ UNCHANGED <<hostVars, treeVars, lineageVars>>

\* ... as containment_freeze_hook: freeze_all, and raise if it was not clean
FreezeTree ==
    /\ pc = "freeze" /\ profile = "tree"
    /\ Begin(Coordinator, "freeze", Candidates) /\ UNCHANGED status
    /\ Move("tree_freeze", TRUE)
    /\ Stay /\ UNCHANGED <<hostVars, lineageVars>>

FreezeTreeEnds ==
    /\ pc = "tree_freeze" /\ Finished(Coordinator)
    /\ Move("egress", work[Coordinator].clean)
    /\ work' = [work EXCEPT ![Coordinator] = NoWork] /\ UNCHANGED status
    /\ Stay /\ UNCHANGED <<hostVars, lineageVars>>

\* ... as the lineage supervisor's freeze; any of its steps may raise.
FreezeLineage ==
    /\ \/ pc = "freeze" /\ profile = "lineage" /\ FreezeBefore /\ Move("lf_acts", TRUE) /\ UNCHANGED container
       \/ pc = "lf_acts" /\ FreezeActs /\ Move("lf_pause", TRUE) /\ UNCHANGED container
       \/ pc = "lf_pause" /\ Pause /\ Move("lf_after", TRUE) /\ UNCHANGED lineageVars
       \/ pc = "lf_after" /\ FreezeAfter /\ Move("egress", TRUE) /\ UNCHANGED container
    /\ Stay /\ UNCHANGED <<profile, cap, exec, live, par>> /\ UNCHANGED treeVars

FreezeLineageRaises ==
    /\ pc \in {"lf_acts", "lf_pause", "lf_after"} \/ (pc = "freeze" /\ profile = "lineage")
    /\ FreezeRaises
    /\ Move("egress", FALSE)
    /\ Stay /\ UNCHANGED <<hostVars, treeVars>>

\* close_egress, tried whatever became of the freeze
CloseEgress ==
    /\ pc = "egress"
    /\ \E ok \in BOOLEAN : Move("list", ok)
    /\ state' = "FREEZE"
    /\ UNCHANGED todoCaps /\ UNCHANGED <<hostVars, treeVars, lineageVars, historyVars>>

\* state_document: the capabilities are listed once ...
ListCapabilities ==
    /\ pc = "list"
    /\ todoCaps' = {s \in Sessions : cap[s] = "active"}
    /\ Move("revoke", TRUE)
    /\ UNCHANGED state /\ UNCHANGED <<hostVars, treeVars, lineageVars, historyVars>>

BugRevokeOne ==
    /\ pc = "revoke" /\ todoCaps # {}
    /\ todoCaps' = todoCaps \ {Min(todoCaps)}
    /\ UNCHANGED <<pc, failed, cap>>
    /\ UNCHANGED <<state, profile, exec, container, live, par>>
    /\ UNCHANGED <<treeVars, lineageVars, historyVars>>

\* ... and revoked one by one; one that is not active any more is a failure.
RevokeOne ==
    /\ pc = "revoke" /\ todoCaps # {}
    /\ LET s == Min(todoCaps) IN
         /\ todoCaps' = todoCaps \ {s}
         /\ Move("revoke", cap[s] = "active")
         /\ cap' = [cap EXCEPT ![s] = IF @ = "active" THEN "revoked" ELSE @]
    /\ UNCHANGED <<state, profile, exec, container, live, par>>
    /\ UNCHANGED <<treeVars, lineageVars, historyVars>>

RevokeEnds ==
    /\ pc = "revoke" /\ todoCaps = {}
    /\ state' = "REVOKE"
    /\ Move(IF profile = "none" THEN "seal" ELSE "quiesce", TRUE)
    /\ UNCHANGED todoCaps /\ UNCHANGED <<hostVars, treeVars, lineageVars, historyVars>>

QuiesceTree ==
    /\ pc = "quiesce" /\ profile = "tree"
    /\ Begin(Coordinator, "quiesce", Candidates) /\ UNCHANGED status
    /\ Move("tree_quiesce", TRUE)
    /\ Stay /\ UNCHANGED <<hostVars, lineageVars>>

QuiesceTreeEnds ==
    /\ pc = "tree_quiesce" /\ Finished(Coordinator)
    /\ Move("seal", work[Coordinator].clean)
    /\ work' = [work EXCEPT ![Coordinator] = NoWork] /\ UNCHANGED status
    /\ Stay /\ UNCHANGED <<hostVars, lineageVars>>

\* The lineage supervisor's quiesce, and the coordinator's verdict on its receipt
QuiesceLineage ==
    /\ \/ /\ pc = "quiesce" /\ profile = "lineage" /\ QuiesceActs
          /\ Move("lq_remove", TRUE) /\ UNCHANGED <<container, live>>
       \/ /\ pc = "lq_remove" /\ Remove(Watched)
          /\ Move("lq_after", TRUE) /\ UNCHANGED lineageVars
       \/ /\ pc = "lq_after" /\ QuiesceAfter
          /\ Move("seal", receipt' = "ALLOW") /\ UNCHANGED <<container, live>>
    /\ Stay /\ UNCHANGED <<profile, cap, exec, par>> /\ UNCHANGED treeVars

BugHookEscapes ==
    /\ pc \in {"lq_remove", "lq_after"} \/ (pc = "quiesce" /\ profile = "lineage")
    /\ Move("idle", FALSE)
    /\ Stay /\ UNCHANGED <<hostVars, treeVars, lineageVars>>

\* A hook that raises is a partial failure.
QuiesceLineageRaises ==
    /\ pc \in {"lq_remove", "lq_after"} \/ (pc = "quiesce" /\ profile = "lineage")
    /\ Move("seal", FALSE)
    /\ (pc = "lq_remove" /\ Remove(Watched)) \/ UNCHANGED <<container, live>>
    /\ Stay /\ UNCHANGED <<profile, cap, exec, par>> /\ UNCHANGED <<treeVars, lineageVars>>

\* seal_trace
Seal ==
    /\ pc = "seal"
    /\ \E ok \in BOOLEAN : Move("snapshot", ok)
    /\ state' = "SEAL"
    /\ UNCHANGED todoCaps /\ UNCHANGED <<hostVars, treeVars, lineageVars, historyVars>>

\* snapshot_forensics, and the incident receipt
SnapshotForensics ==
    /\ pc = "snapshot"
    /\ \E ok \in BOOLEAN : Move("review", ok)
    /\ state' = "REVIEW"
    /\ UNCHANGED todoCaps /\ UNCHANGED <<hostVars, treeVars, lineageVars, historyVars>>

Release ==
    /\ state = "REVIEW" /\ ~failed
    /\ state' = "RELEASED"
    /\ UNCHANGED <<pc, failed, todoCaps>> /\ UNCHANGED <<hostVars, treeVars, lineageVars, historyVars>>

--------------------------------------------------------------------------------
CoordinatorLoop == LoopStep(Coordinator) /\ UNCHANGED <<lineageVars, coordVars, historyVars>>

ContainStep ==
    \/ FreezePlain \/ FreezeTree \/ FreezeTreeEnds \/ FreezeLineage \/ FreezeLineageRaises
    \/ CloseEgress \/ ListCapabilities \/ RevokeOne \/ RevokeEnds
    \/ QuiesceTree \/ QuiesceTreeEnds \/ QuiesceLineage \/ QuiesceLineageRaises
    \/ Seal \/ SnapshotForensics \/ CoordinatorLoop

\* The other threads and the host
AfterList == pc \notin {"idle", "freeze", "tree_freeze", "lf_acts", "lf_pause", "lf_after", "egress", "list"}
AfterQuiesceList == AfterList /\ pc \notin {"revoke", "quiesce"}

Elsewhere ==
    \/ /\ HostStep
       /\ lateCaps' = lateCaps \cup
              {s \in Sessions : AfterList /\ cap[s] = "none" /\ cap'[s] = "active"}
       /\ UNCHANGED <<treeVars, lineageVars, coordVars, lateRuns>>
    \/ /\ \E s \in Sessions : Register(s)
       /\ lateRuns' = lateRuns \cup
              {s \in Sessions : AfterQuiesceList /\ status[s] = "none" /\ status'[s] # "none"}
       /\ UNCHANGED <<hostVars, lineageVars, coordVars, lateCaps>>
    \/ /\ \E s \in Sessions : MarkComplete(s)
       /\ UNCHANGED <<hostVars, lineageVars, coordVars, historyVars>>
    \/ /\ \E s \in Rescued : Emergency(s) \/ EmergencyEnds(s)
       /\ UNCHANGED <<hostVars, lineageVars, coordVars, historyVars>>
    \/ /\ \E s \in Rescued : LoopStep(s)
       /\ UNCHANGED <<lineageVars, coordVars, historyVars>>
    \/ Attach /\ UNCHANGED <<hostVars, treeVars, coordVars, historyVars>>

Next == Contain \/ ContainStep \/ Release \/ Elsewhere

Spec == Init /\ [][Next]_vars

\* contain() is straight-line code whose callbacks return or raise (the
\* adapter's docker calls have timeouts), so its thread keeps going.
FairSpec == Spec /\ WF_vars(ContainStep)

--------------------------------------------------------------------------------
(* Properties                                                               *)

Clean == state \in {"REVIEW", "RELEASED"} /\ ~failed

\* A containment without partial failures leaves no power behind: of the
\* capabilities that existed when they were listed none is active, and of the
\* sessions that the supervisor knew when it made its list no container exists,
\* whatever processes, timeouts, emergency cleanups and failing callbacks did.
CleanMeansQuiet == Clean =>
    /\ \A s \in Sessions : cap[s] = "active" => s \in lateCaps
    /\ profile = "tree" => \A s \in Sessions : status[s] # "none" /\ Exists(s) => s \in lateRuns
    /\ profile = "lineage" => ~Exists(Watched)

\* What the supervisors call terminated is gone.  A session that is complete or
\* terminated has no container, although statuses are set by several threads
\* from old inspections; and "A backend cannot prove success merely by deleting
\* a node from the snapshot": a lineage receipt of ALLOW accounts for every
\* process that was frozen, and there is no other left.
TerminalIsGone ==
    /\ \A s \in Sessions : status[s] \in Terminal => container[s] = "gone"
    /\ receipt = "ALLOW" => /\ live = {} /\ frozen.state = "frozen"
                            /\ DOMAIN frozen.parent = SeenPids

\* Containment always gets to human review, however many hooks fail.
ReachesReview == state = "DETECT" ~> state \in {"REVIEW", "RELEASED"}

================================================================================
