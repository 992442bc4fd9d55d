---------------------------- MODULE ProcessLineage -----------------------------
(***************************************************************************)
(* ProcessLineageContainmentSupervisor over DockerProcessTreeBackend, for  *)
(* one session.  An observation is the state all observed processes are in *)
(* together with the parent of each; process identities are functions of   *)
(* the process number, and a tree digest is the observation it covers.     *)
(* The backend remembers the parents it has seen, and shows every process  *)
(* it ever saw as terminated once the container is gone.                   *)
(***************************************************************************)
EXTENDS ExecutionHost

CONSTANT NoObservation

VARIABLES
    seen,       \* backend._parents: the processes observed so far
    before,     \* supervisor._before
    frozen,     \* supervisor._frozen
    acted,      \* the backend's own observation inside freeze or terminate
    receipt     \* decision of the containment receipt

lineageVars == <<seen, before, frozen, acted, receipt>>

Unseen == [parent |-> NoPid, known |-> FALSE]
SeenPids == {p \in Pids : seen[p].known}

LineageTypeOK ==
    /\ seen \in [Pids -> [parent : Pids \cup {NoPid}, known : BOOLEAN]]
    /\ \A o \in {before, frozen, acted} \ {NoObservation} :
          /\ o.state \in {"running", "frozen", "terminated"}
          /\ DOMAIN o.parent \subseteq Pids
    /\ receipt \in {"none", "ALLOW", "BLOCK"}

LineageInit ==
    /\ seen = [p \in Pids |-> Unseen]
    /\ before = NoObservation /\ frozen = NoObservation /\ acted = NoObservation
    /\ receipt = "none"

\* _observe_live_nodes and _tombstones
LiveNodes ==
    [state |-> IF container[Watched] = "paused" THEN "frozen" ELSE "running",
     parent |-> [p \in live |-> IF p = Root THEN NoPid ELSE par[p]]]

Tombstones == [state |-> "terminated", parent |-> [p \in SeenPids |-> seen[p].parent]]

\* _validate_lineage: the root has no parent, every other parent is a node,
\* and every set that holds the root and the children of its members is the
\* whole tree, so that there is no cycle and no stranger.
ValidLineage(o) ==
    LET nodes == DOMAIN o.parent IN
    /\ Root \in nodes /\ o.parent[Root] = NoPid
    /\ \A p \in nodes \ {Root} : o.parent[p] \in nodes
    /\ \A S \in SUBSET nodes :
          (Root \in S /\ \A p \in nodes \ {Root} : o.parent[p] \in S => p \in S) => S = nodes

\* "trusted process lineage changed during session"
ParentsKept == \A p \in (live \cap SeenPids) \ {Root} : seen[p].parent = par[p]

\* snapshot, the backend's and with it the supervisor's: o is what is shown.
Snapshot(o) ==
    /\ IF Exists(Watched)
       THEN /\ ParentsKept
            /\ o = LiveNodes
            /\ seen' = [p \in Pids |-> IF p \in live THEN [parent |-> o.parent[p], known |-> TRUE]
                                       ELSE seen[p]]
       ELSE /\ SeenPids # {}
            /\ o = Tombstones
            /\ UNCHANGED seen
    /\ ValidLineage(o)

Observations == {LiveNodes, Tombstones}

LiveCount(o) == IF o.state = "terminated" THEN 0 ELSE Cardinality(DOMAIN o.parent)

\* _require_same_lineage
SameLineage(left, right) == left.parent = right.parent

\* build_process_tree_supervisor: attaching observes the running container.
Attach ==
    /\ profile = "lineage" /\ SeenPids = {} /\ Exists(Watched)
    /\ Snapshot(LiveNodes)
    /\ UNCHANGED <<before, frozen, acted, receipt>>

(* freeze(): snapshot; the backend's snapshot; docker pause; snapshot       *)
FreezeBefore ==
    \E o \in Observations : Snapshot(o) /\ before' = o /\ UNCHANGED <<frozen, acted, receipt>>

FreezeActs ==
    \E o \in Observations : Snapshot(o) /\ acted' = o /\ UNCHANGED <<before, frozen, receipt>>

Pause ==
    /\ container[Watched] = "running"
    /\ container' = [container EXCEPT ![Watched] = "paused"]

FreezeAfter ==
    \E o \in Observations :
        /\ Snapshot(o)
        /\ SameLineage(before, o)
        /\ o = [acted EXCEPT !.state = "frozen"]
        /\ LiveCount(acted) = LiveCount(before)
        /\ o.state # "running"
        /\ frozen' = o /\ UNCHANGED <<before, acted, receipt>>

\* A freeze that raises leaves no trace in the supervisor.
FreezeRaises ==
    /\ before' = NoObservation /\ acted' = NoObservation
    /\ UNCHANGED <<seen, frozen, receipt>>

(* quiesce(): the backend's snapshot; docker rm -f, verified; snapshot      *)
QuiesceActs ==
    /\ frozen # NoObservation
    /\ \E o \in Observations : Snapshot(o) /\ acted' = o
    /\ UNCHANGED <<before, frozen, receipt>>

QuiesceAfter ==
    /\ \E o \in Observations :
         /\ Snapshot(o) /\ o.state = "terminated"
         /\ SameLineage(before, o)
         /\ LiveCount(acted) <= LiveCount(frozen)
         /\ receipt' = IF LiveCount(acted) = LiveCount(frozen) THEN "ALLOW" ELSE "BLOCK"
    /\ UNCHANGED <<before, frozen, acted>>
================================================================================
