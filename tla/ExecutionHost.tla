----------------------------- MODULE ExecutionHost -----------------------------
(***************************************************************************)
(* The executions a containment has to stop: capabilities, mediated        *)
(* process.execute calls, and the containers they start on the Docker      *)
(* host.  Each execution is a call of IsolatedExecutionBroker.execute in a *)
(* thread of its own; it is authorized first, starts its container later,  *)
(* and blocks until `docker run` returns.  An execution, its session and   *)
(* the capability it uses carry the same number.                           *)
(***************************************************************************)
EXTENDS Naturals, FiniteSets

CONSTANTS
    Sessions,   \* numbers of executions, 1 .. n
    Pids,       \* process numbers inside the container of one session
    Root,       \* the container's first process
    NoPid,
    Watched     \* the session whose processes are modelled one by one

ASSUME SessionsAssumption == Sessions \subseteq Nat \ {0} /\ Watched \in Sessions
ASSUME PidsAssumption == Root \in Pids /\ NoPid \notin Pids

Profiles == {"tree", "lineage", "none"}

VARIABLES
    profile,    \* the supervisor behind the hooks; chosen once
    cap,        \* cap[s]: status of the capability in the broker
    exec,       \* exec[s]: where the execution's thread is
    container,  \* container[s]: the container on the host
    live,       \* the live processes of the watched container
    par         \* par[p]: parent of p as the host's process table has it

hostVars == <<profile, cap, exec, container, live, par>>

Exists(s) == container[s] \in {"running", "paused"}

HostTypeOK ==
    /\ profile \in Profiles
    /\ cap \in [Sessions -> {"none", "active", "revoked"}]
    /\ exec \in [Sessions -> {"idle", "authorized", "running", "done"}]
    /\ container \in [Sessions -> {"unborn", "running", "paused", "gone"}]
    /\ live \subseteq Pids /\ par \in [Pids -> Pids \cup {NoPid}]
    /\ ~Exists(Watched) => live = {}

HostInit ==
    /\ profile \in Profiles
    /\ cap = [s \in Sessions |-> "none"]
    /\ exec = [s \in Sessions |-> "idle"]
    /\ container = [s \in Sessions |-> "unborn"]
    /\ live = {} /\ par = [p \in Pids |-> NoPid]

\* With the lineage profile one session is governed, and it is the watched one.
Governed(s) == profile = "lineage" => s = Watched

(* CapabilityBroker: admission, and the end of a capability by other hands  *)
Admit(s) ==
    /\ Governed(s) /\ cap[s] = "none"
    /\ cap' = [cap EXCEPT ![s] = "active"]
    /\ UNCHANGED <<profile, exec, container, live, par>>

Lapse(s) ==
    /\ cap[s] = "active"
    /\ cap' = [cap EXCEPT ![s] = "revoked"]
    /\ UNCHANGED <<profile, exec, container, live, par>>

\* A plan is an immutable image, arguments and a workspace under a fixed
\* isolation profile, or it is refused; the operation names the plan by digest
\* and its scope covers the executable.
Plans == [image : {"digest", "tag"}, argv : {"bounded", "malformed"},
          workspace : {"normalized", "other"}, isolation : {"strict", "weaker"},
          payload : {"of this plan", "of another"}, executable : {"in scope", "outside"}]

ValidPlan(plan) ==
    /\ plan.image = "digest" /\ plan.argv = "bounded"
    /\ plan.workspace = "normalized" /\ plan.isolation = "strict"

PlanBound(plan) == plan.payload = "of this plan" /\ plan.executable = "in scope"

\* IsolatedExecutionBroker.execute up to the executor: the mediator has the
\* capability charged.  A refused plan, or a capability that is not active,
\* leaves the host as it is.
Authorize(s) ==
    /\ exec[s] = "idle" /\ cap[s] = "active"
    /\ \E plan \in Plans : ValidPlan(plan) /\ PlanBound(plan)
    /\ exec' = [exec EXCEPT ![s] = "authorized"]
    /\ UNCHANGED <<profile, cap, container, live, par>>

\* DockerExecutor.__call__: docker run under the session's name.  Nothing
\* looks at the capability again.
Launch(s) ==
    /\ exec[s] = "authorized"
    /\ exec' = [exec EXCEPT ![s] = "running"]
    /\ container' = [container EXCEPT ![s] = "running"]
    /\ live' = IF s = Watched THEN {Root} ELSE live
    /\ UNCHANGED <<profile, cap, par>>

(* The host: processes fork and end, containers end with their root.        *)
Remove(s) ==
    /\ container' = [container EXCEPT ![s] = "gone"]
    /\ live' = IF s = Watched THEN {} ELSE live

Fork(p, c) ==
    /\ profile = "lineage" /\ container[Watched] = "running"
    /\ p \in live /\ c # Root /\ par[c] = NoPid
    /\ live' = live \cup {c} /\ par' = [par EXCEPT ![c] = p]
    /\ UNCHANGED <<profile, cap, exec, container>>

\* Orphans become children of the container's first process.
Die(p) ==
    /\ container[Watched] = "running" /\ p \in live \ {Root}
    /\ live' = live \ {p}
    /\ par' = [c \in Pids |-> IF c \in live /\ par[c] = p THEN Root ELSE par[c]]
    /\ UNCHANGED <<profile, cap, exec, container>>

Exit(s) ==
    /\ container[s] = "running"
    /\ Remove(s)
    /\ UNCHANGED <<profile, cap, exec, par>>

\* `docker run` returned, timed out or was cancelled.  A container that still
\* exists is removed and its absence verified, unless that fails too.
Returned(s) ==
    /\ exec[s] = "running"
    /\ exec' = [exec EXCEPT ![s] = "done"]
    /\ (Exists(s) /\ Remove(s)) \/ UNCHANGED <<container, live>>
    /\ UNCHANGED <<profile, cap, par>>

HostStep ==
    \/ \E s \in Sessions :
         Admit(s) \/ Lapse(s) \/ Authorize(s) \/ Launch(s) \/ Exit(s) \/ Returned(s)
    \/ \E p, c \in Pids : Fork(p, c)
    \/ \E p \in Pids : Die(p)
================================================================================
