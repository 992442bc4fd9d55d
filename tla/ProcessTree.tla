------------------------------ MODULE ProcessTree ------------------------------
(***************************************************************************)
(* ProcessTreeSupervisor: the status of every registered session, and the  *)
(* two loops over sessions, freeze_all and _quiesce, which inspect, freeze *)
(* and terminate through host callbacks.  A loop is run by the containment *)
(* coordinator's thread or, for one session in an emergency, by that       *)
(* execution's own thread.  Each callback is a step, because the host goes *)
(* on in between; a callback may fail, with or without having had an       *)
(* effect.                                                                 *)
(***************************************************************************)
EXTENDS ExecutionHost, FiniteSetsExt

CONSTANTS
    Coordinator,    \* thread of the coordinator
    Rescued         \* sessions whose adapter may call quiesce_session, in its thread

ASSUME ThreadsAssumption == Coordinator \notin Sessions /\ Rescued \subseteq Sessions

Threads == Rescued \cup {Coordinator}

VARIABLES
    status,     \* status[s]: SessionBinding.status
    work        \* work[t]: the loop thread t is in

treeVars == <<status, work>>

Terminal == {"COMPLETED", "TERMINATED"}
Candidates == {s \in Sessions : status[s] \notin Terminal \cup {"none"}}

NoWork == [op |-> "none", todo |-> {}, at |-> "list", clean |-> TRUE]

TreeTypeOK ==
    /\ status \in [Sessions -> {"none", "ACTIVE", "FROZEN", "ERROR"} \cup Terminal]
    /\ work \in [Threads -> [op : {"none", "freeze", "quiesce", "emergency"},
                             todo : SUBSET Sessions,
                             at : {"list", "inspect", "freeze", "check", "terminate", "verify", "raised"},
                             clean : BOOLEAN]]

TreeInit ==
    /\ status = [s \in Sessions |-> "none"]
    /\ work = [t \in Threads |-> NoWork]

\* register_session, by the trusted adapter once the container runs
Register(s) ==
    /\ profile = "tree" /\ exec[s] = "running" /\ status[s] = "none"
    /\ status' = [status EXCEPT ![s] = "ACTIVE"]
    /\ UNCHANGED work

\* mark_complete
MarkComplete(s) ==
    /\ status[s] \notin Terminal \cup {"none"}
    /\ ~Exists(s)
    /\ status' = [status EXCEPT ![s] = "COMPLETED"]
    /\ UNCHANGED work

--------------------------------------------------------------------------------
(* The loops                                                                *)

Begin(t, op, sessions) ==
    work' = [work EXCEPT ![t] = [op |-> op, todo |-> sessions, at |-> "inspect", clean |-> TRUE]]

Current(t) == Min(work[t].todo)
At(t, step) == work[t].op # "none" /\ work[t].todo # {} /\ work[t].at = step
Finished(t) == work[t].op # "none" /\ (work[t].todo = {} \/ work[t].at = "raised")

Goto(t, step) == work' = [work EXCEPT ![t].at = step] /\ UNCHANGED status

\* _set_status for the current session, and on to the next one.  A terminal
\* status is never given up: the attempt raises and ends the loop.
Settle(t, new, clean) ==
    LET s == Current(t) IN
    IF status[s] \in Terminal /\ new # status[s]
    THEN /\ work' = [work EXCEPT ![t].at = "raised", ![t].clean = FALSE]
         /\ UNCHANGED status
    ELSE /\ status' = [status EXCEPT ![s] = new]
         /\ work' = [work EXCEPT ![t].todo = @ \ {s}, ![t].at = "inspect",
                                 ![t].clean = @ /\ clean]

\* The first _inspect: an absent session is complete, a running one is frozen,
\* except in quiesce_all, where it counts as a failure.
Inspect(t) ==
    LET s == Current(t) IN
    /\ At(t, "inspect")
    /\ \/ Settle(t, "ERROR", FALSE)
       \/ ~Exists(s) /\ Settle(t, "COMPLETED", TRUE)
       \/ container[s] = "running" /\ work[t].op = "quiesce" /\ Settle(t, "ERROR", FALSE)
       \/ container[s] = "running" /\ work[t].op # "quiesce" /\ Goto(t, "freeze")
       \/ container[s] = "paused" /\ work[t].op = "freeze" /\ Goto(t, "check")
       \/ container[s] = "paused" /\ work[t].op # "freeze" /\ Goto(t, "terminate")
    /\ UNCHANGED hostVars

\* The freeze callback: it raises, or returns having paused the container or not.
Freeze(t) ==
    LET s == Current(t) IN
    /\ At(t, "freeze")
    /\ \/ Settle(t, "ERROR", FALSE) /\ UNCHANGED container
       \/ Goto(t, "check") /\ UNCHANGED container
       \/ /\ container[s] = "running"
          /\ Goto(t, "check") /\ container' = [container EXCEPT ![s] = "paused"]
    /\ UNCHANGED <<profile, cap, exec, live, par>>

\* The _inspect after the callback.  In an emergency the session is terminated
\* next unless it still runs.
Check(t) ==
    LET s == Current(t) IN
    /\ At(t, "check")
    /\ \/ Settle(t, "ERROR", FALSE)
       \/ container[s] = "running" /\ Settle(t, "ERROR", FALSE)
       \/ /\ work[t].op = "freeze" /\ container[s] # "running"
          /\ Settle(t, IF Exists(s) THEN "FROZEN" ELSE "COMPLETED", TRUE)
       \/ /\ work[t].op = "emergency" /\ container[s] # "running"
          /\ IF status[s] \in Terminal
             THEN Settle(t, "ERROR", FALSE)
             ELSE /\ status' = [status EXCEPT ![s] = "FROZEN"]
                  /\ work' = [work EXCEPT ![t].at = "terminate"]
    /\ UNCHANGED hostVars

\* The terminate callback may raise; the session is inspected either way.
Terminate(t) ==
    /\ At(t, "terminate")
    /\ \E raises \in BOOLEAN :
         work' = [work EXCEPT ![t].at = "verify", ![t].clean = @ /\ ~raises]
    /\ (Exists(Current(t)) /\ Remove(Current(t))) \/ UNCHANGED <<container, live>>
    /\ UNCHANGED status /\ UNCHANGED <<profile, cap, exec, par>>

BugVerify(t) ==
    /\ At(t, "verify")
    /\ Settle(t, "TERMINATED", TRUE)
    /\ UNCHANGED hostVars

\* The _inspect after termination: a survivor is a failure.
Verify(t) ==
    /\ At(t, "verify")
    /\ \/ Settle(t, "ERROR", FALSE)
       \/ ~Exists(Current(t)) /\ Settle(t, "TERMINATED", TRUE)
    /\ UNCHANGED hostVars

LoopStep(t) == Inspect(t) \/ Freeze(t) \/ Check(t) \/ Terminate(t) \/ Verify(t)

\* quiesce_session, from the timeout path of the execution's own thread
Emergency(s) ==
    /\ s \in Rescued /\ status[s] # "none" /\ work[s] = NoWork
    /\ Begin(s, "emergency", {s})
    /\ UNCHANGED status

EmergencyEnds(s) ==
    /\ work[s].op = "emergency" /\ Finished(s)
    /\ work' = [work EXCEPT ![s].op = "none"]
    /\ UNCHANGED status
================================================================================
