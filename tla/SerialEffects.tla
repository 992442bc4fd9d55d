---------------------------- MODULE SerialEffects ----------------------------
(***************************************************************************)
(* What the effect commit broker promises to whoever governs the runtime,  *)
(* without threads, locks, clocks, sessions or capabilities. Effects run   *)
(* one at a time; while one runs, the runtime world stands still and no    *)
(* containment begins or ends; it runs in the untainted world it was       *)
(* granted for, once, and ends with one outcome. No effect is granted in a *)
(* contained or tainted runtime.                                           *)
(***************************************************************************)
CONSTANTS Ids, Worlds, None

VARIABLES
    world, tainted,   \* the runtime
    closed,           \* is it contained?
    grant,            \* grant[i]: the world effect i was granted for, or None
    progress          \* progress[i]: how far effect i has come

vars == <<world, tainted, closed, grant, progress>>

Quiet == \A i \in Ids : progress[i] # "running"

Init ==
    /\ world \in Worlds /\ tainted = FALSE /\ closed = FALSE
    /\ grant = [i \in Ids |-> None]
    /\ progress = [i \in Ids |-> "none"]

Reconfigure ==
    /\ Quiet
    /\ world' \in Worlds /\ tainted' \in BOOLEAN
    /\ UNCHANGED <<closed, grant, progress>>

Contain ==
    /\ Quiet
    /\ closed' \in BOOLEAN
    /\ UNCHANGED <<world, tainted, grant, progress>>

Grant(i) ==
    /\ Quiet /\ ~closed /\ ~tainted
    /\ progress[i] = "none"
    /\ \E w \in Worlds : grant' = [grant EXCEPT ![i] = w]
    /\ progress' = [progress EXCEPT ![i] = "granted"]
    /\ UNCHANGED <<world, tainted, closed>>

Begin(i) ==
    /\ Quiet /\ ~closed /\ ~tainted
    /\ progress[i] = "granted" /\ grant[i] = world
    /\ progress' = [progress EXCEPT ![i] = "running"]
    /\ UNCHANGED <<world, tainted, closed, grant>>

End(i, outcome) ==
    /\ progress[i] = "running"
    /\ progress' = [progress EXCEPT ![i] = outcome]
    /\ UNCHANGED <<world, tainted, closed, grant>>

Next ==
    \/ Reconfigure \/ Contain
    \/ \E i \in Ids :
          \/ Grant(i) \/ Begin(i)
          \/ \E outcome \in {"SUCCEEDED", "FAILED"} : End(i, outcome)

Spec == Init /\ [][Next]_vars
==============================================================================
