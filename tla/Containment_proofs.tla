--------------------------- MODULE Containment_proofs ---------------------------
(***************************************************************************)
(* Proofs about Containment for every number of sessions, every process     *)
(* tree and every set of rescued executions.                                *)
(*                                                                         *)
(* A status is set from an inspection that may be old when it is set; what   *)
(* makes it true all the same is that a container that is gone stays gone.   *)
(* HostInv says so, TreeInv what the loops have settled and what they still  *)
(* have to do, LineageInv what the observations of the lineage supervisor    *)
(* stand for, PhaseInv and CapsInv where contain() is and what it has left.  *)
(***************************************************************************)
EXTENDS Containment, WellFoundedInduction, TLAPS

EarlySteps == {"idle", "freeze", "tree_freeze", "lf_before", "lf_acts", "lf_pause", "lf_after"}
LateSteps == {"seal", "snapshot", "review"}

HostInv ==
    /\ \A s \in Sessions : exec[s] \in {"idle", "authorized"} <=> container[s] = "unborn"
    /\ \A s \in Sessions : status[s] # "none" => container[s] # "unborn"
    /\ SeenPids # {} => container[Watched] # "unborn"

PhaseInv ==
    /\ state = "IDLE" <=> pc = "idle"
    /\ state \in {"REVIEW", "RELEASED"} => pc = "review"
    /\ pc \in {"tree_freeze", "tree_quiesce"} => profile = "tree"
    /\ pc \in {"lf_acts", "lf_pause", "lf_after", "lq_remove", "lq_after"} => profile = "lineage"
    /\ profile = "lineage" /\ pc # "idle" => SeenPids # {}

(* The registered sessions whose container exists and that the coordinator  *)
(* has neither settled nor could have known                                 *)
Escaped == {s \in Sessions : status[s] # "none" /\ Exists(s)} \ lateRuns

TreeInv ==
    /\ \A s \in Sessions : status[s] \in Terminal => container[s] = "gone"
    /\ \A t \in Threads : /\ \A s \in work[t].todo : status[s] # "none"
                          /\ work[t].at = "raised" => ~work[t].clean
    /\ pc = "tree_quiesce" =>
         /\ work[Coordinator].op = "quiesce"
         /\ work[Coordinator].clean => Escaped \subseteq work[Coordinator].todo
    /\ profile = "tree" /\ pc \in LateSteps /\ ~failed => Escaped = {}

LineageInv ==
    /\ pc \in EarlySteps => frozen = NoObservation
    /\ pc \in {"lf_pause", "lf_after"} => DOMAIN acted = {"state", "parent"}
    /\ frozen # NoObservation => frozen.state = "frozen" /\ frozen.parent = before.parent
    /\ pc \in {"lq_remove", "lq_after"} => frozen # NoObservation
    /\ receipt = "ALLOW" => /\ container[Watched] = "gone"
                            /\ frozen # NoObservation /\ DOMAIN frozen.parent = SeenPids
    /\ profile = "lineage" /\ pc \in LateSteps /\ ~failed => receipt = "ALLOW"

CapsInv ==
    /\ AfterList => \A s \in Sessions : cap[s] = "active" => s \in todoCaps \cup lateCaps
    /\ AfterList /\ pc # "revoke" => todoCaps = {}

IInv == TypeOK /\ HostInv /\ PhaseInv /\ TreeInv /\ LineageInv /\ CapsInv

\* The loops take the smallest session number that is left.
LEMMA MinIn ==
  ASSUME NEW S, S \subseteq Nat, S # {}
  PROVE  Min(S) \in S
<1>1. \E x \in S : \A y \in S : ~(<<y, x>> \in OpToRel(<, Nat))
  BY NatLessThanWellFounded, WFMin
<1>2. PICK x \in S : \A y \in S : ~(<<y, x>> \in OpToRel(<, Nat))
  BY <1>1
<1>3. \A y \in S : x <= y
  <2> SUFFICES ASSUME NEW y \in S PROVE x <= y
    OBVIOUS
  <2>1. OpToRel(<, Nat) = {ss \in Nat \X Nat : ss[1] < ss[2]}
    BY DEF OpToRel
  <2>2. ASSUME y < x PROVE FALSE
    <3>1. <<y, x>> \in {ss \in Nat \X Nat : ss[1] < ss[2]}
      BY <2>2
    <3> QED BY <1>2, <2>1, <3>1, Zenon
  <2> QED BY <2>2
<1> QED BY <1>3 DEF Min

-----------------------------------------------------------------------------
(* What a loop over sessions does in one step *)

\* How a container may change: one that is gone stays gone.
Ages(s) ==
    \/ container'[s] = container[s]
    \/ container[s] = "unborn" /\ container'[s] = "running" /\ exec[s] = "authorized"
    \/ container[s] = "running" /\ container'[s] = "paused"
    \/ Exists(s) /\ container'[s] = "gone"

Statuses == {"none", "ACTIVE", "FROZEN", "ERROR"} \cup Terminal
WorkRecords == [op : {"none", "freeze", "quiesce", "emergency"}, todo : SUBSET Sessions,
                at : {"list", "inspect", "freeze", "check", "terminate", "verify", "raised"},
                clean : BOOLEAN]

\* What a step of thread t's loop does to statuses and loops
LoopMoves(t) ==
    /\ status' \in [Sessions -> Statuses] /\ work' \in [Threads -> WorkRecords]
    /\ \A u \in Threads \ {t} : work'[u] = work[u]
    /\ \A s \in Sessions : status'[s] = "none" <=> status[s] = "none"
    /\ work'[t].op = work[t].op /\ work'[t].todo \subseteq work[t].todo
    /\ work'[t].clean => work[t].clean
    /\ work'[t].at = "raised" => ~work'[t].clean

LEMMA CurrentIn ==
  ASSUME TypeOK, NEW t \in Threads, work[t].todo # {}
  PROVE  Current(t) \in work[t].todo /\ Current(t) \in Sessions
<1>1. work[t].todo \subseteq Sessions
  BY DEF TypeOK, TreeTypeOK
<1>2. work[t].todo \subseteq Nat
  BY <1>1, SessionsAssumption
<1>3. Min(work[t].todo) \in work[t].todo
  BY <1>2, MinIn
<1> QED BY <1>1, <1>3 DEF Current

LEMMA GotoMoves ==
  ASSUME TypeOK, TreeInv, NEW t \in Threads,
         NEW step \in {"freeze", "check", "terminate"}, Goto(t, step)
  PROVE  LoopMoves(t) /\ UNCHANGED status /\ work'[t].todo = work[t].todo
<1>1. work \in [Threads -> WorkRecords] /\ status \in [Sessions -> Statuses]
  BY DEF TypeOK, TreeTypeOK, WorkRecords, Statuses
<1>2. work' = [work EXCEPT ![t].at = step] /\ status' = status
  BY DEF Goto
<1>3. work'[t] = [work[t] EXCEPT !.at = step] /\ work[t] \in WorkRecords
  BY <1>1, <1>2
<1>4. /\ work'[t] \in WorkRecords /\ work'[t].at = step /\ work'[t].op = work[t].op
      /\ work'[t].todo = work[t].todo /\ work'[t].clean = work[t].clean
  BY <1>3 DEF WorkRecords
<1>5. work' \in [Threads -> WorkRecords] /\ \A u \in Threads \ {t} : work'[u] = work[u]
  BY <1>1, <1>2, <1>4
<1> QED BY <1>1, <1>2, <1>4, <1>5 DEF LoopMoves

\* _set_status never gives up a terminal status, and a loop that goes on from a
\* session has set its status.
LEMMA SettleMoves ==
  ASSUME TypeOK, TreeInv, NEW t \in Threads, work[t].todo # {},
         NEW new \in {"ERROR", "FROZEN"} \cup Terminal, NEW clean \in BOOLEAN,
         Settle(t, new, clean)
  PROVE  /\ LoopMoves(t)
         /\ \A s \in Sessions : status'[s] # status[s] => s = Current(t) /\ status'[s] = new
         /\ work'[t].clean => clean \/ work'[t].todo = work[t].todo
         /\ \A s \in work[t].todo \ work'[t].todo : s = Current(t)
<1> DEFINE c == Current(t)
<1>1. work \in [Threads -> WorkRecords] /\ status \in [Sessions -> Statuses]
  BY DEF TypeOK, TreeTypeOK, WorkRecords, Statuses
<1>2. work[t] \in WorkRecords /\ c \in work[t].todo /\ c \in Sessions
  BY <1>1, CurrentIn
<1>3. status[c] # "none"
  BY <1>2 DEF TreeInv
<1> HIDE DEF c
<1>4. CASE status[c] \in Terminal /\ new # status[c]
  <2>1. work' = [work EXCEPT ![t].at = "raised", ![t].clean = FALSE] /\ status' = status
    BY <1>4 DEF Settle, c
  <2>2. work'[t] = [work[t] EXCEPT !.at = "raised", !.clean = FALSE]
    BY <1>1, <2>1
  <2>3. /\ work'[t] \in WorkRecords /\ work'[t].at = "raised" /\ work'[t].op = work[t].op
        /\ work'[t].todo = work[t].todo /\ work'[t].clean = FALSE
    BY <1>2, <2>2 DEF WorkRecords
  <2>4. work' \in [Threads -> WorkRecords] /\ \A u \in Threads \ {t} : work'[u] = work[u]
    BY <1>1, <2>1, <2>3
  <2> QED BY <1>1, <2>1, <2>3, <2>4 DEF LoopMoves
<1>5. CASE ~(status[c] \in Terminal /\ new # status[c])
  <2>1. /\ work' = [work EXCEPT ![t].todo = @ \ {c}, ![t].at = "inspect", ![t].clean = @ /\ clean]
        /\ status' = [status EXCEPT ![c] = new]
    BY <1>5 DEF Settle, c
  <2>2. work'[t] = [work[t] EXCEPT !.todo = @ \ {c}, !.at = "inspect", !.clean = @ /\ clean]
    BY <1>1, <2>1
  <2>3. /\ work'[t] \in WorkRecords /\ work'[t].at = "inspect" /\ work'[t].op = work[t].op
        /\ work'[t].todo = work[t].todo \ {c} /\ work'[t].clean = (work[t].clean /\ clean)
    BY <1>2, <2>2 DEF WorkRecords
  <2>4. work' \in [Threads -> WorkRecords] /\ \A u \in Threads \ {t} : work'[u] = work[u]
    BY <1>1, <2>1, <2>3
  <2>5. /\ status' \in [Sessions -> Statuses]
        /\ \A s \in Sessions : s # c => status'[s] = status[s]
        /\ status'[c] = new
    BY <1>1, <1>2, <2>1 DEF Statuses, Terminal
  <2>6. \A s \in Sessions : status'[s] = "none" <=> status[s] = "none"
    BY <1>2, <1>3, <2>5 DEF Terminal
  <2> QED BY <1>2, <2>3, <2>4, <2>5, <2>6 DEF LoopMoves, c
<1> QED BY <1>4, <1>5

LoopFacts(t) ==
    /\ LoopMoves(t)
    /\ UNCHANGED <<profile, cap, exec, par>> /\ HostTypeOK'
    /\ \A s \in Sessions : Ages(s)
    /\ \A s \in Sessions : status'[s] \in Terminal => container'[s] = "gone"
    /\ work[t].op = "quiesce" /\ work'[t].clean =>
         \A s \in work[t].todo \ work'[t].todo : container'[s] = "gone"

\* A loop's step that only looks at containers.
LEMMA LookFacts ==
  ASSUME TypeOK, HostInv, TreeInv, NEW t \in Threads, work[t].todo # {}, UNCHANGED hostVars,
         NEW new \in {"ERROR", "FROZEN"} \cup Terminal, NEW clean \in BOOLEAN,
         Settle(t, new, clean),
         new \in Terminal \/ (clean /\ work[t].op = "quiesce") => ~Exists(Current(t))
  PROVE  LoopFacts(t)
<1>1. Current(t) \in work[t].todo /\ Current(t) \in Sessions
  BY CurrentIn
<1>2. /\ LoopMoves(t)
      /\ \A s \in Sessions : status'[s] # status[s] => s = Current(t) /\ status'[s] = new
      /\ work'[t].clean => clean \/ work'[t].todo = work[t].todo
      /\ \A s \in work[t].todo \ work'[t].todo : s = Current(t)
  BY SettleMoves
<1>3. /\ UNCHANGED <<profile, cap, exec, container, live, par>>
      /\ HostTypeOK' /\ \A s \in Sessions : Ages(s)
  BY DEF hostVars, HostTypeOK, Exists, TypeOK, Ages
<1>4. new \in Terminal \/ (clean /\ work[t].op = "quiesce") => container[Current(t)] = "gone"
  <2>1. status[Current(t)] # "none"
    BY <1>1 DEF TreeInv
  <2>2. container[Current(t)] # "unborn"
    BY <1>1, <2>1 DEF HostInv
  <2>3. container[Current(t)] \in {"unborn", "running", "paused", "gone"}
    BY <1>1 DEF TypeOK, HostTypeOK
  <2> QED BY <2>2, <2>3 DEF Exists
<1>5. \A s \in Sessions : status'[s] \in Terminal => container[s] = "gone"
  BY <1>2, <1>4 DEF TreeInv
<1>6. work[t].op = "quiesce" /\ work'[t].clean =>
         \A s \in work[t].todo \ work'[t].todo : container[s] = "gone"
  BY <1>2, <1>4
<1> QED BY <1>2, <1>3, <1>5, <1>6 DEF LoopFacts

LEMMA GotoFacts ==
  ASSUME TypeOK, HostInv, TreeInv, NEW t \in Threads, UNCHANGED <<profile, cap, exec, par>>,
         HostTypeOK', \A s \in Sessions : Ages(s), LoopMoves(t), UNCHANGED status,
         work'[t].todo = work[t].todo
  PROVE  LoopFacts(t)
<1>1. \A s \in Sessions : status[s] \in Terminal => container'[s] = "gone"
  BY DEF TreeInv, Ages, Exists
<1> QED BY <1>1 DEF LoopFacts

\* Removing a container that exists.
LEMMA RemoveAges ==
  ASSUME HostTypeOK, NEW s \in Sessions, Remove(s), UNCHANGED <<profile, cap, exec, par>>,
         Exists(s) \/ container[s] = "gone"
  PROVE  /\ HostTypeOK' /\ \A r \in Sessions : Ages(r)
         /\ container'[s] = "gone" /\ \A r \in Sessions : r # s => container'[r] = container[r]
  BY SessionsAssumption DEF HostTypeOK, Remove, Exists, Ages

LEMMA LoopEffect ==
  ASSUME TypeOK, HostInv, TreeInv, NEW t \in Threads, LoopStep(t)
  PROVE  LoopFacts(t)
<1> DEFINE s == Current(t)
<1>0. work[t].todo # {}
  BY DEF LoopStep, Inspect, Freeze, Check, Terminate, Verify, At
<1>c. s \in Sessions /\ s \in work[t].todo
  BY <1>0, CurrentIn
<1>t. container[s] \in {"unborn", "running", "paused", "gone"}
  BY <1>c DEF TypeOK, HostTypeOK
<1>g. ASSUME UNCHANGED hostVars, NEW step \in {"freeze", "check", "terminate"}, Goto(t, step)
      PROVE  LoopFacts(t)
  <2>1. LoopMoves(t) /\ UNCHANGED status /\ work'[t].todo = work[t].todo
    BY <1>g, GotoMoves
  <2>2. /\ UNCHANGED <<profile, cap, exec, par>> /\ HostTypeOK'
        /\ \A r \in Sessions : Ages(r)
    BY <1>g DEF hostVars, HostTypeOK, Exists, TypeOK, Ages
  <2> QED BY <2>1, <2>2, GotoFacts
<1>1. CASE Inspect(t)
  <2>1. UNCHANGED hostVars
    BY <1>1 DEF Inspect
  <2>2. CASE Settle(t, "ERROR", FALSE)
    BY <1>0, <2>1, <2>2, LookFacts DEF Terminal
  <2>3. CASE ~Exists(s) /\ Settle(t, "COMPLETED", TRUE)
    BY <1>0, <2>1, <2>3, LookFacts DEF Terminal
  <2> QED BY <1>1, <1>g, <2>1, <2>2, <2>3 DEF Inspect
<1>2. CASE Freeze(t)
  <2>1. CASE Settle(t, "ERROR", FALSE) /\ UNCHANGED container
    <3>1. UNCHANGED hostVars
      BY <1>2, <2>1 DEF Freeze, hostVars
    <3> QED BY <1>0, <2>1, <3>1, LookFacts DEF Terminal
  <2>2. CASE Goto(t, "check") /\ UNCHANGED container
    BY <1>2, <1>g, <2>2 DEF Freeze, hostVars
  <2>3. CASE /\ container[s] = "running" /\ Goto(t, "check")
             /\ container' = [container EXCEPT ![s] = "paused"]
    <3>1. LoopMoves(t) /\ UNCHANGED status /\ work'[t].todo = work[t].todo
      BY <2>3, GotoMoves
    <3>2. UNCHANGED <<profile, cap, exec, live, par>>
      BY <1>2 DEF Freeze
    <3>3. \A r \in Sessions : Ages(r)
      BY <1>c, <2>3 DEF TypeOK, HostTypeOK, Ages
    <3>4. HostTypeOK'
      BY <1>c, <2>3, <3>2, SessionsAssumption DEF TypeOK, HostTypeOK, Exists
    <3> QED BY <3>1, <3>2, <3>3, <3>4, GotoFacts
  <2> QED BY <1>2, <2>1, <2>2, <2>3 DEF Freeze
<1>3. CASE Check(t)
  <2>1. UNCHANGED hostVars
    BY <1>3 DEF Check
  <2>2. CASE Settle(t, "ERROR", FALSE)
    BY <1>0, <2>1, <2>2, LookFacts DEF Terminal
  <2>3. CASE /\ work[t].op = "freeze" /\ container[s] # "running"
             /\ Settle(t, IF Exists(s) THEN "FROZEN" ELSE "COMPLETED", TRUE)
    <3>1. CASE Exists(s)
      BY <1>0, <2>1, <2>3, <3>1, LookFacts DEF Terminal
    <3>2. CASE ~Exists(s)
      BY <1>0, <2>1, <2>3, <3>2, LookFacts DEF Terminal
    <3> QED BY <3>1, <3>2
  <2>4. CASE /\ status[s] \notin Terminal
             /\ status' = [status EXCEPT ![s] = "FROZEN"]
             /\ work' = [work EXCEPT ![t].at = "terminate"]
    <3>1. work \in [Threads -> WorkRecords] /\ status \in [Sessions -> Statuses]
      BY DEF TypeOK, TreeTypeOK, WorkRecords, Statuses
    <3>2. work'[t] = [work[t] EXCEPT !.at = "terminate"] /\ work[t] \in WorkRecords
      BY <2>4, <3>1
    <3>3. /\ work'[t] \in WorkRecords /\ work'[t].at = "terminate" /\ work'[t].op = work[t].op
          /\ work'[t].todo = work[t].todo /\ work'[t].clean = work[t].clean
      BY <3>2 DEF WorkRecords
    <3>4. work' \in [Threads -> WorkRecords] /\ \A u \in Threads \ {t} : work'[u] = work[u]
      BY <2>4, <3>1, <3>3
    <3>5. /\ status' \in [Sessions -> Statuses] /\ status'[s] = "FROZEN"
          /\ \A r \in Sessions : r # s => status'[r] = status[r]
      BY <1>c, <2>4, <3>1 DEF Statuses
    <3>6. status[s] # "none"
      BY <1>c DEF TreeInv
    <3>7. LoopMoves(t)
      BY <3>3, <3>4, <3>5, <3>6 DEF LoopMoves
    <3>8. \A r \in Sessions : status'[r] \in Terminal => container'[r] = "gone"
      BY <2>1, <3>5 DEF TreeInv, hostVars, Terminal
    <3>9. /\ UNCHANGED <<profile, cap, exec, par>> /\ HostTypeOK'
          /\ \A r \in Sessions : Ages(r) /\ container'[r] = container[r]
      BY <2>1 DEF hostVars, HostTypeOK, Exists, TypeOK, Ages
    <3> QED BY <3>3, <3>7, <3>8, <3>9 DEF LoopFacts
  <2> QED BY <1>3, <2>2, <2>3, <2>4 DEF Check
<1>4. CASE Terminate(t)
  <2>1. PICK raises \in BOOLEAN : work' = [work EXCEPT ![t].at = "verify", ![t].clean = @ /\ ~raises]
    BY <1>4 DEF Terminate
  <2>2. UNCHANGED status /\ UNCHANGED <<profile, cap, exec, par>>
    BY <1>4 DEF Terminate
  <2>3. work \in [Threads -> WorkRecords] /\ status \in [Sessions -> Statuses]
    BY DEF TypeOK, TreeTypeOK, WorkRecords, Statuses
  <2>4. work'[t] = [work[t] EXCEPT !.at = "verify", !.clean = @ /\ ~raises] /\ work[t] \in WorkRecords
    BY <2>1, <2>3
  <2>5. /\ work'[t] \in WorkRecords /\ work'[t].at = "verify" /\ work'[t].op = work[t].op
        /\ work'[t].todo = work[t].todo /\ work'[t].clean = (work[t].clean /\ ~raises)
    BY <2>4 DEF WorkRecords
  <2>6. work' \in [Threads -> WorkRecords] /\ \A u \in Threads \ {t} : work'[u] = work[u]
    BY <2>1, <2>3, <2>5
  <2>7. LoopMoves(t)
    BY <2>2, <2>3, <2>5, <2>6 DEF LoopMoves
  <2>8. HostTypeOK' /\ \A r \in Sessions : Ages(r)
    <3>1. CASE Exists(s) /\ Remove(s)
      BY <1>c, <2>2, <3>1, RemoveAges DEF TypeOK
    <3>2. CASE UNCHANGED <<container, live>>
      BY <2>2, <3>2 DEF TypeOK, HostTypeOK, Exists, Ages
    <3> QED BY <1>4, <3>1, <3>2 DEF Terminate
  <2> QED BY <2>2, <2>5, <2>7, <2>8, GotoFacts
<1>5. CASE Verify(t)
  <2>1. UNCHANGED hostVars
    BY <1>5 DEF Verify
  <2>2. CASE Settle(t, "ERROR", FALSE)
    BY <1>0, <2>1, <2>2, LookFacts DEF Terminal
  <2>3. CASE ~Exists(s) /\ Settle(t, "TERMINATED", TRUE)
    BY <1>0, <2>1, <2>3, LookFacts DEF Terminal
  <2> QED BY <1>5, <2>2, <2>3 DEF Verify
<1> QED BY <1>1, <1>2, <1>3, <1>4, <1>5 DEF LoopStep

-----------------------------------------------------------------------------
(* contain() between its hooks *)

\* The steps of contain() and release() that leave the host, the sessions and
\* the lineage alone.
LEMMA PlainStep ==
  ASSUME IInv, Contain \/ FreezePlain \/ CloseEgress \/ ListCapabilities \/ RevokeEnds
               \/ Seal \/ SnapshotForensics \/ Release
  PROVE  IInv'
<1>1. /\ UNCHANGED <<profile, cap, exec, container, live, par, status, work>>
      /\ UNCHANGED <<seen, before, frozen, acted, receipt, lateCaps, lateRuns>>
  BY DEF Contain, FreezePlain, CloseEgress, ListCapabilities, RevokeEnds, Seal,
     SnapshotForensics, Release, Stay, hostVars, treeVars, lineageVars, historyVars
<1>2. /\ HostTypeOK' /\ TreeTypeOK' /\ LineageTypeOK' /\ HostInv'
      /\ SeenPids' = SeenPids /\ Escaped' = Escaped
  BY <1>1 DEF IInv, TypeOK, HostTypeOK, TreeTypeOK, LineageTypeOK, HostInv, Exists, SeenPids, Escaped
<1>3. state' \in States /\ pc' \in Steps /\ failed' \in BOOLEAN /\ todoCaps' \subseteq Sessions
  BY DEF Contain, FreezePlain, CloseEgress, ListCapabilities, RevokeEnds, Seal,
     SnapshotForensics, Release, Stay, Move, IInv, TypeOK, States, Steps
<1>4. TypeOK'
  BY <1>1, <1>2, <1>3 DEF IInv, TypeOK
<1>5. /\ pc' \notin {"tree_freeze", "tree_quiesce", "lf_acts", "lf_pause", "lf_after", "lq_remove", "lq_after"}
      /\ pc' \in LateSteps => \/ pc = "revoke" /\ profile = "none"
                              \/ pc \in LateSteps
      /\ ~failed' => ~failed
      /\ pc' \in EarlySteps => pc = "idle"
  BY DEF Contain, FreezePlain, CloseEgress, ListCapabilities, RevokeEnds, Seal, PhaseInv,
     SnapshotForensics, Release, Stay, Move, LateSteps, EarlySteps, IInv
<1>6. PhaseInv'
  BY <1>1, <1>2, <1>5 DEF Contain, FreezePlain, CloseEgress, ListCapabilities, RevokeEnds, Seal,
     SnapshotForensics, Release, Stay, Move, IInv, PhaseInv
<1>7. TreeInv'
  BY <1>1, <1>2, <1>5 DEF IInv, TreeInv
<1>8. LineageInv'
  BY <1>1, <1>2, <1>5 DEF IInv, LineageInv, EarlySteps
<1>9. CapsInv'
  BY <1>1 DEF Contain, FreezePlain, CloseEgress, ListCapabilities, RevokeEnds, Seal,
     SnapshotForensics, Release, Stay, Move, IInv, CapsInv, AfterList, PhaseInv
<1> QED BY <1>2, <1>4, <1>6, <1>7, <1>8, <1>9 DEF IInv

LEMMA RevokeStep ==
  ASSUME IInv, RevokeOne
  PROVE  IInv'
<1> DEFINE m == Min(todoCaps)
<1>1. /\ UNCHANGED <<profile, exec, container, live, par, status, work>>
      /\ UNCHANGED <<seen, before, frozen, acted, receipt, lateCaps, lateRuns, state>>
      /\ pc = "revoke" /\ pc' = "revoke" /\ failed' \in BOOLEAN
      /\ todoCaps' = todoCaps \ {m}
      /\ cap' = [cap EXCEPT ![m] = IF @ = "active" THEN "revoked" ELSE @]
  BY DEF RevokeOne, Move, treeVars, lineageVars, historyVars, IInv, TypeOK
<1> HIDE DEF m
<1>2. cap' \in [Sessions -> {"none", "active", "revoked"}]
  BY <1>1 DEF IInv, TypeOK, HostTypeOK
<1>3. TypeOK'
  BY <1>1, <1>2 DEF IInv, TypeOK, HostTypeOK, TreeTypeOK, LineageTypeOK, Exists
<1>4. HostInv' /\ PhaseInv' /\ TreeInv' /\ LineageInv'
  BY <1>1 DEF IInv, HostInv, PhaseInv, TreeInv, LineageInv, Escaped, Exists, SeenPids,
     EarlySteps, LateSteps
<1>5. CapsInv'
  BY <1>1 DEF IInv, TypeOK, HostTypeOK, CapsInv, AfterList
<1> QED BY <1>3, <1>4, <1>5 DEF IInv

\* The start and the end of the coordinator's own loops.
LEMMA TreeHookStep ==
  ASSUME IInv, FreezeTree \/ FreezeTreeEnds \/ QuiesceTree \/ QuiesceTreeEnds
  PROVE  IInv'
<1>1. /\ UNCHANGED <<profile, cap, exec, container, live, par, status, state, todoCaps>>
      /\ UNCHANGED <<seen, before, frozen, acted, receipt, lateCaps, lateRuns>>
  BY DEF FreezeTree, FreezeTreeEnds, QuiesceTree, QuiesceTreeEnds, Stay, hostVars,
     lineageVars, historyVars
<1>2. work \in [Threads -> WorkRecords] /\ Coordinator \in Threads
  BY DEF IInv, TypeOK, TreeTypeOK, WorkRecords, Threads
<1>3. Candidates \subseteq Sessions
  BY DEF Candidates
<1>4. PICK w \in WorkRecords :
        /\ work' = [work EXCEPT ![Coordinator] = w]
        /\ w.at # "raised"
        /\ w.todo = {} \/ (w.todo = Candidates /\ w.op \in {"freeze", "quiesce"})
        /\ QuiesceTree => w.op = "quiesce" /\ w.todo = Candidates
  <2>1. CASE FreezeTree \/ QuiesceTree
    <3>1. PICK op \in {"freeze", "quiesce"} :
            /\ work' = [work EXCEPT ![Coordinator] =
                          [op |-> op, todo |-> Candidates, at |-> "inspect", clean |-> TRUE]]
            /\ QuiesceTree => op = "quiesce"
      BY <2>1 DEF FreezeTree, QuiesceTree, Begin
    <3>2. [op |-> op, todo |-> Candidates, at |-> "inspect", clean |-> TRUE] \in WorkRecords
      BY <1>3, <3>1 DEF WorkRecords
    <3> QED BY <3>1, <3>2
  <2>2. CASE FreezeTreeEnds \/ QuiesceTreeEnds
    <3>1. NoWork \in WorkRecords /\ NoWork.at # "raised" /\ NoWork.todo = {}
      BY DEF NoWork, WorkRecords
    <3>2. ~QuiesceTree /\ work' = [work EXCEPT ![Coordinator] = NoWork]
      BY <2>2 DEF FreezeTreeEnds, QuiesceTreeEnds, QuiesceTree
    <3> QED BY <3>1, <3>2
  <2> QED BY <2>1, <2>2
<1>5. /\ work' \in [Threads -> WorkRecords] /\ work'[Coordinator] = w
      /\ \A t \in Threads : t # Coordinator => work'[t] = work[t]
  BY <1>2, <1>4
<1>6. /\ SeenPids' = SeenPids /\ Escaped' = Escaped /\ HostTypeOK' /\ LineageTypeOK' /\ HostInv'
  BY <1>1 DEF IInv, TypeOK, HostTypeOK, LineageTypeOK, HostInv, Exists, SeenPids, Escaped
<1>7. /\ <<pc, pc'>> \in {<<"freeze", "tree_freeze">>, <<"tree_freeze", "egress">>,
                          <<"quiesce", "tree_quiesce">>, <<"tree_quiesce", "seal">>}
      /\ failed' \in BOOLEAN /\ (~failed' => ~failed)
      /\ profile = "tree"
      /\ pc' = "tree_quiesce" => QuiesceTree
  BY DEF FreezeTree, FreezeTreeEnds, QuiesceTree, QuiesceTreeEnds, Move, IInv, TypeOK, PhaseInv
<1>8. TypeOK'
  BY <1>1, <1>5, <1>6, <1>7 DEF IInv, TypeOK, TreeTypeOK, WorkRecords, Steps
<1>9. PhaseInv'
  BY <1>1, <1>6, <1>7 DEF IInv, PhaseInv
<1>10. LineageInv'
  BY <1>1, <1>6, <1>7 DEF IInv, LineageInv, EarlySteps, LateSteps
<1>11. CapsInv'
  BY <1>1, <1>7 DEF IInv, CapsInv, AfterList
<1>12. TreeInv'
  <2>1. \A s \in Sessions : status'[s] \in Terminal => container'[s] = "gone"
    BY <1>1 DEF IInv, TreeInv
  <2>2. ASSUME NEW t \in Threads
        PROVE  /\ \A s \in work'[t].todo : status'[s] # "none"
               /\ work'[t].at = "raised" => ~work'[t].clean
    <3>1. CASE t # Coordinator
      BY <1>1, <1>5, <3>1 DEF IInv, TreeInv
    <3>2. CASE t = Coordinator
      BY <1>1, <1>4, <1>5, <3>2 DEF Candidates
    <3> QED BY <3>1, <3>2
  <2>3. ASSUME pc' = "tree_quiesce"
        PROVE  work'[Coordinator].op = "quiesce" /\ Escaped' \subseteq work'[Coordinator].todo
    <3>1. w.op = "quiesce" /\ w.todo = Candidates
      BY <1>4, <1>7, <2>3
    <3>2. Escaped \subseteq Candidates
      BY DEF IInv, TreeInv, Escaped, Candidates, Exists
    <3> QED BY <1>5, <1>6, <3>1, <3>2
  <2>4. ASSUME pc' \in LateSteps, ~failed' PROVE Escaped' = {}
    <3>1. pc = "tree_quiesce" /\ pc' = "seal"
      BY <1>7, <2>4 DEF LateSteps
    <3>2. QuiesceTreeEnds
      BY <3>1 DEF FreezeTree, FreezeTreeEnds, QuiesceTree, Move
    <3>3. work[Coordinator].clean /\ Finished(Coordinator)
      BY <2>4, <3>2 DEF QuiesceTreeEnds, Move
    <3>4. work[Coordinator].at # "raised"
      BY <1>2, <3>3 DEF IInv, TreeInv
    <3>5. work[Coordinator].todo = {}
      BY <3>3, <3>4 DEF Finished
    <3> QED BY <1>6, <3>1, <3>3, <3>5 DEF IInv, TreeInv
  <2> QED BY <2>1, <2>2, <2>3, <2>4 DEF TreeInv
<1> QED BY <1>6, <1>8, <1>9, <1>10, <1>11, <1>12 DEF IInv

-----------------------------------------------------------------------------
(* The host and the threads of the executions *)

\* Whatever ages the containers without touching the coordinator, the statuses
\* and the lineage keeps these invariants.
LEMMA AgeKeeps ==
  ASSUME IInv, HostTypeOK', \A s \in Sessions : Ages(s),
         \A s \in Sessions : exec'[s] \in {"idle", "authorized"} <=> container'[s] = "unborn",
         UNCHANGED <<profile, state, pc, failed, todoCaps>>,
         UNCHANGED <<seen, before, frozen, acted, receipt>>
  PROVE  /\ LineageTypeOK' /\ PhaseInv' /\ LineageInv'
         /\ \A s \in Sessions : status[s] # "none" => container'[s] # "unborn"
         /\ SeenPids' = SeenPids /\ (SeenPids # {} => container'[Watched] # "unborn")
         /\ \A s \in Sessions : status[s] \in Terminal => container'[s] = "gone"
         /\ \A s \in Sessions : status[s] # "none" /\ Exists(s)' => Exists(s)
<1>1. SeenPids' = SeenPids /\ Watched \in Sessions
  BY SessionsAssumption DEF SeenPids
<1>2. LineageTypeOK' /\ PhaseInv'
  BY <1>1 DEF IInv, TypeOK, LineageTypeOK, PhaseInv
<1>3. LineageInv'
  BY <1>1 DEF IInv, LineageInv, Ages, Exists, EarlySteps, LateSteps
<1>4. \A s \in Sessions : status[s] # "none" => container'[s] # "unborn"
  BY DEF IInv, HostInv, Ages
<1>5. SeenPids # {} => container'[Watched] # "unborn"
  BY <1>1 DEF IInv, HostInv, Ages
<1>6. \A s \in Sessions : status[s] \in Terminal => container'[s] = "gone"
  BY DEF IInv, TreeInv, Ages, Exists
<1>7. \A s \in Sessions : status[s] # "none" /\ Exists(s)' => Exists(s)
  BY DEF IInv, HostInv, Ages, Exists
<1> QED BY <1>1, <1>2, <1>3, <1>4, <1>5, <1>6, <1>7

LEMMA LoopKeeps ==
  ASSUME IInv, NEW t \in Threads, LoopStep(t), UNCHANGED <<lineageVars, coordVars, historyVars>>
  PROVE  IInv'
<1>0. LoopFacts(t)
  BY LoopEffect DEF IInv
<1>1. /\ UNCHANGED <<state, pc, failed, todoCaps, lateCaps, lateRuns>>
      /\ UNCHANGED <<seen, before, frozen, acted, receipt>>
      /\ UNCHANGED <<profile, cap, exec, par>>
  BY <1>0 DEF lineageVars, coordVars, historyVars, LoopFacts
<1>2. \A s \in Sessions : exec'[s] \in {"idle", "authorized"} <=> container'[s] = "unborn"
  <2> SUFFICES ASSUME NEW s \in Sessions
               PROVE  exec[s] \in {"idle", "authorized"} <=> container'[s] = "unborn"
    BY <1>1
  <2>1. Ages(s) /\ (exec[s] \in {"idle", "authorized"} <=> container[s] = "unborn")
    BY <1>0 DEF LoopFacts, IInv, HostInv
  <2>2. container'[s] # "running" \/ container[s] # "unborn"
    <3>1. \A r \in Sessions : container'[r] # container[r] => container[r] # "unborn"
      <4>1. ASSUME NEW r \in Sessions, container'[r] # container[r], container[r] = "unborn" PROVE FALSE
        <5>1. r = Current(t)
          BY <4>1 DEF LoopStep, Inspect, Freeze, Check, Terminate, Verify, hostVars, Remove,
             IInv, TypeOK, HostTypeOK
        <5>2. work[t].todo # {}
          BY DEF LoopStep, Inspect, Freeze, Check, Terminate, Verify, At
        <5>3. status[r] # "none"
          BY <5>1, <5>2, CurrentIn DEF IInv, TreeInv
        <5> QED BY <4>1, <5>3 DEF IInv, HostInv
      <4> QED BY <4>1
    <3> QED BY <3>1
  <2> QED BY <2>1, <2>2 DEF Ages, Exists
<1>3. /\ LineageTypeOK' /\ PhaseInv' /\ LineageInv'
      /\ \A s \in Sessions : status[s] # "none" => container'[s] # "unborn"
      /\ SeenPids' = SeenPids /\ (SeenPids # {} => container'[Watched] # "unborn")
      /\ \A s \in Sessions : status[s] # "none" /\ Exists(s)' => Exists(s)
  BY <1>0, <1>1, <1>2, AgeKeeps DEF LoopFacts
<1>4. TypeOK'
  BY <1>0, <1>1, <1>3 DEF IInv, TypeOK, LoopFacts, LoopMoves, TreeTypeOK, WorkRecords, Statuses
<1>5. HostInv'
  BY <1>0, <1>2, <1>3 DEF HostInv, LoopFacts, LoopMoves
<1>6. CapsInv'
  BY <1>1 DEF IInv, CapsInv, AfterList
<1>7. TreeInv'
  <2>1. \A s \in Sessions : status'[s] \in Terminal => container'[s] = "gone"
    BY <1>0 DEF LoopFacts
  <2>2. ASSUME NEW u \in Threads
        PROVE  /\ \A s \in work'[u].todo : status'[s] # "none"
               /\ work'[u].at = "raised" => ~work'[u].clean
    <3>1. work'[u].todo \subseteq work[u].todo /\ work[u].todo \subseteq Sessions
      BY <1>0 DEF LoopFacts, LoopMoves, IInv, TypeOK, TreeTypeOK
    <3>2. \A s \in work'[u].todo : status'[s] # "none"
      BY <1>0, <3>1 DEF LoopFacts, LoopMoves, IInv, TreeInv
    <3>3. work'[u].at = "raised" => ~work'[u].clean
      BY <1>0 DEF LoopFacts, LoopMoves, IInv, TreeInv
    <3> QED BY <3>2, <3>3
  <2>3. Escaped' \subseteq Escaped
    BY <1>0, <1>1, <1>3 DEF Escaped, LoopFacts, LoopMoves
  <2>4. Coordinator \in Threads
    BY DEF Threads
  <2>5. ASSUME pc' = "tree_quiesce"
        PROVE  /\ work'[Coordinator].op = "quiesce"
               /\ work'[Coordinator].clean => Escaped' \subseteq work'[Coordinator].todo
    <3>1. /\ work[Coordinator].op = "quiesce"
          /\ work[Coordinator].clean => Escaped \subseteq work[Coordinator].todo
      BY <1>1, <2>5 DEF IInv, TreeInv
    <3>2. CASE t # Coordinator
      BY <1>0, <2>3, <2>4, <3>1, <3>2 DEF LoopFacts, LoopMoves
    <3>3. CASE t = Coordinator
      <4>1. work'[t].op = "quiesce" /\ (work'[t].clean => work[t].clean)
        BY <1>0, <3>1, <3>3 DEF LoopFacts, LoopMoves
      <4>2. work'[t].clean => \A s \in work[t].todo \ work'[t].todo : container'[s] = "gone"
        BY <1>0, <3>1, <3>3 DEF LoopFacts
      <4>3. \A s \in Escaped' : container'[s] # "gone"
        BY DEF Escaped, Exists
      <4> QED BY <2>3, <3>1, <3>3, <4>1, <4>2, <4>3
    <3> QED BY <3>2, <3>3
  <2>6. profile' = "tree" /\ pc' \in LateSteps /\ ~failed' => Escaped' = {}
    BY <1>1, <2>3 DEF IInv, TreeInv
  <2> QED BY <2>1, <2>2, <2>5, <2>6 DEF TreeInv
<1> QED BY <1>3, <1>4, <1>5, <1>6, <1>7 DEF IInv

\* What the host does on its own.
LEMMA HostEffect ==
  ASSUME TypeOK, HostInv, HostStep
  PROVE  /\ HostTypeOK' /\ UNCHANGED profile
         /\ \A s \in Sessions : Ages(s)
         /\ \A s \in Sessions : exec'[s] \in {"idle", "authorized"} <=> container'[s] = "unborn"
         /\ \A s \in Sessions : cap'[s] = "active" => cap[s] \in {"active", "none"}
<1>1. Watched \in Sessions /\ Root \in Pids
  BY SessionsAssumption, PidsAssumption
<1>2. ASSUME NEW s \in Sessions, Admit(s) \/ Lapse(s) \/ Authorize(s)
      PROVE  /\ HostTypeOK' /\ UNCHANGED profile
             /\ \A r \in Sessions : Ages(r)
             /\ \A r \in Sessions : exec'[r] \in {"idle", "authorized"} <=> container'[r] = "unborn"
             /\ \A r \in Sessions : cap'[r] = "active" => cap[r] \in {"active", "none"}
  BY <1>1, <1>2 DEF Admit, Lapse, Authorize, TypeOK, HostTypeOK, HostInv, Ages, Exists
<1>3. ASSUME NEW s \in Sessions, Launch(s)
      PROVE  /\ HostTypeOK' /\ UNCHANGED <<profile, cap>>
             /\ \A r \in Sessions : Ages(r)
             /\ \A r \in Sessions : exec'[r] \in {"idle", "authorized"} <=> container'[r] = "unborn"
  <2>1. container[s] = "unborn"
    BY <1>3 DEF Launch, HostInv
  <2> QED BY <1>1, <1>3, <2>1 DEF Launch, TypeOK, HostTypeOK, HostInv, Ages, Exists
<1>4. ASSUME NEW s \in Sessions, Exit(s) \/ Returned(s)
      PROVE  /\ HostTypeOK' /\ UNCHANGED <<profile, cap>>
             /\ \A r \in Sessions : Ages(r)
             /\ \A r \in Sessions : exec'[r] \in {"idle", "authorized"} <=> container'[r] = "unborn"
  <2>1. CASE Exit(s)
    BY <1>1, <1>4, <2>1 DEF Exit, Remove, TypeOK, HostTypeOK, HostInv, Ages, Exists
  <2>2. CASE Returned(s)
    BY <1>1, <1>4, <2>2 DEF Returned, Remove, TypeOK, HostTypeOK, HostInv, Ages, Exists
  <2> QED BY <1>4, <2>1, <2>2
<1>5. ASSUME NEW p \in Pids, (\E c \in Pids : Fork(p, c)) \/ Die(p)
      PROVE  /\ HostTypeOK' /\ UNCHANGED <<profile, cap, exec, container>>
             /\ \A r \in Sessions : Ages(r)
  BY <1>1, <1>5 DEF Fork, Die, TypeOK, HostTypeOK, Ages, Exists
<1> QED BY <1>2, <1>3, <1>4, <1>5 DEF HostStep, HostInv

LEMMA HostKeeps ==
  ASSUME IInv, HostStep,
         lateCaps' = lateCaps \cup
              {s \in Sessions : AfterList /\ cap[s] = "none" /\ cap'[s] = "active"},
         UNCHANGED <<treeVars, lineageVars, coordVars, lateRuns>>
  PROVE  IInv'
<1>1. /\ UNCHANGED <<state, pc, failed, todoCaps, lateRuns, status, work>>
      /\ UNCHANGED <<seen, before, frozen, acted, receipt, profile>>
  BY HostEffect DEF lineageVars, coordVars, treeVars, IInv
<1>2. /\ HostTypeOK' /\ \A s \in Sessions : Ages(s)
      /\ \A s \in Sessions : exec'[s] \in {"idle", "authorized"} <=> container'[s] = "unborn"
      /\ \A s \in Sessions : cap'[s] = "active" => cap[s] \in {"active", "none"}
  BY HostEffect DEF IInv
<1>3. /\ LineageTypeOK' /\ PhaseInv' /\ LineageInv'
      /\ \A s \in Sessions : status[s] # "none" => container'[s] # "unborn"
      /\ SeenPids' = SeenPids /\ (SeenPids # {} => container'[Watched] # "unborn")
      /\ \A s \in Sessions : status[s] \in Terminal => container'[s] = "gone"
      /\ \A s \in Sessions : status[s] # "none" /\ Exists(s)' => Exists(s)
  BY <1>1, <1>2, AgeKeeps
<1>4. TypeOK'
  BY <1>1, <1>2, <1>3 DEF IInv, TypeOK, TreeTypeOK
<1>5. HostInv'
  BY <1>1, <1>2, <1>3 DEF HostInv
<1>6. Escaped' \subseteq Escaped
  BY <1>1, <1>3 DEF Escaped
<1>7. TreeInv'
  BY <1>1, <1>3, <1>6 DEF IInv, TreeInv
<1>8. CapsInv'
  BY <1>1, <1>2 DEF IInv, CapsInv, AfterList
<1> QED BY <1>3, <1>4, <1>5, <1>7, <1>8 DEF IInv

\* register_session and mark_complete
LEMMA SessionKeeps ==
  ASSUME IInv, NEW s \in Sessions,
         \/ /\ Register(s)
            /\ lateRuns' = lateRuns \cup
                 {r \in Sessions : AfterQuiesceList /\ status[r] = "none" /\ status'[r] # "none"}
         \/ MarkComplete(s) /\ UNCHANGED lateRuns,
         UNCHANGED <<hostVars, lineageVars, coordVars, lateCaps>>
  PROVE  IInv'
<1>1. /\ UNCHANGED <<state, pc, failed, todoCaps, lateCaps, work>>
      /\ UNCHANGED <<seen, before, frozen, acted, receipt>>
      /\ UNCHANGED <<profile, cap, exec, container, live, par>>
  BY DEF lineageVars, coordVars, hostVars, Register, MarkComplete
<1>2. /\ status \in [Sessions -> Statuses]
      /\ \E new \in Statuses \ {"none"} : status' = [status EXCEPT ![s] = new]
      /\ container[s] # "unborn"
      /\ MarkComplete(s) => container[s] = "gone" /\ status[s] # "none"
  <2>1. container[s] \in {"unborn", "running", "paused", "gone"}
    BY DEF IInv, TypeOK, HostTypeOK
  <2> QED BY <2>1 DEF Register, MarkComplete, IInv, TypeOK, TreeTypeOK, HostInv, Exists, Statuses, Terminal
<1>3. /\ status' \in [Sessions -> Statuses] /\ status'[s] # "none"
      /\ \A r \in Sessions : r # s => status'[r] = status[r]
  BY <1>2
<1>4. TypeOK'
  BY <1>1, <1>3 DEF IInv, TypeOK, HostTypeOK, TreeTypeOK, LineageTypeOK, Exists, Statuses
<1>5. PhaseInv' /\ LineageInv' /\ CapsInv'
  BY <1>1 DEF IInv, PhaseInv, LineageInv, CapsInv, AfterList, SeenPids, EarlySteps, LateSteps
<1>6. HostInv'
  BY <1>1, <1>2, <1>3 DEF IInv, HostInv, SeenPids
<1>7. TreeInv'
  <2>1. \A r \in Sessions : status'[r] \in Terminal => container'[r] = "gone"
    <3>1. status'[s] \in Terminal => container[s] = "gone"
      BY <1>2 DEF Register, Terminal, IInv, TypeOK, TreeTypeOK
    <3> QED BY <1>1, <1>3, <3>1 DEF IInv, TreeInv
  <2>2. ASSUME NEW t \in Threads
        PROVE  /\ \A r \in work'[t].todo : status'[r] # "none"
               /\ work'[t].at = "raised" => ~work'[t].clean
    <3>1. work[t].todo \subseteq Sessions
      BY DEF IInv, TypeOK, TreeTypeOK
    <3> QED BY <1>1, <1>3, <3>1 DEF IInv, TreeInv
  <2>3. pc \in LateSteps \cup {"tree_quiesce"} => Escaped' \subseteq Escaped
    <3> SUFFICES ASSUME pc \in LateSteps \cup {"tree_quiesce"}, NEW r \in Escaped'
                 PROVE  r \in Escaped
      OBVIOUS
    <3>1. r \in Sessions /\ status'[r] # "none" /\ Exists(r) /\ r \notin lateRuns'
      BY <1>1 DEF Escaped, Exists
    <3>2. AfterQuiesceList
      BY DEF AfterQuiesceList, AfterList, LateSteps
    <3>3. status[r] # "none" /\ r \notin lateRuns
      BY <1>2, <1>3, <3>1, <3>2
    <3> QED BY <3>1, <3>3 DEF Escaped
  <2> QED BY <1>1, <2>1, <2>2, <2>3 DEF IInv, TreeInv
<1> QED BY <1>4, <1>5, <1>6, <1>7 DEF IInv

\* quiesce_session in the thread of an execution
LEMMA EmergencyKeeps ==
  ASSUME IInv, NEW s \in Rescued, Emergency(s) \/ EmergencyEnds(s),
         UNCHANGED <<hostVars, lineageVars, coordVars, historyVars>>
  PROVE  IInv'
<1>1. /\ UNCHANGED <<state, pc, failed, todoCaps, lateCaps, lateRuns, status>>
      /\ UNCHANGED <<seen, before, frozen, acted, receipt>>
      /\ UNCHANGED <<profile, cap, exec, container, live, par>>
  BY DEF lineageVars, coordVars, hostVars, historyVars, Emergency, EmergencyEnds
<1>2. s \in Threads /\ s \in Sessions /\ s # Coordinator
  BY ThreadsAssumption DEF Threads
<1>3. work \in [Threads -> WorkRecords]
  BY DEF IInv, TypeOK, TreeTypeOK, WorkRecords
<1>4. /\ work' \in [Threads -> WorkRecords]
      /\ \A t \in Threads : t # s => work'[t] = work[t]
      /\ \A r \in work'[s].todo : status[r] # "none"
      /\ work'[s].at = "raised" => ~work'[s].clean
  <2>1. CASE Emergency(s)
    <3>1. /\ work' = [work EXCEPT ![s] = [op |-> "emergency", todo |-> {s}, at |-> "inspect", clean |-> TRUE]]
          /\ status[s] # "none"
      BY <2>1 DEF Emergency, Begin
    <3>2. [op |-> "emergency", todo |-> {s}, at |-> "inspect", clean |-> TRUE] \in WorkRecords
      BY <1>2 DEF WorkRecords
    <3> QED BY <1>2, <1>3, <3>1, <3>2
  <2>2. CASE EmergencyEnds(s)
    <3>1. work' = [work EXCEPT ![s].op = "none"] /\ work[s] \in WorkRecords
      BY <1>2, <1>3, <2>2 DEF EmergencyEnds
    <3>2. work'[s] = [work[s] EXCEPT !.op = "none"]
      BY <1>2, <1>3, <3>1
    <3>3. /\ work'[s] \in WorkRecords /\ work'[s].todo = work[s].todo
          /\ work'[s].at = work[s].at /\ work'[s].clean = work[s].clean
      BY <3>1, <3>2 DEF WorkRecords
    <3> QED BY <1>2, <1>3, <3>1, <3>3 DEF IInv, TreeInv
  <2> QED BY <2>1, <2>2
<1>5. TypeOK'
  BY <1>1, <1>4 DEF IInv, TypeOK, HostTypeOK, TreeTypeOK, LineageTypeOK, Exists, WorkRecords
<1>6. HostInv' /\ PhaseInv' /\ LineageInv' /\ CapsInv'
  BY <1>1 DEF IInv, HostInv, PhaseInv, LineageInv, CapsInv, AfterList, SeenPids, EarlySteps, LateSteps
<1>7. Escaped' = Escaped /\ Coordinator \in Threads
  BY <1>1 DEF Escaped, Exists, Threads
<1>8. TreeInv'
  BY <1>1, <1>2, <1>4, <1>7 DEF IInv, TreeInv
<1> QED BY <1>5, <1>6, <1>8 DEF IInv

-----------------------------------------------------------------------------
(* The lineage supervisor *)

\* What a snapshot shows, and what the backend remembers of it.
LEMMA SnapshotEffect ==
  ASSUME TypeOK, NEW o, Snapshot(o)
  PROVE  /\ seen' \in [Pids -> [parent : Pids \cup {NoPid}, known : BOOLEAN]]
         /\ SeenPids' # {}
         /\ DOMAIN o = {"state", "parent"} /\ o.state \in {"running", "frozen", "terminated"}
         /\ DOMAIN o.parent \subseteq Pids
         /\ ~Exists(Watched) => seen' = seen /\ DOMAIN o.parent = SeenPids /\ SeenPids # {}
         /\ Exists(Watched) => o.state # "terminated"
<1>1. seen \in [Pids -> [parent : Pids \cup {NoPid}, known : BOOLEAN]] /\ live \subseteq Pids
      /\ par \in [Pids -> Pids \cup {NoPid}]
  BY DEF TypeOK, LineageTypeOK, HostTypeOK
<1>2. CASE Exists(Watched)
  <2>1. /\ o = LiveNodes /\ ValidLineage(o)
        /\ seen' = [p \in Pids |-> IF p \in live THEN [parent |-> o.parent[p], known |-> TRUE] ELSE seen[p]]
    BY <1>2 DEF Snapshot
  <2>2. /\ DOMAIN o = {"state", "parent"} /\ o.state \in {"running", "frozen"}
        /\ o.parent = [p \in live |-> IF p = Root THEN NoPid ELSE par[p]]
    BY <2>1 DEF LiveNodes
  <2>3. DOMAIN o.parent = live /\ Root \in live /\ \A p \in live : o.parent[p] \in Pids \cup {NoPid}
    <3>1. DOMAIN o.parent = live
      BY <2>2
    <3>2. Root \in DOMAIN o.parent
      BY <2>1 DEF ValidLineage
    <3> QED BY <1>1, <2>2, <3>1, <3>2
  <2>4. seen' \in [Pids -> [parent : Pids \cup {NoPid}, known : BOOLEAN]]
    BY <1>1, <2>1, <2>3
  <2>5. Root \in SeenPids'
    BY <1>1, <2>1, <2>3, PidsAssumption DEF SeenPids
  <2> QED BY <1>1, <1>2, <2>2, <2>3, <2>4, <2>5
<1>3. CASE ~Exists(Watched)
  <2>1. o = Tombstones /\ seen' = seen /\ SeenPids # {}
    BY <1>3 DEF Snapshot
  <2>2. DOMAIN o = {"state", "parent"} /\ o.state = "terminated" /\ DOMAIN o.parent = SeenPids
    BY <2>1 DEF Tombstones
  <2>3. SeenPids' # {} /\ SeenPids \subseteq Pids
    BY <2>1 DEF SeenPids
  <2> QED BY <1>1, <1>3, <2>1, <2>2, <2>3
<1> QED BY <1>2, <1>3

LineageMoves == {<<"freeze", "lf_acts">>, <<"lf_acts", "lf_pause">>, <<"lf_pause", "lf_after">>,
                 <<"lf_after", "egress">>, <<"freeze", "egress">>, <<"lf_acts", "egress">>,
                 <<"lf_pause", "egress">>, <<"quiesce", "lq_remove">>, <<"lq_remove", "lq_after">>,
                 <<"lq_after", "seal">>, <<"quiesce", "seal">>, <<"lq_remove", "seal">>}

\* The lineage hooks change at most the watched container and what the
\* supervisor and its backend remember.
LEMMA LineageKeeps ==
  ASSUME IInv, profile = "lineage",
         UNCHANGED <<profile, cap, exec, par, status, work, state, todoCaps, lateCaps, lateRuns>>,
         HostTypeOK', \A s \in Sessions : Ages(s),
         \A s \in Sessions : container'[s] # container[s] => container[s] # "unborn",
         LineageTypeOK', SeenPids' # {}, container[Watched] # "unborn",
         UNCHANGED <<pc, failed>> \/ (failed' \in BOOLEAN /\ <<pc, pc'>> \in LineageMoves)
  PROVE  TypeOK' /\ HostInv' /\ PhaseInv' /\ TreeInv' /\ CapsInv'
<1>1. pc' = pc \/ <<pc, pc'>> \in LineageMoves
  OBVIOUS
<1>2. pc' \in Steps /\ failed' \in BOOLEAN
  BY DEF IInv, TypeOK, LineageMoves, Steps
<1>3. TypeOK'
  BY <1>2 DEF IInv, TypeOK, TreeTypeOK
<1>4. HostInv'
  <2>1. Watched \in Sessions /\ container'[Watched] # "unborn"
    BY SessionsAssumption DEF Ages
  <2>2. \A s \in Sessions : exec'[s] \in {"idle", "authorized"} <=> container'[s] = "unborn"
    BY DEF IInv, HostInv, Ages
  <2>3. \A s \in Sessions : status'[s] # "none" => container'[s] # "unborn"
    BY DEF IInv, HostInv, Ages
  <2> QED BY <2>1, <2>2, <2>3 DEF HostInv
<1>5. PhaseInv'
  BY <1>1 DEF IInv, PhaseInv, LineageMoves
<1>6. TreeInv'
  <2>1. pc' # "tree_quiesce" /\ profile' # "tree"
    BY <1>1 DEF LineageMoves, IInv, PhaseInv
  <2>2. \A s \in Sessions : status'[s] \in Terminal => container'[s] = "gone"
    BY DEF IInv, TreeInv, Ages, Exists
  <2> QED BY <2>1, <2>2 DEF IInv, TreeInv
<1>7. CapsInv'
  BY <1>1 DEF IInv, CapsInv, AfterList, LineageMoves
<1> QED BY <1>3, <1>4, <1>5, <1>6, <1>7

LEMMA AttachKeeps ==
  ASSUME IInv, Attach, UNCHANGED <<hostVars, treeVars, coordVars, historyVars>>
  PROVE  IInv'
<1>1. /\ UNCHANGED <<profile, cap, exec, container, live, par, status, work>>
      /\ UNCHANGED <<state, pc, failed, todoCaps, lateCaps, lateRuns, before, frozen, acted, receipt>>
      /\ profile = "lineage" /\ SeenPids = {} /\ Exists(Watched) /\ Snapshot(LiveNodes)
  BY DEF Attach, hostVars, treeVars, coordVars, historyVars
<1>2. seen' \in [Pids -> [parent : Pids \cup {NoPid}, known : BOOLEAN]] /\ SeenPids' # {}
  BY <1>1, SnapshotEffect DEF IInv
<1>3. HostTypeOK' /\ LineageTypeOK' /\ \A s \in Sessions : Ages(s)
  BY <1>1, <1>2 DEF IInv, TypeOK, HostTypeOK, LineageTypeOK, Exists, Ages
<1>4. TypeOK' /\ HostInv' /\ PhaseInv' /\ TreeInv' /\ CapsInv'
  BY <1>1, <1>2, <1>3, LineageKeeps DEF Exists
<1>5. LineageInv'
  <2>1. pc = "idle"
    BY <1>1 DEF IInv, PhaseInv
  <2>2. receipt # "ALLOW"
    BY <1>1 DEF IInv, LineageInv, Exists
  <2> QED BY <1>1, <2>1, <2>2 DEF IInv, LineageInv, EarlySteps, LateSteps
<1> QED BY <1>4, <1>5 DEF IInv

LEMMA FreezeKeeps ==
  ASSUME IInv, FreezeLineage \/ FreezeLineageRaises
  PROVE  IInv'
<1>1. /\ UNCHANGED <<profile, cap, exec, live, par, status, work, state, todoCaps, lateCaps, lateRuns>>
      /\ profile = "lineage" /\ pc \in EarlySteps /\ pc # "idle"
      /\ failed' \in BOOLEAN /\ <<pc, pc'>> \in LineageMoves /\ pc' \notin LateSteps
      /\ pc' \notin {"lq_remove", "lq_after"}
  BY DEF FreezeLineage, FreezeLineageRaises, Stay, hostVars, treeVars, historyVars, Move,
     EarlySteps, LateSteps, LineageMoves, IInv, PhaseInv, TypeOK
<1>2. SeenPids # {} /\ container[Watched] # "unborn" /\ Watched \in Sessions
  BY <1>1, SessionsAssumption DEF IInv, PhaseInv, HostInv
<1>3. frozen = NoObservation /\ receipt # "ALLOW"
  BY <1>1 DEF IInv, LineageInv
<1>4. CASE FreezeLineageRaises
  <2>1. /\ UNCHANGED <<container, seen, frozen, receipt>> /\ pc' = "egress"
        /\ before' = NoObservation /\ acted' = NoObservation
    BY <1>4 DEF FreezeLineageRaises, FreezeRaises, hostVars, Move
  <2>2. HostTypeOK' /\ LineageTypeOK' /\ SeenPids' # {} /\ \A s \in Sessions : Ages(s)
    BY <1>1, <1>2, <2>1 DEF IInv, TypeOK, HostTypeOK, LineageTypeOK, Exists, Ages, SeenPids
  <2>3. TypeOK' /\ HostInv' /\ PhaseInv' /\ TreeInv' /\ CapsInv'
    BY <1>1, <1>2, <2>1, <2>2, LineageKeeps
  <2>4. LineageInv'
    BY <1>3, <2>1 DEF LineageInv, EarlySteps, LateSteps
  <2> QED BY <2>3, <2>4 DEF IInv
<1>5. CASE pc = "lf_pause" /\ Pause /\ Move("lf_after", TRUE) /\ UNCHANGED lineageVars
  <2>1. /\ UNCHANGED <<seen, before, frozen, acted, receipt>> /\ pc' = "lf_after"
        /\ container[Watched] = "running" /\ container' = [container EXCEPT ![Watched] = "paused"]
    BY <1>5 DEF Pause, lineageVars, Move
  <2>2. HostTypeOK' /\ LineageTypeOK' /\ SeenPids' # {} /\ \A s \in Sessions : Ages(s)
    BY <1>1, <1>2, <2>1 DEF IInv, TypeOK, HostTypeOK, LineageTypeOK, Exists, Ages, SeenPids
  <2>3. \A s \in Sessions : container'[s] # container[s] => container[s] # "unborn"
    BY <2>1 DEF IInv, TypeOK, HostTypeOK
  <2>4. TypeOK' /\ HostInv' /\ PhaseInv' /\ TreeInv' /\ CapsInv'
    BY <1>1, <1>2, <2>1, <2>2, <2>3, LineageKeeps
  <2>5. LineageInv'
    BY <1>3, <1>5, <2>1 DEF IInv, LineageInv, EarlySteps, LateSteps
  <2> QED BY <2>4, <2>5 DEF IInv
<1>6. CASE pc = "freeze" /\ FreezeBefore /\ Move("lf_acts", TRUE) /\ UNCHANGED container
  <2>1. pc' = "lf_acts" /\ UNCHANGED <<frozen, acted, receipt>> /\ \E o : Snapshot(o) /\ before' = o
    BY <1>6 DEF FreezeBefore, Move
  <2>2. LineageInv'
    BY <1>3, <2>1 DEF IInv, LineageInv, EarlySteps, LateSteps
  <2>3. TypeOK' /\ HostInv' /\ PhaseInv' /\ TreeInv' /\ CapsInv'
    <3>1. PICK o : Snapshot(o) /\ before' = o
      BY <2>1
    <3>2. /\ seen' \in [Pids -> [parent : Pids \cup {NoPid}, known : BOOLEAN]] /\ SeenPids' # {}
          /\ o.state \in {"running", "frozen", "terminated"} /\ DOMAIN o.parent \subseteq Pids
      BY <3>1, SnapshotEffect DEF IInv
    <3>3. LineageTypeOK'
      BY <2>1, <3>1, <3>2 DEF IInv, TypeOK, LineageTypeOK
    <3>4. HostTypeOK' /\ \A s \in Sessions : Ages(s)
      BY <1>1, <1>6 DEF IInv, TypeOK, HostTypeOK, Exists, Ages
    <3> QED BY <1>1, <1>2, <1>6, <3>2, <3>3, <3>4, LineageKeeps
  <2> QED BY <2>2, <2>3 DEF IInv
<1>7. CASE pc = "lf_acts" /\ FreezeActs /\ Move("lf_pause", TRUE) /\ UNCHANGED container
  <2>1. PICK o : pc' = "lf_pause" /\ UNCHANGED <<before, frozen, receipt>> /\ Snapshot(o) /\ acted' = o
    BY <1>7 DEF FreezeActs, Move
  <2>2. /\ seen' \in [Pids -> [parent : Pids \cup {NoPid}, known : BOOLEAN]] /\ SeenPids' # {}
        /\ o.state \in {"running", "frozen", "terminated"} /\ DOMAIN o.parent \subseteq Pids
        /\ DOMAIN o = {"state", "parent"}
    BY <2>1, SnapshotEffect DEF IInv
  <2>3. LineageInv'
    BY <1>3, <2>1, <2>2 DEF IInv, LineageInv, EarlySteps, LateSteps
  <2>4. LineageTypeOK'
    BY <2>1, <2>2 DEF IInv, TypeOK, LineageTypeOK
  <2>5. HostTypeOK' /\ \A s \in Sessions : Ages(s)
    BY <1>1, <1>7 DEF IInv, TypeOK, HostTypeOK, Exists, Ages
  <2>6. TypeOK' /\ HostInv' /\ PhaseInv' /\ TreeInv' /\ CapsInv'
    BY <1>1, <1>2, <1>7, <2>2, <2>4, <2>5, LineageKeeps
  <2> QED BY <2>3, <2>6 DEF IInv
<1>8. CASE pc = "lf_after" /\ FreezeAfter /\ Move("egress", TRUE) /\ UNCHANGED container
  <2>1. PICK o : /\ pc' = "egress" /\ UNCHANGED <<before, acted, receipt>> /\ Snapshot(o) /\ frozen' = o
                 /\ SameLineage(before, o) /\ o = [acted EXCEPT !.state = "frozen"]
    BY <1>8 DEF FreezeAfter, Move
  <2>2. /\ seen' \in [Pids -> [parent : Pids \cup {NoPid}, known : BOOLEAN]] /\ SeenPids' # {}
        /\ o.state \in {"running", "frozen", "terminated"} /\ DOMAIN o.parent \subseteq Pids
    BY <2>1, SnapshotEffect DEF IInv
  <2>3. o.state = "frozen" /\ o.parent = before.parent
    <3>1. DOMAIN acted = {"state", "parent"}
      BY <1>8 DEF IInv, LineageInv
    <3> QED BY <2>1, <3>1 DEF SameLineage
  <2>4. LineageInv'
    BY <1>3, <2>1, <2>3 DEF IInv, LineageInv, EarlySteps, LateSteps
  <2>5. LineageTypeOK'
    BY <2>1, <2>2 DEF IInv, TypeOK, LineageTypeOK
  <2>6. HostTypeOK' /\ \A s \in Sessions : Ages(s)
    BY <1>1, <1>8 DEF IInv, TypeOK, HostTypeOK, Exists, Ages
  <2>7. TypeOK' /\ HostInv' /\ PhaseInv' /\ TreeInv' /\ CapsInv'
    BY <1>1, <1>2, <1>8, <2>2, <2>5, <2>6, LineageKeeps
  <2> QED BY <2>4, <2>7 DEF IInv
<1> QED BY <1>4, <1>5, <1>6, <1>7, <1>8 DEF FreezeLineage

LEMMA QuiesceKeeps ==
  ASSUME IInv, QuiesceLineage \/ QuiesceLineageRaises
  PROVE  IInv'
<1>1. /\ UNCHANGED <<profile, cap, exec, par, status, work, state, todoCaps, lateCaps, lateRuns>>
      /\ profile = "lineage" /\ pc \in {"quiesce", "lq_remove", "lq_after"}
      /\ failed' \in BOOLEAN /\ <<pc, pc'>> \in LineageMoves
  BY DEF QuiesceLineage, QuiesceLineageRaises, Stay, treeVars, historyVars, Move,
     LineageMoves, IInv, PhaseInv, TypeOK
<1>2. /\ SeenPids # {} /\ container[Watched] # "unborn" /\ Watched \in Sessions
      /\ container[Watched] \in {"unborn", "running", "paused", "gone"}
  BY <1>1, SessionsAssumption DEF IInv, PhaseInv, HostInv, TypeOK, HostTypeOK
<1>3. Exists(Watched) \/ container[Watched] = "gone"
  BY <1>2 DEF Exists
<1>h. ASSUME Remove(Watched) \/ UNCHANGED <<container, live>>
      PROVE  /\ HostTypeOK' /\ \A s \in Sessions : Ages(s)
             /\ \A s \in Sessions : container'[s] # container[s] => container[s] # "unborn"
             /\ container[Watched] = "gone" => container'[Watched] = "gone"
  <2>1. CASE Remove(Watched)
    BY <1>1, <1>2, <1>3, <2>1, RemoveAges DEF IInv, TypeOK
  <2>2. CASE UNCHANGED <<container, live>>
    BY <1>1, <2>2 DEF IInv, TypeOK, HostTypeOK, Exists, Ages
  <2> QED BY <1>h, <2>1, <2>2
<1>4. CASE \/ QuiesceLineageRaises
           \/ pc = "lq_remove" /\ Remove(Watched) /\ Move("lq_after", TRUE) /\ UNCHANGED lineageVars
  <2>1. /\ UNCHANGED <<seen, before, frozen, acted, receipt>>
        /\ Remove(Watched) \/ UNCHANGED <<container, live>>
        /\ pc' = "seal" => failed'
        /\ pc' = "seal" \/ (pc = "lq_remove" /\ pc' = "lq_after")
    BY <1>4 DEF QuiesceLineageRaises, lineageVars, Move
  <2>2. LineageTypeOK' /\ SeenPids' = SeenPids
    BY <2>1 DEF IInv, TypeOK, LineageTypeOK, SeenPids
  <2>3. TypeOK' /\ HostInv' /\ PhaseInv' /\ TreeInv' /\ CapsInv'
    BY <1>1, <1>2, <1>h, <2>1, <2>2, LineageKeeps
  <2>4. LineageInv'
    BY <1>h, <2>1, <2>2 DEF IInv, LineageInv, EarlySteps, LateSteps
  <2> QED BY <2>3, <2>4 DEF IInv
<1>5. CASE pc = "quiesce" /\ QuiesceActs /\ Move("lq_remove", TRUE) /\ UNCHANGED <<container, live>>
  <2>1. PICK o : /\ pc' = "lq_remove" /\ UNCHANGED <<before, frozen, receipt>>
                 /\ Snapshot(o) /\ acted' = o /\ frozen # NoObservation
    BY <1>5 DEF QuiesceActs, Move
  <2>2. /\ seen' \in [Pids -> [parent : Pids \cup {NoPid}, known : BOOLEAN]] /\ SeenPids' # {}
        /\ o.state \in {"running", "frozen", "terminated"} /\ DOMAIN o.parent \subseteq Pids
        /\ ~Exists(Watched) => seen' = seen
    BY <2>1, SnapshotEffect DEF IInv
  <2>3. LineageTypeOK'
    BY <2>1, <2>2 DEF IInv, TypeOK, LineageTypeOK
  <2>4. TypeOK' /\ HostInv' /\ PhaseInv' /\ TreeInv' /\ CapsInv'
    BY <1>1, <1>2, <1>5, <1>h, <2>2, <2>3, LineageKeeps
  <2>5. receipt = "ALLOW" => SeenPids' = SeenPids
    BY <2>2 DEF IInv, LineageInv, Exists, SeenPids
  <2>6. LineageInv'
    BY <1>5, <2>1, <2>5 DEF IInv, LineageInv, EarlySteps, LateSteps
  <2> QED BY <2>4, <2>6 DEF IInv
<1>6. CASE /\ pc = "lq_after" /\ QuiesceAfter /\ Move("seal", receipt' = "ALLOW")
           /\ UNCHANGED <<container, live>>
  <2>1. PICK o : /\ Snapshot(o) /\ o.state = "terminated" /\ SameLineage(before, o)
                 /\ receipt' \in {"ALLOW", "BLOCK"}
    BY <1>6 DEF QuiesceAfter
  <2>2. /\ pc' = "seal" /\ UNCHANGED <<before, frozen, acted>>
        /\ ~failed' => receipt' = "ALLOW"
    BY <1>6 DEF QuiesceAfter, Move
  <2>3. /\ ~Exists(Watched) /\ seen' = seen /\ DOMAIN o.parent = SeenPids
    BY <2>1, SnapshotEffect DEF IInv
  <2>4. container[Watched] = "gone" /\ SeenPids' = SeenPids
    BY <1>3, <2>3 DEF SeenPids
  <2>5. /\ frozen # NoObservation /\ frozen.state = "frozen" /\ frozen.parent = before.parent
    BY <1>6 DEF IInv, LineageInv
  <2>6. DOMAIN frozen.parent = SeenPids
    BY <2>1, <2>3, <2>5 DEF SameLineage
  <2>7. LineageTypeOK'
    BY <2>1, <2>2, <2>3 DEF IInv, TypeOK, LineageTypeOK
  <2>8. TypeOK' /\ HostInv' /\ PhaseInv' /\ TreeInv' /\ CapsInv'
    BY <1>1, <1>2, <1>6, <1>h, <2>4, <2>7, LineageKeeps
  <2>9. LineageInv'
    BY <1>6, <2>2, <2>4, <2>5, <2>6 DEF LineageInv, EarlySteps, LateSteps
  <2> QED BY <2>8, <2>9 DEF IInv
<1> QED BY <1>4, <1>5, <1>6 DEF QuiesceLineage

-----------------------------------------------------------------------------
(* The theorems *)

LEMMA InitIInv == Init => IInv
<1> SUFFICES ASSUME Init PROVE IInv
  OBVIOUS
<1>1. TypeOK
  <2>1. HostTypeOK
    BY SessionsAssumption DEF Init, HostInit, HostTypeOK, Exists
  <2>2. TreeTypeOK
    BY DEF Init, TreeInit, TreeTypeOK, NoWork
  <2>3. LineageTypeOK
    BY DEF Init, LineageInit, LineageTypeOK, Unseen
  <2> QED BY <2>1, <2>2, <2>3 DEF Init, TypeOK, States, Steps
<1>2. SeenPids = {}
  BY DEF Init, LineageInit, SeenPids, Unseen
<1>3. HostInv
  BY <1>2 DEF Init, HostInit, TreeInit, HostInv
<1>4. PhaseInv
  BY DEF Init, PhaseInv
<1>5. TreeInv
  BY DEF Init, HostInit, TreeInit, TreeInv, Terminal, NoWork, LateSteps
<1>6. LineageInv
  BY DEF Init, LineageInit, LineageInv, LateSteps
<1>7. CapsInv
  BY DEF Init, CapsInv, AfterList
<1> QED BY <1>1, <1>3, <1>4, <1>5, <1>6, <1>7 DEF IInv

LEMMA NextIInv == IInv /\ [Next]_vars => IInv'
<1> SUFFICES ASSUME IInv, [Next]_vars PROVE IInv'
  OBVIOUS
<1>1. CASE UNCHANGED vars
  <2>1. /\ UNCHANGED <<profile, cap, exec, container, live, par, status, work>>
        /\ UNCHANGED <<seen, before, frozen, acted, receipt, lateCaps, lateRuns>>
        /\ UNCHANGED <<state, pc, failed, todoCaps>>
    BY <1>1 DEF vars, hostVars, treeVars, lineageVars, coordVars, historyVars
  <2>2. TypeOK'
    BY <2>1 DEF IInv, TypeOK, HostTypeOK, TreeTypeOK, LineageTypeOK, Exists
  <2>3. HostInv' /\ PhaseInv' /\ LineageInv' /\ CapsInv'
    BY <2>1 DEF IInv, HostInv, PhaseInv, LineageInv, CapsInv, AfterList, SeenPids, EarlySteps, LateSteps
  <2>4. TreeInv'
    BY <2>1 DEF IInv, TreeInv, Escaped, Exists, LateSteps
  <2> QED BY <2>2, <2>3, <2>4 DEF IInv
<1>2. CASE Contain \/ Release
  BY <1>2, PlainStep
<1>3. CASE ContainStep
  <2>1. Coordinator \in Threads
    BY DEF Threads
  <2> QED BY <1>3, <2>1, PlainStep, RevokeStep, TreeHookStep, FreezeKeeps, QuiesceKeeps, LoopKeeps
          DEF ContainStep, CoordinatorLoop
<1>4. CASE Elsewhere
  <2>1. ASSUME NEW s \in Sessions, Register(s),
               lateRuns' = lateRuns \cup
                 {r \in Sessions : AfterQuiesceList /\ status[r] = "none" /\ status'[r] # "none"},
               UNCHANGED <<hostVars, lineageVars, coordVars, lateCaps>>
        PROVE  IInv'
    BY <2>1, SessionKeeps
  <2>2. ASSUME NEW s \in Sessions, MarkComplete(s),
               UNCHANGED <<hostVars, lineageVars, coordVars, historyVars>>
        PROVE  IInv'
    BY <2>2, SessionKeeps DEF historyVars
  <2>3. ASSUME NEW s \in Rescued, Emergency(s) \/ EmergencyEnds(s),
               UNCHANGED <<hostVars, lineageVars, coordVars, historyVars>>
        PROVE  IInv'
    BY <2>3, EmergencyKeeps
  <2>4. ASSUME NEW s \in Rescued, LoopStep(s), UNCHANGED <<lineageVars, coordVars, historyVars>>
        PROVE  IInv'
    BY <2>4, LoopKeeps DEF Threads
  <2> QED BY <1>4, <2>1, <2>2, <2>3, <2>4, HostKeeps, AttachKeeps DEF Elsewhere
<1> QED BY <1>1, <1>2, <1>3, <1>4 DEF Next

LEMMA Inductive == Spec => []IInv
  BY InitIInv, NextIInv, PTL DEF Spec

\* The coordinator, the two supervisors and the host stay within their types.
THEOREM TypeCorrect == Spec => []TypeOK
  BY Inductive, PTL DEF IInv

\* A session called complete or terminated has no container, although statuses
\* are set by several threads from old inspections; and a lineage receipt of
\* ALLOW accounts for every process ever seen, none of which is left.
THEOREM TerminalMeansGone == Spec => []TerminalIsGone
<1>1. IInv => TerminalIsGone
  <2>1. IInv => \A s \in Sessions : status[s] \in Terminal => container[s] = "gone"
    BY DEF IInv, TreeInv
  <2>2. IInv /\ receipt = "ALLOW" => /\ live = {} /\ frozen.state = "frozen"
                                     /\ DOMAIN frozen.parent = SeenPids
    BY DEF IInv, LineageInv, TypeOK, HostTypeOK, Exists
  <2> QED BY <2>1, <2>2 DEF TerminalIsGone
<1> QED BY <1>1, Inductive, PTL

\* A containment that ends without a partial failure leaves no capability that
\* it could have listed active and no container that its supervisor could have
\* listed alive, for every number of sessions and every interleaving of the
\* loops, the emergencies and the host.
THEOREM CleanIsQuiet == Spec => []CleanMeansQuiet
<1>1. IInv => CleanMeansQuiet
  <2> SUFFICES ASSUME IInv, Clean
               PROVE  /\ \A s \in Sessions : cap[s] = "active" => s \in lateCaps
                      /\ profile = "tree" => \A s \in Sessions : status[s] # "none" /\ Exists(s) => s \in lateRuns
                      /\ profile = "lineage" => ~Exists(Watched)
    BY DEF CleanMeansQuiet
  <2>1. pc = "review" /\ ~failed
    BY DEF Clean, IInv, PhaseInv
  <2>2. \A s \in Sessions : cap[s] = "active" => s \in lateCaps
    BY <2>1 DEF IInv, CapsInv, AfterList
  <2>3. profile = "tree" => Escaped = {}
    BY <2>1 DEF IInv, TreeInv, LateSteps
  <2>4. profile = "lineage" => container[Watched] = "gone"
    BY <2>1 DEF IInv, LineageInv, LateSteps
  <2> QED BY <2>2, <2>3, <2>4 DEF Escaped, Exists
<1> QED BY <1>1, Inductive, PTL

================================================================================
