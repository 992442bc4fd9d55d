------------------------------- MODULE HostTrace -------------------------------
(***************************************************************************)
(* sdk/liminal_host_adapter over sdk/liminal_session_recorder: two append-  *)
(* only hash-chained files, the recorder's journal of visible events and    *)
(* the adapter's trace of tool calls.                                       *)
(*                                                                         *)
(* An append re-reads its own file under that file's lock and is atomic;    *)
(* what a method read of the other file before that is not protected, so    *)
(* methods of different processes interleave between the two.  A journal    *)
(* is append-only, so its length stands for its head hash.  A lock that is  *)
(* taken makes the method raise, which is covered by Stop.                  *)
(***************************************************************************)
EXTENDS Naturals, Sequences, FiniteSets

CONSTANTS
    Procs,      \* processes that use the adapter (SDK hosts or the CLI)
    Calls,      \* tool call ids
    Writes,     \* the calls whose effect is "write"
    NoCall,     \* the call of an event that belongs to none
    MaxVisible  \* bound: visible events other than tool events

ASSUME CallsAssumption == Writes \subseteq Calls /\ NoCall \notin Calls
ASSUME VisibleAssumption == MaxVisible \in Nat

Statuses == {"success", "failure", "cancelled"}

\* What the correlation rules tell apart in a recorder event
Events == [type : {"visible"}, call : {NoCall}, status : {"none"}]
          \cup [type : {"authorization"}, call : Calls, status : {"none"}]
          \cup [type : {"tool"}, call : Calls, status : Statuses]

Message == [type |-> "visible", call |-> NoCall, status |-> "none"]
Authorization(c) == [type |-> "authorization", call |-> c, status |-> "none"]
ToolEvent(c, s) == [type |-> "tool", call |-> c, status |-> s]

VARIABLES
    serial,     \* the host lets one process use the adapter at a time
    recorder,   \* the recorder's events
    sealed,     \* session.sealed
    started,    \* started[c]: recorder_head_before of its start record
    finished,   \* finished[c]: status and recorder_head_after of its finish record
    at,         \* where each process is in a method of the adapter
    job         \* what that method is about

hostVars == <<serial, recorder, sealed, started, finished, at, job>>

No == [status |-> "none", head |-> 0]
NotStarted == <<>>                \* no start record
Idle == [event |-> Message, head |-> 0]

Started == {c \in Calls : started[c] # NotStarted}
Finished == {c \in Calls : finished[c] # No}
PendingCalls == Started \ Finished

ToolPositions(c) == {k \in DOMAIN recorder : recorder[k].type = "tool" /\ recorder[k].call = c}
Authorized(c) == \E k \in DOMAIN recorder : recorder[k] = Authorization(c)
VisibleCount == Cardinality({k \in DOMAIN recorder : recorder[k].type # "tool"})

HostTypeOK ==
    /\ serial \in BOOLEAN
    /\ recorder \in Seq(Events)
    /\ sealed \in BOOLEAN
    /\ \A c \in Calls : started[c] = NotStarted \/ started[c] \in Seq(Nat)
    /\ \A c \in Calls : finished[c] \in [status : Statuses \cup {"none"}, head : Nat]
    /\ \A c \in Finished : c \in Started /\ finished[c].head \in DOMAIN recorder
    /\ at \in [Procs -> {"idle", "visible", "starting", "executing", "finishing",
                         "recorded", "sealing", "done"}]
    /\ job \in [Procs -> [event : Events, head : Nat]]

HostInit ==
    /\ serial \in BOOLEAN
    /\ recorder = <<>> /\ sealed = FALSE
    /\ started = [c \in Calls |-> NotStarted]
    /\ finished = [c \in Calls |-> No]
    /\ at = [p \in Procs |-> "idle"]
    /\ job = [p \in Procs |-> Idle]

Goto(p, step, event, head) ==
    /\ at' = [at EXCEPT ![p] = step]
    /\ job' = [job EXCEPT ![p] = [event |-> event, head |-> head]]

Return(p) == Goto(p, "idle", Message, 0)

\* In a serial host a method begins when no other process is inside one.
MayEnter(p) == serial => \A q \in Procs \ {p} : at[q] = "idle"

\* An exception, a crash or a lock file that is in the way ends the method.
Stop(p) ==
    /\ at[p] # "idle"
    /\ Return(p)
    /\ UNCHANGED <<serial, recorder, sealed, started, finished>>
--------------------------------------------------------------------------------
(* Visible events                                                             *)

\* Mutated form: the pass-through methods do not look for pending calls.
BugVisibleCheck(p, e) ==
    /\ at[p] = "idle" /\ MayEnter(p)
    /\ VisibleCount < MaxVisible
    /\ Goto(p, "visible", e, 0)
    /\ UNCHANGED <<serial, recorder, sealed, started, finished>>

\* _ensure_no_pending
VisibleCheck(p, e) ==
    /\ at[p] = "idle" /\ MayEnter(p)
    /\ PendingCalls = {}
    /\ VisibleCount < MaxVisible
    /\ Goto(p, "visible", e, 0)
    /\ UNCHANGED <<serial, recorder, sealed, started, finished>>

\* recorder.append_event
VisibleAppend(p) ==
    /\ at[p] = "visible"
    /\ ~sealed
    /\ VisibleCount < MaxVisible
    /\ recorder' = Append(recorder, job[p].event)
    /\ Return(p)
    /\ UNCHANGED <<serial, sealed, started, finished>>
--------------------------------------------------------------------------------
(* Tool calls                                                                 *)

\* The checks of start_tool_call on the two files
MayStart(c) ==
    /\ PendingCalls = {} /\ c \notin Started
    /\ ~sealed /\ ToolPositions(c) = {}
    /\ c \in Writes => Authorized(c)

\* start_tool_call: the recorder's head is remembered for the start record.
StartCheck(p, c) ==
    /\ at[p] = "idle" /\ MayEnter(p)
    /\ MayStart(c)
    /\ Goto(p, "starting", ToolEvent(c, "failure"), Len(recorder))
    /\ UNCHANGED <<serial, recorder, sealed, started, finished>>

\* Mutated form: _append_record does not look at pending calls again.
BugMayAppendStart(p) ==
    /\ job[p].event.call \notin Started
    /\ Len(recorder) = job[p].head

\* Mutated form: only the recorder's head is looked at again.
BugStartUnderLock(p) == Len(recorder) = job[p].head

\* _append_record of a start: its own checks, under the lock of the trace
MayAppendStart(p) ==
    /\ PendingCalls = {}
    /\ job[p].event.call \notin Started
    /\ Len(recorder) = job[p].head

StartAppend(p) ==
    /\ at[p] = "starting"
    /\ MayAppendStart(p)
    /\ started' = [started EXCEPT ![job[p].event.call] = <<job[p].head>>]
    /\ Goto(p, "executing", job[p].event, 0)
    /\ UNCHANGED <<serial, recorder, sealed, finished>>

\* The host hands its call over: the CLI starts and finishes a call in
\* different processes.
Detach(p) ==
    /\ at[p] = "executing"
    /\ Return(p)
    /\ UNCHANGED <<serial, recorder, sealed, started, finished>>

\* finish_tool_call: the call is pending and the recorder has not moved.
MayFinish(c) == c \in PendingCalls /\ started[c] = <<Len(recorder)>>

FinishCheck(p, c, status) ==
    /\ at[p] \in {"idle", "executing"} /\ MayEnter(p)
    /\ at[p] = "executing" => job[p].event.call = c
    /\ MayFinish(c)
    /\ Goto(p, "finishing", ToolEvent(c, status), 0)
    /\ UNCHANGED <<serial, recorder, sealed, started, finished>>

\* recorder.append_event refuses a sealed journal and a known id.
MayRecord(c) == ~sealed /\ ToolPositions(c) = {}

\* finish_tool_call: record_tool_event
RecordTool(p) ==
    /\ at[p] = "finishing"
    /\ MayRecord(job[p].event.call)
    /\ recorder' = Append(recorder, job[p].event)
    /\ Goto(p, "recorded", job[p].event, 0)
    /\ UNCHANGED <<serial, sealed, started, finished>>

\* finish_tool_call: the head is read again and the finish record appended.
TraceFinish(p) ==
    /\ at[p] = "recorded"
    /\ job[p].event.call \in PendingCalls
    /\ finished' = [finished EXCEPT ![job[p].event.call] =
                       [status |-> job[p].event.status, head |-> Len(recorder)]]
    /\ Goto(p, "done", job[p].event, 0)
    /\ UNCHANGED <<serial, recorder, sealed, started>>

\* Mutated form: recovery does not look at the recorded outcome.
BugRecover(p, c) ==
    /\ at[p] = "idle" /\ MayEnter(p)
    /\ c \in PendingCalls
    /\ \E k \in ToolPositions(c) :
         /\ started[c] = <<k - 1>> /\ k = Len(recorder)
         /\ finished' = [finished EXCEPT ![c] = [status |-> "failure", head |-> k]]
    /\ UNCHANGED <<serial, recorder, sealed, started, at, job>>

\* recover_tool_call: only the gap between the tool event and the finish
\* record is repaired, from the event itself.
Recover(p, c) ==
    /\ at[p] = "idle" /\ MayEnter(p)
    /\ c \in PendingCalls
    /\ \E k \in ToolPositions(c) :
         /\ started[c] = <<k - 1>> /\ k = Len(recorder)
         /\ finished' = [finished EXCEPT ![c] = [status |-> recorder[k].status, head |-> k]]
    /\ UNCHANGED <<serial, recorder, sealed, started, at, job>>
--------------------------------------------------------------------------------
(* verify and seal                                                            *)

\* The correlation that verify demands of a completed call
Correlated(c) ==
    \E k \in ToolPositions(c) :
        /\ started[c] = <<k - 1>>
        /\ finished[c] = [status |-> recorder[k].status, head |-> k]
        /\ c \in Writes => \E i \in 1 .. k - 1 : recorder[i] = Authorization(c)

\* verify(allow_pending=True) does not raise
HostVerifies == \A c \in Finished : Correlated(c)

\* seal: verify() refuses pending calls
SealCheck(p) ==
    /\ at[p] = "idle" /\ MayEnter(p)
    /\ HostVerifies /\ PendingCalls = {}
    /\ recorder # <<>>
    /\ Goto(p, "sealing", Message, 0)
    /\ UNCHANGED <<serial, recorder, sealed, started, finished>>

\* seal: recorder.seal
SealAppend(p) ==
    /\ at[p] = "sealing"
    /\ ~sealed
    /\ sealed' = TRUE
    /\ Return(p)
    /\ UNCHANGED <<serial, recorder, started, finished>>
--------------------------------------------------------------------------------
RecordNext(p) ==
    \/ \E e \in {Message} \cup {Authorization(c) : c \in Calls} : VisibleCheck(p, e)
    \/ VisibleAppend(p)

CallNext(p) ==
    \/ StartAppend(p)
    \/ \E c \in Calls : StartCheck(p, c)
    \/ \E c \in Calls, s \in Statuses : FinishCheck(p, c, s)
    \/ RecordTool(p) \/ TraceFinish(p)
    \/ \E c \in Calls : Recover(p, c)

HostNext ==
    \E p \in Procs :
        \/ RecordNext(p) \/ CallNext(p)
        \/ SealCheck(p) \/ SealAppend(p)
        \/ Detach(p) \/ Stop(p)

HostSpec == HostInit /\ [][HostNext]_hostVars
--------------------------------------------------------------------------------
(* Properties                                                                 *)

\* A finish record tells the outcome the recorder holds, and there is one
\* outcome per call, also when two processes finish the call differently or
\* one of them dies and the call is recovered.
TraceTellsOutcome ==
    \A c \in Calls :
        /\ Cardinality(ToolPositions(c)) <= 1
        /\ c \in Finished => \E k \in ToolPositions(c) : recorder[k].status = finished[c].status

\* In a serial host a pending call is never a dead end, wherever a process
\* stopped: either its outcome can still be recorded, or it was recorded and
\* recovery can repair the gap; and "Pending calls block session seal".
PendingCanComplete ==
    serial => \A c \in PendingCalls :
        /\ ~sealed
        /\ \/ started[c] = <<Len(recorder)>> /\ ToolPositions(c) = {}
           \/ ToolPositions(c) = {Len(recorder)} /\ started[c] = <<Len(recorder) - 1>>

\* "Only one tool call may be pending", although several processes start
\* calls and each checks before it takes the lock.  In a serial host verify()
\* accepts every completed call: "A completed recorder tool event must
\* immediately follow its host start state" and carry the hash and status of
\* its finish record.
CallsCorrelate == Cardinality(PendingCalls) <= 1 /\ (serial => HostVerifies)

================================================================================
