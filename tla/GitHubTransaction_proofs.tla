------------------------ MODULE GitHubTransaction_proofs -----------------------
(***************************************************************************)
(* Proofs about HostTrace and GitHubTransaction for every plan, every set    *)
(* of calls and every number of processes.                                  *)
(*                                                                         *)
(* HostIInv is the inductive invariant of the two files of the host.  It is  *)
(* carried over to the transaction, whose every step is a step of the host   *)
(* or leaves the host alone (RunsOnTheHost), and TransactionInv adds the     *)
(* journal.  Without a serial host the journal may become invalid; since no  *)
(* append is accepted after that, ValidInv speaks only of valid journals.    *)
(***************************************************************************)
EXTENDS GitHubTransaction, FiniteSetTheorems, TLAPS

(* Two files and the methods of many processes                                *)

InCall == {"starting", "executing", "finishing", "recorded", "done"}

HostType ==
    /\ serial \in BOOLEAN /\ sealed \in BOOLEAN
    /\ recorder \in Seq(Events)
    /\ started \in [Calls -> Seq(Nat)]
    /\ finished \in [Calls -> [status : Statuses \cup {"none"}, head : Nat]]
    /\ at \in [Procs -> {"idle", "visible", "sealing"} \cup InCall]
    /\ job \in [Procs -> [event : Events, head : Nat]]

\* What a process in the middle of a method has in hand
Holding(p) ==
    /\ at[p] \in {"idle", "sealing"} => job[p] = Idle
    /\ at[p] = "visible" => job[p].event.type # "tool"
    /\ at[p] \in InCall => job[p].event.type = "tool"
    /\ at[p] = "starting" =>
         /\ job[p].head <= Len(recorder)
         /\ job[p].event.call \in Writes =>
              \E i \in 1 .. job[p].head : recorder[i] = Authorization(job[p].event.call)
    /\ at[p] \in {"recorded", "done"} => \E k \in DOMAIN recorder : recorder[k] = job[p].event

\* A call has one outcome in the recorder, a start record at a head the
\* recorder had, and a finish record that tells the outcome.
Traced(c) ==
    /\ \A i, j \in ToolPositions(c) : i = j
    /\ c \in Started => \E h \in 0 .. Len(recorder) :
         /\ started[c] = <<h>>
         /\ c \in Writes => \E i \in 1 .. h : recorder[i] = Authorization(c)
    /\ c \in Finished =>
         /\ c \in Started /\ finished[c].head \in DOMAIN recorder
         /\ \E k \in ToolPositions(c) : recorder[k].status = finished[c].status

OnePending == \A c, d \in PendingCalls : c = d

\* What a process inside a method of a serial host relies on
Undisturbed(p) ==
    /\ at[p] \in {"visible", "sealing"} => PendingCalls = {}
    /\ at[p] = "starting" => MayStart(job[p].event.call) /\ job[p].head = Len(recorder)
    /\ at[p] = "finishing" => MayFinish(job[p].event.call)
    /\ at[p] \in {"recorded", "done"} => Len(recorder) > 0 /\ recorder[Len(recorder)] = job[p].event
    /\ at[p] = "recorded" => job[p].event.call \in PendingCalls

\* A pending call that can still be completed
Completable(c) ==
    /\ ~sealed
    /\ \/ started[c] = <<Len(recorder)>> /\ ToolPositions(c) = {}
       \/ ToolPositions(c) = {Len(recorder)} /\ started[c] = <<Len(recorder) - 1>>

SerialInv ==
    serial =>
        /\ \A p, q \in Procs : at[p] # "idle" /\ at[q] # "idle" => p = q
        /\ \A p \in Procs : Undisturbed(p)
        /\ \A c \in PendingCalls : Completable(c)
        /\ HostVerifies

HostIInv ==
    /\ HostType /\ OnePending /\ SerialInv
    /\ \A p \in Procs : Holding(p)
    /\ \A c \in Calls : Traced(c)
(* The transaction above them                                                 *)

Running == {"chosen", "begun", "invoked", "outcome", "closing", "completing"}
Outcomes == [status : Statuses \cup {"none"}, head : Nat, payload : Payloads]
Entries == [type : {"started", "finished", "halted"}, step : Steps, outcome : Outcomes, bind : Nat]
           \cup [type : {"completed", "aborted"}, step : {NoCall}, outcome : Outcomes, bind : Nat]

TransactionType ==
    /\ journal \in Seq(Entries)
    /\ tpc \in [Procs -> {"idle", "aborting"} \cup Running]
    /\ run \in [Procs -> [step : Steps \cup {NoCall}, outcome : Outcomes, bind : Nat]]
    /\ receipt \in [Steps -> Outcomes]
    /\ invoked \in [Steps -> Nat]
    /\ stops \in 0 .. MaxStops

\* Where a method of the orchestrator stands in the host's
Nested(p) ==
    /\ tpc[p] \in Running => run[p].step \in Steps
    /\ tpc[p] \notin {"idle", "begun", "invoked"} => at[p] = "idle"
    /\ tpc[p] = "idle" => at[p] \in {"idle", "visible", "sealing"}
    /\ tpc[p] = "begun" =>
         /\ at[p] \in {"idle", "starting", "executing"}
         /\ at[p] # "idle" => job[p].event.call = run[p].step
    /\ tpc[p] = "invoked" =>
         /\ at[p] \in {"executing", "finishing", "recorded", "done"}
         /\ job[p].event.call = run[p].step /\ run[p].outcome.status \in Statuses
         /\ at[p] # "executing" => job[p].event.status = run[p].outcome.status

\* What a process that runs a step relies on, also when others have moved
Relies(p) ==
    LET c == run[p].step IN
    /\ tpc[p] \in {"chosen", "begun", "invoked"} => Before(c) \subseteq Successful
    /\ tpc[p] \in {"begun", "invoked"} => c \in Begun
    /\ tpc[p] = "outcome" => receipt[c] # NoOutcome /\ run[p].outcome = receipt[c]

\* The process that holds the start record of its step
Calling(p) == tpc[p] = "invoked" \/ (tpc[p] = "begun" /\ at[p] = "executing")

CallInv ==
    /\ \A p \in Procs : Calling(p) =>
         /\ run[p].step \in Started /\ receipt[run[p].step] = NoOutcome
         /\ invoked[run[p].step] = IF tpc[p] = "invoked" THEN 1 ELSE 0
    /\ \A p, q \in Procs : Calling(p) /\ Calling(q) /\ run[p].step = run[q].step => p = q

\* What a call and a receipt stand for
Paid(c) ==
    /\ invoked[c] <= 1
    /\ invoked[c] > 0 => c \in Started /\ Before(c) \subseteq Successful
    /\ receipt[c] # NoOutcome =>
         /\ invoked[c] = 1 /\ c \in Begun
         /\ \E k \in ToolPositions(c) : recorder[k].status = receipt[c].status

\* All finishes of a step agree, and a success is its receipt.
Agreed(c) ==
    /\ \A i, j \in Positions("finished", c) : journal[i].outcome = journal[j].outcome
    /\ \A k \in Positions("finished", c) :
         Succeeds(journal[k].outcome) => journal[k].outcome = receipt[c]

\* As long as the journal is valid, which it is for every append, a step is in
\* one process's hands before it has a receipt or an end.
ValidInv ==
    ValidJournal =>
        /\ \A c \in Steps : \A k \in Positions("finished", c) :
             receipt[c] \in {NoOutcome, journal[k].outcome}
        /\ \A p \in Procs : tpc[p] \in {"begun", "invoked"} =>
             run[p].step \notin Ended /\ receipt[run[p].step] = NoOutcome
        /\ \A p, q \in Procs :
             /\ tpc[p] \in {"begun", "invoked"} /\ tpc[q] \in {"begun", "invoked"}
             /\ run[p].step = run[q].step
             => p = q

\* What a process inside a method of a serial host relies on
Alone(p) ==
    /\ tpc[p] = "chosen" => PendingSteps = {} /\ run[p].step \notin Begun
    /\ tpc[p] \in {"begun", "invoked", "outcome"} => PendingSteps = {run[p].step}
    /\ tpc[p] \in {"closing", "completing", "aborting"} => PendingSteps = {}
    /\ tpc[p] = "completing" => Successful = Steps /\ run[p].bind = Len(journal)

SerialRun ==
    serial =>
        /\ \A p, q \in Procs : /\ tpc[p] # "idle" \/ at[p] # "idle"
                               /\ tpc[q] # "idle" \/ at[q] # "idle"
                               => p = q
        /\ \A p \in Procs : Alone(p)
        /\ \A c \in Steps : receipt[c] # NoOutcome => Retained(c)
        /\ Verifies

TransactionInv ==
    /\ TransactionType /\ CallInv /\ ValidInv /\ SerialRun
    /\ \A p \in Procs : Nested(p) /\ Relies(p)
    /\ \A c \in Steps : Paid(c) /\ Agreed(c)

IInv == HostIInv /\ TransactionInv
-----------------------------------------------------------------------------
(* What the steps have in common *)

\* A set of positions has at most one element when any two of them are equal.
LEMMA AtMostOne ==
    ASSUME NEW n \in Nat, NEW S \in SUBSET (1 .. n)
    PROVE  (Cardinality(S) <= 1) <=> (\A i, j \in S : i = j)
<1>1. IsFiniteSet(S) /\ Cardinality(S) \in Nat
  <2>1. IsFiniteSet(1 .. n)
    BY FS_Interval
  <2> QED
    BY <2>1, FS_Subset, FS_CardinalityType
<1>2. CASE S = {}
  BY <1>2, FS_EmptySet
<1>3. ASSUME NEW x \in S PROVE (Cardinality(S) <= 1) <=> (\A i, j \in S : i = j)
  <2>1. IsFiniteSet(S \ {x}) /\ Cardinality(S \ {x}) = Cardinality(S) - 1
    BY <1>1, FS_RemoveElement
  <2>2. Cardinality(S \ {x}) \in Nat
    BY <2>1, FS_CardinalityType
  <2>3. (Cardinality(S) <= 1) <=> (Cardinality(S \ {x}) = 0)
    BY <1>1, <2>1, <2>2
  <2>4. (Cardinality(S \ {x}) = 0) <=> (S \ {x} = {})
    BY <2>1, FS_EmptySet
  <2>5. (S \ {x} = {}) <=> (\A i, j \in S : i = j)
    OBVIOUS
  <2> QED
    BY <2>3, <2>4, <2>5
<1> QED
  BY <1>2, <1>3

\* A process goes on to another place, with something in hand.
LEMMA GotoEffect ==
    ASSUME HostType, NEW p \in Procs, NEW w, NEW e, NEW h, Goto(p, w, e, h)
    PROVE  /\ at'[p] = w /\ job'[p].event = e /\ job'[p].head = h
           /\ job'[p] = [event |-> e, head |-> h]
           /\ \A q \in Procs : q # p => at'[q] = at[q] /\ job'[q] = job[q]
           /\ /\ w \in {"idle", "visible", "sealing"} \cup InCall
              /\ e \in Events /\ h \in Nat
              => /\ at' \in [Procs -> {"idle", "visible", "sealing"} \cup InCall]
                 /\ job' \in [Procs -> [event : Events, head : Nat]]
<1> USE DEF Goto, HostType
<1>1. DOMAIN at = Procs /\ DOMAIN job = Procs
  OBVIOUS
<1>2. at'[p] = w /\ job'[p] = [event |-> e, head |-> h]
  BY <1>1
<1>3. \A q \in Procs : q # p => at'[q] = at[q] /\ job'[q] = job[q]
  OBVIOUS
<1>4. ASSUME w \in {"idle", "visible", "sealing"} \cup InCall, e \in Events, h \in Nat
      PROVE  /\ at' \in [Procs -> {"idle", "visible", "sealing"} \cup InCall]
             /\ job' \in [Procs -> [event : Events, head : Nat]]
  BY <1>4
<1> QED
  BY <1>2, <1>3, <1>4

\* The events a process may append
LEMMA EventTypes ==
    /\ Message \in Events /\ Message.type # "tool"
    /\ \A c \in Calls :
         /\ Authorization(c) \in Events /\ Authorization(c).type # "tool"
         /\ \A s \in Statuses :
              /\ ToolEvent(c, s) \in Events /\ ToolEvent(c, s).type = "tool"
              /\ ToolEvent(c, s).call = c /\ ToolEvent(c, s).status = s
    /\ \A e \in Events : e.type = "tool" =>
         e.call \in Calls /\ e.status \in Statuses /\ e = ToolEvent(e.call, e.status)
    /\ \A e \in Events, c \in Calls : e = Authorization(c) => e.type # "tool"
    /\ "none" \notin Statuses
  BY DEF Events, Message, Authorization, ToolEvent, Statuses

LEMMA RecorderGrows ==
    ASSUME HostType, NEW e \in Events, recorder' = Append(recorder, e)
    PROVE  /\ recorder' \in Seq(Events)
           /\ Len(recorder) \in Nat /\ Len(recorder') = Len(recorder) + 1
           /\ DOMAIN recorder = 1 .. Len(recorder) /\ DOMAIN recorder' = 1 .. Len(recorder) + 1
           /\ \A k \in DOMAIN recorder : recorder'[k] = recorder[k]
           /\ recorder'[Len(recorder) + 1] = e
           /\ \A c \in Calls :
                IF e.type = "tool" /\ e.call = c
                THEN ToolPositions(c)' = ToolPositions(c) \cup {Len(recorder) + 1}
                ELSE ToolPositions(c)' = ToolPositions(c)
<1>1. /\ recorder' \in Seq(Events)
      /\ Len(recorder) \in Nat /\ Len(recorder') = Len(recorder) + 1
      /\ DOMAIN recorder = 1 .. Len(recorder) /\ DOMAIN recorder' = 1 .. Len(recorder) + 1
      /\ \A k \in DOMAIN recorder : recorder'[k] = recorder[k]
      /\ recorder'[Len(recorder) + 1] = e
  BY DEF HostType
<1>2. ASSUME NEW c \in Calls
      PROVE  IF e.type = "tool" /\ e.call = c
             THEN ToolPositions(c)' = ToolPositions(c) \cup {Len(recorder) + 1}
             ELSE ToolPositions(c)' = ToolPositions(c)
  <2>1. ToolPositions(c) = {k \in 1 .. Len(recorder) : recorder[k].type = "tool" /\ recorder[k].call = c}
    BY <1>1, Zenon DEF ToolPositions
  <2>2. ToolPositions(c)' = {k \in 1 .. Len(recorder) + 1 : recorder'[k].type = "tool" /\ recorder'[k].call = c}
    BY <1>1, Zenon DEF ToolPositions
  <2>3. \A k \in 1 .. Len(recorder) + 1 : k \in 1 .. Len(recorder) \/ k = Len(recorder) + 1
    BY <1>1
  <2>4. \A k \in 1 .. Len(recorder) : k \in 1 .. Len(recorder) + 1 /\ k # Len(recorder) + 1
    BY <1>1
  <2>5. \A k \in 1 .. Len(recorder) : k \in ToolPositions(c)' <=> k \in ToolPositions(c)
    BY <1>1, <2>1, <2>2, <2>4, Zenon
  <2>6. Len(recorder) + 1 \in ToolPositions(c)' <=> (e.type = "tool" /\ e.call = c)
    <3>1. Len(recorder) + 1 \in 1 .. Len(recorder) + 1
      BY <1>1
    <3> QED
      BY <1>1, <2>2, <3>1, Zenon
  <2>7. ToolPositions(c)' \subseteq (1 .. Len(recorder) + 1) /\ ToolPositions(c) \subseteq (1 .. Len(recorder))
    BY <2>1, <2>2, Zenon
  <2> QED
    BY <2>3, <2>4, <2>5, <2>6, <2>7
<1> QED
  BY <1>1, <1>2

LEMMA ToolPositionsIn ==
    ASSUME HostType, NEW c \in Calls
    PROVE  /\ ToolPositions(c) \subseteq DOMAIN recorder
           /\ DOMAIN recorder = 1 .. Len(recorder) /\ Len(recorder) \in Nat
           /\ \A k \in ToolPositions(c) : recorder[k].type = "tool" /\ recorder[k].call = c
           /\ \A k \in DOMAIN recorder : recorder[k] \in Events
           /\ \A k \in DOMAIN recorder, s \in Statuses :
                recorder[k] = ToolEvent(c, s) => k \in ToolPositions(c) /\ recorder[k].status = s
  BY DEF ToolPositions, HostType, ToolEvent
-----------------------------------------------------------------------------
(* The host's steps *)

\* A step that only moves a process of the host
Moves(p) == UNCHANGED <<serial, recorder, sealed, started, finished>>

\* The steps of HostNext, by what they do to the two files
HostAction(p) ==
    \/ \E e \in {Message} \cup {Authorization(c) : c \in Calls} : VisibleCheck(p, e)
    \/ \E c \in Calls : StartCheck(p, c)
    \/ \E c \in Calls, s \in Statuses : FinishCheck(p, c, s)
    \/ SealCheck(p) \/ Detach(p) \/ Stop(p)
    \/ VisibleAppend(p) \/ RecordTool(p)
    \/ StartAppend(p)
    \/ TraceFinish(p) \/ \E c \in Calls : Recover(p, c)
    \/ SealAppend(p)

LEMMA HostCases ==
    ASSUME HostNext PROVE \E p \in Procs : HostAction(p)
  BY DEF HostNext, HostAction, RecordNext, CallNext

\* A method goes on with what it has in hand; the other processes stay.
LEMMA HostMove ==
    ASSUME HostType, NEW p \in Procs, Holding(p), HostAction(p)
    PROVE  /\ at' \in [Procs -> {"idle", "visible", "sealing"} \cup InCall]
           /\ job' \in [Procs -> [event : Events, head : Nat]]
           /\ \A q \in Procs : q # p => at'[q] = at[q] /\ job'[q] = job[q]
           /\ serial' = serial
           /\ serial => at[p] # "idle" \/ \A q \in Procs : q # p => at[q] = "idle"
<1>1. /\ job[p].event \in Events /\ 0 \in Nat /\ Len(recorder) \in Nat
      /\ at \in [Procs -> {"idle", "visible", "sealing"} \cup InCall]
      /\ job \in [Procs -> [event : Events, head : Nat]]
  BY DEF HostType
<1>2. CASE \E w \in {"idle", "visible", "sealing"} \cup InCall, e \in Events, h \in Nat : Goto(p, w, e, h)
  <2>1. /\ at' \in [Procs -> {"idle", "visible", "sealing"} \cup InCall]
        /\ job' \in [Procs -> [event : Events, head : Nat]]
        /\ \A q \in Procs : q # p => at'[q] = at[q] /\ job'[q] = job[q]
    BY <1>2, GotoEffect
  <2>2. serial' = serial
    BY DEF HostAction, VisibleCheck, StartCheck, FinishCheck, SealCheck, Detach, Stop,
           VisibleAppend, RecordTool, StartAppend, TraceFinish, Recover, SealAppend
  <2>3. serial => at[p] # "idle" \/ \A q \in Procs : q # p => at[q] = "idle"
    BY DEF HostAction, VisibleCheck, StartCheck, FinishCheck, SealCheck, Detach, Stop,
           VisibleAppend, RecordTool, StartAppend, TraceFinish, Recover, SealAppend, MayEnter
  <2> QED
    BY <2>1, <2>2, <2>3
<1>3. CASE \E c \in Calls : Recover(p, c)
  BY <1>1, <1>3 DEF Recover, MayEnter
<1>4. CASE \E e \in {Message} \cup {Authorization(c) : c \in Calls} : VisibleCheck(p, e)
  <2>1. \E e \in Events : Goto(p, "visible", e, 0)
    BY <1>4, EventTypes DEF VisibleCheck
  <2> QED
    BY <2>1, <1>1, <1>2
<1>5. CASE \E c \in Calls : StartCheck(p, c)
  <2>1. \E e \in Events : Goto(p, "starting", e, Len(recorder))
    <3>1. "failure" \in Statuses
      BY DEF Statuses
    <3> QED
      BY <1>5, <3>1, EventTypes DEF StartCheck
  <2>2. "starting" \in InCall
    BY DEF InCall
  <2> QED
    BY <2>1, <2>2, <1>1, <1>2
<1>6. CASE \E c \in Calls, s \in Statuses : FinishCheck(p, c, s)
  <2>1. \E e \in Events : Goto(p, "finishing", e, 0)
    BY <1>6, EventTypes DEF FinishCheck
  <2>2. "finishing" \in InCall
    BY DEF InCall
  <2> QED
    BY <2>1, <2>2, <1>1, <1>2
<1>7. CASE SealCheck(p) \/ Detach(p) \/ Stop(p) \/ VisibleAppend(p) \/ SealAppend(p)
  <2>1. \E w \in {"idle", "sealing"} : Goto(p, w, Message, 0)
    BY <1>7 DEF SealCheck, Detach, Stop, VisibleAppend, SealAppend, Return
  <2> QED
    BY <2>1, <1>1, <1>2, EventTypes
<1>8. CASE RecordTool(p) \/ StartAppend(p) \/ TraceFinish(p)
  <2>1. \E w \in {"recorded", "executing", "done"} : Goto(p, w, job[p].event, 0)
    BY <1>8 DEF RecordTool, StartAppend, TraceFinish
  <2>2. \A w \in {"recorded", "executing", "done"} : w \in InCall
    BY DEF InCall
  <2> QED
    BY <2>1, <2>2, <1>1, <1>2
<1> QED
  BY <1>3, <1>4, <1>5, <1>6, <1>7, <1>8 DEF HostAction

LEMMA HostTypeStep ==
    ASSUME HostType, NEW p \in Procs, Holding(p), HostAction(p)
    PROVE  HostType'
<1>1. /\ at' \in [Procs -> {"idle", "visible", "sealing"} \cup InCall]
      /\ job' \in [Procs -> [event : Events, head : Nat]] /\ serial' = serial
  BY HostMove
<1>2. sealed' \in BOOLEAN
  BY DEF HostType, HostAction, VisibleCheck, StartCheck, FinishCheck, SealCheck, Detach, Stop,
         VisibleAppend, RecordTool, StartAppend, TraceFinish, Recover, SealAppend
<1>3. recorder' \in Seq(Events)
  <2>1. recorder' = recorder \/ recorder' = Append(recorder, job[p].event)
    BY DEF HostAction, VisibleCheck, StartCheck, FinishCheck, SealCheck, Detach, Stop,
         VisibleAppend, RecordTool, StartAppend, TraceFinish, Recover, SealAppend
  <2>2. job[p].event \in Events /\ recorder \in Seq(Events)
    BY DEF HostType
  <2> QED
    BY <2>1, <2>2
<1>4. started' \in [Calls -> Seq(Nat)]
  <2>1. CASE StartAppend(p)
    <3>1. /\ started' = [started EXCEPT ![job[p].event.call] = <<job[p].head>>]
          /\ job[p].head \in Nat /\ started \in [Calls -> Seq(Nat)]
      BY <2>1 DEF StartAppend, HostType
    <3>2. <<job[p].head>> \in Seq(Nat)
      BY <3>1
    <3> QED
      BY <3>1, <3>2
  <2>2. CASE started' = started
    BY <2>2 DEF HostType
  <2> QED
    BY <2>1, <2>2 DEF HostAction, VisibleCheck, StartCheck, FinishCheck, SealCheck, Detach, Stop,
         VisibleAppend, RecordTool, TraceFinish, Recover, SealAppend
<1>5. finished' \in [Calls -> [status : Statuses \cup {"none"}, head : Nat]]
  <2>1. CASE TraceFinish(p)
    <3>1. /\ finished' = [finished EXCEPT ![job[p].event.call] =
                            [status |-> job[p].event.status, head |-> Len(recorder)]]
          /\ finished \in [Calls -> [status : Statuses \cup {"none"}, head : Nat]]
          /\ Len(recorder) \in Nat /\ job[p].event \in Events
      BY <2>1 DEF TraceFinish, HostType
    <3>2. at[p] = "recorded"
      BY <2>1 DEF TraceFinish
    <3>3. job[p].event.status \in Statuses
      BY <3>1, <3>2, EventTypes DEF Holding, InCall
    <3> QED
      BY <3>1, <3>3
  <2>2. ASSUME NEW c \in Calls, Recover(p, c)
        PROVE  finished' \in [Calls -> [status : Statuses \cup {"none"}, head : Nat]]
    <3>1. PICK k \in ToolPositions(c) :
            finished' = [finished EXCEPT ![c] = [status |-> recorder[k].status, head |-> k]]
      BY <2>2 DEF Recover
    <3>2. k \in Nat /\ recorder[k] \in Events /\ recorder[k].type = "tool"
      BY ToolPositionsIn
    <3>3. recorder[k].status \in Statuses
      BY <3>2, EventTypes
    <3> QED
      BY <3>1, <3>2, <3>3 DEF HostType
  <2>3. CASE finished' = finished
    BY <2>3 DEF HostType
  <2> QED
    BY <2>1, <2>2, <2>3 DEF HostAction, VisibleCheck, StartCheck, FinishCheck, SealCheck, Detach, Stop,
         VisibleAppend, RecordTool, StartAppend, SealAppend
<1> QED
  BY <1>1, <1>2, <1>3, <1>4, <1>5 DEF HostType
\* The recorder is only appended to.
LEMMA RecorderKept ==
    ASSUME HostType, NEW p \in Procs, HostAction(p)
    PROVE  /\ Len(recorder) \in Nat /\ DOMAIN recorder = 1 .. Len(recorder)
           /\ Len(recorder') \in Nat /\ DOMAIN recorder' = 1 .. Len(recorder')
           /\ Len(recorder) <= Len(recorder')
           /\ \A k \in DOMAIN recorder : k \in DOMAIN recorder' /\ recorder'[k] = recorder[k]
<1>1. recorder' = recorder \/ recorder' = Append(recorder, job[p].event)
  BY DEF HostAction, VisibleCheck, StartCheck, FinishCheck, SealCheck, Detach, Stop,
         VisibleAppend, RecordTool, StartAppend, TraceFinish, Recover, SealAppend
<1>2. job[p].event \in Events /\ recorder \in Seq(Events)
  BY DEF HostType
<1> QED
  BY <1>1, <1>2

\* What a process that does not move has in hand stays good.
LEMMA HoldingKept ==
    ASSUME HostType, NEW p \in Procs, HostAction(p), NEW q \in Procs, Holding(q),
           at'[q] = at[q], job'[q] = job[q]
    PROVE  Holding(q)'
<1>1. /\ Len(recorder) \in Nat /\ DOMAIN recorder = 1 .. Len(recorder)
      /\ Len(recorder') \in Nat /\ Len(recorder) <= Len(recorder')
      /\ \A k \in DOMAIN recorder : k \in DOMAIN recorder' /\ recorder'[k] = recorder[k]
  BY RecorderKept
<1>2. job[q].head \in Nat
  BY DEF HostType
<1>3. ASSUME at[q] = "starting"
      PROVE  /\ job[q].head <= Len(recorder')
             /\ job[q].event.call \in Writes =>
                  \E i \in 1 .. job[q].head : recorder'[i] = Authorization(job[q].event.call)
  BY <1>1, <1>2, <1>3 DEF Holding
<1>4. at[q] \in {"recorded", "done"} => \E k \in DOMAIN recorder' : recorder'[k] = job[q].event
  BY <1>1 DEF Holding
<1> QED
  BY <1>3, <1>4 DEF Holding

LEMMA HoldingStep ==
    ASSUME HostType, NEW p \in Procs, HostAction(p), \A q \in Procs : Holding(q)
    PROVE  \A q \in Procs : Holding(q)'
<1>1. ASSUME NEW q \in Procs, q # p PROVE Holding(q)'
  BY <1>1, HostMove, HoldingKept
<1>2. Holding(p)'
  <2>1. job[p].event \in Events
    BY DEF HostType
  <2>2. CASE \E c \in Calls : Recover(p, c)
    BY <2>2, HoldingKept DEF Recover
  <2>3. CASE \E e \in {Message} \cup {Authorization(c) : c \in Calls} : VisibleCheck(p, e)
    <3>1. \E e \in Events : Goto(p, "visible", e, 0) /\ e.type # "tool"
      BY <2>3, EventTypes DEF VisibleCheck
    <3>2. at'[p] = "visible" /\ job'[p].event.type # "tool"
      BY <3>1 DEF Goto, HostType
    <3> QED
      BY <3>2 DEF Holding, InCall
  <2>4. ASSUME NEW c \in Calls, StartCheck(p, c) PROVE Holding(p)'
    <3>1. "failure" \in Statuses
      BY DEF Statuses
    <3>2. /\ Goto(p, "starting", ToolEvent(c, "failure"), Len(recorder)) /\ MayStart(c)
          /\ recorder' = recorder
      BY <2>4 DEF StartCheck
    <3>3. /\ at'[p] = "starting" /\ job'[p].event = ToolEvent(c, "failure")
          /\ job'[p].head = Len(recorder)
      BY <3>2, GotoEffect
    <3>4. job'[p].event.type = "tool" /\ job'[p].event.call = c
      BY <3>1, <3>3, EventTypes
    <3>5. Len(recorder) \in Nat /\ DOMAIN recorder = 1 .. Len(recorder)
      BY RecorderKept
    <3>6. c \in Writes => \E i \in 1 .. Len(recorder) : recorder[i] = Authorization(c)
      BY <3>2, <3>5 DEF MayStart, Authorized
    <3> QED
      BY <3>2, <3>3, <3>4, <3>5, <3>6 DEF Holding
  <2>5. ASSUME NEW c \in Calls, NEW s \in Statuses, FinishCheck(p, c, s) PROVE Holding(p)'
    <3>1. Goto(p, "finishing", ToolEvent(c, s), 0)
      BY <2>5 DEF FinishCheck
    <3>2. at'[p] = "finishing" /\ job'[p].event.type = "tool"
      BY <3>1, EventTypes DEF Goto, HostType
    <3> QED
      BY <3>2 DEF Holding
  <2>6. CASE SealCheck(p) \/ Detach(p) \/ Stop(p) \/ VisibleAppend(p) \/ SealAppend(p)
    <3>1. \E w \in {"idle", "sealing"} : Goto(p, w, Message, 0)
      BY <2>6 DEF SealCheck, Detach, Stop, VisibleAppend, SealAppend, Return
    <3>2. at'[p] \in {"idle", "sealing"} /\ job'[p] = Idle
      BY <3>1, GotoEffect DEF Idle
    <3> QED
      BY <3>2 DEF Holding, InCall
  <2>7. CASE StartAppend(p)
    <3>1. at[p] = "starting" /\ Goto(p, "executing", job[p].event, 0)
      BY <2>7 DEF StartAppend
    <3>2. at'[p] = "executing" /\ job'[p].event = job[p].event
      BY <3>1 DEF Goto, HostType
    <3> QED
      BY <3>1, <3>2 DEF Holding, InCall
  <2>8. CASE RecordTool(p)
    <3>1. /\ at[p] = "finishing" /\ Goto(p, "recorded", job[p].event, 0)
          /\ recorder' = Append(recorder, job[p].event)
      BY <2>8 DEF RecordTool
    <3>2. at'[p] = "recorded" /\ job'[p].event = job[p].event
      BY <3>1 DEF Goto, HostType
    <3>3. Len(recorder) + 1 \in DOMAIN recorder' /\ recorder'[Len(recorder) + 1] = job[p].event
      BY <2>1, <3>1, RecorderGrows
    <3>4. job[p].event.type = "tool"
      BY <3>1 DEF Holding, InCall
    <3> QED
      BY <3>2, <3>3, <3>4 DEF Holding
  <2>9. CASE TraceFinish(p)
    <3>1. at[p] = "recorded" /\ Goto(p, "done", job[p].event, 0) /\ recorder' = recorder
      BY <2>9 DEF TraceFinish
    <3>2. at'[p] = "done" /\ job'[p].event = job[p].event
      BY <3>1 DEF Goto, HostType
    <3> QED
      BY <3>1, <3>2 DEF Holding, InCall
  <2> QED
    BY <2>2, <2>3, <2>4, <2>5, <2>6, <2>7, <2>8, <2>9 DEF HostAction
<1> QED
  BY <1>1, <1>2

\* The sets of calls after a start record
LEMMA StartRecorded ==
    ASSUME HostType, NEW p \in Procs, Holding(p), \A c \in Calls : Traced(c), StartAppend(p)
    PROVE  LET c == job[p].event.call IN
           /\ c \in Calls /\ c \notin Started /\ c \notin Finished
           /\ started'[c] = <<job[p].head>>
           /\ \A d \in Calls : d # c => started'[d] = started[d]
           /\ Started' = Started \cup {c} /\ Finished' = Finished
           /\ PendingCalls = {} /\ PendingCalls' = {c}
<1> DEFINE c == job[p].event.call
<1>1. c \in Calls
  BY EventTypes DEF HostType, StartAppend, Holding, InCall
<1>2. /\ PendingCalls = {} /\ c \notin Started
      /\ started' = [started EXCEPT ![c] = <<job[p].head>>] /\ finished' = finished
  BY DEF StartAppend, MayAppendStart
<1>3. started'[c] = <<job[p].head>> /\ \A d \in Calls : d # c => started'[d] = started[d]
  BY <1>1, <1>2 DEF HostType
<1>4. <<job[p].head>> # <<>>
  OBVIOUS
<1>5. Started' = Started \cup {c} /\ Finished' = Finished
  BY <1>1, <1>2, <1>3, <1>4 DEF Started, Finished, NotStarted
<1>6. Finished \subseteq Started
  BY DEF Traced, Finished
<1>7. PendingCalls' = {c}
  BY <1>2, <1>5, <1>6 DEF PendingCalls
<1> QED
  BY <1>1, <1>2, <1>3, <1>5, <1>6, <1>7

\* The sets of calls after a finish record
LEMMA FinishRecorded ==
    ASSUME HostType, NEW c \in Calls, NEW s \in Statuses, NEW h \in Nat, started' = started,
           finished' = [finished EXCEPT ![c] = [status |-> s, head |-> h]]
    PROVE  /\ finished'[c] = [status |-> s, head |-> h]
           /\ \A d \in Calls : d # c => finished'[d] = finished[d]
           /\ Started' = Started /\ Finished' = Finished \cup {c}
           /\ PendingCalls' = PendingCalls \ {c}
<1>1. finished'[c] = [status |-> s, head |-> h] /\ \A d \in Calls : d # c => finished'[d] = finished[d]
  BY DEF HostType
<1>2. finished'[c] # No
  BY <1>1, EventTypes DEF No
<1>3. Started' = Started /\ Finished' = Finished \cup {c}
  BY <1>1, <1>2 DEF Started, Finished
<1> QED
  BY <1>1, <1>3 DEF PendingCalls
\* A recorder that grows keeps what the trace says of a call.
LEMMA TracedGrows ==
    ASSUME HostType, NEW e \in Events, recorder' = Append(recorder, e),
           UNCHANGED <<started, finished>>, NEW c \in Calls, Traced(c),
           e.type = "tool" /\ e.call = c => ToolPositions(c) = {}
    PROVE  Traced(c)'
<1>1. /\ Len(recorder) \in Nat /\ Len(recorder') = Len(recorder) + 1
      /\ DOMAIN recorder = 1 .. Len(recorder) /\ DOMAIN recorder' = 1 .. Len(recorder) + 1
      /\ \A k \in DOMAIN recorder : recorder'[k] = recorder[k]
      /\ IF e.type = "tool" /\ e.call = c
         THEN ToolPositions(c)' = ToolPositions(c) \cup {Len(recorder) + 1}
         ELSE ToolPositions(c)' = ToolPositions(c)
  BY RecorderGrows
<1>2. Started' = Started /\ Finished' = Finished
  BY DEF Started, Finished
<1>3. \A i, j \in ToolPositions(c)' : i = j
  BY <1>1 DEF Traced
<1>4. ASSUME c \in Started
      PROVE  \E h \in 0 .. Len(recorder') :
               /\ started'[c] = <<h>>
               /\ c \in Writes => \E i \in 1 .. h : recorder'[i] = Authorization(c)
  <2>1. PICK h \in 0 .. Len(recorder) :
          /\ started[c] = <<h>>
          /\ c \in Writes => \E i \in 1 .. h : recorder[i] = Authorization(c)
    BY <1>4 DEF Traced
  <2>2. h \in 0 .. Len(recorder') /\ \A i \in 1 .. h : i \in DOMAIN recorder
    BY <1>1
  <2> QED
    BY <1>1, <2>1, <2>2
<1>5. ASSUME c \in Finished
      PROVE  /\ c \in Started /\ finished[c].head \in DOMAIN recorder'
             /\ \E k \in ToolPositions(c)' : recorder'[k].status = finished[c].status
  <2>1. PICK k \in ToolPositions(c) : recorder[k].status = finished[c].status
    BY <1>5 DEF Traced
  <2>2. k \in DOMAIN recorder /\ k \in ToolPositions(c)'
    BY <1>1, ToolPositionsIn
  <2> QED
    BY <1>1, <1>5, <2>1, <2>2 DEF Traced
<1> QED
  BY <1>2, <1>3, <1>4, <1>5 DEF Traced

\* A finish record that tells the outcome.
LEMMA TracedFinish ==
    ASSUME HostType, NEW c \in Calls, NEW s \in Statuses, NEW h \in DOMAIN recorder,
           UNCHANGED <<recorder, started>>,
           finished' = [finished EXCEPT ![c] = [status |-> s, head |-> h]],
           c \in Started, \E k \in ToolPositions(c) : recorder[k].status = s,
           \A d \in Calls : Traced(d)
    PROVE  \A d \in Calls : Traced(d)'
<1>1. h \in Nat
  BY DEF HostType
<1>2. /\ finished'[c] = [status |-> s, head |-> h]
      /\ \A d \in Calls : d # c => finished'[d] = finished[d]
      /\ Started' = Started /\ Finished' = Finished \cup {c}
  BY <1>1, FinishRecorded
<1>3. ASSUME NEW d \in Calls PROVE Traced(d)'
  <2>1. Traced(d) /\ ToolPositions(d)' = ToolPositions(d)
    BY DEF ToolPositions
  <2>2. CASE d = c
    <3>1. finished'[d].status = s /\ finished'[d].head = h
      BY <1>2, <2>2
    <3> QED
      BY <1>2, <2>1, <2>2, <3>1 DEF Traced
  <2>3. CASE d # c
    BY <1>2, <2>1, <2>3 DEF Traced
  <2> QED
    BY <2>2, <2>3
<1> QED
  BY <1>3

LEMMA TracedStep ==
    ASSUME HostType, NEW p \in Procs, HostAction(p), Holding(p), \A c \in Calls : Traced(c)
    PROVE  \A c \in Calls : Traced(c)'
<1>1. job[p].event \in Events /\ job[p].head \in Nat
  BY DEF HostType
<1>2. CASE UNCHANGED <<recorder, started, finished>>
  BY <1>2 DEF Traced, ToolPositions, Started, Finished
<1>3. CASE VisibleAppend(p)
  <2>1. job[p].event.type # "tool" /\ recorder' = Append(recorder, job[p].event) /\ UNCHANGED <<started, finished>>
    BY <1>3 DEF VisibleAppend, Holding
  <2> QED
    BY <1>1, <2>1, TracedGrows
<1>4. CASE RecordTool(p)
  <2>1. /\ ToolPositions(job[p].event.call) = {}
        /\ recorder' = Append(recorder, job[p].event) /\ UNCHANGED <<started, finished>>
    BY <1>4 DEF RecordTool, MayRecord
  <2> QED
    BY <1>1, <2>1, TracedGrows
<1>5. CASE StartAppend(p)
  <2> DEFINE c == job[p].event.call
  <2>1. /\ c \in Calls /\ c \notin Started /\ c \notin Finished
        /\ started'[c] = <<job[p].head>>
        /\ \A d \in Calls : d # c => started'[d] = started[d]
        /\ Started' = Started \cup {c} /\ Finished' = Finished
    BY <1>5, StartRecorded
  <2>2. recorder' = recorder /\ finished' = finished /\ at[p] = "starting"
    BY <1>5 DEF StartAppend
  <2>3. job[p].head \in 0 .. Len(recorder)
    BY <1>1, <2>2 DEF Holding, HostType
  <2>4. c \in Writes => \E i \in 1 .. job[p].head : recorder[i] = Authorization(c)
    BY <2>2 DEF Holding
  <2> HIDE DEF c
  <2>5. ASSUME NEW d \in Calls PROVE Traced(d)'
    <3>1. Traced(d) /\ ToolPositions(d)' = ToolPositions(d)
      BY <2>2 DEF ToolPositions
    <3>2. CASE d = c
      BY <2>1, <2>2, <2>3, <2>4, <3>1, <3>2 DEF Traced
    <3>3. CASE d # c
      BY <2>1, <2>2, <3>1, <3>3 DEF Traced
    <3> QED
      BY <3>2, <3>3
  <2> QED
    BY <2>5
<1>6. CASE TraceFinish(p)
  <2> DEFINE c == job[p].event.call
             s == job[p].event.status
  <2>1. /\ at[p] = "recorded" /\ c \in PendingCalls /\ UNCHANGED <<recorder, started>>
        /\ finished' = [finished EXCEPT ![c] = [status |-> s, head |-> Len(recorder)]]
    BY <1>6 DEF TraceFinish
  <2>2. job[p].event.type = "tool"
    BY <2>1 DEF Holding, InCall
  <2>3. c \in Calls /\ s \in Statuses /\ job[p].event = ToolEvent(c, s)
    BY <1>1, <2>2, EventTypes
  <2>4. PICK k \in DOMAIN recorder : recorder[k] = job[p].event
    BY <2>1 DEF Holding
  <2>5. k \in ToolPositions(c) /\ recorder[k].status = s
    BY <2>3, <2>4, ToolPositionsIn
  <2>6. Len(recorder) \in DOMAIN recorder
    BY <2>4 DEF HostType
  <2>7. c \in Started
    BY <2>1 DEF PendingCalls
  <2> HIDE DEF c, s
  <2> QED
    BY <2>1, <2>3, <2>5, <2>6, <2>7, TracedFinish
<1>7. ASSUME NEW c \in Calls, Recover(p, c) PROVE \A d \in Calls : Traced(d)'
  <2>1. PICK k \in ToolPositions(c) :
          finished' = [finished EXCEPT ![c] = [status |-> recorder[k].status, head |-> k]]
    BY <1>7 DEF Recover
  <2>2. k \in DOMAIN recorder /\ recorder[k] \in Events /\ recorder[k].type = "tool"
    BY ToolPositionsIn
  <2>3. recorder[k].status \in Statuses
    BY <2>2, EventTypes
  <2>4. c \in Started /\ UNCHANGED <<recorder, started>>
    BY <1>7 DEF Recover, PendingCalls
  <2> QED
    BY <2>1, <2>2, <2>3, <2>4, TracedFinish
<1> QED
  BY <1>2, <1>3, <1>4, <1>5, <1>6, <1>7 DEF HostAction, VisibleCheck, StartCheck, FinishCheck,
     SealCheck, Detach, Stop, SealAppend

\* The calls pending after a step: the one that starts, when none was, or
\* some of those that were.
LEMMA PendingStep ==
    ASSUME HostType, NEW p \in Procs, HostAction(p), Holding(p), \A c \in Calls : Traced(c)
    PROVE  \/ StartAppend(p)
           \/ /\ PendingCalls' \subseteq PendingCalls /\ started' = started
              /\ Started' = Started
<1>1. CASE UNCHANGED <<started, finished>>
  BY <1>1 DEF PendingCalls, Started, Finished
<1>2. CASE TraceFinish(p) \/ \E c \in Calls : Recover(p, c)
  <2>1. started' = started /\ Started' = Started
    BY <1>2 DEF TraceFinish, Recover, Started
  <2>2. ASSUME NEW d \in Finished PROVE d \in Finished'
    <3>1. d \in Calls /\ finished[d] # No
      BY DEF Finished
    <3>2. CASE finished'[d] = finished[d]
      BY <3>1, <3>2 DEF Finished
    <3>3. CASE finished'[d] # finished[d]
      <4>1. PICK c \in PendingCalls : finished' = [finished EXCEPT ![c] = finished'[c]]
        <5>1. CASE TraceFinish(p)
          BY <5>1 DEF TraceFinish, HostType, PendingCalls, Started
        <5>2. CASE \E c \in Calls : Recover(p, c)
          BY <5>2 DEF Recover, HostType, PendingCalls, Started
        <5> QED
          BY <1>2, <5>1, <5>2
      <4>2. d = c
        BY <3>1, <3>3, <4>1 DEF HostType
      <4> QED
        BY <4>1, <4>2 DEF PendingCalls
    <3> QED
      BY <3>2, <3>3
  <2> QED
    BY <2>1, <2>2 DEF PendingCalls
<1> QED
  BY <1>1, <1>2 DEF HostAction, VisibleCheck, StartCheck, FinishCheck, SealCheck, Detach, Stop,
     SealAppend, VisibleAppend, RecordTool

LEMMA OnePendingStep ==
    ASSUME HostType, NEW p \in Procs, HostAction(p), Holding(p), OnePending,
           \A c \in Calls : Traced(c)
    PROVE  OnePending'
<1>1. CASE StartAppend(p)
  BY <1>1, StartRecorded DEF OnePending
<1>2. CASE PendingCalls' \subseteq PendingCalls
  BY <1>2 DEF OnePending
<1> QED
  BY <1>1, <1>2, PendingStep
\* A call that verify accepted stays acceptable.
LEMMA CorrelatedKept ==
    ASSUME HostType, NEW p \in Procs, HostAction(p), NEW c \in Calls, Correlated(c),
           started'[c] = started[c], finished'[c] = finished[c]
    PROVE  Correlated(c)'
<1>1. /\ Len(recorder) \in Nat /\ DOMAIN recorder = 1 .. Len(recorder)
      /\ \A k \in DOMAIN recorder : k \in DOMAIN recorder' /\ recorder'[k] = recorder[k]
  BY RecorderKept
<1>2. PICK k \in ToolPositions(c) :
        /\ started[c] = <<k - 1>>
        /\ finished[c] = [status |-> recorder[k].status, head |-> k]
        /\ c \in Writes => \E i \in 1 .. k - 1 : recorder[i] = Authorization(c)
  BY DEF Correlated
<1>3. k \in DOMAIN recorder
  BY DEF ToolPositions
<1>4. k \in ToolPositions(c)'
  BY <1>1, <1>3 DEF ToolPositions
<1>5. \A i \in 1 .. k - 1 : i \in DOMAIN recorder
  BY <1>1, <1>3
<1>6. c \in Writes => \E i \in 1 .. k - 1 : recorder'[i] = Authorization(c)
  BY <1>1, <1>2, <1>5
<1>7. recorder'[k] = recorder[k]
  BY <1>1, <1>3
<1> QED
  BY <1>2, <1>4, <1>6, <1>7 DEF Correlated

\* The finish record of a pending call whose tool event is the last event
LEMMA CorrelatedFinish ==
    ASSUME HostIInv, serial, UNCHANGED <<serial, recorder, started>>, NEW p \in Procs, HostAction(p),
           NEW c \in PendingCalls, NEW s \in Statuses, Len(recorder) \in ToolPositions(c),
           recorder[Len(recorder)].status = s,
           finished' = [finished EXCEPT ![c] = [status |-> s, head |-> Len(recorder)]]
    PROVE  PendingCalls' = {} /\ HostVerifies'
<1>1. c \in Calls /\ c \in Started /\ HostType /\ Traced(c) /\ Len(recorder) \in Nat
  BY DEF PendingCalls, Started, HostIInv, HostType
<1>2. /\ finished'[c] = [status |-> s, head |-> Len(recorder)]
      /\ \A d \in Calls : d # c => finished'[d] = finished[d]
      /\ Finished' = Finished \cup {c} /\ PendingCalls' = PendingCalls \ {c}
  BY <1>1, FinishRecorded
<1>3. PendingCalls' = {}
  BY <1>2 DEF HostIInv, OnePending
<1>4. started[c] = <<Len(recorder) - 1>>
  BY DEF HostIInv, SerialInv, Completable
<1>5. c \in Writes => \E i \in 1 .. Len(recorder) - 1 : recorder[i] = Authorization(c)
  <2>1. PICK h \in 0 .. Len(recorder) :
          /\ started[c] = <<h>>
          /\ c \in Writes => \E i \in 1 .. h : recorder[i] = Authorization(c)
    BY <1>1 DEF Traced
  <2>2. h = Len(recorder) - 1
    BY <1>4, <2>1
  <2> QED
    BY <2>1, <2>2
<1>6. ToolPositions(c)' = ToolPositions(c)
  BY DEF ToolPositions
<1>7. Correlated(c)'
  <2>1. /\ started'[c] = <<Len(recorder) - 1>>
        /\ finished'[c] = [status |-> recorder'[Len(recorder)].status, head |-> Len(recorder)]
        /\ c \in Writes => \E i \in 1 .. Len(recorder) - 1 : recorder'[i] = Authorization(c)
    BY <1>2, <1>4, <1>5
  <2>2. Len(recorder) \in ToolPositions(c)'
    BY <1>6
  <2> QED
    BY <2>1, <2>2, Zenon DEF Correlated
<1>8. ASSUME NEW d \in Finished', d # c PROVE Correlated(d)'
  <2>1. d \in Finished /\ d \in Calls /\ finished'[d] = finished[d] /\ started'[d] = started[d]
    BY <1>2, <1>8 DEF Finished
  <2>2. Correlated(d)
    BY <2>1 DEF HostIInv, SerialInv, HostVerifies
  <2> QED
    BY <1>1, <2>1, <2>2, CorrelatedKept
<1> QED
  BY <1>3, <1>7, <1>8 DEF HostVerifies

\* What a serial host keeps in a step, besides that it stays serial
LEMMA SerialFacts ==
    ASSUME HostIInv, serial, NEW p \in Procs, HostAction(p)
    PROVE  /\ Undisturbed(p)'
           /\ \A c \in PendingCalls' : Completable(c)'
           /\ HostVerifies'
<1>0. /\ HostType /\ Holding(p) /\ OnePending /\ (\A c \in Calls : Traced(c))
      /\ Undisturbed(p) /\ (\A c \in PendingCalls : Completable(c)) /\ HostVerifies
      /\ serial' = serial
  BY HostMove DEF HostIInv, SerialInv
<1>1. job[p].event \in Events /\ job[p].head \in Nat /\ Len(recorder) \in Nat
      /\ DOMAIN recorder = 1 .. Len(recorder)
  BY <1>0 DEF HostType
<1>2. CASE \/ \E e \in {Message} \cup {Authorization(c) : c \in Calls} : VisibleCheck(p, e)
           \/ \E c \in Calls : StartCheck(p, c)
           \/ \E c \in Calls, s \in Statuses : FinishCheck(p, c, s)
           \/ SealCheck(p) \/ Detach(p) \/ Stop(p)
  <2>0. UNCHANGED <<serial, recorder, sealed, started, finished>>
    BY <1>2 DEF VisibleCheck, StartCheck, FinishCheck, SealCheck, Detach, Stop
  <2>1. /\ PendingCalls' = PendingCalls /\ Started' = Started /\ Finished' = Finished
        /\ \A c \in Calls : ToolPositions(c)' = ToolPositions(c) /\ (Authorized(c)' <=> Authorized(c))
    BY <2>0 DEF PendingCalls, Started, Finished, ToolPositions, Authorized
  <2>2. PendingCalls \subseteq Calls /\ Finished \subseteq Calls
    BY DEF PendingCalls, Started, Finished
  <2>3. \A c \in PendingCalls' : Completable(c)'
    BY <1>0, <2>0, <2>1, <2>2 DEF Completable
  <2>4. HostVerifies'
    <3>1. \A c \in Finished : Correlated(c)'
      BY <1>0, <2>0, <2>2, CorrelatedKept DEF HostVerifies
    <3> QED
      BY <2>1, <3>1 DEF HostVerifies
  <2>5. Undisturbed(p)'
    <3>1. CASE \E e \in {Message} \cup {Authorization(c) : c \in Calls} : VisibleCheck(p, e)
      <4>1. \E e : Goto(p, "visible", e, 0)
        BY <3>1 DEF VisibleCheck
      <4>2. at'[p] = "visible" /\ PendingCalls = {}
        BY <1>0, <3>1, <4>1 DEF VisibleCheck, Goto, HostType
      <4> QED
        BY <2>1, <4>2 DEF Undisturbed
    <3>2. ASSUME NEW c \in Calls, StartCheck(p, c) PROVE Undisturbed(p)'
      <4>1. MayStart(c) /\ Goto(p, "starting", ToolEvent(c, "failure"), Len(recorder))
        BY <3>2 DEF StartCheck
      <4>2. at'[p] = "starting" /\ job'[p].event.call = c /\ job'[p].head = Len(recorder')
        BY <1>0, <2>0, <4>1 DEF Goto, HostType, ToolEvent
      <4>3. MayStart(c)'
        BY <2>0, <2>1, <4>1 DEF MayStart
      <4> QED
        BY <4>2, <4>3 DEF Undisturbed
    <3>3. ASSUME NEW c \in Calls, NEW s \in Statuses, FinishCheck(p, c, s) PROVE Undisturbed(p)'
      <4>1. MayFinish(c) /\ Goto(p, "finishing", ToolEvent(c, s), 0)
        BY <3>3 DEF FinishCheck
      <4>2. at'[p] = "finishing" /\ job'[p].event.call = c
        BY <1>0, <4>1 DEF Goto, HostType, ToolEvent
      <4>3. MayFinish(c)'
        BY <2>0, <2>1, <4>1 DEF MayFinish
      <4> QED
        BY <4>2, <4>3 DEF Undisturbed
    <3>4. CASE SealCheck(p)
      <4>1. at'[p] = "sealing" /\ PendingCalls = {}
        BY <1>0, <3>4 DEF SealCheck, Goto, HostType
      <4> QED
        BY <2>1, <4>1 DEF Undisturbed
    <3>5. CASE Detach(p) \/ Stop(p)
      <4>1. at'[p] = "idle"
        BY <1>0, <3>5 DEF Detach, Stop, Return, Goto, HostType
      <4> QED
        BY <4>1 DEF Undisturbed
    <3> QED
      BY <1>2, <3>1, <3>2, <3>3, <3>4, <3>5
  <2> QED
    BY <2>3, <2>4, <2>5
<1>3. CASE VisibleAppend(p)
  <2>1. PendingCalls = {} /\ UNCHANGED <<started, finished>> /\ at'[p] = "idle"
    BY <1>0, <1>3 DEF VisibleAppend, Undisturbed, Return, Goto, HostType
  <2>2. PendingCalls' = {} /\ Finished' = Finished /\ Finished \subseteq Calls
    BY <2>1 DEF PendingCalls, Started, Finished
  <2>3. \A c \in Finished : Correlated(c)'
    BY <1>0, <2>1, <2>2, CorrelatedKept DEF HostVerifies
  <2> QED
    BY <2>1, <2>2, <2>3 DEF Undisturbed, HostVerifies
<1>4. CASE RecordTool(p)
  <2>0. PICK c : c = job[p].event.call
    OBVIOUS
  <2>1. /\ at[p] = "finishing" /\ MayRecord(c) /\ recorder' = Append(recorder, job[p].event)
        /\ Goto(p, "recorded", job[p].event, 0) /\ UNCHANGED <<sealed, started, finished>>
    BY <1>4, <2>0 DEF RecordTool
  <2>2. MayFinish(c) /\ job[p].event.type = "tool"
    BY <1>0, <2>0, <2>1 DEF Undisturbed, Holding, InCall
  <2>3. c \in Calls /\ c \in PendingCalls /\ started[c] = <<Len(recorder)>>
    BY <2>2 DEF MayFinish, PendingCalls, Started
  <2>4. PendingCalls' = PendingCalls /\ Finished' = Finished /\ Finished \subseteq Calls
    BY <2>1 DEF PendingCalls, Started, Finished
  <2>5. PendingCalls = {c}
    BY <1>0, <2>3 DEF OnePending
  <2>6. /\ ToolPositions(c)' = {Len(recorder) + 1} /\ Len(recorder') = Len(recorder) + 1
        /\ recorder'[Len(recorder) + 1] = job[p].event
    <3>1. ToolPositions(c) = {}
      BY <2>1 DEF MayRecord
    <3>2. IF job[p].event.type = "tool" /\ job[p].event.call = c
          THEN ToolPositions(c)' = ToolPositions(c) \cup {Len(recorder) + 1}
          ELSE ToolPositions(c)' = ToolPositions(c)
      BY <1>0, <1>1, <2>1, <2>3, RecorderGrows
    <3>3. Len(recorder') = Len(recorder) + 1 /\ recorder'[Len(recorder) + 1] = job[p].event
      BY <1>0, <1>1, <2>1, RecorderGrows
    <3> QED
      BY <2>0, <2>2, <3>1, <3>2, <3>3
  <2>7. \A d \in PendingCalls' : Completable(d)'
    <3>1. ~sealed' /\ started'[c] = <<Len(recorder)>>
      BY <2>1, <2>3 DEF MayRecord
    <3>2. started'[c] = <<Len(recorder') - 1>> /\ ToolPositions(c)' = {Len(recorder')}
      BY <1>1, <2>6, <3>1
    <3> QED
      BY <2>4, <2>5, <3>1, <3>2 DEF Completable
  <2>8. HostVerifies'
    <3>1. \A d \in Finished : Correlated(d)'
      BY <1>0, <2>1, <2>4, CorrelatedKept DEF HostVerifies
    <3> QED
      BY <2>4, <3>1 DEF HostVerifies
  <2>9. Undisturbed(p)'
    <3>1. at'[p] = "recorded" /\ job'[p].event = job[p].event
      BY <1>0, <2>1 DEF Goto, HostType
    <3>2. Len(recorder') > 0 /\ recorder'[Len(recorder')] = job[p].event
      BY <1>1, <2>6
    <3> QED
      BY <2>0, <2>3, <2>4, <3>1, <3>2 DEF Undisturbed
  <2> QED
    BY <2>7, <2>8, <2>9
<1>5. CASE StartAppend(p)
  <2>0. PICK c : c = job[p].event.call
    OBVIOUS
  <2>1. /\ at[p] = "starting" /\ Goto(p, "executing", job[p].event, 0)
        /\ UNCHANGED <<recorder, sealed, finished>>
    BY <1>5 DEF StartAppend
  <2>2. MayStart(c) /\ job[p].head = Len(recorder)
    BY <1>0, <2>0, <2>1 DEF Undisturbed
  <2>3. /\ c \in Calls /\ c \notin Started /\ c \notin Finished
        /\ started'[c] = <<job[p].head>>
        /\ \A d \in Calls : d # c => started'[d] = started[d]
        /\ Finished' = Finished /\ PendingCalls' = {c}
    BY <1>0, <1>5, <2>0, StartRecorded
  <2>4. ToolPositions(c)' = {} /\ ~sealed'
    BY <2>1, <2>2 DEF MayStart, ToolPositions
  <2>5. at'[p] = "executing"
    BY <1>0, <2>1 DEF Goto, HostType
  <2>6. Undisturbed(p)'
    BY <2>5 DEF Undisturbed
  <2>7. started'[c] = <<Len(recorder')>>
    BY <2>1, <2>2, <2>3
  <2>8. \A d \in PendingCalls' : Completable(d)'
    BY <2>3, <2>4, <2>7 DEF Completable
  <2>9. HostVerifies'
    <3>1. ASSUME NEW d \in Finished PROVE Correlated(d)'
      <4>1. d \in Calls /\ started'[d] = started[d] /\ finished'[d] = finished[d] /\ Correlated(d)
        BY <1>0, <2>1, <2>3 DEF Finished, HostVerifies
      <4> QED
        BY <1>0, <4>1, CorrelatedKept
    <3> QED
      BY <2>3, <3>1 DEF HostVerifies
  <2> QED
    BY <2>6, <2>8, <2>9
<1>6. CASE TraceFinish(p)
  <2> DEFINE c == job[p].event.call
             s == job[p].event.status
  <2>1. /\ at[p] = "recorded" /\ Goto(p, "done", job[p].event, 0)
        /\ UNCHANGED <<serial, recorder, started>> /\ c \in PendingCalls
        /\ finished' = [finished EXCEPT ![c] = [status |-> s, head |-> Len(recorder)]]
    BY <1>6 DEF TraceFinish
  <2>2. Len(recorder) > 0 /\ recorder[Len(recorder)] = job[p].event /\ job[p].event.type = "tool"
    BY <1>0, <2>1 DEF Undisturbed, Holding, InCall
  <2>3. c \in Calls /\ s \in Statuses /\ job[p].event = ToolEvent(c, s)
    BY <1>1, <2>2, EventTypes
  <2>4. Len(recorder) \in ToolPositions(c) /\ recorder[Len(recorder)].status = s
    <3>1. Len(recorder) \in DOMAIN recorder
      BY <1>1, <2>2
    <3>2. recorder[Len(recorder)] = ToolEvent(c, s)
      BY <2>2, <2>3
    <3> QED
      BY <1>0, <2>3, <3>1, <3>2, ToolPositionsIn
  <2>5. at'[p] = "done" /\ job'[p].event = job[p].event
    BY <1>0, <2>1 DEF Goto, HostType
  <2>6. Undisturbed(p)'
    BY <2>1, <2>2, <2>5 DEF Undisturbed
  <2> HIDE DEF c, s
  <2>7. PendingCalls' = {} /\ HostVerifies'
    BY <2>1, <2>3, <2>4, CorrelatedFinish
  <2> QED
    BY <2>6, <2>7
<1>7. ASSUME NEW c \in Calls, Recover(p, c)
      PROVE  Undisturbed(p)' /\ PendingCalls' = {} /\ HostVerifies'
  <2>1. /\ at[p] = "idle" /\ c \in PendingCalls
        /\ UNCHANGED <<serial, recorder, sealed, started, at, job>>
    BY <1>7 DEF Recover
  <2>2. PICK k \in ToolPositions(c) : k = Len(recorder) /\
          finished' = [finished EXCEPT ![c] = [status |-> recorder[k].status, head |-> k]]
    BY <1>7 DEF Recover
  <2>3. recorder[k] \in Events /\ recorder[k].type = "tool"
    BY <1>0, ToolPositionsIn
  <2>4. recorder[k].status \in Statuses
    BY <2>3, EventTypes
  <2>5. PendingCalls' = {} /\ HostVerifies'
    BY <2>1, <2>2, <2>4, CorrelatedFinish
  <2>6. Undisturbed(p)'
    BY <2>1 DEF Undisturbed
  <2> QED
    BY <2>5, <2>6
<1>8. CASE SealAppend(p)
  <2>1. PendingCalls = {} /\ UNCHANGED <<recorder, started, finished>> /\ at'[p] = "idle"
    BY <1>0, <1>8 DEF SealAppend, Undisturbed, Return, Goto, HostType
  <2>2. PendingCalls' = {} /\ Finished' = Finished /\ Finished \subseteq Calls
    BY <2>1 DEF PendingCalls, Started, Finished
  <2>3. \A c \in Finished : Correlated(c)'
    BY <1>0, <2>1, <2>2, CorrelatedKept DEF HostVerifies
  <2> QED
    BY <2>1, <2>2, <2>3 DEF Undisturbed, HostVerifies
<1> QED
  BY <1>2, <1>3, <1>4, <1>5, <1>6, <1>7, <1>8 DEF HostAction
LEMMA SerialStep ==
    ASSUME HostIInv, NEW p \in Procs, HostAction(p)
    PROVE  SerialInv'
<1> SUFFICES ASSUME serial'
             PROVE  /\ \A q, r \in Procs : at'[q] # "idle" /\ at'[r] # "idle" => q = r
                    /\ \A q \in Procs : Undisturbed(q)'
                    /\ \A c \in PendingCalls' : Completable(c)'
                    /\ HostVerifies'
  BY DEF SerialInv
<1>1. HostType /\ Holding(p) /\ SerialInv
  BY DEF HostIInv
<1>2. /\ serial' = serial
      /\ \A q \in Procs : q # p => at'[q] = at[q]
      /\ serial => at[p] # "idle" \/ \A q \in Procs : q # p => at[q] = "idle"
  BY <1>1, HostMove
<1>3. \A q \in Procs : q # p => at'[q] = "idle"
  BY <1>1, <1>2 DEF SerialInv
<1>4. /\ Undisturbed(p)'
      /\ \A c \in PendingCalls' : Completable(c)'
      /\ HostVerifies'
  BY <1>2, SerialFacts
<1>5. ASSUME NEW q \in Procs, q # p PROVE Undisturbed(q)'
  BY <1>3, <1>5 DEF Undisturbed
<1> QED
  BY <1>3, <1>4, <1>5

LEMMA HostInductive ==
    ASSUME HostIInv, [HostNext]_hostVars
    PROVE  HostIInv'
<1>1. CASE HostNext
  <2>1. PICK p \in Procs : HostAction(p)
    BY <1>1, HostCases
  <2>2. /\ HostType /\ OnePending /\ SerialInv
        /\ \A q \in Procs : Holding(q)
        /\ \A c \in Calls : Traced(c)
    BY DEF HostIInv
  <2>3. HostType'
    BY <2>1, <2>2, HostTypeStep
  <2>4. OnePending'
    BY <2>1, <2>2, OnePendingStep
  <2>5. SerialInv'
    BY <2>1, SerialStep
  <2>6. \A q \in Procs : Holding(q)'
    BY <2>1, <2>2, HoldingStep
  <2>7. \A c \in Calls : Traced(c)'
    BY <2>1, <2>2, TracedStep
  <2> QED
    BY <2>3, <2>4, <2>5, <2>6, <2>7 DEF HostIInv
<1>2. CASE UNCHANGED hostVars
  <2>1. UNCHANGED <<serial, recorder, sealed, started, finished, at, job>>
    BY <1>2 DEF hostVars
  <2>2. /\ PendingCalls' = PendingCalls /\ Started' = Started /\ Finished' = Finished
        /\ \A c : /\ ToolPositions(c)' = ToolPositions(c)
                  /\ Authorized(c)' = Authorized(c)
                  /\ Correlated(c)' = Correlated(c)
    BY <2>1 DEF PendingCalls, Started, Finished, ToolPositions, Authorized, Correlated
  <2>3. HostType' /\ OnePending'
    BY <2>1, <2>2 DEF HostIInv, HostType, OnePending
  <2>4. (\A q \in Procs : Holding(q)') /\ \A c \in Calls : Traced(c)'
    BY <2>1, <2>2 DEF HostIInv, Holding, Traced
  <2>5. SerialInv'
    BY <2>1, <2>2 DEF HostIInv, SerialInv, Undisturbed, MayStart, MayFinish, Completable, HostVerifies
  <2> QED
    BY <2>3, <2>4, <2>5 DEF HostIInv
<1> QED
  BY <1>1, <1>2

LEMMA HostInitially ==
    ASSUME HostInit
    PROVE  HostIInv
<1>1. /\ serial \in BOOLEAN /\ recorder = <<>> /\ sealed = FALSE
      /\ started = [c \in Calls |-> <<>>]
      /\ finished = [c \in Calls |-> No]
      /\ at = [p \in Procs |-> "idle"]
      /\ job = [p \in Procs |-> Idle]
  BY DEF HostInit, NotStarted
<1>2. Idle \in [event : Events, head : Nat] /\ No \in [status : Statuses \cup {"none"}, head : Nat]
  BY EventTypes DEF Idle, No
<1>3. HostType
  <2>1. started \in [Calls -> Seq(Nat)]
    <3>1. <<>> \in Seq(Nat)
      OBVIOUS
    <3> QED
      BY <1>1, <3>1
  <2>2. recorder \in Seq(Events)
    BY <1>1
  <2>3. /\ finished \in [Calls -> [status : Statuses \cup {"none"}, head : Nat]]
        /\ job \in [Procs -> [event : Events, head : Nat]]
        /\ at \in [Procs -> {"idle", "visible", "sealing"} \cup InCall]
    BY <1>1, <1>2
  <2> QED
    BY <1>1, <2>1, <2>2, <2>3 DEF HostType
<1>4. Started = {} /\ Finished = {} /\ PendingCalls = {}
  BY <1>1 DEF Started, Finished, PendingCalls, NotStarted
<1>5. \A c \in Calls : ToolPositions(c) = {}
  BY <1>1 DEF ToolPositions
<1>6. \A c \in Calls : Traced(c)
  BY <1>4, <1>5 DEF Traced
<1>7. \A p \in Procs : Holding(p) /\ Undisturbed(p) /\ at[p] = "idle"
  BY <1>1 DEF Holding, Undisturbed, InCall
<1> QED
  BY <1>3, <1>4, <1>6, <1>7 DEF HostIInv, OnePending, SerialInv, HostVerifies

\* What the invariant says of the properties
LEMMA HostImplies ==
    ASSUME HostIInv
    PROVE  TraceTellsOutcome /\ PendingCanComplete /\ CallsCorrelate /\ HostTypeOK
<1>1. /\ HostType /\ OnePending /\ SerialInv
      /\ \A c \in Calls : Traced(c)
  BY DEF HostIInv
<1>2. \A c \in Calls : Cardinality(ToolPositions(c)) <= 1
  <2> SUFFICES ASSUME NEW c \in Calls PROVE Cardinality(ToolPositions(c)) <= 1
    OBVIOUS
  <2>1. ToolPositions(c) \in SUBSET (1 .. Len(recorder)) /\ Len(recorder) \in Nat
    BY <1>1, ToolPositionsIn
  <2>2. \A i, j \in ToolPositions(c) : i = j
    BY <1>1 DEF Traced
  <2> QED
    BY <2>1, <2>2, AtMostOne
<1>3. TraceTellsOutcome
  BY <1>1, <1>2 DEF TraceTellsOutcome, Traced
<1>4. PendingCanComplete
  BY <1>1 DEF PendingCanComplete, SerialInv, Completable
<1>5. Cardinality(PendingCalls) <= 1
  <2>1. CASE PendingCalls = {}
    BY <2>1, FS_EmptySet
  <2>2. ASSUME NEW c \in PendingCalls PROVE Cardinality(PendingCalls) <= 1
    <3>1. PendingCalls = {c}
      BY <1>1 DEF OnePending
    <3>2. Cardinality({c}) = 1
      BY FS_Singleton
    <3> QED
      BY <3>1, <3>2
  <2> QED
    BY <2>1, <2>2
<1>6. CallsCorrelate
  BY <1>1, <1>5 DEF CallsCorrelate, SerialInv
<1>7. HostTypeOK
  BY <1>1 DEF HostTypeOK, HostType, Traced, InCall, Finished, NotStarted
<1> QED
  BY <1>3, <1>4, <1>6, <1>7

\* The host's files satisfy the inductive invariant forever.
THEOREM HostInvariance == HostSpec => []HostIInv
  BY HostInitially, HostInductive, PTL DEF HostSpec

\* The variables of the host keep their types, and a finished call was started
\* and points at an event the recorder holds.
THEOREM HostTypeCorrect == HostSpec => []HostTypeOK
  BY HostInvariance, HostImplies, PTL

\* TraceTellsOutcome for every number of processes and calls: a finish record
\* of finish_tool_call or recover_tool_call tells the one outcome the recorder
\* holds.
THEOREM FinishTellsOutcome == HostSpec => []TraceTellsOutcome
  BY HostInvariance, HostImplies, PTL

\* PendingCanComplete: in a serial host every pending call can be finished or
\* recovered, and blocks the seal.
THEOREM NoDeadEnd == HostSpec => []PendingCanComplete
  BY HostInvariance, HostImplies, PTL

\* CallsCorrelate: one call is pending at most, although each process checks
\* before it takes the lock, and verify() accepts what a serial host wrote.
THEOREM VerifyAccepts == HostSpec => []CallsCorrelate
  BY HostInvariance, HostImplies, PTL
-----------------------------------------------------------------------------
(* The transaction's steps *)

LEMMA StepsAreCalls == Steps \subseteq Calls /\ NoCall \notin Steps
  BY PlanAssumption, CallsAssumption DEF Steps

\* The steps of Next, by what they touch
Local(p) ==
    \/ \E c \in Steps : Choose(p, c)
    \/ \E s \in {"success", "failure"} : Invoke(p, s)
    \/ Summarize(p) \/ Reconcile(p) \/ AbortCheck(p)

Journals(p) ==
    \/ StepStarted(p) \/ StepFinished(p)
    \/ Halt(p) \/ Complete(p) \/ Abort(p)

Hosts(p) == CallStarts(p) \/ CallFinishes(p) \/ HostStep(p) \/ SealSession(p)

Returns(p) ==
    \/ \E payload \in Payloads : Receive(p, payload)
    \/ Raise(p) \/ TransactionStop(p)

Action(p) == Local(p) \/ Journals(p) \/ Hosts(p) \/ Returns(p)

LEMMA NextCases ==
    ASSUME Next PROVE \E p \in Procs : Action(p)
  BY DEF Next, ProcNext, RunNext, Action, Local, Journals, Hosts, Returns

LEMMA ProceedEffect ==
    ASSUME TransactionType, NEW p \in Procs, NEW w, NEW r, Proceed(p, w, r)
    PROVE  /\ tpc'[p] = w /\ run'[p] = r
           /\ \A q \in Procs : q # p => tpc'[q] = tpc[q] /\ run'[q] = run[q]
  BY DEF Proceed, TransactionType

LEMMA ReturnEffect ==
    ASSUME HostType, NEW p \in Procs, Return(p)
    PROVE  /\ at'[p] = "idle" /\ job'[p] = Idle
           /\ \A q \in Procs : q # p => at'[q] = at[q] /\ job'[q] = job[q]
  BY DEF Return, Goto, HostType, Idle

\* A step of a method is a step of the host, unless it leaves the host alone.
LEMMA HostsAct ==
    ASSUME NEW p \in Procs, Nested(p), Hosts(p)
    PROVE  HostAction(p) /\ UNCHANGED <<transactionVars, invoked>>
<1>1. CASE CallStarts(p)
  <2>1. run[p].step \in Calls
    BY <1>1, StepsAreCalls DEF CallStarts, Nested, Running
  <2> QED
    BY <1>1, <2>1 DEF CallStarts, HostAction
<1>2. CASE CallFinishes(p)
  <2>1. run[p].step \in Calls /\ run[p].outcome.status \in Statuses
    BY <1>2, StepsAreCalls DEF CallFinishes, Nested, Running
  <2> QED
    BY <1>2, <2>1 DEF CallFinishes, HostAction
<1>3. CASE HostStep(p)
  BY <1>3 DEF HostStep, HostAction, RecordNext
<1>4. CASE SealSession(p)
  BY <1>4 DEF SealSession, HostAction
<1> QED
  BY <1>1, <1>2, <1>3, <1>4 DEF Hosts

LEMMA HostActionNext ==
    ASSUME NEW p \in Procs, HostAction(p) PROVE HostNext
  BY DEF HostNext, HostAction, RecordNext, CallNext

\* A method that returns stops in the host, if it is in the middle of a method
\* there.
LEMMA ReturnsHost ==
    ASSUME HostIInv, NEW p \in Procs, Return(p), UNCHANGED <<serial, recorder, sealed, started, finished>>
    PROVE  HostAction(p) \/ UNCHANGED hostVars
<1>1. CASE at[p] # "idle"
  BY <1>1 DEF Stop, HostAction
<1>2. CASE at[p] = "idle"
  <2>1. job[p] = [event |-> Message, head |-> 0] /\ HostType
    BY <1>2 DEF HostIInv, Holding, Idle
  <2>2. at' = at /\ job' = job
    BY <1>2, <2>1 DEF Return, Goto, HostType
  <2> QED
    BY <2>2 DEF hostVars
<1> QED
  BY <1>1, <1>2

LEMMA StepOfHost ==
    ASSUME IInv, NEW p \in Procs, Action(p)
    PROVE  HostAction(p) \/ UNCHANGED hostVars
<1>1. CASE Local(p)
  BY <1>1 DEF Local, Choose, Invoke, Summarize, Reconcile, AbortCheck
<1>2. CASE Journals(p)
  BY <1>2 DEF Journals, StepStarted, StepFinished, Halt, Complete, Abort
<1>3. CASE Hosts(p)
  BY <1>3, HostsAct DEF IInv, TransactionInv
<1>4. CASE Returns(p)
  <2>1. Return(p) /\ UNCHANGED <<serial, recorder, sealed, started, finished>>
    BY <1>4 DEF Returns, Receive, Raise, TransactionStop
  <2> QED
    BY <2>1, ReturnsHost DEF IInv
<1> QED
  BY <1>1, <1>2, <1>3, <1>4 DEF Action

LEMMA HostInvKept ==
    ASSUME IInv, NEW p \in Procs, Action(p)
    PROVE  HostIInv'
<1>1. [HostNext]_hostVars
  BY StepOfHost, HostActionNext
<1> QED
  BY <1>1, HostInductive DEF IInv

\* The two files only grow.
LEMMA HostGrows ==
    ASSUME IInv, NEW p \in Procs, Action(p)
    PROVE  /\ Started \subseteq Started' /\ serial' = serial
           /\ \A c \in Calls : ToolPositions(c) \subseteq ToolPositions(c)'
           /\ \A k \in DOMAIN recorder : k \in DOMAIN recorder' /\ recorder'[k] = recorder[k]
           /\ \A q \in Procs : q # p => at'[q] = at[q] /\ job'[q] = job[q]
<1>1. /\ HostType /\ Holding(p) /\ \A c \in Calls : Traced(c)
  BY DEF IInv, HostIInv
<1>2. CASE HostAction(p)
  <2>1. Started \subseteq Started'
    BY <1>1, <1>2, PendingStep, StartRecorded
  <2>2. /\ \A k \in DOMAIN recorder : k \in DOMAIN recorder' /\ recorder'[k] = recorder[k]
    BY <1>1, <1>2, RecorderKept
  <2>3. \A c \in Calls : ToolPositions(c) \subseteq ToolPositions(c)'
    BY <2>2 DEF ToolPositions
  <2>4. serial' = serial /\ \A q \in Procs : q # p => at'[q] = at[q] /\ job'[q] = job[q]
    BY <1>1, <1>2, HostMove
  <2> QED
    BY <2>1, <2>2, <2>3, <2>4
<1>3. CASE UNCHANGED hostVars
  BY <1>3 DEF hostVars, Started, ToolPositions
<1> QED
  BY <1>2, <1>3, StepOfHost

\* Only the process that acts moves.
LEMMA OthersStay ==
    ASSUME IInv, NEW p \in Procs, Action(p)
    PROVE  \A q \in Procs : q # p => tpc'[q] = tpc[q] /\ run'[q] = run[q]
<1>1. TransactionType
  BY DEF IInv, TransactionInv
<1>2. UNCHANGED <<tpc, run>> \/ \E w : \E r : Proceed(p, w, r)
  BY DEF Action, Local, Journals, Hosts, Returns, Choose, Invoke, Summarize, Reconcile, AbortCheck,
         StepStarted, StepFinished, Halt, Complete, Abort, CallStarts, CallFinishes, HostStep, SealSession,
         Receive, Raise, TransactionStop, transactionVars
<1> QED
  BY <1>1, <1>2, ProceedEffect
-----------------------------------------------------------------------------
(* The journal *)

LEMMA PositionsIn ==
    ASSUME TransactionType, NEW type, NEW c
    PROVE  /\ Positions(type, c) \subseteq DOMAIN journal
           /\ DOMAIN journal = 1 .. Len(journal) /\ Len(journal) \in Nat
           /\ \A k \in DOMAIN journal : journal[k] \in Entries
           /\ \A k \in Positions(type, c) : journal[k].type = type /\ journal[k].step = c
  BY DEF Positions, TransactionType

\* The entries and what they hold
LEMMA EntryTypes ==
    /\ NoOutcome \in Outcomes /\ ~Succeeds(NoOutcome)
    /\ \A type \in {"started", "halted"}, c \in Steps :
         /\ Entry(type, c) \in Entries
         /\ Entry(type, c).type = type /\ Entry(type, c).step = c
    /\ Entry("aborted", NoCall) \in Entries /\ Entry("aborted", NoCall).type = "aborted"
    /\ \A c \in Steps, o \in Outcomes :
         /\ FinishEntry(c, o) \in Entries
         /\ FinishEntry(c, o).type = "finished" /\ FinishEntry(c, o).step = c
         /\ FinishEntry(c, o).outcome = o
    /\ \A n \in Nat :
         /\ CompletedEntry(n) \in Entries
         /\ CompletedEntry(n).type = "completed" /\ CompletedEntry(n).bind = n
<1> USE DEF Entries, Entry
<1>1. NoOutcome \in Outcomes /\ ~Succeeds(NoOutcome)
  BY DEF NoOutcome, Outcome, Outcomes, Payloads, Succeeds
<1>2. ASSUME NEW type \in {"started", "halted"}, NEW c \in Steps
      PROVE  /\ Entry(type, c) \in Entries
             /\ Entry(type, c).type = type /\ Entry(type, c).step = c
  BY <1>1
<1>3. ASSUME NEW c \in Steps, NEW o \in Outcomes
      PROVE  /\ FinishEntry(c, o) \in Entries
             /\ FinishEntry(c, o).type = "finished" /\ FinishEntry(c, o).step = c
             /\ FinishEntry(c, o).outcome = o
  BY <1>1 DEF FinishEntry
<1>4. ASSUME NEW n \in Nat
      PROVE  /\ CompletedEntry(n) \in Entries
             /\ CompletedEntry(n).type = "completed" /\ CompletedEntry(n).bind = n
  BY <1>1 DEF CompletedEntry
<1>5. Entry("aborted", NoCall) \in Entries /\ Entry("aborted", NoCall).type = "aborted"
  BY <1>1
<1> QED
  BY <1>1, <1>2, <1>3, <1>4, <1>5

LEMMA OneMorePosition ==
    ASSUME NEW D, NEW x, NEW S, NEW T, S \subseteq D, T \subseteq D \cup {x},
           \A k \in D : k \in T <=> k \in S, x \notin D
    PROVE  T = IF x \in T THEN S \cup {x} ELSE S
  OBVIOUS

\* A step whose finishes stay is as successful as it was.
LEMMA SameFinishes ==
    ASSUME NEW d, d \in Ended' <=> d \in Ended,
           Positions("finished", d)' = Positions("finished", d),
           \A k \in DOMAIN journal : journal'[k] = journal[k]
    PROVE  d \in Successful' <=> d \in Successful
<1>1. \A k \in Positions("finished", d) : journal'[k].outcome = journal[k].outcome
  BY DEF Positions
<1>2. (\A k \in Positions("finished", d)' : Succeeds(journal'[k].outcome))
      <=> (\A k \in Positions("finished", d) : Succeeds(journal[k].outcome))
  BY <1>1
<1>3. d \in Successful <=> (d \in Ended /\ \A k \in Positions("finished", d) : Succeeds(journal[k].outcome))
  BY DEF Successful
<1>4. d \in Successful' <=> (d \in Ended' /\ \A k \in Positions("finished", d)' : Succeeds(journal'[k].outcome))
  BY DEF Successful
<1> QED
  BY <1>2, <1>3, <1>4

LEMMA JournalGrows ==
    ASSUME TransactionType, NEW e \in Entries, journal' = Append(journal, e)
    PROVE  /\ journal' \in Seq(Entries)
           /\ Len(journal) \in Nat /\ Len(journal') = Len(journal) + 1
           /\ DOMAIN journal = 1 .. Len(journal) /\ DOMAIN journal' = 1 .. Len(journal) + 1
           /\ \A k \in DOMAIN journal : journal'[k] = journal[k] /\ k # Len(journal) + 1
           /\ journal'[Len(journal) + 1] = e
           /\ \A type, c :
                IF e.type = type /\ e.step = c
                THEN Positions(type, c)' = Positions(type, c) \cup {Len(journal) + 1}
                ELSE Positions(type, c)' = Positions(type, c)
           /\ \A type : Has(type)' <=> (Has(type) \/ e.type = type)
<1>1. /\ journal' \in Seq(Entries)
      /\ Len(journal) \in Nat /\ Len(journal') = Len(journal) + 1
      /\ DOMAIN journal = 1 .. Len(journal) /\ DOMAIN journal' = 1 .. Len(journal) + 1
      /\ \A k \in DOMAIN journal : journal'[k] = journal[k] /\ k # Len(journal) + 1
      /\ journal'[Len(journal) + 1] = e
  BY DEF TransactionType
<1>2. /\ \A k \in DOMAIN journal' : k \in DOMAIN journal \/ k = Len(journal) + 1
      /\ \A k \in DOMAIN journal : k \in DOMAIN journal'
      /\ Len(journal) + 1 \in DOMAIN journal'
  BY <1>1
<1>3. ASSUME NEW type, NEW c
      PROVE  IF e.type = type /\ e.step = c
             THEN Positions(type, c)' = Positions(type, c) \cup {Len(journal) + 1}
             ELSE Positions(type, c)' = Positions(type, c)
  <2>1. \A k \in DOMAIN journal : k \in Positions(type, c)' <=> k \in Positions(type, c)
    BY <1>1, <1>2, Zenon DEF Positions
  <2>2. Len(journal) + 1 \in Positions(type, c)' <=> (e.type = type /\ e.step = c)
    BY <1>1, <1>2, Zenon DEF Positions
  <2>3. Positions(type, c)' \subseteq DOMAIN journal' /\ Positions(type, c) \subseteq DOMAIN journal
    BY DEF Positions
  <2>4. PICK S, T, D, x : /\ S = Positions(type, c) /\ T = Positions(type, c)'
                          /\ D = DOMAIN journal /\ x = Len(journal) + 1
    OBVIOUS
  <2>5. T = IF x \in T THEN S \cup {x} ELSE S
    BY <1>1, <1>2, <2>1, <2>3, <2>4, OneMorePosition
  <2> QED
    BY <2>2, <2>4, <2>5
<1>4. ASSUME NEW type PROVE Has(type)' <=> (Has(type) \/ e.type = type)
  BY <1>1, <1>2, Zenon DEF Has
<1> QED
  BY <1>1, <1>3, <1>4

\* What an entry of another type than a start or a finish leaves alone
LEMMA OtherEntry ==
    ASSUME TransactionType, NEW e \in Entries, journal' = Append(journal, e),
           e.type \notin {"started", "finished"}
    PROVE  /\ \A c : Positions("started", c)' = Positions("started", c)
           /\ \A c : Positions("finished", c)' = Positions("finished", c)
           /\ Begun' = Begun /\ Ended' = Ended /\ PendingSteps' = PendingSteps /\ Successful' = Successful
<1>1. /\ \A c : Positions("started", c)' = Positions("started", c)
      /\ \A c : Positions("finished", c)' = Positions("finished", c)
  BY JournalGrows
<1>2. Begun' = Begun /\ Ended' = Ended
  BY <1>1 DEF Begun, Ended
<1>3. \A k \in DOMAIN journal : journal'[k] = journal[k]
  BY JournalGrows
<1>4. \A c : c \in Successful' <=> c \in Successful
  BY <1>1, <1>2, <1>3, SameFinishes
<1> QED
  BY <1>1, <1>2, <1>4 DEF PendingSteps

LEMMA StartEntry ==
    ASSUME TransactionType, NEW c \in Steps, NEW e \in Entries, journal' = Append(journal, e),
           e.type = "started", e.step = c
    PROVE  /\ Positions("started", c)' = Positions("started", c) \cup {Len(journal) + 1}
           /\ \A d : d # c => Positions("started", d)' = Positions("started", d)
           /\ \A d : Positions("finished", d)' = Positions("finished", d)
           /\ Begun' = Begun \cup {c} /\ Ended' = Ended /\ Successful' = Successful
<1>1. /\ Positions("started", c)' = Positions("started", c) \cup {Len(journal) + 1}
      /\ \A d : d # c => Positions("started", d)' = Positions("started", d)
      /\ \A d : Positions("finished", d)' = Positions("finished", d)
  BY JournalGrows
<1>2. Begun' = Begun \cup {c} /\ Ended' = Ended
  BY <1>1 DEF Begun, Ended
<1>3. \A k \in DOMAIN journal : journal'[k] = journal[k]
  BY JournalGrows
<1>4. \A d : d \in Successful' <=> d \in Successful
  BY <1>1, <1>2, <1>3, SameFinishes
<1> QED
  BY <1>1, <1>2, <1>4

LEMMA EndEntry ==
    ASSUME TransactionType, NEW c \in Steps, NEW o \in Outcomes,
           journal' = Append(journal, FinishEntry(c, o)),
           \A k \in Positions("finished", c) : journal[k].outcome = o
    PROVE  /\ Positions("finished", c)' = Positions("finished", c) \cup {Len(journal) + 1}
           /\ \A d : d # c => Positions("finished", d)' = Positions("finished", d)
           /\ \A d : Positions("started", d)' = Positions("started", d)
           /\ \A k \in Positions("finished", c)' : journal'[k].outcome = o
           /\ Begun' = Begun /\ Ended' = Ended \cup {c}
           /\ Successful \subseteq Successful'
           /\ Successful' = IF Succeeds(o) THEN Successful \cup {c} ELSE Successful
<1>1. PICK e \in Entries : e = FinishEntry(c, o) /\ e.type = "finished" /\ e.step = c /\ e.outcome = o
  BY EntryTypes
<1>2. journal' = Append(journal, e)
  BY <1>1
<1>3. /\ Positions("finished", c)' = Positions("finished", c) \cup {Len(journal) + 1}
      /\ \A d : d # c => Positions("finished", d)' = Positions("finished", d)
      /\ \A d : Positions("started", d)' = Positions("started", d)
  BY <1>1, <1>2, JournalGrows
<1>4. Begun' = Begun /\ Ended' = Ended \cup {c}
  BY <1>3 DEF Begun, Ended
<1>5. /\ \A k \in DOMAIN journal : journal'[k] = journal[k]
      /\ journal'[Len(journal) + 1] = e
  BY <1>2, JournalGrows
<1>6. \A d : \A k \in Positions("finished", d) : journal'[k] = journal[k]
  BY <1>5 DEF Positions
<1>7. \A k \in Positions("finished", c)' : journal'[k].outcome = o
  BY <1>1, <1>3, <1>5, <1>6
<1>8. ASSUME NEW d \in Steps, d # c PROVE d \in Successful' <=> d \in Successful
  BY <1>3, <1>4, <1>5, <1>8, SameFinishes
<1>9. c \in Successful' <=> Succeeds(o)
  <2>1. Positions("finished", c)' # {} /\ c \in Ended'
    BY <1>3, <1>4
  <2> QED
    BY <1>7, <2>1 DEF Successful
<1>10. c \in Successful => Succeeds(o)
  <2>1. c \in Ended => Positions("finished", c) # {}
    BY DEF Ended
  <2> QED
    BY <2>1 DEF Successful
<1>11. Successful \subseteq Steps /\ Successful' \subseteq Steps
  BY DEF Successful, Ended
<1>12. Successful' = IF Succeeds(o) THEN Successful \cup {c} ELSE Successful
  <2>1. CASE Succeeds(o)
    BY <2>1, <1>8, <1>9, <1>10, <1>11
  <2>2. CASE ~Succeeds(o)
    <3>1. \A d \in Steps : d \in Successful' <=> d \in Successful
      BY <2>2, <1>8, <1>9, <1>10
    <3>2. Successful' = Successful
      BY <1>11, <3>1
    <3> QED
      BY <2>2, <3>2
  <2> QED
    BY <2>1, <2>2
<1> QED
  BY <1>3, <1>4, <1>7, <1>12
-----------------------------------------------------------------------------
(* Types, and where a method stands *)

LEMMA OutcomeTypes ==
    /\ \A s \in Statuses, n \in Nat, x \in Payloads :
         /\ Outcome(s, n, x) \in Outcomes /\ Outcome(s, n, x) # NoOutcome
         /\ Outcome(s, n, x).status = s /\ Outcome(s, n, x).head = n /\ Outcome(s, n, x).payload = x
    /\ {"success", "failure"} \subseteq Statuses /\ "invalid" \in Payloads
    /\ \A o \in Outcomes : o.payload = "invalid" => ~Succeeds(o)
<1>1. "none" \notin Statuses /\ {"success", "failure"} \subseteq Statuses /\ "invalid" \in Payloads
  BY DEF Statuses, Payloads
<1> QED
  BY <1>1 DEF Outcome, Outcomes, NoOutcome, Succeeds

RunTypes == [step : Steps \cup {NoCall}, outcome : Outcomes, bind : Nat]

LEMMA RunTypesFacts == NoRun \in RunTypes /\ NoRun.step = NoCall
  BY EntryTypes DEF NoRun, RunTypes

\* What a process does in the orchestrator: where it goes, what it has in hand
\* then, and what becomes of the journal.
LEMMA ChooseEffect ==
    ASSUME TransactionType, NEW p \in Procs, NEW c \in Steps, Choose(p, c)
    PROVE  /\ tpc'[p] = "chosen" /\ run'[p] \in RunTypes /\ run'[p].step = c
           /\ UNCHANGED <<hostVars, journal, receipt, invoked, stops>>
<1>1. /\ Proceed(p, "chosen", [NoRun EXCEPT !.step = c])
      /\ UNCHANGED <<hostVars, journal, receipt, invoked, stops>>
  BY DEF Choose
<1>2. tpc'[p] = "chosen" /\ run'[p] = [NoRun EXCEPT !.step = c]
  BY <1>1, ProceedEffect
<1>3. NoRun \in RunTypes
  BY RunTypesFacts
<1> QED
  BY <1>1, <1>2, <1>3 DEF RunTypes

LEMMA InvokeEffect ==
    ASSUME TransactionType, NEW p \in Procs, NEW s \in {"success", "failure"}, Invoke(p, s)
    PROVE  /\ tpc'[p] = "invoked" /\ run'[p] \in RunTypes
           /\ run'[p].step = run[p].step /\ run'[p].outcome.status = s /\ s \in Statuses
           /\ UNCHANGED <<hostVars, journal, receipt, stops>>
<1>1. PICK o \in Outcomes : o = Outcome(s, 0, "invalid") /\ o.status = s /\ s \in Statuses
  BY OutcomeTypes
<1>2. run[p] \in RunTypes
  BY DEF TransactionType, RunTypes
<1>3. Proceed(p, "invoked", [run[p] EXCEPT !.outcome = o]) /\ UNCHANGED <<hostVars, journal, receipt, stops>>
  BY <1>1 DEF Invoke
<1>4. tpc'[p] = "invoked" /\ run'[p] = [run[p] EXCEPT !.outcome = o]
  BY <1>3, ProceedEffect
<1> QED
  BY <1>1, <1>2, <1>3, <1>4 DEF RunTypes

LEMMA ReceiveEffect ==
    ASSUME TransactionType, HostType, NEW p \in Procs, Nested(p), NEW x \in Payloads, Receive(p, x)
    PROVE  \E o \in Outcomes :
           /\ o.status = run[p].outcome.status /\ o.head = Len(recorder) /\ o # NoOutcome
           /\ tpc'[p] = "outcome" /\ run'[p] \in RunTypes
           /\ run'[p].step = run[p].step /\ run'[p].outcome = o
           /\ receipt' = [receipt EXCEPT ![run[p].step] = o]
           /\ Return(p)
           /\ UNCHANGED <<serial, recorder, sealed, started, finished, journal, invoked, stops>>
<1>1. tpc[p] = "invoked" /\ run[p].outcome.status \in Statuses /\ Len(recorder) \in Nat
  BY DEF Receive, Nested, HostType
<1>2. PICK o \in Outcomes : /\ o = Outcome(run[p].outcome.status, Len(recorder), x)
                            /\ o.status = run[p].outcome.status /\ o.head = Len(recorder) /\ o # NoOutcome
  BY <1>1, OutcomeTypes
<1>3. run[p] \in RunTypes
  BY DEF TransactionType, RunTypes
<1>4. /\ Proceed(p, "outcome", [run[p] EXCEPT !.outcome = o]) /\ Return(p)
      /\ receipt' = [receipt EXCEPT ![run[p].step] = o]
      /\ UNCHANGED <<serial, recorder, sealed, started, finished, journal, invoked, stops>>
  BY <1>2 DEF Receive
<1>5. tpc'[p] = "outcome" /\ run'[p] = [run[p] EXCEPT !.outcome = o]
  BY <1>4, ProceedEffect
<1> QED
  <2>1. run'[p] \in RunTypes /\ run'[p].step = run[p].step /\ run'[p].outcome = o
    BY <1>3, <1>5 DEF RunTypes
  <2> QED
    BY <1>2, <1>4, <1>5, <2>1

\* The outcome of a step whose execution raises is what the recorder says.
LEMMA RaiseEffect ==
    ASSUME TransactionType, HostType, NEW p \in Procs, Nested(p), Raise(p)
    PROVE  \E o \in Outcomes :
           /\ o # NoOutcome /\ ~Succeeds(o)
           /\ o.head # 0 => /\ o.head \in ToolPositions(run[p].step)
                            /\ recorder[o.head].status = o.status
           /\ MayAppend /\ journal' = Append(journal, FinishEntry(run[p].step, o))
           /\ tpc'[p] = "closing" /\ run'[p] \in RunTypes
           /\ run'[p].step = run[p].step /\ run'[p].outcome = o
           /\ Return(p)
           /\ UNCHANGED <<serial, recorder, sealed, started, finished, receipt, invoked, stops>>
<1>1. tpc[p] \in {"begun", "invoked"} /\ run[p].step \in Calls
  BY StepsAreCalls DEF Raise, Nested, Running
<1>2. PICK c : c = run[p].step
  OBVIOUS
<1>3. PICK o : /\ o = IF ToolPositions(c) = {} THEN Outcome("failure", 0, "invalid")
                      ELSE LET k == CHOOSE k \in ToolPositions(c) : TRUE
                           IN Outcome(recorder[k].status, k, "invalid")
               /\ AppendEntry(FinishEntry(c, o))
               /\ Proceed(p, "closing", [run[p] EXCEPT !.outcome = o])
  BY <1>2 DEF Raise
<1>4. /\ o \in Outcomes /\ o # NoOutcome /\ ~Succeeds(o)
      /\ o.head # 0 => o.head \in ToolPositions(c) /\ recorder[o.head].status = o.status
  <2>1. CASE ToolPositions(c) = {}
    BY <1>3, <2>1, OutcomeTypes
  <2>2. CASE ToolPositions(c) # {}
    <3>1. PICK k \in ToolPositions(c) : o = Outcome(recorder[k].status, k, "invalid")
      BY <1>3, <2>2
    <3>2. k \in Nat /\ recorder[k] \in Events /\ recorder[k].type = "tool"
      BY <1>1, <1>2, ToolPositionsIn
    <3>3. recorder[k].status \in Statuses
      BY <3>2, EventTypes
    <3>4. /\ o \in Outcomes /\ o # NoOutcome /\ o.status = recorder[k].status /\ o.head = k
          /\ o.payload = "invalid"
      BY <3>1, <3>2, <3>3, OutcomeTypes
    <3> QED
      BY <3>4, OutcomeTypes
  <2> QED
    BY <2>1, <2>2
<1>5. run[p] \in RunTypes
  BY DEF TransactionType, RunTypes
<1>6. tpc'[p] = "closing" /\ run'[p] = [run[p] EXCEPT !.outcome = o]
  BY <1>3, ProceedEffect
<1>7. /\ Return(p)
      /\ UNCHANGED <<serial, recorder, sealed, started, finished, receipt, invoked, stops>>
  BY DEF Raise
<1>8. run'[p] \in RunTypes /\ run'[p].step = run[p].step /\ run'[p].outcome = o
  BY <1>4, <1>5, <1>6 DEF RunTypes
<1>9. MayAppend /\ journal' = Append(journal, FinishEntry(c, o))
  BY <1>3 DEF AppendEntry
<1> QED
  BY <1>2, <1>4, <1>6, <1>7, <1>8, <1>9
-----------------------------------------------------------------------------
(* What becomes of the journal in a step *)

\* An end of a step, which agrees with the ends it already has
Ends(p, c, o) ==
    /\ c = run[p].step /\ MayAppend
    /\ journal' = Append(journal, FinishEntry(c, o))
    /\ \A k \in Positions("finished", c) : journal[k].outcome = o
    /\ o # NoOutcome /\ receipt[c] \in {NoOutcome, o}
    /\ \/ /\ tpc[p] \in {"begun", "invoked"}
          /\ o.head # 0 => o.head \in ToolPositions(c) /\ recorder[o.head].status = o.status
       \/ tpc[p] = "outcome" /\ receipt[c] = o
    /\ Succeeds(o) => o = receipt[c]
    /\ tpc'[p] = "closing" /\ run'[p].step = c /\ run'[p].outcome = o
    /\ UNCHANGED <<serial, recorder, started, finished, receipt, invoked, stops>>

\* An entry about the transaction as a whole
Marks(p, e) ==
    /\ e \in Entries /\ e.type \in {"halted", "completed", "aborted"}
    /\ MayAppend /\ journal' = Append(journal, e)
    /\ e.type = "completed" => tpc[p] = "completing" /\ e.bind = run[p].bind

LEMMA RaiseEnds ==
    ASSUME IInv, NEW p \in Procs, Raise(p)
    PROVE  \E c \in Steps, o \in Outcomes :
             /\ Ends(p, c, o) /\ run'[p] \in RunTypes /\ Return(p) /\ ~Succeeds(o)
             /\ o.head # 0 => o.head \in ToolPositions(c) /\ recorder[o.head].status = o.status
<1>1. TransactionType /\ HostType /\ Nested(p) /\ ValidInv
  BY DEF IInv, TransactionInv, HostIInv
<1>2. PICK o \in Outcomes :
           /\ o # NoOutcome /\ ~Succeeds(o)
           /\ o.head # 0 => /\ o.head \in ToolPositions(run[p].step)
                            /\ recorder[o.head].status = o.status
           /\ MayAppend /\ journal' = Append(journal, FinishEntry(run[p].step, o))
           /\ tpc'[p] = "closing" /\ run'[p] \in RunTypes
           /\ run'[p].step = run[p].step /\ run'[p].outcome = o
           /\ Return(p)
           /\ UNCHANGED <<serial, recorder, sealed, started, finished, receipt, invoked, stops>>
  BY <1>1, RaiseEffect
<1>3. PICK c : c = run[p].step
  OBVIOUS
<1>4. tpc[p] \in {"begun", "invoked"} /\ c \in Steps
  BY <1>1, <1>3 DEF Raise, Nested, Running
<1>5. c \notin Ended /\ receipt[c] = NoOutcome
  BY <1>1, <1>2, <1>3, <1>4 DEF ValidInv, MayAppend
<1>6. Positions("finished", c) = {}
  BY <1>4, <1>5 DEF Ended
<1>7. Ends(p, c, o)
  BY <1>2, <1>3, <1>4, <1>5, <1>6 DEF Ends
<1> QED
  BY <1>2, <1>3, <1>4, <1>7

LEMMA FinishEnds ==
    ASSUME IInv, NEW p \in Procs, StepFinished(p)
    PROVE  \E c \in Steps, o \in Outcomes :
             /\ Ends(p, c, o) /\ run'[p] = run[p] /\ o = receipt[c]
             /\ UNCHANGED hostVars
<1>1. TransactionType /\ Nested(p) /\ Relies(p) /\ ValidInv
  BY DEF IInv, TransactionInv
<1>2. /\ tpc[p] = "outcome" /\ MayAppend
      /\ journal' = Append(journal, FinishEntry(run[p].step, run[p].outcome))
      /\ Proceed(p, "closing", run[p])
      /\ UNCHANGED <<hostVars, receipt, invoked, stops>>
  BY DEF StepFinished, AppendEntry
<1>3. PICK c, o : c = run[p].step /\ o = run[p].outcome
  OBVIOUS
<1>4. c \in Steps /\ o \in Outcomes /\ o = receipt[c] /\ o # NoOutcome
  BY <1>1, <1>2, <1>3 DEF Nested, Running, Relies, TransactionType
<1>5. \A k \in Positions("finished", c) : journal[k].outcome = o
  BY <1>1, <1>2, <1>4 DEF ValidInv, MayAppend
<1>6. tpc'[p] = "closing" /\ run'[p] = run[p]
  BY <1>1, <1>2, ProceedEffect
<1>7. UNCHANGED <<serial, recorder, started, finished>>
  BY <1>2 DEF hostVars
<1>8. Ends(p, c, o)
  BY <1>2, <1>3, <1>4, <1>5, <1>6, <1>7 DEF Ends
<1> QED
  BY <1>2, <1>4, <1>6, <1>8

LEMMA StartsEffect ==
    ASSUME TransactionType, NEW p \in Procs, Nested(p), StepStarted(p)
    PROVE  /\ run[p].step \in Steps /\ MayAppend
           /\ tpc[p] = "chosen" /\ at[p] = "idle" /\ tpc'[p] = "begun" /\ run'[p] = run[p]
           /\ \E e \in Entries : /\ e.type = "started" /\ e.step = run[p].step
                                 /\ journal' = Append(journal, e)
           /\ UNCHANGED <<hostVars, receipt, invoked, stops>>
<1>1. /\ tpc[p] = "chosen" /\ MayAppend /\ journal' = Append(journal, Entry("started", run[p].step))
      /\ Proceed(p, "begun", run[p]) /\ UNCHANGED <<hostVars, receipt, invoked, stops>>
  BY DEF StepStarted, AppendEntry
<1>2. run[p].step \in Steps /\ at[p] = "idle"
  BY <1>1 DEF Nested, Running
<1>3. tpc'[p] = "begun" /\ run'[p] = run[p]
  BY <1>1, ProceedEffect
<1>4. \E e \in Entries : e.type = "started" /\ e.step = run[p].step /\ e = Entry("started", run[p].step)
  BY <1>2, EntryTypes
<1> QED
  BY <1>1, <1>2, <1>3, <1>4

LEMMA MarksEffect ==
    ASSUME TransactionType, NEW p \in Procs, Nested(p), Halt(p) \/ Complete(p) \/ Abort(p)
    PROVE  /\ \E e : Marks(p, e)
           /\ tpc[p] \in {"closing", "completing", "aborting"} /\ at[p] = "idle"
           /\ tpc'[p] = "idle" /\ run'[p] = NoRun
           /\ UNCHANGED <<hostVars, receipt, invoked, stops>>
<1>1. /\ tpc[p] \in {"closing", "completing", "aborting"} /\ Proceed(p, "idle", NoRun)
      /\ UNCHANGED <<hostVars, receipt, invoked, stops>>
  BY DEF Halt, Complete, Abort
<1>2. tpc'[p] = "idle" /\ run'[p] = NoRun /\ at[p] = "idle"
  BY <1>1, ProceedEffect DEF Nested
<1>3. CASE Halt(p)
  <2>1. run[p].step \in Steps
    BY <1>3 DEF Halt, Nested, Running
  <2>2. PICK e \in Entries : e = Entry("halted", run[p].step) /\ e.type = "halted"
    BY <2>1, EntryTypes
  <2>3. Marks(p, e)
    BY <1>3, <2>2 DEF Halt, AppendEntry, Marks
  <2> QED
    BY <1>1, <1>2, <2>2, <2>3
<1>4. CASE Complete(p)
  <2>1. run[p].bind \in Nat
    BY DEF TransactionType
  <2>2. PICK e \in Entries : e = CompletedEntry(run[p].bind) /\ e.type = "completed" /\ e.bind = run[p].bind
    BY <2>1, EntryTypes
  <2>3. Marks(p, e)
    BY <1>4, <2>2 DEF Complete, AppendEntry, Marks
  <2> QED
    BY <1>1, <1>2, <2>3
<1>5. CASE Abort(p)
  <2>1. PICK e \in Entries : e = Entry("aborted", NoCall) /\ e.type = "aborted"
    BY EntryTypes
  <2>2. Marks(p, e)
    BY <1>5, <2>1 DEF Abort, AppendEntry, Marks
  <2> QED
    BY <1>1, <1>2, <2>1, <2>2
<1> QED
  BY <1>3, <1>4, <1>5

\* The journal stays, or a start, an end or a mark is appended to it.
LEMMA JournalStep ==
    ASSUME IInv, NEW p \in Procs, Action(p)
    PROVE  \/ journal' = journal
           \/ StepStarted(p)
           \/ \E c \in Steps, o \in Outcomes : Ends(p, c, o)
           \/ \E e : Marks(p, e)
<1>1. TransactionType /\ Nested(p)
  BY DEF IInv, TransactionInv
<1>2. CASE Local(p)
  BY <1>2 DEF Local, Choose, Invoke, Summarize, Reconcile, AbortCheck
<1>3. CASE Journals(p)
  <2>1. StepFinished(p) => \E c \in Steps, o \in Outcomes : Ends(p, c, o)
    BY FinishEnds
  <2>2. Halt(p) \/ Complete(p) \/ Abort(p) => \E e : Marks(p, e)
    BY <1>1, MarksEffect
  <2> QED
    BY <1>3, <2>1, <2>2 DEF Journals
<1>4. CASE Hosts(p)
  BY <1>1, <1>4, HostsAct DEF transactionVars
<1>5. CASE Returns(p)
  BY <1>5, RaiseEnds DEF Returns, Receive, TransactionStop
<1> QED
  BY <1>2, <1>3, <1>4, <1>5 DEF Action

\* Nothing that began or succeeded is taken back.
LEMMA JournalKept ==
    ASSUME IInv, NEW p \in Procs, Action(p)
    PROVE  Begun \subseteq Begun' /\ Successful \subseteq Successful' /\ Ended \subseteq Ended'
<1>1. TransactionType /\ Nested(p)
  BY DEF IInv, TransactionInv
<1>2. CASE journal' = journal
  BY <1>2 DEF Begun, Successful, Ended, Positions
<1>3. CASE StepStarted(p)
  BY <1>1, <1>3, StartsEffect, StartEntry
<1>4. ASSUME NEW c \in Steps, NEW o \in Outcomes, Ends(p, c, o)
      PROVE  Begun \subseteq Begun' /\ Successful \subseteq Successful' /\ Ended \subseteq Ended'
  BY <1>1, <1>4, EndEntry DEF Ends
<1>5. ASSUME NEW e, Marks(p, e)
      PROVE  Begun \subseteq Begun' /\ Successful \subseteq Successful' /\ Ended \subseteq Ended'
  BY <1>1, <1>5, OtherEntry DEF Marks
<1> QED
  BY <1>2, <1>3, <1>4, <1>5, JournalStep
-----------------------------------------------------------------------------
(* The steps that touch neither the journal nor, beyond a return, the host *)

LEMMA SummarizeEffect ==
    ASSUME TransactionType, NEW p \in Procs, Summarize(p)
    PROVE  /\ tpc[p] = "closing" /\ run'[p] \in RunTypes
           /\ \/ /\ tpc'[p] = "completing" /\ Successful = Steps
                 /\ run'[p].step = run[p].step /\ run'[p].bind = Len(journal)
              \/ tpc'[p] = "idle"
           /\ UNCHANGED <<hostVars, journal, receipt, invoked, stops>>
<1>1. run[p] \in RunTypes /\ Len(journal) \in Nat
  BY DEF TransactionType, RunTypes
<1>2. tpc[p] = "closing" /\ UNCHANGED <<hostVars, journal, receipt, invoked, stops>>
  BY DEF Summarize
<1>3. CASE Successful = Steps
  <2>1. Proceed(p, "completing", [run[p] EXCEPT !.bind = Len(journal)])
    BY <1>3 DEF Summarize
  <2>2. tpc'[p] = "completing" /\ run'[p] = [run[p] EXCEPT !.bind = Len(journal)]
    BY <2>1, ProceedEffect
  <2>3. run'[p] \in RunTypes /\ run'[p].step = run[p].step /\ run'[p].bind = Len(journal)
    BY <1>1, <2>2 DEF RunTypes
  <2> QED
    BY <1>2, <1>3, <2>2, <2>3
<1>4. CASE Successful # Steps
  <2>1. Proceed(p, "idle", NoRun)
    BY <1>4 DEF Summarize
  <2>2. tpc'[p] = "idle" /\ run'[p] = NoRun
    BY <2>1, ProceedEffect
  <2> QED
    BY <1>2, <2>2, RunTypesFacts
<1> QED
  BY <1>3, <1>4

LEMMA ReconcileEffect ==
    ASSUME TransactionType, NEW p \in Procs, Reconcile(p)
    PROVE  /\ tpc[p] = "idle" /\ at[p] = "idle" /\ tpc'[p] = "outcome" /\ run'[p] \in RunTypes
           /\ run'[p].step \in Steps /\ PendingSteps = {run'[p].step}
           /\ run'[p].outcome = receipt[run'[p].step] /\ receipt[run'[p].step] # NoOutcome
           /\ UNCHANGED <<hostVars, journal, receipt, invoked, stops>>
<1>1. PICK c \in Steps :
         /\ PendingSteps = {c} /\ receipt[c] # NoOutcome
         /\ Proceed(p, "outcome", [NoRun EXCEPT !.step = c, !.outcome = receipt[c]])
  BY DEF Reconcile, Retained
<1>2. tpc[p] = "idle" /\ at[p] = "idle" /\ UNCHANGED <<hostVars, journal, receipt, invoked, stops>>
  BY DEF Reconcile, MayCall
<1>3. tpc'[p] = "outcome" /\ run'[p] = [NoRun EXCEPT !.step = c, !.outcome = receipt[c]]
  BY <1>1, ProceedEffect
<1>4. receipt[c] \in Outcomes
  BY DEF TransactionType
<1>5. run'[p] \in RunTypes /\ run'[p].step = c /\ run'[p].outcome = receipt[c]
  BY <1>3, <1>4, RunTypesFacts DEF RunTypes
<1> QED
  BY <1>1, <1>2, <1>3, <1>5

LEMMA AbortCheckEffect ==
    ASSUME TransactionType, NEW p \in Procs, AbortCheck(p)
    PROVE  /\ tpc[p] = "idle" /\ at[p] = "idle" /\ tpc'[p] = "aborting" /\ run'[p] = NoRun
           /\ PendingSteps = {}
           /\ UNCHANGED <<hostVars, journal, receipt, invoked, stops>>
<1>1. /\ tpc[p] = "idle" /\ at[p] = "idle" /\ Proceed(p, "aborting", NoRun) /\ PendingSteps = {}
      /\ UNCHANGED <<hostVars, journal, receipt, invoked, stops>>
  BY DEF AbortCheck, MayCall
<1> QED
  BY <1>1, ProceedEffect

LEMMA StopEffect ==
    ASSUME TransactionType, NEW p \in Procs, TransactionStop(p)
    PROVE  /\ tpc'[p] = "idle" /\ run'[p] = NoRun /\ Return(p)
           /\ stops < MaxStops /\ stops' = stops + 1
           /\ UNCHANGED <<serial, recorder, sealed, started, finished, journal, receipt, invoked>>
<1>1. /\ Proceed(p, "idle", NoRun) /\ Return(p) /\ stops < MaxStops /\ stops' = stops + 1
      /\ UNCHANGED <<serial, recorder, sealed, started, finished, journal, receipt, invoked>>
  BY DEF TransactionStop
<1> QED
  BY <1>1, ProceedEffect

LEMMA PlacesKept ==
    ASSUME TransactionType, NEW p \in Procs, NEW w \in {"idle", "aborting"} \cup Running, NEW r \in RunTypes,
           Proceed(p, w, r)
    PROVE  tpc' \in [Procs -> {"idle", "aborting"} \cup Running] /\ run' \in [Procs -> RunTypes]
<1>1. tpc \in [Procs -> {"idle", "aborting"} \cup Running] /\ run \in [Procs -> RunTypes]
  BY DEF TransactionType, RunTypes
<1> QED
  BY <1>1 DEF Proceed

\* Proceed is the only way a process moves in the orchestrator.
LEMMA ActionProceeds ==
    ASSUME NEW p \in Procs, Action(p), TransactionType
    PROVE  UNCHANGED <<tpc, run>> \/ Proceed(p, tpc'[p], run'[p])
<1>1. UNCHANGED <<tpc, run>> \/ \E w : \E r : Proceed(p, w, r)
  BY DEF Action, Local, Journals, Hosts, Returns, Choose, Invoke, Summarize, Reconcile, AbortCheck,
         StepStarted, StepFinished, Halt, Complete, Abort, CallStarts, CallFinishes, HostStep, SealSession,
         Receive, Raise, TransactionStop, transactionVars
<1> QED
  BY <1>1, ProceedEffect

LEMMA TransactionTypeStep ==
    ASSUME IInv, NEW p \in Procs, Action(p)
    PROVE  TransactionType'
<1>1. TransactionType /\ HostType /\ Nested(p)
  BY DEF IInv, TransactionInv, HostIInv
<1>2. run[p] \in RunTypes /\ NoRun \in RunTypes
  BY <1>1, RunTypesFacts DEF TransactionType, RunTypes
<1>3. /\ receipt \in [Steps -> Outcomes] /\ invoked \in [Steps -> Nat] /\ stops \in 0 .. MaxStops
      /\ MaxStops \in Nat
  BY <1>1, PlanAssumption DEF TransactionType
<1>4. /\ UNCHANGED <<tpc, run>> \/ (tpc'[p] \in {"idle", "aborting"} \cup Running /\ run'[p] \in RunTypes)
      /\ receipt' \in [Steps -> Outcomes] /\ invoked' \in [Steps -> Nat] /\ stops' \in 0 .. MaxStops
  <2>1. CASE Local(p)
    <3>1. ASSUME NEW c \in Steps, Choose(p, c) PROVE <1>4!:
      BY <1>1, <1>3, <3>1, ChooseEffect DEF Running
    <3>2. ASSUME NEW s \in {"success", "failure"}, Invoke(p, s) PROVE <1>4!:
      <4>1. invoked' = [invoked EXCEPT ![run[p].step] = invoked[run[p].step] + 1] /\ run[p].step \in Steps
        BY <1>1, <3>2 DEF Invoke, Nested, Running
      <4>2. invoked' \in [Steps -> Nat]
        BY <1>3, <4>1
      <4>3. tpc'[p] = "invoked" /\ run'[p] \in RunTypes /\ UNCHANGED <<receipt, stops>>
        BY <1>1, <3>2, InvokeEffect
      <4> QED
        BY <1>3, <4>2, <4>3 DEF Running
    <3>3. CASE Summarize(p)
      BY <1>1, <1>3, <3>3, SummarizeEffect DEF Running
    <3>4. CASE Reconcile(p)
      BY <1>1, <1>3, <3>4, ReconcileEffect DEF Running
    <3>5. CASE AbortCheck(p)
      BY <1>1, <1>2, <1>3, <3>5, AbortCheckEffect DEF Running
    <3> QED
      BY <2>1, <3>1, <3>2, <3>3, <3>4, <3>5 DEF Local
  <2>2. CASE Journals(p)
    <3>1. CASE StepStarted(p)
      BY <1>1, <1>2, <1>3, <3>1, StartsEffect DEF Running
    <3>2. CASE StepFinished(p)
      <4>1. tpc'[p] = "closing" /\ run'[p] = run[p] /\ UNCHANGED <<receipt, invoked, stops>>
        BY <3>2, FinishEnds DEF Ends
      <4> QED
        BY <1>2, <1>3, <4>1 DEF Running
    <3>3. CASE Halt(p) \/ Complete(p) \/ Abort(p)
      BY <1>1, <1>2, <1>3, <3>3, MarksEffect DEF Running
    <3> QED
      BY <2>2, <3>1, <3>2, <3>3 DEF Journals
  <2>3. CASE Hosts(p)
    BY <1>1, <1>3, <2>3, HostsAct DEF transactionVars
  <2>4. CASE Returns(p)
    <3>1. ASSUME NEW x \in Payloads, Receive(p, x) PROVE <1>4!:
      <4>1. PICK o \in Outcomes : /\ tpc'[p] = "outcome" /\ run'[p] \in RunTypes
                                  /\ receipt' = [receipt EXCEPT ![run[p].step] = o]
                                  /\ UNCHANGED <<invoked, stops>>
        BY <1>1, <3>1, ReceiveEffect
      <4> QED
        BY <1>3, <4>1 DEF Running
    <3>2. CASE Raise(p)
      <4>1. tpc'[p] = "closing" /\ run'[p] \in RunTypes /\ UNCHANGED <<receipt, invoked, stops>>
        BY <3>2, RaiseEnds DEF Ends
      <4> QED
        BY <1>3, <4>1 DEF Running
    <3>3. CASE TransactionStop(p)
      <4>1. /\ tpc'[p] = "idle" /\ run'[p] = NoRun /\ UNCHANGED <<receipt, invoked>>
            /\ stops < MaxStops /\ stops' = stops + 1
        BY <1>1, <3>3, StopEffect
      <4> QED
        BY <1>2, <1>3, <4>1
    <3> QED
      BY <2>4, <3>1, <3>2, <3>3 DEF Returns
  <2> QED
    BY <2>1, <2>2, <2>3, <2>4 DEF Action
<1>5. tpc' \in [Procs -> {"idle", "aborting"} \cup Running] /\ run' \in [Procs -> RunTypes]
  <2>1. CASE UNCHANGED <<tpc, run>>
    BY <1>1, <2>1 DEF TransactionType, RunTypes
  <2>2. CASE ~UNCHANGED <<tpc, run>>
    BY <1>1, <1>4, <2>2, ActionProceeds, PlacesKept
  <2> QED
    BY <2>1, <2>2
<1>6. journal' \in Seq(Entries)
  <2>1. CASE journal' = journal
    BY <1>1, <2>1 DEF TransactionType
  <2>2. CASE \E e \in Entries : journal' = Append(journal, e)
    BY <1>1, <2>2, JournalGrows
  <2>3. StepStarted(p) => \E e \in Entries : journal' = Append(journal, e)
    BY <1>1, StartsEffect
  <2>4. (\E c \in Steps, o \in Outcomes : Ends(p, c, o)) => \E e \in Entries : journal' = Append(journal, e)
    BY EntryTypes DEF Ends
  <2>5. (\E e : Marks(p, e)) => \E e \in Entries : journal' = Append(journal, e)
    BY DEF Marks
  <2> QED
    BY <2>1, <2>2, <2>3, <2>4, <2>5, JournalStep
<1> QED
  BY <1>4, <1>5, <1>6 DEF TransactionType, RunTypes
-----------------------------------------------------------------------------
(* Where a method of the orchestrator stands in the host *)

LEMMA HostPlaces ==
    ASSUME HostType, NEW p \in Procs, Nested(p), Hosts(p)
    PROVE  /\ UNCHANGED <<tpc, run, journal, receipt, invoked, stops>>
           /\ \/ tpc[p] = "idle" /\ at'[p] \in {"idle", "visible", "sealing"} /\ started' = started
              \/ /\ tpc[p] = "begun" /\ at'[p] = "starting" /\ job'[p].event.call = run[p].step
                 /\ started' = started
              \/ /\ tpc[p] = "begun" /\ StartAppend(p) /\ at[p] = "starting" /\ at'[p] = "executing"
                 /\ job'[p].event = job[p].event
              \/ /\ tpc[p] = "invoked" /\ at'[p] \in {"finishing", "recorded", "done"}
                 /\ job'[p].event.call = run[p].step
                 /\ job'[p].event.status = run[p].outcome.status /\ started' = started
<1>1. UNCHANGED <<tpc, run, journal, receipt, invoked, stops>>
  BY HostsAct DEF transactionVars
<1>2. CASE CallStarts(p)
  <2>1. tpc[p] = "begun"
    BY <1>2 DEF CallStarts
  <2>2. CASE StartCheck(p, run[p].step)
    <3>1. Goto(p, "starting", ToolEvent(run[p].step, "failure"), Len(recorder)) /\ started' = started
      BY <2>2 DEF StartCheck
    <3>2. at'[p] = "starting" /\ job'[p].event.call = run[p].step
      BY <3>1 DEF Goto, HostType, ToolEvent
    <3> QED
      BY <1>1, <2>1, <3>1, <3>2
  <2>3. CASE StartAppend(p)
    <3>1. at[p] = "starting" /\ Goto(p, "executing", job[p].event, 0)
      BY <2>3 DEF StartAppend
    <3>2. at'[p] = "executing" /\ job'[p].event = job[p].event
      BY <3>1 DEF Goto, HostType
    <3> QED
      BY <1>1, <2>1, <2>3, <3>1, <3>2
  <2> QED
    BY <1>2, <2>2, <2>3 DEF CallStarts
<1>3. CASE CallFinishes(p)
  <2>1. tpc[p] = "invoked"
    BY <1>3 DEF CallFinishes
  <2>2. CASE FinishCheck(p, run[p].step, run[p].outcome.status)
    <3>1. Goto(p, "finishing", ToolEvent(run[p].step, run[p].outcome.status), 0) /\ started' = started
      BY <2>2 DEF FinishCheck
    <3>2. /\ at'[p] = "finishing" /\ job'[p].event.call = run[p].step
          /\ job'[p].event.status = run[p].outcome.status
      BY <3>1 DEF Goto, HostType, ToolEvent
    <3> QED
      BY <1>1, <2>1, <3>1, <3>2
  <2>3. CASE RecordTool(p) \/ TraceFinish(p)
    <3>1. /\ at[p] \in {"finishing", "recorded"} /\ started' = started
          /\ Goto(p, "recorded", job[p].event, 0) \/ Goto(p, "done", job[p].event, 0)
      BY <2>3 DEF RecordTool, TraceFinish
    <3>2. at'[p] \in {"recorded", "done"} /\ job'[p].event = job[p].event
      BY <3>1 DEF Goto, HostType
    <3> QED
      BY <1>1, <2>1, <3>1, <3>2 DEF Nested
  <2> QED
    BY <1>3, <2>2, <2>3 DEF CallFinishes
<1>4. CASE HostStep(p)
  <2>1. tpc[p] = "idle" /\ at[p] \in {"idle", "visible", "sealing"}
    BY <1>4 DEF HostStep, MayCall, Nested
  <2>2. /\ at' = at \/ at' = [at EXCEPT ![p] = "visible"] \/ at' = [at EXCEPT ![p] = "idle"]
        /\ started' = started
    BY <1>4 DEF HostStep, RecordNext, VisibleCheck, VisibleAppend, Recover, Return, Goto
  <2>3. at'[p] \in {"idle", "visible", "sealing"}
    BY <2>1, <2>2 DEF HostType
  <2> QED
    BY <1>1, <2>1, <2>2, <2>3
<1>5. CASE SealSession(p)
  <2>1. tpc[p] = "idle"
    BY <1>5 DEF SealSession, MayCall
  <2>2. /\ at' = [at EXCEPT ![p] = "sealing"] \/ at' = [at EXCEPT ![p] = "idle"]
        /\ started' = started
    BY <1>5 DEF SealSession, SealCheck, SealAppend, Return, Goto
  <2>3. at'[p] \in {"idle", "visible", "sealing"}
    BY <2>2 DEF HostType
  <2> QED
    BY <1>1, <2>1, <2>2, <2>3
<1> QED
  BY <1>2, <1>3, <1>4, <1>5 DEF Hosts

LEMMA NestedStep ==
    ASSUME IInv, NEW p \in Procs, Action(p)
    PROVE  \A q \in Procs : Nested(q)'
<1>1. TransactionType /\ HostType /\ \A q \in Procs : Nested(q)
  BY DEF IInv, TransactionInv, HostIInv
<1>2. ASSUME NEW q \in Procs, q # p PROVE Nested(q)'
  <2>1. tpc'[q] = tpc[q] /\ run'[q] = run[q] /\ at'[q] = at[q] /\ job'[q] = job[q]
    BY <1>2, OthersStay, HostGrows
  <2> QED
    BY <1>1, <2>1 DEF Nested
<1>3. Nested(p)'
  <2>1. CASE Local(p)
    <3>1. UNCHANGED <<at, job>>
      BY <2>1 DEF Local, Choose, Invoke, Summarize, Reconcile, AbortCheck, hostVars
    <3>2. ASSUME NEW c \in Steps, Choose(p, c) PROVE Nested(p)'
      <4>1. at[p] = "idle"
        BY <3>2 DEF Choose
      <4> QED
        BY <1>1, <3>1, <3>2, <4>1, ChooseEffect DEF Nested
    <3>3. ASSUME NEW s \in {"success", "failure"}, Invoke(p, s) PROVE Nested(p)'
      <4>1. tpc[p] = "begun" /\ at[p] = "executing"
        BY <3>3 DEF Invoke
      <4>2. /\ tpc'[p] = "invoked" /\ run'[p].step = run[p].step
            /\ run'[p].outcome.status \in Statuses
        BY <1>1, <3>3, InvokeEffect
      <4>3. run[p].step \in Steps /\ job[p].event.call = run[p].step
        BY <1>1, <4>1 DEF Nested, Running
      <4> QED
        BY <3>1, <4>1, <4>2, <4>3 DEF Nested
    <3>4. CASE Summarize(p)
      <4>1. /\ tpc[p] = "closing"
            /\ tpc'[p] = "idle" \/ (tpc'[p] = "completing" /\ run'[p].step = run[p].step)
        BY <1>1, <3>4, SummarizeEffect
      <4>2. at[p] = "idle" /\ run[p].step \in Steps
        BY <1>1, <4>1 DEF Nested, Running
      <4> QED
        BY <3>1, <4>1, <4>2 DEF Nested, Running
    <3>5. CASE Reconcile(p)
      BY <1>1, <3>1, <3>5, ReconcileEffect DEF Nested
    <3>6. CASE AbortCheck(p)
      BY <1>1, <3>1, <3>6, AbortCheckEffect DEF Nested, Running
    <3> QED
      BY <2>1, <3>2, <3>3, <3>4, <3>5, <3>6 DEF Local
  <2>2. CASE Journals(p)
    <3>1. CASE StepStarted(p)
      BY <1>1, <3>1, StartsEffect DEF Nested, hostVars
    <3>2. CASE StepFinished(p)
      <4>1. tpc'[p] = "closing" /\ run'[p] = run[p] /\ UNCHANGED hostVars /\ tpc[p] = "outcome"
        BY <3>2, FinishEnds DEF Ends, StepFinished
      <4> QED
        BY <1>1, <4>1 DEF Nested, hostVars, Running
    <3>3. CASE Halt(p) \/ Complete(p) \/ Abort(p)
      BY <1>1, <3>3, MarksEffect DEF Nested, hostVars, Running
    <3> QED
      BY <2>2, <3>1, <3>2, <3>3 DEF Journals
  <2>3. CASE Hosts(p)
    <3>1. UNCHANGED <<tpc, run>>
      BY <1>1, <2>3, HostPlaces
    <3>2. CASE tpc[p] = "idle" /\ at'[p] \in {"idle", "visible", "sealing"}
      BY <3>1, <3>2 DEF Nested, Running
    <3>3. CASE tpc[p] = "begun" /\ at'[p] = "starting" /\ job'[p].event.call = run[p].step
      BY <1>1, <3>1, <3>3 DEF Nested, Running
    <3>4. CASE tpc[p] = "begun" /\ at[p] = "starting" /\ at'[p] = "executing" /\ job'[p].event = job[p].event
      BY <1>1, <3>1, <3>4 DEF Nested, Running
    <3>5. CASE /\ tpc[p] = "invoked" /\ at'[p] \in {"finishing", "recorded", "done"}
               /\ job'[p].event.call = run[p].step
               /\ job'[p].event.status = run[p].outcome.status
      BY <1>1, <3>1, <3>5 DEF Nested, Running
    <3> QED
      BY <1>1, <2>3, <3>2, <3>3, <3>4, <3>5, HostPlaces
  <2>4. CASE Returns(p)
    <3>1. at'[p] = "idle"
      <4>1. Return(p)
        BY <2>4 DEF Returns, Receive, Raise, TransactionStop
      <4> QED
        BY <1>1, <4>1, ReturnEffect
    <3>2. ASSUME NEW x \in Payloads, Receive(p, x) PROVE Nested(p)'
      <4>1. tpc'[p] = "outcome" /\ run'[p].step = run[p].step
        BY <1>1, <3>2, ReceiveEffect
      <4>2. run[p].step \in Steps
        BY <1>1, <3>2 DEF Receive, Nested, Running
      <4> QED
        BY <3>1, <4>1, <4>2 DEF Nested
    <3>3. CASE Raise(p)
      <4>1. tpc'[p] = "closing" /\ run'[p].step \in Steps
        BY <3>3, RaiseEnds DEF Ends
      <4> QED
        BY <3>1, <4>1 DEF Nested
    <3>4. CASE TransactionStop(p)
      <4>1. tpc'[p] = "idle"
        BY <1>1, <3>4, StopEffect
      <4> QED
        BY <3>1, <4>1 DEF Nested, Running
    <3> QED
      BY <2>4, <3>2, <3>3, <3>4 DEF Returns
  <2> QED
    BY <2>1, <2>2, <2>3, <2>4 DEF Action
<1> QED
  BY <1>2, <1>3
-----------------------------------------------------------------------------
(* What a running step relies on, and what a call and a receipt stand for *)

LEMMA ReceiptKept ==
    ASSUME IInv, NEW p \in Procs, Action(p)
    PROVE  \/ UNCHANGED receipt
           \/ /\ \E x \in Payloads : Receive(p, x)
              /\ \A c \in Steps : receipt[c] # NoOutcome => receipt'[c] = receipt[c]
<1>1. CASE \E x \in Payloads : Receive(p, x)
  <2>1. TransactionType /\ HostType /\ Nested(p) /\ CallInv
    BY DEF IInv, TransactionInv, HostIInv
  <2>2. PICK o : receipt' = [receipt EXCEPT ![run[p].step] = o]
    BY <1>1, <2>1, ReceiveEffect
  <2>3. Calling(p)
    BY <1>1 DEF Receive, Calling
  <2>4. receipt[run[p].step] = NoOutcome
    BY <2>1, <2>3 DEF CallInv
  <2> QED
    BY <1>1, <2>1, <2>2, <2>4 DEF TransactionType
<1>2. CASE Local(p) \/ Journals(p)
  BY <1>2 DEF Local, Journals, Choose, Invoke, Summarize, Reconcile, AbortCheck,
         StepStarted, StepFinished, Halt, Complete, Abort
<1>3. CASE Hosts(p)
  BY <1>3, HostsAct DEF transactionVars, IInv, TransactionInv
<1>4. CASE Raise(p) \/ TransactionStop(p)
  BY <1>4 DEF Raise, TransactionStop
<1> QED
  BY <1>1, <1>2, <1>3, <1>4 DEF Action, Returns

LEMMA ReliesKept ==
    ASSUME IInv, NEW p \in Procs, Action(p), NEW q \in Procs, tpc'[q] = tpc[q], run'[q] = run[q]
    PROVE  Relies(q)'
<1>1. Relies(q) /\ Nested(q)
  BY DEF IInv, TransactionInv
<1>2. Begun \subseteq Begun' /\ Successful \subseteq Successful'
  BY JournalKept
<1>3. tpc[q] = "outcome" => receipt'[run[q].step] = receipt[run[q].step]
  BY <1>1, ReceiptKept DEF Relies, Nested, Running
<1> QED
  BY <1>1, <1>2, <1>3 DEF Relies

LEMMA ReliesStep ==
    ASSUME IInv, NEW p \in Procs, Action(p)
    PROVE  \A q \in Procs : Relies(q)'
<1>0. TransactionType /\ HostType /\ Nested(p) /\ Relies(p)
  BY DEF IInv, TransactionInv, HostIInv
<1>1. ASSUME NEW q \in Procs, q # p PROVE Relies(q)'
  BY <1>1, OthersStay, ReliesKept
<1>2. Begun \subseteq Begun' /\ Successful \subseteq Successful'
  BY JournalKept
<1>3. Relies(p)'
  <2>1. CASE tpc'[p] \in {"idle", "closing", "completing", "aborting"}
    BY <2>1 DEF Relies
  <2>2. ASSUME NEW c \in Steps, Choose(p, c) PROVE Relies(p)'
    <3>1. Before(c) \subseteq Successful
      BY <2>2 DEF Choose, NextStep
    <3>2. tpc'[p] = "chosen" /\ run'[p].step = c
      BY <1>0, <2>2, ChooseEffect
    <3> QED
      BY <1>2, <3>1, <3>2 DEF Relies
  <2>3. ASSUME NEW s \in {"success", "failure"}, Invoke(p, s) PROVE Relies(p)'
    <3>1. tpc[p] = "begun" /\ tpc'[p] = "invoked" /\ run'[p].step = run[p].step
      BY <1>0, <2>3, InvokeEffect DEF Invoke
    <3> QED
      BY <1>0, <1>2, <3>1 DEF Relies
  <2>4. CASE Reconcile(p)
    <3>1. /\ tpc'[p] = "outcome" /\ run'[p].outcome = receipt[run'[p].step]
          /\ receipt[run'[p].step] # NoOutcome /\ receipt' = receipt
      BY <1>0, <2>4, ReconcileEffect
    <3> QED
      BY <3>1 DEF Relies
  <2>5. CASE StepStarted(p)
    <3>1. tpc[p] = "chosen" /\ tpc'[p] = "begun" /\ run'[p] = run[p] /\ run[p].step \in Begun'
      BY <1>0, <2>5, StartsEffect, StartEntry
    <3> QED
      BY <1>0, <1>2, <3>1 DEF Relies
  <2>6. CASE Hosts(p)
    BY <1>0, <2>6, HostPlaces, ReliesKept
  <2>7. ASSUME NEW x \in Payloads, Receive(p, x) PROVE Relies(p)'
    <3>1. PICK o \in Outcomes : /\ o # NoOutcome /\ tpc'[p] = "outcome" /\ run'[p].outcome = o
                                /\ run'[p].step = run[p].step
                                /\ receipt' = [receipt EXCEPT ![run[p].step] = o]
      BY <1>0, <2>7, ReceiveEffect
    <3>2. run[p].step \in Steps
      BY <1>0, <2>7 DEF Receive, Nested, Running
    <3>3. receipt'[run'[p].step] = o
      BY <1>0, <3>1, <3>2 DEF TransactionType
    <3> QED
      BY <3>1, <3>3 DEF Relies
  <2>8. CASE Summarize(p)
    BY <1>0, <2>1, <2>8, SummarizeEffect
  <2>9. CASE AbortCheck(p)
    BY <1>0, <2>1, <2>9, AbortCheckEffect
  <2>10. CASE StepFinished(p)
    BY <2>1, <2>10, FinishEnds DEF Ends
  <2>11. CASE Halt(p) \/ Complete(p) \/ Abort(p)
    BY <1>0, <2>1, <2>11, MarksEffect
  <2>12. CASE Raise(p)
    BY <2>1, <2>12, RaiseEnds DEF Ends
  <2>13. CASE TransactionStop(p)
    BY <1>0, <2>1, <2>13, StopEffect
  <2> QED
    BY <2>2, <2>3, <2>4, <2>5, <2>6, <2>7, <2>8, <2>9, <2>10, <2>11, <2>12, <2>13
       DEF Action, Local, Journals, Returns
<1> QED
  BY <1>1, <1>3

\* The steps after which a process is the caller of its step: it appended the
\* start record, it called, or it was the caller already.
LEMMA CallingStep ==
    ASSUME IInv, NEW p \in Procs, Action(p)
    PROVE  \/ ~Calling(p)' /\ UNCHANGED invoked
           \/ /\ Calling(p) /\ Calling(p)' /\ UNCHANGED <<tpc, run, receipt, invoked>>
           \/ /\ tpc[p] = "begun" /\ StartAppend(p) /\ run[p].step = job[p].event.call
              /\ UNCHANGED <<tpc, run, receipt, invoked>>
           \/ \E s \in {"success", "failure"} : Invoke(p, s)
<1>0. TransactionType /\ HostType /\ Nested(p)
  BY DEF IInv, TransactionInv, HostIInv
<1>1. ASSUME tpc'[p] \notin {"begun", "invoked"} PROVE ~Calling(p)'
  BY <1>1 DEF Calling
<1>2. ASSUME NEW c \in Steps, Choose(p, c) PROVE ~Calling(p)' /\ UNCHANGED invoked
  BY <1>0, <1>1, <1>2, ChooseEffect
<1>3. CASE Reconcile(p)
  BY <1>0, <1>1, <1>3, ReconcileEffect
<1>4. CASE StepStarted(p)
  <2>1. tpc'[p] = "begun" /\ at'[p] = "idle" /\ UNCHANGED invoked
    BY <1>0, <1>4, StartsEffect DEF hostVars
  <2> QED
    BY <2>1 DEF Calling
<1>5. CASE Hosts(p)
  <2>1. UNCHANGED <<tpc, run, receipt, invoked>>
    BY <1>0, <1>5, HostPlaces
  <2>2. CASE tpc[p] = "idle" \/ (tpc[p] = "begun" /\ at'[p] = "starting")
    BY <2>1, <2>2 DEF Calling
  <2>3. CASE tpc[p] = "begun" /\ StartAppend(p) /\ at[p] = "starting"
    BY <1>0, <2>1, <2>3 DEF Nested
  <2>4. CASE tpc[p] = "invoked"
    BY <2>1, <2>4 DEF Calling
  <2> QED
    BY <1>0, <1>5, <2>2, <2>3, <2>4, HostPlaces
<1>6. ASSUME NEW x \in Payloads, Receive(p, x) PROVE ~Calling(p)' /\ UNCHANGED invoked
  BY <1>0, <1>1, <1>6, ReceiveEffect
<1>7. CASE Summarize(p)
  BY <1>0, <1>1, <1>7, SummarizeEffect
<1>8. CASE AbortCheck(p)
  BY <1>0, <1>1, <1>8, AbortCheckEffect
<1>9. CASE StepFinished(p)
  BY <1>1, <1>9, FinishEnds DEF Ends
<1>10. CASE Halt(p) \/ Complete(p) \/ Abort(p)
  BY <1>0, <1>1, <1>10, MarksEffect
<1>11. CASE Raise(p)
  BY <1>1, <1>11, RaiseEnds DEF Ends
<1>12. CASE TransactionStop(p)
  BY <1>0, <1>1, <1>12, StopEffect
<1> QED
  BY <1>2, <1>3, <1>4, <1>5, <1>6, <1>7, <1>8, <1>9, <1>10, <1>11, <1>12
     DEF Action, Local, Journals, Returns
LEMMA CallInvStep ==
    ASSUME IInv, NEW p \in Procs, Action(p)
    PROVE  CallInv'
<1>0. /\ TransactionType /\ HostType /\ CallInv
      /\ \A q \in Procs : Nested(q)
      /\ \A c \in Steps : Paid(c)
  BY DEF IInv, TransactionInv, HostIInv
<1>1. Started \subseteq Started'
  BY HostGrows
<1>2. \A q \in Procs : Calling(q) => run[q].step \in Steps
  BY <1>0 DEF Nested, Calling, Running
<1>3. ASSUME NEW q \in Procs, q # p, Calling(q)'
      PROVE  /\ Calling(q) /\ run'[q].step = run[q].step
             /\ run'[q].step \in Started' /\ receipt'[run'[q].step] = NoOutcome
             /\ invoked'[run'[q].step] = IF tpc'[q] = "invoked" THEN 1 ELSE 0
  <2>1. tpc'[q] = tpc[q] /\ run'[q] = run[q] /\ at'[q] = at[q]
    BY <1>3, OthersStay, HostGrows
  <2>2. Calling(q)
    BY <1>3, <2>1 DEF Calling
  <2>3. /\ run[q].step \in Started /\ receipt[run[q].step] = NoOutcome
        /\ invoked[run[q].step] = IF tpc[q] = "invoked" THEN 1 ELSE 0
    BY <1>0, <2>2 DEF CallInv
  <2>4. receipt'[run[q].step] = receipt[run[q].step]
    <3>1. CASE UNCHANGED receipt
      BY <3>1
    <3>2. ASSUME NEW x \in Payloads, Receive(p, x) PROVE receipt'[run[q].step] = receipt[run[q].step]
      <4>1. Calling(p)
        BY <3>2 DEF Receive, Calling
      <4>2. run[p].step # run[q].step
        BY <1>0, <1>3, <2>2, <4>1 DEF CallInv
      <4>3. PICK o : receipt' = [receipt EXCEPT ![run[p].step] = o]
        BY <1>0, <3>2, ReceiveEffect
      <4> QED
        BY <1>0, <1>2, <2>2, <4>2, <4>3 DEF TransactionType
    <3> QED
      BY <3>1, <3>2, ReceiptKept
  <2>5. invoked'[run[q].step] = invoked[run[q].step]
    <3>1. CASE UNCHANGED invoked
      BY <3>1
    <3>2. ASSUME NEW s \in {"success", "failure"}, Invoke(p, s) PROVE invoked'[run[q].step] = invoked[run[q].step]
      <4>1. Calling(p) /\ invoked' = [invoked EXCEPT ![run[p].step] = @ + 1]
        BY <3>2 DEF Invoke, Calling
      <4>2. run[p].step # run[q].step
        BY <1>0, <1>3, <2>2, <4>1 DEF CallInv
      <4> QED
        BY <1>0, <1>2, <2>2, <4>1, <4>2 DEF TransactionType
    <3> QED
      BY <3>1, <3>2, CallingStep
  <2> QED
    BY <1>1, <2>1, <2>2, <2>3, <2>4, <2>5
<1>4. ASSUME Calling(p)'
      PROVE  /\ run'[p].step \in Started' /\ receipt'[run'[p].step] = NoOutcome
             /\ invoked'[run'[p].step] = IF tpc'[p] = "invoked" THEN 1 ELSE 0
             /\ \A q \in Procs : Calling(q) /\ q # p => run[q].step # run'[p].step
  <2>1. CASE Calling(p) /\ UNCHANGED <<tpc, run, receipt, invoked>>
    BY <1>0, <1>1, <2>1 DEF CallInv
  <2>2. CASE /\ tpc[p] = "begun" /\ StartAppend(p) /\ run[p].step = job[p].event.call
             /\ UNCHANGED <<tpc, run, receipt, invoked>>
    <3>1. PICK c : c = run[p].step
      OBVIOUS
    <3>2. c \notin Started /\ c \in Started'
      <4>1. Holding(p) /\ \A d \in Calls : Traced(d)
        BY DEF IInv, HostIInv
      <4> QED
        BY <1>0, <2>2, <3>1, <4>1, StartRecorded
    <3>3. c \in Steps
      BY <1>0, <2>2, <3>1 DEF Nested, Running
    <3>4. invoked[c] = 0 /\ receipt[c] = NoOutcome
      BY <1>0, <3>2, <3>3 DEF Paid, TransactionType
    <3>5. \A q \in Procs : Calling(q) => run[q].step # c
      BY <1>0, <3>2 DEF CallInv
    <3> QED
      BY <2>2, <3>1, <3>2, <3>4, <3>5
  <2>3. ASSUME NEW s \in {"success", "failure"}, Invoke(p, s) PROVE <1>4!2
    <3>1. /\ Calling(p) /\ tpc[p] = "begun" /\ invoked' = [invoked EXCEPT ![run[p].step] = @ + 1]
      BY <2>3 DEF Invoke, Calling
    <3>2. tpc'[p] = "invoked" /\ run'[p].step = run[p].step /\ receipt' = receipt
      BY <1>0, <2>3, InvokeEffect
    <3>3. run[p].step \in Started /\ receipt[run[p].step] = NoOutcome /\ invoked[run[p].step] = 0
      BY <1>0, <3>1 DEF CallInv
    <3>4. invoked'[run[p].step] = 1
      BY <1>0, <1>2, <3>1, <3>3 DEF TransactionType
    <3>5. \A q \in Procs : Calling(q) /\ q # p => run[q].step # run[p].step
      BY <1>0, <3>1 DEF CallInv
    <3> QED
      BY <1>1, <3>2, <3>3, <3>4, <3>5
  <2> QED
    BY <1>4, <2>1, <2>2, <2>3, CallingStep
<1>5. \A q, r \in Procs : Calling(q)' /\ Calling(r)' /\ run'[q].step = run'[r].step => q = r
  BY <1>0, <1>3, <1>4 DEF CallInv
<1> QED
  BY <1>3, <1>4, <1>5 DEF CallInv

LEMMA PaidStep ==
    ASSUME IInv, NEW p \in Procs, Action(p)
    PROVE  \A c \in Steps : Paid(c)'
<1> SUFFICES ASSUME NEW c \in Steps PROVE Paid(c)'
  OBVIOUS
<1>0. /\ TransactionType /\ HostType /\ CallInv /\ Nested(p) /\ Relies(p) /\ Paid(c) /\ c \in Calls
  BY StepsAreCalls DEF IInv, TransactionInv, HostIInv
<1>1. /\ Started \subseteq Started' /\ Begun \subseteq Begun' /\ Successful \subseteq Successful'
  BY HostGrows, JournalKept
<1>2. \A k \in ToolPositions(c) : k \in ToolPositions(c)' /\ recorder'[k] = recorder[k]
  <2>1. ToolPositions(c) \subseteq DOMAIN recorder
    BY DEF ToolPositions
  <2> QED
    BY <1>0, <2>1, HostGrows
<1>3. invoked'[c] = invoked[c] \/ (invoked[c] = 0 /\ invoked'[c] = 1 /\ c \in Started /\ Before(c) \subseteq Successful)
  <2>1. CASE UNCHANGED invoked
    BY <2>1
  <2>2. ASSUME NEW s \in {"success", "failure"}, Invoke(p, s) PROVE <1>3!:
    <3>1. Calling(p) /\ tpc[p] = "begun" /\ invoked' = [invoked EXCEPT ![run[p].step] = @ + 1]
      BY <2>2 DEF Invoke, Calling
    <3>2. run[p].step \in Started /\ invoked[run[p].step] = 0 /\ Before(run[p].step) \subseteq Successful
      BY <1>0, <3>1 DEF CallInv, Relies
    <3>3. CASE run[p].step = c
      BY <1>0, <3>1, <3>2, <3>3 DEF TransactionType
    <3>4. CASE run[p].step # c
      BY <1>0, <3>1, <3>4 DEF TransactionType
    <3> QED
      BY <3>3, <3>4
  <2> QED
    BY <2>1, <2>2, CallingStep
<1>4. ASSUME receipt'[c] # NoOutcome
      PROVE  /\ invoked'[c] = 1 /\ c \in Begun'
             /\ \E k \in ToolPositions(c)' : recorder'[k].status = receipt'[c].status
  <2>1. CASE receipt'[c] = receipt[c]
    BY <1>0, <1>1, <1>2, <1>3, <1>4, <2>1 DEF Paid
  <2>2. ASSUME receipt'[c] # receipt[c], NEW x \in Payloads, Receive(p, x) PROVE <1>4!2
    <3>1. PICK o \in Outcomes : /\ receipt' = [receipt EXCEPT ![run[p].step] = o]
                                /\ o.status = run[p].outcome.status
                                /\ UNCHANGED <<recorder, journal, invoked>>
      BY <1>0, <2>2, ReceiveEffect
    <3>2. run[p].step = c /\ receipt'[c] = o
      BY <1>0, <2>2, <3>1 DEF TransactionType
    <3>3. tpc[p] = "invoked" /\ at[p] = "done" /\ Calling(p)
      BY <2>2 DEF Receive, Calling
    <3>4. invoked[c] = 1 /\ c \in Begun
      BY <1>0, <3>2, <3>3 DEF CallInv, Relies
    <3>5. Holding(p)
      BY DEF IInv, HostIInv
    <3>6. PICK k \in DOMAIN recorder : recorder[k] = job[p].event /\ job[p].event.type = "tool"
      BY <3>3, <3>5 DEF Holding, InCall
    <3>7. job[p].event.call = c /\ job[p].event.status = o.status
      BY <1>0, <3>1, <3>2, <3>3 DEF Nested
    <3>8. k \in ToolPositions(c) /\ recorder[k].status = o.status
      BY <3>6, <3>7 DEF ToolPositions
    <3> QED
      BY <1>1, <1>2, <3>1, <3>2, <3>4, <3>8
  <2> QED
    BY <2>1, <2>2, ReceiptKept
<1>5. invoked[c] \in Nat
  BY <1>0 DEF TransactionType
<1>6. invoked'[c] <= 1 /\ (invoked'[c] > 0 => c \in Started' /\ Before(c) \subseteq Successful')
  BY <1>0, <1>1, <1>3, <1>5 DEF Paid
<1> QED
  BY <1>4, <1>6 DEF Paid
-----------------------------------------------------------------------------
(* The ends of a step agree *)

LEMMA AgreedStep ==
    ASSUME IInv, NEW p \in Procs, Action(p)
    PROVE  \A c \in Steps : Agreed(c)'
<1>0. /\ TransactionType /\ HostType /\ Nested(p) /\ \A c \in Steps : Agreed(c)
  BY DEF IInv, TransactionInv, HostIInv
<1>1. ASSUME NEW c \in Steps,
             Positions("finished", c)' = Positions("finished", c),
             \A k \in Positions("finished", c) : journal'[k] = journal[k]
      PROVE  Agreed(c)'
  <2>1. Agreed(c)
    BY <1>0
  <2>2. ASSUME NEW k \in Positions("finished", c), Succeeds(journal[k].outcome)
        PROVE  receipt'[c] = receipt[c]
    <3>1. journal[k].outcome = receipt[c]
      BY <2>1, <2>2 DEF Agreed
    <3>2. receipt[c] # NoOutcome
      BY <2>2, <3>1, EntryTypes
    <3> QED
      BY <3>2, ReceiptKept
  <2> QED
    BY <1>1, <2>1, <2>2 DEF Agreed
<1>2. CASE journal' = journal
  <2>1. \A c : Positions("finished", c)' = Positions("finished", c)
    BY <1>2 DEF Positions
  <2> QED
    BY <1>1, <1>2, <2>1
<1>3. CASE StepStarted(p)
  <2>1. PICK e \in Entries : e.type = "started" /\ e.step = run[p].step /\ journal' = Append(journal, e)
    BY <1>0, <1>3, StartsEffect
  <2>2. run[p].step \in Steps
    BY <1>0, <1>3, StartsEffect
  <2>3. \A d : Positions("finished", d)' = Positions("finished", d)
    BY <1>0, <2>1, <2>2, StartEntry
  <2>4. \A d : \A k \in Positions("finished", d) : journal'[k] = journal[k]
    BY <1>0, <2>1, JournalGrows DEF Positions
  <2> QED
    BY <1>1, <2>3, <2>4
<1>4. ASSUME NEW e, Marks(p, e) PROVE \A c \in Steps : Agreed(c)'
  <2>1. e \in Entries /\ journal' = Append(journal, e) /\ e.type \notin {"started", "finished"}
    BY <1>4 DEF Marks
  <2>2. \A d : Positions("finished", d)' = Positions("finished", d)
    BY <1>0, <2>1, OtherEntry
  <2>3. \A d : \A k \in Positions("finished", d) : journal'[k] = journal[k]
    BY <1>0, <2>1, JournalGrows DEF Positions
  <2> QED
    BY <1>1, <2>2, <2>3
<1>5. ASSUME NEW c \in Steps, NEW o \in Outcomes, Ends(p, c, o) PROVE \A d \in Steps : Agreed(d)'
  <2>1. /\ journal' = Append(journal, FinishEntry(c, o))
        /\ \A k \in Positions("finished", c) : journal[k].outcome = o
        /\ Succeeds(o) => o = receipt[c]
        /\ receipt' = receipt
    BY <1>5 DEF Ends
  <2>2. /\ \A k \in Positions("finished", c)' : journal'[k].outcome = o
        /\ \A d : d # c => Positions("finished", d)' = Positions("finished", d)
    BY <1>0, <2>1, EndEntry
  <2>3. Agreed(c)'
    BY <2>1, <2>2 DEF Agreed
  <2>4. \A d : \A k \in Positions("finished", d) : journal'[k] = journal[k]
    <3>1. \A k \in DOMAIN journal : journal'[k] = journal[k]
      <4>1. FinishEntry(c, o) \in Entries
        BY EntryTypes
      <4> QED
        BY <1>0, <2>1, <4>1, JournalGrows
    <3> QED
      BY <3>1 DEF Positions
  <2>5. ASSUME NEW d \in Steps, d # c PROVE Agreed(d)'
    BY <1>1, <2>2, <2>4, <2>5
  <2> QED
    BY <2>3, <2>5
<1> QED
  BY <1>2, <1>3, <1>4, <1>5, JournalStep

\* A start leaves the journal valid only if it is the first start of its step.
LEMMA FirstStart ==
    ASSUME TransactionType, TransactionType', NEW p \in Procs, Nested(p), StepStarted(p), ValidJournal'
    PROVE  /\ run[p].step \notin Begun /\ run[p].step \notin Ended
<1>1. PICK c : c = run[p].step
  OBVIOUS
<1>2. c \in Steps /\ MayAppend
  BY <1>1, StartsEffect
<1>3. PICK e \in Entries : e.type = "started" /\ e.step = c /\ journal' = Append(journal, e)
  BY <1>1, StartsEffect
<1>4. Positions("started", c)' = Positions("started", c) \cup {Len(journal) + 1}
  BY <1>2, <1>3, StartEntry
<1>5. /\ Len(journal) \in Nat /\ Len(journal') = Len(journal) + 1 /\ DOMAIN journal' = 1 .. Len(journal')
      /\ Positions("started", c) \subseteq 1 .. Len(journal)
  BY <1>3, JournalGrows, PositionsIn
<1>6. Cardinality(Positions("started", c)') <= 1
  BY <1>2 DEF ValidJournal
<1>7. Positions("started", c)' \in SUBSET (1 .. Len(journal')) /\ Len(journal') \in Nat
  BY <1>5 DEF Positions
<1>8. \A i, j \in Positions("started", c)' : i = j
  BY <1>6, <1>7, AtMostOne
<1>9. Positions("started", c) = {}
  BY <1>4, <1>5, <1>8
<1>10. c \notin Begun /\ c \notin Ended
  BY <1>2, <1>9 DEF Begun, ValidJournal, MayAppend, Ended
<1> QED
  BY <1>1, <1>10

\* The processes that run a step: the one that has just started it, or those
\* that did before.
LEMMA RunnersStep ==
    ASSUME IInv, NEW p \in Procs, Action(p), ~StepStarted(p), NEW q \in Procs,
           tpc'[q] \in {"begun", "invoked"}
    PROVE  tpc[q] \in {"begun", "invoked"} /\ run'[q].step = run[q].step
<1>0. TransactionType /\ HostType /\ Nested(p)
  BY DEF IInv, TransactionInv, HostIInv
<1>1. CASE q # p
  BY <1>1, OthersStay
<1>2. CASE q = p
  <2>1. ASSUME NEW c \in Steps, Choose(p, c) PROVE FALSE
    BY <1>0, <1>2, <2>1, ChooseEffect
  <2>2. ASSUME NEW s \in {"success", "failure"}, Invoke(p, s)
        PROVE  tpc[p] \in {"begun", "invoked"} /\ run'[p].step = run[p].step
    BY <1>0, <2>2, InvokeEffect DEF Invoke
  <2>3. CASE Hosts(p)
    BY <1>0, <1>2, <2>3, HostPlaces
  <2>4. CASE Reconcile(p)
    BY <1>0, <1>2, <2>4, ReconcileEffect
  <2>5. ASSUME NEW x \in Payloads, Receive(p, x) PROVE FALSE
    BY <1>0, <1>2, <2>5, ReceiveEffect
  <2>6. CASE Summarize(p)
    BY <1>0, <1>2, <2>6, SummarizeEffect
  <2>7. CASE AbortCheck(p)
    BY <1>0, <1>2, <2>7, AbortCheckEffect
  <2>8. CASE StepFinished(p)
    BY <1>2, <2>8, FinishEnds DEF Ends
  <2>9. CASE Halt(p) \/ Complete(p) \/ Abort(p)
    BY <1>0, <1>2, <2>9, MarksEffect
  <2>10. CASE Raise(p)
    BY <1>2, <2>10, RaiseEnds DEF Ends
  <2>11. CASE TransactionStop(p)
    BY <1>0, <1>2, <2>11, StopEffect
  <2> QED
    BY <1>2, <2>1, <2>2, <2>3, <2>4, <2>5, <2>6, <2>7, <2>8, <2>9, <2>10, <2>11
       DEF Action, Local, Journals, Returns
<1> QED
  BY <1>1, <1>2
\* The receipt of a step other than the one a process has just received stays.
LEMMA OtherReceipts ==
    ASSUME IInv, NEW p \in Procs, Action(p), NEW d \in Steps
    PROVE  \/ receipt'[d] = receipt[d]
           \/ run[p].step = d /\ tpc[p] = "invoked" /\ tpc'[p] = "outcome" /\ journal' = journal
<1>1. CASE UNCHANGED receipt
  BY <1>1
<1>2. ASSUME NEW x \in Payloads, Receive(p, x)
      PROVE  \/ receipt'[d] = receipt[d]
             \/ run[p].step = d /\ tpc[p] = "invoked" /\ tpc'[p] = "outcome" /\ journal' = journal
  <2>1. TransactionType /\ HostType /\ Nested(p)
    BY DEF IInv, TransactionInv, HostIInv
  <2>2. PICK o : /\ receipt' = [receipt EXCEPT ![run[p].step] = o]
                 /\ tpc'[p] = "outcome" /\ journal' = journal
    BY <1>2, <2>1, ReceiveEffect
  <2>3. tpc[p] = "invoked"
    BY <1>2 DEF Receive
  <2> QED
    BY <2>1, <2>2, <2>3 DEF TransactionType
<1> QED
  BY <1>1, <1>2, ReceiptKept

LEMMA ValidStep ==
    ASSUME IInv, TransactionType', NEW p \in Procs, Action(p)
    PROVE  ValidInv'
<1> SUFFICES ASSUME ValidJournal' PROVE ValidInv'
  BY DEF ValidInv
<1>0. /\ TransactionType /\ HostType /\ ValidInv
      /\ \A q \in Procs : Nested(q) /\ Relies(q)
      /\ \A c \in Steps : Paid(c)
  BY DEF IInv, TransactionInv, HostIInv
<1>1. ValidJournal
  <2>1. CASE journal' = journal
    BY <2>1 DEF ValidJournal, Positions, PendingSteps, Begun, Ended
  <2>2. CASE MayAppend
    BY <2>2 DEF MayAppend
  <2>3. StepStarted(p) => MayAppend
    BY <1>0, StartsEffect
  <2> QED
    BY <2>1, <2>2, <2>3, JournalStep DEF Ends, Marks
<1>2. /\ \A c \in Steps : \A k \in Positions("finished", c) : receipt[c] \in {NoOutcome, journal[k].outcome}
      /\ \A q \in Procs : tpc[q] \in {"begun", "invoked"} =>
           run[q].step \in Steps /\ run[q].step \notin Ended /\ receipt[run[q].step] = NoOutcome
      /\ \A q, r \in Procs : tpc[q] \in {"begun", "invoked"} /\ tpc[r] \in {"begun", "invoked"}
                             /\ run[q].step = run[r].step => q = r
  BY <1>0, <1>1 DEF ValidInv, Nested, Running
<1>3. \A c : \A k \in Positions("finished", c) : k \in DOMAIN journal
  BY DEF Positions
<1>4. ASSUME NEW c \in Steps, NEW k \in Positions("finished", c)'
      PROVE  receipt'[c] \in {NoOutcome, journal'[k].outcome}
  <2>1. ASSUME k \in Positions("finished", c), journal'[k] = journal[k] PROVE receipt'[c] \in {NoOutcome, journal'[k].outcome}
    <3>1. CASE receipt'[c] = receipt[c]
      BY <1>2, <2>1, <3>1
    <3>2. CASE run[p].step = c /\ tpc[p] = "invoked"
      <4>1. c \notin Ended
        BY <1>2, <3>2
      <4> QED
        BY <2>1, <4>1 DEF Ended
    <3> QED
      BY <3>1, <3>2, OtherReceipts
  <2>2. CASE journal' = journal
    <3>1. k \in Positions("finished", c)
      BY <2>2 DEF Positions
    <3> QED
      BY <2>1, <2>2, <3>1
  <2>3. CASE StepStarted(p)
    <3>1. PICK e \in Entries : e.type = "started" /\ e.step = run[p].step /\ journal' = Append(journal, e)
      BY <1>0, <2>3, StartsEffect
    <3>2. k \in Positions("finished", c)
      BY <1>0, <2>3, <3>1, StartsEffect, StartEntry
    <3>3. journal'[k] = journal[k]
      BY <1>0, <1>3, <3>1, <3>2, JournalGrows
    <3> QED
      BY <2>1, <3>2, <3>3
  <2>4. ASSUME NEW e, Marks(p, e) PROVE receipt'[c] \in {NoOutcome, journal'[k].outcome}
    <3>1. e \in Entries /\ journal' = Append(journal, e) /\ e.type \notin {"started", "finished"}
      BY <2>4 DEF Marks
    <3>2. k \in Positions("finished", c)
      BY <1>0, <3>1, OtherEntry
    <3>3. journal'[k] = journal[k]
      BY <1>0, <1>3, <3>1, <3>2, JournalGrows
    <3> QED
      BY <2>1, <3>2, <3>3
  <2>5. ASSUME NEW d \in Steps, NEW o \in Outcomes, Ends(p, d, o) PROVE receipt'[c] \in {NoOutcome, journal'[k].outcome}
    <3>1. /\ journal' = Append(journal, FinishEntry(d, o)) /\ receipt' = receipt
          /\ \A i \in Positions("finished", d) : journal[i].outcome = o
          /\ receipt[d] \in {NoOutcome, o}
      BY <2>5 DEF Ends
    <3>2. /\ \A i \in Positions("finished", d)' : journal'[i].outcome = o
          /\ \A b : b # d => Positions("finished", b)' = Positions("finished", b)
      BY <1>0, <3>1, EndEntry
    <3>3. CASE c = d
      BY <3>1, <3>2, <3>3
    <3>4. CASE c # d
      <4>1. k \in Positions("finished", c) /\ k \in DOMAIN journal
        BY <1>3, <3>2, <3>4
      <4>2. FinishEntry(d, o) \in Entries
        BY EntryTypes
      <4>3. journal'[k] = journal[k]
        BY <1>0, <3>1, <4>1, <4>2, JournalGrows
      <4> QED
        BY <2>1, <4>1, <4>3
    <3> QED
      BY <3>3, <3>4
  <2> QED
    BY <2>2, <2>3, <2>4, <2>5, JournalStep
<1>5. CASE StepStarted(p)
  <2>1. PICK c : c = run[p].step
    OBVIOUS
  <2>2. c \in Steps /\ c \notin Begun /\ c \notin Ended
    BY <1>0, <1>5, <2>1, FirstStart, StartsEffect
  <2>3. receipt' = receipt /\ run'[p] = run[p] /\ Ended' = Ended
    BY <1>0, <1>5, StartsEffect, StartEntry
  <2>4. receipt[c] = NoOutcome
    BY <1>0, <2>2 DEF Paid
  <2>5. \A q \in Procs : q # p => tpc'[q] = tpc[q] /\ run'[q] = run[q]
    BY OthersStay
  <2>6. \A q \in Procs : tpc[q] \in {"begun", "invoked"} => run[q].step # c
    BY <1>0, <2>2 DEF Relies
  <2>7. ASSUME NEW q \in Procs, tpc'[q] \in {"begun", "invoked"}
        PROVE  run'[q].step \notin Ended' /\ receipt'[run'[q].step] = NoOutcome
    <3>1. CASE q = p
      BY <2>1, <2>2, <2>3, <2>4, <3>1
    <3>2. CASE q # p
      BY <1>2, <2>3, <2>5, <2>7, <3>2
    <3> QED
      BY <3>1, <3>2
  <2>8. ASSUME NEW q \in Procs, NEW r \in Procs, tpc'[q] \in {"begun", "invoked"},
               tpc'[r] \in {"begun", "invoked"}, run'[q].step = run'[r].step
        PROVE  q = r
    BY <1>2, <2>1, <2>3, <2>5, <2>6, <2>8
  <2> QED
    BY <1>4, <2>7, <2>8 DEF ValidInv
<1>6. CASE ~StepStarted(p)
  <2>1. ASSUME NEW q \in Procs, tpc'[q] \in {"begun", "invoked"}
        PROVE  run'[q].step \notin Ended' /\ receipt'[run'[q].step] = NoOutcome
    <3>1. tpc[q] \in {"begun", "invoked"} /\ run'[q].step = run[q].step
      BY <1>6, <2>1, RunnersStep
    <3>2. PICK d : d = run[q].step
      OBVIOUS
    <3>3. d \in Steps /\ d \notin Ended /\ receipt[d] = NoOutcome
      BY <1>2, <3>1, <3>2
    <3>4. receipt'[d] = NoOutcome
      <4>1. CASE receipt'[d] = receipt[d]
        BY <3>3, <4>1
      <4>2. CASE run[p].step = d /\ tpc[p] = "invoked" /\ tpc'[p] = "outcome"
        BY <1>2, <2>1, <3>1, <3>2, <4>2
      <4> QED
        BY <3>3, <4>1, <4>2, OtherReceipts
    <3>5. d \notin Ended'
      <4>1. CASE journal' = journal
        BY <3>3, <4>1 DEF Ended, Positions
      <4>2. ASSUME NEW e, Marks(p, e) PROVE d \notin Ended'
        <5>1. e \in Entries /\ journal' = Append(journal, e) /\ e.type \notin {"started", "finished"}
          BY <4>2 DEF Marks
        <5> QED
          BY <1>0, <3>3, <5>1, OtherEntry
      <4>3. ASSUME NEW c \in Steps, NEW o \in Outcomes, Ends(p, c, o) PROVE d \notin Ended'
        <5>1. Ended' = Ended \cup {c}
          BY <1>0, <4>3, EndEntry DEF Ends
        <5>2. /\ c = run[p].step /\ tpc'[p] = "closing" /\ o # NoOutcome
              /\ tpc[p] \in {"begun", "invoked"} \/ receipt[c] = o
          BY <4>3 DEF Ends
        <5>3. q # p
          BY <2>1, <5>2
        <5>4. d # c
          BY <1>2, <3>1, <3>2, <3>3, <5>2, <5>3
        <5> QED
          BY <3>3, <5>1, <5>4
      <4> QED
        BY <1>6, <4>1, <4>2, <4>3, JournalStep
    <3> QED
      BY <3>1, <3>2, <3>4, <3>5
  <2>2. ASSUME NEW q \in Procs, NEW r \in Procs, tpc'[q] \in {"begun", "invoked"},
               tpc'[r] \in {"begun", "invoked"}, run'[q].step = run'[r].step
        PROVE  q = r
    BY <1>2, <1>6, <2>2, RunnersStep
  <2> QED
    BY <1>4, <2>1, <2>2 DEF ValidInv
<1> QED
  BY <1>5, <1>6
-----------------------------------------------------------------------------
(* A serial host *)

\* An outcome with a head is the one the recorder holds there.
PointsAt(c, o) ==
    o.head # 0 => ToolPositions(c) = {o.head} /\ recorder[o.head].status = o.status

\* What Verifies says of the journal alone
JournalHonest ==
    /\ ValidJournal
    /\ \A c \in Begun : Before(c) \subseteq Begun
    /\ Has("completed") => Successful = Steps /\ journal[Len(journal)].bind = Len(journal) - 1

LEMMA VerifiesParts ==
    Verifies <=> /\ HostVerifies /\ JournalHonest
                 /\ \A c \in Ended : \A k \in Positions("finished", c) : PointsAt(c, journal[k].outcome)
  BY DEF Verifies, JournalHonest, PointsAt

\* The recorder keeps an outcome where it is.
LEMMA PointsAtKept ==
    ASSUME IInv, NEW p \in Procs, Action(p), NEW c \in Steps, NEW h, ToolPositions(c) = {h}
    PROVE  ToolPositions(c)' = {h} /\ recorder'[h] = recorder[h]
<1>1. c \in Calls
  BY StepsAreCalls
<1>2. h \in DOMAIN recorder
  BY DEF ToolPositions
<1>3. h \in ToolPositions(c)' /\ recorder'[h] = recorder[h]
  BY <1>1, <1>2, HostGrows
<1>4. \A i, j \in ToolPositions(c)' : i = j
  BY <1>1, HostInvKept DEF HostIInv, Traced
<1> QED
  BY <1>3, <1>4

\* In a serial host a method runs while nobody else is in one.
LEMMA OthersIdle ==
    ASSUME IInv, serial, NEW p \in Procs, Action(p), NEW q \in Procs, q # p
    PROVE  tpc[q] = "idle" /\ at[q] = "idle" /\ tpc'[q] = "idle" /\ at'[q] = "idle"
<1>1. CASE tpc[p] # "idle" \/ at[p] # "idle"
  BY <1>1, OthersStay, HostGrows DEF IInv, TransactionInv, SerialRun
<1>2. CASE MayCall(p)
  BY <1>2, OthersStay, HostGrows DEF MayCall
<1>3. MayCall(p) \/ tpc[p] # "idle" \/ at[p] # "idle"
  BY DEF Action, Local, Journals, Hosts, Returns, Choose, Invoke, Summarize, Reconcile, AbortCheck,
         StepStarted, StepFinished, Halt, Complete, Abort, CallStarts, CallFinishes, HostStep, SealSession,
         Receive, Raise, TransactionStop
<1> QED
  BY <1>1, <1>2, <1>3

LEMMA SameJournal ==
    ASSUME journal' = journal
    PROVE  /\ Begun' = Begun /\ Ended' = Ended /\ PendingSteps' = PendingSteps /\ Successful' = Successful
           /\ JournalHonest' <=> JournalHonest
           /\ \A t, c : Positions(t, c)' = Positions(t, c)
<1>1. /\ \A t, c : Positions(t, c)' = Positions(t, c)
      /\ \A t : Has(t)' <=> Has(t)
  BY DEF Positions, Has
<1>2. Begun' = Begun /\ Ended' = Ended
  BY <1>1 DEF Begun, Ended
<1>3. PendingSteps' = PendingSteps /\ Successful' = Successful
  BY <1>1, <1>2 DEF PendingSteps, Successful
<1>4. ValidJournal' <=> ValidJournal
  BY <1>1, <1>2, <1>3 DEF ValidJournal
<1> QED
  BY <1>1, <1>2, <1>3, <1>4 DEF JournalHonest

\* An entry that is not the last word leaves no last word in the journal.
LEMMA NotTheLastWord ==
    ASSUME TransactionType, NEW e \in Entries, journal' = Append(journal, e), ~Terminal,
           e.type \notin {"completed", "aborted"}
    PROVE  /\ \A k \in DOMAIN journal' : journal'[k].type \notin {"completed", "aborted"}
           /\ ~Has("completed")'
<1>1. ~Has("completed")' /\ ~Has("aborted")'
  BY JournalGrows DEF Terminal
<1> QED
  BY <1>1 DEF Has

LEMMA EndedBegun ==
    ASSUME ValidJournal PROVE Ended \subseteq Begun /\ Successful \subseteq Ended
<1>1. ASSUME NEW c \in Ended PROVE c \in Begun
  <2>1. c \in Steps /\ Positions("finished", c) # {}
    BY DEF Ended
  <2>2. Positions("started", c) # {}
    BY <2>1 DEF ValidJournal
  <2> QED
    BY <2>1, <2>2 DEF Begun
<1> QED
  BY <1>1 DEF Successful

LEMMA SinglePosition ==
    ASSUME NEW S, NEW x, S = {} \cup {x} \/ S = {x}
    PROVE  Cardinality(S) <= 1
<1>1. S = {x}
  OBVIOUS
<1>2. Cardinality({x}) = 1
  BY FS_Singleton
<1> QED
  BY <1>1, <1>2

\* The start of a step that has none, in a journal without pending steps
LEMMA HonestStart ==
    ASSUME TransactionType, JournalHonest, ~Terminal, NEW c \in Steps, c \notin Begun,
           Before(c) \subseteq Successful, PendingSteps = {},
           NEW e \in Entries, e.type = "started", e.step = c, journal' = Append(journal, e)
    PROVE  JournalHonest' /\ PendingSteps' = {c}
<1>1. /\ Positions("started", c)' = Positions("started", c) \cup {Len(journal) + 1}
      /\ \A d : d # c => Positions("started", d)' = Positions("started", d)
      /\ \A d : Positions("finished", d)' = Positions("finished", d)
      /\ Begun' = Begun \cup {c} /\ Ended' = Ended /\ Successful' = Successful
  BY StartEntry
<1>2. Positions("started", c) = {}
  BY DEF Begun
<1>3. Ended \subseteq Begun /\ Successful \subseteq Ended
  BY EndedBegun DEF JournalHonest
<1>4. PendingSteps' = {c}
  BY <1>1, <1>3 DEF PendingSteps
<1>5. Cardinality(Positions("started", c)') <= 1
  BY <1>1, <1>2, SinglePosition
<1>6. \A d \in Steps : Cardinality(Positions("started", d)') <= 1 /\ Cardinality(Positions("finished", d)') <= 1
  BY <1>1, <1>5 DEF JournalHonest, ValidJournal
<1>7. \A d \in Ended' : \A k \in Positions("finished", d)' : \E i \in Positions("started", d)' : i < k
  <2> SUFFICES ASSUME NEW d \in Ended, NEW k \in Positions("finished", d)
               PROVE  \E i \in Positions("started", d)' : i < k
    BY <1>1
  <2>1. PICK i \in Positions("started", d) : i < k
    BY DEF JournalHonest, ValidJournal
  <2>2. i \in Positions("started", d)'
    BY <1>1, <1>2
  <2> QED
    BY <2>1, <2>2
<1>8. (\A k \in DOMAIN journal' : journal'[k].type \notin {"completed", "aborted"}) /\ ~Has("completed")'
  BY NotTheLastWord
<1>9. ValidJournal'
  BY <1>6, <1>7, <1>8 DEF ValidJournal
<1>10. \A d \in Begun' : Before(d) \subseteq Begun'
  BY <1>1, <1>3 DEF JournalHonest
<1> QED
  BY <1>4, <1>8, <1>9, <1>10 DEF JournalHonest

\* The end of the one pending step
LEMMA HonestEnd ==
    ASSUME TransactionType, JournalHonest, ~Terminal, NEW c \in Steps, PendingSteps = {c},
           NEW o \in Outcomes, journal' = Append(journal, FinishEntry(c, o))
    PROVE  /\ JournalHonest' /\ PendingSteps' = {}
           /\ Positions("finished", c)' = {Len(journal) + 1}
           /\ journal'[Len(journal) + 1].outcome = o
<1>1. c \in Begun /\ c \notin Ended
  BY DEF PendingSteps
<1>2. Positions("finished", c) = {}
  BY <1>1 DEF Ended
<1>3. /\ Positions("finished", c)' = Positions("finished", c) \cup {Len(journal) + 1}
      /\ \A d : d # c => Positions("finished", d)' = Positions("finished", d)
      /\ \A d : Positions("started", d)' = Positions("started", d)
      /\ \A k \in Positions("finished", c)' : journal'[k].outcome = o
      /\ Begun' = Begun /\ Ended' = Ended \cup {c}
  BY <1>2, EndEntry
<1>4. PendingSteps' = {}
  BY <1>3 DEF PendingSteps
<1>5. Positions("finished", c)' = {Len(journal) + 1} /\ journal'[Len(journal) + 1].outcome = o
  BY <1>2, <1>3
<1>6. Cardinality(Positions("finished", c)') <= 1
  BY <1>5, SinglePosition
<1>7. \A d \in Steps : Cardinality(Positions("started", d)') <= 1 /\ Cardinality(Positions("finished", d)') <= 1
  BY <1>3, <1>6 DEF JournalHonest, ValidJournal
<1>8. ASSUME NEW d \in Ended', NEW k \in Positions("finished", d)'
      PROVE  \E i \in Positions("started", d)' : i < k
  <2>1. CASE d # c
    BY <1>3, <1>8, <2>1 DEF JournalHonest, ValidJournal
  <2>2. CASE d = c
    <3>1. PICK i : i \in Positions("started", c)
      BY <1>1 DEF Begun
    <3>2. i \in 1 .. Len(journal) /\ Len(journal) \in Nat
      BY <3>1, PositionsIn
    <3>3. k = Len(journal) + 1
      BY <1>5, <2>2
    <3>4. i < k
      BY <3>2, <3>3
    <3> QED
      BY <1>3, <2>2, <3>1, <3>4
  <2> QED
    BY <2>1, <2>2
<1>9. (\A k \in DOMAIN journal' : journal'[k].type \notin {"completed", "aborted"}) /\ ~Has("completed")'
  <2>1. PICK e \in Entries : e = FinishEntry(c, o) /\ e.type = "finished"
    BY EntryTypes
  <2> QED
    BY <2>1, NotTheLastWord
<1>10. ValidJournal'
  BY <1>7, <1>8, <1>9 DEF ValidJournal
<1> QED
  BY <1>3, <1>4, <1>5, <1>9, <1>10 DEF JournalHonest

\* A halt, a completion or an abort in a journal without pending steps
LEMMA HonestMark ==
    ASSUME TransactionType, JournalHonest, PendingSteps = {}, NEW p, NEW e, Marks(p, e),
           e.type = "completed" => Successful = Steps /\ e.bind = Len(journal)
    PROVE  JournalHonest'
<1>1. /\ e \in Entries /\ e.type \in {"halted", "completed", "aborted"} /\ ~Terminal
      /\ journal' = Append(journal, e)
  BY DEF Marks, MayAppend
<1>2. /\ \A c : Positions("started", c)' = Positions("started", c)
      /\ \A c : Positions("finished", c)' = Positions("finished", c)
      /\ Begun' = Begun /\ Ended' = Ended /\ PendingSteps' = PendingSteps /\ Successful' = Successful
  BY <1>1, OtherEntry
<1>3. /\ Len(journal) \in Nat /\ Len(journal') = Len(journal) + 1 /\ journal'[Len(journal) + 1] = e
      /\ DOMAIN journal = 1 .. Len(journal) /\ DOMAIN journal' = 1 .. Len(journal) + 1
      /\ \A k \in DOMAIN journal : journal'[k] = journal[k]
      /\ Has("completed")' <=> (Has("completed") \/ e.type = "completed")
  BY <1>1, JournalGrows
<1>4. ASSUME NEW k \in DOMAIN journal', journal'[k].type \in {"completed", "aborted"}
      PROVE  k = Len(journal')
  <2>1. \A i \in DOMAIN journal : journal[i].type \notin {"completed", "aborted"}
    BY <1>1 DEF Terminal, Has
  <2>2. k \notin DOMAIN journal
    BY <1>3, <1>4, <2>1
  <2> QED
    BY <1>3, <2>2
<1>5. ValidJournal'
  BY <1>2, <1>4 DEF JournalHonest, ValidJournal
<1>6. Has("completed")' => Successful' = Steps /\ journal'[Len(journal')].bind = Len(journal') - 1
  <2>1. ~Has("completed")
    BY <1>1 DEF Terminal
  <2> QED
    BY <1>2, <1>3, <2>1
<1> QED
  BY <1>2, <1>5, <1>6 DEF JournalHonest

\* A receipt of a serial host agrees with the recorder, when it is written and
\* ever after.
LEMMA RetainedStep ==
    ASSUME IInv, serial, NEW p \in Procs, Action(p), NEW c \in Steps, receipt'[c] # NoOutcome
    PROVE  Retained(c)'
<1>1. CASE receipt'[c] = receipt[c]
  <2>1. PICK h : h = receipt[c].head
    OBVIOUS
  <2>2. ToolPositions(c) = {h} /\ recorder[h].status = receipt[c].status
    BY <1>1, <2>1 DEF IInv, TransactionInv, SerialRun, Retained
  <2>3. ToolPositions(c)' = {h} /\ recorder'[h] = recorder[h]
    BY <2>2, PointsAtKept
  <2> QED
    BY <1>1, <2>1, <2>2, <2>3 DEF Retained
<1>2. ASSUME NEW x \in Payloads, Receive(p, x), receipt'[c] # receipt[c] PROVE Retained(c)'
  <2>1. TransactionType /\ HostType /\ Nested(p) /\ Holding(p) /\ Undisturbed(p)
    BY DEF IInv, TransactionInv, HostIInv, SerialInv
  <2>2. tpc[p] = "invoked" /\ at[p] = "done"
    BY <1>2 DEF Receive
  <2>3. PICK o : /\ o.status = run[p].outcome.status /\ o.head = Len(recorder)
                 /\ receipt' = [receipt EXCEPT ![run[p].step] = o] /\ recorder' = recorder
    BY <1>2, <2>1, ReceiveEffect
  <2>4. c = run[p].step /\ receipt'[c] = o
    BY <1>2, <2>1, <2>3 DEF TransactionType
  <2>5. /\ Len(recorder) > 0 /\ recorder[Len(recorder)] = job[p].event
        /\ job[p].event.type = "tool" /\ job[p].event.call = c /\ job[p].event.status = o.status
    BY <2>1, <2>2, <2>3, <2>4 DEF Undisturbed, Holding, Nested, InCall
  <2>6. Len(recorder) \in DOMAIN recorder
    BY <2>1, <2>5 DEF HostType
  <2>7. Len(recorder) \in ToolPositions(c)
    BY <2>5, <2>6 DEF ToolPositions
  <2>8. \A i, j \in ToolPositions(c) : i = j
    BY StepsAreCalls DEF IInv, HostIInv, Traced
  <2>9. ToolPositions(c) = {Len(recorder)}
    BY <2>7, <2>8
  <2>10. ToolPositions(c)' = {Len(recorder)}
    BY <2>3, <2>9 DEF ToolPositions
  <2> QED
    BY <1>2, <2>3, <2>4, <2>5, <2>10 DEF Retained
<1> QED
  BY <1>1, <1>2, ReceiptKept

\* The finishes point at the recorder's events, the last one too.
LEMMA PointsStep ==
    ASSUME IInv, serial, NEW p \in Procs, Action(p), NEW c \in Steps, NEW k \in Positions("finished", c)'
    PROVE  PointsAt(c, journal[k].outcome)'
<1>0. TransactionType /\ HostType /\ Nested(p)
  BY DEF IInv, TransactionInv, HostIInv
<1>1. ASSUME k \in Positions("finished", c), journal'[k] = journal[k]
      PROVE  PointsAt(c, journal[k].outcome)'
  <2>1. c \in Ended
    BY <1>1 DEF Ended
  <2>2. PICK h : h = journal[k].outcome.head
    OBVIOUS
  <2>3. h # 0 => ToolPositions(c) = {h} /\ recorder[h].status = journal[k].outcome.status
    BY <1>1, <2>1, <2>2 DEF IInv, TransactionInv, SerialRun, Verifies
  <2>4. h # 0 => ToolPositions(c)' = {h} /\ recorder'[h] = recorder[h]
    BY <2>3, PointsAtKept
  <2> QED
    BY <1>1, <2>2, <2>3, <2>4 DEF PointsAt
<1>2. k \in Positions("finished", c) => k \in DOMAIN journal
  BY DEF Positions
<1>3. CASE journal' = journal
  BY <1>1, <1>3, SameJournal
<1>4. CASE StepStarted(p)
  <2>1. PICK e \in Entries : e.type = "started" /\ e.step = run[p].step /\ journal' = Append(journal, e)
    BY <1>0, <1>4, StartsEffect
  <2>2. k \in Positions("finished", c)
    BY <1>0, <1>4, <2>1, StartsEffect, StartEntry
  <2> QED
    BY <1>0, <1>1, <1>2, <2>1, <2>2, JournalGrows
<1>5. ASSUME NEW e, Marks(p, e) PROVE PointsAt(c, journal[k].outcome)'
  <2>1. e \in Entries /\ journal' = Append(journal, e) /\ e.type \notin {"started", "finished"}
    BY <1>5 DEF Marks
  <2>2. k \in Positions("finished", c)
    BY <1>0, <2>1, OtherEntry
  <2> QED
    BY <1>0, <1>1, <1>2, <2>1, <2>2, JournalGrows
<1>6. ASSUME NEW d \in Steps, NEW o \in Outcomes, Ends(p, d, o) PROVE PointsAt(c, journal[k].outcome)'
  <2>1. /\ journal' = Append(journal, FinishEntry(d, o)) /\ recorder' = recorder
        /\ \A i \in Positions("finished", d) : journal[i].outcome = o
    BY <1>6 DEF Ends
  <2>2. /\ \A i \in Positions("finished", d)' : journal'[i].outcome = o
        /\ \A b : b # d => Positions("finished", b)' = Positions("finished", b)
    BY <1>0, <2>1, EndEntry
  <2>3. CASE c # d
    <3>1. FinishEntry(d, o) \in Entries
      BY EntryTypes
    <3> QED
      BY <1>0, <1>1, <1>2, <2>1, <2>2, <2>3, <3>1, JournalGrows
  <2>4. CASE c = d
    <3>1. journal'[k].outcome = o
      BY <2>2, <2>4
    <3>2. \A i, j \in ToolPositions(c) : i = j
      BY StepsAreCalls DEF IInv, HostIInv, Traced
    <3>3. o.head # 0 => o.head \in ToolPositions(c) /\ recorder[o.head].status = o.status
      <4>1. CASE receipt[c] = o /\ o # NoOutcome
        BY <4>1 DEF IInv, TransactionInv, SerialRun, Retained
      <4> QED
        BY <1>6, <2>4, <4>1 DEF Ends
    <3>4. ToolPositions(c)' = ToolPositions(c)
      BY <2>1 DEF ToolPositions
    <3>5. o.head # 0 => ToolPositions(c)' = {o.head} /\ recorder'[o.head].status = o.status
      BY <2>1, <3>2, <3>3, <3>4
    <3> QED
      BY <3>1, <3>5 DEF PointsAt
  <2> QED
    BY <2>3, <2>4
<1> QED
  BY <1>3, <1>4, <1>5, <1>6, JournalStep

\* The journal of a serial host stays honest, and the process that runs a step
\* knows which steps are pending.
LEMMA AloneStep ==
    ASSUME IInv, serial, NEW p \in Procs, Action(p)
    PROVE  JournalHonest' /\ Alone(p)'
<1>0. /\ TransactionType /\ HostType /\ Nested(p) /\ Alone(p) /\ JournalHonest /\ Relies(p)
  BY VerifiesParts DEF IInv, TransactionInv, HostIInv, SerialRun
<1> USE DEF Alone
<1>1. ASSUME NEW c \in Steps, Choose(p, c) PROVE JournalHonest' /\ Alone(p)'
  <2>1. tpc'[p] = "chosen" /\ run'[p].step = c /\ journal' = journal
    BY <1>0, <1>1, ChooseEffect
  <2>2. PendingSteps = {} /\ Ended \subseteq Successful /\ c \notin Successful
    BY <1>1 DEF Choose, NextStep
  <2>3. c \notin Begun
    BY <2>2 DEF PendingSteps
  <2> QED
    BY <1>0, <2>1, <2>2, <2>3, SameJournal
<1>2. ASSUME NEW s \in {"success", "failure"}, Invoke(p, s) PROVE JournalHonest' /\ Alone(p)'
  <2>1. tpc'[p] = "invoked" /\ run'[p].step = run[p].step /\ journal' = journal
    BY <1>0, <1>2, InvokeEffect
  <2>2. tpc[p] = "begun"
    BY <1>2 DEF Invoke
  <2> QED
    BY <1>0, <2>1, <2>2, SameJournal
<1>3. CASE Summarize(p)
  <2>1. /\ tpc[p] = "closing" /\ journal' = journal
        /\ \/ tpc'[p] = "completing" /\ Successful = Steps /\ run'[p].bind = Len(journal)
           \/ tpc'[p] = "idle"
    BY <1>0, <1>3, SummarizeEffect
  <2> QED
    BY <1>0, <2>1, SameJournal
<1>4. CASE Reconcile(p)
  <2>1. tpc'[p] = "outcome" /\ PendingSteps = {run'[p].step} /\ journal' = journal
    BY <1>0, <1>4, ReconcileEffect
  <2> QED
    BY <1>0, <2>1, SameJournal
<1>5. CASE AbortCheck(p)
  <2>1. tpc'[p] = "aborting" /\ PendingSteps = {} /\ journal' = journal
    BY <1>0, <1>5, AbortCheckEffect
  <2> QED
    BY <1>0, <2>1, SameJournal
<1>6. CASE StepStarted(p)
  <2>1. /\ run[p].step \in Steps /\ MayAppend /\ tpc[p] = "chosen" /\ tpc'[p] = "begun" /\ run'[p] = run[p]
    BY <1>0, <1>6, StartsEffect
  <2>2. PICK e \in Entries : e.type = "started" /\ e.step = run[p].step /\ journal' = Append(journal, e)
    BY <1>0, <1>6, StartsEffect
  <2>3. JournalHonest' /\ PendingSteps' = {run[p].step}
    BY <1>0, <2>1, <2>2, HonestStart DEF Relies, MayAppend
  <2> QED
    BY <2>1, <2>3
<1>7. ASSUME NEW c \in Steps, NEW o \in Outcomes, Ends(p, c, o) PROVE JournalHonest' /\ Alone(p)'
  <2>1. /\ c = run[p].step /\ ~Terminal /\ journal' = Append(journal, FinishEntry(c, o))
        /\ tpc[p] \in {"begun", "invoked", "outcome"} /\ tpc'[p] = "closing"
    BY <1>7 DEF Ends, MayAppend
  <2>2. JournalHonest' /\ PendingSteps' = {}
    BY <1>0, <2>1, HonestEnd
  <2> QED
    BY <2>1, <2>2
<1>8. CASE Halt(p) \/ Complete(p) \/ Abort(p)
  <2>1. tpc[p] \in {"closing", "completing", "aborting"} /\ tpc'[p] = "idle"
    BY <1>0, <1>8, MarksEffect
  <2>2. PICK e : Marks(p, e)
    BY <1>0, <1>8, MarksEffect
  <2>3. e.type = "completed" => Successful = Steps /\ e.bind = Len(journal)
    BY <1>0, <2>2 DEF Marks
  <2>4. JournalHonest'
    BY <1>0, <2>1, <2>2, <2>3, HonestMark
  <2> QED
    BY <2>1, <2>4
<1>9. CASE Hosts(p)
  <2>1. UNCHANGED <<tpc, run, journal>>
    BY <1>0, <1>9, HostPlaces
  <2> QED
    BY <1>0, <2>1, SameJournal
<1>10. ASSUME NEW x \in Payloads, Receive(p, x) PROVE JournalHonest' /\ Alone(p)'
  <2>1. tpc'[p] = "outcome" /\ run'[p].step = run[p].step /\ journal' = journal
    BY <1>0, <1>10, ReceiveEffect
  <2>2. tpc[p] = "invoked"
    BY <1>10 DEF Receive
  <2> QED
    BY <1>0, <2>1, <2>2, SameJournal
<1>11. CASE TransactionStop(p)
  <2>1. tpc'[p] = "idle" /\ journal' = journal
    BY <1>0, <1>11, StopEffect
  <2> QED
    BY <1>0, <2>1, SameJournal
<1>12. CASE StepFinished(p)
  <2>1. PICK c \in Steps, o \in Outcomes : Ends(p, c, o)
    BY <1>12, FinishEnds
  <2> QED
    BY <1>7, <2>1
<1>13. CASE Raise(p)
  <2>1. PICK c \in Steps, o \in Outcomes : Ends(p, c, o)
    BY <1>13, RaiseEnds
  <2> QED
    BY <1>7, <2>1
<1> QED
  BY <1>1, <1>2, <1>3, <1>4, <1>5, <1>6, <1>8, <1>9, <1>10, <1>11, <1>12, <1>13
     DEF Action, Local, Journals, Returns

LEMMA SerialRunStep ==
    ASSUME IInv, NEW p \in Procs, Action(p)
    PROVE  SerialRun'
<1>1. serial' = serial
  BY HostGrows
<1> SUFFICES ASSUME serial
             PROVE  /\ \A q, r \in Procs : /\ tpc'[q] # "idle" \/ at'[q] # "idle"
                                           /\ tpc'[r] # "idle" \/ at'[r] # "idle"
                                           => q = r
                    /\ \A q \in Procs : Alone(q)'
                    /\ \A c \in Steps : receipt'[c] # NoOutcome => Retained(c)'
                    /\ Verifies'
  BY <1>1 DEF SerialRun
<1>2. \A q \in Procs : q # p => tpc'[q] = "idle" /\ at'[q] = "idle"
  BY OthersIdle
<1>3. JournalHonest' /\ Alone(p)'
  BY AloneStep
<1>4. \A q \in Procs : Alone(q)'
  BY <1>2, <1>3 DEF Alone
<1>5. HostVerifies'
  BY <1>1, HostInvKept DEF HostIInv, SerialInv
<1>6. \A c \in Steps : \A k \in Positions("finished", c)' : PointsAt(c, journal[k].outcome)'
  BY PointsStep
<1>7. Ended' \subseteq Steps
  BY DEF Ended
<1>8. Verifies'
  BY <1>3, <1>5, <1>6, <1>7 DEF Verifies, JournalHonest, PointsAt
<1> QED
  BY <1>2, <1>4, <1>8, RetainedStep
-----------------------------------------------------------------------------
(* The theorems about the transaction *)

LEMMA Inductive ==
    ASSUME IInv, [Next]_vars
    PROVE  IInv'
<1>1. CASE Next
  <2>1. PICK p \in Procs : Action(p)
    BY <1>1, NextCases
  <2>2. HostIInv'
    BY <2>1, HostInvKept
  <2>3. TransactionType'
    BY <2>1, TransactionTypeStep
  <2>4. CallInv'
    BY <2>1, CallInvStep
  <2>5. ValidInv'
    BY <2>1, <2>3, ValidStep
  <2>6. SerialRun'
    BY <2>1, SerialRunStep
  <2>7. \A q \in Procs : Nested(q)' /\ Relies(q)'
    BY <2>1, NestedStep, ReliesStep
  <2>8. \A c \in Steps : Paid(c)' /\ Agreed(c)'
    BY <2>1, PaidStep, AgreedStep
  <2> QED
    BY <2>2, <2>3, <2>4, <2>5, <2>6, <2>7, <2>8 DEF IInv, TransactionInv
<1>2. CASE UNCHANGED vars
  <2>1. UNCHANGED <<serial, recorder, sealed, started, finished, at, job, journal, tpc, run, receipt,
                    invoked, stops>>
    BY <1>2 DEF vars, hostVars
  <2>2. HostIInv'
    BY <2>1, HostInductive DEF IInv, hostVars
  <2>3. /\ Begun' = Begun /\ Ended' = Ended /\ PendingSteps' = PendingSteps /\ Successful' = Successful
        /\ (JournalHonest' <=> JournalHonest) /\ \A t, c : Positions(t, c)' = Positions(t, c)
    BY <2>1, SameJournal
  <2>4. /\ Started' = Started /\ \A c : ToolPositions(c)' = ToolPositions(c)
    BY <2>1 DEF Started, ToolPositions
  <2>5. (HostVerifies' <=> HostVerifies) /\ (ValidJournal' <=> ValidJournal) /\ (Verifies' <=> Verifies)
    <3>1. HostVerifies' <=> HostVerifies
      BY <2>1, <2>4 DEF HostVerifies, Correlated, Finished
    <3>2. ValidJournal' <=> ValidJournal
      BY <2>1, <2>3 DEF ValidJournal
    <3>3. \A c, k : PointsAt(c, journal[k].outcome)' <=> PointsAt(c, journal[k].outcome)
      BY <2>1, <2>4 DEF PointsAt
    <3>4. Verifies' <=> /\ HostVerifies' /\ JournalHonest'
                        /\ \A c \in Ended' : \A k \in Positions("finished", c)' : PointsAt(c, journal[k].outcome)'
      BY DEF Verifies, JournalHonest, PointsAt
    <3> QED
      BY <2>3, <3>1, <3>2, <3>3, <3>4, VerifiesParts
  <2>6. TransactionType'
    BY <2>1 DEF IInv, TransactionInv, TransactionType
  <2>7. CallInv' /\ ValidInv'
    BY <2>1, <2>3, <2>4, <2>5 DEF IInv, TransactionInv, CallInv, Calling, ValidInv
  <2>8. SerialRun'
    BY <2>1, <2>3, <2>4, <2>5 DEF IInv, TransactionInv, SerialRun, Alone, Retained
  <2>9. \A q \in Procs : Nested(q)' /\ Relies(q)'
    BY <2>1, <2>3 DEF IInv, TransactionInv, Nested, Relies
  <2>10. \A c \in Steps : Paid(c)' /\ Agreed(c)'
    BY <2>1, <2>3, <2>4 DEF IInv, TransactionInv, Paid, Agreed
  <2> QED
    BY <2>2, <2>6, <2>7, <2>8, <2>9, <2>10 DEF IInv, TransactionInv
<1> QED
  BY <1>1, <1>2

LEMMA Initially ==
    ASSUME TransactionInit
    PROVE  IInv
<1>1. /\ HostInit /\ journal = <<>> /\ tpc = [p \in Procs |-> "idle"] /\ run = [p \in Procs |-> NoRun]
      /\ receipt = [c \in Steps |-> NoOutcome] /\ invoked = [c \in Steps |-> 0] /\ stops = 0
  BY DEF TransactionInit
<1>2. HostIInv
  BY <1>1, HostInitially
<1>3. NoRun \in RunTypes /\ NoOutcome \in Outcomes /\ MaxStops \in Nat
  BY RunTypesFacts, EntryTypes, PlanAssumption
<1>4. DOMAIN journal = {} /\ Len(journal) = 0
  BY <1>1
<1>5. /\ \A t, c : Positions(t, c) = {}
      /\ \A t : ~Has(t)
  BY <1>4 DEF Positions, Has
<1>6. Begun = {} /\ Ended = {} /\ PendingSteps = {}
  BY <1>5 DEF Begun, Ended, PendingSteps
<1>7. TransactionType
  <2>1. journal \in Seq(Entries)
    BY <1>1
  <2>2. run \in [Procs -> RunTypes] /\ receipt \in [Steps -> Outcomes] /\ invoked \in [Steps -> Nat]
    BY <1>1, <1>3
  <2>3. stops \in 0 .. MaxStops /\ tpc \in [Procs -> {"idle", "aborting"} \cup Running]
    BY <1>1, <1>3
  <2> QED
    BY <2>1, <2>2, <2>3 DEF TransactionType, RunTypes
<1>8. /\ \A p \in Procs : tpc[p] = "idle" /\ at[p] = "idle"
      /\ \A c \in Steps : receipt[c] = NoOutcome /\ invoked[c] = 0
  BY <1>1 DEF HostInit
<1>9. CallInv /\ ValidInv
  BY <1>5, <1>8 DEF CallInv, Calling, ValidInv
<1>10. \A p \in Procs : Nested(p) /\ Relies(p)
  BY <1>8 DEF Nested, Relies, Running
<1>11. \A c \in Steps : Paid(c) /\ Agreed(c)
  BY <1>5, <1>8 DEF Paid, Agreed
<1>12. SerialRun
  <2> SUFFICES ASSUME serial PROVE SerialRun
    BY DEF SerialRun
  <2>1. HostVerifies
    BY <1>2 DEF HostIInv, SerialInv
  <2>2. \A c \in Steps : Cardinality(Positions("started", c)) <= 1 /\ Cardinality(Positions("finished", c)) <= 1
    <3>1. Cardinality({}) = 0
      BY FS_EmptySet
    <3> QED
      BY <1>5, <3>1
  <2>3. ValidJournal
    BY <1>4, <1>6, <2>2 DEF ValidJournal
  <2>4. JournalHonest
    BY <1>5, <1>6, <2>3 DEF JournalHonest
  <2>5. Verifies
    BY <1>6, <2>1, <2>4, VerifiesParts
  <2> QED
    BY <1>8, <2>5 DEF SerialRun, Alone
<1> QED
  BY <1>2, <1>7, <1>9, <1>10, <1>11, <1>12 DEF IInv, TransactionInv

LEMMA Implies ==
    ASSUME IInv
    PROVE  TransactionTypeOK /\ CalledOnceInPlanOrder /\ CheckpointsHonest
<1>1. TransactionType /\ HostIInv /\ SerialRun /\ \A c \in Steps : Paid(c) /\ Agreed(c)
  BY DEF IInv, TransactionInv
<1>2. CalledOnceInPlanOrder
  BY <1>1 DEF Paid, CalledOnceInPlanOrder
<1>3. ASSUME NEW c \in Successful
      PROVE  invoked[c] = 1 /\ \E k \in ToolPositions(c) : recorder[k].status = "success"
  <2>1. PICK k \in Positions("finished", c) : c \in Steps /\ Succeeds(journal[k].outcome)
    BY DEF Successful, Ended
  <2>2. journal[k].outcome = receipt[c] /\ Succeeds(receipt[c])
    BY <1>1, <2>1 DEF Agreed
  <2>3. receipt[c] # NoOutcome /\ receipt[c].status = "success"
    BY <2>2, EntryTypes DEF Succeeds
  <2> QED
    BY <1>1, <2>1, <2>3 DEF Paid
<1>4. CheckpointsHonest
  BY <1>1, <1>3 DEF CheckpointsHonest, SerialRun
<1>5. TransactionTypeOK
  <2>1. HostTypeOK
    BY <1>1, HostImplies
  <2>2. \A k \in DOMAIN journal : journal[k] \in Entries
    BY <1>1, PositionsIn
  <2>3. \A k \in DOMAIN journal :
          /\ journal[k] \in [type : {"started", "finished", "halted", "completed", "aborted"},
                             step : Steps \cup {NoCall}, bind : Nat, outcome : Outcomes]
          /\ journal[k].type \in {"started", "finished", "halted"} => journal[k].step \in Steps
    BY <2>2 DEF Entries
  <2>4. tpc \in [Procs -> {"idle", "chosen", "begun", "invoked", "outcome", "closing", "completing",
                          "aborting"}]
    BY <1>1 DEF TransactionType, Running
  <2>5. /\ \A p \in Procs : run[p].step \in Steps \cup {NoCall} /\ run[p].bind \in Nat
        /\ invoked \in [Steps -> Nat] /\ stops \in 0 .. MaxStops
    BY <1>1 DEF TransactionType
  <2> QED
    BY <2>1, <2>3, <2>4, <2>5 DEF TransactionTypeOK, Outcomes
<1> QED
  BY <1>2, <1>4, <1>5
\* HostIInv and TransactionInv together hold in every state: where each method
\* of the orchestrator stands in the host's, what a call, a receipt and a
\* journal entry stand for, and what a serial host may rely on.
THEOREM Invariance == Spec => []IInv
<1>1. TransactionInit => IInv
  BY Initially
<1>2. IInv /\ [Next]_vars => IInv'
  BY Inductive
<1> QED
  BY <1>1, <1>2, PTL DEF Spec

\* The orchestrator uses the host only as its methods allow: every behaviour of
\* the transaction, its stops included, is one of the host below it, so that
\* what is proved of the host holds under the transaction.
THEOREM RunsOnTheHost == Spec => HostSpec
<1>1. TransactionInit => HostInit
  BY DEF TransactionInit
<1>2. IInv /\ [Next]_vars => [HostNext]_hostVars
  <2>1. ASSUME IInv, Next PROVE [HostNext]_hostVars
    BY <2>1, NextCases, StepOfHost, HostActionNext
  <2>2. UNCHANGED vars => UNCHANGED hostVars
    BY DEF vars
  <2> QED
    BY <2>1, <2>2
<1> QED
  BY <1>1, <1>2, Invariance, PTL DEF Spec, HostSpec

\* The journal, the places of the processes and what they hold keep their types:
\* every start, finish and halt names a step of the plan.
THEOREM TypeCorrect == Spec => []TransactionTypeOK
  BY Invariance, Implies, PTL

\* CalledOnceInPlanOrder for every plan, number of processes and bound on the
\* stops: run_next and reconcile_pending never call GitHub twice for a step, nor
\* before every earlier step has its successful finish.
THEOREM NeverReplayed == Spec => []CalledOnceInPlanOrder
  BY Invariance, Implies, PTL

\* CheckpointsHonest: a successful checkpoint stands for a call whose success
\* the recorder holds, and in a serial host the three files verify wherever a
\* process stops.
THEOREM CheckpointsTell == Spec => []CheckpointsHonest
  BY Invariance, Implies, PTL

==============================================================================
