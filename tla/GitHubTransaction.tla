--------------------------- MODULE GitHubTransaction ---------------------------
(***************************************************************************)
(* sdk/liminal_github_transaction: an immutable plan of GitHub operations   *)
(* run step by step against a third append-only journal, above the bridge,  *)
(* the host trace and the recorder of HostTrace.                            *)
(*                                                                         *)
(* run_next verifies and chooses a step from what it has read, and appends  *)
(* later; an append validates what the file holds and not the event it      *)
(* adds.  Processes may stop anywhere.  A step's call id is its own.        *)
(***************************************************************************)
EXTENDS HostTrace, Integers

CONSTANTS
    Plan,       \* the steps, as a sequence of call ids
    Gates,      \* gate_step_ids of every step
    MaxStops    \* bound: processes that stop before their method is over

ASSUME PlanAssumption ==
    /\ Plan \in Seq(Calls)
    /\ \A i, j \in DOMAIN Plan : Plan[i] = Plan[j] => i = j
    /\ \A i \in DOMAIN Plan : Gates[Plan[i]] \subseteq {Plan[j] : j \in 1 .. i - 1}
    /\ MaxStops \in Nat

Steps == {Plan[i] : i \in DOMAIN Plan}
Before(c) == {Plan[j] : j \in {j \in DOMAIN Plan : \E i \in DOMAIN Plan : Plan[i] = c /\ j < i}}

VARIABLES
    journal,    \* the entries after transaction_created
    tpc,        \* where each process is in a method of the orchestrator
    run,        \* the step it runs and the outcome it has in hand
    receipt,    \* the connected receipt of a step, kept by the host
    invoked,    \* history variable: connector invocations of each step
    stops

transactionVars == <<serial, journal, tpc, run, receipt, stops>>
vars == <<hostVars, journal, tpc, run, receipt, invoked, stops>>

\* What the response's payload is to the step: its declared exports are there
\* and its expectations met, or not met, or an export is missing.
Payloads == {"met", "unmet", "invalid"}

\* head = 0 stands for recorder_head_sha256 = None
Outcome(s, h, payload) == [status |-> s, head |-> h, payload |-> payload]
NoOutcome == Outcome("none", 0, "invalid")
NoRun == [step |-> NoCall, outcome |-> NoOutcome, bind |-> 0]

Entry(type, c) == [type |-> type, step |-> c, outcome |-> NoOutcome, bind |-> 0]
FinishEntry(c, o) == [Entry("finished", c) EXCEPT !.outcome = o]
CompletedEntry(n) == [Entry("completed", NoCall) EXCEPT !.bind = n]

Positions(type, c) == {k \in DOMAIN journal : journal[k].type = type /\ journal[k].step = c}
Has(type) == \E k \in DOMAIN journal : journal[k].type = type

\* TransactionJournal.summary
Begun == {c \in Steps : Positions("started", c) # {}}
Ended == {c \in Steps : Positions("finished", c) # {}}
PendingSteps == Begun \ Ended
Succeeds(o) == o.status = "success" /\ o.payload = "met"
Successful == {c \in Ended : \A k \in Positions("finished", c) : Succeeds(journal[k].outcome)}
Terminal == Has("completed") \/ Has("aborted")

\* validate_journal
ValidJournal ==
    /\ \A c \in Steps : Cardinality(Positions("started", c)) <= 1 /\ Cardinality(Positions("finished", c)) <= 1
    /\ \A c \in Ended : \A k \in Positions("finished", c) : \E i \in Positions("started", c) : i < k
    /\ \A k \in DOMAIN journal : journal[k].type \in {"completed", "aborted"} =>
           /\ k = Len(journal)
           /\ PendingSteps = {}

\* verify(allow_pending=True) does not raise: the journal agrees with the
\* recorder, starts are a prefix of the plan, and a completion is honest.
Verifies ==
    /\ HostVerifies
    /\ ValidJournal
    /\ \A c \in Begun : Before(c) \subseteq Begun
    /\ \A c \in Ended : \A k \in Positions("finished", c) :
           journal[k].outcome.head # 0 =>
               /\ ToolPositions(c) = {journal[k].outcome.head}
               /\ recorder[journal[k].outcome.head].status = journal[k].outcome.status
    /\ Has("completed") => Successful = Steps /\ journal[Len(journal)].bind = Len(journal) - 1

TransactionTypeOK ==
    /\ HostTypeOK
    /\ \A k \in DOMAIN journal : journal[k] \in
           [type : {"started", "finished", "halted", "completed", "aborted"},
            step : Steps \cup {NoCall}, bind : Nat,
            outcome : [status : Statuses \cup {"none"}, head : Nat, payload : Payloads]]
    /\ \A k \in DOMAIN journal : journal[k].type \in {"started", "finished", "halted"} => journal[k].step \in Steps
    /\ tpc \in [Procs -> {"idle", "chosen", "begun", "invoked", "outcome", "closing",
                          "completing", "aborting"}]
    /\ \A p \in Procs : run[p].step \in Steps \cup {NoCall} /\ run[p].bind \in Nat
    /\ invoked \in [Steps -> Nat] /\ stops \in 0 .. MaxStops

TransactionInit ==
    /\ HostInit
    /\ journal = <<>>
    /\ tpc = [p \in Procs |-> "idle"]
    /\ run = [p \in Procs |-> NoRun]
    /\ receipt = [c \in Steps |-> NoOutcome]
    /\ invoked = [c \in Steps |-> 0]
    /\ stops = 0

Proceed(p, where, r) ==
    /\ tpc' = [tpc EXCEPT ![p] = where]
    /\ run' = [run EXCEPT ![p] = r]

\* TransactionJournal.append: the file must be valid and not terminal.
MayAppend == ValidJournal /\ ~Terminal
AppendEntry(e) == MayAppend /\ journal' = Append(journal, e)

\* In a serial host a method begins when no other process is inside one.
MayCall(p) ==
    /\ tpc[p] = "idle"
    /\ serial => \A q \in Procs \ {p} : tpc[q] = "idle" /\ at[q] = "idle"

\* The method raises, or its process dies.
TransactionStop(p) ==
    /\ tpc[p] # "idle" \/ at[p] # "idle"
    /\ stops < MaxStops
    /\ stops' = stops + 1
    /\ Proceed(p, "idle", NoRun)
    /\ Return(p)
    /\ UNCHANGED <<serial, recorder, sealed, started, finished, journal, receipt, invoked>>
--------------------------------------------------------------------------------
(* run_next                                                                   *)

\* _next_step
NextStep(c) ==
    /\ ~Terminal
    /\ PendingSteps = {}
    /\ Ended \subseteq Successful /\ ~Has("halted")
    /\ c \notin Successful /\ Before(c) \subseteq Successful

\* _ensure_step_ready
StepReady(c) == Gates[c] \subseteq Successful /\ (c \in Writes => Authorized(c))

\* run_next up to the first append
Choose(p, c) ==
    /\ MayCall(p) /\ at[p] = "idle"
    /\ Verifies /\ PendingSteps = {}
    /\ NextStep(c) /\ StepReady(c)
    /\ Proceed(p, "chosen", [NoRun EXCEPT !.step = c])
    /\ UNCHANGED <<hostVars, journal, receipt, invoked, stops>>

\* The step_started entry
StepStarted(p) ==
    /\ tpc[p] = "chosen"
    /\ AppendEntry(Entry("started", run[p].step))
    /\ Proceed(p, "begun", run[p])
    /\ UNCHANGED <<hostVars, receipt, invoked, stops>>

\* bridge.execute: host.tool_call(spec)
CallStarts(p) ==
    /\ tpc[p] = "begun"
    /\ StartCheck(p, run[p].step) \/ StartAppend(p)
    /\ UNCHANGED <<transactionVars, invoked>>

\* bridge.execute: the connector is invoked; cancelled is treated as failure.
Invoke(p, status) ==
    /\ tpc[p] = "begun" /\ at[p] = "executing"
    /\ invoked' = [invoked EXCEPT ![run[p].step] = @ + 1]
    /\ Proceed(p, "invoked", [run[p] EXCEPT !.outcome = Outcome(status, 0, "invalid")])
    /\ UNCHANGED <<hostVars, journal, receipt, stops>>

\* bridge.execute: call.succeed or call.fail
CallFinishes(p) ==
    /\ tpc[p] = "invoked"
    /\ FinishCheck(p, run[p].step, run[p].outcome.status) \/ RecordTool(p) \/ TraceFinish(p)
    /\ UNCHANGED <<transactionVars, invoked>>

\* bridge.execute: host.verify() and the receipt, with the recorder's head.
\* The host retains the receipt and the response.
Receive(p, payload) ==
    /\ tpc[p] = "invoked" /\ at[p] = "done"
    /\ HostVerifies /\ PendingCalls = {}
    /\ LET o == Outcome(run[p].outcome.status, Len(recorder), payload)
       IN /\ Proceed(p, "outcome", [run[p] EXCEPT !.outcome = o])
          /\ receipt' = [receipt EXCEPT ![run[p].step] = o]
    /\ Return(p)
    /\ UNCHANGED <<serial, recorder, sealed, started, finished, journal, invoked, stops>>

\* runtime.execute raises: the outcome is what the recorder says, if it
\* says anything, and expectations are not met.
Raise(p) ==
    /\ tpc[p] \in {"begun", "invoked"}
    /\ LET c == run[p].step
           o == IF ToolPositions(c) = {} THEN Outcome("failure", 0, "invalid")
                ELSE LET k == CHOOSE k \in ToolPositions(c) : TRUE
                     IN Outcome(recorder[k].status, k, "invalid")
       IN /\ AppendEntry(FinishEntry(c, o))
          /\ Proceed(p, "closing", [run[p] EXCEPT !.outcome = o])
    /\ Return(p)
    /\ UNCHANGED <<serial, recorder, sealed, started, finished, receipt, invoked, stops>>

\* The step_finished entry
StepFinished(p) ==
    /\ tpc[p] = "outcome"
    /\ AppendEntry(FinishEntry(run[p].step, run[p].outcome))
    /\ Proceed(p, "closing", run[p])
    /\ UNCHANGED <<hostVars, receipt, invoked, stops>>

\* _append_halt
Halt(p) ==
    /\ tpc[p] = "closing" /\ ~Succeeds(run[p].outcome)
    /\ AppendEntry(Entry("halted", run[p].step))
    /\ Proceed(p, "idle", NoRun)
    /\ UNCHANGED <<hostVars, receipt, invoked, stops>>

\* The summary after a success: the last step or not
Summarize(p) ==
    /\ tpc[p] = "closing" /\ Succeeds(run[p].outcome) /\ ValidJournal
    /\ IF Successful = Steps THEN Proceed(p, "completing", [run[p] EXCEPT !.bind = Len(journal)])
                             ELSE Proceed(p, "idle", NoRun)
    /\ UNCHANGED <<hostVars, journal, receipt, invoked, stops>>

\* The transaction_completed entry
Complete(p) ==
    /\ tpc[p] = "completing"
    /\ AppendEntry(CompletedEntry(run[p].bind))
    /\ Proceed(p, "idle", NoRun)
    /\ UNCHANGED <<hostVars, receipt, invoked, stops>>
--------------------------------------------------------------------------------
(* reconcile_pending, abort and the pass-through methods                      *)

\* The host holds a receipt of the step that agrees with the recorder.
Retained(c) ==
    /\ receipt[c] # NoOutcome
    /\ ToolPositions(c) = {receipt[c].head}
    /\ recorder[receipt[c].head].status = receipt[c].status

\* Mutated form: a receipt that is missing in the recorder is believed.
BugReconcile(p) ==
    /\ MayCall(p) /\ at[p] = "idle"
    /\ Verifies
    /\ \E c \in Steps :
         /\ PendingSteps = {c}
         /\ Proceed(p, "outcome", [NoRun EXCEPT !.step = c, !.outcome = Outcome("success", 0, "met")])
    /\ UNCHANGED <<hostVars, journal, receipt, invoked, stops>>

\* The retained receipt must agree with the recorder's event, and an export
\* that is missing raises.
Reconcile(p) ==
    /\ MayCall(p) /\ at[p] = "idle"
    /\ Verifies
    /\ \E c \in Steps :
         /\ PendingSteps = {c}
         /\ Retained(c) /\ receipt[c].payload # "invalid"
         /\ Proceed(p, "outcome", [NoRun EXCEPT !.step = c, !.outcome = receipt[c]])
    /\ UNCHANGED <<hostVars, journal, receipt, invoked, stops>>

AbortCheck(p) ==
    /\ MayCall(p) /\ at[p] = "idle"
    /\ ValidJournal /\ ~Terminal /\ PendingSteps = {}
    /\ Proceed(p, "aborting", NoRun)
    /\ UNCHANGED <<hostVars, journal, receipt, invoked, stops>>

Abort(p) ==
    /\ tpc[p] = "aborting"
    /\ AppendEntry(Entry("aborted", NoCall))
    /\ Proceed(p, "idle", NoRun)
    /\ UNCHANGED <<hostVars, receipt, invoked, stops>>

\* authorize_step, record_user_message, ...; host.recover_tool_call
HostStep(p) ==
    /\ MayCall(p)
    /\ RecordNext(p) \/ \E c \in Calls : Recover(p, c)
    /\ UNCHANGED <<transactionVars, invoked>>

\* seal: only a completed transaction
SealSession(p) ==
    /\ MayCall(p)
    /\ \/ Verifies /\ Has("completed") /\ SealCheck(p)
       \/ SealAppend(p)
    /\ UNCHANGED <<transactionVars, invoked>>
--------------------------------------------------------------------------------
RunNext(p) ==
    \/ \E c \in Steps : Choose(p, c)
    \/ StepStarted(p) \/ CallStarts(p)
    \/ \E s \in {"success", "failure"} : Invoke(p, s)
    \/ CallFinishes(p) \/ Raise(p)
    \/ \E payload \in Payloads : Receive(p, payload)
    \/ StepFinished(p) \/ Halt(p) \/ Summarize(p) \/ Complete(p)

ProcNext(p) ==
    \/ RunNext(p)
    \/ Reconcile(p) \/ AbortCheck(p) \/ Abort(p)
    \/ HostStep(p) \/ SealSession(p)

Next == \E p \in Procs : ProcNext(p) \/ TransactionStop(p)

Spec == TransactionInit /\ [][Next]_vars

\* A host that does not die keeps calling run(), calls reconcile_pending when
\* it holds the receipt, and ends the methods it has begun.
FairSpec ==
    /\ Spec
    /\ \A p \in Procs : /\ WF_vars(RunNext(p)) /\ WF_vars(Reconcile(p))
                        /\ WF_vars(Abort(p)) /\ WF_vars(HostStep(p)) /\ WF_vars(SealSession(p))
--------------------------------------------------------------------------------
(* Properties                                                                 *)

\* "Pending writes are never automatically replayed" and "Steps execute only in
\* immutable plan order": GitHub is called at most once for a step, whatever
\* processes run, stop and reconcile, and only when the journal already holds
\* the successful finish of every earlier step.
CalledOnceInPlanOrder ==
    \A c \in Steps :
        /\ invoked[c] <= 1
        /\ invoked[c] > 0 => Before(c) \subseteq Successful

\* A successful checkpoint is never invented: the step was called and the
\* recorder holds its success.  In a serial host the three files never
\* contradict each other, wherever a process stops.
CheckpointsHonest ==
    /\ \A c \in Successful :
         /\ invoked[c] = 1
         /\ \E k \in ToolPositions(c) : recorder[k].status = "success"
    /\ serial => Verifies

\* A transaction whose steps have all succeeded becomes complete, as run()
\* announces, as long as the host keeps running it.
SuccessCompletes == (Successful = Steps) ~> Terminal

================================================================================
