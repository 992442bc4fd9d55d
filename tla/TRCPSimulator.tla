---------------------------- MODULE TRCPSimulator ----------------------------
(***************************************************************************)
(* The Trusted Research Continuity Protocol simulator,                     *)
(* sdk/liminal_trcp/__init__.py: authorization, a primary provider run, a  *)
(* failover decision and a fallback run, a finding and its verification,   *)
(* each recorded in a trace.                                               *)
(*                                                                         *)
(* Every public method is an action that a caller may take in any state. A *)
(* call that raises and changes nothing is no step; a call that raises     *)
(* after it moved to another state, or after it recorded a run, is one.    *)
(***************************************************************************)
EXTENDS TRCPReplay

CONSTANTS
    MaxClock,      \* the clock runs in 0 .. MaxClock
    MaxTicks,      \* bound on the calls of advance_time
    Digests,       \* workload digests a caller may put into provider metadata
    MaxDecisions   \* bound on the failover decisions of a session

(***************************************************************************)
(* The documents of a session, without the fields nothing depends on. A    *)
(* provider's synthetic_finding is its finding_id, "partial" when required *)
(* fields are missing, and its metadata the workload digest, if any.       *)
(***************************************************************************)
AuthorizationRecords ==
    [ authorization_id : STRING, asset_id : STRING, valid_from : Int, valid_until : Int,
      allowed_activity_classes : SUBSET STRING ]

ScopeEnvelopes ==
    [ scope_id : STRING, authorization_id : STRING, allowed_targets : SUBSET STRING,
      allowed_actions : SUBSET STRING, allowed_environments : SUBSET STRING,
      prohibited_actions : SUBSET STRING, data_handling_class : STRING,
      network_mode : STRING, expires_at : Int ]

MockProviders ==
    [ provider_id : STRING, outcome : STRING, finding : STRING \cup {NoRecord},
      workload : Digests \cup {NoRecord} ]

FailoverRecords ==
    [ previous_run_id : Nat, scope_id : STRING, new_provider_id : STRING,
      permission_delta : {"UNCHANGED", "NARROWER"} ]

FindingRecords ==
    [ finding_id : STRING, source_run : Nat,
      status : {"UNVERIFIED", "REPRODUCED", "NOT_REPRODUCED", "CONFIRMED"} ]

VerificationRecords ==
    [ finding_id : STRING, result : {"REPRODUCED", "NOT_REPRODUCED"} ]

ASSUME NoRecordAssumption ==
    NoRecord \notin FailoverRecords \cup FindingRecords \cup VerificationRecords
ASSUME ClockAssumption == MaxClock \in Nat

VARIABLES
    auth,          \* AuthorizationRecord
    initialScope,  \* ScopeEnvelope given to the constructor
    scope,         \* the effective ScopeEnvelope
    now_unix,
    state,
    trace,
    runs,          \* provider_runs
    failover,      \* failover_record
    finding,
    verification

simVars == <<auth, initialScope, scope, now_unix, state, trace, runs, failover, finding, verification>>

FailoverOutcome == "FAILOVER"   \* any member of FAILOVER_OUTCOMES

ProviderOutcomes == {FailoverOutcome, "COMPLETED", "ABORTED_BY_OPERATOR"}

\* A validity check that forgets the end of the window.
BugAuthorizationValid(t) == auth.valid_from <= t /\ auth.allowed_activity_classes # {}

AuthorizationValid(t) ==
    /\ auth.valid_from <= t /\ t <= auth.valid_until
    /\ auth.allowed_activity_classes # {}

ScopeValid(s, t) ==
    /\ s.authorization_id = auth.authorization_id
    /\ auth.asset_id \in s.allowed_targets
    /\ s.network_mode = "LOCAL_ONLY"
    /\ s.data_handling_class = "SYNTHETIC_ONLY"
    /\ s.allowed_environments = {"LOCAL_FIXTURE"}
    /\ t <= s.expires_at
    /\ s.allowed_actions # {}
    /\ ~ScopeOverlap(s)

PermissionView(s) == [s EXCEPT !.scope_id = "none"]

IsEqualOrNarrowerThan(s, parent) ==
    /\ s.authorization_id = parent.authorization_id
    /\ s.allowed_targets \subseteq parent.allowed_targets
    /\ s.allowed_actions \subseteq parent.allowed_actions
    /\ s.allowed_environments \subseteq parent.allowed_environments
    /\ parent.prohibited_actions \subseteq s.prohibited_actions
    /\ s.data_handling_class = parent.data_handling_class
    /\ s.network_mode = parent.network_mode /\ parent.network_mode = "LOCAL_ONLY"
    /\ s.expires_at <= parent.expires_at

ValidTask(task, s) ==
    /\ task.asset_id = auth.asset_id /\ task.asset_id \in s.allowed_targets
    /\ task.activity_class \in auth.allowed_activity_classes
    /\ task.action \notin s.prohibited_actions
    /\ task.action \in s.allowed_actions
    /\ s.network_mode = "LOCAL_ONLY"

(***************************************************************************)
(* The trace. AppendAll adds events that one call records, all at the same *)
(* time; a step of Path(<<s, t, u>>) is the transitions s to t to u.      *)
(***************************************************************************)
Event(kind, from, to, ref) == [kind |-> kind, from |-> from, to |-> to, ref |-> ref]

Note(kind, ref) == << Event(kind, "none", "none", ref) >>

Path(states) == [ i \in 1 .. Len(states) - 1 |->
                     Event("STATE_TRANSITION", states[i], states[i + 1], 0) ]

Recorded(events, t) ==
    [ i \in 1 .. Len(events) |->
        [seq |-> Len(trace) + i, at |-> t, kind |-> events[i].kind,
         from |-> events[i].from, to |-> events[i].to, ref |-> events[i].ref] ]

AppendAll(events) == trace' = trace \o Recorded(events, now_unix)

Fewer(kind, max) == Cardinality(OfKind(trace, kind)) < max

SimInit(a, s, t) ==
    /\ auth = a /\ initialScope = s /\ scope = s /\ now_unix = t
    /\ state = "NEW"
    /\ trace = << [seq |-> 1, at |-> t, kind |-> "SIMULATOR_CREATED",
                   from |-> "none", to |-> "none", ref |-> 0] >>
    /\ runs = <<>>
    /\ failover = NoRecord /\ finding = NoRecord /\ verification = NoRecord

\* advance_time
AdvanceTime(t) ==
    /\ Fewer("CLOCK_ADVANCED", MaxTicks) /\ now_unix <= t
    /\ now_unix' = t
    /\ trace' = trace \o Recorded(Note("CLOCK_ADVANCED", 0), t)
    /\ UNCHANGED <<auth, initialScope, scope, state, runs, failover, finding, verification>>

\* authorize
Authorize ==
    /\ state = "NEW"
    /\ AuthorizationValid(now_unix) /\ ScopeValid(scope, now_unix)
    /\ state' = "AUTHORIZED"
    /\ AppendAll(Path(<<"NEW", "AUTHORIZED">>))
    /\ UNCHANGED <<auth, initialScope, scope, now_unix, runs, failover, finding, verification>>

\* A call that moves to a terminal state and raises.
FailTo(new) ==
    /\ state' = new
    /\ AppendAll(Path(<<state, new>>))
    /\ UNCHANGED <<auth, initialScope, scope, now_unix, runs, failover, finding, verification>>

RunRecord(task, p) ==
    [ run_id |-> Len(runs) + 1, scope_id |-> scope.scope_id, provider |-> p.provider_id,
      started_at |-> now_unix, task |-> task, outcome |-> p.outcome, workload |-> p.workload ]

(***************************************************************************)
(* provider.run and what execute_primary and execute_fallback do with its  *)
(* output once they moved to active: record the run, then fail over, abort *)
(* or capture the finding and go to VERIFYING. An outcome MockProvider     *)
(* does not know raises before a run is recorded, a finding without its    *)
(* required fields raises after it, and both leave the simulator active.   *)
(***************************************************************************)
FindingOf(task, p) ==
    [finding_id |-> p.finding, source_run |-> Len(runs) + 1, status |-> "UNVERIFIED"]

RunProvider(active, after, task, p) ==
    LET ran      == Append(runs, RunRecord(task, p))
        recorded == Path(<<state, active>>) \o Note("PROVIDER_RUN_RECORDED", Len(ran))
    IN  /\ \/ /\ p.outcome \notin ProviderOutcomes
              /\ state' = active
              /\ AppendAll(Path(<<state, active>>))
              /\ UNCHANGED <<runs, finding>>
           \/ /\ p.outcome \in ProviderOutcomes \ {"COMPLETED"}
              /\ runs' = ran
              /\ state' = after[p.outcome][Len(after[p.outcome])]
              /\ AppendAll(recorded \o Path(<<active>> \o after[p.outcome]))
              /\ UNCHANGED finding
           \/ /\ p.outcome = "COMPLETED" /\ p.finding = "partial"
              /\ runs' = ran
              /\ state' = active
              /\ AppendAll(recorded)
              /\ UNCHANGED finding
           \/ /\ p.outcome = "COMPLETED" /\ p.finding = NoRecord
              /\ runs' = ran
              /\ state' = "VERIFYING"
              /\ AppendAll(recorded \o Path(<<active, "VERIFYING">>))
              /\ UNCHANGED finding
           \/ /\ p.outcome = "COMPLETED" /\ p.finding \notin {NoRecord, "partial"}
              /\ runs' = ran
              /\ finding' = FindingOf(task, p)
              /\ state' = "VERIFYING"
              /\ AppendAll(recorded \o Note("FINDING_RECORDED", p.finding)
                                    \o Path(<<active, "VERIFYING">>))
        /\ UNCHANGED <<auth, initialScope, scope, now_unix, failover, verification>>

\* execute_primary
AfterPrimary == [ o \in {FailoverOutcome, "ABORTED_BY_OPERATOR"} |->
                    IF o = FailoverOutcome THEN <<"DEGRADED", "FAILOVER_PENDING">>
                                           ELSE <<"ABORTED">> ]

ExecutePrimary(task, p) ==
    /\ state = "AUTHORIZED"
    /\ \/ ~AuthorizationValid(now_unix) /\ FailTo("AUTH_EXPIRED")
       \/ /\ AuthorizationValid(now_unix)
          /\ ~ScopeValid(scope, now_unix) \/ ~ValidTask(task, scope)
          /\ FailTo("SCOPE_INVALID")
       \/ /\ AuthorizationValid(now_unix) /\ ScopeValid(scope, now_unix) /\ ValidTask(task, scope)
          /\ RunProvider("ACTIVE", AfterPrimary, task, p)

(***************************************************************************)
(* record_failover. approved stands for data_handling_approved, minimized  *)
(* artifacts and the human approval where one is required. The call may be *)
(* repeated: every decision replaces the record and the effective scope.   *)
(***************************************************************************)
RecordFailover(p, candidate, approved) ==
    LET local  == candidate.network_mode = "LOCAL_ONLY"
                    /\ candidate.data_handling_class = "SYNTHETIC_ONLY"
        within == ScopeValid(candidate, now_unix) /\ IsEqualOrNarrowerThan(candidate, scope)
    IN  /\ state = "FAILOVER_PENDING"
        /\ Fewer("FAILOVER_DECISION_RECORDED", MaxDecisions)
        /\ \/ ~AuthorizationValid(now_unix) /\ FailTo("AUTH_EXPIRED")
           \/ AuthorizationValid(now_unix) /\ local /\ ~within /\ FailTo("SCOPE_INVALID")
           \/ /\ AuthorizationValid(now_unix)
              /\ ~local \/ (within /\ ~approved)
              /\ FailTo("HUMAN_REVIEW_REQUIRED")
           \/ /\ AuthorizationValid(now_unix) /\ local /\ within /\ approved
              /\ failover' = [ previous_run_id |-> runs[Len(runs)].run_id,
                               scope_id        |-> candidate.scope_id,
                               new_provider_id |-> p.provider_id,
                               permission_delta |->
                                 IF PermissionView(candidate) = PermissionView(scope)
                                 THEN "UNCHANGED" ELSE "NARROWER" ]
              /\ scope' = candidate
              /\ AppendAll(Note("FAILOVER_DECISION_RECORDED", 0)
                             \o Note("EFFECTIVE_SCOPE_UPDATED", 0))
              /\ UNCHANGED <<auth, initialScope, now_unix, state, runs, finding, verification>>

\* execute_fallback
AfterFallback == [ o \in {FailoverOutcome, "ABORTED_BY_OPERATOR"} |-> <<"ABORTED">> ]

ExecuteFallback(task, p) ==
    LET asDecided == p.provider_id = failover.new_provider_id
        proper    == /\ ScopeValid(scope, now_unix) /\ ValidTask(task, scope)
                     /\ task = runs[Len(runs)].task
    IN  /\ state = "FAILOVER_PENDING" /\ failover # NoRecord
        /\ \/ ~asDecided /\ FailTo("ABORTED")
           \/ asDecided /\ ~AuthorizationValid(now_unix) /\ FailTo("AUTH_EXPIRED")
           \/ asDecided /\ AuthorizationValid(now_unix) /\ ~proper /\ FailTo("SCOPE_INVALID")
           \/ /\ asDecided /\ AuthorizationValid(now_unix) /\ proper
              /\ RunProvider("ACTIVE_ON_FALLBACK", AfterFallback, task, p)

\* verify
Verify(reproduced) ==
    LET result == IF reproduced THEN "REPRODUCED" ELSE "NOT_REPRODUCED"
        noted  == Note("VERIFICATION_RECORDED", finding.finding_id)
                    \o Note("FINDING_STATUS_UPDATED", 0)
        close  == Path(<<"VERIFYING", "CLOSED">>)
    IN  /\ state = "VERIFYING" /\ verification = NoRecord
        /\ \/ /\ finding = NoRecord
              /\ state' = "CLOSED"
              /\ AppendAll(close)
              /\ UNCHANGED <<finding, verification>>
           \/ /\ finding # NoRecord
              /\ verification' = [finding_id |-> finding.finding_id, result |-> result]
              /\ finding' = [finding EXCEPT !.status = result]
              /\ state' = IF reproduced THEN state ELSE "CLOSED"
              /\ AppendAll(noted \o IF reproduced THEN <<>> ELSE close)
        /\ UNCHANGED <<auth, initialScope, scope, now_unix, runs, failover>>

\* confirm_finding
ConfirmFinding ==
    /\ finding # NoRecord
    /\ verification # NoRecord /\ verification.result = "REPRODUCED"
    /\ state = "VERIFYING"
    /\ finding' = [finding EXCEPT !.status = "CONFIRMED"]
    /\ state' = "CLOSED"
    /\ AppendAll(Note("FINDING_STATUS_UPDATED", 0) \o Path(<<"VERIFYING", "CLOSED">>))
    /\ UNCHANGED <<auth, initialScope, scope, now_unix, runs, failover, verification>>

\* report() and build_evidence_bundle: what the verifier is given.
Bundle(consumer) ==
    [ auth |-> auth, initial |-> initialScope, effective |-> scope, runs |-> runs,
      failover |-> failover, finding |-> finding, verification |-> verification,
      trace |-> trace, consumer |-> consumer ]
=============================================================================
