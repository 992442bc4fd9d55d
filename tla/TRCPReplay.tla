----------------------------- MODULE TRCPReplay -----------------------------
(***************************************************************************)
(* The evidence bundle of a TRCP session and its independent replay        *)
(* verifier: sdk/liminal_trcp/evidence.py and replay.py.                   *)
(*                                                                         *)
(* A bundle is the record                                                  *)
(*   [auth, initial, effective, runs, failover, finding, verification,     *)
(*    trace, consumer]                                                     *)
(* whose optional parts are NoRecord when the report has None there.       *)
(* Canonical digests are injective, so a record stands for its own digest: *)
(* the digest chain of the trace says of an event that it has its place,   *)
(* and a bundle that is verified as it was built matches its digest.       *)
(* check is the predicate "this check does not FAIL": SKIP counts as PASS. *)
(***************************************************************************)
EXTENDS Integers, Sequences, FiniteSets

CONSTANT NoRecord   \* None

AllowedTransitions ==
    [ s \in {"NEW", "AUTHORIZED", "ACTIVE", "DEGRADED", "FAILOVER_PENDING",
             "ACTIVE_ON_FALLBACK", "VERIFYING", "AUTH_EXPIRED", "SCOPE_INVALID",
             "HUMAN_REVIEW_REQUIRED", "ABORTED", "CLOSED"} |->
        CASE s = "NEW" -> {"AUTHORIZED"}
          [] s = "AUTHORIZED" -> {"ACTIVE", "AUTH_EXPIRED", "SCOPE_INVALID"}
          [] s = "ACTIVE" -> {"VERIFYING", "DEGRADED", "ABORTED"}
          [] s = "DEGRADED" -> {"FAILOVER_PENDING"}
          [] s = "FAILOVER_PENDING" -> {"ACTIVE_ON_FALLBACK", "AUTH_EXPIRED",
                                        "SCOPE_INVALID", "HUMAN_REVIEW_REQUIRED", "ABORTED"}
          [] s = "ACTIVE_ON_FALLBACK" -> {"VERIFYING", "AUTH_EXPIRED", "SCOPE_INVALID", "ABORTED"}
          [] s = "VERIFYING" -> {"CLOSED"}
          [] OTHER -> {} ]

TerminalStates == { s \in DOMAIN AllowedTransitions : AllowedTransitions[s] = {} }

(***************************************************************************)
(* Events of a trace: [seq, at, kind, from, to, ref]. from and to matter   *)
(* for a STATE_TRANSITION; ref is the run_id of a PROVIDER_RUN_RECORDED    *)
(* and the finding a FINDING_RECORDED or VERIFICATION_RECORDED is about.   *)
(***************************************************************************)
OfKind(trace, kind) == { i \in DOMAIN trace : trace[i].kind = kind }

\* The places of the transitions, and of one next to another, in a trace.
Transitions(b) == OfKind(b.trace, "STATE_TRANSITION")

Consecutive(i, j, S) == i < j /\ \A k \in S : k <= i \/ j <= k

\* All the events of one set come before (at or before) the first of another.
FirstOf(S) == CHOOSE i \in S : \A j \in S : i <= j

NotAfter(S, T) == S # {} /\ T # {} => FirstOf(S) <= FirstOf(T)

FallbackEvents(b) ==
    { i \in OfKind(b.trace, "PROVIDER_RUN_RECORDED") :
        \E k \in DOMAIN b.runs \ {1} : b.trace[i].ref = b.runs[k].run_id }

(* The checks, in the order of CHECK_ORDER. *)

TraceHashChain(b) == \A i \in DOMAIN b.trace : b.trace[i].seq = i

TemporalOrder(b) ==
    \A i \in DOMAIN b.trace \ {1} : b.trace[i - 1].at <= b.trace[i].at

StateTransition(b) ==
    LET T == Transitions(b)
    IN  \A i \in T :
          /\ (\A j \in T : i <= j) => b.trace[i].from = "NEW"
          /\ b.trace[i].to \in AllowedTransitions[b.trace[i].from]
          /\ \A j \in T : Consecutive(j, i, T) => b.trace[i].from = b.trace[j].to

CausalOrder(b) ==
    /\ NotAfter(OfKind(b.trace, "SIMULATOR_CREATED"), OfKind(b.trace, "STATE_TRANSITION"))
    /\ NotAfter(OfKind(b.trace, "FAILOVER_DECISION_RECORDED"), FallbackEvents(b))
    /\ NotAfter(OfKind(b.trace, "FINDING_RECORDED"), OfKind(b.trace, "VERIFICATION_RECORDED"))

AuthorizationContinuity(b) ==
    /\ b.initial.authorization_id = b.auth.authorization_id
    /\ b.effective.authorization_id = b.auth.authorization_id
    /\ b.failover # NoRecord => b.failover.scope_id = b.effective.scope_id

ScopeMonotonicity(b) ==
    /\ b.effective.allowed_targets \subseteq b.initial.allowed_targets
    /\ b.effective.allowed_actions \subseteq b.initial.allowed_actions
    /\ b.effective.allowed_environments \subseteq b.initial.allowed_environments
    /\ b.initial.prohibited_actions \subseteq b.effective.prohibited_actions
    /\ b.initial.network_mode = "LOCAL_ONLY" => b.effective.network_mode = "LOCAL_ONLY"
    /\ b.initial.data_handling_class = "SYNTHETIC_ONLY"
         => b.effective.data_handling_class = "SYNTHETIC_ONLY"
    /\ b.effective.expires_at <= b.initial.expires_at

ScopeOverlap(scope) == scope.allowed_actions \cap scope.prohibited_actions # {}

ProhibitedActions(b) == ~ScopeOverlap(b.initial) /\ ~ScopeOverlap(b.effective)

\* The verifier before it asked that a recorded decision was also carried out.
BugFailoverDecision(b) == b.failover = NoRecord => Len(b.runs) < 2

FailoverDecision(b) ==
    IF b.failover = NoRecord
    THEN Len(b.runs) < 2
    ELSE /\ Len(b.runs) >= 2
         /\ b.failover.previous_run_id = b.runs[1].run_id
         /\ OfKind(b.trace, "FAILOVER_DECISION_RECORDED") # {}
         /\ FallbackEvents(b) # {}
         /\ FirstOf(OfKind(b.trace, "FAILOVER_DECISION_RECORDED")) <= FirstOf(FallbackEvents(b))

TaskIdentity(b) == \A i \in DOMAIN b.runs : b.runs[i].task = b.runs[1].task

VerificationClosure(b) ==
    b.finding # NoRecord /\ b.finding.status = "CONFIRMED" =>
        b.verification # NoRecord /\ b.verification.result = "REPRODUCED"

\* A record whose event is missing makes the check raise, which is a FAIL.
VerificationConsistency(b) ==
    LET found    == OfKind(b.trace, "FINDING_RECORDED")
        verified == OfKind(b.trace, "VERIFICATION_RECORDED")
    IN  /\ (b.finding = NoRecord) = (found = {})
        /\ (b.verification = NoRecord) = (verified = {})
        /\ b.finding # NoRecord => b.trace[FirstOf(found)].ref = b.finding.finding_id
        /\ b.verification # NoRecord =>
              /\ b.finding # NoRecord
              /\ b.trace[FirstOf(verified)].ref = b.verification.finding_id
              /\ b.verification.finding_id = b.finding.finding_id

FinalState(b) ==
    \A i \in Transitions(b) :
        (\A j \in Transitions(b) : j <= i) => b.trace[i].to \in TerminalStates

(***************************************************************************)
(* consumer is [body, workload, task]: the normalized workload, the digest *)
(* the evidence claims for it and the task it was given to. A run carries  *)
(* in its metadata the digest it was given, or NoRecord.                   *)
(***************************************************************************)
WorkloadBinding(b) ==
    IF b.consumer = NoRecord
    THEN \A i \in DOMAIN b.runs : b.runs[i].workload = NoRecord
    ELSE /\ b.consumer.workload = b.consumer.body
         /\ b.consumer.task.fixture = b.consumer.workload
         /\ b.runs # <<>>
         /\ \A i \in DOMAIN b.runs : b.runs[i].task = b.consumer.task
         /\ \E i \in DOMAIN b.runs : b.runs[i].workload = b.consumer.workload

VerifyEvidenceBundle(b) ==
    /\ TraceHashChain(b) /\ TemporalOrder(b) /\ StateTransition(b) /\ CausalOrder(b)
    /\ AuthorizationContinuity(b) /\ ScopeMonotonicity(b) /\ ProhibitedActions(b)
    /\ FailoverDecision(b) /\ TaskIdentity(b)
    /\ VerificationClosure(b) /\ VerificationConsistency(b)
    /\ FinalState(b) /\ WorkloadBinding(b)

(***************************************************************************)
(* The causal lineage of a bundle, as the sequence of its edges.           *)
(***************************************************************************)
Edge(from, to) == [from |-> from, to |-> to]

\* The lineage that looks for the report's failover_record in the bundle.
BugBuildCausalLineage(b) ==
    LET runs    == << Edge("AUTHORIZATION", "PRIMARY_RUN") >>
        finding == IF b.finding = NoRecord THEN runs
                   ELSE Append(runs, Edge("PRIMARY_RUN", "FINDING"))
        open    == IF b.finding = NoRecord \/ b.verification = NoRecord THEN finding
                   ELSE Append(finding, Edge("FINDING", "VERIFICATION"))
    IN  Append(open, Edge(open[Len(open)].to, "CLOSED"))

BuildCausalLineage(b) ==
    LET failover == IF b.failover = NoRecord \/ b.runs = <<>> THEN <<>>
                    ELSE << Edge("PRIMARY_RUN", "PROVIDER_FAILURE"),
                            Edge("PROVIDER_FAILURE", "FAILOVER_DECISION"),
                            Edge("FAILOVER_DECISION", "EFFECTIVE_SCOPE") >>
        fallback == IF b.failover = NoRecord \/ Len(b.runs) < 2 THEN <<>>
                    ELSE << Edge("EFFECTIVE_SCOPE", "FALLBACK_RUN") >>
        upToRuns == << Edge("AUTHORIZATION", "PRIMARY_RUN") >> \o failover \o fallback
        finding  == IF b.finding = NoRecord THEN <<>>
                    ELSE << Edge(upToRuns[Len(upToRuns)].to, "FINDING") >>
        verified == IF b.finding = NoRecord \/ b.verification = NoRecord THEN <<>>
                    ELSE << Edge("FINDING", "VERIFICATION") >>
        open     == upToRuns \o finding \o verified
    IN  Append(open, Edge(open[Len(open)].to, "CLOSED"))
=============================================================================
