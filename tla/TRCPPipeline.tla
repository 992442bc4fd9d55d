---------------------------- MODULE TRCPPipeline ----------------------------
(***************************************************************************)
(* A TRCP session from end to end. Either a caller drives the simulator    *)
(* directly, calling its methods in any order, or a consumer pipeline runs *)
(* a workload, takes it through the simulator, builds the evidence bundle  *)
(* and verifies it: run_contract_consumer (client "escrow"),               *)
(* run_external_consumer with the delegated spending adapter ("spending")  *)
(* or with an adapter of somebody else ("generic"), and the public         *)
(* run_external_workload ("sdk").                                          *)
(***************************************************************************)
EXTENDS TRCPSimulator, TRCPWorkload

CONSTANTS
    Authorizations, Scopes, Tasks,
    DirectProviders,    \* what a caller gives to the simulator
    GenericPrimaries    \* primary providers of an adapter of somebody else

(***************************************************************************)
(* The normalized workload and what is bound to it: a task, and the        *)
(* evidence. The fixture of a task is the digest its reference pins, or    *)
(* NoRecord.                                                               *)
(***************************************************************************)
Bodies == [kind : {"escrow", "spending"}, machine : Machines, violations : SUBSET Violations]

TasksOf(fixtures) ==
    [asset_id : STRING, activity_class : STRING, action : STRING, fixture : fixtures]

FixtureRefs == Digests \cup Bodies \cup {NoRecord}

Evidence == [body : Bodies, workload : Bodies, task : TasksOf(FixtureRefs)]

ASSUME DocumentsAssumption ==
    /\ Authorizations \subseteq AuthorizationRecords /\ Scopes \subseteq ScopeEnvelopes
    /\ Tasks \subseteq TasksOf(Digests \cup {NoRecord})
    /\ DirectProviders \subseteq MockProviders /\ GenericPrimaries \subseteq MockProviders
    /\ NoRecord \notin Evidence
ASSUME LiteralsAssumption ==
    /\ {"A", "B", "violation", FailoverOutcome, "COMPLETED"} \subseteq STRING
    /\ NoRecord \notin STRING

VARIABLES
    client,
    stage,       \* what the pipeline does next
    primary,     \* the adapter's primary provider
    task,        \* the adapter's task
    evidence,    \* workload_evidence
    reproduced,  \* the second normalization gave the same digest
    receipt,     \* result of verify_evidence_bundle
    replay       \* status of the execution replay

pipeVars == <<client, stage, primary, task, evidence, reproduced, receipt, replay>>
trcpVars == <<simVars, workVars, pipeVars>>

Clients == {"caller", "escrow", "spending", "sdk", "generic"}

\* The authorization, scope and task a shipped adapter's fixture() makes.
Home(a, s) == s.authorization_id = a.authorization_id /\ s.scope_id = "home"
                /\ a.valid_from = 0

TRCPInit ==
    /\ client \in Clients
    /\ \E a \in Authorizations, s \in Scopes :
          /\ client \in {"escrow", "spending", "sdk"} => Home(a, s)
          /\ SimInit(a, s, 0)
    /\ WorkInit(IF client = "escrow" THEN "escrow" ELSE "spending")
    /\ stage = IF client = "caller" THEN "calls" ELSE "workload"
    /\ primary = NoRecord /\ task = NoRecord /\ evidence = NoRecord
    /\ reproduced = TRUE /\ receipt = NoRecord /\ replay = "NOT_RUN"

(* A caller of the simulator. *)

CallSimulator ==
    /\ stage = "calls"
    /\ \/ \E t \in 0 .. MaxClock : AdvanceTime(t)
       \/ Authorize
       \/ \E k \in Tasks, p \in DirectProviders : ExecutePrimary(k, p) \/ ExecuteFallback(k, p)
       \/ \E p \in DirectProviders, s \in Scopes, ok \in BOOLEAN : RecordFailover(p, s, ok)
       \/ \E r \in BOOLEAN : Verify(r)
       \/ ConfirmFinding
    /\ UNCHANGED <<workVars, pipeVars>>

(* The pipeline. Body is the normalized workload, and its own digest. *)

Body == [kind |-> kind, machine |-> machine, violations |-> violations]

\* What normalize() returns. The result of somebody else's workload may be any
\* JSON value: one without a list of violations has none to find.
Normalized ==
    IF client \in {"sdk", "generic"} THEN {Body, [Body EXCEPT !.violations = {}]} ELSE {Body}

(* task() and fixture()["primary"] of the adapters. A shipped adapter's task    *)
(* pins the digest of the workload and its primary carries it; one of somebody  *)
(* else may leave it out or name another.                                       *)

BoundTask(k, body) == [k EXCEPT !.fixture = body]

AdapterTasks(body) ==
    IF client = "generic"
    THEN Tasks \cup { BoundTask(k, body) : k \in Tasks }
    ELSE { BoundTask(k, body) : k \in { t \in Tasks : ValidTask(t, scope) } }

RestrictedPrimary(body) == [provider_id |-> "A", outcome |-> FailoverOutcome,
                            finding |-> NoRecord, workload |-> body]

SdkPrimary(body) == [provider_id |-> "A", outcome |-> "COMPLETED",
                     finding |-> NoRecord, workload |-> body]

Primaries(body) ==
    CASE client = "generic" ->
            GenericPrimaries \cup { [p EXCEPT !.workload = body] : p \in GenericPrimaries }
      [] client = "sdk" -> {SdkPrimary(body)}
      [] OTHER -> {RestrictedPrimary(body)}

\* The fallback provider carries the digest and a finding for the first violation.
Fallback ==
    [ provider_id |-> "B", outcome |-> "COMPLETED", workload |-> evidence.workload,
      finding |-> IF evidence.body.violations = {} THEN NoRecord ELSE "violation" ]

RunWorkload ==
    /\ stage = "workload"
    /\ WorkStep
    /\ UNCHANGED <<simVars, pipeVars>>

Normalize ==
    /\ stage = "workload"
    /\ \E body \in Normalized :
          /\ task' \in AdapterTasks(body)
          /\ primary' \in Primaries(body)
          /\ evidence' = [body |-> body, workload |-> body, task |-> task']
    /\ reproduced' \in IF client = "generic" THEN BOOLEAN ELSE {TRUE}
    /\ stage' = "authorize"
    /\ UNCHANGED <<simVars, workVars, client, receipt, replay>>

\* The input does not make a workload, or what normalize() returns is not accepted.
NormalizeRaises ==
    /\ stage = "workload"
    /\ stage' = "raised"
    /\ UNCHANGED <<simVars, workVars, client, primary, task, evidence, reproduced, receipt, replay>>

\* A simulator call, and where the pipeline goes in the state it left; any
\* state that is not listed is one the call raised in.
Then(goto) ==
    /\ stage' = IF state' \in DOMAIN goto THEN goto[state'] ELSE "raised"
    /\ UNCHANGED <<workVars, client, primary, task, evidence, reproduced, receipt, replay>>

PipelineAuthorize ==
    /\ stage = "authorize"
    /\ \/ Authorize
       \/ ~(AuthorizationValid(now_unix) /\ ScopeValid(scope, now_unix)) /\ UNCHANGED simVars
    /\ Then([AUTHORIZED |-> "primary"])

PipelinePrimary ==
    /\ stage = "primary"
    /\ ExecutePrimary(task, primary)
    /\ Then([FAILOVER_PENDING |-> "failover", VERIFYING |-> "verify", ABORTED |-> "report"])

PipelineFailover ==
    /\ stage = "failover"
    /\ RecordFailover(Fallback, scope, TRUE)
    /\ Then([FAILOVER_PENDING |-> "fallback"])

PipelineFallback ==
    /\ stage = "fallback"
    /\ ExecuteFallback(task, Fallback)
    /\ Then([VERIFYING |-> "verify"])

PipelineVerify ==
    /\ stage = "verify"
    /\ Verify(reproduced)
    /\ Then([CLOSED |-> "report", VERIFYING |-> "confirm"])

PipelineConfirm ==
    /\ stage = "confirm"
    /\ ConfirmFinding
    /\ Then([CLOSED |-> "report"])

(***************************************************************************)
(* build_evidence_bundle, verify_evidence_bundle and the execution replay, *)
(* whose hook re-runs the workload of the shipped spending adapter and     *)
(* does anything in an adapter of somebody else.                           *)
(***************************************************************************)
PipelineReport ==
    /\ stage = "report"
    /\ receipt' = IF VerifyEvidenceBundle(Bundle(evidence)) THEN "PASS" ELSE "FAIL"
    /\ replay' \in CASE client = "escrow"   -> {"NOT_RUN"}
                     [] client = "spending" -> {"NOT_RUN", "PASS"}
                     [] OTHER -> {"NOT_RUN", "UNSUPPORTED", "PASS", "FAIL"}
    /\ stage' = IF client = "sdk" THEN "typed" ELSE "done"
    /\ UNCHANGED <<simVars, workVars, client, primary, task, evidence, reproduced>>

(***************************************************************************)
(* What run_external_workload adds: it verifies the bundle once more, asks *)
(* that the receipt is the same, and gives a failed replay its public name *)
(* (an exception of the hook or a different result).                       *)
(***************************************************************************)
TypedResult ==
    /\ stage = "typed"
    /\ stage' = IF VerifyEvidenceBundle(Bundle(evidence)) <=> receipt = "PASS"
             THEN "done" ELSE "raised"
    /\ replay' \in IF replay = "FAIL" THEN {"ERROR", "MISMATCH"} ELSE {replay}
    /\ UNCHANGED <<simVars, workVars, client, primary, task, evidence, reproduced, receipt>>

TRCPNext ==
    \/ CallSimulator \/ RunWorkload \/ Normalize \/ NormalizeRaises
    \/ PipelineAuthorize \/ PipelinePrimary \/ PipelineFailover \/ PipelineFallback
    \/ PipelineVerify \/ PipelineConfirm \/ PipelineReport \/ TypedResult

TRCPSpec == TRCPInit /\ [][TRCPNext]_trcpVars

-----------------------------------------------------------------------------
(***************************************************************************)
(* Once authorize has succeeded, verify_evidence_bundle accepts a report   *)
(* exactly when the session has ended and no failover decision is left     *)
(* without its fallback run, whatever calls the session was made of. A     *)
(* session that ends between the two (a provider that does not match, an   *)
(* expiry, a review) cannot be replayed to a PASS, and neither can one     *)
(* with a run whose metadata names a workload, as the report has no        *)
(* evidence of one.                                                        *)
(***************************************************************************)
VerifierAcceptsExactlyFinished ==
    client = "caller" /\ state # "NEW" =>
        ( VerifyEvidenceBundle(Bundle(NoRecord)) <=>
            /\ state \in TerminalStates
            /\ failover # NoRecord => Len(runs) = 2
            /\ \A i \in DOMAIN runs : runs[i].workload = NoRecord )

(***************************************************************************)
(* Whatever happened between authorize and a provider run (time passing,   *)
(* several failover decisions, other scopes), the run was made while the   *)
(* authorization and the first scope were valid, for an action the first   *)
(* scope allows and does not prohibit, and a fallback run is the primary's *)
(* task at the provider the last decision names.                           *)
(***************************************************************************)
RunsWithinGrant ==
    \A i \in DOMAIN runs :
        /\ auth.valid_from <= runs[i].started_at /\ runs[i].started_at <= auth.valid_until
        /\ runs[i].started_at <= initialScope.expires_at
        /\ runs[i].task.action \in initialScope.allowed_actions \ initialScope.prohibited_actions
        /\ runs[i].task = runs[1].task
        /\ i = 2 => failover # NoRecord /\ runs[i].provider = failover.new_provider_id

(***************************************************************************)
(* A shipped consumer whose workload paid out more than it may, whatever   *)
(* the amounts, ends with that finding CONFIRMED and a PASS, and so does   *)
(* the finding of anybody's workload that reports its violations, if it    *)
(* got as far as a fallback run and was reproduced. A finding of a shipped *)
(* consumer has a cause: money moved which should not have, a rejected     *)
(* action was executed, if only for nothing, or an operation was refused.  *)
(* A PASS is exactly for a pipeline whose task pins the workload's digest  *)
(* and one of whose runs carries it, so shipped consumers always have one. *)
(***************************************************************************)
BreachIsConfirmed ==
    /\ /\ stage = "done" /\ Overpaid(machine)
       /\ \/ client \in {"escrow", "spending"}
          \/ Len(runs) = 2 /\ reproduced /\ evidence.body = Body
       => /\ finding # NoRecord /\ finding.status = "CONFIRMED"
          /\ client # "generic" => receipt = "PASS"
    /\ stage = "done" /\ client # "generic" /\ finding # NoRecord =>
         \/ Overpaid(machine) \/ ExecutedThoughRejected(machine)
         \/ violations \cap Refusals # {}
    /\ stage = "done" =>
         /\ receipt = "PASS" <=>
               /\ task.fixture = evidence.workload
               /\ \E i \in DOMAIN runs : runs[i].workload = evidence.workload
         /\ client # "generic" => receipt = "PASS"

(***************************************************************************)
(* The causal lineage put into a bundle is one chain from the              *)
(* authorization to the end, and it names a fallback run, a finding or a   *)
(* verification exactly when the session has one.                          *)
(***************************************************************************)
LineageIsOneStory ==
    LET edges == BuildCausalLineage(Bundle(evidence))
        nodes == { edges[i].to : i \in DOMAIN edges }
    IN  /\ \A i \in DOMAIN edges \ {1} : edges[i].from = edges[i - 1].to
        /\ "FALLBACK_RUN" \in nodes <=> Len(runs) = 2
        /\ "FINDING" \in nodes <=> finding # NoRecord
        /\ "VERIFICATION" \in nodes <=> verification # NoRecord
=============================================================================
