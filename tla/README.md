# TLA+ verification of the LiminalOSAI governance stack

LiminalOSAI lets an agent cause effects (commands, files, network calls, GitHub operations) only through brokers that
decide, bind the decision to a state of the world, commit the effect, and leave a hash-chained record. This directory
models the parts of that stack where order, concurrency and failure matter, checks them with TLC on small instances and
proves the core of them with TLAPS for all instances. Paths below are relative to the repository.

`PROJECT.json` holds the exact correspondence: `map` names the source lines behind every definition, `mutants` names for
every property a plausible bug in the code that the property catches, `hazards` lists where the code is hard to test.

## 1. The system

| Part (source) | State | Operations | Works with |
|---|---|---|---|
| Durable governance fence (`sdk/liminal_durable_governance_fence`) | one SQLite row per root: generation, world, reservation, digest of the last commit | bootstrap, reserve, commit, mutate, reconcile; broker issue/consume; coordinator | every process of a host through the database |
| LiminalDB checkpoint adapter (`sdk/liminal_liminaldb_governance_checkpoint`) | guard row CLEAR/PENDING with a sequence number, history | begin, checkpoint, acknowledge around each store mutation; reconcile | the governance row, in another database |
| Capability broker (`sdk/liminal_capability_broker`) | contracts, status, use counts, receipts | admit, authorize, revoke, expire | wrapped by the epoch binding |
| Epoch-bound capability broker (`sdk/liminal_epoch_bound_capability`) | the world each capability was admitted in | the same, re-checked against the world | capability and configuration broker |
| Bound runtime configuration broker (`sdk/liminal_runtime_config`) | epoch, recorded state, taint, used plans | execute a plan, advance the epoch | revokes capabilities, is the world of leases |
| Runtime mediator (`sdk/liminal_runtime_mediation`) | containment flag, receipts | mediate, enter and exit containment | base class of the committing mediators |
| Effect commit broker (`sdk/liminal_effect_commit`) | one-time leases, commit receipts, containment | issue, consume with a host callback | fence shared with configuration |
| Objective integrity guard (`sdk/liminal_objective_integrity`) | trusted observations, containment evidence | ingest, evaluate, state digest | gates each mediated call |
| Objective-bound commit (`sdk/liminal_objective_effect_commit`) | outer leases and receipts | issue, consume | wraps the effect commit broker |
| Causal escalation (`sdk/liminal_causal_escalation`) | none | risk of a trajectory | used by the ledger |
| Causal-bound commit (`sdk/liminal_causal_effect_commit`) | trajectory ledger, causal leases and receipts | propose, project, issue, consume, append | wraps the objective-bound broker |
| Session recorder (`sdk/liminal_session_recorder`) | append-only journal of visible events, seal | record, seal, verify | locked file |
| Host adapter (`sdk/liminal_host_adapter`) | append-only trace of tool calls | start, finish, recover, seal | correlates its trace with the recorder |
| GitHub bridge and runtime (`sdk/liminal_github_bridge`, `sdk/liminal_github_runtime`) | none of their own | execute one operation | host adapter, connector |
| GitHub transaction (`sdk/liminal_github_transaction`) | plan, journal of steps | run_next, run, reconcile_pending, abort, seal | bridge, recorder and trace: three files |
| Policy engine and approval ledger (`sdk/liminal_github_policy`) | policy, snapshot and approval ledger: three files | create, attest, verify, and run a step or a plan behind the readiness gate | gates the orchestrator |
| Governance capsule, identity attestation (`sdk/liminal_governance_capsule`, `sdk/liminal_identity_attestation`) | signed capsule, attestation bundle, trust stores, replay guard | issue, verify, activate a session, call through it | stand in front of the engine |
| Portable receipt and projection ledger (`sdk/liminal_portable_receipt`) | receipts, append-only journal of projections, snapshot | issue from the engine, verify, append, snapshot, open | read the engine and its journal |
| Containment coordinator (`sdk/liminal_containment`) | state of the incident, transitions | contain, release | lists and revokes capabilities, calls the supervisors |
| Process tree and lineage supervisors (`sdk/liminal_process_tree`, `sdk/liminal_process_lineage`) | sessions with a status; the frozen lineage | register, freeze, quiesce, mark complete | Docker host through callbacks |
| Isolated execution (`sdk/liminal_isolated_execution`, `adapters/docker`) | plan bindings | execute: authorize, run a container | mediator, supervisors |
| Credential, file and package brokers (`sdk/liminal_credential_broker`, `..file_mutation_broker`, `..package_install_broker`, `adapters/`) | leases or seen call ids, receipts, a containment flag each | authorize, consume and act | capability broker |
| Egress gateway (`sdk/liminal_egress_gateway`) | none | execute a call hop by hop | mediator, one charge per hop |
| TRCP (`sdk/liminal_trcp`) | a session with its trace; escrow and spending machines | authorize, run, fail over, report, verify; build and replay a bundle | stands alone |
| Multi-agent delegation, benchmarks (`sdk/liminal_multi_agent`, ...) | a delegation tree; scenarios | delegate, revoke | stand alone |
| C cognitive substrate (`core/`, `bus/`, `memory/`, `dream/`, ...) | floating-point fields in one thread | a pulse loop | none of the above |

Components call each other synchronously. There are five kinds of sharing: a database row used by several processes
(durable fence, checkpoint adapter); objects used by several threads under re-entrant locks (commit brokers, lease
brokers); files that are appended to under a lock per file, while a method reads and writes more than one file (recorder,
host trace, transaction journal); files that are read and replaced, or appended to, without any lock (approval ledger,
projection ledger, the atomic replacer's targets); and the Docker host, which goes on between two callbacks.

What is hard, and what correct means:

- *Durable fence*: processes race and die between reading the row, reserving it, running the effect and committing; an
  operator may reconcile at a bad moment. At most one effect per generation; none stepped over; receipts tell the truth.
- *Checkpoint adapter*: two databases without a common transaction. No mutation of the row goes unmarked.
- *Capability stack*: long legal call sequences and a host that drifts. Power ends with the world it was given in.
- *Commit brokers*: leases are issued and consumed in different critical sections, and host callbacks run inside one.
  An effect happens once, in the bound state, on record, and never inside or across a containment.
- *Host files*: a check in one file is stale when the other is written, and a method can stop in between. Completed
  calls correlate, pending ones can be finished or recovered.
- *Containment*: executions start, fork, time out and are cleaned up by their own threads while the coordinator works
  through its list, and every hook may fail. A clean report means that nothing on the list is left; review is reached.
- *Mediated effects*: replayed call ids, declared times, revocation, expiry and containment between authorization and
  effect. An effect is paid for, told, and stopped by a closed gate.
- *Approvals and evidence*: a decision is taken on a file that another process replaces. What ran was approved; what is
  lost is lost only to an overlap; a receipt says what happened and stays verifiable.
- *TRCP*: any order of calls. Providers run within the first grant, and the verifier accepts what the simulator finished.
- *GitHub transactions*: on top of that, retries. A step is called at most once, in order, and never reported as
  successful without having been.

## 2. Modules

| Module | Models |
|---|---|
| `GovernanceStore` | the row and its five conditional updates, used by the next two |
| `DurableFence` | brokers and coordinators of several processes over the row |
| `EffectOncePerGeneration` | abstract specification of the fence |
| `CheckpointMirror` | the PENDING/acknowledge protocol around the row |
| `GovernanceStore_proofs` | theorems about `DurableFence` and `CheckpointMirror`, the two protocols over the row |
| `CapabilityWorld` | capability broker, epoch binding and configuration broker in one thread |
| `EffectCommit` | the effect commit broker with its two locks, at the grain of lock acquisitions and unlocked writes |
| `SerialEffects` | abstract specification of the effect commit broker |
| `TrajectoryRisk` | risk score and decision of a trajectory, as operators |
| `BoundEffectCommit` | objective-bound and causal-bound brokers over that risk |
| `HostTrace` | recorder and host trace |
| `GitHubTransaction` | extends `HostTrace` by the journal, bridge and connector |
| `ExecutionHost` | capabilities, executions and containers that a containment meets |
| `ProcessTree`, `ProcessLineage` | the two supervisors over that host |
| `Containment` | the coordinator, composed with host and supervisors |
| `ChargedCapabilities` | the capability broker, clock and gates that mediated effects share |
| `CredentialUse`, `FileReplacement`, `RuntimeCalls` | credential injection, atomic file replacement, network calls and package installs |
| `MediatedEffects` | those three, composed under one authority |
| `TRCPReplay` | evidence bundle, causal lineage and replay checks, as predicates |
| `TRCPSimulator`, `TRCPWorkload` | the simulator's session; the escrow and spending machines |
| `TRCPPipeline` | a caller or a consumer pipeline over them, to the receipt |
| `ApprovalLedger`, `ApprovalEngine` | policies, requirements and readiness; the engine's methods in several processes |
| `PortableEvidence` | capsules, attestations, sessions and portable receipts above the engine |
| `ProjectionLedger` | the journal of receipt projections |
| `GovernedTransaction` | engine, evidence and projections, composed |
| `CapabilityWorld_proofs`, `EffectCommit_proofs`, `BoundEffectCommit_proofs`, `GitHubTransaction_proofs` (with `HostTrace`), `Containment_proofs`, `MediatedEffects_proofs` | theorems about the modules they are named after |
| `Evidence_proofs` | theorems about `GovernedTransaction` and `TRCPPipeline`, whose subject is evidence somebody else reads |
| `MC*` | constants and symmetry for TLC |

Conventions. A digest is the value it covers, so comparing digests is equality; a hash chain that is only appended to is
represented by its length. Signatures, tokens, timestamps that nothing depends on and the layout of documents are left
out. A call that raises before it changes anything is not a step, unless it ends a method that had begun. Every
definition called `Bug...` is the mutated form of the definition that follows it and is used by no specification.
Variables described as *history* are written and never read by the code's actions.

Some modules carry a choice that is made once in `Init` and never changes, so that one run covers several deployments:
`epochBound` in `CapabilityWorld` (wrapper installed or plain broker), `patient` in `DurableFence` and `careful` in
`CheckpointMirror` (does the operator reconcile only abandoned work), `serial` in `HostTrace` (does the host let one
process at a time use the adapter), `causal` in `BoundEffectCommit` (causal broker on top or not), `profile` in
`ExecutionHost` (which supervisor the hooks reach), `part` in `MediatedEffects`, `client` in `TRCPPipeline` and `boundary`
in `GovernedTransaction` (what the behaviour uses). Properties that need a deployment name it.

### How state and actions correspond to code

- **GovernanceStore / DurableFence.** `generation`, `world`, `reservation` are the columns; `closedBy` is a ghost that
  keeps, for every past generation, the transition receipt that closed it. Each SQL transaction is one action. A process's `issue_for_trusted_adapter` is `IssueRead`, then
  `IssueReserve` or `IssueRefused`; `consume_for_trusted_adapter` is `ConsumeCheck` (or `ConsumeTimeInvalid`), the
  effect, and `Finalize`, `FinalizeFails` or `RecordFailure`. `Crash` drops a process's lease handles at any point.
  Coordinators read, then mutate or reconcile with what they read.
- **CheckpointMirror.** A call is begin (marker), store mutation, checkpoint through the bridge, acknowledge; each
  database access is an action, and a caller may stop between any two.
- **CapabilityWorld.** One action per public method, whole. `execute` of a plan ends in `ExecuteRefused`, `ExecuteStale`,
  `ExecuteBlocked` or `ExecuteAdmitted`; the last covers a host that reached the planned state, another one, or cannot
  be observed afterwards. `HostDrift` changes the host by other hands.
- **EffectCommit.** `ConfigStart ... ConfigEnd` are the single writes of a configuration under the fence; issuing takes
  only the broker's own lock, committing both; capabilities, sessions and the clock change under neither. The callback is assumed to call
  neither broker: both locks are re-entrant (`liminal_effect_commit/__init__.py:75`, `:296`), so on its own thread it could
  enter containment (`:300`) or configure the runtime while its effect runs.
- **BoundEffectCommit.** A mediated call is `Gate`, `Propose` (causal), `Issue`, and one of the `Consume...` actions,
  each under one hold of the fence. `ConsumeStart` keeps the fence until `CallbackFails`, `CallbackSucceeds` or
  `EvidenceFails`. Any adapter may present any lease again. The running callback may itself ingest an observation or
  append an event, since the fence is re-entrant; `reentered` remembers this. The inner broker refuses or runs.
- **HostTrace / GitHubTransaction.** A method is one action per file append, with the reads that precede it; an append
  re-validates its own file under that file's lock. `Stop` ends a method anywhere.
- **Containment.** `contain` is one action per hook call: list, revoke one capability, freeze, quiesce, review. The
  supervisors' loops take one action per host callback (`inspect`, `freeze`, `terminate`, `verify`), which may fail with or
  without an effect, and `Elsewhere` is everything that goes on meanwhile: executions, forks and deaths, emergency cleanup
  after a timeout in the execution's own thread, capability changes, registration. An execution is authorized first and
  starts its container later. `ProcessLineage` follows the processes of one container one by one.
- **MediatedEffects.** `authorize` of a capability is one action because every type is charged by one broker under that
  broker's lock, or by the runtime's single thread; `CapabilityBroker` itself has no lock. A lease is authorized, consumed
  and used in separate actions. The replacer is `FirstDigest`, write, `SecondDigest`, rename, `VerifyReplaced`, with another
  lease and an outside writer in between. A network call charges and transports each hop; servers, DNS and transport
  answer freely. Each behaviour uses one `part`, since the parts share nothing but the clock.
- **TRCP.** A method of the simulator is an action, taken by a caller in any state; a consumer pipeline takes them in its
  own order and any of its steps may raise. A caller's provider metadata may declare a workload; the amounts asked for
  are any integers, since `request_action` checks none; an adapter of somebody else may return a result without violations
  and a task that pins no digest, or another. `TRCPReplay` states the verifier over a bundle, and the bundle is rebuilt from
  the session's state.
- **ApprovalEngine ... GovernedTransaction.** A method is one action per file it reads or replaces: attest is `RecordVerify`,
  `RecordRead` and `RecordWrite`; run is the gate's read and then the orchestrator's steps. A session reads the ledger, then the engine
  reads it again. A receipt is issued in as many actions as it reads the engine. `verify` is one read. The orchestrator is
  reduced to its journal; `GitHubTransaction` has its detail.

## 3. Runs

| Run | Instance | States | Shows |
|---|---|---|---|
| `durable_fence` | 2 processes, 1 coordinator, 2 worlds, 2 authorizations, generations 0..2, patient and impatient operator, fair | 467,000 | `OneEffectPerGeneration`, `EffectAccountedFor`, `ReceiptsTruthful`, `EffectHoldsReservation`, `ReservationReleased`, and that the fence implements `EffectOncePerGeneration` |
| `capability_world` | 2 ids, both stacks, 2 states, times and epochs 0..2 | 73,000 | power ends with its epoch (`OldEpochPowerless`) and its world (`UsedOnlyInBoundWorld`), nothing revoked comes back (`NeverActiveAgain`) |
| `effect_commit` | 2 adapters, 2 operators, 2 leases | 2,015,000 | effects run in the leased world (`EffectInLeasedWorld`), once and on record (`EffectsOnceOnRecord`), not in containment, whose flags agree (`ContainmentHolds`) |
| `checkpoint_mirror` | 2 callers, generations 0..2, 3 markers | 734,000 | `NoSilentTransition`; the mirror is the row's history when clear, and acknowledged means made (`MirrorFaithful`) |
| `host_trace` | 2 processes, 2 calls, 2 visible events | 83,000 | one outcome per call in both files (`TraceTellsOutcome`), pending calls can be completed (`PendingCanComplete`), one is pending and completed ones correlate (`CallsCorrelate`) |
| `github_transaction` | 2 processes, a read then a write, 2 stops | 260,000 | `CalledOnceInPlanOrder`; no invented success, files that agree (`CheckpointsHonest`) |
| `github_completes` | 1 process, 1 stop, fair | counterexample | the finding of section 4 |
| `bound_effect_commit` | 2 adapters, 2 operations, 1 host event, 2 leases, 2 releases, both stacks | 990,000 | see below |
| `containment` | 2 executions, 3 processes in one container, 3 supervisor profiles, fair | 645,000 | see below |
| `mediated_effects` | 2 calls, 2 threads, 2 contents, time 0..2, 1 redirect, 1 incident per gate | 525,000 | see below |
| `trcp` | 5 clients, 2 authorizations, 8 scopes, 1 foreign digest, amounts -20, 0, 100, 120, time 0..2, 2 decisions, 4 workload steps | 2,467,000 | see below |
| `governed_transaction` | 4 policies, 2 principals, 2 processes, 2 attestations, 1 receipt; 2 writers of 3 projections | 720,000 | see below |

All passing runs explore every reachable state of their instance, up to the symmetry their cfg declares (rounded numbers
of distinct states above).

`bound_effect_commit`: while a callback runs that does not itself use guard or ledger, the objective state and the
trajectory are those of its lease, and a lease from before a containment does not survive the release
(`EffectInBoundState`); no effect runs that would take the trajectory out of ALLOW, even if two effects were proposed on
the same trajectory (`EffectsKeepTrajectoryAllowed`); SUCCEEDED of the causal broker means the event is in the chain at
the projected place, once, a lease runs once and the brokers' receipts agree (`EvidenceMatchesEffects`). The module of
this run also evaluates, over all kind sequences up to length 5, that the cursor walk of `_ordered_subsequence` finds
exactly the ordered subsequences (`GreedyAssumption`).

`containment`: a containment that reports no partial failure left none of the capabilities it had listed active and none
of the sessions the supervisor knew with a container (`CleanMeansQuiet`); what a supervisor calls terminated or complete is
gone, and a lineage receipt accounts for every process that was frozen (`TerminalIsGone`); review is always reached
(`ReachesReview`).

`mediated_effects`: effects never exceed charged uses, and a lease or install id has at most one (`ChargesCoverEffects`);
receipts tell what was done (`ReceiptsTellEffects`); the replacer loses a change only if it was made after its second look
(`StaleWritesOnlyInWindow`, the window itself exists); declaring an earlier time gains nothing with the lease brokers
(`BackdatingGainsNothing`; the egress gateway is outside it, because it judges expiry by the time a request declares);
behind a closed gate only calls that had passed it act (`ContainmentIsPrompt`).

`trcp`: the replay verifier accepts exactly the bundles of finished sessions in which every failover decision led to a run
and no run declares a workload, which a caller's report has no evidence of (`VerifierAcceptsExactlyFinished`,
`replay.py:668-674`); provider runs stay within the first grant through any number of failover decisions
(`RunsWithinGrant`); a shipped consumer's overpaying workload ends in a confirmed finding and a PASS whatever the
amounts, and so does anybody's that reports its violations and is reproduced (of an adapter of somebody else, the finding
only); a finding of a shipped consumer has a cause; PASS means exactly that the task pins the workload's digest and a run
carries it (`BreachIsConfirmed`); the lineage is one chain that names what the session has
(`LineageIsOneStory`).

`governed_transaction`: a written attestation is missing only if it was exposed to an overlapping replacement
(`LossOnlyToOverlap`); a step that runs was approved as its rule demands in the ledger its process was let through on, and
a denial missing there was so exposed (`StepsWereApproved`); a session runs on the approvals its capsule was signed for,
unless one was written between its look and the engine's (`RunsOnSignedApprovals`); a receipt says what the journal held
at the head it names, or the engine refuses it (`ReceiptTellsTheJournal`); it verifies after its windows closed and exactly
while the trust stores are unchanged (`ReceiptsOutliveTheirWindows`); acknowledged projections stay (`ProjectionsKept`).

**Bounds and why they suffice.** Two actors are enough for every race in this code: each check-then-act pair involves one
process that read and one that wrote in between, and every lock and slot is exclusive. Two generations, leases or steps
let a stale one meet a fresh one, and `MaxGen = 2` leaves one generation to be reserved after a reconciliation. Two worlds
tell "changed" from "unchanged" and allow a change back. The two operations of `bound_effect_commit` are harmless one by
one and in one order, and an escalation in the other (R-CRED-CHILD), and the host event makes either an escalation. In
`containment` two executions let one be cleaned up by its own thread while the other is quiesced, and three processes give
a fork during the freeze and a reparented grandchild. In `mediated_effects` two uses, two calls and two threads let a
replay meet its original and two leases expect the same content; one redirect is the first hop that was not requested. In
`trcp` the eight scopes differ from the first in one way each, and the amounts are negative, zero, the limit of one action
and above it. In `governed_transaction` two attestations are a lost one
and its replacer, or an approval and a denial; windows are a single instant and a tick is longer than any of them; one
receipt suffices because receipts do not refer to each other. Every bound is a named constant.

**Deadlock** is checked in `durable_fence`, `capability_world`, `effect_commit`, `checkpoint_mirror` and
`bound_effect_commit`. The others may stop: a sealed session, a terminal transaction, a released containment, spent
capabilities and a finished session accept nothing more.

**Fairness.** Three runs use it. `durable_fence` (`DurableFence!Fairness`): a process that is inside the fence and does not
crash goes on (it is straight-line code with a bounded wait for SQLite), a live lease is consumed or runs into its
deadline, and an operator eventually reads the row and reconciles, the patient one when the holder is gone. The last is an
assumption on people that the code's documentation makes explicit: nothing else frees a stuck reservation, which is what
`ReservationReleased` depends on. `containment` (`FairSpec`): the coordinator's thread goes on; its callbacks have
timeouts. `github_completes` (`GitHubTransaction!FairSpec`): the host keeps calling `run` and `reconcile_pending`
when it can and ends methods it has begun, an `abort` among them, which it need not begin; under it an announced outcome still does not come about.

The modules' type invariants hold of the same instances; those of the modules with proofs are theorems or conjuncts of an
inductive invariant.

## 4. Findings and known disagreements

`github_completes` is a run of its own: a stop between the last `step_finished` and `transaction_completed`
(`_orchestrator.py:437`) leaves a transaction that no call completes and whose session cannot be sealed.

In these places the models follow the code where a document says otherwise, and properties are stated for the code:

- *Capabilities after a drift.* `docs/BOUND_RUNTIME_CONFIGURATION_BROKER.md:19` says that a capability admitted for one
  runtime state must not remain usable after it changes. A configuration call that meets a drifted host records the new
  state without an epoch change (`liminal_runtime_config/__init__.py:255`), and the plain broker's capabilities stay
  usable. `UsedOnlyInBoundWorld` is stated for the epoch binding wrapper, which notices.
- *Visible events under a pending call.* `docs/CHATGPT_HOST_INTEGRATION_ADAPTER.md:137` excludes them, but `record_*`
  checks one file and appends to another under another lock (`_adapter.py:474`); a call started in between can then be
  neither finished nor recovered. `PendingCanComplete` is stated for hosts that let one process act at a time.
- *Reconciling a response without a declared export.* `docs/CHATGPT_GITHUB_TRANSACTION_ORCHESTRATOR.md:236-238` promises a
  reconciled checkpoint for a retained receipt; `reconcile_pending` lets the export error escape (`_orchestrator.py:526`),
  and the step stays pending for good.
- *Containers started after a containment.* `docs/PROCESS_TREE_ACTIVE_CONTAINMENT.md:131` says that a session which lost
  its authority leaves no process without recorded evidence. An execution that was already authorized starts its container
  when `DockerExecutor` gets to run (`liminal_docker_executor.py:310`), after a containment that found no session.
  `CleanMeansQuiet` is stated of what the containment had listed.
- *Lost denials.* `docs/CHATGPT_GITHUB_TRANSACTION_POLICY.md:103` says the approval ledger is append-only and `:32` that a
  denial vetoes execution. An attestation is added by reading the ledger, extending it and replacing the file without a
  lock (`_ledger.py:206`), so one written in between by another process is lost, and a lost denial vetoes nothing.
  `LossOnlyToOverlap` says that this is the only way, and `StepsWereApproved` excepts denials lost in it.

Seen while modelling: re-admission of a revoked contract is answered ALLOW although the capability stays revoked
(`broker.py:116`); a seal can race a call that is just starting; two concurrent `run_next` can both append `step_started`,
after which the journal is invalid, while GitHub is still called only once; a release receipt that is used twice revives
leases issued between its two uses (the exception in `EffectInBoundState`); after `EFFECT_SUCCEEDED_EVIDENCE_FAILED` the
trajectory lacks an effect that happened; a file lease is valid at its last second and a credential lease is not; a
`NOT_EXECUTED` network receipt can follow hops that were transported and paid for; an install whose bound workspace is
absolute but not normalized raises after it was charged, without a receipt; a session that ended after its failover
decision and before the fallback run is finished for the simulator and refused by the verifier; any change of a trust
store makes every earlier portable receipt unverifiable; a line added to the projection journal after its snapshot keeps
it from being opened again; a rejected spending action can be executed, and for an amount of zero the machine reports only
`terminal-exclusivity`, with nothing spent; a negative
amount is executed too and lowers the total spent.

## 5. Proofs

Every safety property of a passing run, action properties and the refinement included, is a theorem for all values of the
constants; only liveness is left to TLC. Each proof has an inductive invariant that TLC first checked on the
instance of the run, one lemma per action or group of actions, and under it one step per conjunct the action can disturb.
The final theorems follow from the invariant alone, or, for action properties, from the invariant and the step.

| Properties of | Theorems | Inductive invariant |
|---|---|---|
| `DurableFence` | `TypeCorrect`, `AtMostOneEffect`, `NoLostEffect`, `Truthful`, `HeldUntilAdvance`, `ReconciledCannotPublish`, `ReservationCoversEffect`, `Refinement` | `IInv`, `PatientInv` |
| `CheckpointMirror` | `NothingSilent`, `MirrorTellsTheRow` | `MirrorIInv` |
| `CapabilityWorld` | `TypeCorrect`, `NoStaleAuthority`, `RevocationIsFinal`, `UsesAreBound`, `BudgetsAndDelegation` | `IInv` |
| `EffectCommit` | `TypeCorrect`, `EffectsInTheirWorld`, `OneEffectOneReceipt`, `ContainmentIsReal`, `EffectsAreSerial` | `IInv`, `IssueGate` |
| `BoundEffectCommit` | `TypeCorrect`, `EffectsInTheirState`, `TrajectoryStaysAllowed`, `EvidenceTells` | `IInv` |
| `HostTrace` | `HostTypeCorrect`, `FinishTellsOutcome`, `NoDeadEnd`, `VerifyAccepts` | `HostIInv` |
| `GitHubTransaction` | `TypeCorrect`, `NeverReplayed`, `CheckpointsTell`, `RunsOnTheHost` | `IInv` |
| `Containment` | `TypeCorrect`, `TerminalMeansGone`, `CleanIsQuiet` | `IInv` |
| `MediatedEffects` | `TypeCorrect`, `ChargesCover`, `ReceiptsTell`, `LostUpdatesOnlyInWindow`, `HostClockDecides`, `ContainmentPrompt` | `IInv` |
| `GovernedTransaction` | `LossOnlyByOverlap`, `StepsAreApproved`, `SignedApprovalsOnly`, `ReceiptsTellTheJournal`, `ReceiptsOutlive`, `ProjectionsAreKept` | `EngineInv`, `GateInv`, `SessionInv`, `ReceiptInv`, `JournalInv`, `ProjectionInv` |
| `TRCPPipeline` | `SessionInvariant`, `SessionWithinGrant`, `SessionLineage`, `VerifierVerdict`, `BreachEndsConfirmed` | `PipeInv` |

*Assumptions* are the named `ASSUME`s of the modules, which TLC evaluates in the runs: bounds are natural numbers, the
values that stand for "none" (no reservation, no world, no file, nobody, no lease) are not ordinary ones, sets of processes or sessions
are finite where they are counted, amounts are integers (`AmountsAssumption` of `TRCPWorkload`), documents have their fields (`DocumentsAssumption` of `TRCPPipeline`; its `LiteralsAssumption` lists names the code uses as strings, which the prover does not know to be any). Four say more. `PlanAssumption` of `GitHubTransaction` is what the plan's validation
enforces: calls are distinct and gates refer back. `PolicyAssumption` of `ApprovalLedger` is what `from_value` enforces of
a rule. `IdAssumption` and `KindsAssumption` of `BoundEffectCommit`: ids identify events, and an operation's event is not
a host event, since the broker prefixes its ids with `effect-proposal:` (`liminal_causal_effect_commit/__init__.py:131`).

*Arguments*, with what the property alone lacks.

- **DurableFence.** `OneEffectPerGeneration` does not say who may still run an effect. `IInv` adds `RowInv` (the
  reservation belongs to the current generation and world; exactly the past generations are closed), `TokenInv` (every
  lease handle, live or in flight, stands for a grant that holds the row or was reconciled, and no two for the same
  grant), `RunInv` (whoever may still run an effect has not run it), `ReceiptInv` (a failure receipt leaves no handle
  behind) and `ViewInv`. By `SameGeneration` two grants of one generation are the same lease, so a second effect would need
  a second handle. `PatientInv` adds that with a patient operator a handle in flight holds the row. The refinement maps
  `executed` to `runs` and the kinds of `closedBy` to `result`, and every step to one abstract step or a stutter.
- **CheckpointMirror.** `acknowledge` compares intents, not markers, so after an operator cleared a marker a late caller can
  clear the next caller's. `MadeOnce` (the row makes the transition of an intent at most once), `GuardTells` (what was made
  under the pending marker is what its intent says) and `Holding` (a caller that lost its marker was reconciled, or is too
  late to change the row) show that such an acknowledgement still names the transition made, or there is none. `Owes` keeps
  the evidence of a caller equal to its transition, although half of it was read before the marker was taken: a generation
  never comes back. `Sole` says that calls are serial while no marker was cleared under a running one.
- **CapabilityWorld.** `StatusRecorded` (a status exactly for a known contract) keeps re-admission from reviving a
  capability; `OldEpochPowerless` is what `_advance_epoch` restores by revoking everything.
- **EffectCommit.** `LockInv` says who holds the fence and the broker's lock: a callback runs under both, so neither
  configuration nor another adapter moves. `LeaseInv` and `RecordInv` tie the number of callbacks and receipts of a lease
  to its consumed flag. `EffectsAreSerial` says that the broker implements `SerialEffects`, in which there are no threads:
  effects run one at a time, and while one runs the world stands still and no containment begins or ends. The mapping
  reads an effect's progress off its lease and its receipts (`Progress`). Every write of a configuration and of a
  containment then needs that no effect runs (`Quiet`), which `LockInv` gives, and a grant that the broker is not
  contained, although `issue_for_trusted_adapter` checks that when it starts: `IssueGate` carries it to the end of the
  call. TLC also checked this refinement, on the instance of `EffectCommit.cfg` with one operator (1,032,400 states); it
  is not part of a run.
- **BoundEffectCommit.** `Remembers` says what a lease keeps of its issue, `InCallback` what holds while its effect runs,
  `Accounted`, `InChain` and `Projected` what is left behind. Nothing is used of `Decision`: the trajectory stays in ALLOW
  whatever the risk rules are, because the chain at the effect is the one the decision was about.
- **HostTrace and GitHubTransaction.** `HostIInv` says for each process between its two appends what the other file
  still lacks (`Holding`) and, for a serial host, that only one is there (`SerialInv`, `OnePending`). `RunsOnTheHost` is a
  refinement by projection: a transaction's step is a step of the host or leaves the host's files alone, so the host's
  theorems hold of transactions. `TransactionInv` adds the journal, for valid journals only: two concurrent `run_next`
  can invalidate it, after which nothing is accepted. `Paid` and `Relies` connect what a process is about to append with
  what GitHub was called for.
- **Containment.** A status is set from an inspection that may be old. `HostInv` says that a container that is gone stays
  gone, `TreeInv` what the loops have settled and still have to do, `LineageInv` what observations of the lineage stand
  for, `PhaseInv` and `CapsInv` where `contain` is and what it has left.
- **MediatedEffects.** One part per component (`CredAll`, `FileAll`, `RunAll`) over a common `Core`. That a lease has at most
  one effect rests on which threads are past its consumption, that charges cover effects on the charge already made for
  the hop or run in hand.
- **GovernedTransaction.** `EngineInv`: what a process is about to overwrite the ledger with lacks only attestations that
  were exposed to it. `GateInv` and `SessionInv` keep what a process was let through on, from one reading of the file to the
  next; `ReceiptInv`, `JournalInv` and `ProjectionInv` do the same for receipts and projections.
- **TRCPPipeline.** The verifier reads the trace and the records, and the simulator never checks that they agree.
  `TraceInv` states it of a trace alone, in terms of the state, the runs, the decision, the finding and the verification it
  should lead to: numbered and ordered events, transitions that form one path from NEW, one event per run, a decision
  before the second run, a finding before its verification. Five kinds of events keep or extend it (`TraceMove`,
  `TraceRun`, ...); a call of the simulator records a list of them, so each call keeps `SimInv`, which adds that the
  effective scope is within the first one (`ScopeInv`), that every run was granted (`GrantInv`) and what a state says of
  the records (`PhaseInv`). `SimInv` gives `RunsWithinGrant` and `LineageIsOneStory`. By lemma `Verifier` all replay checks
  but three then hold of any report made after `authorize`: what decides is whether the session has ended, whether a
  decision lacks its run, and the workload binding: that no run of a caller declares a workload, and of a consumer what task
  and runs carry. For `BreachIsConfirmed`, `WorkInv` says that whatever is
  reported beyond a refusal is money that moved or a rejected action that was executed, over all integers (`Caused`), and `Paid` that something was executed if anything was spent; `StageInv` in which state of the
  session a pipeline is at each of its calls; `BindingInv` that its runs carry its own workload, and `ConfirmInv` that the
  fallback's finding is there exactly when the workload has violations.

Failed proofs changed the model. `ApprovalEngine` kept the recorded attestations as a set and so missed that an
equal attestation can be written again, which `RunsOnSignedApprovals` depends on; `recorded` is a sequence now.
`ReceiptTellsTheJournal` needed the pending step of a journal as an operator of its own (`PendingIn`). `ChargesCoverEffects`
counts effects as a set of units (`UnitsOf`), the same number as the sum over calls it was, for finitely many calls or not.
`DurableFence` had the operator's discipline as a constant and its run as a variable, so theorem and run stated two
properties; it is the variable `patient` now and `EffectHoldsReservation` is one property.

*Only model-checked.* Liveness (`ReservationReleased`, `ReachesReview`, the finding), which is outside the prover's
temporal logic. What recursive definitions compute for every input, such as the cursor walk of `_ordered_subsequence`
(`GreedyAssumption`), needs induction over data and is checked over bounded inputs.

## 6. Not modelled

Validation and layout of documents, canonical JSON, hashing and signatures; SQLite and file-system internals (a
transaction, a locked append and a rename are atomic); the subprocess and archive work of the wheel materializer;
command-line parsing, exporters and normalizers. The C substrate is single-threaded floating-point simulation, which TLC
cannot represent and about which the code states no exact property. Multi-agent delegation is a sequential tree in memory
that nothing else uses.

Assumptions of the newer models, beyond the bounds. `MediatedEffects`: the runtime, which has no lock, is one thread, and
each capability type is used through one broker; the gateway keeps no set of seen calls, so a repeated network call is a
new call. `GovernedTransaction`: files change only through the engine, so a plan does not drift under its snapshot;
approval ids are fresh; a capsule's issue time is the time of signing; key validity periods cover the run; the identity and
the KMS statement share a window and a store; one capsule per tick and one identity session at a time; `run_next` is called
through the engine only; `seal` and `export_live_session`, which pass the same gate, are left out. `TRCP`: bundles are the
ones `build_evidence_bundle` makes, not edited ones. `Containment`: the processes of one container are followed one by one,
those of the other only as a container.

## 7. Plan

Done, in this order: store and fence with proofs and abstract specification; capability world; effect commit; checkpoint
mirror; host trace; GitHub transaction; objective- and causal-bound commit; containment with both supervisors; TRCP;
mediated effects; approvals, evidence and projections.

Theorems: store, fence and mirror; capability world; effect commit; approvals, evidence and projections; containment;
mediated effects; host trace and GitHub transaction; bound effect commit; TRCP.

Next:

1. `SerialEffects` for the bound brokers too, with a grant that carries the objective and the trajectory.
2. Multi-agent delegation: `revoke_tree` over ids that were delegated more than once.
