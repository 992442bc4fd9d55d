---------------------------- MODULE TRCPWorkload ----------------------------
(***************************************************************************)
(* The two stateful workloads that TRCP consumers run: the escrow of       *)
(* sdk/liminal_trcp/consumer.py and the delegated spending control of      *)
(* delegated_spending.py. Both record what the caller attempts, report the *)
(* invariants an operation left broken, and report operations they refuse. *)
(* The escrow path ends at the first refusal, the spending one goes on.    *)
(***************************************************************************)
EXTENDS Integers, FiniteSets

CONSTANTS
    Amounts,     \* the amounts an agent asks for; request_action checks none
    MaxSteps     \* bound on the operations of one workload

ASSUME AmountsAssumption == Amounts \subseteq Int

VARIABLES
    kind,         \* "escrow" or "spending"
    machine,      \* [state, out, back, amount, executed, rejected]: out is the
                  \* released or spent amount, back the refunded one, amount the
                  \* requested one, executed: last_executed_amount is not None
    violations,   \* the invariant_ids reported
    steps,        \* operations attempted
    running       \* the path has not been cut short by a refusal

workVars == <<kind, machine, violations, steps, running>>

DepositAmount   == 100
ReleaseAmount   == 60
RefundAmount    == 40
PerActionLimit  == 100
CumulativeQuota == 150

\* ContractState and DelegatedSpendingFixture, and the ids of a violation.
Machines ==
    [ state : {"CREATED", "FUNDED", "RELEASE_REQUESTED", "RELEASED", "REFUNDED", "ACTIVE",
               "ACTION_REQUESTED", "APPROVED", "REJECTED", "EXECUTED"},
      out : Int, back : Int, amount : Int, executed : BOOLEAN, rejected : BOOLEAN ]

Refusals == {"transition_validation", "authority", "malformed_operation"}

Violations ==
    Refusals \cup {"payout_conservation", "terminal_state_exclusivity", "per_action_limit",
                   "cumulative_quota", "terminal_exclusivity", "rejected_action_no_mutation"}

WorkInit(k) ==
    /\ kind = k
    /\ machine = [state |-> IF k = "escrow" THEN "CREATED" ELSE "ACTIVE",
                  out |-> 0, back |-> 0, amount |-> 0, executed |-> FALSE,
                  rejected |-> FALSE]
    /\ violations = {} /\ steps = 0 /\ running = TRUE

\* The ids whose condition holds.
Broken(conditions) == { id \in DOMAIN conditions : conditions[id] }

\* ContractState.invariant_report
EscrowReport(m) == Broken(
    [ payout_conservation |-> m.out + m.back > DepositAmount,
      terminal_state_exclusivity |->
          (m.state = "RELEASED" /\ m.back # 0) \/ (m.state = "REFUNDED" /\ m.out # 0) ])

\* The spending report that only looks at the last action.
BugSpendingReport(m) == Broken(
    [ per_action_limit |-> m.executed /\ m.amount > PerActionLimit,
      terminal_exclusivity |->
          (m.state = "EXECUTED" /\ m.rejected) \/ (m.state = "REJECTED" /\ m.out > 0),
      rejected_action_no_mutation |-> m.rejected /\ m.out > 0 ])

\* DelegatedSpendingFixture._check_invariants. last_executed_amount is the requested
\* amount, which never changes once something was executed.
SpendingReport(m) == Broken(
    [ per_action_limit |-> m.executed /\ m.amount > PerActionLimit,
      cumulative_quota |-> m.out > CumulativeQuota,
      terminal_exclusivity |->
          (m.state = "EXECUTED" /\ m.rejected) \/ (m.state = "REJECTED" /\ m.out > 0),
      rejected_action_no_mutation |-> m.rejected /\ m.out > 0 ])

Report(m) == IF kind = "escrow" THEN EscrowReport(m) ELSE SpendingReport(m)

(***************************************************************************)
(* One operation: it needs one of the states from and the actor right, and *)
(* makes the machine next; otherwise it is refused and reported.           *)
(***************************************************************************)
Refuse(id) ==
    /\ violations' = violations \cup {id}
    /\ running' = (kind # "escrow")
    /\ UNCHANGED machine

Operation(k, from, actor, right, next) ==
    /\ kind = k /\ running /\ steps < MaxSteps
    /\ steps' = steps + 1
    /\ \/ machine.state \notin from /\ Refuse("transition_validation")
       \/ machine.state \in from /\ actor # right /\ Refuse("authority")
       \/ /\ machine.state \in from /\ actor = right
          /\ machine' = next
          /\ violations' = violations \cup Report(next)
          /\ UNCHANGED running
    /\ UNCHANGED kind

Fund(actor) ==
    Operation("escrow", {"CREATED"}, actor, "buyer", [machine EXCEPT !.state = "FUNDED"])

ReleaseRequest(actor) ==
    Operation("escrow", {"FUNDED"}, actor, "buyer",
              [machine EXCEPT !.state = "RELEASE_REQUESTED"])

Release(actor) ==
    Operation("escrow", {"RELEASE_REQUESTED", "REFUNDED", "RELEASED"}, actor, "buyer",
              [machine EXCEPT !.state = "RELEASED", !.out = @ + ReleaseAmount])

Refund(actor) ==
    Operation("escrow", {"FUNDED"}, actor, "buyer",
              [machine EXCEPT !.state = "REFUNDED", !.back = @ + RefundAmount])

RequestAction(actor, n) ==
    Operation("spending", {"ACTIVE"}, actor, "agent",
              [machine EXCEPT !.state = "ACTION_REQUESTED", !.amount = n])

Approve(actor) ==
    Operation("spending", {"ACTION_REQUESTED"}, actor, "approver",
              [machine EXCEPT !.state = "APPROVED"])

Reject(actor) ==
    Operation("spending", {"ACTION_REQUESTED"}, actor, "approver",
              [machine EXCEPT !.state = "REJECTED", !.rejected = TRUE])

Execute(actor) ==
    Operation("spending", {"APPROVED", "REJECTED", "EXECUTED"}, actor, "agent",
              [machine EXCEPT !.state = "EXECUTED", !.out = @ + machine.amount,
                              !.executed = TRUE])

\* An operation delegated_workload_result does not know, or without its fields.
Malformed ==
    /\ kind = "spending" /\ running /\ steps < MaxSteps
    /\ steps' = steps + 1
    /\ violations' = violations \cup {"malformed_operation"}
    /\ UNCHANGED <<kind, machine, running>>

WorkStep ==
    \/ \E actor \in {"buyer", "seller"} :
          Fund(actor) \/ ReleaseRequest(actor) \/ Release(actor) \/ Refund(actor)
    \/ \E actor \in {"agent", "approver"} :
          \/ \E n \in Amounts : RequestAction(actor, n)
          \/ Approve(actor) \/ Reject(actor) \/ Execute(actor)
    \/ Malformed

(***************************************************************************)
(* What a reader would call a breach, from the money that moved: more was  *)
(* paid than was there, both parties were paid, a rejected action was paid *)
(* or one action exceeded its limit. A rejected action can also be         *)
(* executed for nothing, or for a negative amount.                         *)
(***************************************************************************)
Overpaid(m) ==
    IF kind = "escrow"
    THEN m.out + m.back > DepositAmount \/ (m.out > 0 /\ m.back > 0)
    ELSE \/ m.out > CumulativeQuota
         \/ m.out > 0 /\ (m.rejected \/ m.amount > PerActionLimit)

ExecutedThoughRejected(m) == m.rejected /\ m.executed
=============================================================================
