------------------------------- MODULE MCTRCP -------------------------------
(* Small instance of TRCPPipeline for TLC. *)
EXTENDS TRCPPipeline

Authorization ==
    [ authorization_id |-> "a", asset_id |-> "repo", valid_from |-> 0, valid_until |-> 1,
      allowed_activity_classes |-> {"analysis"} ]

MCAuthorizations == {Authorization, [Authorization EXCEPT !.valid_from = 1]}

Base ==
    [ scope_id |-> "home", authorization_id |-> "a", allowed_targets |-> {"repo"},
      allowed_actions |-> {"read", "run"}, allowed_environments |-> {"LOCAL_FIXTURE"},
      prohibited_actions |-> {"scan"}, data_handling_class |-> "SYNTHETIC_ONLY",
      network_mode |-> "LOCAL_ONLY", expires_at |-> 2 ]

MCScopes ==
    { Base,
      [Base EXCEPT !.scope_id = "twin"],
      [Base EXCEPT !.scope_id = "narrow", !.allowed_actions = {"read"},
                   !.prohibited_actions = {"scan", "run"}],
      [Base EXCEPT !.scope_id = "short", !.allowed_actions = {"read"}, !.expires_at = 0],
      [Base EXCEPT !.scope_id = "wide", !.allowed_actions = {"read", "run", "scan"},
                   !.prohibited_actions = {}],
      [Base EXCEPT !.scope_id = "clash", !.allowed_actions = {"read", "run", "scan"}],
      [Base EXCEPT !.scope_id = "open", !.network_mode = "OPEN"],
      [Base EXCEPT !.scope_id = "foreign", !.authorization_id = "b"] }

Task(action, fixture) ==
    [asset_id |-> "repo", activity_class |-> "analysis", action |-> action, fixture |-> fixture]

MCTasks == {Task("read", NoRecord)} \cup { Task("run", d) : d \in Digests }

Provider(id, outcome, f) ==
    [provider_id |-> id, outcome |-> outcome, finding |-> f, workload |-> NoRecord]

Providers(id) ==
    { Provider(id, o, NoRecord) : o \in {FailoverOutcome, "ABORTED_BY_OPERATOR", "UNKNOWN"} }
      \cup { Provider(id, "COMPLETED", f) : f \in {NoRecord, "partial", "claim"} }

\* Some provider metadata names a workload.
MCDirectProviders ==
    { p \in Providers("A") : p.outcome = FailoverOutcome } \cup Providers("B")
      \cup { [Provider("B", "COMPLETED", "claim") EXCEPT !.workload = d] : d \in Digests }
MCGenericPrimaries ==
    Providers("A") \cup { [Provider("A", "COMPLETED", NoRecord) EXCEPT !.workload = d] : d \in Digests }
MCAmounts == {-20, 0, 100, 120}
=============================================================================
