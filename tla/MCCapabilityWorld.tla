-------------------------- MODULE MCCapabilityWorld --------------------------
(* Small instances of CapabilityWorld for TLC.                             *)
EXTENDS CapabilityWorld

Config(id, parent, delegable, uses) ==
    [id |-> id, type |-> "runtime.configure", subject |-> "agent",
     policy |-> "policy", scope |-> [setting_keys |-> {"profile", "proxy"}],
     issued |-> 0, notBefore |-> 0, expires |-> 2, maxUses |-> uses,
     delegable |-> delegable, parent |-> parent]

Write(id, uses) ==
    [id |-> id, type |-> "repository", subject |-> "agent", policy |-> "policy",
     scope |-> [repository |-> {"repo"}, paths |-> {"docs", "src"}],
     issued |-> 0, notBefore |-> 1, expires |-> 2, maxUses |-> uses,
     delegable |-> FALSE, parent |-> 0]

(* Two ids: a configuration grant, a write grant, an invalid delegable     *)
(* root, and contracts that name each other as parents.                    *)
MCContracts ==
    {Config(1, 0, FALSE, 2), Config(1, 0, TRUE, 1), Config(1, 2, TRUE, 1),
     Config(2, 1, FALSE, 1), Write(2, 2)}

MCRequests ==
    {[subject |-> "agent", type |-> "repository", policy |-> "policy",
      scope |-> [repository |-> {"repo"}, paths |-> {"docs"}]],
     [subject |-> "agent", type |-> "repository", policy |-> "policy",
      scope |-> [paths |-> {"docs"}]]}

Plan(before, after, e, h) ==
    [before |-> before, after |-> after, epoch |-> e, hostBinding |-> h,
     policy |-> "policy", settings |-> {"profile"}]

MCPlans ==
    {Plan("s0", "s1", 0, "host"), Plan("s1", "s0", 1, "host"),
     Plan("s0", "s1", 0, "elsewhere")}
=============================================================================
