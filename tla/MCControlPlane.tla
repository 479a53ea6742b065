--------------------------- MODULE MCControlPlane ---------------------------
(* Small instances of ControlPlane for TLC: one action on one account, a    *)
(* policy that wants two approver roles, a policy that allows outright, and *)
(* a policy document that reuses the first one's version.                   *)
EXTENDS ControlPlane, TLC

MCRule(id, eff, tier, who, ttl) ==
  [rule_id |-> id, effect |-> eff, capabilities |-> {"spend"}, account |-> "acct",
   tiers |-> {tier}, roles |-> who, ttl |-> ttl]

MCProposals == {[capability |-> "spend", account |-> "acct"]}

MCVersionOf == [p \in Policies |-> IF p = "open" THEN "v2" ELSE "v1"]

MCRulesOf == [p \in Policies |->
  CASE p = "guarded" -> {MCRule("x", "require_approval", 1, {"owner"}, 1),
                         MCRule("y", "require_approval", 2, {"risk"}, 2),
                         MCRule("z", "allow", 0, {}, 0)}
    [] p = "open"    -> {MCRule("x", "allow", 0, {}, 0)}
    [] OTHER         -> {MCRule("x", "deny", 2, {}, 0)}]

MCEffectiveAt == [p \in Policies |-> 0]
MCExpiresAt   == [p \in Policies |-> IF p = "open" THEN 2 ELSE 4]

MCAgentScope    == [a \in Agents |-> Proposals]
MCAdminRoles    == [a \in Admins |-> IF a = "boss" THEN {"owner", "risk"} ELSE {"risk"}]
MCExecutorScope == [e \in Executors |-> Proposals]

MCSymmetry == Permutations(Executors)
=============================================================================
