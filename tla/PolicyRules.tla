---------------------------- MODULE PolicyRules ----------------------------
(***************************************************************************)
(* How the agent control plane turns a policy's rules and a proposed       *)
(* action into a decision: functions matchingRules and evaluate of         *)
(* control_plane_core.mjs, and the rule shape validatePolicy accepts.      *)
(*                                                                         *)
(* A policy is a set of rules: rule_id makes them distinct, and nothing    *)
(* evaluate returns depends on their order.  Risk tiers are the numbers    *)
(* 0, 1, 2 of the code's riskOrder table; a rule carries the set of tiers  *)
(* it declares.  An account stands for the pair (provider, account_id).    *)
(***************************************************************************)
EXTENDS Integers, FiniteSets

CONSTANTS Capabilities,   \* capability names
          Accounts,       \* (provider, account_id) pairs
          Roles,          \* approver role names
          RuleIds

Effects == {"allow", "require_approval", "deny"}
Tiers   == 0..2           \* low, medium, high

Rule ==
  [rule_id : RuleIds, effect : Effects, capabilities : SUBSET Capabilities,
   account : Accounts, tiers : SUBSET Tiers, roles : SUBSET Roles, ttl : Nat]

\* What validatePolicy accepts of one rule: nonempty lists, and approver
\* roles and a positive TTL exactly on the rules that require approval.
ValidRule(r) ==
  /\ r.capabilities # {} /\ r.tiers # {}
  /\ IF r.effect = "require_approval"
     THEN r.roles # {} /\ r.ttl > 0
     ELSE r.roles = {} /\ r.ttl = 0

ValidRules(rules) ==
  /\ rules # {}
  /\ \A r \in rules : ValidRule(r)
  /\ \A r, s \in rules : r.rule_id = s.rule_id => r = s

ValidRuleSets == {rules \in SUBSET Rule : ValidRules(rules)}

\* The risk tier a proposal asks for plays no part in matching.
Matching(rules, p) ==
  {r \in rules : p.capability \in r.capabilities /\ p.account = r.account}

WithEffect(rules, effect) == {r \in rules : r.effect = effect}

\* The effect alone: no match denies; deny beats approval beats allow.
EffectOf(rules, p) ==
  LET M == Matching(rules, p)
  IN  CASE M = {} \/ WithEffect(M, "deny") # {} -> "deny"
        [] WithEffect(M, "deny") = {} /\ WithEffect(M, "require_approval") # {}
             -> "require_approval"
        [] OTHER -> "allow"

\* The highest tier any matching rule declares; an unmatched action is high.
RiskOf(rules, p) ==
  LET tiers == UNION {r.tiers : r \in Matching(rules, p)}
  IN  IF Matching(rules, p) = {} THEN 2
      ELSE CHOOSE t \in tiers : \A u \in tiers : u <= t

\* The approver roles of every matching approval rule, all of them needed.
RolesOf(rules, p) ==
  IF EffectOf(rules, p) # "require_approval" THEN {}
  ELSE UNION {r.roles : r \in WithEffect(Matching(rules, p), "require_approval")}

\* The shortest TTL among the matching approval rules, as a set of one; no
\* approval rule leaves none (the code stores 0, which nothing reads).
ShortestTtl(rules, p) ==
  LET ttls == {r.ttl : r \in WithEffect(Matching(rules, p), "require_approval")}
  IN  {t \in ttls : \A u \in ttls : t <= u}

\* Strictness of an effect, for stating how policies compare.
Strictness(effect) ==
  CASE effect = "allow" -> 0 [] effect = "require_approval" -> 1 [] OTHER -> 2
============================================================================
