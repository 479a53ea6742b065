CONSTANTS
  Capabilities = {"spend"}
  Accounts = {"acct"}
  Roles = {"owner", "risk"}
  RuleIds = {"x", "y", "z"}
  Versions = {"v1", "v2"}
  VersionOf <- MCVersionOf
  RulesOf <- MCRulesOf
  EffectiveAt <- MCEffectiveAt
  ExpiresAt <- MCExpiresAt
  Agents = {"agent"}
  AgentScope <- MCAgentScope
  AdminRoles <- MCAdminRoles
  ExecutorScope <- MCExecutorScope
  Proposals <- MCProposals
  Reasons = {"r1"}
  None = None
  Policies = {"guarded", "open"}
  Admins = {"boss", "clerk"}
  Executors = {e1, e2}
  e1 = e1
  e2 = e2
  Justifications = {"j1"}
  Evidence = {"ok"}
  GrantTtl = 1
  MaxTime = 1
  MaxPending = 1
SPECIFICATION Spec
SYMMETRY MCSymmetry
INVARIANTS
  GrantsAreBacked
  OnePolicyEpoch
  
  OutcomeIsFinal
PROPERTIES
  ImplementsGrantAuthority
