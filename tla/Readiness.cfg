CONSTANTS
  Procs = {p1, p2}
  Packages = {Release, Build}
  Released = {Release}
  VersionOf <- MCVersionOf
  ContractOf <- MCContractOf
  AuthStatus = "optional"
  LiveCredentials = TRUE
  Deprecated = {}
  Accounts = {"acct"}
  Wide = {"acct"}
  Anonymous = {}
  SmokeLife = 2
  CredentialLife = 3
  AttestationLife = 2
  MaxTime = 3
  MaxRuns = 3
  MaxEvents = 1
  None = None
  RepositoryFiles = {"file"}
  Skew = 1
  Day = 2
  NotGiven = NotGiven
  Unreadable = Unreadable
  Release = Release
  Build = Build
SPECIFICATION MCSpec
SYMMETRY MCSymmetry
INVARIANTS
  RevisionCountsSaves
  
  PassedInTime
  UsableNeedsLiveCredential
  UsableInTime
  EvidenceIsEarned
  CompositionIsAccountable
  PreflightIsAccountable
  LockIsTheClosure
  AdmittedIsUsable
PROPERTIES
  NewerFailureDemotes
CHECK_DEADLOCK FALSE
