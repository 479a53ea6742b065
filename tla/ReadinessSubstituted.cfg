CONSTANTS
  Procs = {p1}
  Packages = {Release, Build}
  Released = {Release}
  VersionOf <- MCVersionOf
  ContractOf <- MCContractOf
  AuthStatus = "none"
  LiveCredentials = FALSE
  Deprecated = {}
  Accounts = {"acct"}
  Wide = {"acct"}
  Anonymous = {}
  SmokeLife = 3
  CredentialLife = 2
  AttestationLife = 2
  MaxTime = 2
  MaxRuns = 1
  MaxEvents = 1
  None = None
  RepositoryFiles = {"file"}
  Skew = 1
  Day = 2
  NotGiven = NotGiven
  Unreadable = Unreadable
  Release = Release
  Build = Build
SPECIFICATION MCSpec
INVARIANTS
  EvidenceIsOfItsArtifact
CHECK_DEADLOCK FALSE
