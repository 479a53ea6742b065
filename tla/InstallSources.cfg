CONSTANTS
  Procs = {p1, p2}
  None = None
  Latest = Latest
  Admissible = {1, 2}
  Keep = 1
  MaxIndexes = 2
  MaxRuns = 3
  MaxSetBacks = 1
  Workers = {w1, w2}
  MaxFile = 2
  MaxContent = 2
  MaxBegun = 2
  MaxReleases = 1
SPECIFICATION SourcesSpec
SYMMETRY MCSymmetry
INVARIANTS
  SnapshotsAreBacked
  InstalledIsVerified
  OfflineIsServed
  LocalReceiptsAreTrue
CHECK_DEADLOCK FALSE
