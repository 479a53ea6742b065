CONSTANTS
  Procs = {p1, p2, p3}
  MaxCrashes = 2
  None = None
SPECIFICATION LockSpec
INVARIANTS
  SerializedUnlessMisplaced
PROPERTIES
  DeadHolderIsReplaced
