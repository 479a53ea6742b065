CONSTANTS
  Procs = {p1, p2, p3}
  Paths = {a, b}
  Values = {v, w}
  MaxFaults = 2
  None = None
SPECIFICATION Spec
SYMMETRY MCSymmetry
INVARIANTS
  BodySeesCommittedStore
  NeverCorrupt
  AckedIsCommitted
PROPERTIES
  ImplementsAuditLog
