CONSTANTS
  Procs = {p1, p2}
  Paths = {a, b}
  Values = {v}
  MaxFaults = 0
  None = None
  Lost = Lost
SPECIFICATION SpecAfterCrash
SYMMETRY MCSymmetry
INVARIANTS
  RestVerifies
