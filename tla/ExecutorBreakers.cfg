CONSTANTS
  Procs = {p1, p2}
  Executions = {x}
  Rollbacks = {}
  Undoes <- MCUndoes
  From <- MCFrom
  To <- MCTo
  Values = {"a", "b"}
  MaxFaults = 0
  MaxOutside = 0
  None = None
  Torn = Torn
  Lost = Lost
SPECIFICATION SpecAfterCrash
SYMMETRY MCSymmetry
INVARIANTS
  NeverReplayed
CHECK_DEADLOCK FALSE
