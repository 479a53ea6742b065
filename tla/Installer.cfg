CONSTANTS
  Procs = {p1, p2}
  Packages = {A, D, E}
  Singles = {e1, e2}
  Closures = {a1, a2}
  Offers = {{a1, a2}, {e1, e2}}
  Earlier = {D}
  MaxFaults = 2
  Module <- MCModule
  Members <- MCMembers
  Old = Old
  Partial = Partial
  None = None
  A = A
  D = D
  E = E
  a1 = a1
  a2 = a2
  d1 = d1
  e1 = e1
  e2 = e2
SPECIFICATION OfferSpec
INVARIANTS
  VisibleIsWhole
  MarkersAreSatisfiable
PROPERTIES
  RollbackRestores
  ImplementsActivation
  InterruptedIsReconciled
