CONSTANTS
  Procs = {p1, p2}
  Packages = {A, D}
  Singles = {d1}
  Closures = {a1}
  Offers = {{a1, d1}}
  Earlier = {}
  MaxFaults = 2
  Module <- MCModule
  Members <- MCMembers
  Old = Old
  Partial = Partial
  None = None
  A = A
  D = D
  E = E
  a1 = a1
  a2 = a2
  d1 = d1
  e1 = e1
  e2 = e2
SPECIFICATION OfferSpec
SYMMETRY MCSymmetry
INVARIANTS
  InstalledSurvives
