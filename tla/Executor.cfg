CONSTANTS
  Procs = {p1, p2}
  Executions = {x}
  Rollbacks = {r}
  Undoes <- MCUndoes
  From <- MCFrom
  To <- MCTo
  Values = {"a", "b", "c"}
  MaxFaults = 2
  MaxOutside = 1
  None = None
  Torn = Torn
  Alone = p1
SPECIFICATION SceneSpec
INVARIANTS
  NeverReplayed
  EffectIsAccountable
  CancelledMeansUntouched
  SuccessIsReceipted
  LocalEndsAreBacked
PROPERTIES
  UsesGrantAuthority
  RollbackCancellationCompletes
CHECK_DEADLOCK FALSE
