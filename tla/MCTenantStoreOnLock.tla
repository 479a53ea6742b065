------------------------- MODULE MCTenantStoreOnLock -------------------------
(* Small instances of TenantStoreOnLock.                                     *)
EXTENDS TenantStoreOnLock, TLC

CONSTANT Lost   \* a process that died with the lock more than 30 seconds ago

\* The survivors of a crash: the lock directory is still there, and old.
InitAfterCrash ==
  /\ Init /\ at = [p \in Procs |-> "idle"]
  /\ dir = [owner |-> Lost, old |-> TRUE]
  /\ sighted = {} /\ misplaced = FALSE

SpecAfterCrash == InitAfterCrash /\ [][NextOnLock]_allVars

MCSymmetry == Permutations(Procs) \cup Permutations(Paths) \cup Permutations(Values)
==============================================================================
