-------------------------- MODULE MCExecutorOnLock --------------------------
(* Small instances of ExecutorOnLock: one change of the field, no rollback.  *)
EXTENDS ExecutorOnLock, TLC

CONSTANT Lost   \* an executor that died with the resource 240 seconds ago

MCUndoes == [r \in Rollbacks |-> CHOOSE g \in Executions : TRUE]
MCFrom   == [g \in Grants |-> "a"]
MCTo     == [g \in Grants |-> "b"]

\* The survivors of a crash: the lock directory is still there, and old.
InitAfterCrash ==
  /\ Init /\ at = [p \in Procs |-> "idle"] /\ crashed = {}
  /\ lock = [maker |-> Lost, old |-> TRUE]
  /\ sighted = {} /\ misplaced = FALSE

SpecAfterCrash == InitAfterCrash /\ [][NextOnLock]_allVars

MCSymmetry == Permutations(Procs)
=============================================================================
