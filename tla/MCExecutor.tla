----------------------------- MODULE MCExecutor -----------------------------
(* Small instances of Executor: one change of the field from "a" to "b", its *)
(* rollback, and a third value that others may write.  A behaviour of        *)
(* SceneSpec plays in one of two scenes: all processes but no rollback, with *)
(* two disturbances in all (faults, outside writes, expiries of a plan), or  *)
(* one process with a rollback and a single fault.                           *)
EXTENDS Executor, TLC

CONSTANT Alone   \* the process of the second scene

VARIABLE scene

MCUndoes == [r \in Rollbacks |-> CHOOSE g \in Executions : TRUE]
MCFrom   == [g \in Grants |-> IF g \in Rollbacks THEN "b" ELSE "a"]
MCTo     == [g \in Grants |-> IF g \in Rollbacks THEN "a" ELSE "b"]

MCSymmetry == Permutations(Procs)

OnStage ==
  \/ /\ scene = "forward"
     /\ faults' + outside' + Cardinality(expiredPlans') <= 2
     /\ (expired \cup revoked)' \cap Rollbacks = {}
     /\ \A p \in Procs : pc'[p] # "out" => job'[p].grant \notin Rollbacks
  \/ scene = "rollback" /\ faults' <= 1 /\ \A p \in Procs \ {Alone} : pc'[p] = "out"

SceneNext == Next /\ OnStage /\ UNCHANGED scene

SceneInit == Init /\ scene \in {"forward", "rollback"}

\* FairSpec's fairness, of the process that both scenes have.
SceneSpec ==
  /\ SceneInit
  /\ [][SceneNext]_<<vars, scene>>
  /\ WF_vars(Serve(Alone) /\ UNCHANGED holders) /\ WF_vars(Release(Alone)) /\ SF_vars(Acquire(Alone))
  /\ \A g \in Grants : SF_vars(Call(Alone, Resuming(g)) /\ UNCHANGED holders)
=============================================================================
