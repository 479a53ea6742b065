---------------------------- MODULE MCTenantStore ----------------------------
(* A small instance of TenantStore: the processes, paths and contents are    *)
(* interchangeable, so states that differ by a renaming are checked once.    *)
EXTENDS TenantStore, TLC

MCSymmetry == Permutations(Procs) \cup Permutations(Paths) \cup Permutations(Values)
=============================================================================
