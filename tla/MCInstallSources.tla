-------------------------- MODULE MCInstallSources --------------------------
(* Small instances of the two sources of an installation: the registry with  *)
(* its cache (RegistryCache) and a checkout (LocalInstall).  A behaviour is  *)
(* of one of them, while the other stays as it was at the beginning; only    *)
(* the first version's artifact may be in the cache, unusable, before it,    *)
(* and a clock that is set back takes the place of a run.                    *)
EXTENDS RegistryCache, LocalInstall, TLC

VARIABLE scene

SourcesInit ==
  /\ Init /\ LocalInit
  /\ scene \in {"registry", "checkout"}
  /\ \A v \in Versions : artifacts[v] # "none" => scene = "registry" /\ v = 1

SourcesNext ==
  /\ UNCHANGED scene
  /\ \/ /\ scene = "registry" /\ Next /\ UNCHANGED localVars
        /\ runs' + Cardinality(ahead') <= MaxRuns
     \/ scene = "checkout" /\ LocalNext /\ UNCHANGED vars

SourcesSpec == SourcesInit /\ [][SourcesNext]_<<vars, localVars, scene>>

MCSymmetry == Permutations(Procs)
=============================================================================
