---------------------------- MODULE MCReadiness ----------------------------
(* Small instances of Readiness: a release of version 1 and a local build   *)
(* that claims it.  Beside them, in behaviours of their own in which        *)
(* nothing moves, the questions of ReadinessCases and AdmissionCases are asked *)
(* while the rest of the state is initial.                                  *)
EXTENDS Readiness, AdmissionCases, TLC

CONSTANTS Release, Build

MCVersionOf == [p \in Packages |-> 1]
MCContractOf == [v \in {1} |-> "contract"]
MCSymmetry == Permutations(Procs)

Nothing == [kind |-> "nothing"]
MCInit == (question = Nothing \/ Asked \/ AdmissionAsked) /\ Init
MCNext == question = Nothing /\ Next /\ UNCHANGED question
MCSpec == MCInit /\ [][MCNext]_<<vars, question>>
=============================================================================
