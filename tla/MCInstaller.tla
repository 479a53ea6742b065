---------------------------- MODULE MCInstaller ----------------------------
(* Small instances of Installer: a plugin A with a skill D, and a skill E.   *)
(* In a behaviour of OfferSpec some of the releases are there to install.    *)
EXTENDS Installer, TLC

CONSTANTS A, D, E, a1, a2, d1, e1, e2,
          Offers  \* sets of releases

VARIABLE offered

MCModule == A :> "plugins" @@ D :> "skills" @@ E :> "skills"
MCMembers == a1 :> <<A, D>> @@ a2 :> <<A, D>> @@ d1 :> <<D>> @@ e1 :> <<E>> @@ e2 :> <<E>>
MCSymmetry == Permutations(Procs)

OfferedJob == {j \in Job : j.release \in offered}

OfferNext ==
  /\ UNCHANGED offered
  /\ \E p \in Procs : (\E j \in OfferedJob : Begin(p, j)) \/ Work(p) \/ Crash(p)

OfferInit == Init /\ offered \in Offers

OfferSpec ==
  /\ OfferInit
  /\ [][OfferNext]_<<vars, offered>>
  /\ \A p \in Procs : WF_vars(Work(p)) /\ WF_vars(\E j \in OfferedJob : Begin(p, j))
=============================================================================
