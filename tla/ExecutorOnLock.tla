--------------------------- MODULE ExecutorOnLock ---------------------------
(***************************************************************************)
(* The executor on the resource lock it really has (withResourceLock): the *)
(* operations of module Executor run between mkdir and rmdir of module     *)
(* ResourceLock, each while its process believes it holds the resource.    *)
(***************************************************************************)
EXTENDS Executor

VARIABLES lock, at, crashed, sighted, misplaced

lockState == <<lock, at, crashed, sighted, misplaced>>
allVars == <<vars, lockState>>

L == INSTANCE ResourceLock WITH MaxCrashes <- MaxFaults

AcquireResource(p) ==
  /\ pc[p] = "wait"
  /\ L!Want(p) \/ L!Acquiring(p)
  /\ UNCHANGED state

BusyOnLock(p) == L!GiveUp(p) /\ Stop(p)

\* The finally clause, or RESOURCE_BUSY, which has nothing to release.
ReleaseResource(p) ==
  /\ Forget(p)
  /\ L!Release(p) \/ (at[p] = "idle" /\ UNCHANGED lockState)

Die(p) == L!Crash(p) /\ UNCHANGED state

StepOnLock(p) ==
  \/ AcquireResource(p) \/ BusyOnLock(p) \/ ReleaseResource(p) \/ Die(p)
  \/ (Work(p) /\ UNCHANGED lockState)

NextOnLock ==
  /\ \/ (Environment /\ UNCHANGED lockState)
     \/ (L!Age /\ UNCHANGED state)
     \/ \E p \in Procs \ crashed : StepOnLock(p)
  /\ holders' = L!Holding'

InitOnLock == Init /\ L!LockInit

SpecOnLock == InitOnLock /\ [][NextOnLock]_allVars
-----------------------------------------------------------------------------
(* Properties *)

\* One lock is enough for all that module Executor promises of one: a change
\* is replayed, or a record contradicts what was sent, only after an rmdir
\* removed another directory than its process had found too old.
SafeUnlessMisplaced ==
  misplaced \/ ( /\ NeverReplayed /\ EffectIsAccountable /\ CancelledMeansUntouched
                 /\ SuccessIsReceipted /\ LocalEndsAreBacked )

\* Even when two operations of one resource run at once, what the control
\* plane holds as success is a receipt's, and a success that is once recorded
\* or a receipt that is once written never changes.
EvidenceIsImmutable ==
  [][\A g \in Grants :
       /\ receipt[g] \in Receipt => receipt'[g] = receipt[g]
       /\ outcome[g] # None => outcome'[g] = outcome[g]]_<<receipt, outcome>>
=============================================================================
