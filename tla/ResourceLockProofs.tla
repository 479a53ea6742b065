------------------------- MODULE ResourceLockProofs -------------------------
(***************************************************************************)
(* For any number of executors and crashes: the lock on a provider         *)
(* resource serializes as long as every rmdir removes the directory its    *)
(* process had found too old.                                              *)
(***************************************************************************)
EXTENDS ResourceLock, TLAPS

\* The directory as mkdir leaves it, and as it ages.
LEMMA FreshLocks ==
  ASSUME NEW p \in Procs
  PROVE  LET l == [maker |-> p, old |-> FALSE]
         IN  l \in Lock /\ l # None /\ l.maker = p /\ ~l.old
<1>1. [maker |-> p, old |-> FALSE] \in Lock
  BY DEF Lock
<1> QED
  BY <1>1, ResourceLockAssumption

LEMMA OldLocks ==
  ASSUME NEW l \in Lock
  PROVE  LET o == [l EXCEPT !.old = TRUE]
         IN  o \in Lock /\ o # None /\ o.maker = l.maker
<1>1. [l EXCEPT !.old = TRUE] \in Lock /\ [l EXCEPT !.old = TRUE].maker = l.maker
  BY DEF Lock
<1> QED
  BY <1>1, ResourceLockAssumption

LEMMA InitiallyUnlocked == LockInit => LockInv
BY ResourceLockAssumption DEF LockInit, LockInv, LockTypeOK, Places, Holding, HoldersAreMakers

LEMMA StepKeepsTypes == LockTypeOK /\ [LockNext]_lockVars => LockTypeOK'
<1> SUFFICES ASSUME LockTypeOK, [LockNext]_lockVars PROVE LockTypeOK'
  OBVIOUS
<1> USE ResourceLockAssumption, FreshLocks DEF LockTypeOK, Places
<1>1. CASE Age
  BY <1>1, OldLocks DEF Age
<1>2. ASSUME NEW p \in Procs \ crashed, Want(p) \/ GiveUp(p) \/ Stat(p) PROVE LockTypeOK'
  BY <1>2 DEF Want, GiveUp, Stat, Look, Move
<1>3. ASSUME NEW p \in Procs \ crashed, MakeDirectory(p) PROVE LockTypeOK'
  BY <1>3 DEF MakeDirectory, Look, Move, Replace
<1>4. ASSUME NEW p \in Procs \ crashed, RemoveStale(p) \/ Release(p) PROVE LockTypeOK'
  BY <1>4 DEF RemoveStale, Release, Move, Replace
<1>5. ASSUME NEW p \in Procs \ crashed, Crash(p) PROVE LockTypeOK'
  BY <1>5 DEF Crash
<1>6. CASE UNCHANGED lockVars
  BY <1>6 DEF lockVars
<1> QED
  BY <1>1, <1>2, <1>3, <1>4, <1>5, <1>6 DEF LockNext, Acquiring

LEMMA StepKeepsInv == LockInv /\ [LockNext]_lockVars => LockInv'
<1> SUFFICES ASSUME LockInv, [LockNext]_lockVars PROVE LockInv'
  OBVIOUS
<1>0. LockTypeOK'
  BY StepKeepsTypes DEF LockInv
<1> USE ResourceLockAssumption, FreshLocks DEF LockInv, Holding, HoldersAreMakers, LockTypeOK
<1>1. CASE Age
  <2>1. lock' # None /\ lock'.maker = lock.maker
    BY <1>1, OldLocks DEF Age
  <2> QED
    BY <1>0, <1>1, <2>1 DEF Age
<1>2. ASSUME NEW p \in Procs \ crashed, Want(p) \/ GiveUp(p) PROVE LockInv'
  BY <1>0, <1>2 DEF Want, GiveUp, Look, Move
<1>3. ASSUME NEW p \in Procs \ crashed, Stat(p) PROVE LockInv'
  BY <1>0, <1>3 DEF Stat, TooOld, Look, Move
<1>4. ASSUME NEW p \in Procs \ crashed, MakeDirectory(p) PROVE LockInv'
  BY <1>0, <1>4 DEF MakeDirectory, Look, Move, Replace
<1>5. ASSUME NEW p \in Procs \ crashed, RemoveStale(p) PROVE LockInv'
  BY <1>0, <1>5 DEF RemoveStale, Move, Replace
<1>6. ASSUME NEW p \in Procs \ crashed, Release(p) PROVE LockInv'
  BY <1>0, <1>6 DEF Release, Move, Replace
<1>7. ASSUME NEW p \in Procs \ crashed, Crash(p) PROVE LockInv'
  BY <1>0, <1>7 DEF Crash
<1>8. CASE UNCHANGED lockVars
  BY <1>0, <1>8 DEF lockVars
<1> QED
  BY <1>1, <1>2, <1>3, <1>4, <1>5, <1>6, <1>7, <1>8 DEF LockNext, Acquiring

\* The inductive invariant, for any executors and any number of crashes.
THEOREM ResourceInvariance == LockSpec => []LockInv
<1>1. LockInit => LockInv
  BY InitiallyUnlocked
<1>2. LockInv /\ [LockNext]_lockVars => LockInv'
  BY StepKeepsInv
<1> QED
  BY <1>1, <1>2, PTL DEF LockSpec

\* withResourceLock serializes unless an rmdir removed another directory than
\* the one its process had found too old.
THEOREM ResourceSerialized == LockSpec => []SerializedUnlessMisplaced
<1>1. LockInv => SerializedUnlessMisplaced
  BY DEF LockInv, SerializedUnlessMisplaced, Serialized, HoldersAreMakers
<1> QED
  BY <1>1, ResourceInvariance, PTL
=============================================================================
