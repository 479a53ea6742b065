-------------------------- MODULE TenantLockProofs --------------------------
(***************************************************************************)
(* For any number of processes and crashes: the tenant lock excludes as    *)
(* long as every rename moves the directory its process had looked at.     *)
(***************************************************************************)
EXTENDS TenantLock, TLAPS

\* The directory as mkdir and owner.json leave it, and as it ages.
LEMMA FreshDirectories ==
  ASSUME NEW o \in Procs \cup {None}
  PROVE  LET d == [owner |-> o, old |-> FALSE]
         IN  d \in Directory /\ d # None /\ d.owner = o /\ ~d.old
<1>1. [owner |-> o, old |-> FALSE] \in Directory
  BY DEF Directory
<1> QED
  BY <1>1, LockAssumption

LEMMA OldDirectories ==
  ASSUME NEW d \in Directory
  PROVE  LET e == [d EXCEPT !.old = TRUE]
         IN  e \in Directory /\ d # None /\ e # None /\ e.owner = d.owner
<1>1. [d EXCEPT !.old = TRUE] \in Directory /\ [d EXCEPT !.old = TRUE].owner = d.owner
  BY DEF Directory
<1> QED
  BY <1>1, LockAssumption

LEMMA InitiallyFree == LockInit => LockInv
BY LockAssumption DEF LockInit, LockInv, LockTypeOK, Places, Directory, Signing, Holding, HoldersAreNamed

LEMMA StepKeepsTypes == LockTypeOK /\ [LockNext]_lockVars => LockTypeOK'
<1> SUFFICES ASSUME LockTypeOK, [LockNext]_lockVars PROVE LockTypeOK'
  OBVIOUS
<1> USE LockAssumption, FreshDirectories DEF LockTypeOK
<1>1. CASE Age
  BY <1>1, OldDirectories DEF Age
<1>2. ASSUME NEW p \in Procs \ crashed, Want(p) \/ GiveUp(p) PROVE LockTypeOK'
  BY <1>2 DEF Want, GiveUp, Look, Move, Places
<1>3. ASSUME NEW p \in Procs \ crashed, Acquiring(p) PROVE LockTypeOK'
  <2>1. CASE MakeDirectory(p)
    BY <2>1 DEF MakeDirectory, Look, Move, Replace, Places
  <2>2. CASE WriteOwner(p)
    BY <2>2 DEF WriteOwner, Look, Move, Places
  <2>3. CASE Stat(p)
    BY <2>3 DEF Stat, Look, Move, Places
  <2>4. CASE Judge(p)
    BY <2>4 DEF Judge, Look, Move, Places
  <2>5. CASE Break(p)
    BY <2>5 DEF Break, Move, Replace, Places
  <2> QED
    BY <1>3, <2>1, <2>2, <2>3, <2>4, <2>5 DEF Acquiring
<1>4. ASSUME NEW p \in Procs \ crashed, RemoveOwner(p) \/ RemoveDirectory(p) PROVE LockTypeOK'
  BY <1>4 DEF RemoveOwner, RemoveDirectory, Look, Move, Replace, Places
<1>5. ASSUME NEW p \in Procs \ crashed, Crash(p) PROVE LockTypeOK'
  BY <1>5 DEF Crash
<1>6. CASE UNCHANGED lockVars
  BY <1>6 DEF lockVars
<1> QED
  BY <1>1, <1>2, <1>3, <1>4, <1>5, <1>6 DEF LockNext, Progress

LEMMA StepKeepsInv == LockInv /\ [LockNext]_lockVars => LockInv'
<1> SUFFICES ASSUME LockInv, [LockNext]_lockVars PROVE LockInv'
  OBVIOUS
<1>0. LockTypeOK'
  BY StepKeepsTypes DEF LockInv
<1> USE LockAssumption, FreshDirectories DEF LockInv, Signing, Holding, HoldersAreNamed
<1>1. CASE Age
  <2>1. dir \in Directory /\ dir' # None /\ dir'.owner = dir.owner
    BY <1>1, OldDirectories DEF Age, LockTypeOK
  <2> QED
    BY <1>0, <1>1, <2>1 DEF Age, LockTypeOK
<1>2. ASSUME NEW p \in Procs \ crashed, Want(p) \/ GiveUp(p) PROVE LockInv'
  BY <1>0, <1>2 DEF Want, GiveUp, Look, Move, LockTypeOK
<1>3. ASSUME NEW p \in Procs \ crashed, MakeDirectory(p) PROVE LockInv'
  BY <1>0, <1>3 DEF MakeDirectory, Look, Move, Replace, LockTypeOK
<1>4. ASSUME NEW p \in Procs \ crashed, WriteOwner(p) PROVE LockInv'
  <2>1. CASE dir # None /\ dir.owner # None
    BY <1>0, <1>4, <2>1 DEF WriteOwner, Look, Move, LockTypeOK
  <2>2. CASE ~(dir # None /\ dir.owner # None)
    BY <1>0, <1>4, <2>2 DEF WriteOwner, Move, LockTypeOK
  <2> QED
    BY <2>1, <2>2
<1>5. ASSUME NEW p \in Procs \ crashed, Stat(p) PROVE LockInv'
  BY <1>0, <1>5 DEF Stat, Look, Move, LockTypeOK
<1>6. ASSUME NEW p \in Procs \ crashed, Judge(p) PROVE LockInv'
  BY <1>0, <1>6 DEF Judge, NotRunning, Look, Move, LockTypeOK
<1>7. ASSUME NEW p \in Procs \ crashed, Break(p) PROVE LockInv'
  BY <1>0, <1>7 DEF Break, Replace, Move, LockTypeOK
<1>8. ASSUME NEW p \in Procs \ crashed, RemoveOwner(p) PROVE LockInv'
  BY <1>0, <1>8 DEF RemoveOwner, Move, LockTypeOK
<1>9. ASSUME NEW p \in Procs \ crashed, RemoveDirectory(p) PROVE LockInv'
  BY <1>0, <1>9 DEF RemoveDirectory, Look, Replace, Move, LockTypeOK
<1>10. ASSUME NEW p \in Procs \ crashed, Crash(p) PROVE LockInv'
  BY <1>0, <1>10 DEF Crash, LockTypeOK
<1>11. CASE UNCHANGED lockVars
  BY <1>0, <1>11 DEF lockVars, LockTypeOK
<1> QED
  BY <1>1, <1>2, <1>3, <1>4, <1>5, <1>6, <1>7, <1>8, <1>9, <1>10, <1>11
     DEF LockNext, Progress, Acquiring

\* The inductive invariant, for any processes and any number of crashes.
THEOREM LockInvariance == LockSpec => []LockInv
<1>1. LockInit => LockInv
  BY InitiallyFree
<1>2. LockInv /\ [LockNext]_lockVars => LockInv'
  BY StepKeepsInv
<1> QED
  BY <1>1, <1>2, PTL DEF LockSpec

\* withTenantLock excludes unless a rename moved another directory than the
\* one its process had looked at.
THEOREM LockExcludes == LockSpec => []ExclusiveUnlessMisplaced
<1>1. LockInv => ExclusiveUnlessMisplaced
  BY DEF LockInv, ExclusiveUnlessMisplaced, MutualExclusion, HoldersAreNamed
<1> QED
  BY <1>1, LockInvariance, PTL
=============================================================================
