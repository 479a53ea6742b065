---------------------------- MODULE ResourceLock ----------------------------
(***************************************************************************)
(* The executor's lock on one provider resource (withResourceLock): an     *)
(* empty directory, with no name in it, that is removed by whoever finds   *)
(* it older than 240 seconds.  One step is one file system call.           *)
(*                                                                         *)
(* Time is the flag "old".  An operation's provider and control plane      *)
(* calls end within 120 seconds, so a live holder's directory is assumed   *)
(* not to become old (Age).                                                *)
(***************************************************************************)
EXTENDS Integers, FiniteSets

CONSTANTS Procs,
          MaxCrashes,  \* bound on crashes
          None

VARIABLES lock,     \* the directory [maker, old], or None; the maker is a ghost
          at,       \* where each process is
          crashed,  \* processes that died
          sighted,  \* ghost: processes whose last stat was of this directory
          misplaced \* ghost: an rmdir removed another directory than was seen

lockVars == <<lock, at, crashed, sighted, misplaced>>

Lock == [maker : Procs, old : BOOLEAN]
Places == {"idle", "mkdir", "stat", "rmdir", "held"}

ASSUME ResourceLockAssumption == None \notin Lock /\ MaxCrashes \in Nat

Holding == {p \in Procs \ crashed : at[p] = "held"}

LockInit ==
  /\ lock = None /\ at = [p \in Procs |-> "idle"]
  /\ crashed = {} /\ sighted = {} /\ misplaced = FALSE

Move(p, place) == at' = [at EXCEPT ![p] = place] /\ UNCHANGED crashed
Look(p, place) == Move(p, place) /\ UNCHANGED <<lock, sighted, misplaced>>
Replace(l) == lock' = l /\ sighted' = {}

Want(p) == at[p] = "idle" /\ Look(p, "mkdir")

MakeDirectory(p) ==
  /\ at[p] = "mkdir"
  /\ IF lock = None
     THEN Replace([maker |-> p, old |-> FALSE]) /\ Move(p, "held") /\ UNCHANGED misplaced
     ELSE Look(p, "stat")

\* Mutation: any directory that is there is taken for an abandoned one.
TooOldAlways(l) == l # None

\* Mutation: the age is compared the wrong way round.
TooYoung(l) == l # None /\ ~l.old

\* age > 2 * MAX_TIMEOUT_MS
TooOld(l) == l # None /\ l.old

Stat(p) ==
  /\ at[p] = "stat"
  /\ IF TooOld(lock)
     THEN sighted' = sighted \cup {p} /\ Move(p, "rmdir") /\ UNCHANGED <<lock, misplaced>>
     ELSE Look(p, "mkdir")

\* rmdir removes whatever directory there is by now.
RemoveStale(p) ==
  /\ at[p] = "rmdir"
  /\ Replace(None)
  /\ misplaced' = (misplaced \/ (lock # None /\ p \notin sighted))
  /\ Move(p, "mkdir")

GiveUp(p) == at[p] = "stat" /\ Look(p, "idle")

\* The finally clause: rmdir, whoever made the directory.
Release(p) ==
  /\ at[p] = "held"
  /\ Replace(None) /\ Move(p, "idle") /\ UNCHANGED misplaced

Crash(p) ==
  /\ Cardinality(crashed) < MaxCrashes
  /\ crashed' = crashed \cup {p}
  /\ UNCHANGED <<lock, at, sighted, misplaced>>

\* 240 seconds pass.
Age ==
  /\ lock # None /\ ~lock.old /\ lock.maker \in crashed
  /\ lock' = [lock EXCEPT !.old = TRUE]
  /\ UNCHANGED <<at, crashed, sighted, misplaced>>

Acquiring(p) == MakeDirectory(p) \/ Stat(p) \/ RemoveStale(p)

LockNext ==
  Age \/ \E p \in Procs \ crashed :
           Want(p) \/ Acquiring(p) \/ GiveUp(p) \/ Release(p) \/ Crash(p)

LockSpec ==
  /\ LockInit /\ [][LockNext]_lockVars
  /\ WF_lockVars(Age)
  /\ \A p \in Procs : WF_lockVars(p \notin crashed /\ (Acquiring(p) \/ Release(p)))
-----------------------------------------------------------------------------
(* Properties *)

LockTypeOK ==
  /\ lock \in Lock \cup {None} /\ at \in [Procs -> Places]
  /\ crashed \subseteq Procs /\ sighted \subseteq Procs /\ misplaced \in BOOLEAN

\* "Concurrent requests for one provider resource serialize locally" (TOOL.md).
Serialized == \A p, q \in Holding : p = q

\* They do unless an rmdir removed another directory than its process had seen.
SerializedUnlessMisplaced == misplaced \/ Serialized

\* The inductive invariant: the one holder made the directory that is there,
\* and nobody is about to remove it for another one's age.
HoldersAreMakers == \A p \in Holding : lock # None /\ lock.maker = p

LockInv ==
  /\ LockTypeOK
  /\ lock # None /\ lock.old => lock.maker \in crashed
  /\ sighted # {} => lock # None /\ lock.old
  /\ misplaced \/ HoldersAreMakers

\* An executor that died with the resource does not keep it for good.
Wanting == {p \in Procs \ crashed : at[p] \in {"mkdir", "stat", "rmdir"}}

DeadHolderIsReplaced ==
  \A p \in Procs : p \in Wanting ~> (p \notin Wanting \/ Holding # {})
=============================================================================
