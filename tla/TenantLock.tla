----------------------------- MODULE TenantLock -----------------------------
(***************************************************************************)
(* The tenant lock of the control plane (acquireLock, releaseLock): a      *)
(* directory made with mkdir, with an owner.json naming the process, that  *)
(* others move away when it is older than 30 seconds and its owner is not  *)
(* running.  One step is one file system call (the creation of owner.json  *)
(* is one step); a process runs one locked operation at a time.            *)
(*                                                                         *)
(* Time is the flag "old" of the directory: its last change is more than   *)
(* 30 seconds ago.  A live process is assumed to go on from mkdir to       *)
(* owner.json within that time (Age).  The 200 attempts of the code are    *)
(* any number of attempts: GiveUp is STORE_BUSY.                           *)
(***************************************************************************)
EXTENDS Integers, FiniteSets

CONSTANTS Procs,
          MaxCrashes,  \* bound on crashes
          None

Directory == [owner : Procs \cup {None}, old : BOOLEAN]

ASSUME LockAssumption == None \notin Procs /\ None \notin Directory /\ MaxCrashes \in Nat

VARIABLES dir,      \* the lock directory [owner, old], or None
          at,       \* where each process is in acquireLock / releaseLock
          crashed,  \* processes that died
          sighted,  \* ghost: processes whose last stat was of this directory
          misplaced \* ghost: a rename moved another directory than was judged

lockVars == <<dir, at, crashed, sighted, misplaced>>

Places == {"idle", "mkdir", "own", "stat", "judge", "rename", "held", "rmdir"}

Holding == {p \in Procs \ crashed : at[p] = "held"}

LockInit ==
  /\ dir = None
  /\ at = [p \in Procs |-> "idle"]
  /\ crashed = {} /\ sighted = {} /\ misplaced = FALSE

Move(p, place) == at' = [at EXCEPT ![p] = place] /\ UNCHANGED crashed

\* A call of p that leaves the directory as it is.
Look(p, place) == Move(p, place) /\ UNCHANGED <<dir, sighted, misplaced>>

\* The directory is made (again) or goes away: nobody has looked at it.
Replace(d) == dir' = d /\ sighted' = {}

Want(p) == at[p] = "idle" /\ Look(p, "mkdir")

MakeDirectory(p) ==
  /\ at[p] = "mkdir"
  /\ IF dir = None
     THEN /\ Replace([owner |-> None, old |-> FALSE])
          /\ Move(p, "own") /\ UNCHANGED misplaced
     ELSE Look(p, "stat")

\* Mutation: owner.json is replaced, not created.
WriteOwnerOver(p) ==
  /\ at[p] = "own"
  /\ dir' = [owner |-> p, old |-> FALSE]
  /\ sighted' = IF dir = None THEN {} ELSE sighted
  /\ Move(p, "held") /\ UNCHANGED misplaced

\* atomicCreateJSON(owner.json): makes the directory again if it was moved
\* away, and fails if another process has written its own name there.
WriteOwner(p) ==
  /\ at[p] = "own"
  /\ IF dir # None /\ dir.owner # None
     THEN Look(p, "idle")
     ELSE /\ dir' = [owner |-> p, old |-> FALSE]
          /\ sighted' = IF dir = None THEN {} ELSE sighted
          /\ Move(p, "held") /\ UNCHANGED misplaced

\* stat: only an old directory can be stale.
Stat(p) ==
  /\ at[p] = "stat"
  /\ IF dir # None /\ dir.old
     THEN /\ sighted' = sighted \cup {p}
          /\ Move(p, "judge") /\ UNCHANGED <<dir, misplaced>>
     ELSE Look(p, "mkdir")

\* Mutation: the owner is not asked for.
NotRunningUnasked(owner) == owner \in Procs \cup {None}

\* Mutation: a lock without owner.json is waited for.
NotRunningNamed(owner) == owner \in crashed

\* processAlive: no owner.json, or one that names a dead process.
NotRunning(owner) == owner \notin Procs \ crashed

\* owner.json is read after the stat, from the directory there is by now.
Judge(p) ==
  /\ at[p] = "judge"
  /\ Look(p, IF dir = None \/ NotRunning(dir.owner) THEN "rename" ELSE "mkdir")

\* rename moves away whatever directory there is by now.
Break(p) ==
  /\ at[p] = "rename"
  /\ Replace(None)
  /\ misplaced' = (misplaced \/ (dir # None /\ p \notin sighted))
  /\ Move(p, "mkdir")

GiveUp(p) == at[p] = "stat" /\ Look(p, "idle")

\* releaseLock: unlink owner.json, whoever's it is, ...
RemoveOwner(p) ==
  /\ at[p] = "held"
  /\ dir' = IF dir # None /\ dir.owner # None THEN [owner |-> None, old |-> FALSE] ELSE dir
  /\ Move(p, "rmdir") /\ UNCHANGED <<sighted, misplaced>>

\* ... then rmdir, which fails if another process is named there.
RemoveDirectory(p) ==
  /\ at[p] = "rmdir"
  /\ IF dir # None /\ dir.owner = None
     THEN Replace(None) /\ Move(p, "idle") /\ UNCHANGED misplaced
     ELSE Look(p, "idle")

Crash(p) ==
  /\ Cardinality(crashed) < MaxCrashes
  /\ crashed' = crashed \cup {p}
  /\ UNCHANGED <<dir, at, sighted, misplaced>>

\* Thirty seconds pass, for a holder that lives too.
Age ==
  /\ dir # None /\ ~dir.old
  /\ \A p \in Procs \ crashed : at[p] # "own"
  /\ dir' = [dir EXCEPT !.old = TRUE]
  /\ UNCHANGED <<at, crashed, sighted, misplaced>>

Acquiring(p) ==
  \/ MakeDirectory(p) \/ WriteOwner(p) \/ Stat(p) \/ Judge(p) \/ Break(p)

\* What a process does by itself once it wants the lock.
Progress(p) == Acquiring(p) \/ RemoveOwner(p) \/ RemoveDirectory(p)

LockNext == Age \/ \E p \in Procs \ crashed : Want(p) \/ GiveUp(p) \/ Progress(p) \/ Crash(p)

\* Time passes, the event loop runs every live process, and every operation
\* ends (each is a bounded sequence of file operations).
LockSpec ==
  /\ LockInit /\ [][LockNext]_lockVars
  /\ WF_lockVars(Age)
  /\ \A p \in Procs : WF_lockVars(p \notin crashed /\ Progress(p))
-----------------------------------------------------------------------------
(* Properties *)

LockTypeOK ==
  /\ dir \in Directory \cup {None}
  /\ at \in [Procs -> Places]
  /\ crashed \subseteq Procs /\ sighted \subseteq Procs /\ misplaced \in BOOLEAN

\* withTenantLock: one operation of the tenant at a time, ...
MutualExclusion == \A p, q \in Holding : p = q

\* ... whose directory stays on disk under its name.
HoldersAreNamed == \A p \in Holding : dir # None /\ dir.owner = p

\* Whatever crashes, however slow the holder: it is alone and named, unless a
\* rename moved another directory than the one its process had looked at.
ExclusiveUnlessMisplaced == misplaced \/ (MutualExclusion /\ HoldersAreNamed)

\* The inductive invariant.  Nobody alive is about to sign a directory that is
\* old or that somebody has looked at, so one that was judged stale stays so.
Signing == {p \in Procs \ crashed : at[p] = "own"}

LockInv ==
  /\ LockTypeOK
  /\ dir # None /\ dir.old => Signing = {}
  /\ sighted # {} => dir # None /\ Signing = {}
  /\ misplaced \/ ( /\ HoldersAreNamed
                    /\ (\E p \in sighted \ crashed : at[p] = "rename") => Holding = {} )

\* A process that died with the lock, between any two calls, does not keep
\* the tenant from the others for good.
Wanting == {p \in Procs \ crashed : at[p] \in {"mkdir", "own", "stat", "judge", "rename"}}

DeadHolderIsReplaced ==
  \A p \in Procs : p \in Wanting ~> (p \notin Wanting \/ Holding # {})
=============================================================================
