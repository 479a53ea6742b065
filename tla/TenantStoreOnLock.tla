-------------------------- MODULE TenantStoreOnLock --------------------------
(***************************************************************************)
(* The store under the lock it really has (withTenantLock): TenantStore's  *)
(* operations run between acquireLock and releaseLock of TenantLock, and   *)
(* a process acts while it believes it holds the lock.                     *)
(***************************************************************************)
EXTENDS TenantStore

VARIABLES dir, at, sighted, misplaced

lock == <<dir, at, sighted, misplaced>>
allVars == <<vars, lock>>

L == INSTANCE TenantLock WITH crashed <- dead, MaxCrashes <- MaxFaults

InitOnLock == Init /\ L!LockInit

\* acquireLock, before the operation reads anything.
AcquireLock(p) ==
  /\ pc[p] = "out"
  /\ L!Want(p) \/ L!GiveUp(p) \/ L!Acquiring(p)
  /\ UNCHANGED <<faults, store>>

Operate(p) ==
  /\ (StoreStep(p) /\ UNCHANGED faults) \/ Throw(p)
  /\ UNCHANGED <<dead, lock>>

\* The finally clause: the operation's memory goes, then releaseLock.
ReleaseLock(p) ==
  \/ (Forget(p) /\ L!RemoveOwner(p) /\ UNCHANGED faults)
  \/ (L!RemoveDirectory(p) /\ UNCHANGED <<faults, store>>)

StepOnLock(p) ==
  \/ AcquireLock(p)
  \/ Operate(p)
  \/ ReleaseLock(p)
  \/ (Crash(p) /\ UNCHANGED lock)

NextOnLock ==
  /\ \/ (L!Age /\ UNCHANGED <<faults, store>>)
     \/ \E p \in Procs \ dead : StepOnLock(p)
  /\ holders' = L!Holding'

SpecOnLock == InitOnLock /\ [][NextOnLock]_allVars
-----------------------------------------------------------------------------
(* Properties *)

\* Whatever the lock lets through, a record has one content: two operations
\* that both believe they hold the tenant cannot store two claims of a grant,
\* two decisions of a proposal, two outcomes (atomicCreateJSON links).
OneContentPerPath ==
  \A x, y \in domain : x.path = y.path => x = y

\* ... and no event, once appended, is moved or replaced by another.
AuditOnlyGrows == [][IsPrefix(audit, audit')]_audit

\* Whatever the lock lets through, what a caller was told is stored stays
\* stored and audited: a second operation in the store can put back the head
\* and leave out a receipt, but takes no record away and moves no event.
AckedSurvives == \A r \in acked : r \in domain /\ r \in ToSet(audit)

\* One lock is enough for all that module TenantStore promises of one: a body
\* sees unfinished work, or a store does not verify, only after a rename moved
\* another directory away than its process had found stale.
SoundUnlessMisplaced ==
  misplaced \/ (BodySeesCommittedStore /\ NeverCorrupt /\ AckedIsCommitted)

\* ... and until then every record joins the log once, whole and for good.
LogUnlessMisplaced == [][misplaced' \/ Log!Next]_(audit \o SetToSeq(Unaudited))

\* A store at rest verifies: after a process died and the next ones completed
\* what it left, "(await verifyAuditChain(restarted)).valid" is true
\* (tests/agent_control_plane_server.test.mjs).
RestVerifies ==
  (\A p \in Procs \ dead : at[p] = "idle") /\ intents = {} => head = Len(audit)
==============================================================================
