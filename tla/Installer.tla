----------------------------- MODULE Installer -----------------------------
(***************************************************************************)
(* Activation of released packages by skills-hub (installer/remote.go):    *)
(* one package (atomicInstallTreeChecked) or a plugin or agent with the    *)
(* packages it depends on (atomicInstallClosureChecked), by several        *)
(* processes on one runtime directory, each of which may die or fail at    *)
(* any file operation, and the recovery every installation starts with.    *)
(*                                                                         *)
(* One step is one rename, removal or marker write.  The content of a      *)
(* package directory is the release it was installed with: a bundled       *)
(* dependency carries the digest of its parent's archive.  Removing a      *)
(* tree takes two steps, and a crash between them leaves it "partial".     *)
(* Locks are flock locks: a dying process releases them.                   *)
(***************************************************************************)
EXTENDS Integers, Sequences, FiniteSets, SequencesExt

CONSTANTS Procs,      \* skills-hub processes
          Packages,   \* package directories below the runtime directory
          Module,     \* Module[x]: the module directory of a package
          Singles,    \* releases of one package
          Closures,   \* releases of a plugin or agent with its dependencies
          Members,    \* Members[r]: the packages of a release, its root first
          Earlier,    \* packages installed before, with the content Old
          MaxFaults,  \* bound on crashes and failing file operations
          Old, Partial, None

Releases == Singles \cup Closures
Root(r) == Members[r][1]

ASSUME InstallerAssumption ==
  /\ Singles \cap Closures = {} /\ {Old, Partial, None} \cap Releases = {}
  /\ Partial # None /\ Old \notin {Partial, None} /\ Earlier \subseteq Packages
  /\ None \notin Procs /\ None \notin Packages /\ MaxFaults \in Nat
  /\ \A r \in Releases :
       /\ Members[r] \in Seq(Packages) /\ Members[r] # <<>> /\ IsInjective(Members[r])
       /\ r \in Singles => Len(Members[r]) = 1

VARIABLES tree,     \* what is at each package's destination
          closure,  \* closure markers, by root: the transaction, or None
          kept,     \* kept[m][x]: the backup of x in the transaction of root m
          mark,     \* packages with a transaction marker of their own
          spare,    \* the backup that marker names
          lock,     \* holder of each package's lock, or None
          pc, job,  \* where each process is, and the installation it does
          at,       \* the package or root whose marker it is working on
          todo,     \* markers it still has to look at
          left,     \* closure members it still has to activate or recover
          back,     \* where it goes on after a recovery
          acked,    \* ghost: packages some installation reported installed
          faults

disk  == <<tree, closure, kept, mark, spare>>
local == <<pc, job, at, todo, left, back>>
vars  == <<disk, lock, local, acked, faults>>

Whole == Releases \cup {Old}
Content == Whole \cup {Partial, None}
Job == [release : Releases, force : BOOLEAN]
Transactions == [phase : {"prepared", "committed"}, members : Seq(Packages),
                 had : SUBSET Packages, was : [Packages -> Content]]

\* A marker that is there is told from one that is not.
ASSUME MarkerAssumption == None \notin Transactions

\* The members of a release in the order of their transaction; those that had
\* a previous installation; ghost: what was there.
Transaction(x, r, phase) == [phase |-> phase, members |-> Members[r],
  had |-> {y \in ToSet(Members[r]) : x[y] # None}, was |-> x]

Init ==
  /\ tree = [x \in Packages |-> IF x \in Earlier THEN Old ELSE None]
  /\ closure = [x \in Packages |-> None] /\ kept = [m \in Packages |-> [x \in Packages |-> None]]
  /\ mark = {} /\ spare = [x \in Packages |-> None]
  /\ lock = [x \in Packages |-> None]
  /\ pc = [p \in Procs |-> "out"] /\ job = [p \in Procs |-> None]
  /\ at = [p \in Procs |-> None] /\ todo = [p \in Procs |-> {}]
  /\ left = [p \in Procs |-> <<>>] /\ back = [p \in Procs |-> "out"]
  /\ acked = Earlier /\ faults = 0

R(p) == job[p].release
Target(p) == Root(R(p))
Doing(p, place) == pc[p] = place

GoTo(p, place) == pc' = [pc EXCEPT ![p] = place] /\ UNCHANGED <<job, at, todo, left, back>>
Pass(p, place) == GoTo(p, place) /\ UNCHANGED <<disk, lock, acked, faults>>

\* The process returns or dies: it forgets everything, its locks are free.
Reset(p) ==
  /\ pc' = [pc EXCEPT ![p] = "out"] /\ job' = [job EXCEPT ![p] = None]
  /\ at' = [at EXCEPT ![p] = None] /\ todo' = [todo EXCEPT ![p] = {}]
  /\ left' = [left EXCEPT ![p] = <<>>] /\ back' = [back EXCEPT ![p] = "out"]
  /\ lock' = [x \in Packages |-> IF lock[x] = p THEN None ELSE lock[x]]

Fail(p) == Reset(p) /\ UNCHANGED <<disk, acked, faults>>
Done(p) ==
  /\ Reset(p) /\ acked' = acked \cup ToSet(Members[R(p)])
  /\ UNCHANGED <<disk, faults>>

\* TryLock, package after package.
Free(p, S) == \A x \in S : lock[x] \in {None, p}
Lock(p, S) == lock' = [x \in Packages |-> IF x \in S THEN p ELSE lock[x]]

\* One step of os.RemoveAll.
Removed(content) == IF content \in Whole THEN Partial ELSE None
RemoveTree(p, x) ==
  /\ tree' = [tree EXCEPT ![x] = Removed(@)]
  /\ UNCHANGED <<closure, kept, mark, spare, lock, local, acked, faults>>
-----------------------------------------------------------------------------
(* Every installation first recovers what the runtime directory holds. *)

Begin(p, j) ==
  /\ Doing(p, "out")
  /\ job' = [job EXCEPT ![p] = j]
  /\ todo' = [todo EXCEPT ![p] = {m \in Packages : closure[m] # None}]
  /\ pc' = [pc EXCEPT ![p] = "closures"]
  /\ UNCHANGED <<disk, lock, at, left, back, acked, faults>>

\* recoverInterruptedClosureInstalls: read a marker; its absence is an error.
PickClosure(p) ==
  /\ Doing(p, "closures")
  /\ \E m \in todo[p] :
       IF closure[m] = None THEN Fail(p)
       ELSE /\ todo' = [todo EXCEPT ![p] = @ \ {m}]
            /\ at' = [at EXCEPT ![p] = m]
            /\ left' = [left EXCEPT ![p] = closure[m].members]
            /\ pc' = [pc EXCEPT ![p] = "claim"]
            /\ UNCHANGED <<disk, lock, job, back, acked, faults>>

\* Its packages' locks: "closure transaction is busy" otherwise.
ClaimClosure(p) ==
  /\ Doing(p, "claim")
  /\ IF Free(p, ToSet(left[p]))
     THEN /\ Lock(p, ToSet(left[p]))
          /\ pc' = [pc EXCEPT ![p] = "undo"] /\ back' = [back EXCEPT ![p] = "closures"]
          /\ UNCHANGED <<disk, job, at, todo, left, acked, faults>>
     ELSE Fail(p)

\* Mutation: the dependencies are put back while the plugin is there.
UndoMembersFirst(p) ==
  /\ Doing(p, "undo") /\ closure[at[p]] # None
  /\ left' = [left EXCEPT ![p] = Reverse(closure[at[p]].members)]
  /\ pc' = [pc EXCEPT ![p] = "members"]
  /\ UNCHANGED <<disk, lock, job, at, todo, back, acked, faults>>

\* recoverClosureInstallTransaction: the new plugin goes first, ...
UndoRoot(p) ==
  LET m == at[p]
      c == closure[m]
  IN  /\ Doing(p, "undo") /\ c # None
      /\ IF c.phase = "prepared" /\ tree[m] # None /\ (m \notin c.had \/ kept[m][m] # None)
         THEN RemoveTree(p, m)
         ELSE /\ left' = [left EXCEPT ![p] = Reverse(c.members)]
              /\ pc' = [pc EXCEPT ![p] = "members"]
              /\ UNCHANGED <<disk, lock, job, at, todo, back, acked, faults>>

\* ... then each member's previous installation returns, or, if all of the
\* closure was activated, its backup goes, ...
Advance(p) == left' = [left EXCEPT ![p] = Tail(@)] /\ UNCHANGED <<pc, job, at, todo, back>>

\* Mutation: any member that is not there is an error, not only one that was.
RestoreMemberStrict(p, m, x) ==
  \/ tree[x] # None /\ (x \in closure[m].had => kept[m][x] # None) /\ RemoveTree(p, x)
  \/ /\ kept[m][x] # None /\ tree[x] = None
     /\ tree' = [tree EXCEPT ![x] = kept[m][x]] /\ kept' = [kept EXCEPT ![m][x] = None]
     /\ Advance(p) /\ UNCHANGED <<closure, mark, spare, lock, acked, faults>>
  \/ x \in closure[m].had /\ tree[x] # None /\ kept[m][x] = None
     /\ Advance(p) /\ UNCHANGED <<disk, lock, acked, faults>>
  \/ tree[x] = None /\ kept[m][x] = None /\ Fail(p)

RestoreMember(p, m, x) ==
  \/ tree[x] # None /\ (x \in closure[m].had => kept[m][x] # None) /\ RemoveTree(p, x)
  \/ /\ x \in closure[m].had /\ kept[m][x] # None /\ tree[x] = None
     /\ tree' = [tree EXCEPT ![x] = kept[m][x]] /\ kept' = [kept EXCEPT ![m][x] = None]
     /\ Advance(p) /\ UNCHANGED <<closure, mark, spare, lock, acked, faults>>
  \/ /\ x \in closure[m].had <=> tree[x] # None
     /\ kept[m][x] = None
     /\ Advance(p) /\ UNCHANGED <<disk, lock, acked, faults>>
  \/ x \in closure[m].had /\ tree[x] = None /\ kept[m][x] = None /\ Fail(p)

FinishMember(p, m, x) ==
  \/ tree[x] = None /\ Fail(p)   \* "committed closure member is missing"
  \/ /\ tree[x] # None /\ kept[m][x] # None
     /\ kept' = [kept EXCEPT ![m][x] = Removed(@)]
     /\ UNCHANGED <<tree, closure, mark, spare, lock, local, acked, faults>>
  \/ /\ tree[x] # None /\ kept[m][x] = None
     /\ Advance(p) /\ UNCHANGED <<disk, lock, acked, faults>>

UndoMember(p) ==
  LET m == at[p]
      x == Head(left[p])
  IN  /\ Doing(p, "members") /\ left[p] # <<>>
      /\ IF closure[m].phase = "prepared" THEN RestoreMember(p, m, x) ELSE FinishMember(p, m, x)

\* Mutation: the marker goes before all members are back.
UndoMarkerEarly(p) ==
  LET m == at[p]
  IN  /\ Doing(p, "members")
      /\ closure' = [closure EXCEPT ![m] = None]
      /\ GoTo(p, "undo")
      /\ UNCHANGED <<tree, kept, mark, spare, lock, acked, faults>>

\* ... and last the marker.
UndoMarker(p) ==
  LET m == at[p]
  IN  /\ Doing(p, "members") /\ left[p] = <<>>
      /\ closure' = [closure EXCEPT ![m] = None]
      /\ GoTo(p, "undo")
      /\ UNCHANGED <<tree, kept, mark, spare, lock, acked, faults>>

\* Mutation: of a rollback only its own error is returned.
UndoneReported(p) ==
  /\ Doing(p, "undo") /\ closure[at[p]] = None
  /\ \/ /\ back[p] = "closures"
        /\ lock' = [x \in Packages |-> IF lock[x] = p THEN None ELSE lock[x]]
        /\ GoTo(p, "closures") /\ UNCHANGED <<disk, acked, faults>>
     \/ back[p] = "check" /\ Pass(p, "check")
     \/ back[p] \in {"fail", "done"} /\ Done(p)

\* No marker (any more): go on.
Undone(p) ==
  /\ Doing(p, "undo") /\ closure[at[p]] = None
  /\ \/ /\ back[p] = "closures"
        /\ lock' = [x \in Packages |-> IF lock[x] = p THEN None ELSE lock[x]]
        /\ GoTo(p, "closures") /\ UNCHANGED <<disk, acked, faults>>
     \/ back[p] = "check" /\ Pass(p, "check")
     \/ back[p] = "fail" /\ Fail(p)
     \/ back[p] = "done" /\ Done(p)

\* recoverInterruptedInstalls: the markers in the module directory it will
\* install into; a package that is locked is left alone.
Trees(p) ==
  /\ Doing(p, "closures") /\ todo[p] = {}
  /\ todo' = [todo EXCEPT ![p] = {x \in mark : Module[x] = Module[Target(p)]}]
  /\ pc' = [pc EXCEPT ![p] = "trees"]
  /\ UNCHANGED <<disk, lock, job, at, left, back, acked, faults>>

PickTree(p) ==
  /\ Doing(p, "trees")
  /\ \E x \in todo[p] :
       /\ todo' = [todo EXCEPT ![p] = @ \ {x}]
       /\ IF Free(p, {x})
          THEN /\ Lock(p, {x})
               /\ at' = [at EXCEPT ![p] = x] /\ back' = [back EXCEPT ![p] = "trees"]
               /\ pc' = [pc EXCEPT ![p] = "restore"]
          ELSE UNCHANGED <<lock, at, back, pc>>
  /\ UNCHANGED <<disk, job, left, acked, faults>>

\* Mutation: the backup goes in any case.
RestoreByRemoval(p) ==
  LET x == at[p]
  IN  /\ Doing(p, "restore") /\ x \in mark
      /\ \/ /\ spare[x] # None /\ spare' = [spare EXCEPT ![x] = Removed(@)]
            /\ UNCHANGED <<tree, closure, kept, mark, lock, local, acked, faults>>
         \/ spare[x] = None /\ Pass(p, "unmark")

\* Mutation: an upgrade that activated nothing is not recovered.
RestoreOnlyActive(p) ==
  LET x == at[p]
  IN  /\ Doing(p, "restore") /\ x \in mark
      /\ \/ tree[x] = None /\ Fail(p)
         \/ /\ tree[x] # None /\ spare[x] # None
            /\ spare' = [spare EXCEPT ![x] = Removed(@)]
            /\ UNCHANGED <<tree, closure, kept, mark, lock, local, acked, faults>>
         \/ tree[x] # None /\ spare[x] = None /\ Pass(p, "unmark")

\* recoverInstallTransaction: the backup returns if nothing was activated, and
\* goes if something was.
Restore(p) ==
  LET x == at[p]
  IN  /\ Doing(p, "restore") /\ x \in mark
      /\ \/ tree[x] = None /\ spare[x] = None /\ Fail(p)
         \/ /\ tree[x] = None /\ spare[x] # None
            /\ tree' = [tree EXCEPT ![x] = spare[x]] /\ spare' = [spare EXCEPT ![x] = None]
            /\ GoTo(p, "unmark") /\ UNCHANGED <<closure, kept, mark, lock, acked, faults>>
         \/ /\ tree[x] # None /\ spare[x] # None
            /\ spare' = [spare EXCEPT ![x] = Removed(@)]
            /\ UNCHANGED <<tree, closure, kept, mark, lock, local, acked, faults>>
         \/ tree[x] # None /\ spare[x] = None /\ Pass(p, "unmark")

Unmark(p) ==
  /\ Doing(p, "unmark")
  /\ mark' = mark \ {at[p]}
  /\ GoTo(p, "restore")
  /\ UNCHANGED <<tree, closure, kept, spare, lock, acked, faults>>

Restored(p) ==
  /\ Doing(p, "restore") /\ at[p] \notin mark
  /\ \/ /\ back[p] = "trees"
        /\ lock' = [lock EXCEPT ![at[p]] = None]
        /\ GoTo(p, "trees") /\ UNCHANGED <<disk, acked, faults>>
     \/ back[p] = "look" /\ Pass(p, "look")
     \/ back[p] = "fail" /\ Fail(p)
     \/ back[p] = "done" /\ Done(p)
-----------------------------------------------------------------------------
(* Download, verification, staging: nothing in the runtime directory changes. *)

Fetch(p) == Doing(p, "trees") /\ todo[p] = {} /\ (Pass(p, "lock") \/ Fail(p))

\* "another installation is updating": locks of all members or none.
LockMembers(p) ==
  /\ Doing(p, "lock")
  /\ IF Free(p, ToSet(Members[R(p)]))
     THEN /\ Lock(p, ToSet(Members[R(p)]))
          /\ at' = [at EXCEPT ![p] = Target(p)]
          /\ IF R(p) \in Closures
             THEN pc' = [pc EXCEPT ![p] = "undo"] /\ back' = [back EXCEPT ![p] = "check"]
             ELSE pc' = [pc EXCEPT ![p] = "restore"] /\ back' = [back EXCEPT ![p] = "look"]
          /\ UNCHANGED <<disk, job, todo, left, acked, faults>>
     ELSE Fail(p)
-----------------------------------------------------------------------------
(* atomicInstallClosureChecked *)

Refused(p) ==
  \/ ~job[p].force /\ \E x \in ToSet(Members[R(p)]) : tree[x] # None
  \/ Len(Members[R(p)]) > 1 /\ tree[Target(p)] # None

\* The marker names every member, its stage and its backup; an admission that
\* lapsed is noticed before it is written.
Prepare(p) ==
  LET m == Target(p)
  IN  /\ Doing(p, "check")
      /\ IF Refused(p) THEN Fail(p)
         ELSE \/ /\ closure' = [closure EXCEPT ![m] = Transaction(tree, R(p), "prepared")]
                 /\ left' = [left EXCEPT ![p] = Append(Tail(Members[R(p)]), m)]
                 /\ pc' = [pc EXCEPT ![p] = "deactivate"]
                 /\ UNCHANGED <<tree, kept, mark, spare, lock, job, at, todo, back, acked, faults>>
              \/ Fail(p)

\* Whatever goes wrong from here on is undone by the recovery.
Rollback(p) ==
  /\ pc' = [pc EXCEPT ![p] = "undo"] /\ back' = [back EXCEPT ![p] = "fail"]
  /\ left' = [left EXCEPT ![p] = <<>>]
  /\ UNCHANGED <<disk, lock, job, at, todo, acked, faults>>

KeepPrevious(p, x, place) ==
  /\ kept' = [kept EXCEPT ![at[p]][x] = tree[x]]
  /\ tree' = [tree EXCEPT ![x] = None]
  /\ GoTo(p, place)
  /\ UNCHANGED <<closure, mark, spare, lock, acked, faults>>

Deactivate(p) ==
  LET m == at[p]
  IN  /\ Doing(p, "deactivate")
      /\ IF m \in closure[m].had THEN KeepPrevious(p, m, "activate") ELSE Pass(p, "activate")

\* Mutation: room is made by removing the previous installation.
MakeRoomByRemoval(p) ==
  LET x == Head(left[p])
  IN  /\ Doing(p, "activate") /\ left[p] # <<>>
      /\ x # at[p] /\ x \in closure[at[p]].had /\ kept[at[p]][x] = None
      /\ RemoveTree(p, x)

\* A dependency's previous installation makes room, the new one takes its place.
MakeRoom(p) ==
  LET x == Head(left[p])
  IN  /\ Doing(p, "activate") /\ left[p] # <<>>
      /\ x # at[p] /\ x \in closure[at[p]].had /\ kept[at[p]][x] = None
      /\ KeepPrevious(p, x, "activate")

Activate(p) ==
  LET x == Head(left[p])
  IN  /\ Doing(p, "activate") /\ left[p] # <<>>
      /\ x \in closure[at[p]].had => kept[at[p]][x] # None
      /\ IF tree[x] # None THEN Rollback(p)
         ELSE /\ tree' = [tree EXCEPT ![x] = R(p)]
              /\ left' = [left EXCEPT ![p] = Tail(@)]
              /\ UNCHANGED <<closure, kept, mark, spare, lock, pc, job, at, todo, back, acked, faults>>

\* The admission is checked before every activation and before the commit; a
\* rename or a marker write that fails is undone in the same way.
Lapse(p) == pc[p] \in {"deactivate", "activate"} /\ Rollback(p)

\* Mutation: the commit is written in a word the recovery does not know.
CommitDone(p) ==
  LET m == at[p]
  IN  /\ Doing(p, "activate") /\ left[p] = <<>>
      /\ closure' = [closure EXCEPT ![m].phase = "done"]
      /\ pc' = [pc EXCEPT ![p] = "undo"] /\ back' = [back EXCEPT ![p] = "done"]
      /\ UNCHANGED <<tree, kept, mark, spare, lock, job, at, todo, left, acked, faults>>

Commit(p) ==
  LET m == at[p]
  IN  /\ Doing(p, "activate") /\ left[p] = <<>>
      /\ closure' = [closure EXCEPT ![m].phase = "committed"]
      /\ pc' = [pc EXCEPT ![p] = "undo"] /\ back' = [back EXCEPT ![p] = "done"]
      /\ UNCHANGED <<tree, kept, mark, spare, lock, job, at, todo, left, acked, faults>>
-----------------------------------------------------------------------------
(* atomicInstallTreeChecked *)

Look(p) ==
  LET x == at[p]
  IN  /\ Doing(p, "look")
      /\ \/ tree[x] # None /\ ~job[p].force /\ Fail(p)
         \/ tree[x] = None /\ Pass(p, "place")
         \/ /\ tree[x] # None /\ job[p].force
            /\ mark' = mark \cup {x} /\ GoTo(p, "preserve")
            /\ UNCHANGED <<tree, closure, kept, spare, lock, acked, faults>>
         \/ Fail(p)     \* the admission lapsed

\* Nothing was there: one rename.
Place(p) ==
  LET x == at[p]
  IN  /\ Doing(p, "place") /\ tree[x] = None
      /\ tree' = [tree EXCEPT ![x] = R(p)]
      /\ GoTo(p, "placed")
      /\ UNCHANGED <<closure, kept, mark, spare, lock, acked, faults>>

Placed(p) == Doing(p, "placed") /\ Done(p)

\* Mutation: the previous installation is removed, not kept.
PreserveNot(p) ==
  LET x == at[p]
  IN  /\ Doing(p, "preserve")
      /\ tree' = [tree EXCEPT ![x] = None]
      /\ GoTo(p, "swap")
      /\ UNCHANGED <<closure, kept, mark, spare, lock, acked, faults>>

Preserve(p) ==
  LET x == at[p]
  IN  /\ Doing(p, "preserve")
      /\ spare' = [spare EXCEPT ![x] = tree[x]] /\ tree' = [tree EXCEPT ![x] = None]
      /\ GoTo(p, "swap")
      /\ UNCHANGED <<closure, kept, mark, lock, acked, faults>>

\* The rename and the cleanup, or, if the admission lapsed, the way back; both
\* end with the removal of the marker.
Swap(p) ==
  LET x == at[p]
  IN  /\ Doing(p, "swap")
      /\ tree[x] = None
      /\ \/ /\ tree' = [tree EXCEPT ![x] = R(p)]
            /\ back' = [back EXCEPT ![p] = "done"] /\ pc' = [pc EXCEPT ![p] = "restore"]
            /\ UNCHANGED <<closure, kept, mark, spare, lock, job, at, todo, left, acked, faults>>
         \/ /\ tree' = [tree EXCEPT ![x] = spare[x]] /\ spare' = [spare EXCEPT ![x] = None]
            /\ back' = [back EXCEPT ![p] = "fail"] /\ pc' = [pc EXCEPT ![p] = "restore"]
            /\ UNCHANGED <<closure, kept, mark, lock, job, at, todo, left, acked, faults>>
-----------------------------------------------------------------------------
Work(p) ==
  \/ PickClosure(p) \/ ClaimClosure(p) \/ UndoRoot(p) \/ UndoMember(p) \/ UndoMarker(p) \/ Undone(p)
  \/ Trees(p) \/ PickTree(p) \/ Restore(p) \/ Unmark(p) \/ Restored(p)
  \/ Fetch(p) \/ LockMembers(p)
  \/ Prepare(p) \/ Deactivate(p) \/ MakeRoom(p) \/ Activate(p) \/ Lapse(p) \/ Commit(p)
  \/ Look(p) \/ Place(p) \/ Placed(p) \/ Preserve(p) \/ Swap(p)

\* The process dies, or a file operation fails and it returns where it is.
Crash(p) ==
  /\ ~Doing(p, "out") /\ faults < MaxFaults
  /\ faults' = faults + 1
  /\ Reset(p) /\ UNCHANGED <<disk, acked>>

Next == \E p \in Procs : (\E j \in Job : Begin(p, j)) \/ Work(p) \/ Crash(p)

Spec == Init /\ [][Next]_vars

\* Processes run, and somebody goes on installing.
Fairness == \A p \in Procs : WF_vars(Work(p)) /\ WF_vars(\E j \in Job : Begin(p, j))
FairSpec == Spec /\ Fairness
-----------------------------------------------------------------------------
(* Activation in one step *)

\* An uncommitted transaction of root m is to undo what it does to package x.
Undoes(m, x) == closure[m] # None /\ closure[m].phase = "prepared" /\ x \in ToSet(closure[m].members)

\* What it would put back.
Previous(m, x) ==
  IF x \notin closure[m].had THEN None
  ELSE IF kept[m][x] # None THEN kept[m][x] ELSE tree[x]

\* What is at a package once recovery has done with every marker.
Present ==
  [x \in Packages |->
     IF \E m \in Packages : Undoes(m, x) THEN Previous(CHOOSE m \in Packages : Undoes(m, x), x)
     ELSE IF x \in mark /\ tree[x] = None THEN spare[x] ELSE tree[x]]

Atomic == INSTANCE Activation WITH present <- Present, reported <- acked

\* "The full closure shares a durable transaction": wherever processes are
\* interrupted, a release is there with all it brings or what was there before
\* is as it was, and what is reported installed is what was asked for.
ImplementsActivation == Atomic!Spec
-----------------------------------------------------------------------------
(* Properties *)

TypeOK ==
  /\ tree \in [Packages -> Content] /\ spare \in [Packages -> Content]
  /\ kept \in [Packages -> [Packages -> Content]]
  /\ mark \subseteq Packages /\ acked \subseteq Packages
  /\ lock \in [Packages -> Procs \cup {None}]
  /\ job \in [Procs -> Job \cup {None}] /\ todo \in [Procs -> SUBSET Packages]
  /\ at \in [Procs -> Packages \cup {None}] /\ left \in [Procs -> Seq(Packages)]
  /\ \A m \in Packages : closure[m] # None => closure[m].phase \in {"prepared", "committed"}
  /\ faults \in 0..MaxFaults

\* "Plugin dependencies are activated ... before the plugin becomes visible":
\* a plugin that is there, even one being taken away, has all its
\* dependencies, of its own release.
VisibleIsWhole ==
  \A r \in Closures : tree[Root(r)] = r => \A x \in ToSet(Members[r]) : tree[x] = r

\* "A failed or interrupted activation restores every previous dependency":
\* when the marker of an uncommitted closure goes, each member is what it was.
RollbackRestores ==
  [][\A m \in Packages :
       closure[m] # None /\ closure'[m] = None /\ closure[m].phase = "prepared" =>
         \A x \in ToSet(closure[m].members) : tree'[x] = closure[m].was[x]]_closure

\* No step loses the last whole copy of a package that was reported installed.
CopiesOf(x) == {tree[x], spare[x]} \cup {kept[m][x] : m \in Packages}
InstalledSurvives == \A x \in acked : CopiesOf(x) \cap Whole # {}

\* "Interrupted force upgrades are reconciled automatically": recovery finds
\* what a marker needs.
MarkersAreSatisfiable ==
  /\ \A m \in Packages : closure[m] # None =>
       \A x \in ToSet(closure[m].members) :
         IF closure[m].phase = "committed" THEN tree[x] # None
         ELSE x \in closure[m].had => tree[x] # None \/ kept[m][x] # None
  /\ \A x \in mark : tree[x] # None \/ spare[x] # None

\* ... and the markers go, whatever interrupted whom.
InterruptedIsReconciled ==
  /\ \A m \in Packages : closure[m] # None ~> closure[m] = None
  /\ \A x \in Packages : x \in mark ~> x \notin mark
=============================================================================
