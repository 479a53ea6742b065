---------------------------- MODULE LocalInstall ----------------------------
(***************************************************************************)
(* Installation of a plugin, or of a skill it includes, out of a checkout  *)
(* (cmd/skills-hub/main.go, installer/install.go and plugin.go): the       *)
(* plugin is copied in place, then the skill unless it is there, and the   *)
(* receipts say of each what was found once it was copied.  No lock is     *)
(* taken and nothing is kept to go back to.  Every file operation is a     *)
(* step; a process may end before any of them.  Beside the processes the   *)
(* checkout is edited, and releases are installed as Installer has it.     *)
(*                                                                         *)
(* A tree has some of the files 1..MaxFile, each with a content; a digest  *)
(* is the tree it is of.  The version and contract of a package stay.      *)
(***************************************************************************)
EXTENDS Naturals, FiniteSets

CONSTANTS Workers, MaxFile, MaxContent, MaxBegun, MaxReleases

ASSUME LocalAssumption == {MaxFile, MaxContent} \subseteq Nat \ {0}

Packages == {"plugin", "skill"}
Trees == [1..MaxFile -> 0..MaxContent]  \* 0 where there is no file
Empty == [f \in 1..MaxFile |-> 0]
Whole(tree) == \A f \in 1..MaxFile : tree[f] # 0

VARIABLES checkout,  \* per package, its tree in the repository
          placed,    \* per package, [there, tree, receipt] in the runtime directory
          worker,
          begun, released,  \* counters for the bounds
          contested  \* history: packages that two workers installed at once

disk == <<placed, released>>
localVars == <<checkout, placed, worker, begun, released, contested>>

\* A receipt: its source, the digest of its tree, and those of its closure.
NoReceipt == [source |-> "none", tree |-> Empty, members |-> {}]
Nowhere == [there |-> FALSE, tree |-> Empty, receipt |-> NoReceipt]

Resting == [pc |-> "idle", entry |-> "plugin", force |-> FALSE, on |-> "plugin", file |-> 0,
            digest |-> Empty, members |-> {}, skipped |-> FALSE, alone |-> TRUE]

LocalInit ==
  /\ checkout = [k \in Packages |-> [f \in 1..MaxFile |-> 1]]
  /\ placed = [k \in Packages |-> Nowhere]
  /\ worker = [p \in Workers |-> Resting]
  /\ begun = 0 /\ released = 0 /\ contested = {}

-----------------------------------------------------------------------------
(* Receipts *)

\* VerifyInstallReceipt; whose release the package is of is not asked.
Verifies(package) ==
  package.there /\ package.receipt.source \in {"local", "remote", "bundled"}
                /\ package.receipt.tree = package.tree

\* Mutation: what is there is adopted whatever it is.
AdoptableAnyway(package, source) == package.there

\* Without a receipt that verifies: is it what would be copied?
Adoptable(package, source) == package.there /\ package.tree = source

\* VerifyInstallClosure of the plugin.
ClosureVerifies ==
  LET receipt == placed["plugin"].receipt
  IN  /\ receipt.members = {placed["skill"].receipt.tree}
      /\ Verifies(placed["skill"])
      /\ placed["skill"].receipt.source = (IF receipt.source = "remote" THEN "bundled" ELSE "local")

-----------------------------------------------------------------------------
(* A process.  It works on one package at a time, and returns to the plugin *)
(* from its member.                                                         *)

InPlace == {"remove", "copy", "digest", "write"}
Writes(w, k) == IF w.on = k THEN w.pc \in InPlace ELSE w.entry = k

Go(p, w) == worker' = [worker EXCEPT ![p] = w]
Step(p, pc) == Go(p, [worker[p] EXCEPT !.pc = pc])
In(p, pc) == worker[p].pc = pc
On(p) == placed[worker[p].on]
Put(p, package) == placed' = [placed EXCEPT ![worker[p].on] = package]

\* Preflight and admission read the checkout only.
BeginLocal(p, k, force) ==
  /\ In(p, "idle") /\ begun < MaxBegun
  /\ begun' = begun + 1
  /\ worker' = [q \in Workers |->
       IF q = p THEN [Resting EXCEPT !.pc = "look", !.entry = k, !.on = k, !.force = force,
                                     !.alone = \A o \in Workers \ {p} : In(o, "idle")]
       ELSE IF In(q, "idle") THEN Resting ELSE [worker[q] EXCEPT !.alone = FALSE]]
  /\ UNCHANGED <<checkout, disk>>

\* It fails, is killed, or has answered.
End(p) ==
  /\ ~In(p, "idle")
  /\ Go(p, Resting)
  /\ UNCHANGED <<checkout, disk, begun>>

\* InstallSkill
LookForDestination(p) ==
  /\ In(p, "look")
  /\ IF ~On(p).there THEN Go(p, [worker[p] EXCEPT !.pc = "copy", !.file = 1])
     ELSE IF worker[p].force THEN Step(p, "remove") ELSE Go(p, Resting)
  /\ UNCHANGED <<checkout, disk, begun>>

\* os.RemoveAll: file by file in any order, the directory last.
RemoveTree(p) ==
  /\ In(p, "remove")
  /\ \/ /\ On(p).receipt # NoReceipt /\ Put(p, [On(p) EXCEPT !.receipt = NoReceipt])
        /\ UNCHANGED worker
     \/ \E f \in 1..MaxFile : /\ On(p).tree[f] # 0 /\ Put(p, [On(p) EXCEPT !.tree[f] = 0])
                              /\ UNCHANGED worker
     \/ /\ On(p).receipt = NoReceipt /\ On(p).tree = Empty
        /\ Put(p, Nowhere)
        /\ Go(p, [worker[p] EXCEPT !.pc = "copy", !.file = 1])
  /\ UNCHANGED <<checkout, begun, released>>

\* copyTree; a plugin is followed by what it includes.
CopyFile(p) ==
  LET f == worker[p].file
      last == f = MaxFile
  IN  /\ In(p, "copy")
      /\ Put(p, [On(p) EXCEPT !.there = TRUE, !.tree[f] = checkout[worker[p].on][f]])
      /\ IF ~last THEN Go(p, [worker[p] EXCEPT !.file = f + 1])
         ELSE IF worker[p].on = "plugin" THEN Go(p, [worker[p] EXCEPT !.pc = "look for member", !.on = "skill", !.file = 0])
         ELSE Go(p, [worker[p] EXCEPT !.pc = "digest", !.file = 0])
      /\ UNCHANGED <<checkout, begun, released>>

\* What the plugin's receipt will say of its member, and back to the plugin.
Recorded(p, skipped) ==
  Go(p, [worker[p] EXCEPT !.pc = "digest", !.on = "plugin", !.skipped = skipped, !.members = {On(p).receipt.tree}])

\* installDependencySet
LookForMember(p) ==
  /\ In(p, "look for member")
  /\ IF ~On(p).there \/ worker[p].force THEN Step(p, "look")
     ELSE IF Verifies(On(p)) THEN Recorded(p, On(p).receipt.source # "local")
     ELSE IF Adoptable(On(p), checkout[worker[p].on]) THEN Step(p, "digest")
     ELSE Go(p, Resting)
  /\ UNCHANGED <<checkout, disk, begun>>

\* WriteInstallReceipt: the digest of what is there, then the file.
Digest(p) ==
  /\ In(p, "digest")
  /\ IF On(p).there THEN Go(p, [worker[p] EXCEPT !.pc = "write", !.digest = On(p).tree])
     ELSE Go(p, Resting)
  /\ UNCHANGED <<checkout, disk, begun>>

WriteReceipt(p) ==
  /\ In(p, "write")
  /\ \/ /\ On(p).there
        /\ Put(p, [On(p) EXCEPT !.receipt =
                      [source |-> "local", tree |-> worker[p].digest,
                       members |-> IF worker[p].on = "plugin" THEN worker[p].members ELSE {}]])
        /\ Go(p, [worker[p] EXCEPT !.digest = Empty,
                                   !.pc = IF worker[p].on = worker[p].entry THEN "done" ELSE "verify"])
     \/ /\ On(p).there /\ Put(p, [On(p) EXCEPT !.receipt = [NoReceipt EXCEPT !.source = "torn"]])
        /\ Go(p, Resting)
     \/ /\ ~On(p).there /\ UNCHANGED placed
        /\ Go(p, Resting)
  /\ UNCHANGED <<checkout, begun, released>>

VerifyMember(p) ==
  /\ In(p, "verify")
  /\ IF Verifies(On(p)) THEN Recorded(p, FALSE) ELSE Go(p, Resting)
  /\ UNCHANGED <<checkout, disk, begun>>

-----------------------------------------------------------------------------
(* Others *)

\* The checkout moves to another revision of a package.
Edit(k) ==
  /\ \A f \in 1..MaxFile : checkout[k][f] < MaxContent
  /\ checkout' = [checkout EXCEPT ![k] = [f \in 1..MaxFile |-> @[f] + 1]]
  /\ UNCHANGED <<disk, worker, begun>>

\* A release is put in place as a whole, with its receipts; that of a plugin
\* brings its members.  Local installations hold no lock against it.
Release(k) ==
  LET tree == [f \in 1..MaxFile |-> 1]
      As(source, members) == [there |-> TRUE, tree |-> tree,
                              receipt |-> [source |-> source, tree |-> tree, members |-> members]]
  IN  /\ released < MaxReleases /\ released' = released + 1
      /\ placed' = IF k = "skill" THEN [placed EXCEPT !["skill"] = As("remote", {})]
                   ELSE [plugin |-> As("remote", {tree}), skill |-> As("bundled", {})]
      /\ worker' = [p \in Workers |-> IF In(p, "idle") THEN Resting ELSE [worker[p] EXCEPT !.alone = FALSE]]
      /\ UNCHANGED <<checkout, begun>>

LocalStep(p) ==
  \/ \E k \in Packages, force \in BOOLEAN : BeginLocal(p, k, force)
  \/ End(p) \/ LookForDestination(p) \/ RemoveTree(p) \/ CopyFile(p) \/ LookForMember(p)
  \/ Digest(p) \/ WriteReceipt(p) \/ VerifyMember(p)

LocalNext ==
  /\ \/ \E p \in Workers : LocalStep(p)
     \/ \E k \in Packages : Release(k) \/ Edit(k)
  /\ contested' = contested \cup {k \in Packages : \E p, q \in Workers :
                                    p # q /\ Writes(worker[p], k)' /\ Writes(worker[q], k)'}

LocalSpec == LocalInit /\ [][LocalNext]_localVars

-----------------------------------------------------------------------------
(* Properties *)

\* A receipt that verifies is of a whole package (receipt.go:74), wherever
\* processes ended, whatever was edited, and though releases are installed
\* meanwhile: only two processes that install the same package at once can get
\* a part of it a receipt.  And the closure of a plugin that one process has
\* installed undisturbed verifies (receipt.go:153), unless its member was
\* there from a release and left as it was (plugin.go:289).
LocalReceiptsAreTrue ==
  /\ \A k \in Packages \ contested : Verifies(placed[k]) => Whole(placed[k].tree)
  /\ \A p \in Workers : In(p, "done") /\ worker[p].alone =>
       /\ Verifies(placed[worker[p].entry])
       /\ worker[p].entry = "plugin" => (ClosureVerifies = ~worker[p].skipped)

\* What was installed without a complaint verifies.  The code does not keep
\* it: a member that is there from a release is skipped and listed in the
\* plugin's local receipt, whose closure must be local.
ReportedClosureVerifies ==
  \A p \in Workers :
    In(p, "done") /\ worker[p].alone /\ worker[p].entry = "plugin" => ClosureVerifies
=============================================================================
