--------------------------- MODULE RegistryCache ---------------------------
(***************************************************************************)
(* Remote installation of one catalog entry by processes that share a      *)
(* cache directory (internal/installer/remote.go): registry snapshots kept *)
(* per version selector, and artifacts named by their digest.  An online   *)
(* process takes the index from the registry, an offline one the newest    *)
(* snapshot of its selector; both resolve the version, make sure of the    *)
(* artifact, unpack and admit it, and install it.  An online process keeps *)
(* the index it used once everything has passed.                           *)
(*                                                                         *)
(* The cache has no lock: every file operation is a step, and a process    *)
(* may end between any two, because an operation failed or because it was  *)
(* killed.  The k-th index of the registry lists the versions 1..k and     *)
(* names k the latest.  Putting the package in place is one step here;     *)
(* Installer models it.                                                    *)
(***************************************************************************)
EXTENDS Naturals, FiniteSetsExt

CONSTANTS Procs,
          None,
          Latest,      \* the selector of a run that names no version
          Admissible,  \* the versions whose archive and manifest pass admission
          Keep,        \* snapshots kept per selector: 5 in the code
          MaxIndexes, MaxRuns, MaxSetBacks

ASSUME CacheAssumption ==
  /\ Keep \in Nat \ {0}
  /\ MaxIndexes \in Nat \ {0} /\ {MaxRuns, MaxSetBacks} \subseteq Nat
  /\ Latest \notin 1..MaxIndexes

Versions == 1..MaxIndexes
Selectors == {Latest} \cup Versions

VARIABLES published,  \* how many indexes the registry has published
          artifacts,  \* per version: no file, an unusable one, or the artifact
          snapshots,  \* per selector: the snapshot files
          stamp,      \* the last time a snapshot was named after
          ahead,      \* versions whose evidence is dated ahead of the clock
          installed,
          proc,
          runs,
          kept,       \* history: every snapshot that was ever in place
          lost        \* history: versions whose good artifact was removed

cache == <<artifacts, snapshots, stamp, kept, lost>>
vars == <<published, cache, ahead, installed, proc, runs>>

Idle == [pc |-> "idle", offline |-> FALSE, selector |-> None, index |-> 0, version |-> 0,
         files |-> {}, tree |-> "none", slot |-> None, name |-> 0, before |-> 0]

Init ==
  /\ published = 1
  /\ artifacts \in [Versions -> {"none", "unusable"}]
  /\ snapshots = [s \in Selectors |-> {}] /\ kept = snapshots
  /\ stamp = 0 /\ ahead = {} /\ lost = {} /\ installed = None
  /\ proc = [p \in Procs |-> Idle] /\ runs = 0

-----------------------------------------------------------------------------
(* The registry, and time *)

Publish ==
  /\ published < MaxIndexes
  /\ published' = published + 1
  /\ UNCHANGED <<cache, ahead, installed, proc, runs>>

\* Evidence does not expire, but it may not be dated later than the clock:
\* only a clock that is set back makes it unacceptable.
SetBack(v) ==
  /\ Cardinality(ahead) < MaxSetBacks
  /\ v \notin ahead
  /\ ahead' = ahead \cup {v}
  /\ UNCHANGED <<published, cache, installed, proc, runs>>

-----------------------------------------------------------------------------
(* A run *)

At(p, pc) == proc[p].pc = pc

\* The highest-numbered of a set of snapshot files is the newest.
Newest(files) == CHOOSE f \in files : \A g \in files : g.name <= f.name

\* Mutant: one too few.
StaleOffByOne(files) == {f \in files : Cardinality({g \in files : g.name > f.name}) >= Keep - 1}

\* pruneRegistrySnapshots: all but the newest.
Stale(files) == {f \in files : Cardinality({g \in files : g.name > f.name}) >= Keep}

Resolved(index, selector) == IF selector = Latest THEN index ELSE selector

\* The steps of a run before it writes leave all but the process alone.
OnlyProc == UNCHANGED <<published, cache, ahead, installed, runs>>

Start(p, selector, offline) ==
  /\ At(p, "idle") /\ runs < MaxRuns
  /\ runs' = runs + 1
  /\ proc' = [proc EXCEPT ![p] = [Idle EXCEPT !.pc = IF offline THEN "list" ELSE "fetch",
                                             !.offline = offline, !.selector = selector,
                                             !.before = IF offline THEN Cardinality(kept[selector]) ELSE 0]]
  /\ UNCHANGED <<published, cache, ahead, installed>>

\* A step of p failed, or p was killed: its temporary files are never read.
Stop(p) ==
  /\ ~At(p, "idle")
  /\ proc' = [proc EXCEPT ![p] = Idle]
  /\ OnlyProc

\* An index that does not list what was asked for ends the run.
Use(p, index) ==
  LET version == Resolved(index, proc[p].selector)
  IN  proc' = [proc EXCEPT ![p].index = index, ![p].version = version, ![p].files = {},
                           ![p].pc = IF version \in 1..index THEN "verify" ELSE "refused"]

\* Mutant: the index is kept as soon as it parses.
FetchAndKeep(p) ==
  LET file == [name |-> stamp + 1, index |-> published]
      slot == proc[p].selector
  IN  /\ At(p, "fetch")
      /\ Use(p, published)
      /\ stamp' = stamp + 1
      /\ snapshots' = [snapshots EXCEPT ![slot] = @ \cup {file}]
      /\ kept' = [kept EXCEPT ![slot] = @ \cup {file}]
      /\ UNCHANGED <<published, artifacts, lost, ahead, installed, runs>>

Fetch(p) ==
  /\ At(p, "fetch")
  /\ Use(p, published)
  /\ OnlyProc

\* Offline: list the directory, then read from the newest file down to one
\* that is still there.
ListSnapshots(p) ==
  /\ At(p, "list")
  /\ proc' = [proc EXCEPT ![p].pc = "read", ![p].files = snapshots[proc[p].selector]]
  /\ OnlyProc

ReadSnapshot(p) ==
  /\ At(p, "read") /\ proc[p].files # {}
  /\ LET newest == Newest(proc[p].files)
     IN  IF newest \in snapshots[proc[p].selector]
         THEN Use(p, newest.index)
         ELSE proc' = [proc EXCEPT ![p].files = @ \ {newest}]
  /\ OnlyProc

NoSnapshot(p) ==
  /\ At(p, "read") /\ proc[p].files = {}
  /\ proc' = [proc EXCEPT ![p].pc = "refused"]
  /\ OnlyProc

-----------------------------------------------------------------------------
(* The artifact *)

\* Does the file have the expected digest?
HasDigest(v) == artifacts[v] = "good"

\* Mutant: a file that is there is taken for the artifact.
VerifyPresence(p) ==
  /\ At(p, "verify")
  /\ proc' = [proc EXCEPT ![p].pc = IF artifacts[proc[p].version] # "none" THEN "unpack"
                                    ELSE IF proc[p].offline THEN "refused" ELSE "download"]
  /\ OnlyProc

\* The cached file is hashed before every use.
VerifyCached(p) ==
  /\ At(p, "verify")
  /\ proc' = [proc EXCEPT ![p].pc = IF HasDigest(proc[p].version) THEN "unpack"
                                    ELSE IF proc[p].offline THEN "refused" ELSE "download"]
  /\ OnlyProc

\* The bytes go to a file of the process and have the expected digest.  Then
\* whatever is at the artifact's place by now goes.
Download(p) ==
  /\ At(p, "download")
  /\ artifacts' = [artifacts EXCEPT ![proc[p].version] = "none"]
  /\ lost' = IF HasDigest(proc[p].version) THEN lost \cup {proc[p].version} ELSE lost
  /\ proc' = [proc EXCEPT ![p].pc = "place"]
  /\ UNCHANGED <<published, snapshots, stamp, kept, ahead, installed, runs>>

Place(p) ==
  /\ At(p, "place")
  /\ artifacts' = [artifacts EXCEPT ![proc[p].version] = "good"]
  /\ proc' = [proc EXCEPT ![p].pc = "unpack"]
  /\ UNCHANGED <<published, snapshots, stamp, kept, lost, ahead, installed, runs>>

\* Unpacking opens the file anew: the tree is of what is there by now.
Unpacked(v) == artifacts[v]

\* What follows, up to the receipt, works on the process's own tree.
Admitted(v) == v \in Admissible /\ v \notin ahead

Unpack(p) ==
  /\ At(p, "unpack")
  /\ LET v == proc[p].version
     IN  proc' = [proc EXCEPT ![p].tree = Unpacked(v), ![p].slot = proc[p].selector,
                              ![p].pc = IF Unpacked(v) = "none" \/ ~Admitted(v) THEN "refused"
                                        ELSE IF proc[p].offline THEN "check" ELSE "name"]
  /\ OnlyProc

-----------------------------------------------------------------------------
(* Keeping the index that was used, under the selector and, if that was the *)
(* latest, under the version as well                                        *)

NameSnapshot(p) ==
  /\ At(p, "name")
  /\ stamp' = stamp + 1
  /\ proc' = [proc EXCEPT ![p].pc = "keep", ![p].name = stamp + 1]
  /\ UNCHANGED <<published, artifacts, snapshots, kept, lost, ahead, installed, runs>>

KeepSnapshot(p) ==
  LET file == [name |-> proc[p].name, index |-> proc[p].index]
      slot == proc[p].slot
  IN  /\ At(p, "keep")
      /\ snapshots' = [snapshots EXCEPT ![slot] = @ \cup {file}]
      /\ kept' = [kept EXCEPT ![slot] = @ \cup {file}]
      /\ proc' = [proc EXCEPT ![p].pc = "list stale"]
      /\ UNCHANGED <<published, artifacts, stamp, lost, ahead, installed, runs>>

ListStale(p) ==
  /\ At(p, "list stale")
  /\ proc' = [proc EXCEPT ![p].pc = "prune", ![p].files = Stale(snapshots[proc[p].slot])]
  /\ OnlyProc

Prune(p) ==
  /\ At(p, "prune") /\ proc[p].files # {}
  /\ LET file == Newest(proc[p].files)
     IN  /\ snapshots' = [snapshots EXCEPT ![proc[p].slot] = @ \ {file}]
         /\ proc' = [proc EXCEPT ![p].files = @ \ {file}]
  /\ UNCHANGED <<published, artifacts, stamp, kept, lost, ahead, installed, runs>>

Pruned(p) ==
  /\ At(p, "prune") /\ proc[p].files = {}
  /\ proc' = IF proc[p].slot = Latest
             THEN [proc EXCEPT ![p].pc = "name", ![p].slot = proc[p].version]
             ELSE [proc EXCEPT ![p].pc = "check"]
  /\ OnlyProc

-----------------------------------------------------------------------------
(* Installing: the evidence may not be dated ahead before the trees are     *)
(* staged nor when they have been                                           *)

CheckFreshness(p) ==
  /\ At(p, "check") /\ proc[p].version \notin ahead
  /\ proc' = [proc EXCEPT ![p].pc = "commit"]
  /\ OnlyProc

Commit(p) ==
  /\ At(p, "commit") /\ proc[p].version \notin ahead
  /\ installed' = [version |-> proc[p].version, tree |-> proc[p].tree]
  /\ proc' = [proc EXCEPT ![p] = Idle]
  /\ UNCHANGED <<published, cache, ahead, runs>>

IsAhead(p) ==
  /\ proc[p].pc \in {"check", "commit"} /\ proc[p].version \in ahead
  /\ proc' = [proc EXCEPT ![p].pc = "refused"]
  /\ OnlyProc

Work(p) ==
  \/ \E s \in Selectors, offline \in BOOLEAN : Start(p, s, offline)
  \/ Stop(p)
  \/ Fetch(p) \/ ListSnapshots(p) \/ ReadSnapshot(p) \/ NoSnapshot(p)
  \/ VerifyCached(p) \/ Download(p) \/ Place(p) \/ Unpack(p)
  \/ NameSnapshot(p) \/ KeepSnapshot(p) \/ ListStale(p) \/ Prune(p) \/ Pruned(p)
  \/ CheckFreshness(p) \/ Commit(p) \/ IsAhead(p)

Next ==
  \/ \E p \in Procs : Work(p)
  \/ Publish
  \/ \E v \in Versions : SetBack(v)

Spec == Init /\ [][Next]_vars

-----------------------------------------------------------------------------
(* Properties *)

\* The artifact of a kept snapshot's selection is in the cache unless a
\* process that had found it missing removed it again.
Backed(index, selector) ==
  LET v == Resolved(index, selector)
  IN  v \in Admissible /\ (artifacts[v] = "good" \/ v \in lost)

\* A registry index becomes a snapshot only after everything it selects has
\* passed (docs/remote-install.md:117): whatever the processes do and wherever
\* they end, the selected version is admissible and its artifact is in the
\* cache, or was there until another process removed it (remote.go:529).
SnapshotsAreBacked ==
  \A s \in Selectors : \A f \in snapshots[s] : Backed(f.index, s)

\* The Keep latest snapshots of a selector stay (docs/remote-install.md:118),
\* however many processes add and prune at once (remote.go:437 and 453).
LatestAreRetained ==
  \A s \in Selectors : \A f \in kept[s] \ snapshots[s] :
    Cardinality({g \in kept[s] : g.name > f.name}) >= Keep

\* What is installed, or about to be, was hashed or downloaded by the process
\* that installs it, is admissible, and is what the index in use names for the
\* selector - offline, an index that was kept for that selector - though the
\* cached file is opened again after it was hashed (remote.go:170).
InstalledIsVerified ==
  /\ installed # None => installed.tree = "good" /\ installed.version \in Admissible
  /\ \A p \in Procs : At(p, "commit") =>
       /\ proc[p].tree = "good"
       /\ proc[p].version = Resolved(proc[p].index, proc[p].selector)
       /\ proc[p].version \in Admissible \cap 1..proc[p].index
       /\ proc[p].offline => \E f \in kept[proc[p].selector] : f.index = proc[p].index

\* After one successful online fetch an offline run is served (README.md:183,
\* docs/remote-install.md:127): when a snapshot was there at its start it is
\* refused only if its evidence is dated ahead, if Keep newer snapshots came
\* while it was looking, or if another process removed the artifact.
OfflineIsServed ==
  \A p \in Procs :
    (At(p, "refused") /\ proc[p].offline /\ proc[p].before > 0) =>
      \/ proc[p].version \in ahead \cup lost
      \/ Cardinality(kept[proc[p].selector]) >= proc[p].before + Keep

\* "Any existing file at this path already failed verification above, so
\* removing it cannot discard trusted data" (remote.go:526).
TrustedArtifactsStay ==
  [][\A v \in Versions : artifacts[v] = "good" => artifacts'[v] = "good"]_artifacts
=============================================================================
