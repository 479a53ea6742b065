------------------------ MODULE InstallSourcesProofs ------------------------
(***************************************************************************)
(* The two sources of an installation, for any processes and bounds.  The  *)
(* registry's cache, for any indexes and number of snapshots kept: what it *)
(* keeps and what is installed from it has passed, and an offline run      *)
(* finds what was kept for it.  The checkout, for any files and contents:  *)
(* receipts tell the truth.                                                *)
(***************************************************************************)
EXTENDS RegistryCache, LocalInstall, FiniteSetTheorems, WellFoundedInduction, TLAPS

-----------------------------------------------------------------------------
(* Types                                                                    *)

File == [name : Nat, index : Versions]
Content == {"none", "unusable", "good"}
Places == {"idle", "fetch", "list", "read", "verify", "download", "place", "unpack",
           "name", "keep", "list stale", "prune", "check", "commit", "refused"}

Run == [pc : Places, offline : BOOLEAN, selector : Selectors \cup {None}, index : 0..MaxIndexes,
        version : Nat, files : SUBSET File, tree : Content, slot : Selectors \cup {None},
        name : Nat, before : Nat]

Typing ==
  /\ published \in Versions /\ artifacts \in [Versions -> Content] /\ stamp \in Nat
  /\ snapshots \in [Selectors -> SUBSET File] /\ kept \in [Selectors -> SUBSET File]
  /\ \A s \in Selectors : IsFiniteSet(kept[s])
  /\ proc \in [Procs -> Run]

LEMMA Selections ==
  /\ 1 \in Versions /\ Latest \in Selectors /\ Latest \notin Versions
  /\ \A s \in Selectors : s = Latest \/ s \in Versions
  /\ \A v \in Versions : v \in Selectors /\ v \in Nat
  /\ \A i \in 0..MaxIndexes : 1..i \subseteq Versions
BY CacheAssumption DEF Versions, Selectors

-----------------------------------------------------------------------------
(* The invariant                                                            *)

\* The artifact is in the cache, or was until another process removed it.
Had(v) == artifacts[v] = "good" \/ v \in lost

Selecting == {"verify", "download", "place", "unpack", "name", "keep", "list stale", "prune",
              "check", "commit"}
Keeping == {"name", "keep", "list stale", "prune"}
Passed == Keeping \cup {"check", "commit"}

\* What a run has established, by where it is.
Earned(r) ==
  /\ r.pc # "idle" => r.selector \in Selectors
  /\ r.pc = "fetch" => ~r.offline
  /\ r.pc \in Selecting =>
       /\ r.version = Resolved(r.index, r.selector) /\ r.version \in Versions /\ r.version <= r.index
       /\ r.offline => \E f \in kept[r.selector] : f.index = r.index
  /\ r.pc = "unpack" => artifacts[r.version] # "unusable"
  /\ r.pc \in Passed => r.tree = "good" /\ r.version \in Admissible /\ Had(r.version)
  /\ r.pc \in Keeping => r.slot = r.selector \/ (r.selector = Latest /\ r.slot = r.version)

KeptIsBacked ==
  \A s \in Selectors :
    /\ snapshots[s] \subseteq kept[s]
    /\ \A f \in kept[s] : LET v == Resolved(f.index, s)
                          IN  v \in Admissible /\ v \in Versions /\ Had(v)

Installed == installed # None => installed.tree = "good" /\ installed.version \in Admissible

CacheInv == Typing /\ KeptIsBacked /\ Installed /\ \A p \in Procs : Earned(proc[p])

-----------------------------------------------------------------------------
(* What other processes may do to a run                                     *)

\* The cache only ever loses an artifact on the record, keeps its snapshots'
\* history, and never gets a new unusable file.
Preserving ==
  /\ \A v \in Versions : artifacts'[v] \in {artifacts[v], "none", "good"} /\ (Had(v) => Had(v)')
  /\ \A s \in Selectors : kept[s] \subseteq kept'[s]

LEMMA EarnedStays ==
  ASSUME Preserving, NEW r \in Run, Earned(r)
  PROVE  Earned(r)'
BY DEF Earned, Preserving, Selecting, Passed, Keeping

LEMMA Untouched == UNCHANGED cache => Preserving
BY DEF cache, Preserving, Had

\* A step of one run that changes nothing but the run.
LEMMA RunSteps ==
  ASSUME CacheInv, NEW p \in Procs, UNCHANGED <<published, cache, installed>>,
         NEW r \in Run, proc' = [proc EXCEPT ![p] = r], Earned(r)
  PROVE  CacheInv'
<1>1. Preserving
  BY Untouched
<1>2. Typing'
  BY DEF CacheInv, Typing, cache
<1>3. KeptIsBacked' /\ Installed'
  BY DEF CacheInv, KeptIsBacked, Installed, Had, cache
<1>4. ASSUME NEW q \in Procs PROVE Earned(proc[q])'
  <2>1. PICK x \in Run : x = proc'[q] /\ Earned(x)
    BY DEF CacheInv, Typing
  <2>2. Earned(x)'
    BY <1>1, <2>1, EarnedStays
  <2> QED
    BY <2>1, <2>2 DEF Earned
<1> QED
  BY <1>2, <1>3, <1>4 DEF CacheInv

LEMMA Initially == Init => CacheInv
<1> SUFFICES ASSUME Init PROVE CacheInv
  OBVIOUS
<1>1. Idle \in Run /\ Idle.pc = "idle"
  BY CacheAssumption DEF Idle, Run, Places, Content
<1>2. Typing
  <2>1. artifacts \in [Versions -> Content]
    BY DEF Init, Content
  <2>2. \A s \in Selectors : kept[s] = {} /\ snapshots[s] = {}
    BY DEF Init
  <2>3. \A s \in Selectors : IsFiniteSet(kept[s])
    BY <2>2, FS_EmptySet
  <2> QED
    BY <1>1, <2>1, <2>3, Selections DEF Init, Typing
<1>3. KeptIsBacked /\ Installed
  BY DEF Init, KeptIsBacked, Installed
<1>4. \A p \in Procs : Earned(proc[p])
  <2> HIDE DEF Idle
  <2> QED
    BY <1>1 DEF Init, Earned, Selecting, Passed, Keeping
<1> QED
  BY <1>2, <1>3, <1>4 DEF CacheInv

-----------------------------------------------------------------------------
(* The index                                                                *)

LEMMA Beginning ==
  ASSUME CacheInv, NEW p \in Procs,
         (\E s \in Selectors, offline \in BOOLEAN : Start(p, s, offline)) \/ Stop(p)
  PROVE  CacheInv'
<1>0. Idle \in Run /\ Idle.pc = "idle"
  BY CacheAssumption DEF Idle, Run, Places, Content
<1>1. CASE \E s \in Selectors, offline \in BOOLEAN : Start(p, s, offline)
  <2>1. PICK s \in Selectors, offline \in BOOLEAN : Start(p, s, offline)
    BY <1>1
  <2>2. Cardinality(kept[s]) \in Nat
    BY FS_CardinalityType DEF CacheInv, Typing
  <2> DEFINE place == IF offline THEN "list" ELSE "fetch"
             before == IF offline THEN Cardinality(kept[s]) ELSE 0
             r == [Idle EXCEPT !.pc = place, !.offline = offline, !.selector = s, !.before = before]
  <2>3. before \in Nat /\ place \in {"list", "fetch"} /\ (place = "fetch" => ~offline)
    BY <2>2
  <2>4. proc' = [proc EXCEPT ![p] = r] /\ UNCHANGED <<published, cache, installed>>
    BY <2>1 DEF Start
  <2> HIDE DEF place, before, Idle
  <2>5. r \in Run /\ r.pc = place /\ r.offline = offline /\ r.selector = s
    BY <1>0, <2>3 DEF Run, Places
  <2> HIDE DEF r
  <2>6. Earned(r)
    BY <2>3, <2>5 DEF Earned, Selecting, Passed, Keeping
  <2> QED
    BY <2>4, <2>5, <2>6, RunSteps
<1>2. CASE Stop(p)
  <2> HIDE DEF Idle
  <2>1. Earned(Idle)
    BY <1>0 DEF Earned, Selecting, Passed, Keeping
  <2> QED
    BY <1>0, <1>2, <2>1, RunSteps DEF Stop, OnlyProc
<1> QED
  BY <1>1, <1>2

\* A run takes an index: offline, one that was kept.
LEMMA UseSteps ==
  ASSUME CacheInv, NEW p \in Procs, NEW index \in Versions, proc[p].pc \in {"fetch", "read"},
         Use(p, index), OnlyProc,
         proc[p].offline => \E f \in kept[proc[p].selector] : f.index = index
  PROVE  CacheInv'
<1>1. proc[p] \in Run /\ proc[p].selector \in Selectors
  BY DEF CacheInv, Typing, Earned
<1> DEFINE version == Resolved(index, proc[p].selector)
           place == IF version \in 1..index THEN "verify" ELSE "refused"
           r == [proc[p] EXCEPT !.index = index, !.version = version, !.files = {}, !.pc = place]
<1>2. version \in Versions /\ version \in Nat /\ index \in 0..MaxIndexes
  BY <1>1, Selections, CacheAssumption DEF Resolved, Versions
<1>3. place \in {"verify", "refused"} /\ (place = "verify" => version <= index)
  BY <1>2
<1>4. proc' = [proc EXCEPT ![p] = r]
  BY DEF Use
<1> HIDE DEF version, place
<1>5. /\ r \in Run /\ r.pc = place /\ r.version = version /\ r.index = index
      /\ r.offline = proc[p].offline /\ r.selector = proc[p].selector
  BY <1>1, <1>2, <1>3 DEF Run, Places
<1> HIDE DEF r
<1>6. Earned(r)
  BY <1>1, <1>2, <1>3, <1>5 DEF Earned, Selecting, Passed, Keeping, version
<1> QED
  BY <1>4, <1>5, <1>6, RunSteps DEF OnlyProc

LEMMA Indexing ==
  ASSUME CacheInv, NEW p \in Procs, Fetch(p) \/ ListSnapshots(p) \/ ReadSnapshot(p) \/ NoSnapshot(p)
  PROVE  CacheInv'
<1>1. proc[p] \in Run /\ Earned(proc[p]) /\ Typing
  BY DEF CacheInv, Typing
<1>2. CASE Fetch(p)
  <2>1. proc[p].pc = "fetch" /\ Use(p, published) /\ OnlyProc
    BY <1>2 DEF Fetch, At
  <2> QED
    BY <1>1, <2>1, UseSteps DEF Earned, Typing
<1>3. CASE ListSnapshots(p)
  <2> DEFINE r == [proc[p] EXCEPT !.pc = "read", !.files = snapshots[proc[p].selector]]
  <2>1. proc[p].selector \in Selectors
    BY <1>1, <1>3 DEF Earned, ListSnapshots, At
  <2>2. snapshots[proc[p].selector] \subseteq File
    BY <1>1, <2>1 DEF Typing
  <2>3. proc' = [proc EXCEPT ![p] = r] /\ OnlyProc
    BY <1>3 DEF ListSnapshots
  <2>4. r \in Run /\ r.pc = "read" /\ r.selector = proc[p].selector
    BY <1>1, <2>2 DEF Run, Places
  <2> HIDE DEF r
  <2>5. Earned(r)
    BY <2>1, <2>4 DEF Earned, Selecting, Passed, Keeping
  <2> QED
    BY <2>3, <2>4, <2>5, RunSteps DEF OnlyProc
<1>4. CASE ReadSnapshot(p)
  <2>1. PICK newest : /\ newest = Newest(proc[p].files) /\ OnlyProc /\ proc[p].pc = "read"
                      /\ IF newest \in snapshots[proc[p].selector] THEN Use(p, newest.index)
                         ELSE proc' = [proc EXCEPT ![p].files = @ \ {newest}]
    BY <1>4 DEF ReadSnapshot, At
  <2>2. proc[p].selector \in Selectors
    BY <1>1, <2>1 DEF Earned
  <2>3. CASE newest \in snapshots[proc[p].selector]
    <3>1. newest \in kept[proc[p].selector] /\ newest.index \in Versions
      BY <2>2, <2>3 DEF CacheInv, Typing, KeptIsBacked, File
    <3> QED
      BY <2>1, <2>3, <3>1, UseSteps
  <2>4. CASE newest \notin snapshots[proc[p].selector]
    <3> DEFINE r == [proc[p] EXCEPT !.files = @ \ {newest}]
    <3>1. proc' = [proc EXCEPT ![p] = r]
      BY <2>1, <2>4
    <3>2. r \in Run /\ r.pc = "read" /\ r.selector = proc[p].selector
      BY <1>1, <2>1 DEF Run
    <3> HIDE DEF r
    <3>3. Earned(r)
      BY <2>2, <3>2 DEF Earned, Selecting, Passed, Keeping
    <3> QED
      BY <2>1, <3>1, <3>2, <3>3, RunSteps DEF OnlyProc
  <2> QED
    BY <2>3, <2>4
<1>5. CASE NoSnapshot(p)
  <2> DEFINE r == [proc[p] EXCEPT !.pc = "refused"]
  <2>1. proc' = [proc EXCEPT ![p] = r] /\ OnlyProc /\ proc[p].pc = "read"
    BY <1>5 DEF NoSnapshot, At
  <2>2. r \in Run /\ r.pc = "refused" /\ r.selector = proc[p].selector
    BY <1>1 DEF Run, Places
  <2> HIDE DEF r
  <2>3. Earned(r)
    BY <1>1, <2>1, <2>2 DEF Earned, Selecting, Passed, Keeping
  <2> QED
    BY <2>1, <2>2, <2>3, RunSteps DEF OnlyProc
<1> QED
  BY <1>2, <1>3, <1>4, <1>5

-----------------------------------------------------------------------------
(* The artifact                                                             *)

\* A run moves on with what it has.
LEMMA PlaceSteps ==
  ASSUME CacheInv, NEW p \in Procs, NEW place \in Places \ {"idle", "fetch"}, OnlyProc,
         proc' = [proc EXCEPT ![p].pc = place], proc[p].pc # "idle",
         place \in Selecting => proc[p].pc \in Selecting,
         place = "unpack" => artifacts[proc[p].version] # "unusable",
         place \in Passed => proc[p].pc \in Passed,
         place \in Keeping => proc[p].pc \in Keeping
  PROVE  CacheInv'
<1>1. proc[p] \in Run /\ Earned(proc[p])
  BY DEF CacheInv, Typing
<1> DEFINE r == [proc[p] EXCEPT !.pc = place]
<1>2. proc' = [proc EXCEPT ![p] = r]
  OBVIOUS
<1>3. /\ r \in Run /\ r.pc = place /\ r.version = proc[p].version /\ r.index = proc[p].index
      /\ r.offline = proc[p].offline /\ r.selector = proc[p].selector /\ r.slot = proc[p].slot
      /\ r.tree = proc[p].tree
  BY <1>1 DEF Run
<1> HIDE DEF r
<1>4. Earned(r)
  BY <1>1, <1>3 DEF Earned
<1> QED
  BY <1>2, <1>3, <1>4, RunSteps DEF OnlyProc

\* A step that changes the cache, or what is installed.
LEMMA CacheSteps ==
  ASSUME CacheInv, NEW p \in Procs, NEW r \in Run, proc' = [proc EXCEPT ![p] = r],
         Preserving, Typing', KeptIsBacked', Installed', Earned(r)'
  PROVE  CacheInv'
<1>1. ASSUME NEW q \in Procs PROVE Earned(proc[q])'
  <2>1. CASE q = p
    <3>1. proc'[q] = r
      BY <2>1 DEF CacheInv, Typing
    <3> QED
      BY <3>1 DEF Earned
  <2>2. CASE q # p
    <3>1. PICK x \in Run : x = proc'[q] /\ Earned(x)
      BY <2>2 DEF CacheInv, Typing
    <3>2. Earned(x)'
      BY <3>1, EarnedStays
    <3> QED
      BY <3>1, <3>2 DEF Earned
  <2> QED
    BY <2>1, <2>2
<1> QED
  BY <1>1 DEF CacheInv

LEMMA KeptStaysBacked ==
  ASSUME CacheInv, Preserving, kept' = kept,
         \A s \in Selectors : snapshots'[s] \subseteq snapshots[s]
  PROVE  KeptIsBacked'
BY DEF CacheInv, Preserving, KeptIsBacked

LEMMA Fetching ==
  ASSUME CacheInv, NEW p \in Procs, VerifyCached(p) \/ Download(p) \/ Place(p)
  PROVE  CacheInv'
<1>1. proc[p] \in Run /\ Earned(proc[p]) /\ Typing
  BY DEF CacheInv, Typing
<1>2. PICK v \in Versions : v = proc[p].version
  BY <1>1 DEF Earned, Selecting, VerifyCached, Download, Place, At
<1>3. CASE VerifyCached(p)
  <2>1. PICK place \in {"unpack", "refused", "download"} :
          /\ proc' = [proc EXCEPT ![p].pc = place] /\ OnlyProc /\ proc[p].pc = "verify"
          /\ place = "unpack" => artifacts[v] = "good"
    BY <1>2, <1>3 DEF VerifyCached, HasDigest, At
  <2> QED
    BY <1>2, <2>1, PlaceSteps DEF Places, Selecting, Passed, Keeping
<1>4. CASE Download(p) \/ Place(p)
  <2>1. PICK place \in {"place", "unpack"}, content \in {"none", "good"} :
          /\ proc' = [proc EXCEPT ![p].pc = place] /\ artifacts' = [artifacts EXCEPT ![v] = content]
          /\ proc[p].pc \in {"download", "place"}
          /\ content = "none" /\ artifacts[v] = "good" => v \in lost'
          /\ lost \subseteq lost'
          /\ place = "unpack" => content = "good"
          /\ UNCHANGED <<published, snapshots, stamp, kept, installed>>
    <3>1. CASE Download(p)
      BY <1>2, <3>1 DEF Download, HasDigest, At
    <3>2. CASE Place(p)
      BY <1>2, <3>2 DEF Place, At
    <3> QED
      BY <1>4, <3>1, <3>2
  <2>2. Preserving
    BY <1>1, <2>1 DEF Preserving, Had, Typing
  <2>3. PICK r \in Run : r = [proc[p] EXCEPT !.pc = place]
    BY <1>1 DEF Run, Places
  <2>4. /\ proc' = [proc EXCEPT ![p] = r] /\ r.pc = place /\ r.version = v
        /\ r.index = proc[p].index /\ r.offline = proc[p].offline /\ r.selector = proc[p].selector
    BY <1>1, <1>2, <2>1, <2>3 DEF Run
  <2>5. Typing'
    BY <1>1, <2>1, <2>4 DEF Typing, Content
  <2>6. KeptIsBacked' /\ Installed'
    BY <2>1, <2>2, KeptStaysBacked DEF CacheInv, Installed
  <2>7. Earned(r)'
    <3>1. place = "unpack" => artifacts'[v] = "good"
      BY <1>1, <2>1 DEF Typing
    <3>2. proc[p].pc \in {"download", "place"}
      BY <1>4 DEF Download, Place, At
    <3>3. /\ proc[p].pc # "idle" /\ proc[p].pc \in Selecting
          /\ r.pc # "fetch" /\ r.pc \notin Passed /\ r.pc \notin Keeping
      BY <2>4, <3>2 DEF Selecting, Passed, Keeping
    <3> QED
      BY <1>1, <1>2, <2>1, <2>4, <3>1, <3>3 DEF Earned
  <2> QED
    BY <2>2, <2>4, <2>5, <2>6, <2>7, CacheSteps
<1> QED
  BY <1>3, <1>4

\* The tree is of the verified artifact, or the run ends.
LEMMA Unpacking ==
  ASSUME CacheInv, NEW p \in Procs, Unpack(p)
  PROVE  CacheInv'
<1>1. proc[p] \in Run /\ Earned(proc[p]) /\ Typing /\ proc[p].pc = "unpack"
  BY DEF CacheInv, Typing, Unpack, At
<1>2. PICK v \in Versions : v = proc[p].version /\ artifacts[v] # "unusable"
  BY <1>1 DEF Earned, Selecting
<1> DEFINE place == IF artifacts[v] = "none" \/ ~Admitted(v) THEN "refused"
                    ELSE IF proc[p].offline THEN "check" ELSE "name"
           r == [proc[p] EXCEPT !.tree = artifacts[v], !.slot = proc[p].selector, !.pc = place]
<1>3. proc' = [proc EXCEPT ![p] = r] /\ OnlyProc
  BY <1>2 DEF Unpack, Unpacked
<1>4. /\ place \in {"refused", "check", "name"}
      /\ place # "refused" => artifacts[v] = "good" /\ v \in Admissible
  BY <1>1, <1>2 DEF Typing, Content, Admitted
<1> HIDE DEF place
<1>5. /\ r \in Run /\ r.pc = place /\ r.version = v /\ r.index = proc[p].index
      /\ r.offline = proc[p].offline /\ r.selector = proc[p].selector /\ r.slot = proc[p].selector
      /\ r.tree = artifacts[v]
  BY <1>1, <1>2, <1>4 DEF Run, Places, Typing
<1> HIDE DEF r
<1>6. Earned(r)
  BY <1>1, <1>2, <1>4, <1>5 DEF Earned, Selecting, Passed, Keeping, Had
<1> QED
  BY <1>3, <1>5, <1>6, RunSteps DEF OnlyProc

-----------------------------------------------------------------------------
(* Keeping the index                                                        *)

LEMMA Naming ==
  ASSUME CacheInv, NEW p \in Procs, NameSnapshot(p)
  PROVE  CacheInv'
<1>1. proc[p] \in Run /\ Earned(proc[p]) /\ Typing /\ proc[p].pc = "name" /\ stamp + 1 \in Nat
  BY DEF CacheInv, Typing, NameSnapshot, At
<1>2. PICK r \in Run : r = [proc[p] EXCEPT !.pc = "keep", !.name = stamp + 1]
  BY <1>1 DEF Run, Places
<1>3. /\ proc' = [proc EXCEPT ![p] = r] /\ r.pc = "keep" /\ r.version = proc[p].version
      /\ r.index = proc[p].index /\ r.offline = proc[p].offline /\ r.selector = proc[p].selector
      /\ r.slot = proc[p].slot /\ r.tree = proc[p].tree
  BY <1>1, <1>2 DEF NameSnapshot, Run
<1>4. Preserving
  BY DEF Preserving, Had, NameSnapshot
<1>5. Typing' /\ KeptIsBacked' /\ Installed'
  <2>1. Typing'
    BY <1>1, <1>3 DEF Typing, NameSnapshot
  <2> QED
    BY <1>4, <2>1, KeptStaysBacked DEF CacheInv, Installed, NameSnapshot
<1>6. Earned(r)
  BY <1>1, <1>3 DEF Earned, Selecting, Passed, Keeping
<1> QED
  BY <1>3, <1>4, <1>5, <1>6, EarnedStays, CacheSteps

\* The file that comes into place selects what has passed.
LEMMA Adding ==
  ASSUME CacheInv, NEW p \in Procs, KeepSnapshot(p)
  PROVE  CacheInv'
<1>1. proc[p] \in Run /\ Earned(proc[p]) /\ Typing /\ proc[p].pc = "keep"
  BY DEF CacheInv, Typing, KeepSnapshot, At
<1>2. PICK file, slot, r :
        /\ file = [name |-> proc[p].name, index |-> proc[p].index] /\ slot = proc[p].slot
        /\ r = [proc[p] EXCEPT !.pc = "list stale"]
        /\ snapshots' = [snapshots EXCEPT ![slot] = @ \cup {file}]
        /\ kept' = [kept EXCEPT ![slot] = @ \cup {file}]
        /\ proc' = [proc EXCEPT ![p] = r]
        /\ UNCHANGED <<published, artifacts, stamp, lost, installed>>
  BY DEF KeepSnapshot
<1>3. /\ proc[p].version = Resolved(proc[p].index, proc[p].selector) /\ proc[p].version \in Versions
      /\ proc[p].version <= proc[p].index /\ proc[p].version \in Admissible /\ Had(proc[p].version)
      /\ proc[p].selector \in Selectors
      /\ slot = proc[p].selector \/ (proc[p].selector = Latest /\ slot = proc[p].version)
  BY <1>1, <1>2 DEF Earned, Selecting, Passed, Keeping
<1>4. proc[p].index \in Versions
  <2>1. proc[p].index \in 0..MaxIndexes
    BY <1>1 DEF Run
  <2> QED
    BY <1>3, <2>1, CacheAssumption DEF Versions
<1>5. slot \in Selectors /\ Resolved(proc[p].index, slot) = proc[p].version
  BY <1>3, Selections DEF Resolved
<1>6. file \in File /\ file.index = proc[p].index
  BY <1>1, <1>2, <1>4 DEF File, Run
<1>7. /\ r \in Run /\ r.pc = "list stale" /\ r.version = proc[p].version /\ r.index = proc[p].index
      /\ r.offline = proc[p].offline /\ r.selector = proc[p].selector /\ r.slot = proc[p].slot
      /\ r.tree = proc[p].tree
  BY <1>1, <1>2 DEF Run, Places
<1>8. \A s \in Selectors :
        /\ snapshots'[s] = IF s = slot THEN snapshots[s] \cup {file} ELSE snapshots[s]
        /\ kept'[s] = IF s = slot THEN kept[s] \cup {file} ELSE kept[s]
  BY <1>1, <1>2 DEF Typing
<1>9. Preserving
  <2>1. \A s \in Selectors : kept[s] \subseteq kept'[s]
    <3> TAKE s \in Selectors
    <3>1. CASE s = slot
      BY <1>8, <3>1
    <3>2. CASE s # slot
      BY <1>8, <3>2
    <3> QED
      BY <3>1, <3>2
  <2> QED
    BY <1>2, <2>1 DEF Preserving, Had
<1>10. Typing'
  <2>1. ASSUME NEW s \in Selectors PROVE IsFiniteSet(kept'[s])
    <3>1. IsFiniteSet(kept[s])
      BY <1>1 DEF Typing
    <3>2. IsFiniteSet(kept[s] \cup {file})
      BY <3>1, FS_AddElement
    <3>3. CASE s = slot
      <4>1. kept'[s] = kept[s] \cup {file}
        BY <1>8, <3>3
      <4> QED
        BY <3>2, <4>1
    <3>4. CASE s # slot
      <4>1. kept'[s] = kept[s]
        BY <1>8, <3>4
      <4> QED
        BY <3>1, <4>1
    <3> QED
      BY <3>3, <3>4
  <2>2. /\ snapshots' \in [Selectors -> SUBSET File] /\ kept' \in [Selectors -> SUBSET File]
        /\ proc' \in [Procs -> Run]
    BY <1>1, <1>2, <1>6, <1>7 DEF Typing
  <2> QED
    BY <1>1, <1>2, <2>1, <2>2 DEF Typing
<1>11. KeptIsBacked'
  <2> SUFFICES ASSUME NEW s \in Selectors
               PROVE  /\ snapshots'[s] \subseteq kept'[s]
                      /\ \A f \in kept'[s] :
                           /\ Resolved(f.index, s) \in Admissible /\ Resolved(f.index, s) \in Versions
                           /\ Had(Resolved(f.index, s))'
    BY DEF KeptIsBacked, Had
  <2>1. snapshots[s] \subseteq kept[s]
    BY DEF CacheInv, KeptIsBacked
  <2>2. ASSUME NEW f \in kept[s]
        PROVE  /\ Resolved(f.index, s) \in Admissible /\ Resolved(f.index, s) \in Versions
               /\ Had(Resolved(f.index, s))'
    BY <1>2 DEF CacheInv, KeptIsBacked, Had
  <2>3. s = slot => /\ Resolved(file.index, s) \in Admissible /\ Resolved(file.index, s) \in Versions
                    /\ Had(Resolved(file.index, s))'
    BY <1>2, <1>3, <1>5, <1>6 DEF Had
  <2> QED
    BY <1>8, <2>1, <2>2, <2>3
<1>12. Earned(r)
  BY <1>1, <1>7 DEF Earned, Selecting, Passed, Keeping
<1>13. Installed'
  BY <1>2 DEF CacheInv, Installed
<1> QED
  BY <1>2, <1>7, <1>9, <1>10, <1>11, <1>12, <1>13, EarnedStays, CacheSteps

LEMMA Pruning ==
  ASSUME CacheInv, NEW p \in Procs, ListStale(p) \/ Prune(p) \/ Pruned(p)
  PROVE  CacheInv'
<1>1. /\ proc[p] \in Run /\ Earned(proc[p]) /\ Typing /\ proc[p].pc \in {"list stale", "prune"}
      /\ proc[p].slot \in Selectors
  BY Selections DEF CacheInv, Typing, ListStale, Prune, Pruned, At, Earned, Selecting, Keeping
<1>2. CASE ListStale(p)
  <2>1. Stale(snapshots[proc[p].slot]) \in SUBSET File
    BY <1>1 DEF Typing, Stale
  <2>2. PICK r \in Run : r = [proc[p] EXCEPT !.pc = "prune", !.files = Stale(snapshots[proc[p].slot])]
    BY <1>1, <2>1 DEF Run, Places
  <2>3. /\ proc' = [proc EXCEPT ![p] = r] /\ OnlyProc
        /\ r.pc = "prune" /\ r.version = proc[p].version /\ r.index = proc[p].index
        /\ r.offline = proc[p].offline /\ r.selector = proc[p].selector /\ r.slot = proc[p].slot
        /\ r.tree = proc[p].tree
    BY <1>1, <1>2, <2>2 DEF Run, ListStale
  <2>4. Earned(r)
    BY <1>1, <2>3 DEF Earned, Selecting, Passed, Keeping
  <2> QED
    BY <2>3, <2>4, RunSteps DEF OnlyProc
<1>3. CASE Prune(p)
  <2>1. PICK file, r :
          /\ r = [proc[p] EXCEPT !.files = @ \ {file}]
          /\ snapshots' = [snapshots EXCEPT ![proc[p].slot] = @ \ {file}]
          /\ proc' = [proc EXCEPT ![p] = r] /\ proc[p].pc = "prune"
          /\ UNCHANGED <<published, artifacts, stamp, kept, lost, ahead, installed, runs>>
    BY <1>3 DEF Prune, At
  <2>2. /\ r \in Run /\ r.pc = "prune" /\ r.version = proc[p].version /\ r.index = proc[p].index
        /\ r.offline = proc[p].offline /\ r.selector = proc[p].selector /\ r.slot = proc[p].slot
        /\ r.tree = proc[p].tree
    BY <1>1, <2>1 DEF Run
  <2>3. Preserving
    BY <2>1 DEF Preserving, Had
  <2>4. \A s \in Selectors : snapshots'[s] \subseteq snapshots[s]
    BY <1>1, <2>1 DEF Typing
  <2>5. Typing'
    BY <1>1, <2>1, <2>2 DEF Typing
  <2>6. KeptIsBacked' /\ Installed'
    BY <2>1, <2>3, <2>4, KeptStaysBacked DEF CacheInv, Installed
  <2>7. Earned(r)
    BY <1>1, <2>1, <2>2 DEF Earned, Selecting, Passed, Keeping
  <2> QED
    BY <2>1, <2>2, <2>3, <2>5, <2>6, <2>7, EarnedStays, CacheSteps
<1>4. CASE Pruned(p) /\ proc[p].slot = Latest
  <2>1. PICK r : r = [proc[p] EXCEPT !.pc = "name", !.slot = proc[p].version] /\ OnlyProc
                 /\ proc' = [proc EXCEPT ![p] = r]
    BY <1>4 DEF Pruned
  <2>2. proc[p].version \in Versions /\ proc[p].selector = Latest
    BY <1>1, <1>4, Selections DEF Earned, Selecting, Keeping
  <2>3. /\ r \in Run /\ r.pc = "name" /\ r.version = proc[p].version /\ r.index = proc[p].index
        /\ r.offline = proc[p].offline /\ r.selector = proc[p].selector /\ r.slot = proc[p].version
        /\ r.tree = proc[p].tree
    BY <1>1, <2>1, <2>2, Selections DEF Run, Places
  <2>4. Earned(r)
    BY <1>1, <2>2, <2>3 DEF Earned, Selecting, Passed, Keeping
  <2> QED
    BY <2>1, <2>3, <2>4, RunSteps DEF OnlyProc
<1>5. CASE Pruned(p) /\ proc[p].slot # Latest
  <2>1. proc' = [proc EXCEPT ![p].pc = "check"] /\ OnlyProc
    BY <1>5 DEF Pruned
  <2> QED
    BY <1>1, <2>1, PlaceSteps DEF Places, Selecting, Passed, Keeping
<1> QED
  BY <1>2, <1>3, <1>4, <1>5

-----------------------------------------------------------------------------
(* Installing                                                               *)

LEMMA Installing ==
  ASSUME CacheInv, NEW p \in Procs, CheckFreshness(p) \/ Commit(p) \/ IsAhead(p)
  PROVE  CacheInv'
<1>1. proc[p] \in Run /\ Earned(proc[p]) /\ Typing
  BY DEF CacheInv, Typing
<1>2. CASE CheckFreshness(p)
  BY <1>2, PlaceSteps DEF CheckFreshness, At, Places, Selecting, Passed, Keeping
<1>3. CASE IsAhead(p)
  BY <1>3, PlaceSteps DEF IsAhead, Places, Selecting, Passed, Keeping
<1>4. CASE Commit(p)
  <2>1. Idle \in Run /\ Idle.pc = "idle"
    BY CacheAssumption DEF Idle, Run, Places, Content
  <2> HIDE DEF Idle
  <2>2. PICK r \in Run : r = Idle /\ r.pc = "idle"
    BY <2>1
  <2>3. /\ proc' = [proc EXCEPT ![p] = r] /\ UNCHANGED <<published, cache>>
        /\ installed'.tree = proc[p].tree /\ installed'.version = proc[p].version
    BY <1>4, <2>2 DEF Commit
  <2>4. proc[p].tree = "good" /\ proc[p].version \in Admissible
    BY <1>1, <1>4 DEF Earned, Passed, Commit, At
  <2>5. Preserving
    BY <2>3, Untouched
  <2>6. Typing'
    BY <1>1, <2>3 DEF Typing, cache
  <2>7. KeptIsBacked'
    BY <2>3 DEF CacheInv, KeptIsBacked, Had, cache
  <2>8. Installed'
    BY <2>3, <2>4 DEF Installed
  <2>9. Earned(r)
    BY <2>2 DEF Earned, Selecting, Passed, Keeping
  <2> QED
    BY <2>3, <2>5, <2>6, <2>7, <2>8, <2>9, EarnedStays, CacheSteps
<1> QED
  BY <1>2, <1>3, <1>4

-----------------------------------------------------------------------------
(* The registry, time, and stuttering                                       *)

LEMMA Outside ==
  ASSUME CacheInv, UNCHANGED <<cache, installed, proc>>, published' \in Versions
  PROVE  CacheInv'
BY DEF CacheInv, Typing, KeptIsBacked, Installed, Earned, Had, cache

LEMMA NextKeepsInv ==
  ASSUME CacheInv, [Next]_vars
  PROVE  CacheInv'
<1>1. ASSUME NEW p \in Procs, Work(p) PROVE CacheInv'
  BY <1>1, Beginning, Indexing, Fetching, Unpacking, Naming, Adding, Pruning, Installing DEF Work
<1>2. CASE Publish
  <2>1. published' \in Versions
    BY <1>2, CacheAssumption DEF CacheInv, Typing, Publish, Versions
  <2> QED
    BY <1>2, <2>1, Outside DEF Publish
<1>3. ASSUME NEW v \in Versions, SetBack(v) PROVE CacheInv'
  BY <1>3, Outside DEF SetBack, CacheInv, Typing
<1>4. CASE UNCHANGED vars
  BY <1>4, Outside DEF vars, CacheInv, Typing
<1> QED
  BY <1>1, <1>2, <1>3, <1>4 DEF Next

\* Whatever the processes do to the cache at once and wherever they end, a run
\* knows of its version what the steps it has taken have established.
THEOREM CacheKnowledge == Spec => []CacheInv
<1>1. Init => CacheInv
  BY Initially
<1>2. CacheInv /\ [Next]_vars => CacheInv'
  BY NextKeepsInv
<1> QED
  BY <1>1, <1>2, PTL DEF Spec

\* Every snapshot in the cache selects an admissible version whose artifact is
\* there, or was until a process that had found it missing removed it.
THEOREM SnapshotsHavePassed == Spec => []SnapshotsAreBacked
<1>1. CacheInv => SnapshotsAreBacked
  BY DEF CacheInv, KeptIsBacked, SnapshotsAreBacked, Backed, Had
<1> QED
  BY <1>1, CacheKnowledge, PTL

\* Nothing is installed, or about to be, that the process did not unpack from
\* the verified artifact of the version that its index names.
THEOREM InstalledHasPassed == Spec => []InstalledIsVerified
<1>1. CacheInv => InstalledIsVerified
  <2> SUFFICES ASSUME CacheInv PROVE InstalledIsVerified
    OBVIOUS
  <2>1. ASSUME NEW p \in Procs, At(p, "commit")
        PROVE  /\ proc[p].tree = "good"
               /\ proc[p].version = Resolved(proc[p].index, proc[p].selector)
               /\ proc[p].version \in Admissible \cap 1..proc[p].index
               /\ proc[p].offline => \E f \in kept[proc[p].selector] : f.index = proc[p].index
    <3>1. Earned(proc[p]) /\ proc[p].pc = "commit" /\ proc[p] \in Run
      BY <2>1 DEF CacheInv, Typing, At
    <3>2. /\ proc[p].tree = "good" /\ proc[p].version \in Admissible /\ proc[p].version \in Versions
          /\ proc[p].version = Resolved(proc[p].index, proc[p].selector)
          /\ proc[p].version <= proc[p].index
          /\ proc[p].offline => \E f \in kept[proc[p].selector] : f.index = proc[p].index
      BY <3>1 DEF Earned, Selecting, Passed
    <3>3. proc[p].index \in Nat
      BY <3>1, CacheAssumption DEF Run
    <3>4. proc[p].version \in 1..proc[p].index
      BY <3>2, <3>3, CacheAssumption DEF Versions
    <3> QED
      BY <3>2, <3>4
  <2> QED
    BY <2>1 DEF CacheInv, Installed, InstalledIsVerified
<1> QED
  BY <1>1, CacheKnowledge, PTL
-----------------------------------------------------------------------------
(* What an offline run finds                                                *)

Newer(f, s) == {g \in kept[s] : g.name > f.name}
UpTo(f, s) == {g \in kept[s] : g.name <= f.name}

\* Keep more snapshots have come since the run began.
Outrun(r) == Cardinality(kept[r.selector]) >= r.before + Keep

\* The newest file on an offline run's list is as new as all that was kept
\* when it began; what is about to be pruned has Keep newer files.
Looking(r) ==
  /\ r.pc = "list" => r.before <= Cardinality(kept[r.selector])
  /\ r.pc = "read" /\ r.before > 0 =>
       \/ Outrun(r)
       \/ /\ r.files # {} /\ r.files \subseteq kept[r.selector]
          /\ r.before <= Cardinality(UpTo(Newest(r.files), r.selector))
  /\ r.pc = "refused" /\ r.offline /\ r.before > 0 => r.version \in ahead \cup lost \/ Outrun(r)
  /\ r.pc = "prune" => /\ r.files \subseteq kept[r.slot]
                       /\ \A f \in r.files : Cardinality(Newer(f, r.slot)) >= Keep

\* A kept index lists what its selector selects.
Selectable == \A s \in Selectors : \A f \in kept[s] : Resolved(f.index, s) <= f.index

OfflineInv == CacheInv /\ Selectable /\ LatestAreRetained /\ \A p \in Procs : Looking(proc[p])

LEMMA HasNewest ==
  ASSUME NEW S \in SUBSET File, IsFiniteSet(S), S # {}
  PROVE  \E f \in S : \A g \in S : g.name <= f.name
<1> DEFINE Above(f) == {g \in S : g.name > f.name}
           T == {Above(f) : f \in S}
<1>1. T \subseteq FiniteSubsetsOf(S) /\ T # {}
  <2>1. FiniteSubsetsOf(S) = SUBSET S
    BY FS_FiniteSubsetsOfFinite
  <2>2. T \subseteq SUBSET S /\ T # {}
    OBVIOUS
  <2> QED
    BY <2>1, <2>2
<1>2. PICK x \in T : \A y \in T : <<y, x>> \notin StrictSubsetOrdering(S)
  BY <1>1, FS_StrictSubsetOrderingWellFounded, WFMin
<1>3. PICK f \in S : x = Above(f)
  BY <1>2
<1>4. \A g \in S : g.name \in Nat
  BY DEF File
<1>5. SUFFICES ASSUME NEW g \in S, g.name > f.name PROVE FALSE
  BY <1>4
<1>6. Above(g) \subseteq x /\ g \in x /\ g \notin Above(g) /\ x \subseteq S
  BY <1>3, <1>4, <1>5
<1>7. <<Above(g), x>> \in StrictSubsetOrdering(S)
  BY <1>6 DEF StrictSubsetOrdering
<1> QED
  BY <1>2, <1>7

LEMMA NewestIs ==
  ASSUME NEW S \in SUBSET File, IsFiniteSet(S), S # {}
  PROVE  Newest(S) \in S /\ \A g \in S : g.name <= Newest(S).name
BY HasNewest DEF Newest

\* What no step takes back.
Growing ==
  /\ ahead \subseteq ahead' /\ lost \subseteq lost'
  /\ \A s \in Selectors : kept[s] \subseteq kept'[s]

LEMMA MoreKept ==
  ASSUME Typing, Typing', Growing, NEW s \in Selectors, NEW f
  PROVE  /\ Cardinality(Newer(f, s)) <= Cardinality(Newer(f, s)')
         /\ Cardinality(UpTo(f, s)) <= Cardinality(UpTo(f, s)')
         /\ Cardinality(kept[s]) <= Cardinality(kept'[s])
         /\ {Cardinality(Newer(f, s)), Cardinality(Newer(f, s)'), Cardinality(UpTo(f, s)),
             Cardinality(UpTo(f, s)'), Cardinality(kept[s]), Cardinality(kept'[s])} \subseteq Nat
<1>1. IsFiniteSet(kept'[s]) /\ kept[s] \subseteq kept'[s]
  BY DEF Typing, Growing
<1>2. /\ Newer(f, s) \subseteq Newer(f, s)' /\ Newer(f, s)' \subseteq kept'[s]
      /\ UpTo(f, s) \subseteq UpTo(f, s)' /\ UpTo(f, s)' \subseteq kept'[s]
  BY <1>1 DEF Newer, UpTo
<1>3. IsFiniteSet(Newer(f, s)') /\ IsFiniteSet(UpTo(f, s)')
  BY <1>1, <1>2, FS_Subset
<1>4. IsFiniteSet(Newer(f, s)) /\ IsFiniteSet(UpTo(f, s)) /\ IsFiniteSet(kept[s])
  BY <1>1, <1>2, <1>3, FS_Subset
<1> QED
  BY <1>1, <1>2, <1>3, <1>4, FS_Subset, FS_CardinalityType

\* All of a selector's snapshots, by the side of a name they are on.
LEMMA KeptByName ==
  ASSUME Typing, NEW s \in Selectors, NEW f \in File
  PROVE  Cardinality(kept[s]) = Cardinality(UpTo(f, s)) + Cardinality(Newer(f, s))
<1>1. IsFiniteSet(kept[s]) /\ \A g \in kept[s] : g.name \in Nat
  BY DEF Typing, File
<1>2. /\ kept[s] = UpTo(f, s) \cup Newer(f, s) /\ UpTo(f, s) \cap Newer(f, s) = {}
  BY <1>1 DEF UpTo, Newer, File
<1>3. IsFiniteSet(UpTo(f, s)) /\ IsFiniteSet(Newer(f, s))
  BY <1>1, <1>2, FS_Subset
<1>4. Cardinality(UpTo(f, s)) \in Nat /\ Cardinality(Newer(f, s)) \in Nat
  BY <1>3, FS_CardinalityType
<1>5. Cardinality(kept[s]) = Cardinality(UpTo(f, s)) + Cardinality(Newer(f, s)) - Cardinality({})
  BY <1>2, <1>3, FS_Union
<1> QED
  BY <1>4, <1>5, FS_EmptySet

LEMMA LookingStays ==
  ASSUME Typing, Typing', Growing, NEW r \in Run, Earned(r), Looking(r)
  PROVE  Looking(r)'
<1>1. r.before \in Nat /\ Keep \in Nat
  BY CacheAssumption DEF Run
<1>2. r.pc # "idle" => r.selector \in Selectors
  BY DEF Earned
<1>3. r.pc = "prune" => r.slot \in Selectors
  BY Selections DEF Earned, Selecting, Keeping
<1>4. r.pc # "idle" /\ Outrun(r) => Outrun(r)'
  BY <1>1, <1>2, MoreKept DEF Outrun
<1>5. r.pc = "list" => r.before <= Cardinality(kept'[r.selector])
  BY <1>1, <1>2, MoreKept DEF Looking
<1>6. r.pc = "prune" => /\ r.files \subseteq kept'[r.slot]
                        /\ \A f \in r.files : Cardinality(Newer(f, r.slot)') >= Keep
  BY <1>1, <1>3, MoreKept DEF Looking, Growing
<1>7. r.pc = "read" /\ r.before > 0 =>
        \/ Outrun(r)'
        \/ /\ r.files # {} /\ r.files \subseteq kept'[r.selector]
           /\ r.before <= Cardinality(UpTo(Newest(r.files), r.selector)')
  <2> SUFFICES ASSUME r.pc = "read", r.before > 0, ~Outrun(r)'
               PROVE  /\ r.files # {} /\ r.files \subseteq kept'[r.selector]
                      /\ r.before <= Cardinality(UpTo(Newest(r.files), r.selector)')
    OBVIOUS
  <2>1. PICK newest : newest = Newest(r.files)
    OBVIOUS
  <2>2. /\ r.files # {} /\ r.files \subseteq kept[r.selector] /\ r.selector \in Selectors
        /\ r.before <= Cardinality(UpTo(newest, r.selector))
    BY <1>2, <1>4, <2>1 DEF Looking
  <2>3. r.before <= Cardinality(UpTo(newest, r.selector)')
    BY <1>1, <2>2, MoreKept
  <2> QED
    BY <2>1, <2>2, <2>3 DEF Growing, Newest
<1>8. r.pc = "refused" /\ r.offline /\ r.before > 0 => r.version \in ahead' \cup lost' \/ Outrun(r)'
  BY <1>4 DEF Looking, Growing
<1> QED
  BY <1>5, <1>6, <1>7, <1>8 DEF Looking, Newest

\* A step of one run that adds to the cache at most.
LEMMA OfflineSteps ==
  ASSUME OfflineInv, CacheInv', NEW p \in Procs, proc' = [proc EXCEPT ![p] = proc'[p]],
         Growing, Selectable', LatestAreRetained', Looking(proc[p])'
  PROVE  OfflineInv'
<1>1. ASSUME NEW q \in Procs PROVE Looking(proc[q])'
  <2>1. CASE q = p
    BY <2>1
  <2>2. CASE q # p
    <3>1. PICK x \in Run : x = proc[q] /\ x = proc'[q] /\ Earned(x) /\ Looking(x)
      BY <2>2 DEF OfflineInv, CacheInv, Typing
    <3>2. Looking(x)'
      BY <3>1, LookingStays DEF OfflineInv, CacheInv
    <3> QED
      BY <3>1, <3>2 DEF Looking, Outrun
  <2> QED
    BY <2>1, <2>2
<1> QED
  BY <1>1 DEF OfflineInv

LEMMA SnapshotsStay ==
  ASSUME OfflineInv, UNCHANGED <<snapshots, kept>>
  PROVE  Selectable' /\ LatestAreRetained'
BY DEF OfflineInv, Selectable, LatestAreRetained

\* A step that leaves the snapshots alone and goes where nothing is asked.
LEMMA NothingAsked ==
  ASSUME OfflineInv, CacheInv', NEW p \in Procs, NEW r, proc' = [proc EXCEPT ![p] = r],
         r.pc \notin {"list", "read", "refused", "prune"},
         UNCHANGED <<snapshots, kept>>, lost \subseteq lost', ahead \subseteq ahead'
  PROVE  OfflineInv'
<1>1. proc'[p] = r /\ proc' = [proc EXCEPT ![p] = proc'[p]]
  BY DEF OfflineInv, CacheInv, Typing
<1>2. Looking(proc[p])'
  BY <1>1 DEF Looking
<1>3. Growing
  BY DEF Growing
<1> QED
  BY <1>1, <1>2, <1>3, SnapshotsStay, OfflineSteps

LEMMA OfflineBeginning ==
  ASSUME OfflineInv, CacheInv', NEW p \in Procs, NEW s \in Selectors, NEW offline \in BOOLEAN,
         Start(p, s, offline)
  PROVE  OfflineInv'
<1>1. /\ proc'[p].pc = IF offline THEN "list" ELSE "fetch"
      /\ proc'[p].before = IF offline THEN Cardinality(kept[s]) ELSE 0
      /\ proc'[p].selector = s /\ proc' = [proc EXCEPT ![p] = proc'[p]]
  BY DEF Start, Idle, OfflineInv, CacheInv, Typing
<1>2. Growing /\ UNCHANGED <<snapshots, kept>>
  BY DEF Start, cache, Growing
<1>3. Cardinality(kept[s]) \in Nat
  BY FS_CardinalityType DEF OfflineInv, CacheInv, Typing
<1>4. Looking(proc[p])'
  BY <1>1, <1>2, <1>3 DEF Looking
<1> QED
  BY <1>1, <1>2, <1>4, SnapshotsStay, OfflineSteps

\* Nothing newer than the list was kept when it was made; a file on it that is
\* gone has Keep newer ones.
LEMMA Listing ==
  ASSUME OfflineInv, CacheInv', NEW p \in Procs, ListSnapshots(p)
  PROVE  OfflineInv'
<1>1. PICK r \in Run : r = proc[p] /\ Earned(r) /\ Looking(r) /\ r.pc = "list"
  BY DEF OfflineInv, CacheInv, Typing, ListSnapshots, At
<1>2. PICK s \in Selectors : s = r.selector
  BY <1>1 DEF Earned
<1>3. PICK n : n = [r EXCEPT !.pc = "read", !.files = snapshots[s]]
  OBVIOUS
<1>4. proc' = [proc EXCEPT ![p] = n] /\ UNCHANGED <<snapshots, kept, ahead, lost>>
  BY <1>1, <1>2, <1>3 DEF ListSnapshots, OnlyProc, cache, OfflineInv, CacheInv, Typing
<1>5. /\ n.pc = "read" /\ n.files = snapshots[s] /\ n.selector = s /\ n.before = r.before
      /\ n.before \in Nat /\ n.before <= Cardinality(kept[s]) /\ proc'[p] = n
      /\ proc' = [proc EXCEPT ![p] = proc'[p]]
  BY <1>1, <1>2, <1>3, <1>4 DEF Run, Looking, OfflineInv, CacheInv, Typing
<1>6. ASSUME n.before > 0
      PROVE  /\ n.files # {} /\ n.files \subseteq kept[s]
             /\ n.before <= Cardinality(UpTo(Newest(n.files), s))
  <2>1. kept[s] \in SUBSET File /\ IsFiniteSet(kept[s]) /\ snapshots[s] \subseteq kept[s]
    BY DEF OfflineInv, CacheInv, Typing, KeptIsBacked
  <2>2. kept[s] # {}
    <3>1. Cardinality(kept[s]) # 0
      BY <1>5, <1>6
    <3> QED
      BY <2>1, <3>1, FS_EmptySet
  <2>3. PICK f \in kept[s] : \A g \in kept[s] : g.name <= f.name
    BY <2>1, <2>2, HasNewest
  <2>4. f \in snapshots[s]
    <3> SUFFICES ASSUME f \notin snapshots[s] PROVE FALSE
      OBVIOUS
    <3>1. Cardinality({g \in kept[s] : g.name > f.name}) >= Keep
      BY DEF OfflineInv, LatestAreRetained
    <3>2. {g \in kept[s] : g.name > f.name} = {}
      BY <2>1, <2>3 DEF File
    <3>3. Cardinality({g \in kept[s] : g.name > f.name}) = 0
      BY <3>2, FS_EmptySet
    <3> QED
      BY <3>1, <3>3, CacheAssumption
  <2>5. IsFiniteSet(snapshots[s]) /\ snapshots[s] \in SUBSET File
    BY <2>1, FS_Subset
  <2>6. PICK newest \in snapshots[s] : newest = Newest(snapshots[s]) /\ f.name <= newest.name
    BY <2>4, <2>5, NewestIs
  <2>7. UpTo(newest, s) = kept[s]
    <3>1. f.name \in Nat /\ newest.name \in Nat /\ \A g \in kept[s] : g.name \in Nat
      BY <2>1 DEF File
    <3> QED
      BY <2>3, <2>6, <3>1 DEF UpTo
  <2> QED
    BY <1>5, <2>1, <2>4, <2>6, <2>7
<1>7. Looking(n)'
  <2>1. UpTo(Newest(n.files), s)' = UpTo(Newest(n.files), s)
    BY <1>4 DEF UpTo, Newest
  <2> QED
    BY <1>4, <1>5, <1>6, <2>1 DEF Looking
<1>8. Growing /\ UNCHANGED <<snapshots, kept>>
  BY <1>4 DEF Growing
<1>9. Looking(proc[p])'
  BY <1>5, <1>7 DEF Looking, Outrun
<1> QED
  BY <1>5, <1>8, <1>9, SnapshotsStay, OfflineSteps

\* A run that finds the newest of its list gone has been outrun.
LEMMA Finding ==
  ASSUME OfflineInv, NEW r \in Run, r.pc = "read", r.before > 0, Looking(r), r.selector \in Selectors,
         r.files = {} \/ Newest(r.files) \notin snapshots[r.selector]
  PROVE  Outrun(r)
<1> SUFFICES ASSUME ~Outrun(r) PROVE FALSE
  OBVIOUS
<1>0. PICK s \in Selectors : s = r.selector
  OBVIOUS
<1>1. PICK newest : newest = Newest(r.files) /\ s = r.selector
  BY <1>0
<1>2. /\ r.files # {} /\ r.files \subseteq kept[s] /\ r.before <= Cardinality(UpTo(newest, s))
      /\ newest \notin snapshots[s] /\ r.before \in Nat
  BY <1>1 DEF Looking, Run
<1>3. Typing /\ kept[s] \in SUBSET File /\ IsFiniteSet(kept[s])
  BY DEF OfflineInv, CacheInv, Typing
<1>4. IsFiniteSet(r.files) /\ r.files \in SUBSET File
  BY <1>2, <1>3, FS_Subset
<1>5. newest \in kept[s] /\ newest \in File
  BY <1>1, <1>2, <1>3, <1>4, NewestIs
<1>6. Cardinality(Newer(newest, s)) >= Keep
  BY <1>2, <1>5 DEF OfflineInv, LatestAreRetained, Newer
<1>7. Cardinality(kept[s]) = Cardinality(UpTo(newest, s)) + Cardinality(Newer(newest, s))
  BY <1>3, <1>5, KeptByName
<1>8. Cardinality(UpTo(newest, s)) \in Nat /\ Cardinality(Newer(newest, s)) \in Nat
  <2>1. UpTo(newest, s) \subseteq kept[s] /\ Newer(newest, s) \subseteq kept[s]
    BY DEF UpTo, Newer
  <2>2. IsFiniteSet(UpTo(newest, s)) /\ IsFiniteSet(Newer(newest, s))
    BY <1>3, <2>1, FS_Subset
  <2> QED
    BY <2>2, FS_CardinalityType
<1> QED
  BY <1>1, <1>2, <1>6, <1>7, <1>8, CacheAssumption DEF Outrun

\* A step that changes nothing of the cache.
LEMMA OnlyTheRun ==
  ASSUME OfflineInv, CacheInv', NEW p \in Procs, NEW r \in Run, proc' = [proc EXCEPT ![p] = r],
         UNCHANGED <<cache, ahead>>, Looking(r)
  PROVE  OfflineInv'
<1>1. proc'[p] = r /\ proc' = [proc EXCEPT ![p] = proc'[p]]
  BY DEF OfflineInv, CacheInv, Typing
<1>2. Growing /\ UNCHANGED <<snapshots, kept>>
  BY DEF cache, Growing
<1>3. Looking(r)'
  BY <1>2, LookingStays DEF OfflineInv, CacheInv, Looking, Outrun, UpTo, Newer, Newest, cache
<1>4. Looking(proc[p])'
  BY <1>1, <1>3 DEF Looking, Outrun
<1> QED
  BY <1>1, <1>2, <1>4, SnapshotsStay, OfflineSteps

\* An offline run is not refused because of the index: it lists what it was
\* kept for.
LEMMA Using ==
  ASSUME OfflineInv, CacheInv', NEW p \in Procs, NEW index \in Versions, Use(p, index), OnlyProc,
         proc[p].pc # "idle",
         proc[p].offline => \E f \in kept[proc[p].selector] : f.index = index
  PROVE  OfflineInv'
<1>1. proc[p] \in Run /\ proc[p].selector \in Selectors
  BY DEF OfflineInv, CacheInv, Typing, Earned
<1>2. PICK v : v = Resolved(index, proc[p].selector)
  OBVIOUS
<1>3. proc[p].offline => v \in Versions /\ v <= index
  <2> SUFFICES ASSUME proc[p].offline PROVE v \in Versions /\ v <= index
    OBVIOUS
  <2>1. PICK f \in kept[proc[p].selector] : f.index = index
    OBVIOUS
  <2>2. Resolved(f.index, proc[p].selector) \in Versions
    BY <1>1 DEF OfflineInv, CacheInv, KeptIsBacked
  <2>3. Resolved(f.index, proc[p].selector) <= f.index
    BY <1>1 DEF OfflineInv, Selectable
  <2> QED
    BY <1>2, <2>1, <2>2, <2>3
<1>4. proc[p].offline => v \in 1..index
  BY <1>3, CacheAssumption DEF Versions
<1>5. PICK place : place = IF v \in 1..index THEN "verify" ELSE "refused"
  OBVIOUS
<1>6. PICK r : r = [proc[p] EXCEPT !.index = index, !.version = v, !.files = {}, !.pc = place]
  OBVIOUS
<1>7. proc' = [proc EXCEPT ![p] = r] /\ UNCHANGED <<cache, ahead>>
  BY <1>2, <1>5, <1>6 DEF Use, OnlyProc
<1>8. r \in Run
  BY <1>7 DEF OfflineInv, CacheInv, Typing
<1>9. r.pc = place /\ r.offline = proc[p].offline
  BY <1>1, <1>6 DEF Run
<1>10. Looking(r)
  BY <1>4, <1>5, <1>9 DEF Looking
<1> QED
  BY <1>7, <1>8, <1>10, OnlyTheRun

LEMMA Reading ==
  ASSUME OfflineInv, CacheInv', NEW p \in Procs, Fetch(p) \/ ReadSnapshot(p) \/ NoSnapshot(p)
  PROVE  OfflineInv'
<1>1. PICK r \in Run : r = proc[p] /\ Earned(r) /\ Looking(r)
  BY DEF OfflineInv, CacheInv, Typing
<1>2. CASE Fetch(p)
  <2>1. proc[p].pc = "fetch" /\ Use(p, published) /\ OnlyProc /\ published \in Versions
    BY <1>2 DEF Fetch, At, OfflineInv, CacheInv, Typing
  <2>2. ~proc[p].offline
    BY <1>1, <2>1 DEF Earned
  <2> QED
    BY <2>1, <2>2, Using
<1>3. CASE ReadSnapshot(p)
  <2>1. PICK newest : /\ newest = Newest(r.files) /\ OnlyProc /\ r.pc = "read"
                      /\ IF newest \in snapshots[r.selector] THEN Use(p, newest.index)
                         ELSE proc' = [proc EXCEPT ![p].files = @ \ {newest}]
    BY <1>1, <1>3 DEF ReadSnapshot, At
  <2>2. r.selector \in Selectors
    BY <1>1, <2>1 DEF Earned
  <2>3. CASE newest \in snapshots[r.selector]
    <3>1. newest \in kept[r.selector] /\ newest.index \in Versions
      BY <2>2, <2>3 DEF OfflineInv, CacheInv, Typing, KeptIsBacked, File
    <3> QED
      BY <1>1, <2>1, <2>3, <3>1, Using
  <2>4. CASE newest \notin snapshots[r.selector]
    <3>1. PICK n : n = [r EXCEPT !.files = @ \ {newest}]
      OBVIOUS
    <3>2. proc' = [proc EXCEPT ![p] = n] /\ UNCHANGED <<cache, ahead>>
      BY <1>1, <2>1, <2>4, <3>1 DEF OnlyProc
    <3>3. /\ n \in Run /\ n.pc = "read" /\ n.before = r.before /\ n.selector = r.selector
      BY <1>1, <2>1, <3>1 DEF Run
    <3>4. n.before > 0 => Outrun(n)
      BY <1>1, <2>1, <2>2, <2>4, <3>3, Finding DEF Outrun
    <3>5. Looking(n)
      BY <3>3, <3>4 DEF Looking
    <3> QED
      BY <3>2, <3>3, <3>5, OnlyTheRun
  <2> QED
    BY <2>3, <2>4
<1>4. CASE NoSnapshot(p)
  <2>1. PICK n : n = [r EXCEPT !.pc = "refused"]
    OBVIOUS
  <2>2. /\ proc' = [proc EXCEPT ![p] = n] /\ UNCHANGED <<cache, ahead>>
        /\ r.pc = "read" /\ r.files = {}
    BY <1>1, <1>4, <2>1 DEF NoSnapshot, OnlyProc, At
  <2>3. n \in Run /\ n.pc = "refused" /\ n.before = r.before /\ n.selector = r.selector
    <3>1. "refused" \in Places
      BY DEF Places
    <3> QED
      BY <1>1, <2>1, <3>1 DEF Run
  <2>4. r.selector \in Selectors
    BY <1>1, <2>2 DEF Earned
  <2>5. n.before > 0 => Outrun(n)
    BY <1>1, <2>2, <2>3, <2>4, Finding DEF Outrun
  <2>6. Looking(n)
    BY <2>3, <2>5 DEF Looking
  <2> QED
    BY <2>2, <2>3, <2>6, OnlyTheRun
<1> QED
  BY <1>2, <1>3, <1>4

\* What the selected version of an offline run is known by.
LEMMA SelectedHad ==
  ASSUME CacheInv, NEW r \in Run, Earned(r), r.pc \in Selecting, r.offline
  PROVE  r.version \in Admissible /\ (artifacts[r.version] = "good" \/ r.version \in lost)
<1>1. PICK f \in kept[r.selector] : f.index = r.index
  BY DEF Earned
<1>2. r.selector \in Selectors /\ r.version = Resolved(r.index, r.selector)
  <2>1. r.pc # "idle"
    BY DEF Selecting
  <2> QED
    BY <2>1 DEF Earned
<1> QED
  BY <1>1, <1>2 DEF CacheInv, KeptIsBacked, Had

\* An artifact that is missing was lost; one that is not admitted is dated ahead.
LEMMA Refusing ==
  ASSUME OfflineInv, CacheInv', NEW p \in Procs, VerifyCached(p) \/ Unpack(p) \/ IsAhead(p)
  PROVE  OfflineInv'
<1>1. PICK r \in Run : r = proc[p] /\ Earned(r) /\ Looking(r)
  BY DEF OfflineInv, CacheInv, Typing
<1>2. /\ proc'[p] \in Run /\ proc' = [proc EXCEPT ![p] = proc'[p]] /\ UNCHANGED <<cache, ahead>>
      /\ proc'[p].version = r.version /\ proc'[p].offline = r.offline
      /\ proc'[p].pc \in {"unpack", "refused", "download", "check", "name"}
      /\ r.pc \in {"verify", "unpack", "check", "commit"}
  <2>1. proc'[p] \in Run /\ UNCHANGED <<cache, ahead>> /\ r.pc \in {"verify", "unpack", "check", "commit"}
    BY <1>1 DEF OfflineInv, CacheInv, Typing, VerifyCached, Unpack, IsAhead, OnlyProc, At
  <2>2. CASE VerifyCached(p)
    BY <1>1, <2>1, <2>2 DEF VerifyCached, Run, OfflineInv, CacheInv, Typing
  <2>3. CASE Unpack(p)
    BY <1>1, <2>1, <2>3 DEF Unpack, Run, OfflineInv, CacheInv, Typing
  <2>4. CASE IsAhead(p)
    BY <1>1, <2>1, <2>4 DEF IsAhead, Run, OfflineInv, CacheInv, Typing
  <2> QED
    BY <2>1, <2>2, <2>3, <2>4
<1>3. PICK n \in Run : n = proc'[p]
  BY <1>2
<1>4. ASSUME n.pc = "refused", n.offline PROVE n.version \in ahead \cup lost
  <2>1. r.version \in Admissible /\ (artifacts[r.version] = "good" \/ r.version \in lost)
    BY <1>1, <1>2, <1>3, <1>4, SelectedHad DEF Selecting, OfflineInv
  <2>2. CASE VerifyCached(p)
    <3>1. n.pc = IF HasDigest(r.version) THEN "unpack" ELSE IF r.offline THEN "refused" ELSE "download"
      BY <1>1, <1>3, <2>2 DEF VerifyCached, Run, OfflineInv, CacheInv, Typing
    <3> QED
      BY <1>2, <1>3, <1>4, <2>1, <3>1 DEF HasDigest
  <2>3. CASE Unpack(p)
    <3>1. n.pc = IF artifacts[r.version] = "none" \/ ~Admitted(r.version) THEN "refused"
                 ELSE IF r.offline THEN "check" ELSE "name"
      <4>1. proc \in [Procs -> Run]
        BY DEF OfflineInv, CacheInv, Typing
      <4> QED
        BY <1>1, <1>3, <2>3, <4>1 DEF Unpack, Unpacked, Run
    <3>2. artifacts[r.version] = "none" \/ ~Admitted(r.version)
      BY <1>4, <3>1
    <3> QED
      BY <1>2, <1>3, <2>1, <3>2 DEF Admitted
  <2>4. CASE IsAhead(p)
    BY <1>1, <1>2, <1>3, <2>4 DEF IsAhead
  <2> QED
    BY <2>2, <2>3, <2>4
<1>5. Looking(n)
  BY <1>2, <1>3, <1>4 DEF Looking
<1> QED
  BY <1>2, <1>3, <1>5, OnlyTheRun

LEMMA Artifacts ==
  ASSUME OfflineInv, CacheInv', NEW p \in Procs, Download(p) \/ Place(p) \/ NameSnapshot(p)
  PROVE  OfflineInv'
<1>1. PICK r \in Run : r = proc'[p]
  BY DEF CacheInv, Typing
<1>2. /\ proc' = [proc EXCEPT ![p] = r] /\ r.pc \in {"place", "unpack", "keep"}
      /\ UNCHANGED <<snapshots, kept, ahead>> /\ lost \subseteq lost'
  BY <1>1 DEF Download, Place, NameSnapshot, OfflineInv, CacheInv, Typing, Run
<1> QED
  BY <1>2, NothingAsked

LEMMA Keepings ==
  ASSUME OfflineInv, CacheInv', NEW p \in Procs, KeepSnapshot(p)
  PROVE  OfflineInv'
<1>1. PICK r \in Run : r = proc[p] /\ Earned(r) /\ r.pc = "keep"
  BY DEF OfflineInv, CacheInv, Typing, KeepSnapshot, At
<1>2. PICK file, slot : /\ file = [name |-> r.name, index |-> r.index] /\ slot = r.slot
  OBVIOUS
<1>3. /\ snapshots' = [snapshots EXCEPT ![slot] = @ \cup {file}]
      /\ kept' = [kept EXCEPT ![slot] = @ \cup {file}]
      /\ proc' = [proc EXCEPT ![p].pc = "list stale"] /\ UNCHANGED <<lost, ahead>>
  BY <1>1, <1>2 DEF KeepSnapshot
<1>4. /\ r.version = Resolved(r.index, r.selector) /\ r.version <= r.index /\ r.selector \in Selectors
      /\ slot = r.selector \/ (r.selector = Latest /\ slot = r.version)
      /\ r.version \in Versions
  BY <1>1, <1>2 DEF Earned, Selecting, Keeping
<1>5. Resolved(r.index, slot) = r.version
  BY <1>4, Selections DEF Resolved
<1>6. \A s \in Selectors :
        /\ kept'[s] = IF s = slot THEN kept[s] \cup {file} ELSE kept[s]
        /\ snapshots'[s] = IF s = slot THEN snapshots[s] \cup {file} ELSE snapshots[s]
  BY <1>3 DEF OfflineInv, CacheInv, Typing
<1>7. Growing
  <2>1. ASSUME NEW s \in Selectors PROVE kept[s] \subseteq kept'[s]
    <3>1. kept'[s] \in {kept[s] \cup {file}, kept[s]}
      BY <1>6
    <3> QED
      BY <3>1
  <2> QED
    BY <1>3, <2>1 DEF Growing
<1>8. Selectable'
  <2> SUFFICES ASSUME NEW s \in Selectors, NEW f \in kept'[s] PROVE Resolved(f.index, s) <= f.index
    BY DEF Selectable, Resolved
  <2>1. f \in kept[s] \/ (s = slot /\ f = file)
    BY <1>6
  <2>2. CASE f \in kept[s]
    BY <2>2 DEF OfflineInv, Selectable
  <2>3. CASE s = slot /\ f = file
    BY <1>2, <1>4, <1>5, <2>3
  <2> QED
    BY <2>1, <2>2, <2>3
<1>9. LatestAreRetained'
  <2> SUFFICES ASSUME NEW s \in Selectors, NEW f \in kept'[s] \ snapshots'[s]
               PROVE  Cardinality(Newer(f, s)') >= Keep
    BY DEF LatestAreRetained, Newer
  <2>1. f \in kept[s] \ snapshots[s]
    BY <1>6
  <2>2. Cardinality(Newer(f, s)) >= Keep
    BY <2>1 DEF OfflineInv, LatestAreRetained, Newer
  <2> QED
    BY <1>7, <2>2, MoreKept, CacheAssumption DEF OfflineInv, CacheInv
<1>10. proc'[p].pc = "list stale" /\ proc' = [proc EXCEPT ![p] = proc'[p]]
  BY <1>1, <1>3 DEF OfflineInv, CacheInv, Typing, Run
<1>11. Looking(proc[p])'
  BY <1>10 DEF Looking
<1> QED
  BY <1>7, <1>8, <1>9, <1>10, <1>11, OfflineSteps

\* What is stale has Keep newer files, and keeps them.
LEMMA Stales ==
  ASSUME OfflineInv, CacheInv', NEW p \in Procs, ListStale(p) \/ Prune(p) \/ Pruned(p)
  PROVE  OfflineInv'
<1>1. PICK r \in Run : r = proc[p] /\ Earned(r) /\ Looking(r)
  BY DEF OfflineInv, CacheInv, Typing
<1>2. r.pc \in {"list stale", "prune"}
  BY <1>1 DEF ListStale, Prune, Pruned, At
<1>3. PICK s \in Selectors : s = r.slot
  BY <1>1, <1>2, Selections DEF Earned, Selecting, Keeping
<1>4. CASE ListStale(p)
  <2>1. PICK n : n = [r EXCEPT !.pc = "prune", !.files = Stale(snapshots[s])]
    OBVIOUS
  <2>2. proc' = [proc EXCEPT ![p] = n] /\ UNCHANGED <<cache, ahead>>
    BY <1>1, <1>3, <1>4, <2>1 DEF ListStale, OnlyProc
  <2>3. n \in Run
    BY <2>2 DEF OfflineInv, CacheInv, Typing
  <2>4. n.pc = "prune" /\ n.files = Stale(snapshots[s]) /\ n.slot = s
    BY <1>1, <1>3, <2>1 DEF Run
  <2>5. ASSUME NEW f \in n.files PROVE Cardinality(Newer(f, s)) >= Keep
    <3>1. PICK N : N = {g \in snapshots[s] : g.name > f.name}
      OBVIOUS
    <3>2. Cardinality(N) >= Keep /\ N \subseteq Newer(f, s)
      BY <2>4, <2>5, <3>1 DEF Stale, Newer, OfflineInv, CacheInv, KeptIsBacked
    <3>3. IsFiniteSet(kept[s]) /\ Newer(f, s) \subseteq kept[s]
      BY DEF OfflineInv, CacheInv, Typing, Newer
    <3>4. IsFiniteSet(Newer(f, s))
      BY <3>3, FS_Subset
    <3>5. IsFiniteSet(N) /\ Cardinality(N) <= Cardinality(Newer(f, s))
      BY <3>2, <3>4, FS_Subset
    <3> QED
      BY <3>2, <3>4, <3>5, FS_CardinalityType, CacheAssumption
  <2>6. n.files \subseteq kept[s]
    BY <2>4 DEF Stale, OfflineInv, CacheInv, KeptIsBacked
  <2>7. Looking(n)
    BY <2>4, <2>5, <2>6 DEF Looking
  <2> QED
    BY <2>2, <2>3, <2>7, OnlyTheRun
<1>5. CASE Prune(p)
  <2>1. PICK file : /\ file = Newest(r.files) /\ r.files # {} /\ r.pc = "prune"
                    /\ snapshots' = [snapshots EXCEPT ![s] = @ \ {file}]
                    /\ proc' = [proc EXCEPT ![p].files = @ \ {file}]
                    /\ UNCHANGED <<kept, lost, ahead>>
    BY <1>1, <1>3, <1>5 DEF Prune, At
  <2>2. /\ proc'[p] \in Run /\ proc'[p].files = r.files \ {file} /\ proc'[p].pc = "prune" /\ proc'[p].slot = s
        /\ proc' = [proc EXCEPT ![p] = proc'[p]]
    BY <1>1, <1>3, <2>1 DEF Run, OfflineInv, CacheInv, Typing
  <2>3. Growing
    BY <2>1 DEF Growing
  <2>4. r.files \subseteq kept[s] /\ \A f \in r.files : Cardinality(Newer(f, s)) >= Keep
    BY <1>1, <1>3, <2>1 DEF Looking
  <2>5. Looking(proc[p])'
    BY <2>1, <2>2, <2>4 DEF Looking, Newer
  <2>6. Selectable'
    BY <2>1 DEF OfflineInv, Selectable, Resolved
  <2>7. LatestAreRetained'
    <3> SUFFICES ASSUME NEW t \in Selectors, NEW f \in kept'[t] \ snapshots'[t]
                 PROVE  Cardinality(Newer(f, t)) >= Keep
      BY <2>1 DEF LatestAreRetained, Newer
    <3>1. snapshots'[t] = IF t = s THEN snapshots[t] \ {file} ELSE snapshots[t]
      BY <2>1 DEF OfflineInv, CacheInv, Typing
    <3>2. f \in kept[t] /\ (f \notin snapshots[t] \/ (t = s /\ f = file))
      BY <2>1, <3>1
    <3>3. CASE f \notin snapshots[t]
      BY <3>2, <3>3 DEF OfflineInv, LatestAreRetained, Newer
    <3>4. CASE t = s /\ f = file /\ f \in snapshots[t]
      <4>1. IsFiniteSet(kept[s]) /\ kept[s] \in SUBSET File
        BY DEF OfflineInv, CacheInv, Typing
      <4>2. IsFiniteSet(r.files) /\ r.files \in SUBSET File
        BY <2>4, <4>1, FS_Subset
      <4> QED
        BY <2>1, <2>4, <3>4, <4>2, NewestIs
    <3> QED
      BY <3>2, <3>3, <3>4
  <2> QED
    BY <2>2, <2>3, <2>5, <2>6, <2>7, OfflineSteps
<1>6. CASE Pruned(p)
  <2>1. PICK n \in Run : n = proc'[p]
    BY DEF CacheInv, Typing
  <2>2. /\ proc' = [proc EXCEPT ![p] = n] /\ n.pc \in {"name", "check"}
        /\ UNCHANGED <<snapshots, kept, lost, ahead>>
    BY <1>1, <1>6, <2>1 DEF Pruned, OnlyProc, cache, OfflineInv, CacheInv, Typing, Run
  <2> QED
    BY <2>2, NothingAsked
<1> QED
  BY <1>4, <1>5, <1>6

LEMMA OfflineNext ==
  ASSUME OfflineInv, CacheInv', [Next]_vars
  PROVE  OfflineInv'
<1>1. ASSUME NEW p \in Procs, Stop(p) \/ CheckFreshness(p) \/ Commit(p) PROVE OfflineInv'
  <2>1. PICK r \in Run : r = proc'[p]
    BY DEF CacheInv, Typing
  <2>2. /\ proc' = [proc EXCEPT ![p] = r] /\ r.pc \in {"idle", "commit"}
        /\ UNCHANGED <<snapshots, kept, lost, ahead>>
    BY <1>1, <2>1 DEF Stop, CheckFreshness, Commit, OnlyProc, cache, OfflineInv, CacheInv, Typing, Run, Idle
  <2> QED
    BY <2>2, NothingAsked
<1>2. ASSUME NEW p \in Procs, Work(p) PROVE OfflineInv'
  BY <1>1, <1>2, OfflineBeginning, Listing, Reading, Refusing, Artifacts, Keepings, Stales DEF Work
<1>3. CASE UNCHANGED <<proc, cache>> /\ ahead \subseteq ahead'
  <2>1. Growing /\ UNCHANGED <<snapshots, kept>>
    BY <1>3 DEF Growing, cache
  <2>2. ASSUME NEW p \in Procs PROVE Looking(proc[p])'
    <3>1. PICK x \in Run : x = proc[p] /\ x = proc'[p] /\ Earned(x) /\ Looking(x)
      BY <1>3 DEF OfflineInv, CacheInv, Typing
    <3>2. Looking(x)'
      BY <2>1, <3>1, LookingStays DEF OfflineInv, CacheInv
    <3> QED
      BY <3>1, <3>2 DEF Looking, Outrun
  <2> QED
    BY <2>1, <2>2, SnapshotsStay DEF OfflineInv
<1> QED
  BY <1>2, <1>3 DEF Next, Publish, SetBack, vars

\* Whatever the processes keep and prune at once, and wherever they end: the
\* latest Keep snapshots of every selector stay, and an offline run is refused
\* only for what happened to its version or to its whole list.
THEOREM CacheServes == Spec => []OfflineInv
<1>1. Init /\ CacheInv => OfflineInv
  <2> SUFFICES ASSUME Init, CacheInv PROVE OfflineInv
    OBVIOUS
  <2>1. \A s \in Selectors : kept[s] = {}
    BY DEF Init
  <2>2. \A p \in Procs : proc[p].pc = "idle"
    BY DEF Init, Idle
  <2> QED
    BY <2>1, <2>2 DEF OfflineInv, Selectable, LatestAreRetained, Looking
<1>2. OfflineInv /\ CacheInv' /\ [Next]_vars => OfflineInv'
  BY OfflineNext
<1> QED
  BY <1>1, <1>2, CacheKnowledge, PTL DEF Spec

\* The latest Keep snapshots of a selector stay, however many processes add and
\* prune at once.
THEOREM LatestSnapshotsStay == Spec => []LatestAreRetained
<1>1. OfflineInv => LatestAreRetained
  BY DEF OfflineInv
<1> QED
  BY <1>1, CacheServes, PTL

\* An offline run that began when a snapshot was there is served, unless its
\* evidence is dated ahead, another process removed the artifact, or Keep newer
\* snapshots came while it was looking.
THEOREM OfflineWorks == Spec => []OfflineIsServed
<1>1. OfflineInv => OfflineIsServed
  BY DEF OfflineInv, OfflineIsServed, Looking, Outrun, At
<1> QED
  BY <1>1, CacheServes, PTL

-----------------------------------------------------------------------------
(* The checkout: types                                                      *)

Receipt == [source : {"none", "torn", "local", "remote", "bundled"}, tree : Trees, members : SUBSET Trees]
Package == [there : BOOLEAN, tree : Trees, receipt : Receipt]
LocalPlaces == {"idle", "look", "remove", "copy", "look for member", "digest", "write", "verify", "done"}
Worker == [pc : LocalPlaces, entry : Packages, force : BOOLEAN, on : Packages, file : 0..MaxFile,
           digest : Trees, members : SUBSET Trees, skipped : BOOLEAN, alone : BOOLEAN]

LocalTyping ==
  /\ checkout \in [Packages -> Trees] /\ \A k \in Packages : Whole(checkout[k])
  /\ placed \in [Packages -> Package]
  /\ worker \in [Workers -> Worker]

-----------------------------------------------------------------------------
(* The checkout: the invariant                                              *)

\* A process returns to the plugin from the member, and verifies the member.
Placed(w) ==
  /\ w.entry = "skill" => w.on = "skill"
  /\ w.pc \in {"look for member", "verify"} => w.on = "skill" /\ w.entry = "plugin"
  /\ w.pc = "copy" => w.file # 0
  /\ w.pc = "done" => w.on = w.entry

\* Two processes that write one package are on the record.
OneWriter ==
  \A p, q \in Workers, k \in Packages :
    p # q /\ Writes(worker[p], k) /\ Writes(worker[q], k) => k \in contested

\* What the process has copied of a package that is its own is there.
Copied(w) ==
  \A k \in Packages \ contested :
    /\ w.on = k /\ w.pc = "copy" => \A f \in 1..MaxFile : f < w.file => placed[k].tree[f] # 0
    /\ w.on = k /\ w.pc = "digest" => Whole(placed[k].tree)
    /\ w.on = k /\ w.pc = "write" => Whole(w.digest)
    /\ w.on # k /\ w.entry = k => Whole(placed[k].tree)

Claims(receipt) == receipt.source \in {"local", "remote", "bundled"}

ReceiptsAreWhole ==
  \A k \in Packages \ contested : Claims(placed[k].receipt) => Whole(placed[k].receipt.tree)

MemberIsKnown(w) ==
  /\ w.members = {placed["skill"].receipt.tree} /\ Verifies(placed["skill"])
  /\ w.skipped <=> placed["skill"].receipt.source # "local"

\* What a process knows that nobody disturbs.
Knows(w) ==
  /\ w.pc = "write" => placed[w.on].tree = w.digest
  /\ w.pc = "verify" => placed["skill"].receipt.source = "local"
  /\ w.on = "plugin" /\ w.pc \in {"digest", "write", "done"} => MemberIsKnown(w)
  /\ w.pc = "done" => /\ Verifies(placed[w.on]) /\ placed[w.on].receipt.source = "local"
                      /\ w.on = "plugin" => placed["plugin"].receipt.members = w.members

Undisturbed ==
  \A p \in Workers : worker[p].alone /\ worker[p].pc # "idle" =>
    /\ \A q \in Workers \ {p} : worker[q].pc = "idle"
    /\ Knows(worker[p])

LocalInv ==
  /\ LocalTyping
  /\ \A p \in Workers : Placed(worker[p])
  /\ OneWriter
  /\ \A p \in Workers : Copied(worker[p])
  /\ ReceiptsAreWhole
  /\ Undisturbed

LEMMA TreeTypes ==
  /\ Empty \in Trees /\ NoReceipt \in Receipt /\ Nowhere \in Package /\ Resting \in Worker
  /\ [f \in 1..MaxFile |-> 1] \in Trees /\ Whole([f \in 1..MaxFile |-> 1])
  /\ MaxFile \in 1..MaxFile /\ {0, 1} \subseteq 0..MaxFile
<1>1. Empty \in Trees /\ [f \in 1..MaxFile |-> 1] \in Trees /\ Whole([f \in 1..MaxFile |-> 1])
  BY LocalAssumption DEF Empty, Trees, Whole
<1>2. NoReceipt \in Receipt
  BY <1>1 DEF NoReceipt, Receipt
<1>3. Nowhere \in Package
  BY <1>1, <1>2 DEF Nowhere, Package
<1>4. Resting \in Worker
  BY <1>1, LocalAssumption DEF Resting, Worker, LocalPlaces, Packages
<1> QED
  BY <1>1, <1>2, <1>3, <1>4, LocalAssumption

\* What joins the record of two writers.
Noting ==
  contested' = contested \cup {k \in Packages : \E p, q \in Workers :
                                 p # q /\ Writes(worker[p], k)' /\ Writes(worker[q], k)'}

LEMMA Noted == Noting => OneWriter' /\ contested \subseteq contested'
BY DEF Noting, OneWriter

\* What a process does to its package, no other one may count on.
LEMMA OwnStep ==
  ASSUME LocalInv, Noting, NEW p \in Workers, NEW n \in Worker, NEW package \in Package,
         NEW k \in Packages, k = worker[p].on, worker[p].pc # "idle",
         worker' = [worker EXCEPT ![p] = n], placed' = [placed EXCEPT ![k] = package],
         UNCHANGED checkout,
         package = placed[k] \/ worker[p].pc \in InPlace,
         n.pc = "idle" \/ n.alone = worker[p].alone,
         Placed(n), Copied(n)',
         k \notin contested' /\ Claims(package.receipt) => Whole(package.receipt.tree),
         n.alone /\ n.pc # "idle" => Knows(n)'
  PROVE  LocalInv'
<1>1. LocalTyping' /\ worker'[p] = n /\ placed'[k] = package
  BY DEF LocalInv, LocalTyping
<1>2. OneWriter' /\ contested \subseteq contested'
  BY Noted
<1>3. \A q \in Workers : q # p => worker'[q] = worker[q]
  BY DEF LocalInv, LocalTyping
<1>4. \A j \in Packages : j # k => placed'[j] = placed[j]
  BY DEF LocalInv, LocalTyping
<1>5. \A q \in Workers : Placed(worker[q])'
  <2> SUFFICES ASSUME NEW q \in Workers PROVE Placed(worker'[q])
    BY DEF Placed
  <2> QED
    BY <1>1, <1>3 DEF LocalInv
<1>6. ASSUME NEW q \in Workers PROVE Copied(worker[q])'
  <2>1. CASE q = p
    BY <1>1, <2>1 DEF Copied
  <2>2. CASE q # p
    <3>1. PICK x \in Worker : x = worker[q] /\ x = worker'[q] /\ Copied(x)
      BY <1>3, <2>2 DEF LocalInv, LocalTyping
    <3>2. ASSUME NEW j \in Packages \ contested', placed'[j] # placed[j]
          PROVE  ~Writes(x, j)
      <4>1. j = k /\ j \notin contested /\ worker[p].pc \in InPlace
        BY <1>1, <1>2, <1>4, <3>2
      <4>2. Writes(worker[p], j)
        BY <4>1 DEF Writes
      <4> QED
        BY <2>2, <3>1, <4>1, <4>2 DEF LocalInv, OneWriter
    <3>3. ASSUME NEW j \in Packages \ contested'
          PROVE  /\ x.on = j /\ x.pc = "copy" => \A f \in 1..MaxFile : f < x.file => placed'[j].tree[f] # 0
                 /\ x.on = j /\ x.pc = "digest" => Whole(placed'[j].tree)
                 /\ x.on = j /\ x.pc = "write" => Whole(x.digest)
                 /\ x.on # j /\ x.entry = j => Whole(placed'[j].tree)
      <4>1. j \in Packages \ contested
        BY <1>2
      <4>2. CASE placed'[j] = placed[j]
        BY <3>1, <4>1, <4>2 DEF Copied
      <4>3. CASE placed'[j] # placed[j]
        BY <3>1, <3>2, <4>1, <4>3 DEF Copied, Writes, InPlace
      <4> QED
        BY <4>2, <4>3
    <3>4. Copied(x)'
      BY <3>3 DEF Copied, Whole
    <3> QED
      BY <3>1, <3>4 DEF Copied
  <2> QED
    BY <2>1, <2>2
<1>7. ReceiptsAreWhole'
  BY <1>1, <1>2, <1>4 DEF LocalInv, ReceiptsAreWhole, Claims
<1>8. Undisturbed'
  <2> SUFFICES ASSUME NEW q \in Workers, worker'[q].alone, worker'[q].pc # "idle"
               PROVE  (\A o \in Workers \ {q} : worker'[o].pc = "idle") /\ Knows(worker[q])'
    BY DEF Undisturbed
  <2>1. q = p
    <3> SUFFICES ASSUME q # p PROVE FALSE
      OBVIOUS
    <3>1. worker[q].alone /\ worker[q].pc # "idle"
      BY <1>3
    <3> QED
      BY <3>1 DEF LocalInv, Undisturbed
  <2>2. n.alone /\ n.pc # "idle" /\ worker[p].alone
    BY <1>1, <2>1
  <2>3. \A o \in Workers \ {p} : worker'[o].pc = "idle"
    BY <1>3, <2>2 DEF LocalInv, Undisturbed
  <2>4. Knows(worker[p])'
    BY <1>1, <2>2 DEF Knows, MemberIsKnown
  <2> QED
    BY <2>1, <2>3, <2>4
<1> QED
  BY <1>1, <1>2, <1>5, <1>6, <1>7, <1>8 DEF LocalInv

\* A step that only reads.
LEMMA ReadStep ==
  ASSUME LocalInv, Noting, NEW p \in Workers, NEW n \in Worker, worker[p].pc # "idle",
         worker' = [worker EXCEPT ![p] = n], UNCHANGED <<checkout, placed>>,
         n.pc = "idle" \/ n.alone = worker[p].alone,
         Placed(n), Copied(n), n.alone /\ n.pc # "idle" => Knows(n)
  PROVE  LocalInv'
<1>1. PICK k \in Packages : k = worker[p].on
  BY DEF LocalInv, LocalTyping, Worker
<1>2. placed[k] \in Package /\ placed' = [placed EXCEPT ![k] = placed[k]]
  BY DEF LocalInv, LocalTyping
<1>3. contested \subseteq contested'
  BY Noted
<1>4. Copied(n)'
  BY <1>3 DEF Copied, Whole
<1>5. k \notin contested' /\ Claims(placed[k].receipt) => Whole(placed[k].receipt.tree)
  BY <1>3 DEF LocalInv, ReceiptsAreWhole
<1>6. n.alone /\ n.pc # "idle" => Knows(n)'
  BY DEF Knows, MemberIsKnown
<1> QED
  BY <1>1, <1>2, <1>4, <1>5, <1>6, OwnStep

LEMMA RestingKnows == Resting.pc = "idle" /\ Placed(Resting) /\ Copied(Resting)
BY DEF Resting, Placed, Copied

LEMMA Ending ==
  ASSUME LocalInv, Noting, NEW p \in Workers, worker[p].pc # "idle",
         Go(p, Resting), UNCHANGED <<checkout, placed>>
  PROVE  LocalInv'
BY RestingKnows, TreeTypes, ReadStep DEF Go

\* The process and its package, as they are.
LEMMA Working ==
  ASSUME LocalInv, NEW p \in Workers
  PROVE  /\ worker[p] \in Worker /\ worker[p].on \in Packages /\ placed[worker[p].on] \in Package
         /\ Placed(worker[p]) /\ Copied(worker[p]) /\ Packages = {"plugin", "skill"}
         /\ worker[p].alone /\ worker[p].pc # "idle" => Knows(worker[p])
BY DEF LocalInv, LocalTyping, Worker, Undisturbed, Packages

LEMMA LookingForDestination ==
  ASSUME LocalInv, Noting, NEW p \in Workers, LookForDestination(p)
  PROVE  LocalInv'
<1>1. PICK w \in Worker : /\ w = worker[p] /\ Placed(w) /\ Copied(w) /\ w.pc = "look"
                          /\ UNCHANGED <<checkout, placed>>
  BY Working DEF LookForDestination, In, disk
<1>2. CASE Go(p, Resting)
  BY <1>1, <1>2, Ending
<1>3. ASSUME NEW n, worker' = [worker EXCEPT ![p] = n],
             n \in {[w EXCEPT !.pc = "copy", !.file = 1], [w EXCEPT !.pc = "remove"]}
      PROVE  LocalInv'
  <2>1. n \in Worker
    BY <1>3, TreeTypes DEF Worker, LocalPlaces
  <2>2. /\ n.pc \in {"copy", "remove"} /\ n.on = w.on /\ n.entry = w.entry /\ n.alone = w.alone
        /\ n.pc = "copy" => n.file = 1
    BY <1>1, <1>3 DEF Worker
  <2>3. Placed(n)
    <3>1. n.file = 1 => n.file # 0
      OBVIOUS
    <3> QED
      BY <1>1, <2>2, <3>1 DEF Placed
  <2>4. Copied(n)
    BY <1>1, <2>2, LocalAssumption DEF Copied
  <2>5. Knows(n)
    BY <2>2 DEF Knows
  <2> QED
    BY <1>1, <1>3, <2>1, <2>2, <2>3, <2>4, <2>5, ReadStep
<1> QED
  BY <1>1, <1>2, <1>3 DEF LookForDestination, Go, Step, On

\* Back to the plugin, with what its receipt will say.
LEMMA Recording ==
  ASSUME LocalInv, Noting, NEW p \in Workers, NEW skipped \in BOOLEAN,
         worker[p].pc \in {"look for member", "verify"}, Recorded(p, skipped),
         Verifies(placed["skill"]), UNCHANGED <<checkout, placed>>,
         worker[p].alone => (skipped <=> placed["skill"].receipt.source # "local")
  PROVE  LocalInv'
<1>1. PICK w \in Worker : w = worker[p] /\ Placed(w) /\ Copied(w) /\ w.pc \in {"look for member", "verify"}
  BY Working
<1>2. w.on = "skill" /\ w.entry = "plugin"
  BY <1>1 DEF Placed
<1>3. PICK n : n = [w EXCEPT !.pc = "digest", !.on = "plugin", !.skipped = skipped,
                             !.members = {placed["skill"].receipt.tree}]
  OBVIOUS
<1>4. worker' = [worker EXCEPT ![p] = n]
  BY <1>1, <1>2, <1>3 DEF Recorded, Go, On
<1>5. placed["skill"].receipt.tree \in Trees
  BY DEF LocalInv, LocalTyping, Packages, Package, Receipt
<1>6. n \in Worker
  BY <1>3, <1>5 DEF Worker, LocalPlaces, Packages
<1>7. /\ n.pc = "digest" /\ n.on = "plugin" /\ n.entry = "plugin" /\ n.alone = w.alone
      /\ n.skipped = skipped /\ n.members = {placed["skill"].receipt.tree}
  BY <1>2, <1>3 DEF Worker
<1>8. Placed(n)
  BY <1>7 DEF Placed
<1>9. Copied(n)
  BY <1>1, <1>2, <1>7 DEF Copied
<1>10. n.alone => Knows(n)
  BY <1>1, <1>7 DEF Knows, MemberIsKnown
<1> QED
  BY <1>1, <1>4, <1>6, <1>7, <1>8, <1>9, <1>10, ReadStep

LEMMA LookingForMember ==
  ASSUME LocalInv, Noting, NEW p \in Workers, LookForMember(p)
  PROVE  LocalInv'
<1>1. PICK w \in Worker : /\ w = worker[p] /\ Placed(w) /\ Copied(w) /\ w.pc = "look for member"
                          /\ UNCHANGED <<checkout, placed>> /\ w.on = "skill" /\ w.entry = "plugin"
  BY Working DEF LookForMember, In, disk, Placed
<1>2. CASE Go(p, Resting)
  BY <1>1, <1>2, Ending
<1>3. CASE Verifies(placed["skill"]) /\ Recorded(p, placed["skill"].receipt.source # "local")
  BY <1>1, <1>3, Recording
<1>4. ASSUME NEW place \in {"look", "digest"}, worker' = [worker EXCEPT ![p] = [w EXCEPT !.pc = place]],
             place = "digest" => placed["skill"].tree = checkout["skill"]
      PROVE  LocalInv'
  <2>1. PICK n : n = [w EXCEPT !.pc = place]
    OBVIOUS
  <2>2. n \in Worker /\ n.pc = place /\ n.on = "skill" /\ n.entry = "plugin" /\ n.alone = w.alone
    BY <1>1, <2>1 DEF Worker, LocalPlaces
  <2>3. Placed(n)
    BY <2>2 DEF Placed
  <2>4. place = "digest" => Whole(placed["skill"].tree)
    BY <1>4 DEF LocalInv, LocalTyping, Packages
  <2>5. Copied(n)
    BY <1>1, <2>2, <2>4 DEF Copied
  <2>6. Knows(n)
    BY <2>2 DEF Knows
  <2> QED
    BY <1>1, <1>4, <2>1, <2>2, <2>3, <2>5, <2>6, ReadStep
<1> QED
  BY <1>1, <1>2, <1>3, <1>4 DEF LookForMember, Step, Go, On, Adoptable

LEMMA Digesting ==
  ASSUME LocalInv, Noting, NEW p \in Workers, Digest(p)
  PROVE  LocalInv'
<1>1. PICK w \in Worker : /\ w = worker[p] /\ Placed(w) /\ Copied(w) /\ w.pc = "digest" /\ w.on \in Packages
                          /\ UNCHANGED <<checkout, placed>> /\ (w.alone => Knows(w))
                          /\ placed[w.on] \in Package
  BY Working DEF Digest, In, disk
<1>2. CASE Go(p, Resting)
  BY <1>1, <1>2, Ending
<1>3. PICK tree \in Trees : tree = placed[w.on].tree
  BY <1>1 DEF Package
<1>4. PICK n : n = [w EXCEPT !.pc = "write", !.digest = tree]
  OBVIOUS
<1>5. CASE worker' = [worker EXCEPT ![p] = n]
  <2>1. /\ n \in Worker /\ n.pc = "write" /\ n.on = w.on /\ n.entry = w.entry /\ n.alone = w.alone
        /\ n.digest = tree /\ n.members = w.members /\ n.skipped = w.skipped
    BY <1>1, <1>4 DEF Worker, LocalPlaces
  <2>2. Placed(n)
    BY <1>1, <2>1 DEF Placed
  <2>3. Copied(n)
    BY <1>1, <1>3, <2>1 DEF Copied
  <2>4. n.alone => Knows(n)
    BY <1>1, <1>3, <2>1 DEF Knows, MemberIsKnown
  <2> QED
    BY <1>1, <1>5, <2>1, <2>2, <2>3, <2>4, ReadStep
<1> QED
  BY <1>1, <1>2, <1>3, <1>4, <1>5 DEF Digest, Go, On

LEMMA VerifyingMember ==
  ASSUME LocalInv, Noting, NEW p \in Workers, VerifyMember(p)
  PROVE  LocalInv'
<1>1. PICK w \in Worker : /\ w = worker[p] /\ Placed(w) /\ w.pc = "verify" /\ w.on = "skill"
                          /\ UNCHANGED <<checkout, placed>> /\ (w.alone => Knows(w))
  BY Working DEF VerifyMember, In, disk, Placed
<1>2. CASE Go(p, Resting)
  BY <1>1, <1>2, Ending
<1>3. CASE Verifies(placed["skill"]) /\ Recorded(p, FALSE)
  <2>1. w.alone => placed["skill"].receipt.source = "local"
    BY <1>1 DEF Knows
  <2> QED
    BY <1>1, <1>3, <2>1, Recording
<1> QED
  BY <1>1, <1>2, <1>3 DEF VerifyMember, On

-----------------------------------------------------------------------------
(* The checkout: the steps that write                                       *)

\* One file or the receipt goes, or the directory: whatever is left carries no
\* claim that was not there.
LEMMA Removing ==
  ASSUME LocalInv, Noting, NEW p \in Workers, RemoveTree(p)
  PROVE  LocalInv'
<1>1. PICK w \in Worker : /\ w = worker[p] /\ Placed(w) /\ Copied(w) /\ w.pc = "remove" /\ w.on \in Packages
                          /\ UNCHANGED checkout /\ placed[w.on] \in Package
  BY Working DEF RemoveTree, In
<1>2. w.pc \in InPlace /\ w.pc # "idle"
  BY <1>1 DEF InPlace
<1>3. PICK k \in Packages : k = w.on
  BY <1>1
<1>4. PICK old \in Package : old = placed[k]
  BY <1>1, <1>3
<1>5. Copied(w)'
  <2>1. contested \subseteq contested'
    BY Noted
  <2>2. \A j \in Packages : j # w.on => placed'[j] = placed[j]
    BY <1>1 DEF RemoveTree, Put, LocalInv, LocalTyping
  <2> QED
    BY <1>1, <2>1, <2>2 DEF Copied, Whole
<1>6. k \notin contested' /\ Claims(old.receipt) => Whole(old.receipt.tree)
  BY <1>4, Noted DEF LocalInv, ReceiptsAreWhole
<1>7. ASSUME NEW package \in Package, placed' = [placed EXCEPT ![k] = package], worker' = worker,
             package.receipt \in {NoReceipt, old.receipt}
      PROVE  LocalInv'
  <2>1. worker' = [worker EXCEPT ![p] = w]
    BY <1>1, <1>7 DEF LocalInv, LocalTyping
  <2>2. k \notin contested' /\ Claims(package.receipt) => Whole(package.receipt.tree)
    BY <1>6, <1>7 DEF Claims, NoReceipt
  <2>3. Knows(w)'
    BY <1>1 DEF Knows
  <2> QED
    BY <1>1, <1>2, <1>3, <1>5, <1>7, <2>1, <2>2, <2>3, OwnStep
<1>8. CASE On(p).receipt # NoReceipt /\ Put(p, [On(p) EXCEPT !.receipt = NoReceipt]) /\ UNCHANGED worker
  <2>1. PICK package : package = [old EXCEPT !.receipt = NoReceipt]
    OBVIOUS
  <2>2. package \in Package /\ package.receipt = NoReceipt
    BY <2>1, TreeTypes DEF Package
  <2> QED
    BY <1>1, <1>3, <1>4, <1>7, <1>8, <2>1, <2>2 DEF Put, On
<1>9. ASSUME NEW f \in 1..MaxFile, Put(p, [On(p) EXCEPT !.tree[f] = 0]), UNCHANGED worker
      PROVE  LocalInv'
  <2>1. PICK tree : tree = [old.tree EXCEPT ![f] = 0]
    OBVIOUS
  <2>2. tree \in Trees
    BY <2>1, LocalAssumption DEF Trees, Package
  <2>3. PICK package : package = [old EXCEPT !.tree = tree]
    OBVIOUS
  <2>4. package \in Package /\ package.receipt = old.receipt
    BY <2>2, <2>3 DEF Package
  <2>5. placed' = [placed EXCEPT ![k] = package]
    BY <1>1, <1>3, <1>4, <1>9, <2>1, <2>3 DEF Put, On
  <2> QED
    BY <1>7, <1>9, <2>4, <2>5
<1>10. CASE Put(p, Nowhere) /\ Go(p, [worker[p] EXCEPT !.pc = "copy", !.file = 1])
  <2>1. PICK n : n = [w EXCEPT !.pc = "copy", !.file = 1]
    OBVIOUS
  <2>2. n \in Worker
    BY <2>1, TreeTypes DEF Worker, LocalPlaces
  <2>3. /\ n.pc = "copy" /\ n.on = w.on /\ n.entry = w.entry /\ n.alone = w.alone
        /\ n.file = 1 /\ n.file # 0
    BY <2>1 DEF Worker
  <2>4. Placed(n)
    BY <1>1, <2>3 DEF Placed
  <2>5. Copied(n)'
    BY <1>5, <2>3 DEF Copied
  <2>6. Knows(n)'
    BY <2>3 DEF Knows
  <2>7. Nowhere \in Package /\ (k \notin contested' /\ Claims(Nowhere.receipt) => Whole(Nowhere.receipt.tree))
    BY TreeTypes DEF Nowhere, NoReceipt, Claims
  <2>8. placed' = [placed EXCEPT ![k] = Nowhere] /\ worker' = [worker EXCEPT ![p] = n]
    BY <1>1, <1>3, <1>10, <2>1 DEF Put, Go
  <2> QED
    BY <1>1, <1>2, <1>3, <2>2, <2>3, <2>4, <2>5, <2>6, <2>7, <2>8, OwnStep
<1> QED
  BY <1>8, <1>9, <1>10 DEF RemoveTree

\* Files are copied in their order.
LEMMA Copying ==
  ASSUME LocalInv, Noting, NEW p \in Workers, CopyFile(p)
  PROVE  LocalInv'
<1>1. PICK w \in Worker : /\ w = worker[p] /\ Placed(w) /\ Copied(w) /\ w.pc = "copy" /\ w.on \in Packages
                          /\ UNCHANGED checkout /\ placed[w.on] \in Package
  BY Working DEF CopyFile, In
<1>2. w.pc \in InPlace /\ w.pc # "idle"
  BY <1>1 DEF InPlace
<1>3. PICK k \in Packages : k = w.on
  BY <1>1
<1>4. PICK old \in Package : old = placed[k]
  BY <1>1, <1>3
<1>5. PICK f \in 1..MaxFile : f = w.file
  BY <1>1, LocalAssumption DEF Placed, Worker
<1>6. PICK tree : tree = [old.tree EXCEPT ![f] = checkout[k][f]]
  OBVIOUS
<1>7. checkout[k][f] \in 0..MaxContent /\ checkout[k][f] # 0
  BY DEF LocalInv, LocalTyping, Trees, Whole
<1>8. /\ tree \in Trees
      /\ \A g \in 1..MaxFile : tree[g] = IF g = f THEN checkout[k][f] ELSE old.tree[g]
  BY <1>6, <1>7 DEF Trees, Package
<1>9. PICK package : package = [old EXCEPT !.there = TRUE, !.tree = tree]
  OBVIOUS
<1>10. package \in Package /\ package.receipt = old.receipt /\ package.tree = tree
  BY <1>8, <1>9 DEF Package
<1>11. placed' = [placed EXCEPT ![k] = package]
  BY <1>1, <1>3, <1>4, <1>5, <1>6, <1>9 DEF CopyFile, Put, On
<1>12. k \notin contested' /\ Claims(package.receipt) => Whole(package.receipt.tree)
  BY <1>4, <1>10, Noted DEF LocalInv, ReceiptsAreWhole
<1>13. k \notin contested' => \A g \in 1..MaxFile : g <= f => tree[g] # 0
  <2> SUFFICES ASSUME k \notin contested', NEW g \in 1..MaxFile, g <= f PROVE tree[g] # 0
    OBVIOUS
  <2>1. CASE g = f
    BY <1>7, <1>8, <2>1
  <2>2. CASE g < f
    <3>1. k \notin contested
      BY Noted
    <3>2. old.tree[g] # 0
      BY <1>1, <1>3, <1>4, <1>5, <2>2, <3>1 DEF Copied
    <3> QED
      BY <1>8, <2>2, <3>2
  <2> QED
    BY <2>1, <2>2
<1>14. placed'[k] = package /\ \A j \in Packages : j # k => placed'[j] = placed[j]
  BY <1>11 DEF LocalInv, LocalTyping
<1>15. contested \subseteq contested'
  BY Noted
\* whatever the process is at next
<1>16. ASSUME NEW n \in Worker, worker' = [worker EXCEPT ![p] = n], n.alone = w.alone,
              Placed(n), Copied(n)', n.pc \in {"copy", "look for member", "digest"},
              n.pc = "digest" => n.on = "skill"
       PROVE  LocalInv'
  <2>1. Knows(n)'
    BY <1>16 DEF Knows
  <2> QED
    BY <1>1, <1>2, <1>3, <1>10, <1>11, <1>12, <1>16, <2>1, OwnStep
<1>17. CASE f # MaxFile
  <2>1. PICK n : n = [w EXCEPT !.file = f + 1]
    OBVIOUS
  <2>2. f + 1 \in 0..MaxFile /\ f + 1 # 0
    BY <1>17, LocalAssumption
  <2>3. n \in Worker /\ n.file = f + 1 /\ n.pc = "copy" /\ n.on = k /\ n.entry = w.entry /\ n.alone = w.alone
    BY <1>1, <1>3, <2>1, <2>2 DEF Worker
  <2>4. Placed(n)
    BY <1>1, <1>3, <2>2, <2>3 DEF Placed
  <2>5. k \notin contested' => \A g \in 1..MaxFile : g < n.file => placed'[k].tree[g] # 0
    BY <1>10, <1>13, <1>14, <2>3, LocalAssumption
  <2>6. \A j \in Packages \ contested' : j # k /\ w.entry = j => Whole(placed'[j].tree)
    BY <1>1, <1>3, <1>14, <1>15 DEF Copied
  <2>7. Copied(n)'
    BY <2>3, <2>5, <2>6 DEF Copied, Whole
  <2>8. worker' = [worker EXCEPT ![p] = n]
    BY <1>1, <1>5, <1>17, <2>1 DEF CopyFile, Go
  <2> QED
    BY <1>16, <2>3, <2>4, <2>7, <2>8
<1>18. CASE f = MaxFile
  <2>1. k \notin contested' => Whole(placed'[k].tree)
    BY <1>10, <1>13, <1>14, <1>18 DEF Whole
  <2>2. CASE k = "plugin"
    <3>1. PICK n : n = [w EXCEPT !.pc = "look for member", !.on = "skill", !.file = 0]
      OBVIOUS
    <3>2. /\ n \in Worker /\ n.pc = "look for member" /\ n.on = "skill" /\ n.entry = w.entry
          /\ n.alone = w.alone
      <4>1. "look for member" \in LocalPlaces /\ "skill" \in Packages /\ 0 \in 0..MaxFile
        BY TreeTypes DEF LocalPlaces, Packages
      <4> QED
        BY <3>1, <4>1 DEF Worker
    <3>3. w.entry = "plugin"
      BY <1>1, <1>3, <2>2 DEF Placed, Worker, Packages
    <3>4. Placed(n)
      BY <3>2, <3>3 DEF Placed
    <3>5. Copied(n)'
      BY <2>1, <2>2, <3>2, <3>3 DEF Copied, Whole
    <3>6. worker' = [worker EXCEPT ![p] = n]
      BY <1>1, <1>3, <1>5, <1>18, <2>2, <3>1 DEF CopyFile, Go
    <3> QED
      BY <1>16, <3>2, <3>4, <3>5, <3>6
  <2>3. CASE k = "skill"
    <3>1. PICK n : n = [w EXCEPT !.pc = "digest", !.file = 0]
      OBVIOUS
    <3>2. n \in Worker /\ n.pc = "digest" /\ n.on = "skill" /\ n.entry = w.entry /\ n.alone = w.alone
      <4>1. "digest" \in LocalPlaces /\ 0 \in 0..MaxFile
        BY TreeTypes DEF LocalPlaces
      <4> QED
        BY <1>3, <2>3, <3>1, <4>1 DEF Worker
    <3>3. Placed(n)
      BY <1>1, <3>2 DEF Placed
    <3>4. \A j \in Packages \ contested' : j # k /\ w.entry = j => Whole(placed'[j].tree)
      BY <1>1, <1>3, <1>14, <1>15 DEF Copied
    <3>5. Copied(n)'
      BY <2>1, <2>3, <3>2, <3>4 DEF Copied, Whole
    <3>6. worker' = [worker EXCEPT ![p] = n]
      BY <1>1, <1>3, <1>5, <1>18, <2>3, <3>1 DEF CopyFile, Go
    <3> QED
      BY <1>16, <3>2, <3>3, <3>5, <3>6
  <2> QED
    BY <2>2, <2>3 DEF Packages
<1> QED
  BY <1>17, <1>18

\* The receipt of a package that is its own is of what it has found there whole.
LEMMA Writing ==
  ASSUME LocalInv, Noting, NEW p \in Workers, WriteReceipt(p)
  PROVE  LocalInv'
<1>1. PICK w \in Worker : /\ w = worker[p] /\ Placed(w) /\ Copied(w) /\ w.pc = "write" /\ w.on \in Packages
                          /\ UNCHANGED checkout /\ placed[w.on] \in Package /\ (w.alone => Knows(w))
  BY Working DEF WriteReceipt, In
<1>2. w.pc \in InPlace /\ w.pc # "idle"
  BY <1>1 DEF InPlace
<1>3. PICK k \in Packages : k = w.on
  BY <1>1
<1>4. PICK old \in Package : old = placed[k]
  BY <1>1, <1>3
<1>5. CASE /\ On(p).there /\ Put(p, [On(p) EXCEPT !.receipt = [NoReceipt EXCEPT !.source = "torn"]])
           /\ Go(p, Resting)
  <2>1. PICK receipt : receipt = [NoReceipt EXCEPT !.source = "torn"]
    OBVIOUS
  <2>2. receipt \in Receipt /\ ~Claims(receipt)
    BY <2>1, TreeTypes DEF Receipt, NoReceipt, Claims
  <2>3. PICK package : package = [old EXCEPT !.receipt = receipt]
    OBVIOUS
  <2>4. package \in Package /\ package.receipt = receipt
    BY <2>2, <2>3 DEF Package
  <2>5. placed' = [placed EXCEPT ![k] = package] /\ worker' = [worker EXCEPT ![p] = Resting]
    BY <1>1, <1>3, <1>4, <1>5, <2>1, <2>3 DEF Put, Go, On
  <2>6. Copied(Resting)'
    BY DEF Copied, Resting
  <2> QED
    BY <1>1, <1>2, <1>3, <2>2, <2>4, <2>5, <2>6, RestingKnows, TreeTypes, OwnStep
<1>6. CASE ~On(p).there /\ UNCHANGED placed /\ Go(p, Resting)
  BY <1>1, <1>2, <1>6, Ending
<1>7. PICK members : members = IF k = "plugin" THEN w.members ELSE {}
  OBVIOUS
<1>8. PICK receipt : receipt = [source |-> "local", tree |-> w.digest, members |-> members]
  OBVIOUS
<1>9. PICK package : package = [old EXCEPT !.receipt = receipt]
  OBVIOUS
<1>10. PICK place : place = IF k = w.entry THEN "done" ELSE "verify"
  OBVIOUS
<1>11. PICK n : n = [w EXCEPT !.digest = Empty, !.pc = place]
  OBVIOUS
<1>12. CASE old.there /\ Put(p, package) /\ Go(p, n)
  <2>1. w.digest \in Trees /\ members \in SUBSET Trees
    BY <1>7 DEF Worker
  <2>2. /\ receipt \in Receipt /\ receipt.source = "local"
        /\ receipt.tree = w.digest /\ receipt.members = members
    BY <1>8, <2>1 DEF Receipt
  <2>3. /\ package \in Package /\ package.receipt = receipt
        /\ package.tree = old.tree /\ package.there = old.there
    BY <1>9, <2>2 DEF Package
  <2>4. place \in {"done", "verify"} /\ place \in LocalPlaces
    BY <1>10 DEF LocalPlaces
  <2>5. /\ n \in Worker /\ n.pc = place /\ n.on = k /\ n.entry = w.entry /\ n.alone = w.alone
        /\ n.members = w.members /\ n.skipped = w.skipped
    BY <1>3, <1>11, <2>4, TreeTypes DEF Worker
  <2>6. /\ placed' = [placed EXCEPT ![k] = package] /\ worker' = [worker EXCEPT ![p] = n]
        /\ placed'[k] = package /\ \A j \in Packages : j # k => placed'[j] = placed[j]
    BY <1>1, <1>3, <1>12 DEF Put, Go, LocalInv, LocalTyping
  <2>7. {k, w.entry} \subseteq {"plugin", "skill"} /\ (w.entry = "skill" => k = "skill")
    BY <1>1, <1>3 DEF Placed, Worker, Packages
  <2>8. Placed(n)
    BY <1>10, <2>4, <2>5, <2>7 DEF Placed
  <2>9. contested \subseteq contested'
    BY Noted
  <2>10. Copied(n)'
    BY <1>1, <1>3, <2>4, <2>5, <2>6, <2>9 DEF Copied, Whole
  <2>11. k \notin contested' => Whole(package.receipt.tree)
    BY <1>1, <1>3, <2>2, <2>3, <2>9 DEF Copied
  <2>12. ASSUME n.alone PROVE Knows(n)'
    <3>1. Knows(w) /\ old.tree = w.digest /\ old.there
      BY <1>1, <1>3, <1>4, <1>12, <2>5, <2>12 DEF Knows
    <3>2. Verifies(package)
      BY <2>2, <2>3, <3>1 DEF Verifies
    <3>3. k = "skill" => Knows(n)'
      BY <2>2, <2>3, <2>4, <2>5, <2>6, <3>2 DEF Knows, Verifies
    <3>4. ASSUME k = "plugin" PROVE Knows(n)'
      <4>1. members = w.members /\ MemberIsKnown(w) /\ placed'["skill"] = placed["skill"]
        BY <1>1, <1>3, <1>7, <2>6, <3>1, <3>4 DEF Knows, Packages
      <4>2. MemberIsKnown(n)'
        BY <2>5, <4>1 DEF MemberIsKnown, Verifies
      <4>3. place = "done"
        BY <1>10, <2>7, <3>4
      <4> QED
        BY <2>2, <2>3, <2>5, <2>6, <3>2, <3>4, <4>1, <4>2, <4>3 DEF Knows, Verifies
    <3> QED
      BY <2>7, <3>3, <3>4
  <2> QED
    BY <1>1, <1>2, <1>3, <2>3, <2>5, <2>6, <2>8, <2>10, <2>11, <2>12, OwnStep
<1> QED
  BY <1>1, <1>3, <1>4, <1>5, <1>6, <1>7, <1>8, <1>9, <1>10, <1>11, <1>12 DEF WriteReceipt, On, Put, Go

-----------------------------------------------------------------------------
(* The checkout: who comes beside                                           *)

\* Whoever is at work when somebody comes is alone no longer.
LEMMA Disturbing ==
  ASSUME LocalInv, NEW q \in Workers, NEW y,
         y = IF In(q, "idle") THEN Resting ELSE [worker[q] EXCEPT !.alone = FALSE]
  PROVE  /\ y \in Worker /\ y.pc = worker[q].pc /\ Placed(y) /\ Copied(y)
         /\ y.pc # "idle" => ~y.alone
<1>1. PICK x \in Worker : x = worker[q] /\ Placed(x) /\ Copied(x)
  BY Working
<1>2. CASE x.pc = "idle"
  BY <1>1, <1>2, RestingKnows, TreeTypes DEF In
<1>3. CASE x.pc # "idle"
  <2>1. y = [x EXCEPT !.alone = FALSE]
    BY <1>1, <1>3 DEF In
  <2>2. y \in Worker /\ y.pc = x.pc /\ y.on = x.on /\ y.entry = x.entry /\ y.file = x.file
        /\ y.digest = x.digest /\ ~y.alone
    BY <2>1 DEF Worker
  <2>3. Placed(y) /\ Copied(y)
    BY <1>1, <2>2 DEF Placed, Copied
  <2> QED
    BY <1>1, <2>2, <2>3
<1> QED
  BY <1>2, <1>3

LEMMA BeginningLocal ==
  ASSUME LocalInv, Noting, NEW p \in Workers, NEW k \in Packages, NEW force \in BOOLEAN,
         BeginLocal(p, k, force)
  PROVE  LocalInv'
<1>1. worker[p].pc = "idle" /\ UNCHANGED <<checkout, placed>>
  BY DEF BeginLocal, In, disk
<1>2. PICK alone \in BOOLEAN : alone = \A o \in Workers \ {p} : In(o, "idle")
  OBVIOUS
<1>3. PICK n : n = [Resting EXCEPT !.pc = "look", !.entry = k, !.on = k, !.force = force, !.alone = alone]
  OBVIOUS
<1>4. worker' = [q \in Workers |-> IF q = p THEN n ELSE IF In(q, "idle") THEN Resting
                                   ELSE [worker[q] EXCEPT !.alone = FALSE]]
  BY <1>2, <1>3 DEF BeginLocal
<1>5. "look" \in LocalPlaces
  BY DEF LocalPlaces
<1>6. n \in Worker /\ n.pc = "look" /\ n.entry = k /\ n.on = k /\ n.alone = alone
  BY <1>3, <1>5, TreeTypes DEF Worker
<1>7. ASSUME NEW q \in Workers, q # p
      PROVE  /\ worker'[q] \in Worker /\ worker'[q].pc = worker[q].pc
             /\ Placed(worker'[q]) /\ Copied(worker'[q])
             /\ worker[q].pc # "idle" => ~worker'[q].alone
  <2>1. worker'[q] = IF In(q, "idle") THEN Resting ELSE [worker[q] EXCEPT !.alone = FALSE]
    BY <1>4, <1>7
  <2> QED
    BY <2>1, Disturbing
<1>8. worker'[p] = n /\ Placed(n) /\ Copied(n)
  BY <1>4, <1>6 DEF Placed, Copied
<1>9. LocalTyping'
  <2>1. \A q \in Workers : worker'[q] \in Worker
    BY <1>6, <1>7, <1>8
  <2>2. worker' = [q \in Workers |-> worker'[q]]
    BY <1>4
  <2> QED
    BY <1>1, <2>1, <2>2 DEF LocalInv, LocalTyping
<1>10. contested \subseteq contested' /\ OneWriter'
  BY Noted
<1>11. ASSUME NEW q \in Workers PROVE Placed(worker'[q]) /\ Copied(worker'[q])
  BY <1>7, <1>8
<1>12. \A q \in Workers : Placed(worker[q])' /\ Copied(worker[q])'
  BY <1>1, <1>10, <1>11 DEF Placed, Copied, Whole
<1>13. ReceiptsAreWhole'
  BY <1>1, <1>10 DEF LocalInv, ReceiptsAreWhole, Claims, Whole
<1>14. Undisturbed'
  <2> SUFFICES ASSUME NEW q \in Workers, worker'[q].alone, worker'[q].pc # "idle"
               PROVE  (\A o \in Workers \ {q} : worker'[o].pc = "idle") /\ Knows(worker[q])'
    BY DEF Undisturbed
  <2>1. q = p
    BY <1>7
  <2>2. \A o \in Workers \ {p} : worker[o].pc = "idle"
    BY <1>2, <1>6, <1>8, <2>1 DEF In
  <2>3. Knows(n)'
    BY <1>6 DEF Knows
  <2> QED
    BY <1>7, <1>8, <2>1, <2>2, <2>3 DEF Knows, MemberIsKnown
<1> QED
  BY <1>9, <1>10, <1>12, <1>13, <1>14 DEF LocalInv

LEMMA Releasing ==
  ASSUME LocalInv, Noting, NEW k \in Packages, Release(k)
  PROVE  LocalInv'
<1>1. PICK tree \in Trees : tree = [f \in 1..MaxFile |-> 1] /\ Whole(tree)
  BY TreeTypes
<1>2. ASSUME NEW source \in {"remote", "bundled"}, NEW members \in SUBSET Trees, NEW package,
             package = [there |-> TRUE, tree |-> tree,
                        receipt |-> [source |-> source, tree |-> tree, members |-> members]]
      PROVE  package \in Package /\ package.tree = tree /\ package.receipt.tree = tree
  BY <1>2 DEF Package, Receipt
<1>3. /\ placed' = [j \in Packages |-> placed'[j]] /\ UNCHANGED checkout
      /\ \A j \in Packages :
           \/ placed'[j] = placed[j]
           \/ placed'[j] \in Package /\ placed'[j].tree = tree /\ placed'[j].receipt.tree = tree
  <2>1. CASE k = "skill"
    <3>1. PICK alone : alone = [there |-> TRUE, tree |-> tree,
                                receipt |-> [source |-> "remote", tree |-> tree, members |-> {}]]
      OBVIOUS
    <3>2. alone \in Package /\ alone.tree = tree /\ alone.receipt.tree = tree
      BY <1>2, <3>1
    <3>3. placed' = [placed EXCEPT !["skill"] = alone] /\ UNCHANGED checkout
      BY <1>1, <2>1, <3>1 DEF Release
    <3>4. placed = [j \in Packages |-> placed[j]]
      BY DEF LocalInv, LocalTyping
    <3> QED
      BY <3>2, <3>3, <3>4
  <2>2. CASE k = "plugin"
    <3>1. PICK plugin : plugin = [there |-> TRUE, tree |-> tree,
                                  receipt |-> [source |-> "remote", tree |-> tree, members |-> {tree}]]
      OBVIOUS
    <3>2. PICK skill : skill = [there |-> TRUE, tree |-> tree,
                                receipt |-> [source |-> "bundled", tree |-> tree, members |-> {}]]
      OBVIOUS
    <3>3. plugin \in Package /\ plugin.tree = tree /\ plugin.receipt.tree = tree
      <4>1. {tree} \in SUBSET Trees
        OBVIOUS
      <4> QED
        BY <1>2, <3>1, <4>1
    <3>4. skill \in Package /\ skill.tree = tree /\ skill.receipt.tree = tree
      BY <1>2, <3>2
    <3>5. placed' = [plugin |-> plugin, skill |-> skill] /\ UNCHANGED checkout
      BY <1>1, <2>2, <3>1, <3>2 DEF Release
    <3>6. /\ placed' = [j \in Packages |-> placed'[j]]
          /\ placed'["plugin"] = plugin /\ placed'["skill"] = skill
      BY <3>5 DEF Packages
    <3> QED
      BY <3>3, <3>4, <3>5, <3>6 DEF Packages
  <2> QED
    BY <2>1, <2>2 DEF Packages
<1>4. /\ worker' = [q \in Workers |-> worker'[q]]
      /\ \A q \in Workers : worker'[q] = IF In(q, "idle") THEN Resting ELSE [worker[q] EXCEPT !.alone = FALSE]
  BY DEF Release
<1>5. ASSUME NEW q \in Workers
      PROVE  /\ worker'[q] \in Worker /\ Placed(worker'[q]) /\ Copied(worker'[q])
             /\ worker'[q].pc # "idle" => ~worker'[q].alone
  BY <1>4, Disturbing
<1>6. contested \subseteq contested' /\ OneWriter'
  BY Noted
<1>7. LocalTyping'
  <2>1. \A j \in Packages : placed'[j] \in Package
    BY <1>3 DEF LocalInv, LocalTyping
  <2>2. \A q \in Workers : worker'[q] \in Worker
    BY <1>5
  <2> QED
    BY <1>3, <1>4, <2>1, <2>2 DEF LocalInv, LocalTyping
<1>8. ASSUME NEW q \in Workers PROVE Placed(worker[q])' /\ Copied(worker[q])'
  <2>1. PICK x : x = worker'[q] /\ Placed(x) /\ Copied(x)
    BY <1>5
  <2>2. ASSUME NEW j \in Packages \ contested'
        PROVE  /\ x.on = j /\ x.pc = "copy" => \A f \in 1..MaxFile : f < x.file => placed'[j].tree[f] # 0
               /\ x.on = j /\ x.pc = "digest" => Whole(placed'[j].tree)
               /\ x.on = j /\ x.pc = "write" => Whole(x.digest)
               /\ x.on # j /\ x.entry = j => Whole(placed'[j].tree)
    <3>1. j \in Packages \ contested
      BY <1>6
    <3>2. CASE placed'[j] = placed[j]
      BY <2>1, <3>1, <3>2 DEF Copied
    <3>3. CASE placed'[j].tree = tree
      BY <1>1, <2>1, <3>1, <3>3 DEF Copied, Whole
    <3> QED
      BY <1>3, <3>2, <3>3
  <2>3. Copied(x)'
    BY <2>2 DEF Copied, Whole
  <2> QED
    BY <2>1, <2>3 DEF Placed, Copied
<1>9. ReceiptsAreWhole'
  BY <1>1, <1>3, <1>6 DEF LocalInv, ReceiptsAreWhole, Claims
<1>10. Undisturbed'
  BY <1>5 DEF Undisturbed
<1> QED
  BY <1>6, <1>7, <1>8, <1>9, <1>10 DEF LocalInv

\* Another revision of the checkout is whole as well.
LEMMA Editing ==
  ASSUME LocalInv, Noting, NEW k \in Packages, Edit(k)
  PROVE  LocalInv'
<1>1. PICK tree : tree = [f \in 1..MaxFile |-> checkout[k][f] + 1]
  OBVIOUS
<1>2. tree \in Trees /\ Whole(tree)
  <2>1. ASSUME NEW f \in 1..MaxFile
        PROVE  checkout[k][f] + 1 \in 0..MaxContent /\ checkout[k][f] + 1 # 0
    <3>1. checkout[k][f] \in 0..MaxContent /\ checkout[k][f] < MaxContent
      BY DEF Edit, LocalInv, LocalTyping, Trees
    <3> QED
      BY <3>1, LocalAssumption
  <2> QED
    BY <1>1, <2>1 DEF Trees, Whole
<1>3. checkout' = [checkout EXCEPT ![k] = tree] /\ UNCHANGED <<placed, worker>>
  BY <1>1 DEF Edit, disk
<1>4. LocalTyping'
  BY <1>2, <1>3 DEF LocalInv, LocalTyping
<1>5. contested \subseteq contested' /\ OneWriter'
  BY Noted
<1>6. \A q \in Workers : Placed(worker[q])'
  BY <1>3 DEF LocalInv, Placed
<1>7. \A q \in Workers : Copied(worker[q])'
  BY <1>3, <1>5 DEF LocalInv, Copied, Whole
<1>8. ReceiptsAreWhole'
  BY <1>3, <1>5 DEF LocalInv, ReceiptsAreWhole, Claims, Whole
<1>9. Undisturbed'
  BY <1>3 DEF LocalInv, Undisturbed, Knows, MemberIsKnown, Verifies
<1> QED
  BY <1>4, <1>5, <1>6, <1>7, <1>8, <1>9 DEF LocalInv

LEMMA LocalNextKeepsInv ==
  ASSUME LocalInv, [LocalNext]_localVars
  PROVE  LocalInv'
<1>1. CASE UNCHANGED localVars
  <2>1. UNCHANGED <<checkout, placed, worker, contested>>
    BY <1>1 DEF localVars, disk
  <2>2. LocalTyping' /\ \A p \in Workers : Placed(worker[p])'
    BY <2>1 DEF LocalInv, LocalTyping, Placed
  <2>3. OneWriter' /\ ReceiptsAreWhole'
    BY <2>1 DEF LocalInv, OneWriter, Writes, ReceiptsAreWhole, Claims
  <2>4. \A p \in Workers : Copied(worker[p])'
    BY <2>1 DEF LocalInv, Copied
  <2>5. Undisturbed'
    BY <2>1 DEF LocalInv, Undisturbed, Knows, MemberIsKnown, Verifies
  <2> QED
    BY <2>2, <2>3, <2>4, <2>5 DEF LocalInv
<1>2. CASE LocalNext
  <2>1. Noting
    BY <1>2 DEF LocalNext, Noting
  <2>2. ASSUME NEW p \in Workers, LocalStep(p) PROVE LocalInv'
    <3>1. CASE End(p)
      BY <2>1, <3>1, Ending DEF End, In, disk
    <3> QED
      BY <2>1, <2>2, <3>1, BeginningLocal, LookingForDestination, Removing, Copying, LookingForMember,
         Digesting, Writing, VerifyingMember DEF LocalStep
  <2> QED
    BY <1>2, <2>1, <2>2, Releasing, Editing DEF LocalNext
<1> QED
  BY <1>1, <1>2

-----------------------------------------------------------------------------
(* The checkout: theorems                                                   *)

\* Whoever installs from a checkout, edits it or brings a release, and wherever
\* each ends: what a process has copied of a package that no other one writes
\* stays, and one that nobody disturbs knows what the receipts say.
THEOREM CheckoutKnowledge == LocalSpec => []LocalInv
<1>1. LocalInit => LocalInv
  <2> SUFFICES ASSUME LocalInit PROVE LocalInv
    OBVIOUS
  <2>1. \A p \in Workers : worker[p] = Resting
    BY DEF LocalInit
  <2>2. \A k \in Packages : placed[k] = Nowhere
    BY DEF LocalInit
  <2>3. LocalTyping
    BY TreeTypes DEF LocalInit, LocalTyping
  <2>4. \A p \in Workers : Placed(worker[p]) /\ Copied(worker[p]) /\ worker[p].pc = "idle"
    BY <2>1, RestingKnows
  <2>5. OneWriter
    BY <2>1 DEF OneWriter, Writes, Resting, InPlace, Packages
  <2>6. ReceiptsAreWhole
    BY <2>2 DEF ReceiptsAreWhole, Claims, Nowhere, NoReceipt
  <2>7. Undisturbed
    BY <2>4 DEF Undisturbed
  <2> QED
    BY <2>3, <2>4, <2>5, <2>6, <2>7 DEF LocalInv
<1>2. LocalInv /\ [LocalNext]_localVars => LocalInv'
  BY LocalNextKeepsInv
<1> QED
  BY <1>1, <1>2, PTL DEF LocalSpec

\* A receipt that verifies is of a whole package unless two processes installed
\* it at once, and a plugin that one process installed undisturbed has a closure
\* that verifies, unless its member was there from a release.
THEOREM ReceiptsTellTheTruth == LocalSpec => []LocalReceiptsAreTrue
<1>1. LocalInv => LocalReceiptsAreTrue
  <2> SUFFICES ASSUME LocalInv PROVE LocalReceiptsAreTrue
    OBVIOUS
  <2>1. ASSUME NEW k \in Packages \ contested, Verifies(placed[k]) PROVE Whole(placed[k].tree)
    BY <2>1 DEF LocalInv, ReceiptsAreWhole, Verifies, Claims
  <2>2. ASSUME NEW p \in Workers, In(p, "done"), worker[p].alone
        PROVE  /\ Verifies(placed[worker[p].entry])
               /\ worker[p].entry = "plugin" => (ClosureVerifies = ~worker[p].skipped)
    <3>1. PICK w \in Worker : w = worker[p] /\ Placed(w) /\ Knows(w) /\ w.pc = "done"
      BY <2>2, Working DEF In
    <3>2. w.on = w.entry /\ Verifies(placed[w.entry]) /\ placed[w.entry].receipt.source = "local"
      BY <3>1 DEF Placed, Knows
    <3>3. ASSUME w.entry = "plugin" PROVE ClosureVerifies = ~w.skipped
      <4>1. MemberIsKnown(w) /\ placed["plugin"].receipt.members = w.members
        BY <3>1, <3>2, <3>3 DEF Knows
      <4>2. w.skipped \in BOOLEAN
        BY DEF Worker
      <4>3. ClosureVerifies <=> placed["skill"].receipt.source = "local"
        BY <3>2, <3>3, <4>1 DEF ClosureVerifies, MemberIsKnown
      <4>4. ClosureVerifies \in BOOLEAN
        BY DEF ClosureVerifies
      <4> QED
        BY <4>1, <4>2, <4>3, <4>4 DEF MemberIsKnown
    <3> QED
      BY <3>1, <3>2, <3>3
  <2> QED
    BY <2>1, <2>2 DEF LocalReceiptsAreTrue
<1> QED
  BY <1>1, CheckoutKnowledge, PTL
=============================================================================
