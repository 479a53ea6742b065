--------------------------- MODULE InstallerProofs ---------------------------
(***************************************************************************)
(* For any processes, releases, crashes and interleavings: if releases     *)
(* that share a package are releases of one plugin, or of one package, a   *)
(* plugin that is there has its dependencies, a rollback restores what was *)
(* there, and recovery finds what the markers need.                        *)
(***************************************************************************)
EXTENDS Installer, SequenceTheorems, TLAPS

\* Releases of one root may differ in their members; those of different roots
\* have none in common.  Without it, a package that two plugins bring is
\* replaced by the second: finding InstallerLost.
Separate ==
  \A r, s \in Releases :
    ToSet(Members[r]) \cap ToSet(Members[s]) # {} =>
      /\ Root(r) = Root(s)
      /\ r \in Singles <=> s \in Singles

ClosureRoots == {Root(r) : r \in Closures}
SingleRoots == {Root(r) : r \in Singles}

\* The packages that the releases of a root bring.
Group(m) == UNION {ToSet(Members[r]) : r \in {s \in Releases : Root(s) = m}}

-----------------------------------------------------------------------------
(* Types                                                                    *)

InClosure == {"undo", "members", "check", "deactivate", "activate"}
InTree == {"restore", "unmark", "look", "place", "placed", "preserve", "swap"}
Critical == InClosure \cup InTree
Places == {"out", "closures", "claim", "trees", "lock"} \cup Critical

Typing ==
  /\ TypeOK
  /\ closure \in [Packages -> Transactions \cup {None}]
  /\ pc \in [Procs -> Places]
  /\ back \in [Procs -> {"out", "closures", "trees", "check", "look", "fail", "done"}]

-----------------------------------------------------------------------------
(* The invariant                                                            *)

\* A package that no transaction works on.
Settled(m, y) ==
  /\ tree[y] \in Whole \cup {None} /\ kept[m][y] = None
  /\ y \in acked => tree[y] \in Whole

\* What the marker of root m tells of its transaction.
Written(m, c) ==
  /\ \E r \in Closures : Root(r) = m /\ c.members = Members[r]
  /\ c.had = {y \in ToSet(c.members) : c.was[y] # None}
  /\ \A y \in Group(m) : c.was[y] \in Whole \cup {None}
  /\ \A s \in Closures : Root(s) = m /\ c.was[m] = s => \A y \in ToSet(Members[s]) : c.was[y] = s
  /\ Len(c.members) > 1 => c.was[m] = None
  /\ c.phase = "prepared" => \A y \in ToSet(c.members) \cap acked : c.was[y] # None

\* A member's previous installation is there, or it is the backup.
Recoverable(m, y) ==
  IF y \in closure[m].had
  THEN \/ tree[y] = closure[m].was[y] /\ kept[m][y] = None
       \/ kept[m][y] = closure[m].was[y]
  ELSE kept[m][y] = None

VisibleAt(m) ==
  \A s \in Closures : Root(s) = m /\ tree[m] = s => \A y \in ToSet(Members[s]) : tree[y] = s

\* What is on the disk below the root of a plugin or agent.
ClosureDisk(m) ==
  /\ VisibleAt(m)
  /\ closure[m] = None => \A y \in Group(m) : Settled(m, y)
  /\ closure[m] # None =>
       /\ Written(m, closure[m])
       /\ \A y \in Group(m) \ ToSet(closure[m].members) :
            Settled(m, y) /\ (closure[m].phase = "prepared" => tree[y] = closure[m].was[y])
       /\ closure[m].phase = "prepared" => \A y \in ToSet(closure[m].members) : Recoverable(m, y)
       /\ closure[m].phase = "committed" =>
            \E r \in Closures : /\ closure[m].members = Members[r]
                                /\ \A y \in ToSet(Members[r]) : tree[y] = r

\* What is on the disk of a package that is installed by itself.
TreeDisk(x) ==
  /\ tree[x] \in Whole \cup {None}
  /\ x \notin mark => spare[x] = None /\ (x \in acked => tree[x] \in Whole)
  /\ x \in mark /\ tree[x] = None => spare[x] \in Whole

DiskInv ==
  /\ \A m \in ClosureRoots : ClosureDisk(m)
  /\ \A x \in SingleRoots : TreeDisk(x)
  /\ \A m \in Packages : closure[m] # None => m \in ClosureRoots
  /\ mark \subseteq SingleRoots
  /\ \A x \in acked : (\A m \in ClosureRoots \cup SingleRoots : x \notin Group(m)) => tree[x] \in Whole

\* What is left to do of the packages S, each once and the root last.
Ordered(l, m, S) ==
  /\ l \in Seq(S) /\ IsInjective(l)
  /\ l # <<>> => l[Len(l)] = m

\* A member whose turn has not come: it is not there, or it is as it was.
Ahead(m, y) ==
  \/ tree[y] = None
  \/ y \in closure[m].had /\ tree[y] = closure[m].was[y] /\ kept[m][y] = None

\* What a process has established about the transaction of root m.
ClosureWork(p, m) ==
  /\ m \in ClosureRoots
  /\ back[p] \in {"closures", "check", "fail", "done"}
  /\ back[p] # "closures" => R(p) \in Closures /\ m = Target(p)
  /\ pc[p] \in {"check", "deactivate", "activate"} => back[p] = "check"
  /\ pc[p] = "check" => closure[m] = None
  /\ pc[p] \in {"deactivate", "activate"} =>
       /\ closure[m] # None /\ closure[m].phase = "prepared" /\ closure[m].members = Members[R(p)]
       /\ Ordered(left[p], m, ToSet(Members[R(p)]))
       /\ \A y \in ToSet(left[p]) : Ahead(m, y)
       /\ \A y \in ToSet(Members[R(p)]) \ ToSet(left[p]) : tree[y] = R(p)
  /\ pc[p] = "deactivate" =>
       /\ ToSet(left[p]) = ToSet(Members[R(p)])
       /\ \A y \in ToSet(left[p]) : tree[y] = closure[m].was[y] /\ kept[m][y] = None
  /\ pc[p] = "members" =>
       /\ closure[m] # None
       /\ Ordered(left[p], m, ToSet(closure[m].members))
       /\ \A y \in ToSet(closure[m].members) \ ToSet(left[p]) :
            /\ kept[m][y] = None
            /\ closure[m].phase = "prepared" => tree[y] = closure[m].was[y]
       /\ closure[m].phase = "prepared" /\ left[p] # <<>> /\ Len(closure[m].members) > 1 =>
            tree[m] = None
  /\ back[p] = "done" =>
       /\ \A y \in ToSet(Members[R(p)]) : tree[y] = R(p)
       /\ closure[m] # None => closure[m].phase = "committed" /\ closure[m].members = Members[R(p)]

\* What a process has established about the package x that it works on.
TreeWork(p, x) ==
  /\ x \in SingleRoots
  /\ back[p] \in {"trees", "look", "fail", "done"}
  /\ back[p] # "trees" => R(p) \in Singles /\ x = Target(p)
  /\ pc[p] \in {"look", "place", "placed", "preserve", "swap"} => back[p] = "look"
  /\ pc[p] \in {"unmark", "preserve"} => tree[x] \in Whole
  /\ pc[p] = "placed" \/ back[p] = "done" => tree[x] = R(p)
  /\ pc[p] \in {"unmark", "preserve"} => spare[x] = None
  /\ pc[p] \in {"unmark", "preserve", "swap"} => x \in mark
  /\ pc[p] = "swap" => spare[x] \in Whole
  /\ pc[p] \in {"look", "place", "placed"} => x \notin mark

RunInv(p) ==
  /\ pc[p] # "out" => job[p] \in Job
  /\ pc[p] \in {"claim"} \cup Critical => at[p] \in Packages
  /\ pc[p] = "claim" => at[p] \in ClosureRoots /\ at[p] \in ToSet(left[p])
  /\ pc[p] \in {"trees", "lock"} \cup InTree => todo[p] \subseteq SingleRoots
  /\ pc[p] \in Critical => lock[at[p]] = p
  /\ pc[p] \in InClosure => ClosureWork(p, at[p])
  /\ pc[p] \in InTree => TreeWork(p, at[p])

InstallerInv == Typing /\ DiskInv /\ \A p \in Procs : RunInv(p)

-----------------------------------------------------------------------------
(* Sequences of packages, each once                                         *)

\* The first of what is left is one of its packages; it comes before the root;
\* the rest is all the others.
LEMMA RestIsOrdered ==
  ASSUME NEW S, NEW m, NEW l, Ordered(l, m, S), l # <<>>
  PROVE  /\ Head(l) \in S /\ Head(l) \in ToSet(l) /\ ToSet(l) \subseteq S
         /\ Ordered(Tail(l), m, S)
         /\ ToSet(Tail(l)) = ToSet(l) \ {Head(l)}
         /\ Tail(l) # <<>> => Head(l) # m /\ m \in ToSet(Tail(l))
         /\ Tail(l) = <<>> => Head(l) = m
         /\ m \in ToSet(l)
<1>1. /\ l \in Seq(S) /\ l[Len(l)] = m /\ Len(l) \in Nat /\ Len(l) >= 1
      /\ \A i, j \in 1..Len(l) : l[i] = l[j] => i = j
  BY DEF Ordered, IsInjective
<1>2. /\ Tail(l) \in Seq(S) /\ Len(Tail(l)) = Len(l) - 1 /\ Head(l) = l[1]
      /\ \A i \in 1..Len(Tail(l)) : Tail(l)[i] = l[i + 1]
  BY <1>1
<1>3. Ordered(Tail(l), m, S)
  <2>1. IsInjective(Tail(l))
    <3> SUFFICES ASSUME NEW i \in 1..Len(Tail(l)), NEW j \in 1..Len(Tail(l)), Tail(l)[i] = Tail(l)[j]
                 PROVE  i = j
      BY <1>2 DEF IsInjective
    <3>1. i + 1 \in 1..Len(l) /\ j + 1 \in 1..Len(l)
      BY <1>1, <1>2
    <3> QED
      BY <1>1, <1>2, <3>1
  <2>2. Tail(l) # <<>> => Tail(l)[Len(Tail(l))] = m
    <3> SUFFICES ASSUME Tail(l) # <<>> PROVE Tail(l)[Len(Tail(l))] = m
      OBVIOUS
    <3>1. Len(Tail(l)) \in 1..Len(Tail(l)) /\ Len(Tail(l)) + 1 = Len(l)
      BY <1>1, <1>2
    <3> QED
      BY <1>1, <1>2, <3>1
  <2> QED
    BY <1>2, <2>1, <2>2 DEF Ordered
<1>4. ToSet(l) = {l[i] : i \in 1..Len(l)} /\ ToSet(Tail(l)) = {Tail(l)[i] : i \in 1..Len(Tail(l))}
  <2>1. DOMAIN l = 1..Len(l) /\ DOMAIN Tail(l) = 1..Len(Tail(l))
    BY <1>1, <1>2, LenProperties
  <2> QED
    BY <2>1 DEF ToSet
<1>5. ToSet(Tail(l)) = ToSet(l) \ {Head(l)}
  <2>1. ASSUME NEW y \in ToSet(Tail(l)) PROVE y \in ToSet(l) /\ y # Head(l)
    <3>1. PICK i \in 1..Len(Tail(l)) : y = Tail(l)[i]
      BY <1>4
    <3>2. i + 1 \in 1..Len(l) /\ y = l[i + 1] /\ 1 \in 1..Len(l) /\ i + 1 # 1
      BY <1>1, <1>2, <3>1
    <3> QED
      BY <1>1, <1>2, <1>4, <3>2
  <2>2. ASSUME NEW y \in ToSet(l), y # Head(l) PROVE y \in ToSet(Tail(l))
    <3>1. PICK i \in 1..Len(l) : y = l[i]
      BY <1>4
    <3>2. i - 1 \in 1..Len(Tail(l)) /\ (i - 1) + 1 = i
      BY <1>1, <1>2, <3>1, <2>2
    <3> QED
      BY <1>2, <1>4, <3>1, <3>2
  <2> QED
    BY <2>1, <2>2
<1>6. 1 \in 1..Len(l) /\ Len(l) \in 1..Len(l)
  BY <1>1
<1>7. Head(l) \in S /\ Head(l) \in ToSet(l) /\ ToSet(l) \subseteq S /\ m \in ToSet(l)
  BY <1>1, <1>2, <1>4, <1>6
<1>8. Tail(l) # <<>> => Head(l) # m
  BY <1>1, <1>2, <1>6
<1>9. Tail(l) = <<>> => Head(l) = m
  BY <1>1, <1>2
<1>10. Tail(l) # <<>> => m \in ToSet(Tail(l))
  BY <1>5, <1>7, <1>8
<1> QED
  BY <1>3, <1>5, <1>7, <1>8, <1>9, <1>10

\* The orders of activation and of recovery end with the root.
LEMMA RootLast ==
  ASSUME NEW s \in Seq(Packages), s # <<>>, IsInjective(s)
  PROVE  /\ Ordered(Append(Tail(s), s[1]), s[1], ToSet(s))
         /\ ToSet(Append(Tail(s), s[1])) = ToSet(s)
         /\ Ordered(Reverse(s), s[1], ToSet(s))
         /\ ToSet(Reverse(s)) = ToSet(s)
         /\ s[1] \in ToSet(s) /\ ToSet(s) \subseteq Packages
<1> DEFINE N == Len(s)
           a == Append(Tail(s), s[1])
           b == Reverse(s)
<1>1. N \in Nat /\ N >= 1 /\ DOMAIN s = 1..N /\ s \in [1..N -> Packages] /\ Len(s) = N
  BY LenProperties, EmptySeq
<1> HIDE DEF N
<1>2. \A i, j \in 1..N : s[i] = s[j] => i = j
  BY <1>1 DEF IsInjective
<1>3. ToSet(s) = {s[i] : i \in 1..N}
  BY <1>1 DEF ToSet
<1>4. \A i \in 1..N : s[i] \in ToSet(s) /\ s[i] \in Packages
  BY <1>1, <1>3
<1>5. /\ a \in [1..N -> ToSet(s)]
      /\ \A i \in 1..N : a[i] = s[IF i = N THEN 1 ELSE i + 1]
  <2>1. /\ Tail(s) \in Seq(Packages) /\ Len(Tail(s)) = N - 1
        /\ \A i \in 1..Len(Tail(s)) : Tail(s)[i] = s[i + 1]
    BY <1>1, HeadTailProperties
  <2>2. s[1] \in Packages
    BY <1>1, <1>4
  <2>3. /\ a \in Seq(Packages) /\ Len(a) = Len(Tail(s)) + 1
        /\ \A i \in 1..Len(Tail(s)) : a[i] = Tail(s)[i]
        /\ a[Len(Tail(s)) + 1] = s[1]
    BY <2>1, <2>2, AppendProperties
  <2>4. ASSUME NEW i \in 1..N PROVE a[i] = s[IF i = N THEN 1 ELSE i + 1]
    <3>1. CASE i = N
      BY <1>1, <2>1, <2>3, <3>1
    <3>2. CASE i # N
      <4>1. i \in 1..Len(Tail(s))
        BY <1>1, <2>1, <3>2
      <4> QED
        BY <2>1, <2>3, <3>2, <4>1
    <3> QED
      BY <3>1, <3>2
  <2>5. \A i \in 1..N : (IF i = N THEN 1 ELSE i + 1) \in 1..N
    BY <1>1
  <2>6. a \in [1..N -> Packages]
    <3>1. Len(Tail(s)) + 1 = N
      BY <1>1, <2>1
    <3> QED
      BY <2>3, <3>1, LenProperties
  <2> QED
    BY <1>4, <2>4, <2>5, <2>6
<1>6. b = [i \in 1..N |-> s[(N - i) + 1]]
  BY <1>1 DEF Reverse
<1>7. \A i \in 1..N : (N - i) + 1 \in 1..N
  BY <1>1
<1>8. b \in [1..N -> ToSet(s)] /\ \A i \in 1..N : b[i] = s[(N - i) + 1]
  BY <1>4, <1>6, <1>7
<1> HIDE DEF a, b
<1>9. a \in Seq(ToSet(s)) /\ b \in Seq(ToSet(s)) /\ Len(a) = N /\ Len(b) = N
  <2>1. a \in Seq(ToSet(s)) /\ b \in Seq(ToSet(s))
    BY <1>1, <1>5, <1>8, IsASeq
  <2>2. DOMAIN a = 1..N /\ DOMAIN b = 1..N
    BY <1>5, <1>8
  <2> QED
    BY <1>1, <2>1, <2>2
<1>10. IsInjective(a)
  <2> SUFFICES ASSUME NEW i \in 1..N, NEW j \in 1..N, a[i] = a[j] PROVE i = j
    BY <1>5 DEF IsInjective
  <2> DEFINE n(k) == IF k = N THEN 1 ELSE k + 1
  <2>1. n(i) \in 1..N /\ n(j) \in 1..N /\ s[n(i)] = s[n(j)]
    BY <1>1, <1>5
  <2>2. n(i) = n(j)
    BY <1>2, <2>1
  <2> QED
    BY <1>1, <2>2
<1>11. IsInjective(b)
  <2> SUFFICES ASSUME NEW i \in 1..N, NEW j \in 1..N, b[i] = b[j] PROVE i = j
    BY <1>8 DEF IsInjective
  <2>1. (N - i) + 1 = (N - j) + 1
    BY <1>2, <1>7, <1>8
  <2> QED
    BY <1>1, <2>1
<1>12. a[N] = s[1] /\ b[N] = s[1]
  BY <1>1, <1>5, <1>8
<1>13. ToSet(a) = {a[i] : i \in 1..N} /\ ToSet(b) = {b[i] : i \in 1..N}
  BY <1>5, <1>8 DEF ToSet
<1>14. ToSet(a) = ToSet(s)
  <2>1. ASSUME NEW y \in ToSet(s) PROVE y \in ToSet(a)
    <3>1. PICK i \in 1..N : y = s[i]
      BY <1>3
    <3> DEFINE k == IF i = 1 THEN N ELSE i - 1
    <3>2. k \in 1..N /\ (IF k = N THEN 1 ELSE k + 1) = i
      BY <1>1
    <3> QED
      BY <1>5, <1>13, <3>1, <3>2
  <2> QED
    BY <1>5, <1>13, <2>1
<1>15. ToSet(b) = ToSet(s)
  <2>1. ASSUME NEW y \in ToSet(s) PROVE y \in ToSet(b)
    <3>1. PICK i \in 1..N : y = s[i]
      BY <1>3
    <3>2. (N - i) + 1 \in 1..N /\ (N - ((N - i) + 1)) + 1 = i
      BY <1>1
    <3> QED
      BY <1>8, <1>13, <3>1, <3>2
  <2> QED
    BY <1>8, <1>13, <2>1
<1>16. Ordered(a, s[1], ToSet(s)) /\ Ordered(b, s[1], ToSet(s))
  BY <1>9, <1>10, <1>11, <1>12 DEF Ordered
<1>17. s[1] \in ToSet(s) /\ ToSet(s) \subseteq Packages
  <2>1. 1 \in 1..N
    BY <1>1
  <2> QED
    BY <2>1, <1>3, <1>4
<1> QED
  BY <1>14, <1>15, <1>16, <1>17 DEF a, b, N

\* A release is its root and what its sequence of members names.
LEMMA Belongs ==
  ASSUME NEW r \in Releases
  PROVE  /\ Members[r] \in Seq(Packages) /\ Members[r] # <<>> /\ IsInjective(Members[r])
         /\ Root(r) = Members[r][1] /\ Root(r) \in Packages
         /\ Root(r) \in ToSet(Members[r]) /\ ToSet(Members[r]) \subseteq Packages
         /\ ToSet(Members[r]) \subseteq Group(Root(r))
         /\ Len(Members[r]) = 1 => ToSet(Members[r]) = {Root(r)}
<1>1. Members[r] \in Seq(Packages) /\ Members[r] # <<>> /\ IsInjective(Members[r])
  BY InstallerAssumption
<1>2. Root(r) = Members[r][1]
  BY DEF Root
<1>3. Root(r) \in ToSet(Members[r]) /\ ToSet(Members[r]) \subseteq Packages
  BY <1>1, <1>2, RootLast
<1>4. ToSet(Members[r]) \subseteq Group(Root(r))
  BY DEF Group
<1>5. Len(Members[r]) = 1 => ToSet(Members[r]) = {Root(r)}
  BY <1>1, <1>2 DEF ToSet
<1> QED
  BY <1>1, <1>2, <1>3, <1>4, <1>5

\* The groups of two roots have no package in common.
LEMMA GroupsApart ==
  ASSUME Separate, NEW m \in ClosureRoots \cup SingleRoots,
         NEW n \in ClosureRoots \cup SingleRoots, n # m
  PROVE  Group(m) \cap Group(n) = {} /\ m \in Group(m) /\ n \notin Group(m)
<1>1. ASSUME NEW y \in Group(m) \cap Group(n) PROVE FALSE
  <2>1. PICK r \in Releases, s \in Releases :
          Root(r) = m /\ Root(s) = n /\ y \in ToSet(Members[r]) /\ y \in ToSet(Members[s])
    BY <1>1 DEF Group
  <2> QED
    BY <2>1 DEF Separate
<1>2. \A k \in ClosureRoots \cup SingleRoots : k \in Group(k)
  BY Belongs DEF ClosureRoots, SingleRoots, Releases
<1> QED
  BY <1>1, <1>2

-----------------------------------------------------------------------------
(* A step on one root leaves the others alone                               *)

Roots == ClosureRoots \cup SingleRoots

\* What a step under the lock of root m may change.
Frame(m) ==
  /\ \A y \in Packages \ Group(m) : tree'[y] = tree[y] /\ (y \in acked' <=> y \in acked)
  /\ \A n \in Packages \ {m} :
       /\ closure'[n] = closure[n] /\ kept'[n] = kept[n] /\ spare'[n] = spare[n]
       /\ n \in mark' <=> n \in mark

\* Nothing changes below root n.
Same(n) ==
  /\ \A y \in Group(n) : tree'[y] = tree[y] /\ (y \in acked' <=> y \in acked)
  /\ closure'[n] = closure[n] /\ kept'[n] = kept[n] /\ spare'[n] = spare[n]
  /\ n \in mark' <=> n \in mark

LEMMA RootsArePackages ==
  /\ Roots \subseteq Packages
  /\ \A n \in Roots : n \in Group(n) /\ Group(n) \subseteq Packages
  /\ \A n : \A r \in Releases : Root(r) = n => ToSet(Members[r]) \subseteq Group(n)
<1>1. \A r \in Releases : Root(r) \in Packages /\ Root(r) \in ToSet(Members[r])
                          /\ ToSet(Members[r]) \subseteq Packages
  BY Belongs
<1> QED
  BY <1>1 DEF Roots, ClosureRoots, SingleRoots, Group, Releases

\* A package that is installed by itself is its whole group.
LEMMA Alone ==
  ASSUME Separate
  PROVE  /\ ClosureRoots \cap SingleRoots = {}
         /\ \A x \in SingleRoots : Group(x) = {x}
<1>1. \A r, s \in Releases : Root(r) = Root(s) => (r \in Singles <=> s \in Singles)
  BY Belongs DEF Separate
<1>2. ClosureRoots \cap SingleRoots = {}
  BY <1>1, InstallerAssumption DEF ClosureRoots, SingleRoots, Releases
<1>3. \A r \in Singles : ToSet(Members[r]) = {Root(r)}
  BY Belongs, InstallerAssumption DEF Releases
<1>4. ASSUME NEW x \in SingleRoots PROVE Group(x) = {x}
  <2>1. PICK r \in Singles : Root(r) = x
    BY DEF SingleRoots
  <2>2. \A s \in Releases : Root(s) = x => ToSet(Members[s]) = {x}
    BY <1>1, <1>3, <2>1 DEF Releases
  <2> QED
    BY <2>1, <2>2 DEF Group, Releases
<1> QED
  BY <1>2, <1>4

LEMMA OthersAreSame ==
  ASSUME Separate, NEW m \in Roots, Frame(m), NEW n \in Roots, n # m
  PROVE  Same(n)
<1>1. Group(m) \cap Group(n) = {}
  BY GroupsApart DEF Roots
<1> QED
  BY <1>1, RootsArePackages DEF Frame, Same

LEMMA ClosureDiskStays ==
  ASSUME NEW n \in ClosureRoots, Same(n), ClosureDisk(n)
  PROVE  ClosureDisk(n)'
<1> n \in Roots
  BY DEF Roots
<1>1. closure'[n] = closure[n] /\ kept'[n] = kept[n]
  BY DEF Same
<1>2. \A y \in Group(n) : tree'[y] = tree[y] /\ (y \in acked' <=> y \in acked)
  BY DEF Same
<1>3. n \in Group(n) /\ \A r \in Closures : Root(r) = n => ToSet(Members[r]) \subseteq Group(n)
  BY RootsArePackages DEF Releases
<1>4. VisibleAt(n)'
  BY <1>2, <1>3 DEF ClosureDisk, VisibleAt
<1>5. \A y \in Group(n) : Settled(n, y)' <=> Settled(n, y)
  BY <1>1, <1>2 DEF Settled
<1>6. CASE closure[n] = None
  BY <1>1, <1>4, <1>5, <1>6 DEF ClosureDisk
<1>7. CASE closure[n] # None
  <2> DEFINE c == closure[n]
  <2>1. Written(n, c)
    BY <1>7 DEF ClosureDisk
  <2>2. ToSet(c.members) \subseteq Group(n)
    BY <1>3, <2>1 DEF Written
  <2>3. Written(n, closure[n])'
    BY <1>1, <1>2, <2>1, <2>2 DEF Written
  <2>4. \A y \in ToSet(c.members) : Recoverable(n, y)' <=> Recoverable(n, y)
    BY <1>1, <1>2, <2>2 DEF Recoverable
  <2>5. c.phase = "committed" =>
          \E r \in Closures : c.members = Members[r] /\ \A y \in ToSet(Members[r]) : tree'[y] = r
    <3> SUFFICES ASSUME c.phase = "committed"
                 PROVE  \E r \in Closures : c.members = Members[r] /\ \A y \in ToSet(Members[r]) : tree'[y] = r
      OBVIOUS
    <3>1. PICK r \in Closures : c.members = Members[r] /\ \A y \in ToSet(Members[r]) : tree[y] = r
      BY <1>7 DEF ClosureDisk
    <3> QED
      BY <1>2, <2>2, <3>1
  <2>6. \A y \in Group(n) \ ToSet(c.members) :
          Settled(n, y)' /\ (c.phase = "prepared" => tree'[y] = c.was[y])
    BY <1>2, <1>5, <1>7 DEF ClosureDisk
  <2>7. c.phase = "prepared" => \A y \in ToSet(c.members) : Recoverable(n, y)'
    BY <1>7, <2>4 DEF ClosureDisk
  <2> HIDE DEF c
  <2> QED
    BY <1>1, <1>4, <1>7, <2>3, <2>5, <2>6, <2>7 DEF ClosureDisk, c
<1> QED
  BY <1>6, <1>7

LEMMA TreeDiskStays ==
  ASSUME NEW x \in SingleRoots, Same(x), TreeDisk(x)
  PROVE  TreeDisk(x)'
<1>1. x \in Roots
  BY DEF Roots
<1>2. x \in Group(x)
  BY <1>1, RootsArePackages
<1> QED
  BY <1>1, <1>2 DEF Same, TreeDisk

\* A process stays where it is and keeps its locks.
Undisturbed(q) ==
  /\ pc'[q] = pc[q] /\ job'[q] = job[q] /\ at'[q] = at[q]
  /\ todo'[q] = todo[q] /\ left'[q] = left[q] /\ back'[q] = back[q]
  /\ \A x \in Packages : lock[x] = q => lock'[x] = q

LEMMA ClosureWorkStays ==
  ASSUME NEW n \in ClosureRoots, Same(n), ClosureDisk(n),
         NEW q \in Procs, Undisturbed(q), job[q] \in Job, ClosureWork(q, n)
  PROVE  ClosureWork(q, n)'
<1> n \in Roots
  BY DEF Roots
<1>1. closure'[n] = closure[n] /\ kept'[n] = kept[n]
  BY DEF Same
<1>2. \A y \in Group(n) : tree'[y] = tree[y]
  BY DEF Same
<1>3. n \in Group(n) /\ \A r \in Releases : Root(r) = n => ToSet(Members[r]) \subseteq Group(n)
  BY RootsArePackages
<1>4. R(q) \in Releases /\ R(q)' = R(q) /\ Target(q)' = Target(q)
  BY DEF Job, R, Target, Undisturbed
<1>5. back[q] # "closures" => ToSet(Members[R(q)]) \subseteq Group(n)
  BY <1>3, <1>4 DEF ClosureWork, Target
<1>6. closure[n] # None => ToSet(closure[n].members) \subseteq Group(n)
  BY <1>3 DEF ClosureDisk, Written, Releases
<1>7. pc[q] \in {"deactivate", "activate"} => ToSet(left[q]) \subseteq Group(n)
  <2> SUFFICES ASSUME pc[q] \in {"deactivate", "activate"} PROVE ToSet(left[q]) \subseteq Group(n)
    OBVIOUS
  <2>1. Ordered(left[q], n, ToSet(Members[R(q)])) /\ ToSet(Members[R(q)]) \subseteq Group(n)
    BY <1>5 DEF ClosureWork
  <2>2. ToSet(left[q]) \subseteq ToSet(Members[R(q)])
    BY <2>1 DEF Ordered, ToSet
  <2> QED
    BY <2>1, <2>2
<1>8. \A y \in Group(n) : Ahead(n, y)' <=> Ahead(n, y)
  BY <1>1, <1>2 DEF Ahead
<1>9. pc[q] \in {"deactivate", "activate"} => back[q] # "closures"
  BY DEF ClosureWork
<1>10. /\ pc'[q] = pc[q] /\ back'[q] = back[q] /\ left'[q] = left[q]
  BY DEF Undisturbed
<1>11. /\ n \in ClosureRoots
       /\ back'[q] \in {"closures", "check", "fail", "done"}
       /\ back'[q] # "closures" => R(q)' \in Closures /\ n = Target(q)'
       /\ pc'[q] \in {"check", "deactivate", "activate"} => back'[q] = "check"
       /\ pc'[q] = "check" => closure'[n] = None
  BY <1>1, <1>4, <1>10 DEF ClosureWork
<1>12. pc'[q] \in {"deactivate", "activate"} =>
         /\ closure'[n] # None /\ closure'[n].phase = "prepared" /\ closure'[n].members = Members[R(q)']
         /\ Ordered(left'[q], n, ToSet(Members[R(q)']))
         /\ \A y \in ToSet(left'[q]) : Ahead(n, y)'
         /\ \A y \in ToSet(Members[R(q)']) \ ToSet(left'[q]) : tree'[y] = R(q)'
  BY <1>1, <1>2, <1>4, <1>5, <1>7, <1>8, <1>9, <1>10 DEF ClosureWork
<1>13. pc'[q] = "deactivate" =>
         /\ ToSet(left'[q]) = ToSet(Members[R(q)'])
         /\ \A y \in ToSet(left'[q]) : tree'[y] = closure'[n].was[y] /\ kept'[n][y] = None
  BY <1>1, <1>2, <1>4, <1>7, <1>10 DEF ClosureWork
<1>14. pc'[q] = "members" =>
         /\ closure'[n] # None
         /\ Ordered(left'[q], n, ToSet(closure'[n].members))
         /\ \A y \in ToSet(closure'[n].members) \ ToSet(left'[q]) :
              /\ kept'[n][y] = None
              /\ closure'[n].phase = "prepared" => tree'[y] = closure'[n].was[y]
         /\ closure'[n].phase = "prepared" /\ left'[q] # <<>> /\ Len(closure'[n].members) > 1 =>
              tree'[n] = None
  BY <1>1, <1>2, <1>3, <1>6, <1>10 DEF ClosureWork
<1>15. back'[q] = "done" =>
         /\ \A y \in ToSet(Members[R(q)']) : tree'[y] = R(q)'
         /\ closure'[n] # None => closure'[n].phase = "committed" /\ closure'[n].members = Members[R(q)']
  BY <1>1, <1>2, <1>4, <1>5, <1>10 DEF ClosureWork
<1> QED
  BY <1>11, <1>12, <1>13, <1>14, <1>15 DEF ClosureWork

LEMMA TreeWorkStays ==
  ASSUME NEW x \in SingleRoots, Same(x),
         NEW q \in Procs, Undisturbed(q), TreeWork(q, x)
  PROVE  TreeWork(q, x)'
<1>1. x \in Roots
  BY DEF Roots
<1>2. x \in Group(x)
  BY <1>1, RootsArePackages
<1>3. tree'[x] = tree[x] /\ spare'[x] = spare[x] /\ (x \in mark' <=> x \in mark)
  BY <1>1, <1>2 DEF Same
<1>4. R(q)' = R(q) /\ Target(q)' = Target(q)
  BY DEF R, Target, Undisturbed
<1> QED
  BY <1>3, <1>4 DEF TreeWork, Undisturbed

\* What is true of a process after somebody else's step.
LEMMA RunStays ==
  ASSUME NEW q \in Procs, RunInv(q), Undisturbed(q), DiskInv,
         pc[q] \in Critical => Same(at[q])
  PROVE  RunInv(q)'
<1>1. pc[q] \in InClosure => ClosureWork(q, at[q])'
  <2> SUFFICES ASSUME pc[q] \in InClosure PROVE ClosureWork(q, at[q])'
    OBVIOUS
  <2>1. ClosureWork(q, at[q]) /\ at[q] \in ClosureRoots /\ Same(at[q]) /\ job[q] \in Job
    BY DEF RunInv, ClosureWork, Critical, InClosure
  <2>2. ClosureDisk(at[q])
    BY <2>1 DEF DiskInv
  <2> DEFINE n == at[q]
  <2>3. n' = n
    BY DEF Undisturbed
  <2>4. \A k \in ClosureRoots : Same(k) /\ ClosureDisk(k) /\ ClosureWork(q, k) => ClosureWork(q, k)'
    BY <2>1, ClosureWorkStays
  <2>5. ClosureWork(q, at[q])' <=> \E k \in {at[q]} : ClosureWork(q, k)'
    BY <2>3 DEF ClosureWork, Ahead
  <2> QED
    BY <2>1, <2>2, <2>4, <2>5
<1>2. pc[q] \in InTree => TreeWork(q, at[q])'
  <2> SUFFICES ASSUME pc[q] \in InTree PROVE TreeWork(q, at[q])'
    OBVIOUS
  <2>1. TreeWork(q, at[q]) /\ at[q] \in SingleRoots /\ Same(at[q])
    BY DEF RunInv, TreeWork, Critical, InTree
  <2>2. \A k \in SingleRoots : Same(k) /\ TreeWork(q, k) => TreeWork(q, k)'
    BY <2>1, TreeWorkStays
  <2>3. TreeWork(q, at[q])' <=> \E k \in {at[q]} : TreeWork(q, k)'
    BY DEF TreeWork, Undisturbed
  <2> QED
    BY <2>1, <2>2, <2>3
<1>3. /\ pc'[q] = pc[q] /\ job'[q] = job[q] /\ at'[q] = at[q] /\ left'[q] = left[q] /\ todo'[q] = todo[q]
      /\ \A x \in Packages : lock[x] = q => lock'[x] = q
  BY DEF Undisturbed
<1>4. pc[q] \in Critical => at[q] \in Packages
  BY DEF RunInv
<1> QED
  BY <1>1, <1>2, <1>3, <1>4 DEF RunInv

\* A step of p keeps the invariant if it keeps what is below the root whose
\* lock p holds, and what p has established.
LEMMA OneStep ==
  ASSUME Separate, InstallerInv, NEW p \in Procs, Typing', RunInv(p)',
         \A q \in Procs \ {p} : Undisturbed(q),
         \A n \in Roots :
           \/ Same(n)
           \/ /\ lock[n] = p
              /\ n \in ClosureRoots => ClosureDisk(n)'
              /\ n \in SingleRoots => TreeDisk(n)',
         \A n \in Packages : closure'[n] # None => n \in ClosureRoots,
         mark' \subseteq SingleRoots,
         \A y \in Packages : (\A n \in Roots : y \notin Group(n)) =>
           tree'[y] = tree[y] /\ (y \in acked' <=> y \in acked)
  PROVE  InstallerInv'
<1>1. \A n \in ClosureRoots : ClosureDisk(n)'
  BY ClosureDiskStays DEF Roots, InstallerInv, DiskInv
<1>2. \A n \in SingleRoots : TreeDisk(n)'
  BY TreeDiskStays DEF Roots, InstallerInv, DiskInv
<1>3. \A x \in acked' : (\A m \in ClosureRoots \cup SingleRoots : x \notin Group(m)) => tree'[x] \in Whole
  BY DEF Roots, InstallerInv, DiskInv, Typing, TypeOK
<1>4. DiskInv'
  BY <1>1, <1>2, <1>3 DEF DiskInv
<1>5. \A q \in Procs \ {p} : RunInv(q)'
  <2> SUFFICES ASSUME NEW q \in Procs \ {p} PROVE RunInv(q)'
    OBVIOUS
  <2>1. RunInv(q) /\ DiskInv /\ Undisturbed(q)
    BY DEF InstallerInv
  <2>2. pc[q] \in Critical => at[q] \in Roots /\ lock[at[q]] = q
    BY <2>1 DEF RunInv, Critical, ClosureWork, TreeWork, Roots
  <2> QED
    BY <2>1, <2>2, RunStays
<1> QED
  BY <1>4, <1>5 DEF InstallerInv

\* A step that changes nothing on the disk.
LEMMA LocalStep ==
  ASSUME Separate, InstallerInv, NEW p \in Procs, Typing', RunInv(p)',
         \A q \in Procs \ {p} : Undisturbed(q), UNCHANGED <<disk, acked>>
  PROVE  InstallerInv'
<1>1. \A n \in Roots : Same(n)
  BY DEF Same, disk
<1>2. /\ \A n \in Packages : closure'[n] # None => n \in ClosureRoots
      /\ mark' \subseteq SingleRoots
  BY DEF InstallerInv, DiskInv, disk
<1>3. \A y \in Packages : tree'[y] = tree[y] /\ (y \in acked' <=> y \in acked)
  BY DEF disk
<1> QED
  BY <1>1, <1>2, <1>3, OneStep

\* A step below the root of a closure.
LEMMA ClosureStep ==
  ASSUME Separate, InstallerInv, NEW p \in Procs, Typing', RunInv(p)',
         \A q \in Procs \ {p} : Undisturbed(q),
         NEW m \in ClosureRoots, lock[m] = p, Frame(m), m \in mark' <=> m \in mark, ClosureDisk(m)'
  PROVE  InstallerInv'
<1>1. m \in Roots /\ m \notin SingleRoots
  BY Alone DEF Roots
<1>2. \A n \in Roots : n # m => Same(n)
  BY <1>1, OthersAreSame
<1>3. \A n \in Packages : closure'[n] # None => n \in ClosureRoots
  BY DEF InstallerInv, DiskInv, Frame
<1>4. mark' \subseteq SingleRoots
  BY <1>1 DEF InstallerInv, DiskInv, Frame, Typing, TypeOK
<1>5. \A y \in Packages : y \notin Group(m) => tree'[y] = tree[y] /\ (y \in acked' <=> y \in acked)
  BY DEF Frame
<1> QED
  BY <1>1, <1>2, <1>3, <1>4, <1>5, OneStep

\* A step on a package that is installed by itself.
LEMMA TreeStep ==
  ASSUME Separate, InstallerInv, NEW p \in Procs, Typing', RunInv(p)',
         \A q \in Procs \ {p} : Undisturbed(q),
         NEW x \in SingleRoots, lock[x] = p, Frame(x), closure'[x] = closure[x], TreeDisk(x)'
  PROVE  InstallerInv'
<1>1. x \in Roots /\ x \notin ClosureRoots
  BY Alone DEF Roots
<1>2. \A n \in Roots : n # x => Same(n)
  BY <1>1, OthersAreSame
<1>3. \A n \in Packages : closure'[n] # None => n \in ClosureRoots
  BY DEF InstallerInv, DiskInv, Frame
<1>4. mark' \subseteq SingleRoots
  BY <1>1 DEF InstallerInv, DiskInv, Frame, Typing, TypeOK
<1>5. \A y \in Packages : y \notin Group(x) => tree'[y] = tree[y] /\ (y \in acked' <=> y \in acked)
  BY DEF Frame
<1> QED
  BY <1>1, <1>2, <1>3, <1>4, <1>5, OneStep

-----------------------------------------------------------------------------
(* Steps that every installation takes                                      *)

\* What a process that works on a closure knows.
LEMMA ClosureHere ==
  ASSUME Separate, InstallerInv, NEW p \in Procs, pc[p] \in InClosure
  PROVE  /\ at[p] \in ClosureRoots /\ at[p] \in Packages /\ at[p] \in Roots
         /\ lock[at[p]] = p /\ at[p] \in Group(at[p]) /\ Group(at[p]) \subseteq Packages
         /\ ClosureDisk(at[p]) /\ ClosureWork(p, at[p])
         /\ job[p] \in Job /\ R(p) \in Releases
<1>1. RunInv(p) /\ pc[p] \in Critical /\ pc[p] # "out"
  BY DEF InstallerInv, Critical, InClosure
<1>2. ClosureWork(p, at[p]) /\ at[p] \in ClosureRoots /\ lock[at[p]] = p /\ job[p] \in Job
  BY <1>1 DEF RunInv, ClosureWork
<1>3. R(p) \in Releases
  BY <1>2 DEF R, Job
<1>4. ClosureDisk(at[p])
  BY <1>2 DEF InstallerInv, DiskInv
<1> QED
  BY <1>2, <1>3, <1>4, RootsArePackages DEF Roots

\* What a process that works on a package of its own knows.
LEMMA TreeHere ==
  ASSUME Separate, InstallerInv, NEW p \in Procs, pc[p] \in InTree
  PROVE  /\ at[p] \in SingleRoots /\ at[p] \in Packages /\ at[p] \in Roots
         /\ lock[at[p]] = p /\ Group(at[p]) = {at[p]}
         /\ TreeDisk(at[p]) /\ TreeWork(p, at[p])
         /\ job[p] \in Job /\ R(p) \in Releases /\ todo[p] \subseteq SingleRoots
<1>1. RunInv(p) /\ pc[p] \in Critical /\ pc[p] # "out"
  BY DEF InstallerInv, Critical, InTree
<1>2. /\ TreeWork(p, at[p]) /\ at[p] \in SingleRoots /\ lock[at[p]] = p /\ job[p] \in Job
      /\ todo[p] \subseteq SingleRoots
  BY <1>1 DEF RunInv, TreeWork
<1>3. R(p) \in Releases
  BY <1>2 DEF R, Job
<1>4. TreeDisk(at[p])
  BY <1>2 DEF InstallerInv, DiskInv
<1> QED
  BY <1>2, <1>3, <1>4, RootsArePackages, Alone DEF Roots

\* What a marker says of its members.
LEMMA MarkerNames ==
  ASSUME NEW m \in ClosureRoots, NEW c, Written(m, c)
  PROVE  /\ c.members \in Seq(Packages) /\ c.members # <<>> /\ IsInjective(c.members)
         /\ c.members[1] = m /\ m \in ToSet(c.members)
         /\ ToSet(c.members) \subseteq Group(m) /\ ToSet(c.members) \subseteq Packages
         /\ Len(c.members) \in Nat
         /\ ~(Len(c.members) > 1) => ToSet(c.members) = {m}
         /\ c.had \subseteq ToSet(c.members)
         /\ \A y \in ToSet(c.members) : y \in c.had <=> c.was[y] # None
<1>1. PICK r \in Closures : Root(r) = m /\ c.members = Members[r]
  BY DEF Written
<1>2. r \in Releases
  BY DEF Releases
<1>3. /\ c.members \in Seq(Packages) /\ c.members # <<>> /\ IsInjective(c.members)
      /\ c.members[1] = m /\ m \in ToSet(c.members)
      /\ ToSet(c.members) \subseteq Group(m) /\ ToSet(c.members) \subseteq Packages
      /\ Len(c.members) = 1 => ToSet(c.members) = {m}
  BY <1>1, <1>2, Belongs
<1>4. Len(c.members) \in Nat /\ Len(c.members) # 0
  BY <1>3
<1>5. c.had = {y \in ToSet(c.members) : c.was[y] # None}
  BY DEF Written
<1>6. ~(Len(c.members) > 1) => Len(c.members) = 1
  <2>1. \A k \in Nat : k # 0 /\ ~(k > 1) => k = 1
    OBVIOUS
  <2> QED
    BY <1>4, <2>1
<1>7. c.had \subseteq ToSet(c.members) /\ \A y \in ToSet(c.members) : y \in c.had <=> c.was[y] # None
  BY <1>5
<1> QED
  BY <1>3, <1>4, <1>6, <1>7

\* Leaving, with the disk as it is, for whatever reason.
LEMMA ResetKept ==
  ASSUME Separate, InstallerInv, NEW p \in Procs, Reset(p), UNCHANGED <<disk, acked>>,
         faults' \in 0..MaxFaults
  PROVE  InstallerInv'
<1>1. Typing'
  <2>1. <<>> \in Seq(Packages) /\ {} \in SUBSET Packages /\ "out" \in Places
    BY DEF Places
  <2> QED
    BY <2>1 DEF InstallerInv, Typing, TypeOK, Reset, disk
<1>2. pc'[p] = "out"
  BY DEF Reset, InstallerInv, Typing
<1>3. RunInv(p)'
  BY <1>2 DEF RunInv, Critical, InClosure, InTree
<1>4. \A q \in Procs \ {p} : Undisturbed(q)
  BY InstallerAssumption DEF Reset, Undisturbed, InstallerInv, Typing, TypeOK
<1> QED
  BY <1>1, <1>3, <1>4, LocalStep

LEMMA FailKept ==
  ASSUME Separate, InstallerInv, NEW p \in Procs, Fail(p)
  PROVE  InstallerInv'
<1>1. faults' \in 0..MaxFaults
  BY DEF Fail, InstallerInv, Typing, TypeOK
<1> QED
  BY <1>1, ResetKept DEF Fail, disk

LEMMA CrashKept ==
  ASSUME Separate, InstallerInv, NEW p \in Procs, Crash(p)
  PROVE  InstallerInv'
<1>1. faults' \in 0..MaxFaults
  BY InstallerAssumption DEF Crash, InstallerInv, Typing, TypeOK
<1> QED
  BY <1>1, ResetKept DEF Crash, disk

\* Going on, with nothing else changed.
LEMMA PassKept ==
  ASSUME Separate, InstallerInv, NEW p \in Procs, NEW place \in Places, Pass(p, place), RunInv(p)'
  PROVE  InstallerInv'
<1>1. Typing'
  BY DEF InstallerInv, Typing, TypeOK, Pass, GoTo, disk
<1>2. \A q \in Procs \ {p} : Undisturbed(q)
  BY DEF Pass, GoTo, Undisturbed, InstallerInv, Typing
<1> QED
  BY <1>1, <1>2, LocalStep DEF Pass

LEMMA BeginKept ==
  ASSUME Separate, InstallerInv, NEW p \in Procs, NEW j \in Job, Begin(p, j)
  PROVE  InstallerInv'
<1> DEFINE T == {m \in Packages : closure[m] # None}
<1>1. T \subseteq Packages /\ todo' = [todo EXCEPT ![p] = T]
  BY DEF Begin
<1>2. job'[p] \in Job /\ pc'[p] = "closures"
  BY DEF Begin, InstallerInv, Typing, TypeOK
<1> HIDE DEF T
<1>3. Typing'
  <2>1. "closures" \in Places
    BY DEF Places
  <2> QED
    BY <1>1, <2>1 DEF InstallerInv, Typing, TypeOK, Begin, disk
<1>4. RunInv(p)'
  BY <1>2 DEF RunInv, Critical, InClosure, InTree
<1>5. \A q \in Procs \ {p} : Undisturbed(q)
  BY <1>1 DEF Begin, Undisturbed, InstallerInv, Typing, TypeOK
<1> QED
  BY <1>3, <1>4, <1>5, LocalStep DEF Begin

LEMMA PickClosureKept ==
  ASSUME Separate, InstallerInv, NEW p \in Procs, PickClosure(p)
  PROVE  InstallerInv'
<1>1. PICK m \in todo[p] :
        IF closure[m] = None THEN Fail(p)
        ELSE /\ todo' = [todo EXCEPT ![p] = @ \ {m}]
             /\ at' = [at EXCEPT ![p] = m]
             /\ left' = [left EXCEPT ![p] = closure[m].members]
             /\ pc' = [pc EXCEPT ![p] = "claim"]
             /\ UNCHANGED <<disk, lock, job, back, acked, faults>>
  BY DEF PickClosure
<1>2. CASE closure[m] = None
  BY <1>1, <1>2, FailKept
<1>3. CASE closure[m] # None
  <2>1. m \in Packages /\ m \in ClosureRoots
    BY <1>3 DEF InstallerInv, DiskInv, Typing, TypeOK
  <2>2. Written(m, closure[m])
    BY <1>3, <2>1 DEF InstallerInv, DiskInv, ClosureDisk
  <2>3. closure[m].members \in Seq(Packages) /\ m \in ToSet(closure[m].members)
    BY <2>1, <2>2, MarkerNames
  <2>4. Typing'
    <3>1. "claim" \in Places
      BY DEF Places
    <3>2. todo' \in [Procs -> SUBSET Packages]
      <4> DEFINE T == todo[p] \ {m}
      <4>1. T \in SUBSET Packages /\ todo' = [todo EXCEPT ![p] = T]
        BY <1>1, <1>3 DEF InstallerInv, Typing, TypeOK
      <4> HIDE DEF T
      <4> QED
        BY <4>1 DEF InstallerInv, Typing, TypeOK
    <3>4. left' \in [Procs -> Seq(Packages)]
      BY <1>1, <1>3, <2>3 DEF InstallerInv, Typing, TypeOK
    <3>3. at' \in [Procs -> Packages \cup {None}]
      BY <1>1, <1>3, <2>1 DEF InstallerInv, Typing, TypeOK
    <3>5. pc' \in [Procs -> Places]
      BY <1>1, <1>3, <3>1 DEF InstallerInv, Typing
    <3> QED
      BY <1>1, <1>3, <3>2, <3>3, <3>4, <3>5 DEF InstallerInv, Typing, TypeOK, disk
  <2>5. RunInv(p)'
    <3>1. /\ pc'[p] = "claim" /\ at'[p] = m /\ left'[p] = closure[m].members /\ job'[p] = job[p]
          /\ pc[p] = "closures"
      BY <1>1, <1>3 DEF InstallerInv, Typing, TypeOK, PickClosure, Doing
    <3>2. job[p] \in Job
      BY <3>1 DEF InstallerInv, RunInv
    <3> QED
      BY <2>1, <2>3, <3>1, <3>2 DEF RunInv, Critical, InClosure, InTree, ClosureRoots
  <2>6. \A q \in Procs \ {p} : Undisturbed(q)
    BY <1>1, <1>3 DEF Undisturbed, InstallerInv, Typing, TypeOK
  <2> QED
    BY <1>1, <1>3, <2>4, <2>5, <2>6, LocalStep
<1> QED
  BY <1>2, <1>3

LEMMA LockKept ==
  ASSUME Typing, NEW p \in Procs, NEW S, S \subseteq Packages, Free(p, S), Lock(p, S)
  PROVE  /\ lock' \in [Packages -> Procs \cup {None}]
         /\ \A x \in S : lock'[x] = p
         /\ \A q \in Procs \ {p} : \A x \in Packages : lock[x] = q => lock'[x] = q
BY InstallerAssumption DEF Typing, TypeOK, Free, Lock

LEMMA ClaimClosureKept ==
  ASSUME Separate, InstallerInv, NEW p \in Procs, ClaimClosure(p)
  PROVE  InstallerInv'
<1>1. CASE ~Free(p, ToSet(left[p]))
  BY <1>1, FailKept DEF ClaimClosure
<1>2. CASE Free(p, ToSet(left[p]))
  <2>1. /\ RunInv(p) /\ pc[p] = "claim"
    BY DEF InstallerInv, ClaimClosure, Doing
  <2>2. at[p] \in ClosureRoots /\ at[p] \in ToSet(left[p]) /\ job[p] \in Job /\ at[p] \in Packages
    BY <2>1 DEF RunInv
  <2>3. ToSet(left[p]) \subseteq Packages
    <3>1. left[p] \in Seq(Packages)
      BY DEF InstallerInv, Typing, TypeOK
    <3> QED
      BY <3>1 DEF ToSet
  <2>4. /\ lock' \in [Packages -> Procs \cup {None}] /\ lock'[at[p]] = p
        /\ \A q \in Procs \ {p} : \A x \in Packages : lock[x] = q => lock'[x] = q
    BY <1>2, <2>2, <2>3, LockKept DEF ClaimClosure, InstallerInv
  <2>5. /\ pc' = [pc EXCEPT ![p] = "undo"] /\ back' = [back EXCEPT ![p] = "closures"]
        /\ UNCHANGED <<disk, job, at, todo, left, acked, faults>>
    BY <1>2 DEF ClaimClosure
  <2>6. Typing'
    <3>1. "undo" \in Places
      BY DEF Places, Critical, InClosure
    <3> QED
      BY <2>4, <2>5, <3>1 DEF InstallerInv, Typing, TypeOK, disk
  <2>7. RunInv(p)'
    <3>1. pc'[p] = "undo" /\ back'[p] = "closures" /\ at'[p] = at[p] /\ job'[p] = job[p]
      BY <2>5 DEF InstallerInv, Typing
    <3>2. ClosureWork(p, at[p])'
      BY <2>2, <3>1 DEF ClosureWork, ClosureRoots
    <3> QED
      BY <2>2, <2>4, <3>1, <3>2 DEF RunInv, Critical, InClosure, InTree
  <2>8. \A q \in Procs \ {p} : Undisturbed(q)
    BY <2>4, <2>5 DEF Undisturbed, InstallerInv, Typing
  <2> QED
    BY <2>5, <2>6, <2>7, <2>8, LocalStep
<1> QED
  BY <1>1, <1>2

-----------------------------------------------------------------------------
(* Recovery of a closure                                                    *)

LEMMA UndoRootKept ==
  ASSUME Separate, InstallerInv, NEW p \in Procs, UndoRoot(p)
  PROVE  InstallerInv'
<1> PICK m : m = at[p]
  OBVIOUS
<1> PICK c : c = closure[m]
  OBVIOUS
<1>1. pc[p] = "undo" /\ c # None /\ pc[p] \in InClosure
  BY DEF UndoRoot, Doing, InClosure
<1>2. /\ m \in ClosureRoots /\ m \in Packages /\ lock[m] = p
      /\ m \in Group(m) /\ Group(m) \subseteq Packages
      /\ ClosureDisk(m) /\ ClosureWork(p, m) /\ job[p] \in Job
  BY <1>1, ClosureHere
<1>3. Written(m, c)
  BY <1>1, <1>2 DEF ClosureDisk
<1>4. CASE c.phase = "prepared" /\ tree[m] # None /\ (m \notin c.had \/ kept[m][m] # None)
  <2>1. RemoveTree(p, m)
    BY <1>4 DEF UndoRoot
  <2>2. tree' = [tree EXCEPT ![m] = Removed(tree[m])] /\ Removed(tree[m]) \in {Partial, None}
    BY <2>1 DEF RemoveTree, Removed
  <2>3. UNCHANGED <<closure, kept, mark, spare, lock, local, acked, faults>>
    BY <2>1 DEF RemoveTree
  <2>4. tree'[m] \in {Partial, None} /\ \A y \in Packages \ {m} : tree'[y] = tree[y]
    BY <2>2, <1>2 DEF InstallerInv, Typing, TypeOK
  <2>5. Typing'
    <3>1. Removed(tree[m]) \in Content
      BY <2>2 DEF Content
    <3> QED
      BY <2>2, <2>3, <3>1 DEF InstallerInv, Typing, TypeOK, local
  <2>6. VisibleAt(m)'
    BY <2>4, InstallerAssumption DEF VisibleAt, Releases
  <2>7. \A y \in ToSet(c.members) : Recoverable(m, y)'
    <3>1. \A y \in ToSet(c.members) : Recoverable(m, y)
      BY <1>1, <1>2, <1>4 DEF ClosureDisk
    <3>2. Recoverable(m, m)'
      BY <1>2, <1>3, <1>4, <2>3, <3>1, MarkerNames DEF Recoverable
    <3> QED
      BY <1>2, <1>3, <2>3, <2>4, <3>1, <3>2, MarkerNames DEF Recoverable
  <2>8. \A y \in Group(m) \ ToSet(c.members) : Settled(m, y)' /\ tree'[y] = c.was[y]
    BY <1>1, <1>2, <1>3, <1>4, <2>3, <2>4, MarkerNames DEF ClosureDisk, Settled
  <2>9. Written(m, closure[m])'
    BY <1>3, <2>3 DEF Written
  <2>10. ClosureDisk(m)'
    BY <1>1, <1>4, <2>3, <2>6, <2>7, <2>8, <2>9 DEF ClosureDisk
  <2>11. Frame(m)
    BY <1>2, <2>3, <2>4 DEF Frame
  <2>12. ClosureWork(p, m)'
    BY <1>1, <1>2, <1>4, <2>3 DEF ClosureWork, local, R, Target, ClosureRoots
  <2>13. RunInv(p)'
    BY <1>1, <1>2, <2>3, <2>12 DEF RunInv, local, InClosure, InTree, Critical
  <2>14. \A q \in Procs \ {p} : Undisturbed(q)
    BY <2>3 DEF Undisturbed, local
  <2> QED
    BY <1>2, <2>3, <2>5, <2>10, <2>11, <2>13, <2>14, ClosureStep
<1>5. CASE ~(c.phase = "prepared" /\ tree[m] # None /\ (m \notin c.had \/ kept[m][m] # None))
  <2> DEFINE l == Reverse(c.members)
  <2>1. /\ left' = [left EXCEPT ![p] = l] /\ pc' = [pc EXCEPT ![p] = "members"]
        /\ UNCHANGED <<disk, lock, job, at, todo, back, acked, faults>>
    BY <1>5 DEF UndoRoot
  <2>2. Ordered(l, m, ToSet(c.members)) /\ ToSet(l) = ToSet(c.members) /\ ToSet(c.members) \subseteq Packages
    BY <1>2, <1>3, MarkerNames, RootLast
  <2>3. l \in Seq(Packages)
    BY <2>2 DEF Ordered
  <2> HIDE DEF l
  <2>4. Typing'
    <3>1. "members" \in Places
      BY DEF Places, Critical, InClosure
    <3> QED
      BY <2>1, <2>3, <3>1 DEF InstallerInv, Typing, TypeOK, disk
  <2>5. /\ pc'[p] = "members" /\ left'[p] = l /\ at'[p] = m /\ job'[p] = job[p] /\ back'[p] = back[p]
        /\ UNCHANGED <<disk, lock>>
    BY <2>1 DEF InstallerInv, Typing, TypeOK
  <2>6. c.phase = "prepared" /\ Len(c.members) > 1 => tree[m] = None
    <3> SUFFICES ASSUME c.phase = "prepared", Len(c.members) > 1 PROVE tree[m] = None
      OBVIOUS
    <3>1. c.was[m] = None
      BY <1>3 DEF Written
    <3>2. m \notin c.had
      BY <1>2, <1>3, <3>1, MarkerNames
    <3> QED
      BY <1>5, <3>2
  <2>7. ClosureWork(p, m)'
    BY <1>1, <1>2, <2>2, <2>5, <2>6 DEF ClosureWork, disk, R, Target, ClosureRoots
  <2>8. RunInv(p)'
    BY <1>1, <1>2, <2>5, <2>7 DEF RunInv, InClosure, InTree, Critical
  <2>9. \A q \in Procs \ {p} : Undisturbed(q)
    BY <2>1 DEF Undisturbed, InstallerInv, Typing, TypeOK
  <2> QED
    BY <2>1, <2>4, <2>8, <2>9, LocalStep
<1> QED
  BY <1>4, <1>5

\* The next member, when nothing changes on the disk.
LEMMA AdvanceKept ==
  ASSUME Separate, InstallerInv, NEW p \in Procs, pc[p] = "members", left[p] # <<>>,
         Advance(p), UNCHANGED <<disk, lock, acked, faults>>,
         kept[at[p]][Head(left[p])] = None,
         closure[at[p]].phase = "prepared" => tree[Head(left[p])] = closure[at[p]].was[Head(left[p])]
  PROVE  InstallerInv'
<1> PICK m : m = at[p]
  OBVIOUS
<1> PICK c : c = closure[m]
  OBVIOUS
<1> PICK x : x = Head(left[p])
  OBVIOUS
<1>1. pc[p] \in InClosure
  BY DEF InClosure
<1>2. /\ m \in ClosureRoots /\ m \in Packages /\ lock[m] = p
      /\ ClosureDisk(m) /\ ClosureWork(p, m) /\ job[p] \in Job
  BY <1>1, ClosureHere
<1>3. c # None /\ Ordered(left[p], m, ToSet(c.members))
  BY <1>2 DEF ClosureWork
<1>4. /\ Ordered(Tail(left[p]), m, ToSet(c.members)) /\ ToSet(Tail(left[p])) = ToSet(left[p]) \ {x}
  BY <1>3, RestIsOrdered
<1>5. Tail(left[p]) \in Seq(Packages)
  BY HeadTailProperties DEF InstallerInv, Typing, TypeOK
<1>6. left' = [left EXCEPT ![p] = Tail(left[p])] /\ UNCHANGED <<pc, job, at, todo, back>>
  BY DEF Advance
<1>7. Typing'
  BY <1>5, <1>6 DEF InstallerInv, Typing, TypeOK, disk
<1>8. /\ left'[p] = Tail(left[p]) /\ UNCHANGED <<pc, job, at, todo, back, disk, lock>>
  BY <1>6 DEF InstallerInv, Typing, TypeOK
<1>9. \A y \in ToSet(c.members) \ ToSet(left'[p]) :
        kept[m][y] = None /\ (c.phase = "prepared" => tree[y] = c.was[y])
  BY <1>2, <1>4, <1>8 DEF ClosureWork
<1>10. ClosureWork(p, m)'
  BY <1>2, <1>3, <1>4, <1>8, <1>9 DEF ClosureWork, disk, R, Target, ClosureRoots
<1>11. RunInv(p)'
  BY <1>1, <1>2, <1>8, <1>10 DEF RunInv, disk, InClosure, InTree, Critical
<1>12. \A q \in Procs \ {p} : Undisturbed(q)
  BY <1>6 DEF Undisturbed, InstallerInv, Typing, TypeOK
<1> QED
  BY <1>7, <1>11, <1>12, LocalStep

\* What a process knows that recovers the members of a closure.
LEMMA MembersHere ==
  ASSUME Separate, InstallerInv, NEW p \in Procs, pc[p] = "members",
         NEW m, m = at[p], NEW c, c = closure[m]
  PROVE  /\ m \in ClosureRoots /\ m \in Packages /\ lock[m] = p
         /\ m \in Group(m) /\ Group(m) \subseteq Packages
         /\ ClosureDisk(m) /\ ClosureWork(p, m) /\ job[p] \in Job
         /\ c # None /\ c.phase \in {"prepared", "committed"} /\ Written(m, c)
         /\ Ordered(left[p], m, ToSet(c.members))
         /\ ToSet(c.members) \subseteq Group(m)
<1>1. pc[p] \in InClosure
  BY DEF InClosure
<1>2. /\ m \in ClosureRoots /\ m \in Packages /\ lock[m] = p
      /\ m \in Group(m) /\ Group(m) \subseteq Packages
      /\ ClosureDisk(m) /\ ClosureWork(p, m) /\ job[p] \in Job
  BY <1>1, ClosureHere
<1>3. c # None /\ Ordered(left[p], m, ToSet(c.members))
  BY <1>2 DEF ClosureWork
<1>4. Written(m, c) /\ c.phase \in {"prepared", "committed"}
  BY <1>2, <1>3 DEF ClosureDisk, InstallerInv, Typing, TypeOK
<1> QED
  BY <1>2, <1>3, <1>4, MarkerNames

\* A member of a closure that was not committed.
LEMMA RestoreMemberKept ==
  ASSUME Separate, InstallerInv, NEW p \in Procs, pc[p] = "members", left[p] # <<>>,
         closure[at[p]].phase = "prepared", RestoreMember(p, at[p], Head(left[p]))
  PROVE  InstallerInv'
<1> PICK m : m = at[p]
  OBVIOUS
<1> PICK c : c = closure[m]
  OBVIOUS
<1> PICK x : x = Head(left[p])
  OBVIOUS
<1>1. pc[p] \in InClosure /\ c.phase = "prepared" /\ RestoreMember(p, m, x)
  BY DEF InClosure
<1>2. /\ m \in ClosureRoots /\ m \in Packages /\ lock[m] = p
      /\ m \in Group(m) /\ Group(m) \subseteq Packages
      /\ ClosureDisk(m) /\ ClosureWork(p, m) /\ job[p] \in Job
      /\ c # None /\ Written(m, c)
      /\ Ordered(left[p], m, ToSet(c.members))
      /\ ToSet(c.members) \subseteq Group(m)
  BY MembersHere
<1>3. /\ x \in ToSet(c.members) /\ x \in ToSet(left[p]) /\ x \in Group(m) /\ x \in Packages
      /\ Ordered(Tail(left[p]), m, ToSet(c.members)) /\ ToSet(Tail(left[p])) = ToSet(left[p]) \ {x}
      /\ x = m => Tail(left[p]) = <<>>
  <2> DEFINE S == ToSet(c.members)
  <2>1. Ordered(left[p], m, S) /\ S \subseteq Group(m) /\ Group(m) \subseteq Packages
    BY <1>2
  <2> HIDE DEF S
  <2>2. /\ x \in S /\ x \in ToSet(left[p])
        /\ Ordered(Tail(left[p]), m, S) /\ ToSet(Tail(left[p])) = ToSet(left[p]) \ {x}
        /\ x = m => Tail(left[p]) = <<>>
    BY <2>1, RestIsOrdered
  <2> QED
    BY <2>1, <2>2 DEF S
<1>4. \A y \in ToSet(c.members) : y \in c.had <=> c.was[y] # None
  BY <1>2, MarkerNames
<1>5. \A y \in ToSet(c.members) : Recoverable(m, y)
  BY <1>1, <1>2 DEF ClosureDisk
<1>6. \A y \in ToSet(c.members) \ ToSet(left[p]) : kept[m][y] = None /\ tree[y] = c.was[y]
  BY <1>1, <1>2 DEF ClosureWork
<1>7. x # m => tree[m] = None
  <2> SUFFICES ASSUME x # m PROVE tree[m] = None
    OBVIOUS
  <2>1. Len(c.members) > 1
    <3>1. ~(Len(c.members) > 1) => ToSet(c.members) = {m}
      BY <1>2, MarkerNames
    <3> QED
      BY <1>3, <3>1
  <2> QED
    BY <1>1, <1>2, <2>1 DEF ClosureWork
<1>8. \A y \in Group(m) \ ToSet(c.members) : Settled(m, y) /\ tree[y] = c.was[y]
  BY <1>1, <1>2 DEF ClosureDisk
<1>9. None \notin Releases /\ Partial \notin Releases
  BY InstallerAssumption
<1>10. CASE tree[x] # None /\ (x \in c.had => kept[m][x] # None) /\ RemoveTree(p, x)
  <2>1. tree' = [tree EXCEPT ![x] = Removed(tree[x])] /\ Removed(tree[x]) \in {Partial, None}
    BY <1>10 DEF RemoveTree, Removed
  <2>2. UNCHANGED <<closure, kept, mark, spare, lock, local, acked, faults>>
    BY <1>10 DEF RemoveTree
  <2>3. tree'[x] \in {Partial, None} /\ \A y \in Packages \ {x} : tree'[y] = tree[y]
    BY <1>3, <2>1 DEF InstallerInv, Typing, TypeOK
  <2>4. Typing'
    <3>1. Removed(tree[x]) \in Content
      BY <2>1 DEF Content
    <3> QED
      BY <2>1, <2>2, <3>1 DEF InstallerInv, Typing, TypeOK, local
  <2>5. VisibleAt(m)'
    BY <1>2, <1>7, <1>9, <2>3 DEF VisibleAt, Releases
  <2>6. \A y \in ToSet(c.members) : Recoverable(m, y)'
    <3>1. Recoverable(m, x)'
      BY <1>3, <1>5, <1>10, <2>2 DEF Recoverable
    <3> QED
      BY <1>2, <1>5, <2>2, <2>3, <3>1 DEF Recoverable
  <2>7. \A y \in Group(m) \ ToSet(c.members) : Settled(m, y)' /\ tree'[y] = c.was[y]
    BY <1>2, <1>3, <1>8, <2>2, <2>3 DEF Settled
  <2>8. Written(m, closure[m])'
    BY <1>2, <2>2 DEF Written
  <2>9. ClosureDisk(m)'
    BY <1>1, <1>2, <2>2, <2>5, <2>6, <2>7, <2>8 DEF ClosureDisk
  <2>10. Frame(m)
    BY <1>3, <2>2, <2>3 DEF Frame
  <2>11. tree[m] = None => tree'[m] = None
    BY <1>2, <1>10, <2>3
  <2>12. \A y \in ToSet(c.members) \ ToSet(left[p]) : kept'[m][y] = None /\ tree'[y] = c.was[y]
    BY <1>2, <1>3, <1>6, <2>2, <2>3
  <2>13. ClosureWork(p, m)'
    BY <1>1, <1>2, <2>2, <2>11, <2>12 DEF ClosureWork, local, R, Target, ClosureRoots
  <2>14. RunInv(p)'
    BY <1>1, <1>2, <2>2, <2>13 DEF RunInv, local, InClosure, InTree, Critical
  <2>15. \A q \in Procs \ {p} : Undisturbed(q)
    BY <2>2 DEF Undisturbed, local
  <2> QED
    BY <1>2, <2>2, <2>4, <2>9, <2>10, <2>14, <2>15, ClosureStep
<1>11. CASE /\ x \in c.had /\ kept[m][x] # None /\ tree[x] = None
            /\ tree' = [tree EXCEPT ![x] = kept[m][x]] /\ kept' = [kept EXCEPT ![m][x] = None]
            /\ Advance(p) /\ UNCHANGED <<closure, mark, spare, lock, acked, faults>>
  <2>1. c.was[x] = kept[m][x] /\ c.was[x] \in Whole
    BY <1>2, <1>3, <1>4, <1>5, <1>11 DEF Recoverable, Written
  <2>2. /\ tree'[x] = c.was[x] /\ \A y \in Packages \ {x} : tree'[y] = tree[y]
        /\ kept'[m][x] = None /\ \A y \in Packages \ {x} : kept'[m][y] = kept[m][y]
        /\ \A n \in Packages \ {m} : kept'[n] = kept[n]
    BY <1>2, <1>3, <1>11, <2>1 DEF InstallerInv, Typing, TypeOK
  <2>3. /\ left' = [left EXCEPT ![p] = Tail(left[p])]
        /\ UNCHANGED <<pc, job, at, todo, back, closure, mark, spare, lock, acked, faults>>
    BY <1>11 DEF Advance
  <2>4. left'[p] = Tail(left[p]) /\ Tail(left[p]) \in Seq(Packages)
    BY <2>3, HeadTailProperties DEF InstallerInv, Typing, TypeOK
  <2>5. Typing'
    <3>1. None \in Content /\ tree' \in [Packages -> Content]
      BY <1>11, <2>1 DEF InstallerInv, Typing, TypeOK, Content
    <3>2. kept' \in [Packages -> [Packages -> Content]]
      BY <1>11, <3>1 DEF InstallerInv, Typing, TypeOK
    <3> QED
      BY <2>3, <2>4, <3>1, <3>2 DEF InstallerInv, Typing, TypeOK
  <2>6. \A y \in ToSet(c.members) \ ToSet(left'[p]) : kept'[m][y] = None /\ tree'[y] = c.was[y]
    BY <1>2, <1>3, <1>6, <2>2, <2>4
  <2>7. \A y \in Group(m) \ ToSet(c.members) : Settled(m, y)' /\ tree'[y] = c.was[y]
    BY <1>2, <1>3, <1>8, <2>2, <2>3 DEF Settled
  <2>8. VisibleAt(m)'
    <3>1. CASE x # m
      BY <1>2, <1>7, <1>9, <2>2, <3>1 DEF VisibleAt, Releases
    <3>2. CASE x = m
      <4>1. ToSet(left'[p]) = {}
        BY <1>3, <2>4, <3>2 DEF ToSet
      <4>2. \A y \in Group(m) : tree'[y] = c.was[y]
        BY <2>6, <2>7, <4>1
      <4> QED
        BY <1>2, <4>2, RootsArePackages DEF VisibleAt, Written, Releases
    <3> QED
      BY <3>1, <3>2
  <2>9. \A y \in ToSet(c.members) : Recoverable(m, y)'
    <3>1. Recoverable(m, x)'
      BY <1>11, <2>2, <2>3 DEF Recoverable
    <3> QED
      BY <1>2, <1>5, <2>2, <2>3, <3>1 DEF Recoverable
  <2>10. Written(m, closure[m])'
    BY <1>2, <2>3 DEF Written
  <2>11. ClosureDisk(m)'
    BY <1>1, <1>2, <2>3, <2>7, <2>8, <2>9, <2>10 DEF ClosureDisk
  <2>12. Frame(m)
    BY <1>3, <2>2, <2>3 DEF Frame
  <2>13. left'[p] # <<>> /\ tree[m] = None => tree'[m] = None
    BY <1>2, <1>3, <2>2, <2>4
  <2>14. ClosureWork(p, m)'
    <3>1. Len(c.members) > 1 /\ left[p] # <<>> => tree[m] = None
      BY <1>1, <1>2 DEF ClosureWork
    <3>2. /\ Ordered(left'[p], m, ToSet(c.members))
          /\ Len(c.members) > 1 /\ left'[p] # <<>> => tree'[m] = None
      BY <1>3, <2>4, <2>13, <3>1
    <3>3. closure'[m] = c /\ pc'[p] = "members" /\ back'[p] = back[p]
      BY <2>3
    <3>4. /\ back[p] \in {"closures", "check", "fail", "done"} /\ back[p] # "done"
          /\ back[p] # "closures" => R(p)' \in Closures /\ m = Target(p)'
      BY <1>1, <1>2, <2>3 DEF ClosureWork, R, Target
    <3> QED
      BY <1>2, <2>6, <3>2, <3>3, <3>4 DEF ClosureWork, ClosureRoots
  <2>15. RunInv(p)'
    BY <1>1, <1>2, <2>3, <2>14 DEF RunInv, InClosure, InTree, Critical
  <2>16. \A q \in Procs \ {p} : Undisturbed(q)
    BY <2>3 DEF Undisturbed, InstallerInv, Typing, TypeOK
  <2> QED
    BY <1>2, <2>3, <2>5, <2>11, <2>12, <2>15, <2>16, ClosureStep
<1>12. CASE /\ x \in c.had <=> tree[x] # None
            /\ kept[m][x] = None
            /\ Advance(p) /\ UNCHANGED <<disk, lock, acked, faults>>
  <2>1. tree[x] = c.was[x]
    BY <1>3, <1>4, <1>5, <1>12 DEF Recoverable
  <2> QED
    BY <1>12, <2>1, AdvanceKept
<1>13. CASE Fail(p)
  BY <1>13, FailKept
<1> QED
  BY <1>1, <1>10, <1>11, <1>12, <1>13 DEF RestoreMember

\* A member of a closure that was committed.
LEMMA FinishMemberKept ==
  ASSUME Separate, InstallerInv, NEW p \in Procs, pc[p] = "members", left[p] # <<>>,
         closure[at[p]].phase # "prepared", FinishMember(p, at[p], Head(left[p]))
  PROVE  InstallerInv'
<1> PICK m : m = at[p]
  OBVIOUS
<1> PICK c : c = closure[m]
  OBVIOUS
<1> PICK x : x = Head(left[p])
  OBVIOUS
<1>1. pc[p] \in InClosure /\ FinishMember(p, m, x)
  BY DEF InClosure
<1>2. /\ m \in ClosureRoots /\ m \in Packages /\ lock[m] = p
      /\ m \in Group(m) /\ Group(m) \subseteq Packages
      /\ ClosureDisk(m) /\ ClosureWork(p, m) /\ job[p] \in Job
      /\ c # None /\ c.phase = "committed" /\ Written(m, c)
      /\ Ordered(left[p], m, ToSet(c.members))
      /\ ToSet(c.members) \subseteq Group(m)
  BY MembersHere
<1>3. x \in ToSet(c.members) /\ x \in ToSet(left[p]) /\ x \in Group(m) /\ x \in Packages
  <2> DEFINE S == ToSet(c.members)
  <2>1. Ordered(left[p], m, S) /\ S \subseteq Group(m) /\ Group(m) \subseteq Packages
    BY <1>2
  <2> HIDE DEF S
  <2>2. x \in S /\ x \in ToSet(left[p])
    BY <2>1, RestIsOrdered
  <2> QED
    BY <2>1, <2>2 DEF S
<1>4. CASE tree[x] = None /\ Fail(p)
  BY <1>4, FailKept
<1>5. CASE /\ tree[x] # None /\ kept[m][x] # None
           /\ kept' = [kept EXCEPT ![m][x] = Removed(@)]
           /\ UNCHANGED <<tree, closure, mark, spare, lock, local, acked, faults>>
  <2>1. kept' = [kept EXCEPT ![m][x] = Removed(kept[m][x])] /\ Removed(kept[m][x]) \in Content
    BY <1>2, <1>3, <1>5 DEF Removed, Content, InstallerInv, Typing, TypeOK
  <2>2. /\ \A n \in Packages \ {m} : kept'[n] = kept[n]
        /\ \A y \in Packages \ {x} : kept'[m][y] = kept[m][y]
    BY <1>2, <1>3, <2>1 DEF InstallerInv, Typing, TypeOK
  <2>3. Typing'
    <3>1. kept' \in [Packages -> [Packages -> Content]]
      BY <2>1 DEF InstallerInv, Typing, TypeOK
    <3> QED
      BY <1>5, <3>1 DEF InstallerInv, Typing, TypeOK, local
  <2>4. ClosureDisk(m)'
    <3>1. VisibleAt(m)' /\ Written(m, closure[m])'
      BY <1>2, <1>5 DEF ClosureDisk, VisibleAt, Written
    <3>2. \A y \in Group(m) \ ToSet(c.members) : Settled(m, y)'
      BY <1>2, <1>3, <1>5, <2>2 DEF ClosureDisk, Settled
    <3>3. \E r \in Closures : c.members = Members[r] /\ \A y \in ToSet(Members[r]) : tree'[y] = r
      BY <1>2, <1>5 DEF ClosureDisk
    <3> QED
      BY <1>2, <1>5, <3>1, <3>2, <3>3 DEF ClosureDisk
  <2>5. Frame(m)
    BY <1>5, <2>2 DEF Frame
  <2>6. \A y \in ToSet(c.members) \ ToSet(left[p]) : kept'[m][y] = None
    BY <1>2, <1>3, <2>2 DEF ClosureWork
  <2>7. ClosureWork(p, m)'
    BY <1>2, <1>5, <2>6 DEF ClosureWork, local, R, Target, ClosureRoots
  <2>8. RunInv(p)'
    BY <1>1, <1>2, <1>5, <2>7 DEF RunInv, local, InClosure, InTree, Critical
  <2>9. \A q \in Procs \ {p} : Undisturbed(q)
    BY <1>5 DEF Undisturbed, local
  <2> QED
    BY <1>2, <1>5, <2>3, <2>4, <2>5, <2>8, <2>9, ClosureStep
<1>6. CASE tree[x] # None /\ kept[m][x] = None /\ Advance(p) /\ UNCHANGED <<disk, lock, acked, faults>>
  BY <1>2, <1>6, AdvanceKept
<1> QED
  BY <1>1, <1>4, <1>5, <1>6 DEF FinishMember

LEMMA UndoMemberKept ==
  ASSUME Separate, InstallerInv, NEW p \in Procs, UndoMember(p)
  PROVE  InstallerInv'
BY RestoreMemberKept, FinishMemberKept DEF UndoMember, Doing

\* With all members recovered the marker goes.
LEMMA UndoMarkerKept ==
  ASSUME Separate, InstallerInv, NEW p \in Procs, UndoMarker(p)
  PROVE  InstallerInv'
<1> PICK m : m = at[p]
  OBVIOUS
<1> PICK c : c = closure[m]
  OBVIOUS
<1>1. /\ pc[p] = "members" /\ left[p] = <<>> /\ pc[p] \in InClosure
      /\ closure' = [closure EXCEPT ![m] = None]
      /\ pc' = [pc EXCEPT ![p] = "undo"]
      /\ UNCHANGED <<job, at, todo, left, back, tree, kept, mark, spare, lock, acked, faults>>
  BY DEF UndoMarker, Doing, GoTo, InClosure
<1>2. /\ m \in ClosureRoots /\ m \in Packages /\ lock[m] = p
      /\ m \in Group(m) /\ Group(m) \subseteq Packages
      /\ ClosureDisk(m) /\ ClosureWork(p, m) /\ job[p] \in Job
      /\ c # None /\ c.phase \in {"prepared", "committed"} /\ Written(m, c)
      /\ ToSet(c.members) \subseteq Group(m)
  BY <1>1, MembersHere
<1>3. /\ closure'[m] = None /\ \A n \in Packages \ {m} : closure'[n] = closure[n]
      /\ pc'[p] = "undo"
  BY <1>1, <1>2 DEF InstallerInv, Typing, TypeOK
<1>4. Typing'
  <2>1. "undo" \in Places
    BY DEF Places, Critical, InClosure
  <2>2. closure' \in [Packages -> Transactions \cup {None}]
    BY <1>1 DEF InstallerInv, Typing
  <2>3. \A n \in Packages : closure'[n] # None => closure'[n].phase \in {"prepared", "committed"}
    BY <1>3 DEF InstallerInv, Typing, TypeOK
  <2> QED
    BY <1>1, <2>1, <2>2, <2>3 DEF InstallerInv, Typing, TypeOK
<1>5. ToSet(left[p]) = {}
  BY <1>1 DEF ToSet
<1>6. \A y \in ToSet(c.members) : tree[y] \in Whole \cup {None} /\ (y \in acked => tree[y] \in Whole)
  <2>1. CASE c.phase = "prepared"
    BY <1>1, <1>2, <1>5, <2>1 DEF ClosureWork, Written
  <2>2. CASE c.phase = "committed"
    <3>1. PICK r \in Closures : c.members = Members[r] /\ \A y \in ToSet(Members[r]) : tree[y] = r
      BY <1>2, <2>2 DEF ClosureDisk
    <3> QED
      BY <3>1 DEF Whole, Releases
  <2> QED
    BY <1>2, <2>1, <2>2
<1>7. \A y \in ToSet(c.members) : kept[m][y] = None
  BY <1>1, <1>2, <1>5 DEF ClosureWork
<1>8. \A y \in Group(m) : Settled(m, y)
  BY <1>2, <1>6, <1>7 DEF ClosureDisk, Settled
<1>9. ClosureDisk(m)'
  BY <1>1, <1>2, <1>3, <1>8 DEF ClosureDisk, VisibleAt, Settled
<1>10. Frame(m)
  BY <1>1, <1>3 DEF Frame
<1>11. back[p] = "done" => \A y \in ToSet(Members[R(p)]) : tree[y] = R(p)
  BY <1>2 DEF ClosureWork
<1>12. ClosureWork(p, m)'
  BY <1>1, <1>2, <1>3, <1>11 DEF ClosureWork, R, Target, ClosureRoots
<1>13. RunInv(p)'
  BY <1>1, <1>2, <1>3, <1>12 DEF RunInv, InClosure, InTree, Critical
<1>14. \A q \in Procs \ {p} : Undisturbed(q)
  BY <1>1 DEF Undisturbed, InstallerInv, Typing
<1> QED
  BY <1>1, <1>2, <1>4, <1>9, <1>10, <1>13, <1>14, ClosureStep

-----------------------------------------------------------------------------
(* The end of an installation                                               *)

\* Success is reported of members that are there.
LEMMA DoneKept ==
  ASSUME Separate, InstallerInv, NEW p \in Procs, Done(p), NEW m \in Roots, lock[m] = p,
         ToSet(Members[R(p)]) \subseteq Group(m),
         m \in ClosureRoots => closure[m] = None,
         m \in SingleRoots => m \notin mark,
         \A y \in ToSet(Members[R(p)]) : tree[y] \in Whole
  PROVE  InstallerInv'
<1>1. /\ pc' = [pc EXCEPT ![p] = "out"] /\ job' = [job EXCEPT ![p] = None]
      /\ at' = [at EXCEPT ![p] = None] /\ todo' = [todo EXCEPT ![p] = {}]
      /\ left' = [left EXCEPT ![p] = <<>>] /\ back' = [back EXCEPT ![p] = "out"]
      /\ lock' = [x \in Packages |-> IF lock[x] = p THEN None ELSE lock[x]]
      /\ acked' = acked \cup ToSet(Members[R(p)])
      /\ UNCHANGED <<tree, closure, kept, mark, spare, faults>>
  BY DEF Done, Reset, disk
<1>2. m \in Packages /\ Group(m) \subseteq Packages
  BY RootsArePackages
<1>3. Typing'
  <2>1. <<>> \in Seq(Packages) /\ {} \in SUBSET Packages /\ "out" \in Places
    BY DEF Places
  <2> QED
    BY <1>1, <1>2, <2>1 DEF InstallerInv, Typing, TypeOK
<1>4. pc'[p] = "out"
  BY <1>1 DEF InstallerInv, Typing
<1>5. RunInv(p)'
  BY <1>4 DEF RunInv, Critical, InClosure, InTree
<1>6. \A q \in Procs \ {p} : Undisturbed(q)
  BY <1>1, InstallerAssumption DEF Undisturbed, InstallerInv, Typing, TypeOK
<1>7. Frame(m)
  BY <1>1 DEF Frame
<1>8. m \in ClosureRoots => ClosureDisk(m)'
  <2> SUFFICES ASSUME m \in ClosureRoots PROVE ClosureDisk(m)'
    OBVIOUS
  <2>1. ClosureDisk(m) /\ closure[m] = None
    BY DEF InstallerInv, DiskInv
  <2>2. \A y \in Group(m) : Settled(m, y)'
    BY <1>1, <2>1 DEF ClosureDisk, Settled
  <2> QED
    BY <1>1, <2>1, <2>2 DEF ClosureDisk, VisibleAt
<1>9. m \in SingleRoots => TreeDisk(m)'
  <2> SUFFICES ASSUME m \in SingleRoots PROVE TreeDisk(m)'
    OBVIOUS
  <2>1. TreeDisk(m)
    BY DEF InstallerInv, DiskInv
  <2> QED
    BY <1>1, <2>1 DEF TreeDisk
<1>10. CASE m \in ClosureRoots
  BY <1>1, <1>3, <1>5, <1>6, <1>7, <1>8, <1>10, ClosureStep
<1>11. CASE m \in SingleRoots
  BY <1>1, <1>3, <1>5, <1>6, <1>7, <1>9, <1>11, TreeStep
<1> QED
  BY <1>10, <1>11 DEF Roots

LEMMA UndoneKept ==
  ASSUME Separate, InstallerInv, NEW p \in Procs, Undone(p)
  PROVE  InstallerInv'
<1> PICK m : m = at[p]
  OBVIOUS
<1>1. pc[p] = "undo" /\ pc[p] \in InClosure /\ closure[m] = None
  BY DEF Undone, Doing, InClosure
<1>2. /\ m \in ClosureRoots /\ m \in Packages /\ m \in Roots /\ lock[m] = p
      /\ ClosureWork(p, m) /\ job[p] \in Job /\ R(p) \in Releases
  BY <1>1, ClosureHere
<1>3. CASE /\ back[p] = "closures"
           /\ lock' = [x \in Packages |-> IF lock[x] = p THEN None ELSE lock[x]]
           /\ GoTo(p, "closures") /\ UNCHANGED <<disk, acked, faults>>
  <2>1. Typing'
    <3>1. "closures" \in Places
      BY DEF Places
    <3> QED
      BY <1>3, <3>1 DEF InstallerInv, Typing, TypeOK, GoTo, disk
  <2>2. RunInv(p)'
    <3>1. pc'[p] = "closures" /\ job'[p] = job[p]
      BY <1>3 DEF InstallerInv, Typing, GoTo
    <3> QED
      BY <1>2, <3>1 DEF RunInv, Critical, InClosure, InTree
  <2>3. \A q \in Procs \ {p} : Undisturbed(q)
    BY <1>3 DEF Undisturbed, InstallerInv, Typing, GoTo
  <2> QED
    BY <1>3, <2>1, <2>2, <2>3, LocalStep
<1>4. CASE back[p] = "check" /\ Pass(p, "check")
  <2>1. pc'[p] = "check" /\ UNCHANGED <<disk, lock, job, at, todo, left, back>>
    BY <1>4 DEF InstallerInv, Typing, Pass, GoTo
  <2>2. ClosureWork(p, m)'
    BY <1>1, <1>2, <1>4, <2>1 DEF ClosureWork, R, Target, disk, ClosureRoots
  <2>3. RunInv(p)'
    BY <1>2, <2>1, <2>2 DEF RunInv, Critical, InClosure, InTree
  <2>4. "check" \in Places
    BY DEF Places, Critical, InClosure
  <2> QED
    BY <1>4, <2>3, <2>4, PassKept
<1>5. CASE back[p] = "fail" /\ Fail(p)
  BY <1>5, FailKept
<1>6. CASE back[p] = "done" /\ Done(p)
  <2>1. m = Target(p) /\ \A y \in ToSet(Members[R(p)]) : tree[y] \in Whole
    BY <1>1, <1>2, <1>6 DEF ClosureWork, Whole
  <2>2. ToSet(Members[R(p)]) \subseteq Group(m)
    BY <1>2, <2>1, Belongs DEF Target
  <2>3. m \notin SingleRoots
    BY <1>2, Alone
  <2> QED
    BY <1>1, <1>2, <1>6, <2>1, <2>2, <2>3, DoneKept
<1> QED
  BY <1>3, <1>4, <1>5, <1>6 DEF Undone

LEMMA TreesKept ==
  ASSUME Separate, InstallerInv, NEW p \in Procs, Trees(p)
  PROVE  InstallerInv'
<1> DEFINE T == {x \in mark : Module[x] = Module[Target(p)]}
<1>1. /\ T \subseteq Packages /\ T \subseteq SingleRoots /\ todo' = [todo EXCEPT ![p] = T]
      /\ pc[p] = "closures" /\ pc' = [pc EXCEPT ![p] = "trees"]
      /\ UNCHANGED <<disk, lock, job, at, left, back, acked, faults>>
  BY DEF Trees, Doing, InstallerInv, DiskInv, Typing, TypeOK
<1> HIDE DEF T
<1>2. pc'[p] = "trees" /\ todo'[p] = T /\ job'[p] = job[p]
  BY <1>1 DEF InstallerInv, Typing, TypeOK
<1>3. Typing'
  <2>1. "trees" \in Places
    BY DEF Places
  <2> QED
    BY <1>1, <2>1 DEF InstallerInv, Typing, TypeOK, disk
<1>4. RunInv(p)'
  <2>1. job[p] \in Job
    BY <1>1 DEF InstallerInv, RunInv
  <2>2. SingleRoots' = SingleRoots
    BY DEF SingleRoots
  <2> QED
    BY <1>1, <1>2, <2>1, <2>2 DEF RunInv, Critical, InClosure, InTree
<1>5. \A q \in Procs \ {p} : Undisturbed(q)
  BY <1>1 DEF Undisturbed, InstallerInv, Typing, TypeOK
<1> QED
  BY <1>1, <1>3, <1>4, <1>5, LocalStep

LEMMA FetchKept ==
  ASSUME Separate, InstallerInv, NEW p \in Procs, Fetch(p)
  PROVE  InstallerInv'
<1>1. CASE Fail(p)
  BY <1>1, FailKept
<1>2. CASE Pass(p, "lock")
  <2>1. pc[p] = "trees" /\ RunInv(p)
    BY DEF Fetch, Doing, InstallerInv
  <2>2. job[p] \in Job /\ todo[p] \subseteq SingleRoots
    BY <2>1 DEF RunInv
  <2>3. pc'[p] = "lock" /\ job'[p] = job[p] /\ todo'[p] = todo[p] /\ SingleRoots' = SingleRoots
    BY <1>2 DEF InstallerInv, Typing, Pass, GoTo, SingleRoots
  <2>4. RunInv(p)'
    BY <2>2, <2>3 DEF RunInv, Critical, InClosure, InTree
  <2>5. "lock" \in Places
    BY DEF Places
  <2> QED
    BY <1>2, <2>4, <2>5, PassKept
<1> QED
  BY <1>1, <1>2 DEF Fetch

LEMMA LockMembersKept ==
  ASSUME Separate, InstallerInv, NEW p \in Procs, LockMembers(p)
  PROVE  InstallerInv'
<1>1. pc[p] = "lock" /\ RunInv(p)
  BY DEF LockMembers, Doing, InstallerInv
<1>2. job[p] \in Job /\ R(p) \in Releases /\ todo[p] \subseteq SingleRoots
  BY <1>1 DEF RunInv, R, Job
<1> PICK m : m = Target(p)
  OBVIOUS
<1>3. m \in Packages /\ m \in ToSet(Members[R(p)]) /\ ToSet(Members[R(p)]) \subseteq Packages
  BY <1>2, Belongs DEF Target
<1>4. CASE ~Free(p, ToSet(Members[R(p)]))
  BY <1>4, FailKept DEF LockMembers
<1>5. CASE Free(p, ToSet(Members[R(p)]))
  <2>1. /\ lock' \in [Packages -> Procs \cup {None}] /\ lock'[m] = p
        /\ \A q \in Procs \ {p} : \A x \in Packages : lock[x] = q => lock'[x] = q
    BY <1>3, <1>5, LockKept DEF LockMembers, InstallerInv
  <2>2. /\ at' = [at EXCEPT ![p] = m]
        /\ IF R(p) \in Closures
           THEN pc' = [pc EXCEPT ![p] = "undo"] /\ back' = [back EXCEPT ![p] = "check"]
           ELSE pc' = [pc EXCEPT ![p] = "restore"] /\ back' = [back EXCEPT ![p] = "look"]
        /\ UNCHANGED <<disk, job, todo, left, acked, faults>>
    BY <1>5 DEF LockMembers
  <2>3. Typing'
    <3>1. "undo" \in Places /\ "restore" \in Places
      BY DEF Places, Critical, InClosure, InTree
    <3>2. /\ pc' \in [Procs -> Places]
          /\ back' \in [Procs -> {"out", "closures", "trees", "check", "look", "fail", "done"}]
      BY <2>2, <3>1 DEF InstallerInv, Typing
    <3>3. at' \in [Procs -> Packages \cup {None}]
      BY <1>3, <2>2 DEF InstallerInv, Typing, TypeOK
    <3> QED
      BY <2>1, <2>2, <3>2, <3>3 DEF InstallerInv, Typing, TypeOK, disk
  <2>4. at'[p] = m /\ job'[p] = job[p] /\ todo'[p] = todo[p]
    BY <2>2 DEF InstallerInv, Typing, TypeOK
  <2>5. R(p)' = R(p) /\ Target(p)' = m
    BY <2>4 DEF R, Target
  <2>6. RunInv(p)'
    <3>1. CASE R(p) \in Closures
      <4>1. pc'[p] = "undo" /\ back'[p] = "check"
        BY <2>2, <3>1 DEF InstallerInv, Typing
      <4>2. m \in ClosureRoots
        BY <3>1 DEF ClosureRoots, Target
      <4>3. ClosureWork(p, m)'
        BY <2>5, <3>1, <4>1, <4>2 DEF ClosureWork, ClosureRoots
      <4> QED
        BY <1>2, <1>3, <2>1, <2>4, <4>1, <4>3 DEF RunInv, Critical, InClosure, InTree
    <3>2. CASE R(p) \notin Closures
      <4>1. pc'[p] = "restore" /\ back'[p] = "look"
        BY <2>2, <3>2 DEF InstallerInv, Typing
      <4>2. m \in SingleRoots /\ R(p) \in Singles
        BY <1>2, <3>2 DEF SingleRoots, Target, Releases
      <4>3. TreeWork(p, m)'
        BY <2>5, <4>1, <4>2 DEF TreeWork, SingleRoots
      <4>4. SingleRoots' = SingleRoots
        BY DEF SingleRoots
      <4> QED
        BY <1>2, <1>3, <2>1, <2>4, <4>1, <4>3, <4>4 DEF RunInv, Critical, InClosure, InTree
    <3> QED
      BY <3>1, <3>2
  <2>7. \A q \in Procs \ {p} : Undisturbed(q)
    BY <2>1, <2>2 DEF Undisturbed, InstallerInv, Typing, TypeOK
  <2> QED
    BY <2>2, <2>3, <2>6, <2>7, LocalStep
<1> QED
  BY <1>4, <1>5

-----------------------------------------------------------------------------
(* Activation of a closure                                                  *)

\* From the locks to the marker nothing is under way.
LEMMA PrepareKept ==
  ASSUME Separate, InstallerInv, NEW p \in Procs, Prepare(p)
  PROVE  InstallerInv'
<1> PICK m : m = at[p]
  OBVIOUS
<1>1. pc[p] = "check" /\ pc[p] \in InClosure
  BY DEF Prepare, Doing, InClosure
<1>2. /\ m \in ClosureRoots /\ m \in Packages /\ lock[m] = p
      /\ m \in Group(m) /\ Group(m) \subseteq Packages
      /\ ClosureDisk(m) /\ ClosureWork(p, m) /\ job[p] \in Job /\ R(p) \in Releases
  BY <1>1, ClosureHere
<1>3. R(p) \in Closures /\ m = Target(p) /\ closure[m] = None /\ back[p] = "check"
  BY <1>1, <1>2 DEF ClosureWork
<1>4. CASE Fail(p)
  BY <1>4, FailKept
<1>5. CASE ~Fail(p)
  <2> PICK s : s = Members[R(p)]
    OBVIOUS
  <2> PICK l : l = Append(Tail(s), m)
    OBVIOUS
  <2> PICK c : c = Transaction(tree, R(p), "prepared")
    OBVIOUS
  <2>1. /\ ~Refused(p) /\ closure' = [closure EXCEPT ![m] = c]
        /\ left' = [left EXCEPT ![p] = l] /\ pc' = [pc EXCEPT ![p] = "deactivate"]
        /\ UNCHANGED <<tree, kept, mark, spare, lock, job, at, todo, back, acked, faults>>
    BY <1>3, <1>5 DEF Prepare
  <2>2. /\ s \in Seq(Packages) /\ s # <<>> /\ IsInjective(s) /\ m = s[1]
        /\ ToSet(s) \subseteq Group(m) /\ ToSet(s) \subseteq Packages
    BY <1>2, <1>3, Belongs DEF Target
  <2>3. Ordered(l, m, ToSet(s)) /\ ToSet(l) = ToSet(s)
    BY <2>2, RootLast
  <2>4. l \in Seq(Packages)
    BY <2>2, <2>3 DEF Ordered
  <2>5. /\ c.phase = "prepared" /\ c.members = s /\ c.was = tree
        /\ c.had = {y \in ToSet(s) : tree[y] # None}
    BY DEF Transaction
  <2>6. c \in Transactions
    <3>1. {y \in ToSet(s) : tree[y] # None} \in SUBSET Packages
      BY <2>2
    <3>2. tree \in [Packages -> Content]
      BY DEF InstallerInv, Typing, TypeOK
    <3> QED
      BY <2>2, <3>1, <3>2 DEF Transaction, Transactions
  <2>7. c # None
    BY <2>6, MarkerAssumption
  <2>8. /\ closure'[m] = c /\ \A n \in Packages \ {m} : closure'[n] = closure[n]
        /\ pc'[p] = "deactivate" /\ left'[p] = l
    BY <1>2, <2>1 DEF InstallerInv, Typing, TypeOK
  <2>9. Typing'
    <3>1. "deactivate" \in Places
      BY DEF Places, Critical, InClosure
    <3>2. closure' \in [Packages -> Transactions \cup {None}]
      BY <2>1, <2>6 DEF InstallerInv, Typing
    <3>3. \A n \in Packages : closure'[n] # None => closure'[n].phase \in {"prepared", "committed"}
      BY <2>5, <2>8 DEF InstallerInv, Typing, TypeOK
    <3>4. left' \in [Procs -> Seq(Packages)]
      BY <2>1, <2>4 DEF InstallerInv, Typing, TypeOK
    <3> QED
      BY <2>1, <3>1, <3>2, <3>3, <3>4 DEF InstallerInv, Typing, TypeOK
  <2>10. VisibleAt(m) /\ \A y \in Group(m) : Settled(m, y)
    BY <1>2, <1>3 DEF ClosureDisk
  <2>11. Written(m, closure[m])'
    <3>1. \E r \in Closures : Root(r) = m /\ c.members = Members[r]
      BY <1>3, <2>5 DEF Target
    <3>2. c.had = {y \in ToSet(c.members) : c.was[y] # None}
      BY <2>5
    <3>3. \A y \in Group(m) : c.was[y] \in Whole \cup {None}
      BY <2>5, <2>10 DEF Settled
    <3>4. \A t \in Closures : Root(t) = m /\ c.was[m] = t => \A y \in ToSet(Members[t]) : c.was[y] = t
      BY <2>5, <2>10 DEF VisibleAt
    <3>5. Len(c.members) > 1 => c.was[m] = None
      BY <1>3, <2>1, <2>5 DEF Refused
    <3>6. \A y \in ToSet(c.members) \cap acked : c.was[y] # None
      BY <2>2, <2>5, <2>10, InstallerAssumption DEF Settled, Whole
    <3> QED
      BY <2>1, <2>8, <3>1, <3>2, <3>3, <3>4, <3>5, <3>6 DEF Written
  <2>12. \A y \in ToSet(s) : Recoverable(m, y)'
    BY <2>1, <2>2, <2>5, <2>8, <2>10 DEF Recoverable, Settled
  <2>13. \A y \in Group(m) \ ToSet(s) : Settled(m, y)' /\ tree'[y] = c.was[y]
    BY <2>1, <2>5, <2>10 DEF Settled
  <2>14. ClosureDisk(m)'
    <3>1. VisibleAt(m)'
      BY <2>1, <2>10 DEF VisibleAt
    <3> QED
      BY <2>5, <2>7, <2>8, <2>11, <2>12, <2>13, <3>1 DEF ClosureDisk
  <2>15. Frame(m)
    BY <2>1, <2>8 DEF Frame
  <2>16. R(p)' = R(p) /\ Target(p)' = Target(p) /\ back'[p] = back[p] /\ at'[p] = m /\ job'[p] = job[p]
    BY <2>1 DEF R, Target
  <2>17. \A y \in ToSet(s) : tree'[y] = c.was[y] /\ kept'[m][y] = None /\ Ahead(m, y)'
    <3>1. \A y \in ToSet(s) : tree'[y] = c.was[y] /\ kept'[m][y] = None
      BY <2>1, <2>2, <2>5, <2>10 DEF Settled
    <3>2. \A y \in ToSet(s) : tree'[y] # None => y \in c.had
      BY <2>1, <2>5
    <3> QED
      BY <2>8, <3>1, <3>2 DEF Ahead
  <2>18. ClosureWork(p, m)'
    BY <1>2, <1>3, <2>3, <2>5, <2>7, <2>8, <2>16, <2>17 DEF ClosureWork, ClosureRoots
  <2>19. RunInv(p)'
    BY <1>2, <2>1, <2>8, <2>16, <2>18 DEF RunInv, InClosure, InTree, Critical
  <2>20. \A q \in Procs \ {p} : Undisturbed(q)
    BY <2>1 DEF Undisturbed, InstallerInv, Typing, TypeOK
  <2> QED
    BY <1>2, <2>1, <2>9, <2>14, <2>15, <2>19, <2>20, ClosureStep
<1> QED
  BY <1>4, <1>5

\* What a process knows that activates a closure.
LEMMA ActivationHere ==
  ASSUME Separate, InstallerInv, NEW p \in Procs, pc[p] \in {"deactivate", "activate"},
         NEW m, m = at[p], NEW c, c = closure[m], NEW S, S = ToSet(c.members)
  PROVE  /\ m \in ClosureRoots /\ m \in Packages /\ lock[m] = p
         /\ m \in Group(m) /\ Group(m) \subseteq Packages
         /\ ClosureDisk(m) /\ ClosureWork(p, m) /\ job[p] \in Job
         /\ R(p) \in Closures /\ m = Target(p) /\ back[p] = "check"
         /\ c # None /\ c.phase = "prepared" /\ c.members = Members[R(p)] /\ Written(m, c)
         /\ Ordered(left[p], m, S)
         /\ \A y \in ToSet(left[p]) : Ahead(m, y)
         /\ \A y \in S \ ToSet(left[p]) : tree[y] = R(p)
         /\ m \in S /\ S \subseteq Group(m)
         /\ \A y \in S : Recoverable(m, y) /\ (y \in c.had <=> c.was[y] # None)
         /\ \A y \in Group(m) \ S : Settled(m, y) /\ tree[y] = c.was[y]
<1>1. pc[p] \in InClosure
  BY DEF InClosure
<1>2. /\ m \in ClosureRoots /\ m \in Packages /\ lock[m] = p
      /\ m \in Group(m) /\ Group(m) \subseteq Packages
      /\ ClosureDisk(m) /\ ClosureWork(p, m) /\ job[p] \in Job
  BY <1>1, ClosureHere
<1>3. back[p] = "check"
  BY <1>2 DEF ClosureWork
<1>4. R(p) \in Closures /\ m = Target(p)
  BY <1>2, <1>3 DEF ClosureWork
<1>5. /\ c # None /\ c.phase = "prepared" /\ c.members = Members[R(p)]
      /\ Ordered(left[p], m, S)
      /\ \A y \in ToSet(left[p]) : Ahead(m, y)
      /\ \A y \in S \ ToSet(left[p]) : tree[y] = R(p)
  BY <1>2 DEF ClosureWork
<1>6. Written(m, c)
  BY <1>2, <1>5 DEF ClosureDisk
<1>7. /\ m \in S /\ S \subseteq Group(m)
      /\ \A y \in S : y \in c.had <=> c.was[y] # None
  BY <1>2, <1>6, MarkerNames
<1>8. /\ \A y \in S : Recoverable(m, y)
      /\ \A y \in Group(m) \ S : Settled(m, y) /\ tree[y] = c.was[y]
  BY <1>2, <1>5 DEF ClosureDisk
<1> QED
  BY <1>2, <1>3, <1>4, <1>5, <1>6, <1>7, <1>8

LEMMA RollbackKept ==
  ASSUME Separate, InstallerInv, NEW p \in Procs, pc[p] \in {"deactivate", "activate"}, Rollback(p)
  PROVE  InstallerInv'
<1> PICK m : m = at[p]
  OBVIOUS
<1>1. /\ m \in ClosureRoots /\ m \in Packages /\ lock[m] = p /\ job[p] \in Job
      /\ R(p) \in Closures /\ m = Target(p)
  BY ActivationHere
<1>2. /\ pc' = [pc EXCEPT ![p] = "undo"] /\ back' = [back EXCEPT ![p] = "fail"]
      /\ left' = [left EXCEPT ![p] = <<>>]
      /\ UNCHANGED <<disk, lock, job, at, todo, acked, faults>>
  BY DEF Rollback
<1>3. Typing'
  <2>1. "undo" \in Places /\ <<>> \in Seq(Packages)
    BY DEF Places, Critical, InClosure
  <2> QED
    BY <1>2, <2>1 DEF InstallerInv, Typing, TypeOK, disk
<1>4. /\ pc'[p] = "undo" /\ back'[p] = "fail" /\ R(p)' = R(p) /\ Target(p)' = Target(p)
      /\ UNCHANGED <<lock, job, at>>
  BY <1>2 DEF InstallerInv, Typing, TypeOK, R, Target
<1>5. ClosureWork(p, m)'
  BY <1>1, <1>4 DEF ClosureWork, ClosureRoots
<1>6. RunInv(p)'
  BY <1>1, <1>4, <1>5 DEF RunInv, InClosure, InTree, Critical
<1>7. \A q \in Procs \ {p} : Undisturbed(q)
  BY <1>2 DEF Undisturbed, InstallerInv, Typing, TypeOK
<1> QED
  BY <1>2, <1>3, <1>6, <1>7, LocalStep

LEMMA LapseKept ==
  ASSUME Separate, InstallerInv, NEW p \in Procs, Lapse(p)
  PROVE  InstallerInv'
BY RollbackKept DEF Lapse

\* A previous installation becomes the backup: the root's before any member is
\* activated, a dependency's while the root is not there.
LEMMA KeepPreviousKept ==
  ASSUME Separate, InstallerInv, NEW p \in Procs, pc[p] \in {"deactivate", "activate"},
         NEW x \in ToSet(closure[at[p]].members), x \in closure[at[p]].had,
         x \in ToSet(left[p]), kept[at[p]][x] = None,
         x # at[p] => tree[at[p]] = None,
         KeepPrevious(p, x, "activate")
  PROVE  InstallerInv'
<1> PICK m : m = at[p]
  OBVIOUS
<1> PICK c : c = closure[m]
  OBVIOUS
<1> PICK S : S = ToSet(c.members)
  OBVIOUS
<1>1. /\ m \in ClosureRoots /\ m \in Packages /\ lock[m] = p
      /\ m \in Group(m) /\ Group(m) \subseteq Packages
      /\ ClosureDisk(m) /\ ClosureWork(p, m) /\ job[p] \in Job
      /\ R(p) \in Closures /\ m = Target(p) /\ back[p] = "check"
      /\ c # None /\ c.phase = "prepared" /\ c.members = Members[R(p)] /\ Written(m, c)
      /\ Ordered(left[p], m, S)
      /\ \A y \in ToSet(left[p]) : Ahead(m, y)
      /\ \A y \in S \ ToSet(left[p]) : tree[y] = R(p)
      /\ m \in S /\ S \subseteq Group(m)
      /\ \A y \in S : Recoverable(m, y) /\ (y \in c.had <=> c.was[y] # None)
      /\ \A y \in Group(m) \ S : Settled(m, y) /\ tree[y] = c.was[y]
  BY ActivationHere
<1>2. x \in Packages /\ x \in Group(m) /\ c.was[x] = tree[x]
  BY <1>1 DEF Recoverable
<1>3. /\ kept' = [kept EXCEPT ![m][x] = tree[x]]
      /\ tree' = [tree EXCEPT ![x] = None]
      /\ pc' = [pc EXCEPT ![p] = "activate"]
      /\ UNCHANGED <<job, at, todo, left, back, closure, mark, spare, lock, acked, faults>>
  BY DEF KeepPrevious, GoTo
<1>4. /\ tree'[x] = None /\ \A y \in Packages \ {x} : tree'[y] = tree[y]
      /\ kept'[m][x] = c.was[x] /\ \A y \in Packages \ {x} : kept'[m][y] = kept[m][y]
      /\ \A n \in Packages \ {m} : kept'[n] = kept[n]
      /\ pc'[p] = "activate"
  BY <1>1, <1>2, <1>3 DEF InstallerInv, Typing, TypeOK
<1>5. Typing'
  <2>1. "activate" \in Places
    BY DEF Places, Critical, InClosure
  <2>2. tree' \in [Packages -> Content]
    BY <1>3 DEF InstallerInv, Typing, TypeOK, Content
  <2>3. tree[x] \in Content
    BY <1>2 DEF InstallerInv, Typing, TypeOK
  <2>4. kept' \in [Packages -> [Packages -> Content]]
    BY <1>3, <2>3 DEF InstallerInv, Typing, TypeOK
  <2> QED
    BY <1>3, <2>1, <2>2, <2>4 DEF InstallerInv, Typing, TypeOK
<1>6. tree'[m] = None
  BY <1>1, <1>4
<1>7. ClosureDisk(m)'
  <2>1. VisibleAt(m)'
    BY <1>6, InstallerAssumption DEF VisibleAt, Releases
  <2>2. \A y \in S : Recoverable(m, y)'
    <3>1. Recoverable(m, x)'
      BY <1>3, <1>4 DEF Recoverable
    <3> QED
      BY <1>1, <1>3, <1>4, <3>1 DEF Recoverable
  <2>3. \A y \in Group(m) \ S : Settled(m, y)' /\ tree'[y] = c.was[y]
    BY <1>1, <1>3, <1>4 DEF Settled
  <2>4. Written(m, closure[m])'
    BY <1>1, <1>3 DEF Written
  <2> QED
    BY <1>1, <1>3, <2>1, <2>2, <2>3, <2>4 DEF ClosureDisk
<1>8. Frame(m)
  BY <1>2, <1>3, <1>4 DEF Frame
<1>9. \A y \in ToSet(left[p]) : Ahead(m, y)'
  <2>1. ToSet(left[p]) \subseteq Packages
    <3>1. ToSet(left[p]) \subseteq S
      BY <1>1 DEF Ordered, ToSet
    <3> QED
      BY <1>1, <3>1
  <2>2. ASSUME NEW y \in ToSet(left[p]), y # x PROVE Ahead(m, y)'
    BY <1>1, <1>3, <1>4, <2>1, <2>2 DEF Ahead
  <2>3. Ahead(m, x)'
    BY <1>4 DEF Ahead
  <2> QED
    BY <2>2, <2>3
<1>10. R(p)' = R(p) /\ Target(p)' = Target(p)
  BY <1>3 DEF R, Target
<1>11. \A y \in S \ ToSet(left[p]) : tree'[y] = R(p)
  BY <1>1, <1>4
<1>12. ClosureWork(p, m)'
  BY <1>1, <1>3, <1>4, <1>9, <1>10, <1>11 DEF ClosureWork, ClosureRoots
<1>13. RunInv(p)'
  BY <1>1, <1>3, <1>4, <1>12 DEF RunInv, InClosure, InTree, Critical
<1>14. \A q \in Procs \ {p} : Undisturbed(q)
  BY <1>3 DEF Undisturbed, InstallerInv, Typing
<1> QED
  BY <1>1, <1>3, <1>5, <1>7, <1>8, <1>13, <1>14, ClosureStep

LEMMA DeactivateKept ==
  ASSUME Separate, InstallerInv, NEW p \in Procs, Deactivate(p)
  PROVE  InstallerInv'
<1> PICK m : m = at[p]
  OBVIOUS
<1> PICK c : c = closure[m]
  OBVIOUS
<1> PICK S : S = ToSet(c.members)
  OBVIOUS
<1>1. pc[p] = "deactivate"
  BY DEF Deactivate, Doing
<1>2. /\ m \in ClosureRoots /\ m \in Packages /\ lock[m] = p
      /\ ClosureWork(p, m) /\ job[p] \in Job /\ m \in S
      /\ c.members = Members[R(p)]
  BY <1>1, ActivationHere
<1>3. /\ ToSet(left[p]) = S
      /\ \A y \in ToSet(left[p]) : kept[m][y] = None
  BY <1>1, <1>2 DEF ClosureWork
<1>4. CASE m \in c.had /\ KeepPrevious(p, m, "activate")
  BY <1>1, <1>2, <1>3, <1>4, KeepPreviousKept
<1>5. CASE Pass(p, "activate")
  <2>1. /\ pc'[p] = "activate" /\ UNCHANGED <<disk, lock, job, at, todo, left, back>>
        /\ R(p)' = R(p) /\ Target(p)' = Target(p)
    BY <1>5 DEF InstallerInv, Typing, Pass, GoTo, R, Target
  <2>2. \A y : Ahead(m, y)' <=> Ahead(m, y)
    BY <2>1 DEF Ahead, disk
  <2>3. ClosureWork(p, m)'
    BY <1>1, <1>2, <2>1, <2>2 DEF ClosureWork, disk, ClosureRoots
  <2>4. RunInv(p)'
    BY <1>2, <2>1, <2>3 DEF RunInv, Critical, InClosure, InTree
  <2>5. "activate" \in Places
    BY DEF Places, Critical, InClosure
  <2> QED
    BY <1>5, <2>4, <2>5, PassKept
<1> QED
  BY <1>4, <1>5 DEF Deactivate

\* What comes before the root is activated while the root is not there.
LEMMA RootIsAway ==
  ASSUME Separate, InstallerInv, NEW p \in Procs, pc[p] = "activate", left[p] # <<>>,
         Head(left[p]) # at[p]
  PROVE  tree[at[p]] = None
<1> PICK m : m = at[p]
  OBVIOUS
<1> PICK c : c = closure[m]
  OBVIOUS
<1> PICK S : S = ToSet(c.members)
  OBVIOUS
<1>0. pc[p] \in {"deactivate", "activate"}
  OBVIOUS
<1>1. /\ m \in ClosureRoots /\ Written(m, c) /\ c.phase = "prepared"
      /\ m \in S
  BY <1>0, ActivationHere
<1>6. /\ \A y \in ToSet(left[p]) : Ahead(m, y)
      /\ \A y \in S : y \in c.had <=> c.was[y] # None
  BY <1>0, ActivationHere
<1>5. Ordered(left[p], m, S)
  BY <1>0, ActivationHere
<1>2. Head(left[p]) \in S /\ m \in ToSet(left[p])
  BY <1>5, RestIsOrdered
<1>3. ~(Len(c.members) > 1) => S = {m}
  BY <1>1, MarkerNames
<1>4. c.was[m] = None
  BY <1>1, <1>2, <1>3 DEF Written
<1> QED
  BY <1>1, <1>2, <1>4, <1>6 DEF Ahead

LEMMA MakeRoomKept ==
  ASSUME Separate, InstallerInv, NEW p \in Procs, MakeRoom(p)
  PROVE  InstallerInv'
<1> PICK m : m = at[p]
  OBVIOUS
<1> PICK c : c = closure[m]
  OBVIOUS
<1> PICK S : S = ToSet(c.members)
  OBVIOUS
<1> PICK x : x = Head(left[p])
  OBVIOUS
<1>1. /\ pc[p] = "activate" /\ left[p] # <<>> /\ x # m /\ x \in c.had /\ kept[m][x] = None
      /\ KeepPrevious(p, x, "activate")
  BY DEF MakeRoom, Doing
<1>2. Ordered(left[p], m, S) /\ left[p] # <<>>
  BY <1>1, ActivationHere
<1>3. x \in S /\ x \in ToSet(left[p])
  BY <1>2, RestIsOrdered
<1>4. tree[m] = None
  BY <1>1, RootIsAway
<1> QED
  BY <1>1, <1>3, <1>4, KeepPreviousKept

LEMMA ActivateKept ==
  ASSUME Separate, InstallerInv, NEW p \in Procs, Activate(p)
  PROVE  InstallerInv'
<1> PICK m : m = at[p]
  OBVIOUS
<1> PICK c : c = closure[m]
  OBVIOUS
<1> PICK S : S = ToSet(c.members)
  OBVIOUS
<1> PICK x : x = Head(left[p])
  OBVIOUS
<1>1. pc[p] = "activate" /\ left[p] # <<>> /\ (x \in c.had => kept[m][x] # None)
  BY DEF Activate, Doing
<1>2. CASE tree[x] # None
  BY <1>1, <1>2, RollbackKept DEF Activate
<1>3. CASE tree[x] = None
  <2>1. /\ tree' = [tree EXCEPT ![x] = R(p)]
        /\ left' = [left EXCEPT ![p] = Tail(left[p])]
        /\ UNCHANGED <<closure, kept, mark, spare, lock, pc, job, at, todo, back, acked, faults>>
    BY <1>3 DEF Activate
  <2>2. /\ m \in ClosureRoots /\ m \in Packages /\ lock[m] = p
        /\ m \in Group(m) /\ Group(m) \subseteq Packages
        /\ ClosureDisk(m) /\ ClosureWork(p, m) /\ job[p] \in Job
        /\ R(p) \in Closures /\ m = Target(p) /\ back[p] = "check"
        /\ c # None /\ c.phase = "prepared" /\ c.members = Members[R(p)] /\ Written(m, c)
        /\ Ordered(left[p], m, S)
        /\ \A y \in ToSet(left[p]) : Ahead(m, y)
        /\ \A y \in S \ ToSet(left[p]) : tree[y] = R(p)
        /\ S \subseteq Group(m)
        /\ \A y \in S : Recoverable(m, y) /\ (y \in c.had <=> c.was[y] # None)
        /\ \A y \in Group(m) \ S : Settled(m, y) /\ tree[y] = c.was[y]
    <3>1. pc[p] \in {"deactivate", "activate"}
      BY <1>1
    <3> QED
      BY <3>1, ActivationHere
  <2>3. /\ x \in S /\ x \in Packages /\ x \in Group(m) /\ ToSet(left[p]) \subseteq S
        /\ Ordered(Tail(left[p]), m, S) /\ ToSet(Tail(left[p])) = ToSet(left[p]) \ {x}
        /\ x = m => Tail(left[p]) = <<>>
    <3>1. /\ x \in S /\ ToSet(left[p]) \subseteq S
          /\ Ordered(Tail(left[p]), m, S) /\ ToSet(Tail(left[p])) = ToSet(left[p]) \ {x}
          /\ x = m => Tail(left[p]) = <<>>
      <4>1. Ordered(left[p], m, S) /\ left[p] # <<>>
        BY <1>1, <2>2
      <4> QED
        BY <4>1, RestIsOrdered
    <3> QED
      BY <2>2, <3>1
  <2>4. x # m => tree[m] = None
    BY <1>1, RootIsAway
  <2>5. /\ tree'[x] = R(p) /\ \A y \in Packages \ {x} : tree'[y] = tree[y]
        /\ left'[p] = Tail(left[p]) /\ Tail(left[p]) \in Seq(Packages)
    BY <1>1, <2>1, <2>3, HeadTailProperties DEF InstallerInv, Typing, TypeOK
  <2>6. Typing'
    <3>1. tree' \in [Packages -> Content]
      BY <2>1, <2>2 DEF InstallerInv, Typing, TypeOK, Content, Whole, Releases
    <3> QED
      BY <2>1, <2>5, <3>1 DEF InstallerInv, Typing, TypeOK
  <2>7. \A y \in S \ ToSet(left'[p]) : tree'[y] = R(p)
    BY <2>2, <2>3, <2>5
  <2>8. VisibleAt(m)'
    <3>1. CASE x # m
      BY <2>2, <2>4, <2>5, <3>1, InstallerAssumption DEF VisibleAt, Releases
    <3>2. CASE x = m
      <4>1. ToSet(left'[p]) = {}
        BY <2>3, <2>5, <3>2 DEF ToSet
      <4>2. \A y \in S : tree'[y] = R(p)
        BY <2>7, <4>1
      <4> QED
        BY <2>2, <2>5, <3>2, <4>2 DEF VisibleAt
    <3> QED
      BY <3>1, <3>2
  <2>9. ClosureDisk(m)'
    <3>1. \A y \in S : Recoverable(m, y)'
      <4>1. Recoverable(m, x)'
        BY <1>1, <2>1, <2>2, <2>3 DEF Recoverable
      <4> QED
        BY <2>1, <2>2, <2>5, <4>1 DEF Recoverable
    <3>2. \A y \in Group(m) \ S : Settled(m, y)' /\ tree'[y] = c.was[y]
      BY <2>1, <2>2, <2>3, <2>5 DEF Settled
    <3>3. Written(m, closure[m])'
      BY <2>1, <2>2 DEF Written
    <3> QED
      BY <2>1, <2>2, <2>8, <3>1, <3>2, <3>3 DEF ClosureDisk
  <2>10. Frame(m)
    BY <2>1, <2>3, <2>5 DEF Frame
  <2>11. \A y \in ToSet(left'[p]) : Ahead(m, y)'
    BY <2>1, <2>2, <2>3, <2>5 DEF Ahead
  <2>12. R(p)' = R(p) /\ Target(p)' = Target(p)
    BY <2>1 DEF R, Target
  <2>13. ClosureWork(p, m)'
    BY <1>1, <2>1, <2>2, <2>3, <2>5, <2>7, <2>11, <2>12 DEF ClosureWork, ClosureRoots
  <2>14. RunInv(p)'
    BY <1>1, <2>1, <2>2, <2>13 DEF RunInv, InClosure, InTree, Critical
  <2>15. \A q \in Procs \ {p} : Undisturbed(q)
    BY <2>1 DEF Undisturbed, InstallerInv, Typing, TypeOK
  <2> QED
    BY <2>1, <2>2, <2>6, <2>9, <2>10, <2>14, <2>15, ClosureStep
<1> QED
  BY <1>2, <1>3

LEMMA CommitKept ==
  ASSUME Separate, InstallerInv, NEW p \in Procs, Commit(p)
  PROVE  InstallerInv'
<1> PICK m : m = at[p]
  OBVIOUS
<1> PICK c : c = closure[m]
  OBVIOUS
<1> PICK S : S = ToSet(c.members)
  OBVIOUS
<1>0. PICK d : d = [c EXCEPT !.phase = "committed"]
  OBVIOUS
<1>1. /\ pc[p] = "activate" /\ left[p] = <<>>
      /\ closure' = [closure EXCEPT ![m] = d]
      /\ pc' = [pc EXCEPT ![p] = "undo"] /\ back' = [back EXCEPT ![p] = "done"]
      /\ UNCHANGED <<tree, kept, mark, spare, lock, job, at, todo, left, acked, faults>>
  BY <1>0 DEF Commit, Doing
<1>2. /\ m \in ClosureRoots /\ m \in Packages /\ lock[m] = p
      /\ ClosureDisk(m) /\ ClosureWork(p, m) /\ job[p] \in Job
      /\ R(p) \in Closures /\ m = Target(p)
      /\ c # None /\ c.phase = "prepared" /\ c.members = Members[R(p)] /\ Written(m, c)
      /\ \A y \in S \ ToSet(left[p]) : tree[y] = R(p)
      /\ \A y \in Group(m) \ S : Settled(m, y)
  <2>1. pc[p] \in {"deactivate", "activate"}
    BY <1>1
  <2> QED
    BY <2>1, ActivationHere
<1>3. c \in Transactions
  BY <1>2 DEF InstallerInv, Typing
<1>4. /\ d \in Transactions /\ d.phase = "committed"
      /\ d.members = c.members /\ d.had = c.had /\ d.was = c.was
  BY <1>0, <1>3 DEF Transactions
<1>5. d # None
  BY <1>4, MarkerAssumption
<1>6. /\ closure'[m] = d /\ \A n \in Packages \ {m} : closure'[n] = closure[n]
      /\ pc'[p] = "undo" /\ back'[p] = "done"
  BY <1>1, <1>2 DEF InstallerInv, Typing
<1>7. Typing'
  <2>1. "undo" \in Places
    BY DEF Places, Critical, InClosure
  <2>2. closure' \in [Packages -> Transactions \cup {None}]
    BY <1>1, <1>4 DEF InstallerInv, Typing
  <2>3. \A n \in Packages : closure'[n] # None => closure'[n].phase \in {"prepared", "committed"}
    BY <1>4, <1>6 DEF InstallerInv, Typing, TypeOK
  <2> QED
    BY <1>1, <2>1, <2>2, <2>3 DEF InstallerInv, Typing, TypeOK
<1>8. \A y \in S : tree[y] = R(p)
  <2>1. ToSet(left[p]) = {}
    BY <1>1 DEF ToSet
  <2> QED
    BY <1>2, <2>1
<1>9. ClosureDisk(m)'
  <2>1. VisibleAt(m)'
    BY <1>1, <1>2 DEF ClosureDisk, VisibleAt
  <2>2. Written(m, closure[m])'
    <3>a. \E r \in Closures : Root(r) = m /\ d.members = Members[r]
      BY <1>2, <1>4 DEF Written
    <3>b. d.had = {y \in ToSet(d.members) : d.was[y] # None}
      BY <1>2, <1>4 DEF Written
    <3>c. \A y \in Group(m) : d.was[y] \in Whole \cup {None}
      BY <1>2, <1>4 DEF Written
    <3>d. \A s \in Closures : Root(s) = m /\ d.was[m] = s => \A y \in ToSet(Members[s]) : d.was[y] = s
      <4>1. \A s \in Closures : Root(s) = m /\ c.was[m] = s => \A y \in ToSet(Members[s]) : c.was[y] = s
        BY <1>2 DEF Written
      <4>2. d.was = c.was
        BY <1>4
      <4> QED
        BY <4>1, <4>2
    <3>e. Len(d.members) > 1 => d.was[m] = None
      BY <1>2, <1>4 DEF Written
    <3>2. d.phase # "prepared"
      BY <1>4
    <3>3. closure'[m] = d
      BY <1>6
    <3> QED
      BY <3>a, <3>b, <3>c, <3>d, <3>e, <3>2, <3>3 DEF Written
  <2>3. \A y \in Group(m) \ S : Settled(m, y)'
    BY <1>1, <1>2 DEF Settled
  <2>4. \E r \in Closures : d.members = Members[r] /\ \A y \in ToSet(Members[r]) : tree'[y] = r
    BY <1>1, <1>2, <1>4, <1>8
  <2> QED
    BY <1>4, <1>5, <1>6, <2>1, <2>2, <2>3, <2>4 DEF ClosureDisk
<1>10. Frame(m)
  BY <1>1, <1>6 DEF Frame
<1>11. R(p)' = R(p) /\ Target(p)' = Target(p)
  BY <1>1 DEF R, Target
<1>12. ClosureWork(p, m)'
  <2>1. /\ m \in ClosureRoots' /\ R(p)' \in Closures /\ m = Target(p)'
        /\ closure'[m] # None /\ closure'[m].phase = "committed" /\ closure'[m].members = Members[R(p)']
    BY <1>2, <1>4, <1>5, <1>6, <1>11 DEF ClosureRoots
  <2>2. \A y \in ToSet(Members[R(p)']) : tree'[y] = R(p)'
    BY <1>1, <1>2, <1>8, <1>11
  <2> QED
    BY <1>6, <2>1, <2>2 DEF ClosureWork
<1>13. RunInv(p)'
  BY <1>1, <1>2, <1>6, <1>12 DEF RunInv, InClosure, InTree, Critical
<1>14. \A q \in Procs \ {p} : Undisturbed(q)
  BY <1>1 DEF Undisturbed, InstallerInv, Typing
<1> QED
  BY <1>1, <1>2, <1>7, <1>9, <1>10, <1>13, <1>14, ClosureStep

-----------------------------------------------------------------------------
(* Packages that are installed by themselves                                *)

LEMMA PickTreeKept ==
  ASSUME Separate, InstallerInv, NEW p \in Procs, PickTree(p)
  PROVE  InstallerInv'
<1>1. PICK x \in todo[p] :
        /\ todo' = [todo EXCEPT ![p] = @ \ {x}]
        /\ IF Free(p, {x})
           THEN /\ Lock(p, {x})
                /\ at' = [at EXCEPT ![p] = x] /\ back' = [back EXCEPT ![p] = "trees"]
                /\ pc' = [pc EXCEPT ![p] = "restore"]
           ELSE UNCHANGED <<lock, at, back, pc>>
  BY DEF PickTree
<1>2. pc[p] = "trees" /\ UNCHANGED <<disk, job, left, acked, faults>>
  BY DEF PickTree, Doing
<1>3. job[p] \in Job /\ todo[p] \subseteq SingleRoots /\ todo[p] \subseteq Packages
  BY <1>2 DEF InstallerInv, RunInv, Typing, TypeOK
<1>4. x \in SingleRoots /\ x \in Packages
  BY <1>3
<1> PICK T : T = todo[p] \ {x}
  OBVIOUS
<1>5. T \subseteq SingleRoots /\ T \in SUBSET Packages /\ todo' = [todo EXCEPT ![p] = T]
  BY <1>1, <1>3
<1>6. todo' \in [Procs -> SUBSET Packages] /\ todo'[p] = T /\ \A q \in Procs \ {p} : todo'[q] = todo[q]
  BY <1>5 DEF InstallerInv, Typing, TypeOK
<1>7. SingleRoots' = SingleRoots
  BY DEF SingleRoots
<1>8. CASE Free(p, {x})
  <2>1. /\ lock' \in [Packages -> Procs \cup {None}] /\ lock'[x] = p
        /\ \A q \in Procs \ {p} : \A y \in Packages : lock[y] = q => lock'[y] = q
    BY <1>1, <1>4, <1>8, LockKept DEF InstallerInv
  <2>2. /\ at' = [at EXCEPT ![p] = x] /\ back' = [back EXCEPT ![p] = "trees"]
        /\ pc' = [pc EXCEPT ![p] = "restore"]
    BY <1>1, <1>8
  <2>3. Typing'
    <3>1. "restore" \in Places
      BY DEF Places, Critical, InTree
    <3> QED
      BY <1>2, <1>4, <1>6, <2>1, <2>2, <3>1 DEF InstallerInv, Typing, TypeOK, disk
  <2>4. at'[p] = x /\ back'[p] = "trees" /\ pc'[p] = "restore" /\ job'[p] = job[p]
    BY <1>2, <2>2 DEF InstallerInv, Typing, TypeOK
  <2>5. TreeWork(p, x)'
    BY <1>4, <1>7, <2>4 DEF TreeWork
  <2>6. RunInv(p)'
    BY <1>3, <1>4, <1>5, <1>6, <1>7, <2>1, <2>4, <2>5 DEF RunInv, Critical, InClosure, InTree
  <2>7. \A q \in Procs \ {p} : Undisturbed(q)
    BY <1>2, <1>6, <2>1, <2>2 DEF Undisturbed, InstallerInv, Typing, TypeOK
  <2> QED
    BY <1>2, <2>3, <2>6, <2>7, LocalStep
<1>9. CASE ~Free(p, {x})
  <2>1. UNCHANGED <<lock, at, back, pc>>
    BY <1>1, <1>9
  <2>2. Typing'
    BY <1>2, <1>6, <2>1 DEF InstallerInv, Typing, TypeOK, disk
  <2>3. RunInv(p)'
    BY <1>2, <1>3, <1>5, <1>6, <1>7, <2>1 DEF RunInv, Critical, InClosure, InTree
  <2>4. \A q \in Procs \ {p} : Undisturbed(q)
    BY <1>2, <1>6, <2>1 DEF Undisturbed
  <2> QED
    BY <1>2, <2>2, <2>3, <2>4, LocalStep
<1> QED
  BY <1>8, <1>9

\* A process goes on with its package, the disk being changed or not.
LEMMA TreeGoes ==
  ASSUME Separate, InstallerInv, NEW p \in Procs, pc[p] \in InTree, NEW place \in InTree,
         NEW x, x = at[p],
         pc' = [pc EXCEPT ![p] = place],
         \/ UNCHANGED back
         \/ \E b \in {"done", "fail"} : back' = [back EXCEPT ![p] = b],
         UNCHANGED <<job, at, todo, left, closure, kept, lock, acked, faults>>,
         tree' \in [Packages -> Content], \A y \in Packages \ {x} : tree'[y] = tree[y],
         spare' \in [Packages -> Content], \A y \in Packages \ {x} : spare'[y] = spare[y],
         mark' \subseteq Packages, \A y \in Packages \ {x} : y \in mark' <=> y \in mark,
         TreeDisk(x)',
         TreeWork(p, x)'
  PROVE  InstallerInv'
<1>1. /\ x \in SingleRoots /\ x \in Packages /\ lock[x] = p /\ Group(x) = {x}
      /\ job[p] \in Job /\ todo[p] \subseteq SingleRoots
  BY TreeHere
<1>2. pc'[p] = place /\ place \in Places
  BY DEF InstallerInv, Typing, Places, Critical
<1>3. Typing'
  BY <1>2 DEF InstallerInv, Typing, TypeOK
<1>4. RunInv(p)'
  BY <1>1, <1>2 DEF RunInv, Critical, InClosure, InTree, SingleRoots
<1>5. \A q \in Procs \ {p} : Undisturbed(q)
  BY DEF Undisturbed, InstallerInv, Typing
<1>6. Frame(x)
  BY <1>1 DEF Frame
<1> QED
  BY <1>1, <1>3, <1>4, <1>5, <1>6, TreeStep

\* ... with the disk as it is.
LEMMA TreePasses ==
  ASSUME Separate, InstallerInv, NEW p \in Procs, pc[p] \in InTree, NEW place \in InTree,
         Pass(p, place), TreeWork(p, at[p])'
  PROVE  InstallerInv'
<1>1. /\ at[p] \in Packages /\ lock[at[p]] = p /\ job[p] \in Job /\ todo[p] \subseteq SingleRoots
  BY TreeHere
<1>2. /\ pc'[p] = place /\ place \in Places /\ SingleRoots' = SingleRoots
      /\ UNCHANGED <<job, at, todo, lock>>
  BY DEF InstallerInv, Typing, Places, Critical, Pass, GoTo, SingleRoots
<1>3. RunInv(p)'
  BY <1>1, <1>2 DEF RunInv, Critical, InClosure, InTree
<1> QED
  BY <1>2, <1>3, PassKept

LEMMA RestoreKept ==
  ASSUME Separate, InstallerInv, NEW p \in Procs, Restore(p)
  PROVE  InstallerInv'
<1> PICK x : x = at[p]
  OBVIOUS
<1>1. pc[p] = "restore" /\ pc[p] \in InTree /\ x \in mark
  BY DEF Restore, Doing, InTree
<1>2. x \in SingleRoots /\ x \in Packages /\ TreeDisk(x) /\ TreeWork(p, x) /\ R(p) \in Releases
  BY <1>1, TreeHere
<1>3. /\ tree \in [Packages -> Content] /\ spare \in [Packages -> Content] /\ mark \subseteq Packages
      /\ pc \in [Procs -> Places]
  BY DEF InstallerInv, Typing, TypeOK
<1>4. /\ "restore" \in InTree /\ "unmark" \in InTree /\ SingleRoots' = SingleRoots
      /\ None \in Content /\ Partial \in Content /\ None \notin Whole
  BY InstallerAssumption DEF InTree, SingleRoots, Content, Whole
<1>5. CASE tree[x] = None /\ spare[x] = None /\ Fail(p)
  BY <1>5, FailKept
<1>6. CASE /\ tree[x] = None /\ spare[x] # None
           /\ tree' = [tree EXCEPT ![x] = spare[x]] /\ spare' = [spare EXCEPT ![x] = None]
           /\ GoTo(p, "unmark") /\ UNCHANGED <<closure, kept, mark, lock, acked, faults>>
  <2>1. /\ tree'[x] = spare[x] /\ \A y \in Packages \ {x} : tree'[y] = tree[y]
        /\ spare'[x] = None /\ \A y \in Packages \ {x} : spare'[y] = spare[y]
        /\ tree' \in [Packages -> Content] /\ spare' \in [Packages -> Content]
    BY <1>2, <1>3, <1>4, <1>6
  <2>2. spare[x] \in Whole
    BY <1>1, <1>2, <1>6 DEF TreeDisk
  <2>3. TreeDisk(x)'
    BY <1>1, <1>6, <2>1, <2>2 DEF TreeDisk
  <2>4. /\ pc' = [pc EXCEPT ![p] = "unmark"] /\ UNCHANGED <<job, at, todo, left, back>>
        /\ pc'[p] = "unmark" /\ R(p)' = R(p) /\ Target(p)' = Target(p)
    BY <1>3, <1>6 DEF GoTo, R, Target
  <2>5. back[p] # "done"
    BY <1>2, <1>6, InstallerAssumption DEF TreeWork
  <2>6. TreeWork(p, x)'
    BY <1>1, <1>2, <1>4, <1>6, <2>1, <2>2, <2>4, <2>5 DEF TreeWork
  <2> QED
    BY <1>1, <1>3, <1>4, <1>6, <2>1, <2>3, <2>4, <2>6, TreeGoes
<1>7. CASE /\ tree[x] # None /\ spare[x] # None
           /\ spare' = [spare EXCEPT ![x] = Removed(@)]
           /\ UNCHANGED <<tree, closure, kept, mark, lock, local, acked, faults>>
  <2>1. /\ \A y \in Packages \ {x} : spare'[y] = spare[y]
        /\ spare' \in [Packages -> Content]
    BY <1>2, <1>3, <1>4, <1>7 DEF Removed
  <2>2. TreeDisk(x)'
    BY <1>1, <1>2, <1>7 DEF TreeDisk
  <2>3. /\ UNCHANGED <<pc, job, at, todo, left, back>> /\ R(p)' = R(p) /\ Target(p)' = Target(p)
        /\ pc' = [pc EXCEPT ![p] = "restore"] /\ pc'[p] = "restore"
    BY <1>1, <1>3, <1>7 DEF local, R, Target
  <2>4. TreeWork(p, x)'
    BY <1>1, <1>2, <1>4, <1>7, <2>3 DEF TreeWork
  <2> QED
    BY <1>1, <1>3, <1>4, <1>7, <2>1, <2>2, <2>3, <2>4, TreeGoes
<1>8. CASE tree[x] # None /\ spare[x] = None /\ Pass(p, "unmark")
  <2>1. tree[x] \in Whole
    BY <1>2, <1>8 DEF TreeDisk
  <2>2. /\ UNCHANGED <<disk, job, at, todo, left, back>> /\ pc'[p] = "unmark"
        /\ R(p)' = R(p) /\ Target(p)' = Target(p)
    BY <1>3, <1>8 DEF Pass, GoTo, R, Target
  <2>3. TreeWork(p, x)'
    BY <1>1, <1>2, <1>4, <1>8, <2>1, <2>2 DEF TreeWork, disk
  <2> QED
    BY <1>1, <1>4, <1>8, <2>2, <2>3, TreePasses
<1> QED
  BY <1>5, <1>6, <1>7, <1>8 DEF Restore

LEMMA UnmarkKept ==
  ASSUME Separate, InstallerInv, NEW p \in Procs, Unmark(p)
  PROVE  InstallerInv'
<1> PICK x : x = at[p]
  OBVIOUS
<1>1. /\ pc[p] = "unmark" /\ pc[p] \in InTree
      /\ mark' = mark \ {x} /\ pc' = [pc EXCEPT ![p] = "restore"]
      /\ UNCHANGED <<job, at, todo, left, back, tree, closure, kept, spare, lock, acked, faults>>
  BY DEF Unmark, Doing, InTree, GoTo
<1>2. x \in SingleRoots /\ x \in Packages /\ TreeDisk(x) /\ TreeWork(p, x)
  BY <1>1, TreeHere
<1>3. tree[x] \in Whole /\ spare[x] = None
  BY <1>1, <1>2 DEF TreeWork
<1>4. /\ tree \in [Packages -> Content] /\ spare \in [Packages -> Content] /\ mark \subseteq Packages
      /\ pc'[p] = "restore" /\ "restore" \in InTree /\ SingleRoots' = SingleRoots
  BY <1>1 DEF InstallerInv, Typing, TypeOK, InTree, SingleRoots
<1>5. TreeDisk(x)'
  BY <1>1, <1>2, <1>3 DEF TreeDisk
<1>6. R(p)' = R(p) /\ Target(p)' = Target(p)
  BY <1>1 DEF R, Target
<1>7. TreeWork(p, x)'
  BY <1>1, <1>2, <1>3, <1>4, <1>6 DEF TreeWork
<1> QED
  BY <1>1, <1>4, <1>5, <1>7, TreeGoes

LEMMA RestoredKept ==
  ASSUME Separate, InstallerInv, NEW p \in Procs, Restored(p)
  PROVE  InstallerInv'
<1> PICK x : x = at[p]
  OBVIOUS
<1>1. pc[p] = "restore" /\ pc[p] \in InTree /\ x \notin mark
  BY DEF Restored, Doing, InTree
<1>2. /\ x \in SingleRoots /\ x \in Packages /\ x \in Roots /\ lock[x] = p /\ Group(x) = {x}
      /\ TreeDisk(x) /\ TreeWork(p, x) /\ job[p] \in Job /\ R(p) \in Releases /\ todo[p] \subseteq SingleRoots
  BY <1>1, TreeHere
<1>3. CASE /\ back[p] = "trees"
           /\ lock' = [lock EXCEPT ![x] = None]
           /\ GoTo(p, "trees") /\ UNCHANGED <<disk, acked, faults>>
  <2>1. Typing'
    <3>1. "trees" \in Places
      BY DEF Places
    <3> QED
      BY <1>3, <3>1 DEF InstallerInv, Typing, TypeOK, GoTo, disk
  <2>2. RunInv(p)'
    <3>1. pc'[p] = "trees" /\ job'[p] = job[p] /\ todo'[p] = todo[p] /\ SingleRoots' = SingleRoots
      BY <1>3 DEF InstallerInv, Typing, GoTo, SingleRoots
    <3> QED
      BY <1>2, <3>1 DEF RunInv, Critical, InClosure, InTree
  <2>3. \A q \in Procs \ {p} : Undisturbed(q)
    BY <1>2, <1>3 DEF Undisturbed, InstallerInv, Typing, TypeOK, GoTo
  <2> QED
    BY <1>3, <2>1, <2>2, <2>3, LocalStep
<1>4. CASE back[p] = "look" /\ Pass(p, "look")
  <2>1. /\ UNCHANGED <<disk, job, at, todo, left, back>> /\ pc'[p] = "look"
        /\ R(p)' = R(p) /\ Target(p)' = Target(p)
    BY <1>4 DEF InstallerInv, Typing, Pass, GoTo, R, Target
  <2>2. TreeWork(p, x)'
    BY <1>1, <1>2, <1>4, <2>1 DEF TreeWork, disk, SingleRoots
  <2>3. "look" \in InTree
    BY DEF InTree
  <2> QED
    BY <1>1, <1>4, <2>1, <2>2, <2>3, TreePasses
<1>5. CASE back[p] = "fail" /\ Fail(p)
  BY <1>5, FailKept
<1>6. CASE back[p] = "done" /\ Done(p)
  <2>1. tree[x] \in Whole /\ x = Target(p)
    BY <1>2, <1>6 DEF TreeWork, Whole
  <2>2. ToSet(Members[R(p)]) \subseteq Group(x)
    BY <1>2, <2>1, Belongs DEF Target
  <2>3. x \notin ClosureRoots
    BY <1>2, Alone
  <2> QED
    BY <1>1, <1>2, <1>6, <2>1, <2>2, <2>3, DoneKept
<1> QED
  BY <1>3, <1>4, <1>5, <1>6 DEF Restored

LEMMA LookKept ==
  ASSUME Separate, InstallerInv, NEW p \in Procs, Look(p)
  PROVE  InstallerInv'
<1> PICK x : x = at[p]
  OBVIOUS
<1>1. pc[p] = "look" /\ pc[p] \in InTree
  BY DEF Look, Doing, InTree
<1>2. x \in SingleRoots /\ x \in Packages /\ TreeDisk(x) /\ TreeWork(p, x)
  BY <1>1, TreeHere
<1>3. x \notin mark /\ spare[x] = None /\ back[p] = "look"
  BY <1>1, <1>2 DEF TreeWork, TreeDisk
<1>4. CASE Fail(p)
  BY <1>4, FailKept
<1>5. CASE tree[x] = None /\ Pass(p, "place")
  <2>1. /\ UNCHANGED <<disk, job, at, todo, left, back>> /\ pc'[p] = "place"
        /\ R(p)' = R(p) /\ Target(p)' = Target(p)
    BY <1>5 DEF InstallerInv, Typing, Pass, GoTo, R, Target
  <2>2. TreeWork(p, x)'
    BY <1>2, <1>3, <2>1 DEF TreeWork, disk, SingleRoots
  <2>3. "place" \in InTree
    BY DEF InTree
  <2> QED
    BY <1>1, <1>5, <2>1, <2>2, <2>3, TreePasses
<1>6. CASE /\ tree[x] # None /\ job[p].force
           /\ mark' = mark \cup {x} /\ GoTo(p, "preserve")
           /\ UNCHANGED <<tree, closure, kept, spare, lock, acked, faults>>
  <2>1. tree[x] \in Whole
    BY <1>2, <1>6 DEF TreeDisk
  <2>2. /\ tree \in [Packages -> Content] /\ spare \in [Packages -> Content] /\ mark' \subseteq Packages
        /\ pc' = [pc EXCEPT ![p] = "preserve"] /\ UNCHANGED <<job, at, todo, left, back>>
        /\ pc'[p] = "preserve" /\ "preserve" \in InTree /\ SingleRoots' = SingleRoots
        /\ R(p)' = R(p) /\ Target(p)' = Target(p)
    BY <1>2, <1>6 DEF InstallerInv, Typing, TypeOK, GoTo, R, Target, InTree, SingleRoots
  <2>3. TreeDisk(x)'
    BY <1>3, <1>6, <2>1, InstallerAssumption DEF TreeDisk, Whole
  <2>4. TreeWork(p, x)'
    BY <1>2, <1>3, <1>6, <2>1, <2>2 DEF TreeWork
  <2> QED
    BY <1>1, <1>6, <2>2, <2>3, <2>4, TreeGoes
<1> QED
  BY <1>4, <1>5, <1>6 DEF Look

LEMMA PlaceKept ==
  ASSUME Separate, InstallerInv, NEW p \in Procs, Place(p)
  PROVE  InstallerInv'
<1> PICK x : x = at[p]
  OBVIOUS
<1>1. /\ pc[p] = "place" /\ pc[p] \in InTree
      /\ tree' = [tree EXCEPT ![x] = R(p)] /\ pc' = [pc EXCEPT ![p] = "placed"]
      /\ UNCHANGED <<job, at, todo, left, back, closure, kept, mark, spare, lock, acked, faults>>
  BY DEF Place, Doing, InTree, GoTo
<1>2. x \in SingleRoots /\ x \in Packages /\ TreeDisk(x) /\ TreeWork(p, x) /\ R(p) \in Releases
  BY <1>1, TreeHere
<1>3. x \notin mark /\ back[p] = "look"
  BY <1>1, <1>2 DEF TreeWork
<1>4. R(p) \in Whole /\ Whole \subseteq Content
  BY <1>2 DEF Whole, Content
<1>5. /\ tree'[x] \in Whole /\ tree'[x] = R(p) /\ \A y \in Packages \ {x} : tree'[y] = tree[y]
      /\ tree' \in [Packages -> Content]
  BY <1>1, <1>2, <1>4 DEF InstallerInv, Typing, TypeOK
<1>6. /\ spare \in [Packages -> Content] /\ mark \subseteq Packages
      /\ pc'[p] = "placed" /\ "placed" \in InTree /\ SingleRoots' = SingleRoots
      /\ R(p)' = R(p) /\ Target(p)' = Target(p)
  BY <1>1 DEF InstallerInv, Typing, TypeOK, InTree, SingleRoots, R, Target
<1>7. TreeDisk(x)'
  BY <1>1, <1>2, <1>3, <1>5 DEF TreeDisk
<1>8. TreeWork(p, x)'
  BY <1>1, <1>2, <1>3, <1>5, <1>6 DEF TreeWork
<1> QED
  BY <1>1, <1>5, <1>6, <1>7, <1>8, TreeGoes

LEMMA PlacedKept ==
  ASSUME Separate, InstallerInv, NEW p \in Procs, Placed(p)
  PROVE  InstallerInv'
<1> PICK x : x = at[p]
  OBVIOUS
<1>1. pc[p] = "placed" /\ pc[p] \in InTree /\ Done(p)
  BY DEF Placed, Doing, InTree
<1>2. /\ x \in SingleRoots /\ x \in Roots /\ lock[x] = p /\ Group(x) = {x}
      /\ TreeWork(p, x) /\ R(p) \in Releases
  BY <1>1, TreeHere
<1>3. back[p] = "look" /\ tree[x] \in Whole /\ x \notin mark
  BY <1>1, <1>2 DEF TreeWork, Whole
<1>4. x = Target(p)
  BY <1>2, <1>3 DEF TreeWork
<1>5. ToSet(Members[R(p)]) \subseteq Group(x)
  BY <1>2, <1>4, Belongs DEF Target
<1>6. x \notin ClosureRoots
  BY <1>2, Alone
<1> QED
  BY <1>1, <1>2, <1>3, <1>5, <1>6, DoneKept

LEMMA PreserveKept ==
  ASSUME Separate, InstallerInv, NEW p \in Procs, Preserve(p)
  PROVE  InstallerInv'
<1> PICK x : x = at[p]
  OBVIOUS
<1>1. /\ pc[p] = "preserve" /\ pc[p] \in InTree
      /\ spare' = [spare EXCEPT ![x] = tree[x]] /\ tree' = [tree EXCEPT ![x] = None]
      /\ pc' = [pc EXCEPT ![p] = "swap"]
      /\ UNCHANGED <<job, at, todo, left, back, closure, kept, mark, lock, acked, faults>>
  BY DEF Preserve, Doing, InTree, GoTo
<1>2. x \in SingleRoots /\ x \in Packages /\ TreeWork(p, x)
  BY <1>1, TreeHere
<1>3. x \in mark /\ back[p] = "look" /\ tree[x] \in Whole
  BY <1>1, <1>2 DEF TreeWork
<1>4. /\ tree'[x] = None /\ \A y \in Packages \ {x} : tree'[y] = tree[y]
      /\ spare'[x] = tree[x] /\ \A y \in Packages \ {x} : spare'[y] = spare[y]
      /\ tree' \in [Packages -> Content] /\ spare' \in [Packages -> Content]
  BY <1>1, <1>2 DEF InstallerInv, Typing, TypeOK, Content
<1>5. /\ mark \subseteq Packages
      /\ pc'[p] = "swap" /\ "swap" \in InTree /\ SingleRoots' = SingleRoots
      /\ R(p)' = R(p) /\ Target(p)' = Target(p)
  BY <1>1 DEF InstallerInv, Typing, TypeOK, InTree, SingleRoots, R, Target
<1>6. TreeDisk(x)'
  BY <1>1, <1>3, <1>4 DEF TreeDisk
<1>7. TreeWork(p, x)'
  BY <1>1, <1>2, <1>3, <1>4, <1>5 DEF TreeWork
<1> QED
  BY <1>1, <1>4, <1>5, <1>6, <1>7, TreeGoes

LEMMA SwapKept ==
  ASSUME Separate, InstallerInv, NEW p \in Procs, Swap(p)
  PROVE  InstallerInv'
<1> PICK x : x = at[p]
  OBVIOUS
<1>1. /\ pc[p] = "swap" /\ pc[p] \in InTree /\ tree[x] = None
      /\ pc' = [pc EXCEPT ![p] = "restore"]
      /\ UNCHANGED <<job, at, todo, left, closure, kept, mark, lock, acked, faults>>
  BY DEF Swap, Doing, InTree
<1>2. x \in SingleRoots /\ x \in Packages /\ TreeWork(p, x) /\ R(p) \in Releases
  BY <1>1, TreeHere
<1>3. x \in mark /\ back[p] = "look" /\ spare[x] \in Whole
  BY <1>1, <1>2 DEF TreeWork
<1>4. R(p) \in Singles /\ x = Target(p)
  BY <1>2, <1>3 DEF TreeWork
<1>5. /\ mark \subseteq Packages /\ Whole \subseteq Content /\ R(p) \in Whole
      /\ pc'[p] = "restore" /\ "restore" \in InTree /\ SingleRoots' = SingleRoots
      /\ R(p)' = R(p) /\ Target(p)' = Target(p)
  BY <1>1, <1>2 DEF InstallerInv, Typing, TypeOK, InTree, SingleRoots, R, Target, Whole, Content
<1>6. CASE /\ tree' = [tree EXCEPT ![x] = R(p)] /\ UNCHANGED spare
           /\ back' = [back EXCEPT ![p] = "done"]
  <2>1. /\ tree'[x] \in Whole /\ tree'[x] = R(p) /\ \A y \in Packages \ {x} : tree'[y] = tree[y]
        /\ tree' \in [Packages -> Content] /\ spare' \in [Packages -> Content] /\ back'[p] = "done"
    BY <1>2, <1>5, <1>6 DEF InstallerInv, Typing, TypeOK
  <2>2. TreeDisk(x)'
    BY <1>1, <1>3, <2>1, InstallerAssumption DEF TreeDisk, Whole
  <2>3. TreeWork(p, x)'
    BY <1>2, <1>4, <1>5, <2>1 DEF TreeWork
  <2> QED
    BY <1>1, <1>5, <1>6, <2>1, <2>2, <2>3, TreeGoes
<1>7. CASE /\ tree' = [tree EXCEPT ![x] = spare[x]] /\ spare' = [spare EXCEPT ![x] = None]
           /\ back' = [back EXCEPT ![p] = "fail"]
  <2>1. /\ tree'[x] = spare[x] /\ \A y \in Packages \ {x} : tree'[y] = tree[y]
        /\ \A y \in Packages \ {x} : spare'[y] = spare[y]
        /\ tree' \in [Packages -> Content] /\ spare' \in [Packages -> Content] /\ back'[p] = "fail"
    BY <1>2, <1>5, <1>7 DEF InstallerInv, Typing, TypeOK, Content
  <2>2. TreeDisk(x)'
    BY <1>1, <1>3, <2>1, InstallerAssumption DEF TreeDisk, Whole
  <2>3. TreeWork(p, x)'
    BY <1>2, <1>4, <1>5, <2>1 DEF TreeWork
  <2> QED
    BY <1>1, <1>5, <1>7, <2>1, <2>2, <2>3, TreeGoes
<1> QED
  BY <1>6, <1>7 DEF Swap

-----------------------------------------------------------------------------
(* Theorems                                                                 *)

LEMMA InstallerStarts ==
  ASSUME Separate, Init
  PROVE  InstallerInv
<1>1. /\ tree = [x \in Packages |-> IF x \in Earlier THEN Old ELSE None]
      /\ closure = [x \in Packages |-> None] /\ kept = [m \in Packages |-> [x \in Packages |-> None]]
      /\ mark = {} /\ spare = [x \in Packages |-> None]
      /\ pc = [p \in Procs |-> "out"] /\ acked = Earlier
  BY DEF Init
<1>2. Typing
  <2>1. <<>> \in Seq(Packages) /\ {} \in SUBSET Packages /\ "out" \in Places
    BY DEF Places
  <2>2. TypeOK
    BY <1>1, <2>1, InstallerAssumption DEF TypeOK, Init, Content, Whole
  <2> QED
    BY <2>1, <2>2 DEF Init, Typing
<1>3. \A y \in Packages : /\ tree[y] \in {Old, None}
                          /\ y \in acked => tree[y] = Old
                          /\ spare[y] = None /\ closure[y] = None
                          /\ \A m \in Packages : kept[m][y] = None
  BY <1>1
<1>4. ASSUME NEW m \in ClosureRoots PROVE ClosureDisk(m)
  <2>1. m \in Packages /\ Group(m) \subseteq Packages
    BY RootsArePackages DEF Roots
  <2>2. VisibleAt(m)
    BY <1>3, <2>1, InstallerAssumption DEF VisibleAt, Releases
  <2>3. \A y \in Group(m) : Settled(m, y)
    BY <1>3, <2>1 DEF Settled, Whole
  <2> QED
    BY <1>3, <2>1, <2>2, <2>3 DEF ClosureDisk
<1>5. ASSUME NEW x \in SingleRoots PROVE TreeDisk(x)
  <2>1. x \in Packages
    BY RootsArePackages DEF Roots
  <2> QED
    BY <1>1, <1>3, <2>1 DEF TreeDisk, Whole
<1>6. DiskInv
  BY <1>1, <1>3, <1>4, <1>5, InstallerAssumption DEF DiskInv, Whole
<1>7. \A p \in Procs : RunInv(p)
  BY <1>1 DEF RunInv, Critical, InClosure, InTree
<1> QED
  BY <1>2, <1>6, <1>7 DEF InstallerInv

LEMMA InstallerNext ==
  ASSUME Separate, InstallerInv, [Next]_vars
  PROVE  InstallerInv'
<1>1. CASE UNCHANGED vars
  <2>1. Typing'
    BY <1>1 DEF vars, disk, local, InstallerInv, Typing, TypeOK
  <2>2. \A m : /\ VisibleAt(m)' <=> VisibleAt(m)
               /\ \A y : /\ Settled(m, y)' <=> Settled(m, y)
                         /\ Recoverable(m, y)' <=> Recoverable(m, y)
                         /\ Ahead(m, y)' <=> Ahead(m, y)
    BY <1>1 DEF vars, disk, VisibleAt, Settled, Recoverable, Ahead
  <2>3. \A n \in Roots : Same(n)
    BY <1>1 DEF vars, disk, Same
  <2>4. \A q \in Procs : Undisturbed(q)
    BY <1>1 DEF vars, local, Undisturbed
  <2>5. \A q \in Procs : RunInv(q)'
    <3> SUFFICES ASSUME NEW q \in Procs PROVE RunInv(q)'
      OBVIOUS
    <3>1. RunInv(q) /\ DiskInv
      BY DEF InstallerInv
    <3>2. pc[q] \in Critical => at[q] \in Roots
      BY <3>1 DEF RunInv, Critical, ClosureWork, TreeWork, Roots
    <3> QED
      BY <2>3, <2>4, <3>1, <3>2, RunStays
  <2>6. DiskInv'
    <3>1. \A m \in ClosureRoots : ClosureDisk(m)'
      BY <2>3, ClosureDiskStays DEF InstallerInv, DiskInv, Roots
    <3>2. \A x \in SingleRoots : TreeDisk(x)'
      BY <2>3, TreeDiskStays DEF InstallerInv, DiskInv, Roots
    <3> QED
      BY <1>1, <3>1, <3>2 DEF vars, disk, InstallerInv, DiskInv
  <2> QED
    BY <2>1, <2>5, <2>6 DEF InstallerInv
<1>2. ASSUME NEW p \in Procs, NEW j \in Job, Begin(p, j) PROVE InstallerInv'
  BY <1>2, BeginKept
<1>3. ASSUME NEW p \in Procs, Work(p) PROVE InstallerInv'
  BY <1>3, PickClosureKept, ClaimClosureKept, UndoRootKept, UndoMemberKept, UndoMarkerKept, UndoneKept,
     TreesKept, PickTreeKept, RestoreKept, UnmarkKept, RestoredKept, FetchKept, LockMembersKept,
     PrepareKept, DeactivateKept, MakeRoomKept, ActivateKept, LapseKept, CommitKept,
     LookKept, PlaceKept, PlacedKept, PreserveKept, SwapKept DEF Work
<1>4. ASSUME NEW p \in Procs, Crash(p) PROVE InstallerInv'
  BY <1>4, CrashKept
<1> QED
  BY <1>1, <1>2, <1>3, <1>4 DEF Next

\* Whatever is installed, by whom, and wherever each dies: what is on the disk
\* and what each process has established of it.
THEOREM InstallationIsKept ==
  ASSUME Separate
  PROVE  Spec => []InstallerInv
<1>1. Init => InstallerInv
  BY InstallerStarts
<1>2. InstallerInv /\ [Next]_vars => InstallerInv'
  BY InstallerNext
<1> QED
  BY <1>1, <1>2, PTL DEF Spec

\* Every variable has its type.
THEOREM InstallerTyped ==
  ASSUME Separate
  PROVE  Spec => []TypeOK
<1>1. InstallerInv => TypeOK
  BY DEF InstallerInv, Typing
<1> QED
  BY <1>1, InstallationIsKept, PTL

\* A plugin that is there has its dependencies, of its own release
\* (atomicInstallClosureChecked activates the root last, the recovery removes
\* it first).
THEOREM PluginsAreWhole ==
  ASSUME Separate
  PROVE  Spec => []VisibleIsWhole
<1>1. InstallerInv => VisibleIsWhole
  BY DEF InstallerInv, DiskInv, ClosureDisk, VisibleAt, VisibleIsWhole, ClosureRoots
<1> QED
  BY <1>1, InstallationIsKept, PTL

\* What was reported installed is there whole, or its backup is
\* (atomicInstallTreeChecked and the closure transaction rename, they never
\* remove before the new content is in its place).
THEOREM ReportedSurvives ==
  ASSUME Separate
  PROVE  Spec => []InstalledSurvives
<1>1. ASSUME InstallerInv PROVE InstalledSurvives
  <2> SUFFICES ASSUME NEW x \in acked PROVE CopiesOf(x) \cap Whole # {}
    BY DEF InstalledSurvives
  <2>1. /\ tree[x] \in CopiesOf(x) /\ spare[x] \in CopiesOf(x)
        /\ \A m \in Packages : kept[m][x] \in CopiesOf(x)
    BY DEF CopiesOf
  <2>2. CASE \A m \in ClosureRoots \cup SingleRoots : x \notin Group(m)
    BY <1>1, <2>1, <2>2 DEF InstallerInv, DiskInv
  <2>3. ASSUME NEW x1 \in SingleRoots, x \in Group(x1) PROVE CopiesOf(x) \cap Whole # {}
    <3>1. x = x1 /\ TreeDisk(x1)
      BY <1>1, <2>3, Alone DEF InstallerInv, DiskInv
    <3> QED
      BY <2>1, <3>1 DEF TreeDisk
  <2>4. ASSUME NEW m \in ClosureRoots, x \in Group(m) PROVE CopiesOf(x) \cap Whole # {}
    <3> PICK c : c = closure[m]
      OBVIOUS
    <3>1. ClosureDisk(m) /\ m \in Packages
      BY <1>1, RootsArePackages DEF InstallerInv, DiskInv, Roots
    <3>2. CASE c = None \/ x \notin ToSet(c.members)
      <4>1. Settled(m, x)
        BY <2>4, <3>1, <3>2 DEF ClosureDisk
      <4> QED
        BY <2>1, <4>1 DEF Settled
    <3>3. CASE c # None /\ x \in ToSet(c.members) /\ c.phase = "committed"
      <4>1. PICK r \in Closures : c.members = Members[r] /\ \A y \in ToSet(Members[r]) : tree[y] = r
        BY <3>1, <3>3 DEF ClosureDisk
      <4> QED
        BY <2>1, <3>3, <4>1 DEF Whole, Releases
    <3>4. CASE c # None /\ x \in ToSet(c.members) /\ c.phase = "prepared"
      <4>1. Written(m, c) /\ Recoverable(m, x)
        BY <3>1, <3>4 DEF ClosureDisk
      <4>2. c.was[x] # None /\ c.was[x] \in Whole
        BY <2>4, <3>4, <4>1 DEF Written
      <4>3. x \in c.had
        BY <3>4, <4>1, <4>2, MarkerNames
      <4> QED
        BY <2>1, <3>1, <4>1, <4>2, <4>3 DEF Recoverable
    <3>5. c # None => c.phase \in {"prepared", "committed"}
      BY <1>1, <3>1 DEF InstallerInv, Typing, TypeOK
    <3> QED
      BY <3>2, <3>3, <3>4, <3>5
  <2> QED
    BY <2>2, <2>3, <2>4
<1> QED
  BY <1>1, InstallationIsKept, PTL

\* A recovery finds what the marker it reads needs: the installation it is to
\* put back or its backup, or all of what was activated
\* (recoverClosureInstallTransaction and recoverInstallTransaction have an
\* error for each of these that is not there).
THEOREM RecoveryFindsItsNeeds ==
  ASSUME Separate
  PROVE  Spec => []MarkersAreSatisfiable
<1>1. ASSUME InstallerInv PROVE MarkersAreSatisfiable
  <2>1. ASSUME NEW m \in Packages, closure[m] # None, NEW x \in ToSet(closure[m].members)
        PROVE  IF closure[m].phase = "committed" THEN tree[x] # None
               ELSE x \in closure[m].had => tree[x] # None \/ kept[m][x] # None
    <3> PICK c : c = closure[m]
      OBVIOUS
    <3>1. m \in ClosureRoots /\ c # None /\ c.phase \in {"prepared", "committed"} /\ x \in ToSet(c.members)
      BY <1>1, <2>1 DEF InstallerInv, DiskInv, Typing, TypeOK
    <3>2. ClosureDisk(m)
      BY <1>1, <3>1 DEF InstallerInv, DiskInv
    <3>3. CASE c.phase = "committed"
      <4>1. PICK r \in Closures : c.members = Members[r] /\ \A y \in ToSet(Members[r]) : tree[y] = r
        BY <3>1, <3>2, <3>3 DEF ClosureDisk
      <4>2. tree[x] # None
        BY <3>1, <4>1, InstallerAssumption DEF Releases
      <4> QED
        BY <3>3, <4>2
    <3>4. CASE c.phase = "prepared"
      <4>1. Written(m, c) /\ Recoverable(m, x)
        BY <3>1, <3>2, <3>4 DEF ClosureDisk
      <4>2. x \in c.had => c.was[x] # None
        BY <3>1, <4>1, MarkerNames
      <4>3. x \in c.had => tree[x] # None \/ kept[m][x] # None
        BY <4>1, <4>2 DEF Recoverable
      <4> QED
        BY <3>4, <4>3
    <3> QED
      BY <3>1, <3>3, <3>4
  <2>2. ASSUME NEW x \in mark PROVE tree[x] # None \/ spare[x] # None
    BY <1>1, <2>2, InstallerAssumption DEF InstallerInv, DiskInv, TreeDisk, Whole, Releases
  <2> QED
    BY <2>1, <2>2 DEF MarkersAreSatisfiable
<1> QED
  BY <1>1, InstallationIsKept, PTL

\* A marker goes only by the last step of a recovery.
LEMMA MarkerGoes ==
  ASSUME Separate, InstallerInv, [Next]_vars, NEW m \in Packages, closure[m] # None, closure'[m] = None
  PROVE  \E p \in Procs : m = at[p] /\ UndoMarker(p)
<1>1. closure' # closure
  OBVIOUS
<1>2. Next
  BY <1>1 DEF vars, disk
<1>3. PICK p \in Procs : UndoMarker(p) \/ Prepare(p) \/ Commit(p)
  <2>1. PICK p \in Procs : (\E j \in Job : Begin(p, j)) \/ Work(p) \/ Crash(p)
    BY <1>2 DEF Next
  <2>2. ~(\E j \in Job : Begin(p, j)) /\ ~Crash(p)
    BY <1>1 DEF Begin, Crash, disk
  <2>3. ~Fail(p) /\ ~Done(p) /\ ~Rollback(p) /\ \A place : ~Pass(p, place)
    BY <1>1 DEF Fail, Done, Rollback, Pass, disk
  <2>4. ~(PickClosure(p) \/ ClaimClosure(p) \/ UndoRoot(p) \/ Undone(p) \/ Trees(p) \/ PickTree(p))
    BY <1>1, <2>3 DEF PickClosure, ClaimClosure, UndoRoot, RemoveTree, Undone, Trees, PickTree, disk
  <2>5. ~UndoMember(p)
    BY <1>1, <2>3 DEF UndoMember, RestoreMember, FinishMember, RemoveTree, disk
  <2>6. ~(Restore(p) \/ Unmark(p) \/ Restored(p) \/ Fetch(p) \/ LockMembers(p))
    BY <1>1, <2>3 DEF Restore, Unmark, Restored, Fetch, LockMembers, disk
  <2>7. ~(Deactivate(p) \/ MakeRoom(p) \/ Activate(p) \/ Lapse(p))
    BY <1>1, <2>3 DEF Deactivate, KeepPrevious, MakeRoom, Activate, Lapse
  <2>8. ~(Look(p) \/ Place(p) \/ Placed(p) \/ Preserve(p) \/ Swap(p))
    BY <1>1, <2>3 DEF Look, Place, Placed, Preserve, Swap
  <2> QED
    BY <2>1, <2>2, <2>4, <2>5, <2>6, <2>7, <2>8 DEF Work
<1>4. closure \in [Packages -> Transactions \cup {None}]
  BY DEF InstallerInv, Typing
<1>5. ASSUME Prepare(p) PROVE FALSE
  <2>1. pc[p] \in InClosure
    BY <1>5 DEF Prepare, Doing, InClosure
  <2>2. ClosureWork(p, at[p])
    BY <2>1, ClosureHere
  <2>3. PICK c : c = Transaction(tree, R(p), "prepared")
    OBVIOUS
  <2>4. closure' = [closure EXCEPT ![Target(p)] = c]
    BY <1>1, <1>5, <2>3 DEF Prepare, Fail, disk
  <2>5. m = Target(p) /\ c = None
    BY <1>4, <2>4
  <2>6. R(p) \in Releases
    BY <2>1, ClosureHere
  <2>7. Members[R(p)] \in Seq(Packages) /\ ToSet(Members[R(p)]) \subseteq Packages
    BY <2>6, Belongs
  <2>8. tree \in [Packages -> Content]
    BY DEF InstallerInv, Typing, TypeOK
  <2>9. c \in Transactions
    <3>1. {y \in ToSet(Members[R(p)]) : tree[y] # None} \in SUBSET Packages
      BY <2>7
    <3> QED
      BY <2>3, <2>7, <2>8, <3>1 DEF Transaction, Transactions
  <2> QED
    BY <2>5, <2>9, MarkerAssumption
<1>6. ASSUME Commit(p) PROVE FALSE
  <2>1. PICK d : d = [closure[at[p]] EXCEPT !.phase = "committed"]
    OBVIOUS
  <2>2. closure' = [closure EXCEPT ![at[p]] = d]
    BY <1>6, <2>1 DEF Commit
  <2>3. m = at[p] /\ d = None
    BY <1>4, <2>2
  <2>4. closure[m] \in Transactions
    BY <1>4
  <2>5. d \in Transactions
    BY <2>1, <2>3, <2>4 DEF Transactions
  <2> QED
    BY <2>3, <2>5, MarkerAssumption
<1>7. UndoMarker(p) => m = at[p]
  BY <1>4 DEF UndoMarker
<1> QED
  BY <1>3, <1>5, <1>6, <1>7

\* When the marker of an activation that was not committed goes, each member
\* is what it was before the activation.
THEOREM RollbackIsExact ==
  ASSUME Separate
  PROVE  Spec => RollbackRestores
<1>1. ASSUME InstallerInv, [Next]_vars
      PROVE  \A m \in Packages :
               closure[m] # None /\ closure'[m] = None /\ closure[m].phase = "prepared" =>
                 \A x \in ToSet(closure[m].members) : tree'[x] = closure[m].was[x]
  <2> SUFFICES ASSUME NEW m \in Packages, closure[m] # None, closure'[m] = None,
                      closure[m].phase = "prepared"
               PROVE  \A x \in ToSet(closure[m].members) : tree'[x] = closure[m].was[x]
    OBVIOUS
  <2>1. PICK p \in Procs : m = at[p] /\ UndoMarker(p)
    BY <1>1, MarkerGoes
  <2>2. pc[p] = "members" /\ left[p] = <<>> /\ tree' = tree /\ pc[p] \in InClosure
    BY <2>1 DEF UndoMarker, Doing, InClosure
  <2>3. ClosureWork(p, m)
    BY <1>1, <2>1, <2>2, ClosureHere
  <2>4. ToSet(left[p]) = {}
    BY <2>2 DEF ToSet
  <2> QED
    BY <2>2, <2>3, <2>4 DEF ClosureWork
<1> QED
  BY <1>1, InstallationIsKept, PTL DEF Spec, RollbackRestores

-----------------------------------------------------------------------------
(* Activation in one step                                                   *)

\* What is at a package of a plugin or agent, and at one that is installed by
\* itself.
InGroup(m, y) == IF Undoes(m, y) THEN Previous(m, y) ELSE tree[y]
ByItself(x) == IF x \in mark /\ tree[x] = None THEN spare[x] ELSE tree[x]

Shown ==
  /\ Present = [y \in Packages |-> Present[y]]
  /\ \A m \in ClosureRoots : \A y \in Group(m) : Present[y] = InGroup(m, y)
  /\ \A x \in SingleRoots : Present[x] = ByItself(x)
  /\ \A y \in Packages : (\A m \in Roots : y \notin Group(m)) => Present[y] = tree[y]

LEMMA PresentIsShown ==
  ASSUME Separate, InstallerInv
  PROVE  Shown
<1>1. ASSUME NEW m \in Packages, NEW y, Undoes(m, y) PROVE m \in ClosureRoots /\ y \in Group(m)
  <2>1. m \in ClosureRoots /\ closure[m] # None
    BY <1>1 DEF Undoes, InstallerInv, DiskInv
  <2>2. Written(m, closure[m])
    BY <2>1 DEF InstallerInv, DiskInv, ClosureDisk
  <2> QED
    BY <1>1, <2>1, <2>2, MarkerNames DEF Undoes
<1>2. \A y \in Packages :
        (\A m \in Packages : ~Undoes(m, y)) =>
          Present[y] = IF y \in mark /\ tree[y] = None THEN spare[y] ELSE tree[y]
  BY DEF Present
<1>3. Present = [y \in Packages |-> Present[y]]
  BY DEF Present
<1>4. ASSUME NEW m \in ClosureRoots, NEW y \in Group(m) PROVE Present[y] = InGroup(m, y)
  <2>1. m \in Packages /\ y \in Packages
    BY RootsArePackages DEF Roots
  <2>2. \A n \in Packages : Undoes(n, y) => n = m
    BY <1>1, GroupsApart
  <2>3. y \notin mark
    <3>1. \A x \in SingleRoots : x # m /\ m \notin SingleRoots
      BY Alone
    <3>2. \A x \in SingleRoots : x \notin Group(m)
      BY <3>1, GroupsApart
    <3> QED
      BY <3>2 DEF InstallerInv, DiskInv
  <2>4. CASE Undoes(m, y)
    <3>1. (CHOOSE n \in Packages : Undoes(n, y)) = m
      BY <2>1, <2>2, <2>4
    <3>2. Present[y] = Previous(CHOOSE n \in Packages : Undoes(n, y), y)
      BY <2>1, <2>4 DEF Present
    <3> QED
      BY <2>4, <3>1, <3>2 DEF InGroup
  <2>5. CASE ~Undoes(m, y)
    BY <1>2, <2>1, <2>2, <2>3, <2>5 DEF InGroup
  <2> QED
    BY <2>4, <2>5
<1>5. ASSUME NEW x \in SingleRoots PROVE Present[x] = ByItself(x)
  <2>1. x \in Packages /\ x \in Group(x)
    BY RootsArePackages DEF Roots
  <2>2. \A m \in Packages : ~Undoes(m, x)
    <3> SUFFICES ASSUME NEW m \in Packages, Undoes(m, x) PROVE FALSE
      OBVIOUS
    <3>1. m \in ClosureRoots /\ x \in Group(m)
      BY <1>1
    <3>2. m # x
      BY <3>1, Alone
    <3> QED
      BY <2>1, <3>1, <3>2, GroupsApart
  <2> QED
    BY <1>2, <2>1, <2>2 DEF ByItself
<1>6. ASSUME NEW y \in Packages, \A m \in Roots : y \notin Group(m) PROVE Present[y] = tree[y]
  <2>1. \A m \in Packages : ~Undoes(m, y)
    BY <1>1, <1>6 DEF Roots
  <2>2. y \notin mark
    BY <1>6, RootsArePackages DEF Roots, InstallerInv, DiskInv
  <2> QED
    BY <1>2, <2>1, <2>2
<1> QED
  BY <1>3, <1>4, <1>5, <1>6 DEF Shown

LEMMA PresentStaysShown ==
  ASSUME Separate
  PROVE  (InstallerInv => Shown)'
<1>1. InstallerInv => Shown
  BY PresentIsShown
<1> QED
  BY <1>1, PTL

\* What a step leaves alone is shown as it was.
LEMMA ElsewhereAsShown ==
  ASSUME Separate, Shown, Shown', NEW m \in Roots, Frame(m), NEW y \in Packages \ Group(m)
  PROVE  Present'[y] = Present[y]
<1>1. \A n \in Roots \ {m} : Same(n)
  BY OthersAreSame
<1>2. ASSUME NEW n \in ClosureRoots, y \in Group(n) PROVE Present'[y] = Present[y]
  <2>1. n # m /\ n \in Roots
    BY <1>2 DEF Roots
  <2>2. Same(n)
    BY <1>1, <2>1
  <2>3. closure'[n] = closure[n] /\ kept'[n] = kept[n] /\ tree'[y] = tree[y]
    BY <1>2, <2>2 DEF Same
  <2>4. InGroup(n, y)' = InGroup(n, y)
    BY <2>3 DEF InGroup, Undoes, Previous
  <2>5. ClosureRoots' = ClosureRoots /\ Group(n)' = Group(n)
    BY DEF ClosureRoots, Group
  <2>6. Present[y] = InGroup(n, y)
    BY <1>2 DEF Shown
  <2>7. Present'[y] = InGroup(n, y)'
    BY <1>2, <2>5 DEF Shown
  <2> QED
    BY <2>4, <2>6, <2>7
<1>3. ASSUME y \in SingleRoots PROVE Present'[y] = Present[y]
  <2>1. y # m /\ y \in Roots /\ y \in Group(y)
    BY <1>3, RootsArePackages DEF Roots
  <2>2. Same(y)
    BY <1>1, <2>1
  <2>3. spare'[y] = spare[y] /\ tree'[y] = tree[y] /\ (y \in mark' <=> y \in mark)
    BY <2>1, <2>2 DEF Same
  <2>4. ByItself(y)' = ByItself(y)
    BY <2>3 DEF ByItself
  <2>5. SingleRoots' = SingleRoots
    BY DEF SingleRoots
  <2>6. Present[y] = ByItself(y)
    BY <1>3 DEF Shown
  <2>7. Present'[y] = ByItself(y)'
    BY <1>3, <2>5 DEF Shown
  <2> QED
    BY <2>4, <2>6, <2>7
<1>4. ASSUME \A n \in Roots : y \notin Group(n) PROVE Present'[y] = Present[y]
  <2>1. tree'[y] = tree[y]
    BY DEF Frame
  <2>2. Roots' = Roots /\ \A n : Group(n)' = Group(n)
    BY DEF Roots, ClosureRoots, SingleRoots, Group
  <2>3. Present[y] = tree[y]
    BY <1>4 DEF Shown
  <2>4. Present'[y] = tree'[y]
    BY <1>4, <2>2 DEF Shown
  <2> QED
    BY <2>1, <2>3, <2>4
<1>5. \A n \in SingleRoots : Group(n) = {n}
  BY Alone
<1> QED
  BY <1>2, <1>3, <1>4, <1>5 DEF Roots

LEMMA GroupAsShown ==
  ASSUME Separate, Shown, Shown', NEW m \in ClosureRoots, Frame(m),
         \A y \in Group(m) : InGroup(m, y)' = InGroup(m, y)
  PROVE  Present' = Present
<1>1. m \in Roots /\ Group(m) \subseteq Packages
  BY RootsArePackages DEF Roots
<1>2. ClosureRoots' = ClosureRoots /\ Group(m)' = Group(m)
  BY DEF ClosureRoots, Group
<1>3. \A y \in Group(m) : Present[y] = InGroup(m, y)
  BY DEF Shown
<1>4. \A y \in Group(m) : Present'[y] = InGroup(m, y)'
  BY <1>2 DEF Shown
<1>5. \A y \in Packages : Present'[y] = Present[y]
  BY <1>1, <1>3, <1>4, ElsewhereAsShown
<1>6. Present = [y \in Packages |-> Present[y]] /\ Present' = [y \in Packages |-> Present'[y]]
  BY DEF Shown
<1> QED
  BY <1>5, <1>6

LEMMA PackageAsShown ==
  ASSUME Separate, Shown, Shown', NEW x \in SingleRoots, Frame(x), ByItself(x)' = ByItself(x)
  PROVE  Present' = Present
<1>1. x \in Roots /\ Group(x) = {x}
  BY Alone DEF Roots
<1>2. SingleRoots' = SingleRoots
  BY DEF SingleRoots
<1>3. Present[x] = ByItself(x)
  BY DEF Shown
<1>4. Present'[x] = ByItself(x)'
  BY <1>2 DEF Shown
<1>5. \A y \in Packages : Present'[y] = Present[y]
  BY <1>1, <1>3, <1>4, ElsewhereAsShown
<1>6. Present = [y \in Packages |-> Present[y]] /\ Present' = [y \in Packages |-> Present'[y]]
  BY DEF Shown
<1> QED
  BY <1>5, <1>6

\* A step that brings a release, all of it.
LEMMA ReleaseIsInstalled ==
  ASSUME Separate, Shown, Shown', NEW r \in Releases, NEW m, m = Root(r), Frame(m), UNCHANGED acked,
         \A y \in ToSet(Members[r]) : Present'[y] = r,
         \A y \in Group(m) \ ToSet(Members[r]) : Present'[y] = Present[y],
         Len(Members[r]) > 1 => Present[m] = None
  PROVE  Atomic!Next
<1>1. m \in Roots /\ ToSet(Members[r]) \subseteq Group(m) /\ m = Members[r][1]
  BY Belongs DEF Roots, ClosureRoots, SingleRoots, Releases
<1>2. \A y \in Packages : Present'[y] = IF y \in ToSet(Members[r]) THEN r ELSE Present[y]
  BY <1>1, ElsewhereAsShown
<1>3. Present' = [y \in Packages |-> Present'[y]]
  BY DEF Shown
<1>4. Present' = [y \in Packages |-> IF y \in ToSet(Members[r]) THEN r ELSE Present[y]]
  BY <1>2, <1>3
<1>5. Atomic!ToSet(Members[r]) = ToSet(Members[r])
  BY DEF Atomic!ToSet, ToSet
<1>6. Atomic!Install(r)
  BY <1>1, <1>4, <1>5 DEF Atomic!Install
<1> QED
  BY <1>6 DEF Atomic!Next

\* A step that changes nothing on the disk.
LEMMA DiskAsShown ==
  ASSUME Separate, Shown, Shown', UNCHANGED disk
  PROVE  Present' = Present
<1>1. \A n, y : InGroup(n, y)' = InGroup(n, y)
  BY DEF disk, InGroup, Undoes, Previous
<1>2. \A y : ByItself(y)' = ByItself(y)
  BY DEF disk, ByItself
<1>3. /\ ClosureRoots' = ClosureRoots /\ SingleRoots' = SingleRoots /\ Roots' = Roots
      /\ \A n : Group(n)' = Group(n)
  BY DEF Roots, ClosureRoots, SingleRoots, Group
<1>4. ASSUME NEW y \in Packages PROVE Present'[y] = Present[y]
  <2>1. ASSUME NEW n \in ClosureRoots, y \in Group(n) PROVE Present'[y] = Present[y]
    <3>1. Present[y] = InGroup(n, y)
      BY <2>1 DEF Shown
    <3>2. Present'[y] = InGroup(n, y)'
      BY <1>3, <2>1 DEF Shown
    <3> QED
      BY <1>1, <3>1, <3>2
  <2>2. ASSUME y \in SingleRoots PROVE Present'[y] = Present[y]
    <3>1. Present[y] = ByItself(y)
      BY <2>2 DEF Shown
    <3>2. Present'[y] = ByItself(y)'
      BY <1>3, <2>2 DEF Shown
    <3> QED
      BY <1>2, <3>1, <3>2
  <2>3. ASSUME \A n \in Roots : y \notin Group(n) PROVE Present'[y] = Present[y]
    <3>1. Present[y] = tree[y]
      BY <2>3 DEF Shown
    <3>2. Present'[y] = tree'[y]
      BY <1>3, <2>3 DEF Shown
    <3> QED
      BY <3>1, <3>2 DEF disk
  <2>4. \A n \in SingleRoots : Group(n) = {n}
    BY Alone
  <2> QED
    BY <2>1, <2>2, <2>3, <2>4 DEF Roots
<1>5. Present = [y \in Packages |-> Present[y]] /\ Present' = [y \in Packages |-> Present'[y]]
  BY DEF Shown
<1> QED
  BY <1>4, <1>5

\* Success is reported of what is there.
LEMMA ReportIsTrue ==
  ASSUME Separate, InstallerInv, Shown, Shown', NEW p \in Procs, Done(p), R(p) \in Releases,
         \A x \in ToSet(Members[R(p)]) : Present[x] = R(p)
  PROVE  Atomic!Next
<1>1. UNCHANGED disk /\ acked' = acked \cup ToSet(Members[R(p)])
  BY DEF Done
<1>2. Present' = Present
  BY <1>1, DiskAsShown
<1>3. Atomic!ToSet(Members[R(p)]) = ToSet(Members[R(p)])
  BY DEF Atomic!ToSet, ToSet
<1>4. Atomic!Report(R(p))
  BY <1>1, <1>2, <1>3 DEF Atomic!Report
<1> QED
  BY <1>4 DEF Atomic!Next

\* A step that changes one package of a closure's.
LEMMA MemberAsShown ==
  ASSUME Separate, Shown, Shown', NEW m \in ClosureRoots, NEW x \in Group(m),
         UNCHANGED <<closure, mark, spare, acked>>,
         \A y \in Packages \ {x} : tree'[y] = tree[y] /\ kept'[m][y] = kept[m][y],
         \A n \in Packages \ {m} : kept'[n] = kept[n],
         InGroup(m, x)' = InGroup(m, x)
  PROVE  UNCHANGED <<Present, acked>>
<1>1. Group(m) \subseteq Packages
  BY RootsArePackages DEF Roots
<1>2. Frame(m)
  BY DEF Frame
<1>3. ASSUME NEW y \in Group(m), y # x PROVE InGroup(m, y)' = InGroup(m, y)
  <2>1. tree'[y] = tree[y] /\ kept'[m][y] = kept[m][y]
    BY <1>1, <1>3
  <2>2. Undoes(m, y)' = Undoes(m, y) /\ Previous(m, y)' = Previous(m, y)
    BY <2>1 DEF Undoes, Previous
  <2> QED
    BY <2>1, <2>2 DEF InGroup
<1>4. \A y \in Group(m) : InGroup(m, y)' = InGroup(m, y)
  BY <1>3
<1> QED
  BY <1>2, <1>4, GroupAsShown

LEMMA UndoRootShown ==
  ASSUME Separate, InstallerInv, Shown, Shown', NEW p \in Procs, UndoRoot(p)
  PROVE  UNCHANGED <<Present, acked>>
<1> PICK m : m = at[p]
  OBVIOUS
<1> PICK c : c = closure[m]
  OBVIOUS
<1>1. pc[p] \in InClosure /\ c # None
  BY DEF UndoRoot, Doing, InClosure
<1>2. m \in ClosureRoots /\ m \in Packages /\ m \in Group(m) /\ ClosureDisk(m)
  BY <1>1, ClosureHere
<1>3. CASE c.phase = "prepared" /\ tree[m] # None /\ (m \notin c.had \/ kept[m][m] # None)
  <2>1. RemoveTree(p, m)
    BY <1>3 DEF UndoRoot
  <2>2. UNCHANGED <<closure, kept, mark, spare, acked>> /\ \A y \in Packages \ {m} : tree'[y] = tree[y]
    BY <2>1 DEF RemoveTree, InstallerInv, Typing, TypeOK
  <2>3. m \in ToSet(c.members)
    BY <1>1, <1>2, MarkerNames DEF ClosureDisk
  <2>4. InGroup(m, m)' = InGroup(m, m)
    BY <1>1, <1>3, <2>2, <2>3 DEF InGroup, Undoes, Previous
  <2> QED
    BY <1>2, <2>2, <2>4, MemberAsShown
<1>4. CASE ~(c.phase = "prepared" /\ tree[m] # None /\ (m \notin c.had \/ kept[m][m] # None))
  <2>1. UNCHANGED <<disk, acked>>
    BY <1>4 DEF UndoRoot
  <2> QED
    BY <2>1, DiskAsShown
<1> QED
  BY <1>3, <1>4

LEMMA RestoreMemberShown ==
  ASSUME Separate, InstallerInv, Shown, Shown', NEW p \in Procs, pc[p] = "members", left[p] # <<>>,
         closure[at[p]].phase = "prepared", RestoreMember(p, at[p], Head(left[p]))
  PROVE  UNCHANGED <<Present, acked>>
<1> PICK m : m = at[p]
  OBVIOUS
<1> PICK c : c = closure[m]
  OBVIOUS
<1> PICK x : x = Head(left[p])
  OBVIOUS
<1> PICK S : S = ToSet(c.members)
  OBVIOUS
<1>1. c.phase = "prepared" /\ RestoreMember(p, m, x)
  OBVIOUS
<1>2. /\ m \in ClosureRoots /\ m \in Packages /\ c # None
      /\ Ordered(left[p], m, S) /\ S \subseteq Group(m) /\ Group(m) \subseteq Packages
  BY MembersHere
<1>3. x \in S /\ x \in Group(m) /\ x \in Packages
  <2>1. Ordered(left[p], m, S) /\ left[p] # <<>>
    BY <1>2
  <2>2. Head(left[p]) \in S
    BY <2>1, RestIsOrdered
  <2> QED
    BY <1>2, <2>2
<1>4. Undoes(m, x)
  BY <1>1, <1>2, <1>3 DEF Undoes
<1>5. CASE tree[x] # None /\ (x \in c.had => kept[m][x] # None) /\ RemoveTree(p, x)
  <2>1. UNCHANGED <<closure, kept, mark, spare, acked>> /\ \A y \in Packages \ {x} : tree'[y] = tree[y]
    BY <1>5 DEF RemoveTree, InstallerInv, Typing, TypeOK
  <2>2. InGroup(m, x)' = InGroup(m, x)
    BY <1>4, <1>5, <2>1 DEF InGroup, Undoes, Previous
  <2> QED
    BY <1>2, <1>3, <2>1, <2>2, MemberAsShown
<1>6. CASE /\ x \in c.had /\ kept[m][x] # None /\ tree[x] = None
           /\ tree' = [tree EXCEPT ![x] = kept[m][x]] /\ kept' = [kept EXCEPT ![m][x] = None]
           /\ Advance(p) /\ UNCHANGED <<closure, mark, spare, lock, acked, faults>>
  <2>1. /\ tree'[x] = kept[m][x] /\ kept'[m][x] = None
        /\ \A y \in Packages \ {x} : tree'[y] = tree[y] /\ kept'[m][y] = kept[m][y]
        /\ \A n \in Packages \ {m} : kept'[n] = kept[n]
    BY <1>2, <1>3, <1>6 DEF InstallerInv, Typing, TypeOK
  <2>2. InGroup(m, x)' = InGroup(m, x)
    BY <1>4, <1>6, <2>1 DEF InGroup, Undoes, Previous
  <2> QED
    BY <1>2, <1>3, <1>6, <2>1, <2>2, MemberAsShown
<1>7. CASE UNCHANGED <<disk, acked>>
  BY <1>7, DiskAsShown
<1> QED
  BY <1>1, <1>5, <1>6, <1>7 DEF RestoreMember, Fail

LEMMA FinishMemberShown ==
  ASSUME Separate, InstallerInv, Shown, Shown', NEW p \in Procs, pc[p] = "members", left[p] # <<>>,
         closure[at[p]].phase # "prepared", FinishMember(p, at[p], Head(left[p]))
  PROVE  UNCHANGED <<Present, acked>>
<1> PICK m : m = at[p]
  OBVIOUS
<1> PICK c : c = closure[m]
  OBVIOUS
<1> PICK x : x = Head(left[p])
  OBVIOUS
<1> PICK S : S = ToSet(c.members)
  OBVIOUS
<1>1. c.phase # "prepared" /\ FinishMember(p, m, x)
  OBVIOUS
<1>2. /\ m \in ClosureRoots /\ m \in Packages /\ c # None
      /\ Ordered(left[p], m, S) /\ S \subseteq Group(m) /\ Group(m) \subseteq Packages
  BY MembersHere
<1>3. x \in S /\ x \in Group(m) /\ x \in Packages
  <2>1. Ordered(left[p], m, S) /\ left[p] # <<>>
    BY <1>2
  <2>2. Head(left[p]) \in S
    BY <2>1, RestIsOrdered
  <2> QED
    BY <1>2, <2>2
<1>4. ~Undoes(m, x)
  BY <1>1 DEF Undoes
<1>5. CASE /\ tree[x] # None /\ kept[m][x] # None
           /\ kept' = [kept EXCEPT ![m][x] = Removed(@)]
           /\ UNCHANGED <<tree, closure, mark, spare, lock, local, acked, faults>>
  <2>1. /\ \A y \in Packages \ {x} : kept'[m][y] = kept[m][y]
        /\ \A n \in Packages \ {m} : kept'[n] = kept[n]
    BY <1>2, <1>3, <1>5 DEF InstallerInv, Typing, TypeOK
  <2>2. InGroup(m, x)' = InGroup(m, x)
    BY <1>4, <1>5 DEF InGroup, Undoes
  <2> QED
    BY <1>2, <1>3, <1>5, <2>1, <2>2, MemberAsShown
<1>6. CASE UNCHANGED <<disk, acked>>
  BY <1>6, DiskAsShown
<1> QED
  BY <1>1, <1>5, <1>6 DEF FinishMember, Fail

LEMMA UndoMemberShown ==
  ASSUME Separate, InstallerInv, Shown, Shown', NEW p \in Procs, UndoMember(p)
  PROVE  UNCHANGED <<Present, acked>>
BY RestoreMemberShown, FinishMemberShown DEF UndoMember, Doing

\* A step that changes the marker of a closure.
LEMMA MarkerAsShown ==
  ASSUME Separate, Shown, Shown', NEW m \in ClosureRoots,
         UNCHANGED <<tree, kept, mark, spare, acked>>,
         \A n \in Packages \ {m} : closure'[n] = closure[n],
         \A y \in Group(m) : InGroup(m, y)' = InGroup(m, y)
  PROVE  UNCHANGED <<Present, acked>>
<1>1. Frame(m)
  BY DEF Frame
<1> QED
  BY <1>1, GroupAsShown

\* When the marker of a rollback goes, all is as it was.
LEMMA UndoMarkerShown ==
  ASSUME Separate, InstallerInv, Shown, Shown', NEW p \in Procs, UndoMarker(p)
  PROVE  UNCHANGED <<Present, acked>>
<1> PICK m : m = at[p]
  OBVIOUS
<1> PICK c : c = closure[m]
  OBVIOUS
<1> PICK S : S = ToSet(c.members)
  OBVIOUS
<1>1. /\ pc[p] = "members" /\ left[p] = <<>>
      /\ closure' = [closure EXCEPT ![m] = None]
      /\ UNCHANGED <<tree, kept, mark, spare, acked>>
  BY DEF UndoMarker, Doing
<1>2. /\ m \in ClosureRoots /\ m \in Packages /\ ClosureWork(p, m) /\ c # None /\ Written(m, c)
  BY <1>1, MembersHere
<1>3. closure'[m] = None /\ \A n \in Packages \ {m} : closure'[n] = closure[n]
  BY <1>1, <1>2 DEF InstallerInv, Typing, TypeOK
<1>4. ToSet(left[p]) = {}
  BY <1>1 DEF ToSet
<1>5. \A y \in S : y \in c.had <=> c.was[y] # None
  BY <1>2, MarkerNames
<1>6. ASSUME NEW y \in Group(m) PROVE InGroup(m, y)' = InGroup(m, y)
  <2>1. InGroup(m, y)' = tree[y]
    BY <1>1, <1>3 DEF InGroup, Undoes
  <2>2. CASE Undoes(m, y)
    <3>1. y \in S /\ c.phase = "prepared"
      BY <2>2 DEF Undoes
    <3>2. kept[m][y] = None /\ tree[y] = c.was[y]
      BY <1>1, <1>2, <1>4, <3>1 DEF ClosureWork
    <3>3. Previous(m, y) = tree[y]
      BY <1>5, <3>1, <3>2 DEF Previous
    <3> QED
      BY <2>1, <2>2, <3>3 DEF InGroup
  <2>3. CASE ~Undoes(m, y)
    BY <2>1, <2>3 DEF InGroup
  <2> QED
    BY <2>2, <2>3
<1> QED
  BY <1>1, <1>2, <1>3, <1>6, MarkerAsShown

\* The marker says how to put back what is there.
LEMMA PrepareShown ==
  ASSUME Separate, InstallerInv, Shown, Shown', NEW p \in Procs, Prepare(p)
  PROVE  UNCHANGED <<Present, acked>>
<1> PICK m : m = at[p]
  OBVIOUS
<1>1. pc[p] = "check" /\ pc[p] \in InClosure
  BY DEF Prepare, Doing, InClosure
<1>2. m \in ClosureRoots /\ m \in Packages /\ ClosureDisk(m) /\ ClosureWork(p, m)
  BY <1>1, ClosureHere
<1>3. m = Target(p) /\ closure[m] = None
  BY <1>1, <1>2 DEF ClosureWork
<1>4. CASE Fail(p)
  BY <1>4, DiskAsShown DEF Fail
<1>5. CASE ~Fail(p)
  <2> PICK c : c = Transaction(tree, R(p), "prepared")
    OBVIOUS
  <2>1. closure' = [closure EXCEPT ![m] = c] /\ UNCHANGED <<tree, kept, mark, spare, acked>>
    BY <1>3, <1>5 DEF Prepare
  <2>2. closure'[m] = c /\ \A n \in Packages \ {m} : closure'[n] = closure[n]
    BY <1>2, <2>1 DEF InstallerInv, Typing, TypeOK
  <2>3. c.had = {y \in ToSet(c.members) : tree[y] # None}
    BY DEF Transaction
  <2>4. ASSUME NEW y \in Group(m) PROVE InGroup(m, y)' = InGroup(m, y)
    <3>1. kept[m][y] = None
      BY <1>2, <1>3 DEF ClosureDisk, Settled
    <3>2. InGroup(m, y) = tree[y]
      BY <1>3 DEF InGroup, Undoes
    <3>3. Undoes(m, y)' => y \in ToSet(c.members)
      BY <2>2 DEF Undoes
    <3>4. Undoes(m, y)' => Previous(m, y)' = tree[y]
      BY <2>1, <2>2, <2>3, <3>1, <3>3 DEF Previous
    <3>5. InGroup(m, y)' = tree[y]
      BY <2>1, <3>4 DEF InGroup
    <3> QED
      BY <3>2, <3>5
  <2> QED
    BY <1>2, <2>1, <2>2, <2>4, MarkerAsShown
<1> QED
  BY <1>4, <1>5

\* A previous installation that makes room is what would be put back.
LEMMA KeepPreviousShown ==
  ASSUME Separate, InstallerInv, Shown, Shown', NEW p \in Procs, pc[p] \in {"deactivate", "activate"},
         NEW x \in ToSet(closure[at[p]].members), x \in closure[at[p]].had, kept[at[p]][x] = None,
         KeepPrevious(p, x, "activate")
  PROVE  UNCHANGED <<Present, acked>>
<1> PICK m : m = at[p]
  OBVIOUS
<1> PICK c : c = closure[m]
  OBVIOUS
<1> PICK S : S = ToSet(c.members)
  OBVIOUS
<1>1. /\ m \in ClosureRoots /\ m \in Packages /\ Group(m) \subseteq Packages
      /\ c # None /\ c.phase = "prepared" /\ S \subseteq Group(m)
      /\ \A y \in S : Recoverable(m, y) /\ (y \in c.had <=> c.was[y] # None)
  BY ActivationHere
<1>2. x \in S /\ x \in Group(m) /\ x \in Packages /\ x \in c.had
  BY <1>1
<1>3. tree[x] # None /\ kept[m][x] = None
  BY <1>1, <1>2 DEF Recoverable
<1>4. /\ kept' = [kept EXCEPT ![m][x] = tree[x]]
      /\ tree' = [tree EXCEPT ![x] = None]
      /\ UNCHANGED <<closure, mark, spare, acked>>
  BY DEF KeepPrevious
<1>5. /\ kept'[m][x] = tree[x]
      /\ \A y \in Packages \ {x} : tree'[y] = tree[y] /\ kept'[m][y] = kept[m][y]
      /\ \A n \in Packages \ {m} : kept'[n] = kept[n]
  BY <1>1, <1>2, <1>4 DEF InstallerInv, Typing, TypeOK
<1>6. Undoes(m, x) /\ Undoes(m, x)'
  BY <1>1, <1>2, <1>4 DEF Undoes
<1>7. Previous(m, x) = tree[x] /\ Previous(m, x)' = tree[x]
  BY <1>2, <1>3, <1>4, <1>5 DEF Previous
<1>8. InGroup(m, x)' = InGroup(m, x)
  BY <1>6, <1>7 DEF InGroup
<1> QED
  BY <1>1, <1>2, <1>4, <1>5, <1>8, MemberAsShown

LEMMA DeactivateShown ==
  ASSUME Separate, InstallerInv, Shown, Shown', NEW p \in Procs, Deactivate(p)
  PROVE  UNCHANGED <<Present, acked>>
<1> PICK m : m = at[p]
  OBVIOUS
<1> PICK c : c = closure[m]
  OBVIOUS
<1> PICK S : S = ToSet(c.members)
  OBVIOUS
<1>1. pc[p] = "deactivate"
  BY DEF Deactivate, Doing
<1>2. ClosureWork(p, m) /\ m \in S /\ c.members = Members[R(p)]
  BY <1>1, ActivationHere
<1>3. kept[m][m] = None
  BY <1>1, <1>2 DEF ClosureWork
<1>4. CASE m \in c.had /\ KeepPrevious(p, m, "activate")
  BY <1>1, <1>2, <1>3, <1>4, KeepPreviousShown
<1>5. CASE Pass(p, "activate")
  BY <1>5, DiskAsShown DEF Pass
<1> QED
  BY <1>4, <1>5 DEF Deactivate

LEMMA MakeRoomShown ==
  ASSUME Separate, InstallerInv, Shown, Shown', NEW p \in Procs, MakeRoom(p)
  PROVE  UNCHANGED <<Present, acked>>
<1> PICK m : m = at[p]
  OBVIOUS
<1> PICK c : c = closure[m]
  OBVIOUS
<1> PICK S : S = ToSet(c.members)
  OBVIOUS
<1> PICK x : x = Head(left[p])
  OBVIOUS
<1>1. /\ pc[p] = "activate" /\ left[p] # <<>> /\ x \in c.had /\ kept[m][x] = None
      /\ KeepPrevious(p, x, "activate")
  BY DEF MakeRoom, Doing
<1>2. Ordered(left[p], m, S) /\ left[p] # <<>>
  BY <1>1, ActivationHere
<1>3. x \in S
  BY <1>2, RestIsOrdered
<1> QED
  BY <1>1, <1>3, KeepPreviousShown

\* A member is not shown before all are there.
LEMMA ActivateShown ==
  ASSUME Separate, InstallerInv, Shown, Shown', NEW p \in Procs, Activate(p)
  PROVE  UNCHANGED <<Present, acked>>
<1> PICK m : m = at[p]
  OBVIOUS
<1> PICK c : c = closure[m]
  OBVIOUS
<1> PICK S : S = ToSet(c.members)
  OBVIOUS
<1> PICK x : x = Head(left[p])
  OBVIOUS
<1>1. pc[p] = "activate" /\ left[p] # <<>> /\ (x \in c.had => kept[m][x] # None)
  BY DEF Activate, Doing
<1>2. /\ m \in ClosureRoots /\ m \in Packages /\ Group(m) \subseteq Packages
      /\ c # None /\ c.phase = "prepared" /\ S \subseteq Group(m)
      /\ Ordered(left[p], m, S)
  <2>1. pc[p] \in {"deactivate", "activate"}
    BY <1>1
  <2> QED
    BY <2>1, ActivationHere
<1>3. x \in S /\ x \in Group(m) /\ x \in Packages
  <2>1. Ordered(left[p], m, S) /\ left[p] # <<>>
    BY <1>1, <1>2
  <2>2. Head(left[p]) \in S
    BY <2>1, RestIsOrdered
  <2> QED
    BY <1>2, <2>2
<1>4. CASE tree[x] # None
  <2>1. UNCHANGED <<disk, acked>>
    BY <1>4 DEF Activate, Rollback
  <2> QED
    BY <2>1, DiskAsShown
<1>5. CASE tree[x] = None
  <2>1. /\ tree' = [tree EXCEPT ![x] = R(p)]
        /\ UNCHANGED <<closure, kept, mark, spare, acked>>
    BY <1>5 DEF Activate
  <2>2. \A y \in Packages \ {x} : tree'[y] = tree[y]
    BY <1>3, <2>1 DEF InstallerInv, Typing, TypeOK
  <2>3. Undoes(m, x) /\ Undoes(m, x)'
    BY <1>2, <1>3, <2>1 DEF Undoes
  <2>4. Previous(m, x)' = Previous(m, x)
    BY <1>1, <2>1 DEF Previous
  <2>5. InGroup(m, x)' = InGroup(m, x)
    BY <2>3, <2>4 DEF InGroup
  <2> QED
    BY <1>2, <1>3, <2>1, <2>2, <2>5, MemberAsShown
<1> QED
  BY <1>4, <1>5

\* The commit shows all members at once.
LEMMA CommitShown ==
  ASSUME Separate, InstallerInv, Shown, Shown', NEW p \in Procs, Commit(p)
  PROVE  Atomic!Next
<1> PICK m : m = at[p]
  OBVIOUS
<1> PICK c : c = closure[m]
  OBVIOUS
<1> PICK S : S = ToSet(c.members)
  OBVIOUS
<1> PICK r : r = R(p)
  OBVIOUS
<1> PICK d : d = [c EXCEPT !.phase = "committed"]
  OBVIOUS
<1>1. /\ pc[p] = "activate" /\ left[p] = <<>>
      /\ closure' = [closure EXCEPT ![m] = d]
      /\ UNCHANGED <<tree, kept, mark, spare, acked>>
  BY DEF Commit, Doing
<1>2. /\ m \in ClosureRoots /\ m \in Packages /\ r \in Closures /\ m = Target(p)
      /\ c # None /\ c.phase = "prepared" /\ c.members = Members[r] /\ Written(m, c)
      /\ \A y \in S \ ToSet(left[p]) : tree[y] = r
      /\ m \in S /\ S \subseteq Group(m)
      /\ \A y \in S : Recoverable(m, y) /\ (y \in c.had <=> c.was[y] # None)
  <2>1. pc[p] \in {"deactivate", "activate"}
    BY <1>1
  <2> QED
    BY <2>1, ActivationHere
<1>3. c \in Transactions
  BY <1>2 DEF InstallerInv, Typing
<1>4. d.phase = "committed"
  BY <1>3 DEF Transactions
<1>5. closure'[m] = d /\ \A n \in Packages \ {m} : closure'[n] = closure[n]
  BY <1>1, <1>2 DEF InstallerInv, Typing
<1>6. r \in Releases /\ m = Root(r) /\ S = ToSet(Members[r])
  BY <1>2 DEF Releases, Target
<1>7. \A y \in S : tree[y] = r
  <2>1. ToSet(left[p]) = {}
    BY <1>1 DEF ToSet
  <2> QED
    BY <1>2, <2>1
<1>8. Frame(m)
  BY <1>1, <1>5 DEF Frame
<1>9. /\ \A y \in Group(m) : Present[y] = InGroup(m, y)
      /\ \A y \in Group(m) : Present'[y] = InGroup(m, y)'
  <2>1. ClosureRoots' = ClosureRoots /\ Group(m)' = Group(m)
    BY DEF ClosureRoots, Group
  <2>2. \A y \in Group(m) : Present[y] = InGroup(m, y)
    BY <1>2 DEF Shown
  <2>3. \A y \in Group(m) : Present'[y] = InGroup(m, y)'
    BY <1>2, <2>1 DEF Shown
  <2> QED
    BY <2>2, <2>3
<1>10. \A y : InGroup(m, y)' = tree[y]
  BY <1>1, <1>4, <1>5 DEF InGroup, Undoes
<1>11. \A y \in S : Present'[y] = r
  BY <1>2, <1>7, <1>9, <1>10
<1>12. \A y \in Group(m) \ S : InGroup(m, y) = tree[y]
  BY DEF InGroup, Undoes
<1>13. \A y \in Group(m) \ S : Present'[y] = Present[y]
  BY <1>9, <1>10, <1>12
<1>14. Len(Members[r]) > 1 => Present[m] = None
  <2> SUFFICES ASSUME Len(Members[r]) > 1 PROVE Present[m] = None
    OBVIOUS
  <2>1. m \notin c.had
    BY <1>2 DEF Written
  <2>2. Undoes(m, m) /\ Previous(m, m) = None
    BY <1>2, <2>1 DEF Undoes, Previous
  <2> QED
    BY <1>2, <1>9, <2>2 DEF InGroup
<1> QED
  BY <1>1, <1>6, <1>8, <1>11, <1>13, <1>14, ReleaseIsInstalled

\* A step that changes a package that is installed by itself.
LEMMA TreeAsShown ==
  ASSUME Separate, Shown, Shown', NEW x \in SingleRoots,
         UNCHANGED <<closure, kept, acked>>,
         \A y \in Packages \ {x} : tree'[y] = tree[y] /\ spare'[y] = spare[y] /\ (y \in mark' <=> y \in mark),
         ByItself(x)' = ByItself(x)
  PROVE  UNCHANGED <<Present, acked>>
<1>1. Group(x) = {x}
  BY Alone
<1>2. Frame(x)
  BY <1>1 DEF Frame
<1> QED
  BY <1>2, PackageAsShown

LEMMA RestoreShown ==
  ASSUME Separate, InstallerInv, Shown, Shown', NEW p \in Procs, Restore(p)
  PROVE  UNCHANGED <<Present, acked>>
<1> PICK x : x = at[p]
  OBVIOUS
<1>1. pc[p] = "restore" /\ pc[p] \in InTree /\ x \in mark
  BY DEF Restore, Doing, InTree
<1>2. x \in SingleRoots /\ x \in Packages
  BY <1>1, TreeHere
<1>3. tree \in [Packages -> Content] /\ spare \in [Packages -> Content]
  BY DEF InstallerInv, Typing, TypeOK
<1>4. CASE /\ tree[x] = None /\ spare[x] # None
           /\ tree' = [tree EXCEPT ![x] = spare[x]] /\ spare' = [spare EXCEPT ![x] = None]
           /\ GoTo(p, "unmark") /\ UNCHANGED <<closure, kept, mark, lock, acked, faults>>
  <2>1. /\ tree'[x] = spare[x]
        /\ \A y \in Packages \ {x} : tree'[y] = tree[y] /\ spare'[y] = spare[y]
    BY <1>2, <1>3, <1>4
  <2>2. ByItself(x)' = ByItself(x)
    BY <1>1, <1>4, <2>1 DEF ByItself
  <2> QED
    BY <1>2, <1>4, <2>1, <2>2, TreeAsShown
<1>5. CASE /\ tree[x] # None /\ spare[x] # None
           /\ spare' = [spare EXCEPT ![x] = Removed(@)]
           /\ UNCHANGED <<tree, closure, kept, mark, lock, local, acked, faults>>
  <2>1. \A y \in Packages \ {x} : spare'[y] = spare[y]
    BY <1>2, <1>3, <1>5
  <2>2. ByItself(x)' = ByItself(x)
    BY <1>5 DEF ByItself
  <2> QED
    BY <1>2, <1>5, <2>1, <2>2, TreeAsShown
<1>6. CASE UNCHANGED <<disk, acked>>
  BY <1>6, DiskAsShown
<1> QED
  BY <1>4, <1>5, <1>6 DEF Restore, Fail, Pass

LEMMA UnmarkShown ==
  ASSUME Separate, InstallerInv, Shown, Shown', NEW p \in Procs, Unmark(p)
  PROVE  UNCHANGED <<Present, acked>>
<1> PICK x : x = at[p]
  OBVIOUS
<1>1. /\ pc[p] = "unmark" /\ pc[p] \in InTree /\ mark' = mark \ {x}
      /\ UNCHANGED <<tree, closure, kept, spare, acked>>
  BY DEF Unmark, Doing, InTree
<1>2. x \in SingleRoots /\ TreeWork(p, x)
  BY <1>1, TreeHere
<1>3. tree[x] # None
  BY <1>1, <1>2, InstallerAssumption DEF TreeWork, Whole
<1>4. ByItself(x)' = ByItself(x)
  BY <1>1, <1>3 DEF ByItself
<1> QED
  BY <1>1, <1>2, <1>4, TreeAsShown

LEMMA LookShown ==
  ASSUME Separate, InstallerInv, Shown, Shown', NEW p \in Procs, Look(p)
  PROVE  UNCHANGED <<Present, acked>>
<1> PICK x : x = at[p]
  OBVIOUS
<1>1. pc[p] = "look" /\ pc[p] \in InTree
  BY DEF Look, Doing, InTree
<1>2. x \in SingleRoots
  BY <1>1, TreeHere
<1>3. CASE /\ tree[x] # None /\ job[p].force
           /\ mark' = mark \cup {x} /\ GoTo(p, "preserve")
           /\ UNCHANGED <<tree, closure, kept, spare, lock, acked, faults>>
  <2>1. ByItself(x)' = ByItself(x)
    BY <1>3 DEF ByItself
  <2> QED
    BY <1>2, <1>3, <2>1, TreeAsShown
<1>4. CASE UNCHANGED <<disk, acked>>
  BY <1>4, DiskAsShown
<1> QED
  BY <1>3, <1>4 DEF Look, Fail, Pass

LEMMA PreserveShown ==
  ASSUME Separate, InstallerInv, Shown, Shown', NEW p \in Procs, Preserve(p)
  PROVE  UNCHANGED <<Present, acked>>
<1> PICK x : x = at[p]
  OBVIOUS
<1>1. /\ pc[p] = "preserve" /\ pc[p] \in InTree
      /\ spare' = [spare EXCEPT ![x] = tree[x]] /\ tree' = [tree EXCEPT ![x] = None]
      /\ UNCHANGED <<closure, kept, mark, acked>>
  BY DEF Preserve, Doing, InTree
<1>2. x \in SingleRoots /\ x \in Packages /\ TreeWork(p, x)
  BY <1>1, TreeHere
<1>3. x \in mark /\ tree[x] # None
  BY <1>1, <1>2, InstallerAssumption DEF TreeWork, Whole
<1>4. /\ tree'[x] = None /\ spare'[x] = tree[x]
      /\ \A y \in Packages \ {x} : tree'[y] = tree[y] /\ spare'[y] = spare[y]
  BY <1>1, <1>2 DEF InstallerInv, Typing, TypeOK
<1>5. ByItself(x)' = ByItself(x)
  BY <1>1, <1>3, <1>4 DEF ByItself
<1> QED
  BY <1>1, <1>2, <1>4, <1>5, TreeAsShown

\* One rename shows a release of one package.
LEMMA PackageIsInstalled ==
  ASSUME Separate, Shown, Shown', NEW r \in Singles, NEW x, x = Root(r), x \in Packages,
         tree \in [Packages -> Content], tree' = [tree EXCEPT ![x] = r],
         UNCHANGED <<closure, kept, mark, spare, acked>>
  PROVE  Atomic!Next
<1>1. r \in Releases /\ x \in SingleRoots /\ Group(x) = {x}
  BY Alone DEF Releases, SingleRoots
<1>2. Len(Members[r]) = 1 /\ ToSet(Members[r]) = {x}
  BY <1>1, Belongs, InstallerAssumption
<1>3. tree'[x] = r /\ \A y \in Packages \ {x} : tree'[y] = tree[y]
  OBVIOUS
<1>4. Frame(x)
  BY <1>1, <1>3 DEF Frame
<1>5. Present'[x] = ByItself(x)'
  <2>1. SingleRoots' = SingleRoots
    BY DEF SingleRoots
  <2> QED
    BY <1>1, <2>1 DEF Shown
<1>6. ByItself(x)' = r
  BY <1>1, <1>3, InstallerAssumption DEF ByItself
<1>7. /\ \A y \in ToSet(Members[r]) : Present'[y] = r
      /\ \A y \in Group(x) \ ToSet(Members[r]) : Present'[y] = Present[y]
      /\ ~(Len(Members[r]) > 1)
  BY <1>1, <1>2, <1>5, <1>6
<1> QED
  BY <1>1, <1>4, <1>7, ReleaseIsInstalled

LEMMA PlaceShown ==
  ASSUME Separate, InstallerInv, Shown, Shown', NEW p \in Procs, Place(p)
  PROVE  Atomic!Next
<1> PICK x : x = at[p]
  OBVIOUS
<1>1. /\ pc[p] = "place" /\ pc[p] \in InTree /\ tree' = [tree EXCEPT ![x] = R(p)]
      /\ UNCHANGED <<closure, kept, mark, spare, acked>>
  BY DEF Place, Doing, InTree
<1>2. x \in Packages /\ TreeWork(p, x)
  BY <1>1, TreeHere
<1>3. R(p) \in Singles /\ x = Root(R(p))
  BY <1>1, <1>2 DEF TreeWork, Target
<1>4. tree \in [Packages -> Content]
  BY DEF InstallerInv, Typing, TypeOK
<1> QED
  BY <1>1, <1>2, <1>3, <1>4, PackageIsInstalled

LEMMA SwapShown ==
  ASSUME Separate, InstallerInv, Shown, Shown', NEW p \in Procs, Swap(p)
  PROVE  Atomic!Next \/ UNCHANGED <<Present, acked>>
<1> PICK x : x = at[p]
  OBVIOUS
<1>1. /\ pc[p] = "swap" /\ pc[p] \in InTree /\ tree[x] = None
      /\ UNCHANGED <<closure, kept, mark, acked>>
  BY DEF Swap, Doing, InTree
<1>2. x \in Packages /\ x \in SingleRoots /\ TreeWork(p, x)
  BY <1>1, TreeHere
<1>3. R(p) \in Singles /\ x = Root(R(p)) /\ x \in mark
  BY <1>1, <1>2 DEF TreeWork, Target
<1>4. tree \in [Packages -> Content] /\ spare \in [Packages -> Content]
  BY DEF InstallerInv, Typing, TypeOK
<1>5. CASE tree' = [tree EXCEPT ![x] = R(p)] /\ UNCHANGED spare
  BY <1>1, <1>2, <1>3, <1>4, <1>5, PackageIsInstalled
<1>6. CASE tree' = [tree EXCEPT ![x] = spare[x]] /\ spare' = [spare EXCEPT ![x] = None]
  <2>1. /\ tree'[x] = spare[x]
        /\ \A y \in Packages \ {x} : tree'[y] = tree[y] /\ spare'[y] = spare[y]
    BY <1>2, <1>4, <1>6
  <2>2. spare[x] # None
    BY <1>1, <1>2, InstallerAssumption DEF TreeWork, Whole
  <2>3. ByItself(x)' = ByItself(x)
    BY <1>1, <1>3, <2>1, <2>2 DEF ByItself
  <2>4. UNCHANGED <<Present, acked>>
    BY <1>1, <1>2, <2>1, <2>3, TreeAsShown
  <2> QED
    BY <2>4
<1> QED
  BY <1>5, <1>6 DEF Swap

\* Success is reported of a release that is there.
LEMMA UndoneShown ==
  ASSUME Separate, InstallerInv, Shown, Shown', NEW p \in Procs, Undone(p)
  PROVE  Atomic!Next \/ UNCHANGED <<Present, acked>>
<1> PICK m : m = at[p]
  OBVIOUS
<1>1. pc[p] \in InClosure /\ closure[m] = None
  BY DEF Undone, Doing, InClosure
<1>2. m \in ClosureRoots /\ ClosureWork(p, m) /\ R(p) \in Releases
  BY <1>1, ClosureHere
<1>3. CASE UNCHANGED <<disk, acked>>
  BY <1>3, DiskAsShown
<1>4. CASE back[p] = "done" /\ Done(p)
  <2>1. m = Target(p) /\ \A y \in ToSet(Members[R(p)]) : tree[y] = R(p)
    BY <1>2, <1>4 DEF ClosureWork
  <2>2. ToSet(Members[R(p)]) \subseteq Group(m)
    BY <1>2, <2>1, Belongs DEF Target
  <2>3. \A y \in Group(m) : Present[y] = tree[y]
    BY <1>1, <1>2 DEF Shown, InGroup, Undoes
  <2>4. \A y \in ToSet(Members[R(p)]) : Present[y] = R(p)
    BY <2>1, <2>2, <2>3
  <2> QED
    BY <1>2, <1>4, <2>4, ReportIsTrue
<1> QED
  BY <1>3, <1>4 DEF Undone, Pass, Fail

\* ... of one package.
LEMMA PackageIsReported ==
  ASSUME Separate, InstallerInv, Shown, Shown', NEW p \in Procs, pc[p] \in InTree,
         pc[p] = "placed" \/ back[p] = "done", Done(p)
  PROVE  Atomic!Next
<1> PICK x : x = at[p]
  OBVIOUS
<1>1. x \in SingleRoots /\ TreeWork(p, x) /\ R(p) \in Releases
  BY TreeHere
<1>2. tree[x] = R(p) /\ R(p) \in Singles /\ x = Target(p)
  BY <1>1 DEF TreeWork
<1>3. ToSet(Members[R(p)]) = {x}
  BY <1>1, <1>2, Belongs, InstallerAssumption DEF Target
<1>4. Present[x] = R(p)
  BY <1>1, <1>2, InstallerAssumption DEF Shown, ByItself
<1> QED
  BY <1>1, <1>3, <1>4, ReportIsTrue

LEMMA RestoredShown ==
  ASSUME Separate, InstallerInv, Shown, Shown', NEW p \in Procs, Restored(p)
  PROVE  Atomic!Next \/ UNCHANGED <<Present, acked>>
<1>1. pc[p] \in InTree
  BY DEF Restored, Doing, InTree
<1>2. CASE UNCHANGED <<disk, acked>>
  BY <1>2, DiskAsShown
<1>3. CASE back[p] = "done" /\ Done(p)
  BY <1>1, <1>3, PackageIsReported
<1> QED
  BY <1>2, <1>3 DEF Restored, Pass, Fail

LEMMA PlacedShown ==
  ASSUME Separate, InstallerInv, Shown, Shown', NEW p \in Procs, Placed(p)
  PROVE  Atomic!Next
<1>1. pc[p] = "placed" /\ pc[p] \in InTree /\ Done(p)
  BY DEF Placed, Doing, InTree
<1> QED
  BY <1>1, PackageIsReported

\* Every step installs a release, reports one, or changes nothing.
LEMMA StepIsAtomic ==
  ASSUME Separate, InstallerInv, Shown, Shown', [Next]_vars
  PROVE  Atomic!Next \/ UNCHANGED <<Present, acked>>
<1>1. CASE UNCHANGED <<disk, acked>>
  BY <1>1, DiskAsShown
<1>2. ASSUME NEW p \in Procs, Work(p) PROVE Atomic!Next \/ UNCHANGED <<Present, acked>>
  <2>1. CASE \/ PickClosure(p) \/ ClaimClosure(p) \/ Trees(p) \/ PickTree(p) \/ Fetch(p)
             \/ LockMembers(p) \/ Lapse(p)
    <3>1. UNCHANGED <<disk, acked>>
      BY <2>1 DEF PickClosure, ClaimClosure, Trees, PickTree, Fetch, LockMembers, Lapse, Rollback, Pass, Fail
    <3> QED
      BY <1>1, <3>1
  <2>2. CASE \/ UndoRoot(p) \/ UndoMember(p) \/ UndoMarker(p) \/ Undone(p)
             \/ Restore(p) \/ Unmark(p) \/ Restored(p)
    BY <2>2, UndoRootShown, UndoMemberShown, UndoMarkerShown, UndoneShown,
       RestoreShown, UnmarkShown, RestoredShown
  <2>3. CASE Prepare(p) \/ Deactivate(p) \/ MakeRoom(p) \/ Activate(p) \/ Commit(p)
    BY <2>3, PrepareShown, DeactivateShown, MakeRoomShown, ActivateShown, CommitShown
  <2>4. CASE Look(p) \/ Place(p) \/ Placed(p) \/ Preserve(p) \/ Swap(p)
    BY <2>4, LookShown, PlaceShown, PlacedShown, PreserveShown, SwapShown
  <2> QED
    BY <1>2, <2>1, <2>2, <2>3, <2>4 DEF Work
<1>3. ASSUME NEW p \in Procs, (\E j \in Job : Begin(p, j)) \/ Crash(p) PROVE UNCHANGED <<disk, acked>>
  BY <1>3 DEF Begin, Crash
<1> QED
  BY <1>1, <1>2, <1>3 DEF Next, vars

\* At first each package is there that was installed before.
LEMMA PresentAtFirst ==
  ASSUME Separate, Init
  PROVE  Atomic!Init
<1>1. \A m \in Packages, x \in Packages : ~Undoes(m, x)
  BY DEF Init, Undoes
<1>2. mark = {} /\ acked = Earlier
  BY DEF Init
<1>3. Present = [x \in Packages |-> tree[x]]
  BY <1>1, <1>2 DEF Present
<1> QED
  BY <1>2, <1>3 DEF Init, Atomic!Init

\* Whatever is interrupted, and by whomever it is recovered: a release takes
\* the place of what was there in one step, and success is reported while it
\* is there (atomicInstallClosureChecked, atomicInstallTreeChecked and the
\* recoveries implement Activation).
THEOREM InstallsAtOnce ==
  ASSUME Separate
  PROVE  Spec => ImplementsActivation
<1>1. Init => Atomic!Init
  BY PresentAtFirst
<1>2. InstallerInv => Shown
  BY PresentIsShown
<1>3. (InstallerInv => Shown)'
  BY PresentStaysShown
<1>4. InstallerInv /\ Shown /\ Shown' /\ [Next]_vars => [Atomic!Next]_<<Present, acked>>
  BY StepIsAtomic
<1> QED
  BY <1>1, <1>2, <1>3, <1>4, InstallationIsKept, PTL DEF Spec, ImplementsActivation, Atomic!Spec
=============================================================================
