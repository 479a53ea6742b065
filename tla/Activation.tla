----------------------------- MODULE Activation -----------------------------
(***************************************************************************)
(* What the installer promises of a runtime directory: a release takes the *)
(* place of whatever was at its packages in one step, all of them or none, *)
(* and is reported installed while it is there.  Nothing is ever taken     *)
(* away, and no package is ever in part.                                   *)
(*                                                                         *)
(* Module Installer implements it by renames one after the other, by       *)
(* several processes that may die between any two of them.                 *)
(***************************************************************************)
EXTENDS Sequences, SequencesExt

CONSTANTS Packages, Releases, Members, Earlier, Old, None

VARIABLES present,   \* per package, the release that is there
          reported   \* the packages that were reported installed

Init ==
  /\ present = [x \in Packages |-> IF x \in Earlier THEN Old ELSE None]
  /\ reported = Earlier

\* A plugin that has dependencies is not installed over another release of it.
Install(r) ==
  /\ Len(Members[r]) > 1 => present[Members[r][1]] = None
  /\ present' = [x \in Packages |-> IF x \in ToSet(Members[r]) THEN r ELSE present[x]]
  /\ UNCHANGED reported

Report(r) ==
  /\ \A x \in ToSet(Members[r]) : present[x] = r
  /\ reported' = reported \cup ToSet(Members[r])
  /\ UNCHANGED present

Next == \E r \in Releases : Install(r) \/ Report(r)

Spec == Init /\ [][Next]_<<present, reported>>
=============================================================================
