------------------------------ MODULE AuditLog ------------------------------
(***************************************************************************)
(* What the control plane's store promises its operations: one log of      *)
(* records, each under a path of its own, that only ever grows by one      *)
(* whole record.  Module TenantStore implements it with five files per     *)
(* record, crashes between any two of them, and recovery.                  *)
(***************************************************************************)
EXTENDS Sequences, Integers

CONSTANT Record   \* [path, value]

VARIABLE log

Init == log = <<>>

Commit(record) ==
  /\ \A i \in DOMAIN log : log[i].path # record.path
  /\ log' = Append(log, record)

Next == \E record \in Record : Commit(record)

Spec == Init /\ [][Next]_log
=============================================================================
