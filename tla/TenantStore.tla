---------------------------- MODULE TenantStore ----------------------------
(***************************************************************************)
(* The durable store of one tenant (control_plane_core.mjs): how a record  *)
(* and its audit event are committed through an authenticated intent, how  *)
(* the next locked operation finishes what a dead one began, and what an   *)
(* operation may see once it holds the tenant lock (withTenantLock).       *)
(*                                                                         *)
(* One step is one file operation; each is atomic and durable              *)
(* (atomicCreateJSON links, atomicReplaceJSON renames, both after fsync).  *)
(* A process may die or throw between any two of them.  The lock is the    *)
(* variable "holders"; Spec gives it as the ideal lock, module             *)
(* TenantStoreOnLock composes the store with the lock the code has.        *)
(*                                                                         *)
(* A record is [path, value]: the file it is stored under and its content. *)
(* A transaction is named after its record's path.  Signatures and hashes  *)
(* are what the code makes them, proof that a file is the one written.     *)
(***************************************************************************)
EXTENDS Integers, Sequences, FiniteSets, SequencesExt

CONSTANTS Procs,      \* server and administration processes of the tenant
          Paths,      \* domain record paths
          Values,     \* record contents
          MaxFaults,  \* bound on crashes and exceptions
          None

ASSUME StoreAssumption == None \notin Procs /\ MaxFaults \in Nat

VARIABLES holders,   \* processes that believe they hold the tenant lock
          dead,      \* processes that crashed
          faults,    \* how many faults so far
          intents,   \* transactions/: records whose commit is unfinished
          domain,    \* decisions/, grants/, ...: the records themselves
          audit,     \* audit/: the events, in sequence order, as their records
          head,      \* audit-heads/: the signed sequence number, 0 for no file
          receipts,  \* transaction-receipts/: path and sequence number
          pc,        \* where each process is
          known,     \* ctx.auditRecords: the events it read on entry or appended
          recovering,\* processes that are committing what others left behind
          todo,      \* intents a recovery still has to commit
          current,   \* the transaction it is committing, or None
          acked,     \* ghost: records acknowledged to a caller
          corrupt    \* ghost: some operation failed with STORE_CORRUPT

files == <<intents, domain, audit, head, receipts>>
local == <<pc, known, recovering, todo, current>>
ghost == <<acked, corrupt>>
store == <<files, local, ghost>>
vars  == <<holders, dead, faults, store>>

Record == [path : Paths, value : Values]
Receipt == [path : Paths, value : Values, sequence : Nat]

Locations == {"out", "scan", "recover", "verify", "probe", "body", "intent", "receipt?", "domain",
              "audit", "head", "receipt", "unlink", "leave"}

Init ==
  /\ holders = {} /\ dead = {} /\ faults = 0
  /\ intents = {} /\ domain = {} /\ audit = <<>> /\ head = 0 /\ receipts = {}
  /\ pc = [p \in Procs |-> "out"] /\ known = [p \in Procs |-> <<>>]
  /\ recovering = {} /\ todo = [p \in Procs |-> {}]
  /\ current = [p \in Procs |-> None]
  /\ acked = {} /\ corrupt = FALSE

GoTo(p, place) == pc' = [pc EXCEPT ![p] = place]

\* A step that leaves the files as they are.
Proceed(p, place) ==
  GoTo(p, place) /\ UNCHANGED <<files, known, recovering, todo, current, ghost>>

\* The operation ends with an error; withTenantLock releases the lock.
Refuse(p) == Proceed(p, "leave")
Corrupt(p) ==
  /\ GoTo(p, "leave") /\ corrupt' = TRUE
  /\ UNCHANGED <<files, known, recovering, todo, current, acked>>

\* atomicCreateJSON links a new file: one that is there stays, and must be the
\* very same.
Taken(there, x) == \E y \in there : y.path = x.path /\ y # x

-----------------------------------------------------------------------------
(* Entering: withTenantLock *)

\* The lock is held; the audit records are read.  verifyAuditChain skips the
\* recovery that every other operation runs first.
Enter(p, recover) ==
  /\ pc[p] = "out" /\ p \in holders
  /\ known' = [known EXCEPT ![p] = audit]
  /\ GoTo(p, IF recover THEN "scan" ELSE "probe")
  /\ UNCHANGED <<files, recovering, todo, current, ghost>>

\* Mutation: an operation starts without looking for unfinished transactions.
ScanNothing(p) ==
  /\ pc[p] = "scan"
  /\ recovering' = recovering \cup {p}
  /\ GoTo(p, "recover")
  /\ UNCHANGED <<files, known, todo, current, ghost>>

\* recoverTransactionsLocked reads the intents that are there.
Scan(p) ==
  /\ pc[p] = "scan"
  /\ todo' = [todo EXCEPT ![p] = intents]
  /\ recovering' = recovering \cup {p}
  /\ GoTo(p, "recover")
  /\ UNCHANGED <<files, known, current, ghost>>

RecoverNext(p) ==
  /\ pc[p] = "recover"
  /\ \E t \in todo[p] :
       /\ todo' = [todo EXCEPT ![p] = @ \ {t}]
       /\ current' = [current EXCEPT ![p] = t]
  /\ GoTo(p, "receipt?")
  /\ UNCHANGED <<files, known, recovering, ghost>>

Recovered(p) ==
  /\ pc[p] = "recover" /\ todo[p] = {}
  /\ recovering' = recovering \ {p}
  /\ GoTo(p, "verify")
  /\ UNCHANGED <<files, known, todo, current, ghost>>

\* verifyAuditLocked: the signed head must name the last event that was read.
HeadMatches(p) == head = Len(known[p])

Verify(p) ==
  /\ pc[p] = "verify"
  /\ IF HeadMatches(p) THEN Proceed(p, "body") ELSE Corrupt(p)

\* verifyAuditChain answers and changes nothing.
Probe(p) == pc[p] = "probe" /\ Proceed(p, "leave")

-----------------------------------------------------------------------------
(* The body of an operation *)

\* The record exists: it is read back, and must be bound to an audit event
\* (readAuthenticatedDomainPath).
Reread(p, r) ==
  /\ pc[p] = "body" /\ r \in domain
  /\ IF \E i \in DOMAIN known[p] : known[p][i] = r
     THEN /\ acked' = acked \cup {r}
          /\ GoTo(p, "leave")
          /\ UNCHANGED <<files, known, recovering, todo, current, corrupt>>
     ELSE Corrupt(p)

\* It does not: the operation decides what it will be.
Decide(p, r) ==
  /\ pc[p] = "body"
  /\ \A x \in domain : x.path # r.path
  /\ current' = [current EXCEPT ![p] = r]
  /\ GoTo(p, "intent")
  /\ UNCHANGED <<files, known, recovering, todo, ghost>>

\* startTransactionLocked: the intent is created before anything else.
Start(p) ==
  /\ pc[p] = "intent"
  /\ IF Taken(intents, current[p])
     THEN Refuse(p)
     ELSE /\ intents' = intents \cup {current[p]}
          /\ GoTo(p, "receipt?")
          /\ UNCHANGED <<domain, audit, head, receipts, known, recovering, todo, current, ghost>>

-----------------------------------------------------------------------------
(* commitTransactionLocked, for a new transaction and for a recovered one *)

\* A receipt says the transaction is complete: everything it names must be there.
Complete(p, t) ==
  /\ t \in domain
  /\ \E i \in DOMAIN known[p] :
       known[p][i] = t /\ [path |-> t.path, value |-> t.value, sequence |-> i] \in receipts

CheckReceipt(p) ==
  LET t == current[p]
  IN  /\ pc[p] = "receipt?"
      /\ IF \A x \in receipts : x.path # t.path THEN Proceed(p, "domain")
         ELSE IF Complete(p, t) THEN Proceed(p, "unlink") ELSE Corrupt(p)

\* Mutation: the intent is dropped as soon as the record is stored.
CreateDomainOnly(p) ==
  /\ pc[p] = "domain"
  /\ domain' = domain \cup {current[p]}
  /\ intents' = intents \ {current[p]}
  /\ GoTo(p, "audit")
  /\ UNCHANGED <<audit, head, receipts, known, recovering, todo, current, ghost>>

CreateDomain(p) ==
  /\ pc[p] = "domain"
  /\ IF Taken(domain, current[p])
     THEN Refuse(p)
     ELSE /\ domain' = domain \cup {current[p]}
          /\ GoTo(p, "audit")
          /\ UNCHANGED <<intents, audit, head, receipts, known, recovering, todo, current, ghost>>

\* appendAuditLocked: the event of this transaction among the known ones, ...
Audited(p, t) == {i \in DOMAIN known[p] : known[p][i].path = t.path}

FindEvent(p) ==
  /\ pc[p] = "audit"
  /\ \E i \in Audited(p, current[p]) :
       IF known[p][i] = current[p] THEN Proceed(p, "head") ELSE Corrupt(p)

\* ... or a new event under the next number.
AppendEvent(p) ==
  LET n == Len(known[p]) + 1
  IN  /\ pc[p] = "audit" /\ Audited(p, current[p]) = {}
      /\ IF n \in DOMAIN audit /\ audit[n] # current[p]
         THEN Refuse(p)
         ELSE /\ audit' = IF n \in DOMAIN audit THEN audit ELSE Append(audit, current[p])
              /\ known' = [known EXCEPT ![p] = Append(@, current[p])]
              /\ GoTo(p, "head")
              /\ UNCHANGED <<intents, domain, head, receipts, recovering, todo, current, ghost>>

\* Mutation: only a new event moves the head.
WriteHeadOfNew(p) ==
  /\ pc[p] = "head"
  /\ head' = IF p \in recovering THEN head ELSE Len(known[p])
  /\ GoTo(p, "receipt")
  /\ UNCHANGED <<intents, domain, audit, receipts, known, recovering, todo, current, ghost>>

\* writeAuditHead replaces the head with the last event the process knows.
WriteHead(p) ==
  /\ pc[p] = "head"
  /\ head' = Len(known[p])
  /\ GoTo(p, "receipt")
  /\ UNCHANGED <<intents, domain, audit, receipts, known, recovering, todo, current, ghost>>

\* Mutation: the receipt names the number of the next event.
CreateReceiptOfLast(p) ==
  /\ pc[p] = "receipt"
  /\ receipts' = receipts \cup
       {[path |-> current[p].path, value |-> current[p].value, sequence |-> Len(known[p]) + 1]}
  /\ GoTo(p, "unlink")
  /\ UNCHANGED <<intents, domain, audit, head, known, recovering, todo, current, ghost>>

CreateReceipt(p) ==
  /\ pc[p] = "receipt"
  /\ \E i \in Audited(p, current[p]) :
       LET r == [path |-> current[p].path, value |-> current[p].value, sequence |-> i]
       IN  IF Taken(receipts, r)
           THEN Refuse(p)
           ELSE /\ receipts' = receipts \cup {r}
                /\ GoTo(p, "unlink")
                /\ UNCHANGED <<intents, domain, audit, head, known, recovering, todo, current, ghost>>

\* removeTransactionIntentLocked.  A recovery goes on with the next intent; an
\* operation's own transaction is acknowledged.
RemoveIntent(p) ==
  /\ pc[p] = "unlink"
  /\ intents' = intents \ {current[p]}
  /\ IF p \in recovering
     THEN GoTo(p, "recover") /\ UNCHANGED acked
     ELSE GoTo(p, "leave") /\ acked' = acked \cup {current[p]}
  /\ UNCHANGED <<domain, audit, head, receipts, known, recovering, todo, current, corrupt>>

-----------------------------------------------------------------------------
StoreStep(p) ==
  \/ \E recover \in BOOLEAN : Enter(p, recover)
  \/ Scan(p) \/ RecoverNext(p) \/ Recovered(p) \/ Verify(p) \/ Probe(p)
  \/ \E r \in Record : Reread(p, r) \/ Decide(p, r)
  \/ Start(p) \/ CheckReceipt(p) \/ CreateDomain(p) \/ FindEvent(p) \/ AppendEvent(p)
  \/ WriteHead(p) \/ CreateReceipt(p) \/ RemoveIntent(p)

\* An operation forgets everything when it returns.
Forget(p) ==
  /\ pc[p] = "leave"
  /\ GoTo(p, "out")
  /\ known' = [known EXCEPT ![p] = <<>>] /\ todo' = [todo EXCEPT ![p] = {}]
  /\ current' = [current EXCEPT ![p] = None] /\ recovering' = recovering \ {p}
  /\ UNCHANGED <<files, ghost>>

\* A file operation fails (no space, I/O error): the operation throws and the
\* finally clause releases the lock.
Throw(p) ==
  /\ pc[p] \notin {"out", "leave"} /\ faults < MaxFaults
  /\ faults' = faults + 1
  /\ Proceed(p, "leave")

\* The process dies where it stands.
Crash(p) ==
  /\ p \notin dead /\ faults < MaxFaults
  /\ faults' = faults + 1
  /\ dead' = dead \cup {p}
  /\ UNCHANGED store

-----------------------------------------------------------------------------
(* The ideal lock: one holder; the lock of a dead holder is free again. *)

Acquire(p) ==
  /\ pc[p] = "out" /\ holders \subseteq dead
  /\ holders' = {p}
  /\ UNCHANGED <<dead, faults, store>>

Release(p) == Forget(p) /\ holders' = holders \ {p} /\ UNCHANGED <<dead, faults>>

Step(p) ==
  \/ StoreStep(p) /\ UNCHANGED <<holders, dead, faults>>
  \/ Throw(p) /\ UNCHANGED <<holders, dead>>
  \/ Crash(p) /\ UNCHANGED holders
  \/ Acquire(p) \/ Release(p)

Next == \E p \in Procs \ dead : Step(p)

Spec == Init /\ [][Next]_vars
-----------------------------------------------------------------------------
(* Properties *)

TypeOK ==
  /\ holders \subseteq Procs /\ dead \subseteq Procs /\ faults \in 0..MaxFaults
  /\ intents \subseteq Record /\ domain \subseteq Record /\ audit \in Seq(Record)
  /\ head \in Nat /\ receipts \subseteq Receipt
  /\ pc \in [Procs -> Locations] /\ known \in [Procs -> Seq(Record)]
  /\ recovering \subseteq Procs /\ todo \in [Procs -> SUBSET Record]
  /\ current \in [Procs -> Record \cup {None}]
  /\ acked \subseteq Record /\ corrupt \in BOOLEAN

\* Whatever died before, an operation's body starts on a store with no trace
\* of unfinished work: every record audited once, under the signed head, with
\* its receipt, and the process has read all of it (withTenantLock).
BodySeesCommittedStore ==
  \A p \in Procs \ dead : pc[p] = "body" =>
    /\ intents = {} /\ known[p] = audit /\ head = Len(audit)
    /\ domain = ToSet(audit) /\ IsInjective(audit)
    /\ receipts = {[path |-> audit[i].path, value |-> audit[i].value, sequence |-> i] :
                     i \in DOMAIN audit}

\* No crash or failure at any step leaves a store that a later operation
\* rejects as corrupt: recovery completes transactions "interrupted at every
\* durable boundary" (tests/agent_control_plane_server.test.mjs).
NeverCorrupt == ~corrupt

\* A record that was acknowledged stays: stored, audited under the signed head
\* and receipted, while later transactions stop anywhere.
AckedIsCommitted ==
  \A r \in acked :
    /\ r \in domain /\ r \notin intents
    /\ \E i \in 1..head : /\ i \in DOMAIN audit /\ audit[i] = r
                          /\ [path |-> r.path, value |-> r.value, sequence |-> i] \in receipts

\* The log the store stands for: what is audited, then what an intent has
\* already decided (the next operation will audit it before it does anything).
Unaudited == {t \in intents : \A i \in DOMAIN audit : audit[i] # t}

Log == INSTANCE AuditLog WITH log <- audit \o SetToSeq(Unaudited)

\* Each record joins the log once, whole and for good.
ImplementsAuditLog == Log!Spec

\* The inductive invariant.  There is at most one unfinished transaction; all
\* the rest of the store is complete, and the unfinished one has got as far as
\* its files say.
Sealed(t, i) == [path |-> t.path, value |-> t.value, sequence |-> i]

FilesInv ==
  /\ \A s, t \in intents : s = t
  /\ \A x, y \in domain \cup intents : x.path = y.path => x = y
  /\ IsInjective(audit)
  /\ ToSet(audit) \subseteq domain /\ domain \subseteq ToSet(audit) \cup intents
  /\ receipts \subseteq {Sealed(audit[i], i) : i \in 1..head}
  /\ \A i \in DOMAIN audit : audit[i] \notin intents => i <= head /\ Sealed(audit[i], i) \in receipts
  /\ \/ head = Len(audit)
     \/ head = Len(audit) - 1 /\ audit[Len(audit)] \in intents

HolderInv ==
  /\ \A p, q \in holders \ dead : p = q
  /\ \A p \in Procs \ dead : pc[p] # "out" => p \in holders

Committing == {"receipt?", "domain", "audit", "head", "receipt", "unlink"}

\* What a live process knows and has done, by where it is.
ProgressInv(p) ==
  /\ pc[p] \notin {"out", "leave"} => known[p] = audit
  /\ pc[p] = "recover" => p \in recovering /\ todo[p] = intents
  /\ pc[p] \in {"verify", "body", "intent"} => intents = {} /\ p \notin recovering
  /\ pc[p] = "intent" => current[p] \in Record /\ \A x \in domain : x.path # current[p].path
  /\ pc[p] \in Committing => intents = {current[p]} /\ (p \in recovering => todo[p] = {})
  /\ pc[p] \in {"audit", "head", "receipt", "unlink"} => current[p] \in domain
  /\ pc[p] \in {"head", "receipt", "unlink"} => current[p] \in ToSet(audit)
  /\ pc[p] \in {"receipt", "unlink"} => head = Len(audit)
  /\ pc[p] = "unlink" => \E i \in DOMAIN audit : Sealed(current[p], i) \in receipts

StoreInv ==
  /\ TypeOK /\ FilesInv /\ HolderInv
  /\ \A p \in Procs \ dead : ProgressInv(p)
  /\ acked \subseteq ToSet(audit) \ intents
  /\ ~corrupt
=============================================================================
