-------------------------- MODULE TenantStoreProofs --------------------------
(***************************************************************************)
(* For any processes, records and faults: with a lock that excludes, there *)
(* is at most one unfinished transaction in the store, recovery completes  *)
(* it, and nobody works on a store that has one.                           *)
(***************************************************************************)
EXTENDS TenantStoreOnLock, FiniteSetTheorems, SequenceTheorems, TLAPS

-----------------------------------------------------------------------------
(* The audit log, event by event                                            *)

LEMMA Records ==
  ASSUME NEW s \in Record, NEW t \in Record, NEW i, NEW j
  PROVE  /\ s.path = t.path /\ s.value = t.value => s = t
         /\ Sealed(s, i) = Sealed(t, j) => s = t /\ i = j
         /\ Sealed(s, i).path = s.path
         /\ i \in Nat => Sealed(s, i) \in Receipt
<1>1. s.path = t.path /\ s.value = t.value => s = t
  BY DEF Record
<1>2. Sealed(s, i).path = s.path /\ Sealed(s, i).value = s.value /\ Sealed(s, i).sequence = i
  BY DEF Sealed
<1>3. Sealed(t, j).path = t.path /\ Sealed(t, j).value = t.value /\ Sealed(t, j).sequence = j
  BY DEF Sealed
<1>4. i \in Nat => Sealed(s, i) \in Receipt
  BY DEF Sealed, Receipt, Record
<1> QED
  BY <1>1, <1>2, <1>3, <1>4

\* FilesInv in terms of positions: what the proofs below use of it.
FilesByPosition ==
  /\ \A s, t \in intents : s = t
  /\ \A x, y \in domain \cup intents : x.path = y.path => x = y
  /\ \A i, j \in 1..Len(audit) : audit[i] = audit[j] => i = j
  /\ \A i \in 1..Len(audit) : audit[i] \in domain
  /\ \A r \in domain : r \in intents \/ \E i \in 1..Len(audit) : audit[i] = r
  /\ \A x \in receipts : \E i \in 1..Len(audit) : i <= head /\ x = Sealed(audit[i], i)
  /\ \A i \in 1..Len(audit) : audit[i] \notin intents => i <= head /\ Sealed(audit[i], i) \in receipts
  /\ \/ head = Len(audit)
     \/ head = Len(audit) - 1 /\ Len(audit) > 0 /\ audit[Len(audit)] \in intents

LEMMA Positions ==
  ASSUME audit \in Seq(Record), head \in Nat
  PROVE  /\ DOMAIN audit = 1..Len(audit) /\ Len(audit) \in Nat
         /\ \A i \in 1..Len(audit) : audit[i] \in Record
         /\ ToSet(audit) = {audit[i] : i \in 1..Len(audit)}
         /\ FilesInv <=> FilesByPosition
<1>1. DOMAIN audit = 1..Len(audit) /\ Len(audit) \in Nat
  OBVIOUS
<1>2. \A i \in 1..Len(audit) : audit[i] \in Record
  BY <1>1
<1>3. ToSet(audit) = {audit[i] : i \in 1..Len(audit)}
  BY <1>1 DEF ToSet
<1>4. IsInjective(audit) <=> \A i, j \in 1..Len(audit) : audit[i] = audit[j] => i = j
  BY <1>1 DEF IsInjective
<1>5. FilesInv => FilesByPosition
  <2> SUFFICES ASSUME FilesInv PROVE FilesByPosition
    OBVIOUS
  <2>1. head = Len(audit) - 1 => Len(audit) > 0
    BY <1>1
  <2>2. head <= Len(audit)
    BY <1>1 DEF FilesInv
  <2>3. \A x \in receipts : \E i \in 1..Len(audit) : i <= head /\ x = Sealed(audit[i], i)
    <3>1. \A i \in 1..head : i \in 1..Len(audit) /\ i <= head
      BY <1>1, <2>2
    <3> QED
      BY <3>1 DEF FilesInv
  <2>4. \A r \in domain : r \in intents \/ \E i \in 1..Len(audit) : audit[i] = r
    BY <1>3 DEF FilesInv
  <2>5. \A i \in 1..Len(audit) : audit[i] \in domain
    BY <1>3 DEF FilesInv
  <2> QED
    BY <1>1, <1>4, <2>1, <2>3, <2>4, <2>5 DEF FilesInv, FilesByPosition
<1>6. FilesByPosition => FilesInv
  <2> SUFFICES ASSUME FilesByPosition PROVE FilesInv
    OBVIOUS
  <2>1. ToSet(audit) \subseteq domain /\ domain \subseteq ToSet(audit) \cup intents
    BY <1>3 DEF FilesByPosition
  <2>2. receipts \subseteq {Sealed(audit[i], i) : i \in 1..head}
    <3>1. \A i \in 1..Len(audit) : i <= head => i \in 1..head
      BY <1>1
    <3> QED
      BY <3>1 DEF FilesByPosition
  <2> QED
    BY <1>1, <1>4, <2>1, <2>2 DEF FilesInv, FilesByPosition
<1> QED
  BY <1>1, <1>2, <1>3, <1>5, <1>6

\* The invariant with positions instead of sets of events.
Inv ==
  /\ TypeOK /\ FilesByPosition /\ HolderInv
  /\ \A p \in Procs \ dead : ProgressInv(p)
  /\ \A r \in acked : r \notin intents /\ \E i \in 1..Len(audit) : audit[i] = r
  /\ ~corrupt

LEMMA InvByPosition == StoreInv <=> Inv
<1>1. TypeOK => audit \in Seq(Record) /\ head \in Nat
  BY DEF TypeOK
<1>2. TypeOK => (acked \subseteq ToSet(audit) \ intents <=>
                 \A r \in acked : r \notin intents /\ \E i \in 1..Len(audit) : audit[i] = r)
  BY <1>1, Positions
<1> QED
  BY <1>1, <1>2, Positions DEF StoreInv, Inv

LEMMA Initially == Init => Inv
<1> SUFFICES ASSUME Init PROVE Inv
  OBVIOUS
<1>1. TypeOK
  <2>1. <<>> \in Seq(Record)
    OBVIOUS
  <2>2. pc \in [Procs -> Locations] /\ known \in [Procs -> Seq(Record)]
    BY <2>1 DEF Init, Locations
  <2>3. todo \in [Procs -> SUBSET Record] /\ current \in [Procs -> Record \cup {None}]
    BY DEF Init
  <2>4. faults \in 0..MaxFaults
    BY StoreAssumption DEF Init
  <2> QED
    BY <2>1, <2>2, <2>3, <2>4 DEF Init, TypeOK
<1>2. Len(audit) = 0
  BY DEF Init
<1>3. FilesByPosition
  BY <1>2 DEF Init, FilesByPosition
<1> QED
  BY <1>1, <1>3 DEF Init, Inv, HolderInv, ProgressInv, Committing

-----------------------------------------------------------------------------
(* A step of the live process that holds the lock                           *)

\* The process that is in an operation is the only one.
LEMMA Alone ==
  ASSUME Inv, NEW p \in Procs \ dead, pc[p] # "out" \/ p \in holders
  PROVE  /\ p \in holders /\ ProgressInv(p) /\ TypeOK /\ FilesByPosition
         /\ \A q \in (Procs \ dead) \ {p} : pc[q] = "out"
BY DEF Inv, HolderInv

LEMMA HolderSteps ==
  ASSUME Inv, NEW p \in Procs \ dead, p \in holders, holders' = holders, dead' = dead,
         \A q \in Procs \ {p} : pc'[q] = pc[q],
         TypeOK', FilesByPosition', ProgressInv(p)',
         \A r \in acked' : r \notin intents' /\ \E i \in 1..Len(audit') : audit'[i] = r, ~corrupt'
  PROVE  Inv'
<1>1. \A q \in (Procs \ dead) \ {p} : pc'[q] = "out"
  BY Alone
<1>2. \A q \in Procs \ dead' : ProgressInv(q)'
  BY <1>1 DEF ProgressInv, Committing
<1>3. HolderInv'
  BY <1>1 DEF Inv, HolderInv
<1> QED
  BY <1>2, <1>3 DEF Inv

\* It changes nothing but where it is and what it remembers.
LEMMA LocalSteps ==
  ASSUME Inv, NEW p \in Procs \ dead, p \in holders, UNCHANGED <<holders, dead, files, ghost>>,
         NEW place \in Locations, GoTo(p, place), TypeOK', ProgressInv(p)'
  PROVE  Inv'
<1>1. \A q \in Procs \ {p} : pc'[q] = pc[q]
  BY DEF GoTo, Inv, TypeOK
<1>2. FilesByPosition'
  BY DEF Inv, FilesByPosition, files
<1>3. \A r \in acked' : r \notin intents' /\ \E i \in 1..Len(audit') : audit'[i] = r
  BY DEF Inv, files, ghost
<1> QED
  BY <1>1, <1>2, <1>3, HolderSteps DEF Inv, ghost

\* It only moves on.
LEMMA Moves ==
  ASSUME Inv, NEW p \in Procs \ dead, p \in holders, UNCHANGED <<holders, dead>>, faults' \in 0..MaxFaults,
         NEW place \in Locations, Proceed(p, place),
         place \notin {"out", "leave"} => ProgressInv(p)'
  PROVE  Inv'
<1>1. TypeOK' /\ pc'[p] = place
  BY DEF Inv, TypeOK, Proceed, GoTo, files, ghost
<1>2. place \in {"out", "leave"} => ProgressInv(p)'
  BY <1>1 DEF ProgressInv, Committing
<1> QED
  BY <1>1, <1>2, LocalSteps DEF Proceed

-----------------------------------------------------------------------------
(* Entering and recovery                                                    *)

LEMMA Entering ==
  ASSUME Inv, NEW p \in Procs \ dead, UNCHANGED <<holders, dead, faults>>,
         (\E recover \in BOOLEAN : Enter(p, recover)) \/ Scan(p) \/ RecoverNext(p) \/ Recovered(p)
  PROVE  Inv'
<1>1. p \in holders /\ TypeOK /\ ProgressInv(p) /\ FilesByPosition
  <2>1. pc[p] # "out" \/ p \in holders
    BY DEF Enter, Scan, RecoverNext, Recovered
  <2> QED
    BY <2>1, Alone
<1>2. CASE \E recover \in BOOLEAN : Enter(p, recover)
  <2>1. PICK place \in {"scan", "probe"} : GoTo(p, place)
    BY <1>2 DEF Enter
  <2>2. known' = [known EXCEPT ![p] = audit] /\ UNCHANGED <<files, recovering, todo, current, ghost>>
    BY <1>2 DEF Enter
  <2>3. TypeOK'
    BY <1>1, <2>1, <2>2 DEF TypeOK, GoTo, files, ghost, Locations
  <2>4. pc'[p] = place /\ known'[p] = audit' 
    BY <1>1, <2>1, <2>2 DEF TypeOK, GoTo, files
  <2>5. ProgressInv(p)'
    BY <2>4 DEF ProgressInv, Committing
  <2> QED
    BY <1>1, <2>1, <2>2, <2>3, <2>5, LocalSteps DEF Locations
<1>3. CASE Scan(p)
  <2>1. pc[p] = "scan" /\ GoTo(p, "recover") /\ UNCHANGED <<files, known, current, ghost>>
    BY <1>3 DEF Scan
  <2>2. todo' = [todo EXCEPT ![p] = intents] /\ recovering' = recovering \cup {p}
    BY <1>3 DEF Scan
  <2>3. TypeOK'
    BY <1>1, <2>1, <2>2 DEF TypeOK, GoTo, files, ghost, Locations
  <2>4. /\ pc'[p] = "recover" /\ known'[p] = audit' /\ todo'[p] = intents' /\ p \in recovering'
    BY <1>1, <2>1, <2>2 DEF TypeOK, GoTo, files, ProgressInv
  <2>5. ProgressInv(p)'
    BY <2>4 DEF ProgressInv, Committing
  <2> QED
    BY <1>1, <2>1, <2>3, <2>5, LocalSteps DEF Locations
<1>4. CASE RecoverNext(p)
  <2>1. pc[p] = "recover" /\ GoTo(p, "receipt?") /\ UNCHANGED <<files, known, recovering, ghost>>
    BY <1>4 DEF RecoverNext
  <2>2. PICK t \in todo[p] : todo' = [todo EXCEPT ![p] = @ \ {t}] /\ current' = [current EXCEPT ![p] = t]
    BY <1>4 DEF RecoverNext
  <2>3. known[p] = audit /\ todo[p] = intents /\ p \in recovering
    BY <1>1, <2>1 DEF ProgressInv
  <2>4. t \in Record /\ intents = {t}
    BY <1>1, <2>2, <2>3 DEF FilesByPosition, TypeOK
  <2>5. TypeOK'
    BY <1>1, <2>1, <2>2, <2>4 DEF TypeOK, GoTo, files, ghost, Locations
  <2>6. /\ pc'[p] = "receipt?" /\ known'[p] = audit' /\ todo'[p] = {} /\ current'[p] = t /\ intents' = {t}
    BY <1>1, <2>1, <2>2, <2>3, <2>4 DEF TypeOK, GoTo, files
  <2>7. ProgressInv(p)'
    BY <2>6 DEF ProgressInv, Committing
  <2> QED
    BY <1>1, <2>1, <2>5, <2>7, LocalSteps DEF Locations
<1>5. CASE Recovered(p)
  <2>1. /\ pc[p] = "recover" /\ todo[p] = {} /\ GoTo(p, "verify") /\ recovering' = recovering \ {p}
        /\ UNCHANGED <<files, known, todo, current, ghost>>
    BY <1>5 DEF Recovered
  <2>2. TypeOK'
    BY <1>1, <2>1 DEF TypeOK, GoTo, files, ghost, Locations
  <2>3. pc'[p] = "verify" /\ known'[p] = audit' /\ intents' = {} /\ p \notin recovering'
    BY <1>1, <2>1 DEF TypeOK, GoTo, files, ProgressInv
  <2>4. ProgressInv(p)'
    BY <2>3 DEF ProgressInv, Committing
  <2> QED
    BY <1>1, <2>1, <2>2, <2>4, LocalSteps DEF Locations
<1> QED
  BY <1>2, <1>3, <1>4, <1>5

\* After recovery the head is the one of the log that was read.
LEMMA Verifying ==
  ASSUME Inv, NEW p \in Procs \ dead, UNCHANGED <<holders, dead, faults>>, Verify(p) \/ Probe(p)
  PROVE  Inv'
<1>1. p \in holders /\ TypeOK /\ ProgressInv(p) /\ FilesByPosition
  BY Alone DEF Verify, Probe
<1>2. faults' \in 0..MaxFaults
  BY <1>1 DEF TypeOK
<1>3. CASE Verify(p)
  <2>1. known[p] = audit /\ intents = {} /\ p \notin recovering /\ head = Len(audit)
    BY <1>1, <1>3 DEF Verify, ProgressInv, FilesByPosition
  <2>2. Proceed(p, "body")
    BY <1>3, <2>1 DEF Verify, HeadMatches
  <2>3. pc'[p] = "body" /\ known'[p] = audit' /\ intents' = {} /\ p \notin recovering'
    BY <1>1, <2>1, <2>2 DEF TypeOK, Proceed, GoTo, files
  <2>4. ProgressInv(p)'
    BY <2>3 DEF ProgressInv, Committing
  <2> QED
    BY <1>1, <1>2, <2>2, <2>4, Moves DEF Locations
<1>4. CASE Probe(p)
  BY <1>1, <1>2, <1>4, Moves DEF Probe, Locations
<1> QED
  BY <1>3, <1>4

-----------------------------------------------------------------------------
(* The body of an operation                                                 *)

LEMMA Deciding ==
  ASSUME Inv, NEW p \in Procs \ dead, UNCHANGED <<holders, dead, faults>>,
         NEW r \in Record, Reread(p, r) \/ Decide(p, r)
  PROVE  Inv'
<1>0. pc[p] = "body"
  BY DEF Reread, Decide
<1>1. p \in holders /\ TypeOK /\ ProgressInv(p) /\ FilesByPosition
  BY <1>0, Alone
<1>2. known[p] = audit /\ intents = {} /\ p \notin recovering
  BY <1>0, <1>1 DEF ProgressInv
<1>3. CASE Reread(p, r)
  <2>1. \E i \in 1..Len(audit) : audit[i] = r
    BY <1>1, <1>2, <1>3 DEF Reread, FilesByPosition
  <2>2. \E i \in DOMAIN known[p] : known[p][i] = r
    BY <1>1, <1>2, <2>1, Positions DEF TypeOK
  <2>3. /\ acked' = acked \cup {r} /\ GoTo(p, "leave")
        /\ UNCHANGED <<files, known, recovering, todo, current, corrupt>>
    BY <1>3, <2>2 DEF Reread
  <2>4. TypeOK' /\ pc'[p] = "leave" /\ \A q \in Procs \ {p} : pc'[q] = pc[q]
    BY <1>1, <2>3 DEF TypeOK, GoTo, files, Locations
  <2>5. FilesByPosition' /\ ProgressInv(p)' /\ ~corrupt'
    BY <1>1, <2>3, <2>4 DEF FilesByPosition, files, ProgressInv, Committing, Inv
  <2>6. \A x \in acked' : x \notin intents' /\ \E i \in 1..Len(audit') : audit'[i] = x
    BY <1>2, <2>1, <2>3 DEF Inv, files
  <2> QED
    BY <1>1, <2>4, <2>5, <2>6, HolderSteps
<1>4. CASE Decide(p, r)
  <2>1. /\ \A x \in domain : x.path # r.path
        /\ current' = [current EXCEPT ![p] = r] /\ GoTo(p, "intent")
        /\ UNCHANGED <<files, known, recovering, todo, ghost>>
    BY <1>4 DEF Decide
  <2>2. TypeOK'
    BY <1>1, <2>1 DEF TypeOK, GoTo, files, ghost, Locations
  <2>3. /\ pc'[p] = "intent" /\ known'[p] = audit' /\ intents' = {} /\ p \notin recovering'
        /\ current'[p] = r /\ domain' = domain
    BY <1>1, <1>2, <2>1 DEF TypeOK, GoTo, files
  <2>4. ProgressInv(p)'
    BY <2>1, <2>3 DEF ProgressInv, Committing
  <2> QED
    BY <1>1, <2>1, <2>2, <2>4, LocalSteps DEF Locations
<1> QED
  BY <1>3, <1>4

LEMMA Starting ==
  ASSUME Inv, NEW p \in Procs \ dead, UNCHANGED <<holders, dead, faults>>, Start(p)
  PROVE  Inv'
<1>0. pc[p] = "intent"
  BY DEF Start
<1>1. p \in holders /\ TypeOK /\ ProgressInv(p) /\ FilesByPosition
  BY <1>0, Alone
<1>2. /\ known[p] = audit /\ intents = {} /\ p \notin recovering
      /\ current[p] \in Record /\ \A x \in domain : x.path # current[p].path
  BY <1>0, <1>1 DEF ProgressInv
<1>3. PICK t \in Record : t = current[p]
  BY <1>2
<1>4. /\ intents' = {t} /\ GoTo(p, "receipt?")
      /\ UNCHANGED <<domain, audit, head, receipts, known, recovering, todo, current, ghost>>
  BY <1>2, <1>3 DEF Start, Taken
<1>5. TypeOK' /\ pc'[p] = "receipt?" /\ \A q \in Procs \ {p} : pc'[q] = pc[q]
  BY <1>1, <1>4 DEF TypeOK, GoTo, ghost, Locations
<1>6. FilesByPosition'
  <2>1. \A x, y \in domain \cup {t} : x.path = y.path => x = y
    BY <1>1, <1>2, <1>3 DEF FilesByPosition
  <2> QED
    BY <1>1, <1>2, <1>4, <2>1 DEF FilesByPosition
<1>7. ProgressInv(p)'
  BY <1>2, <1>3, <1>4, <1>5 DEF ProgressInv, Committing
<1>8. \A x \in acked' : x \notin intents' /\ \E i \in 1..Len(audit') : audit'[i] = x
  <2>1. \A x \in acked : \E i \in 1..Len(audit) : audit[i] = x
    BY DEF Inv
  <2>2. \A x \in acked : x # t
    BY <1>1, <1>2, <1>3, <2>1 DEF FilesByPosition
  <2> QED
    BY <1>4, <2>1, <2>2 DEF ghost
<1> QED
  BY <1>1, <1>4, <1>5, <1>6, <1>7, <1>8, HolderSteps DEF Inv, ghost

-----------------------------------------------------------------------------
(* Committing the one transaction there is                                  *)

LEMMA Transaction ==
  ASSUME Inv, NEW p \in Procs \ dead, pc[p] \in Committing
  PROVE  /\ p \in holders /\ TypeOK /\ ProgressInv(p) /\ FilesByPosition
         /\ \E t \in Record : t = current[p] /\ intents = {t}
         /\ known[p] = audit /\ (p \in recovering => todo[p] = {})
         /\ DOMAIN audit = 1..Len(audit) /\ Len(audit) \in Nat
         /\ \A i \in 1..Len(audit) : audit[i] \in Record
<1>1. p \in holders /\ TypeOK /\ ProgressInv(p) /\ FilesByPosition
  BY Alone DEF Committing
<1>2. known[p] = audit /\ intents = {current[p]} /\ (p \in recovering => todo[p] = {})
  BY <1>1 DEF ProgressInv, Committing
<1>3. current[p] \in Record
  BY <1>1, <1>2 DEF TypeOK
<1> QED
  BY <1>1, <1>2, <1>3, Positions DEF TypeOK

\* An event under the transaction's path is the transaction's.
LEMMA EventOfTransaction ==
  ASSUME FilesByPosition, NEW t \in intents, NEW i \in 1..Len(audit), audit[i].path = t.path
  PROVE  audit[i] = t
BY DEF FilesByPosition

\* A receipt under the transaction's path is of its event, which is the last
\* and under the head.
LEMMA ReceiptOfTransaction ==
  ASSUME FilesByPosition, NEW t \in intents, t \in Record, NEW x \in receipts, x.path = t.path,
         Len(audit) \in Nat, head \in Nat, \A i \in 1..Len(audit) : audit[i] \in Record
  PROVE  head = Len(audit) /\ \E i \in 1..Len(audit) : audit[i] = t /\ x = Sealed(t, i)
<1>1. PICK i \in 1..Len(audit) : i <= head /\ x = Sealed(audit[i], i)
  BY DEF FilesByPosition
<1>2. audit[i] = t
  BY <1>1, Records, EventOfTransaction
<1>3. head = Len(audit)
  <2>1. CASE head = Len(audit) - 1 /\ Len(audit) > 0 /\ audit[Len(audit)] \in intents
    <3>1. audit[Len(audit)] = t /\ Len(audit) \in 1..Len(audit)
      BY <2>1 DEF FilesByPosition
    <3>2. i = Len(audit)
      BY <1>2, <3>1 DEF FilesByPosition
    <3> QED
      BY <1>1, <2>1, <3>2
  <2> QED
    BY <2>1 DEF FilesByPosition
<1> QED
  BY <1>1, <1>2, <1>3

LEMMA CheckingReceipt ==
  ASSUME Inv, NEW p \in Procs \ dead, UNCHANGED <<holders, dead, faults>>, CheckReceipt(p)
  PROVE  Inv'
<1>1. /\ p \in holders /\ TypeOK /\ ProgressInv(p) /\ FilesByPosition
      /\ known[p] = audit /\ (p \in recovering => todo[p] = {})
      /\ DOMAIN audit = 1..Len(audit) /\ Len(audit) \in Nat
      /\ \A i \in 1..Len(audit) : audit[i] \in Record
  BY Transaction DEF CheckReceipt, Committing
<1>2. PICK t \in Record : t = current[p] /\ intents = {t}
  BY Transaction DEF CheckReceipt, Committing
<1>3. faults' \in 0..MaxFaults
  BY <1>1 DEF TypeOK
<1>4. CASE \A x \in receipts : x.path # t.path
  <2>1. Proceed(p, "domain")
    BY <1>2, <1>4 DEF CheckReceipt
  <2>2. /\ pc'[p] = "domain" /\ known'[p] = audit' /\ intents' = {t} /\ current'[p] = t
        /\ (p \in recovering' => todo'[p] = {})
    BY <1>1, <1>2, <2>1 DEF Proceed, GoTo, files, TypeOK
  <2>3. ProgressInv(p)'
    BY <2>2 DEF ProgressInv, Committing
  <2> QED
    BY <1>1, <1>3, <2>1, <2>3, Moves DEF Locations
<1>5. CASE ~\A x \in receipts : x.path # t.path
  <2>1. PICK x \in receipts : x.path = t.path
    BY <1>5
  <2>2. head = Len(audit)
    BY <1>1, <1>2, <2>1, ReceiptOfTransaction DEF TypeOK
  <2>3. PICK i \in 1..Len(audit) : audit[i] = t /\ x = Sealed(t, i)
    BY <1>1, <1>2, <2>1, ReceiptOfTransaction DEF TypeOK
  <2>4. t \in domain /\ Sealed(t, i) \in receipts
    BY <1>1, <2>1, <2>3 DEF FilesByPosition
  <2>5. Complete(p, t)
    BY <1>1, <2>3, <2>4 DEF Complete, Sealed
  <2>6. Proceed(p, "unlink")
    BY <1>2, <1>5, <2>5 DEF CheckReceipt
  <2>7. /\ pc'[p] = "unlink" /\ known'[p] = audit' /\ intents' = {t} /\ current'[p] = t
        /\ (p \in recovering' => todo'[p] = {})
        /\ audit' = audit /\ domain' = domain /\ receipts' = receipts /\ head' = head
    BY <1>1, <1>2, <2>6 DEF Proceed, GoTo, files, TypeOK
  <2>8. t \in ToSet(audit) /\ i \in DOMAIN audit
    BY <1>1, <2>3 DEF ToSet
  <2>9. ProgressInv(p)'
    BY <2>2, <2>4, <2>7, <2>8 DEF ProgressInv, Committing
  <2> QED
    BY <1>1, <1>3, <2>6, <2>9, Moves DEF Locations
<1> QED
  BY <1>4, <1>5

LEMMA CreatingDomain ==
  ASSUME Inv, NEW p \in Procs \ dead, UNCHANGED <<holders, dead, faults>>, CreateDomain(p)
  PROVE  Inv'
<1>1. /\ p \in holders /\ TypeOK /\ ProgressInv(p) /\ FilesByPosition
      /\ known[p] = audit /\ (p \in recovering => todo[p] = {})
  BY Transaction DEF CreateDomain, Committing
<1>2. PICK t \in Record : t = current[p] /\ intents = {t}
  BY Transaction DEF CreateDomain, Committing
<1>3. ~Taken(domain, t)
  BY <1>1, <1>2 DEF Taken, FilesByPosition
<1>4. /\ domain' = domain \cup {t} /\ GoTo(p, "audit")
      /\ UNCHANGED <<intents, audit, head, receipts, known, recovering, todo, current, ghost>>
  BY <1>2, <1>3 DEF CreateDomain
<1>5. TypeOK' /\ pc'[p] = "audit" /\ \A q \in Procs \ {p} : pc'[q] = pc[q]
  BY <1>1, <1>4 DEF TypeOK, GoTo, ghost, Locations
<1>6. FilesByPosition'
  <2>1. domain' \cup intents' = domain \cup intents
    BY <1>2, <1>4
  <2> QED
    BY <1>1, <1>2, <1>4, <2>1 DEF FilesByPosition
<1>7. ProgressInv(p)'
  BY <1>1, <1>2, <1>4, <1>5 DEF ProgressInv, Committing
<1>8. \A x \in acked' : x \notin intents' /\ \E i \in 1..Len(audit') : audit'[i] = x
  BY <1>4 DEF Inv, ghost
<1> QED
  BY <1>1, <1>4, <1>5, <1>6, <1>7, <1>8, HolderSteps DEF Inv, ghost

\* The event is there, or it is appended after all others.
LEMMA Auditing ==
  ASSUME Inv, NEW p \in Procs \ dead, UNCHANGED <<holders, dead, faults>>, FindEvent(p) \/ AppendEvent(p)
  PROVE  Inv'
<1>0. pc[p] = "audit"
  BY DEF FindEvent, AppendEvent
<1>1. /\ p \in holders /\ TypeOK /\ ProgressInv(p) /\ FilesByPosition
      /\ known[p] = audit /\ (p \in recovering => todo[p] = {})
      /\ DOMAIN audit = 1..Len(audit) /\ Len(audit) \in Nat
      /\ \A i \in 1..Len(audit) : audit[i] \in Record
  BY <1>0, Transaction DEF Committing
<1>2. PICK t \in Record : t = current[p] /\ intents = {t}
  BY <1>0, Transaction DEF Committing
<1>3. t \in domain
  BY <1>0, <1>1, <1>2 DEF ProgressInv
<1>4. faults' \in 0..MaxFaults
  BY <1>1 DEF TypeOK
<1>5. CASE FindEvent(p)
  <2>1. PICK i \in 1..Len(audit) :
          audit[i].path = t.path /\ (IF audit[i] = t THEN Proceed(p, "head") ELSE Corrupt(p))
    BY <1>1, <1>2, <1>5 DEF FindEvent, Audited
  <2>2. audit[i] = t /\ Proceed(p, "head")
    BY <1>1, <1>2, <2>1, EventOfTransaction
  <2>3. /\ pc'[p] = "head" /\ known'[p] = audit' /\ intents' = {t} /\ current'[p] = t
        /\ (p \in recovering' => todo'[p] = {}) /\ audit' = audit /\ domain' = domain
    BY <1>1, <1>2, <2>2 DEF Proceed, GoTo, files, TypeOK
  <2>4. t \in ToSet(audit)
    BY <1>1, <2>2 DEF ToSet
  <2>5. ProgressInv(p)'
    BY <1>3, <2>3, <2>4 DEF ProgressInv, Committing
  <2> QED
    BY <1>1, <1>4, <2>2, <2>5, Moves DEF Locations
<1>6. CASE AppendEvent(p)
  <2>1. \A i \in 1..Len(audit) : audit[i].path # t.path
    BY <1>1, <1>2, <1>6 DEF AppendEvent, Audited
  <2>2. Len(audit) + 1 \notin DOMAIN audit
    BY <1>1
  <2>3. /\ audit' = Append(audit, t) /\ known' = [known EXCEPT ![p] = Append(audit, t)] /\ GoTo(p, "head")
        /\ UNCHANGED <<intents, domain, head, receipts, recovering, todo, current, ghost>>
    BY <1>1, <1>2, <1>6, <2>2 DEF AppendEvent, TypeOK
  <2>4. /\ audit' \in Seq(Record) /\ Len(audit') = Len(audit) + 1 /\ audit'[Len(audit')] = t
        /\ \A i \in 1..Len(audit) : audit'[i] = audit[i]
    BY <1>1, <2>3 DEF TypeOK
  <2>5. /\ TypeOK' /\ pc'[p] = "head" /\ known'[p] = audit' /\ \A q \in Procs \ {p} : pc'[q] = pc[q]
    BY <1>1, <2>3, <2>4 DEF TypeOK, GoTo, ghost, Locations
  <2>6. \A i \in 1..Len(audit') : i \in 1..Len(audit) \/ i = Len(audit')
    BY <1>1, <2>4
  <2>7. head = Len(audit)
    <3>1. Len(audit) > 0 => Len(audit) \in 1..Len(audit)
      BY <1>1
    <3> QED
      BY <1>1, <1>2, <2>1, <3>1 DEF FilesByPosition
  <2>8. FilesByPosition'
    <3>1. \A i, j \in 1..Len(audit') : audit'[i] = audit'[j] => i = j
      BY <1>1, <2>1, <2>4, <2>6 DEF FilesByPosition
    <3>2. \A i \in 1..Len(audit') : audit'[i] \in domain'
      BY <1>1, <1>3, <2>3, <2>4, <2>6 DEF FilesByPosition
    <3>3. \A i \in 1..Len(audit) : i \in 1..Len(audit')
      BY <1>1, <2>4
    <3>4. \A x \in receipts' : \E i \in 1..Len(audit') : i <= head' /\ x = Sealed(audit'[i], i)
      <4>1. \A x \in receipts : \E i \in 1..Len(audit) : i <= head /\ x = Sealed(audit[i], i)
        BY <1>1 DEF FilesByPosition
      <4> QED
        BY <2>3, <2>4, <3>3, <4>1
    <3>5. \A i \in 1..Len(audit') : audit'[i] \notin intents' =>
            i <= head' /\ Sealed(audit'[i], i) \in receipts'
      BY <1>1, <1>2, <2>3, <2>4, <2>6 DEF FilesByPosition
    <3>6. head' = Len(audit') - 1 /\ Len(audit') > 0 /\ audit'[Len(audit')] \in intents'
      BY <1>1, <1>2, <2>3, <2>4, <2>7
    <3>7. \A r \in domain' : r \in intents' \/ \E i \in 1..Len(audit') : audit'[i] = r
      BY <1>1, <2>3, <2>4, <3>3 DEF FilesByPosition
    <3>8. /\ \A x, y \in intents' : x = y
          /\ \A x, y \in domain' \cup intents' : x.path = y.path => x = y
      BY <1>1, <2>3 DEF FilesByPosition
    <3> QED
      BY <3>1, <3>2, <3>4, <3>5, <3>6, <3>7, <3>8 DEF FilesByPosition
  <2>9. t \in ToSet(audit')
    <3>1. Len(audit') \in DOMAIN audit'
      BY <1>1, <2>4
    <3> QED
      BY <2>4, <3>1 DEF ToSet
  <2>10. ProgressInv(p)'
    BY <1>1, <1>2, <1>3, <2>3, <2>5, <2>9 DEF ProgressInv, Committing
  <2>11. \A x \in acked' : x \notin intents' /\ \E i \in 1..Len(audit') : audit'[i] = x
    <3>1. \A i \in 1..Len(audit) : i \in 1..Len(audit')
      BY <1>1, <2>4
    <3> QED
      BY <2>3, <2>4, <3>1 DEF Inv, ghost
  <2> QED
    BY <1>1, <2>3, <2>5, <2>8, <2>10, <2>11, HolderSteps DEF Inv, ghost
<1> QED
  BY <1>5, <1>6

LEMMA WritingHead ==
  ASSUME Inv, NEW p \in Procs \ dead, UNCHANGED <<holders, dead, faults>>, WriteHead(p)
  PROVE  Inv'
<1>0. pc[p] = "head"
  BY DEF WriteHead
<1>1. /\ p \in holders /\ TypeOK /\ ProgressInv(p) /\ FilesByPosition
      /\ known[p] = audit /\ (p \in recovering => todo[p] = {}) /\ Len(audit) \in Nat
  BY <1>0, Transaction DEF Committing
<1>2. PICK t \in Record : t = current[p] /\ intents = {t}
  BY <1>0, Transaction DEF Committing
<1>3. t \in domain /\ t \in ToSet(audit)
  BY <1>0, <1>1, <1>2 DEF ProgressInv
<1>4. /\ head' = Len(audit) /\ GoTo(p, "receipt")
      /\ UNCHANGED <<intents, domain, audit, receipts, known, recovering, todo, current, ghost>>
  BY <1>1 DEF WriteHead
<1>5. TypeOK' /\ pc'[p] = "receipt" /\ \A q \in Procs \ {p} : pc'[q] = pc[q]
  BY <1>1, <1>4 DEF TypeOK, GoTo, ghost, Locations
<1>6. FilesByPosition'
  <2>1. \A x \in receipts : \E i \in 1..Len(audit) : i <= head' /\ x = Sealed(audit[i], i)
    BY <1>1, <1>4 DEF FilesByPosition
  <2>2. \A i \in 1..Len(audit) : audit[i] \notin intents => i <= head' /\ Sealed(audit[i], i) \in receipts
    BY <1>1, <1>4 DEF FilesByPosition
  <2> QED
    BY <1>1, <1>4, <2>1, <2>2 DEF FilesByPosition
<1>7. ProgressInv(p)'
  BY <1>1, <1>2, <1>3, <1>4, <1>5 DEF ProgressInv, Committing
<1>8. \A x \in acked' : x \notin intents' /\ \E i \in 1..Len(audit') : audit'[i] = x
  BY <1>4 DEF Inv, ghost
<1> QED
  BY <1>1, <1>4, <1>5, <1>6, <1>7, <1>8, HolderSteps DEF Inv, ghost

LEMMA CreatingReceipt ==
  ASSUME Inv, NEW p \in Procs \ dead, UNCHANGED <<holders, dead, faults>>, CreateReceipt(p)
  PROVE  Inv'
<1>0. pc[p] = "receipt"
  BY DEF CreateReceipt
<1>1. /\ p \in holders /\ TypeOK /\ ProgressInv(p) /\ FilesByPosition
      /\ known[p] = audit /\ (p \in recovering => todo[p] = {})
      /\ DOMAIN audit = 1..Len(audit) /\ Len(audit) \in Nat
      /\ \A i \in 1..Len(audit) : audit[i] \in Record
  BY <1>0, Transaction DEF Committing
<1>2. PICK t \in Record : t = current[p] /\ intents = {t}
  BY <1>0, Transaction DEF Committing
<1>3. t \in domain /\ t \in ToSet(audit) /\ head = Len(audit)
  BY <1>0, <1>1, <1>2 DEF ProgressInv
<1>4. PICK i \in 1..Len(audit) :
        /\ audit[i].path = t.path
        /\ IF Taken(receipts, Sealed(t, i)) THEN Refuse(p)
           ELSE /\ receipts' = receipts \cup {Sealed(t, i)}
                /\ GoTo(p, "unlink")
                /\ UNCHANGED <<intents, domain, audit, head, known, recovering, todo, current, ghost>>
  BY <1>1, <1>2 DEF CreateReceipt, Audited, Sealed
<1>5. audit[i] = t
  BY <1>1, <1>2, <1>4, EventOfTransaction
<1>6. ~Taken(receipts, Sealed(t, i))
  <2> SUFFICES ASSUME NEW x \in receipts, x.path = t.path PROVE x = Sealed(t, i)
    BY Records DEF Taken
  <2>1. PICK j \in 1..Len(audit) : audit[j] = t /\ x = Sealed(t, j)
    BY <1>1, <1>2, ReceiptOfTransaction DEF TypeOK
  <2>2. j = i
    BY <1>1, <1>5, <2>1 DEF FilesByPosition
  <2> QED
    BY <2>1, <2>2
<1>7. /\ receipts' = receipts \cup {Sealed(t, i)} /\ GoTo(p, "unlink")
      /\ UNCHANGED <<intents, domain, audit, head, known, recovering, todo, current, ghost>>
  BY <1>4, <1>6
<1>8. TypeOK' /\ pc'[p] = "unlink" /\ \A q \in Procs \ {p} : pc'[q] = pc[q]
  <2>1. Sealed(t, i) \in Receipt
    BY <1>1, Records
  <2> QED
    BY <1>1, <1>7, <2>1 DEF TypeOK, GoTo, ghost, Locations
<1>9. FilesByPosition'
  <2>1. \A x \in receipts' : \E j \in 1..Len(audit) : j <= head /\ x = Sealed(audit[j], j)
    BY <1>1, <1>3, <1>5, <1>7 DEF FilesByPosition
  <2>2. \A j \in 1..Len(audit) : audit[j] \notin intents => j <= head /\ Sealed(audit[j], j) \in receipts'
    BY <1>1, <1>7 DEF FilesByPosition
  <2>3. intents' = intents /\ domain' = domain /\ audit' = audit /\ head' = head
    BY <1>7
  <2> QED
    BY <1>1, <2>1, <2>2, <2>3 DEF FilesByPosition
<1>10. ProgressInv(p)'
  BY <1>1, <1>2, <1>3, <1>7, <1>8 DEF ProgressInv, Committing
<1>11. \A x \in acked' : x \notin intents' /\ \E j \in 1..Len(audit') : audit'[j] = x
  BY <1>7 DEF Inv, ghost
<1> QED
  BY <1>1, <1>7, <1>8, <1>9, <1>10, <1>11, HolderSteps DEF Inv, ghost

\* Only now is the transaction over, and acknowledged if it is the operation's own.
LEMMA RemovingIntent ==
  ASSUME Inv, NEW p \in Procs \ dead, UNCHANGED <<holders, dead, faults>>, RemoveIntent(p)
  PROVE  Inv'
<1>0. pc[p] = "unlink"
  BY DEF RemoveIntent
<1>1. /\ p \in holders /\ TypeOK /\ ProgressInv(p) /\ FilesByPosition
      /\ known[p] = audit /\ (p \in recovering => todo[p] = {})
      /\ DOMAIN audit = 1..Len(audit) /\ Len(audit) \in Nat
      /\ \A i \in 1..Len(audit) : audit[i] \in Record
  BY <1>0, Transaction DEF Committing
<1>2. PICK t \in Record : t = current[p] /\ intents = {t}
  BY <1>0, Transaction DEF Committing
<1>3. /\ t \in domain /\ head = Len(audit)
      /\ \E i \in 1..Len(audit) : audit[i] = t /\ Sealed(t, i) \in receipts
  <2>1. PICK i \in DOMAIN audit : Sealed(t, i) \in receipts
    BY <1>0, <1>1, <1>2 DEF ProgressInv
  <2>2. Sealed(t, i).path = t.path
    BY Records
  <2>3. PICK j \in 1..Len(audit) : audit[j] = t /\ Sealed(t, i) = Sealed(t, j)
    BY <1>1, <1>2, <2>1, <2>2, ReceiptOfTransaction DEF TypeOK
  <2> QED
    BY <1>0, <1>1, <1>2, <2>1, <2>3 DEF ProgressInv
<1>4. /\ intents' = {} /\ UNCHANGED <<domain, audit, head, receipts, known, recovering, todo, current, corrupt>>
      /\ acked' \subseteq acked \cup {t}
      /\ \/ p \in recovering /\ GoTo(p, "recover")
         \/ GoTo(p, "leave")
  BY <1>2 DEF RemoveIntent
<1>5. TypeOK' /\ \A q \in Procs \ {p} : pc'[q] = pc[q]
  BY <1>1, <1>4 DEF TypeOK, GoTo, Locations
<1>6. FilesByPosition'
  <2>1. \A i \in 1..Len(audit) : i <= head /\ Sealed(audit[i], i) \in receipts
    BY <1>1, <1>2, <1>3 DEF FilesByPosition
  <2>2. \A r \in domain : \E i \in 1..Len(audit) : audit[i] = r
    BY <1>1, <1>2, <1>3 DEF FilesByPosition
  <2>3. \A x, y \in domain : x.path = y.path => x = y
    BY <1>1 DEF FilesByPosition
  <2> QED
    BY <1>1, <1>3, <1>4, <2>1, <2>2, <2>3 DEF FilesByPosition
<1>7. ProgressInv(p)'
  <2>1. CASE p \in recovering /\ GoTo(p, "recover")
    <3>1. pc'[p] = "recover" /\ known'[p] = audit' /\ todo'[p] = intents' /\ p \in recovering'
      BY <1>1, <1>4, <2>1 DEF GoTo, TypeOK
    <3> QED
      BY <3>1 DEF ProgressInv, Committing
  <2>2. CASE GoTo(p, "leave")
    <3>1. pc'[p] = "leave"
      BY <1>1, <2>2 DEF GoTo, TypeOK
    <3> QED
      BY <3>1 DEF ProgressInv, Committing
  <2> QED
    BY <1>4, <2>1, <2>2
<1>8. \A x \in acked' : x \notin intents' /\ \E i \in 1..Len(audit') : audit'[i] = x
  BY <1>3, <1>4 DEF Inv
<1> QED
  BY <1>1, <1>4, <1>5, <1>6, <1>7, <1>8, HolderSteps DEF Inv

-----------------------------------------------------------------------------
(* Faults and the lock                                                      *)

LEMMA Faulting ==
  ASSUME Inv, NEW p \in Procs \ dead,
         \/ Throw(p) /\ UNCHANGED <<holders, dead>>
         \/ Crash(p) /\ UNCHANGED holders
  PROVE  Inv'
<1>1. TypeOK
  BY DEF Inv
<1>2. CASE Throw(p) /\ UNCHANGED <<holders, dead>>
  <2>1. p \in holders
    BY <1>2, Alone DEF Throw
  <2>2. faults' \in 0..MaxFaults
    BY <1>1, <1>2, StoreAssumption DEF Throw, TypeOK
  <2> QED
    BY <1>2, <2>1, <2>2, Moves DEF Throw, Locations
<1>3. CASE Crash(p) /\ UNCHANGED holders
  <2>1. faults' \in 0..MaxFaults
    BY <1>1, <1>3, StoreAssumption DEF Crash, TypeOK
  <2>2. TypeOK' /\ FilesByPosition'
    BY <1>1, <1>3, <2>1 DEF Crash, TypeOK, Inv, FilesByPosition, store, files, local, ghost
  <2>3. \A q \in Procs \ dead' : ProgressInv(q)'
    BY <1>3 DEF Crash, Inv, ProgressInv, store, files, local
  <2>4. HolderInv'
    BY <1>3 DEF Crash, Inv, HolderInv, store, local
  <2>5. (\A x \in acked' : x \notin intents' /\ \E i \in 1..Len(audit') : audit'[i] = x) /\ ~corrupt'
    BY <1>3 DEF Crash, Inv, store, files, ghost
  <2> QED
    BY <2>2, <2>3, <2>4, <2>5 DEF Inv
<1> QED
  BY <1>2, <1>3

LEMMA Locking ==
  ASSUME Inv, NEW p \in Procs \ dead, Acquire(p) \/ Release(p)
  PROVE  Inv'
<1>1. TypeOK /\ HolderInv
  BY DEF Inv
<1>2. UNCHANGED <<files, ghost, dead, faults>>
  BY DEF Acquire, Release, Forget, store
<1>3. TypeOK'
  <2>1. CASE Acquire(p)
    BY <1>1, <2>1 DEF Acquire, TypeOK, store, files, local, ghost
  <2>2. CASE Release(p)
    <3>1. <<>> \in Seq(Record)
      OBVIOUS
    <3> QED
      BY <1>1, <2>2, <3>1 DEF Release, Forget, GoTo, TypeOK, files, ghost, Locations
  <2> QED
    BY <2>1, <2>2
<1>4. HolderInv' /\ \A q \in (Procs \ dead') : pc'[q] = "out"
  <2>1. CASE Acquire(p)
    BY <1>1, <2>1 DEF Acquire, HolderInv, store, local
  <2>2. CASE Release(p)
    <3>1. \A q \in (Procs \ dead) \ {p} : pc[q] = "out"
      BY <2>2, Alone DEF Release, Forget
    <3>2. pc' = [pc EXCEPT ![p] = "out"] /\ holders' = holders \ {p} /\ dead' = dead
      BY <2>2 DEF Release, Forget, GoTo
    <3>3. \A q \in Procs \ dead : pc'[q] = "out"
      BY <1>1, <3>1, <3>2 DEF TypeOK
    <3> QED
      BY <1>1, <3>2, <3>3 DEF HolderInv
  <2> QED
    BY <2>1, <2>2
<1>5. FilesByPosition' /\ \A q \in Procs \ dead' : ProgressInv(q)'
  BY <1>2, <1>4 DEF Inv, FilesByPosition, files, ProgressInv, Committing
<1>6. (\A x \in acked' : x \notin intents' /\ \E i \in 1..Len(audit') : audit'[i] = x) /\ ~corrupt'
  BY <1>2 DEF Inv, files, ghost
<1> QED
  BY <1>3, <1>4, <1>5, <1>6 DEF Inv

LEMMA NextKeepsInv == Inv /\ [Next]_vars => Inv'
<1> SUFFICES ASSUME Inv, [Next]_vars PROVE Inv'
  OBVIOUS
<1>1. ASSUME NEW p \in Procs \ dead, Step(p) PROVE Inv'
  <2>1. CASE StoreStep(p) /\ UNCHANGED <<holders, dead, faults>>
    BY <2>1, Entering, Verifying, Deciding, Starting, CheckingReceipt, CreatingDomain, Auditing,
       WritingHead, CreatingReceipt, RemovingIntent DEF StoreStep
  <2> QED
    BY <1>1, <2>1, Faulting, Locking DEF Step
<1>2. CASE UNCHANGED vars
  <2>1. UNCHANGED <<holders, dead, faults, files, local, ghost>>
    BY <1>2 DEF vars, store
  <2>2. TypeOK' /\ FilesByPosition' /\ HolderInv' /\ (\A p \in Procs \ dead' : ProgressInv(p)')
    BY <2>1 DEF files, local, ghost, Inv, TypeOK, FilesByPosition, HolderInv, ProgressInv
  <2>3. (\A x \in acked' : x \notin intents' /\ \E i \in 1..Len(audit') : audit'[i] = x) /\ ~corrupt'
    BY <2>1 DEF files, ghost, Inv
  <2> QED
    BY <2>2, <2>3 DEF Inv
<1> QED
  BY <1>1, <1>2 DEF Next

-----------------------------------------------------------------------------
(* What the invariant means for operations and callers                      *)

LEMMA BodiesSeeAll == StoreInv => BodySeesCommittedStore
<1> SUFFICES ASSUME Inv, NEW p \in Procs \ dead, pc[p] = "body"
             PROVE  /\ intents = {} /\ known[p] = audit /\ head = Len(audit)
                    /\ domain = ToSet(audit) /\ IsInjective(audit)
                    /\ receipts = {Sealed(audit[i], i) : i \in DOMAIN audit}
  BY InvByPosition DEF BodySeesCommittedStore, Sealed
<1>1. TypeOK /\ FilesByPosition /\ intents = {} /\ known[p] = audit
  BY DEF Inv, ProgressInv
<1>2. /\ DOMAIN audit = 1..Len(audit) /\ Len(audit) \in Nat /\ ToSet(audit) = {audit[i] : i \in 1..Len(audit)}
      /\ FilesInv
  BY <1>1, Positions DEF TypeOK
<1>3. head = Len(audit)
  BY <1>1 DEF FilesByPosition
<1>4. domain = ToSet(audit) /\ IsInjective(audit)
  BY <1>1, <1>2 DEF FilesInv
<1>5. receipts = {Sealed(audit[i], i) : i \in DOMAIN audit}
  BY <1>1, <1>2 DEF FilesByPosition
<1> QED
  BY <1>1, <1>3, <1>4, <1>5

LEMMA AckedAreWhole == StoreInv => AckedIsCommitted
<1> SUFFICES ASSUME Inv, NEW r \in acked
             PROVE  /\ r \in domain /\ r \notin intents
                    /\ \E i \in 1..head : i \in DOMAIN audit /\ audit[i] = r /\ Sealed(r, i) \in receipts
  BY InvByPosition DEF AckedIsCommitted, Sealed
<1>1. TypeOK /\ FilesByPosition /\ r \notin intents
  BY DEF Inv
<1>2. PICK i \in 1..Len(audit) : audit[i] = r
  BY DEF Inv
<1>3. DOMAIN audit = 1..Len(audit) /\ Len(audit) \in Nat
  BY <1>1, Positions DEF TypeOK
<1>4. r \in domain /\ i <= head /\ Sealed(r, i) \in receipts
  BY <1>1, <1>2 DEF FilesByPosition
<1>5. i \in 1..head
  BY <1>1, <1>3, <1>4 DEF TypeOK
<1> QED
  BY <1>1, <1>2, <1>3, <1>4, <1>5

-----------------------------------------------------------------------------
(* Theorems                                                                 *)

\* Wherever processes die or throw, the files of the store are complete but
\* for one transaction, whose files say how far it has got.
THEOREM OneUnfinishedTransaction == Spec => []StoreInv
<1>1. Init => Inv
  BY Initially
<1>2. Inv /\ [Next]_vars => Inv'
  BY NextKeepsInv
<1>3. Inv => StoreInv
  BY InvByPosition
<1> QED
  BY <1>1, <1>2, <1>3, PTL DEF Spec

\* No operation meets a store that it calls corrupt (STORE_CORRUPT).
THEOREM StaysSound == Spec => []NeverCorrupt
<1>1. StoreInv => NeverCorrupt
  BY DEF StoreInv, NeverCorrupt
<1> QED
  BY <1>1, OneUnfinishedTransaction, PTL

\* The body of an operation starts on a store without unfinished work, all of
\* which it has read (withTenantLock).
THEOREM BodiesSeeCommittedStore == Spec => []BodySeesCommittedStore
BY BodiesSeeAll, OneUnfinishedTransaction, PTL

\* What a caller was told is committed stays stored, audited and receipted
\* (commitTransactionLocked).
THEOREM AcknowledgedStays == Spec => []AckedIsCommitted
BY AckedAreWhole, OneUnfinishedTransaction, PTL

-----------------------------------------------------------------------------
(* The store is an AuditLog: for any processes, records and faults, the      *)
(* event that is appended by whoever gets to it is the record its intent     *)
(* decided, and joins the log once.                                          *)

-----------------------------------------------------------------------------
(* Sets of at most one element as sequences                                 *)

LEMMA NothingAsSequence == SetToSeq({}) = <<>>
<1> DEFINE F == [1..0 -> {}]
<1>1. Cardinality({}) = 0
  BY FS_EmptySet
<1>2. <<>> \in F /\ IsInjective(<<>>)
  BY DEF IsInjective
<1>3. \A f \in F : f = <<>>
  <2> SUFFICES ASSUME NEW f \in F PROVE f = <<>>
    OBVIOUS
  <2>1. f \in Seq({}) /\ Len(f) = 0
    OBVIOUS
  <2> QED
    BY <2>1
<1>4. SetToSeq({}) = CHOOSE f \in F : IsInjective(f)
  BY <1>1 DEF SetToSeq
<1> HIDE DEF F
<1> QED
  BY <1>2, <1>3, <1>4

LEMMA OneAsSequence ==
  ASSUME NEW S, NEW t \in S
  PROVE  SetToSeq({t}) = <<t>>
<1> DEFINE F == [1..1 -> {t}]
<1>1. Cardinality({t}) = 1
  BY FS_Singleton
<1>2. <<t>> \in F /\ IsInjective(<<t>>)
  BY DEF IsInjective
<1>3. \A f \in F : f = <<t>>
  <2> SUFFICES ASSUME NEW f \in F PROVE f = <<t>>
    OBVIOUS
  <2>1. \A i \in 1..1 : f[i] = t /\ <<t>>[i] = t
    OBVIOUS
  <2>2. f = [i \in 1..1 |-> t]
    BY <2>1
  <2>3. <<t>> = [i \in 1..1 |-> t]
    BY <1>2, <2>1
  <2> QED
    BY <2>2, <2>3
<1>4. SetToSeq({t}) = CHOOSE f \in F : IsInjective(f)
  BY <1>1 DEF SetToSeq
<1> HIDE DEF F
<1> QED
  BY <1>2, <1>3, <1>4

-----------------------------------------------------------------------------
(* The log that the files stand for                                         *)

LogNow == audit \o SetToSeq(Unaudited)

\* All intents are audited; or one is not, and will be the next event.
LEMMA Joined ==
  ASSUME NEW S, NEW log \in Seq(S)
  PROVE  /\ log \o SetToSeq({}) = log
         /\ \A t \in S : log \o SetToSeq({t}) = Append(log, t)
<1>1. log \o SetToSeq({}) = log
  <2>1. log \o <<>> = log
    OBVIOUS
  <2> QED
    BY <2>1, NothingAsSequence
<1>2. ASSUME NEW t \in S PROVE log \o SetToSeq({t}) = Append(log, t)
  <2>1. SetToSeq({t}) = <<t>>
    BY OneAsSequence
  <2>2. Append(log, t) = log \o <<t>>
    BY AppendIsConcat
  <2> QED
    BY <2>1, <2>2
<1> QED
  BY <1>1, <1>2

\* Only three kinds of steps change intents or audit.
LEMMA OtherSteps ==
  ASSUME NEW p \in Procs, Step(p) \/ UNCHANGED vars
  PROVE  UNCHANGED <<intents, audit>> \/ Start(p) \/ AppendEvent(p) \/ RemoveIntent(p)
BY DEF Step, StoreStep, Enter, Scan, RecoverNext, Recovered, Verify, Probe, Reread, Decide, CheckReceipt,
   CreateDomain, FindEvent, WriteHead, CreateReceipt, Throw, Crash, Acquire, Release, Forget,
   Proceed, Refuse, Corrupt, vars, store, files

\* A record joins the log as its intent is created, ...
LEMMA StartCommits ==
  ASSUME Inv, NEW p \in Procs \ dead, Start(p)
  PROVE  \E r \in Record : Log!Commit(r)
<1>0. pc[p] = "intent"
  BY DEF Start
<1>1. TypeOK /\ ProgressInv(p) /\ FilesByPosition
  BY <1>0, Alone
<1>2. /\ known[p] = audit /\ intents = {}
      /\ current[p] \in Record /\ \A x \in domain : x.path # current[p].path
  BY <1>0, <1>1 DEF ProgressInv
<1>3. PICK t \in Record : t = current[p]
  BY <1>2
<1>4. intents' = {t} /\ audit' = audit
  BY <1>2, <1>3 DEF Start, Taken
<1>5. audit \in Seq(Record) /\ DOMAIN audit = 1..Len(audit)
  BY <1>1, Positions DEF TypeOK
<1>6. \A i \in DOMAIN audit : audit[i].path # t.path
  BY <1>1, <1>2, <1>3, <1>5 DEF FilesByPosition
<1>7. Unaudited = {} /\ Unaudited' = {t}
  BY <1>2, <1>4, <1>6 DEF Unaudited
<1>8. audit \o SetToSeq(Unaudited) = audit /\ audit' \o SetToSeq(Unaudited') = Append(audit, t)
  BY <1>4, <1>5, <1>7, Joined
<1> QED
  BY <1>6, <1>8 DEF Log!Commit

\* ... is there when its event is appended, and when its intent goes.
LEMMA AppendStutters ==
  ASSUME Inv, NEW p \in Procs \ dead, AppendEvent(p)
  PROVE  LogNow' = LogNow
<1>0. pc[p] = "audit"
  BY DEF AppendEvent
<1>1. /\ TypeOK /\ FilesByPosition /\ known[p] = audit
      /\ DOMAIN audit = 1..Len(audit) /\ Len(audit) \in Nat
  BY <1>0, Transaction DEF Committing
<1>2. PICK t \in Record : t = current[p] /\ intents = {t}
  BY <1>0, Transaction DEF Committing
<1>3. \A i \in DOMAIN audit : audit[i] # t
  BY <1>1, <1>2 DEF AppendEvent, Audited
<1>4. Len(audit) + 1 \notin DOMAIN audit
  BY <1>1
<1>5. audit' = Append(audit, t) /\ intents' = {t}
  BY <1>1, <1>2, <1>4 DEF AppendEvent
<1>6. audit \in Seq(Record) /\ Append(audit, t) \in Seq(Record)
  BY <1>1 DEF TypeOK
<1>7. Len(audit) + 1 \in DOMAIN Append(audit, t) /\ Append(audit, t)[Len(audit) + 1] = t
  BY <1>1, <1>6
<1>8. Unaudited = {t} /\ Unaudited' = {}
  BY <1>2, <1>3, <1>5, <1>7 DEF Unaudited
<1> QED
  BY <1>5, <1>6, <1>8, Joined DEF LogNow

LEMMA RemoveStutters ==
  ASSUME Inv, NEW p \in Procs \ dead, RemoveIntent(p)
  PROVE  LogNow' = LogNow
<1>0. pc[p] = "unlink"
  BY DEF RemoveIntent
<1>1. TypeOK /\ ProgressInv(p)
  BY <1>0, Transaction DEF Committing
<1>2. PICK t \in Record : t = current[p] /\ intents = {t}
  BY <1>0, Transaction DEF Committing
<1>3. \E i \in DOMAIN audit : audit[i] = t
  BY <1>0, <1>1, <1>2 DEF ProgressInv, ToSet
<1>4. audit' = audit /\ intents' = {}
  BY <1>2 DEF RemoveIntent
<1>5. Unaudited = {} /\ Unaudited' = {}
  BY <1>2, <1>3, <1>4 DEF Unaudited
<1> QED
  BY <1>4, <1>5 DEF LogNow

LEMMA StepImplements == Inv /\ [Next]_vars => [Log!Next]_LogNow
<1> SUFFICES ASSUME Inv, [Next]_vars PROVE Log!Next \/ LogNow' = LogNow
  OBVIOUS
<1>1. CASE UNCHANGED <<intents, audit>>
  BY <1>1 DEF LogNow, Unaudited
<1>2. ASSUME NEW p \in Procs \ dead, Step(p) PROVE Log!Next \/ LogNow' = LogNow
  <2>1. CASE Start(p)
    BY <2>1, StartCommits DEF Log!Next
  <2> QED
    BY <1>1, <1>2, <2>1, OtherSteps, AppendStutters, RemoveStutters
<1>3. CASE UNCHANGED vars
  BY <1>1, <1>3 DEF vars, store, files
<1> QED
  BY <1>2, <1>3 DEF Next

\* Each record joins the log once, whole and for good, whatever dies between
\* the five files that make it up (startTransactionLocked,
\* commitTransactionLocked, recoverTransactionsLocked).
THEOREM StoreIsAuditLog == Spec => ImplementsAuditLog
<1>1. Init => Log!Init
  <2> SUFFICES ASSUME Init PROVE audit \o SetToSeq(Unaudited) = <<>>
    BY DEF Log!Init
  <2>1. audit = <<>> /\ Unaudited = {}
    BY DEF Init, Unaudited
  <2>2. <<>> \in Seq(Record)
    OBVIOUS
  <2> QED
    BY <2>1, <2>2, Joined
<1>2. Inv /\ [Next]_vars => [Log!Next]_(audit \o SetToSeq(Unaudited))
  BY StepImplements DEF LogNow
<1>3. Init => Inv
  BY Initially
<1>4. Inv /\ [Next]_vars => Inv'
  BY NextKeepsInv
<1> QED
  BY <1>1, <1>2, <1>3, <1>4, PTL DEF Spec, ImplementsAuditLog, Log!Spec

-----------------------------------------------------------------------------
(* On the lock that the control plane has: the same, until a rename moves    *)
(* another directory than its process had looked at.                         *)

Locks == INSTANCE TenantLockProofs WITH crashed <- dead, MaxCrashes <- MaxFaults

OnLockInv ==
  /\ Locks!LockInv /\ holders = L!Holding
  /\ misplaced \/ Inv

\* The lock changes hands, or a process dies: no operation moves.
HandsOver ==
  /\ UNCHANGED store /\ faults' \in 0..MaxFaults
  /\ dead \subseteq dead' /\ dead' \subseteq Procs
  /\ \A p \in Procs \ dead' : pc[p] # "out" => p \in holders'

\* The lock's own steps, taken one by one; a process that dies leaves it as it is.
LEMMA StepsOfTheLock ==
  ASSUME [NextOnLock]_allVars
  PROVE  \/ [Locks!LockNext]_Locks!lockVars
         \/ \E p \in Procs \ dead : dead' = dead \cup {p} /\ UNCHANGED lock
<1>1. ASSUME NEW p \in Procs \ dead, L!Want(p) \/ L!GiveUp(p) \/ L!RemoveOwner(p) \/ L!RemoveDirectory(p)
      PROVE  Locks!LockNext
  <2>1. Locks!Want(p) \/ Locks!GiveUp(p) \/ Locks!RemoveOwner(p) \/ Locks!RemoveDirectory(p)
    BY <1>1 DEF L!Want, L!GiveUp, L!RemoveOwner, L!RemoveDirectory, L!Look, L!Move, L!Replace,
       Locks!Want, Locks!GiveUp, Locks!RemoveOwner, Locks!RemoveDirectory, Locks!Look, Locks!Move, Locks!Replace
  <2> QED
    BY <2>1 DEF Locks!LockNext, Locks!Progress
<1>2. ASSUME NEW p \in Procs \ dead, L!Acquiring(p) PROVE Locks!LockNext
  <2>1. \/ Locks!MakeDirectory(p) \/ Locks!WriteOwner(p) \/ Locks!Stat(p) \/ Locks!Judge(p) \/ Locks!Break(p)
    BY <1>2 DEF L!Acquiring, L!MakeDirectory, L!WriteOwner, L!Stat, L!NotRunning, L!Judge, L!Break,
       L!Look, L!Move, L!Replace, Locks!MakeDirectory, Locks!WriteOwner, Locks!Stat, Locks!NotRunning,
       Locks!Judge, Locks!Break, Locks!Look, Locks!Move, Locks!Replace
  <2> QED
    BY <2>1 DEF Locks!LockNext, Locks!Progress, Locks!Acquiring
<1>3. CASE L!Age
  BY <1>3 DEF L!Age, Locks!Age, Locks!LockNext
<1>4. CASE UNCHANGED <<dead, lock>>
  BY <1>4 DEF lock, Locks!lockVars
<1>5. ASSUME NEW p \in Procs \ dead, StepOnLock(p)
      PROVE  \/ [Locks!LockNext]_Locks!lockVars
             \/ dead' = dead \cup {p} /\ UNCHANGED lock
  BY <1>1, <1>2, <1>4, <1>5 DEF StepOnLock, AcquireLock, Operate, ReleaseLock, Crash
<1> QED
  BY <1>3, <1>4, <1>5 DEF NextOnLock, allVars, vars

LEMMA LockStays ==
  ASSUME None \notin L!Directory, Locks!LockInv, [NextOnLock]_allVars
  PROVE  /\ Locks!LockInv'
         /\ misplaced => misplaced'
         /\ misplaced' \/ \A p, q \in L!Holding' : p = q
<1>1. Locks!LockAssumption
  BY StoreAssumption DEF Locks!LockAssumption, Locks!Directory, L!Directory
<1>2. Locks!LockInv' /\ (misplaced => misplaced')
  <2>1. CASE [Locks!LockNext]_Locks!lockVars
    <3>1. misplaced => misplaced'
      BY <2>1
         DEF Locks!LockNext, Locks!lockVars, Locks!Age, Locks!Want, Locks!GiveUp, Locks!Progress, Locks!Acquiring,
             Locks!MakeDirectory, Locks!WriteOwner, Locks!Stat, Locks!Judge, Locks!Break, Locks!RemoveOwner,
             Locks!RemoveDirectory, Locks!Crash, Locks!Look, Locks!Move, Locks!Replace
    <3> QED
      BY <1>1, <2>1, <3>1, Locks!StepKeepsInv
  <2>2. ASSUME NEW p \in Procs \ dead, dead' = dead \cup {p}, UNCHANGED lock PROVE Locks!LockInv' /\ misplaced' = misplaced
    BY <2>2 DEF lock, Locks!LockInv, Locks!LockTypeOK, Locks!Signing, Locks!Holding, Locks!HoldersAreNamed
  <2> QED
    BY <2>1, <2>2, StepsOfTheLock
<1>3. misplaced' \/ \A p, q \in L!Holding' : p = q
  BY <1>2 DEF Locks!LockInv, Locks!HoldersAreNamed, Locks!Holding, L!Holding
<1> QED
  BY <1>2, <1>3

LEMMA HandingOver ==
  ASSUME Inv, HandsOver, holders' \subseteq Procs, \A p, q \in holders' \ dead' : p = q
  PROVE  Inv'
<1>1. UNCHANGED <<files, local, ghost>>
  BY DEF HandsOver, store
<1>2. TypeOK'
  BY <1>1 DEF Inv, TypeOK, HandsOver, files, local, ghost
<1>3. FilesByPosition'
  BY <1>1 DEF Inv, FilesByPosition, files
<1>4. HolderInv'
  BY <1>1 DEF Inv, HolderInv, HandsOver, local
<1>5. \A p \in Procs \ dead' : ProgressInv(p)'
  BY <1>1 DEF Inv, HandsOver, ProgressInv, files, local
<1>6. (\A x \in acked' : x \notin intents' /\ \E i \in 1..Len(audit') : audit'[i] = x) /\ ~corrupt'
  BY <1>1 DEF Inv, files, ghost
<1> QED
  BY <1>2, <1>3, <1>4, <1>5, <1>6 DEF Inv

\* Every step is one that the ideal lock allows, or concerns the lock alone.
LEMMA OnLockSteps ==
  ASSUME Locks!LockInv, holders = L!Holding, Inv, NextOnLock
  PROVE  Next \/ UNCHANGED vars \/ HandsOver
<1>1. /\ holders' = L!Holding' /\ at \in [Procs -> Locks!Places]
      /\ \A p \in Procs \ dead : pc[p] # "out" => p \in holders
      /\ faults \in 0..MaxFaults /\ dead \subseteq Procs
  BY DEF NextOnLock, Locks!LockInv, Locks!LockTypeOK, Inv, TypeOK, HolderInv
<1>2. CASE L!Age /\ UNCHANGED <<faults, store>>
  BY <1>1, <1>2 DEF L!Age, L!Holding, vars
<1>3. ASSUME NEW p \in Procs \ dead, AcquireLock(p) PROVE HandsOver
  <2>1. UNCHANGED <<dead, faults, store>> /\ at[p] # "held" /\ \E place : at' = [at EXCEPT ![p] = place]
    BY <1>3 DEF AcquireLock, L!Want, L!GiveUp, L!Acquiring, L!MakeDirectory, L!WriteOwner, L!Stat, L!Judge, L!Break,
       L!Look, L!Move
  <2>2. holders \subseteq holders'
    BY <1>1, <2>1 DEF L!Holding
  <2> QED
    BY <1>1, <2>1, <2>2 DEF HandsOver
<1>4. ASSUME NEW p \in Procs \ dead, Operate(p) PROVE Step(p)
  BY <1>1, <1>4 DEF Operate, Step, L!Holding, lock, Throw
<1>5. ASSUME NEW p \in Procs \ dead, ReleaseLock(p) PROVE Step(p) \/ UNCHANGED vars
  <2>1. CASE Forget(p) /\ L!RemoveOwner(p) /\ UNCHANGED faults
    <3>1. at[p] = "held" /\ at' = [at EXCEPT ![p] = "rmdir"] /\ dead' = dead
      BY <2>1 DEF L!RemoveOwner, L!Move
    <3>2. holders' = holders \ {p}
      BY <1>1, <3>1 DEF L!Holding
    <3> QED
      BY <2>1, <3>1, <3>2 DEF Step, Release
  <2>2. CASE L!RemoveDirectory(p) /\ UNCHANGED <<faults, store>>
    <3>1. at[p] = "rmdir" /\ at' = [at EXCEPT ![p] = "idle"] /\ dead' = dead
      BY <2>2 DEF L!RemoveDirectory, L!Look, L!Move
    <3>2. holders' = holders
      BY <1>1, <3>1 DEF L!Holding
    <3> QED
      BY <2>2, <3>1, <3>2 DEF vars
  <2> QED
    BY <1>5, <2>1, <2>2 DEF ReleaseLock
<1>6. ASSUME NEW p \in Procs \ dead, Crash(p), UNCHANGED lock PROVE HandsOver
  <2>1. dead' = dead \cup {p} /\ faults' \in 0..MaxFaults /\ UNCHANGED store
    BY <1>1, <1>6, StoreAssumption DEF Crash
  <2>2. holders' = holders \ {p}
    BY <1>1, <1>6, <2>1 DEF L!Holding, lock
  <2> QED
    BY <1>1, <2>1, <2>2 DEF HandsOver
<1> QED
  BY <1>2, <1>3, <1>4, <1>5, <1>6 DEF NextOnLock, StepOnLock, Next

LEMMA OnLockKeepsInv ==
  ASSUME None \notin L!Directory, OnLockInv, [NextOnLock]_allVars
  PROVE  OnLockInv'
<1>1. /\ Locks!LockInv' /\ (misplaced => misplaced')
      /\ misplaced' \/ \A p, q \in L!Holding' : p = q
  BY LockStays DEF OnLockInv
<1>2. holders' = L!Holding'
  BY DEF OnLockInv, NextOnLock, allVars, vars, lock, L!Holding
<1>3. ASSUME ~misplaced' PROVE Inv'
  <2>1. Inv /\ \A p, q \in holders' \ dead' : p = q
    BY <1>1, <1>2, <1>3 DEF OnLockInv
  <2>2. holders' \subseteq Procs
    BY <1>2 DEF L!Holding
  <2>3. Next \/ UNCHANGED vars \/ HandsOver
    BY <2>1, OnLockSteps DEF OnLockInv, allVars
  <2> QED
    BY <2>1, <2>2, <2>3, NextKeepsInv, HandingOver
<1> QED
  BY <1>1, <1>2, <1>3 DEF OnLockInv

LEMMA InitiallyOnLock ==
  ASSUME None \notin L!Directory, InitOnLock
  PROVE  OnLockInv
<1>1. Locks!LockAssumption
  BY StoreAssumption DEF Locks!LockAssumption, Locks!Directory, L!Directory
<1>2. Locks!LockInit
  BY DEF InitOnLock, L!LockInit, Locks!LockInit
<1>3. Locks!LockInv
  BY <1>1, <1>2, Locks!InitiallyFree
<1>4. holders = L!Holding
  BY DEF InitOnLock, Init, L!LockInit, L!Holding
<1> QED
  BY <1>3, <1>4, Initially DEF InitOnLock, OnLockInv

\* The store on the lock it has, for any processes, crashes and interleavings
\* of mkdir, stat, owner.json and rename: the inductive invariant.
THEOREM OneUnfinishedTransactionOnLock ==
  ASSUME None \notin L!Directory
  PROVE  SpecOnLock => []OnLockInv
BY InitiallyOnLock, OnLockKeepsInv, PTL DEF SpecOnLock

\* A body sees unfinished work, a store does not verify or an acknowledged
\* record loses its receipt, only if acquireLock moved a directory away that
\* was not the one it saw (withTenantLock).
THEOREM TenantLockIsAllThatIsNeeded ==
  ASSUME None \notin L!Directory
  PROVE  SpecOnLock => []SoundUnlessMisplaced
<1>1. OnLockInv => SoundUnlessMisplaced
  BY InvByPosition, BodiesSeeAll, AckedAreWhole DEF OnLockInv, SoundUnlessMisplaced, StoreInv, NeverCorrupt
<1> QED
  BY <1>1, OneUnfinishedTransactionOnLock, PTL

\* ... and until then each record joins the log once, whole and for good.
THEOREM StoreIsAuditLogOnLock ==
  ASSUME None \notin L!Directory
  PROVE  SpecOnLock => LogUnlessMisplaced
<1>1. ASSUME OnLockInv, [NextOnLock]_allVars, ~misplaced' PROVE Log!Next \/ LogNow' = LogNow
  <2>1. Inv
    BY <1>1, LockStays DEF OnLockInv
  <2>2. CASE [Next]_vars
    BY <2>1, <2>2, StepImplements
  <2>3. CASE HandsOver
    BY <2>3 DEF HandsOver, store, files, LogNow, Unaudited
  <2> QED
    BY <1>1, <2>1, <2>2, <2>3, OnLockSteps DEF OnLockInv, allVars
<1>2. OnLockInv /\ [NextOnLock]_allVars => [misplaced' \/ Log!Next]_(audit \o SetToSeq(Unaudited))
  BY <1>1 DEF LogNow
<1> QED
  BY <1>2, OneUnfinishedTransactionOnLock, PTL DEF SpecOnLock, LogUnlessMisplaced

-----------------------------------------------------------------------------
(* Whatever the lock lets through: what holds with any number of operations  *)
(* in the store at once, because files are linked and never replaced.        *)

Writing == {"intent"} \cup Committing

\* What a process knows or has done stays true, whoever else is in the store.
LooseInv ==
  /\ TypeOK
  /\ \A x, y \in domain : x.path = y.path => x = y
  /\ \A p \in Procs : Len(known[p]) <= Len(audit) /\ \A i \in 1..Len(known[p]) : known[p][i] = audit[i]
  /\ \A p \in Procs : pc[p] \in Writing => current[p] \in Record
  /\ \A p \in Procs : pc[p] \in {"audit", "head", "receipt", "unlink"} => current[p] \in domain
  /\ \A p \in Procs : pc[p] \in {"head", "receipt", "unlink"} => \E i \in 1..Len(audit) : audit[i] = current[p]
  /\ \A r \in acked : r \in domain /\ \E i \in 1..Len(audit) : audit[i] = r

\* The files that only grow: nothing is removed, nothing is moved.
Growth ==
  /\ domain \subseteq domain'
  /\ \A x, y \in domain' : x.path = y.path => x = y
  /\ audit' = audit \/ \E r \in Record : audit' = Append(audit, r)

LEMMA Grown ==
  ASSUME TypeOK, Growth
  PROVE  /\ audit' \in Seq(Record) /\ Len(audit) \in Nat /\ Len(audit') \in Nat /\ Len(audit) <= Len(audit')
         /\ \A i \in 1..Len(audit) : audit'[i] = audit[i] /\ i \in 1..Len(audit')
<1>1. audit \in Seq(Record) /\ Len(audit) \in Nat
  BY DEF TypeOK
<1>2. CASE audit' = audit
  BY <1>1, <1>2
<1>3. ASSUME NEW r \in Record, audit' = Append(audit, r)
      PROVE  /\ audit' \in Seq(Record) /\ Len(audit') = Len(audit) + 1
             /\ \A i \in 1..Len(audit) : audit'[i] = audit[i]
  BY <1>1, <1>3
<1> QED
  BY <1>1, <1>2, <1>3 DEF Growth

\* What a process has to see to of itself, as it moves on.
MovesOn(p) ==
  /\ Len(known'[p]) <= Len(audit') /\ \A i \in 1..Len(known'[p]) : known'[p][i] = audit'[i]
  /\ pc'[p] \in Writing => current'[p] \in Record
  /\ pc'[p] \in {"audit", "head", "receipt", "unlink"} => current'[p] \in domain'
  /\ pc'[p] \in {"head", "receipt", "unlink"} => \E i \in 1..Len(audit') : audit'[i] = current'[p]
  /\ acked' = acked \/ \E r \in domain' : acked' = acked \cup {r} /\ \E i \in 1..Len(audit') : audit'[i] = r

LEMMA LooseSteps ==
  ASSUME LooseInv, NEW p \in Procs, TypeOK', Growth, MovesOn(p),
         \A q \in Procs \ {p} : pc'[q] = pc[q] /\ known'[q] = known[q] /\ current'[q] = current[q]
  PROVE  LooseInv'
<1>1. TypeOK /\ known \in [Procs -> Seq(Record)]
  BY DEF LooseInv, TypeOK
<1>2. /\ Len(audit) \in Nat /\ Len(audit') \in Nat /\ Len(audit) <= Len(audit')
      /\ \A i \in 1..Len(audit) : audit'[i] = audit[i] /\ i \in 1..Len(audit')
  BY <1>1, Grown
<1>3. ASSUME NEW q \in Procs
      PROVE  Len(known'[q]) <= Len(audit') /\ \A i \in 1..Len(known'[q]) : known'[q][i] = audit'[i]
  <2>1. CASE q = p
    BY <2>1 DEF MovesOn
  <2>2. CASE q # p
    <3>1. known'[q] = known[q] /\ Len(known[q]) \in Nat /\ Len(known[q]) <= Len(audit)
      BY <1>1, <2>2 DEF LooseInv
    <3>2. \A i \in 1..Len(known[q]) : i \in 1..Len(audit) /\ known[q][i] = audit[i]
      BY <1>2, <3>1 DEF LooseInv
    <3> QED
      BY <1>2, <3>1, <3>2
  <2> QED
    BY <2>1, <2>2
<1>4. ASSUME NEW q \in Procs
      PROVE  /\ pc'[q] \in Writing => current'[q] \in Record
             /\ pc'[q] \in {"audit", "head", "receipt", "unlink"} => current'[q] \in domain'
             /\ pc'[q] \in {"head", "receipt", "unlink"} => \E i \in 1..Len(audit') : audit'[i] = current'[q]
  <2>1. CASE q = p
    BY <2>1 DEF MovesOn
  <2>2. CASE q # p
    BY <1>2, <2>2 DEF LooseInv, Growth
  <2> QED
    BY <2>1, <2>2
<1>5. \A r \in acked' : r \in domain' /\ \E i \in 1..Len(audit') : audit'[i] = r
  <2>1. \A r \in acked : r \in domain' /\ \E i \in 1..Len(audit') : audit'[i] = r
    BY <1>2 DEF LooseInv, Growth
  <2> QED
    BY <2>1 DEF MovesOn
<1> QED
  BY <1>3, <1>4, <1>5 DEF LooseInv, Growth

\* Of the lock and of faults, the store only needs that they are what they are.
Surroundings == holders' \subseteq Procs /\ dead' \subseteq Procs /\ faults' \in 0..MaxFaults

\* A step that stores no record and appends no event.
LEMMA QuietSteps ==
  ASSUME LooseInv, NEW p \in Procs, UNCHANGED <<domain, audit, acked>>, TypeOK',
         Len(known'[p]) <= Len(audit) /\ \A i \in 1..Len(known'[p]) : known'[p][i] = audit[i],
         pc'[p] \in Writing => current'[p] \in Record,
         pc'[p] \in {"audit", "head", "receipt", "unlink"} => current'[p] \in domain,
         pc'[p] \in {"head", "receipt", "unlink"} => \E i \in 1..Len(audit) : audit[i] = current'[p],
         \A q \in Procs \ {p} : pc'[q] = pc[q] /\ known'[q] = known[q] /\ current'[q] = current[q]
  PROVE  LooseInv'
<1>1. Growth
  BY DEF LooseInv, Growth
<1>2. MovesOn(p)
  BY DEF MovesOn
<1> QED
  BY <1>1, <1>2, LooseSteps

\* It only moves on, or gives up.
LEMMA LooseMoves ==
  ASSUME LooseInv, NEW p \in Procs, Surroundings,
         NEW place \in Locations, Proceed(p, place) \/ (GoTo(p, place) /\ corrupt' = TRUE
           /\ UNCHANGED <<files, known, recovering, todo, current, acked>>),
         place \in Writing => current[p] \in Record,
         place \in {"audit", "head", "receipt", "unlink"} => current[p] \in domain,
         place \in {"head", "receipt", "unlink"} => \E i \in 1..Len(audit) : audit[i] = current[p]
  PROVE  LooseInv'
<1>1. UNCHANGED <<files, known, recovering, todo, current, acked>> /\ corrupt' \in BOOLEAN /\ GoTo(p, place)
  BY DEF Proceed, ghost, LooseInv, TypeOK
<1>2. TypeOK' /\ pc'[p] = place /\ \A q \in Procs \ {p} : pc'[q] = pc[q]
  BY <1>1 DEF LooseInv, TypeOK, Surroundings, GoTo, files
<1> QED
  BY <1>1, <1>2, QuietSteps DEF LooseInv, files

LEMMA LooseRecovery ==
  ASSUME LooseInv, NEW p \in Procs, Surroundings,
         (\E recover \in BOOLEAN : Enter(p, recover)) \/ Scan(p) \/ RecoverNext(p) \/ Recovered(p)
         \/ Verify(p) \/ Probe(p) \/ Forget(p)
  PROVE  LooseInv'
<1>0. TypeOK /\ audit \in Seq(Record) /\ Len(audit) \in Nat
  BY DEF LooseInv, TypeOK
<1>1. CASE \E recover \in BOOLEAN : Enter(p, recover)
  <2>1. PICK place \in {"scan", "probe"} : GoTo(p, place)
    BY <1>1 DEF Enter
  <2>2. known' = [known EXCEPT ![p] = audit] /\ UNCHANGED <<files, recovering, todo, current, ghost>>
    BY <1>1 DEF Enter
  <2>3. TypeOK'
    BY <1>0, <2>1, <2>2 DEF TypeOK, Surroundings, GoTo, files, ghost, Locations
  <2>4. /\ pc'[p] = place /\ known'[p] = audit
        /\ \A q \in Procs \ {p} : pc'[q] = pc[q] /\ known'[q] = known[q] /\ current'[q] = current[q]
    BY <1>0, <2>1, <2>2 DEF TypeOK, GoTo
  <2> QED
    BY <1>0, <2>2, <2>3, <2>4, QuietSteps DEF files, ghost, Writing, Committing
<1>2. CASE Scan(p)
  <2>1. GoTo(p, "recover") /\ UNCHANGED <<files, known, current, ghost>>
    BY <1>2 DEF Scan
  <2>2. todo' = [todo EXCEPT ![p] = intents] /\ recovering' = recovering \cup {p}
    BY <1>2 DEF Scan
  <2>3. TypeOK'
    BY <1>0, <2>1, <2>2 DEF TypeOK, Surroundings, GoTo, files, ghost, Locations
  <2>4. pc'[p] = "recover" /\ \A q \in Procs \ {p} : pc'[q] = pc[q]
    BY <1>0, <2>1 DEF TypeOK, GoTo
  <2> QED
    BY <1>0, <2>1, <2>3, <2>4, QuietSteps DEF LooseInv, files, ghost, Writing, Committing
<1>3. CASE RecoverNext(p)
  <2>1. GoTo(p, "receipt?") /\ UNCHANGED <<files, known, recovering, ghost>>
    BY <1>3 DEF RecoverNext
  <2>2. PICK t \in todo[p] : todo' = [todo EXCEPT ![p] = @ \ {t}] /\ current' = [current EXCEPT ![p] = t]
    BY <1>3 DEF RecoverNext
  <2>3. t \in Record
    BY <1>0, <2>2 DEF TypeOK
  <2>4. TypeOK'
    BY <1>0, <2>1, <2>2, <2>3 DEF TypeOK, Surroundings, GoTo, files, ghost, Locations
  <2>5. /\ pc'[p] = "receipt?" /\ current'[p] = t
        /\ \A q \in Procs \ {p} : pc'[q] = pc[q] /\ current'[q] = current[q]
    BY <1>0, <2>1, <2>2 DEF TypeOK, GoTo
  <2> QED
    BY <1>0, <2>1, <2>3, <2>4, <2>5, QuietSteps DEF LooseInv, files, ghost
<1>4. CASE Recovered(p)
  <2>1. GoTo(p, "verify") /\ recovering' = recovering \ {p} /\ UNCHANGED <<files, known, todo, current, ghost>>
    BY <1>4 DEF Recovered
  <2>2. TypeOK'
    BY <1>0, <2>1 DEF TypeOK, Surroundings, GoTo, files, ghost, Locations
  <2>3. pc'[p] = "verify" /\ \A q \in Procs \ {p} : pc'[q] = pc[q]
    BY <1>0, <2>1 DEF TypeOK, GoTo
  <2> QED
    BY <1>0, <2>1, <2>2, <2>3, QuietSteps DEF LooseInv, files, ghost, Writing, Committing
<1>5. CASE Verify(p) \/ Probe(p)
  BY <1>5, LooseMoves DEF Verify, Probe, Corrupt, Locations, Writing, Committing
<1>6. CASE Forget(p)
  <2>1. /\ GoTo(p, "out") /\ known' = [known EXCEPT ![p] = <<>>] /\ todo' = [todo EXCEPT ![p] = {}]
        /\ current' = [current EXCEPT ![p] = None] /\ recovering' = recovering \ {p} /\ UNCHANGED <<files, ghost>>
    BY <1>6 DEF Forget
  <2>2. <<>> \in Seq(Record) /\ Len(<<>>) = 0
    OBVIOUS
  <2>3. TypeOK'
    BY <1>0, <2>1, <2>2 DEF TypeOK, Surroundings, GoTo, files, ghost, Locations
  <2>4. /\ pc'[p] = "out" /\ Len(known'[p]) = 0
        /\ \A q \in Procs \ {p} : pc'[q] = pc[q] /\ known'[q] = known[q] /\ current'[q] = current[q]
    BY <1>0, <2>1, <2>2 DEF TypeOK, GoTo
  <2> QED
    BY <1>0, <2>1, <2>3, <2>4, QuietSteps DEF files, ghost, Writing, Committing
<1> QED
  BY <1>1, <1>2, <1>3, <1>4, <1>5, <1>6

LEMMA LooseBodies ==
  ASSUME LooseInv, NEW p \in Procs, Surroundings, NEW r \in Record, Reread(p, r) \/ Decide(p, r) \/ Start(p)
  PROVE  LooseInv'
<1>0. TypeOK
  BY DEF LooseInv
<1>1. CASE Reread(p, r)
  <2>1. CASE \E i \in DOMAIN known[p] : known[p][i] = r
    <3>1. /\ r \in domain /\ acked' = acked \cup {r} /\ GoTo(p, "leave")
          /\ UNCHANGED <<files, known, recovering, todo, current, corrupt>>
      BY <1>1, <2>1 DEF Reread
    <3>2. \E i \in 1..Len(audit) : audit[i] = r
      <4>1. known[p] \in Seq(Record) /\ audit \in Seq(Record)
        BY <1>0 DEF TypeOK
      <4>2. DOMAIN known[p] = 1..Len(known[p]) /\ Len(known[p]) \in Nat /\ Len(audit) \in Nat
        BY <4>1
      <4> QED
        BY <2>1, <4>2 DEF LooseInv
    <3>3. TypeOK' /\ pc'[p] = "leave" /\ \A q \in Procs \ {p} : pc'[q] = pc[q]
      BY <1>0, <3>1 DEF TypeOK, Surroundings, GoTo, files, Locations
    <3>4. Growth
      BY <3>1 DEF LooseInv, Growth, files
    <3>5. MovesOn(p)
      BY <3>1, <3>2, <3>3 DEF LooseInv, MovesOn, files, Writing, Committing
    <3> QED
      BY <3>1, <3>3, <3>4, <3>5, LooseSteps
  <2> QED
    BY <1>1, <2>1, LooseMoves DEF Reread, Corrupt, Locations, Writing, Committing
<1>2. CASE Decide(p, r)
  <2>1. current' = [current EXCEPT ![p] = r] /\ GoTo(p, "intent") /\ UNCHANGED <<files, known, recovering, todo, ghost>>
    BY <1>2 DEF Decide
  <2>2. TypeOK'
    BY <1>0, <2>1 DEF TypeOK, Surroundings, GoTo, files, ghost, Locations
  <2>3. /\ pc'[p] = "intent" /\ current'[p] = r
        /\ \A q \in Procs \ {p} : pc'[q] = pc[q] /\ current'[q] = current[q]
    BY <1>0, <2>1 DEF TypeOK, GoTo
  <2> QED
    BY <2>1, <2>2, <2>3, QuietSteps DEF LooseInv, files, ghost
<1>3. CASE Start(p)
  <2>0. current[p] \in Record
    BY <1>3 DEF Start, LooseInv, Writing
  <2>1. CASE Taken(intents, current[p])
    BY <1>3, <2>0, <2>1, LooseMoves DEF Start, Refuse, Locations, Writing, Committing
  <2>2. CASE ~Taken(intents, current[p])
    <3>1. /\ intents' = intents \cup {current[p]} /\ GoTo(p, "receipt?")
          /\ UNCHANGED <<domain, audit, head, receipts, known, recovering, todo, current, ghost>>
      BY <1>3, <2>2 DEF Start
    <3>2. TypeOK' /\ pc'[p] = "receipt?" /\ \A q \in Procs \ {p} : pc'[q] = pc[q]
      BY <1>0, <2>0, <3>1 DEF TypeOK, Surroundings, GoTo, ghost, Locations
    <3> QED
      BY <2>0, <3>1, <3>2, QuietSteps DEF LooseInv, ghost
  <2> QED
    BY <2>1, <2>2
<1> QED
  BY <1>1, <1>2, <1>3

LEMMA LooseCommits ==
  ASSUME LooseInv, NEW p \in Procs, Surroundings,
         CheckReceipt(p) \/ CreateDomain(p) \/ FindEvent(p) \/ AppendEvent(p)
  PROVE  LooseInv'
<1>0. /\ TypeOK /\ current[p] \in Record
      /\ known[p] \in Seq(Record) /\ DOMAIN known[p] = 1..Len(known[p]) /\ Len(known[p]) \in Nat
      /\ audit \in Seq(Record) /\ DOMAIN audit = 1..Len(audit) /\ Len(audit) \in Nat
      /\ Len(known[p]) <= Len(audit) /\ \A i \in 1..Len(known[p]) : known[p][i] = audit[i] /\ i \in 1..Len(audit)
  <2>1. TypeOK /\ current[p] \in Record
    BY DEF LooseInv, CheckReceipt, CreateDomain, FindEvent, AppendEvent, Writing, Committing
  <2>2. known[p] \in Seq(Record) /\ audit \in Seq(Record)
    BY <2>1 DEF TypeOK
  <2> QED
    BY <2>1, <2>2 DEF LooseInv
<1>1. CASE CheckReceipt(p)
  <2>1. CASE \A x \in receipts : x.path # current[p].path
    BY <1>0, <1>1, <2>1, LooseMoves DEF CheckReceipt, Locations, Writing, Committing
  <2>2. CASE Complete(p, current[p]) /\ ~(\A x \in receipts : x.path # current[p].path)
    <3>1. Proceed(p, "unlink")
      BY <1>1, <2>2 DEF CheckReceipt
    <3>2. current[p] \in domain /\ \E i \in 1..Len(audit) : audit[i] = current[p]
      BY <1>0, <2>2 DEF Complete
    <3> QED
      BY <1>0, <3>1, <3>2, LooseMoves DEF Locations
  <2>3. CASE ~Complete(p, current[p]) /\ ~(\A x \in receipts : x.path # current[p].path)
    BY <1>0, <1>1, <2>3, LooseMoves DEF CheckReceipt, Corrupt, Locations, Writing, Committing
  <2> QED
    BY <2>1, <2>2, <2>3
<1>2. CASE CreateDomain(p)
  <2>1. CASE Taken(domain, current[p])
    BY <1>2, <2>1, LooseMoves DEF CreateDomain, Refuse, Locations, Writing, Committing
  <2>2. CASE ~Taken(domain, current[p])
    <3>1. /\ domain' = domain \cup {current[p]} /\ GoTo(p, "audit")
          /\ UNCHANGED <<intents, audit, head, receipts, known, recovering, todo, current, ghost>>
      BY <1>2, <2>2 DEF CreateDomain
    <3>2. TypeOK' /\ pc'[p] = "audit" /\ \A q \in Procs \ {p} : pc'[q] = pc[q]
      BY <1>0, <3>1 DEF TypeOK, Surroundings, GoTo, ghost, Locations
    <3>3. Growth
      BY <2>2, <3>1 DEF LooseInv, Growth, Taken
    <3>4. MovesOn(p)
      BY <1>0, <3>1, <3>2 DEF MovesOn, ghost
    <3> QED
      BY <3>1, <3>2, <3>3, <3>4, LooseSteps
  <2> QED
    BY <2>1, <2>2
<1>3. CASE FindEvent(p)
  <2>1. PICK i \in 1..Len(known[p]) : IF known[p][i] = current[p] THEN Proceed(p, "head") ELSE Corrupt(p)
    BY <1>0, <1>3 DEF FindEvent, Audited
  <2>2. current[p] \in domain
    BY <1>3 DEF FindEvent, LooseInv
  <2>3. CASE known[p][i] = current[p]
    <3>1. Proceed(p, "head") /\ \E j \in 1..Len(audit) : audit[j] = current[p]
      BY <1>0, <2>1, <2>3
    <3> QED
      BY <1>0, <2>2, <3>1, LooseMoves DEF Locations
  <2>4. CASE known[p][i] # current[p]
    BY <2>1, <2>4, LooseMoves DEF Corrupt, Locations, Writing, Committing
  <2> QED
    BY <2>3, <2>4
<1>4. CASE AppendEvent(p)
  <2> DEFINE n == Len(known[p]) + 1
  <2>1. CASE n \in DOMAIN audit /\ audit[n] # current[p]
    BY <1>4, <2>1, LooseMoves DEF AppendEvent, Refuse, Locations, Writing, Committing
  <2>2. CASE ~(n \in DOMAIN audit /\ audit[n] # current[p])
    <3>1. PICK t \in Record : t = current[p]
      BY <1>0
    <3>2. /\ audit' = IF n \in DOMAIN audit THEN audit ELSE Append(audit, t)
          /\ known' = [known EXCEPT ![p] = Append(@, t)] /\ GoTo(p, "head")
          /\ UNCHANGED <<intents, domain, head, receipts, recovering, todo, current, ghost>>
      BY <1>4, <2>2, <3>1 DEF AppendEvent
    <3>3. PICK k \in Seq(Record) : k = Append(known[p], t)
      <4>1. Append(known[p], t) \in Seq(Record)
        BY <1>0
      <4> QED
        BY <4>1
    <3>4. Len(k) = n /\ k[n] = t /\ \A i \in 1..Len(known[p]) : k[i] = known[p][i]
      BY <1>0, <3>3
    <3>5. /\ known' = [known EXCEPT ![p] = k] /\ known'[p] = k /\ pc'[p] = "head"
          /\ \A q \in Procs \ {p} : pc'[q] = pc[q] /\ known'[q] = known[q]
      BY <1>0, <3>2, <3>3 DEF TypeOK, GoTo
    <3>6. /\ audit' \in Seq(Record) /\ (audit' = audit \/ audit' = Append(audit, t))
          /\ n <= Len(audit') /\ audit'[n] = t /\ \A i \in 1..Len(known[p]) : audit'[i] = audit[i]
      <4>1. CASE n \in DOMAIN audit
        <5>1. audit' = audit /\ audit[n] = t /\ n <= Len(audit)
          BY <1>0, <2>2, <3>1, <3>2, <4>1
        <5> QED
          BY <1>0, <5>1
      <4>2. CASE n \notin DOMAIN audit
        <5>0. n \in Nat /\ n >= 1 /\ n <= Len(audit) + 1 /\ n \notin 1..Len(audit)
          BY <1>0, <4>2
        <5>1. n = Len(audit) + 1
          BY <1>0, <5>0
        <5>2. audit' = Append(audit, t)
          BY <3>2, <4>2
        <5> QED
          BY <1>0, <5>1, <5>2
      <4> QED
        BY <4>1, <4>2
    <3>7. TypeOK'
      BY <1>0, <3>2, <3>5, <3>6 DEF TypeOK, Surroundings, GoTo, ghost, Locations
    <3>8. Growth
      BY <3>2, <3>6 DEF LooseInv, Growth
    <3>9. MovesOn(p)
      <4>1. \A i \in 1..n : k[i] = audit'[i]
        <5>1. \A i \in 1..n : i = n \/ i \in 1..Len(known[p])
          BY <1>0
        <5> QED
          BY <1>0, <3>4, <3>6, <5>1
      <4>2. n \in 1..Len(audit') /\ audit'[n] = current'[p]
        <5>1. Len(audit') \in Nat
          BY <3>6
        <5>2. n \in 1..Len(audit')
          BY <1>0, <3>6, <5>1
        <5>3. audit'[n] = t /\ current' = current
          BY <3>2, <3>6
        <5> QED
          BY <3>1, <5>2, <5>3
      <4>3. current'[p] \in Record /\ current'[p] \in domain' /\ acked' = acked
        BY <1>0, <1>4, <3>2 DEF AppendEvent, LooseInv, ghost
      <4> QED
        BY <3>4, <3>5, <3>6, <4>1, <4>2, <4>3 DEF MovesOn
    <3> QED
      BY <3>2, <3>5, <3>7, <3>8, <3>9, LooseSteps
  <2> QED
    BY <2>1, <2>2
<1> QED
  BY <1>1, <1>2, <1>3, <1>4

LEMMA LooseEnds ==
  ASSUME LooseInv, NEW p \in Procs, Surroundings, WriteHead(p) \/ CreateReceipt(p) \/ RemoveIntent(p)
  PROVE  LooseInv'
<1>0. /\ TypeOK /\ current[p] \in Record /\ current[p] \in domain /\ \E i \in 1..Len(audit) : audit[i] = current[p]
      /\ known[p] \in Seq(Record)
  BY DEF LooseInv, WriteHead, CreateReceipt, RemoveIntent, Writing, Committing, TypeOK
<1>1. CASE WriteHead(p)
  <2>1. /\ head' = Len(known[p]) /\ GoTo(p, "receipt")
        /\ UNCHANGED <<intents, domain, audit, receipts, known, recovering, todo, current, ghost>>
    BY <1>1 DEF WriteHead
  <2>2. head' \in Nat
    BY <1>0, <2>1
  <2>3. TypeOK' /\ pc'[p] = "receipt" /\ \A q \in Procs \ {p} : pc'[q] = pc[q]
    BY <1>0, <2>1, <2>2 DEF TypeOK, Surroundings, GoTo, ghost, Locations
  <2> QED
    BY <1>0, <2>1, <2>3, QuietSteps DEF LooseInv, ghost
<1>2. CASE CreateReceipt(p)
  <2>1. PICK i \in Audited(p, current[p]) :
          LET r == [path |-> current[p].path, value |-> current[p].value, sequence |-> i]
          IN  IF Taken(receipts, r)
              THEN Refuse(p)
              ELSE /\ receipts' = receipts \cup {r}
                   /\ GoTo(p, "unlink")
                   /\ UNCHANGED <<intents, domain, audit, head, known, recovering, todo, current, ghost>>
    BY <1>2 DEF CreateReceipt
  <2>2. Sealed(current[p], i) \in Receipt
    <3>1. DOMAIN known[p] = 1..Len(known[p]) /\ i \in DOMAIN known[p]
      BY <1>0, <2>1 DEF Audited
    <3>2. i \in Nat
      BY <3>1
    <3> QED
      BY <1>0, <3>2, Records
  <2>3. CASE Taken(receipts, Sealed(current[p], i))
    BY <2>1, <2>3, LooseMoves DEF Refuse, Sealed, Locations, Writing, Committing
  <2>4. CASE ~Taken(receipts, Sealed(current[p], i))
    <3>1. /\ receipts' = receipts \cup {Sealed(current[p], i)} /\ GoTo(p, "unlink")
          /\ UNCHANGED <<intents, domain, audit, head, known, recovering, todo, current, ghost>>
      BY <2>1, <2>4 DEF Sealed
    <3>2. TypeOK' /\ pc'[p] = "unlink" /\ \A q \in Procs \ {p} : pc'[q] = pc[q]
      BY <1>0, <2>2, <3>1 DEF TypeOK, Surroundings, GoTo, ghost, Locations
    <3> QED
      BY <1>0, <3>1, <3>2, QuietSteps DEF LooseInv, ghost
  <2> QED
    BY <2>3, <2>4
<1>3. CASE RemoveIntent(p)
  <2>1. /\ intents' \subseteq intents
        /\ UNCHANGED <<domain, audit, head, receipts, known, recovering, todo, current, corrupt>>
        /\ acked' = acked \/ acked' = acked \cup {current[p]}
        /\ \E place \in {"recover", "leave"} : GoTo(p, place)
    BY <1>3 DEF RemoveIntent
  <2>2. PICK place \in {"recover", "leave"} : GoTo(p, place)
    BY <2>1
  <2>3. TypeOK' /\ pc'[p] = place /\ \A q \in Procs \ {p} : pc'[q] = pc[q]
    BY <1>0, <2>1, <2>2 DEF TypeOK, Surroundings, GoTo, Locations
  <2>4. Growth
    BY <2>1 DEF LooseInv, Growth
  <2>5. MovesOn(p)
    BY <1>0, <2>1, <2>3 DEF LooseInv, MovesOn, Writing, Committing
  <2> QED
    BY <2>1, <2>3, <2>4, <2>5, LooseSteps
<1> QED
  BY <1>1, <1>2, <1>3

LEMMA OnLockKeepsLoose == LooseInv /\ [NextOnLock]_allVars => LooseInv'
<1> SUFFICES ASSUME LooseInv, [NextOnLock]_allVars PROVE LooseInv'
  OBVIOUS
<1>1. UNCHANGED store /\ Surroundings => LooseInv'
  BY DEF store, files, local, ghost, LooseInv, TypeOK, Surroundings
<1>2. TypeOK
  BY DEF LooseInv
<1>3. ASSUME NextOnLock PROVE Surroundings
  <2>1. holders' \subseteq Procs
    BY <1>3 DEF NextOnLock, L!Holding
  <2>2. dead' = dead \/ \E p \in Procs : dead' = dead \cup {p}
    BY <1>3 DEF NextOnLock, StepOnLock, AcquireLock, Operate, ReleaseLock, Crash, L!Age, L!Want, L!GiveUp, L!Acquiring,
       L!MakeDirectory, L!WriteOwner, L!Stat, L!Judge, L!Break, L!RemoveOwner, L!RemoveDirectory, L!Look, L!Move
  <2>3. faults' = faults \/ (faults < MaxFaults /\ faults' = faults + 1)
    BY <1>3 DEF NextOnLock, StepOnLock, AcquireLock, Operate, ReleaseLock, Crash, Throw
  <2>4. faults' \in 0..MaxFaults
    BY <1>2, <2>3, StoreAssumption DEF TypeOK
  <2> QED
    BY <1>2, <2>1, <2>2, <2>4 DEF TypeOK, Surroundings
<1>4. CASE UNCHANGED allVars
  BY <1>1, <1>2, <1>4 DEF allVars, vars, Surroundings, TypeOK
<1>5. ASSUME NextOnLock, NEW p \in Procs \ dead, Operate(p) PROVE LooseInv'
  <2>1. CASE StoreStep(p)
    <3>1. p \in Procs /\ Surroundings
      BY <1>3, <1>5
    <3>2. CASE (\E recover \in BOOLEAN : Enter(p, recover)) \/ Scan(p) \/ RecoverNext(p) \/ Recovered(p) \/ Verify(p) \/ Probe(p)
      BY <3>1, <3>2, LooseRecovery
    <3>3. CASE (\E r \in Record : Reread(p, r) \/ Decide(p, r)) \/ Start(p)
      <4>1. CASE \E r \in Record : Reread(p, r) \/ Decide(p, r)
        BY <3>1, <4>1, LooseBodies
      <4>2. CASE Start(p)
        <5>1. current[p] \in Record
          BY <3>1, <4>2 DEF Start, LooseInv, Writing
        <5> QED
          BY <3>1, <4>2, <5>1, LooseBodies
      <4> QED
        BY <3>3, <4>1, <4>2
    <3>4. CASE CheckReceipt(p) \/ CreateDomain(p) \/ FindEvent(p) \/ AppendEvent(p)
      BY <3>1, <3>4, LooseCommits
    <3>5. CASE WriteHead(p) \/ CreateReceipt(p) \/ RemoveIntent(p)
      BY <3>1, <3>5, LooseEnds
    <3> QED
      BY <2>1, <3>2, <3>3, <3>4, <3>5 DEF StoreStep
  <2>2. CASE Throw(p)
    BY <1>3, <1>5, <2>2, LooseMoves DEF Throw, Locations, Writing, Committing
  <2> QED
    BY <1>5, <2>1, <2>2 DEF Operate
<1>6. ASSUME NextOnLock, NEW p \in Procs \ dead, AcquireLock(p) \/ ReleaseLock(p) \/ Crash(p) PROVE LooseInv'
  <2>1. UNCHANGED store \/ Forget(p)
    BY <1>6 DEF AcquireLock, ReleaseLock, Crash
  <2> QED
    BY <1>1, <1>3, <1>6, <2>1, LooseRecovery
<1> QED
  BY <1>1, <1>3, <1>4, <1>5, <1>6 DEF NextOnLock, StepOnLock

LEMMA LooseInitially == InitOnLock => LooseInv
<1> SUFFICES ASSUME InitOnLock PROVE LooseInv
  OBVIOUS
<1>1. TypeOK
  BY Initially DEF InitOnLock, Inv
<1>2. Len(<<>>) = 0
  OBVIOUS
<1> QED
  BY <1>1, <1>2 DEF InitOnLock, Init, LooseInv, Writing, Committing

\* Even with two operations of one tenant in its store: two records of one path
\* never have different contents (atomicCreateJSON links).
THEOREM RecordsAreOne == SpecOnLock => []OneContentPerPath
<1>1. LooseInv => OneContentPerPath
  BY DEF LooseInv, OneContentPerPath
<1> QED
  BY <1>1, LooseInitially, OnLockKeepsLoose, PTL DEF SpecOnLock

\* ... what a caller was told is stored stays stored and audited, ...
THEOREM AcknowledgedSurvives == SpecOnLock => []AckedSurvives
<1>1. LooseInv => AckedSurvives
  BY DEF LooseInv, TypeOK, AckedSurvives, ToSet
<1> QED
  BY <1>1, LooseInitially, OnLockKeepsLoose, PTL DEF SpecOnLock

\* ... and the audit log only grows: an event is never moved or replaced
\* (appendAuditLocked).
THEOREM AuditStays == SpecOnLock => AuditOnlyGrows
<1>1. ASSUME LooseInv, NextOnLock PROVE audit' = audit \/ \E r \in Record : audit' = Append(audit, r)
  <2>1. audit' = audit \/ \E p \in Procs : AppendEvent(p)
    BY <1>1 DEF NextOnLock, StepOnLock, AcquireLock, Operate, ReleaseLock, StoreStep, Enter, Scan, RecoverNext, Recovered,
       Verify, Probe, Reread, Decide, Start, CheckReceipt, CreateDomain, FindEvent, WriteHead, CreateReceipt, RemoveIntent,
       Throw, Crash, Forget, Proceed, Refuse, Corrupt, store, files
  <2>2. ASSUME NEW p \in Procs, AppendEvent(p) PROVE audit' = audit \/ \E r \in Record : audit' = Append(audit, r)
    <3>1. current[p] \in Record
      BY <1>1, <2>2 DEF AppendEvent, LooseInv, Writing, Committing
    <3> QED
      BY <2>2, <3>1 DEF AppendEvent, Refuse, Proceed, files
  <2> QED
    BY <2>1, <2>2
<1>2. ASSUME NEW s \in Seq(Record), NEW t, t = s \/ \E r \in Record : t = Append(s, r) PROVE IsPrefix(s, t)
  <2>1. /\ t \in Seq(Record) /\ Len(s) \in Nat /\ Len(t) \in Nat /\ Len(s) <= Len(t)
        /\ \A i \in 1..Len(s) : t[i] = s[i]
    BY <1>2
  <2>2. SubSeq(s, 1, Len(s)) = SubSeq(t, 1, Len(s))
    BY <2>1
  <2> QED
    BY <2>1, <2>2 DEF IsPrefix
<1>3. LooseInv /\ [NextOnLock]_allVars => [IsPrefix(audit, audit')]_audit
  BY <1>1, <1>2 DEF allVars, vars, store, files, LooseInv, TypeOK
<1> QED
  BY <1>3, LooseInitially, OnLockKeepsLoose, PTL DEF SpecOnLock, AuditOnlyGrows
=============================================================================
