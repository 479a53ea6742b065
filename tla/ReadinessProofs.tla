--------------------------- MODULE ReadinessProofs ---------------------------
(***************************************************************************)
(* For any processes, packages, contracts and lifetimes: what a profile's  *)
(* revision counts, what smoke evidence that passed says, and what the     *)
(* catalog may call usable.                                                *)
(***************************************************************************)
EXTENDS Readiness, AdmissionCases, FiniteSetTheorems, WellFoundedInduction, TLAPS

-----------------------------------------------------------------------------
(* Types                                                                    *)

Sources == {"remote", "local"}
Installs == [package : Packages, source : Sources]
Selections == [version : Versions, account : Accounts]

Optional(S) == S \cup {None}
Verdicts == {"passed", "failed"}
Classes == {"authenticated", "no-authentication"}

Records == [version : Versions, started : Nat, observed : Nat, result : Verdicts,
            package : Optional(Packages), source : Optional(Sources), exe : Nat,
            class : Optional(Classes), key : Optional(Nat \X Nat),
            account : Optional(Accounts), target : Optional(Accounts \X BOOLEAN), expires : Nat,
            ran : Optional(Packages), save : Nat, credential : Optional(Credentials)]

Configuring == {"bootstrap", "lock", "save"}
Reported == {"judge", "run", "close", "usable"}
Checking == {"verify", "load", "observe", "publish"} \cup Reported

Operations == {"none", "configure", "smoke", "catalog"}
Places == {"idle"} \cup Configuring \cup Checking

Run == [op : Operations, pc : Places, round : 1..2, version : Optional(Versions), now : Nat,
        environment : Optional(Credentials), receipt : Optional(Installs), exe : Nat,
        credential : Optional(Credentials), profile : Optional(Profiles \cup Selections),
        previous : Optional(Profiles), report : Optional(Reports),
        ran : Optional(Packages), outcome : Optional(Records)]

Typing == TypeOK /\ evidence \subseteq Records /\ proc \in [Procs -> Run]

-----------------------------------------------------------------------------
(* The invariant                                                            *)

\* A profile remembers which save it is; its revision is the same number as
\* long as the binding keeps its name.
Numbered(f) == OneContract => f.revision = f.save

ProfileInv ==
  /\ profile = None => saves = 0
  /\ profile # None => profile.save = saves /\ Numbered(profile)

\* A generation names one credential, wherever it is still known.
Known ==
  {vault} \cup {e.credential : e \in evidence}
          \cup {proc[p].environment : p \in Procs} \cup {proc[p].credential : p \in Procs}

GenerationsAreUnique ==
  \A c \in Known \ {None} :
    /\ vault # None /\ c.generation <= vault.generation
    /\ \A d \in Known \ {None} : c.generation = d.generation => c = d

\* What a record says of its run.
RecordInv(e) ==
  /\ e.started <= e.observed
  /\ e.credential = None => e.key = None /\ e.save = 0
  /\ e.credential # None => /\ e.key # None /\ e.key[2] = e.credential.generation
                            /\ OneContract => e.key[1] = e.save
  /\ e.result = "passed" => /\ e.observed < e.expires
                            /\ e.credential # None => e.expires <= e.credential.until

\* A report that gives time is of a credential that had not been revoked.
Vouched(r) ==
  /\ r.report.selected /\ r.report.until <= r.credential.until
  /\ 0 < r.report.until =>
       \A v \in revoked : v.generation = r.credential.generation => r.now <= v.at

\* The record an answer rests on.
Rests(r) ==
  LET e == r.outcome
  IN /\ e \in evidence /\ e.credential = r.credential
     /\ OneContract /\ r.credential # None => e.save = r.profile.save
     /\ r.now < e.expires
     /\ r.report.selected => e.expires <= r.report.until

\* What a run has established, by where it is.
RunInv(r) ==
  /\ r.now <= clock
  /\ r.pc # "idle" => r.version \in Versions
  /\ r.pc \in Configuring => r.op = "configure"
  /\ r.pc \in Checking => r.op \in {"smoke", "catalog"}
  /\ r.pc \in {"lock", "save"} => r.profile \in Selections
  /\ r.op \in {"smoke", "catalog"} =>
       /\ r.credential = None => r.profile = None
       /\ r.credential # None => r.profile \in Profiles /\ Numbered(r.profile)
  /\ r.pc = "observe" => r.credential # None
  /\ r.pc \in Reported => r.report \in Reports /\ (r.credential # None => Vouched(r))
  /\ r.pc = "publish" => /\ r.outcome \in Records /\ RecordInv(r.outcome)
                         /\ r.outcome.credential = r.credential
  /\ r.pc = "usable" => Rests(r)

ReadinessInv ==
  /\ Typing /\ LockDiscipline /\ ProfileInv /\ GenerationsAreUnique
  /\ \A e \in evidence : RecordInv(e)
  /\ \A p \in Procs : RunInv(proc[p])

-----------------------------------------------------------------------------
(* The decisions                                                            *)

\* A set of naturals has a least element.
LEMMA LeastNatural ==
  ASSUME NEW S, S \subseteq Nat, S # {}
  PROVE  \E n \in S : \A m \in S : n <= m
<1>1. PICK n \in S : \A m \in S : ~(<<m, n>> \in OpToRel(<, Nat))
  BY WFMin, NatLessThanWellFounded
<1>2. \A m \in S : ~(m < n)
  BY <1>1 DEF OpToRel
<1> QED
  BY <1>2

\* Whatever is said before a credential is read, it is a report or nothing.
LEMMA SaidBefore ==
  ASSUME NEW version
  PROVE  LET said == BeforeCredentials(AuthStatus, profile, version, ContractOf)
         IN /\ said # None => said \in Reports
            /\ said = None => profile # None
<1> DEFINE said == BeforeCredentials(AuthStatus, profile, version, ContractOf)
<1>0. \A state \in States, selected \in BOOLEAN :
        Unanswered(state, selected) \in Reports
  BY DEF Unanswered, Report, Reports
<1>1. /\ Unanswered("not-required", FALSE) \in Reports
      /\ Unanswered("missing", FALSE) \in Reports
      /\ Unanswered("optional-not-configured", FALSE) \in Reports
      /\ Unanswered("error", TRUE) \in Reports /\ Unanswered("stale", TRUE) \in Reports
  BY <1>0 DEF States, SetupStates
<1>2. None \notin Reports
  BY RecordAssumption
<1> HIDE DEF Reports
<1>3. CASE AuthStatus = "none"
  BY <1>1, <1>2, <1>3 DEF BeforeCredentials
<1>4. CASE AuthStatus # "none" /\ profile = None
  <2>1. said \in {Unanswered("missing", FALSE), Unanswered("optional-not-configured", FALSE)}
    BY <1>4 DEF BeforeCredentials
  <2> QED
    BY <1>1, <1>2, <2>1
<1>5. CASE AuthStatus # "none" /\ profile # None
  <2>1. said \in {Unanswered("error", TRUE), Unanswered("stale", TRUE), None}
    BY <1>5 DEF BeforeCredentials
  <2> QED
    BY <1>1, <1>2, <1>5, <2>1
<1> QED
  BY <1>3, <1>4, <1>5, ReadinessAssumption

\* Of a table with an entry that holds, FirstOf takes one that holds.
LEMMA FirstOfSix ==
  ASSUME NEW a, NEW b, NEW c, NEW d, NEW e, NEW f
  PROVE  LET bad == FirstOf(<< <<a, "revoked">>, <<b, "expired">>, <<c, "expired">>,
                               <<d, "wrong-account">>, <<e, "wrong-scope">>,
                               <<f, "invalid">> >>, None)
         IN /\ bad # None => bad \in States
            /\ bad = None <=> ~(a \/ b \/ c \/ d \/ e \/ f)
<1> DEFINE table == << <<a, "revoked">>, <<b, "expired">>, <<c, "expired">>,
                       <<d, "wrong-account">>, <<e, "wrong-scope">>, <<f, "invalid">> >>
           hits == {i \in DOMAIN table : table[i][1]}
           first == CHOOSE i \in hits : \A j \in hits : i <= j
<1>1. DOMAIN table = 1..6
  OBVIOUS
<1>2. /\ 1 \in hits <=> a
      /\ 2 \in hits <=> b
      /\ 3 \in hits <=> c
      /\ 4 \in hits <=> d
      /\ 5 \in hits <=> e
      /\ 6 \in hits <=> f
  <2>1. /\ table[1][1] = a /\ table[2][1] = b /\ table[3][1] = c
        /\ table[4][1] = d /\ table[5][1] = e /\ table[6][1] = f
    OBVIOUS
  <2> HIDE DEF table
  <2> QED
    BY <1>1, <2>1
<1>3. hits \subseteq 1..6
  BY <1>1
<1>4. \A i \in 1..6 : table[i][2] \in States
  <2>1. /\ table[1][2] \in States /\ table[2][2] \in States /\ table[3][2] \in States
        /\ table[4][2] \in States /\ table[5][2] \in States /\ table[6][2] \in States
    BY DEF States, SetupStates
  <2> HIDE DEF table
  <2> QED
    BY <2>1
<1>5. FirstOf(table, None) = IF hits = {} THEN None ELSE table[first][2]
  BY DEF FirstOf
<1> HIDE DEF hits, table
<1>6. hits = {} <=> ~(a \/ b \/ c \/ d \/ e \/ f)
  <2>0. \A i \in 1..6 : i = 1 \/ i = 2 \/ i = 3 \/ i = 4 \/ i = 5 \/ i = 6
    OBVIOUS
  <2>1. hits # {} => 1 \in hits \/ 2 \in hits \/ 3 \in hits \/ 4 \in hits \/ 5 \in hits \/ 6 \in hits
    BY <1>3, <2>0
  <2> QED
    BY <1>2, <2>1
<1>7. ASSUME hits # {} PROVE \E i \in hits : \A j \in hits : i <= j
  <2>1. hits \subseteq Nat
    BY <1>3
  <2> QED
    BY <1>7, <2>1, LeastNatural
<1>8. hits # {} => first \in 1..6
  BY <1>3, <1>7
<1> HIDE DEF first
<1>9. hits # {} => FirstOf(table, None) \in States
  BY <1>4, <1>5, <1>8
<1> QED
  BY <1>5, <1>6, <1>9, RecordAssumption DEF table

\* A credential that is judged is reported with the time it has; only one that
\* is not revoked has any.
LEMMA JudgedReports ==
  ASSUME NEW f \in Profiles, NEW c \in Credentials, NEW isRevoked \in BOOLEAN,
         NEW attested \in Nat, NEW now \in Nat
  PROVE  LET r == Judged(f, c, isRevoked, attested, now)
         IN /\ r \in Reports /\ r.selected /\ r.until <= c.until
            /\ 0 < r.until => ~isRevoked
<1> DEFINE bad == FirstOf(<< <<isRevoked, "revoked">>, <<c.until <= now, "expired">>,
                             <<attested <= now, "expired">>,
                             <<c.account # f.account, "wrong-account">>,
                             <<c.account \notin Wide, "wrong-scope">>,
                             <<c.account \in Anonymous, "invalid">> >>, None)
           r == Judged(f, c, isRevoked, attested, now)
<1>1. /\ bad # None => bad \in States
      /\ bad = None => ~isRevoked
  BY FirstOfSix
<1>2. r = IF bad # None THEN Report(bad, TRUE, c.account, None, 0)
          ELSE Report("ready", TRUE, c.account, ProviderTarget(c), Earlier(c.until, attested))
  BY DEF Judged
<1> HIDE DEF bad, r
<1>3. c.account \in Accounts /\ c.until \in Nat
  BY DEF Credentials
<1>4. ASSUME bad # None
      PROVE  r \in Reports /\ r.selected /\ r.until = 0
  BY <1>1, <1>2, <1>3, <1>4 DEF Report, Reports
<1>5. ASSUME bad = None
      PROVE  r \in Reports /\ r.selected /\ r.until <= c.until /\ ~isRevoked
  <2>1. Earlier(c.until, attested) \in Nat /\ Earlier(c.until, attested) <= c.until
    BY <1>3 DEF Earlier
  <2> DEFINE wide == c.account \in Wide
  <2>2. wide \in BOOLEAN
    OBVIOUS
  <2> HIDE DEF wide
  <2>3. <<c.account, wide>> \in Accounts \X BOOLEAN
    BY <1>3, <2>2
  <2>4. ProviderTarget(c) \in Accounts \X BOOLEAN
    BY <2>3 DEF ProviderTarget, wide
  <2>5. r \in Reports /\ r.selected /\ r.until = Earlier(c.until, attested)
    BY <1>2, <1>3, <1>5, <2>1, <2>4 DEF Report, Reports, States
  <2> QED
    BY <1>1, <1>5, <2>1, <2>5
<1>6. r \in Reports /\ r.selected /\ r.until <= c.until /\ (0 < r.until => ~isRevoked)
  BY <1>3, <1>4, <1>5
<1> QED
  BY <1>6 DEF r
-----------------------------------------------------------------------------
(* What a step leaves as it was                                             *)

\* Time passes, what is revoked is revoked now, and evidence stays.
Growing ==
  /\ clock \in Nat /\ clock' \in Nat /\ clock <= clock'
  /\ \A v \in revoked' : v \in revoked \/ v.at = clock
  /\ evidence \subseteq evidence'

LEMMA RunStays ==
  ASSUME Growing, NEW r \in Run, RunInv(r)
  PROVE  RunInv(r)'
<1>1. r.now \in Nat /\ clock \in Nat /\ clock' \in Nat
  BY DEF Run, Growing
<1>2. r.now <= clock'
  BY <1>1 DEF Growing, RunInv
<1>3. Vouched(r) => Vouched(r)'
  BY <1>1 DEF Growing, Vouched, RunInv
<1>4. Rests(r) => Rests(r)'
  BY DEF Growing, Rests, OneContract, Numbered
<1>5. RecordInv(r.outcome) => RecordInv(r.outcome)'
  BY DEF RecordInv, OneContract
<1>6. Numbered(r.profile) => Numbered(r.profile)'
  BY DEF Numbered, OneContract
<1> QED
  BY <1>2, <1>3, <1>4, <1>5, <1>6 DEF RunInv

LEMMA KnownStays ==
  ASSUME GenerationsAreUnique, UNCHANGED vault, Known' \subseteq Known \cup {None}
  PROVE  GenerationsAreUnique'
BY DEF GenerationsAreUnique

\* A new credential has a generation that no other has.
LEMMA KnownGrows ==
  ASSUME Typing, GenerationsAreUnique, NEW account \in Accounts,
         vault' = IssuedTo(account), Known' \subseteq Known \cup {vault', None}
  PROVE  GenerationsAreUnique' /\ vault' \in Credentials
<1>1. \A c \in Known \ {None} : c \in Credentials
  BY DEF Known, Typing, TypeOK, Run, Records, Optional
<1>2. NextGeneration \in Nat /\ \A c \in Known \ {None} : c.generation < NextGeneration
  <2>1. \A c \in Known \ {None} : c.generation \in Nat
    BY <1>1 DEF Credentials
  <2>2. vault # None => vault.generation \in Nat
    BY DEF Typing, TypeOK, Credentials
  <2> QED
    BY <2>1, <2>2 DEF NextGeneration, GenerationsAreUnique
<1>3. vault' \in Credentials /\ vault'.generation = NextGeneration
  BY <1>2, ReadinessAssumption DEF IssuedTo, Credentials, Typing, TypeOK
<1>4. vault' # None
  BY <1>3, RecordAssumption
<1>5. \A c \in Known' \ {None} : c = vault' \/ c \in Known \ {None}
  OBVIOUS
<1>6. \A c \in Known \ {None} : c.generation \in Nat
  BY <1>1 DEF Credentials
<1>7. \A c \in Known' \ {None} : c.generation <= vault'.generation
  BY <1>2, <1>3, <1>5, <1>6
<1>8. \A c, d \in Known' \ {None} : c.generation = d.generation => c = d
  BY <1>2, <1>3, <1>5, <1>6 DEF GenerationsAreUnique
<1> QED
  BY <1>3, <1>4, <1>7, <1>8 DEF GenerationsAreUnique

\* A step of one run that changes nothing that was there before but, at most,
\* the lock and the credential.
LEMMA RunMoves ==
  ASSUME ReadinessInv, NEW p \in Procs, runs' \in Nat, events' \in Nat,
         UNCHANGED <<clock, installed, exe, revoked, profile, saves, evidence>>,
         vault' \in Credentials \cup {None}, GenerationsAreUnique',
         NEW r \in Run, proc' = [proc EXCEPT ![p] = r], RunInv(r),
         lock' \in Procs \cup {None},
         \A q \in Procs \ {p} : lock' = q <=> lock = q,
         r.pc = "save" <=> lock' = p,
         r.pc = "save" => r.previous = profile
  PROVE  ReadinessInv'
<1>1. Growing
  BY DEF Growing, ReadinessInv, Typing, TypeOK
<1>2. Typing'
  BY DEF ReadinessInv, Typing, TypeOK
<1>3. proc' \in [Procs -> Run] /\ \A q \in Procs : proc'[q] = IF q = p THEN r ELSE proc[q]
  BY DEF ReadinessInv, Typing
<1>4. LockDiscipline'
  BY <1>3 DEF ReadinessInv, LockDiscipline
<1>5. ProfileInv'
  BY DEF ReadinessInv, ProfileInv, Numbered, OneContract
<1>6. \A e \in evidence' : RecordInv(e)'
  BY DEF ReadinessInv, RecordInv, OneContract
<1>7. ASSUME NEW q \in Procs PROVE RunInv(proc[q])'
  <2>1. PICK x \in Run : x = proc'[q] /\ RunInv(x)
    BY <1>3 DEF ReadinessInv, Typing
  <2>2. RunInv(x)'
    BY <1>1, <2>1, RunStays
  <2> QED
    BY <2>1, <2>2 DEF RunInv
<1> QED
  BY <1>2, <1>4, <1>5, <1>6, <1>7 DEF ReadinessInv

\* The credential stays too, and the run learns of none but those it could.
LEMMA RunSteps ==
  ASSUME ReadinessInv, NEW p \in Procs, runs' \in Nat, events' \in Nat,
         UNCHANGED <<clock, installed, exe, vault, revoked, profile, saves, evidence>>,
         NEW r \in Run, proc' = [proc EXCEPT ![p] = r], RunInv(r),
         r.environment \in {proc[p].environment, vault, None},
         r.credential \in {proc[p].credential, proc[p].environment, vault, None},
         lock' \in Procs \cup {None},
         \A q \in Procs \ {p} : lock' = q <=> lock = q,
         r.pc = "save" <=> lock' = p,
         r.pc = "save" => r.previous = profile
  PROVE  ReadinessInv'
<1>1. \A q \in Procs : proc'[q] = IF q = p THEN r ELSE proc[q]
  BY DEF ReadinessInv, Typing
<1>2. Known' \subseteq Known \cup {None}
  BY <1>1 DEF Known
<1>3. GenerationsAreUnique'
  BY <1>2, KnownStays DEF ReadinessInv
<1> QED
  BY <1>3, RunMoves DEF ReadinessInv, Typing, TypeOK

\* The step of a run that neither has the lock nor takes it.
LEMMA PlainSteps ==
  ASSUME ReadinessInv, NEW p \in Procs, UNCHANGED <<host, auth, evidence, runs>>,
         NEW r \in Run, proc' = [proc EXCEPT ![p] = r], RunInv(r),
         r.environment = proc[p].environment,
         r.credential \in {proc[p].credential, proc[p].environment, vault, None},
         proc[p].pc # "save", r.pc # "save"
  PROVE  ReadinessInv'
<1>1. runs' \in Nat /\ events' \in Nat /\ lock' \in Procs \cup {None} /\ lock' # p
  BY DEF ReadinessInv, LockDiscipline, Typing, TypeOK, host, auth
<1> QED
  BY <1>1, RunSteps DEF host, auth

LEMMA IdleRuns ==
  ASSUME clock \in Nat
  PROVE  /\ Idle \in Run /\ RunInv(Idle)
         /\ Idle.pc = "idle" /\ Idle.environment = None /\ Idle.credential = None
<1>1. Idle \in Run /\ Idle.pc = "idle" /\ Idle.environment = None /\ Idle.credential = None
      /\ Idle.op = "none" /\ Idle.now = 0
  BY DEF Idle, Run, Optional, Operations, Places
<1> HIDE DEF Idle
<1> QED
  BY <1>1 DEF RunInv, Configuring, Checking, Reported
-----------------------------------------------------------------------------
(* The machine, and the beginning and the end of a run                      *)

LEMMA Initially == Init => ReadinessInv
<1> SUFFICES ASSUME Init PROVE ReadinessInv
  OBVIOUS
<1>1. Idle \in Run /\ RunInv(Idle) /\ Idle.pc = "idle" /\ Idle.environment = None
      /\ Idle.credential = None
  BY IdleRuns DEF Init
<1> HIDE DEF Idle
<1>2. Typing
  <2>1. proc \in [Procs -> Run] /\ DOMAIN proc = Procs
    BY <1>1 DEF Init
  <2>2. installed \in [package : Packages, source : {"remote", "local"}, intact : BOOLEAN]
    <3>1. \A b \in BOOLEAN, x \in Packages :
            [package |-> x, source |-> "remote", intact |-> b]
              \in [package : Packages, source : {"remote", "local"}, intact : BOOLEAN]
      OBVIOUS
    <3> QED
      BY <3>1, ReadinessAssumption DEF Init
  <2> QED
    BY <2>1, <2>2 DEF Init, Typing, TypeOK
<1>3. LockDiscipline
  BY <1>1, RecordAssumption DEF Init, LockDiscipline
<1>4. GenerationsAreUnique
  BY <1>1 DEF Init, GenerationsAreUnique, Known
<1> QED
  BY <1>1, <1>2, <1>3, <1>4 DEF Init, ReadinessInv, ProfileInv

LEMMA EnvironmentSteps == ReadinessInv /\ Environment => ReadinessInv'
<1> SUFFICES ASSUME ReadinessInv, Environment PROVE ReadinessInv'
  OBVIOUS
<1>1. UNCHANGED <<auth, evidence, proc, runs>>
  BY DEF Environment, Install, Alter, ReplaceExecutable, Revoke, Tick, Rotate
<1>2. \/ UNCHANGED vault /\ vault' \in Credentials \cup {None}
      \/ \E account \in Accounts : vault' = IssuedTo(account)
  BY DEF Environment, Install, Alter, ReplaceExecutable, Revoke, Tick, Rotate,
         ReadinessInv, Typing, TypeOK
<1>3. GenerationsAreUnique' /\ vault' \in Credentials \cup {None}
  <2>1. Known' \subseteq Known \cup {vault', None}
    BY <1>1 DEF Known
  <2>2. CASE UNCHANGED vault
    <3>1. vault \in Known
      BY DEF Known
    <3> QED
      BY <1>2, <2>1, <2>2, <3>1, KnownStays DEF ReadinessInv, Typing, TypeOK
  <2>3. CASE \E account \in Accounts : vault' = IssuedTo(account)
    BY <2>1, <2>3, KnownGrows DEF ReadinessInv
  <2> QED
    BY <1>2, <2>2, <2>3
<1>4. /\ clock' \in Nat /\ exe' \in Nat /\ events' \in Nat /\ clock <= clock'
      /\ installed' \in [package : Packages, source : {"remote", "local"}, intact : BOOLEAN]
      /\ revoked' \in SUBSET [generation : Nat, at : Nat]
      /\ \A v \in revoked' : v \in revoked \/ v.at = clock
  <2>1. CASE \E p \in Packages, source \in {"remote", "local"} : Install(p, source)
    BY <2>1 DEF Install, Event, ReadinessInv, Typing, TypeOK
  <2>2. CASE Alter
    <3>1. \A b \in BOOLEAN :
            [installed EXCEPT !.intact = b]
              \in [package : Packages, source : {"remote", "local"}, intact : BOOLEAN]
      BY DEF ReadinessInv, Typing, TypeOK
    <3>2. installed' \in [package : Packages, source : {"remote", "local"}, intact : BOOLEAN]
      BY <2>2, <3>1 DEF Alter
    <3> QED
      BY <2>2, <3>2 DEF Alter, Event, ReadinessInv, Typing, TypeOK
  <2>3. CASE ReplaceExecutable
    BY <2>3 DEF ReplaceExecutable, Event, ReadinessInv, Typing, TypeOK
  <2>4. CASE Revoke
    <3>1. vault.generation \in Nat
      BY <2>4 DEF Revoke, ReadinessInv, Typing, TypeOK, Credentials
    <3> DEFINE revocation == [generation |-> vault.generation, at |-> clock]
    <3>2. revocation \in [generation : Nat, at : Nat] /\ revocation.at = clock
      BY <3>1 DEF ReadinessInv, Typing, TypeOK
    <3>3. revoked' = revoked \cup {revocation}
      BY <2>4 DEF Revoke
    <3> HIDE DEF revocation
    <3>4. /\ revoked' \in SUBSET [generation : Nat, at : Nat]
          /\ \A v \in revoked' : v \in revoked \/ v.at = clock
      BY <3>2, <3>3 DEF ReadinessInv, Typing, TypeOK
    <3> QED
      BY <2>4, <3>4 DEF Revoke, Event, ReadinessInv, Typing, TypeOK
  <2>5. CASE Tick
    BY <2>5 DEF Tick, ReadinessInv, Typing, TypeOK
  <2>6. CASE \E account \in Accounts : Rotate(account)
    BY <2>6 DEF Rotate, Event, ReadinessInv, Typing, TypeOK
  <2> QED
    BY <2>1, <2>2, <2>3, <2>4, <2>5, <2>6 DEF Environment
<1>5. Typing'
  BY <1>1, <1>3, <1>4 DEF ReadinessInv, Typing, TypeOK, auth
<1>6. Growing
  BY <1>1, <1>4 DEF Growing, ReadinessInv, Typing, TypeOK
<1>7. LockDiscipline' /\ ProfileInv'
  BY <1>1 DEF ReadinessInv, LockDiscipline, ProfileInv, Numbered, OneContract, auth
<1>8. \A e \in evidence' : RecordInv(e)'
  BY <1>1 DEF ReadinessInv, RecordInv, OneContract
<1>9. ASSUME NEW q \in Procs PROVE RunInv(proc[q])'
  <2>1. PICK x \in Run : x = proc'[q] /\ RunInv(x)
    BY <1>1 DEF ReadinessInv, Typing
  <2>2. RunInv(x)'
    BY <1>6, <2>1, RunStays
  <2> QED
    BY <2>1, <2>2 DEF RunInv
<1> QED
  BY <1>3, <1>5, <1>7, <1>8, <1>9 DEF ReadinessInv

\* A run that is over, or killed, holds nothing and knows nothing.
LEMMA Ending ==
  ASSUME ReadinessInv, NEW p \in Procs, End(p), runs' \in Nat, events' \in Nat,
         UNCHANGED <<clock, installed, exe, vault, revoked, profile, saves, evidence>>,
         lock' = IF lock = p THEN None ELSE lock
  PROVE  ReadinessInv'
<1>1. Idle \in Run /\ RunInv(Idle) /\ Idle.pc = "idle" /\ Idle.environment = None
      /\ Idle.credential = None
  BY IdleRuns DEF ReadinessInv, Typing, TypeOK
<1>2. p # None
  BY RecordAssumption
<1> HIDE DEF Idle
<1>3. proc' = [proc EXCEPT ![p] = Idle]
  BY DEF End
<1>4. /\ lock' \in Procs \cup {None} /\ lock' # p
      /\ \A q \in Procs \ {p} : lock' = q <=> lock = q
  BY <1>2, RecordAssumption DEF ReadinessInv, Typing, TypeOK
<1> QED
  BY <1>1, <1>3, <1>4, RunSteps

LEMMA Killing == \A p \in Procs : ReadinessInv /\ Kill(p) => ReadinessInv'
<1> SUFFICES ASSUME NEW p \in Procs, ReadinessInv, Kill(p) PROVE ReadinessInv'
  OBVIOUS
<1>1. runs' \in Nat /\ events' \in Nat
  BY DEF ReadinessInv, Typing, TypeOK, Kill, Event
<1> QED
  BY <1>1, Ending DEF Kill

LEMMA Answering ==
  ASSUME ReadinessInv, NEW p \in Procs, End(p), proc[p].pc # "save",
         UNCHANGED <<host, auth, evidence, runs>>
  PROVE  ReadinessInv'
<1>1. lock # p /\ runs' \in Nat /\ events' \in Nat
  BY DEF ReadinessInv, LockDiscipline, Typing, TypeOK, host
<1> QED
  BY <1>1, Ending DEF host, auth

LEMMA Beginning == \A p \in Procs : ReadinessInv /\ Start(p) => ReadinessInv'
<1> SUFFICES ASSUME NEW p \in Procs, ReadinessInv, Start(p) PROVE ReadinessInv'
  OBVIOUS
<1>1. PICK op \in {"configure", "smoke", "catalog"}, pc \in {"bootstrap", "verify"} :
        Begin(p, op, pc) /\ (op = "configure" <=> pc = "bootstrap")
  BY DEF Start, BeginConfigure, BeginSmoke, BeginCatalog
<1>2. PICK version \in Versions :
        proc' = [proc EXCEPT ![p] = [Idle EXCEPT !.op = op, !.pc = pc, !.now = clock,
                                       !.environment = vault, !.version = version]]
  BY <1>1 DEF Begin
<1>3. /\ clock \in Nat /\ vault \in Optional(Credentials)
      /\ pc \in Places /\ op \in Operations /\ version \in Optional(Versions)
  BY DEF Optional, Operations, Places, Configuring, Checking, ReadinessInv, Typing, TypeOK
<1>4. PICK r \in Run :
        /\ proc' = [proc EXCEPT ![p] = r]
        /\ r.op = op /\ r.pc = pc /\ r.now = clock /\ r.environment = vault
        /\ r.version = version /\ r.credential = None /\ r.profile = None
  <2> DEFINE r == [Idle EXCEPT !.op = op, !.pc = pc, !.now = clock, !.environment = vault,
                                !.version = version]
  <2>1. Idle \in Run /\ Idle.credential = None /\ Idle.profile = None
    BY IdleRuns DEF ReadinessInv, Typing, TypeOK, Idle
  <2> HIDE DEF Idle
  <2>2. r \in Run /\ r.op = op /\ r.pc = pc /\ r.credential = None /\ r.profile = None
        /\ r.now = clock /\ r.environment = vault /\ r.version = version
    BY <1>3, <2>1 DEF Run
  <2> QED
    BY <1>2, <2>2
<1>5. RunInv(r)
  BY <1>1, <1>4 DEF RunInv, Configuring, Checking, Reported, ReadinessInv, Typing, TypeOK
<1>6. /\ proc[p].pc = "idle" /\ lock # p /\ runs' \in Nat
      /\ UNCHANGED <<host, auth, evidence>>
  BY <1>1 DEF Begin, ReadinessInv, LockDiscipline, Typing, TypeOK
<1> QED
  BY <1>1, <1>4, <1>5, <1>6, RunSteps DEF host, auth, ReadinessInv, Typing, TypeOK

-----------------------------------------------------------------------------
(* Configure                                                                *)

LEMMA Bootstrapping ==
  \A p \in Procs : \A account \in Accounts :
    ReadinessInv /\ Bootstrap(p, account) => ReadinessInv'
<1> SUFFICES ASSUME NEW p \in Procs, NEW account \in Accounts, ReadinessInv, Bootstrap(p, account)
             PROVE  ReadinessInv'
  OBVIOUS
<1>1. PICK x \in Run : x = proc[p] /\ RunInv(x) /\ x.op = "configure" /\ x.pc = "bootstrap"
  BY DEF Bootstrap, At, ReadinessInv, Typing
<1> DEFINE choice == [version |-> x.version, account |-> account]
           r == [x EXCEPT !.pc = "lock", !.profile = choice]
<1>2. choice \in Selections
  BY <1>1 DEF Selections, RunInv
<1>3. proc' = [proc EXCEPT ![p] = r]
  BY <1>1 DEF Bootstrap, ReadinessInv, Typing
<1> HIDE DEF choice
<1>4. r \in Run /\ r.pc = "lock" /\ r.op = "configure" /\ r.profile \in Selections
      /\ r.now = x.now /\ r.version = x.version /\ r.environment = x.environment
      /\ r.credential = x.credential
  BY <1>1, <1>2 DEF Run, Optional, Places, Configuring
<1> HIDE DEF r
<1>5. RunInv(r)
  BY <1>1, <1>4 DEF RunInv, Configuring, Checking, Reported
<1>6. vault' \in Credentials \cup {None} /\ GenerationsAreUnique'
  <2>1. \A q \in Procs : proc'[q] = IF q = p THEN r ELSE proc[q]
    BY <1>3 DEF ReadinessInv, Typing
  <2>0. \A q \in Procs : /\ proc'[q].environment = proc[q].environment
                         /\ proc'[q].credential = proc[q].credential
    BY <1>1, <1>4, <2>1
  <2>2. Known' \subseteq Known \cup {vault', None}
    <3>1. UNCHANGED evidence
      BY DEF Bootstrap
    <3> QED
      BY <2>0, <3>1 DEF Known
  <2>3. CASE LiveCredentials
    BY <2>2, <2>3, KnownGrows DEF Bootstrap, ReadinessInv
  <2>4. CASE ~LiveCredentials
    <3>1. UNCHANGED vault
      BY <2>4 DEF Bootstrap
    <3>2. vault \in Known
      BY DEF Known
    <3> QED
      BY <2>2, <3>1, <3>2, KnownStays DEF ReadinessInv, Typing, TypeOK
  <2> QED
    BY <2>3, <2>4
<1>7. /\ UNCHANGED <<clock, installed, exe, revoked, events, auth, evidence, runs>>
      /\ lock # p
  BY DEF Bootstrap, At, ReadinessInv, LockDiscipline
<1> QED
  BY <1>3, <1>4, <1>5, <1>6, <1>7, RunMoves DEF auth, ReadinessInv, Typing, TypeOK

LEMMA LockingProfile == \A p \in Procs : ReadinessInv /\ LockProfile(p) => ReadinessInv'
<1> SUFFICES ASSUME NEW p \in Procs, ReadinessInv, LockProfile(p) PROVE ReadinessInv'
  OBVIOUS
<1>1. PICK x \in Run : x = proc[p] /\ RunInv(x) /\ x.op = "configure" /\ x.pc = "lock"
  BY DEF LockProfile, At, ReadinessInv, Typing
<1> DEFINE r == [x EXCEPT !.pc = "save", !.previous = profile]
<1>2. proc' = [proc EXCEPT ![p] = r]
  BY <1>1 DEF LockProfile, ReadinessInv, Typing
<1>3. profile \in Optional(Profiles)
  BY DEF Optional, ReadinessInv, Typing, TypeOK
<1>4. r \in Run /\ r.pc = "save" /\ r.previous = profile /\ r.op = "configure"
      /\ r.profile = x.profile /\ r.now = x.now /\ r.version = x.version
      /\ r.environment = x.environment /\ r.credential = x.credential
  BY <1>1, <1>3 DEF Run, Places, Configuring
<1> HIDE DEF r
<1>5. RunInv(r)
  BY <1>1, <1>4 DEF RunInv, Configuring, Checking, Reported
<1>6. /\ lock' = p /\ p # None /\ runs' \in Nat /\ events' \in Nat
      /\ \A q \in Procs \ {p} : lock' = q <=> lock = q
  BY RecordAssumption DEF LockProfile, ReadinessInv, Typing, TypeOK, host
<1> QED
  BY <1>1, <1>2, <1>4, <1>5, <1>6, RunSteps DEF LockProfile, host

\* The lock makes the revision count: what was read under it is what is there.
LEMMA Saving == \A p \in Procs : ReadinessInv /\ SaveProfile(p) => ReadinessInv'
<1> SUFFICES ASSUME NEW p \in Procs, ReadinessInv, SaveProfile(p) PROVE ReadinessInv'
  OBVIOUS
<1>1. PICK x \in Run : x = proc[p] /\ RunInv(x) /\ x.op = "configure" /\ x.pc = "save"
                       /\ x.previous = profile /\ lock = p
  BY DEF SaveProfile, At, ReadinessInv, LockDiscipline, Typing
<1>2. /\ x.profile \in Selections /\ x.version \in Versions /\ saves \in Nat
      /\ profile \in Profiles \cup {None}
  BY <1>1 DEF RunInv, Configuring, ReadinessInv, Typing, TypeOK
<1>3. NextRevision(profile, x.version) \in Nat
  BY <1>2 DEF NextRevision, Profiles
<1>4. /\ profile' \in Profiles /\ profile' # None /\ profile'.save = saves + 1
      /\ profile'.revision = NextRevision(profile, x.version)
  BY <1>1, <1>2, <1>3, RecordAssumption DEF SaveProfile, Profiles, Selections
<1>5. OneContract => NextRevision(profile, x.version) = saves + 1
  <2>1. CASE profile = None
    BY <2>1 DEF NextRevision, ReadinessInv, ProfileInv
  <2>2. CASE profile # None
    BY <1>2, <2>2 DEF NextRevision, ReadinessInv, ProfileInv, Numbered, OneContract, Profiles
  <2> QED
    BY <2>1, <2>2
<1>6. ProfileInv'
  BY <1>2, <1>4, <1>5 DEF ProfileInv, Numbered, OneContract, SaveProfile
<1>7. Idle \in Run /\ RunInv(Idle) /\ Idle.pc = "idle" /\ Idle.environment = None
      /\ Idle.credential = None
  BY IdleRuns DEF ReadinessInv, Typing, TypeOK
<1> HIDE DEF Idle
<1>8. proc' \in [Procs -> Run] /\ \A q \in Procs : proc'[q] = IF q = p THEN Idle ELSE proc[q]
  BY <1>7 DEF SaveProfile, End, ReadinessInv, Typing
<1>9. Typing'
  BY <1>2, <1>4, <1>8 DEF SaveProfile, host, ReadinessInv, Typing, TypeOK
<1>10. LockDiscipline'
  BY <1>1, <1>7, <1>8, RecordAssumption DEF SaveProfile, ReadinessInv, LockDiscipline
<1>11. GenerationsAreUnique'
  <2>1. Known' \subseteq Known \cup {None}
    BY <1>7, <1>8 DEF Known, SaveProfile, host
  <2> QED
    BY <2>1, KnownStays DEF ReadinessInv, SaveProfile, host
<1>12. Growing /\ UNCHANGED evidence
  BY DEF Growing, SaveProfile, host, ReadinessInv, Typing, TypeOK
<1>13. \A e \in evidence' : RecordInv(e)'
  BY <1>12 DEF ReadinessInv, RecordInv, OneContract
<1>14. ASSUME NEW q \in Procs PROVE RunInv(proc[q])'
  <2>1. PICK y \in Run : y = proc'[q] /\ RunInv(y)
    BY <1>7, <1>8 DEF ReadinessInv, Typing
  <2>2. RunInv(y)'
    BY <1>12, <2>1, RunStays
  <2> QED
    BY <2>1, <2>2 DEF RunInv
<1> QED
  BY <1>6, <1>9, <1>10, <1>11, <1>13, <1>14 DEF ReadinessInv

-----------------------------------------------------------------------------
(* Smoke                                                                    *)

\* The record of a run is true of the run.
LEMMA Recording ==
  ASSUME ReadinessInv, NEW p \in Procs, NEW result \in Verdicts,
         proc[p].op = "smoke", proc[p].pc # "idle",
         result = "passed" => /\ proc[p].pc \in Reported
                              /\ clock < RecordOf(p, result, clock).expires
  PROVE  /\ RecordOf(p, result, clock) \in Records
         /\ RecordInv(RecordOf(p, result, clock))
         /\ RecordOf(p, result, clock).credential = proc[p].credential
<1>1. PICK x \in Run : x = proc[p] /\ RunInv(x) /\ x.op = "smoke"
  BY DEF ReadinessInv, Typing
<1>2. /\ x.version \in Versions /\ x.now \in Nat /\ clock \in Nat /\ x.now <= clock /\ x.exe \in Nat
      /\ x.credential \in Optional(Credentials) /\ x.profile \in Optional(Profiles \cup Selections)
      /\ x.ran \in Optional(Packages) /\ x.receipt \in Optional(Installs)
      /\ x.report \in Optional(Reports)
      /\ x.credential = None => x.profile = None
      /\ x.credential # None => x.profile \in Profiles /\ Numbered(x.profile)
  BY <1>1 DEF RunInv, Run, ReadinessInv, Typing, TypeOK
<1> DEFINE package == IF x.receipt # None THEN x.receipt.package ELSE None
           source == IF x.receipt # None THEN x.receipt.source ELSE None
           class == IF x.report = None THEN None ELSE ConfigurationClass(x.report)
           key == IF x.credential = None THEN None
                  ELSE <<x.profile.revision, x.credential.generation>>
           account == IF x.report = None THEN None ELSE x.report.account
           target == IF x.report = None THEN None ELSE x.report.target
           expires == IF result = "failed" THEN clock
                      ELSE IF x.report.selected THEN Earlier(x.now + SmokeLife, x.report.until)
                      ELSE x.now + SmokeLife
           save == IF x.profile = None THEN 0 ELSE x.profile.save
           e == RecordOf(p, result, clock)
<1>3. e = [version |-> x.version, started |-> x.now, observed |-> clock, result |-> result,
           package |-> package, source |-> source, exe |-> x.exe, class |-> class, key |-> key,
           account |-> account, target |-> target, expires |-> expires, ran |-> x.ran,
           save |-> save, credential |-> x.credential]
  BY <1>1 DEF RecordOf, Key
<1>4. package \in Optional(Packages) /\ source \in Optional(Sources)
  BY <1>2 DEF Optional, Installs
<1>5. class \in Optional(Classes)
  BY DEF Optional, Classes, ConfigurationClass
<1>6. account \in Optional(Accounts) /\ target \in Optional(Accounts \X BOOLEAN)
  BY <1>2 DEF Optional, Reports
<1>7. /\ key \in Optional(Nat \X Nat) /\ save \in Nat
      /\ x.credential = None => key = None /\ save = 0
      /\ x.credential # None => /\ key # None /\ key[2] = x.credential.generation
                                /\ OneContract => key[1] = save
  <2>1. CASE x.credential = None
    BY <1>2, <2>1 DEF Optional
  <2>2. CASE x.credential # None
    <3>1. /\ x.profile.revision \in Nat /\ x.profile.save \in Nat /\ x.credential.generation \in Nat
          /\ x.profile # None
          /\ OneContract => x.profile.revision = x.profile.save
      BY <1>2, <2>2, RecordAssumption DEF Profiles, Credentials, Optional, Numbered
    <3>2. key \in Nat \X Nat /\ key # None
      BY <2>2, <3>1, RecordAssumption
    <3>3. save = x.profile.save /\ key[1] = x.profile.revision /\ key[2] = x.credential.generation
      BY <2>2, <3>1
    <3> HIDE DEF key, save
    <3> QED
      BY <2>2, <3>1, <3>2, <3>3 DEF Optional
  <2> QED
    BY <2>1, <2>2
<1>8. expires \in Nat /\ (result = "passed" /\ x.credential # None => expires <= x.credential.until)
  <2>1. CASE result = "failed"
    BY <1>2, <2>1
  <2>2. CASE result = "passed"
    <3>1. x.report \in Reports /\ (x.credential # None => Vouched(x))
      BY <1>1, <2>2 DEF RunInv
    <3>2. x.report.until \in Nat /\ x.now + SmokeLife \in Nat
      BY <1>2, <3>1, ReadinessRulesAssumption DEF Reports
    <3>3. x.credential # None => x.credential.until \in Nat
      BY <1>2 DEF Optional, Credentials
    <3> QED
      BY <2>2, <3>1, <3>2, <3>3 DEF Earlier, Vouched
  <2> QED
    BY <2>1, <2>2 DEF Verdicts
<1> HIDE DEF package, source, class, key, account, target, expires, save
<1>9. e \in Records
  BY <1>2, <1>3, <1>4, <1>5, <1>6, <1>7, <1>8 DEF Records
<1>10. /\ e.started = x.now /\ e.observed = clock /\ e.result = result /\ e.key = key
       /\ e.expires = expires /\ e.save = save /\ e.credential = x.credential
  BY <1>3
<1>11. result = "passed" => clock < expires
  BY <1>10
<1> HIDE DEF e
<1>12. RecordInv(e)
  BY <1>2, <1>7, <1>8, <1>10, <1>11 DEF RecordInv
<1> QED
  BY <1>1, <1>9, <1>10, <1>12 DEF e

LEMMA Observing ==
  ASSUME ReadinessInv, NEW p \in Procs, NEW result \in Verdicts, Observed(p, result),
         proc[p].op = "smoke", proc[p].pc \notin {"idle", "save"},
         result = "passed" => /\ proc[p].pc \in Reported
                              /\ clock < RecordOf(p, result, clock).expires
  PROVE  ReadinessInv'
<1>1. PICK x \in Run : x = proc[p] /\ RunInv(x) /\ x.op = "smoke"
  BY DEF ReadinessInv, Typing
<1>2. PICK e \in Records : /\ e = RecordOf(p, result, clock)
                           /\ RecordInv(e) /\ e.credential = x.credential
  BY <1>1, Recording
<1> DEFINE r == [x EXCEPT !.pc = "publish", !.outcome = e]
<1>3. proc' = [proc EXCEPT ![p] = r]
  BY <1>1, <1>2 DEF Observed, ReadinessInv, Typing
<1>4. r \in Run /\ r.pc = "publish" /\ r.op = x.op /\ r.outcome = e /\ r.now = x.now
      /\ r.version = x.version /\ r.environment = x.environment
      /\ r.credential = x.credential /\ r.profile = x.profile
  BY <1>1 DEF Run, Places, Checking, Optional
<1> HIDE DEF r
<1>5. RunInv(r)
  BY <1>1, <1>2, <1>4 DEF RunInv, Configuring, Checking, Reported
<1> QED
  BY <1>1, <1>3, <1>4, <1>5, PlainSteps DEF Observed
\* What is installed is read again, by a smoke run and by the catalog.
LEMMA Verifying ==
  \A p \in Procs : ReadinessInv /\ (VerifySmoke(p) \/ VerifyCatalog(p)) => ReadinessInv'
<1> SUFFICES ASSUME NEW p \in Procs, ReadinessInv, VerifySmoke(p) \/ VerifyCatalog(p)
             PROVE  ReadinessInv'
  OBVIOUS
<1>1. PICK x \in Run : x = proc[p] /\ RunInv(x) /\ x.pc = "verify" /\ x.op \in {"smoke", "catalog"}
  BY DEF VerifySmoke, VerifyCatalog, At, ReadinessInv, Typing
<1> DEFINE receipt == [package |-> installed.package, source |-> installed.source]
           r == [x EXCEPT !.pc = "load", !.receipt = receipt, !.exe = exe]
<1>2. \/ End(p) /\ UNCHANGED <<host, auth, evidence, runs>>
      \/ Observed(p, "failed") /\ x.op = "smoke"
      \/ proc' = [proc EXCEPT ![p] = r] /\ UNCHANGED <<host, auth, evidence, runs>>
  BY <1>1 DEF VerifySmoke, VerifyCatalog, At, Verified, ExecutableFingerprint, ReadinessInv, Typing
<1>3. CASE End(p) /\ UNCHANGED <<host, auth, evidence, runs>>
  BY <1>1, <1>3, Answering
<1>4. CASE Observed(p, "failed") /\ x.op = "smoke"
  BY <1>1, <1>4, Observing DEF Verdicts
<1>5. CASE proc' = [proc EXCEPT ![p] = r] /\ UNCHANGED <<host, auth, evidence, runs>>
  <2>1. receipt \in Optional(Installs) /\ exe \in Nat
    BY DEF Optional, Installs, Sources, ReadinessInv, Typing, TypeOK
  <2> HIDE DEF receipt
  <2>2. r \in Run /\ r.pc = "load" /\ r.op = x.op /\ r.now = x.now /\ r.version = x.version
        /\ r.environment = x.environment /\ r.credential = x.credential /\ r.profile = x.profile
    BY <1>1, <2>1 DEF Run, Places, Checking
  <2> HIDE DEF r
  <2>3. RunInv(r)
    BY <1>1, <2>2 DEF RunInv, Configuring, Checking, Reported
  <2> QED
    BY <1>1, <1>5, <2>2, <2>3, PlainSteps
<1> QED
  BY <1>2, <1>3, <1>4, <1>5

LEMMA Loading == \A p \in Procs : ReadinessInv /\ Load(p) => ReadinessInv'
<1> SUFFICES ASSUME NEW p \in Procs, ReadinessInv, Load(p) PROVE ReadinessInv'
  OBVIOUS
<1>1. PICK x \in Run : x = proc[p] /\ RunInv(x) /\ x.pc = "load" /\ x.op \in {"smoke", "catalog"}
  <2>1. proc[p] \in Run /\ RunInv(proc[p]) /\ proc[p].pc = "load"
    BY DEF Load, ReadinessInv, Typing
  <2> QED
    BY <2>1 DEF RunInv, Checking
<1> DEFINE said == BeforeCredentials(AuthStatus, profile, x.version, ContractOf)
           c == IF LiveCredentials THEN vault ELSE x.environment
           lost == said = None /\ LiveCredentials /\ ~DriverLoads(profile.version)
           answer == IF lost THEN Unanswered("error", TRUE)
                     ELSE IF said # None THEN said
                     ELSE IF c = None THEN Unanswered("missing", TRUE) ELSE None
           place == IF answer = None THEN "observe" ELSE "judge"
           f == IF answer = None THEN profile ELSE None
           k == IF answer = None THEN c ELSE None
           r == [x EXCEPT !.pc = place, !.round = x.round, !.report = answer,
                          !.profile = f, !.credential = k]
<1>2. proc' = [proc EXCEPT ![p] = r]
  BY <1>1 DEF Load, LoadProfile, Credential, ReadinessInv, Typing
<1>3. /\ answer \in Optional(Reports)
      /\ answer = None => profile # None /\ c # None
  <2>1. /\ said # None => said \in Reports
        /\ said = None => profile # None
    BY SaidBefore
  <2>2. /\ Unanswered("error", TRUE) \in Reports /\ Unanswered("missing", TRUE) \in Reports
    <3>1. \A state \in States, selected \in BOOLEAN : Unanswered(state, selected) \in Reports
      BY DEF Unanswered, Report, Reports
    <3> QED
      BY <3>1 DEF States, SetupStates
  <2> HIDE DEF said
  <2> QED
    BY <2>1, <2>2, RecordAssumption DEF Optional
<1>4. /\ place \in Places /\ place \in {"observe", "judge"}
      /\ f \in Optional(Profiles \cup Selections) /\ k \in Optional(Credentials)
      /\ x.round \in 1..2
      /\ k \in {vault, x.environment, None}
      /\ k = None => f = None
      /\ k # None => f \in Profiles /\ Numbered(f)
      /\ place = "observe" => k # None
      /\ place = "judge" => answer \in Reports /\ k = None
  <2>1. /\ profile \in Profiles \cup {None} /\ vault \in Credentials \cup {None}
        /\ x.environment \in Credentials \cup {None} /\ x.round \in 1..2
        /\ profile # None => Numbered(profile)
    BY <1>1 DEF Run, Optional, ReadinessInv, ProfileInv, Typing, TypeOK
  <2> HIDE DEF answer
  <2> QED
    BY <1>3, <2>1 DEF Places, Checking, Reported, Optional
<1> HIDE DEF answer, place, f, k
<1>5. r \in Run /\ r.pc = place /\ r.op = x.op /\ r.now = x.now /\ r.version = x.version
      /\ r.environment = x.environment /\ r.credential = k /\ r.profile = f /\ r.report = answer
  BY <1>1, <1>3, <1>4 DEF Run
<1> HIDE DEF r
<1>6. RunInv(r)
  BY <1>1, <1>4, <1>5 DEF RunInv, Configuring, Checking, Reported
<1>7. r.credential \in {proc[p].credential, proc[p].environment, vault, None}
      /\ r.environment = proc[p].environment /\ proc[p].pc # "save" /\ r.pc # "save"
  BY <1>1, <1>4, <1>5
<1> QED
  BY <1>2, <1>5, <1>6, <1>7, PlainSteps DEF Load

\* What is observed of a credential is true of it, whatever is revoked.
LEMMA Attesting == \A p \in Procs : ReadinessInv /\ Observe(p) => ReadinessInv'
<1> SUFFICES ASSUME NEW p \in Procs, ReadinessInv, Observe(p) PROVE ReadinessInv'
  OBVIOUS
<1>1. PICK x \in Run : x = proc[p] /\ RunInv(x) /\ x.pc = "observe" /\ x.op \in {"smoke", "catalog"}
  <2>1. proc[p] \in Run /\ RunInv(proc[p]) /\ proc[p].pc = "observe"
    BY DEF Observe, ReadinessInv, Typing
  <2> QED
    BY <2>1 DEF RunInv, Checking
<1>2. PICK attested \in Attestations :
        proc' = [proc EXCEPT ![p].pc = "judge", ![p].report = Observation(p, attested)]
  BY DEF Observe
<1>3. x.credential \in Credentials /\ x.credential # None /\ x.profile \in Profiles /\ x.now \in Nat
  BY <1>1 DEF RunInv, Run, Optional
<1> DEFINE o == Observation(p, attested)
<1>4. /\ o \in Reports /\ o.selected /\ o.until <= x.credential.until
      /\ 0 < o.until => ~IsRevoked(x.credential.generation)
  <2>1. x.credential.until \in Nat
    BY <1>3 DEF Credentials
  <2>2. \A state \in States : /\ Unanswered(state, TRUE) \in Reports
                              /\ Unanswered(state, TRUE).selected
                              /\ Unanswered(state, TRUE).until = 0
    <3>1. \A state \in States, selected \in BOOLEAN : Unanswered(state, selected) \in Reports
      BY DEF Unanswered, Report, Reports
    <3>2. \A state, selected : /\ Unanswered(state, selected).selected = selected
                               /\ Unanswered(state, selected).until = 0
      BY DEF Unanswered, Report
    <3> QED
      BY <3>1, <3>2
  <2>3. CASE attested = None
    <3>1. o = Unanswered("unavailable", TRUE) /\ "unavailable" \in States
      BY <2>3 DEF Observation, States
    <3> HIDE DEF o
    <3>2. o \in Reports /\ o.selected /\ o.until = 0
      BY <2>2, <3>1
    <3> QED
      BY <2>1, <3>2
  <2>4. CASE attested # None /\ ~GenerationsCurrent(p)
    <3>1. o = Unanswered("stale", TRUE) /\ "stale" \in States
      BY <2>4 DEF Observation, States, SetupStates
    <3> HIDE DEF o
    <3>2. o \in Reports /\ o.selected /\ o.until = 0
      BY <2>2, <3>1
    <3> QED
      BY <2>1, <3>2
  <2>5. CASE attested # None /\ GenerationsCurrent(p)
    <3>1. o = Judged(x.profile, x.credential, IsRevoked(x.credential.generation), attested, x.now)
      BY <1>1, <2>5 DEF Observation
    <3>2. attested \in Nat
      BY <2>5, ReadinessAssumption DEF Attestations, ReadinessInv, Typing, TypeOK
    <3>3. IsRevoked(x.credential.generation) \in BOOLEAN
      BY DEF IsRevoked
    <3> HIDE DEF o
    <3> QED
      BY <1>3, <3>1, <3>2, <3>3, JudgedReports
  <2> QED
    BY <2>3, <2>4, <2>5
<1> DEFINE r == [x EXCEPT !.pc = "judge", !.report = o]
<1>5. proc' = [proc EXCEPT ![p] = r]
  BY <1>1, <1>2 DEF ReadinessInv, Typing
<1> HIDE DEF o
<1>6. r \in Run /\ r.pc = "judge" /\ r.op = x.op /\ r.now = x.now /\ r.version = x.version
      /\ r.environment = x.environment /\ r.credential = x.credential /\ r.profile = x.profile
      /\ r.report = o
  BY <1>1, <1>4 DEF Run, Places, Checking, Reported, Optional
<1> HIDE DEF r
<1>7. Vouched(r)
  BY <1>3, <1>4, <1>6 DEF Vouched, IsRevoked
<1>8. RunInv(r)
  BY <1>1, <1>4, <1>6, <1>7 DEF RunInv, Configuring, Checking, Reported
<1> QED
  BY <1>1, <1>5, <1>6, <1>8, PlainSteps DEF Observe

LEMMA Judging == \A p \in Procs : ReadinessInv /\ JudgeSmoke(p) => ReadinessInv'
<1> SUFFICES ASSUME NEW p \in Procs, ReadinessInv, JudgeSmoke(p) PROVE ReadinessInv'
  OBVIOUS
<1>1. PICK x \in Run : x = proc[p] /\ RunInv(x) /\ x.pc = "judge" /\ x.op = "smoke"
  BY DEF JudgeSmoke, At, ReadinessInv, Typing
<1> DEFINE r == [x EXCEPT !.pc = "run"]
<1>2. \/ End(p) /\ UNCHANGED <<host, auth, evidence, runs>>
      \/ Observed(p, "failed")
      \/ proc' = [proc EXCEPT ![p] = r] /\ UNCHANGED <<host, auth, evidence, runs>>
  BY <1>1 DEF JudgeSmoke, ReadinessInv, Typing
<1>3. CASE End(p) /\ UNCHANGED <<host, auth, evidence, runs>>
  BY <1>1, <1>3, Answering
<1>4. CASE Observed(p, "failed")
  BY <1>1, <1>4, Observing DEF Verdicts
<1>5. CASE proc' = [proc EXCEPT ![p] = r] /\ UNCHANGED <<host, auth, evidence, runs>>
  <2>1. r \in Run /\ r.pc = "run" /\ r.op = x.op /\ r.now = x.now /\ r.version = x.version
        /\ r.environment = x.environment /\ r.credential = x.credential /\ r.profile = x.profile
        /\ r.report = x.report
    BY <1>1 DEF Run, Places, Checking, Reported
  <2> HIDE DEF r
  <2>2. RunInv(r)
    BY <1>1, <2>1 DEF RunInv, Configuring, Checking, Reported, Vouched
  <2> QED
    BY <1>1, <1>5, <2>1, <2>2, PlainSteps
<1> QED
  BY <1>2, <1>3, <1>4, <1>5

LEMMA Running == \A p \in Procs : ReadinessInv /\ RunSmoke(p) => ReadinessInv'
<1> SUFFICES ASSUME NEW p \in Procs, ReadinessInv, RunSmoke(p) PROVE ReadinessInv'
  OBVIOUS
<1>1. PICK x \in Run : x = proc[p] /\ RunInv(x) /\ x.pc = "run" /\ x.op = "smoke"
  BY DEF RunSmoke, At, ReadinessInv, Typing
<1> DEFINE r == [x EXCEPT !.pc = "close", !.ran = installed.package]
<1>2. proc' = [proc EXCEPT ![p] = r]
  BY <1>1 DEF RunSmoke, ReadinessInv, Typing
<1>3. installed.package \in Optional(Packages)
  BY DEF Optional, ReadinessInv, Typing, TypeOK
<1>4. r \in Run /\ r.pc = "close" /\ r.op = x.op /\ r.now = x.now /\ r.version = x.version
      /\ r.environment = x.environment /\ r.credential = x.credential /\ r.profile = x.profile
      /\ r.report = x.report
  BY <1>1, <1>3 DEF Run, Places, Checking, Reported
<1> HIDE DEF r
<1>5. RunInv(r)
  BY <1>1, <1>4 DEF RunInv, Configuring, Checking, Reported, Vouched
<1> QED
  BY <1>1, <1>2, <1>4, <1>5, PlainSteps DEF RunSmoke

LEMMA Closing ==
  \A p \in Procs : ReadinessInv /\ (SmokeFails(p) \/ CloseSmoke(p)) => ReadinessInv'
<1> SUFFICES ASSUME NEW p \in Procs, ReadinessInv, SmokeFails(p) \/ CloseSmoke(p)
             PROVE  ReadinessInv'
  OBVIOUS
<1>1. proc[p].op = "smoke" /\ proc[p].pc \in {"run", "close"}
  BY DEF SmokeFails, CloseSmoke, At
<1>2. PICK result \in Verdicts : Observed(p, result) /\ (result = "passed" => InTime(p))
  BY DEF SmokeFails, CloseSmoke, Verdicts
<1>3. result = "passed" => clock < RecordOf(p, result, clock).expires
  BY <1>2 DEF InTime
<1> QED
  BY <1>1, <1>2, <1>3, Observing DEF Reported

LEMMA Publishing == \A p \in Procs : ReadinessInv /\ PublishRecord(p) => ReadinessInv'
<1> SUFFICES ASSUME NEW p \in Procs, ReadinessInv, PublishRecord(p) PROVE ReadinessInv'
  OBVIOUS
<1>1. PICK x \in Run : x = proc[p] /\ RunInv(x) /\ x.pc = "publish"
  BY DEF PublishRecord, At, ReadinessInv, Typing
<1>2. PICK e \in Records : e = x.outcome /\ RecordInv(e) /\ e.credential = x.credential
  BY <1>1 DEF RunInv
<1>3. evidence' = evidence \cup {e} /\ UNCHANGED <<host, auth, runs>>
  BY <1>1, <1>2 DEF PublishRecord, AppendRecord
<1>4. Idle \in Run /\ RunInv(Idle) /\ Idle.pc = "idle" /\ Idle.environment = None
      /\ Idle.credential = None
  BY IdleRuns DEF ReadinessInv, Typing, TypeOK
<1> HIDE DEF Idle
<1>5. proc' \in [Procs -> Run] /\ \A q \in Procs : proc'[q] = IF q = p THEN Idle ELSE proc[q]
  BY <1>4 DEF PublishRecord, End, ReadinessInv, Typing
<1>6. Typing'
  BY <1>3, <1>5 DEF host, auth, ReadinessInv, Typing, TypeOK
<1>7. LockDiscipline'
  BY <1>1, <1>3, <1>4, <1>5 DEF auth, ReadinessInv, LockDiscipline
<1>8. ProfileInv'
  BY <1>3 DEF auth, ReadinessInv, ProfileInv, Numbered, OneContract
<1>9. GenerationsAreUnique'
  <2>1. e.credential \in Known
    BY <1>1, <1>2 DEF Known
  <2>2. Known' \subseteq Known \cup {None}
    BY <1>3, <1>4, <1>5, <2>1 DEF Known, host
  <2> QED
    BY <1>3, <2>2, KnownStays DEF ReadinessInv, host
<1>10. \A d \in evidence' : RecordInv(d)'
  BY <1>2, <1>3 DEF ReadinessInv, RecordInv, OneContract
<1>11. Growing
  BY <1>3 DEF Growing, host, ReadinessInv, Typing, TypeOK
<1>12. ASSUME NEW q \in Procs PROVE RunInv(proc[q])'
  <2>1. PICK y \in Run : y = proc'[q] /\ RunInv(y)
    BY <1>4, <1>5 DEF ReadinessInv, Typing
  <2>2. RunInv(y)'
    BY <1>11, <2>1, RunStays
  <2> QED
    BY <2>1, <2>2 DEF RunInv
<1> QED
  BY <1>6, <1>7, <1>8, <1>9, <1>10, <1>12 DEF ReadinessInv

-----------------------------------------------------------------------------
(* The catalog                                                              *)

\* Of records that were observed by now, one is the latest: none of the others
\* replaces it.
LEMMA LatestIsLast ==
  ASSUME NEW C, C # {}, NEW now \in Nat,
         \A e \in C : e \in Records /\ e.started <= e.observed /\ e.observed <= now
  PROVE  Latest(C) \in C /\ \A s \in C : ~Supersedes(s, Latest(C))
<1>1. \A e \in C : /\ e.observed \in Nat /\ e.started \in Nat /\ e.result \in {"passed", "failed"}
                   /\ now - e.observed \in Nat /\ now - e.started \in Nat
  BY DEF Records, Verdicts
<1>2. PICK last \in C : \A s \in C : s.observed <= last.observed
  <2> DEFINE S == {now - e.observed : e \in C}
  <2>1. S \subseteq Nat /\ S # {}
    BY <1>1
  <2>2. \E n \in S : \A m \in S : n <= m
    BY <2>1, LeastNatural
  <2>3. PICK e \in C : \A s \in C : now - e.observed <= now - s.observed
    BY <2>2
  <2> QED
    BY <1>1, <2>3
<1>3. PICK first \in {e \in C : e.observed = last.observed} :
        \A s \in C : s.observed = last.observed => s.started <= first.started
  <2> DEFINE D == {e \in C : e.observed = last.observed}
             S == {now - e.started : e \in D}
  <2>1. S \subseteq Nat /\ S # {}
    BY <1>1, <1>2
  <2>2. \E n \in S : \A m \in S : n <= m
    BY <2>1, LeastNatural
  <2>3. PICK e \in D : \A s \in D : now - e.started <= now - s.started
    BY <2>2
  <2> QED
    BY <1>1, <2>3
<1>4. \E e \in C : \A s \in C : ~Supersedes(s, e)
  <2>1. CASE \E f \in C : /\ f.observed = first.observed /\ f.started = first.started
                          /\ f.result = "failed"
    BY <1>1, <1>2, <1>3, <2>1 DEF Supersedes
  <2>2. CASE ~ \E f \in C : /\ f.observed = first.observed /\ f.started = first.started
                            /\ f.result = "failed"
    BY <1>1, <1>2, <1>3, <2>2 DEF Supersedes
  <2> QED
    BY <2>1, <2>2
<1> QED
  BY <1>4 DEF Latest

LEMMA Answered ==
  \A p \in Procs :
    ReadinessInv /\ (BootstrapFails(p) \/ DoctorAnswers(p) \/ Answer(p)) => ReadinessInv'
<1> SUFFICES ASSUME NEW p \in Procs, ReadinessInv,
                    BootstrapFails(p) \/ DoctorAnswers(p) \/ Answer(p)
             PROVE  ReadinessInv'
  OBVIOUS
<1>1. End(p) /\ proc[p].pc # "save" /\ UNCHANGED <<host, auth, evidence, runs>>
  BY DEF BootstrapFails, DoctorAnswers, Answer, At
<1> QED
  BY <1>1, Answering

LEMMA SecondRound == \A p \in Procs : ReadinessInv /\ DoctorIsReady(p) => ReadinessInv'
<1> SUFFICES ASSUME NEW p \in Procs, ReadinessInv, DoctorIsReady(p) PROVE ReadinessInv'
  OBVIOUS
<1>1. PICK x \in Run : x = proc[p] /\ RunInv(x) /\ x.pc = "judge" /\ x.op = "catalog"
  BY DEF DoctorIsReady, At, ReadinessInv, Typing
<1> DEFINE r == [x EXCEPT !.pc = "verify", !.round = 2]
<1>2. proc' = [proc EXCEPT ![p] = r]
  BY <1>1 DEF DoctorIsReady, ReadinessInv, Typing
<1>3. r \in Run /\ r.pc = "verify" /\ r.op = x.op /\ r.now = x.now /\ r.version = x.version
      /\ r.environment = x.environment /\ r.credential = x.credential /\ r.profile = x.profile
  <2>1. 2 \in 1..2 /\ "verify" \in Places
    BY DEF Places, Checking
  <2> QED
    BY <1>1, <2>1 DEF Run
<1> HIDE DEF r
<1>4. RunInv(r)
  BY <1>1, <1>3 DEF RunInv, Configuring, Checking, Reported
<1> QED
  BY <1>1, <1>2, <1>3, <1>4, PlainSteps DEF DoctorIsReady

\* The record a status is derived from is of the configuration just observed,
\* has time left, and is the latest of those that count.
LEMMA UsableRests ==
  ASSUME ReadinessInv, NEW p \in Procs, proc[p].op = "catalog", proc[p].pc = "judge", Usable(p)
  PROVE  LET e == Latest(Candidates(p))
         IN /\ e \in Candidates(p) /\ e \in evidence /\ e \in Records
            /\ \A s \in Candidates(p) : ~Supersedes(s, e)
            /\ Rests([proc[p] EXCEPT !.pc = "usable", !.outcome = e])
<1>1. PICK x \in Run : x = proc[p] /\ RunInv(x) /\ x.pc = "judge" /\ x.op = "catalog"
  BY DEF ReadinessInv, Typing
<1> DEFINE C == Candidates(p)
           e == Latest(C)
           key == IF x.credential = None THEN None
                  ELSE <<x.profile.revision, x.credential.generation>>
<1>2. C = {s \in evidence : Applicable(s, x.version, x.now, x.receipt, exe, key, x.report)}
  BY <1>1 DEF Candidates, Key, ExecutableFingerprint
<1>3. \A s \in C : s \in evidence /\ s \in Records /\ RecordInv(s) /\ s.observed <= x.now
  BY <1>2 DEF Applicable, StableTarget, ReadinessInv, Typing
<1>4. /\ C # {} /\ x.now \in Nat
      /\ e.result = "passed" /\ Eligible(e, x.now, x.report)
  BY <1>1 DEF Usable, Run
<1>5. e \in C /\ \A s \in C : ~Supersedes(s, e)
  <2>1. \A s \in C : s \in Records /\ s.started <= s.observed /\ s.observed <= x.now
    BY <1>3 DEF RecordInv
  <2> HIDE DEF C
  <2> QED
    BY <1>4, <2>1, LatestIsLast
<1> HIDE DEF C
<1>6. e.key = key
  BY <1>2, <1>4, <1>5 DEF Applicable, TargetsCurrent
<1>7. e \in evidence /\ e \in Records /\ RecordInv(e)
  BY <1>3, <1>5
<1> HIDE DEF e
<1>8. /\ e.credential = x.credential
      /\ OneContract /\ x.credential # None => e.save = x.profile.save
  <2>1. CASE x.credential = None
    BY <1>6, <1>7, <2>1 DEF RecordInv
  <2>2. CASE x.credential # None
    <3>1. /\ x.profile.revision \in Nat /\ x.credential.generation \in Nat
          /\ OneContract => x.profile.revision = x.profile.save
      BY <1>1, <2>2 DEF RunInv, Run, Optional, Numbered, Profiles, Credentials
    <3>2. key \in Nat \X Nat /\ key[1] = x.profile.revision /\ key[2] = x.credential.generation
      BY <2>2, <3>1
    <3>3. e.credential # None
      BY <1>6, <1>7, <3>2, RecordAssumption DEF RecordInv
    <3>4. e.credential.generation = x.credential.generation
      BY <1>6, <1>7, <3>2, <3>3 DEF RecordInv
    <3>5. e.credential \in Known /\ x.credential \in Known
      BY <1>1, <1>7 DEF Known
    <3>6. e.credential = x.credential
      BY <2>2, <3>3, <3>4, <3>5 DEF ReadinessInv, GenerationsAreUnique
    <3> QED
      BY <1>6, <1>7, <3>1, <3>2, <3>3, <3>6 DEF RecordInv
  <2> QED
    BY <2>1, <2>2
<1> DEFINE r == [x EXCEPT !.pc = "usable", !.outcome = e]
<1>9. r.outcome = e /\ r.credential = x.credential /\ r.profile = x.profile /\ r.now = x.now
      /\ r.report = x.report
  BY DEF Run
<1> HIDE DEF r
<1>10. Rests(r)
  BY <1>4, <1>7, <1>8, <1>9 DEF Rests, Eligible
<1> QED
  BY <1>1, <1>5, <1>7, <1>10 DEF C, e, r

LEMMA Deriving == \A p \in Procs : ReadinessInv /\ DeriveStatus(p) => ReadinessInv'
<1> SUFFICES ASSUME NEW p \in Procs, ReadinessInv, DeriveStatus(p) PROVE ReadinessInv'
  OBVIOUS
<1>1. PICK x \in Run : x = proc[p] /\ RunInv(x) /\ x.pc = "judge" /\ x.op = "catalog"
  BY DEF DeriveStatus, At, ReadinessInv, Typing
<1>2. CASE Usable(p)
  <2>1. PICK e \in Records : /\ e = Latest(Candidates(p))
                             /\ Rests([x EXCEPT !.pc = "usable", !.outcome = e])
    BY <1>1, <1>2, UsableRests
  <2> DEFINE r == [x EXCEPT !.pc = "usable", !.outcome = e]
  <2>2. proc' = [proc EXCEPT ![p] = r]
    BY <1>1, <1>2, <2>1 DEF DeriveStatus
  <2>3. r \in Run /\ r.pc = "usable" /\ r.op = x.op /\ r.now = x.now /\ r.version = x.version
        /\ r.environment = x.environment /\ r.credential = x.credential /\ r.profile = x.profile
        /\ r.report = x.report
    BY <1>1 DEF Run, Places, Checking, Reported, Optional
  <2>4. Rests(r)
    BY <2>1
  <2> HIDE DEF r
  <2>5. RunInv(r)
    BY <1>1, <2>3, <2>4 DEF RunInv, Configuring, Checking, Reported, Vouched
  <2> QED
    BY <1>1, <2>2, <2>3, <2>5, PlainSteps DEF DeriveStatus
<1>3. CASE ~Usable(p)
  <2>1. End(p) /\ UNCHANGED <<host, auth, evidence, runs>>
    BY <1>3 DEF DeriveStatus, End
  <2> QED
    BY <1>1, <2>1, Answering
<1> QED
  BY <1>2, <1>3

-----------------------------------------------------------------------------
(* The theorems                                                             *)

LEMMA Stuttering == ReadinessInv /\ UNCHANGED vars => ReadinessInv'
<1> SUFFICES ASSUME ReadinessInv, UNCHANGED vars PROVE ReadinessInv'
  OBVIOUS
<1>1. UNCHANGED <<clock, installed, exe, vault, revoked, profile, lock, saves, evidence, proc,
                  runs, events>>
  BY DEF vars, host, auth
<1>2. Growing
  BY <1>1 DEF Growing, ReadinessInv, Typing, TypeOK
<1>3. ASSUME NEW q \in Procs PROVE RunInv(proc[q])'
  <2>1. PICK y \in Run : y = proc'[q] /\ RunInv(y)
    BY <1>1 DEF ReadinessInv, Typing
  <2>2. RunInv(y)'
    BY <1>2, <2>1, RunStays
  <2> QED
    BY <2>1, <2>2 DEF RunInv
<1>4. Typing' /\ LockDiscipline'
  BY <1>1 DEF ReadinessInv, Typing, TypeOK, LockDiscipline
<1>5. ProfileInv' /\ GenerationsAreUnique'
  BY <1>1 DEF ReadinessInv, ProfileInv, GenerationsAreUnique, Known, Numbered, OneContract
<1>6. \A e \in evidence' : RecordInv(e)'
  BY <1>1 DEF ReadinessInv, RecordInv, OneContract
<1> QED
  BY <1>3, <1>4, <1>5, <1>6 DEF ReadinessInv

LEMMA Steps == ReadinessInv /\ [Next]_vars => ReadinessInv'
<1> SUFFICES ASSUME ReadinessInv, [Next]_vars PROVE ReadinessInv'
  OBVIOUS
<1>1. CASE Environment
  BY <1>1, EnvironmentSteps
<1>2. CASE \E p \in Procs : Start(p) \/ Kill(p)
  BY <1>2, Beginning, Killing
<1>3. ASSUME NEW p \in Procs, Step(p) PROVE ReadinessInv'
  BY <1>3, Bootstrapping, LockingProfile, Saving, Verifying, Loading, Attesting, Judging, Running,
     Closing, Publishing, Answered, SecondRound, Deriving DEF Step
<1>4. CASE UNCHANGED vars
  BY <1>4, Stuttering
<1> QED
  BY <1>1, <1>2, <1>3, <1>4 DEF Next

\* What the proofs below draw from (internal/readiness): the lock of the profile
\* and the number of its saves, the generations of the credential, what every
\* record says of its run, and what every run has established where it is.
THEOREM ReadinessIsKept == Spec => []ReadinessInv
<1> QED
  BY Initially, Steps, PTL DEF Spec

\* At all times the variables are of their types, the records are whole and every
\* process is at a place of the code.
THEOREM ReadinessTyped == Spec => []Typing
<1>1. ReadinessInv => Typing
  BY DEF ReadinessInv
<1> QED
  BY <1>1, ReadinessIsKept, PTL

\* saveProfile, readiness.go:1401-1421: the flock is held exactly by the process
\* that is about to save, which still knows the profile as it is.
THEOREM ProfileLockIsHeld == Spec => []LockDiscipline
<1>1. ReadinessInv => LockDiscipline
  BY DEF ReadinessInv
<1> QED
  BY <1>1, ReadinessIsKept, PTL

\* However many processes save profiles, and wherever they are killed, the
\* revision of a binding that keeps its name counts the saves.
THEOREM RevisionsCountSaves == Spec => []RevisionCountsSaves
<1>1. ReadinessInv => RevisionCountsSaves
  BY DEF ReadinessInv, ProfileInv, Numbered, RevisionCountsSaves
<1> QED
  BY <1>1, ReadinessIsKept, PTL

\* A record of success was made before its own deadline, and that is not after
\* the credential's end, however long the command took.
THEOREM SuccessesPassedInTime == Spec => []PassedInTime
<1>1. ReadinessInv => PassedInTime
  BY DEF ReadinessInv, RecordInv, PassedInTime
<1> QED
  BY <1>1, ReadinessIsKept, PTL

\* What holds of a process that is about to answer usable-now.
LEMMA UsableFacts ==
  ASSUME ReadinessInv, NEW p \in Procs, UsableIn(p)
  PROVE  /\ proc[p] \in Run /\ Rests(proc[p]) /\ RecordInv(proc[p].outcome)
         /\ proc[p].outcome \in Records
         /\ proc[p].report \in Reports
         /\ proc[p].credential = None => proc[p].profile = None
         /\ proc[p].credential # None => proc[p].profile \in Profiles /\ Vouched(proc[p])
<1>1. PICK x \in Run : x = proc[p] /\ RunInv(x) /\ x.pc = "usable" /\ x.op = "catalog"
  BY DEF UsableIn, At, ReadinessInv, Typing
<1> QED
  BY <1>1 DEF RunInv, Reported, Rests, ReadinessInv, Typing

\* usable-now is only said on evidence that has time left at the instant the
\* catalog was asked.
THEOREM UsableIsInTime == Spec => []UsableInTime
<1>1. ReadinessInv => UsableInTime
  BY UsableFacts DEF UsableInTime, Rests
<1> QED
  BY <1>1, ReadinessIsKept, PTL

\* A credential that is reported usable had not ended, and had not been revoked,
\* when the catalog was asked; a revocation since then bears a later instant.
THEOREM UsableCredentialLives == Spec => []UsableNeedsLiveCredential
<1>1. ReadinessInv => UsableNeedsLiveCredential
  <2> SUFFICES ASSUME ReadinessInv, NEW p \in Procs, UsableIn(p), proc[p].outcome.credential # None
               PROVE  LET c == proc[p].outcome.credential
                      IN /\ proc[p].now < c.until
                         /\ \A r \in revoked : r.generation = c.generation => proc[p].now <= r.at
    BY DEF UsableNeedsLiveCredential
  <2>1. PICK x \in Run : /\ x = proc[p] /\ Rests(x) /\ x.report \in Reports
                         /\ x.outcome \in Records
                         /\ x.credential # None => Vouched(x)
    BY UsableFacts
  <2>2. x.credential # None /\ x.outcome.credential = x.credential
    BY <2>1 DEF Rests
  <2>3. /\ x.now < x.outcome.expires /\ x.outcome.expires <= x.report.until
        /\ x.report.until <= x.credential.until
        /\ 0 < x.report.until =>
             \A v \in revoked : v.generation = x.credential.generation => x.now <= v.at
    BY <2>1, <2>2 DEF Rests, Vouched
  <2>4. /\ x.now \in Nat /\ x.outcome.expires \in Nat /\ x.report.until \in Nat
        /\ x.credential.until \in Nat
    BY <2>1, <2>2 DEF Run, Records, Reports, Credentials, Optional
  <2> QED
    BY <2>1, <2>2, <2>3, <2>4
<1> QED
  BY <1>1, ReadinessIsKept, PTL

\* Where a binding keeps its name, usable-now rests on a run under the very save
\* of the profile and the very credential that the provider has just answered
\* for.
THEOREM UsableRestsOnItsConfiguration ==
  ASSUME OneContract
  PROVE  Spec => []UsableIsThisConfiguration
<1>1. ReadinessInv => UsableIsThisConfiguration
  <2> SUFFICES ASSUME ReadinessInv, NEW p \in Procs, UsableIn(p)
               PROVE  LET e == proc[p].outcome
                      IN /\ e.credential = proc[p].credential
                         /\ e.save = IF proc[p].profile = None THEN 0 ELSE proc[p].profile.save
    BY DEF UsableIsThisConfiguration
  <2>1. PICK x \in Run : /\ x = proc[p] /\ Rests(x) /\ RecordInv(x.outcome)
                         /\ x.credential = None => x.profile = None
                         /\ x.credential # None => x.profile \in Profiles
    BY UsableFacts
  <2>2. CASE x.credential = None
    BY <2>1, <2>2 DEF Rests, RecordInv
  <2>3. CASE x.credential # None
    BY <2>1, <2>3, RecordAssumption DEF Rests
  <2> QED
    BY <2>2, <2>3
<1> QED
  BY <1>1, ReadinessIsKept, PTL

\* Only the derivation of a status makes a run one that answers usable-now.
LEMMA OnlyDerived ==
  ASSUME ReadinessInv, [Next]_vars, NEW p \in Procs, UsableIn(p)', ~UsableIn(p)
  PROVE  /\ proc[p].op = "catalog" /\ proc[p].pc = "judge" /\ Usable(p)
         /\ proc'[p] = [proc[p] EXCEPT !.pc = "usable", !.outcome = Latest(Candidates(p))]
<1>1. proc'[p].pc = "usable" /\ proc'[p].op = "catalog" /\ proc'[p] # proc[p]
  BY DEF UsableIn, At
<1>2. PICK x \in Run : x = proc[p]
  BY DEF ReadinessInv, Typing
<1>3. \A q, y : proc' = [proc EXCEPT ![q] = y] => q = p /\ proc'[p] = y /\ y.pc = "usable"
  BY <1>1 DEF ReadinessInv, Typing
<1>4. ~Environment /\ ~UNCHANGED vars
  BY <1>1 DEF Environment, Install, Alter, ReplaceExecutable, Revoke, Tick, Rotate, vars
<1>5. PICK q \in Procs : Start(q) \/ Step(q) \/ Kill(q)
  BY <1>4 DEF Next
<1>6. Idle.pc # "usable"
  BY DEF Idle
<1>7. ASSUME End(q) PROVE FALSE
  <2> HIDE DEF Idle
  <2> QED
    BY <1>3, <1>6, <1>7 DEF End
<1>8. ~Start(q) /\ ~Kill(q)
  <2>1. ASSUME NEW op, NEW pc \in {"bootstrap", "verify"}, Begin(q, op, pc) PROVE FALSE
    <3>1. PICK version \in Versions :
            proc' = [proc EXCEPT ![q] = [Idle EXCEPT !.op = op, !.pc = pc, !.now = clock,
                                           !.environment = vault, !.version = version]]
      BY <2>1 DEF Begin
    <3>2. [Idle EXCEPT !.op = op, !.pc = pc, !.now = clock, !.environment = vault,
                       !.version = version].pc = pc
      BY DEF Idle
    <3> HIDE DEF Idle
    <3> QED
      BY <1>3, <3>1, <3>2
  <2> QED
    BY <1>7, <2>1 DEF Start, BeginConfigure, BeginSmoke, BeginCatalog, Kill
<1>9. ASSUME NEW result, Observed(q, result) PROVE FALSE
  <2>1. proc' = [proc EXCEPT ![q] = [proc[q] EXCEPT !.pc = "publish",
                                                    !.outcome = RecordOf(q, result, clock)]]
    BY <1>9 DEF Observed
  <2>2. [proc[q] EXCEPT !.pc = "publish", !.outcome = RecordOf(q, result, clock)].pc = "publish"
    BY DEF ReadinessInv, Typing, Run
  <2> QED
    BY <1>3, <2>1, <2>2
<1>10. DeriveStatus(q)
  <2>1. proc \in [Procs -> Run]
    BY DEF ReadinessInv, Typing
  <2>2. ASSUME NEW place, place # "usable",
               \/ \E c : proc' = [proc EXCEPT ![q].pc = place, ![q].profile = c]
               \/ \E c : proc' = [proc EXCEPT ![q].pc = place, ![q].previous = c]
               \/ \E c, d : proc' = [proc EXCEPT ![q].pc = place, ![q].receipt = c, ![q].exe = d]
               \/ \E c : proc' = [proc EXCEPT ![q].pc = place, ![q].report = c]
               \/ \E c : proc' = [proc EXCEPT ![q].pc = place, ![q].ran = c]
               \/ \E c : proc' = [proc EXCEPT ![q].pc = place, ![q].round = c]
               \/ proc' = [proc EXCEPT ![q].pc = place]
        PROVE  FALSE
    <3> DEFINE Led == proc'[q].pc = place /\ \A o \in Procs \ {q} : proc'[o] = proc[o]
    <3>1. \A c : proc' = [proc EXCEPT ![q].pc = place, ![q].profile = c] => Led
      BY <2>1 DEF Run
    <3>2. \A c : proc' = [proc EXCEPT ![q].pc = place, ![q].previous = c] => Led
      BY <2>1 DEF Run
    <3>3. \A c, d : proc' = [proc EXCEPT ![q].pc = place, ![q].receipt = c, ![q].exe = d] => Led
      BY <2>1 DEF Run
    <3>4. \A c : proc' = [proc EXCEPT ![q].pc = place, ![q].report = c] => Led
      BY <2>1 DEF Run
    <3>5. \A c : proc' = [proc EXCEPT ![q].pc = place, ![q].ran = c] => Led
      BY <2>1 DEF Run
    <3>6. \A c : proc' = [proc EXCEPT ![q].pc = place, ![q].round = c] => Led
      BY <2>1 DEF Run
    <3>7. proc' = [proc EXCEPT ![q].pc = place] => Led
      BY <2>1 DEF Run
    <3>8. Led
      BY <2>2, <3>1, <3>2, <3>3, <3>4, <3>5, <3>6, <3>7
    <3> QED
      BY <1>1, <2>2, <3>8
  <2>3. /\ ~SaveProfile(q) /\ ~BootstrapFails(q) /\ ~PublishRecord(q)
        /\ ~DoctorAnswers(q) /\ ~Answer(q)
    BY <1>7 DEF SaveProfile, BootstrapFails, PublishRecord, DoctorAnswers, Answer
  <2>4. ~SmokeFails(q) /\ ~CloseSmoke(q)
    BY <1>9 DEF SmokeFails, CloseSmoke
  <2>5. ~VerifySmoke(q) /\ ~VerifyCatalog(q) /\ ~JudgeSmoke(q)
    BY <1>7, <1>9, <2>2 DEF VerifySmoke, VerifyCatalog, JudgeSmoke
  <2>6. \A account \in Accounts : ~Bootstrap(q, account)
    BY <2>2 DEF Bootstrap
  <2>7. ~LockProfile(q) /\ ~RunSmoke(q) /\ ~DoctorIsReady(q) /\ ~Observe(q)
    BY <2>2 DEF LockProfile, RunSmoke, DoctorIsReady, Observe
  <2>8. ~Load(q)
    <3>1. \A place, round, answer, f, c :
            [proc[q] EXCEPT !.pc = place, !.round = round, !.report = answer,
                            !.profile = f, !.credential = c].pc = place
      BY <2>1 DEF Run
    <3>2. LoadProfile(q, proc[q].round).pc \in {"observe", "judge"}
      BY <3>1 DEF LoadProfile
    <3> QED
      BY <1>3, <3>2 DEF Load
  <2> QED
    BY <1>5, <1>8, <2>3, <2>4, <2>5, <2>6, <2>7, <2>8 DEF Step
<1>11. q = p
  BY <1>3, <1>10 DEF DeriveStatus
<1>12. Usable(p)
  BY <1>7, <1>10, <1>11 DEF DeriveStatus, End
<1>13. proc'[p] = [proc[p] EXCEPT !.pc = "usable", !.outcome = Latest(Candidates(p))]
  BY <1>3, <1>10, <1>11, <1>12 DEF DeriveStatus
<1> QED
  BY <1>10, <1>11, <1>12, <1>13 DEF DeriveStatus, At

\* With a failure that was observed later by the time the catalog was asked, no
\* success is reported as usable, whatever the failure had found out about its
\* target.
THEOREM FailuresDemote == Spec => NewerFailureDemotes
<1> DEFINE Demoted ==
      \A p \in Procs : UsableIn(p)' /\ ~UsableIn(p) =>
        ~ \E f \in evidence :
            /\ f.result = "failed" /\ f.version = proc[p].version
            /\ proc'[p].outcome.observed < f.observed /\ f.observed <= proc[p].now
<1>1. ReadinessInv /\ [Next]_vars => Demoted
  <2> SUFFICES ASSUME ReadinessInv, [Next]_vars, NEW p \in Procs, UsableIn(p)', ~UsableIn(p),
                      NEW f \in evidence, f.result = "failed", f.version = proc[p].version,
                      proc'[p].outcome.observed < f.observed, f.observed <= proc[p].now
               PROVE  FALSE
    OBVIOUS
  <2>1. /\ proc[p].op = "catalog" /\ proc[p].pc = "judge" /\ Usable(p)
        /\ proc'[p] = [proc[p] EXCEPT !.pc = "usable", !.outcome = Latest(Candidates(p))]
    BY OnlyDerived
  <2>2. /\ Latest(Candidates(p)) \in Records
        /\ \A s \in Candidates(p) : ~Supersedes(s, Latest(Candidates(p)))
    BY <2>1, UsableRests
  <2>3. proc'[p].outcome = Latest(Candidates(p))
    BY <2>1 DEF ReadinessInv, Typing, Run
  <2>4. f \in Candidates(p)
    BY DEF Candidates, Applicable, StableTarget
  <2> QED
    BY <2>2, <2>3, <2>4 DEF Supersedes
<1> QED
  BY <1>1, ReadinessIsKept, PTL DEF Spec, NewerFailureDemotes

-----------------------------------------------------------------------------
(* Compositions of any capabilities and results                             *)

Wanted(C, S) == [capability : C, source : S, required : BOOLEAN]
Returned(C, S, T) == [capability : C, source : S, required : BOOLEAN, status : T, observed : Nat, until : Nat]

LEMMA Members ==
  ASSUME NEW A, NEW s \in Seq(A)
  PROVE  /\ DOMAIN s = 1..Len(s) /\ Len(s) \in Nat
         /\ ToSet(s) = {s[i] : i \in DOMAIN s} /\ ToSet(s) \subseteq A
  BY DEF ToSet

\* Of one expectation for each capability, the one that counts is it.
LEMMA OneExpectation ==
  ASSUME NEW A, NEW expected \in Seq(A), Distinct(expected, Capability), NEW i \in DOMAIN expected
  PROVE  Expectation(expected, expected[i].capability) = expected[i]
<1> DEFINE at == Naming(expected, expected[i].capability)
<1>1. DOMAIN expected \subseteq Nat
  BY Members
<1>2. \A j \in at : j = i
  BY DEF Naming, Distinct, Capability
<1>3. i \in at
  BY DEF Naming
<1>4. Min(at) = i
  BY <1>1, <1>2, <1>3 DEF Min
<1> QED
  BY <1>4 DEF Expectation

\* The instants of a composition are the earliest ones of its valid results.
LEMMA Earliest ==
  ASSUME NEW instants, instants \subseteq Nat, NEW n \in instants
  PROVE  Minimum(instants) <= n
<1>1. \E m \in instants : \A k \in instants : m <= k
  BY LeastNatural
<1>2. Min(instants) \in instants /\ \A k \in instants : Min(instants) <= k
  BY <1>1 DEF Min
<1> QED
  BY <1>2 DEF Minimum

\* Success leaves nothing else that could have been said.
LEMMA SuccessExcludes ==
  ASSUME NEW expected, NEW results, ComposedStatus(expected, results) = "success"
  PROVE  /\ Distinct(expected, Capability) /\ Distinct(results, Capability)
         /\ \A r \in ToSet(results) : AsExpected(r, expected) /\ Valid(r) /\ r.status = "success"
         /\ Missing(expected, results) = {}
<1> DEFINE failed == {r \in ToSet(results) : ~Valid(r) \/ r.status \in {"unavailable", "failed"}}
<1>1. \A r \in ToSet(results) : ~(Valid(r) /\ r.status = "cancelled")
  BY DEF ComposedStatus
<1>2. /\ Distinct(expected, Capability) /\ Distinct(results, Capability)
      /\ \A r \in ToSet(results) : AsExpected(r, expected)
  BY DEF ComposedStatus
<1>3. Missing(expected, results) = {}
  BY DEF ComposedStatus
<1>4. failed = {}
  BY DEF ComposedStatus
<1>5. \A r \in ToSet(results) : Valid(r) /\ r.status \notin {"unavailable", "failed"}
  BY <1>4
<1>6. \A r \in ToSet(results) : r.status = "success"
  BY <1>1, <1>5 DEF Valid
<1> QED
  BY <1>2, <1>3, <1>5, <1>6

\* What a composed success says of the results, and of the order they come in.
SuccessEarned(expected, results) ==
  Composed(expected, results).status = "success" =>
    /\ \A i \in DOMAIN expected : expected[i].required =>
         \E j \in DOMAIN results :
           /\ results[j].capability = expected[i].capability
           /\ results[j].status = "success" /\ 0 < results[j].observed /\ results[j].observed < results[j].until
           /\ \A k \in DOMAIN results : results[k].capability = expected[i].capability => k = j
    /\ \A j \in DOMAIN results :
         /\ results[j].status = "success" /\ Composed(expected, results).until <= results[j].until
         /\ \E i \in DOMAIN expected : /\ expected[i].capability = results[j].capability
                                       /\ expected[i].required = results[j].required

Reversed(results) == [i \in DOMAIN results |-> results[Len(results) + 1 - i]]

LEMMA SuccessIsEarned ==
  ASSUME NEW C, NEW S, NEW T, NEW expected \in Seq(Wanted(C, S)), NEW results \in Seq(Returned(C, S, T))
  PROVE  SuccessEarned(expected, results)
<1> SUFFICES ASSUME Composed(expected, results).status = "success" PROVE SuccessEarned(expected, results)
  BY DEF SuccessEarned
<1>1. /\ Distinct(expected, Capability) /\ Distinct(results, Capability)
      /\ \A r \in ToSet(results) : AsExpected(r, expected) /\ Valid(r) /\ r.status = "success"
      /\ Missing(expected, results) = {}
  BY SuccessExcludes DEF Composed
<1>2. /\ \A i \in DOMAIN expected : expected[i] \in ToSet(expected)
      /\ \A j \in DOMAIN results : results[j] \in ToSet(results) /\ results[j] \in Returned(C, S, T)
      /\ \A r \in ToSet(results) : r \in Returned(C, S, T) /\ \E j \in DOMAIN results : r = results[j]
  BY Members
<1>3. ASSUME NEW i \in DOMAIN expected, expected[i].required
      PROVE  \E j \in DOMAIN results :
               /\ results[j].capability = expected[i].capability
               /\ results[j].status = "success" /\ 0 < results[j].observed /\ results[j].observed < results[j].until
               /\ \A k \in DOMAIN results : results[k].capability = expected[i].capability => k = j
  <2>1. expected[i] = Expectation(expected, expected[i].capability)
    BY <1>1, OneExpectation
  <2>2. PICK r \in ToSet(results) : r.capability = expected[i].capability
    BY <1>1, <1>2, <1>3, <2>1 DEF Missing
  <2>3. PICK j \in DOMAIN results : r = results[j]
    BY <1>2
  <2>4. results[j].status = "success" /\ 0 < results[j].observed /\ results[j].observed < results[j].until
    BY <1>1, <2>3 DEF Valid, Timely
  <2>5. \A k \in DOMAIN results : results[k].capability = expected[i].capability => k = j
    BY <1>1, <2>2, <2>3 DEF Distinct, Capability
  <2> QED
    BY <2>2, <2>3, <2>4, <2>5
<1>4. ASSUME NEW j \in DOMAIN results
      PROVE  /\ results[j].status = "success" /\ Composed(expected, results).until <= results[j].until
             /\ \E i \in DOMAIN expected : /\ expected[i].capability = results[j].capability
                                           /\ expected[i].required = results[j].required
  <2> DEFINE instants == {r.until : r \in {x \in ToSet(results) : Valid(x)}}
  <2>1. results[j].until \in instants /\ instants \subseteq Nat
    BY <1>1, <1>2 DEF Returned
  <2>2. Composed(expected, results).until = Minimum(instants)
    BY DEF Composed
  <2>3. Minimum(instants) <= results[j].until
    BY <2>1, Earliest
  <2>4. AsExpected(results[j], expected) /\ results[j].status = "success"
    BY <1>1, <1>2
  <2>5. PICK i \in DOMAIN expected : expected[i].capability = results[j].capability
    BY <2>4 DEF AsExpected, Naming
  <2>6. Expectation(expected, results[j].capability) = expected[i]
    BY <1>1, <2>5, OneExpectation
  <2>7. expected[i].required = results[j].required
    BY <2>4, <2>6 DEF AsExpected
  <2> QED
    BY <2>2, <2>3, <2>4, <2>5, <2>7
<1> QED
  BY <1>3, <1>4 DEF SuccessEarned

\* The order in which results come does not matter.
LEMMA OrderIsIrrelevant ==
  ASSUME NEW C, NEW S, NEW T, NEW expected, NEW results \in Seq(Returned(C, S, T))
  PROVE  Composed(expected, Reversed(results)) = Composed(expected, results)
<1> DEFINE n == Len(results)
           rev == Reversed(results)
<1>1. DOMAIN results = 1..n /\ n \in Nat /\ DOMAIN rev = 1..n
  BY Members DEF Reversed
<1>2. \A i \in 1..n : n + 1 - i \in 1..n /\ n + 1 - (n + 1 - i) = i
  BY <1>1
<1>3. \A i \in 1..n : rev[i] = results[n + 1 - i] /\ results[i] = rev[n + 1 - i]
  BY <1>1, <1>2 DEF Reversed
<1> HIDE DEF rev
<1>4. ToSet(rev) = ToSet(results)
  BY <1>1, <1>2, <1>3 DEF ToSet
<1>5. Distinct(rev, Capability) <=> Distinct(results, Capability)
  <2>1. ASSUME Distinct(results, Capability), NEW i \in 1..n, NEW j \in 1..n, rev[i].capability = rev[j].capability
        PROVE  i = j
    <3>1. n + 1 - i = n + 1 - j
      BY <1>1, <1>2, <1>3, <2>1 DEF Distinct, Capability
    <3> QED
      BY <1>1, <3>1
  <2>2. ASSUME Distinct(rev, Capability), NEW i \in 1..n, NEW j \in 1..n, results[i].capability = results[j].capability
        PROVE  i = j
    <3>1. n + 1 - i = n + 1 - j
      BY <1>1, <1>2, <1>3, <2>2 DEF Distinct, Capability
    <3> QED
      BY <1>1, <3>1
  <2> QED
    BY <1>1, <2>1, <2>2 DEF Distinct, Capability
<1>6. Missing(expected, rev) = Missing(expected, results)
  BY <1>4 DEF Missing
<1>7. ComposedStatus(expected, rev) = ComposedStatus(expected, results)
  BY <1>4, <1>5, <1>6 DEF ComposedStatus
<1>8. Composed(expected, rev) = Composed(expected, results)
  BY <1>4, <1>7 DEF Composed
<1> QED
  BY <1>8 DEF rev

\* Whatever capabilities an orchestration expects and whatever results come,
\* in whatever order: success is backed by one valid success for every required
\* capability and lasts no longer than any of them, and a valid cancellation is
\* never hidden (ComposeCapabilityResults).
THEOREM CompositionsAreAccountable ==
  ASSUME NEW C, NEW S, NEW T,
         question \in [kind : {"composition"}, expected : Seq(Wanted(C, S)), results : Seq(Returned(C, S, T))]
  PROVE  CompositionIsAccountable
<1> DEFINE expected == question.expected
           results == question.results
<1>1. expected \in Seq(Wanted(C, S)) /\ results \in Seq(Returned(C, S, T))
  OBVIOUS
<1>2. ASSUME NEW j \in DOMAIN results, results[j].status = "cancelled",
             0 < results[j].observed, results[j].observed < results[j].until
      PROVE  Composed(expected, results).status = "cancelled"
  <2>1. results[j] \in ToSet(results) /\ Valid(results[j])
    BY <1>1, <1>2, Members DEF Valid, Timely
  <2> QED
    BY <1>2, <2>1 DEF Composed, ComposedStatus
<1>3. SuccessEarned(expected, results)
  BY <1>1, SuccessIsEarned
<1>4. Composed(expected, Reversed(results)) = Composed(expected, results)
  BY <1>1, OrderIsIrrelevant
<1> QED
  BY <1>2, <1>3, <1>4 DEF CompositionIsAccountable, SuccessEarned, Reversed

-----------------------------------------------------------------------------
(* Composite evidence over any tools                                        *)

Declared(T, A) == [tool : T, requirement : {"required", "optional"}, access : A]
Current(G) == [target : G, observed : Nat \ {0}, expires : Nat]

\* As many tools as there are entries: each is named once.
LEMMA DistinctTools ==
  ASSUME NEW D, NEW s \in Seq(D)
  PROVE  /\ IsFiniteSet(ToolsOf(s))
         /\ Distinct(s, ToolOf) <=> Cardinality(ToolsOf(s)) = Len(s)
<1> DEFINE f == [i \in 1..Len(s) |-> s[i].tool]
<1>1. DOMAIN s = 1..Len(s) /\ Len(s) \in Nat
  OBVIOUS
<1>2. IsFiniteSet(1..Len(s)) /\ Cardinality(1..Len(s)) = Len(s)
  BY <1>1, FS_Interval
<1>3. f \in Surjection(1..Len(s), ToolsOf(s))
  BY <1>1 DEF Surjection, ToolsOf
<1>4. /\ IsFiniteSet(ToolsOf(s))
      /\ Cardinality(ToolsOf(s)) = Cardinality(1..Len(s)) <=> f \in Injection(1..Len(s), ToolsOf(s))
  BY <1>2, <1>3, FS_Surjection
<1>5. f \in Injection(1..Len(s), ToolsOf(s)) <=> Distinct(s, ToolOf)
  BY <1>1, <1>3 DEF Injection, IsInjective, Surjection, Distinct, ToolOf
<1> QED
  BY <1>2, <1>4, <1>5

\* As many distinct observations as declarations, each of a declared tool:
\* every declared tool is observed.
LEMMA AllAreObserved ==
  ASSUME NEW D, NEW O, NEW declared \in Seq(D), NEW providers \in Seq(O),
         Distinct(declared, ToolOf), Distinct(providers, ToolOf), Len(providers) = Len(declared),
         \A i \in DOMAIN providers : providers[i].tool \in ToolsOf(declared)
  PROVE  ToolsOf(providers) = ToolsOf(declared)
<1>1. /\ IsFiniteSet(ToolsOf(declared)) /\ IsFiniteSet(ToolsOf(providers))
      /\ Cardinality(ToolsOf(declared)) = Cardinality(ToolsOf(providers))
  BY DistinctTools
<1>2. ToolsOf(providers) \in SUBSET ToolsOf(declared)
  BY DEF ToolsOf
<1> QED
  BY <1>1, <1>2, FS_Subset

LEMMA OneDeclaration ==
  ASSUME NEW D, NEW declared \in Seq(D), Distinct(declared, ToolOf), NEW i \in DOMAIN declared
  PROVE  DeclarationOf(declared, declared[i].tool) = declared[i]
  BY DEF DeclarationOf, Distinct, ToolOf

\* What is accepted vouches for what it says it covers.
VouchedFor(e, declared, expected) ==
  LET tools == {declared[i].tool : i \in DOMAIN declared}
      required == {declared[i].tool : i \in {j \in DOMAIN declared : declared[j].requirement = "required"}}
      Lasting(t) == t \in DOMAIN expected /\ expected[t].observed <= Instant /\ Instant < expected[t].expires
      Covered(t) == Lasting(t) /\ expected[t].observed <= e.observed /\ e.expires <= expected[t].expires
  IN  /\ e.installation = "this" /\ Cardinality(tools) = Len(declared)
      /\ e.result = "passed" => \A t \in required : Covered(t)
      /\ e.coverage = "complete" => \A t \in tools : Covered(t)
      /\ e.promotion => e.coverage = "complete"

LEMMA AcceptedIsVouched ==
  ASSUME NEW T, NEW A, NEW O, NEW declared \in Seq(Declared(T, A)), NEW expected, NEW e,
         e.providers \in Seq(O), EvidenceIsValid(e, "this", declared, expected, Instant)
  PROVE  VouchedFor(e, declared, expected)
<1> DEFINE Covered(t) == /\ t \in DOMAIN expected
                         /\ expected[t].observed <= Instant /\ Instant < expected[t].expires
                         /\ expected[t].observed <= e.observed /\ e.expires <= expected[t].expires
<1>1. /\ Distinct(declared, ToolOf) /\ Distinct(e.providers, ToolOf)
      /\ Len(e.providers) = Len(declared)
      /\ \A i \in DOMAIN e.providers :
           /\ e.providers[i].tool \in ToolsOf(declared)
           /\ e.providers[i].requirement = DeclarationOf(declared, e.providers[i].tool).requirement
  BY DEF EvidenceIsValid, CoversDeclarations
<1>2. ToolsOf(e.providers) = ToolsOf(declared)
  BY <1>1, AllAreObserved
<1>3. ASSUME NEW i \in DOMAIN declared
      PROVE  \E j \in DOMAIN e.providers : /\ e.providers[j].tool = declared[i].tool
                                           /\ e.providers[j].requirement = declared[i].requirement
  <2>1. declared[i].tool \in ToolsOf(declared)
    BY DEF ToolsOf
  <2>2. PICK j \in DOMAIN e.providers : e.providers[j].tool = declared[i].tool
    BY <1>2, <2>1 DEF ToolsOf
  <2>3. e.providers[j].requirement = declared[i].requirement
    BY <1>1, <2>2, OneDeclaration
  <2> QED
    BY <2>2, <2>3
<1>4. ASSUME NEW j \in DOMAIN e.providers, e.providers[j].state = "ready"
      PROVE  Covered(e.providers[j].tool)
  <2> DEFINE o == e.providers[j]
  <2>1. o \in Ready(e)
    BY <1>4 DEF Ready
  <2>2. Bound(o, expected, Instant)
    BY <2>1 DEF EvidenceIsValid
  <2>3. /\ o.tool \in DOMAIN expected
        /\ expected[o.tool].observed = o.observed /\ expected[o.tool].expires = o.expires
        /\ o.observed <= Instant /\ Instant < o.expires
    BY <2>2 DEF Bound
  <2>4. o.observed <= e.observed /\ e.expires <= o.expires
    BY <2>1 DEF EvidenceIsValid, Chronology
  <2> QED
    BY <2>3, <2>4
<1>5. e.coverage = Coverage(MissingOf(e)) /\ e.result = ResultOf(e.coverage)
  BY DEF EvidenceIsValid
<1>6. ASSUME NEW i \in DOMAIN declared, declared[i].requirement \notin MissingOf(e)
      PROVE  Covered(declared[i].tool)
  <2>1. PICK j \in DOMAIN e.providers : /\ e.providers[j].tool = declared[i].tool
                                        /\ e.providers[j].requirement = declared[i].requirement
    BY <1>3
  <2>2. e.providers[j].state = "ready"
    BY <1>6, <2>1 DEF MissingOf
  <2> QED
    BY <1>4, <2>1, <2>2
<1>7. ASSUME e.result = "passed", NEW i \in DOMAIN declared, declared[i].requirement = "required"
      PROVE  Covered(declared[i].tool)
  <2>1. "required" \notin MissingOf(e)
    BY <1>5, <1>7 DEF Coverage, ResultOf
  <2> QED
    BY <1>6, <1>7, <2>1
<1>8. ASSUME e.coverage = "complete", NEW i \in DOMAIN declared
      PROVE  Covered(declared[i].tool)
  <2>1. "required" \notin MissingOf(e) /\ "optional" \notin MissingOf(e)
    BY <1>5, <1>8 DEF Coverage
  <2>2. declared[i] \in Declared(T, A)
    OBVIOUS
  <2>3. declared[i].requirement \in {"required", "optional"}
    BY <2>2 DEF Declared
  <2> QED
    BY <1>6, <2>1, <2>3
<1>9. Cardinality(ToolsOf(declared)) = Len(declared)
  BY <1>1, DistinctTools
<1>10. e.installation = "this" /\ (e.promotion => e.coverage = "complete")
  BY DEF EvidenceIsValid
<1> HIDE DEF Covered
<1>11. /\ e.result = "passed" =>
            \A t \in {declared[i].tool : i \in {j \in DOMAIN declared : declared[j].requirement = "required"}} : Covered(t)
       /\ e.coverage = "complete" => \A t \in {declared[i].tool : i \in DOMAIN declared} : Covered(t)
  BY <1>7, <1>8
<1> QED
  BY <1>9, <1>10, <1>11 DEF VouchedFor, Covered, ToolsOf

\* The latest of instants up to now, and the earliest of any.
LEMMA LatestOf ==
  ASSUME NEW instants, instants # {}, instants \subseteq Nat, NEW now \in Nat, \A n \in instants : n <= now
  PROVE  Max(instants) \in instants /\ \A n \in instants : n <= Max(instants)
<1> DEFINE gaps == {now - n : n \in instants}
<1>0. \A n \in instants : n \in Nat /\ now - n \in Nat
  OBVIOUS
<1>1. gaps \subseteq Nat /\ gaps # {}
  BY <1>0
<1>2. PICK g \in gaps : \A h \in gaps : g <= h
  BY <1>1, LeastNatural
<1>3. PICK n \in instants : g = now - n
  BY <1>2
<1>4. \A m \in instants : now - m \in gaps /\ g <= now - m
  BY <1>2
<1>5. \A m \in instants : n >= m
  BY <1>3, <1>4
<1>6. Max(instants) \in instants /\ \A m \in instants : Max(instants) >= m
  BY <1>5 DEF Max
<1> QED
  BY <1>6

LEMMA EarliestOf ==
  ASSUME NEW instants, instants # {}, instants \subseteq Nat
  PROVE  Min(instants) \in instants /\ \A n \in instants : Min(instants) <= n
<1>1. \E m \in instants : \A k \in instants : m <= k
  BY LeastNatural
<1> QED
  BY <1>1 DEF Min

\* What a receipt that tells what is there looks like, observation by observation.
LEMMA HonestShape ==
  ASSUME NEW T, NEW A, NEW declared \in Seq(Declared(T, A)), NEW expected, NEW unavailable
  PROVE  LET e == HonestReceipt(declared, expected, unavailable)
         IN  /\ DOMAIN e.providers = DOMAIN declared /\ Len(e.providers) = Len(declared)
             /\ \A i \in DOMAIN declared : 
                  e.providers[i] = ObservationOf(declared[i], expected, unavailable)
             /\ ToolsOf(e.providers) = ToolsOf(declared)
             /\ Ready(e) = {ObservationOf(declared[i], expected, unavailable) :
                              i \in {j \in DOMAIN declared : declared[j].tool \notin unavailable}}
             /\ MissingOf(e) = {declared[i].requirement : i \in {j \in DOMAIN declared : declared[j].tool \in unavailable}}
             /\ e.fingerprint = Fingerprint(Ready(e))
<1> DEFINE e == HonestReceipt(declared, expected, unavailable)
           providers == [i \in DOMAIN declared |-> ObservationOf(declared[i], expected, unavailable)]
<1>1. DOMAIN declared = 1..Len(declared) /\ Len(declared) \in Nat
  OBVIOUS
<1>2. e.providers = providers
  BY DEF HonestReceipt
<1>3. DOMAIN providers = DOMAIN declared
  OBVIOUS
<1>4. Len(providers) = Len(declared)
  BY <1>1
<1>5. \A i \in DOMAIN declared : providers[i] = ObservationOf(declared[i], expected, unavailable)
  OBVIOUS
<1>6. \A i \in DOMAIN declared :
        /\ providers[i].tool = declared[i].tool /\ providers[i].requirement = declared[i].requirement
        /\ providers[i].state = "ready" <=> declared[i].tool \notin unavailable
  BY DEF ObservationOf
<1>7. ToolsOf(providers) = ToolsOf(declared)
  BY <1>3, <1>6 DEF ToolsOf
<1>8. Ready(e) = {ObservationOf(declared[i], expected, unavailable) :
                    i \in {j \in DOMAIN declared : declared[j].tool \notin unavailable}}
  BY <1>2, <1>3, <1>5, <1>6 DEF Ready
<1>9. MissingOf(e) = {declared[i].requirement : i \in {j \in DOMAIN declared : declared[j].tool \in unavailable}}
  BY <1>2, <1>3, <1>6 DEF MissingOf
<1>10. e.fingerprint = {<<o.tool, o.requirement, o.access, o.target>> :
                          o \in {providers[i] : i \in {j \in DOMAIN providers : providers[j].state = "ready"}}}
  BY DEF HonestReceipt
<1>11. e.fingerprint = Fingerprint(Ready(e))
  BY <1>2, <1>10 DEF Fingerprint, Ready
<1> QED
  BY <1>2, <1>3, <1>4, <1>5, <1>7, <1>8, <1>9, <1>11

\* What reports the current state of current receipts is accepted.
LEMMA HonestIsAccepted ==
  ASSUME NEW T, NEW A, NEW G, NEW S, NEW declared \in Seq(Declared(T, A)), Len(declared) \in 1..16,
         Distinct(declared, ToolOf),
         NEW expected \in [S -> Current(G)], S \subseteq ToolsOf(declared), NEW unavailable,
         \A t \in ToolsOf(declared) \ unavailable :
           t \in S /\ expected[t].observed <= Instant /\ Instant < expected[t].expires
  PROVE  EvidenceIsValid(HonestReceipt(declared, expected, unavailable), "this", declared, expected, Instant)
<1> DEFINE e == HonestReceipt(declared, expected, unavailable)
           Seen(d) == ObservationOf(d, expected, unavailable)
           present == {j \in DOMAIN declared : declared[j].tool \notin unavailable}
           absent == {j \in DOMAIN declared : declared[j].tool \in unavailable}
           lost == {declared[i].requirement : i \in absent}
           tools == ToolsOf(declared) \ unavailable
           observations == {expected[t].observed : t \in tools}
           ends == {expected[t].expires : t \in tools}
<1>1. /\ DOMAIN e.providers = DOMAIN declared /\ Len(e.providers) = Len(declared)
      /\ \A i \in DOMAIN declared : e.providers[i] = Seen(declared[i])
      /\ ToolsOf(e.providers) = ToolsOf(declared)
      /\ Ready(e) = {Seen(declared[i]) : i \in present}
      /\ MissingOf(e) = lost
      /\ e.fingerprint = Fingerprint(Ready(e))
  BY HonestShape
<1>2. /\ e.installation = "this"
      /\ e.coverage = (IF "required" \in lost THEN "unavailable" ELSE IF lost # {} THEN "partial" ELSE "complete")
      /\ e.result = (IF "required" \in lost THEN "failed" ELSE "passed")
      /\ e.promotion = (lost = {})
      /\ e.observed = (IF tools = {} THEN Instant ELSE Max(observations))
      /\ e.expires = (IF tools = {} THEN Instant ELSE Min(ends))
  BY DEF HonestReceipt
<1>3. lost \subseteq {"required", "optional"}
  <2>1. \A i \in DOMAIN declared : declared[i] \in Declared(T, A)
    OBVIOUS
  <2> QED
    BY <2>1 DEF Declared
<1>4. \A t \in tools : /\ t \in S /\ expected[t] \in Current(G)
                        /\ expected[t].observed \in Nat /\ 0 < expected[t].observed /\ expected[t].expires \in Nat
                        /\ expected[t].observed <= Instant /\ Instant < expected[t].expires
  <2>1. ASSUME NEW t \in tools PROVE expected[t] \in Current(G)
    OBVIOUS
  <2> QED
    BY <2>1 DEF Current
<1>5. \A i \in present :
        /\ declared[i].tool \in tools
        /\ Seen(declared[i]).tool = declared[i].tool
        /\ Seen(declared[i]).target = expected[declared[i].tool].target
        /\ Seen(declared[i]).observed = expected[declared[i].tool].observed
        /\ Seen(declared[i]).expires = expected[declared[i].tool].expires
  BY DEF ObservationOf, ToolsOf
<1>6. \A t \in tools : \E i \in present : declared[i].tool = t
  BY DEF ToolsOf
<1> HIDE DEF e, Seen, lost
<1>7. WellFormed(e)
  <2>1. e.result = "failed" => e.coverage = "unavailable"
    BY <1>2
  <2>2. e.promotion => e.result = "passed" /\ e.coverage = "complete"
    BY <1>2
  <2> QED
    BY <1>1, <2>1, <2>2 DEF WellFormed
<1>8. CoversDeclarations(e, declared)
  <2>1. \A i \in DOMAIN declared :
          /\ e.providers[i].tool = declared[i].tool /\ e.providers[i].requirement = declared[i].requirement
          /\ e.providers[i].access = declared[i].access
    <3>1. \A d : Seen(d).tool = d.tool /\ Seen(d).requirement = d.requirement /\ Seen(d).access = d.access
      BY DEF Seen, ObservationOf
    <3> QED
      BY <1>1, <3>1
  <2>2. Distinct(e.providers, ToolOf)
    BY <1>1, <2>1 DEF Distinct, ToolOf
  <2>3. ASSUME NEW i \in DOMAIN e.providers
        PROVE  /\ e.providers[i].tool \in ToolsOf(declared)
               /\ DeclarationOf(declared, e.providers[i].tool) = declared[i]
               /\ e.providers[i].requirement = declared[i].requirement
               /\ e.providers[i].access = declared[i].access
    BY <1>1, <2>1, OneDeclaration DEF ToolsOf
  <2> QED
    BY <1>1, <2>2, <2>3 DEF CoversDeclarations
<1>9. ASSUME NEW o \in Ready(e) PROVE Bound(o, expected, Instant)
  <2>1. PICK i \in present : o = Seen(declared[i])
    BY <1>1
  <2>2. /\ o.tool \in tools /\ o.target = expected[o.tool].target
        /\ o.observed = expected[o.tool].observed /\ o.expires = expected[o.tool].expires
    BY <1>5, <2>1
  <2>3. /\ o.tool \in DOMAIN expected /\ expected[o.tool] \in Current(G)
        /\ 0 < o.observed /\ o.observed <= Instant /\ Instant < o.expires /\ o.observed < o.expires
    BY <1>4, <2>2 DEF Instant
  <2>4. expected[o.tool] = [target |-> o.target, observed |-> o.observed, expires |-> o.expires]
    <3>1. \A r \in Current(G) : r = [target |-> r.target, observed |-> r.observed, expires |-> r.expires]
      BY DEF Current
    <3> QED
      BY <2>2, <2>3, <3>1
  <2> QED
    BY <2>3, <2>4 DEF Bound
<1>10. DOMAIN expected \subseteq ToolsOf(e.providers)
  BY <1>1
<1>11. e.coverage = Coverage(MissingOf(e)) /\ e.result = ResultOf(e.coverage)
  BY <1>1, <1>2, <1>3 DEF Coverage, ResultOf
<1>12. e.promotion => e.coverage = "complete"
  BY <1>7 DEF WellFormed
<1>13. {o.observed : o \in Ready(e)} = observations /\ {o.expires : o \in Ready(e)} = ends
  <2>1. ASSUME NEW o \in Ready(e)
        PROVE  \E t \in tools : o.observed = expected[t].observed /\ o.expires = expected[t].expires
    BY <1>1, <1>5
  <2>2. ASSUME NEW t \in tools
        PROVE  \E o \in Ready(e) : o.observed = expected[t].observed /\ o.expires = expected[t].expires
    BY <1>1, <1>5, <1>6
  <2> HIDE DEF tools
  <2> QED
    BY <2>1, <2>2
<1>14. Ready(e) = {} <=> tools = {}
  BY <1>1, <1>5, <1>6
<1>15. e.observed <= Instant /\ Chronology(e, Ready(e))
  <2>1. CASE tools = {}
    BY <1>2, <1>14, <2>1 DEF Instant, Chronology
  <2>2. CASE tools # {}
    <3>1. /\ observations # {} /\ observations \subseteq Nat /\ \A n \in observations : n <= Instant
          /\ ends # {} /\ ends \subseteq Nat
      BY <1>4, <2>2
    <3>2. Instant \in Nat
      BY DEF Instant
    <3>3. Max(observations) \in observations /\ \A n \in observations : n <= Max(observations)
      BY <3>1, <3>2, LatestOf
    <3>4. Min(ends) \in ends /\ \A n \in ends : Min(ends) <= n
      BY <3>1, EarliestOf
    <3>5. e.observed = Max(observations) /\ e.expires = Min(ends)
      BY <1>2, <2>2
    <3> HIDE DEF observations, ends
    <3>6. \A o \in Ready(e) : o.observed <= e.observed /\ e.expires <= o.expires
      BY <1>13, <3>3, <3>4, <3>5
    <3>7. Ready(e) # {}
      BY <1>14, <2>2
    <3> QED
      BY <1>13, <3>1, <3>3, <3>4, <3>5, <3>6, <3>7 DEF Chronology
  <2> QED
    BY <2>1, <2>2
<1> QED
  BY <1>1, <1>2, <1>7, <1>8, <1>9, <1>10, <1>11, <1>12, <1>15 DEF EvidenceIsValid, e

\* What the plugin reports covers what is not there (CompositeStatus).
ReportedRightly(declared, unavailable, why) ==
  LET report == CompositeStatus(declared, [i \in DOMAIN declared |-> Member(declared[i].tool, unavailable, why)])
      lost == {i \in DOMAIN declared : declared[i].tool \in unavailable}
      required == {i \in lost : declared[i].requirement = "required"}
  IN  /\ report.ready = (required = {}) /\ report.setup = (lost # {})
      /\ report.coverage = (IF required # {} THEN "unavailable"
                             ELSE IF lost # {} THEN "partial" ELSE "complete")

LEMMA MemberIsThere ==
  ASSUME NEW unavailable, NEW why, NEW t \in Providers, t \notin unavailable
  PROVE  LET it == Member(t, unavailable, why)
         IN  /\ it.tool = t /\ it.manifest /\ it.status = "authenticated"
             /\ it.access = IF t = "a" THEN "read-only" ELSE "read-write"
  BY DEF Member

LEMMA MemberIsMissing ==
  ASSUME NEW unavailable, NEW why \in {"absent", "manifest", "access", "status"},
         NEW t \in Providers, t \in unavailable, NEW u \in Providers
  PROVE  LET it == Member(u, unavailable, why)
         IN  ~(/\ it.tool = t /\ it.manifest /\ it.status = "authenticated"
               /\ it.access = IF t = "a" THEN "read-only" ELSE "read-write")
<1> DEFINE it == Member(u, unavailable, why)
<1>1. it.tool \in {u, "x", "y"}
  BY DEF Member
<1>2. CASE u # t
  BY <1>1, <1>2 DEF Providers
<1>3. CASE u = t
  <2>1. CASE why = "absent"
    <3>1. it.tool \in {"x", "y"}
      BY <1>3, <2>1 DEF Member
    <3> QED
      BY <3>1 DEF Providers
  <2>2. CASE why = "manifest"
    BY <1>3, <2>2, ~(t \notin unavailable) DEF Member
  <2>3. CASE why = "access"
    <3>1. it.access = "write-only"
      BY <1>3, <2>3 DEF Member
    <3> QED
      BY <3>1
  <2>4. CASE why = "status"
    <3>1. it.status = "missing"
      BY <1>3, <2>4 DEF Member
    <3> QED
      BY <3>1
  <2> QED
    BY <2>1, <2>2, <2>3, <2>4
<1> QED
  BY <1>2, <1>3

LEMMA StatusCovers ==
  ASSUME NEW declared \in Declarations, Distinct(declared, ToolOf), NEW unavailable,
         NEW why \in {"absent", "manifest", "access", "status"}
  PROVE  ReportedRightly(declared, unavailable, why)
<1> DEFINE closure == [i \in DOMAIN declared |-> Member(declared[i].tool, unavailable, why)]
           report == CompositeStatus(declared, closure)
           lost == {i \in DOMAIN declared : declared[i].tool \in unavailable}
           required == {i \in lost : declared[i].requirement = "required"}
           missing == {declared[i].requirement : i \in {j \in DOMAIN declared : ~ProviderIsReady(declared[j], closure)}}
<1>1. PICK t \in Providers : \E r \in {"required", "optional"} :
        declared = <<[tool |-> "a", requirement |-> "required", access |-> "read-only"],
                     [tool |-> t, requirement |-> r, access |-> "read-write"]>>
  BY DEF Declarations
<1>2. PICK r \in {"required", "optional"} :
        declared = <<[tool |-> "a", requirement |-> "required", access |-> "read-only"],
                     [tool |-> t, requirement |-> r, access |-> "read-write"]>>
  BY <1>1
<1>3. /\ DOMAIN declared = {1, 2} /\ declared # <<>>
      /\ declared[1].tool = "a" /\ declared[1].requirement = "required" /\ declared[1].access = "read-only"
      /\ declared[2].tool = t /\ declared[2].requirement = r /\ declared[2].access = "read-write"
  BY <1>2
<1>4. t = "b"
  BY <1>3 DEF Distinct, ToolOf, Providers
<1>5. /\ DOMAIN closure = {1, 2}
      /\ closure[1] = Member("a", unavailable, why) /\ closure[2] = Member("b", unavailable, why)
  BY <1>3, <1>4
<1> HIDE DEF closure
<1>6. Distinct(closure, ToolOf)
  BY <1>5 DEF Distinct, ToolOf, Member
<1>7. ProviderIsReady(declared[1], closure) <=> "a" \notin unavailable
  <2>1. CASE "a" \in unavailable
    BY <1>3, <1>5, <2>1, MemberIsMissing DEF ProviderIsReady, Providers
  <2>2. CASE "a" \notin unavailable
    BY <1>3, <1>5, <2>2, MemberIsThere DEF ProviderIsReady, Providers
  <2> QED
    BY <2>1, <2>2
<1>8. ProviderIsReady(declared[2], closure) <=> "b" \notin unavailable
  <2>1. CASE "b" \in unavailable
    BY <1>3, <1>4, <1>5, <2>1, MemberIsMissing DEF ProviderIsReady, Providers
  <2>2. CASE "b" \notin unavailable
    BY <1>3, <1>4, <1>5, <2>2, MemberIsThere DEF ProviderIsReady, Providers
  <2> QED
    BY <2>1, <2>2
<1>9. missing = {declared[i].requirement : i \in lost}
  BY <1>3, <1>4, <1>7, <1>8
<1>10. \A i \in lost : declared[i].requirement \in {"required", "optional"}
  BY <1>3
<1>11. report = [coverage |-> Coverage(missing), ready |-> "required" \notin missing, setup |-> missing # {}]
  BY <1>3, <1>6 DEF CompositeStatus
<1>12. ("required" \in missing <=> required # {}) /\ (missing # {} <=> lost # {})
  BY <1>9
<1>13. missing \subseteq {"required", "optional"}
  BY <1>9, <1>10
<1>14. /\ report.ready = (required = {}) /\ report.setup = (lost # {})
       /\ report.coverage = (IF required # {} THEN "unavailable"
                             ELSE IF lost # {} THEN "partial" ELSE "complete")
  <2> HIDE DEF missing, lost, required
  <2>1. report.ready = ("required" \notin missing) /\ report.setup = (missing # {}) /\ report.coverage = Coverage(missing)
    BY <1>11
  <2> QED
    BY <2>1, <1>12, <1>13 DEF Coverage
<1> QED
  BY <1>14 DEF ReportedRightly, closure

\* A question about evidence over any tools: what is declared, what the current
\* receipts say, which tools are unavailable, and any evidence at all.
EvidenceQuestions(T, A, G, S, O) ==
  {q \in [kind : {"evidence"}, dependencies : Seq(Declared(T, A)), expected : [S -> Current(G)],
          unavailable : SUBSET T, honest : BOOLEAN, evidence : O] :
     /\ Len(q.dependencies) \in 1..16
     /\ q.honest => q.evidence = HonestReceipt(q.dependencies, q.expected, q.unavailable)}

\* Whatever tools a workflow declares and whatever current receipts there are:
\* evidence that is accepted vouches for every required provider, now and until
\* it expires; what reports the current state is accepted; and the status of a
\* plugin covers what is there (ValidateCompositeReadinessEvidence, CompositeStatus).
THEOREM AcceptedEvidenceIsEarned ==
  ASSUME NEW T, NEW A, NEW G, NEW S, NEW P, NEW O, \A e \in O : e.providers \in Seq(P),
         question \in EvidenceQuestions(T, A, G, S, O) \/ CoverageAsked
  PROVE  EvidenceIsEarned
<1> DEFINE e == question.evidence
           expected == question.expected
           declared == question.dependencies
           unavailable == question.unavailable
<1>1. CASE question \in EvidenceQuestions(T, A, G, S, O)
  <2>1. /\ question.kind = "evidence" /\ declared \in Seq(Declared(T, A)) /\ expected \in [S -> Current(G)]
        /\ e \in O /\ Len(declared) \in 1..16
        /\ question.honest => e = HonestReceipt(declared, expected, unavailable)
    BY <1>1 DEF EvidenceQuestions
  <2>2. EvidenceIsValid(e, "this", declared, expected, Instant) => VouchedFor(e, declared, expected)
    BY <2>1, AcceptedIsVouched
  <2>3. ASSUME question.honest, Cardinality(ToolsOf(declared)) = Len(declared), DOMAIN expected \subseteq ToolsOf(declared),
               \A t \in ToolsOf(declared) \ unavailable :
                 t \in DOMAIN expected /\ expected[t].observed <= Instant /\ Instant < expected[t].expires
        PROVE  EvidenceIsValid(e, "this", declared, expected, Instant)
    <3>1. Distinct(declared, ToolOf)
      BY <2>1, <2>3, DistinctTools
    <3>2. S \subseteq ToolsOf(declared)
          /\ \A t \in ToolsOf(declared) \ unavailable :
               t \in S /\ expected[t].observed <= Instant /\ Instant < expected[t].expires
      BY <2>1, <2>3
    <3>3. EvidenceIsValid(HonestReceipt(declared, expected, unavailable), "this", declared, expected, Instant)
      BY <2>1, <3>1, <3>2, HonestIsAccepted
    <3> QED
      BY <2>1, <2>3, <3>3
  <2> QED
    BY <2>1, <2>2, <2>3 DEF EvidenceIsEarned, VouchedFor, ToolsOf
<1>2. CASE CoverageAsked
  <2>1. /\ question.kind = "coverage" /\ declared \in Declarations /\ Distinct(declared, ToolOf)
        /\ question.why \in {"absent", "manifest", "access", "status"}
    BY <1>2 DEF CoverageAsked
  <2>2. ReportedRightly(declared, unavailable, question.why)
    BY <2>1, StatusCovers
  <2> QED
    BY <2>1, <2>2 DEF EvidenceIsEarned, ReportedRightly
<1> QED
  BY <1>1, <1>2

-----------------------------------------------------------------------------
(* Any agent                                                                *)

\* What a required binding needs to be used, as things are now.
MayBeUsed(binding, packages, disk, governance) ==
  /\ binding.available /\ Pinned(binding, packages)
  /\ \/ packages[binding.package].usability = "usable-now"
     \/ binding.kind = "skill" /\ packages[binding.package].usability = "documentation-only"
     \/ /\ binding.kind = "tool" /\ packages[binding.package].usability = "setup-required"
        /\ Pinned(binding, disk.packages) /\ binding.package \in disk.authenticated
  /\ binding.kind = "tool" /\ binding.access = "read-write" => governance.writes

\* What a binding was compiled to tells what it was like.
Tells(c, binding, packages) ==
  /\ c.binding = binding
  /\ c.status \in {"unavailable", "missing", "ready", "setup-required", "not-ready"}
  /\ c.status \in {"ready", "setup-required"} => binding.available /\ Pinned(binding, packages)
  /\ c.status = "ready" =>
       \/ packages[binding.package].usability = "usable-now"
       \/ binding.kind = "skill" /\ packages[binding.package].usability = "documentation-only"
  /\ c.status = "setup-required" => packages[binding.package].usability = "setup-required"
  /\ IF binding.available THEN c.path = binding.package ELSE c.status = "unavailable"
  /\ binding.kind = "tool" /\ c.status \notin {"unavailable", "missing"} => c.endpoint

LEMMA CompiledTells ==
  ASSUME NEW binding, NEW packages
  PROVE  Tells(CompiledBinding(binding, packages), binding, packages)
<1> DEFINE c == CompiledBinding(binding, packages)
<1>1. c.binding = binding /\ c.status = CompiledStatus(binding, packages)
  BY DEF CompiledBinding
<1>2. binding.available => c.path = binding.package
  BY DEF CompiledBinding
<1>3. ASSUME binding.kind = "tool", CompiledStatus(binding, packages) \notin {"unavailable", "missing"}
      PROVE  c.endpoint
  BY <1>3 DEF CompiledBinding
<1> HIDE DEF c
<1>4. ASSUME binding.available, Pinned(binding, packages) PROVE Tells(c, binding, packages)
  <2>1. c.status = RuntimeStatus(binding.kind, packages[binding.package].usability)
    BY <1>1, <1>4 DEF CompiledStatus
  <2>2. /\ c.status \in {"ready", "setup-required", "not-ready"}
        /\ c.status = "ready" =>
             \/ packages[binding.package].usability = "usable-now"
             \/ binding.kind = "skill" /\ packages[binding.package].usability = "documentation-only"
        /\ c.status = "setup-required" => packages[binding.package].usability = "setup-required"
    BY <2>1 DEF RuntimeStatus
  <2> QED
    BY <1>1, <1>2, <1>3, <1>4, <2>2 DEF Tells
<1>5. ASSUME ~(binding.available /\ Pinned(binding, packages)) PROVE Tells(c, binding, packages)
  <2>1. /\ c.status \in {"unavailable", "missing"}
        /\ ~binding.available => c.status = "unavailable"
    BY <1>1, <1>5 DEF CompiledStatus
  <2> QED
    BY <1>1, <1>2, <2>1 DEF Tells
<1>6. Tells(c, binding, packages)
  BY <1>4, <1>5
<1> QED
  BY <1>6 DEF c

\* What preflight has established when it calls an orchestrated agent ready.
LEMMA ReadyMeans ==
  ASSUME NEW agent, NEW disk, NEW options, agent.orchestrated,
         Preflight(agent, disk, options) = "ready"
  PROVE  /\ Contract(agent, disk, options) = disk.contract
         /\ disk.contract # NotGiven /\ disk.receipt /\ disk.closure /\ disk.spec
         /\ Integral(disk.contract, agent, options.runtime)
         /\ Attested(disk.contract, options.attestation, options.trusted, options.now)
         /\ Resolved(disk.contract, options)
         /\ agent.dependencies \subseteq DOMAIN disk.packages
         /\ \A t \in Tools(agent, disk, options) :
              ToolIsReady(t) /\ ~Ungoverned(t, GovernanceOf(agent, disk, options))
         /\ GovernanceOf(agent, disk, options).approval => options.approve
         /\ ~Unparsed(agent, disk, options) /\ options.overrides \in {NotGiven, {}}
<1>1. /\ ~Unparsed(agent, disk, options)
      /\ Orchestrated(agent, disk, options) /\ disk.spec
      /\ agent.dependencies \subseteq DOMAIN disk.packages
      /\ \A t \in Tools(agent, disk, options) :
           ToolIsReady(t) /\ ~Ungoverned(t, GovernanceOf(agent, disk, options))
      /\ GovernanceOf(agent, disk, options).approval => options.approve
  BY DEF Preflight
<1>2. /\ Contract(agent, disk, options) # NotGiven
      /\ Attested(Contract(agent, disk, options), options.attestation, options.trusted, options.now)
      /\ Resolved(Contract(agent, disk, options), options)
      /\ options.overrides \in {NotGiven, {}}
  BY <1>1 DEF Orchestrated
<1>3. /\ disk.contract # NotGiven /\ disk.receipt /\ disk.closure
      /\ Integral(disk.contract, agent, options.runtime)
      /\ Contract(agent, disk, options) = disk.contract
  BY <1>2 DEF Contract
<1> QED
  BY <1>1, <1>2, <1>3

\* Whatever an agent binds and whatever has happened to its packages since it was
\* compiled: when preflight calls it ready, its receipt, closure and contract
\* verify, every required binding was pinned and usable or was still to be
\* authenticated and is by now, nothing required writes that governance does not
\* allow, and its model is attested for this very contract (RunPreflight).
THEOREM ReadyAgentsAreAccountable ==
  ASSUME NEW agent, NEW runtime, NEW packages, NEW disk, NEW options,
         agent.orchestrated, disk.contract = Compile(agent, runtime, packages),
         Preflight(agent, disk, options) = "ready"
  PROVE  /\ options.runtime = runtime
         /\ disk.receipt /\ disk.closure /\ disk.spec
         /\ agent.dependencies \subseteq DOMAIN disk.packages
         /\ \A b \in agent.bindings : b.requirement = "required" =>
              MayBeUsed(b, packages, disk, GovernanceOf(agent, disk, options))
         /\ agent.model # {} =>
              /\ options.trusted /\ options.attestation.signed
              /\ options.attestation.contract = disk.contract
              /\ options.now < options.attestation.expires
              /\ agent.model \subseteq options.attestation.capabilities
         /\ GovernanceOf(agent, disk, options).approval => options.approve
<1> DEFINE contract == Compile(agent, runtime, packages)
           governance == GovernanceOf(agent, disk, options)
<1>1. /\ Contract(agent, disk, options) = contract /\ contract # NotGiven
      /\ Integral(contract, agent, options.runtime) /\ Resolved(contract, options)
      /\ Attested(contract, options.attestation, options.trusted, options.now)
  BY ReadyMeans
<1>2. /\ contract.runtime = runtime /\ contract.model = agent.model
      /\ contract.bindings = {CompiledBinding(b, packages) : b \in agent.bindings}
  BY DEF Compile
<1>3. options.runtime = runtime
  BY <1>1, <1>2 DEF Integral
<1>4. ASSUME agent.model # {}
      PROVE  /\ options.trusted /\ options.attestation.signed
             /\ options.attestation.contract = disk.contract
             /\ options.now < options.attestation.expires
             /\ agent.model \subseteq options.attestation.capabilities
  BY <1>1, <1>2, <1>4 DEF Attested
<1>5. ASSUME NEW b \in agent.bindings, b.requirement = "required"
      PROVE  MayBeUsed(b, packages, disk, governance)
  <2> DEFINE c == CompiledBinding(b, packages)
  <2>1. c \in contract.bindings /\ c.binding = b
    BY <1>2, CompiledTells DEF Tells
  <2>2. CASE b.kind # "tool"
    <3>1. c.status = "ready"
      BY <1>1, <1>5, <2>1, <2>2 DEF Resolved
    <3> QED
      BY <2>2, <3>1, CompiledTells DEF Tells, MayBeUsed
  <2>3. CASE b.kind = "tool"
    <3> DEFINE tool == [name |-> c.binding.name, package |-> c.binding.package, version |-> c.binding.version,
                        requirement |-> c.binding.requirement, access |-> c.binding.access,
                        status |-> c.status, endpoint |-> c.endpoint]
               now == Refreshed(tool, disk, options)
    <3>1. tool \in CompiledTools(contract)
      BY <2>1, <2>3 DEF CompiledTools
    <3>2. tool.name \in ToolNames(agent)
      BY <2>1, <2>3 DEF ToolNames
    <3>3. now \in Tools(agent, disk, options)
      BY <1>1, <3>1, <3>2 DEF Tools
    <3>4. ToolIsReady(now) /\ ~Ungoverned(now, governance)
      BY <3>3, ReadyMeans
    <3>5. /\ tool.requirement = "required" /\ tool.access = b.access /\ tool.status = c.status
          /\ tool.package = b.package /\ tool.version = b.version
      BY <1>5, <2>1
    <3>6. /\ now.requirement = tool.requirement /\ now.access = tool.access
          /\ \/ now.status = tool.status
             \/ /\ tool.status = "setup-required" /\ Pinned(tool, disk.packages)
                /\ tool.package \in disk.authenticated
      BY DEF Refreshed
    <3> HIDE DEF tool, now
    <3>7. now.status \in {"", "ready"} /\ (b.access = "read-write" => governance.writes)
      BY <3>4, <3>5, <3>6 DEF ToolIsReady, Ungoverned
    <3>8. \/ c.status = "ready"
          \/ /\ c.status = "setup-required" /\ Pinned(b, disk.packages)
             /\ b.package \in disk.authenticated
      <4>1. Pinned(tool, disk.packages) <=> Pinned(b, disk.packages)
        BY <3>5 DEF Pinned
      <4>2. c.status \in {"unavailable", "missing", "ready", "setup-required", "not-ready"}
        BY CompiledTells DEF Tells
      <4> QED
        BY <3>5, <3>6, <3>7, <4>1, <4>2
    <3> QED
      BY <2>3, <3>7, <3>8, CompiledTells DEF Tells, MayBeUsed
  <2> QED
    BY <2>2, <2>3
<1> QED
  BY <1>3, <1>4, <1>5, ReadyMeans

\* The contract that was compiled from an agent's manifest passes its own check.
LEMMA CompiledIsIntegral ==
  ASSUME NEW agent, NEW runtime, NEW packages, IsFiniteSet(agent.bindings)
  PROVE  Integral(Compile(agent, runtime, packages), agent, runtime)
<1> DEFINE contract == Compile(agent, runtime, packages)
           f == [b \in agent.bindings |-> CompiledBinding(b, packages)]
<1>1. /\ contract.agent = <<agent.id, agent.version>> /\ contract.runtime = runtime
      /\ contract.model = agent.model /\ contract.memory = agent.memory /\ contract.governance = agent.governance
      /\ contract.bindings = {CompiledBinding(b, packages) : b \in agent.bindings}
      /\ contract.status \in {"ready", "setup-required", "blocked"}
  BY DEF Compile
<1>2. \A b \in agent.bindings : CompiledBinding(b, packages).binding = b
  BY CompiledTells DEF Tells
<1>3. {c.binding : c \in contract.bindings} = agent.bindings
  BY <1>1, <1>2
<1>4. f \in Bijection(agent.bindings, contract.bindings)
  BY <1>1, <1>2 DEF Bijection, Injection, Surjection, IsInjective
<1>5. Cardinality(contract.bindings) = Cardinality(agent.bindings)
  BY <1>4, FS_Bijection DEF ExistsBijection
<1> HIDE DEF contract
<1>7. \A c \in contract.bindings :
        /\ c.status \in {"ready", "setup-required", "not-ready", "missing", "unavailable"}
        /\ IF c.binding.available THEN c.path = c.binding.package ELSE c.status = "unavailable"
        /\ c.binding.kind = "tool" /\ c.status = "ready" => c.endpoint
  BY <1>1, CompiledTells DEF Tells
<1>8. Integral(contract, agent, runtime)
  BY <1>1, <1>3, <1>5, <1>7 DEF Integral
<1> QED
  BY <1>8 DEF contract

\* A tool of the contract is one of the agent's, as it was compiled, and it is
\* refreshed in its status alone.
FromBinding(t, b, packages) ==
  /\ b.kind = "tool" /\ t.name = b.name /\ t.package = b.package /\ t.version = b.version
  /\ t.requirement = b.requirement /\ t.access = b.access
  /\ t.status = CompiledBinding(b, packages).status /\ t.endpoint = CompiledBinding(b, packages).endpoint

LEMMA ToolIsCompiled ==
  ASSUME NEW agent, NEW runtime, NEW packages, NEW disk, NEW options,
         NEW t \in CompiledTools(Compile(agent, runtime, packages))
  PROVE  /\ \E b \in agent.bindings : FromBinding(t, b, packages)
         /\ LET now == Refreshed(t, disk, options)
            IN  /\ now.name = t.name /\ now.requirement = t.requirement /\ now.access = t.access
                /\ now.endpoint = t.endpoint
                /\ now.status = IF /\ t.status = "setup-required" /\ options.stateDir
                                   /\ Pinned(t, disk.packages) /\ t.package \in disk.authenticated
                                THEN "ready" ELSE t.status
<1>1. PICK c \in Compile(agent, runtime, packages).bindings :
        /\ c.binding.kind = "tool"
        /\ t = [name |-> c.binding.name, package |-> c.binding.package, version |-> c.binding.version,
                requirement |-> c.binding.requirement, access |-> c.binding.access,
                status |-> c.status, endpoint |-> c.endpoint]
  BY DEF CompiledTools
<1>2. PICK b \in agent.bindings : c = CompiledBinding(b, packages)
  BY DEF Compile
<1>3. c.binding = b
  BY <1>2 DEF CompiledBinding
<1>4. FromBinding(t, b, packages)
  BY <1>1, <1>2, <1>3 DEF FromBinding
<1>5. LET now == Refreshed(t, disk, options)
      IN  /\ now.name = t.name /\ now.requirement = t.requirement /\ now.access = t.access
          /\ now.endpoint = t.endpoint
          /\ now.status = IF /\ t.status = "setup-required" /\ options.stateDir
                             /\ Pinned(t, disk.packages) /\ t.package \in disk.authenticated
                          THEN "ready" ELSE t.status
  BY <1>1 DEF Refreshed
<1> QED
  BY <1>4, <1>5

LEMMA ToolsAreNamed ==
  ASSUME NEW agent, NEW runtime, NEW packages, NEW disk, NEW options, agent.orchestrated,
         Contract(agent, disk, options) = Compile(agent, runtime, packages),
         Compile(agent, runtime, packages) # NotGiven
  PROVE  /\ \A now \in Tools(agent, disk, options) :
              \E t \in CompiledTools(Compile(agent, runtime, packages)) : now = Refreshed(t, disk, options)
         /\ ToolNames(agent) = {t.name : t \in Tools(agent, disk, options)}
<1> DEFINE contract == Compile(agent, runtime, packages)
           tools == Tools(agent, disk, options)
<1>1. tools = {Refreshed(t, disk, options) : t \in {u \in CompiledTools(contract) : u.name \in ToolNames(agent)}}
  BY DEF Tools
<1>2. \A t \in CompiledTools(contract) : Refreshed(t, disk, options).name = t.name
  BY ToolIsCompiled
<1>3. ASSUME NEW n \in ToolNames(agent)
      PROVE  \E t \in CompiledTools(contract) : t.name = n
  <2>1. PICK b \in agent.bindings : b.kind = "tool" /\ b.name = n
    BY DEF ToolNames
  <2> DEFINE c == CompiledBinding(b, packages)
             t == [name |-> c.binding.name, package |-> c.binding.package, version |-> c.binding.version,
                   requirement |-> c.binding.requirement, access |-> c.binding.access,
                   status |-> c.status, endpoint |-> c.endpoint]
  <2>2. c.binding = b /\ c \in contract.bindings
    BY DEF CompiledBinding, Compile
  <2> HIDE DEF c
  <2>3. t \in CompiledTools(contract)
    BY <2>1, <2>2 DEF CompiledTools
  <2> QED
    BY <2>1, <2>2, <2>3
<1> HIDE DEF contract, tools
<1>4. ToolNames(agent) = {t.name : t \in tools}
  <2>1. ASSUME NEW t \in tools PROVE t.name \in ToolNames(agent)
    BY <1>1, <1>2
  <2>2. ASSUME NEW n \in ToolNames(agent) PROVE \E t \in tools : t.name = n
    <3>1. PICK t \in CompiledTools(contract) : t.name = n
      BY <1>3
    <3>2. Refreshed(t, disk, options) \in tools
      BY <1>1, <3>1
    <3> QED
      BY <1>2, <3>1, <3>2
  <2> QED
    BY <2>1, <2>2
<1>5. \A now \in tools : \E t \in CompiledTools(contract) : now = Refreshed(t, disk, options)
  BY <1>1
<1> QED
  BY <1>4, <1>5 DEF contract, tools

\* The files and the answers an accountable run of an agent has.
InOrder(agent, packages, disk, options) ==
  /\ agent.orchestrated /\ IsFiniteSet(agent.bindings)
  /\ \A b \in agent.bindings : b.requirement \in {"required", "optional"}
  /\ disk.contract = Compile(agent, options.runtime, packages) /\ disk.contract # NotGiven
  /\ disk.receipt /\ disk.closure /\ disk.spec
  /\ agent.dependencies \subseteq DOMAIN disk.packages
  /\ ~Unparsed(agent, disk, options) /\ options.overrides \in {NotGiven, {}} /\ options.stateDir
  /\ agent.memory = "required at runtime" => options.memory # NotGiven
  /\ agent.governance = "required at runtime" => options.governance # NotGiven
  /\ Attested(disk.contract, options.attestation, options.trusted, options.now)
  /\ GovernanceOf(agent, disk, options).approval => options.approve

\* The converse: preflight refuses no agent that is accountable. With the receipt,
\* the closure and the files in order, every required binding usable as things
\* are now and nothing written that governance does not allow, it is ready.
THEOREM AccountableAgentsAreReady ==
  ASSUME NEW agent, NEW packages, NEW disk, NEW options, InOrder(agent, packages, disk, options),
         \A b \in agent.bindings : b.requirement = "required" =>
           MayBeUsed(b, packages, disk, GovernanceOf(agent, disk, options))
  PROVE  Preflight(agent, disk, options) = "ready"
<1> DEFINE contract == Compile(agent, options.runtime, packages)
           governance == GovernanceOf(agent, disk, options)
<1>1. Integral(contract, agent, options.runtime)
  BY CompiledIsIntegral DEF InOrder
<1>2. Contract(agent, disk, options) = contract /\ contract # NotGiven
  BY <1>1 DEF Contract, InOrder
<1>3. /\ contract.bindings = {CompiledBinding(b, packages) : b \in agent.bindings}
      /\ contract.memory = agent.memory /\ contract.governance = agent.governance
  BY DEF Compile
<1>0. \A b \in agent.bindings : CompiledBinding(b, packages).binding = b
  BY DEF CompiledBinding
<1>4. ASSUME NEW b \in agent.bindings, b.requirement = "required"
      PROVE  LET status == CompiledBinding(b, packages).status
             IN  \/ status = "ready"
                 \/ /\ status = "setup-required" /\ b.kind = "tool"
                    /\ Pinned(b, disk.packages) /\ b.package \in disk.authenticated
  <2>1. MayBeUsed(b, packages, disk, governance)
    BY <1>4
  <2>2. CompiledBinding(b, packages).status = RuntimeStatus(b.kind, packages[b.package].usability)
    BY <2>1 DEF MayBeUsed, CompiledBinding, CompiledStatus
  <2> QED
    BY <2>1, <2>2 DEF MayBeUsed, RuntimeStatus
<1>5. contract.status # "blocked"
  <2> DEFINE bindings == {CompiledBinding(b, packages) : b \in agent.bindings}
             unready == {c.status : c \in {d \in bindings : d.binding.requirement = "required"}} \ {"ready"}
  <2>1. ASSUME NEW b \in agent.bindings, CompiledBinding(b, packages).binding.requirement = "required"
        PROVE  CompiledBinding(b, packages).status \in {"ready", "setup-required"}
    BY <1>0, <1>4, <2>1
  <2>2. ASSUME NEW s \in unready PROVE s = "setup-required"
    <3>1. PICK b \in agent.bindings : /\ s = CompiledBinding(b, packages).status /\ s # "ready"
                                      /\ CompiledBinding(b, packages).binding.requirement = "required"
      <4>1. PICK c \in bindings : c.binding.requirement = "required" /\ s = c.status /\ s # "ready"
        OBVIOUS
      <4>2. PICK b \in agent.bindings : c = CompiledBinding(b, packages)
        BY <4>1
      <4> QED
        BY <4>1, <4>2
    <3> QED
      BY <2>1, <3>1
  <2>3. unready = {} \/ unready = {"setup-required"}
    BY <2>2
  <2>4. contract.status = (IF unready = {} THEN "ready"
                           ELSE IF unready = {"setup-required"} THEN "setup-required" ELSE "blocked")
    BY DEF Compile
  <2> HIDE DEF unready
  <2>5. contract.status \in {"ready", "setup-required"}
    BY <2>3, <2>4
  <2> QED
    BY <2>5
<1>6. ASSUME NEW c \in contract.bindings, c.binding.requirement = "required", c.binding.kind # "tool"
      PROVE  c.status = "ready"
  <2>1. PICK b \in agent.bindings : c = CompiledBinding(b, packages)
    BY <1>3
  <2>2. c.binding = b
    BY <1>0, <2>1
  <2> QED
    BY <1>4, <1>6, <2>1, <2>2
<1>7. Orchestrated(agent, disk, options)
  BY <1>2, <1>3, <1>5, <1>6 DEF Orchestrated, Resolved, InOrder
<1>8. /\ \A now \in Tools(agent, disk, options) :
           \E t \in CompiledTools(contract) : now = Refreshed(t, disk, options)
      /\ ToolNames(agent) = {t.name : t \in Tools(agent, disk, options)}
  <2>1. agent.orchestrated
    BY DEF InOrder
  <2>2. /\ Contract(agent, disk, options) = Compile(agent, options.runtime, packages)
        /\ Compile(agent, options.runtime, packages) # NotGiven
    BY <1>2
  <2> QED
    BY <2>1, <2>2, ToolsAreNamed
<1>9. ASSUME NEW now \in Tools(agent, disk, options)
      PROVE  ToolIsReady(now) /\ ~Ungoverned(now, governance)
  <2>1. PICK t \in CompiledTools(contract) : now = Refreshed(t, disk, options)
    BY <1>8
  <2>2. PICK b \in agent.bindings : FromBinding(t, b, packages)
    BY ToolIsCompiled
  <2>3. /\ now.requirement = b.requirement /\ now.access = b.access /\ now.endpoint = t.endpoint
        /\ now.status = IF /\ t.status = "setup-required"
                           /\ Pinned(t, disk.packages) /\ t.package \in disk.authenticated
                        THEN "ready" ELSE t.status
    <3>1. t \in CompiledTools(Compile(agent, options.runtime, packages)) /\ options.stateDir
      BY DEF InOrder
    <3>2. /\ now.requirement = t.requirement /\ now.access = t.access /\ now.endpoint = t.endpoint
          /\ now.status = IF /\ t.status = "setup-required" /\ options.stateDir
                             /\ Pinned(t, disk.packages) /\ t.package \in disk.authenticated
                          THEN "ready" ELSE t.status
      BY <2>1, <3>1, ToolIsCompiled
    <3> QED
      BY <2>2, <3>1, <3>2 DEF FromBinding
  <2>4. CASE b.requirement = "optional"
    BY <2>3, <2>4 DEF ToolIsReady, Ungoverned
  <2>5. CASE b.requirement = "required"
    <3>1. \/ t.status = "ready"
          \/ /\ t.status = "setup-required" /\ Pinned(t, disk.packages)
             /\ t.package \in disk.authenticated
      BY <1>4, <2>2, <2>5 DEF Pinned, FromBinding
    <3>2. now.status = "ready"
      BY <2>3, <3>1
    <3>3. t.endpoint
      <4>1. b.kind = "tool" /\ CompiledBinding(b, packages).status \notin {"unavailable", "missing"}
        BY <2>2, <3>1 DEF FromBinding
      <4>2. CompiledBinding(b, packages).endpoint
        BY <4>1, CompiledTells DEF Tells
      <4> QED
        BY <2>2, <4>2 DEF FromBinding
    <3>4. b.access = "read-write" => governance.writes
      BY <2>2, <2>5 DEF MayBeUsed, FromBinding
    <3> QED
      BY <2>3, <3>2, <3>3, <3>4 DEF ToolIsReady, Ungoverned
  <2> QED
    BY <2>4, <2>5 DEF InOrder
<1> QED
  BY <1>7, <1>8, <1>9 DEF Preflight, ToolsArePresent, InOrder

-----------------------------------------------------------------------------
(* Closures over any packages                                               *)

\* What holds of zero and, if of a number, of the next, holds of all.
LEMMA NaturalsFollow ==
  ASSUME NEW S, 0 \in S, \A n \in Nat : n \in S => n + 1 \in S
  PROVE  Nat \subseteq S
<1>1. SUFFICES ASSUME Nat \ S # {} PROVE FALSE
  OBVIOUS
<1>2. PICK m \in Nat \ S : \A n \in Nat \ S : m <= n
  BY <1>1, LeastNatural
<1>3. m # 0 /\ m - 1 \in Nat /\ (m - 1) + 1 = m /\ ~(m <= m - 1)
  BY <1>2
<1> QED
  BY <1>2, <1>3

\* A function is iterated from a value that it has.
LEMMA Iterates ==
  ASSUME NEW V, NEW a \in V, NEW s \in [V -> V]
  PROVE  \E f \in [Nat -> V] : f[0] = a /\ \A n \in Nat \ {0} : f[n] = s[f[n - 1]]
<1> DEFINE Good(n, g) == /\ g \in [0..n -> V] /\ g[0] = a
                         /\ \A i \in 1..n : g[i] = s[g[i - 1]]
           Have == {n \in Nat : \E g : Good(n, g)}
<1>1. Nat \subseteq Have
  <2>1. Good(0, [i \in 0..0 |-> a])
    OBVIOUS
  <2>2. ASSUME NEW n \in Nat, NEW g, Good(n, g)
        PROVE  Good(n + 1, [i \in 0..(n + 1) |-> IF i = n + 1 THEN s[g[n]] ELSE g[i]])
    <3> DEFINE h == [i \in 0..(n + 1) |-> IF i = n + 1 THEN s[g[n]] ELSE g[i]]
    <3>1. g[n] \in V /\ s[g[n]] \in V
      BY <2>2
    <3>2. \A i \in 0..(n + 1) : i = n + 1 \/ i \in 0..n
      OBVIOUS
    <3>3. \A i \in 0..n : h[i] = g[i] /\ h[i] \in V
      BY <2>2
    <3>4. h[n + 1] = s[g[n]]
      OBVIOUS
    <3>5. h \in [0..(n + 1) -> V]
      BY <3>1, <3>2, <3>3, <3>4
    <3>6. h[0] = a
      BY <2>2, <3>3
    <3>7. ASSUME NEW i \in 1..(n + 1) PROVE h[i] = s[h[i - 1]]
      <4>1. CASE i = n + 1
        <5>1. i - 1 = n /\ n \in 0..n
          BY <4>1
        <5> QED
          BY <3>3, <3>4, <4>1, <5>1
      <4>2. CASE i # n + 1
        <5>1. i \in 1..n /\ i \in 0..n /\ i - 1 \in 0..n
          BY <4>2
        <5> QED
          BY <2>2, <3>3, <5>1
      <4> QED
        BY <4>1, <4>2
    <3> HIDE DEF h
    <3>8. Good(n + 1, h)
      BY <3>5, <3>6, <3>7
    <3> QED
      BY <3>8 DEF h
  <2> HIDE DEF Good
  <2>3. 0 \in Have /\ \A n \in Nat : n \in Have => n + 1 \in Have
    <3>1. 0 \in Have
      BY <2>1
    <3>2. ASSUME NEW n \in Nat, n \in Have PROVE n + 1 \in Have
      <4>1. PICK g : Good(n, g)
        BY <3>2
      <4>2. Good(n + 1, [i \in 0..(n + 1) |-> IF i = n + 1 THEN s[g[n]] ELSE g[i]])
        BY <2>2, <4>1
      <4>3. \E h : Good(n + 1, h)
        BY <4>2, Zenon
      <4> QED
        BY <4>3
    <3> QED
      BY <3>1, <3>2
  <2> QED
    BY <2>3, NaturalsFollow
<1>2. ASSUME NEW n \in Nat, NEW m \in Nat, NEW g, NEW h, Good(n, g), Good(m, h), n <= m
      PROVE  \A i \in 0..n : g[i] = h[i]
  <2> DEFINE Same == {i \in Nat : i \in 0..n => g[i] = h[i]}
  <2>1. 0 \in Same
    BY <1>2
  <2>2. ASSUME NEW i \in Nat, i \in Same PROVE i + 1 \in Same
    <3>1. SUFFICES ASSUME i + 1 \in 0..n PROVE g[i + 1] = h[i + 1]
      OBVIOUS
    <3>2. i \in 0..n /\ i + 1 \in 1..n /\ i + 1 \in 1..m /\ (i + 1) - 1 = i
      BY <1>2, <3>1
    <3> QED
      BY <1>2, <2>2, <3>2
  <2>3. Nat \subseteq Same
    <3> HIDE DEF Same
    <3> QED
      BY <2>1, <2>2, NaturalsFollow
  <2> QED
    BY <2>3
<1> DEFINE G(n) == CHOOSE g : Good(n, g)
           f == [n \in Nat |-> G(n)[n]]
<1>3. \A n \in Nat : Good(n, G(n))
  <2> HIDE DEF Good
  <2> QED
    BY <1>1
<1>4. \A n \in Nat : G(n) \in [0..n -> V] /\ G(n)[0] = a /\ \A i \in 1..n : G(n)[i] = s[G(n)[i - 1]]
  BY <1>3
<1>5. \A n \in Nat \ {0} : G(n)[n - 1] = G(n - 1)[n - 1]
  <2> SUFFICES ASSUME NEW n \in Nat \ {0} PROVE G(n)[n - 1] = G(n - 1)[n - 1]
    OBVIOUS
  <2>1. n - 1 \in Nat /\ n - 1 <= n /\ n - 1 \in 0..(n - 1) /\ n \in Nat
    OBVIOUS
  <2> HIDE DEF G, Good
  <2>2. Good(n, G(n)) /\ Good(n - 1, G(n - 1))
    BY <1>3, <2>1
  <2> QED
    BY <1>2, <2>1, <2>2
<1> HIDE DEF G, Good
<1>6. f \in [Nat -> V]
  <2> SUFFICES ASSUME NEW n \in Nat PROVE G(n)[n] \in V
    OBVIOUS
  <2>1. n \in 0..n
    OBVIOUS
  <2> QED
    BY <1>4, <2>1
<1>7. \A n \in Nat : f[n] = IF n = 0 THEN a ELSE s[f[n - 1]]
  <2> SUFFICES ASSUME NEW n \in Nat PROVE f[n] = IF n = 0 THEN a ELSE s[f[n - 1]]
    OBVIOUS
  <2>1. CASE n = 0
    BY <1>4, <2>1
  <2>2. CASE n # 0
    <3>1. n \in 1..n /\ n - 1 \in Nat
      BY <2>2
    <3>2. f[n] = G(n)[n] /\ f[n - 1] = G(n - 1)[n - 1]
      BY <3>1
    <3>3. G(n)[n] = s[G(n)[n - 1]]
      BY <1>4, <3>1
    <3> QED
      BY <1>5, <2>2, <3>2, <3>3
  <2> QED
    BY <2>1, <2>2
<1> HIDE DEF f
<1> QED
  BY <1>6, <1>7

\* What is met within some steps.
LEMMA MetTells ==
  ASSUME NEW roots, NEW edges
  PROVE  \E met : /\ Reachable(roots, edges) = met[Cardinality(DOMAIN edges)]
                  /\ met[0] = roots
                  /\ \A n \in Nat : met[n + 1] = Spread(edges, met[n])
<1> DEFINE body(f) == [n \in Nat |-> IF n = 0 THEN roots ELSE Spread(edges, f[n - 1])]
           met == CHOOSE f : f = body(f)
           V == SUBSET (roots \cup UNION {edges[k] : k \in DOMAIN edges})
           s == [S \in V |-> Spread(edges, S)]
<1>1. s \in [V -> V] /\ roots \in V
  BY DEF Spread
<1>2. \E f : f = body(f)
  <2>1. \A S \in V : s[S] = Spread(edges, S)
    OBVIOUS
  <2> HIDE DEF s, V
  <2>2. PICK f \in [Nat -> V] : f[0] = roots /\ \A n \in Nat \ {0} : f[n] = s[f[n - 1]]
    BY <1>1, Iterates
  <2>3. \A n \in Nat \ {0} : n - 1 \in Nat /\ f[n] = Spread(edges, f[n - 1])
    BY <2>1, <2>2
  <2>4. f = [n \in Nat |-> f[n]]
    BY <2>2
  <2>5. f = body(f)
    BY <2>2, <2>3, <2>4
  <2> QED
    BY <2>5
<1>3. met = body(met)
  BY <1>2
<1>4. Reachable(roots, edges) = met[Cardinality(DOMAIN edges)]
  BY DEF Reachable
<1> HIDE DEF met
<1>5. \A n \in Nat : met[n] = IF n = 0 THEN roots ELSE Spread(edges, met[n - 1])
  BY <1>3
<1>6. met[0] = roots
  BY <1>5
<1>7. \A n \in Nat : met[n + 1] = Spread(edges, met[n])
  <2> SUFFICES ASSUME NEW n \in Nat PROVE met[n + 1] = Spread(edges, met[n])
    OBVIOUS
  <2>1. n + 1 \in Nat /\ n + 1 # 0 /\ (n + 1) - 1 = n
    OBVIOUS
  <2> QED
    BY <1>5, <2>1
<1> QED
  BY <1>4, <1>6, <1>7

\* What a set of identifiers must hold to leave nothing out.
Shut(roots, edges, S) == roots \subseteq S /\ \A k \in S \cap DOMAIN edges : edges[k] \subseteq S

\* The search ends with everything that is met, and nothing else.
LEMMA ReachableIsLeast ==
  ASSUME NEW roots, NEW edges, IsFiniteSet(DOMAIN edges)
  PROVE  /\ Shut(roots, edges, Reachable(roots, edges))
         /\ \A S : Shut(roots, edges, S) => Reachable(roots, edges) \subseteq S
<1> DEFINE D == DOMAIN edges
           last == Cardinality(D)
<1>1. PICK met : /\ Reachable(roots, edges) = met[last]
                 /\ met[0] = roots
                 /\ \A n \in Nat : met[n + 1] = Spread(edges, met[n])
  BY MetTells
<1>2. last \in Nat
  BY FS_CardinalityType
<1>3. ASSUME NEW S, Shut(roots, edges, S)
      PROVE  \A n \in Nat : met[n] \subseteq S
  <2> DEFINE Within == {n \in Nat : met[n] \subseteq S}
  <2>1. 0 \in Within
    BY <1>1, <1>3 DEF Shut
  <2>2. ASSUME NEW n \in Nat, n \in Within PROVE n + 1 \in Within
    BY <1>1, <1>3, <2>2 DEF Shut, Spread
  <2>3. Nat \subseteq Within
    <3> HIDE DEF Within
    <3> QED
      BY <2>1, <2>2, NaturalsFollow
  <2> QED
    BY <2>3
<1>4. \A n \in Nat : roots \subseteq met[n]
  <2> DEFINE From == {n \in Nat : roots \subseteq met[n]}
  <2>1. 0 \in From
    BY <1>1
  <2>2. ASSUME NEW n \in Nat, n \in From PROVE n + 1 \in From
    BY <1>1, <2>2 DEF Spread
  <2>3. Nat \subseteq From
    <3> HIDE DEF From
    <3> QED
      BY <2>1, <2>2, NaturalsFollow
  <2> QED
    BY <2>3
<1> DEFINE Still(n) == met[n + 1] = met[n]
           Seen(n) == met[n] \cap D
           Far == {n \in Nat : Still(n) \/ n + 1 <= Cardinality(Seen(n))}
<1>5. \A n \in Nat : IsFiniteSet(Seen(n)) /\ Cardinality(Seen(n)) \in Nat /\ Cardinality(Seen(n)) <= last
  <2> SUFFICES ASSUME NEW n \in Nat
               PROVE  IsFiniteSet(Seen(n)) /\ Cardinality(Seen(n)) \in Nat /\ Cardinality(Seen(n)) <= last
    OBVIOUS
  <2>1. Seen(n) \subseteq D
    OBVIOUS
  <2> HIDE DEF Seen, D
  <2> QED
    BY <2>1, FS_Subset, FS_CardinalityType DEF D
<1>6. 0 \in Far
  <2>1. CASE Seen(0) = {}
    <3>1. Spread(edges, met[0]) = met[0]
      BY <2>1 DEF Spread
    <3> QED
      BY <1>1, <3>1
  <2>2. CASE Seen(0) # {}
    <3>1. Cardinality(Seen(0)) # 0
      <4> HIDE DEF Seen
      <4> QED
        BY <1>5, <2>2, FS_EmptySet
    <3> QED
      BY <1>5, <3>1
  <2> QED
    BY <2>1, <2>2
<1>7. ASSUME NEW n \in Nat, n \in Far PROVE n + 1 \in Far
  <2>1. /\ met[n + 1] = Spread(edges, met[n]) /\ met[(n + 1) + 1] = Spread(edges, met[n + 1])
        /\ n + 1 \in Nat
    BY <1>1
  <2>2. CASE Seen(n + 1) = Seen(n)
    <3>1. Spread(edges, met[n + 1]) = met[n + 1]
      BY <2>1, <2>2 DEF Spread
    <3> QED
      BY <2>1, <3>1
  <2>3. CASE Still(n)
    BY <2>2, <2>3
  <2>4. CASE ~Still(n) /\ Seen(n + 1) # Seen(n)
    <3>1. n + 1 <= Cardinality(Seen(n))
      BY <1>7, <2>4
    <3>2. Seen(n) \subseteq Seen(n + 1)
      BY <2>1 DEF Spread
    <3>3. Cardinality(Seen(n)) < Cardinality(Seen(n + 1))
      <4>1. IsFiniteSet(Seen(n + 1)) /\ Cardinality(Seen(n)) \in Nat /\ Cardinality(Seen(n + 1)) \in Nat
        BY <1>5, <2>1
      <4> HIDE DEF Seen
      <4> QED
        BY <2>4, <3>2, <4>1, FS_Subset
    <3>4. (n + 1) + 1 <= Cardinality(Seen(n + 1))
      BY <1>5, <2>1, <3>1, <3>3
    <3> QED
      BY <2>1, <3>4
  <2> QED
    BY <2>2, <2>3, <2>4
<1>8. Nat \subseteq Far
  <2> HIDE DEF Far
  <2> QED
    BY <1>6, <1>7, NaturalsFollow
<1>9. Still(last)
  <2>1. ~(last + 1 <= Cardinality(Seen(last)))
    BY <1>2, <1>5
  <2> QED
    BY <1>2, <1>8, <2>1
<1>10. \A k \in met[last] \cap DOMAIN edges : edges[k] \subseteq met[last]
  BY <1>1, <1>2, <1>9 DEF Spread
<1>11. Shut(roots, edges, Reachable(roots, edges))
  BY <1>1, <1>2, <1>4, <1>10 DEF Shut
<1>12. \A S : Shut(roots, edges, S) => Reachable(roots, edges) \subseteq S
  BY <1>1, <1>2, <1>3
<1> QED
  BY <1>11, <1>12

\* What is met on the way down.
LEMMA DescentsTell ==
  ASSUME NEW edges
  PROVE  \E descents : /\ HasCycle(edges) <=> \E n \in 0..Cardinality(DOMAIN edges) :
                                                 \E t \in descents[n] : t[2] \in t[1]
                       /\ descents[0] = {<<{}, k>> : k \in DOMAIN edges}
                       /\ \A n \in Nat : descents[n + 1] = Deeper(edges, descents[n])
<1> DEFINE start == {<<{}, k>> : k \in DOMAIN edges}
           body(f) == [n \in Nat |-> IF n = 0 THEN start ELSE Deeper(edges, f[n - 1])]
           descents == CHOOSE f : f = body(f)
           U == DOMAIN edges \cup UNION {edges[k] : k \in DOMAIN edges}
           V == SUBSET ((SUBSET U) \X U)
           s == [S \in V |-> Deeper(edges, S)]
<1>1. s \in [V -> V] /\ start \in V
  <2>1. start \in V
    OBVIOUS
  <2>2. ASSUME NEW S \in V PROVE Deeper(edges, S) \in V
    <3> SUFFICES ASSUME NEW u \in S, u[2] \in DOMAIN edges \ u[1], NEW d \in edges[u[2]]
                 PROVE  <<u[1] \cup {u[2]}, d>> \in (SUBSET U) \X U
      BY DEF Deeper
    <3>1. u[1] \in SUBSET U /\ u[2] \in U /\ d \in U
      OBVIOUS
    <3> HIDE DEF U
    <3> QED
      BY <3>1
  <2> QED
    BY <2>1, <2>2
<1>2. \E f : f = body(f)
  <2>1. \A S \in V : s[S] = Deeper(edges, S)
    OBVIOUS
  <2> HIDE DEF s, V, start
  <2>2. PICK f \in [Nat -> V] : f[0] = start /\ \A n \in Nat \ {0} : f[n] = s[f[n - 1]]
    BY <1>1, Iterates
  <2>3. \A n \in Nat \ {0} : n - 1 \in Nat /\ f[n] = Deeper(edges, f[n - 1])
    BY <2>1, <2>2
  <2>4. f = [n \in Nat |-> f[n]]
    BY <2>2
  <2>5. f = body(f)
    BY <2>2, <2>3, <2>4
  <2> QED
    BY <2>5
<1>3. descents = body(descents)
  BY <1>2
<1>4. HasCycle(edges) <=> \E n \in 0..Cardinality(DOMAIN edges) : \E t \in descents[n] : t[2] \in t[1]
  BY DEF HasCycle
<1> HIDE DEF descents, start
<1>5. \A n \in Nat : descents[n] = IF n = 0 THEN start ELSE Deeper(edges, descents[n - 1])
  BY <1>3
<1>6. descents[0] = start
  BY <1>5
<1>7. \A n \in Nat : descents[n + 1] = Deeper(edges, descents[n])
  <2> SUFFICES ASSUME NEW n \in Nat PROVE descents[n + 1] = Deeper(edges, descents[n])
    OBVIOUS
  <2>1. n + 1 \in Nat /\ n + 1 # 0 /\ (n + 1) - 1 = n
    OBVIOUS
  <2> QED
    BY <1>5, <2>1
<1> QED
  BY <1>4, <1>6, <1>7 DEF start

\* There is a cycle if and only if some identifiers never lead out of their own.
LEMMA CyclesNeverEnd ==
  ASSUME NEW edges, IsFiniteSet(DOMAIN edges)
  PROVE  HasCycle(edges) <=> \E C \in (SUBSET DOMAIN edges) \ {{}} : \A k \in C : edges[k] \cap C # {}
<1> DEFINE D == DOMAIN edges
           last == Cardinality(D)
<1>1. PICK descents : /\ HasCycle(edges) <=> \E n \in 0..last : \E t \in descents[n] : t[2] \in t[1]
                      /\ descents[0] = {<<{}, k>> : k \in D}
                      /\ \A n \in Nat : descents[n + 1] = Deeper(edges, descents[n])
  BY DescentsTell
<1>2. last \in Nat
  BY FS_CardinalityType
<1>3. ASSUME HasCycle(edges)
      PROVE  \E C \in (SUBSET D) \ {{}} : \A k \in C : edges[k] \cap C # {}
  <2> DEFINE Leads(t) == t[1] \subseteq D /\ \A k \in t[1] : edges[k] \cap (t[1] \cup {t[2]}) # {}
             Lead == {n \in Nat : \A t \in descents[n] : Leads(t)}
  <2>1. 0 \in Lead
    BY <1>1
  <2>2. ASSUME NEW n \in Nat, n \in Lead PROVE n + 1 \in Lead
    <3> SUFFICES ASSUME NEW t \in descents[n + 1] PROVE Leads(t)
      OBVIOUS
    <3>1. PICK u \in descents[n] : /\ u[2] \in D \ u[1]
                                   /\ \E d \in edges[u[2]] : t = <<u[1] \cup {u[2]}, d>>
      <4>1. t \in Deeper(edges, descents[n])
        BY <1>1
      <4> HIDE DEF D
      <4> QED
        BY <4>1 DEF Deeper, D
    <3>2. PICK d \in edges[u[2]] : t = <<u[1] \cup {u[2]}, d>>
      BY <3>1
    <3>3. t[1] = u[1] \cup {u[2]} /\ t[2] = d /\ Leads(u)
      BY <2>2, <3>2
    <3> QED
      BY <3>1, <3>2, <3>3
  <2>3. Nat \subseteq Lead
    <3> HIDE DEF Lead
    <3> QED
      BY <2>1, <2>2, NaturalsFollow
  <2>4. PICK n \in 0..last : \E t \in descents[n] : t[2] \in t[1]
    BY <1>1, <1>3
  <2>5. PICK t \in descents[n] : t[2] \in t[1]
    BY <2>4
  <2>6. Leads(t)
    <3>1. n \in Lead
      BY <1>2, <2>3
    <3> HIDE DEF Leads
    <3> QED
      BY <2>5, <3>1
  <2>7. t[1] \in (SUBSET D) \ {{}} /\ \A k \in t[1] : edges[k] \cap t[1] # {}
    BY <2>5, <2>6
  <2> QED
    BY <2>7
<1>4. ASSUME NEW C \in (SUBSET D) \ {{}}, \A k \in C : edges[k] \cap C # {}, ~HasCycle(edges)
      PROVE  FALSE
  <2> DEFINE Path(n, t) == t[1] \subseteq C /\ t[2] \in C /\ IsFiniteSet(t[1]) /\ Cardinality(t[1]) = n
             Walked == {n \in Nat : n <= last => \E t \in descents[n] : Path(n, t)}
  <2>1. 0 \in Walked
    <3>1. PICK k : k \in C
      BY <1>4, Zenon
    <3>2. <<{}, k>> \in descents[0]
      BY <1>1, <3>1
    <3>3. Path(0, <<{}, k>>)
      BY <3>1, FS_EmptySet
    <3> HIDE DEF Path
    <3> QED
      BY <3>2, <3>3
  <2>2. ASSUME NEW n \in Nat, n \in Walked PROVE n + 1 \in Walked
    <3> SUFFICES ASSUME n + 1 <= last PROVE \E t \in descents[n + 1] : Path(n + 1, t)
      OBVIOUS
    <3>1. PICK t \in descents[n] : Path(n, t)
      BY <1>2, <2>2
    <3>2. t[2] \in D \ t[1]
      <4>1. n \in 0..last
        BY <1>2
      <4> QED
        BY <1>1, <1>4, <3>1, <4>1
    <3>3. PICK d \in edges[t[2]] : d \in C
      BY <1>4, <3>1
    <3> DEFINE v == <<t[1] \cup {t[2]}, d>>
    <3>4. v \in descents[n + 1]
      BY <1>1, <3>1, <3>2, <3>3 DEF Deeper
    <3>5. IsFiniteSet(v[1]) /\ Cardinality(v[1]) = n + 1
      BY <3>1, <3>2, FS_AddElement
    <3>6. v[1] \subseteq C /\ v[2] \in C
      BY <3>1, <3>3
    <3> HIDE DEF v
    <3>7. Path(n + 1, v)
      BY <3>5, <3>6
    <3> HIDE DEF Path
    <3> QED
      BY <3>4, <3>7
  <2>3. Nat \subseteq Walked
    <3> HIDE DEF Walked
    <3> QED
      BY <2>1, <2>2, NaturalsFollow
  <2>4. PICK t \in descents[last] : Path(last, t)
    BY <1>2, <2>3
  <2>5. t[1] \subseteq D /\ Cardinality(t[1]) = Cardinality(D)
    BY <2>4
  <2>6. t[1] = D
    <3>1. ASSUME NEW S \in SUBSET D, Cardinality(S) = Cardinality(D) PROVE S = D
      <4> HIDE DEF D
      <4> QED
        BY <3>1, FS_Subset, FS_CardinalityType DEF D
    <3> QED
      BY <2>5, <3>1
  <2>7. t[2] \in t[1] /\ last \in 0..last
    BY <1>2, <2>4, <2>6
  <2> QED
    BY <1>1, <1>4, <2>4, <2>7
<1> QED
  BY <1>3, <1>4

-----------------------------------------------------------------------------
(* Any repository                                                           *)

\* A finite set is put in some order, nothing twice.
LEMMA InSomeOrder ==
  ASSUME NEW S, IsFiniteSet(S)
  PROVE  /\ SetToSeq(S) \in Seq(S) /\ DOMAIN SetToSeq(S) = 1..Cardinality(S)
         /\ Cardinality(S) \in Nat
         /\ \A i, j \in DOMAIN SetToSeq(S) : SetToSeq(S)[i] = SetToSeq(S)[j] => i = j
         /\ ToSet(SetToSeq(S)) = S
<1>1. Cardinality(S) \in Nat
  BY FS_CardinalityType
<1>2. PICK f : f \in Bijection(1..Cardinality(S), S)
  BY FS_CardinalityType DEF ExistsBijection
<1>3. f \in [1..Cardinality(S) -> S] /\ IsInjective(f)
  BY <1>2 DEF Bijection, Injection
<1> DEFINE s == SetToSeq(S)
<1>4. s \in [1..Cardinality(S) -> S] /\ IsInjective(s)
  BY <1>3 DEF SetToSeq
<1> HIDE DEF s
<1>5. s \in Seq(S) /\ DOMAIN s = 1..Cardinality(S)
  BY <1>1, <1>4
<1>6. s \in Surjection(1..Cardinality(S), S)
  <2>1. s \in Injection(1..Cardinality(S), S)
    BY <1>4 DEF Injection
  <2>2. Cardinality(1..Cardinality(S)) = Cardinality(S)
    BY <1>1, FS_Interval
  <2> QED
    BY <2>1, <2>2, FS_Injection
<1>7. ToSet(s) = S
  BY <1>4, <1>6 DEF ToSet, Surjection
<1>8. \A i, j \in DOMAIN s : s[i] = s[j] => i = j
  BY <1>4 DEF IsInjective
<1> QED
  BY <1>1, <1>5, <1>7, <1>8 DEF s

\* What is locked of a package.
Packing(k, r) == [version |-> r[k].version, refs |-> r[k].refs, content |-> k]
LockedAs(k, r) ==
  [key |-> k, version |-> r[k].version, digest |-> Packing(k, r), edges |-> Referenced(r[k], r)]

\* What an archive says when it is published.
IsPublished(a, plugin, r) ==
  LET packed == Packed(plugin, r)
      components == SetToSeq({LockedAs(k, r) : k \in packed})
  IN  /\ a.version = plugin.version /\ a.refs = plugin.refs
      /\ a.bundled = [k \in packed |-> Packing(k, r)]
      /\ a.lock = [root |-> plugin.version, components |-> components]
      /\ a.sbom = [root |-> plugin.version,
                   components |-> [i \in DOMAIN components |->
                     [key |-> components[i].key, version |-> components[i].version,
                      digest |-> components[i].digest]],
                   top |-> Referenced(plugin, r),
                   graph |-> [k \in packed |-> Referenced(r[k], r)]]
      /\ a.provenance = [root |-> plugin.version, subject |-> Subject(a),
                         materials |-> {<<c.key, c.version, c.digest>> : c \in ToSet(components)}]
      /\ a.checksums = Files(a)

LEMMA PublishedIs ==
  ASSUME NEW r, NEW plugin
  PROVE  IsPublished(Publish(plugin, r), plugin, r)
<1> DEFINE packed == Packed(plugin, r)
           bundled == [k \in packed |-> [version |-> r[k].version, refs |-> r[k].refs, content |-> k]]
           Locked(k) == [Component(k, bundled[k]) EXCEPT !.edges = Referenced(r[k], r)]
           components == SetToSeq({Locked(k) : k \in DOMAIN bundled})
           lockFile == [root |-> plugin.version, components |-> components]
           sbom == [root |-> plugin.version,
                    components |-> [i \in DOMAIN components |->
                      [key |-> components[i].key, version |-> components[i].version,
                       digest |-> components[i].digest]],
                    top |-> Referenced(plugin, r),
                    graph |-> [k \in DOMAIN bundled |-> Referenced(r[k], r)]]
           materials == {<<c.key, c.version, c.digest>> : c \in ToSet(components)}
           unsigned == [version |-> plugin.version, refs |-> plugin.refs, bundled |-> bundled, lock |-> lockFile,
                        sbom |-> sbom,
                        provenance |-> [root |-> plugin.version, subject |-> <<>>, materials |-> {}],
                        checksums |-> <<>>]
           provenance == [root |-> plugin.version, subject |-> Subject(unsigned), materials |-> materials]
           unsummed == [unsigned EXCEPT !.provenance = provenance]
           a == [unsummed EXCEPT !.checksums = Files(unsummed)]
<1>1. Publish(plugin, r) = a
  BY DEF Publish
<1>2. {Locked(k) : k \in DOMAIN bundled} = {LockedAs(k, r) : k \in packed}
  <2>1. \A k \in packed : Locked(k) = LockedAs(k, r)
    BY DEF Component, LockedAs, Packing
  <2> HIDE DEF Locked, packed
  <2> QED
    BY <2>1
<1>3. components = SetToSeq({LockedAs(k, r) : k \in packed})
  BY <1>2
<1>4. bundled = [k \in packed |-> Packing(k, r)] /\ DOMAIN bundled = packed
  BY DEF Packing
<1> HIDE DEF components, bundled, packed
<1>5. /\ unsigned.bundled = bundled /\ unsigned.lock = lockFile /\ unsigned.sbom = sbom
      /\ unsigned.version = plugin.version /\ unsigned.refs = plugin.refs
  OBVIOUS
<1>6. /\ unsummed.bundled = bundled /\ unsummed.lock = lockFile /\ unsummed.sbom = sbom
      /\ unsummed.version = plugin.version /\ unsummed.refs = plugin.refs
      /\ unsummed.provenance = provenance
  OBVIOUS
<1>7. /\ a.bundled = bundled /\ a.lock = lockFile /\ a.sbom = sbom
      /\ a.version = plugin.version /\ a.refs = plugin.refs
      /\ a.provenance = provenance /\ a.checksums = Files(unsummed)
  OBVIOUS
<1> HIDE DEF a, unsummed, unsigned, sbom, lockFile
<1>8. Files(a) = Files(unsummed)
  BY <1>6, <1>7 DEF Files
<1>9. Subject(a) = Subject(unsigned)
  BY <1>5, <1>7 DEF Subject
<1> QED
  BY <1>1, <1>3, <1>4, <1>7, <1>8, <1>9 DEF sbom, lockFile, packed, IsPublished

\* A repository of packages and a plugin, whose identifiers are not files.
IsRepository(r) ==
  IsFiniteSet(DOMAIN r) /\ "plugin" \in DOMAIN r /\ DOMAIN r \cap RepositoryFiles = {}

\* What LockIsTheClosure measures archives by.
NeededIn(r) ==
  {k \in DOMAIN r : \A S \in SUBSET DOMAIN r :
     (\A j \in S \cup {"plugin"} : (r[j].refs \ RepositoryFiles) \cap DOMAIN r \subseteq S) => k \in S}
Whole(r) == \A k \in NeededIn(r) \cup {"plugin"} : (r[k].refs \ RepositoryFiles) \subseteq DOMAIN r
Circular(r) == \E C \in (SUBSET NeededIn(r)) \ {{}} : \A k \in C : r[k].refs \cap C # {}

\* The publisher packs what is needed.
LEMMA PackedIsNeeded ==
  ASSUME NEW r, IsRepository(r)
  PROVE  Packed(r["plugin"], r) = NeededIn(r)
<1> DEFINE D == DOMAIN r
           roots == Referenced(r["plugin"], r)
           edges == [k \in D |-> Referenced(r[k], r)]
           P == Reachable(roots, edges)
           Closed(S) == \A j \in S \cup {"plugin"} : (r[j].refs \ RepositoryFiles) \cap D \subseteq S
<1>1. Packed(r["plugin"], r) = P
  BY DEF Packed
<1>2. DOMAIN edges = D /\ IsFiniteSet(D)
  BY DEF IsRepository
<1>3. Shut(roots, edges, P) /\ \A S : Shut(roots, edges, S) => P \subseteq S
  <2> HIDE DEF edges, roots, D
  <2> QED
    BY <1>2, ReachableIsLeast
<1> HIDE DEF P
<1>4. \A k \in D : (r[k].refs \ RepositoryFiles) \cap D = Referenced(r[k], r)
  BY DEF IsRepository, Referenced
<1>5. "plugin" \in D
  BY DEF IsRepository
<1>6. \A S \in SUBSET D : Closed(S) <=> Shut(roots, edges, S)
  <2> SUFFICES ASSUME NEW S \in SUBSET D PROVE Closed(S) <=> Shut(roots, edges, S)
    OBVIOUS
  <2>1. Closed(S) <=> \A j \in S \cup {"plugin"} : Referenced(r[j], r) \subseteq S
    <3> HIDE DEF D
    <3> QED
      BY <1>4, <1>5
  <2>2. Shut(roots, edges, S) <=> roots \subseteq S /\ \A k \in S : Referenced(r[k], r) \subseteq S
    BY <1>2 DEF Shut
  <2> QED
    BY <2>1, <2>2
<1>7. Shut(roots, edges, D)
  BY DEF Shut, Referenced
<1>8. P \in SUBSET D
  BY <1>3, <1>7
<1>9. NeededIn(r) = {k \in D : \A S \in SUBSET D : Closed(S) => k \in S}
  BY DEF NeededIn
<1> HIDE DEF Closed, roots, edges, D
<1>10. P \subseteq NeededIn(r)
  BY <1>3, <1>6, <1>8, <1>9
<1>11. NeededIn(r) \subseteq P
  BY <1>3, <1>6, <1>8, <1>9
<1> QED
  BY <1>1, <1>10, <1>11

\* A published archive is let in if what it needs is there and leads nowhere
\* back, and only then.
LEMMA PublishedHolds ==
  ASSUME NEW r, IsRepository(r)
  PROVE  LET a == Publish(r["plugin"], r)
         IN  /\ DOMAIN a.bundled = NeededIn(r)
             /\ ArchiveIsAdmissible(a) <=> Whole(r) /\ ~Circular(r)
<1> DEFINE plugin == r["plugin"]
           P == Packed(plugin, r)
           roots == Referenced(plugin, r)
           Q == {LockedAs(k, r) : k \in P}
           s == SetToSeq(Q)
           e == [k \in P |-> Referenced(r[k], r)]
<1> PICK a : a = Publish(r["plugin"], r)
  OBVIOUS
<1>1. /\ a.version = plugin.version /\ a.refs = plugin.refs
      /\ a.bundled = [k \in P |-> Packing(k, r)]
      /\ a.lock = [root |-> plugin.version, components |-> s]
      /\ a.sbom = [root |-> plugin.version,
                   components |-> [i \in DOMAIN s |->
                     [key |-> s[i].key, version |-> s[i].version, digest |-> s[i].digest]],
                   top |-> roots,
                   graph |-> e]
      /\ a.provenance = [root |-> plugin.version, subject |-> Subject(a),
                         materials |-> {<<c.key, c.version, c.digest>> : c \in ToSet(s)}]
      /\ a.checksums = Files(a)
  <2>1. IsPublished(a, plugin, r)
    BY PublishedIs
  <2> QED
    BY <2>1 DEF IsPublished
<1>2. P = NeededIn(r) /\ P \subseteq DOMAIN r /\ IsFiniteSet(P)
  <2>1. P = NeededIn(r)
    BY PackedIsNeeded
  <2>2. NeededIn(r) \subseteq DOMAIN r
    BY DEF NeededIn
  <2> HIDE DEF P
  <2> QED
    BY <2>1, <2>2, FS_Subset DEF IsRepository
<1> HIDE DEF P
<1>3. IsFiniteSet(Q)
  <2>1. [k \in P |-> LockedAs(k, r)] \in Surjection(P, Q)
    BY DEF Surjection
  <2> QED
    BY <1>2, <2>1, FS_Surjection
<1>4. /\ s \in Seq(Q) /\ DOMAIN s = 1..Cardinality(Q) /\ Cardinality(Q) \in Nat
      /\ \A i, j \in DOMAIN s : s[i] = s[j] => i = j
      /\ ToSet(s) = Q
  <2> HIDE DEF Q
  <2> QED
    BY <1>3, InSomeOrder
<1> HIDE DEF s
<1>5. \A k \in P : /\ LockedAs(k, r).key = k /\ LockedAs(k, r).version = r[k].version
                   /\ LockedAs(k, r).digest = Packing(k, r)
                   /\ LockedAs(k, r).edges = Referenced(r[k], r)
  BY DEF LockedAs
<1>6. \A i \in DOMAIN s : s[i] \in Q
  BY <1>4
<1>7. Keys(s) = P
  <2>1. \A c \in Q : c.key \in P
    BY <1>5
  <2>2. \A k \in P : \E i \in DOMAIN s : s[i] = LockedAs(k, r)
    BY <1>4 DEF ToSet
  <2> QED
    BY <1>5, <1>6, <2>1, <2>2 DEF Keys
<1>8. \A c \in Q : c = LockedAs(c.key, r) /\ c.key \in P
  BY <1>5
<1>9. Distinct(s, KeyOf)
  BY <1>4, <1>6, <1>8 DEF Distinct, KeyOf
<1>10. a.checksums = Files(a) /\ a.lock.root = a.version /\ DOMAIN a.bundled = P /\ a.lock.components = s
  BY <1>1
<1>11. ASSUME NEW c \in Q
       PROVE  ComponentIsBundled(c, a) <=> Named(r[c.key].refs) = Referenced(r[c.key], r)
  <2> PICK k \in P : c = LockedAs(k, r) /\ c.key = k
    BY <1>8
  <2>1. a.bundled[k] = Packing(k, r)
    BY <1>1
  <2>2. [Component(k, Packing(k, r)) EXCEPT !.edges = Named(@)]
          = [key |-> k, version |-> r[k].version, digest |-> Packing(k, r), edges |-> Named(r[k].refs)]
    BY DEF Component, Packing
  <2>3. ComponentIsBundled(c, a) <=>
          LockedAs(k, r) = [key |-> k, version |-> r[k].version, digest |-> Packing(k, r), edges |-> Named(r[k].refs)]
    BY <1>10, <2>1, <2>2 DEF ComponentIsBundled
  <2> QED
    BY <2>3 DEF LockedAs
<1>12. SbomHolds(a) <=> Named(plugin.refs) = roots
  <2> DEFINE Listed(c) == [key |-> c.key, version |-> c.version, digest |-> c.digest]
             items == [i \in DOMAIN s |-> Listed(s[i])]
  <2>1. /\ a.sbom.root = a.lock.root /\ a.sbom.components = items
        /\ a.sbom.top = roots /\ a.sbom.graph = e /\ a.refs = plugin.refs
    BY <1>1
  <2>2. Len(s) \in Nat /\ DOMAIN s = 1..Len(s) /\ DOMAIN items = DOMAIN s
    BY <1>4
  <2>3. Len(items) = Len(s)
    BY <2>2
  <2>4. ToSet(items) = {Listed(c) : c \in ToSet(s)}
    <3> HIDE DEF Listed
    <3>1. ToSet(items) = {items[i] : i \in DOMAIN s}
      BY DEF ToSet
    <3>2. \A i \in DOMAIN s : items[i] = Listed(s[i])
      OBVIOUS
    <3> HIDE DEF items
    <3> QED
      BY <3>1, <3>2 DEF ToSet
  <2>5. \A c \in ToSet(s) : e[c.key] = c.edges
    BY <1>4, <1>5, <1>8
  <2>6. DOMAIN a.sbom.graph = Keys(s)
    BY <1>7, <2>1
  <2> HIDE DEF items, e
  <2> QED
    BY <1>10, <2>1, <2>3, <2>4, <2>5, <2>6 DEF SbomHolds
<1>13. ProvenanceHolds(a)
  BY <1>1 DEF ProvenanceHolds
<1>14. ASSUME Named(plugin.refs) = roots
       PROVE  LockIsClosed(a.lock, Named(a.refs)) <=> ~Circular(r)
  <2> DEFINE edges == [k \in Keys(s) |-> (CHOOSE c \in ToSet(s) : c.key = k).edges]
             all == [k \in DOMAIN r |-> Referenced(r[k], r)]
  <2>1. edges = e
    <3>1. ASSUME NEW k \in P
          PROVE  (CHOOSE c \in ToSet(s) : c.key = k) = LockedAs(k, r)
      <4>1. LockedAs(k, r) \in ToSet(s) /\ LockedAs(k, r).key = k
        BY <1>4, <1>5
      <4>2. \A c \in ToSet(s) : c.key = k => c = LockedAs(k, r)
        BY <1>4, <1>8
      <4> HIDE DEF Q
      <4> QED
        BY <4>1, <4>2
    <3>2. \A k \in P : (CHOOSE c \in ToSet(s) : c.key = k).edges = Referenced(r[k], r)
      BY <1>5, <3>1
    <3> QED
      BY <1>7, <3>2
  <2>2. LockIsClosed(a.lock, Named(a.refs)) <=> Reachable(roots, e) = P /\ ~HasCycle(e)
    <3> HIDE DEF e
    <3> QED
      BY <1>1, <1>7, <1>10, <1>14, <2>1 DEF LockIsClosed
  <2>3. DOMAIN e = P
    OBVIOUS
  <2>4. Reachable(roots, e) = P
    <3>1. Shut(roots, all, P) /\ \A S : Shut(roots, all, S) => P \subseteq S
      <4>1. P = Reachable(roots, all)
        BY DEF P, Packed
      <4>2. IsFiniteSet(DOMAIN all)
        BY DEF IsRepository
      <4> HIDE DEF all, roots
      <4> QED
        BY <4>1, <4>2, ReachableIsLeast
    <3> DEFINE R == Reachable(roots, e)
    <3>2. Shut(roots, e, R) /\ \A S : Shut(roots, e, S) => R \subseteq S
      <4> HIDE DEF e, roots
      <4> QED
        BY <1>2, <2>3, ReachableIsLeast
    <3> HIDE DEF R, roots
    <3>3. Shut(roots, e, P)
      BY <1>2, <2>3, <3>1 DEF Shut
    <3>4. Shut(roots, all, R)
      BY <1>2, <2>3, <3>2, <3>3 DEF Shut
    <3> QED
      BY <3>1, <3>2, <3>3, <3>4 DEF R
  <2>5. HasCycle(e) <=> Circular(r)
    <3>1. HasCycle(e) <=> \E C \in (SUBSET P) \ {{}} : \A k \in C : e[k] \cap C # {}
      <4>1. IsFiniteSet(DOMAIN e)
        BY <1>2, <2>3
      <4> HIDE DEF e
      <4>2. HasCycle(e) <=> \E C \in (SUBSET DOMAIN e) \ {{}} : \A k \in C : e[k] \cap C # {}
        BY <4>1, CyclesNeverEnd
      <4> QED
        BY <2>3, <4>2
    <3>2. \A C \in SUBSET P : \A k \in C : e[k] \cap C = r[k].refs \cap C
      BY <1>2 DEF Referenced
    <3> HIDE DEF e, P
    <3>3. \A C \in (SUBSET P) \ {{}} :
            (\A k \in C : e[k] \cap C # {}) <=> (\A k \in C : r[k].refs \cap C # {})
      BY <3>2
    <3> QED
      BY <1>2, <3>1, <3>3 DEF Circular
  <2> QED
    BY <2>2, <2>4, <2>5
<1>15. \A k \in DOMAIN r : (r[k].refs \ RepositoryFiles) \subseteq DOMAIN r <=> Named(r[k].refs) = Referenced(r[k], r)
  BY DEF IsRepository, Named, Referenced
<1>16. "plugin" \in DOMAIN r
  BY DEF IsRepository
<1>17. Whole(r) <=> /\ \A c \in Q : ComponentIsBundled(c, a)
                    /\ Named(plugin.refs) = roots
  <2>1. (\A c \in Q : ComponentIsBundled(c, a)) <=> \A k \in P : Named(r[k].refs) = Referenced(r[k], r)
    <3>1. \A k \in P : LockedAs(k, r) \in Q /\ LockedAs(k, r).key = k
      BY <1>5
    <3> HIDE DEF Q
    <3> QED
      BY <1>8, <1>11, <3>1
  <2> QED
    BY <1>2, <1>15, <1>16, <2>1 DEF Whole
<1>18. ArchiveIsAdmissible(a) <=>
         /\ \A c \in Q : ComponentIsBundled(c, a)
         /\ LockIsClosed(a.lock, Named(a.refs))
         /\ Named(plugin.refs) = roots
  BY <1>4, <1>7, <1>9, <1>10, <1>12, <1>13 DEF ArchiveIsAdmissible, LockHolds
<1> QED
  BY <1>2, <1>10, <1>14, <1>17, <1>18

\* Whatever repository a plugin is published from: what the repository lets in
\* makes an archive that the client lets in; it lets in one whose closure is
\* all there and has no cycle, and no other, and the archive holds the closure.
THEOREM PublishedArchivesAreClosures ==
  ASSUME question.kind = "repository", IsRepository(question.repository)
  PROVE  LockIsTheClosure
<1> DEFINE r == question.repository
           a == Publish(r["plugin"], r)
<1>1. /\ DOMAIN a.bundled = NeededIn(r)
      /\ ArchiveIsAdmissible(a) <=> Whole(r) /\ ~Circular(r)
  BY PublishedHolds
<1>2. ASSUME GraphIsAdmissible(r)
      PROVE  Whole(r) /\ ~Circular(r)
  <2>1. NeededIn(r) \subseteq DOMAIN r /\ "plugin" \in DOMAIN r
    BY DEF NeededIn, IsRepository
  <2>2. Whole(r)
    BY <1>2, <2>1 DEF GraphIsAdmissible, ReferenceIsAdmissible, Whole
  <2>3. ASSUME NEW C \in (SUBSET NeededIn(r)) \ {{}}, \A k \in C : r[k].refs \cap C # {}
        PROVE  FALSE
    <3>1. ~HasCycle(EdgesOf(r)) /\ DOMAIN EdgesOf(r) = DOMAIN r
      BY <1>2 DEF GraphIsAdmissible, EdgesOf
    <3>2. IsFiniteSet(DOMAIN EdgesOf(r))
      BY <3>1 DEF IsRepository
    <3>3. \A k \in C : EdgesOf(r)[k] \cap C # {}
      BY <2>1, <2>3 DEF EdgesOf, IsRepository
    <3> HIDE DEF r
    <3> QED
      BY <2>1, <3>1, <3>2, <3>3, CyclesNeverEnd
  <2> QED
    BY <2>2, <2>3 DEF Circular
<1>3. ArchiveIsAdmissible(a) \in BOOLEAN
  BY DEF ArchiveIsAdmissible
<1> QED
  BY <1>1, <1>2, <1>3 DEF LockIsTheClosure, NeededIn, Whole, Circular

\* An archive that was let in, whoever made it, bundles what its plugin names,
\* directly or not, all of it and nothing else; nothing leads back to itself,
\* and every lock entry is the digest of what is bundled (validateArtifactMetadata).
THEOREM AdmittedArchivesAreClosures ==
  ASSUME NEW a, NEW T, a.lock.components \in Seq(T), ArchiveIsAdmissible(a)
  PROVE  LET bundled == DOMAIN a.bundled
             edges == [k \in bundled |-> Named(a.bundled[k].refs)]
         IN  /\ Shut(Named(a.refs), edges, bundled)
             /\ \A S : Shut(Named(a.refs), edges, S) => bundled \subseteq S
             /\ \A C \in (SUBSET bundled) \ {{}} : \E k \in C : edges[k] \cap C = {}
             /\ \A c \in ToSet(a.lock.components) : c.digest = a.bundled[c.key]
             /\ Keys(a.lock.components) = bundled
<1> DEFINE s == a.lock.components
           B == DOMAIN a.bundled
           Edges(k) == Named(a.bundled[k].refs)
           Locked(k) == (CHOOSE c \in ToSet(s) : c.key = k).edges
           edges == [k \in B |-> Edges(k)]
           locked == [k \in Keys(s) |-> Locked(k)]
<1>1. /\ \A c \in ToSet(s) : ComponentIsBundled(c, a)
      /\ B \subseteq Keys(s) /\ LockIsClosed(a.lock, Named(a.refs))
  BY DEF ArchiveIsAdmissible, LockHolds
<1>2. ASSUME NEW c \in ToSet(s)
      PROVE  c.key \in B /\ c.digest = a.bundled[c.key] /\ c.edges = Named(a.bundled[c.key].refs)
  <2>1. /\ c.key \in B
        /\ c = [Component(c.key, a.bundled[c.key]) EXCEPT !.edges = Named(@)]
    BY <1>1 DEF ComponentIsBundled
  <2>2. [Component(c.key, a.bundled[c.key]) EXCEPT !.edges = Named(@)]
          = [key |-> c.key, version |-> a.bundled[c.key].version, digest |-> a.bundled[c.key],
             edges |-> Named(a.bundled[c.key].refs)]
    BY DEF Component
  <2> QED
    BY <2>1, <2>2
<1>3. Keys(s) = {c.key : c \in ToSet(s)}
  BY DEF Keys, ToSet
<1>4. Keys(s) = B
  BY <1>1, <1>2, <1>3
<1>5. IsFiniteSet(B)
  <2>1. DOMAIN s = 1..Len(s) /\ Len(s) \in Nat
    OBVIOUS
  <2>2. [i \in 1..Len(s) |-> s[i].key] \in Surjection(1..Len(s), Keys(s))
    BY <2>1 DEF Surjection, Keys
  <2>3. IsFiniteSet(1..Len(s))
    BY <2>1, FS_Interval
  <2> QED
    BY <1>4, <2>2, <2>3, FS_Surjection
<1>6. locked = edges
  <2>1. ASSUME NEW k \in Keys(s)
        PROVE  (CHOOSE c \in ToSet(s) : c.key = k).edges = Named(a.bundled[k].refs)
    <3>1. \E c \in ToSet(s) : c.key = k
      BY <1>3
    <3> DEFINE c == CHOOSE x \in ToSet(s) : x.key = k
    <3>2. c \in ToSet(s) /\ c.key = k
      BY <3>1
    <3> HIDE DEF c
    <3>3. c.edges = Named(a.bundled[k].refs)
      BY <1>2, <3>2
    <3> QED
      BY <3>3 DEF c
  <2>2. \A k \in B : Locked(k) = Edges(k)
    BY <1>4, <2>1
  <2> HIDE DEF Locked, Edges, s, B
  <2> QED
    BY <1>4, <2>2
<1>7. Reachable(Named(a.refs), edges) = B /\ ~HasCycle(edges)
  <2> HIDE DEF edges, B, s
  <2> QED
    BY <1>1, <1>4, <1>6 DEF LockIsClosed, s
<1>8. DOMAIN edges = B /\ IsFiniteSet(DOMAIN edges)
  BY <1>5
<1>9. /\ Shut(Named(a.refs), edges, B)
      /\ \A S : Shut(Named(a.refs), edges, S) => B \subseteq S
  <2> HIDE DEF edges, B
  <2> QED
    BY <1>7, <1>8, ReachableIsLeast
<1>10. \A C \in (SUBSET B) \ {{}} : \E k \in C : edges[k] \cap C = {}
  <2> HIDE DEF edges, B
  <2>1. ~\E C \in (SUBSET DOMAIN edges) \ {{}} : \A k \in C : edges[k] \cap C # {}
    BY <1>7, <1>8, CyclesNeverEnd
  <2> QED
    BY <1>8, <2>1
<1> QED
  BY <1>2, <1>4, <1>9, <1>10

-----------------------------------------------------------------------------
(* Any manifest that was admitted                                           *)

\* The tools of a plugin, there and authenticated where they can be.
MemberOf(t, access, means) ==
  [tool |-> t, manifest |-> TRUE, access |-> access,
   status |-> IF means = "none" THEN "none" ELSE "authenticated"]
MembersOf(tools, access, means) == {MemberOf(t, access, means) : t \in tools}

AreGoverned(providers, tools, access, means) ==
  \A p \in {providers[i] : i \in DOMAIN providers} :
    ProviderIsGoverned(p, [t \in tools |-> [access |-> access, auth |-> means]])

AllIsWell == [coverage |-> "complete", ready |-> TRUE, setup |-> FALSE]

\* Providers that are governed and all there are ready.
LEMMA ProvidersAreUsable ==
  ASSUME NEW providers, NEW tools, NEW access, NEW means, NEW declared, IsFiniteSet(tools),
         ProvidersAreAdmissible(providers, tools, declared), providers # <<>>,
         AreGoverned(providers, tools, access, means)
  PROVE  CompositeStatus(providers, SetToSeq(MembersOf(tools, access, means))) = AllIsWell
<1> DEFINE One(t) == MemberOf(t, access, means)
           members == MembersOf(tools, access, means)
           closure == SetToSeq(members)
<1>1. IsFiniteSet(members)
  <2>1. [t \in tools |-> One(t)] \in Surjection(tools, members)
    BY DEF Surjection, MembersOf
  <2> QED
    BY <2>1, FS_Surjection
<1>2. \A t \in tools : /\ One(t).tool = t /\ One(t).manifest /\ One(t).access = access
                       /\ means # "none" => One(t).status = "authenticated"
  BY DEF MemberOf
<1>9. members = {One(t) : t \in tools}
  BY DEF MembersOf
<1> HIDE DEF One, members
<1>3. /\ \A i, j \in DOMAIN closure : closure[i] = closure[j] => i = j
      /\ ToSet(closure) = members
  <2> QED
    BY <1>1, InSomeOrder
<1>4. Distinct(closure, ToolOf)
  <2>1. \A i \in DOMAIN closure : closure[i] \in members
    BY <1>3 DEF ToSet
  <2>2. \A i \in DOMAIN closure : closure[i] = One(closure[i].tool)
    BY <1>2, <1>9, <2>1
  <2> HIDE DEF closure
  <2> QED
    BY <1>3, <2>2 DEF Distinct, ToolOf
<1>5. ASSUME NEW i \in DOMAIN providers PROVE ProviderIsReady(providers[i], closure)
  <2>1. providers[i].tool \in tools
    BY DEF ProvidersAreAdmissible, ToolsOf
  <2> DEFINE target == [access |-> access, auth |-> means]
  <2>2. means # "none" /\ providers[i].access = access
    <3>1. ProviderIsGoverned(providers[i], [t \in tools |-> target])
      BY DEF AreGoverned
    <3>2. [t \in tools |-> target][providers[i].tool] = target /\ DOMAIN [t \in tools |-> target] = tools
      BY <2>1
    <3>3. target.auth # "none" /\ providers[i].access = target.access
      <4> HIDE DEF target
      <4> QED
        BY <2>1, <3>1, <3>2 DEF ProviderIsGoverned
    <3> QED
      BY <3>3
  <2>3. One(providers[i].tool) \in ToSet(closure)
    BY <1>3, <1>9, <2>1
  <2>4. PICK j \in DOMAIN closure : closure[j] = One(providers[i].tool)
    BY <2>3 DEF ToSet
  <2> HIDE DEF closure
  <2> QED
    BY <1>2, <2>1, <2>2, <2>4 DEF ProviderIsReady
<1> DEFINE missing == {providers[i].requirement :
                         i \in {j \in DOMAIN providers : ~ProviderIsReady(providers[j], closure)}}
<1>6. missing = {}
  <2> HIDE DEF closure
  <2> QED
    BY <1>5
<1>7. CompositeStatus(providers, closure)
        = [coverage |-> Coverage(missing), ready |-> "required" \notin missing, setup |-> missing # {}]
  <2> HIDE DEF closure
  <2> QED
    BY <1>4 DEF CompositeStatus
<1> HIDE DEF missing, closure
<1>8. CompositeStatus(providers, closure) = AllIsWell
  BY <1>6, <1>7 DEF Coverage, AllIsWell
<1> QED
  BY <1>8 DEF closure, members

\* Two bindings of a package pin the same version of it.
OnePin(bindings) ==
  \A i, j \in DOMAIN bindings :
    /\ bindings[i].availability = "resolved" /\ bindings[j].availability = "resolved"
    /\ bindings[i].package = bindings[j].package
    => bindings[i].version = bindings[j].version

AreNamed(dependencies) == \A d \in dependencies : d[2] # ""

IsFunction(f) == f = [x \in DOMAIN f |-> f[x]]

\* A file that is not there, or does not parse, is no profile and lists no tools.
FilesAreTold ==
  /\ NotGiven # Unreadable /\ ~IsFunction(NotGiven) /\ ~IsFunction(Unreadable)
  /\ \A f : IsFunction(f) => f \notin NotGiven /\ f \notin Unreadable

\* What an adapter states of a contract holds until it expires.
LEMMA AdaptersAttest ==
  ASSUME NEW contract, NEW given, contract.model = {"m"}, given # NotGiven,
         given.signed, given.contract = contract, given.issued = Skew + 1,
         given.expires = Skew + 1 + Day, given.capabilities = {"m", "n"}
  PROVE  Attested(contract, given, TRUE, Skew + Day)
<1>1. Day \in Nat \ {0} /\ Skew \in Nat
  BY AgentRulesAssumption
<1>2. {"m"} \subseteq {"m", "n"} /\ {"m", "n"} # {}
  OBVIOUS
<1>4. /\ 0 < Skew + 1 /\ Skew + 1 <= Skew + Day + Skew /\ Skew + Day < Skew + 1 + Day
      /\ Skew + 1 < Skew + 1 + Day /\ Skew + 1 + Day - (Skew + 1) <= Day
  BY <1>1
<1>5. contract.model \subseteq given.capabilities /\ given.capabilities # {}
  BY <1>2
<1>6. /\ 0 < given.issued /\ given.issued <= Skew + Day + Skew /\ Skew + Day < given.expires
      /\ given.issued < given.expires /\ given.expires - given.issued <= Day
  BY <1>1, <1>4
<1>7. ASSUME NEW now, now = Skew + Day PROVE Attested(contract, given, TRUE, now)
  BY <1>5, <1>6, <1>7 DEF Attested
<1> QED
  BY <1>7

LEMMA ContractsAreUsable ==
  ASSUME NEW q, NEW T, q.bindings \in Seq(T), OnePin(q.bindings), AreNamed(q.dependencies),
         FilesAreTold,
         ContractIsAdmissible([selection |-> "runtime-selected", model |-> {"m"}, bindings |-> q.bindings],
                              q.dependencies)
  PROVE  AgentOfContract(q) = "ready" <=>
           \A i \in DOMAIN q.bindings :
             q.bindings[i].requirement = "required" => q.bindings[i].availability = "resolved"
<1> DEFINE declared == {q.bindings[i] : i \in DOMAIN q.bindings}
           BoundAs(b) == [name |-> b.name, kind |-> b.kind, package |-> b.package, version |-> b.version,
                         requirement |-> b.requirement, access |-> b.access,
                         available |-> b.availability = "resolved"]
           pinned == {b \in declared : b.availability = "resolved"}
           packages == [p \in {b.package : b \in pinned} |->
                          [version |-> (CHOOSE b \in pinned : b.package = p).version, usability |-> "usable-now"]]
           agent == [AgentOf(Steady) EXCEPT
                       !.bindings = {BoundAs(b) : b \in declared},
                       !.dependencies = {d[2] : d \in {e \in q.dependencies : e[1] = "skill"}}]
           contract == Compile(agent, "generic", packages)
           base == AgentQuestion(Steady, "usable-now", {}, Writes, TRUE)
           disk == [base.installed EXCEPT !.contract = contract, !.packages = packages]
           options == [base.options EXCEPT !.attestation.contract = contract]
<1>1. AgentOfContract(q) = Preflight(agent, disk, options)
  BY DEF AgentOfContract
<1>2. /\ agent.orchestrated /\ agent.bindings = {BoundAs(b) : b \in declared}
      /\ agent.dependencies = {d[2] : d \in {e \in q.dependencies : e[1] = "skill"}}
      /\ agent.memory = "none" /\ agent.governance = "none" /\ agent.model = {"m"}
  BY DEF AgentOf
<1>3. /\ disk.receipt /\ disk.closure /\ disk.spec /\ disk.contract = contract /\ disk.packages = packages
      /\ disk.memory
  BY DEF AgentQuestion
<1>4. /\ options.runtime = "generic" /\ options.overrides = NotGiven /\ options.memory = NotGiven
      /\ options.governance = Writes /\ options.approve /\ options.trusted /\ options.stateDir
      /\ options.now = Skew + Day
      /\ options.attestation = [signed |-> TRUE, contract |-> contract, issued |-> Skew + 1,
                                expires |-> Skew + 1 + Day, capabilities |-> {"m", "n"}]
  BY DEF AgentQuestion
<1>0. contract.model = agent.model
  BY DEF Compile
<1>5. IsFunction(contract)
  <2>1. \A a, b, c, d, e, f, g : IsFunction([agent |-> a, runtime |-> b, model |-> c, memory |-> d,
                                             governance |-> e, status |-> f, bindings |-> g])
    BY DEF IsFunction
  <2>2. \E a, b, c, d, e, f, g : contract = [agent |-> a, runtime |-> b, model |-> c, memory |-> d,
                                             governance |-> e, status |-> f, bindings |-> g]
    BY Zenon DEF Compile
  <2> HIDE DEF contract
  <2> QED
    BY <2>1, <2>2
<1>6. contract # NotGiven
  <2> HIDE DEF contract
  <2> QED
    BY <1>5 DEF FilesAreTold
<1> HIDE DEF agent, disk, options
<1>7. IsFunction(Writes) /\ IsFunction(options.attestation)
  <2>1. IsFunction(Writes)
    BY DEF Writes, IsFunction
  <2>2. \A x : IsFunction([signed |-> TRUE, contract |-> x, issued |-> Skew + 1,
                           expires |-> Skew + 1 + Day, capabilities |-> {"m", "n"}])
    BY DEF IsFunction
  <2> HIDE DEF contract
  <2> QED
    BY <1>4, <2>1, <2>2
<1>8. /\ Writes # NotGiven /\ Writes # Unreadable /\ options.attestation # NotGiven
      /\ NotGiven # Unreadable
  BY <1>7 DEF FilesAreTold
<1>9. GovernanceOf(agent, disk, options) = Writes /\ Writes.writes /\ ~Writes.approval
  BY <1>4, <1>8 DEF GovernanceOf, Writes
<1>10. ~Unparsed(agent, disk, options)
  BY <1>2, <1>4, <1>8, <1>9 DEF Unparsed
<1>11. Attested(contract, options.attestation, options.trusted, options.now)
  <2>1. contract.model = {"m"}
    BY <1>0, <1>2
  <2> HIDE DEF contract
  <2>2. /\ options.attestation.signed /\ options.attestation.contract = contract
        /\ options.attestation.issued = Skew + 1 /\ options.attestation.expires = Skew + 1 + Day
        /\ options.attestation.capabilities = {"m", "n"}
    BY <1>4
  <2>3. Attested(contract, options.attestation, TRUE, Skew + Day)
    BY <1>8, <2>1, <2>2, AdaptersAttest
  <2> QED
    BY <1>4, <2>3 DEF Attested
<1>12. /\ \A b \in declared : BindingIsAdmissible(b, q.dependencies)
       /\ q.dependencies \subseteq {<<b.kind, b.package>> : b \in declared}
  BY DEF ContractIsAdmissible, ToSet
<1>13. IsFiniteSet(agent.bindings)
  <2>1. DOMAIN q.bindings = 1..Len(q.bindings) /\ Len(q.bindings) \in Nat
    OBVIOUS
  <2>2. [i \in 1..Len(q.bindings) |-> BoundAs(q.bindings[i])] \in Surjection(1..Len(q.bindings), agent.bindings)
    <3>1. agent.bindings = {BoundAs(q.bindings[i]) : i \in 1..Len(q.bindings)}
      BY <1>2, <2>1
    <3> HIDE DEF BoundAs
    <3> QED
      BY <3>1 DEF Surjection
  <2>3. IsFiniteSet(1..Len(q.bindings))
    BY <2>1, FS_Interval
  <2> QED
    BY <2>2, <2>3, FS_Surjection
<1>14. \A b \in declared : /\ BoundAs(b).requirement = b.requirement /\ BoundAs(b).package = b.package
                           /\ BoundAs(b).version = b.version
                           /\ BoundAs(b).available <=> b.availability = "resolved"
  OBVIOUS
<1> HIDE DEF BoundAs
<1>15. \A b \in agent.bindings : b.requirement \in {"required", "optional"}
  <2>1. \A b \in declared : b.requirement \in {"required", "optional"}
    BY <1>12, Zenon DEF BindingIsAdmissible
  <2> QED
    BY <1>2, <1>14, <2>1
<1>16. DOMAIN packages = {b.package : b \in pinned}
  OBVIOUS
<1>17. agent.dependencies \subseteq DOMAIN packages
  <2> SUFFICES ASSUME NEW d \in q.dependencies PROVE d[2] \in DOMAIN packages
    BY <1>2
  <2>1. PICK b \in declared : d = <<b.kind, b.package>>
    BY <1>12
  <2>2. b.package = d[2]
    BY <2>1
  <2>3. b.availability = "resolved" /\ b \in pinned
    <3>1. BindingIsAdmissible(b, q.dependencies) /\ d[2] # ""
      BY <1>12, Zenon DEF AreNamed
    <3>2. b.availability = "resolved"
      BY <2>2, <3>1, Zenon DEF BindingIsAdmissible
    <3> QED
      BY <3>2, Zenon
  <2> HIDE DEF pinned, packages
  <2> QED
    BY <1>16, <2>2, <2>3
<1>18. ASSUME NEW b \in pinned
       PROVE  /\ b.package \in DOMAIN packages /\ packages[b.package].version = b.version
              /\ packages[b.package].usability = "usable-now"
  <2> DEFINE c == CHOOSE x \in pinned : x.package = b.package
  <2>1. c \in pinned /\ c.package = b.package
    OBVIOUS
  <2>2. c.version = b.version
    <3> HIDE DEF c
    <3> QED
      BY <2>1 DEF OnePin
  <2>3. b.package \in DOMAIN packages
    BY <1>16
  <2>4. packages[b.package] = [version |-> c.version, usability |-> "usable-now"]
    BY <1>16
  <2> HIDE DEF c, packages, pinned
  <2> QED
    BY <2>2, <2>3, <2>4
<1>19. InOrder(agent, packages, disk, options)
  <2>1. /\ disk.contract = Compile(agent, options.runtime, packages)
        /\ Attested(disk.contract, options.attestation, options.trusted, options.now)
    BY <1>3, <1>4, <1>11
  <2>2. disk.contract # NotGiven
    BY <1>3, <1>6
  <2>3. ~GovernanceOf(agent, disk, options).approval
    BY <1>9
  <2> HIDE DEF contract, packages
  <2> QED
    BY <1>2, <1>3, <1>4, <1>10, <1>13, <1>15, <1>17, <2>1, <2>2, <2>3 DEF InOrder
<1>20. ASSUME NEW i \in DOMAIN q.bindings, q.bindings[i].requirement = "required",
              Preflight(agent, disk, options) = "ready"
       PROVE  q.bindings[i].availability = "resolved"
  <2>1. BoundAs(q.bindings[i]) \in agent.bindings /\ q.bindings[i] \in declared
    BY <1>2
  <2>2. disk.contract = Compile(agent, "generic", packages) /\ agent.orchestrated
    BY <1>2, <1>3
  <2> HIDE DEF contract, packages, declared
  <2>3. MayBeUsed(BoundAs(q.bindings[i]), packages, disk, GovernanceOf(agent, disk, options))
    <3>1. BoundAs(q.bindings[i]).requirement = "required"
      BY <1>14, <1>20, <2>1
    <3> QED
      BY <1>20, <2>1, <2>2, <3>1, ReadyAgentsAreAccountable
  <2> QED
    BY <1>14, <2>1, <2>3 DEF MayBeUsed
<1>21. ASSUME \A i \in DOMAIN q.bindings :
                q.bindings[i].requirement = "required" => q.bindings[i].availability = "resolved"
       PROVE  Preflight(agent, disk, options) = "ready"
  <2>1. ASSUME NEW a \in agent.bindings, a.requirement = "required"
        PROVE  MayBeUsed(a, packages, disk, GovernanceOf(agent, disk, options))
    <3>1. PICK b \in declared : a = BoundAs(b)
      BY <1>2
    <3>2. b.requirement = "required"
      BY <1>14, <2>1, <3>1
    <3>3. b.availability = "resolved"
      BY <1>21, <3>2
    <3>4. b \in pinned
      BY <3>3
    <3>5. a.available /\ Pinned(a, packages) /\ packages[a.package].usability = "usable-now"
      <4> HIDE DEF packages, pinned, declared
      <4> QED
        BY <1>14, <1>18, <3>1, <3>3, <3>4 DEF Pinned
    <3> HIDE DEF packages
    <3> QED
      BY <1>9, <3>5 DEF MayBeUsed
  <2> HIDE DEF packages
  <2> QED
    BY <1>19, <2>1, AccountableAgentsAreReady
<1> QED
  BY <1>1, <1>20, <1>21

\* Whatever manifest is admitted: a driver loads for each runtime of its package,
\* the providers of a plugin can all be ready, and an agent whose pinned packages
\* are there is ready unless a binding it requires is declared unavailable.
THEOREM AdmissionsAreUsable ==
  ASSUME NEW T, FilesAreTold,
         question.kind = "providers" => IsFiniteSet(question.tools),
         question.kind = "contract" => /\ question.bindings \in Seq(T) /\ OnePin(question.bindings)
                                       /\ AreNamed(question.dependencies)
  PROVE  AdmittedIsUsable
<1>1. ASSUME question.kind = "driver",
             DriverIsAdmissible(question.driver, "custom", "custom", question.runtimes)
      PROVE  \A r \in question.runtimes : DriverIsLoadable(question.driver, "custom", "custom", r)
  BY <1>1 DEF DriverIsAdmissible, DriverIsLoadable, PathIsContained, CommandIsPinnable
<1>2. ASSUME question.kind = "providers",
             ProvidersAreAdmissible(question.providers, question.tools, question.declared),
             AreGoverned(question.providers, question.tools, question.access, question.auth),
             question.providers # <<>>
      PROVE  CompositeStatus(question.providers,
               SetToSeq(MembersOf(question.tools, question.access, question.auth))) = AllIsWell
  <2>1. IsFiniteSet(question.tools)
    BY <1>2
  <2> QED
    BY <1>2, <2>1, ProvidersAreUsable
<1>3. ASSUME question.kind = "contract",
             ContractIsAdmissible([selection |-> "runtime-selected", model |-> {"m"}, bindings |-> question.bindings],
                                  question.dependencies)
      PROVE  (AgentOfContract(question) = "ready") =
               (\A i \in DOMAIN question.bindings :
                  question.bindings[i].requirement = "required" => question.bindings[i].availability = "resolved")
  BY <1>3, ContractsAreUsable
<1> QED
  BY <1>1, <1>2, <1>3, Zenon DEF AdmittedIsUsable, AreGoverned, MembersOf, MemberOf, AllIsWell
-----------------------------------------------------------------------------
(* Any binding beside a steady one                                          *)

IsProfile(g) == IsFunction(g) /\ g.approval \in BOOLEAN /\ g.writes \in BOOLEAN

\* A binding of the package p/it, whatever else it is, and what it is asked with.
IsAskedOf(b, authenticated, g, approve) ==
  /\ b # Steady /\ b.package = "p/it" /\ b.version = 1 /\ b.available \in BOOLEAN
  /\ b.requirement \in {"required", "optional"}
  /\ authenticated \in {{}, {"p/it"}} /\ approve \in BOOLEAN
  /\ g = NotGiven \/ IsProfile(g)

\* What an agent is asked about with: its contract, its disk, its options.
ContractOfAgent(b, u) == Compile(AgentOf(b), "generic", PackagesOf(u))

DiskOf(b, u, authenticated) ==
  [receipt |-> TRUE, closure |-> TRUE, contract |-> ContractOfAgent(b, u), spec |-> TRUE,
   packages |-> PackagesOf(u), authenticated |-> authenticated, governance |-> Reads, memory |-> TRUE]

AttestationOf(b, u) ==
  [signed |-> TRUE, contract |-> ContractOfAgent(b, u), issued |-> Skew + 1,
   expires |-> Skew + 1 + Day, capabilities |-> {"m", "n"}]

OptionsOf(b, u, g, approve) ==
  [runtime |-> "generic", overrides |-> NotGiven, memory |-> NotGiven,
   governance |-> g, approve |-> approve, trusted |-> TRUE, stateDir |-> TRUE,
   now |-> Skew + Day, attestation |-> AttestationOf(b, u)]

LEMMA QuestionIs ==
  ASSUME NEW b, NEW u, NEW authenticated, NEW g, NEW approve
  PROVE  AgentQuestion(b, u, authenticated, g, approve) =
           [kind |-> "agent", amiss |-> "nothing", agent |-> AgentOf(b), binding |-> b, usability |-> u,
            installed |-> DiskOf(b, u, authenticated), options |-> OptionsOf(b, u, g, approve)]
BY DEF AgentQuestion, DiskOf, OptionsOf, AttestationOf, ContractOfAgent

LEMMA AgentIs ==
  ASSUME NEW b, NEW u
  PROVE  /\ AgentOf(b).orchestrated /\ AgentOf(b).bindings = {b, Steady} /\ AgentOf(b).model = {"m"}
         /\ AgentOf(b).memory = "none" /\ AgentOf(b).governance = "none" /\ AgentOf(b).dependencies = {"p/skill"}
         /\ IsFunction(ContractOfAgent(b, u))
         /\ {"runtime", "status", "bindings"} \subseteq DOMAIN ContractOfAgent(b, u)
         /\ ContractOfAgent(b, u).model = {"m"} /\ ContractOfAgent(b, u).runtime = "generic"
<1>1. /\ AgentOf(b).orchestrated /\ AgentOf(b).bindings = {b, Steady} /\ AgentOf(b).model = {"m"}
      /\ AgentOf(b).memory = "none" /\ AgentOf(b).governance = "none" /\ AgentOf(b).dependencies = {"p/skill"}
  BY DEF AgentOf
<1>2. \A a, r, m, y, g, s, c : IsFunction([agent |-> a, runtime |-> r, model |-> m, memory |-> y,
                                           governance |-> g, status |-> s, bindings |-> c])
  BY DEF IsFunction
<1>3. \E a, r, m, y, g, s, c : ContractOfAgent(b, u) = [agent |-> a, runtime |-> r, model |-> m, memory |-> y,
                                                        governance |-> g, status |-> s, bindings |-> c]
  BY Zenon DEF Compile, ContractOfAgent
<1>4. /\ ContractOfAgent(b, u).model = AgentOf(b).model /\ ContractOfAgent(b, u).runtime = "generic"
      /\ {"runtime", "status", "bindings"} \subseteq DOMAIN ContractOfAgent(b, u)
  BY DEF Compile, ContractOfAgent
<1> QED
  BY <1>1, <1>2, <1>3, <1>4

LEMMA PackagesAre ==
  ASSUME NEW u
  PROVE  /\ DOMAIN PackagesOf(u) = {"p/skill", "p/it"}
         /\ PackagesOf(u)["p/skill"].version = 1 /\ PackagesOf(u)["p/skill"].usability = "usable-now"
         /\ PackagesOf(u)["p/it"].version = 1 /\ PackagesOf(u)["p/it"].usability = u
BY DEF PackagesOf

\* With nothing amiss, what an agent needs to be ready is what its binding needs.
LEMMA NothingIsAmiss ==
  ASSUME NEW b, NEW u, NEW authenticated, NEW g, NEW approve, FilesAreTold,
         IsAskedOf(b, authenticated, g, approve)
  PROVE  LET governance == IF g = NotGiven THEN [approval |-> TRUE, writes |-> FALSE] ELSE g
         IN  Preflight(AgentOf(b), DiskOf(b, u, authenticated), OptionsOf(b, u, g, approve)) = "ready"
               <=> /\ b.requirement = "required" => MayBeUsed(b, PackagesOf(u), DiskOf(b, u, authenticated), governance)
                   /\ governance.approval => approve
<1> DEFINE agent == AgentOf(b)
           disk == DiskOf(b, u, authenticated)
           options == OptionsOf(b, u, g, approve)
           packages == PackagesOf(u)
           contract == ContractOfAgent(b, u)
           governance == IF g = NotGiven THEN SafeDefaults ELSE g
<1>1. /\ agent.orchestrated /\ agent.bindings = {b, Steady}
      /\ agent.memory = "none" /\ agent.governance = "none" /\ agent.dependencies = {"p/skill"}
      /\ IsFunction(contract) /\ contract.model = {"m"}
  BY AgentIs
<1>2. /\ disk.receipt /\ disk.closure /\ disk.spec /\ disk.contract = contract /\ disk.packages = packages
  BY DEF DiskOf
<1>3. /\ options.runtime = "generic" /\ options.overrides = NotGiven /\ options.memory = NotGiven
      /\ options.governance = g /\ options.approve = approve /\ options.trusted /\ options.stateDir
      /\ options.now = Skew + Day /\ options.attestation = AttestationOf(b, u)
  BY DEF OptionsOf
<1>4. contract = Compile(agent, "generic", packages)
  BY DEF ContractOfAgent
<1>5. /\ IsFunction(AttestationOf(b, u)) /\ AttestationOf(b, u).signed /\ AttestationOf(b, u).contract = contract
      /\ AttestationOf(b, u).issued = Skew + 1 /\ AttestationOf(b, u).expires = Skew + 1 + Day
      /\ AttestationOf(b, u).capabilities = {"m", "n"}
  BY DEF AttestationOf, IsFunction
<1>6. /\ DOMAIN packages = {"p/skill", "p/it"}
      /\ packages["p/skill"].version = 1 /\ packages["p/skill"].usability = "usable-now"
  BY PackagesAre
<1> HIDE DEF agent, disk, options, packages, contract
<1>7. contract # NotGiven /\ AttestationOf(b, u) # NotGiven /\ NotGiven # Unreadable
  BY <1>1, <1>5 DEF FilesAreTold
<1>8. Attested(disk.contract, options.attestation, options.trusted, options.now)
  <2>1. Attested(contract, AttestationOf(b, u), TRUE, Skew + Day)
    BY <1>1, <1>5, <1>7, AdaptersAttest
  <2> QED
    BY <1>2, <1>3, <2>1 DEF Attested
<1>9. GovernanceOf(agent, disk, options) = governance
  BY <1>1, <1>3 DEF GovernanceOf
<1>10. ~Unparsed(agent, disk, options)
  <2>1. IsFunction(SafeDefaults)
    BY DEF SafeDefaults, IsFunction
  <2>2. governance # Unreadable
    BY <2>1 DEF IsAskedOf, IsProfile, FilesAreTold
  <2> HIDE DEF governance
  <2> QED
    BY <1>1, <1>3, <1>7, <1>9, <2>2 DEF Unparsed
<1>11. MayBeUsed(Steady, packages, disk, governance)
  <2>1. /\ Steady.available /\ Steady.kind = "skill" /\ Steady.package = "p/skill" /\ Steady.version = 1
    BY DEF Steady
  <2> QED
    BY <1>6, <2>1 DEF MayBeUsed, Pinned
<1>12. ASSUME Preflight(agent, disk, options) = "ready"
       PROVE  /\ b.requirement = "required" => MayBeUsed(b, packages, disk, governance)
              /\ governance.approval => approve
  <2>1. /\ \A a \in agent.bindings : a.requirement = "required" =>
             MayBeUsed(a, packages, disk, GovernanceOf(agent, disk, options))
        /\ GovernanceOf(agent, disk, options).approval => options.approve
    BY <1>1, <1>2, <1>4, <1>12, ReadyAgentsAreAccountable
  <2> HIDE DEF governance
  <2> QED
    BY <1>1, <1>3, <1>9, <2>1
<1>13. ASSUME b.requirement = "required" => MayBeUsed(b, packages, disk, governance),
              governance.approval => approve
       PROVE  Preflight(agent, disk, options) = "ready"
  <2> HIDE DEF governance
  <2>1. IsFiniteSet(agent.bindings)
    <3>1. {b, Steady} = {Steady} \cup {b}
      OBVIOUS
    <3>2. IsFiniteSet({Steady})
      BY FS_Singleton, Zenon
    <3>3. IsFiniteSet({Steady} \cup {b})
      BY <3>2, FS_AddElement, Zenon
    <3> QED
      BY <1>1, <3>1, <3>3, Zenon
  <2>0. Steady.requirement = "required"
    BY Zenon DEF Steady
  <2>2. \A a \in agent.bindings : a.requirement \in {"required", "optional"}
    BY <1>1, <2>0 DEF IsAskedOf
  <2>3. InOrder(agent, packages, disk, options)
    BY <1>1, <1>2, <1>3, <1>4, <1>6, <1>7, <1>8, <1>9, <1>10, <1>13, <2>1, <2>2 DEF InOrder
  <2>4. \A a \in agent.bindings : a.requirement = "required" =>
          MayBeUsed(a, packages, disk, GovernanceOf(agent, disk, options))
    BY <1>1, <1>9, <1>11, <1>13
  <2> QED
    BY <2>3, <2>4, AccountableAgentsAreReady
<1> QED
  BY <1>12, <1>13 DEF agent, disk, options, packages, SafeDefaults

\* A question with something amiss: what is installed or what is given differs.
LEMMA AmissIsRefused ==
  ASSUME NEW b, NEW u, NEW authenticated, NEW g, NEW approve, FilesAreTold,
         IsAskedOf(b, authenticated, g, approve),
         NEW q \in Amiss(AgentQuestion(b, u, authenticated, g, approve))
  PROVE  q.kind = "agent" /\ q.amiss # "nothing" /\ Preflight(q.agent, q.installed, q.options) # "ready"
<1> DEFINE agent == AgentOf(b)
           disk == DiskOf(b, u, authenticated)
           options == OptionsOf(b, u, g, approve)
           contract == ContractOfAgent(b, u)
           given == AttestationOf(b, u)
           base == [kind |-> "agent", amiss |-> "nothing", agent |-> agent, binding |-> b, usability |-> u,
                    installed |-> disk, options |-> options]
           Differs(what, d, o) ==
             q.kind = "agent" /\ q.amiss = what /\ q.agent = agent /\ q.installed = d /\ q.options = o
<1>1. q \in Amiss(base)
  BY QuestionIs
<1>2. /\ agent.orchestrated /\ agent.bindings = {b, Steady}
      /\ IsFunction(contract) /\ {"runtime", "status", "bindings"} \subseteq DOMAIN contract
      /\ contract.model = {"m"} /\ contract.runtime = "generic"
  BY AgentIs
<1> HIDE DEF agent, contract
<1>3. /\ disk.contract = contract /\ {"receipt", "closure", "spec", "contract"} \subseteq DOMAIN disk
  BY DEF DiskOf, contract
<1>4. /\ options.attestation = given /\ options.runtime = "generic"
      /\ given.issued = Skew + 1 /\ given.expires = Skew + 1 + Day
      /\ {"overrides", "memory", "attestation", "trusted", "now"} \subseteq DOMAIN options
      /\ {"signed", "contract", "issued", "expires", "capabilities"} \subseteq DOMAIN given
  BY DEF OptionsOf, AttestationOf
<1> HIDE DEF disk, options, given
<1>5. CASE q = [base EXCEPT !.amiss = "receipt", !.installed.receipt = FALSE]
  <2>1. /\ q.kind = "agent" /\ q.amiss # "nothing" /\ q.agent = agent
        /\ q.installed.receipt = FALSE
    BY <1>5, <1>2, <1>3, <1>4
  <2> QED
    BY <1>2, <2>1, ReadyMeans
<1>6. CASE q = [base EXCEPT !.amiss = "closure", !.installed.closure = FALSE]
  <2>1. /\ q.kind = "agent" /\ q.amiss # "nothing" /\ q.agent = agent
        /\ q.installed.closure = FALSE
    BY <1>6, <1>2, <1>3, <1>4
  <2> QED
    BY <1>2, <2>1, ReadyMeans
<1>7. CASE q = [base EXCEPT !.amiss = "spec", !.installed.spec = FALSE]
  <2>1. /\ q.kind = "agent" /\ q.amiss # "nothing" /\ q.agent = agent
        /\ q.installed.spec = FALSE
    BY <1>7, <1>2, <1>3, <1>4
  <2> QED
    BY <1>2, <2>1, ReadyMeans
<1>8. CASE q = [base EXCEPT !.amiss = "contract", !.installed.contract = NotGiven]
  <2>1. /\ q.kind = "agent" /\ q.amiss # "nothing" /\ q.agent = agent
        /\ q.installed.contract = NotGiven
    BY <1>8, <1>2, <1>3, <1>4
  <2> QED
    BY <1>2, <2>1, ReadyMeans
<1>9. CASE q = [base EXCEPT !.amiss = "contract", !.installed.contract.status = "ready", !.installed.contract.runtime = "codex"]
  <2>1. /\ q.kind = "agent" /\ q.amiss # "nothing" /\ q.agent = agent
        /\ q.options = options /\ q.installed.contract.runtime = "codex"
    BY <1>9, <1>2, <1>3, <1>4
  <2> QED
    BY <1>2, <1>4, <2>1, ReadyMeans DEF Integral
<1>10. CASE q = [base EXCEPT !.amiss = "contract", !.installed.contract.bindings = {c \in @ : c.binding = Steady}]
  <2>1. /\ q.kind = "agent" /\ q.amiss # "nothing" /\ q.agent = agent
        /\ q.installed.contract.bindings = {c \in contract.bindings : c.binding = Steady}
    BY <1>10, <1>2, <1>3, <1>4
  <2> QED
    BY <1>2, <2>1, ReadyMeans DEF Integral, IsAskedOf
<1>11. CASE q = [base EXCEPT !.amiss = "overrides", !.options.overrides = CompiledTools(base.installed.contract) \cup {Unlisted}]
  <2>1. /\ q.kind = "agent" /\ q.amiss # "nothing" /\ q.agent = agent
        /\ Unlisted \in q.options.overrides
    BY <1>11, <1>2, <1>3, <1>4
  <2>2. IsFunction(Unlisted)
    BY Zenon DEF Unlisted, IsFunction
  <2> QED
    BY <1>2, <2>1, <2>2, ReadyMeans DEF FilesAreTold
<1>12. CASE q = [base EXCEPT !.amiss = "overrides", !.options.overrides = Unreadable]
  <2>1. /\ q.kind = "agent" /\ q.amiss # "nothing" /\ q.agent = agent
        /\ q.options.overrides = Unreadable
    BY <1>12, <1>2, <1>3, <1>4
  <2> QED
    BY <1>2, <2>1, ReadyMeans DEF Unparsed
<1>13. CASE q = [base EXCEPT !.amiss = "memory", !.options.memory = Unreadable]
  <2>1. /\ q.kind = "agent" /\ q.amiss # "nothing" /\ q.agent = agent
        /\ q.options.memory = Unreadable
    BY <1>13, <1>2, <1>3, <1>4
  <2> QED
    BY <1>2, <2>1, ReadyMeans DEF Unparsed
<1>14. CASE q = [base EXCEPT !.amiss = "attestation", !.options.attestation = NotGiven]
  <2>1. /\ q.kind = "agent" /\ q.amiss # "nothing" /\ q.agent = agent
        /\ q.installed = disk /\ q.options.attestation = NotGiven
    BY <1>14, <1>2, <1>3, <1>4
  <2> QED
    BY <1>2, <1>3, <1>4, <2>1, ReadyMeans, AgentRulesAssumption DEF Attested
<1>15. CASE q = [base EXCEPT !.amiss = "attestation", !.options.trusted = FALSE]
  <2>1. /\ q.kind = "agent" /\ q.amiss # "nothing" /\ q.agent = agent
        /\ q.installed = disk /\ q.options.trusted = FALSE
    BY <1>15, <1>2, <1>3, <1>4
  <2> QED
    BY <1>2, <1>3, <1>4, <2>1, ReadyMeans, AgentRulesAssumption DEF Attested
<1>16. CASE q = [base EXCEPT !.amiss = "attestation", !.options.now = base.options.attestation.expires]
  <2>1. /\ q.kind = "agent" /\ q.amiss # "nothing" /\ q.agent = agent
        /\ q.installed = disk /\ q.options.attestation = given /\ q.options.now = given.expires
    BY <1>16, <1>2, <1>3, <1>4
  <2> QED
    BY <1>2, <1>3, <1>4, <2>1, ReadyMeans, AgentRulesAssumption DEF Attested
<1>17. CASE q = [base EXCEPT !.amiss = "attestation", !.options.now = base.options.attestation.issued - Skew - 1]
  <2>1. /\ q.kind = "agent" /\ q.amiss # "nothing" /\ q.agent = agent
        /\ q.installed = disk /\ q.options.attestation = given /\ q.options.now = given.issued - Skew - 1
    BY <1>17, <1>2, <1>3, <1>4
  <2> QED
    BY <1>2, <1>3, <1>4, <2>1, ReadyMeans, AgentRulesAssumption DEF Attested
<1>18. CASE q = [base EXCEPT !.amiss = "attestation", !.options.attestation.issued = base.options.attestation.expires - Day - 1]
  <2>1. /\ q.kind = "agent" /\ q.amiss # "nothing" /\ q.agent = agent
        /\ q.installed = disk /\ q.options.attestation.expires = given.expires /\ q.options.attestation.issued = given.expires - Day - 1
    BY <1>18, <1>2, <1>3, <1>4
  <2> QED
    BY <1>2, <1>3, <1>4, <2>1, ReadyMeans, AgentRulesAssumption DEF Attested
<1>19. CASE q = [base EXCEPT !.amiss = "attestation", !.options.attestation.signed = FALSE]
  <2>1. /\ q.kind = "agent" /\ q.amiss # "nothing" /\ q.agent = agent
        /\ q.installed = disk /\ q.options.attestation.signed = FALSE
    BY <1>19, <1>2, <1>3, <1>4
  <2> QED
    BY <1>2, <1>3, <1>4, <2>1, ReadyMeans, AgentRulesAssumption DEF Attested
<1>20. CASE q = [base EXCEPT !.amiss = "attestation", !.options.attestation.contract = NotGiven]
  <2>1. /\ q.kind = "agent" /\ q.amiss # "nothing" /\ q.agent = agent
        /\ q.installed = disk /\ q.options.attestation.contract = NotGiven
    BY <1>20, <1>2, <1>3, <1>4
  <2> QED
    BY <1>2, <1>3, <1>4, <2>1, ReadyMeans, AgentRulesAssumption DEF Attested, FilesAreTold
<1>21. CASE q = [base EXCEPT !.amiss = "attestation", !.options.attestation.capabilities = {"n"}]
  <2>1. /\ q.kind = "agent" /\ q.amiss # "nothing" /\ q.agent = agent
        /\ q.installed = disk /\ q.options.attestation.capabilities = {"n"}
    BY <1>21, <1>2, <1>3, <1>4
  <2> QED
    BY <1>2, <1>3, <1>4, <2>1, ReadyMeans, AgentRulesAssumption DEF Attested
<1> QED
  BY <1>1, <1>5, <1>6, <1>7, <1>8, <1>9, <1>10, <1>11, <1>12, <1>13, <1>14, <1>15, <1>16, <1>17, <1>18, <1>19, <1>20, <1>21 DEF Amiss

\* A tool that the user binds, which no setup is left for.
IsBound(t) ==
  /\ IsFunction(t) /\ t.name = "p/it" /\ t.requirement # "optional"
  /\ t.status \in {"", "ready", "down"}

IsLegacyAsked(packages, overrides, g) ==
  /\ "p/skill" \in DOMAIN packages /\ IsProfile(g)
  /\ overrides = NotGiven \/ (overrides # {} /\ \A t \in overrides : IsBound(t))

LEMMA BoundIsReady ==
  ASSUME NEW t, NEW disk, NEW options, IsBound(t)
  PROVE  /\ ToolIsReady(t) <=> t.status # "down" /\ t.endpoint
         /\ Refreshed(t, disk, options) = t
<1>1. t.status = "" \/ t.status = "ready" \/ t.status = "down"
  BY Zenon DEF IsBound
<1>2. "" # "down" /\ "" # "setup-required"
  BY Zenon
<1>3. t.status # "setup-required"
  BY <1>1, <1>2, Zenon
<1>4. t.status \in {"", "ready"} <=> t.status # "down"
  BY <1>1, <1>2, Zenon
<1> QED
  BY <1>3, <1>4, Zenon DEF ToolIsReady, Refreshed, IsBound

\* An agent without orchestration needs its package and, for every tool of its
\* user's, an endpoint, a status that is not bad, and permission to write.
LEMMA LegacyNeeds ==
  ASSUME NEW packages, NEW overrides, NEW g, FilesAreTold, IsLegacyAsked(packages, overrides, g)
  PROVE  LET q == LegacyQuestion(packages, overrides, g)
         IN  /\ q.kind = "legacy" /\ q.installed.packages = packages /\ q.options.overrides = overrides
             /\ q.options.governance = g
             /\ Preflight(q.agent, q.installed, q.options) = "ready" <=>
                  /\ "p/it" \in DOMAIN packages /\ overrides # NotGiven
                  /\ \A t \in overrides : /\ t.status # "down" /\ t.endpoint
                                          /\ t.access = "read-write" => g.writes
<1> DEFINE q == LegacyQuestion(packages, overrides, g)
           agent == q.agent
           disk == q.installed
           options == q.options
<1>1. /\ q.kind = "legacy"
      /\ agent = [AgentOf(Steady) EXCEPT !.orchestrated = FALSE, !.tools = {"p/it"}]
      /\ disk = [DiskOf(Steady, "usable-now", {}) EXCEPT !.packages = packages, !.receipt = FALSE,
                                                         !.contract = NotGiven]
      /\ options = [OptionsOf(Steady, "usable-now", g, TRUE) EXCEPT !.overrides = overrides]
  BY QuestionIs DEF LegacyQuestion
<1> HIDE DEF q, agent, disk, options
<1>2. ~agent.orchestrated /\ agent.tools = {"p/it"} /\ agent.dependencies = {"p/skill"}
  <2>1. /\ AgentOf(Steady).dependencies = {"p/skill"}
        /\ {"orchestrated", "tools", "dependencies"} \subseteq DOMAIN AgentOf(Steady)
    BY DEF AgentOf
  <2> QED
    BY <1>1, <2>1
<1>3. disk.spec /\ disk.packages = packages
  BY <1>1 DEF DiskOf
<1>4. /\ options.overrides = overrides /\ options.memory = NotGiven /\ options.governance = g
      /\ options.approve
  BY <1>1 DEF OptionsOf
<1>5. /\ q.kind = "legacy"
      /\ ~agent.orchestrated /\ agent.tools = {"p/it"} /\ agent.dependencies = {"p/skill"}
      /\ disk.spec /\ disk.packages = packages
      /\ options.overrides = overrides /\ options.memory = NotGiven /\ options.governance = g /\ options.approve
  BY <1>1, <1>2, <1>3, <1>4
<1>6. g # NotGiven /\ g # Unreadable /\ NotGiven # Unreadable
  BY DEF IsLegacyAsked, IsProfile, FilesAreTold
<1>7. overrides # Unreadable
  <2>1. CASE overrides = NotGiven
    BY <1>6, <2>1
  <2>2. CASE overrides # {} /\ \A t \in overrides : IsBound(t)
    <3>1. PICK t \in overrides : IsBound(t)
      BY <2>2
    <3> QED
      BY <3>1 DEF FilesAreTold, IsBound
  <2> QED
    BY <2>1, <2>2 DEF IsLegacyAsked
<1>8. GovernanceOf(agent, disk, options) = g /\ ~Unparsed(agent, disk, options)
  BY <1>5, <1>6, <1>7 DEF GovernanceOf, Unparsed
<1>9. ToolNames(agent) = {"p/it"} /\ Contract(agent, disk, options) = NotGiven
  BY <1>5 DEF ToolNames, Contract
<1>10. CASE overrides = NotGiven
  <2>1. Tools(agent, disk, options) = {}
    BY <1>5, <1>9, <1>10 DEF Tools
  <2>2. ToolNames(agent) # {t.name : t \in Tools(agent, disk, options)}
    BY <1>9, <2>1
  <2>3. Preflight(agent, disk, options) # "ready"
    BY <2>2 DEF Preflight
  <2> QED
    BY <1>5, <1>10, <2>3 DEF q, agent, disk, options
<1>11. CASE overrides # NotGiven
  <2>1. overrides # {} /\ \A t \in overrides : IsBound(t)
    BY <1>11 DEF IsLegacyAsked
  <2>2. Tools(agent, disk, options) = overrides
    <3>1. Tools(agent, disk, options) = {Refreshed(t, disk, options) : t \in {u \in overrides : u.name \in {"p/it"}}}
      BY <1>5, <1>9, <1>11 DEF Tools
    <3>2. \A t \in overrides : Refreshed(t, disk, options) = t /\ t.name = "p/it"
      BY <2>1, BoundIsReady DEF IsBound
    <3> QED
      BY <3>1, <3>2
  <2>3. ToolNames(agent) = {t.name : t \in Tools(agent, disk, options)}
    <3>1. \A t \in overrides : t.name = "p/it"
      BY <2>1 DEF IsBound
    <3> QED
      BY <1>9, <2>1, <2>2, <3>1
  <2>4. \A t \in overrides : /\ ToolIsReady(t) <=> t.status # "down" /\ t.endpoint
                             /\ Ungoverned(t, g) <=> ~g.writes /\ t.access = "read-write"
    <3>1. \A t \in overrides : ToolIsReady(t) <=> t.status # "down" /\ t.endpoint
      BY <2>1, BoundIsReady
    <3>2. \A t \in overrides : t.requirement # "optional"
      BY <2>1 DEF IsBound
    <3> QED
      BY <3>1, <3>2 DEF Ungoverned
  <2>5. agent.dependencies \subseteq DOMAIN disk.packages
    BY <1>5 DEF IsLegacyAsked
  <2>6. ToolsArePresent(agent, disk) <=> "p/it" \in DOMAIN packages
    BY <1>5 DEF ToolsArePresent
  <2>7. Preflight(agent, disk, options) = "ready" <=>
          /\ ToolsArePresent(agent, disk)
          /\ \A t \in overrides : ToolIsReady(t) /\ ~Ungoverned(t, g)
    BY <1>5, <1>8, <2>2, <2>3, <2>5 DEF Preflight
  <2>8. Preflight(agent, disk, options) = "ready" <=>
          /\ "p/it" \in DOMAIN packages
          /\ \A t \in overrides : t.status # "down" /\ t.endpoint /\ (t.access = "read-write" => g.writes)
    BY <2>4, <2>6, <2>7
  <2> QED
    BY <1>5, <1>11, <2>8 DEF q, agent, disk, options
<1> QED
  BY <1>10, <1>11

IsAgentQuestion(q) ==
  \E b, u, authenticated, g, approve :
    /\ IsAskedOf(b, authenticated, g, approve)
    /\ q \in {AgentQuestion(b, u, authenticated, g, approve)}
               \cup Amiss(AgentQuestion(b, u, authenticated, g, approve))

IsLegacyQuestion(q) ==
  \E packages, overrides, g :
    IsLegacyAsked(packages, overrides, g) /\ q = LegacyQuestion(packages, overrides, g)

\* What the runs ask is among it.
LEMMA AskedIsAny ==
  ASSUME AgentAsked \/ LegacyAsked
  PROVE  IsAgentQuestion(question) \/ IsLegacyQuestion(question)
<1>0. \A n, p, v, r, a, s, e : IsFunction([name |-> n, package |-> p, version |-> v, requirement |-> r,
                                           access |-> a, status |-> s, endpoint |-> e])
  BY DEF IsFunction
<1>1. IsProfile(Writes) /\ IsProfile(Reads)
  BY DEF IsProfile, IsFunction, Writes, Reads
<1>2. ASSUME AgentAsked PROVE IsAgentQuestion(question)
  <2>1. PICK b \in Bindings, u \in Usabilities, authenticated \in {{}, {"p/it"}},
             g \in {NotGiven, Writes, Reads}, approve \in BOOLEAN :
          question \in {AgentQuestion(b, u, authenticated, g, approve)}
                         \cup Amiss(AgentQuestion(b, u, authenticated, g, approve))
    BY <1>2 DEF AgentAsked
  <2>2. /\ b.name = "it" /\ b.package = "p/it" /\ b.version = 1 /\ b.available \in BOOLEAN
        /\ b.requirement \in {"required", "optional"}
    BY DEF Bindings
  <2>3. b # Steady
    <3>1. Steady.name = "steady"
      BY Zenon DEF Steady
    <3> QED
      BY <2>2, <3>1
  <2>4. IsAskedOf(b, authenticated, g, approve)
    BY <1>1, <2>2, <2>3 DEF IsAskedOf
  <2> QED
    BY <2>1, <2>4 DEF IsAgentQuestion
<1>3. ASSUME LegacyAsked PROVE IsLegacyQuestion(question)
  <2> DEFINE Tool(access, status, endpoint) ==
               [name |-> "p/it", package |-> "", version |-> 0, requirement |-> "",
                access |-> access, status |-> status, endpoint |-> endpoint]
             Packaged(present) == [p \in {"p/skill"} \cup (IF present THEN {"p/it"} ELSE {}) |->
                                     [version |-> 1, usability |-> "usable-now"]]
             Given(t, bound) == IF bound THEN {t} ELSE NotGiven
  <2>1. PICK status \in {"", "ready", "down"}, access \in {"read-only", "read-write"}, endpoint \in BOOLEAN,
             present \in BOOLEAN, bound \in BOOLEAN, g \in {Writes, Reads} :
          question = LegacyQuestion(Packaged(present), Given(Tool(access, status, endpoint), bound), g)
    BY <1>3, Zenon DEF LegacyAsked
  <2>2. IsBound(Tool(access, status, endpoint))
    <3>1. "" # "optional"
      BY Zenon
    <3>2. /\ Tool(access, status, endpoint).name = "p/it" /\ Tool(access, status, endpoint).requirement = ""
          /\ Tool(access, status, endpoint).status = status
      BY Zenon
    <3>3. IsFunction(Tool(access, status, endpoint))
      BY <1>0, Zenon
    <3> HIDE DEF Tool
    <3> QED
      BY <2>1, <3>1, <3>2, <3>3, Zenon DEF IsBound
  <2>3. "p/skill" \in DOMAIN Packaged(present)
    <3> HIDE DEF Tool
    <3> QED
      OBVIOUS
  <2> HIDE DEF Tool, Packaged
  <2>4. \/ Given(Tool(access, status, endpoint), bound) = NotGiven
        \/ Given(Tool(access, status, endpoint), bound) = {Tool(access, status, endpoint)}
    OBVIOUS
  <2> HIDE DEF Given
  <2>5. IsLegacyAsked(Packaged(present), Given(Tool(access, status, endpoint), bound), g)
    BY <1>1, <2>1, <2>2, <2>3, <2>4 DEF IsLegacyAsked
  <2> QED
    BY <2>1, <2>5, Zenon DEF IsLegacyQuestion
<1> QED
  BY <1>2, <1>3

\* Whatever binding an agent has beside its skill, whatever has become of its
\* package, whoever governs it, and however long attestations are good for:
\* preflight calls the agent ready exactly if nothing is amiss and the binding may
\* be used as things are now; and an agent without orchestration exactly if its
\* package is there and every tool its user binds is usable (RunPreflight).
THEOREM PreflightsAreAccountable ==
  ASSUME FilesAreTold, IsAgentQuestion(question) \/ IsLegacyQuestion(question)
  PROVE  PreflightIsAccountable
<1>1. ASSUME NEW b, NEW u, NEW authenticated, NEW g, NEW approve, IsAskedOf(b, authenticated, g, approve),
             question = AgentQuestion(b, u, authenticated, g, approve)
      PROVE  PreflightIsAccountable
  <2> DEFINE governance == IF g = NotGiven THEN [approval |-> TRUE, writes |-> FALSE] ELSE g
             disk == DiskOf(b, u, authenticated)
             options == OptionsOf(b, u, g, approve)
             usable == \/ u = "usable-now"
                       \/ b.kind = "skill" /\ u = "documentation-only"
                       \/ b.kind = "tool" /\ u = "setup-required" /\ authenticated = {"p/it"}
             accountable ==
               /\ b.requirement = "required" =>
                    /\ b.available /\ usable
                    /\ b.kind = "tool" /\ b.access = "read-write" => governance.writes
               /\ governance.approval => approve
  <2>1. /\ question.kind = "agent" /\ question.amiss = "nothing" /\ question.agent = AgentOf(b)
        /\ question.binding = b /\ question.usability = u /\ question.installed = disk /\ question.options = options
    BY <1>1, QuestionIs
  <2>2. /\ disk.packages = PackagesOf(u) /\ disk.authenticated = authenticated
        /\ options.governance = g /\ options.approve = approve
    BY DEF DiskOf, OptionsOf
  <2>3. Preflight(AgentOf(b), disk, options) = "ready" <=>
          /\ b.requirement = "required" => MayBeUsed(b, PackagesOf(u), disk, governance)
          /\ governance.approval => approve
    BY <1>1, NothingIsAmiss
  <2> HIDE DEF governance, disk, options
  <2>4. MayBeUsed(b, PackagesOf(u), disk, governance) <=>
          /\ b.available /\ usable
          /\ b.kind = "tool" /\ b.access = "read-write" => governance.writes
    <3>1. b.package = "p/it" /\ b.version = 1 /\ ("p/it" \in authenticated <=> authenticated = {"p/it"})
      BY <1>1 DEF IsAskedOf
    <3>2. Pinned(b, PackagesOf(u)) /\ PackagesOf(u)[b.package].usability = u
      BY <3>1, PackagesAre DEF Pinned
    <3> QED
      BY <2>2, <3>1, <3>2 DEF MayBeUsed
  <2>5. (Preflight(question.agent, question.installed, question.options) = "ready") <=> accountable
    BY <2>1, <2>3, <2>4
  <2> QED
    BY <2>1, <2>2, <2>5, Zenon DEF PreflightIsAccountable, governance
<1>2. ASSUME NEW b, NEW u, NEW authenticated, NEW g, NEW approve, IsAskedOf(b, authenticated, g, approve),
             question \in Amiss(AgentQuestion(b, u, authenticated, g, approve))
      PROVE  PreflightIsAccountable
  <2>1. /\ question.kind = "agent" /\ question.amiss # "nothing"
        /\ Preflight(question.agent, question.installed, question.options) # "ready"
    BY <1>2, AmissIsRefused
  <2> QED
    BY <2>1, Zenon DEF PreflightIsAccountable
<1>3. ASSUME NEW packages, NEW overrides, NEW g, IsLegacyAsked(packages, overrides, g),
             question = LegacyQuestion(packages, overrides, g)
      PROVE  PreflightIsAccountable
  <2>1. /\ question.kind = "legacy" /\ question.installed.packages = packages
        /\ question.options.overrides = overrides /\ question.options.governance = g
        /\ Preflight(question.agent, question.installed, question.options) = "ready" <=>
             /\ "p/it" \in DOMAIN packages /\ overrides # NotGiven
             /\ \A t \in overrides : /\ t.status # "down" /\ t.endpoint
                                     /\ t.access = "read-write" => g.writes
    BY <1>3, LegacyNeeds
  <2> QED
    BY <2>1, Zenon DEF PreflightIsAccountable
<1> QED
  BY <1>1, <1>2, <1>3 DEF IsAgentQuestion, IsLegacyQuestion
=============================================================================
