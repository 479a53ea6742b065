----------------------------- MODULE Readiness -----------------------------
(***************************************************************************)
(* Operational readiness of one catalog entry on one machine               *)
(* (internal/readiness).  Processes of the command line configure an       *)
(* authentication profile, run the declared smoke test and keep its record,*)
(* and derive the catalog status from the records, while packages are      *)
(* installed or altered, the credential is rotated or revoked, the host's  *)
(* executable is replaced and time passes.  Any process may be killed      *)
(* between two steps.                                                      *)
(*                                                                         *)
(* A release is known by its package; a local build may claim the same     *)
(* version.  Verifying a receipt, following the profile to its credential, *)
(* asking the provider, running the smoke test and writing a record are    *)
(* steps of their own: other processes act in between.                     *)
(***************************************************************************)
EXTENDS ReadinessRules

CONSTANTS Procs,
          Packages, VersionOf,  \* builds, and the version each of them claims
          Released,             \* the packages the catalog's digests name
          ContractOf,           \* the authentication contract of a version
          AuthStatus,           \* "none", "optional" or "required"
          LiveCredentials,      \* the packaged driver keeps the credential;
                                \* otherwise a process reads its environment
          Deprecated,           \* versions
          Accounts,             \* accounts of the provider
          CredentialLife, AttestationLife,
          MaxTime, MaxRuns, MaxEvents

ASSUME ReadinessAssumption ==
  /\ Released \subseteq Packages
  /\ AuthStatus \in {"none", "optional", "required"}
  /\ LiveCredentials \in BOOLEAN
  /\ {CredentialLife, AttestationLife, MaxTime, MaxRuns, MaxEvents} \subseteq Nat

VARIABLES clock,
          installed,  \* [package, source, intact]
          exe,        \* the fingerprint of the host's executable
          vault,      \* the current credential, or None
          revoked,    \* the generations the provider has revoked, and when
          profile,    \* [version, account, revision, save], or None
          lock,       \* the holder of the profile's flock, or None
          saves,      \* history: how often a profile was saved
          evidence,   \* the records of the evidence directory
          proc,       \* what each process is doing
          runs, events

host == <<clock, installed, exe, vault, revoked, events>>
auth == <<profile, lock, saves>>
vars == <<host, auth, evidence, proc, runs>>

Versions == {VersionOf[p] : p \in Packages}
Profiles == [version : Versions, account : Accounts, revision : Nat, save : Nat]
Credentials == [account : Accounts, generation : Nat, until : Nat]
States == SetupStates \cup {"ready", "not-required", "optional-not-configured", "error", "unavailable"}
Reports == [state : States, selected : BOOLEAN, account : Accounts \cup {None},
            target : (Accounts \X BOOLEAN) \cup {None}, until : Nat]

\* What is not there is different from everything that may be.
ASSUME RecordAssumption ==
  None \notin States \cup Procs \cup Profiles \cup Credentials \cup Reports \cup (Nat \X Nat)

Idle == [op |-> "none", pc |-> "idle", round |-> 1, version |-> None, now |-> 0,
         environment |-> None, receipt |-> None, exe |-> 0, credential |-> None,
         profile |-> None, previous |-> None, report |-> None, ran |-> None,
         outcome |-> None]

Init ==
  /\ clock = 1 /\ exe = 1 /\ vault = None /\ revoked = {}
  /\ installed \in {[package |-> p, source |-> "remote", intact |-> TRUE] : p \in Released}
  /\ profile = None /\ lock = None /\ saves = 0
  /\ evidence = {} /\ proc = [p \in Procs |-> Idle] /\ runs = 0 /\ events = 0

-----------------------------------------------------------------------------
(* What others do to the machine, at most MaxEvents times *)

Event == events < MaxEvents /\ events' = events + 1

\* A release, or a local build that claims the version of one.
Install(p, source) ==
  /\ Event
  /\ source = "remote" => p \in Released
  /\ installed' = [package |-> p, source |-> source, intact |-> TRUE]
  /\ UNCHANGED <<clock, exe, vault, revoked, auth, evidence, proc, runs>>

Alter ==
  /\ Event
  /\ installed.intact
  /\ installed' = [installed EXCEPT !.intact = FALSE]
  /\ UNCHANGED <<clock, exe, vault, revoked, auth, evidence, proc, runs>>

ReplaceExecutable ==
  /\ Event
  /\ exe' = exe + 1
  /\ UNCHANGED <<clock, installed, vault, revoked, auth, evidence, proc, runs>>

NextGeneration == IF vault = None THEN 1 ELSE vault.generation + 1

IssuedTo(account) ==
  [account |-> account, generation |-> NextGeneration, until |-> clock + CredentialLife]

\* The credential is replaced; the old one lives on until it is revoked.
Rotate(account) ==
  /\ Event
  /\ AuthStatus # "none"
  /\ vault' = IssuedTo(account)
  /\ UNCHANGED <<clock, installed, exe, revoked, auth, evidence, proc, runs>>

IsRevoked(generation) == \E r \in revoked : r.generation = generation

Revoke ==
  /\ Event
  /\ vault # None /\ ~IsRevoked(vault.generation)
  /\ revoked' = revoked \cup {[generation |-> vault.generation, at |-> clock]}
  /\ UNCHANGED <<clock, installed, exe, vault, auth, evidence, proc, runs>>

Tick ==
  /\ clock < MaxTime
  /\ clock' = clock + 1
  /\ UNCHANGED <<installed, exe, vault, revoked, events, auth, evidence, proc, runs>>

-----------------------------------------------------------------------------
(* What a process reads *)

At(p, op, pc) == proc[p].op = op /\ proc[p].pc = pc

End(p) == proc' = [proc EXCEPT ![p] = Idle]

\* The directory's digest is the receipt's.
TreeIsTheReceipts == installed.intact

\* A build that claims the same version has the same contract.
ReceiptMatches(version) == VersionOf[installed.package] = version /\ TreeIsTheReceipts

\* verifyInstalledClosure: the receipt of the version asked for, or None.
Verified(version) ==
  IF ReceiptMatches(version)
  THEN [package |-> installed.package, source |-> installed.source]
  ELSE None

\* The executable the smoke command names, on this host.
ExecutableFingerprint == exe

\* Does the catalog's digest for the version name this artifact?
IsReleased(receipt) == receipt.package \in Released

\* The credential a process can hand on: the driver's, or the one its
\* environment had when it was started.
Credential(p) == IF LiveCredentials THEN vault ELSE proc[p].environment

Key(p) == <<proc[p].profile.revision, proc[p].credential.generation>>

\* Mutation: the generations are not read again.
GenerationsTrusted(p) == TRUE

\* bindingGenerationsCurrent
GenerationsCurrent(p) ==
  LiveCredentials /\ proc[p].credential # None => vault = proc[p].credential

\* A command for some version of the catalog; its clock and, without a driver,
\* its credential are those of its start.
Begin(p, op, pc) ==
  /\ proc[p].pc = "idle" /\ runs < MaxRuns
  /\ runs' = runs + 1
  /\ \E version \in Versions :
       proc' = [proc EXCEPT ![p] = [Idle EXCEPT
         !.op = op, !.pc = pc, !.now = clock, !.environment = vault, !.version = version]]
  /\ UNCHANGED <<host, auth, evidence>>

-----------------------------------------------------------------------------
(* Configure *)

BeginConfigure(p) == AuthStatus # "none" /\ Begin(p, "configure", "bootstrap")

\* loadAuthDriver: the driver of a verified installation of that version.
DriverLoads(version) == Verified(version) # None

\* The driver's bootstrap selects an account and keeps a new credential; without
\* a driver the user names the account.
Bootstrap(p, account) ==
  /\ At(p, "configure", "bootstrap")
  /\ LiveCredentials => DriverLoads(proc[p].version)
  /\ vault' = IF LiveCredentials THEN IssuedTo(account) ELSE vault
  /\ proc' = [proc EXCEPT ![p].pc = "lock",
                ![p].profile = [version |-> proc[p].version, account |-> account]]
  /\ UNCHANGED <<clock, installed, exe, revoked, events, auth, evidence, runs>>

BootstrapFails(p) ==
  /\ At(p, "configure", "bootstrap")
  /\ End(p) /\ UNCHANGED <<host, auth, evidence, runs>>

\* Mutation: the previous profile is read before the lock is there.
LockProfileLate(p) ==
  /\ At(p, "configure", "lock")
  /\ proc' = [proc EXCEPT ![p].pc = "save", ![p].previous = profile]
  /\ UNCHANGED <<host, auth, evidence, runs>>

\* saveProfile: the flock, and the profile read under it.
LockProfile(p) ==
  /\ At(p, "configure", "lock")
  /\ lock = None /\ lock' = p
  /\ proc' = [proc EXCEPT ![p].pc = "save", ![p].previous = profile]
  /\ UNCHANGED <<host, profile, saves, evidence, runs>>

\* One more than the binding of that name had; 1 for a new name.
NextRevision(previous, version) ==
  IF previous # None /\ ContractOf[previous.version] = ContractOf[version]
  THEN previous.revision + 1 ELSE 1

\* The rename, and the flock is released.
SaveProfile(p) ==
  /\ At(p, "configure", "save")
  /\ saves' = saves + 1
  /\ profile' = [version |-> proc[p].version, account |-> proc[p].profile.account,
                 revision |-> NextRevision(proc[p].previous, proc[p].version),
                 save |-> saves + 1]
  /\ lock' = None
  /\ End(p) /\ UNCHANGED <<host, evidence, runs>>

-----------------------------------------------------------------------------
(* Smoke *)

\* The record of a run that ends with result; what was not reached stays None.
RecordOf(p, result, observed) ==
  LET r == proc[p].report
      reached == proc[p].receipt # None
  IN [version |-> proc[p].version, started |-> proc[p].now, observed |-> observed,
      result |-> result,
      package |-> IF reached THEN proc[p].receipt.package ELSE None,
      source |-> IF reached THEN proc[p].receipt.source ELSE None,
      exe |-> proc[p].exe,
      class |-> IF r = None THEN None ELSE ConfigurationClass(r),
      key |-> IF proc[p].credential = None THEN None ELSE Key(p),
      account |-> IF r = None THEN None ELSE r.account,
      target |-> IF r = None THEN None ELSE r.target,
      expires |-> IF result = "failed" THEN observed
                  ELSE IF r.selected THEN Earlier(proc[p].now + SmokeLife, r.until)
                       ELSE proc[p].now + SmokeLife,
      \* history: what ran, and under which saved profile and credential
      ran |-> proc[p].ran,
      save |-> IF proc[p].profile = None THEN 0 ELSE proc[p].profile.save,
      credential |-> proc[p].credential]

\* The smoke test has ended and is observed; its record is not there yet.
Observed(p, result) ==
  /\ proc' = [proc EXCEPT ![p].pc = "publish", ![p].outcome = RecordOf(p, result, clock)]
  /\ UNCHANGED <<host, auth, evidence, runs>>

BeginSmoke(p) == Begin(p, "smoke", "verify")

\* Installed, intact, of the version asked for, and the catalog's if remote.
VerifySmoke(p) ==
  /\ At(p, "smoke", "verify")
  /\ LET receipt == Verified(proc[p].version)
     IN IF \/ proc[p].version \in Deprecated
           \/ receipt = None
           \/ receipt.source = "remote" /\ ~IsReleased(receipt)
        THEN Observed(p, "failed")
        ELSE /\ proc' = [proc EXCEPT ![p].pc = "load", ![p].receipt = receipt, ![p].exe = ExecutableFingerprint]
             /\ UNCHANGED <<host, auth, evidence, runs>>

\* The profile and the credential it names.  A driver needs its installation.
LoadProfile(p, round) ==
  LET said == BeforeCredentials(AuthStatus, profile, proc[p].version, ContractOf)
      driverLost == said = None /\ LiveCredentials /\ ~DriverLoads(profile.version)
      answer == IF driverLost THEN Unanswered("error", TRUE)
                ELSE IF said # None THEN said
                ELSE IF Credential(p) = None THEN Unanswered("missing", TRUE) ELSE None
  IN [proc[p] EXCEPT !.pc = IF answer = None THEN "observe" ELSE "judge",
                     !.round = round, !.report = answer,
                     !.profile = IF answer = None THEN profile ELSE None,
                     !.credential = IF answer = None THEN Credential(p) ELSE None]

\* The provider answers for the credential, or does not; a generation that
\* changed meanwhile makes the observation stale.
Observation(p, attested) ==
  LET c == proc[p].credential
  IN IF attested = None THEN Unanswered("unavailable", TRUE)
     ELSE IF ~GenerationsCurrent(p) THEN Unanswered("stale", TRUE)
     ELSE Judged(proc[p].profile, c, IsRevoked(c.generation), attested, proc[p].now)

Attestations == {None, clock + AttestationLife}

Load(p) ==
  /\ proc[p].pc = "load"
  /\ proc' = [proc EXCEPT ![p] = LoadProfile(p, proc[p].round)]
  /\ UNCHANGED <<host, auth, evidence, runs>>

Observe(p) ==
  /\ proc[p].pc = "observe"
  /\ \E attested \in Attestations :
       proc' = [proc EXCEPT ![p].pc = "judge", ![p].report = Observation(p, attested)]
  /\ UNCHANGED <<host, auth, evidence, runs>>

\* An error ends the run without any record.
JudgeSmoke(p) ==
  /\ At(p, "smoke", "judge")
  /\ LET r == proc[p].report
     IN IF r.state = "error" THEN End(p) /\ UNCHANGED <<host, auth, evidence, runs>>
        ELSE IF ~Satisfied(AuthStatus, r) THEN Observed(p, "failed")
        ELSE /\ proc' = [proc EXCEPT ![p].pc = "run"]
             /\ UNCHANGED <<host, auth, evidence, runs>>

\* The declared command runs whatever the package's directory holds by then.
RunSmoke(p) ==
  /\ At(p, "smoke", "run")
  /\ proc' = [proc EXCEPT ![p].pc = "close", ![p].ran = installed.package]
  /\ UNCHANGED <<host, auth, evidence, runs>>

SmokeFails(p) == At(p, "smoke", "run") /\ Observed(p, "failed")

\* What has to be as it was before the command; the second receipt is only
\* verified, not compared with the first.
Unchanged(p) ==
  /\ proc[p].exe = ExecutableFingerprint
  /\ Verified(proc[p].version) # None
  /\ GenerationsCurrent(p)

\* Mutation: the deadline is not looked at again after the command.
InTimeAtStart(p) == TRUE

InTime(p) == clock < RecordOf(p, "passed", clock).expires

CloseSmoke(p) ==
  /\ At(p, "smoke", "close")
  /\ Observed(p, IF Unchanged(p) /\ InTime(p) THEN "passed" ELSE "failed")

\* atomicWriteNew: a complete record is linked under a name no other record has.
AppendRecord(e) == evidence' = evidence \cup {e}

PublishRecord(p) ==
  /\ At(p, "smoke", "publish")
  /\ AppendRecord(proc[p].outcome)
  /\ End(p) /\ UNCHANGED <<host, auth, runs>>

-----------------------------------------------------------------------------
(* Doctor and DeriveCatalogStatus: two rounds of the same checks *)

\* doctor, or list and info, which go on when the doctor is content.
BeginCatalog(p) == Begin(p, "catalog", "verify")

\* Nothing but the installation as it is now; the second round wants a release.
VerifyCatalog(p) ==
  /\ At(p, "catalog", "verify")
  /\ LET receipt == Verified(proc[p].version)
     IN IF \/ proc[p].version \in Deprecated
           \/ receipt = None
           \/ proc[p].round = 2 /\ receipt.source # "remote"
        THEN End(p)
        ELSE proc' = [proc EXCEPT ![p].pc = "load", ![p].receipt = receipt, ![p].exe = ExecutableFingerprint]
  /\ UNCHANGED <<host, auth, evidence, runs>>

\* The doctor's verdict is all that was asked, or it is not ready: no status is
\* derived.
DoctorAnswers(p) ==
  /\ At(p, "catalog", "judge") /\ proc[p].round = 1
  /\ End(p) /\ UNCHANGED <<host, auth, evidence, runs>>

DoctorIsReady(p) ==
  /\ At(p, "catalog", "judge") /\ proc[p].round = 1
  /\ Satisfied(AuthStatus, proc[p].report)
  /\ proc' = [proc EXCEPT ![p].pc = "verify", ![p].round = 2]
  /\ UNCHANGED <<host, auth, evidence, runs>>

Candidates(p) ==
  LET key == IF proc[p].credential = None THEN None ELSE Key(p)
  IN {e \in evidence : Applicable(e, proc[p].version, proc[p].now, proc[p].receipt,
                                  ExecutableFingerprint, key, proc[p].report)}

\* The second report is not asked whether it is authenticated: what it names
\* has to be what the evidence names.
Usable(p) ==
  /\ proc[p].report.state # "error"
  /\ Candidates(p) # {}
  /\ LET e == Latest(Candidates(p))
     IN e.result = "passed" /\ Eligible(e, proc[p].now, proc[p].report)

DeriveStatus(p) ==
  /\ At(p, "catalog", "judge") /\ proc[p].round = 2
  /\ proc' = [proc EXCEPT ![p] =
       IF Usable(p) THEN [proc[p] EXCEPT !.pc = "usable", !.outcome = Latest(Candidates(p))]
       ELSE Idle]
  /\ UNCHANGED <<host, auth, evidence, runs>>

\* The answer usable-now is given.
Answer(p) ==
  /\ At(p, "catalog", "usable")
  /\ End(p) /\ UNCHANGED <<host, auth, evidence, runs>>

-----------------------------------------------------------------------------
(* Processes *)

\* Mutation: a lock file that outlives its holder.
KillLocked(p) ==
  /\ proc[p].pc # "idle" /\ Event
  /\ End(p)
  /\ UNCHANGED <<clock, installed, exe, vault, revoked, auth, evidence, runs>>

\* A killed process loses what it did not write; the kernel releases its flock.
Kill(p) ==
  /\ proc[p].pc # "idle" /\ Event
  /\ lock' = IF lock = p THEN None ELSE lock
  /\ End(p)
  /\ UNCHANGED <<clock, installed, exe, vault, revoked, profile, saves, evidence, runs>>

Step(p) ==
  \/ \E account \in Accounts : Bootstrap(p, account)
  \/ BootstrapFails(p) \/ LockProfile(p) \/ SaveProfile(p)
  \/ VerifySmoke(p) \/ Load(p) \/ Observe(p) \/ JudgeSmoke(p)
  \/ RunSmoke(p) \/ SmokeFails(p) \/ CloseSmoke(p) \/ PublishRecord(p)
  \/ VerifyCatalog(p) \/ DoctorAnswers(p) \/ DoctorIsReady(p) \/ DeriveStatus(p) \/ Answer(p)

Start(p) == BeginConfigure(p) \/ BeginSmoke(p) \/ BeginCatalog(p)

Environment ==
  \/ \E p \in Packages, source \in {"remote", "local"} : Install(p, source)
  \/ Alter \/ ReplaceExecutable \/ Revoke \/ Tick
  \/ \E account \in Accounts : Rotate(account)

Next == Environment \/ \E p \in Procs : Start(p) \/ Step(p) \/ Kill(p)

Spec == Init /\ [][Next]_vars

-----------------------------------------------------------------------------
(* Properties *)

TypeOK ==
  /\ clock \in Nat /\ exe \in Nat /\ saves \in Nat /\ runs \in Nat /\ events \in Nat
  /\ installed \in [package : Packages, source : {"remote", "local"}, intact : BOOLEAN]
  /\ vault \in Credentials \cup {None}
  /\ revoked \in SUBSET [generation : Nat, at : Nat]
  /\ profile \in Profiles \cup {None}
  /\ lock \in Procs \cup {None}
  /\ DOMAIN proc = Procs

\* The profile's flock is held exactly while its holder is about to save: a
\* killed process leaves none behind that others wait for.  What was read under
\* the lock is still what the file says (readiness.go:1411).
LockDiscipline ==
  \A p \in Procs :
    /\ (proc[p].pc = "save") <=> (lock = p)
    /\ proc[p].pc = "save" => proc[p].previous = profile

OneContract == \A v, w \in Versions : ContractOf[v] = ContractOf[w]

\* saveProfile numbers the saves of an entry whose binding keeps its name: no
\* two configurations share a revision, whichever processes save them and
\* wherever they are killed (readiness.go:1401).
RevisionCountsSaves ==
  OneContract => saves = IF profile = None THEN 0 ELSE profile.revision

UsableIn(p) == At(p, "catalog", "usable")

\* usable-now rests on a smoke run of this configuration: of the save of the
\* profile and of the credential the provider has just vouched for, not of an
\* earlier one with the same account (readiness.go:589).
UsableIsThisConfiguration ==
  \A p \in Procs : UsableIn(p) =>
    LET e == proc[p].outcome
    IN /\ e.credential = proc[p].credential
       /\ e.save = IF proc[p].profile = None THEN 0 ELSE proc[p].profile.save

\* A smoke run passes only before its own deadline, which is never after the
\* credential's own end, however long the command took (readiness.go:814).
PassedInTime ==
  \A e \in evidence : e.result = "passed" =>
    /\ e.observed < e.expires
    /\ e.credential # None => e.expires <= e.credential.until

\* No credential is reported usable that had ended, or that its provider had
\* revoked, before the catalog was asked (readiness.go:577-632).
UsableNeedsLiveCredential ==
  \A p \in Procs : UsableIn(p) /\ proc[p].outcome.credential # None =>
    LET c == proc[p].outcome.credential
    IN /\ proc[p].now < c.until
       /\ \A r \in revoked : r.generation = c.generation => proc[p].now <= r.at

\* No evidence is used after its own deadline (readiness.go:629).
UsableInTime ==
  \A p \in Procs : UsableIn(p) => proc[p].now < proc[p].outcome.expires

\* A failure that was recorded demotes the success it follows, wherever in the
\* run it happened and whatever it had found out by then: the version and the
\* order of observation are enough (docs/authentication-readiness.md:170-176).
NewerFailureDemotes ==
  [][\A p \in Procs : UsableIn(p)' /\ ~UsableIn(p) =>
       ~ \E f \in evidence :
           /\ f.result = "failed" /\ f.version = proc[p].version
           /\ proc'[p].outcome.observed < f.observed /\ f.observed <= proc[p].now]_vars

\* "Only a checksum-verified remote installation can produce smoke evidence
\* bound to a released artifact" (docs/authentication-readiness.md:152-154).
EvidenceIsOfItsArtifact ==
  \A e \in evidence : e.result = "passed" /\ e.source = "remote" => e.ran = e.package
=============================================================================
