--------------------------- MODULE ReadinessRules ---------------------------
(***************************************************************************)
(* The decisions of internal/readiness that keep no state: what a provider *)
(* observation makes of a credential, which smoke evidence applies to an   *)
(* installed target, which record is the latest, and what a plugin of      *)
(* several provider tools makes of them.                                   *)
(*                                                                         *)
(* A credential is [account, generation, until]: whose it is, the label of *)
(* its generation, and when it expires.  Instants are naturals; 0 is the   *)
(* zero time.  Paths, digests and identifiers are compared, never parsed.  *)
(***************************************************************************)
EXTENDS Integers, FiniteSets

CONSTANTS Wide,       \* accounts whose grant covers every required scope
          Anonymous,  \* accounts the provider names no principal for
          SmokeLife,  \* localSmokeEvidenceLifetime
          None

ASSUME ReadinessRulesAssumption == SmokeLife \in Nat \ {0}

Earlier(a, b) == IF a < b THEN a ELSE b

\* The first of a sequence of <<condition, answer>> that holds.
FirstOf(table, otherwise) ==
  LET hits == {i \in DOMAIN table : table[i][1]}
  IN IF hits = {} THEN otherwise
     ELSE table[CHOOSE i \in hits : \A j \in hits : i <= j][2]

-----------------------------------------------------------------------------
(* resolveAuthentication *)

Report(state, selected, account, target, until) ==
  [state |-> state, selected |-> selected, account |-> account,
   target |-> target, until |-> until]

Unanswered(state, selected) == Report(state, selected, None, None, 0)

\* What can be said before any credential is read: None if the profile has to
\* be followed, "error" where the code returns an error instead of a report.
BeforeCredentials(status, profile, version, contract) ==
  IF status = "none" THEN Unanswered("not-required", FALSE)
  ELSE IF profile = None
       THEN Unanswered(IF status = "required" THEN "missing" ELSE "optional-not-configured",
                       FALSE)
  ELSE IF contract[profile.version] # contract[version] THEN Unanswered("error", TRUE)
  ELSE IF profile.version # version THEN Unanswered("stale", TRUE)
  ELSE None

\* Who the provider says the credential is, whatever comes of it.
ProviderTarget(credential) == <<credential.account, credential.account \in Wide>>

\* Mutation: what the provider says of revocation is not asked.
JudgedLeniently(profile, credential, revoked, attested, now) ==
  IF credential.until <= now \/ credential.account # profile.account
  THEN Report("invalid", TRUE, credential.account, None, 0)
  ELSE Report("ready", TRUE, credential.account, ProviderTarget(credential),
              Earlier(credential.until, attested))

\* An observation that lasts until attested, judged at the instant now.
Judged(profile, credential, revoked, attested, now) ==
  LET bad == FirstOf(<< <<revoked, "revoked">>,
                        <<credential.until <= now, "expired">>,
                        <<attested <= now, "expired">>,
                        <<credential.account # profile.account, "wrong-account">>,
                        <<credential.account \notin Wide, "wrong-scope">>,
                        <<credential.account \in Anonymous, "invalid">> >>, None)
  IN IF bad # None THEN Report(bad, TRUE, credential.account, None, 0)
     ELSE Report("ready", TRUE, credential.account, ProviderTarget(credential),
                 Earlier(credential.until, attested))

Satisfied(status, report) ==
  \/ report.state \in {"ready", "not-required"}
  \/ status # "required" /\ ~report.selected

\* The states doctor answers with setup_required.
SetupStates == {"missing", "expired", "revoked", "wrong-account", "wrong-scope",
                "invalid", "stale"}

ConfigurationClass(report) == IF report.selected THEN "authenticated" ELSE "no-authentication"

-----------------------------------------------------------------------------
(* Smoke evidence and the catalog *)

\* Mutation: the environment a failure was observed in is taken on trust.
StableTargetAnyTime(e, version, now) == e.version = version

\* evidenceMatchesStableTarget: the envelope that every record has, the early
\* failures included.
StableTarget(e, version, now) == e.version = version /\ e.observed <= now

\* Mutation: the binding keys are not compared.
TargetsCurrentAnyKey(e, receipt, exe, key, report) ==
  /\ e.class = ConfigurationClass(report)
  /\ e.source = receipt.source /\ e.package = receipt.package
  /\ e.target = report.target /\ e.account = report.account
  /\ e.exe = exe

\* Mutation: the fingerprint of the provider target is not compared.
TargetsCurrentAnyTarget(e, receipt, exe, key, report) ==
  /\ e.class = ConfigurationClass(report)
  /\ e.source = receipt.source /\ e.package = receipt.package
  /\ e.key = key /\ e.account = report.account /\ e.exe = exe

\* evidenceTargetsCurrent: asked of records of success only.
TargetsCurrent(e, receipt, exe, key, report) ==
  /\ e.class = ConfigurationClass(report)
  /\ e.source = receipt.source /\ e.package = receipt.package
  /\ e.key = key
  /\ e.target = report.target /\ e.account = report.account
  /\ e.exe = exe

\* Mutation: what counts as applicable is asked of failures too.
ApplicableAlike(e, version, now, receipt, exe, key, report) ==
  StableTarget(e, version, now) /\ TargetsCurrent(e, receipt, exe, key, report)

Applicable(e, version, now, receipt, exe, key, report) ==
  /\ StableTarget(e, version, now)
  /\ e.result = "passed" => TargetsCurrent(e, receipt, exe, key, report)

\* Mutation: of two records of one instant the success is kept.
SupersedesHopeful(e, s) ==
  \/ e.observed > s.observed
  \/ e.observed = s.observed /\ e.started > s.started

\* e replaces s while the catalog goes through the directory.
Supersedes(e, s) ==
  \/ e.observed > s.observed
  \/ /\ e.observed = s.observed
     /\ \/ e.started > s.started
        \/ e.started = s.started /\ e.result = "failed" /\ s.result = "passed"

\* The record the loop ends with; which of several equal ones does not matter.
Latest(records) == CHOOSE e \in records : \A s \in records : ~Supersedes(s, e)

\* Mutation: the deadline of the evidence is not looked at.
EligibleForever(e, now, report) == e.source = "remote"

Eligible(e, now, report) ==
  /\ e.source = "remote"
  /\ now < e.expires /\ e.observed < e.expires
  /\ e.expires <= e.started + SmokeLife
  /\ report.selected => e.expires <= report.until

=============================================================================
