# Formal models of ai-skills-guide

This directory holds TLA+ models of the parts of the repository whose correctness depends on the
order of steps or on several facts that age apart: the agent control plane, the governed ad platform
executor, installation by `skills-hub` from a registry and from a checkout, operational readiness,
and the decisions about agents, workflows and releases. TLC checks the models on small instances;
TLAPS proves almost all of their safety properties for every instance. `PROJECT.json` lists the runs, the
mutations each property is tested with, the source lines behind every definition, the hazards and
the findings.

Short names below: *CP* is
`src/tools-mcp/agentops/agent-control-plane-server/scripts/control_plane_core.mjs`, *EX* is
`src/tools-mcp/adtech/ad-platform-executor-template/scripts/ad_platform_executor_core.mjs`, *IN* is
`src/internal/installer/remote.go`, *RE* is `src/internal/readiness/readiness.go`, and *AD* is
`src/internal/registry/admission.go`.

## 1. The system and its parts

Most of the repository is text: skills, agents, plugins and packs, each a directory with a
manifest. The program around them:

| Part | State it keeps | Operations | Hard behaviour | What makes it correct |
|---|---|---|---|---|
| Control plane, policy rules (CP 488-581) | none | `validatePolicy`, `evaluate` | several rules match | the strictest effect and tier win, roles add up, the shortest lifetime holds |
| Control plane, authority (CP 542-851) | per tenant: policies, activations, decisions, approval requests and decisions, grants, claims, actions | `installPolicy`, `checkPolicy`, `requestApproval`, `decideApproval`, `authorizeAction`, `validateExecutionGrant`, `revalidateExecutionClaim`, `getExecutionClaim`, `recordAction` | policies replaced and authority expiring in between; executors racing; retries | no grant without the authority behind it; single-use claims; final outcomes |
| Control plane, tenant store (CP 187-215, 295-442, 853-876) | record, audit event, signed head, receipt, transaction intent: five files per record | a transaction; recovery; verification | crashes and failing file operations between any two files | all or nothing, in one order, never corrupt |
| Control plane, tenant lock (CP 217-270) | a directory with `owner.json` | acquire, break, release | dead holders; files moved by path | mutual exclusion, no dead lock |
| Control plane, server and administration | keys, identities in the environment | JSON-RPC framing, signature checks | - | input and output |
| Executor, operations (EX 521-872) | intents and receipts per execution; the provider's resource; the control plane's records | `previewChange`, `executeApprovedChange`, `reconcileExecution`, `rollbackExecution`, `getExecution` | lost answers, late effects, outside writers, crashes, authority that ends | an approved change reaches the provider at most once and every recorded outcome is true |
| Executor, resource lock (EX 411-428) | a directory per resource | acquire, remove, release | dead holders; removal by path | operations on one resource serialize |
| Executor, providers, credentials, child process | - | HTTP, child process | - | input and output |
| Installer, package activation (IN 1331-1552) | destination, stage, backup, marker, lock per package | `atomicInstallTreeChecked`, recovery | crashes between renames, several processes | what was installed survives |
| Installer, closures (IN 745-797, 939-1325, `agent.go`) | one marker per plugin or agent, naming all members | `atomicInstallClosureChecked`, recovery | the same, over several packages and module directories | a visible plugin has its dependencies |
| Installer, checkouts (`install.go`, `plugin.go`, `receipt.go`) | packages and their receipts, in place | `InstallSkill`, `installDependencySet`, `WriteInstallReceipt`, `VerifyInstallClosure` | no lock, no marker: ends half way, other installations beside it | a receipt that verifies is of a whole package |
| Installer, registry snapshots and artifacts (IN 95-306, 365-540) | cache directories | load, download, unpack, keep, prune | several processes without a lock, offline use, clock set back | only releases that passed are kept; offline works after online |
| Installer, compiler (`compiler.go`) | none | package tree to runtime files | - | a translation |
| Readiness (RE, `cmd/skills-hub/readiness.go`) | a profile per package; an append-only directory of smoke records | `Configure`, `Doctor`, `Smoke`, `DeriveCatalogStatus` | evidence ages; profiles, credentials, packages and executables change under a running test | usable only on current evidence for this very configuration |
| Composite workflows (`composite.go`, `composite_status.go`, `composition.go`) | none | validation of composite evidence, status of a plugin, composition of results | facts of several providers that expire apart; results in any order | nothing reported that the parts do not bear out |
| Registry admission (AD, `builder.go`) and publisher (`prepare-public-assets.mjs`) | none | packing, admission in the registry, admission by the client, loading | three programs work out one closure | what is admitted is the closure and can be used |
| Agents (`installer/agent.go`, `agents/run.go`) | the compiled contract | compilation, `RunPreflight` | the contract is older than what it is checked against | ready only if the agent is accountable as things are now |
| Read-only MCP servers; OpenAI Ads client; publication scripts; web catalog | little or none | requests; single-shot runs | - | see `components` in `PROJECT.json` |

How the modelled parts interact. The executor calls the control plane through a child process per
call (claim, revalidate, record); the grant is the only thing they share. Each keeps its own
records, and agreement between them is a protocol of durable steps: intent, claim, intent,
"executing", provider request, receipt, terminal record, intent. The operations of the control
plane run one at a time per tenant under the tenant lock, on top of the transaction store. The
operations of the executor run one at a time per resource under the resource lock. Installer
processes share the runtime directory with its markers and flock locks, and the cache without any;
local installations write to the same runtime directory and heed neither. Readiness reads what
was installed (receipts, drivers) and what the provider says, and its records are what the catalog
status and, over several tools, composite evidence are derived from. Preflight reads the contract
that installation compiled and asks readiness again for tools that were still to be authenticated.

## 2. The modules

| Module | Models | Abstract specification |
|---|---|---|
| `PolicyRules` | policy rules as operators | |
| `ControlPlane` | the authority life cycle, one action per locked operation | `GrantAuthority` |
| `TenantStore` | the transaction protocol, one action per file operation, ideal lock | `AuditLog` |
| `TenantLock` | the tenant lock, one action per file system call | |
| `TenantStoreOnLock` | composition: `TenantStore` on `TenantLock` | |
| `Executor` | execution, reconciliation, cancellation, rollback; one action per durable effect, ideal lock | uses `GrantAuthority` |
| `ResourceLock` | the resource lock, one action per file system call | |
| `ExecutorOnLock` | composition: `Executor` on `ResourceLock` | |
| `Installer` | activation, closures and recovery, one action per rename, removal or marker | `Activation` |
| `RegistryCache` | remote installation through the unlocked cache, one action per file operation | |
| `LocalInstall` | installation of a plugin and its skill from a checkout, one action per file operation; releases installed beside it | |
| `ReadinessRules` | what a provider observation makes of a credential, which records apply, which is the latest | |
| `Readiness` | configure, smoke and catalog status, one action per read of shared state or file operation | |
| `CompositeRules` | composite evidence, composite status, composition of results | |
| `AgentRules` | compilation of an agent's bindings and the gates of preflight | |
| `AdmissionRules` | publisher's packing; admission in the registry and by the client; what the client can load | |
| `ReadinessCases`, `AdmissionCases` | the questions put to the three modules above, and their properties | |
| `ControlPlaneProofs` | theorems about `PolicyRules` and `ControlPlane`, with its step simulation | `GrantAuthority` |
| `TenantStoreProofs` | theorems about `TenantStore` and `TenantStoreOnLock`, with the step simulation | `AuditLog` |
| `ExecutorProofs` | theorems about `Executor` and `ExecutorOnLock`, with the executor's use of authority | `GrantAuthority` |
| `TenantLockProofs`, `ResourceLockProofs` | theorems about the modules they are named after | |
| `InstallerProofs` | theorems about `Installer`, with the step simulation | `Activation` |
| `InstallSourcesProofs` | theorems about `RegistryCache` and `LocalInstall` | |
| `ReadinessProofs` | theorems about `Readiness`, `CompositeRules`, `AgentRules` and `AdmissionRules` | |
| `MC*` | small instances for TLC | |

The modules justify one another. `ControlPlane` treats an operation as one action because
`TenantStore` shows, crash by crash, that the store is a log growing by whole records (`AuditLog`)
and that a body always starts on a committed store. `Executor` uses the control plane as three
sets per grant, and every one of its steps is a step `GrantAuthority` allows
(`UsesGrantAuthority`), which is what `ControlPlane` implements (`ImplementsGrantAuthority`).
`TenantStore` and `Executor` assume an ideal lock; the two `OnLock` modules run the same actions on
the locks the code has, and show what is left when those fail. `RegistryCache` puts a package in
place in one step (`Commit`) and `LocalInstall` lets a release arrive in one step (`Release`) because
`Installer`, in which it takes a dozen, implements `Activation`, in which it takes one. `Readiness`
likewise takes an installation as one step: a receipt is there with its tree. The decisions that keep no state are operators; a *question* is an input to them, every question is
an initial state, and a property compares the answer with a definition of its own.

### State and actions against the code

*ControlPlane.* A variable per directory of records. An identifier (`DecisionId`, `ApprovalId`,
`GrantId`) is the tuple the code digests. `epoch` is a ghost: how many policies had been activated
when the record was written. Executor operations check the grant's signature and expiry before they
wait for the lock, so they are two actions, `Arrive` and the locked body; everything else is one.
`InstallInterrupted` is the crash between the policy document and its activation, which are two
files outside one transaction. Identities, scopes and roles are constants; signatures prove origin.

*TenantStore.* `domain`, `audit`, `head`, `receipts`, `intents` are the files; `memory` is
what a process has read under the lock. Content that a lock failure can make two processes disagree
on is kept (path and value); the rest of a record is not. `Crash` may happen before every step,
`Throw` is a file operation that fails in a living process.

*TenantLock, ResourceLock.* Files by path, so that a rename or rmdir acts on whatever is there by
then. Time is one flag: a directory is old or not. `misplaced` is a ghost: some rename or rmdir hit
another directory than its process had looked at.

*Executor.* `world` is the field at the provider, `request` the fate of a grant's request: it may
`Land` or be refused at any time while it flies, also after the caller gave up. `claims`, `opened`
and `outcome` are the control plane's answers. `Interrupt` is a crash, or an exception, before any
step; a receipt being written is left whole, absent or torn. `WriteOutside` is another user of the
account. A mutation whose deadline passes before anything is sent is a request that never lands. A
claim recorded although its grant expired in the meantime (`ClaimedWhileCurrent`, section 3) is, for
the executor, a claim made just before. In `ExecutorOnLock` a repeated request of one grant replaces
the first request's fate, since the violation is complete by then.

*Installer.* `tree` is what is at each destination, `closure` and `mark` are the two kinds of
marker, `kept` and `spare` the backups they name. `os.RemoveAll` takes two steps with a partial
tree between them. A process that finds a lock taken returns an error, so taking several locks is
one step that succeeds or fails; locks taken by half are released without a trace. Download and
admission are one step that may fail; a lapse of admission before each activation is `Lapse`.
Packages installed before the history starts have content `Old`.

*RegistryCache.* The k-th index of the registry lists the versions 1 to k and names k the latest; a
version is admissible or not, and admission is that. `snapshots` are the files per selector,
`artifacts` what lies under a version's digest: nothing, a partial or altered file, or the good one.
A file is read twice by the code (hashed, then unpacked) and so it is here. `SetBack` is the host
clock moving behind the evidence of a version (`ahead`), which the two freshness checks (IN 270,
287) refuse. `Stop` is any failure and any crash, before any step. `kept` and `lost` are histories:
snapshots ever kept, and artifacts another process removed after they had been verified (IN 531).

*LocalInstall.* A tree has files with contents, a digest is the tree. `os.RemoveAll` removes file by
file, `copyTree` copies file by file, a receipt is the digest taken before and written after, and
may be torn. `Edit` changes the checkout, `Release` puts a release in place meanwhile. Preflight and
admission read only the checkout and are part of `BeginLocal`; a failure of theirs is `End`.
`contested` is a history of packages two processes were installing at once.

*Readiness.* One package on one machine. `installed` is what is in its directory: which build, of
which source, altered or not; a local build may claim a release's version and contract. `vault` is
the current credential, `revoked` what the provider refuses, `exe` the host's executable. `Begin`
loads the entry; each of verify, load the profile, ask the provider, judge, run, look again, check
the time, append and publish is a step. A profile is saved under its flock, which `Kill` releases.
A record that was linked is complete (RE 1517-1557), one that was not is absent.
With `LiveCredentials` the driver of the package is asked for the credential; otherwise the process
reads its own environment, whose value was fixed at its start. Instants are small numbers; an
expiry equal to now is expired, as in the code.

*Questions.* `CompositeRules`, `AgentRules` and `AdmissionRules` follow the functions they are named
after, in the order of their checks where the order decides the answer; a file, an attestation or a
digest is a value compared for identity. `AgentRules` compiles a contract from the manifest and the
packages of then and checks it against those of now. In `AdmissionRules` a digest stands for
content. A reference in a skill's tools names a package or a file of the repository, told apart by
shape as in the code; no file of the repository has the shape of a package identifier.

## 3. What the runs show

Passing runs:

| Run | Question | Bounds |
|---|---|---|
| `control_plane` | Can any sequence of decisions, approvals, rulings, replacements and reinstallations, with two executors racing for a grant, give a grant, claim or clearance more authority than the policy in force and an approver gave, two claims, or two outcomes? Is each grant a `GrantAuthority`? | 3 policy documents of which one reuses a version (2 installable), 2 administrators (one with half of the roles), 2 executors, 1 pending approval, 2 calls in flight, 2 instants |
| `tenant_store` | Does recovery complete everything, before anyone looks, lose nothing acknowledged, and is the store an `AuditLog`? | 3 processes, 2 paths, 2 values, 2 faults |
| `tenant_lock`, `resource_lock` | Do the locks exclude, except by the one known race, and is a dead holder replaced? | 3 processes, 2 crashes |
| `executor` | Execution, reconciliation and cancellation of a change by two executors, and the change with its rollback by one: is a change applied once, every effect accounted for, a begun cancellation completed, and does the executor keep to `GrantAuthority`? | 2 executors and 1 change, with 2 disturbances in all: crash or exception, outside write, expiry of the plan; or 1 executor, the change and its rollback; 3 values, fairness |
| `installer` | Is a visible plugin whole, does a rollback restore, does every marker go? Is an installation an `Activation`, so that what was installed only ever gives way to another release? | 2 processes, 2 releases of a plugin with its dependency, an earlier dependency; or 2 releases of one package; 2 faults, fairness |
| `install_sources` | Registry: does a snapshot stand for a release that passed, is only that installed, is an offline run served? Checkout: is a receipt that verifies of a whole package, does the closure of a local plugin verify? | 2 processes, 3 runs (or 2 and a clock set back), 2 indexes, 1 snapshot kept, an unusable artifact of the first version at the start or none; 2 processes, 2 installations, 2 packages of 2 files, 1 edit of each, 1 release |
| `readiness` | Is a package called usable only on evidence of this configuration, earned in time, for a credential that is alive, and is a later failure believed? And the questions below. | 2 processes, 3 runs, 4 instants, 1 event (install, alter, replace, rotate or revoke); all questions |

`readiness` also asks about 130 000 questions. They are enumerated, not sampled: composite
evidence over two tools with every placement of expiry and observation around the instant of
the check and every field altered once; compositions of up to two expected capabilities and two
results; agents with a binding of every kind, requirement, access and availability, with everything
in order and with one of seventeen things amiss; repositories of a plugin, a skill, an agent and a
tool with every dependency graph, every archive with one member changed; and contracts together with
the client that loads them.

Why these bounds are enough to be interesting. Two executors and two calls in flight make every
pair of an expiry check and a locked body overlap. Two faults allow a crash in a recovery from a
crash, which is where "recovery is idempotent" can fail; three processes in the store allow a
third one to follow two that died. Three values give the provider a state that is neither image of
the change. The installer's two faults stop an installation and then its recovery, or two
installations. Two processes in the cache make every pair of a check and an effect on one artifact
overlap, and a third run reads what they left; with `Keep = 1` every additional snapshot prunes. Two
files are the least that can be copied by half. Three runs of readiness are a configuration, a smoke
test and a status in any order or overlap; one event suffices because each kind changes one of the
facts a status rests on, and time moves besides.
Three runs combine two instances each, of which a behaviour follows one: `MCExecutor` (two executors
on a change, or one with its rollback), `MCInstaller` (`Offers`: which releases are on offer) and
`MCInstallSources` (`scene`).
Symmetry is used for processes (and paths and values of the store), whose permutations no constant
distinguishes, and never in a run with a liveness property.

Runs that show a disagreement of the code with its documentation or tests (`findings`):

| Run | What happens |
|---|---|
| `tenant_store_breakers` | two processes break a dead holder's lock, both enter, the signed head moves back, the store never verifies again |
| `executor_breakers` | two executors remove a dead one's lock, both enter, the provider gets the change twice |
| `installer_lost` | recovery of an interrupted closure removes a dependency another process installed since |
| `readiness_substituted` | a local build installed between the first receipt check and the command runs, and the record of its success names the released artifact and may be promoted |

The first three need two processes at once, the last one process and an installation beside it. What
is left when the locks fail is stated in the compositions, checked on the same small instances and
proved (section 5): `OneContentPerPath`, `AckedSurvives` and `AuditOnlyGrows` (`TenantStoreOnLock`:
no record gets two contents, what was acknowledged stays, no event is replaced) and
`EvidenceIsImmutable` (`ExecutorOnLock`: receipts and outcomes never change).

### Other statements the code does not keep

The modules also define these; no configuration lists them. To see a history, put the name in place
of the properties of the configuration named.

| Statement | Configuration | What the code does |
|---|---|---|
| `ClaimedWhileCurrent` | `ControlPlane` | CP 747 verifies expiry before the wait for the tenant lock (CP 749), so a claim can be persisted after its grant expired |
| `InstalledPolicyIsActive` | `ControlPlane` | CP 554 returns the old activation of a policy that was active before: success, and the later policy stays active |
| `RejectionPrecedesEffect` | `Executor` | EX 246: a 2xx answer that cannot be read counts as a rejection, and an applied change is recorded as failed |
| `ReconciliationCanFinish` | `Executor` | EX 708: after a definite rejection the intent stays claimed, the control plane is closed with other evidence, and reconciliation conflicts for good |
| `NoEffectIsTrue` | `Executor` | EX 754: absence of the effect is recorded, then the request that timed out lands |
| `LossIsReconcilable` | `Executor` | EX 388: a receipt is created and then filled; one torn by a crash is refused by every later operation |
| `ExecutionCancellationCompletes` (a property) | `Executor` | EX 677: the plan's expiry is checked first, so a begun cancellation cannot be resumed after it |
| `MarkersAreSatisfiable` | `InstallerLost` | IN 1235: a committed closure marker and an interrupted forced upgrade of one member make every later installation fail |
| `VisibleIsWhole` | two plugins, one dependency (`Closures = {a1, b1}`, `Packages = {A, B, D}`, nothing earlier, no fault) | IN 1011 protects only the root: a second plugin replaces the dependency of an installed one under it |
| `TrustedArtifactsStay` (a property) | `InstallSources` | IN 526-531: "Any existing file at this path already failed verification above, so removing it cannot discard trusted data" - but of two processes that found no artifact the slower one removes the file the faster one has verified and put there; if it ends before its own rename an offline run is refused |
| `ReportedClosureVerifies` | `InstallSources` | `plugin.go` 289: installing a plugin from a checkout without `--force` skips a member that was installed from a release, lists it in the plugin's local receipt and reports success; the closure of a local plugin must be local (`receipt.go` 193), so it never verifies |

Statements that hold and are in no configuration, to keep the runs short, are proved instead
(section 5): `LatestAreRetained` (`RegistryCache`: the latest `Keep` snapshots of a selector stay),
`InstalledSurvives` (`Installer`; what is left of it where a package is installed in both ways is
`installer_lost`),
those of the compositions named above, and the inductive invariants.

Deadlock. Runs of the executor, of readiness and of the sources of an installation are checked with
`CHECK_DEADLOCK FALSE`: when the plan and the grants have expired and everything is closed, or when
the bounds on runs and events are used up, nothing is left to call; a question is not followed by
anything. The other runs check deadlock.

## 4. Fairness

* Locks: a process that is alive and acquiring or releasing takes its next step, and time passes
  (`Age`). The code loops with short sleeps; nothing else keeps it from running.
* Executor: a process that serves a call goes on; the lock is won by somebody who asks for it
  again and again, and the caller asks again for what was left pending. That is what
  "a restart resumes that sequence" needs. Faults are bounded, as in any statement that something
  happens in the end. Nothing is assumed of the provider.
* Installer: processes run, and each goes on starting installations ("reconciled on the next
  install"). No fairness between processes is needed: whoever fails because a package is locked
  leaves it to the holder, who recovers it himself.

## 5. What is proved

For every value of the constants, by TLAPS.

### Control plane

* The rules of a policy (`ControlPlaneProofs`). `StrictestRuleWins`: whatever rules a policy has,
  the strictest matching effect and the highest matching tier decide, the approvers of all matching
  rules are needed, an approval lasts no longer than any of them lets it, and what no rule matches is
  denied. `MoreRulesAreStricter`: a rule added to rules that match loosens none of this. (Where no
  rule matches, a new rule may of course allow.)
* The authority. `Typing` (`TypeOK`), `ClaimIsSingleUse` (`SingleUseClaim`), `Invariance` (`IInv`),
  and from it `GrantsNeverExceedAuthority` (`GrantsAreBacked`) and `ReplacementInvalidates`
  (`OnePolicyEpoch`).
  The two properties are not inductive: that a claim lies in its grant's epoch needs that the
  grant, the ruling, the request and the decision it rests on were each written in the epoch they
  name, that this epoch is an activation of their own policy, and that a policy is activated once.
  `Chained` says this. The argument: records only join, so what a record rests on persists
  (`RecordsPersist`, `BackedPersists`, `DatedPersists`); an operation that writes a record requires
  the active policy, so the new record has the last epoch (`ActiveEpoch` and one lemma per kind of
  record); only `NewGrant` has to establish `Backed`, from the rulings that stand.
  `OutcomesAreFinal` (`OutcomeIsFinal`) counts records: a new one is numbered one past the
  cardinality of a finite set it does not belong to.
* `Refinement` (`ImplementsGrantAuthority`), the step simulation for every grant identifier. Claims
  and records are steps of `GrantAuthority` because they read authority that stands and leave it
  alone (`ClaimView`, `RecordView`); all other steps only move the stage (`StageStep`). The hard half
  is that authority which ended does not come back: the policy because an activation is never
  repeated and a grant is no older than its policy's beginning (`Begun`, `PolicyStaysEnded`), the
  approval because a request is ruled on once (`ApprovalStaysEnded`).
* The store (`TenantStoreProofs`). `OneUnfinishedTransaction` (`StoreInv`), and from it `StaysSound`
  (`NeverCorrupt`), `BodiesSeeCommittedStore` (`BodySeesCommittedStore`) and `AcknowledgedStays`
  (`AckedIsCommitted`). None of the three is inductive: recovery completes what another process
  left, so one has to know in which states a transaction can be left. `StoreInv` says it: at most
  one process that can still act holds the lock (`Alone`), at most one intent is unfinished, the
  files before it are complete, and its own are those of one of the five steps. The proof restates
  the files by position in the log (`FilesByPosition`), since every step changes one position, the
  last; a step of the holder is the next file or a crash before it (`HolderSteps`), and recovery
  takes the same steps.
  `StoreIsAuditLog` (`ImplementsAuditLog`): the log is the audit events with the record of the
  unfinished intent, if any, at their end: the intent is what commits (`StartCommits`), its audit
  event moves the record over (`AppendStutters`), all else stutters.
* The tenant lock (`TenantLockProofs`). `LockInvariance` (`LockInv`) and `LockExcludes`
  (`ExclusiveUnlessMisplaced`). Exclusion alone is not inductive: a holder is the one `owner.json`
  names, a directory with a living owner is not old, and one that a process is about to rename was
  old when it looked.
* The store on that lock (`TenantStoreProofs`). Every step of the composition is a step of the lock
  (`StepsOfTheLock`) and one of the store's among the living. So until a rename has hit another
  directory than its process had looked at, the composition keeps `StoreInv`
  (`OneUnfinishedTransactionOnLock`), all the store's properties (`TenantLockIsAllThatIsNeeded`) and
  the audit log (`StoreIsAuditLogOnLock`): the history of `tenant_store_breakers` needs exactly that
  rename. After it, and whatever else the lock lets through, a weaker invariant still holds
  (`LooseInv`: a writer's record is in its files as far as it has got, and each file's content is
  written once), which is enough for `RecordsAreOne` (`OneContentPerPath`), `AcknowledgedSurvives`
  (`AckedSurvives`) and `AuditStays` (`AuditOnlyGrows`). A failing lock can therefore cost the head
  and the receipts, and with them the store's verification, but no record.

### Executor

* The lock (`ResourceLockProofs`). `ResourceInvariance` (`LockInv`) and `ResourceSerialized`
  (`SerializedUnlessMisplaced`), by the argument of the tenant lock with the maker in place of the
  owner.
* The operations (`ExecutorProofs`). `RecordsAgree` (`ExecutorInv`), and from it `ReachesProviderOnce`
  (`NeverReplayed`), `EffectsHaveRecords` (`EffectIsAccountable`), `CancellationsHaveNoEffect`
  (`CancelledMeansUntouched`), `SuccessesHaveReceipts` (`SuccessIsReceipted`) and `EndsAreBacked`
  (`LocalEndsAreBacked`). That a grant is sent once cannot be read off one record: it needs that
  intent, claim, "executing" record, request, receipt and terminal record of a grant only occur in
  the combinations the protocol passes through (`GrantInv`), and that an operation is at a step its
  grant's records allow (`PlaceInv`). The argument: only the holder of the resource changes records,
  and of its own grant (`HolderSteps`); one lemma per step; whatever closes a grant has to agree with
  what was sent (`Ending`); expiries, outside writes and late effects touch none of it
  (`QuietSteps`, `Surroundings`).
  `ControlPlaneIsUsedAsPromised` (`UsesGrantAuthority`): what the executor takes the control plane to
  do for each grant is what `GrantAuthority` allows, step by step, so what `ControlPlane` implements
  is what the executor was verified with.
* The operations on the lock. The invariant is stated among the processes that live
  (`InvAmong`); a process the lock let in stands for the holder. `RecordsAgreeOnLock`,
  `LockIsAllThatIsNeeded` and `ControlPlaneIsUsedAsPromisedOnLock`: all of the above holds until an
  rmdir removes another directory than its executor had found too old, so a change applied twice
  (`executor_breakers`) needs exactly that. `EvidenceStays` (`EvidenceIsImmutable`) holds after it too.

### Installation

* Activation and closures (`InstallerProofs`). `InstallationIsKept` (`InstallerInv`), and from it
  `PluginsAreWhole` (`VisibleIsWhole`), `ReportedSurvives` (`InstalledSurvives`),
  `RecoveryFindsItsNeeds` (`MarkersAreSatisfiable`) and `RollbackIsExact` (`RollbackRestores`).
  `VisibleIsWhole` is not inductive, because between two steps all that says which packages belong
  together is a marker. `InstallerInv` says what a marker tells of the disk (`Written`,
  `Recoverable`), what is true where there is none (`Settled`), and what the process under whose locks
  a package is has established of it by the step it is at (`ClosureWork`, `TreeWork`): a plugin's
  root goes first and comes last, so members that are still to come are away or as they were
  (`Ahead`) while the root is not there. The argument: a step touches one root's group of packages,
  and the groups of other roots are as before.
  `InstallsAtOnce` (`ImplementsActivation`), the step simulation: the moment a release takes the place
  of what was there is the rename of its stage or, for a closure, the write that makes its marker
  "committed"; the renames before it and the cleaning up after it stutter, and so do an interruption
  and the recovery from it, because what a marker keeps aside counts as installed until then.
  This needs `Separate`: releases that share a package are of one root. `Installer.cfg` satisfies it;
  `installer_lost` and the entry on `VisibleIsWhole` in section 3 are what happens without it.
* The cache (`InstallSourcesProofs`). `CacheKnowledge` (`CacheInv`), and from it `SnapshotsHavePassed`
  (`SnapshotsAreBacked`) and `InstalledHasPassed` (`InstalledIsVerified`). Without a lock, what a run
  has established must survive what the others do. `Earned` lists it by step and `Preserving` what
  any step leaves true: an artifact goes only on the record (`lost`), none becomes unusable, and the
  history of snapshots grows. `EarnedStays` follows from `Preserving`, and every step preserves.
  `CacheServes` (`OfflineInv`), and from it `OfflineWorks` (`OfflineIsServed`) and
  `LatestSnapshotsStay` (`LatestAreRetained`). That an offline run is served needs to know how new
  the list is that it read: as new as all that was kept when it began, unless `Keep` newer snapshots
  came since (`Looking`); and what is pruned has `Keep` newer ones, now and ever after.
* The checkout (`InstallSourcesProofs`). `CheckoutKnowledge` (`LocalInv`) and `ReceiptsTellTheTruth`
  (`LocalReceiptsAreTrue`). What a process has copied of a package that nobody else writes is there
  (`Copied`), so the digest it takes is of a whole tree; one that is undisturbed knows in addition
  what the receipts say (`Knows`).

### Readiness and decisions

* Readiness (`ReadinessProofs`). `ReadinessIsKept` (`ReadinessInv`), and from it `RevisionsCountSaves`
  (`RevisionCountsSaves`), `SuccessesPassedInTime` (`PassedInTime`), `UsableIsInTime` (`UsableInTime`),
  `UsableCredentialLives` (`UsableNeedsLiveCredential`), `UsableRestsOnItsConfiguration`
  (`UsableIsThisConfiguration`) and `FailuresDemote` (`NewerFailureDemotes`). A record is
  compared with what was read several steps before, so the invariant says for each step what a run
  knows of the credential it read (`Vouched`), of the record it chose (`Rests`) and of the one it is
  about to write (`RecordInv`): a record names the profile by its revision and the credential by its
  generation, revisions count saves because the profile's lock covers reading and writing
  (`LockDiscipline`), and generations are never given twice (`GenerationsAreUnique`).
  `UsableRestsOnItsConfiguration` has the hypothesis `OneContract`: a save under another contract
  starts the revisions at 1 again (RE 1401-1421), so that a revision names a save only as long as the
  contract is the same. The run checks it where contracts do not change.
* Decisions (`ReadinessProofs`), for inputs of any size where the run enumerates small ones.
  `CompositionsAreAccountable` (`CompositionIsAccountable`): any expectations and any results in any
  order. `AcceptedEvidenceIsEarned` (`EvidenceIsEarned`): any declared tools, any current receipts and
  any evidence; that accepted evidence leaves no declared provider out is a matter of counting, as
  many distinct observations as declarations (`AllAreObserved`). `ReadyAgentsAreAccountable` and
  `AccountableAgentsAreReady`: preflight calls an orchestrated agent ready only if, and with its files
  in order also if, every required binding is usable as things are now. From the two,
  `PreflightsAreAccountable` (`PreflightIsAccountable`): any binding beside a required skill, any state
  of its package, any governance, any length an attestation is good for; with nothing amiss, with each of
  the seventeen things amiss, and for agents without orchestration with any tools their user binds.
  `AskedIsAny` shows that the run asks no others.
* Admission (`ReadinessProofs`), for packages of any number. The closure of a release and the search for
  a cycle are recursive functions. What they compute is not left to TLC: a set of naturals that holds
  zero and the successor of each of its members holds all (`NaturalsFollow`, from the least natural of
  the rest), so sets that only grow in a finite one are at rest after as many steps as it has elements
  (`Iterates`), and the result is the least set that holds the roots and is closed
  (`ReachableIsLeast`). There is a cycle exactly if some non-empty set has no member without a
  successor in it (`CyclesNeverEnd`).
  `PublishedArchivesAreClosures` (`LockIsTheClosure`, of repositories): whatever repository a plugin is
  published from, the client lets the archive in exactly if the closure is there and has no cycle, it
  then bundles that closure, and what the registry lets in is let in. `AdmittedArchivesAreClosures`: so
  does any archive that is let in, whoever made it.
  `AdmissionsAreUsable` (`AdmittedIsUsable`): for any driver and any runtimes, any providers, and any
  contract with any dependencies.

### Assumptions

Those named in the modules, and the hypotheses of theorems listed last.

`ControlPlane`: policies are well formed and expire after they begin, scopes and roles are subsets of
what exists, `None` is no executor, the clock and the calls in flight have bounds (any bounds). The
locks: a directory is not the value `None`, crashes are bounded (by any bound). About time the
actions `Age` say this much: a directory of the tenant lock does not grow 30 seconds old between a
living process's `mkdir` and its `owner.json`, two consecutive calls; a resource lock grows 240
seconds old only under a dead executor, since an operation is limited to 120 seconds. `TenantStore`:
faults are bounded (by any bound), `None` is no process. `Executor`: a rollback belongs to an
execution and swaps its images, a change changes something, faults and outside writes are bounded (by
any bounds); `None` is no executor, and absent, torn, written and closed are different
(`RecordAssumption`). `Installer`: the members of a release are packages, each once, and one for a single
package; single packages and closures are different, and no release is one of the values for an
earlier, a partial or an absent installation; `None` is no process, package or transaction
(`MarkerAssumption`). `RegistryCache`: a selector that names no version is not a version, at
least one snapshot is kept. `LocalInstall`: there is a file and a content. `Readiness`: lifetimes
and bounds are natural numbers, what is released is a package, and absent values are different from
present ones (`RecordAssumption`).

Hypotheses: `Separate` (installer) and `OneContract` (one theorem of readiness), above; that the
value `None` is no directory of the lock in the two compositions; and of the decisions: what is not
given or does not parse is neither a profile nor a list of tools (`FilesAreTold`); a repository is
finite, holds the plugin, and no package has the name of a file (`IsRepository`, the shape of
identifiers in section 2); a list of bindings or components is a sequence; one package is not pinned
at two versions in one contract (`OnePin`, since only one version can be installed) and dependencies
have names (`AreNamed`).

### Only model-checked

Liveness: fairness and `ENABLED` are beyond the prover. Of `LockIsTheClosure`, the questions about
single archives: that each of the enumerated alterations of a published archive is refused
(`AdmittedArchivesAreClosures` says what holds of an archive that is not). The findings and the
statements the code does not keep, of course.

## 6. What is not modelled

Digests, signatures and MACs (identifiers are what is digested; forged or altered files are not
considered, except an altered package or artifact); parsing and wording; the JSON-RPC servers;
provider payloads; the child process around the control plane; power loss (a rename is durable once
it returned, since the code syncs files and directories); pid reuse.

Of readiness: output and redaction, the discovery of executables (a fingerprint), platforms, and the
locking of the state directory's creation. Of admission: the syntax of manifests, lifecycle dates,
and the index projection (`builder.go`, `manifest_parser.go`). Of agents: agent closures installed
from a checkout, the trust store's file, and the bundle that preflight writes. The runtime compiler
is a translation of files into files without state. The read-only MCP servers, the OpenAI Ads client
and the publication scripts are single-shot programs; the components marked `not_modelled` in
`PROJECT.json` give the reasons.

## 7. Plan

Done, in this order because authority and its single use matter most: policy rules and control
plane; its store and lock; executor and its lock; package activation; readiness; the registry cache
and local installations; composite evidence, agents and admission; the proofs above.

What would come next: the lifecycle dates of the registry index; agent closures from a checkout; and
the BigQuery job life cycle and the publisher's draft, upload, verify sequence.
To prove: that an altered archive is refused for any repository, which takes that digests of
different content differ.
