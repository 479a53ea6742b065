---------------------------- MODULE ControlPlane ----------------------------
(***************************************************************************)
(* The authority life cycle one tenant's control plane keeps               *)
(* (control_plane_core.mjs): policies are activated, proposals decided,    *)
(* approvals requested and ruled on, grants issued, claimed once by an     *)
(* executor, and the outcome recorded.                                     *)
(*                                                                         *)
(* Every operation runs its body under the tenant lock, and either all or  *)
(* none of its record becomes visible (module TenantStore), so a body is   *)
(* one action.  What is NOT inside the lock is a separate step: the        *)
(* executor operations verify the grant's signature and expiry when the    *)
(* call arrives and only then wait for the lock (withTenantLock), so they  *)
(* are split into an arrival and a locked body.                            *)
(*                                                                         *)
(* The store is a set of records per directory.  Record identifiers are    *)
(* digests of the fields they are computed from; here an identifier IS     *)
(* those fields.  The ghost field "epoch" of a record is the number of     *)
(* policy_activated events that precede its own event in the audit log.    *)
(***************************************************************************)
EXTENDS PolicyRules, Sequences

CONSTANTS Policies,        \* complete policy documents (their digests)
          Versions,        \* (policy_id, version) pairs
          VersionOf,       \* the version a policy document carries
          RulesOf,         \* its rules
          EffectiveAt,     \* first instant it is valid
          ExpiresAt,       \* first instant it is not
          Agents, AgentScope,        \* agent_runtime identities, what each may propose
          Admins, AdminRoles,        \* administrators and their approver roles
          Executors, ExecutorScope,  \* executor_runtime identities
          Proposals,       \* [action, capability, account] records
          Justifications, Reasons, Evidence,
          GrantTtl,        \* 60 seconds
          MaxTime,         \* bound on the clock
          MaxPending,      \* bound on executor calls in flight at once
          None

ASSUME PolicyAssumption ==
  /\ VersionOf \in [Policies -> Versions]
  /\ RulesOf \in [Policies -> ValidRuleSets]
  /\ EffectiveAt \in [Policies -> Nat] /\ ExpiresAt \in [Policies -> Nat]
  /\ \A p \in Policies : EffectiveAt[p] < ExpiresAt[p]

ASSUME IdentityAssumption ==
  /\ AgentScope \in [Agents -> SUBSET Proposals]
  /\ AdminRoles \in [Admins -> SUBSET Roles]
  /\ ExecutorScope \in [Executors -> SUBSET Proposals] /\ None \notin Executors
  /\ \A p \in Proposals : p.capability \in Capabilities /\ p.account \in Accounts

ASSUME BoundAssumption == GrantTtl \in Nat \ {0} /\ MaxTime \in Nat /\ MaxPending \in Nat

VARIABLES now,          \* the wall clock
          installed,    \* policies/: documents written, activated or not
          activations,  \* policy-activations/, in audit order
          lastInstall,  \* ghost: the policy of the last install_policy that returned
          decisions, requests, rulings, grants, claims, actions,
          cleared,      \* ghost: answers "current" of revalidateExecutionClaim
          pending       \* executor calls that passed verifyGrant and wait for the lock

policy == <<installed, activations, lastInstall>>
agency == <<decisions, requests, rulings, grants>>
effect == <<claims, actions, cleared>>
store  == <<policy, agency, effect>>
vars   == <<now, store, pending>>

-----------------------------------------------------------------------------
(* Identifiers and records *)

DecisionId == [agent : Agents, proposal : Proposals, policy : Policies]
ApprovalId == [decision : DecisionId, justification : Justifications]
GrantId    == [decision : DecisionId, approval : ApprovalId \cup {None}]

Terminal == {"executed", "failed", "cancelled"}
Statuses == Terminal \cup {"executing"}

Decision == [id : DecisionId, epoch : Nat]
Request  == [id : ApprovalId, expires : Nat, epoch : Nat]
Ruling   == [id : ApprovalId, verdict : {"approved", "rejected"}, approver : Admins,
             reason : Reasons, expires : Nat]
Grant    == [id : GrantId, issued : Nat, expires : Nat, epoch : Nat]
Claim    == [grant : GrantId, executor : Executors, at : Nat, epoch : Nat]
Action   == [grant : GrantId, seq : Nat, status : Statuses, evidence : Evidence,
             executor : Executors]
Clearance == [grant : GrantId, executor : Executors, epoch : Nat]
Call     == [op : {"claim", "revalidate"}, grant : GrantId, executor : Executors]
              \cup [op : {"record"}, grant : GrantId, executor : Executors,
                    status : Statuses, evidence : Evidence]

Earlier(x, y) == IF x <= y THEN x ELSE y

Epoch        == Len(activations)
ActivePolicy == activations[Len(activations)]

\* Mutation: any activation counts, not only the last.
ActiveOnceActivated(p) ==
  /\ \E i \in DOMAIN activations : activations[i] = p
  /\ EffectiveAt[p] <= now /\ now < ExpiresAt[p]

\* activePolicyLocked: the last activation, and only while it is valid.
Active(p) ==
  /\ activations # <<>> /\ p = ActivePolicy
  /\ EffectiveAt[p] <= now /\ now < ExpiresAt[p]

ProposalEffect(d) == EffectOf(RulesOf[d.policy], d.proposal)
RequiredRoles(a)  == RolesOf(RulesOf[a.decision.policy], a.decision.proposal)
ApprovalTtl(d)    == ShortestTtl(RulesOf[d.policy], d.proposal)

\* The approval a grant names still stands: approved and not expired.
ApprovalStands(a) ==
  a = None \/ \E r \in rulings : r.id = a /\ r.verdict = "approved" /\ now < r.expires

Closed(g)   == \E a \in actions : a.grant = g /\ a.status \in Terminal
ActionsOf(g) == {a \in actions : a.grant = g}

Init ==
  /\ now = 0
  /\ installed = {} /\ activations = <<>> /\ lastInstall = None
  /\ decisions = {} /\ requests = {} /\ rulings = {}
  /\ grants = {} /\ claims = {} /\ actions = {} /\ cleared = {}
  /\ pending = {}

Tick ==
  /\ now < MaxTime
  /\ now' = now + 1
  /\ UNCHANGED <<store, pending>>

-----------------------------------------------------------------------------
(* Administration *)

\* Mutation: activation does not look for the policy among the earlier ones.
ActivateAgain(p) == Append(activations, p)

\* Mutation: the activation names the version instead of the document.
ActivateVersion(p) == Append(activations, VersionOf[p])

\* A policy whose digest was ever activated is not activated again.
Activate(p) ==
  IF \E i \in DOMAIN activations : activations[i] = p
  THEN activations ELSE Append(activations, p)

\* installPolicy.  The document is written first, in every case.
InstallPolicy(p) ==
  /\ \A q \in installed : VersionOf[q] = VersionOf[p] => q = p
  /\ installed' = installed \cup {p}
  /\ activations' = Activate(p)
  /\ lastInstall' = p
  /\ UNCHANGED <<now, agency, effect, pending>>

\* A crash between writing the document and activating it.
InstallInterrupted(p) ==
  /\ \A q \in installed : VersionOf[q] = VersionOf[p] => q = p
  /\ installed' = installed \cup {p}
  /\ UNCHANGED <<now, activations, lastInstall, agency, effect, pending>>

\* Mutation: one of the required roles is enough.
HoldsARequiredRole(admin, a) == RequiredRoles(a) \cap AdminRoles[admin] # {}

HoldsRequiredRoles(admin, a) == RequiredRoles(a) \subseteq AdminRoles[admin]

\* decideApproval: one immutable ruling per request, by an administrator who
\* holds every required role, before the request expires.
DecideApproval(admin, a, verdict, reason) ==
  /\ HoldsRequiredRoles(admin, a)
  /\ \A r \in rulings : r.id # a
  /\ \E q \in requests :
       /\ q.id = a /\ now < q.expires
       /\ rulings' = rulings \cup
            {[id |-> a, verdict |-> verdict, approver |-> admin, reason |-> reason,
              expires |-> q.expires]}
  /\ UNCHANGED <<now, policy, decisions, requests, grants, effect, pending>>

-----------------------------------------------------------------------------
(* The governed agent.  A repeated call whose record exists returns it and   *)
(* changes nothing, so it has no step of its own.                            *)

CheckPolicy(agent, proposal) ==
  /\ proposal \in AgentScope[agent]
  /\ \E p \in Policies :
       /\ Active(p)
       /\ LET id == [agent |-> agent, proposal |-> proposal, policy |-> p]
          IN  /\ \A d \in decisions : d.id # id
              /\ decisions' = decisions \cup {[id |-> id, epoch |-> Epoch]}
  /\ UNCHANGED <<now, policy, requests, rulings, grants, effect, pending>>

RequestApproval(d, justification) ==
  LET id == [decision |-> d, justification |-> justification]
  IN  /\ \E x \in decisions : x.id = d
      /\ d.proposal \in AgentScope[d.agent]
      /\ ProposalEffect(d) = "require_approval"
      /\ Active(d.policy)
      /\ \A q \in requests : q.id # id
      /\ \E ttl \in ApprovalTtl(d) :
           LET expires == Earlier(now + ttl, ExpiresAt[d.policy])
           IN  /\ now < expires
               /\ requests' = requests \cup {[id |-> id, expires |-> expires, epoch |-> Epoch]}
      /\ UNCHANGED <<now, policy, decisions, rulings, grants, effect, pending>>

\* Mutation: a rejection counts as the decision on the request.
DecidedRulings(d, a) ==
  {r \in rulings : r.id = a /\ now < r.expires /\ \E q \in requests : q.id = a /\ r.id.decision = d}

\* The approvals that count for a decision: asked for about it, given, not expired.
StandingRulings(d, a) ==
  {r \in rulings : /\ r.id = a /\ r.verdict = "approved" /\ now < r.expires
                  /\ \E q \in requests : q.id = a /\ r.id.decision = d}

\* The ends of the authority a grant may rest on: the policy's for a decision
\* that allows; for one that requires approval, the earlier of the policy's
\* and the approval's.
AuthorityEnds(d, a) ==
  CASE ProposalEffect(d) = "allow" -> {e \in {ExpiresAt[d.policy]} : a = None}
    [] ProposalEffect(d) = "require_approval" ->
         {Earlier(r.expires, ExpiresAt[d.policy]) : r \in StandingRulings(d, a)}
    [] OTHER -> {}

\* authorizeAction issues a grant for a decision and the approval it offers.
AuthorizeAction(d, a) ==
  LET id == [decision |-> d, approval |-> a]
  IN  /\ \E x \in decisions : x.id = d
      /\ d.proposal \in AgentScope[d.agent]
      /\ Active(d.policy)
      /\ \A g \in grants : g.id # id
      /\ \E end \in AuthorityEnds(d, a) :
           LET expires == Earlier(now + GrantTtl, end)
           IN  /\ now < expires
               /\ grants' = grants \cup
                    {[id |-> id, issued |-> now, expires |-> expires, epoch |-> Epoch]}
      /\ UNCHANGED <<now, policy, decisions, requests, rulings, effect, pending>>

-----------------------------------------------------------------------------
(* The governed executor *)

\* A call arrives: verifyGrant and the scope check, before the lock.  The
\* grant must be current except to record a terminal outcome.
Arrive(call) ==
  /\ Cardinality(pending) < MaxPending
  /\ call.grant.decision.proposal \in ExecutorScope[call.executor]
  /\ \E g \in grants :
       /\ g.id = call.grant
       /\ \/ now < g.expires
          \/ call.op = "record" /\ call.status # "executing"
  /\ pending' = pending \cup {call}
  /\ UNCHANGED <<now, store>>

\* The call leaves without changing the store: the lock was busy
\* (STORE_BUSY), the body refused it, or its process died.
Leave(call) ==
  /\ pending' = pending \ {call}
  /\ UNCHANGED <<now, store>>

\* Mutation: an executor only looks for a claim of its own.
UnclaimedByCaller(call) ==
  \A c \in claims : ~(c.grant = call.grant /\ c.executor = call.executor)

Unclaimed(call) == \A c \in claims : c.grant # call.grant

\* validateExecutionGrant, the body: the durable single-use claim.
ClaimGrant(call) ==
  LET g == call.grant
  IN  /\ call.op = "claim"
      /\ Active(g.decision.policy)
      /\ ApprovalStands(g.approval)
      /\ ~Closed(g)
      /\ Unclaimed(call)
      /\ claims' = claims \cup
           {[grant |-> g, executor |-> call.executor, at |-> now, epoch |-> Epoch]}
      /\ pending' = pending \ {call}
      /\ UNCHANGED <<now, policy, agency, actions, cleared>>

\* revalidateExecutionClaim, the body: it changes nothing in the store; the
\* ghost keeps the answer that lets the executor touch the provider.
RevalidateClaim(call) ==
  LET g == call.grant
  IN  /\ call.op = "revalidate"
      /\ \E c \in claims : c.grant = g /\ c.executor = call.executor
      /\ ~Closed(g)
      /\ Active(g.decision.policy)
      /\ ApprovalStands(g.approval)
      /\ cleared' = cleared \cup {[grant |-> g, executor |-> call.executor, epoch |-> Epoch]}
      /\ pending' = pending \ {call}
      /\ UNCHANGED <<now, policy, agency, claims, actions>>

\* Mutation: a terminal record is final only against its own repetition.
RecordableOnce(g, status) ==
  /\ \A a \in ActionsOf(g) : a.status # status
  /\ ActionsOf(g) = {} \/ status # "executing"

\* Which outcome may be recorded next: "executing" only as the first record,
\* one terminal record, and the same outcome once.
Recordable(g, status) ==
  /\ \A a \in ActionsOf(g) : a.status # status
  /\ ~Closed(g)
  /\ ActionsOf(g) = {} \/ status # "executing"

\* recordAction, the body: an outcome observed by the executor that claimed
\* the grant.
RecordAction(call) ==
  LET g == call.grant
  IN  /\ call.op = "record"
      /\ \E c \in claims : c.grant = g /\ c.executor = call.executor
      /\ Recordable(g, call.status)
      /\ actions' = actions \cup
           {[grant |-> g, seq |-> Cardinality(ActionsOf(g)) + 1, status |-> call.status,
             evidence |-> call.evidence, executor |-> call.executor]}
      /\ pending' = pending \ {call}
      /\ UNCHANGED <<now, policy, agency, claims, cleared>>

-----------------------------------------------------------------------------
Next ==
  \/ Tick
  \/ \E p \in Policies : InstallPolicy(p) \/ InstallInterrupted(p)
  \/ \E agent \in Agents, proposal \in Proposals : CheckPolicy(agent, proposal)
  \/ \E d \in DecisionId, j \in Justifications : RequestApproval(d, j)
  \/ \E admin \in Admins, a \in ApprovalId, v \in {"approved", "rejected"}, r \in Reasons :
       DecideApproval(admin, a, v, r)
  \/ \E d \in DecisionId, a \in ApprovalId \cup {None} : AuthorizeAction(d, a)
  \/ \E call \in Call : Arrive(call)
  \/ \E call \in pending :
       Leave(call) \/ ClaimGrant(call) \/ RevalidateClaim(call) \/ RecordAction(call)

Spec == Init /\ [][Next]_vars
-----------------------------------------------------------------------------
(* Properties *)

\* Every record has its shape, and the clock its bound.
TypeOK ==
  /\ now \in 0..MaxTime
  /\ installed \subseteq Policies /\ activations \in Seq(Policies)
  /\ lastInstall \in Policies \cup {None}
  /\ decisions \subseteq Decision /\ requests \subseteq Request /\ rulings \subseteq Ruling
  /\ grants \subseteq Grant /\ claims \subseteq Claim /\ actions \subseteq Action
  /\ cleared \subseteq Clearance /\ pending \subseteq Call
  /\ IsFiniteSet(actions)

\* The approval a grant rests on: asked for and given for this very decision,
\* by someone holding every role the policy named, and outliving the grant.
Approved(g) ==
  \E q \in requests, r \in rulings :
    /\ q.id = g.id.approval /\ r.id = q.id /\ q.id.decision = g.id.decision
    /\ r.verdict = "approved" /\ q.epoch = g.epoch
    /\ RequiredRoles(q.id) \subseteq AdminRoles[r.approver]
    /\ g.expires <= r.expires

\* What a grant rests on: a recorded decision that did not deny, the approval
\* it needs, and an end no later than the policy's, the approval's and GrantTtl.
Backed(g) ==
  LET d == g.id.decision
  IN  /\ \E x \in decisions : x.id = d /\ x.epoch = g.epoch
      /\ ProposalEffect(d) # "deny"
      /\ IF ProposalEffect(d) = "require_approval" THEN Approved(g) ELSE g.id.approval = None
      /\ g.issued < g.expires
      /\ g.expires <= g.issued + GrantTtl /\ g.expires <= ExpiresAt[d.policy]

\* No grant exceeds its authority: authorizeAction issues none without the
\* decision and the approval (requestApproval, decideApproval) behind it.
GrantsAreBacked == \A g \in grants : Backed(g)

\* "Policy replacement invalidates earlier decisions and approvals": from the
\* decision to the answer that clears the provider call, a grant's whole chain
\* lies within one activation of its policy; reinstalling a replaced policy
\* does not revive what was decided under it.
OnePolicyEpoch ==
  /\ \A c \in claims \cup cleared : \E g \in grants :
       g.id = c.grant /\ g.epoch = c.epoch
  /\ \A g \in grants : g.epoch \in 1..Epoch /\ activations[g.epoch] = g.id.decision.policy
  /\ \A i, j \in 1..Epoch : activations[i] = activations[j] => i = j

\* The claim is single-use: at most one per grant, whoever asks
\* (validateExecutionGrant), and only its holder is ever cleared.
SingleUseClaim ==
  /\ \A c, d \in claims : c.grant = d.grant => c = d
  /\ \A x \in cleared : \E c \in claims : c.grant = x.grant /\ c.executor = x.executor

\* recordAction: a grant's records are numbered without gap, all by the claim
\* holder, "executing" only as the first, and nothing after a terminal one.
OutcomeIsFinal ==
  \A a \in actions :
    /\ \E c \in claims : c.grant = a.grant /\ c.executor = a.executor
    /\ a.seq \in 1..Cardinality(ActionsOf(a.grant))
    /\ a.status = "executing" => a.seq = 1
    /\ \A b \in ActionsOf(a.grant) :
         /\ b.seq = a.seq => a = b
         /\ a.status \in Terminal => b.seq <= a.seq

\* Why GrantsAreBacked and OnePolicyEpoch hold, as one inductive invariant:
\* every record's epoch is the activation of its own policy, and the records
\* a record rests on are never removed.
Dated(e, p) == e \in 1..Epoch /\ activations[e] = p

Chained ==
  /\ \A d \in decisions : Dated(d.epoch, d.id.policy)
  /\ \A q \in requests : Dated(q.epoch, q.id.decision.policy)
  /\ \A r \in rulings : RequiredRoles(r.id) \subseteq AdminRoles[r.approver]
  /\ \A call \in pending : \E g \in grants : g.id = call.grant

IInv == TypeOK /\ Chained /\ GrantsAreBacked /\ OnePolicyEpoch /\ SingleUseClaim

-----------------------------------------------------------------------------
(* What the package's documents say, and the code does not keep *)

\* TOOL.md: the executor revalidates grant expiry and "then atomically
\* persists" the claim, so a persisted claim precedes its grant's expiry.
ClaimedWhileCurrent ==
  \A c \in claims, g \in grants : g.id = c.grant => c.at < g.expires

\* An install_policy that returned success left that policy the active one.
InstalledPolicyIsActive ==
  lastInstall # None => activations # <<>> /\ ActivePolicy = lastInstall

-----------------------------------------------------------------------------
(* Every grant behaves as GrantAuthority promises. *)

Stage(id) ==
  IF \A g \in grants : g.id # id THEN "unissued"
  ELSE IF Active(id.decision.policy) /\ ApprovalStands(id.approval) THEN "live" ELSE "ended"

Owner(id) ==
  IF \A c \in claims : c.grant # id THEN None
  ELSE (CHOOSE c \in claims : c.grant = id).executor

Opened(id) == \E a \in ActionsOf(id) : a.status = "executing"

Outcome(id) ==
  IF ~Closed(id) THEN None
  ELSE LET a == CHOOSE x \in ActionsOf(id) : x.status \in Terminal
       IN  [status |-> a.status, evidence |-> a.evidence]

View(id) == INSTANCE GrantAuthority WITH
              stage <- Stage(id), owner <- Owner(id),
              opened <- Opened(id), outcome <- Outcome(id)

\* Seen through one grant identifier, the control plane is GrantAuthority.
ImplementsGrantAuthority ==
  /\ \A id \in GrantId : View(id)!Init
  /\ [][\A id \in GrantId : View(id)!Next \/ UNCHANGED View(id)!authority]_vars
=============================================================================
