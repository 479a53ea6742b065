------------------------- MODULE ControlPlaneProofs -------------------------
(* Theorems of module ControlPlane, for every set of policies, identities,  *)
(* proposals and bounds.                                                    *)
EXTENDS ControlPlane, FiniteSetTheorems, TLAPS

\* An approval TTL of an installed policy is a natural number.
LEMMA TtlType ==
  ASSUME NEW d \in DecisionId, NEW t \in ApprovalTtl(d)
  PROVE  t \in Nat
<1>1. RulesOf[d.policy] \subseteq Rule
  BY PolicyAssumption DEF DecisionId, ValidRuleSets
<1>2. PICK r \in Matching(RulesOf[d.policy], d.proposal) : t = r.ttl
  BY DEF ApprovalTtl, ShortestTtl, WithEffect
<1>3. QED
  BY <1>1, <1>2 DEF Matching, Rule

\* The end of an authority is an instant, and no later than its policy's.
LEMMA AuthorityEndType ==
  ASSUME rulings \subseteq Ruling, NEW d \in DecisionId, NEW a, NEW e \in AuthorityEnds(d, a)
  PROVE  e \in Nat /\ e <= ExpiresAt[d.policy]
<1>1. ExpiresAt[d.policy] \in Nat
  BY PolicyAssumption DEF DecisionId
<1>2. CASE ProposalEffect(d) = "allow"
  BY <1>1, <1>2 DEF AuthorityEnds
<1>3. CASE ProposalEffect(d) = "require_approval"
  <2>1. PICK r \in rulings : e = Earlier(r.expires, ExpiresAt[d.policy])
    BY <1>3 DEF AuthorityEnds, StandingRulings
  <2>2. QED
    BY <1>1, <2>1 DEF Earlier, Ruling
<1>4. CASE ProposalEffect(d) \notin {"allow", "require_approval"}
  BY <1>4 DEF AuthorityEnds
<1>5. QED
  BY <1>2, <1>3, <1>4

LEMMA TypeInit == Init => TypeOK
BY BoundAssumption, FS_EmptySet DEF Init, TypeOK

LEMMA TypeStep == TypeOK /\ [Next]_vars => TypeOK'
<1> SUFFICES ASSUME TypeOK, [Next]_vars
             PROVE  TypeOK'
  OBVIOUS
<1> USE DEF TypeOK
<1>1. CASE Tick
  BY <1>1, BoundAssumption DEF Tick, store, policy, agency, effect
<1>2. ASSUME NEW p \in Policies, InstallPolicy(p)
      PROVE  TypeOK'
  BY <1>2 DEF InstallPolicy, Activate, agency, effect
<1>3. ASSUME NEW p \in Policies, InstallInterrupted(p)
      PROVE  TypeOK'
  BY <1>3 DEF InstallInterrupted, agency, effect
<1>4. ASSUME NEW agent \in Agents, NEW proposal \in Proposals, CheckPolicy(agent, proposal)
      PROVE  TypeOK'
  <2>1. PICK p \in Policies :
          decisions' = decisions \cup
            {[id |-> [agent |-> agent, proposal |-> proposal, policy |-> p], epoch |-> Epoch]}
    BY <1>4 DEF CheckPolicy
  <2>2. Epoch \in Nat
    BY DEF Epoch
  <2>3. decisions' \subseteq Decision
    BY <2>1, <2>2 DEF Decision, DecisionId
  <2>4. QED
    BY <1>4, <2>3 DEF CheckPolicy, policy, effect
<1>5. ASSUME NEW d \in DecisionId, NEW j \in Justifications, RequestApproval(d, j)
      PROVE  TypeOK'
  <2>1. PICK ttl \in ApprovalTtl(d) :
          requests' = requests \cup
            {[id |-> [decision |-> d, justification |-> j],
              expires |-> Earlier(now + ttl, ExpiresAt[d.policy]), epoch |-> Epoch]}
    BY <1>5 DEF RequestApproval
  <2>2. Earlier(now + ttl, ExpiresAt[d.policy]) \in Nat
    BY TtlType, PolicyAssumption, BoundAssumption DEF Earlier, DecisionId
  <2>3. requests' \subseteq Request
    BY <2>1, <2>2 DEF Request, ApprovalId, Epoch
  <2>4. QED
    BY <1>5, <2>3 DEF RequestApproval, policy, effect
<1>6. ASSUME NEW admin \in Admins, NEW a \in ApprovalId, NEW v \in {"approved", "rejected"},
             NEW r \in Reasons, DecideApproval(admin, a, v, r)
      PROVE  TypeOK'
  <2>1. PICK q \in requests :
          rulings' = rulings \cup {[id |-> a, verdict |-> v, approver |-> admin, reason |-> r,
                                    expires |-> q.expires]}
    BY <1>6 DEF DecideApproval
  <2>2. rulings' \subseteq Ruling
    BY <2>1 DEF Ruling, Request
  <2>3. QED
    BY <1>6, <2>2 DEF DecideApproval, policy, effect
<1>7. ASSUME NEW d \in DecisionId, NEW a \in ApprovalId \cup {None}, AuthorizeAction(d, a)
      PROVE  TypeOK'
  <2>1. PICK end \in AuthorityEnds(d, a) :
          grants' = grants \cup {[id |-> [decision |-> d, approval |-> a], issued |-> now,
                                  expires |-> Earlier(now + GrantTtl, end), epoch |-> Epoch]}
    BY <1>7 DEF AuthorizeAction
  <2>2. Earlier(now + GrantTtl, end) \in Nat
    BY AuthorityEndType, BoundAssumption DEF Earlier
  <2>3. grants' \subseteq Grant
    BY <2>1, <2>2, BoundAssumption DEF Grant, GrantId, Epoch
  <2>4. QED
    BY <1>7, <2>3 DEF AuthorizeAction, policy, effect
<1>8. ASSUME NEW call \in Call, Arrive(call)
      PROVE  TypeOK'
  BY <1>8 DEF Arrive, store, policy, agency, effect
<1>9. ASSUME NEW call \in pending, Leave(call)
      PROVE  TypeOK'
  BY <1>9 DEF Leave, store, policy, agency, effect
<1>10. ASSUME NEW call \in pending, ClaimGrant(call)
       PROVE  TypeOK'
  <2>1. call.grant \in GrantId /\ call.executor \in Executors
    BY DEF Call
  <2>2. claims' \subseteq Claim
    BY <1>10, <2>1, BoundAssumption DEF ClaimGrant, Claim, Epoch
  <2>3. QED
    BY <1>10, <2>2 DEF ClaimGrant, policy, agency
<1>11. ASSUME NEW call \in pending, RevalidateClaim(call)
       PROVE  TypeOK'
  <2>1. call.grant \in GrantId /\ call.executor \in Executors
    BY DEF Call
  <2>2. cleared' \subseteq Clearance
    BY <1>11, <2>1 DEF RevalidateClaim, Clearance, Epoch
  <2>3. QED
    BY <1>11, <2>2 DEF RevalidateClaim, policy, agency
<1>12. ASSUME NEW call \in pending, RecordAction(call)
       PROVE  TypeOK'
  <2>1. /\ call.grant \in GrantId /\ call.executor \in Executors
        /\ call.status \in Statuses /\ call.evidence \in Evidence
    BY <1>12 DEF RecordAction, Call
  <2>2. Cardinality(ActionsOf(call.grant)) \in Nat
    BY FS_Subset, FS_CardinalityType DEF ActionsOf
  <2>3. actions' \subseteq Action
    BY <1>12, <2>1, <2>2 DEF RecordAction, Action
  <2>4. IsFiniteSet(actions')
    BY <1>12, FS_AddElement DEF RecordAction
  <2>5. QED
    BY <1>12, <2>3, <2>4 DEF RecordAction, policy, agency
<1>13. CASE UNCHANGED vars
  BY <1>13 DEF vars, store, policy, agency, effect
<1>14. QED
  BY <1>1, <1>2, <1>3, <1>4, <1>5, <1>6, <1>7, <1>8, <1>9, <1>10, <1>11, <1>12, <1>13 DEF Next

\* Every record the control plane stores keeps its shape, whatever the calls.
THEOREM Typing == Spec => []TypeOK
BY TypeInit, TypeStep, PTL DEF Spec

-----------------------------------------------------------------------------
(* The single-use claim *)

\* Only ClaimGrant and RevalidateClaim touch the records of the effect boundary.
LEMMA EffectBoundarySteps ==
  ASSUME Next
  PROVE  \/ UNCHANGED <<claims, cleared>>
         \/ \E call \in pending : ClaimGrant(call) \/ RevalidateClaim(call)
BY DEF Next, Tick, InstallPolicy, InstallInterrupted, CheckPolicy, RequestApproval, DecideApproval,
       AuthorizeAction, Arrive, Leave, RecordAction, store, effect

LEMMA SingleUseStep == SingleUseClaim /\ [Next]_vars => SingleUseClaim'
<1> SUFFICES ASSUME SingleUseClaim, [Next]_vars
             PROVE  SingleUseClaim'
  OBVIOUS
<1>1. ASSUME NEW call \in pending, ClaimGrant(call)
      PROVE  SingleUseClaim'
  BY <1>1 DEF ClaimGrant, Unclaimed, SingleUseClaim
<1>2. ASSUME NEW call \in pending, RevalidateClaim(call)
      PROVE  SingleUseClaim'
  BY <1>2 DEF RevalidateClaim, SingleUseClaim
<1>3. CASE UNCHANGED <<claims, cleared>>
  BY <1>3 DEF SingleUseClaim
<1>4. QED
  BY <1>1, <1>2, <1>3, EffectBoundarySteps DEF vars, store, effect

\* At most one claim per grant, and nobody but its holder is cleared for the
\* provider call, whatever calls race (validateExecutionGrant).
THEOREM ClaimIsSingleUse == Spec => []SingleUseClaim
<1>1. Init => SingleUseClaim
  BY DEF Init, SingleUseClaim
<1>2. QED
  BY <1>1, SingleUseStep, PTL DEF Spec

-----------------------------------------------------------------------------
(* The chain of authority.  An activation keeps its place and is never       *)
(* repeated, so the epoch a record was dated with identifies its policy, and *)
(* two records of one policy have one epoch.                                 *)

DistinctActivations ==
  \A i, j \in 1..Epoch : activations[i] = activations[j] => i = j

\* An activation keeps its place in the audit log.
LEMMA DatedPersists ==
  ASSUME TypeOK, [Next]_vars, NEW e, NEW p, Dated(e, p)
  PROVE  Dated(e, p)'
<1>1. CASE UNCHANGED activations
  BY <1>1 DEF Dated, Epoch
<1>2. ASSUME NEW q \in Policies, activations' = Append(activations, q)
      PROVE  Dated(e, p)'
  <2>1. Len(activations') = Len(activations) + 1 /\ activations'[e] = activations[e]
    BY <1>2 DEF TypeOK, Dated, Epoch
  <2>2. QED
    BY <2>1 DEF Dated, Epoch, TypeOK
<1>3. QED
  BY <1>1, <1>2 DEF Next, Tick, InstallPolicy, InstallInterrupted, CheckPolicy, RequestApproval,
     DecideApproval, AuthorizeAction, Arrive, Leave, ClaimGrant, RevalidateClaim, RecordAction,
     Activate, vars, store, policy

\* installPolicy activates no document twice.
LEMMA ActivationsStayDistinct ==
  ASSUME TypeOK, DistinctActivations, [Next]_vars
  PROVE  DistinctActivations'
<1>1. CASE UNCHANGED activations
  BY <1>1 DEF DistinctActivations, Epoch
<1>2. ASSUME NEW q \in Policies, activations' = Append(activations, q),
             \A i \in DOMAIN activations : activations[i] # q
      PROVE  DistinctActivations'
  <2>1. /\ Len(activations') = Len(activations) + 1 /\ Len(activations) \in Nat
        /\ \A i \in 1..Len(activations) : activations'[i] = activations[i]
        /\ activations'[Len(activations) + 1] = q
    BY <1>2 DEF TypeOK
  <2>2. \A i \in 1..Len(activations) : activations[i] # q
    BY <1>2 DEF TypeOK
  <2>3. QED
    BY <2>1, <2>2 DEF DistinctActivations, Epoch
<1>3. QED
  BY <1>1, <1>2 DEF Next, Tick, InstallPolicy, InstallInterrupted, CheckPolicy, RequestApproval,
     DecideApproval, AuthorizeAction, Arrive, Leave, ClaimGrant, RevalidateClaim, RecordAction,
     Activate, vars, store, policy

\* A policy that is active now was last activated in the current epoch, and
\* in no other.
LEMMA ActiveEpoch ==
  ASSUME TypeOK, NEW p \in Policies, Active(p)
  PROVE  /\ Dated(Epoch, p)
         /\ DistinctActivations => \A e : Dated(e, p) => e = Epoch
BY DEF TypeOK, Active, ActivePolicy, Dated, Epoch, DistinctActivations

\* Records are added, never removed.
LEMMA RecordsPersist ==
  ASSUME [Next]_vars
  PROVE  /\ decisions \subseteq decisions' /\ requests \subseteq requests'
         /\ rulings \subseteq rulings' /\ grants \subseteq grants'
BY DEF Next, Tick, InstallPolicy, InstallInterrupted, CheckPolicy, RequestApproval,
     DecideApproval, AuthorizeAction, Arrive, Leave, ClaimGrant, RevalidateClaim, RecordAction,
     vars, store, policy, agency

\* What a step adds to the records of the chain, and under which conditions.
LEMMA NewDecision ==
  ASSUME [Next]_vars, NEW d \in decisions', d \notin decisions
  PROVE  d.id.policy \in Policies /\ Active(d.id.policy) /\ d.epoch = Epoch
<1>1. PICK agent \in Agents, proposal \in Proposals : CheckPolicy(agent, proposal)
  BY DEF Next, Tick, InstallPolicy, InstallInterrupted, RequestApproval, DecideApproval,
     AuthorizeAction, Arrive, Leave, ClaimGrant, RevalidateClaim, RecordAction,
     vars, store, policy, agency
<1>2. QED
  BY <1>1 DEF CheckPolicy

LEMMA NewRequest ==
  ASSUME [Next]_vars, NEW q \in requests', q \notin requests
  PROVE  /\ q.id.decision.policy \in Policies /\ Active(q.id.decision.policy)
         /\ q.epoch = Epoch
<1>1. PICK d \in DecisionId, j \in Justifications : RequestApproval(d, j)
  BY DEF Next, Tick, InstallPolicy, InstallInterrupted, CheckPolicy, DecideApproval,
     AuthorizeAction, Arrive, Leave, ClaimGrant, RevalidateClaim, RecordAction,
     vars, store, policy, agency
<1>2. QED
  BY <1>1 DEF RequestApproval, DecisionId

LEMMA NewRuling ==
  ASSUME [Next]_vars, NEW r \in rulings', r \notin rulings
  PROVE  RequiredRoles(r.id) \subseteq AdminRoles[r.approver]
<1>1. PICK admin \in Admins, a \in ApprovalId, v \in {"approved", "rejected"}, w \in Reasons :
        DecideApproval(admin, a, v, w)
  BY DEF Next, Tick, InstallPolicy, InstallInterrupted, CheckPolicy, RequestApproval,
     AuthorizeAction, Arrive, Leave, ClaimGrant, RevalidateClaim, RecordAction,
     vars, store, policy, agency
<1>2. QED
  BY <1>1 DEF DecideApproval, HoldsRequiredRoles

LEMMA NewCall ==
  ASSUME [Next]_vars, NEW call \in pending', call \notin pending
  PROVE  \E g \in grants : g.id = call.grant
<1>1. PICK c \in Call : Arrive(c)
  BY DEF Next, Tick, InstallPolicy, InstallInterrupted, CheckPolicy, RequestApproval,
     DecideApproval, AuthorizeAction, Leave, ClaimGrant, RevalidateClaim, RecordAction, vars
<1>2. QED
  BY <1>1 DEF Arrive

LEMMA NewClaim ==
  ASSUME [Next]_vars, NEW c \in claims' \cup cleared', c \notin claims \cup cleared
  PROVE  /\ Active(c.grant.decision.policy) /\ c.epoch = Epoch
         /\ \E call \in pending : c.grant = call.grant
<1>1. PICK call \in pending : ClaimGrant(call) \/ RevalidateClaim(call)
  BY EffectBoundarySteps DEF vars, store, effect
<1>2. QED
  BY <1>1 DEF ClaimGrant, RevalidateClaim

\* authorizeAction issues a grant that is backed, in the epoch of its chain.
LEMMA NewGrant ==
  ASSUME TypeOK, Chained, DistinctActivations, [Next]_vars,
         NEW g \in grants', g \notin grants
  PROVE  /\ g.id.decision.policy \in Policies /\ Active(g.id.decision.policy)
         /\ g.epoch = Epoch
         /\ Backed(g)
<1>1. PICK d \in DecisionId, a \in ApprovalId \cup {None} : AuthorizeAction(d, a)
  BY DEF Next, Tick, InstallPolicy, InstallInterrupted, CheckPolicy, RequestApproval,
     DecideApproval, Arrive, Leave, ClaimGrant, RevalidateClaim, RecordAction,
     vars, store, policy, agency
<1>2. PICK end \in AuthorityEnds(d, a) :
        /\ now < Earlier(now + GrantTtl, end)
        /\ g = [id |-> [decision |-> d, approval |-> a], issued |-> now,
                expires |-> Earlier(now + GrantTtl, end), epoch |-> Epoch]
  BY <1>1 DEF AuthorizeAction
<1>3. /\ d.policy \in Policies /\ Active(d.policy)
      /\ \E x \in decisions : x.id = d /\ x.epoch = Epoch
  <2>1. PICK x \in decisions : x.id = d
    BY <1>1 DEF AuthorizeAction
  <2>2. d.policy \in Policies /\ Active(d.policy)
    BY <1>1 DEF AuthorizeAction, DecisionId
  <2>3. x.epoch = Epoch
    BY <2>1, <2>2, ActiveEpoch DEF Chained
  <2>4. QED
    BY <2>1, <2>2, <2>3
<1>4. end \in Nat /\ end <= ExpiresAt[d.policy]
  BY AuthorityEndType DEF TypeOK
<1>5. /\ g.issued < g.expires /\ g.expires <= g.issued + GrantTtl
      /\ g.expires <= end /\ g.expires <= ExpiresAt[d.policy]
  BY <1>2, <1>3, <1>4, BoundAssumption, PolicyAssumption DEF TypeOK, Earlier
<1>6. CASE ProposalEffect(d) = "allow"
  <2>1. a = None
    BY <1>2, <1>6 DEF AuthorityEnds
  <2>2. QED
    BY <1>2, <1>3, <1>5, <1>6, <2>1 DEF Backed
<1>7. CASE ProposalEffect(d) = "require_approval"
  <2>1. PICK r \in rulings, q \in requests :
          /\ r.id = a /\ r.verdict = "approved" /\ q.id = r.id /\ r.id.decision = d
          /\ end = Earlier(r.expires, ExpiresAt[d.policy])
    BY <1>7 DEF AuthorityEnds, StandingRulings
  <2>2. q.epoch = Epoch
    BY <1>3, <2>1, ActiveEpoch DEF Chained
  <2>3. end <= r.expires
    BY <1>3, <2>1, PolicyAssumption DEF TypeOK, Ruling, Earlier
  <2>4. g.expires <= r.expires
    BY <1>2, <1>4, <1>5, <2>3, BoundAssumption DEF TypeOK, Ruling, Earlier
  <2>5. Approved(g)
    BY <1>2, <2>1, <2>2, <2>4 DEF Approved, Chained
  <2>6. QED
    BY <1>2, <1>3, <1>5, <1>7, <2>5 DEF Backed
<1>8. CASE ProposalEffect(d) \notin {"allow", "require_approval"}
  BY <1>2, <1>8 DEF AuthorityEnds
<1>9. QED
  BY <1>6, <1>7, <1>8

\* What backs a grant is never removed.
LEMMA BackedPersists ==
  ASSUME [Next]_vars, NEW g, Backed(g)
  PROVE  Backed(g)'
<1>1. Approved(g) => Approved(g)'
  BY RecordsPersist DEF Approved
<1>2. QED
  BY <1>1, RecordsPersist DEF Backed

LEMMA InvInit == Init => IInv
BY TypeInit DEF Init, IInv, Chained, GrantsAreBacked, OnePolicyEpoch, SingleUseClaim, Epoch

LEMMA InvStep == IInv /\ [Next]_vars => (Chained /\ GrantsAreBacked /\ OnePolicyEpoch)'
<1> SUFFICES ASSUME IInv, [Next]_vars
             PROVE  (Chained /\ GrantsAreBacked /\ OnePolicyEpoch)'
  OBVIOUS
<1>1. TypeOK /\ Chained /\ GrantsAreBacked /\ OnePolicyEpoch /\ DistinctActivations
  BY DEF IInv, OnePolicyEpoch, DistinctActivations
<1>2. Chained'
  <2>1. ASSUME NEW d \in decisions'
        PROVE  Dated(d.epoch, d.id.policy)'
    BY <1>1, <2>1, NewDecision, ActiveEpoch, DatedPersists DEF Chained
  <2>2. ASSUME NEW q \in requests'
        PROVE  Dated(q.epoch, q.id.decision.policy)'
    BY <1>1, <2>2, NewRequest, ActiveEpoch, DatedPersists DEF Chained
  <2>3. ASSUME NEW r \in rulings'
        PROVE  RequiredRoles(r.id) \subseteq AdminRoles[r.approver]
    BY <1>1, <2>3, NewRuling DEF Chained
  <2>4. ASSUME NEW call \in pending'
        PROVE  \E g \in grants' : g.id = call.grant
    BY <1>1, <2>4, NewCall, RecordsPersist DEF Chained
  <2>5. QED
    BY <2>1, <2>2, <2>3, <2>4 DEF Chained
<1>3. GrantsAreBacked'
  BY <1>1, NewGrant, BackedPersists DEF GrantsAreBacked
<1>4. OnePolicyEpoch'
  <2>1. ASSUME NEW c \in claims' \cup cleared'
        PROVE  \E g \in grants' : g.id = c.grant /\ g.epoch = c.epoch
    <3>1. CASE c \in claims \cup cleared
      BY <1>1, <3>1, RecordsPersist DEF OnePolicyEpoch
    <3>2. CASE c \notin claims \cup cleared
      <4>1. PICK g \in grants : g.id = c.grant
        BY <1>1, <3>2, NewClaim DEF Chained
      <4>2. Dated(g.epoch, g.id.decision.policy) /\ g.id.decision.policy \in Policies
        BY <1>1 DEF OnePolicyEpoch, Dated, TypeOK, Grant, GrantId, DecisionId
      <4>3. g.epoch = c.epoch
        BY <1>1, <3>2, <4>1, <4>2, NewClaim, ActiveEpoch
      <4>4. QED
        BY <4>1, <4>3, RecordsPersist
    <3>3. QED
      BY <3>1, <3>2
  <2>2. ASSUME NEW g \in grants'
        PROVE  Dated(g.epoch, g.id.decision.policy)'
    BY <1>1, <2>2, NewGrant, ActiveEpoch, DatedPersists DEF OnePolicyEpoch, Dated
  <2>3. DistinctActivations'
    BY <1>1, ActivationsStayDistinct
  <2>4. QED
    BY <2>1, <2>2, <2>3 DEF OnePolicyEpoch, Dated, DistinctActivations
<1>5. QED
  BY <1>2, <1>3, <1>4

\* The inductive invariant holds in every state.
THEOREM Invariance == Spec => []IInv
<1>1. SingleUseClaim /\ [Next]_vars => SingleUseClaim'
  BY SingleUseStep
<1>2. IInv /\ [Next]_vars => IInv'
  BY <1>1, TypeStep, InvStep DEF IInv
<1>3. QED
  BY <1>2, InvInit, PTL DEF Spec

\* No sequence of calls yields a grant without the decision, the approval and
\* the remaining life time it needs (authorizeAction).
THEOREM GrantsNeverExceedAuthority == Spec => []GrantsAreBacked
<1>1. IInv => GrantsAreBacked
  BY DEF IInv
<1>2. QED
  BY <1>1, Invariance, PTL

\* Replacing a policy ends, for good, what was decided under it: no grant is
\* claimed or cleared in another epoch than the one it was issued in.
THEOREM ReplacementInvalidates == Spec => []OnePolicyEpoch
<1>1. IInv => OnePolicyEpoch
  BY DEF IInv
<1>2. QED
  BY <1>1, Invariance, PTL
-----------------------------------------------------------------------------
(* The recorded outcome *)

\* Only ClaimGrant and RecordAction touch what outcomes are judged by.
LEMMA OutcomeSteps ==
  ASSUME Next
  PROVE  \/ UNCHANGED <<claims, actions>>
         \/ UNCHANGED actions /\ claims \subseteq claims'
         \/ UNCHANGED claims /\ \E call \in pending : RecordAction(call)
BY DEF Next, Tick, InstallPolicy, InstallInterrupted, CheckPolicy, RequestApproval, DecideApproval,
       AuthorizeAction, Arrive, Leave, ClaimGrant, RevalidateClaim, RecordAction, store, effect

LEMMA OutcomeStep == TypeOK /\ OutcomeIsFinal /\ [Next]_vars => OutcomeIsFinal'
<1> SUFFICES ASSUME TypeOK, OutcomeIsFinal, [Next]_vars
             PROVE  OutcomeIsFinal'
  OBVIOUS
<1>1. CASE UNCHANGED actions /\ claims \subseteq claims'
  BY <1>1 DEF OutcomeIsFinal, ActionsOf
<1>2. ASSUME NEW call \in pending, RecordAction(call), UNCHANGED claims
      PROVE  OutcomeIsFinal'
  <2> DEFINE g == call.grant
             n == Cardinality(ActionsOf(g))
             new == [grant |-> g, seq |-> n + 1, status |-> call.status,
                     evidence |-> call.evidence, executor |-> call.executor]
  <2>1. actions' = actions \cup {new} /\ Recordable(g, call.status)
    BY <1>2 DEF RecordAction
  <2>2. IsFiniteSet(ActionsOf(g)) /\ n \in Nat
    BY FS_Subset, FS_CardinalityType DEF TypeOK, ActionsOf
  <2>3. \A a \in ActionsOf(g) : a.seq \in 1..n
    BY DEF OutcomeIsFinal, ActionsOf
  <2>4. new \notin ActionsOf(g)
    BY <2>2, <2>3
  <2>5. ActionsOf(g)' = ActionsOf(g) \cup {new}
    BY <2>1 DEF ActionsOf
  <2>6. Cardinality(ActionsOf(g)') = n + 1
    BY <2>2, <2>4, <2>5, FS_AddElement
  <2>7. ActionsOf(g) = {} => n = 0
    BY FS_EmptySet
  <2>8. ASSUME NEW a \in actions'
        PROVE  /\ \E c \in claims' : c.grant = a.grant /\ c.executor = a.executor
               /\ a.seq \in 1..Cardinality(ActionsOf(a.grant)')
               /\ a.status = "executing" => a.seq = 1
               /\ \A b \in ActionsOf(a.grant)' :
                    /\ b.seq = a.seq => a = b
                    /\ a.status \in Terminal => b.seq <= a.seq
    <3>1. CASE a.grant # g
      <4>1. a \in actions /\ ActionsOf(a.grant)' = ActionsOf(a.grant)
        BY <2>1, <3>1 DEF ActionsOf
      <4>2. QED
        BY <1>2, <4>1 DEF OutcomeIsFinal
    <3>2. CASE a \in ActionsOf(g)
      <4>1. a.grant = g /\ a \in actions /\ a.seq \in 1..n /\ a.status \notin Terminal
        BY <2>1, <2>3, <3>2 DEF ActionsOf, Recordable, Closed
      <4>2. /\ \E c \in claims : c.grant = a.grant /\ c.executor = a.executor
            /\ a.status = "executing" => a.seq = 1
            /\ \A b \in ActionsOf(g) : b.seq = a.seq => a = b
        BY <4>1 DEF OutcomeIsFinal
      <4>3. \A b \in ActionsOf(g)' : b.seq = a.seq => a = b
        BY <2>2, <2>5, <4>1, <4>2
      <4>4. a.seq \in 1..(n + 1)
        BY <2>2, <4>1
      <4>5. QED
        BY <1>2, <2>6, <4>1, <4>2, <4>3, <4>4
    <3>3. CASE a = new
      <4>1. \E c \in claims : c.grant = g /\ c.executor = call.executor
        BY <1>2 DEF RecordAction
      <4>2. a.status = "executing" => a.seq = 1
        BY <2>1, <2>7, <3>3 DEF Recordable
      <4>3. \A b \in ActionsOf(g)' : b.seq <= n + 1 /\ (b.seq = n + 1 => b = new)
        BY <2>2, <2>3, <2>5
      <4>4. QED
        BY <1>2, <2>2, <2>6, <3>3, <4>1, <4>2, <4>3
    <3>4. QED
      BY <2>1, <3>1, <3>2, <3>3 DEF ActionsOf
  <2>9. QED
    BY <2>8 DEF OutcomeIsFinal
<1>3. QED
  BY <1>1, <1>2, OutcomeSteps DEF vars, store, effect

\* The records of an execution are numbered without gap, by the claim holder,
\* and nothing follows a terminal one, whatever calls race (recordAction).
THEOREM OutcomesAreFinal == Spec => []OutcomeIsFinal
<1>1. Init => OutcomeIsFinal
  BY DEF Init, OutcomeIsFinal
<1>2. QED
  BY <1>1, OutcomeStep, Typing, PTL DEF Spec

-----------------------------------------------------------------------------
(* ControlPlane implements GrantAuthority, for every grant identifier and    *)
(* every value of the constants: each step of the control plane changes one  *)
(* of stage, owner, opened and outcome, as an action of GrantAuthority, or   *)
(* none of them.                                                             *)

\* A grant's policy was in force when the grant was issued.
Begun == \A g \in grants : EffectiveAt[g.id.decision.policy] <= now

\* The clock does not go back.
LEMMA TimePasses ==
  ASSUME TypeOK, [Next]_vars
  PROVE  now \in Nat /\ now' \in Nat /\ now <= now'
<1>1. now' = now \/ now' = now + 1
  BY DEF Next, Tick, InstallPolicy, InstallInterrupted, CheckPolicy, RequestApproval,
     DecideApproval, AuthorizeAction, Arrive, Leave, ClaimGrant, RevalidateClaim, RecordAction, vars
<1>2. QED
  BY <1>1, BoundAssumption DEF TypeOK

LEMMA BegunStep == TypeOK /\ Begun /\ [Next]_vars => Begun'
<1> SUFFICES ASSUME TypeOK, Begun, [Next]_vars, NEW g \in grants'
             PROVE  EffectiveAt[g.id.decision.policy] <= now'
  BY DEF Begun
<1>1. now \in Nat /\ now' \in Nat /\ now <= now'
  BY TimePasses
<1>2. CASE g \in grants
  <2>1. EffectiveAt[g.id.decision.policy] \in Nat
    BY <1>2, PolicyAssumption DEF TypeOK, Grant, GrantId, DecisionId
  <2>2. QED
    BY <1>1, <1>2, <2>1 DEF Begun
<1>3. CASE g \notin grants
  <2>1. PICK d \in DecisionId, a \in ApprovalId \cup {None} : AuthorizeAction(d, a)
    BY <1>3 DEF Next, Tick, InstallPolicy, InstallInterrupted, CheckPolicy, RequestApproval,
       DecideApproval, Arrive, Leave, ClaimGrant, RevalidateClaim, RecordAction,
       vars, store, policy, agency
  <2>2. g.id.decision = d /\ Active(d.policy) /\ now' = now
    BY <1>3, <2>1 DEF AuthorizeAction
  <2>3. QED
    BY <2>2 DEF Active
<1>4. QED
  BY <1>2, <1>3

RInv == IInv /\ Begun

\* What the refinement rests on: the inductive invariant of ControlPlane, and
\* that no grant precedes its policy (activePolicyLocked in authorizeAction).
THEOREM RInvariance == Spec => []RInv
<1>1. Init => Begun
  BY DEF Init, Begun
<1>2. IInv => TypeOK
  BY DEF IInv
<1>3. QED
  BY <1>1, <1>2, BegunStep, Invariance, PTL DEF Spec, RInv

-----------------------------------------------------------------------------
(* Authority that ended does not come back. *)

Live(id) == Active(id.decision.policy) /\ ApprovalStands(id.approval)

LEMMA PolicyStaysEnded ==
  ASSUME RInv, [Next]_vars, DistinctActivations', TypeOK', NEW g \in grants,
         Active(g.id.decision.policy)'
  PROVE  Active(g.id.decision.policy)
<1> DEFINE p == g.id.decision.policy
<1>1. /\ TypeOK /\ Dated(g.epoch, p) /\ EffectiveAt[p] <= now
      /\ p \in Policies
  BY DEF RInv, IInv, OnePolicyEpoch, Dated, Begun, TypeOK, Grant, GrantId, DecisionId
<1>2. now \in Nat /\ now' \in Nat /\ now <= now' /\ ExpiresAt[p] \in Nat
  BY <1>1, TimePasses, PolicyAssumption
<1>3. now < ExpiresAt[p]
  BY <1>2 DEF Active
<1>4. CASE UNCHANGED activations
  BY <1>1, <1>3, <1>4 DEF Active, ActivePolicy
<1>5. ASSUME NEW q \in Policies, activations' = Append(activations, q)
      PROVE  FALSE
  <2>1. Len(activations') = Len(activations) + 1 /\ Len(activations) \in Nat
    BY <1>1, <1>5 DEF TypeOK
  <2>2. activations'[Len(activations')] = p
    BY DEF Active, ActivePolicy
  <2>3. activations'[g.epoch] = p /\ g.epoch \in 1..Len(activations)
    BY <1>1, DatedPersists DEF Dated, Epoch
  <2>4. QED
    BY <2>1, <2>2, <2>3 DEF DistinctActivations, Epoch
<1>6. QED
  BY <1>4, <1>5 DEF Next, Tick, InstallPolicy, InstallInterrupted, CheckPolicy, RequestApproval,
     DecideApproval, AuthorizeAction, Arrive, Leave, ClaimGrant, RevalidateClaim, RecordAction,
     Activate, vars, store, policy

LEMMA ApprovalStaysEnded ==
  ASSUME RInv, [Next]_vars, NEW g \in grants, ApprovalStands(g.id.approval)'
  PROVE  ApprovalStands(g.id.approval)
<1> DEFINE a == g.id.approval
<1>1. a = None \/ \E r \in rulings : r.id = a
  <2>1. Backed(g)
    BY DEF RInv, IInv, GrantsAreBacked
  <2>2. QED
    BY <2>1 DEF Backed, Approved
<1>2. CASE a = None
  BY <1>2 DEF ApprovalStands
<1>3. CASE a # None
  <2>1. PICK r \in rulings' : r.id = a /\ r.verdict = "approved" /\ now' < r.expires
    BY <1>3 DEF ApprovalStands
  <2>2. r \in rulings
    <3>1. SUFFICES ASSUME r \notin rulings PROVE FALSE
      OBVIOUS
    <3>2. PICK admin \in Admins, b \in ApprovalId, v \in {"approved", "rejected"}, w \in Reasons :
            DecideApproval(admin, b, v, w)
      BY <3>1 DEF Next, Tick, InstallPolicy, InstallInterrupted, CheckPolicy, RequestApproval,
         AuthorizeAction, Arrive, Leave, ClaimGrant, RevalidateClaim, RecordAction,
         vars, store, policy, agency
    <3>3. QED
      BY <1>1, <1>3, <2>1, <3>1, <3>2 DEF DecideApproval
  <2>3. now \in Nat /\ now' \in Nat /\ now <= now' /\ r.expires \in Nat
    BY <2>2, TimePasses DEF RInv, IInv, TypeOK, Ruling
  <2>4. QED
    BY <2>1, <2>2, <2>3 DEF ApprovalStands
<1>4. QED
  BY <1>2, <1>3

-----------------------------------------------------------------------------
(* What a step does to the view of one grant. *)

\* ClaimGrant and RecordAction read authority and do not touch it.
LEMMA EffectSteps ==
  ASSUME [Next]_vars
  PROVE  \/ UNCHANGED <<claims, actions>>
         \/ /\ UNCHANGED <<now, activations, rulings, grants>>
            /\ \E call \in pending :
                 \/ ClaimGrant(call) /\ UNCHANGED actions
                 \/ RecordAction(call) /\ UNCHANGED claims
BY DEF Next, Tick, InstallPolicy, InstallInterrupted, CheckPolicy, RequestApproval, DecideApproval,
       AuthorizeAction, Arrive, Leave, ClaimGrant, RevalidateClaim, RecordAction, vars, store,
       policy, agency, effect

\* An issued grant stays issued, and its authority ends at most once.
LEMMA StageStep ==
  ASSUME RInv, TypeOK', DistinctActivations', [Next]_vars, NEW id \in GrantId
  PROVE  \/ Stage(id)' = Stage(id)
         \/ Stage(id) = "unissued" /\ Stage(id)' = "live"
         \/ Stage(id) = "live" /\ Stage(id)' = "ended"
<1>1. CASE \E g \in grants : g.id = id
  <2>1. PICK g \in grants : g.id = id
    BY <1>1
  <2>2. g \in grants'
    BY RecordsPersist
  <2>3. Live(id)' => Live(id)
    BY <2>1, PolicyStaysEnded, ApprovalStaysEnded DEF Live
  <2>4. Stage(id) = IF Live(id) THEN "live" ELSE "ended"
    BY <2>1 DEF Stage, Live
  <2>5. Stage(id)' = IF Live(id)' THEN "live" ELSE "ended"
    BY <2>1, <2>2 DEF Stage, Live
  <2>6. QED
    BY <2>3, <2>4, <2>5
<1>2. CASE (\A g \in grants : g.id # id) /\ (\A g \in grants' : g.id # id)
  BY <1>2 DEF Stage
<1>3. CASE (\A g \in grants : g.id # id) /\ (\E g \in grants' : g.id = id)
  <2>1. PICK d \in DecisionId, a \in ApprovalId \cup {None} : AuthorizeAction(d, a)
    BY <1>3 DEF Next, Tick, InstallPolicy, InstallInterrupted, CheckPolicy, RequestApproval,
       DecideApproval, Arrive, Leave, ClaimGrant, RevalidateClaim, RecordAction,
       vars, store, policy, agency
  <2>2. id = [decision |-> d, approval |-> a] /\ Active(d.policy)
    BY <1>3, <2>1 DEF AuthorizeAction
  <2>3. UNCHANGED <<now, activations, rulings>>
    BY <2>1 DEF AuthorizeAction, policy
  <2>4. ApprovalStands(a)
    <3>1. PICK end : end \in AuthorityEnds(d, a)
      BY <2>1 DEF AuthorizeAction
    <3>2. CASE ProposalEffect(d) = "allow"
      BY <3>1, <3>2 DEF AuthorityEnds, ApprovalStands
    <3>3. CASE ProposalEffect(d) = "require_approval"
      BY <3>1, <3>3 DEF AuthorityEnds, StandingRulings, ApprovalStands
    <3>4. CASE ProposalEffect(d) \notin {"allow", "require_approval"}
      BY <3>1, <3>4 DEF AuthorityEnds
    <3>5. QED
      BY <3>2, <3>3, <3>4
  <2>5. Active(d.policy)' /\ ApprovalStands(a)'
    BY <2>2, <2>3, <2>4 DEF Active, ActivePolicy, ApprovalStands
  <2>6. Stage(id) = "unissued" /\ Stage(id)' = "live"
    BY <1>3, <2>2, <2>5 DEF Stage
  <2>7. QED
    BY <2>6
<1>4. QED
  BY <1>1, <1>2, <1>3

\* The single-use claim is taken under authority that stands.
LEMMA ClaimView ==
  ASSUME RInv, NEW call \in pending, ClaimGrant(call), UNCHANGED <<now, activations, rulings, grants>>
  PROVE  /\ Stage(call.grant) = "live"
         /\ Owner(call.grant) = None /\ Owner(call.grant)' = call.executor
         /\ \A id : id # call.grant => Owner(id)' = Owner(id)
<1> DEFINE g == call.grant
           new == [grant |-> g, executor |-> call.executor, at |-> now, epoch |-> Epoch]
<1>1. /\ claims' = claims \cup {new} /\ Active(g.decision.policy) /\ ApprovalStands(g.approval)
      /\ \A c \in claims : c.grant # g
  BY DEF ClaimGrant, Unclaimed
<1>2. \E x \in grants : x.id = g
  BY DEF RInv, IInv, Chained
<1>3. Stage(g) = "live" /\ Owner(g) = None
  BY <1>1, <1>2 DEF Stage, Owner
<1>4. Owner(g)' = call.executor
  <2>1. \A c \in claims' : c.grant = g <=> c = new
    BY <1>1
  <2>2. (CHOOSE c \in claims' : c.grant = g) = new
    BY <1>1, <2>1
  <2>3. QED
    BY <1>1, <2>2 DEF Owner
<1>5. ASSUME NEW id, id # g
      PROVE  Owner(id)' = Owner(id)
  <2>1. CASE \A c \in claims : c.grant # id
    BY <1>1, <1>5, <2>1 DEF Owner
  <2>2. ASSUME NEW c \in claims, c.grant = id
        PROVE  Owner(id)' = Owner(id)
    <3>1. \A d \in claims : d.grant = id <=> d = c
      BY <2>2 DEF RInv, IInv, SingleUseClaim
    <3>2. \A d \in claims' : d.grant = id <=> d = c
      BY <1>1, <1>5, <2>2, <3>1
    <3>3. c \in claims'
      BY <1>1
    <3>4. (CHOOSE d \in claims : d.grant = id) = c /\ (CHOOSE d \in claims' : d.grant = id) = c
      BY <2>2, <3>1, <3>2, <3>3
    <3>5. QED
      BY <2>2, <3>3, <3>4 DEF Owner
  <2>3. QED
    BY <2>1, <2>2
<1>6. QED
  BY <1>3, <1>4, <1>5


\* A record opens the execution, or ends it, under the claim.
LEMMA RecordView ==
  ASSUME RInv, NEW call \in pending, RecordAction(call)
  PROVE  /\ Owner(call.grant) # None /\ Outcome(call.grant) = None
         /\ \/ /\ ~Opened(call.grant) /\ Opened(call.grant)' /\ Outcome(call.grant)' = None
            \/ /\ call.status \in Terminal
               /\ Opened(call.grant)' = Opened(call.grant)
               /\ Outcome(call.grant)' = [status |-> call.status, evidence |-> call.evidence]
         /\ \A id : id # call.grant => Opened(id)' = Opened(id) /\ Outcome(id)' = Outcome(id)
<1> DEFINE g == call.grant
           new == [grant |-> g, seq |-> Cardinality(ActionsOf(g)) + 1, status |-> call.status,
                   evidence |-> call.evidence, executor |-> call.executor]
<1>1. /\ actions' = actions \cup {new} /\ Recordable(g, call.status)
      /\ \E c \in claims : c.grant = g /\ c.executor = call.executor
  BY DEF RecordAction
<1>2. call.status \in Statuses /\ claims \subseteq Claim
  BY DEF RInv, IInv, TypeOK, RecordAction, Call
<1>3. Owner(g) # None
  <2>1. PICK c \in claims : c = (CHOOSE d \in claims : d.grant = g)
    BY <1>1
  <2>2. c.executor \in Executors
    BY <1>2 DEF Claim
  <2>3. QED
    BY <1>1, <2>1, <2>2, IdentityAssumption DEF Owner
<1>4. ~Closed(g) /\ Outcome(g) = None
  BY <1>1 DEF Recordable, Outcome
<1>5. ActionsOf(g)' = ActionsOf(g) \cup {new}
  BY <1>1 DEF ActionsOf
<1> HIDE DEF new
<1>5a. /\ new \in actions' /\ new \in ActionsOf(g)' /\ new.grant = g
        /\ new.status = call.status /\ new.evidence = call.evidence
  BY <1>1, <1>5 DEF new
<1>6. ASSUME call.status = "executing"
      PROVE  ~Opened(g) /\ Opened(g)' /\ Outcome(g)' = None
  <2>1. ~Opened(g) /\ Opened(g)'
    BY <1>1, <1>5a, <1>6 DEF Opened, Recordable
  <2>2. ~Closed(g)'
    BY <1>1, <1>4, <1>5a, <1>6 DEF Closed, Terminal
  <2>3. Outcome(g)' = None
    BY <2>2 DEF Outcome
  <2>4. QED
    BY <2>1, <2>3
<1>7. ASSUME call.status \in Terminal
      PROVE  /\ Opened(g)' = Opened(g)
             /\ Outcome(g)' = [status |-> call.status, evidence |-> call.evidence]
  <2>1. Opened(g)' = Opened(g)
    BY <1>5, <1>5a, <1>7 DEF Opened, Terminal
  <2>2. Closed(g)'
    BY <1>5a, <1>7 DEF Closed
  <2>3. \A x \in ActionsOf(g)' : x.status \in Terminal <=> x = new
    BY <1>4, <1>5, <1>5a, <1>7 DEF ActionsOf, Closed
  <2>4. (CHOOSE x \in ActionsOf(g)' : x.status \in Terminal) = new
    BY <1>5a, <2>3
  <2>5. QED
    BY <1>5a, <2>1, <2>2, <2>4 DEF Outcome
<1>8. ASSUME NEW id, id # g
      PROVE  Opened(id)' = Opened(id) /\ Outcome(id)' = Outcome(id)
  <2>1. ActionsOf(id)' = ActionsOf(id)
    BY <1>1, <1>5a, <1>8 DEF ActionsOf
  <2>2. Closed(id)' = Closed(id)
    BY <1>1, <1>5a, <1>8 DEF Closed
  <2>3. QED
    BY <2>1, <2>2 DEF Opened, Outcome
<1>9. QED
  BY <1>2, <1>3, <1>4, <1>6, <1>7, <1>8 DEF Statuses

\* Every step is a step of GrantAuthority, or a stutter, for every grant.
LEMMA StepImplements ==
  ASSUME RInv, TypeOK', DistinctActivations', [Next]_vars, NEW id \in GrantId
  PROVE  View(id)!Next \/ UNCHANGED View(id)!authority
<1>1. CASE UNCHANGED <<claims, actions>>
  <2>1. Owner(id)' = Owner(id) /\ Opened(id)' = Opened(id) /\ Outcome(id)' = Outcome(id)
    BY <1>1 DEF Owner, Opened, Outcome, ActionsOf, Closed
  <2>2. QED
    BY <2>1, StageStep DEF View!Next, View!Issue, View!End, View!authority
<1>2. ASSUME UNCHANGED <<now, activations, rulings, grants, actions>>,
             NEW call \in pending, ClaimGrant(call)
      PROVE  View(id)!Next \/ UNCHANGED View(id)!authority
  <2>1. Stage(id)' = Stage(id) /\ Opened(id)' = Opened(id) /\ Outcome(id)' = Outcome(id)
    BY <1>2 DEF Stage, Active, ActivePolicy, ApprovalStands, Opened, Outcome, ActionsOf, Closed
  <2>2. call.executor \in Executors
    BY DEF RInv, IInv, TypeOK, Call
  <2>3. CASE id = call.grant
    BY <1>2, <2>1, <2>2, <2>3, ClaimView DEF View!Next, View!Claim
  <2>4. CASE id # call.grant
    BY <1>2, <2>1, <2>4, ClaimView DEF View!authority
  <2>5. QED
    BY <2>3, <2>4
<1>3. ASSUME UNCHANGED <<now, activations, rulings, grants, claims>>,
             NEW call \in pending, RecordAction(call)
      PROVE  View(id)!Next \/ UNCHANGED View(id)!authority
  <2>1. Stage(id)' = Stage(id) /\ Owner(id)' = Owner(id)
    BY <1>3 DEF Stage, Active, ActivePolicy, ApprovalStands, Owner
  <2>2. call.evidence \in Evidence
    BY <1>3 DEF RInv, IInv, TypeOK, Call, RecordAction
  <2>3. CASE id = call.grant
    BY <1>3, <2>1, <2>2, <2>3, RecordView
    DEF View!Next, View!RecordExecuting, View!RecordOutcome
  <2>4. CASE id # call.grant
    BY <1>3, <2>1, <2>4, RecordView DEF View!authority
  <2>5. QED
    BY <2>3, <2>4
<1>4. QED
  BY <1>1, <1>2, <1>3, EffectSteps

\* For every policy, identity, proposal and bound: seen through any one grant
\* the control plane issues it at most once, lets one executor claim it while
\* its authority stands, and records one outcome under that claim
\* (authorizeAction, validateExecutionGrant, recordAction).
THEOREM Refinement == Spec => ImplementsGrantAuthority
<1>1. Init => \A id \in GrantId : View(id)!Init
  BY DEF Init, View!Init, Stage, Owner, Opened, Outcome, ActionsOf, Closed
<1>2. RInv => TypeOK /\ DistinctActivations
  BY DEF RInv, IInv, OnePolicyEpoch, DistinctActivations
<1>3. RInv /\ (TypeOK /\ DistinctActivations)' /\ [Next]_vars
        => [\A id \in GrantId : View(id)!Next \/ UNCHANGED View(id)!authority]_vars
  BY StepImplements
<1>4. QED
  BY <1>1, <1>2, <1>3, RInvariance, PTL DEF Spec, ImplementsGrantAuthority

-----------------------------------------------------------------------------
(* What a set of rules decides                                              *)

LEMMA MatchingRules ==
  ASSUME NEW rules \in ValidRuleSets, NEW p, NEW r \in Matching(rules, p)
  PROVE  /\ r \in rules /\ r \in Rule /\ ValidRule(r)
         /\ r.effect \in Effects /\ r.tiers \subseteq Tiers /\ r.tiers # {}
         /\ r.roles \subseteq Roles /\ r.ttl \in Nat
<1>1. r \in rules /\ r \in Rule /\ ValidRule(r)
  BY DEF Matching, ValidRuleSets, ValidRules
<1> QED
  BY <1>1 DEF Rule, ValidRule

\* A nonempty set of tiers has a highest one.
LEMMA HighestTier ==
  ASSUME NEW tiers \in SUBSET Tiers, tiers # {}
  PROVE  LET highest == CHOOSE t \in tiers : \A u \in tiers : u <= t
         IN  highest \in tiers /\ \A u \in tiers : u <= highest
<1>1. \A t \in tiers : t \in {0, 1, 2}
  BY DEF Tiers
<1>2. \E t \in tiers : \A u \in tiers : u <= t
  <2>1. CASE 2 \in tiers
    BY <1>1, <2>1
  <2>2. CASE 2 \notin tiers /\ 1 \in tiers
    BY <1>1, <2>2
  <2>3. CASE 2 \notin tiers /\ 1 \notin tiers
    BY <1>1, <2>3
  <2> QED
    BY <2>1, <2>2, <2>3
<1> QED
  BY <1>2

\* Whatever rules a policy has, in whatever order: an action that no rule matches
\* is denied and high; otherwise the strictest matching effect and the highest
\* tier decide, every matching rule's approvers are needed, and an approval lasts
\* no longer than any matching rule lets it (evaluate).
THEOREM StrictestRuleWins ==
  ASSUME NEW rules \in ValidRuleSets, NEW p
  PROVE  IF Matching(rules, p) = {}
         THEN EffectOf(rules, p) = "deny" /\ RiskOf(rules, p) = 2
         ELSE /\ \E r \in Matching(rules, p) : r.effect = EffectOf(rules, p)
              /\ \E r \in Matching(rules, p) : RiskOf(rules, p) \in r.tiers
              /\ \A r \in Matching(rules, p) :
                   /\ Strictness(r.effect) <= Strictness(EffectOf(rules, p))
                   /\ \A t \in r.tiers : t <= RiskOf(rules, p)
                   /\ EffectOf(rules, p) = "require_approval" => r.roles \subseteq RolesOf(rules, p)
                   /\ r.effect = "require_approval" => \A t \in ShortestTtl(rules, p) : t <= r.ttl
<1> DEFINE M == Matching(rules, p)
           tiers == UNION {r.tiers : r \in M}
<1>1. CASE M = {}
  BY <1>1 DEF EffectOf, RiskOf, WithEffect
<1>2. CASE M # {}
  <2>1. \A r \in M : /\ ValidRule(r) /\ r.effect \in {"allow", "require_approval", "deny"}
                     /\ r.tiers \subseteq Tiers /\ r.tiers # {}
    BY MatchingRules DEF Effects
  <2>2. /\ EffectOf(rules, p) \in {"allow", "require_approval", "deny"}
        /\ EffectOf(rules, p) = "deny" <=> \E r \in M : r.effect = "deny"
        /\ EffectOf(rules, p) = "require_approval" <=>
             (\E r \in M : r.effect = "require_approval") /\ \A r \in M : r.effect # "deny"
    BY <1>2 DEF EffectOf, WithEffect
  <2>3. \E r \in M : r.effect = EffectOf(rules, p)
    BY <1>2, <2>1, <2>2
  <2>4. ASSUME NEW r \in M PROVE Strictness(r.effect) <= Strictness(EffectOf(rules, p))
    BY <2>1, <2>2 DEF Strictness
  <2>5. tiers \in SUBSET Tiers /\ tiers # {}
    BY <1>2, <2>1
  <2>6. RiskOf(rules, p) = CHOOSE t \in tiers : \A u \in tiers : u <= t
    BY <1>2 DEF RiskOf
  <2>7. RiskOf(rules, p) \in tiers /\ \A u \in tiers : u <= RiskOf(rules, p)
    BY <2>5, <2>6, HighestTier
  <2>8. ASSUME NEW r \in M, EffectOf(rules, p) = "require_approval"
        PROVE  r.roles \subseteq RolesOf(rules, p)
    <3>1. CASE r.effect = "require_approval"
      BY <2>8, <3>1 DEF RolesOf, WithEffect
    <3>2. CASE r.effect # "require_approval"
      BY <2>1, <3>2 DEF ValidRule
    <3> QED
      BY <3>1, <3>2
  <2>9. ASSUME NEW r \in M, r.effect = "require_approval", NEW t \in ShortestTtl(rules, p)
        PROVE  t <= r.ttl
    BY <2>9 DEF ShortestTtl, WithEffect
  <2> QED
    BY <1>2, <2>3, <2>4, <2>7, <2>8, <2>9
<1> QED
  BY <1>1, <1>2

\* A policy that says more of an action than another is as strict at least: a rule
\* that is added to those that match weakens no effect, lowers no tier, waives no
\* approver and prolongs no approval (matchingRules, evaluate).
THEOREM MoreRulesAreStricter ==
  ASSUME NEW rules \in ValidRuleSets, NEW more \in ValidRuleSets, rules \subseteq more,
         NEW p, Matching(rules, p) # {}
  PROVE  /\ Strictness(EffectOf(rules, p)) <= Strictness(EffectOf(more, p))
         /\ RiskOf(rules, p) <= RiskOf(more, p)
         /\ EffectOf(more, p) = "require_approval" => RolesOf(rules, p) \subseteq RolesOf(more, p)
         /\ EffectOf(rules, p) = "require_approval" =>
              \A t \in ShortestTtl(rules, p), u \in ShortestTtl(more, p) : u <= t
<1>1. Matching(rules, p) \subseteq Matching(more, p) /\ Matching(more, p) # {}
  BY DEF Matching
<1>2. PICK r \in Matching(rules, p) : r.effect = EffectOf(rules, p)
  BY StrictestRuleWins
<1>3. Strictness(r.effect) <= Strictness(EffectOf(more, p))
  BY <1>1, StrictestRuleWins
<1>4. PICK s \in Matching(rules, p) : RiskOf(rules, p) \in s.tiers
  BY StrictestRuleWins
<1>5. \A t \in s.tiers : t <= RiskOf(more, p)
  BY <1>1, StrictestRuleWins
<1>6. ASSUME EffectOf(more, p) = "require_approval"
      PROVE  RolesOf(rules, p) \subseteq RolesOf(more, p)
  <2>1. \A q \in Matching(rules, p) : q.roles \subseteq RolesOf(more, p)
    BY <1>1, <1>6, StrictestRuleWins
  <2> QED
    BY <2>1 DEF RolesOf, WithEffect
<1>7. ASSUME NEW t \in ShortestTtl(rules, p), NEW u \in ShortestTtl(more, p)
      PROVE  u <= t
  <2>1. PICK q \in Matching(rules, p) : q.effect = "require_approval" /\ t = q.ttl
    BY DEF ShortestTtl, WithEffect
  <2>2. u <= q.ttl
    BY <1>1, <2>1, StrictestRuleWins
  <2> QED
    BY <2>1, <2>2
<1> QED
  BY <1>2, <1>3, <1>4, <1>5, <1>6, <1>7
=============================================================================
