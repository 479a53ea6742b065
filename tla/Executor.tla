------------------------------ MODULE Executor ------------------------------
(***************************************************************************)
(* The governed ad platform executor (ad_platform_executor_core.mjs) on    *)
(* one provider resource: executing an approved change, reconciling one    *)
(* whose outcome is unknown, cancelling one whose authority ended, and     *)
(* rolling a change back, with crashes between any two steps, answers that *)
(* never come, requests that take effect late, and others who write the    *)
(* same resource.                                                          *)
(*                                                                         *)
(* One step is one durable effect: a local file, a control plane call, a   *)
(* provider request, a provider read.  The control plane appears as the    *)
(* sets it keeps for each grant; it is used as module GrantAuthority       *)
(* promises (UsesGrantAuthority).  The resource lock is "holders": Spec    *)
(* gives the ideal one, module ExecutorOnLock the one the code has.        *)
(***************************************************************************)
EXTENDS Integers, FiniteSets

CONSTANTS Procs,       \* executor processes, sharing one store and identity
          Executions,  \* ad_platform.execute grants, each bound to its plan
          Rollbacks,   \* ad_platform.rollback grants
          Undoes,      \* Undoes[r]: the execution that r rolls back
          From, To,    \* From[g], To[g]: the approved transition of the field
          Values,      \* values the field can have
          MaxFaults,   \* bound on crashes, exceptions and lost answers
          MaxOutside,  \* bound on writes by others
          None, Torn   \* no record, a half written one

Grants == Executions \cup Rollbacks

ASSUME ExecutorAssumption ==
  /\ Executions \cap Rollbacks = {}
  /\ Undoes \in [Rollbacks -> Executions]
  /\ From \in [Grants -> Values] /\ To \in [Grants -> Values]
  /\ \A g \in Grants : From[g] # To[g]
  /\ \A r \in Rollbacks : From[r] = To[Undoes[r]] /\ To[r] = From[Undoes[r]]
  /\ None # Torn /\ None \notin Values /\ MaxFaults \in Nat /\ MaxOutside \in Nat

VARIABLES holders,   \* processes that believe they hold the resource lock
          job,       \* what each process is doing: [op, grant], or None
          pc,        \* and where it is
          draft,     \* the receipt it is about to write, or None
          intent,    \* intents/: the state of each grant's intent, or "none"
          receipt,   \* receipts/: each grant's receipt, None or Torn
          expiredPlans, \* executions whose change plan expired
          expired,   \* grants past their expiry
          revoked,   \* grants whose policy or approval does not stand any more
          claims,    \* grants claimed in the control plane
          opened,    \* grants with an "executing" record
          outcome,   \* each grant's terminal record there, or None
          world,     \* the provider's value of the field
          request,   \* the fate of each grant's last provider request
          sent,      \* ghost: how many requests each grant has made
          faults, outside

local     == <<job, pc, draft>>
files     == <<intent, receipt>>
authority == <<expiredPlans, expired, revoked>>
control   == <<claims, opened, outcome>>
provider  == <<world, request, sent, outside>>
state     == <<local, files, authority, control, provider, faults>>
vars      == <<holders, state>>

Receipt == [status : {"executed", "verification_failed", "rolled_back"},
            by : {"ack", "reconciled"}, post : Values]
Outcome == [status : {"executed", "failed", "cancelled"},
            by : {"ack", "reconciled", "rejected", "no-effect", "ended"},
            post : Values \cup {None}]

\* A missing or torn file is no record; no executor is nobody.
ASSUME RecordAssumption ==
  None \notin Receipt \cup Outcome /\ Torn \notin Receipt /\ None # "executor"

Intents == {"none", "prepared", "claimed", "effect_started", "ambiguous",
            "cancellation_pending", "terminal_no_effect", "terminal"}
Job == [op : {"execute", "reconcile"}, grant : Executions] \cup [op : {"rollback"}, grant : Rollbacks]
Places == {"out", "wait", "start", "claim", "keep", "revalidate", "cancel", "nullify",
           "announce", "effect", "mutate", "await", "reject", "verify", "receipt", "conflict",
           "record", "no-effect", "close", "settle", "leave"}

Init ==
  /\ holders = {}
  /\ job = [p \in Procs |-> None] /\ pc = [p \in Procs |-> "out"]
  /\ draft = [p \in Procs |-> None]
  /\ intent = [g \in Grants |-> "none"] /\ receipt = [g \in Grants |-> None]
  /\ expiredPlans = {} /\ expired = {} /\ revoked = {}
  /\ claims = {} /\ opened = {} /\ outcome = [g \in Grants |-> None]
  /\ world \in {From[g] : g \in Executions}
  /\ request = [g \in Grants |-> "none"] /\ sent = [g \in Grants |-> 0]
  /\ faults = 0 /\ outside = 0

GoTo(p, place) == pc' = [pc EXCEPT ![p] = place] /\ UNCHANGED <<job, draft>>

\* The step goes to the next place and changes only files, or only control.
WriteIntent(p, g, s, place) ==
  /\ intent' = [intent EXCEPT ![g] = s]
  /\ GoTo(p, place)
  /\ UNCHANGED <<receipt, authority, control, provider, faults>>
Pass(p, place) == GoTo(p, place) /\ UNCHANGED <<files, authority, control, provider, faults>>
Stop(p) == Pass(p, "leave")

Doing(p, place) == pc[p] = place
G(p) == job[p].grant
Op(p) == job[p].op
-----------------------------------------------------------------------------
(* Calls and the lock *)

\* validatePlan: an expired plan is refused before the lock is asked for; a
\* rollback needs the verified receipt of a successful execution instead.
Admissible(j) ==
  IF j.op = "rollback"
  THEN LET r == receipt[Undoes[j.grant]] IN r \in Receipt /\ r.status = "executed"
  ELSE j.grant \notin expiredPlans

Call(p, j) ==
  /\ Doing(p, "out") /\ Admissible(j)
  /\ job' = [job EXCEPT ![p] = j]
  /\ pc' = [pc EXCEPT ![p] = "wait"]
  /\ UNCHANGED <<draft, files, authority, control, provider, faults>>

Enter(p) == Doing(p, "wait") /\ p \in holders /\ Pass(p, "start")

\* RESOURCE_BUSY: another operation holds the resource until the deadline.
Busy(p) == Doing(p, "wait") /\ holders # {} /\ p \notin holders /\ Stop(p)

Forget(p) ==
  /\ Doing(p, "leave")
  /\ pc' = [pc EXCEPT ![p] = "out"]
  /\ job' = [job EXCEPT ![p] = None] /\ draft' = [draft EXCEPT ![p] = None]
  /\ UNCHANGED <<files, authority, control, provider, faults>>
-----------------------------------------------------------------------------
(* Where an operation finds the grant: its receipt, its intent, the provider *)

Settle(p)     == Doing(p, "start") /\ receipt[G(p)] \in Receipt /\ Pass(p, "settle")
Unreadable(p) == Doing(p, "start") /\ receipt[G(p)] = Torn /\ Stop(p)

Fresh(p) == Doing(p, "start") /\ receipt[G(p)] = None

\* Mutation: a claimed execution starts over.
RestartableClaimed == {"none", "prepared", "claimed"}

\* The intents from which executeApprovedChange begins (again).
Restartable == {"none", "prepared"}

StartExecute(p) ==
  LET g == G(p)
  IN  /\ Fresh(p) /\ Op(p) = "execute"
      /\ \/ intent[g] = "cancellation_pending" /\ Pass(p, "cancel")
         \/ /\ intent[g] \notin Restartable \cup {"cancellation_pending"}
            /\ Stop(p)     \* EXECUTION_CANCELLED, RECONCILIATION_REQUIRED
         \/ /\ intent[g] \in Restartable
            /\ IF world = From[g] THEN WriteIntent(p, g, "prepared", "claim") ELSE Stop(p)

Draft(p, status, by, post) ==
  /\ draft' = [draft EXCEPT ![p] = [status |-> status, by |-> by, post |-> post]]
  /\ pc' = [pc EXCEPT ![p] = "receipt"]
  /\ UNCHANGED <<job, files, authority, control, provider, faults>>

\* reconcileExecution: the provider's value decides.
StartReconcile(p) ==
  LET g == G(p)
  IN  /\ Fresh(p) /\ Op(p) = "reconcile"
      /\ \/ intent[g] \notin {"claimed", "ambiguous"} /\ Stop(p)
         \/ /\ intent[g] \in {"claimed", "ambiguous"}
            /\ \/ world = To[g] /\ Draft(p, "executed", "reconciled", world)
               \/ world = From[g] /\ Pass(p, "no-effect")
               \/ world \notin {From[g], To[g]} /\ Stop(p)  \* MANUAL_RECONCILIATION_REQUIRED

\* rollbackExecution: the original pre-image means it was done, the original
\* post-image that it was not; an effect that may have begun is never repeated.
StartRollback(p) ==
  LET r == G(p)
  IN  /\ Fresh(p) /\ Op(p) = "rollback"
      /\ \/ intent[r] = "cancellation_pending" /\ Pass(p, "cancel")
         \/ /\ intent[r] # "cancellation_pending" /\ world = To[r]
            /\ IF intent[r] \in {"effect_started", "ambiguous", "claimed"}
               THEN Draft(p, "rolled_back", "reconciled", world)
               ELSE Stop(p)     \* ROLLBACK_CONFLICT
         \/ intent[r] # "cancellation_pending" /\ world \notin {From[r], To[r]} /\ Stop(p)
         \/ /\ world = From[r]
            /\ \/ intent[r] = "none" /\ WriteIntent(p, r, "prepared", "claim")
               \/ intent[r] = "prepared" /\ Pass(p, "claim")
               \/ intent[r] = "claimed" /\ Pass(p, "revalidate")
               \/ intent[r] \in {"effect_started", "ambiguous", "terminal_no_effect"} /\ Stop(p)
-----------------------------------------------------------------------------
(* Authority: claim, revalidation, cancellation *)

Current(g) == g \notin expired \cup revoked

\* Mutation: the intent stays "prepared" while the claim is used.
ClaimGrantOnly(p) ==
  /\ Doing(p, "claim") /\ Current(G(p)) /\ outcome[G(p)] = None
  /\ claims' = claims \cup {G(p)}
  /\ GoTo(p, "revalidate")
  /\ UNCHANGED <<files, authority, opened, outcome, provider, faults>>

\* claimGrant: a first claim, or the one an earlier attempt left behind.
ClaimGrant(p) ==
  LET g == G(p)
  IN  /\ Doing(p, "claim")
      /\ IF Current(g) /\ outcome[g] = None
         THEN /\ claims' = claims \cup {g}
              /\ GoTo(p, "keep")
              /\ UNCHANGED <<files, authority, opened, outcome, provider, faults>>
         ELSE Stop(p)

KeepClaim(p) == Doing(p, "keep") /\ WriteIntent(p, G(p), "claimed", "revalidate")

Revalidate(p) ==
  LET g == G(p)
  IN  /\ Doing(p, "revalidate")
      /\ \/ ~Current(g) /\ WriteIntent(p, g, "cancellation_pending", "cancel")
         \/ outcome[g] # None /\ Stop(p)   \* ACTION_ALREADY_RECORDED
         \/ Current(g) /\ outcome[g] = None /\ Pass(p, "announce")

\* Mutation: a terminal record may replace an earlier one.
RecordableAgain(g, o) == g \in claims

\* Mutation: the exact repetition of a terminal record is refused.
RecordableOnce(g, o) == g \in claims /\ outcome[g] = None

\* recordAction accepts a terminal record once, and its exact repetition.
Recordable(g, o) == g \in claims /\ outcome[g] \in {None, o}

Record(p, o, place) ==
  /\ IF Recordable(G(p), o)
     THEN /\ outcome' = [outcome EXCEPT ![G(p)] = o]
          /\ GoTo(p, place)
          /\ UNCHANGED <<files, authority, claims, opened, provider, faults>>
     ELSE Stop(p)

\* The same, where the code ignores the error.
TryRecord(p, o, place) ==
  /\ outcome' = IF Recordable(G(p), o) THEN [outcome EXCEPT ![G(p)] = o] ELSE outcome
  /\ GoTo(p, place)
  /\ UNCHANGED <<files, authority, claims, opened, provider, faults>>

\* Mutation: the local end is written first.
CancelLocally(p) == Doing(p, "cancel") /\ WriteIntent(p, G(p), "terminal_no_effect", "nullify")

\* finishAuthorityCancellation: the control plane first, then the local end.
Cancel(p) ==
  /\ Doing(p, "cancel")
  /\ Record(p, [status |-> "cancelled", by |-> "ended", post |-> None], "nullify")

Nullify(p) == Doing(p, "nullify") /\ WriteIntent(p, G(p), "terminal_no_effect", "leave")

Announce(p) ==
  LET g == G(p)
  IN  /\ Doing(p, "announce")
      /\ IF g \notin expired /\ (outcome[g] = None \/ g \in opened)
         THEN /\ opened' = opened \cup {g}
              /\ GoTo(p, IF Op(p) = "rollback" THEN "effect" ELSE "mutate")
              /\ UNCHANGED <<files, authority, claims, outcome, provider, faults>>
         ELSE Stop(p)

\* Mutation: the intent does not say that the effect may have begun.
StartEffectSilently(p) == Doing(p, "effect") /\ Pass(p, "mutate")

StartEffect(p) == Doing(p, "effect") /\ WriteIntent(p, G(p), "effect_started", "mutate")
-----------------------------------------------------------------------------
(* The effect *)

Mutate(p) ==
  LET g == G(p)
  IN  /\ Doing(p, "mutate")
      /\ request' = [request EXCEPT ![g] = "flying"]
      /\ sent' = [sent EXCEPT ![g] = @ + 1]
      /\ GoTo(p, "await")
      /\ UNCHANGED <<files, authority, control, world, outside, faults>>

\* The provider applies or refuses a request, whenever it gets to it.
Land(g) ==
  /\ request[g] = "flying"
  /\ request' = [request EXCEPT ![g] = "landed"]
  /\ world' = To[g]
  /\ UNCHANGED <<local, files, authority, control, sent, outside, faults>>

Refuse(g) ==
  /\ request[g] = "flying"
  /\ request' = [request EXCEPT ![g] = "refused"]
  /\ UNCHANGED <<local, files, authority, control, world, sent, outside, faults>>

Answered(p) == Doing(p, "await") /\ request[G(p)] = "landed" /\ Pass(p, "verify")

\* PROVIDER_REJECTED, AUTH_FORBIDDEN, ...: a definite no.
Rejected(p) == Doing(p, "await") /\ request[G(p)] = "refused" /\ Pass(p, "reject")

\* readBoundedJSON: a 2xx answer that is malformed or too large is an error
\* that is not marked ambiguous, as a definite no is.
Garbled(p) ==
  /\ Doing(p, "await") /\ request[G(p)] = "landed"
  /\ faults < MaxFaults /\ faults' = faults + 1
  /\ GoTo(p, "reject")
  /\ UNCHANGED <<files, authority, control, provider>>

\* Timeout, transport loss, retryable server failure.
Unanswered(p) ==
  /\ Doing(p, "await")
  /\ faults < MaxFaults /\ faults' = faults + 1
  /\ intent' = [intent EXCEPT ![G(p)] = "ambiguous"]
  /\ GoTo(p, "leave")
  /\ UNCHANGED <<receipt, authority, control, provider>>

\* The control plane is told; the intent stays as it is.
Reject(p) ==
  /\ Doing(p, "reject")
  /\ TryRecord(p, [status |-> "failed", by |-> "rejected", post |-> None], "leave")

\* The post-image is read.  A rollback that finds another value stops; an
\* execution writes a receipt of the conflict.
Verify(p) ==
  LET g == G(p)
  IN  /\ Doing(p, "verify")
      /\ IF world = To[g]
         THEN Draft(p, IF Op(p) = "rollback" THEN "rolled_back" ELSE "executed", "ack", world)
         ELSE IF Op(p) = "rollback" THEN Stop(p)
         ELSE Draft(p, "verification_failed", "ack", world)
-----------------------------------------------------------------------------
(* Receipts and terminal records *)

\* Mutation: the acknowledged success is recorded before its receipt.
ReportFirst(p) ==
  /\ Doing(p, "receipt") /\ Pass(p, "record")

\* terminalReceipt never replaces a receipt.
WriteReceipt(p) ==
  /\ Doing(p, "receipt")
  /\ IF receipt[G(p)] # None THEN Stop(p)
     ELSE /\ receipt' = [receipt EXCEPT ![G(p)] = draft[p]]
          /\ GoTo(p, IF draft[p].status = "verification_failed" THEN "conflict" ELSE "record")
          /\ UNCHANGED <<intent, authority, control, provider, faults>>

OutcomeOf(r) ==
  [status |-> IF r.status = "verification_failed" THEN "failed" ELSE "executed",
   by |-> r.by, post |-> r.post]

RecordSuccess(p)  == Doing(p, "record") /\ Record(p, OutcomeOf(draft[p]), "close")
RecordConflict(p) == Doing(p, "conflict") /\ TryRecord(p, OutcomeOf(draft[p]), "close")
RecordNoEffect(p) ==
  /\ Doing(p, "no-effect")
  /\ Record(p, [status |-> "failed", by |-> "no-effect", post |-> From[G(p)]], "nullify")

\* ensureControlPlaneTerminal, for a receipt found on disk.
EnsureTerminal(p) ==
  /\ Doing(p, "settle")
  /\ Record(p, OutcomeOf(receipt[G(p)]), IF intent[G(p)] = "terminal" THEN "leave" ELSE "close")

Close(p) == Doing(p, "close") /\ WriteIntent(p, G(p), "terminal", "leave")
-----------------------------------------------------------------------------
Serve(p) ==
  \/ Enter(p) \/ Settle(p) \/ Unreadable(p)
  \/ StartExecute(p) \/ StartReconcile(p) \/ StartRollback(p)
  \/ ClaimGrant(p) \/ KeepClaim(p) \/ Revalidate(p) \/ Cancel(p) \/ Nullify(p)
  \/ Announce(p) \/ StartEffect(p) \/ Mutate(p) \/ Answered(p) \/ Rejected(p) \/ Reject(p)
  \/ Verify(p) \/ WriteReceipt(p) \/ RecordSuccess(p) \/ RecordConflict(p)
  \/ RecordNoEffect(p) \/ EnsureTerminal(p) \/ Close(p)

\* The process dies, or a call fails (also after it took effect) and the
\* operation throws; what it was writing as a receipt may be left half written.
Interrupt(p) ==
  /\ pc[p] \notin {"out", "wait", "leave"} /\ faults < MaxFaults
  /\ faults' = faults + 1
  /\ GoTo(p, "leave")
  /\ \/ UNCHANGED receipt
     \/ /\ Doing(p, "receipt") /\ receipt[G(p)] = None
        /\ receipt' = [receipt EXCEPT ![G(p)] = Torn]
  /\ UNCHANGED <<intent, authority, control, provider>>

Work(p) ==
  \/ \E j \in Job : Call(p, j)
  \/ Serve(p) \/ Garbled(p) \/ Unanswered(p) \/ Interrupt(p)

\* The clock, the administrators and the provider's other users.
ExpirePlan(g) ==
  /\ g \notin expiredPlans /\ expiredPlans' = expiredPlans \cup {g}
  /\ UNCHANGED <<local, files, expired, revoked, control, provider, faults>>
ExpireGrant(g) ==
  /\ g \notin expired /\ expired' = expired \cup {g}
  /\ UNCHANGED <<local, files, expiredPlans, revoked, control, provider, faults>>
Revoke(g) ==
  /\ g \notin revoked /\ revoked' = revoked \cup {g}
  /\ UNCHANGED <<local, files, expiredPlans, expired, control, provider, faults>>
WriteOutside(v) ==
  /\ outside < MaxOutside /\ outside' = outside + 1 /\ world' = v
  /\ UNCHANGED <<local, files, authority, control, request, sent, faults>>

Environment ==
  \/ \E g \in Executions : ExpirePlan(g)
  \/ \E g \in Grants : ExpireGrant(g) \/ Revoke(g) \/ Land(g) \/ Refuse(g)
  \/ \E v \in Values : WriteOutside(v)

\* The ideal resource lock: one holder.
Acquire(p) == Doing(p, "wait") /\ holders = {} /\ holders' = {p} /\ UNCHANGED state
Release(p) == Forget(p) /\ holders' = holders \ {p}

Step(p) ==
  \/ (Work(p) /\ UNCHANGED holders)
  \/ (Busy(p) /\ UNCHANGED holders)
  \/ Acquire(p) \/ Release(p)

Next == (Environment /\ UNCHANGED holders) \/ \E p \in Procs : Step(p)

Spec == Init /\ [][Next]_vars

\* A restarted executor goes on, faults end (MaxFaults), and the caller asks
\* again for what was left pending.
Resuming(g) == [op |-> IF g \in Rollbacks THEN "rollback" ELSE "execute", grant |-> g]

FairSpec ==
  /\ Spec
  /\ \A p \in Procs :
       /\ WF_vars(Serve(p) /\ UNCHANGED holders) /\ WF_vars(Release(p)) /\ SF_vars(Acquire(p))
       /\ \A g \in Grants : SF_vars(Call(p, Resuming(g)) /\ UNCHANGED holders)
-----------------------------------------------------------------------------
(* Properties *)

TypeOK ==
  /\ holders \subseteq Procs
  /\ job \in [Procs -> Job \cup {None}] /\ pc \in [Procs -> Places]
  /\ draft \in [Procs -> Receipt \cup {None}]
  /\ intent \in [Grants -> Intents] /\ receipt \in [Grants -> Receipt \cup {None, Torn}]
  /\ expiredPlans \subseteq Executions /\ expired \subseteq Grants /\ revoked \subseteq Grants
  /\ claims \subseteq Grants /\ opened \subseteq Grants /\ outcome \in [Grants -> Outcome \cup {None}]
  /\ world \in Values /\ request \in [Grants -> {"none", "flying", "landed", "refused"}]
  /\ sent \in [Grants -> Nat] /\ faults \in 0..MaxFaults /\ outside \in 0..MaxOutside

\* "An executor claim is single use. Duplicate or ambiguous work is reconciled
\* from provider state instead of replayed": whatever crashes, however often
\* the caller asks again, a grant reaches the provider at most once.
NeverReplayed == \A g \in Grants : sent[g] <= 1

\* A request reaches the provider only under a claim and an "executing" record
\* in the control plane and an intent on disk that a restart will not restart.
EffectIsAccountable ==
  \A g \in Grants : sent[g] > 0 =>
    /\ g \in claims /\ g \in opened
    /\ intent[g] \notin {"none", "prepared", "cancellation_pending"}

\* An operation that was cancelled because its authority ended never touched
\* the provider, and never will (revalidateClaimBeforeEffect).
CancelledMeansUntouched ==
  \A g \in Grants :
    (intent[g] = "cancellation_pending" \/ (outcome[g] # None /\ outcome[g].status = "cancelled"))
      => sent[g] = 0

\* "Never treat a provider acknowledgement as success without a verified
\* post-image and authenticated local receipt": a success in the control plane
\* is the one of a receipt on disk that names the approved post-image.
SuccessIsReceipted ==
  \A g \in Grants : outcome[g] # None /\ outcome[g].status = "executed" =>
    /\ receipt[g] \in Receipt /\ OutcomeOf(receipt[g]) = outcome[g]
    /\ outcome[g].post = To[g]

\* A local end without effect follows the control plane's record of it; a
\* local end with a receipt has one.
LocalEndsAreBacked ==
  \A g \in Grants :
    /\ intent[g] = "terminal_no_effect" =>
         /\ receipt[g] = None
         /\ outcome[g] # None /\ outcome[g].status \in {"cancelled", "failed"}
    /\ intent[g] = "terminal" => receipt[g] \in Receipt

\* For the executor the control plane is what GrantAuthority promises.
Authority(g) == INSTANCE GrantAuthority WITH
  Executors <- {"executor"}, Terminal <- {"executed", "failed", "cancelled"},
  Evidence <- [by : {"ack", "reconciled", "rejected", "no-effect", "ended"}, post : Values \cup {None}],
  stage <- IF g \in revoked THEN "ended" ELSE "live",
  owner <- IF g \in claims THEN "executor" ELSE None,
  opened <- g \in opened,
  outcome <- IF outcome[g] = None THEN None
             ELSE [status |-> outcome[g].status,
                   evidence |-> [by |-> outcome[g].by, post |-> outcome[g].post]]

UsesGrantAuthority ==
  [][\A g \in Grants : Authority(g)!Next \/ UNCHANGED Authority(g)!authority]_vars

\* "A restart resumes that sequence": a cancellation that was begun is
\* completed, in the control plane and then here, if the caller asks again.
Resumed(g) == intent[g] = "cancellation_pending" ~> intent[g] = "terminal_no_effect"

RollbackCancellationCompletes == \A r \in Rollbacks : Resumed(r)

\* The inductive invariant: what the records of a grant say about each other,
\* and what the place of the one running operation adds.
Untouched == {"none", "prepared", "cancellation_pending"}

GrantInv(g) ==
  /\ sent[g] \in {0, 1} /\ (sent[g] = 0 <=> request[g] = "none")
  /\ sent[g] = 1 => g \in claims \cap opened /\ intent[g] \notin Untouched
  /\ g \in Rollbacks /\ intent[g] = "claimed" => sent[g] = 0
  /\ intent[g] \in {"none", "prepared"} => outcome[g] = None
  /\ intent[g] \in Untouched \cup {"terminal_no_effect"} => receipt[g] = None
  /\ intent[g] \notin {"none", "prepared"} => g \in claims
  /\ outcome[g] # None => g \in claims
  /\ outcome[g] # None /\ outcome[g].status = "cancelled" =>
       intent[g] \in {"cancellation_pending", "terminal_no_effect"} /\ sent[g] = 0
  /\ intent[g] = "cancellation_pending" => outcome[g] = None \/ outcome[g].status = "cancelled"
  /\ outcome[g] # None /\ outcome[g].status = "failed" /\ receipt[g] = None =>
       g \in Executions \/ sent[g] = 1
  /\ receipt[g] \in Receipt /\ receipt[g].status # "verification_failed" => receipt[g].post = To[g]

BeforeEffect == {"claim", "keep", "revalidate", "announce", "effect", "mutate"}

PlaceInv(p) ==
  LET g == G(p)
  IN  /\ pc[p] \in BeforeEffect => sent[g] = 0
      /\ pc[p] \in {"claim", "keep"} => intent[g] = "prepared"
      /\ pc[p] = "keep" => g \in claims
      /\ pc[p] \in {"revalidate", "announce", "effect"} => intent[g] = "claimed"
      /\ pc[p] = "effect" => g \in opened /\ g \in Rollbacks
      /\ pc[p] = "revalidate" => outcome[g] = None
      /\ pc[p] = "mutate" => g \in opened
      /\ pc[p] \in {"mutate", "await", "verify"} =>
           intent[g] = (IF g \in Rollbacks THEN "effect_started" ELSE "claimed")
      /\ pc[p] \in {"revalidate", "announce", "effect", "mutate", "await", "verify"} => receipt[g] = None
      /\ pc[p] \in {"await", "reject", "verify"} => sent[g] = 1
      /\ pc[p] = "cancel" => intent[g] = "cancellation_pending"
      /\ pc[p] = "no-effect" => g \in Executions /\ intent[g] \in {"claimed", "ambiguous"} /\ receipt[g] = None
      /\ pc[p] = "nullify" =>
           /\ receipt[g] = None /\ outcome[g] # None
           /\ \/ outcome[g].status = "cancelled" /\ intent[g] = "cancellation_pending"
              \/ outcome[g].status = "failed" /\ intent[g] \in {"claimed", "ambiguous"}
      /\ pc[p] = "receipt" =>
           /\ draft[p] \in Receipt /\ intent[g] \in {"claimed", "ambiguous", "effect_started"}
           /\ draft[p].status # "verification_failed" => draft[p].post = To[g]
      /\ pc[p] \in {"record", "conflict"} => draft[p] = receipt[g]
      /\ pc[p] = "record" => draft[p].status # "verification_failed"
      /\ pc[p] \in {"record", "conflict", "settle", "close"} =>
           receipt[g] \in Receipt /\ intent[g] \notin Untouched \cup {"terminal_no_effect"}

\* ... of the processes that live: on the real lock some may be dead.
InvAmong(live) ==
  /\ TypeOK /\ holders \subseteq live
  /\ \A p, q \in holders : p = q
  /\ \A p \in live : pc[p] # "out" => job[p] \in Job
  /\ \A p \in live : pc[p] \notin {"out", "wait", "leave"} => p \in holders
  /\ \A g \in Grants : GrantInv(g)
  /\ SuccessIsReceipted /\ LocalEndsAreBacked
  /\ \A p \in holders : pc[p] \notin {"out", "wait", "start", "leave"} => PlaceInv(p)

ExecutorInv == InvAmong(Procs)
-----------------------------------------------------------------------------
(* What the package's documents say, and the code does not keep *)

\* "Dependency failure or process loss leaves the operation resumable"
\* (TOOL.md), of executions: the same as RollbackCancellationCompletes.
ExecutionCancellationCompletes == \A g \in Executions : Resumed(g)

\* "Provider rejection known to precede an effect may be recorded as failed"
\* (TOOL.md): a recorded rejection is of a request that had no effect.
RejectionPrecedesEffect ==
  \A g \in Grants :
    outcome[g] # None /\ outcome[g].by = "rejected" => request[g] # "landed"

\* Reconciliation "records either the exact proposed post-image or the
\* verified absence of effect" (README.md): what it recorded as absent is.
NoEffectIsTrue ==
  \A g \in Grants :
    outcome[g] # None /\ outcome[g].by = "no-effect" => request[g] # "landed"

\* Reconciliation "is available only after a durable claim without a receipt.
\* ... exact pre-image: record a verified no-effect failure" (TOOL.md): the
\* control plane's record of such an execution is open, or this very failure.
ReconciliationCanFinish ==
  \A g \in Executions :
    intent[g] \in {"claimed", "ambiguous"} /\ receipt[g] = None /\ holders = {} =>
      outcome[g] = None \/ outcome[g].by = "no-effect"

\* "Process loss after claim is ambiguous and requires reconciliation"
\* (TOOL.md): what a lost process leaves can be read.
LossIsReconcilable ==
  \A g \in Executions : intent[g] \in {"claimed", "ambiguous"} => receipt[g] # Torn

=============================================================================
