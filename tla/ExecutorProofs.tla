--------------------------- MODULE ExecutorProofs ---------------------------
(***************************************************************************)
(* For any executors, grants, faults and outside writes: the records of a  *)
(* grant agree with each other and with what reached the provider.         *)
(***************************************************************************)
EXTENDS ExecutorOnLock, TLAPS

-----------------------------------------------------------------------------
(* Records and jobs *)

\* What a job is about.
LEMMA Jobs ==
  ASSUME NEW j \in Job
  PROVE  /\ j.grant \in Grants /\ j.op \in {"execute", "reconcile", "rollback"}
         /\ j.op = "rollback" <=> j.grant \in Rollbacks
         /\ j.op # "rollback" => j.grant \in Executions
BY ExecutorAssumption DEF Job, Grants

LEMMA Receipts ==
  ASSUME NEW status \in {"executed", "verification_failed", "rolled_back"},
         NEW by \in {"ack", "reconciled"}, NEW post \in Values
  PROVE  LET r == [status |-> status, by |-> by, post |-> post]
         IN  r \in Receipt /\ r # None /\ r # Torn /\ r.status = status /\ r.by = by /\ r.post = post
<1>1. [status |-> status, by |-> by, post |-> post] \in Receipt
  BY DEF Receipt
<1> QED
  BY <1>1, RecordAssumption

\* What the control plane is told of a receipt.
LEMMA OutcomesOfReceipts ==
  ASSUME NEW r \in Receipt
  PROVE  /\ OutcomeOf(r) \in Outcome /\ OutcomeOf(r) # None
         /\ OutcomeOf(r).status \in {"executed", "failed"} /\ OutcomeOf(r).post = r.post
         /\ OutcomeOf(r).status = "failed" <=> r.status = "verification_failed"
         /\ r # None /\ r # Torn
<1>1. OutcomeOf(r) \in Outcome
  BY DEF OutcomeOf, Outcome, Receipt
<1>2. /\ OutcomeOf(r).status \in {"executed", "failed"} /\ OutcomeOf(r).post = r.post
      /\ OutcomeOf(r).status = "failed" <=> r.status = "verification_failed"
  BY DEF OutcomeOf
<1> QED
  BY <1>1, <1>2, RecordAssumption

LEMMA OtherOutcomes ==
  ASSUME NEW post \in Values \cup {None}
  PROVE  /\ [status |-> "cancelled", by |-> "ended", post |-> None] \in Outcome
         /\ [status |-> "failed", by |-> "rejected", post |-> None] \in Outcome
         /\ [status |-> "failed", by |-> "no-effect", post |-> post] \in Outcome
         /\ None \notin Outcome
BY RecordAssumption DEF Outcome

-----------------------------------------------------------------------------
(* The invariant, grant by grant                                            *)

\* Everything ExecutorInv says of one grant.
OneGrant(g) ==
  /\ GrantInv(g)
  /\ outcome[g] # None /\ outcome[g].status = "executed" =>
       /\ receipt[g] \in Receipt /\ OutcomeOf(receipt[g]) = outcome[g]
       /\ outcome[g].post = To[g]
  /\ intent[g] = "terminal_no_effect" =>
       /\ receipt[g] = None
       /\ outcome[g] # None /\ outcome[g].status \in {"cancelled", "failed"}
  /\ intent[g] = "terminal" => receipt[g] \in Receipt

Around == {"out", "wait", "start", "leave"}

\* The part about the one operation that holds the resource.
Operating(live) ==
  /\ holders \subseteq live
  /\ \A p, q \in holders : p = q
  /\ \A p \in live : pc[p] # "out" => job[p] \in Job
  /\ \A p \in live : pc[p] \notin {"out", "wait", "leave"} => p \in holders
  /\ \A p \in holders : pc[p] \notin Around => PlaceInv(p)

LEMMA InvInParts ==
  ASSUME NEW live \in SUBSET Procs
  PROVE  InvAmong(live) <=> TypeOK /\ Operating(live) /\ \A g \in Grants : OneGrant(g)
BY DEF InvAmong, Operating, OneGrant, SuccessIsReceipted, LocalEndsAreBacked, Around

\* A grant whose records stay as they are; a request in flight may land.
Kept(g) ==
  /\ intent'[g] = intent[g] /\ receipt'[g] = receipt[g] /\ outcome'[g] = outcome[g]
  /\ (g \in claims') = (g \in claims) /\ (g \in opened') = (g \in opened)
  /\ sent'[g] = sent[g] /\ (request'[g] = "none") = (request[g] = "none")

LEMMA KeptGrants ==
  ASSUME NEW g \in Grants, OneGrant(g), Kept(g)
  PROVE  OneGrant(g)'
BY DEF OneGrant, GrantInv, Kept, Untouched, OutcomeOf

LEMMA KeptPlaces ==
  ASSUME NEW p \in Procs, PlaceInv(p), Kept(G(p)),
         job'[p] = job[p], pc'[p] = pc[p], draft'[p] = draft[p]
  PROVE  PlaceInv(p)'
BY DEF PlaceInv, Kept, G, Untouched, BeforeEffect

LEMMA Initially == Init => ExecutorInv
<1> SUFFICES ASSUME Init PROVE ExecutorInv
  OBVIOUS
<1>1. TypeOK
  BY ExecutorAssumption DEF Init, TypeOK, Places, Intents, Grants
<1>2. Operating(Procs)
  BY DEF Init, Operating
<1>3. \A g \in Grants : OneGrant(g)
  BY RecordAssumption, ExecutorAssumption DEF Init, OneGrant, GrantInv, Untouched
<1> QED
  BY <1>1, <1>2, <1>3, InvInParts DEF ExecutorInv

-----------------------------------------------------------------------------
(* A step of the process that holds the resource                            *)

LEMMA HolderSteps ==
  ASSUME NEW live \in SUBSET Procs, InvAmong(live), NEW p \in holders, pc[p] # "out", holders' = holders, job' = job, TypeOK',
         \A q \in Procs \ {p} : pc'[q] = pc[q], NEW g \in Grants,
         \A h \in Grants \ {g} : Kept(h), OneGrant(g)',
         pc'[p] \notin Around => PlaceInv(p)'
  PROVE  InvAmong(live)'
<1>1. p \in Procs
  BY DEF InvAmong, TypeOK
<1>2. \A h \in Grants : OneGrant(h)'
  BY KeptGrants, InvInParts
<1>3. Operating(live)'
  <2>1. \A q \in holders : q = p
    BY InvInParts DEF Operating
  <2> QED
    BY <1>1, <2>1, InvInParts DEF Operating
<1> QED
  BY <1>2, <1>3 DEF InvAmong, Operating, OneGrant, SuccessIsReceipted, LocalEndsAreBacked, Around

LEMMA GrantOfHolder ==
  ASSUME NEW live \in SUBSET Procs, InvAmong(live), NEW p \in holders, pc[p] # "out"
  PROVE  /\ p \in Procs /\ job[p] \in Job /\ G(p) \in Grants /\ OneGrant(G(p)) /\ GrantInv(G(p))
         /\ Op(p) = "rollback" <=> G(p) \in Rollbacks
         /\ Op(p) # "rollback" => G(p) \in Executions
         /\ pc[p] \notin Around => PlaceInv(p)
BY Jobs DEF InvAmong, TypeOK, G, Op, OneGrant, SuccessIsReceipted, LocalEndsAreBacked, Around

\* It only moves on.
LEMMA PassSteps ==
  ASSUME NEW live \in SUBSET Procs, InvAmong(live), NEW p \in holders, pc[p] # "out", holders' = holders,
         NEW place \in Places, Pass(p, place), place \notin Around => PlaceInv(p)'
  PROVE  InvAmong(live)'
<1>1. p \in Procs /\ G(p) \in Grants /\ OneGrant(G(p))
  BY GrantOfHolder
<1>2. TypeOK' /\ pc'[p] = place /\ \A q \in Procs \ {p} : pc'[q] = pc[q]
  BY <1>1 DEF InvAmong, TypeOK, Pass, GoTo, files, authority, control, provider
<1>3. \A h \in Grants : Kept(h)
  BY DEF Pass, files, control, provider, Kept
<1>4. PICK g \in Grants : OneGrant(g)
  BY <1>1
<1>5. OneGrant(g)'
  BY <1>3, <1>4, KeptGrants
<1> QED
  BY <1>2, <1>3, <1>5, HolderSteps DEF Pass, GoTo

\* It writes its grant's intent.
LEMMA IntentSteps ==
  ASSUME NEW live \in SUBSET Procs, InvAmong(live), NEW p \in holders, pc[p] # "out", holders' = holders, NEW g \in Grants,
         NEW s \in Intents, NEW place \in Places, WriteIntent(p, g, s, place),
         OneGrant(g)', place \notin Around => PlaceInv(p)'
  PROVE  InvAmong(live)'
<1>1. p \in Procs
  BY GrantOfHolder
<1>2. TypeOK' /\ pc'[p] = place /\ \A q \in Procs \ {p} : pc'[q] = pc[q]
  BY <1>1 DEF InvAmong, TypeOK, WriteIntent, GoTo, authority, control, provider
<1>3. \A h \in Grants \ {g} : Kept(h)
  BY DEF WriteIntent, control, provider, Kept, InvAmong, TypeOK
<1> QED
  BY <1>2, <1>3, HolderSteps DEF WriteIntent, GoTo

\* It drafts a receipt.
LEMMA DraftSteps ==
  ASSUME NEW live \in SUBSET Procs, InvAmong(live), NEW p \in holders, pc[p] # "out", holders' = holders,
         NEW status \in {"executed", "verification_failed", "rolled_back"},
         NEW by \in {"ack", "reconciled"}, NEW post \in Values,
         status # "verification_failed" => post = To[G(p)],
         intent[G(p)] \in {"claimed", "ambiguous", "effect_started"},
         Draft(p, status, by, post)
  PROVE  InvAmong(live)'
<1>1. p \in Procs /\ G(p) \in Grants /\ OneGrant(G(p))
  BY GrantOfHolder
<1> DEFINE r == [status |-> status, by |-> by, post |-> post]
<1>2. r \in Receipt /\ r.status = status /\ r.post = post
  BY Receipts
<1>3. draft' = [draft EXCEPT ![p] = r] /\ pc' = [pc EXCEPT ![p] = "receipt"]
  BY DEF Draft
<1>4. TypeOK' /\ pc'[p] = "receipt" /\ draft'[p] = r /\ \A q \in Procs \ {p} : pc'[q] = pc[q]
  <2> HIDE DEF r
  <2> QED
    BY <1>1, <1>2, <1>3 DEF InvAmong, TypeOK, Draft, Places, files, authority, control, provider
<1>5. \A h \in Grants : Kept(h)
  BY DEF Draft, files, control, provider, Kept
<1>6. PICK h \in Grants : OneGrant(h)
  BY <1>1
<1>7. OneGrant(h)'
  BY <1>5, <1>6, KeptGrants
<1>8. PlaceInv(p)'
  <2> HIDE DEF r
  <2>1. G(p)' = G(p)
    BY DEF Draft, G
  <2> QED
    BY <1>2, <1>4, <2>1 DEF PlaceInv, Draft, files, BeforeEffect
<1> QED
  BY <1>4, <1>5, <1>7, <1>8, HolderSteps DEF Draft

\* It tells the control plane how its grant ended.
LEMMA OutcomeSteps ==
  ASSUME NEW live \in SUBSET Procs, InvAmong(live), NEW p \in holders, pc[p] # "out", holders' = holders, NEW g \in Grants,
         NEW o \in Outcome, NEW place \in Places, outcome' = [outcome EXCEPT ![g] = o],
         GoTo(p, place), UNCHANGED <<files, authority, claims, opened, provider, faults>>,
         OneGrant(g)', place \notin Around => PlaceInv(p)'
  PROVE  InvAmong(live)'
<1>1. p \in Procs
  BY GrantOfHolder
<1>2. TypeOK' /\ pc'[p] = place /\ \A q \in Procs \ {p} : pc'[q] = pc[q]
  BY <1>1 DEF InvAmong, TypeOK, GoTo, files, authority, provider
<1>3. \A h \in Grants \ {g} : Kept(h)
  BY DEF files, provider, Kept, InvAmong, TypeOK
<1> QED
  BY <1>2, <1>3, HolderSteps DEF GoTo

\* The places from which nothing is asked.
LEMMA Stops ==
  ASSUME NEW live \in SUBSET Procs, InvAmong(live), NEW p \in holders, pc[p] # "out", holders' = holders, Stop(p)
  PROVE  InvAmong(live)'
BY PassSteps DEF Stop, Around, Places

-----------------------------------------------------------------------------
(* Action by action                                                         *)

LEMMA Starting ==
  ASSUME NEW live \in SUBSET Procs, InvAmong(live), NEW p \in holders, holders' = holders,
         Enter(p) \/ Settle(p) \/ Unreadable(p) \/ StartExecute(p)
  PROVE  InvAmong(live)'
<1> DEFINE g == G(p)
<1>0. pc[p] # "out"
  BY DEF Enter, Settle, Unreadable, StartExecute, Fresh, Doing
<1>1. p \in Procs /\ g \in Grants /\ GrantInv(g) /\ OneGrant(g)
  BY <1>0, GrantOfHolder
<1>2. CASE Enter(p)
  BY <1>0, <1>2, PassSteps DEF Enter, Around, Places
<1>3. CASE Settle(p)
  <2>1. PlaceInv(p)'
    <3>1. g' = g /\ pc'[p] = "settle" /\ intent' = intent /\ receipt' = receipt /\ receipt[g] \in Receipt
      BY <1>1, <1>3 DEF Settle, Pass, GoTo, files, G, InvAmong, TypeOK
    <3>2. intent[g] \notin Untouched \cup {"terminal_no_effect"}
      BY <1>1, <3>1, RecordAssumption DEF GrantInv
    <3> HIDE DEF g
    <3> QED
      BY <3>1, <3>2 DEF PlaceInv, BeforeEffect, g
  <2> QED
    BY <1>0, <1>3, <2>1, PassSteps DEF Settle, Places
<1>4. CASE Unreadable(p)
  BY <1>0, <1>4, Stops DEF Unreadable
<1>5. CASE StartExecute(p)
  <2>1. CASE Stop(p)
    BY <1>0, <2>1, Stops
  <2>2. CASE intent[g] = "cancellation_pending" /\ Pass(p, "cancel")
    <3>1. PlaceInv(p)'
      <4>1. g' = g /\ pc'[p] = "cancel" /\ intent' = intent
        BY <1>1, <2>2 DEF Pass, GoTo, files, G, InvAmong, TypeOK
      <4> QED
        BY <2>2, <4>1 DEF PlaceInv, BeforeEffect
    <3> QED
      BY <1>0, <2>2, <3>1, PassSteps DEF Places
  <2>3. CASE intent[g] \in Restartable /\ WriteIntent(p, g, "prepared", "claim")
    <3>1. /\ g' = g /\ pc'[p] = "claim" /\ intent'[g] = "prepared" /\ receipt' = receipt
          /\ claims' = claims /\ opened' = opened /\ outcome' = outcome /\ sent' = sent /\ request' = request
      BY <1>1, <2>3 DEF WriteIntent, GoTo, control, provider, G, InvAmong, TypeOK
    <3>2. receipt[g] = None /\ outcome[g] = None /\ sent[g] = 0
      BY <1>1, <2>3 DEF GrantInv, Restartable, Untouched
    <3>3. PlaceInv(p)'
      BY <3>1, <3>2 DEF PlaceInv, BeforeEffect
    <3>4. PICK h \in Grants : h = g
      BY <1>1
    <3>5. OneGrant(h)'
      BY <1>1, <3>1, <3>2, <3>4 DEF OneGrant, GrantInv, Untouched
    <3> QED
      BY <1>0, <2>3, <3>3, <3>4, <3>5, IntentSteps DEF Places, Intents
  <2> QED
    BY <1>5, <2>1, <2>2, <2>3 DEF StartExecute
<1> QED
  BY <1>2, <1>3, <1>4, <1>5

\* A process in the middle of an operation holds the resource.
LEMMA Actor ==
  ASSUME NEW live \in SUBSET Procs, InvAmong(live), NEW p \in live, pc[p] \notin {"out", "wait", "leave"}
  PROVE  /\ p \in holders /\ pc[p] # "out"
         /\ \E g \in Grants : /\ g = G(p) /\ OneGrant(g) /\ GrantInv(g)
                              /\ Op(p) = "rollback" <=> g \in Rollbacks
                              /\ Op(p) # "rollback" => g \in Executions
                              /\ g \in Rollbacks => g \notin Executions
         /\ pc[p] # "start" => PlaceInv(p)
<1>1. p \in holders
  BY DEF InvAmong
<1> QED
  BY <1>1, GrantOfHolder, ExecutorAssumption DEF Around

LEMMA StartsReconciling ==
  ASSUME NEW live \in SUBSET Procs, InvAmong(live), NEW p \in live, holders' = holders, StartReconcile(p)
  PROVE  InvAmong(live)'
<1>0. pc[p] = "start" /\ receipt[G(p)] = None /\ Op(p) = "reconcile"
  BY DEF StartReconcile, Fresh, Doing
<1>1. p \in holders /\ pc[p] # "out"
  BY <1>0, Actor
<1>2. PICK g \in Grants : g = G(p) /\ g \in Executions
  BY <1>0, Actor
<1>3. CASE Stop(p)
  BY <1>1, <1>3, Stops
<1>4. CASE intent[g] \in {"claimed", "ambiguous"} /\ world = To[g] /\ Draft(p, "executed", "reconciled", world)
  <2>1. world \in Values
    BY DEF InvAmong, TypeOK
  <2> QED
    BY <1>1, <1>2, <1>4, <2>1, DraftSteps
<1>5. CASE intent[g] \in {"claimed", "ambiguous"} /\ Pass(p, "no-effect")
  <2>1. G(p)' = g /\ pc'[p] = "no-effect" /\ intent' = intent /\ receipt' = receipt
    BY <1>2, <1>5 DEF Pass, GoTo, files, G, InvAmong, TypeOK
  <2>2. PlaceInv(p)'
    BY <1>0, <1>2, <1>5, <2>1 DEF PlaceInv, BeforeEffect
  <2> QED
    BY <1>1, <1>5, <2>2, PassSteps DEF Places
<1> QED
  BY <1>2, <1>3, <1>4, <1>5 DEF StartReconcile

\* A rollback that was claimed and has no receipt has no outcome either.
LEMMA ClaimedRollbacks ==
  ASSUME TypeOK, NEW g \in Rollbacks, g \in Grants, OneGrant(g), g \notin Executions,
         intent[g] = "claimed", receipt[g] = None
  PROVE  sent[g] = 0 /\ outcome[g] = None
<1>1. sent[g] = 0
  BY DEF OneGrant, GrantInv
<1>2. outcome[g] # None => outcome[g].status \in {"executed", "failed", "cancelled"}
  BY DEF TypeOK, Outcome
<1>3. receipt[g] \notin Receipt
  BY RecordAssumption
<1> QED
  BY <1>1, <1>2, <1>3 DEF OneGrant, GrantInv

LEMMA StartsRollingBack ==
  ASSUME NEW live \in SUBSET Procs, InvAmong(live), NEW p \in live, holders' = holders, StartRollback(p)
  PROVE  InvAmong(live)'
<1>0. pc[p] = "start" /\ receipt[G(p)] = None /\ Op(p) = "rollback"
  BY DEF StartRollback, Fresh, Doing
<1>1. p \in holders /\ pc[p] # "out" /\ TypeOK
  BY <1>0, Actor DEF InvAmong
<1>2. PICK g \in Grants : g = G(p) /\ g \in Rollbacks /\ g \notin Executions /\ OneGrant(g) /\ GrantInv(g)
  BY <1>0, Actor
<1>3. CASE Stop(p)
  BY <1>1, <1>3, Stops
<1>4. CASE intent[g] = "cancellation_pending" /\ Pass(p, "cancel")
  <2>1. G(p)' = g /\ pc'[p] = "cancel" /\ intent' = intent
    BY <1>2, <1>4 DEF Pass, GoTo, files, G, InvAmong, TypeOK
  <2>2. PlaceInv(p)'
    BY <1>4, <2>1 DEF PlaceInv, BeforeEffect
  <2> QED
    BY <1>1, <1>4, <2>2, PassSteps DEF Places
<1>5. CASE /\ intent[g] \in {"effect_started", "ambiguous", "claimed"} /\ world = To[g]
           /\ Draft(p, "rolled_back", "reconciled", world)
  <2>1. world \in Values
    BY <1>1 DEF TypeOK
  <2> QED
    BY <1>1, <1>2, <1>5, <2>1, DraftSteps
<1>6. CASE intent[g] = "none" /\ WriteIntent(p, g, "prepared", "claim")
  <2>1. /\ G(p)' = g /\ pc'[p] = "claim" /\ intent'[g] = "prepared" /\ receipt' = receipt
        /\ claims' = claims /\ opened' = opened /\ outcome' = outcome /\ sent' = sent /\ request' = request
    BY <1>1, <1>2, <1>6 DEF WriteIntent, GoTo, control, provider, G, TypeOK
  <2>2. receipt[g] = None /\ outcome[g] = None /\ sent[g] = 0
    BY <1>2, <1>6 DEF GrantInv, Untouched
  <2>3. PlaceInv(p)'
    BY <2>1, <2>2 DEF PlaceInv, BeforeEffect
  <2>4. OneGrant(g)'
    BY <1>2, <2>1, <2>2 DEF OneGrant, GrantInv, Untouched
  <2> QED
    BY <1>1, <1>6, <2>3, <2>4, IntentSteps DEF Places, Intents
<1>7. CASE intent[g] = "prepared" /\ Pass(p, "claim")
  <2>1. G(p)' = g /\ pc'[p] = "claim" /\ intent' = intent /\ sent' = sent
    BY <1>1, <1>2, <1>7 DEF Pass, GoTo, files, provider, G, TypeOK
  <2>2. sent[g] = 0
    BY <1>2, <1>7 DEF GrantInv, Untouched
  <2>3. PlaceInv(p)'
    BY <1>7, <2>1, <2>2 DEF PlaceInv, BeforeEffect
  <2> QED
    BY <1>1, <1>7, <2>3, PassSteps DEF Places
<1>8. CASE intent[g] = "claimed" /\ Pass(p, "revalidate")
  <2>1. /\ G(p)' = g /\ pc'[p] = "revalidate" /\ intent' = intent /\ sent' = sent
        /\ receipt' = receipt /\ outcome' = outcome
    BY <1>1, <1>2, <1>8 DEF Pass, GoTo, files, control, provider, G, TypeOK
  <2>2. sent[g] = 0 /\ outcome[g] = None /\ receipt[g] = None
    BY <1>0, <1>1, <1>2, <1>8, ClaimedRollbacks
  <2>3. PlaceInv(p)'
    BY <1>8, <2>1, <2>2 DEF PlaceInv, BeforeEffect
  <2> QED
    BY <1>1, <1>8, <2>3, PassSteps DEF Places
<1> QED
  BY <1>2, <1>3, <1>4, <1>5, <1>6, <1>7, <1>8 DEF StartRollback

LEMMA Claiming ==
  ASSUME NEW live \in SUBSET Procs, InvAmong(live), NEW p \in live, holders' = holders, ClaimGrant(p) \/ KeepClaim(p)
  PROVE  InvAmong(live)'
<1>0. pc[p] \in {"claim", "keep"}
  BY DEF ClaimGrant, KeepClaim, Doing
<1>1. p \in holders /\ pc[p] # "out" /\ TypeOK /\ PlaceInv(p)
  BY <1>0, Actor DEF InvAmong
<1>2. PICK g \in Grants : g = G(p) /\ OneGrant(g) /\ GrantInv(g)
  BY <1>0, Actor
<1>3. intent[g] = "prepared" /\ sent[g] = 0 /\ receipt[g] = None /\ outcome[g] = None
  BY <1>0, <1>1, <1>2 DEF PlaceInv, BeforeEffect, GrantInv, Untouched
<1>4. CASE ClaimGrant(p) /\ Stop(p)
  BY <1>1, <1>4, Stops
<1>5. CASE ClaimGrant(p) /\ ~Stop(p)
  <2>1. /\ claims' = claims \cup {g} /\ GoTo(p, "keep")
        /\ UNCHANGED <<files, authority, opened, outcome, provider, faults>>
    BY <1>2, <1>5 DEF ClaimGrant
  <2>2. /\ G(p)' = g /\ pc'[p] = "keep" /\ \A q \in Procs \ {p} : pc'[q] = pc[q]
        /\ intent' = intent /\ receipt' = receipt /\ outcome' = outcome /\ opened' = opened
        /\ sent' = sent /\ request' = request /\ job' = job
    BY <1>1, <1>2, <2>1 DEF GoTo, files, provider, G, TypeOK
  <2>3. TypeOK'
    BY <1>1, <2>1 DEF TypeOK, GoTo, files, authority, provider, Places
  <2>4. \A h \in Grants \ {g} : Kept(h)
    BY <2>1, <2>2 DEF Kept
  <2>5. OneGrant(g)'
    BY <1>2, <1>3, <2>1, <2>2 DEF OneGrant, GrantInv, Untouched
  <2>6. PlaceInv(p)'
    BY <1>3, <2>1, <2>2 DEF PlaceInv, BeforeEffect
  <2> QED
    BY <1>1, <2>2, <2>3, <2>4, <2>5, <2>6, HolderSteps
<1>6. CASE KeepClaim(p)
  <2>1. pc[p] = "keep" /\ WriteIntent(p, g, "claimed", "revalidate")
    BY <1>2, <1>6 DEF KeepClaim, Doing
  <2>2. /\ G(p)' = g /\ pc'[p] = "revalidate" /\ intent'[g] = "claimed" /\ receipt' = receipt
        /\ claims' = claims /\ opened' = opened /\ outcome' = outcome /\ sent' = sent /\ request' = request
    BY <1>1, <1>2, <2>1 DEF WriteIntent, GoTo, control, provider, G, TypeOK
  <2>3. g \in claims
    BY <1>1, <1>2, <2>1 DEF PlaceInv
  <2>4. PlaceInv(p)'
    BY <1>3, <2>2 DEF PlaceInv, BeforeEffect
  <2>5. OneGrant(g)'
    BY <1>2, <1>3, <2>2, <2>3 DEF OneGrant, GrantInv, Untouched
  <2> QED
    BY <1>1, <2>1, <2>4, <2>5, IntentSteps DEF Places, Intents
<1> QED
  BY <1>4, <1>5, <1>6

LEMMA Revalidating ==
  ASSUME NEW live \in SUBSET Procs, InvAmong(live), NEW p \in live, holders' = holders, Revalidate(p)
  PROVE  InvAmong(live)'
<1>0. pc[p] = "revalidate"
  BY DEF Revalidate, Doing
<1>1. p \in holders /\ pc[p] # "out" /\ TypeOK /\ PlaceInv(p)
  BY <1>0, Actor DEF InvAmong
<1>2. PICK g \in Grants : g = G(p) /\ OneGrant(g) /\ GrantInv(g)
  BY <1>0, Actor
<1>3. intent[g] = "claimed" /\ sent[g] = 0 /\ receipt[g] = None /\ outcome[g] = None
  BY <1>0, <1>1, <1>2 DEF PlaceInv, BeforeEffect
<1>4. CASE Stop(p)
  BY <1>1, <1>4, Stops
<1>5. CASE WriteIntent(p, g, "cancellation_pending", "cancel")
  <2>1. /\ G(p)' = g /\ pc'[p] = "cancel" /\ intent'[g] = "cancellation_pending" /\ receipt' = receipt
        /\ claims' = claims /\ opened' = opened /\ outcome' = outcome /\ sent' = sent /\ request' = request
    BY <1>1, <1>2, <1>5 DEF WriteIntent, GoTo, control, provider, G, TypeOK
  <2>2. PlaceInv(p)'
    BY <2>1 DEF PlaceInv, BeforeEffect
  <2>3. OneGrant(g)'
    BY <1>2, <1>3, <2>1 DEF OneGrant, GrantInv, Untouched
  <2> QED
    BY <1>1, <1>5, <2>2, <2>3, IntentSteps DEF Places, Intents
<1>6. CASE Pass(p, "announce")
  <2>1. G(p)' = g /\ pc'[p] = "announce" /\ intent' = intent /\ sent' = sent /\ receipt' = receipt
    BY <1>1, <1>2, <1>6 DEF Pass, GoTo, files, provider, G, TypeOK
  <2>2. PlaceInv(p)'
    BY <1>3, <2>1 DEF PlaceInv, BeforeEffect
  <2> QED
    BY <1>1, <1>6, <2>2, PassSteps DEF Places
<1> QED
  BY <1>2, <1>4, <1>5, <1>6 DEF Revalidate

\* What a terminal record of a grant must agree with.
LEMMA Ending ==
  ASSUME NEW g \in Grants, OneGrant(g), NEW o \in Outcome, outcome'[g] = o,
         intent' = intent, receipt' = receipt, claims' = claims, opened' = opened,
         sent' = sent, request' = request, g \in claims, intent[g] \notin {"none", "prepared"},
         o.status = "cancelled" => intent[g] = "cancellation_pending",
         o.status # "cancelled" => intent[g] # "cancellation_pending",
         o.status = "executed" =>
           receipt[g] \in Receipt /\ OutcomeOf(receipt[g]) = o /\ intent[g] # "terminal_no_effect",
         o.status = "failed" => receipt[g] # None \/ g \in Executions \/ sent[g] = 1
  PROVE  OneGrant(g)'
<1>1. o # None /\ o.status \in {"executed", "failed", "cancelled"}
  BY RecordAssumption DEF Outcome
<1>2. o.status = "executed" => o.post = To[g]
  BY OutcomesOfReceipts DEF OneGrant, GrantInv
<1> QED
  BY <1>1, <1>2 DEF OneGrant, GrantInv, Untouched

LEMMA Cancelling ==
  ASSUME NEW live \in SUBSET Procs, InvAmong(live), NEW p \in live, holders' = holders, Cancel(p) \/ Nullify(p)
  PROVE  InvAmong(live)'
<1>0. pc[p] \in {"cancel", "nullify"}
  BY DEF Cancel, Nullify, Doing
<1>1. p \in holders /\ pc[p] # "out" /\ TypeOK /\ PlaceInv(p)
  BY <1>0, Actor DEF InvAmong
<1>2. PICK g \in Grants : g = G(p) /\ OneGrant(g) /\ GrantInv(g)
  BY <1>0, Actor
<1> DEFINE o == [status |-> "cancelled", by |-> "ended", post |-> None]
<1>3. o \in Outcome /\ o # None /\ o.status = "cancelled"
  BY OtherOutcomes
<1>4. CASE Cancel(p) /\ Stop(p)
  BY <1>1, <1>4, Stops
<1>5. CASE Cancel(p) /\ ~Stop(p)
  <2> HIDE DEF o
  <2>1. /\ pc[p] = "cancel" /\ g \in claims /\ outcome' = [outcome EXCEPT ![g] = o]
        /\ GoTo(p, "nullify") /\ UNCHANGED <<files, authority, claims, opened, provider, faults>>
    BY <1>2, <1>5 DEF Cancel, Doing, Record, Recordable, o
  <2>2. intent[g] = "cancellation_pending"
    BY <1>1, <1>2, <2>1 DEF PlaceInv
  <2>3. receipt[g] = None
    BY <1>2, <2>2 DEF GrantInv, Untouched
  <2>4. /\ G(p)' = g /\ pc'[p] = "nullify" /\ intent' = intent /\ receipt' = receipt /\ outcome'[g] = o
        /\ claims' = claims /\ opened' = opened /\ sent' = sent /\ request' = request
    BY <1>1, <1>2, <2>1 DEF GoTo, files, provider, G, TypeOK
  <2>5. OneGrant(g)'
    BY <1>2, <1>3, <2>1, <2>2, <2>4, Ending
  <2>6. PlaceInv(p)'
    BY <1>3, <2>2, <2>3, <2>4 DEF PlaceInv, BeforeEffect
  <2> QED
    BY <1>1, <1>3, <2>1, <2>5, <2>6, OutcomeSteps DEF Places
<1>6. CASE Nullify(p)
  <2>1. pc[p] = "nullify" /\ WriteIntent(p, g, "terminal_no_effect", "leave")
    BY <1>2, <1>6 DEF Nullify, Doing
  <2>2. /\ intent'[g] = "terminal_no_effect" /\ receipt' = receipt
        /\ claims' = claims /\ opened' = opened /\ outcome' = outcome /\ sent' = sent /\ request' = request
    BY <1>1, <1>2, <2>1 DEF WriteIntent, GoTo, control, provider, TypeOK
  <2>3. /\ receipt[g] = None /\ outcome[g] # None
        /\ \/ outcome[g].status = "cancelled" /\ intent[g] = "cancellation_pending"
           \/ outcome[g].status = "failed" /\ intent[g] \in {"claimed", "ambiguous"}
    BY <1>1, <1>2, <2>1 DEF PlaceInv
  <2>4. OneGrant(g)'
    BY <1>2, <2>2, <2>3 DEF OneGrant, GrantInv, Untouched
  <2> QED
    BY <1>1, <2>1, <2>4, IntentSteps DEF Places, Intents, Around
<1> QED
  BY <1>4, <1>5, <1>6

LEMMA Announcing ==
  ASSUME NEW live \in SUBSET Procs, InvAmong(live), NEW p \in live, holders' = holders, Announce(p) \/ StartEffect(p)
  PROVE  InvAmong(live)'
<1>0. pc[p] \in {"announce", "effect"}
  BY DEF Announce, StartEffect, Doing
<1>1. p \in holders /\ pc[p] # "out" /\ TypeOK /\ PlaceInv(p)
  BY <1>0, Actor DEF InvAmong
<1>2. PICK g \in Grants : /\ g = G(p) /\ OneGrant(g) /\ GrantInv(g)
                          /\ Op(p) = "rollback" <=> g \in Rollbacks
  BY <1>0, Actor
<1>3. intent[g] = "claimed" /\ sent[g] = 0 /\ receipt[g] = None
  BY <1>0, <1>1, <1>2 DEF PlaceInv, BeforeEffect
<1>4. CASE Announce(p) /\ Stop(p)
  BY <1>1, <1>4, Stops
<1>5. CASE Announce(p) /\ ~Stop(p)
  <2> DEFINE place == IF g \in Rollbacks THEN "effect" ELSE "mutate"
  <2>1. /\ opened' = opened \cup {g} /\ GoTo(p, place)
        /\ UNCHANGED <<files, authority, claims, outcome, provider, faults>>
    BY <1>2, <1>5 DEF Announce
  <2>2. /\ G(p)' = g /\ pc'[p] = place /\ \A q \in Procs \ {p} : pc'[q] = pc[q]
        /\ intent' = intent /\ receipt' = receipt /\ outcome' = outcome /\ claims' = claims
        /\ sent' = sent /\ request' = request /\ job' = job
    BY <1>1, <1>2, <2>1 DEF GoTo, files, provider, G, TypeOK
  <2>3. TypeOK'
    BY <1>1, <2>1 DEF TypeOK, GoTo, files, authority, provider, Places
  <2>4. \A h \in Grants \ {g} : Kept(h)
    BY <2>1, <2>2 DEF Kept
  <2>5. OneGrant(g)'
    BY <1>2, <1>3, <2>1, <2>2 DEF OneGrant, GrantInv, Untouched
  <2>6. PlaceInv(p)'
    BY <1>3, <2>1, <2>2 DEF PlaceInv, BeforeEffect
  <2> QED
    BY <1>1, <2>2, <2>3, <2>4, <2>5, <2>6, HolderSteps
<1>6. CASE StartEffect(p)
  <2>1. pc[p] = "effect" /\ WriteIntent(p, g, "effect_started", "mutate")
    BY <1>2, <1>6 DEF StartEffect, Doing
  <2>2. /\ G(p)' = g /\ pc'[p] = "mutate" /\ intent'[g] = "effect_started" /\ receipt' = receipt
        /\ claims' = claims /\ opened' = opened /\ outcome' = outcome /\ sent' = sent /\ request' = request
    BY <1>1, <1>2, <2>1 DEF WriteIntent, GoTo, control, provider, G, TypeOK
  <2>3. g \in opened /\ g \in Rollbacks
    BY <1>1, <1>2, <2>1 DEF PlaceInv
  <2>4. PlaceInv(p)'
    BY <1>3, <2>2, <2>3 DEF PlaceInv, BeforeEffect
  <2>5. OneGrant(g)'
    BY <1>2, <1>3, <2>2, <2>3 DEF OneGrant, GrantInv, Untouched
  <2> QED
    BY <1>1, <2>1, <2>4, <2>5, IntentSteps DEF Places, Intents
<1> QED
  BY <1>4, <1>5, <1>6

LEMMA Mutating ==
  ASSUME NEW live \in SUBSET Procs, InvAmong(live), NEW p \in live, holders' = holders, Mutate(p)
  PROVE  InvAmong(live)'
<1>0. pc[p] = "mutate"
  BY DEF Mutate, Doing
<1>1. p \in holders /\ pc[p] # "out" /\ TypeOK /\ PlaceInv(p)
  BY <1>0, Actor DEF InvAmong
<1>2. PICK g \in Grants : g = G(p) /\ OneGrant(g) /\ GrantInv(g) /\ (g \in Rollbacks => g \notin Executions)
  BY <1>0, Actor
<1>3. /\ sent[g] = 0 /\ receipt[g] = None /\ g \in opened
      /\ intent[g] = (IF g \in Rollbacks THEN "effect_started" ELSE "claimed")
  BY <1>0, <1>1, <1>2 DEF PlaceInv, BeforeEffect
<1>4. /\ request' = [request EXCEPT ![g] = "flying"] /\ sent' = [sent EXCEPT ![g] = 1] /\ GoTo(p, "await")
      /\ UNCHANGED <<files, authority, control, world, outside, faults>>
  BY <1>2, <1>3 DEF Mutate
<1>5. /\ G(p)' = g /\ pc'[p] = "await" /\ \A q \in Procs \ {p} : pc'[q] = pc[q]
      /\ intent' = intent /\ receipt' = receipt /\ outcome' = outcome /\ claims' = claims
      /\ opened' = opened /\ job' = job
  BY <1>1, <1>2, <1>4 DEF GoTo, files, control, G, TypeOK
<1>6. sent'[g] = 1 /\ request'[g] = "flying" /\ \A h \in Grants \ {g} : Kept(h)
  BY <1>1, <1>4, <1>5 DEF Kept, TypeOK
<1>7. TypeOK'
  BY <1>1, <1>4 DEF TypeOK, GoTo, files, authority, control, Places
<1>8. OneGrant(g)'
  BY <1>2, <1>3, <1>5, <1>6 DEF OneGrant, GrantInv, Untouched
<1>9. PlaceInv(p)'
  BY <1>3, <1>5, <1>6 DEF PlaceInv, BeforeEffect
<1> QED
  BY <1>1, <1>5, <1>6, <1>7, <1>8, <1>9, HolderSteps

\* A lost or garbled answer, also when it counts as a fault.
LEMMA Answering ==
  ASSUME NEW live \in SUBSET Procs, InvAmong(live), NEW p \in live, holders' = holders,
         Answered(p) \/ Rejected(p) \/ Garbled(p) \/ Unanswered(p)
  PROVE  InvAmong(live)'
<1>0. pc[p] = "await"
  BY DEF Answered, Rejected, Garbled, Unanswered, Doing
<1>1. p \in holders /\ pc[p] # "out" /\ TypeOK /\ PlaceInv(p)
  BY <1>0, Actor DEF InvAmong
<1>2. PICK g \in Grants : g = G(p) /\ OneGrant(g) /\ GrantInv(g) /\ (g \in Rollbacks => g \notin Executions)
  BY <1>0, Actor
<1>3. /\ sent[g] = 1 /\ receipt[g] = None
      /\ intent[g] = (IF g \in Rollbacks THEN "effect_started" ELSE "claimed")
  BY <1>0, <1>1, <1>2 DEF PlaceInv
<1>4. CASE Answered(p)
  <2>1. Pass(p, "verify")
    BY <1>4 DEF Answered
  <2>2. G(p)' = g /\ pc'[p] = "verify" /\ intent' = intent /\ sent' = sent /\ receipt' = receipt
    BY <1>1, <1>2, <2>1 DEF Pass, GoTo, files, provider, G, TypeOK
  <2>3. PlaceInv(p)'
    BY <1>3, <2>2 DEF PlaceInv, BeforeEffect
  <2> QED
    BY <1>1, <2>1, <2>3, PassSteps DEF Places
<1>5. CASE Rejected(p) \/ Garbled(p)
  <2>1. GoTo(p, "reject") /\ UNCHANGED <<files, authority, control, provider>> /\ faults' \in 0..MaxFaults
    BY <1>1, <1>5, ExecutorAssumption DEF Rejected, Garbled, Pass, TypeOK
  <2>2. /\ G(p)' = g /\ pc'[p] = "reject" /\ \A q \in Procs \ {p} : pc'[q] = pc[q]
        /\ sent' = sent /\ job' = job
    BY <1>1, <1>2, <2>1 DEF GoTo, provider, G, TypeOK
  <2>3. TypeOK'
    BY <1>1, <2>1 DEF TypeOK, GoTo, files, authority, control, provider, Places
  <2>4. \A h \in Grants : Kept(h)
    BY <2>1 DEF Kept, files, control, provider
  <2>5. OneGrant(g)'
    BY <1>2, <2>4, KeptGrants
  <2>6. PlaceInv(p)'
    BY <1>3, <2>2 DEF PlaceInv, BeforeEffect
  <2> QED
    BY <1>1, <2>2, <2>3, <2>4, <2>5, <2>6, HolderSteps
<1>6. CASE Unanswered(p)
  <2>1. /\ intent' = [intent EXCEPT ![g] = "ambiguous"] /\ GoTo(p, "leave")
        /\ UNCHANGED <<receipt, authority, control, provider>> /\ faults' \in 0..MaxFaults
    BY <1>1, <1>2, <1>6, ExecutorAssumption DEF Unanswered, TypeOK
  <2>2. /\ pc'[p] = "leave" /\ \A q \in Procs \ {p} : pc'[q] = pc[q]
        /\ intent'[g] = "ambiguous" /\ receipt' = receipt /\ outcome' = outcome /\ claims' = claims
        /\ opened' = opened /\ sent' = sent /\ request' = request /\ job' = job
    BY <1>1, <1>2, <2>1 DEF GoTo, control, provider, TypeOK
  <2>3. TypeOK'
    BY <1>1, <2>1 DEF TypeOK, GoTo, authority, control, provider, Places, Intents
  <2>4. \A h \in Grants \ {g} : Kept(h)
    BY <1>1, <2>1, <2>2 DEF Kept, TypeOK
  <2>5. OneGrant(g)'
    BY <1>2, <1>3, <2>2 DEF OneGrant, GrantInv, Untouched
  <2> QED
    BY <1>1, <2>2, <2>3, <2>4, <2>5, HolderSteps DEF Around
<1> QED
  BY <1>4, <1>5, <1>6

LEMMA Rejecting ==
  ASSUME NEW live \in SUBSET Procs, InvAmong(live), NEW p \in live, holders' = holders, Reject(p)
  PROVE  InvAmong(live)'
<1>0. pc[p] = "reject"
  BY DEF Reject, Doing
<1>1. p \in holders /\ pc[p] # "out" /\ TypeOK /\ PlaceInv(p)
  BY <1>0, Actor DEF InvAmong
<1>2. PICK g \in Grants : g = G(p) /\ OneGrant(g) /\ GrantInv(g)
  BY <1>0, Actor
<1> DEFINE o == [status |-> "failed", by |-> "rejected", post |-> None]
<1>3. o \in Outcome /\ o # None /\ o.status = "failed"
  BY OtherOutcomes
<1>4. sent[g] = 1 /\ intent[g] \notin Untouched
  BY <1>0, <1>1, <1>2 DEF PlaceInv, GrantInv
<1>5. CASE outcome' = outcome
  <2>1. Pass(p, "leave")
    BY <1>5 DEF Reject, TryRecord, Pass, control
  <2> QED
    BY <1>1, <2>1, PassSteps DEF Around, Places
<1>6. CASE Recordable(g, o) /\ outcome' = [outcome EXCEPT ![g] = o]
  <2> HIDE DEF o
  <2>1. g \in claims /\ GoTo(p, "leave") /\ UNCHANGED <<files, authority, claims, opened, provider, faults>>
    BY <1>6 DEF Recordable, Reject, TryRecord
  <2>2. /\ intent' = intent /\ receipt' = receipt /\ outcome'[g] = o
        /\ claims' = claims /\ opened' = opened /\ sent' = sent /\ request' = request
    BY <1>1, <1>6, <2>1 DEF files, provider, TypeOK
  <2>3. OneGrant(g)'
    BY <1>2, <1>3, <1>4, <2>1, <2>2, Ending DEF Untouched
  <2> QED
    BY <1>1, <1>3, <1>6, <2>1, <2>3, OutcomeSteps DEF Around, Places
<1> QED
  BY <1>2, <1>5, <1>6 DEF Reject, TryRecord

LEMMA Verifying ==
  ASSUME NEW live \in SUBSET Procs, InvAmong(live), NEW p \in live, holders' = holders, Verify(p)
  PROVE  InvAmong(live)'
<1>0. pc[p] = "verify"
  BY DEF Verify, Doing
<1>1. p \in holders /\ pc[p] # "out" /\ PlaceInv(p) /\ world \in Values
  BY <1>0, Actor DEF InvAmong, TypeOK
<1>2. PICK g \in Grants : g = G(p)
  BY <1>0, Actor
<1>3. intent[g] \in {"claimed", "ambiguous", "effect_started"}
  BY <1>0, <1>1, <1>2 DEF PlaceInv
<1>4. CASE world = To[g]
  <2>1. \E status \in {"rolled_back", "executed"} : Draft(p, status, "ack", world)
    BY <1>2, <1>4 DEF Verify
  <2> QED
    BY <1>1, <1>2, <1>3, <1>4, <2>1, DraftSteps
<1>5. CASE Stop(p)
  BY <1>1, <1>5, Stops
<1>6. CASE Draft(p, "verification_failed", "ack", world)
  BY <1>1, <1>2, <1>3, <1>6, DraftSteps
<1> QED
  BY <1>2, <1>4, <1>5, <1>6 DEF Verify

LEMMA WritingReceipt ==
  ASSUME NEW live \in SUBSET Procs, InvAmong(live), NEW p \in live, holders' = holders, WriteReceipt(p)
  PROVE  InvAmong(live)'
<1>0. pc[p] = "receipt"
  BY DEF WriteReceipt, Doing
<1>1. p \in holders /\ pc[p] # "out" /\ TypeOK /\ PlaceInv(p)
  BY <1>0, Actor DEF InvAmong
<1>2. PICK g \in Grants : g = G(p) /\ OneGrant(g) /\ GrantInv(g)
  BY <1>0, Actor
<1>3. CASE Stop(p)
  BY <1>1, <1>3, Stops
<1>4. CASE receipt[g] = None /\ ~Stop(p)
  <2> DEFINE place == IF draft[p].status = "verification_failed" THEN "conflict" ELSE "record"
  <2>1. /\ receipt' = [receipt EXCEPT ![g] = draft[p]] /\ GoTo(p, place)
        /\ UNCHANGED <<intent, authority, control, provider, faults>>
    BY <1>2, <1>4 DEF WriteReceipt
  <2>2. /\ draft[p] \in Receipt /\ intent[g] \in {"claimed", "ambiguous", "effect_started"}
        /\ draft[p].status # "verification_failed" => draft[p].post = To[g]
    BY <1>0, <1>1, <1>2 DEF PlaceInv
  <2>3. draft[p] # None /\ receipt[g] \notin Receipt
    BY <1>4, <2>2, RecordAssumption
  <2>4. /\ G(p)' = g /\ pc'[p] = place /\ \A q \in Procs \ {p} : pc'[q] = pc[q]
        /\ intent' = intent /\ receipt'[g] = draft[p] /\ outcome' = outcome /\ claims' = claims
        /\ opened' = opened /\ sent' = sent /\ request' = request /\ job' = job /\ draft' = draft
    BY <1>1, <1>2, <2>1 DEF GoTo, control, provider, G, TypeOK
  <2>5. TypeOK'
    BY <1>1, <2>1, <2>2 DEF TypeOK, GoTo, authority, control, provider, Places
  <2>6. \A h \in Grants \ {g} : Kept(h)
    BY <1>1, <2>1, <2>4 DEF Kept, TypeOK
  <2>7. OneGrant(g)'
    BY <1>2, <2>2, <2>3, <2>4 DEF OneGrant, GrantInv, Untouched
  <2>8. PlaceInv(p)'
    BY <2>2, <2>4 DEF PlaceInv, BeforeEffect, Untouched
  <2> QED
    BY <1>1, <2>4, <2>5, <2>6, <2>7, <2>8, HolderSteps
<1> QED
  BY <1>2, <1>3, <1>4 DEF WriteReceipt

\* A success, or a conflict, is told as its receipt says, and the intent is closed.
LEMMA Recording ==
  ASSUME NEW live \in SUBSET Procs, InvAmong(live), NEW p \in live, holders' = holders,
         RecordSuccess(p) \/ RecordConflict(p) \/ EnsureTerminal(p)
  PROVE  InvAmong(live)'
<1>0. pc[p] \in {"record", "conflict", "settle"}
  BY DEF RecordSuccess, RecordConflict, EnsureTerminal, Doing
<1>1. p \in holders /\ pc[p] # "out" /\ TypeOK /\ PlaceInv(p)
  BY <1>0, Actor DEF InvAmong
<1>2. PICK g \in Grants : g = G(p) /\ OneGrant(g) /\ GrantInv(g)
  BY <1>0, Actor
<1>3. receipt[g] \in Receipt /\ intent[g] \notin Untouched \cup {"terminal_no_effect"}
  BY <1>0, <1>1, <1>2 DEF PlaceInv
<1>4. PICK o \in Outcome :
        /\ o = OutcomeOf(receipt[g]) /\ o # None /\ o.status \in {"executed", "failed"} /\ receipt[g] # None
  BY <1>3, OutcomesOfReceipts
<1>5. \E place \in {"close", "leave"} : Record(p, o, place) \/ TryRecord(p, o, place)
  <2>1. pc[p] \in {"record", "conflict"} => draft[p] = receipt[g]
    BY <1>1, <1>2 DEF PlaceInv
  <2> QED
    BY <1>2, <1>4, <2>1 DEF RecordSuccess, RecordConflict, EnsureTerminal, Doing
<1>6. PICK place \in {"close", "leave"} : Record(p, o, place) \/ TryRecord(p, o, place)
  BY <1>5
<1>7. CASE Stop(p)
  BY <1>1, <1>7, Stops
<1>8. CASE outcome' = outcome /\ ~Stop(p)
  <2>1. Pass(p, place)
    BY <1>6, <1>8 DEF Record, TryRecord, Pass, control
  <2>2. place = "close" => PlaceInv(p)'
    <3>1. G(p)' = g /\ pc'[p] = place /\ intent' = intent /\ receipt' = receipt
      BY <1>1, <1>2, <2>1 DEF Pass, GoTo, files, G, TypeOK
    <3> QED
      BY <1>3, <3>1 DEF PlaceInv, BeforeEffect
  <2> QED
    BY <1>1, <1>6, <2>1, <2>2, PassSteps DEF Around, Places
<1>9. CASE Recordable(g, o) /\ outcome' = [outcome EXCEPT ![g] = o] /\ ~Stop(p)
  <2>1. g \in claims /\ GoTo(p, place) /\ UNCHANGED <<files, authority, claims, opened, provider, faults>>
    BY <1>6, <1>9 DEF Recordable, Record, TryRecord
  <2>2. /\ G(p)' = g /\ pc'[p] = place /\ intent' = intent /\ receipt' = receipt /\ outcome'[g] = o
        /\ claims' = claims /\ opened' = opened /\ sent' = sent /\ request' = request
    BY <1>1, <1>2, <1>9, <2>1 DEF GoTo, files, provider, G, TypeOK
  <2>3. OneGrant(g)'
    BY <1>2, <1>3, <1>4, <2>1, <2>2, Ending DEF Untouched
  <2>4. place = "close" => PlaceInv(p)'
    BY <1>3, <2>2 DEF PlaceInv, BeforeEffect
  <2> QED
    BY <1>1, <1>6, <1>9, <2>1, <2>3, <2>4, OutcomeSteps DEF Around, Places
<1> QED
  BY <1>2, <1>6, <1>7, <1>8, <1>9 DEF Record, TryRecord

LEMMA RecordingNoEffect ==
  ASSUME NEW live \in SUBSET Procs, InvAmong(live), NEW p \in live, holders' = holders, RecordNoEffect(p)
  PROVE  InvAmong(live)'
<1>0. pc[p] = "no-effect"
  BY DEF RecordNoEffect, Doing
<1>1. p \in holders /\ pc[p] # "out" /\ TypeOK /\ PlaceInv(p)
  BY <1>0, Actor DEF InvAmong
<1>2. PICK g \in Grants : g = G(p) /\ OneGrant(g) /\ GrantInv(g)
  BY <1>0, Actor
<1>3. g \in Executions /\ intent[g] \in {"claimed", "ambiguous"} /\ receipt[g] = None
  BY <1>0, <1>1, <1>2 DEF PlaceInv
<1> DEFINE o == [status |-> "failed", by |-> "no-effect", post |-> From[g]]
<1>4. o \in Outcome /\ o # None /\ o.status = "failed"
  <2>1. From[g] \in Values
    BY ExecutorAssumption
  <2> QED
    BY <2>1, OtherOutcomes
<1>5. CASE Stop(p)
  BY <1>1, <1>5, Stops
<1>6. CASE Recordable(g, o) /\ ~Stop(p)
  <2> HIDE DEF o
  <2>1. /\ g \in claims /\ outcome' = [outcome EXCEPT ![g] = o] /\ GoTo(p, "nullify")
        /\ UNCHANGED <<files, authority, claims, opened, provider, faults>>
    BY <1>2, <1>6 DEF RecordNoEffect, Record, Recordable, o
  <2>2. /\ G(p)' = g /\ pc'[p] = "nullify" /\ intent' = intent /\ receipt' = receipt /\ outcome'[g] = o
        /\ claims' = claims /\ opened' = opened /\ sent' = sent /\ request' = request
    BY <1>1, <1>2, <2>1 DEF GoTo, files, provider, G, TypeOK
  <2>3. OneGrant(g)'
    BY <1>2, <1>3, <1>4, <2>1, <2>2, Ending
  <2>4. PlaceInv(p)'
    BY <1>3, <1>4, <2>2 DEF PlaceInv, BeforeEffect
  <2> QED
    BY <1>1, <1>4, <2>1, <2>3, <2>4, OutcomeSteps DEF Places
<1> QED
  BY <1>2, <1>5, <1>6 DEF RecordNoEffect, Record

LEMMA Closing ==
  ASSUME NEW live \in SUBSET Procs, InvAmong(live), NEW p \in live, holders' = holders, Close(p)
  PROVE  InvAmong(live)'
<1>0. pc[p] = "close"
  BY DEF Close, Doing
<1>1. p \in holders /\ pc[p] # "out" /\ TypeOK /\ PlaceInv(p)
  BY <1>0, Actor DEF InvAmong
<1>2. PICK g \in Grants : g = G(p) /\ OneGrant(g) /\ GrantInv(g)
  BY <1>0, Actor
<1>3. receipt[g] \in Receipt /\ intent[g] \notin Untouched \cup {"terminal_no_effect"} /\ receipt[g] # None
  BY <1>0, <1>1, <1>2, RecordAssumption DEF PlaceInv
<1>4. WriteIntent(p, g, "terminal", "leave")
  BY <1>2 DEF Close
<1>5. /\ intent'[g] = "terminal" /\ receipt' = receipt
      /\ claims' = claims /\ opened' = opened /\ outcome' = outcome /\ sent' = sent /\ request' = request
  BY <1>1, <1>2, <1>4 DEF WriteIntent, GoTo, control, provider, TypeOK
<1>6. OneGrant(g)'
  BY <1>2, <1>3, <1>5 DEF OneGrant, GrantInv, Untouched
<1> QED
  BY <1>1, <1>4, <1>6, IntentSteps DEF Places, Intents, Around

\* A crash leaves every record as it is, but perhaps a torn receipt.
LEMMA Interrupting ==
  ASSUME NEW live \in SUBSET Procs, InvAmong(live), NEW p \in live, holders' = holders, Interrupt(p)
  PROVE  InvAmong(live)'
<1>0. pc[p] \notin {"out", "wait", "leave"}
  BY DEF Interrupt
<1>1. p \in holders /\ pc[p] # "out" /\ TypeOK
  BY <1>0, Actor DEF InvAmong
<1>2. PICK g \in Grants : g = G(p) /\ OneGrant(g) /\ GrantInv(g)
  BY <1>0, Actor
<1>3. /\ GoTo(p, "leave") /\ UNCHANGED <<intent, authority, control, provider>> /\ faults' \in 0..MaxFaults
  BY <1>1, ExecutorAssumption DEF Interrupt, TypeOK
<1>4. /\ pc'[p] = "leave" /\ \A q \in Procs \ {p} : pc'[q] = pc[q]
      /\ intent' = intent /\ outcome' = outcome /\ claims' = claims
      /\ opened' = opened /\ sent' = sent /\ request' = request /\ job' = job
  BY <1>1, <1>2, <1>3 DEF GoTo, control, provider, TypeOK
<1>5. CASE UNCHANGED receipt
  <2>1. TypeOK'
    BY <1>1, <1>3, <1>5 DEF TypeOK, GoTo, authority, control, provider, Places
  <2>2. \A h \in Grants : Kept(h)
    BY <1>4, <1>5 DEF Kept
  <2>3. OneGrant(g)'
    BY <1>2, <2>2, KeptGrants
  <2> QED
    BY <1>1, <1>4, <2>1, <2>2, <2>3, HolderSteps DEF Around
<1>6. CASE pc[p] = "receipt" /\ receipt[g] = None /\ receipt' = [receipt EXCEPT ![g] = Torn]
  <2>1. TypeOK'
    BY <1>1, <1>3, <1>6 DEF TypeOK, GoTo, authority, control, provider, Places
  <2>2. intent[g] \in {"claimed", "ambiguous", "effect_started"}
    BY <1>1, <1>2, <1>6, Actor DEF PlaceInv
  <2>3. receipt'[g] = Torn /\ receipt[g] \notin Receipt /\ Torn \notin Receipt /\ Torn # None
    BY <1>1, <1>6, RecordAssumption, ExecutorAssumption DEF TypeOK
  <2>4. \A h \in Grants \ {g} : Kept(h)
    BY <1>1, <1>4, <1>6 DEF Kept, TypeOK
  <2>5. OneGrant(g)'
    BY <1>2, <1>4, <2>2, <2>3 DEF OneGrant, GrantInv, Untouched
  <2> QED
    BY <1>1, <1>4, <2>1, <2>4, <2>5, HolderSteps DEF Around
<1> QED
  BY <1>2, <1>5, <1>6 DEF Interrupt, Doing

LEMMA Serving ==
  ASSUME NEW live \in SUBSET Procs, InvAmong(live), NEW p \in live, holders' = holders,
         Serve(p) \/ Garbled(p) \/ Unanswered(p) \/ Interrupt(p)
  PROVE  InvAmong(live)'
<1>1. CASE Enter(p) \/ Settle(p) \/ Unreadable(p) \/ StartExecute(p)
  <2>1. p \in holders
    BY <1>1, Actor DEF Enter, Settle, Unreadable, StartExecute, Fresh, Doing
  <2> QED
    BY <1>1, <2>1, Starting
<1> QED
  BY <1>1, StartsReconciling, StartsRollingBack, Claiming, Revalidating, Cancelling, Announcing,
     Mutating, Answering, Rejecting, Verifying, WritingReceipt, Recording, RecordingNoEffect,
     Closing, Interrupting DEF Serve

-----------------------------------------------------------------------------
(* Coming, going, and everyone else                                         *)

LEMMA QuietSteps ==
  ASSUME NEW live \in SUBSET Procs, InvAmong(live), TypeOK', Operating(live)', \A g \in Grants : Kept(g)
  PROVE  InvAmong(live)'
<1>1. \A g \in Grants : OneGrant(g)'
  BY KeptGrants, InvInParts
<1> QED
  BY <1>1 DEF InvAmong, Operating, OneGrant, SuccessIsReceipted, LocalEndsAreBacked, Around

\* A process comes to wait, is admitted, gives up, or leaves.
LEMMA ComingAndGoing ==
  ASSUME NEW live \in SUBSET Procs, InvAmong(live), NEW p \in live,
         \/ \E j \in Job : Call(p, j) /\ UNCHANGED holders
         \/ Doing(p, "wait") /\ Stop(p) /\ UNCHANGED holders
         \/ Acquire(p) \/ Release(p)
  PROVE  InvAmong(live)'
<1>1. TypeOK /\ Operating(live)
  BY InvInParts
<1>2. /\ \A q \in Procs \ {p} : pc'[q] = pc[q] /\ job'[q] = job[q] /\ draft'[q] = draft[q]
      /\ pc'[p] \in {"out", "wait", "leave"} /\ (pc'[p] # "out" => job'[p] \in Job)
      /\ holders' \in {holders, holders \ {p}} \/ (holders = {} /\ holders' = {p})
  <2>1. CASE \E j \in Job : Call(p, j) /\ UNCHANGED holders
    BY <1>1, <2>1 DEF Call, TypeOK
  <2>2. CASE Doing(p, "wait") /\ Stop(p) /\ UNCHANGED holders
    BY <1>1, <2>2 DEF Doing, Stop, Pass, GoTo, TypeOK, Operating
  <2>3. CASE Acquire(p)
    BY <1>1, <2>3 DEF Acquire, Doing, state, local, TypeOK, Operating
  <2>4. CASE Release(p)
    BY <1>1, <2>4 DEF Release, Forget, TypeOK
  <2> QED
    BY <2>1, <2>2, <2>3, <2>4
<1>3. UNCHANGED <<files, authority, control, provider, faults>>
  BY DEF Call, Stop, Pass, Acquire, Release, Forget, state
<1>4. TypeOK'
  <2>1. pc' \in [Procs -> Places] /\ job' \in [Procs -> Job \cup {None}] /\ draft' \in [Procs -> Receipt \cup {None}]
    <3>1. CASE \E j \in Job : Call(p, j) /\ UNCHANGED holders
      BY <1>1, <3>1 DEF Call, TypeOK, Places
    <3>2. CASE Stop(p) \/ Acquire(p)
      BY <1>1, <3>2 DEF Stop, Pass, GoTo, Acquire, state, local, TypeOK, Places
    <3>3. CASE Release(p)
      BY <1>1, <3>3 DEF Release, Forget, TypeOK, Places
    <3> QED
      BY <3>1, <3>2, <3>3
  <2> QED
    BY <1>1, <1>2, <1>3, <2>1 DEF TypeOK, files, authority, control, provider
<1>5. \A g \in Grants : Kept(g)
  BY <1>3 DEF files, control, provider, Kept
<1>6. Operating(live)'
  <2>1. ASSUME NEW q \in holders', pc'[q] \notin Around PROVE PlaceInv(q)'
    <3>1. q \in Procs \ {p} /\ q \in holders
      BY <1>1, <1>2, <2>1 DEF Around, TypeOK
    <3>2. PlaceInv(q) /\ G(q) \in Grants
      <4>1. pc[q] \notin Around
        BY <1>2, <2>1, <3>1
      <4>2. job[q] \in Job
        BY <1>1, <3>1, <4>1 DEF Operating, Around
      <4> QED
        BY <1>1, <3>1, <4>1, <4>2, Jobs DEF Operating, G
    <3>3. PICK r \in Procs : r = q /\ r \in Procs \ {p}
      BY <3>1
    <3>4. PlaceInv(r)'
      BY <1>2, <1>5, <3>2, <3>3, KeptPlaces
    <3> QED
      BY <3>3, <3>4
  <2>2. /\ holders' \subseteq live /\ \A q, r \in holders' : q = r
        /\ \A q \in live : pc'[q] # "out" => job'[q] \in Job
        /\ \A q \in live : pc'[q] \notin {"out", "wait", "leave"} => q \in holders'
    BY <1>1, <1>2 DEF Operating
  <2> QED
    BY <2>1, <2>2 DEF Operating
<1> QED
  BY <1>4, <1>5, <1>6, QuietSteps

\* The clock, the administrators, the provider and its other users.
LEMMA Surroundings ==
  ASSUME NEW live \in SUBSET Procs, InvAmong(live), Environment, holders' = holders
  PROVE  InvAmong(live)'
<1>1. TypeOK /\ Operating(live) /\ \A g \in Grants : OneGrant(g)
  BY InvInParts
<1>2. /\ UNCHANGED <<local, files, control, sent, faults>>
      /\ \A g \in Grants : (request'[g] = "none") <=> (request[g] = "none")
      /\ TypeOK'
  <2>1. CASE \E g \in Executions : ExpirePlan(g)
    BY <1>1, <2>1 DEF ExpirePlan, TypeOK, local, files, control, provider
  <2>2. CASE \E g \in Grants : ExpireGrant(g) \/ Revoke(g)
    BY <1>1, <2>2 DEF ExpireGrant, Revoke, TypeOK, local, files, control, provider
  <2>3. CASE \E g \in Grants : Land(g) \/ Refuse(g)
    <3>1. PICK g \in Grants : Land(g) \/ Refuse(g)
      BY <2>3
    <3>2. To[g] \in Values
      BY ExecutorAssumption
    <3>3. /\ request[g] = "flying" /\ world' \in Values
          /\ \E s \in {"landed", "refused"} : request' = [request EXCEPT ![g] = s]
          /\ UNCHANGED <<local, files, authority, control, sent, outside, faults>>
      BY <1>1, <3>1, <3>2 DEF Land, Refuse, TypeOK
    <3> QED
      BY <1>1, <3>3 DEF TypeOK, local, files, authority, control
  <2>4. CASE \E v \in Values : WriteOutside(v)
    <3>1. outside < MaxOutside /\ outside' = outside + 1 => outside' \in 0..MaxOutside
      BY <1>1, ExecutorAssumption DEF TypeOK
    <3> QED
      BY <1>1, <2>4, <3>1 DEF WriteOutside, TypeOK, local, files, authority, control
  <2> QED
    BY <2>1, <2>2, <2>3, <2>4 DEF Environment
<1>3. \A g \in Grants : Kept(g)
  BY <1>2 DEF files, control, Kept
<1>4. Operating(live)'
  <2>1. ASSUME NEW q \in holders', pc'[q] \notin Around PROVE PlaceInv(q)'
    <3>1. q \in Procs /\ q \in holders /\ pc[q] \notin Around
      BY <1>1, <1>2, <2>1 DEF TypeOK, local
    <3>2. PlaceInv(q) /\ job[q] \in Job
      BY <1>1, <3>1 DEF Operating, Around
    <3>3. G(q) \in Grants
      BY <3>2, Jobs DEF G
    <3>4. PICK r \in Procs : r = q
      BY <3>1
    <3>5. PlaceInv(r)'
      BY <1>2, <1>3, <3>2, <3>3, <3>4, KeptPlaces DEF local
    <3> QED
      BY <3>4, <3>5
  <2> QED
    BY <1>1, <1>2, <2>1 DEF Operating, local
<1> QED
  BY <1>2, <1>3, <1>4, QuietSteps

LEMMA NextKeepsInv == ExecutorInv /\ [Next]_vars => ExecutorInv'
<1> SUFFICES ASSUME InvAmong(Procs), [Next]_vars PROVE InvAmong(Procs)'
  BY DEF ExecutorInv
<1>1. CASE Environment /\ UNCHANGED holders
  BY <1>1, Surroundings
<1>2. ASSUME NEW p \in Procs, Step(p) PROVE InvAmong(Procs)'
  BY <1>2, Serving, ComingAndGoing DEF Step, Work, Busy
<1>3. CASE UNCHANGED vars
  BY <1>3 DEF vars, state, local, files, authority, control, provider, InvAmong, TypeOK, GrantInv,
     SuccessIsReceipted, LocalEndsAreBacked, PlaceInv, G
<1> QED
  BY <1>1, <1>2, <1>3 DEF Next

-----------------------------------------------------------------------------
(* The executor uses GrantAuthority: each of its steps is, for every grant,  *)
(* a step of GrantAuthority or leaves stage, owner, opened and outcome alone *)

Allowed(g) == Authority(g)!Next \/ UNCHANGED Authority(g)!authority

\* The control plane is not asked for anything.
LEMMA Unasked ==
  ASSUME UNCHANGED <<revoked, control>>
  PROVE  \A g \in Grants : Allowed(g)
BY DEF Allowed, control, Authority!authority

\* A terminal record is a first one, or repeats the one that is there.
LEMMA Reporting ==
  ASSUME TypeOK, NEW g \in Grants, NEW o \in Outcome, g \in claims, outcome[g] \in {None, o},
         outcome' = [outcome EXCEPT ![g] = o], UNCHANGED <<revoked, claims, opened>>
  PROVE  \A h \in Grants : Allowed(h)
<1>1. outcome'[g] = o /\ o # None /\ \A h \in Grants \ {g} : outcome'[h] = outcome[h]
  BY RecordAssumption DEF TypeOK
<1>2. ASSUME NEW h \in Grants \ {g} PROVE Allowed(h)
  BY <1>1 DEF Allowed, Authority!authority
<1>3. CASE outcome[g] = o
  <2>1. Allowed(g)
    BY <1>1, <1>3 DEF Allowed, Authority!authority
  <2> QED
    BY <1>2, <2>1
<1>4. CASE outcome[g] = None
  <2>1. /\ o.status \in {"executed", "failed", "cancelled"}
        /\ o.by \in {"ack", "reconciled", "rejected", "no-effect", "ended"}
        /\ o.post \in Values \cup {None}
    BY DEF Outcome
  <2>2. PICK s \in {"executed", "failed", "cancelled"} : s = o.status
    BY <2>1
  <2>3. PICK v \in [by : {"ack", "reconciled", "rejected", "no-effect", "ended"}, post : Values \cup {None}] :
          v = [by |-> o.by, post |-> o.post]
    BY <2>1
  <2>4. Authority(g)!RecordOutcome(s, v)
    BY <1>1, <1>4, <2>2, <2>3, RecordAssumption DEF Authority!RecordOutcome
  <2>5. Allowed(g)
    BY <2>4 DEF Allowed, Authority!Next
  <2> QED
    BY <1>2, <2>5
<1> QED
  BY <1>3, <1>4

\* claimGrant: the authority stands, and the grant is free or already ours.
LEMMA ClaimIsAllowed ==
  ASSUME NEW live \in SUBSET Procs, InvAmong(live), NEW p \in live, ClaimGrant(p)
  PROVE  \A h \in Grants : Allowed(h)
<1>1. PICK g \in Grants : g = G(p)
  BY Actor DEF ClaimGrant, Doing
<1>2. CASE Stop(p)
  BY <1>2, Unasked DEF Stop, Pass, authority
<1>3. CASE /\ g \notin revoked /\ claims' = claims \cup {g}
           /\ UNCHANGED <<revoked, opened, outcome>>
  <2>1. ASSUME NEW h \in Grants, h # g \/ g \in claims PROVE Allowed(h)
    <3>1. (h \in claims') = (h \in claims)
      BY <1>3, <2>1
    <3> QED
      BY <1>3, <3>1 DEF Allowed, Authority!authority
  <2>2. ASSUME g \notin claims PROVE Allowed(g)
    <3>1. Authority(g)!Claim("executor")
      BY <1>3, <2>2 DEF Authority!Claim
    <3> QED
      BY <3>1 DEF Allowed, Authority!Next
  <2> QED
    BY <2>1, <2>2
<1> QED
  BY <1>1, <1>2, <1>3 DEF ClaimGrant, Current, authority

\* recordAction("executing"): by the owner of the claim, before the end.
LEMMA AnnouncementIsAllowed ==
  ASSUME NEW live \in SUBSET Procs, InvAmong(live), NEW p \in live, Announce(p)
  PROVE  \A h \in Grants : Allowed(h)
<1>1. PICK g \in Grants : g = G(p) /\ GrantInv(g) /\ PlaceInv(p) /\ pc[p] = "announce"
  BY Actor DEF Announce, Doing
<1>2. g \in claims
  BY <1>1 DEF PlaceInv, GrantInv
<1>3. CASE Stop(p)
  BY <1>3, Unasked DEF Stop, Pass, authority
<1>4. CASE /\ outcome[g] = None \/ g \in opened
           /\ opened' = opened \cup {g} /\ UNCHANGED <<revoked, claims, outcome>>
  <2>1. ASSUME NEW h \in Grants, h # g \/ g \in opened PROVE Allowed(h)
    <3>1. (h \in opened') = (h \in opened)
      BY <1>4, <2>1
    <3> QED
      BY <1>4, <3>1 DEF Allowed, Authority!authority
  <2>2. ASSUME g \notin opened PROVE Allowed(g)
    <3>1. (g \in opened') = TRUE /\ (g \in opened) = FALSE /\ outcome[g] = None
      BY <1>4, <2>2
    <3>2. Authority(g)!RecordExecuting
      BY <1>2, <1>4, <3>1, RecordAssumption DEF Authority!RecordExecuting
    <3> QED
      BY <3>2 DEF Allowed, Authority!Next
  <2> QED
    BY <2>1, <2>2
<1> QED
  BY <1>1, <1>3, <1>4 DEF Announce, authority

\* recordAction with a terminal status.
LEMMA RecordsAreAllowed ==
  ASSUME NEW live \in SUBSET Procs, InvAmong(live), NEW p \in live,
         \/ Cancel(p) \/ Reject(p) \/ RecordNoEffect(p)
         \/ RecordSuccess(p) \/ RecordConflict(p) \/ EnsureTerminal(p)
  PROVE  \A h \in Grants : Allowed(h)
<1>0. pc[p] \in {"cancel", "reject", "no-effect", "record", "conflict", "settle"}
  BY DEF Cancel, Reject, RecordNoEffect, RecordSuccess, RecordConflict, EnsureTerminal, Doing
<1>1. PICK g \in Grants : g = G(p) /\ PlaceInv(p) /\ TypeOK
  BY <1>0, Actor DEF InvAmong
<1>2. \E o \in Outcome : \E place \in Places : Record(p, o, place) \/ TryRecord(p, o, place)
  <2>1. CASE Cancel(p) \/ Reject(p)
    BY <2>1, OtherOutcomes DEF Cancel, Reject, Places
  <2>2. CASE RecordNoEffect(p)
    <3>1. From[g] \in Values
      BY ExecutorAssumption
    <3> QED
      BY <1>1, <2>2, <3>1, OtherOutcomes DEF RecordNoEffect, Places
  <2>3. CASE RecordSuccess(p) \/ RecordConflict(p) \/ EnsureTerminal(p)
    <3>1. pc[p] \in {"record", "conflict", "settle"}
      BY <2>3 DEF RecordSuccess, RecordConflict, EnsureTerminal, Doing
    <3>2. receipt[g] \in Receipt /\ (pc[p] # "settle" => draft[p] = receipt[g])
      BY <1>1, <3>1 DEF PlaceInv
    <3>3. OutcomeOf(receipt[g]) \in Outcome
      BY <3>2, OutcomesOfReceipts
    <3> QED
      BY <1>1, <2>3, <3>2, <3>3 DEF RecordSuccess, RecordConflict, EnsureTerminal, Doing, Places
  <2> QED
    BY <2>1, <2>2, <2>3
<1>3. PICK o \in Outcome : \E place \in Places : Record(p, o, place) \/ TryRecord(p, o, place)
  BY <1>2
<1>4. CASE Recordable(g, o)
  <2>1. /\ g \in claims /\ outcome[g] \in {None, o} /\ outcome' = [outcome EXCEPT ![g] = o]
        /\ UNCHANGED <<revoked, claims, opened>>
    BY <1>1, <1>3, <1>4 DEF Record, TryRecord, Recordable, authority
  <2> QED
    BY <1>1, <2>1, Reporting
<1>5. CASE ~Recordable(g, o)
  BY <1>1, <1>3, <1>5, Unasked DEF Record, TryRecord, Stop, Pass, authority, control
<1> QED
  BY <1>4, <1>5

\* What else the executor does is no business of the control plane.
LEMMA RestIsUnasked ==
  ASSUME NEW p \in Procs,
         \/ \E j \in Job : Call(p, j)
         \/ Busy(p) \/ Acquire(p) \/ Release(p)
         \/ Enter(p) \/ Settle(p) \/ Unreadable(p)
         \/ StartExecute(p) \/ StartReconcile(p) \/ StartRollback(p)
         \/ KeepClaim(p) \/ Revalidate(p) \/ Nullify(p) \/ StartEffect(p)
         \/ Mutate(p) \/ Answered(p) \/ Rejected(p) \/ Verify(p) \/ WriteReceipt(p) \/ Close(p)
         \/ Garbled(p) \/ Unanswered(p) \/ Interrupt(p)
  PROVE  \A h \in Grants : Allowed(h)
<1>1. UNCHANGED <<revoked, control>>
  <2>1. CASE \E place \in Places : Pass(p, place)
    BY <2>1 DEF Pass, authority
  <2>2. CASE \E g \in Grants : \E s, place : WriteIntent(p, g, s, place)
    BY <2>2 DEF WriteIntent, authority
  <2> QED
    BY DEF Call, Busy, Acquire, Release, Forget, Enter, Settle, Unreadable, StartExecute, StartReconcile,
       StartRollback, KeepClaim, Revalidate, Nullify, StartEffect, Mutate, Answered, Rejected, Verify,
       WriteReceipt, Close, Garbled, Unanswered, Interrupt, Draft, Stop, Pass, WriteIntent, state, authority
<1> QED
  BY <1>1, Unasked

\* The clock, the administrators and the provider: only a revocation shows.
LEMMA SurroundingsAreAllowed ==
  ASSUME Environment
  PROVE  \A h \in Grants : Allowed(h)
<1>1. CASE \E g \in Grants : Revoke(g)
  <2>1. PICK g \in Grants : Revoke(g)
    BY <1>1
  <2>2. g \notin revoked /\ revoked' = revoked \cup {g} /\ UNCHANGED control
    BY <2>1 DEF Revoke
  <2>3. ASSUME NEW h \in Grants \ {g} PROVE Allowed(h)
    <3>1. (h \in revoked') = (h \in revoked)
      BY <2>2
    <3> QED
      BY <2>2, <3>1 DEF Allowed, control, Authority!authority
  <2>4. Authority(g)!End
    BY <2>2 DEF control, Authority!End
  <2>5. Allowed(g)
    BY <2>4 DEF Allowed, Authority!Next
  <2> QED
    BY <2>3, <2>5
<1>2. CASE ~\E g \in Grants : Revoke(g)
  <2>1. UNCHANGED <<revoked, control>>
    BY <1>2 DEF Environment, ExpirePlan, ExpireGrant, Land, Refuse, WriteOutside, authority
  <2> QED
    BY <2>1, Unasked
<1> QED
  BY <1>1, <1>2

LEMMA StepsAreAllowed == ExecutorInv /\ [Next]_vars => \A h \in Grants : Allowed(h)
<1> SUFFICES ASSUME InvAmong(Procs), [Next]_vars PROVE \A h \in Grants : Allowed(h)
  BY DEF ExecutorInv
<1>1. CASE Environment
  BY <1>1, SurroundingsAreAllowed
<1>2. ASSUME NEW p \in Procs, Step(p) PROVE \A h \in Grants : Allowed(h)
  BY <1>2, ClaimIsAllowed, AnnouncementIsAllowed, RecordsAreAllowed, RestIsUnasked DEF Step, Work, Serve
<1>3. CASE UNCHANGED vars
  BY <1>3, Unasked DEF vars, state, authority
<1> QED
  BY <1>1, <1>2, <1>3 DEF Next

-----------------------------------------------------------------------------
(* On the lock that the executor has: the same invariant, of the processes   *)
(* that live, as long as no rmdir removed another directory than was seen.   *)

Locks == INSTANCE ResourceLockProofs WITH MaxCrashes <- MaxFaults

\* Whoever is on the way to the lock has not begun its operation.
Queueing == \A p \in Procs \ crashed : at[p] \in {"mkdir", "stat", "rmdir"} => pc[p] = "wait"

OnLockInv ==
  /\ Locks!LockInv /\ holders = L!Holding
  /\ misplaced \/ (InvAmong(Procs \ crashed) /\ Queueing)

\* The operations do not look at the lock, and take its steps one by one.
LEMMA StepsOfTheLock == [NextOnLock]_allVars => [Locks!LockNext]_Locks!lockVars
<1> SUFFICES ASSUME [NextOnLock]_allVars PROVE [Locks!LockNext]_Locks!lockVars
  OBVIOUS
<1>1. ASSUME NEW p \in Procs \ crashed, L!Want(p) \/ L!GiveUp(p) \/ L!Release(p) \/ L!Crash(p) PROVE Locks!LockNext
  <2>1. L!Crash(p) => Locks!Crash(p)
    BY DEF L!Crash, Locks!Crash, L!Cardinality, Locks!Cardinality
  <2>2. Locks!Want(p) \/ Locks!GiveUp(p) \/ Locks!Release(p) \/ Locks!Crash(p)
    BY <1>1, <2>1 DEF L!Want, L!GiveUp, L!Release, L!Look, L!Move, L!Replace,
       Locks!Want, Locks!GiveUp, Locks!Release, Locks!Look, Locks!Move, Locks!Replace
  <2> QED
    BY <2>2 DEF Locks!LockNext
<1>2. ASSUME NEW p \in Procs \ crashed, L!Acquiring(p) PROVE Locks!LockNext
  <2>1. Locks!MakeDirectory(p) \/ Locks!Stat(p) \/ Locks!RemoveStale(p)
    BY <1>2 DEF L!Acquiring, L!MakeDirectory, L!Stat, L!TooOld, L!RemoveStale, L!Look, L!Move, L!Replace,
       Locks!MakeDirectory, Locks!Stat, Locks!TooOld, Locks!RemoveStale, Locks!Look, Locks!Move, Locks!Replace
  <2> QED
    BY <2>1 DEF Locks!LockNext, Locks!Acquiring
<1>3. CASE L!Age
  BY <1>3 DEF L!Age, Locks!Age, Locks!LockNext
<1>4. CASE UNCHANGED lockState
  BY <1>4 DEF lockState, Locks!lockVars
<1>5. ASSUME NEW p \in Procs \ crashed, StepOnLock(p) PROVE [Locks!LockNext]_Locks!lockVars
  BY <1>1, <1>2, <1>4, <1>5 DEF StepOnLock, AcquireResource, BusyOnLock, ReleaseResource, Die
<1> QED
  BY <1>3, <1>4, <1>5 DEF NextOnLock, allVars

LEMMA LockStays ==
  ASSUME None \notin L!Lock, Locks!LockInv, [NextOnLock]_allVars
  PROVE  /\ Locks!LockInv'
         /\ misplaced => misplaced'
         /\ misplaced' \/ \A p, q \in L!Holding' : p = q
<1>1. Locks!ResourceLockAssumption
  BY ExecutorAssumption DEF Locks!ResourceLockAssumption, Locks!Lock, L!Lock
<1>2. Locks!LockInv'
  BY <1>1, StepsOfTheLock, Locks!StepKeepsInv
<1>3. misplaced => misplaced'
  BY StepsOfTheLock
     DEF Locks!LockNext, Locks!lockVars, Locks!Age, Locks!Want, Locks!Acquiring, Locks!MakeDirectory, Locks!Stat,
         Locks!TooOld, Locks!RemoveStale, Locks!GiveUp, Locks!Release, Locks!Crash, Locks!Look, Locks!Move, Locks!Replace
<1>4. misplaced' \/ \A p, q \in L!Holding' : p = q
  BY <1>2 DEF Locks!LockInv, Locks!HoldersAreMakers, Locks!Holding, L!Holding
<1> QED
  BY <1>2, <1>3, <1>4

\* The lock changes hands, or a process dies: no operation moves.
LEMMA LockMoves ==
  ASSUME NEW live \in SUBSET Procs, NEW less \in SUBSET live, InvAmong(live), UNCHANGED state,
         holders' \subseteq less, \A p, q \in holders' : p = q,
         \A p \in less : pc[p] \notin {"out", "wait", "leave"} => p \in holders',
         \A p \in holders' : pc[p] \notin Around => p \in holders
  PROVE  InvAmong(less)'
<1>1. TypeOK /\ Operating(live)
  BY InvInParts
<1>2. UNCHANGED <<job, pc, draft, files, authority, control, provider, faults>>
  BY DEF state, local
<1>3. TypeOK'
  BY <1>1, <1>2 DEF TypeOK, files, authority, control, provider
<1>4. \A g \in Grants : Kept(g)
  BY <1>2 DEF files, control, provider, Kept
<1>5. \A g \in Grants : OneGrant(g)'
  BY <1>4, KeptGrants, InvInParts
<1>6. ASSUME NEW p \in holders', pc[p] \notin Around PROVE PlaceInv(p)'
  <2>1. p \in Procs /\ p \in live /\ p \in holders
    BY <1>6
  <2>2. PlaceInv(p) /\ G(p) \in Grants
    BY <1>1, <1>6, <2>1, Jobs DEF Operating, Around, G
  <2>3. PICK q \in Procs : q = p
    BY <2>1
  <2>4. PlaceInv(q)'
    BY <1>2, <1>4, <2>2, <2>3, KeptPlaces
  <2> QED
    BY <2>3, <2>4
<1>7. Operating(less)'
  BY <1>1, <1>2, <1>6 DEF Operating
<1> QED
  BY <1>3, <1>5, <1>7 DEF InvAmong, Operating, OneGrant, SuccessIsReceipted, LocalEndsAreBacked, Around

\* What a step of an operation does to the places.
LEMMA WorkMovesOne ==
  ASSUME TypeOK, NEW p \in Procs, Work(p)
  PROVE  \A q \in Procs \ {p} : pc'[q] = pc[q]
BY DEF Work, Call, Serve, Enter, Settle, Unreadable, StartExecute, StartReconcile, StartRollback, ClaimGrant,
   KeepClaim, Revalidate, Cancel, Nullify, Announce, StartEffect, Mutate, Answered, Rejected, Reject, Verify,
   WriteReceipt, RecordSuccess, RecordConflict, RecordNoEffect, EnsureTerminal, Close, Garbled, Unanswered,
   Interrupt, Record, TryRecord, Draft, WriteIntent, Stop, Pass, GoTo, TypeOK

\* Who waits does nothing but enter, once it holds the lock.
LEMMA WaitersWait ==
  ASSUME NEW p \in Procs, Work(p), pc[p] = "wait"
  PROVE  p \in holders
BY DEF Work, Call, Serve, Enter, Settle, Unreadable, StartExecute, StartReconcile, StartRollback, Fresh, ClaimGrant,
   KeepClaim, Revalidate, Cancel, Nullify, Announce, StartEffect, Mutate, Answered, Rejected, Reject, Verify,
   WriteReceipt, RecordSuccess, RecordConflict, RecordNoEffect, EnsureTerminal, Close, Garbled, Unanswered,
   Interrupt, Doing

LEMMA OnLockSteps ==
  ASSUME None \notin L!Lock, OnLockInv, NextOnLock
  PROVE  OnLockInv'
<1>1. /\ Locks!LockInv' /\ holders' = L!Holding'
      /\ misplaced' \/ (~misplaced /\ \A p, q \in holders' : p = q)
  BY LockStays DEF OnLockInv, NextOnLock
<1>2. SUFFICES ASSUME ~misplaced' PROVE InvAmong(Procs \ crashed)' /\ Queueing'
  BY <1>1 DEF OnLockInv
<1>3. InvAmong(Procs \ crashed) /\ Queueing /\ TypeOK /\ holders = L!Holding
  BY <1>1, <1>2 DEF OnLockInv, InvAmong
<1>4. PICK live \in SUBSET Procs : live = Procs \ crashed
  OBVIOUS
<1>5. InvAmong(live) /\ Operating(live) /\ at \in [Procs -> L!Places] /\ crashed \subseteq Procs
  BY <1>3, <1>4, InvInParts DEF OnLockInv, Locks!LockInv, Locks!LockTypeOK, Locks!Places, L!Places
<1>6. ASSUME UNCHANGED lockState PROVE holders' = holders /\ live = (Procs \ crashed)'
  BY <1>1, <1>3, <1>4, <1>6 DEF L!Holding, lockState
<1>7. CASE Environment /\ UNCHANGED lockState
  <2>1. InvAmong(live)'
    BY <1>5, <1>6, <1>7, Surroundings
  <2>2. pc' = pc
    BY <1>7 DEF Environment, ExpirePlan, ExpireGrant, Revoke, Land, Refuse, WriteOutside, local
  <2> QED
    BY <1>3, <1>4, <1>6, <1>7, <2>1, <2>2 DEF Queueing, lockState
<1>8. CASE L!Age /\ UNCHANGED state
  <2>1. at' = at /\ crashed' = crashed /\ holders' = holders /\ pc' = pc
    BY <1>1, <1>3, <1>8 DEF L!Age, L!Holding, state, local
  <2>2. InvAmong(live)'
    BY <1>1, <1>2, <1>5, <1>8, <2>1, LockMoves DEF Operating
  <2> QED
    BY <1>3, <1>4, <2>1, <2>2 DEF Queueing
<1>9. ASSUME NEW p \in live, AcquireResource(p) PROVE InvAmong(Procs \ crashed)' /\ Queueing'
  <2>1. /\ pc[p] = "wait" /\ UNCHANGED state /\ crashed' = crashed /\ pc' = pc
        /\ \A q \in Procs \ {p} : at'[q] = at[q]
    BY <1>5, <1>9 DEF AcquireResource, L!Want, L!Acquiring, L!MakeDirectory, L!Stat, L!RemoveStale, L!Look, L!Move,
       state, local
  <2>2. holders' \subseteq live /\ \A q \in live \ {p} : q \in holders' <=> q \in holders
    BY <1>1, <1>3, <1>4, <2>1 DEF L!Holding
  <2>3. InvAmong(live)'
    BY <1>1, <1>2, <1>5, <2>1, <2>2, LockMoves DEF Operating, Around
  <2> QED
    BY <1>3, <1>4, <2>1, <2>3 DEF Queueing
<1>10. ASSUME NEW p \in live, BusyOnLock(p) PROVE InvAmong(Procs \ crashed)' /\ Queueing'
  <2>1. /\ at[p] = "stat" /\ at' = [at EXCEPT ![p] = "idle"] /\ crashed' = crashed
        /\ Stop(p) /\ pc' = [pc EXCEPT ![p] = "leave"]
    BY <1>10 DEF BusyOnLock, L!GiveUp, L!Look, L!Move, Stop, Pass, GoTo
  <2>2. pc[p] = "wait" /\ holders' = holders
    BY <1>1, <1>3, <1>4, <1>5, <2>1 DEF Queueing, L!Holding
  <2>3. InvAmong(live)'
    BY <1>5, <2>1, <2>2, ComingAndGoing DEF Doing
  <2> QED
    BY <1>3, <1>4, <1>5, <2>1, <2>3 DEF Queueing, TypeOK
<1>11. ASSUME NEW p \in live, ReleaseResource(p) PROVE InvAmong(Procs \ crashed)' /\ Queueing'
  <2>1. /\ Forget(p) /\ at' = [at EXCEPT ![p] = "idle"] /\ crashed' = crashed
        /\ pc' = [pc EXCEPT ![p] = "out"]
    BY <1>5, <1>11 DEF ReleaseResource, L!Release, L!Move, Forget, lockState
  <2>2. holders' = holders \ {p}
    BY <1>1, <1>3, <1>5, <2>1 DEF L!Holding
  <2>3. InvAmong(live)'
    BY <1>5, <2>1, <2>2, ComingAndGoing DEF Release
  <2> QED
    BY <1>3, <1>4, <1>5, <2>1, <2>3 DEF Queueing, TypeOK
<1>12. ASSUME NEW p \in live, Die(p) PROVE InvAmong(Procs \ crashed)' /\ Queueing'
  <2>1. UNCHANGED state /\ pc' = pc /\ at' = at /\ crashed' = crashed \cup {p}
    BY <1>12 DEF Die, L!Crash, state, local
  <2>2. holders' = holders \ {p}
    BY <1>1, <1>3, <2>1 DEF L!Holding
  <2>3. PICK less \in SUBSET live : less = live \ {p}
    OBVIOUS
  <2>4. InvAmong(less)'
    BY <1>1, <1>2, <1>5, <2>1, <2>2, <2>3, LockMoves DEF Operating
  <2>5. less = (Procs \ crashed)'
    BY <1>4, <2>1, <2>3
  <2> QED
    BY <1>3, <2>1, <2>4, <2>5 DEF Queueing
<1>13. ASSUME NEW p \in live, Work(p), UNCHANGED lockState PROVE InvAmong(Procs \ crashed)' /\ Queueing'
  <2>1. InvAmong(live)'
    BY <1>5, <1>6, <1>13, Serving, ComingAndGoing DEF Work
  <2>2. ASSUME NEW q \in live, at[q] \in {"mkdir", "stat", "rmdir"} PROVE pc'[q] = "wait"
    <3>1. pc[q] = "wait" /\ q \notin holders
      BY <1>3, <1>4, <2>2 DEF Queueing, L!Holding
    <3> QED
      BY <1>3, <1>13, <3>1, WorkMovesOne, WaitersWait
  <2> QED
    BY <1>4, <1>6, <1>13, <2>1, <2>2 DEF Queueing, lockState
<1> QED
  BY <1>4, <1>7, <1>8, <1>9, <1>10, <1>11, <1>12, <1>13 DEF NextOnLock, StepOnLock

-----------------------------------------------------------------------------
(* What is written stays, whatever the lock does                             *)

Rows == receipt = [g \in Grants |-> receipt[g]] /\ outcome = [g \in Grants |-> outcome[g]]

\* terminalReceipt writes where nothing is; recordAction where nothing else is.
NewReceipt == \E g, r : receipt[g] = None /\ receipt' = [receipt EXCEPT ![g] = r]
NewOutcome == \E g, o : outcome[g] \in {None, o} /\ outcome' = [outcome EXCEPT ![g] = o]

LEMMA Writes ==
  ASSUME NextOnLock
  PROVE  (UNCHANGED receipt \/ NewReceipt) /\ (UNCHANGED outcome \/ NewOutcome)
<1>1. ASSUME NEW p, Work(p) PROVE (UNCHANGED receipt \/ NewReceipt) /\ (UNCHANGED outcome \/ NewOutcome)
  <2>1. CASE WriteReceipt(p) \/ Interrupt(p)
    BY <2>1 DEF WriteReceipt, Interrupt, Stop, Pass, files, control, NewReceipt
  <2>2. CASE Cancel(p) \/ Reject(p) \/ RecordNoEffect(p) \/ RecordSuccess(p) \/ RecordConflict(p) \/ EnsureTerminal(p)
    <3>1. \E o, place : Record(p, o, place) \/ TryRecord(p, o, place)
      BY <2>2 DEF Cancel, Reject, RecordNoEffect, RecordSuccess, RecordConflict, EnsureTerminal
    <3> QED
      BY <3>1 DEF Record, TryRecord, Recordable, Stop, Pass, files, control, NewOutcome
  <2>3. CASE UNCHANGED <<receipt, outcome>>
    BY <2>3
  <2>4. \/ UNCHANGED <<receipt, outcome>> \/ WriteReceipt(p) \/ Interrupt(p)
        \/ Cancel(p) \/ Reject(p) \/ RecordNoEffect(p) \/ RecordSuccess(p) \/ RecordConflict(p) \/ EnsureTerminal(p)
    BY <1>1 DEF Work, Call, Serve, Enter, Settle, Unreadable, StartExecute, StartReconcile, StartRollback, ClaimGrant,
       KeepClaim, Revalidate, Nullify, Announce, StartEffect, Mutate, Answered, Rejected, Verify, Close, Garbled,
       Unanswered, Draft, WriteIntent, Stop, Pass, files, control
  <2> QED
    BY <2>1, <2>2, <2>3, <2>4
<1>2. CASE Environment
  BY <1>2 DEF Environment, ExpirePlan, ExpireGrant, Revoke, Land, Refuse, WriteOutside, files, control
<1>3. CASE UNCHANGED state
  BY <1>3 DEF state, files, control
<1>4. ASSUME NEW p, BusyOnLock(p) \/ ReleaseResource(p) PROVE UNCHANGED <<receipt, outcome>>
  BY <1>4 DEF BusyOnLock, ReleaseResource, Stop, Pass, Forget, files, control
<1> QED
  BY <1>1, <1>2, <1>3, <1>4 DEF NextOnLock, StepOnLock, AcquireResource, Die

-----------------------------------------------------------------------------
(* Theorems                                                                 *)

\* Whatever the executor goes through, what its intents, its receipts and the
\* control plane say of a grant agrees with what was sent to the provider, and
\* the operation that holds the resource is where these records allow.
THEOREM RecordsAgree == Spec => []ExecutorInv
<1>1. ExecutorInv /\ [Next]_vars => ExecutorInv'
  BY NextKeepsInv
<1> QED
  BY <1>1, Initially, PTL DEF Spec

\* A grant reaches the provider at most once, whatever crashes and however
\* often the caller asks again (executeApprovedChange, rollbackExecution).
THEOREM ReachesProviderOnce == Spec => []NeverReplayed
<1>1. ExecutorInv => NeverReplayed
  BY DEF ExecutorInv, InvAmong, GrantInv, NeverReplayed
<1> QED
  BY <1>1, RecordsAgree, PTL

\* Before a request there are a claim and an "executing" record in the control
\* plane, and an intent that a restart does not take for a fresh one.
THEOREM EffectsHaveRecords == Spec => []EffectIsAccountable
<1>1. ExecutorInv => EffectIsAccountable
  BY DEF ExecutorInv, InvAmong, TypeOK, GrantInv, Untouched, EffectIsAccountable
<1> QED
  BY <1>1, RecordsAgree, PTL

\* What was cancelled as its authority ended (revalidateClaimBeforeEffect,
\* finishAuthorityCancellation) has not reached the provider.
THEOREM CancellationsHaveNoEffect == Spec => []CancelledMeansUntouched
<1>1. ExecutorInv => CancelledMeansUntouched
  BY DEF ExecutorInv, InvAmong, TypeOK, GrantInv, Untouched, CancelledMeansUntouched
<1> QED
  BY <1>1, RecordsAgree, PTL

\* The control plane's success is the receipt on disk, with the approved
\* post-image (terminalReceipt before recordAction).
THEOREM SuccessesHaveReceipts == Spec => []SuccessIsReceipted
<1>1. ExecutorInv => SuccessIsReceipted
  BY DEF ExecutorInv, InvAmong
<1> QED
  BY <1>1, RecordsAgree, PTL

\* A local end is backed by the control plane's record, or by a receipt.
THEOREM EndsAreBacked == Spec => []LocalEndsAreBacked
<1>1. ExecutorInv => LocalEndsAreBacked
  BY DEF ExecutorInv, InvAmong
<1> QED
  BY <1>1, RecordsAgree, PTL

\* What the executor asks of the control plane (claimGrant, recordAction), and
\* what it relies on between its calls, is what GrantAuthority allows: one
\* claim while the authority stands, one "executing", one terminal record.
THEOREM ControlPlaneIsUsedAsPromised == Spec => UsesGrantAuthority
<1>1. ExecutorInv /\ [Next]_vars => [\A g \in Grants : Authority(g)!Next \/ UNCHANGED Authority(g)!authority]_vars
  BY StepsAreAllowed DEF Allowed
<1> QED
  BY <1>1, RecordsAgree, PTL DEF Spec, UsesGrantAuthority

\* The same on the lock the executor has: for any executors, crashes and
\* interleavings of mkdir, stat and rmdir, the records of every grant agree,
\* and the operations of the processes that live are where these allow, until
\* an rmdir removes another directory than its process had found too old.
THEOREM RecordsAgreeOnLock ==
  ASSUME None \notin L!Lock
  PROVE  SpecOnLock => []OnLockInv
<1>1. InitOnLock => OnLockInv
  <2> SUFFICES ASSUME InitOnLock PROVE OnLockInv
    OBVIOUS
  <2>1. Locks!ResourceLockAssumption
    BY ExecutorAssumption DEF Locks!ResourceLockAssumption, Locks!Lock, L!Lock
  <2>2. Locks!LockInit
    BY DEF InitOnLock, L!LockInit, Locks!LockInit
  <2>3. Locks!LockInv
    BY <2>1, <2>2, Locks!InitiallyUnlocked
  <2>4. holders = L!Holding /\ Queueing /\ Procs \ crashed = Procs
    BY DEF InitOnLock, Init, L!LockInit, L!Holding, Queueing
  <2> QED
    BY <2>3, <2>4, Initially DEF InitOnLock, ExecutorInv, OnLockInv
<1>2. OnLockInv /\ [NextOnLock]_allVars => OnLockInv'
  <2>1. ASSUME OnLockInv, NextOnLock PROVE OnLockInv'
    BY <2>1, OnLockSteps
  <2>2. ASSUME OnLockInv, UNCHANGED allVars PROVE OnLockInv'
    <3>1. UNCHANGED <<vars, state, lockState, local>>
      BY <2>2 DEF allVars, vars, state
    <3>2. Locks!LockInv'
      BY <2>2, LockStays DEF OnLockInv
    <3>3. L!Holding' = L!Holding /\ holders' = holders /\ crashed' = crashed /\ pc' = pc /\ at' = at
      BY <3>1 DEF vars, local, lockState, L!Holding
    <3>4. ASSUME ~misplaced PROVE InvAmong(Procs \ crashed)'
      <4>1. PICK live \in SUBSET Procs : live = Procs \ crashed
        OBVIOUS
      <4>2. InvAmong(live)
        BY <2>2, <3>4, <4>1 DEF OnLockInv
      <4>3. InvAmong(live)'
        BY <3>1, <3>3, <4>2, LockMoves, InvInParts DEF Operating
      <4> QED
        BY <3>3, <4>1, <4>3
    <3>5. Queueing => Queueing'
      BY <3>3 DEF Queueing
    <3> QED
      BY <2>2, <3>1, <3>2, <3>3, <3>4, <3>5 DEF OnLockInv, lockState
  <2> QED
    BY <2>1, <2>2
<1> QED
  BY <1>1, <1>2, PTL DEF SpecOnLock

\* A change reaches the provider twice, or a record contradicts what was sent,
\* only if withResourceLock removed a directory that was not the one it saw.
THEOREM LockIsAllThatIsNeeded ==
  ASSUME None \notin L!Lock
  PROVE  SpecOnLock => []SafeUnlessMisplaced
<1>1. OnLockInv => SafeUnlessMisplaced
  BY DEF OnLockInv, InvAmong, TypeOK, GrantInv, Untouched, SafeUnlessMisplaced,
     NeverReplayed, EffectIsAccountable, CancelledMeansUntouched
<1> QED
  BY <1>1, RecordsAgreeOnLock, PTL

\* ... and until then it asks of the control plane what GrantAuthority allows.
THEOREM ControlPlaneIsUsedAsPromisedOnLock ==
  ASSUME None \notin L!Lock
  PROVE  SpecOnLock => [][misplaced' \/ \A g \in Grants : Authority(g)!Next \/ UNCHANGED Authority(g)!authority]_vars
<1>1. ASSUME OnLockInv, NextOnLock, ~misplaced' PROVE \A h \in Grants : Allowed(h)
  <2>1. InvAmong(Procs \ crashed)
    BY <1>1, LockStays DEF OnLockInv
  <2>2. PICK live \in SUBSET Procs : live = Procs \ crashed /\ InvAmong(live)
    BY <2>1
  <2>3. CASE Environment
    BY <2>3, SurroundingsAreAllowed
  <2>4. CASE UNCHANGED state
    BY <2>4, Unasked DEF state, authority
  <2>5. ASSUME NEW p \in live, BusyOnLock(p) \/ ReleaseResource(p) PROVE \A h \in Grants : Allowed(h)
    BY <2>5, Unasked DEF BusyOnLock, ReleaseResource, Stop, Pass, Forget, authority
  <2>6. ASSUME NEW p \in live, Work(p) PROVE \A h \in Grants : Allowed(h)
    BY <2>2, <2>6, ClaimIsAllowed, AnnouncementIsAllowed, RecordsAreAllowed, RestIsUnasked DEF Work, Serve
  <2> QED
    BY <1>1, <2>2, <2>3, <2>4, <2>5, <2>6 DEF NextOnLock, StepOnLock, AcquireResource, Die
<1>2. OnLockInv /\ [NextOnLock]_allVars
        => [misplaced' \/ \A g \in Grants : Authority(g)!Next \/ UNCHANGED Authority(g)!authority]_vars
  BY <1>1 DEF Allowed, allVars
<1> QED
  BY <1>2, RecordsAgreeOnLock, PTL DEF SpecOnLock

\* Even if two operations of one resource run at once: a receipt that was
\* written and a terminal record never change (terminalReceipt, recordAction).
THEOREM EvidenceStays == SpecOnLock => EvidenceIsImmutable
<1>1. InitOnLock => Rows
  BY DEF InitOnLock, Init, Rows
<1>2. ASSUME Rows, [NextOnLock]_allVars PROVE Rows'
  <2>1. UNCHANGED receipt \/ NewReceipt
    BY <1>2, Writes DEF allVars, vars, state, files
  <2>2. UNCHANGED outcome \/ NewOutcome
    BY <1>2, Writes DEF allVars, vars, state, control
  <2>3. receipt' = [g \in Grants |-> receipt'[g]]
    BY <1>2, <2>1 DEF Rows, NewReceipt
  <2>4. outcome' = [g \in Grants |-> outcome'[g]]
    BY <1>2, <2>2 DEF Rows, NewOutcome
  <2> QED
    BY <2>3, <2>4 DEF Rows
<1>3. ASSUME Rows, [NextOnLock]_allVars
      PROVE  [\A g \in Grants :
                /\ receipt[g] \in Receipt => receipt'[g] = receipt[g]
                /\ outcome[g] # None => outcome'[g] = outcome[g]]_<<receipt, outcome>>
  <2>1. UNCHANGED receipt \/ NewReceipt
    BY <1>3, Writes DEF allVars, vars, state, files
  <2>2. UNCHANGED outcome \/ NewOutcome
    BY <1>3, Writes DEF allVars, vars, state, control
  <2>3. \A g \in Grants : receipt[g] \in Receipt => receipt'[g] = receipt[g]
    BY <1>3, <2>1, RecordAssumption DEF Rows, NewReceipt
  <2>4. \A g \in Grants : outcome[g] # None => outcome'[g] = outcome[g]
    BY <1>3, <2>2 DEF Rows, NewOutcome
  <2> QED
    BY <2>3, <2>4
<1> QED
  BY <1>1, <1>2, <1>3, PTL DEF SpecOnLock, EvidenceIsImmutable
=============================================================================
