--------------------------- MODULE ReadinessCases ---------------------------
(* Questions to the decisions of CompositeRules and AgentRules, which keep  *)
(* no state: each is one value of the variable question.                    *)
EXTENDS CompositeRules, AgentRules

VARIABLE question

\* The values of a set of questions that differ in the fields of a record.
Altered(q, changes) == {[f \in DOMAIN q |-> IF f \in DOMAIN c THEN c[f] ELSE q[f]] : c \in changes}

-----------------------------------------------------------------------------
(* Receipts of a plugin with two provider tools, at the instant 2           *)

Instant == 2
Providers == {"a", "b"}

Declarations ==
  {<<[tool |-> "a", requirement |-> "required", access |-> "read-only"],
     [tool |-> t, requirement |-> r, access |-> "read-write"]>> :
     t \in Providers, r \in {"required", "optional"}}

Receipts == [target : {"t"}, observed : 1..3, expires : 2..4]
Expectations == UNION {[S -> Receipts] : S \in SUBSET Providers}

\* Each tool that is not reported unavailable is reported as it is.
ObservationOf(d, expected, unavailable) ==
  IF d.tool \in unavailable
  THEN [tool |-> d.tool, requirement |-> d.requirement, access |-> d.access, state |-> "unavailable",
        target |-> "", observed |-> 0, expires |-> 0]
  ELSE [tool |-> d.tool, requirement |-> d.requirement, access |-> d.access, state |-> "ready",
        target |-> expected[d.tool].target, observed |-> expected[d.tool].observed,
        expires |-> expected[d.tool].expires]

HonestReceipt(dependencies, expected, unavailable) ==
  LET ready == ToolsOf(dependencies) \ unavailable
      lost == {dependencies[i].requirement : i \in {j \in DOMAIN dependencies : dependencies[j].tool \in unavailable}}
      last == IF ready = {} THEN Instant ELSE Max({expected[t].observed : t \in ready})
      first == IF ready = {} THEN Instant ELSE Min({expected[t].expires : t \in ready})
      providers == [i \in DOMAIN dependencies |-> ObservationOf(dependencies[i], expected, unavailable)]
  IN  [installation |-> "this", providers |-> providers,
       coverage |-> IF "required" \in lost THEN "unavailable" ELSE IF lost # {} THEN "partial" ELSE "complete",
       result |-> IF "required" \in lost THEN "failed" ELSE "passed",
       promotion |-> lost = {}, observed |-> last, expires |-> first,
       fingerprint |-> {<<o.tool, o.requirement, o.access, o.target>> :
                          o \in {providers[i] : i \in {j \in DOMAIN providers : providers[j].state = "ready"}}}]

Dishonest(e) ==
  Altered(e, {[installation |-> "other"], [fingerprint |-> {}], [promotion |-> TRUE],
              [result |-> "passed"], [coverage |-> "complete"], [coverage |-> "partial"],
              [coverage |-> "complete", result |-> "passed"],
              [observed |-> 1], [observed |-> 3], [expires |-> 3], [expires |-> 4],
              [providers |-> <<e.providers[1]>>],
              [providers |-> Append(e.providers, e.providers[1])],
              [providers |-> <<e.providers[2], e.providers[1]>>]})
    \cup UNION {{[e EXCEPT !.providers[i] = o] :
                   o \in Altered(e.providers[i],
                           {[tool |-> "a"], [tool |-> "b"], [tool |-> "c"], [requirement |-> "optional"],
                            [access |-> "read-only"], [target |-> "u"], [observed |-> 2], [expires |-> 4]})} :
                 i \in {1, 2}}

\* What is installed when a tool is unavailable for the reason why.
Member(t, unavailable, why) ==
  [tool     |-> IF t \in unavailable /\ why = "absent" THEN (IF t = "a" THEN "x" ELSE "y") ELSE t,
   manifest |-> t \notin unavailable \/ why # "manifest",
   access   |-> IF t \in unavailable /\ why = "access" THEN "write-only"
                ELSE IF t = "a" THEN "read-only" ELSE "read-write",
   status   |-> IF t \in unavailable /\ why = "status" THEN "missing" ELSE "authenticated"]

Answerable(dependencies, expected) ==
  {u \in SUBSET ToolsOf(dependencies) : ToolsOf(dependencies) \ u \subseteq DOMAIN expected}

EvidenceOf(d, x, u) ==
  LET honest == HonestReceipt(d, x, u)
  IN  {[kind |-> "evidence", dependencies |-> d, expected |-> x, unavailable |-> u,
        honest |-> e = honest, evidence |-> e] : e \in {honest} \cup Dishonest(honest)}

EvidenceAsked ==
  \E d \in Declarations, x \in Expectations :
    \E u \in Answerable(d, x) : question \in EvidenceOf(d, x, u)

CoverageAsked ==
  question \in [kind : {"coverage"}, dependencies : {d \in Declarations : Distinct(d, ToolOf)},
                unavailable : SUBSET Providers, why : {"absent", "manifest", "access", "status"}]

-----------------------------------------------------------------------------
(* Results of capabilities: one is required, the other may be               *)

Expected(capability, required) == [capability |-> capability, source |-> "s", required |-> required]

Contracts ==
  {<<Expected("c", TRUE)>>}
    \cup {<<Expected("c", TRUE), Expected(k, r)>> : k \in {"c", "d"}, r \in BOOLEAN}

Windows == {<<1, 2>>, <<2, 4>>, <<2, 2>>, <<0, 3>>}
Results ==
  {[capability |-> k, source |-> s, required |-> r, status |-> st, observed |-> w[1], until |-> w[2]] :
     k \in {"c", "d"}, s \in {"s"}, r \in BOOLEAN,
     st \in {"success", "failed", "cancelled", "odd"}, w \in Windows}

CompositionAsked ==
  question \in [kind : {"composition"}, expected : Contracts,
                results : {<<>>} \cup {<<r>> : r \in Results} \cup (Results \X Results)]

-----------------------------------------------------------------------------
(* Agents with one binding that varies, beside a required skill; the        *)
(* package of that binding; and something that is amiss                     *)

Steady == [name |-> "steady", kind |-> "skill", package |-> "p/skill", version |-> 1,
           requirement |-> "required", access |-> "", available |-> TRUE]

Bindings ==
  {[name |-> "it", kind |-> k, package |-> "p/it", version |-> 1, requirement |-> r,
    access |-> a, available |-> v] :
     k \in {"skill", "tool"}, r \in {"required", "optional"}, a \in {"read-only", "read-write"}, v \in BOOLEAN}

Usabilities == {"usable-now", "setup-required", "not-verified", "documentation-only"}

PackagesOf(usability) ==
  [p \in {"p/skill", "p/it"} |-> [version |-> 1, usability |-> IF p = "p/it" THEN usability ELSE "usable-now"]]

AgentOf(binding) ==
  [id |-> "p/agent", version |-> 1, orchestrated |-> TRUE, bindings |-> {binding, Steady},
   model |-> {"m"}, memory |-> "none", governance |-> "none", dependencies |-> {"p/skill"}, tools |-> {}]

Writes == [approval |-> FALSE, writes |-> TRUE]
Reads == [approval |-> FALSE, writes |-> FALSE]

AgentQuestion(binding, usability, authenticated, governance, approve) ==
  LET agent == AgentOf(binding)
      contract == Compile(agent, "generic", PackagesOf(usability))
  IN  [kind |-> "agent", amiss |-> "nothing", agent |-> agent, binding |-> binding, usability |-> usability,
       installed |-> [receipt |-> TRUE, closure |-> TRUE, contract |-> contract, spec |-> TRUE,
                      packages |-> PackagesOf(usability), authenticated |-> authenticated,
                      governance |-> Reads, memory |-> TRUE],
       options |-> [runtime |-> "generic", overrides |-> NotGiven, memory |-> NotGiven,
                    governance |-> governance, approve |-> approve, trusted |-> TRUE, stateDir |-> TRUE,
                    now |-> Skew + Day,
                    attestation |-> [signed |-> TRUE, contract |-> contract, issued |-> Skew + 1,
                                     expires |-> Skew + 1 + Day, capabilities |-> {"m", "n"}]]]

Unlisted == [name |-> "new", package |-> "p/it", version |-> 1, requirement |-> "",
             access |-> "", status |-> "", endpoint |-> TRUE]

\* The same with one thing amiss.
Amiss(q) ==
  {[q EXCEPT !.amiss = "receipt", !.installed.receipt = FALSE],
   [q EXCEPT !.amiss = "closure", !.installed.closure = FALSE],
   [q EXCEPT !.amiss = "spec", !.installed.spec = FALSE],
   [q EXCEPT !.amiss = "contract", !.installed.contract = NotGiven],
   [q EXCEPT !.amiss = "contract", !.installed.contract.status = "ready", !.installed.contract.runtime = "codex"],
   [q EXCEPT !.amiss = "contract", !.installed.contract.bindings = {c \in @ : c.binding = Steady}],
   [q EXCEPT !.amiss = "overrides", !.options.overrides = CompiledTools(q.installed.contract) \cup {Unlisted}],
   [q EXCEPT !.amiss = "overrides", !.options.overrides = Unreadable],
   [q EXCEPT !.amiss = "memory", !.options.memory = Unreadable],
   [q EXCEPT !.amiss = "attestation", !.options.attestation = NotGiven],
   [q EXCEPT !.amiss = "attestation", !.options.trusted = FALSE],
   [q EXCEPT !.amiss = "attestation", !.options.now = q.options.attestation.expires],
   [q EXCEPT !.amiss = "attestation", !.options.now = q.options.attestation.issued - Skew - 1],
   [q EXCEPT !.amiss = "attestation", !.options.attestation.issued = q.options.attestation.expires - Day - 1],
   [q EXCEPT !.amiss = "attestation", !.options.attestation.signed = FALSE],
   [q EXCEPT !.amiss = "attestation", !.options.attestation.contract = NotGiven],
   [q EXCEPT !.amiss = "attestation", !.options.attestation.capabilities = {"n"}]}

AgentAsked ==
  \E b \in Bindings, u \in Usabilities, authenticated \in {{}, {"p/it"}},
     g \in {NotGiven, Writes, Reads}, approve \in BOOLEAN :
    LET q == AgentQuestion(b, u, authenticated, g, approve)
    IN  question = q \/ question \in Amiss(q)

\* An agent without orchestration: its one tool is bound by the user.
LegacyQuestion(packages, overrides, governance) ==
  LET q == AgentQuestion(Steady, "usable-now", {}, governance, TRUE)
  IN  [q EXCEPT !.kind = "legacy",
                !.agent = [q.agent EXCEPT !.orchestrated = FALSE, !.tools = {"p/it"}],
                !.installed = [q.installed EXCEPT !.packages = packages, !.receipt = FALSE, !.contract = NotGiven],
                !.options = [q.options EXCEPT !.overrides = overrides]]

LegacyAsked ==
  \E status \in {"", "ready", "down"}, access \in {"read-only", "read-write"}, endpoint \in BOOLEAN,
     present \in BOOLEAN, bound \in BOOLEAN, g \in {Writes, Reads} :
    LET packages == [p \in {"p/skill"} \cup (IF present THEN {"p/it"} ELSE {}) |->
                       [version |-> 1, usability |-> "usable-now"]]
        tool == [name |-> "p/it", package |-> "", version |-> 0, requirement |-> "",
                 access |-> access, status |-> status, endpoint |-> endpoint]
    IN  question = LegacyQuestion(packages, IF bound THEN {tool} ELSE NotGiven, g)

Asked == EvidenceAsked \/ CoverageAsked \/ CompositionAsked \/ AgentAsked \/ LegacyAsked

-----------------------------------------------------------------------------
(* Properties *)

\* "A stored composite receipt is not authoritative unless every ready
\* observation matches this current state" (composite.go:64): what is accepted
\* as passed vouches for every required provider, now and until it expires, as
\* complete for every provider; what reports the current state is accepted;
\* and the status of the plugin (composite_status.go:87) covers the same.
EvidenceIsEarned ==
  /\ question.kind = "evidence" =>
       LET e == question.evidence
           expected == question.expected
           declared == question.dependencies
           tools == {declared[i].tool : i \in DOMAIN declared}
           required == {declared[i].tool : i \in {j \in DOMAIN declared : declared[j].requirement = "required"}}
           Current(t) == t \in DOMAIN expected /\ expected[t].observed <= Instant /\ Instant < expected[t].expires
           Covered(t) == Current(t) /\ expected[t].observed <= e.observed /\ e.expires <= expected[t].expires
           accepted == EvidenceIsValid(e, "this", declared, expected, Instant)
       IN  /\ accepted => /\ e.installation = "this" /\ Cardinality(tools) = Len(declared)
                          /\ e.result = "passed" => \A t \in required : Covered(t)
                          /\ e.coverage = "complete" => \A t \in tools : Covered(t)
                          /\ e.promotion => e.coverage = "complete"
           /\ (/\ question.honest /\ Cardinality(tools) = Len(declared) /\ DOMAIN expected \subseteq tools
               /\ \A t \in tools \ question.unavailable : Current(t)) => accepted
  /\ question.kind = "coverage" =>
       LET declared == question.dependencies
           report == CompositeStatus(declared, [i \in DOMAIN declared |->
                       Member(declared[i].tool, question.unavailable, question.why)])
           lost == {i \in DOMAIN declared : declared[i].tool \in question.unavailable}
           required == {i \in lost : declared[i].requirement = "required"}
       IN  /\ report.ready = (required = {}) /\ report.setup = (lost # {})
           /\ report.coverage = (IF required # {} THEN "unavailable"
                                  ELSE IF lost # {} THEN "partial" ELSE "complete")

\* "Returned results cannot add, remove, or reclassify requirements", and
\* precedence is "order-independent" (composition.go:10 and 36): success means
\* one valid success for every required capability and no failure, and lasts
\* no longer than any result; a valid cancellation is never hidden; results in
\* another order amount to the same.
CompositionIsAccountable ==
  question.kind = "composition" =>
    LET expected == question.expected
        results == question.results
        composed == Composed(expected, results)
        Sound(r) == 0 < r.observed /\ r.observed < r.until
    IN  /\ composed.status = "success" =>
             /\ \A i \in DOMAIN expected : expected[i].required =>
                  \E j \in DOMAIN results :
                    /\ results[j].capability = expected[i].capability
                    /\ results[j].status = "success" /\ Sound(results[j])
                    /\ \A k \in DOMAIN results : results[k].capability = expected[i].capability => k = j
             /\ \A j \in DOMAIN results :
                  /\ results[j].status = "success" /\ composed.until <= results[j].until
                  /\ \E i \in DOMAIN expected : /\ expected[i].capability = results[j].capability
                                                /\ expected[i].required = results[j].required
        /\ (\E j \in DOMAIN results : results[j].status = "cancelled" /\ Sound(results[j]))
             => composed.status = "cancelled"
        /\ Composed(expected, [i \in DOMAIN results |-> results[Len(results) + 1 - i]]) = composed

\* An agent that preflight calls ready has, as things are now, every required
\* binding at its pinned version and usable, its tools authenticated where that
\* was left to do when it was compiled, an attested model, and permission for
\* what it writes (run.go:91); and one that has all that is ready.
PreflightIsAccountable ==
  /\ question.kind = "agent" =>
       LET b == question.binding
           usable == \/ question.usability = "usable-now"
                     \/ b.kind = "skill" /\ question.usability = "documentation-only"
                     \/ /\ b.kind = "tool" /\ question.usability = "setup-required"
                        /\ question.installed.authenticated = {"p/it"}
           governance == IF question.options.governance = NotGiven THEN [approval |-> TRUE, writes |-> FALSE]
                         ELSE question.options.governance
           accountable ==
             /\ b.requirement = "required" =>
                  /\ b.available /\ usable
                  /\ b.kind = "tool" /\ b.access = "read-write" => governance.writes
             /\ governance.approval => question.options.approve
           answer == Preflight(question.agent, question.installed, question.options)
       IN  (answer = "ready") = (accountable /\ question.amiss = "nothing")
  /\ question.kind = "legacy" =>
       ((Preflight(question.agent, question.installed, question.options) = "ready") =
          (/\ "p/it" \in DOMAIN question.installed.packages
           /\ question.options.overrides # NotGiven
           /\ \A t \in question.options.overrides :
                /\ t.status # "down" /\ t.endpoint
                /\ t.access = "read-write" => question.options.governance.writes))
=============================================================================
