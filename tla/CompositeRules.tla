--------------------------- MODULE CompositeRules ---------------------------
(***************************************************************************)
(* Workflows that stand on several sources, each observed on its own:      *)
(* which receipt of a plugin's provider tools is accepted                  *)
(* (readiness/composite.go), what the plugin reports of them               *)
(* (readiness/composite_status.go), and what a composition of capability   *)
(* results amounts to (agents/composition.go).  None of them keeps state.  *)
(*                                                                         *)
(* A provider dependency is [tool, requirement, access].  What the current *)
(* receipts say of a tool is [target, observed, expires]: target stands    *)
(* for the version, the fingerprint and the digest, which are compared and *)
(* never parsed.  Instants are naturals; 0 is the zero time.               *)
(***************************************************************************)
EXTENDS Integers, Sequences, FiniteSets, SequencesExt

Distinct(seq, key(_)) == \A i, j \in DOMAIN seq : key(seq[i]) = key(seq[j]) => i = j

ToolOf(x) == x.tool
ToolsOf(seq) == {seq[i].tool : i \in DOMAIN seq}
DeclarationOf(dependencies, tool) ==
  dependencies[CHOOSE i \in DOMAIN dependencies : dependencies[i].tool = tool]

-----------------------------------------------------------------------------
(* ValidateCompositeReadinessEvidence                                       *)

\* What the schema lets through.
WellFormed(e) ==
  /\ Len(e.providers) \in 1..16
  /\ e.result = "failed" => e.coverage = "unavailable"
  /\ e.promotion => e.result = "passed" /\ e.coverage = "complete"

Ready(e) == {e.providers[i] : i \in {j \in DOMAIN e.providers : e.providers[j].state = "ready"}}

\* Distinct tools, as many as declared, each declared as observed.
CoversDeclarations(e, dependencies) ==
  /\ Distinct(dependencies, ToolOf) /\ Distinct(e.providers, ToolOf)
  /\ Len(e.providers) = Len(dependencies)
  /\ \A i \in DOMAIN e.providers :
       LET o == e.providers[i]
       IN  /\ o.tool \in ToolsOf(dependencies)
           /\ o.requirement = DeclarationOf(dependencies, o.tool).requirement
           /\ o.access = DeclarationOf(dependencies, o.tool).access

\* Mutation: an observation that is the current one is not asked for its age.
BoundTimelessly(o, expected, now) ==
  /\ o.tool \in DOMAIN expected
  /\ expected[o.tool] = [target |-> o.target, observed |-> o.observed, expires |-> o.expires]

\* A ready observation is the one the current receipts have, and it lasts.
Bound(o, expected, now) ==
  /\ o.tool \in DOMAIN expected
  /\ expected[o.tool] = [target |-> o.target, observed |-> o.observed, expires |-> o.expires]
  /\ 0 < o.observed /\ o.observed <= now
  /\ now < o.expires /\ o.observed < o.expires

\* The coverage of a workflow some of whose providers are unavailable.
Coverage(requirements) ==
  IF "required" \in requirements THEN "unavailable"
  ELSE IF "optional" \in requirements THEN "partial" ELSE "complete"

MissingOf(e) ==
  {e.providers[i].requirement : i \in {j \in DOMAIN e.providers : e.providers[j].state # "ready"}}

ResultOf(coverage) == IF coverage = "unavailable" THEN "failed" ELSE "passed"

\* As old as the latest observation, good for as long as the first to end.
Chronology(e, ready) ==
  IF ready = {} THEN e.expires = e.observed
  ELSE /\ e.observed \in {o.observed : o \in ready} /\ \A o \in ready : o.observed <= e.observed
       /\ e.expires \in {o.expires : o \in ready} /\ \A o \in ready : e.expires <= o.expires

\* CompositeWorkflowTargetFingerprint digests just this.
Fingerprint(ready) == {<<o.tool, o.requirement, o.access, o.target>> : o \in ready}

EvidenceIsValid(e, installation, dependencies, expected, now) ==
  /\ WellFormed(e)
  /\ e.installation = installation
  /\ CoversDeclarations(e, dependencies)
  /\ \A o \in Ready(e) : Bound(o, expected, now)
  /\ DOMAIN expected \subseteq ToolsOf(e.providers)
  /\ e.coverage = Coverage(MissingOf(e)) /\ e.result = ResultOf(e.coverage)
  /\ e.promotion => e.coverage = "complete"
  /\ e.observed <= now
  /\ Chronology(e, Ready(e))
  /\ e.fingerprint = Fingerprint(Ready(e))

-----------------------------------------------------------------------------
(* CompositeStatus, once the closure of the plugin is verified.  A member   *)
(* of the installed closure is [tool, version, manifest, access, status]:   *)
(* the version, whether its manifest is valid now and is that version's,    *)
(* the access it declares, and what Status answers for just that package.   *)

ProviderIsReady(dependency, closure) ==
  \E i \in DOMAIN closure :
    LET member == closure[i]
    IN  /\ member.tool = dependency.tool
        /\ member.manifest
        /\ member.access = dependency.access
        /\ member.status = "authenticated"

CompositeStatus(dependencies, closure) ==
  IF dependencies = <<>> \/ ~Distinct(closure, ToolOf)
  THEN [coverage |-> "error", ready |-> FALSE, setup |-> FALSE]
  ELSE LET missing == {dependencies[i].requirement :
                         i \in {j \in DOMAIN dependencies : ~ProviderIsReady(dependencies[j], closure)}}
       IN  [coverage |-> Coverage(missing),
            ready    |-> "required" \notin missing,
            setup    |-> missing # {}]

-----------------------------------------------------------------------------
(* ComposeCapabilityResults: expected is a sequence of [capability, source, *)
(* required], results of [capability, source, required, status, observed,   *)
(* until].  Of two expectations of a capability the first one counts.       *)

Capability(x) == x.capability

Naming(expected, capability) == {i \in DOMAIN expected : expected[i].capability = capability}
Expectation(expected, capability) == expected[Min(Naming(expected, capability))]

Timely(r) == 0 < r.observed /\ r.observed < r.until
Valid(r) == r.status \in {"success", "unavailable", "failed", "cancelled"} /\ Timely(r)

\* Does a result answer for a required capability, whatever it says itself?
AnswersRequired(r, expected) ==
  Naming(expected, r.capability) # {} /\ Expectation(expected, r.capability).required

AsExpected(r, expected) ==
  /\ Naming(expected, r.capability) # {}
  /\ LET want == Expectation(expected, r.capability)
     IN  want.source = r.source /\ want.required = r.required

Missing(expected, results) ==
  {x \in ToSet(expected) : x = Expectation(expected, x.capability) /\ x.required
                           /\ \A r \in ToSet(results) : r.capability # x.capability}

Minimum(instants) == IF instants = {} THEN 0 ELSE Min(instants)

\* Mutation: a result that came without an instant is skipped.
ComposedStatusLenient(expected, results) ==
  LET given == ToSet(results) valid == {r \in given : Valid(r)}
      failed == {r \in valid : r.status \in {"unavailable", "failed"}}
  IN  IF \E r \in valid : r.status = "cancelled" THEN "cancelled"
      ELSE IF \/ ~Distinct(expected, Capability) \/ ~Distinct(results, Capability)
              \/ \E r \in given : ~AsExpected(r, expected)
           THEN "ambiguous"
      ELSE IF \/ Missing(expected, results) # {}
              \/ \E r \in failed : AnswersRequired(r, expected)
           THEN "unavailable"
      ELSE IF failed # {} THEN "partial" ELSE "success"

ComposedStatus(expected, results) ==
  LET given == ToSet(results)
      failed == {r \in given : ~Valid(r) \/ r.status \in {"unavailable", "failed"}}
  IN  IF \E r \in given : Valid(r) /\ r.status = "cancelled" THEN "cancelled"
      ELSE IF \/ ~Distinct(expected, Capability) \/ ~Distinct(results, Capability)
              \/ \E r \in given : ~AsExpected(r, expected)
           THEN "ambiguous"
      ELSE IF \/ Missing(expected, results) # {}
              \/ \E r \in failed : AnswersRequired(r, expected)
           THEN "unavailable"
      ELSE IF failed # {} THEN "partial" ELSE "success"

Composed(expected, results) ==
  LET valid == {r \in ToSet(results) : Valid(r)}
  IN  [status   |-> ComposedStatus(expected, results),
       sources  |-> {r.source : r \in ToSet(results)},
       observed |-> Minimum({r.observed : r \in valid}),
       until    |-> Minimum({r.until : r \in valid})]
=============================================================================
