----------------------------- MODULE AgentRules -----------------------------
(***************************************************************************)
(* An agent from its compilation to its preflight: what the compiler makes *)
(* of each binding of the manifest (installer/agent.go), and when          *)
(* RunPreflight calls the installed agent ready (agents/run.go).  Neither  *)
(* keeps state; the compiled contract is a file between them, written when *)
(* the agent is installed and read when it is about to run.                *)
(*                                                                         *)
(* agent      what agent.yaml declares                                     *)
(* installed  what is on disk now: whether the receipt and the closure     *)
(*            verify, the contract (NotGiven if it does not parse), AGENT.md,  *)
(*            the packages with their manifests, the bundled profiles      *)
(* options    the command line, the files it names, and the clock          *)
(***************************************************************************)
EXTENDS Integers, FiniteSets

CONSTANTS Skew,       \* how far an attestation may be issued ahead: 5 minutes
          Day,        \* how long it may be good for: 24 hours
          NotGiven,   \* a file or profile that is not there
          Unreadable  \* a file that does not parse

ASSUME AgentRulesAssumption == Skew \in Nat /\ Day \in Nat \ {0}

-----------------------------------------------------------------------------
(* Compilation.  A binding is [name, kind, package, version, requirement,   *)
(* access, available]; a package is [version, usability].                   *)

\* dependencyRuntimeStatus
RuntimeStatus(kind, usability) ==
  CASE kind = "skill" /\ usability = "documentation-only" -> "ready"
    [] usability = "usable-now"                           -> "ready"
    [] usability = "setup-required"                       -> "setup-required"
    [] OTHER                                              -> "not-ready"

Pinned(binding, packages) ==
  binding.package \in DOMAIN packages /\ packages[binding.package].version = binding.version

CompiledStatus(binding, packages) ==
  IF ~binding.available THEN "unavailable"
  ELSE IF ~Pinned(binding, packages) THEN "missing"
  ELSE RuntimeStatus(binding.kind, packages[binding.package].usability)

\* Every package has an endpoint, that of a server or its own directory.
CompiledBinding(binding, packages) ==
  LET status == CompiledStatus(binding, packages)
  IN  [binding  |-> binding, status |-> status,
       path     |-> IF binding.available THEN binding.package ELSE NotGiven,
       endpoint |-> binding.kind = "tool" /\ status \notin {"unavailable", "missing"}]

\* compileAgentRuntimePackage
Compile(agent, runtime, packages) ==
  LET bindings == {CompiledBinding(b, packages) : b \in agent.bindings}
      unready == {c.status : c \in {d \in bindings : d.binding.requirement = "required"}} \ {"ready"}
  IN  [agent   |-> <<agent.id, agent.version>>, runtime |-> runtime,
       model   |-> agent.model, memory |-> agent.memory, governance |-> agent.governance,
       status  |-> IF unready = {} THEN "ready"
                   ELSE IF unready = {"setup-required"} THEN "setup-required" ELSE "blocked",
       bindings |-> bindings]

-----------------------------------------------------------------------------
(* The contract against the manifest                                        *)

\* compiledAgentContractIntegrityReasons: none.
Integral(contract, agent, runtime) ==
  /\ contract.runtime = runtime /\ contract.agent = <<agent.id, agent.version>>
  /\ contract.status \in {"ready", "setup-required", "blocked"}
  /\ <<contract.model, contract.memory, contract.governance>>
       = <<agent.model, agent.memory, agent.governance>>
  /\ {c.binding : c \in contract.bindings} = agent.bindings
  /\ Cardinality(contract.bindings) = Cardinality(agent.bindings)
  /\ \A c \in contract.bindings :
       /\ c.status \in {"ready", "setup-required", "not-ready", "missing", "unavailable"}
       /\ IF c.binding.available THEN c.path = c.binding.package ELSE c.status = "unavailable"
       /\ c.binding.kind = "tool" /\ c.status = "ready" => c.endpoint

\* verifyModelAttestation: an adapter's statement on just this contract.
Attested(contract, attestation, trusted, now) ==
  \/ contract.model = {}
  \/ /\ trusted /\ attestation # NotGiven
     /\ attestation.signed /\ attestation.contract = contract
     /\ 0 < attestation.issued /\ attestation.issued <= now + Skew
     /\ now < attestation.expires /\ attestation.issued < attestation.expires
     /\ attestation.expires - attestation.issued <= Day
     /\ attestation.capabilities # {} /\ contract.model \subseteq attestation.capabilities

\* compiledAgentContractReadinessReasons, the model apart: none.
Resolved(contract, options) ==
  /\ contract.status # "blocked"
  /\ contract.memory = "required at runtime" => options.memory # NotGiven
  /\ contract.governance = "required at runtime" => options.governance # NotGiven
  /\ \A c \in contract.bindings :
       c.binding.requirement = "required" /\ c.binding.kind # "tool" => c.status = "ready"

-----------------------------------------------------------------------------
(* Tools.  A tool binding is [name, package, version, requirement, access,  *)
(* status, endpoint], from the contract or, for an agent without            *)
(* orchestration, from a file of the user's.                                *)

CompiledTools(contract) ==
  {[name |-> c.binding.name, package |-> c.binding.package, version |-> c.binding.version,
    requirement |-> c.binding.requirement, access |-> c.binding.access,
    status |-> c.status, endpoint |-> c.endpoint] :
     c \in {d \in contract.bindings : d.binding.kind = "tool"}}

\* Mutation: a status that was obtained is taken for a good one.
RefreshedAnyStatus(tool, installed, options) ==
  IF tool.status = "setup-required" /\ options.stateDir /\ Pinned(tool, installed.packages)
  THEN [tool EXCEPT !.status = "ready"] ELSE tool

\* refreshAuthenticationStatus: a setup may be complete by now.
Refreshed(tool, installed, options) ==
  IF /\ tool.status = "setup-required" /\ options.stateDir
     /\ Pinned(tool, installed.packages)
     /\ tool.package \in installed.authenticated
  THEN [tool EXCEPT !.status = "ready"]
  ELSE tool

\* toolBindingReadiness does not block.
ToolIsReady(tool) ==
  tool.requirement = "optional" \/ (tool.status \in {"", "ready"} /\ tool.endpoint)

\* What the agent may write with, and nobody allowed.
Ungoverned(tool, governance) ==
  ~governance.writes /\ tool.access = "read-write" /\ tool.requirement # "optional"

-----------------------------------------------------------------------------
(* RunPreflight                                                             *)

SafeDefaults == [approval |-> TRUE, writes |-> FALSE]

\* The profile in force: the user's, the bundled one, or the safe defaults.
GovernanceOf(agent, installed, options) ==
  IF options.governance # NotGiven THEN options.governance
  ELSE IF agent.orchestrated /\ agent.governance = "bundled" THEN installed.governance
  ELSE SafeDefaults

Unparsed(agent, installed, options) ==
  \/ options.overrides = Unreadable \/ options.memory = Unreadable
  \/ GovernanceOf(agent, installed, options) = Unreadable
  \/ options.memory = NotGiven /\ agent.orchestrated /\ agent.memory = "bundled" /\ ~installed.memory

\* The contract the rest of the preflight goes by, or NotGiven.
Contract(agent, installed, options) ==
  IF /\ agent.orchestrated /\ installed.receipt /\ installed.closure
     /\ installed.contract # NotGiven
     /\ Integral(installed.contract, agent, options.runtime)
  THEN installed.contract ELSE NotGiven

Orchestrated(agent, installed, options) ==
  LET contract == Contract(agent, installed, options)
  IN  /\ contract # NotGiven
      /\ Attested(contract, options.attestation, options.trusted, options.now)
      /\ Resolved(contract, options)
      /\ options.overrides \in {NotGiven, {}}

ToolNames(agent) ==
  IF agent.orchestrated THEN {b.name : b \in {c \in agent.bindings : c.kind = "tool"}}
  ELSE agent.tools

Tools(agent, installed, options) ==
  LET contract == Contract(agent, installed, options)
      given == IF contract # NotGiven THEN CompiledTools(contract)
               ELSE IF agent.orchestrated \/ options.overrides = NotGiven THEN {}
               ELSE options.overrides
  IN  {Refreshed(t, installed, options) : t \in {u \in given : u.name \in ToolNames(agent)}}

\* A tool that is named by its package has to be there.
ToolsArePresent(agent, installed) ==
  agent.orchestrated \/ agent.tools \subseteq DOMAIN installed.packages

Preflight(agent, installed, options) ==
  LET tools == Tools(agent, installed, options)
      governance == GovernanceOf(agent, installed, options)
  IN  IF Unparsed(agent, installed, options) THEN "error"
      ELSE IF /\ agent.orchestrated => Orchestrated(agent, installed, options)
              /\ installed.spec
              /\ agent.dependencies \subseteq DOMAIN installed.packages
              /\ ToolsArePresent(agent, installed)
              /\ ToolNames(agent) = {t.name : t \in tools}
              /\ \A t \in tools : ToolIsReady(t) /\ ~Ungoverned(t, governance)
              /\ governance.approval => options.approve
           THEN "ready" ELSE "blocked"
=============================================================================
