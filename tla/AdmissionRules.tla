--------------------------- MODULE AdmissionRules ---------------------------
(***************************************************************************)
(* What the registry lets in (registry/admission.go), what the publisher   *)
(* packs out of it (scripts/prepare-public-assets.mjs), and what a client  *)
(* lets in of a package it has downloaded (admission.go again).            *)
(*                                                                         *)
(* A package of the repository is [kind, version, runtimes, refs, access,  *)
(* auth, providers, bindings]; a repository is a function from identifiers *)
(* to packages.  A reference names a package or, in a skill's tools, a     *)
(* file of the repository; identifiers of the two have different shapes.   *)
(* A digest stands for the content it is a digest of.                      *)
(***************************************************************************)
EXTENDS CompositeRules

CONSTANT RepositoryFiles   \* references that are files, not packages

-----------------------------------------------------------------------------
(* Closures *)

\* What is met in one more step from a set of identifiers; an identifier that
\* is not there is met and leads nowhere.
Spread(edges, S) == S \cup UNION {edges[k] : k \in S \cap DOMAIN edges}

\* Everything that is met on the way from the roots, breadth first: no way that
\* meets no identifier twice has more steps than there are identifiers.
Reachable(roots, edges) ==
  LET met[n \in Nat] == IF n = 0 THEN roots ELSE Spread(edges, met[n - 1])
  IN  met[Cardinality(DOMAIN edges)]

\* The descents of a search, depth first, that are one step longer: what is
\* being visited, and what is met.
Deeper(edges, descents) ==
  UNION {{<<t[1] \cup {t[2]}, d>> : d \in edges[t[2]]} :
           t \in {u \in descents : u[2] \in DOMAIN edges \ u[1]}}

\* An identifier is met that is still being visited.
HasCycle(edges) ==
  LET descents[n \in Nat] == IF n = 0 THEN {<<{}, k>> : k \in DOMAIN edges}
                             ELSE Deeper(edges, descents[n - 1])
  IN  \E n \in 0..Cardinality(DOMAIN edges) : \E t \in descents[n] : t[2] \in t[1]

-----------------------------------------------------------------------------
(* ValidateRepository *)

SharesRuntime(left, right) == left \cap right # {} \/ "generic" \in left \cup right

EdgesOf(repository) == [k \in DOMAIN repository |-> repository[k].refs \ RepositoryFiles]

ReferenceIsAdmissible(package, reference, repository) ==
  IF reference \in DOMAIN repository
  THEN SharesRuntime(package.runtimes, repository[reference].runtimes)
  ELSE package.kind = "skill" /\ reference \in RepositoryFiles

ProviderIsGoverned(provider, repository) ==
  provider.tool \in DOMAIN repository =>
    /\ repository[provider.tool].auth # "none"
    /\ provider.access = repository[provider.tool].access

PinIsAdmissible(binding, repository) ==
  binding.availability = "resolved" =>
    /\ binding.package \in DOMAIN repository
    /\ repository[binding.package].kind = binding.kind
    /\ repository[binding.package].version = binding.version
    /\ binding.kind = "tool" => repository[binding.package].access = binding.access

GraphIsAdmissible(repository) ==
  /\ \A k \in DOMAIN repository :
       LET package == repository[k]
       IN  /\ \A r \in package.refs : ReferenceIsAdmissible(package, r, repository)
           /\ \A p \in ToSet(package.providers) : ProviderIsGoverned(p, repository)
           /\ \A b \in ToSet(package.bindings) : PinIsAdmissible(b, repository)
  /\ ~HasCycle(EdgesOf(repository))

-----------------------------------------------------------------------------
(* The publisher.  The plugin is packed with the packages it refers to, and *)
(* they with theirs; what is not in the registry is left out.               *)

Referenced(package, repository) == package.refs \cap DOMAIN repository

Packed(plugin, repository) ==
  Reachable(Referenced(plugin, repository),
            [k \in DOMAIN repository |-> Referenced(repository[k], repository)])

\* What of an archive has a checksum, and what its provenance speaks of.
Files(archive) ==
  [f \in {"lock", "sbom", "provenance"} \cup DOMAIN archive.bundled |->
     CASE f = "lock" -> archive.lock [] f = "sbom" -> archive.sbom
       [] f = "provenance" -> archive.provenance [] OTHER -> archive.bundled[f]]

Subject(archive) ==
  [f \in {"lock"} \cup DOMAIN archive.bundled |->
     IF f = "lock" THEN archive.lock ELSE archive.bundled[f]]

Component(k, member) ==
  [key |-> k, version |-> member.version, digest |-> member, edges |-> member.refs]

\* addArtifactMetadata, in the order in which one part digests the others.
Publish(plugin, repository) ==
  LET bundled == [k \in Packed(plugin, repository) |->
                    [version |-> repository[k].version, refs |-> repository[k].refs, content |-> k]]
      Locked(k) == [Component(k, bundled[k]) EXCEPT !.edges = Referenced(repository[k], repository)]
      components == SetToSeq({Locked(k) : k \in DOMAIN bundled})
      lock == [root |-> plugin.version, components |-> components]
      roots == Referenced(plugin, repository)
      sbom == [root |-> plugin.version,
               components |-> [i \in DOMAIN components |->
                 [key |-> components[i].key, version |-> components[i].version, digest |-> components[i].digest]],
               top |-> roots, graph |-> [k \in DOMAIN bundled |-> Referenced(repository[k], repository)]]
      unsigned == [version |-> plugin.version, refs |-> plugin.refs, bundled |-> bundled, lock |-> lock, sbom |-> sbom,
                   provenance |-> [root |-> plugin.version, subject |-> <<>>, materials |-> {}], checksums |-> <<>>]
      provenance == [root |-> plugin.version, subject |-> Subject(unsigned),
                     materials |-> {<<c.key, c.version, c.digest>> : c \in ToSet(components)}]
      unsummed == [unsigned EXCEPT !.provenance = provenance]
  IN  [unsummed EXCEPT !.checksums = Files(unsummed)]

-----------------------------------------------------------------------------
(* validateArtifactMetadata *)

KeyOf(c) == c.key
Keys(components) == {components[i].key : i \in DOMAIN components}

\* The identifiers among what a manifest names.
Named(refs) == refs \ RepositoryFiles

ComponentIsBundled(c, archive) ==
  /\ c.key \in DOMAIN archive.bundled
  /\ c = [Component(c.key, archive.bundled[c.key]) EXCEPT !.edges = Named(@)]

\* Mutation: what nothing leads to may be locked and bundled.
ClosureMayBeLarger(lock, roots) ==
  LET edges == [k \in Keys(lock.components) |-> (CHOOSE c \in ToSet(lock.components) : c.key = k).edges]
  IN  Reachable(roots, edges) \subseteq Keys(lock.components) /\ ~HasCycle(edges)

\* The locked components are those the roots lead to, and nothing leads back.
LockIsClosed(lock, roots) ==
  LET edges == [k \in Keys(lock.components) |-> (CHOOSE c \in ToSet(lock.components) : c.key = k).edges]
  IN  Reachable(roots, edges) = Keys(lock.components) /\ ~HasCycle(edges)

LockHolds(archive) ==
  LET lock == archive.lock
  IN  /\ lock.root = archive.version
      /\ Distinct(lock.components, KeyOf)
      /\ \A c \in ToSet(lock.components) : ComponentIsBundled(c, archive)
      /\ DOMAIN archive.bundled \subseteq Keys(lock.components)
      /\ LockIsClosed(lock, Named(archive.refs))

SbomHolds(archive) ==
  LET locked == archive.lock.components
      sbom == archive.sbom
  IN  /\ sbom.root = archive.lock.root /\ Len(sbom.components) = Len(locked)
      /\ ToSet(sbom.components) = {[key |-> c.key, version |-> c.version, digest |-> c.digest] : c \in ToSet(locked)}
      /\ sbom.top = Named(archive.refs)
      /\ DOMAIN sbom.graph = Keys(locked)
      /\ \A c \in ToSet(locked) : sbom.graph[c.key] = c.edges

ProvenanceHolds(archive) ==
  /\ archive.provenance.root = archive.version
  /\ archive.provenance.subject = Subject(archive)
  /\ archive.provenance.materials = {<<c.key, c.version, c.digest>> : c \in ToSet(archive.lock.components)}

ArchiveIsAdmissible(archive) ==
  /\ archive.checksums = Files(archive)
  /\ LockHolds(archive) /\ SbomHolds(archive) /\ ProvenanceHolds(archive)

-----------------------------------------------------------------------------
(* validatePackage, by the parts of a manifest that others rely on.  A path  *)
(* is [local, inside, is]: package-relative as it is written, still inside   *)
(* the package once links are followed, and what it leads to.                *)

PathIsContained(path, kind) == path.local /\ path.inside /\ path.is = kind

\* A driver is [method, flow, mode, runtimes, commands]; a command is its path,
\* whether that is executable, and whether its arguments are free of secrets.
DriverIsAdmissible(driver, method, flow, runtimes) ==
  /\ driver.method = method /\ driver.flow = flow
  /\ driver.mode \in {"", "driver", "external-env"}
  /\ runtimes \subseteq driver.runtimes
  /\ \A c \in driver.commands : PathIsContained(c.path, "file") /\ c.executable /\ c.safe

\* Only a key or a token can do without one.
MayLackDriver(method) == method \in {"api-key", "bearer-token"}

\* validateProviderDependencyDeclarations
ProvidersAreAdmissible(providers, tools, auth) ==
  providers # <<>> =>
    /\ ToolsOf(providers) \subseteq tools
    /\ Distinct(providers, ToolOf)
    /\ \E i \in DOMAIN providers : providers[i].requirement = "required"
    /\ auth = "required"

NameOf(b) == b.name

\* validateOrchestrationContract: a contract is [selection, model, bindings], a
\* resolved binding pins a dependency, and every dependency is pinned.
BindingIsAdmissible(b, dependencies) ==
  /\ b.kind \in {"agent", "skill", "tool"} /\ b.requirement \in {"required", "optional"}
  /\ b.kind = "tool" => b.access \in {"read-only", "read-write"}
  /\ \/ /\ b.availability = "resolved"
        /\ b.version # 0 /\ <<b.kind, b.package>> \in dependencies
     \/ /\ b.availability = "unavailable"
        /\ b.package = "" /\ b.version = 0 /\ b.reason

\* Mutation: a dependency may be left unpinned.
ContractIsAdmissibleUnpinned(contract, dependencies) ==
  /\ contract.selection = "runtime-selected" /\ contract.model # {}
  /\ contract.bindings # <<>> /\ Distinct(contract.bindings, NameOf)
  /\ \A b \in ToSet(contract.bindings) : BindingIsAdmissible(b, dependencies)

ContractIsAdmissible(contract, dependencies) ==
  /\ contract.selection = "runtime-selected" /\ contract.model # {}
  /\ contract.bindings # <<>> /\ Distinct(contract.bindings, NameOf)
  /\ \A b \in ToSet(contract.bindings) : BindingIsAdmissible(b, dependencies)
  /\ dependencies \subseteq {<<b.kind, b.package>> : b \in ToSet(contract.bindings)}

-----------------------------------------------------------------------------
(* loadAuthDriver and pinDriverCommand of readiness/readiness.go, which read *)
(* the driver again once it is installed, for one runtime.                   *)

CommandIsPinnable(c) == c.path.local /\ c.path.is = "file" /\ c.executable /\ c.safe

DriverIsLoadable(driver, method, flow, runtime) ==
  /\ driver.method = method /\ driver.flow = flow /\ runtime \in driver.runtimes
  /\ \A c \in driver.commands : CommandIsPinnable(c)
=============================================================================
