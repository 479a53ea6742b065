--------------------------- MODULE AdmissionCases ---------------------------
(* Questions to the decisions of AdmissionRules: repositories of a skill, an *)
(* agent, a tool and a plugin; the archives packed out of them; and          *)
(* manifests together with those who will read them after their admission.   *)
EXTENDS AdmissionRules, ReadinessCases

-----------------------------------------------------------------------------
(* Repositories.  Each package refers to any others; the skill may name a    *)
(* file; the plugin governs the tool; the agent pins the skill.              *)

Ids == {"agent", "skill", "tool"}

PackageOf(k, refs) ==
  [kind |-> k, version |-> 1, runtimes |-> {"codex"}, refs |-> refs, access |-> "read-only",
   auth |-> "required", providers |-> <<>>, bindings |-> <<>>]

Pin == [kind |-> "skill", package |-> "skill", version |-> 1, access |-> "", availability |-> "resolved"]

RepositoryOf(ids, edges, roots) ==
  [k \in ids \cup {"plugin"} |->
     CASE k = "plugin" -> [PackageOf(k, roots) EXCEPT !.providers = <<[tool |-> "tool", access |-> "read-only"]>>]
       [] k = "agent"  -> [PackageOf(k, edges[k]) EXCEPT !.bindings = IF "skill" \in edges[k] THEN <<Pin>> ELSE <<>>]
       [] OTHER        -> PackageOf(k, edges[k])]

\* A repository with a package that is another than its dependents expect.
Variants(r) ==
  {r} \cup (IF "tool" \in DOMAIN r THEN {[r EXCEPT !["tool"].runtimes = {"claude"}], [r EXCEPT !["tool"].runtimes = {"generic"}],
                                         [r EXCEPT !["tool"].access = "read-write"], [r EXCEPT !["tool"].auth = "none"]}
            ELSE {})
      \cup (IF "skill" \in DOMAIN r THEN {[r EXCEPT !["skill"].version = 2], [r EXCEPT !["skill"].refs = @ \cup {"file"}],
                                         [r EXCEPT !["skill"].refs = @ \cup {"nothing"}]} ELSE {})
      \cup {[r EXCEPT !["plugin"].refs = @ \cup {"file"}]}

RepositoryAsked ==
  \E ids \in {Ids, Ids \ {"tool"}}, edges \in [Ids -> SUBSET Ids], roots \in SUBSET Ids :
    \E r \in Variants(RepositoryOf(ids, edges, roots)) : question = [kind |-> "repository", repository |-> r]

-----------------------------------------------------------------------------
(* Archives that something happened to after, or in, their publication       *)

Acyclic == {e \in [Ids -> SUBSET Ids] : ~HasCycle(e)}

Extra == [version |-> 1, refs |-> {}, content |-> "extra"]
Extras(archive) == [k \in DOMAIN archive.bundled \cup {"extra"} |->
                      IF k = "extra" THEN Extra ELSE archive.bundled[k]]
Without(f, k) == [x \in DOMAIN f \ {k} |-> f[x]]

\* What a publisher would make of other parts, with every digest right.
Resigned(archive) ==
  LET signed == [archive EXCEPT
        !.provenance.subject = Subject(archive),
        !.provenance.materials = {<<c.key, c.version, c.digest>> : c \in {archive.lock.components[i] : i \in DOMAIN archive.lock.components}}]
  IN  [signed EXCEPT !.checksums = Files(signed)]

Locking(archive, components) ==
  [archive EXCEPT !.lock.components = components,
     !.sbom.components = [i \in DOMAIN components |->
        [key |-> components[i].key, version |-> components[i].version, digest |-> components[i].digest]],
     !.sbom.graph = [k \in Keys(components) |-> components[CHOOSE i \in DOMAIN components : components[i].key = k].edges]]

\* Errors of a publisher: it locks more, less or other than it should.
Mispublished(a) ==
  {Resigned([Locking(a, Append(a.lock.components, Component("extra", Extra))) EXCEPT !.bundled = Extras(a)]),
   Resigned([a EXCEPT !.bundled = Extras(a)]), Resigned([a EXCEPT !.lock.root = 2]), Resigned([a EXCEPT !.version = 2])}
  \cup {Resigned(Locking(a, SelectSeq(a.lock.components, LAMBDA c : c.key # k))) : k \in DOMAIN a.bundled}
  \cup {Resigned([Locking(a, SelectSeq(a.lock.components, LAMBDA c : c.key # k)) EXCEPT !.bundled = Without(@, k)]) :
          k \in DOMAIN a.bundled}
  \cup {Resigned(Locking(a, [i \in DOMAIN a.lock.components |->
          IF a.lock.components[i].key = k THEN [a.lock.components[i] EXCEPT !.edges = Ids \ @] ELSE a.lock.components[i]])) :
          k \in DOMAIN a.bundled}
  \cup {Resigned([a EXCEPT !.sbom.graph[k] = Ids \ @]) : k \in DOMAIN a.bundled}
  \cup {Resigned([a EXCEPT !.sbom.top = Ids \ @])}

\* Files that changed, went or came after the digests were taken.
Tampered(a) ==
  {[a EXCEPT !.bundled[k].content = "other"] : k \in DOMAIN a.bundled}
  \cup {[a EXCEPT !.bundled = Without(@, k)] : k \in DOMAIN a.bundled}
  \cup {[a EXCEPT !.bundled = Extras(a)], [a EXCEPT !.checksums = Without(@, "lock")],
        [a EXCEPT !.provenance.materials = {}, !.provenance.subject = Without(@, "lock")]}

\* Each of them with what was asked of it: the repository it is packed from.
ArchiveAsked ==
  \E edges \in Acyclic, roots \in SUBSET Ids :
    LET r == RepositoryOf(Ids, edges, roots)
        published == Publish(r["plugin"], r)
    IN  \/ question = [kind |-> "archive", plugin |-> r["plugin"], archive |-> published, amiss |-> FALSE]
        \/ \E a \in Mispublished(published) \cup Tampered(published) :
             question = [kind |-> "archive", plugin |-> r["plugin"], archive |-> a, amiss |-> a # published]

-----------------------------------------------------------------------------
(* Manifests and their readers                                               *)

InPackage == [local |-> TRUE, inside |-> TRUE, is |-> "file"]
Command(path) == [path |-> path, executable |-> TRUE, safe |-> TRUE]
Driver == [method |-> "custom", flow |-> "custom", mode |-> "", runtimes |-> {"codex", "claude"},
           commands |-> {Command(InPackage)}]

DriverAsked ==
  \E runtimes \in SUBSET {"codex", "claude"}, linked \in BOOLEAN, is \in {"file", "directory", "nothing"},
     method \in {"custom", "service-account"}, mode \in {"", "external-env", "odd"},
     declared \in SUBSET {"codex", "claude"}, executable \in BOOLEAN :
    question = [kind |-> "driver", runtimes |-> declared,
                driver |-> [Driver EXCEPT !.method = method, !.mode = mode, !.runtimes = runtimes,
                              !.commands = @ \cup {[Command([local |-> TRUE, inside |-> ~linked, is |-> is])
                                                     EXCEPT !.executable = executable]}]]

Provider(t, r) == [tool |-> t, requirement |-> r, access |-> "read-only"]
ProviderLists ==
  LET some == {Provider(t, r) : t \in Providers, r \in {"required", "optional"}}
  IN  {<<>>} \cup {<<p>> : p \in some} \cup (some \X some)

ProvidersAsked ==
  question \in [kind : {"providers"}, providers : ProviderLists, tools : SUBSET Providers,
                declared : {"required", "optional"}, access : {"read-only", "read-write"}, auth : {"required", "none"}]

\* Contracts of up to two bindings, right or wrong, of an agent's dependencies.
ContractBindings ==
  {[name |-> n, kind |-> k[1], package |-> k[2], version |-> v, requirement |-> r, access |-> a,
    availability |-> "resolved", reason |-> FALSE] :
     n \in {"one", "two"}, k \in {<<"skill", "p/skill">>, <<"tool", "p/it">>}, v \in {0, 1},
     r \in {"required", "optional"}, a \in {"read-only", "any"}}
  \cup {[name |-> "two", kind |-> "tool", package |-> "", version |-> 0, requirement |-> r, access |-> "read-only",
         availability |-> "unavailable", reason |-> w] : r \in {"required", "optional"}, w \in BOOLEAN}

ContractAsked ==
  \E bindings \in {<<>>} \cup {<<b>> : b \in ContractBindings} \cup (ContractBindings \X ContractBindings),
     dependencies \in SUBSET {<<"skill", "p/skill">>, <<"tool", "p/it">>} :
    question = [kind |-> "contract", bindings |-> bindings, dependencies |-> dependencies]

AdmissionAsked == RepositoryAsked \/ ArchiveAsked \/ DriverAsked \/ ProvidersAsked \/ ContractAsked

\* The agent of a contract, once the packages it pins are installed.
AgentOfContract(q) ==
  LET declared == {q.bindings[i] : i \in DOMAIN q.bindings}
      agent == [AgentOf(Steady) EXCEPT
                  !.bindings = {[name |-> b.name, kind |-> b.kind, package |-> b.package, version |-> b.version,
                                 requirement |-> b.requirement, access |-> b.access,
                                 available |-> b.availability = "resolved"] : b \in declared},
                  !.dependencies = {d[2] : d \in {e \in q.dependencies : e[1] = "skill"}}]
      pinned == {b \in declared : b.availability = "resolved"}
      packages == [p \in {b.package : b \in pinned} |->
                     [version |-> (CHOOSE b \in pinned : b.package = p).version, usability |-> "usable-now"]]
      contract == Compile(agent, "generic", packages)
      base == AgentQuestion(Steady, "usable-now", {}, Writes, TRUE)
  IN  Preflight(agent,
        [base.installed EXCEPT !.contract = contract, !.packages = packages],
        [base.options EXCEPT !.attestation.contract = contract])

-----------------------------------------------------------------------------
(* Properties *)

\* The dependency lock of an archive is its closure (validateArtifactMetadata,
\* admission.go:541): of a repository that was admitted every plugin's archive
\* is; an archive is admitted if and only if what its plugin refers to, directly
\* or not, is all there, has no cycle, and nothing else, and every digest,
\* edge, component and material is the one that was packed.
LockIsTheClosure ==
  /\ question.kind = "repository" =>
       LET r == question.repository
           Near(k) == r[k].refs \ RepositoryFiles
           archive == Publish(r["plugin"], r)
           IsClosed(S) == \A k \in S \cup {"plugin"} : Near(k) \cap DOMAIN r \subseteq S
           needed == {k \in DOMAIN r : \A S \in SUBSET DOMAIN r : IsClosed(S) => k \in S}
           complete == \A k \in needed \cup {"plugin"} : Near(k) \subseteq DOMAIN r
           cyclic == \E C \in (SUBSET needed) \ {{}} : \A k \in C : r[k].refs \cap C # {}
       IN  /\ GraphIsAdmissible(r) => ArchiveIsAdmissible(archive)
           /\ ArchiveIsAdmissible(archive) = (complete /\ ~cyclic)
           /\ ArchiveIsAdmissible(archive) => DOMAIN archive.bundled = needed
  /\ question.kind = "archive" => ArchiveIsAdmissible(question.archive) = ~question.amiss

\* What was admitted does not fail later for how it is declared: a driver loads
\* for each runtime of its package (readiness.go:1118), the providers of a
\* plugin can all be ready (composite_status.go:87), and an agent whose pinned
\* packages are installed and usable is ready unless a binding it requires is
\* declared unavailable (run.go:91).
AdmittedIsUsable ==
  /\ question.kind = "driver" =>
       (DriverIsAdmissible(question.driver, "custom", "custom", question.runtimes)
          => \A r \in question.runtimes : DriverIsLoadable(question.driver, "custom", "custom", r))
  /\ question.kind = "providers" =>
       LET target == [access |-> question.access, auth |-> question.auth]
           governed == \A p \in {question.providers[i] : i \in DOMAIN question.providers} :
                         ProviderIsGoverned(p, [t \in question.tools |-> target])
           closure == SetToSeq({[tool |-> t, manifest |-> TRUE, access |-> question.access,
                                 status |-> IF question.auth = "none" THEN "none" ELSE "authenticated"] :
                                t \in question.tools})
       IN  /\ ProvidersAreAdmissible(question.providers, question.tools, question.declared) /\ governed
           /\ question.providers # <<>>
           => CompositeStatus(question.providers, closure) = [coverage |-> "complete", ready |-> TRUE, setup |-> FALSE]
  /\ question.kind = "contract" =>
       (ContractIsAdmissible([selection |-> "runtime-selected", model |-> {"m"}, bindings |-> question.bindings],
                             question.dependencies)
          => (AgentOfContract(question) = "ready") =
               (\A i \in DOMAIN question.bindings :
                  question.bindings[i].requirement = "required" => question.bindings[i].availability = "resolved"))
=============================================================================
