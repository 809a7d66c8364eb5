--------------------------- MODULE Compatibility ----------------------------
(***************************************************************************)
(* Deterministic compatibility (compatibility.cpp): Fabric::validate looks *)
(* up the descriptor that is registered and compares it with a target,     *)
(* factor by factor; the report names the generation it is about, and      *)
(* explain_compatibility (explain.cpp) renders it.  Meanwhile the adapter   *)
(* may be registered again.  Texts are known by what they say.             *)
(***************************************************************************)
EXTENDS Naturals, Sequences, SequencesExt

CONSTANTS
    Descriptors,    \* what callers register (a set of descriptor records)
    Targets,        \* what callers validate against (target records)
    Nil,            \* the nil id
    Nothing,        \* not registered, not asked
    MaxRegistered   \* bound: registrations, below saturation

ASSUME CompatibilityAssumption ==
    /\ MaxRegistered \in Nat
    /\ Nothing \notin Descriptors \cup Targets

\* The lists of a descriptor, with what is compared of their elements.
TargetModule == [in_features : Nat, out_features : Nat]
Dependency == [version : STRING]
RuntimeCapability == [name : STRING, value : STRING, required : BOOLEAN]

ASSUME DescriptorAssumption ==
    \A d \in Descriptors : /\ d.targets \in Seq(TargetModule)
                           /\ d.dependencies \in Seq(Dependency)
                           /\ d.capabilities \in Seq(RuntimeCapability)

VARIABLES
    descriptor,     \* the descriptor of the adapter in the registry
    generation,     \* its generation, 0 before it is registered
    asked,          \* history: the target of the last validate
    report          \* what the last validate returned

compatibilityVars == <<descriptor, generation, asked, report>>

-----------------------------------------------------------------------------
(* evaluate_compatibility.                                                 *)

Accepted(name) == <<[name |-> name, status |-> "accepted"]>>
Rejected(name) == <<[name |-> name, status |-> "rejected"]>>
Missing(name) == <<[name |-> name, status |-> "missing"]>>

Judged(name, accepted) == IF accepted THEN Accepted(name) ELSE Rejected(name)

IdFactor(name, declared, wanted) ==
    Judged(name, declared = wanted /\ declared # Nil)

TargetsFactor(d) ==
    Judged("targets",
           /\ d.targets # <<>>
           /\ \A i \in DOMAIN d.targets : 0 \notin {d.targets[i].in_features,
                                                   d.targets[i].out_features})

RankFactor(d) ==
    Judged("rank", d.kind \in {"lora", "generic"} => d.rank > 0)

HalfSupported(t) ==
    /\ "fp16" \in DOMAIN t.runtime_capabilities
    /\ t.runtime_capabilities["fp16"] = "supported"

DtypeFactor(d, t) ==
    Judged("dtype",
           \/ d.dtype \in {"f16", "bf16"} /\ HalfSupported(t)
           \/ d.dtype = "f32")

\* An optional capability may be absent, but not of another value.
Satisfied(c, t) ==
    IF c.name \in DOMAIN t.runtime_capabilities
    THEN t.runtime_capabilities[c.name] = c.value
    ELSE ~c.required

CapabilityFactors(d, t) ==
    IF d.capabilities = <<>> THEN Missing("device_capability")
    ELSE [i \in DOMAIN d.capabilities |->
            Judged("device_capability", Satisfied(d.capabilities[i], t))[1]]

DependencyFactors(d) ==
    IF d.dependencies = <<>> THEN Accepted("dependencies")
    ELSE [i \in DOMAIN d.dependencies |->
            Judged("dependency", d.dependencies[i].version # "")[1]]

ArtifactFactor(d) == Judged("artifact", d.artifact_digest # "")

ValidationFactor(d) ==
    IF d.validation = "valid" THEN Accepted("validation")
    ELSE Missing("validation")

\* The factors in the order in which they are pushed.
Factors(d, t) ==
    IdFactor("base_model", d.base_model, t.base_model)
    \o IdFactor("base_model_revision", d.base_model_revision,
                t.base_model_revision)
    \o TargetsFactor(d) \o RankFactor(d) \o DtypeFactor(d, t)
    \o CapabilityFactors(d, t) \o DependencyFactors(d)
    \o ArtifactFactor(d) \o ValidationFactor(d)

HasRejections(factors) ==
    \E i \in DOMAIN factors : factors[i].status = "rejected"

\* Fault: the last rejection instead of the first.
LastRejection(factors) ==
    SelectLastInSeq(factors, LAMBDA f : f.status = "rejected")

\* first_rejection_reason, as a place in the list; 0 stands for "".
FirstRejection(factors) ==
    SelectInSeq(factors, LAMBDA f : f.status = "rejected")

\* The summary says that the adapter is compatible or why it is not.
Evaluate(d, gen, t) ==
    LET factors == Factors(d, t)
    IN  [factors |-> factors,
         adapter_generation |-> gen,
         policy_generation |-> t.policy_generation,
         base_model_revision |-> t.base_model_revision,
         compatible |-> ~HasRejections(factors),
         summary |-> FirstRejection(factors)]

\* explain_compatibility: the reasons it lists, by place.
Reasons(r) == {i \in DOMAIN r.factors : r.factors[i].status # "accepted"}

-----------------------------------------------------------------------------

\* Fabric::register_adapter: a new generation each time.
RegisterRevision(d) ==
    /\ generation < MaxRegistered
    /\ descriptor' = d
    /\ generation' = generation + 1
    /\ UNCHANGED <<asked, report>>

\* Fault: the report names the registry's next generation.
StampedNext == generation + 1

Stamped == generation

\* Fabric::validate throws not_found for an adapter that is not registered.
Validate(t) ==
    /\ asked' = t
    /\ report' = IF descriptor = Nothing THEN Nothing
                 ELSE Evaluate(descriptor, Stamped, t)
    /\ UNCHANGED <<descriptor, generation>>

CompatibilityInit ==
    /\ descriptor = Nothing /\ generation = 0
    /\ asked = Nothing /\ report = Nothing

CompatibilityNext ==
    \/ \E d \in Descriptors : RegisterRevision(d)
    \/ \E t \in Targets : Validate(t)

CompatibilitySpec == CompatibilityInit /\ [][CompatibilityNext]_compatibilityVars

-----------------------------------------------------------------------------
(* What a report promises.                                                 *)

\* What each factor that evaluate_compatibility compares is about, without the
\* order of evaluation and the form of the report.  README.md:63-67 lists more
\* than these eight: adapter revision, artifact generation, architecture,
\* tensor shapes, composition constraints and policy generation are never
\* compared.
Fits(name, d, t) ==
    CASE name = "base_model" -> Nil # d.base_model /\ d.base_model = t.base_model
      [] name = "base_model_revision" ->
           /\ Nil # d.base_model_revision
           /\ d.base_model_revision = t.base_model_revision
      [] name = "targets" ->
           /\ Len(d.targets) > 0
           /\ \A m \in ToSet(d.targets) : m.in_features * m.out_features > 0
      [] name = "rank" -> d.rank > 0 \/ d.kind \notin {"lora", "generic"}
      [] name = "dtype" ->
           \/ d.dtype = "f32"
           \/ /\ d.dtype \in {"f16", "bf16"}
              /\ <<"fp16", "supported">> \in
                   {<<n, t.runtime_capabilities[n]>> :
                      n \in DOMAIN t.runtime_capabilities}
      [] name = "device_capability" ->
           \A c \in ToSet(d.capabilities) :
             LET offered == {t.runtime_capabilities[n] :
                               n \in DOMAIN t.runtime_capabilities \cap {c.name}}
             IN  offered \subseteq {c.value} /\ (c.required => offered # {})
      [] name = "dependency" -> "" \notin {x.version : x \in ToSet(d.dependencies)}
      [] name = "artifact" -> d.artifact_digest # ""

\* The order in which evaluate_compatibility pushes them.
FactorOrder == <<"base_model", "base_model_revision", "targets", "rank",
                 "dtype", "device_capability", "dependency", "artifact">>

\* A report stays true for as long as it is about the generation that is
\* registered: it says compatible exactly when each of the eight factors the
\* code compares fits, also when the adapter was registered again, once or
\* twice, between validate and now.
VerdictOfGeneration ==
    report # Nothing /\ report.adapter_generation = generation =>
      (report.compatible <=> \A name \in ToSet(FactorOrder) :
                               Fits(name, descriptor, asked))

\* A refusal is explained: the summary names a factor that does not fit, the
\* first one in the order of evaluation, and the explanation lists its reason
\* among others; the explanation of a compatible adapter lists no rejection.
RefusalExplained ==
    report # Nothing /\ report.adapter_generation = generation =>
      LET bad == {k \in DOMAIN FactorOrder :
                    ~Fits(FactorOrder[k], descriptor, asked)}
      IN  IF bad = {} THEN report.summary = 0
          ELSE /\ report.summary \in Reasons(report)
               /\ report.factors[report.summary].name =
                    FactorOrder[CHOOSE k \in bad : \A l \in bad : k <= l]

=============================================================================
