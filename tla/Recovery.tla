------------------------------ MODULE Recovery ------------------------------
(***************************************************************************)
(* The durable half of the Fabric: published compositions, snapshot(), the *)
(* strict reader of persistence.cpp, and recover() in a process that takes *)
(* over from one that ended.                                               *)
(*                                                                         *)
(* The registry and authority operations are those of Fabric; the ones     *)
(* that touch nothing but residency records and lifecycle marks, which no  *)
(* snapshot holds, are left to that module.                                *)
(***************************************************************************)
EXTENDS Fabric, Composition, FiniteSets

CONSTANTS
    BaseModels,     \* base model ids
    Modules,        \* names of target modules
    Manifest,       \* what callers register of a descriptor beside Descriptor
    Policies,       \* composition policies
    MaxCount,       \* the count above which the reader refuses (100000)
    MaxMembers,     \* bound: adapters in a list a caller asks for
    MaxComps,       \* bound: composition ids one process draws
    Damaged         \* stored bytes whose checksum does not match

VARIABLES
    manifest,               \* adapters_: the rest of the descriptor
    compositions,           \* compositions_: id -> composition
    next_composition_gen,   \* next_composition_gen_
    next_comp,              \* composition ids this process has drawn, plus 1
    file                    \* the snapshot somebody keeps, None at first

compositionVars == <<compositions, next_composition_gen, next_comp>>
durableVars == <<manifest, compositionVars, file>>
recoveryVars == <<fabricVars, durableVars>>

\* A composition id is the number of the draw that made it.
Comps == 1..(MaxInst + MaxComps)

\* Base model, names of the target modules, and whether read_desc takes the
\* fields that nothing here looks at: enumerators, format version, and the
\* lengths of shapes, dependencies, capabilities and constraints.
ASSUME DescriptorAssumption ==
    \A m \in Manifest : /\ m.base_model \in BaseModels
                        /\ m.targets \in Seq(Modules)
                        /\ m.conforms \in BOOLEAN

\* struct CompositionMember, struct Composition, struct FabricSnapshot.
Member == [adapter_id : Adapters, generation : Gens, memory_bytes : Sizes]

CompositionRecord ==
    [members : Seq(Member), generation : Gens, base_model : BaseModels,
     base_model_revision : Revisions, policy : Policies,
     total_memory_bytes : 0..(WordSize - 1), digest : Seq(Member) \X Policies]

SnapshotRecord ==
    [epoch : Gens, next_adapter_gen : Gens, next_composition_gen : Gens,
     adapters : [Adapters -> Descriptor \cup {None}],
     manifest : [Adapters -> Manifest \cup {None}],
     compositions : [Comps -> CompositionRecord \cup {None}],
     workers : [Workers -> WorkerRecord \cup {None}]]

ASSUME ManifestAssumption ==
    /\ MaxComps \in Nat /\ MaxMembers \in Nat /\ MaxCount \in Nat
    /\ None \notin Manifest \cup CompositionRecord \cup {Damaged}
    /\ None \notin SnapshotRecord /\ Damaged \notin SnapshotRecord

-----------------------------------------------------------------------------
(* Compositions.                                                           *)

\* The complete descriptor of a registered adapter.
FullDescriptor(a) ==
    [id |-> a, generation |-> adapters[a].generation,
     base_model |-> manifest[a].base_model,
     base_model_revision |-> adapters[a].base_model_revision,
     memory_bytes |-> adapters[a].memory_bytes,
     targets |-> manifest[a].targets]

Registered == {a \in Adapters : adapters[a] # None}

\* The lists a caller asks for: registered adapters in any order, some of them
\* perhaps more than once.  (Any other list is refused and leaves no trace.)
Lists == UNION {[1..n -> Registered] : n \in 1..MaxMembers}

\* Uuid::generate: instance and composition ids are successive draws from
\* Rng::instance(), whose seed is fixed, so every process draws the same ids.
NextDraw == (next_inst - 1) + (next_comp - 1) + 1

\* publish_composition: a list that add() refuses leaves no trace; build()
\* draws the id before it looks for conflicts, so one that build() refuses
\* leaves the generator one draw further.  An entry under the id that is drawn
\* is overwritten.
PublishComposition(ids, policy) ==
    LET ds == [k \in DOMAIN ids |-> FullDescriptor(ids[k])]
    IN  /\ Addable(ds)
        /\ next_comp \in 1..MaxComps
        /\ next_comp' = next_comp + 1
        /\ IF CanBuild(ds)
           THEN /\ compositions' = [compositions EXCEPT ![NextDraw] =
                                      Build(ds, policy, next_composition_gen)]
                /\ next_composition_gen' = NextGen(next_composition_gen)
           ELSE UNCHANGED <<compositions, next_composition_gen>>
        /\ UNCHANGED <<fabricVars, manifest, file>>

\* register_adapter with the complete descriptor, none of whose lists it counts.
RegisterDescriptor(a, rev, n, m) ==
    /\ RegisterAdapter(a, rev, n)
    /\ manifest' = [manifest EXCEPT ![a] = m]
    /\ UNCHANGED <<compositionVars, file>>

-----------------------------------------------------------------------------
(* Persistence.                                                            *)

\* struct FabricSnapshot as Fabric::snapshot fills it: nothing of residency,
\* authority or attempts.  Workers keep their connected flag.
Snapshot ==
    [epoch |-> epoch, next_adapter_gen |-> next_adapter_gen,
     next_composition_gen |-> next_composition_gen,
     adapters |-> adapters, manifest |-> manifest,
     compositions |-> compositions, workers |-> workers]

\* What a Fabric that has just been constructed would save.
EmptySnapshot ==
    [epoch |-> 0, next_adapter_gen |-> 1, next_composition_gen |-> 1,
     adapters |-> [a \in Adapters |-> None],
     manifest |-> [a \in Adapters |-> None],
     compositions |-> [c \in Comps |-> None],
     workers |-> [w \in Workers |-> None]]

\* How many entries of a map are present.
Count(f) == Cardinality({x \in DOMAIN f : f[x] # None})

\* No count the reader compares with its cap is above it.  The writer and the
\* operations of the registry compare none of them.
WithinCaps(s) ==
    /\ \A f \in {s.adapters, s.compositions, s.workers} : Count(f) <= MaxCount
    /\ \A m \in Range(s.manifest) \ {None} : Len(m.targets) <= MaxCount
    /\ \A c \in Range(s.compositions) \ {None} : Len(c.members) <= MaxCount

\* The other checks of one descriptor and of one composition.
ReadableDescriptor(d, m) == d # None => d.generation # 0 /\ m.conforms

ReadableComposition(c) ==
    c # None =>
      /\ c.members # <<>>
      /\ \A k \in DOMAIN c.members : c.members[k].generation # 0
      /\ c.generation # 0
      /\ c.total_memory_bytes = TotalBytes(c.members)
      /\ c.digest = Digest(c.members, c.policy)

\* deserialize_snapshot does not throw (no file at all is too small a payload).
\* Nobody fills the lists of a worker record.
Readable(s) ==
    /\ s \notin {None, Damaged}
    /\ WithinCaps(s)
    /\ \A a \in Adapters : ReadableDescriptor(s.adapters[a], s.manifest[a])
    /\ \A c \in Comps : ReadableComposition(s.compositions[c])

\* ctl_snapshot or af_cli save: somebody keeps the bytes.
Save ==
    /\ file' = Snapshot
    /\ UNCHANGED <<fabricVars, manifest, compositionVars>>

\* The stored bytes are cut short or altered, by a crash while they are
\* written or later.
Damage ==
    /\ file # None
    /\ file' = Damaged
    /\ UNCHANGED <<fabricVars, manifest, compositionVars>>

\* Fault: the counters start again.
RecoverRecordsOnly(s) ==
    /\ adapters' = s.adapters /\ manifest' = s.manifest
    /\ compositions' = s.compositions /\ workers' = s.workers
    /\ epoch' = s.epoch
    /\ next_adapter_gen' = 1 /\ next_composition_gen' = 1

\* Fabric::recover
RecoverEffect(s) ==
    /\ epoch' = s.epoch
    /\ next_adapter_gen' = s.next_adapter_gen
    /\ next_composition_gen' = s.next_composition_gen
    /\ adapters' = s.adapters /\ manifest' = s.manifest
    /\ compositions' = s.compositions
    /\ workers' = s.workers

\* The process ends; its successor constructs a Fabric and calls recover on
\* it, as af_cli does, before anybody else sees it.  Its generator of ids
\* starts from the beginning.
Start(s) ==
    /\ RecoverEffect(s)
    /\ authority' = [a \in Adapters |-> None]
    /\ residencies' = [i \in Instances |-> None]
    /\ active_fence' = None
    /\ current_attempt' = [a \in Adapters |-> None]
    /\ invalidation_log' = {}
    /\ next_inst' = 1 /\ next_comp' = 1
    /\ UNCHANGED file

StartRecovered == Readable(file) /\ Start(file)

\* The successor has nothing to recover from, or the reader throws.
StartEmpty == ~Readable(file) /\ Start(EmptySnapshot)

-----------------------------------------------------------------------------

RecoveryInit ==
    /\ Init
    /\ manifest = [a \in Adapters |-> None]
    /\ compositions = [c \in Comps |-> None]
    /\ next_composition_gen = 1
    /\ next_comp = 1
    /\ file = None

\* The operations of Fabric that leave the descriptors alone.
Operation ==
    \/ AdvanceEpoch
    \/ \E w \in Workers, b \in Boots : RegisterWorker(w, b)
    \/ \E a \in Adapters, w \in Workers, b \in Boots, d \in Devices :
         CreateInstance(a, w, b, d)
    \/ \E f \in Presented : BindAuthority(f)
    \/ \E a \in Adapters : Invalidate(a)
    \/ \E w \in Workers : OnWorkerDown(w)

RecoveryNext ==
    \/ Operation /\ UNCHANGED durableVars
    \/ \E a \in Adapters, rev \in Revisions, n \in Sizes, m \in Manifest :
         RegisterDescriptor(a, rev, n, m)
    \/ \E ids \in Lists, policy \in Policies : PublishComposition(ids, policy)
    \/ Save
    \/ Damage
    \/ StartRecovered
    \/ StartEmpty

RecoverySpec == RecoveryInit /\ [][RecoveryNext]_recoveryVars

-----------------------------------------------------------------------------
(* What persistence and compositions promise.                              *)

\* Every variable holds a value of its C++ type, before and after recovery.
RecoveryTypeOK ==
    /\ FabricTypeOK
    /\ manifest \in [Adapters -> Manifest \cup {None}]
    /\ \A a \in Adapters : (manifest[a] = None) = (adapters[a] = None)
    /\ next_composition_gen \in Gens
    /\ next_comp \in 1..(MaxComps + 1)
    /\ compositions \in [Comps -> CompositionRecord \cup {None}]

\* Whatever the registry has been through, counters at their limit and earlier
\* recoveries included, the strict reader accepts the snapshot it would write
\* now, unless a count is above the reader's cap or a descriptor came in that
\* read_desc does not take: nothing the registry computes itself, generations,
\* sizes, digests or membership, is ever refused.
ReadableWithinCaps ==
    (/\ WithinCaps(Snapshot)
     /\ \A a \in Registered : manifest[a].conforms) => Readable(Snapshot)

\* The member is still what the registry holds for its adapter.
CurrentMember(m) ==
    /\ adapters[m.adapter_id] # None
    /\ adapters[m.adapter_id].generation = m.generation

\* A composition and the registry never disagree about a member that is
\* current, whatever was registered again, lost or recovered since: size,
\* base model and revision are those of the descriptor, and no two current
\* members of one composition have a module in common.
CompositionsCoherent ==
    \A c \in Comps : compositions[c] # None =>
      LET ms == compositions[c].members
          current == {k \in DOMAIN ms : ms[k].generation # MaxGen
                                        /\ CurrentMember(ms[k])}
      IN  \A k \in current :
            LET d == FullDescriptor(ms[k].adapter_id)
            IN  /\ d.memory_bytes = ms[k].memory_bytes
                /\ d.base_model = compositions[c].base_model
                /\ d.base_model_revision = compositions[c].base_model_revision
                /\ \A l \in current \ {k} :
                     Range(d.targets)
                       \cap Range(FullDescriptor(ms[l].adapter_id).targets) = {}

\* After any number of crashes and recoveries no counter has fallen behind
\* what the registry holds: the next adapter generation is above that of
\* every descriptor and every member of a composition, and no two
\* compositions share a generation, until the counters saturate.
CountersAhead ==
    /\ \A a \in Registered : adapters[a].generation < next_adapter_gen
                             \/ adapters[a].generation = MaxGen
    /\ \A c \in Comps : compositions[c] # None =>
         /\ compositions[c].generation < next_composition_gen
            \/ compositions[c].generation = MaxGen
         /\ \A k \in DOMAIN compositions[c].members :
              LET g == compositions[c].members[k].generation
              IN  g < next_adapter_gen \/ g = MaxGen
    /\ \A c, e \in Comps :
         (/\ c # e /\ compositions[c] # None /\ compositions[e] # None
          /\ compositions[c].generation = compositions[e].generation)
           => compositions[c].generation = MaxGen

-----------------------------------------------------------------------------
(* What a document says of recovery and the code does not do.              *)

\* README.md: "Any stale component is rejected before it can promote adapter
\* state into execution authority": a fence that was out of date when the
\* process ended is not accepted by the registry its successor recovers.
StaleAfterRecovery ==
    [][\A f \in Presented : Outdated(f) => ~FenceCurrent(f)']_recoveryVars

\* README.md: compositions are "immutable once published": what is registered
\* under a composition id is never replaced by something else, by this process
\* or by the one that recovers from its snapshot.
PublishedImmutable ==
    [][\A c \in Comps :
         compositions[c] # None => compositions'[c] \in {compositions[c], None}]_recoveryVars

=============================================================================
