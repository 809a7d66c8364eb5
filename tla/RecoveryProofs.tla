--------------------------- MODULE RecoveryProofs ---------------------------
(***************************************************************************)
(* Proofs about what is durable, for every registry, every word size and   *)
(* every number of crashes and recoveries.                                 *)
(***************************************************************************)
EXTENDS Recovery, FabricProofs, Sums, SequenceTheorems

-----------------------------------------------------------------------------
(* The inductive invariant.  It is stated of the values a snapshot holds,  *)
(* so that it can be said of the registry and of a kept file alike: what   *)
(* recover() reads must be as sound as what it replaces.                   *)

\* A generation the counter n has passed, or the largest one.
Below(g, n) == g < n \/ g = MaxGen

\* Member m is what the registry A holds for its adapter.
CurrentIn(m, A) ==
    /\ m.generation # MaxGen
    /\ A[m.adapter_id] # None
    /\ A[m.adapter_id].generation = m.generation

\* What composition x froze of its current members is what registry A and
\* manifest M say of them.
CoherentIn(x, A, M) ==
    \A k \in DOMAIN x.members : CurrentIn(x.members[k], A) =>
      LET a == x.members[k].adapter_id
      IN  /\ A[a].memory_bytes = x.members[k].memory_bytes
          /\ M[a].base_model = x.base_model
          /\ A[a].base_model_revision = x.base_model_revision
          /\ \A l \in DOMAIN x.members \ {k} : CurrentIn(x.members[l], A) =>
               Range(M[a].targets)
                 \cap Range(M[x.members[l].adapter_id].targets) = {}

\* Composition x was published from the registry under the counters.
Published(x, A, M, ag, cg) ==
    /\ ReadableComposition(x)
    /\ Below(x.generation, cg)
    /\ \A k \in DOMAIN x.members : Below(x.members[k].generation, ag)
    /\ CoherentIn(x, A, M)

\* The generations of registry A are below the counter ag and none is 0.
Registry(A, M, ag) ==
    /\ ag # 0
    /\ \A a \in Adapters : (M[a] = None) = (A[a] = None)
    /\ \A a \in Adapters : A[a] # None =>
         A[a].generation # 0 /\ Below(A[a].generation, ag)

\* The compositions C have generations of their own.
Catalogue(C, A, M, ag, cg) ==
    /\ cg # 0
    /\ \A c \in Comps : C[c] # None => Published(C[c], A, M, ag, cg)
    /\ \A c, e \in Comps :
         (/\ c # e /\ C[c] # None /\ C[e] # None
          /\ C[c].generation = C[e].generation) => C[c].generation = MaxGen

Durable(s) ==
    /\ s \in SnapshotRecord
    /\ Registry(s.adapters, s.manifest, s.next_adapter_gen)
    /\ Catalogue(s.compositions, s.adapters, s.manifest, s.next_adapter_gen,
                 s.next_composition_gen)

DurableNow ==
    /\ Registry(adapters, manifest, next_adapter_gen)
    /\ Catalogue(compositions, adapters, manifest, next_adapter_gen,
                 next_composition_gen)

DurableTypes ==
    /\ FabricTypeOK
    /\ manifest \in [Adapters -> Manifest \cup {None}]
    /\ compositions \in [Comps -> CompositionRecord \cup {None}]
    /\ next_composition_gen \in Gens
    /\ next_comp \in 1..(MaxComps + 1)

RecoverySound ==
    /\ DurableTypes
    /\ DurableNow
    /\ file \in {None, Damaged} \/ Durable(file)

-----------------------------------------------------------------------------
(* Snapshots.                                                              *)

LEMMA SnapshotFields ==
    /\ Snapshot.epoch = epoch /\ Snapshot.workers = workers
    /\ Snapshot.next_adapter_gen = next_adapter_gen
    /\ Snapshot.next_composition_gen = next_composition_gen
    /\ Snapshot.adapters = adapters /\ Snapshot.manifest = manifest
    /\ Snapshot.compositions = compositions
BY DEF Snapshot

\* The snapshot of a sound registry is sound.
LEMMA SnapshotDurable ==
    ASSUME DurableTypes, DurableNow
    PROVE  Durable(Snapshot)
<1>1. Snapshot \in SnapshotRecord
  BY DEF Snapshot, SnapshotRecord, DurableTypes, FabricTypeOK
<1> QED
  BY <1>1, SnapshotFields DEF Durable, DurableNow

\* What is durable passes the reader's checks, but for its caps and for the
\* fields of a descriptor that the registry takes as they come.
LEMMA DurableReadable ==
    ASSUME NEW s, Durable(s), WithinCaps(s),
           \A a \in Adapters : s.adapters[a] # None => s.manifest[a].conforms
    PROVE  Readable(s)
<1>1. s \notin {None, Damaged}
  BY ManifestAssumption DEF Durable
<1>2. \A a \in Adapters : ReadableDescriptor(s.adapters[a], s.manifest[a])
  BY DEF Durable, Registry, ReadableDescriptor
<1>3. \A c \in Comps : ReadableComposition(s.compositions[c])
  BY DEF Durable, Catalogue, Published, ReadableComposition
<1> QED
  BY <1>1, <1>2, <1>3 DEF Readable

LEMMA EmptyDurable == Durable(EmptySnapshot)
<1>1. EmptySnapshot \in SnapshotRecord
  BY BoundsAssumption DEF EmptySnapshot, SnapshotRecord, Gens
<1>2. Registry(EmptySnapshot.adapters, EmptySnapshot.manifest,
               EmptySnapshot.next_adapter_gen)
  BY DEF Registry, EmptySnapshot
<1>3. Catalogue(EmptySnapshot.compositions, EmptySnapshot.adapters,
                EmptySnapshot.manifest, EmptySnapshot.next_adapter_gen,
                EmptySnapshot.next_composition_gen)
  BY DEF Catalogue, EmptySnapshot
<1> QED
  BY <1>1, <1>2, <1>3 DEF Durable

-----------------------------------------------------------------------------
(* The registry under the operations.                                      *)

LEMMA BelowNext ==
    ASSUME NEW g \in Gens, NEW n \in Gens, Below(g, n)
    PROVE  Below(g, NextGen(n))
BY BoundsAssumption DEF Below, NextGen, Gens

LEMMA OwnBelowNext ==
    ASSUME NEW n \in Gens
    PROVE  Below(n, NextGen(n)) /\ (n # 0 => NextGen(n) # 0)
BY BoundsAssumption DEF Below, NextGen, Gens

\* What a composition record holds.
LEMMA CompositionFields ==
    ASSUME NEW x \in CompositionRecord
    PROVE  /\ x # None
           /\ x.generation \in Gens
           /\ x.members \in Seq(Member)
           /\ \A k \in DOMAIN x.members :
                /\ x.members[k] \in Member
                /\ x.members[k].adapter_id \in Adapters
                /\ x.members[k].generation \in Gens
<1>1. x # None
  BY ManifestAssumption
<1>2. x.generation \in Gens /\ x.members \in Seq(Member)
  BY DEF CompositionRecord
<1>3. \A k \in DOMAIN x.members : x.members[k] \in Member
  BY <1>2
<1> QED
  BY <1>1, <1>2, <1>3 DEF Member

\* An adapter that is registered gets a generation no composition has a
\* member of, so its members are no longer current and the others untouched.
LEMMA PublishedRegister ==
    ASSUME NEW A \in [Adapters -> Descriptor \cup {None}], NEW M, NEW x,
           x \in CompositionRecord, NEW ag \in Gens, NEW cg,
           Published(x, A, M, ag, cg),
           M \in [Adapters -> Manifest \cup {None}],
           NEW a \in Adapters, NEW d \in Descriptor, d.generation = ag,
           NEW m \in Manifest
    PROVE  Published(x, [A EXCEPT ![a] = d], [M EXCEPT ![a] = m],
                     NextGen(ag), cg)
<1> DEFINE B == [A EXCEPT ![a] = d]
           N == [M EXCEPT ![a] = m]
           ms == x.members
<1>1. \A k \in DOMAIN ms : ms[k].adapter_id \in Adapters /\ ms[k].generation \in Gens
  BY CompositionFields
<1>2. B[a] = d /\ \A b \in Adapters \ {a} : B[b] = A[b] /\ N[b] = M[b]
  OBVIOUS
<1> HIDE DEF B, N
<1>3. ASSUME NEW k \in DOMAIN ms, CurrentIn(ms[k], B)
      PROVE  ms[k].adapter_id \in Adapters \ {a} /\ CurrentIn(ms[k], A)
  <2>1. Below(ms[k].generation, ag) /\ ms[k].generation # MaxGen
    BY <1>3 DEF Published, CurrentIn
  <2>2. ms[k].generation # ag
    BY <1>1, <2>1 DEF Below, Gens
  <2>3. ms[k].adapter_id # a
    BY <1>2, <1>3, <2>2 DEF CurrentIn
  <2> QED
    BY <1>1, <1>2, <1>3, <2>3 DEF CurrentIn
<1>4. CoherentIn(x, B, N)
  <2> SUFFICES ASSUME NEW k \in DOMAIN ms, CurrentIn(ms[k], B)
               PROVE  /\ B[ms[k].adapter_id].memory_bytes = ms[k].memory_bytes
                      /\ N[ms[k].adapter_id].base_model = x.base_model
                      /\ B[ms[k].adapter_id].base_model_revision
                           = x.base_model_revision
                      /\ \A l \in DOMAIN ms \ {k} : CurrentIn(ms[l], B) =>
                           Range(N[ms[k].adapter_id].targets)
                             \cap Range(N[ms[l].adapter_id].targets) = {}
    BY DEF CoherentIn
  <2>1. ms[k].adapter_id \in Adapters \ {a} /\ CurrentIn(ms[k], A)
    BY <1>3
  <2>2. /\ B[ms[k].adapter_id] = A[ms[k].adapter_id]
        /\ N[ms[k].adapter_id] = M[ms[k].adapter_id]
    BY <1>2, <2>1
  <2>3. CoherentIn(x, A, M)
    BY DEF Published
  <2>4. ASSUME NEW l \in DOMAIN ms \ {k}, CurrentIn(ms[l], B)
        PROVE  Range(N[ms[k].adapter_id].targets)
                 \cap Range(N[ms[l].adapter_id].targets) = {}
    <3>1. ms[l].adapter_id \in Adapters \ {a} /\ CurrentIn(ms[l], A)
      BY <1>3, <2>4
    <3>2. N[ms[l].adapter_id] = M[ms[l].adapter_id]
      BY <1>2, <3>1
    <3> QED
      BY <2>1, <2>2, <2>3, <3>1, <3>2 DEF CoherentIn
  <2> QED
    BY <2>1, <2>2, <2>3, <2>4 DEF CoherentIn
<1>5. \A k \in DOMAIN ms : Below(ms[k].generation, NextGen(ag))
  BY <1>1, BelowNext DEF Published
<1> QED
  BY <1>4, <1>5 DEF Published, B, N

LEMMA RegisterDurable ==
    ASSUME RecoverySound, NEW a \in Adapters, NEW rev \in Revisions,
           NEW n \in Sizes, NEW m \in Manifest, RegisterDescriptor(a, rev, n, m)
    PROVE  DurableTypes' /\ DurableNow'
<1> DEFINE d == [generation |-> next_adapter_gen,
                 base_model_revision |-> rev, memory_bytes |-> n]
<1>1. /\ adapters \in [Adapters -> Descriptor \cup {None}]
      /\ manifest \in [Adapters -> Manifest \cup {None}]
      /\ compositions \in [Comps -> CompositionRecord \cup {None}]
      /\ next_adapter_gen \in Gens /\ next_adapter_gen # 0
      /\ FabricTypeOK
  BY DEF RecoverySound, DurableTypes, DurableNow, Registry, FabricTypeOK
<1>2. d \in Descriptor /\ d.generation = next_adapter_gen /\ d # None /\ m # None
  <2>1. d \in Descriptor /\ d.generation = next_adapter_gen
    BY <1>1 DEF Descriptor
  <2> HIDE DEF d
  <2> QED
    BY <2>1, NoneAssumption, ManifestAssumption
<1>3. /\ adapters' = [adapters EXCEPT ![a] = d]
      /\ manifest' = [manifest EXCEPT ![a] = m]
      /\ next_adapter_gen' = NextGen(next_adapter_gen)
      /\ UNCHANGED compositionVars
  BY DEF RegisterDescriptor, RegisterAdapter
<1> HIDE DEF d
<1>4. UNCHANGED <<compositions, next_composition_gen, next_comp>>
  BY <1>3 DEF compositionVars
<1>5. FabricTypeOK'
  BY <1>1, StepType DEF RegisterDescriptor, FabricStep
<1>6. DurableTypes'
  BY <1>1, <1>3, <1>4, <1>5 DEF RecoverySound, DurableTypes
<1>7. Registry(adapters, manifest, next_adapter_gen)'
  <2>1. next_adapter_gen' # 0
    BY <1>1, <1>3, OwnBelowNext
  <2>2. ASSUME NEW b \in Adapters
        PROVE  /\ (manifest'[b] = None) = (adapters'[b] = None)
               /\ adapters'[b] # None =>
                    /\ adapters'[b].generation # 0
                    /\ Below(adapters'[b].generation, next_adapter_gen')
    <3>1. CASE b = a
      BY <1>1, <1>2, <1>3, <3>1, OwnBelowNext
    <3>2. CASE b # a
      <4>1. adapters'[b] = adapters[b] /\ manifest'[b] = manifest[b]
        BY <1>1, <1>3, <3>2
      <4>2. adapters[b] # None => adapters[b].generation \in Gens
        BY <1>1 DEF Descriptor
      <4> QED
        BY <1>1, <1>3, <4>1, <4>2, BelowNext
           DEF RecoverySound, DurableNow, Registry
    <3> QED
      BY <3>1, <3>2
  <2> QED
    BY <2>1, <2>2 DEF Registry
<1>8. Catalogue(compositions, adapters, manifest, next_adapter_gen,
                next_composition_gen)'
  <2>1. Catalogue(compositions, adapters, manifest, next_adapter_gen,
                  next_composition_gen)
    BY DEF RecoverySound, DurableNow
  <2>2. ASSUME NEW c \in Comps, compositions[c] # None
        PROVE  Published(compositions[c], adapters', manifest',
                         next_adapter_gen', next_composition_gen)
    <3>1. compositions[c] \in CompositionRecord
      BY <1>1, <2>2
    <3>2. Published(compositions[c], adapters, manifest, next_adapter_gen,
                    next_composition_gen)
      BY <2>1, <2>2 DEF Catalogue
    <3> QED
      BY <1>1, <1>2, <1>3, <3>1, <3>2, PublishedRegister
  <2> QED
    BY <1>4, <2>1, <2>2 DEF Catalogue
<1> QED
  BY <1>6, <1>7, <1>8 DEF DurableNow


-----------------------------------------------------------------------------
(* Publishing.                                                             *)

\* A list of registered adapters that may be built, as build() is given it.
Listed(ids) == [k \in DOMAIN ids |-> FullDescriptor(ids[k])]

\* The lists a caller asks for are nonempty lists of registered adapters.
LEMMA ListType ==
    ASSUME NEW ids \in Lists
    PROVE  /\ \E n \in Nat : DOMAIN ids = 1..n /\ 1 \in 1..n
           /\ \A k \in DOMAIN ids : ids[k] \in Registered
<1>1. PICK n \in 1..MaxMembers : ids \in [1..n -> Registered]
  BY DEF Lists
<1>2. n \in Nat /\ 1 \in 1..n
  BY <1>1, ManifestAssumption
<1> QED
  BY <1>1, <1>2

LEMMA FullDescriptorFields ==
    ASSUME NEW a
    PROVE  LET d == FullDescriptor(a) IN
           /\ d.id = a /\ d.generation = adapters[a].generation
           /\ d.base_model = manifest[a].base_model
           /\ d.base_model_revision = adapters[a].base_model_revision
           /\ d.memory_bytes = adapters[a].memory_bytes
           /\ d.targets = manifest[a].targets
BY DEF FullDescriptor

\* What build() freezes of such a list.
LEMMA MembersFields ==
    ASSUME NEW ids, NEW k \in DOMAIN ids
    PROVE  /\ DOMAIN Members(Listed(ids)) = DOMAIN ids
           /\ LET m == Members(Listed(ids))[k] IN
              /\ m.adapter_id = ids[k]
              /\ m.generation = adapters[ids[k]].generation
              /\ m.memory_bytes = adapters[ids[k]].memory_bytes
              /\ m = [adapter_id |-> ids[k],
                      generation |-> adapters[ids[k]].generation,
                      memory_bytes |-> adapters[ids[k]].memory_bytes]
BY DEF Members, Listed, FullDescriptor

\* The sum of the members' footprints, taken modulo the word, fits the word.
LEMMA TotalFits ==
    ASSUME NEW ms, NEW n \in Nat, DOMAIN ms = 1..n,
           \A k \in DOMAIN ms : ms[k].memory_bytes \in Nat
    PROVE  TotalBytes(ms) \in 0..(WordSize - 1)
<1> DEFINE f == [i \in DOMAIN ms |-> ms[i].memory_bytes]
<1>1. IsFiniteSet(DOMAIN ms)
  <2>1. 1 \in Int /\ n \in Int
    OBVIOUS
  <2> QED
    BY <2>1, FS_Interval
<1>2. f \in [DOMAIN ms -> Nat]
  OBVIOUS
<1>3. SumFunction(f) \in Nat
  BY <1>1, <1>2, SumNat
<1>4. TotalBytes(ms) = SumFunction(f) % WordSize
  BY DEF TotalBytes
<1> HIDE DEF f
<1> QED
  BY <1>3, <1>4, WordAssumption

LEMMA BuildFields ==
    ASSUME NEW ids, NEW policy, NEW gen
    PROVE  LET ds == Listed(ids)
               x == Build(ds, policy, gen)
           IN  /\ x.members = Members(ds) /\ x.generation = gen
               /\ x.base_model = ds[1].base_model
               /\ x.base_model_revision = ds[1].base_model_revision
               /\ x.policy = policy
               /\ x.total_memory_bytes = TotalBytes(Members(ds))
               /\ x.digest = Digest(Members(ds), policy)
BY DEF Build

\* A list that may be built yields a composition record.
LEMMA BuildType ==
    ASSUME RecoverySound, NEW ids \in Lists, NEW policy \in Policies,
           NEW gen \in Gens
    PROVE  Build(Listed(ids), policy, gen) \in CompositionRecord
<1> DEFINE ms == Members(Listed(ids))
           b == Listed(ids)[1].base_model
           r == Listed(ids)[1].base_model_revision
           t == TotalBytes(ms)
<1>0. PICK n \in Nat : DOMAIN ids = 1..n /\ 1 \in 1..n
  BY ListType
<1>1. \A k \in DOMAIN ids : ids[k] \in Registered
  BY ListType
<1>2. 1 \in DOMAIN ids
  BY <1>0
<1>3. ASSUME NEW k \in DOMAIN ids
      PROVE  /\ adapters[ids[k]] \in Descriptor /\ manifest[ids[k]] \in Manifest
             /\ ids[k] \in Adapters
  BY <1>1 DEF Registered, RecoverySound, DurableTypes, FabricTypeOK, DurableNow,
     Registry
<1>4. ASSUME NEW k \in DOMAIN ids
      PROVE  ms[k] \in Member /\ ms[k].memory_bytes \in Nat
  <2>1. ms[k] = [adapter_id |-> ids[k],
                 generation |-> adapters[ids[k]].generation,
                 memory_bytes |-> adapters[ids[k]].memory_bytes]
    BY MembersFields
  <2>2. /\ adapters[ids[k]].generation \in Gens
        /\ adapters[ids[k]].memory_bytes \in Sizes
    BY <1>3 DEF Descriptor
  <2> HIDE DEF ms
  <2>3. ms[k] \in Member /\ ms[k].memory_bytes \in Sizes
    BY <1>3, <2>1, <2>2 DEF Member
  <2> QED
    BY <2>3, BoundsAssumption
<1>5. DOMAIN ms = DOMAIN ids
  BY <1>2, MembersFields
<1>6. ms \in Seq(Member)
  <2>1. ms = [k \in DOMAIN ids |-> ms[k]]
    BY <1>5 DEF Members
  <2> HIDE DEF ms
  <2>2. ms \in [1..n -> Member]
    BY <1>0, <1>4, <2>1
  <2> QED
    BY <2>2
<1>7. b \in BaseModels /\ r \in Revisions
  <2>1. Listed(ids)[1] = FullDescriptor(ids[1])
    BY <1>2 DEF Listed
  <2>2. adapters[ids[1]] \in Descriptor /\ manifest[ids[1]] \in Manifest
    BY <1>2, <1>3
  <2> QED
    BY <2>1, <2>2, FullDescriptorFields, DescriptorAssumption DEF Descriptor
<1>8. t \in 0..(WordSize - 1)
  BY <1>0, <1>4, <1>5, TotalFits
<1>9. Digest(ms, policy) \in Seq(Member) \X Policies
  BY <1>6 DEF Digest
<1>10. Build(Listed(ids), policy, gen) =
         [members |-> ms, generation |-> gen, base_model |-> b,
          base_model_revision |-> r, policy |-> policy,
          total_memory_bytes |-> t, digest |-> Digest(ms, policy)]
  BY DEF Build
<1> HIDE DEF ms, b, r, t
<1> QED
  BY <1>6, <1>7, <1>8, <1>9, <1>10 DEF CompositionRecord

\* ... that is published soundly: its members are current, agree with the
\* first on base model and revision, and share no module.
LEMMA BuildPublished ==
    ASSUME RecoverySound, NEW ids \in Lists, NEW policy \in Policies,
           Addable(Listed(ids)), CanBuild(Listed(ids))
    PROVE  Published(Build(Listed(ids), policy, next_composition_gen),
                     adapters, manifest, next_adapter_gen,
                     NextGen(next_composition_gen))
<1> DEFINE ds == Listed(ids)
           ms == Members(ds)
           cg == next_composition_gen
           x == Build(ds, policy, cg)
<1>0. PICK n \in Nat : DOMAIN ids = 1..n /\ 1 \in 1..n
  BY ListType
<1>1. \A k \in DOMAIN ids : ids[k] \in Registered
  BY ListType
<1>2. 1 \in DOMAIN ids
  BY <1>0
<1>3. /\ x.members = ms /\ x.generation = cg
      /\ x.base_model = ds[1].base_model
      /\ x.base_model_revision = ds[1].base_model_revision
      /\ x.policy = policy
      /\ x.total_memory_bytes = TotalBytes(ms)
      /\ x.digest = Digest(ms, policy)
  BY BuildFields
<1>4. DOMAIN ds = DOMAIN ids /\ \A k \in DOMAIN ids : ds[k] = FullDescriptor(ids[k])
  BY DEF Listed
<1>5. ASSUME NEW k \in DOMAIN ids
      PROVE  LET d == FullDescriptor(ids[k]) IN
             /\ d.id = ids[k] /\ d.generation = adapters[ids[k]].generation
             /\ d.base_model = manifest[ids[k]].base_model
             /\ d.base_model_revision = adapters[ids[k]].base_model_revision
             /\ d.memory_bytes = adapters[ids[k]].memory_bytes
             /\ d.targets = manifest[ids[k]].targets
  BY FullDescriptorFields
<1>6. DOMAIN ms = DOMAIN ids
  BY <1>2, MembersFields
<1>7. \A k \in DOMAIN ids : /\ ms[k].adapter_id = ids[k]
                            /\ ms[k].generation = adapters[ids[k]].generation
                            /\ ms[k].memory_bytes = adapters[ids[k]].memory_bytes
  BY MembersFields
<1>8. Addable(ds) /\ ConflictFree(ds)
  BY DEF CanBuild
<1>9. cg \in Gens /\ cg # 0 /\ x # None
  BY BuildType, CompositionFields
     DEF RecoverySound, DurableTypes, DurableNow, Catalogue
<1> HIDE DEF ds, ms, cg, x
<1>10. ReadableComposition(x)
  <2>1. ms # <<>>
    BY <1>2, <1>6
  <2>2. \A k \in DOMAIN ms : ms[k].generation # 0
    BY <1>4, <1>5, <1>6, <1>7, <1>8 DEF Addable
  <2> QED
    BY <1>3, <1>9, <2>1, <2>2 DEF ReadableComposition
<1>11. Below(x.generation, NextGen(cg))
  BY <1>3, <1>9, OwnBelowNext
<1>12. \A k \in DOMAIN x.members : Below(x.members[k].generation, next_adapter_gen)
  BY <1>1, <1>3, <1>6, <1>7 DEF Registered, RecoverySound, DurableNow, Registry
<1>13. CoherentIn(x, adapters, manifest)
  <2> SUFFICES ASSUME NEW k \in DOMAIN ids
               PROVE  /\ adapters[ids[k]].memory_bytes = ms[k].memory_bytes
                      /\ manifest[ids[k]].base_model = ds[1].base_model
                      /\ adapters[ids[k]].base_model_revision
                           = ds[1].base_model_revision
                      /\ \A l \in DOMAIN ids \ {k} :
                           Range(manifest[ids[k]].targets)
                             \cap Range(manifest[ids[l]].targets) = {}
    BY <1>3, <1>6, <1>7, SMTT(30) DEF CoherentIn
  <2>1. /\ manifest[ids[k]].base_model = ds[1].base_model
        /\ adapters[ids[k]].base_model_revision = ds[1].base_model_revision
    BY <1>4, <1>5, <1>8 DEF Addable
  <2>2. ASSUME NEW l \in DOMAIN ids \ {k},
               NEW i \in DOMAIN manifest[ids[k]].targets,
               NEW j \in DOMAIN manifest[ids[l]].targets
        PROVE  manifest[ids[k]].targets[i] # manifest[ids[l]].targets[j]
    <3>1. /\ ds[k].targets = manifest[ids[k]].targets
          /\ ds[l].targets = manifest[ids[l]].targets
          /\ k \in DOMAIN ds /\ l \in DOMAIN ds
      BY <1>4, <1>5
    <3> QED
      BY <1>8, <2>2, <3>1 DEF ConflictFree
  <2> QED
    BY <1>7, <2>1, <2>2 DEF Range
<1> QED
  BY <1>10, <1>11, <1>12, <1>13 DEF Published, ds, x, cg


\* A list that build() takes becomes a composition under the next draw.
LEMMA PublishDurable ==
    ASSUME RecoverySound, NEW ids \in Lists, NEW policy \in Policies,
           PublishComposition(ids, policy), CanBuild(Listed(ids))
    PROVE  DurableTypes' /\ DurableNow'
<1> DEFINE cg == next_composition_gen
           x == Build(Listed(ids), policy, cg)
           n == NextDraw
<1>1. /\ FabricTypeOK /\ cg \in Gens /\ cg # 0
      /\ compositions \in [Comps -> CompositionRecord \cup {None}]
      /\ manifest \in [Adapters -> Manifest \cup {None}]
      /\ Catalogue(compositions, adapters, manifest, next_adapter_gen, cg)
  BY DEF RecoverySound, DurableTypes, DurableNow, Catalogue
<1>2. Addable(Listed(ids)) /\ next_comp \in 1..MaxComps
  BY DEF PublishComposition, Listed
<1>3. /\ compositions' = [compositions EXCEPT ![n] = x]
      /\ next_composition_gen' = NextGen(cg)
      /\ next_comp' = next_comp + 1
      /\ UNCHANGED fabricVars /\ UNCHANGED manifest
  BY DEF PublishComposition, Listed
<1>4. x \in CompositionRecord /\ x.generation = cg
  BY <1>1, BuildType, BuildFields
<1>5. Published(x, adapters, manifest, next_adapter_gen, NextGen(cg))
  BY <1>2, BuildPublished
<1>6. n \in Comps
  <2>1. next_inst \in 1..(MaxInst + 1)
    BY <1>1 DEF FabricTypeOK
  <2> QED
    BY <1>2, <2>1, BoundsAssumption, ManifestAssumption DEF NextDraw, Comps
<1>7. UNCHANGED <<adapters, next_adapter_gen>>
  BY <1>3 DEF fabricVars, registryVars
<1>8. FabricTypeOK'
  BY <1>1, <1>3, StepType DEF FabricStep
<1> HIDE DEF cg, x, n
<1>9. compositions' \in [Comps -> CompositionRecord \cup {None}]
      /\ compositions'[n] = x
      /\ \A c \in Comps \ {n} : compositions'[c] = compositions[c]
  BY <1>1, <1>3, <1>4, <1>6
<1>10. next_comp' \in 1..(MaxComps + 1)
  BY <1>2, <1>3, ManifestAssumption
<1>11. DurableTypes'
  BY <1>1, <1>3, <1>8, <1>9, <1>10, NextGenType DEF DurableTypes
<1>12. Registry(adapters, manifest, next_adapter_gen)'
  BY <1>3, <1>7 DEF RecoverySound, DurableNow, Registry
<1>13. ASSUME NEW c \in Comps \ {n}, compositions[c] # None
       PROVE  /\ compositions[c].generation \in Gens
              /\ Below(compositions[c].generation, cg)
              /\ Published(compositions[c], adapters, manifest,
                           next_adapter_gen, NextGen(cg))
  <2>1. compositions[c] \in CompositionRecord
    BY <1>1, <1>13
  <2>2. compositions[c].generation \in Gens
    BY <2>1, CompositionFields
  <2>3. Published(compositions[c], adapters, manifest, next_adapter_gen, cg)
    BY <1>1, <1>13 DEF Catalogue
  <2> QED
    BY <1>1, <2>2, <2>3, BelowNext DEF Published
<1>14. Catalogue(compositions, adapters, manifest, next_adapter_gen,
                 next_composition_gen)'
  <2>1. next_composition_gen' # 0
    BY <1>1, <1>3, OwnBelowNext
  <2>2. ASSUME NEW c \in Comps, compositions'[c] # None
        PROVE  Published(compositions'[c], adapters', manifest',
                         next_adapter_gen', next_composition_gen')
    BY <1>3, <1>5, <1>7, <1>9, <1>13, <2>2
  <2>3. ASSUME NEW c \in Comps, NEW e \in Comps, c # e,
               compositions'[c] # None, compositions'[e] # None,
               compositions'[c].generation = compositions'[e].generation
        PROVE  compositions'[c].generation = MaxGen
    <3>1. CASE c # n /\ e # n
      BY <1>1, <1>9, <2>3, <3>1 DEF Catalogue
    <3>2. CASE c = n
      BY <1>1, <1>4, <1>9, <1>13, <2>3, <3>2 DEF Below, Gens
    <3>3. CASE e = n
      BY <1>1, <1>4, <1>9, <1>13, <2>3, <3>3 DEF Below, Gens
    <3> QED
      BY <3>1, <3>2, <3>3
  <2> QED
    BY <2>1, <2>2, <2>3 DEF Catalogue
<1> QED
  BY <1>11, <1>12, <1>14 DEF DurableNow

\* A list that build() refuses costs a draw and changes nothing else.
LEMMA RefusedDurable ==
    ASSUME RecoverySound, NEW ids \in Lists, NEW policy \in Policies,
           PublishComposition(ids, policy), ~CanBuild(Listed(ids))
    PROVE  DurableTypes' /\ DurableNow'
<1>1. /\ next_comp \in 1..MaxComps /\ next_comp' = next_comp + 1
      /\ UNCHANGED <<compositions, next_composition_gen>>
      /\ UNCHANGED fabricVars /\ UNCHANGED manifest
  BY DEF PublishComposition, Listed
<1>2. UNCHANGED <<adapters, next_adapter_gen>>
  BY <1>1 DEF fabricVars, registryVars
<1>3. FabricTypeOK'
  BY <1>1, StepType DEF FabricStep, RecoverySound, DurableTypes
<1>4. next_comp' \in 1..(MaxComps + 1)
  BY <1>1, ManifestAssumption
<1> QED
  BY <1>1, <1>2, <1>3, <1>4 DEF RecoverySound, DurableTypes, DurableNow

-----------------------------------------------------------------------------
(* Recovery.                                                               *)

\* A process that starts from something durable starts sound.
LEMMA StartDurable ==
    ASSUME NEW s, Durable(s), Start(s)
    PROVE  DurableTypes' /\ DurableNow'
<1>1. /\ epoch' = s.epoch /\ next_adapter_gen' = s.next_adapter_gen
      /\ next_composition_gen' = s.next_composition_gen
      /\ adapters' = s.adapters /\ manifest' = s.manifest
      /\ compositions' = s.compositions /\ workers' = s.workers
  BY DEF Start, RecoverEffect
<1>2. /\ s.epoch \in Gens /\ s.next_adapter_gen \in Gens
      /\ s.next_composition_gen \in Gens
      /\ s.adapters \in [Adapters -> Descriptor \cup {None}]
      /\ s.manifest \in [Adapters -> Manifest \cup {None}]
      /\ s.compositions \in [Comps -> CompositionRecord \cup {None}]
      /\ s.workers \in [Workers -> WorkerRecord \cup {None}]
  BY DEF Durable, SnapshotRecord
<1>3. /\ authority' = [a \in Adapters |-> None]
      /\ residencies' = [i \in Instances |-> None]
      /\ active_fence' = None
      /\ current_attempt' = [a \in Adapters |-> None]
      /\ invalidation_log' = {}
      /\ next_inst' = 1 /\ next_comp' = 1
  BY DEF Start
<1>4. FabricTypeOK'
  BY <1>1, <1>2, <1>3, BoundsAssumption DEF FabricTypeOK
<1>5. DurableTypes'
  BY <1>1, <1>2, <1>3, <1>4, ManifestAssumption DEF DurableTypes
<1>6. DurableNow'
  BY <1>1 DEF Durable, DurableNow
<1> QED
  BY <1>5, <1>6

\* The operations of Fabric that no snapshot's catalogue depends on.
LEMMA OperationDurable ==
    ASSUME RecoverySound, Operation, UNCHANGED durableVars
    PROVE  DurableTypes' /\ DurableNow'
<1>1. FabricStep
  BY DEF Operation, FabricStep, AnyDevice
<1>2. FabricTypeOK'
  BY <1>1, StepType DEF RecoverySound, DurableTypes
<1>3. UNCHANGED <<adapters, next_adapter_gen>>
  BY DEF Operation, AdvanceEpoch, RegisterWorker, CreateInstance,
     BindAuthority, Invalidate, OnWorkerDown, registryVars
<1>4. UNCHANGED <<manifest, compositions, next_composition_gen, next_comp>>
  BY DEF durableVars, compositionVars
<1> QED
  BY <1>2, <1>3, <1>4 DEF RecoverySound, DurableTypes, DurableNow

LEMMA RecoveryInvariant == RecoverySpec => []RecoverySound
<1>1. RecoveryInit => RecoverySound
  <2> SUFFICES ASSUME RecoveryInit
               PROVE  RecoverySound
    OBVIOUS
  <2>1. FabricTypeOK
    BY InitType DEF RecoveryInit
  <2>2. DurableTypes
    BY <2>1, ManifestAssumption, BoundsAssumption
       DEF RecoveryInit, DurableTypes, Gens
  <2>3. Snapshot = EmptySnapshot
    BY DEF RecoveryInit, Init, Snapshot, EmptySnapshot
  <2>4. DurableNow
    BY <2>3, EmptyDurable, SnapshotFields DEF Durable, DurableNow
  <2> QED
    BY <2>2, <2>4 DEF RecoveryInit, RecoverySound
<1>2. RecoverySound /\ [RecoveryNext]_recoveryVars => RecoverySound'
  <2> SUFFICES ASSUME RecoverySound, [RecoveryNext]_recoveryVars
               PROVE  RecoverySound'
    OBVIOUS
  <2>1. ASSUME DurableTypes', DurableNow', UNCHANGED file
        PROVE  RecoverySound'
    BY <2>1 DEF RecoverySound
  <2>2. ASSUME UNCHANGED <<fabricVars, manifest, compositionVars>>
        PROVE  DurableTypes' /\ DurableNow'
    BY <2>2 DEF fabricVars, registryVars, residencyVars, authorityVars,
       compositionVars, RecoverySound, DurableTypes, DurableNow, FabricTypeOK
  <2>3. CASE Operation /\ UNCHANGED durableVars
    <3>1. UNCHANGED file
      BY <2>3 DEF durableVars
    <3> QED
      BY <2>1, <2>3, <3>1, OperationDurable
  <2>4. ASSUME NEW a \in Adapters, NEW rev \in Revisions, NEW n \in Sizes,
               NEW m \in Manifest, RegisterDescriptor(a, rev, n, m)
        PROVE  RecoverySound'
    BY <2>1, <2>4, RegisterDurable DEF RegisterDescriptor
  <2>5. ASSUME NEW ids \in Lists, NEW policy \in Policies,
               PublishComposition(ids, policy)
        PROVE  RecoverySound'
    <3>1. DurableTypes' /\ DurableNow'
      BY <2>5, PublishDurable, RefusedDurable
    <3> QED
      BY <2>1, <2>5, <3>1 DEF PublishComposition
  <2>6. CASE Save
    <3>1. DurableTypes' /\ DurableNow'
      BY <2>2, <2>6 DEF Save
    <3>2. Durable(file')
      BY <2>6, SnapshotDurable DEF RecoverySound, Save
    <3> QED
      BY <3>1, <3>2 DEF RecoverySound
  <2>7. CASE Damage
    BY <2>2, <2>7 DEF Damage, RecoverySound
  <2>8. CASE StartRecovered
    <3>1. Durable(file) /\ Start(file)
      BY <2>8 DEF StartRecovered, Readable, RecoverySound
    <3> QED
      BY <2>1, <3>1, StartDurable DEF Start
  <2>9. CASE StartEmpty
    BY <2>1, <2>9, EmptyDurable, StartDurable DEF StartEmpty, Start
  <2>10. CASE UNCHANGED recoveryVars
    <3>1. UNCHANGED <<fabricVars, manifest, compositionVars>> /\ UNCHANGED file
      BY <2>10 DEF recoveryVars, durableVars
    <3> QED
      BY <2>1, <2>2, <3>1
  <2> QED
    BY <2>3, <2>4, <2>5, <2>6, <2>7, <2>8, <2>9, <2>10 DEF RecoveryNext
<1> QED
  BY <1>1, <1>2, PTL DEF RecoverySpec


-----------------------------------------------------------------------------
(* What is durable.                                                        *)

\* Every variable keeps its type, in every process of a chain of crashes and
\* recoveries.
THEOREM RecoveryTypeCorrect == RecoverySpec => []RecoveryTypeOK
<1>1. RecoverySound => RecoveryTypeOK
  BY DEF RecoverySound, DurableTypes, DurableNow, Registry, RecoveryTypeOK
<1> QED
  BY <1>1, RecoveryInvariant, PTL

\* What the registry computes is never refused: deserialize_snapshot accepts
\* what serialize_snapshot would write, at all times, as long as no count is
\* above the reader's cap and every descriptor is one that read_desc takes.
THEOREM SavedWithinCapsIsReadable == RecoverySpec => []ReadableWithinCaps
<1>1. RecoverySound => ReadableWithinCaps
  <2> SUFFICES ASSUME RecoverySound, WithinCaps(Snapshot),
                      \A a \in Registered : manifest[a].conforms
               PROVE  Readable(Snapshot)
    BY DEF ReadableWithinCaps
  <2>1. Durable(Snapshot)
    BY SnapshotDurable DEF RecoverySound
  <2>2. \A a \in Adapters :
          Snapshot.adapters[a] # None => Snapshot.manifest[a].conforms
    BY SnapshotFields DEF Registered
  <2> QED
    BY <2>1, <2>2, DurableReadable
<1> QED
  BY <1>1, RecoveryInvariant, PTL

\* No counter falls behind what the registry holds, however often recover()
\* puts back an earlier state of both.
THEOREM CountersStayAhead == RecoverySpec => []CountersAhead
<1>1. RecoverySound => CountersAhead
  BY DEF RecoverySound, DurableNow, Registry, Catalogue, Published, Below,
     CountersAhead, Registered
<1> QED
  BY <1>1, RecoveryInvariant, PTL

\* A composition agrees with the registry about every member that is current:
\* publish_composition, register_adapter and recover() never let the two
\* drift apart.
THEOREM CompositionsStayCoherent == RecoverySpec => []CompositionsCoherent
<1>1. \A m : CurrentIn(m, adapters) <=> m.generation # MaxGen /\ CurrentMember(m)
  BY DEF CurrentIn, CurrentMember
<1>2. RecoverySound => CompositionsCoherent
  <2> SUFFICES ASSUME RecoverySound, NEW c \in Comps, compositions[c] # None
               PROVE  LET ms == compositions[c].members
                          current == {k \in DOMAIN ms :
                                        ms[k].generation # MaxGen
                                        /\ CurrentMember(ms[k])}
                      IN  \A k \in current :
                            LET d == FullDescriptor(ms[k].adapter_id)
                            IN  /\ d.memory_bytes = ms[k].memory_bytes
                                /\ d.base_model = compositions[c].base_model
                                /\ d.base_model_revision =
                                     compositions[c].base_model_revision
                                /\ \A l \in current \ {k} :
                                     Range(d.targets)
                                       \cap Range(FullDescriptor(
                                              ms[l].adapter_id).targets) = {}
    BY DEF CompositionsCoherent
  <2>1. CoherentIn(compositions[c], adapters, manifest)
    BY DEF RecoverySound, DurableNow, Catalogue, Published
  <2> DEFINE ms == compositions[c].members
  <2>2. ASSUME NEW k \in DOMAIN ms, CurrentIn(ms[k], adapters)
        PROVE  LET d == FullDescriptor(ms[k].adapter_id)
               IN  /\ d.memory_bytes = ms[k].memory_bytes
                   /\ d.base_model = compositions[c].base_model
                   /\ d.base_model_revision = compositions[c].base_model_revision
    BY <2>1, <2>2, FullDescriptorFields DEF CoherentIn
  <2>3. ASSUME NEW k \in DOMAIN ms, NEW l \in DOMAIN ms \ {k},
               CurrentIn(ms[k], adapters), CurrentIn(ms[l], adapters)
        PROVE  Range(FullDescriptor(ms[k].adapter_id).targets)
                 \cap Range(FullDescriptor(ms[l].adapter_id).targets) = {}
    <3>1. /\ FullDescriptor(ms[k].adapter_id).targets
               = manifest[ms[k].adapter_id].targets
          /\ FullDescriptor(ms[l].adapter_id).targets
               = manifest[ms[l].adapter_id].targets
      BY FullDescriptorFields
    <3>2. Range(manifest[ms[k].adapter_id].targets)
            \cap Range(manifest[ms[l].adapter_id].targets) = {}
      BY <2>1, <2>3 DEF CoherentIn
    <3> QED
      BY <3>1, <3>2
  <2> QED
    BY <1>1, <2>2, <2>3
<1> QED
  BY <1>2, RecoveryInvariant, PTL

=============================================================================
