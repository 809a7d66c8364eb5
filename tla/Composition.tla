---------------------------- MODULE Composition -----------------------------
(***************************************************************************)
(* CompositionBuilder of composition.cpp: which lists of adapters may be   *)
(* published as one composition, and what is frozen when they are.  A      *)
(* descriptor is a record with the fields id, generation, base_model,      *)
(* base_model_revision, memory_bytes and targets (a sequence of module     *)
(* names); ds is the sequence of descriptors handed to add().              *)
(***************************************************************************)
EXTENDS Integers, Sequences, Functions

CONSTANT WordSize   \* number of values of a byte counter (2^64 in the code)

ASSUME WordAssumption == WordSize \in Nat \ {0}

\* struct CompositionMember (revision and kind depend on the generation).
Members(ds) ==
    [i \in DOMAIN ds |->
       [adapter_id |-> ds[i].id, generation |-> ds[i].generation,
        memory_bytes |-> ds[i].memory_bytes]]

\* The builder's unsigned sum of its members' footprints.
TotalBytes(ms) ==
    SumFunction([i \in DOMAIN ms |-> ms[i].memory_bytes]) % WordSize

\* compute_digest: everything of the ordered members and the policy, as a
\* hash without collisions.
Digest(ms, policy) == <<ms, policy>>

\* add() refuses a member twice, one without a generation and one of another
\* base model or revision than the first adapter's.
Addable(ds) ==
    /\ \A i, j \in DOMAIN ds : ds[i].id = ds[j].id => i = j
    /\ \A i \in DOMAIN ds :
         /\ ds[i].generation # 0
         /\ ds[i].base_model = ds[1].base_model
         /\ ds[i].base_model_revision = ds[1].base_model_revision

\* Fault: modules are compared within one descriptor only.
SelfConflictFree(ds) ==
    \A i \in DOMAIN ds :
      \A k, l \in DOMAIN ds[i].targets :
        ds[i].targets[k] = ds[i].targets[l] => k = l

\* No module is a target twice, be it of two members or of one.
ConflictFree(ds) ==
    \A i, j \in DOMAIN ds :
      \A k \in DOMAIN ds[i].targets, l \in DOMAIN ds[j].targets :
        ds[i].targets[k] = ds[j].targets[l] => i = j /\ k = l

\* build() does not throw once add() has taken every member.
CanBuild(ds) == ds # <<>> /\ ConflictFree(ds)

\* Fault: the digest is taken when the policy has been moved away.
BuildPolicyMoved(ds, policy, gen) ==
    [members |-> Members(ds), generation |-> gen,
     base_model |-> ds[1].base_model,
     base_model_revision |-> ds[1].base_model_revision, policy |-> policy,
     total_memory_bytes |-> TotalBytes(Members(ds)),
     digest |-> Digest(Members(ds), <<>>)]

\* What build() freezes.
Build(ds, policy, gen) ==
    [members |-> Members(ds), generation |-> gen,
     base_model |-> ds[1].base_model,
     base_model_revision |-> ds[1].base_model_revision, policy |-> policy,
     total_memory_bytes |-> TotalBytes(Members(ds)),
     digest |-> Digest(Members(ds), policy)]

=============================================================================
