------------------------------- MODULE Fabric -------------------------------
(***************************************************************************)
(* The canonical registry and authority decision point, class Fabric of    *)
(* fabric.hpp and fabric.cpp: adapter descriptors and their generations,   *)
(* worker records, residency records of adapter instances, one authority   *)
(* record per adapter, and the single exclusive activation.                *)
(*                                                                         *)
(* A Fabric is not thread safe: its caller holds a lock (CoordinatorServer *)
(* under state_mc_) or has a single thread (af_cli), so each operation is  *)
(* one atomic action.  The maps of the C++ class are total functions that  *)
(* give None for an absent key.                                            *)
(*                                                                         *)
(* Definitions marked "Fault" are wrong variants of the definition that    *)
(* follows; the properties are shown to tell them apart.                   *)
(***************************************************************************)
EXTENDS Integers, Lifecycle

CONSTANTS
    Adapters,       \* adapter ids
    Workers,        \* worker ids
    Boots,          \* worker boot ids
    Attempts,       \* activation attempt ids
    Devices,        \* device ids
    Revisions,      \* base model revision ids
    Sizes,          \* memory footprints an adapter may declare
    Presented,      \* the fences callers present
    MaxGen,         \* largest value of a generation (2^64 - 1 in the code)
    MaxEpoch,       \* bound: epochs the coordinator advances to
    MaxInst,        \* bound: number of instances ever created
    MaxPins,        \* bound: pins held on one instance
    Nil,            \* the all-zero id
    None            \* an absent map entry or an empty optional

VARIABLES
    epoch,              \* epoch_
    next_adapter_gen,   \* next_adapter_gen_
    adapters,           \* adapters_: id -> descriptor
    workers,            \* workers_: id -> worker record
    authority,          \* authority_: adapter id -> authority record
    residencies,        \* residencies_: instance id -> residency record
    next_inst,          \* the next fresh instance id
    invalidation_log,   \* the adapters with an entry in invalidation_log_
    active_fence,       \* active_fence_: the exclusive activation
    current_attempt     \* current_attempt_: adapter id -> attempt id

registryVars == <<epoch, next_adapter_gen, adapters>>
residencyVars == <<residencies, next_inst>>
authorityVars == <<authority, active_fence, current_attempt>>
fabricVars == <<registryVars, workers, residencyVars, authorityVars,
                invalidation_log>>

-----------------------------------------------------------------------------
(* Data types.                                                             *)

Gens == 0..MaxGen
Instances == 1..MaxInst

\* struct AuthorityFence.  Its composition id and node are never read.
Fence ==
    [adapter : Adapters \cup {Nil}, adapter_generation : Gens,
     base_model_revision : Revisions \cup {Nil}, epoch : Gens,
     worker : Workers \cup {Nil}, boot : Boots \cup {Nil},
     attempt : Attempts \cup {Nil}, device : Devices \cup {Nil},
     residency_generation : Gens, composition_generation : Gens,
     artifact_generation : Gens]

\* struct AdapterDescriptor: what authority and residency depend on.
Descriptor ==
    [generation : Gens, base_model_revision : Revisions, memory_bytes : Sizes]

\* struct WorkerRecord: membership and the latest boot seen.
WorkerRecord == [boot : Boots, connected : BOOLEAN]

\* struct AdapterAuthorityRecord
AuthorityRecord ==
    [instance : Instances, lifecycle : LifecycleStates, fence : Fence,
     has_authority : BOOLEAN, active : BOOLEAN]

\* struct ResidencyRecord.  The location is always device memory, the
\* residency generation always 1 and the migration state always none; the
\* generation, epoch and device it was created under are never read again.
ResidencyRecord ==
    [adapter : Adapters, bytes : Nat, worker : Workers \cup {Nil},
     boot : Boots \cup {Nil}, ready : BOOLEAN, active_refs : Nat,
     pin_count : Nat, protected : BOOLEAN]

ASSUME BoundsAssumption ==
    /\ MaxGen \in Nat \ {0}
    /\ MaxEpoch \in 0..MaxGen
    /\ MaxInst \in Nat \ {0}
    /\ MaxPins \in Nat
    /\ Sizes \subseteq Nat \ {0}

ASSUME NilAssumption ==
    /\ Nil \notin Adapters \cup Workers \cup Boots \cup Attempts
    /\ Nil \notin Revisions \cup Devices

ASSUME PresentedAssumption == Presented \subseteq Fence

ASSUME NoneAssumption ==
    /\ None \notin Fence \cup Descriptor \cup WorkerRecord
    /\ None \notin AuthorityRecord \cup ResidencyRecord
    /\ None \notin Attempts \cup {Nil}

\* Every variable holds a value of its C++ type.
FabricTypeOK ==
    /\ epoch \in Gens
    /\ next_adapter_gen \in Gens
    /\ adapters \in [Adapters -> Descriptor \cup {None}]
    /\ workers \in [Workers -> WorkerRecord \cup {None}]
    /\ authority \in [Adapters -> AuthorityRecord \cup {None}]
    /\ residencies \in [Instances -> ResidencyRecord \cup {None}]
    /\ next_inst \in 1..(MaxInst + 1)
    /\ invalidation_log \subseteq Adapters
    /\ active_fence \in Fence \cup {None}
    /\ current_attempt \in [Adapters -> Attempts \cup {Nil, None}]

-----------------------------------------------------------------------------
(* Queries.                                                                *)

\* Fault: next() without saturation, and next() that stands still.
NextGenUnsaturated(g) == g + 1
NextGenStuck(g) == g

\* Generation::next(): saturates at the largest value, never returns to 0.
NextGen(g) == IF g = MaxGen THEN g ELSE g + 1

\* The generation of a descriptor, or none (0) for an unknown adapter.
GenerationOf(a) == IF adapters[a] = None THEN 0 ELSE adapters[a].generation

\* The record of adapter a says it is the active one.
IsActive(a) == authority[a] # None /\ authority[a].active

\* Fault: a check that always passes.
Unchecked(f) == TRUE

\* The early returns of Fabric::check_fence in their order, each negated:
\* registry, worker, boot and attempt, then the three generations of the
\* authority record (1 if there is none).  Device and node are not looked at.
EpochCurrent(f) == f.epoch = epoch

DescriptorCurrent(f) ==
    /\ f.adapter_generation = adapters[f.adapter].generation
    /\ f.base_model_revision = adapters[f.adapter].base_model_revision

WorkerCurrent(f) ==
    /\ f.worker \in Workers
    /\ workers[f.worker] # None
    /\ workers[f.worker].connected
    /\ f.boot # Nil /\ f.attempt # Nil
    /\ f.boot = workers[f.worker].boot

AttemptCurrent(f) == current_attempt[f.adapter] \in {None, f.attempt}

Generations(f) == <<f.residency_generation, f.composition_generation,
                    f.artifact_generation>>

\* Fabric::check_fence returns authorized.
FenceCurrent(f) ==
    /\ f.adapter \in Adapters
    /\ adapters[f.adapter] # None
    /\ EpochCurrent(f)
    /\ DescriptorCurrent(f)
    /\ WorkerCurrent(f)
    /\ AttemptCurrent(f)
    /\ Generations(f) = IF authority[f.adapter] = None THEN <<1, 1, 1>>
                        ELSE Generations(authority[f.adapter].fence)

\* Fabric::reuse_safe returns authorized.
ReuseSafe(f) ==
    /\ FenceCurrent(f)
    /\ authority[f.adapter] # None
    /\ authority[f.adapter].has_authority
    /\ residencies[authority[f.adapter].instance] # None
    /\ residencies[authority[f.adapter].instance].ready

\* validate_authority: a fence against a reference, factor by factor.
ValidateAuthority(f, ref) ==
    /\ f.worker = ref.worker /\ f.boot = ref.boot /\ f.attempt = ref.attempt
    /\ f.adapter_generation = ref.adapter_generation
    /\ Generations(f) = Generations(ref)
    /\ f.base_model_revision = ref.base_model_revision
    /\ f.epoch = ref.epoch

-----------------------------------------------------------------------------
(* Operations.                                                             *)

Init ==
    /\ epoch = 0
    /\ next_adapter_gen = 1
    /\ adapters = [a \in Adapters |-> None]
    /\ workers = [w \in Workers |-> None]
    /\ authority = [a \in Adapters |-> None]
    /\ residencies = [i \in Instances |-> None]
    /\ next_inst = 1
    /\ invalidation_log = {}
    /\ active_fence = None
    /\ current_attempt = [a \in Adapters |-> None]

AdvanceEpoch ==
    /\ epoch < MaxEpoch
    /\ epoch' = NextGen(epoch)
    /\ UNCHANGED <<next_adapter_gen, adapters, workers, residencyVars,
                   authorityVars, invalidation_log>>

\* register_adapter of a well-formed descriptor (the throws for nil ids, an
\* empty digest and a zero footprint change nothing).  A known id is
\* overwritten under a new generation.
RegisterAdapter(a, rev, n) ==
    /\ adapters' = [adapters EXCEPT ![a] =
                      [generation |-> next_adapter_gen,
                       base_model_revision |-> rev, memory_bytes |-> n]]
    /\ next_adapter_gen' = NextGen(next_adapter_gen)
    /\ UNCHANGED <<epoch, workers, residencyVars, authorityVars,
                   invalidation_log>>

\* What register_worker does with the record of a connected worker.
RegisterWorkerEffect(w, b) ==
    workers' = [workers EXCEPT ![w] = [boot |-> b, connected |-> TRUE]]

RegisterWorker(w, b) ==
    /\ RegisterWorkerEffect(w, b)
    /\ UNCHANGED <<registryVars, residencyVars, authorityVars,
                   invalidation_log>>

\* The fence create_instance writes: current, but with a nil attempt.
InstanceFence(a, w, b, d) ==
    [adapter |-> a, adapter_generation |-> adapters[a].generation,
     base_model_revision |-> adapters[a].base_model_revision,
     epoch |-> epoch, worker |-> w, boot |-> b, attempt |-> Nil, device |-> d,
     residency_generation |-> 1, composition_generation |-> 1,
     artifact_generation |-> 1]

\* create_instance: a fresh instance that is not ready, and a new authority
\* record that replaces the adapter's old one whatever it held.  Every caller
\* passes the descriptor's footprint as the size.
CreateInstance(a, w, b, d) ==
    /\ adapters[a] # None
    /\ next_inst \in Instances
    /\ residencies' = [residencies EXCEPT ![next_inst] =
                         [adapter |-> a, bytes |-> adapters[a].memory_bytes,
                          worker |-> w, boot |-> b, ready |-> FALSE,
                          active_refs |-> 0, pin_count |-> 0,
                          protected |-> FALSE]]
    /\ authority' = [authority EXCEPT ![a] =
                       [instance |-> next_inst, lifecycle |-> "loading",
                        fence |-> InstanceFence(a, w, b, d),
                        has_authority |-> FALSE, active |-> FALSE]]
    /\ next_inst' = next_inst + 1
    /\ UNCHANGED <<registryVars, workers, active_fence, current_attempt,
                   invalidation_log>>

\* Fault: no conflict check; no second check_fence.
CanBindOverHolder(f) == FenceCurrent(f) /\ authority[f.adapter] # None
CanBindUnchecked(f) ==
    /\ active_fence # None => active_fence.adapter = f.adapter
    /\ authority[f.adapter] # None

\* bind_authority gets past its checks: the fence is current, no other
\* adapter holds the exclusive activation, and the adapter has a record.
CanBind(f) ==
    /\ FenceCurrent(f)
    /\ active_fence # None => active_fence.adapter = f.adapter
    /\ authority[f.adapter] # None

\* Every caller of bind_authority passes fence.adapter as the id.
BindAuthority(f) ==
    /\ CanBind(f)
    /\ authority' = [authority EXCEPT ![f.adapter] =
                       [@ EXCEPT !.fence = f, !.has_authority = TRUE,
                                 !.active = TRUE, !.lifecycle = "active"]]
    /\ current_attempt' = [current_attempt EXCEPT ![f.adapter] = f.attempt]
    /\ active_fence' = f
    /\ UNCHANGED <<registryVars, workers, residencyVars, invalidation_log>>

\* Fault: the lifecycle is set but the authority is kept.
RevokedInName(r) == [r EXCEPT !.lifecycle = "invalidated"]

\* An authority record stripped of its authority.
Revoked(r) == [r EXCEPT !.active = FALSE, !.has_authority = FALSE,
                        !.lifecycle = "invalidated"]

\* invalidate: the adapter's attempt is not forgotten.
Invalidate(a) ==
    /\ invalidation_log' = invalidation_log \cup {a}
    /\ authority' = [authority EXCEPT ![a] =
                       IF @ = None THEN None ELSE Revoked(@)]
    /\ active_fence' = IF active_fence # None /\ active_fence.adapter = a
                       THEN None ELSE active_fence
    /\ UNCHANGED <<registryVars, workers, residencyVars, current_attempt>>

\* Takes everything worker w holds under one of the boots in bs: authority,
\* its attempt, readiness and the exclusive activation.
Lost(x, w, bs) == x # None /\ x.worker = w /\ x.boot \in bs

RevokeWorker(w, bs) ==
    LET lost(a) == authority[a] # None /\ Lost(authority[a].fence, w, bs)
    IN  /\ authority' = [a \in Adapters |->
                           IF lost(a) THEN Revoked(authority[a])
                           ELSE authority[a]]
        /\ current_attempt' = [a \in Adapters |->
                                 IF lost(a) THEN None ELSE current_attempt[a]]
        /\ residencies' = [i \in Instances |->
                             IF Lost(residencies[i], w, bs)
                             THEN [residencies[i] EXCEPT !.ready = FALSE]
                             ELSE residencies[i]]
        /\ active_fence' = IF Lost(active_fence, w, bs) THEN None
                           ELSE active_fence

AnyBoot == Boots \cup {Nil}

\* Fault: nothing of the previous boot is taken.
RestartNothing(w, b) == UNCHANGED <<authorityVars, residencies>>

\* on_worker_restart: every boot but the new one.
RestartEffect(w, b) == RevokeWorker(w, AnyBoot \ {b})

OnWorkerRestart(w, b) ==
    /\ RestartEffect(w, b)
    /\ UNCHANGED <<registryVars, workers, next_inst, invalidation_log>>

\* on_worker_down: every boot, and the worker counts as disconnected.
OnWorkerDown(w) ==
    /\ RevokeWorker(w, AnyBoot)
    /\ workers' = [workers EXCEPT ![w] =
                     IF @ = None THEN None
                     ELSE [@ EXCEPT !.connected = FALSE]]
    /\ UNCHANGED <<registryVars, next_inst, invalidation_log>>

\* An operation on the record of instance i alone.
Residency(i, record) ==
    /\ residencies[i] # None
    /\ residencies' = [residencies EXCEPT ![i] = record]
    /\ UNCHANGED <<registryVars, workers, next_inst, authorityVars,
                   invalidation_log>>

CanEvict(i) ==
    /\ residencies[i] # None
    /\ residencies[i].active_refs = 0
    /\ residencies[i].pin_count = 0 /\ ~residencies[i].protected

Evict(i) == CanEvict(i) /\ Residency(i, None)

Pin(i) ==
    /\ residencies[i] # None => residencies[i].pin_count < MaxPins
    /\ Residency(i, [residencies[i] EXCEPT !.pin_count = @ + 1,
                                           !.protected = TRUE])

Unpin(i) ==
    LET n == IF residencies[i].pin_count > 0
             THEN residencies[i].pin_count - 1 ELSE 0
    IN  Residency(i, [residencies[i] EXCEPT !.pin_count = n,
                                            !.protected = @ /\ n # 0])

\* A caller marks an instance resident through Fabric::residency.
MarkReady(i, n) ==
    Residency(i, [residencies[i] EXCEPT !.ready = TRUE, !.bytes = n])

\* A direct write of a caller to the authority record of adapter a.
Record(a, record) ==
    /\ authority[a] # None
    /\ authority' = [authority EXCEPT ![a] = record]
    /\ UNCHANGED <<registryVars, workers, residencyVars, active_fence,
                   current_attempt, invalidation_log>>

\* The coordinator forces the lifecycle to ready.
SetReady(a) == Record(a, [authority[a] EXCEPT !.lifecycle = "ready"])

\* af_cli deactivate clears the active flag too, but not active_fence_.
Deactivate(a) ==
    Record(a, [authority[a] EXCEPT !.active = FALSE, !.lifecycle = "ready"])

Next ==
    \/ AdvanceEpoch
    \/ \E a \in Adapters, rev \in Revisions, n \in Sizes :
         RegisterAdapter(a, rev, n)
    \/ \E w \in Workers, b \in Boots : RegisterWorker(w, b)
    \/ \E a \in Adapters, w \in Workers, b \in Boots, d \in Devices :
         CreateInstance(a, w, b, d)
    \/ \E f \in Presented : BindAuthority(f)
    \/ \E a \in Adapters : Invalidate(a)
    \/ \E a \in Adapters : SetReady(a)
    \/ \E a \in Adapters : Deactivate(a)
    \/ \E w \in Workers, b \in Boots : OnWorkerRestart(w, b)
    \/ \E w \in Workers : OnWorkerDown(w)
    \/ \E i \in Instances : Evict(i)
    \/ \E i \in Instances : Pin(i)
    \/ \E i \in Instances : Unpin(i)
    \/ \E i \in Instances, n \in Sizes : MarkReady(i, n)

Spec == Init /\ [][Next]_fabricVars

-----------------------------------------------------------------------------
(* What the registry promises.                                             *)

\* Single-writer exclusivity: whatever sequence of registrations, loads,
\* activations, deactivations, invalidations and worker losses the Fabric
\* has seen, at most one adapter's authority record is active.
SingleActivation ==
    \A a, b \in Adapters : IsActive(a) /\ IsActive(b) => a = b

\* The three places that record an activation agree: an active record holds
\* the very fence active_fence_ holds, its own adapter's, and the attempt in
\* current_attempt_ is the one that fence was bound with.
ActivationAgrees ==
    \A a \in Adapters :
      IsActive(a) =>
        /\ authority[a].has_authority
        /\ active_fence = authority[a].fence
        /\ active_fence.adapter = a
        /\ current_attempt[a] = active_fence.attempt

\* No two adapters share a generation and the next one handed out is fresh,
\* until the counter saturates at its largest value.
GenerationsDistinct ==
    \A a, b \in Adapters :
      (adapters[a] # None /\ adapters[a].generation # MaxGen) =>
        /\ adapters[a].generation < next_adapter_gen
        /\ (a # b /\ adapters[b] # None)
             => adapters[a].generation # adapters[b].generation

\* f is out of date: the epoch or the adapter's generation has moved past it.
Outdated(f) ==
    \/ f.epoch < epoch
    \/ /\ f.adapter \in Adapters
       /\ f.adapter_generation < GenerationOf(f.adapter)

\* Once a fence is out of date no later operation makes it current again, so
\* bind_authority can never accept its replay.
NoStaleReplay ==
    [][\A f \in Presented : Outdated(f) => Outdated(f)' /\ ~FenceCurrent(f)']_fabricVars

\* While an adapter stays active its activation attempt does not change: a
\* second attempt is turned away until the first one has ended.
AttemptPinned ==
    [][\A a \in Adapters :
         IsActive(a) /\ IsActive(a)' =>
           authority'[a].fence.attempt = authority[a].fence.attempt]_fabricVars

\* What reuse_safe vouches for is unambiguous: it is an instance of the very
\* adapter that is asked about, and of two callers it tells that the state on
\* a worker may be reused, each holds a fence validate_authority accepts
\* against the other's, so they belong to one attempt.
ReuseUnambiguous ==
    LET safe == {f \in Presented : ReuseSafe(f)}
    IN  \A f \in safe :
          /\ residencies[authority[f.adapter].instance].adapter = f.adapter
          /\ \A g \in safe :
               f.adapter = g.adapter /\ f.worker = g.worker =>
                 ValidateAuthority(f, g)

-----------------------------------------------------------------------------
(* What documents say of the registry and the code does not do.            *)

\* ARCHITECTURE.md: a change of authority "yields a new generation" and so
\* "makes stale replay detectable and rejectable": the fence of an invalidated
\* record is not the one it is activated with again.
InvalidatedFenceRetired ==
    [][\A a \in Adapters :
         (/\ authority[a] # None
          /\ authority[a].lifecycle = "invalidated"
          /\ IsActive(a)')
           => authority'[a].fence # authority[a].fence]_fabricVars

-----------------------------------------------------------------------------
(* The Fabric implements one exclusive lease.                              *)

\* The lease is held on active_fence_ while some record is active.  (After a
\* reload or a deactivation active_fence_ is left behind with no holder.)
LeaseHolder ==
    IF \E a \in Adapters : IsActive(a) THEN active_fence ELSE None

Lease == INSTANCE ExclusiveLease
           WITH Fences <- Presented, holder <- LeaseHolder

\* Every behaviour of the registry is a behaviour of the abstract lease:
\* bind_authority grants, whatever clears the active flag revokes.
ImplementsLease == Lease!Spec

=============================================================================
