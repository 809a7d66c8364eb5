---------------------------- MODULE FabricProofs ----------------------------
(***************************************************************************)
(* Proofs about Fabric, for every set of adapters, workers, boots,         *)
(* attempts and presented fences and every bound.                          *)
(***************************************************************************)
EXTENDS Fabric, TLAPS

-----------------------------------------------------------------------------
(* The steps a Fabric may be made to take.                                 *)

\* A fence may name no device.
AnyDevice == Devices \cup {Nil}

\* wk_register calls register_worker and on_worker_restart under one lock.
Reregister(w, b) ==
    /\ RegisterWorkerEffect(w, b)
    /\ RestartEffect(w, b)
    /\ UNCHANGED <<registryVars, next_inst, invalidation_log>>

\* The operations of Next together with what the coordinator does: it may
\* load on no device, mark any number of bytes resident, and it registers a
\* worker again in one step.  Facts about steps are shown for this relation,
\* so that they hold of a Fabric on its own and of the coordinator's.
FabricStep ==
    \/ UNCHANGED fabricVars
    \/ AdvanceEpoch
    \/ \E a \in Adapters, rev \in Revisions, n \in Sizes :
         RegisterAdapter(a, rev, n)
    \/ \E w \in Workers, b \in Boots : RegisterWorker(w, b)
    \/ \E w \in Workers, b \in Boots : Reregister(w, b)
    \/ \E a \in Adapters, w \in Workers, b \in Boots, d \in AnyDevice :
         CreateInstance(a, w, b, d)
    \/ \E f \in Presented : BindAuthority(f)
    \/ \E a \in Adapters : Invalidate(a)
    \/ \E a \in Adapters : SetReady(a) \/ Deactivate(a)
    \/ \E w \in Workers, b \in Boots : OnWorkerRestart(w, b)
    \/ \E w \in Workers : OnWorkerDown(w)
    \/ \E i \in Instances :
         Evict(i) \/ Pin(i) \/ Unpin(i) \/ \E n \in Nat : MarkReady(i, n)

\* Every operation of a Fabric is such a step.
LEMMA NextIsStep == [Next]_fabricVars => FabricStep
BY BoundsAssumption DEF Next, FabricStep, AnyDevice

-----------------------------------------------------------------------------
(* Facts about the data.                                                   *)

\* Generation::next() stays within its width and never goes back.
LEMMA NextGenType ==
    ASSUME NEW g \in Gens
    PROVE  NextGen(g) \in Gens /\ NextGen(g) >= g
BY BoundsAssumption DEF Gens, NextGen

\* The fence create_instance writes is well formed.
LEMMA InstanceFenceType ==
    ASSUME FabricTypeOK, NEW a \in Adapters, NEW w \in Workers,
           NEW b \in Boots, NEW d \in AnyDevice, adapters[a] # None
    PROVE  InstanceFence(a, w, b, d) \in Fence
<1>1. adapters[a] \in Descriptor
  BY DEF FabricTypeOK
<1>2. 1 \in Gens
  BY BoundsAssumption DEF Gens
<1>3. adapters[a].generation \in Gens /\ adapters[a].base_model_revision \in Revisions
  BY <1>1 DEF Descriptor
<1>4. epoch \in Gens
  BY DEF FabricTypeOK
<1> QED
  BY <1>2, <1>3, <1>4 DEF InstanceFence, Fence, AnyDevice

\* The writes by which invalidate, on_worker_down and on_worker_restart take
\* an adapter's authority away leave a well-formed, inactive record that still
\* names its fence.
LEMMA RevokedType ==
    ASSUME NEW r \in AuthorityRecord
    PROVE  /\ Revoked(r) \in AuthorityRecord
           /\ Revoked(r).fence = r.fence
           /\ ~Revoked(r).active
BY DEF Revoked, AuthorityRecord, LifecycleStates
-----------------------------------------------------------------------------
(* Type correctness.                                                       *)

\* The constructor of Fabric establishes the types.
LEMMA InitType == Init => FabricTypeOK
BY BoundsAssumption DEF Init, FabricTypeOK, Gens

\* advance_epoch, register_adapter and register_worker preserve the types.
LEMMA RegistryType ==
    ASSUME FabricTypeOK,
           \/ AdvanceEpoch
           \/ \E a \in Adapters, rev \in Revisions, n \in Sizes :
                RegisterAdapter(a, rev, n)
           \/ \E w \in Workers, b \in Boots : RegisterWorker(w, b)
    PROVE  FabricTypeOK'
<1>1. CASE AdvanceEpoch
  BY <1>1, NextGenType
     DEF AdvanceEpoch, FabricTypeOK, residencyVars, authorityVars
<1>2. ASSUME NEW a \in Adapters, NEW rev \in Revisions, NEW n \in Sizes,
             RegisterAdapter(a, rev, n)
      PROVE  FabricTypeOK'
  <2>1. [generation |-> next_adapter_gen, base_model_revision |-> rev,
         memory_bytes |-> n] \in Descriptor
    BY DEF FabricTypeOK, Descriptor
  <2> QED
    BY <1>2, <2>1, NextGenType
       DEF RegisterAdapter, FabricTypeOK, residencyVars, authorityVars
<1>3. ASSUME NEW w \in Workers, NEW b \in Boots, RegisterWorker(w, b)
      PROVE  FabricTypeOK'
  <2>1. [boot |-> b, connected |-> TRUE] \in WorkerRecord
    BY DEF WorkerRecord
  <2> QED
    BY <1>3, <2>1 DEF RegisterWorker, RegisterWorkerEffect, FabricTypeOK,
       registryVars, residencyVars, authorityVars
<1> QED
  BY <1>1, <1>2, <1>3

\* create_instance preserves the types.
LEMMA CreateInstanceType ==
    ASSUME FabricTypeOK, NEW a \in Adapters, NEW w \in Workers,
           NEW b \in Boots, NEW d \in AnyDevice, CreateInstance(a, w, b, d)
    PROVE  FabricTypeOK'
<1>1. adapters[a] \in Descriptor
  BY DEF FabricTypeOK, CreateInstance
<1>2. InstanceFence(a, w, b, d) \in Fence
  BY InstanceFenceType DEF CreateInstance
<1> DEFINE rec == [adapter |-> a, bytes |-> adapters[a].memory_bytes,
                   worker |-> w, boot |-> b, ready |-> FALSE,
                   active_refs |-> 0, pin_count |-> 0, protected |-> FALSE]
           ar == [instance |-> next_inst, lifecycle |-> "loading",
                  fence |-> InstanceFence(a, w, b, d),
                  has_authority |-> FALSE, active |-> FALSE]
<1>3. rec \in ResidencyRecord
  <2>1. adapters[a].memory_bytes \in Nat
    BY <1>1, BoundsAssumption DEF Descriptor
  <2> QED
    BY <2>1 DEF ResidencyRecord
<1>4. next_inst \in Instances /\ next_inst' \in 1..(MaxInst + 1)
  BY BoundsAssumption DEF CreateInstance, Instances
<1>5. ar \in AuthorityRecord
  BY <1>2, <1>4 DEF AuthorityRecord, LifecycleStates
<1>6. residencies' = [residencies EXCEPT ![next_inst] = rec]
      /\ authority' = [authority EXCEPT ![a] = ar]
  BY DEF CreateInstance
<1>7. /\ UNCHANGED <<epoch, next_adapter_gen, adapters, workers>>
      /\ UNCHANGED <<active_fence, current_attempt, invalidation_log>>
  BY DEF CreateInstance, registryVars
<1> HIDE DEF rec, ar
<1> QED
  BY <1>3, <1>4, <1>5, <1>6, <1>7 DEF FabricTypeOK

\* bind_authority preserves the types, and the record it writes holds the
\* fence it was called with.
LEMMA BindAuthorityType ==
    ASSUME FabricTypeOK, NEW f \in Presented, BindAuthority(f)
    PROVE  /\ FabricTypeOK'
           /\ f.adapter \in Adapters
           /\ authority'[f.adapter] \in AuthorityRecord
           /\ authority'[f.adapter].fence = f
           /\ authority'[f.adapter].has_authority
<1>1. f \in Fence /\ f.adapter \in Adapters /\ f.attempt \in Attempts \cup {Nil}
  BY PresentedAssumption DEF BindAuthority, CanBind, FenceCurrent, Fence
<1>2. authority[f.adapter] \in AuthorityRecord
  BY <1>1 DEF BindAuthority, CanBind, FabricTypeOK
<1> DEFINE ar == [authority[f.adapter] EXCEPT !.fence = f,
                    !.has_authority = TRUE, !.active = TRUE,
                    !.lifecycle = "active"]
<1>3. ar \in AuthorityRecord /\ ar.fence = f /\ ar.has_authority
  BY <1>1, <1>2 DEF AuthorityRecord, LifecycleStates
<1>4. authority' = [authority EXCEPT ![f.adapter] = ar]
  BY DEF BindAuthority
<1>5. /\ current_attempt' = [current_attempt EXCEPT ![f.adapter] = f.attempt]
      /\ active_fence' = f
      /\ UNCHANGED <<epoch, next_adapter_gen, adapters, workers>>
      /\ UNCHANGED <<residencies, next_inst, invalidation_log>>
  BY DEF BindAuthority, registryVars, residencyVars
<1> HIDE DEF ar
<1>6. authority' \in [Adapters -> AuthorityRecord \cup {None}]
      /\ authority'[f.adapter] = ar
  BY <1>1, <1>3, <1>4 DEF FabricTypeOK
<1>7. FabricTypeOK'
  BY <1>1, <1>5, <1>6 DEF FabricTypeOK
<1> QED
  BY <1>1, <1>3, <1>6, <1>7

\* invalidate preserves the types.
LEMMA InvalidateType ==
    ASSUME FabricTypeOK, NEW a \in Adapters, Invalidate(a)
    PROVE  FabricTypeOK'
<1> DEFINE ar == IF authority[a] = None THEN None ELSE Revoked(authority[a])
<1>1. ar \in AuthorityRecord \cup {None}
  <2>1. CASE authority[a] = None
    BY <2>1
  <2>2. CASE authority[a] # None
    <3>1. authority[a] \in AuthorityRecord
      BY <2>2 DEF FabricTypeOK
    <3> QED
      BY <2>2, <3>1, RevokedType
  <2> QED
    BY <2>1, <2>2
<1>2. authority' = [authority EXCEPT ![a] = ar]
  BY DEF Invalidate
<1>3. /\ active_fence' \in {None, active_fence}
      /\ invalidation_log' = invalidation_log \cup {a}
      /\ UNCHANGED <<epoch, next_adapter_gen, adapters, workers>>
      /\ UNCHANGED <<residencies, next_inst, current_attempt>>
  BY DEF Invalidate, registryVars, residencyVars
<1> HIDE DEF ar
<1> QED
  BY <1>1, <1>2, <1>3 DEF FabricTypeOK

\* What on_worker_down and on_worker_restart do to authority, attempts,
\* residencies and the exclusive activation preserves their types.
LEMMA RevokeWorkerType ==
    ASSUME FabricTypeOK, NEW w, NEW bs, RevokeWorker(w, bs)
    PROVE  /\ authority' \in [Adapters -> AuthorityRecord \cup {None}]
           /\ residencies' \in [Instances -> ResidencyRecord \cup {None}]
           /\ active_fence' \in Fence \cup {None}
           /\ current_attempt' \in [Adapters -> Attempts \cup {Nil, None}]
<1>1. authority' \in [Adapters -> AuthorityRecord \cup {None}]
  <2> DEFINE lost(a) == authority[a] # None /\ Lost(authority[a].fence, w, bs)
             ar(a) == IF lost(a) THEN Revoked(authority[a]) ELSE authority[a]
  <2>1. ASSUME NEW a \in Adapters
        PROVE  ar(a) \in AuthorityRecord \cup {None}
    <3>1. CASE lost(a)
      <4>1. authority[a] \in AuthorityRecord
        BY <3>1 DEF FabricTypeOK
      <4> QED
        BY <3>1, <4>1, RevokedType
    <3>2. CASE ~lost(a)
      BY <3>2 DEF FabricTypeOK
    <3> QED
      BY <3>1, <3>2
  <2>2. authority' = [a \in Adapters |-> ar(a)]
    BY DEF RevokeWorker
  <2> HIDE DEF ar
  <2> QED
    BY <2>1, <2>2
<1>2. residencies' \in [Instances -> ResidencyRecord \cup {None}]
  <2> DEFINE rec(i) == IF Lost(residencies[i], w, bs)
                       THEN [residencies[i] EXCEPT !.ready = FALSE]
                       ELSE residencies[i]
  <2>1. ASSUME NEW i \in Instances
        PROVE  rec(i) \in ResidencyRecord \cup {None}
    <3>1. CASE residencies[i] = None
      BY <3>1 DEF Lost
    <3>2. CASE residencies[i] # None
      <4>1. residencies[i] \in ResidencyRecord
        BY <3>2 DEF FabricTypeOK
      <4>2. [residencies[i] EXCEPT !.ready = FALSE] \in ResidencyRecord
        BY <4>1 DEF ResidencyRecord
      <4> QED
        BY <4>1, <4>2
    <3> QED
      BY <3>1, <3>2
  <2>2. residencies' = [i \in Instances |-> rec(i)]
    BY DEF RevokeWorker
  <2> HIDE DEF rec
  <2> QED
    BY <2>1, <2>2
<1>3. active_fence' \in Fence \cup {None}
  BY DEF RevokeWorker, FabricTypeOK
<1>4. current_attempt' \in [Adapters -> Attempts \cup {Nil, None}]
  BY DEF RevokeWorker, FabricTypeOK
<1> QED
  BY <1>1, <1>2, <1>3, <1>4

\* on_worker_restart preserves the types.
LEMMA OnWorkerRestartType ==
    ASSUME FabricTypeOK, NEW w \in Workers, NEW b \in Boots,
           OnWorkerRestart(w, b)
    PROVE  FabricTypeOK'
<1>1. RevokeWorker(w, AnyBoot \ {b})
  BY DEF OnWorkerRestart, RestartEffect
<1>2. /\ UNCHANGED <<epoch, next_adapter_gen, adapters, workers>>
      /\ UNCHANGED <<next_inst, invalidation_log>>
  BY DEF OnWorkerRestart, registryVars
<1> QED
  BY <1>1, <1>2, RevokeWorkerType DEF FabricTypeOK

\* The registration of a worker that is back preserves the types.
LEMMA ReregisterType ==
    ASSUME FabricTypeOK, NEW w \in Workers, NEW b \in Boots, Reregister(w, b)
    PROVE  FabricTypeOK'
<1>1. RevokeWorker(w, AnyBoot \ {b})
  BY DEF Reregister, RestartEffect
<1>2. [boot |-> b, connected |-> TRUE] \in WorkerRecord
  BY DEF WorkerRecord
<1>3. workers' \in [Workers -> WorkerRecord \cup {None}]
  BY <1>2 DEF Reregister, RegisterWorkerEffect, FabricTypeOK
<1>4. UNCHANGED <<epoch, next_adapter_gen, adapters, next_inst,
                  invalidation_log>>
  BY DEF Reregister, registryVars
<1> QED
  BY <1>1, <1>3, <1>4, RevokeWorkerType DEF FabricTypeOK

\* on_worker_down preserves the types.
LEMMA OnWorkerDownType ==
    ASSUME FabricTypeOK, NEW w \in Workers, OnWorkerDown(w)
    PROVE  FabricTypeOK'
<1> DEFINE wr == IF workers[w] = None THEN None
                 ELSE [workers[w] EXCEPT !.connected = FALSE]
<1>1. RevokeWorker(w, AnyBoot)
  BY DEF OnWorkerDown
<1>2. wr \in WorkerRecord \cup {None}
  BY DEF FabricTypeOK, WorkerRecord
<1>3. workers' = [workers EXCEPT ![w] = wr]
  BY DEF OnWorkerDown
<1>4. UNCHANGED <<epoch, next_adapter_gen, adapters, next_inst,
                  invalidation_log>>
  BY DEF OnWorkerDown, registryVars
<1> HIDE DEF wr
<1> QED
  BY <1>1, <1>2, <1>3, <1>4, RevokeWorkerType DEF FabricTypeOK

\* evict, pin, unpin and the coordinator's write of readiness preserve the
\* types.
LEMMA ResidencyType ==
    ASSUME FabricTypeOK, NEW i \in Instances,
           Evict(i) \/ Pin(i) \/ Unpin(i) \/ \E n \in Nat : MarkReady(i, n)
    PROVE  FabricTypeOK' /\ UNCHANGED <<registryVars, workers, authorityVars>>
<1>1. ASSUME NEW rec \in ResidencyRecord \cup {None}, Residency(i, rec)
      PROVE  FabricTypeOK' /\ UNCHANGED <<registryVars, workers, authorityVars>>
  BY <1>1 DEF Residency, FabricTypeOK, registryVars, authorityVars
<1>2. CASE Evict(i)
  BY <1>1, <1>2 DEF Evict
<1>3. CASE ~Evict(i)
  <2>1. residencies[i] \in ResidencyRecord
    BY <1>3 DEF Residency, FabricTypeOK, Pin, Unpin, MarkReady
  <2>2. residencies[i].pin_count \in Nat
    BY <2>1 DEF ResidencyRecord
  <2>3. CASE Pin(i)
    <3>1. residencies[i].pin_count + 1 \in Nat
      BY <2>2
    <3>2. [residencies[i] EXCEPT !.pin_count = @ + 1, !.protected = TRUE]
            \in ResidencyRecord
      BY <2>1, <3>1, Zenon DEF ResidencyRecord
    <3> QED
      BY <1>1, <2>3, <3>2 DEF Pin
  <2>4. CASE Unpin(i)
    <3> DEFINE m == IF residencies[i].pin_count > 0
                    THEN residencies[i].pin_count - 1 ELSE 0
    <3>1. m \in Nat
      BY <2>2
    <3>2. Residency(i, [residencies[i] EXCEPT !.pin_count = m,
                                              !.protected = @ /\ m # 0])
      BY <2>4 DEF Unpin
    <3> HIDE DEF m
    <3>3. (residencies[i].protected /\ m # 0) \in BOOLEAN
      OBVIOUS
    <3>4. [residencies[i] EXCEPT !.pin_count = m, !.protected = @ /\ m # 0]
            \in ResidencyRecord
      BY <2>1, <3>1, <3>3, Zenon DEF ResidencyRecord
    <3> QED
      BY <1>1, <3>2, <3>4
  <2>5. ASSUME NEW n \in Nat, MarkReady(i, n)
        PROVE  FabricTypeOK' /\ UNCHANGED <<registryVars, workers, authorityVars>>
    <3>1. [residencies[i] EXCEPT !.ready = TRUE, !.bytes = n]
            \in ResidencyRecord
      BY <2>1, Zenon DEF ResidencyRecord
    <3> QED
      BY <1>1, <2>5, <3>1 DEF MarkReady
  <2> QED
    BY <1>3, <2>3, <2>4, <2>5
<1> QED
  BY <1>2, <1>3

\* The lifecycle writes of the coordinator and of af_cli preserve the types;
\* they keep the adapter's fence and activate nothing.
LEMMA RecordType ==
    ASSUME FabricTypeOK, NEW a \in Adapters, SetReady(a) \/ Deactivate(a)
    PROVE  /\ FabricTypeOK'
           /\ UNCHANGED <<active_fence, current_attempt>>
           /\ UNCHANGED <<registryVars, workers>>
           /\ authority[a] \in AuthorityRecord
           /\ authority'[a].fence = authority[a].fence
           /\ authority'[a].has_authority = authority[a].has_authority
           /\ authority'[a].active => authority[a].active
           /\ \A b \in Adapters \ {a} : authority'[b] = authority[b]
<1> DEFINE Good(rec) ==
             /\ rec \in AuthorityRecord
             /\ rec.fence = authority[a].fence
             /\ rec.has_authority = authority[a].has_authority
             /\ rec.active => authority[a].active
<1>1. authority[a] \in AuthorityRecord
  BY DEF SetReady, Deactivate, Record, FabricTypeOK
<1>2. Good([authority[a] EXCEPT !.lifecycle = "ready"])
  BY <1>1 DEF AuthorityRecord, LifecycleStates
<1>3. Good([authority[a] EXCEPT !.active = FALSE, !.lifecycle = "ready"])
  BY <1>1 DEF AuthorityRecord, LifecycleStates
<1>4. PICK rec : Good(rec) /\ Record(a, rec)
  BY <1>2, <1>3 DEF SetReady, Deactivate
<1>5. authority' = [authority EXCEPT ![a] = rec]
  BY <1>4 DEF Record
<1>6. /\ UNCHANGED <<epoch, next_adapter_gen, adapters, workers>>
      /\ UNCHANGED <<residencies, next_inst, invalidation_log>>
      /\ UNCHANGED <<active_fence, current_attempt>>
  BY <1>4 DEF Record, registryVars, residencyVars
<1>7. authority' \in [Adapters -> AuthorityRecord \cup {None}]
      /\ authority'[a] = rec
      /\ \A b \in Adapters \ {a} : authority'[b] = authority[b]
  BY <1>4, <1>5 DEF FabricTypeOK
<1>8. FabricTypeOK'
  BY <1>6, <1>7 DEF FabricTypeOK
<1> QED
  BY <1>1, <1>4, <1>6, <1>7, <1>8 DEF registryVars

\* Every step of the Fabric preserves the types.
LEMMA StepType ==
    ASSUME FabricTypeOK, FabricStep
    PROVE  FabricTypeOK'
<1>1. CASE UNCHANGED fabricVars
  BY <1>1 DEF fabricVars, registryVars, residencyVars, authorityVars,
     FabricTypeOK
<1> QED
  BY <1>1, RegistryType, CreateInstanceType, BindAuthorityType,
     InvalidateType, ReregisterType, OnWorkerRestartType, OnWorkerDownType,
     ResidencyType, RecordType DEF FabricStep

\* Type correctness: whatever sequence of operations a Fabric has seen, its
\* registry, residency, worker and authority maps hold well-formed entries and
\* no generation leaves its width.
THEOREM TypeCorrect == Spec => []FabricTypeOK
<1>1. Init => FabricTypeOK
  BY InitType
<1>2. FabricTypeOK /\ [Next]_fabricVars => FabricTypeOK'
  BY StepType, NextIsStep
<1> QED
  BY <1>1, <1>2, PTL DEF Spec

-----------------------------------------------------------------------------
(* The exclusive activation.                                               *)

\* Adapter a gains nothing in this step: if it is active afterwards it was
\* active before, under the same fence, and the two other places that record
\* its activation have not changed.
Kept(a) ==
    IsActive(a)' =>
      /\ IsActive(a)
      /\ authority'[a].fence = authority[a].fence
      /\ authority'[a].has_authority = authority[a].has_authority
      /\ active_fence' = active_fence
      /\ current_attempt'[a] = current_attempt[a]

\* A step that writes none of the authority state keeps every activation.
LEMMA FrameKept ==
    ASSUME UNCHANGED authorityVars
    PROVE  \A a \in Adapters : Kept(a)
BY DEF authorityVars, Kept, IsActive

\* create_instance: the adapter it reloads is inactive, the others are left
\* alone.
LEMMA CreateInstanceKept ==
    ASSUME FabricTypeOK, NEW a \in Adapters, NEW w \in Workers,
           NEW b \in Boots, NEW d \in AnyDevice, CreateInstance(a, w, b, d)
    PROVE  \A x \in Adapters : Kept(x)
<1> DEFINE ar == [instance |-> next_inst, lifecycle |-> "loading",
                  fence |-> InstanceFence(a, w, b, d),
                  has_authority |-> FALSE, active |-> FALSE]
<1>1. ~ar.active
  OBVIOUS
<1>2. authority' = [authority EXCEPT ![a] = ar]
      /\ UNCHANGED <<active_fence, current_attempt>>
  BY DEF CreateInstance
<1> HIDE DEF ar
<1> QED
  BY <1>1, <1>2 DEF FabricTypeOK, Kept, IsActive

\* invalidate: the adapter loses its activation, and active_fence_ is cleared
\* only if it was that adapter's.
LEMMA InvalidateKept ==
    ASSUME FabricTypeOK, ActivationAgrees, NEW a \in Adapters, Invalidate(a)
    PROVE  \A x \in Adapters : Kept(x)
<1> SUFFICES ASSUME NEW x \in Adapters, IsActive(x)'
             PROVE  Kept(x)
  BY DEF Kept
<1>1. x # a
  <2> SUFFICES ASSUME x = a
               PROVE  FALSE
    OBVIOUS
  <2>1. CASE authority[a] = None
    BY <2>1 DEF Invalidate, FabricTypeOK, IsActive
  <2>2. CASE authority[a] # None
    <3>1. authority[a] \in AuthorityRecord
      BY <2>2 DEF FabricTypeOK
    <3>2. authority'[a] = Revoked(authority[a])
      BY <2>2 DEF Invalidate, FabricTypeOK
    <3> QED
      BY <3>1, <3>2, RevokedType DEF IsActive
  <2> QED
    BY <2>1, <2>2
<1>2. authority'[x] = authority[x] /\ UNCHANGED current_attempt
  BY <1>1 DEF Invalidate, FabricTypeOK
<1>3. IsActive(x)
  BY <1>2 DEF IsActive
<1>4. active_fence.adapter = x
  BY <1>3 DEF ActivationAgrees
<1>5. active_fence' = active_fence
  BY <1>1, <1>4 DEF Invalidate
<1> QED
  BY <1>2, <1>3, <1>5 DEF Kept

\* on_worker_down and on_worker_restart: an activation on another worker or
\* another boot is left alone, because active_fence_ is its fence.
LEMMA RevokeWorkerKept ==
    ASSUME FabricTypeOK, ActivationAgrees, NEW w, NEW bs, RevokeWorker(w, bs)
    PROVE  \A x \in Adapters : Kept(x)
<1> SUFFICES ASSUME NEW x \in Adapters, IsActive(x)'
             PROVE  Kept(x)
  BY DEF Kept
<1> DEFINE lost == authority[x] # None /\ Lost(authority[x].fence, w, bs)
<1>1. ~lost
  <2> SUFFICES ASSUME lost
               PROVE  FALSE
    OBVIOUS
  <2>1. authority[x] \in AuthorityRecord
    BY DEF FabricTypeOK
  <2>2. authority'[x] = Revoked(authority[x])
    BY DEF RevokeWorker
  <2> QED
    BY <2>1, <2>2, RevokedType DEF IsActive
<1>2. authority'[x] = authority[x] /\ current_attempt'[x] = current_attempt[x]
  BY <1>1 DEF RevokeWorker
<1>3. IsActive(x)
  BY <1>2 DEF IsActive
<1>4. active_fence = authority[x].fence
  BY <1>3 DEF ActivationAgrees
<1>5. ~Lost(active_fence, w, bs)
  BY <1>1, <1>3, <1>4 DEF IsActive
<1>6. active_fence' = active_fence
  BY <1>5 DEF RevokeWorker
<1> QED
  BY <1>2, <1>3, <1>6 DEF Kept

\* Only bind_authority grants: every other operation keeps or ends what is
\* active, and only advance_epoch moves the epoch.
LEMMA OnlyBindGrants ==
    ASSUME FabricTypeOK, ActivationAgrees, FabricStep
    PROVE  \/ \E f \in Presented : BindAuthority(f)
           \/ /\ \A a \in Adapters : Kept(a)
              /\ epoch' = epoch \/ AdvanceEpoch
<1> DEFINE Goal == /\ \A a \in Adapters : Kept(a)
                   /\ epoch' = epoch \/ AdvanceEpoch
<1>1. ASSUME UNCHANGED fabricVars
      PROVE  Goal
  BY <1>1, FrameKept DEF fabricVars, registryVars
<1>2. ASSUME AdvanceEpoch
      PROVE  Goal
  BY <1>2, FrameKept DEF AdvanceEpoch
<1>3. ASSUME NEW a \in Adapters, NEW rev \in Revisions, NEW n \in Sizes,
             RegisterAdapter(a, rev, n)
      PROVE  Goal
  BY <1>3, FrameKept DEF RegisterAdapter
<1>4. ASSUME NEW w \in Workers, NEW b \in Boots, RegisterWorker(w, b)
      PROVE  Goal
  BY <1>4, FrameKept DEF RegisterWorker, registryVars
<1>5. ASSUME NEW a \in Adapters, NEW w \in Workers, NEW b \in Boots,
             NEW d \in AnyDevice, CreateInstance(a, w, b, d)
      PROVE  Goal
  BY <1>5, CreateInstanceKept DEF CreateInstance, registryVars
<1>6. ASSUME NEW a \in Adapters, Invalidate(a)
      PROVE  Goal
  BY <1>6, InvalidateKept DEF Invalidate, registryVars
<1>7. ASSUME NEW a \in Adapters, SetReady(a) \/ Deactivate(a)
      PROVE  Goal
  <2>1. authority[a] # None
    BY <1>7, RecordType, NoneAssumption
  <2>2. \A x \in Adapters : Kept(x)
    BY <1>7, <2>1, RecordType DEF Kept, IsActive
  <2>3. epoch' = epoch
    BY <1>7, RecordType DEF registryVars
  <2> QED
    BY <2>2, <2>3
<1>8. ASSUME NEW w \in Workers, NEW b \in Boots, OnWorkerRestart(w, b)
      PROVE  Goal
  BY <1>8, RevokeWorkerKept DEF OnWorkerRestart, RestartEffect, registryVars
<1>9. ASSUME NEW w \in Workers, OnWorkerDown(w)
      PROVE  Goal
  BY <1>9, RevokeWorkerKept DEF OnWorkerDown, registryVars
<1>10. ASSUME NEW i \in Instances,
              Evict(i) \/ Pin(i) \/ Unpin(i) \/ \E n \in Nat : MarkReady(i, n)
       PROVE  Goal
  BY <1>10, ResidencyType, FrameKept DEF registryVars
<1>11. ASSUME NEW w \in Workers, NEW b \in Boots, Reregister(w, b)
       PROVE  Goal
  BY <1>11, RevokeWorkerKept DEF Reregister, RestartEffect, registryVars
<1> HIDE DEF Goal
<1>12. (\E f \in Presented : BindAuthority(f)) \/ Goal
  BY <1>1, <1>2, <1>3, <1>4, <1>5, <1>6, <1>7, <1>8, <1>9, <1>10, <1>11
     DEF FabricStep
<1> QED
  BY <1>12 DEF Goal

\* bind_authority makes its adapter the only active one, and a holder it
\* renews had the same attempt.
LEMMA BindEffect ==
    ASSUME FabricTypeOK, ActivationAgrees, NEW f \in Presented,
           BindAuthority(f)
    PROVE  /\ \A a \in Adapters : IsActive(a) => a = f.adapter
           /\ \A a \in Adapters : IsActive(a)' => a = f.adapter
           /\ IsActive(f.adapter) => active_fence.attempt = f.attempt
<1>1. f.adapter \in Adapters
  BY BindAuthorityType
<1>2. active_fence # None => active_fence.adapter = f.adapter
  BY DEF BindAuthority, CanBind
<1>3. ASSUME NEW a \in Adapters, IsActive(a)
      PROVE  active_fence \in Fence /\ active_fence # None
  <2>1. authority[a] \in AuthorityRecord
    BY <1>3 DEF IsActive, FabricTypeOK
  <2>2. authority[a].fence \in Fence
    BY <2>1 DEF AuthorityRecord
  <2> QED
    BY <1>3, <2>2, NoneAssumption DEF ActivationAgrees
<1>4. \A a \in Adapters : IsActive(a) => a = f.adapter
  BY <1>2, <1>3 DEF ActivationAgrees
<1>5. ASSUME NEW a \in Adapters, IsActive(a)', a # f.adapter
      PROVE  FALSE
  <2>1. authority'[a] = authority[a]
    BY <1>1, <1>5 DEF BindAuthority, FabricTypeOK
  <2> QED
    BY <1>4, <1>5, <2>1 DEF IsActive
<1>6. ASSUME IsActive(f.adapter)
      PROVE  active_fence.attempt = f.attempt
  <2>1. current_attempt[f.adapter] = active_fence.attempt
    BY <1>1, <1>6 DEF ActivationAgrees
  <2>2. active_fence.attempt \in Attempts \cup {Nil}
    BY <1>1, <1>3, <1>6 DEF Fence
  <2>3. current_attempt[f.adapter] \in {None, f.attempt}
    BY DEF BindAuthority, CanBind, FenceCurrent, AttemptCurrent
  <2> QED
    BY <2>1, <2>2, <2>3, NoneAssumption
<1> QED
  BY <1>4, <1>5, <1>6

\* The agreement of the three places that record an activation is inductive.
LEMMA AgreementStep ==
    ASSUME FabricTypeOK, ActivationAgrees, FabricStep
    PROVE  ActivationAgrees'
<1>1. ASSUME NEW f \in Presented, BindAuthority(f)
      PROVE  ActivationAgrees'
  <2>1. /\ f.adapter \in Adapters
        /\ authority'[f.adapter].fence = f
        /\ authority'[f.adapter].has_authority
    BY <1>1, BindAuthorityType
  <2>2. active_fence' = f /\ current_attempt'[f.adapter] = f.attempt
    BY <1>1, <2>1 DEF BindAuthority, FabricTypeOK
  <2>3. \A a \in Adapters : IsActive(a)' => a = f.adapter
    BY <1>1, BindEffect
  <2> QED
    BY <2>1, <2>2, <2>3 DEF ActivationAgrees
<1>2. CASE \A a \in Adapters : Kept(a)
  BY <1>2 DEF Kept, ActivationAgrees
<1> QED
  BY <1>1, <1>2, OnlyBindGrants

\* An active record holds the fence of active_fence_ and the attempt of
\* current_attempt_, after every sequence of loads, activations,
\* invalidations, deactivations and worker losses.
THEOREM ActivationAgreement == Spec => []ActivationAgrees
<1>1. Init => ActivationAgrees
  BY DEF Init, ActivationAgrees, IsActive
<1>2. FabricTypeOK /\ ActivationAgrees /\ [Next]_fabricVars => ActivationAgrees'
  BY AgreementStep, NextIsStep
<1> QED
  BY <1>1, <1>2, TypeCorrect, PTL DEF Spec

\* Single-writer exclusivity of bind_authority: at most one adapter is active,
\* because the fence of every active one is active_fence_, which names its
\* adapter.
THEOREM Exclusivity == Spec => []SingleActivation
<1>1. ActivationAgrees => SingleActivation
  BY DEF ActivationAgrees, SingleActivation
<1> QED
  BY <1>1, ActivationAgreement, PTL

\* bind_authority turns away any other attempt on an adapter that is active,
\* and no other step changes an attempt.
LEMMA AttemptStep ==
    ASSUME FabricTypeOK, ActivationAgrees, FabricStep,
           NEW a \in Adapters, IsActive(a), IsActive(a)'
    PROVE  authority'[a].fence.attempt = authority[a].fence.attempt
<1>1. ASSUME NEW f \in Presented, BindAuthority(f)
      PROVE  authority'[a].fence.attempt = authority[a].fence.attempt
  <2>1. a = f.adapter /\ active_fence.attempt = f.attempt
    BY <1>1, BindEffect
  <2>2. authority'[a].fence = f
    BY <1>1, <2>1, BindAuthorityType
  <2> QED
    BY <2>1, <2>2 DEF ActivationAgrees
<1>2. CASE \A x \in Adapters : Kept(x)
  BY <1>2 DEF Kept
<1> QED
  BY <1>1, <1>2, OnlyBindGrants

\* An adapter that stays active keeps its activation attempt.
THEOREM AttemptStability == Spec => AttemptPinned
<1>1. FabricTypeOK /\ ActivationAgrees /\ [Next]_fabricVars =>
        [\A a \in Adapters :
           IsActive(a) /\ IsActive(a)' =>
             authority'[a].fence.attempt = authority[a].fence.attempt]_fabricVars
  BY AttemptStep, NextIsStep
<1> QED
  BY <1>1, TypeCorrect, ActivationAgreement, PTL DEF Spec, AttemptPinned

-----------------------------------------------------------------------------
(* Refinement of the exclusive lease.                                      *)

\* Each operation is a step of the abstract lease or leaves it alone:
\* bind_authority grants it, whatever clears the last active flag revokes it,
\* advance_epoch starts a new epoch.
LEMMA LeaseStep ==
    ASSUME FabricTypeOK, ActivationAgrees, FabricStep
    PROVE  [Lease!Next]_(Lease!leaseVars)
<1>1. ASSUME NEW f \in Presented, BindAuthority(f)
      PROVE  Lease!Grant(f)
  <2>1. f.adapter \in Adapters /\ IsActive(f.adapter)' /\ active_fence' = f
    <3>1. f.adapter \in Adapters
      BY <1>1, BindAuthorityType
    <3>2. authority[f.adapter] \in AuthorityRecord
      BY <1>1, <3>1 DEF BindAuthority, CanBind, FabricTypeOK
    <3> DEFINE ar == [authority[f.adapter] EXCEPT !.fence = f,
                        !.has_authority = TRUE, !.active = TRUE,
                        !.lifecycle = "active"]
    <3>3. ar.active
      BY <3>2, Zenon DEF AuthorityRecord
    <3>4. authority'[f.adapter] = ar /\ active_fence' = f
      BY <1>1, <3>1 DEF BindAuthority, FabricTypeOK
    <3>5. authority'[f.adapter] # None
      BY <1>1, BindAuthorityType, NoneAssumption
    <3> HIDE DEF ar
    <3> QED
      BY <3>1, <3>3, <3>4, <3>5 DEF IsActive
  <2>2. LeaseHolder' = f
    BY <2>1 DEF LeaseHolder
  <2>3. f.epoch = epoch /\ UNCHANGED epoch
    BY <1>1 DEF BindAuthority, CanBind, FenceCurrent, EpochCurrent, registryVars
  <2>4. ASSUME LeaseHolder # None
        PROVE  LeaseHolder.adapter = f.adapter /\ LeaseHolder.attempt = f.attempt
    <3>1. PICK a \in Adapters : IsActive(a) /\ LeaseHolder = active_fence
      BY <2>4 DEF LeaseHolder
    <3>2. a = f.adapter /\ active_fence.attempt = f.attempt
      BY <1>1, <3>1, BindEffect
    <3> QED
      BY <3>1, <3>2 DEF ActivationAgrees
  <2> QED
    BY <2>2, <2>3, <2>4 DEF Lease!Grant
<1>2. CASE \A a \in Adapters : Kept(a)
  <2>1. LeaseHolder' = None \/ LeaseHolder' = LeaseHolder
    <3>1. CASE \E a \in Adapters : IsActive(a)'
      <4>1. PICK a \in Adapters : IsActive(a)'
        BY <3>1
      <4>2. IsActive(a) /\ active_fence' = active_fence
        BY <1>2, <4>1 DEF Kept
      <4> QED
        BY <4>1, <4>2 DEF LeaseHolder
    <3>2. CASE ~ \E a \in Adapters : IsActive(a)'
      BY <3>2 DEF LeaseHolder
    <3> QED
      BY <3>1, <3>2
  <2>2. CASE epoch' = epoch
    BY <2>1, <2>2 DEF Lease!Next, Lease!Revoke, Lease!leaseVars
  <2>3. CASE AdvanceEpoch
    <3>1. epoch' > epoch
      BY <2>3, BoundsAssumption DEF AdvanceEpoch, NextGen, FabricTypeOK, Gens
    <3>2. LeaseHolder' = LeaseHolder
      BY <2>3 DEF AdvanceEpoch, authorityVars, LeaseHolder, IsActive
    <3> QED
      BY <3>1, <3>2 DEF Lease!Next, Lease!NewEpoch
  <2> QED
    BY <1>1, <2>2, <2>3, OnlyBindGrants DEF Lease!Next
<1> QED
  BY <1>1, <1>2, OnlyBindGrants DEF Lease!Next

\* The Fabric implements the exclusive lease: a lease that is granted under
\* the current epoch only, and that no other adapter and no other attempt gets
\* while it is held.
THEOREM LeaseRefinement == Spec => ImplementsLease
<1>1. Init => Lease!Init
  BY DEF Init, Lease!Init, LeaseHolder, IsActive
<1>2. FabricTypeOK /\ ActivationAgrees /\ [Next]_fabricVars
        => [Lease!Next]_(Lease!leaseVars)
  BY LeaseStep, NextIsStep
<1> QED
  BY <1>1, <1>2, TypeCorrect, ActivationAgreement, PTL
     DEF Spec, ImplementsLease, Lease!Spec

-----------------------------------------------------------------------------
(* Generations.                                                            *)

\* The generation counter is never behind a generation it has handed out.
GenerationsBounded ==
    \A a \in Adapters :
      adapters[a] # None => adapters[a].generation <= next_adapter_gen

\* Only register_adapter writes descriptors and the counter, and the epoch
\* never goes back.
LEMMA RegistryStep ==
    ASSUME FabricTypeOK, FabricStep
    PROVE  /\ epoch' >= epoch
           /\ \/ UNCHANGED <<next_adapter_gen, adapters>>
              \/ \E a \in Adapters :
                   /\ \A b \in Adapters \ {a} : adapters'[b] = adapters[b]
                   /\ adapters'[a] # None
                   /\ adapters'[a].generation = next_adapter_gen
                   /\ next_adapter_gen' = NextGen(next_adapter_gen)
<1> DEFINE Goal ==
      /\ epoch' >= epoch
      /\ \/ UNCHANGED <<next_adapter_gen, adapters>>
         \/ \E a \in Adapters :
              /\ \A b \in Adapters \ {a} : adapters'[b] = adapters[b]
              /\ adapters'[a] # None
              /\ adapters'[a].generation = next_adapter_gen
              /\ next_adapter_gen' = NextGen(next_adapter_gen)
<1>1. epoch \in Nat
  BY BoundsAssumption DEF FabricTypeOK, Gens
<1>2. CASE AdvanceEpoch
  BY <1>2, NextGenType DEF AdvanceEpoch, FabricTypeOK
<1>3. ASSUME NEW a \in Adapters, NEW rev \in Revisions, NEW n \in Sizes,
             RegisterAdapter(a, rev, n)
      PROVE  Goal
  <2> DEFINE d == [generation |-> next_adapter_gen,
                   base_model_revision |-> rev, memory_bytes |-> n]
  <2>1. d \in Descriptor /\ d.generation = next_adapter_gen
    BY DEF Descriptor, FabricTypeOK
  <2>2. /\ adapters' = [adapters EXCEPT ![a] = d]
        /\ next_adapter_gen' = NextGen(next_adapter_gen)
        /\ epoch' = epoch
    BY <1>3 DEF RegisterAdapter
  <2> HIDE DEF d
  <2>3. adapters'[a] = d /\ \A b \in Adapters \ {a} : adapters'[b] = adapters[b]
    BY <2>2 DEF FabricTypeOK
  <2>4. d # None
    BY <2>1, NoneAssumption
  <2>5. epoch' >= epoch
    BY <1>1, <2>2
  <2> QED
    BY <2>1, <2>2, <2>3, <2>4, <2>5
<1>4. CASE UNCHANGED registryVars
  BY <1>1, <1>4 DEF registryVars
<1>5. ASSUME NEW i \in Instances,
             Evict(i) \/ Pin(i) \/ Unpin(i) \/ \E n \in Nat : MarkReady(i, n)
      PROVE  UNCHANGED registryVars
  BY <1>5 DEF Evict, Pin, Unpin, MarkReady, Residency
<1>6. ASSUME NEW a \in Adapters, SetReady(a) \/ Deactivate(a)
      PROVE  UNCHANGED registryVars
  BY <1>6, RecordType
<1>7. \/ AdvanceEpoch
      \/ \E a \in Adapters, rev \in Revisions, n \in Sizes :
           RegisterAdapter(a, rev, n)
      \/ UNCHANGED registryVars
  BY <1>5, <1>6 DEF FabricStep, fabricVars, RegisterWorker, Reregister,
     CreateInstance, BindAuthority, Invalidate, OnWorkerRestart, OnWorkerDown
<1> QED
  BY <1>2, <1>3, <1>4, <1>7

\* Both facts about generations are inductive.
LEMMA GenerationsStep ==
    ASSUME FabricTypeOK, GenerationsBounded, GenerationsDistinct,
           FabricStep
    PROVE  GenerationsBounded' /\ GenerationsDistinct'
<1>1. CASE UNCHANGED <<next_adapter_gen, adapters>>
  BY <1>1 DEF GenerationsBounded, GenerationsDistinct
<1>2. ASSUME NEW a \in Adapters,
             \A b \in Adapters \ {a} : adapters'[b] = adapters[b],
             adapters'[a] # None,
             adapters'[a].generation = next_adapter_gen,
             next_adapter_gen' = NextGen(next_adapter_gen)
      PROVE  GenerationsBounded' /\ GenerationsDistinct'
  <2>1. /\ next_adapter_gen \in 0..MaxGen /\ MaxGen \in Nat
        /\ next_adapter_gen' \in 0..MaxGen
        /\ next_adapter_gen' >= next_adapter_gen
        /\ next_adapter_gen # MaxGen => next_adapter_gen' > next_adapter_gen
    BY <1>2, BoundsAssumption DEF FabricTypeOK, Gens, NextGen
  <2>2. ASSUME NEW b \in Adapters, adapters[b] # None
        PROVE  adapters[b].generation \in 0..MaxGen
    BY <2>2 DEF FabricTypeOK, Descriptor, Gens
  <2>3. GenerationsBounded'
    <3> SUFFICES ASSUME NEW b \in Adapters, adapters'[b] # None
                 PROVE  adapters'[b].generation <= next_adapter_gen'
      BY DEF GenerationsBounded
    <3>1. CASE b = a
      BY <1>2, <2>1, <3>1
    <3>2. CASE b # a
      <4>1. adapters'[b] = adapters[b]
        BY <1>2, <3>2
      <4>2. adapters[b].generation <= next_adapter_gen
        BY <4>1 DEF GenerationsBounded
      <4> QED
        BY <2>1, <2>2, <4>1, <4>2
    <3> QED
      BY <3>1, <3>2
  <2>4. ASSUME NEW b \in Adapters, adapters'[b] # None,
               adapters'[b].generation # MaxGen
        PROVE  adapters'[b].generation < next_adapter_gen'
    <3>1. CASE b = a
      BY <1>2, <2>1, <2>4, <3>1
    <3>2. CASE b # a
      <4>1. adapters'[b] = adapters[b]
        BY <1>2, <3>2
      <4>2. adapters[b].generation < next_adapter_gen
        BY <2>4, <4>1 DEF GenerationsDistinct
      <4> QED
        BY <2>1, <2>2, <2>4, <4>1, <4>2
    <3> QED
      BY <3>1, <3>2
  <2>5. ASSUME NEW b \in Adapters \ {a}, adapters[b] # None
        PROVE  \/ adapters[b].generation < next_adapter_gen
               \/ adapters[b].generation = MaxGen
    BY <2>5 DEF GenerationsDistinct
  <2>6. ASSUME NEW b \in Adapters, NEW c \in Adapters, b # c,
               adapters'[b] # None, adapters'[c] # None,
               adapters'[b].generation # MaxGen
        PROVE  adapters'[b].generation # adapters'[c].generation
    <3>1. CASE b = a
      <4>1. adapters'[c] = adapters[c] /\ c \in Adapters \ {a}
        BY <1>2, <2>6, <3>1
      <4> QED
        BY <1>2, <2>1, <2>2, <2>5, <2>6, <3>1, <4>1
    <3>2. CASE c = a
      <4>1. adapters'[b] = adapters[b] /\ b \in Adapters \ {a}
        BY <1>2, <2>6, <3>2
      <4> QED
        BY <1>2, <2>1, <2>2, <2>5, <2>6, <3>2, <4>1
    <3>3. CASE b # a /\ c # a
      <4>1. adapters'[b] = adapters[b] /\ adapters'[c] = adapters[c]
        BY <1>2, <3>3
      <4> QED
        BY <2>6, <4>1 DEF GenerationsDistinct
    <3> QED
      BY <3>1, <3>2, <3>3
  <2>7. GenerationsDistinct'
    BY <2>4, <2>6 DEF GenerationsDistinct
  <2> QED
    BY <2>3, <2>7
<1> QED
  BY <1>1, <1>2, RegistryStep

\* The counter is never behind, and generations below saturation are unique.
LEMMA GenerationsInvariant == Spec => [](GenerationsBounded /\ GenerationsDistinct)
<1>1. Init => GenerationsBounded /\ GenerationsDistinct
  BY DEF Init, GenerationsBounded, GenerationsDistinct
<1>2. FabricTypeOK /\ (GenerationsBounded /\ GenerationsDistinct)
        /\ [Next]_fabricVars => (GenerationsBounded /\ GenerationsDistinct)'
  BY GenerationsStep, NextIsStep
<1> QED
  BY <1>1, <1>2, TypeCorrect, PTL DEF Spec

\* No two adapters share a generation that register_adapter assigned, until
\* Generation::next() saturates.
THEOREM GenerationsUnique == Spec => []GenerationsDistinct
BY GenerationsInvariant, PTL

\* A fence that the epoch or the adapter's generation has moved past is still
\* out of date after any step, and check_fence rejects it.
LEMMA StaleStep ==
    ASSUME FabricTypeOK, FabricTypeOK', GenerationsBounded, FabricStep,
           NEW f \in Presented, Outdated(f)
    PROVE  Outdated(f)' /\ ~FenceCurrent(f)'
<1>1. f.epoch \in Nat /\ f.adapter_generation \in Nat
  BY PresentedAssumption, BoundsAssumption DEF Fence, Gens
<1>2. epoch \in Nat /\ epoch' \in Nat /\ epoch' >= epoch
  BY RegistryStep, BoundsAssumption DEF FabricTypeOK, Gens
<1>3. ASSUME f.adapter \in Adapters
      PROVE  /\ GenerationOf(f.adapter) \in Nat
             /\ GenerationOf(f.adapter)' \in Nat
             /\ GenerationOf(f.adapter)' >= GenerationOf(f.adapter)
  <2> DEFINE a == f.adapter
  <2>1. /\ adapters[a] # None => adapters[a].generation \in Nat
        /\ adapters'[a] # None => adapters'[a].generation \in Nat
        /\ next_adapter_gen \in Nat
    BY <1>3, BoundsAssumption DEF FabricTypeOK, Descriptor, Gens
  <2>2. \/ adapters'[a] = adapters[a]
        \/ adapters'[a] # None /\ adapters'[a].generation = next_adapter_gen
    BY <1>3, RegistryStep DEF FabricTypeOK
  <2>3. adapters[a] # None => adapters[a].generation <= next_adapter_gen
    BY <1>3 DEF GenerationsBounded
  <2> QED
    BY <2>1, <2>2, <2>3 DEF GenerationOf
<1>4. Outdated(f)'
  BY <1>1, <1>2, <1>3 DEF Outdated
<1>5. CASE f.epoch < epoch'
  BY <1>1, <1>2, <1>4, <1>5 DEF FenceCurrent, EpochCurrent
<1>6. CASE f.adapter \in Adapters /\ f.adapter_generation < GenerationOf(f.adapter)'
  BY <1>1, <1>3, <1>4, <1>6 DEF FenceCurrent, DescriptorCurrent, GenerationOf
<1> QED
  BY <1>4, <1>5, <1>6 DEF Outdated

\* A fence that the epoch or the adapter's generation has moved past stays
\* rejected by check_fence for ever: its replay cannot regain authority.
THEOREM StaleFenceRejected == Spec => NoStaleReplay
<1>1. FabricTypeOK /\ FabricTypeOK' /\ GenerationsBounded /\ [Next]_fabricVars =>
        [\A f \in Presented :
           Outdated(f) => Outdated(f)' /\ ~FenceCurrent(f)']_fabricVars
  BY StaleStep, NextIsStep
<1> QED
  BY <1>1, TypeCorrect, GenerationsInvariant, PTL DEF Spec, NoStaleReplay

-----------------------------------------------------------------------------
(* Reuse.                                                                  *)

\* Instance ids are handed out in order, and the instance an authority record
\* names is, while it is resident, one of that record's adapter.
InstancesOwned ==
    /\ \A i \in Instances : residencies[i] # None => i < next_inst
    /\ \A a \in Adapters :
         authority[a] # None =>
           /\ authority[a].instance < next_inst
           /\ residencies[authority[a].instance] # None =>
                residencies[authority[a].instance].adapter = a

\* Whoever holds authority holds it under an attempt.
AttemptHeld ==
    \A a \in Adapters :
      authority[a] # None /\ authority[a].has_authority =>
        current_attempt[a] # None

\* The step makes no record and no instance, and changes nothing of what an
\* authority record or a residency record is about.
SameInstances ==
    /\ next_inst' = next_inst
    /\ \A a \in Adapters :
         authority'[a] # None =>
           authority[a] # None /\ authority'[a].instance = authority[a].instance
    /\ \A i \in Instances :
         residencies'[i] # None =>
           residencies[i] # None /\ residencies'[i].adapter = residencies[i].adapter

\* The step gives no adapter authority, and takes an attempt away only with
\* the authority that was held under it.
AuthorityWithAttempt(a) ==
    authority'[a] # None /\ authority'[a].has_authority =>
      /\ authority[a] # None /\ authority[a].has_authority
      /\ current_attempt'[a] = current_attempt[a]

\* What takes a worker's state away makes no instance and keeps attempts with
\* the authority they stand for.
LEMMA RevokeWorkerInstances ==
    ASSUME FabricTypeOK, NEW w, NEW bs, RevokeWorker(w, bs),
           next_inst' = next_inst
    PROVE  SameInstances /\ \A a \in Adapters : AuthorityWithAttempt(a)
<1>1. ASSUME NEW a \in Adapters, authority'[a] # None
      PROVE  /\ authority[a] # None
             /\ authority'[a].instance = authority[a].instance
             /\ AuthorityWithAttempt(a)
  <2> DEFINE lost == authority[a] # None /\ Lost(authority[a].fence, w, bs)
  <2>1. CASE lost
    <3>1. authority[a] \in AuthorityRecord
      BY <2>1 DEF FabricTypeOK
    <3>2. authority'[a] = Revoked(authority[a])
      BY <2>1 DEF RevokeWorker
    <3>3. /\ Revoked(authority[a]).instance = authority[a].instance
          /\ ~Revoked(authority[a]).has_authority
      BY <3>1 DEF Revoked, AuthorityRecord
    <3> QED
      BY <2>1, <3>2, <3>3 DEF AuthorityWithAttempt
  <2>2. CASE ~lost
    <3>1. authority'[a] = authority[a]
          /\ current_attempt'[a] = current_attempt[a]
      BY <2>2 DEF RevokeWorker
    <3> QED
      BY <1>1, <3>1 DEF AuthorityWithAttempt
  <2> QED
    BY <2>1, <2>2
<1>2. ASSUME NEW i \in Instances, residencies'[i] # None
      PROVE  /\ residencies[i] # None
             /\ residencies'[i].adapter = residencies[i].adapter
  <2>1. CASE residencies[i] = None
    BY <1>2, <2>1 DEF RevokeWorker, Lost
  <2>2. CASE residencies[i] # None
    <3>1. residencies[i] \in ResidencyRecord
      BY <2>2 DEF FabricTypeOK
    <3>2. [residencies[i] EXCEPT !.ready = FALSE].adapter
            = residencies[i].adapter
      BY <3>1 DEF ResidencyRecord
    <3>3. residencies'[i] \in {residencies[i],
                               [residencies[i] EXCEPT !.ready = FALSE]}
      BY DEF RevokeWorker
    <3> QED
      BY <2>2, <3>2, <3>3
  <2> QED
    BY <2>1, <2>2
<1>3. \A a \in Adapters : AuthorityWithAttempt(a)
  BY <1>1 DEF AuthorityWithAttempt
<1> QED
  BY <1>1, <1>2, <1>3 DEF SameInstances

\* evict, pin, unpin and the write of readiness keep an instance its adapter's
\* and write no record of another instance.
LEMMA ResidencyInstances ==
    ASSUME FabricTypeOK, NEW i \in Instances,
           Evict(i) \/ Pin(i) \/ Unpin(i) \/ \E n \in Nat : MarkReady(i, n)
    PROVE  SameInstances
<1>1. residencies[i] # None /\ next_inst' = next_inst
      /\ UNCHANGED authorityVars
  BY DEF Evict, Pin, Unpin, MarkReady, Residency
<1>2. residencies[i] \in ResidencyRecord
  BY <1>1 DEF FabricTypeOK
<1>3. PICK rec : /\ rec # None => rec.adapter = residencies[i].adapter
                 /\ residencies' = [residencies EXCEPT ![i] = rec]
  <2>1. CASE Evict(i)
    BY <2>1 DEF Evict, Residency
  <2>2. CASE Pin(i)
    <3> DEFINE rec == [residencies[i] EXCEPT !.pin_count = @ + 1,
                                             !.protected = TRUE]
    <3>1. rec.adapter = residencies[i].adapter
      BY <1>2 DEF ResidencyRecord
    <3>2. residencies' = [residencies EXCEPT ![i] = rec]
      BY <2>2 DEF Pin, Residency
    <3> QED
      BY <3>1, <3>2
  <2>3. CASE Unpin(i)
    <3> DEFINE m == IF residencies[i].pin_count > 0
                    THEN residencies[i].pin_count - 1 ELSE 0
               rec == [residencies[i] EXCEPT !.pin_count = m,
                                             !.protected = @ /\ m # 0]
    <3>1. residencies' = [residencies EXCEPT ![i] = rec]
      BY <2>3 DEF Unpin, Residency
    <3> HIDE DEF m
    <3>2. rec.adapter = residencies[i].adapter
      BY <1>2 DEF ResidencyRecord
    <3> QED
      BY <3>1, <3>2
  <2>4. ASSUME NEW n \in Nat, MarkReady(i, n)
        PROVE  \E rec : /\ rec # None => rec.adapter = residencies[i].adapter
                        /\ residencies' = [residencies EXCEPT ![i] = rec]
    <3> DEFINE rec == [residencies[i] EXCEPT !.ready = TRUE, !.bytes = n]
    <3>1. rec.adapter = residencies[i].adapter
      BY <1>2 DEF ResidencyRecord
    <3>2. residencies' = [residencies EXCEPT ![i] = rec]
      BY <2>4 DEF MarkReady, Residency
    <3> QED
      BY <3>1, <3>2
  <2> QED
    BY <2>1, <2>2, <2>3, <2>4
<1> QED
  BY <1>1, <1>3 DEF SameInstances, FabricTypeOK, authorityVars

\* Only create_instance makes an instance, and only bind_authority gives an
\* adapter authority.
LEMMA InstancesStep ==
    ASSUME FabricTypeOK, FabricStep
    PROVE  /\ \/ SameInstances
              \/ \E a \in Adapters, w \in Workers, b \in Boots,
                    d \in AnyDevice : CreateInstance(a, w, b, d)
           /\ \A a \in Adapters :
                AuthorityWithAttempt(a) \/ current_attempt'[a] # None
<1> DEFINE Made == \E a \in Adapters, w \in Workers, b \in Boots,
                       d \in AnyDevice : CreateInstance(a, w, b, d)
           Goal == /\ SameInstances \/ Made
                   /\ \A a \in Adapters :
                        AuthorityWithAttempt(a) \/ current_attempt'[a] # None
<1>1. ASSUME UNCHANGED <<authorityVars, residencyVars>>
      PROVE  Goal
  BY <1>1 DEF authorityVars, residencyVars, SameInstances,
     AuthorityWithAttempt
<1>2. ASSUME NEW a \in Adapters, NEW w \in Workers, NEW b \in Boots,
             NEW d \in AnyDevice, CreateInstance(a, w, b, d)
      PROVE  Goal
  <2> DEFINE ar == [instance |-> next_inst, lifecycle |-> "loading",
                    fence |-> InstanceFence(a, w, b, d),
                    has_authority |-> FALSE, active |-> FALSE]
  <2>1. ~ar.has_authority
    OBVIOUS
  <2>2. authority' = [authority EXCEPT ![a] = ar]
        /\ UNCHANGED current_attempt
    BY <1>2 DEF CreateInstance
  <2> HIDE DEF ar
  <2>3. \A x \in Adapters : AuthorityWithAttempt(x)
    BY <2>1, <2>2 DEF FabricTypeOK, AuthorityWithAttempt
  <2> QED
    BY <1>2, <2>3
<1>3. ASSUME NEW f \in Presented, BindAuthority(f)
      PROVE  Goal
  <2>1. f.adapter \in Adapters /\ f \in Fence
    BY <1>3, BindAuthorityType, PresentedAssumption
  <2>2. f.attempt # None
    BY <2>1, NoneAssumption DEF Fence
  <2>3. authority[f.adapter] # None /\ authority[f.adapter] \in AuthorityRecord
    BY <1>3, <2>1 DEF BindAuthority, CanBind, FabricTypeOK
  <2> DEFINE ar == [authority[f.adapter] EXCEPT !.fence = f,
                      !.has_authority = TRUE, !.active = TRUE,
                      !.lifecycle = "active"]
  <2>4. ar.instance = authority[f.adapter].instance
    BY <2>3 DEF AuthorityRecord
  <2>5. /\ authority' = [authority EXCEPT ![f.adapter] = ar]
        /\ current_attempt' = [current_attempt EXCEPT ![f.adapter] = f.attempt]
        /\ UNCHANGED <<residencies, next_inst>>
    BY <1>3 DEF BindAuthority, residencyVars
  <2> HIDE DEF ar
  <2>6. SameInstances
    BY <2>1, <2>3, <2>4, <2>5 DEF SameInstances, FabricTypeOK
  <2>7. ASSUME NEW a \in Adapters
        PROVE  AuthorityWithAttempt(a) \/ current_attempt'[a] # None
    BY <2>1, <2>2, <2>5 DEF AuthorityWithAttempt, FabricTypeOK
  <2> QED
    BY <2>6, <2>7
<1>4. ASSUME NEW a \in Adapters, Invalidate(a)
      PROVE  Goal
  <2> DEFINE ar == IF authority[a] = None THEN None ELSE Revoked(authority[a])
  <2>1. /\ ar # None => authority[a] # None /\ ~ar.has_authority
        /\ ar # None => ar.instance = authority[a].instance
    <3>1. CASE authority[a] = None
      BY <3>1
    <3>2. CASE authority[a] # None
      <4>1. authority[a] \in AuthorityRecord
        BY <3>2 DEF FabricTypeOK
      <4> QED
        BY <3>2, <4>1 DEF Revoked, AuthorityRecord
    <3> QED
      BY <3>1, <3>2
  <2>2. /\ authority' = [authority EXCEPT ![a] = ar]
        /\ UNCHANGED <<residencies, next_inst, current_attempt>>
    BY <1>4 DEF Invalidate, residencyVars
  <2> HIDE DEF ar
  <2> QED
    BY <2>1, <2>2 DEF SameInstances, AuthorityWithAttempt, FabricTypeOK
<1>5. ASSUME NEW a \in Adapters, SetReady(a) \/ Deactivate(a)
      PROVE  Goal
  <2>1. authority[a] # None /\ UNCHANGED residencyVars
    BY <1>5 DEF SetReady, Deactivate, Record
  <2>2. authority'[a].instance = authority[a].instance
    <3>1. authority[a] \in AuthorityRecord
      BY <1>5, RecordType
    <3>2. [authority[a] EXCEPT !.lifecycle = "ready"].instance
            = authority[a].instance
      BY <3>1 DEF AuthorityRecord
    <3>3. [authority[a] EXCEPT !.active = FALSE, !.lifecycle = "ready"].instance
            = authority[a].instance
      BY <3>1 DEF AuthorityRecord
    <3>4. authority'[a] \in {[authority[a] EXCEPT !.lifecycle = "ready"],
             [authority[a] EXCEPT !.active = FALSE, !.lifecycle = "ready"]}
      BY <1>5 DEF SetReady, Deactivate, Record, FabricTypeOK
    <3> QED
      BY <3>2, <3>3, <3>4
  <2> QED
    BY <1>5, <2>1, <2>2, RecordType
       DEF SameInstances, AuthorityWithAttempt, residencyVars
<1>6. ASSUME NEW w \in Workers, NEW b \in Boots,
             OnWorkerRestart(w, b) \/ Reregister(w, b)
      PROVE  Goal
  BY <1>6, RevokeWorkerInstances DEF OnWorkerRestart, Reregister, RestartEffect
<1>7. ASSUME NEW w \in Workers, OnWorkerDown(w)
      PROVE  Goal
  BY <1>7, RevokeWorkerInstances DEF OnWorkerDown
<1>8. ASSUME NEW i \in Instances,
             Evict(i) \/ Pin(i) \/ Unpin(i) \/ \E n \in Nat : MarkReady(i, n)
      PROVE  Goal
  <2>1. UNCHANGED authorityVars
    BY <1>8, ResidencyType
  <2> QED
    BY <1>8, <2>1, ResidencyInstances DEF authorityVars, AuthorityWithAttempt
<1>9. ASSUME \/ UNCHANGED fabricVars
             \/ AdvanceEpoch
             \/ \E a \in Adapters, rev \in Revisions, n \in Sizes :
                  RegisterAdapter(a, rev, n)
             \/ \E w \in Workers, b \in Boots : RegisterWorker(w, b)
      PROVE  UNCHANGED <<authorityVars, residencyVars>>
  BY <1>9 DEF fabricVars, AdvanceEpoch, RegisterAdapter, RegisterWorker
<1> HIDE DEF Goal
<1>10. Goal
  BY <1>1, <1>2, <1>3, <1>4, <1>5, <1>6, <1>7, <1>8, <1>9 DEF FabricStep
<1> QED
  BY <1>10 DEF Goal

\* Ownership of instances and the attempt behind every authority are
\* inductive.
LEMMA ReuseStep ==
    ASSUME FabricTypeOK, FabricTypeOK', InstancesOwned, AttemptHeld, FabricStep
    PROVE  InstancesOwned' /\ AttemptHeld'
<1>1. AttemptHeld'
  BY InstancesStep DEF AttemptHeld, AuthorityWithAttempt
<1>2. ASSUME NEW a \in Adapters, authority[a] # None
      PROVE  authority[a].instance \in Instances
  BY <1>2 DEF FabricTypeOK, AuthorityRecord
<1>3. CASE SameInstances
  <2>1. \A a \in Adapters : authority'[a] # None =>
          authority[a] # None /\ authority'[a].instance = authority[a].instance
                              /\ authority[a].instance \in Instances
    BY <1>2, <1>3 DEF SameInstances
  <2> QED
    BY <1>1, <1>3, <2>1 DEF SameInstances, InstancesOwned
<1>4. ASSUME NEW a \in Adapters, NEW w \in Workers, NEW b \in Boots,
             NEW d \in AnyDevice, CreateInstance(a, w, b, d)
      PROVE  InstancesOwned'
  <2> DEFINE rec == [adapter |-> a, bytes |-> adapters[a].memory_bytes,
                     worker |-> w, boot |-> b, ready |-> FALSE,
                     active_refs |-> 0, pin_count |-> 0, protected |-> FALSE]
             ar == [instance |-> next_inst, lifecycle |-> "loading",
                    fence |-> InstanceFence(a, w, b, d),
                    has_authority |-> FALSE, active |-> FALSE]
  <2>1. rec.adapter = a /\ ar.instance = next_inst
    OBVIOUS
  <2>2. /\ residencies' = [residencies EXCEPT ![next_inst] = rec]
        /\ authority' = [authority EXCEPT ![a] = ar]
        /\ next_inst \in Instances /\ next_inst' = next_inst + 1
    BY <1>4 DEF CreateInstance
  <2> HIDE DEF rec, ar
  <2>3. next_inst \in Nat
    BY <2>2, BoundsAssumption DEF Instances
  <2>4. ASSUME NEW i \in Instances, residencies'[i] # None
        PROVE  i < next_inst'
    BY <2>2, <2>3, <2>4, BoundsAssumption
       DEF InstancesOwned, FabricTypeOK, Instances
  <2>5. ASSUME NEW x \in Adapters, authority'[x] # None
        PROVE  /\ authority'[x].instance < next_inst'
               /\ residencies'[authority'[x].instance] # None =>
                    residencies'[authority'[x].instance].adapter = x
    <3>1. CASE x = a
      BY <2>1, <2>2, <2>3, <3>1 DEF FabricTypeOK
    <3>2. CASE x # a
      <4>1. authority'[x] = authority[x] /\ authority[x] # None
        BY <2>2, <2>5, <3>2 DEF FabricTypeOK
      <4>2. /\ authority[x].instance \in Instances
            /\ authority[x].instance < next_inst
        BY <1>2, <4>1 DEF InstancesOwned
      <4>3. authority[x].instance \in Nat
        BY <4>2, BoundsAssumption DEF Instances
      <4>4. residencies'[authority[x].instance]
              = residencies[authority[x].instance]
        BY <2>2, <2>3, <4>2, <4>3 DEF FabricTypeOK
      <4> QED
        BY <2>2, <2>3, <4>1, <4>2, <4>3, <4>4 DEF InstancesOwned
    <3> QED
      BY <3>1, <3>2
  <2> QED
    BY <2>4, <2>5 DEF InstancesOwned
<1> QED
  BY <1>1, <1>3, <1>4, InstancesStep

\* The two facts make what reuse_safe says unambiguous.
LEMMA ReuseFollows ==
    ASSUME FabricTypeOK, InstancesOwned, AttemptHeld
    PROVE  ReuseUnambiguous
<1> SUFFICES ASSUME NEW f \in Presented, ReuseSafe(f)
             PROVE  /\ residencies[authority[f.adapter].instance].adapter
                         = f.adapter
                    /\ \A g \in Presented :
                         ReuseSafe(g) /\ f.adapter = g.adapter
                           /\ f.worker = g.worker => ValidateAuthority(f, g)
  BY DEF ReuseUnambiguous
<1>1. f.adapter \in Adapters /\ authority[f.adapter] # None
  BY DEF ReuseSafe, FenceCurrent
<1>2. residencies[authority[f.adapter].instance].adapter = f.adapter
  BY <1>1 DEF ReuseSafe, InstancesOwned
<1>3. ASSUME NEW g \in Presented, ReuseSafe(g), f.adapter = g.adapter,
             f.worker = g.worker
      PROVE  ValidateAuthority(f, g)
  <2>1. f.attempt = g.attempt
    BY <1>1, <1>3 DEF AttemptHeld, ReuseSafe, FenceCurrent, AttemptCurrent
  <2>2. f.boot = g.boot
    BY <1>3 DEF ReuseSafe, FenceCurrent, WorkerCurrent
  <2>3. /\ f.adapter_generation = g.adapter_generation
        /\ f.base_model_revision = g.base_model_revision
        /\ f.epoch = g.epoch
    BY <1>3 DEF ReuseSafe, FenceCurrent, DescriptorCurrent, EpochCurrent
  <2>4. Generations(f) = Generations(g)
    BY <1>1, <1>3 DEF ReuseSafe, FenceCurrent
  <2> QED
    BY <1>3, <2>1, <2>2, <2>3, <2>4 DEF ValidateAuthority
<1> QED
  BY <1>2, <1>3

\* What reuse_safe vouches for is an instance of the adapter that was asked
\* about, and the callers it says so to hold fences that agree in everything
\* validate_authority compares.
THEOREM ReuseSafety == Spec => []ReuseUnambiguous
<1>1. Init => InstancesOwned /\ AttemptHeld
  BY DEF Init, InstancesOwned, AttemptHeld
<1>2. FabricTypeOK /\ FabricTypeOK' /\ (InstancesOwned /\ AttemptHeld)
        /\ [Next]_fabricVars => (InstancesOwned /\ AttemptHeld)'
  BY ReuseStep, NextIsStep
<1>3. FabricTypeOK /\ (InstancesOwned /\ AttemptHeld) => ReuseUnambiguous
  BY ReuseFollows
<1> QED
  BY <1>1, <1>2, <1>3, TypeCorrect, PTL DEF Spec

=============================================================================
