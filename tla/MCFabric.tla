------------------------------ MODULE MCFabric ------------------------------
(***************************************************************************)
(* Small instances of Fabric for TLC.                                      *)
(***************************************************************************)
EXTENDS Fabric, FiniteSets, TLC

\* Fences over every field check_fence compares; the residency generation
\* stands for the three generations that are compared the same way.
MCPresented ==
    [adapter : Adapters, adapter_generation : 1..MaxGen,
     base_model_revision : Revisions, epoch : 0..MaxEpoch, worker : Workers,
     boot : Boots, attempt : Attempts, device : Devices,
     residency_generation : {1}, composition_generation : {1},
     artifact_generation : {1}]

\* Bound of the exploration: a state is expanded while at most one of an
\* epoch advance, an invalidated adapter and an instance that is marked
\* (ready or pinned) has accumulated.  All other state is unbounded by it.
Marked == {i \in Instances : residencies[i] # None
                             /\ (residencies[i].ready \/ residencies[i].protected)}
FewMarks ==
    epoch + Cardinality(invalidation_log) + Cardinality(Marked) <= 1

Symmetry ==
    Permutations(Adapters) \cup Permutations(Boots) \cup Permutations(Attempts)

=============================================================================
