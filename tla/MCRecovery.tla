----------------------------- MODULE MCRecovery -----------------------------
(***************************************************************************)
(* Small instances of Recovery for TLC.                                    *)
(***************************************************************************)
EXTENDS Recovery, FiniteSets, TLC

CONSTANTS m1, m2, m3,   \* target modules
          bm1, bm2      \* base models

\* Adapters of one base model that conflict or not; one of another that
\* conflicts with itself and has more targets than the reader takes; and one
\* that the reader does not take for another reason.
Plain == {[base_model |-> bm1, targets |-> <<m>>, conforms |-> TRUE] :
            m \in {m1, m2}}

MCManifest ==
    Plain \cup {[base_model |-> bm2, targets |-> <<m3, m3, m3>>, conforms |-> TRUE],
                [base_model |-> bm1, targets |-> <<m3>>, conforms |-> FALSE]}
OneManifest == {[base_model |-> bm1, targets |-> <<m1>>, conforms |-> TRUE]}

MCPresented ==
    [adapter : Adapters, adapter_generation : 1..MaxGen,
     base_model_revision : Revisions, epoch : 0..MaxEpoch, worker : Workers,
     boot : Boots, attempt : Attempts, device : Devices,
     residency_generation : {1}, composition_generation : {1},
     artifact_generation : {1}]

\* Bound of the exploration: a state is expanded while at most two of an
\* epoch advance, an instance, a known worker, an invalidated adapter and a
\* composition (published here or recovered) have accumulated; an adapter
\* that is registered with a manifest outside Plain counts as two.  Plain
\* descriptors, the exclusive activation and the file are unbounded by it.
FewOperations ==
    LET published == Cardinality({c \in Comps : compositions[c] # None})
        drawn == next_comp - 1
    IN  epoch + (next_inst - 1) + Cardinality(invalidation_log)
          + (IF published > drawn THEN published ELSE drawn)
          + Cardinality({w \in Workers : workers[w] # None})
          + 2 * Cardinality({a \in Registered : manifest[a] \notin Plain}) <= 2

Symmetry == Permutations(Adapters) \cup Permutations({m1, m2})

=============================================================================
