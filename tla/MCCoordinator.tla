--------------------------- MODULE MCCoordinator ---------------------------
(***************************************************************************)
(* Small instances of Coordinator for TLC.                                 *)
(***************************************************************************)
EXTENDS Coordinator, TLC

MCPresented ==
    [adapter : Adapters, adapter_generation : 1..MaxGen,
     base_model_revision : Revisions, epoch : 0..MaxEpoch, worker : Workers,
     boot : Boots, attempt : Attempts, device : Devices,
     residency_generation : {1}, composition_generation : {1},
     artifact_generation : {1}]

\* Bound of the exploration: of the largest numbers of requests, instances and
\* worker connections the constants allow, not all three are reached at once,
\* and pins and epoch advances meet two requests and one connection at most.
NotAllAtOnce ==
    /\ \/ next_req \in Reqs
       \/ next_inst \in Instances
       \/ \E k \in Conns : conn[k].handler = "none"
    /\ \/ epoch = 0 /\ ~ \E i \in Instances :
                            residencies[i] # None /\ residencies[i].protected
       \/ next_req \in Reqs /\ \E k \in Conns : conn[k].handler = "none"

Symmetry ==
    Permutations(Clients) \cup Permutations(Boots) \cup Permutations(Attempts)

=============================================================================
