------------------------------ MODULE MCParts -------------------------------
(***************************************************************************)
(* Small instances for TLC of the four parts that share no state with each *)
(* other: capacity accounting, the migration state machine, compatibility  *)
(* and the codec.  A behaviour exercises one of them.                      *)
(***************************************************************************)
EXTENDS Capacity, Migration, Compatibility, Codec, TLC

VARIABLE part       \* the part that is exercised

partVars == <<part, capacityVars, migrationVars, compatibilityVars, codecVars>>

-----------------------------------------------------------------------------
(* Compatibility: descriptors that differ from a good one in at most two   *)
(* factors, and targets with and without what they ask for.                *)

Good ==
    [base_model |-> "b1", base_model_revision |-> "r1",
     targets |-> <<[in_features |-> 1, out_features |-> 1]>>,
     kind |-> "lora", rank |-> 1, dtype |-> "f16",
     capabilities |-> <<[name |-> "sm_120", value |-> "supported",
                         required |-> TRUE]>>,
     dependencies |-> <<>>, artifact_digest |-> "d", validation |-> "valid",
     policy_generation |-> 1]

Optional(v) == [name |-> "sm_120", value |-> v, required |-> FALSE]

Changes ==
    {"base_model" :> Nil, "base_model" :> "b2", "base_model_revision" :> Nil,
     "targets" :> <<>>,
     "targets" :> <<[in_features |-> 1, out_features |-> 1],
                    [in_features |-> 1, out_features |-> 0]>>,
     "rank" :> 0, "kind" :> "prefix", "dtype" :> "unknown", "dtype" :> "f32",
     "dtype" :> "i8", "capabilities" :> <<>>,
     "capabilities" :> <<Optional("supported")>>,
     "capabilities" :> <<Optional("supported"), Optional("other")>>,
     "dependencies" :> <<[version |-> "1"], [version |-> ""]>>,
     "artifact_digest" :> "", "validation" :> "none",
     "policy_generation" :> 2}

MCDescriptors == {x @@ y @@ Good : x, y \in Changes}

MCTargets ==
    [base_model : {"b1"}, base_model_revision : {"r1"}, policy_generation : {1},
     runtime_capabilities :
       {<<>>, "fp16" :> "supported",
        "fp16" :> "supported" @@ "sm_120" :> "supported",
        "fp16" :> "no" @@ "sm_120" :> "other"}]
    \cup [base_model : {Nil}, base_model_revision : {"r1"},
          policy_generation : {2},
          runtime_capabilities : {"fp16" :> "supported"}]

-----------------------------------------------------------------------------
(* Codec: texts with and without bytes, the largest numbers, payloads.     *)

Texts == {<<>>, <<2, 0>>}

MCMessages ==
    [type : {1}, text : {<<1>>}, text2 : Texts, text3 : Texts, text4 : Texts,
     a : {Base^Bytes64 - 1}, b : {0}, c : {Base}, req_id : {1},
     ok : BOOLEAN, payload : {<<>>, <<1, 1>>}]

MCFences ==
    [adapter : {<<1, 0>>}, composition : {<<0, 0>>},
     adapter_generation : {0, 1}, composition_generation : {0},
     residency_generation : {1}, artifact_generation : {1},
     base_model_revision : {<<1, 2>>}, epoch : {Base^Bytes64 - 1},
     worker : {<<2, 1>>}, boot : {<<0, 1>>, <<2, 2>>}, attempt : {<<2, 2>>},
     device : {<<0, 0>>}, node : {<<0, 2>>}]

MCValues == [message |-> MCMessages, fence |-> MCFences]

\* As long as the shortest message, as a fence, and longer.
MCForeign == {[i \in 1..n |-> x] : n \in {15, 26, 30}, x \in 0..(Base - 1)}

-----------------------------------------------------------------------------

PartsInit ==
    /\ part \in {"capacity", "migration", "compatibility", "codec"}
    /\ \E initial \in [Locations -> Words] : CapacityInit(initial)
    /\ MigrationInit /\ CompatibilityInit /\ CodecInit
    /\ part # "capacity" => \A l \in Locations : limits[l] = 0
    /\ part # "migration" => ~destructive

PartsNext ==
    \/ /\ part = "capacity" /\ CapacityNext
       /\ UNCHANGED <<part, migrationVars, compatibilityVars, codecVars>>
    \/ /\ part = "migration" /\ MigrationNext
       /\ UNCHANGED <<part, capacityVars, compatibilityVars, codecVars>>
    \/ /\ part = "compatibility" /\ CompatibilityNext
       /\ UNCHANGED <<part, capacityVars, migrationVars, codecVars>>
    \/ /\ part = "codec" /\ CodecNext
       /\ UNCHANGED <<part, capacityVars, migrationVars, compatibilityVars>>

PartsSpec == PartsInit /\ [][PartsNext]_partVars

=============================================================================
