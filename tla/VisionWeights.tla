--------------------------- MODULE VisionWeights ---------------------------
(***************************************************************************)
(* How a checkpoint becomes the weights of the vision wrapper: the         *)
(* configuration and the layers built from it, the stream of tensors in    *)
(* the order of the files, load_weights' two passes over it, the child's   *)
(* loader with its finalization, the slabs of the EXL3 experts, and        *)
(* process_weights_after_loading.  A tensor is the payload of one expert   *)
(* (its three projections and their fields taken together), one of the     *)
(* carried FP8 tensors (layer 0), one of the vision tower, or one of the   *)
(* draft heads.  Its bits stand for the shape of its trellis, its mark for *)
(* the codebook markers that came with it, and fits for the other shapes.  *)
(***************************************************************************)
EXTENDS ExpertRouting, Exl3Config

CONSTANTS
  Rank,          \* the tensor-parallel rank of this process
  Packs,         \* what an engine may be given: a configuration and its tensors
  ImageEnabled   \* whether the wrapper has a vision tower

\* Experts are numbered; metadata the engine accepts name a layer of this model,
\* and the files hold a payload of this rank for each of its layers.
ASSUME WeightsAssumption ==
  /\ ImageEnabled \in BOOLEAN
  /\ Cardinality(Experts) \in Nat \ {0} /\ Experts = 1..Cardinality(Experts)
  /\ 0 \notin Layers
  /\ \A p \in Packs :
       /\ IsConfig(p.config)
       /\ ~Misconfigured(p.config) => Layers \cap MoeLayers(p.config) # {}
       /\ \A l \in Layers : \E t \in p.tensors : t.part = "language" /\ t.rank = Rank /\ t.layer = l
       /\ \A t \in p.tensors : t.bits \in Nat /\ t.part \in {"language", "vision", "mtp"}
                               /\ (t.part = "language" => t.layer \in Layers \cup {0})

VARIABLES
  format,      \* the load format: "tensors", or "dummy" weights
  config,      \* the configuration, see Exl3Config
  bitrates,    \* bitrates[l]: exl3_layer_bitrates, <<>> where layer l is not EXL3's
  checkpoint,  \* the tensors of the opened checkpoint
  rest,        \* those the stream has not produced yet
  group,       \* the module AutoWeightsLoader is feeding
  delivered,   \* the expert tensors the child's loader has stored
  slab,        \* slab[l]: the bits the trellis slab of layer l is allocated for, 0 before
  deferred,    \* the tensors held back for the second pass
  towers,      \* the tensors of the vision tower loaded
  finalized,   \* times the child's finalization ran
  marked,      \* _weights_finalized
  prepared,    \* prepared[l]: the weight plan of layer l, NoPlan before
  phase,       \* where the engine stands
  error        \* what stopped it

weightVars == <<format, config, bitrates, checkpoint, rest, group, delivered, slab, deferred, towers, finalized, marked, prepared>>

NoPlan == {}
IsLanguage(t) == t.part = "language"

\* hf_to_vllm_mapper: the draft heads go nowhere, the tower only where there is one.
Mapped(t) == t.part # "mtp" /\ (t.part = "vision" => ImageEnabled)

\* normalize_rank_sliced_weight_name: another rank's payload is dropped.
IsLocal(t) == t.rank = Rank

\* Several bitrates in a layer: its trellis tensors are kept one by one.
Tiers(l) == {bitrates[l][e] : e \in DOMAIN bitrates[l]}
TierIds(l, b) == {e \in Experts : bitrates[l][e] = b}
IsMixed(l) == Cardinality(Tiers(l)) > 1

\* The layers of this model get_quant_method gives to Exl3MoEMethod.
Exl3Layers == Layers \cap MoeLayers(config)
IsCarried(t) == t.layer = 0

\* What the child's loader refuses: a carried tensor whose module was built without
\* its scales, a payload for a layer that is not EXL3's, an expert outside the slab,
\* another shape than the slab's.
Refused_FirstShape(t) ==
  IF IsCarried(t) THEN BaseOf(config) = "none"
  ELSE t.layer \notin Exl3Layers \/ t.expert \notin Experts \/ (~IsMixed(t.layer) /\ slab[t.layer] # t.bits)
Refused(t) ==
  IF IsCarried(t) THEN BaseOf(config) = "none"
  ELSE \/ t.layer \notin Exl3Layers \/ t.expert \notin Experts
       \/ ~IsMixed(t.layer) /\ slab[t.layer] \notin {0, t.bits}

Fail(what) == phase' = "failed" /\ error' = what

loadVars == <<rest, group, delivered, slab, deferred, towers, finalized, marked, prepared>>

\* The configuration of the engine is read, before any layer is built.
MaybeUpdateConfig ==
  /\ phase = "configure"
  /\ IF Misconfigured(config) THEN Fail("config") ELSE phase' = "create" /\ UNCHANGED error
  /\ UNCHANGED <<format, config, bitrates, checkpoint, loadVars>>

\* The layers are built, each with the bitrates of its experts.
CreateWeights ==
  /\ phase = "create"
  /\ IF Exl3Layers # {} /\ Uncreatable(config, Cardinality(Experts))
     THEN Fail("config") /\ UNCHANGED bitrates
     ELSE /\ bitrates' = [l \in Layers |-> IF l \in Exl3Layers THEN LayerBitrates(config, l) ELSE <<>>]
          /\ phase' = "stream" /\ UNCHANGED error
  /\ UNCHANGED <<format, config, checkpoint, loadVars>>

\* The child's loader takes one tensor of its group.
LoadExl3Weight(t) ==
  IF Refused(t) THEN Fail("weights") /\ UNCHANGED <<delivered, slab>>
  ELSE /\ delivered' = delivered \cup {t}
       /\ slab' = IF IsCarried(t) \/ IsMixed(t.layer) THEN slab ELSE [slab EXCEPT ![t.layer] = t.bits]
       /\ UNCHANGED <<phase, error>>

\* AutoWeightsLoader hands each contiguous group to its module; the child
\* finalizes its weights when its group ends.
EndGroup(next) == finalized' = IF group = "language" /\ next # "language" THEN finalized + 1 ELSE finalized

\* What _language_first yields at once.
Streamed_All(t) == TRUE
Streamed(t) == IsLanguage(t)

Pass(t) ==
  /\ group' = t.part /\ EndGroup(t.part)
  /\ UNCHANGED deferred
  /\ IF IsLanguage(t)
     THEN /\ UNCHANGED towers
          /\ IF IsLocal(t) THEN LoadExl3Weight(t) ELSE UNCHANGED <<delivered, slab, phase, error>>
     ELSE towers' = towers \cup {t} /\ UNCHANGED <<delivered, slab, phase, error>>

\* One tensor of the stream.
Read ==
  /\ phase = "stream" /\ format = "tensors"
  /\ \E t \in rest :
       /\ rest' = rest \ {t}
       /\ IF ~Mapped(t) THEN UNCHANGED <<group, finalized, deferred, towers, delivered, slab, phase, error>>
          ELSE IF Streamed(t) THEN Pass(t)
          ELSE /\ deferred' = deferred \cup {t}
               /\ UNCHANGED <<group, finalized, towers, delivered, slab, phase, error>>
  /\ UNCHANGED <<format, config, bitrates, checkpoint, marked, prepared>>

EndStream ==
  /\ phase = "stream" /\ format = "tensors" /\ rest = {}
  /\ group' = "none" /\ EndGroup("none")
  /\ phase' = "deferred"
  /\ UNCHANGED <<format, config, bitrates, checkpoint, rest, delivered, slab, deferred, towers, marked, prepared, error>>

\* The second pass, and the mark that spares the child a second finalization.
LoadDeferred ==
  /\ phase = "deferred"
  /\ towers' = towers \cup deferred /\ deferred' = {}
  /\ marked' = TRUE /\ phase' = "process"
  /\ UNCHANGED <<format, config, bitrates, checkpoint, rest, group, delivered, slab, finalized, prepared, error>>

\* The loader of dummy weights calls no load_weights.
LoadDummy ==
  /\ phase = "stream" /\ format = "dummy"
  /\ phase' = "process"
  /\ UNCHANGED <<format, config, bitrates, checkpoint, rest, group, delivered, slab, deferred, towers, finalized, marked, prepared, error>>

Loaded(l) == {t \in delivered : t.layer = l}
\* process_weights_after_loading refuses a layer without one of its tensors, a
\* payload without exactly the MCG marker and its value, and odd shapes.
Complete(l) == \A e \in Experts : \E t \in Loaded(l) : t.expert = e
Validated(t) == t.mark = "mcg" /\ t.fits

\* So are more than two bitrates, one without a kernel, and a payload of another
\* geometry than the map declares.
Preparable(l) ==
  /\ Complete(l) /\ \A t \in Loaded(l) : Validated(t)
  /\ Cardinality(Tiers(l)) <= 2 /\ Tiers(l) \subseteq KernelBits
  /\ \A t \in Loaded(l) : t.bits = bitrates[l][t.expert]

\* The weight plan: its bitrates, each with the number of its experts.
WeightPlan(l) == {<<b, Cardinality(TierIds(l, b))>> : b \in Tiers(l)}

ProcessWeights ==
  /\ phase = "process"
  /\ \E l \in Exl3Layers :
       /\ prepared[l] = NoPlan
       /\ IF Preparable(l)
          THEN /\ prepared' = [prepared EXCEPT ![l] = WeightPlan(l)]
               /\ delivered' = IF IsMixed(l) THEN delivered \ Loaded(l) ELSE delivered
               /\ UNCHANGED <<phase, error>>
          ELSE Fail("weights") /\ UNCHANGED <<prepared, delivered>>
  /\ UNCHANGED <<format, config, bitrates, checkpoint, rest, group, slab, deferred, towers, finalized, marked>>

\* The wrapper's own hook, after every layer's.
ModelHook ==
  /\ phase = "process" /\ \A l \in Exl3Layers : prepared[l] # NoPlan
  /\ finalized' = IF marked THEN finalized ELSE finalized + 1
  /\ phase' = "profile"
  /\ UNCHANGED <<format, config, bitrates, checkpoint, rest, group, delivered, slab, deferred, towers, marked, prepared, error>>

Load == MaybeUpdateConfig \/ CreateWeights \/ Read \/ EndStream \/ LoadDeferred \/ LoadDummy \/ ProcessWeights \/ ModelHook
=============================================================================
