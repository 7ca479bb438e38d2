----------------------------- MODULE Exl3Config -----------------------------
(***************************************************************************)
(* What Exl3Config and create_weights make of the configuration an engine  *)
(* starts with: the metadata of a rank-sliced checkpoint (hybrid_tr3_tail),*)
(* the map of bitrates its bits_per_expert names, the quantization of the  *)
(* tensors that are no expert's, and the process's own parallelism.  A     *)
(* configuration c is a record of these; whatever the code raises          *)
(* ValueError for is a predicate named for it.                             *)
(***************************************************************************)
EXTENDS Integers, Sequences, FiniteSets

Required == {"bits", "codebook", "experts_per_layer", "moe_layers", "tensor_schema", "tp"}
TensorSchemas == {"model.layers", "layers"}
KernelBits == 2..6

\* A configuration as JSON and the engine's arguments give it.
IsConfig(c) ==
  /\ c.meta.bits \in Nat /\ c.meta.experts \in Nat /\ c.meta.tp \in Nat /\ c.tp \in Nat
  /\ c.meta.first \in Int /\ c.meta.last \in Int
  /\ \A l \in DOMAIN c.map : c.map[l].listed \in BOOLEAN /\ c.map[l].routed \in Seq(Nat) /\ c.map[l].tail \in Nat

\* The format of the metadata: without it the checkpoint is read as a plain EXL3 one, whose
\* records of tensors a rank-sliced pack does not have.
IsRankSliced(c) == c.meta.format = "exl3-trellis"

\* bits is "mixed" (0 here) or one number for every expert (here in tenths).
IsMixedMetadata(c) == c.meta.bits = 0

BadMetadata(c) ==
  \/ ~(Required \subseteq c.meta.keys)
  \/ c.meta.codebook # "mcg"
  \/ c.meta.first < 0 \/ c.meta.last < c.meta.first
  \/ c.meta.schema \notin TensorSchemas
  \/ /\ IsMixedMetadata(c)
     /\ \/ c.meta.kValues = {} \/ ~(c.meta.kValues \subseteq KernelBits)
        \/ c.meta.reference = "none"

\* The layers whose experts are EXL3's; every other module is the base's.
MoeLayers(c) == c.meta.first..c.meta.last

\* The tensors carried from the source: quantization_config's own description
\* of them, or else the one config.json gives.
BaseOf(c) == IF c.base # "none" THEN c.base ELSE c.carried
BadBase(c) == BaseOf(c) # "none" /\ (c.model # "deepseek_v4" \/ BaseOf(c) \notin {"fp8", "deepseek_v4_fp8"})

\* A layer's entry of the map; the overlay that lists its experts under tail_tr3
\* and has no field of its own (listed) stands for three bits each.
Raw(c, l) == IF c.map[l].listed THEN c.map[l].routed ELSE [i \in 1..c.map[l].tail |-> 3]
BadEntry(c, l) ==
  LET raw == Raw(c, l) IN Len(raw) # c.meta.experts \/ \E i \in DOMAIN raw : raw[i] \notin c.meta.kValues
BadBitrates(c) ==
  IsMixedMetadata(c) /\
    (\/ c.meta.reference # "file:field"
     \/ \E l \in MoeLayers(c) : l \notin DOMAIN c.map \/ BadEntry(c, l))

\* maybe_update_config raises.
Misconfigured(c) == ~IsRankSliced(c) \/ BadMetadata(c) \/ BadBase(c) \/ BadBitrates(c)

\* rank_sliced_layer_bitrates.
BadUniform(c) == ~IsMixedMetadata(c) /\ c.meta.bits % 10 # 0
LayerBitrates(c, l) ==
  IF IsMixedMetadata(c) THEN Raw(c, l) ELSE [i \in 1..c.meta.experts |-> c.meta.bits \div 10]

\* create_weights raises for a model of n experts a layer.
Uncreatable(c, n) ==
  \/ ~c.half \/ c.expertParallel \/ c.expertBias
  \/ c.meta.tp # c.tp \/ c.meta.experts # n
  \/ ~c.scheduler
  \/ BadUniform(c)

\* What make_config.py writes beside the weights of a model of n experts a layer,
\* over the map of bitrates the conversion found, and what every launch asks for.
MadeByMakeConfig(c, layers, n) ==
  /\ IsRankSliced(c) /\ Required \subseteq c.meta.keys
  /\ c.meta.codebook = "mcg" /\ c.meta.schema \in TensorSchemas
  /\ c.meta.bits = 0 /\ c.meta.reference = "file:field" /\ c.meta.experts = n /\ c.meta.tp = 1
  /\ MoeLayers(c) = layers /\ DOMAIN c.map = layers
  /\ \A l \in layers : c.map[l].listed /\ Len(c.map[l].routed) = n
  /\ c.meta.kValues = UNION {{c.map[l].routed[i] : i \in 1..n} : l \in layers}
  /\ c.base = "fp8" /\ c.model = "deepseek_v4"
  /\ c.tp = 1 /\ c.half /\ ~c.expertParallel /\ ~c.expertBias /\ c.scheduler
=============================================================================
