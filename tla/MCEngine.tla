------------------------------ MODULE MCEngine ------------------------------
EXTENDS Exl3Runtimes

MCLayers == {1, 2, 3}
MCExperts == {1, 2}
MCDraftPlan == [d \in {4} |-> {<<2, 2>>}]  \* the plan of target layer 1
MCOrder == <<1, 2, 3, 4>>
MCDeclared == <<<<2, 2>>, <<3, 3>>, <<2, 3>>>>

Tensor(l, e, b, r) == [part |-> "language", layer |-> l, expert |-> e, bits |-> b, rank |-> r, mark |-> "mcg", fits |-> TRUE]
Other(part) == [part |-> part, layer |-> 0, expert |-> 0, bits |-> 0, rank |-> 0, mark |-> "none", fits |-> TRUE]
Carried == Other("language")
Whole == {Tensor(l, e, MCDeclared[l][e], 0) : l \in MCLayers, e \in MCExperts}
           \cup {Other("vision"), Other("mtp"), Tensor(1, 1, 2, 1)}
Instead(t, u) == (Whole \ {t}) \cup {u}

\* The configuration make_config.py writes for Whole; entry: a layer's bitrates.
Entry(bits) == [listed |-> TRUE, routed |-> bits, tail |-> 0]
Made ==
  [meta |-> [format |-> "exl3-trellis", keys |-> Required, codebook |-> "mcg", first |-> 1, last |-> 3,
             schema |-> "layers", bits |-> 0, kValues |-> {2, 3}, reference |-> "file:field", experts |-> 2, tp |-> 1],
   map |-> [l \in MCLayers |-> Entry(MCDeclared[l])],
   base |-> "fp8", carried |-> "fp8", model |-> "deepseek_v4",
   tp |-> 1, half |-> TRUE, expertParallel |-> FALSE, expertBias |-> FALSE, scheduler |-> TRUE]
Pack(c, tensors) == [config |-> c, tensors |-> tensors]

\* Checkpoints under their own configuration.
MCCheckpoints ==
  {Whole,
   Whole \ {Tensor(3, 2, 3, 0)},                                       \* an expert is missing
   Instead(Tensor(1, 2, 2, 0), Tensor(1, 2, 3, 0)),                    \* two shapes in one slab
   Instead(Tensor(3, 1, 2, 0), Tensor(3, 1, 3, 0)),                    \* another bitrate than declared
   Instead(Tensor(2, 2, 3, 0), Tensor(2, 3, 3, 0)),                    \* an expert the layer lacks
   Instead(Tensor(1, 1, 2, 0), [Tensor(1, 1, 2, 0) EXCEPT !.mark = "both"]),
   Instead(Tensor(3, 2, 3, 0), [Tensor(3, 2, 3, 0) EXCEPT !.mark = "none"]),
   Instead(Tensor(2, 1, 3, 0), [Tensor(2, 1, 3, 0) EXCEPT !.fits = FALSE])}

\* Configurations that are refused before a tensor is read, although the files are
\* whole, and two that are found out by a tensor without a module.
Refusals ==
  {[Made EXCEPT !.meta.format = "exl3"], [Made EXCEPT !.meta.keys = Required \ {"tp"}], [Made EXCEPT !.meta.codebook = "mul1"],
   [Made EXCEPT !.meta.last = 0], [Made EXCEPT !.meta.last = 4], [Made EXCEPT !.meta.schema = "other"],
   [Made EXCEPT !.meta.kValues = {}], [Made EXCEPT !.meta.kValues = {2}], [Made EXCEPT !.meta.kValues = {1, 2, 3}],
   [Made EXCEPT !.meta.reference = "file"], [Made EXCEPT !.meta.reference = "none"],
   [Made EXCEPT !.map = <<>>], [Made EXCEPT !.map[3] = Entry(<<2>>)],
   [Made EXCEPT !.map[2] = [listed |-> TRUE, routed |-> <<>>, tail |-> 2]], [Made EXCEPT !.meta.experts = 3],
   [Made EXCEPT !.meta.tp = 2], [Made EXCEPT !.tp = 2], [Made EXCEPT !.base = "mxfp4"], [Made EXCEPT !.model = "deepseek_v3"],
   [Made EXCEPT !.half = FALSE], [Made EXCEPT !.expertParallel = TRUE], [Made EXCEPT !.expertBias = TRUE],
   [Made EXCEPT !.scheduler = FALSE], [Made EXCEPT !.meta.bits = 25]}
Orphans == {[Made EXCEPT !.meta.last = 2], [Made EXCEPT !.base = "none", !.carried = "none"]}

\* One bitrate for every expert; the overlay's entry; the base of config.json alone.
Uniform == {Tensor(l, e, 2, 0) : l \in MCLayers, e \in MCExperts} \cup {Carried}
Overlaid == [Made EXCEPT !.map[2] = [listed |-> FALSE, routed |-> <<>>, tail |-> 2], !.base = "none"]
MCPacks ==
  {Pack(Made, tensors) : tensors \in MCCheckpoints}
    \cup {Pack(c, Whole \cup {Carried}) : c \in Refusals}
    \cup {Pack(c, {Carried, Tensor(1, 1, 2, 0), Tensor(2, 1, 3, 0), Tensor(3, 1, 2, 0)}) : c \in Orphans}
    \cup {Pack([Made EXCEPT !.meta.bits = 20], Uniform),
          Pack(Overlaid, (Whole \ {Tensor(1, 1, 2, 1), Other("mtp")}) \cup {Carried})}

Env(minM, maxM, chunk, prefill, batched, capture, shared) ==
  [minM |-> minM, maxM |-> maxM, chunk |-> chunk, prefill |-> prefill, batched |-> batched,
   capture |-> capture, shared |-> shared, block |-> 8, prefillBlock |-> 64, warmUps |-> TRUE]
Plain == Env(1, 2, 2, TRUE, 4, {2, 3}, TRUE)
MCSettings ==
  {[Plain EXCEPT !.block = 16], [Plain EXCEPT !.prefillBlock = 32], [Plain EXCEPT !.warmUps = FALSE],
   Env(1, 2, 2, TRUE, 4, {1, 2, 3}, TRUE), Env(1, 2, 2, TRUE, 3, {1}, TRUE), Env(1, 2, 2, TRUE, 4, {2}, FALSE),
   Env(1, 4, 1, FALSE, 3, {3}, TRUE), Env(1, 2, 2, FALSE, 4, {2}, TRUE),
   Env(3, 3, 1, TRUE, 4, {3}, TRUE), Env(3, 3, 2, TRUE, 4, {3}, TRUE),
   Env(2, 3, 1, TRUE, 4, {1, 3}, TRUE), Env(2, 3, 1, FALSE, 4, {3}, TRUE), Env(3, 2, 2, TRUE, 4, {}, TRUE)}

MCShape == [hidden |-> 4096, inter |-> 2048, topk |-> 6]
MCDevice == [sms |-> 48, shared |-> 101376]

MCTokenIds == {9, 10, 14, 15}
MCGates == {<<3, 2>>, <<2, 2>>}
MCBias == <<<<0, 0>>, <<0, 1>>, <<4, 0>>>>
MCBiasVl == <<<<0, 2>>, <<1, 0>>, <<0, 3>>>>
MCHashTable == [id \in MCTokenIds |-> {1}]
=============================================================================
