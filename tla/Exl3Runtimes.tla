---------------------------- MODULE Exl3Runtimes ----------------------------
(***************************************************************************)
(* The engine from its weights to its requests: the cache of planned EXL3  *)
(* runtimes with the mutable scratch each holds, the cache of compiled     *)
(* launches, the profile pass that fills both, the capture of the CUDA     *)
(* graphs that may add to neither, and the dispatch of a batch by its      *)
(* number of rows.  A forward pass visits the target's layers and then the *)
(* draft's.                                                                *)
(***************************************************************************)
EXTENDS VisionWeights, MoeLaunches

CONSTANTS
  DraftPlan,  \* DraftPlan[d]: the weight plan of layer d of the draft model
  Order,      \* the layers in the order a pass visits them, the draft's last
  Settings,   \* the environments an engine may start in
  TokenIds,   \* token ids of a row
  Gates       \* the scores a gate may give

DraftLayers == DOMAIN DraftPlan

ASSUME RuntimesAssumption ==
  /\ Order \in Seq(Layers \cup DraftLayers) /\ Order # <<>>
  /\ Layers \cap DraftLayers = {}
  /\ \A d \in DraftLayers : \A tier \in DraftPlan[d] : tier[1] \in KernelBits
  /\ TokenIds \subseteq Nat /\ Gates \subseteq [Experts -> Int]
  /\ \A s \in Settings : /\ s.minM \in Nat \ {0} /\ s.maxM \in Nat \ {0} /\ s.chunk \in Nat \ {0}
                         /\ s.prefill \in BOOLEAN /\ s.shared \in BOOLEAN
                         /\ s.batched \in Nat \ {0} /\ s.capture \subseteq 1..s.batched
                         /\ {s.block, s.prefillBlock} \subseteq RouteBlocks /\ s.warmUps \in BOOLEAN

VARIABLES
  env,       \* VLLM_EXL3_*, max_num_batched_tokens, the capture sizes, whether they
             \* are warmed up, whether the draft shares the target's config
  launches,  \* the launches compiled so far (_FUSED_CACHE)
  runtimes,  \* the planned runtimes: key -> arenas, with the layers that used them
  pass,      \* the forward pass under way: rows, capturing, next layer; NoPass
  use,       \* what the last layer of a pass ran on
  warmed,    \* the sizes warmed up for capture
  captured   \* the sizes with a CUDA graph

runVars == <<env, launches, runtimes, pass, use, warmed, captured>>
vars == <<weightVars, phase, error, runVars>>

NoPass == [rows |-> 0]
NoUse == [layer |-> "none"]

PlanOf(l) == IF l \in DraftLayers THEN DraftPlan[l] ELSE prepared[l]
Mixed(plan) == Cardinality(plan) > 1

\* The identity of the model that owns a runtime: its config and its role.
RuntimeOwnerToken(l) == <<IF env.shared \/ l \in Layers THEN "target" ELSE "draft", l \in DraftLayers>>

\* The key of a layer's runtime; m, the rows of this batch, is not part of it.
RuntimeKey_NoPlan(l, m) == <<IF Mixed(PlanOf(l)) THEN PlanOf(l) ELSE {}, RuntimeOwnerToken(l), env.batched>>
RuntimeKey(l, m) == <<PlanOf(l), RuntimeOwnerToken(l), env.batched>>

SmallerOf(a, b) == IF a <= b THEN a ELSE b

PrefillPlanned == env.prefill /\ env.batched > env.maxM
ParityBatch == SmallerOf(env.batched, env.minM - 1)
ParityRows ==
  IF ParityBatch = 0 THEN 0
  ELSE IF PrefillPlanned THEN SmallerOf(env.chunk, env.batched) ELSE env.batched
Unplannable_AnyChunk == env.minM > env.maxM
Unplannable == env.minM > env.maxM \/ ParityBatch > ParityRows

\* The arenas of a new runtime: the rows its decode, prefill and parity buffers
\* hold; a layer of two bitrates has no parity path.
MixedRankSlicedRuntime ==
  [decode |-> SmallerOf(env.maxM, env.batched), prefill |-> env.batched, parity |-> 0]
RankSlicedRuntime ==
  [decode |-> env.maxM, prefill |-> IF PrefillPlanned THEN env.batched ELSE 0, parity |-> ParityRows]
PlannedRuntime(plan) ==
  [arenas |-> IF Mixed(plan) THEN MixedRankSlicedRuntime ELSE RankSlicedRuntime, plan |-> plan, users |-> {}]

\* The path a batch of m rows takes through a runtime.
Kernel(plan, r, m) ==
  IF Mixed(plan) THEN IF m > r.prefill THEN "refused" ELSE IF m <= r.decode THEN "decode" ELSE "prefill"
  ELSE IF env.minM <= m /\ m <= env.maxM THEN "decode"
  ELSE IF r.prefill > 0 /\ m > env.maxM THEN IF m <= r.prefill THEN "prefill" ELSE "refused"
  ELSE IF pass.capturing \/ m > r.parity THEN "refused"
  ELSE "parity"

\* A runtime is planned for the first layer that asks for its key; under capture
\* it must be there already.
Uncached(l) == RuntimeKey(l, pass.rows) \notin DOMAIN runtimes
RuntimesFor(l) ==
  [k \in DOMAIN runtimes \cup {RuntimeKey(l, pass.rows)} |->
     IF k \in DOMAIN runtimes THEN runtimes[k] ELSE PlannedRuntime(PlanOf(l))]

\* What every batch would run and every capacity plan, tabulated over the settings.
Capacities == UNION {1..s.maxM \cup 1..s.batched : s \in Settings}
RunLaunchOf == [m \in Capacities |-> [block \in RouteBlocks |-> [bits \in KernelBits |-> RunLaunch(m, block, bits)]]]
PlanOfCapacity ==
  [m \in Capacities |-> [block \in RouteBlocks |-> [bits \in KernelBits |->
     LET compiles == \A n \in PlannedRows(m) : Compiles(n, block, bits, TrellisTileConfig)
     IN [compiles |-> compiles, launches |-> IF compiles THEN PlannedLaunches(m, block, bits) ELSE {}]]]]

\* The launches planned with a runtime of one bitrate, for its decode and its
\* prefill capacity; a layer of two bitrates holds its own launch and looks up none.
TrellisPlans == {<<env.maxM, env.block>>} \cup (IF PrefillPlanned THEN {<<env.batched, env.prefillBlock>>} ELSE {})
PlansOf(plan) ==
  IF Mixed(plan) THEN {} ELSE {PlanOfCapacity[p[1]][p[2]][tier[1]] : p \in TrellisPlans, tier \in plan}
Prewarmed(plan) == UNION {p.launches : p \in PlansOf(plan)}
PlanCompiles(plan) == \A p \in PlansOf(plan) : p.compiles

\* The launches a batch of m rows runs.
LaunchesOf(plan, kernel, m) ==
  IF Mixed(plan) \/ kernel = "parity" THEN {}
  ELSE {RunLaunchOf[m][IF kernel = "decode" THEN env.block ELSE env.prefillBlock][tier[1]] : tier \in plan}

\* A launch is compiled when it is first run, but not under capture.
Resolves(run, ready) == pass.capturing => run \subseteq ready

ApplyRankSliced(l) ==
  LET plan == PlanOf(l)
      key == RuntimeKey(l, pass.rows)
      all == RuntimesFor(l)
      kernel == Kernel(plan, all[key].arenas, pass.rows)
      ready == launches \cup (IF Uncached(l) THEN Prewarmed(plan) ELSE {})
      run == LaunchesOf(plan, kernel, pass.rows)
  IN IF \/ ~Mixed(plan) /\ Unplannable
        \/ Uncached(l) /\ ~pass.capturing /\ ~PlanCompiles(plan)
     THEN Fail("settings") /\ UNCHANGED <<runtimes, launches, use>>
     ELSE IF Uncached(l) /\ pass.capturing THEN Fail("capture") /\ UNCHANGED <<runtimes, launches, use>>
     ELSE IF kernel = "refused" \/ ~Resolves(run, ready)
     THEN /\ runtimes' = all /\ launches' = ready
          /\ Fail(IF pass.capturing THEN "capture" ELSE "shape") /\ UNCHANGED use
     ELSE /\ runtimes' = [all EXCEPT ![key].users = @ \cup {l}] /\ launches' = ready \cup run
          /\ \E chosen \in IF l \in Layers THEN FusedTopkBias(l, pass.id, pass.scores) ELSE {{}} :
               use' = [layer |-> l, key |-> key, kernel |-> kernel, rows |-> pass.rows, id |-> pass.id,
                       scores |-> pass.scores, experts |-> chosen]
          /\ UNCHANGED <<phase, error>>

\* The rows the next layer sees: the draft has a batch of its own when requests run.
NextRows ==
  IF phase = "serve" /\ Order[pass.at] \in Layers /\ Order[pass.at + 1] \in DraftLayers
  THEN 1..env.batched ELSE {pass.rows}

\* One layer of the pass; the last one ends it.
Layer ==
  /\ pass # NoPass
  /\ ApplyRankSliced(Order[pass.at])
  /\ LET done == phase' = phase /\ pass.at = Len(Order)
     IN /\ captured' = IF done /\ pass.capturing THEN captured \cup {pass.rows} ELSE captured
        /\ IF done \/ phase' # phase THEN pass' = NoPass
           ELSE \E m \in NextRows : pass' = [pass EXCEPT !.at = @ + 1, !.rows = m]
  /\ UNCHANGED <<weightVars, env, warmed>>

Forward(m, capturing) ==
  /\ pass = NoPass
  /\ \E id \in TokenIds, scores \in Gates :
       pass' = [rows |-> m, capturing |-> capturing, at |-> 1, id |-> id, scores |-> scores]
  /\ UNCHANGED <<weightVars, phase, error, env, launches, runtimes, use, captured>>

\* profile_run: one eager pass at the largest batch.
ProfileRun == phase = "profile" /\ use = NoUse /\ Forward(env.batched, FALSE) /\ UNCHANGED warmed

\* The worker may estimate the graphs' memory before it captures them.
EndProfile ==
  /\ phase = "profile" /\ pass = NoPass /\ use # NoUse
  /\ phase' \in {"estimate", "capture"}
  /\ UNCHANGED <<weightVars, error, runVars>>

\* profile_cudagraph_memory captures the two largest sizes, capture_model all of
\* them; the largest first, each warmed up by eager passes if so configured.
Larger(m) == {n \in env.capture : n > m}
Sizes == IF phase = "estimate" THEN {m \in env.capture : Cardinality(Larger(m)) < 2} ELSE env.capture
Uncaptured == Sizes \ captured
Largest(m) == m \in Uncaptured /\ \A n \in Uncaptured : n <= m
WarmUp ==
  /\ phase \in {"estimate", "capture"} /\ env.warmUps
  /\ \E m \in Uncaptured \ warmed : Largest(m) /\ Forward(m, FALSE) /\ warmed' = warmed \cup {m}
CaptureNext ==
  /\ phase \in {"estimate", "capture"}
  /\ \E m \in Uncaptured : Largest(m) /\ (env.warmUps => m \in warmed) /\ Forward(m, TRUE)
  /\ UNCHANGED warmed

\* The estimate throws its graphs away.
EndEstimate ==
  /\ phase = "estimate" /\ pass = NoPass /\ Uncaptured = {}
  /\ phase' = "capture" /\ warmed' = {} /\ captured' = {}
  /\ UNCHANGED <<weightVars, error, env, launches, runtimes, pass, use>>

EndCapture ==
  /\ phase = "capture" /\ pass = NoPass /\ Uncaptured = {}
  /\ phase' = "serve"
  /\ UNCHANGED <<weightVars, error, runVars>>

\* A batch of requests no graph covers (a covered one replays its graph).
Serve ==
  /\ phase = "serve"
  /\ \E m \in 1..env.batched : m \notin captured /\ Forward(m, FALSE)
  /\ UNCHANGED warmed

Init ==
  /\ format \in {"tensors", "dummy"}
  /\ \E p \in Packs : config = p.config /\ checkpoint = p.tensors
  /\ bitrates = [l \in Layers |-> <<>>] /\ rest = checkpoint /\ group = "none"
  /\ delivered = {} /\ slab = [l \in Layers |-> 0] /\ deferred = {} /\ towers = {}
  /\ finalized = 0 /\ marked = FALSE /\ prepared = [l \in Layers |-> NoPlan]
  /\ phase = "configure" /\ error = "none"
  /\ env \in Settings /\ launches = {} /\ runtimes = <<>> /\ pass = NoPass /\ use = NoUse /\ warmed = {} /\ captured = {}

Next ==
  \/ Load /\ UNCHANGED runVars
  \/ ProfileRun \/ EndProfile \/ WarmUp \/ CaptureNext \/ EndEstimate \/ EndCapture \/ Serve \/ Layer
  \/ phase = "failed" /\ UNCHANGED vars

\* The engine's process goes on by itself until it serves or stops.
Spec == Init /\ [][Next]_vars /\ WF_vars(Next)

(***************************************************************************)
(* Properties.                                                             *)
(***************************************************************************)

\* Every variable stays in its type (vl_model.py, exl3.py).
TypeOK ==
  /\ \E p \in Packs : config = p.config /\ checkpoint = p.tensors
  /\ \A l \in Layers : bitrates[l] = <<>> \/ DOMAIN bitrates[l] = Experts
  /\ rest \subseteq checkpoint /\ group \in {"none", "language", "vision"}
  /\ delivered \subseteq checkpoint /\ deferred \subseteq checkpoint /\ towers \subseteq checkpoint
  /\ slab \in [Layers -> Nat] /\ finalized \in Nat /\ marked \in BOOLEAN
  /\ phase \in {"configure", "create", "stream", "deferred", "process", "profile", "estimate", "capture", "serve", "failed"}
  /\ error \in {"none", "config", "weights", "settings", "capture", "shape"}
  /\ env \in Settings /\ warmed \subseteq env.capture /\ captured \subseteq env.capture
  /\ pass = NoPass \/ (pass.rows \in 1..env.batched /\ pass.at \in 1..Len(Order))

LocalLanguage == {t \in checkpoint : IsLanguage(t) /\ IsLocal(t)}

\* The child's loader finalizes the weights only over the whole of them, in
\* whatever order the files come (load_weights' comment on contiguous groups).
FinalizedWhole == [][finalized' > finalized => delivered \cup delivered' = LocalLanguage]_vars

\* What the first pass holds back is the vision tower, never a weight of the
\* language model: the memory of a second copy is not there (load_weights).
HeldBackIsTower == \A t \in deferred : t.part = "vision"

\* What the pack says of its experts, read without the loader's checks: the map
\* under the reference, the overlay's three bits, or the one bitrate of all.
Declared(l, e) ==
  IF config.meta.bits # 0 THEN config.meta.bits \div 10
  ELSE IF config.map[l].listed THEN config.map[l].routed[e] ELSE 3

\* An engine that comes up has every expert of every layer, packed for this process
\* in the codebook its kernel decodes and at the bitrate its runtime was prepared for,
\* the carried tensors in their own format, its tower, and weights finalized once.
ServesWholeModel ==
  phase \in {"profile", "estimate", "capture", "serve"} =>
    /\ \A l \in Layers, e \in Experts :
         \E t \in LocalLanguage : /\ t.layer = l /\ t.expert = e /\ t.mark = "mcg" /\ t.fits
                                  /\ t.bits = Declared(l, e)
    /\ \A l \in Layers : prepared[l] =
         {<<b, Cardinality({e \in Experts : Declared(l, e) = b})>> : b \in {Declared(l, e) : e \in Experts}}
    /\ config.meta.tp = config.tp
    /\ (\E t \in LocalLanguage : IsCarried(t)) => BaseOf(config) \in {"fp8", "deepseek_v4_fp8"}
    /\ ImageEnabled => towers = {t \in checkpoint : t.part = "vision"}
    /\ finalized = 1

\* What an engine loads: the tower apart, the whole of the model, in its types.
LoadInv == TypeOK /\ HeldBackIsTower /\ ServesWholeModel

\* Scratch is never shared by the target and the draft, nor by layers of
\* different weight plans (_runtime_owner_token, the dsvision note on the key).
ArenasApart ==
  \A k \in DOMAIN runtimes :
    \A a, b \in runtimes[k].users : (a \in Layers <=> b \in Layers) /\ PlanOf(a) = PlanOf(b)

\* A layer runs on arenas sized for its own plan and for its rows.
ArenaFits ==
  use # NoUse =>
    LET r == runtimes[use.key]
    IN r.plan = PlanOf(use.layer) /\ use.rows <= r.arenas[use.kernel]

\* Once the profile pass is over no runtime is planned: a later plan would allocate
\* its arena under capture or while requests run (_rank_sliced_runtime).  Once the
\* engine serves, it serves every batch the scheduler may form.
SteadyAfterProfile ==
  [][/\ phase \in {"estimate", "capture", "serve"} => DOMAIN runtimes' = DOMAIN runtimes
     /\ phase = "serve" => phase' = "serve"]_vars

\* Under the default prefill block the profile pass runs what its plans compiled
\* and nothing else: no first-use compilation is charged to the peak it measures
\* (_plan_full_rotation_w4a16_launches' docstring).
ProfileCompilesNothing ==
  phase = "profile" /\ env.prefillBlock = 64 /\ PrefillPlanned =>
    launches = UNION {Prewarmed(runtimes[k].plan) : k \in DOMAIN runtimes}

\* A runtime's mutable scratch is its layers' own and large enough, and what the
\* profile pass measured of it was not the compiler's work.
RuntimesInv == ArenasApart /\ ArenaFits /\ ProfileCompilesNothing

\* The same of every path, as the note on the scratch plan has it: a batch gets one
\* of the objects its plan primed.
RunsPlannedLaunch ==
  use # NoUse =>
    LaunchesOf(PlanOf(use.layer), use.kernel, use.rows) \subseteq Prewarmed(PlanOf(use.layer))

\* The note before parity_rows: with a window starting at one row every live
\* shape is served by the planned decode or prefill path.
EveryShapeServed == env.minM = 1 => error # "shape"

\* Image tokens choose by bias_vl on every layer, hash layers too, and no other
\* token does (_reroute_image_tokens_, the kernel's note on ids above the block).
RoutedByKind ==
  use # NoUse /\ use.layer \in Layers =>
    LET image == SentinelLo > 0 /\ use.id - SentinelLo \in 0..4
        right == IF image THEN Best(Plus(use.scores, BiasVl[use.layer]))
                 ELSE IF use.layer \in HashLayers THEN {HashTable[use.id]}
                 ELSE Best(Plus(use.scores, Bias[use.layer]))
    IN use.experts \in right

\* Where a layer has no hash table the two implementations agree: what dsv4_topk
\* takes is a choice fused_topk_bias may make.
PathsAgree ==
  use # NoUse /\ use.layer \in Layers \ HashLayers =>
    Dsv4Topk(use.layer, use.id, use.scores) \in FusedTopkBias(use.layer, use.id, use.scores)

\* Whatever path routes it, a token's experts are chosen with the bias of its kind.
RoutingInv == RoutedByKind /\ PathsAgree

\* A whole checkpoint under the configuration make_config.py wrote for it, and
\* under the default window, comes up.
ComesUp ==
  (/\ format = "tensors"
   /\ MadeByMakeConfig(config, Layers, Cardinality(Experts)) /\ config.meta.kValues \subseteq KernelBits
   /\ \A l \in Layers : Cardinality({Declared(l, e) : e \in Experts}) <= 2
   /\ \A t \in LocalLanguage \ {x \in LocalLanguage : IsCarried(x)} :
        t.expert \in Experts /\ t.bits = Declared(t.layer, t.expert) /\ Validated(t)
   /\ \A l \in Layers, e \in Experts : \E t \in LocalLanguage : t.layer = l /\ t.expert = e
   /\ env.minM = 1 /\ (env.prefill \/ env.batched <= env.maxM) /\ env.warmUps
   /\ \A p \in TrellisPlans, bits \in KernelBits : PlanOfCapacity[p[1]][p[2]][bits].compiles)
  => <>(phase = "serve")
=============================================================================
