---------------------------- MODULE EngineProofs ----------------------------
(***************************************************************************)
(* An engine that comes up serves the whole of the pack it was given, its  *)
(* runtimes keep their scratch apart, and once it is profiled it plans     *)
(* nothing and refuses no batch: for every pack, every set of layers and   *)
(* experts, every environment and every order of the files.                *)
(***************************************************************************)
EXTENDS Exl3Runtimes, FiniteSetTheorems, TLAPS

-----------------------------------------------------------------------------
(* The configuration.                                                        *)

\* What make_config.py writes for a map within the kernel's bitrates is accepted by
\* the engine: by the metadata's checks, the map's, and those of every layer built.
THEOREM MadeIsAccepted ==
  ASSUME NEW c, NEW n \in Nat \ {0}, NEW layers \in SUBSET Nat, layers # {},
         IsConfig(c), MadeByMakeConfig(c, layers, n), c.meta.kValues \subseteq KernelBits
  PROVE  ~Misconfigured(c) /\ ~Uncreatable(c, n)
<1>1. ASSUME NEW l \in layers PROVE ~BadEntry(c, l) /\ c.meta.kValues # {}
  <2>1. c.map[l].listed /\ c.map[l].routed \in Seq(Nat) /\ Len(c.map[l].routed) = n /\ c.meta.experts = n
    BY DEF IsConfig, MadeByMakeConfig
  <2>2. \A i \in 1..n : c.map[l].routed[i] \in c.meta.kValues
    BY DEF MadeByMakeConfig
  <2>3. Raw(c, l) = c.map[l].routed
    BY <2>1 DEF Raw
  <2>. QED
    BY <2>1, <2>2, <2>3 DEF BadEntry
<1>2. ~BadMetadata(c)
  <2>1. c.meta.first \in Int /\ c.meta.last \in Int /\ c.meta.first..c.meta.last = layers
    BY DEF IsConfig, MadeByMakeConfig, MoeLayers
  <2>2. c.meta.first >= 0 /\ c.meta.first <= c.meta.last
    BY <2>1
  <2>3. c.meta.reference = "file:field" /\ c.meta.codebook = "mcg" /\ c.meta.schema \in TensorSchemas /\ Required \subseteq c.meta.keys
    BY DEF MadeByMakeConfig
  <2>. QED
    BY <1>1, <2>1, <2>2, <2>3 DEF BadMetadata
<1>3. ~BadBase(c)
  BY DEF MadeByMakeConfig, BadBase, BaseOf
<1>4. ~BadBitrates(c)
  BY <1>1 DEF BadBitrates, MadeByMakeConfig
<1>5. ~Uncreatable(c, n)
  BY DEF IsConfig, MadeByMakeConfig, Uncreatable, BadUniform, IsMixedMetadata
<1>. QED
  BY <1>2, <1>3, <1>4, <1>5 DEF Misconfigured, MadeByMakeConfig

\* A layer of an accepted configuration has one bitrate per expert, and it is the
\* one the pack declares.
LEMMA BitratesAreDeclared ==
  ASSUME \E p \in Packs : config = p.config /\ checkpoint = p.tensors,
         ~Misconfigured(config), ~Uncreatable(config, Cardinality(Experts)),
         NEW l \in Exl3Layers
  PROVE  /\ DOMAIN LayerBitrates(config, l) = Experts
         /\ \A e \in Experts : LayerBitrates(config, l)[e] = Declared(l, e)
<1>1. Experts = 1..config.meta.experts /\ config.meta.experts \in Nat \ {0}
  BY WeightsAssumption DEF Uncreatable
<1>2. CASE IsMixedMetadata(config)
  <2>1. l \in MoeLayers(config) /\ l \in DOMAIN config.map /\ ~BadEntry(config, l)
    BY <1>2 DEF Exl3Layers, Misconfigured, BadBitrates
  <2>2. config.map[l].routed \in Seq(Nat) /\ config.map[l].tail \in Nat
    BY <2>1, WeightsAssumption DEF IsConfig
  <2>3. Len(Raw(config, l)) = config.meta.experts
    BY <2>1 DEF BadEntry
  <2>4. CASE ~config.map[l].listed
    <3>1. Raw(config, l) = [i \in 1..config.map[l].tail |-> 3]
      BY <2>4 DEF Raw
    <3>2. config.map[l].tail = config.meta.experts
      BY <2>2, <2>3, <3>1
    <3>. QED
      BY <1>1, <1>2, <2>4, <3>1, <3>2 DEF LayerBitrates, Declared, IsMixedMetadata
  <2>5. CASE config.map[l].listed
    BY <1>1, <1>2, <2>2, <2>3, <2>5 DEF Raw, LayerBitrates, Declared, IsMixedMetadata
  <2>. QED
    BY <2>4, <2>5
<1>3. CASE ~IsMixedMetadata(config)
  BY <1>1, <1>3 DEF LayerBitrates, Declared, IsMixedMetadata
<1>. QED
  BY <1>2, <1>3

-----------------------------------------------------------------------------
(* The load.                                                                 *)

Late == {"profile", "estimate", "capture", "serve"}
Unprepared == [l \in Layers |-> NoPlan]
Towers == {t \in checkpoint : t.part = "vision" /\ ImageEnabled}
Consumed == checkpoint \ rest

\* The tensor has a module to go to.
Placed(t) == IF IsCarried(t) THEN BaseOf(config) # "none" ELSE t.layer \in Exl3Layers

\* What a phase knows of the configuration.
ConfigInv ==
  /\ \E p \in Packs : config = p.config /\ checkpoint = p.tensors
  /\ format \in {"tensors", "dummy"}
  /\ phase \in {"configure", "create", "stream", "deferred", "process", "failed"} \cup Late
  /\ phase \notin {"configure", "failed"} => ~Misconfigured(config)
  /\ phase \notin {"configure", "create", "failed"} => ~Uncreatable(config, Cardinality(Experts))
  /\ bitrates = [l \in Layers |-> <<>>] \/ bitrates = [l \in Layers |-> IF l \in Exl3Layers THEN LayerBitrates(config, l) ELSE <<>>]
  /\ phase \notin {"configure", "create", "failed"} =>
       bitrates = [l \in Layers |-> IF l \in Exl3Layers THEN LayerBitrates(config, l) ELSE <<>>]

\* Nothing is stored before the stream, and nothing prepared before the last phase
\* of the load; dummy weights never get further.
BeforeInv ==
  /\ phase \in {"configure", "create"} =>
       delivered = {} /\ deferred = {} /\ rest = checkpoint /\ finalized = 0 /\ group = "none"
  /\ phase \in {"configure", "create", "stream", "deferred"} => towers = {} /\ ~marked /\ prepared = Unprepared
  /\ format = "dummy" => /\ delivered = {} /\ prepared = Unprepared
                          /\ phase \notin Late \cup {"deferred"}

\* The first pass has stored the language tensors it has seen, and held back the tower.
StreamInv ==
  phase = "stream" /\ format = "tensors" =>
    /\ rest \subseteq checkpoint
    /\ delivered = {t \in Consumed : IsLanguage(t) /\ IsLocal(t)}
    /\ \A t \in delivered : Placed(t)
    /\ deferred = Towers \cap Consumed
    /\ finalized = 0
    /\ group = IF \E t \in Consumed : IsLanguage(t) THEN "language" ELSE "none"

\* The second finds the weights finalized, once.
DeferredInv ==
  phase = "deferred" =>
    /\ delivered = LocalLanguage
    /\ \A t \in LocalLanguage : Placed(t)
    /\ deferred = Towers
    /\ finalized = 1

\* A layer is prepared from whole experts of the bitrates it was built with.
PreparedWhole(l) ==
  /\ prepared[l] = WeightPlan(l)
  /\ \A e \in Experts : \E t \in LocalLanguage :
       t.layer = l /\ t.expert = e /\ t.mark = "mcg" /\ t.fits /\ t.bits = bitrates[l][e]
ProcessInv ==
  format = "tensors" /\ phase \in {"process"} \cup Late =>
    /\ marked /\ finalized = 1 /\ towers = Towers
    /\ delivered \subseteq LocalLanguage
    /\ \A t \in LocalLanguage : Placed(t)
    /\ DOMAIN prepared = Layers
    /\ \A l \in Layers : prepared[l] # NoPlan => PreparedWhole(l)
LateInv == phase \in Late => \A l \in Exl3Layers : prepared[l] # NoPlan

LoadingInv == ConfigInv /\ BeforeInv /\ StreamInv /\ DeferredInv /\ ProcessInv /\ LateInv /\ HeldBackIsTower

\* What a step that only runs the engine may do to what was loaded.
RunStep ==
  /\ UNCHANGED weightVars
  /\ phase' \in {phase, "failed"} \/ {phase, phase'} \subseteq Late

LEMMA NextLoadsOrRuns == [Next]_vars => Load \/ RunStep
<1>. SUFFICES ASSUME [Next]_vars PROVE Load \/ RunStep
  OBVIOUS
<1>1. CASE Load /\ UNCHANGED runVars
  BY <1>1
<1>2. CASE ProfileRun \/ WarmUp \/ CaptureNext \/ Serve
  BY <1>2 DEF ProfileRun, WarmUp, CaptureNext, Serve, Forward, RunStep
<1>3. CASE EndProfile \/ EndEstimate \/ EndCapture
  BY <1>3 DEF EndProfile, EndEstimate, EndCapture, RunStep, Late
<1>4. CASE Layer
  <2>1. UNCHANGED weightVars
    BY <1>4 DEF Layer
  <2>2. phase' = phase \/ phase' = "failed"
    BY <1>4 DEF Layer, ApplyRankSliced, Fail
  <2>. QED
    BY <2>1, <2>2 DEF RunStep
<1>5. CASE UNCHANGED vars
  BY <1>5 DEF vars, RunStep
<1>. QED
  BY <1>1, <1>2, <1>3, <1>4, <1>5 DEF Next

LEMMA InitLoading == Init => LoadingInv
BY WeightsAssumption DEF Init, LoadingInv, ConfigInv, BeforeInv, StreamInv, DeferredInv, ProcessInv, LateInv,
   HeldBackIsTower, Late, Unprepared

LEMMA RunKeepsLoading == LoadingInv /\ RunStep => LoadingInv'
<1>. SUFFICES ASSUME LoadingInv, RunStep PROVE LoadingInv'
  OBVIOUS
<1>. USE DEF LoadingInv, RunStep, weightVars, Late
<1>0. LocalLanguage' = LocalLanguage /\ Towers' = Towers /\ Exl3Layers' = Exl3Layers /\ Consumed' = Consumed
  BY DEF LocalLanguage, Towers, Exl3Layers, Consumed
<1>1. ConfigInv'
  BY <1>0 DEF ConfigInv
<1>2. BeforeInv'
  BY DEF BeforeInv
<1>3. StreamInv'
  BY <1>0 DEF StreamInv, Placed
<1>4. DeferredInv'
  BY <1>0 DEF DeferredInv, Placed
<1>5. ProcessInv'
  <2>1. ASSUME NEW l \in Layers PROVE PreparedWhole(l)' = PreparedWhole(l)
    <3>1. WeightPlan(l)' = WeightPlan(l)
      BY DEF WeightPlan, Tiers, TierIds
    <3>. QED
      BY <1>0, <3>1 DEF PreparedWhole
  <2>2. \A t : Placed(t)' = Placed(t)
    BY <1>0 DEF Placed
  <2>3. phase' \in {"process"} \cup Late => phase \in {"process"} \cup Late
    OBVIOUS
  <2>. QED
    BY <1>0, <2>1, <2>2, <2>3 DEF ProcessInv
<1>6. LateInv' /\ HeldBackIsTower'
  BY <1>0 DEF LateInv, HeldBackIsTower
<1>. QED
  BY <1>1, <1>2, <1>3, <1>4, <1>5, <1>6

\* What no step of the load changes.
LEMMA LoadKeepsConfig ==
  ASSUME LoadingInv, Load
  PROVE  /\ UNCHANGED <<format, config, checkpoint>>
         /\ LocalLanguage' = LocalLanguage /\ Towers' = Towers /\ Exl3Layers' = Exl3Layers
         /\ \A t : Placed(t)' = Placed(t)
<1>1. UNCHANGED <<format, config, checkpoint>>
  BY DEF Load, MaybeUpdateConfig, CreateWeights, Read, EndStream, LoadDeferred, LoadDummy, ProcessWeights, ModelHook
<1>2. Exl3Layers' = Exl3Layers
  BY <1>1 DEF Exl3Layers
<1>. QED
  BY <1>1, <1>2 DEF LocalLanguage, Towers, Placed

LEMMA ConfigureKeepsLoading == LoadingInv /\ (MaybeUpdateConfig \/ CreateWeights) => LoadingInv'
<1>. SUFFICES ASSUME LoadingInv, MaybeUpdateConfig \/ CreateWeights PROVE LoadingInv'
  OBVIOUS
<1>. USE DEF LoadingInv, loadVars
<1>0. /\ UNCHANGED <<format, config, checkpoint, loadVars>>
      /\ Exl3Layers' = Exl3Layers /\ Towers' = Towers
      /\ phase \in {"configure", "create"} /\ phase' \in {"create", "stream", "failed"}
  BY LoadKeepsConfig DEF Load, MaybeUpdateConfig, CreateWeights, Fail
<1>1. ConfigInv'
  <2>1. CASE MaybeUpdateConfig
    BY <1>0, <2>1 DEF MaybeUpdateConfig, Fail, ConfigInv, Late
  <2>2. CASE CreateWeights
    <3>1. Exl3Layers # {}
      BY <2>2, WeightsAssumption DEF CreateWeights, ConfigInv, Exl3Layers
    <3>. QED
      BY <1>0, <2>2, <3>1 DEF CreateWeights, Fail, ConfigInv, Late
  <2>. QED
    BY <2>1, <2>2
<1>2. BeforeInv'
  BY <1>0 DEF BeforeInv, Late
<1>3. StreamInv'
  BY <1>0 DEF StreamInv, BeforeInv, Consumed
<1>4. DeferredInv' /\ ProcessInv' /\ LateInv' /\ HeldBackIsTower'
  BY <1>0 DEF DeferredInv, ProcessInv, LateInv, HeldBackIsTower, Late
<1>. QED
  BY <1>1, <1>2, <1>3, <1>4

LEMMA ReadKeepsLoading == LoadingInv /\ Read => LoadingInv'
<1>. SUFFICES ASSUME LoadingInv, Read PROVE LoadingInv'
  OBVIOUS
<1>. USE DEF LoadingInv
<1>0. /\ UNCHANGED <<format, config, bitrates, checkpoint, marked, prepared>>
      /\ Exl3Layers' = Exl3Layers /\ Towers' = Towers /\ (\A t : Placed(t)' = Placed(t))
      /\ phase = "stream" /\ format = "tensors"
  BY LoadKeepsConfig DEF Load, Read
<1>1. PICK t \in rest :
        /\ rest' = rest \ {t}
        /\ IF ~Mapped(t) THEN UNCHANGED <<group, finalized, deferred, towers, delivered, slab, phase, error>>
           ELSE IF Streamed(t) THEN Pass(t)
           ELSE /\ deferred' = deferred \cup {t}
                /\ UNCHANGED <<group, finalized, towers, delivered, slab, phase, error>>
  BY DEF Read
<1>2. t \in checkpoint /\ t.part \in {"language", "vision", "mtp"} /\ Consumed' = Consumed \cup {t}
  BY <1>0, <1>1, WeightsAssumption DEF StreamInv, ConfigInv, Consumed
<1>3. /\ phase' \in {"stream", "failed"} /\ towers' = towers
      /\ deferred' = deferred \cup ({t} \cap Towers)
  <2>1. CASE ~Mapped(t)
    BY <1>0, <1>1, <2>1 DEF Mapped, Towers
  <2>2. CASE Mapped(t) /\ Streamed(t)
    BY <1>0, <1>1, <2>2 DEF Streamed, IsLanguage, Pass, LoadExl3Weight, Fail, Towers
  <2>3. CASE Mapped(t) /\ ~Streamed(t)
    BY <1>0, <1>1, <1>2, <2>3 DEF Mapped, Streamed, IsLanguage, Towers
  <2>. QED
    BY <2>1, <2>2, <2>3
<1>4. StreamInv'
  <2>. SUFFICES ASSUME phase' = "stream" PROVE StreamInv'
    BY DEF StreamInv
  <2>1. CASE IsLanguage(t)
    <3>1. Mapped(t) /\ Streamed(t) /\ Pass(t)
      BY <1>1, <2>1 DEF IsLanguage, Mapped, Streamed
    <3>2. group' = "language" /\ finalized' = finalized
      BY <2>1, <3>1 DEF Pass, EndGroup, IsLanguage, StreamInv
    <3>3. CASE IsLocal(t)
      <4>1. ~Refused(t) /\ delivered' = delivered \cup {t}
        BY <1>0, <2>1, <3>1, <3>3 DEF Pass, LoadExl3Weight, Fail
      <4>2. Placed(t)
        BY <4>1 DEF Refused, Placed
      <4>. QED
        BY <1>0, <1>1, <1>2, <1>3, <2>1, <3>2, <3>3, <4>1, <4>2 DEF StreamInv
    <3>4. CASE ~IsLocal(t)
      <4>1. delivered' = delivered
        BY <2>1, <3>1, <3>4 DEF Pass
      <4>. QED
        BY <1>0, <1>1, <1>2, <1>3, <2>1, <3>2, <3>4, <4>1 DEF StreamInv
    <3>. QED
      BY <3>3, <3>4
  <2>2. CASE ~IsLanguage(t)
    <3>1. UNCHANGED <<group, finalized, delivered>>
      BY <1>1, <2>2 DEF Streamed
    <3>. QED
      BY <1>0, <1>1, <1>2, <1>3, <2>2, <3>1 DEF StreamInv
  <2>. QED
    BY <2>1, <2>2
<1>5. ConfigInv'
  BY <1>0, <1>3 DEF ConfigInv, Late
<1>6. BeforeInv'
  BY <1>0, <1>3 DEF BeforeInv, Late
<1>7. HeldBackIsTower'
  BY <1>3 DEF HeldBackIsTower, Towers
<1>. QED
  BY <1>0, <1>3, <1>4, <1>5, <1>6, <1>7 DEF DeferredInv, ProcessInv, LateInv, Late

LEMMA StreamEndKeepsLoading == LoadingInv /\ (EndStream \/ LoadDummy) => LoadingInv'
<1>. SUFFICES ASSUME LoadingInv, EndStream \/ LoadDummy PROVE LoadingInv'
  OBVIOUS
<1>. USE DEF LoadingInv
<1>0. /\ UNCHANGED <<format, config, bitrates, checkpoint, delivered, deferred, towers, marked, prepared>>
      /\ LocalLanguage' = LocalLanguage /\ Exl3Layers' = Exl3Layers /\ Towers' = Towers /\ (\A t : Placed(t)' = Placed(t))
      /\ phase = "stream"
  BY LoadKeepsConfig DEF Load, EndStream, LoadDummy
<1>1. CASE EndStream
  <2>1. format = "tensors" /\ phase' = "deferred" /\ Consumed = checkpoint
    BY <1>1 DEF EndStream, Consumed
  <2>2. /\ delivered = LocalLanguage /\ deferred = Towers
        /\ \A t \in LocalLanguage : Placed(t)
    BY <1>0, <2>1 DEF StreamInv, LocalLanguage, Towers
  <2>3. \E t \in checkpoint : IsLanguage(t)
    <3>1. PICK p \in Packs : config = p.config /\ checkpoint = p.tensors
      BY DEF ConfigInv
    <3>2. Layers # {}
      BY <1>0, <3>1, WeightsAssumption DEF ConfigInv
    <3>. QED
      BY <3>1, <3>2, WeightsAssumption DEF IsLanguage
  <2>4. finalized' = 1
    BY <1>0, <1>1, <2>1, <2>3 DEF EndStream, EndGroup, StreamInv
  <2>5. DeferredInv'
    BY <1>0, <2>1, <2>2, <2>4 DEF DeferredInv
  <2>6. BeforeInv'
    BY <1>0, <2>1 DEF BeforeInv, Late
  <2>7. ConfigInv'
    BY <1>0, <2>1 DEF ConfigInv, Late
  <2>8. ProcessInv' /\ LateInv' /\ StreamInv' /\ HeldBackIsTower'
    BY <1>0, <2>1 DEF ProcessInv, LateInv, StreamInv, HeldBackIsTower, Late
  <2>. QED
    BY <2>5, <2>6, <2>7, <2>8
<1>2. CASE LoadDummy
  BY <1>0, <1>2 DEF LoadDummy, ConfigInv, BeforeInv, StreamInv, DeferredInv, ProcessInv, LateInv, HeldBackIsTower, Late
<1>. QED
  BY <1>1, <1>2

LEMMA DeferredKeepsLoading == LoadingInv /\ LoadDeferred => LoadingInv'
<1>. SUFFICES ASSUME LoadingInv, LoadDeferred PROVE LoadingInv'
  OBVIOUS
<1>. USE DEF LoadingInv
<1>0. /\ UNCHANGED <<format, config, bitrates, checkpoint, delivered, finalized, prepared>>
      /\ LocalLanguage' = LocalLanguage /\ Exl3Layers' = Exl3Layers /\ Towers' = Towers /\ (\A t : Placed(t)' = Placed(t))
      /\ phase = "deferred" /\ phase' = "process" /\ deferred' = {} /\ towers' = towers \cup deferred /\ marked'
  BY LoadKeepsConfig DEF Load, LoadDeferred
<1>1. format = "tensors" /\ prepared' = Unprepared /\ towers' = Towers /\ finalized' = 1 /\ delivered' = LocalLanguage
  BY <1>0 DEF ConfigInv, BeforeInv, DeferredInv, Late
<1>2. ProcessInv'
  BY <1>0, <1>1 DEF ProcessInv, DeferredInv, Unprepared
<1>. QED
  BY <1>0, <1>1, <1>2 DEF ConfigInv, BeforeInv, StreamInv, DeferredInv, LateInv, HeldBackIsTower, Late

LEMMA ProcessKeepsLoading == LoadingInv /\ ProcessWeights => LoadingInv'
<1>. SUFFICES ASSUME LoadingInv, ProcessWeights PROVE LoadingInv'
  OBVIOUS
<1>. USE DEF LoadingInv
<1>0. /\ UNCHANGED <<format, config, bitrates, checkpoint, rest, group, deferred, towers, finalized, marked>>
      /\ LocalLanguage' = LocalLanguage /\ Exl3Layers' = Exl3Layers /\ Towers' = Towers /\ (\A t : Placed(t)' = Placed(t))
      /\ phase = "process" /\ phase' \in {"process", "failed"}
  BY LoadKeepsConfig DEF Load, ProcessWeights, Fail
<1>1. PICK l \in Exl3Layers :
        /\ prepared[l] = NoPlan
        /\ IF Preparable(l)
           THEN /\ prepared' = [prepared EXCEPT ![l] = WeightPlan(l)]
                /\ delivered' = IF IsMixed(l) THEN delivered \ Loaded(l) ELSE delivered
                /\ UNCHANGED <<phase, error>>
           ELSE Fail("weights") /\ UNCHANGED <<prepared, delivered>>
  BY DEF ProcessWeights
<1>2. format = "dummy" => ~Preparable(l)
  BY WeightsAssumption DEF BeforeInv, Preparable, Complete, Loaded
<1>3. ConfigInv' /\ HeldBackIsTower'
  BY <1>0 DEF ConfigInv, HeldBackIsTower, Late
<1>4. BeforeInv'
  BY <1>0, <1>1, <1>2 DEF BeforeInv, Late
<1>5. ProcessInv'
  <2>. SUFFICES ASSUME format = "tensors", phase' = "process" PROVE ProcessInv'
    BY <1>0 DEF ProcessInv, Late
  <2>1. Preparable(l) /\ prepared' = [prepared EXCEPT ![l] = WeightPlan(l)] /\ delivered' \subseteq delivered
    BY <1>1 DEF Fail
  <2>2. ASSUME NEW k \in Layers PROVE WeightPlan(k)' = WeightPlan(k)
    BY <1>0 DEF WeightPlan, Tiers, TierIds
  <2>3. \A e \in Experts : \E t \in LocalLanguage :
          t.layer = l /\ t.expert = e /\ t.mark = "mcg" /\ t.fits /\ t.bits = bitrates[l][e]
    BY <1>0, <2>1 DEF ProcessInv, Preparable, Complete, Loaded, Validated
  <2>4. ASSUME NEW k \in Layers, prepared'[k] # NoPlan PROVE PreparedWhole(k)'
    BY <1>0, <2>1, <2>2, <2>3, <2>4 DEF ProcessInv, PreparedWhole, Exl3Layers
  <2>. QED
    BY <1>0, <2>1, <2>4 DEF ProcessInv
<1>. QED
  BY <1>0, <1>3, <1>4, <1>5 DEF StreamInv, DeferredInv, LateInv, Late

LEMMA HookKeepsLoading == LoadingInv /\ ModelHook => LoadingInv'
<1>. SUFFICES ASSUME LoadingInv, ModelHook PROVE LoadingInv'
  OBVIOUS
<1>. USE DEF LoadingInv
<1>0. /\ UNCHANGED <<format, config, bitrates, checkpoint, rest, group, delivered, deferred, towers, marked, prepared>>
      /\ LocalLanguage' = LocalLanguage /\ Exl3Layers' = Exl3Layers /\ Towers' = Towers /\ (\A t : Placed(t)' = Placed(t))
      /\ phase = "process" /\ phase' = "profile"
      /\ \A l \in Exl3Layers : prepared[l] # NoPlan
  BY LoadKeepsConfig DEF Load, ModelHook
<1>1. Exl3Layers # {}
  BY <1>0, WeightsAssumption DEF ConfigInv, Exl3Layers, Late
<1>2. format = "tensors"
  BY <1>0, <1>1 DEF ConfigInv, BeforeInv, Unprepared, Exl3Layers
<1>3. finalized' = finalized
  BY <1>0, <1>2 DEF ModelHook, ProcessInv
<1>4. \A k \in Layers : PreparedWhole(k)' = PreparedWhole(k)
  <2>1. ASSUME NEW k \in Layers PROVE WeightPlan(k)' = WeightPlan(k)
    BY <1>0 DEF WeightPlan, Tiers, TierIds
  <2>. QED
    BY <1>0, <2>1 DEF PreparedWhole
<1>5. ProcessInv'
  BY <1>0, <1>2, <1>3, <1>4 DEF ProcessInv, Late
<1>. QED
  BY <1>0, <1>2, <1>3, <1>5 DEF ConfigInv, BeforeInv, StreamInv, DeferredInv, LateInv, HeldBackIsTower, Late

\* The wrapper's hook finds the weights finalized: dummy ones never get that far.
LEMMA LateHookFinalizesNothing == LoadingInv /\ ModelHook => finalized' = finalized
<1>. SUFFICES ASSUME LoadingInv, ModelHook PROVE finalized' = finalized
  OBVIOUS
<1>1. Exl3Layers # {} /\ phase = "process" /\ \A l \in Exl3Layers : prepared[l] # NoPlan
  BY WeightsAssumption DEF LoadingInv, ConfigInv, Exl3Layers, Late, ModelHook
<1>2. format = "tensors"
  BY <1>1 DEF LoadingInv, ConfigInv, BeforeInv, Unprepared, Exl3Layers
<1>. QED
  BY <1>1, <1>2 DEF LoadingInv, ProcessInv, ModelHook

LEMMA LoadingIsKept == LoadingInv /\ [Next]_vars => LoadingInv'
BY NextLoadsOrRuns, RunKeepsLoading, ConfigureKeepsLoading, ReadKeepsLoading, StreamEndKeepsLoading,
   DeferredKeepsLoading, ProcessKeepsLoading, HookKeepsLoading DEF Load

LEMMA LoadingIsInvariant == Spec => []LoadingInv
BY LoadingIsKept, InitLoading, PTL DEF Spec

LEMMA LateServesWhole == LoadingInv => ServesWholeModel
<1>. SUFFICES ASSUME LoadingInv, phase \in Late PROVE ServesWholeModel
  BY DEF ServesWholeModel, Late
<1>. USE DEF LoadingInv
<1>0. /\ format = "tensors" /\ ~Misconfigured(config) /\ ~Uncreatable(config, Cardinality(Experts))
      /\ \A l \in Exl3Layers : bitrates[l] = LayerBitrates(config, l)
  BY DEF ConfigInv, BeforeInv, Late, Exl3Layers
<1>1. /\ finalized = 1 /\ towers = Towers /\ \A t \in LocalLanguage : Placed(t)
      /\ \A l \in Layers : prepared[l] # NoPlan => PreparedWhole(l)
  BY <1>0 DEF ProcessInv
<1>2. Layers \subseteq Exl3Layers
  <2>1. ASSUME NEW l \in Layers PROVE l \in Exl3Layers
    <3>1. PICK t \in LocalLanguage : t.layer = l
      BY WeightsAssumption DEF ConfigInv, LocalLanguage, IsLanguage, IsLocal
    <3>2. l # 0
      BY WeightsAssumption
    <3>. QED
      BY <1>1, <3>1, <3>2 DEF Placed, IsCarried
  <2>. QED
    BY <2>1
<1>3. ASSUME NEW l \in Layers
      PROVE  DOMAIN bitrates[l] = Experts /\ \A e \in Experts : bitrates[l][e] = Declared(l, e)
  <2>1. l \in Exl3Layers
    BY <1>2
  <2>. QED
    BY <1>0, <2>1, BitratesAreDeclared DEF ConfigInv
<1>4. \A l \in Layers : PreparedWhole(l)
  BY <1>1, <1>2 DEF LateInv
<1>5. ASSUME NEW l \in Layers
      PROVE  prepared[l] = {<<b, Cardinality({e \in Experts : Declared(l, e) = b})>> : b \in {Declared(l, e) : e \in Experts}}
  <2>1. Tiers(l) = {Declared(l, e) : e \in Experts}
    BY <1>3 DEF Tiers
  <2>2. \A b : TierIds(l, b) = {e \in Experts : Declared(l, e) = b}
    BY <1>3 DEF TierIds
  <2>3. prepared[l] = WeightPlan(l)
    BY <1>4 DEF PreparedWhole
  <2>. QED
    BY <2>1, <2>2, <2>3 DEF WeightPlan
<1>6. config.meta.tp = config.tp
  BY <1>0 DEF Uncreatable
<1>7. (\E t \in LocalLanguage : IsCarried(t)) => BaseOf(config) \in {"fp8", "deepseek_v4_fp8"}
  BY <1>0, <1>1 DEF Placed, Misconfigured, BadBase
<1>8. ASSUME NEW l \in Layers, NEW e \in Experts
      PROVE  \E t \in LocalLanguage : /\ t.layer = l /\ t.expert = e /\ t.mark = "mcg" /\ t.fits
                                      /\ t.bits = Declared(l, e)
  BY <1>3, <1>4 DEF PreparedWhole
<1>9. ImageEnabled => towers = {t \in checkpoint : t.part = "vision"}
  BY <1>1 DEF Towers
<1>. QED
  BY <1>1, <1>5, <1>6, <1>7, <1>8, <1>9 DEF ServesWholeModel

\* An engine that comes up, on whatever files in whatever order, serves the whole of
\* the pack: every expert in its codebook at its declared bitrate, prepared as such.
THEOREM ServesWhole == Spec => []ServesWholeModel
BY LoadingIsInvariant, LateServesWhole, PTL

\* The first pass holds back nothing of the language model.
THEOREM OnlyTowerWaits == Spec => []HeldBackIsTower
BY LoadingIsInvariant, PTL DEF LoadingInv

-----------------------------------------------------------------------------
(* The types, and what a pass of the engine knows.                           *)

Passes == [rows : 1..env.batched, capturing : BOOLEAN, at : 1..Len(Order), id : TokenIds, scores : Gates]

\* A pass runs only in an engine that has loaded; a captured one has a capture size.
PassInv ==
  /\ env \in Settings
  /\ phase \notin Late \cup {"failed"} => pass = NoPass /\ use = NoUse /\ runtimes = <<>>
  /\ pass # NoPass => /\ pass \in Passes /\ phase \in Late
                      /\ pass.capturing => pass.rows \in env.capture /\ phase # "serve"
                      /\ phase = "profile" => pass.rows = env.batched
  /\ warmed \subseteq env.capture /\ captured \subseteq env.capture
  /\ error \in {"none", "config", "weights", "settings", "capture", "shape"}

StoreInv ==
  /\ \A l \in Layers : bitrates[l] = <<>> \/ DOMAIN bitrates[l] = Experts
  /\ rest \subseteq checkpoint /\ group \in {"none", "language", "vision"}
  /\ delivered \subseteq checkpoint /\ deferred \subseteq checkpoint /\ towers \subseteq checkpoint
  /\ slab \in [Layers -> Nat] /\ finalized \in Nat /\ marked \in BOOLEAN

LEMMA SettingsAreNumbers ==
  ASSUME NEW s \in Settings
  PROVE  /\ s.minM \in Nat \ {0} /\ s.maxM \in Nat \ {0} /\ s.chunk \in Nat \ {0}
         /\ s.prefill \in BOOLEAN /\ s.shared \in BOOLEAN
         /\ s.batched \in Nat \ {0} /\ s.capture \subseteq 1..s.batched
BY RuntimesAssumption

LEMMA InitTypes == Init => PassInv /\ StoreInv
<1>. SUFFICES ASSUME Init PROVE PassInv /\ StoreInv
  OBVIOUS
<1>1. slab \in [Layers -> Nat] /\ \A l \in Layers : bitrates[l] = <<>>
  BY DEF Init
<1>2. PassInv
  BY DEF Init, PassInv, Late
<1>3. StoreInv
  BY <1>1 DEF Init, StoreInv
<1>. QED
  BY <1>2, <1>3

LEMMA StoreIsKept == LoadingInv /\ StoreInv /\ [Next]_vars => StoreInv'
<1>. SUFFICES ASSUME LoadingInv, StoreInv, [Next]_vars PROVE StoreInv'
  OBVIOUS
<1>1. CASE RunStep
  BY <1>1 DEF RunStep, weightVars, StoreInv
<1>2. CASE MaybeUpdateConfig
  BY <1>2 DEF MaybeUpdateConfig, loadVars, StoreInv
<1>3. CASE CreateWeights
  <2>1. UNCHANGED <<checkpoint, loadVars>> /\ phase = "create"
    BY <1>3 DEF CreateWeights
  <2>2. ASSUME NEW l \in Layers PROVE bitrates'[l] = <<>> \/ DOMAIN bitrates'[l] = Experts
    <3>1. CASE bitrates' = bitrates
      BY <3>1 DEF StoreInv
    <3>2. CASE bitrates' # bitrates
      <4>1. /\ ~(Exl3Layers # {} /\ Uncreatable(config, Cardinality(Experts)))
            /\ bitrates' = [k \in Layers |-> IF k \in Exl3Layers THEN LayerBitrates(config, k) ELSE <<>>]
        BY <1>3, <3>2 DEF CreateWeights
      <4>2. CASE l \in Exl3Layers
        <5>1. ~Misconfigured(config) /\ (\E p \in Packs : config = p.config /\ checkpoint = p.tensors)
          BY <2>1 DEF LoadingInv, ConfigInv
        <5>2. bitrates'[l] = LayerBitrates(config, l) /\ ~Uncreatable(config, Cardinality(Experts))
          BY <4>1, <4>2
        <5>. QED
          BY <4>2, <5>1, <5>2, BitratesAreDeclared
      <4>. QED
        BY <4>1, <4>2
    <3>. QED
      BY <3>1, <3>2
  <2>. QED
    BY <2>1, <2>2 DEF StoreInv, loadVars
<1>4. CASE Read
  <2>1. phase = "stream" /\ format = "tensors" /\ UNCHANGED <<bitrates, checkpoint, marked>>
    BY <1>4 DEF Read
  <2>2. PICK t \in rest :
          /\ rest' = rest \ {t}
          /\ IF ~Mapped(t) THEN UNCHANGED <<group, finalized, deferred, towers, delivered, slab, phase, error>>
             ELSE IF Streamed(t) THEN Pass(t)
             ELSE /\ deferred' = deferred \cup {t}
                  /\ UNCHANGED <<group, finalized, towers, delivered, slab, phase, error>>
    BY <1>4 DEF Read
  <2>3. t \in checkpoint /\ t.bits \in Nat
    BY <2>2, WeightsAssumption DEF StoreInv, LoadingInv, ConfigInv
  <2>4. CASE Mapped(t) /\ Streamed(t)
    <3>1. Pass(t) /\ t.part = "language"
      BY <2>2, <2>4 DEF Streamed, IsLanguage
    <3>2. group' = "language" /\ finalized' = finalized /\ UNCHANGED <<deferred, towers>>
      BY <3>1 DEF Pass, EndGroup, IsLanguage
    <3>3. delivered' \in {delivered, delivered \cup {t}}
      BY <3>1 DEF Pass, LoadExl3Weight
    <3>4. slab' = slab \/ slab' = [slab EXCEPT ![t.layer] = t.bits]
      BY <3>1 DEF Pass, LoadExl3Weight
    <3>. QED
      BY <2>1, <2>2, <2>3, <3>2, <3>3, <3>4 DEF StoreInv
  <2>5. CASE ~(Mapped(t) /\ Streamed(t))
    BY <2>1, <2>2, <2>3, <2>5 DEF StoreInv
  <2>. QED
    BY <2>4, <2>5
<1>5. CASE EndStream \/ LoadDummy
  BY <1>5 DEF EndStream, LoadDummy, EndGroup, StoreInv
<1>6. CASE LoadDeferred
  BY <1>6 DEF LoadDeferred, StoreInv
<1>7. CASE ProcessWeights
  BY <1>7 DEF ProcessWeights, StoreInv
<1>8. CASE ModelHook
  BY <1>8 DEF ModelHook, StoreInv
<1>. QED
  BY <1>1, <1>2, <1>3, <1>4, <1>5, <1>6, <1>7, <1>8, NextLoadsOrRuns DEF Load

LEMMA NextInPasses ==
  ASSUME NEW R, NEW B, NEW A, NEW I, NEW G, NEW p \in [rows : R, capturing : B, at : A, id : I, scores : G],
         p.at + 1 \in A, NEW m \in R
  PROVE  LET q == [p EXCEPT !.at = @ + 1, !.rows = m]
         IN q \in [rows : R, capturing : B, at : A, id : I, scores : G] /\ q.rows = m /\ q.capturing = p.capturing
OBVIOUS

LEMMA PassIsKept == PassInv /\ [Next]_vars => PassInv'
<1>. SUFFICES ASSUME PassInv, [Next]_vars PROVE PassInv'
  OBVIOUS
<1>. USE DEF Late
<1>1. CASE Load /\ UNCHANGED runVars
  <2>1. phase \notin Late \cup {"failed"} /\ error' \in {error, "config", "weights"}
    BY <1>1 DEF Load, MaybeUpdateConfig, CreateWeights, Read, EndStream, LoadDeferred, LoadDummy, ProcessWeights, ModelHook,
       Pass, LoadExl3Weight, Fail
  <2>. QED
    BY <1>1, <2>1 DEF PassInv, runVars, Passes
<1>2. ASSUME NEW m \in 1..env.batched, NEW b \in BOOLEAN, Forward(m, b), phase \in Late, warmed' \subseteq env.capture,
             b => m \in env.capture /\ phase # "serve",
             phase = "profile" => m = env.batched
      PROVE  PassInv'
  <2>1. pass' \in Passes /\ pass'.rows = m /\ pass'.capturing = b
    <3>1. Order # <<>> /\ Len(Order) \in Nat \ {0}
      BY RuntimesAssumption
    <3>. QED
      BY <1>2, <3>1 DEF Forward, Passes
  <2>2. UNCHANGED <<phase, error, env, runtimes, use, captured>>
    BY <1>2 DEF Forward
  <2>. QED
    BY <1>2, <2>1, <2>2 DEF PassInv, Passes
<1>3. env.batched \in Nat \ {0} /\ env.capture \subseteq 1..env.batched
  BY SettingsAreNumbers DEF PassInv
<1>4. CASE ProfileRun
  <2>1. phase = "profile" /\ Forward(env.batched, FALSE) /\ warmed' = warmed
    BY <1>4 DEF ProfileRun
  <2>2. env.batched \in 1..env.batched /\ warmed' \subseteq env.capture
    BY <1>3, <2>1 DEF PassInv
  <2>. QED
    BY <1>2, <2>1, <2>2
<1>5. CASE WarmUp
  <2>1. PICK m \in Uncaptured \ warmed : Forward(m, FALSE) /\ warmed' = warmed \cup {m}
    BY <1>5 DEF WarmUp
  <2>2. m \in env.capture
    BY DEF Uncaptured, Sizes
  <2>. QED
    BY <1>2, <1>3, <1>5, <2>1, <2>2 DEF WarmUp, PassInv
<1>6. CASE CaptureNext
  <2>1. PICK m \in Uncaptured : Forward(m, TRUE) /\ warmed' = warmed
    BY <1>6 DEF CaptureNext
  <2>2. m \in env.capture
    BY DEF Uncaptured, Sizes
  <2>. QED
    BY <1>2, <1>3, <1>6, <2>1, <2>2 DEF CaptureNext, PassInv
<1>7. CASE Serve
  <2>1. PICK m \in 1..env.batched : Forward(m, FALSE) /\ warmed' = warmed
    BY <1>7 DEF Serve
  <2>. QED
    BY <1>2, <1>7, <2>1 DEF Serve, PassInv
<1>8. CASE EndProfile \/ EndEstimate \/ EndCapture
  BY <1>8 DEF EndProfile, EndEstimate, EndCapture, runVars, PassInv, Passes
<1>9. CASE Layer
  <2>1. /\ pass \in Passes /\ phase \in Late /\ UNCHANGED <<env, warmed>>
        /\ pass.capturing => pass.rows \in env.capture /\ phase # "serve"
        /\ phase = "profile" => pass.rows = env.batched
    BY <1>9 DEF Layer, PassInv
  <2>2. phase' \in {phase, "failed"} /\ error' \in {error, "settings", "capture", "shape"}
    BY <1>9 DEF Layer, ApplyRankSliced, Fail
  <2>3. captured' \subseteq env.capture
    BY <1>9, <2>1 DEF Layer, PassInv
  <2>4. pass' = NoPass \/ (/\ pass' \in Passes /\ phase' = phase /\ pass'.capturing = pass.capturing
                           /\ pass'.rows = pass.rows \/ phase = "serve")
    <3>1. ASSUME pass' # NoPass
          PROVE  /\ pass.at # Len(Order) /\ phase' = phase
                 /\ \E m \in NextRows : pass' = [pass EXCEPT !.at = @ + 1, !.rows = m]
      BY <1>9, <3>1 DEF Layer
    <3>2. NextRows \subseteq 1..env.batched /\ (phase # "serve" => NextRows = {pass.rows})
      BY <2>1 DEF NextRows, Passes
    <3>3. Len(Order) \in Nat
      BY RuntimesAssumption
    <3>4. SUFFICES ASSUME pass' # NoPass
                   PROVE  pass' \in Passes /\ pass'.capturing = pass.capturing /\ (pass'.rows = pass.rows \/ phase = "serve")
      BY <3>1
    <3>5. PICK m \in NextRows : pass' = [pass EXCEPT !.at = @ + 1, !.rows = m]
      BY <3>1, <3>4
    <3>6. pass.at + 1 \in 1..Len(Order)
      <4>1. pass.at \in 1..Len(Order)
        BY <2>1 DEF Passes
      <4>2. pass.at # Len(Order)
        BY <3>1, <3>4
      <4>. QED
        BY <3>3, <4>1, <4>2
    <3>7. m \in 1..env.batched /\ (m = pass.rows \/ phase = "serve")
      BY <3>2
    <3>8. pass' \in Passes /\ pass'.rows = m /\ pass'.capturing = pass.capturing
      BY <2>1, <3>5, <3>6, <3>7, NextInPasses DEF Passes
    <3>. QED
      BY <3>7, <3>8
  <2>5. Passes' = Passes
    BY <2>1 DEF Passes
  <2>6. pass' # NoPass => /\ pass' \in Passes' /\ phase' \in Late
                          /\ pass'.capturing => pass'.rows \in env'.capture /\ phase' # "serve"
                          /\ phase' = "profile" => pass'.rows = env'.batched
    <3>. SUFFICES ASSUME pass' # NoPass
                  PROVE  /\ pass' \in Passes' /\ phase' \in Late
                         /\ pass'.capturing => pass'.rows \in env'.capture /\ phase' # "serve"
                         /\ phase' = "profile" => pass'.rows = env'.batched
      OBVIOUS
    <3>1. /\ pass' \in Passes /\ phase' = phase /\ pass'.capturing = pass.capturing
          /\ pass'.rows = pass.rows \/ phase = "serve"
      BY <2>4
    <3>2. pass' \in Passes'
      BY <2>5, <3>1
    <3>. QED
      BY <2>1, <3>1, <3>2
  <2>7. env' \in Settings /\ warmed' \subseteq env'.capture /\ captured' \subseteq env'.capture
    BY <2>1, <2>3 DEF PassInv
  <2>8. error' \in {"none", "config", "weights", "settings", "capture", "shape"}
    BY <2>2 DEF PassInv
  <2>9. phase' \in Late \cup {"failed"}
    BY <2>1, <2>2
  <2>. QED
    BY <2>6, <2>7, <2>8, <2>9 DEF PassInv
<1>10. CASE UNCHANGED vars
  BY <1>10 DEF vars, runVars, PassInv, Passes
<1>. QED
  BY <1>1, <1>4, <1>5, <1>6, <1>7, <1>8, <1>9, <1>10 DEF Next

\* What an engine has loaded, at every moment of its life.
THEOREM LoadsWhole == Spec => []LoadInv
<1>1. LoadingInv /\ StoreInv /\ PassInv /\ [Next]_vars => StoreInv' /\ PassInv'
  BY StoreIsKept, PassIsKept
<1>2. LoadingInv /\ StoreInv /\ PassInv => LoadInv
  <2>. SUFFICES ASSUME LoadingInv, StoreInv, PassInv PROVE TypeOK
    BY LateServesWhole DEF LoadInv, LoadingInv
  <2>1. pass = NoPass \/ (pass.rows \in 1..env.batched /\ pass.at \in 1..Len(Order))
    BY DEF PassInv, Passes
  <2>. QED
    BY <2>1 DEF LoadingInv, ConfigInv, Late, StoreInv, PassInv, TypeOK
<1>. QED
  BY <1>1, <1>2, InitTypes, LoadingIsInvariant, PTL DEF Spec

\* The child finalizes its weights over the whole of the language model, whatever the
\* order of the files.
THEOREM FinalizesWhole == Spec => FinalizedWhole
<1>1. LoadingInv /\ StoreInv /\ [Next]_vars => [finalized' > finalized => delivered \cup delivered' = LocalLanguage]_vars
  <2>. SUFFICES ASSUME LoadingInv, StoreInv, [Next]_vars, finalized' > finalized
                PROVE  delivered \cup delivered' = LocalLanguage
    OBVIOUS
  <2>0. finalized' # finalized
    BY DEF StoreInv
  <2>1. ~(MaybeUpdateConfig \/ CreateWeights \/ LoadDeferred \/ LoadDummy \/ ProcessWeights \/ RunStep)
    BY <2>0 DEF MaybeUpdateConfig, CreateWeights, LoadDeferred, LoadDummy, ProcessWeights, RunStep, weightVars, loadVars
  <2>2. ~Read
    BY <2>0 DEF Read, Streamed, Pass, EndGroup, IsLanguage
  <2>3. ~ModelHook
    BY <2>0, LateHookFinalizesNothing
  <2>4. EndStream
    BY <2>1, <2>2, <2>3, NextLoadsOrRuns DEF Load
  <2>5. phase = "stream" /\ format = "tensors" /\ rest = {} /\ delivered' = delivered
    BY <2>4 DEF EndStream
  <2>. QED
    BY <2>5 DEF LoadingInv, StreamInv, Consumed, LocalLanguage
<1>2. LoadingInv /\ StoreInv /\ [Next]_vars => StoreInv'
  BY StoreIsKept
<1>. QED
  BY <1>1, <1>2, LoadingIsInvariant, InitTypes, PTL DEF Spec, FinalizedWhole

-----------------------------------------------------------------------------
(* The runtimes.                                                             *)

Target == Layers \cup DraftLayers
Key(l) == RuntimeKey(l, 0)
Runtime(k) == PlannedRuntime(k[1]).arenas

\* A runtime is what its key says, and so is every layer that uses it.
CacheInv ==
  \A k \in DOMAIN runtimes :
    /\ runtimes[k] \in [arenas : {Runtime(k)}, plan : {k[1]}, users : SUBSET Target]
    /\ \A l \in runtimes[k].users : Key(l) = k
UseInv ==
  use # NoUse =>
    /\ use.key \in DOMAIN runtimes /\ runtimes[use.key].plan = PlanOf(use.layer)
    /\ use.rows <= runtimes[use.key].arenas[use.kernel]

\* A layer the largest batch has gone through.
Profiled(l) ==
  /\ Key(l) \in DOMAIN runtimes
  /\ ~Mixed(PlanOf(l)) => /\ ~Unplannable
                          /\ env.batched <= env.maxM \/ PrefillPlanned \/ env.batched <= ParityRows
ProfileInv ==
  /\ phase = "profile" /\ pass # NoPass => \A i \in 1..Len(Order) : i < pass.at => Profiled(Order[i])
  /\ phase = "profile" /\ pass = NoPass /\ use # NoUse => \A i \in 1..Len(Order) : Profiled(Order[i])
  /\ phase \in {"estimate", "capture", "serve"} => \A i \in 1..Len(Order) : Profiled(Order[i])

RunInv == LoadingInv /\ PassInv /\ CacheInv /\ UseInv /\ ProfileInv

\* The arenas of a runtime hold the rows of every batch it does not refuse.
LEMMA KernelFits ==
  ASSUME PassInv, pass # NoPass, NEW plan, NEW m \in 1..env.batched,
         Kernel(plan, PlannedRuntime(plan).arenas, m) # "refused"
  PROVE  m <= PlannedRuntime(plan).arenas[Kernel(plan, PlannedRuntime(plan).arenas, m)]
<1>1. env.minM \in Nat /\ env.maxM \in Nat /\ env.batched \in Nat /\ env.chunk \in Nat
  BY SettingsAreNumbers DEF PassInv
<1>2. CASE Mixed(plan)
  BY <1>1, <1>2 DEF Kernel, PlannedRuntime, MixedRankSlicedRuntime, SmallerOf
<1>3. CASE ~Mixed(plan)
  <2>1. ParityRows \in Nat
    BY <1>1 DEF ParityRows, SmallerOf
  <2>. QED
    BY <1>1, <1>3, <2>1 DEF Kernel, PlannedRuntime, RankSlicedRuntime
<1>. QED
  BY <1>2, <1>3

\* A layer that took the largest batch refuses no batch of requests.
LEMMA ProfiledRefusesNone ==
  ASSUME PassInv, pass # NoPass, ~pass.capturing, NEW l, Profiled(l), NEW m \in 1..env.batched
  PROVE  /\ Kernel(PlanOf(l), PlannedRuntime(PlanOf(l)).arenas, m) # "refused"
         /\ Mixed(PlanOf(l)) \/ ~Unplannable
<1>1. /\ env.minM \in Nat \ {0} /\ env.maxM \in Nat /\ env.batched \in Nat \ {0} /\ env.chunk \in Nat
      /\ env.prefill \in BOOLEAN
  BY SettingsAreNumbers DEF PassInv
<1>2. CASE Mixed(PlanOf(l))
  BY <1>1, <1>2 DEF Kernel, PlannedRuntime, MixedRankSlicedRuntime, SmallerOf
<1>3. CASE ~Mixed(PlanOf(l))
  <2>0. ParityBatch \in Nat /\ (ParityBatch = 0 => env.minM = 1) /\ ParityRows \in Nat
    BY <1>1 DEF ParityRows, ParityBatch, SmallerOf
  <2>1. /\ ~Unplannable /\ env.minM <= env.maxM /\ ParityBatch <= ParityRows
        /\ env.batched <= env.maxM \/ PrefillPlanned \/ env.batched <= ParityRows
    BY <1>1, <1>3, <2>0 DEF Profiled, Unplannable
  <2>2. env.minM <= m \/ m <= ParityRows
    BY <1>1, <2>0, <2>1 DEF ParityBatch, SmallerOf
  <2>3. PrefillPlanned => env.batched > env.maxM
    BY DEF PrefillPlanned
  <2>. DEFINE r == PlannedRuntime(PlanOf(l)).arenas
  <2>4. r.prefill = (IF PrefillPlanned THEN env.batched ELSE 0) /\ r.parity = ParityRows
    BY <1>3 DEF PlannedRuntime, RankSlicedRuntime
  <2>. HIDE DEF r
  <2>5. Kernel(PlanOf(l), r, m) # "refused"
    <3>1. CASE env.minM <= m /\ m <= env.maxM
      BY <1>3, <3>1 DEF Kernel
    <3>2. CASE m > env.maxM
      <4>1. r.prefill > 0 => m <= r.prefill
        BY <1>1, <2>4
      <4>2. ~(r.prefill > 0) => ~(m > r.parity)
        BY <1>1, <2>0, <2>1, <2>4, <3>2
      <4>. QED
        BY <1>1, <1>3, <3>2, <4>1, <4>2 DEF Kernel
    <3>3. CASE ~(env.minM <= m)
      <4>1. ~(m > env.maxM) /\ ~(m > r.parity)
        BY <1>1, <2>0, <2>1, <2>2, <2>4, <3>3
      <4>. QED
        BY <1>3, <3>3, <4>1 DEF Kernel
    <3>. QED
      BY <1>1, <3>1, <3>2, <3>3
  <2>. QED
    BY <2>1, <2>5 DEF r
<1>. QED
  BY <1>2, <1>3

\* What a profile pass that was not refused tells of the windows.
LEMMA LargestTells ==
  ASSUME PassInv, NEW plan, ~Mixed(plan), Kernel(plan, PlannedRuntime(plan).arenas, env.batched) # "refused"
  PROVE  env.batched <= env.maxM \/ PrefillPlanned \/ env.batched <= ParityRows
<1>1. env.minM \in Nat /\ env.maxM \in Nat /\ env.batched \in Nat \ {0} /\ env.chunk \in Nat
  BY SettingsAreNumbers DEF PassInv
<1>2. ParityRows \in Nat
  BY <1>1 DEF ParityRows, SmallerOf
<1>. QED
  BY <1>1, <1>2 DEF Kernel, PlannedRuntime, RankSlicedRuntime

\* Plans, keys and windows are fixed once an engine has loaded.
LEMMA FixedOnceLoaded ==
  ASSUME UNCHANGED <<weightVars, env>>
  PROVE  /\ \A l : PlanOf(l)' = PlanOf(l) /\ Key(l)' = Key(l)
         /\ \A k : Runtime(k)' = Runtime(k)
         /\ DOMAIN runtimes \subseteq DOMAIN runtimes' => \A l : Profiled(l) => Profiled(l)'
<1>1. \A l : PlanOf(l)' = PlanOf(l)
  BY DEF PlanOf, weightVars
<1>2. \A l : Key(l)' = Key(l)
  BY <1>1 DEF Key, RuntimeKey, RuntimeOwnerToken
<1>3. \A k : Runtime(k)' = Runtime(k)
  BY DEF Runtime, PlannedRuntime, MixedRankSlicedRuntime, RankSlicedRuntime, PrefillPlanned, ParityRows, ParityBatch
<1>4. Unplannable' = Unplannable /\ PrefillPlanned' = PrefillPlanned /\ ParityRows' = ParityRows
  BY DEF Unplannable, PrefillPlanned, ParityRows, ParityBatch
<1>. QED
  BY <1>1, <1>2, <1>3, <1>4 DEF Profiled

\* A layer runs on its own runtime, planned for it or found.
LEMMA LayerUsesItsRuntime ==
  ASSUME RunInv, Layer, NEW l, l = Order[pass.at]
  PROVE  /\ UNCHANGED <<weightVars, env>> /\ CacheInv' /\ UseInv'
         /\ DOMAIN runtimes' \subseteq DOMAIN runtimes \cup {Key(l)} /\ DOMAIN runtimes \subseteq DOMAIN runtimes'
         /\ phase' = phase \/ phase' = "failed"
         /\ phase' = phase =>
              /\ ~Mixed(PlanOf(l)) => ~Unplannable
              /\ Kernel(PlanOf(l), PlannedRuntime(PlanOf(l)).arenas, pass.rows) # "refused"
              /\ Key(l) \in DOMAIN runtimes'
<1>. DEFINE key == RuntimeKey(l, pass.rows)
            all == RuntimesFor(l)
            kernel == Kernel(PlanOf(l), all[key].arenas, pass.rows)
            typed(k) == [arenas : {Runtime(k)}, plan : {k[1]}, users : SUBSET Target]
<1>1. UNCHANGED <<weightVars, env>> /\ pass # NoPass /\ ApplyRankSliced(l)
  BY DEF Layer
<1>2. l \in Target /\ pass.rows \in 1..env.batched
  <2>1. pass.at \in 1..Len(Order) /\ pass.rows \in 1..env.batched
    BY <1>1 DEF RunInv, PassInv, Passes
  <2>. QED
    BY <2>1, RuntimesAssumption DEF Target
<1>3. key = Key(l) /\ key[1] = PlanOf(l)
  BY DEF Key, RuntimeKey
<1>4. DOMAIN all = DOMAIN runtimes \cup {key} /\ \A k \in DOMAIN all : all[k] = IF k \in DOMAIN runtimes THEN runtimes[k] ELSE PlannedRuntime(PlanOf(l))
  BY DEF RuntimesFor
<1>5. ASSUME NEW k \in DOMAIN all
      PROVE  all[k] \in typed(k) /\ \A a \in all[k].users : Key(a) = k
  <2>1. CASE k \in DOMAIN runtimes
    BY <1>4, <2>1 DEF RunInv, CacheInv
  <2>2. CASE k \notin DOMAIN runtimes
    <3>1. k = key /\ all[k] = PlannedRuntime(PlanOf(l))
      BY <1>4, <2>2
    <3>2. Runtime(k) = PlannedRuntime(PlanOf(l)).arenas
      BY <1>3, <3>1 DEF Runtime
    <3>. QED
      BY <1>3, <3>1, <3>2 DEF PlannedRuntime
  <2>. QED
    BY <2>1, <2>2
<1>6. \A k : typed(k)' = typed(k)
  BY <1>1, FixedOnceLoaded DEF Target
<1>7. all[key].arenas = PlannedRuntime(PlanOf(l)).arenas
  BY <1>3, <1>4, <1>5 DEF Runtime
<1>. HIDE DEF key, all, kernel, typed
<1>8. CASE runtimes' = runtimes /\ use' = use /\ phase' = "failed"
  BY <1>1, <1>6, <1>8, FixedOnceLoaded DEF RunInv, CacheInv, UseInv, PassInv, Late, typed
<1>9. CASE runtimes' = all /\ use' = use /\ phase' = "failed"
  <2>1. CacheInv'
    BY <1>1, <1>5, <1>6, <1>9, FixedOnceLoaded DEF CacheInv, typed
  <2>2. UseInv'
    BY <1>1, <1>4, <1>9, FixedOnceLoaded DEF RunInv, UseInv
  <2>. QED
    BY <1>1, <1>3, <1>4, <1>9, <2>1, <2>2 DEF RunInv, PassInv, Late
<1>10. CASE /\ runtimes' = [all EXCEPT ![key].users = @ \cup {l}] /\ phase' = phase
            /\ kernel # "refused" /\ ~(~Mixed(PlanOf(l)) /\ Unplannable)
            /\ use'.layer = l /\ use'.key = key /\ use'.kernel = kernel /\ use'.rows = pass.rows
  <2>1. DOMAIN runtimes' = DOMAIN all /\ key \in DOMAIN all
    BY <1>4, <1>10
  <2>2. ASSUME NEW k \in DOMAIN all
        PROVE  runtimes'[k] \in typed(k) /\ (\A a \in runtimes'[k].users : Key(a) = k) /\ runtimes'[k].arenas = all[k].arenas /\ runtimes'[k].plan = all[k].plan
    <3>1. CASE k = key
      BY <1>2, <1>3, <1>5, <1>10, <2>1, <3>1 DEF typed
    <3>2. CASE k # key
      BY <1>5, <1>10, <2>1, <3>2
    <3>. QED
      BY <3>1, <3>2
  <2>3. CacheInv'
    BY <1>1, <1>6, <2>1, <2>2, FixedOnceLoaded DEF CacheInv, typed
  <2>4. pass.rows <= PlannedRuntime(PlanOf(l)).arenas[kernel]
    BY <1>1, <1>2, <1>7, <1>10, KernelFits DEF RunInv, kernel
  <2>5. all[key].plan = PlanOf(l)
    BY <1>3, <1>5, <2>1 DEF typed
  <2>6. UseInv'
    <3>1. runtimes'[key].plan = PlanOf(l) /\ runtimes'[key].arenas = PlannedRuntime(PlanOf(l)).arenas
      BY <1>7, <2>1, <2>2, <2>5
    <3>2. PlanOf(l)' = PlanOf(l) /\ key \in DOMAIN runtimes'
      BY <1>1, <2>1, FixedOnceLoaded
    <3>3. PlanOf(use.layer)' = PlanOf(l)
      BY <1>1, <1>10 DEF PlanOf, weightVars
    <3>. QED
      BY <1>10, <2>4, <3>1, <3>2, <3>3 DEF UseInv
  <2>. QED
    BY <1>1, <1>3, <1>4, <1>7, <1>10, <2>1, <2>3, <2>6 DEF kernel
<1>. QED
  BY <1>1, <1>8, <1>9, <1>10 DEF ApplyRankSliced, Fail, key, all, kernel

LEMMA InitRuntimes == Init => RunInv
<1>. SUFFICES ASSUME Init PROVE RunInv
  OBVIOUS
<1>1. runtimes = <<>> /\ use = NoUse /\ pass = NoPass /\ phase = "configure"
  BY DEF Init
<1>2. CacheInv /\ UseInv /\ ProfileInv
  BY <1>1 DEF CacheInv, UseInv, ProfileInv
<1>. QED
  BY <1>2, InitLoading, InitTypes DEF RunInv

LEMMA LayerKeepsRuntimes == RunInv /\ Layer => CacheInv' /\ UseInv' /\ ProfileInv'
<1>. SUFFICES ASSUME RunInv, Layer PROVE ProfileInv'
  BY LayerUsesItsRuntime
<1>0. PICK l : l = Order[pass.at]
  OBVIOUS
<1>1. /\ UNCHANGED <<weightVars, env>> /\ pass # NoPass
      /\ (phase' = phase /\ pass.at = Len(Order)) \/ phase' # phase => pass' = NoPass
      /\ pass.at = Len(Order) \/ phase' # phase \/ \E m \in NextRows : pass' = [pass EXCEPT !.at = @ + 1, !.rows = m]
  BY DEF Layer
<1>2. pass \in Passes /\ phase \in Late /\ (phase = "profile" => pass.rows = env.batched)
  BY <1>1 DEF RunInv, PassInv
<1>3. /\ phase' = phase \/ phase' = "failed"
      /\ DOMAIN runtimes \subseteq DOMAIN runtimes'
      /\ phase' = phase =>
           /\ ~Mixed(PlanOf(l)) => ~Unplannable
           /\ Kernel(PlanOf(l), PlannedRuntime(PlanOf(l)).arenas, pass.rows) # "refused"
           /\ Key(l) \in DOMAIN runtimes'
  BY <1>0, LayerUsesItsRuntime
<1>4. \A k : Profiled(k) => Profiled(k)'
  BY <1>1, <1>3, FixedOnceLoaded
<1>5. CASE phase' # phase
  BY <1>3, <1>5 DEF ProfileInv
<1>6. CASE phase' = phase /\ phase # "profile"
  BY <1>2, <1>4, <1>6 DEF RunInv, ProfileInv, Late
<1>7. CASE phase' = phase /\ phase = "profile"
  <2>1. Profiled(l)'
    <3>1. ~Mixed(PlanOf(l)) => ~Unplannable /\ (env.batched <= env.maxM \/ PrefillPlanned \/ env.batched <= ParityRows)
      BY <1>2, <1>3, <1>7, LargestTells DEF RunInv
    <3>2. PlanOf(l)' = PlanOf(l) /\ Key(l)' = Key(l)
      BY <1>1, FixedOnceLoaded
    <3>3. UNCHANGED <<Unplannable, PrefillPlanned, ParityRows, env>>
      BY <1>1 DEF Unplannable, PrefillPlanned, ParityRows, ParityBatch
    <3>. QED
      BY <1>3, <1>7, <3>1, <3>2, <3>3 DEF Profiled
  <2>2. \A i \in 1..Len(Order) : i < pass.at => Profiled(Order[i])'
    BY <1>1, <1>4, <1>7 DEF RunInv, ProfileInv
  <2>3. \A i \in 1..Len(Order) : i <= pass.at => Profiled(Order[i])'
    <3>1. pass.at \in Nat
      BY <1>2 DEF Passes
    <3>2. ASSUME NEW i \in 1..Len(Order), i <= pass.at PROVE Profiled(Order[i])'
      <4>1. i < pass.at \/ i = pass.at
        BY <3>1, <3>2
      <4>2. CASE i = pass.at
        BY <1>0, <2>1, <4>2
      <4>. QED
        BY <2>2, <4>1, <4>2
    <3>. QED
      BY <3>2
  <2>4. CASE pass.at = Len(Order)
    BY <1>1, <1>7, <2>3, <2>4 DEF ProfileInv
  <2>5. CASE pass.at # Len(Order)
    <3>1. pass' = [pass EXCEPT !.at = @ + 1, !.rows = pass.rows]
      BY <1>1, <1>7, <2>5 DEF NextRows
    <3>2. pass'.at = pass.at + 1 /\ pass.at \in Nat /\ pass'.rows # 0
      BY <1>2, <3>1 DEF Passes
    <3>3. pass' # NoPass
      BY <3>2 DEF NoPass
    <3>. QED
      BY <1>7, <2>3, <3>2, <3>3 DEF ProfileInv
  <2>. QED
    BY <2>4, <2>5
<1>. QED
  BY <1>5, <1>6, <1>7

LEMMA RuntimesAreKept == RunInv /\ [Next]_vars => RunInv'
<1>. SUFFICES ASSUME RunInv, [Next]_vars PROVE CacheInv' /\ UseInv' /\ ProfileInv'
  BY PassIsKept, LoadingIsKept DEF RunInv
<1>1. CASE Load /\ UNCHANGED runVars
  <2>1. phase \notin Late \cup {"failed"} /\ phase' \notin {"estimate", "capture", "serve"}
    BY <1>1 DEF Load, MaybeUpdateConfig, CreateWeights, Read, EndStream, LoadDeferred, LoadDummy, ProcessWeights, ModelHook,
       Pass, LoadExl3Weight, Fail, Late
  <2>2. runtimes' = <<>> /\ use' = NoUse /\ pass' = NoPass
    BY <1>1, <2>1 DEF RunInv, PassInv, runVars
  <2>. QED
    BY <2>1, <2>2 DEF CacheInv, UseInv, ProfileInv
<1>2. CASE Layer
  BY <1>2, LayerKeepsRuntimes
<1>3. ASSUME UNCHANGED <<weightVars, env, runtimes, use>>
      PROVE  CacheInv' /\ UseInv' /\ \A l : Profiled(l) => Profiled(l)'
  BY <1>3, FixedOnceLoaded DEF RunInv, CacheInv, UseInv, Target
<1>4. CASE ProfileRun \/ WarmUp \/ CaptureNext \/ Serve
  <2>1. /\ UNCHANGED <<weightVars, phase, env, runtimes, use>>
        /\ pass'.at = 1 /\ (phase = "profile" => use = NoUse)
    BY <1>4 DEF ProfileRun, WarmUp, CaptureNext, Serve, Forward
  <2>. QED
    BY <1>3, <2>1 DEF RunInv, ProfileInv
<1>5. CASE EndProfile \/ EndEstimate \/ EndCapture
  <2>1. /\ UNCHANGED <<weightVars, env, runtimes, use>>
        /\ phase' \in {"estimate", "capture", "serve"}
        /\ (phase = "profile" /\ pass = NoPass /\ use # NoUse) \/ phase \in {"estimate", "capture"}
    BY <1>5 DEF EndProfile, EndEstimate, EndCapture, runVars
  <2>. QED
    BY <1>3, <2>1 DEF RunInv, ProfileInv
<1>6. CASE UNCHANGED vars
  <2>1. UNCHANGED <<weightVars, env, runtimes, use, phase, pass>>
    BY <1>6 DEF vars, runVars
  <2>. QED
    BY <1>3, <2>1 DEF RunInv, ProfileInv
<1>. QED
  BY <1>1, <1>2, <1>4, <1>5, <1>6 DEF Next

LEMMA RunIsInvariant == Spec => []RunInv
BY InitRuntimes, RuntimesAreKept, PTL DEF Spec

\* The scratch of a runtime belongs to layers of one model and one weight plan.
THEOREM ScratchIsApart == Spec => []ArenasApart
<1>1. RunInv => ArenasApart
  <2>. SUFFICES ASSUME RunInv, NEW k \in DOMAIN runtimes, NEW a \in runtimes[k].users, NEW b \in runtimes[k].users
                PROVE  (a \in Layers <=> b \in Layers) /\ PlanOf(a) = PlanOf(b)
    BY DEF ArenasApart
  <2>1. a \in Target /\ b \in Target /\ Key(a) = Key(b)
    BY DEF RunInv, CacheInv
  <2>2. PlanOf(a) = PlanOf(b) /\ RuntimeOwnerToken(a) = RuntimeOwnerToken(b)
    BY <2>1 DEF Key, RuntimeKey
  <2>3. a \in DraftLayers <=> b \in DraftLayers
    BY <2>2 DEF RuntimeOwnerToken
  <2>. QED
    BY <2>1, <2>2, <2>3, RuntimesAssumption DEF Target
<1>. QED
  BY <1>1, RunIsInvariant, PTL

\* Every layer that has run, ran on arenas of its own plan that hold its rows.
THEOREM ScratchHoldsRows == Spec => []ArenaFits
<1>1. RunInv => ArenaFits
  BY DEF RunInv, UseInv, ArenaFits
<1>. QED
  BY <1>1, RunIsInvariant, PTL

\* Whatever the window, the capture sizes and the layers: what the profile pass did
\* not plan is planned by no capture and no request, and no request is refused.
THEOREM ProfiledIsSteady == Spec => SteadyAfterProfile
<1>1. RunInv /\ [Next]_vars =>
        [/\ phase \in {"estimate", "capture", "serve"} => DOMAIN runtimes' = DOMAIN runtimes
         /\ phase = "serve" => phase' = "serve"]_vars
  <2>. SUFFICES ASSUME RunInv, [Next]_vars, phase \in {"estimate", "capture", "serve"}
                PROVE  DOMAIN runtimes' = DOMAIN runtimes /\ (phase = "serve" => phase' = "serve")
    OBVIOUS
  <2>1. ~Load
    BY DEF Load, MaybeUpdateConfig, CreateWeights, Read, EndStream, LoadDeferred, LoadDummy, ProcessWeights, ModelHook
  <2>2. CASE Layer
    <3>. DEFINE l == Order[pass.at]
    <3>1. pass # NoPass /\ ApplyRankSliced(l)
      BY <2>2 DEF Layer
    <3>2. /\ pass \in Passes /\ (phase = "serve" => ~pass.capturing)
      BY <3>1 DEF RunInv, PassInv
    <3>3. pass.at \in 1..Len(Order) /\ pass.rows \in 1..env.batched
      BY <3>2 DEF Passes
    <3>4. Profiled(l)
      BY <3>3 DEF RunInv, ProfileInv
    <3>5. DOMAIN runtimes' = DOMAIN runtimes
      BY <2>2, <3>4, LayerUsesItsRuntime DEF Profiled
    <3>6. ASSUME phase = "serve" PROVE phase' = "serve"
      <4>1. RuntimeKey(l, pass.rows) = Key(l) /\ Key(l)[1] = PlanOf(l) /\ ~Uncached(l)
        BY <3>4 DEF Key, RuntimeKey, Profiled, Uncached
      <4>2. RuntimesFor(l)[RuntimeKey(l, pass.rows)].arenas = PlannedRuntime(PlanOf(l)).arenas
        BY <3>4, <4>1 DEF RuntimesFor, Profiled, RunInv, CacheInv, Runtime
      <4>3. /\ Kernel(PlanOf(l), PlannedRuntime(PlanOf(l)).arenas, pass.rows) # "refused"
            /\ Mixed(PlanOf(l)) \/ ~Unplannable
        BY <3>1, <3>2, <3>3, <3>4, <3>6, ProfiledRefusesNone DEF RunInv
      <4>4. \A run, ready : Resolves(run, ready)
        BY <3>2, <3>6 DEF Resolves
      <4>5. phase' = phase
        BY <3>1, <4>1, <4>2, <4>3, <4>4 DEF ApplyRankSliced
      <4>. QED
        BY <3>6, <4>5
    <3>. QED
      BY <3>5, <3>6
  <2>3. CASE ProfileRun \/ EndProfile \/ WarmUp \/ CaptureNext \/ EndEstimate \/ EndCapture \/ Serve
    BY <2>3 DEF ProfileRun, EndProfile, WarmUp, CaptureNext, EndEstimate, EndCapture, Serve, Forward, runVars
  <2>4. CASE UNCHANGED vars
    BY <2>4 DEF vars, runVars
  <2>. QED
    BY <2>1, <2>2, <2>3, <2>4 DEF Next
<1>. QED
  BY <1>1, RunIsInvariant, PTL DEF Spec, SteadyAfterProfile

-----------------------------------------------------------------------------
(* The launches.                                                             *)

\* The larger, and the smaller, of two numbers.
LEMMA MaxOfTwo ==
  ASSUME NEW a \in Int, NEW b \in Int
  PROVE  Max({a, b}) = IF a >= b THEN a ELSE b
<1>. DEFINE x == IF a >= b THEN a ELSE b
<1>1. x \in {a, b} /\ \A y \in {a, b} : x >= y
  OBVIOUS
<1>2. \A z \in {a, b} : (\A y \in {a, b} : z >= y) => z = x
  BY <1>1
<1>. HIDE DEF x
<1>3. Max({a, b}) = x
  BY <1>1, <1>2 DEF Max
<1>. QED
  BY <1>3 DEF x

LEMMA MinOfTwo ==
  ASSUME NEW a \in Int, NEW b \in Int
  PROVE  Min({a, b}) = IF a <= b THEN a ELSE b
<1>. DEFINE x == IF a <= b THEN a ELSE b
<1>1. x \in {a, b} /\ \A y \in {a, b} : x <= y
  OBVIOUS
<1>2. \A z \in {a, b} : (\A y \in {a, b} : z <= y) => z = x
  BY <1>1
<1>. HIDE DEF x
<1>3. Min({a, b}) = x
  BY <1>1, <1>2 DEF Min
<1>. QED
  BY <1>3 DEF x

LEMMA MaxIsLargest ==
  ASSUME NEW a \in Int, NEW b \in Int, NEW c \in Int
  PROVE  Max({a, b, c}) \in Int /\ Max({a, b, c}) >= a /\ Max({a, b, c}) >= b
<1>1. \E x \in {a, b, c} : \A y \in {a, b, c} : x >= y
  <2>. DEFINE x == IF a >= b THEN IF a >= c THEN a ELSE c ELSE IF b >= c THEN b ELSE c
  <2>1. x \in {a, b, c} /\ \A y \in {a, b, c} : x >= y
    OBVIOUS
  <2>. QED
    BY <2>1
<1>2. Max({a, b, c}) \in {a, b, c} /\ \A y \in {a, b, c} : Max({a, b, c}) >= y
  BY <1>1 DEF Max
<1>. QED
  BY <1>2

\* Of the tiles a block of 64 rows may take, each is measured at 255 registers.
LEMMA LargeTiles ==
  /\ LargeBatchTiles \in Seq([k : Int, n : Int, threads : Int]) /\ Len(LargeBatchTiles) = 3
  /\ LargeBatchTiles[1].k = 64 /\ LargeBatchTiles[1].n = 256 /\ LargeBatchTiles[1].threads = 256
  /\ LargeBatchTiles[2].k = 64 /\ LargeBatchTiles[2].n = 128 /\ LargeBatchTiles[2].threads = 128
  /\ LargeBatchTiles[3].k = 128 /\ LargeBatchTiles[3].n = 64 /\ LargeBatchTiles[3].threads = 128
  /\ \A i \in 1..3 : NumRegs(LargeBatchTiles[i], 64) = 255
<1>1. /\ Tile(64, 256) = [k |-> 64, n |-> 256, threads |-> 256]
      /\ Tile(64, 128) = [k |-> 64, n |-> 128, threads |-> 128]
      /\ Tile(128, 64) = [k |-> 128, n |-> 64, threads |-> 128]
      /\ Tile(128, 128) = [k |-> 128, n |-> 128, threads |-> 256]
  BY DEF Tile
<1>2. LargeBatchTiles = <<Tile(64, 256), Tile(64, 128), Tile(128, 64)>>
  BY DEF LargeBatchTiles
<1>3. BlocksOf16(64) = 4
  BY DEF BlocksOf16, Ceil
<1>4. /\ Registers(Tile(64, 128)).more[4] = 255 /\ Registers(Tile(128, 64)).more[4] = 255
      /\ Registers(Tile(64, 256)).more[4] = 255
  <2>1. /\ Tile(64, 128) # Tile(128, 128) /\ Tile(64, 256) # Tile(128, 128) /\ Tile(128, 64) # Tile(128, 128)
        /\ Tile(64, 256) # Tile(64, 128) /\ Tile(128, 64) # Tile(64, 128) /\ Tile(64, 256) # Tile(128, 64)
    BY <1>1
  <2>2. /\ Registers(Tile(64, 128)) = [eight |-> 120, more |-> <<143, 214, 250, 255>>]
        /\ Registers(Tile(128, 64)) = [eight |-> 118, more |-> <<154, 215, 249, 255>>]
        /\ Registers(Tile(64, 256)) = [eight |-> 118, more |-> <<0, 212, 249, 255>>]
    BY <2>1 DEF Registers
  <2>. QED
    BY <2>2
<1>5. \A i \in 1..3 : NumRegs(LargeBatchTiles[i], 64) = 255
  BY <1>2, <1>3, <1>4 DEF NumRegs
<1>. QED
  BY <1>1, <1>2, <1>5

\* What a block of 64 rows takes of the shared memory under each tile.
LEMMA SharedOfTiles ==
  ASSUME NEW bits \in 2..6, NEW i \in 1..3
  PROVE  LET shared == SharedMemory(LargeBatchTiles[i], 64, bits)
         IN shared \in Int /\ shared > 0 /\ (i # 1 => shared >= 53248)
<1>. DEFINE tile == LargeBatchTiles[i]
            widest == Max({4, bits})
            weights == 4 * ((tile.k * tile.n * widest) \div 8)
            reduction == 64 * (tile.n + 8) * 2
            third == Min({weights, reduction}) + 2 * tile.n
            most == Max({weights, reduction, third})
<1>1. BlocksOf16(64) = 4
  BY DEF BlocksOf16, Ceil
<1>2. SharedMemory(tile, 64, bits) = most + 4 * 64 * tile.k * 2 + Ceil(tile.k, 32) * tile.n * 8 + 16 * 64
  <2>1. 16 * BlocksOf16(64) = 64
    BY <1>1
  <2>. QED
    BY <2>1 DEF SharedMemory
<1>3. widest = 4 \/ widest = 5 \/ widest = 6
  BY MaxOfTwo
<1>. HIDE DEF widest
<1>4. /\ weights \in Int /\ reduction \in Int /\ weights >= 16384
      /\ (i = 1 => tile.k = 64 /\ tile.n = 256) /\ (i = 2 => tile.k = 64 /\ tile.n = 128) /\ (i = 3 => tile.k = 128 /\ tile.n = 64)
      /\ (i = 2 => reduction = 17408)
  <2>1. CASE i = 1
    <3>1. tile.k = 64 /\ tile.n = 256
      BY <2>1, LargeTiles
    <3>. HIDE DEF tile
    <3>. QED
      BY <1>3, <2>1, <3>1
  <2>2. CASE i = 2
    <3>1. tile.k = 64 /\ tile.n = 128
      BY <2>2, LargeTiles
    <3>. HIDE DEF tile
    <3>. QED
      BY <1>3, <2>2, <3>1
  <2>3. CASE i = 3
    <3>1. tile.k = 128 /\ tile.n = 64
      BY <2>3, LargeTiles
    <3>. HIDE DEF tile
    <3>. QED
      BY <1>3, <2>3, <3>1
  <2>. QED
    BY <2>1, <2>2, <2>3
<1>. HIDE DEF tile, weights, reduction
<1>5. third \in Int
  BY <1>4, MinOfTwo
<1>. HIDE DEF third
<1>6. most \in Int /\ most >= weights /\ most >= reduction
  BY <1>4, <1>5, MaxIsLargest
<1>. HIDE DEF most
<1>7. CASE i = 1
  BY <1>2, <1>4, <1>6, <1>7 DEF Ceil, tile
<1>8. CASE i = 2
  BY <1>2, <1>4, <1>6, <1>8 DEF Ceil, tile
<1>9. CASE i = 3
  BY <1>2, <1>4, <1>6, <1>9 DEF Ceil, tile
<1>. QED
  BY <1>7, <1>8, <1>9

\* A shape that takes the pinned tiles, on a GPU whose shared memory has no room
\* for a second block of 64 rows on a multiprocessor (the GB10 has 101376 bytes).
PinnedIsChosen == Device.shared < 109568 /\ Shape.hidden % 256 = 0 /\ Shape.inter % 256 = 0

\* There each of the three tiles has one block.
LEMMA OneBlock ==
  ASSUME PinnedIsChosen, NEW bits \in 2..6, NEW i \in 1..3,
         NEW gemm, gemm.n \in Nat, gemm.rows \in Nat, gemm.topk \in Nat
  PROVE  BlocksPerSM(gemm, LargeBatchTiles[i], 64, bits) = 1
<1>. DEFINE tile == LargeBatchTiles[i]
            shared == SharedMemory(tile, 64, bits)
            perRegs == MaxRegBytes \div (NumRegs(tile, 64) * tile.threads * 4)
            perShared == Device.shared \div (shared + 1536)
            fit == Min({perRegs, perShared})
            limit == Max({1, Min({fit, 2})})
            work == (gemm.n \div tile.n) * gemm.rows * gemm.topk * 4
<1>0. Device.shared \in Nat /\ Device.sms \in Nat \ {0} /\ Device.shared < 109568
  BY LaunchesAssumption DEF PinnedIsChosen
<1>1. shared \in Int /\ shared > 0 /\ (i # 1 => shared >= 53248)
  BY SharedOfTiles
<1>2. /\ NumRegs(tile, 64) = 255 /\ tile.n \in {64, 128, 256}
      /\ tile.threads = IF i = 1 THEN 256 ELSE 128
  <2>1. NumRegs(tile, 64) = 255
    BY LargeTiles
  <2>2. i = 1 \/ i = 2 \/ i = 3
    OBVIOUS
  <2>. QED
    BY <2>1, <2>2, LargeTiles
<1>3. work \in Nat
  <2>1. \A n \in {64, 128, 256} : gemm.n \div n \in Nat
    OBVIOUS
  <2>2. gemm.n \div tile.n \in Nat
    BY <1>2, <2>1
  <2>3. \A x, y, z \in Nat : x * y * z * 4 \in Nat
    OBVIOUS
  <2>. QED
    BY <2>2, <2>3
<1>. HIDE DEF tile, shared
<1>4. perRegs \in Int /\ (i = 1 => perRegs = 1)
  <2>1. CASE i = 1
    <3>1. perRegs = 261120 \div 261120
      BY <1>2, <2>1 DEF MaxRegBytes
    <3>. QED
      BY <3>1
  <2>2. CASE i # 1
    <3>1. perRegs = 261120 \div 130560
      BY <1>2, <2>2 DEF MaxRegBytes
    <3>. QED
      BY <2>2, <3>1
  <2>. QED
    BY <2>1, <2>2
<1>5. perShared \in Int /\ (i # 1 => perShared <= 1)
  <2>1. \A a \in Nat, b \in Nat \ {0} : a \div b \in Int /\ (a < 2 * b => a \div b <= 1)
    OBVIOUS
  <2>2. shared + 1536 \in Nat \ {0} /\ (i # 1 => Device.shared < 2 * (shared + 1536))
    BY <1>0, <1>1
  <2>. QED
    BY <1>0, <2>1, <2>2
<1>6. BlocksPerSM(gemm, tile, 64, bits) = IF work < Device.sms * limit THEN Max({1, work \div Device.sms}) ELSE limit
  BY DEF BlocksPerSM, shared
<1>. HIDE DEF perRegs, perShared
<1>7. fit \in Int /\ fit <= 1
  BY <1>4, <1>5, MinOfTwo
<1>. HIDE DEF fit
<1>8. limit = 1
  BY <1>7, MinOfTwo, MaxOfTwo
<1>. HIDE DEF limit, work
<1>9. work < Device.sms => work \div Device.sms = 0
  <2>1. \A a \in Nat, b \in Nat \ {0} : a < b => a \div b = 0
    OBVIOUS
  <2>. QED
    BY <1>0, <1>3, <2>1
<1>10. Max({1, 0}) = 1 /\ Device.sms * 1 = Device.sms
  BY <1>0, MaxOfTwo
<1>11. BlocksPerSM(gemm, tile, 64, bits) = 1
  BY <1>6, <1>8, <1>9, <1>10
<1>. QED
  BY <1>11 DEF tile

\* So the first tile of the table is taken wherever it fits.
LEMMA FirstTileTaken ==
  ASSUME PinnedIsChosen, NEW bits \in 2..6,
         NEW gemm, gemm.n \in Nat, gemm.rows \in Nat, gemm.topk \in Nat,
         CandidateTileFits(gemm, Tile(64, 256), 64, bits)
  PROVE  SelectTile(gemm, 64, bits, {128, 256}) = Tile(64, 256)
<1>. DEFINE c == Candidates(gemm, 64, bits, {128, 256})
            blocks(i) == BlocksPerSM(gemm, c.tiles[i], 64, bits)
            best(i) == \A j \in c.fit \ {i} : blocks(j) < blocks(i) \/ (blocks(j) = blocks(i) /\ i < j)
            taken == CHOOSE i \in c.fit : best(i)
<1>1. BlocksOf16(64) = 4
  BY DEF BlocksOf16, Ceil
<1>2. c.tiles = LargeBatchTiles /\ DOMAIN c.tiles = 1..3 /\ LargeBatchTiles[1] = Tile(64, 256)
  BY <1>1, LargeTiles DEF Candidates, LargeBatchTiles
<1>3. c.fit \subseteq 1..3 /\ 1 \in c.fit
  BY <1>1, <1>2, LargeTiles DEF Candidates
<1>4. \A i \in 1..3 : blocks(i) = 1
  BY <1>2, OneBlock
<1>. HIDE DEF blocks, c
<1>5. best(1) /\ \A i \in c.fit : best(i) => i = 1
  BY <1>3, <1>4
<1>6. taken = 1
  BY <1>3, <1>5
<1>7. SelectTile(gemm, 64, bits, {128, 256}) = c.tiles[taken]
  BY DEF SelectTile, c, blocks
<1>. HIDE DEF taken
<1>. QED
  BY <1>2, <1>6, <1>7

\* A prefill batch at the capacity of its plan looks up a launch the plan compiled.
LEMMA PrefillRunsItsPlan ==
  ASSUME PinnedIsChosen, NEW bits \in 2..6, NEW m \in Nat \ {0},
         \A n \in PlannedRows(m) : Compiles(n, 64, bits, TrellisTileConfig)
  PROVE  RunLaunch(m, 64, bits) \in PlannedLaunches(m, 64, bits)
<1>1. m \in PlannedRows(m)
  BY DEF PlannedRows
<1>2. TrellisTileConfig = <<Tile(64, 256), Tile(64, 256)>>
  BY DEF TrellisTileConfig, PinnedIsChosen
<1>3. CandidateTileFits(FC1(m), Tile(64, 256), 64, bits) /\ CandidateTileFits(FC2(m), Tile(64, 256), 64, bits)
  BY <1>1, <1>2 DEF Compiles
<1>4. /\ FC1(m).n \in Nat /\ FC1(m).rows \in Nat /\ FC1(m).topk \in Nat
      /\ FC2(m).n \in Nat /\ FC2(m).rows \in Nat /\ FC2(m).topk \in Nat
  BY LaunchesAssumption DEF FC1, FC2
<1>5. FusedTiles(m, 64, bits) = TrellisTileConfig
  BY <1>2, <1>3, <1>4, FirstTileTaken DEF FusedTiles
<1>. QED
  BY <1>1, <1>5 DEF RunLaunch, PlannedLaunches

\* Every plan has tiers the kernel decodes.
PlansInv ==
  /\ DOMAIN prepared = Layers
  /\ \A l \in Layers : \A tier \in prepared[l] : tier[1] \in KernelBits

\* While the engine is profiled: what is planned compiles, and what was compiled was planned.
LaunchInv ==
  /\ phase \notin Late \cup {"failed"} => launches = {}
  /\ phase = "profile" =>
       /\ pass # NoPass => ~pass.capturing
       /\ \A k \in DOMAIN runtimes : PlanCompiles(k[1])
       /\ env.prefillBlock = 64 /\ PrefillPlanned => launches = UNION {Prewarmed(k[1]) : k \in DOMAIN runtimes}

\* The largest batch runs what its plan compiled.
LEMMA LargestRunsItsPlan ==
  ASSUME PinnedIsChosen, PassInv, env.prefillBlock = 64, PrefillPlanned,
         NEW plan, \A tier \in plan : tier[1] \in KernelBits, PlanCompiles(plan),
         Kernel(plan, PlannedRuntime(plan).arenas, env.batched) # "refused"
  PROVE  LaunchesOf(plan, Kernel(plan, PlannedRuntime(plan).arenas, env.batched), env.batched) \subseteq Prewarmed(plan)
<1>. DEFINE m == env.batched
            kernel == Kernel(plan, PlannedRuntime(plan).arenas, m)
<1>1. /\ m \in Nat \ {0} /\ env.maxM \in Nat /\ m > env.maxM /\ env.minM \in Nat
      /\ m \in Capacities /\ 64 \in RouteBlocks
  <2>1. env \in Settings /\ m \in Nat \ {0} /\ env.maxM \in Nat /\ env.minM \in Nat
    BY SettingsAreNumbers DEF PassInv
  <2>2. 64 \in RouteBlocks
    BY <2>1, RuntimesAssumption
  <2>. QED
    BY <2>1, <2>2 DEF Capacities, PrefillPlanned
<1>2. CASE Mixed(plan)
  BY <1>2 DEF LaunchesOf
<1>3. CASE ~Mixed(plan)
  <2>1. kernel = "prefill"
    BY <1>1, <1>3 DEF Kernel, PlannedRuntime, RankSlicedRuntime
  <2>2. LaunchesOf(plan, kernel, m) = {RunLaunchOf[m][64][tier[1]] : tier \in plan}
    BY <1>3, <2>1 DEF LaunchesOf
  <2>3. ASSUME NEW tier \in plan PROVE RunLaunchOf[m][64][tier[1]] \in Prewarmed(plan)
    <3>. DEFINE bits == tier[1]
                p == PlanOfCapacity[m][64][bits]
    <3>1. bits \in 2..6 /\ bits \in KernelBits
      BY DEF KernelBits
    <3>2. p \in PlansOf(plan)
      <4>1. <<m, 64>> \in TrellisPlans
        BY DEF TrellisPlans
      <4>. DEFINE F(q, t) == PlanOfCapacity[q[1]][q[2]][t[1]]
      <4>2. PlansOf(plan) = {F(q, t) : q \in TrellisPlans, t \in plan}
        BY <1>3 DEF PlansOf
      <4>3. F(<<m, 64>>, tier) = p
        OBVIOUS
      <4>. HIDE DEF F, p
      <4>4. F(<<m, 64>>, tier) \in PlansOf(plan)
        BY <4>1, <4>2
      <4>. QED
        BY <4>3, <4>4
    <3>3. p.compiles
      BY <3>2 DEF PlanCompiles
    <3>. DEFINE compiles == \A n \in PlannedRows(m) : Compiles(n, 64, bits, TrellisTileConfig)
    <3>4. p = [compiles |-> compiles, launches |-> IF compiles THEN PlannedLaunches(m, 64, bits) ELSE {}]
      BY <1>1, <3>1 DEF PlanOfCapacity
    <3>5. compiles /\ p.launches = PlannedLaunches(m, 64, bits)
      BY <3>3, <3>4
    <3>6. RunLaunch(m, 64, bits) \in PlannedLaunches(m, 64, bits)
      BY <1>1, <3>1, <3>5, PrefillRunsItsPlan
    <3>7. RunLaunchOf[m][64][bits] = RunLaunch(m, 64, bits)
      BY <1>1, <3>1 DEF RunLaunchOf
    <3>. QED
      BY <3>2, <3>5, <3>6, <3>7 DEF Prewarmed
  <2>. QED
    BY <2>2, <2>3
<1>. QED
  BY <1>2, <1>3

LEMMA PlansAreKept == LoadingInv /\ PlansInv /\ [Next]_vars => PlansInv'
<1>. SUFFICES ASSUME LoadingInv, PlansInv, [Next]_vars PROVE PlansInv'
  OBVIOUS
<1>1. CASE prepared' = prepared
  BY <1>1 DEF PlansInv
<1>2. CASE prepared' # prepared
  <2>1. ProcessWeights
    BY <1>2, NextLoadsOrRuns DEF Load, RunStep, weightVars, MaybeUpdateConfig, loadVars, CreateWeights, Read, EndStream,
       LoadDeferred, LoadDummy, ModelHook
  <2>2. PICK l \in Exl3Layers : Preparable(l) /\ prepared' = [prepared EXCEPT ![l] = WeightPlan(l)]
    BY <1>2, <2>1 DEF ProcessWeights
  <2>3. \A tier \in WeightPlan(l) : tier[1] \in KernelBits
    BY <2>2 DEF WeightPlan, Preparable
  <2>. QED
    BY <2>2, <2>3 DEF PlansInv, Exl3Layers
<1>. QED
  BY <1>1, <1>2

\* A layer of the profile pass compiles what it plans, and runs that.
LEMMA LayerCompilesItsPlan ==
  ASSUME PinnedIsChosen, RunInv, PlansInv, LaunchInv, Layer, phase = "profile", phase' = phase
  PROVE  LaunchInv'
<1>. DEFINE l == Order[pass.at]
            plan == PlanOf(l)
            key == RuntimeKey(l, pass.rows)
            all == RuntimesFor(l)
            kernel == Kernel(plan, all[key].arenas, pass.rows)
            ready == launches \cup (IF Uncached(l) THEN Prewarmed(plan) ELSE {})
            run == LaunchesOf(plan, kernel, pass.rows)
<1>1. pass # NoPass /\ ApplyRankSliced(l) /\ UNCHANGED <<weightVars, env>>
  BY DEF Layer
<1>2. /\ pass.rows = env.batched /\ ~pass.capturing /\ l \in Target
      /\ env \in Settings /\ pass \in Passes
  <2>1. pass \in Passes /\ pass.rows = env.batched /\ env \in Settings
    BY <1>1 DEF RunInv, PassInv
  <2>2. pass.at \in 1..Len(Order)
    BY <2>1 DEF Passes
  <2>. QED
    BY <1>1, <2>1, <2>2, RuntimesAssumption DEF LaunchInv, Target
<1>3. key[1] = plan /\ DOMAIN all = DOMAIN runtimes \cup {key} /\ (Uncached(l) <=> key \notin DOMAIN runtimes)
  BY DEF RuntimeKey, RuntimesFor, Uncached
<1>4. all[key].arenas = PlannedRuntime(plan).arenas
  BY <1>3 DEF RuntimesFor, RunInv, CacheInv, Runtime
<1>. HIDE DEF key, all, kernel, plan, run, ready
<1>5. /\ runtimes' = [all EXCEPT ![key].users = @ \cup {l}] /\ launches' = ready \cup run
      /\ Uncached(l) => PlanCompiles(plan)
      /\ kernel # "refused"
  BY <1>1, <1>2 DEF ApplyRankSliced, Fail, key, all, kernel, plan, run, ready
<1>6. PlanCompiles(plan)
  BY <1>3, <1>5 DEF LaunchInv
<1>7. \A tier \in plan : tier[1] \in KernelBits
  BY <1>2, RuntimesAssumption DEF PlansInv, PlanOf, Target, plan
<1>8. DOMAIN runtimes' = DOMAIN runtimes \cup {key}
  BY <1>3, <1>5
<1>9. UNCHANGED <<PrefillPlanned, TrellisPlans>> /\ \A p : PlanCompiles(p)' = PlanCompiles(p) /\ Prewarmed(p)' = Prewarmed(p)
  BY <1>1 DEF PrefillPlanned, TrellisPlans, PlanCompiles, Prewarmed, PlansOf
<1>10. \A k \in DOMAIN runtimes' : PlanCompiles(k[1])'
  BY <1>3, <1>6, <1>8, <1>9 DEF LaunchInv
<1>11. ASSUME env.prefillBlock = 64, PrefillPlanned
       PROVE  launches' = UNION {Prewarmed(k[1]) : k \in DOMAIN runtimes'}
  <2>1. run \subseteq Prewarmed(plan)
    BY <1>2, <1>4, <1>5, <1>6, <1>7, <1>11, LargestRunsItsPlan DEF run, kernel, RunInv
  <2>2. launches = UNION {Prewarmed(k[1]) : k \in DOMAIN runtimes}
    BY <1>11 DEF LaunchInv
  <2>3. ready = UNION {Prewarmed(k[1]) : k \in DOMAIN runtimes'}
    <3>1. CASE Uncached(l)
      BY <1>3, <1>8, <2>2, <3>1 DEF ready
    <3>2. CASE ~Uncached(l)
      <4>1. DOMAIN runtimes' = DOMAIN runtimes
        BY <1>3, <1>8, <3>2
      <4>. QED
        BY <2>2, <3>2, <4>1 DEF ready
    <3>. QED
      BY <3>1, <3>2
  <2>4. Prewarmed(plan) \subseteq ready
    <3>1. key \in DOMAIN runtimes' /\ Prewarmed(key[1]) = Prewarmed(plan)
      BY <1>3, <1>8
    <3>. QED
      BY <2>3, <3>1
  <2>. QED
    BY <1>5, <2>1, <2>3, <2>4
<1>12. pass' # NoPass => ~pass'.capturing
  BY <1>1, <1>2 DEF Layer, Passes
<1>. QED
  BY <1>1, <1>9, <1>10, <1>11, <1>12 DEF LaunchInv, Late

LEMMA LaunchesAreKept ==
  ASSUME PinnedIsChosen, RunInv, PlansInv, LaunchInv, [Next]_vars
  PROVE  LaunchInv'
<1>1. CASE Load /\ UNCHANGED runVars
  <2>1. phase \notin Late \cup {"failed"} /\ phase' \notin {"estimate", "capture", "serve"}
    BY <1>1 DEF Load, MaybeUpdateConfig, CreateWeights, Read, EndStream, LoadDeferred, LoadDummy, ProcessWeights, ModelHook,
       Pass, LoadExl3Weight, Fail, Late
  <2>2. launches' = {} /\ runtimes' = <<>> /\ pass' = NoPass
    BY <1>1, <2>1 DEF RunInv, PassInv, runVars, LaunchInv
  <2>3. DOMAIN runtimes' = {}
    BY <2>2
  <2>. QED
    BY <2>2, <2>3 DEF LaunchInv
<1>2. CASE Layer
  <2>1. /\ phase \in Late /\ (phase' = phase \/ phase' = "failed")
    <3>1. pass # NoPass
      BY <1>2 DEF Layer
    <3>. QED
      BY <1>2, <3>1, LayerUsesItsRuntime DEF RunInv, PassInv
  <2>2. CASE phase = "profile" /\ phase' = phase
    BY <1>2, <2>2, LayerCompilesItsPlan
  <2>3. CASE ~(phase = "profile" /\ phase' = phase)
    <3>1. phase' # "profile" /\ phase' \in Late \cup {"failed"}
      BY <2>1, <2>3
    <3>. QED
      BY <3>1 DEF LaunchInv
  <2>. QED
    BY <2>2, <2>3
<1>3. CASE ProfileRun
  <2>1. /\ UNCHANGED <<phase, env, launches, runtimes>> /\ phase = "profile" /\ ~pass'.capturing
    BY <1>3 DEF ProfileRun, Forward
  <2>2. UNCHANGED <<PrefillPlanned, TrellisPlans>> /\ \A p : PlanCompiles(p)' = PlanCompiles(p) /\ Prewarmed(p)' = Prewarmed(p)
    BY <2>1 DEF PrefillPlanned, TrellisPlans, PlanCompiles, Prewarmed, PlansOf
  <2>. QED
    BY <2>1, <2>2 DEF LaunchInv, Late
<1>4. CASE EndProfile \/ WarmUp \/ CaptureNext \/ EndEstimate \/ EndCapture \/ Serve
  <2>1. phase' \in {"estimate", "capture", "serve"}
    BY <1>4 DEF EndProfile, WarmUp, CaptureNext, EndEstimate, EndCapture, Serve, Forward
  <2>. QED
    BY <2>1 DEF LaunchInv, Late
<1>5. CASE UNCHANGED vars
  <2>1. UNCHANGED <<phase, env, launches, runtimes, pass>>
    BY <1>5 DEF vars, runVars
  <2>2. UNCHANGED <<PrefillPlanned, TrellisPlans>> /\ \A p : PlanCompiles(p)' = PlanCompiles(p) /\ Prewarmed(p)' = Prewarmed(p)
    BY <2>1 DEF PrefillPlanned, TrellisPlans, PlanCompiles, Prewarmed, PlansOf
  <2>. QED
    BY <2>1, <2>2 DEF LaunchInv
<1>. QED
  BY <1>1, <1>2, <1>3, <1>4, <1>5 DEF Next

\* On a GPU with room for one block of 64 rows on a multiprocessor, and for a shape that
\* takes the pinned tiles, the peak the profile pass measures has no compilation in it;
\* with the scratch apart and large enough, that is what a runtime promises.
THEOREM RuntimesAreSafe ==
  ASSUME PinnedIsChosen
  PROVE  Spec => []RuntimesInv
<1>1. Init => PlansInv /\ LaunchInv
  <2>. SUFFICES ASSUME Init PROVE PlansInv /\ LaunchInv
    OBVIOUS
  <2>1. prepared = [l \in Layers |-> {}] /\ launches = {} /\ phase = "configure"
    BY DEF Init, NoPlan
  <2>. QED
    BY <2>1 DEF PlansInv, LaunchInv
<1>2. RunInv /\ PlansInv /\ LaunchInv /\ [Next]_vars => PlansInv' /\ LaunchInv'
  BY PlansAreKept, LaunchesAreKept DEF RunInv
<1>3. RunInv /\ LaunchInv => ProfileCompilesNothing
  <2>. SUFFICES ASSUME RunInv, LaunchInv, phase = "profile", env.prefillBlock = 64, PrefillPlanned
                PROVE  launches = UNION {Prewarmed(runtimes[k].plan) : k \in DOMAIN runtimes}
    BY DEF ProfileCompilesNothing
  <2>1. \A k \in DOMAIN runtimes : runtimes[k].plan = k[1]
    BY DEF RunInv, CacheInv
  <2>2. launches = UNION {Prewarmed(k[1]) : k \in DOMAIN runtimes}
    BY DEF LaunchInv
  <2>. QED
    BY <2>1, <2>2
<1>4. ArenasApart /\ ArenaFits /\ ProfileCompilesNothing => RuntimesInv
  BY DEF RuntimesInv
<1>. QED
  BY <1>1, <1>2, <1>3, <1>4, RunIsInvariant, ScratchIsApart, ScratchHoldsRows, PTL DEF Spec

-----------------------------------------------------------------------------
(* The routing.                                                              *)

\* A set of numbers that is not empty has a smallest member.
LEMMA SmallestOfSet ==
  ASSUME NEW S \in SUBSET Nat, S # {}
  PROVE  \E m \in S : \A n \in S : m <= n
<1>1. PICK m \in S : \A n \in S : ~(<<n, m>> \in OpToRel(<, Nat))
  BY WFMin, NatLessThanWellFounded, Zenon
<1>2. \A n \in S : ~(n < m)
  BY <1>1, Zenon DEF OpToRel
<1>. QED
  BY <1>2

\* Induction over the numbers, of a set instead of a predicate.
LEMMA InductionOfSet ==
  ASSUME NEW S \in SUBSET Nat, 0 \in S, \A n \in S : n + 1 \in S
  PROVE  S = Nat
<1>. SUFFICES ASSUME Nat \ S # {} PROVE FALSE
  OBVIOUS
<1>1. PICK m \in Nat \ S : \A n \in Nat \ S : m <= n
  BY SmallestOfSet
<1>2. m # 0 /\ m - 1 \in Nat
  OBVIOUS
<1>3. m - 1 \in S
  BY <1>1, <1>2
<1>. QED
  BY <1>1, <1>2, <1>3

LEMMA ExpertsAreFinite == IsFiniteSet(Experts) /\ Cardinality(Experts) \in Nat /\ Experts \subseteq Nat
<1>1. Cardinality(Experts) \in Nat /\ Experts = 1..Cardinality(Experts)
  BY WeightsAssumption
<1>2. \A n \in Nat : IsFiniteSet(1..n) /\ 1..n \subseteq Nat
  BY FS_Interval
<1>. QED
  BY <1>1, <1>2

\* Beats is what the kernel compares: the higher score, and the lower of two equals.
Beats(choice, f, e) == choice[f] > choice[e] \/ (choice[f] = choice[e] /\ f < e)

\* Of experts not yet taken, one is beaten by none.
LEMMA LowestBestIsThere ==
  ASSUME NEW choice \in [Experts -> Int], NEW out \in SUBSET Experts, Experts \ out # {}
  PROVE  /\ LowestBest(choice, out) \in Experts \ out
         /\ \A f \in Experts \ out : choice[LowestBest(choice, out)] >= choice[f]
<1>. DEFINE left == Experts \ out
            over(e) == {f \in left : Beats(choice, f, e)}
            sizes == {Cardinality(over(e)) : e \in left}
<1>1. \A e \in left : IsFiniteSet(over(e)) /\ Cardinality(over(e)) \in Nat
  <2>. TAKE e \in left
  <2>1. over(e) \in SUBSET Experts
    OBVIOUS
  <2>. QED
    BY <2>1, ExpertsAreFinite, FS_Subset, FS_CardinalityType
<1>2. sizes \in SUBSET Nat /\ sizes # {}
  BY <1>1
<1>3. PICK n \in sizes : \A k \in sizes : n <= k
  BY <1>2, SmallestOfSet
<1>4. PICK e \in left : n = Cardinality(over(e))
  BY <1>3
<1>5. ASSUME NEW f \in over(e) PROVE FALSE
  <2>1. f \in left /\ e \in left /\ Beats(choice, f, e) /\ left \subseteq Nat
    BY ExpertsAreFinite
  <2>2. ASSUME NEW g \in over(f) PROVE g \in over(e)
    <3>1. g \in left /\ Beats(choice, g, f)
      OBVIOUS
    <3>2. choice[g] \in Int /\ choice[f] \in Int /\ choice[e] \in Int /\ g \in Nat /\ f \in Nat /\ e \in Nat
      BY <2>1, <3>1
    <3>3. Beats(choice, g, e)
      BY <2>1, <3>1, <3>2 DEF Beats
    <3>. QED
      BY <3>1, <3>3
  <2>3. f \notin over(f)
    BY <2>1 DEF Beats
  <2>4. over(f) \in SUBSET over(e) /\ over(f) # over(e)
    BY <2>2, <2>3
  <2>. HIDE DEF over
  <2>5. Cardinality(over(f)) <= Cardinality(over(e)) /\ Cardinality(over(f)) # Cardinality(over(e))
    BY <1>1, <2>4, FS_Subset
  <2>6. n <= Cardinality(over(f)) /\ Cardinality(over(f)) \in Nat /\ n \in Nat
    BY <1>1, <1>2, <1>3, <2>1
  <2>. QED
    BY <1>4, <2>5, <2>6
<1>6. \A f \in left : choice[e] > choice[f] \/ (choice[e] = choice[f] /\ e <= f)
  <2>. TAKE f \in left
  <2>1. choice[f] \in Int /\ choice[e] \in Int /\ f \in Nat /\ e \in Nat
    BY <1>4, ExpertsAreFinite
  <2>2. ~Beats(choice, f, e)
    BY <1>5
  <2>. QED
    BY <2>1, <2>2 DEF Beats
<1>7. \E x \in Experts \ out :
        \A f \in Experts \ out : choice[x] > choice[f] \/ (choice[x] = choice[f] /\ x <= f)
  BY <1>6
<1>. DEFINE b == LowestBest(choice, out)
<1>8. b \in Experts \ out /\ \A f \in Experts \ out : choice[b] > choice[f] \/ (choice[b] = choice[f] /\ b <= f)
  BY <1>7, Zenon DEF LowestBest
<1>9. \A f \in Experts \ out : choice[f] \in Int
  OBVIOUS
<1>. QED
  BY <1>8, <1>9

\* What the kernel has taken after each of its slots.
IsTaken(f, choice, n) ==
  f = [k \in 0..n |-> IF k = 0 THEN {} ELSE f[k - 1] \cup {LowestBest(choice, f[k - 1])}]

LEMMA TakenIsDefined ==
  ASSUME NEW choice, NEW n \in Nat
  PROVE  \E f : IsTaken(f, choice, n)
<1>. DEFINE S == {k \in Nat : \E f : IsTaken(f, choice, k)}
<1>1. 0 \in S
  <2>1. IsTaken([k \in 0..0 |-> {}], choice, 0)
    BY DEF IsTaken
  <2>. QED
    BY <2>1
<1>2. ASSUME NEW k \in S PROVE k + 1 \in S
  <2>1. PICK f : IsTaken(f, choice, k)
    OBVIOUS
  <2>. DEFINE next == f[k] \cup {LowestBest(choice, f[k])}
              g == [i \in 0..k + 1 |-> IF i <= k THEN f[i] ELSE next]
  <2>2. ASSUME NEW i \in 0..k + 1, i # 0
        PROVE  g[i] = g[i - 1] \cup {LowestBest(choice, g[i - 1])}
    <3>1. CASE i <= k
      <4>1. i - 1 \in 0..k + 1 /\ i - 1 <= k /\ g[i] = f[i] /\ g[i - 1] = f[i - 1]
        BY <2>2, <3>1
      <4>2. i \in 0..k /\ i # 0
        BY <2>2, <3>1
      <4>3. f[i] = f[i - 1] \cup {LowestBest(choice, f[i - 1])}
        BY <2>1, <4>2 DEF IsTaken
      <4>. QED
        BY <4>1, <4>3
    <3>2. CASE i = k + 1
      <4>1. i - 1 = k /\ k \in 0..k + 1 /\ g[i] = next /\ g[k] = f[k]
        BY <3>2
      <4>. QED
        BY <4>1
    <3>3. i <= k \/ i = k + 1
      OBVIOUS
    <3>. HIDE DEF g
    <3>. QED
      BY <3>1, <3>2, <3>3
  <2>3. g[0] = {}
    BY <2>1 DEF IsTaken
  <2>4. g = [i \in 0..k + 1 |-> IF i = 0 THEN {} ELSE g[i - 1] \cup {LowestBest(choice, g[i - 1])}]
    BY <2>2, <2>3
  <2>. HIDE DEF g
  <2>5. IsTaken(g, choice, k + 1)
    BY <2>4 DEF IsTaken
  <2>. QED
    BY <2>5
<1>. HIDE DEF S
<1>3. S = Nat
  BY <1>1, <1>2, InductionOfSet DEF S
<1>. QED
  BY <1>3 DEF S

\* Slot after slot the kernel has taken experts none of the others beats.
LEMMA TakenIsBest ==
  ASSUME NEW choice \in [Experts -> Int], NEW f, IsTaken(f, choice, TopK)
  PROVE  f[TopK] \in Best(choice)
<1>1. TopK \in Nat /\ TopK <= Cardinality(Experts)
  BY RoutingAssumption, ExpertsAreFinite
<1>. DEFINE Good(T, k) ==
              /\ T \in SUBSET Experts /\ IsFiniteSet(T) /\ Cardinality(T) = k
              /\ \A e \in T, g \in Experts \ T : choice[e] >= choice[g]
            S == {k \in Nat : k <= TopK => Good(f[k], k)}
<1>2. 0 \in S
  BY <1>1, FS_EmptySet DEF IsTaken
<1>3. ASSUME NEW k \in S PROVE k + 1 \in S
  <2>. SUFFICES ASSUME k + 1 <= TopK PROVE Good(f[k + 1], k + 1)
    OBVIOUS
  <2>. DEFINE T == f[k]
              b == LowestBest(choice, T)
  <2>1. Good(T, k)
    BY <1>1
  <2>2. f[k + 1] = T \cup {b}
    <3>1. k + 1 \in 0..TopK /\ k + 1 # 0 /\ (k + 1) - 1 = k
      BY <1>1
    <3>. QED
      BY <3>1 DEF IsTaken
  <2>3. Experts \ T # {}
    <3>1. T # Experts
      BY <1>1, <2>1
    <3>. QED
      BY <2>1, <3>1
  <2>4. b \in Experts \ T /\ \A g \in Experts \ T : choice[b] >= choice[g]
    BY <2>1, <2>3, LowestBestIsThere
  <2>. HIDE DEF T, b
  <2>5. IsFiniteSet(T \cup {b}) /\ Cardinality(T \cup {b}) = k + 1
    BY <2>1, <2>4, FS_AddElement
  <2>6. \A e \in T \cup {b}, g \in Experts \ (T \cup {b}) : choice[e] >= choice[g]
    BY <2>1, <2>4
  <2>. QED
    BY <2>1, <2>2, <2>4, <2>5, <2>6
<1>4. S \in SUBSET Nat
  OBVIOUS
<1>. HIDE DEF S
<1>5. TopK \in S
  BY <1>1, <1>2, <1>3, <1>4, InductionOfSet
<1>. QED
  BY <1>1, <1>5 DEF S, Best

\* The kernel takes a choice without a better one, of the experts as its bias has them.
LEMMA KernelTakesBest ==
  ASSUME NEW l \in Layers, NEW id, NEW scores \in [Experts -> Int]
  PROVE  Dsv4Topk(l, id, scores)
           \in Best(Plus(scores, IF SentinelLo > 0 /\ IsImage(id) THEN BiasVl[l] ELSE Bias[l]))
<1>. DEFINE choice == Plus(scores, IF SentinelLo > 0 /\ IsImage(id) THEN BiasVl[l] ELSE Bias[l])
            taken == CHOOSE f : IsTaken(f, choice, TopK)
<1>1. choice \in [Experts -> Int]
  BY RoutingAssumption DEF Plus
<1>2. TopK \in Nat
  BY RoutingAssumption, ExpertsAreFinite
<1>3. IsTaken(taken, choice, TopK)
  BY <1>2, TakenIsDefined
<1>4. Dsv4Topk(l, id, scores) = taken[TopK]
  BY DEF Dsv4Topk, IsTaken
<1>. HIDE DEF choice, taken
<1>5. taken[TopK] \in Best(choice)
  BY <1>1, <1>3, TakenIsBest
<1>. QED
  BY <1>4, <1>5 DEF choice

\* What the last layer has run on is a choice its router may make of a row's scores.
RouteInv ==
  use # NoUse /\ use.layer \in Layers =>
    /\ use.id \in TokenIds /\ use.scores \in Gates
    /\ use.experts \in FusedTopkBias(use.layer, use.id, use.scores)

LEMMA RouteIsKept == PassInv /\ RouteInv /\ [Next]_vars => RouteInv'
<1>. SUFFICES ASSUME PassInv, RouteInv, [Next]_vars PROVE RouteInv'
  OBVIOUS
<1>1. CASE Layer
  <2>. DEFINE l == Order[pass.at]
  <2>1. pass # NoPass /\ ApplyRankSliced(l)
    BY <1>1 DEF Layer
  <2>2. pass.id \in TokenIds /\ pass.scores \in Gates
    BY <2>1 DEF PassInv, Passes
  <2>3. CASE use' = use
    BY <2>3 DEF RouteInv
  <2>4. CASE use' # use
    <3>1. \E chosen \in IF l \in Layers THEN FusedTopkBias(l, pass.id, pass.scores) ELSE {{}} :
            /\ use'.layer = l /\ use'.id = pass.id /\ use'.scores = pass.scores /\ use'.experts = chosen
      BY <2>1, <2>4 DEF ApplyRankSliced
    <3>. QED
      BY <2>2, <3>1 DEF RouteInv
  <2>. QED
    BY <2>3, <2>4
<1>2. CASE use' = use
  BY <1>2 DEF RouteInv
<1>. QED
  BY <1>1, <1>2 DEF Next, runVars, vars, ProfileRun, EndProfile, WarmUp, CaptureNext, EndEstimate, EndCapture, Serve, Forward

\* An image token's experts are chosen with bias_vl on every layer, another's never
\* are, and where there is no hash table the kernel takes a choice that is best too.
THEOREM RoutesByKind == Spec => []RoutingInv
<1>1. Init => RouteInv
  BY DEF Init, RouteInv
<1>2. RouteInv => RoutedByKind
  <2>. SUFFICES ASSUME RouteInv, use # NoUse, use.layer \in Layers PROVE RoutedByKind
    BY DEF RoutedByKind
  <2>1. use.id \in Nat /\ SentinelLo \in Nat
    BY RuntimesAssumption, RoutingAssumption DEF RouteInv
  <2>2. IsImage(use.id) <=> use.id - SentinelLo \in 0..4
    BY <2>1 DEF IsImage, ImageSentinelSpan
  <2>. QED
    BY <2>1, <2>2 DEF RouteInv, RoutedByKind, FusedTopkBias, RerouteImageTokens, TopkSoftplusSqrt
<1>3. RouteInv => PathsAgree
  <2>. SUFFICES ASSUME RouteInv, use # NoUse, use.layer \in Layers \ HashLayers
                PROVE  Dsv4Topk(use.layer, use.id, use.scores) \in FusedTopkBias(use.layer, use.id, use.scores)
    BY DEF PathsAgree
  <2>1. use.scores \in [Experts -> Int]
    BY RuntimesAssumption DEF RouteInv
  <2>2. Dsv4Topk(use.layer, use.id, use.scores)
          \in Best(Plus(use.scores, IF SentinelLo > 0 /\ IsImage(use.id) THEN BiasVl[use.layer] ELSE Bias[use.layer]))
    BY <2>1, KernelTakesBest
  <2>. QED
    BY <2>2 DEF FusedTopkBias, RerouteImageTokens, TopkSoftplusSqrt
<1>. QED
  BY <1>1, <1>2, <1>3, RouteIsKept, InitTypes, PassIsKept, PTL DEF Spec, RoutingInv
=============================================================================
