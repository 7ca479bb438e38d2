--------------------------- MODULE ExpertRouting ---------------------------
(***************************************************************************)
(* How a token's experts are chosen in one MoE layer: fused_topk_bias with *)
(* the second selection for image tokens, and the dsv4_topk kernel.  A     *)
(* gating function gives each expert its score (the square root of the     *)
(* softplus of a logit, order preserving, is data); scores and biases are  *)
(* integers here.  Rows do not depend on each other, so one row stands for *)
(* a batch.  A choice is a set, because the kernels break ties as they     *)
(* like.                                                                   *)
(***************************************************************************)
EXTENDS Integers, FiniteSets

CONSTANTS
  Experts,     \* the routed experts of a layer
  TopK,        \* experts per token
  SentinelLo,  \* the first image sentinel id, 0 for a text model
  Layers,      \* the MoE layers of the target model
  Bias,        \* Bias[l][e]: e_score_correction_bias
  BiasVl,      \* BiasVl[l][e]: bias_vl
  HashLayers,  \* the layers that route by token id
  HashTable    \* HashTable[id]: the experts tid2eid gives a token id

ASSUME RoutingAssumption ==
  /\ TopK \in 1..Cardinality(Experts) /\ SentinelLo \in Nat
  /\ {Bias, BiasVl} \subseteq [Layers -> [Experts -> Int]]
  /\ HashLayers \subseteq Layers

ImageSentinelSpan == 5

IsImage(id) == id >= SentinelLo /\ id < SentinelLo + ImageSentinelSpan

Plus(scores, bias) == [e \in Experts |-> scores[e] + bias[e]]

\* The sets of TopK experts none of the others beats.
Best(choice) ==
  {S \in SUBSET Experts : /\ Cardinality(S) = TopK
                          /\ \A e \in S, f \in Experts \ S : choice[e] >= choice[f]}

TopkSoftplusSqrt(l, id, scores) ==
  IF l \in HashLayers THEN {HashTable[id]} ELSE Best(Plus(scores, Bias[l]))

\* Every row selects again with bias_vl; the mask decides which selection stays.
RerouteImageTokens_BiasAdded(l, id, scores, chosen) ==
  IF IsImage(id) THEN Best(Plus(Plus(scores, Bias[l]), BiasVl[l])) ELSE chosen
RerouteImageTokens(l, id, scores, chosen) ==
  IF IsImage(id) THEN Best(Plus(scores, BiasVl[l])) ELSE chosen

FusedTopkBias(l, id, scores) ==
  IF SentinelLo > 0 THEN RerouteImageTokens(l, id, scores, TopkSoftplusSqrt(l, id, scores))
  ELSE TopkSoftplusSqrt(l, id, scores)

\* The kernel selects once, with the bias the token's kind calls for, and takes
\* the lowest of the experts that tie, one slot after another.
LowestBest(choice, out) ==
  CHOOSE e \in Experts \ out :
    \A f \in Experts \ out : choice[e] > choice[f] \/ (choice[e] = choice[f] /\ e <= f)

Dsv4Topk(l, id, scores) ==
  LET choice == Plus(scores, IF SentinelLo > 0 /\ IsImage(id) THEN BiasVl[l] ELSE Bias[l])
      taken[k \in 0..TopK] ==
        IF k = 0 THEN {} ELSE taken[k - 1] \cup {LowestBest(choice, taken[k - 1])}
  IN taken[TopK]
=============================================================================
