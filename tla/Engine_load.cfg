SPECIFICATION Spec
CONSTANTS
  Experts <- MCExperts
  TopK = 1
  SentinelLo = 10
  Layers <- MCLayers
  Bias <- MCBias
  BiasVl <- MCBiasVl
  HashLayers = {1}
  HashTable <- MCHashTable
  Rank = 0
  Packs <- MCPacks
  ImageEnabled = TRUE
  DraftPlan <- MCDraftPlan
  Order <- MCOrder
  Settings <- MCSettings
  Shape <- MCShape
  Device <- MCDevice
  ExactUpTo = 2
  RouteBlocks = {8, 16, 32, 64}
  TokenIds <- MCTokenIds
  Gates <- MCGates
INVARIANTS LoadInv RuntimesInv RoutingInv
PROPERTIES SteadyAfterProfile ComesUp
