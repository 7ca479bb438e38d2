SPECIFICATION FairLSpec
CONSTANTS
  NumParts = 2
  MaxCrashes = 2
  KillPoints <- StepsOneToThree
  TornWrites = FALSE
  Verify = TRUE
  RebuildDraft = FALSE
  UseByHand = FALSE
INVARIANTS EngineHasWholePack
PROPERTIES StartReachesServing
