SPECIFICATION LSpec
CONSTANTS
  NumParts = 2
  MaxCrashes = 3
  KillPoints <- Anywhere
  TornWrites = TRUE
  Verify = FALSE
  RebuildDraft = TRUE
  UseByHand = TRUE
INVARIANTS MarkersFollowPayload TextCopiesStayText SuccessLeavesOneView EngineStartsSound
PROPERTIES ImplementsCommit
