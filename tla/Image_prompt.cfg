SPECIFICATION Spec
CONSTANTS
  PatchSize = 14
  Downsample = 3
  MaxTokens = 384
  MinPixels = 147456
  Requests <- MCRequests
INVARIANTS BlockInv PromptIsExpanded ChatInv
PROPERTIES ResizeEnds
