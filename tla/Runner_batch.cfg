SPECIFICATION Spec
SYMMETRY Symmetric
CONSTANTS
  Reqs = {r1, r2}
  Hashes = {h1}
  NumPrompt = 2
  ImageAt = 2
  NumSpec = 2
  Drafted = {2}
  DrafterMax = 7
  MaxLen = 5
  MaxEvents = 3
INVARIANTS BatchInv InputsInv
