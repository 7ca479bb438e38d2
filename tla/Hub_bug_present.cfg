SPECIFICATION Spec
CONSTANTS
  Shards = {s1, s2, s3}
  MaxInterrupts = 2
INVARIANTS
  EngineHasWholePack
