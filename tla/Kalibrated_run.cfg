SPECIFICATION Spec
CONSTANTS
  NumLayers = 4
  K3 <- MCK3
  ResumeFrom = 2
  SwitchTells = TRUE
  MaxFaults = 1
  MaxPulls = 2
INVARIANTS BootOnWhole SpliceBehind
PROPERTIES BoundedLoss SparkSettles
\* Every script comes to its end.
CHECK_DEADLOCK FALSE
