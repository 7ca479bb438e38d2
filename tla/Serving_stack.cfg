SPECIFICATION Spec
CONSTANTS
  KillPoints <- Anywhere
  MaxStarts = 2
  MaxCrashes = 1
  MaxOthers = 1
PROPERTIES StopLeavesNothing DipNeverKills ReadyProxyIsOurs LowMemoryEndsEngine StartEnds
