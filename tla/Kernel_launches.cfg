SPECIFICATION Spec
CONSTANTS
  Sms = 3
  Plans <- MCPlans
  Launches = 3
  InOrder = TRUE
INVARIANTS PhasesApart LaunchComputes
PROPERTIES EveryLaunchEnds
CHECK_DEADLOCK FALSE
