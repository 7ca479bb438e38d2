SPECIFICATION Spec
CONSTANTS
  Tp = 2
  FamilyOrder <- MCFamilies
  Carried <- MCCarried
  Sidecars <- MCSidecars
  Workers = 2
  Reuse = TRUE
  NumRevisions = 2
  MaxCrashes = 2
  MaxFailures = 1
INVARIANT ManifestIsTrue
PROPERTIES NeverRedone EndsServing ImplementsCommit
\* Serving goes on for ever: once the kills are used up nothing else happens.
CHECK_DEADLOCK FALSE
