CONSTANTS
  Files <- MCFiles
  GoFiles <- MCGoFiles
  Versions <- MCVersions
  Repositories <- MCRepositories
  Requests <- MCRequests
  Sources <- MCSources
  Checks <- MCChecks
  Packages <- MCPackages
  Config <- MCConfig
  Rules <- MCRules
  MaxEntries = 1
  MaxMoves = 3

SPECIFICATION Spec

INVARIANTS
  ChangesNotPassedOver
  SnapshotComplete
  RulesFitInput
  FindingsMatchRequest

\* A request that was answered takes no further step.
CHECK_DEADLOCK FALSE
