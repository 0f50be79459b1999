CONSTANTS
  MaxChunks = 3
  Parallelisms <- MCParallelisms
  Bodies <- MCBodies

SPECIFICATION FairSpec

INVARIANTS
  BackendLoadBounded
  NoAnswerLostOrCountedTwice
  RootCauseReported
  BlockNeverLost

PROPERTIES
  Promise
  Concludes

\* A review that has returned takes no further step.
CHECK_DEADLOCK FALSE
