CONSTANTS
  byHand = byHand
  wildcard = wildcard
  MaxStarts = 4
  MaxAttempts = 2
  Others <- MCOthers
  Wildcards <- MCWildcards
  Inferences <- MCInferences
  Free = free
  Probe = probe
  Prompts <- MCAnyHost
  MaxFaults = 1

SPECIFICATION FairSpec

INVARIANTS
  SuccessMeansReplaced
  ForeignListenerBlocks
  FailureHasCause

PROPERTIES
  DeploymentEnds
  ServiceComesUp

\* A deployment is over once it has ended, and the supervisor may have given up.
CHECK_DEADLOCK FALSE
