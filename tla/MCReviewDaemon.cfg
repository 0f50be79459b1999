CONSTANTS
  r1 = r1
  r2 = r2
  Requests <- MCRequests
  Kinds <- MCKinds
  Configs <- MCConfigs
  Bodies <- MCBodies
  MaxCrashes = 1
  MaxLost = 1

SPECIFICATION FairSpec

INVARIANTS
  AnswersAreAudited
  VerificationFailsOpen
  UltraIsVerified

PROPERTIES
  EveryRequestEnds

\* Once every request is done, nothing needs to happen.
CHECK_DEADLOCK FALSE
