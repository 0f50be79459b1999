CONSTANTS
  c1 = c1
  c2 = c2
  m1 = m1
  Clients <- MCClients
  Manual <- MCManual
  Old = old
  NoFile = nofile
  Prompts <- MCAnyHost
  MaxFaults = 2

SPECIFICATION FairConnectSpec

INVARIANTS
  FailureExplained

PROPERTIES
  ConnectEnds
  SocketReplaced

\* Once every client is done, nothing needs to happen.
CHECK_DEADLOCK FALSE
