CONSTANTS
  c1 = c1
  c2 = c2
  m1 = m1
  Clients <- MCClients
  Manual <- MCNobody
  Old = old
  NoFile = nofile
  Prompts <- MCPromptHost
  MaxFaults = 0

SPECIFICATION ConnectSpec

INVARIANTS
  OneDaemonServes

CHECK_DEADLOCK FALSE
