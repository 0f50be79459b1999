CONSTANTS
  home = home
  away = away
  default = default
  mine = mine
  theirs = theirs
  old = old
  tokenFile = tokenFile
  m = m
  n = n
  word = word
  one = one
  None = None
  Calls = {c1, c2}
  Requests <- MCRequests
  Files <- MCFiles
  Urls = {home, away, default}
  DefaultUrl = default
  Tokens = {mine, theirs, old}
  TokenFiles = {tokenFile}
  Models = {m, n}
  Texts = {word, one}
  JSONTexts = {one}

SPECIFICATION FairSpec

INVARIANTS
  CredentialStaysHome
  ModelReachesItsBackend
  ReplyConforms
  StatusExplained
  NoCallCutOff

PROPERTIES
  CallsEnd
  StopEnds

\* The service may refuse to start, fail or end.
CHECK_DEADLOCK FALSE
