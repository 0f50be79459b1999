CONSTANTS
  MaxLength = 7
  Configs <- MCConfigs
  MaxOverhead = 2
  Reserve = 1
  MinTokens = 1
  MinBytes = 2
  TokenBytes = 2

SPECIFICATION Spec

INVARIANTS
  NothingLost
  ChunksFit
  RequestFitsContext
  FilesStayWhole
  NoNeedlessChunk

\* An input that is split takes no further step.
CHECK_DEADLOCK FALSE
