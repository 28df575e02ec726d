CONSTANTS
  MaxConns = 2
  MaxBytes <- MCMaxBytes
  Chunk = 2
  Window = 1
  MayStop = TRUE
SPECIFICATION FairSpec
INVARIANTS
  TypeOK
  BytesInOrder
  LiveThreadsJoinable
PROPERTIES
  EverythingForwarded
  StopEnds
CHECK_DEADLOCK FALSE
