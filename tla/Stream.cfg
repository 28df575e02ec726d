CONSTANTS
  InCapacity = 2
  OutCapacity = 1
  MaxBuffer = 2
  MaxRead = 2
  MaxIn = 3
  MaxOut = 2
  Window = 2
  MaxSpurious = 1
SPECIFICATION FairSpec
INVARIANTS
  ReadInOrder
  WireInOrder
  DrainedAtTheEnd
  NobodyOversleeps
PROPERTIES
  QueuesAreFifos
  NothingStaysBehind
  RenderThreadEnds
CHECK_DEADLOCK FALSE
