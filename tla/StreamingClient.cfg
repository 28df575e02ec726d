SPECIFICATION FairSpec
CONSTANTS
  MaxConnects = 1
  MaxDisconnects = 1
  MaxTouches = 1
  MaxReplies = 1
  Window = 1
INVARIANTS TypeOK MessagesWhole NoSocketLeft
PROPERTIES  StoppedEnds
\* A client that was disconnected, with all its threads ended, does nothing more.
CHECK_DEADLOCK FALSE
