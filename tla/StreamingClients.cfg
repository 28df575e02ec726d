CONSTANTS
  w1 = w1  w2 = w2  p1 = p1  p2 = p2
  Workers = {w1, w2}
  Producers = {}
  NoThread = NoThread
  MaxClients = 2
  Kinds = {"PING", "TOUCH_EVENT", "OTHER"}
  MaxInbox = 2
  MaxSent = 2
  MaxFrames = 0
  Window = 1
  CallbackMayThrow = TRUE
SPECIFICATION FairSpec
INVARIANTS
  OneHandlerPerClient
  MutexHeldInside
  PongsAnswerPings
  TouchesInOrder
PROPERTIES
  PingsAnswered
  ClosedIsRemoved
CHECK_DEADLOCK FALSE
