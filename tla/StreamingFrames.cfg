CONSTANTS
  w1 = w1  w2 = w2  p1 = p1  p2 = p2
  Workers = {w1, w2}
  Producers = {p1}
  NoThread = NoThread
  MaxClients = 3
  Kinds = {}
  MaxInbox = 0
  MaxSent = 0
  MaxFrames = 2
  Window = 1
  CallbackMayThrow = FALSE
SPECIFICATION Spec
SYMMETRY WorkerSymmetry
INVARIANTS
  
  FrameReachesAllWhileNobodyLeft
CHECK_DEADLOCK FALSE
