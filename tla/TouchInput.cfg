CONSTANTS
  MaxFingers = 2
  Fingers = {0, 1, 2}
  MaxReaders = 3
SPECIFICATION Spec
INVARIANTS
  UpIsUp
  DownIsDown
CHECK_DEADLOCK FALSE
