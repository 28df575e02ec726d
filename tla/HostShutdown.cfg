CONSTANTS
  MaxSignals = 1
  TestFrames = FALSE
SPECIFICATION FairSpec
PROPERTY
  ShutdownEnds
CHECK_DEADLOCK FALSE
