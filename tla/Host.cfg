CONSTANTS
  MaxSignals = 2
  TestFrames = TRUE
SPECIFICATION FairSpec
INVARIANTS
  OnlyForkedPidsSignalled
  ExitLeavesNoChild
PROPERTY
  ShutdownWithoutChildren
CHECK_DEADLOCK FALSE
