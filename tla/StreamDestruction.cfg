CONSTANTS
  InCapacity = 1
  OutCapacity = 1
  MaxBuffer = 2
  MaxRead = 2
  MaxIn = 2
  MaxOut = 2
  Window = 2
  MaxSpurious = 0
SPECIFICATION FairSpec
PROPERTY
  DestructionEnds
CHECK_DEADLOCK FALSE
