CONSTANTS
  N = 4
  MaxFrames = 9
SPECIFICATION FairSpec
CHECK_DEADLOCK FALSE
INVARIANT SentInOrder
PROPERTIES ImplementsQueue CallsReturn
