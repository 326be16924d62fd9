SPECIFICATION ConnectionSpec
CONSTANTS
  Frame <- MCFrame
  MaxFrames = 3
INVARIANT InOrder
PROPERTY ClosedAfterEof
CHECK_DEADLOCK FALSE
