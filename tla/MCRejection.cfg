CONSTANTS
  Bodies <- Variants
  Headers <- MCHeaders
  MAX_FRAME_SIZE = 32900
SPECIFICATION Spec
INVARIANT AdjacentRejectionSaysSo
CHECK_DEADLOCK FALSE
