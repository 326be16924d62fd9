SPECIFICATION ServerSpec
CONSTANTS
  l1 = l1
  l2 = l2
  s1 = s1
  s2 = s2
  None = None
  Registry = Registry
  Listener <- MCListener
  Slot <- MCSlot
INVARIANT StopsClean
PROPERTY ShutdownEnds
CHECK_DEADLOCK FALSE
