SPECIFICATION FairSpec
CONSTANTS
  Threads = {t1}
  Buffers = {b1, b2, b3}
  NoBuffer = NoBuffer
  Nobody = Nobody
  Sizes = {1, 2, 4}
  Faults = {}
  MaxFaults = 0
  LateResize = FALSE
INVARIANTS
  SemaphoreAlive
  AtMostOneHeaderLost
  PictureComplete
  PortClosed
PROPERTIES
  PictureReturnsIfPooled
CHECK_DEADLOCK FALSE
