SPECIFICATION FairSpec
CONSTANTS
  Threads = {t1}
  Buffers = {b1, b2}
  NoBuffer = NoBuffer
  Nobody = Nobody
  Sizes = {2}
  Faults = {}
  MaxFaults = 0
  LateResize = FALSE
PROPERTIES
  PictureReturns
CHECK_DEADLOCK FALSE
