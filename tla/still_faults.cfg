SPECIFICATION Spec
CONSTANTS
  Threads = {t1}
  Buffers = {b1, b2}
  NoBuffer = NoBuffer
  Nobody = Nobody
  Sizes = {1, 3}
  Faults = {"enable", "capture", "send", "transmission"}
  MaxFaults = 2
  LateResize = TRUE
INVARIANTS
  UserdataAlive
  HeaderInOnePlace
  NoOverrun
CHECK_DEADLOCK FALSE
