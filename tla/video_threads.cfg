CONSTANTS
  Clients = {owner, grabber}
  Owner = owner
  Buffers = {b1, b2}
  Callbacks = {f}
  NoBuffer = NoBuffer
  NoCallback = NoCallback
  MaxSendFailures = 1
  Restart = FALSE
  LateRegister = FALSE

SPECIFICATION FairSpec
INVARIANTS TypeOK NoLostWakeup HeaderInOnePlace NoUseAfterFree CallbackGetsItsData
PROPERTIES GrabIsServed OwnerReturns
