CONSTANTS
  Clients = {owner}
  Owner = owner
  Buffers = {b1, b2, b3}
  Callbacks = {}
  NoBuffer = NoBuffer
  NoCallback = NoCallback
  MaxSendFailures = 1
  Restart = FALSE
  LateRegister = FALSE
SPECIFICATION FairSpec
INVARIANTS RetrieveGrabbedImage AllHeadersCirculate NoNullHeader
PROPERTIES GrabIsServedInTime
