CONSTANTS
  Clients = {owner}
  Owner = owner
  Buffers = {b1, b2}
  Callbacks = {}
  NoBuffer = NoBuffer
  NoCallback = NoCallback
  MaxSendFailures = 0
  Restart = TRUE
  LateRegister = FALSE
SPECIFICATION Spec
INVARIANTS NoNullHeader
CHECK_DEADLOCK FALSE
