SPECIFICATION Spec
CONSTANTS
  Shutters = {}
  Measured = {20000, 40000}
  Modes = {"auto", "night", "unknown"}
  Gains = {}
  DefaultGains = "default"
  MeasuredGains = {"default"}
  MaxEvents = 2
  EarlyEvents = FALSE
  Reopen = TRUE
INVARIANTS
  AutoStaysAuto
