SPECIFICATION AppSpec
CONSTANTS
  Shutters = {0, 10000, 400000}
  Measured = {20000, 40000}
  Modes = {"auto", "night", "fixedfps", "unknown"}
  Gains = {"warm"}
  DefaultGains = "default"
  MeasuredGains = {"daylight"}
  MaxEvents = 2
  EarlyEvents = FALSE
  Reopen = FALSE
  Widths = {1, 3, 4, 6}
  Heights = {1, 3, 4}
  AlignW = 4
  AlignH = 4
  Formats = {"YUV420", "GRAY", "BGR", "RGB"}
  UseCv = {FALSE, TRUE}
  LateSize = FALSE
  LateFormat = FALSE
  StaleRetrieve = FALSE
  Outside = Outside
  Unwritten = Unwritten
  VideoSettings = {"sharpness", "brightness", "exposureCompensation",
                   "rotation", "hflip", "vflip", "awb", "ISO"}
  VideoInputs <- VideoArguments
  PictureInputs <- StillArguments
  MaxAttempts = 3
  OpenFirst = TRUE
INVARIANTS
  QualityReachesPicture
CHECK_DEADLOCK FALSE
