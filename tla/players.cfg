SPECIFICATION Spec
CONSTANTS
  OmxPorts = 1
  CommandsBufferNum = 1
  ReaderBufferNum = 2
  MaxCmdBuffers = 2
  Unanswered = 9
  MaxCommands = 2
  Targets = {"Loaded", "Idle", "Executing", "Pause"}
  MaxFailures = 1
  Outs = {1, 2}
  File <- Played
  Framed = {1}
  Room = 2
  MaxSeeks = 1
  MaxFlushes = 1
  MaxErrors = 1
  SeekAnytime = FALSE
  DecoderStream <- Coded
  SinkStream <- Sound
  MediaStream <- Encoded
  Format <- FrameFormat
  Samples <- FrameSamples
  Delay = 1
  DecoderOutNum = 2
  CopyOutNum = 2
  RenderOutNum = 2
  MediaOutNum = 1
  MaxEventFails = 1
  CopyInput <- Copied
  RenderInput <- Bursts
  MaxTooSmall = 1
  MaxToggles = 1
  Ask = 2
  Wrap = 16
  StopWaits = TRUE
  FlushAnytime = FALSE
  EnableAnyway = FALSE
  MaxScales = 2
  MaxTrackFails = 1
  MaxDisables = 2
  MaxFails = 1
  Slots = 2
  MaxRestarts = 1
INVARIANTS
  InOrder
  FormatKnown
PROPERTIES
  CompleteWhenDone
  PlaysToEnd
CHECK_DEADLOCK FALSE
