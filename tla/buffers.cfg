SPECIFICATION Spec
CONSTANTS
  Names = {1, 2, 3}
  Handles = {n1, n2, n3}
  SemaphoresBlocks = 1
  VcBlocks = 2
  Subpools = 2
  Extension = 1
  SemaphoresMaxFails = 2
  TablesMaxFails = 1
  PropagationMaxFails = 1
  Created = {v1}
  Foreign = {f1}
  PthreadsSlots = 3
  ClockSlots = 1
  MaxHandlers = 2
  MaxFires = 2
  ForeignExits = FALSE
  MaxFailures = 0
  TablesThreads = {1, 2}
  Commands = {1, 3, 4}
  Help = 2
  Subs <- SubTables
  Prints <- Written
  Size = 6
  Grow = 2
  FirstAlone = TRUE
  MaxRuns = 2
  MaxHeaders = 3
  PoolNoHeader = NoHeader
  MaxRefs = 2
  PoolAllocFails = TRUE
  ResizeInUse = FALSE
  MaxSends = 2
  PauseSendFails = TRUE
  PauseMaxToggles = 3
  FlowMaxToggles = 1
  VcHeaders = {h1, h2, h3}
  WorkerHeaders = {h1, h2}
  ClockHeaders = {h1, h2}
  Versions = {"old", "new"}
  VcMaxEnables = 3
  GraphMaxEnables = 2
  MaxVersion = 2
  Widths = {2, 4}
  Heights = {2, 4, 6}
  SliceHeight = 4
  ShortBy = {0, 1}
  MaxFormats = 2
  MaxFaults = 1
  MaxPosts = 2
  Graphs <- MCGraphs
  PropagationFormats = {1}
  ClockPorts = {p1, p2}
  Length = 2
  ClockSamples = {1, 2}
  ClockMaxEvents = 5
  ParametersMaxEvents = 1
  InputNum = 2
  Streams <- Sent
  FramedIn = {0}
  AtOnce = 2
  MaxFlushes = 1
  MaxErrors = 1
  FlowOutputs = {1, 2}
  OutNum = 1
  MaxDepth = 2
  MaxInputs = 2
  Registry = 2
  FailAt = {"component", "control", "memory", "lock", "lock_port", "cmd_sema", "cmd_thread"}
  MaxHandles = 3
  TightRoom = FALSE
  Sides = {1, 2}
  MaxCalls = 2
  MaxRefusals = 1
  KeepsStride = FALSE
INVARIANTS
  HeadersAccounted
  OrderAndContent
  NothingLeftBehind
  InStep
PROPERTIES
  StepsRight
CHECK_DEADLOCK FALSE
