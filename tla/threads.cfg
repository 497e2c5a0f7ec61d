SPECIFICATION Spec
CONSTANTS
  Users = {t1, t2}
  Headers = {h1, h2}
  Controllers = {t1}
  Via = {"out", "in"}
  MaxFailures = 1
  FormatEvents = FALSE
  Clients = {t1, t2}
  MaxPayloads = 2
  CreateFails = TRUE
  FreeInAction = FALSE
  ClientThreads = {t1, t2, t3}
  DecoderThreads = {t1, t2}
  ClientWaiters = {w1, w2}
  EventsWaiters = {t1, t2}
  ClientMaxCalls = 4
  SchedulerMaxCalls = 2
  Flags = {f1}
  MaxGets = 2
  Servers = {s1, s2}
  PoolMsgs = {m1, m2}
  MaxSends = 2
  PeekAlways = FALSE
  ClockRequests = {t1, t2}
  Times = {2, 4}
  Scales <- ClockScales
  Slots = 2
  MinDelay = 2
  WaitTime = 3
  UpdateUpper = 1
  DiscontThreshold = 2
  DiscontDuration = 2
  FlipsScale = FALSE
  MaxTicks = 4
  MaxSettings = 2
  Setters = {t1}
  MaxSets = 3
  Serialised = TRUE
  FlushAlways = FALSE
  Outs = 2
  MaxTime = 3
  MaxItems = 2
  DisablesWithEvent = FALSE
  EncoderIns = 2
  DecoderIns = 1
  Slices = 2
  Pieces = {1, 3}
  Rooms = {0, 1, 3}
  MaxRequests = 2
  MaxErrors = 1
  Chunks = 1
  FailAt = {"create"}
  ReleaseAlone = TRUE
  MaxContexts = 1
INVARIANTS
  CountsAreRight
  AliveWhileReferenced
  AnswersMatch
  HeadersKept
PROPERTIES
  CallsReturn
  DueHappens
CHECK_DEADLOCK FALSE
