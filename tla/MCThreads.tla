------------------------------ MODULE MCThreads -----------------------------
(***************************************************************************)
(* Threads that wait for each other, for TLC: MMAL's queues, connected     *)
(* ports, components, clocks and scheduler, the client of the server on    *)
(* VideoCore, VCOS's event flags and messages, and the clients of the JPEG *)
(* encoder and decoder. They share no state: a behaviour runs one of them  *)
(* and leaves the others as they start.  The properties come first, then   *)
(* what is proved of them for every value of the constants.                *)
(***************************************************************************)
EXTENDS Integers, Sequences, FiniteSets, FiniteSetTheorems,
        SequenceTheorems, TLAPS

CONSTANTS Users, Headers, Controllers, Via, MaxFailures, FormatEvents,
          Clients, MaxPayloads, CreateFails, FreeInAction, ClientThreads,
          DecoderThreads, ClientWaiters, EventsWaiters, ClientMaxCalls,
          SchedulerMaxCalls, Flags, MaxGets, Servers, PoolMsgs, MaxSends,
          PeekAlways, ClockRequests, Times, Scales, Slots, MinDelay, WaitTime,
          UpdateUpper, DiscontThreshold, DiscontDuration, FlipsScale,
          MaxTicks, MaxSettings, Setters, MaxSets, Serialised, FlushAlways,
          Outs, MaxTime, MaxItems, DisablesWithEvent, EncoderIns,
          DecoderIns, Slices, Pieces, Rooms, MaxRequests, MaxErrors, Chunks,
          FailAt, ReleaseAlone, MaxContexts

\* The media clock stopped, running, and at double speed backwards.
ClockScales == {-1, 0, 2}

VARIABLES
  part,   \* the part that runs
  list, semaphore, lock, at, has, got, raced, connected, owns, enabled,
  connLock, portLock, pool, poolCb, loc, transit, tunnelAt, op, via, event,
  failures, lost, built, core, pointer, refcount, refcount_ports,
  destruction_pending, componentAt, holds, payloads, destroyed, action,
  componentEvent, quit, clientRefcount, usecount, inited, service, sem,
  inuse, dest, woken, bulkLock, messages, bulks, replies, clientAt, waiter,
  bulk, clientHolds, calls, wrong, useFailed, bulkFailed, events, waiters,
  eventsLock, request, status, actual, suspend, timer, timerLock, routine,
  expiry, eventsAt, gets, serving, messagesList, messagesSem, messagesLock,
  messagesWaiter, waitsem, poolFree, poolSem, messagesAt, msg, messagesDest,
  sends, now, media, scale, active, pending, free, state, atTimer, discont,
  scheduling, thread, stop, clockEvent, clockTimer, limit, settings,
  reference, notifies, sharesEnabled, value, queue, sharesPool, kept,
  sendLock, sharesAt, port, update, header, sets, unsent, flushed, crossed,
  queueIn, queueOut, requests, lastTs, failed, out, held, items, newest,
  time, schedulerActive, schedulerEnabled, clockLock, schedulerPortLock,
  actionLock, place, call, schedulerCalls, atOnce, encoderPlace,
  encoderRequests, size, room, chunk, sent, encoderGot, loop, result, inOn,
  outOn, inPool, outPool, outQueue, sema, encoderStatus, encIn, encOut,
  encoded, made, inCb, outCb, errors, pc, decoderHas, comp, contexts, alive,
  refs, decoderInited, wrappers, decoderPlace, decoderRequest,
  decoderResult, decoderRoom, decoderChunk, copied, decoderInPool,
  decoderOutOn, decoderOutQueue, decoderSema, decoderStatus, inDec, outDec,
  eaten, announced, decoderMade, decoderInCb, decoderOutCb, decoderErrors

queueVars == <<list, semaphore, lock, at, has, got, raced>>
tunnelVars == <<connected, owns, enabled, connLock, portLock, pool,
                poolCb, loc, transit, tunnelAt, op, via, event, failures,
                lost>>
componentVars == <<built, core, pointer, refcount, refcount_ports,
                   destruction_pending, componentAt, holds, payloads,
                   destroyed, action, componentEvent, quit>>
clientVars == <<clientRefcount, usecount, inited, service, sem, inuse,
                dest, woken, bulkLock, messages, bulks, replies, clientAt,
                waiter, bulk, clientHolds, calls, wrong, useFailed,
                bulkFailed>>
eventsVars == <<events, waiters, eventsLock, request, status, actual,
                suspend, timer, timerLock, routine, expiry, eventsAt, gets>>
messagesVars == <<serving, messagesList, messagesSem, messagesLock,
                  messagesWaiter, waitsem, poolFree, poolSem, messagesAt,
                  msg, messagesDest, sends>>
clockVars == <<now, media, scale, active, pending, free, state, atTimer,
               discont, scheduling, thread, stop, clockEvent, clockTimer,
               limit, settings>>
sharesVars == <<reference, notifies, sharesEnabled, value, queue,
                sharesPool, kept, sendLock, sharesAt, port, update,
                header, sets, unsent, flushed, crossed>>
schedulerVars == <<queueIn, queueOut, requests, lastTs, failed, out, held,
                   items, newest, time, schedulerActive, schedulerEnabled,
                   clockLock, schedulerPortLock, actionLock, place, call,
                   schedulerCalls, atOnce>>
encoderVars == <<encoderPlace, encoderRequests, size, room, chunk, sent,
                 encoderGot, loop, result, inOn, outOn, inPool, outPool,
                 outQueue, sema, encoderStatus, encIn, encOut, encoded,
                 made, inCb, outCb, errors>>
decoderVars == <<pc, decoderHas, comp, contexts, alive, refs,
                 decoderInited, wrappers, decoderPlace, decoderRequest,
                 decoderResult, decoderRoom, decoderChunk, copied,
                 decoderInPool, decoderOutOn, decoderOutQueue,
                 decoderSema, decoderStatus, inDec, outDec, eaten,
                 announced, decoderMade, decoderInCb, decoderOutCb,
                 decoderErrors>>

Queue == INSTANCE MmalQueue
Tunnel == INSTANCE MmalTunnel WITH at <- tunnelAt
Component == INSTANCE MmalComponent WITH at <- componentAt, event <-
  componentEvent
Client == INSTANCE VcClient WITH refcount <- clientRefcount, at <- clientAt,
  holds <- clientHolds, Threads <- ClientThreads, Waiters <- ClientWaiters,
  MaxCalls <- ClientMaxCalls
Events == INSTANCE VcosEventFlags WITH lock <- eventsLock, at <- eventsAt,
  Waiters <- EventsWaiters
Messages == INSTANCE VcosMessages WITH list <- messagesList, sem <-
  messagesSem, lock <- messagesLock, waiter <- messagesWaiter, at <-
  messagesAt, dest <- messagesDest
Clock == INSTANCE MmalClock WITH event <- clockEvent, timer <- clockTimer,
  Requests <- ClockRequests
Shares == INSTANCE ClockPort WITH enabled <- sharesEnabled, pool <-
  sharesPool, at <- sharesAt
Scheduler == INSTANCE Scheduler WITH active <- schedulerActive, enabled <-
  schedulerEnabled, portLock <- schedulerPortLock, calls <- schedulerCalls,
  MaxCalls <- SchedulerMaxCalls
Encoder == INSTANCE JpegEncode WITH place <- encoderPlace, requests <-
  encoderRequests, got <- encoderGot, status <- encoderStatus, Ins <-
  EncoderIns
Decoder == INSTANCE JpegDecode WITH has <- decoderHas, inited <-
  decoderInited, place <- decoderPlace, request <- decoderRequest, result <-
  decoderResult, room <- decoderRoom, chunk <- decoderChunk, inPool <-
  decoderInPool, outOn <- decoderOutOn, outQueue <- decoderOutQueue, sema <-
  decoderSema, status <- decoderStatus, made <- decoderMade, inCb <-
  decoderInCb, outCb <- decoderOutCb, errors <- decoderErrors, Threads <-
  DecoderThreads, Ins <- DecoderIns

ASSUME MCThreadsConstants ==
  /\ Tunnel!PortCalls
  /\ Events!FreeLock
  /\ Component!ActionApart
  /\ Client!WaitersApart
  /\ Client!ThreadsApart
  /\ Messages!NamesApart
  /\ Shares!ClientApart
  /\ Encoder!JpegNumbers
  /\ Encoder!JpegSizes
  /\ Encoder!JpegBounds

Init ==
  /\ part \in {"Queue", "Tunnel", "Component", "Client", "Events",
               "Messages", "Clock", "Shares", "Scheduler", "Encoder",
               "Decoder"}
  /\ Queue!QInit
  /\ Tunnel!TInit
  /\ Component!MInit
  /\ Client!CInit
  /\ Events!EInit
  /\ Messages!MInit
  /\ Clock!KInit
  /\ Shares!CPInit
  /\ Scheduler!SInit
  /\ Encoder!JInit
  /\ Decoder!JDInit
  /\ part # "Queue" => has[CHOOSE u \in Users : TRUE] = Headers
  /\ part # "Messages" => serving = Servers
  /\ part # "Shares" => reference = {"in"} /\ notifies = {}

QueueStep ==
  /\ part = "Queue" /\ Queue!QNext
  /\ UNCHANGED <<part, tunnelVars, componentVars, clientVars, eventsVars,
                 messagesVars, clockVars, sharesVars, schedulerVars,
                 encoderVars, decoderVars>>
TunnelStep ==
  /\ part = "Tunnel" /\ Tunnel!TNext
  /\ UNCHANGED <<part, queueVars, componentVars, clientVars, eventsVars,
                 messagesVars, clockVars, sharesVars, schedulerVars,
                 encoderVars, decoderVars>>
ComponentStep ==
  /\ part = "Component" /\ Component!MNext
  /\ UNCHANGED <<part, queueVars, tunnelVars, clientVars, eventsVars,
                 messagesVars, clockVars, sharesVars, schedulerVars,
                 encoderVars, decoderVars>>
ClientStep ==
  /\ part = "Client" /\ Client!CNext
  /\ UNCHANGED <<part, queueVars, tunnelVars, componentVars, eventsVars,
                 messagesVars, clockVars, sharesVars, schedulerVars,
                 encoderVars, decoderVars>>
EventsStep ==
  /\ part = "Events" /\ Events!ENext
  /\ UNCHANGED <<part, queueVars, tunnelVars, componentVars, clientVars,
                 messagesVars, clockVars, sharesVars, schedulerVars,
                 encoderVars, decoderVars>>
MessagesStep ==
  /\ part = "Messages" /\ Messages!MNext
  /\ UNCHANGED <<part, queueVars, tunnelVars, componentVars, clientVars,
                 eventsVars, clockVars, sharesVars, schedulerVars,
                 encoderVars, decoderVars>>
ClockStep ==
  /\ part = "Clock" /\ Clock!KNext
  /\ UNCHANGED <<part, queueVars, tunnelVars, componentVars, clientVars,
                 eventsVars, messagesVars, sharesVars, schedulerVars,
                 encoderVars, decoderVars>>
SharesStep ==
  /\ part = "Shares" /\ Shares!CPNext
  /\ UNCHANGED <<part, queueVars, tunnelVars, componentVars, clientVars,
                 eventsVars, messagesVars, clockVars, schedulerVars,
                 encoderVars, decoderVars>>
SchedulerStep ==
  /\ part = "Scheduler" /\ Scheduler!SNext
  /\ UNCHANGED <<part, queueVars, tunnelVars, componentVars, clientVars,
                 eventsVars, messagesVars, clockVars, sharesVars,
                 encoderVars, decoderVars>>
EncoderStep ==
  /\ part = "Encoder" /\ Encoder!JNext
  /\ UNCHANGED <<part, queueVars, tunnelVars, componentVars, clientVars,
                 eventsVars, messagesVars, clockVars, sharesVars,
                 schedulerVars, decoderVars>>
DecoderStep ==
  /\ part = "Decoder" /\ Decoder!JDNext
  /\ UNCHANGED <<part, queueVars, tunnelVars, componentVars, clientVars,
                 eventsVars, messagesVars, clockVars, sharesVars,
                 schedulerVars, encoderVars>>

Next == QueueStep \/ TunnelStep \/ ComponentStep \/ ClientStep \/ EventsStep
     \/ MessagesStep \/ ClockStep \/ SharesStep \/ SchedulerStep \/ EncoderStep
     \/ DecoderStep
vars == <<part, queueVars, tunnelVars, componentVars, clientVars,
          eventsVars, messagesVars, clockVars, sharesVars, schedulerVars,
          encoderVars, decoderVars>>

\* Threads inside a call run on, timers expire, and components and VideoCore
\* give back what they have; nothing is asked of the threads that call.  Where
\* a part does not run none of its fair actions is enabled.
Spec ==
  /\ Init /\ [][Next]_vars
  /\ \A u \in Users : WF_queueVars(part = "Queue" /\ Queue!GetTake(u))
  /\ \A u \in Users : WF_queueVars(part = "Queue" /\ Queue!WaitPost(u))
  /\ \A u \in Users : WF_queueVars(part = "Queue" /\ at[u] = "get" /\ (Queue!GetNull(u) \/ Queue!GetLock(u)))
  /\ \A c \in Controllers : WF_tunnelVars(part = "Tunnel" /\ Tunnel!ControlStep(c))
  /\ \A h \in Headers : WF_tunnelVars(part = "Tunnel" /\ Tunnel!OutputDone(h))
  /\ \A h \in Headers : WF_tunnelVars(part = "Tunnel" /\ Tunnel!Forward(h))
  /\ \A h \in Headers : WF_tunnelVars(part = "Tunnel" /\ Tunnel!FlushedBack(h))
  /\ \A h \in Headers : WF_tunnelVars(part = "Tunnel" /\ Tunnel!InputDone(h))
  /\ WF_tunnelVars(part = "Tunnel" /\ Tunnel!FormatCommit)
  /\ \A c \in Clients : WF_componentVars(part = "Component" /\ Component!ReleaseCheck(c))
  /\ \A t \in Component!Threads : WF_componentVars(part = "Component" /\ Component!InCall(t))
  /\ WF_componentVars(part = "Component" /\ Component!ActionWake)
  /\ WF_componentVars(part = "Component" /\ Component!ActionDone)
  /\ WF_clientVars(part = "Client" /\ Client!VideoCore)
  /\ WF_clientVars(part = "Client" /\ Client!Reply)
  /\ \A t \in ClientThreads : WF_clientVars(part = "Client" /\ Client!Step(t))
  /\ \A t \in ClientThreads : WF_clientVars(part = "Client" /\ Client!GetWaiter(t))
  /\ \A t \in EventsWaiters : WF_eventsVars(part = "Events" /\ Events!Calls(t))
  /\ \A t \in EventsWaiters : WF_eventsVars(part = "Events" /\ Events!TimerRuns(t))
  /\ \A t \in Messages!Threads : WF_messagesVars(part = "Messages" /\ Messages!Runs(t))
  /\ WF_clockVars(part = "Clock" /\ Clock!Worker)
  /\ WF_clockVars(part = "Clock" /\ Clock!TimerFires)
  /\ \A t \in Setters : SF_sharesVars(part = "Shares" /\ Shares!SetterRuns(t))
  /\ WF_sharesVars(part = "Shares" /\ Shares!ClientRuns)
  /\ \A p \in Shares!Ports : WF_sharesVars(part = "Shares" /\ Shares!ComponentReturns(p))
  /\ WF_schedulerVars(part = "Scheduler" /\ Scheduler!Action)
  /\ WF_schedulerVars(part = "Scheduler" /\ Scheduler!Clock)
  /\ WF_schedulerVars(part = "Scheduler" /\ Scheduler!ClientRuns)
  /\ WF_encoderVars(part = "Encoder" /\ Encoder!Codec)
  /\ WF_encoderVars(part = "Encoder" /\ Encoder!EncodeSlice)
  /\ WF_encoderVars(part = "Encoder" /\ Encoder!InSignal)
  /\ WF_encoderVars(part = "Encoder" /\ Encoder!EncodePiece)
  /\ WF_encoderVars(part = "Encoder" /\ Encoder!OutSignal)
  /\ WF_decoderVars(part = "Decoder" /\ Decoder!Decode)
  /\ WF_decoderVars(part = "Decoder" /\ Decoder!Eat)
  /\ WF_decoderVars(part = "Decoder" /\ Decoder!Announce)
  /\ WF_decoderVars(part = "Decoder" /\ Decoder!MakeSlice)
  /\ WF_decoderVars(part = "Decoder" /\ Decoder!InSignal)
  /\ WF_decoderVars(part = "Decoder" /\ Decoder!OutSignal)

-----------------------------------------------------------------------------
(* Properties                                                              *)

\* What a thread waits on is right at every moment, however calls interleave:
\* mmal_queue's semaphore and length, a port's count of headers in transit,
\* and in VCOS's event flags the waiters a set must wake, each woken once.
CountsAreRight ==
  /\ Queue!SemaphoreCounts
  /\ Queue!NullOnlyIfRaced
  /\ Tunnel!TransitIsRight
  /\ Events!NoMissedWake
  /\ Events!WokenOnce

\* Nothing is used after it is freed: a component and its ports while somebody
\* refers to them, the pool of two connected ports, the service of the client
\* of VideoCore, a waiter's request for flags, the contexts of the JPEG decoder.
AliveWhileReferenced ==
  /\ Component!AliveWhileReferenced
  /\ Tunnel!PoolDestroyedWhole
  /\ Tunnel!PoolLostOnlyByFailure
  /\ Client!ServiceInUse
  /\ Events!RequestAlive
  /\ Decoder!ContextAlive

\* What is answered is what was asked: a reply reaches the request it answers,
\* a server that was woken finds a message, a sender that waits wakes when its
\* own message is done, and a picture coded or decoded is received whole.
AnswersMatch ==
  /\ Client!RepliesAndTransfersMatch
  /\ Messages!SomethingThere
  /\ Messages!SenderWaits
  /\ Encoder!EncodedWhole
  /\ Decoder!DecodedWhole

\* Headers that wait for their time are neither lost nor reordered: in the
\* scheduler's queues, and in the events two clock ports pass each other,
\* whose times agree.
HeadersKept ==
  /\ Scheduler!OrderKept
  /\ Scheduler!HeadersHere
  /\ Shares!SharesKept
  /\ Shares!FollowerAgrees
  /\ Shares!HeaderOnce

\* Every call that waits returns: for a header, a port's headers in transit, a
\* reply, flags before a timeout, a message, a request of the clock whose time
\* has come, a flush, a picture.
CallsReturn ==
  /\ Queue!GetReturns
  /\ Tunnel!CallsReturn
  /\ Client!RequestsReturn
  /\ Events!TimedGetReturns
  /\ Messages!CallsReturn
  /\ Shares!CallsReturn
  /\ Clock!DueIsServed
  /\ Scheduler!CallsReturn
  /\ Encoder!EncodeReturns
  /\ Decoder!DecodeReturns

\* What is due happens, in time: a component is destroyed once nobody refers to
\* it, and the clock's requests are served in the order it comes to their times.
DueHappens == Component!DestroyedWhenUnreferenced /\ Clock!FiredInOrder

-----------------------------------------------------------------------------
(* VCOS's event flags, for any threads and flags.                          *)

EventsType ==
  /\ waiters \subseteq EventsWaiters
  /\ request \in [EventsWaiters -> Events!Requests \cup {Events!NoRequest}]
  /\ status \in [EventsWaiters -> {"success", "again"}]
  /\ actual \in [EventsWaiters -> SUBSET Flags]
  /\ suspend \in [EventsWaiters -> Nat]
  /\ timer \in [EventsWaiters -> {"none", "off", "set"}]
  /\ timerLock \in [EventsWaiters -> {"thread", Events!Free}]
  /\ routine \in [EventsWaiters -> BOOLEAN]
  /\ expiry \in [EventsWaiters -> {"idle", "expired", "post", "done"}]
  /\ eventsAt \in [EventsWaiters -> {"idle", "timer", "wait", "woken"}]
  /\ events \subseteq Flags

\* A thread that does not wait has no timer and no post.
IdleWaiter(t) ==
  eventsAt[t] = "idle" =>
    t \notin waiters /\ suspend[t] = 0 /\ timer[t] # "set" /\ expiry[t] = "idle"

\* Between joining the list and setting its timer a thread has the lock.
TimerWaiter(t) ==
  eventsAt[t] = "timer" =>
    /\ t \in waiters /\ eventsLock = t /\ suspend[t] = 0
    /\ timer[t] # "set" /\ expiry[t] = "idle"
    /\ request[t].timed /\ status[t] = "again"

\* While it sleeps it is in the list, or there is one post for it, or its
\* timer's thread is about to make one.
SleepingWaiter(t) ==
  eventsAt[t] = "wait" =>
    /\ t \in waiters =>
         suspend[t] = 0 /\ expiry[t] \in {"idle", "expired"} /\ status[t] = "again"
    /\ t \notin waiters =>
         /\ suspend[t] = (IF expiry[t] = "post" THEN 0 ELSE 1)
         /\ status[t] = "again" => request[t].timed

\* It has taken the only post when it goes on.
WokenWaiter(t) ==
  eventsAt[t] = "woken" =>
    /\ t \notin waiters /\ suspend[t] = 0 /\ expiry[t] # "post"
    /\ status[t] = "again" => request[t].timed

\* What it was given matches, and a timer that runs is its own.
GivenWaiter(t) ==
  eventsAt[t] \in {"wait", "woken"} =>
    /\ status[t] = "success" => Events!Matches(request[t], actual[t])
    /\ timer[t] = "set" \/ expiry[t] # "idle" => request[t].timed /\ routine[t]

TimerOnce(t) ==
  /\ timer[t] = "set" => expiry[t] = "idle"
  /\ (timerLock[t] = Events!Free) <=> (expiry[t] = "idle")

WaiterInv(t) ==
  /\ IdleWaiter(t) /\ TimerWaiter(t) /\ SleepingWaiter(t) /\ WokenWaiter(t)
  /\ GivenWaiter(t) /\ TimerOnce(t)

EventsInv ==
  /\ EventsType
  /\ \A t \in waiters : ~Events!Matches(request[t], events)
  /\ \A t \in EventsWaiters : WaiterInv(t)

\* More flags match at least what fewer match.
LEMMA MatchesMore ==
  ASSUME NEW r, NEW few, NEW many, few \subseteq many, Events!Matches(r, few)
  PROVE  Events!Matches(r, many)
BY DEF Events!Matches

LEMMA EventsStart ==
  ASSUME Events!EInit PROVE EventsInv
BY DEF Events!EInit, Events!NoRequest, Events!Free, EventsInv, EventsType,
  WaiterInv, IdleWaiter, TimerWaiter, SleepingWaiter, WokenWaiter, GivenWaiter,
  TimerOnce

LEMMA EventsMove ==
  ASSUME EventsInv, Events!FreeLock, [Events!ENext]_eventsVars
  PROVE  EventsInv'
<1> USE DEF EventsInv, EventsType
<1> DEFINE Kept(t) ==
      /\ UNCHANGED <<eventsAt[t], suspend[t], timer[t], expiry[t], request[t],
                     status[t], actual[t], routine[t], timerLock[t]>>
      /\ (t \in waiters') <=> (t \in waiters)
      /\ eventsAt[t] = "timer" => eventsLock' = t
<1>1. ASSUME NEW t \in EventsWaiters, Kept(t)
      PROVE  WaiterInv(t)'
  BY <1>1 DEF WaiterInv, IdleWaiter, TimerWaiter, SleepingWaiter, WokenWaiter,
    GivenWaiter, TimerOnce
<1> HIDE DEF Kept
<1>2. ASSUME NEW t \in EventsWaiters, NEW r \in Events!Requests, Events!GetNow(t, r)
      PROVE  EventsInv'
  <2>1. events' \subseteq events
    BY <1>2 DEF Events!GetNow
  <2>2. \A u \in waiters' : ~Events!Matches(request'[u], events')
    BY <1>2, <2>1, MatchesMore DEF Events!GetNow, Events!waitVars
  <2>3. \A u \in EventsWaiters : Kept(u)
    BY <1>2 DEF Kept, WaiterInv, TimerWaiter, Events!GetNow, Events!waitVars,
      Events!timerVars
  <2>4. EventsType'
    BY <1>2 DEF Events!GetNow, Events!waitVars, Events!timerVars
  <2> QED
    BY <1>1, <2>2, <2>3, <2>4
<1>3. ASSUME NEW t \in EventsWaiters, NEW r \in Events!Requests,
             Events!GetWaits(t, r)
      PROVE  EventsInv'
  <2>1. EventsType'
    BY <1>3 DEF Events!GetWaits, Events!Goto, Events!timerVars
  <2>2. \A u \in waiters' : ~Events!Matches(request'[u], events')
    BY <1>3 DEF Events!GetWaits
  <2>3. ASSUME NEW u \in EventsWaiters, u # t
        PROVE  WaiterInv(u)'
    <3>1. Kept(u)
      BY <1>3, <2>3, <2>1 DEF Kept, WaiterInv, TimerWaiter, Events!GetWaits,
        Events!Goto, Events!timerVars, Events!FreeLock
    <3> QED
      BY <1>1, <3>1
  <2>4. WaiterInv(t)'
    BY <1>3, <2>1 DEF WaiterInv, IdleWaiter, TimerWaiter, SleepingWaiter,
      WokenWaiter, GivenWaiter, TimerOnce, Events!GetWaits, Events!Goto,
      Events!timerVars
  <2> QED
    BY <2>1, <2>2, <2>3, <2>4
<1>4. ASSUME NEW t \in EventsWaiters, Events!Calls(t)
      PROVE  EventsInv'
  <2>1. EventsType'
    <3>1. CASE Events!TimerSet(t)
      BY <3>1 DEF Events!TimerSet, Events!Goto, Events!waitVars
    <3>2. CASE Events!SemWait(t)
      BY <3>2 DEF Events!SemWait, Events!Goto, Events!timerVars
    <3>3. CASE Events!Cancel(t)
      BY <3>3 DEF Events!Cancel, Events!Goto
    <3> QED
      BY <1>4, <3>1, <3>2, <3>3 DEF Events!Calls
  <2>2. WaiterInv(t)'
    <3>1. WaiterInv(t)
      OBVIOUS
    <3>2. CASE Events!TimerSet(t)
      BY <2>1, <3>1, <3>2 DEF Events!TimerSet, Events!Goto, Events!waitVars,
        WaiterInv, IdleWaiter, TimerWaiter, SleepingWaiter, WokenWaiter,
        GivenWaiter, TimerOnce
    <3>3. CASE Events!SemWait(t)
      BY <2>1, <3>1, <3>3 DEF Events!SemWait, Events!Goto, Events!timerVars,
        WaiterInv, IdleWaiter, TimerWaiter, SleepingWaiter, WokenWaiter,
        GivenWaiter, TimerOnce
    <3>4. CASE Events!Cancel(t)
      BY <2>1, <3>1, <3>4 DEF Events!Cancel, Events!Goto, WaiterInv, IdleWaiter,
        TimerWaiter, SleepingWaiter, WokenWaiter, GivenWaiter, TimerOnce
    <3> QED
      BY <1>4, <3>2, <3>3, <3>4 DEF Events!Calls
  <2>3. \A u \in waiters' : ~Events!Matches(request'[u], events')
    BY <1>4 DEF Events!Calls, Events!TimerSet, Events!SemWait, Events!Cancel,
      Events!waitVars, WaiterInv, WokenWaiter
  <2>4. ASSUME NEW u \in EventsWaiters, u # t
        PROVE  WaiterInv(u)'
    <3>1. Kept(u)
      BY <1>4, <2>4 DEF Kept, WaiterInv, TimerWaiter, Events!Calls,
        Events!TimerSet, Events!SemWait, Events!Cancel, Events!Goto,
        Events!waitVars, Events!timerVars
    <3> QED
      BY <1>1, <3>1
  <2> QED
    BY <2>1, <2>2, <2>3, <2>4
<1>5. ASSUME NEW t \in EventsWaiters, Events!TimerRuns(t)
      PROVE  EventsInv'
  <2> USE DEF Events!Fires, Events!Expired, Events!ExpiredPosts,
        Events!ExpiryDone, Events!waitVars
  <2>1. EventsType'
    <3>1. CASE Events!Fires(t)
      BY <3>1
    <3>2. CASE Events!Expired(t)
      BY <3>2
    <3>3. CASE Events!ExpiredPosts(t)
      BY <3>3
    <3>4. CASE Events!ExpiryDone(t)
      BY <3>4
    <3> QED
      BY <1>5, <3>1, <3>2, <3>3, <3>4 DEF Events!TimerRuns
  <2>2. WaiterInv(t)'
    <3>1. WaiterInv(t)
      OBVIOUS
    <3> USE DEF WaiterInv, IdleWaiter, TimerWaiter, SleepingWaiter, WokenWaiter,
          GivenWaiter, TimerOnce
    <3>2. CASE Events!Fires(t)
      BY <2>1, <3>1, <3>2 DEF Events!Free
    <3>3. CASE Events!Expired(t)
      BY <2>1, <3>1, <3>3 DEF Events!FreeLock
    <3>4. CASE Events!ExpiredPosts(t)
      BY <2>1, <3>1, <3>4
    <3>5. CASE Events!ExpiryDone(t)
      BY <2>1, <3>1, <3>5
    <3> QED
      BY <1>5, <3>2, <3>3, <3>4, <3>5 DEF Events!TimerRuns
  <2>3. \A u \in waiters' : ~Events!Matches(request'[u], events')
    BY <1>5 DEF Events!TimerRuns
  <2>4. ASSUME NEW u \in EventsWaiters, u # t
        PROVE  WaiterInv(u)'
    <3>1. Kept(u)
      BY <1>5, <2>4 DEF Kept, WaiterInv, TimerWaiter, Events!TimerRuns
    <3> QED
      BY <1>1, <3>1
  <2> QED
    BY <2>1, <2>2, <2>3, <2>4
<1>6. ASSUME NEW bits \in SUBSET Flags, Events!Set(bits)
      PROVE  EventsInv'
  <2> DEFINE chosen == {t \in waiters : Events!Matches(request[t], bits)}
  <2>1. Events!Wakes(chosen, bits) /\ eventsLock = Events!Free
    BY <1>6 DEF Events!Set
  <2>2. events' \subseteq bits /\ chosen \subseteq waiters
    BY <2>1 DEF Events!Wakes
  <2>3. EventsType'
    BY <2>1, <2>2 DEF Events!Wakes, Events!timerVars
  <2>4. \A u \in waiters' : ~Events!Matches(request'[u], events')
    BY <2>1, <2>2, MatchesMore DEF Events!Wakes
  <2>5. ASSUME NEW t \in EventsWaiters, t \notin chosen
        PROVE  WaiterInv(t)'
    <3>1. Kept(t)
      BY <2>1, <2>5 DEF Kept, WaiterInv, TimerWaiter, Events!FreeLock,
        Events!Wakes, Events!timerVars
    <3> QED
      BY <1>1, <3>1
  <2>6. ASSUME NEW t \in EventsWaiters, t \in chosen
        PROVE  WaiterInv(t)'
    <3>1. WaiterInv(t) /\ t \in waiters /\ Events!Matches(request[t], bits)
      BY <2>6
    <3>2. eventsAt[t] = "wait"
      BY <2>1, <3>1 DEF WaiterInv, IdleWaiter, TimerWaiter, WokenWaiter,
        Events!FreeLock
    <3>3. /\ suspend'[t] = suspend[t] + 1 /\ actual'[t] = bits
          /\ status'[t] = "success" /\ t \notin waiters'
          /\ UNCHANGED <<request, timer, timerLock, routine, expiry, eventsAt>>
      BY <2>1, <2>6 DEF Events!Wakes, Events!timerVars
    <3> HIDE DEF chosen
    <3> QED
      BY <3>1, <3>2, <3>3 DEF WaiterInv, IdleWaiter, TimerWaiter,
        SleepingWaiter, WokenWaiter, GivenWaiter, TimerOnce
  <2> QED
    BY <2>3, <2>4, <2>5, <2>6
<1>7. CASE UNCHANGED eventsVars
  <2>1. \A t \in EventsWaiters : Kept(t)
    BY <1>7 DEF Kept, eventsVars, WaiterInv, TimerWaiter
  <2> QED
    BY <1>1, <1>7, <2>1 DEF eventsVars
<1>8. ASSUME Events!SetOr \/ Events!SetAnd
      PROVE  EventsInv'
  <2>1. \E bits \in SUBSET Flags : Events!Set(bits)
    BY <1>8 DEF Events!SetOr, Events!SetAnd
  <2> QED
    BY <1>6, <2>1
<1> QED
  BY <1>2, <1>3, <1>4, <1>5, <1>7, <1>8 DEF Events!ENext

\* The invariant gives what the runs check of the flags.
LEMMA EventsRight ==
  ASSUME EventsInv
  PROVE  Events!NoMissedWake /\ Events!WokenOnce /\ Events!RequestAlive
BY DEF EventsInv, EventsType, WaiterInv, IdleWaiter, TimerWaiter, SleepingWaiter,
  WokenWaiter, GivenWaiter, TimerOnce, Events!NoMissedWake, Events!WokenOnce,
  Events!RequestAlive

-----------------------------------------------------------------------------
(* Connected ports, for any threads that control them and any headers, when *)
(* at most one call fails in a component.                                   *)

\* At most one call fails in a component: after a second failure the pool may
\* be destroyed with headers outside it.
OneFailure == MaxFailures \in {0, 1}

TunnelPlaces ==
  {"idle", "lock1", "lock2", "connect", "pool", "enable_in", "enable_out",
   "start", "disable_out", "disable_in", "undo_other", "undo",
   "destroy_pool", "disconnect", "unlock"}

TunnelType ==
  /\ enabled \in [Tunnel!Ports -> BOOLEAN]
  /\ connLock \in [Tunnel!Ports -> Controllers \cup {Tunnel!Nobody}]
  /\ portLock \in [Tunnel!Ports -> Controllers \cup {Tunnel!Nobody}]
  /\ pool \in Tunnel!Ports \cup {"none"}
  /\ loc \in [Headers -> {"none", "queue", "out", "forward", "release", "in"}]
  /\ transit \in [Tunnel!Ports -> Int]
  /\ tunnelAt \in [Controllers -> TunnelPlaces]
  /\ op \in [Controllers -> {"none", "connect", "enable", "disable", "disconnect"}]
  /\ via \in [Controllers -> Tunnel!Ports]
  /\ failures \in {0, 1}

\* c has both locks of the connection.
Locked(c) == tunnelAt[c] \notin {"idle", "lock1", "lock2"}

\* The port takes no header, and nobody waits for those it has.
Closed(p) == ~enabled[p] /\ portLock[p] = Tunnel!Nobody

\* One thread at a time is between the locks and the unlocks of a connection.
OneLocks ==
  \A c \in Controllers :
    /\ tunnelAt[c] = "lock2" => connLock[via[c]] = c
    /\ Locked(c) => \A p \in Tunnel!Ports : connLock[p] = c

\* c is where mmal_port_disable_internal(p) is called.
Disabling(c, p) ==
  \/ tunnelAt[c] = "disable_out" /\ p = "out"
  \/ tunnelAt[c] = "disable_in" /\ p = "in"
  \/ tunnelAt[c] = "undo_other" /\ p # via[c]
  \/ tunnelAt[c] = "undo" /\ p = via[c]

DisablingLocks ==
  \A p \in Tunnel!Ports :
    portLock[p] # Tunnel!Nobody => ~enabled[p] /\ Disabling(portLock[p], p)

\* The ports are closed one after the other, and both before the pool goes; an
\* enable is undone only after a failure.
InTurn(c) ==
  /\ tunnelAt[c] = "disable_in" => Closed("out")
  /\ tunnelAt[c] = "undo" => Closed(Tunnel!Other(via[c]))
  /\ tunnelAt[c] = "destroy_pool" => Closed("in") /\ Closed("out")
  /\ tunnelAt[c] \in {"undo_other", "undo"} => failures > 0

\* A closed port has no header; headers are where there is a pool.
ClosedIsEmpty == \A p \in Tunnel!Ports : Closed(p) => transit[p] = 0
PoolHasHeaders == \A h \in Headers : (loc[h] = "none") <=> (pool = "none")

\* Until a component fails, the two ports are enabled together, and there is a
\* pool only while they are.
Steady == enabled["out"] = enabled["in"] /\ (pool # "none" => enabled["out"])
Settled(c) == tunnelAt[c] \in {"idle", "lock1", "lock2", "connect", "pool",
                               "disconnect", "unlock"}

Calm(c) ==
  /\ Locked(c) /\ Settled(c) => Steady
  /\ tunnelAt[c] = "pool" => ~enabled[via[c]]
  /\ tunnelAt[c] = "lock2" /\ op[c] = "enable" => ~enabled[via[c]]
  /\ tunnelAt[c] = "enable_out" => enabled["in"]
  /\ tunnelAt[c] = "start" => enabled["in"] /\ enabled["out"]

WithoutFailure ==
  failures = 0 =>
    /\ ~lost
    /\ (\A c \in Controllers : Settled(c)) => Steady
    /\ \A c \in Controllers : Calm(c)

TunnelInv ==
  /\ TunnelType /\ OneLocks /\ DisablingLocks /\ ClosedIsEmpty /\ PoolHasHeaders
  /\ \A c \in Controllers : InTurn(c)
  /\ WithoutFailure /\ Tunnel!TransitIsRight

\* The cardinality the module of the ports means is that of FiniteSets.
LEMMA TunnelCardinality == \A S : Tunnel!Cardinality(S) = Cardinality(S)
BY Zenon DEF Tunnel!Cardinality, Cardinality

InOut == Tunnel!Placed({"out", "forward", "release"})
InIn == Tunnel!Placed({"in"})

LEMMA TransitCounts ==
  Tunnel!TransitIsRight
    <=> transit["out"] = Cardinality(InOut) /\ transit["in"] = Cardinality(InIn)
BY TunnelCardinality, Zenon DEF Tunnel!TransitIsRight, InOut, InIn

LEMMA TransitCountsNext ==
  Tunnel!TransitIsRight'
    <=> transit'["out"] = Cardinality(InOut') /\ transit'["in"] = Cardinality(InIn')
BY TunnelCardinality, Zenon DEF Tunnel!TransitIsRight, InOut, InIn

LEMMA PlacedFinite ==
  ASSUME IsFiniteSet(Headers), NEW places
  PROVE  /\ IsFiniteSet(Tunnel!Placed(places))
         /\ Cardinality(Tunnel!Placed(places)) \in Nat
<1>1. IsFiniteSet(Tunnel!Placed(places))
  BY FS_Subset DEF Tunnel!Placed
<1> QED
  BY <1>1, FS_CardinalityType

\* A header that moves from one place to another is counted where it goes.
LEMMA HeaderMoves ==
  ASSUME IsFiniteSet(Headers), TunnelType, NEW h \in Headers, NEW to,
         loc' = [loc EXCEPT ![h] = to], NEW places
  PROVE  /\ loc[h] \in places /\ to \in places
              => Tunnel!Placed(places)' = Tunnel!Placed(places)
         /\ loc[h] \notin places /\ to \notin places
              => Tunnel!Placed(places)' = Tunnel!Placed(places)
         /\ loc[h] \notin places /\ to \in places
              => Cardinality(Tunnel!Placed(places)')
                   = Cardinality(Tunnel!Placed(places)) + 1
         /\ loc[h] \in places /\ to \notin places
              => Cardinality(Tunnel!Placed(places)')
                   = Cardinality(Tunnel!Placed(places)) - 1
<1>1. IsFiniteSet(Tunnel!Placed(places))
  BY PlacedFinite
<1>2. ASSUME loc[h] \in places, to \in places
      PROVE  Tunnel!Placed(places)' = Tunnel!Placed(places)
  BY <1>2 DEF Tunnel!Placed, TunnelType
<1>3. ASSUME loc[h] \notin places, to \notin places
      PROVE  Tunnel!Placed(places)' = Tunnel!Placed(places)
  BY <1>3 DEF Tunnel!Placed, TunnelType
<1>4. ASSUME loc[h] \notin places, to \in places
      PROVE  Cardinality(Tunnel!Placed(places)')
               = Cardinality(Tunnel!Placed(places)) + 1
  <2>1. /\ Tunnel!Placed(places)' = Tunnel!Placed(places) \cup {h}
        /\ h \notin Tunnel!Placed(places)
    BY <1>4 DEF Tunnel!Placed, TunnelType
  <2> QED
    BY <1>1, <2>1, FS_AddElement
<1>5. ASSUME loc[h] \in places, to \notin places
      PROVE  Cardinality(Tunnel!Placed(places)')
               = Cardinality(Tunnel!Placed(places)) - 1
  <2>1. /\ Tunnel!Placed(places)' = Tunnel!Placed(places) \ {h}
        /\ h \in Tunnel!Placed(places)
    BY <1>5 DEF Tunnel!Placed, TunnelType
  <2> QED
    BY <1>1, <2>1, FS_RemoveElement
<1> QED
  BY <1>2, <1>3, <1>4, <1>5

\* The others are where they take their first lock, or call nothing.
Alone(c) ==
  \A d \in Controllers : d # c => tunnelAt[d] \in {"idle", "lock1"}

\* The locks of the ports, as c has them.
PortLocksOf(c) ==
  \A p \in Tunnel!Ports :
    \/ portLock[p] = Tunnel!Nobody
    \/ portLock[p] = c /\ ~enabled[p] /\ Disabling(c, p)

LEMMA LockedAlone ==
  ASSUME TunnelInv, Tunnel!PortCalls, NEW c \in Controllers, Locked(c)
  PROVE  Alone(c) /\ PortLocksOf(c)
<1>1. Alone(c)
  <2> SUFFICES ASSUME NEW d \in Controllers, d # c
               PROVE  tunnelAt[d] \in {"idle", "lock1"}
    BY DEF Alone
  <2>1. \A p \in Tunnel!Ports : connLock[p] = c
    BY DEF TunnelInv, OneLocks
  <2>2. tunnelAt[d] # "lock2"
    BY <2>1 DEF TunnelInv, TunnelType, OneLocks
  <2>3. ~Locked(d)
    BY <2>1 DEF TunnelInv, OneLocks, Tunnel!Ports
  <2> QED
    BY <2>2, <2>3 DEF Locked
<1>2. ASSUME NEW p \in Tunnel!Ports, portLock[p] # Tunnel!Nobody
      PROVE  portLock[p] = c /\ ~enabled[p] /\ Disabling(c, p)
  <2>1. portLock[p] \in Controllers /\ ~enabled[p] /\ Disabling(portLock[p], p)
    BY <1>2 DEF TunnelInv, TunnelType, DisablingLocks
  <2>2. portLock[p] = c
    BY <1>1, <2>1 DEF Alone, Disabling
  <2> QED
    BY <2>1, <2>2
<1> QED
  BY <1>1, <1>2 DEF PortLocksOf

LEMMA HeadersStay ==
  ASSUME TunnelInv, UNCHANGED <<loc, transit>>
  PROVE  Tunnel!TransitIsRight'
BY TransitCounts, TransitCountsNext DEF TunnelInv, InOut, InIn, Tunnel!Placed

\* What is left to show of a step of the thread that has both locks.
LEMMA HolderMoves ==
  ASSUME TunnelInv, Tunnel!PortCalls, NEW c \in Controllers, Locked(c),
         UNCHANGED <<connLock, via, op>>, TunnelType', Locked(c)', Alone(c)',
         PortLocksOf(c)', InTurn(c)', failures' = 0 => ~lost' /\ Calm(c)',
         ClosedIsEmpty', PoolHasHeaders', Tunnel!TransitIsRight'
  PROVE  TunnelInv'
<1>1. OneLocks'
  BY DEF TunnelInv, OneLocks, Alone, Locked
<1>2. DisablingLocks'
  BY DEF PortLocksOf, DisablingLocks
<1>3. ASSUME NEW d \in Controllers, d # c
      PROVE  InTurn(d)' /\ Calm(d)'
  BY <1>3 DEF Alone, InTurn, Calm, Locked
<1>4. ASSUME \A d \in Controllers : Settled(d)', Calm(c)'
      PROVE  Steady'
  BY <1>4 DEF Calm
<1> QED
  BY <1>1, <1>2, <1>3, <1>4 DEF TunnelInv, WithoutFailure

\* A step that leaves the headers and the locks of the ports alone.
LEMMA HolderGoes ==
  ASSUME TunnelInv, Tunnel!PortCalls, NEW c \in Controllers, Locked(c),
         NEW next \in TunnelPlaces \ {"idle", "lock1", "lock2"},
         Tunnel!Goto(c, next)
  PROVE  /\ tunnelAt' = [tunnelAt EXCEPT ![c] = next] /\ tunnelAt'[c] = next
         /\ tunnelAt' \in [Controllers -> TunnelPlaces]
         /\ Locked(c)' /\ Alone(c)' /\ UNCHANGED <<via, op>>
<1>1. Alone(c)
  BY LockedAlone
<1> QED
  BY <1>1 DEF TunnelInv, TunnelType, Tunnel!Goto, Locked, Alone

LEMMA FailsOnce ==
  ASSUME TunnelInv, OneFailure, Tunnel!Fails
  PROVE  failures' = 1
BY DEF TunnelInv, TunnelType, OneFailure, Tunnel!Fails

\* mmal_port_connect, and the end of mmal_port_disconnect.
LEMMA ConnectMoves ==
  ASSUME TunnelInv, Tunnel!PortCalls, OneFailure, NEW c \in Controllers,
         Tunnel!Connect(c) \/ Tunnel!Disconnect(c)
  PROVE  TunnelInv'
<1>1. Locked(c) /\ Tunnel!Goto(c, "unlock") /\ tunnelAt[c] \in {"connect", "disconnect"}
  BY DEF Tunnel!Connect, Tunnel!Disconnect, Locked
<1>2. /\ UNCHANGED <<enabled, connLock, portLock, loc, transit, pool, lost>>
      /\ failures' \in {failures, 1}
  BY DEF Tunnel!Connect, Tunnel!Disconnect, Tunnel!Fails, Tunnel!lockVars,
    Tunnel!headVars, TunnelInv, TunnelType, OneFailure
<1>3. /\ tunnelAt'[c] = "unlock" /\ Locked(c)' /\ Alone(c)' /\ UNCHANGED <<via, op>>
      /\ tunnelAt' \in [Controllers -> TunnelPlaces]
  BY <1>1, HolderGoes DEF TunnelPlaces
<1>4. TunnelType'
  BY <1>2, <1>3 DEF TunnelInv, TunnelType
<1>5. PortLocksOf(c)' /\ InTurn(c)'
  BY <1>1, <1>2, <1>3, LockedAlone DEF PortLocksOf, Disabling, InTurn
<1>6. failures' = 0 => ~lost' /\ Calm(c)'
  <2>1. failures' = 0 => failures = 0
    BY <1>2 DEF TunnelInv, TunnelType
  <2>2. failures = 0 => ~lost /\ Steady
    BY <1>1 DEF TunnelInv, WithoutFailure, Calm, Settled
  <2> QED
    BY <1>2, <1>3, <2>1, <2>2 DEF Calm, Steady
<1>7. ClosedIsEmpty' /\ PoolHasHeaders' /\ Tunnel!TransitIsRight'
  BY <1>2, HeadersStay DEF TunnelInv, ClosedIsEmpty, PoolHasHeaders, Closed
<1> QED
  BY <1>1, <1>2, <1>3, <1>4, <1>5, <1>6, <1>7, HolderMoves

\* mmal_port_connection_enable.
LEMMA PoolMoves ==
  ASSUME TunnelInv, Tunnel!PortCalls, OneFailure, IsFiniteSet(Headers), NEW c \in Controllers,
         Tunnel!CreatePool(c)
  PROVE  TunnelInv'
<1> USE DEF Tunnel!CreatePool
<1>1. /\ Locked(c) /\ tunnelAt[c] = "pool"
      /\ UNCHANGED <<enabled, connLock, portLock>>
      /\ \E next \in {"enable_in", "unlock"} : Tunnel!Goto(c, next)
  BY DEF Locked, Tunnel!lockVars
<1>2. /\ tunnelAt'[c] \in {"enable_in", "unlock"}
      /\ Locked(c)' /\ Alone(c)' /\ UNCHANGED <<via, op>>
      /\ tunnelAt' \in [Controllers -> TunnelPlaces]
  BY <1>1, HolderGoes DEF TunnelPlaces
<1>3. PortLocksOf(c)' /\ InTurn(c)'
  BY <1>1, <1>2, LockedAlone DEF PortLocksOf, Disabling, InTurn
<1>5. failures = 0 => ~lost /\ Steady /\ ~enabled["out"] /\ pool = "none"
  <2>1. failures = 0 => ~lost /\ Steady /\ ~enabled[via[c]]
    BY <1>1 DEF TunnelInv, WithoutFailure, Calm, Settled
  <2> QED
    BY <2>1 DEF Steady, TunnelInv, TunnelType, Tunnel!Ports
<1>6. CASE UNCHANGED <<pool, loc, transit, lost>> /\ failures' = failures
  <2>1. TunnelType'
    BY <1>1, <1>2, <1>6 DEF TunnelInv, TunnelType
  <2>2. ClosedIsEmpty' /\ PoolHasHeaders' /\ Tunnel!TransitIsRight'
    BY <1>1, <1>6, HeadersStay DEF TunnelInv, ClosedIsEmpty, PoolHasHeaders, Closed
  <2>3. failures' = 0 => ~lost' /\ Calm(c)'
    BY <1>1, <1>2, <1>5, <1>6 DEF Calm, Steady
  <2> QED
    BY <1>1, <1>2, <1>3, <2>1, <2>2, <2>3, HolderMoves
<1>7. CASE UNCHANGED <<pool, loc, transit, lost>> /\ Tunnel!Fails
  <2>0. failures' = 1
    BY <1>7, FailsOnce
  <2>1. TunnelType' /\ failures' # 0
    BY <1>1, <1>2, <1>7, <2>0 DEF TunnelInv, TunnelType
  <2>2. ClosedIsEmpty' /\ PoolHasHeaders' /\ Tunnel!TransitIsRight'
    BY <1>1, <1>7, HeadersStay DEF TunnelInv, ClosedIsEmpty, PoolHasHeaders, Closed
  <2> QED
    BY <1>1, <1>2, <1>3, <2>1, <2>2, HolderMoves
<1>8. CASE /\ pool' \in Tunnel!Ports /\ failures' = failures
           /\ loc' = [h \in Headers |-> "queue"]
           /\ transit' = [p \in Tunnel!Ports |-> 0]
           /\ lost' = (lost \/ pool # "none")
           /\ tunnelAt'[c] = "enable_in"
  <2>1. TunnelType'
    <3>1. /\ loc' \in [Headers -> {"none", "queue", "out", "forward", "release", "in"}]
          /\ transit' \in [Tunnel!Ports -> Int] /\ pool' \in Tunnel!Ports
          /\ failures' = failures
      BY <1>8
    <3> QED
      BY <1>1, <1>2, <3>1 DEF TunnelInv, TunnelType
  <2>2. ClosedIsEmpty' /\ PoolHasHeaders'
    BY <1>8 DEF ClosedIsEmpty, PoolHasHeaders, Tunnel!Ports
  <2>3. Tunnel!TransitIsRight'
    <3>1. InOut' = {} /\ InIn' = {}
      BY <1>8 DEF InOut, InIn, Tunnel!Placed
    <3> QED
      BY <1>8, <3>1, FS_EmptySet, TransitCountsNext DEF Tunnel!Ports
  <2>4. failures' = 0 => ~lost' /\ Calm(c)'
    BY <1>5, <1>8 DEF Calm, Settled
  <2> QED
    BY <1>1, <1>2, <1>3, <2>1, <2>2, <2>3, <2>4, HolderMoves
<1> QED
  BY <1>1, <1>6, <1>7, <1>8, HolderGoes DEF Tunnel!headVars, TunnelPlaces

\* mmal_port_enable_internal.
LEMMA EnableMoves ==
  ASSUME TunnelInv, Tunnel!PortCalls, OneFailure, NEW c \in Controllers, NEW p \in Tunnel!Ports,
         Tunnel!EnablePort(c, p)
  PROVE  TunnelInv'
<1> USE DEF Tunnel!EnablePort
<1>1. /\ Locked(c) /\ tunnelAt[c] = (IF p = "in" THEN "enable_in" ELSE "enable_out")
      /\ UNCHANGED <<connLock, portLock, loc, transit, pool, lost>>
      /\ \E next \in {"undo_other", "enable_out", "start"} : Tunnel!Goto(c, next)
  BY DEF Locked, Tunnel!lockVars, Tunnel!headVars
<1>2. /\ tunnelAt'[c] \in {"undo_other", "enable_out", "start"}
      /\ Locked(c)' /\ Alone(c)' /\ UNCHANGED <<via, op>>
      /\ tunnelAt' \in [Controllers -> TunnelPlaces]
  BY <1>1, HolderGoes DEF TunnelPlaces
<1>3. \A q \in Tunnel!Ports : portLock[q] = Tunnel!Nobody
  BY <1>1, LockedAlone DEF PortLocksOf, Disabling
<1>4. Tunnel!TransitIsRight' /\ PoolHasHeaders'
  BY <1>1, HeadersStay DEF TunnelInv, PoolHasHeaders
<1>5. CASE Tunnel!Fails /\ UNCHANGED enabled /\ Tunnel!Goto(c, "undo_other")
  <2>1. tunnelAt'[c] = "undo_other"
    BY <1>1, <1>5, HolderGoes DEF TunnelPlaces
  <2>0. failures' = 1
    BY <1>5, FailsOnce
  <2>2. TunnelType' /\ failures' # 0 /\ failures' > 0
    BY <1>1, <1>2, <1>5, <2>0 DEF TunnelInv, TunnelType
  <2>3. PortLocksOf(c)' /\ InTurn(c)' /\ ClosedIsEmpty'
    BY <1>1, <1>3, <1>5, <2>1, <2>2 DEF PortLocksOf, InTurn, TunnelInv, ClosedIsEmpty,
      Closed
  <2> QED
    BY <1>1, <1>2, <1>4, <2>2, <2>3, HolderMoves
<1>6. CASE /\ enabled' = [enabled EXCEPT ![p] = TRUE] /\ UNCHANGED failures
           /\ Tunnel!Goto(c, IF p = "in" THEN "enable_out" ELSE "start")
  <2>1. tunnelAt'[c] = (IF p = "in" THEN "enable_out" ELSE "start")
    BY <1>1, <1>6, HolderGoes DEF TunnelPlaces
  <2>2. TunnelType'
    BY <1>1, <1>2, <1>6 DEF TunnelInv, TunnelType
  <2>3. PortLocksOf(c)' /\ InTurn(c)'
    BY <1>1, <1>3, <2>1 DEF PortLocksOf, InTurn
  <2>4. ClosedIsEmpty'
    BY <1>1, <1>6 DEF TunnelInv, TunnelType, ClosedIsEmpty, Closed
  <2>5. failures' = 0 => ~lost' /\ Calm(c)'
    <3>1. failures = 0 => ~lost /\ (p = "out" => enabled["in"])
      BY <1>1 DEF TunnelInv, WithoutFailure, Calm
    <3>2. enabled'[p] /\ (p = "out" => enabled'["in"] = enabled["in"])
      BY <1>6 DEF TunnelInv, TunnelType, Tunnel!Ports
    <3>3. p = "in" \/ p = "out"
      BY DEF Tunnel!Ports
    <3>4. failures = 0 => Calm(c)'
      BY <2>1, <3>1, <3>2, <3>3 DEF Calm, Settled
    <3> QED
      BY <1>1, <1>6, <3>1, <3>4
  <2> QED
    BY <1>1, <1>2, <1>4, <2>2, <2>3, <2>4, <2>5, HolderMoves
<1> QED
  BY <1>5, <1>6

\* A header that is sent to a port is counted there; the port takes it.
LEMMA SendMoves ==
  ASSUME TunnelInv, IsFiniteSet(Headers), NEW h \in Headers, loc[h] = "queue",
         Tunnel!Send("out", h), UNCHANGED <<enabled, portLock, pool>>
  PROVE  /\ loc' \in [Headers -> {"none", "queue", "out", "forward", "release", "in"}]
         /\ transit' \in [Tunnel!Ports -> Int]
         /\ ClosedIsEmpty' /\ PoolHasHeaders' /\ Tunnel!TransitIsRight'
<1>1. /\ enabled["out"] /\ loc' = [loc EXCEPT ![h] = "out"]
      /\ transit' = [transit EXCEPT !["out"] = @ + 1]
      /\ TunnelType /\ ClosedIsEmpty /\ PoolHasHeaders
  BY DEF Tunnel!Send, TunnelInv
<1>2. /\ Cardinality(InOut') = Cardinality(InOut) + 1 /\ InIn' = InIn
      /\ transit["out"] = Cardinality(InOut) /\ transit["in"] = Cardinality(InIn)
  <2>1. Cardinality(InOut') = Cardinality(InOut) + 1
    BY <1>1, HeaderMoves DEF InOut
  <2>2. InIn' = InIn
    <3>1. loc[h] \notin {"in"} /\ "out" \notin {"in"}
      OBVIOUS
    <3> QED
      BY <1>1, <3>1, HeaderMoves DEF InIn
  <2> QED
    BY <2>1, <2>2, TransitCounts DEF TunnelInv
<1>3. /\ transit'["out"] = transit["out"] + 1 /\ transit'["in"] = transit["in"]
      /\ transit' \in [Tunnel!Ports -> Int]
  BY <1>1 DEF TunnelType, Tunnel!Ports
<1>4. Tunnel!TransitIsRight'
  BY <1>2, <1>3, TransitCountsNext
<1>5. ClosedIsEmpty'
  BY <1>1, <1>3 DEF ClosedIsEmpty, Closed, Tunnel!Ports
<1>6. PoolHasHeaders'
  BY <1>1 DEF PoolHasHeaders, TunnelType
<1> QED
  BY <1>1, <1>3, <1>4, <1>5, <1>6 DEF TunnelType

\* mmal_port_populate_from_pool.
LEMMA StartMoves ==
  ASSUME TunnelInv, Tunnel!PortCalls, OneFailure, IsFiniteSet(Headers),
         NEW c \in Controllers, Tunnel!Start(c)
  PROVE  TunnelInv'
<1>1. /\ Locked(c) /\ tunnelAt[c] = "start"
      /\ UNCHANGED <<enabled, connLock, portLock, pool, lost>>
  BY DEF Tunnel!Start, Locked, Tunnel!lockVars, Tunnel!portVars
<1>2. \A p \in Tunnel!Ports : portLock[p] = Tunnel!Nobody
  BY <1>1, LockedAlone DEF PortLocksOf, Disabling
<1>3. /\ \/ UNCHANGED <<loc, transit>>
         \/ \E h \in Headers : loc[h] = "queue" /\ Tunnel!Send("out", h)
      /\ \/ UNCHANGED <<tunnelAt, op, via, failures>>
         \/ Tunnel!Goto(c, "unlock") /\ UNCHANGED failures
         \/ Tunnel!Goto(c, "undo_other") /\ Tunnel!Fails
  BY DEF Tunnel!Start, Tunnel!headVars
<1>4. /\ loc' \in [Headers -> {"none", "queue", "out", "forward", "release", "in"}]
      /\ transit' \in [Tunnel!Ports -> Int]
      /\ ClosedIsEmpty' /\ PoolHasHeaders' /\ Tunnel!TransitIsRight'
  <2>1. CASE UNCHANGED <<loc, transit>>
    BY <1>1, <2>1, HeadersStay DEF TunnelInv, TunnelType, ClosedIsEmpty, Closed,
      PoolHasHeaders
  <2>2. CASE \E h \in Headers : loc[h] = "queue" /\ Tunnel!Send("out", h)
    BY <1>1, <2>2, SendMoves
  <2> QED
    BY <1>3, <2>1, <2>2
<1>5. failures = 0 => ~lost /\ enabled["in"] /\ enabled["out"]
  BY <1>1 DEF TunnelInv, WithoutFailure, Calm
<1>6. CASE UNCHANGED <<tunnelAt, op, via, failures>>
  <2>1. TunnelType'
    BY <1>1, <1>4, <1>6 DEF TunnelInv, TunnelType
  <2>2. Locked(c)' /\ Alone(c)' /\ PortLocksOf(c)' /\ InTurn(c)'
    BY <1>1, <1>2, <1>6, LockedAlone DEF Locked, Alone, PortLocksOf, InTurn
  <2>3. failures' = 0 => ~lost' /\ Calm(c)'
    BY <1>1, <1>5, <1>6 DEF Calm, Settled
  <2> QED
    BY <1>1, <1>4, <1>6, <2>1, <2>2, <2>3, HolderMoves
<1>7. CASE Tunnel!Goto(c, "unlock") /\ UNCHANGED failures
  <2>1. /\ tunnelAt'[c] = "unlock" /\ Locked(c)' /\ Alone(c)' /\ UNCHANGED <<via, op>>
        /\ tunnelAt' \in [Controllers -> TunnelPlaces]
    BY <1>1, <1>7, HolderGoes DEF TunnelPlaces
  <2>2. TunnelType'
    BY <1>1, <1>4, <1>7, <2>1 DEF TunnelInv, TunnelType
  <2>3. PortLocksOf(c)' /\ InTurn(c)'
    BY <1>1, <1>2, <2>1 DEF PortLocksOf, InTurn
  <2>4. failures' = 0 => ~lost' /\ Calm(c)'
    BY <1>1, <1>5, <1>7, <2>1 DEF Calm, Steady
  <2> QED
    BY <1>1, <1>4, <2>1, <2>2, <2>3, <2>4, HolderMoves
<1>8. CASE Tunnel!Goto(c, "undo_other") /\ Tunnel!Fails
  <2>1. /\ tunnelAt'[c] = "undo_other" /\ Locked(c)' /\ Alone(c)' /\ UNCHANGED <<via, op>>
        /\ tunnelAt' \in [Controllers -> TunnelPlaces]
    BY <1>1, <1>8, HolderGoes DEF TunnelPlaces
  <2>2. failures' = 1
    BY <1>8, FailsOnce
  <2>3. TunnelType' /\ failures' # 0
    BY <1>1, <1>4, <2>1, <2>2 DEF TunnelInv, TunnelType
  <2>4. PortLocksOf(c)' /\ InTurn(c)'
    BY <1>1, <1>2, <2>1, <2>2 DEF PortLocksOf, InTurn
  <2> QED
    BY <1>1, <1>4, <2>1, <2>3, <2>4, HolderMoves
<1> QED
  BY <1>3, <1>6, <1>7, <1>8

\* mmal_port_disable_internal of one port, in a call that goes on at next or,
\* if the component fails, at error.  While headers in transit are waited for
\* the port is not enabled and its lock is held.
LEMMA DisableMoves ==
  ASSUME TunnelInv, Tunnel!PortCalls, OneFailure, NEW c \in Controllers,
         NEW p \in Tunnel!Ports, Locked(c), Disabling(c, p), NEW here,
         tunnelAt[c] = here,
         NEW next \in {"disable_in", "undo", "destroy_pool"}, NEW error,
         \/ error = "unlock" /\ here \in {"disable_out", "disable_in"}
         \/ failures > 0,
         here = "disable_out" => next = "disable_in",
         next = "disable_in" => p = "out",
         next = "undo" => p = Tunnel!Other(via[c]),
         next = "destroy_pool" => Closed(Tunnel!Other(p)),
         next = "undo" => failures > 0,
         Tunnel!Disable(c, p, here, next, error)
  PROVE  TunnelInv'
<1>1. UNCHANGED <<connLock, loc, transit, pool, lost>>
  BY DEF Tunnel!Disable, Tunnel!DisablePort, Tunnel!DisableWait, Tunnel!headVars,
    Tunnel!portVars
<1>2. Tunnel!TransitIsRight' /\ PoolHasHeaders'
  BY <1>1, HeadersStay DEF TunnelInv, PoolHasHeaders
<1>3. PortLocksOf(c) /\ Alone(c)
  BY LockedAlone
<1>4. /\ \A q \in Tunnel!Ports : q # p => portLock[q] = Tunnel!Nobody
      /\ tunnelAt[c] \in {"disable_out", "disable_in", "undo_other", "undo"}
  BY <1>3 DEF PortLocksOf, Disabling, TunnelInv, TunnelType, Tunnel!Ports
<1>5. /\ p \in {"in", "out"} /\ via[c] \in {"in", "out"}
      /\ Tunnel!Other("in") = "out" /\ Tunnel!Other("out") = "in"
  BY DEF Tunnel!Ports, Tunnel!Other, TunnelInv, TunnelType
<1>6. ASSUME Tunnel!Goto(c, next), UNCHANGED <<enabled, failures>>, Closed(p)',
             \A q \in Tunnel!Ports : q # p => UNCHANGED portLock[q],
             portLock' \in [Tunnel!Ports -> Controllers \cup {Tunnel!Nobody}],
             transit[p] = 0
      PROVE  TunnelInv'
  <2>1. /\ tunnelAt'[c] = next /\ Locked(c)' /\ Alone(c)' /\ UNCHANGED <<via, op>>
        /\ tunnelAt' \in [Controllers -> TunnelPlaces]
    BY <1>6, HolderGoes DEF TunnelPlaces
  <2>2. TunnelType'
    BY <1>1, <1>6, <2>1 DEF TunnelInv, TunnelType
  <2>3. PortLocksOf(c)' /\ ClosedIsEmpty'
    BY <1>1, <1>4, <1>6 DEF PortLocksOf, TunnelInv, ClosedIsEmpty, Closed
  <2>4. InTurn(c)'
    <3>1. ASSUME next = "destroy_pool"
          PROVE  Closed("in")' /\ Closed("out")'
      BY <1>5, <1>6, <3>1 DEF Closed, Tunnel!Ports
    <3>2. next = "undo" => Closed(Tunnel!Other(via[c]))' /\ failures' > 0
      BY <1>6, <2>1
    <3> QED
      BY <1>6, <2>1, <3>1, <3>2 DEF InTurn
  <2>5. failures' = 0 => ~lost' /\ Calm(c)'
    <3>1. failures = 0 => ~lost
      BY DEF TunnelInv, WithoutFailure
    <3>2. Calm(c)'
      BY <2>1 DEF Calm, Settled
    <3> QED
      BY <1>1, <1>6, <3>1, <3>2
  <2> QED
    BY <1>1, <1>2, <2>1, <2>2, <2>3, <2>4, <2>5, HolderMoves
<1>7. CASE /\ portLock[p] = Tunnel!Nobody /\ ~enabled[p]
           /\ Tunnel!Goto(c, next) /\ UNCHANGED <<enabled, portLock, failures>>
  <2>1. Closed(p) /\ transit[p] = 0
    BY <1>7 DEF Closed, TunnelInv, ClosedIsEmpty
  <2> QED
    BY <1>6, <1>7, <2>1 DEF Closed, TunnelInv, TunnelType
<1>8. CASE /\ portLock[p] = Tunnel!Nobody /\ enabled[p] /\ Tunnel!Fails
           /\ Tunnel!Goto(c, error) /\ UNCHANGED <<enabled, portLock>>
  <2>1. failures' = 1 /\ failures = 0 /\ error = "unlock"
    BY <1>8, FailsOnce DEF Tunnel!Fails, OneFailure, TunnelInv, TunnelType
  <2>2. /\ tunnelAt'[c] = "unlock" /\ Locked(c)' /\ Alone(c)' /\ UNCHANGED <<via, op>>
        /\ tunnelAt' \in [Controllers -> TunnelPlaces]
    BY <1>8, <2>1, HolderGoes DEF TunnelPlaces
  <2>3. TunnelType' /\ failures' # 0
    BY <1>1, <1>8, <2>1, <2>2 DEF TunnelInv, TunnelType
  <2>4. PortLocksOf(c)' /\ InTurn(c)' /\ ClosedIsEmpty'
    BY <1>1, <1>4, <1>8, <2>2 DEF PortLocksOf, InTurn, TunnelInv, ClosedIsEmpty, Closed
  <2> QED
    BY <1>1, <1>2, <2>2, <2>3, <2>4, HolderMoves
<1>9. CASE /\ portLock[p] = Tunnel!Nobody /\ enabled' = [enabled EXCEPT ![p] = FALSE]
           /\ portLock' = [portLock EXCEPT ![p] = c]
           /\ UNCHANGED <<tunnelAt, op, via, failures>>
  <2>1. TunnelType'
    BY <1>1, <1>9 DEF TunnelInv, TunnelType
  <2>2. Locked(c)' /\ Alone(c)' /\ PortLocksOf(c)'
    BY <1>3, <1>4, <1>9 DEF Locked, Alone, PortLocksOf, Disabling, TunnelInv, TunnelType
  <2>3. InTurn(c)'
    <3>1. InTurn(c)
      BY DEF TunnelInv
    <3>2. /\ tunnelAt[c] = "disable_in" => p = "in"
          /\ tunnelAt[c] = "undo" => p = via[c]
      BY DEF Disabling
    <3>3. \A q \in Tunnel!Ports : q # p => enabled'[q] = enabled[q] /\ UNCHANGED portLock[q]
      BY <1>9 DEF TunnelInv, TunnelType
    <3> QED
      BY <1>4, <1>5, <1>9, <3>1, <3>2, <3>3 DEF InTurn, Closed, Tunnel!Ports
  <2>4. ClosedIsEmpty'
    BY <1>1, <1>9 DEF TunnelInv, TunnelType, ClosedIsEmpty, Closed, Tunnel!PortCalls
  <2>5. failures' = 0 => ~lost' /\ Calm(c)'
    <3>1. failures = 0 => ~lost
      BY DEF TunnelInv, WithoutFailure
    <3>2. Calm(c)'
      BY <1>4, <1>9 DEF Calm, Settled
    <3> QED
      BY <1>1, <1>9, <3>1, <3>2
  <2> QED
    BY <1>1, <1>2, <1>9, <2>1, <2>2, <2>3, <2>4, <2>5, HolderMoves
<1>10. CASE Tunnel!DisableWait(c, p, here, next)
  <2>1. /\ portLock[p] = c /\ transit[p] = 0 /\ Tunnel!Goto(c, next)
        /\ portLock' = [portLock EXCEPT ![p] = Tunnel!Nobody]
        /\ UNCHANGED <<enabled, failures>>
    BY <1>10 DEF Tunnel!DisableWait, Tunnel!portVars
  <2>2. ~enabled[p]
    BY <1>3, <2>1 DEF PortLocksOf, Tunnel!PortCalls
  <2>3. /\ Closed(p)' /\ \A q \in Tunnel!Ports : q # p => UNCHANGED portLock[q]
        /\ portLock' \in [Tunnel!Ports -> Controllers \cup {Tunnel!Nobody}]
    BY <2>1, <2>2 DEF Closed, TunnelInv, TunnelType
  <2> QED
    BY <1>6, <2>1, <2>3
<1> QED
  BY <1>7, <1>8, <1>9, <1>10 DEF Tunnel!Disable, Tunnel!DisablePort, Tunnel!callVars

\* mmal_port_disable, mmal_port_disconnect, and the error path of mmal_port_enable.
LEMMA DisableCallsMove ==
  ASSUME TunnelInv, Tunnel!PortCalls, OneFailure, NEW c \in Controllers,
         Tunnel!DisableBoth(c) \/ Tunnel!Undo(c)
  PROVE  TunnelInv'
<1>1. InTurn(c) /\ via[c] \in {"in", "out"}
  BY DEF TunnelInv, TunnelType, Tunnel!Ports
<1>2. ASSUME NEW p, NEW here, NEW next, NEW error,
             Tunnel!Disable(c, p, here, next, error)
      PROVE  tunnelAt[c] = here
  BY <1>2 DEF Tunnel!Disable, Tunnel!DisablePort, Tunnel!DisableWait
<1>3. CASE Tunnel!Disable(c, "out", "disable_out", "disable_in", "unlock")
  <2>1. tunnelAt[c] = "disable_out"
    BY <1>2, <1>3
  <2>2. Locked(c) /\ Disabling(c, "out") /\ "out" \in Tunnel!Ports
    BY <2>1 DEF Locked, Disabling, Tunnel!Ports
  <2> QED
    BY <1>3, <2>1, <2>2, DisableMoves
<1>4. CASE Tunnel!Disable(c, "in", "disable_in", "destroy_pool", "unlock")
  <2>1. tunnelAt[c] = "disable_in"
    BY <1>2, <1>4
  <2>2. /\ Locked(c) /\ Disabling(c, "in") /\ "in" \in Tunnel!Ports
        /\ Closed(Tunnel!Other("in"))
    BY <1>1, <2>1 DEF Locked, Disabling, Tunnel!Ports, Tunnel!Other, InTurn
  <2> QED
    BY <1>4, <2>1, <2>2, DisableMoves
<1>5. CASE Tunnel!Disable(c, Tunnel!Other(via[c]), "undo_other", "undo", "undo")
  <2>1. tunnelAt[c] = "undo_other"
    BY <1>2, <1>5
  <2>2. /\ Locked(c) /\ Disabling(c, Tunnel!Other(via[c])) /\ failures > 0
        /\ Tunnel!Other(via[c]) \in Tunnel!Ports
    BY <1>1, <2>1 DEF Locked, Disabling, Tunnel!Ports, Tunnel!Other, InTurn
  <2> QED
    BY <1>5, <2>1, <2>2, DisableMoves
<1>6. CASE Tunnel!Disable(c, via[c], "undo", "destroy_pool", "destroy_pool")
  <2>1. tunnelAt[c] = "undo"
    BY <1>2, <1>6
  <2>2. /\ Locked(c) /\ Disabling(c, via[c]) /\ failures > 0
        /\ via[c] \in Tunnel!Ports /\ Closed(Tunnel!Other(via[c]))
    BY <1>1, <2>1 DEF Locked, Disabling, Tunnel!Ports, Tunnel!Other, InTurn
  <2> QED
    BY <1>6, <2>1, <2>2, DisableMoves
<1> QED
  BY <1>3, <1>4, <1>5, <1>6 DEF Tunnel!DisableBoth, Tunnel!Undo

\* mmal_port_connection_disable: the ports are closed, so nothing is in transit.
LEMMA DestroyMoves ==
  ASSUME TunnelInv, Tunnel!PortCalls, IsFiniteSet(Headers), NEW c \in Controllers,
         Tunnel!DestroyPool(c)
  PROVE  TunnelInv'
<1>1. /\ Locked(c) /\ tunnelAt[c] = "destroy_pool"
      /\ UNCHANGED <<enabled, connLock, portLock, transit, failures, lost>>
      /\ pool' = "none" /\ loc' = [h \in Headers |-> "none"]
      /\ \E next \in {"disconnect", "unlock"} : Tunnel!Goto(c, next)
  BY DEF Tunnel!DestroyPool, Locked, Tunnel!lockVars
<1>2. /\ tunnelAt'[c] \in {"disconnect", "unlock"}
      /\ Locked(c)' /\ Alone(c)' /\ UNCHANGED <<via, op>>
      /\ tunnelAt' \in [Controllers -> TunnelPlaces]
  BY <1>1, HolderGoes DEF TunnelPlaces
<1>3. Closed("in") /\ Closed("out") /\ transit["in"] = 0 /\ transit["out"] = 0
  BY <1>1 DEF TunnelInv, InTurn, ClosedIsEmpty, Tunnel!Ports
<1>4. TunnelType'
  <2>1. loc' \in [Headers -> {"none", "queue", "out", "forward", "release", "in"}]
    BY <1>1
  <2> QED
    BY <1>1, <1>2, <2>1 DEF TunnelInv, TunnelType
<1>5. PortLocksOf(c)' /\ InTurn(c)'
  BY <1>1, <1>2, LockedAlone DEF PortLocksOf, Disabling, InTurn
<1>6. ClosedIsEmpty' /\ PoolHasHeaders'
  BY <1>1 DEF TunnelInv, ClosedIsEmpty, Closed, PoolHasHeaders
<1>7. Tunnel!TransitIsRight'
  <2>1. InOut' = {} /\ InIn' = {}
    BY <1>1 DEF InOut, InIn, Tunnel!Placed
  <2> QED
    BY <1>1, <1>3, <2>1, FS_EmptySet, TransitCountsNext
<1>8. failures' = 0 => ~lost' /\ Calm(c)'
  <2>1. failures = 0 => ~lost
    BY DEF TunnelInv, WithoutFailure
  <2>2. Calm(c)'
    BY <1>1, <1>2, <1>3 DEF Calm, Steady, Closed, TunnelInv, TunnelType, Tunnel!Ports
  <2> QED
    BY <1>1, <2>1, <2>2
<1> QED
  BY <1>1, <1>2, <1>4, <1>5, <1>6, <1>7, <1>8, HolderMoves

\* The pool's headers are all in its queue then.
LEMMA PoolIsWhole ==
  ASSUME TunnelInv, IsFiniteSet(Headers)
  PROVE  Tunnel!PoolDestroyedWhole
<1> SUFFICES ASSUME NEW c \in Controllers, tunnelAt[c] = "destroy_pool", pool # "none"
             PROVE  Tunnel!Placed({"queue"}) = Headers
  BY DEF Tunnel!PoolDestroyedWhole
<1>1. transit["in"] = 0 /\ transit["out"] = 0
  BY DEF TunnelInv, InTurn, ClosedIsEmpty, Tunnel!Ports
<1>2. InOut = {} /\ InIn = {}
  <2>1. IsFiniteSet(InOut) /\ IsFiniteSet(InIn)
    BY PlacedFinite DEF InOut, InIn
  <2>2. Cardinality(InOut) = 0 /\ Cardinality(InIn) = 0
    BY <1>1, TransitCounts DEF TunnelInv
  <2> QED
    BY <2>1, <2>2, FS_EmptySet
<1> QED
  BY <1>2 DEF InOut, InIn, Tunnel!Placed, TunnelInv, TunnelType, PoolHasHeaders

\* mmal_port_connect, _enable, _disable and _disconnect are called, and take
\* their locks.
LEMMA CallMoves ==
  ASSUME TunnelInv, Tunnel!PortCalls, NEW c \in Controllers,
         NEW what \in {"connect", "enable", "disable", "disconnect"},
         NEW p \in Via, Tunnel!Call(c, what, p)
  PROVE  TunnelInv'
<1> USE DEF Tunnel!Call, Tunnel!portVars, Tunnel!lockVars, Tunnel!headVars
<1>1. /\ tunnelAt[c] = "idle" /\ tunnelAt' = [tunnelAt EXCEPT ![c] = "lock1"]
      /\ op' = [op EXCEPT ![c] = what] /\ via' = [via EXCEPT ![c] = p]
      /\ UNCHANGED <<enabled, connLock, portLock, pool, loc, transit, failures, lost>>
      /\ p \in Tunnel!Ports
  BY DEF Tunnel!PortCalls
<1>2. TunnelType'
  BY <1>1 DEF TunnelInv, TunnelType, TunnelPlaces
<1>3. /\ tunnelAt'[c] = "lock1"
      /\ \A d \in Controllers : d # c =>
           UNCHANGED <<tunnelAt[d], op[d], via[d]>>
  BY <1>1 DEF TunnelInv, TunnelType
<1>4. OneLocks'
  BY <1>1, <1>3 DEF TunnelInv, OneLocks, Locked
<1>5. DisablingLocks'
  BY <1>1, <1>3 DEF TunnelInv, TunnelType, DisablingLocks, Disabling
<1>6. \A d \in Controllers : InTurn(d)'
  BY <1>1, <1>3 DEF TunnelInv, InTurn, Closed
<1>7. ClosedIsEmpty' /\ PoolHasHeaders' /\ Tunnel!TransitIsRight'
  BY <1>1, HeadersStay DEF TunnelInv, ClosedIsEmpty, Closed, PoolHasHeaders
<1>8. WithoutFailure'
  <2>1. (\A d \in Controllers : Settled(d)') <=> (\A d \in Controllers : Settled(d))
    BY <1>1, <1>3 DEF Settled
  <2>2. Steady' <=> Steady
    BY <1>1 DEF Steady
  <2>3. \A d \in Controllers : Calm(d) => Calm(d)'
    BY <1>1, <1>3 DEF Calm, Locked, Settled, Steady
  <2> QED
    BY <1>1, <2>1, <2>2, <2>3 DEF TunnelInv, WithoutFailure
<1> QED
  BY <1>2, <1>4, <1>5, <1>6, <1>7, <1>8 DEF TunnelInv

\* A thread takes its first or second lock or gives both back, with no header
\* moved and no port's lock or is_enabled written.
LEMMA LocksMove ==
  ASSUME TunnelInv, Tunnel!PortCalls, NEW c \in Controllers,
         UNCHANGED <<enabled, portLock, pool, loc, transit, failures, lost, op, via>>,
         connLock' \in [Tunnel!Ports -> Controllers \cup {Tunnel!Nobody}],
         NEW next \in TunnelPlaces, tunnelAt' = [tunnelAt EXCEPT ![c] = next],
         tunnelAt[c] \in {"lock1", "lock2", "unlock"},
         next \notin {"disable_in", "undo_other", "undo", "destroy_pool",
                      "enable_out", "start"},
         OneLocks', failures = 0 => Calm(c)',
         failures = 0 /\ (\A d \in Controllers : Settled(d)') => Steady
  PROVE  TunnelInv'
<1>1. TunnelType'
  BY DEF TunnelInv, TunnelType
<1>2. /\ tunnelAt'[c] = next
      /\ \A d \in Controllers : d # c => UNCHANGED tunnelAt[d]
  BY DEF TunnelInv, TunnelType
<1>3. DisablingLocks'
  BY <1>2 DEF TunnelInv, TunnelType, DisablingLocks, Disabling
<1>4. \A d \in Controllers : InTurn(d)'
  BY <1>2 DEF TunnelInv, InTurn, Closed
<1>5. ClosedIsEmpty' /\ PoolHasHeaders' /\ Tunnel!TransitIsRight'
  BY HeadersStay DEF TunnelInv, ClosedIsEmpty, Closed, PoolHasHeaders
<1>6. WithoutFailure'
  <2>1. Steady' <=> Steady
    BY DEF Steady
  <2>2. \A d \in Controllers : d # c => (Calm(d) => Calm(d)')
    BY <1>2 DEF Calm, Locked, Settled, Steady
  <2> QED
    BY <2>1, <2>2 DEF TunnelInv, WithoutFailure
<1> QED
  BY <1>1, <1>3, <1>4, <1>5, <1>6 DEF TunnelInv

LEMMA Lock1Moves ==
  ASSUME TunnelInv, Tunnel!PortCalls, NEW c \in Controllers, Tunnel!Lock1(c)
  PROVE  TunnelInv'
<1> USE DEF Tunnel!Lock1, Tunnel!Goto, Tunnel!portVars, Tunnel!headVars
<1>1. /\ tunnelAt[c] = "lock1" /\ connLock[via[c]] = Tunnel!Nobody
      /\ UNCHANGED <<enabled, portLock, pool, loc, transit, failures, lost, op, via>>
  OBVIOUS
<1>2. via[c] \in Tunnel!Ports
  BY DEF TunnelInv, TunnelType
<1>3. CASE tunnelAt' = [tunnelAt EXCEPT ![c] = "idle"] /\ UNCHANGED connLock
  <2>1. /\ tunnelAt'[c] = "idle"
        /\ \A d \in Controllers : d # c => UNCHANGED tunnelAt[d]
    BY <1>3 DEF TunnelInv, TunnelType
  <2>2. OneLocks'
    BY <1>1, <1>3, <2>1 DEF TunnelInv, OneLocks, Locked
  <2>3. Calm(c)'
    BY <2>1 DEF Calm, Locked
  <2>4. (\A d \in Controllers : Settled(d)') => (\A d \in Controllers : Settled(d))
    BY <1>1, <2>1 DEF Settled
  <2>5. connLock' \in [Tunnel!Ports -> Controllers \cup {Tunnel!Nobody}]
    BY <1>3 DEF TunnelInv, TunnelType
  <2> QED
    BY <1>1, <1>3, <2>2, <2>3, <2>4, <2>5, LocksMove DEF TunnelInv, WithoutFailure,
      TunnelPlaces
<1>4. CASE /\ ~Tunnel!Refused(c) /\ connLock' = [connLock EXCEPT ![via[c]] = c]
           /\ tunnelAt' = [tunnelAt EXCEPT ![c] = "lock2"]
  <2>1. /\ tunnelAt'[c] = "lock2"
        /\ \A d \in Controllers : d # c => UNCHANGED tunnelAt[d]
    BY <1>4 DEF TunnelInv, TunnelType
  <2>2. /\ connLock' \in [Tunnel!Ports -> Controllers \cup {Tunnel!Nobody}]
        /\ connLock'[via[c]] = c
        /\ \A p \in Tunnel!Ports : p # via[c] => UNCHANGED connLock[p]
    BY <1>2, <1>4 DEF TunnelInv, TunnelType
  <2>3. OneLocks'
    <3>1. \A d \in Controllers : d # c => ~Locked(d)
      BY <1>1, <1>2 DEF TunnelInv, OneLocks, Tunnel!PortCalls
    <3>2. \A d \in Controllers : d # c /\ tunnelAt[d] = "lock2" =>
            via[d] \in Tunnel!Ports /\ via[d] # via[c] /\ connLock[via[d]] = d
      BY <1>1 DEF TunnelInv, TunnelType, OneLocks, Tunnel!PortCalls
    <3> QED
      BY <1>1, <2>1, <2>2, <3>1, <3>2 DEF OneLocks, Locked
  <2>4. Calm(c)'
    <3>1. op[c] = "enable" => ~enabled[via[c]]
      BY <1>4 DEF Tunnel!Refused
    <3> QED
      BY <1>1, <2>1, <3>1 DEF Calm, Locked
  <2>5. (\A d \in Controllers : Settled(d)') => (\A d \in Controllers : Settled(d))
    BY <1>1, <2>1 DEF Settled
  <2> QED
    BY <1>1, <1>4, <2>2, <2>3, <2>4, <2>5, LocksMove DEF TunnelInv, WithoutFailure,
      TunnelPlaces
<1> QED
  BY <1>3, <1>4

LEMMA Lock2Moves ==
  ASSUME TunnelInv, Tunnel!PortCalls, NEW c \in Controllers, Tunnel!Lock2(c)
  PROVE  TunnelInv'
<1> USE DEF Tunnel!Lock2, Tunnel!Goto, Tunnel!portVars, Tunnel!headVars
<1>1. /\ tunnelAt[c] = "lock2" /\ connLock[Tunnel!Other(via[c])] = Tunnel!Nobody
      /\ UNCHANGED <<enabled, portLock, pool, loc, transit, failures, lost, op, via>>
      /\ connLock' = [connLock EXCEPT ![Tunnel!Other(via[c])] = c]
  OBVIOUS
<1>2. /\ via[c] \in Tunnel!Ports /\ Tunnel!Other(via[c]) \in Tunnel!Ports
      /\ \A p \in Tunnel!Ports : p = via[c] \/ p = Tunnel!Other(via[c])
      /\ connLock[via[c]] = c
  BY <1>1 DEF TunnelInv, TunnelType, OneLocks, Tunnel!Ports, Tunnel!Other
<1>3. PICK next \in {"connect", "pool", "disable_out", "disconnect"} :
        /\ tunnelAt' = [tunnelAt EXCEPT ![c] = next]
        /\ next = "pool" => op[c] = "enable"
        /\ next = "disconnect" => op[c] # "enable"
  OBVIOUS
<1>4. /\ tunnelAt'[c] = next
      /\ \A d \in Controllers : d # c => UNCHANGED tunnelAt[d]
  BY <1>3 DEF TunnelInv, TunnelType
<1>5. \A p \in Tunnel!Ports : connLock'[p] = c
  BY <1>1, <1>2 DEF TunnelInv, TunnelType
<1>6. connLock' \in [Tunnel!Ports -> Controllers \cup {Tunnel!Nobody}]
  BY <1>1 DEF TunnelInv, TunnelType
<1>7. \A d \in Controllers : d # c => tunnelAt[d] \in {"idle", "lock1"}
  <2> SUFFICES ASSUME NEW d \in Controllers, d # c
               PROVE  tunnelAt[d] \in {"idle", "lock1"}
    OBVIOUS
  <2>1. ~Locked(d)
    BY <1>2 DEF TunnelInv, OneLocks
  <2>2. tunnelAt[d] # "lock2"
    <3>1. via[d] \in Tunnel!Ports /\ (tunnelAt[d] = "lock2" => connLock[via[d]] = d)
      BY DEF TunnelInv, TunnelType, OneLocks
    <3> QED
      BY <1>1, <1>2, <3>1 DEF Tunnel!PortCalls
  <2> QED
    BY <2>1, <2>2 DEF Locked
<1>8. OneLocks'
  BY <1>3, <1>4, <1>5, <1>7 DEF OneLocks, Locked
<1>9. failures = 0 => Steady
  BY <1>1, <1>7 DEF TunnelInv, WithoutFailure, Settled
<1>10. failures = 0 => Calm(c)'
  <2>1. failures = 0 /\ next = "pool" => ~enabled[via[c]]
    BY <1>1, <1>3 DEF TunnelInv, WithoutFailure, Calm
  <2> QED
    BY <1>1, <1>3, <1>4, <1>9, <2>1 DEF Calm, Steady
<1>11. next \in TunnelPlaces /\ next \notin {"disable_in", "undo_other", "undo",
         "destroy_pool", "enable_out", "start"}
  BY <1>3 DEF TunnelPlaces
<1> QED
  BY <1>1, <1>3, <1>6, <1>8, <1>9, <1>10, <1>11, LocksMove

LEMMA UnlockMoves ==
  ASSUME TunnelInv, Tunnel!PortCalls, NEW c \in Controllers, Tunnel!Unlock(c)
  PROVE  TunnelInv'
<1> USE DEF Tunnel!Unlock, Tunnel!Goto, Tunnel!portVars, Tunnel!headVars
<1>1. /\ tunnelAt[c] = "unlock" /\ tunnelAt' = [tunnelAt EXCEPT ![c] = "idle"]
      /\ UNCHANGED <<enabled, portLock, pool, loc, transit, failures, lost, op, via>>
      /\ connLock' = [p \in Tunnel!Ports |-> Tunnel!Nobody]
  OBVIOUS
<1>2. Locked(c) /\ Alone(c)
  BY <1>1, LockedAlone DEF Locked
<1>3. /\ tunnelAt'[c] = "idle"
      /\ \A d \in Controllers : d # c => tunnelAt'[d] \in {"idle", "lock1"}
  BY <1>1, <1>2 DEF TunnelInv, TunnelType, Alone
<1>4. OneLocks'
  BY <1>3 DEF OneLocks, Locked
<1>5. connLock' \in [Tunnel!Ports -> Controllers \cup {Tunnel!Nobody}]
  BY <1>1
<1>6. Calm(c)' /\ (failures = 0 => Steady)
  BY <1>1, <1>2, <1>3 DEF Calm, Locked, Settled, TunnelInv, WithoutFailure
<1> QED
  BY <1>1, <1>4, <1>5, <1>6, LocksMove DEF TunnelPlaces

\* A step of the components: the headers move, and the threads that control
\* the ports stay where they are.
LEMMA ComponentKeeps ==
  ASSUME TunnelInv,
         UNCHANGED <<enabled, connLock, portLock, pool, lost, tunnelAt, op, via, failures>>,
         loc' \in [Headers -> {"none", "queue", "out", "forward", "release", "in"}],
         transit' \in [Tunnel!Ports -> Int],
         ClosedIsEmpty', PoolHasHeaders', Tunnel!TransitIsRight'
  PROVE  TunnelInv'
<1>1. TunnelType'
  BY DEF TunnelInv, TunnelType
<1>2. OneLocks' /\ DisablingLocks'
  BY DEF TunnelInv, OneLocks, DisablingLocks, Disabling, Locked
<1>3. \A c \in Controllers : InTurn(c)'
  BY DEF TunnelInv, InTurn, Closed
<1>4. WithoutFailure'
  <2>1. (Steady' <=> Steady) /\ \A c \in Controllers : Settled(c)' <=> Settled(c)
    BY DEF Steady, Settled
  <2>2. \A c \in Controllers : Calm(c) => Calm(c)'
    BY DEF Calm, Locked, Settled, Steady
  <2> QED
    BY <2>1, <2>2 DEF TunnelInv, WithoutFailure
<1> QED
  BY <1>1, <1>2, <1>3, <1>4 DEF TunnelInv

\* A port whose component or callback has a header is not closed.
LEMMA NotClosed ==
  ASSUME TunnelInv, IsFiniteSet(Headers), NEW h \in Headers
  PROVE  /\ loc[h] \in {"out", "forward", "release"} => ~Closed("out")
         /\ loc[h] = "in" => ~Closed("in")
<1>1. /\ transit["out"] = Cardinality(InOut) /\ transit["in"] = Cardinality(InIn)
      /\ IsFiniteSet(InOut) /\ IsFiniteSet(InIn)
  BY TransitCounts, PlacedFinite DEF TunnelInv, InOut, InIn
<1>2. ASSUME loc[h] \in {"out", "forward", "release"}
      PROVE  ~Closed("out")
  <2>1. h \in InOut
    BY <1>2 DEF InOut, Tunnel!Placed
  <2>2. transit["out"] # 0
    BY <1>1, <2>1, FS_EmptySet
  <2> QED
    BY <2>2 DEF TunnelInv, ClosedIsEmpty, Tunnel!Ports
<1>3. ASSUME loc[h] = "in"
      PROVE  ~Closed("in")
  <2>1. h \in InIn
    BY <1>3 DEF InIn, Tunnel!Placed
  <2>2. transit["in"] # 0
    BY <1>1, <2>1, FS_EmptySet
  <2> QED
    BY <2>2 DEF TunnelInv, ClosedIsEmpty, Tunnel!Ports
<1> QED
  BY <1>2, <1>3

\* A header leaves the port from and arrives at to, a port that is enabled, or
\* the pool's queue.
LEMMA HeaderTravels ==
  ASSUME TunnelInv, IsFiniteSet(Headers), NEW h \in Headers,
         NEW from \in Tunnel!Ports, NEW to \in {"in", "out", "queue"},
         from = "out" => loc[h] \in {"out", "forward", "release"},
         from = "in" => loc[h] = "in",
         to \in Tunnel!Ports => enabled[to],
         loc' = [loc EXCEPT ![h] = to],
         transit' \in [Tunnel!Ports -> Int],
         \A p \in Tunnel!Ports :
           transit'[p] = transit[p] + (IF p = to THEN 1 ELSE 0)
                                    - (IF p = from THEN 1 ELSE 0),
         UNCHANGED <<enabled, connLock, portLock, pool, lost, tunnelAt, op, via, failures>>
  PROVE  TunnelInv'
<1>1. /\ transit["out"] = Cardinality(InOut) /\ transit["in"] = Cardinality(InIn)
      /\ TunnelType /\ Cardinality(InOut) \in Nat /\ Cardinality(InIn) \in Nat
  BY TransitCounts, PlacedFinite DEF TunnelInv, InOut, InIn
<1>2. from \in {"out", "in"} /\ "out" \in Tunnel!Ports /\ "in" \in Tunnel!Ports
  BY DEF Tunnel!Ports
<1>3. Cardinality(InOut') = Cardinality(InOut) + (IF to = "out" THEN 1 ELSE 0)
                                               - (IF from = "out" THEN 1 ELSE 0)
  <2> DEFINE there == {"out", "forward", "release"}
  <2>1. (loc[h] \in there <=> from = "out") /\ (to \in there <=> to = "out")
    BY <1>2
  <2> HIDE DEF there
  <2>2. /\ loc[h] \in there /\ to \in there
              => Tunnel!Placed(there)' = Tunnel!Placed(there)
        /\ loc[h] \notin there /\ to \notin there
              => Tunnel!Placed(there)' = Tunnel!Placed(there)
        /\ loc[h] \notin there /\ to \in there
              => Cardinality(Tunnel!Placed(there)')
                   = Cardinality(Tunnel!Placed(there)) + 1
        /\ loc[h] \in there /\ to \notin there
              => Cardinality(Tunnel!Placed(there)')
                   = Cardinality(Tunnel!Placed(there)) - 1
    BY <1>1, HeaderMoves
  <2>3. InOut' = Tunnel!Placed(there)' /\ InOut = Tunnel!Placed(there)
    BY DEF InOut, there
  <2> QED
    BY <1>1, <2>1, <2>2, <2>3
<1>4. Cardinality(InIn') = Cardinality(InIn) + (IF to = "in" THEN 1 ELSE 0)
                                             - (IF from = "in" THEN 1 ELSE 0)
  <2> DEFINE there == {"in"}
  <2>1. (loc[h] \in there <=> from = "in") /\ (to \in there <=> to = "in")
    BY <1>2
  <2> HIDE DEF there
  <2>2. /\ loc[h] \in there /\ to \in there
              => Tunnel!Placed(there)' = Tunnel!Placed(there)
        /\ loc[h] \notin there /\ to \notin there
              => Tunnel!Placed(there)' = Tunnel!Placed(there)
        /\ loc[h] \notin there /\ to \in there
              => Cardinality(Tunnel!Placed(there)')
                   = Cardinality(Tunnel!Placed(there)) + 1
        /\ loc[h] \in there /\ to \notin there
              => Cardinality(Tunnel!Placed(there)')
                   = Cardinality(Tunnel!Placed(there)) - 1
    BY <1>1, HeaderMoves
  <2>3. InIn' = Tunnel!Placed(there)' /\ InIn = Tunnel!Placed(there)
    BY DEF InIn, there
  <2> QED
    BY <1>1, <2>1, <2>2, <2>3
<1>5. Tunnel!TransitIsRight'
  BY <1>1, <1>2, <1>3, <1>4, TransitCountsNext
<1>6. ClosedIsEmpty'
  <2> SUFFICES ASSUME NEW p \in Tunnel!Ports, Closed(p)
               PROVE  transit'[p] = 0
    BY DEF ClosedIsEmpty, Closed
  <2>1. p # to
    BY DEF Closed
  <2>2. p # from
    BY NotClosed, <1>2
  <2>3. transit[p] = 0
    BY DEF TunnelInv, ClosedIsEmpty
  <2> QED
    BY <2>1, <2>2, <2>3
<1>7. PoolHasHeaders'
  BY <1>1, <1>2 DEF TunnelInv, TunnelType, PoolHasHeaders
<1>8. loc' \in [Headers -> {"none", "queue", "out", "forward", "release", "in"}]
  BY <1>1 DEF TunnelType
<1> QED
  BY <1>5, <1>6, <1>7, <1>8, ComponentKeeps

\* mmal_buffer_header_release, through the pool's callback.
LEMMA ReleaseMoves ==
  ASSUME TunnelInv, IsFiniteSet(Headers), NEW h \in Headers, NEW p \in Tunnel!Ports,
         p = "out" => loc[h] \in {"forward", "release"}, p = "in" => loc[h] = "in",
         Tunnel!ReleaseHeader(h, p),
         UNCHANGED <<enabled, connLock, portLock, pool, lost, tunnelAt, op, via, failures>>
  PROVE  TunnelInv'
<1>1. TunnelType /\ p \in {"out", "in"} /\ "out" \in Tunnel!Ports
  BY DEF TunnelInv, Tunnel!Ports
<1>2. CASE /\ enabled["out"] /\ loc' = [loc EXCEPT ![h] = "out"]
           /\ transit' = [transit EXCEPT !["out"] = @ + 1, ![p] = @ - 1]
  <2>1. /\ transit' \in [Tunnel!Ports -> Int]
        /\ \A q \in Tunnel!Ports :
             transit'[q] = transit[q] + (IF q = "out" THEN 1 ELSE 0)
                                      - (IF q = p THEN 1 ELSE 0)
    BY <1>1, <1>2 DEF TunnelType
  <2> QED
    BY <1>1, <1>2, <2>1, HeaderTravels
<1>3. CASE /\ loc' = [loc EXCEPT ![h] = "queue"]
           /\ transit' = [transit EXCEPT ![p] = @ - 1]
  <2>1. /\ transit' \in [Tunnel!Ports -> Int]
        /\ \A q \in Tunnel!Ports :
             transit'[q] = transit[q] + (IF q = "queue" THEN 1 ELSE 0)
                                      - (IF q = p THEN 1 ELSE 0)
    BY <1>1, <1>3 DEF TunnelType, Tunnel!Ports
  <2>2. "queue" \notin Tunnel!Ports
    BY DEF Tunnel!Ports
  <2> QED
    BY <1>1, <1>3, <2>1, <2>2, HeaderTravels
<1> QED
  BY <1>2, <1>3 DEF Tunnel!ReleaseHeader

LEMMA ComponentMoves ==
  ASSUME TunnelInv, IsFiniteSet(Headers), Tunnel!ComponentStep
  PROVE  TunnelInv'
<1> USE DEF Tunnel!portVars, Tunnel!lockVars, Tunnel!callVars
<1>1. TunnelType /\ "out" \in Tunnel!Ports /\ "in" \in Tunnel!Ports
  BY DEF TunnelInv, Tunnel!Ports
<1>2. ASSUME NEW h \in Headers, Tunnel!OutputDone(h)
      PROVE  TunnelInv'
  <2>1. PICK to \in {"forward", "release"} : loc' = [loc EXCEPT ![h] = to]
    BY <1>2 DEF Tunnel!OutputDone
  <2>2. /\ loc[h] = "out" /\ UNCHANGED transit
        /\ UNCHANGED <<enabled, connLock, portLock, pool, lost, tunnelAt, op, via, failures>>
    BY <1>2 DEF Tunnel!OutputDone
  <2>3. InOut' = InOut
    <3>1. /\ loc[h] \in {"out", "forward", "release"}
          /\ to \in {"out", "forward", "release"}
      BY <2>2
    <3> QED
      BY <1>1, <2>1, <3>1, HeaderMoves DEF InOut
  <2>4. InIn' = InIn
    <3>1. loc[h] \notin {"in"} /\ to \notin {"in"}
      BY <2>2
    <3> QED
      BY <1>1, <2>1, <3>1, HeaderMoves DEF InIn
  <2>5. Tunnel!TransitIsRight'
    BY <2>2, <2>3, <2>4, TransitCounts, TransitCountsNext DEF TunnelInv
  <2>6. ClosedIsEmpty' /\ PoolHasHeaders'
    BY <2>1, <2>2 DEF TunnelInv, TunnelType, ClosedIsEmpty, Closed, PoolHasHeaders
  <2>7. /\ loc' \in [Headers -> {"none", "queue", "out", "forward", "release", "in"}]
        /\ transit' \in [Tunnel!Ports -> Int]
    BY <1>1, <2>1, <2>2 DEF TunnelType
  <2> QED
    BY <2>2, <2>5, <2>6, <2>7, ComponentKeeps
<1>3. ASSUME NEW h \in Headers, Tunnel!Forward(h)
      PROVE  TunnelInv'
  <2>1. /\ loc[h] = "forward"
        /\ UNCHANGED <<enabled, connLock, portLock, pool, lost, tunnelAt, op, via, failures>>
    BY <1>3 DEF Tunnel!Forward
  <2>2. CASE Tunnel!ReleaseHeader(h, "out")
    BY <1>1, <2>1, <2>2, ReleaseMoves
  <2>3. CASE /\ enabled["in"] /\ loc' = [loc EXCEPT ![h] = "in"]
             /\ transit' = [transit EXCEPT !["in"] = @ + 1, !["out"] = @ - 1]
    <3>1. /\ transit' \in [Tunnel!Ports -> Int]
          /\ \A q \in Tunnel!Ports :
               transit'[q] = transit[q] + (IF q = "in" THEN 1 ELSE 0)
                                        - (IF q = "out" THEN 1 ELSE 0)
      BY <1>1, <2>3 DEF TunnelType
    <3> QED
      BY <1>1, <2>1, <2>3, <3>1, HeaderTravels
  <2> QED
    BY <1>3, <2>2, <2>3 DEF Tunnel!Forward
<1>4. ASSUME NEW h \in Headers, Tunnel!FlushedBack(h)
      PROVE  TunnelInv'
  BY <1>1, <1>4, ReleaseMoves DEF Tunnel!FlushedBack
<1>5. ASSUME NEW h \in Headers, Tunnel!InputDone(h)
      PROVE  TunnelInv'
  BY <1>1, <1>5, ReleaseMoves DEF Tunnel!InputDone
<1>6. ASSUME Tunnel!FormatChanged \/ Tunnel!FormatCommit
      PROVE  TunnelInv'
  <2>1. /\ UNCHANGED <<enabled, connLock, portLock, pool, lost, tunnelAt, op, via, failures>>
        /\ UNCHANGED <<loc, transit>>
    BY <1>6 DEF Tunnel!FormatChanged, Tunnel!FormatCommit, Tunnel!headVars
  <2>2. ClosedIsEmpty' /\ PoolHasHeaders' /\ Tunnel!TransitIsRight'
    BY <2>1, HeadersStay DEF TunnelInv, ClosedIsEmpty, Closed, PoolHasHeaders
  <2> QED
    BY <1>1, <2>1, <2>2, ComponentKeeps DEF TunnelType
<1> QED
  BY <1>2, <1>3, <1>4, <1>5, <1>6 DEF Tunnel!ComponentStep

LEMMA TunnelStart ==
  ASSUME Tunnel!TInit PROVE TunnelInv
<1>1. InOut = {} /\ InIn = {}
  BY DEF Tunnel!TInit, InOut, InIn, Tunnel!Placed
<1>2. Tunnel!TransitIsRight
  BY <1>1, FS_EmptySet, TransitCounts DEF Tunnel!TInit, Tunnel!Ports
<1>3. TunnelType
  BY DEF Tunnel!TInit, TunnelType, TunnelPlaces, Tunnel!Ports
<1> QED
  BY <1>2, <1>3 DEF Tunnel!TInit, TunnelInv, OneLocks, Locked, DisablingLocks,
    InTurn, ClosedIsEmpty, Closed, PoolHasHeaders, WithoutFailure, Settled, Steady,
    Calm, Tunnel!Ports

LEMMA TunnelMove ==
  ASSUME TunnelInv, Tunnel!PortCalls, OneFailure, IsFiniteSet(Headers),
         [Tunnel!TNext]_tunnelVars
  PROVE  TunnelInv'
<1>1. ASSUME NEW c \in Controllers, Tunnel!ControlStep(c)
      PROVE  TunnelInv'
  BY <1>1, Lock1Moves, Lock2Moves, UnlockMoves, ConnectMoves, PoolMoves, EnableMoves,
    StartMoves, DisableCallsMove, DestroyMoves DEF Tunnel!ControlStep
<1>2. CASE UNCHANGED tunnelVars
  <2>1. /\ UNCHANGED <<enabled, connLock, portLock, pool, lost, tunnelAt, op, via, failures>>
        /\ UNCHANGED <<loc, transit>>
    BY <1>2 DEF tunnelVars
  <2>2. ClosedIsEmpty' /\ PoolHasHeaders' /\ Tunnel!TransitIsRight'
    BY <2>1, HeadersStay DEF TunnelInv, ClosedIsEmpty, Closed, PoolHasHeaders
  <2> QED
    BY <2>1, <2>2, ComponentKeeps DEF TunnelInv, TunnelType
<1> QED
  BY <1>1, <1>2, ComponentMoves, CallMoves DEF Tunnel!TNext

\* The invariant gives what the runs check of connected ports.
LEMMA TunnelRight ==
  ASSUME TunnelInv, IsFiniteSet(Headers)
  PROVE  /\ Tunnel!TransitIsRight /\ Tunnel!PoolDestroyedWhole
         /\ Tunnel!PoolLostOnlyByFailure
<1>1. Tunnel!PoolLostOnlyByFailure
  BY DEF TunnelInv, TunnelType, WithoutFailure, Tunnel!PoolLostOnlyByFailure
<1> QED
  BY <1>1, PoolIsWhole DEF TunnelInv

-----------------------------------------------------------------------------
(* Counted references, for any threads.                                    *)

\* The references a function of counts stands for, one by one.
Held(S, f) == {r \in S \X Nat : 1 <= r[2] /\ r[2] <= f[r[1]]}

LEMMA HeldNone ==
  ASSUME NEW S, NEW f \in [S -> Nat], \A s \in S : f[s] = 0
  PROVE  IsFiniteSet(Held(S, f)) /\ Cardinality(Held(S, f)) = 0
<1>1. Held(S, f) = {}
  BY DEF Held
<1> QED
  BY <1>1, FS_EmptySet

LEMMA HeldSome ==
  ASSUME NEW S, NEW f \in [S -> Nat], NEW s \in S, f[s] > 0,
         IsFiniteSet(Held(S, f))
  PROVE  Cardinality(Held(S, f)) \in Nat \ {0}
<1>1. <<s, f[s]>> \in Held(S, f)
  BY DEF Held
<1> QED
  BY <1>1, FS_EmptySet, FS_CardinalityType

LEMMA HeldMore ==
  ASSUME NEW S, NEW f \in [S -> Nat], NEW s \in S, IsFiniteSet(Held(S, f))
  PROVE  LET g == [f EXCEPT ![s] = @ + 1] IN
           /\ IsFiniteSet(Held(S, g))
           /\ Cardinality(Held(S, g)) = Cardinality(Held(S, f)) + 1
<1> DEFINE g == [f EXCEPT ![s] = @ + 1]
<1>1. g \in [S -> Nat] /\ g[s] = f[s] + 1 /\ \A r \in S \ {s} : g[r] = f[r]
  OBVIOUS
<1> HIDE DEF g
<1>2. Held(S, g) = Held(S, f) \cup {<<s, f[s] + 1>>}
  BY <1>1 DEF Held
<1>3. <<s, f[s] + 1>> \notin Held(S, f)
  BY DEF Held
<1>4. IsFiniteSet(Held(S, g)) /\ Cardinality(Held(S, g)) = Cardinality(Held(S, f)) + 1
  BY <1>2, <1>3, FS_AddElement
<1> QED
  BY <1>4 DEF g

LEMMA HeldLess ==
  ASSUME NEW S, NEW f \in [S -> Nat], NEW s \in S, f[s] > 0, IsFiniteSet(Held(S, f))
  PROVE  LET g == [f EXCEPT ![s] = @ - 1] IN
           /\ IsFiniteSet(Held(S, g))
           /\ Cardinality(Held(S, g)) = Cardinality(Held(S, f)) - 1
<1> DEFINE g == [f EXCEPT ![s] = @ - 1]
<1>1. g \in [S -> Nat] /\ g[s] = f[s] - 1 /\ \A r \in S \ {s} : g[r] = f[r]
  OBVIOUS
<1> HIDE DEF g
<1>2. Held(S, g) = Held(S, f) \ {<<s, f[s]>>}
  BY <1>1 DEF Held
<1>3. <<s, f[s]>> \in Held(S, f)
  BY DEF Held
<1>4. IsFiniteSet(Held(S, g)) /\ Cardinality(Held(S, g)) = Cardinality(Held(S, f)) - 1
  BY <1>2, <1>3, FS_RemoveElement
<1> QED
  BY <1>4 DEF g

-----------------------------------------------------------------------------
(* The component, for any clients and payloads, whether or not its last    *)
(* reference may be dropped by its own thread.                             *)

ComponentType ==
  /\ built \in 0 .. 6 /\ core \in Int /\ refcount \in Int
  /\ refcount_ports = payloads /\ payloads \in Nat /\ destroyed \in {0, 1}
  /\ holds \in [Clients -> Nat]
  /\ componentAt \in [Component!Threads ->
                        {"idle", "create", "disable_ports", "join", "free"}]

\* Who makes it, releases the last reference or destroys it is alone.
OneBusy ==
  \A t, u \in Component!Threads :
    componentAt[t] # "idle" /\ componentAt[u] # "idle" => t = u

ComponentInUse ==
  \/ \E c \in Clients : holds[c] > 0
  \/ payloads > 0
  \/ \E t \in Component!Threads : componentAt[t] = "disable_ports"

\* In use it is whole, its count is right, and nobody is destroying it.
UsedIsWhole ==
  ComponentInUse =>
    /\ built = 6 /\ destroyed = 0 /\ core = 1
    /\ refcount = Cardinality(Held(Clients, holds))
    /\ \A t \in Component!Threads : componentAt[t] \in {"idle", "disable_ports"}

\* What the thread that is busy with it can rely on.
BusyThread(t) ==
  /\ componentAt[t] = "create" => t \in Clients /\ (built > 0 => refcount = 1)
  /\ componentAt[t] \in {"create", "join", "free"} => destroyed = 0 /\ core = 1
  /\ componentAt[t] = "disable_ports" => destruction_pending /\ refcount = 0

ComponentInv ==
  /\ ComponentType /\ OneBusy /\ UsedIsWhole
  /\ \A t \in Component!Threads : BusyThread(t)
  /\ IsFiniteSet(Held(Clients, holds))

LEMMA ComponentStart ==
  ASSUME Component!MInit, Component!ActionApart PROVE ComponentInv
<1>1. ComponentType
  BY DEF Component!MInit, ComponentType
<1>2. IsFiniteSet(Held(Clients, holds))
  BY <1>1, HeldNone DEF Component!MInit, ComponentType
<1> QED
  BY <1>1, <1>2 DEF Component!MInit, ComponentInv, OneBusy, UsedIsWhole,
    ComponentInUse, BusyThread

\* A component that nobody refers to has no references; one that has none
\* left is referred to by payloads only.
LEMMA ReferencesCounted ==
  ASSUME ComponentInv
  PROVE  /\ \A c \in Clients : holds[c] > 0 => refcount > 0
         /\ ComponentInUse /\ refcount = 0 => \A c \in Clients : holds[c] = 0
<1>1. \A c \in Clients : holds[c] > 0 => Cardinality(Held(Clients, holds)) > 0
  BY HeldSome DEF ComponentInv, ComponentType
<1> QED
  BY <1>1 DEF ComponentInv, ComponentType, UsedIsWhole, ComponentInUse

LEMMA ComponentMove ==
  ASSUME ComponentInv, Component!ActionApart, [Component!MNext]_componentVars
  PROVE  ComponentInv'
<1> USE DEF Component!Goto, Component!buildVars, Component!countVars, Component!actVars
<1>0. \A c \in Clients : c \in Component!Threads
  BY DEF Component!Threads
<1>1. ASSUME NEW c \in Clients, Component!Create(c)
      PROVE  ComponentInv'
  BY <1>0, <1>1 DEF Component!Create, ComponentInv, ComponentType, OneBusy, UsedIsWhole,
    ComponentInUse, BusyThread
<1>2. ASSUME NEW c \in Clients, Component!CreateStep(c)
      PROVE  ComponentInv'
  BY <1>0, <1>2 DEF Component!CreateStep, Component!Steps, ComponentInv, ComponentType,
    OneBusy, UsedIsWhole, ComponentInUse, BusyThread
<1>3. ASSUME NEW c \in Clients, Component!CreateDone(c)
      PROVE  ComponentInv'
  <2>1. /\ ~ComponentInUse /\ built = 6 /\ refcount = 1
        /\ componentAt[c] = "create" /\ core = 1 /\ destroyed = 0
    BY <1>0, <1>3 DEF Component!CreateDone, Component!Alive, Component!Steps, ComponentInv,
      UsedIsWhole, BusyThread
  <2>2. holds' = [holds EXCEPT ![c] = @ + 1]
    <3>1. holds \in [Clients -> Nat] /\ holds[c] = 0
      BY <2>1 DEF ComponentInUse, ComponentInv, ComponentType
    <3> QED
      BY <1>3, <3>1 DEF Component!CreateDone
  <2>3. /\ IsFiniteSet(Held(Clients, holds'))
        /\ Cardinality(Held(Clients, holds')) = Cardinality(Held(Clients, holds)) + 1
    BY <2>2, HeldMore DEF ComponentInv, ComponentType
  <2>4. Cardinality(Held(Clients, holds)) = 0
    BY <2>1, HeldNone DEF ComponentInUse, ComponentInv, ComponentType
  <2> QED
    BY <1>0, <1>3, <2>1, <2>2, <2>3, <2>4 DEF Component!CreateDone, ComponentInv,
      ComponentType, OneBusy, UsedIsWhole, ComponentInUse, BusyThread
<1>4. ASSUME NEW c \in Clients, Component!CreateFail(c)
      PROVE  ComponentInv'
  BY <1>0, <1>4 DEF Component!CreateFail, Component!Steps, ComponentInv, ComponentType,
    OneBusy, UsedIsWhole, ComponentInUse, BusyThread
<1>5. ASSUME NEW c \in Clients, NEW d \in Clients, Component!Acquire(c, d)
      PROVE  ComponentInv'
  <2>1. ComponentInUse /\ refcount > 0
    BY <1>5, ReferencesCounted DEF Component!Acquire, Component!Called, ComponentInUse
  <2>2. /\ IsFiniteSet(Held(Clients, holds'))
        /\ Cardinality(Held(Clients, holds')) = Cardinality(Held(Clients, holds)) + 1
    BY <1>5, HeldMore DEF Component!Acquire, ComponentInv, ComponentType
  <2> QED
    BY <1>0, <1>5, <2>1, <2>2 DEF Component!Acquire, ComponentInv, ComponentType, OneBusy,
      UsedIsWhole, ComponentInUse, BusyThread
<1>6. ASSUME NEW c \in Clients, Component!Release(c)
      PROVE  ComponentInv'
  <2>1. ComponentInUse /\ refcount > 0
    BY <1>6, ReferencesCounted DEF Component!Release, Component!Called, ComponentInUse
  <2>2. /\ IsFiniteSet(Held(Clients, holds'))
        /\ Cardinality(Held(Clients, holds')) = Cardinality(Held(Clients, holds)) - 1
    BY <1>6, HeldLess DEF Component!Release, Component!Called, ComponentInv, ComponentType
  <2> QED
    BY <1>0, <1>6, <2>1, <2>2 DEF Component!Release, Component!Called, ComponentInv,
      ComponentType, OneBusy, UsedIsWhole, ComponentInUse, BusyThread
<1>7. ASSUME NEW c \in Clients, Component!ReleaseCheck(c)
      PROVE  ComponentInv'
  <2>1. ComponentInUse /\ refcount = 0
    BY <1>0, <1>7 DEF Component!ReleaseCheck, ComponentInUse, ComponentInv, BusyThread
  <2>2. \A d \in Clients : holds[d] = 0
    BY <2>1, ReferencesCounted
  <2> QED
    BY <1>0, <1>7, <2>1, <2>2 DEF Component!ReleaseCheck, ComponentInv, ComponentType,
      OneBusy, UsedIsWhole, ComponentInUse, BusyThread
<1>8. ASSUME NEW c \in Clients, Component!AllocPayload(c)
      PROVE  ComponentInv'
  BY <1>0, <1>8 DEF Component!AllocPayload, Component!Called, ComponentInv, ComponentType,
    OneBusy, UsedIsWhole, ComponentInUse, BusyThread
<1>9. ASSUME NEW t \in Component!Threads, Component!FreePayload(t)
      PROVE  ComponentInv'
  <2>1. ComponentInUse
    BY <1>9 DEF Component!FreePayload, ComponentInUse
  <2>2. refcount = 0 => \A d \in Clients : holds[d] = 0
    BY <2>1, ReferencesCounted
  <2> QED
    BY <1>0, <1>9, <2>1, <2>2 DEF Component!FreePayload, ComponentInv, ComponentType,
      OneBusy, UsedIsWhole, ComponentInUse, BusyThread
<1>10. ASSUME NEW t \in Component!Threads, Component!InCall(t)
       PROVE  ComponentInv'
  <2>1. CASE Component!AskToQuit(t)
    BY <2>1 DEF Component!AskToQuit, ComponentInv, ComponentType, OneBusy, UsedIsWhole,
      ComponentInUse, BusyThread
  <2>2. CASE Component!Joined(t)
    BY <2>2 DEF Component!Joined, ComponentInv, ComponentType, OneBusy, UsedIsWhole,
      ComponentInUse, BusyThread
  <2>3. CASE Component!FreeComponent(t)
    BY <2>3 DEF Component!FreeComponent, ComponentInv, ComponentType, OneBusy, UsedIsWhole,
      ComponentInUse, BusyThread
  <2> QED
    BY <1>10, <2>1, <2>2, <2>3 DEF Component!InCall
<1>11. ASSUME \/ \E c \in Clients : Component!Trigger(c)
              \/ Component!ActionWake \/ Component!ActionDone \/ UNCHANGED componentVars
       PROVE  ComponentInv'
  BY <1>11 DEF Component!Trigger, Component!ActionWake, Component!ActionDone,
    componentVars, ComponentInv, ComponentType, OneBusy, UsedIsWhole, ComponentInUse, BusyThread
<1> QED
  BY <1>1, <1>2, <1>3, <1>4, <1>5, <1>6, <1>7, <1>8, <1>9, <1>10, <1>11
  DEF Component!MNext

\* Cardinality means the same in the module of the component.
LEMMA ComponentCardinality == \A S : Component!Cardinality(S) = Cardinality(S)
BY Zenon DEF Component!Cardinality, Cardinality

LEMMA ComponentRight ==
  ASSUME ComponentInv PROVE Component!AliveWhileReferenced
<1> DEFINE going == {t \in Component!Threads : componentAt[t] \in {"join", "free"}}
<1>1. Cardinality(going) <= 1
  <2>1. CASE going = {}
    BY <2>1, FS_EmptySet
  <2>2. CASE going # {}
    <3>1. PICK t \in going : going = {t}
      BY <2>2 DEF ComponentInv, OneBusy
    <3> HIDE DEF going
    <3> QED
      BY <3>1, FS_Singleton
  <2> QED
    BY <2>1, <2>2
<1>2. Component!Cardinality(going) <= 1
  BY <1>1, ComponentCardinality
<1> HIDE DEF going
<1>3. Component!References # {} \/ payloads > 0 => built = 6 /\ destroyed = 0
  BY DEF Component!References, ComponentInv, UsedIsWhole, ComponentInUse
<1>4. Component!Alive <=> built = 6
  BY DEF Component!Alive, Component!Steps
<1> QED
  BY <1>2, <1>3, <1>4 DEF Component!AliveWhileReferenced, going, ComponentInv, ComponentType

-----------------------------------------------------------------------------
(* The client of VideoCore, for any threads and waiters.                   *)

ClientPlaces == {"idle", "opened", "get_waiter", "queue", "transmit", "wait", "release"}

ClientType ==
  /\ clientRefcount \in Int /\ usecount \in Int
  /\ clientHolds \in [ClientThreads -> Nat]
  /\ clientAt \in [ClientThreads -> ClientPlaces]
  /\ waiter \in [ClientThreads -> ClientWaiters \cup {Client!None}]

\* The client is open while a thread is inside one of its calls.
OpenInCall(t) == clientAt[t] # "idle" => clientHolds[t] > 0

\* A thread has a waiter from get_waiter to release_waiter.
WaiterInCall(t) ==
  /\ clientAt[t] \in {"idle", "opened", "get_waiter"} => waiter[t] = Client!None
  /\ clientAt[t] \in {"wait", "release"} => waiter[t] # Client!None

\* The threads for which the service is in use.
Using == {t \in ClientThreads : clientAt[t] = "opened" \/ waiter[t] # Client!None}

\* Unless VCHIQ once refused, they are what is counted.
UsesCounted ==
  ~useFailed => usecount = Cardinality(Using) /\ (usecount > 0 => service)

OpensCounted ==
  /\ IsFiniteSet(Held(ClientThreads, clientHolds))
  /\ clientRefcount = Cardinality(Held(ClientThreads, clientHolds))

ClientInv ==
  /\ ClientType /\ OpensCounted
  /\ \A t \in ClientThreads : OpenInCall(t) /\ WaiterInCall(t)
  /\ IsFiniteSet(Using) /\ UsesCounted

LEMMA ClientStart ==
  ASSUME Client!CInit PROVE ClientInv
<1>1. ClientType
  BY DEF Client!CInit, ClientType, ClientPlaces
<1>2. OpensCounted
  BY <1>1, HeldNone DEF Client!CInit, ClientType, OpensCounted
<1>3. Using = {}
  BY DEF Client!CInit, Using
<1>4. \A t \in ClientThreads : OpenInCall(t) /\ WaiterInCall(t)
  BY DEF Client!CInit, OpenInCall, WaiterInCall
<1>5. IsFiniteSet(Using) /\ UsesCounted
  BY <1>3, FS_EmptySet DEF Client!CInit, UsesCounted
<1> QED
  BY <1>1, <1>2, <1>4, <1>5 DEF ClientInv

\* A thread begins to use the service, or is refused.
LEMMA UseBegins ==
  ASSUME ClientInv, NEW t \in ClientThreads, t \notin Using,
         Using' = Using \cup {t}, usecount' \in Int, Client!UseInternal
  PROVE  IsFiniteSet(Using') /\ UsesCounted'
<1>1. /\ IsFiniteSet(Using') /\ Cardinality(Using') = Cardinality(Using) + 1
      /\ Cardinality(Using) \in Nat
  BY FS_AddElement, FS_CardinalityType DEF ClientInv
<1>2. SUFFICES ASSUME ~useFailed'
               PROVE  usecount' = Cardinality(Using') /\ (usecount' > 0 => service')
  BY <1>1, Zenon DEF UsesCounted
<1>3. /\ ~useFailed /\ usecount' = usecount + 1
      /\ service' = (service \/ usecount = 0)
  <2>1. useFailed' # TRUE
    BY <1>2
  <2> QED
    BY <1>2, <2>1, Zenon DEF Client!UseInternal
<1>4. usecount = Cardinality(Using) /\ (usecount > 0 => service)
  BY <1>3, Zenon DEF ClientInv, UsesCounted
<1>5. (usecount = 0 \/ usecount > 0) /\ usecount' = Cardinality(Using')
  BY <1>1, <1>3, <1>4
<1> QED
  BY <1>3, <1>4, <1>5, Zenon

\* A thread no longer uses it.
LEMMA UseEnds ==
  ASSUME ClientInv, NEW t \in ClientThreads, t \in Using,
         Using' = Using \ {t}, Client!ReleaseInternal
  PROVE  IsFiniteSet(Using') /\ UsesCounted'
<1>1. /\ IsFiniteSet(Using') /\ Cardinality(Using') = Cardinality(Using) - 1
      /\ Cardinality(Using) \in Nat
  BY FS_RemoveElement, FS_CardinalityType DEF ClientInv
<1>2. SUFFICES ASSUME ~useFailed'
               PROVE  usecount' = Cardinality(Using') /\ (usecount' > 0 => service')
  BY <1>1, Zenon DEF UsesCounted
<1>3. /\ ~useFailed /\ usecount' = usecount - 1
      /\ service' = (service /\ usecount # 1)
  BY <1>2, Zenon DEF Client!ReleaseInternal
<1>4. usecount = Cardinality(Using) /\ (usecount > 0 => service)
  BY <1>3, Zenon DEF ClientInv, UsesCounted
<1>5. (usecount' > 0 => usecount > 0 /\ usecount # 1) /\ usecount' = Cardinality(Using')
  BY <1>1, <1>3, <1>4
<1> QED
  BY <1>3, <1>4, <1>5, Zenon

\* The rest of the invariant while a thread is inside a call.
LEMMA InCallMoves ==
  ASSUME ClientInv, NEW t \in ClientThreads, clientAt[t] # "idle",
         NEW there \in ClientPlaces, clientAt' = [clientAt EXCEPT ![t] = there],
         NEW w \in ClientWaiters \cup {Client!None}, waiter' = [waiter EXCEPT ![t] = w],
         there \in {"idle", "opened", "get_waiter"} => w = Client!None,
         there \in {"wait", "release"} => w # Client!None,
         usecount' \in Int,
         UNCHANGED <<clientRefcount, clientHolds>>
  PROVE  /\ ClientType' /\ OpensCounted'
         /\ \A u \in ClientThreads : OpenInCall(u)' /\ WaiterInCall(u)'
<1>1. ClientType' /\ OpensCounted'
  BY DEF ClientInv, ClientType, OpensCounted
<1>2. \A u \in ClientThreads : OpenInCall(u)' /\ WaiterInCall(u)'
  BY DEF ClientInv, ClientType, OpenInCall, WaiterInCall
<1> QED
  BY <1>1, <1>2

\* mmal_vc_init: the first caller opens the service, which nobody uses.
LEMMA InitMoves ==
  ASSUME ClientInv, NEW t \in ClientThreads, Client!Init(t)
  PROVE  ClientInv'
<1>1. CASE clientRefcount > 0
  <2>1. /\ clientHolds' = [clientHolds EXCEPT ![t] = @ + 1]
        /\ clientRefcount' = clientRefcount + 1
        /\ UNCHANGED <<usecount, service, clientAt, waiter, useFailed>>
    BY <1>1 DEF Client!Init, Client!waitVars
  <2>2. OpensCounted'
    BY <2>1, HeldMore DEF ClientInv, ClientType, OpensCounted
  <2>3. Using' = Using
    BY <2>1 DEF Using
  <2> QED
    BY <2>1, <2>2, <2>3 DEF ClientInv, ClientType, OpenInCall, WaiterInCall, UsesCounted
<1>2. CASE /\ clientRefcount = 0
           /\ UNCHANGED <<clientRefcount, usecount, service, clientAt, clientHolds, waiter,
                          useFailed>>
  BY <1>2 DEF ClientInv, ClientType, OpensCounted, OpenInCall, WaiterInCall, Using,
    UsesCounted
<1>3. CASE /\ clientRefcount = 0
           /\ clientRefcount' = 1 /\ usecount' = 1 /\ service' = TRUE
           /\ clientHolds' = [clientHolds EXCEPT ![t] = @ + 1]
           /\ clientAt' = [clientAt EXCEPT ![t] = "opened"]
           /\ UNCHANGED <<waiter, useFailed>>
  <2>1. OpensCounted'
    <3>1. /\ IsFiniteSet(Held(ClientThreads, clientHolds'))
          /\ Cardinality(Held(ClientThreads, clientHolds'))
               = Cardinality(Held(ClientThreads, clientHolds)) + 1
      BY <1>3, HeldMore DEF ClientInv, ClientType, OpensCounted
    <3> QED
      BY <1>3, <3>1 DEF ClientInv, OpensCounted
  <2>2. \A u \in ClientThreads : clientAt[u] = "idle" /\ waiter[u] = Client!None
    BY <1>3, HeldSome DEF ClientInv, ClientType, OpensCounted, OpenInCall, WaiterInCall
  <2>3. Using' = {t}
    BY <1>3, <2>2 DEF Using, ClientInv, ClientType
  <2>4. IsFiniteSet(Using') /\ UsesCounted'
    BY <1>3, <2>3, FS_Singleton DEF UsesCounted
  <2>5. ClientType' /\ \A u \in ClientThreads : OpenInCall(u)' /\ WaiterInCall(u)'
    BY <1>3, <2>2 DEF ClientInv, ClientType, ClientPlaces, OpenInCall, WaiterInCall
  <2> QED
    BY <2>1, <2>4, <2>5 DEF ClientInv
<1> QED
  BY <1>1, <1>2, <1>3 DEF Client!Init, Client!Goto

\* mmal_vc_deinit: who closes the client is the last one to have it open.
LEMMA DeinitMoves ==
  ASSUME ClientInv, NEW t \in ClientThreads, Client!Deinit(t)
  PROVE  ClientInv'
<1>1. /\ clientAt[t] = "idle" /\ clientHolds[t] > 0
      /\ clientHolds' = [clientHolds EXCEPT ![t] = @ - 1]
      /\ clientRefcount' = clientRefcount - 1
      /\ clientRefcount # 1 => service' = service
      /\ clientRefcount = 1 => service' = FALSE
      /\ UNCHANGED <<usecount, clientAt, waiter, useFailed>>
  BY DEF Client!Deinit
<1>2. OpensCounted'
  BY <1>1, HeldLess DEF ClientInv, ClientType, OpensCounted
<1>3. Using' = Using
  BY <1>1 DEF Using
<1>4. ClientType' /\ \A u \in ClientThreads : OpenInCall(u)' /\ WaiterInCall(u)'
  BY <1>1 DEF ClientInv, ClientType, OpenInCall, WaiterInCall
<1>5. UsesCounted'
  <2>1. CASE clientRefcount # 1
    BY <1>1, <1>3, <2>1 DEF ClientInv, ClientType, UsesCounted
  <2>2. CASE clientRefcount = 1
    <3>1. ASSUME NEW u \in ClientThreads PROVE clientHolds'[u] = 0
      <4>1. /\ clientHolds' \in [ClientThreads -> Nat]
            /\ IsFiniteSet(Held(ClientThreads, clientHolds'))
            /\ Cardinality(Held(ClientThreads, clientHolds')) = 0
        BY <1>1, <1>2, <1>4, <2>2 DEF ClientType, OpensCounted
      <4>2. clientHolds'[u] > 0 => Cardinality(Held(ClientThreads, clientHolds')) # 0
        BY <4>1, HeldSome
      <4> QED
        BY <4>1, <4>2
    <3>2. \A u \in ClientThreads : clientAt[u] = "idle"
      BY <1>1, <1>4, <3>1 DEF OpenInCall, ClientInv, ClientType
    <3>3. Using = {}
      BY <3>2 DEF Using, ClientInv, WaiterInCall
    <3> QED
      BY <1>1, <1>3, <3>3, FS_EmptySet DEF ClientInv, UsesCounted
  <2> QED
    BY <2>1, <2>2
<1> QED
  BY <1>2, <1>3, <1>4, <1>5 DEF ClientInv

LEMMA ClientMove ==
  ASSUME ClientInv, Client!WaitersApart, [Client!CNext]_clientVars
  PROVE  ClientInv'
<1>1. ASSUME NEW t \in ClientThreads, Client!Opened(t)
      PROVE  ClientInv'
  <2>1. /\ clientAt[t] = "opened" /\ clientAt' = [clientAt EXCEPT ![t] = "idle"]
        /\ waiter' = waiter /\ waiter[t] = Client!None /\ Client!ReleaseInternal
        /\ UNCHANGED <<clientRefcount, clientHolds>>
    BY <1>1 DEF Client!Opened, Client!Goto, ClientInv, WaiterInCall
  <2>2. t \in Using /\ Using' = Using \ {t}
    BY <2>1 DEF Using, ClientInv, ClientType
  <2>3. usecount' \in Int
        /\ waiter' = [waiter EXCEPT ![t] = Client!None]
    BY <2>1 DEF ClientInv, ClientType, Client!ReleaseInternal
  <2>4. IsFiniteSet(Using') /\ UsesCounted'
    BY <2>1, <2>2, UseEnds
  <2>5. /\ ClientType' /\ OpensCounted'
        /\ \A u \in ClientThreads : OpenInCall(u)' /\ WaiterInCall(u)'
    BY <2>1, <2>3, InCallMoves DEF ClientPlaces
  <2> QED
    BY <2>4, <2>5 DEF ClientInv
<1>2. ASSUME NEW t \in ClientThreads, Client!GetWaiter(t)
      PROVE  ClientInv'
  <2>1. PICK w \in ClientWaiters : waiter' = [waiter EXCEPT ![t] = w]
    BY <1>2 DEF Client!GetWaiter
  <2>2. /\ clientAt[t] = "get_waiter" /\ clientAt' = [clientAt EXCEPT ![t] = "queue"]
        /\ waiter[t] = Client!None /\ w # Client!None /\ Client!UseInternal
        /\ UNCHANGED <<clientRefcount, clientHolds>>
    BY <1>2 DEF Client!GetWaiter, Client!Goto, ClientInv, WaiterInCall, Client!WaitersApart
  <2>3. t \notin Using /\ Using' = Using \cup {t}
    BY <2>1, <2>2 DEF Using, ClientInv, ClientType
  <2>4. usecount' \in Int
    BY <2>2 DEF ClientInv, ClientType, Client!UseInternal
  <2>5. IsFiniteSet(Using') /\ UsesCounted'
    BY <2>2, <2>3, <2>4, UseBegins
  <2>6. /\ ClientType' /\ OpensCounted'
        /\ \A u \in ClientThreads : OpenInCall(u)' /\ WaiterInCall(u)'
    BY <2>1, <2>2, <2>4, InCallMoves DEF ClientPlaces
  <2> QED
    BY <2>5, <2>6 DEF ClientInv
<1>3. ASSUME NEW t \in ClientThreads, Client!Release(t)
      PROVE  ClientInv'
  <2>1. /\ clientAt[t] = "release" /\ clientAt' = [clientAt EXCEPT ![t] = "idle"]
        /\ waiter' = [waiter EXCEPT ![t] = Client!None] /\ waiter[t] # Client!None
        /\ Client!ReleaseInternal /\ UNCHANGED <<clientRefcount, clientHolds>>
    BY <1>3 DEF Client!Release, Client!Goto, ClientInv, WaiterInCall
  <2>2. t \in Using /\ Using' = Using \ {t}
    BY <2>1 DEF Using, ClientInv, ClientType
  <2>3. usecount' \in Int
    BY <2>1 DEF ClientInv, ClientType, Client!ReleaseInternal
  <2>4. IsFiniteSet(Using') /\ UsesCounted'
    BY <2>1, <2>2, UseEnds
  <2>5. /\ ClientType' /\ OpensCounted'
        /\ \A u \in ClientThreads : OpenInCall(u)' /\ WaiterInCall(u)'
    BY <2>1, <2>3, InCallMoves DEF ClientPlaces
  <2> QED
    BY <2>4, <2>5 DEF ClientInv
<1>4. ASSUME NEW t \in ClientThreads,
             \/ Client!QueueMessage(t) \/ Client!QueueFails(t) \/ Client!Transmit(t)
             \/ Client!Woken(t)
      PROVE  ClientInv'
  <2>1. PICK there \in {"transmit", "wait", "release", "idle"} :
          /\ clientAt' = [clientAt EXCEPT ![t] = there]
          /\ there = "idle" => waiter[t] = Client!None
          /\ there \in {"wait", "release"} => waiter[t] # Client!None
    BY <1>4 DEF Client!QueueMessage, Client!QueueFails, Client!Transmit, Client!Woken,
      Client!Goto, ClientInv, WaiterInCall
  <2>2. /\ clientAt[t] \in {"queue", "transmit", "wait"}
        /\ UNCHANGED <<clientRefcount, usecount, service, useFailed, waiter, clientHolds>>
    BY <1>4 DEF Client!QueueMessage, Client!QueueFails, Client!Transmit, Client!Woken,
      Client!countVars
  <2>3. Using' = Using
    BY <2>1, <2>2 DEF Using, ClientInv, ClientType
  <2>4. /\ ClientType' /\ OpensCounted'
        /\ \A u \in ClientThreads : OpenInCall(u)' /\ WaiterInCall(u)'
    <3>1. /\ waiter[t] \in ClientWaiters \cup {Client!None}
          /\ waiter' = [waiter EXCEPT ![t] = waiter[t]]
          /\ usecount' \in Int
          /\ clientAt[t] # "idle" /\ there \in ClientPlaces
      BY <2>1, <2>2 DEF ClientInv, ClientType, ClientPlaces
    <3> QED
      BY <2>1, <2>2, <3>1, InCallMoves
  <2> QED
    BY <2>2, <2>3, <2>4 DEF ClientInv, UsesCounted
<1>5. ASSUME NEW t \in ClientThreads, NEW wait \in BOOLEAN, NEW b \in BOOLEAN,
             Client!Call(t, wait, b)
      PROVE  ClientInv'
  <2>1. /\ clientAt[t] = "idle" /\ clientHolds[t] > 0
        /\ \E there \in {"get_waiter", "queue"} : clientAt' = [clientAt EXCEPT ![t] = there]
        /\ UNCHANGED <<clientRefcount, usecount, service, useFailed, waiter, clientHolds>>
    BY <1>5 DEF Client!Call, Client!Goto, Client!countVars
  <2>2. Using' = Using
    BY <2>1 DEF Using, ClientInv, ClientType
  <2>3. \A u \in ClientThreads : OpenInCall(u)' /\ WaiterInCall(u)'
    BY <2>1 DEF ClientInv, ClientType, OpenInCall, WaiterInCall
  <2> QED
    BY <2>1, <2>2, <2>3 DEF ClientInv, ClientType, ClientPlaces, OpensCounted, UsesCounted
<1>6. ASSUME Client!VideoCore \/ Client!Reply \/ UNCHANGED clientVars
      PROVE  ClientInv'
  <2>1. UNCHANGED <<clientRefcount, usecount, service, useFailed, waiter, clientHolds,
                    clientAt>>
    BY <1>6 DEF Client!VideoCore, Client!Reply, Client!countVars, clientVars
  <2> QED
    BY <2>1 DEF ClientInv, ClientType, OpensCounted, OpenInCall, WaiterInCall, Using,
      UsesCounted
<1> QED
  BY <1>1, <1>2, <1>3, <1>4, <1>5, <1>6, InitMoves, DeinitMoves
  DEF Client!CNext, Client!Step

LEMMA ClientRight ==
  ASSUME ClientInv PROVE Client!ServiceInUse
<1> SUFFICES ASSUME NEW t \in ClientThreads, waiter[t] # Client!None, ~useFailed
             PROVE  service
  BY DEF Client!ServiceInUse, ClientInv, ClientType
<1>1. t \in Using
  BY DEF Using
<1>2. Cardinality(Using) \in Nat /\ Cardinality(Using) # 0
  BY <1>1, FS_EmptySet, FS_CardinalityType DEF ClientInv
<1> QED
  BY <1>2 DEF ClientInv, UsesCounted

-----------------------------------------------------------------------------
(* The client's messages with data and the transfers that carry it.        *)

Requests == [from : ClientThreads, bulk : BOOLEAN,
             waiter : ClientWaiters \cup {Client!None}]

\* pos tells at which message of s each transfer of d is announced.
AnnouncedAt(pos, s, d) ==
  /\ pos \in [1 .. Len(d) -> 1 .. Len(s)]
  /\ \A j, k \in 1 .. Len(d) : j < k => pos[j] < pos[k]
  /\ \A k \in 1 .. Len(d) : s[pos[k]].bulk /\ s[pos[k]].from = d[k]
  /\ \A i \in 1 .. Len(s) : s[i].bulk => \E k \in 1 .. Len(d) : pos[k] = i

\* The transfers of d are those the messages of s announce, in their order.
Carries(s, d) == \E pos : AnnouncedAt(pos, s, d)

LEMMA CarriesNothing == Carries(<<>>, <<>>)
<1>1. AnnouncedAt([k \in 1 .. 0 |-> 0], <<>>, <<>>)
  BY DEF AnnouncedAt
<1> QED
  BY <1>1 DEF Carries

LEMMA CarriesPlain ==
  ASSUME NEW s \in Seq(Requests), NEW d \in Seq(ClientThreads), NEW m \in Requests,
         Carries(s, d), ~m.bulk
  PROVE  Carries(Append(s, m), d)
<1>1. PICK pos : AnnouncedAt(pos, s, d)
  BY DEF Carries
<1>2. /\ Len(Append(s, m)) = Len(s) + 1 /\ Len(s) \in Nat /\ Len(d) \in Nat
      /\ \A i \in 1 .. Len(s) : Append(s, m)[i] = s[i]
      /\ Append(s, m)[Len(s) + 1] = m
  BY AppendProperties
<1>3. AnnouncedAt(pos, Append(s, m), d)
  <2>1. pos \in [1 .. Len(d) -> 1 .. Len(s)]
    BY <1>1 DEF AnnouncedAt
  <2>2. pos \in [1 .. Len(d) -> 1 .. Len(s) + 1]
    BY <1>2, <2>1
  <2>3. \A k \in 1 .. Len(d) : Append(s, m)[pos[k]].bulk /\ Append(s, m)[pos[k]].from = d[k]
    BY <1>1, <1>2, <2>1 DEF AnnouncedAt
  <2>4. ASSUME NEW i \in 1 .. Len(s) + 1, Append(s, m)[i].bulk
        PROVE  \E k \in 1 .. Len(d) : pos[k] = i
    <3>1. i \in 1 .. Len(s)
      BY <1>2, <2>4
    <3> QED
      BY <1>1, <1>2, <2>4, <3>1 DEF AnnouncedAt
  <2> QED
    BY <1>1, <1>2, <2>2, <2>3, <2>4 DEF AnnouncedAt
<1> QED
  BY <1>3 DEF Carries

LEMMA CarriesBulk ==
  ASSUME NEW s \in Seq(Requests), NEW d \in Seq(ClientThreads), NEW m \in Requests,
         Carries(s, d), m.bulk
  PROVE  Carries(Append(s, m), Append(d, m.from))
<1>1. PICK pos : AnnouncedAt(pos, s, d)
  BY DEF Carries
<1>2. /\ Len(Append(s, m)) = Len(s) + 1 /\ Len(s) \in Nat
      /\ \A i \in 1 .. Len(s) : Append(s, m)[i] = s[i]
      /\ Append(s, m)[Len(s) + 1] = m
  BY AppendProperties
<1>3. m.from \in ClientThreads
  BY DEF Requests
<1>4. /\ Len(Append(d, m.from)) = Len(d) + 1 /\ Len(d) \in Nat
      /\ \A i \in 1 .. Len(d) : Append(d, m.from)[i] = d[i]
      /\ Append(d, m.from)[Len(d) + 1] = m.from
  BY <1>3, AppendProperties
<1>5. PICK S : S = Append(s, m)
  OBVIOUS
<1>6. PICK D : D = Append(d, m.from)
  OBVIOUS
<1>7. PICK ls \in Nat : ls = Len(s)
  BY <1>2
<1>8. PICK ld \in Nat : ld = Len(d)
  BY <1>4
<1>9. /\ pos \in [1 .. ld -> 1 .. ls]
      /\ \A j, k \in 1 .. ld : j < k => pos[j] < pos[k]
      /\ \A k \in 1 .. ld : s[pos[k]].bulk /\ s[pos[k]].from = d[k]
      /\ \A i \in 1 .. ls : s[i].bulk => \E k \in 1 .. ld : pos[k] = i
  BY <1>1, <1>7, <1>8 DEF AnnouncedAt
<1>10. /\ Len(S) = ls + 1 /\ \A i \in 1 .. ls : S[i] = s[i]
       /\ S[ls + 1] = m
       /\ Len(D) = ld + 1 /\ \A i \in 1 .. ld : D[i] = d[i]
       /\ D[ld + 1] = m.from
  BY <1>2, <1>4, <1>5, <1>6, <1>7, <1>8
<1>11. PICK at2 : at2 = [k \in 1 .. ld + 1 |-> IF k \in 1 .. ld THEN pos[k] ELSE ls + 1]
  OBVIOUS
<1>12. /\ \A k \in 1 .. ld : at2[k] = pos[k] /\ pos[k] \in 1 .. ls
       /\ at2[ld + 1] = ls + 1
       /\ at2 \in [1 .. ld + 1 -> 1 .. ls + 1]
  BY <1>9, <1>11
<1>13. \A j, k \in 1 .. ld + 1 : j < k => at2[j] < at2[k]
  <2> SUFFICES ASSUME NEW j \in 1 .. ld + 1, NEW k \in 1 .. ld + 1, j < k
               PROVE  at2[j] < at2[k]
    OBVIOUS
  <2>1. j \in 1 .. ld /\ (k \in 1 .. ld \/ k = ld + 1)
    OBVIOUS
  <2>2. at2[j] = pos[j] /\ pos[j] \in 1 .. ls
    BY <1>12, <2>1
  <2>3. CASE k \in 1 .. ld
    <3>1. at2[k] = pos[k] /\ pos[j] < pos[k]
      BY <1>9, <1>12, <2>1, <2>3
    <3> QED
      BY <2>2, <3>1
  <2>4. CASE k = ld + 1
    <3>1. at2[k] = ls + 1
      BY <1>12, <2>4
    <3> QED
      BY <2>2, <3>1
  <2> QED
    BY <2>1, <2>3, <2>4
<1>14. ASSUME NEW k \in 1 .. ld + 1 PROVE S[at2[k]].bulk /\ S[at2[k]].from = D[k]
  <2>1. k \in 1 .. ld \/ k = ld + 1
    OBVIOUS
  <2>2. CASE k \in 1 .. ld
    <3>1. S[at2[k]] = s[pos[k]] /\ D[k] = d[k]
      BY <1>10, <1>12, <2>2
    <3> QED
      BY <1>9, <2>2, <3>1
  <2>3. CASE k = ld + 1
    BY <1>10, <1>12, <2>3
  <2> QED
    BY <2>1, <2>2, <2>3
<1>15. ASSUME NEW i \in 1 .. ls + 1, S[i].bulk PROVE \E k \in 1 .. ld + 1 : at2[k] = i
  <2>1. CASE i = ls + 1
    BY <1>12, <2>1
  <2>2. CASE i # ls + 1
    <3>1. i \in 1 .. ls /\ s[i].bulk
      BY <1>10, <1>15, <2>2
    <3>2. PICK k \in 1 .. ld : pos[k] = i
      BY <1>9, <3>1
    <3> QED
      BY <1>12, <3>2
  <2> QED
    BY <2>1, <2>2
<1>16. AnnouncedAt(at2, S, D)
  BY <1>10, <1>12, <1>13, <1>14, <1>15 DEF AnnouncedAt
<1> QED
  BY <1>5, <1>6, <1>16 DEF Carries

\* The first message announces the first transfer, or none.
LEMMA CarriesFirst ==
  ASSUME NEW s \in Seq(Requests), NEW d \in Seq(ClientThreads), s # <<>>, Carries(s, d)
  PROVE  IF Head(s).bulk THEN /\ d # <<>> /\ Head(d) = Head(s).from
                              /\ Carries(Tail(s), Tail(d))
                         ELSE Carries(Tail(s), d)
<1>1. PICK pos : AnnouncedAt(pos, s, d)
  BY DEF Carries
<1>2. PICK ls \in Nat : ls + 1 = Len(s)
  BY HeadTailProperties
<1>3. PICK ld \in Nat : ld = Len(d)
  OBVIOUS
<1>4. PICK S : S = Tail(s)
  OBVIOUS
<1>5. /\ Len(S) = ls /\ \A i \in 1 .. ls : S[i] = s[i + 1]
      /\ Head(s) = s[1]
  BY <1>2, <1>4, HeadTailProperties
<1>6. /\ pos \in [1 .. ld -> 1 .. ls + 1]
      /\ \A j, k \in 1 .. ld : j < k => pos[j] < pos[k]
      /\ \A k \in 1 .. ld : s[pos[k]].bulk /\ s[pos[k]].from = d[k]
      /\ \A i \in 1 .. ls + 1 : s[i].bulk => \E k \in 1 .. ld : pos[k] = i
  BY <1>1, <1>2, <1>3 DEF AnnouncedAt
<1>7. CASE s[1].bulk
  <2>1. PICK k1 \in 1 .. ld : pos[k1] = 1
    BY <1>6, <1>7
  <2>2. k1 = 1 /\ 1 \in 1 .. ld
    <3>1. k1 # 1 => 1 \in 1 .. ld /\ 1 < k1
      OBVIOUS
    <3>2. k1 # 1 => pos[1] < 1 /\ pos[1] \in 1 .. ls + 1
      BY <1>6, <2>1, <3>1
    <3> QED
      BY <3>2
  <2>3. d # <<>> /\ d[1] = s[1].from
    BY <1>3, <1>6, <2>1, <2>2
  <2>4. PICK D : D = Tail(d)
    OBVIOUS
  <2>5. PICK lr \in Nat : ld = lr + 1
    BY <2>2
  <2>6. /\ Len(D) = lr /\ \A k \in 1 .. lr : D[k] = d[k + 1]
        /\ Head(d) = d[1]
    <3>1. /\ Len(Tail(d)) = Len(d) - 1 /\ Head(d) = d[1]
          /\ \A k \in 1 .. Len(Tail(d)) : Tail(d)[k] = d[k + 1]
      BY <2>3, HeadTailProperties
    <3>2. Len(Tail(d)) = lr
      BY <1>3, <2>5, <3>1
    <3> QED
      BY <2>4, <3>1, <3>2
  <2>7. PICK at2 : at2 = [k \in 1 .. lr |-> pos[k + 1] - 1]
    OBVIOUS
  <2>8. ASSUME NEW k \in 1 .. lr
        PROVE  /\ at2[k] = pos[k + 1] - 1 /\ at2[k] \in 1 .. ls
               /\ at2[k] + 1 = pos[k + 1] /\ k + 1 \in 1 .. ld /\ pos[k + 1] \in Nat
    <3>1. k + 1 \in 1 .. ld /\ 1 < k + 1
      BY <2>5
    <3>2. pos[k + 1] \in 1 .. ls + 1 /\ pos[1] < pos[k + 1]
      BY <1>6, <2>2, <3>1
    <3>3. at2[k] = pos[k + 1] - 1
      BY <2>7
    <3> QED
      BY <2>1, <2>2, <3>1, <3>2, <3>3
  <2>9. at2 \in [1 .. lr -> 1 .. ls]
    BY <2>7, <2>8
  <2>10. ASSUME NEW j \in 1 .. lr, NEW k \in 1 .. lr, j < k PROVE at2[j] < at2[k]
    <3>1. j + 1 \in 1 .. ld /\ k + 1 \in 1 .. ld /\ j + 1 < k + 1
      BY <2>5, <2>10
    <3>2. pos[j + 1] < pos[k + 1]
      BY <1>6, <3>1
    <3> QED
      BY <2>8, <3>2
  <2>11. ASSUME NEW k \in 1 .. lr PROVE S[at2[k]].bulk /\ S[at2[k]].from = D[k]
    <3>1. S[at2[k]] = s[pos[k + 1]] /\ D[k] = d[k + 1] /\ k + 1 \in 1 .. ld
      BY <1>5, <2>6, <2>8
    <3> QED
      BY <1>6, <3>1
  <2>12. ASSUME NEW i \in 1 .. ls, S[i].bulk PROVE \E k \in 1 .. lr : at2[k] = i
    <3>1. i + 1 \in 1 .. ls + 1 /\ s[i + 1].bulk
      BY <1>5, <2>12
    <3>2. PICK k \in 1 .. ld : pos[k] = i + 1
      BY <1>6, <3>1
    <3>3. k # 1 /\ i + 1 # 1
      BY <2>1, <2>2, <3>2
    <3>4. PICK h \in 1 .. lr : h + 1 = k
      <4>1. k - 1 \in 1 .. lr /\ (k - 1) + 1 = k
        BY <2>5, <3>3
      <4> QED
        BY <4>1
    <3>5. at2[h] = i
      BY <2>8, <3>2, <3>4
    <3> QED
      BY <3>5
  <2>13. AnnouncedAt(at2, S, D)
    BY <1>5, <2>6, <2>9, <2>10, <2>11, <2>12 DEF AnnouncedAt
  <2> QED
    BY <1>4, <1>5, <1>7, <2>3, <2>4, <2>6, <2>13 DEF Carries
<1>8. CASE ~s[1].bulk
  <2>1. PICK at2 : at2 = [k \in 1 .. ld |-> pos[k] - 1]
    OBVIOUS
  <2>2. ASSUME NEW k \in 1 .. ld
        PROVE at2[k] \in 1 .. ls /\ at2[k] + 1 = pos[k] /\ pos[k] \in Nat
    <3>1. pos[k] \in 1 .. ls + 1 /\ pos[k] # 1 /\ at2[k] = pos[k] - 1
      BY <1>6, <1>8, <2>1
    <3> QED
      BY <3>1
  <2>3. at2 \in [1 .. ld -> 1 .. ls]
    BY <2>1, <2>2
  <2>4. ASSUME NEW j \in 1 .. ld, NEW k \in 1 .. ld, j < k PROVE at2[j] < at2[k]
    <3>1. pos[j] < pos[k]
      BY <1>6, <2>4
    <3> QED
      BY <2>2, <3>1
  <2>5. ASSUME NEW k \in 1 .. ld PROVE S[at2[k]].bulk /\ S[at2[k]].from = d[k]
    <3>1. S[at2[k]] = s[pos[k]]
      BY <1>5, <2>2
    <3> QED
      BY <1>6, <3>1
  <2>6. ASSUME NEW i \in 1 .. ls, S[i].bulk PROVE \E k \in 1 .. ld : at2[k] = i
    <3>1. i + 1 \in 1 .. ls + 1 /\ s[i + 1].bulk
      BY <1>5, <2>6
    <3>2. PICK k \in 1 .. ld : pos[k] = i + 1
      BY <1>6, <3>1
    <3> QED
      BY <2>2, <3>2
  <2>7. AnnouncedAt(at2, S, d)
    BY <1>3, <1>5, <2>3, <2>4, <2>5, <2>6 DEF AnnouncedAt
  <2> QED
    BY <1>4, <1>5, <1>8, <2>7 DEF Carries
<1> QED
  BY <1>7, <1>8

-----------------------------------------------------------------------------
(* The client's waiters and the replies it waits for.                      *)

LinkType ==
  /\ messages \in Seq(Requests) /\ replies \in Seq(Requests)
  /\ bulks \in Seq(ClientThreads)
  /\ inuse \subseteq ClientWaiters
  /\ dest \in [ClientWaiters -> ClientThreads \cup {Client!Nobody}]
  /\ woken \in [ClientWaiters -> Nat]
  /\ bulk \in [ClientThreads -> BOOLEAN]
  /\ bulkLock \in ClientThreads \cup {Client!Nobody}

\* A thread that waits or is about to wait for the reply.
Awaits(t) == clientAt[t] \in {"transmit", "wait"}

\* A waiter is woken at most once, while its owner awaits it.
WaiterOwned(t) ==
  waiter[t] # Client!None =>
    /\ waiter[t] \in inuse /\ dest[waiter[t]] = t
    /\ woken[waiter[t]] # 0 => woken[waiter[t]] = 1 /\ Awaits(t)
WaitersOwned ==
  /\ \A t \in ClientThreads : WaiterOwned(t)
  /\ \A w \in ClientWaiters \ inuse : woken[w] = 0

\* What VideoCore has to answer or has answered is awaited.
Asked(m) == waiter[m.from] = m.waiter /\ Awaits(m.from) /\ woken[m.waiter] = 0
RequestsAsked ==
  /\ \A i \in 1 .. Len(replies) : replies[i].waiter # Client!None /\ Asked(replies[i])
  /\ \A i \in 1 .. Len(messages) :
       messages[i].waiter # Client!None => Asked(messages[i])

\* No two of them have the same waiter.
RequestsApart ==
  /\ \A i, j \in 1 .. Len(replies) : replies[i].waiter = replies[j].waiter => i = j
  /\ \A i, j \in 1 .. Len(messages) :
       messages[i].waiter = messages[j].waiter /\ messages[i].waiter # Client!None => i = j
  /\ \A i \in 1 .. Len(messages), j \in 1 .. Len(replies) :
       messages[i].waiter # replies[j].waiter

WaitersRight == WaitersOwned /\ RequestsAsked /\ RequestsApart

\* What is asked stays so, and nothing is sent.
LEMMA AskedStays ==
  ASSUME LinkType, RequestsAsked, RequestsApart, UNCHANGED <<messages, replies>>,
         \A m \in Requests : m.waiter # Client!None /\ Asked(m) => Asked(m)'
  PROVE  RequestsAsked' /\ RequestsApart'
<1>1. /\ \A i \in 1 .. Len(replies) : replies[i] \in Requests
      /\ \A i \in 1 .. Len(messages) : messages[i] \in Requests
  BY DEF LinkType
<1>2. RequestsApart'
  BY DEF RequestsApart
<1>3. ASSUME NEW i \in 1 .. Len(replies)
      PROVE  replies[i].waiter # Client!None /\ Asked(replies[i])'
  <2>1. PICK m \in Requests : m = replies[i]
    BY <1>1
  <2>2. replies'[i] = m /\ m.waiter # Client!None /\ Asked(m)
    BY <2>1 DEF RequestsAsked
  <2>3. Asked(m)'
    BY <2>2
  <2> QED
    BY <2>1, <2>2, <2>3 DEF Asked, Awaits
<1>4. ASSUME NEW i \in 1 .. Len(messages), messages[i].waiter # Client!None
      PROVE  Asked(messages[i])'
  <2>1. PICK m \in Requests : m = messages[i]
    BY <1>1
  <2>2. messages'[i] = m /\ m.waiter # Client!None /\ Asked(m)
    BY <1>4, <2>1 DEF RequestsAsked
  <2>3. Asked(m)'
    BY <2>2
  <2> QED
    BY <2>1, <2>2, <2>3 DEF Asked, Awaits
<1> QED
  BY <1>2, <1>3, <1>4 DEF RequestsAsked

\* A thread that is not waited for moves.
LEMMA WaitersStay ==
  ASSUME ClientInv, LinkType, WaitersRight, NEW t \in ClientThreads, NEW there,
         UNCHANGED <<messages, replies, inuse, dest, woken, waiter>>,
         clientAt' = [clientAt EXCEPT ![t] = there],
         \/ there \in {"transmit", "wait"} \/ ~Awaits(t)
         \/ waiter[t] = Client!None
  PROVE  WaitersRight'
<1>1. WaitersOwned'
  BY DEF ClientInv, ClientType, WaitersRight, WaitersOwned, WaiterOwned, Awaits
<1>2. ASSUME NEW m \in Requests, m.waiter # Client!None, Asked(m) PROVE Asked(m)'
  BY <1>2 DEF ClientInv, ClientType, Asked, Awaits, Requests
<1> QED
  BY <1>1, <1>2, AskedStays DEF WaitersRight

\* get_waiter takes a waiter nobody has.
LEMMA WaiterTaken ==
  ASSUME ClientInv, LinkType, WaitersRight, NEW t \in ClientThreads, Client!GetWaiter(t)
  PROVE  WaitersRight'
<1>1. PICK w \in ClientWaiters \ inuse :
        /\ inuse' = inuse \cup {w} /\ dest' = [dest EXCEPT ![w] = t]
        /\ waiter' = [waiter EXCEPT ![t] = w]
        /\ clientAt' = [clientAt EXCEPT ![t] = "queue"]
        /\ UNCHANGED <<messages, replies, woken>>
        /\ clientAt[t] = "get_waiter" /\ waiter[t] = Client!None
  BY DEF Client!GetWaiter, Client!Goto, Client!linkVars, ClientInv, WaiterInCall
<1>2. /\ waiter \in [ClientThreads -> ClientWaiters \cup {Client!None}]
      /\ clientAt \in [ClientThreads -> ClientPlaces]
      /\ dest \in [ClientWaiters -> ClientThreads \cup {Client!Nobody}]
  BY DEF ClientInv, ClientType, LinkType
<1>3. woken[w] = 0
  BY <1>1 DEF WaitersRight, WaitersOwned
<1>4. ASSUME NEW u \in ClientThreads PROVE WaiterOwned(u)'
  <2>1. WaiterOwned(u)
    BY DEF WaitersRight, WaitersOwned
  <2> QED
    BY <1>1, <1>2, <1>3, <2>1 DEF WaiterOwned, Awaits
<1>5. WaitersOwned'
  BY <1>1, <1>4 DEF WaitersOwned, WaitersRight
<1>6. ASSUME NEW m \in Requests, m.waiter # Client!None, Asked(m) PROVE Asked(m)'
  BY <1>1, <1>2, <1>6 DEF Asked, Awaits, Requests
<1> QED
  BY <1>1, <1>5, <1>6, AskedStays DEF WaitersRight

\* release_waiter gives back one that is not asked for.
LEMMA WaiterReleased ==
  ASSUME ClientInv, LinkType, WaitersRight, NEW t \in ClientThreads, Client!Release(t)
  PROVE  WaitersRight'
<1>1. /\ clientAt[t] = "release" /\ waiter[t] # Client!None
      /\ inuse' = inuse \ {waiter[t]}
      /\ waiter' = [waiter EXCEPT ![t] = Client!None]
      /\ clientAt' = [clientAt EXCEPT ![t] = "idle"]
      /\ UNCHANGED <<messages, replies, woken, dest>>
  BY DEF Client!Release, Client!Goto, Client!linkVars, ClientInv, WaiterInCall
<1>2. /\ waiter \in [ClientThreads -> ClientWaiters \cup {Client!None}]
      /\ clientAt \in [ClientThreads -> ClientPlaces]
      /\ \A u \in ClientThreads : WaiterOwned(u)
      /\ \A w \in ClientWaiters \ inuse : woken[w] = 0
  BY DEF ClientInv, ClientType, WaitersRight, WaitersOwned
<1>3. woken[waiter[t]] = 0 /\ dest[waiter[t]] = t
  BY <1>1, <1>2 DEF WaiterOwned, Awaits
<1>4. ASSUME NEW u \in ClientThreads PROVE WaiterOwned(u)'
  <2>1. WaiterOwned(u)
    BY <1>2
  <2> QED
    BY <1>1, <1>2, <1>3, <2>1 DEF WaiterOwned, Awaits
<1>5. WaitersOwned'
  BY <1>1, <1>2, <1>3, <1>4 DEF WaitersOwned
<1>6. ASSUME NEW m \in Requests, m.waiter # Client!None, Asked(m) PROVE Asked(m)'
  BY <1>1, <1>2, <1>6 DEF Asked, Awaits, Requests
<1> QED
  BY <1>1, <1>5, <1>6, AskedStays DEF WaitersRight

\* A thread that was woken has its reply.
LEMMA WaiterWoken ==
  ASSUME ClientInv, LinkType, WaitersRight, NEW t \in ClientThreads, Client!Woken(t)
  PROVE  WaitersRight'
<1>1. /\ clientAt[t] = "wait" /\ waiter[t] # Client!None /\ woken[waiter[t]] > 0
      /\ woken' = [woken EXCEPT ![waiter[t]] = @ - 1]
      /\ clientAt' = [clientAt EXCEPT ![t] = "release"]
      /\ UNCHANGED <<messages, replies, waiter, inuse, dest>>
  BY DEF Client!Woken, Client!Goto, Client!linkVars, ClientInv, WaiterInCall
<1>2. /\ waiter \in [ClientThreads -> ClientWaiters \cup {Client!None}]
      /\ clientAt \in [ClientThreads -> ClientPlaces]
      /\ woken \in [ClientWaiters -> Nat]
      /\ \A u \in ClientThreads : WaiterOwned(u)
      /\ \A w \in ClientWaiters \ inuse : woken[w] = 0
  BY DEF ClientInv, ClientType, LinkType, WaitersRight, WaitersOwned
<1>3. PICK w \in ClientWaiters :
        /\ w = waiter[t] /\ w \in inuse /\ dest[w] = t
        /\ woken[w] = 1 /\ woken'[w] = 0
        /\ \A v \in ClientWaiters : v # w => woken'[v] = woken[v]
  <2>1. waiter[t] \in ClientWaiters
    BY <1>1, <1>2
  <2>2. /\ waiter[t] \in inuse /\ dest[waiter[t]] = t /\ woken[waiter[t]] = 1
    BY <1>1, <1>2, <2>1 DEF WaiterOwned
  <2> QED
    BY <1>1, <1>2, <2>1, <2>2
<1>4. ASSUME NEW u \in ClientThreads PROVE WaiterOwned(u)'
  <2>1. WaiterOwned(u)
    BY <1>2
  <2> QED
    BY <1>1, <1>2, <1>3, <2>1 DEF WaiterOwned, Awaits
<1>5. WaitersOwned'
  BY <1>1, <1>2, <1>3, <1>4 DEF WaitersOwned
<1>6. ASSUME NEW m \in Requests, m.waiter # Client!None, Asked(m) PROVE Asked(m)'
  <2>1. m.waiter \in ClientWaiters /\ m.from \in ClientThreads
    BY <1>6 DEF Requests
  <2>2. m.waiter # w /\ m.from # t
    BY <1>3, <1>6 DEF Asked
  <2> QED
    BY <1>1, <1>2, <1>3, <1>6, <2>1, <2>2 DEF Asked, Awaits
<1> QED
  BY <1>1, <1>5, <1>6, AskedStays DEF WaitersRight

LEMMA SomeLength ==
  ASSUME NEW S, NEW s \in Seq(S), s # <<>>
  PROVE  \E n \in Nat : n + 1 = Len(s)
<1>1. Len(s) \in Nat /\ Len(s) # 0
  OBVIOUS
<1>2. Len(s) - 1 \in Nat /\ (Len(s) - 1) + 1 = Len(s)
  BY <1>1
<1> QED
  BY <1>2

\* mmal_vc_init resets the waiters when nobody has one.
LEMMA WaitersReset ==
  ASSUME ClientInv, LinkType, WaitersRight, NEW t \in ClientThreads,
         clientRefcount = 0, inuse' = {}, woken' = [w \in ClientWaiters |-> 0],
         clientAt' = [clientAt EXCEPT ![t] = "opened"],
         UNCHANGED <<messages, replies, waiter>>
  PROVE  WaitersRight'
<1>1. \A u \in ClientThreads : clientAt[u] = "idle" /\ waiter[u] = Client!None
  BY HeldSome DEF ClientInv, ClientType, OpensCounted, OpenInCall, WaiterInCall
<1>2. WaitersOwned'
  BY <1>1 DEF WaitersOwned, WaiterOwned
<1>3. ASSUME NEW m \in Requests, Asked(m) PROVE FALSE
  BY <1>1, <1>3 DEF Asked, Awaits, Requests
<1> QED
  BY <1>2, <1>3, AskedStays DEF WaitersRight

\* A message is queued, and its sender awaits the reply.
LEMMA WaiterAsks ==
  ASSUME ClientInv, LinkType, WaitersRight, NEW t \in ClientThreads,
         Client!QueueMessage(t)
  PROVE  WaitersRight'
<1>1. PICK m \in Requests, there \in {"transmit", "wait", "idle"} :
        /\ m = [from |-> t, bulk |-> bulk[t], waiter |-> waiter[t]]
        /\ messages' = Append(messages, m) /\ clientAt[t] = "queue"
        /\ clientAt' = [clientAt EXCEPT ![t] = there]
        /\ there = "idle" => waiter[t] = Client!None
        /\ UNCHANGED <<replies, waiter, inuse, dest, woken>>
  BY DEF Client!QueueMessage, Client!Goto, Client!waitVars, ClientInv, ClientType,
    LinkType, Requests
<1>2. /\ waiter \in [ClientThreads -> ClientWaiters \cup {Client!None}]
      /\ clientAt \in [ClientThreads -> ClientPlaces]
      /\ woken \in [ClientWaiters -> Nat]
      /\ \A u \in ClientThreads : WaiterOwned(u)
      /\ \A w \in ClientWaiters \ inuse : woken[w] = 0
  BY DEF ClientInv, ClientType, LinkType, WaitersRight, WaitersOwned
<1>3. /\ Len(messages') = Len(messages) + 1 /\ Len(messages) \in Nat
      /\ \A i \in 1 .. Len(messages) : messages'[i] = messages[i] /\ messages[i] \in Requests
      /\ messages'[Len(messages) + 1] = m
      /\ \A i \in 1 .. Len(replies) : replies[i] \in Requests
  BY <1>1, AppendProperties DEF LinkType
<1>4. WaitersOwned'
  <2>1. ASSUME NEW u \in ClientThreads PROVE WaiterOwned(u)'
    <3>1. WaiterOwned(u)
      BY <1>2
    <3> QED
      BY <1>1, <1>2, <3>1 DEF WaiterOwned, Awaits
  <2> QED
    BY <1>1, <1>2, <2>1 DEF WaitersOwned
<1>5. ASSUME NEW r \in Requests, r.waiter # Client!None, Asked(r)
      PROVE  r.waiter # m.waiter /\ r.from # t /\ waiter'[r.from] = r.waiter
             /\ clientAt'[r.from] \in {"transmit", "wait"} /\ woken'[r.waiter] = 0
  <2>1. r.from \in ClientThreads /\ r.from # t
    BY <1>1, <1>5 DEF Asked, Awaits, Requests
  <2>2. r.waiter # m.waiter
    BY <1>1, <1>2, <1>5, <2>1 DEF Asked, WaiterOwned
  <2> QED
    BY <1>1, <1>2, <1>5, <2>1, <2>2 DEF Asked, Awaits
<1>6. \A i \in 1 .. Len(replies) :
        /\ replies[i].waiter # Client!None /\ replies[i] \in Requests /\ Asked(replies[i])
  BY <1>3 DEF WaitersRight, RequestsAsked
<1>7. \A i \in 1 .. Len(messages) : messages[i].waiter # Client!None =>
        messages[i] \in Requests /\ Asked(messages[i])
  BY <1>3 DEF WaitersRight, RequestsAsked
<1>8. ASSUME m.waiter # Client!None
      PROVE  /\ waiter'[m.from] = m.waiter /\ clientAt'[m.from] \in {"transmit", "wait"}
             /\ woken'[m.waiter] = 0
  BY <1>1, <1>2, <1>8 DEF WaiterOwned, Awaits
<1>9. RequestsAsked'
  <2>1. \A i \in 1 .. Len(replies') :
          /\ replies'[i].waiter # Client!None
          /\ waiter'[replies'[i].from] = replies'[i].waiter
          /\ clientAt'[replies'[i].from] \in {"transmit", "wait"}
          /\ woken'[replies'[i].waiter] = 0
    BY <1>1, <1>5, <1>6
  <2>2. ASSUME NEW i \in 1 .. Len(messages'), messages'[i].waiter # Client!None
        PROVE  /\ waiter'[messages'[i].from] = messages'[i].waiter
               /\ clientAt'[messages'[i].from] \in {"transmit", "wait"}
               /\ woken'[messages'[i].waiter] = 0
    <3>1. CASE i \in 1 .. Len(messages)
      BY <1>3, <1>5, <1>7, <2>2, <3>1
    <3>2. CASE i = Len(messages) + 1
      BY <1>3, <1>8, <2>2, <3>2
    <3> QED
      BY <1>3, <3>1, <3>2
  <2> QED
    BY <2>1, <2>2 DEF RequestsAsked, Asked, Awaits
<1>10. RequestsApart'
  <2>1. ASSUME NEW i \in 1 .. Len(messages'), NEW j \in 1 .. Len(messages'),
               messages'[i].waiter = messages'[j].waiter,
               messages'[i].waiter # Client!None
        PROVE  i = j
    <3>1. \A k \in 1 .. Len(messages) :
            messages[k].waiter # Client!None => messages[k].waiter # m.waiter
      BY <1>5, <1>7
    <3>2. /\ i \in 1 .. Len(messages) \/ i = Len(messages) + 1
          /\ j \in 1 .. Len(messages) \/ j = Len(messages) + 1
      BY <1>3
    <3> QED
      BY <1>3, <2>1, <3>1, <3>2 DEF WaitersRight, RequestsApart
  <2>2. ASSUME NEW i \in 1 .. Len(messages'), NEW j \in 1 .. Len(replies)
        PROVE  messages'[i].waiter # replies[j].waiter
    <3>1. replies[j].waiter # m.waiter
      BY <1>5, <1>6
    <3>2. i \in 1 .. Len(messages) \/ i = Len(messages) + 1
      BY <1>3
    <3> QED
      BY <1>3, <3>1, <3>2 DEF WaitersRight, RequestsApart
  <2> QED
    BY <1>1, <2>1, <2>2 DEF WaitersRight, RequestsApart
<1> QED
  BY <1>4, <1>9, <1>10 DEF WaitersRight

\* VideoCore takes a message, and answers it if that is awaited.
LEMMA WaiterAnswered ==
  ASSUME LinkType, WaitersRight, Client!VideoCore
  PROVE  WaitersRight'
<1>1. PICK m \in Requests : m = Head(messages)
  BY HeadTailProperties DEF Client!VideoCore, LinkType
<1>2. /\ messages # <<>> /\ messages' = Tail(messages)
      /\ replies' = IF m.waiter # Client!None THEN Append(replies, m) ELSE replies
      /\ UNCHANGED <<inuse, dest, woken, waiter, clientAt>>
  BY <1>1 DEF Client!VideoCore, Client!waitVars
<1>3. PICK lm \in Nat : lm + 1 = Len(messages)
  BY <1>2, SomeLength DEF LinkType
<1>4. PICK lr \in Nat : lr = Len(replies)
  BY DEF LinkType
<1>5. /\ m = messages[1] /\ Len(messages') = lm
      /\ \A i \in 1 .. lm : messages'[i] = messages[i + 1]
  BY <1>1, <1>2, <1>3, HeadTailProperties DEF LinkType
<1>6. /\ \A i \in 1 .. lr : replies[i].waiter # Client!None /\ Asked(replies[i])
      /\ \A i \in 1 .. lm + 1 : messages[i].waiter # Client!None => Asked(messages[i])
      /\ \A i, j \in 1 .. lr : replies[i].waiter = replies[j].waiter => i = j
      /\ \A i, j \in 1 .. lm + 1 :
           messages[i].waiter = messages[j].waiter /\ messages[i].waiter # Client!None
             => i = j
      /\ \A i \in 1 .. lm + 1, j \in 1 .. lr : messages[i].waiter # replies[j].waiter
  BY <1>3, <1>4 DEF WaitersRight, RequestsAsked, RequestsApart
<1>7. WaitersOwned'
  BY <1>2 DEF WaitersRight, WaitersOwned, WaiterOwned, Awaits
<1>8. \A r : Asked(r)' <=> Asked(r)
  BY <1>2 DEF Asked, Awaits
<1>9. ASSUME NEW i \in 1 .. lm, messages'[i].waiter # Client!None
      PROVE  Asked(messages'[i])
  <2>1. i + 1 \in 1 .. lm + 1 /\ messages'[i] = messages[i + 1]
    BY <1>5
  <2> QED
    BY <1>6, <1>9, <2>1
<1>10. ASSUME NEW i \in 1 .. lm, NEW j \in 1 .. lm,
              messages'[i].waiter = messages'[j].waiter,
              messages'[i].waiter # Client!None
       PROVE  i = j
  <2>1. /\ i + 1 \in 1 .. lm + 1 /\ messages'[i] = messages[i + 1]
        /\ j + 1 \in 1 .. lm + 1 /\ messages'[j] = messages[j + 1]
    BY <1>5
  <2>2. i + 1 = j + 1
    BY <1>6, <1>10, <2>1
  <2> QED
    BY <2>2
<1>11. \A i \in 1 .. lm, j \in 1 .. lr : messages'[i].waiter # replies[j].waiter
  <2> SUFFICES ASSUME NEW i \in 1 .. lm, NEW j \in 1 .. lr
               PROVE  messages'[i].waiter # replies[j].waiter
    OBVIOUS
  <2>1. i + 1 \in 1 .. lm + 1 /\ messages'[i] = messages[i + 1]
    BY <1>5
  <2> QED
    BY <1>6, <2>1
<1>12. CASE m.waiter = Client!None
  <2>1. replies' = replies
    BY <1>2, <1>12
  <2>2. Len(replies') = lr /\ Len(messages') = lm
    BY <1>4, <1>5, <2>1
  <2>3. \A i \in 1 .. lr : replies'[i].waiter # Client!None /\ Asked(replies'[i])
    BY <1>6, <2>1
  <2>4. RequestsAsked'
    BY <1>8, <1>9, <2>2, <2>3 DEF RequestsAsked, Asked, Awaits
  <2>5. RequestsApart'
    BY <1>6, <1>10, <1>11, <2>1, <2>2 DEF RequestsApart
  <2> QED
    BY <1>7, <2>4, <2>5 DEF WaitersRight
<1>13. CASE m.waiter # Client!None
  <2>1. /\ Len(replies') = lr + 1 /\ replies'[lr + 1] = m
        /\ \A i \in 1 .. lr : replies'[i] = replies[i]
    BY <1>2, <1>4, <1>13, AppendProperties DEF LinkType
  <2>2. Asked(m) /\ 1 \in 1 .. lm + 1
    BY <1>3, <1>5, <1>6, <1>13
  <2>3. ASSUME NEW i \in 1 .. lr + 1 PROVE replies'[i].waiter # Client!None /\ Asked(replies'[i])
    <3>1. i \in 1 .. lr \/ i = lr + 1
      OBVIOUS
    <3> QED
      BY <1>6, <1>13, <2>1, <2>2, <3>1
  <2>4. ASSUME NEW i \in 1 .. lr + 1, NEW j \in 1 .. lr + 1,
               replies'[i].waiter = replies'[j].waiter
        PROVE  i = j
    <3>1. \A k \in 1 .. lr : replies[k].waiter # m.waiter
      BY <1>5, <1>6, <2>2
    <3>2. (i \in 1 .. lr \/ i = lr + 1) /\ (j \in 1 .. lr \/ j = lr + 1)
      OBVIOUS
    <3> QED
      BY <1>6, <2>1, <2>4, <3>1, <3>2
  <2>5. ASSUME NEW i \in 1 .. lm, NEW j \in 1 .. lr + 1
        PROVE  messages'[i].waiter # replies'[j].waiter
    <3>1. CASE j \in 1 .. lr
      BY <1>11, <2>1, <3>1
    <3>2. CASE j = lr + 1
      <4>1. i + 1 \in 1 .. lm + 1 /\ messages'[i] = messages[i + 1] /\ i + 1 # 1
        BY <1>5
      <4>2. messages[i + 1].waiter # m.waiter
        BY <1>5, <1>6, <1>13, <2>2, <4>1
      <4> QED
        BY <2>1, <3>2, <4>1, <4>2
    <3> QED
      BY <3>1, <3>2
  <2>6. Len(replies') = lr + 1 /\ Len(messages') = lm
    BY <1>5, <2>1
  <2>7. RequestsAsked'
    BY <1>8, <1>9, <2>3, <2>6 DEF RequestsAsked, Asked, Awaits
  <2>8. RequestsApart'
    BY <1>10, <2>4, <2>5, <2>6 DEF RequestsApart
  <2> QED
    BY <1>7, <2>7, <2>8 DEF WaitersRight
<1> QED
  BY <1>12, <1>13

\* The reply is given to the waiter of the thread that asked.
LEMMA WaiterReplied ==
  ASSUME ClientInv, LinkType, WaitersRight, Client!Reply
  PROVE  WaitersRight' /\ (wrong' <=> wrong)
<1>1. PICK m \in Requests : m = Head(replies)
  BY HeadTailProperties DEF Client!Reply, LinkType
<1>2. /\ replies # <<>> /\ replies' = Tail(replies)
      /\ wrong' = (wrong \/ m.waiter \notin inuse \/ dest[m.waiter] # m.from)
      /\ woken' = [woken EXCEPT ![m.waiter] = @ + 1]
      /\ UNCHANGED <<messages, inuse, dest, waiter, clientAt>>
  BY <1>1 DEF Client!Reply
<1>3. PICK lr \in Nat : lr + 1 = Len(replies)
  BY <1>2, SomeLength DEF LinkType
<1>4. PICK lm \in Nat : lm = Len(messages)
  BY DEF LinkType
<1>5. /\ m = replies[1] /\ Len(replies') = lr
      /\ \A i \in 1 .. lr : replies'[i] = replies[i + 1]
      /\ \A i \in 1 .. lr + 1 : replies[i] \in Requests
      /\ \A i \in 1 .. lm : messages[i] \in Requests
  BY <1>1, <1>2, <1>3, <1>4, HeadTailProperties DEF LinkType
<1>6. /\ \A i \in 1 .. lr + 1 : replies[i].waiter # Client!None /\ Asked(replies[i])
      /\ \A i \in 1 .. lm : messages[i].waiter # Client!None => Asked(messages[i])
      /\ \A i, j \in 1 .. lr + 1 : replies[i].waiter = replies[j].waiter => i = j
      /\ \A i, j \in 1 .. lm :
           messages[i].waiter = messages[j].waiter /\ messages[i].waiter # Client!None
             => i = j
      /\ \A i \in 1 .. lm, j \in 1 .. lr + 1 : messages[i].waiter # replies[j].waiter
  BY <1>3, <1>4 DEF WaitersRight, RequestsAsked, RequestsApart
<1>7. 1 \in 1 .. lr + 1 /\ m.waiter # Client!None /\ Asked(m)
  BY <1>5, <1>6
<1>8. PICK u \in ClientThreads, w \in ClientWaiters :
        /\ u = m.from /\ w = m.waiter /\ waiter[u] = w /\ Awaits(u)
        /\ woken[w] = 0 /\ woken'[w] = 1
        /\ \A v \in ClientWaiters : v # w => woken'[v] = woken[v]
        /\ w \in inuse /\ dest[w] = u
  <2>1. m.from \in ClientThreads /\ m.waiter \in ClientWaiters
    BY <1>7 DEF Requests
  <2>2. WaiterOwned(m.from) /\ woken \in [ClientWaiters -> Nat]
    BY <2>1 DEF WaitersRight, WaitersOwned, LinkType
  <2>3. /\ waiter[m.from] = m.waiter /\ Awaits(m.from) /\ woken[m.waiter] = 0
    BY <1>7 DEF Asked
  <2>4. /\ woken'[m.waiter] = 1
        /\ \A v \in ClientWaiters : v # m.waiter => woken'[v] = woken[v]
    BY <1>2, <2>1, <2>2, <2>3
  <2>5. m.waiter \in inuse /\ dest[m.waiter] = m.from
    BY <1>7, <2>2, <2>3 DEF WaiterOwned
  <2> QED
    BY <2>1, <2>3, <2>4, <2>5
<1>9. wrong' <=> wrong
  BY <1>2, <1>8
<1>10. WaitersOwned'
  <2>1. ASSUME NEW t \in ClientThreads PROVE WaiterOwned(t)'
    <3>1. WaiterOwned(t) /\ waiter[t] \in ClientWaiters \cup {Client!None}
      BY DEF WaitersRight, WaitersOwned, ClientInv, ClientType
    <3>2. CASE waiter[t] = w
      <4>1. t = u
        BY <1>7, <1>8, <3>1, <3>2 DEF WaiterOwned
      <4> QED
        BY <1>2, <1>8, <4>1 DEF WaiterOwned, Awaits
    <3>3. CASE waiter[t] # w
      BY <1>2, <1>8, <3>1, <3>3 DEF WaiterOwned, Awaits
    <3> QED
      BY <3>2, <3>3
  <2>2. \A v \in ClientWaiters \ inuse : woken'[v] = 0
    BY <1>8 DEF WaitersRight, WaitersOwned
  <2> QED
    BY <1>2, <2>1, <2>2 DEF WaitersOwned
<1>11. ASSUME NEW r \in Requests, r.waiter # Client!None, r.waiter # w, Asked(r)
       PROVE  Asked(r)'
  BY <1>2, <1>8, <1>11 DEF Asked, Awaits, Requests
<1>12. ASSUME NEW i \in 1 .. lr
       PROVE  replies'[i].waiter # Client!None /\ Asked(replies[i])'
  <2>1. i + 1 \in 1 .. lr + 1 /\ replies'[i] = replies[i + 1] /\ i + 1 # 1
    BY <1>5
  <2>2. PICK r \in Requests : r = replies[i + 1]
    BY <1>5, <2>1
  <2>3. r.waiter # Client!None /\ Asked(r) /\ r.waiter # w
    BY <1>5, <1>6, <1>7, <1>8, <2>1, <2>2
  <2>4. Asked(r)'
    BY <1>11, <2>3
  <2> QED
    BY <2>1, <2>2, <2>3, <2>4 DEF Asked, Awaits
<1>13. ASSUME NEW i \in 1 .. lm, messages[i].waiter # Client!None
       PROVE  Asked(messages[i])'
  <2>1. PICK r \in Requests : r = messages[i]
    BY <1>5
  <2>2. Asked(r) /\ r.waiter # w
    BY <1>5, <1>6, <1>7, <1>8, <1>13, <2>1
  <2>3. Asked(r)'
    BY <1>11, <1>13, <2>1, <2>2
  <2> QED
    BY <1>2, <2>1, <2>3 DEF Asked, Awaits
<1>14. RequestsAsked'
  BY <1>2, <1>4, <1>5, <1>12, <1>13 DEF RequestsAsked
<1>15. RequestsApart'
  <2>1. ASSUME NEW i \in 1 .. lr, NEW j \in 1 .. lr,
               replies'[i].waiter = replies'[j].waiter
        PROVE  i = j
    <3>1. /\ i + 1 \in 1 .. lr + 1 /\ replies'[i] = replies[i + 1]
          /\ j + 1 \in 1 .. lr + 1 /\ replies'[j] = replies[j + 1]
      BY <1>5
    <3>2. i + 1 = j + 1
      BY <1>6, <2>1, <3>1
    <3> QED
      BY <3>2
  <2>2. ASSUME NEW i \in 1 .. lm, NEW j \in 1 .. lr
        PROVE  messages[i].waiter # replies'[j].waiter
    <3>1. j + 1 \in 1 .. lr + 1 /\ replies'[j] = replies[j + 1]
      BY <1>5
    <3> QED
      BY <1>6, <3>1
  <2> QED
    BY <1>2, <1>4, <1>5, <1>6, <2>1, <2>2 DEF RequestsApart
<1> QED
  BY <1>9, <1>10, <1>14, <1>15 DEF WaitersRight

-----------------------------------------------------------------------------
(* The client's transfers follow the messages that announce them.          *)

\* bulk_lock is held from before the message until after the transfer.
BulkLocked ==
  \A t \in ClientThreads :
    /\ clientAt[t] = "transmit" => bulk[t]
    /\ bulk[t] /\ clientAt[t] \in {"get_waiter", "queue", "transmit"} => bulkLock = t

\* The transfers queued, and the one its thread is about to queue.
Announced == IF bulkLock \in ClientThreads /\ clientAt[bulkLock] = "transmit"
             THEN Append(bulks, bulkLock) ELSE bulks

BulkRight == BulkLocked /\ Carries(messages, Announced)

LEMMA BulkStays ==
  ASSUME ClientInv, BulkRight, NEW t \in ClientThreads, NEW there,
         clientAt' = [clientAt EXCEPT ![t] = there],
         UNCHANGED <<messages, bulks, bulkLock, bulk>>,
         clientAt[t] # "transmit", there # "transmit",
         there \in {"get_waiter", "queue"} => clientAt[t] \in {"get_waiter", "queue"}
  PROVE  BulkRight'
<1>1. clientAt \in [ClientThreads -> ClientPlaces]
  BY DEF ClientInv, ClientType
<1>2. BulkLocked'
  BY <1>1 DEF BulkRight, BulkLocked
<1>3. Announced' = Announced
  BY <1>1 DEF Announced
<1> QED
  BY <1>2, <1>3 DEF BulkRight

\* A call with data takes bulk_lock.
LEMMA BulkBegins ==
  ASSUME ClientInv, LinkType, BulkRight, Client!ThreadsApart,
         NEW t \in ClientThreads, NEW wait \in BOOLEAN, NEW b \in BOOLEAN,
         Client!Call(t, wait, b)
  PROVE  BulkRight'
<1>1. PICK there \in {"get_waiter", "queue"} :
        /\ clientAt' = [clientAt EXCEPT ![t] = there] /\ clientAt[t] = "idle"
        /\ b => bulkLock = Client!Nobody
        /\ bulkLock' = IF b THEN t ELSE bulkLock
        /\ bulk' = [bulk EXCEPT ![t] = b]
        /\ UNCHANGED <<messages, bulks>>
  BY DEF Client!Call, Client!Goto, Client!linkVars
<1>2. /\ clientAt \in [ClientThreads -> ClientPlaces] /\ bulk \in [ClientThreads -> BOOLEAN]
      /\ Client!Nobody \notin ClientThreads
  BY DEF ClientInv, ClientType, LinkType, Client!ThreadsApart
<1>3. BulkLocked'
  <2> SUFFICES ASSUME NEW u \in ClientThreads
               PROVE  /\ clientAt'[u] = "transmit" => bulk'[u]
                      /\ bulk'[u] /\ clientAt'[u] \in {"get_waiter", "queue", "transmit"}
                           => bulkLock' = u
    BY DEF BulkLocked
  <2>1. CASE u = t
    BY <1>1, <1>2, <2>1
  <2>2. CASE u # t
    <3>1. bulk'[u] = bulk[u] /\ clientAt'[u] = clientAt[u]
      BY <1>1, <1>2, <2>2
    <3>2. bulkLock = u => bulkLock' = u
      BY <1>1, <1>2
    <3> QED
      BY <3>1, <3>2 DEF BulkRight, BulkLocked
  <2> QED
    BY <2>1, <2>2
<1>4. Announced' = Announced
  <2>1. CASE b
    BY <1>1, <1>2, <2>1 DEF Announced
  <2>2. CASE ~b
    BY <1>1, <1>2, <2>2 DEF Announced
  <2> QED
    BY <2>1, <2>2
<1> QED
  BY <1>1, <1>3, <1>4 DEF BulkRight

\* A message with data announces the transfer of the thread that sends it.
LEMMA BulkAnnounced ==
  ASSUME ClientInv, LinkType, BulkRight, NEW t \in ClientThreads,
         Client!QueueMessage(t)
  PROVE  BulkRight'
<1>1. PICK m \in Requests, there \in {"transmit", "wait", "idle"} :
        /\ m = [from |-> t, bulk |-> bulk[t], waiter |-> waiter[t]]
        /\ messages' = Append(messages, m) /\ clientAt[t] = "queue"
        /\ clientAt' = [clientAt EXCEPT ![t] = there]
        /\ there = "transmit" <=> bulk[t]
        /\ UNCHANGED <<bulks, bulk, bulkLock>>
  BY DEF Client!QueueMessage, Client!Goto, ClientInv, ClientType, LinkType, Requests
<1>2. /\ clientAt \in [ClientThreads -> ClientPlaces] /\ bulk \in [ClientThreads -> BOOLEAN]
      /\ bulks \in Seq(ClientThreads) /\ messages \in Seq(Requests)
  BY DEF ClientInv, ClientType, LinkType
<1>3. BulkLocked'
  BY <1>1, <1>2 DEF BulkRight, BulkLocked
<1>4. CASE bulk[t]
  <2>1. bulkLock = t
    BY <1>1, <1>4 DEF BulkRight, BulkLocked
  <2>2. Announced = bulks
    BY <1>1, <2>1 DEF Announced
  <2>3. Announced' = Append(bulks, m.from) /\ m.bulk
    BY <1>1, <1>2, <1>4, <2>1 DEF Announced
  <2>4. Carries(Append(messages, m), Append(bulks, m.from))
    BY <1>2, <2>2, <2>3, CarriesBulk DEF BulkRight
  <2> QED
    BY <1>1, <1>3, <2>3, <2>4 DEF BulkRight
<1>5. CASE ~bulk[t]
  <2>1. Announced' = Announced
    BY <1>1, <1>2, <1>5 DEF Announced
  <2>2. Announced \in Seq(ClientThreads) /\ ~m.bulk
    BY <1>1, <1>2, <1>5 DEF Announced
  <2>3. Carries(Append(messages, m), Announced)
    BY <1>2, <2>2, CarriesPlain DEF BulkRight
  <2> QED
    BY <1>1, <1>3, <2>1, <2>3 DEF BulkRight
<1> QED
  BY <1>4, <1>5

\* A message that was not queued announces nothing.
LEMMA BulkGivenUp ==
  ASSUME ClientInv, LinkType, BulkRight, Client!ThreadsApart,
         NEW t \in ClientThreads, Client!QueueFails(t)
  PROVE  BulkRight'
<1>1. PICK there \in {"release", "idle"} :
        /\ clientAt[t] = "queue" /\ clientAt' = [clientAt EXCEPT ![t] = there]
        /\ bulkLock' = IF bulkLock = t THEN Client!Nobody ELSE bulkLock
        /\ UNCHANGED <<messages, bulks, bulk>>
  BY DEF Client!QueueFails, Client!Goto, Client!Unlock, Client!linkVars
<1>2. clientAt \in [ClientThreads -> ClientPlaces] /\ Client!Nobody \notin ClientThreads
  BY DEF ClientInv, ClientType, Client!ThreadsApart
<1>3. BulkLocked'
  BY <1>1, <1>2 DEF BulkRight, BulkLocked
<1>4. Announced' = Announced
  <2>1. CASE bulkLock = t
    BY <1>1, <1>2, <2>1 DEF Announced
  <2>2. CASE bulkLock # t
    BY <1>1, <1>2, <2>2 DEF Announced
  <2> QED
    BY <2>1, <2>2
<1> QED
  BY <1>1, <1>3, <1>4 DEF BulkRight

\* The transfer that was announced is queued.
LEMMA BulkTransmitted ==
  ASSUME ClientInv, LinkType, BulkRight, Client!ThreadsApart,
         NEW t \in ClientThreads, Client!Transmit(t), ~bulkFailed'
  PROVE  BulkRight'
<1>1. PICK there \in {"wait", "idle"} :
        /\ clientAt[t] = "transmit" /\ clientAt' = [clientAt EXCEPT ![t] = there]
        /\ bulkLock' = IF bulkLock = t THEN Client!Nobody ELSE bulkLock
        /\ bulks' = Append(bulks, t)
        /\ UNCHANGED <<messages, bulk>>
  BY DEF Client!Transmit, Client!Goto, Client!Unlock
<1>2. clientAt \in [ClientThreads -> ClientPlaces] /\ Client!Nobody \notin ClientThreads
  BY DEF ClientInv, ClientType, Client!ThreadsApart
<1>3. bulkLock = t
  BY <1>1 DEF BulkRight, BulkLocked
<1>4. BulkLocked'
  BY <1>1, <1>2, <1>3 DEF BulkRight, BulkLocked
<1>5. Announced = Append(bulks, t)
  BY <1>1, <1>3 DEF Announced
<1>6. Announced' = Append(bulks, t)
  BY <1>1, <1>2, <1>3 DEF Announced
<1> QED
  BY <1>1, <1>4, <1>5, <1>6 DEF BulkRight

\* VideoCore takes the first message with its own transfer.
LEMMA BulkTaken ==
  ASSUME ClientInv, LinkType, BulkRight, Client!VideoCore
  PROVE  BulkRight' /\ (wrong' <=> wrong)
<1>1. PICK m \in Requests : m = Head(messages)
  BY HeadTailProperties DEF Client!VideoCore, LinkType
<1>2. /\ messages # <<>> /\ messages' = Tail(messages)
      /\ m.bulk => bulks # <<>>
      /\ bulks' = IF m.bulk THEN Tail(bulks) ELSE bulks
      /\ wrong' = (wrong \/ (m.bulk /\ Head(bulks) # m.from))
      /\ UNCHANGED <<clientAt, bulk, bulkLock>>
  BY <1>1 DEF Client!VideoCore
<1>3. bulks \in Seq(ClientThreads) /\ messages \in Seq(Requests) /\ m.bulk \in BOOLEAN
  BY DEF LinkType, Requests
<1>4. PICK d \in Seq(ClientThreads) : d = Announced
  <2>1. \A t \in ClientThreads : Append(bulks, t) \in Seq(ClientThreads)
    BY <1>3
  <2>2. Announced \in Seq(ClientThreads)
    BY <1>3, <2>1 DEF Announced
  <2> QED
    BY <2>2
<1>5. IF m.bulk THEN Head(d) = m.from /\ Carries(Tail(messages), Tail(d))
                ELSE Carries(Tail(messages), d)
  BY <1>1, <1>2, <1>3, <1>4, CarriesFirst DEF BulkRight
<1>6. BulkLocked'
  BY <1>2 DEF BulkRight, BulkLocked
<1>7. CASE ~m.bulk
  <2>1. Announced' = d
    BY <1>2, <1>4, <1>7 DEF Announced
  <2> QED
    BY <1>2, <1>5, <1>6, <1>7, <2>1 DEF BulkRight
<1>8. CASE m.bulk
  <2>1. Head(d) = Head(bulks)
    BY <1>2, <1>3, <1>4, <1>8 DEF Announced
  <2>2. ASSUME NEW t \in ClientThreads
        PROVE  Tail(Append(bulks, t)) = Append(Tail(bulks), t)
    BY <1>2, <1>3, <1>8
  <2>3. Announced' = Tail(d)
    BY <1>2, <1>4, <1>8, <2>2 DEF Announced
  <2> QED
    BY <1>2, <1>5, <1>6, <1>8, <2>1, <2>3 DEF BulkRight
<1> QED
  BY <1>7, <1>8

\* Until VCHIQ refuses a transfer whose message it took.
LinkInv ==
  /\ LinkType
  /\ ~bulkFailed => WaitersRight /\ BulkRight /\ ~wrong

LEMMA LinkStart ==
  ASSUME Client!CInit PROVE LinkInv
<1>1. LinkType
  BY DEF Client!CInit, LinkType
<1>2. WaitersRight
  BY DEF Client!CInit, WaitersRight, WaitersOwned, WaiterOwned, RequestsAsked,
    RequestsApart
<1>3. BulkRight
  <2>1. messages = <<>> /\ Announced = <<>>
    BY DEF Client!CInit, Announced
  <2>2. BulkLocked
    BY DEF Client!CInit, BulkLocked
  <2> QED
    BY <2>1, <2>2, CarriesNothing DEF BulkRight
<1> QED
  BY <1>1, <1>2, <1>3 DEF LinkInv, Client!CInit

LEMMA LinkTypeMove ==
  ASSUME ClientInv, LinkType, [Client!CNext]_clientVars
  PROVE  LinkType'
<1>1. /\ waiter \in [ClientThreads -> ClientWaiters \cup {Client!None}]
      /\ messages \in Seq(Requests) /\ replies \in Seq(Requests)
      /\ bulks \in Seq(ClientThreads) /\ inuse \subseteq ClientWaiters
      /\ dest \in [ClientWaiters -> ClientThreads \cup {Client!Nobody}]
      /\ woken \in [ClientWaiters -> Nat]
      /\ bulk \in [ClientThreads -> BOOLEAN]
      /\ bulkLock \in ClientThreads \cup {Client!Nobody}
  BY DEF ClientInv, ClientType, LinkType
<1>2. ASSUME NEW t \in ClientThreads,
             \/ Client!Init(t) \/ Client!Deinit(t) \/ Client!Opened(t)
             \/ Client!GetWaiter(t) \/ Client!Release(t)
      PROVE  LinkType'
  <2>1. UNCHANGED <<messages, replies, bulks, bulk, bulkLock>>
    BY <1>2 DEF Client!Init, Client!Deinit, Client!Opened, Client!GetWaiter,
      Client!Release, Client!linkVars
  <2>2. inuse' \subseteq ClientWaiters
    BY <1>1, <1>2 DEF Client!Init, Client!Deinit, Client!Opened, Client!GetWaiter,
      Client!Release, Client!waitVars
  <2>3. dest' \in [ClientWaiters -> ClientThreads \cup {Client!Nobody}]
    BY <1>1, <1>2 DEF Client!Init, Client!Deinit, Client!Opened, Client!GetWaiter,
      Client!Release, Client!waitVars
  <2>4. woken' \in [ClientWaiters -> Nat]
    BY <1>1, <1>2 DEF Client!Init, Client!Deinit, Client!Opened, Client!GetWaiter,
      Client!Release, Client!waitVars
  <2> QED
    BY <1>1, <2>1, <2>2, <2>3, <2>4 DEF LinkType
<1>3. ASSUME NEW t \in ClientThreads, NEW wait \in BOOLEAN, NEW b \in BOOLEAN,
             Client!Call(t, wait, b)
      PROVE  LinkType'
  BY <1>1, <1>3 DEF Client!Call, Client!waitVars, Client!linkVars, LinkType
<1>4. ASSUME NEW t \in ClientThreads, Client!QueueMessage(t)
      PROVE  LinkType'
  <2>1. [from |-> t, bulk |-> bulk[t], waiter |-> waiter[t]] \in Requests
    BY <1>1 DEF Requests
  <2>2. messages' \in Seq(Requests)
    BY <1>1, <1>4, <2>1, AppendProperties DEF Client!QueueMessage
  <2>3. UNCHANGED <<inuse, dest, woken, bulkLock, bulks, replies, bulk>>
    BY <1>4 DEF Client!QueueMessage, Client!waitVars
  <2> QED
    BY <1>1, <2>2, <2>3 DEF LinkType
<1>5. ASSUME NEW t \in ClientThreads, Client!QueueFails(t)
      PROVE  LinkType'
  BY <1>1, <1>5 DEF Client!QueueFails, Client!Unlock, Client!waitVars, Client!linkVars,
    LinkType
<1>6. ASSUME NEW t \in ClientThreads, Client!Transmit(t)
      PROVE  LinkType'
  <2>1. bulks' \in Seq(ClientThreads)
    <3>1. Append(bulks, t) \in Seq(ClientThreads)
      BY <1>1, AppendProperties
    <3> QED
      BY <1>1, <1>6, <3>1 DEF Client!Transmit
  <2>2. bulkLock' \in ClientThreads \cup {Client!Nobody}
    BY <1>1, <1>6 DEF Client!Transmit, Client!Unlock
  <2>3. UNCHANGED <<inuse, dest, woken, messages, replies, bulk>>
    BY <1>6 DEF Client!Transmit, Client!waitVars
  <2> QED
    BY <1>1, <2>1, <2>2, <2>3 DEF LinkType
<1>7. ASSUME NEW t \in ClientThreads, Client!Woken(t)
      PROVE  LinkType'
  <2>1. woken' \in [ClientWaiters -> Nat]
    <3>1. woken' = [woken EXCEPT ![waiter[t]] = @ - 1] /\ woken[waiter[t]] > 0
      BY <1>7 DEF Client!Woken
    <3>2. PICK w : w = waiter[t]
      OBVIOUS
    <3>3. \A v \in ClientWaiters : woken'[v] = IF v = w THEN woken[v] - 1 ELSE woken[v]
      BY <1>1, <3>1, <3>2
    <3>4. \A v \in ClientWaiters : woken'[v] \in Nat
      BY <1>1, <3>1, <3>2, <3>3
    <3>5. woken' = [v \in ClientWaiters |-> woken'[v]]
      BY <1>1, <3>1
    <3> QED
      BY <3>4, <3>5
  <2> QED
    BY <1>1, <1>7, <2>1 DEF Client!Woken, Client!linkVars, LinkType
<1>8. ASSUME Client!VideoCore PROVE LinkType'
  <2>1. messages # <<>> /\ Head(messages) \in Requests /\ messages' \in Seq(Requests)
    BY <1>1, <1>8, HeadTailProperties DEF Client!VideoCore
  <2>2. replies' \in Seq(Requests)
    BY <1>1, <1>8, <2>1, AppendProperties DEF Client!VideoCore
  <2>3. bulks' \in Seq(ClientThreads)
    BY <1>1, <1>8, HeadTailProperties DEF Client!VideoCore
  <2>4. UNCHANGED <<inuse, dest, woken, bulkLock, bulk>>
    BY <1>8 DEF Client!VideoCore, Client!waitVars
  <2> QED
    BY <1>1, <2>1, <2>2, <2>3, <2>4 DEF LinkType
<1>9. ASSUME Client!Reply PROVE LinkType'
  <2>1. replies' \in Seq(Requests)
    BY <1>1, <1>9, HeadTailProperties DEF Client!Reply
  <2>2. woken' \in [ClientWaiters -> Nat]
    <3>1. PICK w : woken' = [woken EXCEPT ![w] = @ + 1]
      BY <1>9 DEF Client!Reply
    <3>2. \A v \in ClientWaiters : woken'[v] = IF v = w THEN woken[v] + 1 ELSE woken[v]
      BY <1>1, <3>1
    <3>3. \A v \in ClientWaiters : woken'[v] \in Nat
      BY <1>1, <3>2
    <3>4. woken' = [v \in ClientWaiters |-> woken'[v]]
      BY <1>1, <3>1
    <3> QED
      BY <3>3, <3>4
  <2>3. UNCHANGED <<inuse, dest, messages, bulks, bulkLock, bulk>>
    BY <1>9 DEF Client!Reply
  <2> QED
    BY <1>1, <2>1, <2>2, <2>3 DEF LinkType
<1>10. CASE UNCHANGED clientVars
  BY <1>1, <1>10 DEF clientVars, LinkType
<1> QED
  BY <1>2, <1>3, <1>4, <1>5, <1>6, <1>7, <1>8, <1>9, <1>10
  DEF Client!CNext, Client!Step

LEMMA LinkMove ==
  ASSUME ClientInv, LinkInv, Client!WaitersApart, Client!ThreadsApart,
         [Client!CNext]_clientVars
  PROVE  LinkInv'
<1>1. LinkType /\ LinkType'
  BY LinkTypeMove DEF LinkInv
<1>2. SUFFICES ASSUME ~bulkFailed' PROVE WaitersRight' /\ BulkRight' /\ ~wrong'
  BY <1>1 DEF LinkInv
<1>3. WaitersRight /\ BulkRight /\ ~wrong
  BY <1>2 DEF LinkInv, Client!CNext, Client!VideoCore, Client!Reply, Client!Init,
    Client!Deinit, Client!Step, Client!Opened, Client!GetWaiter, Client!QueueMessage,
    Client!QueueFails, Client!Transmit, Client!Woken, Client!Release, Client!Call,
    clientVars
<1>4. clientAt \in [ClientThreads -> ClientPlaces]
  BY DEF ClientInv, ClientType
<1>5. ASSUME NEW t \in ClientThreads, Client!Init(t)
      PROVE  WaitersRight' /\ BulkRight' /\ ~wrong'
  <2>1. /\ clientAt[t] = "idle" /\ ~Awaits(t)
        /\ UNCHANGED <<messages, replies, bulks, bulkLock, bulk, waiter, wrong>>
    BY <1>5 DEF Client!Init, Client!linkVars, Awaits
  <2>2. CASE UNCHANGED <<inuse, dest, woken, clientAt>>
    <3>1. clientAt' = [clientAt EXCEPT ![t] = "idle"]
      BY <1>4, <2>1, <2>2
    <3>2. WaitersRight'
      BY <1>1, <1>3, <2>1, <2>2, <3>1, WaitersStay
    <3>3. BulkRight'
      BY <1>3, <2>1, <3>1, BulkStays
    <3> QED
      BY <1>3, <2>1, <3>2, <3>3
  <2>3. CASE /\ clientRefcount = 0 /\ inuse' = {}
             /\ woken' = [w \in ClientWaiters |-> 0]
             /\ clientAt' = [clientAt EXCEPT ![t] = "opened"]
    <3>1. WaitersRight'
      BY <1>1, <1>3, <2>1, <2>3, WaitersReset
    <3>2. BulkRight'
      BY <1>3, <2>1, <2>3, BulkStays
    <3> QED
      BY <1>3, <2>1, <3>1, <3>2
  <2> QED
    BY <1>5, <2>2, <2>3 DEF Client!Init, Client!Goto, Client!waitVars
<1>6. ASSUME NEW t \in ClientThreads, Client!Deinit(t) \/ Client!Opened(t)
      PROVE  WaitersRight' /\ BulkRight' /\ ~wrong'
  <2>1. /\ clientAt[t] \in {"idle", "opened"} /\ ~Awaits(t)
        /\ clientAt' = [clientAt EXCEPT ![t] = "idle"]
        /\ UNCHANGED <<messages, replies, bulks, bulkLock, bulk, waiter, wrong, inuse, dest,
                       woken>>
    BY <1>4, <1>6 DEF Client!Deinit, Client!Opened, Client!Goto, Client!linkVars,
      Client!waitVars, Awaits
  <2>2. WaitersRight'
    BY <1>1, <1>3, <2>1, WaitersStay
  <2>3. BulkRight'
    BY <1>3, <2>1, BulkStays
  <2> QED
    BY <1>3, <2>1, <2>2, <2>3
<1>7. ASSUME NEW t \in ClientThreads, NEW wait \in BOOLEAN, NEW b \in BOOLEAN,
             Client!Call(t, wait, b)
      PROVE  WaitersRight' /\ BulkRight' /\ ~wrong'
  <2>1. PICK there \in {"get_waiter", "queue"} :
          clientAt' = [clientAt EXCEPT ![t] = there]
    BY <1>7 DEF Client!Call, Client!Goto
  <2>2. /\ ~Awaits(t)
        /\ UNCHANGED <<messages, replies, waiter, wrong, inuse, dest, woken>>
    BY <1>7 DEF Client!Call, Client!linkVars, Client!waitVars, Awaits
  <2>3. WaitersRight'
    BY <1>1, <1>3, <2>1, <2>2, WaitersStay
  <2>4. BulkRight'
    BY <1>1, <1>3, <1>7, BulkBegins
  <2> QED
    BY <1>3, <2>2, <2>3, <2>4
<1>8. ASSUME NEW t \in ClientThreads,
             Client!GetWaiter(t) \/ Client!Release(t) \/ Client!Woken(t)
      PROVE  WaitersRight' /\ BulkRight' /\ ~wrong'
  <2>1. WaitersRight'
    BY <1>1, <1>3, <1>8, WaiterTaken, WaiterReleased, WaiterWoken
  <2>2. PICK there \in {"queue", "idle", "release"} :
          /\ clientAt' = [clientAt EXCEPT ![t] = there]
          /\ clientAt[t] # "transmit" /\ there = "queue" => clientAt[t] = "get_waiter"
          /\ UNCHANGED <<messages, bulks, bulkLock, bulk, wrong>>
    BY <1>8 DEF Client!GetWaiter, Client!Release, Client!Woken, Client!Goto,
      Client!linkVars
  <2>3. /\ clientAt[t] # "transmit" /\ there # "transmit"
        /\ there \in {"get_waiter", "queue"} => clientAt[t] \in {"get_waiter", "queue"}
    BY <1>8, <2>2 DEF Client!GetWaiter, Client!Release, Client!Woken
  <2>4. BulkRight'
    BY <1>3, <2>2, <2>3, BulkStays
  <2> QED
    BY <1>3, <2>1, <2>2, <2>4
<1>9. ASSUME NEW t \in ClientThreads, Client!QueueMessage(t)
      PROVE  WaitersRight' /\ BulkRight' /\ ~wrong'
  <2>1. wrong' = wrong
    BY <1>9 DEF Client!QueueMessage
  <2> QED
    BY <1>1, <1>3, <1>9, <2>1, WaiterAsks, BulkAnnounced
<1>10. ASSUME NEW t \in ClientThreads, Client!QueueFails(t) \/ Client!Transmit(t)
       PROVE  WaitersRight' /\ BulkRight' /\ ~wrong'
  <2>1. PICK there \in {"release", "wait", "idle"} :
          /\ clientAt' = [clientAt EXCEPT ![t] = there]
          /\ there = "wait" \/ waiter[t] = Client!None \/ clientAt[t] = "queue"
          /\ UNCHANGED <<messages, replies, waiter, wrong, inuse, dest, woken>>
    BY <1>2, <1>10 DEF Client!QueueFails, Client!Transmit, Client!Goto, Client!linkVars,
      Client!waitVars
  <2>2. there \in {"transmit", "wait"} \/ ~Awaits(t) \/ waiter[t] = Client!None
    BY <2>1 DEF Awaits
  <2>3. WaitersRight'
    BY <1>1, <1>3, <2>1, <2>2, WaitersStay
  <2>4. BulkRight'
    BY <1>1, <1>2, <1>3, <1>10, BulkGivenUp, BulkTransmitted
  <2> QED
    BY <1>3, <2>1, <2>3, <2>4
<1>11. ASSUME Client!VideoCore
       PROVE  WaitersRight' /\ BulkRight' /\ ~wrong'
  BY <1>1, <1>3, <1>11, WaiterAnswered, BulkTaken
<1>12. ASSUME Client!Reply
       PROVE  WaitersRight' /\ BulkRight' /\ ~wrong'
  <2>1. UNCHANGED <<messages, bulks, bulkLock, bulk, clientAt>>
    BY <1>12 DEF Client!Reply
  <2>2. BulkRight'
    BY <1>3, <2>1 DEF BulkRight, BulkLocked, Announced
  <2> QED
    BY <1>1, <1>3, <1>12, <2>2, WaiterReplied
<1>13. CASE UNCHANGED clientVars
  BY <1>3, <1>13 DEF clientVars, BulkRight, BulkLocked, Announced, WaitersRight,
    WaitersOwned, WaiterOwned, RequestsAsked, RequestsApart, Asked, Awaits
<1> QED
  BY <1>5, <1>6, <1>7, <1>8, <1>9, <1>10, <1>11, <1>12, <1>13
  DEF Client!CNext, Client!Step

LEMMA LinkRight == LinkInv => Client!RepliesAndTransfersMatch
BY DEF LinkInv, Client!RepliesAndTransfersMatch

-----------------------------------------------------------------------------
(* The contexts of the JPEG decoder, for any threads.                      *)

\* Nobody looks a context up while its last holder unlinks it, and a decoder
\* whose set-up fails leaves no wrapper behind.
CleanDecoder == ReleaseAlone /\ "late" \notin FailAt

\* Where a thread counts among the holders of its context.
Counted == {"init", "ready", "decode", "release"}
Holders(c) == {t \in DecoderThreads : pc[t] \in Counted /\ decoderHas[t] = c}

DecoderType ==
  /\ pc \in [DecoderThreads -> Counted \cup {"out", "unlink", "destroy"}]
  /\ decoderHas \in [DecoderThreads -> {Decoder!None} \cup Decoder!Contexts]
  /\ contexts \in 0 .. MaxContexts /\ alive \subseteq 1 .. contexts
  /\ comp \in {Decoder!None} \cup alive
  /\ refs \in [Decoder!Contexts -> Int]
  /\ wrappers \in [Decoder!Contexts -> {0, 1}]
  /\ DOMAIN decoderInited = Decoder!Contexts

\* A holder has the context that can be found; who destroys one has another.
HasRight(t) ==
  /\ pc[t] \in Counted \cup {"unlink"} => decoderHas[t] = comp /\ comp # Decoder!None
  /\ pc[t] = "destroy" => decoderHas[t] \in alive /\ decoderHas[t] # comp

\* Who unlinks a context is the last that had it, and destroys it alone.
LastAlone(t, u) ==
  /\ pc[t] = "unlink" /\ pc[u] \in Counted \cup {"unlink"} => t = u
  /\ pc[t] = "destroy" /\ pc[u] = "destroy" /\ decoderHas[t] = decoderHas[u] => t = u

\* The count of a context is that of its holders, and it has a wrapper when
\* it was set up and while it lives.
ContextRight(c) ==
  /\ IsFiniteSet(Holders(c)) /\ refs[c] = Cardinality(Holders(c))
  /\ decoderInited[c] => c <= contexts
  /\ ~decoderInited[c] => wrappers[c] = 0
  /\ c \notin alive => wrappers[c] = 0

DecoderInv ==
  /\ DecoderType
  /\ \A t \in DecoderThreads : HasRight(t)
  /\ \A t, u \in DecoderThreads : LastAlone(t, u)
  /\ \A c \in Decoder!Contexts : ContextRight(c)

LEMMA DecoderStart ==
  ASSUME Decoder!JDInit, MaxContexts \in Nat PROVE DecoderInv
<1>1. DecoderType
  BY DEF Decoder!JDInit, DecoderType
<1>2. \A c \in Decoder!Contexts : ContextRight(c)
  <2>1. \A c : Holders(c) = {}
    BY DEF Decoder!JDInit, Holders, Counted
  <2> QED
    BY <2>1, FS_EmptySet DEF Decoder!JDInit, ContextRight
<1>3. \A t \in DecoderThreads : pc[t] = "out"
  BY DEF Decoder!JDInit
<1> QED
  BY <1>1, <1>2, <1>3 DEF DecoderInv, HasRight, LastAlone, Counted

LEMMA AliveAreContexts ==
  ASSUME DecoderInv, MaxContexts \in Nat PROVE alive \subseteq Decoder!Contexts
<1>1. /\ contexts \in Nat /\ contexts <= MaxContexts
      /\ \A c \in alive : c \in 1 .. contexts
  BY DEF DecoderInv, DecoderType
<1> QED
  BY <1>1 DEF Decoder!Contexts

\* Nobody's place or context changes but t's, and of the contexts only c.
LEMMA HoldersKept ==
  ASSUME NEW c, NEW t \in DecoderThreads,
         \A u \in DecoderThreads \ {t} :
           pc'[u] = pc[u] /\ decoderHas'[u] = decoderHas[u],
         t \in Holders(c)' <=> t \in Holders(c)
  PROVE  Holders(c)' = Holders(c)
BY DEF Holders

LEMMA HolderJoins ==
  ASSUME NEW c, NEW t \in DecoderThreads, IsFiniteSet(Holders(c)),
         \A u \in DecoderThreads \ {t} :
           pc'[u] = pc[u] /\ decoderHas'[u] = decoderHas[u],
         t \notin Holders(c), t \in Holders(c)'
  PROVE  /\ IsFiniteSet(Holders(c)')
         /\ Cardinality(Holders(c)') = Cardinality(Holders(c)) + 1
<1>1. Holders(c)' = Holders(c) \cup {t}
  BY DEF Holders
<1> QED
  BY <1>1, FS_AddElement

LEMMA HolderLeaves ==
  ASSUME NEW c, NEW t \in DecoderThreads, IsFiniteSet(Holders(c)),
         \A u \in DecoderThreads \ {t} :
           pc'[u] = pc[u] /\ decoderHas'[u] = decoderHas[u],
         t \in Holders(c), t \notin Holders(c)'
  PROVE  /\ IsFiniteSet(Holders(c)')
         /\ Cardinality(Holders(c)') = Cardinality(Holders(c)) - 1
<1>1. Holders(c)' = Holders(c) \ {t}
  BY DEF Holders
<1> QED
  BY <1>1, FS_RemoveElement

\* brcmjpeg_create and brcmjpeg_acquire: one more holds the context found.
LEMMA HolderComes ==
  ASSUME DecoderInv, MaxContexts \in Nat, NEW t \in DecoderThreads, pc[t] = "out",
         NEW c \in Decoder!Contexts, NEW there \in Counted,
         pc' = [pc EXCEPT ![t] = there],
         decoderHas' = [decoderHas EXCEPT ![t] = c],
         refs' = [refs EXCEPT ![c] = @ + 1],
         \A u \in DecoderThreads : pc[u] # "unlink",
         \/ comp = c /\ UNCHANGED <<comp, contexts, alive>>
         \/ /\ comp = Decoder!None /\ comp' = c /\ c = contexts + 1
            /\ contexts' = c /\ alive' = alive \cup {c},
         UNCHANGED <<decoderInited, wrappers>>
  PROVE  DecoderInv'
<1>1. DecoderType'
  <2>1. /\ pc' \in [DecoderThreads -> Counted \cup {"out", "unlink", "destroy"}]
        /\ decoderHas' \in [DecoderThreads -> {Decoder!None} \cup Decoder!Contexts]
        /\ refs' \in [Decoder!Contexts -> Int]
    BY DEF DecoderInv, DecoderType
  <2>2. /\ contexts' \in 0 .. MaxContexts /\ alive' \subseteq 1 .. contexts'
        /\ comp' \in {Decoder!None} \cup alive'
    <3>1. /\ contexts \in Nat /\ contexts <= MaxContexts
          /\ \A b \in alive : b \in 1 .. contexts
          /\ comp = Decoder!None \/ comp \in alive
      BY DEF DecoderInv, DecoderType
    <3>2. CASE comp = c /\ UNCHANGED <<comp, contexts, alive>>
      BY <3>1, <3>2
    <3>3. CASE /\ comp = Decoder!None /\ comp' = c /\ c = contexts + 1
               /\ contexts' = c /\ alive' = alive \cup {c}
      BY <3>1, <3>3 DEF Decoder!Contexts
    <3> QED
      BY <3>2, <3>3
  <2> QED
    BY <2>1, <2>2 DEF DecoderInv, DecoderType
<1>2. \A u \in DecoderThreads \ {t} : pc'[u] = pc[u] /\ decoderHas'[u] = decoderHas[u]
  BY DEF DecoderInv, DecoderType
<1>3. pc'[t] = there /\ decoderHas'[t] = c
  BY DEF DecoderInv, DecoderType
<1>4. \A u \in DecoderThreads : HasRight(u)'
  BY <1>2, <1>3 DEF DecoderInv, DecoderType, HasRight, Counted, Decoder!Contexts, Decoder!None
<1>5. \A u, v \in DecoderThreads : LastAlone(u, v)'
  BY <1>2, <1>3 DEF DecoderInv, LastAlone, Counted
<1>6. ASSUME NEW b \in Decoder!Contexts PROVE ContextRight(b)'
  <2>1. IsFiniteSet(Holders(b)') /\ refs'[b] = Cardinality(Holders(b)')
    <3>1. CASE b = c
      <4>1. t \notin Holders(c) /\ t \in Holders(c)'
        BY <1>3 DEF Holders, Counted
      <4>2. /\ IsFiniteSet(Holders(c)')
            /\ Cardinality(Holders(c)') = Cardinality(Holders(c)) + 1
        BY <1>2, <4>1, HolderJoins DEF DecoderInv, ContextRight
      <4> QED
        BY <3>1, <4>2 DEF DecoderInv, DecoderType, ContextRight
    <3>2. CASE b # c
      <4>1. t \notin Holders(b) /\ t \notin Holders(b)'
        BY <1>3, <3>2 DEF Holders, Counted
      <4>2. Holders(b)' = Holders(b)
        BY <1>2, <4>1, HoldersKept
      <4> QED
        BY <3>2, <4>2 DEF DecoderInv, DecoderType, ContextRight
    <3> QED
      BY <3>1, <3>2
  <2>2. /\ decoderInited'[b] => b <= contexts'
        /\ ~decoderInited'[b] => wrappers'[b] = 0
        /\ b \notin alive' => wrappers'[b] = 0
    BY DEF DecoderInv, DecoderType, ContextRight, Decoder!Contexts
  <2> QED
    BY <2>1, <2>2 DEF ContextRight
<1> QED
  BY <1>1, <1>4, <1>5, <1>6 DEF DecoderInv

\* Where nobody's place among the holders changes, nor the contexts.
LEMMA HoldersStay ==
  ASSUME DecoderInv, NEW t \in DecoderThreads, NEW there \in Counted, pc[t] \in Counted,
         pc' = [pc EXCEPT ![t] = there],
         UNCHANGED <<decoderHas, comp, contexts, alive, refs>>,
         wrappers' \in [Decoder!Contexts -> {0, 1}],
         DOMAIN decoderInited' = Decoder!Contexts,
         \A c \in Decoder!Contexts : /\ decoderInited'[c] => c <= contexts
                                     /\ ~decoderInited'[c] => wrappers'[c] = 0
                                     /\ c \notin alive => wrappers'[c] = 0
  PROVE  DecoderInv'
<1>1. DecoderType'
  BY DEF DecoderInv, DecoderType
<1>2. /\ \A u \in DecoderThreads \ {t} : pc'[u] = pc[u]
      /\ pc'[t] = there
  BY DEF DecoderInv, DecoderType
<1>3. \A u \in DecoderThreads : HasRight(u)'
  BY <1>2 DEF DecoderInv, HasRight, Counted
<1>4. \A u, v \in DecoderThreads : LastAlone(u, v)'
  BY <1>2 DEF DecoderInv, LastAlone, Counted
<1>5. ASSUME NEW c \in Decoder!Contexts PROVE ContextRight(c)'
  <2>1. t \in Holders(c)' <=> t \in Holders(c)
    BY <1>2 DEF Holders
  <2>2. Holders(c)' = Holders(c)
    BY <1>2, <2>1, HoldersKept
  <2> QED
    BY <2>2 DEF DecoderInv, ContextRight
<1> QED
  BY <1>1, <1>3, <1>4, <1>5 DEF DecoderInv

\* brcmjpeg_release: the last holder goes on to unlink its context.
LEMMA HolderReleases ==
  ASSUME DecoderInv, MaxContexts \in Nat, NEW t \in DecoderThreads, Decoder!Release(t)
  PROVE  DecoderInv'
<1>1. PICK old \in Decoder!Contexts : decoderHas[t] = old /\ comp = old
  <2>1. decoderHas[t] = comp /\ comp # Decoder!None
    BY DEF Decoder!Release, DecoderInv, HasRight, Counted
  <2> QED
    BY <2>1, AliveAreContexts DEF DecoderInv, DecoderType
<1> DEFINE there == IF refs[old] = 1 THEN "unlink" ELSE "out"
<1>2. /\ pc[t] \in Counted
      /\ \A u \in DecoderThreads : pc[u] # "unlink"
  <2>1. \A u \in DecoderThreads : pc[u] = "unlink" => decoderHas[u] = comp
    BY DEF DecoderInv, HasRight
  <2> QED
    BY <1>1, <2>1 DEF Decoder!Release, Decoder!CompLocked, Counted
<1>3. /\ pc' = [pc EXCEPT ![t] = there] /\ refs' = [refs EXCEPT ![old] = @ - 1]
      /\ UNCHANGED <<decoderHas, comp, contexts, alive, decoderInited, wrappers>>
  BY <1>1 DEF Decoder!Release, Decoder!Move
<1>4. there \notin Counted /\ there \in {"unlink", "out"}
  BY DEF Counted
<1>5. /\ \A u \in DecoderThreads \ {t} : pc'[u] = pc[u] /\ decoderHas'[u] = decoderHas[u]
      /\ pc'[t] = there
  BY <1>3 DEF DecoderInv, DecoderType
<1>6. DecoderType'
  <2>1. pc' \in [DecoderThreads -> Counted \cup {"out", "unlink", "destroy"}]
    BY <1>3, <1>4 DEF DecoderInv, DecoderType
  <2> QED
    BY <1>3, <2>1 DEF DecoderInv, DecoderType
<1>7. \A u \in DecoderThreads : HasRight(u)'
  BY <1>1, <1>2, <1>3, <1>4, <1>5 DEF DecoderInv, HasRight
<1>8. /\ t \in Holders(old) /\ t \notin Holders(old)'
      /\ IsFiniteSet(Holders(old)) /\ refs[old] = Cardinality(Holders(old))
  BY <1>1, <1>2, <1>4, <1>5 DEF DecoderInv, ContextRight, Holders
<1>9. \A u, v \in DecoderThreads : LastAlone(u, v)'
  <2>1. ASSUME refs[old] = 1, NEW u \in DecoderThreads, pc[u] \in Counted
        PROVE  u = t
    <3>1. IsFiniteSet(Holders(old) \ {t}) /\ Cardinality(Holders(old) \ {t}) = 0
      <4>1. Cardinality(Holders(old)) = 1
        BY <1>8, <2>1
      <4>2. /\ IsFiniteSet(Holders(old) \ {t})
            /\ Cardinality(Holders(old) \ {t}) = Cardinality(Holders(old)) - 1
        BY <1>8, FS_RemoveElement
      <4> QED
        BY <4>1, <4>2
    <3>2. Holders(old) \ {t} = {}
      BY <3>1, FS_EmptySet
    <3>3. u \in Holders(old)
      BY <1>1, <2>1 DEF DecoderInv, HasRight, Holders
    <3> QED
      BY <3>2, <3>3
  <2>2. there = "unlink" => refs[old] = 1
    OBVIOUS
  <2> HIDE DEF there
  <2> QED
    BY <1>2, <1>4, <1>5, <2>1, <2>2 DEF DecoderInv, LastAlone, Counted
<1>10. ASSUME NEW c \in Decoder!Contexts PROVE ContextRight(c)'
  <2>1. CASE c = old
    <3>1. /\ IsFiniteSet(Holders(old)')
          /\ Cardinality(Holders(old)') = Cardinality(Holders(old)) - 1
      BY <1>5, <1>8, HolderLeaves
    <3> QED
      BY <1>3, <1>8, <2>1, <3>1 DEF DecoderInv, DecoderType, ContextRight
  <2>2. CASE c # old
    <3>1. t \notin Holders(c) /\ t \notin Holders(c)'
      BY <1>1, <1>4, <1>5, <2>2 DEF Holders
    <3>2. Holders(c)' = Holders(c)
      BY <1>5, <3>1, HoldersKept
    <3> QED
      BY <1>3, <2>2, <3>2 DEF DecoderInv, DecoderType, ContextRight
  <2> QED
    BY <2>1, <2>2
<1> QED
  BY <1>6, <1>7, <1>9, <1>10 DEF DecoderInv

\* ... takes it from where it is found, and destroys it.
LEMMA HolderUnlinks ==
  ASSUME DecoderInv, NEW t \in DecoderThreads, Decoder!Unlink(t)
  PROVE  DecoderInv'
<1>1. /\ pc[t] = "unlink" /\ decoderHas[t] = comp /\ comp \in alive
      /\ comp' = Decoder!None /\ pc' = [pc EXCEPT ![t] = "destroy"]
      /\ UNCHANGED <<decoderHas, contexts, alive, refs, decoderInited, wrappers>>
  BY DEF Decoder!Unlink, Decoder!Move, DecoderInv, DecoderType, HasRight
<1>2. /\ \A u \in DecoderThreads \ {t} : pc'[u] = pc[u] /\ decoderHas'[u] = decoderHas[u]
      /\ pc'[t] = "destroy"
  BY <1>1 DEF DecoderInv, DecoderType
<1>3. \A u \in DecoderThreads \ {t} : pc[u] \notin Counted \cup {"unlink"}
  BY <1>1 DEF DecoderInv, LastAlone
<1>4. DecoderType'
  BY <1>1 DEF DecoderInv, DecoderType
<1>5. comp # Decoder!None
  BY <1>1 DEF DecoderInv, HasRight
<1>6. \A u \in DecoderThreads : HasRight(u)'
  <2>1. Decoder!None \notin alive
    BY DEF DecoderInv, DecoderType, Decoder!None
  <2> QED
    BY <1>1, <1>2, <1>3, <2>1 DEF DecoderInv, HasRight, Counted
<1>7. \A u, v \in DecoderThreads : LastAlone(u, v)'
  <2>1. \A u \in DecoderThreads : pc[u] = "destroy" => decoderHas[u] # comp
    BY DEF DecoderInv, HasRight
  <2> QED
    BY <1>1, <1>2, <1>3, <2>1 DEF DecoderInv, LastAlone, Counted
<1>8. ASSUME NEW c \in Decoder!Contexts PROVE ContextRight(c)'
  <2>1. t \notin Holders(c) /\ t \notin Holders(c)'
    BY <1>1, <1>2 DEF Holders, Counted
  <2>2. Holders(c)' = Holders(c)
    BY <1>2, <2>1, HoldersKept
  <2> QED
    BY <1>1, <2>2 DEF DecoderInv, ContextRight
<1> QED
  BY <1>4, <1>6, <1>7, <1>8 DEF DecoderInv

LEMMA HolderDestroys ==
  ASSUME DecoderInv, MaxContexts \in Nat, NEW t \in DecoderThreads, Decoder!Destroy(t)
  PROVE  DecoderInv'
<1> DEFINE old == decoderHas[t]
<1>1. /\ pc[t] = "destroy" /\ old \in alive /\ old # comp
      /\ alive' = alive \ {old} /\ pc' = [pc EXCEPT ![t] = "out"]
      /\ UNCHANGED <<decoderHas, comp, contexts, refs, decoderInited>>
  BY DEF Decoder!Destroy, Decoder!Move, DecoderInv, HasRight
<1>2. /\ wrappers' \in [Decoder!Contexts -> {0, 1}] /\ wrappers'[old] = 0
      /\ \A c \in Decoder!Contexts \ {old} : wrappers'[c] = wrappers[c]
  <2>1. old \in Decoder!Contexts
    BY <1>1, AliveAreContexts
  <2> QED
    BY <2>1 DEF Decoder!Destroy, Decoder!DestroyWrapper, DecoderInv, DecoderType
<1>3. /\ \A u \in DecoderThreads \ {t} : pc'[u] = pc[u] /\ decoderHas'[u] = decoderHas[u]
      /\ pc'[t] = "out"
  BY <1>1 DEF DecoderInv, DecoderType
<1>4. DecoderType'
  BY <1>1, <1>2 DEF DecoderInv, DecoderType
<1>5. \A u \in DecoderThreads : HasRight(u)'
  BY <1>1, <1>3 DEF DecoderInv, HasRight, LastAlone, Counted
<1>6. \A u, v \in DecoderThreads : LastAlone(u, v)'
  BY <1>3 DEF DecoderInv, LastAlone, Counted
<1>7. ASSUME NEW c \in Decoder!Contexts PROVE ContextRight(c)'
  <2>1. t \notin Holders(c) /\ t \notin Holders(c)'
    BY <1>1, <1>3 DEF Holders, Counted
  <2>2. Holders(c)' = Holders(c)
    BY <1>3, <2>1, HoldersKept
  <2>3. ~decoderInited[c] \/ c \notin alive' => wrappers'[c] = 0
    BY <1>1, <1>2 DEF DecoderInv, ContextRight
  <2> QED
    BY <1>1, <2>2, <2>3 DEF DecoderInv, ContextRight
<1> QED
  BY <1>4, <1>5, <1>6, <1>7 DEF DecoderInv

LEMMA DecoderMove ==
  ASSUME DecoderInv, CleanDecoder, MaxContexts \in Nat, [Decoder!JDNext]_decoderVars
  PROVE  DecoderInv'
<1>0. \A t \in DecoderThreads :
        pc[t] \in Counted => decoderHas[t] \in Decoder!Contexts /\ decoderHas[t] = comp
                               /\ comp \in alive
  BY DEF DecoderInv, DecoderType, HasRight, Decoder!Contexts
<1>1. ASSUME NEW t \in DecoderThreads, Decoder!Lookup(t)
      PROVE  DecoderInv'
  <2> DEFINE c == IF comp = Decoder!None THEN contexts + 1 ELSE comp
  <2>1. c \in Decoder!Contexts
    BY <1>1 DEF Decoder!Lookup, DecoderInv, DecoderType, Decoder!Contexts
  <2>2. \A u \in DecoderThreads : pc[u] # "unlink"
    BY <1>1 DEF Decoder!Lookup, CleanDecoder
  <2>3. /\ pc[t] = "out" /\ pc' = [pc EXCEPT ![t] = "init"]
        /\ decoderHas' = [decoderHas EXCEPT ![t] = c]
        /\ refs' = [refs EXCEPT ![c] = @ + 1]
        /\ \/ comp = c /\ UNCHANGED <<comp, contexts, alive>>
           \/ /\ comp = Decoder!None /\ comp' = c /\ c = contexts + 1
              /\ contexts' = c /\ alive' = alive \cup {c}
        /\ UNCHANGED <<decoderInited, wrappers>>
    BY <1>1 DEF Decoder!Lookup, Decoder!Move
  <2> HIDE DEF c
  <2> QED
    BY <2>1, <2>2, <2>3, HolderComes DEF Counted
<1>2. ASSUME NEW t \in DecoderThreads, NEW u \in DecoderThreads, Decoder!Acquire(t, u)
      PROVE  DecoderInv'
  <2>1. \A v \in DecoderThreads : pc[v] # "unlink"
    BY <1>2 DEF Decoder!Acquire, DecoderInv, LastAlone, Counted
  <2>2. decoderHas[t] \in Decoder!Contexts /\ comp = decoderHas[t]
    BY <1>0, <1>2 DEF Decoder!Acquire, Counted
  <2>3. /\ pc[u] = "out" /\ pc' = [pc EXCEPT ![u] = "ready"]
        /\ decoderHas' = [decoderHas EXCEPT ![u] = comp]
        /\ refs' = [refs EXCEPT ![comp] = @ + 1]
        /\ UNCHANGED <<comp, contexts, alive, decoderInited, wrappers>>
    BY <1>2, <2>2 DEF Decoder!Acquire, Decoder!Move
  <2>4. comp \in Decoder!Contexts /\ "ready" \in Counted
    BY <2>2 DEF Counted
  <2> QED
    BY <2>1, <2>3, <2>4, HolderComes
<1>3. ASSUME NEW t \in DecoderThreads, Decoder!Init(t)
      PROVE  DecoderInv'
  <2>1. /\ pc[t] = "init" /\ pc' = [pc EXCEPT ![t] = "ready"]
        /\ decoderInited' = [decoderInited EXCEPT ![comp] = TRUE]
        /\ UNCHANGED <<decoderHas, comp, contexts, alive, refs>>
        /\ comp \in alive /\ comp \in Decoder!Contexts
    BY <1>0, <1>3 DEF Decoder!Init, Decoder!Move, Counted
  <2>2. /\ decoderInited[comp] => wrappers' = wrappers
        /\ ~decoderInited[comp] => wrappers' = [wrappers EXCEPT ![comp] = @ + 1]
    BY <1>0, <1>3 DEF Decoder!Init, Decoder!CreateWrapper, Counted
  <2>3. /\ wrappers' \in [Decoder!Contexts -> {0, 1}]
        /\ \A c \in Decoder!Contexts \ {comp} : wrappers'[c] = wrappers[c]
    BY <2>1, <2>2 DEF DecoderInv, DecoderType, ContextRight
  <2>4. \A c \in Decoder!Contexts : /\ decoderInited'[c] => c <= contexts
                                    /\ ~decoderInited'[c] => wrappers'[c] = 0
                                    /\ c \notin alive => wrappers'[c] = 0
    <3>1. comp <= contexts
      BY <2>1 DEF DecoderInv, DecoderType
    <3> QED
      BY <2>1, <2>3, <3>1 DEF DecoderInv, DecoderType, ContextRight
  <2>5. DOMAIN decoderInited' = Decoder!Contexts /\ pc[t] \in Counted /\ "ready" \in Counted
    BY <2>1 DEF DecoderInv, DecoderType, Counted
  <2> QED
    BY <2>1, <2>3, <2>4, <2>5, HoldersStay
<1>4. ASSUME NEW t \in DecoderThreads, NEW there \in Counted, pc[t] \in Counted,
             pc' = [pc EXCEPT ![t] = there],
             UNCHANGED <<decoderHas, comp, contexts, alive, refs, decoderInited, wrappers>>
      PROVE  DecoderInv'
  <2>1. /\ wrappers' \in [Decoder!Contexts -> {0, 1}]
        /\ DOMAIN decoderInited' = Decoder!Contexts
        /\ \A c \in Decoder!Contexts : /\ decoderInited'[c] => c <= contexts
                                       /\ ~decoderInited'[c] => wrappers'[c] = 0
                                       /\ c \notin alive => wrappers'[c] = 0
    BY <1>4 DEF DecoderInv, DecoderType, ContextRight
  <2> QED
    BY <1>4, <2>1, HoldersStay
<1>5. ASSUME NEW t \in DecoderThreads,
             Decoder!InitFails(t) \/ Decoder!Configure(t) \/ Decoder!Finish(t)
      PROVE  DecoderInv'
  <2>1. /\ pc[t] \in Counted
        /\ \E there \in Counted : pc' = [pc EXCEPT ![t] = there]
        /\ UNCHANGED <<decoderHas, comp, contexts, alive, refs, decoderInited, wrappers>>
    <3>1. CASE Decoder!InitFails(t)
      BY <3>1 DEF Decoder!InitFails, Decoder!Move, CleanDecoder, Counted
    <3>2. CASE Decoder!Configure(t)
      BY <3>2 DEF Decoder!Configure, Decoder!Configured, Decoder!Move, Decoder!contextVars,
        Counted
    <3>3. CASE Decoder!Finish(t)
      BY <3>3 DEF Decoder!Finish, Decoder!Returns, Decoder!Move, Decoder!contextVars, Counted
    <3> QED
      BY <1>5, <3>1, <3>2, <3>3
  <2> QED
    BY <1>4, <2>1
<1>6. ASSUME \/ Decoder!SendChunk \/ Decoder!Sent \/ Decoder!GetNothing \/ Decoder!Wait
             \/ Decoder!GetFormat \/ Decoder!GetSlice \/ Decoder!Eat \/ Decoder!Announce
             \/ Decoder!MakeSlice \/ Decoder!InSignal \/ Decoder!OutSignal
             \/ Decoder!ErrorEvent \/ UNCHANGED decoderVars
      PROVE  DecoderInv'
  <2>1. UNCHANGED <<pc, decoderHas, comp, contexts, alive, refs, decoderInited, wrappers>>
    BY <1>6 DEF Decoder!SendChunk, Decoder!Sent, Decoder!GetNothing, Decoder!Wait,
      Decoder!GetFormat, Decoder!GetSlice, Decoder!Eat, Decoder!Announce,
      Decoder!MakeSlice, Decoder!InSignal, Decoder!OutSignal, Decoder!ErrorEvent,
      Decoder!contextVars, decoderVars
  <2> QED
    BY <2>1 DEF DecoderInv, DecoderType, HasRight, LastAlone, ContextRight, Holders
<1> QED
  BY <1>1, <1>2, <1>3, <1>5, <1>6, HolderReleases, HolderUnlinks, HolderDestroys
  DEF Decoder!JDNext, Decoder!Decode

LEMMA DecoderRight ==
  ASSUME DecoderInv PROVE Decoder!ContextAlive
BY DEF DecoderInv, DecoderType, HasRight, ContextRight, Counted, Decoder!ContextAlive

-----------------------------------------------------------------------------
(* A picture decoded, for any chunks, slices, headers and requests.        *)

Slice(i) == [request |-> decoderRequest, slice |-> i]
SliceRecords == [request : Int, slice : Int]

PictureType ==
  /\ decoderRequest \in Nat /\ decoderMade \in Nat
  /\ copied \in Seq(SliceRecords) /\ decoderOutQueue \in Seq(SliceRecords)

\* A thread decodes with a context that was set up, and alone changes place.
DecodesSetUp ==
  /\ \A t \in DecoderThreads :
       pc[t] \in {"ready", "decode"} => decoderInited[decoderHas[t]]
  /\ decoderPlace # "idle" => \E t \in DecoderThreads : pc[t] = "decode"

DecodeRuns == decoderPlace \in {"send", "get", "wait"}

CopiedInOrder == copied = [i \in 1 .. Len(copied) |-> Slice(i)]

\* With the output port set up, what was copied and what waits in the queue
\* are the slices made so far, in order.
SlicesFollow ==
  decoderOutOn =>
    /\ announced /\ decoderMade = Len(copied) + Len(decoderOutQueue)
    /\ \A k \in 1 .. Len(decoderOutQueue) : decoderOutQueue[k] = Slice(Len(copied) + k)

\* Before, nothing was made, and only the format can be in the queue.
FormatFirst ==
  ~decoderOutOn =>
    /\ decoderMade = 0 /\ copied = <<>>
    /\ announced => decoderOutQueue = <<Slice(0)>>
    /\ ~announced => decoderOutQueue = <<>>

Streaming ==
  DecodeRuns =>
    /\ CopiedInOrder /\ Len(copied) < Slices /\ SlicesFollow /\ FormatFirst
    /\ ~decoderRoom => copied = <<>>

Whole == CopiedInOrder /\ Len(copied) = Slices
Excused == ~decoderRoom \/ decoderStatus \/ (announced /\ ~decoderOutOn)

Outcome ==
  /\ decoderPlace = "success" \/ decoderResult = "success" => Whole
  /\ decoderPlace = "error" \/ decoderResult = "error" => Excused
  /\ decoderPlace # "idle" => decoderResult = "none"

DecodedInv == PictureType /\ DecodesSetUp /\ Streaming /\ Outcome

LEMMA DecodedStart ==
  ASSUME Decoder!JDInit PROVE DecodedInv
BY DEF Decoder!JDInit, DecodedInv, PictureType, DecodesSetUp, Streaming, DecodeRuns,
  Outcome

\* The threads keep what they need of their contexts.
LEMMA SetUpKept ==
  ASSUME DecoderInv, MaxContexts \in Nat, DecodesSetUp, decoderPlace' = decoderPlace,
         NEW t \in DecoderThreads,
         \/ Decoder!Lookup(t) \/ Decoder!Release(t) \/ Decoder!Unlink(t)
         \/ Decoder!Destroy(t) \/ Decoder!InitFails(t) \/ Decoder!Init(t)
         \/ \E u \in DecoderThreads : Decoder!Acquire(t, u)
  PROVE  DecodesSetUp'
<1>1. \A u \in DecoderThreads :
        pc[u] \in Counted => decoderHas[u] \in Decoder!Contexts /\ decoderHas[u] = comp
  BY AliveAreContexts DEF DecoderInv, DecoderType, HasRight
<1>2. /\ pc \in [DecoderThreads -> Counted \cup {"out", "unlink", "destroy"}]
      /\ decoderHas \in [DecoderThreads -> {Decoder!None} \cup Decoder!Contexts]
      /\ DOMAIN decoderInited = Decoder!Contexts
  BY DEF DecoderInv, DecoderType
<1>3. CASE Decoder!Init(t)
  <2>1. /\ pc[t] = "init" /\ pc' = [pc EXCEPT ![t] = "ready"] /\ decoderHas' = decoderHas
        /\ decoderInited' = [decoderInited EXCEPT ![decoderHas[t]] = TRUE]
        /\ decoderHas[t] \in Decoder!Contexts
    BY <1>1, <1>3 DEF Decoder!Init, Decoder!Move, Counted
  <2> QED
    BY <1>1, <1>2, <2>1 DEF DecodesSetUp, Counted
<1>4. ASSUME NEW u \in DecoderThreads, Decoder!Acquire(t, u)
      PROVE  DecodesSetUp'
  <2>1. /\ pc[t] = "ready" /\ pc[u] = "out" /\ pc' = [pc EXCEPT ![u] = "ready"]
        /\ decoderHas' = [decoderHas EXCEPT ![u] = decoderHas[t]]
        /\ decoderInited' = decoderInited
    BY <1>4 DEF Decoder!Acquire, Decoder!Move
  <2> QED
    BY <1>2, <2>1 DEF DecodesSetUp
<1>5. CASE \/ Decoder!Lookup(t) \/ Decoder!Release(t) \/ Decoder!Unlink(t)
           \/ Decoder!Destroy(t) \/ Decoder!InitFails(t)
  <2>1. /\ pc[t] # "decode" /\ decoderInited' = decoderInited
        /\ \E there \in {"init", "release", "unlink", "out", "destroy"} :
             pc' = [pc EXCEPT ![t] = there]
        /\ \A u \in DecoderThreads \ {t} : decoderHas'[u] = decoderHas[u]
    BY <1>2, <1>5 DEF Decoder!Lookup, Decoder!Release, Decoder!Unlink, Decoder!Destroy,
      Decoder!InitFails, Decoder!Move
  <2> QED
    BY <1>2, <2>1 DEF DecodesSetUp
<1> QED
  BY <1>3, <1>4, <1>5

pictureVars == <<decoderPlace, decoderRequest, decoderResult, decoderRoom, copied,
                 decoderOutQueue, decoderOutOn, announced, decoderMade, decoderStatus>>

LEMMA PictureKept ==
  ASSUME DecodedInv, UNCHANGED pictureVars
  PROVE  PictureType' /\ Streaming' /\ Outcome'
BY DEF DecodedInv, pictureVars, PictureType, Streaming, DecodeRuns, CopiedInOrder, Slice,
  SlicesFollow, FormatFirst, Outcome, Whole, Excused

\* Only the place of the decoding thread changes, or the status.
LEMMA PlaceMoves ==
  ASSUME DecodedInv, DecodeRuns, decoderPlace' \in {"send", "get", "wait", "error"},
         decoderPlace' = "error" => decoderStatus',
         UNCHANGED <<pc, decoderHas, decoderInited, decoderRequest, decoderResult,
                     decoderRoom, copied, decoderOutQueue, decoderOutOn, announced,
                     decoderMade>>
  PROVE  DecodedInv'
<1>1. decoderPlace \notin {"idle", "success", "error"}
  BY DEF DecodeRuns
<1>2. PictureType' /\ DecodesSetUp'
  BY <1>1 DEF DecodedInv, PictureType, DecodesSetUp
<1>3. Streaming'
  BY DEF DecodedInv, Streaming, DecodeRuns, CopiedInOrder, Slice, SlicesFollow, FormatFirst
<1>4. Outcome'
  BY <1>1 DEF DecodedInv, Outcome, Excused
<1> QED
  BY <1>2, <1>3, <1>4 DEF DecodedInv

\* mmal_wrapper_buffer_get_full with a slice: it is copied behind the others.
LEMMA SliceMoves ==
  ASSUME DecodedInv, Slices \in Nat, Decoder!GetSlice
  PROVE  DecodedInv'
<1> DEFINE n == Len(copied)
           first == Head(decoderOutQueue)
<1>1. /\ decoderPlace = "get" /\ decoderOutQueue # <<>> /\ first.slice > 0
      /\ decoderOutQueue' = Tail(decoderOutQueue)
      /\ decoderRoom => copied' = Append(copied, first)
      /\ ~decoderRoom => copied' = copied
      /\ decoderPlace' = IF ~decoderRoom THEN "error"
                         ELSE IF first.slice = Slices THEN "success" ELSE "send"
      /\ UNCHANGED <<pc, decoderHas, decoderInited, decoderRequest, decoderResult,
                     decoderRoom, decoderOutOn, announced, decoderMade, decoderStatus>>
  BY DEF Decoder!GetSlice, Decoder!Got, Decoder!contextVars
<1>2. /\ DecodeRuns /\ CopiedInOrder /\ n < Slices /\ n \in Nat
      /\ ~decoderRoom => copied = <<>>
  BY <1>1 DEF DecodedInv, PictureType, Streaming, DecodeRuns
<1>3. decoderOutOn
  <2>1. ~decoderOutOn => decoderOutQueue = <<>> \/ decoderOutQueue = <<Slice(0)>>
    BY <1>2 DEF DecodedInv, Streaming, FormatFirst
  <2> QED
    BY <1>1, <2>1 DEF Slice
<1>4. /\ announced /\ decoderMade = n + Len(decoderOutQueue)
      /\ \A k \in 1 .. Len(decoderOutQueue) : decoderOutQueue[k] = Slice(n + k)
  BY <1>2, <1>3 DEF DecodedInv, Streaming, SlicesFollow
<1>5. first = Slice(n + 1) /\ Len(decoderOutQueue) \in Nat \ {0}
  BY <1>1, <1>4 DEF DecodedInv, PictureType
<1>6. PictureType'
  <2>1. first \in SliceRecords
    BY <1>2, <1>5 DEF DecodedInv, PictureType, SliceRecords, Slice
  <2>2. copied' \in Seq(SliceRecords)
    BY <1>1, <2>1 DEF DecodedInv, PictureType
  <2>3. decoderOutQueue' \in Seq(SliceRecords)
    BY <1>1 DEF DecodedInv, PictureType
  <2> QED
    BY <1>1, <2>2, <2>3 DEF DecodedInv, PictureType
<1>7. DecodesSetUp'
  BY <1>1 DEF DecodedInv, DecodesSetUp
<1>8. CASE ~decoderRoom
  <2>1. Streaming'
    BY <1>1, <1>8 DEF Streaming, DecodeRuns
  <2>2. Outcome'
    BY <1>1, <1>8 DEF DecodedInv, Outcome, Excused
  <2> QED
    BY <1>6, <1>7, <2>1, <2>2 DEF DecodedInv
<1>9. CASE decoderRoom
  <2>1. /\ Len(copied') = n + 1
        /\ \A i \in 1 .. n + 1 : copied'[i] = Slice(i)
    <3>1. /\ copied \in Seq(SliceRecords) /\ copied' = Append(copied, Slice(n + 1))
          /\ \A i \in 1 .. n : copied[i] = Slice(i)
      BY <1>1, <1>2, <1>5, <1>9 DEF DecodedInv, PictureType, CopiedInOrder
    <3> QED
      BY ONLY <3>1
  <2>2. CopiedInOrder'
    BY <1>1, <1>6, <2>1 DEF CopiedInOrder, PictureType, Slice
  <2>3. first.slice = n + 1
    BY <1>5 DEF Slice
  <2>4. CASE n + 1 = Slices
    BY <1>1, <1>6, <1>7, <1>9, <2>1, <2>2, <2>3, <2>4
    DEF DecodedInv, Streaming, DecodeRuns, Outcome, Whole
  <2>5. CASE n + 1 # Slices
    <3>1. /\ Len(decoderOutQueue') = Len(decoderOutQueue) - 1
          /\ \A k \in 1 .. Len(decoderOutQueue') :
               decoderOutQueue'[k] = Slice(n + 1 + k)
      BY <1>1, <1>4 DEF DecodedInv, PictureType, Slice
    <3>2. SlicesFollow'
      BY <1>1, <1>2, <1>4, <2>1, <3>1 DEF SlicesFollow, Slice
    <3>3. n + 1 < Slices
      BY <1>2, <2>5
    <3>4. Streaming'
      BY <1>1, <1>3, <1>9, <2>1, <2>2, <3>2, <3>3 DEF Streaming, FormatFirst
    <3>5. Outcome'
      BY <1>1, <1>9, <2>3, <2>5 DEF DecodedInv, Outcome
    <3> QED
      BY <1>6, <1>7, <3>4, <3>5 DEF DecodedInv
  <2> QED
    BY <2>4, <2>5
<1> QED
  BY <1>8, <1>9

\* The format, or one more slice, is put behind what is in the queue.
LEMMA DecoderPuts ==
  ASSUME DecodedInv, Decoder!Announce \/ Decoder!MakeSlice
  PROVE  DecodedInv'
<1>1. UNCHANGED <<pc, decoderHas, decoderInited, decoderPlace, decoderRequest,
                  decoderResult, decoderRoom, copied, decoderOutOn, decoderStatus>>
  BY DEF Decoder!Announce, Decoder!MakeSlice, Decoder!contextVars, Decoder!requestVars
<1>2. DecodesSetUp'
  BY <1>1 DEF DecodedInv, DecodesSetUp
<1>3. CASE Decoder!Announce
  <2>1. /\ ~announced /\ announced' /\ decoderMade' = decoderMade
        /\ decoderOutQueue' = Append(decoderOutQueue, Slice(0))
    BY <1>3 DEF Decoder!Announce, Slice
  <2>2. PictureType'
    BY <1>1, <2>1 DEF DecodedInv, PictureType, SliceRecords, Slice
  <2>3. DecodeRuns => ~decoderOutOn /\ decoderOutQueue = <<>>
    BY <2>1 DEF DecodedInv, Streaming, SlicesFollow, FormatFirst
  <2>4. Streaming'
    <3> SUFFICES ASSUME DecodeRuns PROVE Streaming'
      BY <1>1 DEF Streaming, DecodeRuns
    <3>1. ~decoderOutOn /\ decoderOutQueue' = <<Slice(0)>>
      BY <2>1, <2>3
    <3>2. FormatFirst' /\ SlicesFollow'
      BY <1>1, <2>1, <3>1 DEF DecodedInv, Streaming, FormatFirst, SlicesFollow, Slice
    <3>3. CopiedInOrder' /\ Len(copied') < Slices /\ (~decoderRoom' => copied' = <<>>)
      BY <1>1 DEF DecodedInv, Streaming, CopiedInOrder, Slice
    <3> QED
      BY <3>2, <3>3 DEF Streaming
  <2>5. Outcome'
    BY <1>1, <2>1 DEF DecodedInv, Outcome, Whole, CopiedInOrder, Slice, Excused
  <2> QED
    BY <1>2, <2>2, <2>4, <2>5 DEF DecodedInv
<1>4. CASE Decoder!MakeSlice
  <2>1. /\ announced /\ decoderOutOn /\ announced' = announced
        /\ decoderMade' = decoderMade + 1
        /\ decoderOutQueue' = Append(decoderOutQueue, Slice(decoderMade + 1))
    BY <1>4 DEF Decoder!MakeSlice, Slice
  <2>2. PictureType'
    BY <1>1, <2>1 DEF DecodedInv, PictureType, SliceRecords, Slice
  <2>3. Streaming'
    <3> SUFFICES ASSUME DecodeRuns PROVE Streaming'
      BY <1>1 DEF Streaming, DecodeRuns
    <3>1. /\ decoderMade = Len(copied) + Len(decoderOutQueue)
          /\ \A k \in 1 .. Len(decoderOutQueue) :
               decoderOutQueue[k] = Slice(Len(copied) + k)
      BY <2>1 DEF DecodedInv, Streaming, SlicesFollow
    <3>2. /\ decoderMade' = Len(copied) + Len(decoderOutQueue')
          /\ \A k \in 1 .. Len(decoderOutQueue') :
               decoderOutQueue'[k] = Slice(Len(copied) + k)
      <4>1. decoderOutQueue \in Seq(SliceRecords) /\ copied \in Seq(SliceRecords)
        BY DEF DecodedInv, PictureType
      <4>2. /\ Len(decoderOutQueue') = Len(decoderOutQueue) + 1
            /\ \A k \in 1 .. Len(decoderOutQueue) :
                 decoderOutQueue'[k] = decoderOutQueue[k]
            /\ decoderOutQueue'[Len(decoderOutQueue) + 1] = Slice(decoderMade + 1)
        BY ONLY <2>1, <4>1
      <4>3. Len(decoderOutQueue) \in Nat /\ Len(copied) \in Nat
        BY <4>1
      <4> QED
        BY ONLY <2>1, <3>1, <4>2, <4>3
    <3>3. SlicesFollow' /\ FormatFirst'
      BY <1>1, <2>1, <3>2 DEF SlicesFollow, FormatFirst, Slice
    <3>4. CopiedInOrder' /\ Len(copied') < Slices /\ (~decoderRoom' => copied' = <<>>)
      BY <1>1 DEF DecodedInv, Streaming, CopiedInOrder, Slice
    <3> QED
      BY <3>3, <3>4 DEF Streaming
  <2>4. Outcome'
    BY <1>1, <2>1 DEF DecodedInv, Outcome, Whole, CopiedInOrder, Slice, Excused
  <2> QED
    BY <1>2, <2>2, <2>3, <2>4 DEF DecodedInv
<1> QED
  BY <1>3, <1>4

\* mmal_wrapper_port_enable for the format detected.
LEMMA FormatMoves ==
  ASSUME DecodedInv, Decoder!GetFormat
  PROVE  DecodedInv'
<1>1. /\ decoderPlace = "get" /\ decoderOutQueue # <<>>
      /\ Head(decoderOutQueue).slice = 0 /\ decoderOutQueue' = <<>>
      /\ \/ decoderOutOn' = TRUE /\ decoderPlace' = "send"
         \/ decoderOutOn' = FALSE /\ decoderPlace' = "error"
      /\ UNCHANGED <<pc, decoderHas, decoderInited, decoderRequest, decoderResult,
                     decoderRoom, copied, announced, decoderMade, decoderStatus>>
  BY DEF Decoder!GetFormat, Decoder!Got, Decoder!EnableOutput, Decoder!contextVars,
    Decoder!requestVars
<1>2. DecodeRuns
  BY <1>1 DEF DecodeRuns
<1>3. ~decoderOutOn
  <2>1. Len(decoderOutQueue) \in Nat \ {0} /\ Len(copied) \in Nat
    BY <1>1 DEF DecodedInv, PictureType
  <2>2. decoderOutOn => decoderOutQueue[1] = Slice(Len(copied) + 1)
    BY <1>2, <2>1 DEF DecodedInv, Streaming, SlicesFollow
  <2>3. decoderOutOn => decoderOutQueue[1].slice = Len(copied) + 1
    BY <2>2 DEF Slice
  <2>4. decoderOutQueue[1].slice = 0
    BY <1>1
  <2> QED
    BY <2>1, <2>3, <2>4
<1>4. announced /\ decoderMade = 0 /\ copied = <<>>
  BY <1>1, <1>2, <1>3 DEF DecodedInv, Streaming, FormatFirst
<1>5. PictureType' /\ DecodesSetUp'
  BY <1>1 DEF DecodedInv, PictureType, DecodesSetUp
<1>6. Outcome'
  BY <1>1, <1>4 DEF DecodedInv, Outcome, Excused
<1>7. Streaming'
  <2>1. CopiedInOrder' /\ Len(copied') < Slices
    BY <1>1, <1>2 DEF DecodedInv, Streaming, CopiedInOrder, Slice
  <2> QED
    BY <1>1, <1>4, <2>1 DEF Streaming, DecodeRuns, SlicesFollow, FormatFirst
<1> QED
  BY <1>5, <1>6, <1>7 DEF DecodedInv

LEMMA DecodedMove ==
  ASSUME DecoderInv, DecodedInv, MaxContexts \in Nat, Slices \in Nat \ {0},
         [Decoder!JDNext]_decoderVars
  PROVE  DecodedInv'
<1>1. ASSUME NEW t \in DecoderThreads,
             \/ Decoder!Lookup(t) \/ Decoder!Release(t) \/ Decoder!Unlink(t)
             \/ Decoder!Destroy(t) \/ Decoder!InitFails(t)
             \/ \E u \in DecoderThreads : Decoder!Acquire(t, u)
      PROVE  DecodedInv'
  <2>1. UNCHANGED pictureVars
    BY <1>1 DEF Decoder!Lookup, Decoder!Release, Decoder!Unlink, Decoder!Destroy,
      Decoder!InitFails, Decoder!Acquire, Decoder!decodeVars, Decoder!requestVars,
      Decoder!decoderVars, pictureVars
  <2>2. DecodesSetUp'
    BY <1>1, <2>1, SetUpKept DEF DecodedInv, pictureVars
  <2> QED
    BY <2>1, <2>2, PictureKept DEF DecodedInv
<1>2. ASSUME NEW t \in DecoderThreads, Decoder!Init(t)
      PROVE  DecodedInv'
  <2>1. DecodesSetUp'
    <3>1. decoderPlace' = decoderPlace
      BY <1>2 DEF Decoder!Init, Decoder!decodeVars
    <3> QED
      BY <1>2, <3>1, SetUpKept DEF DecodedInv
  <2>2. CASE decoderInited[decoderHas[t]]
    <3>1. UNCHANGED pictureVars
      BY <1>2, <2>2 DEF Decoder!Init, Decoder!decodeVars, Decoder!requestVars,
        Decoder!decoderVars, pictureVars
    <3> QED
      BY <2>1, <3>1, PictureKept DEF DecodedInv
  <2>3. CASE ~decoderInited[decoderHas[t]]
    <3>1. decoderPlace = "idle"
      <4>1. pc[t] = "init" /\ decoderHas[t] = comp
        BY <1>2 DEF Decoder!Init, DecoderInv, HasRight, Counted
      <4>2. \A u \in DecoderThreads : pc[u] = "decode" => decoderInited[comp]
        BY DEF DecodedInv, DecodesSetUp, DecoderInv, HasRight, Counted
      <4> QED
        BY <2>3, <4>1, <4>2 DEF DecodedInv, DecodesSetUp
    <3>2. /\ decoderPlace' = "idle" /\ decoderResult' = "none" /\ decoderOutQueue' = <<>>
          /\ UNCHANGED <<decoderRequest, decoderMade, copied>>
      BY <1>2, <2>3, <3>1 DEF Decoder!Init
    <3> QED
      BY <2>1, <3>2 DEF DecodedInv, PictureType, Streaming, DecodeRuns, Outcome
  <2> QED
    BY <2>2, <2>3
<1>3. ASSUME NEW t \in DecoderThreads, Decoder!Configure(t)
      PROVE  DecodedInv'
  <2>1. /\ pc[t] = "ready" /\ pc' = [pc EXCEPT ![t] = "decode"]
        /\ decoderPlace' = "send" /\ decoderRequest' = decoderRequest + 1
        /\ copied' = <<>> /\ decoderResult' = "none" /\ decoderStatus' = FALSE
        /\ decoderOutOn' = FALSE /\ decoderOutQueue' = <<>> /\ announced' = FALSE
        /\ decoderMade' = 0
        /\ UNCHANGED <<decoderHas, decoderInited>>
    BY <1>3 DEF Decoder!Configure, Decoder!Configured, Decoder!Move, Decoder!contextVars
  <2>2. PictureType'
    BY <2>1 DEF DecodedInv, PictureType
  <2>3. DecodesSetUp'
    BY <2>1 DEF DecodedInv, DecodesSetUp, DecoderInv, DecoderType
  <2>4. Streaming'
    BY <2>1 DEF Streaming, CopiedInOrder, SlicesFollow, FormatFirst
  <2>5. Outcome'
    BY <2>1 DEF Outcome
  <2> QED
    BY <2>2, <2>3, <2>4, <2>5 DEF DecodedInv
<1>4. ASSUME NEW t \in DecoderThreads, Decoder!Finish(t)
      PROVE  DecodedInv'
  <2>1. /\ pc[t] = "decode" /\ decoderPlace \in {"success", "error"}
        /\ pc' = [pc EXCEPT ![t] = "ready"] /\ decoderPlace' = "idle"
        /\ decoderResult' = decoderPlace
        /\ UNCHANGED <<decoderHas, decoderInited, decoderRequest, decoderRoom, copied,
                       decoderOutQueue, decoderOutOn, announced, decoderMade,
                       decoderStatus>>
    BY <1>4 DEF Decoder!Finish, Decoder!Returns, Decoder!Move, Decoder!contextVars
  <2>2. PictureType' /\ Streaming'
    BY <2>1 DEF DecodedInv, PictureType, Streaming, DecodeRuns
  <2>3. DecodesSetUp'
    BY <2>1 DEF DecodedInv, DecodesSetUp, DecoderInv, DecoderType
  <2>4. Outcome'
    BY <2>1 DEF DecodedInv, Outcome, Whole, CopiedInOrder, Slice, Excused
  <2> QED
    BY <2>2, <2>3, <2>4 DEF DecodedInv
<1>5. ASSUME Decoder!Sent \/ Decoder!GetNothing \/ Decoder!Wait \/ Decoder!ErrorEvent
      PROVE  DecodedInv'
  <2>1. /\ UNCHANGED <<pc, decoderHas, decoderInited, decoderRequest, decoderResult,
                       decoderRoom, copied, decoderOutQueue, decoderOutOn, announced,
                       decoderMade>>
        /\ DecodeRuns
    BY <1>5 DEF Decoder!Sent, Decoder!GetNothing, Decoder!Wait, Decoder!ErrorEvent,
      Decoder!contextVars, Decoder!requestVars, Decoder!decoderVars, DecodeRuns
  <2>2. /\ decoderPlace' \in {"send", "get", "wait", "error"}
        /\ decoderPlace' = "error" => decoderStatus'
    BY <1>5 DEF Decoder!Sent, Decoder!GetNothing, Decoder!Wait, Decoder!ErrorEvent
  <2> QED
    BY <2>1, <2>2, PlaceMoves
<1>6. ASSUME \/ Decoder!SendChunk \/ Decoder!Eat \/ Decoder!InSignal \/ Decoder!OutSignal
             \/ UNCHANGED decoderVars
      PROVE  DecodedInv'
  <2>1. UNCHANGED <<pictureVars, pc, decoderHas, decoderInited>>
    BY <1>6 DEF Decoder!SendChunk, Decoder!Eat, Decoder!InSignal, Decoder!OutSignal,
      Decoder!contextVars, Decoder!requestVars, Decoder!decoderVars, decoderVars,
      pictureVars
  <2>2. DecodesSetUp'
    BY <2>1 DEF DecodedInv, DecodesSetUp, pictureVars
  <2> QED
    BY <2>1, <2>2, PictureKept DEF DecodedInv
<1> QED
  BY <1>1, <1>2, <1>3, <1>4, <1>5, <1>6, SliceMoves, DecoderPuts, FormatMoves
  DEF Decoder!JDNext, Decoder!Decode

LEMMA DecodedRight ==
  ASSUME DecodedInv PROVE Decoder!DecodedWhole
BY DEF DecodedInv, Outcome, Whole, Excused, CopiedInOrder, Slice, Decoder!DecodedWhole

-----------------------------------------------------------------------------
(* A picture encoded, for any numbers of headers, slices and pieces.       *)

EncoderPlaces == {"idle", "send", "get", "wait", "flush", "error"}
PieceRecords == [chunk : Nat, piece : Nat, eos : BOOLEAN]
Blank == [chunk |-> 0, piece |-> 0, eos |-> FALSE]
PieceOf(i, last) == [chunk |-> i, piece |-> i, eos |-> i = last]

EncoderType ==
  /\ encoderPlace \in EncoderPlaces
  /\ size \in Nat /\ room \in Nat /\ chunk \in Nat /\ made \in Nat
  /\ loop \in Nat /\ outPool \in Nat
  /\ encOut \in Seq(Nat)
  /\ outQueue \in Seq(PieceRecords) /\ encoderGot \in Seq(PieceRecords)

\* Every output header is in the pool, with the encoder or in the queue; the
\* last one received is released before the port is flushed.
OutsCounted ==
  /\ outPool + Len(encOut) + Len(outQueue) = Outs
  /\ encoderPlace = "flush" => outPool > 0

\* The encoder has the headers of the chunks from here on, and has made a
\* piece for every one before for which there was room.
NextChunk == chunk - Len(encOut)
ChunksFollow ==
  /\ NextChunk > 0
  /\ \A k \in 1 .. Len(encOut) :
       encOut[k] = IF NextChunk + k - 1 <= room THEN NextChunk + k - 1 ELSE 0
  /\ made = IF NextChunk - 1 <= room THEN NextChunk - 1 ELSE room

\* In the queue are b headers left over from the picture before, the pieces
\* not received yet, and headers that came back because the room was used up.
QueueFollows(b) ==
  /\ Len(encoderGot) <= made
  /\ b + made - Len(encoderGot) <= Len(outQueue)
  /\ \A k \in 1 .. b : outQueue[k] = Blank
  /\ \A k \in b + 1 .. b + made - Len(encoderGot) :
       outQueue[k] = PieceOf(Len(encoderGot) + k - b, size)
  /\ \A k \in b + made - Len(encoderGot) + 1 .. Len(outQueue) : outQueue[k] = Blank
  /\ b + made - Len(encoderGot) < Len(outQueue) => made = room /\ room < size
  /\ b > 0 => encoderGot = <<>> /\ loop + b < Outs

GotInOrder == \A i \in 1 .. Len(encoderGot) : encoderGot[i] = PieceOf(i, size)

EncodeRuns ==
  encoderPlace # "idle" =>
    /\ result = "none" /\ made <= size /\ ChunksFollow
    /\ \E b \in 0 .. Len(outQueue) : QueueFollows(b)

\* Between two pictures only headers without data are left over.
EncodeIdle ==
  encoderPlace = "idle" =>
    /\ encOut = <<>> /\ Len(outQueue) < Outs
    /\ \A k \in 1 .. Len(outQueue) : outQueue[k] = Blank

EncodeEnds ==
  /\ GotInOrder
  /\ encoderPlace = "flush" \/ result = "success" => Len(encoderGot) = size
  /\ encoderPlace = "error" \/ result = "error" => encoderStatus \/ room < size

EncoderInv == EncoderType /\ OutsCounted /\ EncodeRuns /\ EncodeIdle /\ EncodeEnds

LEMMA EncoderStart ==
  ASSUME Encoder!JInit, Outs \in Nat \ {0} PROVE EncoderInv
BY DEF Encoder!JInit, EncoderInv, EncoderType, EncoderPlaces, OutsCounted, EncodeRuns,
  EncodeIdle, EncodeEnds, GotInOrder

\* What was sent and received does not change.
streamVars == <<size, room, chunk, loop, result, outPool, outQueue, encOut, made,
                encoderGot>>

LEMMA EncoderStays ==
  ASSUME EncoderInv, UNCHANGED streamVars, encoderStatus => encoderStatus',
         \/ encoderPlace' = encoderPlace
         \/ /\ encoderPlace \in {"send", "get", "wait"}
            /\ encoderPlace' \in {"send", "get", "wait", "error"}
            /\ encoderPlace' = "error" => encoderStatus'
  PROVE  EncoderInv'
<1> USE DEF EncoderInv, streamVars
<1>1. EncoderType' /\ OutsCounted' /\ EncodeIdle'
  BY DEF EncoderType, EncoderPlaces, OutsCounted, EncodeIdle
<1>2. EncodeRuns'
  BY DEF EncodeRuns, ChunksFollow, NextChunk, QueueFollows
<1>3. EncodeEnds'
  BY DEF EncodeEnds, GotInOrder
<1> QED
  BY <1>1, <1>2, <1>3

LEMMA EncoderConfigures ==
  ASSUME EncoderInv, NEW n \in Nat, NEW r \in Nat, Encoder!Configure(n, r)
  PROVE  EncoderInv'
<1>1. /\ encoderPlace = "idle" /\ encoderPlace' = "send" /\ result' = "none"
      /\ size' = n /\ room' = r /\ chunk' = 1 /\ encoderGot' = <<>> /\ loop' = 0
      /\ made' = 0 /\ UNCHANGED <<outPool, outQueue, encOut>>
  BY DEF Encoder!Configure
<1>2. /\ encOut = <<>> /\ Len(outQueue) < Outs /\ Len(outQueue) \in Nat
      /\ \A k \in 1 .. Len(outQueue) : outQueue[k] = Blank
  BY <1>1 DEF EncoderInv, EncodeIdle, EncoderType
<1>3. EncoderType' /\ OutsCounted' /\ EncodeIdle' /\ EncodeEnds'
  BY <1>1 DEF EncoderInv, EncoderType, EncoderPlaces, OutsCounted, EncodeIdle,
    EncodeEnds, GotInOrder
<1>4. ChunksFollow'
  <2>1. encOut' = <<>> /\ chunk' = 1 /\ made' = 0 /\ room' \in Nat
    BY <1>1, <1>2
  <2>2. NextChunk' = 1
    BY <2>1 DEF NextChunk
  <2> QED
    BY <2>1, <2>2 DEF ChunksFollow
<1>5. QueueFollows(Len(outQueue))'
  BY <1>1, <1>2 DEF QueueFollows
<1>6. EncodeRuns'
  BY <1>1, <1>2, <1>4, <1>5 DEF EncodeRuns
<1> QED
  BY <1>3, <1>6 DEF EncoderInv

LEMMA EncoderSends ==
  ASSUME EncoderInv, Encoder!SendEmpty
  PROVE  EncoderInv'
<1>1. /\ encoderPlace = "send" /\ outPool > 0 /\ outPool' = outPool - 1
      /\ encOut' = Append(encOut, IF chunk <= room THEN chunk ELSE 0)
      /\ chunk' = chunk + 1
      /\ UNCHANGED <<encoderPlace, size, room, encoderGot, loop, result, outQueue, made,
                     encoderStatus>>
  BY DEF Encoder!SendEmpty
<1>2. /\ encOut \in Seq(Nat) /\ outQueue \in Seq(PieceRecords) /\ chunk \in Nat
      /\ room \in Nat /\ outPool \in Nat
  BY DEF EncoderInv, EncoderType
<1>3. /\ encOut' \in Seq(Nat) /\ Len(encOut') = Len(encOut) + 1 /\ Len(encOut) \in Nat
      /\ \A k \in 1 .. Len(encOut) : encOut'[k] = encOut[k]
      /\ encOut'[Len(encOut) + 1] = IF chunk <= room THEN chunk ELSE 0
  BY <1>1, <1>2
<1>4. EncoderType'
  BY <1>1, <1>2, <1>3 DEF EncoderInv, EncoderType
<1>5. OutsCounted' /\ EncodeIdle' /\ EncodeEnds'
  BY <1>1, <1>2, <1>3 DEF EncoderInv, OutsCounted, EncodeIdle, EncodeEnds, GotInOrder
<1>6. ChunksFollow /\ result = "none" /\ made <= size
  BY <1>1 DEF EncoderInv, EncodeRuns
<1>7. ChunksFollow'
  <2>1. NextChunk' = NextChunk
    BY <1>1, <1>2, <1>3 DEF NextChunk
  <2>2. NextChunk > 0 /\ NextChunk + Len(encOut) = chunk /\ NextChunk \in Int
    BY <1>2, <1>3, <1>6 DEF ChunksFollow, NextChunk
  <2>3. /\ \A k \in 1 .. Len(encOut) :
             encOut[k] = IF NextChunk + k - 1 <= room THEN NextChunk + k - 1 ELSE 0
        /\ made = IF NextChunk - 1 <= room THEN NextChunk - 1 ELSE room
    BY <1>6 DEF ChunksFollow
  <2>4. \A k \in 1 .. Len(encOut') :
          encOut'[k] = IF NextChunk + k - 1 <= room THEN NextChunk + k - 1 ELSE 0
    <3> SUFFICES ASSUME NEW k \in 1 .. Len(encOut) + 1
                 PROVE  encOut'[k] = IF NextChunk + k - 1 <= room
                                     THEN NextChunk + k - 1 ELSE 0
      BY <1>3
    <3>1. CASE k \in 1 .. Len(encOut)
      BY ONLY <1>3, <2>3, <3>1
    <3>2. CASE k = Len(encOut) + 1
      <4>1. NextChunk + k - 1 = chunk
        BY ONLY <1>2, <1>3, <2>2, <3>2
      <4> QED
        BY ONLY <1>3, <3>2, <4>1
    <3> QED
      BY <1>3, <3>1, <3>2
  <2> QED
    BY <1>1, <2>1, <2>2, <2>3, <2>4 DEF ChunksFollow
<1>8. \E b \in 0 .. Len(outQueue) : QueueFollows(b)'
  BY <1>1 DEF EncoderInv, EncodeRuns, QueueFollows
<1>9. EncodeRuns'
  BY <1>1, <1>6, <1>7, <1>8 DEF EncodeRuns
<1> QED
  BY <1>4, <1>5, <1>9 DEF EncoderInv

LEMMA EncoderFlushes ==
  ASSUME EncoderInv, Encoder!Flush, Outs \in Nat
  PROVE  EncoderInv'
<1> DEFINE back == [i \in 1 .. Len(encOut) |-> Blank]
<1>1. /\ encoderPlace = "flush" /\ encoderPlace' = "idle" /\ result' = "success"
      /\ outQueue' = outQueue \o back /\ encOut' = <<>>
      /\ UNCHANGED <<size, room, chunk, encoderGot, loop, outPool, made, encoderStatus>>
  BY DEF Encoder!Flush, Encoder!Piece, Blank
<1>2. /\ encOut \in Seq(Nat) /\ outQueue \in Seq(PieceRecords) /\ outPool \in Nat
      /\ encoderGot \in Seq(PieceRecords) /\ size \in Nat /\ made \in Nat
  BY DEF EncoderInv, EncoderType
<1>3. Blank \in PieceRecords
  BY DEF Blank, PieceRecords
<1>4. /\ back \in Seq(PieceRecords) /\ Len(back) = Len(encOut)
      /\ \A i \in 1 .. Len(encOut) : back[i] = Blank
  BY <1>2, <1>3
<1>5. PICK b \in 0 .. Len(outQueue) : QueueFollows(b)
  BY <1>1 DEF EncoderInv, EncodeRuns
<1>6. \A k \in 1 .. Len(outQueue) : outQueue[k] = Blank
  <2>1. Len(encoderGot) = size /\ made <= size
    BY <1>1 DEF EncoderInv, EncodeEnds, EncodeRuns
  <2>2. made = Len(encoderGot) /\ Len(outQueue) \in Nat /\ Len(encoderGot) \in Nat
    BY <1>2, <1>5, <2>1 DEF QueueFollows
  <2> QED
    BY <1>5, <2>2 DEF QueueFollows
<1> HIDE DEF back
<1>7. /\ outQueue' \in Seq(PieceRecords)
      /\ Len(outQueue') = Len(outQueue) + Len(encOut)
      /\ \A k \in 1 .. Len(outQueue') : outQueue'[k] = Blank
  <2>1. /\ outQueue' \in Seq(PieceRecords) /\ Len(outQueue) \in Nat /\ Len(encOut) \in Nat
        /\ Len(outQueue') = Len(outQueue) + Len(encOut)
    <3>1. /\ outQueue' = outQueue \o back /\ back \in Seq(PieceRecords)
          /\ outQueue \in Seq(PieceRecords) /\ encOut \in Seq(Nat)
          /\ Len(back) = Len(encOut)
      BY <1>1, <1>2, <1>4
    <3>2. outQueue \o back \in Seq(PieceRecords)
      BY ONLY <3>1, ConcatProperties
    <3>3. Len(outQueue \o back) = Len(outQueue) + Len(back)
      BY ONLY <3>1, ConcatProperties
    <3>4. Len(outQueue) \in Nat /\ Len(encOut) \in Nat
      BY ONLY <3>1, ConcatProperties
    <3> QED
      BY ONLY <3>1, <3>2, <3>3, <3>4, Zenon
  <2>2. \A k \in 1 .. Len(outQueue) + Len(encOut) :
          outQueue'[k] = IF k <= Len(outQueue) THEN outQueue[k] ELSE back[k - Len(outQueue)]
    BY <1>1, <1>2, <1>4
  <2>3. ASSUME NEW k \in 1 .. Len(outQueue) + Len(encOut) PROVE outQueue'[k] = Blank
    <3>1. CASE k <= Len(outQueue)
      BY ONLY <1>6, <2>1, <2>2, <3>1
    <3>2. CASE ~(k <= Len(outQueue))
      <4>1. k - Len(outQueue) \in 1 .. Len(encOut)
        BY ONLY <2>1, <3>2
      <4> QED
        BY ONLY <1>4, <2>2, <3>2, <4>1
    <3> QED
      BY <3>1, <3>2
  <2> QED
    BY <2>1, <2>3
<1>8. EncoderType'
  BY <1>1, <1>2, <1>7 DEF EncoderInv, EncoderType, EncoderPlaces
<1>9. OutsCounted' /\ EncodeIdle'
  BY <1>1, <1>2, <1>7 DEF EncoderInv, OutsCounted, EncodeIdle
<1>10. EncodeEnds' /\ EncodeRuns'
  BY <1>1 DEF EncoderInv, EncodeEnds, EncodeRuns, GotInOrder
<1> QED
  BY <1>8, <1>9, <1>10 DEF EncoderInv

LEMMA EncoderFails ==
  ASSUME EncoderInv, Encoder!Error, Outs \in Nat \ {0}
  PROVE  EncoderInv'
<1>1. /\ encoderPlace = "error" /\ encoderPlace' = "idle" /\ result' = "error"
      /\ outQueue' = <<>> /\ encOut' = <<>> /\ outPool' = Outs
      /\ UNCHANGED <<size, room, chunk, encoderGot, loop, made, encoderStatus>>
  BY DEF Encoder!Error
<1>2. EncoderType' /\ OutsCounted' /\ EncodeIdle' /\ EncodeRuns'
  BY <1>1 DEF EncoderInv, EncoderType, EncoderPlaces, OutsCounted, EncodeIdle, EncodeRuns
<1>3. EncodeEnds'
  BY <1>1 DEF EncoderInv, EncodeEnds, GotInOrder
<1> QED
  BY <1>2, <1>3 DEF EncoderInv

\* A bound on a sum when one part has grown by no more than the other shrank.
LEMMA Decreases ==
  ASSUME NEW x \in Nat, NEW y \in Nat, NEW z \in Nat, NEW top \in Nat,
         x + z < top, y <= x + 1
  PROVE  y + (z - 1) < top
OBVIOUS

\* Of what is in the queue the first is received.
LEMMA EncoderReceives ==
  ASSUME EncoderInv, Encoder!GetFull, Outs \in Nat
  PROVE  EncoderInv'
<1> DEFINE first == Head(outQueue)
           full == loop + 1 >= Outs /\ first.piece = 0 /\ ~first.eos
           n == Len(encoderGot)
           rest == Len(outQueue) - 1
<1>1. /\ encoderPlace = "get" /\ outQueue # <<>>
      /\ encoderGot' = IF first.piece > 0 THEN Append(encoderGot, first) ELSE encoderGot
      /\ loop' = IF loop < Outs THEN loop + 1 ELSE loop
      /\ encoderPlace' = IF full THEN "error" ELSE IF first.eos THEN "flush" ELSE "send"
      /\ outQueue' = Tail(outQueue) /\ outPool' = outPool + 1
      /\ UNCHANGED <<size, room, chunk, result, encOut, made, encoderStatus>>
  BY DEF Encoder!GetFull, Encoder!encVars
<1>2. /\ outQueue \in Seq(PieceRecords) /\ encoderGot \in Seq(PieceRecords)
      /\ size \in Nat /\ room \in Nat /\ made \in Nat /\ loop \in Nat
      /\ outPool \in Nat /\ chunk \in Nat /\ encOut \in Seq(Nat)
  BY DEF EncoderInv, EncoderType
<1>3. /\ outQueue' \in Seq(PieceRecords) /\ rest \in Nat /\ Len(outQueue') = rest
      /\ \A k \in 1 .. rest : outQueue'[k] = outQueue[k + 1]
      /\ first = outQueue[1] /\ first \in PieceRecords /\ n \in Nat
  BY <1>1, <1>2, HeadTailProperties
<1>4. /\ result = "none" /\ made <= size /\ ChunksFollow
  BY <1>1 DEF EncoderInv, EncodeRuns
<1>5. PICK b \in 0 .. Len(outQueue) : QueueFollows(b)
  BY <1>1 DEF EncoderInv, EncodeRuns
<1>6. /\ b \in Nat /\ n <= made /\ b + made - n <= rest + 1
      /\ \A k \in 1 .. b : outQueue[k] = Blank
      /\ \A k \in b + 1 .. b + made - n : outQueue[k] = PieceOf(n + k - b, size)
      /\ \A k \in b + made - n + 1 .. rest + 1 : outQueue[k] = Blank
      /\ b + made - n < rest + 1 => made = room /\ room < size
      /\ b > 0 => encoderGot = <<>> /\ loop + b < Outs
  BY <1>2, <1>3, <1>5 DEF QueueFollows
<1> HIDE DEF first, full, n, rest
<1>7. /\ loop' \in Nat /\ loop' <= loop + 1 /\ outPool' \in Nat
      /\ encoderPlace' \in EncoderPlaces /\ encoderPlace' # "idle"
      /\ OutsCounted' /\ ChunksFollow' /\ EncodeIdle'
  <2>1. Len(outQueue) = rest + 1
    BY <1>2, <1>3 DEF rest
  <2>2. ChunksFollow'
    BY <1>1, <1>4 DEF ChunksFollow, NextChunk
  <2>3. loop' \in Nat /\ loop' <= loop + 1 /\ outPool' \in Nat
    BY <1>1, <1>2
  <2>4. encoderPlace' \in EncoderPlaces /\ encoderPlace' # "idle" /\ EncodeIdle'
    BY <1>1 DEF EncoderPlaces, EncodeIdle
  <2>5. outPool + Len(encOut) + Len(outQueue) = Outs /\ Len(encOut) \in Nat
    BY <1>2 DEF EncoderInv, OutsCounted
  <2>6. outPool' = outPool + 1 /\ Len(outQueue') = rest /\ Len(encOut') = Len(encOut)
    BY <1>1, <1>3
  <2>7. outPool' + Len(encOut') + Len(outQueue') = Outs /\ outPool' > 0
    BY ONLY <1>2, <1>3, <2>1, <2>5, <2>6
  <2> QED
    BY <2>2, <2>3, <2>4, <2>7 DEF OutsCounted
<1>8. \A i \in 1 .. n : encoderGot[i] = PieceOf(i, size)
  BY DEF EncoderInv, EncodeEnds, GotInOrder, n
<1>9. CASE n < made /\ b = 0
  <2>1. first = PieceOf(n + 1, size)
    <3>1. 1 \in 0 + 1 .. 0 + made - n /\ n + 1 - 0 = n + 1
      BY <1>2, <1>3, <1>9
    <3> QED
      BY <1>3, <1>6, <1>9, <3>1
  <2>2. first.piece = n + 1 /\ (first.eos <=> n + 1 = size)
    BY <2>1 DEF PieceOf
  <2>3. /\ encoderGot' = Append(encoderGot, PieceOf(n + 1, size))
        /\ encoderPlace' = IF n + 1 = size THEN "flush" ELSE "send"
    BY <1>1, <1>3, <2>1, <2>2 DEF full
  <2>4. /\ encoderGot' \in Seq(PieceRecords) /\ Len(encoderGot') = n + 1
        /\ \A i \in 1 .. n : encoderGot'[i] = encoderGot[i]
        /\ encoderGot'[n + 1] = PieceOf(n + 1, size)
    <3>1. PieceOf(n + 1, size) \in PieceRecords
      BY <1>3, <2>1
    <3> QED
      BY <1>2, <2>3, <3>1, AppendProperties DEF n
  <2>5. \A i \in 1 .. n + 1 : encoderGot'[i] = PieceOf(i, size)
    BY <1>3, <1>8, <2>4
  <2>6. QueueFollows(0)'
    <3>1. /\ n + 1 <= made /\ 0 + made - (n + 1) <= rest
          /\ 0 + made - (n + 1) < rest => made = room /\ room < size
      BY <1>2, <1>3, <1>6, <1>9
    <3>2. \A k \in 0 + 1 .. 0 + made - (n + 1) :
            outQueue'[k] = PieceOf(n + 1 + k - 0, size)
      <4> SUFFICES ASSUME NEW k \in 0 + 1 .. 0 + made - (n + 1)
                   PROVE  outQueue'[k] = PieceOf(n + 1 + k - 0, size)
        OBVIOUS
      <4>1. k \in Int /\ k \in 1 .. rest /\ k + 1 \in 0 + 1 .. 0 + made - n
        BY <1>2, <1>3, <3>1
      <4>2. n + (k + 1) - 0 = n + 1 + k - 0
        BY ONLY <1>3, <4>1
      <4>3. outQueue[k + 1] = PieceOf(n + (k + 1) - 0, size)
        BY <1>6, <1>9, <4>1
      <4> QED
        BY <1>3, <4>1, <4>2, <4>3
    <3>3. \A k \in 0 + made - (n + 1) + 1 .. rest : outQueue'[k] = Blank
      <4> SUFFICES ASSUME NEW k \in 0 + made - (n + 1) + 1 .. rest
                   PROVE  outQueue'[k] = Blank
        OBVIOUS
      <4>1. k \in 1 .. rest /\ k + 1 \in 0 + made - n + 1 .. rest + 1
        BY <1>2, <1>3, <3>1
      <4>2. outQueue[k + 1] = Blank
        BY <1>6, <1>9, <4>1
      <4> QED
        BY <1>3, <4>1, <4>2
    <3>4. /\ Len(encoderGot') = n + 1 /\ Len(outQueue') = rest
          /\ made' = made /\ room' = room /\ size' = size
      BY <1>1, <1>2, <1>3, <2>4
    <3> QED
      BY ONLY <3>1, <3>2, <3>3, <3>4 DEF QueueFollows
  <2>7. EncoderType'
    BY <1>1, <1>2, <1>3, <1>7, <2>4 DEF EncoderInv, EncoderType
  <2>8. EncodeRuns'
    BY <1>1, <1>3, <1>4, <1>7, <2>6 DEF EncodeRuns
  <2>9. EncodeEnds'
    BY <1>1, <1>4, <2>3, <2>4, <2>5 DEF EncodeEnds, GotInOrder
  <2>10. OutsCounted' /\ EncodeIdle'
    BY <1>7
  <2> QED
    BY <2>7, <2>8, <2>9, <2>10 DEF EncoderInv
<1>10. CASE b > 0 \/ n = made
  <2>1. first = Blank
    BY <1>2, <1>3, <1>6, <1>10
  <2>2. first.piece = 0 /\ first.eos = FALSE
    BY <2>1 DEF Blank
  <2>3. encoderGot' = encoderGot /\ encoderPlace' = IF loop + 1 >= Outs THEN "error" ELSE "send"
    BY <1>1, <2>2 DEF full
  <2>4. b = 0 => room < size
    BY <1>2, <1>3, <1>6, <1>10
  <2>5. b > 0 => ~(loop + 1 >= Outs)
    BY <1>2, <1>6
  <2>6. PICK d \in 0 .. rest : QueueFollows(d)'
    <3>1. PICK d \in 0 .. rest : d = IF b > 0 THEN b - 1 ELSE 0
      BY <1>2, <1>3, <1>6
    <3>2. /\ n <= made /\ d + made - n <= rest
          /\ d + made - n < rest => made = room /\ room < size
      BY <1>2, <1>3, <1>6, <1>10, <3>1
    <3>3. d > 0 => encoderGot' = <<>> /\ loop' + d < Outs
      <4>1. d > 0 => b > 0 /\ d = b - 1
        BY <1>6, <3>1
      <4>2. ASSUME d > 0 PROVE loop' + d < Outs
        <5>1. /\ loop + b < Outs /\ b \in Nat /\ loop' <= loop + 1 /\ d = b - 1
              /\ Outs \in Nat /\ loop \in Nat /\ loop' \in Nat
          BY <1>2, <1>6, <1>7, <4>1, <4>2
        <5>2. loop' + (b - 1) < Outs
          BY ONLY <5>1, Decreases
        <5> QED
          BY ONLY <5>1, <5>2, Zenon
      <4> QED
        BY <1>6, <2>3, <4>1, <4>2
    <3>4. ASSUME NEW k \in 1 .. d PROVE outQueue'[k] = Blank
      <4>1. k \in 1 .. rest /\ k + 1 \in 1 .. b
        BY <1>2, <1>3, <1>6, <3>1
      <4> QED
        BY <1>3, <1>6, <4>1
    <3>5. ASSUME NEW k \in d + 1 .. d + made - n PROVE outQueue'[k] = PieceOf(n + k - d, size)
      <4>1. /\ k \in 1 .. rest /\ b > 0 /\ k + 1 \in b + 1 .. b + made - n
            /\ n + (k + 1) - b = n + k - d
        BY <1>2, <1>3, <1>6, <1>10, <3>1, <3>2
      <4> QED
        BY <1>3, <1>6, <4>1
    <3>6. ASSUME NEW k \in d + made - n + 1 .. rest PROVE outQueue'[k] = Blank
      <4>1. k \in 1 .. rest /\ k + 1 \in b + made - n + 1 .. rest + 1
        BY <1>2, <1>3, <1>6, <1>10, <3>1, <3>2
      <4> QED
        BY <1>3, <1>6, <4>1
    <3>7. /\ Len(encoderGot') = n /\ Len(outQueue') = rest
          /\ made' = made /\ room' = room /\ size' = size
      BY <1>1, <1>3, <2>3 DEF n
    <3>8. QueueFollows(d)'
      BY <1>2, <1>3, <1>6, <3>1, <3>2, <3>3, <3>4, <3>5, <3>6, <3>7 DEF QueueFollows
    <3> QED
      BY <3>1, <3>8
  <2>7. EncoderType'
    BY <1>1, <1>2, <1>3, <1>7, <2>3 DEF EncoderInv, EncoderType
  <2>8. EncodeRuns'
    BY <1>1, <1>3, <1>4, <1>7, <2>6 DEF EncodeRuns
  <2>9. EncodeEnds'
    BY <1>1, <1>4, <2>3, <2>4, <2>5 DEF EncoderInv, EncodeEnds, GotInOrder
  <2>10. OutsCounted' /\ EncodeIdle'
    BY <1>7
  <2> QED
    BY <2>7, <2>8, <2>9, <2>10 DEF EncoderInv
<1> QED
  BY <1>2, <1>3, <1>5, <1>6, <1>9, <1>10

\* The first header the encoder has is filled, or comes back as it is.
LEMMA EncoderMakes ==
  ASSUME EncoderInv, Encoder!EncodePiece, Outs \in Nat
  PROVE  EncoderInv'
<1> DEFINE n == Len(encoderGot)
           long == Len(outQueue)
           left == Len(encOut) - 1
<1>1. /\ encoderPlace # "idle" /\ encOut # <<>> /\ made < size
      /\ \/ /\ Head(encOut) = 0
            /\ outQueue' = Append(outQueue, Blank) /\ made' = made
         \/ /\ Head(encOut) > 0 /\ made' = made + 1
            /\ outQueue' = Append(outQueue, [chunk |-> Head(encOut), piece |-> made + 1,
                                             eos |-> made + 1 = size])
      /\ encOut' = Tail(encOut)
      /\ UNCHANGED <<encoderPlace, size, room, chunk, encoderGot, loop, result, outPool,
                     encoderStatus>>
  BY DEF Encoder!EncodePiece, Encoder!callVars, Encoder!Piece, Blank
<1>2. /\ outQueue \in Seq(PieceRecords) /\ encoderGot \in Seq(PieceRecords)
      /\ size \in Nat /\ room \in Nat /\ made \in Nat /\ loop \in Nat
      /\ outPool \in Nat /\ chunk \in Nat /\ encOut \in Seq(Nat)
      /\ n \in Nat /\ long \in Nat
  BY DEF EncoderInv, EncoderType
<1>3. /\ encOut' \in Seq(Nat) /\ left \in Nat /\ Len(encOut') = left
      /\ \A k \in 1 .. left : encOut'[k] = encOut[k + 1]
      /\ Head(encOut) = encOut[1] /\ Head(encOut) \in Nat
  BY <1>1, <1>2, HeadTailProperties
<1>4. /\ result = "none" /\ made <= size /\ ChunksFollow
  BY <1>1 DEF EncoderInv, EncodeRuns
<1>5. PICK b \in 0 .. long : QueueFollows(b)
  BY <1>1 DEF EncoderInv, EncodeRuns
<1>6. /\ b \in Nat /\ n <= made /\ b + made - n <= long
      /\ \A k \in 1 .. b : outQueue[k] = Blank
      /\ \A k \in b + 1 .. b + made - n : outQueue[k] = PieceOf(n + k - b, size)
      /\ \A k \in b + made - n + 1 .. long : outQueue[k] = Blank
      /\ b + made - n < long => made = room /\ room < size
      /\ b > 0 => encoderGot = <<>> /\ loop + b < Outs
  BY <1>2, <1>5 DEF QueueFollows
<1>7. PICK next \in Nat :
        /\ next = NextChunk /\ next > 0
        /\ \A k \in 1 .. left + 1 :
             encOut[k] = IF next + k - 1 <= room THEN next + k - 1 ELSE 0
        /\ made = IF next - 1 <= room THEN next - 1 ELSE room
  <2>1. NextChunk \in Nat /\ Len(encOut) = left + 1
    BY <1>2, <1>3, <1>4 DEF ChunksFollow, NextChunk
  <2> QED
    BY <1>4, <2>1 DEF ChunksFollow
<1>8. NextChunk' = next + 1 /\ Len(encOut) = left + 1
  BY <1>1, <1>2, <1>3, <1>7 DEF NextChunk
<1> HIDE DEF n, long, left
<1>9. Head(encOut) = IF next <= room THEN next ELSE 0
  <2>1. 1 \in 1 .. left + 1 /\ next + 1 - 1 = next
    BY <1>3
  <2> QED
    BY <1>3, <1>7, <2>1
<1>10. made' = IF next <= room THEN next ELSE room
  BY <1>1, <1>2, <1>7, <1>9
<1>11. ChunksFollow'
  <2>1. ASSUME NEW k \in 1 .. left
        PROVE  encOut'[k] = IF (next + 1) + k - 1 <= room THEN (next + 1) + k - 1 ELSE 0
    <3>1. k + 1 \in 1 .. left + 1 /\ next + (k + 1) - 1 = (next + 1) + k - 1
      BY <1>3
    <3>2. encOut[k + 1] = IF next + (k + 1) - 1 <= room THEN next + (k + 1) - 1 ELSE 0
      BY <1>7, <3>1
    <3> QED
      BY <1>3, <3>1, <3>2
  <2>2. made' = IF (next + 1) - 1 <= room THEN (next + 1) - 1 ELSE room
    BY <1>2, <1>7, <1>10
  <2>3. room' = room /\ Len(encOut') = left /\ NextChunk' = next + 1 /\ next + 1 > 0
    BY <1>1, <1>3, <1>7, <1>8
  <2> QED
    BY ONLY <2>1, <2>2, <2>3 DEF ChunksFollow
<1>12. PICK new \in PieceRecords :
         /\ outQueue' = Append(outQueue, new) /\ made' \in Nat /\ made' <= size
         /\ \/ new = Blank /\ made' = made /\ made = room /\ room < size
            \/ new = PieceOf(made + 1, size) /\ made' = made + 1 /\ made < room
  <2>1. CASE next <= room
    <3>1. made = next - 1 /\ Head(encOut) = made + 1 /\ Head(encOut) > 0
      BY <1>2, <1>7, <1>9, <2>1
    <3>2. [chunk |-> Head(encOut), piece |-> made + 1, eos |-> made + 1 = size]
            = PieceOf(made + 1, size)
      BY <3>1 DEF PieceOf
    <3>3. PieceOf(made + 1, size) \in PieceRecords
      BY <1>2 DEF PieceOf, PieceRecords
    <3> QED
      BY <1>1, <1>2, <1>7, <2>1, <3>1, <3>2, <3>3
  <2>2. CASE ~(next <= room)
    <3>1. made = room /\ Head(encOut) = 0
      BY <1>2, <1>7, <1>9, <2>2
    <3>2. Blank \in PieceRecords
      BY DEF Blank, PieceRecords
    <3> QED
      BY <1>1, <1>2, <3>1, <3>2
  <2> QED
    BY <2>1, <2>2
<1>13. /\ outQueue' \in Seq(PieceRecords) /\ Len(outQueue') = long + 1
       /\ \A k \in 1 .. long : outQueue'[k] = outQueue[k]
       /\ outQueue'[long + 1] = new
  BY <1>2, <1>12, AppendProperties DEF long
<1>14. QueueFollows(b)'
  <2>1. CASE new = Blank /\ made' = made /\ made = room /\ room < size
    <3>1. ASSUME NEW k \in 1 .. b PROVE outQueue'[k] = Blank
      <4>1. k \in 1 .. long
        BY <1>2, <1>6
      <4> QED
        BY <1>6, <1>13, <4>1
    <3>2. ASSUME NEW k \in b + 1 .. b + made - n PROVE outQueue'[k] = PieceOf(n + k - b, size)
      <4>1. k \in 1 .. long
        BY <1>2, <1>6
      <4> QED
        BY <1>6, <1>13, <4>1
    <3>3. ASSUME NEW k \in b + made - n + 1 .. long + 1 PROVE outQueue'[k] = Blank
      <4>1. k = long + 1 \/ (k \in 1 .. long /\ k \in b + made - n + 1 .. long)
        BY <1>2, <1>6
      <4> QED
        BY <1>6, <1>13, <2>1, <4>1
    <3>4. /\ Len(encoderGot') = n /\ Len(outQueue') = long + 1 /\ encoderGot' = encoderGot
          /\ made' = made /\ room' = room /\ size' = size /\ loop' = loop
      BY <1>1, <1>13, <2>1 DEF n
    <3>5. b + made - n <= long + 1
      BY <1>2, <1>6
    <3> QED
      BY ONLY <1>6, <2>1, <3>1, <3>2, <3>3, <3>4, <3>5 DEF QueueFollows
  <2>2. CASE new = PieceOf(made + 1, size) /\ made' = made + 1 /\ made < room
    <3>1. long = b + made - n
      BY <1>2, <1>6, <2>2
    <3>2. ASSUME NEW k \in 1 .. b PROVE outQueue'[k] = Blank
      <4>1. k \in 1 .. long
        BY <1>2, <1>6
      <4> QED
        BY <1>6, <1>13, <4>1
    <3>3. ASSUME NEW k \in b + 1 .. b + (made + 1) - n
          PROVE  outQueue'[k] = PieceOf(n + k - b, size)
      <4>1. \/ k \in 1 .. long /\ k \in b + 1 .. b + made - n
            \/ k = long + 1 /\ n + k - b = made + 1
        BY <1>2, <1>6, <3>1
      <4> QED
        BY <1>6, <1>13, <2>2, <4>1
    <3>4. /\ Len(encoderGot') = n /\ Len(outQueue') = long + 1 /\ encoderGot' = encoderGot
          /\ made' = made + 1 /\ room' = room /\ size' = size /\ loop' = loop
      BY <1>1, <1>13, <2>2 DEF n
    <3>5. /\ n <= made + 1 /\ b + (made + 1) - n = long + 1 /\ long + 1 \in Nat
      BY <1>2, <1>6, <3>1
    <3>6. ASSUME NEW k \in b + (made + 1) - n + 1 .. long + 1 PROVE outQueue'[k] = Blank
      BY <3>5
    <3>7. ~(b + (made + 1) - n < long + 1) /\ b + (made + 1) - n <= long + 1
      BY <3>5
    <3> QED
      BY ONLY <1>6, <3>2, <3>3, <3>4, <3>5, <3>6, <3>7 DEF QueueFollows
  <2> QED
    BY <1>12, <2>1, <2>2
<1>15. EncoderType'
  BY <1>1, <1>2, <1>3, <1>12, <1>13 DEF EncoderInv, EncoderType
<1>16. EncodeRuns'
  <2>1. b \in 0 .. Len(outQueue')
    BY <1>2, <1>5, <1>13
  <2> QED
    BY <1>1, <1>4, <1>11, <1>12, <1>14, <2>1 DEF EncodeRuns
<1>17. OutsCounted'
  <2>1. outPool + (left + 1) + long = Outs
    BY <1>8 DEF EncoderInv, OutsCounted, long
  <2>2. outPool' + left + (long + 1) = Outs
    BY <1>1, <1>2, <1>3, <2>1
  <2> QED
    BY <1>1, <1>3, <1>13, <2>2 DEF EncoderInv, OutsCounted
<1>18. EncodeEnds' /\ EncodeIdle'
  BY <1>1 DEF EncoderInv, EncodeEnds, EncodeIdle, GotInOrder
<1> QED
  BY <1>15, <1>16, <1>17, <1>18 DEF EncoderInv

LEMMA EncoderMove ==
  ASSUME EncoderInv, [Encoder!JNext]_encoderVars, Encoder!JpegNumbers, Encoder!JpegSizes
  PROVE  EncoderInv'
<1>1. Outs \in Nat \ {0}
  BY DEF Encoder!JpegNumbers
<1>2. ASSUME NEW n \in Pieces, NEW r \in Rooms, Encoder!Configure(n, r) PROVE EncoderInv'
  <2>1. n \in Nat /\ r \in Nat
    BY DEF Encoder!JpegSizes
  <2> QED
    BY <1>2, <2>1, EncoderConfigures
<1>3. CASE \/ Encoder!SendSlice \/ Encoder!NothingFull \/ Encoder!Wait \/ Encoder!GetError
           \/ Encoder!EncodeSlice \/ Encoder!InSignal \/ Encoder!OutSignal
           \/ Encoder!ErrorEvent \/ UNCHANGED encoderVars
  <2>1. UNCHANGED streamVars
    BY <1>3 DEF Encoder!SendSlice, Encoder!NothingFull, Encoder!Wait, Encoder!GetError,
      Encoder!EncodeSlice, Encoder!InSignal, Encoder!OutSignal, Encoder!ErrorEvent,
      Encoder!callVars, Encoder!codecVars, Encoder!encVars, encoderVars, streamVars
  <2>2. encoderStatus => encoderStatus'
    BY <1>3 DEF Encoder!SendSlice, Encoder!NothingFull, Encoder!Wait, Encoder!GetError,
      Encoder!EncodeSlice, Encoder!InSignal, Encoder!OutSignal, Encoder!ErrorEvent,
      encoderVars
  <2>3. \/ encoderPlace' = encoderPlace
        \/ /\ encoderPlace \in {"send", "get", "wait"}
           /\ encoderPlace' \in {"send", "get", "wait", "error"}
           /\ encoderPlace' = "error" => encoderStatus'
    BY <1>3 DEF Encoder!SendSlice, Encoder!NothingFull, Encoder!Wait, Encoder!GetError,
      Encoder!EncodeSlice, Encoder!InSignal, Encoder!OutSignal, Encoder!ErrorEvent,
      encoderVars
  <2> QED
    BY <2>1, <2>2, <2>3, EncoderStays
<1> QED
  BY <1>1, <1>2, <1>3, EncoderSends, EncoderReceives, EncoderFlushes, EncoderFails,
    EncoderMakes
  DEF Encoder!JNext, Encoder!Codec, Encoder!Firmware

LEMMA EncoderRight == EncoderInv => Encoder!EncodedWhole
<1> SUFFICES ASSUME EncoderInv PROVE Encoder!EncodedWhole
  OBVIOUS
<1>1. /\ result = "success" => Len(encoderGot) = size
      /\ \A i \in 1 .. Len(encoderGot) : encoderGot[i] = PieceOf(i, size)
      /\ result = "error" => encoderStatus \/ room < size
  BY DEF EncoderInv, EncodeEnds, GotInOrder
<1>2. ASSUME result = "success", NEW i \in 1 .. size
      PROVE  encoderGot[i].chunk = i /\ encoderGot[i].piece = i
  <2>1. encoderGot[i] = PieceOf(i, size)
    BY <1>1, <1>2
  <2> QED
    BY <2>1 DEF PieceOf
<1> QED
  BY <1>1, <1>2 DEF Encoder!EncodedWhole

-----------------------------------------------------------------------------
(* MmalQueue, for any finite set of threads and any headers.               *)

\* Counting means the same in the module of the queue.
LEMMA QueueCardinality == \A S : Queue!Cardinality(S) = Cardinality(S)
BY Zenon DEF Queue!Cardinality, Cardinality

\* Between the two halves of mmal_queue_wait.
Borrowing == {u \in Users : at[u] = "post"}

QType ==
  /\ list \in Seq(Headers) /\ semaphore \in Nat
  /\ at \in [Users -> {"idle", "post", "get", "unit"}]

QInv == QType /\ Queue!SemaphoreCounts

\* A thread that starts to borrow adds one to the borrowers, one that stops
\* takes one away, and every other move leaves them alone.
LEMMA BorrowersCount ==
  ASSUME IsFiniteSet(Users), QType, NEW u \in Users
  PROVE  /\ Queue!Cardinality(Borrowing) \in Nat
         /\ at[u] # "post" /\ at' = [at EXCEPT ![u] = "post"]
              => Queue!Cardinality(Borrowing') = Queue!Cardinality(Borrowing) + 1
         /\ at[u] = "post" /\ at' = [at EXCEPT ![u] = "get"]
              => /\ Queue!Cardinality(Borrowing) > 0
                 /\ Queue!Cardinality(Borrowing') = Queue!Cardinality(Borrowing) - 1
         /\ \A there \in {"idle", "get", "unit"} :
              at[u] # "post" /\ at' = [at EXCEPT ![u] = there]
                => Borrowing' = Borrowing
<1>1. IsFiniteSet(Borrowing)
  BY FS_Subset DEF Borrowing
<1>2. Queue!Cardinality(Borrowing) \in Nat
  BY <1>1, FS_CardinalityType, QueueCardinality
<1>3. ASSUME at[u] # "post", at' = [at EXCEPT ![u] = "post"]
      PROVE  Queue!Cardinality(Borrowing') = Queue!Cardinality(Borrowing) + 1
  <2>1. Borrowing' = Borrowing \cup {u} /\ u \notin Borrowing
    BY <1>3 DEF Borrowing, QType
  <2> QED
    BY <1>1, <2>1, FS_AddElement, QueueCardinality
<1>4. ASSUME at[u] = "post", at' = [at EXCEPT ![u] = "get"]
      PROVE  /\ Queue!Cardinality(Borrowing) > 0
             /\ Queue!Cardinality(Borrowing') = Queue!Cardinality(Borrowing) - 1
  <2>1. Borrowing' = Borrowing \ {u} /\ u \in Borrowing
    BY <1>4 DEF Borrowing, QType
  <2>2. Queue!Cardinality(Borrowing) # 0
    BY <1>1, <2>1, FS_EmptySet, QueueCardinality
  <2>3. Queue!Cardinality(Borrowing') = Queue!Cardinality(Borrowing) - 1
    BY <1>1, <2>1, FS_RemoveElement, QueueCardinality
  <2> QED
    BY <1>2, <2>2, <2>3
<1>5. ASSUME NEW there \in {"idle", "get", "unit"},
             at[u] # "post", at' = [at EXCEPT ![u] = there]
      PROVE  Borrowing' = Borrowing
  BY <1>5 DEF Borrowing, QType
<1> QED
  BY <1>2, <1>3, <1>4, <1>5

\* At first nobody borrows, and the list is empty.
LEMMA QueueStarts == Queue!QInit => QInv
<1> SUFFICES ASSUME Queue!QInit PROVE QInv
  OBVIOUS
<1>1. Borrowing = {}
  BY DEF Queue!QInit, Borrowing
<1>2. Queue!Cardinality(Borrowing) = 0
  BY <1>1, FS_EmptySet, QueueCardinality
<1> QED
  BY <1>2 DEF Queue!QInit, QInv, QType, Queue!SemaphoreCounts, Borrowing

\* mmal_queue_put, _put_back, _get, _wait and _timedwait: whatever threads
\* call them, no unit of the semaphore is lost or invented.
LEMMA QueueMoves ==
  ASSUME IsFiniteSet(Users), QInv, [Queue!QNext]_Queue!qvars
  PROVE  QInv'
<1> SUFFICES ASSUME QInv, [Queue!QNext]_Queue!qvars PROVE QInv'
  OBVIOUS
<1> USE DEF QInv, QType
<1>1. semaphore + Queue!Cardinality(Borrowing) = Len(list)
  BY DEF Queue!SemaphoreCounts, Borrowing
<1>2. SUFFICES /\ QType'
               /\ semaphore' + Queue!Cardinality(Borrowing') = Len(list')
  BY DEF Queue!SemaphoreCounts, Borrowing
<1>3. ASSUME NEW u \in Users, NEW h \in Headers, Queue!Put(u, h) \/ Queue!PutBack(u, h)
      PROVE  QType' /\ semaphore' + Queue!Cardinality(Borrowing') = Len(list')
  <2>1. Borrowing' = Borrowing
    BY <1>3 DEF Queue!Put, Queue!PutBack, Borrowing
  <2>2. list' \in Seq(Headers) /\ Len(list') = Len(list) + 1
    <3>1. <<h>> \in Seq(Headers) /\ Len(<<h>>) = 1
      OBVIOUS
    <3>2. list' = Append(list, h) \/ list' = <<h>> \o list
      BY <1>3 DEF Queue!Put, Queue!PutBack
    <3>3. CASE list' = Append(list, h)
      BY <3>3
    <3>4. CASE list' = <<h>> \o list
      BY <3>1, <3>4, ConcatProperties, LenProperties
    <3> QED
      BY <3>2, <3>3, <3>4
  <2>3. Queue!Cardinality(Borrowing) \in Nat
    BY BorrowersCount
  <2> QED
    BY <1>1, <1>3, <2>1, <2>2, <2>3 DEF Queue!Put, Queue!PutBack
<1>4. ASSUME NEW u \in Users, Queue!GetNull(u) \/ Queue!GetLock(u) \/ Queue!TimedOut(u)
      PROVE  QType' /\ semaphore' + Queue!Cardinality(Borrowing') = Len(list')
  <2>1. /\ at[u] # "post"
        /\ \E there \in {"idle", "unit"} : at' = [at EXCEPT ![u] = there]
        /\ UNCHANGED <<list, semaphore>>
    BY <1>4 DEF Queue!GetNull, Queue!GetLock, Queue!TimedOut, Queue!Returns, Queue!Goto
  <2>2. Borrowing' = Borrowing
    BY <2>1, BorrowersCount
  <2> QED
    BY <1>1, <2>1, <2>2
<1>5. ASSUME NEW u \in Users, Queue!GetTake(u)
      PROVE  QType' /\ semaphore' + Queue!Cardinality(Borrowing') = Len(list')
  <2>1. at[u] # "post" /\ at' = [at EXCEPT ![u] = "idle"]
    BY <1>5 DEF Queue!GetTake, Queue!Returns, Queue!Goto
  <2>2. Borrowing' = Borrowing
    BY <2>1, BorrowersCount
  <2>3. Queue!Cardinality(Borrowing) \in Nat
    BY BorrowersCount
  <2>4. list # <<>> /\ Len(list) \in Nat
    BY <1>1, <1>5, <2>3 DEF Queue!GetTake
  <2>5. list' \in Seq(Headers) /\ Len(list') = Len(list) - 1
    BY <1>5, <2>4 DEF Queue!GetTake
  <2>6. semaphore' = semaphore - 1 /\ semaphore' \in Nat
    BY <1>5 DEF Queue!GetTake
  <2>7. semaphore' + Queue!Cardinality(Borrowing') = Len(list')
    <3>1. Queue!Cardinality(Borrowing') = Queue!Cardinality(Borrowing)
      BY <2>2
    <3>2. Len(list') = Len(list) - 1 /\ semaphore \in Nat
      BY <2>5
    <3> HIDE DEF QInv, QType
    <3> QED
      BY <1>1, <2>3, <2>4, <2>6, <3>1, <3>2
  <2> QED
    BY <2>1, <2>5, <2>6, <2>7
<1>6. ASSUME NEW u \in Users, Queue!Wait(u)
      PROVE  QType' /\ semaphore' + Queue!Cardinality(Borrowing') = Len(list')
  <2>1. Queue!Cardinality(Borrowing') = Queue!Cardinality(Borrowing) + 1
    BY <1>6, BorrowersCount DEF Queue!Wait, Queue!Goto
  <2>2. Queue!Cardinality(Borrowing) \in Nat
    BY BorrowersCount
  <2> QED
    BY <1>1, <1>6, <2>1, <2>2 DEF Queue!Wait, Queue!Goto
<1>7. ASSUME NEW u \in Users, Queue!WaitPost(u)
      PROVE  QType' /\ semaphore' + Queue!Cardinality(Borrowing') = Len(list')
  <2>1. /\ Queue!Cardinality(Borrowing) > 0
        /\ Queue!Cardinality(Borrowing') = Queue!Cardinality(Borrowing) - 1
    BY <1>7, BorrowersCount DEF Queue!WaitPost, Queue!Goto
  <2>2. Queue!Cardinality(Borrowing) \in Nat
    BY BorrowersCount
  <2> QED
    BY <1>1, <1>7, <2>1, <2>2 DEF Queue!WaitPost, Queue!Goto
<1>8. CASE UNCHANGED Queue!qvars
  BY <1>1, <1>8 DEF Queue!qvars, Borrowing
<1> QED
  BY <1>3, <1>4, <1>5, <1>6, <1>7, <1>8 DEF Queue!QNext, Queue!Step

\* What mmal_queue_wait gives back and takes again counts the headers.
THEOREM SemaphoreTheorem ==
  ASSUME IsFiniteSet(Users)
  PROVE  Queue!QSpec => []Queue!SemaphoreCounts
<1>1. QInv /\ [Queue!QNext]_Queue!qvars => QInv'
  BY QueueMoves
<1>2. QInv => Queue!SemaphoreCounts
  BY DEF QInv
<1> QED
  BY QueueStarts, <1>1, <1>2, PTL DEF Queue!QSpec

\* A thread that has given its unit back finds a header, or another thread has
\* taken one since.
WaitInv ==
  /\ got \in [Users -> {"none", "header", "NULL", "waitNULL"}]
  /\ raced \in [Users -> BOOLEAN]
  /\ \A u \in Users : at[u] = "get" => list # <<>> \/ raced[u]

\* mmal_queue_wait gives its unit back while there is a header for it: this is
\* the semaphore's count.
LEMMA BorrowedHeader ==
  ASSUME IsFiniteSet(Users), QInv, NEW u \in Users, at[u] = "post"
  PROVE  list # <<>>
<1>1. Queue!Cardinality(Borrowing) \in Nat /\ Queue!Cardinality(Borrowing) # 0
  <2>1. IsFiniteSet(Borrowing) /\ u \in Borrowing
    BY FS_Subset DEF Borrowing
  <2> QED
    BY <2>1, FS_CardinalityType, FS_EmptySet, QueueCardinality
<1>2. Len(list) # 0
  BY <1>1 DEF QInv, QType, Queue!SemaphoreCounts, Borrowing
<1> QED
  BY <1>2

\* No call leaves a thread that is about to get a header with an empty list,
\* but for the one that takes the last header, which it then notes.
LEMMA WaitersMove ==
  ASSUME IsFiniteSet(Users), QInv, WaitInv, Queue!NullOnlyIfRaced, [Queue!QNext]_Queue!qvars
  PROVE  WaitInv' /\ Queue!NullOnlyIfRaced'
<1> USE DEF QInv, QType, WaitInv, Queue!NullOnlyIfRaced
<1>1. ASSUME NEW u \in Users, NEW h \in Headers, Queue!Put(u, h) \/ Queue!PutBack(u, h)
      PROVE  WaitInv' /\ Queue!NullOnlyIfRaced'
  <2>1. list' # <<>>
    <3>1. list' = Append(list, h) \/ list' = <<h>> \o list
      BY <1>1 DEF Queue!Put, Queue!PutBack
    <3>2. Len(list') # 0
      <4>1. CASE list' = Append(list, h)
        BY <4>1
      <4>2. CASE list' = <<h>> \o list
        BY <4>2, ConcatProperties, LenProperties
      <4> QED
        BY <3>1, <4>1, <4>2
    <3> QED
      BY <3>2
  <2> QED
    BY <1>1, <2>1 DEF Queue!Put, Queue!PutBack
<1>2. ASSUME NEW u \in Users, Queue!GetNull(u)
      PROVE  WaitInv' /\ Queue!NullOnlyIfRaced'
  BY <1>2 DEF Queue!GetNull, Queue!Returns, Queue!Goto
<1>3. ASSUME NEW u \in Users, Queue!GetLock(u)
      PROVE  WaitInv' /\ Queue!NullOnlyIfRaced'
  BY <1>3 DEF Queue!GetLock, Queue!Goto
<1>4. ASSUME NEW u \in Users, Queue!GetTake(u)
      PROVE  WaitInv' /\ Queue!NullOnlyIfRaced'
  BY <1>4 DEF Queue!GetTake, Queue!Returns, Queue!Goto
<1>5. ASSUME NEW u \in Users, Queue!Wait(u)
      PROVE  WaitInv' /\ Queue!NullOnlyIfRaced'
  BY <1>5 DEF Queue!Wait, Queue!Goto
<1>6. ASSUME NEW u \in Users, Queue!TimedOut(u)
      PROVE  WaitInv' /\ Queue!NullOnlyIfRaced'
  BY <1>6 DEF Queue!TimedOut, Queue!Returns, Queue!Goto
<1>7. ASSUME NEW u \in Users, Queue!WaitPost(u)
      PROVE  WaitInv' /\ Queue!NullOnlyIfRaced'
  <2>1. list # <<>>
    BY <1>7, BorrowedHeader DEF Queue!WaitPost
  <2> QED
    BY <1>7, <2>1 DEF Queue!WaitPost, Queue!Goto
<1>8. CASE UNCHANGED Queue!qvars
  BY <1>8 DEF Queue!qvars
<1> QED
  BY <1>1, <1>2, <1>3, <1>4, <1>5, <1>6, <1>7, <1>8 DEF Queue!QNext, Queue!Step

\* mmal_queue_wait: NULL is for a thread that was overtaken, never for the
\* sole consumer of a queue.
THEOREM SoleConsumerTheorem ==
  ASSUME IsFiniteSet(Users)
  PROVE  Queue!QSpec => []Queue!NullOnlyIfRaced
<1>1. Queue!QInit => QInv /\ WaitInv /\ Queue!NullOnlyIfRaced
  BY QueueStarts DEF Queue!QInit, WaitInv, Queue!NullOnlyIfRaced
<1>2. QInv /\ WaitInv /\ Queue!NullOnlyIfRaced /\ [Queue!QNext]_Queue!qvars
        => (QInv /\ WaitInv /\ Queue!NullOnlyIfRaced)'
  BY QueueMoves, WaitersMove
<1> QED
  BY <1>1, <1>2, PTL DEF Queue!QSpec

-----------------------------------------------------------------------------
(* Scheduler. What came in waits in two lists; a list never overtakes the  *)
(* next one; time stamps keep a new request behind the pending ones.       *)

\* Counting means the same in the module of the scheduler.
LEMMA SchedulerCardinality == \A S : Scheduler!Cardinality(S) = Cardinality(S)
BY Zenon DEF Scheduler!Cardinality, Cardinality

Items == [kind : {"data", "event"}, no : Nat, pts : Int]
Rising(s) == \A i, j \in 1 .. Len(s) : i < j => s[i].no < s[j].no
Before(s, t) == \A i \in 1 .. Len(s), j \in 1 .. Len(t) : s[i].no < t[j].no
UpTo(s, n) == \A i \in 1 .. Len(s) : s[i].no <= n
InLine(r, s, t) == /\ Rising(r) /\ Rising(s) /\ Rising(t)
                   /\ Before(r, s) /\ Before(r, t) /\ Before(s, t)
DataIn(s) == {i \in 1 .. Len(s) : s[i].kind = "data"}

\* The latest time a request may have been placed at.
Latest == IF lastTs = -1 THEN -1 ELSE lastTs + 1

STypeOK ==
  /\ queueIn \in Seq(Items) /\ requests \in Seq(Items) /\ out \in Seq(Items)
  /\ queueOut \in Nat /\ held \in Nat /\ items \in Nat /\ newest \in Nat
  /\ lastTs \in Nat \cup {-1} /\ clockLock \in {"none", "clock"}

TimesInv ==
  /\ lastTs <= newest
  /\ \A i \in 1 .. Len(requests) : requests[i].pts <= Latest
  /\ \A i \in DataIn(queueIn) : lastTs < queueIn[i].pts /\ queueIn[i].pts <= newest
  /\ \A i, j \in DataIn(queueIn) : i < j => queueIn[i].pts < queueIn[j].pts

LineInv ==
  ~atOnce => /\ InLine(out, requests, queueIn)
             /\ UpTo(out, items) /\ UpTo(requests, items) /\ UpTo(queueIn, items)

EventWaits == clockLock = "clock" => requests # <<>> /\ Head(requests).kind = "event"

SInv == STypeOK /\ TimesInv /\ LineInv /\ EventWaits /\ Scheduler!HeadersHere

\* One more at the back of a list that is not later than it.
LEMMA AppendRises ==
  ASSUME NEW s \in Seq(Items), NEW x \in Items, Rising(s),
         \A i \in 1 .. Len(s) : s[i].no < x.no
  PROVE  Rising(Append(s, x))
<1>1. Len(Append(s, x)) = Len(s) + 1
  OBVIOUS
<1>2. SUFFICES ASSUME NEW i \in 1 .. Len(s) + 1, NEW j \in 1 .. Len(s) + 1, i < j
               PROVE  Append(s, x)[i].no < Append(s, x)[j].no
  BY <1>1 DEF Rising
<1>3. i \in 1 .. Len(s) /\ Append(s, x)[i] = s[i]
  BY <1>2
<1>4. CASE j = Len(s) + 1
  <2>1. Append(s, x)[j] = x
    BY <1>4
  <2> QED
    BY <1>3, <2>1
<1>5. CASE j # Len(s) + 1
  <2>1. j \in 1 .. Len(s) /\ Append(s, x)[j] = s[j]
    BY <1>5
  <2> QED
    BY <1>3, <2>1, <1>2 DEF Rising
<1> QED
  BY <1>4, <1>5

\* What holds of a list and of one more holds of the list with it.
LEMMA AppendItems ==
  ASSUME NEW s \in Seq(Items), NEW x \in Items
  PROVE  /\ Append(s, x) \in Seq(Items) /\ Len(Append(s, x)) = Len(s) + 1
         /\ \A i \in 1 .. Len(s) + 1 :
              \/ i \in 1 .. Len(s) /\ Append(s, x)[i] = s[i]
              \/ i = Len(s) + 1 /\ Append(s, x)[i] = x
OBVIOUS

LEMMA TailItems ==
  ASSUME NEW s \in Seq(Items), s # <<>>
  PROVE  /\ Head(s) \in Items /\ Head(s) = s[1] /\ 1 \in 1 .. Len(s)
         /\ Tail(s) \in Seq(Items) /\ Len(Tail(s)) = Len(s) - 1
         /\ \A i \in 1 .. Len(s) - 1 : i + 1 \in 1 .. Len(s) /\ Tail(s)[i] = s[i + 1]
OBVIOUS

LEMMA NoNumber ==
  ASSUME NEW s \in Seq(Items), NEW i \in 1 .. Len(s)
  PROVE  s[i] \in Items /\ s[i].no \in Nat /\ s[i].pts \in Int
<1>1. s[i] \in Items
  OBVIOUS
<1> QED
  BY <1>1 DEF Items

LEMMA TailRises ==
  ASSUME NEW s \in Seq(Items), s # <<>>, Rising(s)
  PROVE  Rising(Tail(s)) /\ \A j \in 1 .. Len(Tail(s)) : Head(s).no < Tail(s)[j].no
<1>1. ASSUME NEW i \in 1 .. Len(s) - 1, NEW j \in 1 .. Len(s) - 1, i < j
      PROVE  Tail(s)[i].no < Tail(s)[j].no
  <2>1. Tail(s)[i] = s[i + 1] /\ Tail(s)[j] = s[j + 1]
    BY TailItems
  <2>2. i + 1 \in 1 .. Len(s) /\ j + 1 \in 1 .. Len(s) /\ i + 1 < j + 1
    BY <1>1
  <2> QED
    BY <2>1, <2>2 DEF Rising
<1>2. ASSUME NEW j \in 1 .. Len(s) - 1
      PROVE  Head(s).no < Tail(s)[j].no
  <2>1. Tail(s)[j] = s[j + 1] /\ Head(s) = s[1] /\ 1 \in 1 .. Len(s)
    BY TailItems
  <2>2. j + 1 \in 1 .. Len(s) /\ 1 < j + 1
    BY <1>2
  <2> QED
    BY <2>1, <2>2 DEF Rising
<1> QED
  BY <1>1, <1>2, TailItems DEF Rising

\* The head of a list moves to the back of the one before it.
LEMMA HeadPasses ==
  ASSUME NEW s \in Seq(Items), NEW t \in Seq(Items), t # <<>>,
         NEW x \in Items, x.no = Head(t).no,
         Rising(s), Rising(t), Before(s, t)
  PROVE  Rising(Append(s, x)) /\ Rising(Tail(t)) /\ Before(Append(s, x), Tail(t))
<1>1. \A i \in 1 .. Len(s) : s[i].no < x.no
  BY TailItems DEF Before
<1>2. Rising(Append(s, x)) /\ Rising(Tail(t))
  BY <1>1, AppendRises, TailRises
<1>3. ASSUME NEW i \in 1 .. Len(s) + 1, NEW j \in 1 .. Len(t) - 1
      PROVE  Append(s, x)[i].no < Tail(t)[j].no
  <2>1. Tail(t)[j] = t[j + 1] /\ j + 1 \in 1 .. Len(t)
    BY TailItems
  <2>2. CASE i \in 1 .. Len(s) /\ Append(s, x)[i] = s[i]
    BY <2>1, <2>2 DEF Before
  <2>3. CASE Append(s, x)[i] = x
    <3>1. j \in 1 .. Len(Tail(t))
      BY TailItems
    <3> QED
      BY <2>3, <3>1, TailRises
  <2> QED
    BY <2>2, <2>3, AppendItems
<1>4. Before(Append(s, x), Tail(t))
  BY <1>3, AppendItems, TailItems DEF Before
<1> QED
  BY <1>2, <1>4

LEMMA AppendBefore ==
  ASSUME NEW s \in Seq(Items), NEW t, NEW x \in Items, Before(s, t),
         \A j \in 1 .. Len(t) : x.no < t[j].no
  PROVE  Before(Append(s, x), t)
BY AppendItems DEF Before

LEMMA BeforeAppend ==
  ASSUME NEW s, NEW t \in Seq(Items), NEW x \in Items, Before(s, t),
         \A i \in 1 .. Len(s) : s[i].no < x.no
  PROVE  Before(s, Append(t, x))
BY AppendItems DEF Before

LEMMA BeforeTail ==
  ASSUME NEW s, NEW t \in Seq(Items), t # <<>>, Before(s, t)
  PROVE  Before(s, Tail(t)) /\ \A i \in 1 .. Len(s) : s[i].no < Head(t).no
BY TailItems DEF Before

LEMMA TailBefore ==
  ASSUME NEW s \in Seq(Items), NEW t, s # <<>>, Before(s, t)
  PROVE  Before(Tail(s), t) /\ \A j \in 1 .. Len(t) : Head(s).no < t[j].no
BY TailItems DEF Before

LEMMA UpToAppend ==
  ASSUME NEW s \in Seq(Items), NEW x \in Items, NEW n, UpTo(s, n), x.no <= n
  PROVE  UpTo(Append(s, x), n)
BY AppendItems DEF UpTo

LEMMA UpToTail ==
  ASSUME NEW s \in Seq(Items), NEW n, s # <<>>, UpTo(s, n)
  PROVE  UpTo(Tail(s), n) /\ Head(s).no <= n
BY TailItems DEF UpTo

LEMMA ConcatItems ==
  ASSUME NEW s \in Seq(Items), NEW t \in Seq(Items)
  PROVE  /\ s \o t \in Seq(Items) /\ Len(s \o t) = Len(s) + Len(t)
         /\ \A i \in 1 .. Len(s) + Len(t) :
              \/ i \in 1 .. Len(s) /\ (s \o t)[i] = s[i]
              \/ i - Len(s) \in 1 .. Len(t) /\ (s \o t)[i] = t[i - Len(s)]
OBVIOUS

\* A flush: the second list goes behind the first.
LEMMA ConcatRises ==
  ASSUME NEW s \in Seq(Items), NEW t \in Seq(Items), Rising(s), Rising(t),
         Before(s, t)
  PROVE  Rising(s \o t)
<1> PICK m \in Nat, n \in Nat : m = Len(s) /\ n = Len(t)
  OBVIOUS
<1>1. SUFFICES ASSUME NEW i \in 1 .. m + n, NEW j \in 1 .. m + n, i < j
               PROVE  (s \o t)[i].no < (s \o t)[j].no
  BY ConcatItems DEF Rising
<1>2. CASE i \in 1 .. m /\ (s \o t)[i] = s[i]
  <2>1. CASE j \in 1 .. m /\ (s \o t)[j] = s[j]
    BY <1>1, <1>2, <2>1 DEF Rising
  <2>2. CASE j - m \in 1 .. n /\ (s \o t)[j] = t[j - m]
    BY <1>2, <2>2 DEF Before
  <2> QED
    BY <2>1, <2>2, ConcatItems
<1>3. CASE i - m \in 1 .. n /\ (s \o t)[i] = t[i - m]
  <2>1. ~(j \in 1 .. m)
    BY <1>1, <1>3
  <2>2. j - m \in 1 .. n /\ (s \o t)[j] = t[j - m]
    BY <2>1, ConcatItems
  <2>3. i - m < j - m
    BY <1>1
  <2> QED
    BY <1>3, <2>2, <2>3 DEF Rising
<1> QED
  BY <1>2, <1>3, ConcatItems

LEMMA ConcatBefore ==
  ASSUME NEW s \in Seq(Items), NEW t \in Seq(Items), NEW r, Before(s, r), Before(t, r)
  PROVE  Before(s \o t, r)
BY ConcatItems DEF Before

LEMMA ConcatUpTo ==
  ASSUME NEW s \in Seq(Items), NEW t \in Seq(Items), NEW n, UpTo(s, n), UpTo(t, n)
  PROVE  UpTo(s \o t, n)
BY ConcatItems DEF UpTo

LEMMA EmptyLine ==
  /\ <<>> \in Seq(Items) /\ Rising(<<>>) /\ DataIn(<<>>) = {}
  /\ \A s : Before(s, <<>>) /\ Before(<<>>, s)
  /\ \A n : UpTo(<<>>, n)
BY DEF Rising, Before, UpTo, DataIn

\* The buffers of a list are counted one by one.
LEMMA DataFinite ==
  ASSUME NEW s \in Seq(Items)
  PROVE  IsFiniteSet(DataIn(s)) /\ Scheduler!Cardinality(DataIn(s)) \in Nat
<1>1. IsFiniteSet(1 .. Len(s))
  BY FS_Interval
<1>2. DataIn(s) \subseteq 1 .. Len(s)
  BY DEF DataIn
<1> QED
  BY <1>1, <1>2, FS_Subset, FS_CardinalityType, SchedulerCardinality

LEMMA DataAppended ==
  ASSUME NEW s \in Seq(Items), NEW x \in Items
  PROVE  Scheduler!Cardinality(DataIn(Append(s, x)))
           = Scheduler!Cardinality(DataIn(s)) + (IF x.kind = "data" THEN 1 ELSE 0)
<1>1. CASE x.kind = "data"
  <2>1. DataIn(Append(s, x)) = DataIn(s) \cup {Len(s) + 1}
    BY <1>1, AppendItems DEF DataIn
  <2>2. Len(s) + 1 \notin DataIn(s)
    BY DEF DataIn
  <2> QED
    BY <1>1, <2>1, <2>2, DataFinite, FS_AddElement, SchedulerCardinality
<1>2. CASE x.kind # "data"
  <2>1. DataIn(Append(s, x)) = DataIn(s)
    BY <1>2, AppendItems DEF DataIn
  <2> QED
    BY <1>2, <2>1, DataFinite
<1> QED
  BY <1>1, <1>2

LEMMA DataTaken ==
  ASSUME NEW s \in Seq(Items), s # <<>>
  PROVE  Scheduler!Cardinality(DataIn(Tail(s)))
           = Scheduler!Cardinality(DataIn(s)) - (IF Head(s).kind = "data" THEN 1 ELSE 0)
<1> DEFINE rest == DataIn(s) \ {1}
           shift == [i \in rest |-> i - 1]
<1>1. IsFiniteSet(rest) /\ Scheduler!Cardinality(rest)
        = Scheduler!Cardinality(DataIn(s)) - (IF Head(s).kind = "data" THEN 1 ELSE 0)
  <2>1. 1 \in DataIn(s) <=> Head(s).kind = "data"
    BY TailItems DEF DataIn
  <2> QED
    BY <2>1, DataFinite, FS_RemoveElement, SchedulerCardinality
<1>2. shift \in Bijection(rest, DataIn(Tail(s)))
  <2>1. ASSUME NEW i \in rest
        PROVE  i - 1 \in DataIn(Tail(s))
    <3>1. i - 1 \in 1 .. Len(s) - 1 /\ s[i].kind = "data" /\ (i - 1) + 1 = i
      BY DEF DataIn
    <3>2. Tail(s)[i - 1] = s[i]
      BY <3>1, TailItems
    <3> QED
      BY <3>1, <3>2, TailItems DEF DataIn
  <2>2. \A i, j \in rest : i - 1 = j - 1 => i = j
    BY DEF DataIn
  <2>3. ASSUME NEW j \in DataIn(Tail(s))
        PROVE  j + 1 \in rest /\ (j + 1) - 1 = j
    BY TailItems DEF DataIn
  <2>4. shift \in Injection(rest, DataIn(Tail(s)))
    BY <2>1, <2>2 DEF Injection, IsInjective
  <2>5. shift \in Surjection(rest, DataIn(Tail(s)))
    <3>1. shift \in [rest -> DataIn(Tail(s))]
      BY <2>1
    <3>2. \A j \in DataIn(Tail(s)) : \E i \in rest : shift[i] = j
      BY <2>3
    <3> QED
      BY <3>1, <3>2 DEF Surjection
  <2> QED
    BY <2>4, <2>5 DEF Bijection
<1>3. Scheduler!Cardinality(DataIn(Tail(s))) = Scheduler!Cardinality(rest)
  BY <1>1, <1>2, FS_Bijection, SchedulerCardinality DEF ExistsBijection
<1> QED
  BY <1>1, <1>3

\* A request no earlier than the pending ones goes behind them.
LEMMA ScheduledLast ==
  ASSUME NEW s \in Seq(Items), NEW x \in Items,
         \A i \in 1 .. Len(s) : s[i].pts <= x.pts
  PROVE  Scheduler!Scheduled(s, x) = Append(s, x)
<1> DEFINE Slot(i) == /\ \A j \in 1 .. i : s[j].pts <= x.pts
                      /\ i = Len(s) \/ s[i + 1].pts > x.pts
<1>1. Len(s) \in 0 .. Len(s) /\ Slot(Len(s))
  OBVIOUS
<1>2. \A i \in 0 .. Len(s) : Slot(i) => i = Len(s)
  <2>1. SUFFICES ASSUME NEW i \in 0 .. Len(s), i # Len(s)
                 PROVE  ~(s[i + 1].pts > x.pts)
    OBVIOUS
  <2>2. i + 1 \in 1 .. Len(s)
    BY <2>1
  <2>3. s[i + 1].pts \in Int /\ x.pts \in Int
    BY <2>2, NoNumber DEF Items
  <2> QED
    BY <2>2, <2>3
<1>3. (CHOOSE i \in 0 .. Len(s) : Slot(i)) = Len(s)
  BY <1>1, <1>2
<1>4. Scheduler!Scheduled(s, x) = SubSeq(s, 1, Len(s)) \o <<x>> \o SubSeq(s, Len(s) + 1, Len(s))
  BY <1>3 DEF Scheduler!Scheduled
<1>5. SubSeq(s, 1, Len(s)) = s /\ SubSeq(s, Len(s) + 1, Len(s)) = <<>>
  OBVIOUS
<1>6. s \o <<x>> = Append(s, x) /\ Append(s, x) \in Seq(Items)
  OBVIOUS
<1>7. Append(s, x) \o <<>> = Append(s, x)
  BY <1>6
<1> QED
  BY <1>4, <1>5, <1>6, <1>7

-----------------------------------------------------------------------------
(* Each part of the invariant, step by step.                                *)

LEMMA SchedulerStarts ==
  ASSUME Outs \in Nat, Scheduler!SInit PROVE SInv
<1>1. STypeOK /\ TimesInv /\ EventWaits
  BY DEF Scheduler!SInit, STypeOK, TimesInv, EventWaits, DataIn
<1>2. LineInv
  BY EmptyLine DEF Scheduler!SInit, LineInv, InLine
<1>3. Scheduler!HeadersHere
  <2>1. DataIn(<<>>) = {} /\ DataIn(requests) = {}
    BY EmptyLine DEF Scheduler!SInit
  <2>2. Scheduler!Cardinality(DataIn(requests)) = 0
    BY <2>1, FS_EmptySet, SchedulerCardinality
  <2> QED
    BY <2>2 DEF Scheduler!SInit, Scheduler!HeadersHere, DataIn
<1> QED
  BY <1>1, <1>2, <1>3 DEF SInv

\* Where the head of the input goes: behind all that is pending.
LEMMA ProcessedLast ==
  ASSUME SInv, Scheduler!CanAct, NEW x \in Items,
         Head(queueIn).kind = "data" => x = Head(queueIn),
         Head(queueIn).kind # "data" => x.pts = Latest
  PROVE  Scheduler!Scheduled(requests, x) = Append(requests, x)
<1> USE DEF SInv, STypeOK
<1>1. Head(queueIn) \in Items /\ Head(queueIn) = queueIn[1] /\ 1 \in 1 .. Len(queueIn)
  BY TailItems DEF Scheduler!CanAct
<1>2. x.pts \in Int /\ Latest \in Int
  BY DEF Items, Latest
<1>3. Latest <= x.pts
  <2>1. CASE Head(queueIn).kind = "data"
    <3>1. lastTs < queueIn[1].pts
      BY <1>1, <2>1 DEF TimesInv, DataIn
    <3> QED
      BY <1>1, <1>2, <2>1, <3>1 DEF Latest
  <2>2. CASE Head(queueIn).kind # "data"
    BY <1>2, <2>2
  <2> QED
    BY <2>1, <2>2
<1>4. ASSUME NEW i \in 1 .. Len(requests) PROVE requests[i].pts <= x.pts
  <2>1. requests[i].pts \in Int /\ requests[i].pts <= Latest
    BY NoNumber DEF TimesInv
  <2> QED
    BY <1>2, <1>3, <2>1
<1> QED
  BY <1>4, ScheduledLast

\* The request an event makes.
EventRequest == [Head(queueIn) EXCEPT !.pts = IF lastTs = -1 THEN -1 ELSE lastTs + 1]

LEMMA EventRequested ==
  ASSUME SInv, queueIn # <<>>, Head(queueIn).kind = "event"
  PROVE  /\ EventRequest \in Items /\ EventRequest.kind = "event"
         /\ EventRequest.no = Head(queueIn).no /\ EventRequest.pts = Latest
<1>1. Head(queueIn) \in Items
  BY TailItems DEF SInv, STypeOK
<1>2. Latest \in Int
  BY DEF Latest, SInv, STypeOK
<1> QED
  BY <1>1, <1>2 DEF EventRequest, Latest, Items

\* Times of the input without its head: later than the head, if that is a buffer.
LEMMA RestLater ==
  ASSUME SInv, queueIn # <<>>
  PROVE  /\ \A i \in DataIn(Tail(queueIn)) :
              /\ i + 1 \in DataIn(queueIn) /\ Tail(queueIn)[i] = queueIn[i + 1]
              /\ Head(queueIn).kind = "data" => Head(queueIn).pts < queueIn[i + 1].pts
         /\ \A i, j \in DataIn(Tail(queueIn)) :
              i < j => Tail(queueIn)[i].pts < Tail(queueIn)[j].pts
<1> USE DEF SInv, STypeOK
<1>1. ASSUME NEW i \in DataIn(Tail(queueIn))
      PROVE  /\ i \in Nat \ {0} /\ i + 1 \in DataIn(queueIn)
             /\ Tail(queueIn)[i] = queueIn[i + 1]
  BY TailItems DEF DataIn
<1>2. ASSUME NEW i \in DataIn(Tail(queueIn)), Head(queueIn).kind = "data"
      PROVE  Head(queueIn).pts < queueIn[i + 1].pts
  <2>1. 1 \in DataIn(queueIn) /\ Head(queueIn) = queueIn[1]
    BY <1>2, TailItems DEF DataIn
  <2>2. i + 1 \in DataIn(queueIn) /\ 1 < i + 1
    BY <1>1
  <2> QED
    BY <2>1, <2>2 DEF TimesInv
<1>3. ASSUME NEW i \in DataIn(Tail(queueIn)), NEW j \in DataIn(Tail(queueIn)), i < j
      PROVE  Tail(queueIn)[i].pts < Tail(queueIn)[j].pts
  <2>1. i + 1 \in DataIn(queueIn) /\ j + 1 \in DataIn(queueIn) /\ i + 1 < j + 1
    BY <1>1, <1>3
  <2> QED
    BY <1>1, <2>1 DEF TimesInv
<1> QED
  BY <1>1, <1>2, <1>3

LEMMA SendInMoves ==
  ASSUME SInv, NEW kind \in {"data", "event"}, Scheduler!SendIn(kind)
  PROVE  SInv'
<1> USE DEF SInv, STypeOK
<1> PICK n \in Int : /\ n \in IF kind = "data" THEN newest + 1 .. newest + 2 ELSE {newest}
                     /\ newest' = n
                     /\ queueIn' = Append(queueIn, Scheduler!Item(kind, items + 1, n))
  BY DEF Scheduler!SendIn
<1> DEFINE x == Scheduler!Item(kind, items + 1, n)
<1>1. x \in Items /\ x.no = items + 1 /\ x.kind = kind /\ x.pts = n
  BY DEF Scheduler!Item, Items
<1>2. /\ newest <= n /\ (kind = "data" => newest < n)
      /\ items' = items + 1
      /\ UNCHANGED <<queueOut, requests, lastTs, out, held, clockLock, atOnce>>
  BY DEF Scheduler!SendIn, Scheduler!lockVars
<1> HIDE DEF x
<1>3. STypeOK'
  BY <1>1, <1>2 DEF x
<1>4. queueIn' = Append(queueIn, x)
  BY DEF x
<1>5. TimesInv'
  <2>1. \A i \in DataIn(queueIn)' :
          \/ i \in DataIn(queueIn) /\ queueIn'[i] = queueIn[i]
          \/ i = Len(queueIn) + 1 /\ queueIn'[i] = x /\ kind = "data"
    BY <1>1, <1>4, AppendItems DEF DataIn
  <2>2. \A i \in DataIn(queueIn) : i <= Len(queueIn) /\ i \in Nat
                                   /\ queueIn[i].pts \in Int
    BY NoNumber DEF DataIn
  <2>3. lastTs \in Int /\ newest \in Int /\ lastTs <= newest
    BY DEF TimesInv
  <2>4. \A i \in DataIn(queueIn)' : lastTs < queueIn'[i].pts /\ queueIn'[i].pts <= newest'
    <3>1. SUFFICES ASSUME NEW i \in DataIn(queueIn)'
                   PROVE  lastTs < queueIn'[i].pts /\ queueIn'[i].pts <= n
      BY <1>2
    <3>2. CASE i \in DataIn(queueIn) /\ queueIn'[i] = queueIn[i]
      <4>1. /\ lastTs < queueIn'[i].pts /\ queueIn'[i].pts <= newest
            /\ queueIn'[i].pts \in Int
        BY <2>2, <3>2 DEF TimesInv
      <4>2. newest <= n
        BY <1>2
      <4> QED
        BY ONLY <2>3, <4>1, <4>2, n \in Int
    <3>3. CASE queueIn'[i] = x /\ kind = "data"
      <4>1. queueIn'[i].pts = n
        BY <1>1, <3>3
      <4>2. newest < n
        BY <1>2, <3>3
      <4> QED
        BY ONLY <2>3, <4>1, <4>2, n \in Int
    <3> QED
      BY <2>1, <3>2, <3>3
  <2>5. ASSUME NEW i \in DataIn(queueIn)', NEW j \in DataIn(queueIn)', i < j
        PROVE  queueIn'[i].pts < queueIn'[j].pts
    <3>1. i \in DataIn(queueIn) /\ queueIn'[i] = queueIn[i]
      <4> PICK m \in Nat : m = Len(queueIn)
        OBVIOUS
      <4>1. j \in Nat /\ j <= m + 1
        BY <2>1, <2>2
      <4>2. i # m + 1
        <5>1. i \in Nat
          BY <2>1, <2>2
        <5> QED
          BY ONLY <2>5, <4>1, <5>1, m \in Nat
      <4> QED
        BY <2>1, <4>2
    <3>2. CASE j \in DataIn(queueIn) /\ queueIn'[j] = queueIn[j]
      BY <2>5, <3>1, <3>2 DEF TimesInv
    <3>3. CASE queueIn'[j] = x /\ kind = "data"
      <4>1. queueIn'[j].pts = n /\ queueIn'[i].pts <= newest /\ queueIn'[i].pts \in Int
        BY <1>1, <2>2, <3>1, <3>3 DEF TimesInv
      <4>2. newest < n
        BY <1>2, <3>3
      <4> QED
        BY ONLY <2>3, <4>1, <4>2, n \in Int
    <3> QED
      BY <2>1, <3>2, <3>3
  <2>6. lastTs' <= newest' /\ \A i \in 1 .. Len(requests)' : requests'[i].pts <= Latest'
    BY <1>2, <2>3 DEF TimesInv, Latest
  <2> QED
    BY <1>2, <2>4, <2>5, <2>6 DEF TimesInv
<1>6. LineInv'
  <2>1. SUFFICES ASSUME ~atOnce
                 PROVE  /\ InLine(out, requests, Append(queueIn, x))
                        /\ UpTo(out, items + 1) /\ UpTo(requests, items + 1)
                        /\ UpTo(Append(queueIn, x), items + 1)
    BY <1>2, <1>4 DEF LineInv
  <2>2. \A s \in Seq(Items) : UpTo(s, items) => /\ UpTo(s, items + 1)
                                               /\ \A i \in 1 .. Len(s) : s[i].no < x.no
    <3>1. SUFFICES ASSUME NEW s \in Seq(Items), NEW i \in 1 .. Len(s), s[i].no <= items
                   PROVE  s[i].no <= items + 1 /\ s[i].no < items + 1
      BY <1>1 DEF UpTo
    <3>2. s[i].no \in Nat
      BY NoNumber
    <3> QED
      BY <3>1, <3>2
  <2>3. /\ InLine(out, requests, queueIn)
        /\ UpTo(out, items) /\ UpTo(requests, items) /\ UpTo(queueIn, items)
    BY <2>1 DEF LineInv
  <2>4. UpTo(Append(queueIn, x), items + 1)
    BY <1>1, <2>2, <2>3, UpToAppend
  <2>5. Rising(Append(queueIn, x)) /\ Before(out, Append(queueIn, x))
        /\ Before(requests, Append(queueIn, x))
    BY <1>1, <2>2, <2>3, AppendRises, BeforeAppend DEF InLine
  <2> QED
    BY <2>2, <2>3, <2>4, <2>5 DEF InLine
<1>7. EventWaits' /\ Scheduler!HeadersHere'
  BY <1>2 DEF EventWaits, Scheduler!HeadersHere
<1> QED
  BY <1>3, <1>5, <1>6, <1>7

\* The head of the input becomes a request, behind the others.
LEMMA HeadRequested ==
  ASSUME SInv, Scheduler!CanAct, clockLock = "none", NEW x \in Items,
         x.no = Head(queueIn).no, x.kind = Head(queueIn).kind,
         requests' = Append(requests, x), queueIn' = Tail(queueIn),
         UNCHANGED <<out, items, newest, atOnce, clockLock>>,
         lastTs' = IF x.kind = "data" THEN Head(queueIn).pts ELSE lastTs,
         x.kind = "data" => x.pts = Head(queueIn).pts,
         x.kind = "event" => x.pts = Latest
  PROVE  /\ requests' \in Seq(Items) /\ queueIn' \in Seq(Items)
         /\ lastTs' \in Nat \cup {-1}
         /\ TimesInv' /\ LineInv' /\ EventWaits'
<1> USE DEF SInv, STypeOK
<1>1. /\ queueIn # <<>> /\ Head(queueIn) \in Items /\ Head(queueIn) = queueIn[1]
      /\ 1 \in 1 .. Len(queueIn) /\ Tail(queueIn) \in Seq(Items)
  BY TailItems DEF Scheduler!CanAct
<1>2. Head(queueIn).kind = "data" =>
        lastTs < Head(queueIn).pts /\ Head(queueIn).pts <= newest
  BY <1>1 DEF TimesInv, DataIn
<1>3. lastTs' \in Nat \cup {-1} /\ lastTs <= lastTs' /\ lastTs' <= newest
  <2>1. Head(queueIn).pts \in Int
    BY <1>1 DEF Items
  <2> QED
    BY <1>2, <2>1 DEF TimesInv
<1>4. Latest \in Int /\ Latest' \in Int /\ Latest <= Latest' /\ x.pts \in Int
  BY <1>3 DEF Latest, Items
<1>5. x.pts <= Latest'
  <2>1. CASE x.kind = "data"
    <3>1. lastTs' = x.pts /\ lastTs' # -1
      BY <1>2, <1>3, <1>4, <2>1
    <3> QED
      BY <1>4, <3>1 DEF Latest
  <2>2. CASE x.kind = "event"
    BY <1>4, <2>2
  <2> QED
    BY <2>1, <2>2 DEF Items
<1>6. TimesInv'
  <2>1. \A i \in 1 .. Len(requests)' : requests'[i].pts <= Latest'
    <3>1. ASSUME NEW i \in 1 .. Len(requests) PROVE requests[i].pts <= Latest'
      <4>1. requests[i].pts \in Int /\ requests[i].pts <= Latest
        BY NoNumber DEF TimesInv
      <4> QED
        BY <1>4, <4>1
    <3> QED
      BY <1>5, <3>1, AppendItems
  <2>2. ASSUME NEW i \in DataIn(queueIn)'
        PROVE  lastTs' < queueIn'[i].pts /\ queueIn'[i].pts <= newest'
    <3>1. i + 1 \in DataIn(queueIn) /\ queueIn'[i] = queueIn[i + 1]
          /\ (Head(queueIn).kind = "data" => Head(queueIn).pts < queueIn[i + 1].pts)
      BY <1>1, RestLater
    <3>2. lastTs < queueIn[i + 1].pts /\ queueIn[i + 1].pts <= newest
      BY <3>1 DEF TimesInv
    <3> QED
      BY <3>1, <3>2
  <2>3. \A i, j \in DataIn(queueIn)' : i < j => queueIn'[i].pts < queueIn'[j].pts
    BY <1>1, RestLater
  <2> QED
    BY <1>3, <2>1, <2>2, <2>3 DEF TimesInv
<1>7. LineInv'
  <2>1. SUFFICES ASSUME ~atOnce
                 PROVE  /\ InLine(out, Append(requests, x), Tail(queueIn))
                        /\ UpTo(out, items) /\ UpTo(Append(requests, x), items)
                        /\ UpTo(Tail(queueIn), items)
    BY DEF LineInv
  <2>2. /\ InLine(out, requests, queueIn)
        /\ UpTo(out, items) /\ UpTo(requests, items) /\ UpTo(queueIn, items)
    BY <2>1 DEF LineInv
  <2>3. /\ Rising(Append(requests, x)) /\ Rising(Tail(queueIn))
        /\ Before(Append(requests, x), Tail(queueIn))
    BY <1>1, <2>2, HeadPasses DEF InLine
  <2>4. Before(out, Tail(queueIn)) /\ \A i \in 1 .. Len(out) : out[i].no < x.no
    BY <1>1, <2>2, BeforeTail DEF InLine
  <2>5. Before(out, Append(requests, x))
    BY <2>2, <2>4, BeforeAppend DEF InLine
  <2>6. UpTo(Tail(queueIn), items) /\ UpTo(Append(requests, x), items)
    BY <1>1, <2>2, UpToTail, UpToAppend
  <2> QED
    BY <2>2, <2>3, <2>4, <2>5, <2>6 DEF InLine
<1> QED
  BY <1>1, <1>3, <1>6, <1>7 DEF EventWaits

\* The head of the input is dropped, or leaves it when nothing is pending before it.
LEMMA HeadDropped ==
  ASSUME SInv, Scheduler!CanAct, clockLock = "none",
         queueIn' = Tail(queueIn),
         UNCHANGED <<requests, out, items, newest, atOnce, clockLock>>,
         lastTs' = IF Head(queueIn).kind = "data" THEN Head(queueIn).pts ELSE lastTs
  PROVE  /\ queueIn' \in Seq(Items) /\ lastTs' \in Nat \cup {-1}
         /\ TimesInv' /\ LineInv' /\ EventWaits'
<1> USE DEF SInv, STypeOK
<1>1. /\ queueIn # <<>> /\ Head(queueIn) \in Items /\ Head(queueIn) = queueIn[1]
      /\ 1 \in 1 .. Len(queueIn) /\ Tail(queueIn) \in Seq(Items)
  BY TailItems DEF Scheduler!CanAct
<1>2. Head(queueIn).kind = "data" =>
        lastTs < Head(queueIn).pts /\ Head(queueIn).pts <= newest
  BY <1>1 DEF TimesInv, DataIn
<1>3. lastTs' \in Nat \cup {-1} /\ lastTs <= lastTs' /\ lastTs' <= newest
  <2>1. Head(queueIn).pts \in Int
    BY <1>1 DEF Items
  <2> QED
    BY <1>2, <2>1 DEF TimesInv
<1>4. Latest \in Int /\ Latest' \in Int /\ Latest <= Latest'
  BY <1>3 DEF Latest
<1>5. TimesInv'
  <2>1. ASSUME NEW i \in 1 .. Len(requests) PROVE requests[i].pts <= Latest'
    <3>1. requests[i].pts \in Int /\ requests[i].pts <= Latest
      BY NoNumber DEF TimesInv
    <3> QED
      BY <1>4, <3>1
  <2>2. ASSUME NEW i \in DataIn(queueIn)'
        PROVE  lastTs' < queueIn'[i].pts /\ queueIn'[i].pts <= newest'
    <3>1. i + 1 \in DataIn(queueIn) /\ queueIn'[i] = queueIn[i + 1]
          /\ (Head(queueIn).kind = "data" => Head(queueIn).pts < queueIn[i + 1].pts)
      BY <1>1, RestLater
    <3>2. lastTs < queueIn[i + 1].pts /\ queueIn[i + 1].pts <= newest
      BY <3>1 DEF TimesInv
    <3> QED
      BY <3>1, <3>2
  <2>3. \A i, j \in DataIn(queueIn)' : i < j => queueIn'[i].pts < queueIn'[j].pts
    BY <1>1, RestLater
  <2> QED
    BY <1>3, <2>1, <2>2, <2>3 DEF TimesInv
<1>6. LineInv'
  <2>1. ~atOnce => /\ Rising(Tail(queueIn)) /\ Before(out, Tail(queueIn))
                   /\ Before(requests, Tail(queueIn)) /\ UpTo(Tail(queueIn), items)
    BY <1>1, TailRises, BeforeTail, UpToTail DEF LineInv, InLine
  <2> QED
    BY <2>1 DEF LineInv, InLine
<1> QED
  BY <1>1, <1>3, <1>5, <1>6 DEF EventWaits

LEMMA ProcessMoves ==
  ASSUME SInv, Scheduler!Action PROVE SInv'
<1> USE DEF SInv, STypeOK
<1>1. /\ queueIn # <<>> /\ Head(queueIn) \in Items
      /\ Scheduler!CanAct /\ clockLock = "none"
  BY TailItems DEF Scheduler!Action, Scheduler!ProcessData, Scheduler!ProcessDataFails,
      Scheduler!ProcessEvent, Scheduler!ProcessEventNow,
    Scheduler!CanAct
<1>2. Scheduler!Cardinality(DataIn(requests)) \in Nat
  BY DataFinite
<1>3. CASE Scheduler!ProcessData
  <2>1. requests' = Append(requests, Head(queueIn))
    BY <1>1, <1>3, ProcessedLast DEF Scheduler!ProcessData
  <2>2. /\ requests' \in Seq(Items) /\ queueIn' \in Seq(Items)
        /\ lastTs' \in Nat \cup {-1}
        /\ TimesInv' /\ LineInv' /\ EventWaits'
    BY <1>1, <1>3, <2>1, HeadRequested DEF Scheduler!ProcessData, Scheduler!lockVars,
        Scheduler!sentVars
  <2>3. Scheduler!Cardinality(DataIn(requests))' = Scheduler!Cardinality(DataIn(requests)) + 1
    BY <1>1, <1>3, <2>1, DataAppended DEF Scheduler!ProcessData
  <2>4. queueOut' = queueOut - 1 /\ queueOut > 0 /\ held' = held
    BY <1>3 DEF Scheduler!ProcessData
  <2>5. Scheduler!HeadersHere'
    BY <1>2, <2>3, <2>4 DEF Scheduler!HeadersHere, DataIn
  <2> QED
    BY <1>3, <2>2, <2>4, <2>5 DEF Scheduler!ProcessData, Scheduler!lockVars, Scheduler!sentVars
<1>4. CASE Scheduler!ProcessDataFails
  <2>1. /\ queueIn' \in Seq(Items) /\ lastTs' \in Nat \cup {-1}
        /\ TimesInv' /\ LineInv' /\ EventWaits'
    BY <1>1, <1>4, HeadDropped DEF Scheduler!ProcessDataFails, Scheduler!lockVars,
        Scheduler!sentVars
  <2>2. Scheduler!HeadersHere'
    <3>1. held' + queueOut' = held + queueOut /\ requests' = requests
      BY <1>4 DEF Scheduler!ProcessDataFails
    <3>2. held' + queueOut' + Scheduler!Cardinality(DataIn(requests')) = Outs
      BY <1>2, <3>1 DEF Scheduler!HeadersHere, DataIn
    <3> QED
      BY <3>2 DEF Scheduler!HeadersHere, DataIn
  <2> QED
    BY <1>4, <2>1, <2>2 DEF Scheduler!ProcessDataFails, Scheduler!lockVars, Scheduler!sentVars
<1>5. CASE Scheduler!ProcessEvent
  <2>1. Head(queueIn).kind = "event" /\ requests' = Scheduler!Scheduled(requests, EventRequest)
    BY <1>5 DEF Scheduler!ProcessEvent, EventRequest
  <2>2. /\ EventRequest \in Items /\ EventRequest.kind = "event"
        /\ EventRequest.no = Head(queueIn).no /\ EventRequest.pts = Latest
    BY <1>1, <2>1, EventRequested
  <2>3. requests' = Append(requests, EventRequest)
    BY <1>1, <2>1, <2>2, ProcessedLast
  <2>4. /\ requests' \in Seq(Items) /\ queueIn' \in Seq(Items)
        /\ lastTs' \in Nat \cup {-1}
        /\ TimesInv' /\ LineInv' /\ EventWaits'
    <3>1. /\ queueIn' = Tail(queueIn) /\ lastTs' = lastTs
          /\ UNCHANGED <<out, items, newest, atOnce, clockLock>>
      BY <1>5 DEF Scheduler!ProcessEvent, Scheduler!lockVars, Scheduler!sentVars
    <3> QED
      BY <1>1, <2>1, <2>2, <2>3, <3>1, HeadRequested
  <2>5. Scheduler!Cardinality(DataIn(requests))' = Scheduler!Cardinality(DataIn(requests))
    BY <1>2, <2>2, <2>3, DataAppended
  <2>6. Scheduler!HeadersHere'
    BY <1>5, <2>5 DEF Scheduler!HeadersHere, DataIn, Scheduler!ProcessEvent
  <2> QED
    BY <1>5, <2>4, <2>6 DEF Scheduler!ProcessEvent, Scheduler!lockVars, Scheduler!sentVars
<1>6. CASE Scheduler!ProcessEventNow
  <2>1. /\ queueIn' = Tail(queueIn) /\ out' = Append(out, Head(queueIn)) /\ atOnce'
        /\ UNCHANGED <<requests, items, newest, clockLock, lastTs, held, queueOut>>
        /\ Head(queueIn).kind = "event"
    BY <1>6 DEF Scheduler!ProcessEventNow, Scheduler!lockVars, Scheduler!sentVars
  <2>2. queueIn' \in Seq(Items) /\ out' \in Seq(Items)
    BY <1>1, <2>1, TailItems
  <2>3. TimesInv'
    <3>1. lastTs' <= newest' /\ \A i \in 1 .. Len(requests)' : requests'[i].pts <= Latest'
      BY <2>1 DEF TimesInv, Latest
    <3>2. \A i \in DataIn(queueIn)' : lastTs' < queueIn'[i].pts /\ queueIn'[i].pts <= newest'
      BY <1>1, <2>1, RestLater DEF TimesInv
    <3>3. \A i, j \in DataIn(queueIn)' : i < j => queueIn'[i].pts < queueIn'[j].pts
      BY <1>1, <2>1, RestLater
    <3> QED
      BY <3>1, <3>2, <3>3 DEF TimesInv
  <2>4. LineInv' /\ EventWaits' /\ Scheduler!HeadersHere'
    BY <2>1 DEF LineInv, EventWaits, Scheduler!HeadersHere
  <2> QED
    BY <2>1, <2>2, <2>3, <2>4
<1> QED
  BY <1>3, <1>4, <1>5, <1>6 DEF Scheduler!Action

\* The first request leaves.
LEMMA FirstLeaves ==
  ASSUME SInv, requests # <<>>,
         requests' = Tail(requests), out' = Append(out, Head(requests)),
         UNCHANGED <<queueIn, lastTs, items, newest, atOnce, queueOut>>,
         held' = held + (IF Head(requests).kind = "data" THEN 1 ELSE 0),
         clockLock' = "none"
  PROVE  SInv'
<1> USE DEF SInv, STypeOK
<1>1. Head(requests) \in Items /\ Tail(requests) \in Seq(Items)
  BY TailItems
<1>2. STypeOK'
  BY <1>1
<1>3. TimesInv'
  <2>1. \A i \in 1 .. Len(requests)' : requests'[i].pts <= Latest'
    BY TailItems DEF TimesInv, Latest
  <2> QED
    BY <2>1 DEF TimesInv
<1>4. LineInv'
  <2>1. SUFFICES ASSUME ~atOnce
                 PROVE  /\ InLine(Append(out, Head(requests)), Tail(requests), queueIn)
                        /\ UpTo(Append(out, Head(requests)), items)
                        /\ UpTo(Tail(requests), items) /\ UpTo(queueIn, items)
    BY DEF LineInv
  <2>2. /\ InLine(out, requests, queueIn)
        /\ UpTo(out, items) /\ UpTo(requests, items) /\ UpTo(queueIn, items)
    BY <2>1 DEF LineInv
  <2>3. /\ Rising(Append(out, Head(requests))) /\ Rising(Tail(requests))
        /\ Before(Append(out, Head(requests)), Tail(requests))
    BY <1>1, <2>2, HeadPasses DEF InLine
  <2>4. Before(Tail(requests), queueIn) /\ Before(Append(out, Head(requests)), queueIn)
    BY <1>1, <2>2, TailBefore, AppendBefore DEF InLine
  <2>5. UpTo(Append(out, Head(requests)), items) /\ UpTo(Tail(requests), items)
    BY <1>1, <2>2, UpToTail, UpToAppend
  <2> QED
    BY <2>2, <2>3, <2>4, <2>5 DEF InLine
<1>5. Scheduler!HeadersHere'
  <2>1. Scheduler!Cardinality(DataIn(requests)) \in Nat
    BY DataFinite
  <2>2. Scheduler!Cardinality(DataIn(requests))'
          = Scheduler!Cardinality(DataIn(requests)) - (IF Head(requests).kind = "data" THEN 1 ELSE 0)
    BY DataTaken
  <2>3. held + queueOut + Scheduler!Cardinality(DataIn(requests)) = Outs
    BY DEF Scheduler!HeadersHere, DataIn
  <2>4. held' + queueOut' + Scheduler!Cardinality(DataIn(requests))' = Outs
    <3> PICK n \in Nat, m \in Nat : n = held /\ m = queueOut
      OBVIOUS
    <3> PICK k \in Nat : k = Scheduler!Cardinality(DataIn(requests))
      BY <2>1
    <3>1. CASE Head(requests).kind = "data"
      <4>1. held' = n + 1 /\ queueOut' = m /\ Scheduler!Cardinality(DataIn(requests))' = k - 1
        BY <2>2, <3>1
      <4>2. n + m + k = Outs
        BY <2>3
      <4> QED
        BY ONLY <4>1, <4>2, n \in Nat, m \in Nat, k \in Nat
    <3>2. CASE Head(requests).kind # "data"
      <4>1. held' = n /\ queueOut' = m /\ Scheduler!Cardinality(DataIn(requests))' = k
        BY <2>2, <3>2
      <4>2. n + m + k = Outs
        BY <2>3
      <4> QED
        BY ONLY <4>1, <4>2, n \in Nat, m \in Nat, k \in Nat
    <3> QED
      BY <3>1, <3>2
  <2> QED
    BY <2>4 DEF Scheduler!HeadersHere, DataIn
<1> QED
  BY <1>2, <1>3, <1>4, <1>5 DEF EventWaits

LEMMA FlushMoves ==
  ASSUME SInv, Scheduler!FlushQueues PROVE SInv'
<1> USE DEF SInv, STypeOK
<1> DEFINE back == Scheduler!Cardinality(DataIn(requests))
<1>1. back \in Nat
  BY DataFinite
<1>2. /\ requests' = <<>> /\ out' = out \o requests
      /\ \/ /\ queueIn' = queueIn /\ lastTs' = lastTs
            /\ held' = held + back + queueOut /\ queueOut' = 0
         \/ /\ queueIn' = <<>> /\ lastTs' = -1
            /\ held' = held + back /\ queueOut' = queueOut
      /\ UNCHANGED <<items, newest, atOnce, clockLock>> /\ clockLock = "none"
  BY DEF Scheduler!FlushQueues, Scheduler!sentVars, DataIn
<1> HIDE DEF back
<1>3. STypeOK'
  <2>1. out' \in Seq(Items) /\ requests' \in Seq(Items)
    BY <1>2, ConcatItems, EmptyLine
  <2>2. queueIn' \in Seq(Items) /\ lastTs' \in Nat \cup {-1}
    BY <1>2, EmptyLine
  <2>3. queueOut' \in Nat /\ held' \in Nat
    BY <1>1, <1>2
  <2> QED
    BY <1>2, <2>1, <2>2, <2>3
<1>4. TimesInv'
  <2>1. CASE queueIn' = queueIn /\ lastTs' = lastTs
    BY <1>2, <2>1 DEF TimesInv, Latest
  <2>2. CASE queueIn' = <<>> /\ lastTs' = -1
    BY <1>2, <2>2, EmptyLine DEF TimesInv, DataIn
  <2> QED
    BY <1>2, <2>1, <2>2
<1>5. LineInv'
  <2>1. SUFFICES ASSUME ~atOnce
                 PROVE  /\ InLine(out \o requests, <<>>, queueIn')
                        /\ UpTo(out \o requests, items)
                        /\ UpTo(queueIn', items)
    BY <1>2, EmptyLine DEF LineInv
  <2>2. /\ InLine(out, requests, queueIn)
        /\ UpTo(out, items) /\ UpTo(requests, items) /\ UpTo(queueIn, items)
    BY <2>1 DEF LineInv
  <2>3. Rising(out \o requests) /\ Before(out \o requests, queueIn)
        /\ UpTo(out \o requests, items)
    BY <2>2, ConcatRises, ConcatBefore, ConcatUpTo DEF InLine
  <2>4. queueIn' = queueIn \/ queueIn' = <<>>
    BY <1>2
  <2> QED
    BY <2>2, <2>3, <2>4, EmptyLine DEF InLine
<1>6. Scheduler!HeadersHere'
  <2>1. Scheduler!Cardinality(DataIn(requests)') = 0
    BY <1>2, EmptyLine, FS_EmptySet, SchedulerCardinality
  <2>2. held' + queueOut' = held + queueOut + back
    BY <1>1, <1>2
  <2> QED
    BY <1>1, <2>1, <2>2, <1>3 DEF Scheduler!HeadersHere, back, DataIn
<1> QED
  BY <1>2, <1>3, <1>4, <1>5, <1>6 DEF EventWaits

\* What leaves the lists alone.
LEMMA ListsStay ==
  ASSUME SInv, UNCHANGED <<queueIn, requests, lastTs, out, Scheduler!sentVars, atOnce>>,
         queueOut' \in Nat, held' \in Nat, held' + queueOut' = held + queueOut,
         \/ clockLock' = clockLock
         \/ clockLock' = "clock" /\ requests # <<>> /\ Head(requests).kind = "event"
  PROVE  SInv'
<1> USE DEF SInv, STypeOK, Scheduler!sentVars
<1>1. STypeOK'
  OBVIOUS
<1>2. TimesInv' /\ LineInv'
  BY DEF TimesInv, Latest, LineInv
<1>3. EventWaits' /\ Scheduler!HeadersHere'
  BY DEF EventWaits, Scheduler!HeadersHere
<1> QED
  BY <1>1, <1>2, <1>3

LEMMA SchedulerMoves ==
  ASSUME SInv, [Scheduler!SNext]_Scheduler!svars PROVE SInv'
<1> USE DEF Scheduler!lockVars, Scheduler!clockVars, Scheduler!clientVars
<1>1. held \in Nat /\ queueOut \in Nat
  BY DEF SInv, STypeOK
<1>2. ASSUME NEW kind \in {"data", "event"}, Scheduler!SendIn(kind) PROVE SInv'
  BY <1>2, SendInMoves
<1>3. CASE Scheduler!SendOut
  BY <1>1, <1>3, ListsStay DEF Scheduler!SendOut
<1>4. CASE Scheduler!Action
  BY <1>4, ProcessMoves
<1>5. CASE Scheduler!Tick \/ Scheduler!SetActive
  BY <1>1, <1>5, ListsStay DEF Scheduler!Tick, Scheduler!SetActive
<1>6. CASE Scheduler!FireData
  BY <1>6, FirstLeaves DEF Scheduler!FireData, Scheduler!Due, Scheduler!sentVars, SInv, STypeOK
<1>7. CASE Scheduler!FireEvent
  BY <1>1, <1>7, ListsStay DEF Scheduler!FireEvent, Scheduler!Due
<1>8. CASE Scheduler!EventProcessed
  <2>1. requests # <<>> /\ Head(requests).kind = "event"
    BY <1>8 DEF Scheduler!EventProcessed, SInv, EventWaits
  <2> QED
    BY <1>1, <1>8, <2>1, FirstLeaves DEF Scheduler!EventProcessed, Scheduler!sentVars
<1>9. CASE Scheduler!Disable \/ Scheduler!Enable
  BY <1>1, <1>9, ListsStay DEF Scheduler!Disable, Scheduler!Enable
<1>10. CASE Scheduler!LockAction
  BY <1>1, <1>10, ListsStay DEF Scheduler!LockAction
<1>11. CASE Scheduler!FlushQueues
  BY <1>11, FlushMoves
<1>12. ASSUME NEW side \in {"flush_in", "flush_out"}, Scheduler!Flush(side) PROVE SInv'
  BY <1>1, <1>12, ListsStay DEF Scheduler!Flush
<1>13. CASE UNCHANGED Scheduler!svars
  BY <1>1, <1>13, ListsStay DEF Scheduler!svars
<1> QED
  BY <1>2, <1>3, <1>4, <1>5, <1>6, <1>7, <1>8, <1>9, <1>10, <1>11, <1>12, <1>13
  DEF Scheduler!SNext, Scheduler!Clock, Scheduler!ClientRuns

LEMMA SchedulerRight ==
  ASSUME SInv PROVE Scheduler!OrderKept /\ Scheduler!HeadersHere
BY DEF SInv, LineInv, InLine, Rising, Scheduler!OrderKept

\* For any number of headers and slots: what leaves the scheduler leaves it in
\* the order it came in, however threads meet in it, and every output header is
\* with the client, in the queue or waiting.
THEOREM OrderTheorem ==
  ASSUME Outs \in Nat
  PROVE  Scheduler!SSpec => [](Scheduler!OrderKept /\ Scheduler!HeadersHere)
<1>1. Scheduler!SInit => SInv
  BY SchedulerStarts
<1>2. SInv /\ [Scheduler!SNext]_Scheduler!svars => SInv'
  BY SchedulerMoves
<1>3. SInv => Scheduler!OrderKept /\ Scheduler!HeadersHere
  BY SchedulerRight
<1> QED
  BY <1>1, <1>2, <1>3, PTL DEF Scheduler!SSpec

-----------------------------------------------------------------------------
(* The parts together.                                                     *)

\* Finite means the same in the module of the messages.
LEMMA MessagesFinite == \A S : IsFiniteSet(S) => Messages!IsFiniteSet(S)
BY Zenon DEF Messages!IsFiniteSet, IsFiniteSet

QueueInv == QInv /\ WaitInv /\ Queue!NullOnlyIfRaced

LEMMA QueueMove ==
  ASSUME IsFiniteSet(Users), QueueInv, [Queue!QNext]_queueVars
  PROVE  QueueInv'
<1>1. [Queue!QNext]_Queue!qvars
  BY DEF queueVars, Queue!qvars
<1> QED
  BY <1>1, QueueMoves, WaitersMove DEF QueueInv

LEMMA QueueStart ==
  ASSUME Queue!QInit PROVE QueueInv
BY QueueStarts DEF QueueInv, Queue!QInit, WaitInv, Queue!NullOnlyIfRaced

\* A step of the system is a step of one part, and no other part moves.
LEMMA PartsMove ==
  ASSUME [Next]_vars
  PROVE  /\ [Queue!QNext]_queueVars /\ [Tunnel!TNext]_tunnelVars
         /\ [Events!ENext]_eventsVars /\ [Component!MNext]_componentVars
         /\ [Client!CNext]_clientVars /\ [Messages!MNext]_messagesVars
         /\ [Encoder!JNext]_encoderVars /\ [Decoder!JDNext]_decoderVars
         /\ [Scheduler!SNext]_schedulerVars /\ [Shares!CPNext]_sharesVars
BY DEF Next, vars, QueueStep, TunnelStep, ComponentStep, ClientStep, EventsStep,
  MessagesStep, ClockStep, SharesStep, SchedulerStep, EncoderStep, DecoderStep

\* mmal_queue, connected ports and event flags: what a thread waits on is right,
\* for any threads, headers and flags, if at most one call fails in a component.
THEOREM CountsTheorem ==
  ASSUME IsFiniteSet(Users), IsFiniteSet(Headers), OneFailure
  PROVE  Spec => []CountsAreRight
<1> DEFINE Inv == QueueInv /\ TunnelInv /\ EventsInv
<1>1. Init => Inv
  BY QueueStart, TunnelStart, EventsStart DEF Init
<1>2. Inv /\ [Next]_vars => Inv'
  BY PartsMove, QueueMove, TunnelMove, EventsMove, MCThreadsConstants
<1>3. Inv => CountsAreRight
  <2>1. QueueInv => Queue!SemaphoreCounts /\ Queue!NullOnlyIfRaced
    BY DEF QueueInv, QInv
  <2> QED
    BY <2>1, TunnelRight, EventsRight DEF CountsAreRight
<1> QED
  BY <1>1, <1>2, <1>3, PTL DEF Spec

\* Components, connected ports, the client of VideoCore, event flags and the
\* JPEG decoder: nothing is used after it is freed, for any threads, payloads
\* and contexts, where a decoder is set up cleanly and not looked up while its
\* last holder leaves.
THEOREM AliveTheorem ==
  ASSUME IsFiniteSet(Headers), OneFailure, CleanDecoder, MaxContexts \in Nat
  PROVE  Spec => []AliveWhileReferenced
<1> DEFINE Inv == /\ ComponentInv /\ TunnelInv /\ ClientInv /\ EventsInv
                  /\ DecoderInv
<1>1. Init => Inv
  BY ComponentStart, TunnelStart, ClientStart, EventsStart, DecoderStart,
    MCThreadsConstants DEF Init
<1>2. Inv /\ [Next]_vars => Inv'
  BY PartsMove, ComponentMove, TunnelMove, ClientMove, EventsMove, DecoderMove,
    MCThreadsConstants
<1>3. Inv => AliveWhileReferenced
  BY ComponentRight, TunnelRight, ClientRight, EventsRight, DecoderRight
  DEF AliveWhileReferenced
<1> QED
  BY <1>1, <1>2, <1>3, PTL DEF Spec

\* Transfers and replies of VideoCore, message queues and the JPEG coders: what
\* is answered is what was asked, for any threads, messages, requests and sizes
\* of a picture, where a decoder is set up and let go as the theorem before says.
THEOREM AnswersTheorem ==
  ASSUME IsFiniteSet(PoolMsgs), CleanDecoder, MaxContexts \in Nat
  PROVE  Spec => []AnswersMatch
<1>1. Outs \in Nat \ {0} /\ Slices \in Nat \ {0}
  BY MCThreadsConstants DEF Encoder!JpegNumbers
<1> DEFINE Inv == /\ ClientInv /\ LinkInv /\ Messages!MessagesInv /\ EncoderInv
                  /\ DecoderInv /\ DecodedInv
<1>2. Init => Inv
  BY <1>1, ClientStart, LinkStart, MessagesFinite, Messages!MessagesStart, EncoderStart,
      DecoderStart, DecodedStart,
    MCThreadsConstants DEF Init
<1>3. Inv /\ [Next]_vars => Inv'
  <2> SUFFICES ASSUME Inv, [Next]_vars PROVE Inv'
    OBVIOUS
  <2>1. ClientInv' /\ LinkInv'
    BY PartsMove, ClientMove, LinkMove, MCThreadsConstants
  <2>2. Messages!MessagesInv'
    <3>1. [Messages!MNext]_Messages!qvars
      BY PartsMove DEF messagesVars, Messages!qvars, Messages!queueVars, Messages!poolVars
    <3> QED
      BY <3>1, Messages!MessagesMove, MCThreadsConstants
  <2>3. EncoderInv'
    BY PartsMove, EncoderMove, MCThreadsConstants
  <2>4. DecoderInv' /\ DecodedInv'
    BY <1>1, PartsMove, DecoderMove, DecodedMove
  <2> QED
    BY <2>1, <2>2, <2>3, <2>4
<1>4. Inv => AnswersMatch
  BY LinkRight, Messages!MessagesRight, EncoderRight, DecodedRight, MCThreadsConstants
  DEF AnswersMatch
<1> QED
  BY <1>2, <1>3, <1>4, PTL DEF Spec

\* The scheduler and two clock ports: headers that wait for their time are
\* neither lost nor reordered, and the ports' times agree, for any headers, slots
\* and threads that set the clocks one at a time.
THEOREM HeadersTheorem ==
  ASSUME Serialised
  PROVE  Spec => []HeadersKept
<1> DEFINE Inv == SInv /\ Shares!HeadersInv /\ Shares!CPInv
<1>1. Outs \in Nat /\ Shares!ClientApart
  BY MCThreadsConstants DEF Encoder!JpegNumbers
<1>2. Init => Inv
  BY <1>1, SchedulerStarts, Shares!HeadersStart, Shares!PortsStart DEF Init
<1>3. Inv /\ [Next]_vars => Inv'
  <2> SUFFICES ASSUME Inv, [Next]_vars PROVE Inv'
    OBVIOUS
  <2>1. [Scheduler!SNext]_Scheduler!svars
    BY PartsMove DEF schedulerVars, Scheduler!svars, Scheduler!sentVars,
      Scheduler!clockVars, Scheduler!lockVars, Scheduler!clientVars
  <2>2. [Shares!CPNext]_Shares!cpvars
    BY PartsMove DEF sharesVars, Shares!cpvars, Shares!portVars, Shares!headVars,
      Shares!threadVars
  <2>3. SInv'
    BY <2>1, SchedulerMoves
  <2>4. Shares!HeadersInv' /\ Shares!CPInv'
    BY <1>1, <2>2, Shares!HeadersKeep, Shares!PortsMove
  <2> QED
    BY <2>3, <2>4
<1>4. Inv => HeadersKept
  BY SchedulerRight, Shares!HeadersRight, Shares!FollowRight DEF HeadersKept
<1> QED
  BY <1>2, <1>3, <1>4, PTL DEF Spec

=============================================================================
