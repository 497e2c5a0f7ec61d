----------------------------- MODULE Scheduler -----------------------------
(***************************************************************************)
(* The scheduler component (components/scheduler.c): what comes in at its  *)
(* input goes out of its output when the clock reaches its time stamp.     *)
(* Three threads meet in it: the action thread, the thread of the clock,   *)
(* which calls back with the clock's lock held, and a client that flushes, *)
(* disables and enables the ports with the port's and the action lock.     *)
(*                                                                         *)
(* A unit of time is the 1000 microseconds by which an event is placed     *)
(* after the last buffer.  Buffers and events are numbered as they arrive. *)
(***************************************************************************)
EXTENDS Integers, Sequences, FiniteSets

CONSTANTS
  Outs,        \* output headers
  Slots,       \* request slots of the clock
  MaxTime,     \* bound: how far the clock runs
  MaxItems,    \* bound: buffers and events sent
  MaxCalls,    \* bound: flushes and disables
  DisablesWithEvent  \* may a port be disabled with an event under way?

VARIABLES
  queueIn,   \* the input port's queue
  queueOut,  \* headers in the output port's queue
  requests,  \* pending requests of the clock, in order
  lastTs,    \* last_ts of the input port; -1: unknown
  failed,    \* module->status
  out,       \* what left the output port, oldest first
  held,      \* output headers the client has
  items, newest,  \* items sent, and the latest time stamp
  time, active,   \* of the clock
  enabled,   \* is the input port?
  clockLock, portLock, actionLock, \* who has the lock
  place, call, \* where the client is, and in which call
  calls,     \* so far
  atOnce     \* was an event not scheduled?

clockVars == <<time, active>>
lockVars == <<clockLock, portLock, actionLock>>
clientVars == <<place, call, calls>>
sentVars == <<items, newest>>
svars == <<queueIn, queueOut, requests, lastTs, failed, out, held, sentVars,
           clockVars, enabled, lockVars, clientVars, atOnce>>

Item(kind, n, pts) == [kind |-> kind, no |-> n, pts |-> pts]

\* mmal_clock_request_add, as MmalClock has it: before the first that is later.
Scheduled(list, item) ==
  LET slot == CHOOSE i \in 0 .. Len(list) :
                 /\ \A j \in 1 .. i : list[j].pts <= item.pts
                 /\ i = Len(list) \/ list[i + 1].pts > item.pts
  IN SubSeq(list, 1, slot) \o <<item>> \o SubSeq(list, slot + 1, Len(list))

SInit ==
  /\ queueIn = <<>> /\ queueOut = 0 /\ requests = <<>> /\ lastTs = -1
  /\ failed = FALSE /\ out = <<>> /\ held = Outs
  /\ items = 0 /\ newest = 0
  /\ time = 0 /\ active = FALSE /\ enabled = TRUE
  /\ clockLock = "none" /\ portLock = "none" /\ actionLock = "none"
  /\ place = "idle" /\ call = "none" /\ calls = 0 /\ atOnce = FALSE

-----------------------------------------------------------------------------
(* What the ports are sent (scheduler_port_send)                           *)

\* Time stamps grow by a unit at least.
SendIn(kind) ==
  /\ enabled /\ items < MaxItems
  /\ \E pts \in IF kind = "data" THEN newest + 1 .. newest + 2 ELSE {newest} :
       /\ newest' = pts
       /\ queueIn' = Append(queueIn, Item(kind, items + 1, pts))
  /\ items' = items + 1
  /\ UNCHANGED <<queueOut, requests, lastTs, failed, out, held, clockVars,
                 enabled, lockVars, clientVars, atOnce>>

SendOut ==
  /\ held > 0
  /\ held' = held - 1 /\ queueOut' = queueOut + 1
  /\ UNCHANGED <<queueIn, requests, lastTs, failed, out, sentVars, clockVars,
                 enabled, lockVars, clientVars, atOnce>>

-----------------------------------------------------------------------------
(* The action thread (scheduler_component_process_buffers)                 *)

CanAct == actionLock = "none" /\ ~failed /\ queueIn # <<>>

\* A buffer moves to an output header, which waits for its time.
ProcessData ==
  /\ CanAct /\ Head(queueIn).kind = "data" /\ queueOut > 0
  /\ clockLock = "none"
  /\ Len(requests) < Slots
  /\ requests' = Scheduled(requests, Head(queueIn))
  /\ queueIn' = Tail(queueIn) /\ queueOut' = queueOut - 1
  /\ lastTs' = Head(queueIn).pts
  /\ UNCHANGED <<failed, out, held, sentVars, clockVars, enabled, lockVars,
                 clientVars, atOnce>>

\* No slot is left: the header goes back empty and the component gives up.
ProcessDataFails ==
  /\ CanAct /\ Head(queueIn).kind = "data" /\ queueOut > 0
  /\ clockLock = "none"
  /\ Len(requests) = Slots
  /\ failed' = TRUE
  /\ queueIn' = Tail(queueIn) /\ queueOut' = queueOut - 1 /\ held' = held + 1
  /\ lastTs' = Head(queueIn).pts
  /\ UNCHANGED <<requests, out, sentVars, clockVars, enabled, lockVars,
                 clientVars, atOnce>>

\* Mutant: an event goes out when it is seen.
ProcessEventAtOnce ==
  /\ CanAct /\ Head(queueIn).kind = "event" /\ clockLock = "none"
  /\ out' = Append(out, Head(queueIn)) /\ queueIn' = Tail(queueIn)
  /\ UNCHANGED <<queueOut, requests, lastTs, failed, held, sentVars, clockVars,
                 enabled, lockVars, clientVars, atOnce>>

\* An event is scheduled a unit after the last buffer.  Before the first one
\* that is still not MMAL_TIME_UNKNOWN: it comes before everything.
ProcessEvent ==
  /\ CanAct /\ Head(queueIn).kind = "event"
  /\ clockLock = "none" /\ Len(requests) < Slots
  /\ requests' = Scheduled(requests, [Head(queueIn) EXCEPT
                    !.pts = IF lastTs = -1 THEN -1 ELSE lastTs + 1])
  /\ queueIn' = Tail(queueIn)
  /\ UNCHANGED <<queueOut, lastTs, failed, out, held, sentVars, clockVars,
                 enabled, lockVars, clientVars, atOnce>>

\* No slot: it is processed at once, format_commit taking the port's lock.
ProcessEventNow ==
  /\ CanAct /\ Head(queueIn).kind = "event"
  /\ clockLock = "none" /\ Len(requests) = Slots /\ portLock = "none"
  /\ out' = Append(out, Head(queueIn)) /\ queueIn' = Tail(queueIn)
  /\ atOnce' = TRUE
  /\ UNCHANGED <<queueOut, requests, lastTs, failed, held, sentVars, clockVars,
                 enabled, lockVars, clientVars>>

-----------------------------------------------------------------------------
(* The clock                                                               *)

Tick ==
  /\ active /\ time < MaxTime /\ time' = time + 1
  /\ UNCHANGED <<queueIn, queueOut, requests, lastTs, failed, out, held,
                 sentVars, active, enabled, lockVars, clientVars, atOnce>>

SetActive ==
  /\ ~active /\ active' = TRUE
  /\ UNCHANGED <<queueIn, queueOut, requests, lastTs, failed, out, held,
                 sentVars, time, enabled, lockVars, clientVars, atOnce>>

Due == active /\ clockLock = "none" /\ requests # <<>> /\ Head(requests).pts <= time

\* scheduler_component_clock_port_request_cb, a buffer ...
FireData ==
  /\ Due /\ Head(requests).kind = "data"
  /\ requests' = Tail(requests)
  /\ out' = Append(out, Head(requests)) /\ held' = held + 1
  /\ UNCHANGED <<queueIn, queueOut, lastTs, failed, sentVars, clockVars, enabled,
                 lockVars, clientVars, atOnce>>

\* ... and an event: with the clock's lock the port's is waited for.
FireEvent ==
  /\ Due /\ Head(requests).kind = "event"
  /\ clockLock' = "clock"
  /\ UNCHANGED <<queueIn, queueOut, requests, lastTs, failed, out, held,
                 sentVars, clockVars, enabled, portLock, actionLock, clientVars,
                 atOnce>>

\* scheduler_event_process.
EventProcessed ==
  /\ clockLock = "clock" /\ portLock = "none"
  /\ clockLock' = "none"
  /\ requests' = Tail(requests)
  /\ out' = Append(out, Head(requests))
  /\ UNCHANGED <<queueIn, queueOut, lastTs, failed, held, sentVars, clockVars,
                 enabled, portLock, actionLock, clientVars, atOnce>>

-----------------------------------------------------------------------------
(* The client                                                              *)

\* Events of the input that have not left, nor may still come.
EventUnderWay == \/ \E i \in 1 .. Len(requests) : requests[i].kind = "event"
                 \/ \E i \in 1 .. Len(queueIn) : queueIn[i].kind = "event"

\* mmal_port_disable_internal: LOCK_PORT, and is_enabled is reset.
Disable ==
  /\ place = "idle" /\ enabled /\ calls < MaxCalls
  /\ DisablesWithEvent \/ ~EventUnderWay
  /\ portLock = "none"
  /\ portLock' = "client" /\ enabled' = FALSE
  /\ place' = "action" /\ call' = "disable" /\ calls' = calls + 1
  /\ UNCHANGED <<queueIn, queueOut, requests, lastTs, failed, out, held,
                 sentVars, clockVars, clockLock, actionLock, atOnce>>

\* mmal_port_flush does not take the port's lock.
Flush(port) ==
  /\ place = "idle" /\ enabled /\ calls < MaxCalls
  /\ place' = "action" /\ call' = port /\ calls' = calls + 1
  /\ UNCHANGED <<queueIn, queueOut, requests, lastTs, failed, out, held,
                 sentVars, clockVars, enabled, lockVars, atOnce>>

LockAction ==
  /\ place = "action" /\ actionLock = "none"
  /\ actionLock' = "client" /\ place' = "flush"
  /\ UNCHANGED <<queueIn, queueOut, requests, lastTs, failed, out, held,
                 sentVars, clockVars, enabled, clockLock, portLock, call, calls,
                 atOnce>>

\* Mutant: the requests are dropped without calling their owners.
FlushForgets ==
  /\ place = "flush" /\ clockLock = "none"
  /\ requests' = <<>>
  /\ IF call = "flush_out" THEN held' = held + queueOut /\ queueOut' = 0
                                /\ UNCHANGED <<queueIn, lastTs>>
     ELSE queueIn' = <<>> /\ lastTs' = -1 /\ UNCHANGED <<queueOut, held>>
  /\ actionLock' = "none"
  /\ portLock' = IF call = "disable" THEN "none" ELSE portLock
  /\ place' = "idle" /\ call' = "none"
  /\ UNCHANGED <<failed, out, sentVars, clockVars, enabled, clockLock, calls,
                 atOnce>>

\* scheduler_port_flush: the clock calls back for every request, events take
\* the port's lock (the client itself may have it); the queue goes back.
FlushQueues ==
  /\ place = "flush" /\ clockLock = "none"
  /\ (\E i \in 1 .. Len(requests) : requests[i].kind = "event") => portLock = "none"
  /\ out' = out \o requests /\ requests' = <<>>
  /\ LET back == Cardinality({i \in 1 .. Len(requests) : requests[i].kind = "data"})
     IN IF call = "flush_out" THEN held' = held + back + queueOut /\ queueOut' = 0
                                   /\ UNCHANGED <<queueIn, lastTs>>
        ELSE queueIn' = <<>> /\ lastTs' = -1 /\ held' = held + back
             /\ UNCHANGED queueOut
  /\ actionLock' = "none"
  /\ portLock' = IF call = "disable" THEN "none" ELSE portLock
  /\ place' = "idle" /\ call' = "none"
  /\ UNCHANGED <<failed, sentVars, clockVars, enabled, clockLock, calls, atOnce>>

Enable ==
  /\ place = "idle" /\ ~enabled /\ portLock = "none" /\ enabled' = TRUE
  /\ UNCHANGED <<queueIn, queueOut, requests, lastTs, failed, out, held,
                 sentVars, clockVars, lockVars, clientVars, atOnce>>

Action == ProcessData \/ ProcessDataFails \/ ProcessEvent \/ ProcessEventNow
Clock == FireData \/ FireEvent \/ EventProcessed
ClientRuns == LockAction \/ FlushQueues
SNext == \/ \E kind \in {"data", "event"} : SendIn(kind)
         \/ SendOut \/ Action \/ Tick \/ SetActive \/ Clock
         \/ Disable \/ Enable \/ ClientRuns
         \/ \E port \in {"flush_in", "flush_out"} : Flush(port)

SSpec == SInit /\ [][SNext]_svars
\* The three threads run on.
SFair == WF_svars(Action) /\ WF_svars(Clock) /\ WF_svars(ClientRuns)
SFairSpec == SSpec /\ SFair

-----------------------------------------------------------------------------
(* Properties                                                              *)

\* What leaves the scheduler leaves it in the order it came in, events in
\* their place among the buffers ("so they come out in the right order"), and
\* what is flushed before what comes later; unless an event could not be
\* scheduled.
OrderKept == ~atOnce => \A i, j \in 1 .. Len(out) : i < j => out[i].no < out[j].no

\* Every output header is with the client, in the queue or waiting.
HeadersHere ==
  held + queueOut + Cardinality({i \in 1 .. Len(requests) :
                                   requests[i].kind = "data"}) = Outs

\* Every flush and disable returns.
CallsReturn == []<>(place = "idle")

=============================================================================
