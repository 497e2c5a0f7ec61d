----------------------------- MODULE MmalClock -----------------------------
(***************************************************************************)
(* The clock of MMAL (core/mmal_clock.c): a media time that runs at a      *)
(* scale, requests to be called back at a media time, the thread that      *)
(* serves them and the VCOS timer that wakes it.                           *)
(*                                                                         *)
(* Time is counted in the timer's unit, a millisecond.  The media time,    *)
(* which the code brings up to date whenever it looks at it, is up to date *)
(* all the time here, and the wall time is the real time.  The small       *)
(* CLOCK_TARGET_OFFSET vanishes in the unit.  process_requests is one step *)
(* as it holds the lock from its first look at the time to its end.        *)
(***************************************************************************)
EXTENDS Integers, Sequences, FiniteSets

CONSTANTS
  Requests,       \* names of requests, each made once
  Times,          \* media times clients use
  Scales,         \* scales clients set
  Slots,          \* CLOCK_REQUEST_SLOTS, 32 in the code
  MinDelay,       \* MIN_TIMER_DELAY, 10 in the code
  WaitTime,       \* CLOCK_WAIT_TIME, of a paused clock
  UpdateUpper,    \* update_threshold_upper
  DiscontThreshold, DiscontDuration,
  FlipsScale,     \* may the sign of the scale change with requests pending?
  MaxTicks,       \* bound: how long time runs
  MaxSettings     \* bound: changes of scale, time and state

VARIABLES
  now,        \* real time
  media,      \* media_time
  scale, active,
  pending,    \* list_pending: records of name and adjusted time
  free,       \* length of list_free
  state,      \* of each request: "new", "pending", "fired", "flushed", ...
  atTimer,    \* media_time_at_timer; 0: the timer was not set
  discont,    \* the discontinuity: expiry (0: none), first and last time
  scheduling, \* was the thread started?
  thread,     \* "none", "wait", "process", "gone"
  stop,       \* stop_thread
  event,      \* the semaphore's count; more than 2 changes nothing
  timer,      \* when the timer expires; 0: not set
  limit,      \* request_threshold; -1: not enabled
  settings    \* so far

clockState == <<media, scale, active, limit>>
requestVars == <<pending, free, state>>
threadVars == <<thread, stop, event, timer>>
kvars == <<now, clockState, requestVars, atTimer, discont, scheduling,
           threadVars, settings>>

Abs(n) == IF n < 0 THEN -n ELSE n
NoDiscont == [expiry |-> 0, first |-> 0, last |-> 0]
Posted(n) == IF scheduling /\ n < 2 THEN n + 1 ELSE n

\* mmal_clock_create: scale 1, thresholds by default, not active.
KInit ==
  /\ now = 1 /\ media = 1 /\ scale = 1 /\ active = FALSE
  /\ pending = <<>> /\ free = Slots /\ state = [r \in Requests |-> "new"]
  /\ atTimer = 0 /\ discont = NoDiscont
  /\ scheduling = FALSE /\ thread = "none" /\ stop = FALSE
  /\ event = 0 /\ timer = 0 /\ limit = -1 /\ settings = 0

Tick ==
  /\ now < MaxTicks
  /\ now' = now + 1 /\ media' = media + scale
  /\ UNCHANGED <<scale, active, limit, requestVars, atTimer, discont,
                 scheduling, threadVars, settings>>

-----------------------------------------------------------------------------
(* Requests                                                                *)

\* Mutant: every request goes to the back.
InsertBack(list, request) == Append(list, request)

\* mmal_clock_request_insert: the list is ordered by time, backwards for a
\* negative scale; requests of one time keep their order.
Insert(list, request) ==
  LET Before(q) == IF scale >= 0 THEN q.time <= request.time
                   ELSE q.time >= request.time
      last == Len(list)
      at == IF list = <<>> \/ Before(list[last]) THEN last
            ELSE CHOOSE i \in 0 .. last - 1 :
                   /\ \A j \in 1 .. i : Before(list[j])
                   /\ ~Before(list[i + 1])
  IN SubSeq(list, 1, at) \o <<request>> \o SubSeq(list, at + 1, last)

\* Mutant: the thread is left to its timer.
AddSilent(r, time) ==
  /\ state[r] = "new" /\ thread # "gone" /\ ~stop
  /\ limit = -1 \/ time <= media + limit
  /\ free > 0
  /\ scheduling' = TRUE
  /\ thread' = IF scheduling THEN thread ELSE "wait"
  /\ free' = free - 1
  /\ pending' = Insert(pending, [name |-> r, time |-> time])
  /\ state' = [state EXCEPT ![r] = "pending"]
  /\ event' = IF active /\ ~scheduling THEN event + 1 ELSE event
  /\ UNCHANGED <<now, clockState, atTimer, discont, stop, timer, settings>>

\* mmal_clock_request_add: the first one starts the thread.
Add(r, time) ==
  /\ state[r] = "new" /\ thread # "gone" /\ ~stop
  /\ limit = -1 \/ time <= media + limit
  /\ free > 0
  /\ scheduling' = TRUE
  /\ thread' = IF scheduling THEN thread ELSE "wait"
  /\ free' = free - 1
  /\ pending' = Insert(pending, [name |-> r, time |-> time])
  /\ state' = [state EXCEPT ![r] = "pending"]
  /\ event' = IF active /\ event < 2 THEN event + 1 ELSE event
  /\ UNCHANGED <<now, clockState, atTimer, discont, stop, timer, settings>>

\* It is refused when it lies too far ahead, or there is no slot.
AddRefused(r, time) ==
  /\ state[r] = "new" /\ thread # "gone" /\ ~stop
  /\ \/ limit # -1 /\ time > media + limit /\ UNCHANGED <<scheduling, thread>>
     \/ /\ limit = -1 \/ time <= media + limit
        /\ free = 0
        /\ scheduling' = TRUE
        /\ thread' = IF scheduling THEN thread ELSE "wait"
  /\ state' = [state EXCEPT ![r] = "refused"]
  /\ UNCHANGED <<now, clockState, pending, free, atTimer, discont, stop, event,
                 timer, settings>>

Gone(list, how) ==
  [r \in Requests |-> IF \E i \in 1 .. Len(list) : list[i].name = r THEN how
                      ELSE state[r]]

\* mmal_clock_request_flush: every client is called, with an unknown time.
Flush ==
  /\ scheduling /\ ~stop /\ pending # <<>>
  /\ state' = Gone(pending, "flushed")
  /\ pending' = <<>> /\ free' = free + Len(pending) /\ atTimer' = 0
  /\ UNCHANGED <<now, clockState, discont, scheduling, threadVars, settings>>

-----------------------------------------------------------------------------
(* Settings                                                                *)

\* mmal_clock_media_time_set.  A small difference only goes into an average;
\* once the average is large enough the time moves by it.
SetTime(time) ==
  /\ ~stop /\ settings < MaxSettings /\ settings' = settings + 1
  /\ LET diff == media - time
     IN \/ /\ ~active /\ media' = time /\ UNCHANGED event
        \/ /\ active /\ scale # 0 /\ Abs(diff) > UpdateUpper
           /\ media' = time /\ event' = Posted(event)
        \/ /\ active /\ scale # 0 /\ Abs(diff) <= UpdateUpper
           /\ \/ UNCHANGED <<media, event>>
              \/ \E part \in 1 .. Abs(diff) :
                   /\ media' = IF diff > 0 THEN media - part ELSE media + part
                   /\ event' = Posted(event)
  /\ UNCHANGED <<now, scale, active, limit, requestVars, atTimer, discont,
                 scheduling, thread, stop, timer>>

\* mmal_clock_scale_set.
SetScale(s) ==
  /\ ~stop /\ s # scale /\ settings < MaxSettings /\ settings' = settings + 1
  /\ FlipsScale \/ pending = <<>> \/ (s < 0 <=> scale < 0)
  /\ scale' = s /\ event' = Posted(event)
  /\ UNCHANGED <<now, media, active, limit, requestVars, atTimer, discont,
                 scheduling, thread, stop, timer>>

\* mmal_clock_start, mmal_clock_stop.
SetActive(on) ==
  /\ ~stop /\ on # active /\ settings < MaxSettings /\ settings' = settings + 1
  /\ active' = on /\ event' = Posted(event)
  /\ UNCHANGED <<now, media, scale, limit, requestVars, atTimer, discont,
                 scheduling, thread, stop, timer>>

\* mmal_clock_request_threshold_set.
SetLimit(n) ==
  /\ ~stop /\ settings < MaxSettings /\ settings' = settings + 1
  /\ limit' = n
  /\ UNCHANGED <<now, media, scale, active, requestVars, atTimer, discont,
                 scheduling, threadVars>>

\* mmal_clock_destroy: the thread is told to stop, ...
StopThread ==
  /\ scheduling /\ ~stop
  /\ stop' = TRUE /\ event' = Posted(event)
  /\ UNCHANGED <<now, clockState, requestVars, atTimer, discont, scheduling,
                 thread, timer, settings>>

\* ... and once it has, what is pending is flushed.
Destroy ==
  /\ stop /\ thread = "gone" /\ scheduling
  /\ state' = Gone(pending, "flushed")
  /\ pending' = <<>> /\ free' = free + Len(pending) /\ atTimer' = 0
  /\ scheduling' = FALSE
  /\ UNCHANGED <<now, clockState, discont, threadVars, settings>>

-----------------------------------------------------------------------------
(* The thread and the timer                                                *)

\* mmal_clock_timer_cb.
TimerFires ==
  /\ timer # 0 /\ now >= timer
  /\ timer' = 0 /\ event' = Posted(event)
  /\ UNCHANGED <<now, clockState, requestVars, atTimer, discont, scheduling,
                 thread, stop, settings>>

Wake ==
  /\ thread = "wait" /\ event > 0
  /\ event' = event - 1 /\ timer' = 0
  /\ thread' = IF stop THEN "gone" ELSE "process"
  /\ UNCHANGED <<now, clockState, requestVars, atTimer, discont, scheduling,
                 stop, settings>>

Nothing ==
  /\ thread = "process" /\ (pending = <<>> \/ ~active)
  /\ thread' = "wait"
  /\ UNCHANGED <<now, clockState, requestVars, atTimer, discont, scheduling,
                 stop, event, timer, settings>>

\* Is the first request due, or does it belong to a discontinuity?
IsDue(request, d) ==
  \/ d.expiry # 0 /\ request.time >= d.first /\ request.time < d.last
  \/ scale > 0 /\ media + MinDelay >= request.time
  \/ scale < 0 /\ media - MinDelay <= request.time

Delay(request) ==
  LET distance == Abs(media - request.time)
  IN IF scale > 0 THEN distance \div scale
     ELSE IF scale < 0 THEN -((-distance) \div (-scale))
     ELSE WaitTime

\* Mutant: the timer runs in media time.
ProcessUnscaled ==
  /\ thread = "process" /\ pending # <<>> /\ active
  /\ LET expired == [discont EXCEPT !.expiry = IF @ # 0 /\ now > @ THEN 0 ELSE @]
         due == CHOOSE n \in 0 .. Len(pending) :
                  /\ \A i \in 1 .. n : IsDue(pending[i], expired)
                  /\ n = Len(pending) \/ ~IsDue(pending[n + 1], expired)
         rest == SubSeq(pending, due + 1, Len(pending))
     IN /\ state' = Gone(SubSeq(pending, 1, due), "fired")
        /\ pending' = rest /\ free' = free + due
        /\ discont' = expired
        /\ IF rest = <<>> THEN UNCHANGED <<atTimer, timer>>
           ELSE /\ atTimer' = media
                /\ timer' = now + Abs(media - rest[1].time)
  /\ thread' = "wait"
  /\ UNCHANGED <<now, clockState, scheduling, stop, event, settings>>

\* mmal_clock_process_requests: all requests that are due, from the front;
\* the timer is set for the first that is not.  A timer set to no delay at
\* all is not set (vcos_timer_set returns).
Process ==
  /\ thread = "process" /\ pending # <<>> /\ active
  /\ ~(atTimer # 0 /\ scale > 0 /\ media + DiscontThreshold < atTimer)
  /\ LET expired == [discont EXCEPT !.expiry = IF @ # 0 /\ now > @ THEN 0 ELSE @]
         due == CHOOSE n \in 0 .. Len(pending) :
                  /\ \A i \in 1 .. n : IsDue(pending[i], expired)
                  /\ n = Len(pending) \/ ~IsDue(pending[n + 1], expired)
         rest == SubSeq(pending, due + 1, Len(pending))
     IN /\ state' = Gone(SubSeq(pending, 1, due), "fired")
        /\ pending' = rest /\ free' = free + due
        /\ discont' = expired
        /\ IF rest = <<>> THEN UNCHANGED <<atTimer, timer>>
           ELSE /\ atTimer' = media
                /\ timer' = IF Delay(rest[1]) = 0 THEN timer ELSE now + Delay(rest[1])
  /\ thread' = "wait"
  /\ UNCHANGED <<now, clockState, scheduling, stop, event, settings>>

\* The media time jumped back since the timer was set: everything pending is
\* fired, and for a while requests from before the jump are fired at once.
ProcessDiscont ==
  /\ thread = "process" /\ pending # <<>> /\ active
  /\ atTimer # 0 /\ scale > 0 /\ media + DiscontThreshold < atTimer
  /\ state' = Gone(pending, "fired")
  /\ pending' = <<>> /\ free' = free + Len(pending)
  /\ atTimer' = 0
  /\ discont' = [expiry |-> now + DiscontDuration, first |-> atTimer,
                 last |-> atTimer + DiscontDuration]
  /\ thread' = "wait"
  /\ UNCHANGED <<now, clockState, scheduling, stop, event, timer, settings>>

Client == \/ \E r \in Requests, t \in Times : Add(r, t) \/ AddRefused(r, t)
          \/ Flush \/ StopThread \/ Destroy
          \/ \E t \in Times : SetTime(t)
          \/ \E s \in Scales : SetScale(s)
          \/ \E on \in BOOLEAN : SetActive(on)
          \/ \E n \in {-1, 0} : SetLimit(n)
Worker == Wake \/ Nothing \/ Process \/ ProcessDiscont
KNext == Tick \/ TimerFires \/ Worker \/ Client

KSpec == KInit /\ [][KNext]_kvars
\* The thread and the timer run on; nothing is asked of clients or of time.
KFair == WF_kvars(Worker) /\ WF_kvars(TimerFires)
KFairSpec == KSpec /\ KFair

-----------------------------------------------------------------------------
(* Properties                                                              *)

\* A request whose time has come on a running clock is served: no change of
\* time, scale or state, and no other request, makes the thread miss it.
Overdue(i) ==
  /\ active /\ ~stop
  /\ \/ scale > 0 /\ media >= pending[i].time
     \/ scale < 0 /\ media <= pending[i].time
DueIsServed == 
  \A r \in Requests :
    []<>~\E i \in 1 .. Len(pending) : pending[i].name = r /\ Overdue(i)

\* Requests are fired in the order of their times, in which the clock comes to
\* them, whatever the order they were made in: none is passed over.
FiredInOrder ==
  [][thread = "process" =>
       \A r, s \in 1 .. Len(pending) :
         (state'[pending[r].name] = "fired" /\ state'[pending[s].name] = "pending")
           => \/ scale >= 0 /\ pending[r].time <= pending[s].time
              \/ scale < 0 /\ pending[r].time >= pending[s].time]_kvars
=============================================================================
