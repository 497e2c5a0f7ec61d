--------------------------- MODULE ClockComponent ---------------------------
(***************************************************************************)
(* The clock component (components/clock.c): its ports' events go through  *)
(* a few slots to the action thread, which keeps statistics of the stream  *)
(* behind each port and sets the clocks of all ports together.             *)
(*                                                                         *)
(* Times are not numbers here: a frame brings a new time stamp, the same,  *)
(* none, or jumps; the clocks' media time is the number of the adjustment  *)
(* that set it, the size of the adjustment is left out.                    *)
(***************************************************************************)
EXTENDS Naturals, Sequences, FiniteSets, FiniteSetsExt

CONSTANTS
  Ports,      \* clock ports of the component
  Headers,    \* headers the events come with
  Slots,      \* MAX_CLOCK_EVENT_SLOTS
  Length,     \* samples of a filter
  Samples,    \* media time offsets
  MaxEvents   \* bound: events

Infos == {"none", "first", "same", "frame", "jump"}
NoStream == [started |-> FALSE]
NoHeader == "no header"

VARIABLES
  queue,      \* events.queue; the slots not in it are in events.free
  working,    \* the event the action thread has taken, as a sequence
  away,       \* headers with the clients
  dropped,    \* history: headers of events that found no slot
  stream,     \* module->stream of each port: its filter and whether it started
  window,     \* history: the samples of each stream's filter, oldest first
  discont, pending, scale, threshold,   \* of the component
  latencySet, \* was latency.attack_period ever set?
  stopped,    \* ended by a division by zero
  enabled, active, media, portScale, portThreshold,   \* of each port
  adjusted,   \* number of adjustments
  pausedAt,   \* history: value of adjusted at the last pause
  late,       \* history: ports enabled after the last adjustment
  told,       \* history: ports resumed by their own event since the last pause
  events      \* so far

eventVars == <<queue, working, away, dropped>>
moduleVars == <<stream, window, discont, pending, scale, threshold, latencySet, stopped>>
portVars == <<enabled, active, media, portScale, portThreshold>>
ccvars == <<eventVars, moduleVars, portVars, adjusted, pausedAt, late, told, events>>

\* filter_init
EmptyFilter ==
  [started |-> FALSE, first |-> 0, last |-> Length - 1, count |-> 0, sum |-> 0,
   h |-> [i \in 0 .. Length - 1 |-> 0]]
Wrap(i) == IF i + 1 < Length THEN i + 1 ELSE 0

\* filter_drop
DropSample(f) ==
  IF f.count = 0 THEN f
  ELSE [f EXCEPT !.sum = @ - f.h[f.first], !.first = Wrap(@), !.count = @ - 1]

\* Mutant: a full filter keeps its oldest sample in the sum.
InsertFull(f, x) ==
  LET at == Wrap(f.last) IN
  [f EXCEPT !.last = at, !.h[at] = x, !.sum = @ + x,
            !.count = IF @ = Length THEN @ ELSE @ + 1,
            !.first = IF f.count = Length THEN Wrap(@) ELSE @]

\* filter_insert
InsertSample(f, x) ==
  LET g == IF f.count = Length THEN DropSample(f) ELSE f
      at == Wrap(g.last)
  IN [g EXCEPT !.last = at, !.h[at] = x, !.sum = @ + x, !.count = @ + 1]

CCInit ==
  /\ queue = <<>> /\ working = <<>> /\ away = Headers /\ dropped = {}
  /\ stream = [p \in Ports |-> NoStream] /\ window = [p \in Ports |-> <<>>]
  /\ discont = TRUE /\ pending = FALSE /\ scale = 1 /\ threshold = 0
  /\ latencySet = FALSE /\ stopped = FALSE
  /\ enabled = [p \in Ports |-> FALSE] /\ active = [p \in Ports |-> FALSE]
  /\ media = [p \in Ports |-> 0] /\ portScale = [p \in Ports |-> 1]
  /\ portThreshold = [p \in Ports |-> 0]
  /\ adjusted = 0 /\ pausedAt = 0 /\ late = {} /\ told = {} /\ events = 0

-----------------------------------------------------------------------------
(* Clients                                                                 *)

EnablePort(p) ==
  /\ ~stopped /\ ~enabled[p] /\ events < MaxEvents
  /\ enabled' = [enabled EXCEPT ![p] = TRUE]
  /\ late' = late \cup {p}
  /\ events' = events + 1
  /\ UNCHANGED <<eventVars, moduleVars, active, media, portScale, portThreshold,
                 adjusted, pausedAt, told>>

\* clock_event_queue: an event without a slot is forgotten, and its header
\* with it.
Queue(e) ==
  /\ events < MaxEvents /\ events' = events + 1
  /\ IF Len(queue) < Slots
     THEN queue' = Append(queue, e) /\ UNCHANGED dropped
     ELSE dropped' = dropped \cup ({e.header} \ {NoHeader}) /\ UNCHANGED queue

\* clock_event_cb, called by mmal_port_clock_process_buffer once that has set
\* the port's own clock.
EventCb(p, kind, value) ==
  /\ ~stopped /\ enabled[p] /\ away # {}
  /\ LET h == CHOOSE x \in away : TRUE IN
     /\ away' = away \ {h}
     /\ Queue([port |-> p, kind |-> kind, value |-> value, header |-> h])
  /\ portScale' = IF kind = "scale" THEN [portScale EXCEPT ![p] = value] ELSE portScale
  /\ portThreshold' = IF kind = "threshold" THEN [portThreshold EXCEPT ![p] = value]
                                            ELSE portThreshold
  /\ told' = IF kind = "scale" /\ value = 1 THEN told \cup {p} ELSE told
  /\ UNCHANGED <<working, moduleVars, enabled, active, media, adjusted, pausedAt, late>>

\* clock_control_parameter_set: the latency is queued for the action thread.
SetLatency ==
  /\ ~stopped
  /\ Queue([port |-> CHOOSE p \in Ports : TRUE, kind |-> "latency", value |-> 0,
            header |-> NoHeader])
  /\ UNCHANGED <<working, away, moduleVars, portVars, adjusted, pausedAt, late, told>>

-----------------------------------------------------------------------------
(* The action thread                                                       *)

\* Mutant: the header stays with the slot.
DequeueKeeps ==
  /\ ~stopped /\ working = <<>> /\ queue # <<>>
  /\ working' = <<Head(queue)>> /\ queue' = Tail(queue)
  /\ UNCHANGED <<away, dropped, moduleVars, portVars, adjusted, pausedAt, late, told,
                 events>>

\* clock_event_dequeue: the slot is free and the header returned before the
\* event is processed.
Dequeue ==
  /\ ~stopped /\ working = <<>> /\ queue # <<>>
  /\ working' = <<Head(queue)>> /\ queue' = Tail(queue)
  /\ away' = away \cup ({Head(queue).header} \ {NoHeader})
  /\ UNCHANGED <<dropped, moduleVars, portVars, adjusted, pausedAt, late, told, events>>

Take(kind) == ~stopped /\ working # <<>> /\ working[1].kind = kind /\ working' = <<>>

\* clock_reset_clocks
Reset == /\ discont' = TRUE
         /\ stream' = [p \in Ports |-> IF stream[p] = NoStream THEN NoStream ELSE EmptyFilter]
         /\ window' = [p \in Ports |-> <<>>]

\* Mutant: the scale of a resumed clock is set at once.
ProcessScaleAtOnce ==
  LET e == working[1] IN
  /\ Take("scale") /\ scale' = e.value
  /\ portScale' = [p \in Ports |-> e.value] /\ pending' = FALSE
  /\ pausedAt' = IF e.value = 0 THEN adjusted ELSE pausedAt
  /\ told' = IF e.value = 0 THEN {} ELSE told
  /\ UNCHANGED <<stream, window, discont, queue, away, dropped, threshold, latencySet,
                 stopped, enabled, active, media, portThreshold, adjusted, late, events>>

\* clock_process_scale_event: a pause is applied at once, a resume waits for
\* new times.
ProcessScale ==
  LET e == working[1] IN
  /\ Take("scale") /\ scale' = e.value
  /\ IF e.value = 0
     THEN /\ portScale' = [p \in Ports |-> 0] /\ pending' = FALSE
          /\ pausedAt' = adjusted
          /\ told' = {q \in Ports : \E i \in 1 .. Len(queue) :
                         queue[i].kind = "scale" /\ queue[i].value = 1 /\ queue[i].port = q}
          /\ UNCHANGED <<stream, window, discont>>
     ELSE /\ IF scale = 1 THEN UNCHANGED <<stream, window, discont, pending>>
                          ELSE Reset /\ pending' = TRUE
          /\ UNCHANGED <<portScale, pausedAt, told>>
  /\ UNCHANGED <<queue, away, dropped, threshold, latencySet, stopped, enabled, active,
                 media, portThreshold, adjusted, late, events>>

\* clock_process_update_threshold_event and its two likes.
ProcessThreshold ==
  /\ Take("threshold")
  /\ threshold' = working[1].value
  /\ portThreshold' = [p \in Ports |-> working[1].value]
  /\ UNCHANGED <<queue, away, dropped, stream, window, discont, pending, scale, latencySet,
                 stopped, enabled, active, media, portScale, adjusted, pausedAt, late,
                 told, events>>

\* clock_process_latency_event
ProcessLatency ==
  /\ Take("latency") /\ latencySet' = TRUE /\ Reset
  /\ UNCHANGED <<queue, away, dropped, pending, scale, threshold, stopped, portVars,
                 adjusted, pausedAt, late, told, events>>

\* clock_update_stream: the first times start a stream; a jump forgets all
\* streams; the same time stamp again is only remembered.
ProcessInfo(info) ==
  LET p == working[1].port
      f == IF stream[p] = NoStream THEN EmptyFilter ELSE stream[p]
  IN /\ Take("info") /\ info \in Infos \ {"frame"}
     /\ info = "first" <=> (info # "none" /\ ~f.started)
     /\ IF info = "jump"
        THEN Reset
        ELSE /\ stream' = [stream EXCEPT ![p] = [f EXCEPT !.started = @ \/ info = "first"]]
             /\ UNCHANGED <<window, discont>>
     /\ UNCHANGED <<queue, away, dropped, pending, scale, threshold, latencySet, stopped,
                    portVars, adjusted, pausedAt, late, told, events>>

\* clock_get_mt_off_avg: the other streams lose a sample, or all of them, by
\* the time since their last frame.
Aged(s, age) ==
  IF s = NoStream \/ age = "recent" THEN s
  ELSE IF age = "old" THEN DropSample(s)
  ELSE [EmptyFilter EXCEPT !.started = s.started]
AgedWindow(w, age) ==
  IF age = "recent" \/ w = <<>> THEN w ELSE IF age = "old" THEN Tail(w) ELSE <<>>

\* clock_stop_clocks and clock_start_clocks: after a discontinuity the clocks
\* of the enabled ports start anew, with the component's thresholds.
RestartClocks ==
  /\ active' = [q \in Ports |-> active[q] \/ enabled[q]]
  /\ portThreshold' = [q \in Ports |-> IF enabled[q] THEN threshold ELSE portThreshold[q]]
  /\ late' = {}

\* clock_set_media_time for the enabled ports, then clock_set_scale for all
\* if a scale is pending.
SetClocks ==
  /\ adjusted' = adjusted + 1
  /\ media' = [q \in Ports |-> IF enabled[q] THEN adjusted + 1 ELSE media[q]]
  /\ portScale' = IF pending THEN [q \in Ports |-> scale] ELSE portScale
  /\ pending' = FALSE

\* clock_adjust_clocks: without a discontinuity only the time is set; that
\* divides by latency.attack_period, which is 0 until a client sets it.
AdjustClocks ==
  /\ IF discont THEN RestartClocks
     ELSE late' = {q \in late : ~active[q]} /\ UNCHANGED <<active, portThreshold>>
  /\ IF discont \/ latencySet
     THEN SetClocks /\ discont' = FALSE /\ UNCHANGED stopped
     ELSE /\ stopped' = TRUE
          /\ UNCHANGED <<discont, adjusted, media, portScale, pending>>

\* clock_update_stream with a complete frame.
ProcessFrame ==
  /\ Take("info")
  /\ LET p == working[1].port IN
     /\ stream[p].started
     /\ \E x \in Samples, age \in [Ports -> {"recent", "old", "stale"}] :
          LET with == [stream EXCEPT ![p] = InsertSample(@, x)]
              win == [window EXCEPT ![p] = IF Len(@) = Length THEN Append(Tail(@), x)
                                                              ELSE Append(@, x)]
          IN /\ age[p] = "recent"
             /\ stream' = [q \in Ports |-> Aged(with[q], age[q])]
             /\ window' = [q \in Ports |-> AgedWindow(win[q], age[q])]
  /\ AdjustClocks
  /\ UNCHANGED <<queue, away, dropped, scale, threshold, latencySet, enabled, pausedAt,
                 told, events>>

Process == ProcessScale \/ ProcessThreshold \/ ProcessLatency \/ ProcessFrame
             \/ \E i \in Infos : ProcessInfo(i)

CCNext ==
  \/ \E p \in Ports : \/ EnablePort(p)
                      \/ \E v \in {0, 1} : EventCb(p, "scale", v) \/ EventCb(p, "threshold", v)
                      \/ EventCb(p, "info", 0)
  \/ SetLatency \/ Dequeue \/ Process

CCFair == WF_ccvars(Dequeue \/ Process)
CCSpec == CCInit /\ [][CCNext]_ccvars

-----------------------------------------------------------------------------
(* Properties                                                              *)

\* The average of a stream is that of the samples in its filter, whatever
\* was dropped or reset in between.
AverageOfWindow ==
  \A p \in Ports : stream[p] # NoStream =>
    /\ stream[p].count = Len(window[p])
    /\ stream[p].sum = MapThenSumSet(LAMBDA i : window[p][i], DOMAIN window[p])

\* Paused clocks resume with a time set after the pause, and together; but a
\* port that a client tells to resume does so before its component.
ResumeInTime ==
  \A p \in Ports : active[p] /\ portScale[p] = 1 /\ p \notin late \cup told =>
    media[p] > pausedAt

\* The clocks that were started agree on the time.
ClocksAgree ==
  \A p, q \in Ports : active[p] /\ active[q] /\ {p, q} \cap late = {} => media[p] = media[q]

\* A header comes back unless its event found no slot.
HeadersReturn == working = <<>> /\ queue = <<>> => away \cup dropped = Headers

\* Once the events are processed all ports have the component's thresholds,
\* unless one was forgotten for want of a slot.
ThresholdsAgree ==
  working = <<>> /\ queue = <<>> /\ dropped = {} =>
    \A p \in Ports : portThreshold[p] = threshold
=============================================================================
