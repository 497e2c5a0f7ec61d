--------------------------- MODULE ContainerWriter ---------------------------
(***************************************************************************)
(* The container writer (container_reader.c): each run of its action       *)
(* writes one buffer, of the port whose first buffer has the earliest      *)
(* timestamp, or of the port whose frame is being written.  The action is  *)
(* triggered by an event when a buffer is sent.                            *)
(***************************************************************************)
EXTENDS Naturals, Sequences, FiniteSets, SequencesExt

CONSTANTS
  InputNum,   \* number of input ports
  Streams,    \* for each port what the client has: [time |-> , end |-> , eos |-> ]
  FramedIn,   \* the ports with MMAL_ES_FORMAT_FLAG_FRAMED
  AtOnce,     \* buffers sent, of whichever port, until one must come back
  MaxFlushes, MaxErrors \* bounds

Inputs == 0..(InputNum - 1)
NoPort == InputNum
Idle == "idle"

VARIABLES
  queue,          \* of each port: places in its stream
  sent,           \* how much of each stream was sent
  back,           \* buffers of each port that came back
  trigger, event, running, \* sends not yet triggered for; the event; the action
  scan,           \* the action's choice so far: where it began, ports looked at,
                  \* the port and time chosen, the ports that had a buffer
  port_last_used, port_writing_frame, \* NoPort: no frame is being written
  written,        \* <<port, place>> as vc_container_write was called
  flushed,        \* ports that were flushed
  error, ended,   \* module->error; ports an EOS event was sent for
  wasted,         \* triggers that set no event, or ran the action for nothing
  flushes, errors

wvars == <<queue, sent, back, trigger, event, running, scan, port_last_used, port_writing_frame,
           written, flushed, error, ended, wasted, flushes, errors>>

ScanFrom(p) == [from |-> p, looked |-> 0, port |-> NoPort, time |-> 0, seen |-> {}]

WInit ==
  /\ queue = [p \in Inputs |-> <<>>] /\ sent = [p \in Inputs |-> 0]
  /\ back = [p \in Inputs |-> 0]
  /\ trigger = 0 /\ event = FALSE /\ running = Idle
  /\ scan = ScanFrom(0) /\ port_last_used = 0 /\ port_writing_frame = NoPort
  /\ written = <<>> /\ flushed = {} /\ error = FALSE /\ ended = {}
  /\ wasted = 0 /\ flushes = 0 /\ errors = 0

Buffer(p) == Streams[p][Head(queue[p])]

-----------------------------------------------------------------------------
\* container_port_send: queued, and then triggered.
Send(p) ==
  /\ sent[p] < Len(Streams[p])
  /\ \A q \in Inputs : sent[q] - back[q] < AtOnce
  /\ queue' = [queue EXCEPT ![p] = Append(@, sent[p] + 1)]
  /\ sent' = [sent EXCEPT ![p] = @ + 1]
  /\ trigger' = trigger + 1
  /\ UNCHANGED <<back, event, running, scan, port_last_used, port_writing_frame, written, flushed,
                 error, ended, wasted, flushes, errors>>

Trigger ==
  /\ trigger > 0 /\ trigger' = trigger - 1 /\ event' = TRUE
  /\ wasted' = wasted + (IF event THEN 1 ELSE 0)
  /\ UNCHANGED <<queue, sent, back, running, scan, port_last_used, port_writing_frame, written,
                 flushed, error, ended, flushes, errors>>

\* container_port_flush, with the actions locked.
Flush(p) ==
  /\ running = Idle /\ queue[p] # <<>> /\ flushes < MaxFlushes /\ flushes' = flushes + 1
  /\ back' = [back EXCEPT ![p] = @ + Len(queue[p])]
  /\ queue' = [queue EXCEPT ![p] = <<>>]
  /\ flushed' = flushed \cup {p}
  /\ UNCHANGED <<sent, trigger, event, running, scan, port_last_used, port_writing_frame, written,
                 error, ended, wasted, errors>>

\* Mutant: triggers still to come are forgotten with the event.
StartForgets ==
  /\ event /\ running = Idle
  /\ event' = FALSE /\ trigger' = 0 /\ running' = IF error THEN Idle ELSE "select"
  /\ scan' = ScanFrom(port_last_used)
  /\ UNCHANGED <<queue, sent, back, port_last_used, port_writing_frame, written, flushed, error,
                 ended, wasted, flushes, errors>>

\* mmal_component_action_thread_func
Start ==
  /\ event /\ running = Idle
  /\ event' = FALSE /\ running' = IF error THEN Idle ELSE "select"
  /\ scan' = ScanFrom(port_last_used)
  /\ UNCHANGED <<queue, sent, back, trigger, port_last_used, port_writing_frame, written, flushed,
                 error, ended, wasted, flushes, errors>>

\* A port's buffer is as early as those of the ports looked at before it.
AsEarly(p) == queue[p] # <<>> /\ (scan.port # NoPort => Buffer(p).time <= scan.time)

\* The ports are looked at from port_last_used on, each buffer taken from its
\* queue and put back, while the client sends; port_last_used follows.
Scan ==
  /\ running = "select" /\ scan.looked < InputNum
  /\ LET p == (scan.from + scan.looked) % InputNum IN
       /\ port_last_used' = IF AsEarly(p) THEN p ELSE port_last_used
       /\ scan' = [scan EXCEPT !.looked = @ + 1,
                               !.port = IF AsEarly(p) THEN p ELSE @,
                               !.time = IF AsEarly(p) THEN Buffer(p).time ELSE @,
                               !.seen = IF queue[p] # <<>> THEN @ \cup {p} ELSE @]
  /\ UNCHANGED <<queue, sent, back, trigger, event, running, port_writing_frame, written, flushed,
                 error, ended, wasted, flushes, errors>>

\* Mutant: a frame being written does not count.
PortAnyFrame == scan.port

\* The frame being written overrides the choice.
Port == IF port_writing_frame # NoPort THEN port_writing_frame ELSE scan.port

Chosen == running = "select" /\ scan.looked = InputNum
HasBuffer == Port # NoPort /\ queue[Port] # <<>>

\* Nothing to write.
NothingToWrite ==
  /\ Chosen /\ ~HasBuffer
  /\ running' = Idle /\ wasted' = wasted + 1
  /\ UNCHANGED <<queue, sent, back, trigger, event, scan, port_last_used, port_writing_frame,
                 written, flushed, error, ended, flushes, errors>>

EndsFrame(p) == Buffer(p).end \/ p \notin FramedIn

\* One buffer is written and given back.  An EOS flag becomes an event, if there
\* is a buffer for it.  If the write fails an error is reported and nothing is
\* written any more; if it cannot be reported either the writer goes on.
WriteOne ==
  /\ Chosen /\ HasBuffer
  /\ port_writing_frame' = IF EndsFrame(Port) THEN NoPort ELSE Port
  /\ queue' = [queue EXCEPT ![Port] = Tail(@)]
  /\ back' = [back EXCEPT ![Port] = @ + 1]
  /\ written' = Append(written, <<Port, Head(queue[Port])>>)
  /\ \/ /\ ended' \in IF Buffer(Port).eos THEN {ended \cup {Port}, ended} ELSE {ended}
        /\ UNCHANGED <<error, errors>>
     \/ /\ errors < MaxErrors /\ errors' = errors + 1
        /\ error' \in BOOLEAN
        /\ UNCHANGED ended
  /\ running' = Idle
  /\ UNCHANGED <<sent, trigger, event, scan, port_last_used, flushed, wasted, flushes>>

Action == Start \/ Scan \/ NothingToWrite \/ WriteOne
WNext == Action \/ Trigger \/ \E p \in Inputs : Send(p) \/ Flush(p)

WSpec == WInit /\ [][WNext]_wvars

-----------------------------------------------------------------------------
(* Properties                                                              *)

TypeOK ==
  /\ port_last_used \in Inputs /\ port_writing_frame \in Inputs \cup {NoPort}
  /\ \A p \in Inputs : back[p] + Len(queue[p]) = sent[p]

\* A frame in parts is given to the container without another port's buffers
\* between them, and each port's buffers in the order they were sent (a part
\* whose write fails and cannot be reported is missing from the file).
FramesWhole ==
  \A k \in DOMAIN written : \A p \in FramedIn \ flushed :
    k < Len(written) /\ written[k][1] = p /\ ~Streams[p][written[k][2]].end =>
      written[k + 1] = <<p, written[k][2] + 1>>

\* Of the buffers the scan met the earliest is written, and of equally early
\* ones not that of the port used last while another port's waits.
RoundRobin ==
  [][\A p, q \in Inputs :
       /\ Len(written') > Len(written) /\ written'[Len(written')][1] = p
       /\ port_writing_frame = NoPort /\ p # q /\ q \in scan.seen
       => \/ Buffer(p).time < Buffer(q).time
          \/ Buffer(p).time = Buffer(q).time /\ (InputNum = 2 => scan.from # p)]_wvars

\* A run writes one buffer, so each buffer that waits has a trigger to come;
\* except for those whose trigger met an event already set, or came while
\* another port's frame was being written: these wait for the next send.
EachTriggerWrites ==
  \/ error
  \/ FoldFunctionOnSet(LAMBDA q, n : Len(q) + n, 0, queue, Inputs)
       <= wasted + trigger + (IF event THEN 1 ELSE 0) + (IF running = Idle THEN 0 ELSE 1)
=============================================================================
