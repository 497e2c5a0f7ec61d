----------------------------- MODULE FrameRender -----------------------------
(***************************************************************************)
(* spdif.c, which packs AC3 frames and finds their sample rate in the      *)
(* frames themselves, and sdl_video_render.c, which shows frames through   *)
(* an overlay of the size of the format.  Both run as an action over a     *)
(* queue of buffers and events; the action holds the component's lock      *)
(* while it runs, and so does mmal_port_disable.                           *)
(***************************************************************************)
EXTENDS Naturals, Sequences

CONSTANTS
  Input,   \* what the client sends: [type, rate, order, off, big], of type
           \* "frame", "event", "flagged" (empty with a flag), "empty", "config",
           \* "bad"; for the renderer rate stands for the size
  OutNum,  \* buffers of spdif's output port
  MaxFails, MaxToggles \* bounds

VARIABLES
  kind,                    \* "spdif" or "video"
  sent, inq, outq, back,   \* inputs sent, the input queue, output buffers held, returned
  trigger, event, running, \* sends not yet triggered for, the event, the action
  inRate, outRate,         \* of the formats; outRate is the overlay's size, 0: none
  needs, status,           \* needs_configuring, module->status is MMAL_SUCCESS
  output,                  \* spdif's output port: "on", "disabling", "off"
  told, known,             \* the rate of the event the client is to act on; it knows of
  given,                   \* what came out: [nth, rate, right]
  lost,                    \* inputs the component forgot
  overrun,                 \* it wrote past the end of an output buffer
  fails, toggles

rates == <<inRate, outRate, needs, status, told, known>>
queues == <<sent, inq, outq, back, trigger, event>>
frvars == <<kind, queues, running, rates, output, given, lost, overrun, fails, toggles>>

None == 0

FRInit ==
  /\ kind \in {"spdif", "video"}
  /\ sent = 0 /\ inq = <<>> /\ outq = 0 /\ back = {}
  /\ trigger = 0 /\ event = FALSE /\ running = FALSE
  /\ inRate = 1 /\ outRate = 1 /\ needs = FALSE /\ status = TRUE
  /\ output = "on" /\ told = None /\ known = 1
  /\ given = <<>> /\ lost = {} /\ overrun = FALSE /\ fails = 0 /\ toggles = 0

-----------------------------------------------------------------------------
(* The client                                                              *)

\* spdif_port_send, sdl_port_send: queued, then triggered.
SendIn ==
  /\ sent < Len(Input) /\ sent' = sent + 1
  /\ inq' = Append(inq, sent') /\ trigger' = trigger + 1
  /\ UNCHANGED <<kind, outq, back, event, running, rates, output, given, lost, overrun, fails, toggles>>

SendOut ==
  /\ kind = "spdif" /\ output = "on" /\ outq < OutNum
  /\ outq' = outq + 1 /\ trigger' = trigger + 1
  /\ UNCHANGED <<kind, sent, inq, back, event, running, rates, output, given, lost, overrun, fails,
                 toggles>>

Trigger ==
  /\ trigger > 0 /\ trigger' = trigger - 1 /\ event' = TRUE
  /\ UNCHANGED <<kind, sent, inq, outq, back, running, rates, output, given, lost, overrun, fails,
                 toggles>>

\* mmal_port_disable of the output, to react to an event or on its own; the
\* buffers held return, and none is left elsewhere.
DisableOut ==
  /\ kind = "spdif" /\ output = "on" /\ ~running
  /\ told # None \/ toggles < MaxToggles
  /\ toggles' = IF told # None THEN toggles ELSE toggles + 1
  /\ output' = "off" /\ outq' = 0
  /\ UNCHANGED <<kind, sent, inq, back, trigger, event, running, rates, given, lost, overrun, fails>>

\* spdif_output_port_format_commit
CommitOut ==
  /\ output = "off" /\ told # None
  /\ outRate' = told /\ known' = told /\ told' = None /\ needs' = FALSE /\ event' = TRUE
  /\ UNCHANGED <<kind, sent, inq, outq, back, trigger, running, inRate, status, output, given, lost,
                 overrun, fails, toggles>>

\* A client that disabled the port on its own reads its format.
EnableOut ==
  /\ output = "off" /\ told = None
  /\ output' = "on" /\ known' = outRate
  /\ UNCHANGED <<kind, queues, running, inRate, outRate, needs, status, told, given, lost, overrun,
                 fails, toggles>>

-----------------------------------------------------------------------------
(* The action                                                              *)

Start ==
  /\ event /\ ~running /\ event' = FALSE /\ running' = TRUE
  /\ UNCHANGED <<kind, sent, inq, outq, back, trigger, rates, output, given, lost, overrun, fails,
                 toggles>>

Processing == running /\ ~needs /\ inq # <<>>
First == Input[Head(inq)]
ReturnFirst == inq' = Tail(inq) /\ back' = back \cup {Head(inq)}

\* Nothing to do, no format yet, an earlier error or no output buffer.
Stop ==
  /\ running
  /\ Processing => /\ kind = "spdif" /\ First.type # "event"
                   /\ ~status \/ (outq = 0 /\ First.type \in {"frame", "flagged", "bad"})
  /\ running' = FALSE
  /\ UNCHANGED <<kind, queues, rates, output, given, lost, overrun, fails, toggles>>

\* spdif_send_event_format_changed; without a buffer for it the error stops the
\* component.
SendEvent(rate) ==
  \/ needs' = TRUE /\ told' = rate /\ status' = TRUE /\ UNCHANGED fails
  \/ /\ fails < MaxFails /\ fails' = fails + 1
     /\ status' = FALSE /\ UNCHANGED <<needs, told>>

\* An event of spdif's input: spdif_input_port_format_commit tells the client,
\* or just sets the rate of a port that is disabled.
FormatEvent ==
  /\ Processing /\ kind = "spdif" /\ First.type = "event"
  /\ inRate' = First.rate
  /\ IF First.rate = outRate THEN status' = TRUE /\ UNCHANGED <<outRate, needs, told, fails>>
     ELSE IF output = "off"
     THEN outRate' = First.rate /\ status' = TRUE /\ UNCHANGED <<needs, told, fails>>
     ELSE SendEvent(First.rate) /\ UNCHANGED outRate
  /\ ReturnFirst
  /\ UNCHANGED <<kind, sent, outq, trigger, event, running, known, output, given, lost, overrun,
                 toggles>>

\* Empty buffers and codec configurations return at once; what is no frame
\* does so when there is an output buffer.
Skip ==
  /\ Processing /\ status /\ kind = "spdif"
  /\ First.type \in {"empty", "config"} \/ (First.type = "bad" /\ outq > 0)
  /\ ReturnFirst
  /\ UNCHANGED <<kind, sent, outq, trigger, event, running, rates, output, given, lost, overrun,
                 fails, toggles>>

\* The rate found in the frame is not the port's: the frame is put back.
RateChange ==
  /\ Processing /\ status /\ kind = "spdif" /\ outq > 0
  /\ First.type = "frame" /\ First.rate # outRate
  /\ inRate' = First.rate
  /\ SendEvent(First.rate)
  /\ running' = FALSE
  /\ UNCHANGED <<kind, queues, outRate, known, output, given, lost, overrun, toggles>>

\* Mutant: frames of another rate are packed while the client is told.
PackAnyRate ==
  /\ Processing /\ status /\ kind = "spdif" /\ outq > 0 /\ First.type \in {"frame", "flagged"}
  /\ given' = Append(given, [nth |-> Head(inq), rate |-> known, right |-> TRUE])
  /\ outq' = outq - 1 /\ ReturnFirst
  /\ UNCHANGED <<kind, sent, trigger, event, running, rates, output, lost, overrun, fails, toggles>>

\* A frame is packed.  Bytes to swap are read from twice the offset, the others
\* are copied whole even if the frame was to be truncated.
Pack ==
  /\ Processing /\ status /\ kind = "spdif" /\ outq > 0
  /\ First.type = "flagged" \/ (First.type = "frame" /\ First.rate = outRate)
  /\ given' = Append(given, [nth |-> Head(inq), rate |-> known,
                             right |-> ~(First.order = "swapped" /\ First.off)])
  /\ overrun' = (overrun \/ (First.order = "plain" /\ First.big))
  /\ outq' = outq - 1 /\ ReturnFirst
  /\ UNCHANGED <<kind, sent, trigger, event, running, rates, output, lost, fails, toggles>>

\* An output buffer that is too small stops spdif; both buffers are put back.
TooSmall ==
  /\ Processing /\ status /\ kind = "spdif" /\ outq > 0
  /\ First.type \in {"frame", "flagged", "bad"}
  /\ fails < MaxFails /\ fails' = fails + 1
  /\ status' = FALSE /\ running' = FALSE
  /\ UNCHANGED <<kind, queues, inRate, outRate, needs, told, known, output, given, lost, overrun,
                 toggles>>

\* Mutant: the overlay is kept when the size changes.
SizeEventKeeps ==
  /\ Processing /\ kind = "video" /\ First.type = "event"
  /\ inRate' = First.rate /\ ReturnFirst
  /\ UNCHANGED <<kind, sent, outq, trigger, event, running, outRate, status, needs, told, known,
                 output, given, lost, overrun, fails, toggles>>

\* sdl_do_processing: an event sets the format, sdl_port_set_format replaces the
\* overlay by one of its size, if it can,
SizeEvent ==
  /\ Processing /\ kind = "video" /\ First.type = "event"
  /\ inRate' = First.rate
  /\ \/ outRate' = First.rate /\ status' = TRUE /\ UNCHANGED fails
     \/ /\ fails < MaxFails /\ fails' = fails + 1 /\ First.rate # outRate
        /\ outRate' = None /\ status' = FALSE
  /\ ReturnFirst
  /\ UNCHANGED <<kind, sent, outq, trigger, event, running, needs, told, known, output, given, lost,
                 overrun, toggles>>

\* a frame is shown and returns; after an error it is taken and forgotten.
Show ==
  /\ Processing /\ kind = "video" /\ First.type # "event"
  /\ IF status
     THEN /\ ReturnFirst /\ UNCHANGED lost
          /\ given' = IF First.type \in {"frame", "bad"}
                      THEN Append(given, [nth |-> Head(inq), rate |-> outRate, right |-> TRUE])
                      ELSE given
     ELSE inq' = Tail(inq) /\ lost' = lost \cup {Head(inq)} /\ UNCHANGED <<back, given>>
  /\ UNCHANGED <<kind, sent, outq, trigger, event, running, rates, output, overrun, fails, toggles>>

-----------------------------------------------------------------------------
FRAction == Start \/ Stop \/ FormatEvent \/ Skip \/ RateChange \/ Pack \/ SizeEvent \/ Show
FRNext == \/ FRAction \/ TooSmall \/ SendIn \/ SendOut \/ Trigger
          \/ DisableOut \/ CommitOut \/ EnableOut

\* The thread runs on; the client sends what it has and reacts to events.
FRFair == /\ WF_frvars(FRAction) /\ WF_frvars(Trigger) /\ WF_frvars(SendIn) /\ WF_frvars(SendOut)
          /\ WF_frvars(told # None /\ DisableOut) /\ WF_frvars(CommitOut \/ EnableOut)

FRSpec == FRInit /\ [][FRNext]_frvars
FRFairSpec == FRSpec /\ FRFair

\* The renderer's frames have the size of the last event before them.
Events(n) == {i \in 1 .. n : Input[i].type = "event"}
LastEvent(n) == CHOOSE i \in Events(n) : \A j \in Events(n) : j <= i
RateOf(n) == IF kind = "spdif" THEN Input[n].rate
             ELSE IF Events(n) = {} THEN 1 ELSE Input[LastEvent(n)].rate

(* Every frame comes out under the rate, or through an overlay of the      *)
(* size, it has: what waits for a change is not sent before the client     *)
(* knows of it.                                                            *)
RateKnown == \A k \in DOMAIN given :
  Input[given[k].nth].type = "frame" => given[k].rate = RateOf(given[k].nth)

(* Frames come out in the order they went in, each once, and none is       *)
(* skipped unless it is no frame or there was an error.                    *)
RenderedInOrder ==
  /\ \A i, j \in DOMAIN given : i < j => given[i].nth < given[j].nth
  /\ fails = 0 => \A n \in back : Input[n].type = "frame" => \E k \in DOMAIN given : given[k].nth = n

(* Without an error every frame comes out at last, whatever rates the      *)
(* frames and events bring.                                                *)
Finished == back = DOMAIN Input \/ fails > 0
RendersAll == <>[]Finished

\* Every byte is the frame's and is written inside the buffer.
BytesRight == ~overrun /\ \A k \in DOMAIN given : given[k].right
\* Every buffer comes back.
AllBack == [](lost = {})
=============================================================================
