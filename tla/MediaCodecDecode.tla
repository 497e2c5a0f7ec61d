--------------------------- MODULE MediaCodecDecode ---------------------------
(***************************************************************************)
(* android_media_codec.cpp: the action moves buffers into and out of       *)
(* Android's MediaCodec, and asks to be notified when the codec could do   *)
(* more.  MediaCodec is external: it has input buffers, announces formats  *)
(* in its output, and notifies once for each request.                      *)
(***************************************************************************)
EXTENDS Naturals, Sequences, SequencesExt

CONSTANTS
  Stream,   \* the input: the format each buffer decodes to
  Slots,    \* MediaCodec's input buffers
  OutNum,   \* buffers of the output port
  MaxEventFails, MaxErrors, MaxFlushes, MaxRestarts \* bounds

VARIABLES
  sent, inq, back, outq,   \* inputs sent, queued, returned; output buffers queued
  dequeued,                \* input buffers the component has of the codec
  inside, ready,           \* what the codec holds, what it has to give
  codecFormat,             \* the format it announced last
  asked, requested,        \* a request stands; mNotificationRequested
  message,                 \* a notification is on its way to onMessageReceived
  trigger, event, at,      \* sends not yet triggered for, the event, the action
  notify, more,            \* of one amc_do_processing
  needs, told,             \* needs_configuring; formats the client has to act on
  format, known,           \* of the output port; what the client committed
  output, status,          \* the output port is enabled; module->status
  given,                   \* [nth, format] that came out
  fails, flushed,          \* failures; inputs a flush or a restart threw away
  codec, restarts          \* there is a MediaCodec; restarts of the input port

\* What only a flush or a restart of the input port changes.
portVars == <<flushed, codec, restarts>>
codecVars == <<inside, ready, codecFormat, asked>>
clientVars == <<sent, outq, told, known, output>>
mcvars == <<codecVars, clientVars, inq, back, dequeued, requested, message, trigger, event, at,
            notify, more, needs, format, status, given, fails, portVars>>

\* What the codec gives that is not the number of a decoded input.
BufsChanged == 0
FormatItem(f) == Len(Stream) + f

None == 0
BeforeAll == 1 \* the format of a port nothing was told about

MCInit ==
  /\ sent = 0 /\ inq = <<>> /\ back = {} /\ outq = 0 /\ dequeued = 0
  /\ inside = <<>> /\ ready = <<BufsChanged>> /\ codecFormat = BeforeAll
  /\ asked = FALSE /\ requested = FALSE /\ message = FALSE
  /\ trigger = 0 /\ event = FALSE /\ at = "idle" /\ notify = FALSE /\ more = FALSE
  /\ needs = FALSE /\ told = None /\ format = BeforeAll /\ known = BeforeAll
  /\ output = TRUE /\ status = TRUE /\ given = <<>>
  /\ fails = [event |-> 0, queue |-> 0] /\ flushed = {} /\ codec = TRUE /\ restarts = 0

Fail(what, bound) == fails[what] < bound /\ fails' = [fails EXCEPT ![what] = @ + 1]

-----------------------------------------------------------------------------
(* MediaCodec                                                              *)

FreeSlots == Slots - dequeued - Len(inside)

\* A new format is announced before what has it.
CodecDecodes ==
  /\ inside # <<>>
  /\ LET n == Head(inside) IN
     /\ codecFormat' = Stream[n]
     /\ ready' = ready \o (IF Stream[n] # codecFormat THEN <<FormatItem(Stream[n]), n>> ELSE <<n>>)
  /\ inside' = Tail(inside)
  /\ UNCHANGED <<asked, clientVars, inq, back, dequeued, requested, message, trigger, event, at,
                 notify, more, needs, format, status, given, fails, portVars>>

CodecNotifies ==
  /\ asked /\ (FreeSlots > 0 \/ ready # <<>>)
  /\ asked' = FALSE /\ message' = TRUE
  /\ UNCHANGED <<inside, ready, codecFormat, clientVars, inq, back, dequeued, requested, trigger,
                 event, at, notify, more, needs, format, status, given, fails, portVars>>

\* Mutant: the flag that one is asked for is not cleared.
NotifiedKeepsFlag ==
  /\ message /\ message' = FALSE /\ event' = TRUE
  /\ UNCHANGED <<requested, codecVars, clientVars, inq, back, dequeued, trigger, at, notify, more,
                 needs, format, status, given, fails, portVars>>

\* onMessageReceived
Notified ==
  /\ message /\ message' = FALSE /\ requested' = FALSE /\ event' = TRUE
  /\ UNCHANGED <<codecVars, clientVars, inq, back, dequeued, trigger, at, notify, more, needs,
                 format, status, given, fails, portVars>>

-----------------------------------------------------------------------------
(* The client                                                              *)

\* amc_port_send
SendIn ==
  /\ codec /\ sent < Len(Stream) /\ sent' = sent + 1 /\ inq' = Append(inq, sent')
  /\ trigger' = trigger + 1
  /\ UNCHANGED <<codecVars, outq, told, known, output, back, dequeued, requested, message, event, at,
                 notify, more, needs, format, status, given, fails, portVars>>

SendOut ==
  /\ output /\ outq < OutNum /\ outq' = outq + 1 /\ trigger' = trigger + 1
  /\ UNCHANGED <<codecVars, sent, told, known, output, inq, back, dequeued, requested, message, event,
                 at, notify, more, needs, format, status, given, fails, portVars>>

Trigger ==
  /\ trigger > 0 /\ trigger' = trigger - 1 /\ event' = TRUE
  /\ UNCHANGED <<codecVars, clientVars, inq, back, dequeued, requested, message, at, notify, more,
                 needs, format, status, given, fails, portVars>>

\* On an event the client disables the output (amc_port_flush; the action does
\* not run meanwhile), commits the format and enables it again.
DisableOut ==
  /\ told # None /\ output /\ at = "idle"
  /\ output' = FALSE /\ outq' = 0
  /\ UNCHANGED <<codecVars, sent, told, known, inq, back, dequeued, requested, message, trigger, event,
                 at, notify, more, needs, format, status, given, fails, portVars>>

\* amc_output_port_format_commit: only the format of the codec is taken.
CommitOut ==
  /\ told # None /\ ~output
  /\ IF told = format
     THEN known' = told /\ needs' = FALSE /\ event' = TRUE
     ELSE UNCHANGED <<known, needs, event>>
  /\ told' = None /\ output' = TRUE
  /\ UNCHANGED <<codecVars, sent, outq, inq, back, dequeued, requested, message, trigger, at, notify,
                 more, format, status, given, fails, portVars>>

\* A codec that was flushed still announces its buffers and its format.
Announcements ==
  (IF \E i \in DOMAIN ready : ready[i] = BufsChanged THEN <<BufsChanged>> ELSE <<>>)
  \o (IF \E i \in DOMAIN ready : ready[i] > Len(Stream) THEN <<FormatItem(codecFormat)>> ELSE <<>>)

\* amc_port_flush of the input, which flushes the codec too.
FlushIn ==
  /\ codec /\ at = "idle" /\ MaxFlushes > 0 /\ sent > 0 /\ flushed = {}
  /\ flushed' = 1..sent
  /\ back' = back \cup Range(inq) /\ inq' = <<>>
  /\ dequeued' = 0 /\ inside' = <<>> /\ ready' = Announcements
  /\ UNCHANGED <<codecFormat, asked, clientVars, requested, message, trigger, event, at, notify, more,
                 needs, format, status, given, fails, codec, restarts>>

\* amc_port_disable of the input: the codec is released with all it holds.
DisableIn ==
  /\ at = "idle" /\ codec /\ restarts < MaxRestarts /\ sent > 0
  /\ restarts' = restarts + 1 /\ codec' = FALSE
  /\ flushed' = 1..sent
  /\ back' = back \cup Range(inq) /\ inq' = <<>>
  /\ dequeued' = 0 /\ inside' = <<>> /\ ready' = <<>> /\ asked' = FALSE
  /\ UNCHANGED <<codecFormat, clientVars, requested, message, trigger, event, at, notify, more, needs,
                 format, status, given, fails>>

\* amc_codec_start: a new codec has not announced its format.
Started ==
  /\ ~codec /\ codec' = TRUE /\ status' = TRUE
  /\ ready' = <<BufsChanged>> /\ codecFormat' = None

\* Mutant: the request made of the released codec is not forgotten.
EnableInKeepsFlag ==
  /\ Started
  /\ UNCHANGED <<requested, inside, asked, clientVars, inq, back, dequeued, message, trigger, event,
                 at, notify, more, needs, format, given, fails, flushed, restarts>>

\* amc_input_port_enable
EnableIn ==
  /\ Started /\ requested' = FALSE
  /\ UNCHANGED <<inside, asked, clientVars, inq, back, dequeued, message, trigger, event, at, notify,
                 more, needs, format, given, fails, flushed, restarts>>

-----------------------------------------------------------------------------
(* The action: amc_do_processing_loop                                      *)

Start ==
  /\ at = "idle" /\ event /\ event' = FALSE
  /\ at' = IF status /\ codec THEN "in" ELSE "idle"
  /\ notify' = FALSE /\ more' = FALSE
  /\ UNCHANGED <<codecVars, clientVars, inq, back, dequeued, requested, message, trigger, needs, format,
                 status, given, fails, portVars>>

\* amc_do_input_processing: an input buffer of the codec is taken even if there
\* is nothing to put in it.
Got == IF (dequeued = 0 \/ inq = <<>>) /\ FreeSlots > 0 THEN dequeued + 1 ELSE dequeued

ProcessIn ==
  /\ at = "in" /\ at' = "out"
  /\ IF inq = <<>> \/ Got = 0
     THEN /\ dequeued' = Got /\ notify' = (inq # <<>>)
          /\ UNCHANGED <<inq, back, inside, more, status, fails>>
     ELSE /\ dequeued' = Got - 1 /\ more' = TRUE
          /\ inq' = Tail(inq) /\ back' = back \cup {Head(inq)}
          /\ \/ inside' = Append(inside, Head(inq)) /\ UNCHANGED <<status, fails>>
             \/ Fail("queue", MaxErrors) /\ status' = FALSE /\ UNCHANGED inside
          /\ UNCHANGED notify
  /\ UNCHANGED <<ready, codecFormat, asked, clientVars, requested, message, trigger, event, needs,
                 format, given, portVars>>

\* amc_do_output_processing: without a buffer no notification is wanted, the
\* input's included.
OutNothing ==
  /\ at = "out" /\ at' = "decide"
  /\ needs \/ outq = 0
  /\ notify' = (needs /\ notify)
  /\ UNCHANGED <<codecVars, clientVars, inq, back, dequeued, requested, message, trigger, event, more,
                 needs, format, status, given, fails, portVars>>

Asks == at = "out" /\ ~needs /\ outq > 0 /\ at' = "decide"

\* Mutant: the codec has nothing, and is not asked.
OutAgainSilent ==
  /\ Asks /\ ready = <<>>
  /\ UNCHANGED <<notify, codecVars, clientVars, inq, back, dequeued, requested, message, trigger, event,
                 more, needs, format, status, given, fails, portVars>>

OutAgain ==
  /\ Asks /\ ready = <<>> /\ notify' = TRUE
  /\ UNCHANGED <<codecVars, clientVars, inq, back, dequeued, requested, message, trigger, event, more,
                 needs, format, status, given, fails, portVars>>

OutBuffersChanged ==
  /\ Asks /\ ready # <<>> /\ Head(ready) = BufsChanged
  /\ ready' = Tail(ready) /\ more' = TRUE
  /\ UNCHANGED <<inside, codecFormat, asked, clientVars, inq, back, dequeued, requested, message,
                 trigger, event, notify, needs, format, status, given, fails, portVars>>

Announced == Head(ready) - Len(Stream)

\* Mutant: the output goes on before the client has committed the format.
FormatChangedGoesOn ==
  /\ Asks /\ ready # <<>> /\ Head(ready) > Len(Stream)
  /\ ready' = Tail(ready) /\ more' = TRUE
  /\ format' = Announced /\ told' = Announced
  /\ UNCHANGED <<inside, codecFormat, asked, sent, outq, known, output, inq, back, dequeued, requested,
                 message, trigger, event, notify, needs, status, given, fails, portVars>>

\* amc_output_format_changed: the port waits, even if there was no buffer to
\* tell the client with.
FormatChanged ==
  /\ Asks /\ ready # <<>> /\ Head(ready) > Len(Stream)
  /\ ready' = Tail(ready) /\ needs' = TRUE /\ more' = TRUE
  /\ \/ format' = Announced /\ told' = Announced /\ UNCHANGED fails
     \/ Fail("event", MaxEventFails) /\ UNCHANGED <<format, told>>
  /\ UNCHANGED <<inside, codecFormat, asked, sent, outq, known, output, inq, back, dequeued, requested,
                 message, trigger, event, notify, status, given, portVars>>

OutGives ==
  /\ Asks /\ ready # <<>> /\ Head(ready) \in DOMAIN Stream
  /\ ready' = Tail(ready) /\ outq' = outq - 1 /\ more' = TRUE
  /\ given' = Append(given, [nth |-> Head(ready), format |-> known])
  /\ UNCHANGED <<inside, codecFormat, asked, sent, told, known, output, inq, back, dequeued, requested,
                 message, trigger, event, notify, needs, format, status, fails, portVars>>

\* requestNotification, once until the notification has come; the loop goes on
\* while either part did something.
Decide ==
  /\ at = "decide"
  /\ requested' = (requested \/ notify) /\ asked' = (asked \/ (notify /\ ~requested))
  /\ at' = IF more /\ status THEN "in" ELSE "idle"
  /\ more' = FALSE /\ notify' = FALSE
  /\ UNCHANGED <<inside, ready, codecFormat, clientVars, inq, back, dequeued, message, trigger, event,
                 needs, format, status, given, fails, portVars>>

-----------------------------------------------------------------------------
MCAction == Start \/ ProcessIn \/ OutNothing \/ OutAgain \/ OutBuffersChanged \/ FormatChanged
            \/ OutGives \/ Decide
MCCodec == CodecDecodes \/ CodecNotifies \/ Notified
MCNext == \/ MCAction \/ MCCodec
          \/ SendIn \/ SendOut \/ Trigger \/ DisableOut \/ CommitOut \/ FlushIn
          \/ DisableIn \/ EnableIn

\* The action and the codec run on; the client sends what it has and acts on
\* events, and enables a port it has disabled.
MCFair == /\ WF_mcvars(MCAction) /\ WF_mcvars(CodecDecodes) /\ WF_mcvars(CodecNotifies)
          /\ WF_mcvars(Notified) /\ WF_mcvars(SendIn) /\ WF_mcvars(SendOut) /\ WF_mcvars(Trigger)
          /\ WF_mcvars(DisableOut \/ CommitOut) /\ WF_mcvars(EnableIn)
MCSpec == MCInit /\ [][MCNext]_mcvars
MCFairSpec == MCSpec /\ MCFair

(* What comes out has the format the client committed, in the order of the *)
(* input.                                                                  *)
DecodedAsTold ==
  /\ \A k \in DOMAIN given : given[k].format = Stream[given[k].nth]
  /\ \A i, j \in DOMAIN given : i < j => given[i].nth < given[j].nth

(* A request for a notification stands, or its answer is on the way, while *)
(* the component thinks so: it cannot wait for one it did not ask for.     *)
RequestStands == codec /\ requested => asked \/ message

(* All that goes in comes out, the client knowing its format, unless it    *)
(* was flushed or there was an error.                                      *)
Finished ==
  \/ fails.event + fails.queue > 0
  \/ \A n \in DOMAIN Stream \ flushed : \E k \in DOMAIN given : given[k].nth = n
DecodesAll == <>[]Finished
=============================================================================
