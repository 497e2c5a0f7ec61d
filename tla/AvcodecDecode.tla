---------------------------- MODULE AvcodecDecode ----------------------------
(***************************************************************************)
(* The decoders over libavcodec (avcodec_video_decoder.c,                  *)
(* avcodec_audio_decoder.c): the action first sends what the last decoding *)
(* left, then decodes the next unit of the first input buffer.  A picture  *)
(* needs one output buffer; the samples of an audio frame are sent in as   *)
(* many as they need.  A frame in another format than the output port's    *)
(* is announced, and the action stands still until the client has          *)
(* committed the format.  An empty buffer with EOS drains the codec.       *)
(***************************************************************************)
EXTENDS Naturals, Sequences, FiniteSets, SequencesExt

CONSTANTS
  Stream,     \* input buffers: [units |-> numbers of frames, eos |-> BOOLEAN]
  Format,     \* Format[f]: the format of frame f
  Samples,    \* Samples[f]: the samples of frame f, of an audio stream
  Room,       \* samples an output buffer has room for
  Delay,      \* frames the video codec holds back
  OutNum,     \* output buffers
  MaxEventFails, MaxErrors, MaxFlushes \* bounds

Frames == DOMAIN Format
None == 0

\* When a frame begins: one tick for each sample.
Time(f) == 1 + SumFunctionOnSet(Samples, 1..(f - 1))

VARIABLES
  kind,                \* "video" or "audio"
  sent, inq, outq,     \* buffers of the stream sent; the two queues
  back, trigger,       \* input buffers returned; buffers sent and not triggered for
  event, running,      \* the action's event; the stage of the action
  held,                \* frames in the codec
  picture, left,       \* the frame to send (picture_available, output_size), its samples
  codecFormat, format, \* codec_context's format and the output port's
  configuring, told,   \* output_needs_configuring; what the client has to do
  pts, lastPts, since, \* of the audio decoder
  given,               \* what came out: [frame, pts, format], or EOS as frame None
  broken,              \* was anything flushed, discarded or not announced?
  eventFails, errors, flushes

stamps == <<pts, lastPts, since>>
avcounts == <<eventFails, errors, flushes>>
avvars == <<kind, sent, inq, outq, back, trigger, event, running, held, picture, left, codecFormat,
            format, configuring, told, stamps, given, broken, avcounts>>

AInit ==
  /\ kind \in {"video", "audio"}
  /\ sent = 0 /\ inq = <<>> /\ outq = 0 /\ back = 0 /\ trigger = 0
  /\ event = FALSE /\ running = "no"
  /\ held = <<>> /\ picture = None /\ left = 0
  /\ codecFormat = 1 /\ format = 1 /\ configuring = FALSE /\ told = "nothing"
  /\ pts = 0 /\ lastPts = 0 /\ since = 0
  /\ given = <<>> /\ broken = FALSE
  /\ eventFails = 0 /\ errors = 0 /\ flushes = 0

-----------------------------------------------------------------------------
(* The client                                                              *)

\* avcodec_port_send: queued, and then triggered.
SendIn ==
  /\ sent < Len(Stream) /\ sent' = sent + 1
  /\ inq' = Append(inq, [nth |-> sent', units |-> Stream[sent'].units])
  /\ trigger' = trigger + 1
  /\ UNCHANGED <<kind, outq, back, event, running, held, picture, left, codecFormat, format,
                 configuring, told, stamps, given, broken, avcounts>>

\* The buffers the client has: those neither queued nor kept while it works
\* on a new format.
SendOut ==
  /\ outq < OutNum /\ told # "disabled"
  /\ outq' = outq + 1 /\ trigger' = trigger + 1
  /\ UNCHANGED <<kind, sent, inq, back, event, running, held, picture, left, codecFormat, format,
                 configuring, told, stamps, given, broken, avcounts>>

Trigger ==
  /\ trigger > 0 /\ trigger' = trigger - 1 /\ event' = TRUE
  /\ UNCHANGED <<kind, sent, inq, outq, back, running, held, picture, left, codecFormat, format,
                 configuring, told, stamps, given, broken, avcounts>>

\* The client reacts to the event: it disables the port, which flushes it,
DisableOut ==
  /\ told = "event" /\ running = "no"
  /\ told' = "disabled" /\ outq' = 0
  /\ UNCHANGED <<kind, sent, inq, back, trigger, event, running, held, picture, left, codecFormat,
                 format, configuring, stamps, given, broken, avcounts>>

\* commits the format it was told and enables it again
\* (avcodec_output_port_set_format).
SetFormat ==
  /\ told = "disabled" /\ told' = "nothing"
  /\ format' = codecFormat /\ configuring' = FALSE /\ event' = TRUE
  /\ UNCHANGED <<kind, sent, inq, outq, back, trigger, running, held, picture, left, codecFormat,
                 stamps, given, broken, avcounts>>

\* avcodec_port_flush, with the actions locked.  The frame to send and those
\* in the codec stay.  The audio decoder sets pf_disable twice and pf_flush
\* never: its output port refuses a flush.
Flush ==
  /\ running = "no" /\ flushes < MaxFlushes /\ flushes' = flushes + 1
  /\ \/ /\ kind = "video" /\ outq' = 0 /\ UNCHANGED <<inq, back, broken>>
     \/ /\ inq' = <<>> /\ back' = back + Len(inq) /\ broken' = (broken \/ inq # <<>>)
        /\ UNCHANGED outq
  /\ UNCHANGED <<kind, sent, trigger, event, running, held, picture, left, codecFormat, format,
                 configuring, told, stamps, given, eventFails, errors>>

-----------------------------------------------------------------------------
(* avcodec_do_processing, avaudio_do_processing                            *)

\* mmal_component_action_thread_func
Start ==
  /\ event /\ running = "no"
  /\ event' = FALSE /\ running' = "output"
  /\ UNCHANGED <<kind, sent, inq, outq, back, trigger, held, picture, left, codecFormat, format,
                 configuring, told, stamps, given, broken, avcounts>>

Output == running = "output"

\* Nothing to send, or nothing to be done before the format is committed.
NothingToSend ==
  /\ Output /\ (configuring \/ picture = None)
  /\ running' = IF configuring THEN "no" ELSE "input"
  /\ UNCHANGED <<kind, sent, inq, outq, back, trigger, event, held, picture, left, codecFormat,
                 format, configuring, told, stamps, given, broken, avcounts>>

Sends == Output /\ ~configuring /\ picture # None

\* avcodec_send_event_format_changed: without an event buffer the action just
\* ends, and tries again when it is triggered next.
FormatChanged ==
  /\ Sends /\ codecFormat # format /\ running' = "no"
  /\ \/ configuring' = TRUE /\ told' = "event" /\ UNCHANGED <<eventFails, broken>>
     \/ /\ eventFails < MaxEventFails /\ eventFails' = eventFails + 1 /\ broken' = TRUE
        /\ UNCHANGED <<configuring, told>>
  /\ UNCHANGED <<kind, sent, inq, outq, back, trigger, event, held, picture, left, codecFormat,
                 format, stamps, given, errors, flushes>>

SendWaits ==
  /\ Sends /\ codecFormat = format /\ outq = 0 /\ running' = "no"
  /\ UNCHANGED <<kind, sent, inq, outq, back, trigger, event, held, picture, left, codecFormat,
                 format, configuring, told, stamps, given, broken, avcounts>>

\* avcodec_send_picture
SendPicture ==
  /\ Sends /\ kind = "video" /\ codecFormat = format /\ outq > 0
  /\ outq' = outq - 1 /\ picture' = None /\ running' = "input"
  /\ given' = Append(given, [frame |-> picture, pts |-> Time(picture), format |-> format])
  /\ UNCHANGED <<kind, sent, inq, back, trigger, event, held, left, codecFormat, format,
                 configuring, told, stamps, broken, avcounts>>

\* The picture does not fit into the buffer (avpicture_layout fails): the
\* buffer is put back, an error sent, and the action ends.
SendPictureFails ==
  /\ Sends /\ kind = "video" /\ codecFormat = format /\ outq > 0
  /\ errors < MaxErrors /\ errors' = errors + 1
  /\ running' = "no" /\ broken' = TRUE
  /\ UNCHANGED <<kind, sent, inq, outq, back, trigger, event, held, picture, left, codecFormat,
                 format, configuring, told, stamps, given, eventFails, flushes>>

SmallerOf(a, b) == IF a < b THEN a ELSE b

\* avcodec_send_frame: as many samples as the buffer has room for; after the
\* first buffer of a frame the time is computed from the samples, those of
\* this buffer included.
SendSamples ==
  LET n == SmallerOf(left, Room)
      last == IF pts # 0 THEN pts ELSE lastPts
      count == (IF pts # 0 THEN 0 ELSE since) + n
  IN /\ Sends /\ kind = "audio" /\ codecFormat = format /\ outq > 0
     /\ outq' = outq - 1 /\ left' = left - n
     /\ picture' = IF left' = 0 THEN None ELSE picture
     /\ running' = IF left' = 0 THEN "input" ELSE "output"
     /\ lastPts' = last /\ since' = count /\ pts' = 0
     /\ given' = Append(given, [frame |-> picture, format |-> format, samples |-> n,
                                pts |-> IF pts # 0 THEN pts ELSE last + count])
     /\ UNCHANGED <<kind, sent, inq, back, trigger, event, held, codecFormat, format, configuring,
                    told, broken, avcounts>>

NoInput ==
  /\ running = "input" /\ inq = <<>> /\ running' = "no"
  /\ UNCHANGED <<kind, sent, inq, outq, back, trigger, event, held, picture, left, codecFormat,
                 format, configuring, told, stamps, given, broken, avcounts>>

Holds == IF kind = "video" THEN Delay ELSE 0

\* What the codec holds after it was given the next unit of a buffer, or
\* nothing (libavcodec), and whether it gives a frame.
Fed(units) == IF units = <<>> THEN held ELSE Append(held, Head(units))
Gives(units) == Fed(units) # <<>> /\ (units = <<>> \/ Len(Fed(units)) > Holds)

\* One unit is decoded.
Decode(units) ==
  IF Gives(units)
  THEN LET f == Head(Fed(units)) IN
       /\ held' = Tail(Fed(units)) /\ picture' = f /\ codecFormat' = Format[f]
       /\ left' = IF kind = "audio" THEN Samples[f] ELSE 0
  ELSE held' = Fed(units) /\ UNCHANGED <<picture, left, codecFormat>>

\* in->dts, or pts: the time of a buffer is that of its first frame.
Stamp(nth) == IF Stream[nth].units = <<>> THEN 0 ELSE Time(Stream[nth].units[1])

\* What becomes of the first input buffer: it goes back to the head of the
\* queue,
PutBack(nth, rest, stage) ==
  /\ inq' = <<[nth |-> nth, units |-> rest]>> \o Tail(inq) /\ running' = stage
  /\ UNCHANGED <<outq, back, given>>

\* or to the client,
Return == inq' = Tail(inq) /\ back' = back + 1 /\ running' = "output"

\* with EOS sent before (avcodec_send_eos).
SendEos ==
  /\ outq > 0 /\ outq' = outq - 1
  /\ given' = Append(given, [frame |-> None, pts |-> 0])
  /\ Return

\* Mutant: EOS leaves as soon as its buffer has no more data.
FinishAtOnce(nth, rest, gave) ==
  LET eos == Stream[nth].eos
  IN \/ rest # <<>> /\ PutBack(nth, rest, "output")
     \/ rest = <<>> /\ eos /\ SendEos
     \/ rest = <<>> /\ eos /\ outq = 0 /\ PutBack(nth, rest, "no")
     \/ rest = <<>> /\ ~eos /\ Return /\ UNCHANGED <<outq, given>>

\* It is kept while it has data, for the end of the stream while the codec
\* gives frames, and as long as there is no buffer to send EOS in.
Finish(nth, rest, gave) ==
  LET eos == Stream[nth].eos
      keep == rest # <<>> \/ (eos /\ gave)
  IN \/ keep /\ PutBack(nth, rest, "output")
     \/ ~keep /\ eos /\ SendEos
     \/ ~keep /\ eos /\ outq = 0 /\ PutBack(nth, rest, "no")
     \/ ~keep /\ ~eos /\ Return /\ UNCHANGED <<outq, given>>

Input == running = "input" /\ inq # <<>>

\* A buffer that came empty is returned.
Discard ==
  /\ Input /\ Head(inq).units = <<>> /\ ~Stream[Head(inq).nth].eos
  /\ Finish(Head(inq).nth, <<>>, FALSE)
  /\ UNCHANGED <<kind, sent, trigger, event, held, picture, left, codecFormat, format, configuring,
                 told, stamps, broken, avcounts>>

\* The next unit is decoded, or with EOS nothing, so that the codec gives what
\* it holds.
DecodeNext ==
  LET buf == Head(inq)
      rest == IF buf.units = <<>> THEN <<>> ELSE Tail(buf.units)
  IN /\ Input /\ (buf.units # <<>> \/ Stream[buf.nth].eos)
     /\ Decode(buf.units)
     /\ pts' = IF kind = "audio" THEN Stamp(buf.nth) ELSE 0
     /\ Finish(buf.nth, rest, Gives(buf.units))
     /\ UNCHANGED <<kind, sent, trigger, event, format, configuring, told, lastPts, since, broken,
                    avcounts>>

\* The codec cannot decode: what the buffer has left is discarded.
DecodeFails ==
  LET buf == Head(inq)
  IN /\ Input /\ buf.units # <<>>
     /\ errors < MaxErrors /\ errors' = errors + 1 /\ broken' = TRUE
     /\ pts' = IF kind = "audio" THEN Stamp(buf.nth) ELSE 0
     /\ Finish(buf.nth, <<>>, FALSE)
     /\ UNCHANGED <<kind, sent, trigger, event, held, picture, left, codecFormat, format,
                    configuring, told, lastPts, since, eventFails, flushes>>

Action == \/ Start \/ NothingToSend \/ FormatChanged \/ SendWaits \/ SendPicture \/ SendSamples
          \/ NoInput \/ Discard \/ DecodeNext

AvNext == \/ Action \/ Trigger \/ SendIn \/ SendOut \/ DisableOut \/ SetFormat
          \/ Flush \/ SendPictureFails \/ DecodeFails

\* The thread runs on; the client sends what it has and reacts to events.
AvFair == /\ WF_avvars(Action) /\ WF_avvars(Trigger) /\ WF_avvars(SendIn) /\ WF_avvars(SendOut)
          /\ WF_avvars(DisableOut) /\ WF_avvars(SetFormat)
AvSpec == AInit /\ [][AvNext]_avvars
AvFairSpec == AvSpec /\ AvFair

-----------------------------------------------------------------------------
(* Properties                                                              *)

TypeOK ==
  /\ sent \in 0..Len(Stream) /\ outq \in 0..OutNum /\ back + Len(inq) = sent
  /\ running \in {"no", "output", "input"} /\ told \in {"nothing", "event", "disabled"}
  /\ left \in 0..9 /\ (kind = "audio" => (left > 0) = (picture # None))

Units == FlattenSeq([b \in DOMAIN Stream |-> Stream[b].units])
Given == SelectSeq(given, LAMBDA g : g.frame # None)
Came(g) == IF kind = "audio" THEN g.samples ELSE 1
SamplesOf(f) == SumFunctionOnSet([k \in DOMAIN Given |-> Came(Given[k])],
                                 {k \in DOMAIN Given : Given[k].frame = f})

\* avcodec_do_processing: the frames come out in their order, none again after
\* a later one, and up to the last one that came each is whole unless
\* something was flushed or could not be decoded.
FramesInOrder ==
  /\ \A i, j \in DOMAIN Given : i < j => Given[i].frame <= Given[j].frame
  /\ \A f \in Frames : SamplesOf(f) <= (IF kind = "audio" THEN Samples[f] ELSE 1)
  /\ ~broken /\ Given # <<>> =>
       \A f \in 1..(Last(Given).frame - 1) :
         SamplesOf(f) = (IF kind = "audio" THEN Samples[f] ELSE 1)

\* avcodec_do_processing: EOS is the last thing that comes out, when the codec
\* has given all it held and no frame waits.
EosLast ==
  \A k \in DOMAIN given : given[k].frame = None =>
    /\ k = Len(given) /\ picture = None /\ held = <<>>
    /\ (broken \/ \A f \in Frames : SamplesOf(f) = (IF kind = "audio" THEN Samples[f] ELSE 1))

\* avcodec_output_port_set_format: no frame comes out in a format other than
\* the one the client committed last.
FormatKnown ==
  \A k \in DOMAIN given : given[k].frame # None => given[k].format = Format[given[k].frame]

\* avcodec_send_frame: time does not run backwards from one buffer to the next.
TimesRise == \A i, j \in DOMAIN Given : i < j => Given[i].pts <= Given[j].pts

\* avcodec_do_processing: the stream is decoded to its end and every buffer
\* sent comes back, unless something broke on the way.
Finished == broken \/ (back = Len(Stream) /\ given # <<>> /\ Last(given).frame = None)
DecodesToEnd == <>[]Finished
=============================================================================
