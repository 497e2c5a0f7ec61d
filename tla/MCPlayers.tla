------------------------------ MODULE MCPlayers -----------------------------
(***************************************************************************)
(* Components that play, and the commands that start and stop them, for    *)
(* TLC: OpenMAX IL's command thread, the reader of containers, the two     *)
(* decoders, the copy, the sound and the video output. They share no       *)
(* state: a behaviour runs one of them and leaves the others as they       *)
(* start.  The properties come first, then what is proved of them for any  *)
(* input; what is proved of the command thread is in OmxCommands.          *)
(***************************************************************************)
EXTENDS Integers, Sequences, FiniteSets, FiniteSetTheorems,
        SequenceTheorems, TLAPS

CONSTANTS OmxPorts, CommandsBufferNum, ReaderBufferNum, MaxCmdBuffers,
          Unanswered, MaxCommands, Targets, MaxFailures, Outs, File, Framed,
          Room, MaxSeeks, MaxFlushes, MaxErrors, SeekAnytime, DecoderStream,
          SinkStream, MediaStream, Format, Samples, Delay, DecoderOutNum,
          CopyOutNum, RenderOutNum, MediaOutNum, MaxEventFails, CopyInput,
          RenderInput, MaxTooSmall, MaxToggles, Ask, Wrap, StopWaits,
          FlushAnytime, EnableAnyway, MaxScales, MaxTrackFails, MaxDisables,
          MaxFails, Slots, MaxRestarts

\* ContainerReader: the frames of a file, by track; a frame may take several
\* buffers, and track 3 is not selected.
Part(track, end) == [track |-> track, end |-> end]
Played == <<Part(1, FALSE), Part(2, TRUE), Part(1, TRUE), Part(3, TRUE), Part(2, TRUE)>>

\* AvcodecDecode: what is sent, the format and the samples of each frame.
Unit(units, eos) == [units |-> units, eos |-> eos]
Coded ==
  <<Unit(<<1>>, FALSE), Unit(<<2>>, FALSE), Unit(<<>>, FALSE), Unit(<<3>>, FALSE), Unit(<<>>, TRUE)>>
FrameFormat == <<1, 2, 2>>
FrameSamples == <<2, 3, 1>>

\* CopyFlow, AudioSink, FrameRender and MediaCodecDecode: what is sent.
Copied == <<"data", "event", "data", "event", "data">>
Sound == <<[len |-> 3, eos |-> FALSE], [len |-> 1, eos |-> FALSE], [len |-> 0, eos |-> TRUE]>>
Burst(t, r) == [type |-> t, rate |-> r, order |-> "swapped", off |-> FALSE, big |-> FALSE]
Bursts ==
  <<Burst("frame", 1), Burst("frame", 2), Burst("event", 3), Burst("bad", 1),
    Burst("config", 1), Burst("frame", 1), Burst("flagged", 1)>>
Encoded == <<1, 2>>

VARIABLES
  part,   \* the part that runs
  state, transition, queue, sema, enabled, actions, buffers, populated,
  transit, on, pool, held, flushed, own, stack, ret, owed, told, shorted,
  commands, failures, pos, base, readerQueue, flush, eos, error, event,
  running, client, trigger, silent, given, dropped, misses, seeks, flushes,
  errors, kind,
  sent, inq, outq, back, decoderTrigger, decoderEvent, decoderRunning,
  decoderHeld, picture, left, codecFormat, format, configuring, decoderTold,
  pts, lastPts, since, decoderGiven, broken, eventFails, decoderErrors,
  decoderFlushes, copyKind, copySent, copyInq, copyOutq, copyBack,
  copyTrigger, copyEvent, copyRunning, inFormat, outFormat, needs, status,
  output, copyTold, known, copyGiven, lost, fails, toggles, sinkKind, track,
  sinkEnabled, sinkState, scale, sinkQueue, sinkLeft, counted, sinkSent,
  sending, device, hand, space, taken, sinkClient, played, sinkBack,
  eosSent, noTrack, done, renderKind, renderSent, renderInq, renderOutq,
  renderBack, renderTrigger, renderEvent, renderRunning, inRate, outRate,
  renderNeeds, renderStatus, renderOutput, renderTold, renderKnown,
  renderGiven, renderLost, overrun, renderFails, renderToggles, mediaSent,
  mediaInq, mediaBack, mediaOutq, dequeued, inside, ready, mediaCodecFormat,
  asked, requested, message, mediaTrigger, mediaEvent, at, notify, more,
  mediaNeeds, mediaTold, mediaFormat, mediaKnown, mediaOutput, mediaStatus,
  mediaGiven, mediaFails, mediaFlushed, codec, restarts

commandsVars == <<state, transition, queue, sema, enabled, actions,
                  buffers, populated, transit, on, pool, held, flushed,
                  own, stack, ret, owed, told, shorted, commands, failures>>
readerVars == <<pos, base, readerQueue, flush, eos, error, event, running,
                client, trigger, silent, given, dropped, misses, seeks, flushes,
                errors>>
decoderVars == <<kind, sent, inq, outq, back, decoderTrigger,
                 decoderEvent, decoderRunning, decoderHeld, picture, left,
                 codecFormat, format, configuring, decoderTold, pts,
                 lastPts, since, decoderGiven, broken, eventFails,
                 decoderErrors, decoderFlushes>>
copyVars == <<copyKind, copySent, copyInq, copyOutq, copyBack,
              copyTrigger, copyEvent, copyRunning, inFormat, outFormat,
              needs, status, output, copyTold, known, copyGiven, lost,
              fails, toggles>>
sinkVars == <<sinkKind, track, sinkEnabled, sinkState, scale, sinkQueue,
              sinkLeft, counted, sinkSent, sending, device, hand, space,
              taken, sinkClient, played, sinkBack, eosSent, noTrack, done>>
renderVars == <<renderKind, renderSent, renderInq, renderOutq, renderBack,
                renderTrigger, renderEvent, renderRunning, inRate,
                outRate, renderNeeds, renderStatus, renderOutput,
                renderTold, renderKnown, renderGiven, renderLost, overrun,
                renderFails, renderToggles>>
mediaVars == <<mediaSent, mediaInq, mediaBack, mediaOutq, dequeued,
               inside, ready, mediaCodecFormat, asked, requested, message,
               mediaTrigger, mediaEvent, at, notify, more, mediaNeeds,
               mediaTold, mediaFormat, mediaKnown, mediaOutput,
               mediaStatus, mediaGiven, mediaFails, mediaFlushed, codec,
               restarts>>

Commands == INSTANCE OmxCommands WITH BufferNum <- CommandsBufferNum
Reader == INSTANCE ContainerReader WITH queue <- readerQueue, BufferNum <-
  ReaderBufferNum
Decoder == INSTANCE AvcodecDecode WITH trigger <- decoderTrigger, event <-
  decoderEvent, running <- decoderRunning, held <- decoderHeld, told <-
  decoderTold, given <- decoderGiven, errors <- decoderErrors, flushes <-
  decoderFlushes, Stream <- DecoderStream, OutNum <- DecoderOutNum
Copy == INSTANCE CopyFlow WITH kind <- copyKind, sent <- copySent, inq <-
  copyInq, outq <- copyOutq, back <- copyBack, trigger <- copyTrigger, event
  <- copyEvent, running <- copyRunning, told <- copyTold, given <- copyGiven,
  OutNum <- CopyOutNum, Input <- CopyInput
Sink == INSTANCE AudioSink WITH kind <- sinkKind, enabled <- sinkEnabled,
  state <- sinkState, queue <- sinkQueue, left <- sinkLeft, sent <- sinkSent,
  client <- sinkClient, back <- sinkBack, Stream <- SinkStream
Render == INSTANCE FrameRender WITH kind <- renderKind, sent <- renderSent,
  inq <- renderInq, outq <- renderOutq, back <- renderBack, trigger <-
  renderTrigger, event <- renderEvent, running <- renderRunning, needs <-
  renderNeeds, status <- renderStatus, output <- renderOutput, told <-
  renderTold, known <- renderKnown, given <- renderGiven, lost <- renderLost,
  fails <- renderFails, toggles <- renderToggles, OutNum <- RenderOutNum,
  Input <- RenderInput
Media == INSTANCE MediaCodecDecode WITH sent <- mediaSent, inq <- mediaInq,
  back <- mediaBack, outq <- mediaOutq, codecFormat <- mediaCodecFormat,
  trigger <- mediaTrigger, event <- mediaEvent, needs <- mediaNeeds, told <-
  mediaTold, format <- mediaFormat, known <- mediaKnown, output <-
  mediaOutput, status <- mediaStatus, given <- mediaGiven, fails <-
  mediaFails, flushed <- mediaFlushed, Stream <- MediaStream, OutNum <-
  MediaOutNum

Init ==
  /\ part \in {"Commands", "Reader", "Decoder", "Copy", "Sink", "Render",
               "Media"}
  /\ Commands!OInit
  /\ Reader!RInit
  /\ Decoder!AInit
  /\ Copy!FInit
  /\ Sink!ASInit
  /\ Render!FRInit
  /\ Media!MCInit
  /\ part # "Commands" => state = "Loaded"
  /\ part # "Decoder" => kind = "video"
  /\ part # "Copy" => copyKind = "copy"
  /\ part # "Sink" => sinkKind = "aaf"
  /\ part # "Render" => renderKind = "spdif"

CommandsStep ==
  /\ part = "Commands" /\ Commands!ONext
  /\ UNCHANGED <<part, readerVars, decoderVars, copyVars, sinkVars,
                 renderVars, mediaVars>>
ReaderStep ==
  /\ part = "Reader" /\ Reader!RNext
  /\ UNCHANGED <<part, commandsVars, decoderVars, copyVars, sinkVars,
                 renderVars, mediaVars>>
DecoderStep ==
  /\ part = "Decoder" /\ Decoder!AvNext
  /\ UNCHANGED <<part, commandsVars, readerVars, copyVars, sinkVars,
                 renderVars, mediaVars>>
CopyStep ==
  /\ part = "Copy" /\ Copy!FNext
  /\ UNCHANGED <<part, commandsVars, readerVars, decoderVars, sinkVars,
                 renderVars, mediaVars>>
SinkStep ==
  /\ part = "Sink" /\ Sink!ASNext
  /\ UNCHANGED <<part, commandsVars, readerVars, decoderVars, copyVars,
                 renderVars, mediaVars>>
RenderStep ==
  /\ part = "Render" /\ Render!FRNext
  /\ UNCHANGED <<part, commandsVars, readerVars, decoderVars, copyVars,
                 sinkVars, mediaVars>>
MediaStep ==
  /\ part = "Media" /\ Media!MCNext
  /\ UNCHANGED <<part, commandsVars, readerVars, decoderVars, copyVars,
                 sinkVars, renderVars>>

Next == CommandsStep \/ ReaderStep \/ DecoderStep \/ CopyStep \/ SinkStep \/
     RenderStep \/ MediaStep
vars == <<part, commandsVars, readerVars, decoderVars, copyVars, sinkVars,
          renderVars, mediaVars>>

\* The action threads of components run while they are triggered, the command
\* thread and the codec run, a client that plays sends what it has and reacts
\* to a change of format, and buffers it was given are used.
Spec ==
  /\ Init /\ [][Next]_vars
  /\ \A t \in Commands!Threads : WF_commandsVars(part = "Commands" /\ Commands!Checks(t))
  /\ WF_commandsVars(part = "Commands" /\ Commands!CmdThread)
  /\ WF_commandsVars(part = "Commands" /\ Commands!ClientRuns)
  /\ WF_commandsVars(part = "Commands" /\ Commands!Returns)
  /\ \A p \in Commands!Ports, what \in {"allocate", "free"} : WF_commandsVars(part = "Commands" /\ Commands!CallBuffers(what, p))
  /\ WF_readerVars(part = "Reader" /\ Reader!Action)
  /\ WF_readerVars(part = "Reader" /\ Reader!Trigger)
  /\ \A p \in Outs : WF_readerVars(part = "Reader" /\ Reader!Send(p))
  /\ WF_decoderVars(part = "Decoder" /\ Decoder!Action)
  /\ WF_decoderVars(part = "Decoder" /\ Decoder!Trigger)
  /\ WF_decoderVars(part = "Decoder" /\ Decoder!SendIn)
  /\ WF_decoderVars(part = "Decoder" /\ Decoder!SendOut)
  /\ WF_decoderVars(part = "Decoder" /\ Decoder!DisableOut)
  /\ WF_decoderVars(part = "Decoder" /\ Decoder!SetFormat)
  /\ WF_copyVars(part = "Copy" /\ Copy!FAction)
  /\ WF_copyVars(part = "Copy" /\ Copy!Trigger)
  /\ WF_copyVars(part = "Copy" /\ Copy!SendIn)
  /\ WF_copyVars(part = "Copy" /\ Copy!SendOut)
  /\ WF_copyVars(part = "Copy" /\ (Copy!Disabled \/ Copy!Commit \/ Copy!Enable))
  /\ WF_copyVars(part = "Copy" /\ copyTold # Copy!None /\ Copy!Disable)
  /\ WF_sinkVars(part = "Sink" /\ Sink!Call)
  /\ WF_sinkVars(part = "Sink" /\ (Sink!Take \/ Sink!Play \/ Sink!Counted))
  /\ WF_sinkVars(part = "Sink" /\ Sink!Send)
  /\ WF_sinkVars(part = "Sink" /\ (Sink!Queued \/ Sink!Drain \/ Sink!Zero \/ Sink!Restart \/ Sink!DisableWait))
  /\ WF_renderVars(part = "Render" /\ Render!FRAction)
  /\ WF_renderVars(part = "Render" /\ Render!Trigger)
  /\ WF_renderVars(part = "Render" /\ Render!SendIn)
  /\ WF_renderVars(part = "Render" /\ Render!SendOut)
  /\ WF_renderVars(part = "Render" /\ renderTold # Render!None /\ Render!DisableOut)
  /\ WF_renderVars(part = "Render" /\ (Render!CommitOut \/ Render!EnableOut))
  /\ WF_mediaVars(part = "Media" /\ Media!MCAction)
  /\ WF_mediaVars(part = "Media" /\ Media!CodecDecodes)
  /\ WF_mediaVars(part = "Media" /\ Media!CodecNotifies)
  /\ WF_mediaVars(part = "Media" /\ Media!Notified)
  /\ WF_mediaVars(part = "Media" /\ Media!SendIn)
  /\ WF_mediaVars(part = "Media" /\ Media!SendOut)
  /\ WF_mediaVars(part = "Media" /\ Media!Trigger)
  /\ WF_mediaVars(part = "Media" /\ (Media!DisableOut \/ Media!CommitOut))
  /\ WF_mediaVars(part = "Media" /\ Media!EnableIn)

-----------------------------------------------------------------------------
(* Properties                                                              *)

\* What comes out is what went in, in order, until the end, which comes last.
InOrder ==
  /\ part = "Reader" => Reader!InOrder /\ Reader!FramesApart /\ Reader!EosLast
  /\ part = "Decoder" =>
       Decoder!FramesInOrder /\ Decoder!EosLast /\ Decoder!TimesRise
  /\ part = "Copy" => Copy!CopiedInOrder
  /\ part = "Sink" => Sink!PlayedInOrder /\ Sink!BytesCounted
  /\ part = "Render" => Render!RenderedInOrder

\* Data comes only in a format the client was told, to a device that is there,
\* and a command meets a state that was left.
FormatKnown ==
  /\ part = "Decoder" => Decoder!FormatKnown
  /\ part = "Copy" => Copy!FormatKnown
  /\ part = "Sink" => Sink!TrackThere
  /\ part = "Render" => Render!RateKnown
  /\ part = "Media" => Media!DecodedAsTold /\ Media!RequestStands
  /\ part = "Commands" => Commands!OneTransition /\ Commands!NeverShort

\* A command is complete only when what it asked for is done.
CompleteWhenDone == Commands!CompleteWhenDone

\* Every command is answered and every disable returns; what is sent is played
\* to its end, unless an error was reported.
Finished ==
  CASE part = "Reader"  -> Reader!Finished
    [] part = "Decoder" -> Decoder!Finished
    [] part = "Copy"    -> Copy!Finished
    [] part = "Render"  -> Render!Finished
    [] part = "Media"   -> Media!Finished
    [] OTHER -> TRUE
PlaysToEnd ==
  /\ Commands!CommandsAnswered /\ Copy!DisableReturns /\ Sink!SinkDisableReturns
  /\ <>[]Finished
  /\ Sink!PlaysOut

-----------------------------------------------------------------------------
(* Queues of inputs numbered as they were sent, and lists that grow.         *)

Follows(q, n) == \A i \in 1 .. Len(q) : q[i] = n + i

LEMMA Nothing ==
  /\ \A S : <<>> \in Seq(S)
  /\ Len(<<>>) = 0 /\ 1 .. 0 = {} /\ DOMAIN <<>> = {}
OBVIOUS

LEMMA Longer ==
  ASSUME NEW S, NEW s \in Seq(S), NEW x \in S
  PROVE  /\ Append(s, x) \in Seq(S) /\ Len(Append(s, x)) = Len(s) + 1 /\ Len(s) \in Nat
         /\ DOMAIN s = 1 .. Len(s) /\ DOMAIN Append(s, x) = 1 .. Len(s) + 1
         /\ \A k \in 1 .. Len(s) : Append(s, x)[k] = s[k]
         /\ Append(s, x)[Len(s) + 1] = x
OBVIOUS

LEMMA Shorter ==
  ASSUME NEW S, NEW s \in Seq(S), s # <<>>
  PROVE  /\ Tail(s) \in Seq(S) /\ Len(Tail(s)) = Len(s) - 1 /\ Len(s) \in Nat \ {0}
         /\ Head(s) = s[1] /\ Head(s) \in S /\ 1 \in 1 .. Len(s)
         /\ \A k \in 1 .. Len(Tail(s)) : Tail(s)[k] = s[k + 1] /\ k + 1 \in 1 .. Len(s)
OBVIOUS

LEMMA FollowsHead ==
  ASSUME NEW S, NEW q \in Seq(S), NEW n \in Nat, q # <<>>, Follows(q, n)
  PROVE  Head(q) = n + 1 /\ Follows(Tail(q), n + 1)
<1>1. Head(q) = n + 1
  BY Shorter DEF Follows
<1>2. ASSUME NEW i \in 1 .. Len(Tail(q)) PROVE Tail(q)[i] = (n + 1) + i
  BY Shorter DEF Follows
<1> QED
  BY <1>1, <1>2 DEF Follows

LEMMA FollowsMore ==
  ASSUME NEW S, NEW q \in Seq(S), NEW n \in Nat, NEW m \in S, Follows(q, n), m = n + Len(q) + 1
  PROVE  Follows(Append(q, m), n)
<1>1. ASSUME NEW i \in 1 .. Len(q) + 1 PROVE Append(q, m)[i] = n + i
  <2>1. CASE i = Len(q) + 1
    BY <2>1, Longer
  <2>2. CASE i # Len(q) + 1
    <3>1. i \in 1 .. Len(q)
      BY <2>2, Longer
    <3> QED
      BY <3>1, Longer DEF Follows
  <2> QED
    BY <2>1, <2>2
<1> QED
  BY <1>1, Longer DEF Follows

-----------------------------------------------------------------------------
(* CopyFlow: what is in the queue are the last inputs sent, and the formats  *)
(* agree while the output port is enabled and nothing waits.                 *)

CopyAssumption == CopyInput \in Seq({"data", "event"}) /\ CopyOutNum \in Nat

CopyTaken == copySent - Len(copyInq)

CopyTypes ==
  /\ copyKind \in {"copy", "camera"} /\ copyRunning \in BOOLEAN
  /\ copySent \in 0 .. Len(CopyInput) /\ copyInq \in Seq(1 .. Len(CopyInput)) /\ copyOutq \in Nat
  /\ copyBack \in Nat
  /\ inFormat \in Nat /\ outFormat \in Nat /\ needs \in BOOLEAN /\ status \in BOOLEAN
  /\ output \in {"on", "disabling", "off"} /\ copyTold \in Nat /\ known \in Nat
  /\ copyGiven \in Seq([nth : Nat, format : Nat]) /\ lost \in Nat

CopyQueue ==
  /\ Len(copyInq) <= copySent
  /\ \A i \in 1 .. Len(copyInq) : copyInq[i] = CopyTaken + i
  /\ copyKind = "copy" => CopyTaken = copyBack + lost
  /\ copyKind = "camera" => copySent = 0

CopyFormats == copyKind = "copy" =>
  /\ inFormat = Copy!FormatOf(CopyTaken)
  /\ output # "on" => copyOutq = 0
  /\ ~needs /\ status => outFormat = inFormat
  /\ ~needs /\ output = "on" => known = outFormat

CopyGiven == copyKind = "copy" =>
  \A k \in 1 .. Len(copyGiven) : copyGiven[k].nth \in 1 .. CopyTaken

CopyInv == CopyTypes /\ CopyQueue /\ CopyFormats /\ CopyGiven
             /\ Copy!FormatKnown /\ Copy!CopiedInOrder

\* Counting means the same in the module of the copy.
LEMMA CopyCardinality == \A S : Copy!Cardinality(S) = Cardinality(S)
BY Zenon DEF Copy!Cardinality, Cardinality

\* One more input is counted if it is of the type.
LEMMA FirstOfNext ==
  ASSUME CopyAssumption, NEW n \in Nat, n < Len(CopyInput), NEW type
  PROVE  /\ Copy!Cardinality(Copy!FirstOf(type, n)) \in Nat
         /\ Copy!Cardinality(Copy!FirstOf(type, n + 1))
              = Copy!Cardinality(Copy!FirstOf(type, n)) + (IF CopyInput[n + 1] = type THEN 1 ELSE 0)
<1>1. IsFiniteSet(Copy!FirstOf(type, n))
  <2>1. IsFiniteSet(1 .. n)
    BY FS_Interval
  <2>2. Copy!FirstOf(type, n) \subseteq 1 .. n
    BY DEF Copy!FirstOf
  <2> QED
    BY <2>1, <2>2, FS_Subset
<1>2. Copy!FirstOf(type, n + 1) = IF CopyInput[n + 1] = type THEN Copy!FirstOf(type, n) \cup {n + 1}
                                                    ELSE Copy!FirstOf(type, n)
  BY DEF Copy!FirstOf
<1>3. n + 1 \notin Copy!FirstOf(type, n)
  BY DEF Copy!FirstOf
<1> QED
  BY <1>1, <1>2, <1>3, FS_AddElement, FS_CardinalityType, CopyCardinality

LEMMA FirstOfNone ==
  ASSUME NEW type PROVE Copy!Cardinality(Copy!FirstOf(type, 0)) = 0
<1>1. Copy!FirstOf(type, 0) = {}
  BY DEF Copy!FirstOf
<1> QED
  BY <1>1, FS_EmptySet, CopyCardinality

\* The head of the queue is the input after those taken.
LEMMA CopyHead ==
  ASSUME CopyAssumption, CopyTypes, CopyQueue, copyInq # <<>>
  PROVE  /\ Head(copyInq) = CopyTaken + 1 /\ CopyTaken \in Nat /\ CopyTaken < Len(CopyInput)
         /\ Head(copyInq) \in Nat
         /\ Tail(copyInq) \in Seq(1 .. Len(CopyInput)) /\ Len(Tail(copyInq)) = Len(copyInq) - 1
         /\ \A i \in 1 .. Len(Tail(copyInq)) : Tail(copyInq)[i] = CopyTaken + 1 + i
         /\ Len(CopyInput) \in Nat /\ CopyInput[Head(copyInq)] \in {"data", "event"}
         /\ Len(copyInq) \in Nat \ {0}
<1> USE DEF CopyAssumption
<1>1. Len(copyInq) \in Nat \ {0} /\ Head(copyInq) = copyInq[1] /\ Len(CopyInput) \in Nat
  BY DEF CopyTypes
<1>2. Head(copyInq) = CopyTaken + 1 /\ CopyTaken \in Nat /\ CopyTaken < Len(CopyInput)
  BY <1>1 DEF CopyQueue, CopyTypes, CopyTaken
<1>3. /\ Tail(copyInq) \in Seq(1 .. Len(CopyInput)) /\ Len(Tail(copyInq)) = Len(copyInq) - 1
      /\ \A i \in 1 .. Len(Tail(copyInq)) : Tail(copyInq)[i] = copyInq[i + 1] /\ i + 1 \in 1 .. Len(copyInq)
  BY <1>1 DEF CopyTypes
<1>4. \A i \in 1 .. Len(Tail(copyInq)) : Tail(copyInq)[i] = CopyTaken + 1 + i
  BY <1>1, <1>2, <1>3 DEF CopyQueue
<1>5. CopyInput[Head(copyInq)] \in {"data", "event"}
  BY <1>1, <1>2
<1> QED
  BY <1>1, <1>2, <1>3, <1>4, <1>5

LEMMA NoItems ==
  ASSUME NEW S PROVE <<>> \in Seq(S) /\ Len(<<>>) = 0 /\ \A s : 1 .. Len(<<>>) = {}
OBVIOUS

LEMMA CopyStarts ==
  ASSUME CopyAssumption, Copy!FInit PROVE CopyInv
<1> USE DEF CopyAssumption
<1>1. CopyTypes
  <2>1. /\ copySent \in 0 .. Len(CopyInput) /\ copyOutq \in Nat /\ copyBack \in Nat
        /\ inFormat \in Nat /\ outFormat \in Nat /\ copyTold \in Nat /\ known \in Nat
        /\ lost \in Nat
    BY DEF Copy!FInit, Copy!None
  <2>2. copyInq \in Seq(1 .. Len(CopyInput)) /\ copyGiven \in Seq([nth : Nat, format : Nat])
    BY NoItems DEF Copy!FInit
  <2>3. /\ copyKind \in {"copy", "camera"} /\ copyRunning \in BOOLEAN
        /\ needs \in BOOLEAN /\ status \in BOOLEAN
        /\ output \in {"on", "disabling", "off"}
    BY DEF Copy!FInit
  <2> QED
    BY <2>1, <2>2, <2>3 DEF CopyTypes
<1>2. CopyQueue /\ CopyTaken = 0
  <2>1. copySent = 0 /\ copyBack = 0 /\ lost = 0
    BY DEF Copy!FInit
  <2>2. Len(copyInq) = 0
    BY NoItems DEF Copy!FInit
  <2> QED
    <3>1. CopyTaken = 0 /\ 1 .. Len(copyInq) = {}
      BY <2>1, <2>2 DEF CopyTaken
    <3> QED
      BY <2>1, <2>2, <3>1 DEF CopyQueue
<1>3. CopyFormats
  BY <1>2, FirstOfNone DEF Copy!FInit, CopyFormats, Copy!FormatOf
<1>4. Copy!FirstOf("data", copyBack) = Copy!FirstOf("data", 0)
  BY DEF Copy!FInit
<1>5. CopyGiven /\ Copy!FormatKnown /\ Copy!CopiedInOrder
  BY <1>4, FirstOfNone DEF Copy!FInit, CopyGiven, Copy!FormatKnown, Copy!CopiedInOrder
<1> QED
  BY <1>1, <1>2, <1>3, <1>5 DEF CopyInv

\* What came out stays right while nothing comes out or goes in.
LEMMA CopyStays ==
  ASSUME CopyInv, UNCHANGED <<copyKind, copyGiven, lost, copyBack>>, CopyTaken' = CopyTaken
  PROVE  CopyGiven' /\ Copy!FormatKnown' /\ Copy!CopiedInOrder'
<1>1. CopyGiven'
  BY DEF CopyInv, CopyGiven
<1>2. Copy!FormatKnown'
  BY DEF CopyInv, Copy!FormatKnown, Copy!FormatOf, Copy!FirstOf
<1>3. Copy!CopiedInOrder'
  BY DEF CopyInv, Copy!CopiedInOrder, Copy!FirstOf
<1> QED
  BY <1>1, <1>2, <1>3

LEMMA CopyClient ==
  ASSUME CopyAssumption, CopyInv,
         Copy!SendIn \/ Copy!SendOut \/ Copy!Trigger \/ Copy!Disable \/ Copy!Disabled
         \/ Copy!Commit \/ Copy!Enable \/ Copy!Start \/ Copy!Stop
  PROVE  CopyInv'
<1> USE DEF CopyAssumption, Copy!None
<1>1. CASE Copy!SendIn
  <2>1. CopyTypes' /\ copyInq' = Append(copyInq, copySent + 1) /\ Len(copyInq') = Len(copyInq) + 1
    BY <1>1 DEF Copy!SendIn, CopyInv, CopyTypes, Copy!formats
  <2>2. CopyTaken' = CopyTaken /\ CopyTaken \in Nat
    BY <1>1, <2>1 DEF Copy!SendIn, CopyTaken, CopyInv, CopyTypes, CopyQueue
  <2>3. CopyQueue'
    <3>1. /\ copyInq \in Seq(1 .. Len(CopyInput)) /\ Len(copyInq) \in Nat /\ copySent \in Nat
          /\ Len(copyInq) + CopyTaken = copySent
      BY DEF CopyInv, CopyTypes, CopyQueue, CopyTaken
    <3>2. ASSUME NEW i \in 1 .. Len(copyInq')
          PROVE  copyInq'[i] = CopyTaken + i
      <4>1. copyInq'[i] = IF i = Len(copyInq) + 1 THEN copySent + 1 ELSE copyInq[i]
        BY <2>1, <3>1, <3>2
      <4>2. i # Len(copyInq) + 1 => i \in 1 .. Len(copyInq)
        BY <2>1, <3>1, <3>2
      <4>3. \A j \in 1 .. Len(copyInq) : copyInq[j] = CopyTaken + j
        BY DEF CopyInv, CopyQueue
      <4>4. CASE i = Len(copyInq) + 1
        <5>1. copyInq'[i] = copySent + 1 /\ copySent + 1 = CopyTaken + i
          BY <2>2, <3>1, <4>1, <4>4
        <5> QED
          BY <5>1
      <4>5. CASE i # Len(copyInq) + 1
        BY <4>1, <4>2, <4>3, <4>5
      <4> QED
        BY <4>4, <4>5
    <3> QED
      BY <1>1, <2>1, <2>2, <3>1, <3>2 DEF Copy!SendIn, CopyInv, CopyQueue
  <2>4. CopyFormats'
    BY <1>1, <2>2 DEF Copy!SendIn, CopyInv, CopyFormats, Copy!formats, Copy!FormatOf, Copy!FirstOf
  <2> QED
    BY <1>1, <2>1, <2>2, <2>3, <2>4, CopyStays DEF Copy!SendIn, CopyInv
<1>2. CASE Copy!SendOut \/ Copy!Trigger \/ Copy!Disable \/ Copy!Disabled \/ Copy!Commit
           \/ Copy!Enable \/ Copy!Start \/ Copy!Stop
  <2> USE <1>2 DEF Copy!SendOut, Copy!Trigger, Copy!Disable, Copy!Disabled, Copy!Commit,
      Copy!Enable, Copy!Start, Copy!Stop
  <2>1. UNCHANGED <<copyKind, copySent, copyInq, copyGiven, lost, copyBack, inFormat, status>>
    BY DEF Copy!formats
  <2>2. CopyTypes'
    <3>1. copyRunning' \in BOOLEAN /\ needs' \in BOOLEAN
      BY DEF CopyInv, CopyTypes, Copy!formats
    <3>3. output' \in {"on", "disabling", "off"}
      BY DEF CopyInv, CopyTypes, Copy!formats
    <3>4. copyOutq' \in Nat
      BY DEF CopyInv, CopyTypes, Copy!formats
    <3>2. outFormat' \in Nat /\ copyTold' \in Nat /\ known' \in Nat
      BY DEF CopyInv, CopyTypes, Copy!formats
    <3> QED
      BY <2>1, <3>1, <3>2, <3>3, <3>4 DEF CopyInv, CopyTypes
  <2>3. CopyTaken' = CopyTaken
    BY <2>1 DEF CopyTaken
  <2>4. CopyQueue'
    BY <2>1, <2>3 DEF CopyInv, CopyQueue
  <2>5. Copy!FormatOf(CopyTaken)' = Copy!FormatOf(CopyTaken)
    BY <2>3 DEF Copy!FormatOf, Copy!FirstOf
  <2>6. CopyFormats'
    BY <2>1, <2>5 DEF CopyInv, CopyTypes, CopyFormats, Copy!formats
  <2> QED
    BY <2>1, <2>2, <2>3, <2>4, <2>6, CopyStays DEF CopyInv
<1> QED
  BY <1>1, <1>2

LEMMA CopyEvent ==
  ASSUME CopyAssumption, CopyInv, Copy!FormatEvent \/ Copy!FormatEventFails PROVE CopyInv'
<1> USE DEF CopyAssumption
<1>1. /\ Copy!Copying /\ Copy!IsEvent /\ copyInq' = Tail(copyInq) /\ copyBack' = copyBack + 1
      /\ inFormat' = inFormat + 1
      /\ UNCHANGED <<copyKind, copySent, copyOutq, copyRunning, known, output, copyGiven, lost>>
  BY DEF Copy!FormatEvent, Copy!FormatEventFails
<1>2. copyInq # <<>> /\ copyKind = "copy" /\ ~needs
  BY <1>1 DEF Copy!Copying
<1>3. CopyTaken' = CopyTaken + 1 /\ CopyTaken \in Nat /\ CopyTaken < Len(CopyInput)
      /\ CopyInput[CopyTaken + 1] = "event"
  BY <1>1, <1>2, CopyHead DEF CopyInv, CopyTaken, CopyTypes, Copy!IsEvent
<1>4. CopyTypes'
  <2>1. outFormat' \in Nat /\ copyTold' \in Nat
    BY <1>1 DEF CopyInv, CopyTypes, Copy!FormatEvent, Copy!FormatEventFails
  <2>3. needs' \in BOOLEAN /\ status' \in BOOLEAN
    BY <1>1 DEF CopyInv, CopyTypes, Copy!FormatEvent, Copy!FormatEventFails
  <2>2. copyBack' \in Nat /\ inFormat' \in Nat /\ copyInq' \in Seq(1 .. Len(CopyInput))
    BY <1>1, <1>2, CopyHead DEF CopyInv, CopyTypes
  <2> QED
    BY <1>1, <2>1, <2>2, <2>3 DEF CopyInv, CopyTypes
<1>5. CopyQueue'
  BY <1>1, <1>2, <1>3, CopyHead DEF CopyInv, CopyQueue, CopyTypes, CopyTaken
<1>6. /\ Copy!FormatOf(CopyTaken)' = Copy!FormatOf(CopyTaken) + 1
      /\ Copy!Cardinality(Copy!FirstOf("data", CopyTaken + 1))
            = Copy!Cardinality(Copy!FirstOf("data", CopyTaken))
  <2>1. Copy!FormatOf(CopyTaken)' = Copy!FormatOf(CopyTaken + 1)
    BY <1>3 DEF Copy!FormatOf, Copy!FirstOf
  <2> QED
    BY <1>3, <2>1, FirstOfNext DEF Copy!FormatOf
<1>7. CopyFormats'
  BY <1>1, <1>2, <1>6 DEF CopyInv, CopyTypes, CopyFormats, Copy!FormatEvent, Copy!FormatEventFails
<1>8. CopyGiven'
  BY <1>1, <1>2, <1>3 DEF CopyInv, CopyGiven
<1>9. Copy!FormatKnown'
  BY <1>1 DEF CopyInv, Copy!FormatKnown, Copy!FormatOf, Copy!FirstOf
<1>10. Copy!CopiedInOrder'
  <2>1. lost = 0 => copyBack = CopyTaken /\ copyBack' = CopyTaken + 1
    BY <1>1, <1>2 DEF CopyInv, CopyQueue, CopyTypes
  <2>2. lost = 0 => Copy!FirstOf("data", copyBack)' = Copy!FirstOf("data", CopyTaken + 1)
    BY <2>1 DEF Copy!FirstOf
  <2> QED
    BY <1>1, <1>2, <1>6, <2>1, <2>2 DEF CopyInv, Copy!CopiedInOrder
<1> QED
  BY <1>4, <1>5, <1>7, <1>8, <1>9, <1>10 DEF CopyInv

LEMMA CopyData ==
  ASSUME CopyAssumption, CopyInv, Copy!Copy PROVE CopyInv'
<1> USE DEF CopyAssumption
<1> DEFINE x == [nth |-> Head(copyInq), format |-> known]
<1>1. /\ Copy!Copying /\ ~Copy!IsEvent /\ status /\ copyOutq > 0 /\ copyOutq' = copyOutq - 1
      /\ copyInq' = Tail(copyInq) /\ copyBack' = copyBack + 1 /\ copyGiven' = Append(copyGiven, x)
      /\ UNCHANGED <<copyKind, copySent, copyRunning, inFormat, outFormat, needs, status, copyTold, known,
                     output, lost>>
  BY DEF Copy!Copy, Copy!formats
<1>2. copyInq # <<>> /\ copyKind = "copy" /\ ~needs
  BY <1>1 DEF Copy!Copying
<1>3. /\ CopyTaken' = CopyTaken + 1 /\ CopyTaken \in Nat /\ CopyTaken < Len(CopyInput)
      /\ CopyInput[CopyTaken + 1] = "data"
      /\ Head(copyInq) = CopyTaken + 1
  BY <1>1, <1>2, CopyHead DEF CopyInv, CopyTaken, CopyTypes, Copy!IsEvent
<1>4. CopyTypes' /\ x \in [nth : Nat, format : Nat]
  BY <1>1, <1>2, CopyHead DEF CopyInv, CopyTypes
<1>5. CopyQueue'
  BY <1>1, <1>2, <1>3, CopyHead DEF CopyInv, CopyQueue, CopyTypes, CopyTaken
<1>6. /\ Copy!FormatOf(CopyTaken + 1) = Copy!FormatOf(CopyTaken)
      /\ Copy!Cardinality(Copy!FirstOf("data", CopyTaken + 1))
            = Copy!Cardinality(Copy!FirstOf("data", CopyTaken)) + 1
  BY <1>3, FirstOfNext DEF Copy!FormatOf
<1>7. Copy!FormatOf(CopyTaken)' = Copy!FormatOf(CopyTaken + 1)
  BY <1>3 DEF Copy!FormatOf, Copy!FirstOf
<1>8. CopyFormats'
  BY <1>1, <1>2, <1>6, <1>7 DEF CopyInv, CopyTypes, CopyFormats
<1>9. /\ Len(copyGiven') = Len(copyGiven) + 1 /\ Len(copyGiven) \in Nat
      /\ DOMAIN copyGiven' = 1 .. Len(copyGiven) + 1 /\ DOMAIN copyGiven = 1 .. Len(copyGiven)
      /\ \A k \in 1 .. Len(copyGiven) : copyGiven'[k] = copyGiven[k]
      /\ copyGiven'[Len(copyGiven) + 1] = x
  BY <1>1, <1>4 DEF CopyInv, CopyTypes
<1>10. x.nth = CopyTaken + 1 /\ x.format = Copy!FormatOf(CopyTaken + 1)
  BY <1>1, <1>2, <1>3, <1>6 DEF CopyInv, CopyTypes, CopyFormats
<1> HIDE DEF x
<1>11. CopyGiven'
  <2>1. ASSUME NEW k \in 1 .. Len(copyGiven') PROVE copyGiven'[k].nth \in 1 .. CopyTaken'
    <3>1. k = Len(copyGiven) + 1 \/ (k \in 1 .. Len(copyGiven) /\ copyGiven'[k] = copyGiven[k])
      BY <1>9, <2>1
    <3> QED
      BY <1>2, <1>3, <1>9, <1>10, <3>1 DEF CopyInv, CopyGiven
  <2> QED
    BY <2>1 DEF CopyGiven
<1>12. Copy!FormatKnown'
  <2>1. ASSUME NEW k \in DOMAIN copyGiven', copyKind' = "copy"
        PROVE  copyGiven'[k].format = Copy!FormatOf(copyGiven'[k].nth)
    BY <1>1, <1>2, <1>9, <1>10, <2>1 DEF CopyInv, Copy!FormatKnown
  <2> QED
    BY <2>1 DEF Copy!FormatKnown, Copy!FormatOf, Copy!FirstOf
<1>13. Copy!CopiedInOrder'
  <2>1. ASSUME NEW i \in DOMAIN copyGiven', NEW j \in DOMAIN copyGiven', i < j
        PROVE  copyGiven'[i].nth < copyGiven'[j].nth
    <3>1. copyGiven[i].nth \in 1 .. CopyTaken /\ i \in 1 .. Len(copyGiven)
      BY <1>2, <1>9, <2>1 DEF CopyInv, CopyGiven
    <3>2. CASE j = Len(copyGiven) + 1
      BY <1>3, <1>9, <1>10, <3>1, <3>2
    <3>3. CASE j # Len(copyGiven) + 1
      BY <1>2, <1>9, <2>1, <3>1, <3>3 DEF CopyInv, Copy!CopiedInOrder
    <3> QED
      BY <3>2, <3>3
  <2>2. lost = 0 => copyBack = CopyTaken /\ copyBack' = CopyTaken + 1
    BY <1>1, <1>2 DEF CopyInv, CopyQueue, CopyTypes
  <2>3. lost = 0 => Copy!FirstOf("data", copyBack)' = Copy!FirstOf("data", CopyTaken + 1)
    BY <2>2 DEF Copy!FirstOf
  <2>4. lost' = 0 => Len(copyGiven') = Copy!Cardinality(Copy!FirstOf("data", copyBack)')
    BY <1>1, <1>2, <1>6, <1>9, <2>2, <2>3 DEF CopyInv, Copy!CopiedInOrder
  <2> QED
    BY <2>1, <2>4 DEF Copy!CopiedInOrder
<1> QED
  BY <1>4, <1>5, <1>8, <1>11, <1>12, <1>13 DEF CopyInv

LEMMA CopySmall ==
  ASSUME CopyAssumption, CopyInv, Copy!TooSmall PROVE CopyInv'
<1> USE DEF CopyAssumption
<1>1. /\ Copy!Copying /\ ~Copy!IsEvent /\ copyOutq > 0 /\ copyOutq' = copyOutq - 1 /\ ~status'
      /\ ~copyRunning'
      /\ copyInq' = Tail(copyInq) /\ lost' = lost + 1
      /\ UNCHANGED <<copyKind, copySent, copyBack, inFormat, outFormat, needs, copyTold, known,
                     output, copyGiven>>
  BY DEF Copy!TooSmall
<1>2. copyInq # <<>> /\ copyKind = "copy" /\ ~needs
  BY <1>1 DEF Copy!Copying
<1>3. CopyTaken' = CopyTaken + 1 /\ CopyTaken \in Nat /\ CopyTaken < Len(CopyInput)
      /\ CopyInput[CopyTaken + 1] = "data"
  BY <1>1, <1>2, CopyHead DEF CopyInv, CopyTaken, CopyTypes, Copy!IsEvent
<1>4. CopyTypes' /\ lost' # 0
  <2>1. status' = FALSE /\ copyRunning' = FALSE /\ copyOutq' \in Nat /\ lost' \in Nat \ {0}
    BY <1>1 DEF CopyInv, CopyTypes, Copy!TooSmall
  <2>2. copyInq' \in Seq(1 .. Len(CopyInput))
    BY <1>1, <1>2, CopyHead DEF CopyInv, CopyTypes
  <2> QED
    BY <1>1, <2>1, <2>2 DEF CopyInv, CopyTypes
<1>5. CopyQueue'
  BY <1>1, <1>2, <1>3, CopyHead DEF CopyInv, CopyQueue, CopyTypes, CopyTaken
<1>6. Copy!FormatOf(CopyTaken)' = Copy!FormatOf(CopyTaken)
  <2>1. Copy!FormatOf(CopyTaken)' = Copy!FormatOf(CopyTaken + 1)
    BY <1>3 DEF Copy!FormatOf, Copy!FirstOf
  <2> QED
    BY <1>3, <2>1, FirstOfNext DEF Copy!FormatOf
<1>7. CopyFormats'
  BY <1>1, <1>2, <1>6 DEF CopyInv, CopyTypes, CopyFormats
<1>8. CopyGiven'
  BY <1>1, <1>2, <1>3 DEF CopyInv, CopyGiven
<1>9. Copy!FormatKnown'
  BY <1>1 DEF CopyInv, Copy!FormatKnown, Copy!FormatOf, Copy!FirstOf
<1>10. Copy!CopiedInOrder'
  BY <1>1, <1>4 DEF CopyInv, Copy!CopiedInOrder
<1> QED
  BY <1>4, <1>5, <1>7, <1>8, <1>9, <1>10 DEF CopyInv

LEMMA CopyFill ==
  ASSUME CopyAssumption, CopyInv, Copy!Fill PROVE CopyInv'
<1>1. CopyTypes'
  <2>1. copyOutq' \in Nat /\ copyGiven' \in Seq([nth : Nat, format : Nat]) /\ copyRunning' = FALSE
    <3>1. outFormat \in Nat
      BY DEF CopyInv, CopyTypes
    <3>2. <<[nth |-> 0, format |-> outFormat]>> \in Seq([nth : Nat, format : Nat])
      BY <3>1
    <3> QED
      BY <3>2, copyOutq > 0 => copyOutq - 1 \in Nat DEF CopyInv, CopyTypes, Copy!Fill
  <2> QED
    BY <2>1 DEF CopyInv, CopyTypes, Copy!Fill, Copy!formats
<1>2. CopyQueue'
  BY DEF CopyInv, CopyQueue, CopyTaken, Copy!Fill, Copy!formats
<1>3. CopyFormats' /\ CopyGiven' /\ Copy!FormatKnown' /\ Copy!CopiedInOrder'
  BY DEF CopyFormats, CopyGiven, Copy!FormatKnown, Copy!CopiedInOrder, Copy!Fill
<1> QED
  BY <1>1, <1>2, <1>3 DEF CopyInv

LEMMA CopyMoves ==
  ASSUME CopyAssumption, CopyInv, Copy!FNext \/ UNCHANGED Copy!fvars PROVE CopyInv'
<1>1. CASE UNCHANGED Copy!fvars
  <2> USE <1>1 DEF Copy!fvars, Copy!formats
  <2>1. CopyTaken' = CopyTaken
    BY DEF CopyTaken
  <2>2. CopyTypes' /\ CopyQueue'
    BY <2>1 DEF CopyInv, CopyTypes, CopyQueue
  <2>3. CopyFormats'
    BY <2>1 DEF CopyInv, CopyFormats, Copy!FormatOf, Copy!FirstOf
  <2> QED
    BY <2>1, <2>2, <2>3, CopyStays DEF CopyInv
<1>2. CASE Copy!FNext
  BY <1>2, CopyClient, CopyEvent, CopyData, CopySmall, CopyFill DEF Copy!FNext, Copy!FAction
<1> QED
  BY <1>1, <1>2

-----------------------------------------------------------------------------
(* FrameRender: spdif's output has the rate the client knows of while it is  *)
(* enabled, the overlay that of the last event taken.                        *)

RenderAssumption ==
  RenderInput \in Seq([type : {"frame", "event", "flagged", "empty", "config", "bad"}, rate : Nat,
                 order : {"swapped", "plain"}, off : BOOLEAN, big : BOOLEAN])

RenderTaken == renderSent - Len(renderInq)

RenderTypes ==
  /\ renderKind \in {"spdif", "video"} /\ renderSent \in Nat /\ renderSent <= Len(RenderInput)
  /\ renderInq \in Seq(Nat) /\ renderOutq \in Nat
  /\ outRate \in Nat /\ renderTold \in Nat /\ renderKnown \in Nat
  /\ renderOutput \in {"on", "disabling", "off"}
  /\ renderGiven \in Seq([nth : Nat, rate : Nat, right : BOOLEAN]) /\ renderFails \in Nat

RenderQueue ==
  /\ Len(renderInq) <= renderSent /\ Follows(renderInq, RenderTaken)
  /\ \A n \in renderBack : n \in Nat /\ n <= RenderTaken
  /\ \A k \in 1 .. Len(renderGiven) : renderGiven[k].nth <= RenderTaken

RenderRates ==
  /\ renderKind = "spdif" /\ renderOutput = "on" => renderKnown = outRate
  /\ renderKind = "spdif" /\ renderOutput # "on" => renderOutq = 0
  /\ renderKind = "video" => renderOutput = "on" /\ (renderStatus => outRate = Render!RateOf(RenderTaken))

RenderInv == RenderTypes /\ RenderQueue /\ RenderRates /\ Render!RateKnown /\ Render!RenderedInOrder

LEMMA RenderInputs ==
  ASSUME RenderAssumption
  PROVE  /\ Len(RenderInput) \in Nat
         /\ \A n \in 1 .. Len(RenderInput) : RenderInput[n].rate \in Nat
<1> DEFINE R == [type : {"frame", "event", "flagged", "empty", "config", "bad"}, rate : Nat,
                 order : {"swapped", "plain"}, off : BOOLEAN, big : BOOLEAN]
<1>1. RenderInput \in Seq(R)
  BY DEF RenderAssumption
<1>2. \A r \in R : r.rate \in Nat
  OBVIOUS
<1> HIDE DEF R
<1>3. Len(RenderInput) \in Nat /\ \A n \in 1 .. Len(RenderInput) : RenderInput[n] \in R
  BY <1>1
<1> QED
  BY <1>2, <1>3

\* The last event among one more input.
LEMMA RateOfNext ==
  ASSUME NEW n \in Nat, renderKind = "video"
  PROVE  Render!RateOf(n + 1)
           = IF RenderInput[n + 1].type = "event" THEN RenderInput[n + 1].rate ELSE Render!RateOf(n)
<1>1. CASE RenderInput[n + 1].type = "event"
  <2>1. n + 1 \in Render!Events(n + 1) /\ \A j \in Render!Events(n + 1) : j <= n + 1 /\ j \in Int
    BY <1>1 DEF Render!Events
  <2>2. Render!LastEvent(n + 1) = n + 1
    BY <2>1 DEF Render!LastEvent
  <2> QED
    BY <1>1, <2>1, <2>2 DEF Render!RateOf
<1>2. CASE RenderInput[n + 1].type # "event"
  <2>1. Render!Events(n + 1) = Render!Events(n)
    BY <1>2 DEF Render!Events
  <2>2. Render!LastEvent(n + 1) = Render!LastEvent(n)
    BY <2>1, Zenon DEF Render!LastEvent
  <2> QED
    BY <1>2, <2>1, <2>2 DEF Render!RateOf
<1> QED
  BY <1>1, <1>2

LEMMA RateOfStays ==
  ASSUME renderKind' = renderKind, NEW n PROVE Render!RateOf(n)' = Render!RateOf(n)
BY DEF Render!RateOf, Render!Events, Render!LastEvent

LEMMA RenderTakenNumbers ==
  ASSUME RenderAssumption, RenderTypes, RenderQueue
  PROVE  /\ RenderTaken \in Nat /\ Len(renderInq) \in Nat
         /\ RenderTaken + Len(renderInq) = renderSent
         /\ renderSent <= Len(RenderInput) /\ Len(RenderInput) \in Nat
BY RenderInputs DEF RenderTypes, RenderQueue, RenderTaken

\* The head of the queue is taken.
LEMMA RenderTakes ==
  ASSUME RenderAssumption, RenderTypes, RenderQueue, renderInq # <<>>, renderInq' = Tail(renderInq),
         renderSent' = renderSent
  PROVE  /\ Head(renderInq) = RenderTaken + 1 /\ RenderTaken' = RenderTaken + 1
         /\ RenderTaken + 1 \in 1 .. Len(RenderInput) /\ RenderTaken \in Nat
         /\ renderInq' \in Seq(Nat) /\ Len(renderInq') <= renderSent'
         /\ Follows(renderInq', RenderTaken')
         /\ Render!First = RenderInput[RenderTaken + 1] /\ Render!First.rate \in Nat
<1>1. /\ RenderTaken \in Nat /\ Len(renderInq) \in Nat /\ RenderTaken + Len(renderInq) = renderSent
      /\ renderSent <= Len(RenderInput) /\ Len(RenderInput) \in Nat
  BY RenderTakenNumbers
<1>2. renderInq \in Seq(Nat) /\ Follows(renderInq, RenderTaken)
  BY DEF RenderTypes, RenderQueue
<1>3. renderInq' \in Seq(Nat) /\ Len(renderInq') = Len(renderInq) - 1 /\ Len(renderInq) # 0
  BY <1>2, Shorter
<1>4. Head(renderInq) = RenderTaken + 1 /\ Follows(renderInq', RenderTaken + 1)
  BY <1>1, <1>2, FollowsHead
<1>5. RenderTaken' = RenderTaken + 1
  BY <1>1, <1>3 DEF RenderTaken
<1>6. RenderTaken + 1 \in 1 .. Len(RenderInput)
  BY <1>1, <1>3
<1>7. Render!First = RenderInput[RenderTaken + 1] /\ Render!First.rate \in Nat
  BY <1>4, <1>6, RenderInputs DEF Render!First
<1> QED
  BY <1>1, <1>3, <1>4, <1>5, <1>6, <1>7

LEMMA RenderStarts ==
  ASSUME RenderAssumption, Render!FRInit PROVE RenderInv
<1>1. renderInq = <<>> /\ renderGiven = <<>> /\ renderBack = {} /\ renderSent = 0 /\ renderFails = 0
  BY DEF Render!FRInit
<1>2. Len(renderInq) = 0 /\ Len(renderGiven) = 0 /\ DOMAIN renderGiven = {}
  BY <1>1, Nothing
<1>3. RenderTypes
  BY <1>1, Nothing, RenderInputs DEF Render!FRInit, RenderTypes, Render!None
<1>4. RenderTaken = 0
  <2>1. renderSent = 0
    BY <1>1
  <2>2. Len(renderInq) = 0
    BY <1>2
  <2> QED
    BY <2>1, <2>2 DEF RenderTaken
<1>5. RenderQueue
  BY <1>1, <1>2 DEF RenderQueue, Follows
<1>6. renderKind = "video" => Render!RateOf(0) = 1
  <2>1. Render!Events(0) = {}
    BY DEF Render!Events
  <2> QED
    BY <2>1 DEF Render!RateOf
<1>7. RenderRates
  BY <1>4, <1>6 DEF RenderRates, Render!FRInit
<1>8. Render!RateKnown /\ Render!RenderedInOrder
  BY <1>1, <1>2 DEF Render!RateKnown, Render!RenderedInOrder
<1> QED
  BY <1>3, <1>5, <1>7, <1>8 DEF RenderInv

\* What came out stays right while nothing comes out or comes back.
LEMMA RenderStays ==
  ASSUME RenderInv, UNCHANGED <<renderKind, renderGiven>>, renderFails' = 0 => renderFails = 0,
         \A n \in renderBack' \ renderBack : RenderInput[n].type # "frame"
  PROVE  Render!RateKnown' /\ Render!RenderedInOrder'
<1>1. Render!RateKnown'
  <2>1. \A n : Render!RateOf(n)' = Render!RateOf(n)
    BY RateOfStays
  <2> QED
    BY <2>1 DEF RenderInv, Render!RateKnown
<1>2. Render!RenderedInOrder'
  <2>1. Render!RenderedInOrder
    BY DEF RenderInv
  <2> QED
    BY <2>1 DEF Render!RenderedInOrder
<1> QED
  BY <1>1, <1>2

\* Nothing is taken, sent or given.
LEMMA RenderWaits ==
  ASSUME RenderAssumption, RenderInv,
         \/ Render!SendOut \/ Render!Trigger \/ Render!DisableOut \/ Render!CommitOut
         \/ Render!EnableOut
         \/ Render!Start \/ Render!Stop \/ Render!RateChange \/ Render!TooSmall
         \/ UNCHANGED Render!frvars
  PROVE  RenderInv'
<1> USE DEF Render!SendOut, Render!Trigger, Render!DisableOut, Render!CommitOut, Render!EnableOut,
    Render!Start, Render!Stop, Render!RateChange, Render!TooSmall,
            Render!frvars
<1>1. UNCHANGED <<renderKind, renderSent, renderInq, renderBack, renderGiven>>
  BY DEF Render!queues
<1>2. RenderTaken' = RenderTaken
  BY <1>1 DEF RenderTaken
<1>3. RenderTypes'
  <2>1. outRate' \in Nat /\ renderKnown' \in Nat /\ renderOutq' \in Nat
    BY DEF RenderInv, RenderTypes, Render!queues, Render!rates
  <2>2. renderFails' \in Nat
    BY DEF RenderInv, RenderTypes, Render!SendEvent
  <2>3. renderOutput' \in {"on", "disabling", "off"}
    BY DEF RenderInv, RenderTypes
  <2>4. renderTold' \in Nat
    <3>1. CASE Render!RateChange
      <4>1. renderInq # <<>>
        BY <3>1 DEF Render!Processing
      <4>2. renderInq \in Seq(Nat) /\ Follows(renderInq, RenderTaken)
        BY DEF RenderInv, RenderTypes, RenderQueue
      <4>3. Render!First.rate \in Nat
        <5>1. /\ RenderTaken \in Nat /\ Len(renderInq) \in Nat
              /\ RenderTaken + Len(renderInq) = renderSent
              /\ renderSent <= Len(RenderInput) /\ Len(RenderInput) \in Nat
          BY RenderTakenNumbers DEF RenderInv
        <5>2. Head(renderInq) = RenderTaken + 1 /\ Len(renderInq) # 0
          BY <4>1, <4>2, <5>1, FollowsHead, Shorter
        <5> QED
          BY <5>1, <5>2, RenderInputs DEF Render!First
      <4> QED
        BY <3>1, <4>3 DEF Render!SendEvent, RenderInv, RenderTypes
    <3>2. CASE ~Render!RateChange
      BY <3>2 DEF RenderInv, RenderTypes, Render!rates, Render!None
    <3> QED
      BY <3>1, <3>2
  <2> QED
    BY <1>1, <2>1, <2>2, <2>3, <2>4 DEF RenderInv, RenderTypes
<1>4. RenderQueue'
  BY <1>1, <1>2 DEF RenderInv, RenderQueue, Follows
<1>5. RenderRates'
  <2>1. Render!RateOf(RenderTaken)' = Render!RateOf(RenderTaken)
    BY <1>1, <1>2 DEF Render!RateOf, Render!Events, Render!LastEvent
  <2>2. renderKind = "spdif" /\ renderOutput' # "on" => renderOutq' = 0
    BY DEF RenderInv, RenderRates, Render!queues
  <2>3. renderKind = "spdif" /\ renderOutput' = "on" => renderKnown' = outRate'
    BY DEF RenderInv, RenderRates, Render!rates
  <2>4. renderKind = "video" => renderOutput' = "on" /\ outRate' = outRate
    BY DEF RenderInv, RenderRates, Render!rates
  <2>5. renderKind = "video" /\ renderStatus' => renderStatus
    BY DEF RenderInv, RenderRates, Render!rates
  <2> QED
    BY <1>1, <2>1, <2>2, <2>3, <2>4, <2>5 DEF RenderInv, RenderRates
<1>6. renderFails' = 0 => renderFails = 0
  BY DEF RenderInv, RenderTypes, Render!SendEvent
<1> QED
  BY <1>1, <1>3, <1>4, <1>5, <1>6, RenderStays DEF RenderInv

\* The queue and the counts after the head was taken.
LEMMA RenderTakesQueue ==
  ASSUME RenderAssumption, RenderInv, renderInq # <<>>, renderInq' = Tail(renderInq),
         renderSent' = renderSent,
         renderBack' \subseteq renderBack \cup {Head(renderInq)}
  PROVE  /\ renderInq' \in Seq(Nat) /\ Len(renderInq') <= renderSent'
         /\ Follows(renderInq', RenderTaken')
         /\ \A n \in renderBack' : n \in Nat /\ n <= RenderTaken'
         /\ RenderTaken \in Nat /\ RenderTaken' = RenderTaken + 1
         /\ Head(renderInq) = RenderTaken + 1
         /\ Render!First = RenderInput[RenderTaken + 1] /\ Render!First.rate \in Nat
<1>1. RenderTypes /\ RenderQueue
  BY DEF RenderInv
<1>2. /\ Head(renderInq) = RenderTaken + 1 /\ RenderTaken' = RenderTaken + 1
      /\ RenderTaken + 1 \in 1 .. Len(RenderInput) /\ RenderTaken \in Nat
      /\ renderInq' \in Seq(Nat) /\ Len(renderInq') <= renderSent'
      /\ Follows(renderInq', RenderTaken')
      /\ Render!First = RenderInput[RenderTaken + 1] /\ Render!First.rate \in Nat
  BY <1>1, RenderTakes
<1>3. ASSUME NEW n \in renderBack' PROVE n \in Nat /\ n <= RenderTaken'
  <2>1. CASE n \in renderBack
    <3>1. n \in Nat /\ n <= RenderTaken
      BY <1>1, <2>1 DEF RenderQueue
    <3> QED
      BY <1>2, <3>1
  <2>2. CASE n = Head(renderInq)
    BY <1>2, <2>2
  <2> QED
    BY <2>1, <2>2
<1> QED
  BY <1>2, <1>3

\* The head is taken and nothing comes out: it is no frame, or it is forgotten.
LEMMA RenderDrops ==
  ASSUME RenderAssumption, RenderInv, renderInq # <<>>, renderInq' = Tail(renderInq),
         UNCHANGED <<renderKind, renderSent, renderGiven>>,
         renderBack' \subseteq renderBack \cup {Head(renderInq)},
         Render!First.type = "frame" => renderBack' = renderBack,
         renderFails' = 0 => renderFails = 0
  PROVE  RenderQueue' /\ Render!RateKnown' /\ Render!RenderedInOrder'
<1>1. /\ renderInq' \in Seq(Nat) /\ Len(renderInq') <= renderSent'
      /\ Follows(renderInq', RenderTaken')
      /\ \A n \in renderBack' : n \in Nat /\ n <= RenderTaken'
      /\ RenderTaken \in Nat /\ RenderTaken' = RenderTaken + 1 /\ Head(renderInq) = RenderTaken + 1
  BY RenderTakesQueue
<1>2. \A k \in 1 .. Len(renderGiven') : renderGiven'[k].nth <= RenderTaken'
  <2>1. ASSUME NEW k \in 1 .. Len(renderGiven) PROVE renderGiven[k].nth <= RenderTaken + 1
    <3> DEFINE G == [nth : Nat, rate : Nat, right : BOOLEAN]
    <3>1. renderGiven[k].nth <= RenderTaken /\ renderGiven \in Seq(G)
      BY DEF RenderInv, RenderTypes, RenderQueue
    <3>2. \A h \in G : h.nth \in Nat
      OBVIOUS
    <3> HIDE DEF G
    <3>3. renderGiven[k].nth \in Nat
      BY <3>1, <3>2
    <3> QED
      BY <1>1, <3>1, <3>3
  <2> QED
    BY <1>1, <2>1
<1>3. RenderQueue'
  BY <1>1, <1>2 DEF RenderQueue
<1>4. \A n \in renderBack' \ renderBack : RenderInput[n].type # "frame"
  BY DEF Render!First
<1> QED
  BY <1>3, <1>4, RenderStays

\* The head is taken and comes out, under its rate if it is a frame.
LEMMA RenderGives ==
  ASSUME RenderAssumption, RenderInv, renderInq # <<>>, renderInq' = Tail(renderInq),
         UNCHANGED <<renderKind, renderSent, renderFails>>,
         renderBack' = renderBack \cup {Head(renderInq)}, NEW rate \in Nat, NEW right \in BOOLEAN,
         renderGiven' = Append(renderGiven, [nth |-> Head(renderInq), rate |-> rate, right |-> right]),
         Render!First.type = "frame" => rate = Render!RateOf(RenderTaken + 1)
  PROVE  /\ renderGiven' \in Seq([nth : Nat, rate : Nat, right : BOOLEAN])
         /\ RenderQueue' /\ Render!RateKnown' /\ Render!RenderedInOrder'
<1> DEFINE G == [nth : Nat, rate : Nat, right : BOOLEAN]
           g == [nth |-> Head(renderInq), rate |-> rate, right |-> right]
<1>1. /\ renderInq' \in Seq(Nat) /\ Len(renderInq') <= renderSent'
      /\ Follows(renderInq', RenderTaken')
      /\ \A n \in renderBack' : n \in Nat /\ n <= RenderTaken'
      /\ RenderTaken \in Nat /\ RenderTaken' = RenderTaken + 1 /\ Head(renderInq) = RenderTaken + 1
      /\ Render!First = RenderInput[RenderTaken + 1]
  BY RenderTakesQueue
<1>2. renderGiven \in Seq(G) /\ \A k \in 1 .. Len(renderGiven) : renderGiven[k].nth <= RenderTaken
  BY DEF RenderInv, RenderTypes, RenderQueue
<1>3. g \in G /\ g.nth = RenderTaken + 1 /\ g.rate = rate
  BY <1>1
<1>4. \A h \in G : h.nth \in Nat
  OBVIOUS
<1>5. renderGiven' = Append(renderGiven, g)
  OBVIOUS
<1> HIDE DEF G, g
<1>6. /\ renderGiven' \in Seq(G) /\ Len(renderGiven) \in Nat
      /\ Len(renderGiven') = Len(renderGiven) + 1
      /\ DOMAIN renderGiven = 1 .. Len(renderGiven)
      /\ DOMAIN renderGiven' = 1 .. Len(renderGiven) + 1
      /\ renderGiven'[Len(renderGiven) + 1] = g
      /\ \A k \in 1 .. Len(renderGiven) : renderGiven'[k] = renderGiven[k] /\ renderGiven[k] \in G
  BY <1>2, <1>3, <1>5, Longer
<1>7. ASSUME NEW k \in 1 .. Len(renderGiven) + 1
      PROVE  \/ k = Len(renderGiven) + 1 /\ renderGiven'[k] = g
             \/ k \in 1 .. Len(renderGiven) /\ renderGiven'[k] = renderGiven[k] /\ renderGiven[k].nth \in Nat
                /\ renderGiven[k].nth <= RenderTaken
  <2>1. k = Len(renderGiven) + 1 \/ k \in 1 .. Len(renderGiven)
    BY <1>6
  <2> QED
    BY <1>2, <1>4, <1>6, <2>1
<1>8. RenderQueue'
  <2>1. ASSUME NEW k \in 1 .. Len(renderGiven) + 1 PROVE renderGiven'[k].nth <= RenderTaken + 1
    BY <1>1, <1>3, <1>7
  <2> QED
    BY <1>1, <1>6, <2>1 DEF RenderQueue
<1>9. Render!RateKnown'
  <2>1. \A n : Render!RateOf(n)' = Render!RateOf(n)
    BY RateOfStays
  <2>2. ASSUME NEW k \in 1 .. Len(renderGiven) + 1, RenderInput[renderGiven'[k].nth].type = "frame"
        PROVE  renderGiven'[k].rate = Render!RateOf(renderGiven'[k].nth)
    <3>1. CASE renderGiven'[k] = g
      BY <1>1, <1>3, <2>2, <3>1
    <3>2. CASE k \in 1 .. Len(renderGiven) /\ renderGiven'[k] = renderGiven[k]
      BY <1>6, <2>2, <3>2 DEF RenderInv, Render!RateKnown
    <3> QED
      BY <1>7, <3>1, <3>2
  <2> QED
    BY <1>6, <2>1, <2>2 DEF Render!RateKnown
<1>10. Render!RenderedInOrder'
  <2>1. ASSUME NEW i \in 1 .. Len(renderGiven) + 1, NEW j \in 1 .. Len(renderGiven) + 1, i < j
        PROVE  renderGiven'[i].nth < renderGiven'[j].nth
    <3>1. CASE j = Len(renderGiven) + 1
      <4>1. i \in 1 .. Len(renderGiven)
        BY <1>6, <2>1, <3>1
      <4>2. renderGiven'[i].nth \in Nat /\ renderGiven'[i].nth <= RenderTaken
        BY <1>2, <1>4, <1>6, <4>1
      <4>3. renderGiven'[j].nth = RenderTaken + 1
        BY <1>3, <1>6, <3>1
      <4> QED
        BY <1>1, <4>2, <4>3
    <3>2. CASE j # Len(renderGiven) + 1
      <4>1. i \in 1 .. Len(renderGiven) /\ j \in 1 .. Len(renderGiven)
        BY <1>6, <2>1, <3>2
      <4> QED
        BY <1>6, <2>1, <4>1 DEF RenderInv, Render!RenderedInOrder
    <3> QED
      BY <3>1, <3>2
  <2>2. ASSUME renderFails = 0, NEW n \in renderBack', RenderInput[n].type = "frame"
        PROVE  \E k \in 1 .. Len(renderGiven) + 1 : renderGiven'[k].nth = n
    <3>1. CASE n = Head(renderInq)
      <4>1. renderGiven'[Len(renderGiven) + 1].nth = n /\ Len(renderGiven) + 1 \in 1 .. Len(renderGiven) + 1
        BY <1>1, <1>3, <1>6, <3>1
      <4> QED
        BY <4>1
    <3>2. CASE n \in renderBack
      <4>1. PICK k \in DOMAIN renderGiven : renderGiven[k].nth = n
        BY <2>2, <3>2 DEF RenderInv, Render!RenderedInOrder
      <4>2. renderGiven'[k].nth = n /\ k \in 1 .. Len(renderGiven) + 1
        BY <1>6, <4>1
      <4> QED
        BY <4>2
    <3> QED
      BY <2>2, <3>1, <3>2
  <2> QED
    BY <1>6, <2>1, <2>2 DEF Render!RenderedInOrder
<1> QED
  BY <1>6, <1>8, <1>9, <1>10 DEF G

LEMMA RenderSend ==
  ASSUME RenderAssumption, RenderInv, Render!SendIn PROVE RenderInv'
<1>1. /\ renderSent < Len(RenderInput) /\ renderSent' = renderSent + 1
      /\ renderInq' = Append(renderInq, renderSent')
      /\ UNCHANGED <<renderKind, renderOutq, renderBack, Render!rates, renderOutput, renderGiven,
                     renderFails>>
  BY DEF Render!SendIn
<1>2. /\ RenderTaken \in Nat /\ Len(renderInq) \in Nat /\ RenderTaken + Len(renderInq) = renderSent
      /\ renderSent \in Nat /\ Len(RenderInput) \in Nat
  BY RenderTakenNumbers DEF RenderInv, RenderTypes
<1>3. renderInq \in Seq(Nat) /\ Follows(renderInq, RenderTaken)
  BY DEF RenderInv, RenderTypes, RenderQueue
<1>4. renderInq' \in Seq(Nat) /\ Len(renderInq') = Len(renderInq) + 1
  BY <1>1, <1>2, <1>3, Longer
<1>5. RenderTaken' = RenderTaken
  BY <1>1, <1>2, <1>4 DEF RenderTaken
<1>6. Follows(renderInq', RenderTaken)
  BY <1>1, <1>2, <1>3, FollowsMore
<1>7. Len(renderInq') <= renderSent' /\ renderSent' \in Nat /\ renderSent' <= Len(RenderInput)
  BY <1>1, <1>2, <1>4
<1>8. RenderTypes'
  BY <1>1, <1>4, <1>7 DEF RenderInv, RenderTypes, Render!rates
<1>9. RenderQueue'
  BY <1>1, <1>5, <1>6, <1>7 DEF RenderInv, RenderQueue
<1>10. RenderRates'
  <2>1. Render!RateOf(RenderTaken)' = Render!RateOf(RenderTaken)
    BY <1>1, <1>5 DEF Render!RateOf, Render!Events, Render!LastEvent
  <2> QED
    BY <1>1, <2>1 DEF RenderInv, RenderRates, Render!rates
<1> QED
  BY <1>1, <1>8, <1>9, <1>10, RenderStays DEF RenderInv

\* spdif takes an event or what it does not pack.
LEMMA RenderSpdifTakes ==
  ASSUME RenderAssumption, RenderInv, Render!FormatEvent \/ Render!Skip PROVE RenderInv'
<1> USE DEF Render!FormatEvent, Render!Skip
<1>1. /\ renderInq # <<>> /\ renderKind = "spdif" /\ renderInq' = Tail(renderInq)
      /\ renderBack' = renderBack \cup {Head(renderInq)}
      /\ UNCHANGED <<renderKind, renderSent, renderGiven, renderOutq, renderKnown, renderOutput>>
  BY DEF Render!Processing, Render!ReturnFirst, Render!rates
<1>2. Render!First.type # "frame"
  OBVIOUS
<1>3. renderInq' \in Seq(Nat) /\ Render!First.rate \in Nat
  BY <1>1, RenderTakesQueue
<1>4. renderFails' \in Nat /\ (renderFails' = 0 => renderFails = 0)
  BY DEF RenderInv, RenderTypes, Render!SendEvent
<1>5. outRate' \in Nat /\ renderTold' \in Nat
  BY <1>3 DEF RenderInv, RenderTypes, Render!SendEvent, Render!rates
<1>6. RenderTypes'
  BY <1>1, <1>3, <1>4, <1>5 DEF RenderInv, RenderTypes
<1>7. renderOutput = "on" => outRate' = outRate
  BY DEF Render!SendEvent, Render!rates
<1>8. RenderRates'
  BY <1>1, <1>7 DEF RenderInv, RenderRates
<1> QED
  BY <1>1, <1>2, <1>4, <1>6, <1>8, RenderDrops DEF RenderInv

\* The renderer takes an event and has an overlay of its size, or none.
LEMMA RenderSizes ==
  ASSUME RenderAssumption, RenderInv, Render!SizeEvent PROVE RenderInv'
<1>1. /\ renderInq # <<>> /\ renderKind = "video" /\ renderInq' = Tail(renderInq)
      /\ renderBack' = renderBack \cup {Head(renderInq)}
      /\ Render!First.type = "event"
      /\ UNCHANGED <<renderKind, renderSent, renderGiven, renderOutq, renderTold, renderKnown,
                     renderOutput>>
  BY DEF Render!SizeEvent, Render!Processing, Render!ReturnFirst
<1>2. /\ renderInq' \in Seq(Nat) /\ Render!First.rate \in Nat
      /\ RenderTaken \in Nat /\ RenderTaken' = RenderTaken + 1
      /\ Render!First = RenderInput[RenderTaken + 1]
  BY <1>1, RenderTakesQueue
<1>3. renderFails' \in Nat /\ (renderFails' = 0 => renderFails = 0)
  BY DEF Render!SizeEvent, RenderInv, RenderTypes
<1>4. outRate' \in Nat /\ (renderStatus' => outRate' = Render!First.rate)
  BY <1>2 DEF Render!SizeEvent, Render!None
<1>5. renderSent \in Nat /\ renderSent <= Len(RenderInput)
      /\ renderOutq \in Nat /\ renderTold \in Nat /\ renderKnown \in Nat
      /\ renderOutput \in {"on", "disabling", "off"}
      /\ renderGiven \in Seq([nth : Nat, rate : Nat, right : BOOLEAN])
  BY DEF RenderInv, RenderTypes
<1>6. RenderTypes'
  BY <1>1, <1>2, <1>3, <1>4, <1>5 DEF RenderTypes
<1>7. Render!RateOf(RenderTaken)' = Render!First.rate
  <2>1. Render!RateOf(RenderTaken + 1) = Render!First.rate
    BY <1>1, <1>2, RateOfNext
  <2>2. Render!RateOf(RenderTaken)' = Render!RateOf(RenderTaken + 1)
    BY <1>1, <1>2 DEF Render!RateOf, Render!Events, Render!LastEvent
  <2> QED
    BY <2>1, <2>2
<1>8. RenderRates'
  BY <1>1, <1>4, <1>7 DEF RenderInv, RenderRates
<1>9. Render!First.type # "frame"
  BY <1>1
<1> QED
  BY <1>1, <1>3, <1>6, <1>8, <1>9, RenderDrops DEF RenderInv

\* spdif packs a frame of its rate.
LEMMA RenderPacks ==
  ASSUME RenderAssumption, RenderInv, Render!Pack PROVE RenderInv'
<1>1. /\ renderInq # <<>> /\ renderKind = "spdif" /\ renderInq' = Tail(renderInq)
      /\ renderBack' = renderBack \cup {Head(renderInq)}
      /\ renderOutq > 0 /\ renderOutq' = renderOutq - 1
      /\ UNCHANGED <<renderKind, renderSent, Render!rates, renderOutput, renderFails>>
  BY DEF Render!Pack, Render!Processing, Render!ReturnFirst
<1> DEFINE right == ~(Render!First.order = "swapped" /\ Render!First.off)
<1>2. renderGiven' = Append(renderGiven, [nth |-> Head(renderInq), rate |-> renderKnown, right |-> right])
  BY DEF Render!Pack
<1>3. right \in BOOLEAN
  OBVIOUS
<1>4. renderKnown \in Nat /\ renderOutq \in Nat
  BY DEF RenderInv, RenderTypes
<1>5. renderInq' \in Seq(Nat) /\ Render!First = RenderInput[RenderTaken + 1]
  BY <1>1, RenderTakesQueue
<1>6. renderOutput = "on" /\ renderKnown = outRate
  BY <1>1, <1>4 DEF RenderInv, RenderRates
<1>7. Render!First.type = "frame" => renderKnown = Render!RateOf(RenderTaken + 1)
  BY <1>1, <1>5, <1>6 DEF Render!Pack, Render!RateOf
<1> HIDE DEF right
<1>8. /\ renderGiven' \in Seq([nth : Nat, rate : Nat, right : BOOLEAN])
      /\ RenderQueue' /\ Render!RateKnown' /\ Render!RenderedInOrder'
  BY <1>1, <1>2, <1>3, <1>4, <1>7, RenderGives
<1>9. renderOutq' \in Nat
  BY <1>1, <1>4
<1>10. RenderTypes'
  BY <1>1, <1>5, <1>8, <1>9 DEF RenderInv, RenderTypes, Render!rates
<1>11. RenderRates'
  BY <1>1, <1>6 DEF RenderInv, RenderRates, Render!rates
<1> QED
  BY <1>8, <1>10, <1>11 DEF RenderInv

\* The renderer shows a frame, returns another buffer or forgets one.
LEMMA RenderShows ==
  ASSUME RenderAssumption, RenderInv, Render!Show PROVE RenderInv'
<1>1. /\ renderInq # <<>> /\ renderKind = "video" /\ renderInq' = Tail(renderInq)
      /\ Render!First.type # "event"
      /\ UNCHANGED <<renderKind, renderSent, Render!rates, renderOutq, renderOutput, renderFails>>
  BY DEF Render!Show, Render!Processing, Render!ReturnFirst
<1>2. /\ renderInq' \in Seq(Nat) /\ RenderTaken \in Nat /\ RenderTaken' = RenderTaken + 1
      /\ Render!First = RenderInput[RenderTaken + 1]
  BY <1>1, RenderTakes DEF RenderInv
<1>3. Render!RateOf(RenderTaken + 1) = Render!RateOf(RenderTaken)
  BY <1>1, <1>2, RateOfNext
<1>4. Render!RateOf(RenderTaken)' = Render!RateOf(RenderTaken)
  <2>1. Render!RateOf(RenderTaken)' = Render!RateOf(RenderTaken + 1)
    BY <1>1, <1>2 DEF Render!RateOf, Render!Events, Render!LastEvent
  <2> QED
    BY <1>3, <2>1
<1>5. RenderRates'
  BY <1>1, <1>4 DEF RenderInv, RenderRates, Render!rates
<1>6. renderGiven' \in Seq([nth : Nat, rate : Nat, right : BOOLEAN])
      /\ RenderQueue' /\ Render!RateKnown' /\ Render!RenderedInOrder'
  <2>1. CASE renderStatus /\ Render!First.type \in {"frame", "bad"}
    <3>1. /\ renderBack' = renderBack \cup {Head(renderInq)}
          /\ renderGiven' = Append(renderGiven, [nth |-> Head(renderInq), rate |-> outRate, right |-> TRUE])
      BY <2>1 DEF Render!Show, Render!ReturnFirst
    <3>2. outRate = Render!RateOf(RenderTaken + 1) /\ outRate \in Nat
      BY <1>1, <1>3, <2>1 DEF RenderInv, RenderRates, RenderTypes
    <3>3. TRUE \in BOOLEAN
      OBVIOUS
    <3> QED
      BY <1>1, <3>1, <3>2, <3>3, RenderGives
  <2>2. CASE renderStatus /\ Render!First.type \notin {"frame", "bad"}
    <3>1. renderBack' = renderBack \cup {Head(renderInq)} /\ renderGiven' = renderGiven
          /\ Render!First.type # "frame"
      BY <2>2 DEF Render!Show, Render!ReturnFirst
    <3> QED
      BY <1>1, <3>1, RenderDrops DEF RenderInv, RenderTypes
  <2>3. CASE ~renderStatus
    <3>1. renderBack' = renderBack /\ renderGiven' = renderGiven
      BY <2>3 DEF Render!Show
    <3> QED
      BY <1>1, <3>1, RenderDrops DEF RenderInv, RenderTypes
  <2> QED
    BY <2>1, <2>2, <2>3
<1>7. RenderTypes'
  BY <1>1, <1>2, <1>6 DEF RenderInv, RenderTypes, Render!rates
<1> QED
  BY <1>5, <1>6, <1>7 DEF RenderInv

LEMMA RenderMoves ==
  ASSUME RenderAssumption, RenderInv, Render!FRNext \/ UNCHANGED Render!frvars PROVE RenderInv'
BY RenderWaits, RenderSend, RenderSpdifTakes, RenderSizes, RenderPacks, RenderShows
   DEF Render!FRNext, Render!FRAction

-----------------------------------------------------------------------------
(* MediaCodecDecode: what is in the codec comes out in its order, and what   *)
(* waits in its output has the format announced before it.                   *)

MediaAssumption == MediaStream \in Seq(Nat) /\ \A n \in 1 .. Len(MediaStream) : MediaStream[n] > 0

MediaTaken == mediaSent - Len(mediaInq)

MediaTypes ==
  /\ mediaSent \in Nat /\ mediaSent <= Len(MediaStream) /\ mediaInq \in Seq(Nat)
  /\ inside \in Seq(Nat)
  /\ ready \in Seq(Nat) /\ mediaCodecFormat \in Nat /\ mediaTold \in Nat /\ mediaFormat \in Nat
  /\ mediaKnown \in Nat
  /\ mediaGiven \in Seq([nth : Nat, format : Nat])
  /\ (~codec => inside = <<>> /\ at = "idle")

MediaOrder ==
  /\ Len(mediaInq) <= mediaSent /\ Follows(mediaInq, MediaTaken)
  /\ \A i \in 1 .. Len(inside) : inside[i] > 0 /\ inside[i] <= MediaTaken
  /\ \A i, j \in 1 .. Len(inside) : i < j => inside[i] < inside[j]
  /\ \A i \in 1 .. Len(ready) : ready[i] <= Len(MediaStream) =>
       /\ ready[i] <= MediaTaken
       /\ \A j \in 1 .. Len(inside) : ready[i] < inside[j]
  /\ \A i, j \in 1 .. Len(ready) :
       i < j /\ ready[i] <= Len(MediaStream) /\ ready[j] \in 1 .. Len(MediaStream) => ready[i] < ready[j]
  /\ \A k \in 1 .. Len(mediaGiven) :
       /\ mediaGiven[k].nth <= MediaTaken
       /\ \A j \in 1 .. Len(inside) : mediaGiven[k].nth < inside[j]
       /\ \A i \in 1 .. Len(ready) : ready[i] \in 1 .. Len(MediaStream) => mediaGiven[k].nth < ready[i]

\* The format of what is at i of a queue, by the announcements before it, or
\* by the current one.
Under(q, current, i, f) ==
  \/ f = current /\ \A j \in 1 .. i - 1 : q[j] <= Len(MediaStream)
  \/ \E j \in 1 .. i - 1 : q[j] = Media!FormatItem(f) /\ \A k \in j + 1 .. i - 1 : q[k] <= Len(MediaStream)

Kept(q, current) ==
  \A i \in 1 .. Len(q) : q[i] \in 1 .. Len(MediaStream) => Under(q, current, i, MediaStream[q[i]])

\* The format of the output once the client has done what it was told, unless it
\* could not be told.
CurrentFormat == IF mediaNeeds THEN mediaTold ELSE mediaKnown

MediaFormats ==
  /\ mediaTold # Media!None => mediaNeeds /\ mediaTold = mediaFormat
  /\ ~(mediaNeeds /\ mediaTold = Media!None) =>
       /\ Kept(ready, CurrentFormat)
       /\ codec /\ mediaCodecFormat # Media!None
             => Under(ready, CurrentFormat, Len(ready) + 1, mediaCodecFormat)
  /\ mediaCodecFormat = Media!None => \A i \in 1 .. Len(ready) : ready[i] <= Len(MediaStream)

MediaInv == MediaTypes /\ MediaOrder /\ MediaFormats /\ Media!DecodedAsTold /\ Media!RequestStands

LEMMA UnderBefore ==
  ASSUME NEW q, NEW r, NEW current, NEW i \in Nat, NEW f,
         \A k \in 1 .. i - 1 : q[k] = r[k], Under(q, current, i, f)
  PROVE  Under(r, current, i, f)
<1>1. CASE f = current /\ \A j \in 1 .. i - 1 : q[j] <= Len(MediaStream)
  BY <1>1 DEF Under
<1>2. ASSUME NEW j \in 1 .. i - 1, q[j] = Media!FormatItem(f),
             \A k \in j + 1 .. i - 1 : q[k] <= Len(MediaStream)
      PROVE  Under(r, current, i, f)
  <2>1. \A k \in j + 1 .. i - 1 : k \in 1 .. i - 1
    OBVIOUS
  <2>2. r[j] = Media!FormatItem(f) /\ \A k \in j + 1 .. i - 1 : r[k] <= Len(MediaStream)
    BY <1>2, <2>1
  <2> QED
    BY <2>2 DEF Under
<1> QED
  BY <1>1, <1>2 DEF Under

LEMMA UnderNext ==
  ASSUME NEW q, NEW current, NEW i \in Nat, NEW f, i > 0, q[i] <= Len(MediaStream),
         Under(q, current, i, f)
  PROVE  Under(q, current, i + 1, f)
<1>1. CASE f = current /\ \A j \in 1 .. i - 1 : q[j] <= Len(MediaStream)
  <2>1. ASSUME NEW j \in 1 .. (i + 1) - 1 PROVE q[j] <= Len(MediaStream)
    <3>1. j = i \/ j \in 1 .. i - 1
      OBVIOUS
    <3> QED
      BY <1>1, <3>1
  <2> QED
    BY <1>1, <2>1 DEF Under
<1>2. ASSUME NEW j \in 1 .. i - 1, q[j] = Media!FormatItem(f),
             \A k \in j + 1 .. i - 1 : q[k] <= Len(MediaStream)
      PROVE  Under(q, current, i + 1, f)
  <2>1. ASSUME NEW k \in j + 1 .. (i + 1) - 1 PROVE q[k] <= Len(MediaStream)
    <3>1. k = i \/ k \in j + 1 .. i - 1
      OBVIOUS
    <3> QED
      BY <1>2, <3>1
  <2>2. j \in 1 .. (i + 1) - 1
    OBVIOUS
  <2> QED
    BY <1>2, <2>1, <2>2 DEF Under
<1> QED
  BY <1>1, <1>2 DEF Under

LEMMA UnderItem ==
  ASSUME NEW q, NEW current, NEW i \in Nat, NEW f, i > 0, q[i] = Media!FormatItem(f)
  PROVE  Under(q, current, i + 1, f)
<1>1. i \in 1 .. (i + 1) - 1 /\ i + 1 .. (i + 1) - 1 = {}
  OBVIOUS
<1> QED
  BY <1>1 DEF Under

\* What the head of the queue makes of the current format.
After(q, current) == IF q[1] > Len(MediaStream) THEN q[1] - Len(MediaStream) ELSE current

LEMMA UnderTail ==
  ASSUME Len(MediaStream) \in Nat, NEW q \in Seq(Nat), q # <<>>, NEW current,
         NEW i \in 1 .. Len(q), NEW f \in Nat, f > 0, Under(q, current, i + 1, f)
  PROVE  Under(Tail(q), After(q, current), i, f)
<1>1. /\ Len(q) \in Nat /\ Len(Tail(q)) = Len(q) - 1 /\ q[1] \in Nat
      /\ \A k \in 1 .. Len(Tail(q)) : Tail(q)[k] = q[k + 1]
  <2>1. 1 \in 1 .. Len(q) /\ Len(q) \in Nat
    BY Shorter
  <2> QED
    BY <2>1, Shorter
<1>2. CASE f = current /\ \A j \in 1 .. (i + 1) - 1 : q[j] <= Len(MediaStream)
  <2>1. 1 \in 1 .. (i + 1) - 1
    OBVIOUS
  <2>2. ~(q[1] > Len(MediaStream))
    BY <1>1, <1>2, <2>1
  <2>3. After(q, current) = f
    BY <1>2, <2>2 DEF After
  <2>4. ASSUME NEW j \in 1 .. i - 1 PROVE Tail(q)[j] <= Len(MediaStream)
    <3>1. j \in 1 .. Len(Tail(q)) /\ j + 1 \in 1 .. (i + 1) - 1
      BY <1>1
    <3> QED
      BY <1>1, <1>2, <3>1
  <2> QED
    BY <2>3, <2>4 DEF Under
<1>3. ASSUME NEW j \in 1 .. (i + 1) - 1, q[j] = Media!FormatItem(f),
             \A k \in j + 1 .. (i + 1) - 1 : q[k] <= Len(MediaStream)
      PROVE  Under(Tail(q), After(q, current), i, f)
  <2>1. CASE j = 1
    <3>1. After(q, current) = f
      BY <1>3, <2>1 DEF After, Media!FormatItem
    <3>2. ASSUME NEW k \in 1 .. i - 1 PROVE Tail(q)[k] <= Len(MediaStream)
      <4>1. k \in 1 .. Len(Tail(q)) /\ k + 1 \in j + 1 .. (i + 1) - 1
        BY <1>1, <2>1
      <4> QED
        BY <1>1, <1>3, <4>1
    <3> QED
      BY <3>1, <3>2 DEF Under
  <2>2. CASE j # 1
    <3>1. j - 1 \in 1 .. i - 1 /\ j - 1 \in 1 .. Len(Tail(q)) /\ (j - 1) + 1 = j
      BY <1>1, <2>2
    <3>2. Tail(q)[j - 1] = Media!FormatItem(f)
      BY <1>1, <1>3, <3>1
    <3>3. ASSUME NEW k \in (j - 1) + 1 .. i - 1 PROVE Tail(q)[k] <= Len(MediaStream)
      <4>1. k \in 1 .. Len(Tail(q)) /\ k + 1 \in j + 1 .. (i + 1) - 1
        BY <1>1, <2>2
      <4> QED
        BY <1>1, <1>3, <4>1
    <3> QED
      BY <3>1, <3>2, <3>3 DEF Under
  <2> QED
    BY <2>1, <2>2
<1> QED
  BY <1>2, <1>3 DEF Under

LEMMA MediaInputs ==
  ASSUME MediaAssumption
  PROVE  Len(MediaStream) \in Nat /\ DOMAIN MediaStream = 1 .. Len(MediaStream)
         /\ \A n \in 1 .. Len(MediaStream) : MediaStream[n] \in Nat /\ MediaStream[n] > 0
BY DEF MediaAssumption

LEMMA KeptTail ==
  ASSUME MediaAssumption, NEW q \in Seq(Nat), q # <<>>, NEW current, Kept(q, current)
  PROVE  Kept(Tail(q), After(q, current))
<1>1. Len(MediaStream) \in Nat /\ \A n \in 1 .. Len(MediaStream) : MediaStream[n] \in Nat /\ MediaStream[n] > 0
  BY MediaInputs
<1>2. ASSUME NEW i \in 1 .. Len(Tail(q)), Tail(q)[i] \in 1 .. Len(MediaStream)
      PROVE  Under(Tail(q), After(q, current), i, MediaStream[Tail(q)[i]])
  <2>1. Tail(q)[i] = q[i + 1] /\ i + 1 \in 1 .. Len(q) /\ i \in 1 .. Len(q)
    BY Shorter
  <2>2. Under(q, current, i + 1, MediaStream[q[i + 1]])
    BY <1>2, <2>1 DEF Kept
  <2>3. MediaStream[q[i + 1]] \in Nat /\ MediaStream[q[i + 1]] > 0
    BY <1>1, <1>2, <2>1
  <2> QED
    BY <1>1, <2>1, <2>2, <2>3, UnderTail
<1> QED
  BY <1>2 DEF Kept

\* What has the last format is added, or the announcement of another.
LEMMA KeptMore ==
  ASSUME NEW q \in Seq(Nat), NEW current, Kept(q, current), NEW x \in Nat,
         x \in 1 .. Len(MediaStream) => Under(q, current, Len(q) + 1, MediaStream[x])
  PROVE  Kept(Append(q, x), current)
<1>1. /\ Len(q) \in Nat /\ Len(Append(q, x)) = Len(q) + 1 /\ Append(q, x)[Len(q) + 1] = x
      /\ \A k \in 1 .. Len(q) : Append(q, x)[k] = q[k]
  BY Longer
<1>2. ASSUME NEW i \in 1 .. Len(q) + 1, Append(q, x)[i] \in 1 .. Len(MediaStream)
      PROVE  Under(Append(q, x), current, i, MediaStream[Append(q, x)[i]])
  <2>1. \A k \in 1 .. i - 1 : q[k] = Append(q, x)[k]
    BY <1>1
  <2>2. Under(q, current, i, MediaStream[Append(q, x)[i]])
    <3>1. CASE i = Len(q) + 1
      BY <1>1, <1>2, <3>1
    <3>2. CASE i # Len(q) + 1
      <4>1. i \in 1 .. Len(q)
        BY <1>1, <3>2
      <4> QED
        BY <1>1, <1>2, <4>1 DEF Kept
    <3> QED
      BY <3>1, <3>2
  <2>3. i \in Nat
    BY <1>1
  <2> QED
    BY <2>1, <2>2, <2>3, UnderBefore
<1> QED
  BY <1>1, <1>2 DEF Kept

LEMMA EndMore ==
  ASSUME NEW q \in Seq(Nat), NEW current, NEW f, NEW x \in Nat, x <= Len(MediaStream),
         Under(q, current, Len(q) + 1, f)
  PROVE  Under(Append(q, x), current, Len(Append(q, x)) + 1, f)
<1>1. /\ Len(q) \in Nat /\ Len(Append(q, x)) = Len(q) + 1 /\ Append(q, x)[Len(q) + 1] = x
      /\ \A k \in 1 .. (Len(q) + 1) - 1 : q[k] = Append(q, x)[k]
  BY Longer
<1>2. Len(q) + 1 \in Nat /\ Len(q) + 1 > 0
  BY <1>1
<1>3. Under(Append(q, x), current, Len(q) + 1, f)
  BY <1>1, <1>2, UnderBefore
<1> QED
  BY <1>1, <1>2, <1>3, UnderNext

LEMMA EndItem ==
  ASSUME NEW q \in Seq(Nat), NEW current, NEW f, NEW x \in Nat, x = Media!FormatItem(f)
  PROVE  Under(Append(q, x), current, Len(Append(q, x)) + 1, f)
<1>1. /\ Len(q) \in Nat /\ Len(Append(q, x)) = Len(q) + 1 /\ Append(q, x)[Len(q) + 1] = x
  BY Longer
<1>2. Len(q) + 1 \in Nat /\ Len(q) + 1 > 0
  BY <1>1
<1> QED
  BY <1>1, <1>2, UnderItem

LEMMA EndTail ==
  ASSUME Len(MediaStream) \in Nat, NEW q \in Seq(Nat), q # <<>>, NEW current, NEW f \in Nat, f > 0,
         Under(q, current, Len(q) + 1, f)
  PROVE  Under(Tail(q), After(q, current), Len(Tail(q)) + 1, f)
<1>1. Len(q) \in 1 .. Len(q) /\ Len(Tail(q)) + 1 = Len(q)
  BY Shorter
<1> QED
  BY <1>1, UnderTail

LEMMA MediaTakenNumbers ==
  ASSUME MediaAssumption, MediaTypes, MediaOrder
  PROVE  /\ MediaTaken \in Nat /\ Len(mediaInq) \in Nat /\ MediaTaken + Len(mediaInq) = mediaSent
         /\ mediaSent \in Nat
         /\ mediaSent <= Len(MediaStream) /\ Len(MediaStream) \in Nat
         /\ MediaTaken <= Len(MediaStream)
BY MediaInputs DEF MediaTypes, MediaOrder, MediaTaken

LEMMA MediaStarts ==
  ASSUME MediaAssumption, Media!MCInit PROVE MediaInv
<1>1. /\ mediaInq = <<>> /\ mediaGiven = <<>> /\ inside = <<>> /\ ready = <<Media!BufsChanged>>
      /\ mediaSent = 0
      /\ mediaTold = Media!None /\ mediaCodecFormat = Media!BeforeAll
      /\ mediaKnown = Media!BeforeAll /\ ~mediaNeeds /\ ~requested
      /\ codec /\ mediaFormat = Media!BeforeAll
  BY DEF Media!MCInit
<1>2. Len(mediaInq) = 0 /\ Len(mediaGiven) = 0 /\ Len(inside) = 0 /\ DOMAIN mediaGiven = {}
  BY <1>1, Nothing
<1>3. Len(ready) = 1 /\ ready[1] = 0 /\ ready \in Seq(Nat)
  BY <1>1 DEF Media!BufsChanged
<1>4. MediaTypes
  BY <1>1, <1>3, Nothing, MediaInputs DEF MediaTypes, Media!None, Media!BeforeAll
<1>5. MediaTaken = 0
  <2>1. mediaSent = 0
    BY <1>1
  <2>2. Len(mediaInq) = 0
    BY <1>2
  <2> QED
    BY <2>1, <2>2 DEF MediaTaken
<1>6. \A i \in 1 .. Len(ready) : ready[i] = 0
  BY <1>3
<1>7. MediaOrder
  <2>1. Len(mediaInq) <= mediaSent /\ Follows(mediaInq, MediaTaken)
    BY <1>1, <1>2 DEF Follows
  <2>2. \A i, j \in 1 .. Len(ready) : ~(i < j)
    BY <1>3
  <2> QED
    BY <1>2, <1>5, <1>6, <2>1, <2>2 DEF MediaOrder
<1>8. Len(MediaStream) \in Nat
  BY MediaInputs
<1>9. MediaFormats
  <2>1. Kept(ready, CurrentFormat)
    BY <1>6 DEF Kept
  <2>2. CurrentFormat = mediaCodecFormat
    BY <1>1 DEF CurrentFormat
  <2>3. Under(ready, CurrentFormat, Len(ready) + 1, mediaCodecFormat)
    <3>1. \A j \in 1 .. (Len(ready) + 1) - 1 : ready[j] <= Len(MediaStream)
      BY <1>3, <1>8
    <3> QED
      BY <2>2, <3>1 DEF Under
  <2>4. mediaTold = Media!None
    BY <1>1
  <2>5. mediaCodecFormat # Media!None
    BY <1>1 DEF Media!None, Media!BeforeAll
  <2> QED
    BY <2>1, <2>3, <2>4, <2>5 DEF MediaFormats
<1>10. Media!DecodedAsTold /\ Media!RequestStands
  BY <1>1, <1>2 DEF Media!DecodedAsTold, Media!RequestStands
<1> QED
  BY <1>4, <1>7, <1>9, <1>10 DEF MediaInv

\* Who asked, and who was asked.
LEMMA MediaRequests ==
  ASSUME MediaInv, Media!MCNext \/ UNCHANGED Media!mcvars PROVE Media!RequestStands'
<1>1. Media!RequestStands
  BY DEF MediaInv
<1>2. CASE Media!Decide
  BY <1>1, <1>2, Zenon DEF Media!Decide, Media!RequestStands, Media!portVars
<1>3. CASE Media!CodecNotifies \/ Media!Notified \/ Media!DisableIn \/ Media!EnableIn
  BY <1>1, <1>3, Zenon
     DEF Media!CodecNotifies, Media!Notified, Media!DisableIn, Media!EnableIn, Media!Started,
         Media!RequestStands, Media!portVars, Media!codecVars
<1>4. CASE \/ Media!Start \/ Media!ProcessIn \/ Media!OutNothing \/ Media!OutAgain
           \/ Media!OutBuffersChanged \/ Media!FormatChanged
           \/ Media!OutGives \/ Media!CodecDecodes
  <2>1. UNCHANGED <<codec, requested, asked, message>>
    BY <1>4 DEF Media!Start, Media!ProcessIn, Media!OutNothing, Media!OutAgain,
        Media!OutBuffersChanged, Media!FormatChanged, Media!OutGives,
                Media!CodecDecodes, Media!portVars, Media!codecVars
  <2> QED
    BY <1>1, <2>1 DEF Media!RequestStands
<1>5. CASE \/ Media!SendIn \/ Media!SendOut \/ Media!Trigger \/ Media!DisableOut \/ Media!CommitOut
           \/ Media!FlushIn \/ UNCHANGED Media!mcvars
  <2>1. UNCHANGED <<codec, requested, asked, message>>
    BY <1>5 DEF Media!SendIn, Media!SendOut, Media!Trigger, Media!DisableOut, Media!CommitOut,
        Media!FlushIn, Media!mcvars, Media!portVars, Media!codecVars
  <2> QED
    BY <1>1, <2>1 DEF Media!RequestStands
<1> QED
  BY <1>2, <1>3, <1>4, <1>5 DEF Media!MCNext, Media!MCAction, Media!MCCodec

\* The queues and what came out stay.
LEMMA MediaWaits ==
  ASSUME MediaAssumption, MediaInv,
         \/ Media!CodecNotifies \/ Media!Notified \/ Media!SendOut \/ Media!Trigger
         \/ Media!DisableOut \/ Media!CommitOut
         \/ Media!Start \/ Media!OutNothing \/ Media!OutAgain \/ Media!Decide
         \/ UNCHANGED Media!mcvars
  PROVE  MediaTypes' /\ MediaOrder' /\ MediaFormats' /\ Media!DecodedAsTold'
<1> USE DEF Media!CodecNotifies, Media!Notified, Media!SendOut, Media!Trigger, Media!DisableOut,
    Media!CommitOut, Media!Start, Media!OutNothing,
            Media!OutAgain, Media!Decide, Media!Asks, Media!mcvars
<1>1. UNCHANGED <<mediaSent, mediaInq, inside, ready, mediaGiven, mediaCodecFormat, codec,
                  mediaFormat>>
  BY DEF Media!codecVars, Media!clientVars, Media!portVars
<1>2. MediaTaken' = MediaTaken
  BY <1>1 DEF MediaTaken
<1>3. MediaOrder' /\ Media!DecodedAsTold'
  BY <1>1, <1>2 DEF MediaInv, MediaOrder, Follows, Media!DecodedAsTold
<1>4. (mediaTold' = mediaTold /\ mediaKnown' = mediaKnown /\ mediaNeeds' = mediaNeeds)
      \/ (mediaTold # Media!None /\ mediaTold = mediaFormat /\ mediaKnown' = mediaTold /\ ~mediaNeeds'
            /\ mediaTold' = Media!None)
  <2>1. CASE Media!CommitOut
    <3>1. mediaTold # Media!None /\ mediaTold = mediaFormat
      BY <2>1 DEF MediaInv, MediaFormats
    <3> QED
      BY <2>1, <3>1
  <2>2. CASE ~Media!CommitOut
    BY <2>2 DEF Media!clientVars
  <2> QED
    BY <2>1, <2>2
<1>5. mediaTold' \in Nat /\ mediaKnown' \in Nat
  BY <1>4 DEF MediaInv, MediaTypes, Media!None
<1>6. ~codec => at' = "idle"
  BY DEF MediaInv, MediaTypes
<1>7. MediaTypes'
  BY <1>1, <1>5, <1>6 DEF MediaInv, MediaTypes
<1>8. MediaFormats'
  <2>1. CASE mediaTold' = mediaTold /\ mediaKnown' = mediaKnown /\ mediaNeeds' = mediaNeeds
    BY <1>1, <2>1 DEF MediaInv, MediaFormats, Kept, Under, CurrentFormat
  <2>2. CASE mediaTold # Media!None /\ mediaTold = mediaFormat /\ mediaKnown' = mediaTold /\ ~mediaNeeds'
             /\ mediaTold' = Media!None
    <3>1. CurrentFormat' = CurrentFormat /\ mediaNeeds
      BY <2>2 DEF CurrentFormat, MediaInv, MediaFormats
    <3> QED
      BY <1>1, <2>2, <3>1 DEF MediaInv, MediaFormats, Kept, Under
  <2> QED
    BY <1>4, <2>1, <2>2
<1> QED
  BY <1>3, <1>7, <1>8

LEMMA MediaSend ==
  ASSUME MediaAssumption, MediaInv, Media!SendIn
  PROVE  MediaTypes' /\ MediaOrder' /\ MediaFormats' /\ Media!DecodedAsTold'
<1>1. /\ mediaSent < Len(MediaStream) /\ mediaSent' = mediaSent + 1
      /\ mediaInq' = Append(mediaInq, mediaSent')
      /\ UNCHANGED <<inside, ready, mediaGiven, mediaCodecFormat, codec, mediaFormat, at,
                     mediaTold, mediaKnown, mediaNeeds>>
  BY DEF Media!SendIn, Media!codecVars, Media!portVars
<1>2. MediaTypes /\ MediaOrder
  BY DEF MediaInv
<1>3. /\ MediaTaken \in Nat /\ Len(mediaInq) \in Nat /\ MediaTaken + Len(mediaInq) = mediaSent
      /\ mediaSent \in Nat /\ Len(MediaStream) \in Nat
  BY <1>2, MediaTakenNumbers
<1>4. mediaInq \in Seq(Nat) /\ Follows(mediaInq, MediaTaken)
  BY <1>2 DEF MediaTypes, MediaOrder
<1>5. mediaInq' \in Seq(Nat) /\ Len(mediaInq') = Len(mediaInq) + 1
  BY <1>1, <1>3, <1>4, Longer
<1>6. MediaTaken' = MediaTaken
  BY <1>1, <1>3, <1>5 DEF MediaTaken
<1>7. Follows(mediaInq', MediaTaken)
  BY <1>1, <1>3, <1>4, FollowsMore
<1>8. Len(mediaInq') <= mediaSent' /\ mediaSent' \in Nat /\ mediaSent' <= Len(MediaStream)
  BY <1>1, <1>3, <1>5
<1>9. MediaTypes'
  BY <1>1, <1>2, <1>5, <1>8 DEF MediaTypes
<1>10. MediaOrder'
  BY <1>1, <1>2, <1>6, <1>7, <1>8 DEF MediaOrder
<1>11. MediaFormats'
  BY <1>1 DEF MediaInv, MediaFormats, Kept, Under, CurrentFormat
<1>12. Media!DecodedAsTold'
  BY <1>1 DEF MediaInv, Media!DecodedAsTold
<1> QED
  BY <1>9, <1>10, <1>11, <1>12

\* The flush and the restart of the input: the codec holds nothing of it.
LEMMA MediaEmpties ==
  ASSUME MediaAssumption, MediaInv, mediaInq' = <<>>, inside' = <<>>, ready' \in Seq(Nat),
         \A i \in 1 .. Len(ready') : ready'[i] = 0 \/ ready'[i] > Len(MediaStream),
         UNCHANGED <<mediaSent, mediaGiven, at, mediaTold, mediaKnown, mediaFormat>>,
         codec' \/ at = "idle", mediaCodecFormat' \in Nat
  PROVE  MediaTypes' /\ MediaOrder' /\ Media!DecodedAsTold'
<1>1. MediaTypes /\ MediaOrder
  BY DEF MediaInv
<1>2. /\ MediaTaken \in Nat /\ MediaTaken <= mediaSent /\ mediaSent \in Nat
      /\ Len(MediaStream) \in Nat
  <2>1. /\ MediaTaken \in Nat /\ Len(mediaInq) \in Nat /\ MediaTaken + Len(mediaInq) = mediaSent
        /\ mediaSent \in Nat /\ Len(MediaStream) \in Nat
    BY <1>1, MediaTakenNumbers
  <2> QED
    BY <2>1
<1>3. /\ Len(mediaInq') = 0 /\ Len(inside') = 0 /\ mediaInq' \in Seq(Nat) /\ inside' \in Seq(Nat)
  BY Nothing
<1>4. MediaTaken' = mediaSent
  BY <1>2, <1>3 DEF MediaTaken
<1>5. MediaTypes'
  BY <1>1, <1>3 DEF MediaTypes
<1>6. Len(mediaInq') <= mediaSent' /\ Follows(mediaInq', MediaTaken')
  BY <1>2, <1>3 DEF Follows
<1>7. ASSUME NEW i \in 1 .. Len(ready') PROVE ready'[i] <= Len(MediaStream) => ready'[i] = 0
  <2>1. ready'[i] \in Nat
    OBVIOUS
  <2> QED
    BY <1>2, <2>1
<1>8. ASSUME NEW i \in 1 .. Len(ready') PROVE ready'[i] \notin 1 .. Len(MediaStream)
  BY <1>2
<1>9. ASSUME NEW k \in 1 .. Len(mediaGiven) PROVE mediaGiven[k].nth <= mediaSent
  <2> DEFINE G == [nth : Nat, format : Nat]
  <2>1. mediaGiven[k].nth <= MediaTaken /\ mediaGiven \in Seq(G)
    BY <1>1 DEF MediaTypes, MediaOrder
  <2>2. \A g \in G : g.nth \in Nat
    OBVIOUS
  <2> HIDE DEF G
  <2>3. mediaGiven[k].nth \in Nat
    BY <2>1, <2>2
  <2> QED
    BY <1>2, <2>1, <2>3
<1>10. MediaOrder'
  BY <1>2, <1>3, <1>4, <1>6, <1>7, <1>8, <1>9 DEF MediaOrder
<1>11. Media!DecodedAsTold'
  BY DEF MediaInv, Media!DecodedAsTold
<1> QED
  BY <1>5, <1>10, <1>11

LEMMA Joined ==
  ASSUME NEW x \in Nat
  PROVE  /\ <<>> \o <<>> = <<>> /\ <<>> \o <<x>> = <<x>>
         /\ <<0>> \o <<>> = <<0>> /\ <<0>> \o <<x>> = <<0, x>>
<1>1. <<>> \o <<>> = <<>> /\ <<>> \o <<x>> = <<x>>
  OBVIOUS
<1>2. <<0>> \o <<>> = <<0>>
  OBVIOUS
<1>3. <<0>> \o <<x>> = <<0, x>>
  <2>1. <<0>> \in Seq(Nat) /\ <<x>> \in Seq(Nat) /\ <<0, x>> \in Seq(Nat)
    OBVIOUS
  <2>2. <<0>> \o <<x>> \in Seq(Nat) /\ Len(<<0>> \o <<x>>) = 2 /\ Len(<<0, x>>) = 2
    OBVIOUS
  <2>3. (<<0>> \o <<x>>)[1] = 0 /\ (<<0>> \o <<x>>)[2] = x
    OBVIOUS
  <2>4. \A i \in 1 .. Len(<<0, x>>) : (<<0>> \o <<x>>)[i] = <<0, x>>[i]
    BY <2>2, <2>3
  <2> QED
    BY <2>1, <2>2, <2>4, SeqEqual
<1> QED
  BY <1>1, <1>2, <1>3

LEMMA MediaFlushes ==
  ASSUME MediaAssumption, MediaInv, Media!FlushIn
  PROVE  MediaTypes' /\ MediaOrder' /\ MediaFormats' /\ Media!DecodedAsTold'
<1>1. /\ mediaInq' = <<>> /\ inside' = <<>> /\ ready' = Media!Announcements /\ codec
      /\ UNCHANGED <<mediaSent, mediaGiven, at, mediaTold, mediaKnown, mediaFormat, mediaNeeds,
                     mediaCodecFormat, codec>>
  BY DEF Media!FlushIn, Media!clientVars
<1>2. mediaCodecFormat \in Nat /\ Len(MediaStream) \in Nat /\ ready \in Seq(Nat)
  BY MediaInputs DEF MediaInv, MediaTypes
<1>3. DOMAIN ready = 1 .. Len(ready)
  BY <1>2
<1> DEFINE some == \E i \in DOMAIN ready : ready[i] > Len(MediaStream)
           item == Len(MediaStream) + mediaCodecFormat
<1>4. some => mediaCodecFormat > 0
  BY <1>2, <1>3 DEF MediaInv, MediaFormats, Media!None
<1>5. item \in Nat /\ Media!FormatItem(mediaCodecFormat) = item /\ (some => item > Len(MediaStream))
  BY <1>2, <1>4 DEF Media!FormatItem
<1>6. /\ some => ready' = <<item>> \/ ready' = <<0, item>>
      /\ ~some => ready' = <<>> \/ ready' = <<0>>
  <2>1. /\ some => ready' = <<>> \o <<item>> \/ ready' = <<0>> \o <<item>>
        /\ ~some => ready' = <<>> \o <<>> \/ ready' = <<0>> \o <<>>
    BY <1>1, <1>5, Zenon DEF Media!Announcements, Media!BufsChanged
  <2> QED
    BY <1>5, <2>1, Joined
<1> HIDE DEF item, some
<1>7. ready' \in Seq(Nat) /\ (some => Len(ready') \in {1, 2} /\ ready'[Len(ready')] = item)
  <2>1. CASE some /\ ready' = <<item>>
    BY <1>5, <2>1
  <2>2. CASE some /\ ready' = <<0, item>>
    BY <1>5, <2>2
  <2>3. CASE ~some /\ ready' = <<>>
    BY <2>3, Nothing
  <2>4. CASE ~some /\ ready' = <<0>>
    BY <2>4
  <2> QED
    BY <1>6, <2>1, <2>2, <2>3, <2>4
<1>8. ASSUME NEW i \in 1 .. Len(ready')
      PROVE  /\ ready'[i] = 0 \/ ready'[i] > Len(MediaStream)
             /\ ~some => ready'[i] = 0
  <2>1. CASE some /\ ready' = <<item>>
    BY <1>5, <2>1
  <2>2. CASE some /\ ready' = <<0, item>>
    BY <1>5, <2>2
  <2>3. CASE ~some /\ ready' = <<>>
    BY <2>3, Nothing
  <2>4. CASE ~some /\ ready' = <<0>>
    BY <2>4
  <2> QED
    BY <1>6, <2>1, <2>2, <2>3, <2>4
<1>9. MediaTypes' /\ MediaOrder' /\ Media!DecodedAsTold'
  BY <1>1, <1>2, <1>7, <1>8, MediaEmpties
<1>10. Kept(ready', CurrentFormat)
  <2>1. \A i \in 1 .. Len(ready') : ready'[i] \notin 1 .. Len(MediaStream)
    BY <1>2, <1>8
  <2> QED
    BY <2>1 DEF Kept
<1>11. ASSUME mediaCodecFormat # Media!None, ~(mediaNeeds /\ mediaTold = Media!None)
       PROVE  Under(ready', CurrentFormat, Len(ready') + 1, mediaCodecFormat)
  <2>1. CASE some
    <3>1. Len(ready') \in 1 .. (Len(ready') + 1) - 1 /\ ready'[Len(ready')] = Media!FormatItem(mediaCodecFormat)
      <4>1. Len(ready') \in {1, 2} /\ ready'[Len(ready')] = item
        BY <1>7, <2>1
      <4> QED
        BY <1>5, <4>1
    <3>2. Len(ready') + 1 .. (Len(ready') + 1) - 1 = {}
      BY <1>7
    <3> QED
      BY <3>1, <3>2 DEF Under
  <2>2. CASE ~some
    <3>1. \A j \in 1 .. (Len(ready') + 1) - 1 : ready'[j] <= Len(MediaStream)
      BY <1>2, <1>7, <1>8, <2>2
    <3>2. Under(ready, CurrentFormat, Len(ready) + 1, mediaCodecFormat)
      BY <1>1, <1>11 DEF MediaInv, MediaFormats
    <3>3. ASSUME NEW j \in 1 .. (Len(ready) + 1) - 1
          PROVE  ready[j] # Media!FormatItem(mediaCodecFormat)
      <4>1. j \in 1 .. Len(ready)
        BY <1>2
      <4>2. ~(ready[j] > Len(MediaStream)) /\ ready[j] \in Nat
        BY <1>2, <1>3, <2>2, <4>1 DEF some
      <4>3. Media!FormatItem(mediaCodecFormat) > Len(MediaStream)
        BY <1>2, <1>11 DEF Media!FormatItem, Media!None
      <4> QED
        BY <1>2, <4>2, <4>3
    <3>4. mediaCodecFormat = CurrentFormat
      BY <3>2, <3>3 DEF Under
    <3> QED
      BY <3>1, <3>4 DEF Under
  <2> QED
    BY <2>1, <2>2
<1>12. mediaCodecFormat = Media!None => \A i \in 1 .. Len(ready') : ready'[i] <= Len(MediaStream)
  <2>1. mediaCodecFormat = Media!None => ~some
    BY <1>2, <1>4 DEF Media!None
  <2> QED
    BY <1>2, <1>8, <2>1
<1>13. CurrentFormat' = CurrentFormat
  BY <1>1 DEF CurrentFormat
<1>14. mediaTold' # Media!None => mediaNeeds' /\ mediaTold' = mediaFormat'
  BY <1>1 DEF MediaInv, MediaFormats
<1>15. ~(mediaNeeds' /\ mediaTold' = Media!None) => Kept(ready', CurrentFormat')
  BY <1>10, <1>13
<1>16. ~(mediaNeeds' /\ mediaTold' = Media!None) /\ codec' /\ mediaCodecFormat' # Media!None
         => Under(ready', CurrentFormat', Len(ready') + 1, mediaCodecFormat')
  BY <1>1, <1>11, <1>13
<1>17. MediaFormats'
  BY <1>1, <1>12, <1>14, <1>15, <1>16 DEF MediaFormats, Kept, Under
<1> QED
  BY <1>9, <1>17

\* The input port is disabled, or enabled with a codec that announced nothing.
LEMMA MediaRestarts ==
  ASSUME MediaAssumption, MediaInv, Media!DisableIn \/ Media!EnableIn
  PROVE  MediaTypes' /\ MediaOrder' /\ MediaFormats' /\ Media!DecodedAsTold'
<1>1. UNCHANGED <<mediaSent, mediaGiven, at, mediaTold, mediaKnown, mediaFormat, mediaNeeds>>
      /\ mediaCodecFormat' \in {mediaCodecFormat, Media!None}
  BY DEF Media!DisableIn, Media!EnableIn, Media!Started, Media!clientVars
<1>2. (ready' = <<>> /\ ~codec') \/ (ready' = <<0>> /\ mediaCodecFormat' = Media!None)
  BY DEF Media!DisableIn, Media!EnableIn, Media!Started, Media!BufsChanged
<1>3. ready' \in Seq(Nat) /\ \A i \in 1 .. Len(ready') : ready'[i] = 0
  <2>1. CASE ready' = <<>>
    BY <2>1, Nothing
  <2>2. CASE ready' = <<0>>
    BY <2>2
  <2> QED
    BY <1>2, <2>1, <2>2
<1>4. mediaCodecFormat' \in Nat /\ Len(MediaStream) \in Nat
  BY <1>1, MediaInputs DEF MediaInv, MediaTypes, Media!None
<1>5. MediaTypes' /\ MediaOrder' /\ Media!DecodedAsTold'
  <2>1. CASE Media!DisableIn
    <3>1. mediaInq' = <<>> /\ inside' = <<>> /\ at = "idle"
      BY <2>1 DEF Media!DisableIn
    <3> QED
      BY <1>1, <1>3, <1>4, <3>1, MediaEmpties
  <2>2. CASE Media!EnableIn
    <3>1. codec' /\ ready' = <<0>> /\ UNCHANGED <<mediaInq, inside>>
      BY <2>2 DEF Media!EnableIn, Media!Started, Media!BufsChanged
    <3>2. MediaTaken' = MediaTaken /\ MediaTypes /\ MediaOrder
      BY <1>1, <3>1 DEF MediaTaken, MediaInv
    <3>3. MediaTypes'
      BY <1>1, <1>3, <1>4, <3>1, <3>2 DEF MediaTypes
    <3>4. Len(inside) = 0
      <4>1. inside = <<>>
        BY <2>2, <3>2 DEF MediaTypes, Media!EnableIn, Media!Started
      <4> QED
        BY <4>1, Nothing
    <3>5. MediaTaken \in Nat
      BY <3>2, MediaTakenNumbers
    <3>6. \A i, j \in 1 .. Len(ready') : ~(i < j)
      BY <3>1
    <3>7. \A i \in 1 .. Len(ready') : ready'[i] \notin 1 .. Len(MediaStream)
      BY <1>3, <1>4
    <3>8. MediaOrder'
      BY <1>1, <1>3, <3>1, <3>2, <3>4, <3>5, <3>6, <3>7 DEF MediaOrder
    <3>9. Media!DecodedAsTold'
      BY <1>1 DEF MediaInv, Media!DecodedAsTold
    <3> QED
      BY <3>3, <3>8, <3>9
  <2> QED
    BY <2>1, <2>2
<1>6. \A i \in 1 .. Len(ready') : ready'[i] <= Len(MediaStream) /\ ready'[i] \notin 1 .. Len(MediaStream)
  BY <1>3, <1>4
<1>7. mediaTold' # Media!None => mediaNeeds' /\ mediaTold' = mediaFormat'
  BY <1>1 DEF MediaInv, MediaFormats
<1>8. ~(codec' /\ mediaCodecFormat' # Media!None)
  BY <1>2
<1>9. MediaFormats'
  BY <1>6, <1>7, <1>8 DEF MediaFormats, Kept
<1> QED
  BY <1>5, <1>9

LEMMA Added ==
  ASSUME NEW q \in Seq(Nat), NEW x \in Nat, NEW y \in Nat
  PROVE  q \o <<y>> = Append(q, y) /\ q \o <<x, y>> = Append(Append(q, x), y)
<1>1. q \o <<y>> = Append(q, y)
  OBVIOUS
<1>2. q \o <<x, y>> = Append(Append(q, x), y)
  <2>1. <<x, y>> \in Seq(Nat) /\ Len(<<x, y>>) = 2 /\ <<x, y>>[1] = x /\ <<x, y>>[2] = y
    OBVIOUS
  <2>2. /\ q \o <<x, y>> \in Seq(Nat) /\ Len(q \o <<x, y>>) = Len(q) + 2 /\ Len(q) \in Nat
        /\ \A k \in 1 .. Len(q) : (q \o <<x, y>>)[k] = q[k]
        /\ (q \o <<x, y>>)[Len(q) + 1] = x /\ (q \o <<x, y>>)[Len(q) + 2] = y
    BY <2>1
  <2>3. /\ Append(q, x) \in Seq(Nat) /\ Len(Append(q, x)) = Len(q) + 1
        /\ \A k \in 1 .. Len(q) : Append(q, x)[k] = q[k]
        /\ Append(q, x)[Len(q) + 1] = x
    BY Longer
  <2> DEFINE r == Append(q, x)
  <2> HIDE DEF r
  <2>4. /\ Append(r, y) \in Seq(Nat) /\ Len(Append(r, y)) = Len(r) + 1
        /\ \A k \in 1 .. Len(r) : Append(r, y)[k] = r[k]
        /\ Append(r, y)[Len(r) + 1] = y
    BY <2>3, Longer DEF r
  <2>5. \A k \in 1 .. Len(Append(r, y)) : Append(r, y)[k] = (q \o <<x, y>>)[k]
    <3>1. TAKE k \in 1 .. Len(Append(r, y))
    <3>2. CASE k = Len(q) + 2
      BY <2>2, <2>3, <2>4, <3>2 DEF r
    <3>3. CASE k = Len(q) + 1
      BY <2>2, <2>3, <2>4, <3>3 DEF r
    <3>4. CASE k \in 1 .. Len(q)
      BY <2>2, <2>3, <2>4, <3>4 DEF r
    <3> QED
      BY <2>2, <2>3, <2>4, <3>2, <3>3, <3>4 DEF r
  <2>6. Len(Append(r, y)) = Len(q \o <<x, y>>)
    BY <2>2, <2>3, <2>4 DEF r
  <2> QED
    BY <2>2, <2>4, <2>5, <2>6, SeqEqual DEF r
<1> QED
  BY <1>1, <1>2

\* An input is taken into the codec, or lost to an error of it.
LEMMA MediaTakes ==
  ASSUME MediaAssumption, MediaInv, Media!ProcessIn
  PROVE  MediaTypes' /\ MediaOrder' /\ MediaFormats' /\ Media!DecodedAsTold'
<1>1. UNCHANGED <<mediaSent, ready, mediaGiven, mediaCodecFormat, codec, mediaFormat, mediaTold,
                  mediaKnown, mediaNeeds>>
  BY DEF Media!ProcessIn, Media!clientVars, Media!portVars
<1>2. MediaTypes /\ MediaOrder
  BY DEF MediaInv
<1>3. codec /\ codec'
  BY <1>1, <1>2 DEF Media!ProcessIn, MediaTypes
<1>4. MediaFormats' /\ Media!DecodedAsTold'
  BY <1>1 DEF MediaInv, MediaFormats, Kept, Under, CurrentFormat, Media!DecodedAsTold
<1>5. /\ MediaTaken \in Nat /\ Len(mediaInq) \in Nat /\ MediaTaken + Len(mediaInq) = mediaSent
      /\ mediaSent \in Nat /\ Len(MediaStream) \in Nat
  BY <1>2, MediaTakenNumbers
<1>6. CASE UNCHANGED <<mediaInq, inside>>
  <2>1. MediaTaken' = MediaTaken
    BY <1>1, <1>6 DEF MediaTaken
  <2>2. MediaTypes' /\ MediaOrder'
    BY <1>1, <1>2, <1>3, <1>6, <2>1 DEF MediaTypes, MediaOrder
  <2> QED
    BY <1>4, <2>2
<1>7. CASE mediaInq # <<>> /\ mediaInq' = Tail(mediaInq) /\ inside' \in {inside, Append(inside, Head(mediaInq))}
  <2>1. mediaInq \in Seq(Nat) /\ Follows(mediaInq, MediaTaken) /\ inside \in Seq(Nat)
    BY <1>2 DEF MediaTypes, MediaOrder
  <2>2. Head(mediaInq) = MediaTaken + 1 /\ Follows(mediaInq', MediaTaken + 1)
    BY <1>5, <1>7, <2>1, FollowsHead
  <2>3. mediaInq' \in Seq(Nat) /\ Len(mediaInq') = Len(mediaInq) - 1 /\ Len(mediaInq) # 0
    BY <1>7, <2>1, Shorter
  <2>4. MediaTaken' = MediaTaken + 1 /\ Len(mediaInq') <= mediaSent'
    BY <1>1, <1>5, <2>3 DEF MediaTaken
  <2>5. /\ inside' \in Seq(Nat) /\ Len(inside) \in Nat /\ Len(inside') \in Nat
        /\ \A j \in 1 .. Len(inside') :
             \/ j \in 1 .. Len(inside) /\ inside'[j] = inside[j]
             \/ j = Len(inside) + 1 /\ inside'[j] = MediaTaken + 1
    <3>1. CASE inside' = inside
      BY <2>1, <3>1
    <3>2. CASE inside' = Append(inside, MediaTaken + 1)
      <4>1. /\ inside' \in Seq(Nat) /\ Len(inside') = Len(inside) + 1 /\ Len(inside) \in Nat
            /\ \A k \in 1 .. Len(inside) : inside'[k] = inside[k]
            /\ inside'[Len(inside) + 1] = MediaTaken + 1
        BY <1>5, <2>1, <3>2, Longer
      <4> QED
        BY <4>1
    <3> QED
      BY <1>7, <2>2, <3>1, <3>2
  <2>6. MediaTypes'
    BY <1>1, <1>2, <1>3, <2>3, <2>5 DEF MediaTypes
  <2>7. \A j \in 1 .. Len(inside) : inside[j] \in Nat /\ inside[j] > 0 /\ inside[j] <= MediaTaken
    BY <1>2, <2>1 DEF MediaOrder
  <2>8. ASSUME NEW j \in 1 .. Len(inside') PROVE inside'[j] > 0 /\ inside'[j] <= MediaTaken'
    <3>1. CASE j \in 1 .. Len(inside) /\ inside'[j] = inside[j]
      <4>1. inside[j] \in Nat /\ inside[j] > 0 /\ inside[j] <= MediaTaken
        BY <2>7, <3>1
      <4> QED
        BY <1>5, <2>4, <3>1, <4>1
    <3>2. CASE j = Len(inside) + 1 /\ inside'[j] = MediaTaken + 1
      BY <1>5, <2>4, <3>2
    <3> QED
      BY <2>5, <3>1, <3>2
  <2>9. ASSUME NEW i \in 1 .. Len(inside'), NEW j \in 1 .. Len(inside'), i < j
        PROVE  inside'[i] < inside'[j]
    <3>1. CASE j \in 1 .. Len(inside) /\ inside'[j] = inside[j]
      <4>1. i \in 1 .. Len(inside) /\ inside'[i] = inside[i]
        BY <2>5, <2>9, <3>1
      <4> QED
        BY <1>2, <2>9, <3>1, <4>1 DEF MediaOrder
    <3>2. CASE j = Len(inside) + 1 /\ inside'[j] = MediaTaken + 1
      <4>1. i \in 1 .. Len(inside) /\ inside'[i] = inside[i]
        BY <2>5, <2>9, <3>2
      <4> QED
        BY <1>5, <2>7, <3>2, <4>1
    <3> QED
      BY <2>5, <3>1, <3>2
  <2>10. ASSUME NEW x \in Nat, x <= MediaTaken, \A j \in 1 .. Len(inside) : x < inside[j]
         PROVE  x <= MediaTaken' /\ \A j \in 1 .. Len(inside') : x < inside'[j]
    <3>1. x <= MediaTaken' /\ x < MediaTaken + 1
      BY <1>5, <2>4, <2>10
    <3>2. ASSUME NEW j \in 1 .. Len(inside') PROVE x < inside'[j]
      <4>1. CASE j \in 1 .. Len(inside) /\ inside'[j] = inside[j]
        BY <2>10, <4>1
      <4>2. CASE j = Len(inside) + 1 /\ inside'[j] = MediaTaken + 1
        BY <3>1, <4>2
      <4> QED
        BY <2>5, <4>1, <4>2
    <3> QED
      BY <3>1, <3>2
  <2>11. ASSUME NEW i \in 1 .. Len(ready'), ready'[i] <= Len(MediaStream)
         PROVE  ready'[i] <= MediaTaken' /\ \A j \in 1 .. Len(inside') : ready'[i] < inside'[j]
    <3>1. ready'[i] \in Nat
      BY <2>6 DEF MediaTypes
    <3>2. ready'[i] <= MediaTaken /\ \A j \in 1 .. Len(inside) : ready'[i] < inside[j]
      BY <1>1, <1>2, <2>11 DEF MediaOrder
    <3> QED
      BY <2>10, <3>1, <3>2
  <2>12. ASSUME NEW k \in 1 .. Len(mediaGiven')
         PROVE  /\ mediaGiven'[k].nth <= MediaTaken'
                /\ \A j \in 1 .. Len(inside') : mediaGiven'[k].nth < inside'[j]
    <3> DEFINE G == [nth : Nat, format : Nat]
    <3>1. mediaGiven' \in Seq(G)
      BY <2>6 DEF MediaTypes
    <3>2. \A g \in G : g.nth \in Nat
      OBVIOUS
    <3> HIDE DEF G
    <3>3. mediaGiven'[k].nth \in Nat
      BY <3>1, <3>2
    <3>4. mediaGiven'[k].nth <= MediaTaken /\ \A j \in 1 .. Len(inside) : mediaGiven'[k].nth < inside[j]
      BY <1>1, <1>2 DEF MediaOrder
    <3> QED
      BY <2>10, <3>3, <3>4
  <2>13. Follows(mediaInq', MediaTaken')
    BY <2>2, <2>4
  <2>14. MediaOrder'
    BY <1>1, <1>2, <2>4, <2>8, <2>9, <2>11, <2>12, <2>13 DEF MediaOrder
  <2> QED
    BY <1>4, <2>6, <2>14
<1>8. CASE mediaInq = <<>> \/ Media!Got = 0
  BY <1>6, <1>8 DEF Media!ProcessIn
<1>9. CASE ~(mediaInq = <<>> \/ Media!Got = 0)
  BY <1>7, <1>9 DEF Media!ProcessIn
<1> QED
  BY <1>8, <1>9

\* The codec decodes: its format is announced if it is another.
LEMMA MediaDecodes ==
  ASSUME MediaAssumption, MediaInv, Media!CodecDecodes
  PROVE  MediaTypes' /\ MediaOrder' /\ MediaFormats' /\ Media!DecodedAsTold'
<1> DEFINE n == Head(inside)
           item == Media!FormatItem(MediaStream[n])
           longer == IF MediaStream[n] # mediaCodecFormat THEN Append(ready, item) ELSE ready
<1>1. /\ inside # <<>> /\ inside' = Tail(inside) /\ mediaCodecFormat' = MediaStream[n]
      /\ UNCHANGED <<mediaSent, mediaInq, mediaGiven, codec, at, mediaFormat, mediaTold,
                     mediaKnown, mediaNeeds>>
  BY DEF Media!CodecDecodes, Media!clientVars, Media!portVars
<1>2. MediaTypes /\ MediaOrder
  BY DEF MediaInv
<1>3. /\ MediaTaken \in Nat /\ MediaTaken <= Len(MediaStream) /\ Len(MediaStream) \in Nat
  BY <1>2, MediaTakenNumbers
<1>4. inside \in Seq(Nat) /\ ready \in Seq(Nat) /\ mediaCodecFormat \in Nat
  BY <1>2 DEF MediaTypes
<1>5. /\ inside' \in Seq(Nat) /\ Len(inside') = Len(inside) - 1 /\ Len(inside) \in Nat
      /\ Len(inside) # 0
      /\ n = inside[1] /\ n \in Nat
      /\ \A k \in 1 .. Len(inside') : inside'[k] = inside[k + 1] /\ k + 1 \in 1 .. Len(inside)
  BY <1>1, <1>4, Shorter
<1>6. n > 0 /\ n <= MediaTaken /\ n \in 1 .. Len(MediaStream)
  BY <1>2, <1>3, <1>5 DEF MediaOrder
<1>7. MediaStream[n] \in Nat /\ MediaStream[n] > 0 /\ item \in Nat /\ item > Len(MediaStream)
  BY <1>3, <1>6, MediaInputs DEF Media!FormatItem
<1>8. ready' = Append(longer, n)
  <2>1. ready' = ready \o (IF MediaStream[n] # mediaCodecFormat THEN <<item, n>> ELSE <<n>>)
    BY DEF Media!CodecDecodes
  <2> HIDE DEF item, n
  <2>2. ready \o <<n>> = Append(ready, n)
    BY <1>4, <1>5, Added
  <2>3. ready \o <<item, n>> = Append(Append(ready, item), n)
    BY <1>4, <1>5, <1>7, Added
  <2> QED
    BY <2>1, <2>2, <2>3
<1> HIDE DEF n, item
<1>9. /\ longer \in Seq(Nat) /\ Len(longer) \in Nat
      /\ \A i \in 1 .. Len(longer) :
           \/ i \in 1 .. Len(ready) /\ longer[i] = ready[i]
           \/ i = Len(ready) + 1 /\ longer[i] = item
  <2>1. CASE MediaStream[n] = mediaCodecFormat
    BY <1>4, <2>1
  <2>2. CASE MediaStream[n] # mediaCodecFormat
    <3>1. longer = Append(ready, item)
      BY <2>2
    <3> HIDE DEF longer
    <3>2. /\ Append(ready, item) \in Seq(Nat) /\ Len(Append(ready, item)) = Len(ready) + 1
          /\ Len(ready) \in Nat /\ \A k \in 1 .. Len(ready) : Append(ready, item)[k] = ready[k]
          /\ Append(ready, item)[Len(ready) + 1] = item
      BY <1>4, <1>7, Longer
    <3> QED
      BY <3>1, <3>2
  <2> QED
    BY <2>1, <2>2
<1>10. ASSUME ~(mediaNeeds /\ mediaTold = Media!None), codec
       PROVE  Kept(longer, CurrentFormat) /\ Under(longer, CurrentFormat, Len(longer) + 1, MediaStream[n])
  <2>1. Kept(ready, CurrentFormat)
    BY <1>10 DEF MediaInv, MediaFormats
  <2>2. CASE MediaStream[n] = mediaCodecFormat
    <3>1. mediaCodecFormat # Media!None
      BY <1>7, <2>2 DEF Media!None
    <3>2. Under(ready, CurrentFormat, Len(ready) + 1, mediaCodecFormat)
      BY <1>10, <3>1 DEF MediaInv, MediaFormats
    <3> QED
      BY <2>1, <2>2, <3>2
  <2>3. CASE MediaStream[n] # mediaCodecFormat
    <3>1. item \notin 1 .. Len(MediaStream)
      BY <1>3, <1>7
    <3>2. Kept(Append(ready, item), CurrentFormat)
      BY <1>4, <1>7, <2>1, <3>1, KeptMore
    <3>3. item = Media!FormatItem(MediaStream[n])
      BY DEF item
    <3>4. Under(Append(ready, item), CurrentFormat, Len(Append(ready, item)) + 1, MediaStream[n])
      BY <1>4, <1>7, <3>3, EndItem
    <3> QED
      BY <2>3, <3>2, <3>4
  <2> QED
    BY <2>2, <2>3
<1> HIDE DEF longer
<1>11. /\ ready' \in Seq(Nat) /\ Len(ready') = Len(longer) + 1 /\ ready'[Len(longer) + 1] = n
       /\ \A i \in 1 .. Len(longer) : ready'[i] = longer[i]
  BY <1>5, <1>8, <1>9, Longer
<1>12. \A i \in 1 .. Len(ready') :
         \/ i \in 1 .. Len(ready) /\ ready'[i] = ready[i]
         \/ ready'[i] = item
         \/ i = Len(ready') /\ ready'[i] = n
  <2>1. ASSUME NEW i \in 1 .. Len(ready'), i # Len(ready')
        PROVE  i \in 1 .. Len(longer) /\ ready'[i] = longer[i]
    BY <1>9, <1>11, <2>1
  <2> QED
    BY <1>9, <1>11, <2>1
<1>13. codec
  <2>1. ~codec => inside = <<>>
    BY <1>2 DEF MediaTypes
  <2> QED
    BY <1>1, <2>1
<1>14. MediaTypes'
  BY <1>1, <1>2, <1>5, <1>7, <1>11, <1>13 DEF MediaTypes
<1>15. MediaTaken' = MediaTaken
  BY <1>1 DEF MediaTaken
<1>16. \A i \in 1 .. Len(ready) : ready[i] \in Nat /\ (ready[i] <= Len(MediaStream) => ready[i] < n)
  BY <1>2, <1>4, <1>5 DEF MediaOrder
<1>17. ASSUME NEW j \in 1 .. Len(inside')
       PROVE  inside'[j] > n /\ inside'[j] \in Nat /\ inside'[j] <= MediaTaken
  <2>1. inside'[j] = inside[j + 1] /\ j + 1 \in 1 .. Len(inside) /\ 1 \in 1 .. Len(inside) /\ 1 < j + 1
    BY <1>5
  <2>2. inside[1] < inside[j + 1] /\ inside[j + 1] <= MediaTaken
    BY <1>2, <2>1 DEF MediaOrder
  <2>3. inside[j + 1] \in Nat
    BY <1>4, <2>1
  <2> QED
    BY <1>5, <2>1, <2>2, <2>3
<1>18. ASSUME NEW i \in 1 .. Len(inside'), NEW j \in 1 .. Len(inside'), i < j
       PROVE  inside'[i] < inside'[j]
  <2>1. inside'[j] = inside[j + 1] /\ j + 1 \in 1 .. Len(inside)
    BY <1>5
  <2>2. inside'[i] = inside[i + 1] /\ i + 1 \in 1 .. Len(inside) /\ i + 1 < j + 1
    BY <1>5, <1>18
  <2> QED
    BY <1>2, <2>1, <2>2 DEF MediaOrder
<1>19. ASSUME NEW i \in 1 .. Len(ready'), ready'[i] <= Len(MediaStream)
       PROVE  ready'[i] <= n /\ ready'[i] \in Nat /\ (i # Len(ready') => ready'[i] < n)
  <2>1. CASE i \in 1 .. Len(ready) /\ ready'[i] = ready[i]
    <3>1. ready[i] \in Nat /\ ready[i] < n
      BY <1>16, <1>19, <2>1
    <3> QED
      BY <1>5, <2>1, <3>1
  <2>2. CASE ready'[i] = item
    BY <1>3, <1>7, <1>19, <2>2
  <2>3. CASE i = Len(ready') /\ ready'[i] = n
    BY <1>5, <2>3
  <2> QED
    BY <1>12, <2>1, <2>2, <2>3
<1>20. ASSUME NEW i \in 1 .. Len(ready'), ready'[i] <= Len(MediaStream)
       PROVE  ready'[i] <= MediaTaken /\ \A j \in 1 .. Len(inside') : ready'[i] < inside'[j]
  BY <1>3, <1>5, <1>6, <1>17, <1>19, <1>20
<1>21. ASSUME NEW i \in 1 .. Len(ready'), NEW j \in 1 .. Len(ready'), i < j,
              ready'[i] <= Len(MediaStream), ready'[j] \in 1 .. Len(MediaStream)
       PROVE  ready'[i] < ready'[j]
  <2>1. CASE j = Len(ready') /\ ready'[j] = n
    BY <1>19, <1>21, <2>1
  <2>2. CASE j \in 1 .. Len(ready) /\ ready'[j] = ready[j]
    <3>1. ready'[i] = item \/ (i \in 1 .. Len(ready) /\ ready'[i] = ready[i])
      <4>1. i # Len(ready')
        BY <1>21
      <4> QED
        BY <1>12, <4>1
    <3>2. ready'[i] # item
      BY <1>3, <1>7, <1>21
    <3> QED
      BY <1>2, <1>21, <2>2, <3>1, <3>2 DEF MediaOrder
  <2>3. ready'[j] # item
    BY <1>3, <1>7, <1>21
  <2> QED
    BY <1>12, <2>1, <2>2, <2>3
<1>22. ASSUME NEW k \in 1 .. Len(mediaGiven)
       PROVE  /\ mediaGiven[k].nth <= MediaTaken
              /\ \A j \in 1 .. Len(inside') : mediaGiven[k].nth < inside'[j]
              /\ \A i \in 1 .. Len(ready') :
                   ready'[i] \in 1 .. Len(MediaStream) => mediaGiven[k].nth < ready'[i]
  <2>1. /\ mediaGiven[k].nth <= MediaTaken /\ \A j \in 1 .. Len(inside) : mediaGiven[k].nth < inside[j]
        /\ \A i \in 1 .. Len(ready) : ready[i] \in 1 .. Len(MediaStream) => mediaGiven[k].nth < ready[i]
    BY <1>2 DEF MediaOrder
  <2>2. mediaGiven[k].nth < n /\ \A j \in 1 .. Len(inside') : mediaGiven[k].nth < inside'[j]
    <3>1. 1 \in 1 .. Len(inside)
      BY <1>5
    <3>2. ASSUME NEW j \in 1 .. Len(inside') PROVE mediaGiven[k].nth < inside'[j]
      <4>1. inside'[j] = inside[j + 1] /\ j + 1 \in 1 .. Len(inside)
        BY <1>5
      <4> QED
        BY <2>1, <4>1
    <3> QED
      BY <1>5, <2>1, <3>1, <3>2
  <2>3. ASSUME NEW i \in 1 .. Len(ready'), ready'[i] \in 1 .. Len(MediaStream)
        PROVE  mediaGiven[k].nth < ready'[i]
    <3>1. ready'[i] # item
      BY <1>3, <1>7, <2>3
    <3>2. CASE i \in 1 .. Len(ready) /\ ready'[i] = ready[i]
      <4>1. mediaGiven[k].nth < ready[i]
        <5>1. ready[i] \in 1 .. Len(MediaStream)
          BY <2>3, <3>2
        <5> QED
          BY <2>1, <3>2, <5>1
      <4> QED
        BY <3>2, <4>1
    <3>3. CASE ready'[i] = n
      BY <2>2, <3>3
    <3> QED
      BY <1>12, <3>1, <3>2, <3>3
  <2> QED
    BY <2>1, <2>2, <2>3
<1>23. Len(mediaInq') <= mediaSent' /\ Follows(mediaInq', MediaTaken')
  BY <1>1, <1>2, <1>15 DEF MediaOrder
<1>24. MediaOrder'
  BY <1>1, <1>5, <1>6, <1>15, <1>17, <1>18, <1>20, <1>21, <1>22, <1>23 DEF MediaOrder
<1>25. CurrentFormat' = CurrentFormat
  BY <1>1 DEF CurrentFormat
<1>26. ASSUME ~(mediaNeeds /\ mediaTold = Media!None)
       PROVE  Kept(ready', CurrentFormat) /\ Under(ready', CurrentFormat, Len(ready') + 1, MediaStream[n])
  <2>1. Kept(longer, CurrentFormat) /\ Under(longer, CurrentFormat, Len(longer) + 1, MediaStream[n])
    BY <1>10, <1>13, <1>26
  <2>2. Kept(Append(longer, n), CurrentFormat)
    BY <1>5, <1>9, <2>1, KeptMore
  <2>3. n <= Len(MediaStream)
    BY <1>6
  <2>4. Under(Append(longer, n), CurrentFormat, Len(Append(longer, n)) + 1, MediaStream[n])
    BY <1>5, <1>9, <2>1, <2>3, EndMore
  <2> QED
    BY <1>8, <2>2, <2>4
<1>27. MediaFormats'
  <2>1. mediaTold' # Media!None => mediaNeeds' /\ mediaTold' = mediaFormat'
    BY <1>1 DEF MediaInv, MediaFormats
  <2>2. mediaCodecFormat' # Media!None
    BY <1>1, <1>7 DEF Media!None
  <2>3. ~(mediaNeeds' /\ mediaTold' = Media!None) => Kept(ready', CurrentFormat')
    BY <1>1, <1>25, <1>26
  <2>4. ~(mediaNeeds' /\ mediaTold' = Media!None)
          => Under(ready', CurrentFormat', Len(ready') + 1, mediaCodecFormat')
    BY <1>1, <1>25, <1>26
  <2> QED
    BY <2>1, <2>2, <2>3, <2>4 DEF MediaFormats, Kept, Under
<1>28. Media!DecodedAsTold'
  BY <1>1 DEF MediaInv, Media!DecodedAsTold
<1> QED
  BY <1>14, <1>24, <1>27, <1>28

\* What the codec gives is taken: its buffers have changed, or
LEMMA MediaShrinks ==
  ASSUME MediaAssumption, MediaInv, ready # <<>>, ready' = Tail(ready),
         UNCHANGED <<mediaSent, mediaInq, inside, codec>>
  PROVE  /\ MediaTaken' = MediaTaken /\ ready' \in Seq(Nat)
         /\ \A i \in 1 .. Len(ready') : ready'[i] = ready[i + 1] /\ i + 1 \in 1 .. Len(ready)
         /\ 1 \in 1 .. Len(ready) /\ Head(ready) = ready[1] /\ Head(ready) \in Nat
         /\ mediaGiven' = mediaGiven => MediaOrder'
<1>1. MediaTypes /\ MediaOrder /\ ready \in Seq(Nat)
  BY DEF MediaInv, MediaTypes
<1>2. /\ ready' \in Seq(Nat) /\ 1 \in 1 .. Len(ready) /\ Head(ready) = ready[1]
      /\ Head(ready) \in Nat
      /\ \A i \in 1 .. Len(ready') : ready'[i] = ready[i + 1] /\ i + 1 \in 1 .. Len(ready)
  BY <1>1, Shorter
<1>3. MediaTaken' = MediaTaken
  BY DEF MediaTaken
<1>4. ASSUME mediaGiven' = mediaGiven PROVE MediaOrder'
  <2>1. ASSUME NEW i \in 1 .. Len(ready'), NEW j \in 1 .. Len(ready'), i < j,
               ready'[i] <= Len(MediaStream), ready'[j] \in 1 .. Len(MediaStream)
        PROVE  ready'[i] < ready'[j]
    <3>1. ready'[i] = ready[i + 1] /\ i + 1 \in 1 .. Len(ready)
      BY <1>2
    <3>2. ready'[j] = ready[j + 1] /\ j + 1 \in 1 .. Len(ready) /\ i + 1 < j + 1
      BY <1>2, <2>1
    <3> QED
      BY <1>1, <2>1, <3>1, <3>2 DEF MediaOrder
  <2>2. ASSUME NEW i \in 1 .. Len(ready'), ready'[i] <= Len(MediaStream)
        PROVE  ready'[i] <= MediaTaken /\ \A j \in 1 .. Len(inside) : ready'[i] < inside[j]
    <3>1. ready'[i] = ready[i + 1] /\ i + 1 \in 1 .. Len(ready)
      BY <1>2
    <3> QED
      BY <1>1, <2>2, <3>1 DEF MediaOrder
  <2>3. ASSUME NEW k \in 1 .. Len(mediaGiven), NEW i \in 1 .. Len(ready'),
               ready'[i] \in 1 .. Len(MediaStream)
        PROVE  mediaGiven[k].nth < ready'[i]
    <3>1. ready'[i] = ready[i + 1] /\ i + 1 \in 1 .. Len(ready)
      BY <1>2
    <3> QED
      BY <1>1, <2>3, <3>1 DEF MediaOrder
  <2>4. Len(mediaInq') <= mediaSent' /\ Follows(mediaInq', MediaTaken')
    BY <1>1, <1>3 DEF MediaOrder
  <2> QED
    BY <1>1, <1>3, <1>4, <2>1, <2>2, <2>3, <2>4 DEF MediaOrder
<1> QED
  BY <1>2, <1>3, <1>4

\* The formats of the rest of the queue.
LEMMA MediaFormatsShrink ==
  ASSUME MediaAssumption, MediaInv, ready # <<>>, ready' = Tail(ready),
         ~mediaNeeds, mediaCodecFormat' = mediaCodecFormat, codec' = codec
  PROVE  /\ Kept(ready', After(ready, mediaKnown))
         /\ codec /\ mediaCodecFormat # Media!None
               => Under(ready', After(ready, mediaKnown), Len(ready') + 1, mediaCodecFormat)
         /\ mediaCodecFormat = Media!None => \A i \in 1 .. Len(ready') : ready'[i] <= Len(MediaStream)
<1>1. ready \in Seq(Nat) /\ mediaCodecFormat \in Nat /\ Len(MediaStream) \in Nat
  BY MediaInputs DEF MediaInv, MediaTypes
<1>2. CurrentFormat = mediaKnown
  BY DEF CurrentFormat
<1>3. Kept(ready, mediaKnown) /\ (codec /\ mediaCodecFormat # Media!None
        => Under(ready, mediaKnown, Len(ready) + 1, mediaCodecFormat))
  BY <1>2 DEF MediaInv, MediaFormats
<1>4. Kept(ready', After(ready, mediaKnown))
  BY <1>1, <1>3, KeptTail
<1>5. ASSUME codec, mediaCodecFormat # Media!None
      PROVE  Under(ready', After(ready, mediaKnown), Len(ready') + 1, mediaCodecFormat)
  <2>1. mediaCodecFormat > 0
    BY <1>1, <1>5 DEF Media!None
  <2> QED
    BY <1>1, <1>3, <1>5, <2>1, EndTail
<1>6. ASSUME mediaCodecFormat = Media!None, NEW i \in 1 .. Len(ready')
      PROVE  ready'[i] <= Len(MediaStream)
  <2>1. ready'[i] = ready[i + 1] /\ i + 1 \in 1 .. Len(ready)
    BY <1>1, Shorter
  <2> QED
    BY <1>6, <2>1 DEF MediaInv, MediaFormats
<1> QED
  BY <1>4, <1>5, <1>6

\* the format has, and the client is told if it can be, or
LEMMA MediaAnnounces ==
  ASSUME MediaAssumption, MediaInv, Media!OutBuffersChanged \/ Media!FormatChanged
  PROVE  MediaTypes' /\ MediaOrder' /\ MediaFormats' /\ Media!DecodedAsTold'
<1>1. /\ ready # <<>> /\ ready' = Tail(ready) /\ ~mediaNeeds /\ at = "out"
      /\ UNCHANGED <<mediaSent, mediaInq, inside, codec, mediaGiven, mediaCodecFormat, mediaKnown>>
  BY DEF Media!OutBuffersChanged, Media!FormatChanged, Media!Asks, Media!clientVars, Media!portVars
<1>2. /\ MediaTaken' = MediaTaken /\ ready' \in Seq(Nat) /\ MediaOrder'
      /\ Head(ready) = ready[1] /\ Head(ready) \in Nat
  BY <1>1, MediaShrinks
<1>3. MediaTypes /\ codec /\ Len(MediaStream) \in Nat /\ mediaKnown \in Nat /\ mediaTold = Media!None
  BY <1>1, MediaInputs DEF MediaInv, MediaTypes, MediaFormats
<1>4. \/ (UNCHANGED <<mediaTold, mediaFormat, mediaNeeds>> /\ Head(ready) = Media!BufsChanged)
      \/ (mediaNeeds' /\ UNCHANGED <<mediaTold, mediaFormat>>)
      \/ (mediaNeeds'
            /\ mediaTold' = Media!Announced /\ mediaFormat' = Media!Announced /\ Head(ready) > Len(MediaStream))
  BY DEF Media!OutBuffersChanged, Media!FormatChanged, Media!clientVars
<1>5. mediaTold' \in Nat /\ mediaFormat' \in Nat
  BY <1>2, <1>3, <1>4 DEF MediaTypes, Media!Announced, Media!None
<1>6. MediaTypes'
  BY <1>1, <1>2, <1>3, <1>5 DEF MediaTypes
<1>7. Media!DecodedAsTold'
  BY <1>1 DEF MediaInv, Media!DecodedAsTold
<1>8. /\ Kept(ready', After(ready, mediaKnown))
      /\ codec /\ mediaCodecFormat # Media!None
            => Under(ready', After(ready, mediaKnown), Len(ready') + 1, mediaCodecFormat)
      /\ mediaCodecFormat = Media!None => \A i \in 1 .. Len(ready') : ready'[i] <= Len(MediaStream)
  BY <1>1, MediaFormatsShrink
<1>9. (mediaNeeds' /\ mediaTold' = Media!None) \/ CurrentFormat' = After(ready, mediaKnown)
  BY <1>1, <1>2, <1>3, <1>4 DEF CurrentFormat, After, Media!Announced, Media!BufsChanged
<1>10. mediaTold' # Media!None => mediaNeeds' /\ mediaTold' = mediaFormat'
  BY <1>3, <1>4
<1>11. ~(mediaNeeds' /\ mediaTold' = Media!None) => Kept(ready', CurrentFormat')
  BY <1>8, <1>9
<1>12. ~(mediaNeeds' /\ mediaTold' = Media!None) /\ codec' /\ mediaCodecFormat' # Media!None
         => Under(ready', CurrentFormat', Len(ready') + 1, mediaCodecFormat')
  BY <1>1, <1>8, <1>9
<1>13. MediaFormats'
  BY <1>1, <1>8, <1>10, <1>11, <1>12 DEF MediaFormats, Kept, Under
<1> QED
  BY <1>2, <1>6, <1>7, <1>13

\* a decoded buffer comes out.
LEMMA MediaGives ==
  ASSUME MediaAssumption, MediaInv, Media!OutGives
  PROVE  MediaTypes' /\ MediaOrder' /\ MediaFormats' /\ Media!DecodedAsTold'
<1> DEFINE G == [nth : Nat, format : Nat]
           g == [nth |-> Head(ready), format |-> mediaKnown]
<1>1. /\ ready # <<>> /\ ready' = Tail(ready) /\ ~mediaNeeds /\ at = "out"
      /\ Head(ready) \in DOMAIN MediaStream
      /\ UNCHANGED <<mediaSent, mediaInq, inside, codec, mediaCodecFormat, mediaKnown, mediaTold,
                     mediaFormat, mediaNeeds>>
  BY DEF Media!OutGives, Media!Asks, Media!portVars
<1>2. mediaGiven' = Append(mediaGiven, g)
  BY DEF Media!OutGives
<1>3. /\ MediaTaken' = MediaTaken /\ ready' \in Seq(Nat)
      /\ \A i \in 1 .. Len(ready') : ready'[i] = ready[i + 1] /\ i + 1 \in 1 .. Len(ready)
      /\ 1 \in 1 .. Len(ready) /\ Head(ready) = ready[1] /\ Head(ready) \in Nat
  BY <1>1, MediaShrinks
<1>4. /\ MediaTypes /\ MediaOrder /\ codec /\ Len(MediaStream) \in Nat /\ mediaKnown \in Nat
      /\ mediaTold = Media!None
      /\ mediaGiven \in Seq(G)
  BY <1>1, MediaInputs DEF MediaInv, MediaTypes, MediaFormats
<1>5. Head(ready) \in 1 .. Len(MediaStream)
  BY <1>1, MediaInputs
<1>6. mediaKnown = MediaStream[Head(ready)]
  <2>1. CurrentFormat = mediaKnown
    BY <1>1 DEF CurrentFormat
  <2>2. Under(ready, mediaKnown, 1, MediaStream[ready[1]])
    BY <1>1, <1>3, <1>5, <2>1 DEF MediaInv, MediaFormats, Kept
  <2>3. 1 .. 1 - 1 = {}
    OBVIOUS
  <2> QED
    BY <1>3, <2>2, <2>3 DEF Under
<1>7. g \in G /\ g.nth = Head(ready) /\ g.format = mediaKnown
  BY <1>3, <1>4
<1>8. \A h \in G : h.nth \in Nat
  OBVIOUS
<1> HIDE DEF G, g
<1>9. /\ mediaGiven' \in Seq(G) /\ Len(mediaGiven) \in Nat /\ Len(mediaGiven') = Len(mediaGiven) + 1
      /\ DOMAIN mediaGiven = 1 .. Len(mediaGiven) /\ DOMAIN mediaGiven' = 1 .. Len(mediaGiven) + 1
      /\ mediaGiven'[Len(mediaGiven) + 1] = g
      /\ \A k \in 1 .. Len(mediaGiven) : mediaGiven'[k] = mediaGiven[k] /\ mediaGiven[k] \in G
  BY <1>2, <1>4, <1>7, Longer
<1>10. ASSUME NEW k \in 1 .. Len(mediaGiven)
       PROVE  /\ mediaGiven[k].nth \in Nat /\ mediaGiven[k].nth <= MediaTaken
              /\ mediaGiven[k].nth < Head(ready)
              /\ \A j \in 1 .. Len(inside) : mediaGiven[k].nth < inside[j]
              /\ \A i \in 1 .. Len(ready) : ready[i] \in 1 .. Len(MediaStream)
                    => mediaGiven[k].nth < ready[i]
  BY <1>3, <1>4, <1>5, <1>8, <1>9 DEF MediaOrder
<1>11. \A k \in 1 .. Len(mediaGiven') : (k = Len(mediaGiven) + 1 /\ mediaGiven'[k] = g)
                                   \/ (k \in 1 .. Len(mediaGiven) /\ mediaGiven'[k] = mediaGiven[k])
  BY <1>9
<1>12. MediaTypes'
  BY <1>1, <1>3, <1>4, <1>9 DEF MediaTypes, G
<1>13. Head(ready) <= MediaTaken /\ \A j \in 1 .. Len(inside) : Head(ready) < inside[j]
  <2>1. ready[1] <= Len(MediaStream)
    BY <1>3, <1>5
  <2> QED
    BY <1>3, <1>4, <2>1 DEF MediaOrder
<1>14. ASSUME NEW i \in 1 .. Len(ready'), ready'[i] \in 1 .. Len(MediaStream)
       PROVE  Head(ready) < ready'[i]
  <2>1. ready'[i] = ready[i + 1] /\ i + 1 \in 1 .. Len(ready) /\ 1 < i + 1
    BY <1>3
  <2>2. ready[1] <= Len(MediaStream)
    BY <1>3, <1>5
  <2> QED
    BY <1>3, <1>4, <1>14, <2>1, <2>2 DEF MediaOrder
<1>15. ASSUME NEW k \in 1 .. Len(mediaGiven')
       PROVE  /\ mediaGiven'[k].nth <= MediaTaken
              /\ \A j \in 1 .. Len(inside) : mediaGiven'[k].nth < inside[j]
              /\ \A i \in 1 .. Len(ready') : ready'[i] \in 1 .. Len(MediaStream)
                    => mediaGiven'[k].nth < ready'[i]
  <2>1. CASE mediaGiven'[k] = g
    BY <1>7, <1>13, <1>14, <2>1
  <2>2. CASE k \in 1 .. Len(mediaGiven) /\ mediaGiven'[k] = mediaGiven[k]
    BY <1>3, <1>10, <2>2
  <2> QED
    BY <1>11, <2>1, <2>2
<1>16. ASSUME NEW i \in 1 .. Len(ready'), ready'[i] <= Len(MediaStream)
       PROVE  ready'[i] <= MediaTaken /\ \A j \in 1 .. Len(inside) : ready'[i] < inside[j]
  BY <1>3, <1>4, <1>16 DEF MediaOrder
<1>17. ASSUME NEW i \in 1 .. Len(ready'), NEW j \in 1 .. Len(ready'), i < j,
              ready'[i] <= Len(MediaStream), ready'[j] \in 1 .. Len(MediaStream)
       PROVE  ready'[i] < ready'[j]
  <2>1. ready'[i] = ready[i + 1] /\ i + 1 \in 1 .. Len(ready)
    BY <1>3
  <2>2. ready'[j] = ready[j + 1] /\ j + 1 \in 1 .. Len(ready) /\ i + 1 < j + 1
    BY <1>3, <1>17
  <2> QED
    BY <1>4, <1>17, <2>1, <2>2 DEF MediaOrder
<1>18. Len(mediaInq') <= mediaSent' /\ Follows(mediaInq', MediaTaken')
  BY <1>1, <1>3, <1>4 DEF MediaOrder
<1>19. MediaOrder'
  BY <1>1, <1>3, <1>4, <1>15, <1>16, <1>17, <1>18 DEF MediaOrder
<1>20. Media!DecodedAsTold'
  <2>1. \A k \in 1 .. Len(mediaGiven') : mediaGiven'[k].format = MediaStream[mediaGiven'[k].nth]
    BY <1>6, <1>7, <1>9, <1>11 DEF MediaInv, Media!DecodedAsTold
  <2>2. ASSUME NEW i \in 1 .. Len(mediaGiven'), NEW j \in 1 .. Len(mediaGiven'), i < j
        PROVE  mediaGiven'[i].nth < mediaGiven'[j].nth
    <3>1. CASE j = Len(mediaGiven) + 1 /\ mediaGiven'[j] = g
      <4>1. i \in 1 .. Len(mediaGiven) /\ mediaGiven'[i] = mediaGiven[i]
        BY <1>9, <2>2, <3>1
      <4> QED
        BY <1>7, <1>10, <3>1, <4>1
    <3>2. CASE j \in 1 .. Len(mediaGiven) /\ mediaGiven'[j] = mediaGiven[j]
      <4>1. i \in 1 .. Len(mediaGiven) /\ mediaGiven'[i] = mediaGiven[i]
        BY <1>9, <2>2, <3>2
      <4> QED
        BY <1>9, <2>2, <3>2, <4>1 DEF MediaInv, Media!DecodedAsTold
    <3> QED
      BY <1>11, <3>1, <3>2
  <2> QED
    BY <1>9, <2>1, <2>2 DEF Media!DecodedAsTold
<1>21. MediaFormats'
  <2>1. /\ Kept(ready', After(ready, mediaKnown))
        /\ codec /\ mediaCodecFormat # Media!None
              => Under(ready', After(ready, mediaKnown), Len(ready') + 1, mediaCodecFormat)
        /\ mediaCodecFormat = Media!None => \A i \in 1 .. Len(ready') : ready'[i] <= Len(MediaStream)
    BY <1>1, MediaFormatsShrink
  <2>2. After(ready, mediaKnown) = mediaKnown /\ CurrentFormat' = mediaKnown
    BY <1>1, <1>3, <1>4, <1>5 DEF After, CurrentFormat
  <2> QED
    BY <1>1, <1>4, <2>1, <2>2 DEF MediaFormats, Kept, Under
<1> QED
  BY <1>12, <1>19, <1>20, <1>21

LEMMA MediaMoves ==
  ASSUME MediaAssumption, MediaInv, Media!MCNext \/ UNCHANGED Media!mcvars PROVE MediaInv'
<1>1. MediaTypes' /\ MediaOrder' /\ MediaFormats' /\ Media!DecodedAsTold'
  BY MediaWaits, MediaSend, MediaFlushes, MediaRestarts, MediaTakes, MediaDecodes, MediaAnnounces,
     MediaGives DEF Media!MCNext, Media!MCAction, Media!MCCodec
<1> QED
  BY <1>1, MediaRequests DEF MediaInv

-----------------------------------------------------------------------------
(* AvcodecDecode: the frame that waits has the codec's format.               *)

DecoderAssumption ==
  /\ Format \in Seq(Nat)
  /\ DecoderStream \in Seq([units : Seq(Decoder!Frames), eos : BOOLEAN])

DecoderTypes ==
  /\ sent \in Nat /\ sent <= Len(DecoderStream)
  /\ inq \in Seq([nth : Nat, units : Seq(Decoder!Frames)])
  /\ decoderHeld \in Seq(Decoder!Frames) /\ picture \in Decoder!Frames \cup {Decoder!None}
  /\ \E S : decoderGiven \in Seq(S)

DecoderFormats == picture # Decoder!None => codecFormat = Format[picture]

DecoderInv == DecoderTypes /\ DecoderFormats /\ Decoder!FormatKnown

LEMMA DecoderInputs ==
  ASSUME DecoderAssumption
  PROVE  /\ Len(DecoderStream) \in Nat
         /\ \A n \in 1 .. Len(DecoderStream) : DecoderStream[n].units \in Seq(Decoder!Frames)
         /\ Decoder!None \notin Decoder!Frames
<1> DEFINE B == [units : Seq(Decoder!Frames), eos : BOOLEAN]
<1>1. DecoderStream \in Seq(B)
  BY DEF DecoderAssumption
<1>2. \A b \in B : b.units \in Seq(Decoder!Frames)
  OBVIOUS
<1> HIDE DEF B
<1>3. Len(DecoderStream) \in Nat /\ \A n \in 1 .. Len(DecoderStream) : DecoderStream[n] \in B
  BY <1>1
<1>4. Decoder!None \notin Decoder!Frames
  BY DEF DecoderAssumption, Decoder!Frames, Decoder!None
<1> QED
  BY <1>2, <1>3, <1>4

LEMMA DecoderStarts ==
  ASSUME DecoderAssumption, Decoder!AInit PROVE DecoderInv
<1>1. /\ sent = 0 /\ inq = <<>> /\ decoderHeld = <<>> /\ picture = Decoder!None
      /\ decoderGiven = <<>>
  BY DEF Decoder!AInit
<1>2. DecoderTypes
  BY <1>1, Nothing, DecoderInputs DEF DecoderTypes
<1>3. DecoderFormats /\ Decoder!FormatKnown
  BY <1>1, Nothing DEF DecoderFormats, Decoder!FormatKnown
<1> QED
  BY <1>2, <1>3 DEF DecoderInv

\* A record is added to what came out.
LEMMA DecoderAdds ==
  ASSUME DecoderInv, NEW g, decoderGiven' = Append(decoderGiven, g),
         g.frame # Decoder!None => g.format = Format[g.frame]
  PROVE  (\E S : decoderGiven' \in Seq(S)) /\ Decoder!FormatKnown'
<1>1. PICK S : decoderGiven \in Seq(S)
  BY DEF DecoderInv, DecoderTypes
<1>2. decoderGiven \in Seq(S \cup {g}) /\ g \in S \cup {g}
  BY <1>1
<1> DEFINE T == S \cup {g}
<1> HIDE DEF T
<1>3. decoderGiven \in Seq(T) /\ g \in T
  BY <1>2 DEF T
<1>4. /\ decoderGiven' \in Seq(T) /\ Len(decoderGiven) \in Nat
      /\ DOMAIN decoderGiven = 1 .. Len(decoderGiven)
      /\ DOMAIN decoderGiven' = 1 .. Len(decoderGiven) + 1
      /\ decoderGiven'[Len(decoderGiven) + 1] = g
      /\ \A k \in 1 .. Len(decoderGiven) : decoderGiven'[k] = decoderGiven[k]
  BY <1>3, Longer
<1>5. ASSUME NEW k \in 1 .. Len(decoderGiven) + 1, decoderGiven'[k].frame # Decoder!None
      PROVE  decoderGiven'[k].format = Format[decoderGiven'[k].frame]
  <2>1. CASE k = Len(decoderGiven) + 1
    BY <1>4, <1>5, <2>1
  <2>2. CASE k # Len(decoderGiven) + 1
    <3>1. k \in 1 .. Len(decoderGiven)
      BY <1>4, <2>2
    <3> QED
      BY <1>4, <1>5, <3>1 DEF DecoderInv, Decoder!FormatKnown
  <2> QED
    BY <2>1, <2>2
<1> QED
  BY <1>4, <1>5 DEF Decoder!FormatKnown

LEMMA DecoderWaits ==
  ASSUME DecoderAssumption, DecoderInv,
         \/ Decoder!Trigger \/ Decoder!SendOut \/ Decoder!DisableOut \/ Decoder!SetFormat
         \/ Decoder!Start \/ Decoder!NothingToSend \/ Decoder!FormatChanged
         \/ Decoder!SendWaits \/ Decoder!SendPictureFails \/ Decoder!NoInput \/ Decoder!Flush
         \/ UNCHANGED Decoder!avvars
  PROVE  DecoderInv'
<1> USE DEF Decoder!Trigger, Decoder!SendOut, Decoder!DisableOut, Decoder!SetFormat, Decoder!Start,
    Decoder!NothingToSend, Decoder!FormatChanged, Decoder!SendWaits,
            Decoder!SendPictureFails, Decoder!NoInput, Decoder!Flush, Decoder!avvars
<1>1. UNCHANGED <<sent, decoderHeld, picture, codecFormat, decoderGiven>>
  OBVIOUS
<1>2. inq' = inq \/ inq' = <<>>
  OBVIOUS
<1>3. inq' \in Seq([nth : Nat, units : Seq(Decoder!Frames)])
  BY <1>2, Nothing DEF DecoderInv, DecoderTypes
<1> QED
  BY <1>1, <1>3 DEF DecoderInv, DecoderTypes, DecoderFormats, Decoder!FormatKnown

LEMMA DecoderSend ==
  ASSUME DecoderAssumption, DecoderInv, Decoder!SendIn PROVE DecoderInv'
<1> DEFINE I == [nth : Nat, units : Seq(Decoder!Frames)]
           i == [nth |-> sent', units |-> DecoderStream[sent'].units]
<1>1. /\ sent < Len(DecoderStream) /\ sent' = sent + 1 /\ inq' = Append(inq, i)
      /\ UNCHANGED <<decoderHeld, picture, codecFormat, decoderGiven>>
  BY DEF Decoder!SendIn
<1>2. sent \in Nat /\ Len(DecoderStream) \in Nat /\ inq \in Seq(I)
  BY DecoderInputs DEF DecoderInv, DecoderTypes
<1>3. sent' \in Nat /\ sent' \in 1 .. Len(DecoderStream) /\ sent' <= Len(DecoderStream)
  BY <1>1, <1>2
<1>4. i \in I
  BY <1>3, DecoderInputs
<1> HIDE DEF I, i
<1>5. inq' \in Seq(I)
  BY <1>1, <1>2, <1>4, Longer
<1> QED
  BY <1>1, <1>3, <1>5 DEF I, DecoderInv, DecoderTypes, DecoderFormats, Decoder!FormatKnown

\* A frame is sent, or a part of it.
LEMMA DecoderSends ==
  ASSUME DecoderAssumption, DecoderInv, Decoder!SendPicture \/ Decoder!SendSamples PROVE DecoderInv'
<1>1. /\ UNCHANGED <<sent, inq, decoderHeld, codecFormat>> /\ picture' \in {picture, Decoder!None}
      /\ picture # Decoder!None /\ codecFormat = format
  BY DEF Decoder!SendPicture, Decoder!SendSamples, Decoder!Sends
<1>2. \E g : decoderGiven' = Append(decoderGiven, g) /\ g.frame = picture /\ g.format = format
  <2>1. CASE Decoder!SendPicture
    <3> DEFINE g == [frame |-> picture, pts |-> Decoder!Time(picture), format |-> format]
    <3>1. decoderGiven' = Append(decoderGiven, g) /\ g.frame = picture /\ g.format = format
      BY <2>1 DEF Decoder!SendPicture
    <3> QED
      BY <3>1
  <2>2. CASE Decoder!SendSamples
    <3>1. PICK n, p : decoderGiven' = Append(decoderGiven, [frame |-> picture, format |-> format, samples |-> n,
                                              pts |-> p])
      BY <2>2, Zenon DEF Decoder!SendSamples
    <3> DEFINE g == [frame |-> picture, format |-> format, samples |-> n, pts |-> p]
    <3>2. decoderGiven' = Append(decoderGiven, g) /\ g.frame = picture /\ g.format = format
      BY <3>1
    <3> QED
      BY <3>2
  <2> QED
    BY <2>1, <2>2
<1>3. PICK g : decoderGiven' = Append(decoderGiven, g) /\ g.frame = picture /\ g.format = format
  BY <1>2
<1>4. (\E S : decoderGiven' \in Seq(S)) /\ Decoder!FormatKnown'
  BY <1>1, <1>3, DecoderAdds DEF DecoderInv, DecoderFormats
<1> QED
  BY <1>1, <1>4 DEF DecoderInv, DecoderTypes, DecoderFormats

\* The first input buffer goes back, or is returned, with EOS or without.
LEMMA DecoderFinishes ==
  ASSUME DecoderAssumption, DecoderInv, inq # <<>>, NEW rest \in Seq(Decoder!Frames), NEW gave,
         Decoder!Finish(Head(inq).nth, rest, gave)
  PROVE  /\ inq' \in Seq([nth : Nat, units : Seq(Decoder!Frames)])
         /\ (\E S : decoderGiven' \in Seq(S)) /\ Decoder!FormatKnown'
<1> DEFINE I == [nth : Nat, units : Seq(Decoder!Frames)]
           i == [nth |-> Head(inq).nth, units |-> rest]
<1>1. inq \in Seq(I)
  BY DEF DecoderInv, DecoderTypes
<1>2. \A x \in I : x.nth \in Nat
  OBVIOUS
<1>3. i \in I
  <2> HIDE DEF I
  <2>1. Head(inq) \in I
    BY <1>1, Shorter
  <2>2. Head(inq).nth \in Nat
    BY <1>2, <2>1
  <2> QED
    BY <2>2 DEF I
<1>4. \/ inq' = Tail(inq)
      \/ inq' = <<i>> \o Tail(inq)
  BY DEF Decoder!Finish, Decoder!PutBack, Decoder!Return, Decoder!SendEos
<1>5. decoderGiven' = decoderGiven \/ decoderGiven' = Append(decoderGiven, [frame |-> Decoder!None, pts |-> 0])
  BY DEF Decoder!Finish, Decoder!PutBack, Decoder!Return, Decoder!SendEos
<1> HIDE DEF I, i
<1>6. inq' \in Seq(I)
  <2>1. Tail(inq) \in Seq(I)
    BY <1>1, Shorter
  <2>2. <<i>> \in Seq(I)
    BY <1>3
  <2>3. <<i>> \o Tail(inq) \in Seq(I)
    BY <2>1, <2>2
  <2> QED
    BY <1>4, <2>1, <2>3
<1>7. (\E S : decoderGiven' \in Seq(S)) /\ Decoder!FormatKnown'
  <2>1. CASE decoderGiven' = decoderGiven
    BY <2>1 DEF DecoderInv, DecoderTypes, Decoder!FormatKnown
  <2>2. CASE decoderGiven' = Append(decoderGiven, [frame |-> Decoder!None, pts |-> 0])
    <3> DEFINE e == [frame |-> Decoder!None, pts |-> 0]
    <3>1. e.frame = Decoder!None /\ decoderGiven' = Append(decoderGiven, e)
      BY <2>2
    <3> HIDE DEF e
    <3> QED
      BY <3>1, DecoderAdds
  <2> QED
    BY <1>5, <2>1, <2>2
<1> QED
  BY <1>6, <1>7 DEF I

LEMMA DecoderHead ==
  ASSUME DecoderInv, inq # <<>>
  PROVE  /\ Head(inq).units \in Seq(Decoder!Frames) /\ <<>> \in Seq(Decoder!Frames)
         /\ Head(inq).units # <<>> => /\ Tail(Head(inq).units) \in Seq(Decoder!Frames)
                                      /\ Head(Head(inq).units) \in Decoder!Frames
<1> DEFINE I == [nth : Nat, units : Seq(Decoder!Frames)]
<1>1. inq \in Seq(I)
  BY DEF DecoderInv, DecoderTypes
<1>2. \A x \in I : x.units \in Seq(Decoder!Frames)
  OBVIOUS
<1> HIDE DEF I
<1>3. Head(inq).units \in Seq(Decoder!Frames)
  BY <1>1, <1>2, Shorter
<1> QED
  BY <1>3, Shorter, Nothing

\* A unit is decoded, or cannot be, or the buffer was empty.
LEMMA DecoderDecodes ==
  ASSUME DecoderAssumption, DecoderInv, Decoder!DecodeNext \/ Decoder!DecodeFails \/ Decoder!Discard
  PROVE  DecoderInv'
<1> DEFINE units == Head(inq).units
           rest == IF units = <<>> THEN <<>> ELSE Tail(units)
<1>1. inq # <<>> /\ sent' = sent
  BY DEF Decoder!DecodeNext, Decoder!DecodeFails, Decoder!Discard, Decoder!Input
<1>2. /\ units \in Seq(Decoder!Frames) /\ <<>> \in Seq(Decoder!Frames)
      /\ rest \in Seq(Decoder!Frames)
      /\ units # <<>> => Head(units) \in Decoder!Frames
  BY <1>1, DecoderHead
<1>3. \E r \in Seq(Decoder!Frames) : \E gave : Decoder!Finish(Head(inq).nth, r, gave)
  <2>1. CASE Decoder!DecodeNext
    BY <1>2, <2>1, Zenon DEF Decoder!DecodeNext
  <2>2. CASE Decoder!DecodeFails \/ Decoder!Discard
    BY <1>2, <2>2, Zenon DEF Decoder!DecodeFails, Decoder!Discard
  <2> QED
    BY <2>1, <2>2
<1>4. /\ inq' \in Seq([nth : Nat, units : Seq(Decoder!Frames)])
      /\ (\E S : decoderGiven' \in Seq(S)) /\ Decoder!FormatKnown'
  BY <1>1, <1>3, DecoderFinishes
<1>5. /\ decoderHeld' \in Seq(Decoder!Frames) /\ picture' \in Decoder!Frames \cup {Decoder!None}
      /\ picture' # Decoder!None => codecFormat' = Format[picture']
  <2>1. CASE Decoder!DecodeNext
    <3>1. Decoder!Decode(units)
      BY <2>1 DEF Decoder!DecodeNext
    <3> HIDE DEF units
    <3>2. decoderHeld \in Seq(Decoder!Frames) /\ picture \in Decoder!Frames \cup {Decoder!None}
          /\ (picture # Decoder!None => codecFormat = Format[picture])
      BY DEF DecoderInv, DecoderTypes, DecoderFormats
    <3>3. Decoder!Fed(units) \in Seq(Decoder!Frames)
      BY <1>2, <3>2, Longer DEF Decoder!Fed
    <3>4. CASE Decoder!Gives(units)
      <4>1. Decoder!Fed(units) # <<>>
        BY <3>4 DEF Decoder!Gives
      <4>2. Head(Decoder!Fed(units)) \in Decoder!Frames /\ Tail(Decoder!Fed(units)) \in Seq(Decoder!Frames)
        BY <3>3, <4>1, Shorter
      <4>3. /\ decoderHeld' = Tail(Decoder!Fed(units)) /\ picture' = Head(Decoder!Fed(units))
            /\ codecFormat' = Format[Head(Decoder!Fed(units))]
        BY <3>1, <3>4 DEF Decoder!Decode
      <4> QED
        BY <4>2, <4>3
    <3>5. CASE ~Decoder!Gives(units)
      BY <3>1, <3>2, <3>3, <3>5 DEF Decoder!Decode
    <3> QED
      BY <3>4, <3>5
  <2>2. CASE Decoder!DecodeFails \/ Decoder!Discard
    BY <2>2 DEF Decoder!DecodeFails, Decoder!Discard, DecoderInv, DecoderTypes, DecoderFormats
  <2> QED
    BY <2>1, <2>2
<1> QED
  BY <1>1, <1>4, <1>5 DEF DecoderInv, DecoderTypes, DecoderFormats

LEMMA DecoderMoves ==
  ASSUME DecoderAssumption, DecoderInv, Decoder!AvNext \/ UNCHANGED Decoder!avvars PROVE DecoderInv'
BY DecoderWaits, DecoderSend, DecoderSends, DecoderDecodes DEF Decoder!AvNext, Decoder!Action

-----------------------------------------------------------------------------
(* AudioSink: only a port whose track was made is enabled.                   *)

SinkInv == ~noTrack /\ (sinkEnabled => track)

LEMMA SinkMoves ==
  ASSUME ~EnableAnyway, SinkInv, Sink!ASNext \/ UNCHANGED Sink!asvars
  PROVE  SinkInv'
<1> USE DEF SinkInv, Sink!deviceVars, Sink!trackVars, Sink!clientVars, Sink!dataVars
<1>1. CASE Sink!Commit
  BY <1>1 DEF Sink!Commit
<1>2. CASE Sink!Enable
  BY <1>2 DEF Sink!Enable
<1>3. CASE Sink!Send
  BY <1>3 DEF Sink!Send
<1>4. CASE Sink!Queued
  BY <1>4 DEF Sink!Queued
<1>5. CASE Sink!Flush
  BY <1>5 DEF Sink!Flush
<1>6. CASE Sink!Disable
  BY <1>6 DEF Sink!Disable
<1>7. CASE Sink!Drain
  BY <1>7 DEF Sink!Drain
<1>8. CASE Sink!Zero
  BY <1>8 DEF Sink!Zero
<1>9. CASE Sink!Restart
  BY <1>9 DEF Sink!Restart
<1>10. CASE Sink!DisableWait
  BY <1>10 DEF Sink!DisableWait
<1>11. CASE Sink!Scale
  BY <1>11 DEF Sink!Scale
<1>12. CASE Sink!Call
  BY <1>12 DEF Sink!Call
<1>13. CASE Sink!Take
  BY <1>13 DEF Sink!Take
<1>14. CASE Sink!Play
  BY <1>14 DEF Sink!Play
<1>15. CASE Sink!Counted
  BY <1>15 DEF Sink!Counted
<1>16. CASE UNCHANGED Sink!asvars
  BY <1>16 DEF Sink!asvars
<1> QED
  BY <1>1, <1>2, <1>3, <1>4, <1>5, <1>6, <1>7, <1>8, <1>9, <1>10, <1>11, <1>12, <1>13, <1>14,
      <1>15, <1>16 DEF Sink!ASNext

-----------------------------------------------------------------------------
(* The parts together.                                                       *)

\* What the parts are given to play.
ASSUME MCPlayersConstants ==
  CopyAssumption /\ RenderAssumption /\ MediaAssumption /\ DecoderAssumption

FormatsInv == DecoderInv /\ CopyInv /\ SinkInv /\ RenderInv /\ MediaInv /\ Commands!OmxInv

LEMMA PartsStart ==
  ASSUME Commands!OmxAssumption, Init
  PROVE  FormatsInv
<1>1. SinkInv
  BY DEF Init, Sink!ASInit, SinkInv
<1>2. DecoderInv /\ CopyInv /\ RenderInv /\ MediaInv
  BY MCPlayersConstants, DecoderStarts, CopyStarts, RenderStarts, MediaStarts DEF Init
<1>3. Commands!OmxInv
  BY Commands!OmxStarts DEF Init
<1> QED
  BY <1>1, <1>2, <1>3 DEF FormatsInv

\* A step of one part leaves the others.
LEMMA PartsMove ==
  ASSUME [Next]_vars
  PROVE  /\ Decoder!AvNext \/ UNCHANGED Decoder!avvars
         /\ Copy!FNext \/ UNCHANGED Copy!fvars
         /\ Sink!ASNext \/ UNCHANGED Sink!asvars
         /\ Render!FRNext \/ UNCHANGED Render!frvars
         /\ Media!MCNext \/ UNCHANGED Media!mcvars
         /\ Commands!ONext \/ UNCHANGED Commands!ovars
<1>1. /\ Decoder!AvNext \/ UNCHANGED decoderVars
      /\ Copy!FNext \/ UNCHANGED copyVars
      /\ Sink!ASNext \/ UNCHANGED sinkVars
      /\ Render!FRNext \/ UNCHANGED renderVars
      /\ Media!MCNext \/ UNCHANGED mediaVars
      /\ Commands!ONext \/ UNCHANGED commandsVars
  BY DEF Next, vars, CommandsStep, ReaderStep, DecoderStep, CopyStep, SinkStep, RenderStep,
         MediaStep
<1>2. UNCHANGED decoderVars => UNCHANGED Decoder!avvars
  BY DEF decoderVars, Decoder!avvars, Decoder!stamps, Decoder!avcounts
<1>3. UNCHANGED copyVars => UNCHANGED Copy!fvars
  BY DEF copyVars, Copy!fvars, Copy!formats
<1>4. UNCHANGED sinkVars => UNCHANGED Sink!asvars
  BY DEF sinkVars, Sink!asvars, Sink!deviceVars, Sink!trackVars, Sink!clientVars, Sink!dataVars
<1>5. UNCHANGED renderVars => UNCHANGED Render!frvars
  BY DEF renderVars, Render!frvars, Render!rates, Render!queues
<1>6. UNCHANGED mediaVars => UNCHANGED Media!mcvars
  BY DEF mediaVars, Media!mcvars, Media!portVars, Media!codecVars, Media!clientVars
<1>7. UNCHANGED commandsVars => UNCHANGED Commands!ovars
  BY DEF commandsVars, Commands!ovars, Commands!portVars, Commands!mmalVars, Commands!seenVars
<1> QED
  BY <1>1, <1>2, <1>3, <1>4, <1>5, <1>6, <1>7

LEMMA PartsKeep ==
  ASSUME Commands!OmxAssumption, ~EnableAnyway, FormatsInv, [Next]_vars
  PROVE  FormatsInv'
<1>1. DecoderInv'
  BY MCPlayersConstants, PartsMove, DecoderMoves DEF FormatsInv
<1>2. CopyInv'
  BY MCPlayersConstants, PartsMove, CopyMoves DEF FormatsInv
<1>3. SinkInv'
  BY PartsMove, SinkMoves DEF FormatsInv
<1>4. RenderInv'
  BY MCPlayersConstants, PartsMove, RenderMoves DEF FormatsInv
<1>5. MediaInv'
  BY MCPlayersConstants, PartsMove, MediaMoves DEF FormatsInv
<1>6. Commands!OmxInv'
  BY PartsMove, Commands!OmxMoves DEF FormatsInv
<1> QED
  BY <1>1, <1>2, <1>3, <1>4, <1>5, <1>6 DEF FormatsInv

\* What comes out of a decoder, the copy or the renderers is in a format the
\* client was told of before, whatever is sent and however the threads
\* interleave; the client does not enable the port of a renderer whose track
\* could not be made. And an OpenMAX IL component with one port takes one
\* command at a time and never lacks a header for a buffer (state_set,
\* mmalomx_buffer_send).
THEOREM FormatTheorem ==
  ASSUME Commands!OmxAssumption, ~EnableAnyway
  PROVE  Spec => []FormatKnown
<1>1. Init => FormatsInv
  BY PartsStart
<1>2. FormatsInv /\ [Next]_vars => FormatsInv'
  BY PartsKeep
<1>3. FormatsInv => FormatKnown
  <2>1. Commands!OmxInv => Commands!OneTransition /\ Commands!NeverShort
    BY Commands!OmxOneTransition DEF Commands!OmxInv
  <2>2. DecoderInv => Decoder!FormatKnown
    BY DEF DecoderInv
  <2>3. CopyInv => Copy!FormatKnown
    BY DEF CopyInv
  <2>4. SinkInv => Sink!TrackThere
    BY DEF SinkInv, Sink!TrackThere
  <2>5. RenderInv => Render!RateKnown
    BY DEF RenderInv
  <2>6. MediaInv => Media!DecodedAsTold /\ Media!RequestStands
    BY DEF MediaInv
  <2> QED
    BY <2>1, <2>2, <2>3, <2>4, <2>5, <2>6 DEF FormatsInv, FormatKnown
<1> QED
  BY <1>1, <1>2, <1>3, PTL DEF Spec

\* The copy and the renderers give what they were sent in its order and drop
\* none of it without an error, for any input, any number of output headers
\* and any interleaving.
THEOREM OrderTheorem ==
  Spec => [](Copy!CopiedInOrder /\ Render!RenderedInOrder)
<1> DEFINE Inv == CopyInv /\ RenderInv
<1>1. Init => Inv
  BY MCPlayersConstants, CopyStarts, RenderStarts DEF Init
<1>2. Inv /\ [Next]_vars => Inv'
  BY MCPlayersConstants, PartsMove, CopyMoves, RenderMoves
<1>3. Inv => Copy!CopiedInOrder /\ Render!RenderedInOrder
  BY DEF CopyInv, RenderInv
<1> QED
  BY <1>1, <1>2, <1>3, PTL DEF Spec

\* The completion of a command (OMX_EventCmdComplete) is reported when what it
\* asked for is done: the port flushed, populated and enabled, or emptied and
\* disabled, and for a transition all that its row of the table asks for;
\* whichever thread carried the actions out, unless MMAL failed.
THEOREM CompletionTheorem ==
  ASSUME Commands!OmxAssumption
  PROVE  Spec => CompleteWhenDone
<1> DEFINE Reported ==
      \A a \in Commands!Answers : owed'[a] < owed[a] /\ told'.ok /\ failures = 0 =>
        \A p \in IF a[2] = 0 THEN Commands!Ports ELSE {a[2]} : Commands!CompleteFor(a[1], p)
<1>1. Init => Commands!OmxInv
  BY Commands!OmxStarts DEF Init
<1>2. Commands!OmxInv /\ [Next]_vars => Commands!OmxInv'
  BY PartsMove, Commands!OmxMoves
<1>3. Commands!OmxInv /\ [Next]_vars => [Reported]_Commands!ovars
  BY PartsMove, Commands!OmxReports
<1> QED
  BY <1>1, <1>2, <1>3, PTL DEF Spec, CompleteWhenDone, Commands!CompleteWhenDone

=============================================================================
