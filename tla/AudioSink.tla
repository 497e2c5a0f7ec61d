------------------------------ MODULE AudioSink ------------------------------
(***************************************************************************)
(* The audio renderers aaf_audio_render.cpp (kind "aaf") and               *)
(* sdl_audio_render.c (kind "sdl").  The device's thread calls back for    *)
(* bytes and takes them from the queue; the client sends, flushes and      *)
(* disables; the clock port starts and pauses the track.                   *)
(***************************************************************************)
EXTENDS Integers, Sequences, SequencesExt, FiniteSets

CONSTANTS
  Stream,      \* the buffers to send: [len, eos]
  Ask,         \* bytes the device asks for at a time
  Wrap,        \* bytes_queued counts modulo this
  StopWaits,   \* AudioTrack::stop returns when no callback runs (external)
  FlushAnytime,\* a flush of aaf may meet a callback: the code has nothing against it
  EnableAnyway,\* a client enables the port though the track could not be made
  MaxFlushes, MaxScales, MaxTrackFails, MaxDisables \* bounds

VARIABLES
  kind, track,  \* the component; module->track is there
  enabled,      \* is_enabled of the port
  state,        \* "stopped", "paused", "running"
  scale,        \* the clock's scale is one
  queue,        \* numbers of the queued buffers
  left,         \* bytes left in each buffer
  counted,      \* bytes_queued
  sent,         \* buffers sent so far
  sending,      \* mmal_port_send: the buffer counted and not yet queued, or 0
  device,       \* the callback: "idle", "take", "play", "count"
  hand, space, taken, \* its buffer (0: none), the room and trackbuf->size
  client,       \* "idle", "drain", "zero", "restart" (flush), "wait" (disable)
  played,       \* buffers in the order their bytes went to the device
  back,         \* buffers returned
  eosSent, noTrack, \* the EOS event was sent; the track was used when NULL
  done          \* [flushes, scales, fails, disables]

deviceVars == <<device, hand, space, taken>>
trackVars == <<kind, track, state, scale>>
clientVars == <<enabled, client, sent, sending, noTrack, done>>
dataVars == <<queue, left, counted, played, back, eosSent>>
asvars == <<deviceVars, trackVars, clientVars, dataVars>>

ASInit ==
  /\ kind \in {"aaf", "sdl"} /\ track = FALSE /\ enabled = FALSE
  /\ state = "stopped" /\ scale = TRUE
  /\ queue = <<>> /\ left = [b \in DOMAIN Stream |-> Stream[b].len]
  /\ counted = 0 /\ sent = 0 /\ sending = 0
  /\ device = "idle" /\ hand = 0 /\ space = 0 /\ taken = 0
  /\ client = "idle" /\ played = <<>> /\ back = {} /\ eosSent = FALSE /\ noTrack = FALSE
  /\ done = [flushes |-> 0, scales |-> 0, fails |-> 0, disables |-> 0]

Count(what) == done' = [done EXCEPT ![what] = @ + 1]
SmallerOf(a, b) == IF a < b THEN a ELSE b

\* aaf_track_state_update; SDL_PauseAudio for sdl, which has no clock.
StateFor(on, one) ==
  IF ~on THEN "stopped" ELSE IF one \/ kind = "sdl" THEN "running" ELSE "paused"

-----------------------------------------------------------------------------
(* The client                                                              *)

\* port_set_format: a track, or an opened device, for the new format.
Commit ==
  /\ client = "idle" /\ ~enabled /\ ~track
  /\ \/ track' = TRUE /\ UNCHANGED done
     \/ done.fails < MaxTrackFails /\ Count("fails") /\ UNCHANGED track
  /\ UNCHANGED <<kind, state, scale, enabled, client, sent, sending, noTrack, deviceVars, dataVars>>

\* port_enable: aaf asks for a track only if the format is not the one it
\* copied before it failed to make one.
Enable ==
  /\ client = "idle" /\ ~enabled /\ done.disables < MaxDisables
  /\ track \/ EnableAnyway
  /\ enabled' = TRUE
  /\ state' = IF track THEN StateFor(TRUE, scale) ELSE state
  /\ UNCHANGED <<kind, track, scale, client, sent, sending, noTrack, done, deviceVars, dataVars>>

\* port_send of aaf counts the bytes with its lock and then queues the buffer;
\* sdl only queues it.
Send ==
  /\ client = "idle" /\ enabled /\ sending = 0 /\ sent < Len(Stream)
  /\ sent' = sent + 1 /\ sending' = sent + 1
  /\ counted' = IF kind = "aaf" THEN (counted + Stream[sent + 1].len) % Wrap ELSE counted
  /\ noTrack' = (noTrack \/ ~track)
  /\ UNCHANGED <<enabled, client, done, trackVars, deviceVars, queue, left, played, back, eosSent>>

Queued ==
  /\ sending # 0
  /\ queue' = Append(queue, sending) /\ sending' = 0
  /\ UNCHANGED <<enabled, client, sent, noTrack, done, trackVars, deviceVars,
                 left, counted, played, back, eosSent>>

\* port_flush of aaf, which holds the port's sending lock,
Flush ==
  /\ client = "idle" /\ kind = "aaf" /\ enabled /\ sending = 0 /\ done.flushes < MaxFlushes
  /\ FlushAnytime \/ device = "idle"
  /\ Count("flushes") /\ client' = "drain"
  /\ UNCHANGED <<enabled, sent, sending, noTrack, trackVars, deviceVars, dataVars>>

\* and port_disable of both, which stops the device first: SDL_PauseAudio
\* waits for its callback.
Disable ==
  /\ client = "idle" /\ enabled /\ sending = 0
  /\ (kind = "sdl" \/ StopWaits) => device = "idle"
  /\ enabled' = FALSE /\ Count("disables") /\ client' = "drain"
  /\ state' = IF track THEN "stopped" ELSE state
  /\ UNCHANGED <<kind, track, scale, sent, sending, noTrack, deviceVars, dataVars>>

\* Mutant: only the first buffer is returned.
DrainOne ==
  /\ client = "drain"
  /\ queue' = IF queue = <<>> THEN queue ELSE Tail(queue)
  /\ back' = back \cup (IF queue = <<>> THEN {} ELSE {Head(queue)})
  /\ client' = "zero"
  /\ UNCHANGED <<enabled, sent, sending, noTrack, done, trackVars, deviceVars,
                 left, counted, played, eosSent>>

\* Both empty the queue into the port's callback,
Drain ==
  /\ client = "drain"
  /\ queue' = <<>> /\ back' = back \cup Range(queue)
  /\ client' = "zero"
  /\ UNCHANGED <<enabled, sent, sending, noTrack, done, trackVars, deviceVars,
                 left, counted, played, eosSent>>

\* Mutant: the count is left.
ZeroNot ==
  /\ client = "zero"
  /\ client' = IF enabled THEN "restart" ELSE "wait"
  /\ UNCHANGED <<enabled, sent, sending, noTrack, done, trackVars, deviceVars, dataVars>>

\* aaf then forgets the count,
Zero ==
  /\ client = "zero"
  /\ counted' = IF kind = "aaf" THEN 0 ELSE counted
  /\ client' = IF enabled THEN "restart" ELSE "wait"
  /\ UNCHANGED <<enabled, sent, sending, noTrack, done, trackVars, deviceVars,
                 queue, left, played, back, eosSent>>

\* and stops, flushes and restarts the track.
Restart ==
  /\ client = "restart"
  /\ state' = IF track THEN StateFor(TRUE, scale) ELSE state
  /\ client' = "idle"
  /\ UNCHANGED <<kind, track, scale, enabled, sent, sending, noTrack, done, deviceVars, dataVars>>

\* mmal_port_disable waits for every buffer the client sent.
DisableWait ==
  /\ client = "wait" /\ back = 1..sent
  /\ client' = "idle"
  /\ UNCHANGED <<enabled, sent, sending, noTrack, done, trackVars, deviceVars, dataVars>>

\* aaf_clock_event
Scale ==
  /\ kind = "aaf" /\ done.scales < MaxScales /\ Count("scales")
  /\ scale' = ~scale
  /\ state' = IF track THEN StateFor(enabled, ~scale) ELSE state
  /\ UNCHANGED <<kind, track, enabled, client, sent, sending, noTrack, deviceVars, dataVars>>

-----------------------------------------------------------------------------
(* The device's thread: aaf_track_callback, sdl_callback                   *)

Call ==
  /\ device = "idle" /\ state = "running" /\ queue # <<>>
  /\ FlushAnytime \/ client = "idle"
  /\ device' = "take" /\ space' = Ask /\ taken' = 0
  /\ UNCHANGED <<hand, trackVars, clientVars, dataVars>>

Take ==
  /\ device = "take"
  /\ IF space = 0 \/ queue = <<>>
     THEN device' = "count" /\ UNCHANGED <<hand, queue>>
     ELSE device' = "play" /\ hand' = Head(queue) /\ queue' = Tail(queue)
  /\ UNCHANGED <<space, taken, trackVars, clientVars, left, counted, played, back, eosSent>>

\* Mutant: a buffer with bytes left goes to the end.
PlayRequeues ==
  /\ device = "play"
  /\ LET bytes == SmallerOf(left[hand], space) IN
     /\ left' = [left EXCEPT ![hand] = @ - bytes]
     /\ space' = space - bytes /\ taken' = taken + bytes
     /\ played' = IF bytes > 0 THEN Append(played, hand) ELSE played
     /\ IF left'[hand] > 0
        THEN queue' = Append(queue, hand) /\ UNCHANGED <<back, eosSent>>
        ELSE /\ eosSent' = (eosSent \/ Stream[hand].eos)
             /\ back' = back \cup {hand} /\ UNCHANGED queue
  /\ device' = "take" /\ hand' = 0
  /\ UNCHANGED <<trackVars, clientVars, counted>>

\* The bytes are copied; a buffer with bytes left goes back to the front, one
\* without returns, after the EOS event if it carries the flag.
Play ==
  /\ device = "play"
  /\ LET bytes == SmallerOf(left[hand], space) IN
     /\ left' = [left EXCEPT ![hand] = @ - bytes]
     /\ space' = space - bytes /\ taken' = taken + bytes
     /\ played' = IF bytes > 0 THEN Append(played, hand) ELSE played
     /\ IF left'[hand] > 0
        THEN queue' = <<hand>> \o queue /\ UNCHANGED <<back, eosSent>>
        ELSE /\ eosSent' = (eosSent \/ Stream[hand].eos)
             /\ back' = back \cup {hand} /\ UNCHANGED queue
  /\ device' = "take" /\ hand' = 0
  /\ UNCHANGED <<trackVars, clientVars, counted>>

\* aaf counts what went, with its lock.
Counted ==
  /\ device = "count"
  /\ counted' = IF kind = "aaf" THEN (counted - taken) % Wrap ELSE counted
  /\ device' = "idle"
  /\ UNCHANGED <<hand, space, taken, trackVars, clientVars, queue, left, played, back, eosSent>>

-----------------------------------------------------------------------------
ASNext ==
  \/ Commit \/ Enable \/ Send \/ Queued \/ Flush \/ Disable \/ Drain \/ Zero \/ Restart
  \/ DisableWait \/ Scale \/ Call \/ Take \/ Play \/ Counted

\* The device asks while it runs; a call of the client goes on, and the client
\* sends what it has.
ASFair ==
  /\ WF_asvars(Call) /\ WF_asvars(Take \/ Play \/ Counted)
  /\ WF_asvars(Send) /\ WF_asvars(Queued \/ Drain \/ Zero \/ Restart \/ DisableWait)

ASSpec == ASInit /\ [][ASNext]_asvars
ASFairSpec == ASSpec /\ ASFair

Unplayed[n \in 0..Len(queue)] == IF n = 0 THEN 0 ELSE Unplayed[n - 1] + left[queue[n]]

(* Between calls the count the media time is computed from is the bytes in *)
(* the queue, flushes and half played buffers included.                    *)
BytesCounted ==
  kind = "aaf" /\ device = "idle" /\ sending = 0 /\ client = "idle"
    => counted = Unplayed[Len(queue)] % Wrap

(* The bytes go out in the order they were sent, the EOS event after every *)
(* buffer is back, and no buffer is in two places.                         *)
PlayedInOrder ==
  /\ \A i, j \in DOMAIN played : i < j => played[i] <= played[j]
  /\ eosSent => \A b \in 1..sent : ~Stream[b].eos => b \in back
  /\ Range(queue) \cap back = {} /\ hand \notin back

(* The device is not used before there is one.                             *)
TrackThere == ~noTrack

(* mmal_port_disable returns: the stopped device holds no buffer.          *)
SinkDisableReturns == []<>(client # "wait")

(* What is sent is played to the end while the track runs.                 *)
PlaysOut == <>[](state = "running" /\ client = "idle") => <>[](back = 1..sent)
=============================================================================
