------------------------------ MODULE MCBuffers -----------------------------
(***************************************************************************)
(* Headers, tables and settings that are kept, for TLC: MMAL's pools,      *)
(* ports, graphs and clock component, what is on VideoCore, the writer of  *)
(* containers, the components that pass buffers on, OpenMAX IL's handles   *)
(* and parameters, VCOS's semaphores, threads and commands. They share no  *)
(* state: a behaviour runs one of them and leaves the others as they       *)
(* start.                                                                  *)
(***************************************************************************)
EXTENDS Integers, Sequences, TLC

CONSTANTS Names, Handles, SemaphoresBlocks, VcBlocks, Subpools, Extension,
          SemaphoresMaxFails, TablesMaxFails, PropagationMaxFails, Created,
          Foreign, PthreadsSlots, ClockSlots, MaxHandlers, MaxFires,
          ForeignExits, MaxFailures, TablesThreads, Commands, Help, Subs,
          Prints, Size, Grow, FirstAlone, MaxRuns, MaxHeaders, PoolNoHeader,
          MaxRefs, PoolAllocFails, ResizeInUse, MaxSends, PauseSendFails,
          PauseMaxToggles, FlowMaxToggles, VcHeaders, WorkerHeaders,
          ClockHeaders, Versions, VcMaxEnables, GraphMaxEnables, MaxVersion,
          Widths, Heights, SliceHeight, ShortBy, MaxFormats, MaxFaults,
          MaxPosts, Graphs, PropagationFormats, ClockPorts, Length,
          ClockSamples, ClockMaxEvents, ParametersMaxEvents, InputNum,
          Streams, FramedIn, AtOnce, MaxFlushes, MaxErrors, FlowOutputs,
          OutNum, MaxDepth, MaxInputs, Registry, FailAt, MaxHandles,
          TightRoom, Sides, MaxCalls, MaxRefusals, KeepsStride

At(c, t, i) == [comp |-> c, type |-> t, index |-> i]
Cx(c, i, d, j) == [out |-> At(c, "out", i), in |-> At(d, "in", j)]
\* a splits into b and c, which meet in d.
Diamond == [connections |-> <<Cx("a", 0, "b", 0), Cx("a", 1, "c", 0),
                              Cx("b", 0, "d", 0), Cx("c", 0, "d", 1)>>,
            input |-> <<At("a", "in", 0)>>, output |-> <<>>,
            straight |-> {}, size |-> 3]
Chain == [connections |-> <<Cx("a", 0, "b", 0), Cx("b", 0, "c", 0)>>,
          input |-> <<At("a", "in", 0)>>, output |-> <<At("c", "out", 0)>>,
          straight |-> {}, size |-> 3]
Straight == [connections |-> <<Cx("a", 0, "b", 0), Cx("a", 1, "b", 1)>>,
            input |-> <<At("a", "in", 0), At("a", "in", 1)>>,
            output |-> <<At("b", "out", 0)>>,
            straight |-> {"a", "b"}, size |-> 2]
Source == [connections |-> <<Cx("a", 0, "b", 0), Cx("b", 0, "c", 0)>>,
            input |-> <<>>, output |-> <<At("c", "out", 0)>>,
            straight |-> {}, size |-> 3]
MCGraphs == {Diamond, Chain, Straight, Source}

\* VcosCommands: the commands that have a table of their own, and what a
\* command writes.
SubTables == [c \in 1 .. 4 |-> IF c = 3 THEN {5} ELSE {}]
Written == <<[len |-> 2, line |-> FALSE], [len |-> 3, line |-> TRUE]>>

\* ContainerWriter: what is sent to each input port.
Frame(at, end, eos) == [time |-> at, end |-> end, eos |-> eos]
Sent == (0 :> <<Frame(1, FALSE, FALSE), Frame(1, TRUE, FALSE), Frame(3, TRUE, TRUE)>>)
          @@ (1 :> <<Frame(1, TRUE, FALSE), Frame(2, TRUE, FALSE), Frame(3, TRUE, TRUE)>>)

VARIABLES
  part,   \* the part that runs
  present, freeList, available, owner, impl, head, inUse, totalRefs, actual,
  lost, fails, at, handle, semaphore, timer, quit, atExit, ran, fires,
  started, freedUsed, failures, table, alloc, lock, named, category,
  tablesAt, todo, asked, refused, line, ptr, zero, useLog, shown, logged,
  out, result, runs, tablesFails, pool, refcount, reference, payload, queue,
  delayed, rel, refs, misplaced, short, comp, pauseTodo, resuming, toggles,
  enabled, paused, callback, pauseQueue, transit, inside, flush, disable,
  sent, given, back, stray, skipped, version, vcEnabled, connected,
  has_pool, live, contexts, is_zero_copy, sent_data_on_port, shared, data,
  loc, callback_queue, enables, vcRefused, enableFailed, misused, late,
  stage, remoteRefs, uses, server, module, ports, remoteQueue, action, info,
  settings, getting, orphaned, stale, request, slice, written, returned,
  is_enabled, outOn, inOn, outFormat, inFormat, streamFormat, poolQueue,
  graphQueue, outHeld, inHeld, outCb, inCb, sema, stop_thread, worker,
  run_again, client, graphEnables, faults, wrong, g, on, cxOn, graphOn,
  format, propagationData, propagationFails, last, clockQueue, working,
  away, dropped, stream, window, discont, pending, scale, threshold,
  latencySet, stopped, clockEnabled, active, media, portScale,
  portThreshold, adjusted, pausedAt, clockLate, told, events, writerQueue,
  writerSent, writerBack, trigger, event, running, port_last_used,
  scan, port_writing_frame, writerWritten, flushed, error, ended,
  wasted, flushes, errors, kind, depth, serial, pc, hand, inq, outq,
  enabledFlags, sentFlags, flowError, loaded, met, next, flowBack, flowGiven,
  flowToggles, flowErrors, handleStage, made, cmd_thread_used, awake, free,
  call, index, found, room, handles, unmade, calls, parametersKind,
  parametersFormat, committed, parametersRefused, num, size, sizeMin,
  parametersEnabled, no_cropping, format_changed, encodings, parametersTold,
  video, stored, param, answer, parametersCalls, refusals, parametersEvents

semaphoresVars == <<present, freeList, available, owner, impl, head,
                    inUse, totalRefs, actual, lost, fails>>
pthreadsVars == <<at, handle, semaphore, timer, quit, atExit, ran, fires,
                  started, freedUsed, failures>>
tablesVars == <<table, alloc, lock, named, category, tablesAt, todo,
                asked, refused, line, ptr, zero, useLog, shown, logged,
                out, result, runs, tablesFails>>
poolVars == <<pool, refcount, reference, payload, queue, delayed, rel,
              refs, misplaced, short>>
pauseVars == <<comp, pauseTodo, resuming, toggles, enabled, paused,
               callback, pauseQueue, transit, inside, flush, disable,
               sent, given, back, stray, skipped>>
vcVars == <<version, vcEnabled, connected, has_pool, live, contexts,
            is_zero_copy, sent_data_on_port, shared, data, loc,
            callback_queue, enables, vcRefused, enableFailed, misused,
            late>>
remoteVars == <<stage, remoteRefs, uses, server, module, ports,
                remoteQueue, action, info, settings, getting, orphaned,
                stale>>
pixelsVars == <<request, slice, written, returned>>
graphVars == <<is_enabled, outOn, inOn, outFormat, inFormat, streamFormat,
               poolQueue, graphQueue, outHeld, inHeld, outCb, inCb, sema,
               stop_thread, worker, run_again, client, graphEnables,
               faults, wrong>>
propagationVars == <<g, on, cxOn, graphOn, format, propagationData,
                     propagationFails, last>>
clockVars == <<clockQueue, working, away, dropped, stream, window,
               discont, pending, scale, threshold, latencySet, stopped,
               clockEnabled, active, media, portScale, portThreshold,
               adjusted, pausedAt, clockLate, told, events>>
writerVars == <<writerQueue, writerSent, writerBack, trigger, event,
                running, scan, port_last_used, port_writing_frame,
                writerWritten, flushed, error, ended, wasted, flushes,
                errors>>
flowVars == <<kind, depth, serial, pc, hand, inq, outq, enabledFlags,
              sentFlags, flowError, loaded, met, next, flowBack, flowGiven,
              flowToggles, flowErrors>>
handleVars == <<handleStage, made, cmd_thread_used, awake, free, call,
                index, found, room, handles, unmade, calls>>
parametersVars == <<parametersKind, parametersFormat, committed,
                    parametersRefused, num, size, sizeMin,
                    parametersEnabled, no_cropping, format_changed,
                    encodings, parametersTold, video, stored, param,
                    answer, parametersCalls, refusals, parametersEvents>>

Semaphores == INSTANCE VcosNamedSem WITH Blocks <- SemaphoresBlocks,
  MaxFails <- SemaphoresMaxFails
Pthreads == INSTANCE VcosThreads WITH Slots <- PthreadsSlots
Tables == INSTANCE VcosCommands WITH at <- tablesAt, fails <- tablesFails,
  MaxFails <- TablesMaxFails, Threads <- TablesThreads
Pool == INSTANCE MmalPool WITH NoHeader <- PoolNoHeader, AllocFails <-
  PoolAllocFails
Pause == INSTANCE MmalPause WITH todo <- pauseTodo, queue <- pauseQueue,
  MaxToggles <- PauseMaxToggles, SendFails <- PauseSendFails
Vc == INSTANCE VcComponent WITH enabled <- vcEnabled, refused <- vcRefused,
  Blocks <- VcBlocks, Headers <- VcHeaders, MaxEnables <- VcMaxEnables, refs
  <- remoteRefs, queue <- remoteQueue
Pixels == INSTANCE CopyPixels
Graph == INSTANCE MmalGraph WITH queue <- graphQueue, enables <-
  graphEnables, Headers <- WorkerHeaders, MaxEnables <- GraphMaxEnables
Propagation == INSTANCE GraphPorts WITH data <- propagationData, fails <-
  propagationFails, MaxFails <- PropagationMaxFails, Formats <-
  PropagationFormats
Clock == INSTANCE ClockComponent WITH queue <- clockQueue, enabled <-
  clockEnabled, late <- clockLate, Slots <- ClockSlots, Headers <-
  ClockHeaders, MaxEvents <- ClockMaxEvents, Ports <- ClockPorts, Samples <-
  ClockSamples
Writer == INSTANCE ContainerWriter WITH queue <- writerQueue, sent <-
  writerSent, back <- writerBack, written <- writerWritten
Flow == INSTANCE DirectFlow WITH error <- flowError, back <- flowBack, given
  <- flowGiven, toggles <- flowToggles, errors <- flowErrors, MaxToggles <-
  FlowMaxToggles, Outputs <- FlowOutputs
Handle == INSTANCE OmxHandle WITH stage <- handleStage
Parameters == INSTANCE OmxParameters WITH kind <- parametersKind, format <-
  parametersFormat, refused <- parametersRefused, enabled <-
  parametersEnabled, told <- parametersTold, calls <- parametersCalls, events
  <- parametersEvents, MaxEvents <- ParametersMaxEvents

ASSUME MCBuffersConstants ==
  /\ Pixels!CopySizes
  /\ Graph!GraphHeaders
  /\ Graph!GraphBounds
  /\ Propagation!GraphPortsBounds

Init ==
  /\ part \in {"Semaphores", "Pthreads", "Tables", "Pool", "Pause", "Vc",
               "Remote", "Pixels", "Graph", "Propagation", "Clock",
               "Writer", "Flow", "Handle", "Parameters"}
  /\ part = "Tables" \/ (part # "Tables" /\ category = FALSE)
  /\ \/ part = "Pixels"
     \/ /\ part # "Pixels"
        /\ request = CHOOSE r \in [fmt : {"RGBA"}, encode : BOOLEAN, width : {2},
                                  height : {2}, buffer_width : {2},
                                  buffer_height : {2}, short : {0}] : TRUE
  /\ \/ part = "Propagation"
     \/ part # "Propagation" /\ g = CHOOSE h \in Graphs : TRUE
  /\ part = "Vc" \/ (part # "Vc" /\ version = "new")
  /\ \/ part = "Flow"
     \/ part # "Flow" /\ kind = "splitter" /\ depth = 1 /\ serial = TRUE
  /\ \/ part = "Parameters"
     \/ part # "Parameters" /\ parametersKind = "video"
  /\ Semaphores!NInit
  /\ Pthreads!TInit
  /\ Tables!CmdInit
  /\ Pool!PInit
  /\ Pause!AInit
  /\ Vc!VInit
  /\ Vc!BInit
  /\ Pixels!PxInit
  /\ Graph!GInit
  /\ Propagation!PInit
  /\ Clock!CCInit
  /\ Writer!WInit
  /\ Flow!DInit
  /\ Handle!HInit
  /\ Parameters!OPInit

SemaphoresStep ==
  /\ part = "Semaphores" /\ Semaphores!NNext
  /\ UNCHANGED <<part, pthreadsVars, tablesVars, poolVars, pauseVars,
                 vcVars, remoteVars, pixelsVars, graphVars,
                 propagationVars, clockVars, writerVars, flowVars,
                 handleVars, parametersVars>>
PthreadsStep ==
  /\ part = "Pthreads" /\ Pthreads!ThNext
  /\ UNCHANGED <<part, semaphoresVars, tablesVars, poolVars, pauseVars,
                 vcVars, remoteVars, pixelsVars, graphVars,
                 propagationVars, clockVars, writerVars, flowVars,
                 handleVars, parametersVars>>
TablesStep ==
  /\ part = "Tables" /\ Tables!CmdNext
  /\ UNCHANGED <<part, semaphoresVars, pthreadsVars, poolVars, pauseVars,
                 vcVars, remoteVars, pixelsVars, graphVars,
                 propagationVars, clockVars, writerVars, flowVars,
                 handleVars, parametersVars>>
PoolStep ==
  /\ part = "Pool" /\ Pool!PNext
  /\ UNCHANGED <<part, semaphoresVars, pthreadsVars, tablesVars,
                 pauseVars, vcVars, remoteVars, pixelsVars, graphVars,
                 propagationVars, clockVars, writerVars, flowVars,
                 handleVars, parametersVars>>
PauseStep ==
  /\ part = "Pause" /\ Pause!ANext
  /\ UNCHANGED <<part, semaphoresVars, pthreadsVars, tablesVars, poolVars,
                 vcVars, remoteVars, pixelsVars, graphVars,
                 propagationVars, clockVars, writerVars, flowVars,
                 handleVars, parametersVars>>
VcStep ==
  /\ part = "Vc" /\ Vc!VNext
  /\ UNCHANGED <<part, semaphoresVars, pthreadsVars, tablesVars, poolVars,
                 pauseVars, remoteVars, pixelsVars, graphVars,
                 propagationVars, clockVars, writerVars, flowVars,
                 handleVars, parametersVars>>
RemoteStep ==
  /\ part = "Remote" /\ Vc!BNext
  /\ UNCHANGED <<part, semaphoresVars, pthreadsVars, tablesVars, poolVars,
                 pauseVars, vcVars, pixelsVars, graphVars,
                 propagationVars, clockVars, writerVars, flowVars,
                 handleVars, parametersVars>>
PixelsStep ==
  /\ part = "Pixels" /\ Pixels!PxNext
  /\ UNCHANGED <<part, semaphoresVars, pthreadsVars, tablesVars, poolVars,
                 pauseVars, vcVars, remoteVars, graphVars,
                 propagationVars, clockVars, writerVars, flowVars,
                 handleVars, parametersVars>>
GraphStep ==
  /\ part = "Graph" /\ Graph!GNext
  /\ UNCHANGED <<part, semaphoresVars, pthreadsVars, tablesVars, poolVars,
                 pauseVars, vcVars, remoteVars, pixelsVars,
                 propagationVars, clockVars, writerVars, flowVars,
                 handleVars, parametersVars>>
PropagationStep ==
  /\ part = "Propagation" /\ Propagation!PNext
  /\ UNCHANGED <<part, semaphoresVars, pthreadsVars, tablesVars, poolVars,
                 pauseVars, vcVars, remoteVars, pixelsVars, graphVars,
                 clockVars, writerVars, flowVars, handleVars,
                 parametersVars>>
ClockStep ==
  /\ part = "Clock" /\ Clock!CCNext
  /\ UNCHANGED <<part, semaphoresVars, pthreadsVars, tablesVars, poolVars,
                 pauseVars, vcVars, remoteVars, pixelsVars, graphVars,
                 propagationVars, writerVars, flowVars, handleVars,
                 parametersVars>>
WriterStep ==
  /\ part = "Writer" /\ Writer!WNext
  /\ UNCHANGED <<part, semaphoresVars, pthreadsVars, tablesVars, poolVars,
                 pauseVars, vcVars, remoteVars, pixelsVars, graphVars,
                 propagationVars, clockVars, flowVars, handleVars,
                 parametersVars>>
FlowStep ==
  /\ part = "Flow" /\ Flow!DNext
  /\ UNCHANGED <<part, semaphoresVars, pthreadsVars, tablesVars, poolVars,
                 pauseVars, vcVars, remoteVars, pixelsVars, graphVars,
                 propagationVars, clockVars, writerVars, handleVars,
                 parametersVars>>
HandleStep ==
  /\ part = "Handle" /\ Handle!HNext
  /\ UNCHANGED <<part, semaphoresVars, pthreadsVars, tablesVars, poolVars,
                 pauseVars, vcVars, remoteVars, pixelsVars, graphVars,
                 propagationVars, clockVars, writerVars, flowVars,
                 parametersVars>>
ParametersStep ==
  /\ part = "Parameters" /\ Parameters!OPNext
  /\ UNCHANGED <<part, semaphoresVars, pthreadsVars, tablesVars, poolVars,
                 pauseVars, vcVars, remoteVars, pixelsVars, graphVars,
                 propagationVars, clockVars, writerVars, flowVars,
                 handleVars>>

Next == SemaphoresStep \/ PthreadsStep \/ TablesStep \/ PoolStep \/
     PauseStep \/ VcStep \/ RemoteStep \/ PixelsStep \/ GraphStep \/
     PropagationStep \/ ClockStep \/ WriterStep \/ FlowStep \/ HandleStep \/
     ParametersStep
vars == <<part, semaphoresVars, pthreadsVars, tablesVars, poolVars,
          pauseVars, vcVars, remoteVars, pixelsVars, graphVars,
          propagationVars, clockVars, writerVars, flowVars, handleVars,
          parametersVars>>

Spec == Init /\ [][Next]_vars

-----------------------------------------------------------------------------
(* Properties                                                              *)

\* Every header and every payload is in one place and counted there: in a pool
\* with its references and replicas, through a resize, a pause, a flush, a
\* disable and a failure, on VideoCore, in a graph, in a clock's events, and in
\* the components that pass buffers on.
HeadersAccounted ==
  /\ part = "Pool" =>
       /\ Pool!CountsAreRight
       /\ Pool!PayloadsBalanced
       /\ Pool!WalksTheArray
  /\ part = "Pause" => Pause!EveryHeaderComesBack
  /\ part = "Vc" => Vc!PoolIsWhole /\ Vc!FlushIsComplete
  /\ part = "Graph" => Graph!HeadersAccounted
  /\ part = "Clock" => Clock!HeadersReturn
  /\ part = "Flow" => Flow!InputInOnePlace /\ Flow!NothingForgotten

\* What arrives is what was sent: headers in their order, addresses the client
\* can use, each sample at its place, whole frames in the container, a command's
\* output in one piece, a header translated and back, data of the known format.
OrderAndContent ==
  /\ part = "Pause" => Pause!OrderKept
  /\ part = "Vc" => Vc!ClientSeesHostMemory
  /\ part = "Pixels" => Pixels!PixelsArrive /\ Pixels!PixelsInside
  /\ part = "Graph" => Graph!InputKnowsTheFormat
  /\ part = "Writer" => Writer!FramesWhole
  /\ part = "Tables" => Tables!OutputWhole /\ Tables!InsideBuffer
  /\ part = "Parameters" => Parameters!BufferSame

\* A failure and an end leave nothing behind, and nothing is used that was not
\* made: semaphores and their names, threads and their exit handlers, tables of
\* commands, components on both sides of VideoCore, handles of OpenMAX IL.
NothingLeftBehind ==
  /\ part = "Semaphores" =>
       /\ Semaphores!OneSemaphorePerName
       /\ Semaphores!BlocksAccounted
  /\ part = "Pthreads" =>
       /\ Pthreads!HandlersRun
       /\ Pthreads!HandleAlive
       /\ Pthreads!NothingKept
  /\ part = "Tables" => Tables!TableRight
  /\ part = "Remote" => Vc!NothingLeftBehind
  /\ part = "Handle" => Handle!NothingUnmadeUsed /\ Handle!NothingLeft

\* Those that depend on each other stay in step: the worker of a graph and its
\* headers, the ports a call is passed on to, the host's settings and the
\* server's, the ports of a clock and the average of its latencies, the format
\* an OpenMAX IL client was told and the one in use, the writer and its triggers.
InStep ==
  /\ part = "Graph" => Graph!NothingForgotten
  /\ part = "Propagation" =>
       /\ Propagation!PropagatesToAll
       /\ Propagation!FlushReachesAll
       /\ Propagation!FormatReachesAll
  /\ part = "Remote" => Vc!InfoUpToDate
  /\ part = "Clock" =>
       /\ Clock!AverageOfWindow
       /\ Clock!ResumeInTime
       /\ Clock!ClocksAgree
       /\ Clock!ThresholdsAgree
  /\ part = "Parameters" =>
       /\ Parameters!ReportedIsUsed
       /\ Parameters!ClientUpToDate
  /\ part = "Writer" => Writer!EachTriggerWrites

\* What a step may do: the writer takes the earliest frame, a buffer is passed
\* on in its order and to every enabled output, a parameter written back is the
\* one in use and a listed one the one chosen.
StepsRight ==
  /\ Writer!RoundRobin
  /\ Flow!PassedInOrder /\ Flow!ReachesAllEnabled
  /\ Parameters!WritesBack /\ Parameters!ListedIsChosen

=============================================================================
