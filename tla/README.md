# Verification of raspicam

TLA+ models of the C++ library raspicam (the camera of the Raspberry Pi, driven
through Broadcom's MMAL) and of the MMAL and VCOS sources the repository carries
with it, model-checked with TLC and, for the parts that matter most, proved with
TLAPS.  `PROJECT.json` maps every definition to the lines it
models, and lists runs, mutants, hazards, findings and theorems.

Paths below are relative to the repository.

## 1. Inventory

| Component | State | Operations | Interacts with |
|---|---|---|---|
| Video capture, `Private_Impl` (`src/private/private_impl.*`) | `_isOpened`, `_isCapturing`, `camera_video_port`, `State` (settings, component, `video_pool`), `callback_data` | `open`, `startCapture`, `release`, `grab`, `retrieve`, `setUserCallback`, setters; `video_buffer_callback` and `camera_control_callback` on MMAL's thread | MMAL ports and pool; the application's threads; a user callback |
| Grab handshake, `PORT_USERDATA::waitForFrame`, `ThreadCondition` | `_mutex`, `wantToGrab`, `ready`, condition variable | `Wait`, `BroadCast` | `grab` and `video_buffer_callback` |
| Exposure control | `State.shutterSpeed`, `State.rpc_exposureMode` | `setShutterSpeed`, `setExposure`, `commitParameters`, `camera_control_callback`, end of `video_buffer_callback` | camera firmware, both callbacks |
| Frame layout | `_buffData`, `State.width/height/captureFtm`, `RaspiCam_Cv::imgFormat` | storing in `video_buffer_callback`, `retrieve`, `getImageTypeSize`, `RaspiCam_Cv::set/retrieve` | the format committed at `open` |
| Video settings | the rest of `State` | the setters, `commitParameters` | `open` |
| Still capture, `Private_Impl_Still` (`src/private_still/`) | `_isInitialized`, ports, `encoder_pool`, per call a `RASPICAM_USERDATA` and a semaphore | `initialize`, `takePicture`, `startCapture`, `stopCapture`, `buffer_callback` | MMAL encoder port and pool |
| Still settings | fields, `changedSettings` | setters, `commitParameters`, `createCamera`, `createEncoder` | `initialize`, `startCapture` |
| Still set-up | component, pool, port and connection pointers | `initialize`, `createCamera`, `createEncoder`, `connectPorts`, `takePicture` | MMAL components and pools |
| MMAL core (`dependencies/mmal/core`) | queues, pools and header counts; per port `is_enabled`, `transit_buffers_count`, a paused queue, the connected port; per component two reference counts and an action thread; clocks with requests | queue, pool, header, port, component and clock calls | every client and component, locks per port and connection |
| VideoCore client (`mmal/vc`) | waiters, use counts, per port a pool of contexts, copies of the server's settings | `mmal_vc_sendwait_message`, port send, flush, disable, component create and destroy | the MMAL server, by messages and bulk transfers |
| Graphs and connections (`mmal/util`) | worker thread, pool, queue, format | enable, disable, worker, port callbacks | two ports each |
| JPEG client (`mmal/client/brcmjpeg`) | contexts by count, the wrapper's queues and error | `brcmjpeg_create`, `encode`, `decode`, `release` | wrapper callbacks on MMAL's thread |
| MMAL components (`mmal/components`) | queues of buffers, formats, positions, flags for end and error | the action or the send of a port, flush, disable, format commit, device callbacks | ports, clocks, external codecs and devices |
| OpenMAX IL (`mmal/openmaxil`) | state, queue of commands, actions and counts per port, a registry and handles | commands, buffers, parameters, get and free handle | an IL client and an MMAL component |
| VCOS (`dependencies/vcos`) | flags and their waiters, named semaphores in block pools, message queues, thread handles, a table of commands | create, get, set, send, wait, register, exit | all threads of a process |
| `RaspiCam`, `RaspiCam_Still`, `RaspiCam_Still_Cv`, `Scaler`, `getId`, utilities | – | wrappers, scaling, I/O | – |

What is hard to test here:

* Two or more threads meet in `video_buffer_callback`: MMAL's action thread runs
  it, application threads grab and retrieve, and one of them may disable the
  port and destroy the component meanwhile.
* `release` and `stopCapture` block until every header has come back, while the
  callbacks that bring them back need locks of their own.
* The same field (`State.shutterSpeed`) carries a request of the application
  and a report of the camera.
* `is_enabled` is read without a lock and acted upon later.
* Settings are stored, committed and marked as committed at different moments,
  some of them before the component they are for exists.
* Sizes and formats set after `open` are used for frames that do not have them.
* In MMAL a call may run in the client's thread, a component's action thread, a
  clock's, the link's or a device's, each with locks of its own, and the last
  user of an object frees it in whichever thread that is.
* Creation goes through many steps, any of which may fail; what was made before
  is undone by code that no test runs.
* The end of a stream, a change of format, a flush and a seek overtake data that
  waits in queues.

What makes each part correct is stated by the properties of section 3; the
`hazards` of `PROJECT.json` tie each to the line where it bites.

## 2. Modules

| Module | Models | About |
|---|---|---|
| `VideoCapture` | `Private_Impl`: life cycle, handshake, callback, with MMAL's port and pool | 30 actions; one per stretch of code between two points where another thread can interfere |
| `GrabSpec` | – | abstract promise of `grab`: in, served by a frame, out |
| `VideoCapture_proofs` | – | theorems about `VideoCapture` for every value of the constants |
| `StillCapture` | `takePicture`, `startCapture`, `stopCapture`, `buffer_callback` | faults are injected up to `MaxFaults` |
| `StillCapture_proofs` | – | theorems about `StillCapture` |
| `ExposureControl` | shutter speed, exposure mode, white balance gains | the camera is external: it reports what it uses |
| `FrameCopy` | the bytes of a frame | offsets and sizes as in the code, a byte named by what it shows |
| `CameraSettings` | setters and `commitParameters` of the video mode | |
| `StillSettings` | setters, `changedSettings`, the steps of `initialize` and their failures | which component has which setting, attempt after attempt |
| `StillSetup` | `initialize` and its failures, attempt after attempt | a component exists while it or a pool of it is held; pointers may dangle |
| `MCRaspicam` | – | composes the five modules above; holds the theorems about them and the composition |

MMAL's core, with `MCThreads` and `MCBuffers` composing them (`MCThreads` also
holds the theorems about its parts):

| Module | Models | State and actions |
|---|---|---|
| `MmalQueue` | `mmal_queue.c` | lock, list, length, semaphore; one action per stretch between lock and semaphore |
| `MmalPool` | `mmal_pool.c`, `mmal_buffer.c` | slots of the header array with counts and references; `Resize` walks the array as the code does |
| `MmalTunnel` | connected ports in `mmal_port.c` | connection locks, pool between, transit counts; each step may fail |
| `MmalPause` | a paused port | the queue of a paused port against send, flush, disable |
| `MmalComponent` | `mmal_component.c` | two counts, action thread, creation with its error path |
| `MmalClock`, `ClockPort`, `ClockComponent` | `mmal_clock.c`, `mmal_port_clock.c`, `components/clock.c` | media time in ticks, sorted requests, thread and timer; two connected clock ports, with their theorems; event slots, streams, filters |
| `VcClient`, `VcComponent` | `mmal/vc` | waiters and transfers; a remote component made and destroyed, and contexts, flush and shared memory of a port of it |
| `MmalGraph`, `GraphPorts` | `mmal_graph.c`, `mmal_connection.c` | worker and headers over one connection; propagation as folds over the ports of a component |
| `JpegEncode`, `JpegDecode`, `CopyPixels` | `brcmjpeg.c`, `mmal_component_wrapper.c` | a picture is a number of pieces; contexts by count; a copy is a function from addresses to addresses |

Components, OpenMAX IL and VCOS, with `MCThreads`, `MCBuffers`, `MCPlayers` (the
last, too, holds the theorems about its parts):

| Module | Models | State and actions |
|---|---|---|
| `Scheduler` | `scheduler.c` | buffers and events numbered as they arrive, clock thread, client |
| `DirectFlow` | `splitter.c`, `passthrough.c` | queues and unguarded flags, work done in the sender's thread: a bit of `sent_flags` is read and written after a callback, the flags are cleared after another |
| `CopyFlow` | `copy.c`, `artificial_camera.c` | action over two queues, format events |
| `ContainerReader`, `ContainerWriter` | `container_reader.c` | packets of tracks, the port's queue with a partly filled head, seeks, end; a scan of the queues while clients send; failures of seeks, reads and writes, and of the event that reports them |
| `AvcodecDecode`, `MediaCodecDecode` | the decoders | pending output, format waiting for a commit, an external codec that delays |
| `AudioSink`, `FrameRender` | the renderers and `spdif.c` | bytes asked for by a device; frames, bursts and rates |
| `OmxCommands` | `mmalomx_commands.c` | state, queued commands, actions per port; a stack of calls per thread, since `actions_check` is entered from several; with its theorem |
| `OmxHandle` | `mmalomx_core.c` | the stages of `OMX_GetHandle` and their undoing |
| `OmxParameters` | `mmalomx_parameters.c` and its tables | port definition, formats, roles and headers both ways |
| `VcosEventFlags`, `VcosMessages`, `VcosThreads`, `VcosNamedSem`, `VcosCommands` | `dependencies/vcos` | waiters with timers; queues with semaphores; handles and exit handlers; block pools; the sorted table |

In these modules a call is split where it takes or leaves a lock, posts or waits,
or calls back; what happens under one lock without such a point is one action.
`Goto` moves a thread to the next place of its call.  Each module names its
bounds as CONSTANTS with assumptions, keeps mutants (`...Early`, `...Keeps`,
`...Not`) beside the definition they are of, and states its own properties.

The `MC` modules compose modules that share no state: `part`, chosen by the
initial state, says which runs; the others keep the one initial state they have.
So a run explores each part completely and nothing twice.  Fairness is the part's
own, of actions that are enabled only while it runs.

### VideoCapture

The program counter `pc[c]` of an application thread and `cb` of the callback
split the code where it can be interrupted:

* `open` is atomic (no callback can run before headers are sent); `startCapture`
  is `StartParameter` or `StartFails`, then `StartGet` and `StartSend` for each
  header, then `StartDone`.
* `grab` is `Grab` (the test of `_isCapturing`), `WaitForFrame` (under `_mutex`:
  `wantToGrab`, `ready`, sleep), `SpuriousWakeup`, `Recheck` (the loop in
  `ThreadCondition::Wait`).
* The callback is `Deliver`, `CbLock`, `CbCopy`, `CbRelease`, `CbGet`, `CbSend`,
  `CbUser`, `CbCall`, `CbBroadCast`, `CbReturn`; `_mutex` is held from `CbLock`
  to the end, as the `unique_lock` does.
* `release` is `ClearEnabled`, `DisablePort` (with the action mutex; the firmware
  returns its headers), `DrainDone`, `TransitWait`, `Destroy`, `Close`.

`Owner` is the one thread that opens, starts and releases: the class has no
protection at all for two threads doing so.  Headers in a queue are
interchangeable, so the queues are sets.  A frame is anonymous; `image` and
`stored` are history variables saying whether a client's image was rewritten and
whether a frame was stored since it asked.

### StillCapture

A picture arrives in pieces, one per header, the last with `FRAME_END`.  A size
is the number of pieces of a picture of that size, and a buffer of
`getImageBufferSize()` bytes has room for as many.  `buffer_callback` takes no
lock, so every line of it that touches shared state is an action.  Faults:
`mmal_port_enable`, the capture parameter, a send, a transmission.

### ExposureControl

`open` is three actions (create with the control port enabled, commit, assign
userdata), `setShutterSpeed` and `setAWB_RB` two (store, commit), because a
report can be delivered between them.  A pair of gains is one value.  `release` waits for the reports on their way.

### FrameCopy

The alignments (32 and 16 in the code) are constants, so that small images have
every shape: narrower than a block, a block, more than a block.  `Stored`
computes what the loops of the callback leave at every offset; reading outside
an area yields `Outside`.

### CameraSettings, StillSettings

`Normalised` is what a setter stores, `Sent` what a commit sends.  `Unset` marks
parameters a component has of its own.  In `StillSettings` sharpness stands for
the settings with the same range and white balance for the other enumerations.
`initialize` is four steps (`opening`): `createCamera` up to `commitParameters`, the
rest of it, `createEncoder`, `connectPorts`.  Each may fail and be tried again;
`Keeping` is what is left of the components' settings.  `astray` remembers that the
settings were sent, and the flag lowered, in an attempt that then failed.  `ISO` is
the one number in a documented range that no setter folds.

## 3. Runs

All complete in well under five minutes with two workers.

| Run | Bounds | Shows |
|---|---|---|
| `video_single` | 1 thread, 3 headers, 1 refused send | each grab is served and returns (`GrabIsServedInTime`, a refinement of `GrabSpec` with fairness), retrieve copies the grabbed image, headers keep circulating, no NULL header |
| `video_threads` | 2 threads, 2 headers, 1 user callback, 1 refused send | no lost wake-up, no header in two places, nothing freed under the callback, user callback with its data, a grab leaves only with a frame stored since it entered, calls of the owner return |
| `video_restart` (violation) | 1 thread, 2 headers, `startCapture` while capturing | the length of the pool is stale when the loop uses it: NULL is sent |
| `still_single` | 3 headers, pictures of 1, 2 and 4 pieces | a picture is complete and in order, ends if the pool has a header, closes the port, costs the pool at most one header; the semaphore is alive when posted |
| `still_faults` | 2 headers, 2 faults of any kind, size changed at any time | userdata alive, headers in one place, the caller's buffer not overrun |
| `still_header_leak` (violation) | 2 headers | a header is lost when the port is disabled between the callback's test and its send; with the pool empty `takePicture` waits for ever |
| `exposure_reopen` (violation) | 2 measured exposures, opened again | the last report is committed as if it had been asked for |
| `still_settings_quality` (violation) | the bounds of `raspicam_data` | a quality set before `open` does not reach the encoder |
| `raspicam_data` | 3 speeds (one above the limit), 3 modes (one unknown) beside the default, 2 reports on their way; 4 widths and 3 heights around the alignments, 4 formats, `RaspiCam` and `RaspiCam_Cv`; settings with arguments beyond their limits; any number of attempts to open that fail at any step; 3 attempts to set up | the camera is in the mode `getExposure` tells; a shutter and gains nobody set on an open camera are not replaced by a report; the image is the frame without its padding; every setting reaches the camera or (but for one sent in a failed attempt) the picture, in range but for ISO; an open still camera is whole and the only one |
| `threads` | 2 or 3 threads, 2 headers or waiters, 1 failure, times to 4 ticks | counts agree with what they count, nothing is freed in use, answers reach their requests, headers and events keep order, every call returns |
| `buffers` | 2 or 3 headers, 2 ports, graphs of up to 4 components, 1 or 2 failures | headers are accounted for, arrive as sent, failures leave nothing behind, dependent parts stay in step |
| `players` | streams of 3 to 5 units on 2 tracks, 1 or 2 buffers a port, 1 seek, flush, error or failure each, 2 OpenMAX IL commands | order, announced formats, commands complete when done, everything is played |

What the four composite runs check of each part:

| Property | Parts and the module's property |
|---|---|
| `CountsAreRight` | `MmalQueue` SemaphoreCounts, NullOnlyIfRaced; `MmalTunnel` TransitIsRight; `VcosEventFlags` NoMissedWake, WokenOnce |
| `AliveWhileReferenced` | `MmalComponent`; `MmalTunnel` PoolDestroyedWhole, PoolLostOnlyByFailure; `VcClient` ServiceInUse; `VcosEventFlags` RequestAlive; `JpegDecode` ContextAlive |
| `AnswersMatch` | `VcClient` RepliesAndTransfersMatch; `VcosMessages` SomethingThere, SenderWaits; `JpegEncode` EncodedWhole; `JpegDecode` DecodedWhole |
| `HeadersKept` | `Scheduler` OrderKept, HeadersHere; `ClockPort` SharesKept, FollowerAgrees, HeaderOnce |
| `CallsReturn`, `DueHappens` | liveness of all parts of `threads` |
| `HeadersAccounted` | `MmalPool`, `MmalPause`, `VcComponent`, `MmalGraph`, `ClockComponent`, `DirectFlow` |
| `OrderAndContent` | `MmalPause`, `VcComponent`, `CopyPixels`, `MmalGraph`, `ContainerWriter`, `VcosCommands`, `OmxParameters` |
| `NothingLeftBehind` | `VcosNamedSem`, `VcosThreads`, `VcosCommands`, `VcComponent`, `OmxHandle` |
| `InStep` | `MmalGraph`, `GraphPorts`, `VcComponent`, `ClockComponent`, `OmxParameters`, `ContainerWriter` |
| `StepsRight` | action properties of `ContainerWriter`, `DirectFlow`, `OmxParameters` |
| `InOrder`, `FormatKnown` | `ContainerReader`, `AvcodecDecode`, `CopyFlow`, `AudioSink`, `FrameRender`, `MediaCodecDecode`, `OmxCommands` |
| `CompleteWhenDone`, `PlaysToEnd` | `OmxCommands`; liveness of all parts of `players` |
| `ImageIsRight` to `OneCamera` | the modules of `MCRaspicam` |

The bounds are enough because the interesting cases need two of something: two
headers (one with the callback, one with the firmware), two threads (one
waiting, one arriving), two reports (one stale), a second picture after the
first.  Three headers and four pieces make headers be recycled within a picture.
Sizes of 1, a block less one, a block and more give every case of the copying
loops.  Counters without a limit in the code are bounded by the constants whose names
begin with `Max`.  Three threads in `VcClient` meet two waiters, so one waits for
a waiter; two messages in a pool meet two senders; streams have a unit that fills
a buffer, one that does not, and a change of format between; graphs include a
diamond.

Deadlock is checked in the runs of `VideoCapture`.  It is not in those of
`StillCapture`, where the loss of headers or a refused send really stops the
program, and in the composite runs, whose parts stop when the calls their bounds
allow are made or the stream has ended: that nothing stops before is what
`CallsReturn`, `DueHappens` and `PlaysToEnd` say.

**Fairness.** Weak fairness of the steps inside a call, of the callback and of
MMAL's action thread: the operating system runs a thread that can run.  In
`VideoCapture` strong fairness of two things.  A thread that waits for `_mutex`
gets it if it is free again and again (the callback takes it once per frame, for
much less than the time between frames), and a camera that captures and is given
headers again and again sends frames.  In `StillCapture` weak fairness of the
encoder is enough: the headers it holds do not go away during a picture.  Nothing
is assumed of the application: it need not call anything.

In the composite runs weak fairness of every thread's steps inside a call, of
callbacks, timers and external parts (the server of VideoCore answers, a codec
that was given data goes on, a device asks for bytes): all are threads or devices
that run when they can.  The one strong fairness is that of a thread setting a
clock port's parameters, which competes with the other port's events for a lock
held for a moment only.  A client that returns the buffers it was given is assumed
where the property says that a stream is played.

### Where properties stop holding

The passing runs exclude some uses by a constant; setting it as shown in the
run's configuration, or listing the property that is not checked as an INVARIANT
there, lets TLC find the behaviour.  Those with a run are findings in `PROJECT.json`.

| Excluded by | In | What happens |
|---|---|---|
| `Restart` | `VideoCapture` (run `video_restart`) | NULL header sent |
| `LateRegister = FALSE` | `VideoCapture` | `setUserCallback` while capturing: old function with new data |
| no user callback with grab and retrieve | `VideoCapture` | the image is rewritten between the two |
| one grabbing thread, for liveness | `VideoCapture` | one of two may be overtaken for ever: each arrival clears `ready` |
| no thread in `grab` during `release` | `VideoCapture` | nobody wakes it |
| `LateResize = FALSE` | `StillCapture` | the buffer is too small, the flags are no longer read, the call hangs |
| a pool with a header | `StillCapture` (run `still_header_leak`) | the call hangs |
| no transmission failure | `StillCapture` | `true` for a broken picture |
| one thread taking pictures | `StillCapture` | the refused call leaves its deleted userdata with the port |
| no failure to start the capture | `StillCapture` | the port stays enabled, later pictures are refused |
| `Reopen = FALSE` | `ExposureControl` (run `exposure_reopen`) | a report becomes a setting |
| speed or gains set on an open camera | `ExposureControl` | a stale report replaces them |
| `EarlyEvents = FALSE` | `ExposureControl` | NULL userdata |
| `PaddedPlanes` | `FrameCopy` | YUV420, width aligned, height not: padding rows between the planes |
| `LateSize`, `LateFormat`, `StaleRetrieve = FALSE` | `FrameCopy` | reads outside the frame or past an old image, writes past the matrix |
| ISO apart (`ClampedInRange`; `SentInRange` not checked) | `CameraSettings` | `raspicam.h` says 100 to 800; any ISO is stored, reported and sent |
| settings sent in an attempt that failed, none set since (`astray`; `SettingsReachPicture` not checked) | `StillSettings` | the commit in `createCamera` lowered the flag: the next camera never gets them |
| quality set before `open` | `StillSettings` (run `still_settings_quality`) | never committed |
| no failed encoder, `OpenFirst = TRUE` | `StillSetup` | `destroyEncoder` through NULL, ports of a freed encoder in `takePicture` |
| `connectPorts` and the encoder's pool succeed | `StillSetup` | the camera of a failed attempt stays |
| no second taker (`NullOnlyIfRaced`) | `MmalQueue` | `mmal_queue_wait` returns NULL although `mmal_queue.h` says it blocks until there is a header |
| `ResizeInUse = FALSE` | `MmalPool` | resize clobbers headers that are held |
| `FormatEvents = FALSE`, one controller | `MmalTunnel` | two locks in two orders: deadlock |
| `MaxFailures = 1` | `MmalTunnel` | a second failure destroys half a pool |
| `FreeInAction = FALSE` | `MmalComponent` | the action thread joins itself |
| `FlipsScale = FALSE` | `MmalClock` | requests out of order after the scale changes sign |
| `Serialised`, `FlushAlways` | `ClockPort` | a follower keeps the older value; two ports that wait for each other's lock |
| `DisablesWithEvent = FALSE` | `Scheduler` | flush waits for a clock that waits for the flush |
| `ReleaseAlone = TRUE` | `JpegDecode` | the context is used after it was freed |
| `FailAt` | `JpegDecode`, `OmxHandle` | a wrapper leaks; `OMX_FreeHandle` joins a thread never made |
| `PeekAlways = FALSE` | `VcosMessages` | `vcos_msg_peek` blocks (`PeekDoesNotBlock`) although its comment says it cannot |
| `SubpoolsFreed` not checked | `VcosNamedSem` | subpools are never freed: their flag is never set |
| `ForeignExits = FALSE`, `MaxFailures = 0` | `VcosThreads` | a handle is used after it is freed |
| `HandlersRunAtExit` not checked | `VcosThreads` | handlers run when a handle is freed, not when the thread exits |
| `FirstAlone = TRUE`, short output | `VcosCommands` | table read as it is made; output cut instead of logged |
| one OpenMAX IL port | `OmxCommands` | with two a queued command is answered while a port still flushes |
| `SeekAnytime = FALSE` | `ContainerReader` | a seek when every buffer is with the reader is never noticed |
| a seek that fails (`dropped`, `misses`) | `ContainerReader` | what a buffer has is dropped, the end told again |
| a read failure that cannot be reported (`silent`) | `ContainerReader` | with every buffer queued the reading stops for good |
| a write failure that cannot be reported | `ContainerWriter` | the file lacks a part of a frame and goes on with the next |
| end of stream without data, one audio frame a packet | `AvcodecDecode` | the end overtakes frames; time stamps go back |
| one sending thread | `DirectFlow` | two find nothing and both queue |
| no input taken while the flags of another are to be cleared (`met`; `EveryOutputServed` not checked) | `DirectFlow` | `splitter.c` clears the flags after the callback: an input sent from it is returned without having reached the outputs |
| no failure that cannot be reported | `DirectFlow` | buffers that match stay queued, later inputs overtake |
| `StopWaits`, `FlushAnytime`, `EnableAnyway` | `AudioSink` | byte count wraps, disable hangs, NULL track |
| `BytesRight`, `AllBack` not checked | `FrameRender` | a burst is written at twice its offset; buffers forgotten after an error |
| `KeepsStride = FALSE`, `GetsAgain`, `ReadIsStored` not checked | `OmxParameters` | crop outside the frame; a parameter read back is not the one stored |

## 4. Proofs

`VideoCapture_proofs`, for any set of threads with its owner, any finite set of
headers, any callbacks, any bound on refused sends and either use
(`ClientsAssumption`, `BuffersAssumption`, `CallbacksAssumption`,
`BoundAssumption`, `UsageAssumption`):

* `Invariance`: `IInv` is inductive.
* `TypeCorrectness`, `NoLostWakeupTheorem`, `HeaderTheorem`, `ShutdownTheorem`:
  `TypeOK`, `NoLostWakeup`, `HeaderInOnePlace`, `NoUseAfterFree` always hold.
* `GrabRefinement`: `Spec => GrabIsServed`, every step is a step of `GrabSpec`
  or leaves its state alone.

None of the invariants is inductive by itself.  `IInv` adds to the types:

* `CallbackInv`: at which places of the callback `_mutex` is held, and that
  `hasGrabbed` is up only after the copy;
* `WakeInv`: `NoLostWakeup` for threads that are awake but have not re-read the
  flag too, since they may sleep again without asking a second time;
* `ServedInv`: the flag is up, for a thread inside `Wait`, only if a frame was
  stored since it asked; this is what the refinement of `GrabSpec` needs;
* `LifeInv`: where the port, the pool and the headers in transit are at each
  place of `open`, `startCapture` and `release`; it carries what the two waits of
  `mmal_port_disable` (callbacks drained, nothing in transit) establish as far as
  `Destroy`;
* `HeaderInv`: `HeaderInOnePlace`, and at which places the locals of the callback
  and of `startCapture` hold a header.

The other safety properties of `VideoCapture` hold in a restricted use, which is
the hypothesis of each theorem:

* `RetrieveTheorem` (`RetrieveGrabbedImage`; one thread, no user callback).
  `RetrieveInv`: a frame is copied only for the grab under way, and the flag for
  the next one is not up before that grab has returned.
* `UserCallbackTheorem` (`CallbackGetsItsData`; `~LateRegister`).  `QuietInv` says
  that before the first `startCapture` of an open camera nothing moves, so
  `setUserCallback` runs while no callback does; `UserInv` ties function and data
  together outside that call.
* `NoNullTheorem` (`NoNullHeader`; `~Restart`).  `CountInv`: the pool holds exactly
  what `startCapture` still has to send, and between `mmal_buffer_header_release`
  and `mmal_queue_get` of the callback the header just released.
* `CirculateTheorem` (`AllHeadersCirculate`; `~Restart`).  `LostInv`: the headers
  that are with nobody are as many as the refused sends.

`StillCapture_proofs`, for any finite set of headers and any sizes and numbers of
pictures (`StillBuffers`, `StillThreads`, `StillSizes`, `StillBounds`):

* `StillTypes`, `OverrunTheorem` (`NoOverrun`), `StillHeaderTheorem`
  (`HeaderInOnePlace`): for any threads, any faults, and sizes set at any time.
  `RealInv` says that what is on its way to the callback has a header and that the
  callback has its locals; `PlaceInv` gives each header returned a place of its own.
* `UserdataTheorem` (`UserdataAlive`): one thread, any faults.  `CallInv` says at
  which places of the call a callback can run, and with whose userdata.
* `PortClosedTheorem` (`PortClosed`): one thread, no fault in enabling the port or
  in starting the capture (`ClosedInv`).
* `PictureTheorem` (`PictureComplete`), `SemaphoreAliveTheorem`
  (`SemaphoreAlive`): one thread, no faults, `~LateResize`.  `PictureInv` says that
  what is in the caller's buffer, in the callback's hands and on its way, in this
  order, are the pieces the encoder has made so far (`StreamInv`) for as long as
  `takePicture` waits, and that once it has been woken the picture is whole and only
  empty headers come (`EndedInv`); the semaphore is posted with the last piece only.
* `HeaderLossTheorem` (`AtMostOneHeaderLost`): any threads, sizes and faults.
  `Afoot` are the headers that are somewhere.  `LostInv` counts them: while the port
  is enabled, or the callback is past its test of `is_enabled`, what is missing was
  refused; after that one more may be.  It rests on `PortInv`, that one thread is
  between enabling the port and disabling it, and on `PlaceInv`.

`MmalQueue`, in `MCThreads`: `SemaphoreTheorem` (`SemaphoreCounts`), for any finite
set of threads and any headers.  `Borrowing` is the set of threads between the semaphore and the
list; the semaphore and they together are the length of the list, in every step.
`SoleConsumerTheorem` (`NullOnlyIfRaced`) adds `WaitInv`: a thread that has given
its unit back and has not yet taken a header finds one, or another thread has taken
one since.

`VcosMessages`: `MessagesTheorem` (`SomethingThere` and `SenderWaits`), for any
clients, servers and finite set of pool messages.  `OnePlace` says that a message is
in one queue, with one thread, in the pool or answered, and nowhere twice;
`OwnerWaits` that a client's message elsewhere than with it is waited for.
`QueuesCounted` and `PoolCounted` count the threads between the two steps of a queue
or of the pool: a list and the lock that a peek holds are the semaphore and these.

`Scheduler`, in `MCThreads`: `OrderTheorem` (`OrderKept` and `HeadersHere`), for any
number of output headers and request slots, and any bounds.  What came in waits in two lists, and then
has gone out: `LineInv` says that each of the three is in order and wholly before the
next.  The requests are sorted by time, not by arrival, so `TimesInv` is needed: no
request is later than a unit after `last_ts`, and the buffers still to come are later
than `last_ts` in their own order; so a new request goes last, and a flush, which
hands on all requests at once, hands them on in order.  `EventWaits` says what the
clock's thread holds its lock for.  The headers are counted by the buffers among the
requests (`DataAppended`, `DataTaken`).

`ClockPort`, for any headers and threads (`ClientApart`: the client and the components
set no clock):

* `SharesTheorem` (`SharesKept` and `HeaderOnce`).  The share of a port is its queue,
  the headers its updates are on the way with, and those the component behind the
  other port keeps; the two shares are equally large in every step until a flush
  (`ShareInv`).  `OnceInv` says that each header is in one place, at each place of a
  disable that has emptied one port and not yet the other (`EnabledInv`, `KeptInv`,
  `GoneInv`).
* `FollowTheorem` (`FollowerAgrees`), where clocks are set one at a time
  (`Serialised`; without it a follower keeps the older value, as section 3 says).
  `UpdateInv`: one update is under way and it carries its port's value; `FollowInv`:
  the follower has it, or it is under way, or could not be sent.

`MCRaspicam`: every step of the composition is a step of each part or leaves it
alone (`VideoPart`, `StillPart`, `SetupPart`, `FramePart`), so what holds of a part
holds of the application:

* `SettingsTheorem` (`SettingsCommitted`), from `CommittedTheorem`, whose property is
  inductive, and `RangeTheorem` (`ClampedInRange`, from `VideoInv`, that `State` is in
  range), for any settings and integer arguments, those of brightness not negative
  because its type is unsigned.
* `OneCameraTheorem` (`OneCamera`), from `ReadyTheorem` (`ReadyWhenInitialized`),
  `LiveTheorem` (`LiveUnlessEncoderFailed`) and `SetupCameraTheorem`, for any number
  of attempts and failures.  `SetupInv` says for each place of `initialize` which
  objects exist and which pointers are to objects of this attempt; `CameraInv`, that
  the cameras there are, are the one of this attempt, unless connecting the ports or
  creating the encoder's pool has failed.
* `PictureTheorem` (`PictureAsSet`), for any settings, arguments and failures of any
  step of `initialize`.  `StillInv` says what `changedSettings` tells: once it is
  down, the camera has every setting unless these are `astray`, and the encoder its
  encoding.  `StillRange` bounds the settings, so the clamped and rounded values.
* `ImageTheorem` (`ImageIsRight`), for any widths, heights, formats and alignments,
  where size and format are set before `open` and nothing is retrieved between a
  reopening and the next grab (`~LateSize`, `~LateFormat`, `~StaleRetrieve`; without
  them it fails, as section 3 says).  `PaddedShows` and `UnpaddedShows` say what byte
  `getFrame` leaves at each offset, with and without padding of rows; `FrameInv`
  says that what is in the buffer was stored with the size and format there are.
* `ModeTheorem` (`ModeCommitted` of `ExposureControl`), for every
  choice of the constants.  `ModeInv` extends the property to the calls under way,
  `CommitInv` says that `open` does not run on an open camera.  `AutoTheorem`:
  `AutoStaysAuto` for a camera opened once that reports nothing before `open` has
  finished; `AutoInv` says for each place of `open` and of the setters that what they
  are about to commit was asked for.

`MCThreads`: `PartsMove` splits a step of the composition, and each part has an
invariant that is inductive by itself.

* `CountsTheorem` (`CountsAreRight`), for any finite sets of threads and headers.
  `QueueInv` is the invariant of `MmalQueue`.  `TunnelInv` says, of two connected
  ports, where every header of the pool between them is, that what the transit
  counts count is on its way, who holds the two connection locks at each place of a
  call, and which half-made state a failed call may leave.  It is proved for one
  failure in a component (`OneFailure`): after a second one the pool can be
  destroyed with headers out.  `EventsInv` says, for each state of a waiter's timer
  and semaphore, how far the waiter is and whether it is in the list: it is woken
  once, by a setter or by its timer.
* `AliveTheorem` (`AliveWhileReferenced`), for the same sets and any number of
  contexts.  `ComponentInv`: the two counts of a component are the references
  threads hold (`Held`), and one thread at most is busy destroying it.
  `ClientInv`: a thread uses the service exactly while it has a waiter or its open
  has not yet let go, and unless a use was refused these threads are the count.
  `DecoderInv`: the count of a context is the set of its holders, and a context
  that is free has no wrapper.  The last needs `CleanDecoder`: contexts are
  released when nobody is looking one up, and set-up does not fail late; these are
  the settings of the run, and without them it does not hold (`ReleaseAlone` and
  `FailAt` in section 3).

* `AnswersTheorem` (`AnswersMatch`), for any finite set of pool messages and any
  threads, requests, slices and chunks; `CleanDecoder` is needed here too.  `LinkInv`:
  the messages, replies and transfers between the client and VideoCore belong, in
  their order, to the threads that wait for them, each waiter to one request.
  `MessagesInv` is the invariant of `VcosMessages`.  `EncoderInv` and `DecodedInv`
  follow a picture: what was received is, in order, what was made so far, and
  what is on its way comes next.
* `HeadersTheorem` (`HeadersKept`), for any headers, slots and threads that set the
  clocks one at a time (`Serialised`), from the invariants of `Scheduler` and
  `ClockPort`.

They need `MCThreadsConstants`, which TLC evaluates: that no thread has the name that
stands for a free lock, for nobody, for the client or for the action thread.

`OmxCommands`: `CommandsTheorem` (`OneTransition`, `NeverShort` and
`CompleteWhenDone`), for one port of any number of buffers, any commands in any
order and any failures of MMAL (`OmxAssumption`: `OmxPorts = 1`).  `OmxInv` speaks
of the frame a thread is in (`View`), not of whole stacks; `CmdShape` and
`ClientShape` say which stacks there are.  Its parts:

* `QuietIdle`: while the command thread takes the next command or starts one, the
  port has no actions and no transition is under way; this is `OneTransition`.  It
  needs `OwedLeft`, which counts what is owed against the commands queued and the one
  in progress, and `ClientAsked`, what the client's own call is there for.
* `InProgress`: which actions a port may have while a command or transition enables,
  disables or flushes it (`Enabling`, `Disabling`, `Flushing`), and that what is no
  longer among them has been done.  `RunsMarked` ties the actions a thread has taken
  and not yet carried out to their `pending` marks: two threads never carry out the
  same action, and the last notification waits for both.
* `Headers`: MMAL's pool and the client together have a header for every buffer while
  the port is on; `EnabledOn` says when it must be.  This is `NeverShort`.
* `NotifyDone`: what a transition that is about to be reported has achieved.

`OnlyAnswers` says which steps answer a command, and `OmxReports` that each of them
finds it done.  `OmxPorts = 1` stays a hypothesis, in the run too: with two ports TLC
finds a counterexample to `CompleteWhenDone`.  `OMX_ALL` enables the first port, which
is done at once, so `actions_next` takes a transition to Idle inside the loop over the
ports (`mmalomx_commands.c:205`); the loop then assigns the second port the actions of
the enable, its flush is forgotten, and the transition is reported with a buffer still
out.  With two commands `OneTransition` and `NeverShort` do hold of two ports.

`MCPlayers`, from `MCPlayersConstants` (what the parts are given to play, which TLC
evaluates); `PartsMove` splits a step, and each part has an inductive invariant:

* `FormatTheorem` (`FormatKnown`), for any inputs and numbers of headers, with one
  OpenMAX IL port as above, and a client that does not enable a sound output whose
  track could not be made (`~EnableAnyway`; otherwise the track is used when it is
  NULL, as section 3 says).  `CopyInv`, `RenderInv`: the input waiting is what follows
  the inputs taken (`Follows`), and the format is the one the events among these set
  (`FirstOfNext`, `LastEvent`); while nothing waits for the client it knows it.
  `DecoderInv`: a frame that waits has the codec's format.  `MediaInv` is about a
  queue in which frames and announcements of formats are mixed: `Under` gives the
  format of what is at a place of it, by the last announcement before or, if there is
  none, by what the client will have done (`CurrentFormat`); every frame in it is under
  its own (`Kept`), and the codec's own format comes last.
* `OrderTheorem` (`CopiedInOrder` and `RenderedInOrder`, parts of `InOrder`), from the
  same invariants, without hypotheses.
* `CompletionTheorem` (`CompleteWhenDone`), from `OmxInv` and `OmxReports`.

Only model-checked: everything with fairness (`GrabIsServedInTime`,
`OwnerReturns`, `PictureReturnsIfPooled`, `CallsReturn`, `DueHappens`,
`PlaysToEnd`), which is out of the prover's reach; the properties of `MCBuffers`
(`HeadersAccounted`, `OrderAndContent`, `NothingLeftBehind`, `InStep`,
`StepsRight`), whose `GraphPorts` is recursive, which leaves tlapm without its SMT
backend; and `InOrder` of `MCPlayers` as a whole, whose parts about the reader, the
decoder and the sound output concatenate and add up over sequences, which takes
induction over data.

## 5. Not modelled

* Failures inside `create_camera_component`; a pool that could not be created,
  which is used through NULL at once; a failing `mmal_port_disable`.
* Frame rate and sensor mode.
* The body of a user callback: it returns.  Called with `_mutex` held, it must
  not call `grab` or `release`.
* `startCapture` with a callback in the still mode: no public class calls it.
* `RaspiCam_Still_Cv` and the other public wrappers (forwarding), `Scaler`
  (floating point), `getId` (I/O), the utilities, the stand-ins for MMAL.
* Of MMAL: the registry of suppliers, statistics, the layout of messages, the
  opaque and DRM allocators, the construction of graphs, and the aggregator, which
  forwards calls to its parts.  Codecs, containers and devices are external.
  A seek the container refuses is assumed to leave it where it was.
* Of OpenMAX IL: tables of parameters beyond a row of each shape, marks, logging.
* Of VCOS: logging, dynamic loading, wrappers of one pthreads call, headers.

## 6. Plan

Done: the frame path of the video mode and its proofs, taking a picture,
exposure, frames, settings, set-up, and the MMAL and VCOS parts above.  Next:

1. Proofs: `GraphPorts` without recursion, for those of `MCBuffers`; `OmxCommands`
   with several ports.
2. `PictureSpec`: what `takePicture` promises, and `StillCapture` shown to
   implement it; a failing `mmal_port_disable`.
3. `VideoCapture` over `MmalQueue` in place of its sets of headers.
4. A rational `Scaler`.
