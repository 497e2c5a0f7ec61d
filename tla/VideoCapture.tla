---------------------------- MODULE VideoCapture ----------------------------
(***************************************************************************)
(* The frame path of raspicam's video mode (class Private_Impl): the       *)
(* application threads that call open, startCapture, grab, retrieve,       *)
(* setUserCallback and release, the MMAL thread that runs                  *)
(* video_buffer_callback, and the part of MMAL between them: the pool of   *)
(* buffer headers, the video port and its shutdown.                        *)
(*                                                                         *)
(* One thread, Owner, opens, starts, releases and registers the user       *)
(* callback; every thread of Clients may grab and retrieve.  A frame is    *)
(* anonymous: what matters is which header carries one and who has stored  *)
(* or overwritten the internal image.  Headers in a queue are              *)
(* interchangeable, so MMAL's queues are sets of headers.                  *)
(***************************************************************************)
EXTENDS Naturals, FiniteSets

CONSTANTS
  Clients,          \* application threads
  Owner,            \* the one that opens, starts and releases the camera
  Buffers,          \* headers of State.video_pool
  Callbacks,        \* user callbacks the application registers
  NoBuffer,         \* the NULL header
  NoCallback,       \* the NULL user callback
  MaxSendFailures,  \* bound: sends the firmware refuses between two opens
  Restart,          \* may startCapture be called while capturing?
  LateRegister      \* may setUserCallback be called while capturing?

ASSUME ClientsAssumption == Owner \in Clients
ASSUME BuffersAssumption == IsFiniteSet(Buffers) /\ NoBuffer \notin Buffers
ASSUME CallbacksAssumption == NoCallback \notin Callbacks
ASSUME BoundAssumption == MaxSendFailures \in Nat
ASSUME UsageAssumption == Restart \in BOOLEAN /\ LateRegister \in BOOLEAN

VARIABLES
  isOpened, isCapturing,   \* _isOpened, _isCapturing
  pool,                    \* State.video_pool and the component: live or not
  is_enabled,              \* camera_video_port->is_enabled
  captureOn,               \* MMAL_PARAMETER_CAPTURE of the video port
  queue,                   \* headers in video_pool->queue
  held,                    \* headers the firmware holds, waiting for a frame
  returned,                \* headers in the component's callback_queue
  filled,                  \* those of them with length # 0
  failures,                \* sends refused since open
  action_mutex,            \* who holds it: "free", "action" thread, "owner"
  mutex,                   \* callback_data._mutex is held by the callback
  wantToGrab, ready,       \* PORT_USERDATA and ThreadCondition flags
  buffSize,                \* _buffData.size # 0
  userCallback, userCallbackData,
  pc,                      \* where each client is
  num, outgoing,           \* startCapture's loop bound and its header
  newCallback,             \* setUserCallback's argument
  cb,                      \* where video_buffer_callback is
  cbBuf, cbLength, cbNew, cbFn, hasGrabbed,  \* its locals
  lastCall,                \* history: arguments of the last user call
  image,                   \* history: each client's grabbed image
  stored                   \* history: clients with a frame since they asked

appVars == <<isOpened, isCapturing, num, outgoing, newCallback>>
portVars == <<pool, is_enabled, captureOn>>
headerVars == <<queue, held, returned, filled, failures>>
handshakeVars == <<wantToGrab, ready, pc>>
frameVars == <<buffSize, image, stored>>
userVars == <<userCallback, userCallbackData>>
cbVars == <<cb, cbBuf, cbLength, cbNew, cbFn, hasGrabbed, lastCall>>
lockVars == <<action_mutex, mutex>>
vars == <<appVars, portVars, headerVars, handshakeVars, frameVars, userVars,
          cbVars, lockVars>>

ClientPC == {"idle", "grab", "waiting", "woken", "retrieve"}
OwnerPC == {"start", "get", "send", "disable", "drain", "transit", "destroy",
            "close", "register"}
CallbackPC == {"idle", "lock", "copy", "release", "get", "send", "user",
               "call", "broadcast", "return"}

At(c, place) == pc[c] = place
Goto(c, place) == pc' = [pc EXCEPT ![c] = place]

\* mmal_queue_get: some header, or NULL when the queue is empty.
Get(q) == IF q = {} THEN {NoBuffer} ELSE q

Init ==
  /\ isOpened = FALSE /\ isCapturing = FALSE
  /\ pool = FALSE /\ is_enabled = FALSE /\ captureOn = FALSE
  /\ queue = {} /\ held = {} /\ returned = {} /\ filled = {} /\ failures = 0
  /\ action_mutex = "free" /\ mutex = FALSE
  /\ wantToGrab = FALSE /\ ready = FALSE
  /\ buffSize = FALSE
  /\ userCallback = NoCallback /\ userCallbackData = NoCallback
  /\ pc = [c \in Clients |-> "idle"]
  /\ num = 0 /\ outgoing = NoBuffer /\ newCallback = NoCallback
  /\ cb = "idle" /\ cbBuf = NoBuffer /\ cbLength = FALSE /\ cbNew = NoBuffer
  /\ cbFn = NoCallback /\ hasGrabbed = FALSE
  /\ lastCall = <<NoCallback, NoCallback>>
  /\ image = [c \in Clients |-> "none"]
  /\ stored = {}

-----------------------------------------------------------------------------
(* The application threads                                                 *)

\* open: component, ports and pool are created, the port is enabled, every
\* header is in the pool; then startCapture unless the caller declined it.
\* An open that fails destroys what it made and leaves this state alone.
Open(startNow) ==
  /\ At(Owner, "idle") /\ ~isOpened
  /\ isOpened' = TRUE
  /\ pool' = TRUE /\ is_enabled' = TRUE /\ captureOn' = FALSE
  /\ queue' = Buffers /\ held' = {} /\ returned' = {} /\ filled' = {}
  /\ failures' = 0
  /\ Goto(Owner, IF startNow THEN "start" ELSE "idle")
  /\ UNCHANGED <<isCapturing, num, outgoing, newCallback, wantToGrab, ready,
                 frameVars, userVars, cbVars, lockVars>>

\* The application calls startCapture itself.
StartCapture ==
  /\ At(Owner, "idle") /\ isOpened /\ (Restart \/ ~isCapturing)
  /\ Goto(Owner, "start")
  /\ UNCHANGED <<appVars, portVars, headerVars, wantToGrab, ready, frameVars,
                 userVars, cbVars, lockVars>>

\* Mutant: the loop of startCapture runs once too often.
StartParameterOneMore ==
  /\ At(Owner, "start")
  /\ captureOn' = TRUE
  /\ num' = Cardinality(queue) + 1
  /\ Goto(Owner, "get")
  /\ UNCHANGED <<isOpened, isCapturing, outgoing, newCallback, pool,
                 is_enabled, headerVars, wantToGrab, ready, frameVars,
                 userVars, cbVars, lockVars>>

\* MMAL_PARAMETER_CAPTURE = 1, then the length of the pool's queue.
StartParameter ==
  /\ At(Owner, "start")
  /\ captureOn' = TRUE
  /\ num' = Cardinality(queue)
  /\ Goto(Owner, "get")
  /\ UNCHANGED <<isOpened, isCapturing, outgoing, newCallback, pool,
                 is_enabled, headerVars, wantToGrab, ready, frameVars,
                 userVars, cbVars, lockVars>>

\* Beginning of release: mmal_port_disable clears is_enabled.
ClearEnabled ==
  /\ is_enabled' = FALSE
  /\ Goto(Owner, "disable")
  /\ UNCHANGED <<appVars, pool, captureOn, headerVars, wantToGrab, ready,
                 frameVars, userVars, cbVars, lockVars>>

\* Setting the parameter failed: startCapture releases the camera.
StartFails == At(Owner, "start") /\ ClearEnabled

\* One turn of startCapture's loop takes a header from the pool ...
StartGet ==
  /\ At(Owner, "get") /\ num > 0
  /\ \E b \in Get(queue) : outgoing' = b /\ queue' = queue \ {b}
  /\ num' = num - 1
  /\ Goto(Owner, "send")
  /\ UNCHANGED <<isOpened, isCapturing, newCallback, portVars, held, returned,
                 filled, failures, wantToGrab, ready, frameVars, userVars,
                 cbVars, lockVars>>

\* mmal_port_send_buffer: refused on a disabled port, or by the firmware; a
\* refused header stays with nobody until the pool is destroyed.
SendBuffer(b) ==
  \/ /\ is_enabled
     /\ held' = held \cup {b}
     /\ UNCHANGED failures
  \/ /\ is_enabled /\ failures < MaxSendFailures
     /\ failures' = failures + 1
     /\ UNCHANGED held
  \/ /\ ~is_enabled
     /\ UNCHANGED <<held, failures>>

\* ... and sends it to the video port, ignoring a failure.
StartSend ==
  /\ At(Owner, "send") /\ outgoing # NoBuffer
  /\ SendBuffer(outgoing)
  /\ outgoing' = NoBuffer
  /\ Goto(Owner, "get")
  /\ UNCHANGED <<isOpened, isCapturing, num, newCallback, portVars, queue,
                 returned, filled, wantToGrab, ready, frameVars, userVars,
                 cbVars, lockVars>>

StartDone ==
  /\ At(Owner, "get") /\ num = 0
  /\ isCapturing' = TRUE
  /\ Goto(Owner, "idle")
  /\ UNCHANGED <<isOpened, num, outgoing, newCallback, portVars, headerVars,
                 wantToGrab, ready, frameVars, userVars, cbVars, lockVars>>

\* grab: the unlocked test of isCapturing ...
Grab(c) ==
  /\ At(c, "idle") /\ isCapturing
  /\ Goto(c, "grab")
  /\ UNCHANGED <<appVars, portVars, headerVars, wantToGrab, ready, frameVars,
                 userVars, cbVars, lockVars>>

\* Mutant: Wait does not reset ready.
WaitForFrameStale(c) ==
  /\ At(c, "grab") /\ ~mutex
  /\ wantToGrab' = TRUE
  /\ stored' = stored \ {c}
  /\ Goto(c, IF ready THEN "woken" ELSE "waiting")
  /\ UNCHANGED <<appVars, portVars, headerVars, ready, buffSize, image,
                 userVars, cbVars, lockVars>>

\* ... then waitForFrame: under the mutex it asks for a frame, resets ready
\* and goes to sleep, which gives the mutex back.
WaitForFrame(c) ==
  /\ At(c, "grab") /\ ~mutex
  /\ wantToGrab' = TRUE
  /\ ready' = FALSE
  /\ stored' = stored \ {c}
  /\ Goto(c, "waiting")
  /\ UNCHANGED <<appVars, portVars, headerVars, buffSize, image, userVars,
                 cbVars, lockVars>>

\* A condition variable may wake a sleeper for no reason.
SpuriousWakeup(c) ==
  /\ At(c, "waiting")
  /\ Goto(c, "woken")
  /\ UNCHANGED <<appVars, portVars, headerVars, wantToGrab, ready, frameVars,
                 userVars, cbVars, lockVars>>

\* Awake with the mutex again: grab returns true when ready, else it sleeps.
Recheck(c) ==
  /\ At(c, "woken") /\ ~mutex
  /\ Goto(c, IF ready THEN "idle" ELSE "waiting")
  /\ image' = IF ready THEN [image EXCEPT ![c] = "intact"] ELSE image
  /\ UNCHANGED <<appVars, portVars, headerVars, wantToGrab, ready, buffSize,
                 stored, userVars, cbVars, lockVars>>

\* retrieve copies _buffData without the mutex: a copy begins and ends.
Retrieve(c) ==
  /\ At(c, "idle") /\ buffSize
  /\ Goto(c, "retrieve")
  /\ UNCHANGED <<appVars, portVars, headerVars, wantToGrab, ready, frameVars,
                 userVars, cbVars, lockVars>>

RetrieveDone(c) ==
  /\ At(c, "retrieve")
  /\ Goto(c, "idle")
  /\ UNCHANGED <<appVars, portVars, headerVars, wantToGrab, ready, frameVars,
                 userVars, cbVars, lockVars>>

\* Mutant: the argument is not stored.
SetUserCallbackNoData(f) ==
  /\ At(Owner, "idle") /\ (LateRegister \/ ~isCapturing)
  /\ newCallback' = f
  /\ Goto(Owner, "register")
  /\ UNCHANGED <<isOpened, isCapturing, num, outgoing, portVars, headerVars,
                 wantToGrab, ready, frameVars, userVars, cbVars, lockVars>>

\* setUserCallback stores the argument first and the function second, with
\* no lock.  The application passes callback f the argument f; NULL for NULL.
SetUserCallbackData(f) ==
  /\ At(Owner, "idle") /\ (LateRegister \/ ~isCapturing)
  /\ userCallbackData' = f
  /\ newCallback' = f
  /\ Goto(Owner, "register")
  /\ UNCHANGED <<isOpened, isCapturing, num, outgoing, portVars, headerVars,
                 wantToGrab, ready, frameVars, userCallback, cbVars, lockVars>>

SetUserCallback ==
  /\ At(Owner, "register")
  /\ userCallback' = newCallback
  /\ newCallback' = NoCallback
  /\ Goto(Owner, "idle")
  /\ UNCHANGED <<isOpened, isCapturing, num, outgoing, portVars, headerVars,
                 wantToGrab, ready, frameVars, userCallbackData, cbVars,
                 lockVars>>

-----------------------------------------------------------------------------
(* release, on the owner's thread                                          *)

Release == At(Owner, "idle") /\ isOpened /\ ClearEnabled

\* Mutant: disabling the port waits for nobody.
DisablePortAsync ==
  /\ At(Owner, "disable")
  /\ captureOn' = FALSE
  /\ returned' = returned \cup held
  /\ held' = {}
  /\ \E full \in SUBSET held : filled' = filled \cup full
  /\ Goto(Owner, "destroy")
  /\ UNCHANGED <<appVars, pool, is_enabled, queue, failures, wantToGrab,
                 ready, frameVars, userVars, cbVars, lockVars>>

\* With the component's action mutex held the firmware disables the port: it
\* stops capturing and first sends every header back, some with a frame.
DisablePort ==
  /\ At(Owner, "disable") /\ action_mutex = "free"
  /\ action_mutex' = "owner"
  /\ captureOn' = FALSE
  /\ returned' = returned \cup held
  /\ held' = {}
  /\ \E full \in SUBSET held : filled' = filled \cup full
  /\ Goto(Owner, "drain")
  /\ UNCHANGED <<appVars, pool, is_enabled, queue, failures, wantToGrab,
                 ready, frameVars, userVars, cbVars, mutex>>

\* The queued callbacks are all done, on this thread; the mutex is released.
DrainDone ==
  /\ At(Owner, "drain") /\ returned = {} /\ cb = "idle"
  /\ action_mutex' = "free"
  /\ Goto(Owner, "transit")
  /\ UNCHANGED <<appVars, portVars, headerVars, wantToGrab, ready, frameVars,
                 userVars, cbVars, mutex>>

\* Headers sent to the port whose callback has not returned.
InTransit == held # {} \/ returned # {} \/ cb # "idle"

TransitWait ==
  /\ At(Owner, "transit") /\ ~InTransit
  /\ Goto(Owner, "destroy")
  /\ UNCHANGED <<appVars, portVars, headerVars, wantToGrab, ready, frameVars,
                 userVars, cbVars, lockVars>>

\* destroy_camera_component frees the pool with its headers, the component.
Destroy ==
  /\ At(Owner, "destroy")
  /\ pool' = FALSE
  /\ queue' = {}
  /\ Goto(Owner, "close")
  /\ UNCHANGED <<appVars, is_enabled, captureOn, held, returned, filled,
                 failures, wantToGrab, ready, frameVars, userVars, cbVars,
                 lockVars>>

Close ==
  /\ At(Owner, "close")
  /\ isOpened' = FALSE
  /\ isCapturing' = FALSE
  /\ Goto(Owner, "idle")
  /\ UNCHANGED <<num, outgoing, newCallback, portVars, headerVars, wantToGrab,
                 ready, frameVars, userVars, cbVars, lockVars>>

-----------------------------------------------------------------------------
(* The firmware and MMAL's action thread                                   *)

\* The firmware gives a header back, with a frame or (length 0) without.
Fill(b, full) ==
  /\ captureOn /\ b \in held
  /\ held' = held \ {b}
  /\ returned' = returned \cup {b}
  /\ filled' = IF full THEN filled \cup {b} ELSE filled
  /\ UNCHANGED <<appVars, portVars, queue, failures, handshakeVars, frameVars,
                 userVars, cbVars, lockVars>>

\* The action thread runs the queued callbacks with the action mutex held.
ActionLock ==
  /\ action_mutex = "free" /\ returned # {}
  /\ action_mutex' = "action"
  /\ UNCHANGED <<appVars, portVars, headerVars, handshakeVars, frameVars,
                 userVars, cbVars, mutex>>

ActionUnlock ==
  /\ action_mutex = "action" /\ returned = {} /\ cb = "idle"
  /\ action_mutex' = "free"
  /\ UNCHANGED <<appVars, portVars, headerVars, handshakeVars, frameVars,
                 userVars, cbVars, mutex>>

\* Mutant: the length of a delivered header is not reset.
DeliverKeepsLength(b) ==
  /\ action_mutex # "free" /\ cb = "idle" /\ b \in returned
  /\ returned' = returned \ {b}
  /\ cb' = "lock" /\ cbBuf' = b /\ cbLength' = (b \in filled)
  /\ hasGrabbed' = FALSE
  /\ UNCHANGED <<appVars, portVars, queue, held, filled, failures,
                 handshakeVars, frameVars, userVars, cbNew, cbFn, lastCall,
                 lockVars>>

\* mmal_vc_do_callback, on the action thread or in the owner's drain loop.
Deliver(b) ==
  /\ action_mutex # "free" /\ cb = "idle" /\ b \in returned
  /\ returned' = returned \ {b}
  /\ filled' = filled \ {b}
  /\ cb' = "lock" /\ cbBuf' = b /\ cbLength' = (b \in filled)
  /\ hasGrabbed' = FALSE
  /\ UNCHANGED <<appVars, portVars, queue, held, failures, handshakeVars,
                 frameVars, userVars, cbNew, cbFn, lastCall, lockVars>>

-----------------------------------------------------------------------------
(* video_buffer_callback                                                   *)

\* Mutant: the request is cleared whether or not the frame is copied.
CbLockDropsRequest ==
  LET wanted == cbLength /\ (userCallback # NoCallback \/ wantToGrab) IN
  /\ cb = "lock" /\ ~mutex
  /\ mutex' = TRUE
  /\ wantToGrab' = FALSE
  /\ cb' = IF wanted THEN "copy" ELSE "release"
  /\ UNCHANGED <<appVars, portVars, headerVars, ready, pc, frameVars,
                 userVars, cbBuf, cbLength, cbNew, cbFn, hasGrabbed, lastCall,
                 action_mutex>>

\* Takes the mutex and decides whether the frame is wanted; the copy that
\* then starts overwrites every image grabbed before.
CbLock ==
  LET wanted == cbLength /\ (userCallback # NoCallback \/ wantToGrab) IN
  /\ cb = "lock" /\ ~mutex
  /\ mutex' = TRUE
  /\ cb' = IF wanted THEN "copy" ELSE "release"
  /\ image' = IF wanted
              THEN [c \in Clients |-> IF image[c] = "none" THEN "none"
                                      ELSE "rewritten"]
              ELSE image
  /\ UNCHANGED <<appVars, portVars, headerVars, handshakeVars, buffSize,
                 stored, userVars, cbBuf, cbLength, cbNew, cbFn, hasGrabbed,
                 lastCall, action_mutex>>

\* Mutant: the request is not cleared.
CbCopyKeepsRequest ==
  /\ cb = "copy"
  /\ hasGrabbed' = TRUE
  /\ buffSize' = TRUE
  /\ stored' = Clients
  /\ cb' = "release"
  /\ UNCHANGED <<appVars, portVars, headerVars, handshakeVars, image,
                 userVars, cbBuf, cbLength, cbNew, cbFn, lastCall, lockVars>>

\* The copy is complete: the request is served.
CbCopy ==
  /\ cb = "copy"
  /\ wantToGrab' = FALSE
  /\ hasGrabbed' = TRUE
  /\ buffSize' = TRUE
  /\ stored' = Clients
  /\ cb' = "release"
  /\ UNCHANGED <<appVars, portVars, headerVars, ready, pc, image, userVars,
                 cbBuf, cbLength, cbNew, cbFn, lastCall, lockVars>>

CbRelease ==
  /\ cb = "release"
  /\ queue' = queue \cup {cbBuf}
  /\ cbBuf' = NoBuffer
  /\ cb' = "get"
  /\ UNCHANGED <<appVars, portVars, held, returned, filled, failures,
                 handshakeVars, frameVars, userVars, cbLength, cbNew, cbFn,
                 hasGrabbed, lastCall, lockVars>>

\* Mutant: the header is looked at and stays in the queue.
CbGetPeeks ==
  /\ cb = "get"
  /\ \E b \in IF is_enabled THEN Get(queue) ELSE {NoBuffer} :
       /\ cbNew' = b
       /\ cb' = IF b = NoBuffer THEN "user" ELSE "send"
  /\ UNCHANGED <<appVars, portVars, headerVars, handshakeVars, frameVars,
                 userVars, cbBuf, cbLength, cbFn, hasGrabbed, lastCall,
                 lockVars>>

\* Mutant: a header goes back to the port only if its frame was wanted.
CbGetOnlyIfGrabbed ==
  /\ cb = "get"
  /\ \E b \in IF is_enabled /\ hasGrabbed THEN Get(queue) ELSE {NoBuffer} :
       /\ cbNew' = b
       /\ queue' = queue \ {b}
       /\ cb' = IF b = NoBuffer THEN "user" ELSE "send"
  /\ UNCHANGED <<appVars, portVars, held, returned, filled, failures,
                 handshakeVars, frameVars, userVars, cbBuf, cbLength, cbFn,
                 hasGrabbed, lastCall, lockVars>>

\* On a port still enabled, a header goes back to it.
CbGet ==
  /\ cb = "get"
  /\ \E b \in IF is_enabled THEN Get(queue) ELSE {NoBuffer} :
       /\ cbNew' = b
       /\ queue' = queue \ {b}
       /\ cb' = IF b = NoBuffer THEN "user" ELSE "send"
  /\ UNCHANGED <<appVars, portVars, held, returned, filled, failures,
                 handshakeVars, frameVars, userVars, cbBuf, cbLength, cbFn,
                 hasGrabbed, lastCall, lockVars>>

CbSend ==
  /\ cb = "send"
  /\ SendBuffer(cbNew)
  /\ cbNew' = NoBuffer
  /\ cb' = "user"
  /\ UNCHANGED <<appVars, portVars, queue, returned, filled, handshakeVars,
                 frameVars, userVars, cbBuf, cbLength, cbFn, hasGrabbed,
                 lastCall, lockVars>>

\* The shutter speed may be sent to the component again (a parameter outside
\* this module); then the function pointer is read ...
CbUser ==
  /\ cb = "user"
  /\ cbFn' = IF hasGrabbed THEN userCallback ELSE NoCallback
  /\ cb' = IF cbFn' = NoCallback THEN "broadcast" ELSE "call"
  /\ UNCHANGED <<appVars, portVars, headerVars, handshakeVars, frameVars,
                 userVars, cbBuf, cbLength, cbNew, hasGrabbed, lastCall,
                 lockVars>>

\* ... and called with the argument stored at that moment.
CbCall ==
  /\ cb = "call"
  /\ lastCall' = <<cbFn, userCallbackData>>
  /\ cbFn' = NoCallback
  /\ cb' = "broadcast"
  /\ UNCHANGED <<appVars, portVars, headerVars, handshakeVars, frameVars,
                 userVars, cbBuf, cbLength, cbNew, hasGrabbed, lockVars>>

\* Mutant: the sleepers are notified but ready stays false.
CbBroadCastNotReady ==
  /\ cb = "broadcast"
  /\ pc' = [c \in Clients |-> IF hasGrabbed /\ pc[c] = "waiting"
                              THEN "woken" ELSE pc[c]]
  /\ mutex' = FALSE
  /\ cb' = "return"
  /\ UNCHANGED <<appVars, portVars, headerVars, wantToGrab, ready, frameVars,
                 userVars, cbBuf, cbLength, cbNew, cbFn, hasGrabbed, lastCall,
                 action_mutex>>

\* Mutant: the mutex is released only on the path that stored a frame.
CbBroadCastKeepsMutex ==
  /\ cb = "broadcast"
  /\ ready' = (ready \/ hasGrabbed)
  /\ pc' = [c \in Clients |-> IF hasGrabbed /\ pc[c] = "waiting"
                              THEN "woken" ELSE pc[c]]
  /\ mutex' = ~hasGrabbed
  /\ cb' = "return"
  /\ UNCHANGED <<appVars, portVars, headerVars, wantToGrab, frameVars,
                 userVars, cbBuf, cbLength, cbNew, cbFn, hasGrabbed, lastCall,
                 action_mutex>>

\* ThreadCondition::BroadCast if a frame was stored; the mutex is released.
CbBroadCast ==
  /\ cb = "broadcast"
  /\ ready' = (ready \/ hasGrabbed)
  /\ pc' = [c \in Clients |-> IF hasGrabbed /\ pc[c] = "waiting"
                              THEN "woken" ELSE pc[c]]
  /\ mutex' = FALSE
  /\ cb' = "return"
  /\ UNCHANGED <<appVars, portVars, headerVars, wantToGrab, frameVars,
                 userVars, cbBuf, cbLength, cbNew, cbFn, hasGrabbed, lastCall,
                 action_mutex>>

\* mmal_port_buffer_header_callback: the header stops being in transit.
CbReturn ==
  /\ cb = "return"
  /\ cb' = "idle"
  /\ hasGrabbed' = FALSE /\ cbLength' = FALSE
  /\ UNCHANGED <<appVars, portVars, headerVars, handshakeVars, frameVars,
                 userVars, cbBuf, cbNew, cbFn, lastCall, lockVars>>

-----------------------------------------------------------------------------
Client(c) ==
  \/ Grab(c) \/ WaitForFrame(c) \/ SpuriousWakeup(c) \/ Recheck(c)
  \/ Retrieve(c) \/ RetrieveDone(c)

OwnerCalls ==
  \/ \E startNow \in BOOLEAN : Open(startNow)
  \/ StartCapture
  \/ Release
  \/ \E f \in Callbacks \cup {NoCallback} : SetUserCallbackData(f)

OwnerSteps ==
  \/ StartParameter \/ StartFails \/ StartGet \/ StartSend \/ StartDone
  \/ DisablePort \/ DrainDone \/ TransitWait \/ Destroy \/ Close
  \/ SetUserCallback

Callback ==
  \/ CbLock \/ CbCopy \/ CbRelease \/ CbGet \/ CbSend \/ CbUser \/ CbCall
  \/ CbBroadCast \/ CbReturn

Mmal ==
  \/ \E b \in Buffers, full \in BOOLEAN : Fill(b, full)
  \/ ActionLock \/ ActionUnlock
  \/ \E b \in Buffers : Deliver(b)

Next ==
  \/ \E c \in Clients : Client(c)
  \/ OwnerCalls \/ OwnerSteps
  \/ Callback \/ Mmal

Spec == Init /\ [][Next]_vars

\* The scheduling assumed: threads make progress inside a call or a callback,
\* a grabbing thread is not refused the contended mutex for ever, and a camera
\* that is capturing and has headers delivers frames.  Nobody has to call
\* anything.
Fairness ==
  /\ WF_vars(OwnerSteps) /\ WF_vars(Callback)
  /\ WF_vars(ActionLock \/ ActionUnlock \/ \E b \in Buffers : Deliver(b))
  /\ SF_vars(\E b \in Buffers : Fill(b, TRUE))
  /\ \A c \in Clients : /\ SF_vars(WaitForFrame(c) \/ Recheck(c))
                        /\ WF_vars(RetrieveDone(c))

FairSpec == Spec /\ Fairness

-----------------------------------------------------------------------------
(* Properties                                                              *)

FlagsTypeOK ==
  /\ isOpened \in BOOLEAN /\ isCapturing \in BOOLEAN /\ pool \in BOOLEAN
  /\ is_enabled \in BOOLEAN /\ captureOn \in BOOLEAN /\ mutex \in BOOLEAN
  /\ wantToGrab \in BOOLEAN /\ ready \in BOOLEAN /\ buffSize \in BOOLEAN
  /\ cbLength \in BOOLEAN /\ hasGrabbed \in BOOLEAN

DataTypeOK ==
  /\ queue \subseteq Buffers /\ held \subseteq Buffers
  /\ returned \subseteq Buffers /\ filled \subseteq returned
  /\ failures \in Nat
  /\ action_mutex \in {"free", "action", "owner"}
  /\ userCallback \in Callbacks \cup {NoCallback}
  /\ userCallbackData \in Callbacks \cup {NoCallback}
  /\ newCallback \in Callbacks \cup {NoCallback}
  /\ pc \in [Clients -> ClientPC \cup OwnerPC]
  /\ \A c \in Clients \ {Owner} : pc[c] \in ClientPC
  /\ num \in Nat
  /\ outgoing \in Buffers \cup {NoBuffer}
  /\ cb \in CallbackPC
  /\ cbBuf \in Buffers \cup {NoBuffer} /\ cbNew \in Buffers \cup {NoBuffer}
  /\ cbFn \in Callbacks \cup {NoCallback}
  /\ lastCall \in (Callbacks \cup {NoCallback}) \X (Callbacks \cup {NoCallback})
  /\ image \in [Clients -> {"none", "intact", "rewritten"}]
  /\ stored \subseteq Clients

\* The values of the variables; a header is filled only while it waits in the
\* callback queue.
TypeOK == FlagsTypeOK /\ DataTypeOK

\* No lost wake-up in the grab handshake: while a client sleeps in
\* ThreadCondition::Wait, either its request is still posted or the callback
\* that took it still holds the mutex and will broadcast.
NoLostWakeup ==
  \A c \in Clients :
    At(c, "waiting") =>
      /\ ~ready
      /\ \/ wantToGrab
         \/ hasGrabbed /\ cb \in {"release", "get", "send", "user", "call",
                                  "broadcast"}

\* A header is never in two places at once (sent twice, or free in the pool
\* while the firmware, the callback or startCapture still uses it).
HeaderInOnePlace ==
  /\ queue \cap held = {} /\ queue \cap returned = {} /\ held \cap returned = {}
  /\ {cbBuf, cbNew, outgoing} \cap (queue \cup held \cup returned) = {}
  /\ cbBuf # NoBuffer => cbBuf # cbNew /\ cbBuf # outgoing
  /\ cbNew # NoBuffer => cbNew # outgoing

\* release frees the pool and the component only after the last callback has
\* returned: no callback, no header in flight and no send of startCapture
\* ever meets a destroyed pool.
NoUseAfterFree ==
  InTransit \/ pc[Owner] \in {"start", "get", "send"} => pool

\* While the camera captures, every header the firmware has not refused is
\* with it or on its way back: the callback returns as many as it takes, none
\* is stranded in the pool, and only refused sends slow the stream down.
AllHeadersCirculate ==
  isCapturing /\ is_enabled /\ cb \notin {"get", "send"}
    => Cardinality(held \cup returned \cup ({cbBuf} \ {NoBuffer})) + failures
         = Cardinality(Buffers)

\* startCapture never passes a NULL header to mmal_port_send_buffer.
NoNullHeader == At(Owner, "send") => outgoing # NoBuffer

\* What retrieve copies is the image the last grab of that client returned
\* with: no callback has begun to overwrite it since.
RetrieveGrabbedImage ==
  \A c \in Clients : At(c, "retrieve") => image[c] # "rewritten"

\* The user callback is called with the argument it was registered with.
CallbackGetsItsData == lastCall[1] = lastCall[2]

\* Calls of the owner terminate: release and startCapture cannot deadlock
\* with the callbacks, the grabbing threads or the shutdown of the port.
OwnerReturns == pc[Owner] \in OwnerPC ~> pc[Owner] \in ClientPC

\* grab blocks until the next frame and no longer: while the camera goes on
\* capturing, every grab that waits returns, whoever else grabs (the broadcast
\* is meant for all).
GrabReturns ==
  \A c \in Clients :
    At(c, "waiting") /\ isCapturing ~> At(c, "idle") \/ ~isCapturing

\* release leaves no grab behind: once the camera is closed no client sleeps
\* in ThreadCondition::Wait, where only a callback could wake it.
ReleaseEndsGrabs ==
  At(Owner, "idle") /\ ~isOpened => \A c \in Clients : ~At(c, "waiting")

\* The handshake implements GrabSpec.
Phase(c) == IF pc[c] \notin {"waiting", "woken"} THEN "out"
            ELSE IF c \in stored THEN "served" ELSE "in"

G == INSTANCE GrabSpec WITH phase <- [c \in Clients |-> Phase(c)]

\* A grab returns only after a frame was stored since it asked for one.
GrabIsServed == G!SafeSpec

\* ... and, with one client, every request is eventually served and returns.
GrabIsServedInTime == G!Spec

=============================================================================
