---------------------------- MODULE StillCapture ----------------------------
(***************************************************************************)
(* Taking a picture with raspicam's still mode (class Private_Impl_Still): *)
(* takePicture, startCapture and stopCapture on an application thread,     *)
(* buffer_callback on MMAL's, the RASPICAM_USERDATA and the semaphore they *)
(* share, and the encoder's output port and pool, which outlive the        *)
(* picture.                                                                *)
(*                                                                         *)
(* An encoded picture arrives in pieces, one per buffer header, the last   *)
(* one flagged FRAME_END.  A size (the product of width and height) is the *)
(* number of pieces a picture of that size has, and the length of a        *)
(* buffer is the number of pieces it has room for, once the BMP header is  *)
(* accounted for: getImageBufferSize allows for it and encoding RGB drops  *)
(* it.  The userdata and the semaphore of a call are named by its thread.  *)
(***************************************************************************)
EXTENDS Integers, FiniteSets, Sequences, SequencesExt

CONSTANTS
  Threads,      \* application threads that take pictures
  Buffers,      \* headers of encoder_pool
  NoBuffer,     \* the NULL header
  Nobody,       \* the NULL userdata
  Sizes,        \* picture sizes the application asks for, in pieces
  Faults,       \* failures that may happen, of FaultKinds
  MaxFaults,    \* bound: how many of them
  LateResize    \* may the size be set once the camera is open?

\* mmal_port_enable fails, MMAL_PARAMETER_CAPTURE cannot be set, the firmware
\* refuses a header, a piece comes back with TRANSMISSION_FAILED.
FaultKinds == {"enable", "capture", "send", "transmission"}

ASSUME StillBuffers == IsFiniteSet(Buffers) /\ NoBuffer \notin Buffers
ASSUME StillThreads == Nobody \notin Threads
ASSUME StillSizes == Sizes \subseteq Nat \ {0} /\ Sizes # {}
ASSUME StillBounds == /\ Faults \subseteq FaultKinds
                      /\ MaxFaults \in Nat /\ LateResize \in BOOLEAN

VARIABLES
  isInitialized,  \* _isInitialized: components, pool and connection exist
  size,           \* width and height, as set
  captured,       \* width and height of the camera's committed format
  is_enabled,     \* encoder_output_port->is_enabled
  portUserdata,   \* encoder_output_port->userdata
  captureOn,      \* a capture is under way
  piece,          \* the next piece the encoder makes
  queue,          \* headers in encoder_pool->queue
  held,           \* headers the encoder holds, empty
  returned,       \* callback_queue: what came back, oldest first
  action_mutex,   \* who holds it: "free", "action" or a thread
  pc,             \* where each thread is
  todo,           \* turns left of startCapture's loop
  userdata,       \* the RASPICAM_USERDATA of each thread's call
  mutex,          \* the semaphore of each thread's call
  result,         \* what the thread's last takePicture returned
  cb,             \* where buffer_callback is
  cbUser, cbMsg, cbNew,  \* its locals: userdata, buffer, new_buffer
  faults,         \* failures so far
  pooled          \* history: length of the pool when the port was enabled

cameraVars == <<isInitialized, size, captured>>
portVars == <<is_enabled, portUserdata, captureOn, piece>>
headerVars == <<queue, held, returned>>
callVars == <<pc, todo, userdata, mutex, result, pooled>>
cbVars == <<cb, cbUser, cbMsg, cbNew>>
vars == <<cameraVars, portVars, headerVars, action_mutex, callVars, cbVars,
          faults>>

ThreadPC == {"idle", "start", "send", "capture", "wait", "stop", "disable",
             "drain", "transit", "delete", "fail"}
CallbackPC == {"idle", "copy", "post", "release", "check", "get", "send",
               "return"}

At(t, place) == pc[t] = place
Goto(t, place) == pc' = [pc EXCEPT ![t] = place]

\* A header on its way to buffer_callback: the piece it carries (0: none, or
\* none that is intact), whether its length is 0, and its END_FLAG.
Message(b, n, empty, last) ==
  [buffer |-> b, piece |-> n, empty |-> empty, last |-> last]
NoMessage == Message(NoBuffer, 0, TRUE, FALSE)
NoUserdata == [live |-> FALSE, cameraBoard |-> FALSE, data |-> <<>>,
               length |-> 0]

Fault(kind) == /\ kind \in Faults /\ faults < MaxFaults
               /\ faults' = faults + 1

Init ==
  /\ isInitialized = FALSE /\ size \in Sizes /\ captured = 0
  /\ is_enabled = FALSE /\ portUserdata = Nobody
  /\ captureOn = FALSE /\ piece = 1
  /\ queue = {} /\ held = {} /\ returned = <<>>
  /\ action_mutex = "free"
  /\ pc = [t \in Threads |-> "idle"]
  /\ todo = [t \in Threads |-> 0]
  /\ userdata = [t \in Threads |-> NoUserdata]
  /\ mutex = [t \in Threads |-> [live |-> FALSE, count |-> 0]]
  /\ result = [t \in Threads |-> "none"]
  /\ cb = "idle" /\ cbUser = Nobody /\ cbMsg = NoMessage /\ cbNew = NoBuffer
  /\ faults = 0 /\ pooled = 0

-----------------------------------------------------------------------------
(* The application thread                                                  *)

\* setWidth, setHeight, setCaptureSize: stored, and committed to the camera
\* by nothing but the first initialize.
SetCaptureSize(t, n) ==
  /\ At(t, "idle") /\ (LateResize \/ ~isInitialized)
  /\ size' = n
  /\ UNCHANGED <<isInitialized, captured, portVars, headerVars, action_mutex,
                 callVars, cbVars, faults>>

\* initialize, the first time: the camera is created with the current size
\* and the encoder with its pool.
Initialize ==
  /\ isInitialized' = TRUE
  /\ captured' = IF isInitialized THEN captured ELSE size
  /\ queue' = IF isInitialized THEN queue ELSE Buffers
  /\ UNCHANGED <<size, held, returned>>

Open(t) ==
  /\ At(t, "idle") /\ ~isInitialized
  /\ Initialize
  /\ UNCHANGED <<portVars, action_mutex, callVars, cbVars, faults>>

\* takePicture, with the buffer of getImageBufferSize bytes the
\* documentation suggests: initialize, then userdata and semaphore are new
\* and the port points to the userdata, whatever it pointed to before.
TakePicture(t) ==
  /\ At(t, "idle")
  /\ Initialize
  /\ userdata' = [userdata EXCEPT ![t] =
       [live |-> TRUE, cameraBoard |-> TRUE, data |-> <<>>, length |-> size]]
  /\ mutex' = [mutex EXCEPT ![t] = [live |-> TRUE, count |-> 0]]
  /\ result' = [result EXCEPT ![t] = "none"]
  /\ portUserdata' = t
  /\ Goto(t, "start")
  /\ UNCHANGED <<is_enabled, captureOn, piece, action_mutex, todo, pooled,
                 cbVars, faults>>

\* startCapture: the port is enabled (mmal_port_enable waits for a disable
\* that is under way) and the pool's queue is measured.
EnablePort(t) ==
  /\ At(t, "start") /\ ~is_enabled
  /\ \A u \in Threads : pc[u] \notin {"disable", "drain", "transit"}
  /\ is_enabled' = TRUE
  /\ todo' = [todo EXCEPT ![t] = Cardinality(queue)]
  /\ pooled' = Cardinality(queue)
  /\ Goto(t, "send")
  /\ UNCHANGED <<cameraVars, portUserdata, captureOn, piece, headerVars,
                 action_mutex, userdata, mutex, result, cbVars, faults>>

\* ... or is enabled already, or cannot be.
EnableFails(t) ==
  /\ At(t, "start")
  /\ \/ is_enabled /\ UNCHANGED faults
     \/ ~is_enabled /\ Fault("enable")
  /\ Goto(t, "fail")
  /\ UNCHANGED <<cameraVars, portVars, headerVars, action_mutex, todo,
                 userdata, mutex, result, pooled, cbVars>>

\* mmal_port_send_buffer: a header refused, by the firmware or because the
\* port is disabled, is with nobody from then on.
SendBuffer(b) ==
  \/ is_enabled /\ held' = held \cup {b} /\ UNCHANGED faults
  \/ is_enabled /\ Fault("send") /\ UNCHANGED held
  \/ ~is_enabled /\ UNCHANGED <<held, faults>>

\* One turn of the loop that sends the pool's headers to the port.
StartSend(t) ==
  /\ At(t, "send") /\ todo[t] > 0
  /\ \E b \in queue : queue' = queue \ {b} /\ SendBuffer(b)
  /\ todo' = [todo EXCEPT ![t] = @ - 1]
  /\ UNCHANGED <<cameraVars, portVars, returned, action_mutex, pc, userdata,
                 mutex, result, pooled, cbVars>>

StartSendDone(t) ==
  /\ At(t, "send") /\ todo[t] = 0
  /\ Goto(t, "capture")
  /\ UNCHANGED <<cameraVars, portVars, headerVars, action_mutex, todo,
                 userdata, mutex, result, pooled, cbVars, faults>>

\* MMAL_PARAMETER_CAPTURE = 1 starts the picture.
StartCapture(t) ==
  /\ At(t, "capture")
  /\ captureOn' = TRUE /\ piece' = 1
  /\ Goto(t, "wait")
  /\ UNCHANGED <<cameraVars, is_enabled, portUserdata, headerVars,
                 action_mutex, todo, userdata, mutex, result, pooled, cbVars,
                 faults>>

\* If it fails startCapture returns with the port enabled.
StartFails(t) ==
  /\ At(t, "capture") /\ Fault("capture")
  /\ Goto(t, "fail")
  /\ UNCHANGED <<cameraVars, portVars, headerVars, action_mutex, todo,
                 userdata, mutex, result, pooled, cbVars>>

\* startCapture failed: the userdata is deleted, the semaphore goes with the
\* stack frame, the port keeps its pointer.
TakePictureFails(t) ==
  /\ At(t, "fail")
  /\ userdata' = [userdata EXCEPT ![t].live = FALSE]
  /\ mutex' = [mutex EXCEPT ![t].live = FALSE]
  /\ result' = [result EXCEPT ![t] = "false"]
  /\ Goto(t, "idle")
  /\ UNCHANGED <<cameraVars, portVars, headerVars, action_mutex, todo, pooled,
                 cbVars, faults>>

\* Mutant: nobody waits for the picture.
WaitForPictureNot(t) ==
  /\ At(t, "wait")
  /\ mutex' = [mutex EXCEPT ![t] = [live |-> FALSE, count |-> @.count - 1]]
  /\ Goto(t, "stop")
  /\ UNCHANGED <<cameraVars, portVars, headerVars, action_mutex, todo,
                 userdata, result, pooled, cbVars, faults>>

\* sem_wait returns, sem_destroy.
WaitForPicture(t) ==
  /\ At(t, "wait") /\ mutex[t].count > 0
  /\ mutex' = [mutex EXCEPT ![t] = [live |-> FALSE, count |-> @.count - 1]]
  /\ Goto(t, "stop")
  /\ UNCHANGED <<cameraVars, portVars, headerVars, action_mutex, todo,
                 userdata, result, pooled, cbVars, faults>>

\* Mutant: the port stays enabled.
StopCaptureNot(t) ==
  /\ At(t, "stop")
  /\ Goto(t, "delete")
  /\ UNCHANGED <<cameraVars, portVars, headerVars, action_mutex, todo,
                 userdata, mutex, result, pooled, cbVars, faults>>

\* stopCapture: mmal_port_disable begins by clearing is_enabled.
StopCapture(t) ==
  /\ At(t, "stop")
  /\ is_enabled' = FALSE
  /\ Goto(t, IF is_enabled THEN "disable" ELSE "delete")
  /\ UNCHANGED <<cameraVars, portUserdata, captureOn, piece, headerVars,
                 action_mutex, todo, userdata, mutex, result, pooled, cbVars,
                 faults>>

\* Mutant: disabling the port waits for nobody.
DisablePortAsync(t) ==
  /\ At(t, "disable")
  /\ captureOn' = FALSE
  /\ returned' = returned \o
       [i \in 1 .. Cardinality(held) |->
          Message(SetToSeq(held)[i], 0, TRUE, FALSE)]
  /\ held' = {}
  /\ Goto(t, "delete")
  /\ UNCHANGED <<cameraVars, is_enabled, portUserdata, piece, queue,
                 action_mutex, todo, userdata, mutex, result, pooled, cbVars,
                 faults>>

\* With the component's action mutex held the firmware disables the port: it
\* sends the headers it holds back, empty.
DisablePort(t) ==
  /\ At(t, "disable") /\ action_mutex = "free"
  /\ action_mutex' = t
  /\ captureOn' = FALSE
  /\ returned' = returned \o
       [i \in 1 .. Cardinality(held) |->
          Message(SetToSeq(held)[i], 0, TRUE, FALSE)]
  /\ held' = {}
  /\ Goto(t, "drain")
  /\ UNCHANGED <<cameraVars, is_enabled, portUserdata, piece, queue, todo,
                 userdata, mutex, result, pooled, cbVars, faults>>

DrainDone(t) ==
  /\ At(t, "drain") /\ returned = <<>> /\ cb = "idle"
  /\ action_mutex' = "free"
  /\ Goto(t, "transit")
  /\ UNCHANGED <<cameraVars, portVars, headerVars, todo, userdata, mutex,
                 result, pooled, cbVars, faults>>

\* Headers sent to the port whose callback has not returned.
InTransit == held # {} \/ returned # <<>> \/ cb # "idle"

TransitWait(t) ==
  /\ At(t, "transit") /\ ~InTransit
  /\ Goto(t, "delete")
  /\ UNCHANGED <<cameraVars, portVars, headerVars, action_mutex, todo,
                 userdata, mutex, result, pooled, cbVars, faults>>

\* The userdata is deleted and takePicture returns true.
TakePictureDone(t) ==
  /\ At(t, "delete")
  /\ userdata' = [userdata EXCEPT ![t].live = FALSE]
  /\ result' = [result EXCEPT ![t] = "true"]
  /\ Goto(t, "idle")
  /\ UNCHANGED <<cameraVars, portVars, headerVars, action_mutex, todo, mutex,
                 pooled, cbVars, faults>>

-----------------------------------------------------------------------------
(* The encoder and MMAL's action thread                                    *)

\* The encoder fills a header with the next piece; its transmission may
\* fail, which loses the piece and sets the other flag of END_FLAG.
Fill(b) ==
  /\ captureOn /\ b \in held
  /\ held' = held \ {b}
  /\ \/ /\ returned' = Append(returned,
                              Message(b, piece, FALSE, piece = captured))
        /\ UNCHANGED faults
     \/ /\ Fault("transmission")
        /\ returned' = Append(returned, Message(b, 0, FALSE, TRUE))
  /\ piece' = piece + 1
  /\ captureOn' = (piece < captured)
  /\ UNCHANGED <<cameraVars, is_enabled, portUserdata, queue, action_mutex,
                 callVars, cbVars>>

ActionLock ==
  /\ action_mutex = "free" /\ returned # <<>>
  /\ action_mutex' = "action"
  /\ UNCHANGED <<cameraVars, portVars, headerVars, callVars, cbVars, faults>>

ActionUnlock ==
  /\ action_mutex = "action" /\ returned = <<>> /\ cb = "idle"
  /\ action_mutex' = "free"
  /\ UNCHANGED <<cameraVars, portVars, headerVars, callVars, cbVars, faults>>

-----------------------------------------------------------------------------
(* buffer_callback; nothing excludes the application thread                *)

\* mmal_vc_do_callback calls buffer_callback, which reads port->userdata;
\* without userdata or cameraBoard the data is dropped, its flags unread.
Deliver ==
  /\ action_mutex # "free" /\ cb = "idle" /\ returned # <<>>
  /\ cbMsg' = Head(returned)
  /\ returned' = Tail(returned)
  /\ cbUser' = portUserdata
  /\ cb' = IF portUserdata # Nobody /\ userdata[portUserdata].cameraBoard
           THEN "copy" ELSE "release"
  /\ UNCHANGED <<cameraVars, portVars, queue, held, action_mutex, callVars,
                 cbNew, faults>>

\* Mutant: the buffer's end is tested for one place too late.
CbCopyOneMore ==
  /\ cb = "copy"
  /\ userdata' =
       CASE cbMsg.empty -> userdata
         [] ~cbMsg.empty /\ Len(userdata[cbUser].data) > userdata[cbUser].length
              -> [userdata EXCEPT ![cbUser].cameraBoard = FALSE]
         [] OTHER -> [userdata EXCEPT ![cbUser].data = Append(@, cbMsg.piece)]
  /\ cb' = IF cbMsg.last THEN "post" ELSE "release"
  /\ UNCHANGED <<cameraVars, portVars, headerVars, action_mutex, pc, todo,
                 mutex, result, pooled, cbUser, cbMsg, cbNew, faults>>

\* Mutant: the header that ends the picture is not copied.
CbCopyNotLast ==
  /\ cb = "copy"
  /\ userdata' =
       CASE cbMsg.empty \/ cbMsg.last -> userdata
         [] ~cbMsg.empty /\ Len(userdata[cbUser].data) >= userdata[cbUser].length
              -> [userdata EXCEPT ![cbUser].cameraBoard = FALSE]
         [] OTHER -> [userdata EXCEPT ![cbUser].data = Append(@, cbMsg.piece)]
  /\ cb' = IF cbMsg.last THEN "post" ELSE "release"
  /\ UNCHANGED <<cameraVars, portVars, headerVars, action_mutex, pc, todo,
                 mutex, result, pooled, cbUser, cbMsg, cbNew, faults>>

\* Mutant: the flags are not looked at, every piece announces the picture.
CbCopyAlwaysLast ==
  /\ cb = "copy"
  /\ userdata' =
       CASE cbMsg.empty -> userdata
         [] ~cbMsg.empty /\ Len(userdata[cbUser].data) >= userdata[cbUser].length
              -> [userdata EXCEPT ![cbUser].cameraBoard = FALSE]
         [] OTHER -> [userdata EXCEPT ![cbUser].data = Append(@, cbMsg.piece)]
  /\ cb' = IF ~cbMsg.empty THEN "post" ELSE "release"
  /\ UNCHANGED <<cameraVars, portVars, headerVars, action_mutex, pc, todo,
                 mutex, result, pooled, cbUser, cbMsg, cbNew, faults>>

\* The piece is appended to the caller's buffer, or the buffer is full and
\* cameraBoard is cleared; then the END_FLAG of the header is looked at.
CbCopy ==
  /\ cb = "copy"
  /\ userdata' =
       CASE cbMsg.empty -> userdata
         [] ~cbMsg.empty /\ Len(userdata[cbUser].data) >= userdata[cbUser].length
              -> [userdata EXCEPT ![cbUser].cameraBoard = FALSE]
         [] OTHER -> [userdata EXCEPT ![cbUser].data = Append(@, cbMsg.piece)]
  /\ cb' = IF cbMsg.last THEN "post" ELSE "release"
  /\ UNCHANGED <<cameraVars, portVars, headerVars, action_mutex, pc, todo,
                 mutex, result, pooled, cbUser, cbMsg, cbNew, faults>>

\* sem_post, before the header is given back.
CbPost ==
  /\ cb = "post"
  /\ mutex' = [mutex EXCEPT ![cbUser].count = @ + 1]
  /\ cb' = "release"
  /\ UNCHANGED <<cameraVars, portVars, headerVars, action_mutex, pc, todo,
                 userdata, result, pooled, cbUser, cbMsg, cbNew, faults>>

\* Mutant: the header is not released.
CbReleaseNot ==
  /\ cb = "release"
  /\ cbMsg' = NoMessage
  /\ cb' = "check"
  /\ UNCHANGED <<cameraVars, portVars, headerVars, action_mutex, callVars,
                 cbUser, cbNew, faults>>

CbRelease ==
  /\ cb = "release"
  /\ queue' = queue \cup {cbMsg.buffer}
  /\ cbMsg' = NoMessage
  /\ cb' = "check"
  /\ UNCHANGED <<cameraVars, portVars, held, returned, action_mutex, callVars,
                 cbUser, cbNew, faults>>

\* Mutant: the test of is_enabled is inverted.
CbCheckInverted ==
  /\ cb = "check"
  /\ cb' = IF is_enabled THEN "return" ELSE "get"
  /\ UNCHANGED <<cameraVars, portVars, headerVars, action_mutex, callVars,
                 cbUser, cbMsg, cbNew, faults>>

\* is_enabled is read with no lock ...
CbCheck ==
  /\ cb = "check"
  /\ cb' = IF is_enabled THEN "get" ELSE "return"
  /\ UNCHANGED <<cameraVars, portVars, headerVars, action_mutex, callVars,
                 cbUser, cbMsg, cbNew, faults>>

\* Mutant: the header is looked at and stays in the pool.
CbGetPeeks ==
  /\ cb = "get"
  /\ \E b \in IF queue = {} THEN {NoBuffer} ELSE queue :
       /\ cbNew' = b
       /\ cb' = IF b = NoBuffer THEN "return" ELSE "send"
  /\ UNCHANGED <<cameraVars, portVars, headerVars, action_mutex, callVars,
                 cbUser, cbMsg, faults>>

\* ... a header is taken from userdata->encoderPool ...
CbGet ==
  /\ cb = "get"
  /\ \E b \in IF queue = {} THEN {NoBuffer} ELSE queue :
       /\ cbNew' = b
       /\ queue' = queue \ {b}
       /\ cb' = IF b = NoBuffer THEN "return" ELSE "send"
  /\ UNCHANGED <<cameraVars, portVars, held, returned, action_mutex, callVars,
                 cbUser, cbMsg, faults>>

\* ... and sent to the port, whatever has become of it.
CbSend ==
  /\ cb = "send"
  /\ SendBuffer(cbNew)
  /\ cbNew' = NoBuffer
  /\ cb' = "return"
  /\ UNCHANGED <<cameraVars, portVars, queue, returned, action_mutex, callVars,
                 cbUser, cbMsg>>

CbReturn ==
  /\ cb = "return"
  /\ cb' = "idle"
  /\ cbUser' = Nobody
  /\ UNCHANGED <<cameraVars, portVars, headerVars, action_mutex, callVars,
                 cbMsg, cbNew, faults>>

-----------------------------------------------------------------------------
Calls(t) == \/ Open(t) \/ TakePicture(t)
            \/ \E n \in Sizes : SetCaptureSize(t, n)

Steps(t) ==
  \/ EnablePort(t) \/ EnableFails(t) \/ StartSend(t) \/ StartSendDone(t)
  \/ StartCapture(t) \/ StartFails(t) \/ TakePictureFails(t)
  \/ WaitForPicture(t) \/ StopCapture(t) \/ DisablePort(t) \/ DrainDone(t)
  \/ TransitWait(t) \/ TakePictureDone(t)

Callback ==
  \/ Deliver \/ CbCopy \/ CbPost \/ CbRelease \/ CbCheck \/ CbGet \/ CbSend
  \/ CbReturn

Encoder == \E b \in Buffers : Fill(b)

Next ==
  \/ \E t \in Threads : Calls(t) \/ Steps(t)
  \/ Callback \/ ActionLock \/ ActionUnlock \/ Encoder

Spec == Init /\ [][Next]_vars

\* Threads make progress inside takePicture and inside a callback, and an
\* encoder with a picture to send and a header to send it in sends it.
Fairness ==
  /\ \A t \in Threads : WF_vars(Steps(t))
  /\ WF_vars(Callback) /\ WF_vars(ActionLock \/ ActionUnlock)
  /\ WF_vars(Encoder)

FairSpec == Spec /\ Fairness

-----------------------------------------------------------------------------
(* Properties                                                              *)

Messages == [buffer : Buffers \cup {NoBuffer}, piece : Nat, empty : BOOLEAN,
             last : BOOLEAN]

\* The values of the variables.
TypeOK ==
  /\ isInitialized \in BOOLEAN /\ size \in Nat /\ captured \in Nat
  /\ is_enabled \in BOOLEAN /\ portUserdata \in Threads \cup {Nobody}
  /\ captureOn \in BOOLEAN /\ piece \in Nat
  /\ queue \subseteq Buffers /\ held \subseteq Buffers
  /\ returned \in Seq(Messages)
  /\ action_mutex \in {"free", "action"} \cup Threads
  /\ pc \in [Threads -> ThreadPC] /\ todo \in [Threads -> Nat]
  /\ userdata \in [Threads -> [live : BOOLEAN, cameraBoard : BOOLEAN,
                               data : Seq(Nat), length : Nat]]
  /\ mutex \in [Threads -> [live : BOOLEAN, count : Nat]]
  /\ result \in [Threads -> {"none", "true", "false"}]
  /\ cb \in CallbackPC /\ cbUser \in Threads \cup {Nobody}
  /\ cbMsg \in Messages /\ cbNew \in Buffers \cup {NoBuffer}
  /\ faults \in Nat /\ pooled \in Nat

\* buffer_callback never touches a deleted RASPICAM_USERDATA: takePicture
\* deletes it only when no callback can use it any more, although nothing but
\* the disabling of the port keeps the two threads apart.
UserdataAlive ==
  cb \in {"copy", "post", "get"} => cbUser # Nobody /\ userdata[cbUser].live

\* sem_post finds a semaphore that takePicture has not destroyed.
SemaphoreAlive == cb = "post" => mutex[cbUser].live

BuffersOf(msgs) == {msgs[i].buffer : i \in DOMAIN msgs}

\* A header is never in two places at once.
HeaderInOnePlace ==
  /\ queue \cap held = {}
  /\ (queue \cup held) \cap BuffersOf(returned) = {}
  /\ Cardinality(BuffersOf(returned)) = Len(returned)
  /\ {cbMsg.buffer, cbNew} \cap (queue \cup held \cup BuffersOf(returned)) = {}

\* A picture costs the pool at most one header (the one the callback took
\* when it had seen the port enabled and sent when it no longer was), beyond
\* those the firmware refused.
AtMostOneHeaderLost ==
  ~is_enabled /\ ~InTransit => Cardinality(queue) + faults + 1 >= pooled

\* The copy never runs over the end of the caller's buffer, whatever size
\* the picture has.
NoOverrun ==
  \A t \in Threads : Len(userdata[t].data) <= userdata[t].length

\* takePicture returns true only with the whole picture, of the size asked
\* for, in the caller's buffer, its pieces in order.
PictureComplete ==
  \A t \in Threads : result[t] = "true" =>
    userdata[t].data = [i \in 1 .. userdata[t].length |-> i]

\* Between pictures the encoder port is disabled, so the next can be taken.
PortClosed == (\A t \in Threads : At(t, "idle")) => ~is_enabled

\* takePicture returns.
PictureReturns == \A t \in Threads : At(t, "wait") ~> At(t, "idle")

\* A picture that starts with at least one header in the pool is taken: the
\* callback recycles headers for as long as the picture has pieces left.
PictureReturnsIfPooled ==
  \A t \in Threads : At(t, "start") /\ queue # {} ~> At(t, "idle")

=============================================================================
