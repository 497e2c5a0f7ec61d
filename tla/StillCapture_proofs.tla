------------------------- MODULE StillCapture_proofs -------------------------
(***************************************************************************)
(* Proofs about StillCapture, for any set of headers, any picture sizes,   *)
(* any kind and number of faults unless a theorem says otherwise: its      *)
(* types, where the headers are and how many a picture can cost, and that  *)
(* no copy overruns the caller's buffer; and, for an application that      *)
(* takes its pictures from one thread, that the userdata and the semaphore *)
(* outlive their use, that the port is closed between pictures and that a  *)
(* picture returned is whole.                                              *)
(***************************************************************************)
EXTENDS StillCapture, FiniteSetTheorems, SequenceTheorems, TLAPS

\* What is on its way to buffer_callback has a header, and the callback has
\* what it uses.
RealMessages == [buffer : Buffers, piece : Nat, empty : BOOLEAN,
                 last : BOOLEAN]

RealInv ==
  /\ returned \in Seq(RealMessages)
  /\ cb \in {"copy", "post"} => cbUser # Nobody
  /\ cb \in {"copy", "post", "release"} => cbMsg.buffer \in Buffers
  /\ cb = "send" => cbNew \in Buffers

\* mmal_port_disable gives back the headers held as empty messages.
GivenBack ==
  [i \in 1 .. Cardinality(held) |-> Message(SetToSeq(held)[i], 0, TRUE, FALSE)]

\* They are messages without a picture's data or end flag.
LEMMA GivenBackType ==
  ASSUME held \subseteq Buffers
  PROVE  /\ GivenBack \in Seq(RealMessages)
         /\ \A i \in 1 .. Len(GivenBack) :
              GivenBack[i].empty = TRUE /\ GivenBack[i].last = FALSE
<1>1. IsFiniteSet(held)
  BY StillBuffers, FS_Subset
<1>2. Cardinality(held) \in Nat /\ ExistsBijection(1 .. Cardinality(held), held)
  BY <1>1, FS_CardinalityType
<1>3. \E f \in [1 .. Cardinality(held) -> held] : IsInjective(f)
  BY <1>2 DEF ExistsBijection, Bijection, Injection, IsInjective
<1>4. SetToSeq(held) \in [1 .. Cardinality(held) -> held]
  BY <1>3 DEF SetToSeq
<1>5. \A i \in 1 .. Cardinality(held) :
        Message(SetToSeq(held)[i], 0, TRUE, FALSE) \in RealMessages
  BY <1>4 DEF Message, RealMessages
<1>6. GivenBack \in [1 .. Cardinality(held) -> RealMessages]
  BY <1>5 DEF GivenBack
<1>7. GivenBack \in Seq(RealMessages) /\ Len(GivenBack) = Cardinality(held)
  BY <1>2, <1>6
<1>8. \A i \in 1 .. Cardinality(held) :
        GivenBack[i].empty = TRUE /\ GivenBack[i].last = FALSE
  BY DEF GivenBack, Message
<1> QED
  BY <1>7, <1>8

USE DEF cameraVars, portVars, headerVars, callVars, cbVars, vars

Userdata == [live : BOOLEAN, cameraBoard : BOOLEAN, data : Seq(Nat),
             length : Nat]

\* Every variable keeps its type, whatever threads take pictures.
LEMMA TypeStep ==
  ASSUME TypeOK, RealInv, [Next]_vars
  PROVE  TypeOK' /\ RealInv'
<1> DEFINE Good == TypeOK' /\ RealInv'
<1> USE StillBuffers, StillThreads, StillSizes, StillBounds DEF TypeOK,
      RealInv, At, Goto, ThreadPC, CallbackPC, Fault
<1>1. ASSUME NEW t \in Threads, Calls(t) PROVE Good
  <2>1. CASE Open(t) \/ \E n \in Sizes : SetCaptureSize(t, n)
    BY <2>1, ZenonT(60) DEF Open, SetCaptureSize, Initialize
  <2>2. CASE TakePicture(t)
    <3>1. [live |-> TRUE, cameraBoard |-> TRUE, data |-> <<>>, length |-> size]
            \in Userdata
      BY DEF Userdata
    <3>2. userdata' \in [Threads -> Userdata]
      BY <2>2, <3>1 DEF TakePicture, Userdata
    <3> QED
      BY <2>2, <3>2, SMTT(30) DEF TakePicture, Initialize, Userdata
  <2> QED
    BY <1>1, <2>1, <2>2 DEF Calls
<1>2. ASSUME NEW t \in Threads, EnablePort(t) PROVE Good
  <2>1. Cardinality(queue) \in Nat
    BY FS_Subset, FS_CardinalityType
  <2> QED
    BY <1>2, <2>1, SMTT(30) DEF EnablePort
<1>3. ASSUME NEW t \in Threads, StartSend(t) PROVE Good
  <2>1. todo' \in [Threads -> Nat]
    BY <1>3 DEF StartSend
  <2>2. queue' \subseteq Buffers /\ held' \subseteq Buffers /\ faults' \in Nat
    BY <1>3, SMTT(30) DEF StartSend, SendBuffer
  <2> QED
    BY <1>3, <2>1, <2>2, SMTT(30) DEF StartSend
<1>4. ASSUME NEW t \in Threads,
             \/ EnableFails(t) \/ StartSendDone(t) \/ StartCapture(t)
             \/ StartFails(t) \/ StopCapture(t)
             \/ DrainDone(t) \/ TransitWait(t)
      PROVE  Good
  <2>1. CASE EnableFails(t)
    BY <2>1, SMTT(30) DEF EnableFails
  <2>2. CASE StartSendDone(t)
    BY <2>2 DEF StartSendDone
  <2>3. CASE StartCapture(t)
    BY <2>3 DEF StartCapture
  <2>4. CASE StartFails(t)
    BY <2>4 DEF StartFails
  <2>5. CASE StopCapture(t)
    <3>1. pc' \in [Threads -> ThreadPC]
      BY <2>5 DEF StopCapture
    <3> QED
      BY <2>5, <3>1, ZenonT(60) DEF StopCapture
  <2>6. CASE DrainDone(t)
    BY <2>6 DEF DrainDone
  <2>7. CASE TransitWait(t)
    BY <2>7 DEF TransitWait
  <2> QED
    BY <1>4, <2>1, <2>2, <2>3, <2>4, <2>5, <2>6, <2>7
<1>5. ASSUME NEW t \in Threads, TakePictureFails(t) \/ TakePictureDone(t)
      PROVE  Good
  <2>1. userdata' \in [Threads -> Userdata]
    <3>1. userdata[t] \in Userdata
      BY DEF Userdata
    <3>2. [userdata[t] EXCEPT !.live = FALSE] \in Userdata
      BY <3>1 DEF Userdata
    <3>3. userdata' = [userdata EXCEPT ![t].live = FALSE]
      BY <1>5 DEF TakePictureFails, TakePictureDone
    <3> QED
      BY <3>2, <3>3 DEF Userdata
  <2>2. mutex' \in [Threads -> [live : BOOLEAN, count : Nat]]
    <3> DEFINE Sem == [live : BOOLEAN, count : Nat]
    <3>1. mutex[t] \in Sem
      OBVIOUS
    <3>2. [mutex[t] EXCEPT !.live = FALSE] \in Sem
      BY ONLY <3>1
    <3>3. mutex' = mutex \/ mutex' = [mutex EXCEPT ![t].live = FALSE]
      BY <1>5 DEF TakePictureFails, TakePictureDone
    <3> QED
      BY <3>2, <3>3, ZenonT(60)
  <2> QED
    BY <1>5, <2>1, <2>2, ZenonT(60)
       DEF TakePictureFails, TakePictureDone, Userdata
<1>6. ASSUME NEW t \in Threads, WaitForPicture(t) PROVE Good
  <2>1. mutex[t].count - 1 \in Nat
    BY <1>6 DEF WaitForPicture
  <2>2. mutex' \in [Threads -> [live : BOOLEAN, count : Nat]]
    BY <1>6, <2>1 DEF WaitForPicture
  <2> QED
    BY <1>6, <2>2, SMTT(30) DEF WaitForPicture
<1>7. ASSUME NEW t \in Threads, DisablePort(t) PROVE Good
  <2>1. returned \o GivenBack \in Seq(RealMessages)
    <3>1. GivenBack \in Seq(RealMessages)
      BY GivenBackType
    <3> QED
      BY <3>1, ConcatProperties
  <2>2. RealMessages \subseteq Messages
    BY DEF RealMessages, Messages
  <2>3. returned \o GivenBack \in Seq(Messages)
    BY <2>1, <2>2, SeqMonotonic
  <2> QED
    BY <1>7, <2>1, <2>3, ZenonT(60) DEF DisablePort, GivenBack
<1>8. ASSUME NEW b \in Buffers, Fill(b) PROVE Good
  <2>1. PICK m \in RealMessages : returned' = Append(returned, m)
    BY <1>8 DEF Fill, Message, RealMessages
  <2>2. m \in Messages
    BY DEF RealMessages, Messages
  <2>3. returned' \in Seq(RealMessages) /\ returned' \in Seq(Messages)
    BY <2>1, <2>2
  <2>4. (piece < captured) \in BOOLEAN
    OBVIOUS
  <2>5. captureOn' \in BOOLEAN
    BY ONLY <1>8, <2>4, Zenon DEF Fill
  <2>6. held' \subseteq Buffers /\ piece' \in Nat /\ faults' \in Nat
    <3>1. /\ piece + 1 \in Nat /\ faults + 1 \in Nat
          /\ held \ {b} \subseteq Buffers
      OBVIOUS
    <3>2. faults' = faults \/ faults' = faults + 1
      BY <1>8 DEF Fill
    <3>3. piece' = piece + 1 /\ held' = held \ {b}
      BY <1>8 DEF Fill
    <3> QED
      BY <3>1, <3>2, <3>3
  <2> QED
    BY <1>8, <2>3, <2>5, <2>6 DEF Fill
<1>9. CASE ActionLock \/ ActionUnlock
  BY <1>9, SMTT(30) DEF ActionLock, ActionUnlock
<1>10. CASE Deliver
  <2>1. Head(returned) \in RealMessages /\ Head(returned) \in Messages
    BY <1>10 DEF Deliver
  <2>2. Tail(returned) \in Seq(RealMessages) /\ Tail(returned) \in Seq(Messages)
    BY <1>10 DEF Deliver
  <2>3. cbMsg'.buffer \in Buffers
    BY <1>10, <2>1 DEF Deliver, RealMessages
  <2> QED
    BY <1>10, <2>1, <2>2, <2>3 DEF Deliver
<1>11. CASE CbCopy
  <2>1. cbMsg.piece \in Nat /\ cbUser \in Threads
    BY <1>11 DEF CbCopy, Messages
  <2>2. userdata' \in [Threads -> Userdata]
    <3>1. userdata[cbUser] \in Userdata
      BY <2>1 DEF Userdata
    <3>2. [userdata[cbUser] EXCEPT !.cameraBoard = FALSE] \in Userdata
      BY <3>1 DEF Userdata
    <3>3. Append(userdata[cbUser].data, cbMsg.piece) \in Seq(Nat)
      BY <2>1, <3>1 DEF Userdata
    <3>4. [userdata[cbUser] EXCEPT !.data = Append(@, cbMsg.piece)] \in Userdata
      BY <3>1, <3>3 DEF Userdata
    <3>5. \/ userdata' = userdata
          \/ userdata' = [userdata EXCEPT ![cbUser].cameraBoard = FALSE]
          \/ userdata' =
               [userdata EXCEPT ![cbUser].data = Append(@, cbMsg.piece)]
      BY <1>11 DEF CbCopy
    <3> QED
      BY <3>2, <3>4, <3>5, ZenonT(60) DEF Userdata
  <2> QED
    BY <1>11, <2>2 DEF CbCopy, Userdata
<1>12. CASE CbPost
  <2>1. cbUser \in Threads /\ mutex[cbUser].count + 1 \in Nat
    BY <1>12, SMTT(30) DEF CbPost
  <2>2. [mutex[cbUser] EXCEPT !.count = @ + 1] \in [live : BOOLEAN, count : Nat]
    <3>1. mutex[cbUser] \in [live : BOOLEAN, count : Nat]
      BY <2>1
    <3> QED
      BY ONLY <2>1, <3>1
  <2>3. mutex' \in [Threads -> [live : BOOLEAN, count : Nat]]
    BY <1>12, <2>1, <2>2 DEF CbPost
  <2> QED
    BY <1>12, <2>3 DEF CbPost
<1>13. CASE CbRelease
  <2>1. NoMessage \in Messages
    BY DEF NoMessage, Message, Messages
  <2> QED
    BY <1>13, <2>1 DEF CbRelease
<1>14. CASE CbGet
  BY <1>14 DEF CbGet
<1>15. CASE CbSend
  <2>1. held' \subseteq Buffers /\ faults' \in Nat
    BY <1>15 DEF CbSend, SendBuffer
  <2> QED
    BY <1>15, <2>1 DEF CbSend
<1>16. CASE CbCheck \/ CbReturn
  BY <1>16 DEF CbCheck, CbReturn
<1>17. CASE UNCHANGED vars
  BY <1>17
<1> QED
  BY <1>1, <1>2, <1>3, <1>4, <1>5, <1>6, <1>7, <1>8, <1>9, <1>10, <1>11,
     <1>12, <1>13, <1>14, <1>15, <1>16, <1>17 DEF Next, Steps, Callback, Encoder

\* The initial values have their types.
LEMMA StillTypesInit == Init => TypeOK /\ RealInv
<1> SUFFICES ASSUME Init PROVE TypeOK /\ RealInv
  OBVIOUS
<1> USE StillBuffers, StillThreads, StillSizes DEF Init
<1>1. /\ NoUserdata \in Userdata /\ NoMessage \in Messages
      /\ <<>> \in Seq(Messages) /\ <<>> \in Seq(RealMessages)
  BY DEF NoUserdata, NoMessage, Message, Messages, Userdata
<1>2. /\ userdata \in [Threads -> Userdata]
      /\ mutex \in [Threads -> [live : BOOLEAN, count : Nat]]
      /\ pc \in [Threads -> ThreadPC] /\ todo \in [Threads -> Nat]
      /\ result \in [Threads -> {"none", "true", "false"}]
  BY <1>1 DEF ThreadPC
<1>3. RealInv
  BY <1>1 DEF RealInv
<1>4. size \in Nat /\ captured \in Nat
  OBVIOUS
<1>5. TypeOK
  BY <1>1, <1>2, <1>4 DEF TypeOK, CallbackPC, Userdata
<1> QED
  BY <1>3, <1>5

\* Types, in every use.
THEOREM StillTypes == Spec => [](TypeOK /\ RealInv)
<1>1. TypeOK /\ RealInv /\ [Next]_vars => TypeOK' /\ RealInv'
  BY TypeStep
<1> QED
  BY StillTypesInit, <1>1, PTL DEF Spec

\* buffer_callback: for any threads, sizes changed at any time and any faults,
\* the copy stays inside the buffer the caller has given.
THEOREM OverrunTheorem == Spec => []NoOverrun
<1>1. Init => NoOverrun
  BY DEF Init, NoOverrun, NoUserdata
<1>2. TypeOK /\ RealInv /\ NoOverrun /\ [Next]_vars => NoOverrun'
  <2> SUFFICES ASSUME TypeOK, RealInv, NoOverrun, [Next]_vars
               PROVE  NoOverrun'
    OBVIOUS
  <2> USE DEF TypeOK, RealInv, NoOverrun
  <2>1. ASSUME NEW t \in Threads, Calls(t) PROVE NoOverrun'
    <3>1. CASE userdata' = userdata
      BY <3>1
    <3>2. CASE TakePicture(t)
      <4>1. size \in Nat /\ Len(<<>>) = 0
        OBVIOUS
      <4>2. userdata' = [userdata EXCEPT ![t] =
              [live |-> TRUE, cameraBoard |-> TRUE, data |-> <<>>,
               length |-> size]]
        BY <3>2 DEF TakePicture
      <4> QED
        BY <4>1, <4>2
    <3> QED
      BY <2>1, <3>1, <3>2 DEF Calls, Open, SetCaptureSize
  <2>2. ASSUME NEW t \in Threads, TakePictureFails(t) \/ TakePictureDone(t)
        PROVE  NoOverrun'
    <3>1. userdata' = [userdata EXCEPT ![t].live = FALSE]
      BY <2>2 DEF TakePictureFails, TakePictureDone
    <3>2. \A u \in Threads : /\ userdata'[u].data = userdata[u].data
                             /\ userdata'[u].length = userdata[u].length
      BY <3>1
    <3> QED
      BY <3>2
  <2>3. ASSUME NEW t \in Threads, Steps(t),
               ~TakePictureFails(t), ~TakePictureDone(t)
        PROVE  NoOverrun'
    <3>1. userdata' = userdata
      BY <2>3 DEF Steps, EnablePort, EnableFails, StartSend, StartSendDone,
          StartCapture, StartFails, WaitForPicture, StopCapture, DisablePort,
          DrainDone, TransitWait
    <3> QED
      BY <3>1
  <2>4. CASE CbCopy
    <3>1. cbUser \in Threads /\ cbMsg.piece \in Nat
      BY <2>4 DEF CbCopy, Messages
    <3> DEFINE full == Len(userdata[cbUser].data) >= userdata[cbUser].length
    <3>2. CASE ~cbMsg.empty /\ ~full
      <4>1. userdata' =
              [userdata EXCEPT ![cbUser].data = Append(@, cbMsg.piece)]
        BY <2>4, <3>2 DEF CbCopy
      <4>2. Len(Append(userdata[cbUser].data, cbMsg.piece))
              <= userdata[cbUser].length
        BY <3>1, <3>2
      <4> QED
        BY <3>1, <4>1, <4>2
    <3>3. CASE cbMsg.empty \/ full
      <4>1. \/ userdata' = userdata
            \/ userdata' = [userdata EXCEPT ![cbUser].cameraBoard = FALSE]
        BY <2>4, <3>3 DEF CbCopy
      <4> QED
        BY <3>1, <4>1
    <3> QED
      BY <3>2, <3>3
  <2>5. CASE \/ Deliver \/ CbPost \/ CbRelease \/ CbCheck \/ CbGet \/ CbSend
             \/ CbReturn \/ ActionLock \/ ActionUnlock \/ Encoder
    <3>1. userdata' = userdata
      BY <2>5 DEF Deliver, CbPost, CbRelease, CbCheck, CbGet, CbSend, CbReturn,
          ActionLock, ActionUnlock, Encoder, Fill
    <3> QED
      BY <3>1
  <2>6. CASE UNCHANGED vars
    BY <2>6
  <2> QED
    BY <2>1, <2>2, <2>3, <2>4, <2>5, <2>6 DEF Next, Callback
<1> QED
  BY <1>1, <1>2, StillTypes, PTL DEF Spec

\* One thread takes pictures: where its call can be while messages and
\* callbacks are on their way.
CallInv(t) ==
  /\ pc[t] # "idle" => portUserdata = t /\ userdata[t].live
  /\ pc[t] \in {"send", "capture", "wait", "stop"} => is_enabled
  /\ pc[t] \in {"disable", "drain", "transit", "delete"} => ~is_enabled
  /\ captureOn => pc[t] \in {"wait", "stop", "disable"}
  /\ returned # <<>> \/ cb # "idle" =>
       pc[t] \in {"wait", "stop", "disable", "drain"}
  /\ cb # "idle" => cbUser = t

\* No step breaks CallInv.
LEMMA CallStep ==
  ASSUME NEW t, Threads = {t}, TypeOK, RealInv, CallInv(t), [Next]_vars
  PROVE  CallInv(t)'
<1> USE StillThreads DEF TypeOK, RealInv, CallInv, At, Goto, ThreadPC,
      CallbackPC
<1>1. CASE Calls(t)
  BY <1>1 DEF Calls, Open, TakePicture, SetCaptureSize, Initialize
<1>2. CASE EnablePort(t) \/ EnableFails(t) \/ StartSend(t) \/ StartSendDone(t)
  BY <1>2 DEF EnablePort, EnableFails, StartSend, StartSendDone
<1>3. CASE StartCapture(t) \/ StartFails(t)
  BY <1>3 DEF StartCapture, StartFails
<1>4. CASE TakePictureFails(t) \/ TakePictureDone(t)
  BY <1>4 DEF TakePictureFails, TakePictureDone
<1>5. CASE WaitForPicture(t) \/ StopCapture(t)
  BY <1>5 DEF WaitForPicture, StopCapture
<1>6. CASE DisablePort(t)
  BY <1>6 DEF DisablePort
<1>7. CASE DrainDone(t) \/ TransitWait(t)
  BY <1>7 DEF DrainDone, TransitWait, InTransit
<1>8. CASE Deliver
  BY <1>8 DEF Deliver
<1>9. CASE CbCopy
  <2>1. userdata'[t].live = userdata[t].live
    BY <1>9 DEF CbCopy
  <2> QED
    BY <1>9, <2>1 DEF CbCopy
<1>10. CASE \/ CbPost \/ CbRelease \/ CbCheck \/ CbGet \/ CbSend \/ CbReturn
  BY <1>10 DEF CbPost, CbRelease, CbCheck, CbGet, CbSend, CbReturn
<1>11. CASE ActionLock \/ ActionUnlock
  BY <1>11, SMTT(30) DEF ActionLock, ActionUnlock
<1>12. CASE Encoder
  BY <1>12 DEF Encoder, Fill
<1>13. CASE UNCHANGED vars
  BY <1>13
<1> QED
  BY <1>1, <1>2, <1>3, <1>4, <1>5, <1>6, <1>7, <1>8, <1>9, <1>10, <1>11,
     <1>12, <1>13 DEF Next, Steps, Callback

\* takePicture and buffer_callback: with one thread taking pictures the
\* userdata is deleted only when no callback can touch it, for any faults.
THEOREM UserdataTheorem ==
  ASSUME NEW t, Threads = {t}
  PROVE  Spec => []UserdataAlive
<1>1. Init => CallInv(t)
  BY DEF Init, CallInv
<1>2. TypeOK /\ RealInv /\ CallInv(t) /\ [Next]_vars => CallInv(t)'
  BY CallStep
<1>3. TypeOK /\ CallInv(t) => UserdataAlive
  BY StillThreads DEF CallInv, UserdataAlive
<1> QED
  BY <1>1, <1>2, <1>3, StillTypes, PTL DEF Spec

\* With no faults of startCapture the port is enabled only within the call.
ClosedInv(t) ==
  pc[t] # "fail" /\ (pc[t] \in {"idle", "start"} => ~is_enabled)

\* Without faults of startCapture no step leaves the port enabled outside the
\* call.
LEMMA ClosedStep ==
  ASSUME NEW t, Threads = {t}, Faults \cap {"enable", "capture"} = {},
         TypeOK, CallInv(t), ClosedInv(t), [Next]_vars
  PROVE  ClosedInv(t)'
<1> USE DEF TypeOK, CallInv, ClosedInv, At, Goto, Fault
<1>1. CASE Calls(t)
  BY <1>1 DEF Calls, Open, TakePicture, SetCaptureSize
<1>2. CASE EnablePort(t) \/ EnableFails(t)
  BY <1>2 DEF EnablePort, EnableFails
<1>3. CASE \/ StartSend(t) \/ StartSendDone(t) \/ StartCapture(t)
           \/ StartFails(t)
  BY <1>3 DEF StartSend, StartSendDone, StartCapture, StartFails
<1>4. CASE \/ WaitForPicture(t) \/ StopCapture(t) \/ DisablePort(t)
           \/ DrainDone(t) \/ TransitWait(t)
  BY <1>4 DEF WaitForPicture, StopCapture, DisablePort, DrainDone, TransitWait
<1>5. CASE TakePictureFails(t) \/ TakePictureDone(t)
  BY <1>5 DEF TakePictureFails, TakePictureDone
<1>6. ASSUME pc' = pc, is_enabled' = is_enabled PROVE ClosedInv(t)'
  BY <1>6
<1>7. CASE Callback \/ ActionLock \/ ActionUnlock \/ Encoder \/ UNCHANGED vars
  <2>1. pc' = pc /\ is_enabled' = is_enabled
    BY <1>7 DEF Callback, Deliver, CbCopy, CbPost, CbRelease, CbCheck, CbGet,
        CbSend, CbReturn, ActionLock, ActionUnlock, Encoder, Fill
  <2> QED
    BY <1>6, <2>1
<1> QED
  BY <1>1, <1>2, <1>3, <1>4, <1>5, <1>7 DEF Next, Steps

\* startCapture and stopCapture: after any number of pictures the encoder's
\* port is disabled between them, so that the next can be taken.
THEOREM PortClosedTheorem ==
  ASSUME NEW t, Threads = {t}, Faults \cap {"enable", "capture"} = {}
  PROVE  Spec => []PortClosed
<1>1. Init => CallInv(t) /\ ClosedInv(t)
  BY DEF Init, CallInv, ClosedInv
<1>2. TypeOK /\ RealInv /\ CallInv(t) /\ ClosedInv(t) /\ [Next]_vars
        => CallInv(t)' /\ ClosedInv(t)'
  BY CallStep, ClosedStep
<1>3. ClosedInv(t) => PortClosed
  BY DEF ClosedInv, PortClosed, At
<1> QED
  BY <1>1, <1>2, <1>3, StillTypes, PTL DEF Spec

\* The stream of pieces of a picture: those in the caller's buffer, the one
\* the callback has, those in the callback queue, and those still to come.
Data(t) == userdata[t].data
Seen(t) == Len(Data(t)) + (IF cb = "copy" THEN 1 ELSE 0)
IsPiece(m, n) == ~m.empty /\ m.piece = n /\ (m.last <=> n = captured)
IsEmpty(m) == m.empty /\ ~m.last

StreamInv(t) ==
  /\ mutex[t].live
  /\ piece = Seen(t) + Len(returned) + 1
  /\ piece <= captured + 1
  /\ captureOn <=> piece <= captured
  /\ \A i \in 1 .. Len(returned) : IsPiece(returned[i], Seen(t) + i)
  /\ cb = "copy" => IsPiece(cbMsg, Len(Data(t)) + 1)
  /\ cb = "post" => Len(Data(t)) = captured /\ mutex[t].count = 0
  /\ mutex[t].count > 0 => Len(Data(t)) = captured

EndedInv(t) ==
  /\ ~captureOn /\ cb # "post"
  /\ Len(Data(t)) = captured
  /\ \A i \in 1 .. Len(returned) : IsEmpty(returned[i])
  /\ cb = "copy" => IsEmpty(cbMsg)

\* What takePicture promises, at each place of the call.
PictureInv(t) ==
  /\ size > 0 /\ (isInitialized => captured = size)
  /\ \A i \in 1 .. Len(Data(t)) : Data(t)[i] = i
  /\ pc[t] # "idle" => /\ isInitialized /\ result[t] = "none"
                       /\ userdata[t].length = captured
                       /\ userdata[t].cameraBoard
  /\ pc[t] \in {"start", "send", "capture"} =>
       Data(t) = <<>> /\ mutex[t].live /\ mutex[t].count = 0
  /\ pc[t] = "wait" => StreamInv(t)
  /\ pc[t] \in {"stop", "disable", "drain", "transit", "delete"} => EndedInv(t)
  /\ result[t] = "true" => Len(Data(t)) = userdata[t].length

PictureAll(t) ==
  TypeOK /\ RealInv /\ CallInv(t) /\ ClosedInv(t) /\ PictureInv(t)

\* PictureInv holds when the application opens the camera or calls takePicture,
LEMMA PictureCalls ==
  ASSUME NEW t, Threads = {t}, ~LateResize, PictureAll(t), Calls(t)
  PROVE  PictureInv(t)'
<1> USE StillSizes DEF PictureAll, TypeOK, CallInv, PictureInv, At, Goto, Data
<1>1. CASE Open(t)
  <2>1. size \in Nat \ {0}
    OBVIOUS
  <2> QED
    BY <1>1, <2>1 DEF Open, Initialize
<1>2. CASE \E n \in Sizes : SetCaptureSize(t, n)
  BY <1>2 DEF SetCaptureSize
<1>3. CASE TakePicture(t)
  <2>1. isInitialized' /\ captured' = size /\ size' = size /\ captured' > 0
    BY <1>3 DEF TakePicture, Initialize
  <2>2. userdata'[t] = [live |-> TRUE, cameraBoard |-> TRUE, data |-> <<>>,
                        length |-> size]
    BY <1>3 DEF TakePicture
  <2>3. mutex'[t] = [live |-> TRUE, count |-> 0]
    BY <1>3 DEF TakePicture
  <2>4. pc'[t] = "start" /\ result'[t] = "none"
    BY <1>3 DEF TakePicture
  <2> QED
    BY <2>1, <2>2, <2>3, <2>4
<1> QED
  BY <1>1, <1>2, <1>3 DEF Calls

\* ... through the steps of takePicture, startCapture and stopCapture,
LEMMA PictureSteps ==
  ASSUME NEW t, Threads = {t}, Faults = {}, PictureAll(t), Steps(t)
  PROVE  PictureInv(t)'
<1> USE DEF PictureAll, TypeOK, CallInv, ClosedInv, PictureInv, At, Goto, Data,
      Fault
<1>1. CASE EnablePort(t) \/ EnableFails(t) \/ StartSend(t) \/ StartSendDone(t)
  BY <1>1 DEF EnablePort, EnableFails, StartSend, StartSendDone
<1>2. CASE StartCapture(t)
  BY <1>2 DEF StartCapture, StreamInv, Seen
<1>3. CASE StartFails(t) \/ TakePictureFails(t)
  BY <1>3 DEF StartFails, TakePictureFails
<1>4. CASE WaitForPicture(t)
  <2>1. Len(Data(t)) = captured /\ StreamInv(t)
    BY <1>4 DEF WaitForPicture, StreamInv
  <2>2. Len(returned) = 0 /\ cb \notin {"copy", "post"} /\ ~captureOn
    BY <1>4, <2>1 DEF StreamInv, Seen, WaitForPicture
  <2> QED
    BY <1>4, <2>1, <2>2 DEF WaitForPicture, EndedInv
<1>5. CASE StopCapture(t)
  BY <1>5 DEF StopCapture, EndedInv
<1>6. CASE DisablePort(t)
  <2>1. \A i \in 1 .. Len(GivenBack) : IsEmpty(GivenBack[i])
    BY GivenBackType DEF IsEmpty
  <2>2. returned' = returned \o GivenBack
    BY <1>6 DEF DisablePort, GivenBack
  <2>3. GivenBack \in Seq(RealMessages) /\ returned \in Seq(RealMessages)
    BY GivenBackType DEF RealInv
  <2>4. EndedInv(t)
    BY <1>6 DEF DisablePort
  <2>5. \A i \in 1 .. Len(returned') : IsEmpty(returned'[i])
    BY <2>1, <2>2, <2>3, <2>4, ConcatProperties DEF EndedInv
  <2> QED
    BY <1>6, <2>4, <2>5 DEF DisablePort, EndedInv, IsEmpty
<1>7. CASE DrainDone(t) \/ TransitWait(t)
  BY <1>7, SMTT(30) DEF DrainDone, TransitWait, EndedInv
<1>8. CASE TakePictureDone(t)
  BY <1>8 DEF TakePictureDone, EndedInv
<1> QED
  BY <1>1, <1>2, <1>3, <1>4, <1>5, <1>6, <1>7, <1>8 DEF Steps

\* ... when the component's thread delivers a header to buffer_callback,
LEMMA PictureDeliver ==
  ASSUME NEW t, Threads = {t}, PictureAll(t), Deliver
  PROVE  PictureInv(t)'
<1> USE StillThreads DEF PictureAll, TypeOK, RealInv, CallInv, PictureInv, Data
<1>1. /\ pc[t] \in {"wait", "stop", "disable", "drain"}
      /\ cb = "idle" /\ cb' = "copy" /\ returned # <<>>
      /\ cbMsg' = Head(returned) /\ returned' = Tail(returned)
  BY DEF Deliver
<1>2. UNCHANGED <<cameraVars, portVars, callVars>>
  BY DEF Deliver
<1>3. /\ Head(returned) = returned[1] /\ 1 \in 1 .. Len(returned)
      /\ Len(returned') = Len(returned) - 1
      /\ \A i \in 1 .. Len(returned') : returned'[i] = returned[i + 1]
  BY <1>1
<1>4. CASE pc[t] = "wait"
  <2>1. IsPiece(cbMsg', Len(Data(t)) + 1)
    BY <1>1, <1>3, <1>4, SMTT(30) DEF StreamInv, Seen
  <2>2. Seen(t)' = Seen(t) + 1
    BY <1>1, <1>2 DEF Seen
  <2>3. \A i \in 1 .. Len(returned') : IsPiece(returned'[i], Seen(t)' + i)
    <3> SUFFICES ASSUME NEW i \in 1 .. Len(returned')
                 PROVE  IsPiece(returned'[i], Seen(t)' + i)
      OBVIOUS
    <3>1. i + 1 \in 1 .. Len(returned) /\ Seen(t) \in Nat
      BY <1>3 DEF Seen
    <3>2. IsPiece(returned[i + 1], Seen(t) + (i + 1))
      BY <1>4, <3>1 DEF StreamInv
    <3>3. Seen(t) + (i + 1) = Seen(t)' + i
      BY <2>2, <3>1
    <3> QED
      BY <1>3, <3>2, <3>3
  <2>4. piece = Seen(t)' + Len(returned') + 1
    <3>1. Seen(t) \in Nat /\ Len(returned) \in Nat
      BY DEF Seen
    <3>2. piece = Seen(t) + Len(returned) + 1
      BY <1>4 DEF StreamInv
    <3> QED
      BY ONLY <1>3, <2>2, <3>1, <3>2
  <2>5. StreamInv(t)'
    BY <1>1, <1>2, <1>4, <2>1, <2>3, <2>4 DEF StreamInv, IsPiece
  <2> QED
    BY <1>2, <1>4, <2>5
<1>5. CASE pc[t] \in {"stop", "disable", "drain"}
  <2>1. ASSUME NEW i \in 1 .. Len(returned') PROVE IsEmpty(returned'[i])
    <3>1. i + 1 \in 1 .. Len(returned)
      BY <1>3, SMTT(30)
    <3> QED
      BY <1>3, <1>5, <3>1 DEF EndedInv
  <2>2. IsEmpty(cbMsg')
    BY <1>1, <1>3, <1>5 DEF EndedInv
  <2>3. EndedInv(t)'
    BY <1>1, <1>2, <1>5, <2>1, <2>2 DEF EndedInv, IsEmpty
  <2> QED
    BY <1>2, <1>5, <2>3
<1> QED
  BY <1>1, <1>4, <1>5

\* ... when the callback appends the piece to the caller's buffer,
LEMMA PictureCopy ==
  ASSUME NEW t, Threads = {t}, PictureAll(t), CbCopy
  PROVE  PictureInv(t)'
<1> USE StillThreads DEF PictureAll, TypeOK, RealInv, CallInv, PictureInv
<1>1. /\ cb = "copy" /\ cbUser = t
      /\ pc[t] \in {"wait", "stop", "disable", "drain"}
  BY DEF CbCopy
<1>2. UNCHANGED <<cameraVars, portVars, headerVars, pc, mutex, result>>
  BY DEF CbCopy
<1>3. CASE pc[t] = "wait"
  <2>1. /\ IsPiece(cbMsg, Len(Data(t)) + 1)
        /\ Len(Data(t)) + 1 <= captured
        /\ mutex[t].count = 0
    BY <1>1, <1>3 DEF StreamInv, Seen, Data
  <2>2. userdata' = [userdata EXCEPT ![t].data = Append(@, cbMsg.piece)]
    BY <1>1, <1>3, <2>1 DEF CbCopy, IsPiece, Data
  <2>3. /\ Data(t)' = Append(Data(t), Len(Data(t)) + 1)
        /\ userdata'[t].length = userdata[t].length
        /\ userdata'[t].cameraBoard = userdata[t].cameraBoard
    BY <2>1, <2>2 DEF Data, IsPiece
  <2>4. /\ Len(Data(t)') = Len(Data(t)) + 1
        /\ \A i \in 1 .. Len(Data(t)') : Data(t)'[i] = i
    BY <2>3, SMTT(30) DEF Data
  <2>5. cb' = IF Len(Data(t)) + 1 = captured THEN "post" ELSE "release"
    BY <2>1 DEF CbCopy, IsPiece
  <2>6. Seen(t)' = Seen(t)
    BY <1>1, <2>4, <2>5 DEF Seen, Data
  <2>7. \A i \in 1 .. Len(returned') : IsPiece(returned'[i], Seen(t)' + i)
    BY <1>2, <1>3, <2>6 DEF StreamInv
  <2>8. StreamInv(t)'
    BY <1>2, <1>3, <2>1, <2>4, <2>5, <2>6, <2>7
       DEF StreamInv, IsPiece
  <2> QED
    BY <1>2, <1>3, <2>3, <2>4, <2>8
<1>4. CASE pc[t] \in {"stop", "disable", "drain"}
  <2>1. IsEmpty(cbMsg)
    BY <1>1, <1>4 DEF EndedInv
  <2>2. userdata' = userdata /\ cb' = "release"
    BY <1>1, <2>1 DEF CbCopy, IsEmpty
  <2>3. EndedInv(t)'
    BY <1>2, <1>4, <2>2 DEF EndedInv, Data, IsEmpty
  <2> QED
    BY <1>2, <1>4, <2>2, <2>3 DEF Data
<1> QED
  BY <1>1, <1>3, <1>4

\* ... in the rest of the callback,
LEMMA PictureCallback ==
  ASSUME NEW t, Threads = {t}, PictureAll(t),
         \/ CbPost \/ CbRelease \/ CbCheck \/ CbGet \/ CbSend \/ CbReturn
         \/ ActionLock \/ ActionUnlock \/ UNCHANGED vars
  PROVE  PictureInv(t)'
<1> USE StillThreads DEF PictureAll, TypeOK, RealInv, CallInv, PictureInv, Data
<1>1. CASE CbPost
  <2>1. pc[t] = "wait" /\ cbUser = t
    BY <1>1 DEF CbPost, EndedInv
  <2>2. mutex' = [mutex EXCEPT ![t].count = @ + 1]
    BY <1>1, <2>1 DEF CbPost
  <2>3. mutex'[t].live = mutex[t].live
    BY <2>2
  <2>4. Seen(t)' = Seen(t)
    BY <1>1 DEF CbPost, Seen
  <2>5. StreamInv(t)'
    BY <1>1, <2>1, <2>3, <2>4 DEF CbPost, StreamInv, IsPiece
  <2> QED
    BY <1>1, <2>1, <2>5 DEF CbPost
<1>2. ASSUME UNCHANGED <<cameraVars, portVars, returned, pc, userdata, mutex,
                         result>>,
             cb' = cb \/ {cb, cb'} \cap {"copy", "post"} = {},
             cb = "copy" => cbMsg' = cbMsg
      PROVE  PictureInv(t)'
  <2>1. Seen(t)' = Seen(t)
    BY <1>2 DEF Seen
  <2>2. ASSUME StreamInv(t) PROVE StreamInv(t)'
    <3>1. UNCHANGED <<piece, captured, captureOn, returned, mutex, userdata>>
      BY <1>2 DEF cameraVars, portVars
    <3>2. /\ cb' = "copy" => cb = "copy" /\ cbMsg' = cbMsg
          /\ cb' = "post" => cb = "post"
      BY <1>2
    <3>3. ASSUME NEW m, NEW n PROVE IsPiece(m, n)' <=> IsPiece(m, n)
      BY <3>1 DEF IsPiece
    <3> QED
      BY <2>1, <2>2, <3>1, <3>2, <3>3 DEF StreamInv
  <2>3. EndedInv(t) => EndedInv(t)'
    BY <1>2 DEF EndedInv, IsEmpty, portVars
  <2> QED
    BY <1>2, <2>2, <2>3
<1>3. CASE CbRelease
  BY <1>2, <1>3 DEF CbRelease
<1>4. CASE CbCheck
  BY <1>2, <1>4 DEF CbCheck
<1>5. CASE CbGet
  BY <1>2, <1>5 DEF CbGet
<1>6. CASE CbSend
  BY <1>2, <1>6 DEF CbSend
<1>7. CASE CbReturn
  BY <1>2, <1>7 DEF CbReturn
<1>8. CASE ActionLock \/ ActionUnlock
  BY <1>2, <1>8 DEF ActionLock, ActionUnlock
<1>9. CASE UNCHANGED vars
  BY <1>2, <1>9
<1> QED
  BY <1>1, <1>3, <1>4, <1>5, <1>6, <1>7, <1>8, <1>9

\* ... and when the encoder fills a header.
LEMMA PictureFill ==
  ASSUME NEW t, Threads = {t}, Faults = {}, PictureAll(t),
         NEW b \in Buffers, Fill(b)
  PROVE  PictureInv(t)'
<1> USE DEF PictureAll, TypeOK, RealInv, CallInv, PictureInv, Data
<1>1. pc[t] = "wait" /\ StreamInv(t) /\ piece <= captured
  BY DEF Fill, EndedInv, StreamInv
<1>2. /\ returned' =
           Append(returned, Message(b, piece, FALSE, piece = captured))
      /\ piece' = piece + 1 /\ captureOn' = (piece < captured)
      /\ UNCHANGED <<cameraVars, pc, userdata, mutex, result, cb, cbMsg>>
  BY DEF Fill, Fault
<1>3. Seen(t)' = Seen(t) /\ Seen(t) \in Nat
  BY <1>2 DEF Seen
<1>4. IsPiece(Message(b, piece, FALSE, piece = captured), piece)
  BY DEF IsPiece, Message
<1>5. /\ Len(returned') = Len(returned) + 1
      /\ \A i \in 1 .. Len(returned) : returned'[i] = returned[i]
      /\ returned'[Len(returned')] = Message(b, piece, FALSE, piece = captured)
  <2>1. Message(b, piece, FALSE, piece = captured) \in RealMessages
    BY DEF Message, RealMessages
  <2>2. \A m \in RealMessages :
          LET longer == Append(returned, m) IN
          /\ Len(longer) = Len(returned) + 1
          /\ \A i \in 1 .. Len(returned) : longer[i] = returned[i]
          /\ longer[Len(longer)] = m
    OBVIOUS
  <2> QED
    BY <1>2, <2>1, <2>2, ZenonT(60)
<1>6. \A i \in 1 .. Len(returned') : IsPiece(returned'[i], Seen(t)' + i)
  <2> SUFFICES ASSUME NEW i \in 1 .. Len(returned')
               PROVE  IsPiece(returned'[i], Seen(t) + i)
    BY <1>3
  <2>1. CASE i = Len(returned')
    <3>1. Seen(t) + i = piece
      BY <1>1, <1>3, <1>5, <2>1 DEF StreamInv
    <3> QED
      BY <1>4, <1>5, <2>1, <3>1
  <2>2. CASE i # Len(returned')
    <3>1. i \in 1 .. Len(returned)
      BY <1>5, <2>2
    <3> QED
      BY <1>1, <1>5, <3>1 DEF StreamInv
  <2> QED
    BY <2>1, <2>2
<1>7. captureOn' <=> piece' <= captured'
  <2>1. piece < captured <=> piece + 1 <= captured
    OBVIOUS
  <2>2. captureOn' <=> piece + 1 <= captured
    BY ONLY <1>2, <2>1, Zenon
  <2>3. piece' = piece + 1 /\ captured' = captured
    BY <1>2
  <2> QED
    BY ONLY <2>2, <2>3, Zenon
<1>8. piece' = Seen(t)' + Len(returned') + 1 /\ piece' <= captured' + 1
  BY <1>1, <1>2, <1>3, <1>5, SMTT(30) DEF StreamInv
<1>9. StreamInv(t)'
  BY <1>1, <1>2, <1>6, <1>7, <1>8 DEF StreamInv, IsPiece
<1> QED
  BY <1>1, <1>2, <1>9

\* One thread that takes pictures, no faults, and no size set on an open camera.
LEMMA PictureInvariance ==
  ASSUME NEW t, Threads = {t}, Faults = {}, ~LateResize
  PROVE  Spec => []PictureAll(t)
<1>1. Init => PictureAll(t)
  <2> SUFFICES ASSUME Init PROVE CallInv(t) /\ ClosedInv(t) /\ PictureInv(t)
    BY StillTypesInit DEF PictureAll
  <2> QED
    BY StillSizes DEF Init, CallInv, ClosedInv, PictureInv, Data, NoUserdata
<1>2. PictureAll(t) /\ [Next]_vars => PictureAll(t)'
  <2> SUFFICES ASSUME PictureAll(t), [Next]_vars PROVE PictureAll(t)'
    OBVIOUS
  <2>1. PictureInv(t)'
    BY PictureCalls, PictureSteps, PictureDeliver, PictureCopy,
       PictureCallback, PictureFill DEF Next, Callback, Encoder
  <2> QED
    BY <2>1, TypeStep, CallStep, ClosedStep DEF PictureAll
<1> QED
  BY <1>1, <1>2, PTL DEF Spec

\* takePicture: when it returns true the caller's buffer holds the whole
\* picture, of the size asked for, in order, for pools and sizes of any number
\* and any number of pictures.
THEOREM PictureTheorem ==
  ASSUME NEW t, Threads = {t}, Faults = {}, ~LateResize
  PROVE  Spec => []PictureComplete
<1>1. PictureAll(t) => PictureComplete
  <2> SUFFICES ASSUME PictureAll(t), result[t] = "true"
               PROVE  userdata[t].data = [i \in 1 .. userdata[t].length |-> i]
    BY DEF PictureComplete
  <2>1. /\ userdata[t].data \in Seq(Nat)
        /\ Len(userdata[t].data) = userdata[t].length
    BY DEF PictureAll, TypeOK, PictureInv, Data
  <2> QED
    BY <2>1, SMTT(30) DEF PictureAll, PictureInv, Data
<1> QED
  BY <1>1, PictureInvariance, PTL

\* buffer_callback: sem_post is called once in a picture, before takePicture
\* can have destroyed the semaphore.
THEOREM SemaphoreAliveTheorem ==
  ASSUME NEW t, Threads = {t}, Faults = {}, ~LateResize
  PROVE  Spec => []SemaphoreAlive
<1>1. PictureAll(t) => SemaphoreAlive
  BY DEF PictureAll, CallInv, PictureInv, StreamInv, EndedInv, SemaphoreAlive
<1> QED
  BY <1>1, PictureInvariance, PTL

\* Where the headers are, each of those returned with a place of its own.
PlaceInv ==
  /\ queue \cap held = {}
  /\ \A i \in 1 .. Len(returned) : returned[i].buffer \notin queue \cup held
  /\ \A i, j \in 1 .. Len(returned) :
       returned[i].buffer = returned[j].buffer => i = j
  /\ cbMsg.buffer \in Buffers =>
       /\ cb \in {"copy", "post", "release"}
       /\ cbMsg.buffer \notin queue \cup held
       /\ \A i \in 1 .. Len(returned) : returned[i].buffer # cbMsg.buffer
  /\ cbNew \in Buffers =>
       /\ cb = "send" /\ cbNew \notin queue \cup held
       /\ \A i \in 1 .. Len(returned) : returned[i].buffer # cbNew
  /\ ~isInitialized => /\ queue = {} /\ held = {} /\ returned = <<>>
                       /\ cb = "idle"

\* The headers mmal_port_disable gives back are those held, each once.
LEMMA GivenBackPlaces ==
  ASSUME held \subseteq Buffers
  PROVE  /\ \A i \in 1 .. Len(GivenBack) : GivenBack[i].buffer \in held
         /\ \A i, j \in 1 .. Len(GivenBack) :
              GivenBack[i].buffer = GivenBack[j].buffer => i = j
<1>1. IsFiniteSet(held)
  BY StillBuffers, FS_Subset
<1>2. Cardinality(held) \in Nat /\ ExistsBijection(1 .. Cardinality(held), held)
  BY <1>1, FS_CardinalityType
<1>3. \E f \in [1 .. Cardinality(held) -> held] : IsInjective(f)
  BY <1>2 DEF ExistsBijection, Bijection, Injection, IsInjective
<1>4. /\ SetToSeq(held) \in [1 .. Cardinality(held) -> held]
      /\ IsInjective(SetToSeq(held))
  BY <1>3 DEF SetToSeq
<1>5. Len(GivenBack) = Cardinality(held)
  BY <1>2 DEF GivenBack
<1>6. \A i \in 1 .. Cardinality(held) : GivenBack[i].buffer = SetToSeq(held)[i]
  BY DEF GivenBack, Message
<1> QED
  BY <1>4, <1>5, <1>6 DEF IsInjective

\* No step puts a header in two places.
LEMMA PlaceStep ==
  ASSUME TypeOK, RealInv, PlaceInv, [Next]_vars
  PROVE  PlaceInv'
<1> USE StillBuffers DEF TypeOK, RealInv, PlaceInv, At, Goto, CallbackPC
<1>1. ASSUME NEW t \in Threads, Calls(t) PROVE PlaceInv'
  <2>1. /\ UNCHANGED <<held, returned, cb, cbMsg, cbNew>>
        /\ \/ isInitialized' = isInitialized /\ queue' = queue
           \/ ~isInitialized /\ isInitialized' = TRUE /\ queue' = Buffers
    BY <1>1 DEF Calls, Open, TakePicture, SetCaptureSize, Initialize,
        headerVars, cbVars
  <2>2. CASE isInitialized' = isInitialized /\ queue' = queue
    BY <2>1, <2>2
  <2>3. CASE ~isInitialized /\ isInitialized' = TRUE /\ queue' = Buffers
    <3>1. Len(returned') = 0 /\ held' = {} /\ cb' = "idle"
      BY <2>1, <2>3
    <3>2. cbMsg'.buffer \notin Buffers /\ cbNew' \notin Buffers
      BY <2>1, <2>3
    <3> QED
      BY <2>3, <3>1, <3>2
  <2> QED
    BY <2>1, <2>2, <2>3
<1>2. ASSUME NEW b, b \in queue, queue' = queue \ {b}, SendBuffer(b),
             UNCHANGED <<returned, cb, cbMsg, cbNew, isInitialized>>
      PROVE  PlaceInv'
  <2>1. isInitialized /\ held' \subseteq held \cup {b}
    BY <1>2 DEF SendBuffer
  <2> QED
    BY <1>2, <2>1
<1>3. ASSUME NEW t \in Threads, Steps(t), ~DisablePort(t) PROVE PlaceInv'
  <2>1. CASE StartSend(t)
    BY <1>2, <2>1 DEF StartSend
  <2>2. CASE ~StartSend(t)
    <3>1. UNCHANGED <<queue, held, returned, cb, cbMsg, cbNew, isInitialized>>
      BY <1>3, <2>2 DEF Steps, EnablePort, EnableFails, StartSendDone,
          StartCapture, StartFails, TakePictureFails, WaitForPicture,
          StopCapture, DrainDone, TransitWait, TakePictureDone
    <3> QED
      BY <3>1
  <2> QED
    BY <2>1, <2>2
<1>4. ASSUME NEW t \in Threads, DisablePort(t) PROVE PlaceInv'
  <2>1. /\ returned' = returned \o GivenBack /\ held' = {}
        /\ UNCHANGED <<queue, cb, cbMsg, cbNew, isInitialized>>
    BY <1>4 DEF DisablePort, GivenBack
  <2>2. returned \in Seq(RealMessages) /\ GivenBack \in Seq(RealMessages)
    BY GivenBackType
  <2>3. /\ Len(returned') = Len(returned) + Len(GivenBack)
        /\ \A i \in 1 .. Len(returned) + Len(GivenBack) :
             returned'[i] = IF i <= Len(returned) THEN returned[i]
                            ELSE GivenBack[i - Len(returned)]
    BY <2>1, <2>2, ConcatProperties
  <2>4. Len(returned) \in Nat /\ Len(GivenBack) \in Nat
    BY <2>2
  <2> DEFINE n == Len(returned)
  <2>5. ASSUME NEW i \in 1 .. Len(returned')
        PROVE  \/ i \in 1 .. n /\ returned'[i] = returned[i]
               \/ /\ i - n \in 1 .. Len(GivenBack)
                  /\ returned'[i] = GivenBack[i - n]
    BY <2>3, <2>4, SMTT(30)
  <2>6. ASSUME NEW i \in 1 .. Len(returned')
        PROVE  \/ returned'[i].buffer \in held
               \/ i \in 1 .. n /\ returned'[i] = returned[i]
    BY <2>5, GivenBackPlaces
  <2>7. ASSUME NEW i \in 1 .. Len(returned'), NEW j \in 1 .. Len(returned'),
               returned'[i].buffer = returned'[j].buffer
        PROVE  i = j
    <3>1. CASE i \in 1 .. n /\ returned'[i] = returned[i]
      <4>1. returned'[j].buffer \notin held
        BY <2>7, <3>1
      <4>2. j \in 1 .. n /\ returned'[j] = returned[j]
        BY <2>6, <4>1
      <4> QED
        BY <2>7, <3>1, <4>2
    <3>2. CASE i - n \in 1 .. Len(GivenBack) /\ returned'[i] = GivenBack[i - n]
      <4>1. returned'[j].buffer \in held
        BY <2>7, <3>2, GivenBackPlaces
      <4>2. j - n \in 1 .. Len(GivenBack) /\ returned'[j] = GivenBack[j - n]
        BY <2>5, <4>1
      <4>3. i - n = j - n
        BY <2>7, <3>2, <4>2, GivenBackPlaces
      <4> QED
        BY <2>4, <4>3
    <3> QED
      BY <2>5, <3>1, <3>2
  <2>8. isInitialized \/ returned' = <<>>
    <3>1. CASE isInitialized
      BY <3>1
    <3>2. CASE ~isInitialized
      <4>1. Cardinality(held) = 0
        BY <3>2, FS_EmptySet
      <4>2. Len(GivenBack) = 0
        BY <4>1 DEF GivenBack
      <4> QED
        BY <2>1, <2>2, <3>2, <4>2
    <3> QED
      BY <3>1, <3>2
  <2>9. \A i \in 1 .. Len(returned') : returned'[i].buffer \notin queue
    BY <2>6
  <2>10. cbMsg.buffer \in Buffers =>
           \A i \in 1 .. Len(returned') : returned'[i].buffer # cbMsg.buffer
    BY <2>6
  <2>11. cbNew \in Buffers =>
           \A i \in 1 .. Len(returned') : returned'[i].buffer # cbNew
    BY <2>6
  <2> QED
    BY <2>1, <2>7, <2>8, <2>9, <2>10, <2>11
<1>5. ASSUME NEW b \in Buffers, Fill(b) PROVE PlaceInv'
  <2> DEFINE good == Message(b, piece, FALSE, piece = captured)
             bad == Message(b, 0, FALSE, TRUE)
  <2>1. PICK m \in {good, bad} : returned' = Append(returned, m)
    BY <1>5 DEF Fill
  <2>5. m.buffer = b
    BY DEF Message
  <2>2. /\ b \in held /\ held' = held \ {b}
        /\ UNCHANGED <<queue, cb, cbMsg, cbNew, isInitialized>>
    BY <1>5 DEF Fill
  <2>3. /\ Len(returned') = Len(returned) + 1 /\ Len(returned) \in Nat
        /\ \A i \in 1 .. Len(returned) : returned'[i] = returned[i]
        /\ returned'[Len(returned) + 1] = m
    BY <2>1
  <2>4. \A i \in 1 .. Len(returned') :
          i \in 1 .. Len(returned) \/ i = Len(returned) + 1
    BY <2>3
  <2> QED
    BY <2>1, <2>2, <2>3, <2>4, <2>5
<1>6. CASE Deliver
  <2>1. /\ Head(returned) = returned[1] /\ 1 \in 1 .. Len(returned)
        /\ Len(returned') = Len(returned) - 1
        /\ \A i \in 1 .. Len(returned') :
             returned'[i] = returned[i + 1] /\ i + 1 \in 1 .. Len(returned)
    BY <1>6 DEF Deliver
  <2>2. /\ cbMsg' = returned[1] /\ cb' \in {"copy", "release"} /\ cb = "idle"
        /\ UNCHANGED <<queue, held, cbNew, isInitialized>>
    BY <1>6, <2>1 DEF Deliver
  <2>3. ASSUME NEW i \in 1 .. Len(returned')
        PROVE  returned'[i].buffer # returned[1].buffer
    <3>1. /\ i + 1 \in 1 .. Len(returned) /\ i + 1 # 1
          /\ returned'[i] = returned[i + 1]
      BY <2>1
    <3>2. returned[i + 1].buffer # returned[1].buffer
      BY <2>1, <3>1
    <3> QED
      BY <3>1, <3>2
  <2> QED
    BY <1>6, <2>1, <2>2, <2>3 DEF Deliver
<1>7. CASE CbCopy \/ CbPost
  <2>1. UNCHANGED <<queue, held, returned, cbMsg, cbNew, isInitialized>>
    BY <1>7 DEF CbCopy, CbPost
  <2>2. cb \in {"copy", "post"} /\ cb' \in {"post", "release"}
    BY <1>7 DEF CbCopy, CbPost
  <2> QED
    BY <2>1, <2>2
<1>8. CASE CbRelease
  <2>1. cbMsg'.buffer = NoBuffer
    BY <1>8 DEF CbRelease, NoMessage, Message
  <2> QED
    BY <1>8, <2>1 DEF CbRelease
<1>9. CASE CbGet
  BY <1>9 DEF CbGet
<1>10. CASE CbSend
  <2>1. held' \subseteq held \cup {cbNew} /\ cbNew' = NoBuffer /\ cb' = "return"
    BY <1>10 DEF CbSend, SendBuffer
  <2>2. UNCHANGED <<queue, returned, cbMsg, isInitialized>> /\ cb = "send"
    BY <1>10 DEF CbSend
  <2> QED
    BY <2>1, <2>2
<1>11. CASE CbCheck \/ CbReturn
  BY <1>11 DEF CbCheck, CbReturn
<1>12. CASE ActionLock \/ ActionUnlock \/ UNCHANGED vars
  BY <1>12 DEF ActionLock, ActionUnlock
<1> QED
  BY <1>1, <1>3, <1>4, <1>5, <1>6, <1>7, <1>8, <1>9, <1>10, <1>11, <1>12
     DEF Next, Callback, Encoder

\* takePicture, buffer_callback and the encoder: for any number of threads,
\* headers, pictures and faults no header is in two places.
THEOREM StillHeaderTheorem == Spec => []HeaderInOnePlace
<1>1. Init => PlaceInv
  BY StillBuffers DEF Init, PlaceInv, NoMessage, Message
<1>2. TypeOK /\ RealInv /\ PlaceInv /\ [Next]_vars => PlaceInv'
  BY PlaceStep
<1>3. TypeOK /\ RealInv /\ PlaceInv => HeaderInOnePlace
  <2> SUFFICES ASSUME TypeOK, RealInv, PlaceInv PROVE HeaderInOnePlace
    OBVIOUS
  <2> USE StillBuffers DEF TypeOK, RealInv, PlaceInv
  <2>1. /\ DOMAIN returned = 1 .. Len(returned) /\ Len(returned) \in Nat
        /\ \A i \in 1 .. Len(returned) : returned[i].buffer \in Buffers
    <3>1. \A i \in 1 .. Len(returned) : returned[i] \in RealMessages
      BY ElementOfSeq
    <3> QED
      BY <3>1, LenProperties DEF RealMessages
  <2>2. BuffersOf(returned) \subseteq Buffers
        /\ (queue \cup held) \cap BuffersOf(returned) = {}
    BY <2>1 DEF BuffersOf
  <2>3. Cardinality(BuffersOf(returned)) = Len(returned)
    <3> DEFINE f == [i \in 1 .. Len(returned) |-> returned[i].buffer]
    <3>1. f \in Bijection(1 .. Len(returned), BuffersOf(returned))
      BY <2>1 DEF Bijection, Injection, Surjection, IsInjective, BuffersOf
    <3>2. ExistsBijection(1 .. Len(returned), BuffersOf(returned))
      BY <3>1 DEF ExistsBijection
    <3> QED
      BY <2>1, <3>2, FS_CountingElements
  <2>4. {cbMsg.buffer, cbNew} \cap
          (queue \cup held \cup BuffersOf(returned)) = {}
    BY <2>1, <2>2, SMTT(30) DEF BuffersOf, Messages
  <2> QED
    BY <2>2, <2>3, <2>4 DEF HeaderInOnePlace
<1> QED
  BY <1>1, <1>2, <1>3, StillTypes, PTL DEF Spec

\* The port between the call that enables it and the end of its disabling: one
\* call at most, and headers on their way only within it.
Enabled == {"send", "capture", "wait", "stop"}
Disabling == {"disable", "drain", "transit"}

PortInv ==
  /\ \A t \in Threads : /\ pc[t] \in Enabled => is_enabled
                        /\ pc[t] \in Disabling => ~is_enabled
  /\ \A t, u \in Threads : pc[t] \in Enabled /\ pc[u] \in Enabled => t = u
  /\ held # {} => is_enabled \/ \E t \in Threads : pc[t] = "disable"
  /\ returned # <<>> \/ cb # "idle" =>
       is_enabled \/ \E t \in Threads : pc[t] \in {"disable", "drain"}

\* No step breaks PortInv.
LEMMA PortStep ==
  ASSUME TypeOK, RealInv, PortInv, [Next]_vars
  PROVE  PortInv'
<1> DEFINE Outside == ThreadPC \ (Enabled \cup Disabling)
<1>1. /\ pc \in [Threads -> ThreadPC] /\ cb \in CallbackPC
      /\ returned \in Seq(RealMessages)
  BY DEF TypeOK, RealInv
<1> USE DEF PortInv, Enabled, Disabling, At, Goto, ThreadPC
<1>2. ASSUME UNCHANGED <<is_enabled, held, returned>>, cb' = cb \/ cb # "idle",
             \A t \in Threads :
               pc'[t] = pc[t] \/ {pc[t], pc'[t]} \subseteq Outside
      PROVE  PortInv'
  <2>1. \A t \in Threads, p \in Enabled \cup Disabling :
          pc'[t] = p <=> pc[t] = p
    BY <1>2
  <2>2. cb' # "idle" => cb # "idle"
    BY <1>2
  <2> QED
    BY <1>2, <2>1, <2>2, SMTT(30)
<1>3. ASSUME NEW t \in Threads, Calls(t) PROVE PortInv'
  <2>1. UNCHANGED <<is_enabled, cb, held, returned>>
    BY <1>3 DEF Calls, Open, TakePicture, SetCaptureSize, Initialize
  <2>2. \/ pc' = pc
        \/ pc[t] = "idle" /\ pc' = [pc EXCEPT ![t] = "start"]
    BY <1>3 DEF Calls, Open, TakePicture, SetCaptureSize
  <2> QED
    BY <1>1, <1>2, <2>1, <2>2
<1>4. ASSUME NEW t \in Threads,
             TakePictureFails(t) \/ TakePictureDone(t)
      PROVE  PortInv'
  <2>1. UNCHANGED <<is_enabled, cb, held, returned>>
    BY <1>4 DEF TakePictureFails, TakePictureDone
  <2>2. /\ pc[t] \in {"fail", "delete"} /\ pc' = [pc EXCEPT ![t] = "idle"]
    BY <1>4 DEF TakePictureFails, TakePictureDone
  <2> QED
    BY <1>1, <1>2, <2>1, <2>2
<1>5. ASSUME NEW t \in Threads, EnableFails(t) PROVE PortInv'
  <2>1. UNCHANGED <<is_enabled, cb, held, returned>>
    BY <1>5 DEF EnableFails
  <2>2. pc[t] = "start" /\ pc' = [pc EXCEPT ![t] = "fail"]
    BY <1>5 DEF EnableFails
  <2> QED
    BY <1>1, <1>2, <2>1, <2>2
<1>6. ASSUME NEW t \in Threads, EnablePort(t) PROVE PortInv'
  BY <1>1, <1>6 DEF EnablePort
<1>7. ASSUME NEW t \in Threads, StartFails(t) PROVE PortInv'
  BY <1>1, <1>7 DEF StartFails
<1>8. ASSUME NEW t \in Threads, StartSend(t) PROVE PortInv'
  BY <1>1, <1>8 DEF StartSend
<1>9. ASSUME NEW t \in Threads,
             StartSendDone(t) \/ StartCapture(t) \/ WaitForPicture(t)
      PROVE  PortInv'
  BY <1>1, <1>9 DEF StartSendDone, StartCapture, WaitForPicture
<1>10. ASSUME NEW t \in Threads, StopCapture(t) PROVE PortInv'
  BY <1>1, <1>10 DEF StopCapture
<1>11. ASSUME NEW t \in Threads, DisablePort(t) PROVE PortInv'
  BY <1>1, <1>11 DEF DisablePort
<1>12. ASSUME NEW t \in Threads, DrainDone(t) PROVE PortInv'
  BY <1>1, <1>12 DEF DrainDone
<1>13. ASSUME NEW t \in Threads, TransitWait(t) PROVE PortInv'
  BY <1>1, <1>13 DEF TransitWait, InTransit
<1>14. CASE Deliver
  BY <1>14 DEF Deliver
<1>15. CASE CbSend
  <2>1. held' = held \/ is_enabled
    BY <1>15 DEF CbSend, SendBuffer
  <2>2. UNCHANGED <<is_enabled, pc, returned>> /\ cb = "send"
    BY <1>15 DEF CbSend
  <2> QED
    BY <2>1, <2>2
<1>16. CASE CbCopy \/ CbPost \/ CbRelease \/ CbCheck \/ CbGet \/ CbReturn
  <2>1. UNCHANGED <<is_enabled, pc, held, returned>> /\ cb # "idle"
    BY <1>16 DEF CbCopy, CbPost, CbRelease, CbCheck, CbGet, CbReturn
  <2> QED
    BY <1>2, <2>1
<1>17. CASE ActionLock \/ ActionUnlock \/ UNCHANGED vars
  <2>1. UNCHANGED <<is_enabled, pc, held, returned, cb>>
    BY <1>17 DEF ActionLock, ActionUnlock
  <2> QED
    BY <1>2, <2>1
<1>18. CASE Encoder
  BY <1>18 DEF Encoder, Fill
<1> QED
  BY <1>3, <1>4, <1>5, <1>6, <1>7, <1>8, <1>9, <1>10, <1>11, <1>12, <1>13,
     <1>14, <1>15, <1>16, <1>17, <1>18 DEF Next, Steps, Callback

\* The headers somebody has: the pool, the encoder, the callback queue or the
\* callback.
Afoot ==
  {b \in Buffers : \/ b \in queue \cup held \/ b = cbMsg.buffer \/ b = cbNew
                   \/ \E i \in 1 .. Len(returned) : returned[i].buffer = b}

\* Headers lost since the port was enabled have been refused; one more may be,
\* when the callback has sent after the port was disabled.
LostInv ==
  Cardinality(Afoot) + faults
    + (IF is_enabled \/ cb \in {"get", "send"} THEN 0 ELSE 1) >= pooled

\* Headers, counted.
LEMMA AfootSize ==
  /\ IsFiniteSet(Afoot) /\ Cardinality(Afoot) \in Nat
  /\ \A S \in SUBSET Buffers :
       /\ Afoot \subseteq S => Cardinality(S) >= Cardinality(Afoot)
       /\ \A b : Afoot \ {b} \subseteq S =>
            Cardinality(S) >= Cardinality(Afoot) - 1
       /\ Cardinality(S) \in Nat
<1>1. \A S \in SUBSET Buffers : IsFiniteSet(S) /\ Cardinality(S) \in Nat
  BY StillBuffers, FS_Subset, FS_CardinalityType
<1>2. Afoot \in SUBSET Buffers
  BY DEF Afoot
<1>3. ASSUME NEW S \in SUBSET Buffers, NEW T \in SUBSET S
      PROVE  Cardinality(S) >= Cardinality(T)
  <2>1. IsFiniteSet(S) /\ Cardinality(S) \in Nat
    BY <1>1
  <2>2. Cardinality(T) \in Nat
    BY <1>1
  <2> QED
    BY <2>1, <2>2, FS_Subset
<1>4. \A b : Cardinality(Afoot \ {b}) \in Nat
             /\ Cardinality(Afoot \ {b}) >= Cardinality(Afoot) - 1
  BY <1>1, <1>2, FS_RemoveElement
<1>5. ASSUME NEW S \in SUBSET Buffers, NEW b, Afoot \ {b} \subseteq S
      PROVE  Cardinality(S) >= Cardinality(Afoot) - 1
  <2>1. Cardinality(S) >= Cardinality(Afoot \ {b})
    BY <1>3, <1>5
  <2>2. Cardinality(S) \in Nat /\ Cardinality(Afoot) \in Nat
    BY <1>1, <1>2
  <2>3. /\ Cardinality(Afoot \ {b}) \in Nat
        /\ Cardinality(Afoot \ {b}) >= Cardinality(Afoot) - 1
    BY <1>4
  <2> QED
    BY ONLY <2>1, <2>2, <2>3
<1> QED
  BY <1>1, <1>2, <1>3, <1>5

\* Every header held is among those mmal_port_disable gives back.
LEMMA GivenBackAll ==
  ASSUME held \subseteq Buffers
  PROVE  \A b \in held : \E i \in 1 .. Len(GivenBack) : GivenBack[i].buffer = b
<1>1. IsFiniteSet(held)
  BY StillBuffers, FS_Subset
<1>2. Cardinality(held) \in Nat /\ ExistsBijection(1 .. Cardinality(held), held)
  BY <1>1, FS_CardinalityType
<1>3. \E f \in [1 .. Cardinality(held) -> held] : IsInjective(f)
  BY <1>2 DEF ExistsBijection, Bijection, Injection, IsInjective
<1>4. SetToSeq(held) \in Injection(1 .. Cardinality(held), held)
  BY <1>3 DEF SetToSeq, Injection, IsInjective
<1>5. Cardinality(1 .. Cardinality(held)) = Cardinality(held)
  BY <1>2, FS_Interval
<1>6. SetToSeq(held) \in Surjection(1 .. Cardinality(held), held)
  BY <1>1, <1>4, <1>5, FS_Injection
<1>7. Len(GivenBack) = Cardinality(held)
  BY <1>2 DEF GivenBack
<1>8. \A i \in 1 .. Cardinality(held) : GivenBack[i].buffer = SetToSeq(held)[i]
  BY DEF GivenBack, Message
<1> QED
  BY <1>6, <1>7, <1>8 DEF Surjection

\* A concatenation holds the elements of its first sequence ...
LEMMA ConcatFirst ==
  ASSUME NEW S, NEW s \in Seq(S), NEW u \in Seq(S), NEW i \in 1 .. Len(s)
  PROVE  \E j \in 1 .. Len(s \o u) : (s \o u)[j] = s[i]
<1>1. i \in 1 .. Len(s \o u) /\ (s \o u)[i] = s[i]
  BY ConcatProperties
<1> QED
  BY <1>1

\* ... and those of its second.
LEMMA ConcatLast ==
  ASSUME NEW S, NEW s \in Seq(S), NEW u \in Seq(S), NEW i \in 1 .. Len(u)
  PROVE  \E j \in 1 .. Len(s \o u) : (s \o u)[j] = u[i]
<1>1. /\ Len(s \o u) = Len(s) + Len(u)
      /\ Len(s) \in Nat /\ Len(u) \in Nat
      /\ (s \o u)[Len(s) + i] =
           IF Len(s) + i <= Len(s) THEN s[Len(s) + i]
           ELSE u[Len(s) + i - Len(s)]
  BY ConcatProperties
<1>2. /\ Len(s) + i \in 1 .. Len(s) + Len(u)
      /\ ~(Len(s) + i <= Len(s)) /\ Len(s) + i - Len(s) = i
  BY <1>1
<1> QED
  BY <1>1, <1>2

\* No step loses more than that.
LEMMA LostStep ==
  ASSUME TypeOK, RealInv, PlaceInv, PortInv, LostInv, [Next]_vars
  PROVE  LostInv'
<1> DEFINE Safe == is_enabled \/ cb \in {"get", "send"}
<1>1. /\ IsFiniteSet(Afoot) /\ Cardinality(Afoot) \in Nat
      /\ Afoot' \in SUBSET Buffers /\ Cardinality(Afoot') \in Nat
      /\ Afoot \subseteq Afoot' => Cardinality(Afoot') >= Cardinality(Afoot)
      /\ \A b : Afoot \ {b} \subseteq Afoot' =>
           Cardinality(Afoot') >= Cardinality(Afoot) - 1
      /\ faults \in Nat /\ pooled \in Nat
  <2>1. Afoot' \in SUBSET Buffers
    BY DEF Afoot
  <2> QED
    BY <2>1, AfootSize DEF TypeOK
<1>2. ASSUME Afoot \subseteq Afoot', pooled' = pooled,
             faults' = faults \/ faults' = faults + 1, Safe' => Safe
      PROVE  LostInv'
  BY <1>1, <1>2 DEF LostInv
<1>3. ASSUME NEW b, Afoot \ {b} \subseteq Afoot', pooled' = pooled,
             faults' = faults + 1, Safe' => Safe
      PROVE  LostInv'
  <2>1. Cardinality(Afoot') >= Cardinality(Afoot) - 1
    BY <1>1, <1>3
  <2> QED
    BY <1>1, <1>3, <2>1 DEF LostInv
<1>4. ASSUME NEW b, Afoot \ {b} \subseteq Afoot', pooled' = pooled,
             faults' = faults, Safe, ~Safe'
      PROVE  LostInv'
  BY <1>1, <1>4 DEF LostInv
<1> USE StillBuffers DEF TypeOK, RealInv, At, Goto
<1>5. ASSUME NEW t \in Threads, Calls(t) PROVE LostInv'
  <2>1. /\ UNCHANGED <<held, returned, cbMsg, cbNew, cb, is_enabled, faults,
                        pooled>>
        /\ queue \subseteq queue'
    BY <1>5 DEF Calls, Open, TakePicture, SetCaptureSize, Initialize
  <2>2. Afoot \subseteq Afoot'
    BY <2>1 DEF Afoot
  <2> QED
    BY <1>2, <2>1, <2>2
<1>6. ASSUME NEW t \in Threads, EnablePort(t) PROVE LostInv'
  <2>1. held = {} /\ returned = <<>> /\ cb = "idle"
    BY <1>6 DEF EnablePort, PortInv
  <2>2. cbMsg.buffer \notin Buffers /\ cbNew \notin Buffers
    BY <2>1 DEF PlaceInv
  <2>3. UNCHANGED <<queue, held, returned, cbMsg, cbNew, faults>>
    BY <1>6 DEF EnablePort
  <2>4. Afoot' = queue
    BY <2>1, <2>2, <2>3 DEF Afoot
  <2>5. pooled' = Cardinality(Afoot') /\ faults' \in Nat
    BY <1>6, <2>3, <2>4 DEF EnablePort
  <2>6. \A x \in {0, 1} : Cardinality(Afoot') + faults' + x >= pooled'
    BY <1>1, <2>5
  <2> QED
    BY ONLY <2>6 DEF LostInv
<1>7. ASSUME NEW b \in Buffers, SendBuffer(b), Afoot \ {b} \subseteq Afoot',
             is_enabled, UNCHANGED <<is_enabled, pooled>>,
             b \in held' => b \in Afoot'
      PROVE  LostInv'
  <2>1. CASE held' = held \cup {b} /\ faults' = faults
    <3>1. Afoot \subseteq Afoot'
      BY <1>7, <2>1
    <3> QED
      BY <1>2, <1>7, <2>1, <3>1
  <2>2. CASE faults' = faults + 1
    BY <1>3, <1>7, <2>2
  <2> QED
    BY <1>7, <2>1, <2>2 DEF SendBuffer, Fault
<1>8. ASSUME NEW t \in Threads, StartSend(t) PROVE LostInv'
  <2>1. PICK b \in queue : queue' = queue \ {b} /\ SendBuffer(b)
    BY <1>8 DEF StartSend
  <2>2. is_enabled
    BY <1>8 DEF StartSend, PortInv, Enabled
  <2>3. held \subseteq held'
    BY <2>1 DEF SendBuffer
  <2>4. UNCHANGED <<returned, cbMsg, cbNew, is_enabled, pooled>>
    BY <1>8 DEF StartSend
  <2>5. Afoot \ {b} \subseteq Afoot' /\ (b \in held' => b \in Afoot')
    BY <2>1, <2>3, <2>4 DEF Afoot
  <2> QED
    BY <1>7, <2>1, <2>2, <2>4, <2>5
<1>9. ASSUME NEW t \in Threads, Steps(t),
             ~EnablePort(t), ~StartSend(t), ~DisablePort(t)
      PROVE  LostInv'
  <2>1. /\ UNCHANGED <<queue, held, returned, cbMsg, cbNew, cb, pooled>>
        /\ is_enabled' => is_enabled
        /\ faults' = faults \/ faults' = faults + 1
    BY <1>9 DEF Steps, EnableFails, StartSendDone, StartCapture, StartFails,
        TakePictureFails, WaitForPicture, StopCapture, DrainDone, TransitWait,
        TakePictureDone, Fault
  <2>2. Afoot' = Afoot
    BY <2>1 DEF Afoot
  <2> QED
    BY <1>2, <2>1, <2>2
<1>10. ASSUME NEW t \in Threads, DisablePort(t) PROVE LostInv'
  <2>1. returned' = returned \o GivenBack
    BY <1>10 DEF DisablePort, GivenBack
  <2>2. UNCHANGED <<queue, cbMsg, cbNew, cb, is_enabled, faults, pooled>>
    BY <1>10 DEF DisablePort
  <2>3. returned \in Seq(RealMessages) /\ GivenBack \in Seq(RealMessages)
    BY GivenBackType
  <2>4. /\ \A i \in 1 .. Len(returned) :
             \E j \in 1 .. Len(returned') : returned'[j] = returned[i]
        /\ \A i \in 1 .. Len(GivenBack) :
             \E j \in 1 .. Len(returned') : returned'[j] = GivenBack[i]
    <3>1. PICK r \in Seq(RealMessages), g \in Seq(RealMessages) :
            r = returned /\ g = GivenBack
      BY <2>3, Zenon
    <3>2. ASSUME NEW i \in 1 .. Len(r)
          PROVE  \E j \in 1 .. Len(r \o g) : (r \o g)[j] = r[i]
      BY ONLY ConcatFirst
    <3>3. ASSUME NEW i \in 1 .. Len(g)
          PROVE  \E j \in 1 .. Len(r \o g) : (r \o g)[j] = g[i]
      BY ONLY ConcatLast
    <3>4. returned' = r \o g
      BY <2>1, <3>1, Zenon
    <3> QED
      BY <3>1, <3>2, <3>3, <3>4, Zenon
  <2>5. ASSUME NEW b \in held
        PROVE  \E j \in 1 .. Len(returned') : returned'[j].buffer = b
    <3>1. PICK i \in 1 .. Len(GivenBack) : GivenBack[i].buffer = b
      BY GivenBackAll, Zenon
    <3>2. PICK j \in 1 .. Len(returned') : returned'[j] = GivenBack[i]
      BY <2>4, Zenon
    <3> QED
      BY <3>1, <3>2, Zenon
  <2>6. Afoot \subseteq Afoot'
    BY <2>2, <2>4, <2>5 DEF Afoot
  <2> QED
    BY <1>2, <2>2, <2>6
<1>11. ASSUME NEW b \in Buffers, Fill(b) PROVE LostInv'
  <2>1. PICK m : returned' = Append(returned, m) /\ m.buffer = b
    BY <1>11 DEF Fill, Message
  <2>2. /\ Len(returned') = Len(returned) + 1 /\ Len(returned) \in Nat
        /\ \A i \in 1 .. Len(returned) : returned'[i] = returned[i]
        /\ returned'[Len(returned) + 1] = m
    BY <2>1
  <2>3. /\ held' = held \ {b}
        /\ UNCHANGED <<queue, cbMsg, cbNew, cb, is_enabled, pooled>>
        /\ faults' = faults \/ faults' = faults + 1
    BY <1>11 DEF Fill, Fault
  <2>4. ASSUME NEW i \in 1 .. Len(returned)
        PROVE  \E j \in 1 .. Len(returned') : returned'[j] = returned[i]
    BY <2>2
  <2>5. \E j \in 1 .. Len(returned') : returned'[j].buffer = b
    BY <2>1, <2>2
  <2>6. Afoot \subseteq Afoot'
    BY <2>3, <2>4, <2>5 DEF Afoot
  <2> QED
    BY <1>2, <2>3, <2>6
<1>12. CASE Deliver
  <2>1. /\ cb = "idle" /\ cb' \in {"copy", "release"} /\ cbMsg' = returned[1]
        /\ UNCHANGED <<queue, held, cbNew, is_enabled, faults, pooled>>
    BY <1>12 DEF Deliver
  <2>2. cbMsg.buffer \notin Buffers
    BY <2>1 DEF PlaceInv
  <2>3. /\ Len(returned') = Len(returned) - 1 /\ Len(returned) \in Nat
        /\ \A i \in 1 .. Len(returned') : returned'[i] = returned[i + 1]
    BY <1>12 DEF Deliver
  <2>4. ASSUME NEW i \in 1 .. Len(returned), i # 1
        PROVE  \E j \in 1 .. Len(returned') : returned'[j] = returned[i]
    <3>1. i - 1 \in 1 .. Len(returned') /\ returned'[i - 1] = returned[i]
      BY <2>3, <2>4
    <3> QED
      BY <3>1
  <2>5. Afoot \subseteq Afoot'
    BY <2>1, <2>2, <2>4 DEF Afoot
  <2> QED
    BY <1>2, <2>1, <2>5
<1>13. CASE CbRelease
  <2>1. /\ queue' = queue \cup {cbMsg.buffer} /\ cb' = "check"
        /\ UNCHANGED <<held, returned, cbNew, is_enabled, faults, pooled>>
    BY <1>13 DEF CbRelease
  <2>2. Afoot \subseteq Afoot'
    BY <2>1 DEF Afoot
  <2> QED
    BY <1>2, <2>1, <2>2
<1>14. CASE CbGet
  <2>1. PICK b : cbNew' = b /\ queue' = queue \ {b}
    BY <1>14 DEF CbGet
  <2>2. /\ UNCHANGED <<held, returned, cbMsg, is_enabled, faults, pooled>>
        /\ cb = "get"
    BY <1>14 DEF CbGet
  <2>3. cbNew \notin Buffers
    BY <2>2 DEF PlaceInv
  <2>4. Afoot \subseteq Afoot'
    BY <2>1, <2>2, <2>3 DEF Afoot
  <2> QED
    BY <1>2, <2>2, <2>4
<1>15. CASE CbSend
  <2>1. /\ cb = "send" /\ cb' = "return" /\ SendBuffer(cbNew)
        /\ cbNew \in Buffers
        /\ UNCHANGED <<queue, returned, cbMsg, is_enabled, pooled>>
    BY <1>15 DEF CbSend
  <2>2. held \subseteq held'
    BY <2>1 DEF SendBuffer
  <2>3. /\ Afoot \ {cbNew} \subseteq Afoot'
        /\ cbNew \in held' => cbNew \in Afoot'
    BY <2>1, <2>2 DEF Afoot
  <2>4. CASE is_enabled
    BY <1>7, <2>1, <2>3, <2>4
  <2>5. CASE ~is_enabled
    <3>1. faults' = faults
      BY <2>1, <2>5 DEF SendBuffer
    <3> QED
      BY <1>4, <2>1, <2>3, <2>5, <3>1
  <2> QED
    BY <2>4, <2>5
<1>16. CASE \/ CbCopy \/ CbPost \/ CbCheck \/ CbReturn
            \/ ActionLock \/ ActionUnlock \/ UNCHANGED vars
  <2>1. UNCHANGED <<queue, held, returned, cbMsg, cbNew, is_enabled, faults,
                    pooled>>
    BY <1>16 DEF CbCopy, CbPost, CbCheck, CbReturn, ActionLock, ActionUnlock
  <2>2. Safe' => Safe
    BY <1>16 DEF CbCopy, CbPost, CbCheck, CbReturn, ActionLock, ActionUnlock
  <2>3. Afoot' = Afoot
    BY <2>1 DEF Afoot
  <2> QED
    BY <1>2, <2>1, <2>2, <2>3
<1> QED
  BY <1>5, <1>6, <1>8, <1>9, <1>10, <1>11, <1>12, <1>13, <1>14, <1>15, <1>16
     DEF Next, Callback, Encoder

\* takePicture and buffer_callback: however often the callback's unlocked test
\* of is_enabled races stopCapture, a picture costs the pool one header at most
\* beyond those refused, for any threads, headers, sizes and faults.
THEOREM HeaderLossTheorem == Spec => []AtMostOneHeaderLost
<1>1. Init => PlaceInv /\ PortInv /\ LostInv
  <2> SUFFICES ASSUME Init PROVE PlaceInv /\ PortInv /\ LostInv
    OBVIOUS
  <2>1. PlaceInv
    BY StillBuffers DEF Init, PlaceInv, NoMessage, Message
  <2>2. PortInv
    BY DEF Init, PortInv, Enabled, Disabling
  <2>3. Cardinality(Afoot) \in Nat /\ pooled = 0 /\ faults = 0
    BY AfootSize DEF Init
  <2>4. LostInv
    BY <2>3 DEF LostInv
  <2> QED
    BY <2>1, <2>2, <2>4
<1>2. TypeOK /\ RealInv /\ PlaceInv /\ PortInv /\ LostInv /\ [Next]_vars
        => PlaceInv' /\ PortInv' /\ LostInv'
  BY PlaceStep, PortStep, LostStep
<1>3. TypeOK /\ PlaceInv /\ LostInv => AtMostOneHeaderLost
  <2> SUFFICES ASSUME TypeOK, PlaceInv, LostInv, ~is_enabled, ~InTransit
               PROVE  Cardinality(queue) + faults + 1 >= pooled
    BY DEF AtMostOneHeaderLost
  <2>1. held = {} /\ returned = <<>> /\ cb = "idle"
    BY DEF InTransit
  <2>2. cbMsg.buffer \notin Buffers /\ cbNew \notin Buffers
    BY <2>1 DEF PlaceInv
  <2>3. Afoot = queue
    BY <2>1, <2>2 DEF Afoot, TypeOK
  <2> QED
    BY <2>1, <2>3 DEF LostInv
<1> QED
  BY <1>1, <1>2, <1>3, StillTypes, PTL DEF Spec

==============================================================================
