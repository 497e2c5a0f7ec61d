------------------------ MODULE VideoCapture_proofs ------------------------
(***************************************************************************)
(* Proofs about VideoCapture, for any number of clients, headers and       *)
(* callbacks: its types, the grab handshake (no wake-up is lost, a grab    *)
(* returns only when served), the ownership of the headers and the order   *)
(* of shutdown.  IInv is the inductive invariant they all come from.       *)
(***************************************************************************)
EXTENDS VideoCapture, FiniteSetTheorems, TLAPS

USE DEF appVars, portVars, headerVars, handshakeVars, frameVars, userVars,
        cbVars, lockVars, vars

\* The callback's own view: it holds the mutex exactly from the lock to the
\* broadcast, and has stored a frame only after the copy.
Storing == {"release", "get", "send", "user", "call", "broadcast"}

CallbackInv ==
  /\ mutex <=> cb \in Storing \cup {"copy"}
  /\ hasGrabbed => cb \in Storing \cup {"return"}

\* NoLostWakeup strengthened to the clients already awake, which may sleep
\* again without asking a second time.
WakeInv ==
  \A c \in Clients :
    pc[c] \in {"waiting", "woken"} =>
      /\ pc[c] = "waiting" => ~ready
      /\ ~ready => wantToGrab \/ (hasGrabbed /\ cb \in Storing)

\* ready is true for a client only if a frame was stored since it asked.
ServedInv ==
  /\ \A c \in Clients :
       pc[c] \in {"waiting", "woken"} /\ ready => c \in stored
  /\ hasGrabbed /\ cb \in Storing => stored = Clients

\* Where the camera's resources are at each point of open, startCapture and
\* release, and who may run the callback.
Using == ClientPC \cup {"register", "start", "get", "send"}
Closing == {"disable", "drain", "transit", "destroy"}

LifeInv ==
  /\ cb # "idle" => action_mutex # "free"
  /\ action_mutex = "owner" <=> pc[Owner] = "drain"
  /\ pc[Owner] \notin ClientPC \cup {"register"} => isOpened
  /\ isOpened /\ pc[Owner] \in Using => pool /\ is_enabled
  /\ ~isOpened => ~pool /\ ~is_enabled /\ ~InTransit
  /\ pc[Owner] \in Closing => pool /\ ~is_enabled
  /\ pc[Owner] = "drain" => held = {}
  /\ pc[Owner] \in {"transit", "destroy", "close"} => ~InTransit
  /\ pc[Owner] = "close" => ~pool /\ ~is_enabled

\* Where the headers are: HeaderInOnePlace, and which locals hold one.
HeaderInv ==
  /\ HeaderInOnePlace
  /\ cbBuf # NoBuffer <=> cb \in {"lock", "copy", "release"}
  /\ cbNew # NoBuffer <=> cb = "send"
  /\ outgoing # NoBuffer => pc[Owner] = "send"

IInv == TypeOK /\ CallbackInv /\ WakeInv /\ ServedInv /\ LifeInv /\ HeaderInv

-----------------------------------------------------------------------------
\* Flags stay Boolean.
LEMMA FlagsStep ==
  FlagsTypeOK /\ [Next]_vars => FlagsTypeOK'
<1> SUFFICES ASSUME FlagsTypeOK, [Next]_vars
             PROVE  FlagsTypeOK'
  OBVIOUS
<1> USE DEF FlagsTypeOK
<1>1. ASSUME NEW c \in Clients, WaitForFrame(c) PROVE FlagsTypeOK'
  BY <1>1 DEF WaitForFrame
<1>2. ASSUME NEW startNow \in BOOLEAN, Open(startNow) PROVE FlagsTypeOK'
  BY <1>2 DEF Open
<1>3. ASSUME Release PROVE FlagsTypeOK'
  BY <1>3 DEF Release, ClearEnabled
<1>4. ASSUME StartParameter PROVE FlagsTypeOK'
  BY <1>4 DEF StartParameter
<1>5. ASSUME StartFails PROVE FlagsTypeOK'
  BY <1>5 DEF StartFails, ClearEnabled
<1>6. ASSUME StartDone PROVE FlagsTypeOK'
  BY <1>6 DEF StartDone
<1>7. ASSUME DisablePort PROVE FlagsTypeOK'
  BY <1>7 DEF DisablePort
<1>8. ASSUME Destroy PROVE FlagsTypeOK'
  BY <1>8 DEF Destroy
<1>9. ASSUME Close PROVE FlagsTypeOK'
  BY <1>9 DEF Close
<1>10. ASSUME CbLock PROVE FlagsTypeOK'
  BY <1>10 DEF CbLock
<1>11. ASSUME CbCopy PROVE FlagsTypeOK'
  BY <1>11 DEF CbCopy
<1>12. ASSUME CbBroadCast PROVE FlagsTypeOK'
  BY <1>12 DEF CbBroadCast
<1>13. ASSUME CbReturn PROVE FlagsTypeOK'
  BY <1>13 DEF CbReturn
<1>14. ASSUME NEW b \in Buffers, Deliver(b) PROVE FlagsTypeOK'
  <2>1. (b \in filled) \in BOOLEAN
    OBVIOUS
  <2>2. cbLength' \in BOOLEAN
    BY ONLY <1>14, <2>1, Zenon DEF Deliver
  <2> QED
    BY <1>14, <2>2 DEF Deliver
<1>15. ASSUME NEW c \in Clients,
              \/ Grab(c) \/ SpuriousWakeup(c) \/ Recheck(c) \/ Retrieve(c)
              \/ RetrieveDone(c)
      PROVE  FlagsTypeOK'
  BY <1>15 DEF Grab, SpuriousWakeup, Recheck, Retrieve, RetrieveDone
<1>16. ASSUME \/ StartCapture
              \/ \E f \in Callbacks \cup {NoCallback} : SetUserCallbackData(f)
      PROVE  FlagsTypeOK'
  BY <1>16 DEF StartCapture, SetUserCallbackData
<1>17. ASSUME \/ StartGet \/ StartSend \/ DrainDone \/ TransitWait
              \/ SetUserCallback
      PROVE  FlagsTypeOK'
  BY <1>17 DEF StartGet, Get, StartSend, SendBuffer, DrainDone, TransitWait,
      SetUserCallback
<1>18. ASSUME \/ CbRelease \/ CbGet \/ CbSend \/ CbUser \/ CbCall
      PROVE  FlagsTypeOK'
  BY <1>18 DEF CbRelease, CbGet, Get, CbSend, SendBuffer, CbUser, CbCall
<1>19. ASSUME \/ \E b \in Buffers, full \in BOOLEAN : Fill(b, full)
              \/ ActionLock \/ ActionUnlock
      PROVE  FlagsTypeOK'
  BY <1>19 DEF Fill, ActionLock, ActionUnlock
<1>20. CASE UNCHANGED vars
  BY <1>20
<1> QED
  BY <1>1, <1>2, <1>3, <1>4, <1>5, <1>6, <1>7, <1>8, <1>9, <1>10, <1>11,
      <1>12, <1>13, <1>14, <1>15, <1>16, <1>17, <1>18, <1>19, <1>20 DEF Next,
      Client, OwnerCalls, OwnerSteps, Callback, Mmal

\* The other variables keep their types; the callback sends and releases
\* only real headers.
LEMMA DataStep ==
  DataTypeOK /\ HeaderInv /\ [Next]_vars => DataTypeOK'
<1> SUFFICES ASSUME DataTypeOK, HeaderInv, [Next]_vars
             PROVE  DataTypeOK'
  OBVIOUS
<1> USE ClientsAssumption, BuffersAssumption DEF DataTypeOK, HeaderInv,
      ClientPC, OwnerPC, CallbackPC, At, Goto
<1>1. ASSUME NEW c \in Clients, Grab(c) PROVE DataTypeOK'
  BY <1>1 DEF Grab
<1>2. ASSUME NEW c \in Clients, WaitForFrame(c) PROVE DataTypeOK'
  BY <1>2 DEF WaitForFrame
<1>3. ASSUME NEW c \in Clients, SpuriousWakeup(c) PROVE DataTypeOK'
  BY <1>3 DEF SpuriousWakeup
<1>4. ASSUME NEW c \in Clients, Recheck(c) PROVE DataTypeOK'
  BY <1>4 DEF Recheck
<1>5. ASSUME NEW c \in Clients, Retrieve(c) PROVE DataTypeOK'
  BY <1>5 DEF Retrieve
<1>6. ASSUME NEW c \in Clients, RetrieveDone(c) PROVE DataTypeOK'
  BY <1>6 DEF RetrieveDone
<1>7. ASSUME NEW startNow \in BOOLEAN, Open(startNow) PROVE DataTypeOK'
  BY <1>7 DEF Open
<1>8. ASSUME StartCapture PROVE DataTypeOK'
  BY <1>8 DEF StartCapture
<1>9. ASSUME Release PROVE DataTypeOK'
  BY <1>9 DEF Release, ClearEnabled
<1>10. ASSUME NEW f \in Callbacks \cup {NoCallback}, SetUserCallbackData(f)
      PROVE  DataTypeOK'
  BY <1>10 DEF SetUserCallbackData
<1>11. ASSUME StartParameter PROVE DataTypeOK'
  <2>1. Cardinality(queue) \in Nat
    BY FS_Subset, FS_CardinalityType
  <2> QED
    BY <1>11, <2>1 DEF StartParameter
<1>12. ASSUME StartFails PROVE DataTypeOK'
  BY <1>12 DEF StartFails, ClearEnabled
<1>13. ASSUME StartGet PROVE DataTypeOK'
  BY <1>13 DEF StartGet, Get
<1>14. ASSUME StartSend PROVE DataTypeOK'
  BY <1>14 DEF StartSend, SendBuffer
<1>15. ASSUME StartDone PROVE DataTypeOK'
  BY <1>15 DEF StartDone
<1>16. ASSUME DisablePort PROVE DataTypeOK'
  BY <1>16 DEF DisablePort
<1>17. ASSUME DrainDone PROVE DataTypeOK'
  BY <1>17 DEF DrainDone
<1>18. ASSUME TransitWait PROVE DataTypeOK'
  BY <1>18 DEF TransitWait
<1>19. ASSUME Destroy PROVE DataTypeOK'
  BY <1>19 DEF Destroy
<1>20. ASSUME Close PROVE DataTypeOK'
  BY <1>20 DEF Close
<1>21. ASSUME SetUserCallback PROVE DataTypeOK'
  BY <1>21 DEF SetUserCallback
<1>22. ASSUME CbLock PROVE DataTypeOK'
  BY <1>22 DEF CbLock
<1>23. ASSUME CbCopy PROVE DataTypeOK'
  BY <1>23 DEF CbCopy
<1>24. ASSUME CbRelease PROVE DataTypeOK'
  BY <1>24 DEF CbRelease
<1>25. ASSUME CbGet PROVE DataTypeOK'
  BY <1>25 DEF CbGet, Get
<1>26. ASSUME CbSend PROVE DataTypeOK'
  BY <1>26 DEF CbSend, SendBuffer
<1>27. ASSUME CbUser PROVE DataTypeOK'
  BY <1>27 DEF CbUser
<1>28. ASSUME CbCall PROVE DataTypeOK'
  BY <1>28 DEF CbCall
<1>29. ASSUME CbBroadCast PROVE DataTypeOK'
  BY <1>29 DEF CbBroadCast
<1>30. ASSUME CbReturn PROVE DataTypeOK'
  BY <1>30 DEF CbReturn
<1>31. ASSUME NEW b \in Buffers, NEW full \in BOOLEAN, Fill(b, full)
      PROVE  DataTypeOK'
  BY <1>31 DEF Fill
<1>32. ASSUME ActionLock PROVE DataTypeOK'
  BY <1>32 DEF ActionLock
<1>33. ASSUME ActionUnlock PROVE DataTypeOK'
  BY <1>33 DEF ActionUnlock
<1>34. ASSUME NEW b \in Buffers, Deliver(b) PROVE DataTypeOK'
  BY <1>34 DEF Deliver
<1>35. CASE UNCHANGED vars
  BY <1>35
<1> QED
  BY <1>1, <1>2, <1>3, <1>4, <1>5, <1>6, <1>7, <1>8, <1>9, <1>10, <1>11,
      <1>12, <1>13, <1>14, <1>15, <1>16, <1>17, <1>18, <1>19, <1>20, <1>21,
      <1>22, <1>23, <1>24, <1>25, <1>26, <1>27, <1>28, <1>29, <1>30, <1>31,
      <1>32, <1>33, <1>34, <1>35 DEF Next, Client, OwnerCalls, OwnerSteps,
      Callback, Mmal

\* The callback keeps the mutex from its lock to its broadcast.
LEMMA CallbackStep ==
  TypeOK /\ CallbackInv /\ [Next]_vars => CallbackInv'
<1> SUFFICES ASSUME TypeOK, CallbackInv, [Next]_vars
             PROVE  CallbackInv'
  OBVIOUS
<1> USE DEF TypeOK, FlagsTypeOK, DataTypeOK, CallbackInv, Storing, CallbackPC
<1>1. ASSUME CbLock PROVE CallbackInv'
  BY <1>1 DEF CbLock
<1>2. ASSUME CbCopy PROVE CallbackInv'
  BY <1>2 DEF CbCopy
<1>3. ASSUME CbRelease PROVE CallbackInv'
  BY <1>3 DEF CbRelease
<1>4. ASSUME CbGet PROVE CallbackInv'
  BY <1>4 DEF CbGet, Get
<1>5. ASSUME CbSend PROVE CallbackInv'
  BY <1>5 DEF CbSend, SendBuffer
<1>6. ASSUME CbUser PROVE CallbackInv'
  BY <1>6 DEF CbUser
<1>7. ASSUME CbCall PROVE CallbackInv'
  BY <1>7 DEF CbCall
<1>8. ASSUME CbBroadCast PROVE CallbackInv'
  BY <1>8 DEF CbBroadCast
<1>9. ASSUME CbReturn PROVE CallbackInv'
  BY <1>9 DEF CbReturn
<1>10. ASSUME NEW b \in Buffers, Deliver(b) PROVE CallbackInv'
  BY <1>10 DEF Deliver
<1>11. ASSUME NEW c \in Clients,
              \/ Grab(c) \/ WaitForFrame(c) \/ SpuriousWakeup(c) \/ Recheck(c)
              \/ Retrieve(c) \/ RetrieveDone(c)
      PROVE  CallbackInv'
  BY <1>11 DEF Grab, WaitForFrame, SpuriousWakeup, Recheck, Retrieve,
      RetrieveDone
<1>12. ASSUME \/ \E startNow \in BOOLEAN : Open(startNow) \/ StartCapture
              \/ Release
              \/ \E f \in Callbacks \cup {NoCallback} : SetUserCallbackData(f)
      PROVE  CallbackInv'
  BY <1>12 DEF Open, StartCapture, Release, ClearEnabled, SetUserCallbackData
<1>13. ASSUME \/ StartParameter \/ StartFails \/ StartGet \/ StartSend
              \/ StartDone \/ DisablePort \/ DrainDone \/ TransitWait
              \/ Destroy \/ Close \/ SetUserCallback
      PROVE  CallbackInv'
  BY <1>13 DEF StartParameter, StartFails, ClearEnabled, StartGet, Get,
      StartSend, SendBuffer, StartDone, DisablePort, DrainDone, TransitWait,
      Destroy, Close, SetUserCallback
<1>14. ASSUME \/ \E b \in Buffers, full \in BOOLEAN : Fill(b, full)
              \/ ActionLock \/ ActionUnlock
      PROVE  CallbackInv'
  BY <1>14 DEF Fill, ActionLock, ActionUnlock
<1>15. CASE UNCHANGED vars
  BY <1>15
<1> QED
  BY <1>1, <1>2, <1>3, <1>4, <1>5, <1>6, <1>7, <1>8, <1>9, <1>10, <1>11,
      <1>12, <1>13, <1>14, <1>15 DEF Next, Client, OwnerCalls, OwnerSteps,
      Callback, Mmal

\* No step loses a request: asking, storing and broadcasting are atomic with
\* respect to each other because all three happen under the mutex.
LEMMA WakeStep ==
  TypeOK /\ CallbackInv /\ WakeInv /\ [Next]_vars => WakeInv'
<1> SUFFICES ASSUME TypeOK, CallbackInv, WakeInv, [Next]_vars
             PROVE  WakeInv'
  OBVIOUS
<1> USE ClientsAssumption DEF TypeOK, FlagsTypeOK, DataTypeOK, CallbackInv,
      WakeInv, Storing, CallbackPC, ClientPC, OwnerPC, At, Goto
<1>1. ASSUME NEW c \in Clients, Grab(c) PROVE WakeInv'
  BY <1>1 DEF Grab
<1>2. ASSUME NEW c \in Clients, WaitForFrame(c) PROVE WakeInv'
  BY <1>2 DEF WaitForFrame
<1>3. ASSUME NEW c \in Clients, SpuriousWakeup(c) PROVE WakeInv'
  BY <1>3 DEF SpuriousWakeup
<1>4. ASSUME NEW c \in Clients, Recheck(c) PROVE WakeInv'
  BY <1>4 DEF Recheck
<1>5. ASSUME NEW c \in Clients, Retrieve(c) PROVE WakeInv'
  BY <1>5 DEF Retrieve
<1>6. ASSUME NEW c \in Clients, RetrieveDone(c) PROVE WakeInv'
  BY <1>6 DEF RetrieveDone
<1>7. ASSUME CbLock PROVE WakeInv'
  BY <1>7 DEF CbLock
<1>8. ASSUME CbCopy PROVE WakeInv'
  BY <1>8 DEF CbCopy
<1>9. ASSUME CbBroadCast PROVE WakeInv'
  BY <1>9 DEF CbBroadCast
<1>10. ASSUME CbReturn PROVE WakeInv'
  BY <1>10 DEF CbReturn
<1>11. ASSUME NEW b \in Buffers, Deliver(b) PROVE WakeInv'
  BY <1>11 DEF Deliver
<1>12. ASSUME \/ \E startNow \in BOOLEAN : Open(startNow) \/ StartCapture
              \/ Release
              \/ \E f \in Callbacks \cup {NoCallback} : SetUserCallbackData(f)
      PROVE  WakeInv'
  BY <1>12 DEF Open, StartCapture, Release, ClearEnabled, SetUserCallbackData
<1>13. ASSUME \/ StartParameter \/ StartFails \/ StartGet \/ StartSend
              \/ StartDone \/ DisablePort \/ DrainDone \/ TransitWait
              \/ Destroy \/ Close \/ SetUserCallback
      PROVE  WakeInv'
  BY <1>13 DEF StartParameter, StartFails, ClearEnabled, StartGet, Get,
      StartSend, SendBuffer, StartDone, DisablePort, DrainDone, TransitWait,
      Destroy, Close, SetUserCallback
<1>14. ASSUME \/ CbRelease \/ CbGet \/ CbSend \/ CbUser \/ CbCall
      PROVE  WakeInv'
  BY <1>14 DEF CbRelease, CbGet, Get, CbSend, SendBuffer, CbUser, CbCall
<1>15. ASSUME \/ \E b \in Buffers, full \in BOOLEAN : Fill(b, full)
              \/ ActionLock \/ ActionUnlock
      PROVE  WakeInv'
  BY <1>15 DEF Fill, ActionLock, ActionUnlock
<1>16. CASE UNCHANGED vars
  BY <1>16
<1> QED
  BY <1>1, <1>2, <1>3, <1>4, <1>5, <1>6, <1>7, <1>8, <1>9, <1>10, <1>11,
      <1>12, <1>13, <1>14, <1>15, <1>16 DEF Next, Client, OwnerCalls,
      OwnerSteps, Callback, Mmal

\* ready is never left over from a frame stored before the request.
LEMMA ServedStep ==
  TypeOK /\ CallbackInv /\ WakeInv /\ ServedInv /\ [Next]_vars => ServedInv'
<1> SUFFICES ASSUME TypeOK, CallbackInv, WakeInv, ServedInv, [Next]_vars
             PROVE  ServedInv'
  OBVIOUS
<1> USE ClientsAssumption DEF TypeOK, FlagsTypeOK, DataTypeOK, CallbackInv,
      WakeInv, ServedInv, Storing, CallbackPC, ClientPC, OwnerPC, At, Goto
<1>1. ASSUME NEW c \in Clients, Grab(c) PROVE ServedInv'
  BY <1>1 DEF Grab
<1>2. ASSUME NEW c \in Clients, WaitForFrame(c) PROVE ServedInv'
  BY <1>2 DEF WaitForFrame
<1>3. ASSUME NEW c \in Clients, SpuriousWakeup(c) PROVE ServedInv'
  BY <1>3 DEF SpuriousWakeup
<1>4. ASSUME NEW c \in Clients, Recheck(c) PROVE ServedInv'
  BY <1>4 DEF Recheck
<1>5. ASSUME NEW c \in Clients, Retrieve(c) PROVE ServedInv'
  BY <1>5 DEF Retrieve
<1>6. ASSUME NEW c \in Clients, RetrieveDone(c) PROVE ServedInv'
  BY <1>6 DEF RetrieveDone
<1>7. ASSUME CbLock PROVE ServedInv'
  BY <1>7 DEF CbLock
<1>8. ASSUME CbCopy PROVE ServedInv'
  BY <1>8 DEF CbCopy
<1>9. ASSUME CbBroadCast PROVE ServedInv'
  BY <1>9 DEF CbBroadCast
<1>10. ASSUME CbReturn PROVE ServedInv'
  BY <1>10 DEF CbReturn
<1>11. ASSUME NEW b \in Buffers, Deliver(b) PROVE ServedInv'
  BY <1>11 DEF Deliver
<1>12. ASSUME \/ \E startNow \in BOOLEAN : Open(startNow) \/ StartCapture
              \/ Release
              \/ \E f \in Callbacks \cup {NoCallback} : SetUserCallbackData(f)
      PROVE  ServedInv'
  BY <1>12 DEF Open, StartCapture, Release, ClearEnabled, SetUserCallbackData
<1>13. ASSUME \/ StartParameter \/ StartFails \/ StartGet \/ StartSend
              \/ StartDone \/ DisablePort \/ DrainDone \/ TransitWait
              \/ Destroy \/ Close \/ SetUserCallback
      PROVE  ServedInv'
  BY <1>13 DEF StartParameter, StartFails, ClearEnabled, StartGet, Get,
      StartSend, SendBuffer, StartDone, DisablePort, DrainDone, TransitWait,
      Destroy, Close, SetUserCallback
<1>14. ASSUME \/ CbRelease \/ CbGet \/ CbSend \/ CbUser \/ CbCall
      PROVE  ServedInv'
  BY <1>14 DEF CbRelease, CbGet, Get, CbSend, SendBuffer, CbUser, CbCall
<1>15. ASSUME \/ \E b \in Buffers, full \in BOOLEAN : Fill(b, full)
              \/ ActionLock \/ ActionUnlock
      PROVE  ServedInv'
  BY <1>15 DEF Fill, ActionLock, ActionUnlock
<1>16. CASE UNCHANGED vars
  BY <1>16
<1> QED
  BY <1>1, <1>2, <1>3, <1>4, <1>5, <1>6, <1>7, <1>8, <1>9, <1>10, <1>11,
      <1>12, <1>13, <1>14, <1>15, <1>16 DEF Next, Client, OwnerCalls,
      OwnerSteps, Callback, Mmal

\* release takes the camera apart only when nothing can still use it.
LEMMA LifeStep ==
  TypeOK /\ LifeInv /\ [Next]_vars => LifeInv'
<1> SUFFICES ASSUME TypeOK, LifeInv, [Next]_vars
             PROVE  LifeInv'
  OBVIOUS
<1> USE ClientsAssumption DEF TypeOK, FlagsTypeOK, DataTypeOK, LifeInv,
      InTransit, Using, Closing, CallbackPC, ClientPC, OwnerPC, At, Goto
<1>1. ASSUME NEW c \in Clients, Grab(c) PROVE LifeInv'
  BY <1>1 DEF Grab
<1>2. ASSUME NEW c \in Clients, WaitForFrame(c) PROVE LifeInv'
  BY <1>2 DEF WaitForFrame
<1>3. ASSUME NEW c \in Clients, SpuriousWakeup(c) PROVE LifeInv'
  BY <1>3 DEF SpuriousWakeup
<1>4. ASSUME NEW c \in Clients, Recheck(c) PROVE LifeInv'
  BY <1>4 DEF Recheck
<1>5. ASSUME NEW c \in Clients, Retrieve(c) PROVE LifeInv'
  BY <1>5 DEF Retrieve
<1>6. ASSUME NEW c \in Clients, RetrieveDone(c) PROVE LifeInv'
  BY <1>6 DEF RetrieveDone
<1>7. ASSUME NEW startNow \in BOOLEAN, Open(startNow) PROVE LifeInv'
  BY <1>7 DEF Open
<1>8. ASSUME StartCapture PROVE LifeInv'
  BY <1>8 DEF StartCapture
<1>9. ASSUME Release PROVE LifeInv'
  BY <1>9 DEF Release, ClearEnabled
<1>10. ASSUME NEW f \in Callbacks \cup {NoCallback}, SetUserCallbackData(f)
      PROVE  LifeInv'
  BY <1>10 DEF SetUserCallbackData
<1>11. ASSUME StartParameter PROVE LifeInv'
  BY <1>11 DEF StartParameter
<1>12. ASSUME StartFails PROVE LifeInv'
  BY <1>12 DEF StartFails, ClearEnabled
<1>13. ASSUME StartGet PROVE LifeInv'
  BY <1>13 DEF StartGet, Get
<1>14. ASSUME StartSend PROVE LifeInv'
  BY <1>14 DEF StartSend, SendBuffer
<1>15. ASSUME StartDone PROVE LifeInv'
  BY <1>15 DEF StartDone
<1>16. ASSUME DisablePort PROVE LifeInv'
  BY <1>16 DEF DisablePort
<1>17. ASSUME DrainDone PROVE LifeInv'
  BY <1>17 DEF DrainDone
<1>18. ASSUME TransitWait PROVE LifeInv'
  BY <1>18 DEF TransitWait
<1>19. ASSUME Destroy PROVE LifeInv'
  BY <1>19 DEF Destroy
<1>20. ASSUME Close PROVE LifeInv'
  BY <1>20 DEF Close
<1>21. ASSUME SetUserCallback PROVE LifeInv'
  BY <1>21 DEF SetUserCallback
<1>22. ASSUME CbLock PROVE LifeInv'
  BY <1>22 DEF CbLock
<1>23. ASSUME CbCopy PROVE LifeInv'
  BY <1>23 DEF CbCopy
<1>24. ASSUME CbRelease PROVE LifeInv'
  BY <1>24 DEF CbRelease
<1>25. ASSUME CbGet PROVE LifeInv'
  BY <1>25 DEF CbGet, Get
<1>26. ASSUME CbSend PROVE LifeInv'
  BY <1>26 DEF CbSend, SendBuffer
<1>27. ASSUME CbUser PROVE LifeInv'
  BY <1>27 DEF CbUser
<1>28. ASSUME CbCall PROVE LifeInv'
  BY <1>28 DEF CbCall
<1>29. ASSUME CbBroadCast PROVE LifeInv'
  BY <1>29 DEF CbBroadCast
<1>30. ASSUME CbReturn PROVE LifeInv'
  BY <1>30 DEF CbReturn
<1>31. ASSUME NEW b \in Buffers, NEW full \in BOOLEAN, Fill(b, full)
      PROVE  LifeInv'
  BY <1>31 DEF Fill
<1>32. ASSUME ActionLock PROVE LifeInv'
  BY <1>32 DEF ActionLock
<1>33. ASSUME ActionUnlock PROVE LifeInv'
  BY <1>33 DEF ActionUnlock
<1>34. ASSUME NEW b \in Buffers, Deliver(b) PROVE LifeInv'
  BY <1>34 DEF Deliver
<1>35. CASE UNCHANGED vars
  BY <1>35
<1> QED
  BY <1>1, <1>2, <1>3, <1>4, <1>5, <1>6, <1>7, <1>8, <1>9, <1>10, <1>11,
      <1>12, <1>13, <1>14, <1>15, <1>16, <1>17, <1>18, <1>19, <1>20, <1>21,
      <1>22, <1>23, <1>24, <1>25, <1>26, <1>27, <1>28, <1>29, <1>30, <1>31,
      <1>32, <1>33, <1>34, <1>35 DEF Next, Client, OwnerCalls, OwnerSteps,
      Callback, Mmal

\* A header moves from one place to exactly one other.
LEMMA HeaderStep ==
  TypeOK /\ LifeInv /\ HeaderInv /\ [Next]_vars => HeaderInv'
<1> SUFFICES ASSUME TypeOK, LifeInv, HeaderInv, [Next]_vars
             PROVE  HeaderInv'
  OBVIOUS
<1> USE ClientsAssumption, BuffersAssumption DEF TypeOK, FlagsTypeOK,
      DataTypeOK, LifeInv, InTransit, HeaderInv, HeaderInOnePlace, CallbackPC,
      ClientPC, OwnerPC, At, Goto
<1>1. ASSUME NEW c \in Clients, Grab(c) PROVE HeaderInv'
  BY <1>1 DEF Grab
<1>2. ASSUME NEW c \in Clients, WaitForFrame(c) PROVE HeaderInv'
  BY <1>2 DEF WaitForFrame
<1>3. ASSUME NEW c \in Clients, SpuriousWakeup(c) PROVE HeaderInv'
  BY <1>3 DEF SpuriousWakeup
<1>4. ASSUME NEW c \in Clients, Recheck(c) PROVE HeaderInv'
  BY <1>4 DEF Recheck
<1>5. ASSUME NEW c \in Clients, Retrieve(c) PROVE HeaderInv'
  BY <1>5 DEF Retrieve
<1>6. ASSUME NEW c \in Clients, RetrieveDone(c) PROVE HeaderInv'
  BY <1>6 DEF RetrieveDone
<1>7. ASSUME NEW startNow \in BOOLEAN, Open(startNow) PROVE HeaderInv'
  BY <1>7 DEF Open
<1>8. ASSUME StartCapture PROVE HeaderInv'
  BY <1>8 DEF StartCapture
<1>9. ASSUME Release PROVE HeaderInv'
  BY <1>9 DEF Release, ClearEnabled
<1>10. ASSUME NEW f \in Callbacks \cup {NoCallback}, SetUserCallbackData(f)
      PROVE  HeaderInv'
  BY <1>10 DEF SetUserCallbackData
<1>11. ASSUME StartParameter PROVE HeaderInv'
  BY <1>11 DEF StartParameter
<1>12. ASSUME StartFails PROVE HeaderInv'
  BY <1>12 DEF StartFails, ClearEnabled
<1>13. ASSUME StartGet PROVE HeaderInv'
  BY <1>13 DEF StartGet, Get
<1>14. ASSUME StartSend PROVE HeaderInv'
  BY <1>14 DEF StartSend, SendBuffer
<1>15. ASSUME StartDone PROVE HeaderInv'
  BY <1>15 DEF StartDone
<1>16. ASSUME DisablePort PROVE HeaderInv'
  BY <1>16 DEF DisablePort
<1>17. ASSUME DrainDone PROVE HeaderInv'
  BY <1>17 DEF DrainDone
<1>18. ASSUME TransitWait PROVE HeaderInv'
  BY <1>18 DEF TransitWait
<1>19. ASSUME Destroy PROVE HeaderInv'
  BY <1>19 DEF Destroy
<1>20. ASSUME Close PROVE HeaderInv'
  BY <1>20 DEF Close
<1>21. ASSUME SetUserCallback PROVE HeaderInv'
  BY <1>21 DEF SetUserCallback
<1>22. ASSUME CbLock PROVE HeaderInv'
  BY <1>22 DEF CbLock
<1>23. ASSUME CbCopy PROVE HeaderInv'
  BY <1>23 DEF CbCopy
<1>24. ASSUME CbRelease PROVE HeaderInv'
  BY <1>24 DEF CbRelease
<1>25. ASSUME CbGet PROVE HeaderInv'
  BY <1>25 DEF CbGet, Get
<1>26. ASSUME CbSend PROVE HeaderInv'
  BY <1>26 DEF CbSend, SendBuffer
<1>27. ASSUME CbUser PROVE HeaderInv'
  BY <1>27 DEF CbUser
<1>28. ASSUME CbCall PROVE HeaderInv'
  BY <1>28 DEF CbCall
<1>29. ASSUME CbBroadCast PROVE HeaderInv'
  BY <1>29 DEF CbBroadCast
<1>30. ASSUME CbReturn PROVE HeaderInv'
  BY <1>30 DEF CbReturn
<1>31. ASSUME NEW b \in Buffers, NEW full \in BOOLEAN, Fill(b, full)
      PROVE  HeaderInv'
  BY <1>31 DEF Fill
<1>32. ASSUME ActionLock PROVE HeaderInv'
  BY <1>32 DEF ActionLock
<1>33. ASSUME ActionUnlock PROVE HeaderInv'
  BY <1>33 DEF ActionUnlock
<1>34. ASSUME NEW b \in Buffers, Deliver(b) PROVE HeaderInv'
  BY <1>34 DEF Deliver
<1>35. CASE UNCHANGED vars
  BY <1>35
<1> QED
  BY <1>1, <1>2, <1>3, <1>4, <1>5, <1>6, <1>7, <1>8, <1>9, <1>10, <1>11,
      <1>12, <1>13, <1>14, <1>15, <1>16, <1>17, <1>18, <1>19, <1>20, <1>21,
      <1>22, <1>23, <1>24, <1>25, <1>26, <1>27, <1>28, <1>29, <1>30, <1>31,
      <1>32, <1>33, <1>34, <1>35 DEF Next, Client, OwnerCalls, OwnerSteps,
      Callback, Mmal

-----------------------------------------------------------------------------
\* The initial state satisfies the inductive invariant.
LEMMA InitIInv == Init => IInv
<1> SUFFICES ASSUME Init PROVE IInv
  OBVIOUS
<1> USE ClientsAssumption, BuffersAssumption DEF Init
<1>1. FlagsTypeOK
  BY DEF FlagsTypeOK
<1>2. DataTypeOK
  BY DEF DataTypeOK, ClientPC, OwnerPC, CallbackPC
<1>3. CallbackInv /\ WakeInv /\ ServedInv
  BY DEF CallbackInv, WakeInv, ServedInv, Storing
<1>4. LifeInv
  BY DEF LifeInv, Using, Closing, InTransit, ClientPC
<1>5. HeaderInv
  BY DEF HeaderInv, HeaderInOnePlace
<1> QED
  BY <1>1, <1>2, <1>3, <1>4, <1>5 DEF IInv, TypeOK

\* IInv is an invariant of the frame path.
THEOREM Invariance == Spec => []IInv
<1>1. IInv /\ [Next]_vars => IInv'
  BY FlagsStep, DataStep, CallbackStep, WakeStep, ServedStep, LifeStep,
      HeaderStep
  DEF IInv, TypeOK
<1> QED
  BY InitIInv, <1>1, PTL DEF Spec

\* Every variable of the frame path keeps its type.
THEOREM TypeCorrectness == Spec => []TypeOK
<1>1. IInv => TypeOK
  BY DEF IInv
<1> QED
  BY Invariance, <1>1, PTL

\* No client sleeps in grab without its request posted or being served,
\* for any number of grabbing threads.
THEOREM NoLostWakeupTheorem == Spec => []NoLostWakeup
<1>1. IInv => NoLostWakeup
  BY DEF IInv, WakeInv, NoLostWakeup, Storing, At
<1> QED
  BY Invariance, <1>1, PTL

\* No header is ever in two places.
THEOREM HeaderTheorem == Spec => []HeaderInOnePlace
<1>1. IInv => HeaderInOnePlace
  BY DEF IInv, HeaderInv
<1> QED
  BY Invariance, <1>1, PTL

\* release never destroys a pool that a callback, a header in flight or
\* startCapture still uses.
THEOREM ShutdownTheorem == Spec => []NoUseAfterFree
<1>1. IInv => NoUseAfterFree
  BY ClientsAssumption DEF IInv, LifeInv, NoUseAfterFree, InTransit, Using,
      Closing, ClientPC, OwnerPC, TypeOK, DataTypeOK
<1> QED
  BY Invariance, <1>1, PTL

-----------------------------------------------------------------------------
\* Refinement of GrabSpec.  A step that leaves every client's place in the
\* handshake and the stored frames alone is a stutter of the abstract system.
LEMMA SamePhases ==
  ASSUME stored' = stored,
         \A c \in Clients : (pc[c] \in {"waiting", "woken"})
                              <=> (pc'[c] \in {"waiting", "woken"})
  PROVE  UNCHANGED [c \in Clients |-> Phase(c)]
  BY DEF Phase

\* Every step of the handshake is a step of GrabSpec: asking, storing a frame,
\* returning when served, or none of them.
LEMMA GrabStep == IInv /\ [Next]_vars => [G!Next]_([c \in Clients |-> Phase(c)])
<1> DEFINE phases == [c \in Clients |-> Phase(c)]
<1> SUFFICES ASSUME IInv, [Next]_vars PROVE G!Next \/ UNCHANGED phases
  OBVIOUS
<1> USE ClientsAssumption DEF IInv, TypeOK, FlagsTypeOK, DataTypeOK, ClientPC,
      OwnerPC, At, Goto
<1>1. ASSUME NEW c \in Clients, WaitForFrame(c) PROVE G!Next
  <2>1. phases[c] = "out"
    BY <1>1 DEF WaitForFrame, Phase
  <2>2. phases' = [phases EXCEPT ![c] = "in"]
    BY <1>1 DEF WaitForFrame, Phase
  <2> QED
    BY <2>1, <2>2 DEF G!Next, G!Ask
<1>2. ASSUME NEW c \in Clients, Recheck(c) PROVE G!Next \/ UNCHANGED phases
  <2>1. CASE ~ready
    BY <1>2, <2>1, SamePhases DEF Recheck
  <2>2. CASE ready
    <3>1. c \in stored
      BY <1>2, <2>2 DEF Recheck, ServedInv
    <3>2. phases[c] = "served"
      BY <1>2, <3>1 DEF Recheck, Phase
    <3>3. phases' = [phases EXCEPT ![c] = "out"]
      BY <1>2, <2>2 DEF Recheck, Phase
    <3> QED
      BY <3>2, <3>3 DEF G!Next, G!Return
  <2> QED
    BY <2>1, <2>2
<1>3. ASSUME NEW c \in Clients,
             \/ Grab(c) \/ SpuriousWakeup(c) \/ Retrieve(c) \/ RetrieveDone(c)
      PROVE  UNCHANGED phases
  BY <1>3, SamePhases DEF Grab, SpuriousWakeup, Retrieve, RetrieveDone
<1>4. CASE CbCopy
  <2>1. phases' = [c \in Clients |-> IF phases[c] = "in" THEN "served"
                                     ELSE phases[c]]
    BY <1>4 DEF CbCopy, Phase
  <2> QED
    BY <2>1 DEF G!Next, G!Store
<1>5. ASSUME \/ CbLock \/ CbRelease \/ CbGet \/ CbSend \/ CbUser \/ CbCall
             \/ CbBroadCast \/ CbReturn \/ Mmal
      PROVE  UNCHANGED phases
  BY <1>5, SamePhases DEF CbLock, CbRelease, CbGet, CbSend, CbUser, CbCall,
      CbBroadCast, CbReturn, Mmal, Fill, ActionLock, ActionUnlock, Deliver
<1>6. ASSUME OwnerCalls \/ OwnerSteps PROVE UNCHANGED phases
  <2>1. stored' = stored
    BY <1>6 DEF OwnerCalls, OwnerSteps, Open, StartCapture, Release,
      SetUserCallbackData, StartParameter, StartFails, ClearEnabled, StartGet,
      StartSend, StartDone, DisablePort, DrainDone, TransitWait, Destroy,
      Close, SetUserCallback
  <2>2. \E place \in (ClientPC \cup OwnerPC) \ {"waiting", "woken"} :
          pc' = [pc EXCEPT ![Owner] = place]
    BY <1>6 DEF OwnerCalls, OwnerSteps, Open, StartCapture, Release,
      SetUserCallbackData, StartParameter, StartFails, ClearEnabled, StartGet,
      StartSend, StartDone, DisablePort, DrainDone, TransitWait, Destroy,
      Close, SetUserCallback
  <2>3. pc[Owner] \notin {"waiting", "woken"}
    BY <1>6 DEF OwnerCalls, OwnerSteps, Open, StartCapture, Release,
      SetUserCallbackData, StartParameter, StartFails, ClearEnabled, StartGet,
      StartSend, StartDone, DisablePort, DrainDone, TransitWait, Destroy,
      Close, SetUserCallback
  <2> QED
    BY <2>1, <2>2, <2>3, SamePhases
<1>7. CASE UNCHANGED vars
  BY <1>7, SamePhases
<1> QED
  BY <1>1, <1>2, <1>3, <1>4, <1>5, <1>6, <1>7 DEF Next, Client, Callback

\* The mutex, flag and condition variable of grab implement its promise: a
\* grab returns only after a complete frame was stored since it asked.
THEOREM GrabRefinement == Spec => GrabIsServed
<1>1. Init => G!Init
  BY DEF Init, G!Init, Phase
<1> QED
  BY <1>1, Invariance, GrabStep, PTL DEF Spec, GrabIsServed, G!SafeSpec

-----------------------------------------------------------------------------
(* Properties of one use of the camera: one thread, no callback registered *)
(* while capturing, no startCapture while capturing.                       *)

\* With a single thread and no user callback a frame is only copied for the
\* grab under way, and the image is whole again when that grab returns.
RetrieveInv ==
  /\ wantToGrab \/ cb = "copy" => pc[Owner] \in {"waiting", "woken"} /\ ~ready
  /\ hasGrabbed /\ cb \in Storing => ~wantToGrab
  /\ image[Owner] = "rewritten" => pc[Owner] \in {"waiting", "woken"}

\* No step of the thread or of the callback breaks it.
LEMMA RetrieveStep ==
  ASSUME Clients = {Owner}, Callbacks = {}, IInv, RetrieveInv, [Next]_vars
  PROVE  RetrieveInv'
<1> USE DEF IInv, TypeOK, FlagsTypeOK, DataTypeOK, CallbackInv, RetrieveInv,
      Storing, At, Goto, ClientPC, OwnerPC, CallbackPC
<1>1. ASSUME NEW c \in Clients, Client(c) PROVE RetrieveInv'
  BY <1>1 DEF Client, Grab, WaitForFrame, SpuriousWakeup, Recheck, Retrieve,
      RetrieveDone
<1>2. ASSUME OwnerCalls PROVE RetrieveInv'
  BY <1>2 DEF OwnerCalls, Open, StartCapture, Release, ClearEnabled,
      SetUserCallbackData
<1>3. ASSUME OwnerSteps PROVE RetrieveInv'
  BY <1>3 DEF OwnerSteps, StartParameter, StartFails, ClearEnabled, StartGet,
      StartSend, StartDone, DisablePort, DrainDone, TransitWait, Destroy,
      Close, SetUserCallback
<1>4. CASE CbLock
  BY <1>4 DEF CbLock
<1>5. CASE CbCopy
  BY <1>5 DEF CbCopy
<1>6. CASE CbBroadCast
  BY <1>6 DEF CbBroadCast
<1>7. CASE CbRelease \/ CbGet \/ CbSend \/ CbUser \/ CbCall \/ CbReturn
  BY <1>7 DEF CbRelease, CbGet, CbSend, CbUser, CbCall, CbReturn
<1>8. CASE Mmal
  BY <1>8 DEF Mmal, Fill, ActionLock, ActionUnlock, Deliver
<1>9. CASE UNCHANGED vars
  BY <1>9
<1> QED
  BY <1>1, <1>2, <1>3, <1>4, <1>5, <1>6, <1>7, <1>8, <1>9 DEF Next, Callback

\* grab and retrieve: with one thread and no user callback, retrieve copies
\* the image the last grab returned with.
THEOREM RetrieveTheorem ==
  ASSUME Clients = {Owner}, Callbacks = {}
  PROVE  Spec => []RetrieveGrabbedImage
<1>1. Init => RetrieveInv
  BY ClientsAssumption DEF Init, RetrieveInv, Storing
<1>2. IInv /\ RetrieveInv /\ [Next]_vars => RetrieveInv'
  BY RetrieveStep
<1>3. RetrieveInv => RetrieveGrabbedImage
  BY DEF RetrieveInv, RetrieveGrabbedImage, At
<1> QED
  BY <1>1, <1>2, <1>3, Invariance, PTL DEF Spec

\* Before the first startCapture of an open camera nothing moves.
QuietInv ==
  /\ isCapturing => isOpened
  /\ ~isCapturing /\ pc[Owner] \in ClientPC \cup {"register", "start"} =>
       ~InTransit /\ (isOpened => queue = Buffers)

\* No step breaks it.
LEMMA QuietStep ==
  ASSUME IInv, QuietInv, [Next]_vars
  PROVE  QuietInv'
<1> USE ClientsAssumption DEF IInv, TypeOK, FlagsTypeOK, DataTypeOK, LifeInv,
      QuietInv, InTransit, At, Goto, ClientPC, OwnerPC, CallbackPC
<1>1. ASSUME NEW c \in Clients, Client(c) PROVE QuietInv'
  BY <1>1 DEF Client, Grab, WaitForFrame, SpuriousWakeup, Recheck, Retrieve,
      RetrieveDone
<1>2. ASSUME OwnerCalls PROVE QuietInv'
  BY <1>2 DEF OwnerCalls, Open, StartCapture, Release, ClearEnabled,
      SetUserCallbackData
<1>3. ASSUME OwnerSteps PROVE QuietInv'
  BY <1>3 DEF OwnerSteps, StartParameter, StartFails, ClearEnabled, StartGet,
      StartSend, StartDone, DisablePort, DrainDone, TransitWait, Destroy,
      Close, SetUserCallback
<1>4. CASE CbBroadCast
  BY <1>4 DEF CbBroadCast
<1>5. CASE \/ CbLock \/ CbCopy \/ CbRelease \/ CbGet \/ CbSend \/ CbUser
           \/ CbCall \/ CbReturn
  BY <1>5 DEF CbLock, CbCopy, CbRelease, CbGet, CbSend, CbUser, CbCall,
      CbReturn
<1>6. CASE Mmal
  BY <1>6 DEF Mmal, Fill, ActionLock, ActionUnlock, Deliver
<1>7. CASE UNCHANGED vars
  BY <1>7
<1> QED
  BY <1>1, <1>2, <1>3, <1>4, <1>5, <1>6, <1>7 DEF Next, Callback

\* ... so it always holds.
LEMMA QuietInvariance == Spec => [](IInv /\ QuietInv)
<1>1. Init => QuietInv
  BY DEF Init, QuietInv, InTransit
<1>2. IInv /\ QuietInv /\ [Next]_vars => QuietInv'
  BY QuietStep
<1> QED
  BY <1>1, <1>2, Invariance, PTL DEF Spec

\* The function and its argument belong together except in the middle of
\* setUserCallback, when no callback runs.
UserInv ==
  /\ IF pc[Owner] = "register"
     THEN ~isCapturing /\ newCallback = userCallbackData
     ELSE userCallback = userCallbackData
  /\ cb = "call" => cbFn = userCallback
  /\ CallbackGetsItsData

\* No step breaks it if callbacks are registered only while not capturing.
LEMMA UserStep ==
  ASSUME ~LateRegister, IInv, QuietInv, UserInv, [Next]_vars
  PROVE  UserInv'
<1> USE ClientsAssumption DEF IInv, TypeOK, FlagsTypeOK, DataTypeOK, QuietInv,
      InTransit, UserInv, CallbackGetsItsData, At, Goto, ClientPC, OwnerPC,
      CallbackPC
<1>1. ASSUME NEW c \in Clients, Client(c) PROVE UserInv'
  BY <1>1 DEF Client, Grab, WaitForFrame, SpuriousWakeup, Recheck, Retrieve,
      RetrieveDone
<1>2. ASSUME OwnerCalls PROVE UserInv'
  BY <1>2 DEF OwnerCalls, Open, StartCapture, Release, ClearEnabled,
      SetUserCallbackData
<1>3. ASSUME OwnerSteps PROVE UserInv'
  BY <1>3 DEF OwnerSteps, StartParameter, StartFails, ClearEnabled, StartGet,
      StartSend, StartDone, DisablePort, DrainDone, TransitWait, Destroy,
      Close, SetUserCallback
<1>4. CASE CbUser
  BY <1>4 DEF CbUser
<1>5. CASE CbCall
  BY <1>5 DEF CbCall
<1>6. CASE CbBroadCast
  BY <1>6 DEF CbBroadCast
<1>7. CASE CbLock \/ CbCopy \/ CbRelease \/ CbGet \/ CbSend \/ CbReturn
  BY <1>7 DEF CbLock, CbCopy, CbRelease, CbGet, CbSend, CbReturn
<1>8. CASE Mmal
  BY <1>8 DEF Mmal, Fill, ActionLock, ActionUnlock, Deliver
<1>9. CASE UNCHANGED vars
  BY <1>9
<1> QED
  BY <1>1, <1>2, <1>3, <1>4, <1>5, <1>6, <1>7, <1>8, <1>9 DEF Next, Callback

\* setUserCallback and video_buffer_callback: if callbacks are registered only
\* while the camera does not capture, each is called with its own argument.
THEOREM UserCallbackTheorem ==
  ASSUME ~LateRegister
  PROVE  Spec => []CallbackGetsItsData
<1>1. Init => UserInv
  BY ClientsAssumption DEF Init, UserInv, CallbackGetsItsData
<1>2. IInv /\ QuietInv /\ UserInv /\ [Next]_vars => UserInv'
  BY UserStep
<1>3. UserInv => CallbackGetsItsData
  BY DEF UserInv
<1> QED
  BY <1>1, <1>2, <1>3, QuietInvariance, PTL DEF Spec

-----------------------------------------------------------------------------
(* How many headers are where, while startCapture is called once.          *)

\* Headers with nobody: their sends were refused.
Lost == Buffers \ (queue \cup held \cup returned \cup {cbBuf, cbNew, outgoing})

\* The pool holds what startCapture still has to send, and between the two
\* calls of the callback the header it has just released.
CountInv ==
  /\ pc[Owner] \in {"start", "get", "send"} => ~isCapturing
  /\ is_enabled /\ (isCapturing \/ pc[Owner] \in {"get", "send"}) =>
       Cardinality(queue) =
         (IF pc[Owner] \in {"get", "send"} THEN num ELSE 0)
           + (IF cb = "get" THEN 1 ELSE 0)
  /\ NoNullHeader

\* Every refused send has cost one header, and nothing else has.
LostInv == is_enabled => Cardinality(Lost) = failures

\* What the steps on a pool do to its size.
LEMMA QueueSize ==
  ASSUME queue \subseteq Buffers
  PROVE  /\ IsFiniteSet(queue) /\ Cardinality(queue) \in Nat
         /\ Cardinality(queue) = 0 <=> queue = {}
         /\ \A b \in queue :
              Cardinality(queue \ {b}) = Cardinality(queue) - 1
         /\ \A b \in Buffers \ queue :
              Cardinality(queue \cup {b}) = Cardinality(queue) + 1
<1>1. IsFiniteSet(queue)
  BY BuffersAssumption, FS_Subset
<1> QED
  BY <1>1, FS_CardinalityType, FS_EmptySet, FS_AddElement, FS_RemoveElement

\* No step breaks the count if startCapture is not called while capturing.
LEMMA CountStep ==
  ASSUME ~Restart, IInv, QuietInv, CountInv, [Next]_vars
  PROVE  CountInv'
<1> USE ClientsAssumption, BuffersAssumption DEF IInv, TypeOK, FlagsTypeOK,
      DataTypeOK, LifeInv, HeaderInv, HeaderInOnePlace, QuietInv, InTransit,
      CountInv, NoNullHeader, Using, Closing, At, Goto, ClientPC, OwnerPC,
      CallbackPC
<1>1. ASSUME NEW c \in Clients, Client(c) PROVE CountInv'
  BY <1>1 DEF Client, Grab, WaitForFrame, SpuriousWakeup, Recheck, Retrieve,
      RetrieveDone
<1>2. ASSUME OwnerCalls PROVE CountInv'
  BY <1>2 DEF OwnerCalls, Open, StartCapture, Release, ClearEnabled,
      SetUserCallbackData
<1>3. CASE StartParameter
  BY <1>3, QueueSize DEF StartParameter
<1>4. CASE StartGet
  <2>1. queue # {}
    BY <1>4, QueueSize DEF StartGet
  <2>2. PICK b \in queue : outgoing' = b /\ queue' = queue \ {b}
    BY <1>4, <2>1 DEF StartGet, Get
  <2>3. Cardinality(queue') = Cardinality(queue) - 1
    BY <2>2, QueueSize
  <2>4. num' = num - 1 /\ pc' = [pc EXCEPT ![Owner] = "send"] /\ cb' = cb
        /\ isCapturing' = isCapturing /\ is_enabled' = is_enabled
    BY <1>4 DEF StartGet
  <2> QED
    BY <1>4, <2>2, <2>3, <2>4, QueueSize DEF StartGet
<1>5. ASSUME \/ StartFails \/ StartSend \/ StartDone \/ DisablePort
             \/ DrainDone \/ TransitWait \/ Destroy \/ Close
             \/ SetUserCallback
      PROVE  CountInv'
  BY <1>5, QueueSize DEF StartFails, ClearEnabled, StartSend, StartDone,
      DisablePort, DrainDone, TransitWait, Destroy, Close, SetUserCallback
<1>6. CASE CbRelease
  <2>1. cbBuf \in Buffers \ queue /\ queue' = queue \cup {cbBuf}
    BY <1>6 DEF CbRelease
  <2>2. Cardinality(queue') = Cardinality(queue) + 1
    BY <2>1, QueueSize
  <2> QED
    BY <1>6, <2>2, QueueSize DEF CbRelease
<1>7. CASE CbGet
  <2>1. CASE ~is_enabled
    BY <1>7, <2>1 DEF CbGet
  <2>2. CASE is_enabled /\ queue = {}
    BY <1>7, <2>2, QueueSize DEF CbGet, Get
  <2>3. CASE is_enabled /\ queue # {}
    <3>1. PICK b \in queue : queue' = queue \ {b}
                             /\ cb' = IF b = NoBuffer THEN "user" ELSE "send"
      BY <1>7, <2>3 DEF CbGet, Get
    <3>2. Cardinality(queue') = Cardinality(queue) - 1
      BY <3>1, QueueSize
    <3> QED
      BY <1>7, <3>1, <3>2, QueueSize DEF CbGet
  <2> QED
    BY <2>1, <2>2, <2>3
<1>8. CASE CbBroadCast
  BY <1>8 DEF CbBroadCast
<1>9. CASE CbLock \/ CbCopy \/ CbSend \/ CbUser \/ CbCall \/ CbReturn
  BY <1>9 DEF CbLock, CbCopy, CbSend, CbUser, CbCall, CbReturn
<1>10. CASE Mmal
  BY <1>10 DEF Mmal, Fill, ActionLock, ActionUnlock, Deliver
<1>11. CASE UNCHANGED vars
  BY <1>11
<1> QED
  BY <1>1, <1>2, <1>3, <1>4, <1>5, <1>6, <1>7, <1>8, <1>9, <1>10, <1>11
     DEF Next, OwnerSteps, Callback

\* No step loses a header without counting it.
LEMMA LostStep ==
  ASSUME IInv, LostInv, [Next]_vars
  PROVE  LostInv'
<1> USE ClientsAssumption, BuffersAssumption DEF IInv, TypeOK, FlagsTypeOK,
      DataTypeOK, LifeInv, HeaderInv, HeaderInOnePlace, InTransit, LostInv,
      Using, Closing, At, Goto, ClientPC, OwnerPC, CallbackPC
<1>1. \A b \in Buffers \ Lost :
        Cardinality(Lost \cup {b}) = Cardinality(Lost) + 1
  <2>1. IsFiniteSet(Lost)
    BY FS_Subset DEF Lost
  <2> QED
    BY <2>1, FS_AddElement
<1>2. ASSUME NEW c \in Clients, Client(c) PROVE LostInv'
  BY <1>2 DEF Client, Grab, WaitForFrame, SpuriousWakeup, Recheck, Retrieve,
      RetrieveDone, Lost
<1>3. ASSUME NEW startNow \in BOOLEAN, Open(startNow) PROVE LostInv'
  <2>1. Lost' = {}
    BY <1>3 DEF Open, Lost
  <2> QED
    BY <1>3, <2>1, FS_EmptySet DEF Open
<1>4. ASSUME \/ StartCapture \/ Release
             \/ \E f \in Callbacks \cup {NoCallback} : SetUserCallbackData(f)
      PROVE  LostInv'
  BY <1>4 DEF StartCapture, Release, ClearEnabled, SetUserCallbackData, Lost
<1>5. ASSUME NEW b \in Buffers \ held, SendBuffer(b), b \notin Lost,
             is_enabled' = is_enabled,
             Lost' = (Lost \cup {b}) \ held'
      PROVE  LostInv'
  <2>1. CASE b \in held'
    <3>1. Lost' = Lost /\ failures' = failures
      BY <1>5, <2>1 DEF SendBuffer, Lost
    <3> QED
      BY <1>5, <3>1
  <2>2. CASE b \notin held'
    <3>1. Lost' = Lost \cup {b}
      BY <1>5, <2>2 DEF SendBuffer, Lost
    <3>2. is_enabled => failures' = failures + 1
      BY <1>5, <2>2 DEF SendBuffer
    <3> QED
      BY <1>1, <1>5, <3>1, <3>2
  <2> QED
    BY <2>1, <2>2
<1>6. CASE StartSend
  <2>1. /\ outgoing \in Buffers \ held /\ outgoing \notin Lost
        /\ SendBuffer(outgoing)
    BY <1>6 DEF StartSend, Lost
  <2>2. Lost' = (Lost \cup {outgoing}) \ held'
    BY <1>6, <2>1 DEF StartSend, SendBuffer, Lost
  <2> QED
    BY <1>5, <1>6, <2>1, <2>2 DEF StartSend
<1>7. CASE CbSend
  <2>1. cbNew \in Buffers \ held /\ cbNew \notin Lost /\ SendBuffer(cbNew)
    BY <1>7 DEF CbSend, Lost
  <2>2. Lost' = (Lost \cup {cbNew}) \ held'
    BY <1>7, <2>1 DEF CbSend, SendBuffer, Lost
  <2> QED
    BY <1>5, <1>7, <2>1, <2>2 DEF CbSend
<1>8. CASE StartGet
  <2>1. outgoing = NoBuffer
    BY <1>8 DEF StartGet
  <2>2. Lost' = Lost
    BY <1>8, <2>1 DEF StartGet, Get, Lost
  <2> QED
    BY <1>8, <2>2 DEF StartGet
<1>9. CASE DisablePort
  BY <1>9 DEF DisablePort
<1>10. ASSUME \/ StartParameter \/ StartFails \/ StartDone \/ DrainDone
              \/ TransitWait \/ Destroy \/ Close \/ SetUserCallback
       PROVE  LostInv'
  BY <1>10 DEF StartParameter, StartFails, ClearEnabled, StartDone, DrainDone,
      TransitWait, Destroy, Close, SetUserCallback, Lost
<1>11. CASE CbRelease
  BY <1>11 DEF CbRelease, Lost
<1>12. CASE CbGet
  <2>1. Lost' = Lost
    BY <1>12 DEF CbGet, Get, Lost
  <2> QED
    BY <1>12, <2>1 DEF CbGet
<1>13. CASE CbLock \/ CbCopy \/ CbUser \/ CbCall \/ CbBroadCast \/ CbReturn
  BY <1>13 DEF CbLock, CbCopy, CbUser, CbCall, CbBroadCast, CbReturn, Lost
<1>14. CASE Mmal
  <2>1. Lost' = Lost /\ failures' = failures /\ is_enabled' = is_enabled
    BY <1>14 DEF Mmal, Fill, ActionLock, ActionUnlock, Deliver, Lost
  <2> QED
    BY <2>1
<1>15. CASE UNCHANGED vars
  BY <1>15 DEF Lost
<1> QED
  BY <1>2, <1>3, <1>4, <1>6, <1>7, <1>8, <1>9, <1>10, <1>11, <1>12, <1>13,
     <1>14, <1>15 DEF Next, OwnerCalls, OwnerSteps, Callback

\* startCapture, called once per open: its loop finds a header in the pool at
\* every turn although the callback takes headers from it too.
THEOREM NoNullTheorem ==
  ASSUME ~Restart
  PROVE  Spec => []NoNullHeader
<1>1. Init => CountInv
  BY ClientsAssumption DEF Init, CountInv, NoNullHeader, At
<1>2. IInv /\ QuietInv /\ CountInv /\ [Next]_vars => CountInv'
  BY CountStep
<1>3. CountInv => NoNullHeader
  BY DEF CountInv
<1> QED
  BY <1>1, <1>2, <1>3, QuietInvariance, PTL DEF Spec

\* With the headers in the pool and the lost ones counted, all others are
\* with the firmware or on their way back.
LEMMA CirculateCount ==
  ASSUME IInv, CountInv, LostInv
  PROVE  AllHeadersCirculate
<1> SUFFICES ASSUME isCapturing, is_enabled, cb \notin {"get", "send"}
             PROVE  Cardinality(held \cup returned \cup ({cbBuf} \ {NoBuffer}))
                      + failures = Cardinality(Buffers)
  BY DEF AllHeadersCirculate
<1> DEFINE Moving == held \cup returned \cup ({cbBuf} \ {NoBuffer})
<1> USE BuffersAssumption DEF IInv, TypeOK, DataTypeOK, HeaderInv, CountInv
<1>1. queue = {}
  BY QueueSize
<1>2. cbNew = NoBuffer /\ outgoing = NoBuffer
  OBVIOUS
<1>3. Moving \subseteq Buffers /\ Lost = Buffers \ Moving
  BY <1>1, <1>2 DEF Lost
<1>4. /\ IsFiniteSet(Moving) /\ IsFiniteSet(Lost)
      /\ Moving \cup Lost = Buffers /\ Moving \cap Lost = {}
  BY <1>3, FS_Subset
<1>5. Cardinality(Moving) \in Nat /\ Cardinality(Lost) \in Nat
  BY <1>4, FS_CardinalityType
<1>6. Cardinality(Moving \cup Lost) =
        Cardinality(Moving) + Cardinality(Lost) - Cardinality(Moving \cap Lost)
  BY <1>4, FS_Union
<1>7. Cardinality(Moving \cap Lost) = 0
  BY <1>4, FS_EmptySet
<1>8. Cardinality(Moving \cup Lost) = Cardinality(Buffers)
  BY <1>4
<1>9. Cardinality(Lost) = failures
  BY DEF LostInv
<1> HIDE DEF Moving
<1>10. Cardinality(Moving) + failures = Cardinality(Buffers)
  BY ONLY <1>5, <1>6, <1>7, <1>8, <1>9
<1> QED
  BY <1>10 DEF Moving

\* video_buffer_callback, startCapture and mmal_port_send_buffer: for any pool,
\* no header is stranded; only refused sends slow the stream down.
THEOREM CirculateTheorem ==
  ASSUME ~Restart
  PROVE  Spec => []AllHeadersCirculate
<1>1. Init => CountInv /\ LostInv
  BY ClientsAssumption DEF Init, CountInv, NoNullHeader, LostInv, At
<1>2. IInv /\ QuietInv /\ CountInv /\ LostInv /\ [Next]_vars
        => CountInv' /\ LostInv'
  BY CountStep, LostStep
<1>3. IInv /\ CountInv /\ LostInv => AllHeadersCirculate
  BY CirculateCount
<1> QED
  BY <1>1, <1>2, <1>3, QuietInvariance, PTL DEF Spec

=============================================================================
