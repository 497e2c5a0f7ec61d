----------------------------- MODULE MCRaspicam -----------------------------
(***************************************************************************)
(* What the application sets and gets, for TLC: the layout of frames, the  *)
(* settings of the video and of the still camera, the exposure while       *)
(* callbacks run, and the opening of the still camera. They share no       *)
(* state: a behaviour runs one of them and leaves the others as they       *)
(* start. The properties come with their proofs, for any constants.        *)
(***************************************************************************)
EXTENDS ExposureControl, Integers, FiniteSetTheorems, TLAPS

CONSTANTS Widths, Heights, AlignW, AlignH, Formats, UseCv, LateSize,
          LateFormat, StaleRetrieve, Outside, Unwritten, VideoSettings,
          VideoInputs, PictureInputs, MaxAttempts, OpenFirst

\* Arguments at and beyond the limits of each range.
VideoArguments ==
  [saturation |-> {-101, 100}, sharpness |-> {-100, 101},
   contrast |-> {-150, 150}, brightness |-> {0, 100, 101}, ISO |-> {100, 1600},
   exposureCompensation |-> {-11, 0, 11}, metering |-> {0, 3, 4},
   imageEffect |-> {0, 19, 20}, awb |-> {0, 9, 10},
   videoStabilisation |-> {0, 1}, rotation |-> {-450, -1, 90, 359, 360},
   hflip |-> {0, 1}, vflip |-> {0, 1}]
StillArguments ==
  [sharpness |-> {-101}, brightness |-> {101, 200}, rotation |-> {-450, 359},
   awb |-> {3, 99}, ISO |-> {1600}, quality |-> {101}, encoding |-> {4}]

VARIABLES
  part,   \* the part that runs
  cv, frameIsOpened, width, height, captureFtm, channels, camera, buffData,
  fresh, copied, room, videoIsOpened, state, hw, isInitialized, stillCamera,
  encoder_output_port, changedSettings, opening, stillState, stillHw, astray,
  picture, setupIsInitialized, setupCamera, encoder, encoder_pool,
  output_port, encoder_connection, owned, pools, place, attempt, trouble

frameVars == <<cv, frameIsOpened, width, height, captureFtm, channels,
               camera, buffData, fresh, copied, room>>
videoVars == <<videoIsOpened, state, hw>>
stillVars == <<isInitialized, stillCamera, encoder_output_port,
               changedSettings, opening, stillState, stillHw, astray, picture>>
setupVars == <<setupIsInitialized, setupCamera, encoder, encoder_pool,
               output_port, encoder_connection, owned, pools, place,
               attempt, trouble>>

Frame == INSTANCE FrameCopy WITH isOpened <- frameIsOpened
Video == INSTANCE CameraSettings WITH isOpened <- videoIsOpened, Inputs <-
  VideoInputs, Settings <- VideoSettings
Still == INSTANCE StillSettings WITH camera <- stillCamera, state <-
  stillState, hw <- stillHw, Inputs <- PictureInputs
Setup == INSTANCE StillSetup WITH isInitialized <- setupIsInitialized,
  camera <- setupCamera

ASSUME MCRaspicamConstants ==
  /\ Frame!FrameSizes
  /\ Frame!FrameFormats
  /\ Frame!FrameUsage
  /\ Frame!FrameMarks
  /\ Video!SettingsAssumption
  /\ Still!StillInputs
  /\ Setup!SetupBounds

AppInit ==
  /\ part \in {"Exposure", "Frame", "Video", "Still", "Setup"}
  /\ Init
  /\ Frame!Init
  /\ Video!Init
  /\ Still!Init
  /\ Setup!Init
  /\ part # "Frame" => /\ ~cv /\ width = 4 /\ height = 4 /\ captureFtm = "RGB"

ExposureStep ==
  /\ part = "Exposure" /\ Next
  /\ UNCHANGED <<part, frameVars, videoVars, stillVars, setupVars>>
FrameStep ==
  /\ part = "Frame" /\ Frame!Next
  /\ UNCHANGED <<part, vars, videoVars, stillVars, setupVars>>
VideoStep ==
  /\ part = "Video" /\ Video!Next
  /\ UNCHANGED <<part, vars, frameVars, stillVars, setupVars>>
StillStep ==
  /\ part = "Still" /\ Still!Next
  /\ UNCHANGED <<part, vars, frameVars, videoVars, setupVars>>
SetupStep ==
  /\ part = "Setup" /\ Setup!Next
  /\ UNCHANGED <<part, vars, frameVars, videoVars, stillVars>>

AppNext == ExposureStep \/ FrameStep \/ VideoStep \/ StillStep \/ SetupStep
appVars == <<part, vars, frameVars, videoVars, stillVars, setupVars>>

AppSpec == AppInit /\ [][AppNext]_appVars

-----------------------------------------------------------------------------
(* Properties                                                              *)

\* FrameCopy: what retrieve hands out is the image grabbed, in the layout of
\* the format, whatever the alignment of the camera's frame; nothing is read
\* outside the frame and it fits the room the caller has.
ImageIsRight == Frame!ImageIsRight /\ Frame!ReadsInside /\ Frame!FitsRoom

\* CameraSettings: the camera has what was set last, before or after it was
\* opened; an argument out of range is brought into it, that of setISO apart.
SettingsCommitted == Video!SettingsCommitted /\ Video!ClampedInRange

\* CameraSettings: every setting is sent in the range the header gives, ISO as
\* well.  It is not: setISO takes any number.
SentInRange == Video!SentInRange

\* StillSettings: a picture is taken with the settings and the encoding set
\* last, whatever attempts to open the camera failed; but if no setting was
\* changed after an attempt that failed late, the camera has none of them.
PictureAsSet ==
  /\ Still!SettingsReachUnlessAstray /\ Still!EncodingReachesPicture
  /\ Still!SentInRange

\* StillSettings: and with the quality set last.  It is not, because a quality
\* set before open is taken for committed while there is no encoder yet.
QualityReachesPicture == Still!QualityReachesPicture

\* StillSettings: and with every setting of the camera, after failed attempts
\* too. It is not, because a late failure leaves them marked as committed.
SettingsReachPicture == Still!SettingsReachPicture

\* StillSetup: an open camera is whole, made by one attempt, and at most one
\* is live, whatever attempts failed before.
OneCamera ==
  Setup!ReadyWhenInitialized /\ Setup!OneCamera /\ Setup!LiveUnlessEncoderFailed

-----------------------------------------------------------------------------
(* The video camera's settings, for any arguments of the setters.          *)

\* State keeps every setting in the range of its setter.
VideoInv ==
  /\ state \in [VideoSettings -> Int]
  /\ \A s \in VideoSettings \cap {"saturation", "sharpness", "contrast"} :
       state[s] \in -100 .. 100
  /\ "brightness" \in VideoSettings => state["brightness"] \in 0 .. 100
  /\ "exposureCompensation" \in VideoSettings =>
       state["exposureCompensation"] \in -10 .. 10
  /\ "rotation" \in VideoSettings => state["rotation"] \in 0 .. 359

\* A setter stores what its range allows, brightness being unsigned.
LEMMA NormalisedRange ==
  ASSUME NEW s, NEW v \in Int, s = "brightness" => v >= 0
  PROVE  /\ Video!Normalised(s, v) \in Int
         /\ s \in {"saturation", "sharpness", "contrast"} =>
              Video!Normalised(s, v) \in -100 .. 100
         /\ s = "brightness" => Video!Normalised(s, v) \in 0 .. 100
         /\ s = "exposureCompensation" => Video!Normalised(s, v) \in -10 .. 10
         /\ s = "rotation" => Video!Normalised(s, v) \in 0 .. 359
<1>1. CASE s = "rotation"
  BY <1>1 DEF Video!Normalised
<1>2. CASE s # "rotation"
  BY <1>2 DEF Video!Normalised, Video!Clamp
<1> QED
  BY <1>1, <1>2

\* setRotation and the other setters: State is in range, always.
LEMMA VideoInvariance ==
  ASSUME Video!SettingsAssumption
  PROVE  Video!Spec => []VideoInv
<1>1. Video!Init => VideoInv
  BY DEF Video!Init, Video!Default, VideoInv
<1>2. ASSUME VideoInv, [Video!Next]_(Video!vars) PROVE VideoInv'
  <2>1. ASSUME NEW s \in VideoSettings, NEW v \in VideoInputs[s],
               Video!Set(s, v)
        PROVE  VideoInv'
    <3>1. v \in Int /\ (s = "brightness" => v >= 0)
      BY <2>1 DEF Video!SettingsAssumption
    <3>2. state' = [state EXCEPT ![s] = Video!Normalised(s, v)]
      BY <2>1 DEF Video!Set
    <3> QED
      BY <1>2, <3>1, <3>2, NormalisedRange DEF VideoInv
  <2>2. CASE Video!Open \/ Video!Release \/ UNCHANGED Video!vars
    BY <1>2, <2>2 DEF Video!Open, Video!Release, Video!vars, VideoInv
  <2> QED
    BY <1>2, <2>1, <2>2 DEF Video!Next
<1> QED
  BY <1>1, <1>2, PTL DEF Video!Spec

\* commitParameters and every setter on an open camera: the camera has what
\* the getters report, whatever was set when.
THEOREM CommittedTheorem == Video!Spec => []Video!SettingsCommitted
<1>1. Video!Init => Video!SettingsCommitted
  BY DEF Video!Init, Video!SettingsCommitted
<1>2. ASSUME Video!SettingsCommitted, [Video!Next]_(Video!vars)
      PROVE  Video!SettingsCommitted'
  <2>1. ASSUME NEW s \in VideoSettings, NEW v \in VideoInputs[s],
               Video!Set(s, v)
        PROVE  Video!SettingsCommitted'
    <3> SUFFICES ASSUME videoIsOpened, NEW t \in VideoSettings
                 PROVE  hw'[t] = Video!Sent(t, state')
      BY <2>1 DEF Video!Set, Video!SettingsCommitted
    <3>1. CASE t \in Video!Committed(s)
      BY <2>1, <3>1 DEF Video!Set
    <3>2. CASE t \notin Video!Committed(s)
      <4>1. t # s /\ hw'[t] = Video!Sent(t, state)
        BY <1>2, <2>1, <3>2 DEF Video!Set, Video!Committed, Video!SettingsCommitted
      <4>2. state'[t] = state[t]
        BY <2>1, <4>1 DEF Video!Set
      <4>3. CASE t \in {"hflip", "vflip"}
        <5>1. s \notin {"hflip", "vflip"}
          BY <3>2, <4>3 DEF Video!Committed
        <5>2. /\ state'["hflip"] = state["hflip"]
              /\ state'["vflip"] = state["vflip"]
          BY <2>1, <5>1 DEF Video!Set
        <5> QED
          BY <4>1, <4>3, <5>2 DEF Video!Sent
      <4>4. CASE t \notin {"hflip", "vflip"}
        BY <4>1, <4>2, <4>4 DEF Video!Sent
      <4> QED
        BY <4>3, <4>4
    <3> QED
      BY <3>1, <3>2
  <2>2. CASE Video!Open \/ Video!Release \/ UNCHANGED Video!vars
    BY <1>2, <2>2 DEF Video!Open, Video!Release, Video!vars, Video!SettingsCommitted
  <2> QED
    BY <1>2, <2>1, <2>2 DEF Video!Next
<1> QED
  BY <1>1, <1>2, PTL DEF Video!Spec

\* setRotation, setBrightness and the others that bring their argument into
\* range: none makes the library send a value the header does not allow. ISO is
\* not among them (SentInRange fails).
THEOREM RangeTheorem ==
  ASSUME Video!SettingsAssumption
  PROVE  Video!Spec => []Video!ClampedInRange
<1>1. VideoInv /\ Video!SettingsCommitted => Video!ClampedInRange
  <2> SUFFICES ASSUME VideoInv, Video!SettingsCommitted, videoIsOpened,
                      NEW s \in (VideoSettings \ {"ISO"}) \cap DOMAIN Video!Range
               PROVE  hw[s] \in Video!Range[s]
    BY DEF Video!ClampedInRange, Video!InRange
  <2>1. hw[s] = Video!Sent(s, state)
    BY DEF Video!SettingsCommitted
  <2>2. CASE s = "rotation"
    <3>1. state[s] \in 0 .. 359
      BY <2>2 DEF VideoInv
    <3>2. (state[s] \div 90) * 90 \in {0, 90, 180, 270}
      BY <3>1
    <3>3. Video!Sent(s, state) = (state[s] \div 90) * 90
      BY <2>2 DEF Video!Sent, Video!Known
    <3>4. Video!Range[s] = {0, 90, 180, 270}
      BY <2>2 DEF Video!Range
    <3> QED
      BY <2>1, <3>2, <3>3, <3>4
  <2>3. CASE s # "rotation"
    BY <2>1, <2>3 DEF Video!Sent, Video!Range, Video!Known, VideoInv
  <2> QED
    BY <2>2, <2>3
<1> QED
  BY <1>1, VideoInvariance, CommittedTheorem, PTL

-----------------------------------------------------------------------------
(* The opening of the still camera, for any number of attempts.            *)

\* What createCamera and createEncoder hand on to the next step.
HandedOn ==
  /\ place = "encoder" => setupCamera = attempt /\ Setup!Camera(attempt) \in owned
  /\ place = "connect" =>
       /\ setupCamera = attempt /\ encoder = attempt /\ output_port = attempt
       /\ encoder_pool = Setup!Encoder(attempt) /\ encoder_pool \in pools
       /\ {Setup!Camera(attempt), Setup!Encoder(attempt)} \subseteq owned

\* Where the application can be, with an open camera and without.
PlaceInv ==
  /\ attempt \in Nat
  /\ place \in {"camera", "encoder", "connect"} => attempt > 0
  /\ setupIsInitialized => place \in {"idle", "ready", "crashed"}
  /\ place = "ready" => setupIsInitialized

\* The pointer to the encoder's port is good until an encoder fails.
PortInv ==
  {"encoder", "ports"} \cap trouble = {} =>
     output_port = 0 \/ Setup!Encoder(output_port) \in owned

SetupInv ==
  /\ HandedOn /\ PlaceInv /\ PortInv
  /\ Setup!ReadyWhenInitialized /\ Setup!LiveUnlessEncoderFailed

\* The invariant holds at first and every step keeps it.
LEMMA SetupInvariance == Setup!Spec => []SetupInv
<1>1. Setup!Init => SetupInv
  BY DEF Setup!Init, SetupInv, HandedOn, PlaceInv, PortInv, Setup!ReadyWhenInitialized,
         Setup!LiveUnlessEncoderFailed
<1>2. SetupInv /\ [Setup!Next]_(Setup!setup) => SetupInv'
  <2> SUFFICES ASSUME SetupInv, [Setup!Next]_(Setup!setup) PROVE SetupInv'
    OBVIOUS
  <2> USE DEF SetupInv, HandedOn, PlaceInv, PortInv, Setup!ReadyWhenInitialized,
              Setup!LiveUnlessEncoderFailed, Setup!Camera, Setup!Encoder
  <2>1. {"encoder", "ports"} \cap trouble = {} => Setup!CommitTouches = {}
    BY DEF Setup!CommitTouches, Setup!Exists
  <2>2. CASE Setup!Initialize
    BY <2>2 DEF Setup!Initialize
  <2>3. CASE Setup!CreateCameraFails
    BY <2>3 DEF Setup!CreateCameraFails
  <2>4. CASE Setup!SetUpCameraFails
    BY <2>1, <2>4 DEF Setup!SetUpCameraFails, Setup!CommitTouches
  <2>5. CASE Setup!CreateCamera
    BY <2>1, <2>5 DEF Setup!CreateCamera, Setup!CommitTouches
  <2>6. CASE Setup!CreateEncoderFails
    BY <2>6 DEF Setup!CreateEncoderFails
  <2>7. CASE Setup!SetUpEncoderFails
    BY <2>7 DEF Setup!SetUpEncoderFails
  <2>8. CASE Setup!EncoderPoolFails
    BY <2>8 DEF Setup!EncoderPoolFails
  <2>9. CASE Setup!CreateEncoder
    BY <2>9 DEF Setup!CreateEncoder
  <2>10. CASE Setup!ConnectPorts
    BY <2>10 DEF Setup!ConnectPorts
  <2>11. CASE Setup!ConnectPortsFails
    BY <2>11 DEF Setup!ConnectPortsFails
  <2>12. CASE Setup!Opened
    BY <2>12 DEF Setup!Opened
  <2>13. CASE Setup!OpenFailed
    BY <2>13 DEF Setup!OpenFailed
  <2>14. CASE Setup!TakePicture
    <3>1. CASE place = "ready"
      <4>1. trouble' = trouble
        BY <2>14, <3>1 DEF Setup!TakePicture, Setup!Exists, Setup!NoPool
      <4> QED
        BY <2>14, <3>1, <4>1 DEF Setup!TakePicture
    <3>2. CASE place = "failed" /\ ~OpenFirst
      BY <2>14, <3>2 DEF Setup!TakePicture
    <3> QED
      BY <2>14, <3>1, <3>2 DEF Setup!TakePicture
  <2>15. CASE UNCHANGED Setup!setup
    BY <2>15 DEF Setup!setup
  <2> QED
    BY <2>2, <2>3, <2>4, <2>5, <2>6, <2>7, <2>8, <2>9, <2>10, <2>11, <2>12,
       <2>13, <2>14, <2>15 DEF Setup!Next
<1> QED
  BY <1>1, <1>2, PTL DEF Setup!Spec

\* initialize: an open camera is whole and of one attempt, however many
\* attempts failed before it and wherever they failed.
THEOREM ReadyTheorem == Setup!Spec => []Setup!ReadyWhenInitialized
<1>1. SetupInv => Setup!ReadyWhenInitialized
  BY DEF SetupInv
<1> QED
  BY <1>1, SetupInvariance, PTL

\* takePicture and commitParameters: an application that looks at what open
\* returns uses NULL or freed memory only after an encoder failed.
THEOREM LiveTheorem == Setup!Spec => []Setup!LiveUnlessEncoderFailed
<1>1. SetupInv => Setup!LiveUnlessEncoderFailed
  BY DEF SetupInv
<1> QED
  BY <1>1, SetupInvariance, PTL

LEMMA SetupCardinality == \A S : Setup!Cardinality(S) = Cardinality(S)
BY Zenon DEF Setup!Cardinality, Cardinality

\* The cameras there are: that of the attempt under way or of the open camera,
\* unless a step the code does not undo has failed.
CameraInv ==
  /\ place = "encoder" => encoder_pool = Setup!Camera(setupCamera)
  /\ trouble \cap {"connect", "encoder pool"} = {} /\ place # "crashed" =>
       \A c \in Setup!Exists : c.owner = "camera" =>
         /\ c = Setup!Camera(setupCamera)
         /\ setupIsInitialized \/ place \in {"encoder", "connect"}

\* initialize: no sequence of failed attempts leaves two cameras behind, except
\* where connectPorts or the pool of the encoder failed.
THEOREM SetupCameraTheorem == Setup!Spec => []Setup!OneCamera
<1>1. Setup!Init => CameraInv
  BY DEF Setup!Init, CameraInv, Setup!Exists
<1>2. SetupInv /\ CameraInv /\ [Setup!Next]_(Setup!setup) => CameraInv'
  <2> SUFFICES ASSUME SetupInv, CameraInv, [Setup!Next]_(Setup!setup) PROVE CameraInv'
    OBVIOUS
  <2> USE DEF SetupInv, HandedOn, PlaceInv, CameraInv, Setup!Camera, Setup!Encoder,
              Setup!Exists
  <2>1. CASE Setup!Initialize
    BY <2>1 DEF Setup!Initialize
  <2>2. CASE Setup!CreateCameraFails \/ Setup!CreateEncoderFails
    BY <2>2 DEF Setup!CreateCameraFails, Setup!CreateEncoderFails
  <2>3. CASE Setup!SetUpCameraFails
    BY <2>3 DEF Setup!SetUpCameraFails, Setup!CommitTouches
  <2>4. CASE Setup!CreateCamera
    BY <2>4 DEF Setup!CreateCamera, Setup!CommitTouches
  <2>5. CASE Setup!SetUpEncoderFails
    BY <2>5 DEF Setup!SetUpEncoderFails
  <2>6. CASE Setup!EncoderPoolFails \/ Setup!ConnectPortsFails
    BY <2>6 DEF Setup!EncoderPoolFails, Setup!ConnectPortsFails
  <2>7. CASE Setup!CreateEncoder
    <3>1. \A c \in Setup!Exists' : c.owner = "camera" => c \in Setup!Exists
      <4>1. Setup!Exists' = Setup!Exists \cup {Setup!Encoder(attempt)}
        BY <2>7, Zenon DEF Setup!CreateEncoder
      <4>2. Setup!Encoder(attempt).owner = "encoder"
        OBVIOUS
      <4> QED
        BY ONLY <4>1, <4>2, Zenon
    <3>2. /\ place = "encoder" /\ place' = "connect"
          /\ UNCHANGED <<setupIsInitialized, setupCamera, trouble>>
      BY <2>7 DEF Setup!CreateEncoder
    <3> QED
      BY <3>1, <3>2
  <2>8. CASE Setup!ConnectPorts
    BY <2>8 DEF Setup!ConnectPorts
  <2>9. CASE Setup!Opened \/ Setup!OpenFailed
    BY <2>9 DEF Setup!Opened, Setup!OpenFailed
  <2>10. CASE Setup!TakePicture
    BY <2>10 DEF Setup!TakePicture
  <2>11. CASE UNCHANGED Setup!setup
    BY <2>11 DEF Setup!setup
  <2> QED
    BY <2>1, <2>2, <2>3, <2>4, <2>5, <2>6, <2>7, <2>8, <2>9, <2>10, <2>11
       DEF Setup!Next
<1>3. CameraInv => Setup!OneCamera
  <2> SUFFICES ASSUME CameraInv, place # "crashed",
                      trouble \cap {"connect", "encoder pool"} = {}
               PROVE  Cardinality({c \in Setup!Exists : c.owner = "camera"}) <= 1
    BY SetupCardinality, Zenon DEF Setup!OneCamera
  <2>1. {c \in Setup!Exists : c.owner = "camera"} \in SUBSET {Setup!Camera(setupCamera)}
    BY DEF CameraInv
  <2>2. /\ IsFiniteSet({Setup!Camera(setupCamera)})
        /\ Cardinality({Setup!Camera(setupCamera)}) = 1
    BY FS_Singleton
  <2> QED
    BY <2>1, <2>2, FS_Subset
<1> QED
  BY <1>1, <1>2, <1>3, SetupInvariance, PTL DEF Setup!Spec

-----------------------------------------------------------------------------
(* Proofs: each part runs as its own specification, so what is proved of   *)
(* it, for any constants, holds of the application; the still settings'    *)
(* invariant is here.                                                      *)

\* A behaviour of the application is one of the video camera's settings.
LEMMA VideoPart == AppSpec => Video!Spec
<1>1. AppInit => Video!Init
  BY DEF AppInit
<1>2. [AppNext]_appVars => [Video!Next]_(Video!vars)
  BY DEF AppNext, appVars, videoVars, Video!vars, ExposureStep, FrameStep,
      VideoStep, StillStep, SetupStep
<1> QED
  BY <1>1, <1>2, PTL DEF AppSpec, Video!Spec

\* And of the still camera's settings.
LEMMA StillPart == AppSpec => Still!Spec
<1>1. AppInit => Still!Init
  BY DEF AppInit
<1>2. [AppNext]_appVars => [Still!Next]_(Still!vars)
  BY DEF AppNext, appVars, stillVars, Still!vars, ExposureStep, FrameStep,
      VideoStep, StillStep, SetupStep
<1> QED
  BY <1>1, <1>2, PTL DEF AppSpec, Still!Spec

\* And of the opening of the still camera.
LEMMA SetupPart == AppSpec => Setup!Spec
<1>1. AppInit => Setup!Init
  BY DEF AppInit
<1>2. [AppNext]_appVars => [Setup!Next]_(Setup!setup)
  BY DEF AppNext, appVars, setupVars, Setup!setup, ExposureStep, FrameStep,
      VideoStep, StillStep, SetupStep
<1> QED
  BY <1>1, <1>2, PTL DEF AppSpec, Setup!Spec

\* And of the frames.
LEMMA FramePart == AppSpec => Frame!Spec
<1>1. AppInit => Frame!Init
  BY DEF AppInit
<1>2. [AppNext]_appVars => [Frame!Next]_(Frame!vars)
  BY DEF AppNext, appVars, frameVars, Frame!vars, ExposureStep, FrameStep,
      VideoStep, StillStep, SetupStep
<1> QED
  BY <1>1, <1>2, PTL DEF AppSpec, Frame!Spec

\* The setters, open and release of the video camera: for any settings and
\* arguments the open camera has what the getters report, and every setting but
\* ISO, which is sent as it was given, in range.
THEOREM SettingsTheorem == AppSpec => []SettingsCommitted
<1>1. Video!Spec => [](Video!ClampedInRange)
  BY MCRaspicamConstants, RangeTheorem
<1>2. Video!SettingsCommitted /\ Video!ClampedInRange => SettingsCommitted
  BY DEF SettingsCommitted
<1> QED
  BY <1>1, <1>2, VideoPart, CommittedTheorem, PTL

\* initialize and takePicture of the still camera: after any failed attempts an
\* open camera is whole and the only one, and its memory is there.
THEOREM OneCameraTheorem == AppSpec => []OneCamera
<1>1. /\ Setup!ReadyWhenInitialized /\ Setup!OneCamera
      /\ Setup!LiveUnlessEncoderFailed
      => OneCamera
  BY DEF OneCamera
<1> QED
  BY <1>1, SetupPart, ReadyTheorem, SetupCameraTheorem,
     LiveTheorem, PTL

\* The range the setter folds its argument into, ISO's apart.
InRange(s, v) ==
  /\ s = "brightness" => v \in 0 .. 100
  /\ s = "sharpness" => v \in -100 .. 100
  /\ s = "rotation" => v \in {0, 90, 180, 270}
  /\ s = "awb" => v \in 0 .. 9

\* The fields of Private_Impl_Still, in the range of their setters.
StillRange ==
  /\ stillState \in [Still!Settings -> Int]
  /\ stillState["brightness"] \in 0 .. 100
  /\ stillState["sharpness"] \in -100 .. 100
  /\ stillState["rotation"] \in 0 .. 359
  /\ DOMAIN stillHw = Still!Settings
  /\ \A s \in Still!Settings :
       stillHw[s] = Still!Unset \/ InRange(s, stillHw[s])

\* changedSettings tells what the components do not have yet. Between attempts
\* it is up unless the settings went astray, and createCamera lowers it; the
\* encoder has its encoding from when its port is made.
StillInv ==
  /\ isInitialized =>
       stillCamera /\ encoder_output_port = "port" /\ opening = "no"
  /\ opening # "no" => stillCamera /\ ~changedSettings
  /\ opening = "connect" => encoder_output_port = "port"
  /\ opening = "no" /\ ~isInitialized /\ ~astray => changedSettings
  /\ (opening # "no" \/ isInitialized) /\ ~astray /\ ~changedSettings =>
       \A s \in Still!CameraSettings :
         stillHw[s] = Still!Sent(s, stillState)
  /\ (opening = "connect" \/ isInitialized) /\ ~changedSettings =>
       stillHw["encoding"] = Still!Sent("encoding", stillState)

PictureInv ==
  /\ Still!SettingsReachUnlessAstray /\ Still!EncodingReachesPicture
  /\ Still!SentInRange

\* What commitParameters sends is in range.
LEMMA StillSentInRange ==
  ASSUME StillRange
  PROVE  \A s \in Still!Settings : InRange(s, Still!Sent(s, stillState))
<1> SUFFICES ASSUME NEW s \in Still!Settings
             PROVE  InRange(s, Still!Sent(s, stillState))
  OBVIOUS
<1>1. CASE s = "rotation"
  <2>1. stillState[s] \in 0 .. 359
    BY <1>1 DEF StillRange
  <2>2. (stillState[s] \div 90) * 90 \in {0, 90, 180, 270}
    BY <2>1
  <2>3. Still!Sent(s, stillState) = (stillState[s] \div 90) * 90
    BY <1>1 DEF Still!Sent
  <2> QED
    BY <1>1, <2>2, <2>3 DEF InRange
<1>2. CASE s # "rotation"
  BY <1>2 DEF StillRange, InRange, Still!Sent, Still!Settings,
      Still!convertAWB
<1> QED
  BY <1>1, <1>2

\* What commitParameters leaves in the components.
LEMMA CommitSends ==
  ASSUME StillRange, NEW old, DOMAIN old = Still!Settings,
         \A s \in Still!Settings : old[s] = Still!Unset \/ InRange(s, old[s])
  PROVE  /\ DOMAIN Still!Commit(old) = Still!Settings
         /\ \A s \in Still!Settings :
              LET new == Still!Commit(old)[s] IN
              new = Still!Unset \/ InRange(s, new)
         /\ ~changedSettings => Still!Commit(old) = old
         /\ changedSettings =>
              /\ \A s \in Still!CameraSettings :
                   Still!Commit(old)[s] = Still!Sent(s, stillState)
              /\ encoder_output_port = "port" =>
                   Still!Commit(old)["encoding"] =
                     Still!Sent("encoding", stillState)
  BY StillSentInRange
     DEF Still!Commit, Still!Settings, Still!EncoderSettings,
         Still!CameraSettings

\* The parameters of components that stay are still in range.
LEMMA KeepingRange ==
  ASSUME StillRange, NEW kept
  PROVE  LET new == Still!Keeping(kept) IN
         /\ DOMAIN new = Still!Settings
         /\ \A s \in Still!Settings : new[s] = Still!Unset \/ InRange(s, new[s])
         /\ \A s \in Still!Settings : s \in kept => new[s] = stillHw[s]
  BY DEF StillRange, Still!Keeping

\* No step of the application or of the camera breaks the three.
LEMMA StillStepInv ==
  ASSUME Still!StillInputs, StillRange, StillInv, PictureInv,
         [Still!Next]_(Still!vars)
  PROVE  StillRange' /\ StillInv' /\ PictureInv'
<1> USE DEF PictureInv, Still!SettingsReachUnlessAstray,
      Still!SettingsReachPicture, Still!EncodingReachesPicture,
      Still!SentInRange
<1>1. ASSUME NEW s \in Still!Settings, NEW v \in PictureInputs[s],
             Still!Set(s, v)
      PROVE  StillRange' /\ StillInv' /\ PictureInv'
  <2>1. v \in Int /\ (s = "brightness" => v >= 0)
    BY <1>1 DEF Still!StillInputs
  <2>2. /\ Still!Normalised(s, v) \in Int
        /\ s = "brightness" => Still!Normalised(s, v) \in 0 .. 100
        /\ s = "sharpness" => Still!Normalised(s, v) \in -100 .. 100
        /\ s = "rotation" => Still!Normalised(s, v) \in 0 .. 359
    <3>1. CASE s = "rotation"
      BY <2>1, <3>1 DEF Still!Normalised
    <3>2. CASE s # "rotation"
      BY <2>1, <3>2 DEF Still!Normalised
    <3> QED
      BY <3>1, <3>2
  <2>3. stillState' = [stillState EXCEPT ![s] = Still!Normalised(s, v)]
    BY <1>1 DEF Still!Set
  <2>4. /\ changedSettings' /\ ~astray' /\ opening = "no"
        /\ UNCHANGED <<isInitialized, stillCamera, encoder_output_port,
                       opening, stillHw, picture>>
    BY <1>1 DEF Still!Set
  <2>5. StillRange'
    BY <2>2, <2>3, <2>4 DEF StillRange, Still!Settings
  <2> QED
    BY <2>4, <2>5 DEF StillInv
<1>2. CASE Still!CommitParameters
  <2>1. /\ opening = "no" /\ ~changedSettings'
        /\ stillHw' = Still!Commit(stillHw)
        /\ ~astray' => ~astray /\ (changedSettings => isInitialized)
        /\ UNCHANGED <<isInitialized, stillCamera, encoder_output_port,
                       opening, stillState, picture>>
    BY <1>2, Zenon DEF Still!CommitParameters
  <2>2. StillRange'
    BY <2>1, CommitSends DEF StillRange
  <2>3. StillInv'
    BY <2>1, CommitSends DEF StillInv, StillRange, Still!Sent
  <2> QED
    BY <2>1, <2>2, <2>3
<1>3. CASE Still!CreateCamera
  <2> DEFINE new == Still!Keeping(Still!EncoderSettings)
  <2>1. /\ ~isInitialized /\ opening = "no" /\ opening' = "camera"
        /\ stillCamera' /\ ~changedSettings' /\ stillHw' = Still!Commit(new)
        /\ UNCHANGED <<isInitialized, encoder_output_port, stillState, astray,
                       picture>>
    BY <1>3 DEF Still!CreateCamera
  <2>2. /\ DOMAIN new = Still!Settings
        /\ \A s \in Still!Settings : new[s] = Still!Unset \/ InRange(s, new[s])
    BY KeepingRange
  <2> HIDE DEF new
  <2>3. StillRange'
    BY <2>1, <2>2, CommitSends DEF StillRange
  <2>4. ~astray => changedSettings
    BY <2>1 DEF StillInv
  <2>5. StillInv'
    BY <2>1, <2>2, <2>4, CommitSends DEF StillInv, StillRange, Still!Sent
  <2> QED
    BY <2>1, <2>3, <2>5
<1>4. CASE Still!CreateEncoder
  <2> DEFINE new == Still!Keeping(Still!CameraSettings)
  <2>1. /\ opening = "encoder" /\ opening' = "connect"
        /\ encoder_output_port' = "port"
        /\ stillHw' = [new EXCEPT !["encoding"] =
                         Still!Sent("encoding", stillState)]
        /\ UNCHANGED <<isInitialized, stillCamera, changedSettings, stillState,
                       astray, picture>>
    BY <1>4 DEF Still!CreateEncoder
  <2>2. /\ DOMAIN new = Still!Settings
        /\ \A s \in Still!Settings : new[s] = Still!Unset \/ InRange(s, new[s])
        /\ \A s \in Still!CameraSettings : new[s] = stillHw[s]
    BY KeepingRange DEF Still!CameraSettings
  <2> HIDE DEF new
  <2>3. /\ DOMAIN stillHw' = Still!Settings
        /\ stillHw'["encoding"] = Still!Sent("encoding", stillState)
        /\ \A s \in Still!Settings : s # "encoding" => stillHw'[s] = new[s]
    BY <2>1, <2>2 DEF Still!Settings
  <2>4. \A s \in Still!CameraSettings :
          s # "encoding" /\ s \in Still!Settings
    BY DEF Still!CameraSettings, Still!EncoderSettings
  <2>5. StillRange'
    BY <2>1, <2>2, <2>3 DEF StillRange, InRange, Still!Settings
  <2>6. /\ ~isInitialized /\ ~changedSettings
        /\ ~astray => \A s \in Still!CameraSettings :
             stillHw[s] = Still!Sent(s, stillState)
    BY <2>1 DEF StillInv
  <2>7. \A s \in Still!Settings :
          Still!Sent(s, stillState') = Still!Sent(s, stillState)
    BY <2>1
  <2>8. StillInv'
    BY <2>1, <2>2, <2>3, <2>4, <2>6, <2>7 DEF StillInv, Still!Settings
  <2> QED
    BY <2>1, <2>5, <2>8
<1>5. CASE Still!CreateCameraFails
  <2>1. /\ stillHw' = Still!Keeping(Still!EncoderSettings)
        /\ ~isInitialized /\ opening = "no"
        /\ UNCHANGED <<isInitialized, encoder_output_port, changedSettings,
                       opening, stillState, astray, picture>>
    BY <1>5 DEF Still!CreateCameraFails
  <2>2. StillRange'
    BY <2>1, KeepingRange DEF StillRange
  <2> QED
    BY <2>1, <2>2 DEF StillInv
<1>6. CASE Still!SetUpCamera
  BY <1>6 DEF Still!SetUpCamera, StillRange, StillInv
<1>7. CASE Still!SetUpCameraFails \/ Still!CreateEncoderFails
  <2>1. /\ opening # "no" /\ opening' = "no" /\ astray'
        /\ \E kept : stillHw' = Still!Keeping(kept)
        /\ UNCHANGED <<isInitialized, changedSettings, stillState, picture>>
    BY <1>7 DEF Still!SetUpCameraFails, Still!CreateEncoderFails
  <2>2. StillRange'
    BY <2>1, KeepingRange DEF StillRange
  <2> QED
    BY <2>1, <2>2 DEF StillInv
<1>8. CASE Still!ConnectPorts
  BY <1>8 DEF Still!ConnectPorts, StillRange, StillInv
<1>9. CASE Still!ConnectPortsFails
  BY <1>9 DEF Still!ConnectPortsFails, StillRange, StillInv
<1>10. CASE Still!TakePicture
  <2>1. /\ isInitialized /\ ~changedSettings'
        /\ stillHw' = Still!Commit(stillHw)
        /\ picture' = [asked |-> [s \in Still!Settings |->
                                    Still!Sent(s, stillState)],
                       got |-> stillHw', astray |-> astray]
        /\ UNCHANGED <<isInitialized, stillCamera, encoder_output_port,
                       opening, stillState, astray>>
    BY <1>10 DEF Still!TakePicture
  <2>2. StillRange'
    BY <2>1, CommitSends DEF StillRange
  <2>3. StillInv'
    BY <2>1, CommitSends DEF StillInv, StillRange, Still!Sent
  <2>4. /\ picture'.got = stillHw' /\ DOMAIN picture'.asked = Still!Settings
        /\ picture'.astray = astray'
        /\ \A s \in Still!Settings :
             picture'.asked[s] = Still!Sent(s, stillState')
    BY <2>1
  <2>5. Still!SettingsReachUnlessAstray'
    BY <2>1, <2>3, <2>4 DEF StillInv, Still!CameraSettings
  <2>6. Still!EncodingReachesPicture'
    BY <2>1, <2>3, <2>4 DEF StillInv
  <2>7. Still!SentInRange'
    BY <2>2, <2>4 DEF StillRange, InRange, Still!Settings
  <2> QED
    BY <2>2, <2>3, <2>5, <2>6, <2>7
<1>11. CASE UNCHANGED Still!vars
  BY <1>11 DEF Still!vars, StillRange, StillInv
<1> HIDE DEF PictureInv, Still!SettingsReachUnlessAstray,
      Still!SettingsReachPicture, Still!EncodingReachesPicture,
      Still!SentInRange
<1> QED
  BY <1>1, <1>2, <1>3, <1>4, <1>5, <1>6, <1>7, <1>8, <1>9, <1>10, <1>11
     DEF Still!Next

\* The setters, commitParameters, initialize and takePicture of the still
\* camera: whatever was set when, and wherever attempts to open it failed, a
\* picture is taken with the encoding set last, in range, and with every setting
\* of the camera as it was set last, unless the last change was sent to the
\* components of an attempt that then failed.
THEOREM PictureTheorem == AppSpec => []PictureAsSet
<1>1. Still!Init => StillRange /\ StillInv /\ PictureInv
  BY DEF Still!Init, Still!Default, Still!Settings, StillRange,
      StillInv, PictureInv, Still!SettingsReachUnlessAstray,
      Still!SettingsReachPicture, Still!EncodingReachesPicture,
      Still!SentInRange
<1>2. StillRange /\ StillInv /\ PictureInv /\ [Still!Next]_(Still!vars)
        => StillRange' /\ StillInv' /\ PictureInv'
  BY MCRaspicamConstants, StillStepInv
<1>3. PictureInv => PictureAsSet
  BY DEF PictureInv, PictureAsSet
<1> QED
  BY <1>1, <1>2, <1>3, StillPart, PTL DEF Still!Spec

\* A quotient and a remainder are what they were made of.
LEMMA DivModUnique ==
  ASSUME NEW a \in Nat \ {0}, NEW q \in Nat, NEW r \in 0 .. a - 1
  PROVE  (q * a + r) \div a = q /\ (q * a + r) % a = r
  OBVIOUS

\* A byte of a row and column within an area is within the area.
LEMMA RowInArea ==
  ASSUME NEW rows \in Nat, NEW cols \in Nat, NEW q \in 0 .. rows - 1,
         NEW r \in 0 .. cols - 1
  PROVE  q * cols + r \in 0 .. rows * cols - 1
  OBVIOUS

\* And a byte of an area has its row and column within.
LEMMA RowOfByte ==
  ASSUME NEW rows \in Nat, NEW cols \in Nat, NEW k \in 0 .. rows * cols - 1
  PROVE  /\ cols > 0
         /\ k \div cols \in 0 .. rows - 1 /\ k % cols \in 0 .. cols - 1
<1>1. cols > 0
  OBVIOUS
<1>2. k \div cols \in 0 .. rows - 1
  BY <1>1
<1> QED
  BY <1>1, <1>2

\* VCOS_ALIGN_UP: the next multiple of an even number, which is even.
LEMMA BlockOf ==
  ASSUME NEW n \in Nat, NEW m \in Nat \ {0}
  PROVE  /\ Frame!AlignUp(n, 2 * m) \in Nat
         /\ Frame!AlignUp(n, 2 * m) >= n
         /\ \E x \in Nat : Frame!AlignUp(n, 2 * m) = 2 * x
         /\ Frame!AlignUp(n, 2 * m) = n <=> n % (2 * m) = 0
<1> DEFINE q == (n + (2 * m) - 1) \div (2 * m)
<1>1. /\ q \in Nat /\ q * (2 * m) <= n + 2 * m - 1
      /\ n + 2 * m - 1 < q * (2 * m) + 2 * m
  OBVIOUS
<1>2. /\ Frame!AlignUp(n, 2 * m) = q * (2 * m)
      /\ q * (2 * m) = 2 * (q * m) /\ q * m \in Nat
  BY DEF Frame!AlignUp
<1> HIDE DEF q
<1>3. Frame!AlignUp(n, 2 * m) = n => n % (2 * m) = 0
  <2>1. (q * (2 * m) + 0) % (2 * m) = 0
    <3>1. 2 * m \in Nat \ {0} /\ 0 \in 0 .. 2 * m - 1
      OBVIOUS
    <3> QED
      BY ONLY <1>1, <3>1, DivModUnique
  <2>2. q * (2 * m) + 0 = q * (2 * m)
    BY <1>1
  <2> QED
    BY ONLY <1>2, <2>1, <2>2, Zenon
<1>4. n % (2 * m) = 0 => Frame!AlignUp(n, 2 * m) = n
  <2> SUFFICES ASSUME n % (2 * m) = 0
               PROVE  q * (2 * m) = n
    BY <1>2
  <2> DEFINE p == n \div (2 * m)
  <2>1. p \in Nat /\ n = p * (2 * m)
    OBVIOUS
  <2> HIDE DEF p
  <2>2. p = q
    BY <1>1, <2>1
  <2> QED
    BY <2>1, <2>2
<1> QED
  BY <1>1, <1>2, <1>3, <1>4

\* The sizes of blocks are multiples of 2.
LEMMA BlockSize ==
  ASSUME Frame!FrameSizes, NEW n \in Nat, NEW a \in {AlignW, AlignH}
  PROVE  /\ Frame!AlignUp(n, a) \in Nat /\ Frame!AlignUp(n, a) >= n
         /\ \E x \in Nat : Frame!AlignUp(n, a) = 2 * x
         /\ Frame!AlignUp(n, a) = n <=> n % a = 0
<1>1. PICK m \in Nat \ {0} : a = 2 * m
  <2>1. CASE a = AlignW
    <3>1. PICK m \in 1 .. 16 : a = 2 * m
      BY <2>1 DEF Frame!FrameSizes
    <3> QED
      BY <3>1
  <2>2. CASE a = AlignH
    <3>1. PICK m \in 1 .. 8 : a = 2 * m
      BY <2>2 DEF Frame!FrameSizes
    <3> QED
      BY <3>1
  <2> QED
    BY <2>1, <2>2
<1> QED
  BY <1>1, BlockOf, Zenon

-----------------------------------------------------------------------------
(* The layout of frames: what is stored of a frame shows its image.        *)

\* The byte i of the plane p that follows an area of n bytes.
LEMMA ByteOfPlane ==
  ASSUME NEW n \in Nat, NEW c \in Nat, NEW p \in {0, 1},
         NEW i \in 0 .. c - 1, NEW k, k = n + p * c + i
  PROVE  /\ k \in 0 .. n + 2 * c - 1
         /\ ~(k < n) /\ k < n + 2 * c
         /\ (k - n) \div c = p
         /\ (k - n) % c = i
<1>1. c \in Nat \ {0} /\ p \in Nat /\ p * c \in Nat /\ p * c <= c
  <2>1. CASE p = 0
    BY <2>1
  <2>2. CASE p = 1
    BY <2>2
  <2> QED
    BY <2>1, <2>2
<1>2. (p * c + i) \div c = p /\ (p * c + i) % c = i
  BY ONLY <1>1, DivModUnique, i \in 0 .. c - 1
<1> DEFINE x == p * c
<1>3. x \in Nat /\ x <= c /\ k = n + x + i
  BY <1>1
<1> HIDE DEF x
<1>4. /\ k - n = x + i /\ k \in 0 .. n + 2 * c - 1
      /\ ~(k < n) /\ k < n + 2 * c
  BY <1>1, <1>3
<1> QED
  BY <1>2, <1>4 DEF x

\* The bytes of each of the planes of half the sizes.
HalfArea(h, w) == (h \div 2) * (w \div 2)

\* They are a number of bytes.
LEMMA HalfIsNat ==
  ASSUME NEW h \in Nat, NEW w \in Nat
  PROVE  h \div 2 \in Nat /\ w \div 2 \in Nat /\ HalfArea(h, w) \in Nat
  BY DEF HalfArea

\* The bytes of an I420 area, plane by plane.
LEMMA I420Bytes ==
  ASSUME NEW h \in Nat, NEW w \in Nat
  PROVE  /\ DOMAIN Frame!I420(h, w) = 0 .. h * w + 2 * HalfArea(h, w) - 1
         /\ \A k \in 0 .. h * w - 1 :
              /\ k \in DOMAIN Frame!I420(h, w)
              /\ Frame!I420(h, w)[k] = <<0, k \div w, k % w>>
         /\ \A p \in {0, 1}, i \in 0 .. HalfArea(h, w) - 1 : \A k :
              k = h * w + p * HalfArea(h, w) + i =>
                /\ k \in DOMAIN Frame!I420(h, w)
                /\ Frame!I420(h, w)[k] =
                     <<1 + p, i \div (w \div 2), i % (w \div 2)>>
<1> DEFINE n == h * w
           c == HalfArea(h, w)
           cw == w \div 2
<1>1. n \in Nat /\ c \in Nat
  BY HalfIsNat
<1>2. Frame!I420(h, w) =
        [k \in 0 .. n + 2 * c - 1 |->
           IF k < n THEN <<0, k \div w, k % w>>
           ELSE <<1 + (k - n) \div c, ((k - n) % c) \div cw,
                  ((k - n) % c) % cw>>]
  BY DEF Frame!I420, HalfArea
<1> HIDE DEF n, c, cw
<1>3. ASSUME NEW k \in 0 .. n - 1
      PROVE  k \in 0 .. n + 2 * c - 1 /\ k < n
  BY <1>1
<1>4. ASSUME NEW p \in {0, 1}, NEW i \in 0 .. c - 1, NEW k,
             k = n + p * c + i
      PROVE  /\ k \in 0 .. n + 2 * c - 1
             /\ ~(k < n)
             /\ (k - n) \div c = p
             /\ (k - n) % c = i
  BY <1>1, <1>4, ByteOfPlane
<1>5. \A k \in 0 .. n - 1 :
        /\ k \in DOMAIN Frame!I420(h, w)
        /\ Frame!I420(h, w)[k] = <<0, k \div w, k % w>>
  BY <1>2, <1>3, Zenon
<1>6. ASSUME NEW p \in {0, 1}, NEW i \in 0 .. c - 1, NEW k,
             k = n + p * c + i
      PROVE  /\ k \in DOMAIN Frame!I420(h, w)
             /\ Frame!I420(h, w)[k] = <<1 + p, i \div cw, i % cw>>
  <2>1. /\ k \in 0 .. n + 2 * c - 1 /\ ~(k < n)
        /\ (k - n) \div c = p /\ (k - n) % c = i
    BY <1>4, <1>6
  <2>2. /\ k \in DOMAIN Frame!I420(h, w)
        /\ Frame!I420(h, w)[k] = <<1 + (k - n) \div c, ((k - n) % c) \div cw,
                                  ((k - n) % c) % cw>>
    BY <1>2, <2>1, Zenon
  <2> QED
    BY <2>1, <2>2, Zenon
<1>7. DOMAIN Frame!I420(h, w) = 0 .. n + 2 * c - 1
  BY <1>2, Zenon
<1> QED
  BY <1>5, <1>6, <1>7, Zenon DEF n, c, cw

\* A byte of an I420 area is of its first plane or of one of the others.
LEMMA I420Index ==
  ASSUME NEW n \in Nat, NEW c \in Nat, NEW k \in 0 .. n + 2 * c - 1
  PROVE  k \in 0 .. n - 1
         \/ \E p \in {0, 1}, i \in 0 .. c - 1 : k = n + p * c + i
<1>1. CASE k < n
  BY <1>1
<1>2. CASE n <= k /\ k < n + c
  <2>1. k - n \in 0 .. c - 1 /\ k = n + 0 * c + (k - n)
    BY <1>2
  <2> QED
    BY <2>1
<1>3. CASE n + c <= k
  <2>1. k - n - c \in 0 .. c - 1 /\ k = n + 1 * c + (k - n - c)
    BY <1>3
  <2> QED
    BY <2>1
<1> QED
  BY <1>1, <1>2, <1>3

\* The first plane of a frame, of any format: whole blocks of rows.
LEMMA FirstPlane ==
  ASSUME NEW fmt \in Frame!AllFormats, NEW bh \in Nat, NEW bw \in Nat,
         NEW w, NEW h, bw = Frame!AlignUp(w, AlignW),
         bh = Frame!AlignUp(h, AlignH)
  PROVE  \A k \in 0 .. bh * (bw * Frame!Bpp(fmt)) - 1 :
           /\ k \in DOMAIN Frame!Frame(fmt, w, h)
           /\ Frame!Frame(fmt, w, h)[k] =
                <<0, k \div (bw * Frame!Bpp(fmt)), k % (bw * Frame!Bpp(fmt))>>
<1>1. CASE fmt \in {"RGB", "BGR"}
  <2>1. Frame!Bpp(fmt) = 3 /\ 3 * bw = bw * 3
    BY <1>1 DEF Frame!Bpp
  <2>2. Frame!Frame(fmt, w, h) = Frame!Plane(bh, 3 * bw)
    BY <1>1, Zenon DEF Frame!Frame
  <2> QED
    BY <2>1, <2>2 DEF Frame!Plane
<1>2. CASE fmt \notin {"RGB", "BGR"}
  <2>1. Frame!Bpp(fmt) = 1 /\ bw * 1 = bw
    BY <1>2 DEF Frame!Bpp
  <2>2. Frame!Frame(fmt, w, h) = Frame!I420(bh, bw)
    BY <1>2, Zenon DEF Frame!Frame
  <2> QED
    <3>1. \A k \in 0 .. bh * bw - 1 :
            /\ k \in DOMAIN Frame!I420(bh, bw)
            /\ Frame!I420(bh, bw)[k] = <<0, k \div bw, k % bw>>
      BY I420Bytes
    <3>2. bw * Frame!Bpp(fmt) = bw
      BY <2>1
    <3> QED
      BY ONLY <2>2, <3>1, <3>2, Zenon
<1> QED
  BY <1>1, <1>2

\* The size of an image: its first plane and, for YUV420, the two others, or a
\* few bytes more when the height is odd.
LEMMA Sizes ==
  ASSUME NEW fmt \in Frame!AllFormats, NEW w \in Nat, NEW h \in Nat
  PROVE  /\ w * Frame!Bpp(fmt) \in Nat /\ h * (w * Frame!Bpp(fmt)) \in Nat
         /\ Frame!ImageTypeSize(fmt, w, h) \in Nat
         /\ fmt # "YUV420" =>
              Frame!ImageTypeSize(fmt, w, h) = h * (w * Frame!Bpp(fmt))
         /\ fmt = "YUV420" =>
              /\ w * Frame!Bpp(fmt) = w
              /\ h * w + 2 * HalfArea(h, w) <= Frame!ImageTypeSize(fmt, w, h)
<1>1. CASE fmt = "YUV420"
  <2>1. Frame!Bpp(fmt) = 1 /\ w * 1 = w /\ h * w \in Nat
    BY <1>1 DEF Frame!Bpp
  <2>2. Frame!ImageTypeSize(fmt, w, h) = w * h + 2 * (((w \div 2) * h) \div 2)
    BY <1>1 DEF Frame!ImageTypeSize
  <2>3. /\ (w \div 2) * (h \div 2) <= ((w \div 2) * h) \div 2
        /\ ((w \div 2) * h) \div 2 \in Nat
        /\ HalfArea(h, w) = (w \div 2) * (h \div 2)
    BY DEF HalfArea
  <2>4. HalfArea(h, w) \in Nat
    BY HalfIsNat
  <2>5. w * h = h * w
    OBVIOUS
  <2> QED
    BY <1>1, <2>1, <2>2, <2>3, <2>4, <2>5
<1>2. CASE fmt = "GRAY"
  BY <1>2 DEF Frame!ImageTypeSize, Frame!Bpp
<1>3. CASE fmt \in {"RGB", "BGR"}
  <2>1. 3 * w * h = h * (w * 3) /\ w * 3 \in Nat /\ h * (w * 3) \in Nat
    OBVIOUS
  <2>2. Frame!Bpp(fmt) = 3 /\ Frame!ImageTypeSize(fmt, w, h) = 3 * w * h
    BY <1>3 DEF Frame!ImageTypeSize, Frame!Bpp
  <2> QED
    BY <1>3, <2>1, <2>2
<1> QED
  BY <1>1, <1>2, <1>3 DEF Frame!AllFormats

\* The offsets the copy reads in the camera's frame: of byte k of the first
\* plane, and of byte i of the plane p after it.
FirstOffset(fmt, w, k) ==
  (k \div (w * Frame!Bpp(fmt))) * (Frame!AlignUp(w, AlignW) * Frame!Bpp(fmt))
  + (k % (w * Frame!Bpp(fmt)))
OtherOffset(w, h, p, i) ==
  Frame!AlignUp(h, AlignH) * Frame!AlignUp(w, AlignW)
  + p * HalfArea(Frame!AlignUp(h, AlignH), Frame!AlignUp(w, AlignW))
  + ((i \div (w \div 2)) * (Frame!AlignUp(w, AlignW) \div 2)
     + (i % (w \div 2)))

\* What an area holds that the callback has stored from data, when the width
\* needs padding and the rows of the image have row bytes.
StoredAs(area, data, fmt, w, h, row) ==
  /\ DOMAIN area = 0 .. Frame!ImageTypeSize(fmt, w, h) - 1
  /\ \A k \in DOMAIN area :
       /\ k < h * row => area[k] = Frame!Read(data, FirstOffset(fmt, w, k))
       /\ k >= h * row + 2 * HalfArea(h, w) => area[k] = Unwritten
       /\ \A p \in {0, 1}, i \in 0 .. HalfArea(h, w) - 1 :
            k = h * row + p * HalfArea(h, w) + i =>
              area[k] = Frame!Read(data, OtherOffset(w, h, p, i))

\* Which is what video_buffer_callback stores.
LEMMA StoredBytes ==
  ASSUME NEW data, NEW fmt \in Frame!AllFormats, NEW w \in Nat, NEW h \in Nat,
         Frame!AlignUp(w, AlignW) # w
  PROVE  StoredAs(Frame!Stored(data, fmt, w, h), data, fmt, w, h,
                  w * Frame!Bpp(fmt))
<1> DEFINE n == h * (w * Frame!Bpp(fmt))
           c == HalfArea(h, w)
           size == Frame!ImageTypeSize(fmt, w, h)
           area == Frame!Stored(data, fmt, w, h)
           At(p, j) == Frame!Read(data, OtherOffset(w, h, p, j))
           First(k) == Frame!Read(data, FirstOffset(fmt, w, k))
<1>1. n \in Nat /\ c \in Nat
  <2>1. n \in Nat
    BY Sizes
  <2> QED
    BY <2>1, HalfIsNat
<1>2. area =
        [k \in 0 .. size - 1 |->
           IF k < n THEN First(k)
           ELSE IF k < n + 2 * c THEN At((k - n) \div c, (k - n) % c)
           ELSE Unwritten]
  BY Zenon DEF Frame!Stored, HalfArea, FirstOffset, OtherOffset
<1> HIDE DEF area, n, c, size, At, First
<1>3. DOMAIN area = 0 .. size - 1
  BY <1>2, Zenon
<1>4. ASSUME NEW k \in 0 .. size - 1, k < n
      PROVE  area[k] = First(k)
  BY <1>2, <1>4, Zenon
<1>5. ASSUME NEW k \in 0 .. size - 1, k >= n + 2 * c
      PROVE  area[k] = Unwritten
  <2>1. ~(k < n) /\ ~(k < n + 2 * c)
    <3>1. k \in Int
      OBVIOUS
    <3> QED
      BY <1>1, <1>5, <3>1
  <2> QED
    BY <1>2, <2>1, Zenon
<1>6. ASSUME NEW p \in {0, 1}, NEW i \in 0 .. c - 1, NEW k,
             k = n + p * c + i
      PROVE  /\ ~(k < n) /\ k < n + 2 * c
             /\ (k - n) \div c = p
             /\ (k - n) % c = i
  BY ONLY <1>1, <1>6, ByteOfPlane
<1>7. /\ DOMAIN area = 0 .. size - 1
      /\ \A k \in DOMAIN area :
           /\ k < n => area[k] = First(k)
           /\ k >= n + 2 * c =>
                area[k] = Unwritten
           /\ \A p \in {0, 1}, i \in 0 .. c - 1 :
                k = n + p * c + i =>
                  area[k] = At(p, i)
  <2>1. ASSUME NEW p \in {0, 1}, NEW i \in 0 .. c - 1, NEW k,
               k \in 0 .. size - 1, k = n + p * c + i
        PROVE  area[k] = At(p, i)
    BY <1>2, <1>6, <2>1, Zenon
  <2> QED
    BY <1>3, <1>4, <1>5, <2>1, Zenon
<1> QED
  BY <1>7, Zenon DEF StoredAs, area, n, c, size, At, First

\* A byte of a small area, moved to its row and column in a big one.
LEMMA Moved ==
  ASSUME NEW rows \in Nat, NEW cols \in Nat, NEW brows \in Nat,
         NEW bcols \in Nat, rows <= brows, cols <= bcols,
         NEW i \in 0 .. rows * cols - 1, NEW j,
         j = (i \div cols) * bcols + (i % cols)
  PROVE  /\ j \in 0 .. brows * bcols - 1
         /\ j \div bcols = i \div cols /\ j % bcols = i % cols
<1> DEFINE q == i \div cols
           r == i % cols
<1>1. q \in 0 .. rows - 1 /\ r \in 0 .. cols - 1
  BY RowOfByte
<1> HIDE DEF q, r
<1>2. /\ q \in 0 .. brows - 1 /\ r \in 0 .. bcols - 1
      /\ q \in Nat /\ bcols \in Nat \ {0}
  BY <1>1
<1>3. q * bcols + r \in 0 .. brows * bcols - 1
  BY <1>2, RowInArea
<1>4. (q * bcols + r) \div bcols = q /\ (q * bcols + r) % bcols = r
  BY <1>2, DivModUnique
<1>5. j = q * bcols + r
  BY DEF q, r
<1> QED
  BY <1>3, <1>4, <1>5, Zenon DEF q, r

\* An area has the bytes of the image in their places: the rows of the first
\* plane, of row bytes each, and for YUV420 the two other planes after them.
InPlace(area, fmt, w, h, row) ==
  /\ \A k \in 0 .. h * row - 1 :
       k \in DOMAIN area /\ area[k] = <<0, k \div row, k % row>>
  /\ fmt = "YUV420" =>
       \A p \in {0, 1}, i \in 0 .. HalfArea(h, w) - 1 : \A k :
         k = h * row + p * HalfArea(h, w) + i =>
           /\ k \in DOMAIN area
           /\ area[k] = <<1 + p, i \div (w \div 2), i % (w \div 2)>>

\* An offset is one of those bytes'.
OfImage(k, fmt, w, h, row) ==
  \/ k \in 0 .. h * row - 1
  \/ /\ fmt = "YUV420"
     /\ \E p \in {0, 1}, i \in 0 .. HalfArea(h, w) - 1 :
          k = h * row + p * HalfArea(h, w) + i

\* The bytes of the image are those, and in their places.
LEMMA ImageBytes ==
  ASSUME NEW fmt \in Frame!AllFormats, NEW w \in Nat, NEW h \in Nat
  PROVE  /\ InPlace(Frame!Image(fmt, w, h), fmt, w, h, w * Frame!Bpp(fmt))
         /\ \A k \in DOMAIN Frame!Image(fmt, w, h) :
              OfImage(k, fmt, w, h, w * Frame!Bpp(fmt))
<1> DEFINE row == w * Frame!Bpp(fmt)
<1>0. row \in Nat
  BY Sizes
<1>1. CASE fmt = "YUV420"
  <2>1. Frame!Image(fmt, w, h) = Frame!I420(h, w)
    BY <1>1 DEF Frame!Image
  <2>2. row = w
    BY <1>1, Sizes
  <2>3. h * w \in Nat /\ HalfArea(h, w) \in Nat
    <3>1. h * w \in Nat
      OBVIOUS
    <3> QED
      BY <3>1, HalfIsNat
  <2>4. \A k \in 0 .. h * w + 2 * HalfArea(h, w) - 1 :
          \/ k \in 0 .. h * w - 1
          \/ \E p \in {0, 1}, i \in 0 .. HalfArea(h, w) - 1 :
               k = h * w + p * HalfArea(h, w) + i
    BY <2>3, I420Index
  <2>5. /\ DOMAIN Frame!I420(h, w) = 0 .. h * w + 2 * HalfArea(h, w) - 1
        /\ \A k \in 0 .. h * w - 1 :
             /\ k \in DOMAIN Frame!I420(h, w)
             /\ Frame!I420(h, w)[k] = <<0, k \div w, k % w>>
        /\ \A p \in {0, 1}, i \in 0 .. HalfArea(h, w) - 1 : \A k :
             k = h * w + p * HalfArea(h, w) + i =>
               /\ k \in DOMAIN Frame!I420(h, w)
               /\ Frame!I420(h, w)[k] =
                    <<1 + p, i \div (w \div 2), i % (w \div 2)>>
    BY I420Bytes, Zenon
  <2> HIDE DEF row
  <2> QED
    BY ONLY <1>1, <2>1, <2>2, <2>4, <2>5, Zenon DEF InPlace, OfImage, row
<1>2. CASE fmt # "YUV420"
  <2>1. Frame!Image(fmt, w, h) = Frame!Plane(h, row)
    BY <1>2 DEF Frame!Image
  <2> HIDE DEF row
  <2>2. /\ DOMAIN Frame!Plane(h, row) = 0 .. h * row - 1
        /\ \A k \in 0 .. h * row - 1 :
             Frame!Plane(h, row)[k] = <<0, k \div row, k % row>>
    BY DEF Frame!Plane
  <2>3. /\ InPlace(Frame!Image(fmt, w, h), fmt, w, h, row)
        /\ \A k \in DOMAIN Frame!Image(fmt, w, h) : OfImage(k, fmt, w, h, row)
    BY <1>2, <2>1, <2>2, Zenon DEF InPlace, OfImage
  <2> QED
    BY <2>3 DEF row
<1> QED
  BY <1>1, <1>2

\* An area has the size of the image, and nothing was written into what is
\* left of it after the planes.
SizedAs(area, fmt, w, h, row) ==
  /\ DOMAIN area = 0 .. Frame!ImageTypeSize(fmt, w, h) - 1
  /\ \A k \in DOMAIN area :
       k >= h * row + 2 * HalfArea(h, w) => area[k] = Unwritten

\* What the callback stores of a frame whose width needs padding: the rows of
\* the image, then for YUV420 its two other planes.
LEMMA PaddedBytes ==
  ASSUME Frame!FrameSizes, NEW fmt \in Frame!AllFormats, NEW w \in Nat,
         NEW h \in Nat, NEW row \in Nat, row = w * Frame!Bpp(fmt), NEW area,
         area = Frame!Stored(Frame!Frame(fmt, w, h), fmt, w, h),
         Frame!AlignUp(w, AlignW) # w
  PROVE  SizedAs(area, fmt, w, h, row) /\ InPlace(area, fmt, w, h, row)
<1> DEFINE bw == Frame!AlignUp(w, AlignW)
           bh == Frame!AlignUp(h, AlignH)
           data == Frame!Frame(fmt, w, h)
           n == h * row
           c == HalfArea(h, w)
           size == Frame!ImageTypeSize(fmt, w, h)
           bpp == Frame!Bpp(fmt)
<1>1. bw \in Nat /\ bh \in Nat /\ bw >= w /\ bh >= h /\ bw # w
  BY BlockSize
<1>0. bw = Frame!AlignUp(w, AlignW) /\ bh = Frame!AlignUp(h, AlignH)
  OBVIOUS
<1>2. /\ n \in Nat /\ c \in Nat /\ size \in Nat /\ n <= size /\ bpp \in {1, 3}
      /\ fmt = "YUV420" => row = w /\ n + 2 * c <= size
  <2>1. bpp \in {1, 3}
    BY DEF Frame!Bpp
  <2>2. c \in Nat
    BY HalfIsNat
  <2>3. n \in Nat /\ size \in Nat
    BY Sizes
  <2>4. fmt = "YUV420" => row = w /\ n + 2 * c <= size
    BY Sizes
  <2>5. n <= size
    <3>1. CASE fmt = "YUV420"
      <4> HIDE DEF n, c, size
      <4> QED
        BY <2>2, <2>3, <2>4, <3>1
    <3>2. CASE fmt # "YUV420"
      <4>1. size = n
        BY <3>2, Sizes
      <4> HIDE DEF n, size
      <4> QED
        BY <2>3, <4>1
    <3> QED
      BY <3>1, <3>2
  <2> QED
    BY <2>1, <2>2, <2>3, <2>4, <2>5
<1>3. /\ DOMAIN area = 0 .. size - 1
      /\ \A k \in DOMAIN area :
           /\ k < n => area[k] = Frame!Read(data, FirstOffset(fmt, w, k))
           /\ k >= n + 2 * c => area[k] = Unwritten
           /\ \A p \in {0, 1}, i \in 0 .. c - 1 :
                k = n + p * c + i =>
                  area[k] = Frame!Read(data, OtherOffset(w, h, p, i))
  <2>1. StoredAs(area, data, fmt, w, h, row)
    BY StoredBytes
  <2> QED
    BY <2>1, Zenon DEF StoredAs
<1>4. \A k \in 0 .. bh * (bw * bpp) - 1 :
        k \in DOMAIN data
        /\ data[k] = <<0, k \div (bw * bpp), k % (bw * bpp)>>
  <2> HIDE DEF bw, bh
  <2> QED
    BY <1>0, <1>1, FirstPlane
<1>5. \A k \in 0 .. n - 1 :
        k \in DOMAIN area /\ area[k] = <<0, k \div row, k % row>>
  <2> SUFFICES ASSUME NEW k \in 0 .. n - 1
               PROVE  k \in DOMAIN area /\ area[k] = <<0, k \div row, k % row>>
    OBVIOUS
  <2> DEFINE j == (k \div row) * (bw * bpp) + (k % row)
  <2>1. k \in 0 .. size - 1 /\ k < n
    BY <1>2
  <2>2. bw * bpp \in Nat /\ row <= bw * bpp
    BY <1>1, <1>2
  <2>3. /\ j \in 0 .. bh * (bw * bpp) - 1
        /\ j \div (bw * bpp) = k \div row /\ j % (bw * bpp) = k % row
    <3> DEFINE cols == bw * bpp
    <3>1. cols \in Nat /\ row <= cols /\ j = (k \div row) * cols + (k % row)
      BY <2>2
    <3> HIDE DEF cols, j, bw, bh
    <3>2. /\ j \in 0 .. bh * cols - 1
          /\ j \div cols = k \div row /\ j % cols = k % row
      BY ONLY <1>1, <3>1, h \in Nat, row \in Nat, k \in 0 .. h * row - 1,
         Moved
    <3> QED
      BY <3>2 DEF cols
  <2>4. area[k] = Frame!Read(data, j)
    <3>1. FirstOffset(fmt, w, k) = j
      BY DEF FirstOffset
    <3> QED
      BY <1>3, <2>1, <3>1, Zenon
  <2> HIDE DEF j
  <2>5. j \in DOMAIN data /\ data[j] = <<0, k \div row, k % row>>
    BY <1>4, <2>3, Zenon
  <2> QED
    BY <1>3, <2>1, <2>4, <2>5, Zenon DEF Frame!Read
<1>6. ASSUME fmt = "YUV420", NEW p \in {0, 1}, NEW i \in 0 .. c - 1, NEW k,
             k = n + p * c + i
      PROVE  /\ k \in DOMAIN area
             /\ area[k] = <<1 + p, i \div (w \div 2), i % (w \div 2)>>
  <2> DEFINE j == (i \div (w \div 2)) * (bw \div 2) + (i % (w \div 2))
             b == HalfArea(bh, bw)
             m == bh * bw + p * b + j
  <2>1. k \in 0 .. n + 2 * c - 1
    BY <1>2, <1>6, ByteOfPlane
  <2>2. k \in 0 .. size - 1
    BY <1>2, <1>6, <2>1
  <2>3. area[k] = Frame!Read(data, m)
    <3>1. OtherOffset(w, h, p, i) = m
      BY DEF OtherOffset
    <3>2. k \in DOMAIN area
      BY <1>3, <2>2, Zenon
    <3> HIDE DEF n, c, m, size
    <3>3. area[k] = Frame!Read(data, OtherOffset(w, h, p, i))
      BY ONLY <1>3, <1>6, <3>2, p \in {0, 1}, i \in 0 .. c - 1, Zenon
    <3> QED
      BY <3>1, <3>3, Zenon
  <2>4. /\ w \div 2 \in Nat /\ h \div 2 \in Nat /\ bw \div 2 \in Nat
        /\ bh \div 2 \in Nat /\ w \div 2 <= bw \div 2 /\ h \div 2 <= bh \div 2
    BY <1>1
  <2>5. /\ j \in 0 .. (bh \div 2) * (bw \div 2) - 1
        /\ j \div (bw \div 2) = i \div (w \div 2)
        /\ j % (bw \div 2) = i % (w \div 2)
    <3>1. i \in 0 .. (h \div 2) * (w \div 2) - 1
      BY DEF HalfArea
    <3> DEFINE bch == bh \div 2
               bcw == bw \div 2
               ch == h \div 2
               cw == w \div 2
    <3>2. j = (i \div cw) * bcw + (i % cw)
      OBVIOUS
    <3> HIDE DEF bch, bcw, ch, cw, j
    <3>3. /\ cw \in Nat /\ ch \in Nat /\ bcw \in Nat /\ bch \in Nat
          /\ cw <= bcw /\ ch <= bch /\ i \in 0 .. ch * cw - 1
      BY <2>4, <3>1 DEF bch, bcw, ch, cw
    <3>4. /\ j \in 0 .. bch * bcw - 1
          /\ j \div bcw = i \div cw /\ j % bcw = i % cw
      BY <3>2, <3>3, Moved
    <3> QED
      BY <3>4 DEF bch, bcw, ch, cw
  <2>6. j \in 0 .. b - 1
    BY <2>5 DEF HalfArea
  <2>7. data = Frame!I420(bh, bw)
    BY <1>6, Zenon DEF Frame!Frame
  <2>8. \A q \in 0 .. b - 1 : \A x :
          x = bh * bw + p * b + q =>
            /\ x \in DOMAIN Frame!I420(bh, bw)
            /\ Frame!I420(bh, bw)[x] =
                 <<1 + p, q \div (bw \div 2), q % (bw \div 2)>>
    BY <1>1, I420Bytes, Zenon
  <2> HIDE DEF j, b, data
  <2>9. /\ m \in DOMAIN data
        /\ data[m] = <<1 + p, i \div (w \div 2), i % (w \div 2)>>
    BY <2>5, <2>6, <2>7, <2>8, Zenon
  <2> QED
    BY <1>3, <2>2, <2>3, <2>9, Zenon DEF Frame!Read
<1>7. \A k \in DOMAIN area : k >= n + 2 * c => area[k] = Unwritten
  BY <1>3, Zenon
<1>8. InPlace(area, fmt, w, h, row)
  BY <1>5, <1>6, Zenon DEF InPlace
<1> QED
  BY <1>3, <1>7, <1>8, Zenon DEF SizedAs

\* What retrieve may copy: as many bytes as the image has, none of them from
\* outside the frame.
Readable(area, fmt, w, h) ==
  \A k \in 0 .. Frame!ImageTypeSize(fmt, w, h) - 1 :
    k \in DOMAIN area /\ area[k] # Outside

\* A stored frame whose width needs padding shows the image and is readable.
LEMMA PaddedShows ==
  ASSUME Frame!FrameSizes, Frame!FrameMarks, NEW fmt \in Frame!AllFormats,
         NEW w \in Nat, NEW h \in Nat, NEW area,
         area = Frame!Stored(Frame!Frame(fmt, w, h), fmt, w, h),
         Frame!AlignUp(w, AlignW) # w
  PROVE  Frame!Shows(area, fmt, w, h) /\ Readable(area, fmt, w, h)
<1> DEFINE row == w * Frame!Bpp(fmt)
           n == h * row
           c == HalfArea(h, w)
           size == Frame!ImageTypeSize(fmt, w, h)
           cw == w \div 2
           img == Frame!Image(fmt, w, h)
<1>1. /\ row \in Nat /\ n \in Nat /\ c \in Nat /\ size \in Nat /\ cw \in Nat
      /\ fmt # "YUV420" => size = n
  <2>1. c \in Nat /\ cw \in Nat
    BY HalfIsNat
  <2> QED
    BY <2>1, Sizes
<1>2. /\ DOMAIN area = 0 .. size - 1 /\ InPlace(area, fmt, w, h, row)
      /\ \A k \in DOMAIN area : k >= n + 2 * c => area[k] = Unwritten
  <2>1. SizedAs(area, fmt, w, h, row) /\ InPlace(area, fmt, w, h, row)
    BY <1>1, PaddedBytes
  <2> QED
    BY <2>1, Zenon DEF SizedAs
<1>3. /\ InPlace(img, fmt, w, h, row)
      /\ \A k \in DOMAIN img : OfImage(k, fmt, w, h, row)
  BY ImageBytes
<1>4. \A q \in Nat, x \in Nat, y \in Nat :
        q \in 0 .. 2 => <<q, x, y>> # Outside
  BY DEF Frame!FrameMarks
<1>5. Unwritten # Outside
  BY DEF Frame!FrameMarks
<1> HIDE DEF row, n, c, size, cw, img
<1>6. \A k \in DOMAIN img : k \in DOMAIN area /\ area[k] = img[k]
  <2> SUFFICES ASSUME NEW k \in DOMAIN img
               PROVE  k \in DOMAIN area /\ area[k] = img[k]
    OBVIOUS
  <2>1. OfImage(k, fmt, w, h, row)
    BY <1>3
  <2>2. CASE k \in 0 .. h * row - 1
    BY <1>2, <1>3, <2>2, Zenon DEF InPlace
  <2>3. CASE fmt = "YUV420" /\ \E p \in {0, 1}, i \in 0 .. HalfArea(h, w) - 1 :
                                k = h * row + p * HalfArea(h, w) + i
    <3>1. PICK p \in {0, 1}, i \in 0 .. HalfArea(h, w) - 1 :
            k = h * row + p * HalfArea(h, w) + i
      BY <2>3
    <3> DEFINE byte == <<1 + p, i \div (w \div 2), i % (w \div 2)>>
    <3>2. k \in DOMAIN area /\ area[k] = byte
      BY <1>2, <2>3, <3>1, Zenon DEF InPlace
    <3>3. img[k] = byte
      BY <1>3, <2>3, <3>1, Zenon DEF InPlace
    <3> QED
      BY <3>2, <3>3, Zenon
  <2> QED
    BY <2>1, <2>2, <2>3, Zenon DEF OfImage
<1>7. ASSUME NEW k \in 0 .. n - 1
      PROVE  area[k] # Outside
  <2>1. k \in 0 .. h * row - 1 /\ row \in Nat
    BY <1>1 DEF n
  <2>2. k \div row \in Nat /\ k % row \in Nat
    BY <2>1, RowOfByte
  <2>3. area[k] = <<0, k \div row, k % row>>
    BY <1>2, <2>1, Zenon DEF InPlace
  <2> QED
    BY <1>4, <2>2, <2>3
<1>8. ASSUME NEW p \in {0, 1}, NEW i \in 0 .. c - 1, NEW k,
             fmt = "YUV420", k = n + p * c + i
      PROVE  area[k] # Outside
  <2>1. i \in 0 .. (h \div 2) * cw - 1 /\ h \div 2 \in Nat
    BY HalfIsNat DEF c, cw, HalfArea
  <2>2. i \div cw \in Nat /\ i % cw \in Nat
    BY <1>1, <2>1, RowOfByte
  <2>3. area[k] = <<1 + p, i \div cw, i % cw>>
    BY <1>2, <1>8, Zenon DEF InPlace, n, c, cw
  <2>4. 1 + p \in Nat /\ 1 + p \in 0 .. 2
    OBVIOUS
  <2> QED
    BY <1>4, <2>2, <2>3, <2>4, Zenon
<1>9. \A k \in 0 .. size - 1 : area[k] # Outside
  <2> SUFFICES ASSUME NEW k \in 0 .. size - 1
               PROVE  area[k] # Outside
    OBVIOUS
  <2>1. CASE k \in 0 .. n - 1
    BY <1>7, <2>1
  <2>2. CASE fmt # "YUV420"
    BY <1>1, <1>7, <2>2
  <2>3. CASE k >= n + 2 * c
    BY <1>2, <1>5, <2>3
  <2>4. CASE fmt = "YUV420" /\ k \in 0 .. n + 2 * c - 1 /\ k \notin 0 .. n - 1
    <3>1. \E p \in {0, 1}, i \in 0 .. c - 1 : k = n + p * c + i
      BY <1>1, <2>4, I420Index
    <3> QED
      BY <1>8, <2>4, <3>1, Zenon
  <2>5. k >= n + 2 * c \/ k \in 0 .. n + 2 * c - 1
    BY <1>1
  <2> QED
    BY <2>1, <2>2, <2>3, <2>4, <2>5
<1> QED
  <2>1. Frame!Shows(area, fmt, w, h)
    BY <1>6, Zenon DEF Frame!Shows, Frame!Read, img
  <2>2. Readable(area, fmt, w, h)
    BY <1>2, <1>9, Zenon DEF Readable, size
  <2> QED
    BY <2>1, <2>2

\* Every byte of a frame is a byte of one of its planes.
LEMMA FrameBytes ==
  ASSUME NEW fmt \in Frame!AllFormats, NEW w, NEW h, NEW bw \in Nat,
         NEW bh \in Nat, bw = Frame!AlignUp(w, AlignW),
         bh = Frame!AlignUp(h, AlignH)
  PROVE  \A k \in DOMAIN Frame!Frame(fmt, w, h) :
           Frame!Frame(fmt, w, h)[k] \in (0 .. 2) \X Nat \X Nat
<1>1. CASE fmt \in {"RGB", "BGR"}
  <2> DEFINE area == Frame!Plane(bh, 3 * bw)
  <2>1. Frame!Frame(fmt, w, h) = area
    BY <1>1, Zenon DEF Frame!Frame
  <2>2. 3 * bw \in Nat
    OBVIOUS
  <2>3. ASSUME NEW k \in 0 .. bh * (3 * bw) - 1
        PROVE  k \div (3 * bw) \in Nat /\ k % (3 * bw) \in Nat
    <3> DEFINE cols == 3 * bw
    <3> HIDE DEF cols
    <3>1. cols \in Nat /\ k \in 0 .. bh * cols - 1
      BY <2>2 DEF cols
    <3>2. k \div cols \in 0 .. bh - 1 /\ k % cols \in 0 .. cols - 1
      BY ONLY <3>1, bh \in Nat, RowOfByte
    <3>3. k \div cols \in Nat /\ k % cols \in Nat
      BY <3>2
    <3> QED
      BY <3>3 DEF cols
  <2>4. /\ DOMAIN area = 0 .. bh * (3 * bw) - 1
        /\ \A k \in DOMAIN area :
             area[k] = <<0, k \div (3 * bw), k % (3 * bw)>>
    BY DEF Frame!Plane
  <2> HIDE DEF area
  <2>5. ASSUME NEW k \in DOMAIN area
        PROVE  area[k] \in (0 .. 2) \X Nat \X Nat
    <3>1. k \in 0 .. bh * (3 * bw) - 1
      BY <2>4, Zenon
    <3>2. area[k] = <<0, k \div (3 * bw), k % (3 * bw)>>
      BY <2>4
    <3> QED
      BY <2>3, <3>1, <3>2
  <2> QED
    BY <2>1, <2>5, Zenon
<1>2. CASE fmt \notin {"RGB", "BGR"}
  <2> DEFINE area == Frame!I420(bh, bw)
             n == bh * bw
             c == HalfArea(bh, bw)
  <2>1. Frame!Frame(fmt, w, h) = area
    BY <1>2, Zenon DEF Frame!Frame
  <2>2. n \in Nat /\ c \in Nat
    <3>1. n \in Nat
      OBVIOUS
    <3> QED
      BY <3>1, HalfIsNat
  <2>3. /\ DOMAIN area = 0 .. n + 2 * c - 1
        /\ \A k \in 0 .. n - 1 : area[k] = <<0, k \div bw, k % bw>>
        /\ \A p \in {0, 1}, i \in 0 .. c - 1 : \A k :
             k = n + p * c + i =>
               /\ k \in DOMAIN area
               /\ area[k] = <<1 + p, i \div (bw \div 2), i % (bw \div 2)>>
    BY I420Bytes, Zenon
  <2> SUFFICES ASSUME NEW k \in 0 .. n + 2 * c - 1
               PROVE  area[k] \in (0 .. 2) \X Nat \X Nat
    BY <2>1, <2>3, Zenon
  <2>4. CASE k \in 0 .. n - 1
    <3>1. k \div bw \in Nat /\ k % bw \in Nat
      <4>1. k \div bw \in 0 .. bh - 1 /\ k % bw \in 0 .. bw - 1
        BY ONLY <2>4, bh \in Nat, bw \in Nat, RowOfByte
      <4> QED
        BY <4>1
    <3> HIDE DEF area, n
    <3>2. area[k] = <<0, k \div bw, k % bw>>
      BY <2>3, <2>4
    <3> QED
      BY <3>1, <3>2
  <2>5. ASSUME NEW p \in {0, 1}, NEW i \in 0 .. c - 1, k = n + p * c + i
        PROVE  area[k] \in (0 .. 2) \X Nat \X Nat
    <3>1. i \in 0 .. (bh \div 2) * (bw \div 2) - 1
      BY DEF HalfArea
    <3>2. i \div (bw \div 2) \in Nat /\ i % (bw \div 2) \in Nat
      <4> DEFINE cols == bw \div 2
                 rows == bh \div 2
      <4>1. rows \in Nat /\ cols \in Nat
        BY HalfIsNat
      <4> HIDE DEF rows, cols
      <4>2. i \in 0 .. rows * cols - 1
        BY <3>1 DEF rows, cols
      <4>3. i \div cols \in Nat /\ i % cols \in Nat
        BY <4>1, <4>2, RowOfByte
      <4> QED
        BY <4>3 DEF cols
    <3>3. area[k] = <<1 + p, i \div (bw \div 2), i % (bw \div 2)>>
      <4> HIDE DEF area, n, c
      <4> QED
        BY ONLY <2>3, <2>5, p \in {0, 1}, i \in 0 .. c - 1, Zenon
    <3>4. 1 + p \in 0 .. 2
      OBVIOUS
    <3> HIDE DEF area
    <3> QED
      BY <3>2, <3>3, <3>4
  <2>6. \/ k \in 0 .. n - 1
        \/ \E p \in {0, 1}, i \in 0 .. c - 1 : k = n + p * c + i
    <3> HIDE DEF n, c
    <3> QED
      BY <2>2, I420Index
  <2> QED
    BY <2>4, <2>5, <2>6, Zenon
<1> QED
  BY <1>1, <1>2

\* The whole buffer is stored when the width needs no padding. It shows the
\* image, unless padding of the height separates the planes, and is readable.
LEMMA UnpaddedShows ==
  ASSUME Frame!FrameSizes, Frame!FrameMarks, NEW fmt \in Frame!AllFormats,
         NEW w \in Nat, NEW h \in Nat, NEW area,
         area = Frame!Stored(Frame!Frame(fmt, w, h), fmt, w, h),
         Frame!AlignUp(w, AlignW) = w
  PROVE  /\ fmt # "YUV420" \/ h % AlignH = 0 => Frame!Shows(area, fmt, w, h)
         /\ Readable(area, fmt, w, h)
<1> DEFINE bh == Frame!AlignUp(h, AlignH)
           row == w * Frame!Bpp(fmt)
           size == Frame!ImageTypeSize(fmt, w, h)
           img == Frame!Image(fmt, w, h)
<1>1. area = Frame!Frame(fmt, w, h)
  BY Zenon DEF Frame!Stored
<1>2. /\ bh \in Nat /\ bh >= h /\ (h % AlignH = 0 => bh = h)
      /\ \E x \in Nat : bh = 2 * x
  BY BlockSize
<1>3. row \in Nat /\ h * row \in Nat /\ size \in Nat /\ h * row <= bh * row
  <2>1. row \in Nat /\ h * row \in Nat /\ size \in Nat
    BY Sizes
  <2> HIDE DEF row
  <2>2. h * row <= bh * row
    BY <1>2, <2>1
  <2> QED
    BY <2>1, <2>2
<1>4. \A k \in 0 .. bh * row - 1 :
        k \in DOMAIN area /\ area[k] = <<0, k \div row, k % row>>
  <2>1. bh = Frame!AlignUp(h, AlignH)
    OBVIOUS
  <2> HIDE DEF bh
  <2> QED
    BY <1>1, <1>2, <2>1, FirstPlane
<1>5. /\ InPlace(img, fmt, w, h, row)
      /\ \A k \in DOMAIN img : OfImage(k, fmt, w, h, row)
  BY ImageBytes
<1>6. ASSUME fmt # "YUV420" PROVE Frame!Shows(area, fmt, w, h)
  <2>1. ASSUME NEW k \in DOMAIN img
        PROVE  k \in DOMAIN area /\ area[k] = img[k]
    <3> HIDE DEF img, row, bh
    <3>1. k \in 0 .. h * row - 1
      BY <1>5, <1>6, <2>1, Zenon DEF OfImage
    <3>2. k \in 0 .. bh * row - 1
      BY <1>2, <1>3, <3>1
    <3>3. img[k] = <<0, k \div row, k % row>>
      BY <1>5, <3>1, Zenon DEF InPlace
    <3> QED
      BY <1>4, <3>2, <3>3, Zenon
  <2> QED
    BY <2>1, Zenon DEF Frame!Shows, Frame!Read
<1>7. ASSUME fmt = "YUV420", h % AlignH = 0
      PROVE  Frame!Shows(area, fmt, w, h)
  <2>1. area = Frame!I420(h, w)
    BY <1>1, <1>2, <1>7 DEF Frame!Frame
  <2>2. Frame!Image(fmt, w, h) = area
    BY <1>7, <2>1 DEF Frame!Image
  <2> QED
    BY <2>2, Zenon DEF Frame!Shows, Frame!Read
<1>8. \A k \in 0 .. size - 1 : k \in DOMAIN area
  <2>1. CASE fmt = "YUV420"
    <3>1. area = Frame!I420(bh, w)
      BY <1>1, <2>1 DEF Frame!Frame
    <3>2. DOMAIN area = 0 .. bh * w + 2 * HalfArea(bh, w) - 1
      BY <1>2, <3>1, I420Bytes
    <3>3. size = w * h + 2 * (((w \div 2) * h) \div 2)
      BY <2>1 DEF Frame!ImageTypeSize
    <3>4. PICK x \in Nat : bh = 2 * x
      BY <1>2
    <3>5. /\ ((w \div 2) * h) \div 2 <= (w \div 2) * x
          /\ ((w \div 2) * h) \div 2 \in Nat
      BY <1>2, <3>4
    <3>6. HalfArea(bh, w) = (w \div 2) * x
      BY <3>4 DEF HalfArea
    <3>7. w * h <= bh * w /\ w * h \in Nat /\ bh * w \in Nat
      BY <1>2
    <3> DEFINE a == w * h
               b == bh * w
               c == HalfArea(bh, w)
               d == ((w \div 2) * h) \div 2
    <3>8. /\ a \in Nat /\ b \in Nat /\ d \in Nat /\ c \in Nat /\ a <= b
          /\ d <= c /\ size = a + 2 * d /\ DOMAIN area = 0 .. b + 2 * c - 1
      <4>1. c \in Nat
        BY <1>2, HalfIsNat
      <4> QED
        BY <3>2, <3>3, <3>5, <3>6, <3>7, <4>1
    <3> HIDE DEF a, b, c, d, size
    <3> QED
      BY <3>8
  <2>2. CASE fmt # "YUV420"
    <3>1. size = h * row
      BY <2>2, Sizes
    <3>2. \A k \in 0 .. size - 1 : k \in 0 .. bh * row - 1
      <4> HIDE DEF row, size, bh
      <4> QED
        BY <1>2, <1>3, <3>1
    <3> QED
      BY <1>4, <3>2, Zenon
  <2> QED
    BY <2>1, <2>2
<1>9. \A k \in DOMAIN area : area[k] # Outside
  <2>1. \A k \in DOMAIN area : area[k] \in (0 .. 2) \X Nat \X Nat
    <3>1. bh = Frame!AlignUp(h, AlignH)
      OBVIOUS
    <3> HIDE DEF bh
    <3> QED
      BY <1>1, <1>2, <3>1, FrameBytes
  <2> QED
    BY <2>1 DEF Frame!FrameMarks
<1> QED
  <2>1. Readable(area, fmt, w, h)
    BY <1>8, <1>9, Zenon DEF Readable
  <2> QED
    BY <1>6, <1>7, <2>1, Zenon

\* Whatever was stored: PaddedPlanes apart, it shows its image.
LEMMA StoredShows ==
  ASSUME Frame!FrameSizes, Frame!FrameMarks, NEW fmt \in Frame!AllFormats,
         NEW w \in Nat, NEW h \in Nat, NEW area,
         area = Frame!Stored(Frame!Frame(fmt, w, h), fmt, w, h)
  PROVE  /\ \/ fmt = "YUV420" /\ w % AlignW = 0 /\ h % AlignH # 0
            \/ Frame!Shows(area, fmt, w, h)
         /\ Readable(area, fmt, w, h)
<1>1. CASE Frame!AlignUp(w, AlignW) # w
  BY <1>1, PaddedShows
<1>2. CASE Frame!AlignUp(w, AlignW) = w
  <2>1. w % AlignW = 0
    BY <1>2, BlockSize
  <2> QED
    BY <1>2, <2>1, UnpaddedShows
<1> QED
  BY <1>1, <1>2

-----------------------------------------------------------------------------
(* The frames an application gets while it leaves size and format alone.   *)

\* The camera was opened with the size and format there are, what is fresh was
\* stored with them, and the matrix of RaspiCam_Cv is wide enough for a pixel.
FrameInv ==
  /\ width \in Widths /\ height \in Heights
  /\ captureFtm \in Frame!AllFormats /\ fresh \in BOOLEAN
  /\ frameIsOpened =>
       camera = [fmt |-> captureFtm, w |-> width, h |-> height]
  /\ fresh =>
       buffData = Frame!Stored(Frame!Frame(captureFtm, width, height),
                               captureFtm, width, height)
  /\ cv => /\ captureFtm \in {"GRAY", "RGB"} /\ channels \in {1, 3}
           /\ channels >= Frame!Bpp(captureFtm)
  /\ Frame!ReadsInside /\ Frame!FitsRoom

\* A step other than retrieve hands nothing out.
LEMMA Forgotten ==
  ASSUME Frame!Forget
  PROVE  Frame!ReadsInside' /\ Frame!FitsRoom'
<1>1. DOMAIN copied' = {}
  BY DEF Frame!Forget, Frame!Empty
<1> QED
  BY <1>1, Zenon DEF Frame!ReadsInside, Frame!FitsRoom

\* retrieve hands out as many bytes as the image has, read from what was
\* stored, and there is room for them.
LEMMA RetrieveInside ==
  ASSUME MCRaspicamConstants, ~StaleRetrieve, FrameInv, Frame!Retrieve
  PROVE  Frame!ReadsInside' /\ Frame!FitsRoom'
<1> DEFINE size == Frame!ImageTypeSize(captureFtm, width, height)
<1>1. fresh /\ width \in Nat /\ height \in Nat
  BY DEF Frame!Retrieve, FrameInv, MCRaspicamConstants, Frame!FrameSizes
<1>2. Readable(buffData, captureFtm, width, height)
  BY <1>1, StoredShows DEF FrameInv, MCRaspicamConstants
<1>3. copied' = [k \in 0 .. size - 1 |-> Frame!Read(buffData, k)]
  BY Zenon DEF Frame!Retrieve
<1>4. Frame!ReadsInside'
  BY <1>2, <1>3, Zenon DEF Readable, Frame!Read, Frame!ReadsInside
<1>5. size <= room'
  <2>1. CASE ~cv
    <3>1. size \in Nat
      BY <1>1, Sizes DEF FrameInv
    <3> QED
      BY <2>1, <3>1 DEF Frame!Retrieve
  <2>2. CASE cv
    <3> DEFINE bpp == Frame!Bpp(captureFtm)
               area == height * width
    <3>1. size = height * (width * bpp)
      BY <1>1, <2>2, Sizes DEF FrameInv
    <3>2. bpp \in Nat /\ channels \in Nat /\ bpp <= channels
      BY <2>2 DEF FrameInv, Frame!Bpp
    <3>3. room' = height * width * channels
      BY <2>2 DEF Frame!Retrieve
    <3> HIDE DEF bpp, size
    <3>4. height * (width * bpp) = area * bpp /\ area \in Nat
      BY <1>1, <3>2
    <3> HIDE DEF area
    <3>5. area * bpp <= area * channels
      BY <3>2, <3>4
    <3> QED
      BY <3>1, <3>3, <3>4, <3>5 DEF area
  <2> QED
    BY <2>1, <2>2
<1>6. size \in Nat /\ room' \in Nat
  <2>1. size \in Nat
    BY <1>1, Sizes DEF FrameInv
  <2> QED
    BY <1>1, <2>1 DEF Frame!Retrieve, FrameInv
<1>7. Frame!FitsRoom'
  <2>1. DOMAIN copied' = 0 .. size - 1
    BY <1>3, Zenon
  <2> HIDE DEF size
  <2>2. \A m \in Nat, n \in Nat : m <= n => 0 .. m - 1 \subseteq 0 .. n - 1
    OBVIOUS
  <2>3. 0 .. size - 1 \subseteq 0 .. room' - 1
    BY <1>5, <1>6, <2>2, Zenon
  <2> QED
    BY <2>1, <2>3, Zenon DEF Frame!FitsRoom
<1> QED
  BY <1>4, <1>7

\* No step breaks it.
LEMMA FrameStepInv ==
  ASSUME MCRaspicamConstants, ~LateSize, ~LateFormat, ~StaleRetrieve,
         FrameInv, [Frame!Next]_(Frame!vars)
  PROVE  FrameInv'
<1>1. ASSUME NEW w \in Widths, Frame!SetWidth(w) PROVE FrameInv'
  BY <1>1, Forgotten DEF Frame!SetWidth, FrameInv
<1>2. ASSUME NEW h \in Heights, Frame!SetHeight(h) PROVE FrameInv'
  BY <1>2, Forgotten DEF Frame!SetHeight, FrameInv
<1>3. ASSUME NEW f \in Formats, Frame!SetFormat(f) PROVE FrameInv'
  BY <1>3, Forgotten
     DEF Frame!SetFormat, FrameInv, MCRaspicamConstants, Frame!FrameFormats
<1>4. ASSUME NEW f \in Formats, Frame!CvSetFormat(f) PROVE FrameInv'
  <2>1. /\ f \in {"GRAY", "RGB"} /\ ~frameIsOpened /\ captureFtm' = f
        /\ channels' = Frame!Bpp(f)
        /\ fresh' = (fresh /\ captureFtm' = captureFtm)
        /\ Frame!Forget
        /\ UNCHANGED <<cv, frameIsOpened, width, height, camera, buffData>>
    BY <1>4 DEF Frame!CvSetFormat
  <2>2. Frame!Bpp(f) \in {1, 3} /\ f \in Frame!AllFormats
    BY <2>1 DEF Frame!Bpp, Frame!AllFormats
  <2>3. cv' => /\ captureFtm' \in {"GRAY", "RGB"} /\ channels' \in {1, 3}
               /\ channels' >= Frame!Bpp(captureFtm')
    BY <2>1, <2>2
  <2>4. Frame!ReadsInside' /\ Frame!FitsRoom'
    BY <2>1, Forgotten
  <2> QED
    BY <2>1, <2>2, <2>3, <2>4 DEF FrameInv
<1>5. CASE Frame!CvConvertRGB
  BY <1>5, Forgotten DEF Frame!CvConvertRGB, FrameInv, Frame!Bpp
<1>6. CASE Frame!Open
  BY <1>6, Forgotten DEF Frame!Open, FrameInv
<1>7. CASE Frame!StoreFrame
  <2>1. buffData' = Frame!Stored(Frame!Frame(captureFtm, width, height),
                                 captureFtm, width, height)
    BY <1>7 DEF Frame!StoreFrame, FrameInv
  <2> QED
    BY <1>7, <2>1, Forgotten DEF Frame!StoreFrame, FrameInv
<1>8. CASE Frame!Retrieve
  BY <1>8, RetrieveInside DEF Frame!Retrieve, FrameInv
<1>9. CASE Frame!Release
  BY <1>9, Forgotten DEF Frame!Release, FrameInv
<1>10. CASE UNCHANGED Frame!vars
  BY <1>10 DEF Frame!vars, FrameInv, Frame!ReadsInside, Frame!FitsRoom
<1> QED
  BY <1>1, <1>2, <1>3, <1>4, <1>5, <1>6, <1>7, <1>8, <1>9, <1>10
     DEF Frame!Next

\* FrameCopy, for every size, alignment and format: an application that sets
\* size and format before it opens the camera, and grabs before it retrieves,
\* gets the image, in its layout and without padding (one combination of
\* YUV420 sizes apart, see PaddedPlanes), read from inside the camera's frame
\* and written inside the room it has.
THEOREM ImageTheorem ==
  ASSUME ~LateSize, ~LateFormat, ~StaleRetrieve
  PROVE  AppSpec => []ImageIsRight
<1>1. Frame!Init => FrameInv
  <2> SUFFICES ASSUME Frame!Init PROVE FrameInv
    OBVIOUS
  <2>1. Frame!ReadsInside /\ Frame!FitsRoom
    <3>1. DOMAIN copied = {}
      BY DEF Frame!Init, Frame!Empty
    <3> QED
      BY <3>1, Zenon DEF Frame!ReadsInside, Frame!FitsRoom
  <2>2. Formats \subseteq Frame!AllFormats
    BY MCRaspicamConstants DEF MCRaspicamConstants, Frame!FrameFormats
  <2>3. /\ captureFtm \in Frame!AllFormats /\ channels = 3
        /\ cv => captureFtm = "RGB"
    BY <2>2 DEF Frame!Init, Frame!AllFormats
  <2>4. /\ width \in Widths /\ height \in Heights /\ fresh = FALSE
        /\ frameIsOpened = FALSE
    BY DEF Frame!Init
  <2>5. cv => /\ captureFtm \in {"GRAY", "RGB"} /\ channels \in {1, 3}
              /\ channels >= Frame!Bpp(captureFtm)
    <3>1. Frame!Bpp("RGB") = 3
      BY DEF Frame!Bpp
    <3> QED
      BY <2>3, <3>1
  <2> QED
    BY <2>1, <2>3, <2>4, <2>5 DEF FrameInv
<1>2. FrameInv /\ [Frame!Next]_(Frame!vars) => FrameInv'
  BY MCRaspicamConstants, FrameStepInv
<1>3. FrameInv => ImageIsRight
  <2> SUFFICES ASSUME FrameInv PROVE ImageIsRight
    OBVIOUS
  <2>1. width \in Nat /\ height \in Nat
    BY MCRaspicamConstants
       DEF FrameInv, MCRaspicamConstants, Frame!FrameSizes
  <2>2. Frame!ImageIsRight
    <3> SUFFICES ASSUME fresh, ~Frame!PaddedPlanes
                 PROVE  Frame!Shows(buffData, captureFtm, width, height)
      BY DEF Frame!ImageIsRight
    <3> QED
      BY <2>1, MCRaspicamConstants, StoredShows
         DEF FrameInv, MCRaspicamConstants, Frame!PaddedPlanes
  <2> QED
    BY <2>2 DEF FrameInv, ImageIsRight
<1>4. AppSpec => Frame!Spec
  BY FramePart
<1> QED
  BY <1>1, <1>2, <1>3, <1>4, PTL DEF Frame!Spec

-----------------------------------------------------------------------------
(* The exposure, for every set of shutter speeds, measured exposures and   *)
(* modes, every bound on the reports in flight and either use of it.       *)

\* ModeCommitted only speaks of an idle application; its inductive form also
\* covers the calls under way: from commitParameters on the camera has the
\* mode of State.
ModeInv ==
  pc = "assign" \/ (isOpened /\ pc # "commit")
    => hwMode = convertExposure(exposureMode)

\* open is not called on an open camera.
CommitInv == pc \in {"commit", "assign"} => ~isOpened

\* Whatever the application calls and the callbacks do, the open camera runs
\* in the exposure mode that getExposure reports.
THEOREM ModeTheorem == Spec => []ModeCommitted
<1>1. Init => ModeInv /\ CommitInv
  BY DEF Init, ModeInv, CommitInv
<1>2. ModeInv /\ CommitInv /\ [Next]_vars => ModeInv' /\ CommitInv'
  <2> SUFFICES ASSUME ModeInv, CommitInv, [Next]_vars
               PROVE  ModeInv' /\ CommitInv'
    OBVIOUS
  <2> USE DEF ModeInv, CommitInv, openVars, stateVars, hwVars
  <2>1. CASE CreateCamera
    BY <2>1 DEF CreateCamera
  <2>2. CASE CommitParameters
    BY <2>2 DEF CommitParameters
  <2>3. CASE AssignUserdata
    BY <2>3 DEF AssignUserdata
  <2>4. CASE \E s \in Shutters : SetShutterSpeed(s)
    BY <2>4 DEF SetShutterSpeed
  <2>5. CASE CommitShutterSpeed
    BY <2>5 DEF CommitShutterSpeed
  <2>6. CASE \E m \in Modes : SetExposure(m)
    BY <2>6 DEF SetExposure
  <2>7. CASE Release
    BY <2>7 DEF Release
  <2>8. CASE ReleaseDone
    BY <2>8 DEF ReleaseDone
  <2>9. CASE \E e \in Measured \cup {hwShutter},
                g \in MeasuredGains \cup {hwGains} : Report(e, g)
    BY <2>9 DEF Report
  <2>10. CASE ControlCallback
    BY <2>10 DEF ControlCallback
  <2>11. CASE VideoCallback
    BY <2>11 DEF VideoCallback
  <2>12. CASE \E g \in Gains : SetGains(g)
    BY <2>12 DEF SetGains
  <2>13. CASE CommitGains
    BY <2>13 DEF CommitGains
  <2>14. CASE UNCHANGED vars
    BY <2>14 DEF vars
  <2> QED
    BY <2>1, <2>2, <2>3, <2>4, <2>5, <2>6, <2>7, <2>8, <2>9, <2>10, <2>11,
       <2>12, <2>13, <2>14 DEF Next
<1>3. ModeInv => ModeCommitted
  BY DEF ModeInv, ModeCommitted
<1> QED
  BY <1>1, <1>2, <1>3, PTL DEF Spec


\* What holds in the one session of an application: until commitParameters no
\* report can have been delivered, so State holds what was asked for; from then
\* on the camera has it, and what reports write into State stays there.
AutoInv ==
  /\ {isOpened, manual, lateGains} \subseteq BOOLEAN
  /\ isOpened \/ pc \in {"commit", "assign"} => opens
  /\ ~opens \/ pc \in {"commit", "assign"} =>
       ~isOpened /\ ~lateGains /\ events = <<>>
  /\ ~opens \/ pc = "commit" =>
       gains = askedGains /\ (~manual => shutterSpeed = 0)
  /\ ~manual => exposureMode # "fixedfps" /\ pc # "shutter"
  /\ pc = "gains" => lateGains
  /\ pc = "commit" => hwShutter = 0
  /\ pc = "assign" \/ (isOpened /\ pc # "commit") =>
       /\ ~manual => hwShutter = 0
       /\ ~lateGains => hwGains = askedGains

\* camera_control_callback and video_buffer_callback: if the camera is opened
\* once and reports nothing before open has finished, no report is ever sent
\* back to the camera as a setting, for any settings and any reports.
THEOREM AutoTheorem ==
  ASSUME ~Reopen, ~EarlyEvents
  PROVE  Spec => []AutoStaysAuto
<1>1. Init => AutoInv
  BY DEF Init, AutoInv
<1>2. AutoInv /\ [Next]_vars => AutoInv'
  <2> SUFFICES ASSUME AutoInv, [Next]_vars PROVE AutoInv'
    OBVIOUS
  <2> USE DEF AutoInv, openVars, stateVars, hwVars, gainVars
  <2>1. CASE CreateCamera
    BY <2>1 DEF CreateCamera
  <2>2. CASE CommitParameters
    BY <2>2 DEF CommitParameters
  <2>3. CASE AssignUserdata
    BY <2>3 DEF AssignUserdata
  <2>4. CASE \E s \in Shutters : SetShutterSpeed(s)
    BY <2>4 DEF SetShutterSpeed
  <2>5. CASE CommitShutterSpeed
    BY <2>5 DEF CommitShutterSpeed
  <2>6. CASE \E m \in Modes : SetExposure(m)
    <3>1. PICK m \in Modes : SetExposure(m)
      BY <2>6
    <3>2. CASE m = "fixedfps"
      BY <3>1, <3>2 DEF SetExposure
    <3>3. CASE m # "fixedfps"
      BY <3>1, <3>3 DEF SetExposure
    <3> QED
      BY <3>2, <3>3
  <2>7. CASE \E g \in Gains : SetGains(g)
    BY <2>7 DEF SetGains
  <2>8. CASE CommitGains
    BY <2>8 DEF CommitGains
  <2>9. CASE Release
    BY <2>9 DEF Release
  <2>10. CASE ReleaseDone
    BY <2>10 DEF ReleaseDone
  <2>11. CASE \E e \in Measured \cup {hwShutter},
                 g \in MeasuredGains \cup {hwGains} : Report(e, g)
    BY <2>11 DEF Report
  <2>12. CASE ControlCallback
    BY <2>12 DEF ControlCallback
  <2>13. CASE VideoCallback
    BY <2>13 DEF VideoCallback
  <2>14. CASE UNCHANGED vars
    BY <2>14 DEF vars
  <2> QED
    BY <2>1, <2>2, <2>3, <2>4, <2>5, <2>6, <2>7, <2>8, <2>9, <2>10, <2>11,
       <2>12, <2>13, <2>14 DEF Next
<1>3. AutoInv => AutoStaysAuto
  BY DEF AutoInv, AutoStaysAuto
<1> QED
  BY <1>1, <1>2, <1>3, PTL DEF Spec

=============================================================================
