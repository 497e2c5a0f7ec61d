--------------------------- MODULE StillSettings ----------------------------
(***************************************************************************)
(* The settings of raspicam's still mode (class Private_Impl_Still): the   *)
(* setters store and raise changedSettings, commitParameters sends         *)
(* everything if the flag is raised and lowers it, and initialize creates  *)
(* the camera, commits, then creates the encoder and connects the two.     *)
(* Every step of initialize may fail, and the application may try again;   *)
(* it takes pictures with a camera that open says it has.  What a failed   *)
(* attempt leaves to be freed, or frees, is StillSetup's.                  *)
(***************************************************************************)
EXTENDS Integers

CONSTANT
  Inputs         \* the arguments the application gives its setters

\* Sharpness stands for contrast and saturation too, awb for the exposure
\* mode, metering and image effect, which are enumerations as well; the
\* others are stored, sent or reached in a way of their own.
Settings == {"sharpness", "brightness", "rotation", "awb", "ISO", "quality",
             "encoding"}
EncoderSettings == {"quality", "encoding"}
CameraSettings == Settings \ EncoderSettings

\* The arguments are ints, that of setBrightness is unsigned.
StillInputs ==
  \A s \in Settings : Inputs[s] \subseteq IF s = "brightness" THEN Nat ELSE Int

VARIABLES
  isInitialized,        \* _isInitialized
  camera,               \* camera points to a camera
  encoder_output_port,  \* "NULL", "port", or "freed": it points into an
                        \* encoder that was destroyed
  changedSettings,
  opening,              \* what initialize does next: "no", "camera" (the rest
                        \* of createCamera), "encoder" or "connect"
  state,                \* the fields of Private_Impl_Still
  hw,                   \* the parameters of the camera and the encoder there
                        \* are pointers to
  astray,               \* history: the settings went to components that no
                        \* open returned, and none was set since
  picture               \* history: what the last picture should be taken
                        \* with, what it was taken with, and astray

vars == <<isInitialized, camera, encoder_output_port, changedSettings, opening,
          state, hw, astray, picture>>

\* The settings a new component has.
Unset == -1000

\* setDefaults.
Default == [s \in Settings |-> CASE s = "brightness" -> 50
                                 [] s = "quality" -> 85
                                 [] s = "ISO" -> 400
                                 [] s \in {"encoding", "awb"} -> 1
                                 [] OTHER -> 0]

\* Mutant: brightness above 100 is not brought into range.
NormalisedBright(s, v) ==
  CASE s = "quality" -> IF v > 100 THEN 100 ELSE v
    [] s = "sharpness" -> IF v < -100 THEN -100 ELSE IF v > 100 THEN 100 ELSE v
    [] s = "rotation" -> v % 360
    [] OTHER -> v

\* What the setters store; setISO takes any number.
Normalised(s, v) ==
  CASE s = "brightness" -> IF v > 100 THEN v % 100 ELSE v
    [] s = "quality" -> IF v > 100 THEN 100 ELSE v
    [] s = "sharpness" -> IF v < -100 THEN -100 ELSE IF v > 100 THEN 100 ELSE v
    [] s = "rotation" -> v % 360
    [] OTHER -> v

\* The ten modes of white balance are sent as they are, any other value as
\* AUTO (1).
convertAWB(awb) == IF awb \in 0 .. 9 THEN awb ELSE 1

\* RGB (4) is sent as BMP (1).
convertEncoding(encoding) == IF encoding = 4 THEN 1 ELSE encoding

\* What commitParameters sends: rotation in quarter turns.
Sent(s, st) ==
  CASE s = "rotation" -> (st[s] \div 90) * 90
    [] s = "encoding" -> convertEncoding(st[s])
    [] s = "awb" -> convertAWB(st[s])
    [] OTHER -> st[s]

Init ==
  /\ isInitialized = FALSE /\ camera = FALSE
  /\ encoder_output_port = "NULL"
  /\ changedSettings = TRUE
  /\ opening = "no"
  /\ state = Default
  /\ hw = [s \in Settings |-> Unset]
  /\ astray = FALSE
  /\ picture = [asked |-> <<>>, got |-> <<>>, astray |-> FALSE]

\* Mutant: the setter does not raise the flag.
SetSilently(s, v) ==
  /\ opening = "no"
  /\ state' = [state EXCEPT ![s] = Normalised(s, v)]
  /\ astray' = FALSE
  /\ UNCHANGED <<isInitialized, camera, encoder_output_port, changedSettings,
                 opening, hw, picture>>

Set(s, v) ==
  /\ opening = "no"
  /\ state' = [state EXCEPT ![s] = Normalised(s, v)]
  /\ changedSettings' = TRUE
  /\ astray' = FALSE
  /\ UNCHANGED <<isInitialized, camera, encoder_output_port, opening, hw,
                 picture>>

\* commitParameters, on components whose parameters are old: nothing unless
\* the flag is raised; the encoder's settings only if its port is known.
Commit(old) ==
  IF ~changedSettings THEN old
  ELSE [s \in Settings |->
          IF s \in EncoderSettings /\ encoder_output_port # "port" THEN old[s]
          ELSE Sent(s, state)]

\* The application calls commitParameters itself, be it on the camera that
\* an attempt to connect the ports left behind.
CommitParameters ==
  /\ opening = "no" /\ camera
  /\ hw' = Commit(hw)
  /\ changedSettings' = FALSE
  /\ astray' = (astray \/ (changedSettings /\ ~isInitialized))
  /\ UNCHANGED <<isInitialized, camera, encoder_output_port, opening, state,
                 picture>>

\* What hw is when the settings kept are those of components that stay.
Keeping(kept) == [s \in Settings |-> IF s \in kept THEN hw[s] ELSE Unset]

\* createCamera fails before it commits: no component, no output ports, or
\* the control port cannot be enabled.
CreateCameraFails ==
  /\ opening = "no" /\ ~isInitialized
  /\ camera' = FALSE
  /\ hw' = Keeping(EncoderSettings)
  /\ UNCHANGED <<isInitialized, encoder_output_port, changedSettings, opening,
                 state, astray, picture>>

\* createCamera: a new camera, to which commitParameters is applied; a port
\* that is known at this moment is that of an encoder left behind.
CreateCamera ==
  /\ opening = "no" /\ ~isInitialized
  /\ camera' = TRUE /\ opening' = "camera"
  /\ hw' = Commit(Keeping(EncoderSettings))
  /\ changedSettings' = FALSE
  /\ UNCHANGED <<isInitialized, encoder_output_port, state, astray, picture>>

SetUpCamera ==
  /\ opening = "camera" /\ opening' = "encoder"
  /\ UNCHANGED <<isInitialized, camera, encoder_output_port, changedSettings,
                 state, hw, astray, picture>>

\* The camera has the settings, and is destroyed: its format cannot be set,
\* it cannot be enabled, or there is no memory for its pool.
SetUpCameraFails ==
  /\ opening = "camera" /\ opening' = "no"
  /\ camera' = FALSE
  /\ hw' = Keeping(EncoderSettings)
  /\ astray' = TRUE
  /\ UNCHANGED <<isInitialized, encoder_output_port, changedSettings, state,
                 picture>>

\* Mutant: the encoding is left to commitParameters.
CreateEncoderPlain ==
  /\ opening = "encoder" /\ opening' = "connect"
  /\ encoder_output_port' = "port"
  /\ hw' = Keeping(CameraSettings)
  /\ UNCHANGED <<isInitialized, camera, changedSettings, state, astray,
                 picture>>

\* createEncoder sets the encoding when it makes the output port.
CreateEncoder ==
  /\ opening = "encoder" /\ opening' = "connect"
  /\ encoder_output_port' = "port"
  /\ hw' = [Keeping(CameraSettings) EXCEPT
              !["encoding"] = Sent("encoding", state)]
  /\ UNCHANGED <<isInitialized, camera, changedSettings, state, astray,
                 picture>>

\* It fails before it knows the port or after that (its format, the component
\* or the pool); initialize destroys the camera too and returns -1.
CreateEncoderFails ==
  /\ opening = "encoder" /\ opening' = "no"
  /\ camera' = FALSE
  /\ \/ /\ hw' = Keeping(EncoderSettings)
        /\ UNCHANGED encoder_output_port
     \/ /\ hw' = Keeping({})
        /\ encoder_output_port' = "freed"
  /\ astray' = TRUE
  /\ UNCHANGED <<isInitialized, changedSettings, state, picture>>

ConnectPorts ==
  /\ opening = "connect" /\ opening' = "no"
  /\ isInitialized' = TRUE
  /\ UNCHANGED <<camera, encoder_output_port, changedSettings, state, hw,
                 astray, picture>>

\* connectPorts fails: initialize returns -1 and destroys nothing.
ConnectPortsFails ==
  /\ opening = "connect" /\ opening' = "no"
  /\ astray' = TRUE
  /\ UNCHANGED <<isInitialized, camera, encoder_output_port, changedSettings,
                 state, hw, picture>>

\* takePicture on the open camera: startCapture commits, then captures.
TakePicture ==
  /\ isInitialized
  /\ hw' = Commit(hw)
  /\ changedSettings' = FALSE
  /\ picture' = [asked |-> [s \in Settings |-> Sent(s, state)], got |-> hw',
                 astray |-> astray]
  /\ UNCHANGED <<isInitialized, camera, encoder_output_port, opening, state,
                 astray>>

Next ==
  \/ \E s \in Settings : \E v \in Inputs[s] : Set(s, v)
  \/ CommitParameters
  \/ CreateCameraFails \/ CreateCamera \/ SetUpCamera \/ SetUpCameraFails
  \/ CreateEncoder \/ CreateEncoderFails \/ ConnectPorts \/ ConnectPortsFails
  \/ TakePicture

Spec == Init /\ [][Next]_vars

-----------------------------------------------------------------------------
(* Properties                                                              *)

\* A picture is taken with every setting of the camera as the application
\* left it, whether or not it called commitParameters, and however many
\* attempts to open the camera failed.
SettingsReachPicture ==
  \A s \in DOMAIN picture.asked \ EncoderSettings :
    picture.got[s] = picture.asked[s]

\* ... unless all of them were sent to components of an attempt that failed,
\* which lowers the flag, and none was set since.
SettingsReachUnlessAstray == ~picture.astray => SettingsReachPicture

\* The encoding reaches the picture after failed attempts too: it is sent
\* with the flag when the port exists and without it when the port is made.
EncodingReachesPicture ==
  "encoding" \in DOMAIN picture.asked =>
    picture.got["encoding"] = picture.asked["encoding"]

\* The encoder's quality reaches the picture as the camera's settings do.
QualityReachesPicture ==
  "quality" \in DOMAIN picture.asked =>
    picture.got["quality"] = picture.asked["quality"]

\* What reaches the camera is in the range the setter folds its argument
\* into.  ISO goes through unchanged: the class has no range for it (the test
\* program's usage says 100 to 800, see CameraSettings for the video mode).
SentInRange ==
  \A s \in {r \in DOMAIN picture.got : picture.got[r] # Unset} :
    /\ s = "brightness" => picture.got[s] \in 0 .. 100
    /\ s = "sharpness" => picture.got[s] \in -100 .. 100
    /\ s = "rotation" => picture.got[s] \in {0, 90, 180, 270}
    /\ s = "awb" => picture.got[s] \in 0 .. 9

=============================================================================
