--------------------------- MODULE CameraSettings ---------------------------
(***************************************************************************)
(* The settings of raspicam's video mode that only the application writes: *)
(* a setter of Private_Impl brings its argument into range (that of ISO    *)
(* takes any), stores it in State and, if the camera is open, commits it   *)
(* to the component; open commits them all to the new component.  Shutter  *)
(* speed and exposure mode, which callbacks change too, are                *)
(* ExposureControl's.                                                      *)
(***************************************************************************)
EXTENDS Integers

CONSTANTS
  Settings,   \* the settings the application uses, of AllSettings
  Inputs      \* the arguments it gives the setter of each

AllSettings == {"saturation", "sharpness", "contrast", "brightness", "ISO",
                "exposureCompensation", "metering", "imageEffect", "awb",
                "videoStabilisation", "rotation", "hflip", "vflip"}

\* The arguments are ints, that of setBrightness is unsigned.
SettingsAssumption ==
  /\ Settings \subseteq AllSettings
  /\ \A s \in Settings :
       Inputs[s] \subseteq IF s = "brightness" THEN Nat ELSE Int

VARIABLES
  isOpened,  \* _isOpened
  state,     \* State
  hw         \* the component's parameters

vars == <<isOpened, state, hw>>

\* A component that has just been created has settings of its own.
Unset == -1000

\* setDefaultStateParams.
Default ==
  [s \in Settings |-> CASE s = "brightness" -> 50 [] s = "ISO" -> 400
                        [] s = "awb" -> 1 [] OTHER -> 0]

Clamp(v, lo, hi) == IF v < lo THEN lo ELSE IF v > hi THEN hi ELSE v

\* Mutant: an angle below zero is brought into range by one turn only.
NormalisedOneTurn(s, v) ==
  CASE s = "brightness" -> IF v > 100 THEN 100 ELSE v
    [] s \in {"saturation", "sharpness", "contrast"} -> Clamp(v, -100, 100)
    [] s = "exposureCompensation" -> Clamp(v, -10, 10)
    [] s = "rotation" -> IF v < 0 THEN v + 360 ELSE v % 360
    [] OTHER -> v

\* What a setter stores.  The loop of setRotation adds turns until the angle
\* is not negative; brightness is unsigned.
Normalised(s, v) ==
  CASE s = "brightness" -> IF v > 100 THEN 100 ELSE v
    [] s \in {"saturation", "sharpness", "contrast"} -> Clamp(v, -100, 100)
    [] s = "exposureCompensation" -> Clamp(v, -10, 10)
    [] s = "rotation" -> v % 360
    [] OTHER -> v

\* The values of the enumerations that convertMetering, convertImageEffect
\* and convertAWB know; they turn others into the default.
Known == [metering |-> 0 .. 3, imageEffect |-> 0 .. 19, awb |-> 0 .. 9]
DefaultOf == [metering |-> 0, imageEffect |-> 0, awb |-> 1]

\* MMAL_PARAM_MIRROR: none, horizontal, vertical, both.
Mirror(h, v) == (IF h # 0 THEN 1 ELSE 0) + (IF v # 0 THEN 2 ELSE 0)

\* What the commit function of a setting sends, given State; the two flips
\* are one parameter.
Sent(s, st) ==
  CASE s = "rotation" -> (st[s] \div 90) * 90
    [] s \in {"hflip", "vflip"} ->
         Mirror(IF "hflip" \in Settings THEN st["hflip"] ELSE 0,
                IF "vflip" \in Settings THEN st["vflip"] ELSE 0)
    [] s \in DOMAIN Known ->
         IF st[s] \in Known[s] THEN st[s] ELSE DefaultOf[s]
    [] OTHER -> st[s]

\* The settings whose parameter the commit function of s sets.
Committed(s) == IF s \in {"hflip", "vflip"}
                THEN {"hflip", "vflip"} \cap Settings ELSE {s}

Init ==
  /\ isOpened = FALSE
  /\ state = Default
  /\ hw = [s \in Settings |-> Unset]

\* Mutant: the value is committed before it is stored.
SetEarlyCommit(s, v) ==
  /\ state' = [state EXCEPT ![s] = Normalised(s, v)]
  /\ hw' = IF isOpened
           THEN [t \in Settings |-> IF t \in Committed(s) THEN Sent(t, state)
                                    ELSE hw[t]]
           ELSE hw
  /\ UNCHANGED isOpened

\* setSaturation .. setVerticalFlip.
Set(s, v) ==
  /\ state' = [state EXCEPT ![s] = Normalised(s, v)]
  /\ hw' = IF isOpened
           THEN [t \in Settings |-> IF t \in Committed(s) THEN Sent(t, state')
                                    ELSE hw[t]]
           ELSE hw
  /\ UNCHANGED isOpened

\* open: a new component, then commitParameters.
Open ==
  /\ ~isOpened
  /\ isOpened' = TRUE
  /\ hw' = [s \in Settings |-> Sent(s, state)]
  /\ UNCHANGED state

Release ==
  /\ isOpened
  /\ isOpened' = FALSE
  /\ hw' = [s \in Settings |-> Unset]
  /\ UNCHANGED state

Next ==
  \/ \E s \in Settings : \E v \in Inputs[s] : Set(s, v)
  \/ Open \/ Release

Spec == Init /\ [][Next]_vars

-----------------------------------------------------------------------------
(* Properties                                                              *)

\* The open camera has every setting the getters report, whenever it was set:
\* before the first open, while open, or between two.
SettingsCommitted ==
  isOpened => \A s \in Settings : hw[s] = Sent(s, state)

\* The ranges the header of the library gives (for a rotation, a number of
\* quarter turns).
Range == [saturation |-> -100 .. 100, sharpness |-> -100 .. 100,
          contrast |-> -100 .. 100, brightness |-> 0 .. 100,
          ISO |-> 100 .. 800, exposureCompensation |-> -10 .. 10,
          rotation |-> {0, 90, 180, 270}]

InRange(used) ==
  isOpened => \A s \in used \cap DOMAIN Range : hw[s] \in Range[s]

\* No argument of a setter makes the library send a value out of the range
\* the header gives.  setISO stores, and commitISO sends, what it is given.
SentInRange == InRange(Settings)

\* The other setters do keep the camera in range, whatever they are given.
ClampedInRange == InRange(Settings \ {"ISO"})

=============================================================================
