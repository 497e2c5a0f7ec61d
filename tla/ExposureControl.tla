-------------------------- MODULE ExposureControl ---------------------------
(***************************************************************************)
(* Shutter speed, exposure mode and white balance gains of raspicam's      *)
(* video mode: the setters and open, on the application's thread, and the  *)
(* two callbacks that touch the same fields of State:                      *)
(* camera_control_callback, which stores the exposure and the gains the    *)
(* camera reports, and the end of video_buffer_callback, which sends       *)
(* State.shutterSpeed to the camera again.                                 *)
(*                                                                         *)
(* The camera itself is external: it reports the exposure it uses, which   *)
(* is the shutter speed it was given or, given 0, one it has measured, and *)
(* gains it was given or has measured.  A pair of gains is one value.      *)
(***************************************************************************)
EXTENDS Naturals, Sequences

CONSTANTS
  Shutters,     \* shutter speeds the application asks for, microseconds
  Measured,     \* exposures the camera chooses in automatic mode
  Modes,        \* exposure modes the application asks for
  Gains,        \* white balance gains the application asks for
  DefaultGains, \* awbg_red and awbg_blue of a new Private_Impl
  MeasuredGains,\* gains the camera finds by itself
  MaxEvents,    \* bound: reports on their way
  EarlyEvents,  \* may the camera report before open has finished?
  Reopen        \* may the camera be opened again after release?

ASSUME ShuttersAssumption == Shutters \subseteq Nat
ASSUME MeasuredAssumption == Measured \subseteq Nat \ {0} /\ Measured # {}
ASSUME EventsAssumption == MaxEvents \in Nat
ASSUME ExposureUsage == EarlyEvents \in BOOLEAN /\ Reopen \in BOOLEAN

VARIABLES
  pc,            \* where the application's thread is
  isOpened,      \* _isOpened
  opens,         \* history: was the camera ever opened?
  control,       \* the control port is enabled
  userdata,      \* control->userdata and the video port's are set
  shutterSpeed,  \* State.shutterSpeed
  exposureMode,  \* State.rpc_exposureMode
  hwShutter,     \* the camera's shutter speed, 0 for automatic
  hwMode,        \* the camera's exposure mode
  gains,         \* State.awbg_red and State.awbg_blue
  hwGains,       \* the camera's custom gains
  events,        \* reports not yet delivered, oldest first
  asked,         \* history: the shutter speed the application set last
  manual,        \* history: it has set a speed or a fixed frame rate
  askedGains,    \* history: the gains it set last, or the default
  lateGains,     \* history: it has set gains on an open camera
  crashed        \* camera_control_callback ran without userdata

stateVars == <<shutterSpeed, exposureMode, asked, manual>>
hwVars == <<hwShutter, hwMode>>
gainVars == <<gains, hwGains, askedGains, lateGains>>
openVars == <<isOpened, opens, control, userdata>>
vars == <<pc, openVars, stateVars, hwVars, gainVars, events, crashed>>

\* convertExposure: every mode but the unknown ones has its MMAL constant.
KnownModes == {"off", "auto", "night", "nightpreview", "backlight",
               "spotlight", "sports", "snow", "beach", "verylong", "fixedfps",
               "antishake", "fireworks"}
convertExposure(mode) == IF mode \in KnownModes THEN mode ELSE "auto"

Init ==
  /\ pc = "idle" /\ isOpened = FALSE /\ opens = FALSE
  /\ control = FALSE /\ userdata = FALSE
  /\ shutterSpeed = 0 /\ exposureMode = "auto"
  /\ hwShutter = 0 /\ hwMode = "auto"
  /\ events = <<>> /\ crashed = FALSE
  /\ asked = 0 /\ manual = FALSE
  /\ gains = DefaultGains /\ hwGains = DefaultGains
  /\ askedGains = DefaultGains /\ lateGains = FALSE

-----------------------------------------------------------------------------
(* The application's thread                                                *)

\* open, first part: create_camera_component asks for reports and enables
\* the control port of a new camera, which has its own defaults.
CreateCamera ==
  /\ pc = "idle" /\ ~isOpened /\ (Reopen \/ ~opens)
  /\ control' = TRUE /\ opens' = TRUE
  /\ hwShutter' = 0 /\ hwMode' = "auto"
  /\ pc' = "commit"
  /\ UNCHANGED <<isOpened, userdata, stateVars, gainVars, events, crashed>>

\* Mutant: the mode is committed before it is changed.
CommitParametersEarly ==
  /\ pc = "commit"
  /\ hwShutter' = IF shutterSpeed # 0 THEN shutterSpeed ELSE hwShutter
  /\ exposureMode' = IF shutterSpeed # 0 THEN "fixedfps" ELSE exposureMode
  /\ hwMode' = convertExposure(exposureMode)
  /\ hwGains' = gains
  /\ pc' = "assign"
  /\ UNCHANGED <<openVars, shutterSpeed, asked, manual, gains,
                 askedGains, lateGains, events, crashed>>

\* commitParameters: a shutter speed that is not 0 is committed and selects
\* the mode of fixed frame rate; mode and gains are committed in any case.
CommitParameters ==
  /\ pc = "commit"
  /\ hwShutter' = IF shutterSpeed # 0 THEN shutterSpeed ELSE hwShutter
  /\ exposureMode' = IF shutterSpeed # 0 THEN "fixedfps" ELSE exposureMode
  /\ hwMode' = convertExposure(exposureMode')
  /\ hwGains' = gains
  /\ pc' = "assign"
  /\ UNCHANGED <<openVars, shutterSpeed, asked, manual, gains,
                 askedGains, lateGains, events, crashed>>

\* open, last part: the ports get their userdata.
AssignUserdata ==
  /\ pc = "assign"
  /\ userdata' = TRUE /\ isOpened' = TRUE
  /\ pc' = "idle"
  /\ UNCHANGED <<opens, control, stateVars, hwVars, gainVars, events, crashed>>

\* setShutterSpeed: the value, at most 330000, is stored ...
SetShutterSpeed(s) ==
  /\ pc = "idle"
  /\ shutterSpeed' = IF s > 330000 THEN 330000 ELSE s
  /\ asked' = shutterSpeed' /\ manual' = TRUE
  /\ pc' = IF isOpened THEN "shutter" ELSE "idle"
  /\ UNCHANGED <<openVars, exposureMode, hwVars, gainVars, events, crashed>>

\* ... and if the camera is open what State holds by then is committed.
CommitShutterSpeed ==
  /\ pc = "shutter"
  /\ hwShutter' = shutterSpeed
  /\ pc' = "idle"
  /\ UNCHANGED <<openVars, stateVars, hwMode, gainVars, events, crashed>>

SetExposure(m) ==
  /\ pc = "idle"
  /\ exposureMode' = m /\ manual' = (manual \/ m = "fixedfps")
  /\ hwMode' = IF isOpened THEN convertExposure(m) ELSE hwMode
  /\ UNCHANGED <<pc, openVars, shutterSpeed, asked, hwShutter, gainVars,
                 events, crashed>>

\* setAWB_RB: the gains are stored ...
SetGains(g) ==
  /\ pc = "idle"
  /\ gains' = g /\ askedGains' = g /\ lateGains' = (lateGains \/ isOpened)
  /\ pc' = IF isOpened THEN "gains" ELSE "idle"
  /\ UNCHANGED <<openVars, stateVars, hwVars, hwGains, events, crashed>>

\* ... and if the camera is open what State holds by then is committed.
CommitGains ==
  /\ pc = "gains"
  /\ hwGains' = gains
  /\ pc' = "idle"
  /\ UNCHANGED <<openVars, stateVars, hwVars, gains, askedGains, lateGains,
                 events, crashed>>

\* release: the component stops reporting, what it has reported is delivered
\* before it is destroyed.
Release ==
  /\ pc = "idle" /\ isOpened
  /\ control' = FALSE
  /\ pc' = "release"
  /\ UNCHANGED <<isOpened, opens, userdata, stateVars, hwVars, gainVars,
                 events, crashed>>

ReleaseDone ==
  /\ pc = "release" /\ events = <<>>
  /\ isOpened' = FALSE /\ userdata' = FALSE
  /\ pc' = "idle"
  /\ UNCHANGED <<opens, control, stateVars, hwVars, gainVars, events, crashed>>

-----------------------------------------------------------------------------
(* The camera and the callbacks                                            *)

\* MMAL_EVENT_PARAMETER_CHANGED with MMAL_PARAMETER_CAMERA_SETTINGS.
Report(e, g) ==
  /\ control /\ Len(events) < MaxEvents /\ (EarlyEvents \/ isOpened)
  /\ e \in IF hwShutter = 0 THEN Measured ELSE {hwShutter}
  /\ events' = Append(events, [exposure |-> e, gains |-> g])
  /\ UNCHANGED <<pc, openVars, stateVars, hwVars, gainVars, crashed>>

\* camera_control_callback: NULL userdata is dereferenced; otherwise the
\* reported exposure and gains replace those of State.
ControlCallback ==
  /\ events # <<>> /\ ~crashed
  /\ events' = Tail(events)
  /\ crashed' = ~userdata
  /\ IF userdata
     THEN /\ shutterSpeed' = Head(events).exposure
          /\ gains' = Head(events).gains
     ELSE UNCHANGED <<shutterSpeed, gains>>
  /\ UNCHANGED <<pc, openVars, exposureMode, asked, manual, hwVars, hwGains,
                 askedGains, lateGains>>

\* Mutant: the shutter speed is sent again in every mode.
VideoCallbackAnyMode ==
  /\ isOpened /\ control
  /\ shutterSpeed # 0
  /\ hwShutter' = shutterSpeed
  /\ UNCHANGED <<pc, openVars, stateVars, hwMode, gainVars, events, crashed>>

\* video_buffer_callback ends by sending the shutter speed again.
VideoCallback ==
  /\ isOpened /\ control
  /\ shutterSpeed # 0 /\ exposureMode = "fixedfps"
  /\ hwShutter' = shutterSpeed
  /\ UNCHANGED <<pc, openVars, stateVars, hwMode, gainVars, events, crashed>>

Next ==
  \/ CreateCamera \/ CommitParameters \/ AssignUserdata
  \/ \E s \in Shutters : SetShutterSpeed(s)
  \/ CommitShutterSpeed
  \/ \E m \in Modes : SetExposure(m)
  \/ Release \/ ReleaseDone
  \/ \E g \in Gains : SetGains(g)
  \/ CommitGains
  \/ \E e \in Measured \cup {hwShutter}, g \in MeasuredGains \cup {hwGains} :
       Report(e, g)
  \/ ControlCallback \/ VideoCallback

Spec == Init /\ [][Next]_vars

-----------------------------------------------------------------------------
(* Properties                                                              *)

\* The camera runs in the exposure mode getExposure reports, whatever
\* sequence of setters, open and release led here: a mode set before open is
\* committed by open, one that open changes is changed in the camera too.
ModeCommitted ==
  pc = "idle" /\ isOpened => hwMode = convertExposure(exposureMode)

\* What the camera reports into State is never sent back to it as a setting:
\* an application that sets no shutter speed nor the mode of fixed frame rate
\* keeps the shutter automatic, and one that sets its gains before open has
\* these gains.
AutoStaysAuto ==
  pc = "idle" /\ isOpened =>
    /\ ~manual => hwShutter = 0
    /\ ~lateGains => hwGains = askedGains

\* The camera has the shutter speed setShutterSpeed was given.
ShutterHonoured ==
  pc = "idle" /\ isOpened /\ asked # 0 => hwShutter = asked

\* camera_control_callback finds the data assigned for it.
CallbackHasUserdata == ~crashed
=============================================================================
