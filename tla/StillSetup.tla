----------------------------- MODULE StillSetup -----------------------------
(***************************************************************************)
(* Setting the still camera up: initialize, createCamera, createEncoder,   *)
(* connectPorts and what they undo when a step fails (class                *)
(* Private_Impl_Still), attempt after attempt, and takePicture, which      *)
(* looks at the pointers whatever initialize returned.                     *)
(*                                                                         *)
(* Every attempt to create a component gives it the number of the attempt; *)
(* 0 is NULL.  A component exists while somebody holds a reference: the    *)
(* application until mmal_component_destroy, and each pool made on one of  *)
(* its ports, whose payloads hold the port.  A pointer may outlive what it *)
(* points to: it is used all the same.                                     *)
(***************************************************************************)
EXTENDS Integers, FiniteSets

CONSTANTS
  MaxAttempts,  \* bound: calls of initialize that get past its test
  OpenFirst     \* does the application take pictures only after open succeeded?

SetupBounds == MaxAttempts \in Nat \ {0} /\ OpenFirst \in BOOLEAN

VARIABLES
  isInitialized,      \* _isInitialized
  camera, encoder,    \* the component pointers
  encoder_pool,       \* the pool pointer, [owner, attempt]; NoPool is NULL
  output_port,        \* encoder_output_port: the encoder it is a port of
  encoder_connection, \* the attempt that connected the ports
  owned,              \* components not destroyed by the application
  pools,              \* pools that exist
  place,              \* where the application is
  attempt,            \* number of the current attempt
  trouble             \* what the application ran into: see TroubleKinds

setup == <<isInitialized, camera, encoder, encoder_pool, output_port,
           encoder_connection, owned, pools, place, attempt, trouble>>

\* A step of set-up failed ("camera pool": with no pool for the camera,
\* "ports": the encoder after its ports were fetched, "encoder pool",
\* "connect"), or memory was used that is not there: NULL or freed.
TroubleKinds == {"encoder", "ports", "encoder pool", "connect", "NULL", "freed"}

NoPool == [owner |-> "none", attempt |-> 0]
Camera(n) == [owner |-> "camera", attempt |-> n]
Encoder(n) == [owner |-> "encoder", attempt |-> n]

\* The components there are: destroyed or not, a pool keeps its component.
Exists == owned \cup pools

Init ==
  /\ isInitialized = FALSE
  /\ camera = 0 /\ encoder = 0 /\ encoder_pool = NoPool
  /\ output_port = 0 /\ encoder_connection = 0
  /\ owned = {} /\ pools = {}
  /\ place = "idle" /\ attempt = 0 /\ trouble = {}

\* initialize returns at once, or starts over.
Initialize ==
  /\ place = "idle"
  /\ IF isInitialized
     THEN place' = "ready" /\ UNCHANGED attempt
     ELSE attempt < MaxAttempts /\ place' = "camera" /\ attempt' = attempt + 1
  /\ UNCHANGED <<isInitialized, camera, encoder, encoder_pool, output_port,
                 encoder_connection, owned, pools, trouble>>

\* commitParameters, from createCamera: settings go to the encoder's port if
\* the pointer is set, be it of an encoder of an earlier attempt.
CommitTouches ==
  IF output_port # 0 /\ Encoder(output_port) \notin Exists THEN {"freed"} ELSE {}

\* mmal_component_create fails: NULL, and nothing is left to destroy.
CreateCameraFails ==
  /\ place = "camera"
  /\ camera' = 0 /\ place' = "failed"
  /\ UNCHANGED <<isInitialized, encoder, encoder_pool, output_port,
                 encoder_connection, owned, pools, attempt, trouble>>

\* A later step fails: no output ports, the control port, the format,
\* enabling the component; or the pool, which leaves encoder_pool NULL.
\* destroyCamera.
SetUpCameraFails ==
  /\ place = "camera"
  /\ camera' = 0 /\ place' = "failed"
  /\ \/ UNCHANGED <<encoder_pool, trouble>>
     \/ UNCHANGED encoder_pool /\ trouble' = trouble \cup CommitTouches
     \/ encoder_pool' = NoPool /\ trouble' = trouble \cup CommitTouches
  /\ UNCHANGED <<isInitialized, encoder, output_port, encoder_connection,
                 owned, pools, attempt>>

\* createCamera succeeds; encoder_pool is the camera's pool for the moment.
CreateCamera ==
  /\ place = "camera"
  /\ camera' = attempt
  /\ owned' = owned \cup {Camera(attempt)}
  /\ pools' = pools \cup {Camera(attempt)}
  /\ encoder_pool' = Camera(attempt)
  /\ trouble' = trouble \cup CommitTouches
  /\ place' = "encoder"
  /\ UNCHANGED <<isInitialized, encoder, output_port, encoder_connection,
                 attempt>>

\* mmal_component_create fails for the encoder: destroyEncoder has a pool to
\* destroy and reads encoder->output[0] through NULL.
CreateEncoderFails ==
  /\ place = "encoder"
  /\ encoder' = 0
  /\ trouble' = trouble \cup {"encoder", "NULL"}
  /\ place' = "crashed"
  /\ UNCHANGED <<isInitialized, camera, encoder_pool, output_port,
                 encoder_connection, owned, pools, attempt>>

\* Mutant: the camera is left to the destructor.
SetUpEncoderFailsOnly ==
  /\ place = "encoder"
  /\ encoder' = 0
  /\ \E portsFetched \in BOOLEAN :
       IF portsFetched
       THEN output_port' = attempt /\ trouble' = trouble \cup {"ports"}
       ELSE UNCHANGED <<output_port, trouble>>
  /\ pools' = pools \ {encoder_pool}
  /\ place' = "failed"
  /\ UNCHANGED <<isInitialized, camera, encoder_pool, encoder_connection,
                 owned, attempt>>

\* The encoder has no input port, or its format cannot be set or it cannot be
\* enabled: destroyEncoder destroys the camera's pool, keeping the pointer,
\* and the encoder, and initialize the camera.
SetUpEncoderFails ==
  /\ place = "encoder"
  /\ encoder' = 0 /\ camera' = 0
  /\ \E portsFetched \in BOOLEAN :
       IF portsFetched
       THEN output_port' = attempt /\ trouble' = trouble \cup {"ports"}
       ELSE UNCHANGED <<output_port, trouble>>
  /\ pools' = pools \ {encoder_pool}
  /\ owned' = owned \ {Camera(camera)}
  /\ place' = "failed"
  /\ UNCHANGED <<isInitialized, encoder_pool, encoder_connection, attempt>>

\* The encoder's pool cannot be made: the pointer to the camera's pool is
\* gone, and with it the camera is never freed.
EncoderPoolFails ==
  /\ place = "encoder"
  /\ encoder' = 0 /\ camera' = 0 /\ encoder_pool' = NoPool
  /\ output_port' = attempt
  /\ owned' = owned \ {Camera(camera)}
  /\ trouble' = trouble \cup {"ports", "encoder pool"}
  /\ place' = "failed"
  /\ UNCHANGED <<isInitialized, encoder_connection, pools, attempt>>

CreateEncoder ==
  /\ place = "encoder"
  /\ encoder' = attempt /\ output_port' = attempt
  /\ owned' = owned \cup {Encoder(attempt)}
  /\ pools' = pools \cup {Encoder(attempt)}
  /\ encoder_pool' = Encoder(attempt)
  /\ place' = "connect"
  /\ UNCHANGED <<isInitialized, camera, encoder_connection, attempt, trouble>>

ConnectPorts ==
  /\ place = "connect"
  /\ encoder_connection' = attempt
  /\ isInitialized' = TRUE
  /\ place' = "ready"
  /\ UNCHANGED <<camera, encoder, encoder_pool, output_port, owned, pools,
                 attempt, trouble>>

\* Mutant: _isInitialized is set before the ports are connected.
ConnectPortsFailsLate ==
  /\ place = "connect"
  /\ isInitialized' = TRUE
  /\ trouble' = trouble \cup {"connect"}
  /\ place' = "failed"
  /\ UNCHANGED <<camera, encoder, encoder_pool, output_port,
                 encoder_connection, owned, pools, attempt>>

\* Mutant: what was set up is destroyed, the pointer to the port is kept.
ConnectPortsFailsDestroy ==
  /\ place = "connect"
  /\ camera' = 0 /\ encoder' = 0
  /\ owned' = owned \ {Camera(camera), Encoder(encoder)}
  /\ pools' = pools \ {encoder_pool}
  /\ trouble' = trouble \cup {"connect"}
  /\ place' = "failed"
  /\ UNCHANGED <<isInitialized, encoder_pool, output_port, encoder_connection,
                 attempt>>

\* connectPorts fails: initialize returns -1 and destroys nothing.
ConnectPortsFails ==
  /\ place = "connect"
  /\ trouble' = trouble \cup {"connect"}
  /\ place' = "failed"
  /\ UNCHANGED <<isInitialized, camera, encoder, encoder_pool, output_port,
                 encoder_connection, owned, pools, attempt>>

\* open returned, or takePicture ignores that initialize failed.
Opened ==
  /\ place = "ready" /\ place' = "idle"
  /\ UNCHANGED <<isInitialized, camera, encoder, encoder_pool, output_port,
                 encoder_connection, owned, pools, attempt, trouble>>

OpenFailed ==
  /\ place = "failed" /\ place' = "idle"
  /\ UNCHANGED <<isInitialized, camera, encoder, encoder_pool, output_port,
                 encoder_connection, owned, pools, attempt, trouble>>

\* What takePicture uses: encoder_output_port and encoder_pool.
TakePicture ==
  /\ place = "ready" \/ (place = "failed" /\ ~OpenFirst)
  /\ trouble' = trouble \cup
       (IF output_port = 0 \/ encoder_pool = NoPool THEN {"NULL"} ELSE {}) \cup
       (IF \/ output_port # 0 /\ Encoder(output_port) \notin Exists
           \/ encoder_pool # NoPool /\ encoder_pool \notin pools
        THEN {"freed"} ELSE {})
  /\ place' = IF {"NULL", "freed"} \cap trouble' = {} THEN "idle" ELSE "crashed"
  /\ UNCHANGED <<isInitialized, camera, encoder, encoder_pool, output_port,
                 encoder_connection, owned, pools, attempt>>

Next ==
  \/ Initialize \/ CreateCameraFails \/ SetUpCameraFails \/ CreateCamera
  \/ CreateEncoderFails \/ SetUpEncoderFails \/ EncoderPoolFails
  \/ CreateEncoder \/ ConnectPorts \/ ConnectPortsFails
  \/ Opened \/ OpenFailed \/ TakePicture

Spec == Init /\ [][Next]_setup

-----------------------------------------------------------------------------
(* Properties                                                              *)

\* A camera that is open is whole, whatever attempts failed before: the two
\* components, the pool and the ports are there, all of the same attempt.
ReadyWhenInitialized ==
  isInitialized =>
    /\ camera > 0 /\ encoder = camera /\ output_port = camera
    /\ encoder_connection = camera
    /\ encoder_pool = Encoder(encoder) /\ encoder_pool \in pools
    /\ {Camera(camera), Encoder(encoder)} \subseteq owned

\* A failed attempt takes its camera with it (the firmware lends it to one
\* client at a time), except where the code forgets: connectPorts failed, or
\* the encoder's pool, or the camera's pool is overwritten by the encoder's.
OneCamera ==
  (trouble \cap {"connect", "encoder pool"} = {} /\ place # "crashed") =>
     Cardinality({c \in Exists : c.owner = "camera"}) <= 1

\* Memory that is not there is used only after the encoder could not be set
\* up, by an application that looks at what open returns.
LiveUnlessEncoderFailed ==
  (OpenFirst /\ {"NULL", "freed"} \cap trouble # {}) =>
     {"encoder", "ports"} \cap trouble # {}
=============================================================================
