------------------------------- MODULE CopyFlow -------------------------------
(***************************************************************************)
(* Components whose action moves buffers: copy.c, which copies each input  *)
(* buffer and passes changes of format on, and artificial_camera.c, which  *)
(* fills one buffer each time it is triggered.  A change of format stops   *)
(* the copying until the client has committed it on the output port; while *)
(* that port is disabled its format is just set.                           *)
(***************************************************************************)
EXTENDS Naturals, Sequences, FiniteSets

CONSTANTS
  Input,      \* what the client sends: "data" or "event" (a new format)
  OutNum,     \* buffers of the output port
  MaxEventFails, MaxTooSmall, MaxToggles \* bounds

VARIABLES
  kind,                   \* "copy" or "camera"
  sent, inq, outq, back,  \* inputs sent, the two queues, inputs returned
  trigger, event, running,\* sends not yet triggered for, the event, the action
  inFormat, outFormat,    \* of the two ports
  needs, status,          \* needs_configuring, module->status is MMAL_SUCCESS
  output,                 \* the output port: "on", "disabling", "off"
  told, known,            \* the format the client is to commit; the one it committed
  given, lost,            \* [nth, format] that came out; buffers in no queue
  fails, toggles

formats == <<inFormat, outFormat, needs, status, told, known>>
fvars == <<kind, sent, inq, outq, back, trigger, event, running, formats, output, given, lost,
           fails, toggles>>

None == 0

FInit ==
  /\ kind \in {"copy", "camera"}
  /\ sent = 0 /\ inq = <<>> /\ outq = 0 /\ back = 0
  /\ trigger = 0 /\ event = FALSE /\ running = FALSE
  /\ inFormat = 1 /\ outFormat = 1 /\ needs = FALSE /\ status = TRUE
  /\ output = "on" /\ told = None /\ known = 1
  /\ given = <<>> /\ lost = 0 /\ fails = [event |-> 0, small |-> 0] /\ toggles = 0

-----------------------------------------------------------------------------
(* The client                                                              *)

\* copy_port_send, artificial_camera_port_send: queued, then triggered.
SendIn ==
  /\ kind = "copy" /\ sent < Len(Input) /\ sent' = sent + 1
  /\ inq' = Append(inq, sent') /\ trigger' = trigger + 1
  /\ UNCHANGED <<kind, outq, back, event, running, formats, output, given, lost, fails, toggles>>

SendOut ==
  /\ output = "on" /\ outq + lost < OutNum
  /\ outq' = outq + 1 /\ trigger' = trigger + 1
  /\ UNCHANGED <<kind, sent, inq, back, event, running, formats, output, given, lost, fails,
                 toggles>>

Trigger ==
  /\ trigger > 0 /\ trigger' = trigger - 1 /\ event' = TRUE
  /\ UNCHANGED <<kind, sent, inq, outq, back, running, formats, output, given, lost, fails,
                 toggles>>

\* mmal_port_disable of the output: copy_port_disable returns what is queued,
\* artificial_camera_port_disable nothing,
Disable ==
  /\ output = "on" /\ ~running /\ (told # None \/ toggles < MaxToggles)
  /\ toggles' = IF told # None THEN toggles ELSE toggles + 1
  /\ output' = "disabling"
  /\ outq' = IF kind = "copy" THEN 0 ELSE outq
  /\ UNCHANGED <<kind, sent, inq, back, trigger, event, running, formats, given, lost, fails>>

\* and then it waits for all buffers in transit.
Disabled ==
  /\ output = "disabling" /\ outq + lost = 0 /\ output' = "off"
  /\ UNCHANGED <<kind, sent, inq, outq, back, trigger, event, running, formats, given, lost, fails,
                 toggles>>

\* copy_output_port_format_commit: refused unless it is the input's format.
Commit ==
  /\ output = "off" /\ told # None
  /\ IF told = inFormat
     THEN outFormat' = told /\ known' = told /\ needs' = FALSE /\ event' = TRUE
     ELSE UNCHANGED <<outFormat, known, needs, event>>
  /\ told' = None
  /\ UNCHANGED <<kind, sent, inq, outq, back, trigger, running, inFormat, status, output, given,
                 lost, fails, toggles>>

Enable ==
  /\ output = "off" /\ told = None /\ output' = "on" /\ known' = outFormat
  /\ UNCHANGED <<kind, sent, inq, outq, back, trigger, event, running, inFormat, outFormat, needs,
                 status, told, given, lost, fails, toggles>>

-----------------------------------------------------------------------------
(* The action                                                              *)

\* mmal_component_action_thread_func
Start ==
  /\ event /\ ~running /\ event' = FALSE /\ running' = TRUE
  /\ UNCHANGED <<kind, sent, inq, outq, back, trigger, formats, output, given, lost, fails, toggles>>

\* artificial_camera_do_processing: one buffer is filled, and no more.
Fill ==
  /\ running /\ kind = "camera" /\ running' = FALSE
  /\ IF outq > 0 THEN outq' = outq - 1 /\ given' = <<[nth |-> 0, format |-> outFormat]>>
     ELSE UNCHANGED <<outq, given>>
  /\ UNCHANGED <<kind, sent, inq, back, trigger, event, formats, output, lost, fails, toggles>>

Copying == running /\ kind = "copy" /\ ~needs /\ inq # <<>>
IsEvent == Input[Head(inq)] = "event"

\* copy_do_processing has nothing to do, may not or cannot.
Stop ==
  /\ running /\ kind = "copy"
  /\ Copying => ~IsEvent /\ (~status \/ outq = 0)
  /\ running' = FALSE
  /\ UNCHANGED <<kind, sent, inq, outq, back, trigger, event, formats, output, given, lost, fails,
                 toggles>>

\* An event with a new format (copy_input_port_format_commit): passed on as an
\* event, or set if the output port is disabled.  It also clears an error.
FormatEvent ==
  /\ Copying /\ IsEvent
  /\ inFormat' = inFormat + 1 /\ status' = TRUE
  /\ IF output = "on" THEN needs' = TRUE /\ told' = inFormat' /\ UNCHANGED outFormat
     ELSE outFormat' = inFormat' /\ UNCHANGED <<needs, told>>
  /\ inq' = Tail(inq) /\ back' = back + 1
  /\ UNCHANGED <<kind, sent, outq, trigger, event, running, known, output, given, lost, fails,
                 toggles>>

\* There is no buffer for the event: the error stops the copying.
FormatEventFails ==
  /\ Copying /\ IsEvent /\ output = "on"
  /\ fails.event < MaxEventFails /\ fails' = [fails EXCEPT !.event = @ + 1]
  /\ inFormat' = inFormat + 1 /\ status' = FALSE
  /\ inq' = Tail(inq) /\ back' = back + 1
  /\ UNCHANGED <<kind, sent, outq, trigger, event, running, outFormat, needs, told, known, output,
                 given, lost, toggles>>

\* Mutant: what waits for the new format is copied all the same.
CopyAnyway ==
  /\ running /\ kind = "copy" /\ inq # <<>> /\ ~IsEvent /\ status /\ outq > 0
  /\ outq' = outq - 1 /\ given' = Append(given, [nth |-> Head(inq), format |-> known])
  /\ inq' = Tail(inq) /\ back' = back + 1
  /\ UNCHANGED <<kind, sent, trigger, event, running, formats, output, lost, fails, toggles>>

Copy ==
  /\ Copying /\ ~IsEvent /\ status /\ outq > 0
  /\ outq' = outq - 1 /\ given' = Append(given, [nth |-> Head(inq), format |-> known])
  /\ inq' = Tail(inq) /\ back' = back + 1
  /\ UNCHANGED <<kind, sent, trigger, event, running, formats, output, lost, fails, toggles>>

\* The output buffer is too small: both buffers are dropped.
TooSmall ==
  /\ Copying /\ ~IsEvent /\ status /\ outq > 0
  /\ fails.small < MaxTooSmall /\ fails' = [fails EXCEPT !.small = @ + 1]
  /\ outq' = outq - 1 /\ inq' = Tail(inq) /\ lost' = lost + 1
  /\ status' = FALSE /\ running' = FALSE
  /\ UNCHANGED <<kind, sent, back, trigger, event, inFormat, outFormat, needs, told, known, output,
                 given, toggles>>

FAction == Start \/ Fill \/ Stop \/ FormatEvent \/ Copy
FNext == \/ FAction \/ FormatEventFails \/ TooSmall
         \/ Trigger \/ SendIn \/ SendOut \/ Disable \/ Disabled \/ Commit \/ Enable

\* The thread runs on, the client goes on with what it began, sends what it
\* has and reacts to events.
FFair == /\ WF_fvars(FAction) /\ WF_fvars(Trigger) /\ WF_fvars(SendIn) /\ WF_fvars(SendOut)
         /\ WF_fvars(Disabled \/ Commit \/ Enable) /\ WF_fvars(told # None /\ Disable)
FSpec == FInit /\ [][FNext]_fvars
FFairSpec == FSpec /\ FFair

-----------------------------------------------------------------------------
(* Properties                                                              *)

TypeOK ==
  /\ back + Len(inq) + (IF kind = "copy" THEN lost ELSE 0) = sent
  /\ outq + lost \in 0..OutNum /\ output \in {"on", "disabling", "off"}

\* The inputs of a type among the first n.
FirstOf(type, n) == {i \in 1 .. n : Input[i] = type}

\* The format the data of an input has.
FormatOf(n) == 1 + Cardinality(FirstOf("event", n))

\* copy_do_processing: the client has committed the format of what it gets.
FormatKnown == \A k \in DOMAIN given : kind = "copy" => given[k].format = FormatOf(given[k].nth)

\* copy_do_processing: data is copied in order, none twice, and none is left
\* out unless an output buffer was too small.
CopiedInOrder ==
  kind = "copy" =>
    /\ \A i, j \in DOMAIN given : i < j => given[i].nth < given[j].nth
    /\ lost = 0 => Len(given) = Cardinality(FirstOf("data", back))

\* mmal_port_disable of copy's output returns, unless a buffer was dropped.
DisableReturns == []<>(kind # "copy" \/ output # "disabling" \/ lost > 0)

\* copy_do_processing: all data comes through, with every change of format
\* the client reacts to, unless an error was sent.
Finished == kind = "camera" \/ back = Len(Input) \/ fails.event + fails.small > 0
CopiesAll == <>[]Finished
=============================================================================
