---------------------------- MODULE VcComponent ----------------------------
(***************************************************************************)
(* A VideoCore component and a port of it, seen from the host              *)
(* (mmal_vc_api.c and mmal_vc_shm.c, with the buffer half of               *)
(* mmal_vc_vchiq_callback).  A request to VideoCore and its reply are one  *)
(* step.                                                                   *)
(*                                                                         *)
(* The component is created by a request to the server and a chain of      *)
(* local allocations, each of which may fail, and destroyed by another     *)
(* request; the host keeps copies of the server's port settings, which a   *)
(* setting of one port may change on others.  On a port, every header sent *)
(* takes a context from the port's block pool, which comes back with the   *)
(* header; zero-copy payloads are known to VideoCore by a handle; and a    *)
(* flush must not overtake data still being copied.  The two halves share  *)
(* no variable: each has its Init and Next.                                *)
(***************************************************************************)
EXTENDS Naturals, FiniteSets, Sequences

CONSTANTS
  MaxVersion,   \* bound: settings a port can go through
  Headers,
  Blocks,       \* buffer_num: contexts in the port's pool
  Versions,     \* versions of the MMAL server: {"old", "new"}
  MaxEnables    \* bound: attempts to enable the port

-----------------------------------------------------------------------------
(* The component                                                           *)

Outputs == {"output0", "output1"}
Ports == Outputs \cup {"input"}

VARIABLES
  stage,        \* how far mmal_vc_component_create is; "none", "alive"
  refs, uses,   \* what it holds of the client: mmal_vc_init, mmal_vc_use
  server,       \* does the server have the component?
  module, ports, queue, action,     \* allocated on the host
  info,         \* the host's copy of each port's settings
  settings,     \* the server's settings of each port
  getting,      \* ports whose settings are still to be fetched
  orphaned,     \* history: a component was left behind on the server
  stale         \* history: ports not fetched because a call failed on the way

hostVars == <<module, ports, queue, action>>
infoVars == <<info, settings, getting, stale>>
bvars == <<stage, refs, uses, server, hostVars, infoVars, orphaned>>

Zero == [p \in Ports |-> 0]

BInit ==
  /\ stage = "none" /\ refs = 0 /\ uses = 0 /\ server = FALSE
  /\ module = FALSE /\ ports = {} /\ queue = FALSE /\ action = FALSE
  /\ info = Zero /\ settings = Zero /\ getting = <<>>
  /\ orphaned = FALSE /\ stale = {}

\* mmal_vc_component_create: mmal_vc_init and mmal_vc_use (what the second
\* returns is ignored),
Create ==
  /\ stage = "none" /\ refs = 0 /\ ~module
  /\ refs' = 1 /\ uses' = 1 /\ stage' = "request"
  /\ UNCHANGED <<server, hostVars, infoVars, orphaned>>

GiveUp == refs' = refs - 1 /\ uses' = uses - 1 /\ stage' = "none"

\* the request,
Request ==
  /\ stage = "request"
  /\ \/ server' = TRUE /\ stage' = "module" /\ UNCHANGED <<refs, uses>>
     \/ UNCHANGED server /\ GiveUp
  /\ UNCHANGED <<hostVars, infoVars, orphaned>>

\* the module (without it the server is asked to destroy, with a message
\* whose handle was never set),
AllocModule ==
  /\ stage = "module"
  /\ \/ module' = TRUE /\ stage' = "ports" /\ UNCHANGED <<refs, uses, orphaned>>
     \/ UNCHANGED module /\ orphaned' = TRUE /\ GiveUp
  /\ UNCHANGED <<server, ports, queue, action, infoVars>>

\* the ports, in order, the callback queue, the action, and the settings of
\* every port.  (Control and clock ports are like the others.)
Alloc ==
  /\ \/ /\ stage = "ports"
        /\ \/ \E p \in Ports \ ports :
                /\ p # "input" => "input" \in ports
                /\ ports' = ports \cup {p}
                /\ stage' = IF ports' = Ports THEN "queue" ELSE "ports"
           \/ stage' = "fail" /\ UNCHANGED ports
        /\ UNCHANGED <<queue, action>>
     \/ /\ stage = "queue"
        /\ queue' \in BOOLEAN /\ stage' = IF queue' THEN "action" ELSE "fail"
        /\ UNCHANGED <<ports, action>>
     \/ /\ stage = "action"
        /\ action' \in BOOLEAN /\ stage' = IF action' THEN "info" ELSE "fail"
        /\ UNCHANGED <<ports, queue>>
  /\ UNCHANGED <<refs, uses, server, module, infoVars, orphaned>>

GetAllInfo ==
  /\ stage = "info"
  /\ \/ info' = settings /\ stale' = {} /\ stage' = "alive"
     \/ UNCHANGED <<info, stale>> /\ stage' = "fail"
  /\ UNCHANGED <<refs, uses, server, hostVars, settings, getting, orphaned>>

\* Mutant: after a failed request the client is not released.
DestroyKeepsClient ==
  /\ stage \in {"alive", "fail"} /\ getting = <<>>
  /\ \/ /\ server' = FALSE /\ module' = FALSE /\ ports' = {} /\ queue' = FALSE
        /\ GiveUp /\ UNCHANGED orphaned
     \/ /\ orphaned' = TRUE /\ stage' = "none"
        /\ UNCHANGED <<server, module, ports, queue, refs, uses>>
  /\ UNCHANGED <<action, infoVars>>

\* mmal_vc_component_destroy, also the last step of a failed creation: what
\* was allocated is freed only if the server agrees, the client is released
\* in any case.
Destroy ==
  /\ stage \in {"alive", "fail"} /\ getting = <<>>
  /\ \/ /\ server' = FALSE /\ module' = FALSE /\ ports' = {} /\ queue' = FALSE
        /\ UNCHANGED orphaned
     \/ /\ orphaned' = TRUE
        /\ UNCHANGED <<server, module, ports, queue>>
  /\ GiveUp
  /\ UNCHANGED <<action, infoVars>>

\* The core ends the action thread before or after that.
EndAction ==
  /\ stage = "none" /\ action /\ action' = FALSE
  /\ UNCHANGED <<stage, refs, uses, server, module, ports, queue, infoVars, orphaned>>

\* Mutant: the settings of the output ports are not fetched.
AffectedSelf(p) == <<p>>

\* mmal_vc_port_set_format fetches the settings of the port it has set, and
\* of the output ports if that was an input port.
Affected(p) == IF p = "input" THEN <<"input", "output0", "output1">> ELSE <<p>>

\* mmal_vc_port_set_format, and mmal_vc_port_parameter_set of the buffer
\* requirements, send the new settings: the server takes them, and may adapt
\* the output ports to a new input.
SetFormat(p) ==
  /\ stage = "alive" /\ getting = <<>>
  /\ settings[p] < MaxVersion
  /\ \/ \E also \in SUBSET (IF p = "input" THEN Outputs ELSE {}) :
          /\ settings' = [q \in Ports |-> IF q \in also \cup {p} /\ settings[q] < MaxVersion
                                          THEN settings[q] + 1 ELSE settings[q]]
          /\ info' = [info EXCEPT ![p] = settings'[p]]
          /\ getting' = Affected(p)
     \/ UNCHANGED <<settings, info, getting>>       \* refused
  /\ UNCHANGED <<stage, refs, uses, server, hostVars, stale, orphaned>>

\* mmal_vc_port_info_get and mmal_vc_port_requirements_get: the first
\* failure ends the call.
GetInfo ==
  /\ getting # <<>>
  /\ \/ /\ info' = [info EXCEPT ![Head(getting)] = settings[Head(getting)]]
        /\ getting' = Tail(getting) /\ stale' = stale \ {Head(getting)}
     \/ /\ getting' = <<>> /\ UNCHANGED info
        /\ stale' = stale \cup {getting[i] : i \in 1..Len(getting)}
  /\ UNCHANGED <<stage, refs, uses, server, hostVars, settings, orphaned>>

BNext ==
  \/ Create \/ Request \/ AllocModule \/ Alloc \/ GetAllInfo \/ Destroy \/ EndAction \/ GetInfo
  \/ \E p \in Ports : SetFormat(p)
BSpec == BInit /\ [][BNext]_bvars

-----------------------------------------------------------------------------
(* A port                                                                  *)

VARIABLES
  version,      \* what mmal_vc_get_version finds
  enabled, connected,
  has_pool, live,       \* module->has_pool; does the block pool exist?
  contexts,             \* headers whose context is allocated
  is_zero_copy, sent_data_on_port,
  shared,               \* headers whose payload is in the payload list
  data,                 \* what buffer->data holds: a host or a VideoCore address
  loc,                  \* where each header is
  callback_queue,
  enables,              \* bounded counter
  refused, enableFailed,  \* history: a disable refused, an enable failed
  misused,              \* history: a dead pool was used, or died with contexts in use
  late                  \* history: headers sent before a flush and copied after it

poolVars == <<has_pool, live, contexts>>
zeroVars == <<is_zero_copy, shared>>
histVars == <<refused, enableFailed, misused>>
vvars == <<version, enabled, connected, poolVars, zeroVars, sent_data_on_port, data, loc,
           callback_queue, enables, histVars, late>>

VInit ==
  /\ version \in Versions
  /\ enabled = FALSE /\ connected = FALSE
  /\ has_pool = FALSE /\ live = FALSE /\ contexts = {}
  /\ is_zero_copy = FALSE /\ sent_data_on_port = FALSE /\ shared = {}
  /\ data = [h \in Headers |-> "host"] /\ loc = [h \in Headers |-> "client"]
  /\ callback_queue = <<>> /\ enables = 0
  /\ refused = FALSE /\ enableFailed = FALSE /\ misused = FALSE /\ late = {}

Set(f, h, v) == f' = [f EXCEPT ![h] = v]
Away == {h \in Headers : loc[h] \notin {"client", "queue"}}

\* mmal_vc_port_enable.  Unless the port is connected it gets a pool; if the
\* server refuses the pool is deleted, but has_pool is left set.
Enable ==
  /\ ~enabled /\ enables < MaxEnables /\ enables' = enables + 1
  /\ \/ /\ enabled' = TRUE                            \* the server agrees
        /\ has_pool' = (has_pool \/ ~connected) /\ live' = ~connected
        /\ UNCHANGED <<enableFailed, misused>>
     \/ /\ enableFailed' = TRUE
        /\ has_pool' = (has_pool \/ ~connected) /\ live' = FALSE
        /\ misused' = (misused \/ (connected /\ has_pool /\ ~live))
        /\ UNCHANGED enabled
  /\ contexts' = IF connected THEN contexts ELSE {}
  /\ UNCHANGED <<version, connected, zeroVars, sent_data_on_port, data, loc, callback_queue,
                 refused, late>>

\* mmal_vc_port_connect, to a port of another VideoCore component, and the
\* disconnection.
Connect ==
  /\ ~enabled /\ connected' \in {TRUE, FALSE} \ {connected}
  /\ UNCHANGED <<version, enabled, poolVars, zeroVars, sent_data_on_port, data, loc,
                 callback_queue, enables, histVars, late>>

\* mmal_vc_port_disable.  A server that agrees has sent every header back;
\* whatever it said the pool is deleted and the queued callbacks are made.
Disable ==
  /\ enabled
  /\ \/ Away = {} /\ enabled' = FALSE /\ UNCHANGED refused
     \/ refused' = TRUE /\ UNCHANGED enabled
  /\ has_pool' = FALSE /\ live' = FALSE /\ contexts' = {}
  /\ misused' = (misused \/ (has_pool /\ (~live \/ contexts # {})))
  /\ callback_queue' = <<>>
  /\ loc' = [h \in Headers |-> IF loc[h] = "queue" THEN "client" ELSE loc[h]]
  /\ data' = [h \in Headers |-> IF loc[h] = "queue" THEN "host" ELSE data[h]]
  /\ UNCHANGED <<version, connected, zeroVars, sent_data_on_port, enables, enableFailed, late>>

\* MMAL_PARAMETER_ZERO_COPY, and the payloads allocated for it (the client
\* sets it before it enables the port).
SetZeroCopy ==
  /\ ~enabled /\ Away = {} /\ callback_queue = <<>>
  /\ is_zero_copy' \in BOOLEAN
  /\ shared' = IF is_zero_copy' THEN Headers ELSE {}
  /\ UNCHANGED <<version, enabled, connected, poolVars, sent_data_on_port, data, loc,
                 callback_queue, enables, histVars, late>>

\* Is a header's data sent by a bulk transfer?  Shared memory and short data
\* are not, but an empty header that ends the stream is given 8 bytes, if
\* the server understands that.
Bulk(h, length, eos) ==
  /\ ~is_zero_copy /\ h \notin shared
  /\ length = "long" \/ (eos /\ version = "new")

\* mmal_vc_port_send, without a context to give.
SendRefused(h) ==
  /\ enabled /\ loc[h] = "client"
  /\ ~has_pool \/ Cardinality(contexts) = Blocks
  /\ UNCHANGED vvars

\* Mutant: a send that fails leaves the VideoCore address in the header.
SendFailsUnmapped(h) ==
  /\ enabled /\ loc[h] = "client" /\ has_pool /\ Cardinality(contexts) < Blocks
  /\ \E length \in {"none", "short", "long"}, eos \in BOOLEAN :
       sent_data_on_port' = (sent_data_on_port \/ Bulk(h, length, eos))
  /\ Set(data, h, IF h \in shared THEN "vc" ELSE "host")
  /\ UNCHANGED <<version, enabled, connected, poolVars, zeroVars, loc, callback_queue, enables,
                 histVars, late>>

\* ... when the message cannot be sent: the context is freed and the
\* header's data mapped back.
SendFails(h) ==
  /\ enabled /\ loc[h] = "client" /\ has_pool /\ Cardinality(contexts) < Blocks
  /\ \E length \in {"none", "short", "long"}, eos \in BOOLEAN :
       sent_data_on_port' = (sent_data_on_port \/ Bulk(h, length, eos))
  /\ UNCHANGED <<version, enabled, connected, poolVars, zeroVars, data, loc, callback_queue,
                 enables, histVars, late>>

\* ... and when it can: VideoCore has the message, and the data once the
\* bulk transfer is done.
Send(h) ==
  /\ enabled /\ loc[h] = "client" /\ has_pool /\ Cardinality(contexts) < Blocks
  /\ contexts' = contexts \cup {h}
  /\ Set(data, h, IF h \in shared THEN "vc" ELSE "host")
  /\ \E length \in {"none", "short", "long"}, eos \in BOOLEAN :
       /\ sent_data_on_port' = (sent_data_on_port \/ Bulk(h, length, eos))
       /\ Set(loc, h, IF Bulk(h, length, eos) THEN "copying" ELSE "videocore")
  /\ UNCHANGED <<version, enabled, connected, has_pool, live, zeroVars, callback_queue, enables,
                 histVars, late>>

BulkTransmitDone(h) ==
  /\ loc[h] = "copying" /\ Set(loc, h, "videocore")
  /\ UNCHANGED <<version, enabled, connected, poolVars, zeroVars, sent_data_on_port, data,
                 callback_queue, enables, histVars, late>>

\* Mutant: the context is not freed.
SendCallbackLeaks(h) ==
  /\ UNCHANGED <<contexts, misused>>
  /\ Set(loc, h, "queue")
  /\ callback_queue' = Append(callback_queue, h)

\* mmal_vc_port_send_callback: the context is freed, and the header queued
\* for the action thread.
SendCallback(h) ==
  /\ contexts' = contexts \ {h}
  /\ misused' = (misused \/ ~live)
  /\ Set(loc, h, "queue")
  /\ callback_queue' = Append(callback_queue, h)

\* VideoCore returns a header (BUFFER_TO_HOST): if it carries data that is
\* neither in shared memory nor in the message a bulk transfer is queued,
\* and the callback waits for it, unless it cannot be queued.
ToHost(h) ==
  /\ loc[h] = "videocore"
  /\ late' = late \ {h}
  /\ \/ /\ ~is_zero_copy /\ Set(loc, h, "receiving")
        /\ UNCHANGED <<contexts, misused, callback_queue>>
     \/ SendCallback(h)
  /\ UNCHANGED <<version, enabled, connected, has_pool, live, zeroVars, sent_data_on_port, data,
                 enables, refused, enableFailed>>

\* VCHIQ_BULK_RECEIVE_DONE, and _ABORTED, which only adds a flag.
BulkReceived(h) ==
  /\ loc[h] = "receiving" /\ SendCallback(h)
  /\ UNCHANGED <<version, enabled, connected, has_pool, live, zeroVars, sent_data_on_port, data,
                 enables, refused, enableFailed, late>>

\* mmal_vc_do_callback, on the action thread: the data is mapped back.
DoCallback ==
  /\ callback_queue # <<>>
  /\ LET h == Head(callback_queue) IN Set(loc, h, "client") /\ Set(data, h, "host")
  /\ callback_queue' = Tail(callback_queue)
  /\ UNCHANGED <<version, enabled, connected, poolVars, zeroVars, sent_data_on_port, enables,
                 histVars, late>>

\* Mutant: data sent on the port is not taken into account.
SyncOnlyIfConnected == ~is_zero_copy /\ connected /\ version = "new"

\* mmal_vc_port_flush: once data was sent by a bulk transfer a flush sends a
\* dummy transfer with its message, if the server understands that, ...
Sync == ~is_zero_copy /\ sent_data_on_port /\ version = "new"

\* ... so that it reaches VideoCore after the data.  VideoCore gives up what
\* it has by then.
Flush ==
  /\ enabled
  /\ LET here == {h \in Headers : loc[h] = "videocore" \/ (Sync /\ loc[h] = "copying")} IN
     /\ loc' = [h \in Headers |-> IF h \in here THEN "receiving" ELSE loc[h]]
     /\ late' = (late \ here) \cup {h \in Headers \ here : loc[h] = "copying"}
  /\ UNCHANGED <<version, enabled, connected, poolVars, zeroVars, sent_data_on_port, data,
                 callback_queue, enables, histVars>>

VNext ==
  \/ Enable \/ Connect \/ Disable \/ SetZeroCopy \/ DoCallback \/ Flush
  \/ \E h \in Headers :
       SendRefused(h) \/ SendFails(h) \/ Send(h) \/ BulkTransmitDone(h) \/ ToHost(h)
       \/ BulkReceived(h)
VSpec == VInit /\ [][VNext]_vvars

-----------------------------------------------------------------------------
(* Properties                                                              *)

\* However creation or destruction fails, the client is released as often as
\* it was opened and used; the server and the host keep nothing, unless the
\* server refused to destroy the component or was asked with no handle.
NothingLeftBehind ==
  stage = "none" => /\ refs = 0 /\ uses = 0
                    /\ ~orphaned => ~server /\ ~module /\ ports = {} /\ ~queue

\* Between calls the host's copy of every port's settings is the server's,
\* also of the ports a call did not name, except for the ports an earlier
\* call gave up before fetching.
InfoUpToDate ==
  stage = "alive" /\ getting = <<>> => \A p \in Ports \ stale : info[p] = settings[p]

\* The assertion of mmal_vc_port_disable and more: a pool is deleted once
\* and whole, and no context is freed after its pool; unless the server
\* refused a disable (the pool is deleted all the same) or an enable (which
\* leaves has_pool set, so that a port connected afterwards deletes it again).
PoolIsWhole == misused => refused \/ enableFailed

\* A header that is the client's again holds an address the client can use.
ClientSeesHostMemory == \A h \in Headers : loc[h] = "client" => data[h] = "host"

\* No header sent before a flush reaches VideoCore after it ("a pre-flush
\* buffer arrives after the flush"), if the server can flush in sync.
FlushIsComplete == version = "new" => late = {}

=============================================================================
