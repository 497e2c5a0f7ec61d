------------------------------ MODULE MmalGraph ------------------------------
(***************************************************************************)
(* A graph of MMAL's utility library (mmal_graph.c) over one connection    *)
(* that is neither tunnelled nor direct (mmal_connection.c): the client    *)
(* that enables and disables the graph, the worker thread that carries     *)
(* headers from the pool to the output port and from the connection's      *)
(* queue to the input port, the callbacks of the two ports on threads of   *)
(* their components, and the change of format an output port announces.    *)
(*                                                                         *)
(* Data carries the number of the format it is in.  An output port that    *)
(* announces a format fills nothing more until the format is committed.    *)
(***************************************************************************)
EXTENDS Integers, Sequences, FiniteSets

CONSTANTS
  Headers,     \* headers of the connection's pool once it is enabled
  MaxFormats,  \* bound: formats of the stream
  MaxEnables,  \* bound: how often the graph is enabled
  MaxFaults,   \* bound: calls to the ports that fail
  MaxPosts     \* bound: posts that are counted; more of them only wake the
               \* worker for nothing

GraphHeaders == IsFiniteSet(Headers) /\ Headers # {} /\ "event" \notin Headers
GraphBounds == /\ {MaxFormats, MaxEnables, MaxFaults, MaxPosts} \subseteq Nat

VARIABLES
  is_enabled,   \* connection->is_enabled
  outOn, inOn,  \* is_enabled of the two ports
  outFormat, inFormat,  \* their formats, as committed
  streamFormat, \* format of what the component behind the output port makes
  poolQueue,    \* connection->pool->queue
  queue,        \* connection->queue, oldest first: records of header and format
  outHeld,      \* empty headers with the output port
  inHeld,       \* what the input port has, oldest first
  outCb, inCb,  \* has the callback of the port put its header but not posted?
  sema,         \* graph->sema
  stop_thread,  \* graph->stop_thread
  worker,       \* where graph_worker_thread is; "none": there is no thread
  run_again,    \* its local
  client,       \* where the client is
  enables, faults,  \* so far
  wrong         \* history: did the input port get data of another format?

portVars == <<outOn, inOn, outFormat, inFormat>>
headerVars == <<poolQueue, queue, outHeld, inHeld>>
threadVars == <<sema, stop_thread, worker, run_again, client>>
gvars == <<is_enabled, portVars, streamFormat, headerVars, outCb, inCb,
           threadVars, enables, faults, wrong>>

Item(h, f) == [header |-> h, format |-> f]
HeadersOf(s) == {s[i].header : i \in 1 .. Len(s)} \ {"event"}
Posted(n) == IF sema + n > MaxPosts THEN MaxPosts ELSE sema + n
Fault == faults < MaxFaults /\ faults' = faults + 1

GInit ==
  /\ is_enabled = FALSE /\ outOn = FALSE /\ inOn = FALSE
  /\ outFormat = 1 /\ inFormat = 1 /\ streamFormat = 1
  /\ poolQueue = {} /\ queue = <<>> /\ outHeld = {} /\ inHeld = <<>>
  /\ outCb = FALSE /\ inCb = FALSE
  /\ sema = 0 /\ stop_thread = FALSE
  /\ worker = "none" /\ run_again = FALSE
  /\ client = "idle"
  /\ enables = 0 /\ faults = 0 /\ wrong = FALSE

-----------------------------------------------------------------------------
(* The connection                                                          *)

\* mmal_connection_enable: the pool is resized, the output port enabled, then
\* the input port; if that fails the output port is disabled again.
ConnectionEnable ==
  \/ /\ is_enabled' = TRUE /\ outOn' = TRUE /\ inOn' = TRUE
     /\ poolQueue' = IF poolQueue = {} THEN Headers ELSE poolQueue
     /\ UNCHANGED faults
  \/ /\ Fault
     /\ is_enabled' = FALSE
     /\ poolQueue' \in {poolQueue, Headers}  \* before or after the resize
     /\ UNCHANGED <<outOn, inOn>>

\* What mmal_port_disable waits for: no callback of the port is running.  The
\* headers come back through the callbacks: those of the input port to the
\* pool, those of the output port, empty, to the queue.
DisableIn ==
  /\ ~inCb
  /\ inOn' = FALSE /\ inHeld' = <<>>

\* Mutant: what the output port gave back stays in the queue.
ConnectionDisableNoFlush ==
  \/ /\ ~outCb /\ inOn /\ DisableIn
     /\ outOn' = FALSE /\ outHeld' = {}
     /\ poolQueue' = poolQueue \cup HeadersOf(inHeld)
     /\ queue' = queue
     /\ is_enabled' = FALSE
     /\ UNCHANGED faults
  \/ /\ (Fault \/ (~inOn /\ UNCHANGED faults))
     /\ UNCHANGED <<is_enabled, outOn, inOn, headerVars>>
  \/ /\ inOn /\ Fault /\ DisableIn
     /\ poolQueue' = poolQueue \cup HeadersOf(inHeld)
     /\ UNCHANGED <<is_enabled, outOn, queue, outHeld>>

\* mmal_connection_disable: the input port, the output port, then the queue
\* is flushed.  A port that cannot be disabled stays as it is; the input port,
\* once disabled, fails with EINVAL for ever.
ConnectionDisable ==
  \/ /\ ~outCb /\ inOn /\ DisableIn
     /\ outOn' = FALSE /\ outHeld' = {}
     /\ poolQueue' = poolQueue \cup HeadersOf(inHeld) \cup outHeld
                     \cup HeadersOf(queue)
     /\ queue' = <<>>
     /\ is_enabled' = FALSE
     /\ UNCHANGED faults
  \/ /\ (Fault \/ (~inOn /\ UNCHANGED faults))
     /\ UNCHANGED <<is_enabled, outOn, inOn, headerVars>>
  \/ /\ inOn /\ Fault /\ DisableIn
     /\ poolQueue' = poolQueue \cup HeadersOf(inHeld)
     /\ UNCHANGED <<is_enabled, outOn, queue, outHeld>>

-----------------------------------------------------------------------------
(* The client                                                              *)

\* mmal_graph_enable: the thread is created, the ports and connections
\* enabled, the thread told to begin.  stop_thread keeps its value.
GraphEnable ==
  /\ client = "idle" /\ ~is_enabled /\ worker = "none" /\ enables < MaxEnables
  /\ enables' = enables + 1
  /\ worker' = "wait"
  /\ ConnectionEnable
  /\ sema' = Posted(1)
  /\ IF is_enabled' THEN client' = "running" /\ UNCHANGED stop_thread
     ELSE client' = "undo" /\ stop_thread' = TRUE
  /\ UNCHANGED <<outFormat, inFormat, streamFormat, queue, outHeld, inHeld,
                 outCb, inCb, run_again, wrong>>

\* mmal_graph_disable: graph_stop_worker_thread ...
StopWorkerThread ==
  /\ client = "running"
  /\ stop_thread' = TRUE /\ sema' = Posted(1)
  /\ client' = "join"
  /\ UNCHANGED <<is_enabled, portVars, streamFormat, headerVars, outCb, inCb,
                 worker, run_again, enables, faults, wrong>>

Join ==
  /\ client \in {"join", "undo"} /\ worker = "exit"
  /\ worker' = "none"
  /\ client' = IF client = "join" THEN "disable" ELSE "idle"
  /\ UNCHANGED <<is_enabled, portVars, streamFormat, headerVars, outCb, inCb,
                 sema, stop_thread, run_again, enables, faults, wrong>>

\* ... and mmal_connection_disable.
GraphDisable ==
  /\ client = "disable"
  /\ IF is_enabled THEN ConnectionDisable
     ELSE UNCHANGED <<is_enabled, outOn, inOn, headerVars, faults>>
  /\ client' = IF is_enabled' THEN "failed" ELSE "idle"
  /\ UNCHANGED <<outFormat, inFormat, streamFormat, outCb, inCb, sema,
                 stop_thread, worker, run_again, enables, wrong>>

-----------------------------------------------------------------------------
(* The worker thread                                                       *)

\* The semaphore is taken; is the thread to stop?
WorkerWait ==
  /\ worker = "wait" /\ sema > 0
  /\ sema' = sema - 1
  /\ worker' = IF stop_thread THEN "exit" ELSE "empty"
  /\ run_again' = FALSE
  /\ UNCHANGED <<is_enabled, portVars, streamFormat, headerVars, outCb, inCb,
                 stop_thread, client, enables, faults, wrong>>

\* graph_do_processing, first half: empty headers to the output port; one it
\* refuses goes back in front and ends the loop.
SendEmpty ==
  /\ worker = "empty"
  /\ \E h \in poolQueue :
       \/ /\ outOn
          /\ poolQueue' = poolQueue \ {h} /\ outHeld' = outHeld \cup {h}
          /\ run_again' = TRUE
          /\ UNCHANGED <<worker, faults>>
       \/ /\ (Fault \/ (~outOn /\ UNCHANGED faults))
          /\ run_again' = FALSE /\ worker' = "full"
          /\ UNCHANGED <<poolQueue, outHeld>>
  /\ UNCHANGED <<is_enabled, portVars, streamFormat, queue, inHeld, outCb,
                 inCb, sema, stop_thread, client, enables, wrong>>

SentEmpty ==
  /\ worker = "empty" /\ poolQueue = {}
  /\ worker' = "full"
  /\ UNCHANGED <<is_enabled, portVars, streamFormat, headerVars, outCb, inCb,
                 sema, stop_thread, run_again, client, enables, faults, wrong>>

\* graph_process_buffer: data goes to the input port; refused it is released,
\* which puts it in the pool and posts.
ForwardData ==
  /\ Head(queue).header # "event"
  /\ \/ /\ inOn
        /\ inHeld' = Append(inHeld, Head(queue))
        /\ wrong' = (wrong \/ Head(queue).format # inFormat)
        /\ UNCHANGED <<poolQueue, sema, faults>>
     \/ /\ (Fault \/ (~inOn /\ UNCHANGED faults))
        /\ poolQueue' = poolQueue \cup {Head(queue).header} /\ sema' = Posted(1)
        /\ UNCHANGED <<inHeld, wrong>>
  /\ queue' = Tail(queue)
  /\ UNCHANGED <<is_enabled, portVars, outHeld>>

\* mmal_connection_event_format_changed, when the input port supports it and
\* the buffers are large and many enough for the format: the output port commits the format, the event goes on in the
\* stream; the input port commits it when it comes to it.
ForwardEvent ==
  /\ Head(queue).header = "event"
  /\ queue' = Tail(queue)
  /\ \/ /\ inOn
        /\ outFormat' = Head(queue).format
        /\ inHeld' = Append(inHeld, Head(queue))
        /\ inFormat' = Head(queue).format
        /\ UNCHANGED faults
     \/ /\ (Fault \/ (~inOn /\ UNCHANGED faults))
        /\ outFormat' \in {outFormat, Head(queue).format}
        /\ UNCHANGED <<inHeld, inFormat>>
  /\ UNCHANGED <<is_enabled, outOn, inOn, poolQueue, outHeld, sema, wrong>>

\* Mutant: the input port keeps its format.
ReconfigureOutOnly ==
  /\ Head(queue).header = "event"
  /\ ~outCb /\ ~inCb /\ inOn
  /\ queue' = <<>> /\ inHeld' = <<>> /\ outHeld' = {}
  /\ poolQueue' = Headers
  /\ \/ /\ outFormat' = Head(queue).format /\ UNCHANGED inFormat
        /\ UNCHANGED <<is_enabled, outOn, inOn, faults>>
     \/ /\ Fault
        /\ is_enabled' = FALSE /\ outOn' = FALSE /\ inOn' = FALSE
        /\ outFormat' \in {outFormat, Head(queue).format}
        /\ inFormat' \in {inFormat, outFormat'}
  /\ UNCHANGED <<sema, wrong>>

\* mmal_connection_reconfigure: the connection is disabled, what is under way
\* dropped, both formats committed and the connection enabled.  Flushing
\* posts; a step that fails after disabling leaves it disabled.
Reconfigure ==
  /\ Head(queue).header = "event"
  /\ ~outCb /\ ~inCb /\ inOn
  /\ queue' = <<>> /\ inHeld' = <<>> /\ outHeld' = {}
  /\ poolQueue' = Headers
  /\ sema' = Posted(Cardinality(Headers \ poolQueue))
  /\ \/ /\ outFormat' = Head(queue).format /\ inFormat' = outFormat'
        /\ UNCHANGED <<is_enabled, outOn, inOn, faults>>
     \/ /\ Fault
        /\ is_enabled' = FALSE /\ outOn' = FALSE /\ inOn' = FALSE
        /\ outFormat' \in {outFormat, Head(queue).format}
        /\ inFormat' \in {inFormat, outFormat'}
  /\ UNCHANGED wrong

\* ... or cannot be disabled: the input port, or the output port after it.
ReconfigureRefused ==
  /\ Head(queue).header = "event"
  /\ queue' = Tail(queue)
  /\ \/ (Fault \/ (~inOn /\ UNCHANGED faults)) /\ UNCHANGED <<inOn, inHeld, poolQueue>>
     \/ /\ inOn /\ Fault /\ DisableIn
        /\ poolQueue' = poolQueue \cup HeadersOf(inHeld)
  /\ UNCHANGED <<is_enabled, outOn, outFormat, inFormat, outHeld, sema, wrong>>

\* Second half of graph_do_processing, one buffer.
ProcessBuffer ==
  /\ worker = "full" /\ queue # <<>>
  /\ run_again' = TRUE
  /\ ForwardData \/ ForwardEvent \/ Reconfigure \/ ReconfigureRefused
  /\ UNCHANGED <<streamFormat, outCb, inCb, stop_thread, worker, client,
                 enables>>

\* The queue is empty, or PROCESSING_TIME_MAX is over; again if anything was
\* done.
ProcessDone ==
  /\ worker = "full" /\ (queue = <<>> \/ run_again)
  /\ worker' = IF run_again THEN "empty" ELSE "wait"
  /\ run_again' = FALSE
  /\ UNCHANGED <<is_enabled, portVars, streamFormat, headerVars, outCb, inCb,
                 sema, stop_thread, client, enables, faults, wrong>>

-----------------------------------------------------------------------------
(* The ports, on threads of their components                               *)

\* mmal_connection_bh_out_cb puts a full header in the queue ...
OutCallback ==
  /\ outOn /\ ~outCb /\ outFormat = streamFormat
  /\ \E h \in outHeld :
       /\ outHeld' = outHeld \ {h}
       /\ queue' = Append(queue, Item(h, streamFormat))
  /\ outCb' = TRUE
  /\ UNCHANGED <<is_enabled, portVars, streamFormat, poolQueue, inHeld, inCb,
                 threadVars, enables, faults, wrong>>

\* ... or the event that announces a format.
FormatChanged ==
  /\ outOn /\ ~outCb /\ outFormat = streamFormat /\ streamFormat < MaxFormats
  /\ streamFormat' = streamFormat + 1
  /\ queue' = Append(queue, Item("event", streamFormat + 1))
  /\ outCb' = TRUE
  /\ UNCHANGED <<is_enabled, portVars, poolQueue, outHeld, inHeld, inCb,
                 threadVars, enables, faults, wrong>>

\* Mutant: the worker is not told.
OutPostedNot ==
  /\ outCb /\ outCb' = FALSE
  /\ UNCHANGED <<is_enabled, portVars, streamFormat, headerVars, inCb,
                 threadVars, enables, faults, wrong>>

\* graph_connection_cb posts.
OutPosted ==
  /\ outCb /\ outCb' = FALSE
  /\ sema' = Posted(1)
  /\ UNCHANGED <<is_enabled, portVars, streamFormat, headerVars, inCb,
                 stop_thread, worker, run_again, client, enables, faults,
                 wrong>>

\* The input port is done with a header: mmal_connection_bh_in_cb releases
\* it, mmal_connection_bh_release_cb puts it in the pool ...
InCallback ==
  /\ inOn /\ ~inCb /\ inHeld # <<>>
  /\ inHeld' = Tail(inHeld)
  /\ poolQueue' = poolQueue \cup HeadersOf(<<Head(inHeld)>>)
  /\ inCb' = (Head(inHeld).header # "event")
  /\ UNCHANGED <<is_enabled, portVars, streamFormat, queue, outHeld, outCb,
                 threadVars, enables, faults, wrong>>

\* ... and posts.
InPosted ==
  /\ inCb /\ inCb' = FALSE
  /\ sema' = Posted(1)
  /\ UNCHANGED <<is_enabled, portVars, streamFormat, headerVars, outCb,
                 stop_thread, worker, run_again, client, enables, faults,
                 wrong>>

GNext ==
  \/ GraphEnable \/ StopWorkerThread \/ Join \/ GraphDisable
  \/ WorkerWait \/ SendEmpty \/ SentEmpty \/ ProcessBuffer \/ ProcessDone
  \/ OutCallback \/ FormatChanged \/ OutPosted \/ InCallback \/ InPosted

GSpec == GInit /\ [][GNext]_gvars

-----------------------------------------------------------------------------
(* Properties                                                              *)

\* The worker sleeps only when there is nothing to carry: a header put in
\* either queue is always followed by a post.
NothingForgotten ==
  (/\ worker = "wait" /\ sema = 0 /\ is_enabled /\ faults = 0
   /\ ~outCb /\ ~inCb) => poolQueue = {} /\ queue = <<>>

\* The assertion at the end of mmal_connection_disable: all headers are back
\* in the pool; and at any time no header is in two places or in none.
HeadersAccounted ==
  LET places == <<poolQueue, HeadersOf(queue), outHeld, HeadersOf(inHeld)>>
  IN /\ \A i, j \in 1 .. 4 : i # j => places[i] \cap places[j] = {}
     /\ UNION {places[i] : i \in 1 .. 4} \in {{}, Headers}
     /\ client = "idle" => poolQueue \in {{}, Headers}

\* As long as no call fails, data reaches the input port in the format the port
\* was given: nothing made before a change of format overtakes it, and nothing
\* made after it arrives first.
InputKnowsTheFormat == faults = 0 => ~wrong
=============================================================================
