--------------------------- MODULE ContainerReader ---------------------------
(***************************************************************************)
(* The container reader (container_reader.c): an action of the component's *)
(* thread reads packets of a file into buffers of the port that plays the  *)
(* packet's track.  A framed port gets a buffer when a frame ends or the   *)
(* buffer is full; until then the buffer goes back to the head of the      *)
(* port's queue.  The thread runs when a buffer is sent, and its trigger   *)
(* is an event: two sends may wake it once.                                *)
(***************************************************************************)
EXTENDS Naturals, Sequences, FiniteSets, SequencesExt

CONSTANTS
  Outs,        \* output ports, by the number of their track
  File,        \* the packets: [track |-> , end |-> does a frame end with it?]
  Framed,      \* the ports with MMAL_ES_FORMAT_FLAG_FRAMED
  BufferNum,   \* buffers of a port
  Room,        \* packets that fit into a buffer
  MaxSeeks, MaxFlushes, MaxErrors, \* bounds
  SeekAnytime  \* may the client seek when all its buffers are with the reader?

Packets == 1..Len(File)
OfTrack(p, from) == SelectSeq([i \in Packets |-> i], LAMBDA i : i >= from /\ File[i].track = p)
Data(bufs) == FlattenSeq([k \in DOMAIN bufs |-> bufs[k].data])
EosBuffer == [data |-> <<>>, eos |-> TRUE]

VARIABLES
  pos, base,           \* the container's next packet; where it was put last
  queue, flush, eos,   \* of each port: buffers (their packets), and the flags
  error,               \* was an error reported?
  event, running,      \* the action's event; does the action run, and at which port's EOS
  client, trigger,     \* buffers the client has; buffers sent but not yet triggered for
  silent,              \* did the last run end at a failure it could not report?
  given, dropped,      \* what a port gave since the file was put; was some dropped by a flush?
  misses,              \* seeks that failed since then
  seeks, flushes, errors

countVars == <<misses, seeks, flushes, errors>>
rvars == <<pos, base, queue, flush, eos, error, event, running, client, trigger, silent, given,
           dropped, countVars>>

Idle == 0

RInit ==
  /\ pos = 1 /\ base = 1
  /\ queue = [p \in Outs |-> <<>>] /\ flush = [p \in Outs |-> FALSE]
  /\ eos = [p \in Outs |-> FALSE] /\ error = FALSE
  /\ event = FALSE /\ running = Idle
  /\ client = [p \in Outs |-> BufferNum] /\ trigger = 0 /\ silent = FALSE
  /\ given = [p \in Outs |-> <<>>] /\ dropped = [p \in Outs |-> FALSE]
  /\ misses = 0 /\ seeks = 0 /\ flushes = 0 /\ errors = 0

-----------------------------------------------------------------------------
(* The client                                                              *)

\* container_port_send: the buffer is queued,
Send(p) ==
  /\ client[p] > 0 /\ client' = [client EXCEPT ![p] = @ - 1]
  /\ queue' = [queue EXCEPT ![p] = Append(@, <<>>)]
  /\ trigger' = trigger + 1
  /\ UNCHANGED <<pos, base, flush, eos, error, event, running, silent, given, dropped, countVars>>

\* Mutant: the action is not triggered while it runs.
TriggerIdle ==
  /\ trigger > 0 /\ trigger' = trigger - 1
  /\ event' = (event \/ running = Idle)
  /\ UNCHANGED <<pos, base, queue, flush, eos, error, running, client, silent, given, dropped,
                 countVars>>

\* and the action triggered.
Trigger ==
  /\ trigger > 0 /\ trigger' = trigger - 1
  /\ event' = TRUE
  /\ UNCHANGED <<pos, base, queue, flush, eos, error, running, client, silent, given, dropped,
                 countVars>>

\* Mutant: a buffer that is partly filled keeps what it has.
SeekKeeps(to) ==
  /\ running = Idle /\ seeks < MaxSeeks /\ seeks' = seeks + 1
  /\ SeekAnytime \/ \A p \in Outs : client[p] > 0
  /\ eos' = [p \in Outs |-> FALSE]
  /\ pos' = to /\ base' = to
  /\ given' = [p \in Outs |-> <<>>] /\ dropped' = [p \in Outs |-> FALSE]
  /\ misses' = 0
  /\ UNCHANGED <<queue, flush, error, event, running, client, trigger, silent, flushes, errors>>

\* reader_container_seek, with the actions locked.
Seek(to) ==
  /\ running = Idle /\ seeks < MaxSeeks /\ seeks' = seeks + 1
  /\ SeekAnytime \/ \A p \in Outs : client[p] > 0
  /\ eos' = [p \in Outs |-> FALSE] /\ flush' = [p \in Outs |-> TRUE]
  /\ pos' = to /\ base' = to
  /\ given' = [p \in Outs |-> <<>>] /\ dropped' = [p \in Outs |-> FALSE]
  /\ misses' = 0
  /\ UNCHANGED <<queue, error, event, running, client, trigger, silent, flushes, errors>>

PartlyFilled(p) == queue[p] # <<>> /\ Head(queue[p]) # <<>>

\* The container cannot seek and stays where it is: the flags were changed all
\* the same, so that what a buffer has will be dropped and the end told again.
SeekFails ==
  /\ running = Idle /\ seeks < MaxSeeks /\ seeks' = seeks + 1
  /\ SeekAnytime \/ \A p \in Outs : client[p] > 0
  /\ eos' = [p \in Outs |-> FALSE] /\ flush' = [p \in Outs |-> TRUE]
  /\ dropped' = [p \in Outs |-> dropped[p] \/ (PartlyFilled(p) /\ ~flush[p])]
  /\ misses' = misses + 1
  /\ UNCHANGED <<pos, base, queue, error, event, running, client, trigger, silent, given, flushes,
                 errors>>

\* container_port_flush, with the actions locked: what a buffer has is lost.
Flush(p) ==
  /\ running = Idle /\ flushes < MaxFlushes /\ flushes' = flushes + 1
  /\ queue' = [queue EXCEPT ![p] = <<>>]
  /\ client' = [client EXCEPT ![p] = @ + Len(queue[p])]
  /\ dropped' = [dropped EXCEPT ![p] = @ \/ Data([k \in DOMAIN queue[p] |-> [data |-> queue[p][k]]]) # <<>>]
  /\ UNCHANGED <<pos, base, flush, eos, error, event, running, trigger, silent, given, misses, seeks,
                 errors>>

-----------------------------------------------------------------------------
(* reader_do_processing                                                    *)

\* mmal_component_action_thread_func
Start ==
  /\ event /\ running = Idle
  /\ event' = FALSE /\ running' = 1 /\ silent' = FALSE
  /\ UNCHANGED <<pos, base, queue, flush, eos, error, client, trigger, given, dropped, countVars>>

Reads == running = 1 /\ pos <= Len(File)
Port == File[pos].track

\* A packet of no port's track is skipped.
Skip ==
  /\ Reads /\ Port \notin Outs
  /\ pos' = pos + 1
  /\ UNCHANGED <<base, queue, flush, eos, error, event, running, client, trigger, silent, given,
                 dropped, countVars>>

\* No buffer: the action ends, to try again next time.
NoBuffer ==
  /\ Reads /\ Port \in Outs /\ queue[Port] = <<>>
  /\ running' = Idle
  /\ UNCHANGED <<pos, base, queue, flush, eos, error, event, client, trigger, silent, given, dropped,
                 countVars>>

\* The packet is read into the first buffer, after what it has unless a seek
\* came; the buffer leaves or goes back to the head of the queue.
Read ==
  LET buf == (IF flush[Port] THEN <<>> ELSE Head(queue[Port])) \o <<pos>>
      goes == Port \notin Framed \/ Len(buf) = Room \/ File[pos].end
  IN /\ Reads /\ Port \in Outs /\ queue[Port] # <<>>
     /\ pos' = pos + 1 /\ flush' = [flush EXCEPT ![Port] = FALSE]
     /\ queue' = [queue EXCEPT ![Port] = IF goes THEN Tail(@) ELSE <<buf>> \o Tail(@)]
     /\ IF goes
        THEN /\ given' = [given EXCEPT ![Port] = Append(@, [data |-> buf, eos |-> FALSE])]
             /\ client' = [client EXCEPT ![Port] = @ + 1]
        ELSE UNCHANGED <<given, client>>
     /\ UNCHANGED <<base, eos, error, event, running, trigger, silent, dropped, countVars>>

\* The container cannot read, for once: the packet's description or, with a
\* buffer taken that a seek may have emptied, its data.  The first such error is
\* reported, if there is a buffer for the event.
ReadFails ==
  /\ Reads /\ errors < MaxErrors /\ errors' = errors + 1
  /\ \/ UNCHANGED <<queue, flush>>
     \/ /\ Port \in Outs /\ queue[Port] # <<>> /\ flush[Port]
        /\ queue' = [queue EXCEPT ![Port] = <<<<>>>> \o Tail(@)]
        /\ flush' = [flush EXCEPT ![Port] = FALSE]
  /\ error' \in {TRUE, error} /\ silent' = ~error'
  /\ running' = Idle
  /\ UNCHANGED <<pos, base, eos, event, client, trigger, given, dropped, misses, seeks, flushes>>

\* Mutant: a port is told of the end of the stream again.
SendEosAgain ==
  /\ running \in Outs /\ pos > Len(File)
  /\ IF queue[running] # <<>>
     THEN /\ queue' = [queue EXCEPT ![running] = Tail(@)]
          /\ eos' = [eos EXCEPT ![running] = TRUE]
          /\ given' = [given EXCEPT ![running] = Append(@, EosBuffer)]
          /\ client' = [client EXCEPT ![running] = @ + 1]
     ELSE UNCHANGED <<queue, eos, given, client>>
  /\ running' = IF running = Cardinality(Outs) THEN Idle ELSE running + 1
  /\ UNCHANGED <<pos, base, flush, error, event, trigger, silent, dropped, countVars>>

\* At the end of the file each port that has not been told is, once it has a
\* buffer; what that buffer has is dropped.
SendEos ==
  /\ running \in Outs /\ pos > Len(File)
  /\ IF queue[running] # <<>> /\ ~eos[running]
     THEN /\ queue' = [queue EXCEPT ![running] = Tail(@)]
          /\ eos' = [eos EXCEPT ![running] = TRUE]
          /\ given' = [given EXCEPT ![running] = Append(@, EosBuffer)]
          /\ client' = [client EXCEPT ![running] = @ + 1]
     ELSE UNCHANGED <<queue, eos, given, client>>
  /\ running' = IF running = Cardinality(Outs) THEN Idle ELSE running + 1
  /\ UNCHANGED <<pos, base, flush, error, event, trigger, silent, dropped, countVars>>

Action == Start \/ Skip \/ NoBuffer \/ Read \/ SendEos

RNext == \/ Action \/ Trigger \/ ReadFails \/ SeekFails
         \/ \E p \in Outs : Send(p) \/ Flush(p)
         \/ \E to \in Packets : Seek(to)

\* The threads run on and the client sends every buffer it gets.
RFair == WF_rvars(Action) /\ WF_rvars(Trigger) /\ \A p \in Outs : WF_rvars(Send(p))
RSpec == RInit /\ [][RNext]_rvars
RFairSpec == RSpec /\ RFair

-----------------------------------------------------------------------------
(* Properties                                                              *)

TypeOK ==
  /\ pos \in 1..(Len(File) + 1) /\ running \in {Idle} \cup Outs
  /\ \A p \in Outs : Len(queue[p]) + client[p] = BufferNum /\ Len(given[p]) <= 9

\* From where the file was put, a port gives its track's packets in order and
\* each once, whatever was left in buffers by what was read before a seek.  A
\* flush drops what a buffer has, and so does a seek that fails.
InOrder ==
  \A p \in Outs : ~dropped[p] => IsPrefix(Data(given[p]), OfTrack(p, base))

\* A buffer of a framed port has packets of one frame.
FramesApart ==
  \A p \in Framed \cap Outs : \A k \in DOMAIN given[p] : LET d == given[p][k].data IN
    \A i \in DOMAIN d : i < Len(d) => ~File[d[i]].end

\* The end of the stream is told after everything else, once, and once more
\* for each seek that failed.
EosLast ==
  \A p \in Outs :
    LET ends == {k \in DOMAIN given[p] : given[p][k].eos}
    IN /\ Cardinality(ends) <= 1 + misses
       /\ \A k \in ends : \A m \in k..Len(given[p]) : m \in ends
       /\ ends # {} /\ ~dropped[p] => Data(given[p]) = OfTrack(p, base)

\* The file is played to its end, on every port, unless an error was reported
\* or the reading stopped at one that could not be: no buffer sent since then
\* has started it again.
Finished == \A p \in Outs : eos[p] \/ error \/ silent
PlaysToEnd == <>[]Finished
=============================================================================
