----------------------------- MODULE MmalPause ------------------------------
(***************************************************************************)
(* What the ports of an MMAL component do with headers while the component *)
(* is paused (mmal_port.c, mmal_component.c).  A paused port queues what   *)
(* it is sent; a resumed one hands the queue to the component; a flushed   *)
(* or disabled one gives it back through the callback.  Sending, resuming, *)
(* flushing and disabling run on different threads and share the sending   *)
(* lock, the port lock and the count of headers in transit.                *)
(***************************************************************************)
EXTENDS Naturals, Sequences

CONSTANTS
  MaxSends,     \* bound: headers sent to a port in a behaviour
  SendFails,    \* may pf_send refuse a header while a port is resumed?
  MaxToggles    \* bound: mmal_component_enable and _disable calls

Ports == {"input", "output"}
PortOrder == <<"input", "output">>
Tickets == 1..MaxSends      \* the n-th header sent to a port is ticket n

VARIABLES
  comp,         \* component->is_enabled
  todo,         \* ports mmal_component_enable or _disable has still to do
  resuming,     \* is it mmal_component_enable that runs?
  toggles,
  enabled, paused, callback,      \* is_enabled, is_paused, the callback is set
  queue,        \* queue_first ... queue_last
  transit,      \* the count of headers in transit
  inside,       \* headers the component has, in the order it got them
  flush,        \* headers mmal_port_flush still has to give back
  disable,      \* where mmal_port_disable_internal is
  sent,         \* history: headers accepted by the port so far
  given,        \* history: the last header handed to the component
  back,         \* history: headers given back, and how often
  stray,        \* history: a callback made through NULL
  skipped       \* history: ports resumed while they were being disabled

compVars == <<comp, todo, resuming, toggles, skipped>>
portVars == <<enabled, paused, callback>>
dataVars == <<queue, transit, inside, sent, given, back, stray>>
avars == <<compVars, portVars, dataVars, flush, disable>>

AInit ==
  /\ comp = FALSE /\ todo = <<>> /\ resuming = FALSE /\ toggles = 0
  /\ stray = FALSE /\ skipped = {}
  /\ enabled = [p \in Ports |-> FALSE]
  /\ paused = [p \in Ports |-> FALSE]   \* even before the first mmal_component_enable
  /\ callback = [p \in Ports |-> FALSE]
  /\ queue = [p \in Ports |-> <<>>] /\ inside = [p \in Ports |-> <<>>]
  /\ flush = [p \in Ports |-> <<>>]
  /\ disable = [p \in Ports |-> "idle"]
  /\ transit = [p \in Ports |-> 0] /\ sent = [p \in Ports |-> 0]
  /\ given = [p \in Ports |-> 0]
  /\ back = [p \in Ports |-> [t \in Tickets |-> 0]]

Set(f, p, v) == f' = [f EXCEPT ![p] = v]

\* mmal_port_enable_internal.
EnablePort(p) ==
  /\ disable[p] = "idle" /\ ~enabled[p] /\ sent[p] = 0   \* bound: once
  /\ Set(enabled, p, TRUE) /\ Set(callback, p, TRUE)
  /\ UNCHANGED <<compVars, paused, dataVars, flush, disable>>

\* mmal_port_send_buffer: all of it is under the sending lock.
Send(p) ==
  /\ enabled[p] /\ sent[p] < MaxSends
  /\ sent' = [sent EXCEPT ![p] = @ + 1]
  /\ transit' = [transit EXCEPT ![p] = @ + 1]
  /\ IF paused[p]
     THEN Set(queue, p, Append(queue[p], sent[p] + 1)) /\ UNCHANGED <<inside, given>>
     ELSE /\ Set(inside, p, Append(inside[p], sent[p] + 1))
          /\ Set(given, p, sent[p] + 1)
          /\ UNCHANGED queue
  /\ UNCHANGED <<compVars, portVars, back, stray, flush, disable>>

\* mmal_port_buffer_header_callback: the callback, and only then one header
\* less in transit.
GiveBack(p, t) ==
  /\ stray' = (stray \/ ~callback[p])
  /\ back' = [back EXCEPT ![p][t] = @ + 1]
  /\ transit' = [transit EXCEPT ![p] = @ - 1]

\* The component is done with a header.
Done(p) ==
  /\ inside[p] # <<>>
  /\ GiveBack(p, Head(inside[p]))
  /\ Set(inside, p, Tail(inside[p]))
  /\ UNCHANGED <<compVars, portVars, queue, sent, given, flush, disable>>

\* mmal_component_enable and mmal_component_disable, for a component without
\* pf_enable and pf_disable: the ports one by one, the inputs first, with
\* the component's lock held throughout.
Toggle ==
  /\ todo = <<>> /\ toggles < MaxToggles
  /\ toggles' = toggles + 1
  /\ resuming' \in BOOLEAN
  /\ todo' = IF resuming' = comp THEN <<>> ELSE PortOrder
  /\ UNCHANGED <<comp, skipped, portVars, dataVars, flush, disable>>

NextPort == /\ todo' = Tail(todo)
            /\ comp' = IF Len(todo) = 1 THEN resuming ELSE comp

\* mmal_port_pause(port, TRUE), or (port, FALSE) on a disabled port.
Pause ==
  /\ todo # <<>>
  /\ LET p == Head(todo) IN
     /\ ~resuming \/ ~enabled[p]
     /\ Set(paused, p, ~resuming)
     /\ skipped' = IF resuming /\ disable[p] # "idle" THEN skipped \cup {p} ELSE skipped
  /\ NextPort
  /\ UNCHANGED <<resuming, toggles, enabled, callback, dataVars, flush, disable>>

\* Mutant: the port is marked as running although a header was refused.
ResumeForgets ==
  /\ todo # <<>> /\ resuming /\ enabled[Head(todo)]
  /\ LET p == Head(todo) IN
     \E n \in 0..Len(queue[p]) :
       /\ n < Len(queue[p]) => SendFails
       /\ Set(inside, p, inside[p] \o SubSeq(queue[p], 1, n))
       /\ Set(given, p, IF n = 0 THEN given[p] ELSE queue[p][n])
       /\ Set(queue, p, SubSeq(queue[p], n + 1, Len(queue[p])))
       /\ Set(paused, p, FALSE) /\ NextPort
  /\ UNCHANGED <<resuming, toggles, skipped, enabled, callback, transit, sent, back, stray,
                 flush, disable>>

\* mmal_port_pause(port, FALSE): the queue goes to the component.  If the
\* n+1-st header is refused the rest stays queued, the port stays paused and
\* mmal_component_enable gives up.
Resume ==
  /\ todo # <<>> /\ resuming /\ enabled[Head(todo)]
  /\ LET p == Head(todo) IN
     \E n \in 0..Len(queue[p]) :
       /\ n < Len(queue[p]) => SendFails
       /\ Set(inside, p, inside[p] \o SubSeq(queue[p], 1, n))
       /\ Set(given, p, IF n = 0 THEN given[p] ELSE queue[p][n])
       /\ Set(queue, p, SubSeq(queue[p], n + 1, Len(queue[p])))
       /\ IF n = Len(queue[p])
          THEN Set(paused, p, FALSE) /\ NextPort
          ELSE todo' = <<>> /\ UNCHANGED <<paused, comp>>
  /\ UNCHANGED <<resuming, toggles, skipped, enabled, callback, transit, sent, back, stray,
                 flush, disable>>

\* mmal_port_flush: the component returns what it has, the queue is cut off
\* under the sending lock, and its headers are given back after the locks
\* have been released.
Flush(p) ==
  /\ flush[p] = <<>> /\ enabled[p]
  /\ \A q \in Ports : disable[q] # "component"      \* the action lock is free
  /\ Set(flush, p, inside[p] \o queue[p])
  /\ Set(inside, p, <<>>) /\ Set(queue, p, <<>>)
  /\ UNCHANGED <<compVars, portVars, transit, sent, given, back, stray, disable>>

FlushNext(p) ==
  /\ flush[p] # <<>>
  /\ GiveBack(p, Head(flush[p]))
  /\ Set(flush, p, Tail(flush[p]))
  /\ UNCHANGED <<compVars, portVars, queue, inside, sent, given, disable>>

\* mmal_port_disable_internal: no header is accepted from here on,
Disable(p) ==
  /\ disable[p] = "idle" /\ enabled[p]
  /\ Set(enabled, p, FALSE)
  /\ Set(disable, p, "component")
  /\ UNCHANGED <<compVars, paused, callback, dataVars, flush>>

\* pf_disable: if it fails the port is enabled again,
DisableRefused(p) ==
  /\ disable[p] = "component"
  /\ Set(enabled, p, TRUE)
  /\ Set(disable, p, "idle")
  /\ UNCHANGED <<compVars, paused, callback, dataVars, flush>>

DisableDone(p) ==
  /\ disable[p] = "component"
  /\ Set(disable, p, "queue")
  /\ UNCHANGED <<compVars, portVars, dataVars, flush>>

\* the queue is given back,
DisableQueue(p) ==
  /\ disable[p] = "queue" /\ queue[p] # <<>>
  /\ GiveBack(p, Head(queue[p]))
  /\ Set(queue, p, Tail(queue[p]))
  /\ UNCHANGED <<compVars, portVars, inside, sent, given, flush, disable>>

\* Mutant: the callback is cleared without waiting for headers in transit.
DisableAtOnce(p) ==
  /\ disable[p] = "queue" /\ queue[p] = <<>>
  /\ Set(callback, p, FALSE)
  /\ Set(disable, p, "idle")
  /\ UNCHANGED <<compVars, enabled, paused, dataVars, flush>>

\* and the callback is cleared once no header is in transit.
DisableWait(p) ==
  /\ disable[p] = "queue" /\ queue[p] = <<>> /\ transit[p] = 0
  /\ Set(callback, p, FALSE)
  /\ Set(disable, p, "idle")
  /\ UNCHANGED <<compVars, enabled, paused, dataVars, flush>>

PortStep(p) ==
  \/ EnablePort(p) \/ Send(p) \/ Done(p) \/ Flush(p) \/ FlushNext(p)
  \/ Disable(p) \/ DisableRefused(p) \/ DisableDone(p) \/ DisableQueue(p) \/ DisableWait(p)

ANext == Toggle \/ Pause \/ Resume \/ \E p \in Ports : PortStep(p)
ASpec == AInit /\ [][ANext]_avars

-----------------------------------------------------------------------------
(* Properties                                                              *)

\* A component is handed headers in the order in which they were sent,
\* through pauses, resumes that fail half way and flushes: what is queued is
\* younger than what was handed over, and in order.  The exception: a port
\* resumed while mmal_port_disable runs keeps its queue, and if pf_disable
\* then fails later headers overtake it.
OrderKept ==
  \A p \in Ports \ skipped :
    LET all == <<given[p]>> \o queue[p] IN
      \A i, j \in 1..Len(all) : i < j => all[i] < all[j]

\* Every header is given back once, through a callback that is set, by the
\* flush, by the disable or by the component, whichever has it; when a
\* disabled port has lost its callback none is left anywhere.
EveryHeaderComesBack ==
  /\ ~stray
  /\ \A p \in Ports :
       /\ \A t \in Tickets : back[p][t] \in {0, 1}
       /\ transit[p] = Len(queue[p]) + Len(inside[p]) + Len(flush[p])
       /\ ~callback[p] => \A t \in 1..sent[p] : back[p][t] = 1

=============================================================================
