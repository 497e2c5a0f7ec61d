----------------------------- MODULE MmalTunnel -----------------------------
(***************************************************************************)
(* Two connected MMAL ports (mmal_port.c): an output and an input that     *)
(* pass buffer headers to each other, enabled, disabled and disconnected   *)
(* together through either of them.  The core owns the pool between them;  *)
(* a header the input has released goes straight back to the output        *)
(* through the pool's callback.  The components' threads run against the   *)
(* threads that control the ports; any step of an enable or a disable may  *)
(* fail in the component.                                                  *)
(***************************************************************************)
EXTENDS Naturals, FiniteSets

CONSTANTS
  Controllers,   \* threads that call the port API
  Via,           \* the ports they call it on: a subset of {"out", "in"}
  Headers,       \* buffer headers of the pool
  MaxFailures,   \* bound: failures of the components
  FormatEvents   \* may the output's component send FORMAT_CHANGED?

Ports == {"out", "in"}
Other(p) == IF p = "out" THEN "in" ELSE "out"
Nobody == "nobody"
\* Nobody is no thread, and the calls are made on the two ports.
PortCalls == Nobody \notin Controllers /\ Via \subseteq Ports

VARIABLES
  connected, owns,   \* connected_port is set, core_owns_connection
  enabled,           \* is_enabled of each port
  connLock, portLock, \* connection_lock and lock of each port: their holder
  pool,              \* pool_for_connection: the port that has it, or "none"
  poolCb,            \* the pool's callback is set
  loc,               \* where each header is
  transit,           \* transit_buffer_headers of each port
  at, op, via,       \* where each controller is, in which call, on which port
  event,             \* the output's component thread is in an event callback
  failures, lost     \* history: failures so far; a live pool was overwritten

portVars == <<connected, owns, enabled, pool, poolCb>>
lockVars == <<connLock, portLock>>
headVars == <<loc, transit>>
callVars == <<at, op, via>>
tvars == <<portVars, lockVars, headVars, callVars, event, failures, lost>>

\* A header is in the pool's queue, with a port's component, or in a port's
\* callback (which may still have to decrement the port's count); "none"
\* while there is no pool.
TInit ==
  /\ connected = FALSE /\ owns = TRUE
  /\ enabled = [p \in Ports |-> FALSE]
  /\ connLock = [p \in Ports |-> Nobody] /\ portLock = connLock
  /\ pool = "none" /\ poolCb = FALSE
  /\ loc = [h \in Headers |-> "none"]
  /\ transit = [p \in Ports |-> 0]
  /\ at = [c \in Controllers |-> "idle"]
  /\ op = [c \in Controllers |-> "none"]
  /\ via = [c \in Controllers |-> "out"]
  /\ event = "idle" /\ failures = 0 /\ lost = FALSE

Goto(c, place) == at' = [at EXCEPT ![c] = place] /\ UNCHANGED <<op, via>>
Fails == failures < MaxFailures /\ failures' = failures + 1

\* mmal_port_connect, _enable, _disable or _disconnect is called on p.
Call(c, what, p) ==
  /\ at[c] = "idle"
  /\ what = "connect" \/ connected
  /\ at' = [at EXCEPT ![c] = "lock1"]
  /\ op' = [op EXCEPT ![c] = what]
  /\ via' = [via EXCEPT ![c] = p]
  /\ UNCHANGED <<portVars, lockVars, headVars, event, failures, lost>>

\* The checks each call makes with one lock held.
Refused(c) ==
  LET p == via[c] IN
  CASE op[c] = "connect" -> connected \/ enabled[p]
    [] op[c] = "enable" -> enabled[p] \/ ~connected
    [] op[c] = "disable" -> ~enabled[p] \/ ~connected
    [] op[c] = "disconnect" -> ~connected

\* LOCK_CONNECTION(port), then the checks.
Lock1(c) ==
  /\ at[c] = "lock1" /\ connLock[via[c]] = Nobody
  /\ IF Refused(c) THEN Goto(c, "idle") /\ UNCHANGED connLock
     ELSE /\ connLock' = [connLock EXCEPT ![via[c]] = c]
          /\ Goto(c, "lock2")
  /\ UNCHANGED <<portVars, portLock, headVars, event, failures, lost>>

\* LOCK_CONNECTION(connected_port).
Lock2(c) ==
  /\ at[c] = "lock2" /\ connLock[Other(via[c])] = Nobody
  /\ connLock' = [connLock EXCEPT ![Other(via[c])] = c]
  /\ Goto(c, CASE op[c] = "connect" -> "connect"
               [] op[c] = "enable" -> "pool"
               [] op[c] = "disable" -> "disable_out"
               [] OTHER -> IF enabled[via[c]] THEN "disable_out"
                           ELSE "disconnect")
  /\ UNCHANGED <<portVars, portLock, headVars, event, failures, lost>>

Unlock(c) ==
  /\ at[c] = "unlock"
  /\ connLock' = [p \in Ports |-> Nobody]
  /\ Goto(c, "idle")
  /\ UNCHANGED <<portVars, portLock, headVars, event, failures, lost>>

\* mmal_port_connect: the output's component may take the connection over.
Connect(c) ==
  /\ at[c] = "connect"
  /\ IF enabled[Other(via[c])] THEN UNCHANGED <<connected, owns>>
     ELSE connected' = TRUE /\ owns' \in BOOLEAN
  /\ Goto(c, "unlock")
  /\ UNCHANGED <<enabled, pool, poolCb, lockVars, headVars, event, failures,
                 lost>>

\* mmal_port_connection_enable: the pool is created at the port that
\* allocates, with its callback; a pool already there is forgotten, and its
\* headers are not followed any further.
CreatePool(c) ==
  /\ at[c] = "pool"
  /\ \/ ~owns /\ Goto(c, "enable_in")
        /\ UNCHANGED <<pool, poolCb, headVars, lost, failures>>
     \/ owns /\ Fails /\ Goto(c, "unlock")
        /\ UNCHANGED <<pool, poolCb, headVars, lost>>
     \/ /\ owns
        /\ pool' \in Ports /\ poolCb' = TRUE
        /\ loc' = [h \in Headers |-> "queue"]
        /\ transit' = [p \in Ports |-> 0]
        /\ lost' = (lost \/ pool # "none")
        /\ Goto(c, "enable_in") /\ UNCHANGED failures
  /\ UNCHANGED <<connected, owns, enabled, lockVars, event>>

\* mmal_port_enable_internal(p), under the port's lock: the input is enabled
\* before the output whichever port the call was made on.
EnablePort(c, p) ==
  /\ at[c] = (IF p = "in" THEN "enable_in" ELSE "enable_out")
  /\ portLock[p] = Nobody
  /\ \/ ~enabled[p] /\ Fails /\ Goto(c, "undo_other") /\ UNCHANGED enabled
     \/ /\ enabled' = [enabled EXCEPT ![p] = TRUE]
        /\ Goto(c, IF p = "in" THEN "enable_out" ELSE "start")
        /\ UNCHANGED failures
  /\ UNCHANGED <<connected, owns, pool, poolCb, lockVars, headVars, event, lost>>

\* mmal_port_send_buffer(p, h), for a header that comes from elsewhere.
Send(p, h) == /\ enabled[p]
              /\ loc' = [loc EXCEPT ![h] = p]
              /\ transit' = [transit EXCEPT ![p] = @ + 1]

\* mmal_port_populate_from_pool: each header is sent to the output; one that
\* is refused is released, which offers it to the output once more through
\* the pool's callback and, refused again, leaves it in the queue.
Start(c) ==
  /\ at[c] = "start"
  /\ \/ /\ owns
        /\ \E h \in Headers : loc[h] = "queue" /\ Send("out", h)
        /\ UNCHANGED <<at, op, via, failures>>
     \/ /\ ~owns \/ \A h \in Headers : loc[h] # "queue"
        /\ Goto(c, "unlock") /\ UNCHANGED <<headVars, failures>>
     \/ /\ owns /\ Fails
        /\ UNCHANGED headVars \/ \E h \in Headers : loc[h] = "queue" /\ Send("out", h)
        /\ Goto(c, "undo_other")
  /\ UNCHANGED <<portVars, lockVars, event, lost>>

\* mmal_port_disable_internal(p), first half, under the port's lock: no more
\* headers are taken, the pool's callback is removed if this port has the
\* pool, the component is told.  If the component fails the port is enabled
\* again, but the callback is not restored.
DisablePort(c, p, here, next, error) ==
  /\ at[c] = here /\ portLock[p] = Nobody
  /\ poolCb' = (poolCb /\ ~(enabled[p] /\ pool = p))
  /\ \/ ~enabled[p] /\ Goto(c, next) /\ UNCHANGED <<enabled, portLock, failures>>
     \/ enabled[p] /\ Fails /\ Goto(c, error) /\ UNCHANGED <<enabled, portLock>>
     \/ /\ enabled[p]
        /\ enabled' = [enabled EXCEPT ![p] = FALSE]
        /\ portLock' = [portLock EXCEPT ![p] = c]
        /\ UNCHANGED <<callVars, failures>>
  /\ UNCHANGED <<connected, owns, pool, connLock, headVars, event, lost>>

\* Mutant: the headers in transit are not waited for.
DisableNoWait(c, p, here, next) ==
  /\ at[c] = here /\ portLock[p] = c
  /\ portLock' = [portLock EXCEPT ![p] = Nobody]
  /\ Goto(c, next)
  /\ UNCHANGED <<portVars, connLock, headVars, event, failures, lost>>

\* ... second half: IN_TRANSIT_WAIT, still under the port's lock.
DisableWait(c, p, here, next) ==
  /\ at[c] = here /\ portLock[p] = c /\ transit[p] = 0
  /\ portLock' = [portLock EXCEPT ![p] = Nobody]
  /\ Goto(c, next)
  /\ UNCHANGED <<portVars, connLock, headVars, event, failures, lost>>

Disable(c, p, here, next, error) ==
  DisablePort(c, p, here, next, error) \/ DisableWait(c, p, here, next)

\* mmal_port_disable and mmal_port_disconnect: the output first, then the
\* input, whichever port was named; the first error ends the call.
DisableBoth(c) ==
  \/ Disable(c, "out", "disable_out", "disable_in", "unlock")
  \/ Disable(c, "in", "disable_in", "destroy_pool", "unlock")

\* The error path of mmal_port_enable: the connected port, then this one,
\* whatever their directions; errors are not looked at.
Undo(c) ==
  \/ Disable(c, Other(via[c]), "undo_other", "undo", "undo")
  \/ Disable(c, via[c], "undo", "destroy_pool", "destroy_pool")

\* mmal_port_connection_disable.
DestroyPool(c) ==
  /\ at[c] = "destroy_pool"
  /\ pool' = "none" /\ poolCb' = FALSE
  /\ loc' = [h \in Headers |-> "none"]
  /\ Goto(c, IF op[c] = "disconnect" THEN "disconnect" ELSE "unlock")
  /\ UNCHANGED <<connected, owns, enabled, lockVars, transit, event, failures,
                 lost>>

\* The end of mmal_port_disconnect: a component that owns the connection may
\* refuse.
Disconnect(c) ==
  /\ at[c] = "disconnect"
  /\ \/ connected' = FALSE /\ UNCHANGED failures
     \/ ~owns /\ Fails /\ UNCHANGED connected
  /\ Goto(c, "unlock")
  /\ UNCHANGED <<owns, enabled, pool, poolCb, lockVars, headVars, event, lost>>

-----------------------------------------------------------------------------
(* The components' threads                                                 *)

\* mmal_buffer_header_release(h) on the pool: its callback sends the header
\* to the output, and it is queued if there is none or the output refuses.
ReleaseHeader(h, p) ==
  IF poolCb /\ enabled["out"]
  THEN /\ loc' = [loc EXCEPT ![h] = "out"]
       /\ transit' = [transit EXCEPT !["out"] = @ + 1, ![p] = @ - 1]
  ELSE /\ loc' = [loc EXCEPT ![h] = "queue"]
       /\ transit' = [transit EXCEPT ![p] = @ - 1]

\* The output's component is done with a header, filled or flushed:
\* mmal_port_buffer_header_callback and mmal_port_connected_output_cb, which
\* reads is_enabled,
OutputDone(h) ==
  /\ loc[h] = "out" /\ event = "idle"
  /\ IF enabled["out"]
     THEN loc' = [loc EXCEPT ![h] = "forward"] /\ UNCHANGED transit
     ELSE loc' = [loc EXCEPT ![h] = "release"] /\ UNCHANGED transit
  /\ UNCHANGED <<portVars, lockVars, callVars, event, failures, lost>>

\* then sends the header to the input, or releases it if it is refused.
Forward(h) ==
  /\ loc[h] = "forward"
  /\ IF enabled["in"]
     THEN /\ loc' = [loc EXCEPT ![h] = "in"]
          /\ transit' = [transit EXCEPT !["in"] = @ + 1, !["out"] = @ - 1]
     ELSE ReleaseHeader(h, "out")
  /\ UNCHANGED <<portVars, lockVars, callVars, event, failures, lost>>

FlushedBack(h) ==
  /\ loc[h] = "release"
  /\ ReleaseHeader(h, "out")
  /\ UNCHANGED <<portVars, lockVars, callVars, event, failures, lost>>

\* The input's component is done: mmal_port_connected_input_cb.
InputDone(h) ==
  /\ loc[h] = "in"
  /\ ReleaseHeader(h, "in")
  /\ UNCHANGED <<portVars, lockVars, callVars, event, failures, lost>>

\* The output's component reports a change of format: the callback commits
\* it, which needs the port's lock, before the thread can go on.
FormatChanged ==
  /\ FormatEvents /\ event = "idle" /\ enabled["out"]
  /\ event' = "commit"
  /\ UNCHANGED <<portVars, lockVars, headVars, callVars, failures, lost>>

FormatCommit ==
  /\ event = "commit" /\ portLock["out"] = Nobody
  /\ event' = "idle"
  /\ UNCHANGED <<portVars, lockVars, headVars, callVars, failures, lost>>

ComponentStep ==
  \/ \E h \in Headers :
       OutputDone(h) \/ Forward(h) \/ FlushedBack(h) \/ InputDone(h)
  \/ FormatChanged \/ FormatCommit

ControlStep(c) ==
  \/ Lock1(c) \/ Lock2(c) \/ Unlock(c) \/ Connect(c) \/ CreatePool(c)
  \/ \E p \in Ports : EnablePort(c, p)
  \/ Start(c) \/ DisableBoth(c) \/ Undo(c) \/ DestroyPool(c) \/ Disconnect(c)

TNext ==
  \/ ComponentStep
  \/ \E c \in Controllers :
       \/ ControlStep(c)
       \/ \E what \in {"connect", "enable", "disable", "disconnect"},
             p \in Via : Call(c, what, p)

\* Threads inside a call run on; a component gives back what it has.  Taking
\* a lock and ending the wait for the headers in transit are weak too: once
\* possible they stay so, the holder being the only one who could undo it.
TFair ==
  /\ \A c \in Controllers : WF_tvars(ControlStep(c))
  /\ \A h \in Headers : /\ WF_tvars(OutputDone(h)) /\ WF_tvars(Forward(h))
                        /\ WF_tvars(FlushedBack(h)) /\ WF_tvars(InputDone(h))
  /\ WF_tvars(FormatCommit)

TSpec == TInit /\ [][TNext]_tvars
TFairSpec == TSpec /\ TFair

-----------------------------------------------------------------------------
(* Properties                                                              *)

Placed(places) == {h \in Headers : loc[h] \in places}

\* Each port's count of headers in transit is the number of headers its
\* component or its callback has: what mmal_port_disable waits for is right
\* at every moment, with headers going back and forth during the wait.
TransitIsRight ==
  /\ transit["out"] = Cardinality(Placed({"out", "forward", "release"}))
  /\ transit["in"] = Cardinality(Placed({"in"}))

\* When the pool between the ports is destroyed every header is in it.
PoolDestroyedWhole ==
  \A c \in Controllers :
    at[c] = "destroy_pool" /\ pool # "none" => Placed({"queue"}) = Headers

\* A pool is overwritten by a second one, and leaked, only if a component has
\* refused to be disabled: mmal_port_disable then leaves one port enabled.
PoolLostOnlyByFailure == lost => failures > 0

\* Whatever happens in the components every call on the ports returns.
CallsReturn == \A c \in Controllers : []<>(at[c] = "idle")

=============================================================================
